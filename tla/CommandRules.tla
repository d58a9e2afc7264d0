----------------------------- MODULE CommandRules -----------------------------
(***************************************************************************)
(* The commands of a task between two programs: the service validates them *)
(* (internal/app/task_validation.go, selector_validation.go) and sends     *)
(* them as JSON, the worker looks at what arrives and runs them in order   *)
(* (playwrightworker/scripts: execute_task, the handlers, the locators).   *)
(* Both have rules of their own for what a command needs.                  *)
(*                                                                         *)
(* What a rule looks at is one of few things: a selector, a group of       *)
(* selectors or a text is there or not; blank is one whose values are all  *)
(* empty; a point at the origin loses both zeros in the JSON.              *)
(***************************************************************************)
EXTENDS Naturals, Sequences

CONSTANT Submissions   \* the sequences of commands clients send

Selected ==
  {"click", "fill", "set_checked", "clear", "focus", "blur", "hover",
   "wait_for_selector", "extract_text", "count_elements", "get_attribute",
   "extract_element", "upload_file", "select_option", "submit_form"}
Worded ==
  {"navigate", "type_text", "press", "wait_for_text", "wait_for_url",
   "get_attribute", "evaluate"}
Optional == {"type_text", "press", "scroll", "screenshot"}   \* as to their selector
Free ==
  {"reload", "go_back", "go_forward", "mouse_down", "mouse_up", "get_page_state",
   "get_cookies", "get_storage_state", "wait_for_load_state"}
Counted == {"wait_for_timeout", "wait_for_network_request", "get_network_requests"}
Pointed == {"mouse_move", "mouse_click", "drag"}
Navigations ==
  {"navigate", "reload", "go_back", "go_forward", "wait_for_url", "wait_for_load_state"}

Operations == Selected \cup Worded \cup Optional \cup Free \cup Counted \cup Pointed

Content == {"none", "blank", "set"}
Point == {"none", "origin", "set"}
Place == [selector : Content, group : Content, point : Point]

Command ==
  [op : Operations,
   at : Place,
   to : Place,           \* the target of a drag
   path : Point,         \* of a mouse move: origin when all its points are there
   word : BOOLEAN,       \* its url, text, key, name or script
   amount : {"negative", "none", "positive"},   \* its duration, timeout or limit
   given : BOOLEAN,      \* a delta, an option, valid file secret refs
   soft : BOOLEAN]       \* continue_on_error

ASSUME SubmissionAssumption == Submissions \subseteq Seq(Command)

VARIABLES
  task,     \* the commands of the request
  stage,    \* sent, refused, running, SUCCEEDED or FAILED
  results   \* of the commands that were run: "ok", or the code of the error

vars == <<task, stage, results>>

------------------------------------------------------------------------------
(* The service.                                                            *)

\* Mutant of HasSelector: a group counts whatever its selectors hold.
HasAnyGroup(p) == p.selector = "set" \/ p.group # "none"

HasSelector(p) == p.selector = "set" \/ p.group = "set"

\* validateCommand.
Accepts(c) ==
  /\ c.op \in Selected => HasSelector(c.at)
  /\ c.op \in Worded => c.word
  /\ c.op \in {"upload_file", "select_option"} => c.given
  /\ c.op = "scroll" => HasSelector(c.at) \/ c.given
  /\ c.op = "mouse_move" => c.at.point # "none" \/ c.path # "none"
  /\ c.op = "mouse_click" => c.at.point # "none"
  /\ c.op = "drag" => \A p \in {c.at, c.to} : HasSelector(p) \/ p.point # "none"
  /\ c.op = "wait_for_timeout" => c.amount = "positive"
  /\ c.op \in {"wait_for_network_request", "get_network_requests"} => c.amount # "negative"

Init ==
  /\ task \in Submissions
  /\ stage = "sent"
  /\ results = <<>>

Validate ==
  /\ stage = "sent"
  /\ stage' = IF task # <<>> /\ \A i \in 1..Len(task) : Accepts(task[i])
              THEN "running" ELSE "refused"
  /\ UNCHANGED <<task, results>>

------------------------------------------------------------------------------
(* The worker.                                                             *)

\* A group with any selectors is taken before the selector.
Locates(p) == IF p.group # "none" THEN p.group = "set" ELSE p.selector = "set"

\* point_value: an empty object is no point.
Sees(point) == point = "set"

\* One end of a drag.
Reaches(p) ==
  IF p.selector = "set" \/ p.group # "none" THEN Locates(p) ELSE Sees(p.point)

\* There is nothing to resolve the secret of an upload, and the key under which
\* evaluate reads its script is no field of the message.
Runs(c) ==
  /\ c.op \notin {"upload_file", "evaluate"}
  /\ c.op \in Selected => Locates(c.at)
  /\ c.op \in Optional /\ HasSelector(c.at) => Locates(c.at)
  /\ c.op \in Worded => c.word
  /\ c.op = "mouse_move" => Sees(IF c.path # "none" THEN c.path ELSE c.at.point)
  /\ c.op = "mouse_click" => Sees(c.at.point)
  /\ c.op = "drag" => Reaches(c.at) /\ Reaches(c.to)
  /\ c.op = "wait_for_timeout" => c.amount = "positive"

RefusalCode(c) ==
  IF c.op = "upload_file" THEN "unsupported_operation" ELSE "validation_failed"

\* operation_error_code, and the codes of a timeout and of any other exception.
PageCodes(c) ==
  {"timeout", "browser_unavailable",
   IF c.op \in Navigations THEN "navigation_failed" ELSE "browser_unavailable"}

Outcomes(c) == IF Runs(c) THEN {"ok"} \cup PageCodes(c) ELSE {RefusalCode(c)}

Current == task[Len(results) + 1]

\* Mutant of Execute: a failure that may be skipped ends the task.
ExecuteStrictly ==
  /\ stage = "running"
  /\ Len(results) < Len(task)
  /\ \E o \in Outcomes(Current) :
       /\ results' = Append(results, o)
       /\ stage' = IF o = "ok" THEN stage ELSE "FAILED"
  /\ UNCHANGED task

\* execute_task: the results so far go with the error of a command that may not fail.
Execute ==
  /\ stage = "running"
  /\ Len(results) < Len(task)
  /\ \E o \in Outcomes(Current) :
       /\ results' = Append(results, o)
       /\ stage' = IF o = "ok" \/ Current.soft THEN stage ELSE "FAILED"
  /\ UNCHANGED task

\* No error in the answer: the task has succeeded.
Complete ==
  /\ stage = "running"
  /\ Len(results) = Len(task)
  /\ stage' = "SUCCEEDED"
  /\ UNCHANGED <<task, results>>

Next == Validate \/ Execute \/ Complete

Spec == Init /\ [][Next]_vars

------------------------------------------------------------------------------
(* Properties.                                                             *)

\* What the worker refuses although the service accepted it: two operations it
\* cannot do, a selector behind a group of blank ones, a blank group at an end
\* of a drag that has a point, and the origin where only a point tells where.
EndLost(p) ==
  \/ p.group = "blank"
  \/ p.group = "none" /\ p.selector # "set" /\ p.point = "origin"

Gap(c) ==
  \/ c.op \in {"upload_file", "evaluate"}
  \/ c.op \in Selected \cup Optional /\ c.at.selector = "set" /\ c.at.group = "blank"
  \/ c.op = "mouse_click" /\ c.at.point = "origin"
  \/ c.op = "mouse_move" /\ "origin" = (IF c.path = "none" THEN c.at.point ELSE c.path)
  \/ c.op = "drag" /\ (EndLost(c.at) \/ EndLost(c.to))

\* The rules of the service and of the worker agree: of the commands of an
\* accepted task the worker turns down those that have a gap, and no other.
AcceptedRuns ==
  \A i \in 1..Len(results) :
    results[i] \in {"validation_failed", "unsupported_operation"} <=> Gap(task[i])

\* A task fails with the first command that failed and may not, after which
\* none is run; it succeeds when all were run and those that failed may.
EndsAsCommands ==
  LET failed == {i \in 1..Len(results) : results[i] # "ok" /\ ~task[i].soft} IN
  /\ stage = "FAILED" => failed = {Len(results)}
  /\ stage = "SUCCEEDED" => failed = {} /\ Len(results) = Len(task)
  /\ stage = "running" => failed = {}

==============================================================================
