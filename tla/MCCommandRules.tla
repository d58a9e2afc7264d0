---------------------------- MODULE MCCommandRules ----------------------------
(* CommandRules for TLC: every command alone in what its rules look at, and *)
(* every pair of a few that succeed, fail or are refused.                  *)
EXTENDS CommandRules

NoPlace == [selector |-> "none", group |-> "none", point |-> "none"]

Plain(op) ==
  [op |-> op, at |-> NoPlace, to |-> NoPlace, path |-> "none", word |-> TRUE,
   amount |-> "none", given |-> TRUE, soft |-> FALSE]

\* Operations that look at a selector, a word or an option.
Described ==
  {[Plain(op) EXCEPT !.at = [NoPlace EXCEPT !.selector = s, !.group = g],
                     !.word = w, !.given = n, !.soft = b] :
     op \in Operations \ (Counted \cup Pointed), s, g \in Content, w, n, b \in BOOLEAN}

Amounts == {[Plain(op) EXCEPT !.amount = a] : op \in Counted, a \in {"negative", "none", "positive"}}

Moves == {[Plain(op) EXCEPT !.at = p, !.path = q] : op \in {"mouse_move", "mouse_click"}, p \in Place, q \in Point}

Drags == {[Plain("drag") EXCEPT !.at = p, !.to = q] : p, q \in Place}

Few ==
  {[Plain(op) EXCEPT !.soft = b] : op \in {"navigate", "evaluate", "click"}, b \in BOOLEAN}

MCSubmissions ==
  {<<>>} \cup {<<c>> : c \in Described \cup Amounts \cup Moves \cup Drags}
    \cup {<<c, d>> : c, d \in Few} \cup {<<c, d, e>> : c, d, e \in Few}

==============================================================================
