---------------------------- MODULE MCProxyLease ----------------------------
(* ProxyLease for TLC.                                                     *)
EXTENDS ProxyLease

==============================================================================
