--------------------------- MODULE MCLimiterRate ---------------------------
(* LimiterRate for TLC.  A tick is a minute, so either bucket refills whole   *)
(* in one; three cheap calls run short of requests and two dear ones of       *)
(* tokens, so that either bucket can be the one that makes a caller wait.     *)
EXTENDS LimiterRate

MCCapacity == [requests |-> 2, tokens |-> 3]
MCRate == [requests |-> 2, tokens |-> 3]
=============================================================================
