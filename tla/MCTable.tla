------------------------------ MODULE MCTable ------------------------------
(* Instances of Table for TLC. *)
EXTENDS Table

Config(async, vals, minInterval, dedupWindow, maxFiles, maxPoints) ==
  [async |-> async, vals |-> vals, minInterval |-> minInterval,
   dedupWindow |-> dedupWindow, maxFiles |-> maxFiles, maxPoints |-> maxPoints]

\* No sampling policy, flushing inline and in the background, with a log of two files
\* (the worker waits for the flush) and of three (it rotates while the flush runs); two
\* types of value; and both policies.
AllConfigs ==
  {Config(FALSE, {"num"}, 0, 0, 2, 3), Config(TRUE, {"num"}, 0, 0, 2, 3),
   Config(TRUE, {"num"}, 0, 0, 3, 3), Config(FALSE, {"num", "str"}, 0, 0, 3, 3),
   Config(TRUE, {"num"}, 1, 1, 3, 3)}
=============================================================================
