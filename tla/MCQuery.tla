------------------------------ MODULE MCQuery -------------------------------
(* Instances of Query for TLC. *)
EXTENDS Query

Ask(lo, hi, least, limit, offset, old) ==
  [tag |-> 1, lo |-> lo, hi |-> hi, least |-> least, limit |-> limit, offset |-> offset, old |-> old]

\* All of tag 1, and a page of the values above zero at its end.
SomeRequests == {Ask(1, 2, -9, 0, 0, FALSE), Ask(2, 2, 0, 1, 1, TRUE)}

\* Values that go down and up, with a mean that is not an integer.
Values == [i \in 1 .. MaxPoints |-> <<3, -4, 1, 2>>[1 + (i % 4)]]
=============================================================================
