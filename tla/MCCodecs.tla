------------------------------ MODULE MCCodecs ------------------------------
(* Instances of Codecs for TLC. *)
EXTENDS Codecs

Values(type, ns) == {[type |-> type, n |-> n] : n \in ns}
Column(kind, gaps, vals, n) ==
  [kind |-> kind, gaps |-> gaps, values |-> vals, rows |-> n]

\* Rows of an integer column, of a boolean one, or of both; one that changes a type.
Map(cols) == [type |-> "map", cols |-> cols]
A(type, n) == [a |-> [type |-> type, n |-> n]]
Maps == {Map(A("int", -3)), Map([b |-> [type |-> "bool", n |-> 1]]),
         Map([a |-> [type |-> "int", n |-> 5], b |-> [type |-> "bool", n |-> 0]])}

\* Integers at the ends of the range; one that cannot be converted; timestamps of several
\* scales; more strings than the dictionary takes; rows of columns; changes of type.
AllColumns ==
  {Column("int", {1}, Values("int", {-8, 1, 2}), 3),
   Column("int", {1}, Values("int", {1}) \cup Values("string", {1}), 2),
   Column("int", {1, 2, 4}, Values("int", {1}), 3),
   Column("bool", {1}, Values("bool", {0, 1}), 3),
   Column("string", {1}, Values("string", {0, 1, 2}), 3),
   Column("adapt", {1}, Maps, 3),
   Column("adapt", {1}, Values("int", {3}) \cup Values("bool", {1})
                        \cup {Map(A("int", 2)), Map(A("bool", 1))}, 2)}

BooleanColumn == {Column("bool", {1}, Values("bool", {0, 1}), 3)}
=============================================================================
