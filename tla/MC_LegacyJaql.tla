---------------------------- MODULE MC_LegacyJaql ----------------------------
(***************************************************************************)
(* Values for the constants of LegacyJaql, with the widths of MC_PyJaql:   *)
(* a Python int of 6 bits, a Java int of 4 and a Java long of 6.           *)
(***************************************************************************)
EXTENDS LegacyJaql, TLC

\* A string of bare text, a string whose text spells the number 9
\* (NumeralTexts), and an int beyond a Java int (4 bits: -8..7) that a
\* Python int holds.
LegacyValues == {PyValue("str", 1), PyValue("str", 9), PyValue("int", 9)}

\* A long beyond a Java long (6 bits: -32..31), next to a supported value.
OverflowValues == {PyValue("int", 3), PyValue("long", 40)}

\* test.jql holds a one-statement query reading $x; other.jql does not exist.
MCScripts == ("test.jql" :> <<[var |-> "x", items |-> 2, shape |-> "atom"]>>) @@ ("other.jql" :> Missing)
====
