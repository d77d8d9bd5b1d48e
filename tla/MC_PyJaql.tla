------------------------------- MODULE MC_PyJaql -------------------------------
(***************************************************************************)
(* Values for the constants of PyJaql.  Widths are scaled: a Python int of *)
(* 6 bits, a Java int of 4 and a Java long of 6 keep the order of the real *)
(* 64/32/64 and put every boundary within reach of small integers.         *)
(***************************************************************************)
EXTENDS PyJaql

\* Text values: two distinct strings, as byte strings and as unicode.
Str(i) == PyValue("str", i)
Uni(i) == PyValue("unicode", i)
Num(t, i) == PyValue(t, i)

\* Values every conversion keeps: in the Java int range, supported types.
SupportedValues == {Str(1), Num("int", 3), Num("float", 20), Num("bool", 1)}

\* Python ints beyond the Java int range (4 bits: -8..7).
WideInts == {Num("int", 5), Num("int", 9)}

=============================================================================
