----------------------------- MODULE PyJaqlTypes -----------------------------
(***************************************************************************)
(* The value conversions of the pyJaql bridge (trunk pyJaql.py):           *)
(*   __setVar          a Python value -> the Jaql Json value given to      *)
(*                     JaqlQuery.setVar, or no call at all;                *)
(*   __parseJsonValue  a Jaql Json atom -> the Python value returned.      *)
(*                                                                         *)
(* A Python value is a record [type, val].  Only what Python's == tells    *)
(* apart is kept: val is an integer for every type (the number itself for  *)
(* int/long/float/bool, an index of the text for str/unicode, 0 for list   *)
(* and None), and PyEqual compares as Python 2 does (1 == 1L == 1.0 ==     *)
(* True, "a" == u"a").                                                     *)
(*                                                                         *)
(* Widths are scaled down so that TLC can enumerate the boundary values:   *)
(* PyIntBits is the width of a Python 2 int (a C long, 64 on the target),  *)
(* JavaIntBits of a Java int (32) and JavaLongBits of a Java long (64).    *)
(***************************************************************************)
EXTENDS Integers

CONSTANTS PyIntBits, JavaIntBits, JavaLongBits

ASSUME /\ JavaIntBits \in Nat \ {0}
       /\ JavaIntBits < PyIntBits
       /\ PyIntBits <= JavaLongBits

PyTypes   == {"str", "unicode", "int", "long", "float", "bool", "list", "none"}
JsonKinds == {"JsonString", "JsonDecimal", "JsonDouble", "JsonLong", "JsonBool"}

\* The integers representable in a two's complement word of the given width.
InWidth(v, bits) == -(2^(bits - 1)) <= v /\ v < 2^(bits - 1)

\* The value a two's complement word of the given width keeps of v.
Wrap(v, bits) ==
  LET m == 2^bits IN ((v + m \div 2) % m) - m \div 2

PyValue(t, v) == [type |-> t, val |-> v]
JsonValue(k, v) == [kind |-> k, val |-> v]

\* Python 2 equality: numbers (bool included) compare by value, byte and
\* unicode strings by their text; a list or None equals only its own kind.
PyClass(t) ==
  CASE t \in {"int", "long", "float", "bool"} -> "number"
    [] t \in {"str", "unicode"}               -> "text"
    [] OTHER                                  -> t

PyEqual(a, b) == PyClass(a.type) = PyClass(b.type) /\ a.val = b.val

(***************************************************************************)
(* __setVar(varName, value): the outcomes of converting one Python value.  *)
(* "set" carries the Json value handed to setVar; "skip" is a value whose  *)
(* type none of the five exact type(value) == ... tests matches, so no     *)
(* setVar call is made; "raise" is the jpype conversion of a Python long   *)
(* that does not fit a Java long failing.  When it does not raise, the     *)
(* conversion keeps the low JavaLongBits bits, so both are possible.       *)
(***************************************************************************)
SetVarOutcome(kind, j) == [kind |-> kind, json |-> j]

SetVarOutcomes(value) ==
  CASE value.type = "str"   -> {SetVarOutcome("set", JsonValue("JsonString", value.val))}
    [] value.type = "int"   -> {SetVarOutcome("set", JsonValue("JsonDecimal", value.val))}
    [] value.type = "float" -> {SetVarOutcome("set", JsonValue("JsonDouble", value.val))}
    [] value.type = "long"  ->
         IF InWidth(value.val, JavaLongBits)
         THEN {SetVarOutcome("set", JsonValue("JsonLong", value.val))}
         ELSE {SetVarOutcome("raise", JsonValue("JsonLong", 0)),
               SetVarOutcome("set", JsonValue("JsonLong", Wrap(value.val, JavaLongBits)))}
    [] value.type = "bool"  -> {SetVarOutcome("set", JsonValue("JsonBool", value.val))}
    [] OTHER                -> {SetVarOutcome("skip", JsonValue("JsonString", 0))}

(***************************************************************************)
(* __parseJsonValue(json) for an atom: JsonString -> str, JsonDecimal ->   *)
(* intValue() (a Java int: the low JavaIntBits bits), JsonDouble ->        *)
(* doubleValue(), JsonLong -> longValue() (a Python int), JsonBool ->      *)
(* get() == 1.                                                             *)
(***************************************************************************)
\* Faulty variant: the JsonBool branch is missing, so a JsonBool reaches the
\* final `else : return json` and the Java object itself is returned.
ParseJsonValueNoBool(json) ==
  CASE json.kind = "JsonString"  -> PyValue("str", json.val)
    [] json.kind = "JsonDecimal" -> PyValue("int", Wrap(json.val, JavaIntBits))
    [] json.kind = "JsonDouble"  -> PyValue("float", json.val)
    [] json.kind = "JsonLong"    -> PyValue("int", json.val)
    [] OTHER                     -> json

ParseJsonValue(json) ==
  CASE json.kind = "JsonString"  -> PyValue("str", json.val)
    [] json.kind = "JsonDecimal" -> PyValue("int", Wrap(json.val, JavaIntBits))
    [] json.kind = "JsonDouble"  -> PyValue("float", json.val)
    [] json.kind = "JsonLong"    -> PyValue("int", json.val)
    [] json.kind = "JsonBool"    -> PyValue("bool", json.val)

(***************************************************************************)
(* A JsonRecord or JsonArray is not a JsonAtom: __parseJsonValue returns   *)
(* its toString() and the caller of __parseJsonValue passes that text to   *)
(* json.loads.  A result record is abstracted to one field holding an     *)
(* atom j (JaqlEngine's JsonRecord(j)).  json.loads of the printed field gives unicode   *)
(* for a string (Python 2's json module never returns str), a Python int   *)
(* for a number that fits a C long and a long beyond it (no intValue()     *)
(* truncation here), a float and a bool.                                   *)
(***************************************************************************)
JsonLoadsField(j) ==
  CASE j.kind = "JsonString"                 -> PyValue("unicode", j.val)
    [] j.kind \in {"JsonDecimal", "JsonLong"} ->
         PyValue(IF InWidth(j.val, PyIntBits) THEN "int" ELSE "long", j.val)
    [] j.kind = "JsonDouble"                 -> PyValue("float", j.val)
    [] j.kind = "JsonBool"                   -> PyValue("bool", j.val)

\* A Python dict of one field holding v: of is the field's type.
PyDict(v) == [type |-> "dict", val |-> v.val, of |-> v.type]

(***************************************************************************)
(* What every result path (__evaluate, __iterate, current, the function    *)
(* calls) does with a Json value: `if isinstance(value, JsonAtom): return  *)
(* __parseJsonValue(value) else: return json.loads(__parseJsonValue(...))` *)
(***************************************************************************)
ResultValue(json) ==
  IF json.kind = "JsonRecord" THEN PyDict(JsonLoadsField(JsonValue(json.of, json.val)))
                              ELSE ParseJsonValue(json)

\* The value the caller reads off a result: d["f"] of a one-field record,
\* the result itself otherwise.
Reported(value) == IF value.type = "dict" THEN PyValue(value.of, value.val) ELSE value
=============================================================================
