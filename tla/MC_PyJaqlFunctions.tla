--------------------------- MODULE MC_PyJaqlFunctions ---------------------------
(***************************************************************************)
(* Values for the constants of PyJaqlFunctions: the query calls keep one   *)
(* variable and one string value, enough to replace a registered          *)
(* definition as the query string; the function API gets one name, up to   *)
(* one formal, and every argument shape.                                   *)
(***************************************************************************)
EXTENDS PyJaqlFunctions

OneValue == {PyValue("str", 1)}

\* Argument shapes whose arguments reach the engine: no "other".
PassedShapes == {"none", "list", "tuple", "dict", "three"}

\* Every shape, with a second argument of another type.
AllShapes == PassedShapes \cup {"other"}
=============================================================================
