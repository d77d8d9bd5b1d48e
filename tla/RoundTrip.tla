------------------------------ MODULE RoundTrip ------------------------------
(***************************************************************************)
(* A caller of one trunk Jaql object who passes values it got back from    *)
(* earlier calls into later ones, as a client of a query bridge does when  *)
(* it looks something up and then queries with what it found.  It makes   *)
(* every call of PyJaql, and one more: evaluate(q, {v: x}) with x a value  *)
(* an earlier evaluate returned or an execute/current generator yielded,  *)
(* read off the result as the caller reads it (the field of a record).     *)
(***************************************************************************)
EXTENDS PyJaql

VARIABLE received  \* the values earlier calls handed to the caller

rtVars == <<vars, received>>

\* This step is an evaluate call that returned.
Answered == lastEval' # lastEval /\ lastEval'.outcome.exc = "none"

\* The values this step hands to the caller: what a new evaluate returned
\* and what the open generators now hold.
Fresh ==
  (IF Answered THEN {Reported(lastEval'.outcome.val)} ELSE {})
    \cup {Reported(gen'[g].last) : g \in {h \in Gens : gen'[h].pc = "open"}}

\* evaluate(q, {v: x}) with a value x the caller received.
EvaluateReceived ==
  \E q \in EvalQueries, v \in Vars, x \in received :
    Evaluate(q, [shape |-> "dict", dict |-> [w \in {v} |-> x]])

RTInit == Init /\ received = {}

RTNext == (Next \/ EvaluateReceived) /\ received' = received \cup Fresh

RTSpec == RTInit /\ [][RTNext]_rtVars
====
