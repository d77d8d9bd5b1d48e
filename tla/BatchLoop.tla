------------------------------- MODULE BatchLoop -------------------------------
(***************************************************************************)
(* The documented way to run a batch on a Jaql object, as in               *)
(* testExecuteBatchScript (pyJaqlTest.py):                                 *)
(*                                                                         *)
(*     jaql.exectue_batch(script, vars)                                    *)
(*     while jaql.move_next():                                             *)
(*         for v in jaql.current(): ...                                    *)
(*                                                                         *)
(* composed with the PyJaql model of the object.  The loop is sequential   *)
(* code, so every step of it that can be taken is eventually taken (weak   *)
(* fairness on each).                                                      *)
(* After a run ends it starts another on the same object, which keeps its  *)
(* engine and its bindings.                                                *)
(***************************************************************************)
EXTENDS PyJaql
LOCAL INSTANCE SequencesExt

VARIABLES
  loop,  \* where the client is: "start", "move", "current", "drain", "done"
  got,   \* the values the current() loops yielded in this run
  want   \* the values of the batch's statements, in order, once loaded

clientVars == <<loop, got, want>>
allVars == <<vars, clientVars>>

\* The one generator object the client uses for current().
G == CHOOSE g \in Gens : TRUE

\* The number of leading statements of the loaded query whose variable is
\* bound: moveNextQuery fails at the statement after them.
BoundPrefix(e) ==
  LET bound(i) == e.bindings[e.query[i].var] # NoJson
  IN CHOOSE k \in 0..Len(e.query) :
       /\ \A i \in 1..k : bound(i)
       /\ k < Len(e.query) => ~bound(k + 1)

\* The values those statements yield, statement by statement, as
\* current() converts them (ResultValue).
StatementValues(e) ==
  FlattenSeq([i \in 1..BoundPrefix(e) |->
                [k \in 1..e.query[i].items |-> ResultValue(StmtItem(e.query[i], e.bindings[e.query[i].var]))]])

\* jaql.exectue_batch(script, vars) with a dict of variables.
LoopLoad ==
  /\ loop = "start"
  /\ \E q \in Queries, d \in Dicts : ExecuteBatch(q, [shape |-> "dict", dict |-> d])
  /\ loop' = "move"
  /\ got' = <<>>
  /\ want' = StatementValues(eng')

\* while jaql.move_next(): an exception ends the run.
LoopMove ==
  /\ loop = "move"
  /\ MoveNext
  /\ loop' = IF lastMove' = "true" THEN "current" ELSE "done"
  /\ UNCHANGED <<got, want>>

\* it = jaql.current()
LoopCurrent ==
  /\ loop = "current"
  /\ CurrentCall(G)
  /\ loop' = "drain"
  /\ UNCHANGED <<got, want>>

\* for v in it: one next() of the generator.
LoopDrain ==
  /\ loop = "drain"
  /\ CurrentFirst(G) \/ CurrentNext(G)
  /\ got' = IF gen'[G].pc = "open" THEN Append(got, gen'[G].last) ELSE got
  /\ loop' = CASE gen'[G].pc = "open"     -> "drain"
               [] gen'[G].pc = "finished" -> "move"
               [] OTHER                   -> "done"
  /\ UNCHANGED want

\* The client runs the next batch on the same object.
LoopAgain ==
  /\ loop = "done"
  /\ loop' = "start"
  /\ UNCHANGED <<vars, got, want>>

LoopInit ==
  /\ Init
  /\ loop = "start"
  /\ got = <<>>
  /\ want = <<>>

LoopNext == LoopLoad \/ LoopMove \/ LoopCurrent \/ LoopDrain \/ LoopAgain

\* Once a batch is loaded the client's loop runs on: each of its steps is
\* taken when it can be.  Loading another batch is the caller's choice.
LoopFairness ==
  /\ WF_allVars(LoopMove)
  /\ WF_allVars(LoopCurrent)
  /\ WF_allVars(LoopDrain)

LoopSpec == LoopInit /\ [][LoopNext]_allVars /\ LoopFairness

-----------------------------------------------------------------------------
LoopTypeOK ==
  /\ TypeOK
  /\ loop \in {"start", "move", "current", "drain", "done"}
  /\ got \in Seq(PyValues)
  /\ want \in Seq(PyValues)

-----------------------------------------------------------------------------
(***************************************************************************)
(* The loop implements BatchStream: a run is in progress from LoopLoad     *)
(* until move_next() ends it, the batch's values are want, and what the    *)
(* current() loops have yielded is what the client received.               *)
(***************************************************************************)
Stream == INSTANCE BatchStream WITH
  Values  <- PyValues,
  running <- loop \in {"move", "current", "drain"},
  want    <- want,
  out     <- got

(***************************************************************************)
(* The batch loop behaves as the stream: each statement's values are       *)
(* yielded once and in order, a run ends only when all of them were        *)
(* yielded, and every loaded batch is consumed to its end.  The cursor     *)
(* lives in the engine and current() reads it only when its generator      *)
(* starts, so this rests on move_next, current and the generator steps     *)
(* keeping in step.                                                        *)
(***************************************************************************)
BatchRefinesStream == Stream!StreamSpec
=============================================================================
