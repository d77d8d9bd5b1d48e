----------------------------- MODULE UsageSamples -----------------------------
(***************************************************************************)
(* The sample script ut/usageSamples.py run against the JVM lifecycle of   *)
(* the bridge it imports (src/src pyJaql.py, the same __init__ and close   *)
(* as JvmLifecycle).  __main__ calls sample functions in order (run(1),    *)
(* and any of the commented calls a user enables); each creates its own   *)
(* pyJaql.Jaql(), so the k-th call's local `jaql` is instance k.          *)
(*                                                                         *)
(* A sample is abstracted to its control flow: Jaql(), one engine call and *)
(* the loop over its result (execute, evaluate or evaluate_script), the    *)
(* except clauses, a finally clause, and the return to __main__.  The      *)
(* query text is not modelled: the engine call answers or fails with       *)
(* JAQLRuntimeException (an unreadable hdfs path, a missing script), and  *)
(* every call on an object raises RuntimeError while the JVM is down.      *)
(***************************************************************************)
EXTENDS Naturals, Sequences, JvmLifecycle

CONSTANT MaxCalls  \* most sample calls __main__ makes

ASSUME /\ MaxCalls \in Nat \ {0}
       /\ Instances = 1..MaxCalls

VARIABLES
  prog,    \* the sample functions __main__ calls, in order
  k,       \* the call running now
  pc,      \* "init" (at Jaql()), "query" (at the engine call), "end", "halted"
  raised   \* the exception that ended the script with a traceback, or "none"

sampleVars == <<prog, k, pc, raised>>
allVars == <<lifeVars, sampleVars>>

Samples == {"run", "retreive_field", "extension_statement_query", "script_query",
            "testTrue", "eval_script"}

\* The samples whose body is a try with `except pyJaql.JAQLRuntimeException`
\* and `except pyJaql.JVMException` clauses that print err.msg.
Guarded == {"run", "retreive_field", "extension_statement_query", "script_query"}

Caught(s) == IF s \in Guarded THEN {"JAQLRuntimeException", "JVMException"} ELSE {}

\* The samples with a finally clause: script_query's `jaql.close()`.
Closing == {"script_query"}

Programs == UNION {[1..n -> Samples] : n \in 1..MaxCalls}

Sample == prog[k]

\* What leaves the except clauses of the running sample when e was raised
\* in its try.
AfterExcept(e) == IF e \in Caught(Sample) THEN "none" ELSE e

\* The sample returns with exception e pending: __main__ goes on to its
\* next call, or ends; an exception ends the script with a traceback.
Return(e) ==
  CASE e # "none"      -> pc' = "halted" /\ raised' = e /\ k' = k
    [] k = Len(prog)   -> pc' = "end" /\ UNCHANGED <<raised, k>>
    [] OTHER           -> pc' = "init" /\ k' = k + 1 /\ UNCHANGED raised

(***************************************************************************)
(* jaql=pyJaql.Jaql().  When it raises, `jaql` stays unbound: the except    *)
(* clauses see the exception __init__ raised, and script_query's finally    *)
(* clause then evaluates jaql.close() and raises UnboundLocalError in its   *)
(* place.                                                                  *)
(***************************************************************************)
SampleInit ==
  /\ pc = "init"
  /\ Construct(k)
  /\ IF inst'[k] = "ready"
     THEN pc' = "query" /\ UNCHANGED <<k, raised>>
     ELSE Return(IF Sample \in Closing THEN "UnboundLocalError" ELSE AfterExcept(exc'[k]))
  /\ UNCHANGED prog

(***************************************************************************)
(* The engine call and the loop over its result, the except clauses, and   *)
(* script_query's finally clause: close(), which shuts the JVM down for    *)
(* every later Jaql() of the script.                                       *)
(***************************************************************************)
SampleQuery ==
  /\ pc = "query"
  /\ \E e \in IF IsJVMStarted THEN {"none", "JAQLRuntimeException"} ELSE {"RuntimeError"} :
       /\ lastUse' = [lastUse EXCEPT ![k] = IF e = "RuntimeError" THEN e ELSE "ok"]
       /\ IF Sample \in Closing
          THEN /\ jvm' = IF IsJVMStarted THEN "down" ELSE jvm
               /\ inst' = [inst EXCEPT ![k] = "closed"]
          ELSE UNCHANGED <<jvm, inst>>
       /\ Return(AfterExcept(e))
  /\ UNCHANGED <<prog, exc>>

SamplesInit ==
  /\ LifeInit
  /\ prog \in Programs
  /\ k = 1
  /\ pc = "init"
  /\ raised = "none"

SamplesNext == SampleInit \/ SampleQuery

SamplesSpec == SamplesInit /\ [][SamplesNext]_allVars
-----------------------------------------------------------------------------
(***************************************************************************)
(* The samples handle what pyJaql raises: the comment "init jaql           *)
(* environment, startup JVM" puts Jaql() inside a try whose except clauses *)
(* name JVMException and JAQLRuntimeException.  So a traceback ends the    *)
(* script only from a sample without a try (testTrue, eval_script); every  *)
(* other sample prints the failure and lets __main__ go on.                *)
(***************************************************************************)
SampleFailuresHandled == pc = "halted" => Sample \notin Guarded
====
