------------------------------ MODULE JvmLifecycle ------------------------------
(***************************************************************************)
(* The JVM a Python process shares between all its pyJaql.Jaql objects     *)
(* (trunk pyJaql.py: Jaql.__init__, close, isJVMStarted).                  *)
(*                                                                         *)
(* __init__ starts the JVM only when none is running, and always, in its   *)
(* finally clause, creates the JaqlQuery engine through jpype.  close()    *)
(* shuts the JVM down for the whole process, and jpype cannot start a JVM  *)
(* again after a shutdown ("Know JVM limitation may fire this exception"). *)
(*                                                                         *)
(* Instances are the Python variables holding Jaql objects; the steps of   *)
(* the one Python thread that uses them interleave in any order.           *)
(***************************************************************************)
CONSTANTS Instances

VARIABLES
  jvm,      \* "never" started, "up", or "down" after shutdownJVM
  inst,     \* inst[i]: "none", "ready", "failed" (__init__ raised), "closed"
  exc,      \* exc[i]: the exception __init__ raised to its caller, or "none"
  lastUse   \* lastUse[i]: how the latest engine call through i ended

lifeVars == <<jvm, inst, exc, lastUse>>

Exceptions == {"none", "JVMException", "SystemExit", "RuntimeError"}

\* jpype.isJVMStarted()
IsJVMStarted == jvm = "up"

(***************************************************************************)
(* The finally clause: jpype.JPackage("com").ibm.jaql.lang.JaqlQuery().    *)
(* With no JVM running jpype raises RuntimeError, which replaces whatever  *)
(* exception the try clause was raising; with the JVM up the engine is     *)
(* created and the pending exception, if any, goes on.                     *)
(***************************************************************************)
Finally(i, running, pending) ==
  /\ inst' = [inst EXCEPT ![i] = IF running /\ pending = "none" THEN "ready" ELSE "failed"]
  /\ exc'  = [exc EXCEPT ![i] = IF running THEN pending ELSE "RuntimeError"]

(***************************************************************************)
(* Jaql() assigned to variable i, given how the environment steps end when *)
(* no JVM is running: envExc is "none" when _configenv() builds a          *)
(* classpath _check_env accepts, "SystemExit" for exit("Failed") or        *)
(* _configenv's exit (not caught by `except Exception`), "JVMException"   *)
(* for another exception of _configenv (listdir of a missing directory),  *)
(* which the except clause re-raises as JVMException.  startJVM may fail  *)
(* (JVMException); after a shutdown it always fails.                      *)
(***************************************************************************)
ConstructWith(i, envExc) ==
  /\ inst[i] # "ready"
  /\ IF IsJVMStarted
     THEN /\ Finally(i, TRUE, "none")
          /\ UNCHANGED jvm
     ELSE IF envExc # "none"
          THEN /\ Finally(i, FALSE, envExc)
               /\ UNCHANGED jvm
          ELSE \E started \in IF jvm = "never" THEN BOOLEAN ELSE {FALSE} :
                 /\ jvm' = IF started THEN "up" ELSE jvm
                 /\ Finally(i, started, IF started THEN "none" ELSE "JVMException")
  /\ lastUse' = [lastUse EXCEPT ![i] = "none"]

\* Jaql() with the environment left open: any of its outcomes.
Construct(i) == \E envExc \in {"none", "SystemExit", "JVMException"} : ConstructWith(i, envExc)

\* close(): if jpype.isJVMStarted(): jpype.shutdownJVM()
Close(i) ==
  /\ inst[i] = "ready"
  /\ jvm' = IF IsJVMStarted THEN "down" ELSE jvm
  /\ inst' = [inst EXCEPT ![i] = "closed"]
  /\ UNCHANGED <<exc, lastUse>>

\* Any engine call through object i (evaluate, execute, ...): jpype raises
\* RuntimeError when the JVM is not running.
Use(i) ==
  /\ inst[i] = "ready"
  /\ lastUse' = [lastUse EXCEPT ![i] = IF IsJVMStarted THEN "ok" ELSE "RuntimeError"]
  /\ UNCHANGED <<jvm, inst, exc>>

LifeInit ==
  /\ jvm = "never"
  /\ inst = [i \in Instances |-> "none"]
  /\ exc = [i \in Instances |-> "none"]
  /\ lastUse = [i \in Instances |-> "none"]

LifeNext == \E i \in Instances : Construct(i) \/ Close(i) \/ Use(i)

LifeSpec == LifeInit /\ [][LifeNext]_lifeVars

-----------------------------------------------------------------------------
LifeTypeOK ==
  /\ jvm \in {"never", "up", "down"}
  /\ inst \in [Instances -> {"none", "ready", "failed", "closed"}]
  /\ exc \in [Instances -> Exceptions]
  /\ lastUse \in [Instances -> {"none", "ok", "RuntimeError"}]

(***************************************************************************)
(* An object nobody closed stays usable: while i is ready, the JVM its     *)
(* engine lives in is up.  close() is documented as "Close JAQL engine".   *)
(***************************************************************************)
OpenInstanceUsable == \A i \in Instances : inst[i] = "ready" => jvm = "up"
=============================================================================
