------------------------------- MODULE JaqlInit -------------------------------
(***************************************************************************)
(* Jaql.__init__ whole (trunk pyJaql.py 34-51): the JVM lifecycle of       *)
(* JvmLifecycle with the environment steps of EnvConfig in place of the    *)
(* free choice Construct makes.  When no JVM is running, a constructor     *)
(* runs _configenv() and _check_env(path, False) on the installation and   *)
(* starts the JVM with the classpath they produced.                        *)
(***************************************************************************)
EXTENDS EnvConfig, JvmLifecycle

VARIABLE
  jvmCp  \* the classpath of the latest startJVM, <<>> before any

initVars == <<envVars, lifeVars, jvmCp>>

\* How the environment steps end for __init__: a classpath _check_env
\* rejects leads to exit("Failed"); _configenv's own exit is SystemExit; any
\* other exception of _configenv is caught and re-raised as JVMException.
EnvException(o, acc) ==
  CASE o.exc = "none" /\ acc -> "none"
    [] o.exc = "none"        -> "SystemExit"
    [] o.exc = "SystemExit"  -> "SystemExit"
    [] OTHER                 -> "JVMException"

\* Jaql() assigned to variable i.
ConstructConfigured(i) ==
  IF IsJVMStarted
  THEN /\ ConstructWith(i, "none")
       /\ UNCHANGED <<envVars, jvmCp>>
  ELSE /\ Configure
       /\ ConstructWith(i, EnvException(out', accepted'))
       /\ jvmCp' = IF jvm' = "up" THEN out'.cp ELSE jvmCp

InitInit == EnvInit /\ LifeInit /\ jvmCp = <<>>

\* The installation is the one the process started with.
InitNext ==
  \E i \in Instances :
    \/ ConstructConfigured(i)
    \/ (Close(i) \/ Use(i)) /\ UNCHANGED <<envVars, jvmCp>>

InitSpec == InitInit /\ [][InitNext]_initVars
-----------------------------------------------------------------------------
(***************************************************************************)
(* The JVM pyJaql starts has the jars its engine needs: while the JVM is   *)
(* up, each jar _check_env's comment requires is an element of the         *)
(* classpath given to startJVM, whatever installation changes and          *)
(* constructor calls came before.                                          *)
(***************************************************************************)
JvmStartedWithRequiredJars ==
  jvm = "up" => Required \subseteq {KindOf(Basename(e)) : e \in Entries(jvmCp)}
=============================================================================
