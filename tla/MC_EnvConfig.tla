----------------------------- MODULE MC_EnvConfig -----------------------------
(***************************************************************************)
(* An installation laid out as a jaql source tree and a Hadoop 0.20        *)
(* release are: jaql.jar, the Hadoop core jar, and the logging jars of     *)
(* Hadoop's lib directory next to slf4j-log4j12, whose name contains       *)
(* "log4j".  Each name is split into tokens as EnvConfig describes.        *)
(***************************************************************************)
EXTENDS EnvConfig, TLC

JaqlJarFile     == <<"jaql", ".", "jar">>
HadoopCore  == <<"hadoop", "-", "0.20.2", "-", "core", ".", "jar">>
\* A Cloudera build: hadoop-0.20.2-cdh3u0-core.jar
CdhCore     == <<"hadoop", "-", "0.20.2", "-", "cdh", "3", "u", "0", "-", "core", ".", "jar">>
CommonsLog  == <<"commons", "-", "logging", "-", "1.0.4", ".", "jar">>
CommonsApi  == <<"commons", "-", "logging", "-", "api", "-", "1.0.4", ".", "jar">>
Log4j       == <<"log4j", "-", "1.2.15", ".", "jar">>
Slf4jLog4j  == <<"slf4j", "-", "log4j", "12", "-", "1.4.3", ".", "jar">>

MCJaqlHome   == <<"/", "opt", "/", "jaql">>
MCHadoopHome == <<"/", "opt", "/", "hadoop">>

MCJaqlFiles    == {JaqlJarFile}
MCCdhFiles     == {CdhCore}
MCCoreFiles    == {HadoopCore}
MCLibFiles     == {CommonsLog, CommonsApi, Log4j, Slf4jLog4j}
MCFewLibFiles  == {CommonsLog, CommonsApi, Log4j}

MCFileKind ==
  JaqlJarFile :> "jaql" @@ HadoopCore :> "hadoop-core"
    @@ CdhCore :> "hadoop-core" @@ CommonsLog :> "commons-logging"
    @@ CommonsApi :> "commons-logging-api" @@ Log4j :> "log4j" @@ Slf4jLog4j :> "other"

MCLetterFree == {"-", ".", "/", ":", "0.20.2", "1.0.4", "1.2.15", "1.4.3", "3", "0", "12"}
MCOneChar    == {"-", ".", "/", ":", "3", "0"}
=============================================================================
