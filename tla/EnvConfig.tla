------------------------------ MODULE EnvConfig ------------------------------
(***************************************************************************)
(* The classpath configuration of pyJaql (trunk env.py), which             *)
(* Jaql.__init__ runs before it starts a JVM:                              *)
(*   path = _configenv(); _check_env(path, False)                          *)
(*                                                                         *)
(* Names and paths are sequences of tokens.  A token is a run of letters,  *)
(* a run of characters that are not letters (a version such as "1.0.4"),  *)
(* or one of the separators "/", ":", ".", "-"; names are split at every   *)
(* place where a literal of env.py's substring tests and regular           *)
(* expressions may begin or end, so a test matching at character level     *)
(* matches at token level.  Directory listings come in any order.          *)
(***************************************************************************)
EXTENDS Integers, Sequences, FiniteSets
LOCAL INSTANCE SequencesExt
LOCAL INSTANCE FiniteSetsExt

CONSTANTS
  JaqlHome, HadoopHome,   \* token sequences of $JAQL_HOME and $HADOOP_HOME
  JaqlFiles, BuildFiles,  \* names that may be in $JAQL_HOME and $JAQL_HOME/build
  HadoopFiles, LibFiles,  \* names that may be in $HADOOP_HOME and $HADOOP_HOME/lib
  FileKind,               \* what each of those files really is
  LetterFree,             \* tokens holding no letter: matched by [^a-zA-Z]*
  OneChar,                \* one-character tokens: what the regex "." meets
  Missing                 \* model value: a directory that does not exist

Dirs == {"jaql", "build", "hadoop", "lib"}
Candidates == [jaql |-> JaqlFiles, build |-> BuildFiles, hadoop |-> HadoopFiles, lib |-> LibFiles]

\* An installation: the contents of each directory, or Missing.
Contents(d) == SUBSET Candidates[d] \cup {Missing}
\* A subdirectory exists only inside an existing directory.
FileSystems == {fsys \in [jaql : Contents("jaql"), build : Contents("build"),
                          hadoop : Contents("hadoop"), lib : Contents("lib")] :
                  /\ fsys.build # Missing => fsys.jaql # Missing
                  /\ fsys.lib # Missing => fsys.hadoop # Missing}

Join(p, item) == p \o <<"/">> \o item
DirPath == [jaql |-> JaqlHome, build |-> Join(JaqlHome, <<"build">>),
            hadoop |-> HadoopHome, lib |-> Join(HadoopHome, <<"lib">>)]

(***************************************************************************)
(* str.find(pat): the index of pat's first occurrence, or -1.              *)
(***************************************************************************)
Find(s, pat) ==
  LET at == {i \in 1..(Len(s) - Len(pat) + 1) : SubSeq(s, i, i + Len(pat) - 1) = pat}
  IN IF at = {} THEN -1 ELSE Min(at) - 1

(***************************************************************************)
(* The regular expressions of _check_env: a literal token, [^a-zA-Z]*, or  *)
(* the unescaped "." (any one character).  re.findall(p, s) is non-empty  *)
(* iff the pattern matches at some position.                               *)
(***************************************************************************)
Lit(t) == [k |-> "lit", t |-> t]
NonLetters == [k |-> "star", t |-> ""]
AnyChar == [k |-> "any", t |-> ""]

RECURSIVE MatchAt(_, _)
MatchAt(re, s) ==
  IF re = <<>> THEN TRUE
  ELSE CASE Head(re).k = "lit"  -> s # <<>> /\ Head(s) = Head(re).t /\ MatchAt(Tail(re), Tail(s))
         [] Head(re).k = "any"  -> s # <<>> /\ Head(s) \in OneChar /\ MatchAt(Tail(re), Tail(s))
         [] Head(re).k = "star" -> \/ MatchAt(Tail(re), s)
                                   \/ s # <<>> /\ Head(s) \in LetterFree /\ MatchAt(re, Tail(s))

FindAny(re, s) == \E i \in 1..Len(s) : MatchAt(re, SubSeq(s, i, Len(s)))

HadoopCoreRe  == <<Lit("hadoop"), Lit("-"), NonLetters, Lit("-"), Lit("core"), AnyChar, Lit("jar")>>
CommonsLogRe  == <<Lit("commons"), Lit("-"), Lit("logging"), Lit("-"), NonLetters, AnyChar, Lit("jar")>>
CommonsApiRe  == <<Lit("commons"), Lit("-"), Lit("logging"), Lit("-"), Lit("api"), Lit("-"),
                   NonLetters, AnyChar, Lit("jar")>>
\* Faulty variant: the "-" after log4j is missing.
Log4jReNoHyphen == <<Lit("log4j"), NonLetters, AnyChar, Lit("jar")>>

Log4jRe == <<Lit("log4j"), Lit("-"), NonLetters, AnyChar, Lit("jar")>>

(***************************************************************************)
(* _getjarfilelist(path): the items of listdir(path) whose text after the  *)
(* last "." is "jar", joined to path, in the order listdir gives them.     *)
(***************************************************************************)
IsJar(item) == Last(item) = "jar" /\ (Len(item) = 1 \/ item[Len(item) - 1] = ".")

GetJarFileLists(fs, d) ==
  {[i \in DOMAIN s |-> Join(DirPath[d], s[i])] : s \in SetToSeqs({f \in fs[d] : IsJar(f)})}

\* _CLASSPATH = _CLASSPATH + _SEPARATO + entry, for each entry in turn.
AddEntries(cp, entries) == FoldLeft(LAMBDA acc, e : acc \o <<":">> \o e, cp, entries)

(***************************************************************************)
(* _configenv(): the outcomes [exc, cp] it may end with.  With no          *)
(* JAQL_HOME it calls exit() (SystemExit); listdir of a directory that     *)
(* does not exist raises OSError.  Otherwise the classpath is: the         *)
(* jaql.jar jars of $JAQL_HOME and of $JAQL_HOME/build, $JAQL_HOME/conf,   *)
(* the "hadoop-" jars of $HADOOP_HOME, every jar of $HADOOP_HOME/lib, and  *)
(* the Hadoop conf directory, each after a separator.                      *)
(***************************************************************************)
JaqlJar(p)   == Find(p, <<"jaql", ".", "jar">>) > 0
HadoopJar(p) == Find(p, <<"hadoop", "-">>) >= 0

\* Faulty variant: the "hadoop-" filter is applied to the lib jars as well.
ConfigEnvLibFiltered(fs, home) ==
  IF ~home THEN {[exc |-> "SystemExit", cp |-> <<>>]}
  ELSE IF \E d \in Dirs : fs[d] = Missing THEN {[exc |-> "OSError", cp |-> <<>>]}
  ELSE {[exc |-> "none",
         cp |-> AddEntries(<<>>, SelectSeq(j, JaqlJar) \o SelectSeq(b, JaqlJar)
                                 \o <<Join(JaqlHome, <<"conf">>)>>
                                 \o SelectSeq(h, HadoopJar) \o SelectSeq(l, HadoopJar)
                                 \o <<Join(HadoopHome, <<"conf">>)>>)] :
          j \in GetJarFileLists(fs, "jaql"), b \in GetJarFileLists(fs, "build"),
          h \in GetJarFileLists(fs, "hadoop"), l \in GetJarFileLists(fs, "lib")}

ConfigEnv(fs, home) ==
  IF ~home THEN {[exc |-> "SystemExit", cp |-> <<>>]}
  ELSE IF \E d \in Dirs : fs[d] = Missing THEN {[exc |-> "OSError", cp |-> <<>>]}
  ELSE {[exc |-> "none",
         cp |-> AddEntries(<<>>, SelectSeq(j, JaqlJar) \o SelectSeq(b, JaqlJar)
                                 \o <<Join(JaqlHome, <<"conf">>)>>
                                 \o SelectSeq(h, HadoopJar) \o l
                                 \o <<Join(HadoopHome, <<"conf">>)>>)] :
          j \in GetJarFileLists(fs, "jaql"), b \in GetJarFileLists(fs, "build"),
          h \in GetJarFileLists(fs, "hadoop"), l \in GetJarFileLists(fs, "lib")}

(***************************************************************************)
(* _check_env(path, False): jaql.jar occurs in the path, and each of the   *)
(* four regular expressions matches somewhere in it.                       *)
(***************************************************************************)
CheckEnv(path) ==
  /\ Find(path, <<"jaql", ".", "jar">>) >= 0
  /\ FindAny(HadoopCoreRe, path)
  /\ FindAny(CommonsLogRe, path)
  /\ FindAny(CommonsApiRe, path)
  /\ FindAny(Log4jRe, path)

-----------------------------------------------------------------------------
(***************************************************************************)
(* The installation and the outcome of the two calls in Jaql.__init__.     *)
(***************************************************************************)
VARIABLES
  fs,      \* the directories' contents
  home,    \* JAQL_HOME is set
  out,     \* what _configenv() ended with, or NotRun
  accepted \* what _check_env(path, False) returned

envVars == <<fs, home, out, accepted>>
NotRun == [exc |-> "notrun", cp |-> <<>>]

\* Jaql.__init__ with no JVM running: path = _configenv(), then _check_env.
\* Every constructor call lists the directories again.
Configure ==
  /\ \E o \in ConfigEnv(fs, home) :
       /\ out' = o
       /\ accepted' = (o.exc = "none" /\ CheckEnv(o.cp))
  /\ UNCHANGED <<fs, home>>

\* The user changes the installation or the environment and starts again.
Reinstall ==
  /\ out # NotRun
  /\ fs' \in FileSystems
  /\ home' \in BOOLEAN
  /\ out' = NotRun
  /\ accepted' = FALSE

EnvInit ==
  /\ fs \in FileSystems
  /\ home \in BOOLEAN
  /\ out = NotRun
  /\ accepted = FALSE

EnvNext == Configure \/ Reinstall

EnvSpec == EnvInit /\ [][EnvNext]_envVars
-----------------------------------------------------------------------------
(***************************************************************************)
(* The reference: what the files really are (FileKind), whether the jars  *)
(* _check_env's comment requires are where jaql documents them, and what  *)
(* the entries of a classpath are.                                         *)
(***************************************************************************)
Required == {"jaql", "hadoop-core", "commons-logging", "commons-logging-api", "log4j"}

KindsIn(fsys, ds) ==
  {FileKind[f] : f \in UNION {IF fsys[d] = Missing THEN {} ELSE fsys[d] : d \in ds}}

\* jaql.jar under $JAQL_HOME or $JAQL_HOME/build (env.py 123), the Hadoop core
\* jar under $HADOOP_HOME, the logging jars under $HADOOP_HOME/lib.
RequiredInstalled(fsys) ==
  /\ "jaql" \in KindsIn(fsys, {"jaql", "build"})
  /\ "hadoop-core" \in KindsIn(fsys, {"hadoop"})
  /\ {"commons-logging", "commons-logging-api", "log4j"} \subseteq KindsIn(fsys, {"lib"})

\* The elements of a classpath: the texts between its ":" separators.
Entries(cp) ==
  LET seps == {0} \cup {i \in DOMAIN cp : cp[i] = ":"}
      next(i) == Min({k \in seps \cup {Len(cp) + 1} : k > i})
  IN {SubSeq(cp, i + 1, next(i) - 1) : i \in seps}

Basename(e) ==
  LET slashes == {k \in DOMAIN e : e[k] = "/"}
  IN IF slashes = {} THEN e ELSE SubSeq(e, Max(slashes) + 1, Len(e))

KindOf(name) == IF name \in DOMAIN FileKind THEN FileKind[name] ELSE "other"

\* The places the comments of _configenv list: jars of the four directories
\* and the two conf directories.
ListedEntries ==
  UNION {{Join(DirPath[d], f) : f \in Candidates[d]} : d \in Dirs}
    \cup {Join(JaqlHome, <<"conf">>), Join(HadoopHome, <<"conf">>)}

EnvTypeOK ==
  /\ fs \in FileSystems
  /\ home \in BOOLEAN
  /\ out.exc \in {"notrun", "none", "SystemExit", "OSError"}
  /\ accepted \in BOOLEAN

(***************************************************************************)
(* _check_env accepts only what it says it checks: when it returns True,   *)
(* each required jar is an element of the classpath _configenv built.      *)
(***************************************************************************)
CheckEnvSound ==
  accepted => Required \subseteq {KindOf(Basename(e)) : e \in Entries(out.cp)}

(***************************************************************************)
(* A good installation gets a classpath: when JAQL_HOME is set and the     *)
(* required jars are where jaql documents them ("jaql.jar under            *)
(* $JAQL_HOME or $JAQL_HOME/build"), _configenv returns a classpath.       *)
(***************************************************************************)
ConfigEnvTotal ==
  (out # NotRun /\ home /\ RequiredInstalled(fs)) => out.exc = "none"

(***************************************************************************)
(* _check_env rejects no good installation: when _configenv built a        *)
(* classpath and the required jars are installed, it returns True.         *)
(***************************************************************************)
CheckEnvComplete ==
  (out.exc = "none" /\ RequiredInstalled(fs)) => accepted

(***************************************************************************)
(* The classpath holds only what the comments of _configenv list: every    *)
(* element is one of the jars found or one of the two conf directories (an *)
(* empty element would put the JVM's current directory on it).            *)
(***************************************************************************)
ClasspathOnlyListed ==
  out.exc = "none" => Entries(out.cp) \subseteq ListedEntries
=============================================================================
