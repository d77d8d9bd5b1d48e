------------------------------ MODULE LegacyJaql ------------------------------
(***************************************************************************)
(* The older bridge, src/src/python/pyJaql/pyJaql/pyJaql.py: one Jaql      *)
(* object over the com.ibm.jaql.lang.Jaql engine (setInput, setVar, iter,  *)
(* evalNext, addJar, setProperty, getProperty).  Its __init__ and close()  *)
(* are the trunk's, modelled by JvmLifecycle.                              *)
(*                                                                         *)
(* It differs from the trunk bridge in what these modules can tell apart:  *)
(*  - a dict key is prefixed with "$" (key.rjust(len(key)+1,'$')), so the  *)
(*    caller writes {"name": v} for $name;                                 *)
(*  - values come back through json.loads(str(jv.toString())), except that *)
(*    execute() yields a JsonString as str(jv.toString());                 *)
(*  - the argument checks only print, and nothing but the engine calls is  *)
(*    inside a try, so other failures reach the caller unwrapped;          *)
(*  - execute_script and evaluate_script read the query from a file.       *)
(*                                                                         *)
(* The engine is JaqlEngine's: setInput is setQueryString, evalNext() the  *)
(* value of the first statement, iter() the items of a statement, each     *)
(* reading its variable when pulled.  Queries have one statement.  A       *)
(* generator is a pc as in PyJaql.                                         *)
(***************************************************************************)
EXTENDS PyJaqlTypes, JaqlEngine
LOCAL INSTANCE SequencesExt

CONSTANTS
  Gens,        \* generator objects the caller may hold at once
  HostValues,  \* Python values the caller passes in variable dicts
  Scripts,     \* Scripts[p]: the query in script file p, or Missing
  Missing,     \* model value: no such file
  JarPaths,    \* paths the caller passes to add_jar
  JarFiles,    \* the jar files that exist
  PropNames,   \* engine property names
  PropValues,  \* property values (strings)
  NumeralTexts \* the strings (by val) whose text spells a JSON number

VARIABLES
  eng,       \* the engine object self.jaql
  gen,       \* gen[g]: the state of generator object g
  lastCall,  \* what the latest evaluate()/evaluate_script() was given and how it ended
  jars,      \* the jars the engine has loaded
  props,     \* the engine's properties
  lastOther  \* how the latest add_jar/set_property/get_property ended

vars == <<eng, gen, lastCall, jars, props, lastOther>>

NoProp == "null"
Defaults == [n \in PropNames |-> IF n \in {"enableRewrite", "stopOnException"} THEN "true" ELSE NoProp]

LQueries == {q \in Queries : Len(q) = 1}

\* A dict key as the caller writes it: "v", or "$v".
Keys == [v : Vars, dollar : BOOLEAN]
Dicts == UNION {[D -> HostValues] : D \in SUBSET Keys}
NoDict == [k \in {} |-> NoJson]

(***************************************************************************)
(* The arguments after the query: none ("one"), a dict, or a second        *)
(* argument that is a non-empty list or a string ("nondict").  A third     *)
(* argument fails `assert len(args)<=2`, whose except clause only prints,  *)
(* and is then ignored: such a call is the call with the first two.        *)
(***************************************************************************)
Args == [shape : {"one", "nondict"}, dict : {NoDict}] \cup [shape : {"dict"}, dict : Dicts]

PyNone == PyValue("none", 0)
Returned(v) == [exc |-> "none", val |-> v]
Raised(x)   == [exc |-> x, val |-> PyNone]

\* The query reads $v.  key.rjust adds one "$": a key "v" sets $v, a key
\* "$v" sets $$v, which the query does not read.
Binds(args, v) == args.shape = "dict" /\ [v |-> v, dollar |-> FALSE] \in DOMAIN args.dict

Expect(args, v) ==
  IF Binds(args, v) THEN [bound |-> TRUE, val |-> args.dict[[v |-> v, dollar |-> FALSE]]]
                    ELSE [bound |-> FALSE, val |-> PyNone]

(***************************************************************************)
(* __setVar(varkey, value) after key.rjust: the set of [ok, e] it may end  *)
(* with.  The conversions are the trunk's (SetVarOutcomes); a conversion   *)
(* that raises is outside any try, so the caller sees it unwrapped.        *)
(***************************************************************************)
LSetVar(e, k, value) ==
  {CASE o.kind = "set"  -> [ok |-> TRUE, e |-> IF k.dollar THEN e ELSE SetVar(e, k.v, o.json)]
     [] o.kind = "skip" -> [ok |-> TRUE, e |-> e]
     [] o.kind = "raise" -> [ok |-> FALSE, e |-> e]
   : o \in SetVarOutcomes(value)}

RECURSIVE LSetEach(_, _, _)
LSetEach(e, d, ks) ==
  IF ks = <<>> THEN {[ok |-> TRUE, e |-> e]}
  ELSE UNION {IF r.ok THEN LSetEach(r.e, d, Tail(ks)) ELSE {r} : r \in LSetVar(e, Head(ks), d[Head(ks)])}

\* The `for key in iter(params)` loop: over a list or a string the keys are
\* its items, and key.rjust or params[key] raises.
LSetVars(e, args) ==
  CASE args.shape = "one"     -> {[ok |-> TRUE, e |-> e]}
    [] args.shape = "nondict" -> {[ok |-> FALSE, e |-> e]}
    [] OTHER -> UNION {LSetEach(e, args.dict, ks) : ks \in SetToSeqs(DOMAIN args.dict)}

(***************************************************************************)
(* json.loads(str(jv.toString())): the text of a number or a boolean reads *)
(* back as the Python number or bool it spells, an integer beyond a C long *)
(* as a long.  The text of a JsonString is the bare string, not quoted:    *)
(* json.loads raises ValueError for most strings, but a string whose text  *)
(* itself spells JSON ('23', 'true', 'null') reads back as what it spells. *)
(* The model's strings of NumeralTexts stand for those: string i spells    *)
(* the integer i.                                                          *)
(***************************************************************************)
JsonLoadsText(j) ==
  CASE j.kind = "JsonString" /\ j.val \notin NumeralTexts -> [ok |-> FALSE, val |-> PyNone]
    [] j.kind \in {"JsonDecimal", "JsonLong", "JsonString"} ->
         [ok |-> TRUE, val |-> PyValue(IF InWidth(j.val, PyIntBits) THEN "int" ELSE "long", j.val)]
    [] j.kind = "JsonDouble" -> [ok |-> TRUE, val |-> PyValue("float", j.val)]
    [] j.kind = "JsonBool"   -> [ok |-> TRUE, val |-> PyValue("bool", j.val)]

\* Faulty variant: a JsonDecimal is read back with intValue(), as the trunk
\* bridge's __parseJsonValue does.
LegacyItemIntValue(j) ==
  CASE j.kind = "JsonString"  -> [ok |-> TRUE, val |-> PyValue("str", j.val)]
    [] j.kind = "JsonDecimal" -> [ok |-> TRUE, val |-> PyValue("int", Wrap(j.val, JavaIntBits))]
    [] OTHER                  -> JsonLoadsText(j)

\* The value execute() yields for an item jv: a JsonString as str(jv.toString()).
LegacyItem(j) ==
  IF j.kind = "JsonString" THEN [ok |-> TRUE, val |-> PyValue("str", j.val)]
  ELSE JsonLoadsText(j)
-----------------------------------------------------------------------------
NoGen == [pc |-> "free", src |-> "expr", q |-> <<>>, args |-> [shape |-> "one", dict |-> NoDict],
          var |-> CHOOSE v \in Vars : TRUE, n |-> 0, pos |-> 0, last |-> PyNone,
          expect |-> [bound |-> FALSE, val |-> PyNone], exc |-> "none"]
Idle == {"free", "finished", "raised"}

Finish(g) == gen' = [gen EXCEPT ![g] = [NoGen EXCEPT !.pc = "finished"]]
Raise(g, x) == gen' = [gen EXCEPT ![g] = [NoGen EXCEPT !.pc = "raised", !.exc = x]]

(***************************************************************************)
(* One it.moveNext() of the iter() iterator and the yield of its item,     *)
(* inside the try that re-raises as JAQLRuntimeException.                  *)
(***************************************************************************)
LPull(gs, g, v, n, pos, e) ==
  LET j == ReadVar(e, v) IN
  IF pos >= n THEN Finish(g)
  ELSE IF j = NoJson \/ ~LegacyItem(j).ok THEN Raise(g, "JAQLRuntimeException")
  ELSE gen' = [gs EXCEPT ![g].pc = "open", ![g].var = v, ![g].n = n, ![g].pos = pos + 1,
                          ![g].last = LegacyItem(j).val]

\* The body of execute()/execute_script() from setInput on, run by the first
\* next(): the variables, then iter() and its first item.
StartIter(g, q) ==
  LET started == [gen EXCEPT ![g].expect = Expect(gen[g].args, q[1].var),
                             ![g].q = <<>>, ![g].args = NoGen.args, ![g].src = "expr"] IN
  \E r \in LSetVars(SetQueryString(eng, q), gen[g].args) :
     /\ eng' = r.e
     /\ IF r.ok THEN LPull(started, g, q[1].var, q[1].items, 0, r.e)
               ELSE Raise(g, "unwrapped")

\* execute(q, ...) called: a generator object, nothing of its body run.
LExecuteCall(g, q, args) ==
  /\ gen[g].pc \in Idle
  /\ gen' = [gen EXCEPT ![g] = [NoGen EXCEPT !.pc = "created", !.q = q, !.args = args]]
  /\ UNCHANGED <<eng, lastCall, jars, props, lastOther>>

LExecuteFirst(g) ==
  /\ gen[g].pc = "created"
  /\ gen[g].src = "expr"
  /\ StartIter(g, gen[g].q)
  /\ UNCHANGED <<lastCall, jars, props, lastOther>>

\* execute_script(p, ...) called: a generator object; the file is opened by
\* its first next().
LExecuteScriptCall(g, p, args) ==
  /\ gen[g].pc \in Idle
  /\ gen' = [gen EXCEPT ![g] = [NoGen EXCEPT !.pc = "created", !.src = p, !.args = args]]
  /\ UNCHANGED <<eng, lastCall, jars, props, lastOther>>

\* java.io.FileReader of a missing file raises before setInput, outside the try.
LExecuteScriptFirst(g) ==
  /\ gen[g].pc = "created"
  /\ gen[g].src # "expr"
  /\ IF Scripts[gen[g].src] = Missing
     THEN Raise(g, "unwrapped") /\ UNCHANGED eng
     ELSE StartIter(g, Scripts[gen[g].src])
  /\ UNCHANGED <<lastCall, jars, props, lastOther>>

LExecuteNext(g) ==
  /\ gen[g].pc = "open"
  /\ LPull(gen, g, gen[g].var, gen[g].n, gen[g].pos, eng)
  /\ UNCHANGED <<eng, lastCall, jars, props, lastOther>>

Drop(g) ==
  /\ gen[g].pc \in {"created", "open"}
  /\ gen' = [gen EXCEPT ![g] = NoGen]
  /\ UNCHANGED <<eng, lastCall, jars, props, lastOther>>
-----------------------------------------------------------------------------
(***************************************************************************)
(* evaluate(q, ...): setInput and the variables outside any try, then      *)
(* json.loads(str(evalNext().toString())) inside one.                      *)
(***************************************************************************)
LEvaluate(q, args) ==
  /\ \E r \in LSetVars(SetQueryString(eng, q), args) :
       LET j == ReadVar(r.e, q[1].var) IN
       /\ eng' = r.e
       /\ lastCall' = [expect |-> Expect(args, q[1].var),
                       outcome |-> CASE ~r.ok -> Raised("unwrapped")
                                     [] j = NoJson \/ ~JsonLoadsText(j).ok -> Raised("JAQLRuntimeException")
                                     [] OTHER -> Returned(JsonLoadsText(j).val)]
  /\ UNCHANGED <<gen, jars, props, lastOther>>

\* evaluate_script(p, ...): the file is opened first, outside the try.
LEvaluateScript(p, args) ==
  IF Scripts[p] = Missing
  THEN /\ lastCall' = [expect |-> Expect(args, CHOOSE v \in Vars : TRUE), outcome |-> Raised("unwrapped")]
       /\ UNCHANGED <<eng, gen, jars, props, lastOther>>
  ELSE LEvaluate(Scripts[p], args)

(***************************************************************************)
(* add_jar(path): engine.addJar raises a Java exception for a missing      *)
(* file; `except JarLoadingException` names a Python class the engine      *)
(* never raises, so the Java exception passes through unwrapped.           *)
(***************************************************************************)
\* Faulty variant: the jar is recorded whether or not addJar succeeds.
AddJarUnchecked(p) ==
  /\ jars' = jars \cup {p}
  /\ lastOther' = IF p \in JarFiles THEN "ok" ELSE "unwrapped"
  /\ UNCHANGED <<eng, gen, lastCall, props>>

AddJar(p) ==
  /\ IF p \in JarFiles
     THEN jars' = jars \cup {p} /\ lastOther' = "ok"
     ELSE UNCHANGED jars /\ lastOther' = "unwrapped"
  /\ UNCHANGED <<eng, gen, lastCall, props>>

\* set_property(name, value) and get_property(name): str() of a Java null
\* is "None".
SetProperty(n, v) ==
  /\ props' = [props EXCEPT ![n] = v]
  /\ lastOther' = "ok"
  /\ UNCHANGED <<eng, gen, lastCall, jars>>

GetProperty(n) ==
  /\ lastOther' = IF props[n] = NoProp THEN "None" ELSE props[n]
  /\ UNCHANGED <<eng, gen, lastCall, jars, props>>

Init ==
  /\ eng = EngineInit
  /\ gen = [g \in Gens |-> NoGen]
  /\ lastCall = [expect |-> [bound |-> FALSE, val |-> PyNone], outcome |-> Raised("none")]
  /\ jars = {}
  /\ props = Defaults
  /\ lastOther = "none"

Next ==
  \/ \E q \in LQueries, a \in Args : LEvaluate(q, a)
  \/ \E p \in DOMAIN Scripts, a \in Args : LEvaluateScript(p, a)
  \/ \E p \in JarPaths : AddJar(p)
  \/ \E n \in PropNames : GetProperty(n) \/ \E v \in PropValues : SetProperty(n, v)
  \/ \E g \in Gens :
       \/ \E q \in LQueries, a \in Args : LExecuteCall(g, q, a)
       \/ \E p \in DOMAIN Scripts, a \in Args : LExecuteScriptCall(g, p, a)
       \/ LExecuteFirst(g) \/ LExecuteScriptFirst(g) \/ LExecuteNext(g) \/ Drop(g)

Spec == Init /\ [][Next]_vars
-----------------------------------------------------------------------------
LegacyTypeOK ==
  /\ eng.query \in LQueries \cup {<<>>}
  /\ \A g \in Gens : gen[g].pc \in {"free", "created", "open", "finished", "raised"}
                     /\ gen[g].exc \in {"none", "JAQLRuntimeException", "unwrapped"}
  /\ lastCall.outcome.exc \in {"none", "JAQLRuntimeException", "unwrapped"}
  /\ jars \subseteq JarFiles
  /\ \A n \in PropNames : props[n] \in PropValues \cup {Defaults[n]}

(***************************************************************************)
(* execute and execute_script answer with the values the caller bound      *)
(* under this bridge's convention ({"name": v} for $name,                  *)
(* usageSamples.extension_statement_query and the jaql-statistics          *)
(* testSetVar): when such a generator yields its first item, the item is   *)
(* (Python ==) the bound value, a string through the str() branch, an int  *)
(* beyond a Java int through json.loads of the JsonDecimal's text.         *)
(***************************************************************************)
LegacyExecuteHonoursBindings ==
  \A g \in Gens :
    (gen[g].pc = "open" /\ gen[g].pos = 1 /\ gen[g].expect.bound)
      => PyEqual(gen[g].last, gen[g].expect.val)

(***************************************************************************)
(* The caller learns of every failure as one of the bridge's exceptions:   *)
(* usageSamples.run, script_query and the tests catch JAQLRuntimeException *)
(* (and JVMException) only.                                                *)
(***************************************************************************)
LegacyFailuresWrapped ==
  /\ lastCall.outcome.exc \in {"none", "JAQLRuntimeException"}
  /\ \A g \in Gens : gen[g].exc \in {"none", "JAQLRuntimeException"}
  /\ lastOther # "unwrapped"

(***************************************************************************)
(* evaluate() answers a query whose variable the caller bound with the     *)
(* bound value, as execute() does: in the test suite                      *)
(* evaluate("fuzzy_join::cleanTitle('XY');") answers "XY".  TLC finds it   *)
(* false: json.loads of a JsonString's bare text raises for 'XY' and       *)
(* answers the int 9 for the string '9'.                                   *)
(***************************************************************************)
LegacyEvaluateAnswers ==
  lastCall.expect.bound =>
    lastCall.outcome.exc = "none" /\ PyEqual(lastCall.outcome.val, lastCall.expect.val)
====
