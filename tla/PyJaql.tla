-------------------------------- MODULE PyJaql --------------------------------
(***************************************************************************)
(* One pyJaql.Jaql object (trunk src/python/pyJaql/pyJaql/pyJaql.py) and   *)
(* the JaqlQuery engine it owns, driven by a Python caller that may make   *)
(* any call in any order and may hold several generators at once.          *)
(*                                                                         *)
(* evaluate() runs to completion in one step.  execute() and current() are *)
(* Python generators: calling one runs none of its body; each next() runs  *)
(* the body up to the following yield.  So a generator is modelled by a    *)
(* pc: "created" (called, not started), "open" (suspended at a yield),     *)
(* "finished" or "raised"; "free" is a slot holding no generator.          *)
(***************************************************************************)
EXTENDS PyJaqlTypes, JaqlEngine
LOCAL INSTANCE SequencesExt

CONSTANTS
  Gens,        \* generator objects the caller may hold at once
  HostValues   \* Python values the caller passes in variable dicts

ASSUME \A h \in HostValues :
         /\ h.type \in PyTypes
         /\ h.type = "int" => InWidth(h.val, PyIntBits)

VARIABLES
  eng,       \* the JaqlQuery object self.jaql
  gen,       \* gen[g]: the state of generator object g
  lastEval,  \* what the latest evaluate() call was given and how it ended
  lastMove   \* what the latest move_next() returned: "true", "false", "raised"

vars == <<eng, gen, lastEval, lastMove>>

(***************************************************************************)
(* The arguments after the query string: none ("one"), a dict ("dict"), a  *)
(* second argument that is not a dict ("nondict"), or more than two        *)
(* ("three").                                                              *)
(***************************************************************************)
Dicts == UNION {[D -> HostValues] : D \in SUBSET Vars}
NoDict == [v \in {} |-> NoJson]
Args == [shape : {"one", "nondict", "three"}, dict : {NoDict}]
          \cup [shape : {"dict"}, dict : Dicts]

\* Queries evaluate() is given: each statement yields one value.
EvalQueries == {q \in Queries : \A i \in DOMAIN q : q[i].items = 1}

PyNone == PyValue("none", 0)
Returned(v) == [exc |-> "none", val |-> v]
Raised(x)   == [exc |-> x, val |-> PyNone]

\* The caller's dict gives variable v a value.
Binds(args, v) == args.shape = "dict" /\ v \in DOMAIN args.dict

\* What the caller asked variable v to be: [bound, val].
Expect(args, v) ==
  IF Binds(args, v) THEN [bound |-> TRUE, val |-> args.dict[v]]
                    ELSE [bound |-> FALSE, val |-> PyNone]

(***************************************************************************)
(* A generator slot.  Before its first next() it keeps the call's query    *)
(* and arguments; once open it keeps the engine iterator (stmt and pos for *)
(* execute, res and pos for current), the item it yielded last and what    *)
(* the caller asked the variable to be.                                    *)
(***************************************************************************)
AnyVar == CHOOSE v \in Vars : TRUE
AnyStmt == CHOOSE s \in Stmts : TRUE
NoArgs == [shape |-> "one", dict |-> NoDict]
NoGen == [pc |-> "free", kind |-> "execute", q |-> <<>>, args |-> NoArgs,
          stmt |-> AnyStmt, pos |-> 0, res |-> <<>>, last |-> PyNone,
          expect |-> Expect(NoArgs, AnyVar), exc |-> "none"]
Idle == {"free", "finished", "raised"}

\* Generator g ends: by running off its loop, or by raising exception x.
Finish(g) == gen' = [gen EXCEPT ![g] = [NoGen EXCEPT !.pc = "finished", !.kind = gen[g].kind]]
Raise(g, x) == gen' = [gen EXCEPT ![g] = [NoGen EXCEPT !.pc = "raised", !.kind = gen[g].kind, !.exc = x]]

(***************************************************************************)
(* __setVars(args) on engine e: the set of [ok, e] it may end with.  For a *)
(* dict, __setVar is applied key by key in the dict's iteration order,     *)
(* which Python does not fix; a raise ends the loop with the earlier keys  *)
(* already set.                                                            *)
(***************************************************************************)
RECURSIVE SetEach(_, _, _)
SetEach(e, d, ks) ==
  IF ks = <<>> THEN {[ok |-> TRUE, e |-> e]}
  ELSE UNION {CASE o.kind = "set"  -> SetEach(SetVar(e, Head(ks), o.json), d, Tail(ks))
                [] o.kind = "skip" -> SetEach(e, d, Tail(ks))
                [] o.kind = "raise" -> {[ok |-> FALSE, e |-> e]}
              : o \in SetVarOutcomes(d[Head(ks)])}

SetVars(e, args) ==
  CASE args.shape = "three"   -> {[ok |-> FALSE, e |-> e]}
    [] args.shape = "one"     -> {[ok |-> TRUE, e |-> e]}
    [] args.shape = "nondict" -> {[ok |-> FALSE, e |-> e]}
    [] args.shape = "dict"    -> UNION {SetEach(e, args.dict, ks) : ks \in SetToSeqs(DOMAIN args.dict)}

(***************************************************************************)
(* __evaluate(): JaqlQuery.evaluate() of a single-statement query and      *)
(* __parseJsonValue of its value, on engine e.                             *)
(***************************************************************************)
JaqlEvaluate(e, s) ==
  IF SingleStatement(e) /\ ReadVar(e, s.var) # NoJson
  THEN Returned(ResultValue(StmtItem(s, ReadVar(e, s.var))))
  ELSE Raised("JaqlRuntimeException")

(***************************************************************************)
(* evaluate(q, args): setQueryString, __setVars, then __evaluate().  Every *)
(* failure is re-raised as JaqlRuntimeException.                           *)
(***************************************************************************)
\* Faulty variant: the value is read before __setVars runs.
EvaluateReadsFirst(q, args) ==
  /\ \E r \in SetVars(SetQueryString(eng, q), args) :
       /\ eng' = r.e
       /\ lastEval' = [expect |-> Expect(args, q[1].var),
                       outcome |-> IF r.ok THEN JaqlEvaluate(SetQueryString(eng, q), q[1])
                                          ELSE Raised("JaqlRuntimeException")]
  /\ UNCHANGED <<gen, lastMove>>

Evaluate(q, args) ==
  /\ \E r \in SetVars(SetQueryString(eng, q), args) :
       /\ eng' = r.e
       /\ lastEval' = [expect |-> Expect(args, q[1].var),
                       outcome |-> IF r.ok THEN JaqlEvaluate(r.e, q[1])
                                          ELSE Raised("JaqlRuntimeException")]
  /\ UNCHANGED <<gen, lastMove>>

(***************************************************************************)
(* One it.moveNext() of the engine iterator of an execute() generator and  *)
(* the yield of its converted item: the item reads the variable now.  gs   *)
(* is the generator table the step starts from.                            *)
(***************************************************************************)
\* Faulty variant: the end test is off by one, one pull too many.
PullExecuteOverrun(gs, g, s, pos, e) ==
  IF pos > s.items THEN Finish(g)
  ELSE IF ReadVar(e, s.var) = NoJson THEN Raise(g, "JaqlRuntimeException")
  ELSE gen' = [gs EXCEPT ![g].pc = "open", ![g].stmt = s, ![g].pos = pos + 1,
                          ![g].last = ResultValue(StmtItem(s, ReadVar(e, s.var)))]

PullExecute(gs, g, s, pos, e) ==
  IF pos >= s.items THEN Finish(g)
  ELSE IF ReadVar(e, s.var) = NoJson THEN Raise(g, "JaqlRuntimeException")
  ELSE gen' = [gs EXCEPT ![g].pc = "open", ![g].stmt = s, ![g].pos = pos + 1,
                          ![g].last = ResultValue(StmtItem(s, ReadVar(e, s.var)))]

\* execute(q, args) called: a generator object, nothing of its body run.
ExecuteCall(g, q, args) ==
  /\ gen[g].pc \in Idle
  /\ gen' = [gen EXCEPT ![g] = [NoGen EXCEPT !.pc = "created", !.q = q, !.args = args]]
  /\ UNCHANGED <<eng, lastEval, lastMove>>

\* The first next() of an execute() generator: setQueryString, __setVars,
\* JaqlQuery.iterate() (single statement only), the first moveNext.
ExecuteFirst(g) ==
  LET q == gen[g].q
      started == [gen EXCEPT ![g].expect = Expect(gen[g].args, q[1].var),
                             ![g].q = <<>>, ![g].args = NoArgs]
  IN
  /\ gen[g].pc = "created"
  /\ gen[g].kind = "execute"
  /\ \E r \in SetVars(SetQueryString(eng, q), gen[g].args) :
       /\ eng' = r.e
       /\ IF r.ok /\ SingleStatement(r.e)
          THEN PullExecute(started, g, q[1], 0, r.e)
          ELSE Raise(g, "JaqlRuntimeException")
  /\ UNCHANGED <<lastEval, lastMove>>

\* A later next() of an open execute() generator.
ExecuteNext(g) ==
  /\ gen[g].pc = "open"
  /\ gen[g].kind = "execute"
  /\ PullExecute(gen, g, gen[g].stmt, gen[g].pos, eng)
  /\ UNCHANGED <<eng, lastEval, lastMove>>

(***************************************************************************)
(* exectue_batch(q, args): setQueryString and __setVars; failures are      *)
(* re-raised as JaqlRuntimeException and change nothing further.           *)
(***************************************************************************)
ExecuteBatch(q, args) ==
  /\ \E r \in SetVars(SetQueryString(eng, q), args) : eng' = r.e
  /\ UNCHANGED <<gen, lastEval, lastMove>>

\* move_next(): JaqlQuery.moveNextQuery() with nothing around it, so an
\* engine failure reaches the caller as the raw Java exception.
MoveNext ==
  /\ IF eng.query = <<>>
     THEN /\ lastMove' = "raised"
          /\ UNCHANGED eng
     ELSE LET r == MoveNextQuery(eng) IN
          /\ eng' = r.e
          /\ lastMove' = IF ~r.ok THEN "raised" ELSE IF r.more THEN "true" ELSE "false"
  /\ UNCHANGED <<gen, lastEval>>

\* current() called: a generator object, nothing of its body run.
CurrentCall(g) ==
  /\ gen[g].pc \in Idle
  /\ gen' = [gen EXCEPT ![g] = [NoGen EXCEPT !.pc = "created", !.kind = "current"]]
  /\ UNCHANGED <<eng, lastEval, lastMove>>

\* Faulty variant: the loop stops one item early.
PullCurrentDropsLast(g, res, pos) ==
  IF pos >= Len(res) - 1 THEN Finish(g)
  ELSE gen' = [gen EXCEPT ![g].pc = "open", ![g].res = res, ![g].pos = pos + 1,
                          ![g].last = ResultValue(res[pos + 1])]

\* One moveNext of the iterator a current() generator holds, and its yield.
PullCurrent(g, res, pos) ==
  IF pos >= Len(res) THEN Finish(g)
  ELSE gen' = [gen EXCEPT ![g].pc = "open", ![g].res = res, ![g].pos = pos + 1,
                          ![g].last = ResultValue(res[pos + 1])]

\* The first next() of a current() generator: only now is currentQuery()
\* asked for the result; before any moveNextQuery there is none.
CurrentFirst(g) ==
  /\ gen[g].pc = "created"
  /\ gen[g].kind = "current"
  /\ IF HasCurrent(eng)
     THEN PullCurrent(g, eng.result, 0)
     ELSE Raise(g, "JavaException")
  /\ UNCHANGED <<eng, lastEval, lastMove>>

CurrentNext(g) ==
  /\ gen[g].pc = "open"
  /\ gen[g].kind = "current"
  /\ PullCurrent(g, gen[g].res, gen[g].pos)
  /\ UNCHANGED <<eng, lastEval, lastMove>>

\* The caller drops a generator it has not run to the end.
Drop(g) ==
  /\ gen[g].pc \in {"created", "open"}
  /\ gen' = [gen EXCEPT ![g] = NoGen]
  /\ UNCHANGED <<eng, lastEval, lastMove>>

Init ==
  /\ eng = EngineInit
  /\ gen = [g \in Gens |-> NoGen]
  /\ lastEval = [expect |-> Expect(NoArgs, AnyVar), outcome |-> Raised("none")]
  /\ lastMove = "none"

Next ==
  \/ \E q \in EvalQueries, a \in Args : Evaluate(q, a)
  \/ \E q \in Queries, a \in Args : ExecuteBatch(q, a)
  \/ MoveNext
  \/ \E g \in Gens :
       \/ \E q \in Queries, a \in Args : ExecuteCall(g, q, a)
       \/ ExecuteFirst(g) \/ ExecuteNext(g)
       \/ CurrentCall(g) \/ CurrentFirst(g) \/ CurrentNext(g)
       \/ Drop(g)

Spec == Init /\ [][Next]_vars

-----------------------------------------------------------------------------
PyAtoms == [type : PyTypes, val : Int]
PyValues == PyAtoms \cup [type : {"dict"}, val : Int, of : PyTypes]
Outcomes == [exc : {"none", "JaqlRuntimeException"}, val : PyValues]


TypeOK ==
  /\ eng.query \in Queries \cup {<<>>}
  /\ eng.cursor \in 0..MaxStmts
  /\ \A v \in Vars : eng.bindings[v] = NoJson \/ eng.bindings[v].kind \in JsonKinds
  /\ \A g \in Gens :
       /\ gen[g].pc \in {"free", "created", "open", "finished", "raised"}
       /\ gen[g].kind \in {"execute", "current"}
       /\ gen[g].pos \in 0..MaxItems
       /\ gen[g].last \in PyValues
       /\ gen[g].exc \in {"none", "JaqlRuntimeException", "JavaException"}
  /\ lastEval.outcome \in Outcomes
  /\ lastMove \in {"none", "true", "false", "raised"}

(***************************************************************************)
(* A call answers with the values the caller bound: when evaluate(q, d)    *)
(* returns, and when an execute(q, d) generator yields its first item, the *)
(* value (for a record, its field) equals (Python ==) d's value of the     *)
(* variable the query reads.                                               *)
(* testSetVar and testReuseStatement rely on it: setQueryString, __setVars *)
(* and the read happen in one call or one next(), whatever other calls on  *)
(* the same Jaql object came before or in between.                         *)
(***************************************************************************)
CallHonoursBindings ==
  /\ (lastEval.outcome.exc = "none" /\ lastEval.expect.bound)
       => PyEqual(Reported(lastEval.outcome.val), lastEval.expect.val)
  /\ \A g \in Gens :
       (gen[g].kind = "execute" /\ gen[g].pc = "open" /\ gen[g].pos = 1 /\ gen[g].expect.bound)
         => PyEqual(Reported(gen[g].last), gen[g].expect.val)

(***************************************************************************)
(* Every item an execute(q, d) generator yields, not only the first, is    *)
(* computed with d's value of the variable the query reads.                *)
(***************************************************************************)
StreamHonoursBindings ==
  \A g \in Gens :
    (gen[g].kind = "execute" /\ gen[g].pc = "open" /\ gen[g].expect.bound)
      => PyEqual(Reported(gen[g].last), gen[g].expect.val)

(***************************************************************************)
(* execute() refuses a query of several statements when it is called, as   *)
(* testMutipleStatementExceptionWhenExec expects: no call leaves the       *)
(* caller holding a live execute() generator for such a query.             *)
(***************************************************************************)
MultiStatementExecuteRejected ==
  \A g \in Gens : (gen[g].kind = "execute" /\ gen[g].pc = "created") => Len(gen[g].q) = 1
=============================================================================
