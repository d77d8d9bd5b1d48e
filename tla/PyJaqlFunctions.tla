---------------------------- MODULE PyJaqlFunctions ----------------------------
(***************************************************************************)
(* The function API of a trunk Jaql object (pyJaql.py register_function,   *)
(* eval_function, exec_function) composed with the calls of PyJaql that    *)
(* share its JaqlQuery engine.                                             *)
(*                                                                         *)
(* register_function(fn) only calls setQueryString(fn): the definition is  *)
(* the engine's query string until the next call replaces it.              *)
(* JaqlQuery.evaluate(name, args) and iterate(name, args) are modelled     *)
(* from spec.md 4.4: they run the definitions of the current query string  *)
(* into the engine's function registry, which keeps them for the session   *)
(* and lets a redefinition overwrite, then invoke the function by name.    *)
(*                                                                         *)
(* A definition is [fn, arity]; its formals are named 1..arity.  A         *)
(* function's value is abstracted to the definition that computed it,     *)
(* and a function yields FnItems items to iterate.                         *)
(***************************************************************************)
EXTENDS PyJaql

CONSTANTS
  Fns,          \* function names
  MaxArity,     \* most formals of a definition
  FnItems,      \* items a function's result yields to iterate()
  NoFn,         \* model value: no definition
  FnArgShapes   \* the kinds of second argument the caller passes

VARIABLES
  registry,  \* registry[f]: the arity of the engine's definition of f, or NoFn
  fgen,      \* the exec_function generator the caller holds
  lastFn,    \* what the latest eval_function was given and how it ended
  declared   \* declared[f]: the arity of the caller's latest register_function of f

fnVars == <<registry, fgen, lastFn, declared>>
allVars == <<vars, fnVars>>

Defs == [fn : Fns, arity : 0..MaxArity]
Formals(k) == 1..k

\* The second argument of eval_function/exec_function: none, a list or a
\* tuple of n values, a dict of some formals, a value of another type, or
\* a third argument ("three").
FnArgs ==
  {a \in [shape : {"none", "other", "three"}, n : {0}, keys : {{}}]
           \cup [shape : {"list", "tuple"}, n : 0..MaxArity, keys : {{}}]
           \cup [shape : {"dict"}, n : {0}, keys : SUBSET Formals(MaxArity)] :
     a.shape \in FnArgShapes}

NoDef == [fn |-> CHOOSE f \in Fns : TRUE, arity |-> -1]
FnOut(x, d) == [exc |-> x, def |-> d]

(***************************************************************************)
(* The FunctionArgs object after the argument code: setArguments(list) for *)
(* a list or tuple, setArgument(key, value) for each key of a dict, and    *)
(* nothing for any other second argument or none.                          *)
(***************************************************************************)
FunArgs(a) ==
  CASE a.shape \in {"list", "tuple"} -> [mode |-> "pos", n |-> a.n, keys |-> {}]
    [] a.shape = "dict"              -> [mode |-> "kw", n |-> 0, keys |-> a.keys]
    [] OTHER                         -> [mode |-> "pos", n |-> 0, keys |-> {}]

(***************************************************************************)
(* The engine (spec.md 4.4).  The definitions of the query string enter    *)
(* the registry, overwriting; invoke fails with LookupError for an unknown *)
(* name and ArityError when positional arguments do not match the formals  *)
(* in number or keyword arguments miss a formal.                           *)
(***************************************************************************)
IsDefQuery(q) == Len(q) = 1 /\ DOMAIN q[1] = {"fn", "arity"}

PrepareFunctions(q, reg) == IF IsDefQuery(q) THEN [reg EXCEPT ![q[1].fn] = q[1].arity] ELSE reg

Invoke(reg, f, fa) ==
  CASE reg[f] = NoFn                                      -> FnOut("LookupError", NoDef)
    [] fa.mode = "pos" /\ fa.n # reg[f]                   -> FnOut("ArityError", NoDef)
    [] fa.mode = "kw" /\ ~(Formals(reg[f]) \subseteq fa.keys) -> FnOut("ArityError", NoDef)
    [] OTHER                                              -> FnOut("none", [fn |-> f, arity |-> reg[f]])

\* Faulty variant: no `except Exception` clause; engine errors pass through.
WrappedNone(r) == r

\* Every engine failure is re-raised by `except Exception` as JaqlRuntimeException.
Wrapped(r) == IF r.exc = "none" THEN r ELSE FnOut("JaqlRuntimeException", NoDef)
-----------------------------------------------------------------------------
\* register_function(fn): self.jaql.setQueryString(fn)
RegisterFunction(d) ==
  /\ eng' = SetQueryString(eng, <<d>>)
  /\ declared' = [declared EXCEPT ![d.fn] = d.arity]
  /\ UNCHANGED <<gen, lastEval, lastMove, registry, fgen, lastFn>>

(***************************************************************************)
(* eval_function(name, args): more than two arguments raise before         *)
(* anything; otherwise JaqlQuery.evaluate(name, funArgs).                  *)
(***************************************************************************)
EvalFunction(f, a) ==
  /\ IF a.shape = "three"
     THEN /\ lastFn' = [f |-> f, args |-> a, declared |-> declared[f],
                        out |-> FnOut("JaqlRuntimeException", NoDef)]
          /\ UNCHANGED registry
     ELSE LET reg == PrepareFunctions(eng.query, registry) IN
          /\ registry' = reg
          /\ lastFn' = [f |-> f, args |-> a, declared |-> declared[f],
                        out |-> Wrapped(Invoke(reg, f, FunArgs(a)))]
  /\ UNCHANGED <<eng, gen, lastEval, lastMove, fgen, declared>>

NoFGen == [pc |-> "free", f |-> CHOOSE f \in Fns : TRUE, args |-> [shape |-> "none", n |-> 0, keys |-> {}],
           pos |-> 0, def |-> NoDef, exc |-> "none"]

\* exec_function(name, args) called: a generator object, none of its body
\* run, not even the argument check.
ExecFunctionCall(f, a) ==
  /\ fgen.pc \in {"free", "finished", "raised"}
  /\ fgen' = [NoFGen EXCEPT !.pc = "created", !.f = f, !.args = a]
  /\ UNCHANGED <<vars, registry, lastFn, declared>>

\* Its first next(): the check, JaqlQuery.iterate(name, funArgs) and the
\* first it.moveNext().
ExecFunctionFirst ==
  /\ fgen.pc = "created"
  /\ IF fgen.args.shape = "three"
     THEN /\ fgen' = [NoFGen EXCEPT !.pc = "raised", !.exc = "JaqlRuntimeException"]
          /\ UNCHANGED registry
     ELSE LET reg == PrepareFunctions(eng.query, registry)
              r == Wrapped(Invoke(reg, fgen.f, FunArgs(fgen.args)))
          IN /\ registry' = reg
             /\ fgen' = IF r.exc = "none"
                        THEN [fgen EXCEPT !.pc = "open", !.pos = 1, !.def = r.def]
                        ELSE [NoFGen EXCEPT !.pc = "raised", !.exc = r.exc]
  /\ UNCHANGED <<vars, lastFn, declared>>

\* A later next(): the next item, or the end of the while loop.
ExecFunctionNext ==
  /\ fgen.pc = "open"
  /\ fgen' = IF fgen.pos >= FnItems THEN [NoFGen EXCEPT !.pc = "finished"]
             ELSE [fgen EXCEPT !.pos = @ + 1]
  /\ UNCHANGED <<vars, registry, lastFn, declared>>

DropFn ==
  /\ fgen.pc \in {"created", "open"}
  /\ fgen' = NoFGen
  /\ UNCHANGED <<vars, registry, lastFn, declared>>
-----------------------------------------------------------------------------
FnInit ==
  /\ Init
  /\ registry = [f \in Fns |-> NoFn]
  /\ fgen = NoFGen
  /\ lastFn = [f |-> CHOOSE f \in Fns : TRUE, args |-> NoFGen.args, declared |-> NoFn,
               out |-> FnOut("none", NoDef)]
  /\ declared = [f \in Fns |-> NoFn]

\* The function API and the calls that replace the query string in between.
FnNext ==
  \/ (\E q \in EvalQueries, a \in Args : Evaluate(q, a)) /\ UNCHANGED fnVars
  \/ (\E q \in Queries, a \in Args : ExecuteBatch(q, a)) /\ UNCHANGED fnVars
  \/ \E d \in Defs : RegisterFunction(d)
  \/ \E f \in Fns, a \in FnArgs : EvalFunction(f, a) \/ ExecFunctionCall(f, a)
  \/ ExecFunctionFirst \/ ExecFunctionNext \/ DropFn

FnSpec == FnInit /\ [][FnNext]_allVars

-----------------------------------------------------------------------------
FnTypeOK ==
  /\ registry \in [Fns -> 0..MaxArity \cup {NoFn}]
  /\ declared \in [Fns -> 0..MaxArity \cup {NoFn}]
  /\ fgen.pc \in {"free", "created", "open", "finished", "raised"}
  /\ fgen.pos \in 0..FnItems
  /\ lastFn.out.exc \in {"none", "JaqlRuntimeException"}

\* The caller's second argument a fits a definition of arity k: as many
\* list or tuple items as formals, a dict naming every formal, or no
\* argument for a function without formals.
Fits(a, k) ==
  CASE a.shape \in {"list", "tuple"} -> a.n = k
    [] a.shape = "dict"              -> Formals(k) \subseteq a.keys
    [] a.shape = "none"              -> k = 0
    [] OTHER                         -> FALSE

(***************************************************************************)
(* A function answers only to the arguments the caller gave: when          *)
(* eval_function(name, a) returns a value, or an exec_function(name, a)    *)
(* generator yields, the definition that computed it has exactly the       *)
(* formals a supplies.  It is not a run: an argument of another type       *)
(* falls through the list/tuple/dict tests and reaches the engine as no    *)
(* arguments, so a function without formals answers, and TLC finds this    *)
(* false with FnArgShapes <- AllShapes.  Without that shape it restates    *)
(* FunArgs.                                                                *)
(***************************************************************************)
FunctionAnswerFitsArgs ==
  /\ lastFn.out.exc = "none" /\ lastFn.out.def # NoDef => Fits(lastFn.args, lastFn.out.def.arity)
  /\ fgen.pc = "open" => Fits(fgen.args, fgen.def.arity)

(***************************************************************************)
(* spec.md 4.4: register_function stores the definition in the registry,   *)
(* and later calls may invoke it.  When the caller has registered f with   *)
(* k formals and calls eval_function(f, a) with a fitting a, the call      *)
(* answers with that definition, whatever calls came in between.           *)
(***************************************************************************)
RegisteredFunctionCallable ==
  (lastFn.declared # NoFn /\ lastFn.args.shape # "three" /\ Fits(lastFn.args, lastFn.declared))
    => lastFn.out = FnOut("none", [fn |-> lastFn.f, arity |-> lastFn.declared])
====
