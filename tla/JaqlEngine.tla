----------------------------- MODULE JaqlEngine ------------------------------
(***************************************************************************)
(* The part of the Jaql engine (com.ibm.jaql.lang.JaqlQuery) that the      *)
(* pyJaql bridge drives.  The engine is not in this repository; these      *)
(* operators follow spec.md sections 3, 4.3, 4.5 and 7 and the comments of *)
(* pyJaql.py that say what each JaqlQuery call does.                       *)
(*                                                                         *)
(* The engine is a record                                                  *)
(*   query     the statements of the last setQueryString;                  *)
(*   bindings  the Json value of each variable, or NoJson;                 *)
(*   cursor    the batch statement moveNextQuery reached (0: none yet);    *)
(*   result    the items of that statement, computed by moveNextQuery.     *)
(*                                                                         *)
(* A statement is abstracted to [var, items, shape]: it yields `items`     *)
(* items, each built from the value of variable `var` when the item is     *)
(* pulled (a filter or transform reading $var per item, spec 4.3:          *)
(* pull-driven); shape "atom" yields $var itself, "record" the record      *)
(* {f: $var} (spec 4.1: records and arrays are values like atoms).         *)
(***************************************************************************)
EXTENDS Integers, Sequences

CONSTANTS
  Vars,             \* variable names a query may refer to
  MaxStmts,         \* most statements in one query string
  MaxItems,         \* most items one statement yields
  NoJson,           \* model value: a variable with no binding
  SetQueryClearsVars, \* TRUE: setQueryString drops earlier bindings
  StmtShapes        \* the shapes of statement the caller writes

ASSUME /\ MaxStmts \in Nat \ {0}
       /\ MaxItems \in Nat \ {0}
       /\ SetQueryClearsVars \in BOOLEAN
       /\ StmtShapes \subseteq {"atom", "record"}

Stmts   == [var : Vars, items : 1..MaxItems, shape : StmtShapes]
Queries == UNION {[1..n -> Stmts] : n \in 1..MaxStmts}

NoBindings == [v \in Vars |-> NoJson]

EngineInit == [query |-> <<>>, bindings |-> NoBindings, cursor |-> 0, result |-> <<>>]

\* JaqlQuery.setQueryString(q): a new query; the batch cursor restarts.
SetQueryString(e, q) ==
  [e EXCEPT !.query    = q,
            !.cursor   = 0,
            !.result   = <<>>,
            !.bindings = IF SetQueryClearsVars THEN NoBindings ELSE @]

\* A record of one field holding the Json atom j: of is the field's kind.
JsonRecord(j) == [kind |-> "JsonRecord", val |-> j.val, of |-> j.kind]

\* An item of statement s when its variable holds j.
StmtItem(s, j) == IF s.shape = "record" THEN JsonRecord(j) ELSE j

\* JaqlQuery.setVar(name, value)
SetVar(e, v, json) == [e EXCEPT !.bindings[v] = json]

\* The value an item of a statement reading v has now, or NoJson (the
\* engine then fails: the variable is not defined).
ReadVar(e, v) == e.bindings[v]

\* A call with a single-statement contract (evaluate(), iterate()) refuses a
\* query of several statements: "multiple statements not allowed" (4.5).
SingleStatement(e) == Len(e.query) = 1

\* Faulty variant: the cursor is advanced before the end test.
MoveNextQueryPastEnd(e) ==
  IF e.cursor >= Len(e.query)
  THEN [ok |-> TRUE, more |-> FALSE, e |-> [e EXCEPT !.cursor = @ + 1]]
  ELSE LET s == e.query[e.cursor + 1]
           j == ReadVar(e, s.var)
       IN IF j = NoJson
          THEN [ok |-> FALSE, more |-> FALSE, e |-> [e EXCEPT !.cursor = @ + 1, !.result = <<>>]]
          ELSE [ok |-> TRUE, more |-> TRUE,
                e |-> [e EXCEPT !.cursor = @ + 1, !.result = [i \in 1..s.items |-> StmtItem(s, j)]]]

\* Faulty variant: at the end of the batch it answers TRUE again, with no
\* result, instead of FALSE.
MoveNextQueryStuckAtEnd(e) ==
  IF e.cursor >= Len(e.query)
  THEN [ok |-> TRUE, more |-> Len(e.query) > 0, e |-> [e EXCEPT !.result = <<>>]]
  ELSE LET s == e.query[e.cursor + 1]
           j == ReadVar(e, s.var)
       IN IF j = NoJson
          THEN [ok |-> FALSE, more |-> FALSE, e |-> [e EXCEPT !.cursor = @ + 1, !.result = <<>>]]
          ELSE [ok |-> TRUE, more |-> TRUE,
                e |-> [e EXCEPT !.cursor = @ + 1, !.result = [i \in 1..s.items |-> StmtItem(s, j)]]]

(***************************************************************************)
(* JaqlQuery.moveNextQuery(): "move to next cursor, if it's evaluate-able  *)
(* statement, evaluate it and set the current result" (pyJaql.py 145).     *)
(* Outcome [ok, more, e]: more is the returned boolean; ok is FALSE when   *)
(* the statement's evaluation fails (an unbound variable).                 *)
(***************************************************************************)
MoveNextQuery(e) ==
  IF e.cursor >= Len(e.query)
  THEN [ok |-> TRUE, more |-> FALSE, e |-> e]
  ELSE LET s == e.query[e.cursor + 1]
           j == ReadVar(e, s.var)
       IN IF j = NoJson
          THEN [ok |-> FALSE, more |-> FALSE, e |-> [e EXCEPT !.cursor = @ + 1, !.result = <<>>]]
          ELSE [ok |-> TRUE, more |-> TRUE,
                e |-> [e EXCEPT !.cursor = @ + 1, !.result = [i \in 1..s.items |-> StmtItem(s, j)]]]

\* JaqlQuery.currentQuery(): the result of the statement at the cursor;
\* there is none before the first moveNextQuery.
HasCurrent(e) == e.cursor > 0
=============================================================================
