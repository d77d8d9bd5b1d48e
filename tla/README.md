# TLA+ models of pyJaql

pyJaql (`src/trunk/src/python/pyJaql/pyJaql/pyJaql.py`) is a Python 2 bridge, built on
jpype, to the Jaql query engine (`com.ibm.jaql.lang.JaqlQuery`, which is not in this
repository). These modules model the bridge from its source. They model the engine only as far
as the bridge drives it, from `spec.md`. TLC checks them.

## The system

| Part | Source | State | Operations |
|---|---|---|---|
| JVM lifecycle | trunk `pyJaql.py` 34-53, 342-350 | one JVM per process: never started, up, or shut down; each `Jaql` object | `__init__`, `close`, `isJVMStarted` |
| Binding marshalling | `pyJaql.py` 271-311 | the engine's variable bindings | `__setVars`, `__setVar` |
| Result conversion | `pyJaql.py` 248-266, 320-337 | none (a function) | `__parseJsonValue`, and `json.loads` of a record or array |
| Query API | `pyJaql.py` 171-199, 248-266 | the engine's query; suspended generators | `evaluate`, `execute` (generator), `__evaluate`, `__iterate` |
| Batch cursor | `pyJaql.py` 137-162 | the engine's statement cursor and current result | `exectue_batch`, `move_next`, `current` (generator) |
| Function API | `pyJaql.py` 60-132 | the engine's function registry | `register_function`, `eval_function`, `exec_function` (generator) |
| Passthroughs | `pyJaql.py` 202-243 | engine jars, module path, UDFs | `execute_script`, `add_jar`, `set_module_path`, `register_java_udf` |
| Classpath configuration | trunk `env.py` | none (reads the environment and the file system) | `_getjarfilelist`, `_configenv`, `_check_env` |
| Legacy bridge | `src/src/python/pyJaql/pyJaql/pyJaql.py` | as above | an older API with the same constructor |
| Tests and samples | `ut/pyJaqlTest.py`, `ut/usageSamples.py`, branch tests | | the documented ways of using the API |

How the parts interact:

- Every `Jaql` object owns one `JaqlQuery`.
  - `evaluate`, `execute`, `exectue_batch` and `register_function` all begin with `setQueryString` on it.
  - So each call replaces the query and the batch cursor of every call before it.
  - The variable bindings stay in the engine from call to call.
  - A definition given to `register_function` reaches the engine's function registry only when the next call is `eval_function` or `exec_function`.
- `__init__` runs `_configenv` and `_check_env` (env.py) when no JVM is up, and starts the JVM with their classpath.
- `execute` and `current` are Python generators.
  - Calling one runs nothing.
  - Each `next()` runs the body up to the next `yield`.
  - So a generator reads the shared engine at moments the caller does not see.
- All objects in a process share one JVM.
  - `close()` shuts it down.
  - jpype cannot start a JVM again after that.

Hard behaviours:

- interleaving of calls with suspended generators on one engine;
- silently skipped bindings (the exact `type() ==` tests), which also skip the unicode strings `json.loads` returns;
- integer width (`intValue()` keeps 32 bits; a Python long beyond 64 bits);
- partial failure of `__setVars` in dict order;
- the `finally` clause of `__init__`, which runs even after a failure;
- a process-wide shutdown in `close()`;
- unwrapped Java exceptions from `move_next` and `current`;
- substring matching in `env.py`.

Correctness, as the code, its comments and its tests state it:

- a call answers with the values the caller bound (`testSetVar`, `testReuseStatement`);
- the batch loop yields each statement once and in order, and it ends (`testExecuteBatchScript`), as the abstract BatchStream says;
- a multi-statement query is refused (`testMutipleStatementException*`);
- a failed start is reported as `JVMException`, and the samples catch it (`usageSamples.py`);
- an object stays usable until it is closed;
- a registered function can be called later (spec.md 4.4), with the arguments the caller gives.

## Modules

- **PyJaqlTypes** holds the conversions, as operators.
  - `SetVarOutcomes` is `__setVar`.
    - str, int, float and bool are set.
    - A long is set if it is in range. If it is not, the conversion raises or wraps.
    - Every other type is skipped.
  - `ParseJsonValue` is `__parseJsonValue`. For a JsonDecimal it is `Wrap(v, JavaIntBits)`.
  - `ResultValue` is the test every result path makes: `__parseJsonValue` for an atom, and `json.loads(toString())` for a record or array.
    - A record is abstracted to one field, and `JsonLoadsField` is what `json.loads` gives for it: unicode for a string (never str), int or long for a number (no `intValue()` truncation), float and bool.
    - `PyDict` is the resulting dict, and `Reported` is what a caller reads off a result (`d["f"]`).
  - A Python value is `[type, val]`, and `PyEqual` is Python 2's `==`.
  - Widths are constants, scaled down in the MC modules:
    - a Python int has 6 bits;
    - a Java int has 4;
    - a Java long has 6.
- **JaqlEngine** is the engine record `[query, bindings, cursor, result]` and its calls.
  - It is modelled from `spec.md` 4.3, 4.5 and 7, so the map marks it spec_modelled.
  - A statement is `[var, items, shape]`: it yields `items` items, each of which reads `var` when it is pulled. Shape `"atom"` yields `$var` itself, and `"record"` yields `{f: $var}` (`StmtItem`). The constant `StmtShapes` says which shapes the caller writes.
- **PyJaql** is one `Jaql` object and a caller who makes any call in any order.
  - Each public method is an action:
    - `Evaluate`;
    - `ExecuteBatch`;
    - `MoveNext`;
    - `ExecuteCall` and `CurrentCall`, which create a generator;
    - `ExecuteFirst`/`ExecuteNext` and `CurrentFirst`/`CurrentNext`, each one `next()` of a generator;
    - `Drop`, which abandons a generator.
  - `SetVars` and `SetEach` are `__setVars`, over every iteration order of the dict.
  - The `except Exception` re-raise appears as `Raised("JaqlRuntimeException")`.
  - The unwrapped calls raise `"JavaException"`.
- **RoundTrip** extends PyJaql with a caller who passes values it received back into later calls.
  - `received` is what earlier evaluate calls returned and open generators yielded, as the caller reads it.
  - `EvaluateReceived` is `evaluate(q, {v: x})` with such an x.
- **BatchLoop** composes PyJaql with the client loop of `testExecuteBatchScript`: `exectue_batch`, then `while move_next(): for v in current()`.
  - `BatchRefinesStream` shows that the loop implements **BatchStream**, which states what a batch promises its client. `Load` fixes the values the batch owes. `Emit` hands over the next one, and `Finish` ends the batch once all have been handed over.
  - The refinement mapping is `INSTANCE BatchStream WITH running <- loop \in {"move", "current", "drain"}, want <- want, out <- got`. The wrapper's steps that yield nothing (a `move_next()`, a generator's first setup) are stuttering steps of the stream.
- **JvmLifecycle** models several `Jaql` objects in one process.
  - `Construct` follows the try, except and finally paths of `__init__`, and `Finally` is its finally clause.
  - `Close` is `close()`.
  - `Use` is any engine call, which raises while the JVM is down.
  - `ConstructWith(i, envExc)` takes how the environment steps ended; `Construct` leaves that open, and `startJVM`'s verdict is nondeterministic.

- **UsageSamples** composes `ut/usageSamples.py` with JvmLifecycle. `__main__` calls up to two sample functions in any order (`Programs`), and each call's `jaql` is its own instance.
  - `SampleInit` is `Jaql()` with the except clauses (`Caught`, `AfterExcept`) and, for `script_query` (`Closing`), the finally clause, which evaluates `jaql.close()` on an unbound `jaql` when the constructor raised.
  - `SampleQuery` is the engine call with its loop, the except clauses, and `script_query`'s `close()`. The engine answers or raises JAQLRuntimeException, and while the JVM is down every call raises RuntimeError.
  - `Return` goes back to `__main__`: the next call, the end of the script, or a traceback.

- **EnvConfig** models trunk `env.py`, which `__init__` calls before it starts the JVM.
  - An installation is four directories: `$JAQL_HOME`, `$JAQL_HOME/build`, `$HADOOP_HOME` and `$HADOOP_HOME/lib`.
    - Each directory holds a subset of a few candidate files, or is missing.
    - `build` can exist only inside an existing `$JAQL_HOME`, and `lib` only inside an existing `$HADOOP_HOME`.
  - Names and paths are sequences of tokens, such as `<<"hadoop","-","0.20.2","-","core",".","jar">>`.
    - A token is a run of characters that no test in `env.py` splits.
    - `Find` is `str.find`: 0-based, and -1 when absent.
    - `MatchAt` and `FindAny` are `re.findall` for the three regex elements `env.py` uses:
      - a literal;
      - `[^a-zA-Z]*`, over the tokens of the constant `LetterFree`;
      - the unescaped `.`, which is any one character (`OneChar`).
  - `GetJarFileLists` is `_getjarfilelist`, for every order `listdir` can return.
  - `ConfigEnv` is `_configenv`. It yields `SystemExit` with no JAQL_HOME, `OSError` from `listdir` of a missing directory, or each classpath that can be built.
    - The classpath is built by `AddEntries`, a fold of `_CLASSPATH + _SEPARATO + jar`.
  - `CheckEnv` is `_check_env`.
  - `Configure` is the two calls in `__init__`, run again by every constructor call.
  - `Reinstall` lets the user change the installation and try again (EnvSpec only).
  - The reference is what the files really are (`FileKind`), and where jaql documents the required jars (`RequiredInstalled`).
  - Left out, as fixed choices: the Windows branch, `DFLT_HADOOP_VERSION`, `HADOOP_CONF_DIR` and the debug printing. The model assumes posix, a set `HADOOP_HOME`, and the default conf directory.

- **JaqlInit** composes EnvConfig and JvmLifecycle into the whole `__init__`.
  - `ConstructConfigured` runs `Configure` on the installation when no JVM is up, and passes its outcome to `ConstructWith` through `EnvException`:
    - an accepted classpath starts the JVM;
    - a rejected one is `exit("Failed")`, SystemExit;
    - `_configenv`'s own exit is SystemExit;
    - its OSError is caught and re-raised as JVMException.
  - The ghost `jvmCp` is the classpath the running JVM was started with.
  - The installation is fixed for a behaviour: it is the one the process runs in.
- **PyJaqlFunctions** extends PyJaql with the function API and interleaves it with `evaluate` and `exectue_batch`.
  - `RegisterFunction` is `register_function`: only `setQueryString` of a one-definition query. The ghost `declared` is what the caller registered.
  - `EvalFunction` is `eval_function`, and `ExecFunctionCall`/`ExecFunctionFirst`/`ExecFunctionNext` is the `exec_function` generator, whose argument check and lookup run at its first `next()`.
  - `FunArgs` is the FunctionArgs the argument code builds: positional for a list or tuple, by key for a dict, empty for anything else.
  - The engine side is modelled from `spec.md` 4.4 and marked spec_modelled. `PrepareFunctions` runs the definitions of the current query string into the session's registry, and `Invoke` fails with LookupError or ArityError. A definition is `[fn, arity]` and a value is the definition that computed it.
- **LegacyJaql** is the older bridge under `src/src` over the same engine model.
  - `LExecute*`, `LExecuteScript*`, `LEvaluate`, `LEvaluateScript`, `AddJar`, `SetProperty` and `GetProperty` are its methods.
  - `LSetVars` prefixes `$` to every key (`Keys` records whether the caller already wrote one). `LSetVar` is its `__setVar`.
  - `LegacyItem`/`JsonLoadsText` are `json.loads(str(toString()))`, with execute's `str()` for a JsonString. A JsonString's text is bare: `json.loads` raises for most strings, but a string that spells JSON (`'23'`, `'true'`) reads back as what it spells. The constant `NumeralTexts` names the model strings whose text spells their number.
  - Exceptions raised outside the method's `try` are recorded as `"unwrapped"`.

MC modules (`MC_PyJaql`, `MC_BatchLoop`, `MC_JvmLifecycle`, `MC_EnvConfig`, `MC_JaqlInit`, `MC_PyJaqlFunctions`, `MC_LegacyJaql`, `MC_RoundTrip`) give the constants values. They do not change the behaviour.

## Runs

| Run | Config | Expect | What it shows |
|---|---|---|---|
| bindings | `PyJaql_bindings.cfg` | pass | With supported values in range, every interleaving of all calls on one object answers evaluate and the first item of execute with the caller's binding (224k states). |
| int_width | `PyJaql_int_width.cfg` | violation | An int outside the Java int range comes back changed (9 becomes -7 at 4 bits). |
| roundtrip | `RoundTrip.cfg` | violation | `evaluate('{f:$x}', {x:'1'})` returns `{f: u'1'}`; after `evaluate('$x', {x:'2'})`, passing `u'1'` back binds nothing and the query answers `'2'`. Values the bridge itself returns in records (and any list or dict) cannot be bound again. |
| exec_multi | `PyJaql_exec_multi.cfg` | violation | `execute("1+1;2+2;")` raises nothing when called, so the test that expects it to raise checks nothing. |
| batch_loop | `BatchLoop.cfg` | pass | The batch loop implements BatchStream: the client receives exactly the values of each statement, once and in order, and under weak fairness of the loop's steps every batch ends (6.6k states). |
| init | `JaqlInit.cfg` | pass | `__init__` whole, on every installation of MC_EnvConfig and in every `listdir` order, with `close()` and engine calls in any order: the JVM is up only with the required jars on its classpath, and a good installation is always accepted. This holds even with `slf4j-log4j12` beside the required jars (3.6k states). |
| life_close | `JvmLifecycle_close.cfg` | violation | `a.close()` stops the JVM under the open object `b`. |
| samples | `UsageSamples.cfg` | violation | `usageSamples.py`'s own `run(1)` ends in a RuntimeError traceback when the JVM cannot start. Its except clauses name JVMException, which `__init__`'s `finally` clause replaces. The same invariant also fails through `script_query`: `jaql.close()` on an unbound `jaql`, or a later sample after its `close()`. |
| env_cdh | `EnvConfig_cdh.cfg` | violation | `hadoop-0.20.2-cdh3u0-core.jar` goes on the classpath, then `_check_env` rejects it because the version contains letters. |
| legacy | `LegacyJaql.cfg` | pass | In the older bridge, every interleaving of its calls (including scripts, a missing script file, `add_jar` of a missing jar, and properties) yields first from an `execute` or `execute_script` generator the value bound under the `$`-prefixing key convention (`LegacyExecuteHonoursBindings`), for a bare-text string, a string that spells a number, and an int beyond a Java int. `add_jar` records only jars that exist (81k states). `evaluate` is not held to this: see `LegacyEvaluateAnswers` below. |
| functions | `PyJaqlFunctions.cfg` | pass | `register_function`, `eval_function` and `exec_function`, with every argument shape, interleaved with `evaluate` and `exectue_batch`: every engine failure of `eval_function` reaches the caller as JaqlRuntimeException, and the registry and generator stay well formed (`FnTypeOK`; 62k states). |
| fn_lost | `PyJaqlFunctions_lost.cfg` | violation | `register_function(f)`, then `evaluate(...)`, then `eval_function(f)`: the evaluate replaced the definition before the engine ever ran it, so f is unknown. |

Each property of a passing run has a mutant in `PROJECT.json`: a plausible bug in the mapped code, which TLC must catch.

### Bounds

- `Vars={x}` (`{x,y}` in BatchLoop), with statements of at most 2 items and queries of at most 2 statements. This allows:
  - a multi-statement query;
  - a batch with a second statement;
  - a generator suspended between two items.
- One generator slot, which is enough to interleave a suspended generator with evaluate and batch calls.
- Host values: one of each supported type in range (`SupportedValues`), two wide ints, or two byte strings (RoundTrip), whose unicode copies come only from results.
- Record statements appear only in RoundTrip: its run has one statement of one item and no generators, enough for the three calls of the trace. In the bindings run they multiplied the state space past what TLC finishes in half an hour.
- Two objects in the JvmLifecycle violation runs, which is enough to show close under another object. One object in JaqlInit, which is enough for construct, close and construct again.
- PyJaqlFunctions: one function name with 0 or 1 formals, every argument shape with 0 or 1 items or keys, and 2 items per result. The query calls keep one variable and one value, enough to replace a definition. A second name put the run over 4 minutes and adds no new step.
- LegacyJaql: one variable, a bare-text str, a str that spells a number, and an int beyond the Java int range (a bool as well took the run to 4 minutes), one script present and one missing, one jar present and one missing, one property.
- EnvConfig candidate files: `jaql.jar` in both jaql directories; the core jar in `$HADOOP_HOME`; `commons-logging`, `commons-logging-api`, `log4j` and `slf4j-log4j12` in `lib`. Every subset is tried.
  - `slf4j-log4j12` contains "log4j" and `commons-logging-api` contains "commons-logging-", so these near misses test the regexes in both directions.
  - The cdh run replaces the core jar with a CDH-named one.
  - `$HADOOP_HOME` holds only the core jar. A second jar there (`hadoop-tools`, which `_check_env` neither requires nor rejects) only doubled the `listdir` orders. Together with the 24 orders of `lib`, it took the init run past 3 minutes without a new case. The near miss that matters in `lib` (`slf4j-log4j12` against the log4j regex) stays.

### Fairness

Only BatchLoop states a liveness property. Its client is sequential code, so each loop step it can take is weakly fair. Loading a new batch is the caller's choice, so it is not fair. BatchStream asks for weak fairness of `Emit` and `Finish`. The refinement check shows that the loop's own fairness implies it: whenever the stream can emit or finish, the loop has an enabled step that leads there.

## Not modelled yet (plan for later sittings)

1. Properties stated as operators, found false, but not run because of the run budget:
   - `StreamHonoursBindings` (PyJaql): an evaluate between two `next()` calls of an execute generator changes its later items;
   - `ClasspathOnlyListed` (EnvConfig): the classpath starts with `:`, so its first entry is empty and the JVM reads it as the current directory;
   - `ConfigEnvTotal` (EnvConfig): no `build/` means OSError;
   - `LegacyFailuresWrapped` and `LegacyEvaluateAnswers` (LegacyJaql): raw exceptions, and evaluate of a bound string raises (bare text) or answers a number (`'9'` gives `9`);
   - `FunctionAnswerFitsArgs` (PyJaqlFunctions): a second argument of another type reaches the engine as no arguments, so a function without formals answers it (false with `AllShapes`, which the functions run uses).
2. A client that interleaves evaluate inside the batch loop, and the partial-failure state after a failing `__setVars`.
3. The trunk passthroughs `execute_script`, `add_jar`, `set_module_path` and `register_java_udf` (pyJaql.py 202-243). Each is one engine call wrapped in `except Exception`. The engine calls they make (`exectueBatch(path)`, `addJar`, `setModuleSeachPath`, `registerJavaUDF`) are defined neither in this repository nor in spec.md, so a model would invent their effect. The legacy `add_jar` is modelled, because its flaw lies in the bridge: it catches a Python class that Java never raises.
4. The pipeline operators of spec.md 4.3 (filter, transform, expand, group, join, top N):
   - as RECURSIVE operators checked against the set-based definitions of spec.md 8;
   - a pull-driven streaming operator refined to its abstract specification with `INSTANCE ... WITH`.
5. Arrays and records of several fields: a one-field record already shows every conversion `json.loads` makes. The branch tests (`branches/jaql-statistics/.../ut/pyJaqlTest.py:39`) assert `type(dicts["name"]) == StringType`, which `json.loads` never gives; the trunk test switched to `basestring`.
6. setup.py (distutils metadata, no behaviour).
