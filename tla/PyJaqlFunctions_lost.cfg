\* A registered function invoked after other calls on the same Jaql object.
CONSTANTS
  PyIntBits = 6
  JavaIntBits = 4
  JavaLongBits = 6
  Vars = {x}
  MaxStmts = 1
  MaxItems = 1
  NoJson = NoJson
  SetQueryClearsVars = FALSE
  StmtShapes = {"atom"}
  Gens = {}
  HostValues <- OneValue
  Fns = {f1}
  MaxArity = 1
  FnItems = 2
  NoFn = NoFn
  FnArgShapes <- PassedShapes
SPECIFICATION FnSpec
INVARIANT RegisteredFunctionCallable
