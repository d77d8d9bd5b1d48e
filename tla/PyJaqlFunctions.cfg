\* The function API interleaved with evaluate and execute_batch on one Jaql object.
CONSTANTS
  PyIntBits = 6
  JavaIntBits = 4
  JavaLongBits = 6
  Vars = {x}
  MaxStmts = 1
  MaxItems = 1
  NoJson = NoJson
  SetQueryClearsVars = FALSE
  StmtShapes = {"atom"}
  Gens = {}
  HostValues <- OneValue
  Fns = {f1}
  MaxArity = 1
  FnItems = 2
  NoFn = NoFn
  FnArgShapes <- AllShapes
SPECIFICATION FnSpec
INVARIANT FnTypeOK
