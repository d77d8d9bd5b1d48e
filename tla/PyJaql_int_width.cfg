\* Python ints wider than a Java int bound through a dict.
CONSTANTS
  PyIntBits = 6
  JavaIntBits = 4
  JavaLongBits = 6
  Vars = {x}
  MaxStmts = 2
  MaxItems = 2
  NoJson = NoJson
  SetQueryClearsVars = FALSE
  StmtShapes = {"atom"}
  Gens = {g1}
  HostValues <- WideInts
SPECIFICATION Spec
INVARIANT CallHonoursBindings
