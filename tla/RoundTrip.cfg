\* A caller that passes back the field of a record result.
CONSTANTS
  PyIntBits = 6
  JavaIntBits = 4
  JavaLongBits = 6
  Vars = {x}
  MaxStmts = 1
  MaxItems = 1
  NoJson = NoJson
  SetQueryClearsVars = FALSE
  StmtShapes = {"atom", "record"}
  Gens = {}
  HostValues <- TwoStrs
SPECIFICATION RTSpec
INVARIANT CallHonoursBindings
