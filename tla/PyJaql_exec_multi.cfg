\* execute() of a two-statement query returns a generator and raises nothing.
CONSTANTS
  PyIntBits = 6
  JavaIntBits = 4
  JavaLongBits = 6
  Vars = {x}
  MaxStmts = 2
  MaxItems = 2
  NoJson = NoJson
  SetQueryClearsVars = FALSE
  StmtShapes = {"atom"}
  Gens = {g1}
  HostValues <- SupportedValues
SPECIFICATION Spec
INVARIANT MultiStatementExecuteRejected
