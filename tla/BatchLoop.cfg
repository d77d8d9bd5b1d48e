\* The batch loop of testExecuteBatchScript, run again and again on one object.
CONSTANTS
  PyIntBits = 6
  JavaIntBits = 4
  JavaLongBits = 6
  Vars = {x, y}
  MaxStmts = 2
  MaxItems = 2
  NoJson = NoJson
  SetQueryClearsVars = FALSE
  StmtShapes = {"atom"}
  Gens = {g1}
  HostValues <- SupportedValues
SPECIFICATION LoopSpec
INVARIANT LoopTypeOK
PROPERTY BatchRefinesStream
