\* Every interleaving of the older bridge's calls with supported values.
CONSTANTS
  PyIntBits = 6
  JavaIntBits = 4
  JavaLongBits = 6
  Vars = {"x"}
  MaxStmts = 1
  MaxItems = 2
  NoJson = NoJson
  SetQueryClearsVars = FALSE
  StmtShapes = {"atom"}
  Gens = {g1}
  HostValues <- LegacyValues
  Scripts <- MCScripts
  Missing = Missing
  JarPaths = {"ext.jar", "none.jar"}
  JarFiles = {"ext.jar"}
  PropNames = {"enableRewrite"}
  PropValues = {"false"}
  NumeralTexts = {9}
SPECIFICATION Spec
INVARIANT LegacyTypeOK
INVARIANT LegacyExecuteHonoursBindings
