\* Constructing, using and closing a Jaql object on every installation.
CONSTANTS
  JaqlHome <- MCJaqlHome
  HadoopHome <- MCHadoopHome
  JaqlFiles <- MCJaqlFiles
  BuildFiles <- MCJaqlFiles
  FileKind <- MCFileKind
  LetterFree <- MCLetterFree
  OneChar <- MCOneChar
  Missing = Missing
  HadoopFiles <- MCCoreFiles
  LibFiles <- MCLibFiles
  Instances = {a}
SPECIFICATION InitSpec
INVARIANT JvmStartedWithRequiredJars
INVARIANT CheckEnvComplete
