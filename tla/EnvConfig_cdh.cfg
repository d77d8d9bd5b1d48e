CONSTANTS
  JaqlHome <- MCJaqlHome
  HadoopHome <- MCHadoopHome
  JaqlFiles <- MCJaqlFiles
  BuildFiles <- MCJaqlFiles
  FileKind <- MCFileKind
  LetterFree <- MCLetterFree
  OneChar <- MCOneChar
  Missing = Missing
  HadoopFiles <- MCCdhFiles
  LibFiles <- MCFewLibFiles
SPECIFICATION EnvSpec
INVARIANT CheckEnvComplete
