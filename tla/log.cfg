SPECIFICATION Spec
CONSTANTS
  Bits = 10
  HalfBits = 5
  Unit = 100
  NGX_MAX_ERROR_STR = 64
  Formats <- SmallFormats
  Errors <- SmallErrors
  ErrorTables <- AllBuilds
  strerror <- SmallStrerror
  NGX_SYS_NERR = 8
  EPERM = 20
  Reach = 8
  ENOMEM = 4
  UnknownError <- TheUnknownError
  NoText = NoText
  Banner <- NginxBanner
  OpenMessage <- OpenText
  OpenEnd <- OpenEndText
  MallocMessage <- MallocText
  MallocEnd <- MallocEndText
  PrefixArgs <- SomePrefixes
  LogArgs <- SomeLogs
  NGX_PREFIX <- DefaultPrefix
  NGX_ERROR_LOG_PATH <- DefaultLog
INVARIANTS InBuffer LineFaithful ErrorKept ErrorsDescribed EntriesReadAreWritten LogFileNamed LogUsable
