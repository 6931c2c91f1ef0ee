SPECIFICATION Spec
CONSTANTS
  MAX_SCOPE = 64
  MAX_LOANS = 2
  MAX_CLOSURES = 4
  Traced = {"a", "b", "c", "n", "t", "h", "z", "u", "r", "list"}
  Risky = {"r"}
  Wrappers = {"if", "while", "do", "for", "foreach", "switch", "text", "try", "tryfin", "catch", "finally", "unsafe"}
  Leaves = {"call", "break", "continue", "return", "throw", "closure"}
  Modes = {"classes"}
  Contexts = {"fn"}
  MaxNesting = 2
  MaxMoves = 3
  OracleLength = 4
  Careful = FALSE
PROPERTIES OverridesWin
