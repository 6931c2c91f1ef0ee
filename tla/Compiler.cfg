SPECIFICATION Spec
CONSTANTS
  MAX_SCOPE = 64
  MAX_LOANS = 2
  MAX_CLOSURES = 4
  Traced = {"a", "b", "c", "n", "t", "h", "z", "u", "r", "list"}
  Risky = {"r"}
  Wrappers = {"if", "while", "do", "for", "foreach", "switch", "text", "try", "tryfin", "catch", "finally", "unsafe"}
  Leaves = {"call", "break", "continue", "return", "throw", "closure"}
  Modes = {"typed", "once", "nested", "classes", "moves"}
  Contexts = {"fn", "top", "try", "closure", "param", "method", "ref"}
  MaxNesting = 2
  MaxMoves = 3
  OracleLength = 4
  Careful = TRUE
PROPERTIES AcceptedCompiles SameControl NoUseAfterMove EvaluatedOnce
