\* Every word, argument and statement up to the bounds below; "rough" inputs left out.
CONSTANTS
  MaxGrowth = 2
  MaxChars = 6
  Careful = TRUE
  IntBits = 5
  Vars = {p, q}
  Smooth = TRUE
  MaxStrings = 3
  MaxLen = 2
  MaxSize = 2
  MaxNext = 3
SPECIFICATION SeqSpec
PROPERTIES
  ReadAsMeant NewlinesHarmless ScannerRight
  TextLaws RegexRight RoundTrips Arithmetic OrderAndArrays
  KeepsPromise
