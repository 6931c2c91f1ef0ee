\* What hp_arr_unset leaves behind.
CONSTANTS
  MaxKey = 3
  MaxLen = 4
  MinIndex = 3
  FirstICap = 8
  Careful = FALSE
  Hash <- MCHash
SPECIFICATION HashSpec
INVARIANT NoGhosts
