\* Every column type written and read back; malformed catalog strings read.
CONSTANTS
  Widths <- MCWidths
  Scales <- MCScales
  StoredTexts <- MCStoredTexts
SPECIFICATION Spec
INVARIANT RoundTrip
\* A conversion ends: the terminal states are the end of a column's write or read.
CHECK_DEADLOCK FALSE
