\* Decimal strings in the catalog whose members are out of uint8 range or negative.
CONSTANTS
  Widths <- MCWidths
  Scales <- MCScales
  StoredTexts <- MCDecimalTexts
SPECIFICATION Spec
INVARIANT Canonical
CHECK_DEADLOCK FALSE
