CONSTANTS
  Words = {"card_number", "note"}
  SensitiveWords = {"card_number"}
  MaxFragments = 2
  MaxDepth = 2
SPECIFICATION RedactionSpec
CHECK_DEADLOCK FALSE
INVARIANT RedactionIsExact
