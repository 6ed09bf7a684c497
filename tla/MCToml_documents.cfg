CONSTANTS
  ka = ka  kb = kb  kc = kc
  Keys <- SomeKeys
  InlineKeys <- BraceKeys
  KEYPARTMAX = 3
  TABLE_MAX = 2
  ARRAY_MAX = 2
  BRACKET_LEVEL_MAX = 1
  BRACE_LEVEL_MAX = 1
  MaxLines = 4
  InlineLines = 2
  InlineSize = 3
SPECIFICATION Spec
INVARIANTS TypeOK AcceptsExactly ReadsBack CurtabLive InlineValuesFixed RecursionBounded
PROPERTIES EntriesStay
CHECK_DEADLOCK FALSE
