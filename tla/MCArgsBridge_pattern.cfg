CONSTANTS
  None = None
  NoDefault = NoDefault
  Pending = Pending
  Error = Error
  MaxArgs = 2
  TypeStrs <- MCPatternTypeStrs
  Names <- MCPatternNames
  Defaults <- MCPatternDefaults
  NameMatches <- MCNameMatches
  TypeMatches <- MCTypeMatches
  DefaultMatches <- MCDefaultMatches
CHECK_DEADLOCK FALSE
SPECIFICATION Spec
INVARIANT AcceptedMatchesPattern
