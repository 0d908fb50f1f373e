CONSTANTS
  None = None
  NoDefault = NoDefault
  Pending = Pending
  Error = Error
  MaxArgs = 3
  TypeStrs <- MCTypeStrs
  Names <- MCNames
  Defaults <- MCDefaults
  NameMatches <- MCNameMatches
  TypeMatches <- MCTypeMatches
  DefaultMatches <- MCDefaultMatches
CHECK_DEADLOCK FALSE
SPECIFICATION Spec
INVARIANT TypeOK
INVARIANT ParsedIsPositional
INVARIANT OptionalsTrail
