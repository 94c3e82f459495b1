SPECIFICATION FairSpec
CONSTANTS
  Instances = {api1, api2}
  ResponseTimes <- BoundaryTimes
  Unknown = Unknown
  Unreachable = Unreachable
  None = None
  MaxHealthChanges = 1
INVARIANTS ChoiceIsCurrent
PROPERTIES SwitchesAreJustified ComesBack Converges
