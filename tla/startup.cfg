SPECIFICATION FairSpec
CONSTANTS
  Letter <- MCLetter
  Plain <- MCPlain
  Garbage <- MCGarbage
  HeaderCount = 16
  OnCurve <- MCOnCurve
  Inputs <- MCInputs
INVARIANTS
  TypeOK
  OptionsOutcome
  LastValueWins
  ReadExact
  PointsExact
PROPERTIES
  StartupEnds
