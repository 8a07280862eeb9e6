SPECIFICATION Spec
CONSTANTS
  q1 = q1
  q2 = q2
  r1 = r1
  r2 = r2
  None = None
  Record = {r1, r2}
  Query = {q1, q2}
  Process = {1, 2}
  Homes <- OneOrTwo
  Start <- NewOrHigh
  Clearance <- LowClearance
  Ceiling <- WideOrNone
  Named <- NoneOrOne
  MaxMoves = 2
INVARIANTS
  TypeOK
PROPERTIES
  OneLocalEmbedder
  RankingsAreWhole
  CalmQueriesAreRanked
