CONSTANTS
  Calls = {c1, c2}
  CollisionRetries = 2
  MaxOutside = 4
SPECIFICATION Spec
INVARIANTS EffectMatchesResult CollisionOutnumbered
PROPERTY EveryWriteReturns
