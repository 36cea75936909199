SPECIFICATION FairSpec
CONSTANTS
  Universes = {broad, tech}
  Variants = {raw}
  Readers = {web, ui}
  Confirm = 2
  Gates = {"off"}
  Gradients = {"off"}
  Legacy = {"absent"}
  DefaultUniverse = broad
  DefaultVariant = raw
  LastDay = 2
  MaxSwitches = 1
  MaxModes = 0
  MaxCycles = 0
  MaxRestarts = 0
INVARIANTS
  RankedOnce
PROPERTIES
  RankingCatchesUp
