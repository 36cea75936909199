SPECIFICATION Spec
CONSTANTS
  Universes = {broad, tech}
  Variants = {raw}
  Readers = {}
  Confirm = 2
  Gates = {"off", "200"}
  Gradients = {"off", "200"}
  Legacy = {"absent", "gradient200"}
  DefaultUniverse = broad
  DefaultVariant = raw
  LastDay = 4
  MaxSwitches = 1
  MaxModes = 2
  MaxCycles = 2
  MaxRestarts = 1
INVARIANTS
  SignalMatchesReplay
  ChainOfOneBasket
