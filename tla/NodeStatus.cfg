SPECIFICATION Spec
CONSTANTS
  Readers = {r1, r2}
  Channels = {chA, chB}
  Window = 2
  Grace = 3
  Dedupe = 4
  Slots = {a1, a2}
  NoSlot = NoSlot
  MaxRestarts = 0
SYMMETRY Symmetry
INVARIANTS EveryEdgeAudited OutageHasOpenAlert DeliveredMeansTaken
