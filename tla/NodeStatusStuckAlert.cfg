SPECIFICATION Spec
CONSTANTS
  Readers = {r1}
  Channels = {chA}
  Window = 2
  Grace = 3
  Dedupe = 4
  Slots = {a1}
  NoSlot = NoSlot
  MaxRestarts = 0
INVARIANT OnlineHasNoOpenAlert
