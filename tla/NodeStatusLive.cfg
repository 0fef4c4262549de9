SPECIFICATION FairSpec
CONSTANTS
  Readers = {r1}
  Channels = {chA}
  Window = 1
  Grace = 2
  Dedupe = 2
  Slots = {a1, a2}
  NoSlot = NoSlot
  MaxRestarts = 1
PROPERTIES SilentGoesOffline QueueDrains
