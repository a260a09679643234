CONSTANTS
  Capacity = 3
  MaxOffer = 4
  MaxRequest = 3
  MaxFrames = 6
SPECIFICATION Spec
INVARIANTS IInv NoSlotRace
PROPERTY ImplementsFifo
