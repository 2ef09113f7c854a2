CONSTANTS
  small = small  middle = middle  large = large
  first = first  second = second
  None = None  Unknown = Unknown
  Slots = {1, 2}
  Models = {small, middle, large}
  Need <- MCNeed
  Footprint <- MCFootprint
  Total = 7
  Reserve = 1
  ComfyBytes = 2
  IdleUnload = 2
  Cycle = 2
  SoonSpan = 1
  ComfyEvictable = TRUE
  Labels = {first, second}
  Offers <- MCOffers
  ClientModels = {middle}
  Targets = {1, None}
  Horizons = {1, 2}
  MaxNow = 2
SPECIFICATION Spec
INVARIANTS TypeOK 
PROPERTIES  SparesWhatItCan 
