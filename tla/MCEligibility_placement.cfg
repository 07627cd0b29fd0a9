\* Two equal devices of ten slots, one deployment of one slot or of nine, and
\* a program of two generations.
CONSTANTS
  d1 = d1  d2 = d2  s1 = s1  p1 = p1  k1 = k1  w1 = w1  b1 = b1  b2 = b2
  slots = slots  Null = Null
  Devices = {d1, d2}
  Keys = {k1}
  Services = {s1}
  Programs = {p1}
  Workers = {}
  WorkerBoots = {}
  Dims = {slots}
  QueueDim = slots
  SlotDim = slots
  Modulus = 32
  Unit = 10
  ServiceDef <- OneService
  ServiceNeeds <- OneServiceNeeds
  ArtifactNeeds <- OneArtifactNeeds
  Hardware <- EqualHardware
  Policy <- DefaultPolicy
  Registrations <- ReportedDevices
  Updates <- ReportedDevices
  Requests <- AskRequests
  Asks <- ThreeAsks
  MaxId = 3
  MaxProgramGen = 2
  MaxEpoch = 1
SPECIFICATION PlacementSpec
INVARIANTS EligibleIsDeployable WarmPreferred
SYMMETRY AlikeDevices
