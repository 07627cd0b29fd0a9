\* Devices that differ in all that a request may ask of them, reported to
\* coordinators with empty and with longer catalogs.
CONSTANTS
  s1 = s1  s2 = s2  p1 = p1  k1 = k1  k2 = k2  w1 = w1  b1 = b1  Null = Null
  HalfRange = 8
  Reports <- VariedReports
  States <- FourStates
  Defaults <- ConstructedPolicy
  Worker = w1
  WorkerBoot = b1
  Keys = {k1, k2}
  Services = {s1, s2}
  Programs = {p1}
  ServiceDef <- Definitions
  ServiceNeeds <- TwoServices
  ArtifactNeeds <- OneArtifact
  Asks <- VariedAsks
  Policy <- DefaultPolicy
  Dims = {"memory_bytes", "queues", "functions", "slots", "contexts"}
  QueueDim = "queues"
  SlotDim = "slots"
  Modulus = 32
  Unit = 4
SPECIFICATION JSpec
INVARIANTS WireLosesOnlyIsolation StoreKeepsAll SavedIsLoadable
CHECK_DEADLOCK FALSE
