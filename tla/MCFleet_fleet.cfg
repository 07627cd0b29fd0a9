\* One worker whose process is restarted, an administrator, and a coordinator
\* that saves, is shut down or killed, and comes back once.
CONSTANTS
  d1 = d1  d2 = d2  s1 = s1  p1 = p1  k1 = k1  w1 = w1
  b1 = b1  b2 = b2  t1 = t1  slots = slots  Null = Null  Torn = Torn
  Devices = {d1}
  Keys = {k1}
  Services = {s1}
  Programs = {}
  Workers = {w1}
  WorkerBoots = {b1, b2}
  Sockets = {1, 2}
  Dims = {slots}
  QueueDim = slots
  SlotDim = slots
  Modulus = 32
  Unit = 10
  ServiceDef <- PlainService
  ServiceNeeds <- OneServiceNeeds
  ArtifactNeeds <- OneArtifactNeeds
  Hardware <- EqualHardware
  Policy <- DefaultPolicy
  Registrations = {}
  Updates = {}
  Requests = {}
  DeviceOf <- OwnDevices
  Asks <- CreateDeployment
  MaxId = 3
  MaxProgramGen = 1
  MaxEpoch = 2
  Savers = {t1}
  PolicyWeights = 12
  MaxWeights = 64
  MaxGenerations = 256
SPECIFICATION FSpec
INVARIANTS ReadyIsConnected NoneHalfway FileNeverTorn AuthorityOfThisProcess
PROPERTIES RecoveredIsOlder LossIsFenced StayingIsReady
