\* A thread that discovers two devices, beside callers that report, fence and
\* retire them and take a deployment through its life, activated up to twice.
CONSTANTS
  d1 = d1  d2 = d2  s1 = s1  p1 = p1  k1 = k1  w1 = w1  b1 = b1  b2 = b2
  t1 = t1  slots = slots  Null = Null
  Devices = {d1, d2}
  Keys = {}
  Services = {}
  Programs = {}
  Workers = {w1}
  WorkerBoots = {}
  Dims = {slots}
  Modulus = 8
  ServiceDef <- OneService
  Registrations <- Registered
  Updates <- Discovered
  Requests <- OneSize
  MaxId = 4
  MaxProgramGen = 0
  MaxEpoch = 1
  Threads = {t1}
  Discoveries <- ScenarioAB
SPECIFICATION SSpec
INVARIANTS LedgerExact ViewIsBound DevicesOnce
PROPERTIES ImplementsEngine FoundIsRegistered
