\* The deployment lifecycle on one device, with every device call that
\* can invalidate evidence: up to three deployments, up to four activations.
\* The device may be reported again with fresh evidence, the epoch advanced.
CONSTANTS
  d1 = d1  d2 = d2  s1 = s1  p1 = p1  k1 = k1  w1 = w1  b1 = b1  b2 = b2
  slots = slots  Null = Null
  Devices = {d1}
  Keys = {}
  Services = {}
  Programs = {}
  Workers = {}
  WorkerBoots = {}
  Dims = {slots}
  Modulus = 8
  ServiceDef <- OneService
  Registrations <- ReadyDevices
  Updates <- ReadyDevices
  Requests <- OneSize
  MaxId = 6
  MaxProgramGen = 0
  MaxEpoch = 2
SPECIFICATION Spec
INVARIANTS TypeOK AuthorityBinding GenerationHistory EvidenceFenced NoLeak
PROPERTIES DeploymentTransitionsValid ImplementsLease
