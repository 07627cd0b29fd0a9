\* A deployment is recovered and its device revalidated.
CONSTANTS
  d1 = d1  d2 = d2  s1 = s1  p1 = p1  k1 = k1  w1 = w1  b1 = b1  b2 = b2
  t1 = t1  slots = slots  Null = Null  Torn = Torn
  Devices = {d1}
  Keys = {}
  Services = {}
  Programs = {}
  Workers = {w1}
  WorkerBoots = {b1}
  Dims = {slots}
  Modulus = 8
  ServiceDef <- OneService
  Registrations <- OwnedDevices
  Updates <- OwnedDevices
  Requests <- OneSize
  MaxId = 3
  MaxProgramGen = 1
  MaxEpoch = 2
  Savers = {t1}
  PolicyWeights = 12
  MaxWeights = 64
  MaxGenerations = 256
SPECIFICATION ToolSpec
PROPERTIES NeverOverwritten
