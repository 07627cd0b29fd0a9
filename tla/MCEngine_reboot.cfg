\* The device reboots between reserve and commit.
CONSTANTS
  d1 = d1  d2 = d2  s1 = s1  p1 = p1  k1 = k1  w1 = w1  b1 = b1  b2 = b2
  slots = slots  Null = Null
  Devices = {d1}
  Keys = {}
  Services = {}
  Programs = {}
  Workers = {}
  WorkerBoots = {}
  Dims = {slots}
  Modulus = 8
  ServiceDef <- OneService
  Registrations <- ReadyDevices
  Updates <- Rebooted
  Requests <- OneSize
  MaxId = 6
  MaxProgramGen = 0
  MaxEpoch = 1
SPECIFICATION Spec
PROPERTIES GrantsOnlyCurrent
