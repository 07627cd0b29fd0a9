\* Up to two deployments, of a program whose generations come and go or of
\* none, in two epochs, on a device that reboots or gets an owner.  With sizes
\* of 1 and 2 and Modulus 4 some requests are refused and some sums wrap.
CONSTANTS
  d1 = d1  d2 = d2  s1 = s1  p1 = p1  k1 = k1  w1 = w1  b1 = b1  b2 = b2
  slots = slots  Null = Null
  Devices = {d1}
  Keys = {}
  Services = {}
  Programs = {p1}
  Workers = {w1}
  WorkerBoots = {}
  Dims = {slots}
  Modulus = 4
  ServiceDef <- OneService
  Registrations <- ReadyDevices
  Updates <- RebootedOrOwned
  Requests <- ProgramOrLarge
  MaxId = 4
  MaxProgramGen = 2
  MaxEpoch = 2
SPECIFICATION Spec
INVARIANTS LedgerWithinCapacity
PROPERTIES GrantsStaleOnlyByBoot
