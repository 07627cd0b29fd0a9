--------------------------- MODULE ResourceLedger ---------------------------
(***************************************************************************)
(* The accounting arithmetic of class ResourceLedger                       *)
(* (include/dpufabric/resource.h).  A ledger is a pair of vectors over the *)
(* resource dimensions: the capacity, in which 0 means "no limit", and the *)
(* usage.  The C++ fields are uint64_t, so sums wrap at Modulus.           *)
(***************************************************************************)
EXTENDS Integers

CONSTANTS
  Dims,      \* memory_bytes, queues, functions, slots, contexts
  Modulus    \* 2^64 in the code

ASSUME LedgerAssumption == Modulus \in Nat \ {0}

Quantity == 0 .. (Modulus - 1)
Usage == [Dims -> Quantity]
NoUsage == [i \in Dims |-> 0]

\* Unsigned addition.
Plus(m, n) == (m + n) % Modulus

\* Fault: the request itself is not counted.
Mut_can_reserve(cap, used, r) ==
  \A i \in Dims : cap[i] # 0 => used[i] <= cap[i]

\* can_reserve: every limited dimension still has room for the request.
can_reserve(cap, used, r) ==
  \A i \in Dims : cap[i] # 0 => Plus(used[i], r[i]) <= cap[i]

\* apply_: what try_reserve(r).commit() leaves in used_.
apply(used, r) == [i \in Dims |-> Plus(used[i], r[i])]

\* Fault: no underflow check.
Mut_release(used, r) == [i \in Dims |-> used[i] - r[i]]

\* release_: all or nothing, and silently nothing when a dimension would
\* underflow.
release(used, r) ==
  IF \E i \in Dims : used[i] < r[i]
  THEN used
  ELSE [i \in Dims |-> used[i] - r[i]]

\* The releases of a loop over a std::map keyed 1 .. n: req[i] for every
\* i \in S, in key order.
ReleaseEach(used, req, S, n) ==
  LET after[i \in 0 .. n] ==
        IF i = 0 THEN used
        ELSE IF i \in S THEN release(after[i - 1], req[i])
        ELSE after[i - 1]
  IN  after[n]
=============================================================================
