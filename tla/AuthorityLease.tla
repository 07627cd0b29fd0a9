--------------------------- MODULE AuthorityLease ---------------------------
(***************************************************************************)
(* What the engine promises about activation authority, without devices,   *)
(* programs, ledgers or tables.                                            *)
(*                                                                         *)
(* A deployment opens without authority.  Authority is granted in two      *)
(* steps: a token (an activation generation) is minted, and then granted.  *)
(* A grant is revoked either alone or together with any others, and what   *)
(* was revoked is granted again only under a token minted afterwards.  A   *)
(* deployment that is closed stays closed.                                 *)
(***************************************************************************)
EXTENDS Naturals

CONSTANT Ids   \* deployment ids

VARIABLES
  phase,    \* of each deployment
  token,    \* the last token minted for each deployment, 0 if none was
  grants    \* the pairs <<deployment, token>> that were ever granted

lease == <<phase, token, grants>>

Phase == {"none", "pending", "minted", "granted", "closed"}

LInit ==
  /\ phase = [x \in Ids |-> "none"]
  /\ token = [x \in Ids |-> 0]
  /\ grants = {}

Open(x) ==
  /\ phase[x] = "none"
  /\ phase' = [phase EXCEPT ![x] = "pending"]
  /\ UNCHANGED <<token, grants>>

Mint(x) ==
  /\ phase[x] = "pending"
  /\ phase' = [phase EXCEPT ![x] = "minted"]
  /\ token' = [token EXCEPT ![x] = @ + 1]
  /\ UNCHANGED grants

Grant(x) ==
  /\ phase[x] = "minted"
  /\ <<x, token[x]>> \notin grants
  /\ phase' = [phase EXCEPT ![x] = "granted"]
  /\ grants' = grants \cup {<<x, token[x]>>}
  /\ UNCHANGED token

Revoke(S) ==
  /\ \A x \in S : phase[x] = "granted"
  /\ phase' = [x \in Ids |-> IF x \in S THEN "pending" ELSE phase[x]]
  /\ UNCHANGED <<token, grants>>

Close(x) ==
  /\ phase[x] \in {"pending", "minted", "granted"}
  /\ phase' = [phase EXCEPT ![x] = "closed"]
  /\ UNCHANGED <<token, grants>>

LNext ==
  \/ \E x \in Ids : Open(x) \/ Mint(x) \/ Grant(x) \/ Close(x)
  \/ \E S \in SUBSET Ids : Revoke(S)

LSpec == LInit /\ [][LNext]_lease
=============================================================================
