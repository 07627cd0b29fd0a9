------------------------------ MODULE Restart -------------------------------
(***************************************************************************)
(* A coordinator process that persists its engine, dies and is started     *)
(* again: DPUFabricEngine::persist and recover_from (src/engine.cpp),      *)
(* PersistenceStore::save and load (src/persistence.cpp) and the start of  *)
(* main in tools/dpu_fabric_coordinator.cpp.                               *)
(*                                                                         *)
(* persist takes no lock: it copies the published snapshot and then does   *)
(* file I/O while other calls, and other persists, go on.  The file system *)
(* has two names, the state file and its ".tmp"; a writer that has a file  *)
(* open follows it when another save renames or removes it.  The process   *)
(* may be killed between any two steps; what it wrote stays.               *)
(***************************************************************************)
EXTENDS Engine, FiniteSets

CONSTANTS
  Savers,          \* threads that call persist
  Torn,            \* the content of an empty or half-written file
  PolicyWeights,   \* entries in Policy::defaults().weights
  MaxWeights,      \* the entries load accepts
  MaxGenerations   \* the generations of a program that load accepts

ASSUME RestartAssumption ==
  /\ PolicyWeights \in Nat
  /\ MaxWeights \in Nat
  /\ MaxGenerations \in Nat
  /\ Torn # Null

VARIABLES
  up,           \* main has passed recover_from and serves calls
  weights,      \* policy.weights.size()
  file, tmp,    \* what path_ and path_.tmp hold, Null if there is no file
  save,         \* where each saver is in save, its image, and which of the
                \* two names (or none) the file has that it has open
  boot_epoch    \* history: the epoch this process started serving with

disk == <<file, tmp>>
process == <<up, weights, boot_epoch>>
rvars == <<vars, disk, process, save>>

NotSaving == [pc |-> "idle", image |-> Torn, fd |-> "none"]

-----------------------------------------------------------------------------
(* PersistenceStore::save *)

\* The payload.  The activation table and the workers are not written; the
\* usage is, but recover_from overwrites it.
Image ==
  [epoch |-> epoch, weights |-> weights, devices |-> devices,
   device_order |-> device_order, services |-> services,
   programs |-> programs, current_program_gen |-> current_program_gen,
   deployments |-> deployments]

\* The file called `from` is called `to` now: for all who have it open, too.
Moved(saves, from, to) ==
  [p \in Savers |-> IF saves[p].fd = from THEN [saves[p] EXCEPT !.fd = to]
                    ELSE saves[p]]

\* persist loads the snapshot, save opens the temporary file and truncates it.
SaveOpen(p) ==
  /\ up
  /\ save[p].pc = "idle"
  /\ tmp' = Torn
  /\ save' = [save EXCEPT ![p] = [pc |-> "write", image |-> Image, fd |-> "tmp"]]
  /\ UNCHANGED <<vars, process, file>>

\* write, flush and close.  Over the bytes of another writer of the same
\* file, of another length, the result need not be either image.
Written(old, new) == IF old = Torn THEN {new} ELSE {new, Torn}

SaveWrite(p) ==
  LET s == save[p]
  IN  /\ s.pc = "write"
      /\ file' \in IF s.fd = "file" THEN Written(file, s.image) ELSE {file}
      /\ tmp' \in IF s.fd = "tmp" THEN Written(tmp, s.image) ELSE {tmp}
      /\ save' = [save EXCEPT ![p] = [NotSaving EXCEPT !.pc = "remove"]]
      /\ UNCHANGED <<vars, process>>

\* The temporary file cannot be opened or written: IO_ERROR, and what was
\* written stays.
SaveFails(p) ==
  /\ save[p].pc = "write"
  /\ save' = [save EXCEPT ![p] = NotSaving]
  /\ UNCHANGED <<vars, process, disk>>

\* std::remove(path_).
SaveRemove(p) ==
  /\ save[p].pc = "remove"
  /\ file' = Null
  /\ save' = Moved([save EXCEPT ![p].pc = "rename"], "file", "none")
  /\ UNCHANGED <<vars, process, tmp>>

\* Fault: the file is renamed before it is written and closed.
Mut_SaveRename(p) ==
  /\ save[p].pc \in {"write", "rename"}
  /\ file' = tmp
  /\ tmp' = Null
  /\ save' = [save EXCEPT ![p] = NotSaving]
  /\ UNCHANGED <<vars, process>>

\* std::rename(tmp, path_), over a file that another save put there.  When it
\* fails, for one because there is nothing to rename, the temporary file is
\* removed: IO_ERROR.
SaveRename(p) ==
  LET done == [save EXCEPT ![p] = NotSaving]
  IN  /\ save[p].pc = "rename"
      /\ tmp' = Null
      /\ \/ /\ tmp # Null
            /\ file' = tmp
            /\ save' = Moved(Moved(done, "file", "none"), "tmp", "file")
         \/ /\ UNCHANGED file
            /\ save' = Moved(done, "tmp", "none")
      /\ UNCHANGED <<vars, process>>

-----------------------------------------------------------------------------
(* Death and restart *)

\* An engine as its constructor leaves it.
Constructed ==
  /\ devices' = EmptyMap
  /\ device_order' = <<>>
  /\ ledgers' = EmptyMap
  /\ services' = {}
  /\ programs' = [p \in Programs |-> {}]
  /\ current_program_gen' = [p \in Programs |-> 0]
  /\ workers' = EmptyMap
  /\ deployments' = EmptyMap
  /\ activations' = EmptyMap
  /\ epoch' = 1
  /\ id_seq' = 1

\* The process is killed, at any point of any save; the next one constructs
\* an engine.  The epoch bound keeps a next start possible.
Crash ==
  /\ up
  /\ file \notin {Null, Torn} => file.epoch < MaxEpoch
  /\ up' = FALSE
  /\ weights' = PolicyWeights
  /\ save' = [p \in Savers |-> NotSaving]
  /\ Constructed
  /\ UNCHANGED <<disk, boot_epoch>>

\* main finds no state file: a fresh coordinator with its --epoch, 1.
StartFresh ==
  /\ ~up
  /\ file = Null
  /\ up' = TRUE
  /\ boot_epoch' = epoch
  /\ UNCHANGED <<vars, disk, save, weights>>

\* Fault: the authority of a committed deployment comes back with it.
Mut_RecoveredDeployment(dep) == [dep EXCEPT !.activation = 0]

\* load takes authority and the activation from every deployment and fences
\* the running ones; the others keep their state.
RecoveredDeployment(dep) ==
  [dep EXCEPT
     !.authoritative = FALSE,
     !.activation = 0,
     !.state = IF @ \in {"ACTIVE", "DEGRADED", "DRAINING"}
               THEN "REVALIDATION_REQUIRED" ELSE @]

\* load fences every device.
RecoveredDevice(dev) ==
  [dev EXCEPT
     !.evidence_fresh = FALSE,
     !.lifecycle = IF @ \in {"RETIRED", "FAILED", "OFFLINE"} THEN @
                   ELSE "REVALIDATION_REQUIRED"]

\* Fault: the coordinator goes on in the persisted epoch.
Mut_RecoveredEpoch(e) == e

\* load sets the epoch to the persisted one, recover_from advances it.
RecoveredEpoch(e) == next_generation(IF e > 1 THEN e ELSE 1)

\* What load accepts: the checksums match and the counts are in the bounds
\* that save does not look at.
Accepted(im) ==
  /\ im # Torn
  /\ im.weights <= MaxWeights
  /\ \A p \in Programs : Cardinality(im.programs[p]) <= MaxGenerations

\* load on an engine that was just constructed.  The persisted weights are
\* appended to those of the constructor.
load(im) ==
  /\ weights' = weights + im.weights
  /\ devices' = [d \in DOMAIN im.devices |-> RecoveredDevice(im.devices[d])]
  /\ device_order' = im.device_order
  /\ ledgers' = [d \in DOMAIN im.devices |->
                   [cap |-> im.devices[d].resource_capacity, used |-> NoUsage]]
  /\ services' = im.services
  /\ programs' = im.programs
  /\ current_program_gen' = im.current_program_gen
  /\ deployments' = [x \in DOMAIN im.deployments |->
                       RecoveredDeployment(im.deployments[x])]
  /\ UNCHANGED <<workers, activations>>

\* recover_from.  The ledgers that load created stay empty and the id
\* generator is not told of the recovered ids.  A file that load refuses
\* leaves no coordinator: main does not catch.
Recover ==
  /\ ~up
  /\ file # Null
  /\ Accepted(file)
  /\ load(file)
  /\ up' = TRUE
  /\ epoch' = RecoveredEpoch(file.epoch)
  /\ boot_epoch' = epoch'
  /\ UNCHANGED <<id_seq, disk, save>>

-----------------------------------------------------------------------------

RInit ==
  /\ Init
  /\ up = TRUE
  /\ weights = PolicyWeights
  /\ file = Null
  /\ tmp = Null
  /\ save = [p \in Savers |-> NotSaving]
  /\ boot_epoch = 1

\* The calls that tools/dpu_fabric_coordinator.cpp makes: REGISTER_DEVICE and
\* PUBLISH_EVIDENCE of a worker, a worker that connects or is lost, and
\* CREATE_DEPLOYMENT.
ToolCall ==
  \/ \E rec \in Registrations : register_device(rec)
  \/ \E rec \in Updates : update_device(rec)
  \/ \E w \in Workers :
       \/ mark_worker_lost(w)
       \/ \E b \in WorkerBoots : register_worker(w, b)
  \/ \E d \in Devices, req \in Requests : reserve_deployment(d, req)
  \/ \E x \in DOMAIN deployments :
       \/ stage_deployment(x)
       \/ load_deployment(x)
       \/ validate_deployment(x)
       \/ activate_deployment(x)
       \/ commit_deployment(x)

ProcessStep ==
  \/ Crash
  \/ StartFresh
  \/ Recover
  \/ \E p \in Savers :
       \/ SaveOpen(p)
       \/ SaveWrite(p)
       \/ SaveFails(p)
       \/ SaveRemove(p)
       \/ SaveRename(p)

ToolNext == (up /\ ToolCall /\ UNCHANGED <<disk, process, save>>) \/ ProcessStep

ToolSpec == RInit /\ [][ToolNext]_rvars

-----------------------------------------------------------------------------
(* Properties *)

\* The state file, when there is one, is a whole image: a kill in the middle
\* of a save leaves the half-written bytes under the temporary name.
FileNeverTorn == file # Torn

\* Live authority is never restored from disk: an authoritative deployment
\* was committed by the process that now serves, under one of its epochs.
AuthorityOfThisProcess ==
  \A x \in DOMAIN deployments :
    deployments[x].authoritative => deployments[x].epoch >= boot_epoch

\* What recovers from disk was recorded in an earlier epoch than the one
\* this process serves in, so that no recovered record can pass for a
\* present one.
RecoveredIsOlder ==
  [][~up /\ up' => \A x \in DOMAIN deployments' :
                     deployments'[x].epoch < epoch']_rvars

=============================================================================
