----------------------------- MODULE FleetProofs ------------------------------
(***************************************************************************)
(* Proofs about the coordinator process that saves its engine, dies and is *)
(* started again: what the state file holds and what comes back from it,   *)
(* whose device can be selected, and that no creation stays halfway.       *)
(*                                                                         *)
(* They hold of ToolSpec, the process with its calls in any order, and of  *)
(* FSpec, the process with its loop and its connections: RStep is what the *)
(* steps of both are.  TypeCorrect is not theirs to use: the ids of a      *)
(* recovered deployment are not below the generator.                       *)
(***************************************************************************)
EXTENDS Fleet, TLAPS

-----------------------------------------------------------------------------
(* The steps of both specifications *)

\* A call of CREATE_DEPLOYMENT after the reservation.
DeployCall ==
  \E x : \/ stage_deployment(x)
         \/ load_deployment(x)
         \/ validate_deployment(x)
         \/ activate_deployment(x)
         \/ commit_deployment(x)

\* A call that the coordinator's loop makes.
LoopCall ==
  \/ \E s : register_service(s)
  \/ \E rec : register_device(rec) \/ update_device(rec)
  \/ \E w : mark_worker_lost(w) \/ \E b : register_worker(w, b)
  \/ \E d, req : reserve_deployment(d, req)
  \/ DeployCall

RStep ==
  \/ UNCHANGED <<disk, process, save>> /\ (UNCHANGED vars \/ (up /\ LoopCall))
  \/ ProcessStep

LEMMA ToolSteps == [ToolNext]_rvars => RStep
  BY DEF ToolNext, ToolCall, RStep, LoopCall, DeployCall, rvars

\* One turn of the loop makes at most one call of the engine.
LEMMA ServeCalls ==
  ASSUME NEW c, Serve(c)
  PROVE  UNCHANGED vars \/ LoopCall
  <1>1. CASE Hello(c)
    BY <1>1 DEF Hello, LoopCall
  <1>2. CASE RegisterDevice(c)
    BY <1>2 DEF RegisterDevice, LoopCall
  <1>3. CASE PublishEvidence(c)
    BY <1>3 DEF PublishEvidence, LoopCall
  <1>4. CASE Result(c)
    BY <1>4 DEF Result
  <1>5. CASE Create(c)
    BY <1>5 DEF Create, LoopCall
  <1>6. CASE CloseConn(c)
    BY <1>6 DEF CloseConn, LoopCall
  <1> QED BY <1>1, <1>2, <1>3, <1>4, <1>5, <1>6 DEF Serve

\* Where the loop is in CREATE_DEPLOYMENT, the next call is one of the five.
LoopOK == "call" \in DOMAIN loop /\ (loop # Idle => loop.call \in 1 .. 5)

LEMMA ProceedCalls ==
  ASSUME LoopOK, Proceed
  PROVE  UNCHANGED vars \/ DeployCall
  <1>1. ASSUME NEW x, NEW n \in 1 .. 5, Call(x, Calls[n])
        PROVE  DeployCall
    <2>1. Calls[n] \in {"STAGING", "LOADED", "VALIDATING", "ACTIVATING",
                        "ACTIVE"}
      BY DEF Calls
    <2>2. ASSUME NEW to \in {"STAGING", "LOADED", "VALIDATING", "ACTIVATING",
                             "ACTIVE"}, Call(x, to)
          PROVE  DeployCall
      BY <2>2 DEF Call, DeployCall
    <2> QED BY <1>1, <2>1, <2>2
  <1>2. loop.call \in 1 .. 5
    BY DEF LoopOK, Proceed, Serving
  <1> QED BY <1>1, <1>2 DEF Proceed

LEMMA FleetSteps == LoopOK /\ [FNext]_fvars => RStep
  <1> SUFFICES ASSUME LoopOK, [FNext]_fvars PROVE RStep
    OBVIOUS
  <1>1. CASE Begins
    BY <1>1 DEF Begins, AtLoop, Keeps, Startup, RStep, LoopCall
  <1>2. CASE Proceeds
    BY <1>2, ProceedCalls DEF Proceeds, AtLoop, Keeps, RStep, LoopCall
  <1>3. CASE Leaves
    BY <1>3 DEF Leaves, Keeps, RStep, pvars
  <1>4. CASE Exits \/ Dies
    BY <1>4 DEF Exits, Dies, RStep, ProcessStep
  <1>5. ASSUME NEW p \in Savers, Saves(p)
        PROVE  RStep
    BY <1>5 DEF Saves, RStep, ProcessStep
  <1>6. CASE Restarts
    BY <1>6 DEF Restarts, RStep, ProcessStep
  <1>7. ASSUME NEW c \in Sockets, Accepts(c)
        PROVE  RStep
    BY <1>7 DEF Accepts, Accept, Keeps, RStep
  <1>8. ASSUME NEW c \in Sockets, Serves(c)
        PROVE  RStep
    BY <1>8, ServeCalls DEF Serves, AtLoop, Keeps, RStep
  <1>9. ASSUME NEW c \in Sockets, Shutdown(c)
        PROVE  RStep
    BY <1>9 DEF Shutdown, Keeps, RStep
  <1>10. ASSUME NEW c \in Sockets, Joins(c)
         PROVE  RStep
    BY <1>10 DEF Joins, StartWorker, StartAdmin, Connect, Keeps, RStep
  <1>11. ASSUME NEW c \in Sockets, GoesOn(c)
         PROVE  RStep
    BY <1>11 DEF GoesOn, WorkerStep, AskAgain, Keeps, RStep
  <1>12. ASSUME NEW c \in Sockets, Ends(c)
         PROVE  RStep
    BY <1>12 DEF Ends, End, Keeps, RStep
  <1>13. CASE UNCHANGED fvars
    BY <1>13 DEF fvars, pvars, RStep
  <1> QED BY <1>1, <1>2, <1>3, <1>4, <1>5, <1>6, <1>7, <1>8, <1>9, <1>10,
             <1>11, <1>12, <1>13 DEF FNext, Thread

LEMMA FleetLoop ==
  /\ FInit => LoopOK
  /\ LoopOK /\ [FNext]_fvars => LoopOK'
  <1>1. FInit => LoopOK
    BY DEF FInit, PInit, LoopOK, Idle
  <1> SUFFICES ASSUME LoopOK, [FNext]_fvars PROVE LoopOK'
    BY <1>1
  <1>2. ASSUME NEW c, NEW x, loop' = [call |-> 1, deployment |-> x, admin |-> c]
        PROVE  LoopOK'
    BY <1>2 DEF LoopOK
  <1>3. CASE Proceeds
    <2>1. /\ loop # Idle
          /\ \/ loop' = Idle
             \/ /\ loop.call # 5
                /\ loop' = [loop EXCEPT !.call = @ + 1]
      BY <1>3 DEF Proceeds, Proceed, Serving, Calls
    <2>2. loop.call \in 1 .. 5 /\ "call" \in DOMAIN loop
      BY <2>1 DEF LoopOK
    <2>3. CASE loop' = Idle
      BY <2>3 DEF LoopOK, Idle
    <2>4. CASE loop.call # 5 /\ loop' = [loop EXCEPT !.call = @ + 1]
      <3>1. /\ DOMAIN loop' = DOMAIN loop
            /\ loop'.call = loop.call + 1
        BY <2>2, <2>4
      <3> QED BY <2>2, <2>4, <3>1 DEF LoopOK
    <2> QED BY <2>1, <2>3, <2>4
  <1>4. CASE UNCHANGED loop \/ loop' = Idle
    BY <1>4 DEF LoopOK, Idle
  <1>5. ASSUME NEW c, Serves(c)
        PROVE  LoopOK'
    <2>1. CASE Create(c)
      BY <1>2, <1>4, <2>1 DEF Create
    <2> QED BY <1>4, <1>5, <2>1
            DEF Serves, Serve, Hello, RegisterDevice, PublishEvidence, Result,
                CloseConn, coordinator
  <1>6. ASSUME NEW c, Joins(c) \/ GoesOn(c) \/ Ends(c)
        PROVE  LoopOK'
    BY <1>4, <1>6 DEF Joins, GoesOn, Ends, StartWorker, StartAdmin, Connect,
                      WorkerStep, AskAgain, End, coordinator
  <1> QED BY <1>3, <1>4, <1>5, <1>6
          DEF FNext, Thread, Begins, Startup, Leaves, Exits, Dies, Saves,
              Restarts, Accepts, Accept, Shutdown, coordinator, fvars, pvars

-----------------------------------------------------------------------------
(* The state file *)

\* A file that was not written to its end is no image: its length or its
\* checksum gives it away.
TornIsNoImage ==
  \A e, w, ds, ord, s, p, g, x :
    Torn # [epoch |-> e, weights |-> w, devices |-> ds, device_order |-> ord,
            services |-> s, programs |-> p, current_program_gen |-> g,
            deployments |-> x]

\* With one saver, t, the temporary name is the one it writes, and is whole
\* from the time it is written until it is renamed.
SoleSaver(t) ==
  /\ Savers = {t}
  /\ file # Torn
  /\ DOMAIN save = {t}
  /\ DOMAIN save[t] = {"pc", "image", "fd"}
  /\ save[t].pc \in {"idle", "write", "remove", "rename"}
  /\ IF save[t].pc = "write"
     THEN save[t].fd = "tmp" /\ tmp = Torn /\ save[t].image # Torn
     ELSE save[t].fd = "none"
  /\ save[t].pc \in {"remove", "rename"} => tmp # Torn

LEMMA SoleSaverStep ==
  ASSUME TornIsNoImage, NEW t, SoleSaver(t), RStep
  PROVE  SoleSaver(t)'
  <1>1. CASE UNCHANGED <<disk, save>>
    BY <1>1 DEF SoleSaver, disk
  <1>2. CASE Crash
    BY <1>2 DEF Crash, SoleSaver, disk, NotSaving
  <1>3. CASE SaveOpen(t)
    BY <1>3 DEF SaveOpen, SoleSaver, TornIsNoImage, Image
  <1>4. CASE SaveWrite(t)
    BY <1>4 DEF SaveWrite, SoleSaver, Written, NotSaving
  <1>5. CASE SaveFails(t)
    BY <1>5 DEF SaveFails, SoleSaver, disk, NotSaving
  <1>6. CASE SaveRemove(t)
    BY <1>6, RestartAssumption DEF SaveRemove, SoleSaver, Moved
  <1>7. CASE SaveRename(t)
    BY <1>7, RestartAssumption DEF SaveRename, SoleSaver, Moved, NotSaving
  <1> QED BY <1>1, <1>2, <1>3, <1>4, <1>5, <1>6, <1>7
          DEF RStep, ProcessStep, SoleSaver, StartFresh, Recover

LEMMA SoleSaverStart ==
  ASSUME NEW t, Savers = {t}, file = Null,
         save = [p \in Savers |-> NotSaving]
  PROVE  SoleSaver(t)
  BY RestartAssumption DEF SoleSaver, NotSaving

\* The state file is a whole image or not there, in every state of a process
\* with one thread that saves, calls of any other threads among them.  (With
\* two it is not: persist takes no lock and both write one temporary file.)
THEOREM FileWholeInTool ==
  ASSUME TornIsNoImage, NEW t, Savers = {t}
  PROVE  ToolSpec => []FileNeverTorn
  <1>1. RInit => SoleSaver(t)
    BY SoleSaverStart DEF RInit
  <1>2. SoleSaver(t) /\ [ToolNext]_rvars => SoleSaver(t)'
    BY SoleSaverStep, ToolSteps
  <1>3. SoleSaver(t) => FileNeverTorn
    BY DEF SoleSaver, FileNeverTorn
  <1> QED BY <1>1, <1>2, <1>3, PTL DEF ToolSpec

\* The same for the coordinator's loop, which is such a process.
THEOREM FileWhole ==
  ASSUME TornIsNoImage, NEW t, Savers = {t}
  PROVE  FSpec => []FileNeverTorn
  <1>1. FInit => SoleSaver(t) /\ LoopOK
    BY SoleSaverStart, FleetLoop DEF FInit
  <1>2. SoleSaver(t) /\ LoopOK /\ [FNext]_fvars => SoleSaver(t)' /\ LoopOK'
    BY SoleSaverStep, FleetSteps, FleetLoop
  <1>3. SoleSaver(t) => FileNeverTorn
    BY DEF SoleSaver, FileNeverTorn
  <1> QED BY <1>1, <1>2, <1>3, PTL DEF FSpec

-----------------------------------------------------------------------------
(* What a step does to the disk *)

SaversOK ==
  /\ DOMAIN save = Savers
  /\ \A p \in Savers : DOMAIN save[p] = {"pc", "image", "fd"}

\* Content comes to a name from the other one or from an image that is being
\* written, and to an image from the state of the process.
DiskMove ==
  /\ \/ file' \in {file, tmp, Null, Torn}
     \/ \E p \in Savers : save[p].pc = "write" /\ file' = save[p].image
  /\ \/ tmp' \in {tmp, Null, Torn}
     \/ \E p \in Savers : save[p].pc = "write" /\ tmp' = save[p].image
  /\ \A p \in Savers :
       save'[p].pc = "write" =>
         \/ save[p].pc = "write" /\ save'[p].image = save[p].image
         \/ SaveOpen(p) /\ save'[p].image = Image

\* A rename only changes what the savers have open.
LEMMA MovedAt ==
  ASSUME NEW saves, NEW from, NEW to, NEW p \in Savers,
         DOMAIN saves[p] = {"pc", "image", "fd"}
  PROVE  /\ DOMAIN Moved(saves, from, to)[p] = {"pc", "image", "fd"}
         /\ Moved(saves, from, to)[p].pc = saves[p].pc
         /\ Moved(saves, from, to)[p].image = saves[p].image
  BY DEF Moved

LEMMA DiskMoves ==
  ASSUME SaversOK, RStep
  PROVE  SaversOK' /\ DiskMove
  <1>1. CASE UNCHANGED <<disk, save>>
    BY <1>1 DEF SaversOK, DiskMove, disk
  <1>2. CASE Crash
    BY <1>2 DEF Crash, SaversOK, DiskMove, disk, NotSaving
  <1>3. ASSUME NEW p \in Savers, SaveOpen(p)
        PROVE  SaversOK' /\ DiskMove
    BY <1>3 DEF SaveOpen, SaversOK, DiskMove
  <1>4. ASSUME NEW p \in Savers, SaveWrite(p)
        PROVE  SaversOK' /\ DiskMove
    BY <1>4 DEF SaveWrite, SaversOK, DiskMove, Written, NotSaving
  <1>5. ASSUME NEW p \in Savers, SaveFails(p)
        PROVE  SaversOK' /\ DiskMove
    BY <1>5 DEF SaveFails, SaversOK, DiskMove, disk, NotSaving
  <1>6. ASSUME NEW p \in Savers, SaveRemove(p)
        PROVE  SaversOK' /\ DiskMove
    BY <1>6 DEF SaveRemove, SaversOK, DiskMove, Moved
  <1>7. ASSUME NEW p \in Savers, SaveRename(p)
        PROVE  SaversOK' /\ DiskMove
    <2>1. /\ tmp' = Null
          /\ file' \in {file, tmp}
      BY <1>7 DEF SaveRename
    <2> DEFINE done == [save EXCEPT ![p] = NotSaving]
               over == Moved(done, "file", "none")
    <2>2. \/ save' = Moved(over, "tmp", "file")
          \/ save' = Moved(done, "tmp", "none")
      BY <1>7 DEF SaveRename
    <2>3. \A q \in Savers :
            /\ DOMAIN done[q] = {"pc", "image", "fd"}
            /\ done[q].pc = "write" =>
                 save[q].pc = "write" /\ done[q].image = save[q].image
      BY DEF SaversOK, NotSaving
    <2> HIDE DEF done
    <2>4. \A q \in Savers :
            /\ DOMAIN over[q] = {"pc", "image", "fd"}
            /\ over[q].pc = done[q].pc
            /\ over[q].image = done[q].image
      BY <2>3, MovedAt
    <2>5. DOMAIN save' = Savers
      BY <2>2 DEF Moved
    <2> HIDE DEF over
    <2>6. \A q \in Savers :
            /\ DOMAIN save'[q] = {"pc", "image", "fd"}
            /\ save'[q].pc = done[q].pc
            /\ save'[q].image = done[q].image
      BY <2>2, <2>3, <2>4, MovedAt
    <2> QED BY <2>1, <2>3, <2>5, <2>6 DEF SaversOK, DiskMove
  <1> QED BY <1>1, <1>2, <1>3, <1>4, <1>5, <1>6, <1>7
          DEF RStep, ProcessStep, StartFresh, Recover

-----------------------------------------------------------------------------
(* Epochs *)

\* The records of a deployment table, none later than epoch e.
RecordsUpTo(m, e) ==
  \A x \in DOMAIN m :
    /\ {"epoch", "authoritative"} \subseteq DOMAIN m[x]
    /\ m[x].epoch \in 0 .. e

\* An image is no later than the epoch it was taken in.
ImageInEpoch(im) == im.epoch \in Nat /\ RecordsUpTo(im.deployments, im.epoch)

\* What comes from disk is an image or nothing.
DiskInEpoch ==
  /\ file \notin {Null, Torn} => ImageInEpoch(file)
  /\ tmp \notin {Null, Torn} => ImageInEpoch(tmp)
  /\ \A p \in Savers : save[p].pc = "write" => ImageInEpoch(save[p].image)

\* The process serves in an epoch not earlier than the one it started in, no
\* record is later, and what is authoritative is not older than its start.
LiveInEpoch ==
  /\ epoch \in Nat
  /\ boot_epoch \in Nat
  /\ RecordsUpTo(deployments, epoch)
  /\ AuthorityOfThisProcess
  /\ IF up THEN boot_epoch <= epoch ELSE deployments = EmptyMap

\* What a call does to the deployment that is x afterwards: it made it, kept
\* its epoch and gave it no authority, or committed it in the present epoch.
CallAt(x) ==
  /\ {"epoch", "authoritative"} \subseteq DOMAIN deployments'[x]
  /\ \/ deployments'[x].epoch = 0 /\ ~deployments'[x].authoritative
     \/ /\ x \in DOMAIN deployments
        /\ deployments'[x].epoch = deployments[x].epoch
        /\ deployments'[x].authoritative => deployments[x].authoritative
     \/ deployments'[x].epoch = epoch

LEMMA CallEpochs ==
  ASSUME LiveInEpoch, LoopCall
  PROVE  epoch' = epoch /\ \A x \in DOMAIN deployments' : CallAt(x)
  <1>1. epoch' = epoch
    BY DEF LoopCall, DeployCall, register_service, register_device, update_device,
           mark_worker_lost, register_worker, reserve_deployment,
           stage_deployment, load_deployment, validate_deployment,
           activate_deployment, commit_deployment, registry
  <1> SUFFICES ASSUME NEW x \in DOMAIN deployments' PROVE CallAt(x)
    BY <1>1
  <1>2. \A y \in DOMAIN deployments :
          {"epoch", "authoritative"} \subseteq DOMAIN deployments[y]
    BY DEF LiveInEpoch, RecordsUpTo
  <1>3. CASE deployments' = deployments
    BY <1>2, <1>3 DEF CallAt
  <1>4. ASSUME NEW S, deployments' = Deployments(S, "REVALIDATION_REQUIRED")
        PROVE  CallAt(x)
    BY <1>2, <1>4 DEF CallAt, Deployments
  <1>5. ASSUME NEW y, NEW to, to # "ACTIVE", do_deploy_transition(y, to)
        PROVE  CallAt(x)
    BY <1>2, <1>5 DEF CallAt, do_deploy_transition
  <1>6. ASSUME NEW y, activate_deployment(y)
        PROVE  CallAt(x)
    BY <1>2, <1>6 DEF CallAt, activate_deployment
  <1>7. ASSUME NEW y, commit_deployment(y)
        PROVE  CallAt(x)
    BY <1>2, <1>7 DEF CallAt, commit_deployment
  <1>8. ASSUME NEW d, NEW req, reserve_deployment(d, req)
        PROVE  CallAt(x)
    BY <1>2, <1>3, <1>8 DEF CallAt, reserve_deployment, Put
  <1> QED BY <1>3, <1>4, <1>5, <1>6, <1>7, <1>8
          DEF LoopCall, DeployCall, register_service, register_device,
              update_device,
              mark_worker_lost, register_worker, stage_deployment,
              load_deployment, validate_deployment, Fence

LEMMA CallKeepsEpochs ==
  ASSUME LiveInEpoch, up, LoopCall, UNCHANGED process
  PROVE  LiveInEpoch'
  BY CallEpochs DEF LiveInEpoch, CallAt, RecordsUpTo, AuthorityOfThisProcess,
                    process

LEMMA RecoveredUpTo ==
  ASSUME NEW im, ImageInEpoch(im), load(im), epoch' = RecoveredEpoch(im.epoch)
  PROVE  /\ epoch' \in Nat
         /\ \A x \in DOMAIN deployments' :
              /\ {"epoch", "authoritative"} \subseteq DOMAIN deployments'[x]
              /\ deployments'[x].epoch \in 0 .. (epoch' - 1)
              /\ ~deployments'[x].authoritative
  <1>1. epoch' \in Nat /\ im.epoch \in 0 .. (epoch' - 1)
    BY DEF ImageInEpoch, RecoveredEpoch, next_generation
  <1>2. ASSUME NEW x \in DOMAIN deployments'
        PROVE  /\ {"epoch", "authoritative"} \subseteq DOMAIN deployments'[x]
               /\ deployments'[x].epoch \in 0 .. im.epoch
               /\ ~deployments'[x].authoritative
    BY <1>2 DEF load, RecoveredDeployment, ImageInEpoch, RecordsUpTo
  <1> QED BY <1>1, <1>2

LEMMA EpochStep ==
  ASSUME LiveInEpoch, DiskInEpoch, SaversOK, RStep
  PROVE  LiveInEpoch' /\ DiskInEpoch' /\ SaversOK'
  <1>1. ASSUME UNCHANGED <<vars, process>>
        PROVE  LiveInEpoch'
    BY <1>1 DEF LiveInEpoch, AuthorityOfThisProcess, process, vars
  <1>2. ASSUME Crash PROVE LiveInEpoch'
    BY <1>2 DEF Crash, Constructed, LiveInEpoch, RecordsUpTo,
                AuthorityOfThisProcess, EmptyMap
  <1>3. ASSUME StartFresh PROVE LiveInEpoch'
    BY <1>3 DEF StartFresh, LiveInEpoch, AuthorityOfThisProcess, RecordsUpTo,
                EmptyMap, vars
  <1>4. ASSUME Recover PROVE LiveInEpoch'
    <2>1. ImageInEpoch(file) /\ load(file) /\ epoch' = RecoveredEpoch(file.epoch)
      BY <1>4 DEF Recover, Accepted, DiskInEpoch
    <2> QED BY <1>4, <2>1, RecoveredUpTo
            DEF Recover, LiveInEpoch, RecordsUpTo, AuthorityOfThisProcess
  <1>5. LiveInEpoch'
    BY <1>1, <1>2, <1>3, <1>4, CallKeepsEpochs
       DEF RStep, ProcessStep, SaveOpen, SaveWrite, SaveFails, SaveRemove,
           SaveRename
  <1>6. ImageInEpoch(Image)
    BY DEF LiveInEpoch, ImageInEpoch, Image
  <1>7. SaversOK' /\ DiskMove
    BY DiskMoves
  <1>8. DiskInEpoch'
    BY <1>6, <1>7 DEF DiskInEpoch, DiskMove
  <1> QED BY <1>5, <1>7, <1>8

LEMMA EpochStart ==
  ASSUME Init, up, file = Null, tmp = Null, boot_epoch = 1,
         save = [p \in Savers |-> NotSaving]
  PROVE  LiveInEpoch /\ DiskInEpoch /\ SaversOK
  BY DEF Init, LiveInEpoch, DiskInEpoch, SaversOK, RecordsUpTo, AuthorityOfThisProcess,
         EmptyMap, NotSaving

\* What a process starts with.
LEMMA StartsLater ==
  ASSUME LiveInEpoch, DiskInEpoch, RStep, ~up, up'
  PROVE  \A x \in DOMAIN deployments' : deployments'[x].epoch < epoch'
  <1>1. CASE StartFresh
    BY <1>1 DEF StartFresh, LiveInEpoch, EmptyMap, vars
  <1>2. CASE Recover
    <2>1. ImageInEpoch(file) /\ load(file) /\ epoch' = RecoveredEpoch(file.epoch)
      BY <1>2 DEF Recover, Accepted, DiskInEpoch
    <2> QED BY <2>1, RecoveredUpTo
  <1> QED BY <1>1, <1>2
          DEF RStep, ProcessStep, process, Crash, SaveOpen, SaveWrite,
              SaveFails, SaveRemove, SaveRename

EpochsOK == LiveInEpoch /\ DiskInEpoch /\ SaversOK

\* Whatever was authoritative when an image was taken, after any number of
\* saves, deaths and restarts only a grant of the present process is.
THEOREM AuthorityIsLive ==
  /\ ToolSpec => []AuthorityOfThisProcess
  /\ FSpec => []AuthorityOfThisProcess
  <1>1. RInit => EpochsOK
    BY EpochStart DEF RInit, EpochsOK
  <1>2. FInit => LoopOK /\ EpochsOK
    BY EpochStart, FleetLoop DEF FInit, PInit, EpochsOK
  <1>3. EpochsOK /\ [ToolNext]_rvars
          => EpochsOK'
    BY ToolSteps, EpochStep DEF EpochsOK
  <1>4. LoopOK /\ EpochsOK /\ [FNext]_fvars
          => LoopOK' /\ EpochsOK'
    BY FleetSteps, EpochStep, FleetLoop DEF EpochsOK
  <1>5. EpochsOK => AuthorityOfThisProcess
    BY DEF EpochsOK, LiveInEpoch
  <1>6. ToolSpec => []AuthorityOfThisProcess
    BY <1>1, <1>3, <1>5, PTL DEF ToolSpec
  <1>7. FSpec => []AuthorityOfThisProcess
    BY <1>2, <1>4, <1>5, PTL DEF FSpec
  <1> QED BY <1>6, <1>7

\* Every deployment that recover_from brings back is of an older epoch than
\* the one that the new process serves in.
THEOREM RecoveryIsOlder ==
  /\ ToolSpec => RecoveredIsOlder
  /\ FSpec => RecoveredIsOlder
  <1> DEFINE Older == ~up /\ up' => \A x \in DOMAIN deployments' :
                                      deployments'[x].epoch < epoch'
  <1>1. RInit => EpochsOK
    BY EpochStart DEF RInit, EpochsOK
  <1>2. FInit => LoopOK /\ EpochsOK
    BY EpochStart, FleetLoop DEF FInit, PInit, EpochsOK
  <1>3. EpochsOK /\ [ToolNext]_rvars
          => EpochsOK' /\ [Older]_rvars
    BY ToolSteps, EpochStep, StartsLater DEF EpochsOK
  <1>4. LoopOK /\ EpochsOK /\ [FNext]_fvars
          => LoopOK' /\ EpochsOK' /\ [Older]_rvars
    BY FleetSteps, EpochStep, FleetLoop, StartsLater
       DEF EpochsOK
  <1>5. ToolSpec => RecoveredIsOlder
    BY <1>1, <1>3, PTL DEF ToolSpec, RecoveredIsOlder
  <1>6. FSpec => RecoveredIsOlder
    BY <1>2, <1>4, PTL DEF FSpec, RecoveredIsOlder
  <1> QED BY <1>5, <1>6

-----------------------------------------------------------------------------
(* Connections and frames *)

\* The frames that process q sends.
AdminFrames ==
  [type : {"CREATE_DEPLOYMENT"}, ask : Asks] \cup [type : {"SHUTDOWN"}]

WorkerFrames(w, b) ==
  [type : {"HELLO"}, worker : {w}, boot : {b}]
  \cup [type : {"REGISTER_DEVICE"}, device : {DeviceOf[w]}]
  \cup [type : {"PUBLISH_EVIDENCE"}, device_id : {DeviceOf[w].device_id},
        evidence_gen : {DeviceOf[w].evidence_gen}]
  \cup [type : {"RESULT"}, cmd : Nat]

FramesOf(q) ==
  IF q.worker = Null THEN AdminFrames ELSE WorkerFrames(q.worker, q.boot)

\* The frames that the coordinator sends.
Replies == [type : {"ACK", "RESULT"}] \cup [type : {"COMMAND"}, cmd : Nat]

Process ==
  [worker : Workers, boot : WorkerBoots,
   pc : {"hello", "register", "publish", "serve", "gone"}]
  \cup [worker : {Null}, boot : {Null}, pc : {"wait", "gone"}]

NetworkOK ==
  /\ DOMAIN conns \subseteq Sockets
  /\ backlog \subseteq Sockets \ DOMAIN conns
  /\ cmd_seq \in Nat
  /\ peer \in [Sockets -> Process]
  /\ DOMAIN inbox = Sockets
  /\ \A c \in Sockets : Open(c) => inbox[c] \in Seq(FramesOf(peer[c]))
  /\ outbox \in [Sockets -> Seq(Replies)]

LEMMA SentOK ==
  ASSUME NEW box \in [Sockets -> Seq(Replies)], NEW c, NEW frame \in Replies
  PROVE  Sent(box, c, frame) \in [Sockets -> Seq(Replies)]
  <1>1. ASSUME c \in Sockets
        PROVE  Append(box[c], frame) \in Seq(Replies)
    BY <1>1
  <1> QED BY <1>1 DEF Sent

LEMMA HeadAndTail ==
  ASSUME NEW S, NEW s \in Seq(S), s # <<>>
  PROVE  Head(s) \in S /\ Tail(s) \in Seq(S)
  OBVIOUS

\* What taking the first frame of a connection says and does.
LEMMA FrameAt ==
  ASSUME NetworkOK, NEW c, NEW roles, NEW type, Frame(c, roles, type)
  PROVE  /\ c \in Sockets
         /\ c \in DOMAIN conns
         /\ conns[c] \in roles
         /\ loop = Idle
         /\ services = Services
         /\ Head(inbox[c]) \in FramesOf(peer[c])
         /\ Head(inbox[c]).type = type
         /\ inbox' = [inbox EXCEPT ![c] = Tail(inbox[c])]
         /\ inbox'[c] \in Seq(FramesOf(peer[c]))
         /\ peer' = peer
         /\ backlog' = backlog
  <1>1. /\ c \in DOMAIN conns
        /\ conns[c] \in roles
        /\ Ready
        /\ inbox[c] # <<>>
        /\ Head(inbox[c]).type = type
        /\ inbox' = [inbox EXCEPT ![c] = Tail(inbox[c])]
        /\ peer' = peer
        /\ backlog' = backlog
    BY DEF Frame, First, Take
  <1>2. c \in Sockets /\ inbox[c] \in Seq(FramesOf(peer[c]))
    BY <1>1 DEF NetworkOK, Open
  <1>3. /\ Head(inbox[c]) \in FramesOf(peer[c])
        /\ Tail(inbox[c]) \in Seq(FramesOf(peer[c]))
    BY <1>1, <1>2, HeadAndTail
  <1>4. loop = Idle /\ services = Services
    BY <1>1 DEF Ready, Serving
  <1>5. inbox'[c] = Tail(inbox[c])
    BY <1>1, <1>2 DEF NetworkOK
  <1> QED BY <1>1, <1>2, <1>3, <1>4, <1>5

LEMMA TakenOK ==
  ASSUME NetworkOK, NEW c, NEW roles, NEW type, Frame(c, roles, type),
         DOMAIN conns' \subseteq DOMAIN conns,
         outbox' \in [Sockets -> Seq(Replies)], cmd_seq' \in Nat
  PROVE  NetworkOK'
  BY FrameAt DEF NetworkOK, Open

LEMMA ConnectOK ==
  ASSUME NetworkOK, NEW c \in Sockets, NEW q \in Process,
         NEW frame \in FramesOf(q), Connect(c, q, frame)
  PROVE  NetworkOK'
  <1>1. /\ peer' = [peer EXCEPT ![c] = q]
        /\ inbox' = [inbox EXCEPT ![c] = <<frame>>]
        /\ outbox' = [outbox EXCEPT ![c] = <<>>]
        /\ backlog' = backlog \cup {c}
        /\ c \notin DOMAIN conns
        /\ UNCHANGED <<conns, cmd_seq>>
    BY DEF Connect, Free, Open, coordinator
  <1>2. <<frame>> \in Seq(FramesOf(q))
    OBVIOUS
  <1>3. /\ DOMAIN inbox' = Sockets
        /\ \A e \in Sockets :
             /\ Open(e)' => Open(e) \/ e = c
             /\ inbox'[e] = IF e = c THEN <<frame>> ELSE inbox[e]
             /\ peer'[e] = IF e = c THEN q ELSE peer[e]
    BY <1>1 DEF NetworkOK, Open
  <1>4. \A e \in Sockets : Open(e)' => inbox'[e] \in Seq(FramesOf(peer'[e]))
    BY <1>2, <1>3 DEF NetworkOK
  <1>5. outbox' \in [Sockets -> Seq(Replies)]
    BY <1>1 DEF NetworkOK
  <1> QED BY <1>1, <1>3, <1>4, <1>5 DEF NetworkOK

LEMMA SendsOK ==
  ASSUME NetworkOK, NEW c \in Sockets, NEW from, NEW to, NEW frame,
         Sends(c, from, to, frame), frame \in FramesOf(peer[c]),
         [peer[c] EXCEPT !.pc = to] \in Process,
         outbox' \in [Sockets -> Seq(Replies)],
         UNCHANGED <<conns, backlog, cmd_seq>>
  PROVE  NetworkOK'
  <1>1. /\ peer' = [peer EXCEPT ![c].pc = to]
        /\ inbox' = [inbox EXCEPT ![c] = Append(inbox[c], frame)]
        /\ Open(c)
    BY DEF Sends
  <1>2. Append(inbox[c], frame) \in Seq(FramesOf(peer[c]))
    BY <1>1 DEF NetworkOK
  <1>3. peer[c] \in Process
    BY DEF NetworkOK
  <1>4. FramesOf(peer'[c]) = FramesOf(peer[c])
    BY <1>1, <1>3 DEF NetworkOK, FramesOf, Process
  <1> QED BY <1>1, <1>2, <1>4 DEF NetworkOK, Open

\* What a turn of the loop does for a connection.
LEMMA ServeNetwork ==
  ASSUME NetworkOK, NEW c, Serve(c)
  PROVE  NetworkOK'
  <1>1. outbox \in [Sockets -> Seq(Replies)] /\ cmd_seq \in Nat
    BY DEF NetworkOK
  <1>2. ASSUME NEW type \in {"ACK", "RESULT"}
        PROVE  Sent(outbox, c, [type |-> type]) \in [Sockets -> Seq(Replies)]
    <2>1. [type |-> type] \in Replies
      BY DEF Replies
    <2> QED BY <1>1, <2>1, SentOK
  <1>3. CASE Hello(c)
    <2>1. DOMAIN conns' \subseteq DOMAIN conns
      BY <1>3 DEF Hello, Erase
    <2>2. outbox' \in [Sockets -> Seq(Replies)] /\ cmd_seq' \in Nat
      BY <1>1, <1>2, <1>3 DEF Hello
    <2>3. Frame(c, {"UNKNOWN"}, "HELLO")
      BY <1>3 DEF Hello
    <2> QED BY <2>1, <2>2, <2>3, TakenOK
  <1>4. CASE RegisterDevice(c)
    BY <1>1, <1>4, TakenOK DEF RegisterDevice, coordinator
  <1>5. CASE PublishEvidence(c)
    BY <1>1, <1>5, TakenOK DEF PublishEvidence, coordinator
  <1>6. CASE Result(c)
    BY <1>1, <1>6, TakenOK DEF Result
  <1>7. CASE Create(c)
    <2>1. DOMAIN conns' \subseteq DOMAIN conns
      BY <1>7 DEF Create
    <2>2. outbox' \in [Sockets -> Seq(Replies)] /\ cmd_seq' \in Nat
      BY <1>1, <1>2, <1>7 DEF Create
    <2>3. Frame(c, {"UNKNOWN", "ADMIN"}, "CREATE_DEPLOYMENT")
      BY <1>7 DEF Create
    <2> QED BY <2>1, <2>2, <2>3, TakenOK
  <1>8. CASE CloseConn(c)
    <2>1. /\ c \in DOMAIN conns
          /\ conns' = Erase(conns, c)
          /\ peer' = [peer EXCEPT ![c] = Gone]
          /\ UNCHANGED <<cmd_seq, backlog, inbox, outbox>>
      BY <1>8 DEF CloseConn
    <2>2. /\ DOMAIN conns' = DOMAIN conns \ {c}
          /\ Gone \in Process
      BY <2>1 DEF Erase, Gone, Process
    <2> QED BY <2>1, <2>2 DEF NetworkOK, Open
  <1> QED BY <1>3, <1>4, <1>5, <1>6, <1>7, <1>8 DEF Serve

LEMMA ProceedNetwork ==
  ASSUME NetworkOK, Proceed
  PROVE  NetworkOK'
  <1>1. outbox \in [Sockets -> Seq(Replies)] /\ cmd_seq \in Nat
    BY DEF NetworkOK
  <1>2. ASSUME NEW e
        PROVE  Sent(outbox, e, [type |-> "RESULT"]) \in [Sockets -> Seq(Replies)]
    <2>1. [type |-> "RESULT"] \in Replies
      BY DEF Replies
    <2> QED BY <1>1, <2>1, SentOK
  <1>3. ASSUME NEW x, NEW e, Deployed(x, e)
        PROVE  outbox' \in [Sockets -> Seq(Replies)] /\ cmd_seq' \in Nat
    <2> DEFINE told == Sent(outbox, e, [type |-> "RESULT"])
    <2>1. told \in [Sockets -> Seq(Replies)]
      BY <1>2
    <2>2. [type |-> "COMMAND", cmd |-> cmd_seq] \in Replies
      BY <1>1 DEF Replies
    <2>3. \/ outbox' = told /\ cmd_seq' = cmd_seq
          \/ \E n : /\ outbox' = Sent(told, n, [type |-> "COMMAND",
                                                cmd |-> cmd_seq])
                    /\ cmd_seq' = cmd_seq + 1
      BY <1>3 DEF Deployed
    <2> HIDE DEF told
    <2> QED BY <1>1, <2>1, <2>2, <2>3, SentOK
  <1>4. outbox' \in [Sockets -> Seq(Replies)] /\ cmd_seq' \in Nat
    BY <1>1, <1>2, <1>3 DEF Proceed
  <1>5. UNCHANGED <<conns, peer, backlog, inbox>>
    BY DEF Proceed
  <1> QED BY <1>4, <1>5 DEF NetworkOK, Open

LEMMA JoinsNetwork ==
  ASSUME NetworkOK, NEW c \in Sockets, Joins(c)
  PROVE  NetworkOK'
  <1>1. Null \notin Workers
    BY EngineAssumption
  <1>2. ASSUME NEW w \in Workers, NEW b \in WorkerBoots, StartWorker(c, w, b)
        PROVE  NetworkOK'
    <2> DEFINE q == [worker |-> w, boot |-> b, pc |-> "hello"]
               frame == [type |-> "HELLO", worker |-> w, boot |-> b]
    <2>1. q \in Process /\ frame \in FramesOf(q)
      BY <1>1 DEF Process, FramesOf, WorkerFrames
    <2>2. Connect(c, q, frame)
      BY <1>2 DEF StartWorker
    <2> HIDE DEF q, frame
    <2> QED BY <2>1, <2>2, ConnectOK
  <1>3. ASSUME NEW frame \in AdminFrames,
               Connect(c, [worker |-> Null, boot |-> Null, pc |-> "wait"], frame)
        PROVE  NetworkOK'
    <2> DEFINE q == [worker |-> Null, boot |-> Null, pc |-> "wait"]
    <2>1. q \in Process /\ frame \in FramesOf(q)
      BY DEF Process, FramesOf
    <2>2. Connect(c, q, frame)
      BY <1>3
    <2> HIDE DEF q
    <2> QED BY <2>1, <2>2, ConnectOK
  <1>4. ASSUME NEW ask \in Asks
        PROVE  [type |-> "CREATE_DEPLOYMENT", ask |-> ask] \in AdminFrames
    BY DEF AdminFrames
  <1>5. [type |-> "SHUTDOWN"] \in AdminFrames
    BY DEF AdminFrames
  <1> QED BY <1>2, <1>3, <1>4, <1>5 DEF Joins, StartAdmin

LEMMA GoesOnNetwork ==
  ASSUME NetworkOK, NEW c \in Sockets, GoesOn(c)
  PROVE  NetworkOK'
  <1>1. /\ peer[c] \in Process
        /\ outbox[c] \in Seq(Replies)
        /\ outbox \in [Sockets -> Seq(Replies)]
    BY DEF NetworkOK
  <1>2. ASSUME outbox[c] # <<>>, outbox' = Take(outbox, c)
        PROVE  /\ outbox' \in [Sockets -> Seq(Replies)]
               /\ Head(outbox[c]) \in Replies
    <2>1. Tail(outbox[c]) \in Seq(Replies) /\ Head(outbox[c]) \in Replies
      BY <1>1, <1>2, HeadAndTail
    <2> QED BY <1>1, <1>2, <2>1 DEF Take
  <1>3. ASSUME NEW ask \in Asks, AskAgain(c, ask)
        PROVE  NetworkOK'
    <2> DEFINE frame == [type |-> "CREATE_DEPLOYMENT", ask |-> ask]
    <2>1. peer[c].pc = "wait" /\ Sends(c, "wait", "wait", frame)
      BY <1>3 DEF AskAgain, Sends
    <2>2. frame \in FramesOf(peer[c])
      BY <1>1, <2>1 DEF Process, FramesOf, AdminFrames
    <2>3. [peer[c] EXCEPT !.pc = "wait"] \in Process
      BY <1>1, <2>1 DEF Process
    <2>4. UNCHANGED <<conns, backlog, cmd_seq>>
      BY <1>3 DEF AskAgain, coordinator
    <2>5. outbox' \in [Sockets -> Seq(Replies)]
      BY <1>2, <1>3 DEF AskAgain, First
    <2> HIDE DEF frame
    <2> QED BY <2>1, <2>2, <2>3, <2>4, <2>5, SendsOK
  <1>4. CASE WorkerStep(c)
    <2> DEFINE rec == DeviceOf[peer[c].worker]
    <2>0. UNCHANGED <<conns, backlog, cmd_seq>>
      BY <1>4 DEF WorkerStep, coordinator
    <2>1. CASE /\ peer[c].pc = "hello"
               /\ First(outbox, c, "ACK")
               /\ peer' = [peer EXCEPT ![c].pc = "register"]
               /\ outbox' = Take(outbox, c)
               /\ UNCHANGED inbox
      <3>1. [peer[c] EXCEPT !.pc = "register"] \in Process
        BY <1>1, <2>1 DEF Process
      <3>2. /\ peer' \in [Sockets -> Process]
            /\ \A e \in Sockets : FramesOf(peer'[e]) = FramesOf(peer[e])
        BY <1>1, <2>1, <3>1 DEF NetworkOK, FramesOf, Process
      <3>3. outbox' \in [Sockets -> Seq(Replies)]
        BY <1>2, <2>1 DEF First
      <3> QED BY <2>0, <2>1, <3>2, <3>3 DEF NetworkOK, Open
    <2>2. ASSUME NEW from \in {"register", "publish", "serve"},
                 NEW to \in {"publish", "serve"},
                 NEW frame, Sends(c, from, to, frame),
                 frame \in WorkerFrames(peer[c].worker, peer[c].boot),
                 outbox' \in [Sockets -> Seq(Replies)]
          PROVE  NetworkOK'
      <3>1. peer[c].worker # Null /\ [peer[c] EXCEPT !.pc = to] \in Process
        BY <1>1, <2>2, EngineAssumption DEF Process, Sends
      <3>2. frame \in FramesOf(peer[c])
        BY <2>2, <3>1 DEF FramesOf
      <3> QED BY <2>0, <2>2, <3>1, <3>2, SendsOK
    <2>3. CASE /\ Sends(c, "register", "publish",
                        [type |-> "REGISTER_DEVICE", device |-> rec])
               /\ UNCHANGED outbox
      <3>1. [type |-> "REGISTER_DEVICE", device |-> rec]
              \in WorkerFrames(peer[c].worker, peer[c].boot)
        BY DEF WorkerFrames
      <3> QED BY <1>1, <2>2, <2>3, <3>1
    <2>4. CASE /\ Sends(c, "publish", "serve",
                        [type |-> "PUBLISH_EVIDENCE",
                         device_id |-> rec.device_id,
                         evidence_gen |-> rec.evidence_gen])
               /\ UNCHANGED outbox
      <3>1. [type |-> "PUBLISH_EVIDENCE", device_id |-> rec.device_id,
             evidence_gen |-> rec.evidence_gen]
              \in WorkerFrames(peer[c].worker, peer[c].boot)
        BY DEF WorkerFrames
      <3> QED BY <1>1, <2>2, <2>4, <3>1
    <2>5. CASE /\ First(outbox, c, "COMMAND")
               /\ Sends(c, "serve", "serve",
                        [type |-> "RESULT", cmd |-> Head(outbox[c]).cmd])
               /\ outbox' = Take(outbox, c)
      <3>1. /\ Head(outbox[c]) \in Replies
            /\ Head(outbox[c]).type = "COMMAND"
            /\ outbox' \in [Sockets -> Seq(Replies)]
        BY <1>2, <2>5 DEF First
      <3>2. [type |-> "RESULT", cmd |-> Head(outbox[c]).cmd]
              \in WorkerFrames(peer[c].worker, peer[c].boot)
        BY <3>1 DEF WorkerFrames, Replies
      <3> QED BY <2>2, <2>5, <3>1, <3>2
    <2> QED BY <1>4, <2>1, <2>3, <2>4, <2>5 DEF WorkerStep
  <1> QED BY <1>3, <1>4 DEF GoesOn

LEMMA EndsNetwork ==
  ASSUME NetworkOK, NEW c \in Sockets, End(c)
  PROVE  NetworkOK'
  <1>1. PICK n \in 0 .. Len(inbox[c]) :
          inbox' = [inbox EXCEPT ![c] = SubSeq(inbox[c], 1, n)]
    BY DEF End
  <1>2. /\ peer' = [peer EXCEPT ![c] = IF Open(c)
                                       THEN [peer[c] EXCEPT !.pc = "gone"]
                                       ELSE Gone]
        /\ outbox' = [outbox EXCEPT ![c] = <<>>]
        /\ UNCHANGED <<conns, backlog, cmd_seq>>
    BY DEF End, coordinator
  <1>3. peer[c] \in Process /\ Gone \in Process
    BY DEF NetworkOK, Process, Gone
  <1>4. /\ [peer[c] EXCEPT !.pc = "gone"] \in Process
        /\ FramesOf([peer[c] EXCEPT !.pc = "gone"]) = FramesOf(peer[c])
    BY <1>3 DEF Process, FramesOf
  <1>5. peer' \in [Sockets -> Process] /\ outbox' \in [Sockets -> Seq(Replies)]
    BY <1>2, <1>3, <1>4 DEF NetworkOK
  <1>6. ASSUME Open(c)
        PROVE  inbox'[c] \in Seq(FramesOf(peer'[c]))
    <2>1. inbox[c] \in Seq(FramesOf(peer[c]))
      BY <1>6 DEF NetworkOK
    <2>2. SubSeq(inbox[c], 1, n) \in Seq(FramesOf(peer[c]))
      BY <2>1
    <2> QED BY <1>1, <1>2, <1>4, <1>6, <2>2 DEF NetworkOK
  <1>7. \A e \in Sockets : Open(e)' => inbox'[e] \in Seq(FramesOf(peer'[e]))
    BY <1>1, <1>2, <1>6 DEF NetworkOK, Open
  <1> QED BY <1>1, <1>2, <1>5, <1>7 DEF NetworkOK

LEMMA NetworkStep ==
  ASSUME NetworkOK, [FNext]_fvars
  PROVE  NetworkOK'
  <1>1. ASSUME UNCHANGED <<conns, backlog, cmd_seq, peer, inbox>>,
               outbox' \in [Sockets -> Seq(Replies)]
        PROVE  NetworkOK'
    BY <1>1 DEF NetworkOK, Open
  <1>2. ASSUME UNCHANGED <<conns, backlog, cmd_seq, peer, inbox, outbox>>
        PROVE  NetworkOK'
    BY <1>1, <1>2 DEF NetworkOK
  <1>3. ASSUME NEW p \in Savers, Saves(p)
        PROVE  NetworkOK'
    <2>1. [type |-> "RESULT"] \in Replies
      BY DEF Replies
    <2>2. outbox' = outbox
            \/ outbox' = Sent(outbox, duty.admin, [type |-> "RESULT"])
      BY <1>3 DEF Saves, Saved
    <2>3. outbox' \in [Sockets -> Seq(Replies)]
      BY <2>1, <2>2, SentOK DEF NetworkOK
    <2> QED BY <1>1, <1>3, <2>3 DEF Saves, coordinator
  <1>4. CASE Dies
    <2>1. Gone \in Process
      BY DEF Process, Gone
    <2> QED BY <1>4, <2>1 DEF Dies, NetworkOK, EmptyMap, Open
  <1>5. ASSUME NEW c \in Sockets, Accept(c)
        PROVE  NetworkOK'
    <2>1. /\ DOMAIN conns' = DOMAIN conns \cup {c}
          /\ backlog' = backlog \ {c}
          /\ c \in backlog
          /\ UNCHANGED <<cmd_seq, peer, inbox, outbox>>
      BY <1>5 DEF Accept, Put
    <2> QED BY <2>1 DEF NetworkOK, Open
  <1>6. ASSUME NEW c \in Sockets, Shutdown(c)
        PROVE  NetworkOK'
    <2>1. /\ Frame(c, {"UNKNOWN", "ADMIN"}, "SHUTDOWN")
          /\ DOMAIN conns' = DOMAIN conns
          /\ outbox' = outbox
          /\ cmd_seq' = cmd_seq
      BY <1>6 DEF Shutdown
    <2> QED BY <2>1, TakenOK DEF NetworkOK
  <1>7. ASSUME NEW c \in Sockets, Serves(c)
        PROVE  NetworkOK'
    BY <1>7, ServeNetwork DEF Serves
  <1>8. ASSUME NEW c \in Sockets, Joins(c) \/ GoesOn(c) \/ Ends(c)
        PROVE  NetworkOK'
    BY <1>8, JoinsNetwork, GoesOnNetwork, EndsNetwork DEF Ends
  <1>9. CASE Proceeds
    BY <1>9, ProceedNetwork DEF Proceeds
  <1>10. CASE Begins \/ Leaves \/ Restarts \/ UNCHANGED fvars
    BY <1>2, <1>10 DEF Begins, Startup, Leaves, Restarts, fvars, pvars,
                       coordinator, network
  <1> QED BY <1>3, <1>4, <1>5, <1>6, <1>7, <1>8, <1>9, <1>10
          DEF FNext, Thread, Exits, Accepts

-----------------------------------------------------------------------------
(* Who is connected *)

\* A connection that was greeted is the one connection of its worker, and of
\* the process that the worker is registered with.
LinkOf(c) ==
  LET w == conn_worker[c]
  IN  /\ w \in Workers
      /\ w = peer[c].worker
      /\ w \in DOMAIN workers
      /\ workers[w] = peer[c].boot
      /\ w \in DOMAIN sock_by_worker
      /\ sock_by_worker[w] = c

\* No two sockets are used by processes with the same boot id.
OneProcess ==
  \A c, e \in Sockets :
    /\ ~Free(c)
    /\ ~Free(e)
    /\ peer[c].boot = peer[e].boot
    /\ peer[c].boot # Null
    => c = e

Links ==
  /\ DOMAIN conn_worker = {c \in DOMAIN conns : conns[c] = "WORKER"}
  /\ \A c \in DOMAIN conn_worker : LinkOf(c)
  /\ OneProcess

\* A step that changes none of what the links are about.
LEMMA SameLinks ==
  ASSUME Links,
         UNCHANGED <<conns, conn_worker, sock_by_worker, workers, peer, backlog>>
  PROVE  Links'
  BY DEF Links, LinkOf, OneProcess, Free, Open

LEMMA HelloLinks ==
  ASSUME NetworkOK, Links, NEW c \in Sockets, Hello(c)
  PROVE  Links'
  <1> DEFINE f == Head(inbox[c])
  <1>1. /\ c \in DOMAIN conns
        /\ conns[c] = "UNKNOWN"
        /\ f \in FramesOf(peer[c])
        /\ f.type = "HELLO"
        /\ peer' = peer
        /\ backlog' = backlog
    BY FrameAt DEF Hello
  <1>2. /\ peer[c].worker \in Workers
        /\ f.worker = peer[c].worker
        /\ f.boot = peer[c].boot
        /\ peer[c].boot # Null
    <2>1. peer[c] \in Process
      BY DEF NetworkOK
    <2> QED BY <1>1, <2>1, EngineAssumption
            DEF FramesOf, AdminFrames, WorkerFrames, Process
  <1>3. c \notin DOMAIN conn_worker
    BY <1>1 DEF Links
  <1> DEFINE w == peer[c].worker
  <1>4. CASE w \in DOMAIN workers /\ workers[w] # peer[c].boot
    <2>1. /\ conns' = Erase(conns, c)
          /\ UNCHANGED <<conn_worker, sock_by_worker, workers>>
      BY <1>2, <1>4 DEF Hello, vars
    <2>2. /\ DOMAIN conns' = DOMAIN conns \ {c}
          /\ \A e \in DOMAIN conns' : conns'[e] = conns[e]
      BY <2>1 DEF Erase
    <2>3. OneProcess'
      BY <1>1, <2>2 DEF Links, OneProcess, Free, Open
    <2> QED BY <1>1, <1>3, <2>1, <2>2, <2>3 DEF Links, LinkOf
  <1>5. CASE ~(w \in DOMAIN workers /\ workers[w] # peer[c].boot)
    <2>1. /\ conns' = [conns EXCEPT ![c] = "WORKER"]
          /\ conn_worker' = Put(conn_worker, c, w)
          /\ sock_by_worker' = Put(sock_by_worker, w, c)
      BY <1>2, <1>5 DEF Hello
    <2>2. /\ DOMAIN conn_worker' = DOMAIN conn_worker \cup {c}
          /\ conn_worker'[c] = w
          /\ \A e \in DOMAIN conn_worker : conn_worker'[e] = conn_worker[e]
          /\ DOMAIN sock_by_worker' = DOMAIN sock_by_worker \cup {w}
          /\ sock_by_worker'[w] = c
          /\ \A v \in DOMAIN sock_by_worker \ {w} :
               sock_by_worker'[v] = sock_by_worker[v]
      BY <1>3, <2>1 DEF Put
    <2>3. /\ w \in DOMAIN workers'
          /\ workers'[w] = peer[c].boot
          /\ \A v \in DOMAIN workers : v \in DOMAIN workers'
                                       /\ workers'[v] = workers[v]
      BY <1>2, <1>5 DEF Hello, register_worker, Put, vars
    \* another connection of this worker would be of the same process
    <2>4. \A e \in DOMAIN conn_worker : conn_worker[e] # w
      <3> SUFFICES ASSUME NEW e \in DOMAIN conn_worker, conn_worker[e] = w
                   PROVE  FALSE
        OBVIOUS
      <3>1. LinkOf(e) /\ e \in DOMAIN conns
        BY DEF Links
      <3>2. peer[e].boot = peer[c].boot
        BY <3>1, <1>5 DEF LinkOf
      <3>3. e \in Sockets /\ ~Free(e) /\ ~Free(c)
        BY <1>1, <3>1 DEF NetworkOK, Free, Open
      <3> QED BY <1>2, <1>3, <3>2, <3>3 DEF Links, OneProcess
    <2>5. OneProcess'
      BY <1>1, <2>1 DEF Links, OneProcess, Free, Open
    <2>6. LinkOf(c)'
      BY <1>1, <1>2, <2>2, <2>3 DEF LinkOf
    <2>7. ASSUME NEW e \in DOMAIN conn_worker
          PROVE  LinkOf(e)'
      BY <1>1, <2>2, <2>3, <2>4 DEF Links, LinkOf
    <2>8. DOMAIN conn_worker' = {e \in DOMAIN conns' : conns'[e] = "WORKER"}
      BY <1>1, <2>1, <2>2 DEF Links
    <2> QED BY <2>2, <2>5, <2>6, <2>7, <2>8 DEF Links
  <1> QED BY <1>4, <1>5

LEMMA CloseLinks ==
  ASSUME NetworkOK, Links, NEW c \in Sockets, CloseConn(c)
  PROVE  Links'
  <1>1. /\ c \in DOMAIN conns
        /\ DOMAIN conns' = DOMAIN conns \ {c}
        /\ \A e \in DOMAIN conns' : conns'[e] = conns[e]
        /\ DOMAIN conn_worker' = DOMAIN conn_worker \ {c}
        /\ \A e \in DOMAIN conn_worker' : conn_worker'[e] = conn_worker[e]
        /\ peer' = [peer EXCEPT ![c] = Gone]
        /\ backlog' = backlog
    BY DEF CloseConn, Erase
  <1>2. \A e \in Sockets \ {c} : peer'[e] = peer[e]
    BY <1>1 DEF NetworkOK
  <1>3. OneProcess'
    <2>1. peer'[c].boot = Null
      BY <1>1 DEF NetworkOK, Gone
    <2>2. \A e \in Sockets \ {c} : Free(e)' <=> Free(e)
      BY <1>1, <1>2 DEF Free, Open
    <2> QED BY <1>2, <2>1, <2>2 DEF Links, OneProcess
  <1>4. ASSUME NEW e \in DOMAIN conn_worker'
        PROVE  LinkOf(e)'
    <2>1. LinkOf(e) /\ e # c /\ e \in Sockets
      BY <1>1 DEF Links, NetworkOK
    <2>2. CASE c \in DOMAIN conn_worker
      <3>1. conn_worker[e] # conn_worker[c]
        BY <2>1, <2>2 DEF Links, LinkOf
      <3>2. /\ DOMAIN workers' = DOMAIN workers \ {conn_worker[c]}
            /\ \A v \in DOMAIN workers' : workers'[v] = workers[v]
            /\ DOMAIN sock_by_worker' = DOMAIN sock_by_worker \ {conn_worker[c]}
            /\ \A v \in DOMAIN sock_by_worker' :
                 sock_by_worker'[v] = sock_by_worker[v]
        BY <2>2 DEF CloseConn, mark_worker_lost, Erase
      <3> QED BY <1>1, <1>2, <2>1, <3>1, <3>2 DEF LinkOf
    <2>3. CASE c \notin DOMAIN conn_worker
      <3>1. UNCHANGED <<workers, sock_by_worker>>
        BY <2>3 DEF CloseConn, vars
      <3> QED BY <1>1, <1>2, <2>1, <3>1 DEF LinkOf
    <2> QED BY <2>2, <2>3
  <1>5. DOMAIN conn_worker' = {e \in DOMAIN conns' : conns'[e] = "WORKER"}
    BY <1>1 DEF Links
  <1> QED BY <1>3, <1>4, <1>5 DEF Links

\* A process connects that shares its boot id with no other one.
LEMMA ConnectLinks ==
  ASSUME NetworkOK, Links, NEW c \in Sockets, NEW q, NEW frame,
         Connect(c, q, frame),
         q.boot # Null => \A e \in Sockets : Free(e) \/ peer[e].boot # q.boot
  PROVE  Links'
  <1>1. /\ peer' = [peer EXCEPT ![c] = q]
        /\ backlog' = backlog \cup {c}
        /\ c \notin DOMAIN conns
        /\ UNCHANGED <<conns, conn_worker, sock_by_worker, workers>>
    BY DEF Connect, Free, Open, coordinator, vars
  <1>2. /\ peer'[c] = q
        /\ \A e \in Sockets \ {c} : /\ peer'[e] = peer[e]
                                    /\ Free(e)' <=> Free(e)
    BY <1>1 DEF NetworkOK, Free, Open
  <1>3. OneProcess'
    BY <1>2 DEF Links, OneProcess
  <1>4. ASSUME NEW e \in DOMAIN conn_worker
        PROVE  LinkOf(e)'
    <2>1. LinkOf(e) /\ e # c /\ e \in Sockets
      BY <1>1 DEF Links, NetworkOK
    <2> QED BY <1>1, <1>2, <2>1 DEF LinkOf
  <1> QED BY <1>1, <1>3, <1>4 DEF Links

\* A process goes on or ends: it stays who it is as long as its socket is
\* used.
LEMMA PeerLinks ==
  ASSUME NetworkOK, Links, NEW c \in Sockets, NEW q,
         peer' = [peer EXCEPT ![c] = q],
         Open(c) => q.worker = peer[c].worker /\ q.boot = peer[c].boot,
         ~Open(c) => q = Gone \/ (q.pc # "gone" /\ peer[c].pc # "gone"
                                  /\ q.boot = peer[c].boot),
         UNCHANGED <<conns, conn_worker, sock_by_worker, workers, backlog>>
  PROVE  Links'
  <1>1. /\ peer'[c] = q
        /\ \A e \in Sockets \ {c} : peer'[e] = peer[e]
        /\ \A e \in Sockets : Open(e)' <=> Open(e)
    BY DEF NetworkOK, Open
  <1>2. OneProcess'
    <2>1. ASSUME NEW e \in Sockets, ~Free(e)', peer'[e].boot # Null
          PROVE  ~Free(e) /\ peer'[e].boot = peer[e].boot
      BY <1>1, <2>1 DEF Free, Gone
    <2> QED BY <2>1 DEF Links, OneProcess
  <1>3. ASSUME NEW e \in DOMAIN conn_worker
        PROVE  LinkOf(e)'
    <2>1. LinkOf(e) /\ e \in Sockets /\ Open(e)
      BY DEF Links, NetworkOK, Open
    <2> QED BY <1>1, <2>1 DEF LinkOf
  <1> QED BY <1>2, <1>3 DEF Links

LEMMA LinksStep ==
  ASSUME LoopOK, NetworkOK, Links, [FNext]_fvars
  PROVE  Links'
  <1>1. CASE Begins \/ Leaves \/ Restarts \/ UNCHANGED fvars
    <2>1. UNCHANGED <<conns, conn_worker, sock_by_worker, workers, peer, backlog>>
      BY <1>1 DEF Begins, Startup, register_service, Leaves, Restarts,
                  StartFresh, Recover, load, fvars, pvars, vars, coordinator,
                  network
    <2> QED BY <2>1, SameLinks
  <1>2. CASE Proceeds
    <2>1. workers' = workers
      BY <1>2, ProceedCalls
         DEF Proceeds, DeployCall, stage_deployment, load_deployment,
             validate_deployment, activate_deployment, commit_deployment, vars
    <2> QED BY <1>2, <2>1, SameLinks DEF Proceeds, Proceed
  <1>3. ASSUME NEW p \in Savers, Saves(p)
        PROVE  Links'
    <2>1. UNCHANGED workers
      BY <1>3 DEF Saves, SaveOpen, SaveWrite, SaveFails, SaveRemove,
                  SaveRename, vars
    <2> QED BY <1>3, <2>1, SameLinks DEF Saves, coordinator
  <1>4. CASE Dies
    <2>1. \A c \in Sockets : /\ peer'[c].boot = Null \/ peer[c].pc # "gone"
                             /\ peer[c].pc # "gone" => peer'[c] = peer[c]
      BY <1>4 DEF Dies, Gone
    <2> QED BY <1>4, <2>1 DEF Dies, EmptyMap, Links, LinkOf, OneProcess, Free
  <1>5. ASSUME NEW c \in Sockets, Accept(c)
        PROVE  Links'
    <2>1. /\ DOMAIN conns' = DOMAIN conns \cup {c}
          /\ \A e \in DOMAIN conns : conns'[e] = conns[e]
          /\ conns'[c] = "UNKNOWN"
          /\ c \notin DOMAIN conns
          /\ backlog' = backlog \ {c}
          /\ c \in backlog
          /\ UNCHANGED <<conn_worker, sock_by_worker, workers, peer>>
      BY <1>5 DEF Accept, Put, NetworkOK, vars
    <2>2. \A e \in Sockets : Free(e)' <=> Free(e)
      BY <2>1 DEF Free, Open
    <2>3. DOMAIN conn_worker = {e \in DOMAIN conns' : conns'[e] = "WORKER"}
      BY <2>1 DEF Links
    <2> QED BY <2>1, <2>2, <2>3 DEF Links, LinkOf, OneProcess
  <1>6. ASSUME NEW c \in Sockets, Shutdown(c) \/ Create(c)
        PROVE  Links'
    <2>1. /\ c \in DOMAIN conns
          /\ conns[c] \in {"UNKNOWN", "ADMIN"}
          /\ peer' = peer
          /\ backlog' = backlog
      BY <1>6, FrameAt DEF Shutdown, Create
    <2>2. /\ conns' = [conns EXCEPT ![c] = "ADMIN"]
          /\ UNCHANGED <<conn_worker, sock_by_worker, workers>>
      BY <1>6 DEF Shutdown, Create, reserve_deployment, vars
    <2>3. /\ \A e \in Sockets : Free(e)' <=> Free(e)
          /\ DOMAIN conn_worker = {e \in DOMAIN conns' : conns'[e] = "WORKER"}
      BY <2>1, <2>2 DEF Links, Free, Open
    <2> QED BY <2>1, <2>2, <2>3 DEF Links, LinkOf, OneProcess
  <1>7. ASSUME NEW c \in Sockets,
               RegisterDevice(c) \/ PublishEvidence(c) \/ Result(c)
        PROVE  Links'
    <2>1. peer' = peer /\ backlog' = backlog
      BY <1>7 DEF RegisterDevice, PublishEvidence, Result, Frame
    <2>2. UNCHANGED <<conns, conn_worker, sock_by_worker, workers>>
      BY <1>7 DEF RegisterDevice, PublishEvidence, Result, register_device,
                  update_device, coordinator, vars
    <2> QED BY <2>1, <2>2, SameLinks
  <1>8. ASSUME NEW c \in Sockets, Serves(c)
        PROVE  Links'
    BY <1>6, <1>7, <1>8, HelloLinks, CloseLinks DEF Serves, Serve
  <1>9. ASSUME NEW c \in Sockets, Joins(c)
        PROVE  Links'
    <2>1. ASSUME NEW w, NEW b, StartWorker(c, w, b)
          PROVE  Links'
      <3> DEFINE q == [worker |-> w, boot |-> b, pc |-> "hello"]
                 frame == [type |-> "HELLO", worker |-> w, boot |-> b]
      <3>1. /\ Connect(c, q, frame)
            /\ \A e \in Sockets : Free(e) \/ peer[e].boot # q.boot
        BY <2>1 DEF StartWorker
      <3> HIDE DEF q, frame
      <3> QED BY <3>1, ConnectLinks
    <2>2. ASSUME NEW frame,
                 Connect(c, [worker |-> Null, boot |-> Null, pc |-> "wait"],
                         frame)
          PROVE  Links'
      <3> DEFINE q == [worker |-> Null, boot |-> Null, pc |-> "wait"]
      <3>1. Connect(c, q, frame) /\ q.boot = Null
        BY <2>2
      <3> HIDE DEF q
      <3> QED BY <3>1, ConnectLinks
    <2> QED BY <1>9, <2>1, <2>2 DEF Joins, StartAdmin
  <1>10. ASSUME NEW c \in Sockets, GoesOn(c)
         PROVE  Links'
    <2>1. peer[c] \in Process
      BY DEF NetworkOK
    <2>2. PICK to : /\ peer' = [peer EXCEPT ![c].pc = to]
                    /\ to # "gone"
                    /\ peer[c].pc # "gone"
      BY <1>10 DEF GoesOn, WorkerStep, AskAgain, Sends
    <2>3. UNCHANGED <<conns, conn_worker, sock_by_worker, workers, backlog>>
      BY <1>10 DEF GoesOn, WorkerStep, AskAgain, coordinator, vars
    <2> DEFINE q == [peer[c] EXCEPT !.pc = to]
    <2>4. /\ q.worker = peer[c].worker
          /\ q.boot = peer[c].boot
          /\ q.pc # "gone"
          /\ peer' = [peer EXCEPT ![c] = q]
      BY <2>1, <2>2 DEF Process
    <2> HIDE DEF q
    <2> QED BY <2>2, <2>3, <2>4, PeerLinks
  <1>11. ASSUME NEW c \in Sockets, Ends(c)
         PROVE  Links'
    <2>1. peer[c] \in Process
      BY DEF NetworkOK
    <2> DEFINE q == IF Open(c) THEN [peer[c] EXCEPT !.pc = "gone"] ELSE Gone
    <2>2. /\ peer' = [peer EXCEPT ![c] = q]
          /\ UNCHANGED <<conns, conn_worker, sock_by_worker, workers, backlog>>
      BY <1>11 DEF Ends, End, coordinator, vars
    <2>3. /\ Open(c) => q.worker = peer[c].worker /\ q.boot = peer[c].boot
          /\ ~Open(c) => q = Gone
      BY <2>1 DEF Process
    <2> HIDE DEF q
    <2> QED BY <2>2, <2>3, PeerLinks
  <1> QED BY <1>1, <1>2, <1>3, <1>4, <1>5, <1>6, <1>8, <1>9, <1>10, <1>11
          DEF FNext, Thread, Exits, Accepts

-----------------------------------------------------------------------------
(* What is known of devices *)

\* No two workers report the same device.
OneReporter ==
  \A v, w \in Workers : DeviceOf[v].device_id = DeviceOf[w].device_id => v = w

\* The devices of a table are each owned by the worker that reports it.
Reported(m) ==
  \A d \in DOMAIN m :
    /\ m[d] \in DeviceRecord
    /\ m[d].device_id = d
    /\ \A w \in Workers : DeviceOf[w].device_id = d => m[d].owning_worker = w

ReportsOnDisk ==
  /\ file \notin {Null, Torn} => Reported(file.devices)
  /\ tmp \notin {Null, Torn} => Reported(tmp.devices)
  /\ \A p \in Savers : save[p].pc = "write" => Reported(save[p].image.devices)

\* The worker of connection c reports its device: nothing else changes.
ReportOf(c) ==
  LET d == DeviceOf[conn_worker[c]].device_id
  IN  /\ c \in DOMAIN conn_worker
      /\ DOMAIN devices' = DOMAIN devices \cup {d}
      /\ devices'[d] \in DeviceRecord
      /\ devices'[d].device_id = d
      /\ devices'[d].owning_worker = conn_worker[c]
      /\ \A e \in DOMAIN devices \ {d} : devices'[e] = devices[e]
      /\ conn_worker' = conn_worker

LEMMA ReportsDevice ==
  ASSUME NetworkOK, Links, Reported(devices), NEW c \in Sockets,
         RegisterDevice(c) \/ PublishEvidence(c), devices' # devices
  PROVE  ReportOf(c)
  <1> DEFINE w == conn_worker[c]
             d == DeviceOf[w].device_id
             f == Head(inbox[c])
  <1>1. /\ c \in DOMAIN conns
        /\ conns[c] = "WORKER"
        /\ f \in FramesOf(peer[c])
        /\ f.type = "REGISTER_DEVICE" \/ f.type = "PUBLISH_EVIDENCE"
        /\ RegisterDevice(c) => f.type = "REGISTER_DEVICE"
        /\ PublishEvidence(c) => f.type = "PUBLISH_EVIDENCE"
        /\ conn_worker' = conn_worker
    BY FrameAt DEF RegisterDevice, PublishEvidence, coordinator
  <1>2. /\ c \in DOMAIN conn_worker
        /\ w = peer[c].worker
        /\ w \in Workers
        /\ w # Null
    BY <1>1, EngineAssumption DEF Links, LinkOf
  <1>3. DeviceOf[w] \in DeviceRecord
    BY <1>2, ProtocolAssumption
  <1>4. CASE RegisterDevice(c)
    <2> DEFINE rec == [DeviceOf[w] EXCEPT !.owning_worker = w]
    <2>1. f.device = DeviceOf[w]
      BY <1>1, <1>2, <1>4 DEF FramesOf, WorkerFrames
    <2>2. rec \in DeviceRecord /\ rec.device_id = d /\ rec.owning_worker = w
      BY <1>2, <1>3 DEF DeviceRecord
    <2>3. register_device(rec) \/ update_device(rec)
      BY <1>4, <2>1 DEF RegisterDevice
    <2>4. /\ DOMAIN devices' = DOMAIN devices \cup {d}
          /\ devices'[d] = rec
          /\ \A e \in DOMAIN devices \ {d} : devices'[e] = devices[e]
      BY <2>2, <2>3 DEF register_device, update_device, Put
    <2> QED BY <1>1, <1>2, <2>2, <2>4 DEF ReportOf
  <1>5. CASE PublishEvidence(c)
    <2>1. f.device_id = d /\ f.evidence_gen = DeviceOf[w].evidence_gen
      BY <1>1, <1>2, <1>5 DEF FramesOf, WorkerFrames
    <2> DEFINE rec == [devices[d] EXCEPT !.evidence_gen = f.evidence_gen,
                                         !.evidence_fresh = TRUE,
                                         !.lifecycle = "READY"]
    <2>2. d \in DOMAIN devices /\ update_device(rec)
      BY <1>5, <2>1 DEF PublishEvidence, vars
    <2>3. /\ devices[d] \in DeviceRecord
          /\ devices[d].device_id = d
          /\ devices[d].owning_worker = w
      BY <1>2, <2>2 DEF Reported
    <2>4. rec \in DeviceRecord /\ rec.owning_worker = w
      BY <1>3, <2>1, <2>3 DEF DeviceRecord, Lifecycle
    <2>5. rec.device_id = d
      BY <2>3 DEF DeviceRecord
    <2>6. devices' = [devices EXCEPT ![d] = rec]
      BY <2>2, <2>5 DEF update_device
    <2> QED BY <1>1, <1>2, <2>2, <2>4, <2>5, <2>6 DEF ReportOf
  <1> QED BY <1>4, <1>5

\* The ways a step changes the devices.
LEMMA DeviceSteps ==
  ASSUME LoopOK, NetworkOK, Links, Reported(devices), [FNext]_fvars
  PROVE  \/ devices' = devices /\ DOMAIN conn_worker \subseteq DOMAIN conn_worker'
            /\ \A c \in DOMAIN conn_worker : conn_worker'[c] = conn_worker[c]
         \/ \E c \in Sockets : ReportOf(c)
         \/ \E c \in Sockets : CloseConn(c)
         \/ Dies
         \/ Recover
  <1> DEFINE Same == /\ devices' = devices
                     /\ DOMAIN conn_worker \subseteq DOMAIN conn_worker'
                     /\ \A c \in DOMAIN conn_worker :
                          conn_worker'[c] = conn_worker[c]
  <1>1. ASSUME UNCHANGED <<devices, conn_worker>>
        PROVE  Same
    BY <1>1
  <1> HIDE DEF Same
  <1>2. ASSUME NEW c \in Sockets, Serve(c)
        PROVE  Same \/ ReportOf(c) \/ CloseConn(c)
    <2>1. CASE Hello(c)
      <3>1. devices' = devices
        BY <2>1 DEF Hello, register_worker, vars
      <3>2. c \notin DOMAIN conn_worker
        BY <2>1, FrameAt DEF Hello, Links
      <3>3. conn_worker' = conn_worker
              \/ conn_worker' = Put(conn_worker, c, Head(inbox[c]).worker)
        BY <2>1 DEF Hello
      <3> QED BY <3>1, <3>2, <3>3 DEF Same, Put
    <2>2. CASE RegisterDevice(c) \/ PublishEvidence(c)
      <3>1. conn_worker' = conn_worker
        BY <2>2 DEF RegisterDevice, PublishEvidence, coordinator
      <3> QED BY <1>1, <2>2, <3>1, ReportsDevice
    <2>3. CASE Result(c) \/ Create(c)
      <3>1. UNCHANGED <<devices, conn_worker>>
        BY <2>3 DEF Result, Create, reserve_deployment, vars
      <3> QED BY <1>1, <3>1
    <2> QED BY <1>2, <2>1, <2>2, <2>3 DEF Serve
  <1>3. CASE Proceeds
    <2>1. UNCHANGED <<devices, conn_worker>>
      BY <1>3, ProceedCalls
         DEF Proceeds, Proceed, DeployCall, stage_deployment, load_deployment,
             validate_deployment, activate_deployment, commit_deployment, vars
    <2> QED BY <1>1, <2>1
  <1>4. ASSUME NEW p, Saves(p)
        PROVE  Same
    <2>1. UNCHANGED <<devices, conn_worker>>
      BY <1>4 DEF Saves, SaveOpen, SaveWrite, SaveFails, SaveRemove,
                  SaveRename, coordinator, vars
    <2> QED BY <1>1, <2>1
  <1>5. CASE Restarts
    BY <1>1, <1>5 DEF Restarts, StartFresh, coordinator, vars
  <1>6. ASSUME NEW c, \/ Accepts(c) \/ Shutdown(c) \/ Joins(c)
                      \/ GoesOn(c) \/ Ends(c)
        PROVE  Same
    <2>1. UNCHANGED <<devices, conn_worker>>
      BY <1>6 DEF Accepts, Accept, Shutdown, Joins, StartWorker, StartAdmin,
                  Connect, GoesOn, WorkerStep, AskAgain, Ends, End,
                  coordinator, vars
    <2> QED BY <1>1, <2>1
  <1>7. CASE Begins \/ Leaves \/ UNCHANGED fvars
    <2>1. UNCHANGED <<devices, conn_worker>>
      BY <1>7 DEF Begins, Startup, register_service, Leaves, fvars, pvars,
                  vars, coordinator
    <2> QED BY <1>1, <2>1
  <1> QED BY <1>2, <1>3, <1>4, <1>5, <1>6, <1>7
          DEF FNext, Thread, Exits, Serves, Same

LEMMA FencedDevice ==
  ASSUME NEW dev \in DeviceRecord, NEW lc \in Lifecycle,
         NEW rec, rec = [dev EXCEPT !.evidence_fresh = FALSE, !.lifecycle = lc]
  PROVE  /\ rec \in DeviceRecord
         /\ rec.device_id = dev.device_id
         /\ rec.owning_worker = dev.owning_worker
         /\ ~rec.evidence_fresh
         /\ rec.lifecycle = lc
  BY DEF DeviceRecord

LEMMA RecoveredIsFenced ==
  ASSUME NEW dev \in DeviceRecord
  PROVE  /\ RecoveredDevice(dev) \in DeviceRecord
         /\ RecoveredDevice(dev).device_id = dev.device_id
         /\ RecoveredDevice(dev).owning_worker = dev.owning_worker
         /\ ~RecoveredDevice(dev).evidence_fresh
  BY DEF RecoveredDevice, DeviceRecord, Lifecycle

LEMMA ReportedStep ==
  ASSUME OneReporter, LoopOK, NetworkOK, Links, SaversOK, Reported(devices),
         ReportsOnDisk, [FNext]_fvars
  PROVE  Reported(devices)' /\ ReportsOnDisk'
  <1>1. ASSUME NEW c \in Sockets, ReportOf(c)
        PROVE  Reported(devices')
    <2>1. conn_worker[c] \in Workers
      BY <1>1 DEF ReportOf, Links, LinkOf
    <2> QED BY <1>1, <2>1 DEF ReportOf, Reported, OneReporter
  <1>2. ASSUME NEW w, mark_worker_lost(w)
        PROVE  Reported(devices')
    <2>1. DOMAIN devices' = DOMAIN devices
      BY <1>2 DEF mark_worker_lost
    <2>2. ASSUME NEW d \in DOMAIN devices
          PROVE  \/ devices'[d] = devices[d]
                 \/ devices'[d] = [devices[d] EXCEPT
                                    !.evidence_fresh = FALSE,
                                    !.lifecycle = "REVALIDATION_REQUIRED"]
      BY <1>2 DEF mark_worker_lost
    <2>3. \A d \in DOMAIN devices : devices[d] \in DeviceRecord
      BY DEF Reported
    <2>4. "REVALIDATION_REQUIRED" \in Lifecycle
      BY DEF Lifecycle
    <2>5. \A d \in DOMAIN devices :
            /\ devices'[d] \in DeviceRecord
            /\ devices'[d].device_id = devices[d].device_id
            /\ devices'[d].owning_worker = devices[d].owning_worker
      <3> SUFFICES ASSUME NEW d \in DOMAIN devices
                   PROVE  /\ devices'[d] \in DeviceRecord
                          /\ devices'[d].device_id = devices[d].device_id
                          /\ devices'[d].owning_worker
                               = devices[d].owning_worker
        OBVIOUS
      <3>1. CASE devices'[d] = devices[d]
        BY <2>3, <3>1
      <3>2. CASE devices'[d] = [devices[d] EXCEPT
                                  !.evidence_fresh = FALSE,
                                  !.lifecycle = "REVALIDATION_REQUIRED"]
        <4> DEFINE old == devices[d]
                   new == devices'[d]
                   lc == "REVALIDATION_REQUIRED"
        <4>1. /\ old \in DeviceRecord
              /\ lc \in Lifecycle
              /\ new = [old EXCEPT !.evidence_fresh = FALSE, !.lifecycle = lc]
          BY <2>3, <2>4, <3>2
        <4> HIDE DEF old, new, lc
        <4>2. /\ new \in DeviceRecord
              /\ new.device_id = old.device_id
              /\ new.owning_worker = old.owning_worker
          BY <4>1 DEF DeviceRecord
        <4> QED BY <4>2 DEF old, new
      <3> QED BY <2>2, <3>1, <3>2
    <2> QED BY <2>1, <2>5 DEF Reported
  <1>3. ASSUME Dies PROVE Reported(devices')
    BY <1>3 DEF Dies, Crash, Constructed, EmptyMap, Reported
  <1>4. ASSUME Recover PROVE Reported(devices')
    <2>1. Reported(file.devices) /\ load(file)
      BY <1>4 DEF Recover, Accepted, ReportsOnDisk
    <2> DEFINE m == file.devices
    <2>2. /\ DOMAIN devices' = DOMAIN m
          /\ \A d \in DOMAIN m : devices'[d] = RecoveredDevice(m[d])
      BY <2>1 DEF load
    <2>3. \A d \in DOMAIN m : m[d] \in DeviceRecord
      BY <2>1 DEF Reported
    <2> HIDE DEF m
    <2>4. \A d \in DOMAIN m :
            /\ devices'[d] \in DeviceRecord
            /\ devices'[d].device_id = m[d].device_id
            /\ devices'[d].owning_worker = m[d].owning_worker
      BY <2>2, <2>3, RecoveredIsFenced
    <2> QED BY <2>1, <2>2, <2>4 DEF Reported, m
  <1>5. Reported(devices')
    BY <1>1, <1>2, <1>3, <1>4, DeviceSteps DEF CloseConn, Reported, vars
  <1>6. DiskMove
    BY DiskMoves, FleetSteps
  <1>7. Reported(Image.devices)
    BY DEF Image
  <1>8. ReportsOnDisk'
    BY <1>6, <1>7 DEF ReportsOnDisk, DiskMove
  <1> QED BY <1>5, <1>8 DEF Reported

\* The worker of a device that is ready is connected.
LEMMA ReadyStep ==
  ASSUME OneReporter, LoopOK, NetworkOK, Links, Reported(devices),
         ReportsOnDisk, ReadyIsConnected, Links', [FNext]_fvars
  PROVE  ReadyIsConnected'
  <1> DEFINE Owner(d) == devices[d].owning_worker
  <1>1. ASSUME NEW d \in DOMAIN devices', is_ready_for_offload(d)',
               NEW c \in DOMAIN conn_worker',
               conn_worker'[c] = devices'[d].owning_worker
        PROVE  \E e \in DOMAIN conn_worker' :
                 /\ conn_worker'[e] = devices'[d].owning_worker
                 /\ conn_worker'[e] \in DOMAIN sock_by_worker'
                 /\ sock_by_worker'[conn_worker'[e]] = e
    BY <1>1 DEF Links, LinkOf
  <1> SUFFICES ASSUME NEW d \in DOMAIN devices', is_ready_for_offload(d)'
               PROVE  \E c \in DOMAIN conn_worker' :
                        conn_worker'[c] = devices'[d].owning_worker
    BY <1>1 DEF ReadyIsConnected
  <1>2. ASSUME d \in DOMAIN devices, is_ready_for_offload(d)
        PROVE  \E c \in DOMAIN conn_worker : conn_worker[c] = Owner(d)
    BY <1>2 DEF ReadyIsConnected
  <1>3. CASE /\ devices' = devices
             /\ DOMAIN conn_worker \subseteq DOMAIN conn_worker'
             /\ \A c \in DOMAIN conn_worker : conn_worker'[c] = conn_worker[c]
    <2>1. d \in DOMAIN devices /\ is_ready_for_offload(d)
      BY <1>3 DEF is_ready_for_offload
    <2> QED BY <1>2, <1>3, <2>1
  <1>4. ASSUME NEW c \in Sockets, ReportOf(c)
        PROVE  \E e \in DOMAIN conn_worker' :
                 conn_worker'[e] = devices'[d].owning_worker
    <2>1. CASE d = DeviceOf[conn_worker[c]].device_id
      BY <1>4, <2>1 DEF ReportOf
    <2>2. CASE d # DeviceOf[conn_worker[c]].device_id
      <3>1. d \in DOMAIN devices /\ devices'[d] = devices[d]
        BY <1>4, <2>2 DEF ReportOf
      <3>2. is_ready_for_offload(d)
        BY <3>1 DEF is_ready_for_offload
      <3> QED BY <1>2, <1>4, <3>1, <3>2 DEF ReportOf
    <2> QED BY <2>1, <2>2
  <1>5. ASSUME NEW c \in Sockets, CloseConn(c)
        PROVE  \E e \in DOMAIN conn_worker' :
                 conn_worker'[e] = devices'[d].owning_worker
    <2>1. /\ DOMAIN conn_worker' = DOMAIN conn_worker \ {c}
          /\ \A e \in DOMAIN conn_worker' : conn_worker'[e] = conn_worker[e]
      BY <1>5 DEF CloseConn, Erase
    <2>2. CASE c \notin DOMAIN conn_worker
      <3>1. devices' = devices
        BY <1>5, <2>2 DEF CloseConn, vars
      <3>2. d \in DOMAIN devices /\ is_ready_for_offload(d)
        BY <3>1 DEF is_ready_for_offload
      <3> QED BY <1>2, <2>1, <2>2, <3>1, <3>2
    <2>3. CASE c \in DOMAIN conn_worker
      <3>1. /\ d \in DOMAIN devices
            /\ \/ /\ Owner(d) # conn_worker[c] \/ devices[d].lifecycle = "RETIRED"
                  /\ devices'[d] = devices[d]
               \/ devices'[d] = [devices[d] EXCEPT
                                   !.evidence_fresh = FALSE,
                                   !.lifecycle = "REVALIDATION_REQUIRED"]
        BY <1>5, <2>3 DEF CloseConn, mark_worker_lost
      <3>2. devices[d] \in DeviceRecord /\ "REVALIDATION_REQUIRED" \in Lifecycle
        BY <3>1 DEF Reported, Lifecycle
      <3>3. devices'[d].evidence_fresh /\ devices'[d].lifecycle = "READY"
        BY DEF is_ready_for_offload
      <3>4. devices'[d] = devices[d] /\ Owner(d) # conn_worker[c]
        BY <3>1, <3>2, <3>3, FencedDevice
      <3>5. is_ready_for_offload(d)
        BY <3>1, <3>4 DEF is_ready_for_offload
      <3> QED BY <1>2, <2>1, <3>1, <3>4, <3>5
    <2> QED BY <2>2, <2>3
  <1>6. CASE Dies
    BY <1>6 DEF Dies, Crash, Constructed, EmptyMap
  <1>7. CASE Recover
    <2>1. /\ Reported(file.devices)
          /\ d \in DOMAIN file.devices
          /\ devices'[d] = RecoveredDevice(file.devices[d])
      BY <1>7 DEF Recover, Accepted, ReportsOnDisk, load
    <2>2. ~devices'[d].evidence_fresh
      <3>1. file.devices[d] \in DeviceRecord
        BY <2>1 DEF Reported
      <3> QED BY <2>1, <3>1, RecoveredIsFenced
    <2>3. devices'[d].evidence_fresh
      BY DEF is_ready_for_offload
    <2> QED BY <2>2, <2>3
  <1> QED BY <1>3, <1>4, <1>5, <1>6, <1>7, DeviceSteps

LinksOK == LoopOK /\ NetworkOK /\ Links /\ SaversOK

FleetOK == LinksOK /\ Reported(devices) /\ ReportsOnDisk

LEMMA FleetStart ==
  ASSUME FInit
  PROVE  FleetOK /\ ReadyIsConnected
  <1>1. LoopOK
    BY FleetLoop
  <1>2. NetworkOK
    <2>1. Gone \in Process
      BY DEF Process, Gone
    <2> QED BY <2>1 DEF FInit, PInit, NetworkOK, EmptyMap, Open
  <1>3. Links
    BY DEF FInit, PInit, Links, OneProcess, EmptyMap, Gone
  <1>4. Reported(devices) /\ ReadyIsConnected
    BY DEF FInit, PInit, Init, EmptyMap, Reported, ReadyIsConnected
  <1>5. SaversOK /\ ReportsOnDisk
    BY DEF FInit, SaversOK, ReportsOnDisk, NotSaving
  <1> QED BY <1>1, <1>2, <1>3, <1>4, <1>5 DEF FleetOK, LinksOK

LEMMA LinksOKStep ==
  ASSUME LinksOK, [FNext]_fvars
  PROVE  LinksOK'
  BY FleetLoop, NetworkStep, LinksStep, FleetSteps, DiskMoves DEF LinksOK

\* A device that can be selected belongs to a worker that is connected,
\* through deaths of either process, refused greetings and resets, when no
\* two workers report the same device.
THEOREM ReadyConnected ==
  ASSUME OneReporter
  PROVE  FSpec => []ReadyIsConnected
  <1>1. FInit => FleetOK /\ ReadyIsConnected
    BY FleetStart
  <1>2. FleetOK /\ ReadyIsConnected /\ [FNext]_fvars
          => FleetOK' /\ ReadyIsConnected'
    <2> SUFFICES ASSUME FleetOK, ReadyIsConnected, [FNext]_fvars
                 PROVE  FleetOK' /\ ReadyIsConnected'
      OBVIOUS
    <2>1. LinksOK'
      BY LinksOKStep DEF FleetOK
    <2>2. Reported(devices)' /\ ReportsOnDisk'
      BY ReportedStep DEF FleetOK, LinksOK
    <2>3. ReadyIsConnected'
      BY <2>1, ReadyStep DEF FleetOK, LinksOK
    <2> QED BY <2>1, <2>2, <2>3 DEF FleetOK
  <1> QED BY <1>1, <1>2, PTL DEF FSpec

-----------------------------------------------------------------------------
(* Creations *)

\* Nobody registers a program with the coordinator, now or in a file.
NoPrograms(m) == \A p \in Programs : m[p] = {}

\* The deployments of a table are active or fenced, but for those in S.
Settled(m, S) ==
  \A x \in DOMAIN m :
    /\ {"state", "device", "program"} \subseteq DOMAIN m[x]
    /\ x \notin S => m[x].state \in {"ACTIVE", "REVALIDATION_REQUIRED"}

\* The state that the next call of the handler finds its deployment in.
Before == <<"RESERVED", "STAGING", "LOADED", "VALIDATING", "ACTIVATING">>

\* The deployment of the handler, when it is between two of its calls: the
\* next one is not refused, for the table, the device or the program.
Underway(x, call) ==
  /\ x \in DOMAIN deployments
  /\ deployments[x].state = Before[call]
  /\ is_ready_for_offload(deployments[x].device)
  /\ deployments[x].program = Null

InHandler == IF loop = Idle THEN {} ELSE {loop.deployment}

Halfway ==
  /\ Settled(deployments, InHandler)
  /\ NoPrograms(programs)
  /\ loop # Idle => /\ "deployment" \in DOMAIN loop
                    /\ Underway(loop.deployment, loop.call)
  /\ ~up \/ duty # NoDuty => loop = Idle

SettledImage(im) == Settled(im.deployments, {}) /\ NoPrograms(im.programs)

\* What is saved was settled: the loop saves between two turns.
SettledDisk ==
  /\ file \notin {Null, Torn} => SettledImage(file)
  /\ tmp \notin {Null, Torn} => SettledImage(tmp)
  /\ \A p \in Savers : save[p].pc = "write" => SettledImage(save[p].image)

\* A request that a device passes for wants no program: it would be found
\* incompatible, since there is none.
LEMMA NothingWanted ==
  ASSUME NoPrograms(programs), NEW ask, evaluate_offload(ask).selected # Null,
         wanted_program(ask) \in Programs \cup {Null}
  PROVE  wanted_program(ask) = Null
  <1>1. passed(ask) # {}
    BY DEF evaluate_offload
  <1>2. PICK d : Rejections(d, ask) = {}
    BY <1>1 DEF passed
  <1>3. ~(wanted_program(ask) # Null /\ Artifact(ask) = Null)
    BY <1>2 DEF Rejections, CatalogReasons, When
  <1> QED BY <1>3 DEF Artifact, NoPrograms

\* What CREATE_DEPLOYMENT reserves is what its calls will accept.
LEMMA CreateHalfway ==
  ASSUME NetworkOK, Halfway, NEW c, Create(c)
  PROVE  \/ UNCHANGED <<deployments, loop>>
         \/ \E x : /\ loop' = [call |-> 1, deployment |-> x, admin |-> c]
                   /\ Settled(deployments', {x})
                   /\ Underway(x, 1)'
  <1> DEFINE ask == Head(inbox[c]).ask
             req == [service |-> ask.service,
                     required_program |-> ask.required_program,
                     resource |-> ask.resource]
             d == evaluate_offload(ask).selected
  <1>0. PICK x : x = id_seq
    OBVIOUS
  <1>1. Frame(c, {"UNKNOWN", "ADMIN"}, "CREATE_DEPLOYMENT")
    BY DEF Create
  <1>2. /\ loop = Idle
        /\ services = Services
        /\ Head(inbox[c]) \in FramesOf(peer[c])
        /\ Head(inbox[c]).type = "CREATE_DEPLOYMENT"
    BY <1>1, FrameAt
  <1>3. ask \in Asks
    BY <1>2 DEF FramesOf, AdminFrames, WorkerFrames
  <1> SUFFICES ASSUME deployments' # deployments
               PROVE  /\ loop' = [call |-> 1, deployment |-> x, admin |-> c]
                      /\ Settled(deployments', {x})
                      /\ Underway(x, 1)'
    BY DEF Create
  <1>4. /\ loop' = [call |-> 1, deployment |-> x, admin |-> c]
        /\ d # Null
        /\ reserve_deployment(d, req)
    BY <1>0 DEF Create, vars
  <1>5. ask.required_program \in Programs \cup {Null}
    BY <1>3, EligibilityAssumption
  <1>6. \A s \in Services :
          ServiceDef[s].required_program \in Programs \cup {Null}
    BY EngineAssumption
  <1>7. wanted_program(ask) \in Programs \cup {Null}
    BY <1>2, <1>5, <1>6 DEF wanted_program, ServiceOf
  <1>8. wanted_program(ask) = Null
    BY <1>4, <1>7, NothingWanted DEF Halfway
  <1>9. /\ ask.required_program = Null
        /\ ask.service \in services => ServiceDef[ask.service].required_program = Null
    BY <1>2, <1>5, <1>8, EngineAssumption DEF wanted_program, ServiceOf
  <1>10. PICK dep :
           /\ deployments' = Put(deployments, x, dep)
           /\ {"state", "device", "program"} \subseteq DOMAIN dep
           /\ dep.state = "RESERVED"
           /\ dep.device = d
           /\ dep.program = Null
    <2> DEFINE prog == IF req.required_program # Null
                       THEN req.required_program
                       ELSE IF req.service # Null
                            THEN ServiceDef[req.service].required_program
                       ELSE Null
               rec == [generation |-> 1,
                       device |-> d, device_boot |-> devices[d].boot_id,
                       service |-> req.service,
                       service_gen |-> IF req.service # Null
                                       THEN ServiceDef[req.service].service_gen
                                       ELSE 0,
                       program |-> prog,
                       program_gen |-> IF prog # Null
                                       THEN current_program_gen[prog] ELSE 0,
                       resources |-> IF req.service # Null
                                     THEN ServiceDef[req.service].resource
                                     ELSE req.resource,
                       state |-> "RESERVED", authoritative |-> FALSE,
                       activation |-> 0, activation_gen |-> 0, epoch |-> 0,
                       worker_boot |-> Null]
    <2>1. /\ deployments' = Put(deployments, x, rec)
          /\ req.service # Null => req.service \in services
      BY <1>0, <1>4 DEF reserve_deployment
    <2>2. prog = Null
      BY <1>9, <2>1
    <2>3. /\ {"state", "device", "program"} \subseteq DOMAIN rec
          /\ rec.state = "RESERVED"
          /\ rec.device = d
          /\ rec.program = prog
      OBVIOUS
    <2> HIDE DEF rec
    <2> QED BY <2>1, <2>2, <2>3
  <1>11. /\ devices' = devices
         /\ is_ready_for_offload(d)
    BY <1>4 DEF reserve_deployment
  <1>12. x \in DOMAIN deployments' /\ deployments'[x] = dep
    BY <1>10 DEF Put
  <1>13. Settled(deployments', {x})
    BY <1>2, <1>10 DEF Halfway, Settled, InHandler, Put
  <1>14. Underway(x, 1)'
    BY <1>10, <1>11, <1>12 DEF Underway, Before, is_ready_for_offload
  <1> QED BY <1>4, <1>13, <1>14

\* The call that is next is made, and leads to where the one after it starts.
LEMMA ProceedHalfway ==
  ASSUME LoopOK, Halfway, Proceed
  PROVE  \/ loop' = Idle /\ Settled(deployments', {})
         \/ /\ loop' # Idle
            /\ "deployment" \in DOMAIN loop'
            /\ \E x, n : /\ x = loop'.deployment
                         /\ n = loop'.call
                         /\ Settled(deployments', {x})
                         /\ Underway(x, n)'
  <1>0. PICK x, n : x = loop.deployment /\ n = loop.call
    OBVIOUS
  <1>1. /\ loop # Idle
        /\ n \in 1 .. 5
        /\ "deployment" \in DOMAIN loop
        /\ "call" \in DOMAIN loop
        /\ Underway(x, n)
        /\ Settled(deployments, {x})
    BY <1>0 DEF Proceed, Serving, LoopOK, Halfway, InHandler
  <1> DEFINE to == Calls[n]
  <1>2. Legal(x, to)
    BY <1>1 DEF Underway, Before, Calls, Legal, Committable,
                valid_deployment_transition
  <1>3. /\ Call(x, to)
        /\ loop' = IF n = 5 THEN Idle ELSE [loop EXCEPT !.call = @ + 1]
    BY <1>0, <1>2 DEF Proceed, Calls
  <1>4. /\ to \in {"STAGING", "LOADED", "VALIDATING", "ACTIVATING", "ACTIVE"}
        /\ to = "ACTIVE" <=> n = 5
        /\ n # 5 => Before[n + 1] = to
    BY <1>1 DEF Calls, Before
  <1>5. /\ DOMAIN deployments' = DOMAIN deployments
        /\ \A y \in DOMAIN deployments \ {x} :
             deployments'[y] = deployments[y]
        /\ {"state", "device", "program"} \subseteq DOMAIN deployments'[x]
        /\ deployments'[x].state = to
        /\ deployments'[x].device = deployments[x].device
        /\ deployments'[x].program = deployments[x].program
        /\ devices' = devices
    <2> HIDE DEF to
    <2>1. {"state", "device", "program"} \subseteq DOMAIN deployments[x]
      BY <1>1 DEF Settled, Underway
    <2>2. CASE to \in {"STAGING", "LOADED", "VALIDATING"}
      <3>1. do_deploy_transition(x, to) /\ devices' = devices
        BY <1>3, <2>2 DEF Call, stage_deployment, load_deployment,
                          validate_deployment
      <3> QED BY <2>1, <3>1 DEF do_deploy_transition
    <2>3. CASE to = "ACTIVATING"
      <3>1. activate_deployment(x)
        BY <1>3, <2>3 DEF Call
      <3>2. PICK gen : /\ x \in DOMAIN deployments
                       /\ deployments' = [deployments EXCEPT
                            ![x].state = "ACTIVATING",
                            ![x].authoritative = FALSE,
                            ![x].activation = id_seq,
                            ![x].activation_gen = gen]
                       /\ devices' = devices
        BY <3>1 DEF activate_deployment
      <3> QED BY <2>1, <2>3, <3>2
    <2>4. CASE to = "ACTIVE"
      <3>1. commit_deployment(x)
        BY <1>3, <2>4 DEF Call
      <3>2. /\ x \in DOMAIN deployments
            /\ deployments' = [deployments EXCEPT ![x].state = "ACTIVE",
                                                  ![x].authoritative = TRUE,
                                                  ![x].epoch = epoch]
            /\ devices' = devices
        BY <3>1 DEF commit_deployment
      <3> QED BY <2>1, <2>4, <3>2
    <2> QED BY <1>4, <2>2, <2>3, <2>4
  <1>6. CASE n = 5
    BY <1>1, <1>3, <1>4, <1>5, <1>6 DEF Settled
  <1>7. CASE n # 5
    <2>1. /\ loop' = [loop EXCEPT !.call = @ + 1]
          /\ loop'.call = n + 1
          /\ loop'.deployment = x
          /\ "deployment" \in DOMAIN loop'
          /\ loop' # Idle
      BY <1>0, <1>1, <1>3, <1>7 DEF Idle
    <2>2. Settled(deployments', {x})
      BY <1>1, <1>5 DEF Settled
    <2>3. /\ deployments'[x].state = Before[n + 1]
          /\ x \in DOMAIN deployments'
      BY <1>1, <1>4, <1>5, <1>7 DEF Underway
    <2>4. Underway(x, n + 1)'
      BY <1>1, <1>5, <2>3 DEF Underway, is_ready_for_offload
    <2> QED BY <1>0, <2>1, <2>2, <2>4
  <1> QED BY <1>6, <1>7

\* Whatever else a turn of the loop does leaves the table settled.
LEMMA ServeHalfway ==
  ASSUME NetworkOK, Halfway, NEW c, Serve(c)
  PROVE  /\ NoPrograms(programs')
         /\ \/ /\ loop' = Idle
               /\ Settled(deployments', {})
            \/ \E x : /\ loop' = [call |-> 1, deployment |-> x, admin |-> c]
                      /\ Settled(deployments', {x})
                      /\ Underway(x, 1)'
  <1>1. loop = Idle /\ Settled(deployments, {}) /\ NoPrograms(programs)
    BY FrameAt DEF Serve, Hello, RegisterDevice, PublishEvidence, Result, Create,
                   Frame, CloseConn, Ready, Serving, Halfway, InHandler
  <1>2. CASE Create(c)
    <2>1. programs' = programs
      BY <1>2 DEF Create, reserve_deployment, registry, vars
    <2> QED BY <1>1, <1>2, <2>1, CreateHalfway
  <1>3. CASE CloseConn(c)
    <2>1. /\ loop' = loop
          /\ programs' = programs
          /\ \/ deployments' = deployments
             \/ \E S : deployments' = Deployments(S, "REVALIDATION_REQUIRED")
      BY <1>3 DEF CloseConn, mark_worker_lost, Fence, registry, vars
    <2>2. ASSUME NEW S,
                 deployments' = Deployments(S, "REVALIDATION_REQUIRED")
          PROVE  Settled(deployments', {})
      BY <1>1, <2>2 DEF Deployments, Settled
    <2> QED BY <1>1, <2>1, <2>2
  <1>4. CASE \/ Hello(c) \/ RegisterDevice(c) \/ PublishEvidence(c)
             \/ Result(c)
    <2>1. UNCHANGED <<loop, programs, deployments>>
      BY <1>4 DEF Hello, RegisterDevice, PublishEvidence, Result, coordinator,
                  register_worker, register_device, update_device, registry,
                  vars
    <2> QED BY <1>1, <2>1
  <1> QED BY <1>2, <1>3, <1>4 DEF Serve

\* What comes back from a settled file is settled.
LEMMA RecoverHalfway ==
  ASSUME Halfway, SettledDisk, Recover
  PROVE  Settled(deployments', {}) /\ NoPrograms(programs')
  <1>1. load(file) /\ SettledImage(file)
    BY DEF Recover, Accepted, SettledDisk
  <1>2. NoPrograms(programs')
    BY <1>1 DEF load, SettledImage
  <1>3. ASSUME NEW x \in DOMAIN deployments'
        PROVE  /\ {"state", "device", "program"} \subseteq DOMAIN deployments'[x]
               /\ deployments'[x].state \in {"ACTIVE", "REVALIDATION_REQUIRED"}
    <2> DEFINE old == file.deployments[x]
    <2>1. /\ deployments'[x] = RecoveredDeployment(old)
          /\ {"state", "device", "program"} \subseteq DOMAIN old
          /\ old.state \in {"ACTIVE", "REVALIDATION_REQUIRED"}
      BY <1>1, <1>3 DEF load, SettledImage, Settled
    <2> HIDE DEF old
    <2> QED BY <2>1 DEF RecoveredDeployment
  <1> QED BY <1>2, <1>3 DEF Settled

LEMMA HalfwayStep ==
  ASSUME LoopOK, NetworkOK, Halfway, SettledDisk, [FNext]_fvars
  PROVE  Halfway'
  <1>1. ASSUME UNCHANGED <<deployments, programs, devices, loop>>,
               ~up' \/ duty' # NoDuty => ~up \/ duty # NoDuty \/ loop = Idle
        PROVE  Halfway'
    <2>1. \A x, n : Underway(x, n) => Underway(x, n)'
      BY <1>1 DEF Underway, is_ready_for_offload
    <2> QED BY <1>1, <2>1 DEF Halfway, InHandler
  <1>2. ASSUME loop' = Idle, Settled(deployments', {}), NoPrograms(programs')
        PROVE  Halfway'
    BY <1>2 DEF Halfway, InHandler
  <1>3. CASE Proceeds
    <2>1. /\ Proceed /\ up' = up /\ up
          /\ loop' # Idle => duty' = NoDuty
      BY <1>3 DEF Proceeds, AtLoop, Keeps, process
    <2>2. programs' = programs
      BY <2>1, ProceedCalls
         DEF DeployCall, stage_deployment, load_deployment,
             validate_deployment, activate_deployment, commit_deployment,
             registry, vars
    <2>3. CASE loop' = Idle /\ Settled(deployments', {})
      BY <1>2, <2>2, <2>3 DEF Halfway
    <2>4. ASSUME loop' # Idle, "deployment" \in DOMAIN loop',
                 NEW x, NEW n, x = loop'.deployment, n = loop'.call,
                 Settled(deployments', {x}), Underway(x, n)'
          PROVE  Halfway'
      BY <2>1, <2>2, <2>4 DEF Halfway, InHandler
    <2> QED BY <2>1, <2>3, <2>4, ProceedHalfway
  <1>4. ASSUME NEW c, Serves(c)
        PROVE  Halfway'
    <2>1. Serve(c) /\ up' = up /\ up /\ duty' = NoDuty
      BY <1>4 DEF Serves, AtLoop, Keeps, process
    <2>2. ASSUME NEW x, loop' = [call |-> 1, deployment |-> x, admin |-> c]
          PROVE  /\ loop'.deployment = x
                 /\ loop'.call = 1
                 /\ "deployment" \in DOMAIN loop'
                 /\ loop' # Idle
      BY <2>2 DEF Idle
    <2> QED BY <1>2, <2>1, <2>2, ServeHalfway DEF Halfway, InHandler
  <1>5. CASE Begins \/ \E c : Accepts(c)
    BY <1>1, <1>5 DEF Begins, Startup, register_service, Accepts, Accept,
                      Keeps, process, loop_state, coordinator, vars
  <1>6. CASE Leaves \/ \E c : Shutdown(c)
    BY <1>1, <1>6 DEF Leaves, Serving, Shutdown, Frame, Ready, Keeps, process,
                      pvars, coordinator, vars
  <1>7. ASSUME NEW p, Saves(p)
        PROVE  Halfway'
    BY <1>1, <1>7 DEF Saves, Saved, SaveOpen, SaveWrite, SaveFails, SaveRemove,
                      SaveRename, NoDuty, process, coordinator, loop_state, vars,
                      Halfway
  <1>8. CASE Exits \/ Dies
    BY <1>2, <1>8 DEF Exits, Dies, Crash, Constructed, Settled, NoPrograms,
                      EmptyMap
  <1>9. CASE Restarts
    <2>1. UNCHANGED <<loop, duty>> /\ ~up /\ loop = Idle
      BY <1>9 DEF Restarts, StartFresh, Recover, coordinator, loop_state,
                  Halfway
    <2>2. CASE StartFresh
      BY <1>1, <2>1, <2>2 DEF StartFresh, vars
    <2>3. CASE Recover
      BY <1>2, <2>1, <2>3, RecoverHalfway
    <2> QED BY <1>9, <2>2, <2>3 DEF Restarts
  <1>10. ASSUME NEW c, Joins(c) \/ GoesOn(c) \/ Ends(c)
         PROVE  Halfway'
    BY <1>1, <1>10 DEF Joins, StartWorker, StartAdmin, Connect, GoesOn,
                       WorkerStep, AskAgain, Ends, End, Keeps, process,
                       coordinator, loop_state, vars
  <1>11. CASE UNCHANGED fvars
    BY <1>1, <1>11 DEF fvars, pvars, coordinator, process, vars
  <1> QED BY <1>3, <1>4, <1>5, <1>6, <1>7, <1>8, <1>9, <1>10, <1>11
          DEF FNext, Thread

\* The loop opens no file between two calls of a handler.
LEMMA SettledDiskStep ==
  ASSUME LoopOK, SaversOK, Halfway, SettledDisk, [FNext]_fvars
  PROVE  SettledDisk'
  <1>1. RStep
    BY FleetSteps
  <1>2. DiskMove
    BY <1>1, DiskMoves
  <1>3. \/ save' = save
        \/ save' = [p \in Savers |-> NotSaving]
        \/ duty # NoDuty
    BY DEF FNext, Thread, Begins, Proceeds, Leaves, Exits, Dies, Crash, Saves,
           Restarts, StartFresh, Recover, Accepts, Serves, Shutdown, Joins,
           GoesOn, Ends, Keeps, NoDuty, fvars, pvars
  <1>4. ASSUME NEW p \in Savers, SaveOpen(p)
        PROVE  SettledImage(Image)
    <2>1. save'[p].pc = "write" /\ save[p].pc = "idle"
      BY <1>4 DEF SaveOpen, SaversOK
    <2>2. loop = Idle
      BY <1>3, <2>1 DEF NotSaving, Halfway
    <2> QED BY <2>2 DEF Halfway, InHandler, SettledImage, Image
  <1> QED BY <1>2, <1>4 DEF SettledDisk, DiskMove

HalfwayOK == LoopOK /\ NetworkOK /\ SaversOK /\ Halfway /\ SettledDisk

\* When the loop serves, no deployment is on its way: evaluate_offload and
\* the calls after it decide the same, and neither a death between two of
\* them nor a file that was saved leaves one that is.
THEOREM CreationIsWhole == FSpec => []NoneHalfway
  <1>1. FInit => HalfwayOK
    <2> SUFFICES ASSUME FInit PROVE HalfwayOK
      OBVIOUS
    <2>1. LoopOK /\ NetworkOK /\ SaversOK
      BY FleetStart DEF FleetOK, LinksOK
    <2>2. Halfway
      BY DEF FInit, PInit, Init, EmptyMap, Halfway, Settled, NoPrograms
    <2>3. SettledDisk
      BY DEF FInit, SettledDisk, NotSaving
    <2> QED BY <2>1, <2>2, <2>3 DEF HalfwayOK
  <1>2. HalfwayOK /\ [FNext]_fvars => HalfwayOK'
    BY FleetLoop, NetworkStep, FleetSteps, DiskMoves, HalfwayStep,
       SettledDiskStep DEF HalfwayOK
  <1>3. HalfwayOK => NoneHalfway
    BY DEF HalfwayOK, Halfway, InHandler, Settled, NoneHalfway, Serving
  <1> QED BY <1>1, <1>2, <1>3, PTL DEF FSpec

=============================================================================
