-------------------------------- MODULE Fleet --------------------------------
(***************************************************************************)
(* The coordinator process as a whole: the loop of Protocol, which saves   *)
(* the engine between two of its turns, and the death and restart of       *)
(* Restart, which cut every connection (tools/dpu_fabric_coordinator.cpp). *)
(*                                                                         *)
(* One thread serves and saves.  persist_if runs after a creation was      *)
(* answered, before SHUTDOWN is answered and after the loop: the processes *)
(* at the other ends go on meanwhile, and a kill may come between any two  *)
(* steps.  The next coordinator finds the state file and no connections,   *)
(* and every process finds its connection closed.                          *)
(***************************************************************************)
EXTENDS Protocol, Restart

VARIABLES
  duty,      \* what the loop has to save for, and the administrator it is for
  running,   \* main's variable: no SHUTDOWN was handled yet
  turns      \* after it was, the connections that the last pass still polls

fvars == <<pvars, disk, process, save, duty, running, turns>>

NoDuty == [why |-> "none", admin |-> 0]
loop_state == <<duty, running, turns>>

\* The thread is between two turns of the loop, or inside CREATE_DEPLOYMENT.
AtLoop == up /\ duty = NoDuty

\* An engine call or a protocol step beside which nothing is saved.
Keeps == UNCHANGED <<disk, process, save>>

-----------------------------------------------------------------------------
(* The loop *)

\* main registers its service; a recovered one is there already.
Begins == AtLoop /\ Startup /\ Keeps /\ UNCHANGED loop_state

Accepts(c) == AtLoop /\ running /\ Accept(c) /\ Keeps /\ UNCHANGED loop_state

\* The pass in which SHUTDOWN was handled goes on to the connections after
\* it, in the order of the map, and is the last one.
Serves(c) ==
  /\ AtLoop
  /\ running \/ c \in turns
  /\ Serve(c)
  /\ turns' = {e \in turns : e > c}
  /\ Keeps
  /\ UNCHANGED <<duty, running>>

\* A creation is saved after it was answered.
Proceeds ==
  /\ AtLoop
  /\ Proceed
  /\ duty' = IF /\ loop' = Idle
                /\ deployments'[loop.deployment].state = "ACTIVE"
             THEN [why |-> "created", admin |-> loop.admin] ELSE NoDuty
  /\ Keeps
  /\ UNCHANGED <<running, turns>>

\* SHUTDOWN is answered after the state was saved.
Shutdown(c) ==
  /\ AtLoop
  /\ running \/ c \in turns
  /\ Frame(c, {"UNKNOWN", "ADMIN"}, "SHUTDOWN")
  /\ conns' = [conns EXCEPT ![c] = "ADMIN"]
  /\ duty' = [why |-> "shutdown", admin |-> c]
  /\ Keeps
  /\ UNCHANGED <<vars, conn_worker, sock_by_worker, pending, cmd_seq, loop,
                 outbox, running, turns>>

\* The last pass is over: what it did is saved too.
Leaves ==
  /\ AtLoop
  /\ Serving
  /\ ~running
  /\ duty' = [why |-> "exit", admin |-> 0]
  /\ Keeps
  /\ UNCHANGED <<pvars, running, turns>>

\* What the loop does when a save has ended, well or not.
Saved ==
  \/ /\ duty.why = "created"
     /\ duty' = NoDuty
     /\ UNCHANGED <<outbox, running, turns>>
  \/ /\ duty.why = "shutdown"
     /\ outbox' = Sent(outbox, duty.admin, [type |-> "RESULT"])
     /\ running' = FALSE
     /\ turns' = {e \in IF running THEN DOMAIN conns ELSE turns :
                    e > duty.admin}
     /\ duty' = NoDuty
  \/ /\ duty.why = "exit"
     /\ duty' = [duty EXCEPT !.why = "ended"]
     /\ UNCHANGED <<outbox, running, turns>>

Saves(p) ==
  /\ duty.why \in {"created", "shutdown", "exit"}
  /\ \/ SaveOpen(p)
     \/ SaveWrite(p)
     \/ SaveFails(p)
     \/ SaveRemove(p)
     \/ SaveRename(p)
  /\ IF save'[p].pc = "idle" THEN Saved ELSE UNCHANGED <<loop_state, outbox>>
  /\ UNCHANGED <<coordinator, peer, backlog, inbox>>

-----------------------------------------------------------------------------
(* Death and restart *)

\* The process is gone, and with it its side of every connection: what was
\* sent to it is lost, and the others will read the end of the stream.
Dies ==
  /\ Crash
  /\ conns' = EmptyMap
  /\ conn_worker' = EmptyMap
  /\ sock_by_worker' = EmptyMap
  /\ pending' = {}
  /\ cmd_seq' = 1
  /\ loop' = Idle
  /\ backlog' = {}
  /\ inbox' = [c \in Sockets |-> <<>>]
  /\ duty' = NoDuty
  /\ running' = TRUE
  /\ turns' = {}
  /\ peer' = [c \in Sockets |-> IF peer[c].pc = "gone" THEN Gone ELSE peer[c]]
  /\ UNCHANGED outbox

\* main returns.
Exits == duty.why = "ended" /\ Dies

\* A fresh coordinator, or one that recovers, accepts connections again.
Restarts ==
  /\ StartFresh \/ Recover
  /\ UNCHANGED <<coordinator, network, loop_state>>

-----------------------------------------------------------------------------
(* The processes, which need somebody who listens to connect *)

Joins(c) ==
  /\ up
  /\ \/ \E w \in Workers, b \in WorkerBoots : StartWorker(c, w, b)
     \/ \E ask \in Asks : StartAdmin(c, ask)
     \/ /\ epoch < MaxEpoch
        /\ Connect(c, [worker |-> Null, boot |-> Null, pc |-> "wait"],
                   [type |-> "SHUTDOWN"])
  /\ Keeps
  /\ UNCHANGED loop_state

GoesOn(c) ==
  /\ WorkerStep(c) \/ \E ask \in Asks : AskAgain(c, ask)
  /\ Keeps
  /\ UNCHANGED loop_state

Ends(c) == End(c) /\ Keeps /\ UNCHANGED loop_state

-----------------------------------------------------------------------------

FInit ==
  /\ PInit
  /\ up = TRUE
  /\ weights = PolicyWeights
  /\ file = Null
  /\ tmp = Null
  /\ save = [p \in Savers |-> NotSaving]
  /\ boot_epoch = 1
  /\ duty = NoDuty
  /\ running = TRUE
  /\ turns = {}

\* What the coordinator's one thread does next, whatever the others do.
Thread == Begins \/ Proceeds \/ Leaves \/ Exits \/ \E p \in Savers : Saves(p)

FNext ==
  \/ Thread
  \/ Dies
  \/ Restarts
  \/ \E c \in Sockets :
       \/ Accepts(c)
       \/ Serves(c)
       \/ Shutdown(c)
       \/ Joins(c)
       \/ GoesOn(c)
       \/ Ends(c)

\* As in Protocol.  Nobody has to start the coordinator again.
FFairness ==
  /\ WF_fvars(Thread)
  /\ \A c \in Sockets :
       /\ WF_fvars(Accepts(c) \/ Serves(c) \/ Shutdown(c))
       /\ WF_fvars(/\ WorkerStep(c) \/ (~Open(c) /\ End(c))
                   /\ Keeps /\ UNCHANGED loop_state)

FSpec == FInit /\ [][FNext]_fvars /\ FFairness
=============================================================================
