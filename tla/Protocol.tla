------------------------------ MODULE Protocol ------------------------------
(***************************************************************************)
(* The coordinator's loop (tools/dpu_fabric_coordinator.cpp) and the       *)
(* processes that connect to it: workers (tools/dpu_fabric_worker.cpp),    *)
(* which report a device and serve commands, and administrators, which     *)
(* ask for deployments.                                                    *)
(*                                                                         *)
(* One thread runs the loop: it accepts a connection, takes at most one    *)
(* frame from each, and handles it before the next.  A connection delivers *)
(* the frames that were sent, in order and whole, and then the end of the  *)
(* stream; when a process ends, frames it left are delivered or, with a    *)
(* reset, lost from some point on.  The engine calls of a deployment are   *)
(* steps of their own, as in Engine, although no other connection is       *)
(* served between them.                                                    *)
(***************************************************************************)
EXTENDS Eligibility

CONSTANTS
  Sockets,     \* the coordinator's file descriptors for connections
  DeviceOf     \* the DeviceRecord that the processes of a worker report

ASSUME ProtocolAssumption ==
  DeviceOf \in [Workers -> DeviceRecord]

VARIABLES
  conns,            \* the role of each connection, once accepted
  conn_worker,      \* the worker of a connection
  sock_by_worker,   \* the connection of a worker
  pending,          \* commands without a result
  cmd_seq,
  loop,             \* where the loop is in a handler, with its arguments
  peer,             \* the process at the other end of each socket
  backlog,          \* connections that wait to be accepted
  inbox, outbox     \* frames to the coordinator, to the process

coordinator == <<conns, conn_worker, sock_by_worker, pending, cmd_seq, loop>>
network == <<peer, backlog, inbox, outbox>>
pvars == <<vars, coordinator, network>>

\* The calls of CREATE_DEPLOYMENT after reserve_deployment, by the state each
\* leads to.  Fault: validate_deployment is left out.
Mut_Calls == <<"STAGING", "LOADED", "ACTIVATING", "ACTIVE">>

Calls == <<"STAGING", "LOADED", "VALIDATING", "ACTIVATING", "ACTIVE">>

Idle == [call |-> 0, deployment |-> 0, admin |-> 0]
Serving == loop = Idle

Open(c) == c \in DOMAIN conns \cup backlog

\* The entry of a socket that no process has, as it was before the first one.
Gone == [worker |-> Null, boot |-> Null, pc |-> "gone"]

Take(box, c) == [box EXCEPT ![c] = Tail(@)]
First(box, c, type) == box[c] # <<>> /\ Head(box[c]).type = type

\* write_frame to process c; to one that has ended it does nothing.
Sent(box, c, frame) ==
  IF peer[c].pc = "gone" THEN box ELSE [box EXCEPT ![c] = Append(@, frame)]

-----------------------------------------------------------------------------
(* The coordinator *)

\* main registers its services before the loop.
Startup ==
  /\ Serving
  /\ \E s \in Services : s \notin services /\ register_service(s)
  /\ UNCHANGED <<coordinator, network>>

Ready == Serving /\ services = Services

Accept(c) ==
  /\ Ready
  /\ c \in backlog
  /\ backlog' = backlog \ {c}
  /\ conns' = Put(conns, c, "UNKNOWN")
  /\ UNCHANGED <<vars, conn_worker, sock_by_worker, pending, cmd_seq, loop,
                 peer, inbox, outbox>>

\* The first frame of a connection is taken: one of type `type`, with the
\* connection in one of `roles`.
Frame(c, roles, type) ==
  /\ Ready
  /\ c \in DOMAIN conns
  /\ conns[c] \in roles
  /\ First(inbox, c, type)
  /\ inbox' = Take(inbox, c)
  /\ UNCHANGED <<peer, backlog>>

\* A HELLO with another boot id than the registered one closes the
\* connection; the same one again is idempotent.
Hello(c) ==
  LET f == Head(inbox[c])
      known == f.worker \in DOMAIN workers
      stale == known /\ workers[f.worker] # f.boot
  IN  /\ Frame(c, {"UNKNOWN"}, "HELLO")
      /\ IF known THEN UNCHANGED vars ELSE register_worker(f.worker, f.boot)
      /\ IF stale
         THEN /\ conns' = Erase(conns, c)
              /\ UNCHANGED <<conn_worker, sock_by_worker, outbox>>
         ELSE /\ conns' = [conns EXCEPT ![c] = "WORKER"]
              /\ conn_worker' = Put(conn_worker, c, f.worker)
              /\ sock_by_worker' = Put(sock_by_worker, f.worker, c)
              /\ outbox' = Sent(outbox, c, [type |-> "ACK"])
      /\ UNCHANGED <<pending, cmd_seq, loop>>

RegisterDevice(c) ==
  LET rec == [Head(inbox[c]).device EXCEPT !.owning_worker = conn_worker[c]]
  IN  /\ Frame(c, {"WORKER"}, "REGISTER_DEVICE")
      /\ IF rec.device_id \in DOMAIN devices THEN update_device(rec)
         ELSE register_device(rec)
      /\ UNCHANGED <<coordinator, outbox>>

\* Evidence for the device, from whichever worker; fresh evidence makes it
\* READY.  The record it is written into is the present one.
PublishEvidence(c) ==
  LET f == Head(inbox[c])
  IN  /\ Frame(c, {"WORKER"}, "PUBLISH_EVIDENCE")
      /\ IF f.device_id \in DOMAIN devices
         THEN update_device([devices[f.device_id] EXCEPT
                               !.evidence_gen = f.evidence_gen,
                               !.evidence_fresh = TRUE,
                               !.lifecycle = "READY"])
         ELSE UNCHANGED vars
      /\ UNCHANGED <<coordinator, outbox>>

Result(c) ==
  /\ Frame(c, {"WORKER"}, "RESULT")
  /\ pending' = pending \ {Head(inbox[c]).cmd}
  /\ UNCHANGED <<vars, conns, conn_worker, sock_by_worker, cmd_seq, loop,
                 outbox>>

\* CREATE_DEPLOYMENT: evaluate, then reserve.  Any first frame but a HELLO
\* makes the connection an administrator's.
Create(c) ==
  LET ask == Head(inbox[c]).ask
      req == [service |-> ask.service,
              required_program |-> ask.required_program,
              resource |-> ask.resource]
  IN  /\ Frame(c, {"UNKNOWN", "ADMIN"}, "CREATE_DEPLOYMENT")
      /\ conns' = [conns EXCEPT ![c] = "ADMIN"]
      /\ \E d \in {evaluate_offload(ask).selected} :
           IF d = Null THEN UNCHANGED vars ELSE reserve_deployment(d, req)
      /\ IF deployments' = deployments
         THEN /\ outbox' = Sent(outbox, c, [type |-> "RESULT"])
              /\ UNCHANGED loop
         ELSE /\ loop' = [call |-> 1, deployment |-> id_seq, admin |-> c]
              /\ UNCHANGED outbox
      /\ UNCHANGED <<conn_worker, sock_by_worker, pending, cmd_seq>>

\* The engine call by the state it leads to, and when it does not throw.
Call(x, to) ==
  CASE to = "STAGING" -> stage_deployment(x)
    [] to = "LOADED" -> load_deployment(x)
    [] to = "VALIDATING" -> validate_deployment(x)
    [] to = "ACTIVATING" -> activate_deployment(x)
    [] to = "ACTIVE" -> commit_deployment(x)

Legal(x, to) ==
  LET dep == deployments[x]
  IN  IF to = "ACTIVE"
      THEN /\ dep.state \in Committable
           /\ is_ready_for_offload(dep.device)
           /\ dep.program # Null =>
                ProgramCurrent(dep.program, dep.program_gen)
      ELSE valid_deployment_transition(dep.state, to)

\* The administrator is answered, and the worker that owns the device, when
\* it is connected, is sent a command.
Deployed(x, c) ==
  LET w == devices[deployments[x].device].owning_worker
      told == Sent(outbox, c, [type |-> "RESULT"])
  IN  IF w \in DOMAIN sock_by_worker
      THEN /\ outbox' = Sent(told, sock_by_worker[w],
                             [type |-> "COMMAND", cmd |-> cmd_seq])
           /\ pending' = pending \cup {cmd_seq}
           /\ cmd_seq' = cmd_seq + 1
      ELSE outbox' = told /\ UNCHANGED <<pending, cmd_seq>>

\* The next call of the handler.  One that throws ends it with an error, and
\* the deployment stays as it is.
Proceed ==
  LET x == loop.deployment
      to == Calls[loop.call]
      last == loop.call = Len(Calls)
  IN  /\ ~Serving
      /\ IF Legal(x, to) THEN Call(x, to) ELSE UNCHANGED vars
      /\ loop' = IF Legal(x, to) /\ ~last
                 THEN [loop EXCEPT !.call = @ + 1] ELSE Idle
      /\ IF ~Legal(x, to)
         THEN /\ outbox' = Sent(outbox, loop.admin, [type |-> "RESULT"])
              /\ UNCHANGED <<pending, cmd_seq>>
         ELSE IF last THEN Deployed(x, loop.admin)
         ELSE UNCHANGED <<outbox, pending, cmd_seq>>
      /\ UNCHANGED <<conns, conn_worker, sock_by_worker, peer, backlog, inbox>>

\* Fault: the connection is forgotten and its worker is not.
Mut_CloseConn(c) ==
  /\ Ready
  /\ c \in DOMAIN conns
  /\ peer[c].pc = "gone"
  /\ inbox[c] = <<>>
  /\ conns' = Erase(conns, c)
  /\ conn_worker' = Erase(conn_worker, c)
  /\ peer' = [peer EXCEPT ![c] = Gone]
  /\ UNCHANGED <<vars, sock_by_worker, pending, cmd_seq, loop, backlog, inbox,
                 outbox>>

\* Fault: the socket keeps its worker, for the next connection that gets it.
Mut_CloseConnKeeps(c) ==
  /\ Ready
  /\ c \in DOMAIN conns
  /\ peer[c].pc = "gone"
  /\ inbox[c] = <<>>
  /\ IF c \in DOMAIN conn_worker
     THEN /\ mark_worker_lost(conn_worker[c])
          /\ sock_by_worker' = Erase(sock_by_worker, conn_worker[c])
     ELSE UNCHANGED <<vars, sock_by_worker>>
  /\ conns' = Erase(conns, c)
  /\ peer' = [peer EXCEPT ![c] = Gone]
  /\ UNCHANGED <<conn_worker, pending, cmd_seq, loop, backlog, inbox, outbox>>

\* The end of the stream: close_conn.
CloseConn(c) ==
  /\ Ready
  /\ c \in DOMAIN conns
  /\ peer[c].pc = "gone"
  /\ inbox[c] = <<>>
  /\ IF c \in DOMAIN conn_worker
     THEN /\ mark_worker_lost(conn_worker[c])
          /\ sock_by_worker' = Erase(sock_by_worker, conn_worker[c])
     ELSE UNCHANGED <<vars, sock_by_worker>>
  /\ conns' = Erase(conns, c)
  /\ conn_worker' = Erase(conn_worker, c)
  /\ peer' = [peer EXCEPT ![c] = Gone]
  /\ UNCHANGED <<pending, cmd_seq, loop, backlog, inbox, outbox>>

-----------------------------------------------------------------------------
(* The processes *)

\* A socket that neither side uses.
Free(c) == peer[c].pc = "gone" /\ ~Open(c)

Connect(c, process, frame) ==
  /\ Free(c)
  /\ peer' = [peer EXCEPT ![c] = process]
  /\ inbox' = [inbox EXCEPT ![c] = <<frame>>]
  /\ outbox' = [outbox EXCEPT ![c] = <<>>]
  /\ backlog' = backlog \cup {c}
  /\ UNCHANGED <<vars, coordinator>>

\* A boot id names one process: no two that use it are around together.
StartWorker(c, w, b) ==
  /\ \A e \in Sockets : Free(e) \/ peer[e].boot # b
  /\ Connect(c, [worker |-> w, boot |-> b, pc |-> "hello"],
             [type |-> "HELLO", worker |-> w, boot |-> b])

\* A deployment draws three ids: there are some left for another one when
\* those of the requests on their way are set aside.
RoomToAsk ==
  LET sent == {e \in Sockets : First(inbox, e, "CREATE_DEPLOYMENT")}
  IN  Serving /\ id_seq + 3 * Cardinality(sent) + 2 <= MaxId

StartAdmin(c, ask) ==
  /\ RoomToAsk
  /\ Connect(c, [worker |-> Null, boot |-> Null, pc |-> "wait"],
             [type |-> "CREATE_DEPLOYMENT", ask |-> ask])

\* Process c goes from `from` to `to` and sends a frame.
Sends(c, from, to, frame) ==
  /\ peer[c].pc = from
  /\ Open(c)
  /\ peer' = [peer EXCEPT ![c].pc = to]
  /\ inbox' = [inbox EXCEPT ![c] = Append(@, frame)]

\* An administrator that has its answer asks again.
AskAgain(c, ask) ==
  /\ RoomToAsk
  /\ First(outbox, c, "RESULT")
  /\ Sends(c, "wait", "wait", [type |-> "CREATE_DEPLOYMENT", ask |-> ask])
  /\ outbox' = Take(outbox, c)
  /\ UNCHANGED <<vars, coordinator, backlog>>

WorkerStep(c) ==
  LET rec == DeviceOf[peer[c].worker]
  IN  /\ \/ /\ peer[c].pc = "hello"
           /\ First(outbox, c, "ACK")
           /\ peer' = [peer EXCEPT ![c].pc = "register"]
           /\ outbox' = Take(outbox, c)
           /\ UNCHANGED inbox
        \/ /\ Sends(c, "register", "publish",
                    [type |-> "REGISTER_DEVICE", device |-> rec])
           /\ UNCHANGED outbox
        \/ /\ Sends(c, "publish", "serve",
                    [type |-> "PUBLISH_EVIDENCE", device_id |-> rec.device_id,
                     evidence_gen |-> rec.evidence_gen])
           /\ UNCHANGED outbox
        \/ /\ First(outbox, c, "COMMAND")
           /\ Sends(c, "serve", "serve",
                    [type |-> "RESULT", cmd |-> Head(outbox[c]).cmd])
           /\ outbox' = Take(outbox, c)
      /\ UNCHANGED <<vars, coordinator, backlog>>

\* A process is killed, a worker was idle for its five seconds, or an
\* administrator has its answer: at any time.  A reset takes the frames that
\* were not read with it, or some of them.
End(c) ==
  /\ peer[c].pc # "gone"
  /\ peer' = [peer EXCEPT ![c] = IF Open(c) THEN [@ EXCEPT !.pc = "gone"]
                                 ELSE Gone]
  /\ outbox' = [outbox EXCEPT ![c] = <<>>]
  /\ \E n \in 0 .. Len(inbox[c]) :
       inbox' = [inbox EXCEPT ![c] = SubSeq(@, 1, n)]
  /\ UNCHANGED <<vars, coordinator, backlog>>

-----------------------------------------------------------------------------

PInit ==
  /\ Init
  /\ conns = EmptyMap
  /\ conn_worker = EmptyMap
  /\ sock_by_worker = EmptyMap
  /\ pending = {}
  /\ cmd_seq = 1
  /\ loop = Idle
  /\ peer = [c \in Sockets |-> Gone]
  /\ backlog = {}
  /\ inbox = [c \in Sockets |-> <<>>]
  /\ outbox = [c \in Sockets |-> <<>>]

\* One turn of the loop for connection c.
Serve(c) ==
  \/ Hello(c)
  \/ RegisterDevice(c)
  \/ PublishEvidence(c)
  \/ Result(c)
  \/ Create(c)
  \/ CloseConn(c)

PNext ==
  \/ Startup
  \/ Proceed
  \/ \E c \in Sockets :
       \/ Accept(c)
       \/ Serve(c)
       \/ WorkerStep(c)
       \/ End(c)
       \/ \E w \in Workers, b \in WorkerBoots : StartWorker(c, w, b)
       \/ \E ask \in Asks : StartAdmin(c, ask) \/ AskAgain(c, ask)

\* The loop does not stop and gives every connection its turn, a running
\* worker does what it is there for, and a process notices that its
\* connection was closed.  Processes need not start, stay or end.
Fairness ==
  /\ WF_pvars(Startup)
  /\ WF_pvars(Proceed)
  /\ \A c \in Sockets :
       /\ WF_pvars(Accept(c))
       /\ WF_pvars(Serve(c))
       /\ WF_pvars(WorkerStep(c))
       /\ WF_pvars(~Open(c) /\ End(c))

PSpec == PInit /\ [][PNext]_pvars /\ Fairness

-----------------------------------------------------------------------------
(* Properties *)

\* A device whose evidence counts belongs to a worker that is connected, as
\* far as the loop knows: what a worker sent before it ended cannot revive
\* the device after the loss was handled, and a HELLO that is refused takes
\* nothing from the worker that is there.
ReadyIsConnected ==
  \A d \in DOMAIN devices :
    is_ready_for_offload(d) =>
      \E c \in DOMAIN conn_worker :
        /\ conn_worker[c] = devices[d].owning_worker
        /\ conn_worker[c] \in DOMAIN sock_by_worker
        /\ sock_by_worker[conn_worker[c]] = c

\* CREATE_DEPLOYMENT is all or nothing: when the loop serves, no deployment
\* is on its way, since none of the calls after a successful evaluation
\* throws.
NoneHalfway ==
  Serving =>
    \A x \in DOMAIN deployments :
      deployments[x].state \in {"ACTIVE", "REVALIDATION_REQUIRED"}

\* A worker that is gone for good leaves no device that can be selected,
\* whatever it had sent before.
LossIsFenced ==
  \A w \in Workers :
    <>[](\A c \in Sockets : peer[c].worker = w => peer[c].pc = "gone")
    => <>[](\A d \in DOMAIN devices :
              devices[d].owning_worker = w => ~is_ready_for_offload(d))

\* A worker process that stays has its device ready in the end, whatever
\* other processes of this worker come, are refused and go.
StayingIsReady ==
  \A c \in Sockets, w \in Workers :
    <>[](peer[c].worker = w /\ peer[c].pc # "gone")
    => <>[](is_ready_for_offload(DeviceOf[w].device_id))
=============================================================================
