------------------------------ MODULE Transport ------------------------------
(***************************************************************************)
(* Frames over TCP (src/mp_transport.cpp, include/dpufabric/protocol.h):   *)
(* processes that write frames, and the coordinator's one thread, which    *)
(* accepts connections and reads at most one frame from each in turn.      *)
(*                                                                         *)
(* A stream carries cells: a frame is HeaderSize cells of header, the last *)
(* of which tells the length of the payload, and the cells of its payload. *)
(* They arrive a few at a time through a bounded buffer; a process may be  *)
(* killed with half a frame sent, and a reset may take what was not read.  *)
(***************************************************************************)
EXTENDS Naturals, Sequences, SequencesExt

CONSTANTS
  Connections,   \* their descriptors, in the order of the map `conns`
  Frames,
  HeaderSize,
  PayloadSize,   \* the length of a frame's payload
  BufferSize,    \* the cells of a stream that fit between the processes
  MaxFrames      \* bound on the frames of a connection

ASSUME TransportAssumption ==
  /\ Connections \subseteq Nat \ {0}
  /\ HeaderSize \in Nat \ {0}
  /\ PayloadSize \in [Frames -> Nat]
  /\ BufferSize \in Nat \ {0}

VARIABLES
  peer,        \* per connection: no process, one that runs, one that ended
  sending,     \* what its send_n still has to send
  wire,        \* cells on their way
  backlog,     \* connections that wait to be accepted, in order
  conns,       \* accepted connections
  at,          \* the one whose turn it is, 0 when it is accept's
  got,         \* what recv_frame has of the frame it reads
  delivered,   \* frames that recv_frame returned
  thrown       \* recv_frame threw, and nobody catches

processes == <<peer, sending>>
loop == <<backlog, conns, at, got, delivered, thrown>>
tvars == <<processes, wire, loop>>

\* encode
encode(f) ==
  [i \in 1 .. HeaderSize + PayloadSize[f] |-> [frame |-> f, place |-> i]]

-----------------------------------------------------------------------------
(* The processes that send *)

Connects(c) ==
  /\ peer[c] = "none"
  /\ peer' = [peer EXCEPT ![c] = "up"]
  /\ delivered' = [delivered EXCEPT ![c] = <<>>]
  /\ backlog' = Append(backlog, c)
  /\ UNCHANGED <<sending, wire, conns, at, got, thrown>>

\* Of the cells that arrived, those that complete a frame tell which frames
\* did.
Complete(cells) ==
  LET upto[n \in 0 .. Len(cells)] ==
        IF n = 0 THEN <<>>
        ELSE IF cells[n].place = HeaderSize + PayloadSize[cells[n].frame]
             THEN Append(upto[n - 1], cells[n].frame)
             ELSE upto[n - 1]
  IN  upto[Len(cells)]

\* Frames that arrived and were not returned.
Arrived(c) == Complete(IF at = c THEN got \o wire[c] ELSE wire[c])

\* write_frame begins.
Writes(c, f) ==
  /\ peer[c] = "up"
  /\ sending[c] = <<>>
  /\ Len(delivered[c]) + Len(Arrived(c)) < MaxFrames
  /\ sending' = [sending EXCEPT ![c] = encode(f)]
  /\ UNCHANGED <<peer, wire, loop>>

\* The loop of send_n, as far as one cell of it is on its way.
Sends(c) ==
  /\ peer[c] = "up"
  /\ sending[c] # <<>>
  /\ Len(wire[c]) < BufferSize
  /\ wire' = [wire EXCEPT ![c] = Append(@, Head(sending[c]))]
  /\ sending' = [sending EXCEPT ![c] = Tail(@)]
  /\ UNCHANGED <<peer, loop>>

\* The process exits or is killed, wherever it is.
Dies(c) ==
  /\ peer[c] = "up"
  /\ peer' = [peer EXCEPT ![c] = "gone"]
  /\ sending' = [sending EXCEPT ![c] = <<>>]
  /\ \E n \in 0 .. Len(wire[c]) :
       wire' = [wire EXCEPT ![c] = SubSeq(@, 1, n)]
  /\ UNCHANGED loop

-----------------------------------------------------------------------------
(* The coordinator's loop *)

\* The connection after c in `conns`, or accept's turn.
After(c, open) ==
  LET later == {e \in open : e > c}
  IN  IF later = {} THEN 0 ELSE CHOOSE e \in later : \A x \in later : e <= x

\* accept(0): the connection that waits longest, if any.
Accepts ==
  /\ ~thrown
  /\ at = 0
  /\ \/ /\ backlog = <<>>
        /\ UNCHANGED <<backlog, conns>>
     \/ /\ backlog # <<>>
        /\ conns' = conns \cup {Head(backlog)}
        /\ backlog' = Tail(backlog)
  /\ at' = After(0, conns')
  /\ UNCHANGED <<processes, wire, got, delivered, thrown>>

\* The length in a header.  Out of step, what stands there may be anything;
\* decode refuses the frame in any case.
payload_len(cells) ==
  IF cells[HeaderSize].place = HeaderSize
  THEN PayloadSize[cells[HeaderSize].frame] ELSE 0

\* Fault: a first read that is short is taken for the header.
Mut_Missing(cells) ==
  IF cells = <<>> THEN HeaderSize
  ELSE IF Len(cells) < HeaderSize THEN 0
  ELSE HeaderSize + payload_len(cells) - Len(cells)

\* How much of the header, or else of the payload, recv_frame still reads.
Missing(cells) ==
  IF Len(cells) < HeaderSize THEN HeaderSize - Len(cells)
  ELSE HeaderSize + payload_len(cells) - Len(cells)

\* decode: exactly one frame, by its magic, its length and its checksum.
decodes(cells) == \E f \in Frames : cells = encode(f)

\* recv, whether it is the probe or in recv_n, returns what is there, up to
\* what was asked for.  The frame that is complete is returned and the loop
\* goes on to the next connection, or decode throws.
Reads(c) ==
  LET n == IF Missing(got) < Len(wire[c]) THEN Missing(got) ELSE Len(wire[c])
      cells == got \o SubSeq(wire[c], 1, n)
      whole == Missing(cells) = 0
  IN  /\ ~thrown
      /\ at = c
      /\ wire[c] # <<>>
      /\ wire' = [wire EXCEPT ![c] = SubSeq(@, n + 1, Len(@))]
      /\ got' = IF whole THEN <<>> ELSE cells
      /\ at' = IF whole THEN After(c, conns) ELSE c
      /\ delivered' = IF whole /\ decodes(cells)
                      THEN [delivered EXCEPT ![c] = Append(@, cells[1].frame)]
                      ELSE delivered
      /\ thrown' = (whole /\ ~decodes(cells))
      /\ UNCHANGED <<processes, backlog, conns>>

\* TIMEOUT: nothing to read, and no frame begun.
Skips(c) ==
  /\ ~thrown
  /\ at = c
  /\ got = <<>>
  /\ wire[c] = <<>>
  /\ peer[c] = "up"
  /\ at' = After(c, conns)
  /\ UNCHANGED <<processes, wire, backlog, conns, got, delivered, thrown>>

\* close_conn and conns.erase
Close(c) ==
  /\ conns' = conns \ {c}
  /\ peer' = [peer EXCEPT ![c] = "none"]
  /\ wire' = [wire EXCEPT ![c] = <<>>]
  /\ got' = <<>>
  /\ at' = After(c, conns)
  /\ UNCHANGED <<sending, backlog, delivered, thrown>>

\* Fault: a process that has ended is closed without reading on.
Mut_Closes(c) == ~thrown /\ at = c /\ peer[c] = "gone" /\ Close(c)

\* Fault: the end of the stream in the middle of a frame goes unnoticed.
Mut_ClosesBetween(c) ==
  /\ ~thrown
  /\ at = c
  /\ got = <<>>
  /\ wire[c] = <<>>
  /\ peer[c] = "gone"
  /\ Close(c)

\* CLOSED or ERR: the end of the stream, between frames or within one.
Closes(c) ==
  /\ ~thrown
  /\ at = c
  /\ wire[c] = <<>>
  /\ peer[c] = "gone"
  /\ Close(c)

-----------------------------------------------------------------------------

TInit ==
  /\ peer = [c \in Connections |-> "none"]
  /\ sending = [c \in Connections |-> <<>>]
  /\ wire = [c \in Connections |-> <<>>]
  /\ backlog = <<>>
  /\ conns = {}
  /\ at = 0
  /\ got = <<>>
  /\ delivered = [c \in Connections |-> <<>>]
  /\ thrown = FALSE

Thread == Accepts \/ \E c \in Connections : Reads(c) \/ Skips(c) \/ Closes(c)

TNext ==
  \/ Thread
  \/ \E c \in Connections :
       \/ Connects(c)
       \/ Sends(c)
       \/ Dies(c)
       \/ \E f \in Frames : Writes(c, f)

\* The coordinator runs, and so does a process that has begun to send: no
\* process stops in the middle of a frame and lives on.
TFairness == WF_tvars(Thread) /\ \A c \in Connections : WF_tvars(Sends(c))

TSpec == TInit /\ [][TNext]_tvars /\ TFairness

-----------------------------------------------------------------------------
(* Properties *)

\* recv_frame never throws at a peer that writes frames, however the stream
\* is cut into reads: the uncaught exception would end the coordinator.
NeverThrows == ~thrown

\* Connections behave as FrameChannel says.
Channel ==
  INSTANCE FrameChannel WITH
    transit <- [c \in Connections |-> Arrived(c)]

ImplementsChannel == Channel!CSpec

\* One slow or dying connection does not keep the others from being served:
\* a frame that arrived is returned, unless a reset takes it.
ArrivedIsDelivered ==
  \A c \in Connections, n \in 1 .. MaxFrames :
    Len(delivered[c]) + Len(Arrived(c)) >= n
      ~> \/ Len(delivered[c]) >= n
         \/ Len(delivered[c]) + Len(Arrived(c)) < n
=============================================================================
