---------------------------- MODULE FrameChannel -----------------------------
(***************************************************************************)
(* What the coordinator's loop may count on of a connection, and what      *)
(* Protocol takes for granted: frames arrive whole, in the order they were *)
(* sent, and before the end of the stream, unless a reset takes the last   *)
(* of them away.                                                           *)
(***************************************************************************)
EXTENDS Naturals, Sequences

CONSTANTS Connections, Frames

VARIABLES
  peer,       \* per connection: no process, one that runs, one that ended
  transit,    \* frames that were sent and not handed out
  delivered   \* frames that were handed out, in order

channel == <<peer, transit, delivered>>

Connect(c) ==
  /\ peer[c] = "none"
  /\ peer' = [peer EXCEPT ![c] = "up"]
  /\ delivered' = [delivered EXCEPT ![c] = <<>>]
  /\ UNCHANGED transit

Send(c, f) ==
  /\ peer[c] = "up"
  /\ transit' = [transit EXCEPT ![c] = Append(@, f)]
  /\ UNCHANGED <<peer, delivered>>

Deliver(c) ==
  /\ transit[c] # <<>>
  /\ transit' = [transit EXCEPT ![c] = Tail(@)]
  /\ delivered' = [delivered EXCEPT ![c] = Append(@, Head(transit[c]))]
  /\ UNCHANGED peer

\* The process ends; a reset takes frames away, the last ones first.
End(c) ==
  /\ peer[c] = "up"
  /\ peer' = [peer EXCEPT ![c] = "gone"]
  /\ \E n \in 0 .. Len(transit[c]) :
       transit' = [transit EXCEPT ![c] = SubSeq(@, 1, n)]
  /\ UNCHANGED delivered

\* The end of the stream comes after the last frame.
Close(c) ==
  /\ peer[c] = "gone"
  /\ transit[c] = <<>>
  /\ peer' = [peer EXCEPT ![c] = "none"]
  /\ UNCHANGED <<transit, delivered>>

CInit ==
  /\ peer = [c \in Connections |-> "none"]
  /\ transit = [c \in Connections |-> <<>>]
  /\ delivered = [c \in Connections |-> <<>>]

CNext ==
  \E c \in Connections :
    \/ Connect(c)
    \/ Deliver(c)
    \/ End(c)
    \/ Close(c)
    \/ \E f \in Frames : Send(c, f)

CSpec == CInit /\ [][CNext]_channel
=============================================================================
