--------------------------- MODULE TransportProofs ---------------------------
(***************************************************************************)
(* Proofs that recv_frame stays in step with the frames of a connection    *)
(* (Transport): however the stream is cut into reads, and wherever it is   *)
(* cut off, what is decoded is one whole frame; and that connections       *)
(* therefore are what FrameChannel says.                                   *)
(***************************************************************************)
EXTENDS Transport, SequenceTheorems, WellFoundedInduction, TLAPS

Size(f) == HeaderSize + PayloadSize[f]

Cell == {x \in [frame : Frames, place : Nat] : x.place \in 1 .. Size(x.frame)}

CellOf(f, i) == [frame |-> f, place |-> i]

-----------------------------------------------------------------------------
(* Streams in step *)

\* The place before the first cell of a stream.
Start == <<>>

\* A frame ends at place x of a stream.
AtEnd(x) == x = Start \/ x.place = Size(x.frame)

\* Cell y may come next after x: the first one of a frame, or the next one.
Follows(x, y) ==
  IF AtEnd(x) THEN y.place = 1 ELSE y = CellOf(x.frame, x.place + 1)

\* A stretch of a stream: from each cell on, its frame goes on to its end,
\* and then the next one begins.
Stretch(s) ==
  /\ s \in Seq(Cell)
  /\ \A i, j \in 1 .. Len(s) :
       /\ i <= j
       /\ s[i].place + (j - i) <= Size(s[i].frame)
       => s[j] = CellOf(s[i].frame, s[i].place + (j - i))
  /\ \A i \in 1 .. Len(s) - 1 : AtEnd(s[i]) => s[i + 1].place = 1

\* What recv_frame has is the beginning of one frame.
Begun(s) ==
  /\ s \in Seq(Cell)
  /\ s # <<>> =>
       /\ Len(s) < Size(s[1].frame)
       /\ \A i \in 1 .. Len(s) : s[i] = CellOf(s[1].frame, i)

\* What send_n still has to send is the end of one frame.
Left(s) ==
  /\ s \in Seq(Cell)
  /\ s # <<>> =>
       /\ AtEnd(s[Len(s)])
       /\ \A i \in 1 .. Len(s) :
            s[i] = CellOf(s[1].frame, s[1].place + (i - 1))

\* The last cell that was sent, where w is on its way and r was read last.
LastOf(w, r) == IF w # <<>> THEN w[Len(w)] ELSE r

\* What was read up to r, what is on its way and what a process p still
\* sends follow each other, to the end of a frame while p lives.
Aligned(p, s, w, r) ==
  /\ Stretch(w)
  /\ w # <<>> => Follows(r, w[1])
  /\ Left(s)
  /\ s # <<>> => Follows(LastOf(w, r), s[1])
  /\ s = <<>> /\ p = "up" => AtEnd(LastOf(w, r))
  /\ p # "up" => s = <<>>
  /\ p = "none" => w = <<>> /\ r = Start

\* The last cell of the frame that is being read.
LastRead(c) == IF at = c /\ got # <<>> THEN got[Len(got)] ELSE Start

InStep(c) == Aligned(peer[c], sending[c], wire[c], LastRead(c))

\* The invariant.
TransportOK ==
  /\ peer = [c \in Connections |-> peer[c]]
  /\ wire = [c \in Connections |-> wire[c]]
  /\ sending = [c \in Connections |-> sending[c]]
  /\ Begun(got)
  /\ at = 0 => got = <<>>
  /\ \A c \in Connections : InStep(c)
  /\ ~thrown

-----------------------------------------------------------------------------
(* Cells and frames *)

LEMMA SizeIsPositive ==
  ASSUME NEW f \in Frames
  PROVE  /\ Size(f) \in Nat \ {0}
         /\ HeaderSize <= Size(f)
BY TransportAssumption DEF Size

LEMMA CellFacts ==
  ASSUME NEW x \in Cell
  PROVE  /\ x.frame \in Frames
         /\ x.place \in 1 .. Size(x.frame)
         /\ x = CellOf(x.frame, x.place)
         /\ x # Start
<1>1. x \in [frame : Frames, place : Nat] /\ x.place \in 1 .. Size(x.frame)
  BY DEF Cell
<1>2. x = [frame |-> x.frame, place |-> x.place]
  BY <1>1
<1>3. DOMAIN x # {}
  BY <1>1
<1>4. DOMAIN Start = {}
  BY DEF Start
<1> QED
  BY <1>1, <1>2, <1>3, <1>4 DEF CellOf

LEMMA CellOfFacts ==
  ASSUME NEW f \in Frames, NEW i \in 1 .. Size(f)
  PROVE  /\ CellOf(f, i) \in Cell
         /\ CellOf(f, i).frame = f
         /\ CellOf(f, i).place = i
         /\ CellOf(f, i) # Start
         /\ AtEnd(CellOf(f, i)) <=> i = Size(f)
<1>1. /\ CellOf(f, i).frame = f
      /\ CellOf(f, i).place = i
  BY DEF CellOf
<1>2. i \in Nat
  BY SizeIsPositive
<1>3. CellOf(f, i) \in Cell
  BY <1>1, <1>2 DEF CellOf, Cell
<1>4. CellOf(f, i) # Start
  BY <1>3, CellFacts
<1> QED
  BY <1>1, <1>3, <1>4 DEF AtEnd

LEMMA EncodeFacts ==
  ASSUME NEW f \in Frames
  PROVE  /\ encode(f) \in Seq(Cell)
         /\ Len(encode(f)) = Size(f)
         /\ \A i \in 1 .. Size(f) : encode(f)[i] = CellOf(f, i)
         /\ encode(f) # <<>>
<1>1. encode(f) = [i \in 1 .. Size(f) |-> CellOf(f, i)]
  BY DEF encode, Size, CellOf
<1>2. Size(f) \in Nat \ {0}
  BY SizeIsPositive
<1>3. \A i \in 1 .. Size(f) : CellOf(f, i) \in Cell
  BY CellOfFacts
<1> HIDE DEF Size, CellOf, Cell, encode
<1>4. encode(f) \in Seq(Cell) /\ Len(encode(f)) = Size(f)
  BY <1>1, <1>2, <1>3
<1> QED
  BY <1>1, <1>2, <1>4

-----------------------------------------------------------------------------
(* Stretches of a stream *)

LEMMA StretchAppend ==
  ASSUME NEW s, Stretch(s), NEW y \in Cell,
         s # <<>> => Follows(s[Len(s)], y)
  PROVE  Stretch(Append(s, y))
<1> DEFINE t == Append(s, y)
<1>1. s \in Seq(Cell) /\ Len(s) \in Nat
  BY DEF Stretch
<1>2. /\ t \in Seq(Cell)
      /\ Len(t) = Len(s) + 1
      /\ \A i \in 1 .. Len(s) : t[i] = s[i]
      /\ t[Len(s) + 1] = y
  BY <1>1, AppendProperties
<1>3. \A i \in 1 .. Len(s) :
        /\ s[i] \in Cell
        /\ s[i].frame \in Frames
        /\ s[i].place \in 1 .. Size(s[i].frame)
        /\ Size(s[i].frame) \in Nat
  BY <1>1, CellFacts, SizeIsPositive
<1>4. y = CellOf(y.frame, y.place) /\ y.place \in Nat
  BY CellFacts, SizeIsPositive
<1> HIDE DEF t
<1>5. ASSUME NEW i \in 1 .. Len(t), NEW j \in 1 .. Len(t), i <= j,
             t[i].place + (j - i) <= Size(t[i].frame)
      PROVE  t[j] = CellOf(t[i].frame, t[i].place + (j - i))
  <2>1. CASE j <= Len(s)
    BY <1>1, <1>2, <1>5, <2>1 DEF Stretch
  <2>2. CASE i = Len(s) + 1
    <3>1. i = j /\ t[i] = y /\ t[j] = y
      BY <1>1, <1>2, <1>5, <2>2
    <3> QED
      BY <1>4, <3>1
  <2>3. CASE i <= Len(s) /\ j = Len(s) + 1
    <3>1. i \in 1 .. Len(s) /\ Len(s) \in 1 .. Len(s) /\ t[i] = s[i]
      BY <1>1, <1>2, <2>3
    <3> DEFINE f == s[i].frame
               k == s[i].place + (Len(s) - i)
    <3>2. f \in Frames /\ Size(f) \in Nat /\ s[i].place \in 1 .. Size(f)
      BY <1>3, <3>1
    <3>3. k \in 1 .. Size(f) /\ k < Size(f)
      BY <1>1, <1>5, <2>3, <3>1, <3>2
    <3>4. s[Len(s)] = CellOf(f, k)
      BY <1>1, <2>3, <3>1, <3>3 DEF Stretch
    <3>5. /\ ~AtEnd(s[Len(s)])
          /\ s[Len(s)].frame = f
          /\ s[Len(s)].place = k
      <4> HIDE DEF f, k
      <4> QED
        BY <3>2, <3>3, <3>4, CellOfFacts
    <3>6. s # <<>>
      BY <1>1, <3>1
    <3>7. y = CellOf(f, k + 1)
      BY <3>5, <3>6 DEF Follows
    <3>8. k + 1 = t[i].place + (j - i) /\ f = t[i].frame
      BY <1>1, <2>3, <3>1, <3>2
    <3>9. t[j] = y
      BY <1>2, <2>3
    <3> QED
      BY <3>7, <3>8, <3>9
  <2> QED
    BY <1>1, <1>2, <2>1, <2>2, <2>3
<1>6. ASSUME NEW i \in 1 .. Len(t) - 1, AtEnd(t[i])
      PROVE  t[i + 1].place = 1
  <2>1. CASE i < Len(s)
    <3>1. i \in 1 .. Len(s) - 1 /\ i + 1 \in 1 .. Len(s) /\ i \in 1 .. Len(s)
      BY <1>1, <1>2, <2>1
    <3> QED
      BY <1>2, <1>6, <3>1 DEF Stretch
  <2>2. CASE i = Len(s)
    <3>1. s # <<>> /\ t[i] = s[Len(s)] /\ t[i + 1] = y
      BY <1>1, <1>2, <2>2
    <3> QED
      BY <1>6, <3>1 DEF Follows
  <2> QED
    BY <1>1, <1>2, <2>1, <2>2
<1>7. Stretch(t)
  BY <1>2, <1>5, <1>6 DEF Stretch
<1> QED
  BY <1>7 DEF t

LEMMA StretchSub ==
  ASSUME NEW s, Stretch(s),
         NEW m \in Nat \ {0}, NEW n \in 0 .. Len(s), m <= n + 1
  PROVE  /\ Stretch(SubSeq(s, m, n))
         /\ Len(SubSeq(s, m, n)) = n + 1 - m
         /\ \A i \in 1 .. n + 1 - m : SubSeq(s, m, n)[i] = s[i + m - 1]
<1> DEFINE t == SubSeq(s, m, n)
<1>1. s \in Seq(Cell) /\ Len(s) \in Nat
  BY DEF Stretch
<1>2. /\ t \in Seq(Cell)
      /\ Len(t) = n + 1 - m
      /\ \A i \in 1 .. n + 1 - m : t[i] = s[i + m - 1]
  <2>1. \A i \in m .. n : s[i] \in Cell
    BY <1>1
  <2>2. /\ t \in Seq(Cell)
        /\ Len(t) = IF m <= n THEN n - m + 1 ELSE 0
        /\ \A i \in 1 .. n - m + 1 : t[i] = s[m + i - 1]
    BY <1>1, <2>1, SubSeqProperties
  <2> QED
    BY <1>1, <2>2
<1> HIDE DEF t
<1>3. ASSUME NEW i \in 1 .. Len(t), NEW j \in 1 .. Len(t), i <= j,
             t[i].place + (j - i) <= Size(t[i].frame)
      PROVE  t[j] = CellOf(t[i].frame, t[i].place + (j - i))
  <2>1. i \in 1 .. n + 1 - m /\ j \in 1 .. n + 1 - m
    BY <1>2
  <2>2. t[i] = s[i + m - 1] /\ t[j] = s[j + m - 1]
    BY <1>2, <2>1
  <2>3. /\ i + m - 1 \in 1 .. Len(s)
        /\ j + m - 1 \in 1 .. Len(s)
        /\ i + m - 1 <= j + m - 1
        /\ (j + m - 1) - (i + m - 1) = j - i
    BY <1>1, <1>3, <2>1
  <2> QED
    BY <1>3, <2>2, <2>3 DEF Stretch
<1>4. ASSUME NEW i \in 1 .. Len(t) - 1, AtEnd(t[i])
      PROVE  t[i + 1].place = 1
  <2>1. i \in 1 .. n - m
    BY <1>1, <1>2
  <2>2. i \in 1 .. n + 1 - m /\ i + 1 \in 1 .. n + 1 - m
    BY <1>1, <2>1
  <2>3. t[i] = s[i + m - 1] /\ t[i + 1] = s[(i + 1) + m - 1]
    BY <1>2, <2>2
  <2>4. /\ i + m - 1 \in 1 .. Len(s) - 1
        /\ (i + m - 1) + 1 = (i + 1) + m - 1
    BY <1>1, <2>1
  <2> QED
    BY <1>4, <2>3, <2>4 DEF Stretch
<1>5. Stretch(t)
  BY <1>2, <1>3, <1>4 DEF Stretch
<1> QED
  BY <1>2, <1>5 DEF t

LEMMA StretchFollows ==
  ASSUME NEW s, Stretch(s), NEW i \in 1 .. Len(s) - 1
  PROVE  Follows(s[i], s[i + 1])
<1>1. s \in Seq(Cell) /\ Len(s) \in Nat
  BY DEF Stretch
<1>2. i \in 1 .. Len(s) /\ i + 1 \in 1 .. Len(s) /\ i \in Nat
  BY <1>1
<1>3. s[i] \in Cell
  BY <1>1, <1>2
<1>4. CASE AtEnd(s[i])
  BY <1>4 DEF Stretch, Follows
<1>5. CASE ~AtEnd(s[i])
  <2>1. /\ s[i].place \in 1 .. Size(s[i].frame)
        /\ Size(s[i].frame) \in Nat
        /\ s[i].place # Size(s[i].frame)
    BY <1>3, <1>5, CellFacts, SizeIsPositive DEF AtEnd
  <2>2. (i + 1) - i = 1 /\ s[i].place + 1 <= Size(s[i].frame) /\ i <= i + 1
    BY <1>2, <2>1
  <2>3. s[i + 1] = CellOf(s[i].frame, s[i].place + 1)
    BY <1>2, <2>2 DEF Stretch
  <2> QED
    BY <1>5, <2>3 DEF Follows
<1> QED
  BY <1>4, <1>5

-----------------------------------------------------------------------------
(* Reading *)

\* g is the first cells of frame f.
FirstOf(g, f) ==
  /\ g \in Seq(Cell)
  /\ Len(g) <= Size(f)
  /\ \A i \in 1 .. Len(g) : g[i] = CellOf(f, i)

\* The last cell of the frame that has been read so far.
LastGot(g) == IF g # <<>> THEN g[Len(g)] ELSE Start

\* What arrives continues the frame that is being read, to its end.
LEMMA FrameGoesOn ==
  ASSUME NEW g, Begun(g),
         NEW w, Stretch(w), w # <<>>, Follows(LastGot(g), w[1])
  PROVE  \E f \in Frames :
           /\ FirstOf(g, f)
           /\ Len(g) < Size(f)
           /\ \A j \in 1 .. Len(w) :
                Len(g) + j <= Size(f) => w[j] = CellOf(f, Len(g) + j)
<1>1. w \in Seq(Cell) /\ Len(w) \in Nat \ {0} /\ w[1] \in Cell
  BY DEF Stretch
<1>2. g \in Seq(Cell) /\ Len(g) \in Nat
  BY DEF Begun
<1>3. PICK f \in Frames :
        FirstOf(g, f) /\ Len(g) < Size(f) /\ w[1] = CellOf(f, Len(g) + 1)
  <2>1. CASE g = <<>>
    <3>1. Len(g) = 0 /\ LastGot(g) = Start
      BY <2>1 DEF LastGot
    <3>2. w[1].place = 1
      BY <3>1 DEF Follows, AtEnd
    <3>3. w[1].frame \in Frames /\ w[1] = CellOf(w[1].frame, 1)
      BY <1>1, <3>2, CellFacts
    <3>4. FirstOf(g, w[1].frame) /\ 0 < Size(w[1].frame)
      BY <1>2, <3>1, <3>3, SizeIsPositive DEF FirstOf
    <3> QED
      BY <3>1, <3>3, <3>4
  <2>2. CASE g # <<>>
    <3>1. Len(g) \in 1 .. Len(g) /\ g[1] \in Cell
      BY <1>2, <2>2
    <3>2. PICK f \in Frames : f = g[1].frame
      BY <3>1, CellFacts
    <3>3. Len(g) < Size(f) /\ \A i \in 1 .. Len(g) : g[i] = CellOf(f, i)
      BY <2>2, <3>2 DEF Begun
    <3>4. Len(g) \in 1 .. Size(f) /\ Len(g) # Size(f)
      BY <1>2, <3>1, <3>2, <3>3, SizeIsPositive
    <3>5. LastGot(g) = CellOf(f, Len(g))
      BY <2>2, <3>1, <3>3 DEF LastGot
    <3>6. /\ ~AtEnd(LastGot(g))
          /\ LastGot(g).frame = f
          /\ LastGot(g).place = Len(g)
      BY <3>2, <3>4, <3>5, CellOfFacts
    <3>7. w[1] = CellOf(f, Len(g) + 1)
      BY <3>6 DEF Follows
    <3>8. FirstOf(g, f)
      BY <1>2, <3>3, <3>4 DEF FirstOf
    <3> QED
      BY <3>2, <3>3, <3>7, <3>8
  <2> QED
    BY <2>1, <2>2
<1>4. Size(f) \in Nat
  BY SizeIsPositive
<1>5. ASSUME NEW j \in 1 .. Len(w), Len(g) + j <= Size(f)
      PROVE  w[j] = CellOf(f, Len(g) + j)
  <2>1. Len(g) + 1 \in 1 .. Size(f)
    BY <1>2, <1>3, <1>4
  <2>2. w[1].frame = f /\ w[1].place = Len(g) + 1
    BY <1>3, <2>1, CellOfFacts
  <2>3. 1 \in 1 .. Len(w) /\ 1 <= j /\ (Len(g) + 1) + (j - 1) = Len(g) + j
    BY <1>1, <1>2
  <2> QED
    BY <1>5, <2>2, <2>3 DEF Stretch
<1> QED
  BY <1>3, <1>5

\* recv_frame asks for no more than the frame has, and until it has it all.
LEMMA MissingOfFirst ==
  ASSUME NEW f \in Frames, NEW g, FirstOf(g, f)
  PROVE  /\ Missing(g) \in Nat
         /\ Len(g) + Missing(g) <= Size(f)
         /\ Missing(g) = 0 <=> Len(g) = Size(f)
<1>1. /\ g \in Seq(Cell)
      /\ Len(g) \in Nat
      /\ Len(g) <= Size(f)
      /\ \A i \in 1 .. Len(g) : g[i] = CellOf(f, i)
  BY DEF FirstOf
<1>2. /\ Size(f) \in Nat \ {0}
      /\ HeaderSize \in Nat \ {0}
      /\ HeaderSize <= Size(f)
      /\ Size(f) = HeaderSize + PayloadSize[f]
      /\ PayloadSize[f] \in Nat
  BY SizeIsPositive, TransportAssumption DEF Size
<1>3. CASE Len(g) < HeaderSize
  <2>1. Missing(g) = HeaderSize - Len(g)
    BY <1>3 DEF Missing
  <2> QED
    BY <1>1, <1>2, <1>3, <2>1
<1>4. CASE ~(Len(g) < HeaderSize)
  <2>1. HeaderSize \in 1 .. Len(g) /\ HeaderSize \in 1 .. Size(f)
    BY <1>1, <1>2, <1>4
  <2>2. g[HeaderSize].place = HeaderSize /\ g[HeaderSize].frame = f
    BY <1>1, <2>1, CellOfFacts
  <2>3. payload_len(g) = PayloadSize[f]
    BY <2>2 DEF payload_len
  <2>4. Missing(g) = HeaderSize + PayloadSize[f] - Len(g)
    BY <1>4, <2>3 DEF Missing
  <2> QED
    BY <1>1, <1>2, <2>4
<1> QED
  BY <1>3, <1>4

\* What one recv adds is still the beginning of the frame.
LEMMA FirstGrows ==
  ASSUME NEW f \in Frames, NEW g, FirstOf(g, f),
         NEW w, Stretch(w), NEW n \in 1 .. Len(w), Len(g) + n <= Size(f),
         \A j \in 1 .. Len(w) :
           Len(g) + j <= Size(f) => w[j] = CellOf(f, Len(g) + j)
  PROVE  /\ FirstOf(g \o SubSeq(w, 1, n), f)
         /\ Len(g \o SubSeq(w, 1, n)) = Len(g) + n
<1> DEFINE u == SubSeq(w, 1, n)
           t == g \o u
<1>1. w \in Seq(Cell) /\ Len(w) \in Nat /\ n \in Nat
  BY DEF Stretch
<1>2. /\ g \in Seq(Cell)
      /\ Len(g) \in Nat
      /\ \A i \in 1 .. Len(g) : g[i] = CellOf(f, i)
      /\ Size(f) \in Nat
  BY SizeIsPositive DEF FirstOf
<1>3. /\ u \in Seq(Cell)
      /\ Len(u) = n
      /\ \A i \in 1 .. n : u[i] = w[i]
  <2>1. 1 \in Nat \ {0} /\ n \in 0 .. Len(w) /\ 1 <= n + 1
    BY <1>1
  <2>2. /\ Stretch(u)
        /\ Len(u) = n + 1 - 1
        /\ \A i \in 1 .. n + 1 - 1 : u[i] = w[i + 1 - 1]
    BY <1>1, <2>1, StretchSub
  <2>3. u \in Seq(Cell)
    BY <2>2 DEF Stretch
  <2>4. n + 1 - 1 = n /\ \A i \in 1 .. n : i + 1 - 1 = i
    BY <1>1
  <2> HIDE DEF u
  <2> QED
    BY <2>2, <2>3, <2>4
<1> HIDE DEF u
<1>4. /\ t \in Seq(Cell)
      /\ Len(t) = Len(g) + n
      /\ \A i \in 1 .. Len(g) + n :
           t[i] = IF i <= Len(g) THEN g[i] ELSE u[i - Len(g)]
  BY <1>2, <1>3, ConcatProperties
<1> HIDE DEF t
<1>5. ASSUME NEW i \in 1 .. Len(g) + n
      PROVE  t[i] = CellOf(f, i)
  <2>1. CASE i <= Len(g)
    <3>1. i \in 1 .. Len(g)
      BY <1>2, <2>1
    <3> QED
      BY <1>2, <1>4, <2>1, <3>1
  <2>2. CASE ~(i <= Len(g))
    <3>1. /\ i - Len(g) \in 1 .. n
          /\ i - Len(g) \in 1 .. Len(w)
          /\ Len(g) + (i - Len(g)) = i
          /\ i <= Size(f)
      BY <1>1, <1>2, <2>2
    <3>2. t[i] = w[i - Len(g)]
      BY <1>3, <1>4, <2>2, <3>1
    <3> QED
      BY <3>1, <3>2
  <2> QED
    BY <2>1, <2>2
<1>6. FirstOf(t, f)
  BY <1>4, <1>5 DEF FirstOf
<1> QED
  BY <1>4, <1>6 DEF t, u

LEMMA FirstIsFrame ==
  ASSUME NEW f \in Frames, NEW g, FirstOf(g, f)
  PROVE  /\ Len(g) = Size(f) => decodes(g)
         /\ Len(g) # Size(f) => Begun(g)
<1>1. /\ g \in Seq(Cell)
      /\ Len(g) \in Nat
      /\ Len(g) <= Size(f)
      /\ \A i \in 1 .. Len(g) : g[i] = CellOf(f, i)
  BY DEF FirstOf
<1>2. Size(f) \in Nat \ {0}
  BY SizeIsPositive
<1>3. ASSUME Len(g) = Size(f)
      PROVE  decodes(g)
  <2>1. /\ encode(f) \in Seq(Cell)
        /\ Len(encode(f)) = Size(f)
        /\ \A i \in 1 .. Size(f) : encode(f)[i] = CellOf(f, i)
    BY EncodeFacts
  <2>2. g = encode(f)
    BY <1>1, <1>3, <2>1, SeqEqual
  <2> QED
    BY <2>2 DEF decodes
<1>4. ASSUME Len(g) # Size(f), g # <<>>
      PROVE  Len(g) < Size(f) /\ g[1].frame = f
  <2>1. 1 \in 1 .. Len(g) /\ 1 \in 1 .. Size(f)
    BY <1>1, <1>2, <1>4
  <2>2. g[1].frame = f
    BY <1>1, <2>1, CellOfFacts
  <2> QED
    BY <1>1, <1>2, <1>4, <2>2
<1> QED
  BY <1>1, <1>3, <1>4 DEF Begun

\* What is left of a stream stays aligned, whether the frame that was read
\* has ended or not.
LEMMA RestAligned ==
  ASSUME NEW p, NEW s, NEW w, NEW r, Aligned(p, s, w, r),
         NEW n \in 1 .. Len(w), NEW x, x \in {w[n], Start},
         x = Start => AtEnd(w[n])
  PROVE  Aligned(p, s, SubSeq(w, n + 1, Len(w)), x)
<1> DEFINE v == SubSeq(w, n + 1, Len(w))
<1>1. /\ Stretch(w)
      /\ w \in Seq(Cell)
      /\ Len(w) \in Nat \ {0}
      /\ n \in Nat
  BY DEF Aligned, Stretch
<1>2. /\ Stretch(v)
      /\ Len(v) = Len(w) - n
      /\ \A i \in 1 .. Len(w) - n : v[i] = w[i + n]
  <2>1. n + 1 \in Nat \ {0} /\ Len(w) \in 0 .. Len(w) /\ n + 1 <= Len(w) + 1
    BY <1>1
  <2>2. /\ Stretch(v)
        /\ Len(v) = Len(w) + 1 - (n + 1)
        /\ \A i \in 1 .. Len(w) + 1 - (n + 1) : v[i] = w[i + (n + 1) - 1]
    BY <1>1, <2>1, StretchSub
  <2>3. /\ Len(w) + 1 - (n + 1) = Len(w) - n
        /\ \A i \in 1 .. Len(w) - n : i + (n + 1) - 1 = i + n
    BY <1>1
  <2> HIDE DEF v
  <2> QED
    BY <2>2, <2>3
<1> HIDE DEF v
<1>3. v \in Seq(Cell) /\ (v # <<>> <=> n < Len(w))
  <2>1. v \in Seq(Cell)
    BY <1>2 DEF Stretch
  <2> QED
    BY <1>1, <1>2, <2>1
<1>4. /\ AtEnd(x) <=> AtEnd(w[n])
      /\ \A y : Follows(w[n], y) => Follows(x, y)
  <2>1. CASE x = w[n]
    BY <2>1
  <2>2. CASE x = Start
    BY <2>2 DEF Follows, AtEnd
  <2> QED
    BY <2>1, <2>2
<1>5. v # <<>> => Follows(x, v[1])
  <2> HAVE v # <<>>
  <2>1. n \in 1 .. Len(w) - 1 /\ 1 \in 1 .. Len(w) - n /\ 1 + n = n + 1
    BY <1>1, <1>3
  <2>2. v[1] = w[n + 1]
    BY <1>2, <2>1
  <2>3. Follows(w[n], w[n + 1])
    BY <1>1, <2>1, StretchFollows
  <2> QED
    BY <1>4, <2>2, <2>3
<1>6. LastOf(w, r) = w[Len(w)]
  BY <1>1 DEF LastOf
<1>7. /\ AtEnd(w[Len(w)]) <=> AtEnd(LastOf(v, x))
      /\ \A y : Follows(w[Len(w)], y) => Follows(LastOf(v, x), y)
  <2>1. CASE v # <<>>
    <3>1. Len(v) \in 1 .. Len(w) - n /\ Len(v) + n = Len(w)
      BY <1>1, <1>2, <1>3, <2>1
    <3>2. LastOf(v, x) = w[Len(w)]
      BY <1>2, <2>1, <3>1 DEF LastOf
    <3> QED
      BY <3>2
  <2>2. CASE v = <<>>
    <3>1. n = Len(w)
      BY <1>1, <1>3, <2>2
    <3>2. LastOf(v, x) = x
      BY <2>2 DEF LastOf
    <3> QED
      BY <1>4, <3>1, <3>2
  <2> QED
    BY <2>1, <2>2
<1>8. w # <<>>
  BY <1>1
<1>9. Aligned(p, s, v, x)
  BY <1>2, <1>5, <1>6, <1>7, <1>8 DEF Aligned
<1> QED
  BY <1>9 DEF v

\* One recv: n cells of w are added to g.
LEMMA ReadsInStep ==
  ASSUME NEW p, NEW s, NEW w, NEW g,
         Begun(g), w # <<>>, Aligned(p, s, w, LastGot(g)),
         NEW n, n = IF Missing(g) < Len(w) THEN Missing(g) ELSE Len(w),
         NEW cells, cells = g \o SubSeq(w, 1, n),
         NEW v, v = SubSeq(w, n + 1, Len(w))
  PROVE  /\ Missing(cells) = 0 => decodes(cells) /\ Aligned(p, s, v, Start)
         /\ Missing(cells) # 0 =>
              Begun(cells) /\ Aligned(p, s, v, LastGot(cells))
<1>1. /\ Stretch(w)
      /\ w \in Seq(Cell)
      /\ Len(w) \in Nat \ {0}
      /\ Follows(LastGot(g), w[1])
  BY DEF Aligned, Stretch
<1>2. g \in Seq(Cell) /\ Len(g) \in Nat
  BY DEF Begun
<1>3. PICK f \in Frames :
        /\ FirstOf(g, f)
        /\ Len(g) < Size(f)
        /\ \A j \in 1 .. Len(w) :
             Len(g) + j <= Size(f) => w[j] = CellOf(f, Len(g) + j)
  BY <1>1, FrameGoesOn
<1>4. Size(f) \in Nat
  BY SizeIsPositive
<1>5. /\ Missing(g) \in Nat
      /\ Len(g) + Missing(g) <= Size(f)
      /\ Missing(g) = 0 <=> Len(g) = Size(f)
  BY <1>3, MissingOfFirst
<1>6. n \in 1 .. Len(w) /\ Len(g) + n <= Size(f) /\ Len(g) + n \in 1 .. Size(f)
  <2>1. Missing(g) \in Nat \ {0}
    BY <1>2, <1>3, <1>4, <1>5
  <2>2. n \in 1 .. Len(w) /\ n <= Missing(g)
    <3>1. CASE Missing(g) < Len(w)
      <4>1. n = Missing(g)
        BY <3>1
      <4> QED
        BY <1>1, <2>1, <3>1, <4>1
    <3>2. CASE ~(Missing(g) < Len(w))
      <4>1. n = Len(w)
        BY <3>2
      <4> QED
        BY <1>1, <2>1, <3>2, <4>1
    <3> QED
      BY <3>1, <3>2
  <2>3. n \in Nat \ {0}
    BY <1>1, <2>2
  <2> QED
    BY <1>2, <1>4, <1>5, <2>1, <2>2, <2>3
<1>7. FirstOf(cells, f) /\ Len(cells) = Len(g) + n
  <2>1. /\ FirstOf(g, f)
        /\ Stretch(w)
        /\ n \in 1 .. Len(w)
        /\ Len(g) + n <= Size(f)
        /\ \A j \in 1 .. Len(w) :
             Len(g) + j <= Size(f) => w[j] = CellOf(f, Len(g) + j)
    BY <1>1, <1>3, <1>6
  <2>2. /\ FirstOf(g \o SubSeq(w, 1, n), f)
        /\ Len(g \o SubSeq(w, 1, n)) = Len(g) + n
    BY <2>1, FirstGrows
  <2> QED
    BY <2>2
<1>8. Missing(cells) = 0 <=> Len(cells) = Size(f)
  BY <1>7, MissingOfFirst
<1>9. w[n] = CellOf(f, Len(g) + n)
  BY <1>3, <1>6
<1>10. AtEnd(w[n]) <=> Len(cells) = Size(f)
  BY <1>6, <1>7, <1>9, CellOfFacts
<1>11. LastGot(cells) = w[n]
  <2> DEFINE k == Len(cells)
  <2>1. k \in 1 .. k /\ k # 0
    <3> HIDE DEF k
    <3>1. k = Len(g) + n
      BY <1>7 DEF k
    <3> QED
      BY <1>4, <1>6, <3>1
  <2>2. cells[k] = CellOf(f, k)
    BY <1>7, <2>1 DEF FirstOf
  <2>3. cells # <<>>
    BY <2>1, EmptySeq
  <2> QED
    BY <1>7, <1>9, <2>2, <2>3 DEF LastGot
<1>12. Len(cells) = Size(f) => Aligned(p, s, v, Start)
  BY <1>6, <1>10, RestAligned
<1>13. Aligned(p, s, v, w[n])
  <2>1. w[n] = Start => AtEnd(w[n])
    BY DEF AtEnd
  <2> QED
    BY <1>6, <2>1, RestAligned
<1>14. /\ Len(cells) = Size(f) => decodes(cells)
       /\ Len(cells) # Size(f) => Begun(cells)
  BY <1>7, FirstIsFrame
<1> QED
  BY <1>8, <1>11, <1>12, <1>13, <1>14

-----------------------------------------------------------------------------
(* Writing, sending and ending *)

LEMMA EmptyIsFine == Stretch(<<>>) /\ Left(<<>>) /\ Begun(<<>>)
<1>1. <<>> \in Seq(Cell) /\ Len(<<>>) = 0
  BY EmptySeq
<1> QED
  BY <1>1 DEF Stretch, Left, Begun

\* A frame is begun only where one has ended.
LEMMA WriteAligned ==
  ASSUME NEW f \in Frames, NEW w, NEW r, Aligned("up", <<>>, w, r)
  PROVE  Aligned("up", encode(f), w, r)
<1>1. /\ encode(f) \in Seq(Cell)
      /\ Len(encode(f)) = Size(f)
      /\ \A i \in 1 .. Size(f) : encode(f)[i] = CellOf(f, i)
      /\ encode(f) # <<>>
  BY EncodeFacts
<1>2. Size(f) \in Nat \ {0}
  BY SizeIsPositive
<1>3. encode(f)[1].frame = f /\ encode(f)[1].place = 1
  BY <1>1, <1>2, CellOfFacts
<1>4. AtEnd(encode(f)[Len(encode(f))])
  BY <1>1, <1>2, CellOfFacts
<1>5. \A i \in 1 .. Size(f) : 1 + (i - 1) = i
  BY <1>2
<1>6. Left(encode(f))
  BY <1>1, <1>3, <1>4, <1>5 DEF Left
<1>7. AtEnd(LastOf(w, r))
  BY DEF Aligned
<1>8. Follows(LastOf(w, r), encode(f)[1])
  BY <1>3, <1>7 DEF Follows
<1> HIDE DEF encode
<1> QED
  BY <1>1, <1>6, <1>8 DEF Aligned

\* The cell that send_n hands over takes its place in the stream.
LEMMA SendAligned ==
  ASSUME NEW s, s # <<>>, NEW w, NEW r, Aligned("up", s, w, r)
  PROVE  Aligned("up", Tail(s), Append(w, Head(s)), r)
<1> DEFINE y == s[1]
           t == Tail(s)
           v == Append(w, y)
<1>1. /\ s \in Seq(Cell)
      /\ AtEnd(s[Len(s)])
      /\ \A i \in 1 .. Len(s) :
           s[i] = CellOf(s[1].frame, s[1].place + (i - 1))
      /\ Stretch(w)
      /\ w \in Seq(Cell)
      /\ Len(w) \in Nat
      /\ w # <<>> => Follows(r, w[1])
      /\ Follows(LastOf(w, r), y)
  BY DEF Aligned, Left, Stretch
<1>2. y \in Cell /\ Head(s) = y /\ Len(s) \in Nat \ {0}
  BY <1>1
<1>3. /\ t \in Seq(Cell)
      /\ Len(t) = Len(s) - 1
      /\ \A i \in 1 .. Len(t) : t[i] = s[i + 1]
  BY <1>1, HeadTailProperties
<1>4. /\ v \in Seq(Cell)
      /\ v # <<>>
      /\ Len(v) = Len(w) + 1
      /\ \A i \in 1 .. Len(w) : v[i] = w[i]
      /\ v[Len(w) + 1] = y
  BY <1>1, <1>2, AppendProperties
<1>5. /\ y.frame \in Frames
      /\ y.place \in 1 .. Size(y.frame)
      /\ Size(y.frame) \in Nat
  BY <1>2, CellFacts, SizeIsPositive
<1>6. Stretch(v)
  <2>1. w # <<>> => Follows(w[Len(w)], y)
    BY <1>1 DEF LastOf
  <2> QED
    BY <1>1, <1>2, <2>1, StretchAppend
<1>7. Follows(r, v[1])
  <2>1. CASE w = <<>>
    <3>1. v[1] = y
      BY <1>4, <2>1, EmptySeq
    <3> QED
      BY <1>1, <2>1, <3>1 DEF LastOf
  <2>2. CASE w # <<>>
    <3>1. 1 \in 1 .. Len(w)
      BY <1>1, <2>2
    <3> HIDE DEF v
    <3> QED
      BY <1>1, <1>4, <2>2, <3>1
  <2> QED
    BY <2>1, <2>2
<1>8. LastOf(v, r) = y
  BY <1>4 DEF LastOf
<1> HIDE DEF v, t
<1>9. t # <<>> => Left(t) /\ Follows(y, t[1])
  <2> HAVE t # <<>>
  <2>1. Len(t) \in Nat \ {0} /\ 1 \in 1 .. Len(t)
    BY <1>3
  <2>2. t[1] = CellOf(y.frame, y.place + 1)
    <3>1. 1 + 1 \in 1 .. Len(s) /\ (1 + 1) - 1 = 1
      BY <1>2, <1>3, <2>1
    <3> QED
      BY <1>1, <1>3, <2>1, <3>1
  <2>3. t[1].frame = y.frame /\ t[1].place = y.place + 1
    BY <2>2 DEF CellOf
  <2>4. t[1].place \in 1 .. Size(t[1].frame)
    BY <1>3, <2>1, CellFacts
  <2>5. ~AtEnd(y)
    BY <1>2, <1>5, <2>3, <2>4, CellFacts DEF AtEnd
  <2>6. Follows(y, t[1])
    BY <2>2, <2>5 DEF Follows
  <2>7. AtEnd(t[Len(t)])
    <3>1. Len(t) + 1 = Len(s) /\ Len(t) \in 1 .. Len(t)
      BY <1>2, <1>3, <2>1
    <3> QED
      BY <1>1, <1>3, <3>1
  <2>8. ASSUME NEW i \in 1 .. Len(t)
        PROVE  t[i] = CellOf(t[1].frame, t[1].place + (i - 1))
    <3>1. i + 1 \in 1 .. Len(s)
          /\ y.place + ((i + 1) - 1) = (y.place + 1) + (i - 1)
      BY <1>2, <1>3, <1>5
    <3>2. t[i] = CellOf(y.frame, y.place + ((i + 1) - 1))
      BY <1>1, <1>3, <3>1
    <3> QED
      BY <2>3, <3>1, <3>2
  <2>9. Left(t)
    BY <1>3, <2>7, <2>8 DEF Left
  <2> QED
    BY <2>6, <2>9
<1>10. t = <<>> => AtEnd(y)
  <2> HAVE t = <<>>
  <2>1. Len(t) = 0
    BY EmptySeq
  <2>2. Len(s) = 1
    BY <1>2, <1>3, <2>1
  <2> QED
    BY <1>1, <2>2
<1>11. Left(t)
  BY <1>9, EmptyIsFine
<1>12. Aligned("up", t, v, r)
  BY <1>4, <1>6, <1>7, <1>8, <1>9, <1>10, <1>11 DEF Aligned
<1> QED
  BY <1>2, <1>12 DEF t, v

\* What is on its way when a process ends is the beginning of what it sent.
LEMMA DieAligned ==
  ASSUME NEW s, NEW w, NEW r, Aligned("up", s, w, r), NEW n \in 0 .. Len(w)
  PROVE  Aligned("gone", <<>>, SubSeq(w, 1, n), r)
<1> DEFINE v == SubSeq(w, 1, n)
<1>1. /\ Stretch(w)
      /\ w \in Seq(Cell)
      /\ Len(w) \in Nat
      /\ w # <<>> => Follows(r, w[1])
  BY DEF Aligned, Stretch
<1>2. 1 \in Nat \ {0} /\ n \in Nat /\ 1 <= n + 1 /\ n + 1 - 1 = n
  BY <1>1
<1>3. /\ Stretch(v)
      /\ Len(v) = n
      /\ \A i \in 1 .. n : v[i] = w[i + 1 - 1]
  BY <1>1, <1>2, StretchSub
<1> HIDE DEF v
<1>4. v # <<>> => Follows(r, v[1])
  <2> HAVE v # <<>>
  <2>1. n # 0
    BY <1>3 DEF Stretch
  <2>2. 1 \in 1 .. n /\ 1 + 1 - 1 = 1 /\ w # <<>>
    BY <1>1, <1>2, <2>1
  <2> QED
    BY <1>1, <1>3, <2>2
<1>5. Aligned("gone", <<>>, v, r)
  BY <1>3, <1>4, EmptyIsFine DEF Aligned
<1> QED
  BY <1>5 DEF v

-----------------------------------------------------------------------------
(* The steps *)

LEMMA ConnectsOK ==
  ASSUME TransportOK, NEW c \in Connections, Connects(c)
  PROVE  TransportOK'
<1>1. ASSUME NEW e \in Connections
      PROVE  InStep(e)'
  <2>1. /\ wire'[e] = wire[e]
        /\ sending'[e] = sending[e]
        /\ LastRead(e)' = LastRead(e)
    BY DEF Connects, LastRead
  <2>2. Aligned(peer[e], sending[e], wire[e], LastRead(e))
    BY DEF TransportOK, InStep
  <2>3. CASE e = c
    <3>1. peer[e] = "none" /\ peer'[e] = "up"
      BY <2>3 DEF Connects, TransportOK
    <3>2. wire[e] = <<>> /\ LastRead(e) = Start
      BY <2>2, <3>1 DEF Aligned
    <3>3. AtEnd(LastOf(wire[e], LastRead(e)))
      BY <3>2 DEF LastOf, AtEnd
    <3>4. Aligned("up", sending[e], wire[e], LastRead(e))
      BY <2>2, <3>1, <3>3 DEF Aligned
    <3> QED
      BY <2>1, <3>1, <3>4 DEF InStep
  <2>4. CASE e # c
    <3>1. peer'[e] = peer[e]
      BY <2>4 DEF Connects, TransportOK
    <3> QED
      BY <2>1, <2>2, <3>1 DEF InStep
  <2> QED
    BY <2>3, <2>4
<1> QED
  BY <1>1 DEF TransportOK, Connects

LEMMA WritesOK ==
  ASSUME TransportOK, NEW c \in Connections, NEW f \in Frames, Writes(c, f)
  PROVE  TransportOK'
<1> USE DEF processes, loop
<1>1. ASSUME NEW e \in Connections
      PROVE  InStep(e)'
  <2>1. /\ wire'[e] = wire[e]
        /\ peer'[e] = peer[e]
        /\ LastRead(e)' = LastRead(e)
    BY DEF Writes, LastRead
  <2>2. Aligned(peer[e], sending[e], wire[e], LastRead(e))
    BY DEF TransportOK, InStep
  <2>3. CASE e = c
    <3>1. /\ peer[e] = "up"
          /\ sending[e] = <<>>
          /\ sending'[e] = encode(f)
      BY <2>3 DEF Writes, TransportOK
    <3>2. Aligned("up", encode(f), wire[e], LastRead(e))
      BY <2>2, <3>1, WriteAligned
    <3> QED
      BY <2>1, <3>1, <3>2 DEF InStep
  <2>4. CASE e # c
    <3>1. sending'[e] = sending[e]
      BY <2>4 DEF Writes, TransportOK
    <3> QED
      BY <2>1, <2>2, <3>1 DEF InStep
  <2> QED
    BY <2>3, <2>4
<1> QED
  BY <1>1 DEF TransportOK, Writes

LEMMA SendsOK ==
  ASSUME TransportOK, NEW c \in Connections, Sends(c)
  PROVE  TransportOK'
<1> USE DEF processes, loop
<1>1. ASSUME NEW e \in Connections
      PROVE  InStep(e)'
  <2>1. peer'[e] = peer[e] /\ LastRead(e)' = LastRead(e)
    BY DEF Sends, LastRead
  <2>2. Aligned(peer[e], sending[e], wire[e], LastRead(e))
    BY DEF TransportOK, InStep
  <2>3. CASE e = c
    <3>1. /\ peer[e] = "up"
          /\ sending[e] # <<>>
          /\ sending'[e] = Tail(sending[e])
          /\ wire'[e] = Append(wire[e], Head(sending[e]))
      BY <2>3 DEF Sends, TransportOK
    <3>2. Aligned("up", Tail(sending[e]), Append(wire[e], Head(sending[e])),
                  LastRead(e))
      BY <2>2, <3>1, SendAligned
    <3> QED
      BY <2>1, <3>1, <3>2 DEF InStep
  <2>4. CASE e # c
    <3>1. sending'[e] = sending[e] /\ wire'[e] = wire[e]
      BY <2>4 DEF Sends, TransportOK
    <3> QED
      BY <2>1, <2>2, <3>1 DEF InStep
  <2> QED
    BY <2>3, <2>4
<1> QED
  BY <1>1 DEF TransportOK, Sends

LEMMA DiesOK ==
  ASSUME TransportOK, NEW c \in Connections, Dies(c)
  PROVE  TransportOK'
<1> USE DEF processes, loop
<1>1. PICK n \in 0 .. Len(wire[c]) :
        wire' = [wire EXCEPT ![c] = SubSeq(@, 1, n)]
  BY DEF Dies
<1>2. ASSUME NEW e \in Connections
      PROVE  InStep(e)'
  <2>1. LastRead(e)' = LastRead(e)
    BY DEF Dies, LastRead
  <2>2. Aligned(peer[e], sending[e], wire[e], LastRead(e))
    BY DEF TransportOK, InStep
  <2>3. CASE e = c
    <3>1. /\ peer[e] = "up"
          /\ peer'[e] = "gone"
          /\ sending'[e] = <<>>
          /\ wire'[e] = SubSeq(wire[e], 1, n)
      BY <1>1, <2>3 DEF Dies, TransportOK
    <3>2. Aligned("gone", <<>>, SubSeq(wire[e], 1, n), LastRead(e))
      BY <2>2, <2>3, <3>1, DieAligned
    <3> QED
      BY <2>1, <3>1, <3>2 DEF InStep
  <2>4. CASE e # c
    <3>1. /\ peer'[e] = peer[e]
          /\ sending'[e] = sending[e]
          /\ wire'[e] = wire[e]
      BY <1>1, <2>4 DEF Dies, TransportOK
    <3> QED
      BY <2>1, <2>2, <3>1 DEF InStep
  <2> QED
    BY <2>3, <2>4
<1> QED
  BY <1>1, <1>2 DEF TransportOK, Dies

\* The turn passes between two frames.
LEMMA TurnOK ==
  ASSUME TransportOK, got = <<>>, got' = <<>>,
         UNCHANGED <<processes, wire, thrown>>
  PROVE  TransportOK'
<1> USE DEF processes
<1>1. ASSUME NEW e \in Connections
      PROVE  InStep(e)'
  <2>1. LastRead(e)' = Start /\ LastRead(e) = Start
    BY DEF LastRead
  <2> QED
    BY <2>1 DEF TransportOK, InStep
<1> QED
  BY <1>1 DEF TransportOK

LEMMA ReadsOK ==
  ASSUME TransportOK, NEW c \in Connections, Reads(c)
  PROVE  TransportOK'
<1> USE DEF processes
<1>1. PICK n : n = IF Missing(got) < Len(wire[c])
                   THEN Missing(got) ELSE Len(wire[c])
  OBVIOUS
<1>2. PICK cells : cells = got \o SubSeq(wire[c], 1, n)
  OBVIOUS
<1>3. PICK v : v = SubSeq(wire[c], n + 1, Len(wire[c]))
  OBVIOUS
<1>4. /\ at = c
      /\ wire[c] # <<>>
      /\ wire' = [wire EXCEPT ![c] = v]
      /\ got' = IF Missing(cells) = 0 THEN <<>> ELSE cells
      /\ Missing(cells) # 0 => at' = c
      /\ thrown' = (Missing(cells) = 0 /\ ~decodes(cells))
      /\ peer' = peer
      /\ sending' = sending
  BY <1>1, <1>2, <1>3 DEF Reads
<1>5. Begun(got) /\ LastRead(c) = LastGot(got)
  BY <1>4 DEF TransportOK, LastRead, LastGot
<1>6. Aligned(peer[c], sending[c], wire[c], LastGot(got))
  BY <1>5 DEF TransportOK, InStep
<1>7. /\ Missing(cells) = 0 =>
           decodes(cells) /\ Aligned(peer[c], sending[c], v, Start)
      /\ Missing(cells) # 0 =>
           Begun(cells) /\ Aligned(peer[c], sending[c], v, LastGot(cells))
  BY <1>1, <1>2, <1>3, <1>4, <1>5, <1>6, ReadsInStep
<1>8. ASSUME NEW e \in Connections
      PROVE  InStep(e)'
  <2>1. CASE e = c
    <3>1. /\ wire'[e] = v
          /\ LastRead(e)' = IF Missing(cells) = 0 THEN Start ELSE LastGot(cells)
      BY <1>4, <2>1 DEF TransportOK, LastRead, LastGot
    <3> QED
      BY <1>4, <1>7, <2>1, <3>1 DEF InStep
  <2>2. CASE e # c
    <3>1. wire'[e] = wire[e]
      BY <1>4, <2>2 DEF TransportOK
    <3>2. LastRead(e) = Start /\ LastRead(e)' = Start
      BY <1>4, <2>2 DEF LastRead
    <3> QED
      BY <1>4, <3>1, <3>2 DEF TransportOK, InStep
  <2> QED
    BY <2>1, <2>2
<1>9. Begun(got)'
  BY <1>4, <1>7, EmptyIsFine
<1>10. ~thrown'
  BY <1>4, <1>7
<1>11. at' = 0 => got' = <<>>
  BY <1>4, TransportAssumption
<1> QED
  BY <1>4, <1>8, <1>9, <1>10, <1>11 DEF TransportOK

LEMMA ClosesOK ==
  ASSUME TransportOK, NEW c \in Connections, Closes(c)
  PROVE  TransportOK'
<1>1. /\ at = c
      /\ got' = <<>>
      /\ peer[c] = "gone"
      /\ peer' = [peer EXCEPT ![c] = "none"]
      /\ wire' = [wire EXCEPT ![c] = <<>>]
      /\ sending' = sending
      /\ thrown' = thrown
  BY DEF Closes, Close
<1>2. ASSUME NEW e \in Connections
      PROVE  InStep(e)'
  <2>1. LastRead(e)' = Start
    BY <1>1 DEF LastRead
  <2>2. Aligned(peer[e], sending[e], wire[e], LastRead(e))
    BY DEF TransportOK, InStep
  <2>3. CASE e = c
    <3>1. peer'[e] = "none" /\ wire'[e] = <<>> /\ sending'[e] = <<>>
      BY <1>1, <2>2, <2>3 DEF TransportOK, Aligned
    <3>2. Aligned("none", <<>>, <<>>, Start)
      BY EmptyIsFine DEF Aligned
    <3> QED
      BY <2>1, <3>1, <3>2 DEF InStep
  <2>4. CASE e # c
    <3>1. peer'[e] = peer[e] /\ wire'[e] = wire[e] /\ LastRead(e) = Start
      BY <1>1, <2>4 DEF TransportOK, LastRead
    <3> QED
      BY <1>1, <2>1, <2>2, <3>1 DEF InStep
  <2> QED
    BY <2>3, <2>4
<1>3. Begun(got)'
  BY <1>1, EmptyIsFine
<1> QED
  BY <1>1, <1>2, <1>3 DEF TransportOK

-----------------------------------------------------------------------------

LEMMA TransportInit == TInit => TransportOK
<1> HAVE TInit
<1>1. ASSUME NEW c \in Connections
      PROVE  InStep(c)
  <2>1. /\ peer[c] = "none"
        /\ sending[c] = <<>>
        /\ wire[c] = <<>>
        /\ LastRead(c) = Start
    BY DEF TInit, LastRead
  <2> QED
    BY <2>1, EmptyIsFine DEF InStep, Aligned
<1> QED
  BY <1>1, EmptyIsFine DEF TInit, TransportOK

LEMMA TransportStep == TransportOK /\ [TNext]_tvars => TransportOK'
<1> SUFFICES ASSUME TransportOK, [TNext]_tvars
             PROVE  TransportOK'
  OBVIOUS
<1>1. CASE Accepts
  <2>1. got = <<>> /\ got' = <<>> /\ UNCHANGED <<processes, wire, thrown>>
    BY <1>1 DEF Accepts, TransportOK
  <2> QED
    BY <2>1, TurnOK
<1>2. ASSUME NEW c \in Connections, Reads(c)
      PROVE  TransportOK'
  BY <1>2, ReadsOK
<1>3. ASSUME NEW c \in Connections, Skips(c)
      PROVE  TransportOK'
  <2>1. got = <<>> /\ got' = <<>> /\ UNCHANGED <<processes, wire, thrown>>
    BY <1>3 DEF Skips
  <2> QED
    BY <2>1, TurnOK
<1>4. ASSUME NEW c \in Connections, Closes(c)
      PROVE  TransportOK'
  BY <1>4, ClosesOK
<1>5. ASSUME NEW c \in Connections, Connects(c)
      PROVE  TransportOK'
  BY <1>5, ConnectsOK
<1>6. ASSUME NEW c \in Connections, Sends(c)
      PROVE  TransportOK'
  BY <1>6, SendsOK
<1>7. ASSUME NEW c \in Connections, Dies(c)
      PROVE  TransportOK'
  BY <1>7, DiesOK
<1>8. ASSUME NEW c \in Connections, NEW f \in Frames, Writes(c, f)
      PROVE  TransportOK'
  BY <1>8, WritesOK
<1>9. CASE UNCHANGED tvars
  BY <1>9 DEF tvars, processes, loop, TransportOK, InStep, LastRead
<1> QED
  BY <1>1, <1>2, <1>3, <1>4, <1>5, <1>6, <1>7, <1>8, <1>9 DEF TNext, Thread

\* recv_frame never throws at peers that write frames, for any length of
\* header, payload and buffer, any cut of the streams into reads, and any
\* process killed in the middle of a frame.
THEOREM FramesStayWhole == TSpec => []NeverThrows
<1>1. TransportOK => NeverThrows
  BY DEF TransportOK, NeverThrows
<1> QED
  BY <1>1, TransportInit, TransportStep, PTL DEF TSpec

-----------------------------------------------------------------------------
(* The frames that are complete in a stream *)

\* Counting up to n.
LEMMA CountUp ==
  ASSUME NEW n \in Nat, NEW T, 0 \in T,
         \A k \in 1 .. n : k - 1 \in T => k \in T
  PROVE  0 .. n \subseteq T
<1> DEFINE B == {k \in Nat : k <= n /\ k \notin T}
<1> SUFFICES ASSUME B # {} PROVE FALSE
  OBVIOUS
<1>1. PICK m \in B : \A k \in B : m <= k
  <2> DEFINE R == {e \in Nat \X Nat : e[1] < e[2]}
  <2>1. B \subseteq Nat
    OBVIOUS
  <2> HIDE DEF B
  <2>2. IsWellFoundedOn(R, Nat)
    BY NatLessThanWellFounded DEF OpToRel
  <2>3. PICK m \in B : \A k \in B : ~(<<k, m>> \in R)
    BY <2>1, <2>2, WFMin
  <2>4. ASSUME NEW k \in B
        PROVE  m <= k
    <3>1. ~(<<k, m>> \in R)
      BY <2>3
    <3>2. k \in Nat /\ m \in Nat
      BY <2>1
    <3> QED
      BY <3>1, <3>2
  <2> QED
    BY <2>4
<1>2. m \in Nat /\ m <= n /\ m \notin T /\ m # 0
  OBVIOUS
<1>3. m \in 1 .. n /\ m - 1 \in Nat /\ m - 1 <= n /\ m - 1 \notin B
  BY <1>1, <1>2
<1> QED
  BY <1>2, <1>3

\* A cell is the last one of its frame.
IsLast(x) == x.place = HeaderSize + PayloadSize[x.frame]

\* What f counts: the frames that are complete up to each place of s.
Counts(f, s, n) ==
  f = [k \in 0 .. n |->
         IF k = 0 THEN <<>>
         ELSE IF IsLast(s[k]) THEN Append(f[k - 1], s[k].frame)
         ELSE f[k - 1]]

LEMMA CountsExists ==
  ASSUME NEW s, NEW n \in Nat
  PROVE  \E f : Counts(f, s, n)
<1> DEFINE T == {k \in Nat : \E f : Counts(f, s, k)}
<1>1. 0 \in T
  <2>1. Counts([k \in 0 .. 0 |-> <<>>], s, 0)
    BY DEF Counts
  <2> QED
    BY <2>1
<1>2. ASSUME NEW m \in 1 .. n, m - 1 \in T
      PROVE  m \in T
  <2>1. PICK g : Counts(g, s, m - 1)
    BY <1>2
  <2> DEFINE Step(f, k) == IF k = 0 THEN <<>>
                           ELSE IF IsLast(s[k]) THEN Append(f[k - 1], s[k].frame)
                           ELSE f[k - 1]
             h == [k \in 0 .. m |-> IF k = m THEN Step(g, m) ELSE g[k]]
  <2>2. ASSUME NEW k \in 0 .. m
        PROVE  h[k] = Step(h, k)
    <3>1. CASE k = m
      <4>1. m - 1 \in 0 .. m /\ m - 1 # m /\ m # 0
        OBVIOUS
      <4>2. h[m - 1] = g[m - 1]
        BY <4>1
      <4> QED
        BY <3>1, <4>1, <4>2
    <3>2. CASE k # m
      <4>1. k \in 0 .. (m - 1)
        BY <3>2
      <4>2. g[k] = Step(g, k)
        BY <2>1, <4>1 DEF Counts
      <4>3. k # 0 => k - 1 \in 0 .. m /\ k - 1 # m
        BY <4>1
      <4>4. k # 0 => h[k - 1] = g[k - 1]
        BY <4>3
      <4> QED
        BY <3>2, <4>2, <4>4
    <3> QED
      BY <3>1, <3>2
  <2>3. h = [k \in 0 .. m |-> Step(h, k)]
    BY <2>2
  <2>4. Counts(h, s, m)
    BY <2>3 DEF Counts
  <2> HIDE DEF h
  <2> QED
    BY <2>4
<1>3. n \in T
  <2> HIDE DEF T
  <2>1. 0 .. n \subseteq T
    BY <1>1, <1>2, CountUp
  <2> QED
    BY <2>1
<1> QED
  BY <1>3

\* Complete(s) is the last of them, and each is a sequence of frames.
LEMMA CompleteIs ==
  ASSUME NEW s \in Seq(Cell)
  PROVE  \E f : /\ f[0] = <<>>
                /\ \A k \in 1 .. Len(s) :
                     f[k] = IF IsLast(s[k]) THEN Append(f[k - 1], s[k].frame)
                            ELSE f[k - 1]
                /\ \A k \in 0 .. Len(s) : f[k] \in Seq(Frames)
                /\ Complete(s) = f[Len(s)]
<1> DEFINE n == Len(s)
           f == CHOOSE g : Counts(g, s, n)
<1>1. n \in Nat
  OBVIOUS
<1>2. Counts(f, s, n)
  BY <1>1, CountsExists
<1>3. Complete(s) = f[n]
  BY DEF Complete, Counts, IsLast
<1> HIDE DEF f
<1>4. /\ f[0] = <<>>
      /\ \A k \in 1 .. n : f[k] = IF IsLast(s[k])
                                  THEN Append(f[k - 1], s[k].frame)
                                  ELSE f[k - 1]
  <2>1. \A k \in 0 .. n :
          f[k] = IF k = 0 THEN <<>>
                 ELSE IF IsLast(s[k]) THEN Append(f[k - 1], s[k].frame)
                 ELSE f[k - 1]
    <3> HIDE DEF n
    <3> QED
      BY <1>2, Zenon DEF Counts
  <2>2. 0 \in 0 .. n /\ \A k \in 1 .. n : k \in 0 .. n /\ k # 0
    BY <1>1
  <2> HIDE DEF n
  <2> QED
    BY <2>1, <2>2
<1> DEFINE T == {k \in 0 .. n : f[k] \in Seq(Frames)}
<1>5. 0 \in T
  <2>1. f[0] \in Seq(Frames)
    <3>1. <<>> \in Seq(Frames)
      BY EmptySeq
    <3> QED
      BY <1>4, <3>1, Zenon
  <2> HIDE DEF n
  <2> QED
    BY <1>1, <2>1
<1>6. ASSUME NEW k \in 1 .. n, k - 1 \in T
      PROVE  k \in T
  <2>1. s[k].frame \in Frames
    <3>1. s[k] \in Cell
      OBVIOUS
    <3> QED
      BY <3>1, CellFacts
  <2>2. f[k - 1] \in Seq(Frames)
    BY <1>6
  <2>3. Append(f[k - 1], s[k].frame) \in Seq(Frames)
    BY <2>1, <2>2
  <2>4. f[k] = Append(f[k - 1], s[k].frame) \/ f[k] = f[k - 1]
    BY <1>4
  <2>5. f[k] \in Seq(Frames)
    BY <2>2, <2>3, <2>4, Zenon
  <2>6. k \in 0 .. n
    BY <1>1
  <2> HIDE DEF n
  <2> QED
    BY <2>5, <2>6
<1>7. 0 .. n \subseteq T
  <2> HIDE DEF T
  <2> QED
    BY <1>1, <1>5, <1>6, CountUp
<1> QED
  BY <1>3, <1>4, <1>7

LEMMA CompleteType ==
  ASSUME NEW s \in Seq(Cell)
  PROVE  Complete(s) \in Seq(Frames)
<1>1. Len(s) \in 0 .. Len(s)
  OBVIOUS
<1> QED
  BY <1>1, CompleteIs

LEMMA CompleteEmpty == Complete(<<>>) = <<>>
<1>1. <<>> \in Seq(Cell) /\ Len(<<>>) = 0
  BY EmptySeq
<1> QED
  BY <1>1, CompleteIs

\* One more cell completes a frame or does not.
LEMMA CompleteAppend ==
  ASSUME NEW s \in Seq(Cell), NEW x \in Cell
  PROVE  Complete(Append(s, x)) =
           IF IsLast(x) THEN Append(Complete(s), x.frame) ELSE Complete(s)
<1> DEFINE t == Append(s, x)
<1>1. PICK n \in Nat : n = Len(s)
  OBVIOUS
<1>2. /\ t \in Seq(Cell)
      /\ Len(t) = n + 1
      /\ \A k \in 1 .. n : t[k] = s[k]
      /\ t[n + 1] = x
  BY <1>1
<1> HIDE DEF t
<1>3. PICK f : /\ f[0] = <<>>
               /\ \A k \in 1 .. n :
                    f[k] = IF IsLast(s[k]) THEN Append(f[k - 1], s[k].frame)
                           ELSE f[k - 1]
               /\ Complete(s) = f[n]
  BY <1>1, CompleteIs
<1>4. PICK g : /\ g[0] = <<>>
               /\ \A k \in 1 .. n + 1 :
                    g[k] = IF IsLast(t[k]) THEN Append(g[k - 1], t[k].frame)
                           ELSE g[k - 1]
               /\ Complete(t) = g[n + 1]
  BY <1>2, CompleteIs
<1> DEFINE T == {k \in 0 .. n : g[k] = f[k]}
<1>5. 0 \in T
  BY <1>1, <1>3, <1>4
<1>6. ASSUME NEW k \in 1 .. n, k - 1 \in T
      PROVE  k \in T
  <2>1. k \in 1 .. n + 1
    BY <1>1
  <2>2. g[k - 1] = f[k - 1] /\ t[k] = s[k]
    BY <1>2, <1>6
  <2>3. g[k] = IF IsLast(t[k]) THEN Append(g[k - 1], t[k].frame) ELSE g[k - 1]
    BY <1>4, <2>1
  <2>4. f[k] = IF IsLast(s[k]) THEN Append(f[k - 1], s[k].frame) ELSE f[k - 1]
    BY <1>3
  <2>5. g[k] = f[k]
    <3>1. CASE IsLast(s[k])
      BY <2>2, <2>3, <2>4, <3>1
    <3>2. CASE ~IsLast(s[k])
      BY <2>2, <2>3, <2>4, <3>2
    <3> QED
      BY <3>1, <3>2
  <2>6. k \in 0 .. n
    BY <1>1
  <2> QED
    BY <2>5, <2>6
<1>7. n \in T
  <2> HIDE DEF T
  <2>1. 0 .. n \subseteq T
    BY <1>1, <1>5, <1>6, CountUp
  <2> QED
    BY <1>1, <2>1
<1>8. g[n] = Complete(s)
  BY <1>3, <1>7
<1>9. n + 1 \in 1 .. n + 1 /\ (n + 1) - 1 = n
  BY <1>1
<1>10. g[n + 1] = IF IsLast(x) THEN Append(g[n], x.frame) ELSE g[n]
  BY <1>2, <1>4, <1>9
<1> QED
  BY <1>4, <1>8, <1>10, Zenon DEF t

\* Cutting a sequence and appending the next element cuts one later.
LEMMA NextCut ==
  ASSUME NEW S, NEW s \in Seq(S), NEW k \in 1 .. Len(s)
  PROVE  /\ SubSeq(s, 1, k - 1) \in Seq(S)
         /\ s[k] \in S
         /\ SubSeq(s, 1, k) = Append(SubSeq(s, 1, k - 1), s[k])
<1>1. PICK n \in Nat : n = Len(s)
  OBVIOUS
<1> DEFINE u == SubSeq(s, 1, k - 1)
           v == SubSeq(s, 1, k)
<1>2. /\ u \in Seq(S)
      /\ Len(u) = k - 1
      /\ \A i \in 1 .. k - 1 : u[i] = s[i]
  BY <1>1, SubSeqProperties
<1>3. /\ v \in Seq(S)
      /\ Len(v) = k
      /\ \A i \in 1 .. k : v[i] = s[i]
  BY <1>1, SubSeqProperties
<1>4. s[k] \in S
  OBVIOUS
<1> HIDE DEF u, v
<1>5. /\ Append(u, s[k]) \in Seq(S)
      /\ Len(Append(u, s[k])) = k
      /\ \A i \in 1 .. k - 1 : Append(u, s[k])[i] = u[i]
      /\ Append(u, s[k])[k] = s[k]
  BY <1>1, <1>2, <1>4
<1>6. \A i \in 1 .. k : v[i] = Append(u, s[k])[i]
  <2> SUFFICES ASSUME NEW i \in 1 .. k
               PROVE  v[i] = Append(u, s[k])[i]
    OBVIOUS
  <2>1. CASE i = k
    BY <1>3, <1>5, <2>1
  <2>2. CASE i # k
    <3>1. i \in 1 .. k - 1
      BY <2>2
    <3> QED
      BY <1>2, <1>3, <1>5, <3>1
  <2> QED
    BY <2>1, <2>2
<1>7. v = Append(u, s[k])
  BY <1>3, <1>5, <1>6, SeqEqual
<1> QED
  BY <1>2, <1>4, <1>7 DEF u, v

LEMMA ConcatAppend ==
  ASSUME NEW S, NEW s \in Seq(S), NEW t \in Seq(S), NEW x \in S
  PROVE  s \o Append(t, x) = Append(s \o t, x)
<1>1. <<x>> \in Seq(S) /\ s \o t \in Seq(S)
  BY ConcatProperties
<1>2. Append(t, x) = t \o <<x>> /\ Append(s \o t, x) = (s \o t) \o <<x>>
  BY <1>1, AppendIsConcat
<1>3. (s \o t) \o <<x>> = s \o (t \o <<x>>)
  BY <1>1, ConcatAssociative
<1> QED
  BY <1>2, <1>3, Zenon

\* The frames of two streams, one after the other.
LEMMA CompleteConcat ==
  ASSUME NEW s \in Seq(Cell), NEW t \in Seq(Cell)
  PROVE  Complete(s \o t) = Complete(s) \o Complete(t)
<1> DEFINE Cut(k) == SubSeq(t, 1, k)
           Both(k) == Complete(s \o Cut(k)) = Complete(s) \o Complete(Cut(k))
           T == {k \in 0 .. Len(t) : Both(k)}
<1>1. Len(t) \in Nat
  OBVIOUS
<1>2. 0 \in T
  <2>1. Cut(0) = <<>>
    BY SubSeqEmpty
  <2>2. Complete(s) \in Seq(Frames)
    BY CompleteType
  <2>3. s \o <<>> = s /\ Complete(s) \o <<>> = Complete(s)
    BY <2>2, ConcatEmptySeq
  <2>4. Both(0)
    BY <2>1, <2>3, CompleteEmpty
  <2> HIDE DEF Both
  <2> QED
    BY <1>1, <2>4
<1>3. ASSUME NEW k \in 1 .. Len(t), k - 1 \in T
      PROVE  k \in T
  <2>1. PICK u, x : u = Cut(k - 1) /\ x = t[k]
    OBVIOUS
  <2>2. u \in Seq(Cell) /\ x \in Cell /\ Cut(k) = Append(u, x)
    BY <2>1, NextCut
  <2>3. Complete(s \o u) = Complete(s) \o Complete(u)
    BY <1>3, <2>1
  <2>4. /\ s \o u \in Seq(Cell)
        /\ s \o Append(u, x) = Append(s \o u, x)
    BY <2>2, ConcatAppend, ConcatProperties
  <2>5. /\ Complete(Append(u, x)) =
             IF IsLast(x) THEN Append(Complete(u), x.frame) ELSE Complete(u)
        /\ Complete(Append(s \o u, x)) =
             IF IsLast(x) THEN Append(Complete(s \o u), x.frame)
             ELSE Complete(s \o u)
    BY <2>2, <2>4, CompleteAppend
  <2>6. Complete(s) \o Append(Complete(u), x.frame)
          = Append(Complete(s) \o Complete(u), x.frame)
    <3>1. Complete(s) \in Seq(Frames) /\ Complete(u) \in Seq(Frames)
      BY <2>2, CompleteType
    <3>2. x.frame \in Frames
      BY <2>2, CellFacts
    <3> QED
      BY <3>1, <3>2, ConcatAppend
  <2>7. Complete(s \o Append(u, x)) = Complete(s) \o Complete(Append(u, x))
    <3>1. CASE IsLast(x)
      BY <2>3, <2>4, <2>5, <2>6, <3>1, Zenon
    <3>2. CASE ~IsLast(x)
      BY <2>3, <2>4, <2>5, <3>2, Zenon
    <3> QED
      BY <3>1, <3>2
  <2>8. Both(k)
    BY <2>2, <2>7, Zenon
  <2>9. k \in 0 .. Len(t)
    OBVIOUS
  <2> HIDE DEF Both
  <2> QED
    BY <2>8, <2>9
<1>4. Len(t) \in T
  <2> HIDE DEF T
  <2>1. 0 .. Len(t) \subseteq T
    BY <1>1, <1>2, <1>3, CountUp
  <2> QED
    BY <1>1, <2>1
<1>5. Cut(Len(t)) = t
  BY SubSeqFull
<1> QED
  BY <1>4, <1>5

\* The first cells of a stream complete the first ones of its frames.
LEMMA CompletePrefix ==
  ASSUME NEW s \in Seq(Cell), NEW n \in 0 .. Len(s)
  PROVE  \E m \in 0 .. Len(Complete(s)) :
           Complete(SubSeq(s, 1, n)) = SubSeq(Complete(s), 1, m)
<1>1. PICK u, v : u = SubSeq(s, 1, n) /\ v = SubSeq(s, n + 1, Len(s))
  OBVIOUS
<1>2. u \in Seq(Cell) /\ v \in Seq(Cell)
  BY <1>1
<1>3. u \o v = s
  <2>1. /\ 1 \in 1 .. Len(s) + 1
        /\ n \in 1 - 1 .. Len(s)
        /\ Len(s) \in n .. Len(s)
    OBVIOUS
  <2>2. u \o v = SubSeq(s, 1, Len(s))
    BY <1>1, <2>1, ConcatAdjacentSubSeq
  <2> QED
    BY <2>2, SubSeqFull
<1>4. PICK p \in Seq(Frames), q \in Seq(Frames) :
        p = Complete(u) /\ q = Complete(v)
  BY <1>2, CompleteType
<1>5. Complete(s) = p \o q
  BY <1>2, <1>3, <1>4, CompleteConcat
<1>6. SubSeq(p \o q, 1, Len(p)) = p /\ Len(p) \in 0 .. Len(p \o q)
  <2>1. PICK r : r = p \o q
    OBVIOUS
  <2>2. /\ r \in Seq(Frames)
        /\ Len(r) = Len(p) + Len(q)
        /\ \A i \in 1 .. Len(p) : r[i] = p[i]
    BY <2>1, ConcatProperties
  <2>3. Len(p) \in 0 .. Len(r)
    BY <2>2
  <2>4. /\ SubSeq(r, 1, Len(p)) \in Seq(Frames)
        /\ Len(SubSeq(r, 1, Len(p))) = Len(p)
        /\ \A i \in 1 .. Len(p) : SubSeq(r, 1, Len(p))[i] = r[i]
    BY <2>2, <2>3, SubSeqProperties
  <2>5. SubSeq(r, 1, Len(p)) = p
    BY <2>2, <2>4, SeqEqual
  <2> QED
    BY <2>1, <2>3, <2>5
<1> QED
  BY <1>1, <1>4, <1>5, <1>6

\* The beginning of a frame completes nothing, a whole one itself.
LEMMA CompleteFirst ==
  ASSUME NEW f \in Frames, NEW g, FirstOf(g, f)
  PROVE  Complete(g) = IF Len(g) = Size(f) THEN <<f>> ELSE <<>>
<1>1. /\ g \in Seq(Cell)
      /\ Len(g) \in Nat
      /\ Len(g) <= Size(f)
      /\ \A i \in 1 .. Len(g) : g[i] = CellOf(f, i)
  BY DEF FirstOf
<1>2. Size(f) \in Nat \ {0}
  BY SizeIsPositive
<1>3. \A k \in 1 .. Len(g) : /\ g[k].frame = f
                             /\ IsLast(g[k]) <=> k = Size(f)
  <2> SUFFICES ASSUME NEW k \in 1 .. Len(g)
               PROVE  /\ g[k].frame = f
                      /\ IsLast(g[k]) <=> k = Size(f)
    OBVIOUS
  <2>1. k \in 1 .. Size(f)
    BY <1>1, <1>2
  <2>2. g[k].frame = f /\ g[k].place = k
    BY <1>1, <2>1, CellOfFacts
  <2> QED
    BY <2>2 DEF IsLast, Size
<1> DEFINE Cut(k) == SubSeq(g, 1, k)
           Is(k) == Complete(Cut(k)) = IF k = Size(f) THEN <<f>> ELSE <<>>
           T == {k \in 0 .. Len(g) : Is(k)}
<1>4. 0 \in T
  <2>1. Cut(0) = <<>>
    BY SubSeqEmpty
  <2>2. Is(0)
    BY <1>2, <2>1, CompleteEmpty
  <2> HIDE DEF Is
  <2> QED
    BY <1>1, <2>2
<1>5. ASSUME NEW k \in 1 .. Len(g), k - 1 \in T
      PROVE  k \in T
  <2>1. PICK u, x : u = Cut(k - 1) /\ x = g[k]
    OBVIOUS
  <2>2. u \in Seq(Cell) /\ x \in Cell /\ Cut(k) = Append(u, x)
    BY <1>1, <2>1, NextCut
  <2>3. Complete(u) = <<>>
    <3>1. k - 1 # Size(f)
      BY <1>1, <1>2
    <3> QED
      BY <1>5, <2>1, <3>1
  <2>4. Complete(Append(u, x)) =
          IF IsLast(x) THEN Append(Complete(u), x.frame) ELSE Complete(u)
    BY <2>2, CompleteAppend
  <2>5. Append(<<>>, f) = <<f>>
    OBVIOUS
  <2>6. Is(k)
    BY <1>3, <2>1, <2>2, <2>3, <2>4, <2>5
  <2>7. k \in 0 .. Len(g)
    BY <1>1
  <2> HIDE DEF Is
  <2> QED
    BY <2>6, <2>7
<1>6. Len(g) \in T
  <2> HIDE DEF T
  <2>1. 0 .. Len(g) \subseteq T
    BY <1>1, <1>4, <1>5, CountUp
  <2> QED
    BY <1>1, <2>1
<1>7. Cut(Len(g)) = g
  BY <1>1, SubSeqFull
<1> QED
  BY <1>6, <1>7

-----------------------------------------------------------------------------
(* The channel *)

\* The cells that arrived on a connection and were not returned.
Stream(c) == IF at = c THEN got \o wire[c] ELSE wire[c]

LEMMA StreamType ==
  ASSUME TransportOK, NEW c \in Connections
  PROVE  /\ wire[c] \in Seq(Cell)
         /\ got \in Seq(Cell)
         /\ Stream(c) \in Seq(Cell)
         /\ got = <<>> => Stream(c) = wire[c]
         /\ Arrived(c) = Complete(Stream(c))
         /\ Arrived(c) \in Seq(Frames)
<1>1. wire[c] \in Seq(Cell) /\ got \in Seq(Cell)
  BY DEF TransportOK, InStep, Aligned, Stretch, Begun
<1>2. Stream(c) \in Seq(Cell)
  BY <1>1, ConcatProperties DEF Stream
<1>3. got = <<>> => Stream(c) = wire[c]
  BY <1>1, ConcatEmptySeq DEF Stream
<1>4. Arrived(c) = Complete(Stream(c))
  BY DEF Arrived, Stream
<1> QED
  BY <1>1, <1>2, <1>3, <1>4, CompleteType

\* Nothing happens that the channel shows.
LEMMA ChannelStutters ==
  ASSUME peer' = peer, delivered' = delivered,
         \A e \in Connections : Arrived(e)' = Arrived(e)
  PROVE  UNCHANGED Channel!channel
<1>1. [e \in Connections |-> Arrived(e)]' = [e \in Connections |-> Arrived(e)]
  OBVIOUS
<1> QED
  BY <1>1 DEF Channel!channel

\* What is in transit changes on one connection.
LEMMA TransitAt ==
  ASSUME NEW c \in Connections, NEW a, Arrived(c)' = a,
         \A e \in Connections : e # c => Arrived(e)' = Arrived(e)
  PROVE  [e \in Connections |-> Arrived(e)]'
           = [[e \in Connections |-> Arrived(e)] EXCEPT ![c] = a]
OBVIOUS

LEMMA ConnectsMaps ==
  ASSUME NEW c \in Connections, Connects(c)
  PROVE  Channel!Connect(c)
<1>1. \A e \in Connections : Arrived(e)' = Arrived(e)
  BY DEF Connects, Arrived
<1>2. [e \in Connections |-> Arrived(e)]' = [e \in Connections |-> Arrived(e)]
  BY <1>1
<1> QED
  BY <1>2 DEF Connects, Channel!Connect

LEMMA WritesMaps ==
  ASSUME NEW c \in Connections, NEW f \in Frames, Writes(c, f)
  PROVE  UNCHANGED Channel!channel
<1>1. \A e \in Connections : Arrived(e)' = Arrived(e)
  BY DEF Writes, Arrived, loop
<1> QED
  BY <1>1, ChannelStutters DEF Writes, loop

\* A cell that ends a frame sends it.
LEMMA SendsMaps ==
  ASSUME TransportOK, NEW c \in Connections, Sends(c)
  PROVE  \/ \E f \in Frames : Channel!Send(c, f)
         \/ UNCHANGED Channel!channel
<1>1. PICK x : x = Head(sending[c])
  OBVIOUS
<1>2. x \in Cell
  <2>1. sending[c] \in Seq(Cell) /\ sending[c] # <<>>
    BY DEF TransportOK, InStep, Aligned, Left, Sends
  <2> QED
    BY <1>1, <2>1, HeadTailProperties
<1>3. /\ peer[c] = "up" /\ peer' = peer
      /\ wire' = [wire EXCEPT ![c] = Append(wire[c], x)]
      /\ at' = at /\ got' = got /\ delivered' = delivered
  BY <1>1 DEF Sends, loop
<1>4. wire'[c] = Append(wire[c], x) /\ \A e \in Connections : e # c => wire'[e] = wire[e]
  BY <1>3 DEF TransportOK
<1>5. \A e \in Connections : e # c => Arrived(e)' = Arrived(e)
  BY <1>3, <1>4 DEF Arrived
<1>6. Stream(c)' = Append(Stream(c), x)
  <2>1. CASE at = c
    <3>1. got \o Append(wire[c], x) = Append(got \o wire[c], x)
      BY <1>2, StreamType, ConcatAppend
    <3> QED
      BY <1>3, <1>4, <2>1, <3>1 DEF Stream
  <2>2. CASE at # c
    BY <1>3, <1>4, <2>2 DEF Stream
  <2> QED
    BY <2>1, <2>2
<1>7. Arrived(c)' = Complete(Stream(c)')
  BY DEF Arrived, Stream
<1>8. Arrived(c)' = IF IsLast(x) THEN Append(Arrived(c), x.frame) ELSE Arrived(c)
  <2>1. Stream(c) \in Seq(Cell) /\ Arrived(c) = Complete(Stream(c))
    BY StreamType
  <2>2. Complete(Append(Stream(c), x)) =
          IF IsLast(x) THEN Append(Complete(Stream(c)), x.frame)
          ELSE Complete(Stream(c))
    BY <1>2, <2>1, CompleteAppend
  <2> QED
    BY <1>6, <1>7, <2>1, <2>2
<1>9. CASE IsLast(x)
  <2>1. PICK f \in Frames : f = x.frame
    BY <1>2, CellFacts
  <2>2. PICK a : a = Append(Arrived(c), f)
    OBVIOUS
  <2>3. Arrived(c)' = a
    BY <1>8, <1>9, <2>1, <2>2
  <2>4. [e \in Connections |-> Arrived(e)]'
           = [[e \in Connections |-> Arrived(e)] EXCEPT ![c] = a]
    BY <1>5, <2>3, TransitAt
  <2>5. Channel!Send(c, f)
    BY <1>3, <2>2, <2>4 DEF Channel!Send
  <2> QED
    BY <2>5
<1>10. CASE ~IsLast(x)
  <2>1. \A e \in Connections : Arrived(e)' = Arrived(e)
    BY <1>5, <1>8, <1>10
  <2> QED
    BY <1>3, <2>1, ChannelStutters
<1> QED
  BY <1>9, <1>10

\* A reset takes frames from the end.
LEMMA DiesMaps ==
  ASSUME TransportOK, NEW c \in Connections, Dies(c)
  PROVE  Channel!End(c)
<1>1. PICK n \in 0 .. Len(wire[c]) :
        wire' = [wire EXCEPT ![c] = SubSeq(wire[c], 1, n)]
  BY DEF Dies
<1>2. /\ peer[c] = "up" /\ peer' = [peer EXCEPT ![c] = "gone"]
      /\ at' = at /\ got' = got /\ delivered' = delivered
  BY DEF Dies, loop
<1>3. /\ wire'[c] = SubSeq(wire[c], 1, n)
      /\ \A e \in Connections : e # c => wire'[e] = wire[e]
  BY <1>1 DEF TransportOK
<1>4. \A e \in Connections : e # c => Arrived(e)' = Arrived(e)
  BY <1>2, <1>3 DEF Arrived
<1>5. PICK k \in 0 .. Len(Stream(c)) : Stream(c)' = SubSeq(Stream(c), 1, k)
  <2>1. wire[c] \in Seq(Cell) /\ got \in Seq(Cell)
    BY StreamType
  <2>2. CASE at = c
    <3>1. PICK r : r = got \o wire[c]
      OBVIOUS
    <3>2. PICK u : u = SubSeq(wire[c], 1, n)
      OBVIOUS
    <3>3. /\ r \in Seq(Cell)
          /\ Len(r) = Len(got) + Len(wire[c])
          /\ \A i \in 1 .. Len(r) : r[i] = IF i <= Len(got) THEN got[i]
                                           ELSE wire[c][i - Len(got)]
      BY <2>1, <3>1, ConcatProperties
    <3>4. /\ u \in Seq(Cell)
          /\ Len(u) = n
          /\ \A i \in 1 .. n : u[i] = wire[c][i]
      BY <2>1, <3>2, SubSeqProperties
    <3>5. /\ got \o u \in Seq(Cell)
          /\ Len(got \o u) = Len(got) + n
          /\ \A i \in 1 .. Len(got) + n :
               (got \o u)[i] = IF i <= Len(got) THEN got[i] ELSE u[i - Len(got)]
      BY <2>1, <3>4, ConcatProperties
    <3>6. PICK k : k = Len(got) + n
      OBVIOUS
    <3>7. k \in 0 .. Len(r)
      BY <2>1, <3>3, <3>6
    <3>8. /\ SubSeq(r, 1, k) \in Seq(Cell)
          /\ Len(SubSeq(r, 1, k)) = k
          /\ \A i \in 1 .. k : SubSeq(r, 1, k)[i] = r[i]
      BY <3>3, <3>7, SubSeqProperties
    <3>9. \A i \in 1 .. k : (got \o u)[i] = r[i]
      <4> SUFFICES ASSUME NEW i \in 1 .. k PROVE (got \o u)[i] = r[i]
        OBVIOUS
      <4>1. i \in 1 .. Len(r) /\ Len(got) \in Nat
        BY <2>1, <3>3, <3>7
      <4>2. CASE i <= Len(got)
        BY <3>3, <3>5, <3>6, <4>1, <4>2
      <4>3. CASE ~(i <= Len(got))
        <5>1. i - Len(got) \in 1 .. n
          BY <3>6, <4>1, <4>3
        <5>2. u[i - Len(got)] = wire[c][i - Len(got)]
          BY <3>4, <5>1
        <5> QED
          BY <3>3, <3>5, <3>6, <4>1, <4>3, <5>2
      <4> QED
        BY <4>2, <4>3
    <3>10. got \o u = SubSeq(r, 1, k)
      BY <3>5, <3>6, <3>8, <3>9, SeqEqual
    <3> QED
      BY <1>2, <1>3, <2>2, <3>1, <3>2, <3>7, <3>10 DEF Stream
  <2>3. CASE at # c
    BY <1>2, <1>3, <2>3 DEF Stream
  <2> QED
    BY <2>2, <2>3
<1>6. PICK m \in 0 .. Len(Arrived(c)) : Arrived(c)' = SubSeq(Arrived(c), 1, m)
  <2>1. Stream(c) \in Seq(Cell) /\ Arrived(c) = Complete(Stream(c))
    BY StreamType
  <2>2. Arrived(c)' = Complete(Stream(c)')
    BY DEF Arrived, Stream
  <2> QED
    BY <1>5, <2>1, <2>2, CompletePrefix
<1>7. PICK a : a = SubSeq(Arrived(c), 1, m)
  OBVIOUS
<1>8. [e \in Connections |-> Arrived(e)]'
         = [[e \in Connections |-> Arrived(e)] EXCEPT ![c] = a]
  BY <1>4, <1>6, <1>7, TransitAt
<1> QED
  BY <1>2, <1>6, <1>7, <1>8 DEF Channel!End

\* The loop goes on between frames.
LEMMA TurnMaps ==
  ASSUME TransportOK, got = <<>>, got' = <<>>, peer' = peer, wire' = wire,
         delivered' = delivered
  PROVE  UNCHANGED Channel!channel
<1>1. ASSUME NEW e \in Connections
      PROVE  Arrived(e)' = Arrived(e)
  <2>1. wire[e] \in Seq(Cell) /\ <<>> \o wire[e] = wire[e]
    BY StreamType, ConcatEmptySeq
  <2> QED
    BY <2>1 DEF Arrived
<1> QED
  BY <1>1, ChannelStutters

\* The end of the stream, in a frame that nobody completes.
LEMMA ClosesMaps ==
  ASSUME TransportOK, NEW c \in Connections, Closes(c)
  PROVE  Channel!Close(c)
<1>1. /\ at = c /\ wire[c] = <<>> /\ peer[c] = "gone"
      /\ peer' = [peer EXCEPT ![c] = "none"]
      /\ wire' = [wire EXCEPT ![c] = <<>>]
      /\ got' = <<>>
      /\ delivered' = delivered
  BY DEF Closes, Close
<1>2. /\ wire'[c] = <<>>
      /\ \A e \in Connections : e # c => wire'[e] = wire[e]
  BY <1>1 DEF TransportOK
<1>3. Arrived(c) = <<>>
  <2>1. Stream(c) = got
    BY <1>1, StreamType, ConcatEmptySeq DEF Stream
  <2>2. Complete(got) = <<>>
    <3>1. CASE got = <<>>
      BY <3>1, CompleteEmpty
    <3>2. CASE got # <<>>
      <4>1. /\ got \in Seq(Cell)
            /\ Len(got) < Size(got[1].frame)
            /\ \A i \in 1 .. Len(got) : got[i] = CellOf(got[1].frame, i)
        BY <3>2 DEF TransportOK, Begun
      <4>2. PICK f \in Frames : f = got[1].frame
        <5>1. got[1] \in Cell
          BY <3>2, <4>1
        <5> QED
          BY <5>1, CellFacts
      <4>3. FirstOf(got, f) /\ Len(got) # Size(f)
        <5>1. Size(f) \in Nat /\ Len(got) \in Nat
          BY <4>1, SizeIsPositive
        <5> QED
          BY <4>1, <4>2, <5>1 DEF FirstOf
      <4> QED
        BY <4>3, CompleteFirst
    <3> QED
      BY <3>1, <3>2
  <2> QED
    BY <2>1, <2>2, StreamType
<1>4. ASSUME NEW e \in Connections
      PROVE  Arrived(e)' = Arrived(e)
  <2>1. wire[e] \in Seq(Cell) /\ <<>> \o wire[e] = wire[e]
    BY StreamType, ConcatEmptySeq
  <2>2. CASE e = c
    <3>1. wire'[e] = wire[e]
      BY <1>1, <1>2, <2>2
    <3>2. Arrived(e)' = Complete(wire[e])
      BY <1>1, <2>1, <3>1 DEF Arrived
    <3> QED
      BY <1>1, <1>3, <2>2, <3>2, CompleteEmpty
  <2>3. CASE e # c
    BY <1>1, <1>2, <2>1, <2>3 DEF Arrived
  <2> QED
    BY <2>2, <2>3
<1>5. [e \in Connections |-> Arrived(e)]' = [e \in Connections |-> Arrived(e)]
  BY <1>4
<1> QED
  BY <1>1, <1>3, <1>5 DEF Channel!Close

\* A read that completes a frame delivers it; another one shows nothing.
LEMMA ReadsMaps ==
  ASSUME TransportOK, NEW c \in Connections, Reads(c)
  PROVE  Channel!Deliver(c) \/ UNCHANGED Channel!channel
<1>1. PICK n : n = IF Missing(got) < Len(wire[c])
                   THEN Missing(got) ELSE Len(wire[c])
  OBVIOUS
<1>2. PICK cells : cells = got \o SubSeq(wire[c], 1, n)
  OBVIOUS
<1>3. PICK v : v = SubSeq(wire[c], n + 1, Len(wire[c]))
  OBVIOUS
<1>4. /\ at = c
      /\ wire[c] # <<>>
      /\ wire' = [wire EXCEPT ![c] = v]
      /\ got' = IF Missing(cells) = 0 THEN <<>> ELSE cells
      /\ at' = IF Missing(cells) = 0 THEN After(c, conns) ELSE c
      /\ delivered' = IF Missing(cells) = 0 /\ decodes(cells)
                      THEN [delivered EXCEPT ![c] = Append(delivered[c], cells[1].frame)]
                      ELSE delivered
      /\ peer' = peer
  BY <1>1, <1>2, <1>3 DEF Reads, processes
<1>5. /\ wire[c] \in Seq(Cell)
      /\ got \in Seq(Cell)
      /\ Stream(c) \in Seq(Cell)
      /\ Arrived(c) = Complete(Stream(c))
  BY StreamType
<1>6. /\ Missing(cells) = 0 => decodes(cells)
      /\ Missing(cells) # 0 => Begun(cells)
  <2>1. Begun(got) /\ Aligned(peer[c], sending[c], wire[c], LastGot(got))
    BY <1>4 DEF TransportOK, InStep, LastRead, LastGot
  <2> QED
    BY <1>1, <1>2, <1>3, <1>4, <2>1, ReadsInStep
<1>7. n \in 0 .. Len(wire[c])
  <2>1. PICK f \in Frames : FirstOf(got, f)
    <3>1. Begun(got) /\ Aligned(peer[c], sending[c], wire[c], LastGot(got))
      BY <1>4 DEF TransportOK, InStep, LastRead, LastGot
    <3>2. Stretch(wire[c]) /\ Follows(LastGot(got), wire[c][1])
      BY <1>4, <3>1 DEF Aligned
    <3> QED
      BY <1>4, <3>1, <3>2, FrameGoesOn
  <2>2. Missing(got) \in Nat
    BY <2>1, MissingOfFirst
  <2> QED
    BY <1>1, <1>5, <2>2
<1>8. /\ cells \in Seq(Cell)
      /\ v \in Seq(Cell)
      /\ Stream(c) = cells \o v
  <2>1. PICK u : u = SubSeq(wire[c], 1, n)
    OBVIOUS
  <2>2. u \in Seq(Cell) /\ v \in Seq(Cell)
    BY <1>3, <1>5, <1>7, <2>1
  <2>3. u \o v = wire[c]
    <3>1. /\ 1 \in 1 .. Len(wire[c]) + 1
          /\ n \in 1 - 1 .. Len(wire[c])
          /\ Len(wire[c]) \in n .. Len(wire[c])
      BY <1>5, <1>7
    <3>2. u \o v = SubSeq(wire[c], 1, Len(wire[c]))
      BY <1>3, <1>5, <2>1, <3>1, ConcatAdjacentSubSeq
    <3> QED
      BY <1>5, <3>2, SubSeqFull
  <2>4. got \o (u \o v) = (got \o u) \o v
    BY <1>5, <2>2, ConcatAssociative
  <2>5. got \o u \in Seq(Cell)
    BY <1>5, <2>2, ConcatProperties
  <2> QED
    BY <1>2, <1>4, <2>1, <2>2, <2>3, <2>4, <2>5 DEF Stream
<1>9. wire'[c] = v /\ \A e \in Connections : e # c => wire'[e] = wire[e]
  BY <1>4 DEF TransportOK
<1>10. \A e \in Connections : e # c => Arrived(e)' = Arrived(e)
  <2> SUFFICES ASSUME NEW e \in Connections, e # c
               PROVE  Arrived(e)' = Arrived(e)
    OBVIOUS
  <2>1. wire[e] \in Seq(Cell) /\ <<>> \o wire[e] = wire[e]
    BY StreamType, ConcatEmptySeq
  <2>2. at' = e => got' = <<>>
    BY <1>4
  <2> QED
    BY <1>4, <1>9, <2>1, <2>2 DEF Arrived
<1>11. CASE Missing(cells) # 0
  <2>1. Arrived(c)' = Complete(cells \o v)
    BY <1>4, <1>9, <1>11 DEF Arrived
  <2>2. \A e \in Connections : Arrived(e)' = Arrived(e)
    BY <1>5, <1>8, <1>10, <2>1
  <2> QED
    BY <1>4, <1>11, <2>2, ChannelStutters
<1>12. CASE Missing(cells) = 0
  <2>1. PICK f \in Frames : cells = encode(f)
    BY <1>6, <1>12 DEF decodes
  <2>2. FirstOf(cells, f) /\ Len(cells) = Size(f) /\ cells[1].frame = f
    <3>1. /\ encode(f) \in Seq(Cell)
          /\ Len(encode(f)) = Size(f)
          /\ \A i \in 1 .. Size(f) : encode(f)[i] = CellOf(f, i)
      BY EncodeFacts
    <3>2. Size(f) \in Nat \ {0} /\ 1 \in 1 .. Size(f)
      BY SizeIsPositive
    <3> QED
      BY <2>1, <3>1, <3>2, CellOfFacts DEF FirstOf
  <2>3. Complete(cells) = <<f>>
    BY <2>2, CompleteFirst
  <2>4. PICK r \in Seq(Frames) : r = Complete(v)
    BY <1>8, CompleteType
  <2>5. Arrived(c) = <<f>> \o r
    BY <1>5, <1>8, <2>3, <2>4, CompleteConcat
  <2>6. Arrived(c)' = r
    <3>1. <<>> \o v = v
      BY <1>8, ConcatEmptySeq
    <3> QED
      BY <1>4, <1>9, <1>12, <2>4, <3>1 DEF Arrived
  <2>7. /\ Arrived(c) # <<>>
        /\ Head(Arrived(c)) = f
        /\ Tail(Arrived(c)) = r
    <3>1. /\ <<f>> \o r # <<>>
          /\ Head(<<f>> \o r) = f
          /\ Tail(<<f>> \o r) = r
      OBVIOUS
    <3> QED
      BY <2>5, <3>1, Zenon
  <2>8. [e \in Connections |-> Arrived(e)]'
           = [[e \in Connections |-> Arrived(e)] EXCEPT ![c] = r]
    BY <1>10, <2>6, TransitAt
  <2>9. delivered' = [delivered EXCEPT ![c] = Append(delivered[c], f)]
    BY <1>4, <1>6, <1>12, <2>2
  <2>10. Channel!Deliver(c)
    BY <1>4, <2>7, <2>8, <2>9 DEF Channel!Deliver
  <2> QED
    BY <2>10
<1> QED
  BY <1>11, <1>12

LEMMA ChannelStart == TInit => Channel!CInit
<1> HAVE TInit
<1>1. \A c \in Connections : Arrived(c) = <<>>
  <2>1. <<>> \o <<>> = <<>>
    OBVIOUS
  <2> QED
    BY <2>1, CompleteEmpty DEF TInit, Arrived
<1> QED
  BY <1>1 DEF TInit, Channel!CInit

LEMMA ChannelStep ==
  TransportOK /\ [TNext]_tvars => [Channel!CNext]_(Channel!channel)
<1> SUFFICES ASSUME TransportOK, [TNext]_tvars
             PROVE  Channel!CNext \/ UNCHANGED Channel!channel
  OBVIOUS
<1>1. CASE Accepts
  <2>1. /\ got = <<>> /\ got' = <<>> /\ wire' = wire /\ peer' = peer
        /\ delivered' = delivered
    BY <1>1 DEF Accepts, TransportOK, processes
  <2> QED
    BY <2>1, TurnMaps
<1>2. ASSUME NEW c \in Connections, Reads(c)
      PROVE  Channel!CNext \/ UNCHANGED Channel!channel
  BY <1>2, ReadsMaps DEF Channel!CNext
<1>3. ASSUME NEW c \in Connections, Skips(c)
      PROVE  UNCHANGED Channel!channel
  <2>1. /\ got = <<>> /\ got' = <<>> /\ wire' = wire /\ peer' = peer
        /\ delivered' = delivered
    BY <1>3 DEF Skips, processes
  <2> QED
    BY <2>1, TurnMaps
<1>4. ASSUME NEW c \in Connections, Closes(c)
      PROVE  Channel!CNext
  BY <1>4, ClosesMaps DEF Channel!CNext
<1>5. ASSUME NEW c \in Connections, Connects(c)
      PROVE  Channel!CNext
  BY <1>5, ConnectsMaps DEF Channel!CNext
<1>6. ASSUME NEW c \in Connections, Sends(c)
      PROVE  Channel!CNext \/ UNCHANGED Channel!channel
  BY <1>6, SendsMaps DEF Channel!CNext
<1>7. ASSUME NEW c \in Connections, Dies(c)
      PROVE  Channel!CNext
  BY <1>7, DiesMaps DEF Channel!CNext
<1>8. ASSUME NEW c \in Connections, NEW f \in Frames, Writes(c, f)
      PROVE  UNCHANGED Channel!channel
  BY <1>8, WritesMaps
<1>9. CASE UNCHANGED tvars
  <2>1. /\ peer' = peer /\ delivered' = delivered
        /\ at' = at /\ got' = got /\ wire' = wire
    BY <1>9 DEF tvars, processes, loop
  <2>2. \A e \in Connections : Arrived(e)' = Arrived(e)
    BY <2>1 DEF Arrived
  <2> QED
    BY <2>1, <2>2, ChannelStutters
<1> QED
  BY <1>1, <1>2, <1>3, <1>4, <1>5, <1>6, <1>7, <1>8, <1>9 DEF TNext, Thread

\* Connections behave as FrameChannel says, which is how Protocol models
\* them: frames are returned whole, each once, in the order in which they
\* were sent and before the end of the stream, and only the end of a process
\* takes any away, the last ones.
THEOREM ChannelImplemented == TSpec => ImplementsChannel
<1> QED
  BY TransportInit, TransportStep, ChannelStart, ChannelStep, PTL
     DEF TSpec, ImplementsChannel, Channel!CSpec
=============================================================================
