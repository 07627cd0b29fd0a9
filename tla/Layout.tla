------------------------------- MODULE Layout -------------------------------
(***************************************************************************)
(* How a structure is written to a stream and read from one, by the calls  *)
(* that write and read what it consists of.  A layout is a sequence of     *)
(* items: a value or a structure, a vector after its length, an optional   *)
(* after a flag.  The empty layout is that of a plain value.               *)
(***************************************************************************)
EXTENDS Integers, SequencesExt

CONSTANTS
  Null,
  WriteInner(_, _),   \* what is written for a member of this layout
  ReadInner(_, _),    \* what a reader with this layout makes of a stream
  FitsInner(_, _)     \* a value has the members that this layout names

Fields(layout) == {layout[i].field : i \in DOMAIN layout}

-----------------------------------------------------------------------------

WriteItem(it, m) ==
  CASE it.kind = "one" -> WriteInner(it.of, m)
    [] it.kind = "many" ->
         <<Len(m)>>
         \o FlattenSeq([i \in DOMAIN m |-> WriteInner(it.of, m[i])])
    [] it.kind = "maybe" -> IF m = Null THEN <<FALSE>> ELSE <<TRUE, m>>

Write(layout, v) ==
  IF layout = <<>> THEN <<v>>
  ELSE FlattenSeq([i \in DOMAIN layout |->
                     WriteItem(layout[i], v[layout[i].field])])

-----------------------------------------------------------------------------

\* What was read and what is left of the stream.
Got(value, rest) == [value |-> value, rest |-> rest]

Another(of, got) ==
  LET e == ReadInner(of, got.rest)
  IN  Got(Append(got.value, e.value), e.rest)

ReadEach(of, n, cells) ==
  LET got[i \in 0 .. n] == IF i = 0 THEN Got(<<>>, cells)
                           ELSE Another(of, got[i - 1])
  IN  got[n]

ReadItem(it, cells) ==
  CASE it.kind = "one" -> ReadInner(it.of, cells)
    [] it.kind = "many" -> ReadEach(it.of, Head(cells), Tail(cells))
    [] it.kind = "maybe" -> IF Head(cells)
                            THEN Got(Head(Tail(cells)), Tail(Tail(cells)))
                            ELSE Got(Null, Tail(cells))

\* A structure with one more of its members.
Assign(s, f, m) == [x \in DOMAIN s \cup {f} |-> IF x = f THEN m ELSE s[x]]

Extend(got, it) ==
  LET m == ReadItem(it, got.rest)
  IN  Got(Assign(got.value, it.field, m.value), m.rest)

Read(layout, cells) ==
  LET got[i \in 0 .. Len(layout)] == IF i = 0 THEN Got(<<>>, cells)
                                     ELSE Extend(got[i - 1], layout[i])
  IN  IF layout = <<>> THEN Got(Head(cells), Tail(cells))
      ELSE got[Len(layout)]

-----------------------------------------------------------------------------

FitsItem(it, m) ==
  \/ it.kind = "one" /\ FitsInner(it.of, m)
  \/ /\ it.kind = "many"
     /\ m \in Seq(ToSet(m))
     /\ \A i \in DOMAIN m : FitsInner(it.of, m[i])
  \/ it.kind = "maybe"

\* The value is a structure with the members that the layout names.
Fits(layout, v) ==
  \/ layout = <<>>
  \/ /\ layout \in Seq(ToSet(layout))
     /\ v = [f \in Fields(layout) |-> v[f]]
     /\ \A i \in DOMAIN layout : FitsItem(layout[i], v[layout[i].field])
=============================================================================
