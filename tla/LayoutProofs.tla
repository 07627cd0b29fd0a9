---------------------------- MODULE LayoutProofs ----------------------------
(***************************************************************************)
(* A reader that has the writer's layout reads the value that was written, *)
(* and leaves what follows it: for every layout and every value that has   *)
(* its members, if that is so of what the structure consists of.           *)
(***************************************************************************)
EXTENDS Layout, SequenceTheorems, WellFoundedInduction, TLAPS

-----------------------------------------------------------------------------
(* Counting and iterating *)

\* Counting up to n.
LEMMA CountsUp ==
  ASSUME NEW n \in Nat, NEW T, 0 \in T,
         \A k \in 1 .. n : k - 1 \in T => k \in T
  PROVE  0 .. n \subseteq T
<1> DEFINE B == {k \in Nat : k <= n /\ k \notin T}
<1> SUFFICES ASSUME B # {} PROVE FALSE
  OBVIOUS
<1>1. PICK m \in B : \A k \in B : m <= k
  <2> DEFINE R == {e \in Nat \X Nat : e[1] < e[2]}
  <2>1. B \subseteq Nat
    OBVIOUS
  <2> HIDE DEF B
  <2>2. IsWellFoundedOn(R, Nat)
    BY NatLessThanWellFounded DEF OpToRel
  <2>3. PICK m \in B : \A k \in B : ~(<<k, m>> \in R)
    BY <2>1, <2>2, WFMin
  <2>4. ASSUME NEW k \in B
        PROVE  m <= k
    <3>1. ~(<<k, m>> \in R)
      BY <2>3
    <3>2. k \in Nat /\ m \in Nat
      BY <2>1
    <3> QED
      BY <3>1, <3>2
  <2> QED
    BY <2>4
<1>2. m # 0
  OBVIOUS
<1>3. m - 1 \in 0 .. n /\ m - 1 \in T
  BY <1>1, <1>2
<1> QED
  BY <1>2, <1>3

\* f iterates the steps, from b on.
IsRun(f, R, n, b, step) ==
  /\ f \in [0 .. n -> R]
  /\ f[0] = b
  /\ \A i \in 1 .. n : f[i] = step[i][f[i - 1]]

\* A function can be built up value by value.
LEMMA Iterates ==
  ASSUME NEW R, NEW n \in Nat, NEW b \in R, NEW step \in [1 .. n -> [R -> R]]
  PROVE  \E f : IsRun(f, R, n, b, step)
<1> DEFINE Built(k, f) ==
             /\ f \in [0 .. k -> R]
             /\ f[0] = b
             /\ \A i \in 1 .. k : f[i] = step[i][f[i - 1]]
           T == {k \in 0 .. n : \E f : Built(k, f)}
<1>1. 0 \in T
  <2>1. Built(0, [i \in 0 .. 0 |-> b])
    OBVIOUS
  <2> HIDE DEF Built
  <2> QED
    BY <2>1
<1>2. ASSUME NEW k \in 1 .. n, k - 1 \in T
      PROVE  k \in T
  <2>1. PICK f : Built(k - 1, f)
    BY <1>2
  <2> DEFINE g == [i \in 0 .. k |->
                     IF i = k THEN step[k][f[k - 1]] ELSE f[i]]
  <2>2. f[k - 1] \in R
    BY <2>1
  <2>3. g \in [0 .. k -> R]
    BY <2>1, <2>2
  <2>4. g[0] = b
    BY <2>1
  <2>5. ASSUME NEW i \in 1 .. k
        PROVE  g[i] = step[i][g[i - 1]]
    <3>1. /\ g[i - 1] = f[i - 1]
          /\ g[i] = IF i = k THEN step[k][f[k - 1]] ELSE f[i]
      OBVIOUS
    <3> HIDE DEF g
    <3>2. CASE i = k
      BY <3>1, <3>2
    <3>3. CASE i # k
      <4>1. i \in 1 .. k - 1
        BY <3>3
      <4>2. f[i] = step[i][f[i - 1]]
        BY <2>1, <4>1
      <4> QED
        BY <3>1, <3>3, <4>2
    <3> QED
      BY <3>2, <3>3
  <2>6. Built(k, g)
    <3> HIDE DEF g
    <3> QED
      BY <2>3, <2>4, <2>5
  <2> HIDE DEF Built
  <2> QED
    BY <2>6
<1>3. 0 .. n \subseteq T
  <2> HIDE DEF T
  <2> QED
    BY <1>1, <1>2, CountsUp
<1>4. n \in T
  <2> HIDE DEF T
  <2> QED
    BY <1>3
<1>5. PICK f : Built(n, f)
  BY <1>4
<1>6. IsRun(f, R, n, b, step)
  BY <1>5 DEF IsRun
<1> QED
  BY <1>6

\* Two functions that start alike and go on alike are alike.
LEMMA SameSteps ==
  ASSUME NEW n \in Nat, NEW f, NEW g, f[0] = g[0],
         \A i \in 1 .. n : f[i - 1] = g[i - 1] => f[i] = g[i]
  PROVE  f[n] = g[n]
<1> DEFINE T == {i \in 0 .. n : f[i] = g[i]}
<1>1. 0 .. n \subseteq T
  <2>1. 0 \in T
    OBVIOUS
  <2>2. \A k \in 1 .. n : k - 1 \in T => k \in T
    OBVIOUS
  <2> HIDE DEF T
  <2> QED
    BY <2>1, <2>2, CountsUp
<1>2. n \in T
  <2> HIDE DEF T
  <2> QED
    BY <1>1
<1> QED
  BY <1>2

-----------------------------------------------------------------------------
(* Cells *)

\* A sequence, of whatever it has.
IsCells(s) == s \in Seq(ToSet(s))

\* Every sequence is one of cells.
LEMMA SeqIsCells ==
  ASSUME NEW S, NEW s \in Seq(S)
  PROVE  IsCells(s)
<1>1. s = [i \in 1 .. Len(s) |-> s[i]] /\ Len(s) \in Nat
  BY SeqDef
<1>2. \A i \in 1 .. Len(s) : s[i] \in ToSet(s)
  BY <1>1 DEF ToSet
<1> QED
  BY <1>1, <1>2, IsASeq DEF IsCells

\* No cells at all.
LEMMA NoCells == IsCells(<<>>)
<1>1. <<>> \in Seq({})
  OBVIOUS
<1> QED
  BY <1>1, SeqIsCells

\* Cells are a sequence over any set that has them all.
LEMMA CellsAmong ==
  ASSUME NEW s, IsCells(s), NEW S, ToSet(s) \subseteq S
  PROVE  s \in Seq(S)
  BY SeqMonotonic DEF IsCells

\* Cells after cells are cells.
LEMMA CellsConcat ==
  ASSUME NEW s, IsCells(s), NEW t, IsCells(t)
  PROVE  IsCells(s \o t)
<1> DEFINE S == ToSet(s) \cup ToSet(t)
<1>1. s \in Seq(S) /\ t \in Seq(S)
  BY CellsAmong
<1>2. s \o t \in Seq(S)
  BY <1>1, ConcatProperties
<1> QED
  BY <1>2, SeqIsCells

\* The first cell, and what follows it.
LEMMA CellFirst ==
  ASSUME NEW c, NEW s, IsCells(s)
  PROVE  /\ IsCells(<<c>>)
         /\ IsCells(<<c>> \o s)
         /\ Head(<<c>> \o s) = c
         /\ Tail(<<c>> \o s) = s
<1> DEFINE S == {c} \cup ToSet(s)
<1>1. s \in Seq(S) /\ <<c>> \in Seq(S)
  BY CellsAmong
<1>2. IsCells(<<c>>)
  BY <1>1, SeqIsCells
<1>3. IsCells(<<c>> \o s)
  BY <1>2, CellsConcat
<1> HIDE DEF S
<1>4. <<c>> \o s \in Seq(S) /\ <<c>> \o s # <<>>
  BY <1>1
<1>5. Head(<<c>> \o s) = c
  BY <1>1
<1>6. Tail(<<c>> \o s) = s
  BY <1>1, ConcatProperties
<1> QED
  BY <1>2, <1>3, <1>5, <1>6

\* One cell before two streams.
LEMMA CellThen ==
  ASSUME NEW c, NEW s, IsCells(s), NEW t, IsCells(t)
  PROVE  (<<c>> \o s) \o t = <<c>> \o (s \o t)
<1> DEFINE S == {c} \cup ToSet(s) \cup ToSet(t)
<1>1. s \in Seq(S) /\ t \in Seq(S) /\ <<c>> \in Seq(S)
  BY CellsAmong
<1> HIDE DEF S
<1> QED
  BY <1>1, ConcatAssociative

\* Two cells.
LEMMA CellPair ==
  ASSUME NEW c, NEW d
  PROVE  <<c, d>> = <<c>> \o <<d>>
<1> DEFINE S == {c, d}
           s == <<c>>
           t == <<d>>
           u == <<c, d>>
<1>1. /\ s \in Seq(S) /\ Len(s) = 1 /\ s[1] = c
      /\ t \in Seq(S) /\ Len(t) = 1 /\ t[1] = d
      /\ u \in Seq(S) /\ Len(u) = 2 /\ u[1] = c /\ u[2] = d
  OBVIOUS
<1> HIDE DEF S, s, t, u
<1>2. /\ s \o t \in Seq(S) /\ Len(s \o t) = 2
      /\ (s \o t)[1] = c /\ (s \o t)[2] = d
  BY <1>1, ConcatProperties
<1>3. u = s \o t
  BY <1>1, <1>2, SeqEqual
<1> QED
  BY <1>3 DEF s, t, u

\* Concatenation, by what is known of it.
Cat(s, t) == s \o t

\* It is associative, and the empty sequence is neutral.
LEMMA CatFacts ==
  ASSUME NEW S
  PROVE  /\ <<>> \in Seq(S)
         /\ \A s, t \in Seq(S) : Cat(s, t) \in Seq(S)
         /\ \A s \in Seq(S) : Cat(<<>>, s) = s /\ Cat(s, <<>>) = s
         /\ \A s, t, u \in Seq(S) : Cat(s, Cat(t, u)) = Cat(Cat(s, t), u)
<1>1. <<>> \in Seq(S)
  OBVIOUS
<1>2. \A s, t \in Seq(S) : Cat(s, t) \in Seq(S)
  BY ConcatProperties DEF Cat
<1>3. \A s \in Seq(S) : Cat(<<>>, s) = s /\ Cat(s, <<>>) = s
  BY ConcatEmptySeq DEF Cat
<1>4. \A s, t, u \in Seq(S) : Cat(s, Cat(t, u)) = Cat(Cat(s, t), u)
  <2>1. ASSUME NEW s \in Seq(S), NEW t \in Seq(S), NEW u \in Seq(S)
        PROVE  (s \o t) \o u = s \o (t \o u)
    BY ConcatAssociative, Z3
  <2> QED
    BY <2>1, Zenon DEF Cat
<1> QED
  BY <1>1, <1>2, <1>3, <1>4

\* What is left of a flattened sequence after each of its parts.
IsLeft(left, S, parts) ==
  /\ left \in [0 .. Len(parts) -> Seq(S)]
  /\ left[0] = FlattenSeq(parts)
  /\ left[Len(parts)] = <<>>
  /\ \A i \in 1 .. Len(parts) : left[i - 1] = parts[i] \o left[i]

\* There is such a function.
LEMMA WhatIsLeft ==
  ASSUME NEW S, NEW parts \in Seq(Seq(S))
  PROVE  \E left : IsLeft(left, S, parts)
<1> DEFINE n == Len(parts)
           Q == Seq(S)
<1>1. /\ n \in Nat
      /\ DOMAIN parts = 1 .. n
      /\ \A i \in 1 .. n : parts[i] \in Q
  OBVIOUS
<1>2. /\ <<>> \in Q
      /\ \A s, t \in Q : Cat(s, t) \in Q
      /\ \A s \in Q : Cat(<<>>, s) = s /\ Cat(s, <<>>) = s
  BY CatFacts
<1>a. \A s, t, u \in Q : Cat(s, Cat(t, u)) = Cat(Cat(s, t), u)
  BY CatFacts
<1> HIDE DEF n, Q
<1>3. PICK f \in [0 .. n -> Q] :
        f[0] = <<>> /\ \A i \in 1 .. n : f[i] = Cat(f[i - 1], parts[i])
  <2> DEFINE step == [i \in 1 .. n |-> [a \in Q |-> Cat(a, parts[i])]]
  <2>1. step \in [1 .. n -> [Q -> Q]]
    BY <1>1, <1>2
  <2>2. \A i \in 1 .. n, a \in Q : step[i][a] = Cat(a, parts[i])
    OBVIOUS
  <2> HIDE DEF step
  <2>3. PICK r : IsRun(r, Q, n, <<>>, step)
    BY <1>1, <1>2, <2>1, Iterates
  <2>4. \A i \in 1 .. n : i - 1 \in 0 .. n
    BY <1>1
  <2> QED
    BY <2>2, <2>3, <2>4 DEF IsRun
<1>4. PICK b \in [0 .. n -> Q] :
        /\ b[0] = <<>>
        /\ \A i \in 1 .. n : b[i] = Cat(parts[n - i + 1], b[i - 1])
  <2> DEFINE step == [i \in 1 .. n |-> [a \in Q |-> Cat(parts[n - i + 1], a)]]
  <2>1. step \in [1 .. n -> [Q -> Q]]
    <3>1. \A i \in 1 .. n : n - i + 1 \in 1 .. n
      BY <1>1
    <3> QED
      BY <1>1, <1>2, <3>1
  <2>2. \A i \in 1 .. n, a \in Q : step[i][a] = Cat(parts[n - i + 1], a)
    OBVIOUS
  <2> HIDE DEF step
  <2>3. PICK r : IsRun(r, Q, n, <<>>, step)
    BY <1>1, <1>2, <2>1, Iterates
  <2>4. \A i \in 1 .. n : i - 1 \in 0 .. n
    BY <1>1
  <2> QED
    BY <2>2, <2>3, <2>4 DEF IsRun
<1> DEFINE back == [i \in 0 .. n |-> b[n - i]]
<1>5. back \in [0 .. n -> Q] /\ back[n] = <<>>
  BY <1>1, <1>4
<1>6. ASSUME NEW i \in 1 .. n
      PROVE  back[i - 1] = Cat(parts[i], back[i])
  <2>1. /\ n - (i - 1) \in 1 .. n
        /\ n - (n - (i - 1)) + 1 = i
        /\ n - (i - 1) - 1 = n - i
    BY <1>1
  <2>2. b[n - (i - 1)] = Cat(parts[i], b[n - i])
    BY <1>4, <2>1
  <2> QED
    BY <1>1, <2>2
<1> HIDE DEF back
<1>7. \A i \in 0 .. n : Cat(f[i], back[i]) = back[0]
  <2> DEFINE T == {i \in 0 .. n : Cat(f[i], back[i]) = back[0]}
  <2>1. 0 \in T
    <3>1. back[0] \in Q /\ 0 \in 0 .. n
      BY <1>1, <1>5
    <3> QED
      BY <1>2, <1>3, <3>1
  <2>2. ASSUME NEW i \in 1 .. n, i - 1 \in T
        PROVE  i \in T
    <3>1. i - 1 \in 0 .. n /\ i \in 0 .. n
      BY <1>1
    <3>2. f[i - 1] \in Q /\ parts[i] \in Q /\ back[i] \in Q
      BY <1>1, <1>3, <1>5, <3>1
    <3>3. Cat(f[i - 1], Cat(parts[i], back[i]))
            = Cat(Cat(f[i - 1], parts[i]), back[i])
      BY <1>a, <3>2
    <3>4. f[i] = Cat(f[i - 1], parts[i])
      BY <1>3
    <3> QED
      BY <1>6, <2>2, <3>1, <3>3, <3>4
  <2>3. 0 .. n \subseteq T
    <3> HIDE DEF T
    <3> QED
      BY <1>1, <2>1, <2>2, CountsUp
  <2> QED
    BY <2>3
<1>8. f[n] = back[0]
  <2>1. n \in 0 .. n
    BY <1>1
  <2> QED
    BY <1>2, <1>3, <1>5, <1>7, <2>1
<1>9. FlattenSeq(parts) = f[n]
  <2>1. CASE n = 0
    <3>1. parts = <<>>
      BY <2>1 DEF n
    <3> QED
      BY <1>3, <2>1, <3>1 DEF FlattenSeq, n
  <2>2. CASE n # 0
    <3> DEFINE Eq(g) == g = [i \in 1 .. n |-> IF i = 1 THEN parts[i]
                                             ELSE Cat(g[i - 1], parts[i])]
               g == CHOOSE g : Eq(g)
    <3>1. FlattenSeq(parts) = g[n]
      BY <2>2 DEF FlattenSeq, n, Cat
    <3>2. f[1] = parts[1]
      <4>1. 1 \in 1 .. n /\ 1 - 1 = 0
        BY <1>1, <2>2
      <4>2. f[1] = Cat(<<>>, parts[1]) /\ parts[1] \in Q
        BY <1>1, <1>3, <4>1
      <4> QED
        BY <1>2, <4>2
    <3>3. Eq([i \in 1 .. n |-> f[i]])
      <4>1. \A i \in 1 .. n : i # 1 => i - 1 \in 1 .. n
        BY <1>1
      <4> QED
        BY <1>3, <3>2, <4>1
    <3>4. Eq(g)
      <4> HIDE DEF Eq
      <4> QED
        BY <3>3
    <3> HIDE DEF g
    <3> DEFINE T == {i \in 0 .. n : i # 0 => g[i] = f[i]}
    <3>5. 0 \in T
      BY <1>1
    <3>6. ASSUME NEW i \in 1 .. n, i - 1 \in T
          PROVE  i \in T
      <4>1. g[i] = IF i = 1 THEN parts[i] ELSE Cat(g[i - 1], parts[i])
        BY <3>4
      <4>2. i \in 0 .. n /\ (i # 1 => i - 1 # 0)
        BY <1>1
      <4> QED
        BY <1>3, <3>2, <3>6, <4>1, <4>2
    <3>7. 0 .. n \subseteq T
      <4> HIDE DEF T
      <4> QED
        BY <1>1, <3>5, <3>6, CountsUp
    <3>8. n \in T
      <4>1. n \in 0 .. n
        BY <1>1
      <4> HIDE DEF T
      <4> QED
        BY <3>7, <4>1
    <3> QED
      BY <2>2, <3>1, <3>8
  <2> QED
    BY <2>1, <2>2
<1>10. IsLeft(back, S, parts)
  BY <1>5, <1>6, <1>8, <1>9 DEF n, Q, Cat, IsLeft
<1> QED
  BY <1>10

-----------------------------------------------------------------------------
(* Reading what was written *)

\* What a reader with the layout makes of what was written is the value,
\* whatever follows.
InnerReturns(of, m) ==
  /\ IsCells(WriteInner(of, m))
  /\ \A rest : IsCells(rest) =>
       ReadInner(of, WriteInner(of, m) \o rest) = Got(m, rest)

ItemReturns(it, m) ==
  /\ IsCells(WriteItem(it, m))
  /\ \A rest : IsCells(rest) =>
       ReadItem(it, WriteItem(it, m) \o rest) = Got(m, rest)

Returns(layout, v) ==
  /\ IsCells(Write(layout, v))
  /\ \A rest : IsCells(rest) =>
       Read(layout, Write(layout, v) \o rest) = Got(v, rest)

\* What follows each of the parts of a stream.
IsAfter(after, n, parts, rest) ==
  /\ after[0] = FlattenSeq(parts) \o rest
  /\ after[n] = rest
  /\ \A i \in 0 .. n : IsCells(after[i])
  /\ \A i \in 1 .. n : after[i - 1] = parts[i] \o after[i]

\* A stream of parts and something more is cells throughout.
LEMMA PartsOfStream ==
  ASSUME NEW n \in Nat, NEW parts, parts = [i \in 1 .. n |-> parts[i]],
         \A i \in 1 .. n : IsCells(parts[i]),
         NEW rest, IsCells(rest)
  PROVE  /\ IsCells(FlattenSeq(parts))
         /\ \E after : IsAfter(after, n, parts, rest)
<1> DEFINE S == ToSet(rest) \cup UNION {ToSet(parts[i]) : i \in 1 .. n}
<1>1. rest \in Seq(S) /\ \A i \in 1 .. n : parts[i] \in Seq(S)
  <2>1. rest \in Seq(S)
    BY CellsAmong
  <2>2. ASSUME NEW i \in 1 .. n
        PROVE  parts[i] \in Seq(S)
    <3>1. ToSet(parts[i]) \subseteq S
      OBVIOUS
    <3> HIDE DEF S
    <3> QED
      BY <3>1, CellsAmong
  <2> QED
    BY <2>1, <2>2
<1> HIDE DEF S
<1>2. parts \in Seq(Seq(S)) /\ Len(parts) = n
  <2>1. parts \in [1 .. n -> Seq(S)]
    BY <1>1
  <2> QED
    BY <2>1, IsASeq, LenProperties
<1>3. PICK left : IsLeft(left, S, parts)
  BY <1>2, WhatIsLeft
<1>4. /\ left \in [0 .. n -> Seq(S)]
      /\ left[0] = FlattenSeq(parts)
      /\ left[n] = <<>>
      /\ \A i \in 1 .. n : left[i - 1] = parts[i] \o left[i]
      /\ 0 \in 0 .. n /\ n \in 0 .. n
  <2>1. 0 \in 0 .. n /\ n \in 0 .. n
    OBVIOUS
  <2> QED
    BY <1>2, <1>3, <2>1, Zenon DEF IsLeft
<1> DEFINE after == [i \in 0 .. n |-> left[i] \o rest]
<1>5. IsCells(FlattenSeq(parts))
  <2>1. FlattenSeq(parts) \in Seq(S)
    BY <1>4
  <2> QED
    BY <2>1, SeqIsCells
<1>6. after[0] = FlattenSeq(parts) \o rest
  BY <1>4
<1>7. after[n] = rest
  BY <1>1, <1>4, ConcatEmptySeq
<1>8. ASSUME NEW i \in 0 .. n
      PROVE  IsCells(after[i])
  <2>1. left[i] \o rest \in Seq(S)
    BY <1>1, <1>4, ConcatProperties
  <2> QED
    BY <2>1, SeqIsCells
<1>9. ASSUME NEW i \in 1 .. n
      PROVE  after[i - 1] = parts[i] \o after[i]
  <2>1. i - 1 \in 0 .. n /\ i \in 0 .. n
    OBVIOUS
  <2>2. left[i] \in Seq(S) /\ parts[i] \in Seq(S) /\ rest \in Seq(S)
    BY <1>1, <1>4, <2>1
  <2>3. (parts[i] \o left[i]) \o rest = parts[i] \o (left[i] \o rest)
    <3> DEFINE s == parts[i]
               t == left[i]
    <3>1. s \in Seq(S) /\ t \in Seq(S)
      BY <2>2
    <3> HIDE DEF s, t
    <3>2. Cat(Cat(s, t), rest) = Cat(s, Cat(t, rest))
      BY <2>2, <3>1, CatFacts
    <3> QED
      BY <3>2 DEF Cat, s, t
  <2>4. left[i - 1] = parts[i] \o left[i]
    BY <1>4
  <2>5. after[i - 1] = left[i - 1] \o rest /\ after[i] = left[i] \o rest
    BY <2>1
  <2> QED
    BY <2>3, <2>4, <2>5, Zenon
<1> HIDE DEF after
<1>10. IsAfter(after, n, parts, rest)
  BY <1>6, <1>7, <1>8, <1>9 DEF IsAfter
<1> QED
  BY <1>5, <1>10

\* A vector is read element by element.
LEMMA VectorReturns ==
  ASSUME NEW of, NEW m, m \in Seq(ToSet(m)),
         \A i \in DOMAIN m : InnerReturns(of, m[i]),
         NEW cells,
         cells = FlattenSeq([i \in DOMAIN m |-> WriteInner(of, m[i])]),
         NEW rest, IsCells(rest)
  PROVE  IsCells(cells) /\ ReadEach(of, Len(m), cells \o rest) = Got(m, rest)
<1> DEFINE n == Len(m)
           parts == [i \in 1 .. n |-> WriteInner(of, m[i])]
<1>1. n \in Nat /\ DOMAIN m = 1 .. n
  OBVIOUS
<1>2. /\ parts = [i \in 1 .. n |-> parts[i]]
      /\ \A i \in 1 .. n : parts[i] = WriteInner(of, m[i])
      /\ cells = FlattenSeq(parts)
  BY <1>1
<1>3. \A i \in 1 .. n : IsCells(parts[i])
  BY <1>1 DEF InnerReturns
<1> HIDE DEF n, parts
<1>4. IsCells(cells)
  BY <1>1, <1>2, <1>3, PartsOfStream
<1>5. PICK after : IsAfter(after, n, parts, rest)
  BY <1>1, <1>2, <1>3, PartsOfStream
<1> DEFINE h == [i \in 0 .. n |-> Got(SubSeq(m, 1, i), after[i])]
<1>6. h[0] = Got(<<>>, cells \o rest)
  <2>1. SubSeq(m, 1, 0) = <<>> /\ 0 \in 0 .. n
    BY <1>1
  <2>2. after[0] = cells \o rest
    BY <1>2, <1>5 DEF IsAfter
  <2> QED
    BY <2>1, <2>2
<1>7. h[n] = Got(m, rest)
  <2>1. SubSeq(m, 1, n) = m /\ n \in 0 .. n
    BY <1>1, SubSeqFull DEF n
  <2>2. after[n] = rest
    BY <1>5 DEF IsAfter
  <2> QED
    BY <2>1, <2>2
<1>8. ASSUME NEW i \in 1 .. n
      PROVE  h[i] = Another(of, h[i - 1])
  <2>1. i \in 0 .. n /\ i - 1 \in 0 .. n
    BY <1>1
  <2>2. /\ h[i - 1].rest = after[i - 1]
        /\ h[i - 1].value = SubSeq(m, 1, i - 1)
        /\ h[i] = Got(SubSeq(m, 1, i), after[i])
    BY <2>1 DEF Got
  <2> HIDE DEF h
  <2>3. ReadInner(of, after[i - 1]) = Got(m[i], after[i])
    <3>1. after[i - 1] = WriteInner(of, m[i]) \o after[i]
      BY <1>2, <1>5 DEF IsAfter
    <3>2. InnerReturns(of, m[i]) /\ IsCells(after[i])
      BY <1>1, <1>5, <2>1 DEF IsAfter
    <3> QED
      BY <3>1, <3>2 DEF InnerReturns
  <2>4. Append(SubSeq(m, 1, i - 1), m[i]) = SubSeq(m, 1, i)
    BY <1>1, <2>1 DEF n
  <2>5. Another(of, h[i - 1])
          = Got(Append(SubSeq(m, 1, i - 1), m[i]), after[i])
    BY <2>2, <2>3 DEF Another, Got
  <2> QED
    BY <2>2, <2>4, <2>5
<1> DEFINE Eq(g) == g = [i \in 0 .. n |-> IF i = 0 THEN Got(<<>>, cells \o rest)
                                         ELSE Another(of, g[i - 1])]
           g == CHOOSE g : Eq(g)
<1>9. Eq(h)
  <2>1. ASSUME NEW i \in 0 .. n
        PROVE  h[i] = IF i = 0 THEN Got(<<>>, cells \o rest)
                      ELSE Another(of, h[i - 1])
    <3>1. i # 0 => i \in 1 .. n
      BY <1>1
    <3> QED
      BY <1>6, <1>8, <3>1, Zenon
  <2>2. h = [i \in 0 .. n |-> h[i]]
    OBVIOUS
  <2> HIDE DEF h
  <2> QED
    BY <2>1, <2>2
<1>10. Eq(g)
  <2> HIDE DEF Eq, h
  <2> QED
    BY <1>9
<1>11. ReadEach(of, n, cells \o rest) = g[n]
  BY DEF ReadEach
<1>12. g[n] = h[n]
  <2>1. g[0] = h[0] /\ \A i \in 1 .. n : g[i] = Another(of, g[i - 1])
    <3> HIDE DEF g, h
    <3> QED
      BY <1>1, <1>6, <1>10
  <2> HIDE DEF g, h
  <2>2. \A i \in 1 .. n : g[i - 1] = h[i - 1] => g[i] = h[i]
    BY <1>8, <2>1
  <2> QED
    BY <1>1, <2>1, <2>2, SameSteps
<1> HIDE DEF g, h
<1> QED
  BY <1>4, <1>7, <1>11, <1>12 DEF n

\* A vector comes after its length.
LEMMA ManyReturns ==
  ASSUME NEW it, it.kind = "many", NEW m, m \in Seq(ToSet(m)),
         \A i \in DOMAIN m : InnerReturns(it.of, m[i])
  PROVE  ItemReturns(it, m)
<1> DEFINE cells == FlattenSeq([i \in DOMAIN m |-> WriteInner(it.of, m[i])])
<1>1. WriteItem(it, m) = <<Len(m)>> \o cells
  BY DEF WriteItem
<1>2. \A s : ReadItem(it, s) = ReadEach(it.of, Head(s), Tail(s))
  BY DEF ReadItem
<1>3. IsCells(<<>>)
  BY NoCells
<1>4. cells = FlattenSeq([i \in DOMAIN m |-> WriteInner(it.of, m[i])])
  OBVIOUS
<1> HIDE DEF cells
<1>5. IsCells(cells)
  BY <1>3, <1>4, VectorReturns
<1>6. IsCells(WriteItem(it, m))
  BY <1>1, <1>5, CellFirst
<1>7. ASSUME NEW rest, IsCells(rest)
      PROVE  ReadItem(it, WriteItem(it, m) \o rest) = Got(m, rest)
  <2>1. IsCells(cells \o rest)
    BY <1>5, <1>7, CellsConcat
  <2>2. (<<Len(m)>> \o cells) \o rest = <<Len(m)>> \o (cells \o rest)
    BY <1>5, <1>7, CellThen
  <2>3. /\ Head(<<Len(m)>> \o (cells \o rest)) = Len(m)
        /\ Tail(<<Len(m)>> \o (cells \o rest)) = cells \o rest
    BY <2>1, CellFirst
  <2>4. ReadEach(it.of, Len(m), cells \o rest) = Got(m, rest)
    BY <1>4, <1>7, VectorReturns
  <2> QED
    BY <1>1, <1>2, <2>2, <2>3, <2>4
<1> QED
  BY <1>6, <1>7 DEF ItemReturns

\* An optional comes after a flag.
LEMMA MaybeReturns ==
  ASSUME NEW it, it.kind = "maybe", NEW m
  PROVE  ItemReturns(it, m)
<1>1. IsCells(<<>>)
  BY NoCells
<1>2. CASE m = Null
  <2>1. WriteItem(it, m) = <<FALSE>>
    BY <1>2 DEF WriteItem
  <2>2. IsCells(<<FALSE>>)
    BY <1>1, CellFirst
  <2>3. ASSUME NEW rest, IsCells(rest)
        PROVE  ReadItem(it, <<FALSE>> \o rest) = Got(m, rest)
    <3>1. /\ Head(<<FALSE>> \o rest) = FALSE
          /\ Tail(<<FALSE>> \o rest) = rest
      BY <2>3, CellFirst
    <3> QED
      BY <1>2, <3>1 DEF ReadItem
  <2> QED
    BY <2>1, <2>2, <2>3 DEF ItemReturns
<1>3. CASE m # Null
  <2>1. WriteItem(it, m) = <<TRUE, m>>
    BY <1>3 DEF WriteItem
  <2>2. <<TRUE, m>> = <<TRUE>> \o <<m>> /\ IsCells(<<m>>)
    BY <1>1, CellFirst, CellPair
  <2>3. IsCells(<<TRUE, m>>)
    BY <2>2, CellFirst
  <2>4. ASSUME NEW rest, IsCells(rest)
        PROVE  ReadItem(it, <<TRUE, m>> \o rest) = Got(m, rest)
    <3>1. <<TRUE, m>> \o rest = <<TRUE>> \o (<<m>> \o rest)
      <4> DEFINE s == <<m>>
      <4>1. IsCells(s)
        BY <2>2
      <4> HIDE DEF s
      <4>2. (<<TRUE>> \o s) \o rest = <<TRUE>> \o (s \o rest)
        BY <2>4, <4>1, CellThen
      <4> QED
        BY <2>2, <4>2, Zenon DEF s
    <3>2. IsCells(<<m>> \o rest)
      BY <2>4, CellFirst
    <3>3. /\ Head(<<TRUE, m>> \o rest) = TRUE
          /\ Tail(<<TRUE, m>> \o rest) = <<m>> \o rest
      BY <3>1, <3>2, CellFirst
    <3>4. Head(<<m>> \o rest) = m /\ Tail(<<m>> \o rest) = rest
      BY <2>4, CellFirst
    <3> QED
      BY <3>3, <3>4 DEF ReadItem
  <2> QED
    BY <2>1, <2>3, <2>4 DEF ItemReturns
<1> QED
  BY <1>2, <1>3

\* Every kind of item is read back.
LEMMA EveryItemReturns ==
  ASSUME \A of, m : FitsInner(of, m) => InnerReturns(of, m),
         NEW it, NEW m, FitsItem(it, m)
  PROVE  ItemReturns(it, m)
<1>1. CASE it.kind = "one" /\ FitsInner(it.of, m)
  BY <1>1 DEF ItemReturns, InnerReturns, WriteItem, ReadItem
<1>2. CASE /\ it.kind = "many"
           /\ m \in Seq(ToSet(m))
           /\ \A i \in DOMAIN m : FitsInner(it.of, m[i])
  BY <1>2, ManyReturns
<1>3. CASE it.kind = "maybe"
  BY <1>3, MaybeReturns
<1> QED
  BY <1>1, <1>2, <1>3 DEF FitsItem

\* A structure is read member by member: with the writer's layout, a reader
\* takes the value off the stream and leaves what follows it.
LEMMA StructureReturns ==
  ASSUME \A of, m : FitsInner(of, m) => InnerReturns(of, m),
         NEW layout, layout # <<>>, NEW v, Fits(layout, v),
         NEW rest, IsCells(rest)
  PROVE  /\ IsCells(Write(layout, v))
         /\ Read(layout, Write(layout, v) \o rest) = Got(v, rest)
<1> DEFINE n == Len(layout)
           field(i) == layout[i].field
           parts == [i \in 1 .. n |-> WriteItem(layout[i], v[field(i)])]
           cells == FlattenSeq(parts)
           known(i) == [f \in {field(j) : j \in 1 .. i} |-> v[f]]
<1>1. /\ n \in Nat /\ DOMAIN layout = 1 .. n
      /\ v = [f \in Fields(layout) |-> v[f]]
      /\ \A i \in 1 .. n : FitsItem(layout[i], v[field(i)])
  BY DEF Fits
<1>2. Write(layout, v) = cells
  BY <1>1 DEF Write
<1>3. \A i \in 1 .. n : ItemReturns(layout[i], v[field(i)])
  <2> HIDE DEF n, field
  <2> QED
    BY <1>1, EveryItemReturns
<1>4. /\ parts = [i \in 1 .. n |-> parts[i]]
      /\ \A i \in 1 .. n : parts[i] = WriteItem(layout[i], v[field(i)])
  OBVIOUS
<1>5. \A i \in 1 .. n : IsCells(parts[i])
  BY <1>3, <1>4 DEF ItemReturns
<1>6. known(0) = <<>> /\ known(n) = v
  <2>1. {field(j) : j \in 1 .. n} = Fields(layout)
    BY <1>1 DEF Fields
  <2>2. known(n) = v
    BY <1>1, <2>1
  <2>3. {field(j) : j \in 1 .. 0} = {}
    OBVIOUS
  <2>4. known(0) = [f \in {} |-> v[f]]
    BY <2>3
  <2>5. [f \in {} |-> v[f]] = <<>>
    OBVIOUS
  <2> QED
    BY <2>2, <2>4, <2>5
<1>7. ASSUME NEW i \in 1 .. n
      PROVE  Assign(known(i - 1), field(i), v[field(i)]) = known(i)
  <2>1. {field(j) : j \in 1 .. i}
          = {field(j) : j \in 1 .. i - 1} \cup {field(i)}
    <3>1. 1 .. i = 1 .. (i - 1) \cup {i}
      BY <1>1
    <3> QED
      BY <3>1
  <2> QED
    BY <2>1 DEF Assign
<1> HIDE DEF n, parts, field, known
<1>8. IsCells(cells)
  BY <1>1, <1>4, <1>5, PartsOfStream
<1>9. PICK after : IsAfter(after, n, parts, rest)
  BY <1>1, <1>4, <1>5, PartsOfStream
<1> DEFINE h == [i \in 0 .. n |-> Got(known(i), after[i])]
<1>10. h[0] = Got(<<>>, cells \o rest)
  <2>1. after[0] = cells \o rest /\ 0 \in 0 .. n
    BY <1>1, <1>9 DEF IsAfter
  <2> QED
    BY <1>6, <2>1
<1>11. h[n] = Got(v, rest)
  <2>1. after[n] = rest /\ n \in 0 .. n
    BY <1>1, <1>9 DEF IsAfter
  <2> QED
    BY <1>6, <2>1
<1>12. ASSUME NEW i \in 1 .. n
       PROVE  h[i] = Extend(h[i - 1], layout[i])
  <2>1. i \in 0 .. n /\ i - 1 \in 0 .. n
    BY <1>1
  <2>2. /\ h[i - 1].rest = after[i - 1]
        /\ h[i - 1].value = known(i - 1)
        /\ h[i] = Got(known(i), after[i])
    BY <2>1 DEF Got
  <2> HIDE DEF h
  <2>3. ReadItem(layout[i], after[i - 1]) = Got(v[field(i)], after[i])
    <3>1. after[i - 1] = WriteItem(layout[i], v[field(i)]) \o after[i]
      BY <1>4, <1>9 DEF IsAfter
    <3>2. ItemReturns(layout[i], v[field(i)]) /\ IsCells(after[i])
      BY <1>3, <1>9, <2>1 DEF IsAfter
    <3> QED
      BY <3>1, <3>2 DEF ItemReturns
  <2>4. Extend(h[i - 1], layout[i])
          = Got(Assign(known(i - 1), field(i), v[field(i)]), after[i])
    BY <2>2, <2>3 DEF Extend, Got, field
  <2> QED
    BY <1>7, <2>2, <2>4
<1> DEFINE Eq(g) == g = [i \in 0 .. n |-> IF i = 0 THEN Got(<<>>, cells \o rest)
                                         ELSE Extend(g[i - 1], layout[i])]
           g == CHOOSE g : Eq(g)
<1>13. Eq(h)
  <2>1. ASSUME NEW i \in 0 .. n
        PROVE  h[i] = IF i = 0 THEN Got(<<>>, cells \o rest)
                      ELSE Extend(h[i - 1], layout[i])
    <3>1. i # 0 => i \in 1 .. n
      BY <1>1
    <3> QED
      BY <1>10, <1>12, <3>1, Zenon
  <2>2. h = [i \in 0 .. n |-> h[i]]
    OBVIOUS
  <2> HIDE DEF h
  <2> QED
    BY <2>1, <2>2
<1>14. Eq(g)
  <2> HIDE DEF Eq, h
  <2> QED
    BY <1>13
<1>15. Read(layout, cells \o rest) = g[n]
  BY DEF Read, n
<1>16. g[n] = h[n]
  <2>1. g[0] = h[0] /\ \A i \in 1 .. n : g[i] = Extend(g[i - 1], layout[i])
    <3> HIDE DEF g, h
    <3>1. g[0] = h[0]
      <4>1. 0 \in 0 .. n
        BY <1>1
      <4> QED
        BY <1>10, <1>14, <4>1
    <3>2. ASSUME NEW i \in 1 .. n
          PROVE  g[i] = Extend(g[i - 1], layout[i])
      <4>1. i \in 0 .. n /\ i # 0
        BY <1>1
      <4> HIDE DEF cells
      <4>2. g[i] = IF i = 0 THEN Got(<<>>, cells \o rest)
                   ELSE Extend(g[i - 1], layout[i])
        BY <1>14, <4>1
      <4> QED
        BY <4>1, <4>2, Zenon
    <3> QED
      BY <3>1, <3>2
  <2> HIDE DEF g, h
  <2>2. \A i \in 1 .. n : g[i - 1] = h[i - 1] => g[i] = h[i]
    BY <1>12, <2>1
  <2> QED
    BY <1>1, <2>1, <2>2, SameSteps
<1> HIDE DEF g, h, cells
<1> QED
  BY <1>2, <1>8, <1>11, <1>15, <1>16

\* What the reader returns is what the writer was given, for every layout and
\* value, if that is so of the layouts and values within them.
THEOREM RoundTrip ==
  ASSUME \A of, m : FitsInner(of, m) => InnerReturns(of, m),
         NEW layout, NEW v, Fits(layout, v)
  PROVE  Returns(layout, v)
<1>1. CASE layout = <<>>
  <2>1. Write(layout, v) = <<v>>
    BY <1>1 DEF Write
  <2>2. IsCells(<<v>>)
    BY NoCells, CellFirst
  <2>3. ASSUME NEW rest, IsCells(rest)
        PROVE  Read(layout, <<v>> \o rest) = Got(v, rest)
    <3>1. Head(<<v>> \o rest) = v /\ Tail(<<v>> \o rest) = rest
      BY <2>3, CellFirst
    <3> QED
      BY <1>1, <3>1 DEF Read
  <2> QED
    BY <2>1, <2>2, <2>3 DEF Returns
<1>2. CASE layout # <<>>
  <2>1. IsCells(Write(layout, v))
    BY <1>2, NoCells, StructureReturns
  <2>2. ASSUME NEW rest, IsCells(rest)
        PROVE  Read(layout, Write(layout, v) \o rest) = Got(v, rest)
    BY <1>2, <2>2, StructureReturns
  <2> QED
    BY <2>1, <2>2 DEF Returns
<1> QED
  BY <1>1, <1>2

-----------------------------------------------------------------------------
(* Layouts *)

\* A layout that is put together of two has the items of both.
LEMMA Together ==
  ASSUME NEW s, IsCells(s), NEW t, IsCells(t)
  PROVE  /\ IsCells(s \o t)
         /\ ToSet(s \o t) = ToSet(s) \cup ToSet(t)
         /\ s # <<>> => s \o t # <<>>
<1> DEFINE S == ToSet(s) \cup ToSet(t)
<1>1. s \in Seq(S) /\ t \in Seq(S)
  BY CellsAmong
<1> HIDE DEF S
<1>2. /\ Len(s \o t) = Len(s) + Len(t)
      /\ DOMAIN s = 1 .. Len(s) /\ DOMAIN t = 1 .. Len(t)
      /\ DOMAIN (s \o t) = 1 .. Len(s) + Len(t)
      /\ Len(s) \in Nat /\ Len(t) \in Nat
      /\ \A i \in 1 .. Len(s) : (s \o t)[i] = s[i]
      /\ \A i \in 1 .. Len(t) : (s \o t)[i + Len(s)] = t[i]
  BY <1>1
<1>3. ToSet(s \o t) \subseteq ToSet(s) \cup ToSet(t)
  <2>1. ASSUME NEW i \in 1 .. Len(s) + Len(t)
        PROVE  (s \o t)[i] \in ToSet(s) \cup ToSet(t)
    <3>1. CASE i <= Len(s)
      BY <1>2, <3>1 DEF ToSet
    <3>2. CASE i > Len(s)
      <4>1. i - Len(s) \in 1 .. Len(t) /\ (i - Len(s)) + Len(s) = i
        BY <1>2, <3>2
      <4> QED
        BY <1>2, <4>1 DEF ToSet
    <3> QED
      BY <1>2, <3>1, <3>2
  <2> QED
    BY <1>2, <2>1 DEF ToSet
<1>4. ToSet(s) \subseteq ToSet(s \o t)
  <2>1. 1 .. Len(s) \subseteq 1 .. Len(s) + Len(t)
    BY <1>2
  <2> QED
    BY <1>2, <2>1 DEF ToSet
<1>5. ToSet(t) \subseteq ToSet(s \o t)
  <2>1. \A i \in 1 .. Len(t) : i + Len(s) \in 1 .. Len(s) + Len(t)
    BY <1>2
  <2> QED
    BY <1>2, <2>1 DEF ToSet
<1>6. s # <<>> => s \o t # <<>>
  BY <1>1
<1> QED
  BY <1>3, <1>4, <1>5, <1>6, CellsConcat

\* The members that a layout names are those of its items.
LEMMA FieldsOfItems ==
  ASSUME NEW layout
  PROVE  Fields(layout) = {it.field : it \in ToSet(layout)}
  BY DEF Fields, ToSet

\* A value fits a layout if each of its members fits its item.
LEMMA FitsByItems ==
  ASSUME NEW layout, IsCells(layout),
         NEW v, v = [f \in Fields(layout) |-> v[f]],
         \A it \in ToSet(layout) : FitsItem(it, v[it.field])
  PROVE  Fits(layout, v)
<1>1. \A i \in DOMAIN layout : layout[i] \in ToSet(layout)
  BY DEF ToSet
<1> QED
  BY <1>1 DEF Fits, IsCells

\* And each of its members fits its item if it does.
LEMMA FitsMeans ==
  ASSUME NEW layout, layout # <<>>, NEW v, Fits(layout, v)
  PROVE  /\ IsCells(layout)
         /\ v = [f \in Fields(layout) |-> v[f]]
         /\ \A it \in ToSet(layout) : FitsItem(it, v[it.field])
<1>1. \A i \in DOMAIN layout : FitsItem(layout[i], v[layout[i].field])
  BY DEF Fits
<1>2. \A it \in ToSet(layout) : \E i \in DOMAIN layout : it = layout[i]
  BY DEF ToSet
<1> QED
  BY <1>1, <1>2 DEF Fits, IsCells

\* What is written of a structure depends on the members that are named.
LEMMA SameWritten ==
  ASSUME NEW layout, layout # <<>>, NEW v, NEW w,
         \A it \in ToSet(layout) :
           WriteItem(it, v[it.field]) = WriteItem(it, w[it.field])
  PROVE  Write(layout, v) = Write(layout, w)
<1>1. ASSUME NEW i \in DOMAIN layout
      PROVE  WriteItem(layout[i], v[layout[i].field])
               = WriteItem(layout[i], w[layout[i].field])
  <2>1. layout[i] \in ToSet(layout)
    BY DEF ToSet
  <2> QED
    BY <2>1
<1>2. [i \in DOMAIN layout |-> WriteItem(layout[i], v[layout[i].field])]
        = [i \in DOMAIN layout |-> WriteItem(layout[i], w[layout[i].field])]
  BY <1>1
<1> QED
  BY <1>2 DEF Write

\* And so for a vector of structures, element by element.
LEMMA SameVectorWritten ==
  ASSUME NEW it, it.kind = "many", NEW m, NEW n,
         Len(m) = Len(n), DOMAIN m = DOMAIN n,
         \A i \in DOMAIN m : WriteInner(it.of, m[i]) = WriteInner(it.of, n[i])
  PROVE  WriteItem(it, m) = WriteItem(it, n)
<1>1. [i \in DOMAIN m |-> WriteInner(it.of, m[i])]
        = [i \in DOMAIN n |-> WriteInner(it.of, n[i])]
  OBVIOUS
<1> QED
  BY <1>1 DEF WriteItem

=============================================================================
