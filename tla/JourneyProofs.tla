---------------------------- MODULE JourneyProofs ----------------------------
(***************************************************************************)
(* What the two encodings of Codec keep of what they are given, and so     *)
(* what becomes of the report of a device on its way through Journey.      *)
(***************************************************************************)
EXTENDS Journey, SequenceTheorems, TLAPS

P1 == INSTANCE LayoutProofs WITH
        WriteInner <- Write0, ReadInner <- Read0, FitsInner <- Fits0
P2 == INSTANCE LayoutProofs WITH
        WriteInner <- Write1, ReadInner <- Read1, FitsInner <- Fits1
P3 == INSTANCE LayoutProofs WITH
        WriteInner <- Write2, ReadInner <- Read2, FitsInner <- Fits2
P4 == INSTANCE LayoutProofs WITH
        WriteInner <- Write3, ReadInner <- Read3, FitsInner <- Fits3
P5 == INSTANCE LayoutProofs WITH
        WriteInner <- Write4, ReadInner <- Read4, FitsInner <- Fits4

-----------------------------------------------------------------------------
(* Levels *)

\* A plain value is read back.
LEMMA Codec0 == \A l, v : Fits0(l, v) => P1!InnerReturns(l, v)
<1>1. ASSUME NEW l, NEW v
      PROVE  P1!InnerReturns(l, v)
  <2>1. P1!IsCells(<<v>>)
    BY P1!NoCells, P1!CellFirst
  <2>2. ASSUME NEW rest, P1!IsCells(rest)
        PROVE  Read0(l, Write0(l, v) \o rest) = P1!Got(v, rest)
    <3>1. Head(<<v>> \o rest) = v /\ Tail(<<v>> \o rest) = rest
      BY <2>2, P1!CellFirst
    <3> QED
      BY <3>1 DEF Read0, Write0, P1!Got
  <2> QED
    BY <2>1, <2>2 DEF P1!InnerReturns, Write0
<1> QED
  BY <1>1

\* A structure of values is read back.  (The first steps of this lemma and of
\* the next ones: the operators of a level are those of LayoutProofs.)
LEMMA Codec1 ==
  /\ \A l, v : Write1(l, v) = P1!Write(l, v)
  /\ \A l, c : Read1(l, c) = P1!Read(l, c)
  /\ \A l, v : Fits1(l, v) <=> P1!Fits(l, v)
  /\ \A l, v : Fits1(l, v) => P2!InnerReturns(l, v)
<1>1. ASSUME NEW it, NEW m
      PROVE  L1!WriteItem(it, m) = P1!WriteItem(it, m)
  <2> DEFINE parts == [i \in DOMAIN m |-> Write0(it.of, m[i])]
  <2>1. L1!FlattenSeq(parts) = P1!FlattenSeq(parts)
    BY Zenon DEF L1!FlattenSeq, P1!FlattenSeq
  <2> QED
    BY <2>1, Zenon DEF L1!WriteItem, P1!WriteItem
<1>2. \A l, v : Write1(l, v) = P1!Write(l, v)
  <2>1. ASSUME NEW l, NEW v
        PROVE  L1!Write(l, v) = P1!Write(l, v)
    <3> DEFINE s == [i \in DOMAIN l |->
                       L1!WriteItem(l[i], v[l[i].field])]
    <3>1. [i \in DOMAIN l |-> P1!WriteItem(l[i], v[l[i].field])] = s
      BY <1>1, Zenon
    <3>2. L1!FlattenSeq(s) = P1!FlattenSeq(s)
      BY Zenon DEF L1!FlattenSeq, P1!FlattenSeq
    <3> QED
      BY <3>1, <3>2, Zenon DEF L1!Write, P1!Write
  <2> QED
    BY <2>1 DEF Write1
<1>3. \A l, c : Read1(l, c) = P1!Read(l, c)
  BY Zenon DEF Read1, L1!Read, P1!Read, L1!Extend, P1!Extend,
     L1!Assign, P1!Assign, L1!ReadItem, P1!ReadItem, L1!ReadEach,
     P1!ReadEach, L1!Another, P1!Another, L1!Got, P1!Got
<1>4. \A l, v : Fits1(l, v) <=> P1!Fits(l, v)
  BY DEF Fits1, L1!Fits, P1!Fits, L1!FitsItem, P1!FitsItem,
     L1!Fields, P1!Fields, L1!ToSet, P1!ToSet
<1>5. ASSUME NEW l, NEW v, Fits1(l, v)
      PROVE  P2!InnerReturns(l, v)
  <2>1. P1!Returns(l, v)
    BY <1>4, <1>5, Codec0, P1!RoundTrip
  <2> QED
    BY <1>2, <1>3, <2>1 DEF P1!Returns, P2!InnerReturns, P1!Got,
       P2!Got, P1!IsCells, P2!IsCells, P1!ToSet, P2!ToSet
<1> QED
  BY <1>2, <1>3, <1>4, <1>5

\* And so is a structure of those,
LEMMA Codec2 ==
  /\ \A l, v : Write2(l, v) = P2!Write(l, v)
  /\ \A l, c : Read2(l, c) = P2!Read(l, c)
  /\ \A l, v : Fits2(l, v) <=> P2!Fits(l, v)
  /\ \A l, v : Fits2(l, v) => P3!InnerReturns(l, v)
<1>1. ASSUME NEW it, NEW m
      PROVE  L2!WriteItem(it, m) = P2!WriteItem(it, m)
  <2> DEFINE parts == [i \in DOMAIN m |-> Write1(it.of, m[i])]
  <2>1. L2!FlattenSeq(parts) = P2!FlattenSeq(parts)
    BY Zenon DEF L2!FlattenSeq, P2!FlattenSeq
  <2> QED
    BY <2>1, Zenon DEF L2!WriteItem, P2!WriteItem
<1>2. \A l, v : Write2(l, v) = P2!Write(l, v)
  <2>1. ASSUME NEW l, NEW v
        PROVE  L2!Write(l, v) = P2!Write(l, v)
    <3> DEFINE s == [i \in DOMAIN l |->
                       L2!WriteItem(l[i], v[l[i].field])]
    <3>1. [i \in DOMAIN l |-> P2!WriteItem(l[i], v[l[i].field])] = s
      BY <1>1, Zenon
    <3>2. L2!FlattenSeq(s) = P2!FlattenSeq(s)
      BY Zenon DEF L2!FlattenSeq, P2!FlattenSeq
    <3> QED
      BY <3>1, <3>2, Zenon DEF L2!Write, P2!Write
  <2> QED
    BY <2>1 DEF Write2
<1>3. \A l, c : Read2(l, c) = P2!Read(l, c)
  BY Zenon DEF Read2, L2!Read, P2!Read, L2!Extend, P2!Extend,
     L2!Assign, P2!Assign, L2!ReadItem, P2!ReadItem, L2!ReadEach,
     P2!ReadEach, L2!Another, P2!Another, L2!Got, P2!Got
<1>4. \A l, v : Fits2(l, v) <=> P2!Fits(l, v)
  BY DEF Fits2, L2!Fits, P2!Fits, L2!FitsItem, P2!FitsItem,
     L2!Fields, P2!Fields, L2!ToSet, P2!ToSet
<1>5. ASSUME NEW l, NEW v, Fits2(l, v)
      PROVE  P3!InnerReturns(l, v)
  <2>1. P2!Returns(l, v)
    BY <1>4, <1>5, Codec1, P2!RoundTrip
  <2> QED
    BY <1>2, <1>3, <2>1 DEF P2!Returns, P3!InnerReturns, P2!Got,
       P3!Got, P2!IsCells, P3!IsCells, P2!ToSet, P3!ToSet
<1> QED
  BY <1>2, <1>3, <1>4, <1>5

\* one of those,
LEMMA Codec3 ==
  /\ \A l, v : Write3(l, v) = P3!Write(l, v)
  /\ \A l, c : Read3(l, c) = P3!Read(l, c)
  /\ \A l, v : Fits3(l, v) <=> P3!Fits(l, v)
  /\ \A l, v : Fits3(l, v) => P4!InnerReturns(l, v)
<1>1. ASSUME NEW it, NEW m
      PROVE  L3!WriteItem(it, m) = P3!WriteItem(it, m)
  <2> DEFINE parts == [i \in DOMAIN m |-> Write2(it.of, m[i])]
  <2>1. L3!FlattenSeq(parts) = P3!FlattenSeq(parts)
    BY Zenon DEF L3!FlattenSeq, P3!FlattenSeq
  <2> QED
    BY <2>1, Zenon DEF L3!WriteItem, P3!WriteItem
<1>2. \A l, v : Write3(l, v) = P3!Write(l, v)
  <2>1. ASSUME NEW l, NEW v
        PROVE  L3!Write(l, v) = P3!Write(l, v)
    <3> DEFINE s == [i \in DOMAIN l |->
                       L3!WriteItem(l[i], v[l[i].field])]
    <3>1. [i \in DOMAIN l |-> P3!WriteItem(l[i], v[l[i].field])] = s
      BY <1>1, Zenon
    <3>2. L3!FlattenSeq(s) = P3!FlattenSeq(s)
      BY Zenon DEF L3!FlattenSeq, P3!FlattenSeq
    <3> QED
      BY <3>1, <3>2, Zenon DEF L3!Write, P3!Write
  <2> QED
    BY <2>1 DEF Write3
<1>3. \A l, c : Read3(l, c) = P3!Read(l, c)
  BY Zenon DEF Read3, L3!Read, P3!Read, L3!Extend, P3!Extend,
     L3!Assign, P3!Assign, L3!ReadItem, P3!ReadItem, L3!ReadEach,
     P3!ReadEach, L3!Another, P3!Another, L3!Got, P3!Got
<1>4. \A l, v : Fits3(l, v) <=> P3!Fits(l, v)
  BY DEF Fits3, L3!Fits, P3!Fits, L3!FitsItem, P3!FitsItem,
     L3!Fields, P3!Fields, L3!ToSet, P3!ToSet
<1>5. ASSUME NEW l, NEW v, Fits3(l, v)
      PROVE  P4!InnerReturns(l, v)
  <2>1. P3!Returns(l, v)
    BY <1>4, <1>5, Codec2, P3!RoundTrip
  <2> QED
    BY <1>2, <1>3, <2>1 DEF P3!Returns, P4!InnerReturns, P3!Got,
       P4!Got, P3!IsCells, P4!IsCells, P3!ToSet, P4!ToSet
<1> QED
  BY <1>2, <1>3, <1>4, <1>5

\* one of those,
LEMMA Codec4 ==
  /\ \A l, v : Write4(l, v) = P4!Write(l, v)
  /\ \A l, c : Read4(l, c) = P4!Read(l, c)
  /\ \A l, v : Fits4(l, v) <=> P4!Fits(l, v)
  /\ \A l, v : Fits4(l, v) => P5!InnerReturns(l, v)
<1>1. ASSUME NEW it, NEW m
      PROVE  L4!WriteItem(it, m) = P4!WriteItem(it, m)
  <2> DEFINE parts == [i \in DOMAIN m |-> Write3(it.of, m[i])]
  <2>1. L4!FlattenSeq(parts) = P4!FlattenSeq(parts)
    BY Zenon DEF L4!FlattenSeq, P4!FlattenSeq
  <2> QED
    BY <2>1, Zenon DEF L4!WriteItem, P4!WriteItem
<1>2. \A l, v : Write4(l, v) = P4!Write(l, v)
  <2>1. ASSUME NEW l, NEW v
        PROVE  L4!Write(l, v) = P4!Write(l, v)
    <3> DEFINE s == [i \in DOMAIN l |->
                       L4!WriteItem(l[i], v[l[i].field])]
    <3>1. [i \in DOMAIN l |-> P4!WriteItem(l[i], v[l[i].field])] = s
      BY <1>1, Zenon
    <3>2. L4!FlattenSeq(s) = P4!FlattenSeq(s)
      BY Zenon DEF L4!FlattenSeq, P4!FlattenSeq
    <3> QED
      BY <3>1, <3>2, Zenon DEF L4!Write, P4!Write
  <2> QED
    BY <2>1 DEF Write4
<1>3. \A l, c : Read4(l, c) = P4!Read(l, c)
  BY Zenon DEF Read4, L4!Read, P4!Read, L4!Extend, P4!Extend,
     L4!Assign, P4!Assign, L4!ReadItem, P4!ReadItem, L4!ReadEach,
     P4!ReadEach, L4!Another, P4!Another, L4!Got, P4!Got
<1>4. \A l, v : Fits4(l, v) <=> P4!Fits(l, v)
  BY DEF Fits4, L4!Fits, P4!Fits, L4!FitsItem, P4!FitsItem,
     L4!Fields, P4!Fields, L4!ToSet, P4!ToSet
<1>5. ASSUME NEW l, NEW v, Fits4(l, v)
      PROVE  P5!InnerReturns(l, v)
  <2>1. P4!Returns(l, v)
    BY <1>4, <1>5, Codec3, P4!RoundTrip
  <2> QED
    BY <1>2, <1>3, <2>1 DEF P4!Returns, P5!InnerReturns, P4!Got,
       P5!Got, P4!IsCells, P5!IsCells, P4!ToSet, P5!ToSet
<1> QED
  BY <1>2, <1>3, <1>4, <1>5

\* and the payload.
LEMMA Codec5 ==
  /\ \A l, v : Write(l, v) = P5!Write(l, v)
  /\ \A l, c : Read(l, c) = P5!Read(l, c)
  /\ \A l, v : Fits(l, v) <=> P5!Fits(l, v)
  /\ \A l, v : Fits(l, v) => P5!Returns(l, v)
<1>1. ASSUME NEW it, NEW m
      PROVE  L5!WriteItem(it, m) = P5!WriteItem(it, m)
  <2> DEFINE parts == [i \in DOMAIN m |-> Write4(it.of, m[i])]
  <2>1. L5!FlattenSeq(parts) = P5!FlattenSeq(parts)
    BY Zenon DEF L5!FlattenSeq, P5!FlattenSeq
  <2> QED
    BY <2>1, Zenon DEF L5!WriteItem, P5!WriteItem
<1>2. \A l, v : Write(l, v) = P5!Write(l, v)
  <2>1. ASSUME NEW l, NEW v
        PROVE  L5!Write(l, v) = P5!Write(l, v)
    <3> DEFINE s == [i \in DOMAIN l |->
                       L5!WriteItem(l[i], v[l[i].field])]
    <3>1. [i \in DOMAIN l |-> P5!WriteItem(l[i], v[l[i].field])] = s
      BY <1>1, Zenon
    <3>2. L5!FlattenSeq(s) = P5!FlattenSeq(s)
      BY Zenon DEF L5!FlattenSeq, P5!FlattenSeq
    <3> QED
      BY <3>1, <3>2, Zenon DEF L5!Write, P5!Write
  <2> QED
    BY <2>1 DEF Write
<1>3. \A l, c : Read(l, c) = P5!Read(l, c)
  BY Zenon DEF Read, L5!Read, P5!Read, L5!Extend, P5!Extend,
     L5!Assign, P5!Assign, L5!ReadItem, P5!ReadItem, L5!ReadEach,
     P5!ReadEach, L5!Another, P5!Another, L5!Got, P5!Got
<1>4. \A l, v : Fits(l, v) <=> P5!Fits(l, v)
  BY DEF Fits, L5!Fits, P5!Fits, L5!FitsItem, P5!FitsItem,
     L5!Fields, P5!Fields, L5!ToSet, P5!ToSet
<1>5. ASSUME NEW l, NEW v, Fits(l, v)
      PROVE  P5!Returns(l, v)
  <2>1. P5!Returns(l, v)
    BY <1>4, <1>5, Codec4, P5!RoundTrip
  <2> QED
    BY <2>1
<1> QED
  BY <1>2, <1>3, <1>4, <1>5

-----------------------------------------------------------------------------
(* Layouts *)

\* The kinds of items, and the items of a layout.
ValueItem(f) == [field |-> f, kind |-> "one", of |-> <<>>]
OneItem(f, of) == [field |-> f, kind |-> "one", of |-> of]
ValueItems(names) == {ValueItem(f) : f \in names}
ManyItem(f, of) == [field |-> f, kind |-> "many", of |-> of]

Has(layout, items) ==
  /\ P5!IsCells(layout)
  /\ layout # <<>>
  /\ P5!ToSet(layout) = items

\* One item.
LEMMA OneHas ==
  ASSUME NEW f, NEW kind, NEW of
  PROVE  Has(Item(f, kind, of), {[field |-> f, kind |-> kind, of |-> of]})
<1> DEFINE it == [field |-> f, kind |-> kind, of |-> of]
<1>1. Item(f, kind, of) = <<it>>
  BY DEF Item
<1> HIDE DEF it
<1>2. P5!IsCells(<<it>>)
  BY P5!NoCells, P5!CellFirst
<1>3. P5!ToSet(<<it>>) = {it}
  BY DEF P5!ToSet
<1> QED
  BY <1>1, <1>2, <1>3 DEF Has, it

\* The items of values.
LEMMA ValuesHave ==
  ASSUME NEW n \in Nat \ {0}, NEW fields, DOMAIN fields = 1 .. n
  PROVE  Has(Values(fields), ValueItems(P5!ToSet(fields)))
<1> DEFINE S == {ValueItem(fields[i]) : i \in 1 .. n}
           items == [i \in 1 .. n |-> ValueItem(fields[i])]
<1>1. Values(fields) = items
  BY DEF Values, ValueItem
<1>2. items \in Seq(S) /\ Len(items) = n
  <2>1. items \in [1 .. n -> S]
    OBVIOUS
  <2> HIDE DEF items, S
  <2> QED
    BY <2>1
<1>3. P5!IsCells(items)
  <2> HIDE DEF S, items
  <2> QED
    BY <1>2, P5!SeqIsCells
<1>4. P5!ToSet(items) = ValueItems(P5!ToSet(fields))
  BY DEF P5!ToSet, ValueItems
<1>5. items # <<>>
  <2> HIDE DEF S, items
  <2> QED
    BY <1>2
<1> QED
  BY <1>1, <1>3, <1>4, <1>5 DEF Has

\* Two layouts, one after the other.
LEMMA BothHave ==
  ASSUME NEW s, NEW I, Has(s, I), NEW t, NEW J, Has(t, J)
  PROVE  Has(s \o t, I \cup J)
<1>1. /\ P5!IsCells(s \o t)
      /\ P5!ToSet(s \o t) = P5!ToSet(s) \cup P5!ToSet(t)
      /\ s \o t # <<>>
  BY P5!Together DEF Has
<1> QED
  BY <1>1 DEF Has

\* The members that are on the wire, beside the resources and the vectors.
PutNames ==
  {"device_id", "generation", "boot_id", "vendor", "model", "device_class",
   "pci_reference", "firmware_gen", "runtime_gen", "architecture",
   "memory_bytes", "health", "lifecycle", "evidence_fresh",
   "discovery_source", "evidence_gen", "isolation_domain", "tenant",
   "isolation_proven", "locality", "discovery_detail"}

PutVectors == {"ports", "functions", "offload_classes"}

PutItems ==
  ValueItems(PutNames) \cup {ManyItem(f, <<>>) : f \in PutVectors}
  \cup {OneItem("resource_capacity", resource),
        ManyItem("capabilities", put_cap)}

\* These are the items of a report.
LEMMA PutDeviceHas == Has(put_device, PutItems)
<1> DEFINE a == <<"device_id", "generation", "boot_id", "vendor", "model",
                  "device_class", "pci_reference", "firmware_gen",
                  "runtime_gen", "architecture", "memory_bytes">>
           b == <<"health", "lifecycle", "evidence_fresh",
                  "discovery_source", "evidence_gen", "isolation_domain",
                  "tenant", "isolation_proven", "locality",
                  "discovery_detail">>
           A == ValueItems(P5!ToSet(a))
           B == ValueItems(P5!ToSet(b))
           s1 == One("resource_capacity", resource)
           s2 == Many("ports", <<>>)
           s3 == Many("functions", <<>>)
           s4 == Many("capabilities", put_cap)
           s5 == Many("offload_classes", <<>>)
           I1 == {OneItem("resource_capacity", resource)}
           I2 == {ManyItem("ports", <<>>)}
           I3 == {ManyItem("functions", <<>>)}
           I4 == {ManyItem("capabilities", put_cap)}
           I5 == {ManyItem("offload_classes", <<>>)}
<1>1. Has(Values(a), A) /\ Has(Values(b), B)
  <2>1. DOMAIN a = 1 .. 11 /\ DOMAIN b = 1 .. 10
    OBVIOUS
  <2>2. 11 \in Nat \ {0} /\ 10 \in Nat \ {0}
    OBVIOUS
  <2> HIDE DEF a, b
  <2>3. Has(Values(a), A)
    BY <2>1, <2>2, ValuesHave
  <2>4. Has(Values(b), B)
    BY <2>1, <2>2, ValuesHave
  <2> QED
    BY <2>3, <2>4
<1>2. /\ Has(s1, I1) /\ Has(s2, I2) /\ Has(s3, I3) /\ Has(s4, I4)
      /\ Has(s5, I5)
  BY OneHas DEF One, Many, OneItem, ManyItem
<1>3. put_device = Values(a) \o s1 \o s2 \o s3 \o s4 \o s5 \o Values(b)
  BY DEF put_device
<1>4. A \cup I1 \cup I2 \cup I3 \cup I4 \cup I5 \cup B = PutItems
  <2>1. P5!ToSet(a) \cup P5!ToSet(b) = PutNames
    BY DEF P5!ToSet, PutNames
  <2>2. A \cup B = ValueItems(PutNames)
    <3> HIDE DEF a, b
    <3> QED
      BY <2>1 DEF ValueItems
  <2>3. I2 \cup I3 \cup I5 = {ManyItem(f, <<>>) : f \in PutVectors}
    BY DEF PutVectors
  <2> HIDE DEF A, B, I2, I3, I5
  <2> QED
    BY <2>2, <2>3 DEF PutItems
<1> HIDE DEF a, b, A, B, s1, s2, s3, s4, s5, I1, I2, I3, I4, I5
<1>5. Has(Values(a) \o s1, A \cup I1)
  BY <1>1, <1>2, BothHave
<1>6. Has(Values(a) \o s1 \o s2, A \cup I1 \cup I2)
  BY <1>2, <1>5, BothHave
<1>7. Has(Values(a) \o s1 \o s2 \o s3, A \cup I1 \cup I2 \cup I3)
  BY <1>2, <1>6, BothHave
<1>8. Has(Values(a) \o s1 \o s2 \o s3 \o s4,
          A \cup I1 \cup I2 \cup I3 \cup I4)
  BY <1>2, <1>7, BothHave
<1>9. Has(Values(a) \o s1 \o s2 \o s3 \o s4 \o s5,
          A \cup I1 \cup I2 \cup I3 \cup I4 \cup I5)
  BY <1>2, <1>8, BothHave
<1>10. Has(Values(a) \o s1 \o s2 \o s3 \o s4 \o s5 \o Values(b),
           A \cup I1 \cup I2 \cup I3 \cup I4 \cup I5 \cup B)
  BY <1>1, <1>9, BothHave
<1> QED
  BY <1>3, <1>4, <1>10

\* Those that are in the file.
UnreportedNames ==
  {"parent_nic_reference", "parent_function", "firmware_version",
   "runtime_version", "processing_units", "available_programmable_memory",
   "supports_dma", "rdma_adjacent", "host_comm", "hardware_isolation",
   "owning_worker", "owner_worker_boot"}

UnreportedVectors == {"execution_models", "program_formats"}

WriteItems ==
  ValueItems(PutNames \cup UnreportedNames)
  \cup {ManyItem(f, <<>>) : f \in PutVectors \cup UnreportedVectors}
  \cup {OneItem("resource_capacity", resource),
        ManyItem("capabilities", write_cap)}

\* These are the items of a device in the state file.
LEMMA WriteDeviceHas == Has(write_device, WriteItems)
<1> DEFINE a == <<"device_id", "generation", "boot_id", "vendor", "model",
                  "device_class", "pci_reference", "parent_nic_reference",
                  "parent_function", "firmware_version", "firmware_gen",
                  "runtime_version", "runtime_gen", "architecture",
                  "processing_units", "memory_bytes",
                  "available_programmable_memory">>
           b == <<"supports_dma", "rdma_adjacent", "host_comm",
                  "hardware_isolation", "isolation_domain", "tenant",
                  "isolation_proven", "locality", "health", "lifecycle",
                  "discovery_source", "evidence_gen", "evidence_fresh",
                  "discovery_detail", "owning_worker", "owner_worker_boot">>
           A == ValueItems(P5!ToSet(a))
           B == ValueItems(P5!ToSet(b))
           s1 == One("resource_capacity", resource)
           s2 == Many("ports", <<>>)
           s3 == Many("functions", <<>>)
           s4 == Many("capabilities", write_cap)
           s5 == Many("offload_classes", <<>>)
           s6 == Many("execution_models", <<>>)
           s7 == Many("program_formats", <<>>)
           I1 == {OneItem("resource_capacity", resource)}
           I2 == {ManyItem("ports", <<>>)}
           I3 == {ManyItem("functions", <<>>)}
           I4 == {ManyItem("capabilities", write_cap)}
           I5 == {ManyItem("offload_classes", <<>>)}
           I6 == {ManyItem("execution_models", <<>>)}
           I7 == {ManyItem("program_formats", <<>>)}
<1>1. Has(Values(a), A) /\ Has(Values(b), B)
  <2>1. DOMAIN a = 1 .. 17 /\ DOMAIN b = 1 .. 16
    OBVIOUS
  <2>2. 17 \in Nat \ {0} /\ 16 \in Nat \ {0}
    OBVIOUS
  <2> HIDE DEF a, b
  <2>3. Has(Values(a), A)
    BY <2>1, <2>2, ValuesHave
  <2>4. Has(Values(b), B)
    BY <2>1, <2>2, ValuesHave
  <2> QED
    BY <2>3, <2>4
<1>2. /\ Has(s1, I1) /\ Has(s2, I2) /\ Has(s3, I3) /\ Has(s4, I4)
      /\ Has(s5, I5) /\ Has(s6, I6) /\ Has(s7, I7)
  BY OneHas DEF One, Many, OneItem, ManyItem
<1>3. write_device = Values(a) \o s1 \o s2 \o s3 \o s4 \o s5 \o s6 \o s7
                     \o Values(b)
  BY DEF write_device
<1>4. A \cup I1 \cup I2 \cup I3 \cup I4 \cup I5 \cup I6 \cup I7 \cup B
        = WriteItems
  <2>1. P5!ToSet(a) \cup P5!ToSet(b) = PutNames \cup UnreportedNames
    BY DEF P5!ToSet, PutNames, UnreportedNames
  <2>2. A \cup B = ValueItems(PutNames \cup UnreportedNames)
    <3> HIDE DEF a, b
    <3> QED
      BY <2>1 DEF ValueItems
  <2>3. I2 \cup I3 \cup I5 \cup I6 \cup I7
          = {ManyItem(f, <<>>) : f \in PutVectors \cup UnreportedVectors}
    BY DEF PutVectors, UnreportedVectors
  <2> HIDE DEF A, B, I2, I3, I5, I6, I7
  <2> QED
    BY <2>2, <2>3 DEF WriteItems
<1> HIDE DEF a, b, A, B, s1, s2, s3, s4, s5, s6, s7, I1, I2, I3, I4, I5, I6, I7
<1>5. Has(Values(a) \o s1, A \cup I1)
  BY <1>1, <1>2, BothHave
<1>6. Has(Values(a) \o s1 \o s2, A \cup I1 \cup I2)
  BY <1>2, <1>5, BothHave
<1>7. Has(Values(a) \o s1 \o s2 \o s3, A \cup I1 \cup I2 \cup I3)
  BY <1>2, <1>6, BothHave
<1>8. Has(Values(a) \o s1 \o s2 \o s3 \o s4,
          A \cup I1 \cup I2 \cup I3 \cup I4)
  BY <1>2, <1>7, BothHave
<1>9. Has(Values(a) \o s1 \o s2 \o s3 \o s4 \o s5,
          A \cup I1 \cup I2 \cup I3 \cup I4 \cup I5)
  BY <1>2, <1>8, BothHave
<1>10. Has(Values(a) \o s1 \o s2 \o s3 \o s4 \o s5 \o s6,
           A \cup I1 \cup I2 \cup I3 \cup I4 \cup I5 \cup I6)
  BY <1>2, <1>9, BothHave
<1>11. Has(Values(a) \o s1 \o s2 \o s3 \o s4 \o s5 \o s6 \o s7,
           A \cup I1 \cup I2 \cup I3 \cup I4 \cup I5 \cup I6 \cup I7)
  BY <1>2, <1>10, BothHave
<1>12. Has(Values(a) \o s1 \o s2 \o s3 \o s4 \o s5 \o s6 \o s7 \o Values(b),
           A \cup I1 \cup I2 \cup I3 \cup I4 \cup I5 \cup I6 \cup I7 \cup B)
  BY <1>1, <1>11, BothHave
<1> QED
  BY <1>3, <1>4, <1>12

\* Structures of values.
ResourceNames == {"memory_bytes", "queues", "functions", "slots", "contexts"}

PutCapNames == {"key", "state", "version", "requires_isolation", "source"}

UnreportedCapNames ==
  {"evidence_gen", "min_firmware_gen", "min_runtime_gen", "max_scale",
   "detail"}

\* These are the items of a structure of resources,
LEMMA ResourceHas == Has(resource, ValueItems(ResourceNames))
<1> DEFINE a == <<"memory_bytes", "queues", "functions", "slots", "contexts">>
<1>1. P5!ToSet(a) = ResourceNames
  BY DEF P5!ToSet, ResourceNames
<1>2. DOMAIN a = 1 .. 5 /\ 5 \in Nat \ {0} /\ resource = Values(a)
  BY DEF resource
<1> HIDE DEF a
<1> QED
  BY <1>1, <1>2, ValuesHave

\* of a capability in a report,
LEMMA PutCapHas == Has(put_cap, ValueItems(PutCapNames))
<1> DEFINE a == <<"key", "state", "version", "requires_isolation", "source">>
<1>1. P5!ToSet(a) = PutCapNames
  BY DEF P5!ToSet, PutCapNames
<1>2. DOMAIN a = 1 .. 5 /\ 5 \in Nat \ {0} /\ put_cap = Values(a)
  BY DEF put_cap
<1> HIDE DEF a
<1> QED
  BY <1>1, <1>2, ValuesHave

\* and of one in the state file.
LEMMA WriteCapHas ==
  Has(write_cap, ValueItems(PutCapNames \cup UnreportedCapNames))
<1> DEFINE a == <<"key", "state", "evidence_gen", "version",
                  "min_firmware_gen", "min_runtime_gen", "max_scale",
                  "requires_isolation", "source", "detail">>
<1>1. P5!ToSet(a) = PutCapNames \cup UnreportedCapNames
  BY DEF P5!ToSet, PutCapNames, UnreportedCapNames
<1>2. DOMAIN a = 1 .. 10 /\ 10 \in Nat \ {0} /\ write_cap = Values(a)
  BY DEF write_cap
<1> HIDE DEF a
<1> QED
  BY <1>1, <1>2, ValuesHave

\* The parts of the payload.
SaveItems ==
  {ValueItem("epoch"), OneItem("policy", save_policy),
   ManyItem("devices", write_device), ManyItem("services", write_service),
   ManyItem("programs", save_programs),
   ManyItem("deployments", write_deployment), ManyItem("usage", save_usage)}

\* These are the items of the payload.
LEMMA SaveLayoutHas == Has(save_layout, SaveItems)
<1> DEFINE s0 == Values(<<"epoch">>)
           s1 == One("policy", save_policy)
           s2 == Many("devices", write_device)
           s3 == Many("services", write_service)
           s4 == Many("programs", save_programs)
           s5 == Many("deployments", write_deployment)
           s6 == Many("usage", save_usage)
           I0 == {ValueItem("epoch")}
           I1 == {OneItem("policy", save_policy)}
           I2 == {ManyItem("devices", write_device)}
           I3 == {ManyItem("services", write_service)}
           I4 == {ManyItem("programs", save_programs)}
           I5 == {ManyItem("deployments", write_deployment)}
           I6 == {ManyItem("usage", save_usage)}
<1>1. Has(s0, I0)
  <2> DEFINE a == <<"epoch">>
  <2>1. DOMAIN a = 1 .. 1 /\ 1 \in Nat \ {0}
    OBVIOUS
  <2>2. ValueItems(P5!ToSet(a)) = I0
    BY DEF P5!ToSet, ValueItems
  <2> HIDE DEF a
  <2>3. Has(Values(a), I0)
    BY <2>1, <2>2, ValuesHave
  <2> QED
    BY <2>3 DEF a
<1>2. /\ Has(s1, I1) /\ Has(s2, I2) /\ Has(s3, I3) /\ Has(s4, I4)
      /\ Has(s5, I5) /\ Has(s6, I6)
  BY OneHas DEF One, Many, OneItem, ManyItem
<1>3. save_layout = s0 \o s1 \o s2 \o s3 \o s4 \o s5 \o s6
  BY DEF save_layout
<1>4. I0 \cup I1 \cup I2 \cup I3 \cup I4 \cup I5 \cup I6 = SaveItems
  BY DEF SaveItems
<1> HIDE DEF s0, s1, s2, s3, s4, s5, s6, I0, I1, I2, I3, I4, I5, I6
<1>5. Has(s0 \o s1, I0 \cup I1)
  BY <1>1, <1>2, BothHave
<1>6. Has(s0 \o s1 \o s2, I0 \cup I1 \cup I2)
  BY <1>2, <1>5, BothHave
<1>7. Has(s0 \o s1 \o s2 \o s3, I0 \cup I1 \cup I2 \cup I3)
  BY <1>2, <1>6, BothHave
<1>8. Has(s0 \o s1 \o s2 \o s3 \o s4, I0 \cup I1 \cup I2 \cup I3 \cup I4)
  BY <1>2, <1>7, BothHave
<1>9. Has(s0 \o s1 \o s2 \o s3 \o s4 \o s5,
          I0 \cup I1 \cup I2 \cup I3 \cup I4 \cup I5)
  BY <1>2, <1>8, BothHave
<1>10. Has(s0 \o s1 \o s2 \o s3 \o s4 \o s5 \o s6,
           I0 \cup I1 \cup I2 \cup I3 \cup I4 \cup I5 \cup I6)
  BY <1>2, <1>9, BothHave
<1> QED
  BY <1>3, <1>4, <1>10

\* Those of the policy.
PolicyNames ==
  {"generation", "version", "allow_host_fallback",
   "require_authoritative_evidence", "prefer_warm_deployments",
   "prefer_dedicated_isolation", "require_offload_for_required",
   "min_headroom", "max_queue_pressure", "min_device_health", "weights"}

\* The members of a policy that are written.
LEMMA PolicyFields == L5!Fields(save_policy) = PolicyNames
<1> DEFINE a == <<"generation", "version", "allow_host_fallback",
                  "require_authoritative_evidence", "prefer_warm_deployments",
                  "prefer_dedicated_isolation", "require_offload_for_required",
                  "min_headroom", "max_queue_pressure", "min_device_health">>
           A == ValueItems(P5!ToSet(a))
           s1 == Many("weights", Values(<<"factor", "weight">>))
           I1 == {ManyItem("weights", Values(<<"factor", "weight">>))}
<1>1. Has(Values(a), A)
  <2>1. DOMAIN a = 1 .. 10 /\ 10 \in Nat \ {0}
    OBVIOUS
  <2> HIDE DEF a
  <2> QED
    BY <2>1, ValuesHave
<1>2. Has(s1, I1)
  BY OneHas DEF Many, ManyItem
<1>3. save_policy = Values(a) \o s1
  BY DEF save_policy
<1>4. {it.field : it \in A \cup I1} = PolicyNames
  <2>1. P5!ToSet(a) \cup {"weights"} = PolicyNames
    BY DEF P5!ToSet, PolicyNames
  <2> HIDE DEF a
  <2>2. {it.field : it \in A} = P5!ToSet(a)
    <3> DEFINE F == P5!ToSet(a)
    <3>1. \A f : ValueItem(f).field = f
      BY DEF ValueItem
    <3> HIDE DEF F
    <3>2. {it.field : it \in ValueItems(F)} = F
      BY <3>1 DEF ValueItems
    <3> QED
      BY <3>2 DEF F
  <2>3. {it.field : it \in I1} = {"weights"}
    BY DEF ManyItem
  <2> HIDE DEF A, I1
  <2> QED
    BY <2>1, <2>2, <2>3
<1> HIDE DEF a, A, s1, I1
<1>5. Has(save_policy, A \cup I1)
  BY <1>1, <1>2, <1>3, BothHave
<1> QED
  BY <1>4, <1>5, P5!FieldsOfItems DEF Has, L5!Fields, P5!Fields

\* The readers have the layouts of the writers.
LEMMA SameLayouts == get_device = put_device /\ load_layout = save_layout
<1>1. get_device = put_device
  BY DEF get_device, put_device, get_cap, put_cap
<1>2. read_device = write_device
  BY DEF read_device, write_device, read_cap, write_cap
<1>3. read_service = write_service
  BY DEF read_service, write_service, read_capreq, write_capreq,
         read_isolation, write_isolation
<1>4. load_programs = save_programs
  BY DEF load_programs, save_programs, load_generation, save_generation,
         read_program, write_program, read_capreq, write_capreq
<1>5. read_deployment = write_deployment
  BY DEF read_deployment, write_deployment
<1>6. load_layout = save_layout
  BY <1>2, <1>3, <1>4, <1>5 DEF load_layout, save_layout, load_policy,
     save_policy, load_usage, save_usage
<1> QED
  BY <1>1, <1>6

-----------------------------------------------------------------------------
(* Devices *)

\* A structure with these members.
Members(v, names) == v = [f \in names |-> v[f]]

DeviceNames ==
  PutNames \cup UnreportedNames \cup PutVectors \cup UnreportedVectors
  \cup {"resource_capacity", "capabilities"}

\* What fits the layout of a device.
IsDevice(d) ==
  /\ Members(d, DeviceNames)
  /\ \A f \in PutVectors \cup UnreportedVectors : d[f] \in Seq(P5!ToSet(d[f]))
  /\ Members(d.resource_capacity, ResourceNames)
  /\ d.capabilities \in Seq(P5!ToSet(d.capabilities))
  /\ \A i \in DOMAIN d.capabilities :
       Members(d.capabilities[i], PutCapNames \cup UnreportedCapNames)

\* The members that a layout of values names.
LEMMA FieldsOfValues ==
  ASSUME NEW layout, NEW names, Has(layout, ValueItems(names))
  PROVE  P5!Fields(layout) = names
<1>1. P5!Fields(layout) = {it.field : it \in P5!ToSet(layout)}
  BY P5!FieldsOfItems
<1>2. P5!ToSet(layout) = ValueItems(names)
  BY DEF Has
<1>3. \A f : ValueItem(f).field = f
  BY DEF ValueItem
<1>4. {it.field : it \in ValueItems(names)} = names
  BY <1>3 DEF ValueItems
<1> QED
  BY <1>1, <1>2, <1>4

\* A structure of values, at the levels where one is looked for.
LEMMA FitsValues ==
  ASSUME NEW layout, NEW names, Has(layout, ValueItems(names)), NEW v
  PROVE  /\ Fits3(layout, v) <=> Members(v, names)
         /\ Fits4(layout, v) <=> Members(v, names)
<1>1. P5!Fields(layout) = names
  BY FieldsOfValues
<1>2. /\ P3!Fields(layout) = names /\ P4!Fields(layout) = names
      /\ layout # <<>>
      /\ P3!IsCells(layout) /\ P4!IsCells(layout)
      /\ P3!ToSet(layout) = ValueItems(names)
      /\ P4!ToSet(layout) = ValueItems(names)
  BY <1>1 DEF Has, P3!Fields, P4!Fields, P5!Fields, P3!IsCells, P4!IsCells,
     P5!IsCells, P3!ToSet, P4!ToSet, P5!ToSet
<1>3. \A m : Fits2(<<>>, m) /\ Fits3(<<>>, m)
  BY Codec2, Codec3 DEF P2!Fits, P3!Fits
<1>4. \A it \in ValueItems(names) :
        \A m : P3!FitsItem(it, m) /\ P4!FitsItem(it, m)
  BY <1>3 DEF ValueItems, ValueItem, P3!FitsItem, P4!FitsItem
<1>5. P3!Fits(layout, v) <=> Members(v, names)
  <2>1. P3!Fits(layout, v) => Members(v, names)
    BY <1>2, P3!FitsMeans DEF Members
  <2>2. Members(v, names) => P3!Fits(layout, v)
    BY <1>2, <1>4, P3!FitsByItems DEF Members
  <2> QED
    BY <2>1, <2>2
<1>6. P4!Fits(layout, v) <=> Members(v, names)
  <2>1. P4!Fits(layout, v) => Members(v, names)
    BY <1>2, P4!FitsMeans DEF Members
  <2>2. Members(v, names) => P4!Fits(layout, v)
    BY <1>2, <1>4, P4!FitsByItems DEF Members
  <2> QED
    BY <2>1, <2>2
<1> QED
  BY <1>5, <1>6, Codec3, Codec4

\* The layout of a device, item by item.
LEMMA DeviceItems ==
  /\ P5!Fields(write_device) = DeviceNames
  /\ \A f \in PutNames \cup UnreportedNames : ValueItem(f) \in WriteItems
  /\ \A f \in PutVectors \cup UnreportedVectors :
       ManyItem(f, <<>>) \in WriteItems
  /\ OneItem("resource_capacity", resource) \in WriteItems
  /\ ManyItem("capabilities", write_cap) \in WriteItems
  /\ \A it \in WriteItems :
       \/ \E f \in PutNames \cup UnreportedNames : it = ValueItem(f)
       \/ \E f \in PutVectors \cup UnreportedVectors : it = ManyItem(f, <<>>)
       \/ it = OneItem("resource_capacity", resource)
       \/ it = ManyItem("capabilities", write_cap)
<1>1. \A f, of : /\ ValueItem(f).field = f
                 /\ OneItem(f, of).field = f
                 /\ ManyItem(f, of).field = f
  BY DEF ValueItem, OneItem, ManyItem
<1>2. /\ \A f \in PutNames \cup UnreportedNames : ValueItem(f) \in WriteItems
      /\ \A f \in PutVectors \cup UnreportedVectors :
           ManyItem(f, <<>>) \in WriteItems
      /\ OneItem("resource_capacity", resource) \in WriteItems
      /\ ManyItem("capabilities", write_cap) \in WriteItems
      /\ \A it \in WriteItems :
           \/ \E f \in PutNames \cup UnreportedNames : it = ValueItem(f)
           \/ \E f \in PutVectors \cup UnreportedVectors :
                it = ManyItem(f, <<>>)
           \/ it = OneItem("resource_capacity", resource)
           \/ it = ManyItem("capabilities", write_cap)
  BY Zenon DEF WriteItems, ValueItems
<1>3. P5!Fields(write_device) = {it.field : it \in WriteItems}
  BY WriteDeviceHas, P5!FieldsOfItems DEF Has
<1>4. {it.field : it \in WriteItems} = DeviceNames
  <2>1. ASSUME NEW it \in WriteItems
        PROVE  it.field \in DeviceNames
    BY <1>1, <1>2 DEF DeviceNames
  <2>2. ASSUME NEW f \in DeviceNames
        PROVE  \E it \in WriteItems : it.field = f
    BY <1>1, <1>2 DEF DeviceNames
  <2> QED
    BY <2>1, <2>2
<1> QED
  BY <1>2, <1>3, <1>4

\* A record that fits the layout of the file is a device.
LEMMA FitsIsDevice ==
  ASSUME NEW d, Fits(write_device, d)
  PROVE  IsDevice(d)
<1>1. P5!Fits(write_device, d) /\ write_device # <<>>
  BY Codec5, WriteDeviceHas DEF Has
<1>2. /\ d = [f \in DeviceNames |-> d[f]]
      /\ \A it \in WriteItems : P5!FitsItem(it, d[it.field])
  BY <1>1, P5!FitsMeans, WriteDeviceHas, DeviceItems DEF Has
<1>3. ASSUME NEW f \in PutVectors \cup UnreportedVectors
      PROVE  d[f] \in Seq(P5!ToSet(d[f]))
  <2>1. P5!FitsItem(ManyItem(f, <<>>), d[f])
    BY <1>2, DeviceItems DEF ManyItem
  <2> QED
    BY <2>1 DEF P5!FitsItem, ManyItem
<1>4. Members(d["resource_capacity"], ResourceNames)
  <2>1. P5!FitsItem(OneItem("resource_capacity", resource),
                    d["resource_capacity"])
    BY <1>2, DeviceItems DEF OneItem
  <2>2. Fits4(resource, d["resource_capacity"])
    BY <2>1 DEF P5!FitsItem, OneItem
  <2> QED
    BY <2>2, FitsValues, ResourceHas
<1>5. /\ d["capabilities"] \in Seq(P5!ToSet(d["capabilities"]))
      /\ \A i \in DOMAIN d["capabilities"] :
           Members(d["capabilities"][i], PutCapNames \cup UnreportedCapNames)
  <2>1. P5!FitsItem(ManyItem("capabilities", write_cap), d["capabilities"])
    BY <1>2, DeviceItems DEF ManyItem
  <2>2. /\ d["capabilities"] \in Seq(P5!ToSet(d["capabilities"]))
        /\ \A i \in DOMAIN d["capabilities"] :
             Fits4(write_cap, d["capabilities"][i])
    BY <2>1 DEF P5!FitsItem, ManyItem
  <2> QED
    BY <2>2, FitsValues, WriteCapHas
<1> QED
  BY <1>2, <1>3, <1>4, <1>5 DEF IsDevice, Members

\* And a device fits it, as an element of the payload.
LEMMA DeviceFits ==
  ASSUME NEW d, IsDevice(d)
  PROVE  Fits4(write_device, d)
<1>1. /\ P4!Fields(write_device) = DeviceNames
      /\ P4!IsCells(write_device)
      /\ P4!ToSet(write_device) = WriteItems
  BY WriteDeviceHas, DeviceItems DEF Has, P4!Fields, P5!Fields, P4!IsCells,
     P5!IsCells, P4!ToSet, P5!ToSet
<1>2. d = [f \in DeviceNames |-> d[f]]
  BY DEF IsDevice, Members
<1>3. \A m : Fits3(<<>>, m)
  BY Codec3 DEF P3!Fits
<1>4. ASSUME NEW f
      PROVE  P4!FitsItem(ValueItem(f), d[f])
  BY <1>3 DEF P4!FitsItem, ValueItem
<1>5. ASSUME NEW f \in PutVectors \cup UnreportedVectors
      PROVE  P4!FitsItem(ManyItem(f, <<>>), d[f])
  <2>1. d[f] \in Seq(P4!ToSet(d[f]))
    BY DEF IsDevice, P4!ToSet, P5!ToSet
  <2> QED
    BY <1>3, <2>1 DEF P4!FitsItem, ManyItem
<1>6. P4!FitsItem(OneItem("resource_capacity", resource),
                  d["resource_capacity"])
  <2>1. Fits3(resource, d["resource_capacity"])
    BY FitsValues, ResourceHas DEF IsDevice
  <2> QED
    BY <2>1 DEF P4!FitsItem, OneItem
<1>7. P4!FitsItem(ManyItem("capabilities", write_cap), d["capabilities"])
  <2>1. d["capabilities"] \in Seq(P4!ToSet(d["capabilities"]))
    BY DEF IsDevice, P4!ToSet, P5!ToSet
  <2>2. \A i \in DOMAIN d["capabilities"] :
          Fits3(write_cap, d["capabilities"][i])
    BY FitsValues, WriteCapHas DEF IsDevice
  <2> QED
    BY <2>1, <2>2 DEF P4!FitsItem, ManyItem
<1>8. ASSUME NEW it \in WriteItems
      PROVE  P4!FitsItem(it, d[it.field])
  <2>1. \A f, of : /\ ValueItem(f).field = f
                   /\ OneItem(f, of).field = f
                   /\ ManyItem(f, of).field = f
    BY DEF ValueItem, OneItem, ManyItem
  <2> QED
    BY <1>4, <1>5, <1>6, <1>7, <2>1, DeviceItems
<1>9. P4!Fits(write_device, d)
  BY <1>1, <1>2, <1>8, P4!FitsByItems
<1> QED
  BY <1>9, Codec4

-----------------------------------------------------------------------------
(* Reports *)

PutFields ==
  PutNames \cup PutVectors \cup {"resource_capacity", "capabilities"}

\* What of a record is on the wire.
SentCap(c) == [f \in PutCapNames |-> c[f]]
SentCaps(r) == [i \in DOMAIN r.capabilities |-> SentCap(r.capabilities[i])]
Sent(r) ==
  [f \in PutFields |-> IF f = "capabilities" THEN SentCaps(r) ELSE r[f]]

\* What the coordinator has of it.
HeardCap(c) ==
  [f \in PutCapNames \cup UnreportedCapNames |->
     IF f \in PutCapNames THEN c[f] ELSE UnreportedCap[f]]
HeardCaps(r) == [i \in DOMAIN r.capabilities |-> HeardCap(r.capabilities[i])]
Heard(r) ==
  [f \in DeviceNames |-> IF f = "capabilities" THEN HeardCaps(r)
                         ELSE IF f \in PutFields THEN r[f]
                         ELSE UnreportedDevice[f]]

\* The layout of a report, item by item.
LEMMA ReportItems ==
  /\ P5!Fields(put_device) = PutFields
  /\ \A it \in PutItems :
       \/ \E f \in PutNames : it = ValueItem(f)
       \/ \E f \in PutVectors : it = ManyItem(f, <<>>)
       \/ it = OneItem("resource_capacity", resource)
       \/ it = ManyItem("capabilities", put_cap)
<1>1. \A f, of : /\ ValueItem(f).field = f
                 /\ OneItem(f, of).field = f
                 /\ ManyItem(f, of).field = f
  BY DEF ValueItem, OneItem, ManyItem
<1>2. /\ \A f \in PutNames : ValueItem(f) \in PutItems
      /\ \A f \in PutVectors : ManyItem(f, <<>>) \in PutItems
      /\ OneItem("resource_capacity", resource) \in PutItems
      /\ ManyItem("capabilities", put_cap) \in PutItems
      /\ \A it \in PutItems :
           \/ \E f \in PutNames : it = ValueItem(f)
           \/ \E f \in PutVectors : it = ManyItem(f, <<>>)
           \/ it = OneItem("resource_capacity", resource)
           \/ it = ManyItem("capabilities", put_cap)
  BY Zenon DEF PutItems, ValueItems
<1>3. P5!Fields(put_device) = {it.field : it \in PutItems}
  BY PutDeviceHas, P5!FieldsOfItems DEF Has
<1>4. {it.field : it \in PutItems} = PutFields
  <2>1. ASSUME NEW it \in PutItems
        PROVE  it.field \in PutFields
    BY <1>1, <1>2 DEF PutFields
  <2>2. ASSUME NEW f \in PutFields
        PROVE  \E it \in PutItems : it.field = f
    BY <1>1, <1>2 DEF PutFields
  <2> QED
    BY <2>1, <2>2
<1> QED
  BY <1>2, <1>3, <1>4

\* None of the names of values or vectors is that of the capabilities.
LEMMA OtherNames ==
  /\ "capabilities" \notin PutNames \cup PutVectors \cup {"resource_capacity"}
  /\ "resource_capacity" \notin PutNames \cup PutVectors
  /\ (UnreportedNames \cup UnreportedVectors) \cap PutFields = {}
  /\ UnreportedCapNames \cap PutCapNames = {}
  /\ DeviceNames = PutFields \cup UnreportedNames \cup UnreportedVectors
  BY DEF PutNames, PutVectors, UnreportedNames, UnreportedVectors, PutFields,
     UnreportedCapNames, PutCapNames, DeviceNames

\* What is on the wire is a structure of the layout that it is read with.
LEMMA SentFits ==
  ASSUME NEW r, IsDevice(r)
  PROVE  Fits(put_device, Sent(r))
<1> DEFINE s == Sent(r)
<1>1. /\ s = [f \in PutFields |-> s[f]]
      /\ \A f \in PutFields : f # "capabilities" => s[f] = r[f]
      /\ s["capabilities"] = SentCaps(r)
  BY DEF Sent, PutFields
<1> HIDE DEF s
<1>2. \A m : Fits4(<<>>, m)
  BY Codec4 DEF P4!Fits
<1>3. ASSUME NEW f
      PROVE  P5!FitsItem(ValueItem(f), s[f])
  BY <1>2 DEF P5!FitsItem, ValueItem
<1>4. ASSUME NEW f \in PutVectors
      PROVE  P5!FitsItem(ManyItem(f, <<>>), s[f])
  <2>1. s[f] = r[f]
    BY <1>1, OtherNames DEF PutFields
  <2>2. s[f] \in Seq(P5!ToSet(s[f]))
    BY <2>1 DEF IsDevice
  <2> QED
    BY <1>2, <2>2 DEF P5!FitsItem, ManyItem
<1>5. P5!FitsItem(OneItem("resource_capacity", resource),
                  s["resource_capacity"])
  <2>1. s["resource_capacity"] = r["resource_capacity"]
    BY <1>1, OtherNames DEF PutFields
  <2>2. Fits4(resource, s["resource_capacity"])
    BY <2>1, FitsValues, ResourceHas DEF IsDevice
  <2> QED
    BY <2>2 DEF P5!FitsItem, OneItem
<1>6. P5!FitsItem(ManyItem("capabilities", put_cap), s["capabilities"])
  <2> DEFINE n == Len(r.capabilities)
             c == SentCaps(r)
             S == {c[i] : i \in 1 .. n}
  <2>1. n \in Nat /\ DOMAIN r.capabilities = 1 .. n
    BY DEF IsDevice
  <2>2. c = [i \in 1 .. n |-> c[i]] /\ DOMAIN c = 1 .. n
    BY <2>1 DEF SentCaps
  <2>3. c \in Seq(S)
    <3> HIDE DEF c
    <3>1. c \in [1 .. n -> S]
      BY <2>2
    <3> HIDE DEF n, S
    <3> QED
      BY <2>1, <3>1, IsASeq
  <2>4. c \in Seq(P5!ToSet(c))
    <3> HIDE DEF c, S
    <3> QED
      BY <2>3, P5!SeqIsCells DEF P5!IsCells
  <2>5. ASSUME NEW i \in DOMAIN c
        PROVE  Fits4(put_cap, c[i])
    <3>1. c[i] = [f \in PutCapNames |-> c[i][f]]
      BY <2>1, <2>2 DEF SentCaps, SentCap
    <3> QED
      BY <3>1, FitsValues, PutCapHas DEF Members
  <2> HIDE DEF c
  <2>6. s["capabilities"] = c
    BY <1>1 DEF c
  <2> QED
    BY <2>4, <2>5, <2>6 DEF P5!FitsItem, ManyItem
<1>7. ASSUME NEW it \in PutItems
      PROVE  P5!FitsItem(it, s[it.field])
  <2>1. \A f, of : /\ ValueItem(f).field = f
                   /\ OneItem(f, of).field = f
                   /\ ManyItem(f, of).field = f
    BY DEF ValueItem, OneItem, ManyItem
  <2> QED
    BY <1>3, <1>4, <1>5, <1>6, <2>1, ReportItems
<1>8. P5!Fits(put_device, s)
  BY <1>1, <1>7, ReportItems, PutDeviceHas, P5!FitsByItems DEF Has
<1> QED
  BY <1>8, Codec5 DEF s

\* The writer puts no more of a record on the wire.
LEMMA SentWritten ==
  ASSUME NEW r, IsDevice(r)
  PROVE  Write(put_device, r) = Write(put_device, Sent(r))
<1> DEFINE s == Sent(r)
<1>1. /\ \A f \in PutFields : f # "capabilities" => s[f] = r[f]
      /\ s["capabilities"] = SentCaps(r)
  BY DEF Sent, PutFields
<1> HIDE DEF s
<1>2. P5!WriteItem(ManyItem("capabilities", put_cap), r["capabilities"])
        = P5!WriteItem(ManyItem("capabilities", put_cap), s["capabilities"])
  <2> DEFINE m == r["capabilities"]
             c == s["capabilities"]
  <2>1. DOMAIN m = 1 .. Len(m) /\ Len(m) \in Nat
    BY DEF IsDevice
  <2>2. /\ DOMAIN c = DOMAIN m
        /\ \A i \in DOMAIN m : c[i] = SentCap(m[i])
    BY <1>1 DEF SentCaps
  <2> HIDE DEF m, c
  <2>3. Len(c) = Len(m)
    BY <2>1, <2>2
  <2>4. ASSUME NEW i \in DOMAIN m
        PROVE  Write4(put_cap, m[i]) = Write4(put_cap, c[i])
    <3> DEFINE a == m[i]
               b == c[i]
    <3>1. \A f \in PutCapNames : a[f] = b[f]
      BY <2>2 DEF SentCap
    <3> HIDE DEF a, b
    <3>2. /\ put_cap # <<>>
          /\ P4!ToSet(put_cap) = ValueItems(PutCapNames)
      BY PutCapHas DEF Has, P4!ToSet, P5!ToSet
    <3>3. \A it \in P4!ToSet(put_cap) : a[it.field] = b[it.field]
      BY <3>1, <3>2 DEF ValueItems, ValueItem
    <3>4. P4!Write(put_cap, a) = P4!Write(put_cap, b)
      BY <3>2, <3>3, P4!SameWritten
    <3> QED
      BY <3>4, Codec4 DEF a, b
  <2>5. /\ ManyItem("capabilities", put_cap).kind = "many"
        /\ ManyItem("capabilities", put_cap).of = put_cap
    BY DEF ManyItem
  <2>6. P5!WriteItem(ManyItem("capabilities", put_cap), m)
          = P5!WriteItem(ManyItem("capabilities", put_cap), c)
    BY <2>2, <2>3, <2>4, <2>5, P5!SameVectorWritten
  <2> QED
    BY <2>6 DEF m, c
<1>3. ASSUME NEW it \in PutItems
      PROVE  P5!WriteItem(it, r[it.field]) = P5!WriteItem(it, s[it.field])
  <2>1. \A f, of : /\ ValueItem(f).field = f
                   /\ OneItem(f, of).field = f
                   /\ ManyItem(f, of).field = f
    BY DEF ValueItem, OneItem, ManyItem
  <2>2. \A f \in PutNames \cup PutVectors \cup {"resource_capacity"} :
          s[f] = r[f]
    BY <1>1, OtherNames DEF PutFields
  <2> QED
    BY <1>2, <2>1, <2>2, ReportItems
<1>4. P5!Write(put_device, r) = P5!Write(put_device, s)
  BY <1>3, PutDeviceHas, P5!SameWritten DEF Has
<1> QED
  BY <1>4, Codec5 DEF s

\* What the coordinator hears of a report.
LEMMA ReportHeard ==
  ASSUME NEW r, IsDevice(r)
  PROVE  Reported(Write(put_device, r)) = Heard(r)
<1> DEFINE s == Sent(r)
           d == Over(s, UnreportedDevice)
<1>1. Read(get_device, Write(put_device, r)).value = s
  <2>1. P5!Returns(put_device, s)
    BY SentFits, Codec5
  <2> DEFINE w == Write(put_device, s)
  <2>2. /\ P5!IsCells(w)
        /\ Read(put_device, w \o <<>>) = P5!Got(s, <<>>)
    BY <2>1, P5!NoCells, Codec5 DEF P5!Returns
  <2> HIDE DEF w, s
  <2>3. w \o <<>> = w
    BY <2>2, ConcatEmptySeq DEF P5!IsCells
  <2>4. Read(put_device, w).value = s
    BY <2>2, <2>3 DEF P5!Got
  <2> QED
    BY <2>4, SentWritten, SameLayouts DEF w, s
<1>2. /\ DOMAIN s = PutFields
      /\ \A f \in PutFields : f # "capabilities" => s[f] = r[f]
      /\ s["capabilities"] = SentCaps(r)
  BY DEF Sent, PutFields
<1>3. DOMAIN UnreportedDevice = UnreportedNames \cup UnreportedVectors
  BY DEF UnreportedDevice, UnreportedNames, UnreportedVectors
<1>4. DOMAIN UnreportedCap = UnreportedCapNames
  BY DEF UnreportedCap, UnreportedCapNames
<1> HIDE DEF s
<1>5. /\ d = [f \in DeviceNames |-> d[f]]
      /\ "capabilities" \in DeviceNames
      /\ \A f \in DeviceNames :
           d[f] = IF f \in PutFields THEN s[f] ELSE UnreportedDevice[f]
      /\ d["capabilities"] = SentCaps(r)
  BY <1>2, <1>3, OtherNames DEF Over, PutFields
<1> HIDE DEF d
<1>6. [i \in DOMAIN d.capabilities |-> Over(d.capabilities[i], UnreportedCap)]
        = HeardCaps(r)
  <2>1. ASSUME NEW c
        PROVE  Over(SentCap(c), UnreportedCap) = HeardCap(c)
    BY <1>4, OtherNames DEF Over, SentCap, HeardCap
  <2>2. DOMAIN SentCaps(r) = DOMAIN r.capabilities
    BY DEF SentCaps
  <2>3. \A i \in DOMAIN r.capabilities :
          SentCaps(r)[i] = SentCap(r.capabilities[i])
    BY DEF SentCaps
  <2> QED
    BY <1>5, <2>1, <2>2, <2>3 DEF HeardCaps
<1>7. Reported(Write(put_device, r))
        = [d EXCEPT !["capabilities"] = HeardCaps(r)]
  BY <1>1, <1>6 DEF Reported, d
<1>8. [d EXCEPT !["capabilities"] = HeardCaps(r)] = Heard(r)
  BY <1>2, <1>5, OtherNames DEF Heard
<1> QED
  BY <1>7, <1>8

-----------------------------------------------------------------------------
(* The state file *)

\* A weight is not narrowed.
LEMMA WeightKept ==
  ASSUME NEW w \in -HalfRange .. HalfRange - 1
  PROVE  i32(w) = w
<1>1. HalfRange \in Nat \ {0}
  BY JourneyAssumption
<1>2. \A n \in Nat : \A x \in 0 .. n - 1 : x % n = x
  OBVIOUS
<1>3. 2 * HalfRange \in Nat /\ w + HalfRange \in 0 .. 2 * HalfRange - 1
  BY <1>1
<1>4. (w + HalfRange) % (2 * HalfRange) = w + HalfRange
  BY <1>2, <1>3
<1> QED
  BY <1>1, <1>4 DEF i32

\* The policy, but for what is not written of it and for the weights, which
\* those of the constructor precede.
LEMMA PolicyKept ==
  ASSUME NEW s, IsLiveState(s)
  PROVE  LoadedPolicy(WrittenPolicy(s.policy), Defaults) = Recovered(s.policy)
<1> DEFINE p == s.policy
           U == UnsavedPolicy
<1>1. /\ p = [f \in PolicyNames \cup U |-> p[f]]
      /\ p["weights"] \in
           Seq([factor : {w.factor : w \in ToSet(p["weights"])},
                weight : -HalfRange .. HalfRange - 1])
      /\ Defaults = [f \in PolicyNames \cup U |-> Defaults[f]]
  BY PolicyFields, JourneyAssumption DEF IsLiveState, IsPolicy
<1>2. PolicyNames \cap U = {} /\ "weights" \in PolicyNames
  <2>1. U = {"hard_caps", "preferred_devices", "preferred_statefulness"}
    BY DEF UnsavedPolicy
  <2> QED
    BY <2>1 DEF PolicyNames
<1> HIDE DEF p, U
<1>3. [i \in DOMAIN p["weights"] |-> [p["weights"][i] EXCEPT !.weight = i32(@)]]
        = p["weights"]
  <2> DEFINE m == p["weights"]
             F == {w.factor : w \in ToSet(m)}
             W == -HalfRange .. HalfRange - 1
  <2>1. m \in Seq([factor : F, weight : W])
    BY <1>1
  <2>0. \A w \in W : i32(w) = w
    BY WeightKept
  <2> HIDE DEF m, F, W
  <2>2. ASSUME NEW i \in DOMAIN m
        PROVE  [m[i] EXCEPT !.weight = i32(@)] = m[i]
    <3>1. m[i] \in [factor : F, weight : W]
      <4> DEFINE R == [factor : F, weight : W]
      <4>1. m \in Seq(R)
        BY <2>1
      <4> HIDE DEF R
      <4>2. m[i] \in R
        BY <4>1
      <4> QED
        BY <4>2 DEF R
    <3>2. i32(m[i].weight) = m[i].weight
      BY <3>1, <2>0
    <3> QED
      BY <3>1, <3>2
  <2>3. m = [i \in DOMAIN m |-> m[i]]
    BY <2>1
  <2> QED
    BY <2>2, <2>3 DEF m
<1>4. WrittenPolicy(p) = [f \in PolicyNames |-> p[f]]
  BY <1>3, PolicyFields DEF WrittenPolicy
<1>5. LET o == Over([f \in PolicyNames |-> p[f]], Defaults)
      IN  /\ DOMAIN o = PolicyNames \cup U
          /\ \A f \in PolicyNames \cup U :
               o[f] = IF f \in U THEN Defaults[f] ELSE p[f]
  <2>1. DOMAIN Defaults = PolicyNames \cup U
    BY <1>1
  <2> QED
    BY <2>1, <1>2 DEF Over
<1>6. LoadedPolicy([f \in PolicyNames |-> p[f]], Defaults)
        = [f \in PolicyNames \cup U |->
             IF f = "weights" THEN Defaults.weights \o p["weights"]
             ELSE IF f \in U THEN Defaults[f] ELSE p[f]]
  <2> DEFINE o == Over([f \in PolicyNames |-> p[f]], Defaults)
  <2>1. /\ DOMAIN o = PolicyNames \cup U
        /\ \A f \in PolicyNames \cup U :
             o[f] = IF f \in U THEN Defaults[f] ELSE p[f]
    BY <1>5
  <2>2. "weights" \in PolicyNames /\ "weights" \notin U
    BY <1>2
  <2>3. o = [f \in PolicyNames \cup U |-> o[f]]
    <3>1. o = [f \in DOMAIN o |-> o[f]]
      BY DEF Over
    <3> HIDE DEF o
    <3> QED
      BY <3>1, <2>1
  <2>4. LoadedPolicy([f \in PolicyNames |-> p[f]], Defaults)
          = [o EXCEPT !["weights"] = Defaults.weights \o o["weights"]]
    BY DEF LoadedPolicy
  <2> HIDE DEF o
  <2> QED
    BY <2>1, <2>2, <2>3, <2>4
<1>7. Recovered(p) = [f \in PolicyNames \cup U |->
                        IF f = "weights" THEN Defaults.weights \o p["weights"]
                        ELSE IF f \in U THEN Defaults[f] ELSE p[f]]
  <2>1. DOMAIN p = PolicyNames \cup U
    BY <1>1
  <2> QED
    BY <2>1 DEF Recovered, U
<1> QED
  BY <1>4, <1>6, <1>7 DEF p

\* The program table.
LEMMA ProgramsKept ==
  ASSUME NEW s, IsLiveState(s)
  PROVE  Unmarked(Marked(s.programs, s.current_program_gen)) = s.programs
<1> DEFINE p == s.programs
           c == s.current_program_gen
           A(i) == {g.artifact : g \in ToSet(p[i].generations)}
           m == Marked(p, c)
<1>1. /\ p = [i \in DOMAIN p |-> p[i]]
      /\ \A i \in DOMAIN p :
           /\ p[i] = [program_id |-> p[i].program_id,
                      generations |-> p[i].generations]
           /\ p[i].generations \in Seq([program_gen : Nat, artifact : A(i)])
  <2>1. p \in Seq(ToSet(p))
    BY DEF IsLiveState
  <2>2. p = [i \in DOMAIN p |-> p[i]]
    <3> HIDE DEF p
    <3> QED
      BY <2>1
  <2> QED
    BY <2>2, Zenon DEF IsLiveState
<1>2. /\ DOMAIN m = DOMAIN p
      /\ \A i \in DOMAIN p :
           /\ m[i].program_id = p[i].program_id
           /\ DOMAIN m[i].generations = DOMAIN p[i].generations
           /\ \A g \in DOMAIN p[i].generations :
                /\ m[i].generations[g].program_gen
                     = p[i].generations[g].program_gen
                /\ m[i].generations[g].artifact = p[i].generations[g].artifact
  BY DEF Marked
<1> HIDE DEF p, c, m, A
<1>3. ASSUME NEW i \in DOMAIN p
      PROVE  [g \in DOMAIN m[i].generations |->
                [program_gen |-> m[i].generations[g].program_gen,
                 artifact |-> m[i].generations[g].artifact]]
               = p[i].generations
  <2> DEFINE q == p[i].generations
  <2>1. q \in Seq([program_gen : Nat, artifact : A(i)])
    BY <1>1
  <2>2. /\ DOMAIN m[i].generations = DOMAIN q
        /\ \A g \in DOMAIN q :
             /\ m[i].generations[g].program_gen = q[g].program_gen
             /\ m[i].generations[g].artifact = q[g].artifact
    BY <1>2
  <2> HIDE DEF q
  <2>3. \A g \in DOMAIN q : q[g] = [program_gen |-> q[g].program_gen,
                                    artifact |-> q[g].artifact]
    <3>1. \A g \in DOMAIN q : q[g] \in [program_gen : Nat, artifact : A(i)]
      <4> DEFINE R == [program_gen : Nat, artifact : A(i)]
      <4>1. q \in Seq(R)
        BY <2>1
      <4> HIDE DEF R
      <4>2. \A g \in DOMAIN q : q[g] \in R
        BY <4>1
      <4> QED
        BY <4>2 DEF R
    <3> QED
      BY <3>1
  <2>4. q = [g \in DOMAIN q |-> q[g]]
    BY <2>1
  <2> QED
    BY <2>2, <2>3, <2>4 DEF q
<1>4. Unmarked(m) = p
  <2> DEFINE u(i) == [g \in DOMAIN m[i].generations |->
                        [program_gen |-> m[i].generations[g].program_gen,
                         artifact |-> m[i].generations[g].artifact]]
  <2>1. Unmarked(m) = [i \in DOMAIN m |-> [program_id |-> m[i].program_id,
                                          generations |-> u(i)]]
    BY Zenon DEF Unmarked
  <2>2. \A i \in DOMAIN p : u(i) = p[i].generations
    BY <1>3
  <2> HIDE DEF u
  <2>3. \A i \in DOMAIN p : [program_id |-> m[i].program_id,
                             generations |-> u(i)] = p[i]
    BY <1>1, <1>2, <2>2
  <2> QED
    BY <1>1, <1>2, <2>1, <2>3
<1> QED
  BY <1>4 DEF p, c, m

\* Which generations are current.
LEMMA CurrentKept ==
  ASSUME NEW s, IsLiveState(s)
  PROVE  MarksOf(Marked(s.programs, s.current_program_gen))
           = s.current_program_gen
<1> DEFINE p == s.programs
           c == s.current_program_gen
           m == Marked(p, c)
           current ==
             UNION {{<<prog.program_id, g.program_gen>> :
                       g \in {x \in ToSet(prog.generations) : x.current}} :
                      prog \in ToSet(m)}
<1>1. /\ c = [x \in DOMAIN c |-> c[x]]
      /\ \A x \in DOMAIN c :
           \E i \in DOMAIN p :
             /\ p[i].program_id = x
             /\ \E g \in DOMAIN p[i].generations :
                  p[i].generations[g].program_gen = c[x]
  BY DEF IsLiveState, ToSet
<1>2. /\ DOMAIN m = DOMAIN p
      /\ \A i \in DOMAIN p :
           /\ m[i].program_id = p[i].program_id
           /\ DOMAIN m[i].generations = DOMAIN p[i].generations
           /\ \A g \in DOMAIN p[i].generations :
                /\ m[i].generations[g].program_gen
                     = p[i].generations[g].program_gen
                /\ m[i].generations[g].current
                     <=> /\ p[i].program_id \in DOMAIN c
                         /\ c[p[i].program_id]
                              = p[i].generations[g].program_gen
  BY DEF Marked
<1> HIDE DEF p, c, m
<1>3. ASSUME NEW x \in DOMAIN c
      PROVE  <<x, c[x]>> \in current
  <2>1. PICK i \in DOMAIN p :
          /\ p[i].program_id = x
          /\ \E g \in DOMAIN p[i].generations :
               p[i].generations[g].program_gen = c[x]
    BY <1>1
  <2>2. PICK g \in DOMAIN p[i].generations :
          p[i].generations[g].program_gen = c[x]
    BY <2>1
  <2>3. /\ m[i] \in ToSet(m)
        /\ m[i].program_id = x
        /\ m[i].generations[g] \in ToSet(m[i].generations)
        /\ m[i].generations[g].current
        /\ m[i].generations[g].program_gen = c[x]
    BY <1>2, <2>1, <2>2 DEF ToSet
  <2> QED
    BY <2>3
<1>4. ASSUME NEW y \in current
      PROVE  \E x \in DOMAIN c : y = <<x, c[x]>>
  <2>1. \E prog \in ToSet(m) :
          \E h \in ToSet(prog.generations) :
            h.current /\ y = <<prog.program_id, h.program_gen>>
    OBVIOUS
  <2>2. PICK i \in DOMAIN p :
          \E h \in ToSet(m[i].generations) :
            h.current /\ y = <<m[i].program_id, h.program_gen>>
    BY <1>2, <2>1 DEF ToSet
  <2>3. PICK g \in DOMAIN p[i].generations :
          LET h == m[i].generations[g]
          IN  h.current /\ y = <<m[i].program_id, h.program_gen>>
    BY <1>2, <2>2 DEF ToSet
  <2>4. /\ p[i].program_id \in DOMAIN c
        /\ y = <<p[i].program_id, c[p[i].program_id]>>
    BY <1>2, <2>3
  <2> QED
    BY <2>4
<1> HIDE DEF current
<1>5. {y[1] : y \in current} = DOMAIN c
  <2>1. \A x, z : <<x, z>>[1] = x
    OBVIOUS
  <2>2. \A y \in current : y[1] \in DOMAIN c
    BY <1>4, <2>1
  <2>3. \A x \in DOMAIN c : \E y \in current : y[1] = x
    BY <1>3, <2>1
  <2> QED
    BY <2>2, <2>3
<1>6. ASSUME NEW x \in DOMAIN c
      PROVE  (CHOOSE y \in current : y[1] = x)[2] = c[x]
  <2> DEFINE y == CHOOSE z \in current : z[1] = x
  <2>1. <<x, c[x]>> \in current /\ <<x, c[x]>>[1] = x
    BY <1>3
  <2>2. y \in current /\ y[1] = x
    BY <2>1
  <2> HIDE DEF y
  <2>3. y[2] = c[x]
    BY <1>4, <2>2
  <2> QED
    BY <2>3 DEF y
<1>7. MarksOf(m) = c
  BY <1>1, <1>5, <1>6 DEF MarksOf, current
<1> QED
  BY <1>7 DEF p, c, m

\* The LiveState with a device.
Added(s, d) ==
  [s EXCEPT !.devices = L5!Assign(@, d.device_id, d),
            !.device_order = Append(@, d.device_id)]

\* What Added changes of a LiveState that has no device.
LEMMA AddedHas ==
  ASSUME NEW s, IsLiveState(s), NEW d, NEW a, a = Added(s, d)
  PROVE  /\ a = [epoch |-> s.epoch, policy |-> s.policy, devices |-> a.devices,
                 device_order |-> <<d.device_id>>, services |-> s.services,
                 programs |-> s.programs,
                 current_program_gen |-> s.current_program_gen,
                 deployments |-> s.deployments, usage |-> s.usage]
         /\ a.devices = [id \in {d.device_id} |-> d]
<1>1. s = [f \in {"epoch", "policy", "devices", "device_order", "services",
                  "programs", "current_program_gen", "deployments", "usage"} |->
             s[f]]
  BY DEF IsLiveState
<1>2. s.devices = <<>> /\ s.device_order = <<>>
  BY DEF IsLiveState
<1>3. L5!Assign(<<>>, d.device_id, d) = [id \in {d.device_id} |-> d]
  BY DEF L5!Assign
<1>4. Append(<<>>, d.device_id) = <<d.device_id>>
  OBVIOUS
<1>5. a = [s EXCEPT !.devices = [id \in {d.device_id} |-> d],
                    !.device_order = <<d.device_id>>]
  BY <1>2, <1>3, <1>4 DEF Added
<1> QED
  BY <1>1, <1>5

\* What is written of it.
LEMMA PayloadOf ==
  ASSUME NEW s, IsLiveState(s), NEW d
  PROVE  Payload(Added(s, d))
           = [epoch |-> s.epoch, policy |-> WrittenPolicy(s.policy),
              devices |-> <<d>>, services |-> s.services,
              programs |-> Marked(s.programs, s.current_program_gen),
              deployments |-> s.deployments, usage |-> s.usage]
<1> DEFINE a == Added(s, d)
<1>1. /\ a.epoch = s.epoch /\ a.policy = s.policy
      /\ a.device_order = <<d.device_id>> /\ a.services = s.services
      /\ a.programs = s.programs
      /\ a.current_program_gen = s.current_program_gen
      /\ a.deployments = s.deployments /\ a.usage = s.usage
      /\ a.devices = [id \in {d.device_id} |-> d]
  BY AddedHas
<1> HIDE DEF a
<1>2. [i \in DOMAIN a.device_order |-> a.devices[a.device_order[i]]] = <<d>>
  BY <1>1
<1> QED
  BY <1>1, <1>2 DEF Payload, a

\* It fits the layout of the payload.
LEMMA PayloadFits ==
  ASSUME NEW s, IsLiveState(s), NEW d, IsDevice(d)
  PROVE  Fits(save_layout, Payload(Added(s, d)))
<1> DEFINE q == Payload(s)
           b == Payload(Added(s, d))
<1>1. P5!Fits(save_layout, q) /\ save_layout # <<>>
  BY Codec5, SaveLayoutHas DEF Has, IsLiveState
<1>2. /\ q = [f \in P5!Fields(save_layout) |-> q[f]]
      /\ P5!IsCells(save_layout)
      /\ P5!ToSet(save_layout) = SaveItems
      /\ \A it \in SaveItems : P5!FitsItem(it, q[it.field])
  BY <1>1, P5!FitsMeans, SaveLayoutHas DEF Has
<1> DEFINE N == {"epoch", "policy", "devices", "services", "programs",
                 "deployments", "usage"}
<1>3. DOMAIN q = N /\ P5!Fields(save_layout) = N
  <2>1. DOMAIN q = N
    BY DEF Payload
  <2> HIDE DEF q, N
  <2> QED
    BY <1>2, <2>1
<1>4. /\ b = [f \in N |-> b[f]]
      /\ \A f \in N : f # "devices" => b[f] = q[f]
      /\ b["devices"] = <<d>>
  <2>1. b = [epoch |-> s.epoch, policy |-> WrittenPolicy(s.policy),
             devices |-> <<d>>, services |-> s.services,
             programs |-> Marked(s.programs, s.current_program_gen),
             deployments |-> s.deployments, usage |-> s.usage]
    BY PayloadOf
  <2>2. /\ q["epoch"] = s.epoch /\ q["policy"] = WrittenPolicy(s.policy)
        /\ q["services"] = s.services
        /\ q["programs"] = Marked(s.programs, s.current_program_gen)
        /\ q["deployments"] = s.deployments /\ q["usage"] = s.usage
    BY DEF Payload
  <2> HIDE DEF b, q
  <2> QED
    BY <2>1, <2>2
<1> HIDE DEF q, b
<1>5. P5!FitsItem(ManyItem("devices", write_device), b["devices"])
  <2>1. /\ <<d>> \in Seq(P5!ToSet(<<d>>))
        /\ \A i \in DOMAIN <<d>> : <<d>>[i] = d
    <3>1. P5!IsCells(<<d>>)
      BY P5!NoCells, P5!CellFirst
    <3>2. \A i \in DOMAIN <<d>> : <<d>>[i] = d
      OBVIOUS
    <3> QED
      BY <3>1, <3>2, Zenon DEF P5!IsCells
  <2>2. Fits4(write_device, d)
    BY DeviceFits
  <2> QED
    BY <1>4, <2>1, <2>2 DEF P5!FitsItem, ManyItem
<1>6. ASSUME NEW it \in SaveItems
      PROVE  P5!FitsItem(it, b[it.field])
  <2>1. /\ it.field \in N
        /\ it.field = "devices" => it = ManyItem("devices", write_device)
    BY DEF SaveItems, ValueItem, OneItem, ManyItem
  <2>2. CASE it.field = "devices"
    BY <1>5, <2>1, <2>2
  <2>3. CASE it.field # "devices"
    BY <1>2, <1>4, <2>1, <2>3
  <2> QED
    BY <2>2, <2>3
<1>7. P5!Fits(save_layout, b)
  BY <1>2, <1>3, <1>4, <1>6, P5!FitsByItems
<1> QED
  BY <1>7, Codec5 DEF b

\* What load makes of what save wrote: nothing is left of it, and the state
\* is the one that was saved but for its policy.
LEMMA FileKeeps ==
  ASSUME NEW s, IsLiveState(s), NEW d, IsDevice(d)
  PROVE  /\ Read(load_layout, Saved(Added(s, d))).rest = <<>>
         /\ Loaded(Saved(Added(s, d)), Defaults)
              = [Added(s, d) EXCEPT !.policy = Recovered(@)]
<1> DEFINE a == Added(s, d)
           b == Payload(a)
           w == Saved(a)
<1>1. Read(load_layout, w) = P5!Got(b, <<>>)
  <2>1. P5!Returns(save_layout, b)
    BY PayloadFits, Codec5
  <2>2. /\ P5!IsCells(w)
        /\ Read(save_layout, w \o <<>>) = P5!Got(b, <<>>)
    BY <2>1, P5!NoCells, Codec5 DEF P5!Returns, Saved
  <2> HIDE DEF w, b
  <2>3. w \o <<>> = w
    BY <2>2, ConcatEmptySeq DEF P5!IsCells
  <2> QED
    BY <2>2, <2>3, SameLayouts
<1>2. /\ b.epoch = s.epoch /\ b.policy = WrittenPolicy(s.policy)
      /\ b.devices = <<d>> /\ b.services = s.services
      /\ b.programs = Marked(s.programs, s.current_program_gen)
      /\ b.deployments = s.deployments /\ b.usage = s.usage
  BY PayloadOf
<1> HIDE DEF w, b
<1>3. Read(load_layout, w).value = b /\ Read(load_layout, w).rest = <<>>
  BY <1>1 DEF P5!Got
<1>4. (IF s.epoch > 1 THEN s.epoch ELSE 1) = s.epoch
  BY DEF IsLiveState
<1>5. ById(<<d>>) = [id \in {d.device_id} |-> d]
  <2>1. ToSet(<<d>>) = {d}
    BY DEF ToSet
  <2>2. {x.device_id : x \in {d}} = {d.device_id}
    OBVIOUS
  <2>3. (CHOOSE x \in {d} : x.device_id = d.device_id) = d
    OBVIOUS
  <2> QED
    BY <2>1, <2>2, <2>3 DEF ById
<1>6. [i \in DOMAIN <<d>> |-> <<d>>[i].device_id] = <<d.device_id>>
  OBVIOUS
<1>7. Loaded(w, Defaults)
        = [epoch |-> s.epoch, policy |-> Recovered(s.policy),
           devices |-> [id \in {d.device_id} |-> d],
           device_order |-> <<d.device_id>>, services |-> s.services,
           programs |-> s.programs,
           current_program_gen |-> s.current_program_gen,
           deployments |-> s.deployments, usage |-> s.usage]
  <2>1. Loaded(w, Defaults) =
          [epoch |-> IF b.epoch > 1 THEN b.epoch ELSE 1,
           policy |-> LoadedPolicy(b.policy, Defaults),
           devices |-> ById(b.devices),
           device_order |-> [i \in DOMAIN b.devices |->
                               b.devices[i].device_id],
           services |-> b.services, programs |-> Unmarked(b.programs),
           current_program_gen |-> MarksOf(b.programs),
           deployments |-> b.deployments, usage |-> b.usage]
    BY <1>3 DEF Loaded
  <2>2. /\ LoadedPolicy(b.policy, Defaults) = Recovered(s.policy)
        /\ Unmarked(b.programs) = s.programs
        /\ MarksOf(b.programs) = s.current_program_gen
    BY <1>2, PolicyKept, ProgramsKept, CurrentKept
  <2>3. ById(b.devices) = [id \in {d.device_id} |-> d]
    BY <1>2, <1>5
  <2>4. [i \in DOMAIN b.devices |-> b.devices[i].device_id] = <<d.device_id>>
    BY <1>2, <1>6
  <2>5. (IF b.epoch > 1 THEN b.epoch ELSE 1) = s.epoch
    BY <1>2, <1>4
  <2> QED
    BY <1>2, <2>1, <2>2, <2>3, <2>4, <2>5, Zenon
<1>8. Loaded(w, Defaults) = [a EXCEPT !.policy = Recovered(@)]
  <2>1. /\ a = [epoch |-> s.epoch, policy |-> s.policy,
                devices |-> a.devices,
                device_order |-> <<d.device_id>>, services |-> s.services,
                programs |-> s.programs,
                current_program_gen |-> s.current_program_gen,
                deployments |-> s.deployments, usage |-> s.usage]
        /\ a.devices = [id \in {d.device_id} |-> d]
    BY AddedHas
  <2> HIDE DEF a
  <2> QED
    BY <1>7, <2>1
<1> QED
  BY <1>3, <1>8 DEF w

-----------------------------------------------------------------------------
(* The way of a report *)

\* The record that the coordinator registers.
AsRegistered(r) ==
  [Heard(r) EXCEPT !.owning_worker = Worker, !.owner_worker_boot = WorkerBoot]

\* What a worker reports is a device.
LEMMA ReportsAreDevices == \A r \in Reports : IsDevice(r)
  BY JourneyAssumption, FitsIsDevice

\* It is a device, of the same id.
LEMMA RegisteredIsDevice ==
  ASSUME NEW r, IsDevice(r)
  PROVE  /\ IsDevice(AsRegistered(r))
         /\ AsRegistered(r).device_id = r.device_id
<1> DEFINE a == AsRegistered(r)
<1>1. /\ DOMAIN a = DeviceNames /\ a = [f \in DeviceNames |-> a[f]]
      /\ \A f \in PutFields : f # "capabilities" => a[f] = r[f]
      /\ a["capabilities"] = HeardCaps(r)
      /\ \A f \in UnreportedVectors : a[f] = UnreportedDevice[f]
  <2>1. /\ "owning_worker" \notin PutFields \cup UnreportedVectors
        /\ "owner_worker_boot" \notin PutFields \cup UnreportedVectors
        /\ "capabilities" \notin UnreportedVectors
    BY DEF PutFields, PutNames, PutVectors, UnreportedVectors
  <2> QED
    BY <2>1, OtherNames DEF AsRegistered, Heard, PutFields
<1>2. ASSUME NEW f \in PutVectors \cup UnreportedVectors
      PROVE  a[f] \in Seq(P5!ToSet(a[f]))
  <2>1. CASE f \in PutVectors
    <3>1. a[f] = r[f]
      BY <1>1, <2>1, OtherNames DEF PutFields
    <3> QED
      BY <3>1 DEF IsDevice
  <2>2. CASE f \in UnreportedVectors
    <3>1. UnreportedDevice[f] = <<>>
      <4>1. /\ UnreportedDevice.execution_models = <<>>
            /\ UnreportedDevice.program_formats = <<>>
        BY DEF UnreportedDevice
      <4> QED
        BY <2>2, <4>1 DEF UnreportedVectors
    <3> QED
      BY <1>1, <2>2, <3>1, P5!NoCells DEF P5!IsCells
  <2> QED
    BY <2>1, <2>2
<1>3. Members(a["resource_capacity"], ResourceNames)
  <2>1. a["resource_capacity"] = r["resource_capacity"]
    BY <1>1, OtherNames DEF PutFields
  <2> QED
    BY <2>1 DEF IsDevice
<1>4. a["capabilities"] \in Seq(P5!ToSet(a["capabilities"]))
  <2> DEFINE n == Len(r.capabilities)
             c == HeardCaps(r)
             S == {c[i] : i \in 1 .. n}
  <2>1. n \in Nat /\ DOMAIN r.capabilities = 1 .. n
    BY DEF IsDevice
  <2>2. c = [i \in 1 .. n |-> c[i]]
    BY <2>1 DEF HeardCaps
  <2> HIDE DEF c
  <2>3. c \in [1 .. n -> S]
    BY <2>2
  <2> HIDE DEF n, S
  <2>4. c \in Seq(S)
    BY <2>1, <2>3, IsASeq
  <2>5. P5!IsCells(c)
    BY <2>4, P5!SeqIsCells
  <2> QED
    BY <1>1, <2>5 DEF P5!IsCells, c
<1>5. \A i \in DOMAIN a["capabilities"] :
        Members(a["capabilities"][i], PutCapNames \cup UnreportedCapNames)
  BY <1>1 DEF HeardCaps, HeardCap, Members
<1>6. a["device_id"] = r["device_id"]
  <2>1. "device_id" \in PutFields
    BY DEF PutFields, PutNames
  <2> QED
    BY <1>1, <2>1
<1> HIDE DEF a
<1> QED
  BY <1>1, <1>2, <1>3, <1>4, <1>5, <1>6 DEF IsDevice, Members, a

\* The coordinator has registered the device.
AtCoordinator(state) ==
  \E s \in States : state = Added(s, AsRegistered(report))

\* The inductive invariant: what is in the stream or in the coordinator, by how
\* far the record has come, and what the state that is loaded keeps.
JInv ==
  /\ report \in Reports
  /\ place \in {"worker", "wire", "coordinator", "file", "loaded"}
  /\ place \in {"worker", "wire"} => live \in States
  /\ place = "wire" => cells = Write(put_device, report)
  /\ place = "coordinator" => AtCoordinator(live)
  /\ place = "file" => AtCoordinator(before) /\ cells = Saved(before)
  /\ StoreKeepsAll

\* It holds at the start,
LEMMA JInvInit == JInit => JInv
  BY DEF JInit, JInv, StoreKeepsAll

\* is kept by every step,
LEMMA JInvStep == JInv /\ [JNext]_jvars => JInv'
<1> SUFFICES ASSUME JInv, [JNext]_jvars PROVE JInv'
  OBVIOUS
<1>1. ASSUME Reporting PROVE JInv'
  BY <1>1 DEF JInv, Reporting, StoreKeepsAll
<1>2. ASSUME Registering PROVE JInv'
  <2>1. Reported(cells) = Heard(report)
    BY <1>2, ReportsAreDevices, ReportHeard DEF JInv, Registering
  <2>2. live' = Added(live, AsRegistered(report))
    BY <1>2, <2>1 DEF Registering, Added, AsRegistered
  <2>3. live \in States /\ report' = report /\ place' = "coordinator"
    BY <1>2 DEF JInv, Registering
  <2>4. AtCoordinator(live)'
    BY <2>2, <2>3 DEF AtCoordinator
  <2> QED
    BY <2>3, <2>4 DEF JInv, StoreKeepsAll
<1>3. ASSUME Saving PROVE JInv'
  <2>1. /\ AtCoordinator(live) /\ before' = live /\ cells' = Saved(live)
        /\ place' = "file" /\ report' = report
    BY <1>3 DEF JInv, Saving
  <2>2. AtCoordinator(before)' /\ cells' = Saved(before')
    BY <2>1 DEF AtCoordinator
  <2> QED
    BY <2>1, <2>2 DEF JInv, StoreKeepsAll
<1>4. ASSUME Loading PROVE JInv'
  <2>1. /\ AtCoordinator(before) /\ cells = Saved(before)
        /\ live' = Loaded(cells, Defaults) /\ before' = before
        /\ place' = "loaded" /\ report' = report
    BY <1>4 DEF JInv, Loading
  <2>2. PICK s \in States : before = Added(s, AsRegistered(report))
    BY <2>1 DEF AtCoordinator
  <2>3. IsLiveState(s) /\ IsDevice(AsRegistered(report))
    BY JourneyAssumption, ReportsAreDevices, RegisteredIsDevice DEF JInv
  <2>4. live' = [before EXCEPT !.policy = Recovered(@)]
    BY <2>1, <2>2, <2>3, FileKeeps
  <2>5. StoreKeepsAll'
    BY <2>1, <2>4 DEF StoreKeepsAll
  <2> QED
    BY <2>1, <2>5 DEF JInv
<1>5. ASSUME UNCHANGED jvars PROVE JInv'
  BY <1>5 DEF JInv, jvars, StoreKeepsAll, AtCoordinator
<1> QED
  BY <1>1, <1>2, <1>3, <1>4, <1>5 DEF JNext

\* and so always holds.
LEMMA JInvariant == JSpec => []JInv
  BY JInvInit, JInvStep, PTL DEF JSpec

\* What the next coordinator loads is the state that was saved, whatever the
\* devices, services, programs and deployments are, but for the policy: of any
\* that a coordinator is constructed with it keeps the members the file has no
\* room for, and its weights, before any number of saved ones.
THEOREM StoreComplete == JSpec => []StoreKeepsAll
<1>1. JInv => StoreKeepsAll
  BY DEF JInv
<1> QED
  BY <1>1, JInvariant, PTL

\* And load does not refuse it.
THEOREM StoreLoadable == JSpec => []SavedIsLoadable
<1>1. JInv => SavedIsLoadable
  <2> SUFFICES ASSUME JInv, place = "file"
               PROVE  Read(load_layout, cells).rest = <<>>
    BY DEF SavedIsLoadable
  <2>1. PICK s \in States : before = Added(s, AsRegistered(report))
    BY DEF JInv, AtCoordinator
  <2>2. IsLiveState(s) /\ IsDevice(AsRegistered(report))
    BY JourneyAssumption, ReportsAreDevices, RegisteredIsDevice DEF JInv
  <2>3. cells = Saved(Added(s, AsRegistered(report)))
    BY <2>1 DEF JInv
  <2> QED
    BY <2>2, <2>3, FileKeeps
<1> QED
  BY <1>1, JInvariant, PTL

-----------------------------------------------------------------------------
(* What is decided of a report *)

\* The facts about the hardware that come along with it are all but one.
HardwareNames ==
  {"device_class", "health", "offload_classes", "version", "architecture",
   "firmware_gen", "runtime_gen", "isolation_proven", "isolation_domain",
   "tenant", "ports", "functions", "locality"}

\* What evaluate_offload looks at in a record that was read from the wire, or
\* registered by the coordinator, is what it finds in the one that was sent.
LEMMA SameHardware ==
  ASSUME NEW r, IsDevice(r)
  PROVE  /\ \A f \in HardwareNames :
              HardwareOf(Heard(r))[f] = HardwareOf(r)[f]
         /\ HardwareOf(Heard(r)).hardware_isolation = FALSE
         /\ HardwareOf(AsRegistered(r)) = HardwareOf(Heard(r))
         /\ \A f \in {"lifecycle", "evidence_fresh", "resource_capacity",
                     "capabilities"} :
              EngineRecord(AsRegistered(r))[f] = EngineRecord(r)[f]
<1> DEFINE h == Heard(r)
           a == AsRegistered(r)
<1>1. \A f \in PutFields : f # "capabilities" => h[f] = r[f] /\ a[f] = r[f]
  <2>1. /\ "owning_worker" \notin PutFields
        /\ "owner_worker_boot" \notin PutFields
    BY DEF PutFields, PutNames, PutVectors
  <2> QED
    BY <2>1, OtherNames DEF AsRegistered, Heard, PutFields
<1>2. /\ h["capabilities"] = HeardCaps(r)
      /\ a["capabilities"] = HeardCaps(r)
      /\ h["hardware_isolation"] = FALSE /\ a["hardware_isolation"] = FALSE
  <2>1. /\ "capabilities" \in DeviceNames
        /\ "hardware_isolation" \in DeviceNames
        /\ "hardware_isolation" \notin PutFields
    BY DEF DeviceNames, PutFields, PutNames, PutVectors, UnreportedNames
  <2>2. UnreportedDevice["hardware_isolation"] = FALSE
    BY DEF UnreportedDevice
  <2> QED
    BY <2>1, <2>2 DEF Heard, AsRegistered
<1> HIDE DEF h, a
<1>3. /\ KeysOf(h) = KeysOf(r) /\ KeysOf(a) = KeysOf(r)
      /\ \A k \in KeysOf(r) : /\ CapOf(h, k).version = CapOf(r, k).version
                              /\ CapOf(a, k).version = CapOf(r, k).version
                              /\ CapOf(h, k).state = CapOf(r, k).state
                              /\ CapOf(a, k).state = CapOf(r, k).state
  <2> DEFINE m == r.capabilities
             c == HeardCaps(r)
             at(t, k) == t[CHOOSE i \in DOMAIN t : t[i].key = k]
  <2>1. /\ DOMAIN c = DOMAIN m
        /\ \A i \in DOMAIN m : /\ c[i].key = m[i].key
                               /\ c[i].state = m[i].state
                               /\ c[i].version = m[i].version
    BY DEF HeardCaps, HeardCap, PutCapNames
  <2> HIDE DEF m, c
  <2>2. {c[i].key : i \in DOMAIN c} = {m[i].key : i \in DOMAIN m}
    BY <2>1
  <2>3. ASSUME NEW k \in {m[i].key : i \in DOMAIN m}
        PROVE  /\ at(c, k).version = at(m, k).version
               /\ at(c, k).state = at(m, k).state
    <3>1. (CHOOSE i \in DOMAIN c : c[i].key = k)
            = (CHOOSE i \in DOMAIN m : m[i].key = k)
      BY <2>1
    <3>2. (CHOOSE i \in DOMAIN m : m[i].key = k) \in DOMAIN m
      OBVIOUS
    <3> QED
      BY <2>1, <3>1, <3>2
  <2>4. /\ KeysOf(h) = {c[i].key : i \in DOMAIN c}
        /\ KeysOf(a) = {c[i].key : i \in DOMAIN c}
        /\ KeysOf(r) = {m[i].key : i \in DOMAIN m}
    BY <1>2, Zenon DEF KeysOf, m, c
  <2>5. \A k : /\ CapOf(h, k) = at(c, k)
              /\ CapOf(a, k) = at(c, k)
              /\ CapOf(r, k) = at(m, k)
    BY <1>2, Zenon DEF CapOf, m, c
  <2> HIDE DEF at
  <2> QED
    BY <2>2, <2>3, <2>4, <2>5
<1>4. [k \in KeysOf(h) |-> CapOf(h, k).version]
        = [k \in KeysOf(r) |-> CapOf(r, k).version]
  BY <1>3
<1>5. [k \in KeysOf(a) |-> CapOf(a, k).version]
        = [k \in KeysOf(r) |-> CapOf(r, k).version]
  BY <1>3
<1> DEFINE reported == {"device_class", "health", "offload_classes",
             "architecture", "firmware_gen", "runtime_gen",
             "isolation_proven", "isolation_domain", "tenant", "ports",
             "functions", "locality"}
<1>6. \A f \in reported : h[f] = r[f] /\ a[f] = r[f]
  <2>1. reported \subseteq PutFields /\ "capabilities" \notin reported
    BY DEF PutFields, PutNames, PutVectors
  <2> HIDE DEF reported
  <2> QED
    BY <1>1, <2>1
<1>7. /\ \A f \in HardwareNames : HardwareOf(h)[f] = HardwareOf(r)[f]
      /\ HardwareOf(h).hardware_isolation = FALSE
  <2> DEFINE V == [k \in KeysOf(r) |-> CapOf(r, k).version]
  <2>1. [k \in KeysOf(h) |-> CapOf(h, k).version] = V
    BY <1>4
  <2>2. \A f \in reported : h[f] = r[f]
    BY <1>6
  <2> HIDE DEF V
  <2>3. /\ h.device_class = r.device_class /\ h.health = r.health
        /\ h.offload_classes = r.offload_classes
        /\ h.architecture = r.architecture
        /\ h.firmware_gen = r.firmware_gen /\ h.runtime_gen = r.runtime_gen
        /\ h.isolation_proven = r.isolation_proven
        /\ h.isolation_domain = r.isolation_domain /\ h.tenant = r.tenant
        /\ h.ports = r.ports /\ h.functions = r.functions
        /\ h.locality = r.locality
    BY <2>2
  <2> DEFINE X(isolation) ==
          [device_class |-> r.device_class, health |-> r.health,
           offload_classes |-> ToSet(r.offload_classes), version |-> V,
           architecture |-> r.architecture, firmware_gen |-> r.firmware_gen,
           runtime_gen |-> r.runtime_gen, hardware_isolation |-> isolation,
           isolation_proven |-> r.isolation_proven,
           isolation_domain |-> r.isolation_domain, tenant |-> r.tenant,
           ports |-> ToSet(r.ports), functions |-> ToSet(r.functions),
           locality |-> r.locality]
  <2>4. HardwareOf(r) = X(r.hardware_isolation)
    BY Zenon DEF HardwareOf, V
  <2>5. HardwareOf(h) = X(FALSE)
    BY <1>2, <2>1, <2>3 DEF HardwareOf
  <2>6. ASSUME NEW x, NEW y, NEW f \in HardwareNames
        PROVE  X(x)[f] = X(y)[f]
    BY DEF HardwareNames
  <2>7. X(FALSE).hardware_isolation = FALSE
    OBVIOUS
  <2> HIDE DEF X
  <2> QED
    BY <2>4, <2>5, <2>6, <2>7
<1>8. HardwareOf(a) = HardwareOf(h)
  BY <1>2, <1>4, <1>5, <1>6 DEF HardwareOf
<1>9. ASSUME NEW f \in {"lifecycle", "evidence_fresh", "resource_capacity",
                        "capabilities"}
      PROVE  EngineRecord(a)[f] = EngineRecord(r)[f]
  <2>1. [k \in Keys |-> IF k \in KeysOf(a) THEN CapOf(a, k).state ELSE "ABSENT"]
          = [k \in Keys |-> IF k \in KeysOf(r) THEN CapOf(r, k).state
                           ELSE "ABSENT"]
    BY <1>3
  <2>2. /\ a.lifecycle = r.lifecycle /\ a.evidence_fresh = r.evidence_fresh
        /\ a.resource_capacity = r.resource_capacity
    <3>1. {"lifecycle", "evidence_fresh", "resource_capacity"}
            \subseteq PutFields \ {"capabilities"}
      BY DEF PutFields, PutNames
    <3> QED
      BY <1>1, <3>1
  <2> QED
    BY <2>1, <2>2 DEF EngineRecord
<1> QED
  BY <1>7, <1>8, <1>9 DEF h, a

\* What is asked of a device, of the worker's engine and of the coordinator's.
LEMMA SameMeasures ==
  ASSUME report \in Reports, IsDevice(report),
         live.devices[report.device_id] = AsRegistered(report)
  PROVE  /\ \A k : There!state_of(report, k) = Here!state_of(report, k)
         /\ There!headroom(report) = Here!headroom(report)
         /\ There!queue_pressure(report) = Here!queue_pressure(report)
         /\ \A rr : There!can_admit(report, rr) <=> Here!can_admit(report, rr)
<1> DEFINE e == EngineRecord(report)
           g == EngineRecord(live.devices[report.device_id])
           E == OnlyOf(e)[report]
           G == OnlyOf(g)[report]
           U == OnlyOf(Unused(e))[report]
           W == OnlyOf(Unused(g))[report]
<1>1. E = e /\ G = g /\ U = Unused(e) /\ W = Unused(g)
  BY DEF OnlyOf
<1>2. e.resource_capacity = g.resource_capacity
      /\ e.capabilities = g.capabilities
  BY SameHardware
<1> HIDE DEF e, g
<1>3. /\ E.resource_capacity = G.resource_capacity
      /\ E.capabilities = G.capabilities
      /\ U.used = W.used
  BY <1>1, <1>2 DEF Unused
<1> HIDE DEF E, G, U, W
<1>4. ASSUME NEW k
      PROVE  There!state_of(report, k) = Here!state_of(report, k)
  BY <1>3 DEF There!state_of, Here!state_of, E, G, e, g
<1>5. ASSUME NEW i
      PROVE  There!Share(report, i) = Here!Share(report, i)
  BY <1>3 DEF There!Share, Here!Share, There!cap, Here!cap, There!usage,
     Here!usage, E, G, U, W, e, g
<1>6. There!headroom(report) = Here!headroom(report)
  <2>1. {There!Share(report, i) : i \in Dims}
          = {Here!Share(report, i) : i \in Dims}
    BY <1>5
  <2>2. \A S : There!Max(S) = Here!Max(S)
    BY Zenon DEF There!Max, Here!Max
  <2> QED
    BY <2>1, <2>2 DEF There!headroom, Here!headroom
<1>7. There!queue_pressure(report) = Here!queue_pressure(report)
  BY <1>5 DEF There!queue_pressure, Here!queue_pressure
<1>8. ASSUME NEW rr
      PROVE  There!can_admit(report, rr) <=> Here!can_admit(report, rr)
  <2>1. \A x, y : There!Plus(x, y) = Here!Plus(x, y)
    BY Zenon DEF There!Plus, Here!Plus
  <2>2. /\ \A i : There!cap(report)[i] = Here!cap(report)[i]
        /\ \A i : There!usage(report)[i] = Here!usage(report)[i]
    BY <1>3 DEF There!cap, Here!cap, There!usage, Here!usage,
       E, G, U, W, e, g
  <2> QED
    BY <2>1, <2>2 DEF There!can_admit, Here!can_admit
<1> QED
  BY <1>4, <1>6, <1>7, <1>8

\* What is asked depends on the catalog alone.
LEMMA SameQuestions ==
  ASSUME NEW ask
  PROVE  /\ There!ServiceOf(ask) = Here!ServiceOf(ask)
         /\ There!wanted_program(ask) = Here!wanted_program(ask)
         /\ There!Artifact(ask) = Here!Artifact(ask)
         /\ There!RequiredCaps(ask) = Here!RequiredCaps(ask)
         /\ There!Isolation(ask) = Here!Isolation(ask)
         /\ There!Resources(ask) = Here!Resources(ask)
<1>1. There!ServiceOf(ask) = Here!ServiceOf(ask)
  BY DEF There!ServiceOf, Here!ServiceOf
<1>2. There!wanted_program(ask) = Here!wanted_program(ask)
  BY <1>1, Zenon DEF There!wanted_program, Here!wanted_program
<1>3. There!Artifact(ask) = Here!Artifact(ask)
  BY <1>2, Zenon DEF There!Artifact, Here!Artifact
<1>4. There!RequiredCaps(ask) = Here!RequiredCaps(ask)
  BY <1>1, <1>3, Zenon DEF There!RequiredCaps, Here!RequiredCaps
<1>5. There!Isolation(ask) = Here!Isolation(ask)
  BY <1>1, Zenon DEF There!Isolation, Here!Isolation
<1>6. There!Resources(ask) = Here!Resources(ask)
  BY <1>1, Zenon DEF There!Resources, Here!Resources
<1> QED
  BY <1>1, <1>2, <1>3, <1>4, <1>5, <1>6

\* The reasons to reject the device are the same, but for the two that ask
\* whether its isolation is proven.
LEMMA SameRejections ==
  ASSUME report \in Reports, IsDevice(report),
         live.devices[report.device_id] = AsRegistered(report),
         NEW ask
  PROVE  /\ There!Rejections(report, ask) \subseteq Here!Rejections(report, ask)
         /\ Here!Rejections(report, ask) \subseteq
              There!Rejections(report, ask)
                \cup {"ISOLATION_UNPROVEN", "SECURITY_MODE_INCOMPATIBLE"}
<1> DEFINE x == HardwareSent[report]
           y == HardwareReported[report]
           e == OnlyOf(EngineRecord(report))[report]
           g == OnlyOf(EngineRecord(live.devices[report.device_id]))[report]
<1>1. /\ \A f \in HardwareNames : y[f] = x[f]
      /\ y.hardware_isolation = FALSE
  <2>1. x = HardwareOf(report) /\ y = HardwareOf(Heard(report))
    BY ReportHeard DEF HardwareSent, HardwareReported
  <2> QED
    BY <2>1, SameHardware
<1>2. g.lifecycle = e.lifecycle /\ g.evidence_fresh = e.evidence_fresh
  BY SameHardware DEF OnlyOf
<1>3. There!EvidenceStale(report) <=> Here!EvidenceStale(report)
  <2> HIDE DEF e, g
  <2> QED
    BY <1>2 DEF There!EvidenceStale, Here!EvidenceStale, e, g
<1>4. ~Here!IsolationProven(report)
  BY <1>1 DEF Here!IsolationProven
<1>5. /\ y.device_class = x.device_class /\ y.health = x.health
      /\ y.offload_classes = x.offload_classes /\ y.version = x.version
      /\ y.architecture = x.architecture /\ y.firmware_gen = x.firmware_gen
      /\ y.runtime_gen = x.runtime_gen
      /\ y.isolation_domain = x.isolation_domain /\ y.tenant = x.tenant
      /\ y.ports = x.ports /\ y.functions = x.functions
      /\ y.locality = x.locality
  <2> HIDE DEF x, y
  <2> QED
    BY <1>1 DEF HardwareNames
<1> HIDE DEF x, y, e, g
<1>6. /\ \A a, b : There!Conflict(a, b) <=> Here!Conflict(a, b)
      /\ \A a : There!health_severity(a) = Here!health_severity(a)
      /\ \A a : There!locality_value(a) = Here!locality_value(a)
      /\ \A a, b : There!When(a, b) = Here!When(a, b)
  BY Zenon DEF There!Conflict, Here!Conflict, There!health_severity,
     Here!health_severity, There!locality_value, Here!locality_value,
     There!Tenths, Here!Tenths, There!When, Here!When
<1>7. ASSUME NEW iso, Here!satisfied_by(iso, FALSE, y)
      PROVE  There!satisfied_by(iso, There!IsolationProven(report), x)
  BY <1>5, <1>6, <1>7 DEF There!satisfied_by, Here!satisfied_by
<1>8. /\ \A k : There!state_of(report, k) = Here!state_of(report, k)
      /\ There!headroom(report) = Here!headroom(report)
      /\ There!queue_pressure(report) = Here!queue_pressure(report)
      /\ \A rr : There!can_admit(report, rr) <=> Here!can_admit(report, rr)
  BY SameMeasures
<1>9. There!DeviceReasons(report, ask) = Here!DeviceReasons(report, ask)
  <2>1. HardwareSent[report] = x /\ HardwareReported[report] = y
    BY DEF x, y
  <2>2. /\ OnlyOf(EngineRecord(report))[report] = e
        /\ OnlyOf(EngineRecord(live.devices[report.device_id]))[report] = g
    BY DEF e, g
  <2>3. ASSUME NEW z
        PROVE  z \in There!DeviceReasons(report, ask)
                 <=> z \in Here!DeviceReasons(report, ask)
    BY <1>2, <1>3, <1>5, <1>6, <2>1, <2>2
       DEF There!DeviceReasons, Here!DeviceReasons, There!When, Here!When
  <2> QED
    BY <2>3
<1>10. There!CapabilityReasons(report, ask)
         = Here!CapabilityReasons(report, ask)
  <2>1. HardwareSent[report] = x /\ HardwareReported[report] = y
    BY DEF x, y
  <2>3. ASSUME NEW z
        PROVE  z \in There!CapabilityReasons(report, ask)
                 <=> z \in Here!CapabilityReasons(report, ask)
    BY <1>5, <1>8, <2>1, SameQuestions
       DEF There!CapabilityReasons, Here!CapabilityReasons, There!When,
           Here!When
  <2> QED
    BY <2>3
<1>11. There!CatalogReasons(report, ask) = Here!CatalogReasons(report, ask)
  <2>1. HardwareSent[report] = x /\ HardwareReported[report] = y
    BY DEF x, y
  <2>3. ASSUME NEW z
        PROVE  z \in There!CatalogReasons(report, ask)
                 <=> z \in Here!CatalogReasons(report, ask)
    BY <1>5, <1>6, <2>1, SameQuestions
       DEF There!CatalogReasons, Here!CatalogReasons, There!When, Here!When
  <2> QED
    BY <2>3
<1>12. There!BindingReasons(report, ask) = Here!BindingReasons(report, ask)
  BY <1>5, <1>6 DEF There!BindingReasons, Here!BindingReasons, x, y
<1>13. There!LoadReasons(report, ask) = Here!LoadReasons(report, ask)
  BY <1>6, <1>8, SameQuestions DEF There!LoadReasons, Here!LoadReasons
<1>14. /\ There!IsolationReasons(report, ask)
            \subseteq Here!IsolationReasons(report, ask)
       /\ Here!IsolationReasons(report, ask)
            \subseteq {"ISOLATION_UNPROVEN", "SECURITY_MODE_INCOMPATIBLE"}
  <2>1. HardwareSent[report] = x /\ HardwareReported[report] = y
    BY DEF x, y
  <2>2. Here!IsolationProven(report) = FALSE
    BY <1>4 DEF Here!IsolationProven
  <2>3. Here!satisfied_by(Here!Isolation(ask), FALSE, y)
          => There!satisfied_by(Here!Isolation(ask),
                                There!IsolationProven(report), x)
    BY <1>7
  <2> QED
    BY <1>4, <2>1, <2>2, <2>3, SameQuestions
       DEF There!IsolationReasons, Here!IsolationReasons, There!When, Here!When
<1> QED
  BY <1>9, <1>10, <1>11, <1>12, <1>13, <1>14
     DEF There!Rejections, Here!Rejections

\* A device that a worker reports is rejected for every reason for which the
\* worker's own engine would reject it, and for no other one than that its
\* isolation is not proven: whatever the report, the request, the catalog and
\* the policy are.
THEOREM WireKeepsReasons == JSpec => []WireLosesOnlyIsolation
<1>1. JInv => WireLosesOnlyIsolation
  <2> SUFFICES ASSUME JInv, place = "coordinator", NEW ask \in Asks,
                      NEW d, d = live.devices[report.device_id]
               PROVE  /\ HardwareOf(d) = HardwareReported[report]
                      /\ There!Rejections(report, ask)
                           \subseteq Here!Rejections(report, ask)
                      /\ Here!Rejections(report, ask)
                           \subseteq There!Rejections(report, ask)
                             \cup {"ISOLATION_UNPROVEN",
                                   "SECURITY_MODE_INCOMPATIBLE"}
    BY Zenon DEF WireLosesOnlyIsolation
  <2>1. report \in Reports /\ IsDevice(report)
    BY ReportsAreDevices DEF JInv
  <2>2. PICK s \in States : live = Added(s, AsRegistered(report))
    BY DEF JInv, AtCoordinator
  <2>3. IsLiveState(s)
    BY JourneyAssumption
  <2>4. AsRegistered(report).device_id = report.device_id
    BY <2>1, RegisteredIsDevice
  <2>5. live.devices = [id \in {report.device_id} |-> AsRegistered(report)]
    <3> DEFINE a == AsRegistered(report)
    <3> HIDE DEF a
    <3> DEFINE l == Added(s, a)
    <3> HIDE DEF l
    <3>1. l.devices = [id \in {a.device_id} |-> a]
      BY <2>3, AddedHas DEF l
    <3>2. live = l
      BY <2>2, Zenon DEF a, l
    <3> QED
      BY <2>4, <3>1, <3>2, Zenon DEF a
  <2>6. d = AsRegistered(report)
    BY <2>5
  <2>7. HardwareReported[report] = HardwareOf(Heard(report))
    BY <2>1, ReportHeard DEF HardwareReported
  <2> QED
    BY <2>1, <2>6, <2>7, SameHardware, SameRejections
<1> QED
  BY <1>1, JInvariant, PTL

=============================================================================
