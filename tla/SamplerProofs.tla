---------------------------- MODULE SamplerProofs ----------------------------
(***************************************************************************)
(* What holds of PacketSampler for every number of CPUs, every size of the *)
(* ring buffers and any number of packets.                                 *)
(***************************************************************************)
EXTENDS PacketSampler, SequenceTheorems, TLAPS

Packets == Nat \ {0}
Record == [type : {"SAMPLE", "LOST"}, packets : SUBSET Packets]

-----------------------------------------------------------------------------
(* One CPU: of its ring rg the first h records have been handled, st is in *)
(* the file, and its program got packets up to p.                          *)

Unread(rg, h) == UNION {rg[i].packets : i \in h + 1 .. Len(rg)}
Written(st) == {st[i] : i \in 1 .. Len(st)}

(* Samples are of one packet each, later ones of later packets, and the file is
   behind the ring. *)
OneEach(rg, p) ==
  \A i \in 1 .. Len(rg) : rg[i].type = "SAMPLE" => \E n \in 1 .. p : rg[i].packets = {n}
RingOrder(rg) ==
  \A i, j \in 1 .. Len(rg) : i < j /\ rg[i].type = "SAMPLE" /\ rg[j].type = "SAMPLE" =>
    \A m \in rg[i].packets : \A n \in rg[j].packets : m < n
FileBehind(st, rg, h) ==
  \A i \in 1 .. Len(st) : \A j \in h + 1 .. Len(rg) :
    rg[j].type = "SAMPLE" => \A n \in rg[j].packets : st[i] < n
FileOf(st, p) == \A i \in 1 .. Len(st) : st[i] <= p
InOrder(st, rg, h, p) ==
  OneEach(rg, p) /\ RingOrder(rg) /\ FileBehind(st, rg, h) /\ FileOf(st, p) /\ Increasing(st)

(* Nothing has vanished. *)
Accounted(st, tl, rg, h, l, m, p) == m + 1 .. p = Written(st) \cup tl \cup Unread(rg, h) \cup l

(* What sequences of records are made of. *)
LEMMA SequenceFacts ==
  ASSUME NEW S, NEW s \in Seq(S), NEW e \in S
  PROVE  /\ Len(s) \in Nat /\ \A i \in 1 .. Len(s) : s[i] \in S
         /\ Append(s, e) \in Seq(S) /\ Len(Append(s, e)) = Len(s) + 1
         /\ \A i \in 1 .. Len(s) : Append(s, e)[i] = s[i]
         /\ Append(s, e)[Len(s) + 1] = e
  OBVIOUS

LEMMA AppendUnread ==
  ASSUME NEW rg \in Seq(Record), NEW r \in Record, NEW h \in 0 .. Len(rg)
  PROVE  Unread(Append(rg, r), h) = Unread(rg, h) \cup r.packets
<1> DEFINE q == Append(rg, r)
<1>1. /\ Len(rg) \in Nat /\ Len(q) = Len(rg) + 1
      /\ \A i \in 1 .. Len(rg) : q[i] = rg[i]
      /\ q[Len(rg) + 1] = r
  BY SequenceFacts
<1> HIDE DEF q
<1>2. ASSUME NEW n PROVE n \in Unread(q, h) <=> n \in Unread(rg, h) \cup r.packets
  <2>1. h + 1 .. Len(q) = (h + 1 .. Len(rg)) \cup {Len(rg) + 1}
    BY <1>1
  <2>2. \A i \in h + 1 .. Len(rg) : q[i] = rg[i]
    BY <1>1
  <2>3. n \in Unread(q, h) <=> \E i \in h + 1 .. Len(q) : n \in q[i].packets
    BY DEF Unread
  <2>4. n \in Unread(rg, h) <=> \E i \in h + 1 .. Len(rg) : n \in rg[i].packets
    BY DEF Unread
  <2> QED BY <2>1, <2>2, <2>3, <2>4, <1>1
<1> QED BY <1>2 DEF q

LEMMA NextUnread ==
  ASSUME NEW rg \in Seq(Record), NEW h \in Nat, h < Len(rg)
  PROVE  Unread(rg, h) = rg[h + 1].packets \cup Unread(rg, h + 1)
<1>1. ASSUME NEW n PROVE n \in Unread(rg, h) <=> n \in rg[h + 1].packets \cup Unread(rg, h + 1)
  <2>1. h + 1 .. Len(rg) = {h + 1} \cup (h + 1 + 1 .. Len(rg))
    OBVIOUS
  <2>2. n \in Unread(rg, h) <=> \E i \in h + 1 .. Len(rg) : n \in rg[i].packets
    BY DEF Unread
  <2>3. n \in Unread(rg, h + 1) <=> \E i \in h + 1 + 1 .. Len(rg) : n \in rg[i].packets
    BY DEF Unread
  <2> QED BY <2>1, <2>2, <2>3
<1> QED BY <1>1

(* What is left of a ring when its first b records are released. *)
LEMMA ReleaseFacts ==
  ASSUME NEW rg \in Seq(Record), NEW b \in 0 .. Len(rg)
  PROVE  /\ SubSeq(rg, b + 1, Len(rg)) \in Seq(Record)
         /\ Len(SubSeq(rg, b + 1, Len(rg))) = Len(rg) - b
         /\ \A i \in 1 .. Len(rg) - b : SubSeq(rg, b + 1, Len(rg))[i] = rg[i + b]
<1>1. Len(rg) \in Nat /\ b \in Nat /\ \A i \in 1 .. Len(rg) : rg[i] \in Record
  OBVIOUS
<1> DEFINE m == b + 1
           n == Len(rg)
<1>2. m \in Int /\ n \in Int /\ \A i \in m .. n : rg[i] \in Record
  BY <1>1
<1> HIDE DEF m, n
<1>3. /\ SubSeq(rg, m, n) \in Seq(Record)
      /\ Len(SubSeq(rg, m, n)) = IF m <= n THEN n - m + 1 ELSE 0
      /\ \A i \in 1 .. n - m + 1 : SubSeq(rg, m, n)[i] = rg[m + i - 1]
  BY <1>2, SubSeqProperties
<1>4. n - m + 1 = Len(rg) - b /\ \A i \in Int : m + i - 1 = i + b
  BY <1>1 DEF m, n
<1>5. Len(SubSeq(rg, m, n)) = Len(rg) - b
  BY <1>1, <1>3 DEF m, n
<1>6. \A i \in 1 .. Len(rg) - b : SubSeq(rg, m, n)[i] = rg[i + b]
  <2> SUFFICES ASSUME NEW i \in 1 .. Len(rg) - b PROVE SubSeq(rg, m, n)[i] = rg[i + b]
    OBVIOUS
  <2>1. i \in 1 .. n - m + 1 /\ m + i - 1 = i + b
    BY <1>1, <1>4
  <2> QED BY <1>3, <2>1
<1>7. SubSeq(rg, m, n) \in Seq(Record)
  BY <1>3
<1> QED BY <1>5, <1>6, <1>7 DEF m, n

LEMMA ReleaseUnread ==
  ASSUME NEW rg \in Seq(Record), NEW b \in 0 .. Len(rg)
  PROVE  Unread(SubSeq(rg, b + 1, Len(rg)), 0) = Unread(rg, b)
<1> DEFINE q == SubSeq(rg, b + 1, Len(rg))
<1>1. /\ Len(rg) \in Nat /\ b \in Nat /\ Len(q) = Len(rg) - b
      /\ \A i \in 1 .. Len(rg) - b : q[i] = rg[i + b]
  BY ReleaseFacts
<1> HIDE DEF q
<1>2. ASSUME NEW n PROVE n \in Unread(q, 0) <=> n \in Unread(rg, b)
  <2>1. n \in Unread(q, 0) <=> \E i \in 1 .. Len(rg) - b : n \in rg[i + b].packets
    <3>1. Len(q) \in Nat /\ 0 + 1 .. Len(q) = 1 .. Len(rg) - b
      BY <1>1
    <3>2. n \in Unread(q, 0) <=> \E i \in 0 + 1 .. Len(q) : n \in q[i].packets
      BY DEF Unread
    <3> QED BY <1>1, <3>1, <3>2
  <2>2. n \in Unread(rg, b) <=> \E i \in b + 1 .. Len(rg) : n \in rg[i].packets
    BY DEF Unread
  <2>3. ASSUME NEW i \in b + 1 .. Len(rg), n \in rg[i].packets
        PROVE  \E j \in 1 .. Len(rg) - b : n \in rg[j + b].packets
    <3>1. i - b \in 1 .. Len(rg) - b /\ (i - b) + b = i
      BY <1>1
    <3> QED BY <3>1, <2>3
  <2>4. ASSUME NEW j \in 1 .. Len(rg) - b, n \in rg[j + b].packets
        PROVE  \E i \in b + 1 .. Len(rg) : n \in rg[i].packets
    <3>1. j + b \in b + 1 .. Len(rg)
      BY <1>1
    <3> QED BY <3>1, <2>4
  <2> QED BY <2>1, <2>2, <2>3, <2>4
<1> QED BY <1>2 DEF q

LEMMA AppendWritten ==
  ASSUME NEW st \in Seq(Packets), NEW n \in Packets
  PROVE  Written(Append(st, n)) = Written(st) \cup {n}
<1> DEFINE q == Append(st, n)
<1>1. /\ Len(st) \in Nat /\ Len(q) = Len(st) + 1
      /\ \A i \in 1 .. Len(st) : q[i] = st[i]
      /\ q[Len(st) + 1] = n
  BY SequenceFacts
<1> HIDE DEF q
<1>2. 1 .. Len(q) = (1 .. Len(st)) \cup {Len(st) + 1}
  BY <1>1
<1> QED BY <1>1, <1>2 DEF Written, q

-----------------------------------------------------------------------------
(* The order is kept when a record is written to the ring ...              *)

LEMMA AppendLostInOrder ==
  ASSUME NEW st \in Seq(Packets), NEW rg \in Seq(Record), NEW h \in 0 .. Len(rg), NEW p \in Nat,
         NEW l \in SUBSET Packets, InOrder(st, rg, h, p)
  PROVE  Append(rg, Lost(l)) \in Seq(Record) /\ InOrder(st, Append(rg, Lost(l)), h, p)
<1> DEFINE r == Lost(l)
           q == Append(rg, r)
<1>1. r \in Record /\ r.type # "SAMPLE"
  BY DEF Lost, Record
<1> HIDE DEF r
<1>2. /\ q \in Seq(Record) /\ Len(rg) \in Nat /\ Len(q) = Len(rg) + 1
      /\ \A i \in 1 .. Len(rg) : q[i] = rg[i]
      /\ q[Len(rg) + 1] = r
  BY <1>1, SequenceFacts
<1> HIDE DEF q
<1>3. \A i \in 1 .. Len(q) : q[i].type = "SAMPLE" => i \in 1 .. Len(rg)
  BY <1>1, <1>2
<1>4. OneEach(q, p)
  BY <1>2, <1>3 DEF InOrder, OneEach
<1>5. RingOrder(q)
  <2> SUFFICES ASSUME NEW i \in 1 .. Len(q), NEW j \in 1 .. Len(q), i < j,
                      q[i].type = "SAMPLE", q[j].type = "SAMPLE",
                      NEW m \in q[i].packets, NEW n \in q[j].packets
               PROVE  m < n
    BY DEF RingOrder
  <2>1. i \in 1 .. Len(rg) /\ j \in 1 .. Len(rg) /\ q[i] = rg[i] /\ q[j] = rg[j]
    BY <1>2, <1>3
  <2> QED BY <2>1 DEF InOrder, RingOrder
<1>6. FileBehind(st, q, h)
  <2> SUFFICES ASSUME NEW i \in 1 .. Len(st), NEW j \in h + 1 .. Len(q), q[j].type = "SAMPLE",
                      NEW n \in q[j].packets
               PROVE  st[i] < n
    BY DEF FileBehind
  <2>1. j \in h + 1 .. Len(rg) /\ q[j] = rg[j]
    BY <1>2, <1>3
  <2> QED BY <2>1 DEF InOrder, FileBehind
<1> QED BY <1>2, <1>4, <1>5, <1>6 DEF InOrder, q, r

LEMMA AppendSampleInOrder ==
  ASSUME NEW st \in Seq(Packets), NEW rg \in Seq(Record), NEW h \in 0 .. Len(rg), NEW p \in Nat,
         InOrder(st, rg, h, p)
  PROVE  /\ Append(rg, Sample(p + 1)) \in Seq(Record)
         /\ InOrder(st, Append(rg, Sample(p + 1)), h, p + 1)
<1> DEFINE r == Sample(p + 1)
           q == Append(rg, r)
<1>1. r \in Record /\ r.packets = {p + 1}
  BY DEF Sample, Record, Packets
<1> HIDE DEF r
<1>2. /\ q \in Seq(Record) /\ Len(rg) \in Nat /\ Len(q) = Len(rg) + 1
      /\ \A i \in 1 .. Len(rg) : q[i] = rg[i]
      /\ q[Len(rg) + 1] = r
  BY <1>1, SequenceFacts
<1> HIDE DEF q
<1>3. \A i \in 1 .. Len(q) : i \in 1 .. Len(rg) \/ i = Len(rg) + 1
  BY <1>2
<1>4. OneEach(q, p + 1)
  <2> SUFFICES ASSUME NEW i \in 1 .. Len(q), q[i].type = "SAMPLE"
               PROVE  \E n \in 1 .. p + 1 : q[i].packets = {n}
    BY DEF OneEach
  <2>1. CASE i \in 1 .. Len(rg)
    <3>1. PICK n \in 1 .. p : rg[i].packets = {n}
      BY <2>1, <1>2 DEF InOrder, OneEach
    <3>2. n \in 1 .. p + 1 /\ q[i].packets = {n}
      BY <2>1, <1>2, <3>1
    <3> QED BY <3>2
  <2>2. CASE i = Len(rg) + 1
    BY <2>2, <1>1, <1>2
  <2> QED BY <2>1, <2>2, <1>3
<1>5. \A i \in 1 .. Len(rg) : rg[i].type = "SAMPLE" => \A m \in rg[i].packets : m \in Nat /\ m <= p
  BY DEF InOrder, OneEach
<1>6. RingOrder(q)
  <2> SUFFICES ASSUME NEW i \in 1 .. Len(q), NEW j \in 1 .. Len(q), i < j,
                      q[i].type = "SAMPLE", q[j].type = "SAMPLE",
                      NEW m \in q[i].packets, NEW n \in q[j].packets
               PROVE  m < n
    BY DEF RingOrder
  <2>1. i \in 1 .. Len(rg) /\ q[i] = rg[i]
    BY <1>2
  <2>2. CASE j \in 1 .. Len(rg)
    BY <2>1, <2>2, <1>2 DEF InOrder, RingOrder
  <2>3. CASE j = Len(rg) + 1
    <3>1. n = p + 1
      BY <2>3, <1>1, <1>2
    <3>2. m \in Nat /\ m <= p
      BY <2>1, <1>5
    <3> QED BY <3>1, <3>2
  <2> QED BY <2>2, <2>3, <1>3
<1>7. FileBehind(st, q, h)
  <2> SUFFICES ASSUME NEW i \in 1 .. Len(st), NEW j \in h + 1 .. Len(q), q[j].type = "SAMPLE",
                      NEW n \in q[j].packets
               PROVE  st[i] < n
    BY DEF FileBehind
  <2>1. CASE j \in h + 1 .. Len(rg)
    BY <2>1, <1>2 DEF InOrder, FileBehind
  <2>2. CASE j = Len(rg) + 1
    <3>1. n = p + 1
      BY <2>2, <1>1, <1>2
    <3>2. st[i] \in Nat /\ st[i] <= p
      BY DEF InOrder, FileOf, Packets
    <3> QED BY <3>1, <3>2
  <2> QED BY <2>1, <2>2, <1>2
<1>8. FileOf(st, p + 1)
  <2> SUFFICES ASSUME NEW i \in 1 .. Len(st) PROVE st[i] <= p + 1
    BY DEF FileOf
  <2>1. st[i] \in Nat /\ st[i] <= p
    BY DEF InOrder, FileOf, Packets
  <2> QED BY <2>1
<1> QED BY <1>2, <1>4, <1>6, <1>7, <1>8 DEF InOrder, q, r

(* ... when a packet is lost or passed, which moves nothing ...            *)
LEMMA PassInOrder ==
  ASSUME NEW st \in Seq(Packets), NEW rg \in Seq(Record), NEW h \in 0 .. Len(rg), NEW p \in Nat,
         InOrder(st, rg, h, p)
  PROVE  InOrder(st, rg, h, p + 1)
<1>1. OneEach(rg, p + 1)
  BY DEF InOrder, OneEach
<1>2. FileOf(st, p + 1)
  <2> SUFFICES ASSUME NEW i \in 1 .. Len(st) PROVE st[i] <= p + 1
    BY DEF FileOf
  <2>1. st[i] \in Nat /\ st[i] <= p
    BY DEF InOrder, FileOf, Packets
  <2> QED BY <2>1
<1> QED BY <1>1, <1>2 DEF InOrder

(* ... when a record is handled ...                                        *)
LEMMA HandleLostInOrder ==
  ASSUME NEW st \in Seq(Packets), NEW rg \in Seq(Record), NEW h \in Nat, h < Len(rg), NEW p \in Nat,
         InOrder(st, rg, h, p)
  PROVE  InOrder(st, rg, h + 1, p)
<1>1. \A j \in h + 1 + 1 .. Len(rg) : j \in h + 1 .. Len(rg)
  OBVIOUS
<1>2. FileBehind(st, rg, h + 1)
  BY <1>1 DEF InOrder, FileBehind
<1> QED BY <1>2 DEF InOrder

LEMMA HandleSampleInOrder ==
  ASSUME NEW st \in Seq(Packets), NEW rg \in Seq(Record), NEW h \in Nat, h < Len(rg), NEW p \in Nat,
         InOrder(st, rg, h, p), NEW n, rg[h + 1].type = "SAMPLE", rg[h + 1].packets = {n}
  PROVE  n \in Packets /\ Append(st, n) \in Seq(Packets) /\ InOrder(Append(st, n), rg, h + 1, p)
<1>1. h + 1 \in 1 .. Len(rg)
  OBVIOUS
<1>2. n \in Nat /\ 0 < n /\ n <= p
  <2>1. PICK k \in 1 .. p : rg[h + 1].packets = {k}
    BY <1>1 DEF InOrder, OneEach
  <2>2. n = k
    BY <2>1
  <2> QED BY <2>1, <2>2
<1> DEFINE q == Append(st, n)
<1>3. /\ q \in Seq(Packets) /\ Len(st) \in Nat /\ Len(q) = Len(st) + 1
      /\ \A i \in 1 .. Len(st) : q[i] = st[i]
      /\ q[Len(st) + 1] = n
  BY <1>2, SequenceFacts DEF Packets
<1> HIDE DEF q
<1>4. \A i \in 1 .. Len(q) : i \in 1 .. Len(st) \/ i = Len(st) + 1
  BY <1>3
<1>5. \A i \in 1 .. Len(st) : st[i] \in Nat /\ st[i] < n
  <2>1. h + 1 \in h + 1 .. Len(rg) /\ n \in rg[h + 1].packets
    OBVIOUS
  <2>2. \A i \in 1 .. Len(st) : st[i] < n
    BY <2>1 DEF InOrder, FileBehind
  <2> QED BY <2>2 DEF Packets
<1>6. FileBehind(q, rg, h + 1)
  <2> SUFFICES ASSUME NEW i \in 1 .. Len(q), NEW j \in h + 1 + 1 .. Len(rg), rg[j].type = "SAMPLE",
                      NEW k \in rg[j].packets
               PROVE  q[i] < k
    BY DEF FileBehind
  <2>1. j \in 1 .. Len(rg) /\ j \in h + 1 .. Len(rg) /\ h + 1 < j
    OBVIOUS
  <2>2. CASE i \in 1 .. Len(st)
    BY <2>1, <2>2, <1>3 DEF InOrder, FileBehind
  <2>3. CASE i = Len(st) + 1
    BY <2>1, <2>3, <1>1, <1>3 DEF InOrder, RingOrder
  <2> QED BY <2>2, <2>3, <1>4
<1>7. FileOf(q, p)
  BY <1>2, <1>3, <1>4 DEF InOrder, FileOf
<1>8. Increasing(q)
  <2> SUFFICES ASSUME NEW i \in 1 .. Len(q), NEW j \in 1 .. Len(q), i < j PROVE q[i] < q[j]
    BY DEF Increasing
  <2>1. i \in 1 .. Len(st) /\ q[i] = st[i]
    BY <1>3
  <2>2. CASE j \in 1 .. Len(st)
    BY <2>1, <2>2, <1>3 DEF InOrder, Increasing
  <2>3. CASE j = Len(st) + 1
    BY <2>1, <2>3, <1>3, <1>5
  <2> QED BY <2>2, <2>3, <1>4
<1> QED BY <1>2, <1>3, <1>6, <1>7, <1>8 DEF InOrder, Packets, q

(* ... and when the records that were handled are released.                *)
LEMMA ReleaseInOrder ==
  ASSUME NEW st \in Seq(Packets), NEW rg \in Seq(Record), NEW b \in 0 .. Len(rg), NEW p \in Nat,
         InOrder(st, rg, b, p)
  PROVE  InOrder(st, SubSeq(rg, b + 1, Len(rg)), 0, p)
<1> DEFINE q == SubSeq(rg, b + 1, Len(rg))
<1>1. /\ Len(rg) \in Nat /\ b \in Nat /\ Len(q) = Len(rg) - b
      /\ \A i \in 1 .. Len(rg) - b : q[i] = rg[i + b]
  BY ReleaseFacts
<1> HIDE DEF q
<1>2. \A i \in 1 .. Len(q) : i + b \in b + 1 .. Len(rg) /\ i + b \in 1 .. Len(rg) /\ q[i] = rg[i + b]
  BY <1>1
<1>3. OneEach(q, p)
  BY <1>2 DEF InOrder, OneEach
<1>4. RingOrder(q)
  <2> SUFFICES ASSUME NEW i \in 1 .. Len(q), NEW j \in 1 .. Len(q), i < j,
                      q[i].type = "SAMPLE", q[j].type = "SAMPLE",
                      NEW m \in q[i].packets, NEW n \in q[j].packets
               PROVE  m < n
    BY DEF RingOrder
  <2>1. i + b < j + b
    BY <1>1
  <2> QED BY <2>1, <1>2 DEF InOrder, RingOrder
<1>5. FileBehind(st, q, 0)
  <2> SUFFICES ASSUME NEW i \in 1 .. Len(st), NEW j \in 0 + 1 .. Len(q), q[j].type = "SAMPLE",
                      NEW n \in q[j].packets
               PROVE  st[i] < n
    BY DEF FileBehind
  <2>1. j + b \in b + 1 .. Len(rg) /\ q[j] = rg[j + b]
    BY <1>2
  <2> QED BY <2>1 DEF InOrder, FileBehind
<1> QED BY <1>3, <1>4, <1>5 DEF InOrder, q

-----------------------------------------------------------------------------
(* Both together: what holds of one CPU.                                   *)

CpuOK(st, tl, rg, h, l, m, p) ==
  m <= p /\ InOrder(st, rg, h, p) /\ Accounted(st, tl, rg, h, l, m, p)

(* The records that a packet writes, if l were lost before it. *)
Records(l, p) == Append(IF l = {} THEN <<>> ELSE <<Lost(l)>>, Sample(p + 1))

LEMMA RecordsAppended ==
  ASSUME NEW rg \in Seq(Record), NEW l \in SUBSET Packets, NEW p \in Nat
  PROVE  rg \o Records(l, p) = Append(IF l = {} THEN rg ELSE Append(rg, Lost(l)), Sample(p + 1))
<1>1. Lost(l) \in Record /\ Sample(p + 1) \in Record
  BY DEF Lost, Sample, Record, Packets
<1> DEFINE a == Lost(l)
           b == Sample(p + 1)
<1> HIDE DEF a, b
<1>2. a \in Record /\ b \in Record
  BY <1>1 DEF a, b
<1>3. rg \o Append(<<>>, b) = Append(rg, b)
  BY <1>2
<1>4. rg \o Append(<<a>>, b) = Append(Append(rg, a), b)
  BY <1>2
<1> QED BY <1>3, <1>4 DEF Records, a, b

(* A packet finds room in the ring ... *)
LEMMA OutputFits ==
  ASSUME NEW st \in Seq(Packets), NEW tl, NEW rg \in Seq(Record), NEW h \in 0 .. Len(rg),
         NEW l \in SUBSET Packets, NEW m \in Nat, NEW p \in Nat,
         CpuOK(st, tl, rg, h, l, m, p)
  PROVE  /\ rg \o Records(l, p) \in Seq(Record)
         /\ CpuOK(st, tl, rg \o Records(l, p), h, {}, m, p + 1)
<1> DEFINE q == IF l = {} THEN rg ELSE Append(rg, Lost(l))
           e == Append(q, Sample(p + 1))
<1>1. Sample(p + 1) \in Record /\ Lost(l) \in Record /\ Sample(p + 1).packets = {p + 1}
      /\ Lost(l).packets = l
  BY DEF Lost, Sample, Record, Packets
<1>2. /\ q \in Seq(Record) /\ h \in 0 .. Len(q)
      /\ InOrder(st, q, h, p) /\ Unread(q, h) = Unread(rg, h) \cup l
  <2>1. CASE l = {}
    BY <2>1 DEF CpuOK
  <2>2. CASE l # {}
    <3>1. q = Append(rg, Lost(l))
      BY <2>2
    <3>2. Append(rg, Lost(l)) \in Seq(Record) /\ InOrder(st, Append(rg, Lost(l)), h, p)
      BY AppendLostInOrder DEF CpuOK
    <3>3. Unread(Append(rg, Lost(l)), h) = Unread(rg, h) \cup l
      BY <1>1, AppendUnread
    <3>4. h \in 0 .. Len(Append(rg, Lost(l)))
      BY <1>1, SequenceFacts
    <3> QED BY <3>1, <3>2, <3>3, <3>4
  <2> QED BY <2>1, <2>2
<1> HIDE DEF q
<1>3. e \in Seq(Record) /\ InOrder(st, e, h, p + 1)
  BY <1>2, AppendSampleInOrder
<1>4. Unread(e, h) = Unread(rg, h) \cup l \cup {p + 1}
  BY <1>1, <1>2, AppendUnread
<1> HIDE DEF e
<1>5. m + 1 .. p + 1 = (m + 1 .. p) \cup {p + 1} /\ m <= p + 1
  BY DEF CpuOK
<1>6. Accounted(st, tl, e, h, {}, m, p + 1)
  BY <1>4, <1>5 DEF CpuOK, Accounted
<1>7. rg \o Records(l, p) = e
  BY RecordsAppended DEF e, q
<1> QED BY <1>3, <1>5, <1>6, <1>7 DEF CpuOK

(* ... or none. *)
LEMMA OutputLost ==
  ASSUME NEW st \in Seq(Packets), NEW tl, NEW rg \in Seq(Record), NEW h \in 0 .. Len(rg),
         NEW l \in SUBSET Packets, NEW m \in Nat, NEW p \in Nat,
         CpuOK(st, tl, rg, h, l, m, p)
  PROVE  CpuOK(st, tl, rg, h, l \cup {p + 1}, m, p + 1)
<1>1. m + 1 .. p + 1 = (m + 1 .. p) \cup {p + 1} /\ m <= p + 1
  BY DEF CpuOK
<1>2. Accounted(st, tl, rg, h, l \cup {p + 1}, m, p + 1)
  BY <1>1 DEF CpuOK, Accounted
<1>3. InOrder(st, rg, h, p + 1)
  BY PassInOrder DEF CpuOK
<1> QED BY <1>1, <1>2, <1>3 DEF CpuOK

(* The packet of a sample. *)
PacketOf(r) == CHOOSE n \in r.packets : TRUE

(* The next record is a sample ... *)
LEMMA HandleSample ==
  ASSUME NEW st \in Seq(Packets), NEW tl, NEW rg \in Seq(Record), NEW h \in Nat, h < Len(rg),
         NEW l, NEW m \in Nat, NEW p \in Nat,
         CpuOK(st, tl, rg, h, l, m, p), rg[h + 1].type = "SAMPLE"
  PROVE  /\ Append(st, PacketOf(rg[h + 1])) \in Seq(Packets)
         /\ CpuOK(Append(st, PacketOf(rg[h + 1])), tl, rg, h + 1, l, m, p)
<1> DEFINE n == PacketOf(rg[h + 1])
<1>1. h + 1 \in 1 .. Len(rg)
  OBVIOUS
<1>2. PICK k \in 1 .. p : rg[h + 1].packets = {k}
  BY <1>1 DEF CpuOK, InOrder, OneEach
<1>3. rg[h + 1].packets = {n}
  BY <1>2 DEF PacketOf
<1> HIDE DEF n
<1>4. n \in Packets /\ Append(st, n) \in Seq(Packets) /\ InOrder(Append(st, n), rg, h + 1, p)
  BY <1>3, HandleSampleInOrder DEF CpuOK
<1>5. Written(Append(st, n)) = Written(st) \cup {n}
  BY <1>4, AppendWritten
<1>6. Unread(rg, h) = {n} \cup Unread(rg, h + 1)
  BY <1>3, NextUnread
<1>7. Accounted(Append(st, n), tl, rg, h + 1, l, m, p)
  BY <1>5, <1>6 DEF CpuOK, Accounted
<1> QED BY <1>4, <1>7 DEF CpuOK, n

(* ... or tells of lost packets. *)
LEMMA HandleLost ==
  ASSUME NEW st \in Seq(Packets), NEW tl, NEW rg \in Seq(Record), NEW h \in Nat, h < Len(rg),
         NEW l, NEW m \in Nat, NEW p \in Nat, CpuOK(st, tl, rg, h, l, m, p)
  PROVE  CpuOK(st, tl \cup rg[h + 1].packets, rg, h + 1, l, m, p)
<1>1. InOrder(st, rg, h + 1, p)
  BY HandleLostInOrder DEF CpuOK
<1>2. Unread(rg, h) = rg[h + 1].packets \cup Unread(rg, h + 1)
  BY NextUnread
<1>3. Accounted(st, tl \cup rg[h + 1].packets, rg, h + 1, l, m, p)
  BY <1>2 DEF CpuOK, Accounted
<1> QED BY <1>1, <1>3 DEF CpuOK

LEMMA Release ==
  ASSUME NEW st \in Seq(Packets), NEW tl, NEW rg \in Seq(Record), NEW b \in 0 .. Len(rg),
         NEW l, NEW m \in Nat, NEW p \in Nat, CpuOK(st, tl, rg, b, l, m, p)
  PROVE  CpuOK(st, tl, SubSeq(rg, b + 1, Len(rg)), 0, l, m, p)
<1>1. InOrder(st, SubSeq(rg, b + 1, Len(rg)), 0, p)
  BY ReleaseInOrder DEF CpuOK
<1>2. Unread(SubSeq(rg, b + 1, Len(rg)), 0) = Unread(rg, b)
  BY ReleaseUnread
<1> QED BY <1>1, <1>2 DEF CpuOK, Accounted

-----------------------------------------------------------------------------
(* The program counts CPUs up to the last one, and handles no more records than
   the ring had. *)

Reading ==
  /\ \A c \in Cpu : Len(ring[c]) <= RingSize
  /\ pc \in {"start", "signals", "open", "mmap"} => cpu < NrCpus
  /\ pc = "records" => cpu < NrCpus /\ batch <= Len(ring[cpu])

(* No packet has reached CPU c's ring, or the file from it. *)
Empty(c) == ring[c] = <<>> /\ lost[c] = {} /\ told[c] = {} /\ stored[c] = <<>>
Unmapped == \A c \in Cpu : ~(c \in opened /\ c \in mapped) /\ pc # "exited" => Empty(c)

(* The records of CPU c's ring that have been handled are those that Waiting leaves out. *)
CpuInv(c) == CpuOK(stored[c], told[c], ring[c], Handling(c), lost[c], missed[c], passed[c])
Contents == \A c \in Cpu : CpuInv(c)

IInv == TypeOK /\ Reading /\ Unmapped /\ Contents

RingType == ring \in [Cpu -> Seq(Record)]
FileType ==
  /\ stored \in [Cpu -> Seq(Packets)] /\ told \in [Cpu -> SUBSET Packets]
  /\ batch \in 0 .. RingSize /\ got \in 0 .. batch

LEMMA CpuFacts ==
  /\ NrCpus \in Nat \ {0} /\ RingSize \in Nat /\ 0 \in Cpu /\ 0 < NrCpus
  /\ \A c : c \in Cpu <=> c \in Nat /\ c < NrCpus
BY SizesAssumption DEF Cpu

(* What is written to a ring are records. *)
LEMMA OutputTyped ==
  ASSUME NEW rg \in Seq(Record), NEW l \in SUBSET Packets, NEW p \in Nat
  PROVE  rg \o Records(l, p) \in Seq(Record) /\ Records(l, p) \in Seq(Record)
<1>1. Sample(p + 1) \in Record /\ Lost(l) \in Record
  BY DEF Lost, Sample, Record, Packets
<1> QED BY <1>1 DEF Records

LEMMA TypesFromStart == Init => TypeOK /\ Reading
<1> SUFFICES ASSUME Init PROVE TypeOK /\ Reading
  OBVIOUS
<1>1. ring \in [Cpu -> Seq(Record)] /\ lost \in [Cpu -> SUBSET Packets] /\ told \in [Cpu -> SUBSET Packets]
      /\ stored \in [Cpu -> Seq(Packets)]
  BY DEF Init, None
<1>2. wakeup \in [Cpu -> BOOLEAN] /\ passed \in [Cpu -> Nat] /\ missed \in [Cpu -> Nat]
  BY DEF Init
<1>3. batch \in 0 .. RingSize /\ got \in 0 .. batch /\ cpu \in 0 .. NrCpus
  BY CpuFacts DEF Init
<1>4. TypeOK
  BY <1>1, <1>2, <1>3 DEF Init, TypeOK, Record, Packets
<1>5. Reading
  BY CpuFacts DEF Init, Reading
<1> QED BY <1>4, <1>5

LEMMA TypesPreserved == TypeOK /\ Reading /\ Contents /\ [Next]_vars => TypeOK' /\ Reading'
<1> SUFFICES ASSUME TypeOK, Reading, Contents, [Next]_vars PROVE TypeOK' /\ Reading'
  OBVIOUS
<1> USE CpuFacts
<1>r. RingType /\ FileType
  BY DEF TypeOK, RingType, FileType, Record, Packets
<1>s. pc = "records" => cpu \in Cpu /\ batch \in Nat /\ got \in Nat /\ ring[cpu] \in Seq(Record)
                       /\ Len(ring[cpu]) \in Nat /\ Len(ring[cpu]) <= RingSize /\ batch <= Len(ring[cpu])
  <2>1. pc = "records" => cpu \in Cpu
    BY DEF TypeOK, Reading, Cpu
  <2> QED BY <2>1, <1>r DEF FileType, RingType, Reading
<1>1. ASSUME NEW c \in Cpu, xdp_sample_prog(c) PROVE TypeOK' /\ Reading'
  <2> DEFINE rs == Records(lost[c], passed[c])
  <2>1. ring[c] \in Seq(Record) /\ lost[c] \in SUBSET Packets /\ passed[c] \in Nat
    BY <1>r DEF TypeOK, RingType, Packets
  <2>2. ring[c] \o rs \in Seq(Record) /\ rs \in Seq(Record)
    BY <2>1, OutputTyped
  <2>3. Len(ring[c] \o rs) = Len(ring[c]) + Len(rs) /\ Len(rs) \in Nat /\ Len(ring[c]) \in Nat
    BY <2>1, <2>2
  <2>4. \/ /\ Len(ring[c]) + Len(rs) <= RingSize
           /\ ring' = [ring EXCEPT ![c] = ring[c] \o rs]
           /\ lost' = [lost EXCEPT ![c] = {}] /\ wakeup' = [wakeup EXCEPT ![c] = TRUE]
        \/ /\ lost' = [lost EXCEPT ![c] = lost[c] \cup {passed[c] + 1}]
           /\ UNCHANGED <<ring, wakeup>>
        \/ UNCHANGED <<ring, lost, wakeup>>
    BY <1>1 DEF xdp_sample_prog, bpf_perf_event_output, Records, ringVars
  <2> HIDE DEF rs
  <2>5. RingType' /\ \A d \in Cpu : Len(ring'[d]) <= RingSize /\ Len(ring'[d]) \in Nat /\ Len(ring[d]) <= Len(ring'[d])
    <3>1. \A d \in Cpu : Len(ring[d]) \in Nat
      BY <1>r DEF RingType
    <3>2. CASE UNCHANGED ring
      BY <3>1, <3>2, <1>r DEF RingType, Reading
    <3>3. CASE Len(ring[c]) + Len(rs) <= RingSize /\ ring' = [ring EXCEPT ![c] = ring[c] \o rs]
      <4>1. RingType'
        BY <3>3, <2>2, <1>r DEF RingType
      <4>2. \A d \in Cpu : ring'[d] = IF d = c THEN ring[c] \o rs ELSE ring[d]
        BY <3>3, <1>r DEF RingType
      <4> QED BY <3>1, <3>3, <4>1, <4>2, <2>3 DEF Reading
    <3> QED BY <3>2, <3>3, <2>4
  <2>6. lost' \in [Cpu -> SUBSET Packets]
    <3>1. lost[c] \cup {passed[c] + 1} \in SUBSET Packets
      BY <2>1 DEF Packets
    <3>2. lost \in [Cpu -> SUBSET Packets]
      BY DEF TypeOK, Packets
    <3> QED BY <2>4, <3>1, <3>2
  <2>7. wakeup' \in [Cpu -> BOOLEAN]
    BY <2>4 DEF TypeOK
  <2>8. passed' \in [Cpu -> Nat] /\ missed' \in [Cpu -> Nat]
    <3>1. passed \in [Cpu -> Nat] /\ missed \in [Cpu -> Nat]
      BY DEF TypeOK
    <3>2. /\ passed' = [passed EXCEPT ![c] = passed[c] + 1]
          /\ UNCHANGED missed \/ missed' = [missed EXCEPT ![c] = passed[c] + 1]
      BY <1>1 DEF xdp_sample_prog
    <3> QED BY <2>1, <3>1, <3>2
  <2>9. UNCHANGED <<procVars, done, hookVars, setupVars, readVars>>
    BY <1>1 DEF xdp_sample_prog
  <2>10. TypeOK'
    BY <2>5, <2>6, <2>7, <2>8, <2>9, SMTT(60)
    DEF TypeOK, RingType, Record, Packets, procVars, hookVars, setupVars, readVars
  <2>11. Reading'
    BY <2>5, <2>9, <1>s DEF Reading, procVars, readVars
  <2> QED BY <2>10, <2>11
<1>2. CASE bpf_perf_event_print
  <2>1. /\ cpu \in Cpu /\ ring[cpu] \in Seq(Record) /\ got \in Nat /\ got < Len(ring[cpu])
        /\ Len(ring[cpu]) \in Nat /\ got + 1 \in 0 .. batch /\ batch \in 0 .. RingSize
    BY <1>2, <1>r, <1>s DEF bpf_perf_event_print, FileType
  <2> DEFINE r == ring[cpu][got + 1]
             n == CHOOSE k \in r.packets : TRUE
  <2>2. r \in Record
    BY <2>1
  <2>3. stored[cpu] \in Seq(Packets) /\ told[cpu] \in SUBSET Packets
    BY <2>1, <1>r DEF FileType
  <2>4. missed[cpu] \in Nat /\ passed[cpu] \in Nat
    BY <2>1 DEF TypeOK
  <2>5. CpuOK(stored[cpu], told[cpu], ring[cpu], got, lost[cpu], missed[cpu], passed[cpu])
    BY <1>2, <2>1 DEF Contents, CpuInv, Handling, bpf_perf_event_print
  <2>6. r.type = "SAMPLE" => Append(stored[cpu], n) \in Seq(Packets)
    <3>1. n = PacketOf(ring[cpu][got + 1])
      BY DEF PacketOf
    <3> HIDE DEF n
    <3> QED BY <2>1, <2>3, <2>4, <2>5, <3>1, HandleSample
  <2>7. /\ r.type = "SAMPLE" => stored' = [stored EXCEPT ![cpu] = Append(stored[cpu], n)] /\ told' = told
        /\ r.type # "SAMPLE" => told' = [told EXCEPT ![cpu] = told[cpu] \cup r.packets] /\ stored' = stored
    BY <1>2 DEF bpf_perf_event_print, print_bpf_output
  <2>8. r.packets \in SUBSET Packets
    BY <2>2 DEF Record
  <2> HIDE DEF r, n
  <2>9. stored' \in [Cpu -> Seq(Packets)]
    BY <2>6, <2>7, <1>r DEF FileType
  <2>10. told' \in [Cpu -> SUBSET Packets]
    <3>1. told[cpu] \cup r.packets \in SUBSET Packets
      BY <2>3, <2>8
    <3> QED BY <3>1, <2>7, <1>r DEF FileType
  <2>11. /\ UNCHANGED <<pc, cpu, ringVars, revents, batch, loopRest>>
         /\ got' = got + 1
    BY <1>2 DEF bpf_perf_event_print
  <2>12. TypeOK'
    BY <2>1, <2>9, <2>10, <2>11, SMTT(60)
    DEF TypeOK, Packets, ringVars, loopRest, hookVars, setupVars, passVars
  <2>13. Reading'
    BY <2>11 DEF Reading, ringVars
  <2> QED BY <2>12, <2>13
<1>3. CASE WriteTail
  <2>1. /\ cpu \in Cpu /\ cpu + 1 \in 0 .. NrCpus /\ ring[cpu] \in Seq(Record)
        /\ batch \in 0 .. Len(ring[cpu]) /\ Len(ring[cpu]) \in Nat /\ Len(ring[cpu]) <= RingSize
    BY <1>3, <1>s DEF WriteTail
  <2> DEFINE q == SubSeq(ring[cpu], batch + 1, Len(ring[cpu]))
  <2>2. q \in Seq(Record) /\ Len(q) = Len(ring[cpu]) - batch
    BY <2>1, ReleaseFacts
  <2>3. ring' = [ring EXCEPT ![cpu] = q]
    BY <1>3 DEF WriteTail
  <2> HIDE DEF q
  <2>4. RingType' /\ \A d \in Cpu : ring'[d] = IF d = cpu THEN q ELSE ring[d]
    BY <2>2, <2>3, <1>r DEF RingType
  <2>5. /\ UNCHANGED <<lost, wakeup, readVars, loopRest>>
        /\ pc' = "read" /\ cpu' = cpu + 1
    BY <1>3 DEF WriteTail
  <2>6. TypeOK'
    BY <2>1, <2>4, <2>5
    DEF TypeOK, RingType, Record, Packets, readVars, loopRest, hookVars, setupVars, passVars
  <2>7. Reading'
    <3>1. Len(q) <= RingSize
      BY <2>1, <2>2
    <3> QED BY <3>1, <2>4, <2>5 DEF Reading
  <2> QED BY <2>6, <2>7
<1>4. CASE ReadHead
  <2>1. /\ UNCHANGED <<ringVars, revents, stored, told, loopRest>>
        /\ \/ cpu = NrCpus /\ pc' = "test" /\ cpu' = 0 /\ UNCHANGED <<batch, got>>
           \/ cpu # NrCpus /\ pc' = pc /\ pc = "read" /\ cpu' = cpu + 1 /\ UNCHANGED <<batch, got>>
           \/ cpu \in revents /\ pc' = "records" /\ cpu' = cpu /\ batch' = Len(ring[cpu]) /\ got' = 0
    BY <1>4 DEF ReadHead
  <2>2. \A c \in Cpu : Len(ring[c]) \in Nat
    BY <1>r DEF RingType
  <2>3. cpu' \in 0 .. NrCpus
    BY <2>1 DEF TypeOK
  <2>4. batch' \in 0 .. RingSize /\ got' \in 0 .. batch'
    <3>1. CASE UNCHANGED <<batch, got>>
      BY <3>1, <1>r DEF FileType
    <3>2. CASE cpu \in revents /\ batch' = Len(ring[cpu]) /\ got' = 0
      <4>1. cpu \in Cpu
        BY <3>2 DEF TypeOK
      <4> QED BY <3>2, <4>1, <2>2 DEF Reading
    <3> QED BY <2>1, <3>1, <3>2
  <2>5. pc' \in {"test", "read", "records"}
    BY <2>1
  <2>6. TypeOK'
    BY <2>1, <2>3, <2>4, <2>5 DEF TypeOK, ringVars, loopRest, hookVars, setupVars, passVars
  <2>7. Reading'
    <3>1. pc' = "records" => cpu' \in Cpu /\ batch' = Len(ring[cpu'])
      BY <2>1 DEF TypeOK
    <3> QED BY <3>1, <2>1, <2>2, <2>5 DEF Reading, ringVars
  <2> QED BY <2>6, <2>7
<1>5. CASE test_bpf_perf_event \/ perf_event_mmap_header
  <2>1. /\ UNCHANGED <<force, nohup, done, hookVars, ringVars, readVars, passVars>>
        /\ pc' \in {"open", "mmap", "pcap", "exited"}
        /\ cpu' \in {cpu, cpu + 1, 0} /\ cpu < NrCpus /\ (cpu' = cpu + 1 => cpu + 1 < NrCpus)
    BY <1>5 DEF test_bpf_perf_event, perf_event_mmap_header, Reading, TypeOK
  <2>2. opened' \subseteq Cpu /\ mapped' \subseteq Cpu
    <3>1. cpu \in Cpu /\ opened \subseteq Cpu /\ mapped \subseteq Cpu
      BY <2>1 DEF TypeOK, Cpu
    <3> QED BY <3>1, <1>5 DEF test_bpf_perf_event, perf_event_mmap_header
  <2>3. cpu' \in 0 .. NrCpus /\ cpu' < NrCpus
    BY <2>1 DEF TypeOK
  <2>4. TypeOK'
    BY <2>1, <2>2, <2>3 DEF TypeOK, hookVars, ringVars, readVars, passVars
  <2>5. Reading'
    BY <2>1, <2>3 DEF Reading, ringVars
  <2> QED BY <2>4, <2>5
<1>6. CASE PollReturns \/ sig_handler
  <2>1. /\ UNCHANGED <<force, nohup, hookVars, setupVars, ring, lost, batch, got, stored, told, passVars>>
        /\ done' \in {done, TRUE}
        /\ \/ pc' = "read" /\ cpu' = 0 /\ revents' = {c \in Cpu : wakeup[c]} /\ wakeup' = [c \in Cpu |-> FALSE]
           \/ UNCHANGED <<pc, cpu, revents, wakeup>>
    BY <1>6 DEF PollReturns, sig_handler, loopRest
  <2>2. wakeup' \in [Cpu -> BOOLEAN] /\ revents' \subseteq Cpu
    BY <2>1 DEF TypeOK
  <2>3. cpu' \in 0 .. NrCpus
    BY <2>1 DEF TypeOK
  <2>d. done' \in BOOLEAN
    BY <2>1 DEF TypeOK
  <2>p. pc' = pc \/ pc' = "read"
    BY <2>1
  <2>v. UNCHANGED <<force, nohup, hookVars, setupVars, ring, lost, batch, got, stored, told, passVars>>
    BY <2>1
  <2>4. TypeOK'
    BY <2>2, <2>3, <2>d, <2>p, <2>v, SMTT(60) DEF TypeOK, hookVars, setupVars, passVars
  <2>5. Reading'
    BY <2>1 DEF Reading
  <2> QED BY <2>4, <2>5
<1>7. CASE \/ do_attach \/ InstallHandlers \/ OpenPcap \/ TestDone \/ CallPoll \/ do_detach \/ Detach
           \/ Killed \/ Others \/ UNCHANGED vars
  <2>1. /\ UNCHANGED <<cpu, force, nohup, done, ringVars, readVars, passVars>>
        /\ pc' \in {pc, "signals", "open", "test", "out", "call", "poll", "detach", "exited"}
        /\ pc' \in {"signals", "open"} => pc \in {"start", "signals", "open"}
        /\ pc' = pc \/ pc' # "records"
    BY <1>7 DEF do_attach, InstallHandlers, OpenPcap, TestDone, CallPoll, do_detach, Detach, Killed, Others,
                setupRest, loopRest, ringVars, readVars, passVars, procVars, vars
  <2>2. /\ hook' \in {"none", "sampler", "other"} /\ curr_prog_id' \in {"none", "sampler", "other"}
        /\ opened' \subseteq Cpu /\ mapped' \subseteq Cpu
    BY <1>7 DEF do_attach, InstallHandlers, OpenPcap, TestDone, CallPoll, do_detach, Detach, Killed, Others,
                setupRest, loopRest, hookVars, setupVars, vars, TypeOK
  <2>b. replaced' \in BOOLEAN /\ refused' \in BOOLEAN
    BY <1>7, Zenon DEF do_attach, InstallHandlers, OpenPcap, TestDone, CallPoll, do_detach, Detach, Killed,
                Others, setupRest, loopRest, hookVars, setupVars, vars, TypeOK
  <2>3. TypeOK'
    BY <2>1, <2>2, <2>b DEF TypeOK, ringVars, readVars, passVars
  <2>4. Reading'
    BY <2>1 DEF Reading, ringVars, readVars
  <2> QED BY <2>3, <2>4
<1> QED BY <1>1, <1>2, <1>3, <1>4, <1>5, <1>6, <1>7 DEF Next, Sampler

-----------------------------------------------------------------------------
(* The contents of the rings and of the file.                              *)

LEMMA ContentsFromStart == Init => Unmapped /\ Contents
<1> SUFFICES ASSUME Init PROVE Unmapped /\ Contents
  OBVIOUS
<1>1. Unmapped
  BY DEF Init, Unmapped, Empty, None
<1>2. Contents
  <2> SUFFICES ASSUME NEW c \in Cpu PROVE CpuInv(c)
    BY DEF Contents
  <2>1. /\ ring[c] = <<>> /\ lost[c] = {} /\ told[c] = {} /\ stored[c] = <<>>
        /\ missed[c] = 0 /\ passed[c] = 0 /\ Handling(c) = 0
    BY DEF Init, None, Handling
  <2>2. CpuOK(<<>>, {}, <<>>, 0, {}, 0, 0)
    BY DEF CpuOK, InOrder, OneEach, RingOrder, FileBehind, FileOf, Increasing, Accounted, Written, Unread
  <2> QED BY <2>1, <2>2 DEF CpuInv
<1> QED BY <1>1, <1>2

(* What is known of a CPU's part of the state. *)
LEMMA CpuTyped ==
  ASSUME TypeOK, Reading, NEW c \in Cpu
  PROVE  /\ stored[c] \in Seq(Packets) /\ ring[c] \in Seq(Record) /\ Handling(c) \in 0 .. Len(ring[c])
         /\ lost[c] \in SUBSET Packets /\ missed[c] \in Nat /\ passed[c] \in Nat
<1>1. /\ stored[c] \in Seq(Packets) /\ lost[c] \in SUBSET Packets /\ missed[c] \in Nat /\ passed[c] \in Nat
  BY DEF TypeOK, Packets
<1>2. ring[c] \in Seq(Record)
  BY DEF TypeOK, Record, Packets
<1>3. Handling(c) \in 0 .. Len(ring[c])
  <2>1. Len(ring[c]) \in Nat
    BY <1>2
  <2>2. batch \in Nat /\ got \in 0 .. batch
    BY CpuFacts DEF TypeOK
  <2> QED BY <2>1, <2>2 DEF Handling, Reading
<1> QED BY <1>1, <1>2, <1>3

(* A step that touches neither the rings nor the file, nor changes where the reader is. *)
LEMMA QuietStep ==
  ASSUME Unmapped, Contents, UNCHANGED <<ring, lost, told, stored, passed, missed>>,
         pc' # "exited" => pc # "exited" /\ opened \subseteq opened' /\ mapped \subseteq mapped',
         \A c \in Cpu : Handling(c)' = Handling(c)
  PROVE  Unmapped' /\ Contents'
<1>1. ASSUME NEW c \in Cpu PROVE CpuInv(c)'
  <2>1. CpuInv(c)
    BY DEF Contents
  <2>2. Handling(c)' = Handling(c)
    OBVIOUS
  <2> QED BY <2>1, <2>2 DEF CpuInv
<1>2. Unmapped'
  BY DEF Unmapped, Empty
<1> QED BY <1>1, <1>2 DEF Contents

LEMMA ContentsPreserved == IInv /\ [Next]_vars => Unmapped' /\ Contents'
<1> SUFFICES ASSUME TypeOK, Reading, Unmapped, Contents, [Next]_vars PROVE Unmapped' /\ Contents'
  BY DEF IInv
<1> USE CpuFacts
<1>1. ASSUME NEW k \in Cpu, xdp_sample_prog(k) PROVE Unmapped' /\ Contents'
  <2>1. /\ pc # "exited" /\ UNCHANGED <<pc, cpu, got, opened, mapped, told, stored>>
        /\ passed' = [passed EXCEPT ![k] = passed[k] + 1]
    BY <1>1 DEF xdp_sample_prog, procVars, setupVars, readVars
  <2>2. \A c \in Cpu : Handling(c)' = Handling(c)
    BY <2>1 DEF Handling
  <2>3. passed'[k] = passed[k] + 1 /\ \A c \in Cpu : c # k => passed'[c] = passed[c]
    BY <2>1 DEF TypeOK
  <2>4. /\ CpuOK(stored[k], told[k], ring[k], Handling(k), lost[k], missed[k], passed[k])
        /\ stored[k] \in Seq(Packets) /\ ring[k] \in Seq(Record) /\ Handling(k) \in 0 .. Len(ring[k])
        /\ lost[k] \in SUBSET Packets /\ missed[k] \in Nat /\ passed[k] \in Nat
    BY CpuTyped DEF Contents, CpuInv
  <2>5. CASE ~(k \in opened /\ k \in mapped)
    <3>1. missed' = [missed EXCEPT ![k] = passed[k] + 1] /\ UNCHANGED <<ring, lost>>
      BY <1>1, <2>5 DEF xdp_sample_prog, ringVars
    <3>2. missed'[k] = passed[k] + 1 /\ \A c \in Cpu : c # k => missed'[c] = missed[c]
      BY <3>1 DEF TypeOK
    <3>3. Empty(k)
      BY <2>1, <2>5 DEF Unmapped
    <3>4. InOrder(stored[k], ring[k], Handling(k), passed[k] + 1)
      BY <2>4, PassInOrder DEF CpuOK
    <3>5. Accounted(stored[k], told[k], ring[k], Handling(k), lost[k], passed[k] + 1, passed[k] + 1)
      <4>1. Handling(k) = 0
        BY <2>4, <3>3 DEF Empty
      <4>2. passed[k] + 1 + 1 .. passed[k] + 1 = {}
        BY <2>4
      <4> QED BY <3>3, <4>1, <4>2 DEF Empty, Accounted, Written, Unread
    <3>6. CpuInv(k)'
      BY <2>1, <2>2, <2>3, <2>4, <3>1, <3>2, <3>4, <3>5 DEF CpuInv, CpuOK
    <3>7. ASSUME NEW c \in Cpu, c # k PROVE CpuInv(c)'
      <4>1. CpuInv(c)
        BY DEF Contents
      <4> QED BY <3>7, <4>1, <2>1, <2>2, <2>3, <3>1, <3>2 DEF CpuInv
    <3>8. Unmapped'
      BY <2>1, <3>1 DEF Unmapped, Empty
    <3> QED BY <3>6, <3>7, <3>8 DEF Contents
  <2>6. CASE k \in opened /\ k \in mapped
    <3>1. UNCHANGED missed
      BY <1>1, <2>6 DEF xdp_sample_prog
    <3>2. \/ /\ ring' = [ring EXCEPT ![k] = ring[k] \o Records(lost[k], passed[k])]
             /\ lost' = [lost EXCEPT ![k] = {}]
          \/ /\ lost' = [lost EXCEPT ![k] = lost[k] \cup {passed[k] + 1}]
             /\ UNCHANGED ring
      BY <1>1, <2>6 DEF xdp_sample_prog, bpf_perf_event_output, Records
    <3>3. \A c \in Cpu : c # k => ring'[c] = ring[c] /\ lost'[c] = lost[c]
      BY <3>2 DEF TypeOK
    <3>4. CpuOK(stored[k], told[k], ring'[k], Handling(k), lost'[k], missed[k], passed[k] + 1)
      <4>1. CASE /\ ring' = [ring EXCEPT ![k] = ring[k] \o Records(lost[k], passed[k])]
                 /\ lost' = [lost EXCEPT ![k] = {}]
        <5>1. ring'[k] = ring[k] \o Records(lost[k], passed[k]) /\ lost'[k] = {}
          BY <4>1 DEF TypeOK
        <5> QED BY <5>1, <2>4, OutputFits
      <4>2. CASE /\ lost' = [lost EXCEPT ![k] = lost[k] \cup {passed[k] + 1}]
                 /\ UNCHANGED ring
        <5>1. ring'[k] = ring[k] /\ lost'[k] = lost[k] \cup {passed[k] + 1}
          BY <4>2 DEF TypeOK
        <5> QED BY <5>1, <2>4, OutputLost
      <4> QED BY <3>2, <4>1, <4>2
    <3>5. CpuInv(k)'
      BY <2>1, <2>2, <2>3, <3>1, <3>4 DEF CpuInv
    <3>6. ASSUME NEW c \in Cpu, c # k PROVE CpuInv(c)'
      <4>1. CpuInv(c)
        BY DEF Contents
      <4> QED BY <3>6, <4>1, <2>1, <2>2, <2>3, <3>1, <3>3 DEF CpuInv
    <3>7. Unmapped'
      BY <2>1, <2>6, <3>3 DEF Unmapped, Empty
    <3> QED BY <3>5, <3>6, <3>7 DEF Contents
  <2> QED BY <2>5, <2>6
<1>2. CASE bpf_perf_event_print
  <2>1. /\ pc = "records" /\ got < batch /\ got' = got + 1
        /\ UNCHANGED <<pc, cpu, ring, lost, opened, mapped, passed, missed>>
        /\ IF ring[cpu][got + 1].type = "SAMPLE"
           THEN /\ stored' = [stored EXCEPT ![cpu] = Append(stored[cpu], PacketOf(ring[cpu][got + 1]))]
                /\ UNCHANGED told
           ELSE told' = [told EXCEPT ![cpu] = told[cpu] \cup ring[cpu][got + 1].packets] /\ UNCHANGED stored
    BY <1>2 DEF bpf_perf_event_print, print_bpf_output, PacketOf, ringVars, loopRest, setupVars, passVars
  <2>2. /\ cpu \in Cpu /\ got \in Nat /\ Handling(cpu) = got
        /\ Handling(cpu)' = got + 1 /\ \A c \in Cpu : c # cpu => Handling(c)' = Handling(c)
    BY <2>1 DEF Handling, TypeOK, Reading, Cpu
  <2>3. /\ CpuOK(stored[cpu], told[cpu], ring[cpu], got, lost[cpu], missed[cpu], passed[cpu])
        /\ stored[cpu] \in Seq(Packets) /\ ring[cpu] \in Seq(Record)
        /\ missed[cpu] \in Nat /\ passed[cpu] \in Nat
    BY <2>2, CpuTyped DEF Contents, CpuInv
  <2>4. got < Len(ring[cpu])
    BY <2>1, <2>2, <2>3 DEF Reading, TypeOK
  <2>5. ~Empty(cpu)
    BY <2>2, <2>4 DEF Empty
  <2>6. \A c \in Cpu : c # cpu => stored'[c] = stored[c] /\ told'[c] = told[c]
    BY <2>1 DEF TypeOK
  <2>7. CpuOK(stored'[cpu], told'[cpu], ring[cpu], got + 1, lost[cpu], missed[cpu], passed[cpu])
    <3>1. CASE ring[cpu][got + 1].type = "SAMPLE"
      <4>1. stored'[cpu] = Append(stored[cpu], PacketOf(ring[cpu][got + 1])) /\ told'[cpu] = told[cpu]
        BY <3>1, <2>1, <2>2 DEF TypeOK
      <4> QED BY <3>1, <4>1, <2>2, <2>3, <2>4, HandleSample
    <3>2. CASE ring[cpu][got + 1].type # "SAMPLE"
      <4>1. told'[cpu] = told[cpu] \cup ring[cpu][got + 1].packets /\ stored'[cpu] = stored[cpu]
        BY <3>2, <2>1, <2>2 DEF TypeOK
      <4>2. CpuOK(stored[cpu], told[cpu] \cup ring[cpu][got + 1].packets, ring[cpu], got + 1,
                  lost[cpu], missed[cpu], passed[cpu])
        BY <2>2, <2>3, <2>4, HandleLost
      <4> QED BY <4>1, <4>2
    <3> QED BY <3>1, <3>2
  <2>8. ASSUME NEW c \in Cpu PROVE CpuInv(c)'
    <3>1. CASE c = cpu
      BY <3>1, <2>1, <2>2, <2>7 DEF CpuInv
    <3>2. CASE c # cpu
      <4>1. CpuInv(c)
        BY DEF Contents
      <4> QED BY <3>2, <4>1, <2>1, <2>2, <2>6 DEF CpuInv
    <3> QED BY <3>1, <3>2
  <2>9. Unmapped'
    <3>1. pc # "exited" /\ cpu \in opened /\ cpu \in mapped
      BY <2>1, <2>2, <2>5 DEF Unmapped
    <3> QED BY <3>1, <2>1, <2>6 DEF Unmapped, Empty
  <2> QED BY <2>8, <2>9 DEF Contents
<1>3. CASE WriteTail
  <2>1. /\ pc = "records" /\ got = batch /\ pc' = "read"
        /\ ring' = [ring EXCEPT ![cpu] = SubSeq(ring[cpu], batch + 1, Len(ring[cpu]))]
        /\ UNCHANGED <<lost, told, stored, opened, mapped, passed, missed>>
    BY <1>3 DEF WriteTail, readVars, loopRest, setupVars, passVars
  <2>2. /\ cpu \in Cpu /\ Handling(cpu) = batch
        /\ \A c \in Cpu : Handling(c)' = 0 /\ (c # cpu => Handling(c) = 0)
    BY <2>1 DEF Handling, TypeOK, Reading, Cpu
  <2>3. /\ CpuOK(stored[cpu], told[cpu], ring[cpu], batch, lost[cpu], missed[cpu], passed[cpu])
        /\ stored[cpu] \in Seq(Packets) /\ ring[cpu] \in Seq(Record) /\ batch \in 0 .. Len(ring[cpu])
        /\ missed[cpu] \in Nat /\ passed[cpu] \in Nat
    BY <2>2, CpuTyped DEF Contents, CpuInv
  <2>4. /\ ring'[cpu] = SubSeq(ring[cpu], batch + 1, Len(ring[cpu]))
        /\ \A c \in Cpu : c # cpu => ring'[c] = ring[c]
    BY <2>1, <2>2 DEF TypeOK
  <2>5. CpuOK(stored[cpu], told[cpu], ring'[cpu], 0, lost[cpu], missed[cpu], passed[cpu])
    BY <2>3, <2>4, Release
  <2>6. ASSUME NEW c \in Cpu PROVE CpuInv(c)'
    <3>1. CASE c = cpu
      BY <3>1, <2>1, <2>2, <2>5 DEF CpuInv
    <3>2. CASE c # cpu
      <4>1. CpuInv(c)
        BY DEF Contents
      <4> QED BY <3>2, <4>1, <2>1, <2>2, <2>4 DEF CpuInv
    <3> QED BY <3>1, <3>2
  <2>7. Unmapped'
    <3>1. ring[cpu] = <<>> => ring'[cpu] = <<>>
      BY <2>3, <2>4
    <3> QED BY <3>1, <2>1, <2>4 DEF Unmapped, Empty
  <2> QED BY <2>6, <2>7 DEF Contents
<1>4. CASE ReadHead
  <2>1. /\ UNCHANGED <<ring, lost, told, stored, passed, missed, opened, mapped>>
        /\ pc = "read" /\ (pc' = "records" => got' = 0) /\ pc' # "exited"
    BY <1>4 DEF ReadHead, ringVars, loopRest, setupVars, passVars
  <2>2. \A c \in Cpu : Handling(c)' = Handling(c)
    BY <2>1 DEF Handling
  <2> QED BY <2>1, <2>2, QuietStep
<1>5. CASE \/ do_attach \/ InstallHandlers \/ test_bpf_perf_event \/ perf_event_mmap_header
           \/ OpenPcap \/ TestDone \/ CallPoll \/ PollReturns \/ do_detach \/ Detach
           \/ sig_handler \/ Killed \/ Others \/ UNCHANGED vars
  <2>1. /\ UNCHANGED <<ring, lost, told, stored, passed, missed>>
        /\ pc' # "exited" => pc # "exited" /\ opened \subseteq opened' /\ mapped \subseteq mapped'
    BY <1>5 DEF do_attach, InstallHandlers, test_bpf_perf_event, perf_event_mmap_header, OpenPcap,
                TestDone, CallPoll, PollReturns, do_detach, Detach, sig_handler, Handled, Killed, Others,
                setupRest, loopRest, ringVars, readVars, passVars, procVars, setupVars, vars
  <2>2. \/ pc # "records" /\ pc' # "records"
        \/ UNCHANGED <<pc, cpu, got>>
    BY <1>5 DEF do_attach, InstallHandlers, test_bpf_perf_event, perf_event_mmap_header, OpenPcap,
                TestDone, CallPoll, PollReturns, do_detach, Detach, sig_handler, Handled, Killed, Others,
                setupRest, loopRest, ringVars, readVars, passVars, procVars, setupVars, vars
  <2>3. \A c \in Cpu : Handling(c)' = Handling(c)
    BY <2>2 DEF Handling
  <2> QED BY <2>1, <2>3, QuietStep
<1> QED BY <1>1, <1>2, <1>3, <1>4, <1>5 DEF Next, Sampler

-----------------------------------------------------------------------------
LEMMA Invariance == Spec => []IInv
<1>1. Init => IInv
  BY TypesFromStart, ContentsFromStart DEF IInv
<1>2. IInv /\ [Next]_vars => IInv'
  BY TypesPreserved, ContentsPreserved DEF IInv
<1> QED BY <1>1, <1>2, PTL DEF Spec

(* The state of the sampler has the types it should have: above all, the reader never
   counts more records than a ring holds (perf_event_poller_multi and the reader). *)
THEOREM TypeCorrect == Spec => []TypeOK
<1>1. IInv => TypeOK
  BY DEF IInv
<1> QED BY <1>1, Invariance, PTL

(* Every packet of a CPU after its ring was mapped is in the file, reported as lost, or
   still waiting in the ring (bpf_perf_event_print, print_bpf_output and the release of
   the ring), however many CPUs there are and however large the rings are. *)
THEOREM NothingIsLostSilently == Spec => []NothingVanishes
<1>1. IInv => NothingVanishes
  <2> SUFFICES ASSUME IInv, NEW c \in Cpu
               PROVE  missed[c] + 1 .. passed[c] = InFile(c) \cup told[c] \cup Waiting(c) \cup lost[c]
    BY DEF NothingVanishes
  <2>1. Accounted(stored[c], told[c], ring[c], Handling(c), lost[c], missed[c], passed[c])
    BY DEF IInv, Contents, CpuInv, CpuOK
  <2> QED BY <2>1 DEF Accounted, InFile, Waiting, Written, Unread
<1> QED BY <1>1, Invariance, PTL

(* The file has a CPU's packets in the order they passed, and none twice: the reader
   neither handles a record again nor overtakes one (print_bpf_output). *)
THEOREM FileInOrder == Spec => []StoredOnceInOrder
<1>1. IInv => StoredOnceInOrder
  BY DEF IInv, Contents, CpuInv, CpuOK, InOrder, StoredOnceInOrder
<1> QED BY <1>1, Invariance, PTL

-----------------------------------------------------------------------------
(* What is attached when.  The sampler asks once, just before it detaches, and nothing
   attaches a sampler after that. *)
HookInv ==
  /\ pc = "start" => hook # "sampler" /\ ~replaced
  /\ pc \notin {"detach", "exited"} => curr_prog_id = "none"
  /\ replaced => hook = "other"
  /\ pc = "detach" /\ curr_prog_id = "sampler" => ~replaced
  /\ pc = "detach" /\ curr_prog_id # "sampler" => hook # "sampler"
  /\ pc = "exited" /\ curr_prog_id # "none" => hook # "sampler" \/ refused

(* do_detach: a sampler that ends the regular way leaves nothing of its own attached, unless
   the kernel refused, and has not removed what had replaced it when it looked. *)
THEOREM SamplerDetachesItsOwn == Spec => []DetachesItsOwn
<1>1. Init => HookInv
  BY DEF Init, HookInv
<1>2. HookInv /\ [Next]_vars => HookInv'
  <2> SUFFICES ASSUME HookInv, [Next]_vars PROVE HookInv'
    OBVIOUS
  <2>1. CASE do_attach
    BY <2>1 DEF do_attach, HookInv
  <2>2. CASE do_detach
    BY <2>2 DEF do_detach, HookInv
  <2>3. CASE Detach
    BY <2>3 DEF Detach, HookInv
  <2>4. CASE Others
    BY <2>4 DEF Others, HookInv, procVars
  <2>5. CASE \/ InstallHandlers \/ test_bpf_perf_event \/ perf_event_mmap_header \/ OpenPcap \/ Killed
             \/ TestDone \/ CallPoll \/ PollReturns \/ ReadHead \/ bpf_perf_event_print \/ WriteTail
             \/ sig_handler \/ (\E c \in Cpu : xdp_sample_prog(c)) \/ UNCHANGED vars
    <3>1. /\ UNCHANGED <<hook, curr_prog_id, replaced, refused>>
          /\ pc' \notin {"start", "detach", "exited"} => pc \notin {"detach", "exited"}
          /\ pc' \in {"start", "detach"} => pc' = pc
          /\ pc' = "exited" => pc \notin {"detach"}
      BY <2>5 DEF InstallHandlers, test_bpf_perf_event, perf_event_mmap_header, OpenPcap, Killed, TestDone,
                  CallPoll, PollReturns, ReadHead, bpf_perf_event_print, WriteTail, sig_handler, Handled,
                  xdp_sample_prog, hookVars, procVars, loopRest, vars
    <3> QED BY <3>1 DEF HookInv
  <2> QED BY <2>1, <2>2, <2>3, <2>4, <2>5 DEF Next, Sampler
<1>3. HookInv => DetachesItsOwn
  BY DEF HookInv, DetachesItsOwn
<1> QED BY <1>1, <1>2, <1>3, PTL DEF Spec
=============================================================================
