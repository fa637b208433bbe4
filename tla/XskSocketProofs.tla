------------------------- MODULE XskSocketProofs -------------------------
(***************************************************************************)
(* What holds of XskSocket for every number of frames and every size of    *)
(* the rings, the batches and the driver's buffers.                        *)
(***************************************************************************)
EXTENDS XskSocket, SequenceTheorems, FiniteSets, FiniteSetTheorems, TLAPS

(* Moved(p, k, q) says what a step that moves one frame does to every slot:
   the k-th one of p leaves it and becomes the last one of q. *)
Moved(p, k, q) ==
  /\ p \in Place /\ q \in Place /\ p # q
  /\ k \in 1 .. Len(held[p])
  /\ Len(held'[p]) = Len(held[p]) - 1
  /\ \A i \in 1 .. Len(held[p]) - 1 :
       held'[p][i] = held[p][IF i < k THEN i ELSE i + 1]
  /\ Len(held'[q]) = Len(held[q]) + 1
  /\ \A i \in 1 .. Len(held[q]) : held'[q][i] = held[q][i]
  /\ held'[q][Len(held[q]) + 1] = held[p][k]
  /\ \A r \in Place \ {p, q} : held'[r] = held[r]

Address == Frame \cup {INVALID_UMEM_FRAME}

HeldType ==
  /\ held \in [Place -> Seq(Address)]
  /\ \A p \in Place \ {"fill"} : held[p] \in Seq(Frame)

LEMMA TailFacts ==
  ASSUME NEW S, NEW s \in Seq(S), s # <<>>
  PROVE  /\ Len(s) \in Nat \ {0}
         /\ Head(s) = s[1] /\ s[1] \in S
         /\ Tail(s) \in Seq(S)
         /\ Len(Tail(s)) = Len(s) - 1
         /\ \A i \in 1 .. Len(s) - 1 : Tail(s)[i] = s[i + 1]
  OBVIOUS

LEMMA AppendFacts ==
  ASSUME NEW S, NEW s \in Seq(S), NEW e \in S
  PROVE  /\ Append(s, e) \in Seq(S)
         /\ Len(Append(s, e)) = Len(s) + 1
         /\ \A i \in 1 .. Len(s) : Append(s, e)[i] = s[i]
         /\ Append(s, e)[Len(s) + 1] = e
  OBVIOUS

LEMMA FrontFacts ==
  ASSUME NEW S, NEW s \in Seq(S), Len(s) # 0
  PROVE  /\ SubSeq(s, 1, Len(s) - 1) \in Seq(S)
         /\ Len(SubSeq(s, 1, Len(s) - 1)) = Len(s) - 1
         /\ \A i \in 1 .. Len(s) - 1 : SubSeq(s, 1, Len(s) - 1)[i] = s[i]
<1>1. Len(s) \in Nat /\ \A i \in 1 .. Len(s) : s[i] \in S
  OBVIOUS
<1> DEFINE n == Len(s) - 1
<1>2. n \in Nat /\ \A i \in 1 .. n : s[i] \in S
  BY <1>1
<1> HIDE DEF n
<1>3. /\ SubSeq(s, 1, n) \in Seq(S)
      /\ Len(SubSeq(s, 1, n)) = IF 1 <= n THEN n - 1 + 1 ELSE 0
      /\ \A i \in 1 .. n - 1 + 1 : SubSeq(s, 1, n)[i] = s[1 + i - 1]
  <2>1. 1 \in Int /\ n \in Int
    BY <1>2
  <2> QED BY <1>2, <2>1, SubSeqProperties
<1>4. \A i \in 1 .. n : i \in 1 .. n - 1 + 1 /\ 1 + i - 1 = i
  BY <1>2
<1>5. /\ Len(SubSeq(s, 1, n)) = n
      /\ \A i \in 1 .. n : SubSeq(s, 1, n)[i] = s[i]
  BY <1>2, <1>3, <1>4
<1> QED BY <1>3, <1>5 DEF n

(* Pass moves the first frame of p, and fills no place but FILL with
   anything that is not a frame. *)
LEMMA PassMoves ==
  ASSUME HeldType, NEW p \in Place, NEW q \in Place \ {"fill"}, p # q, Pass(p, q),
         Head(held[p]) \in Frame
  PROVE  HeldType' /\ Moved(p, 1, q)
<1> DEFINE s == held[p]
           t == held[q]
<1>1. /\ s \in Seq(Address) /\ s # <<>>
      /\ t \in Seq(Address) /\ t \in Seq(Frame)
  BY DEF HeldType, Pass
<1>2. held' = [held EXCEPT ![p] = Tail(s), ![q] = Append(t, Head(s))]
  BY DEF Pass
<1>3. /\ held'[p] = Tail(s) /\ held'[q] = Append(t, Head(s))
      /\ \A r \in Place \ {p, q} : held'[r] = held[r]
  BY <1>2 DEF HeldType
<1>4. /\ Len(s) \in Nat \ {0} /\ Head(s) = s[1]
      /\ Tail(s) \in Seq(Address)
      /\ Len(Tail(s)) = Len(s) - 1
      /\ \A i \in 1 .. Len(s) - 1 : Tail(s)[i] = s[i + 1]
  BY <1>1, TailFacts
<1>5. p # "fill" => Tail(s) \in Seq(Frame)
  <2> SUFFICES ASSUME p # "fill" PROVE Tail(s) \in Seq(Frame)
    OBVIOUS
  <2>1. s \in Seq(Frame)
    BY DEF HeldType
  <2> QED BY <2>1, <1>1, TailFacts
<1>6. /\ Append(t, Head(s)) \in Seq(Frame)
      /\ Len(Append(t, Head(s))) = Len(t) + 1
      /\ \A i \in 1 .. Len(t) : Append(t, Head(s))[i] = t[i]
      /\ Append(t, Head(s))[Len(t) + 1] = Head(s)
  BY <1>1, AppendFacts
<1>7. Append(t, Head(s)) \in Seq(Address)
  BY <1>6 DEF Address
<1>8. HeldType'
  <2>1. held' \in [Place -> Seq(Address)]
    BY <1>2, <1>4, <1>7 DEF HeldType
  <2>2. \A r \in Place \ {"fill"} : held'[r] \in Seq(Frame)
    BY <1>3, <1>5, <1>6 DEF HeldType
  <2> QED BY <2>1, <2>2 DEF HeldType
<1>9. Moved(p, 1, q)
  BY <1>3, <1>4, <1>6 DEF Moved
<1> QED BY <1>8, <1>9

(* Stocking a FILL slot moves the top of the stack, if it has one, and puts
   an invalid address there if not. *)
LEMMA AllocMoves ==
  ASSUME HeldType, xsk_alloc_umem_frame, held["free"] # <<>>
  PROVE  HeldType' /\ Moved("free", Len(held["free"]), "fill")
<1> DEFINE s == held["free"]
           t == held["fill"]
           n == Len(s)
<1>1. s \in Seq(Frame) /\ t \in Seq(Address) /\ s \in Seq(Address)
  BY DEF HeldType, Place
<1>2. n \in Nat \ {0} /\ s[n] \in Frame
  BY <1>1
<1>3. held' = [held EXCEPT !["free"] = SubSeq(s, 1, n - 1), !["fill"] = Append(t, s[n])]
  BY <1>2 DEF xsk_alloc_umem_frame, HeldType, Place
<1>4. /\ held'["free"] = SubSeq(s, 1, n - 1) /\ held'["fill"] = Append(t, s[n])
      /\ \A r \in Place \ {"free", "fill"} : held'[r] = held[r]
  BY <1>3 DEF HeldType, Place
<1>5. /\ SubSeq(s, 1, n - 1) \in Seq(Frame)
      /\ Len(SubSeq(s, 1, n - 1)) = n - 1
      /\ \A i \in 1 .. n - 1 : SubSeq(s, 1, n - 1)[i] = s[i]
  BY <1>1, <1>2, FrontFacts
<1>6. SubSeq(s, 1, n - 1) \in Seq(Address)
  BY <1>5 DEF Address
<1>7. /\ Append(t, s[n]) \in Seq(Address)
      /\ Len(Append(t, s[n])) = Len(t) + 1
      /\ \A i \in 1 .. Len(t) : Append(t, s[n])[i] = t[i]
      /\ Append(t, s[n])[Len(t) + 1] = s[n]
  BY <1>1, <1>2, AppendFacts DEF Address
<1>8. HeldType'
  <2>1. held' \in [Place -> Seq(Address)]
    BY <1>3, <1>6, <1>7 DEF HeldType
  <2>2. \A r \in Place \ {"fill"} : held'[r] \in Seq(Frame)
    BY <1>4, <1>5 DEF HeldType
  <2> QED BY <2>1, <2>2 DEF HeldType
<1>9. Moved("free", n, "fill")
  BY <1>2, <1>4, <1>5, <1>7 DEF Moved, Place
<1> QED BY <1>8, <1>9

LEMMA OneSlotPerFrame ==
  ASSUME NoFrameShared,
         NEW a \in Place, NEW x \in 1 .. Len(held[a]),
         NEW b \in Place, NEW y \in 1 .. Len(held[b]),
         held[a][x] = held[b][y], held[a][x] \in Frame
  PROVE  a = b /\ x = y
  BY DEF NoFrameShared

(* Moving one frame neither duplicates a frame nor loses one. *)
LEMMA MovedKeepsFrames ==
  ASSUME HeldType, HeldType', NEW p, NEW k, NEW q, Moved(p, k, q),
         NoFrameShared, NoFrameLost
  PROVE  NoFrameShared' /\ NoFrameLost'
<1> DEFINE m == Len(held[p])
           n == Len(held[q])
           \* The place and the slot a slot's content was in before the step.
           OldPlace(r, i) == IF r = q /\ i = n + 1 THEN p ELSE r
           OldSlot(r, i)  == IF r = q /\ i = n + 1 THEN k
                             ELSE IF r = p /\ i >= k THEN i + 1 ELSE i
<1>1. /\ p \in Place /\ q \in Place /\ p # q /\ k \in 1 .. m
      /\ m \in Nat /\ n \in Nat
  BY DEF Moved, HeldType
<1>2. ASSUME NEW r \in Place, NEW i \in 1 .. Len(held'[r])
      PROVE  /\ OldPlace(r, i) \in Place
             /\ OldSlot(r, i) \in 1 .. Len(held[OldPlace(r, i)])
             /\ held'[r][i] = held[OldPlace(r, i)][OldSlot(r, i)]
  <2>1. CASE r = p
    <3>1. i \in 1 .. m - 1
      BY <2>1, <1>2, <1>1 DEF Moved
    <3>2. held'[p][i] = held[p][IF i < k THEN i ELSE i + 1]
      BY <3>1 DEF Moved
    <3> QED BY <2>1, <3>1, <3>2, <1>1
  <2>2. CASE r = q
    <3>1. i \in 1 .. n + 1
      BY <2>2, <1>2, <1>1 DEF Moved
    <3>2. CASE i = n + 1
      BY <2>2, <3>2, <1>1 DEF Moved
    <3>3. CASE i \in 1 .. n
      <4>1. held'[q][i] = held[q][i] /\ i # n + 1
        BY <3>3, <1>1 DEF Moved
      <4> QED BY <4>1, <2>2, <3>3, <1>1
    <3> QED BY <3>1, <3>2, <3>3, <1>1
  <2>3. CASE r # p /\ r # q
    <3>1. held'[r] = held[r]
      BY <2>3 DEF Moved
    <3> QED BY <2>3, <3>1, <1>2
  <2> QED BY <2>1, <2>2, <2>3
<1>3. NoFrameShared'
  <2> SUFFICES ASSUME NEW r \in Place, NEW u \in Place,
                      NEW i \in 1 .. Len(held'[r]), NEW j \in 1 .. Len(held'[u]),
                      held'[r][i] = held'[u][j], held'[r][i] \in Frame
               PROVE  r = u /\ i = j
    BY DEF NoFrameShared
  <2>1. OldPlace(r, i) = OldPlace(u, j) /\ OldSlot(r, i) = OldSlot(u, j)
    <3> DEFINE a == OldPlace(r, i)
               x == OldSlot(r, i)
               b == OldPlace(u, j)
               y == OldSlot(u, j)
    <3>1. a \in Place /\ x \in 1 .. Len(held[a]) /\ held'[r][i] = held[a][x]
      BY <1>2
    <3>2. b \in Place /\ y \in 1 .. Len(held[b]) /\ held'[u][j] = held[b][y]
      BY <1>2
    <3> HIDE DEF a, x, b, y
    <3>3. held[a][x] = held[b][y] /\ held[a][x] \in Frame
      BY <3>1, <3>2
    <3>4. a = b /\ x = y
      BY <3>1, <3>2, <3>3, OneSlotPerFrame
    <3> QED BY <3>4 DEF a, x, b, y
  <2>2. i \in Int /\ j \in Int
    BY DEF HeldType
  <2>3. (r = q => i \in 1 .. n + 1) /\ (u = q => j \in 1 .. n + 1)
    BY <1>1 DEF Moved
  <2> QED BY <2>1, <2>2, <2>3, <1>1
<1>4. NoFrameLost'
  <2> SUFFICES ASSUME NEW f \in Frame
               PROVE  \E r \in Place : \E i \in 1 .. Len(held'[r]) : held'[r][i] = f
    BY DEF NoFrameLost
  <2>1. PICK r \in Place : \E i \in 1 .. Len(held[r]) : held[r][i] = f
    BY DEF NoFrameLost
  <2>2. PICK i \in 1 .. Len(held[r]) : held[r][i] = f
    BY <2>1
  <2>3. CASE r = p /\ i = k
    <3>1. n + 1 \in 1 .. Len(held'[q]) /\ held'[q][n + 1] = f
      BY <2>2, <2>3, <1>1 DEF Moved
    <3> QED BY <3>1, <1>1
  <2>4. CASE r = p /\ i < k
    <3>1. i \in 1 .. Len(held'[p]) /\ held'[p][i] = f
      BY SMTT(60), <2>2, <2>4, <1>1 DEF Moved
    <3> QED BY <3>1, <1>1
  <2>5. CASE r = p /\ i > k
    <3>1. i - 1 \in 1 .. m - 1 /\ ~(i - 1 < k) /\ (i - 1) + 1 = i
      BY <2>2, <2>5, <1>1
    <3>2. held'[p][i - 1] = held[p][i] /\ i - 1 \in 1 .. Len(held'[p])
      BY <3>1, <1>1 DEF Moved
    <3> QED BY <3>2, <2>2, <2>5, <1>1
  <2>6. CASE r = q
    <3>1. i \in 1 .. Len(held'[q]) /\ held'[q][i] = f
      BY <2>2, <2>6, <1>1 DEF Moved
    <3> QED BY <3>1, <1>1
  <2>7. CASE r # p /\ r # q
    <3>1. held'[r] = held[r]
      BY <2>7 DEF Moved
    <3> QED BY <3>1, <2>2
  <2>8. i \in Int /\ k \in Int
    BY <1>1
  <2> QED BY <2>3, <2>4, <2>5, <2>6, <2>7, <2>8
<1> QED BY <1>3, <1>4

-----------------------------------------------------------------------------
(* The inductive invariant.  The counters say what is left of the batch, of
   the stuffing loop and of the completions only where the thread is at work
   on them; the ring bounds follow from that and from the cached counts being
   no larger than the true ones. *)
ThreadState ==
  /\ pc # "alloc" => to_stock = 0 /\ unsubmitted = 0
  /\ pc # "process" => handled = 0
  /\ pc \notin {"stock", "alloc", "process"} => rcvd = 0
  /\ pc # "reap" => completed = 0 /\ reaped = 0
  /\ pc # "retry"

Inv == TypeOK /\ NoFrameShared /\ NoFrameLost /\ NoRingOverrun /\ NoRingUnderrun
       /\ ThreadState

LEMMA InitInv == Init => Inv
<1> SUFFICES ASSUME Init PROVE Inv
  OBVIOUS
<1>0. /\ NUM_FRAMES \in Nat \ {0} /\ RING_SIZE \in Nat \ {0} /\ RX_BATCH_SIZE \in Nat
      /\ TX_BATCH \in Nat /\ TX_MOD \in Nat \ {0}
  BY SizesAssumption
<1> DEFINE all == [i \in 1 .. NUM_FRAMES |-> i - 1]
<1>1. /\ all \in Seq(Frame) /\ Len(all) = NUM_FRAMES
      /\ \A i \in 1 .. NUM_FRAMES : all[i] = i - 1
  BY <1>0 DEF Frame
<1>2. /\ held["free"] = all
      /\ \A p \in Place \ {"free"} : held[p] = <<>>
  BY DEF Init, Place
<1> HIDE DEF all
<1>c. /\ unsubmitted = 0 /\ to_stock = RING_SIZE /\ fq_free = 0 /\ rx_seen = 0
      /\ rcvd = 0 /\ handled = 0 /\ completed = 0 /\ reaped = 0 /\ outstanding_tx = 0
      /\ tx_budget = 0 /\ global_exit = FALSE /\ pc = "alloc"
  BY DEF Init
<1>3. TypeOK
  <2>0. <<>> \in Seq(Frame) /\ Seq(Frame) \subseteq Seq(Address)
    BY SeqMonotonic, EmptySeq DEF Address
  <2>1. \A p \in Place : held[p] \in Seq(Frame) /\ held[p] \in Seq(Address)
    BY <1>1, <1>2, <2>0
  <2>2. held \in [Place -> Seq(Frame \cup {INVALID_UMEM_FRAME})]
    BY <2>1 DEF Init, Address
  <2>3. /\ unsubmitted \in 0 .. RING_SIZE /\ to_stock \in 0 .. RING_SIZE
        /\ fq_free \in 0 .. RING_SIZE /\ rx_seen \in 0 .. RING_SIZE
        /\ rcvd \in 0 .. RX_BATCH_SIZE /\ handled \in 0 .. rcvd
        /\ completed \in 0 .. RING_SIZE /\ reaped \in 0 .. completed
        /\ outstanding_tx \in 0 .. TX_MOD - 1 /\ tx_budget \in 0 .. TX_BATCH
        /\ pc \in Location
    BY <1>0, <1>c DEF Location
  <2>4. global_exit \in BOOLEAN
    BY <1>c, Zenon
  <2> QED BY <2>1, <2>2, <2>3, <2>4, Zenon DEF TypeOK
<1>4. \A p \in Place : \A i \in 1 .. Len(held[p]) :
        p = "free" /\ i \in 1 .. NUM_FRAMES /\ held[p][i] = i - 1
  BY <1>1, <1>2, <1>0
<1>5. NoFrameShared
  BY <1>4 DEF NoFrameShared
<1>6. NoFrameLost
  <2> SUFFICES ASSUME NEW f \in Frame
               PROVE  \E p \in Place : \E i \in 1 .. Len(held[p]) : held[p][i] = f
    BY DEF NoFrameLost
  <2>1. "free" \in Place /\ f + 1 \in 1 .. Len(held["free"]) /\ held["free"][f + 1] = f
    BY <1>1, <1>2 DEF Frame, Place
  <2> QED BY <2>1
<1>7. FillCount = 0 /\ RxCount = 0 /\ TxCount = 0 /\ FlightCount = 0 /\ CqCount = 0
  BY <1>2 DEF Place, FillCount, RxCount, TxCount, FlightCount, CqCount
<1>8. NoRingOverrun /\ NoRingUnderrun /\ ThreadState
  <2>1. NoRingOverrun
    BY <1>0, <1>c, <1>7 DEF NoRingOverrun, RxSlotsUsed, CqSlotsUsed
  <2>2. NoRingUnderrun /\ ThreadState
    BY <1>0, <1>c, <1>7 DEF NoRingUnderrun, ThreadState
  <2> QED BY <2>1, <2>2
<1> QED BY <1>3, <1>5, <1>6, <1>8 DEF Inv

(* The two halves of the invariant: where the frames are, and the counters. *)
Frames == HeldType /\ NoFrameShared /\ NoFrameLost

CounterType ==
  /\ unsubmitted \in 0 .. RING_SIZE
  /\ to_stock \in 0 .. RING_SIZE
  /\ fq_free \in 0 .. RING_SIZE
  /\ rx_seen \in 0 .. RING_SIZE
  /\ rcvd \in 0 .. RX_BATCH_SIZE
  /\ handled \in 0 .. rcvd
  /\ completed \in 0 .. RING_SIZE
  /\ reaped \in 0 .. completed
  /\ outstanding_tx \in 0 .. TX_MOD - 1
  /\ tx_budget \in 0 .. TX_BATCH
  /\ pc \in Location

Counters == CounterType /\ NoRingOverrun /\ NoRingUnderrun /\ ThreadState

LEMMA InvHalves == Inv <=> Frames /\ Counters /\ global_exit \in BOOLEAN
<1>1. TypeOK <=> HeldType /\ CounterType /\ global_exit \in BOOLEAN
  BY Zenon DEF TypeOK, HeldType, CounterType, Address
<1> QED BY <1>1, Zenon DEF Inv, Frames, Counters

LEMMA InvHalvesNext == Inv' <=> Frames' /\ Counters' /\ (global_exit \in BOOLEAN)'
<1>1. TypeOK' <=> HeldType' /\ CounterType' /\ (global_exit \in BOOLEAN)'
  BY Zenon DEF TypeOK, HeldType, CounterType, Address
<1> QED BY <1>1, Zenon DEF Inv, Frames, Counters

LEMMA ConstantSizes ==
  /\ NUM_FRAMES \in Nat \ {0} /\ RING_SIZE \in Nat \ {0} /\ RX_BATCH_SIZE \in Nat \ {0}
  /\ HwDepth \in Nat /\ TX_BATCH \in Nat \ {0} /\ TX_MOD \in Nat \ {0}
  /\ RING_SIZE <= NUM_FRAMES
BY SizesAssumption

LEMMA Lengths == ASSUME Frames PROVE \A p \in Place : Len(held[p]) \in Nat
BY DEF Frames, HeldType

(* A step that leaves every frame where it is. *)
LEMMA HeldUnchanged == ASSUME Frames, held' = held PROVE Frames'
BY DEF Frames, HeldType, NoFrameShared, NoFrameLost, Address

(* A step that passes one frame on, and what it does to the lengths. *)
LEMMA PassStep ==
  ASSUME Frames, NEW p \in Place, NEW q \in Place \ {"fill"}, p # q, Pass(p, q),
         Head(held[p]) \in Frame
  PROVE  /\ Frames'
         /\ Len(held[p]) >= 1
         /\ Len(held'[p]) = Len(held[p]) - 1
         /\ Len(held'[q]) = Len(held[q]) + 1
         /\ \A r \in Place \ {p, q} : Len(held'[r]) = Len(held[r])
<1>1. HeldType' /\ Moved(p, 1, q)
  BY PassMoves DEF Frames
<1>2. NoFrameShared' /\ NoFrameLost'
  BY <1>1, MovedKeepsFrames DEF Frames
<1>3. Len(held[p]) \in Nat
  BY Lengths
<1>4. 1 \in 1 .. Len(held[p])
  BY <1>1 DEF Moved
<1>5. Len(held[p]) >= 1
  BY <1>3, <1>4
<1> QED BY <1>1, <1>2, <1>5 DEF Moved, Frames

(* Outside FILL the oldest of some frames is a frame. *)
LEMMA HeadIsFrame ==
  ASSUME Frames, NEW p \in Place \ {"fill"}, held[p] # <<>>
  PROVE  Head(held[p]) \in Frame
<1>1. held[p] \in Seq(Frame)
  BY DEF Frames, HeldType
<1> QED BY <1>1, TailFacts

(* Stocking one FILL slot. *)
LEMMA AllocStep ==
  ASSUME Frames, xsk_alloc_umem_frame
  PROVE  /\ Frames'
         /\ Len(held'["fill"]) = Len(held["fill"]) + 1
         /\ Len(held'["free"]) = IF held["free"] = <<>> THEN Len(held["free"])
                                                       ELSE Len(held["free"]) - 1
         /\ \A r \in Place \ {"free", "fill"} : Len(held'[r]) = Len(held[r])
<1>1. CASE held["free"] # <<>>
  <2>1. HeldType' /\ Moved("free", Len(held["free"]), "fill")
    BY <1>1, AllocMoves DEF Frames
  <2>2. NoFrameShared' /\ NoFrameLost'
    BY <2>1, MovedKeepsFrames DEF Frames
  <2> QED BY <1>1, <2>1, <2>2 DEF Moved, Frames
<1>2. CASE held["free"] = <<>>
  <2> DEFINE t == held["fill"]
  <2>1. held["free"] \in Seq(Frame) /\ t \in Seq(Address) /\ Len(t) \in Nat
    BY DEF Frames, HeldType, Place
  <2>2. held' = [held EXCEPT !["fill"] = Append(t, INVALID_UMEM_FRAME)]
    BY <1>2 DEF xsk_alloc_umem_frame, Frames, HeldType
  <2>3. /\ Append(t, INVALID_UMEM_FRAME) \in Seq(Address)
        /\ Len(Append(t, INVALID_UMEM_FRAME)) = Len(t) + 1
        /\ \A i \in 1 .. Len(t) : Append(t, INVALID_UMEM_FRAME)[i] = t[i]
        /\ Append(t, INVALID_UMEM_FRAME)[Len(t) + 1] = INVALID_UMEM_FRAME
    BY <2>1, AppendFacts DEF Address
  <2>4. /\ held'["fill"] = Append(t, INVALID_UMEM_FRAME)
        /\ \A r \in Place \ {"fill"} : held'[r] = held[r]
    BY <2>2 DEF Frames, HeldType, Place
  <2>5. HeldType'
    BY <2>2, <2>3, <2>4 DEF Frames, HeldType
  <2>6. ASSUME NEW r \in Place, NEW i \in 1 .. Len(held'[r]), held'[r][i] \in Frame
        PROVE  i \in 1 .. Len(held[r]) /\ held'[r][i] = held[r][i]
    <3>1. CASE r = "fill"
      <4>1. i \in 1 .. Len(t) + 1 /\ INVALID_UMEM_FRAME \notin Frame
        BY <2>3, <2>4, <2>6, <3>1, ConstantSizes DEF INVALID_UMEM_FRAME, Frame
      <4> QED BY <4>1, <2>1, <2>3, <2>4, <2>6, <3>1
    <3>2. CASE r # "fill"
      BY <2>4, <2>6, <3>2
    <3> QED BY <3>1, <3>2
  <2>7. NoFrameShared'
    <3> SUFFICES ASSUME NEW r \in Place, NEW u \in Place,
                        NEW i \in 1 .. Len(held'[r]), NEW j \in 1 .. Len(held'[u]),
                        held'[r][i] = held'[u][j], held'[r][i] \in Frame
                 PROVE  r = u /\ i = j
      BY DEF NoFrameShared
    <3>1. i \in 1 .. Len(held[r]) /\ held'[r][i] = held[r][i]
      BY <2>6
    <3>2. j \in 1 .. Len(held[u]) /\ held'[u][j] = held[u][j]
      BY <2>6
    <3> QED BY <3>1, <3>2, OneSlotPerFrame DEF Frames
  <2>8. NoFrameLost'
    <3> SUFFICES ASSUME NEW f \in Frame
                 PROVE  \E r \in Place : \E i \in 1 .. Len(held'[r]) : held'[r][i] = f
      BY DEF NoFrameLost
    <3>1. PICK r \in Place : \E i \in 1 .. Len(held[r]) : held[r][i] = f
      BY DEF NoFrameLost, Frames
    <3>2. PICK i \in 1 .. Len(held[r]) : held[r][i] = f
      BY <3>1
    <3>3. i \in 1 .. Len(held'[r]) /\ held'[r][i] = f
      BY SMTT(60), <3>2, <2>1, <2>3, <2>4
    <3> QED BY <3>3
  <2>9. /\ Len(held'["fill"]) = Len(t) + 1 /\ held'["free"] = held["free"]
        /\ \A r \in Place \ {"free", "fill"} : Len(held'[r]) = Len(held[r])
    BY <2>3, <2>4 DEF Place
  <2>10. Frames'
    BY <2>5, <2>7, <2>8 DEF Frames
  <2> QED BY <1>2, <2>9, <2>10
<1> QED BY <1>1, <1>2

(* Facts about the counters that every action below needs. *)
LEMMA CounterFacts ==
  ASSUME Frames, Counters
  PROVE  /\ FreeCount \in Nat /\ FillCount \in Nat /\ HwCount \in Nat /\ RxCount \in Nat
         /\ TxCount \in Nat /\ FlightCount \in Nat /\ CqCount \in Nat
         /\ held["rx"] = <<>> <=> RxCount = 0
         /\ held["cq"] = <<>> <=> CqCount = 0
<1>1. \A p \in Place : Len(held[p]) \in Nat /\ held[p] \in Seq(Address)
  BY Lengths DEF Frames, HeldType
<1> QED BY <1>1 DEF Place, FreeCount, FillCount, HwCount, RxCount, TxCount, FlightCount,
                  CqCount

SkipFill == held' = [held EXCEPT !["fill"] = Tail(@)]

(* An invalid address taken off FILL is no frame lost. *)
LEMMA SkipStep ==
  ASSUME Frames, held["fill"] # <<>>, Head(held["fill"]) \notin Frame, SkipFill
  PROVE  /\ Frames'
         /\ Len(held'["fill"]) = Len(held["fill"]) - 1
         /\ \A r \in Place \ {"fill"} : held'[r] = held[r]
<1> DEFINE t == held["fill"]
<1>1. /\ t \in Seq(Address) /\ t # <<>>
  BY DEF Frames, HeldType, Place
<1>2. /\ Len(t) \in Nat \ {0} /\ Head(t) = t[1]
      /\ Tail(t) \in Seq(Address) /\ Len(Tail(t)) = Len(t) - 1
      /\ \A i \in 1 .. Len(t) - 1 : Tail(t)[i] = t[i + 1]
  BY <1>1, TailFacts
<1>3. held'["fill"] = Tail(t) /\ \A r \in Place \ {"fill"} : held'[r] = held[r]
  BY DEF SkipFill, Frames, HeldType, Place
<1>4. HeldType'
  BY <1>2, <1>3 DEF SkipFill, Frames, HeldType
<1> DEFINE OldSlot(r, i) == IF r = "fill" THEN i + 1 ELSE i
<1>5. ASSUME NEW r \in Place, NEW i \in 1 .. Len(held'[r])
      PROVE  OldSlot(r, i) \in 1 .. Len(held[r]) /\ held'[r][i] = held[r][OldSlot(r, i)]
  <2>1. CASE r = "fill"
    <3>1. i \in 1 .. Len(t) - 1
      BY <2>1, <1>2, <1>3, <1>5
    <3>2. i + 1 \in 1 .. Len(t) /\ Tail(t)[i] = t[i + 1]
      BY <3>1, <1>2
    <3>3. held'[r] = Tail(t)
      BY <2>1, <1>3
    <3> QED BY <2>1, <3>2, <3>3
  <2>2. CASE r # "fill"
    BY <2>2, <1>3
  <2> QED BY <2>1, <2>2
<1>6. NoFrameShared'
  <2> SUFFICES ASSUME NEW r \in Place, NEW u \in Place,
                      NEW i \in 1 .. Len(held'[r]), NEW j \in 1 .. Len(held'[u]),
                      held'[r][i] = held'[u][j], held'[r][i] \in Frame
               PROVE  r = u /\ i = j
    BY DEF NoFrameShared
  <2> DEFINE x == OldSlot(r, i)
             y == OldSlot(u, j)
  <2>1. x \in 1 .. Len(held[r]) /\ held'[r][i] = held[r][x]
    BY <1>5
  <2>2. y \in 1 .. Len(held[u]) /\ held'[u][j] = held[u][y]
    BY <1>5
  <2> HIDE DEF x, y
  <2>3. r = u /\ x = y
    BY <2>1, <2>2, OneSlotPerFrame DEF Frames
  <2>4. i \in Int /\ j \in Int
    BY <1>4 DEF HeldType
  <2> QED BY <2>3, <2>4 DEF x, y
<1>7. NoFrameLost'
  <2> SUFFICES ASSUME NEW f \in Frame
               PROVE  \E r \in Place : \E i \in 1 .. Len(held'[r]) : held'[r][i] = f
    BY DEF NoFrameLost
  <2>1. PICK r \in Place : \E i \in 1 .. Len(held[r]) : held[r][i] = f
    BY DEF NoFrameLost, Frames
  <2>2. PICK i \in 1 .. Len(held[r]) : held[r][i] = f
    BY <2>1
  <2>3. CASE r = "fill"
    <3>1. i # 1
      BY <2>2, <2>3, <1>2
    <3>2. i - 1 \in 1 .. Len(t) - 1 /\ (i - 1) + 1 = i
      BY <3>1, <2>2, <2>3, <1>2
    <3>3. i - 1 \in 1 .. Len(held'[r]) /\ held'[r][i - 1] = f
      BY <3>2, <2>2, <2>3, <1>2, <1>3
    <3> QED BY <3>3
  <2>4. CASE r # "fill"
    BY <2>2, <2>4, <1>3
  <2> QED BY <2>3, <2>4
<1> QED BY <1>2, <1>3, <1>4, <1>6, <1>7 DEF Frames

(* Every step of the receive thread keeps the invariant: one case per action,
   first the frames and then the counters. *)
LEMMA ThreadKeepsInv == Inv /\ Thread => Inv'
<1> SUFFICES ASSUME Inv, Thread PROVE Inv'
  OBVIOUS
<1>a. Frames /\ Counters
  BY InvHalves
<1>b. global_exit \in BOOLEAN
  BY InvHalves
<1>c. /\ FreeCount \in Nat /\ FillCount \in Nat /\ HwCount \in Nat /\ RxCount \in Nat
      /\ TxCount \in Nat /\ FlightCount \in Nat /\ CqCount \in Nat
      /\ held["rx"] = <<>> <=> RxCount = 0
      /\ held["cq"] = <<>> <=> CqCount = 0
  BY <1>a, CounterFacts
<1>d. /\ RING_SIZE \in Nat \ {0} /\ RX_BATCH_SIZE \in Nat \ {0}
      /\ TX_BATCH \in Nat \ {0} /\ TX_MOD \in Nat \ {0}
  BY ConstantSizes
<1> SUFFICES Frames' /\ Counters' /\ (global_exit \in BOOLEAN)'
  BY InvHalvesNext
<1> USE <1>c, <1>d DEF fqVars, rxVars, txVars, reapVars
<1>1. CASE StockFrame
  <2>1. xsk_alloc_umem_frame
    BY <1>1 DEF StockFrame
  <2>2. /\ Frames'
        /\ FillCount' = FillCount + 1
        /\ HwCount' = HwCount
        /\ RxCount' = RxCount
        /\ TxCount' = TxCount
        /\ FlightCount' = FlightCount
        /\ CqCount' = CqCount
    BY <1>a, <2>1, AllocStep DEF Place, FreeCount, FillCount, HwCount, RxCount,
        TxCount, FlightCount, CqCount
  <2>3. Counters'
    <3>1. CounterType'
      BY <1>a, <1>1, <2>2 DEF StockFrame, Counters, CounterType, NoRingOverrun,
         NoRingUnderrun, ThreadState,
         RxSlotsUsed, CqSlotsUsed, Location
    <3>2. NoRingOverrun'
      BY <1>a, <1>1, <2>2 DEF StockFrame, Counters, CounterType, NoRingOverrun,
         ThreadState,
         RxSlotsUsed, CqSlotsUsed
    <3>3. NoRingUnderrun'
      BY <1>a, <1>1, <2>2 DEF StockFrame, Counters, CounterType, NoRingUnderrun,
         ThreadState
    <3>4. ThreadState'
      BY <1>a, <1>1, <2>2 DEF StockFrame, Counters, CounterType, ThreadState
    <3> QED BY <3>1, <3>2, <3>3, <3>4 DEF Counters
  <2> QED BY <1>b, <1>1, <2>2, <2>3, Zenon DEF StockFrame
<1>2. CASE SubmitFill
  <2>1. Frames' /\ held' = held
    BY <1>a, <1>2, HeldUnchanged DEF SubmitFill
  <2>c. /\ FreeCount' = FreeCount /\ FillCount' = FillCount /\ HwCount' = HwCount
        /\ RxCount' = RxCount /\ TxCount' = TxCount /\ FlightCount' = FlightCount
        /\ CqCount' = CqCount
    BY <2>1 DEF FreeCount, FillCount, HwCount, RxCount,
        TxCount, FlightCount, CqCount
  <2>2. Counters'
    <3>1. CounterType'
      BY <1>a, <1>2, <2>1, <2>c DEF SubmitFill, Counters, CounterType, NoRingOverrun,
         NoRingUnderrun, ThreadState,
         RxSlotsUsed, CqSlotsUsed, Location
    <3>2. NoRingOverrun'
      BY <1>a, <1>2, <2>1, <2>c DEF SubmitFill, Counters, CounterType, NoRingOverrun,
         ThreadState,
         RxSlotsUsed, CqSlotsUsed
    <3>3. NoRingUnderrun'
      BY <1>a, <1>2, <2>1, <2>c DEF SubmitFill, Counters, CounterType, NoRingUnderrun,
         ThreadState
    <3>4. ThreadState'
      BY <1>a, <1>2, <2>1, <2>c DEF SubmitFill, Counters, CounterType, ThreadState
    <3> QED BY <3>1, <3>2, <3>3, <3>4 DEF Counters
  <2> QED BY <1>b, <1>2, <2>1, <2>2, Zenon DEF SubmitFill
<1>3. CASE TestExit
  <2>1. Frames' /\ held' = held
    BY <1>a, <1>3, HeldUnchanged DEF TestExit
  <2>c. /\ FreeCount' = FreeCount /\ FillCount' = FillCount /\ HwCount' = HwCount
        /\ RxCount' = RxCount /\ TxCount' = TxCount /\ FlightCount' = FlightCount
        /\ CqCount' = CqCount
    BY <2>1 DEF FreeCount, FillCount, HwCount, RxCount,
        TxCount, FlightCount, CqCount
  <2>2. Counters'
    <3>1. CounterType'
      BY <1>a, <1>3, <2>1, <2>c DEF TestExit, Counters, CounterType, NoRingOverrun,
         NoRingUnderrun, ThreadState,
         RxSlotsUsed, CqSlotsUsed, Location
    <3>2. NoRingOverrun'
      BY <1>a, <1>3, <2>1, <2>c DEF TestExit, Counters, CounterType, NoRingOverrun,
         ThreadState,
         RxSlotsUsed, CqSlotsUsed
    <3>3. NoRingUnderrun'
      BY <1>a, <1>3, <2>1, <2>c DEF TestExit, Counters, CounterType, NoRingUnderrun,
         ThreadState
    <3>4. ThreadState'
      BY <1>a, <1>3, <2>1, <2>c DEF TestExit, Counters, CounterType, ThreadState
    <3> QED BY <3>1, <3>2, <3>3, <3>4 DEF Counters
  <2> QED BY <1>b, <1>3, <2>1, <2>2, Zenon DEF TestExit
<1>4. CASE CallPoll
  <2>1. Frames' /\ held' = held
    BY <1>a, <1>4, HeldUnchanged DEF CallPoll
  <2>c. /\ FreeCount' = FreeCount /\ FillCount' = FillCount /\ HwCount' = HwCount
        /\ RxCount' = RxCount /\ TxCount' = TxCount /\ FlightCount' = FlightCount
        /\ CqCount' = CqCount
    BY <2>1 DEF FreeCount, FillCount, HwCount, RxCount,
        TxCount, FlightCount, CqCount
  <2>2. Counters'
    <3>1. CounterType'
      BY <1>a, <1>4, <2>1, <2>c DEF CallPoll, Counters, CounterType, NoRingOverrun,
         NoRingUnderrun, ThreadState,
         RxSlotsUsed, CqSlotsUsed, Location
    <3>2. NoRingOverrun'
      BY <1>a, <1>4, <2>1, <2>c DEF CallPoll, Counters, CounterType, NoRingOverrun,
         ThreadState,
         RxSlotsUsed, CqSlotsUsed
    <3>3. NoRingUnderrun'
      BY <1>a, <1>4, <2>1, <2>c DEF CallPoll, Counters, CounterType, NoRingUnderrun,
         ThreadState
    <3>4. ThreadState'
      BY <1>a, <1>4, <2>1, <2>c DEF CallPoll, Counters, CounterType, ThreadState
    <3> QED BY <3>1, <3>2, <3>3, <3>4 DEF Counters
  <2> QED BY <1>b, <1>4, <2>1, <2>2, Zenon DEF CallPoll
<1>5. CASE PollReturns
  <2>1. Frames' /\ held' = held
    BY <1>a, <1>5, HeldUnchanged DEF PollReturns
  <2>c. /\ FreeCount' = FreeCount /\ FillCount' = FillCount /\ HwCount' = HwCount
        /\ RxCount' = RxCount /\ TxCount' = TxCount /\ FlightCount' = FlightCount
        /\ CqCount' = CqCount
    BY <2>1 DEF FreeCount, FillCount, HwCount, RxCount,
        TxCount, FlightCount, CqCount
  <2>2. Counters'
    <3>1. CounterType'
      BY <1>a, <1>5, <2>1, <2>c DEF PollReturns, Counters, CounterType, NoRingOverrun,
         NoRingUnderrun, ThreadState,
         RxSlotsUsed, CqSlotsUsed, Location
    <3>2. NoRingOverrun'
      BY <1>a, <1>5, <2>1, <2>c DEF PollReturns, Counters, CounterType, NoRingOverrun,
         ThreadState,
         RxSlotsUsed, CqSlotsUsed
    <3>3. NoRingUnderrun'
      BY <1>a, <1>5, <2>1, <2>c DEF PollReturns, Counters, CounterType, NoRingUnderrun,
         ThreadState
    <3>4. ThreadState'
      BY <1>a, <1>5, <2>1, <2>c DEF PollReturns, Counters, CounterType, ThreadState
    <3> QED BY <3>1, <3>2, <3>3, <3>4 DEF Counters
  <2> QED BY <1>b, <1>5, <2>1, <2>2, Zenon DEF PollReturns
<1>6. CASE PeekRx
  <2>1. Frames' /\ held' = held
    BY <1>a, <1>6, HeldUnchanged DEF PeekRx
  <2>c. /\ FreeCount' = FreeCount /\ FillCount' = FillCount /\ HwCount' = HwCount
        /\ RxCount' = RxCount /\ TxCount' = TxCount /\ FlightCount' = FlightCount
        /\ CqCount' = CqCount
    BY <2>1 DEF FreeCount, FillCount, HwCount, RxCount,
        TxCount, FlightCount, CqCount
  <2>2. Counters'
    <3>1. CounterType'
      BY <1>a, <1>6, <2>1, <2>c DEF PeekRx, Counters, CounterType, NoRingOverrun,
         NoRingUnderrun, ThreadState,
         RxSlotsUsed, CqSlotsUsed, Location
    <3>2. NoRingOverrun'
      BY <1>a, <1>6, <2>1, <2>c DEF PeekRx, Counters, CounterType, NoRingOverrun,
         ThreadState,
         RxSlotsUsed, CqSlotsUsed
    <3>3. NoRingUnderrun'
      BY <1>a, <1>6, <2>1, <2>c DEF PeekRx, Counters, CounterType, NoRingUnderrun,
         ThreadState
    <3>4. ThreadState'
      BY <1>a, <1>6, <2>1, <2>c DEF PeekRx, Counters, CounterType, ThreadState
    <3> QED BY <3>1, <3>2, <3>3, <3>4 DEF Counters
  <2> QED BY <1>b, <1>6, <2>1, <2>2, Zenon DEF PeekRx
<1>7. CASE ReserveFill
  <2> DEFINE stock == xsk_prod_nb_free(fq_free, FreeCount)
  <2>1. Frames' /\ held' = held
    BY <1>a, <1>7, HeldUnchanged DEF ReserveFill
  <2>c. /\ FillCount' = FillCount /\ RxCount' = RxCount /\ TxCount' = TxCount
        /\ FlightCount' = FlightCount /\ CqCount' = CqCount
    BY <2>1 DEF FillCount, RxCount, TxCount, FlightCount, CqCount
  <2>2. /\ to_stock = 0 /\ unsubmitted = 0 /\ handled = 0 /\ reaped = 0
        /\ fq_free \in Nat /\ FillCount + fq_free <= RING_SIZE
        /\ RxSlotsUsed <= RING_SIZE /\ TxCount <= RING_SIZE
        /\ FlightCount + CqSlotsUsed <= RING_SIZE
    BY <1>a, <1>7 DEF ReserveFill, Counters, CounterType, ThreadState, NoRingOverrun
  <2>3. stock \in Nat /\ FillCount + stock <= RING_SIZE
    BY <2>2 DEF xsk_prod_nb_free
  <2>4. xsk_prod_nb_free(stock, stock) = stock
    BY <2>3 DEF xsk_prod_nb_free
  <2> HIDE DEF stock
  <2>5. /\ to_stock' = stock /\ fq_free' = stock - stock
        /\ pc' = IF stock = 0 THEN "process" ELSE "alloc"
        /\ UNCHANGED <<unsubmitted, rxVars, txVars, reapVars>>
    BY <1>7, <2>3, <2>4 DEF ReserveFill, stock
  <2>6. fq_free' = 0
    BY <2>3, <2>5
  <2>7. Counters'
    <3>1. CounterType'
      BY <1>a, <2>2, <2>3, <2>5, <2>6 DEF Counters, CounterType, Location
    <3>2. NoRingOverrun'
      BY <2>c, <2>2, <2>3, <2>5, <2>6 DEF NoRingOverrun, RxSlotsUsed, CqSlotsUsed
    <3>3. NoRingUnderrun'
      BY <1>a, <2>c, <2>5 DEF Counters, NoRingUnderrun
    <3>4. ThreadState'
      BY <1>a, <1>7, <2>2, <2>3, <2>5 DEF ReserveFill, Counters, ThreadState
    <3> QED BY <3>1, <3>2, <3>3, <3>4 DEF Counters
  <2> QED BY <1>b, <1>7, <2>1, <2>7, Zenon DEF ReserveFill
<1>8. CASE ReplyToPacket
  <2>1. Pass("rx", "tx") /\ Head(held["rx"]) \in Frame
    <3>1. Pass("rx", "tx")
      BY <1>8 DEF ReplyToPacket
    <3>2. Head(held["rx"]) \in Frame
      BY <1>a, <3>1, HeadIsFrame DEF Pass, Place
    <3> QED BY <3>1, <3>2
  <2>2. /\ Frames' /\ RxCount >= 1
        /\ FreeCount' = FreeCount
        /\ FillCount' = FillCount
        /\ HwCount' = HwCount
        /\ RxCount' = RxCount - 1
        /\ TxCount' = TxCount + 1
        /\ FlightCount' = FlightCount
        /\ CqCount' = CqCount
    BY <1>a, <2>1, PassStep DEF Place, FreeCount, FillCount, HwCount, RxCount,
        TxCount, FlightCount, CqCount
  <2>3. Counters'
    <3>1. CounterType'
      BY <1>a, <1>8, <2>2 DEF ReplyToPacket, Counters, CounterType, NoRingOverrun,
         NoRingUnderrun, ThreadState,
         RxSlotsUsed, CqSlotsUsed, Location
    <3>2. NoRingOverrun'
      BY <1>a, <1>8, <2>2 DEF ReplyToPacket, Counters, CounterType, NoRingOverrun,
         ThreadState,
         RxSlotsUsed, CqSlotsUsed
    <3>3. NoRingUnderrun'
      <4>1. /\ handled' = handled + 1
            /\ UNCHANGED <<rcvd, rx_seen, completed, reaped, unsubmitted>>
        BY <1>8 DEF ReplyToPacket
      <4>2. /\ rcvd - handled + rx_seen <= RxCount /\ completed - reaped <= CqCount
            /\ unsubmitted <= FillCount
            /\ rcvd \in Int /\ handled \in Int /\ rx_seen \in Int
        BY <1>a DEF Counters, CounterType, NoRingUnderrun
      <4>3. RxCount' = RxCount - 1 /\ FillCount' = FillCount /\ CqCount' = CqCount
        BY <2>2
      <4> QED BY <4>1, <4>2, <4>3 DEF NoRingUnderrun
    <3>4. ThreadState'
      BY <1>a, <1>8, <2>2 DEF ReplyToPacket, Counters, CounterType, ThreadState
    <3> QED BY <3>1, <3>2, <3>3, <3>4 DEF Counters
  <2> QED BY <1>b, <1>8, <2>2, <2>3, Zenon DEF ReplyToPacket
<1>9. CASE DropPacket
  <2>1. Pass("rx", "free") /\ Head(held["rx"]) \in Frame
    <3>1. Pass("rx", "free")
      BY <1>9 DEF DropPacket, xsk_free_umem_frame
    <3>2. Head(held["rx"]) \in Frame
      BY <1>a, <3>1, HeadIsFrame DEF Pass, Place
    <3> QED BY <3>1, <3>2
  <2>2. /\ Frames' /\ RxCount >= 1
        /\ FreeCount' = FreeCount + 1
        /\ FillCount' = FillCount
        /\ HwCount' = HwCount
        /\ RxCount' = RxCount - 1
        /\ TxCount' = TxCount
        /\ FlightCount' = FlightCount
        /\ CqCount' = CqCount
    BY <1>a, <2>1, PassStep DEF Place, FreeCount, FillCount, HwCount, RxCount,
        TxCount, FlightCount, CqCount
  <2>3. Counters'
    <3>1. CounterType'
      BY <1>a, <1>9, <2>2 DEF DropPacket, Counters, CounterType, NoRingOverrun,
         NoRingUnderrun, ThreadState,
         RxSlotsUsed, CqSlotsUsed, Location
    <3>2. NoRingOverrun'
      BY <1>a, <1>9, <2>2 DEF DropPacket, Counters, CounterType, NoRingOverrun,
         ThreadState,
         RxSlotsUsed, CqSlotsUsed
    <3>3. NoRingUnderrun'
      BY <1>a, <1>9, <2>2 DEF DropPacket, Counters, CounterType, NoRingUnderrun,
         ThreadState
    <3>4. ThreadState'
      BY <1>a, <1>9, <2>2 DEF DropPacket, Counters, CounterType, ThreadState
    <3> QED BY <3>1, <3>2, <3>3, <3>4 DEF Counters
  <2> QED BY <1>b, <1>9, <2>2, <2>3, Zenon DEF DropPacket
<1>10. CASE ReleaseRx
  <2>1. Frames' /\ held' = held
    BY <1>a, <1>10, HeldUnchanged DEF ReleaseRx
  <2>c. /\ FreeCount' = FreeCount /\ FillCount' = FillCount /\ HwCount' = HwCount
        /\ RxCount' = RxCount /\ TxCount' = TxCount /\ FlightCount' = FlightCount
        /\ CqCount' = CqCount
    BY <2>1 DEF FreeCount, FillCount, HwCount, RxCount,
        TxCount, FlightCount, CqCount
  <2>2. Counters'
    <3>1. CounterType'
      BY <1>a, <1>10, <2>1, <2>c DEF ReleaseRx, Counters, CounterType, NoRingOverrun,
         NoRingUnderrun, ThreadState,
         RxSlotsUsed, CqSlotsUsed, Location
    <3>2. NoRingOverrun'
      BY <1>a, <1>10, <2>1, <2>c DEF ReleaseRx, Counters, CounterType, NoRingOverrun,
         ThreadState,
         RxSlotsUsed, CqSlotsUsed
    <3>3. NoRingUnderrun'
      BY <1>a, <1>10, <2>1, <2>c DEF ReleaseRx, Counters, CounterType, NoRingUnderrun,
         ThreadState
    <3>4. ThreadState'
      BY <1>a, <1>10, <2>1, <2>c DEF ReleaseRx, Counters, CounterType, ThreadState
    <3> QED BY <3>1, <3>2, <3>3, <3>4 DEF Counters
  <2> QED BY <1>b, <1>10, <2>1, <2>2, Zenon DEF ReleaseRx
<1>11. CASE KickTx
  <2>1. Frames' /\ held' = held
    BY <1>a, <1>11, HeldUnchanged DEF KickTx
  <2>c. /\ FreeCount' = FreeCount /\ FillCount' = FillCount /\ HwCount' = HwCount
        /\ RxCount' = RxCount /\ TxCount' = TxCount /\ FlightCount' = FlightCount
        /\ CqCount' = CqCount
    BY <2>1 DEF FreeCount, FillCount, HwCount, RxCount,
        TxCount, FlightCount, CqCount
  <2>2. Counters'
    <3>1. CounterType'
      BY <1>a, <1>11, <2>1, <2>c DEF KickTx, Counters, CounterType, NoRingOverrun,
         NoRingUnderrun, ThreadState,
         RxSlotsUsed, CqSlotsUsed, Location
    <3>2. NoRingOverrun'
      BY <1>a, <1>11, <2>1, <2>c DEF KickTx, Counters, CounterType, NoRingOverrun,
         ThreadState,
         RxSlotsUsed, CqSlotsUsed
    <3>3. NoRingUnderrun'
      BY <1>a, <1>11, <2>1, <2>c DEF KickTx, Counters, CounterType, NoRingUnderrun,
         ThreadState
    <3>4. ThreadState'
      BY <1>a, <1>11, <2>1, <2>c DEF KickTx, Counters, CounterType, ThreadState
    <3> QED BY <3>1, <3>2, <3>3, <3>4 DEF Counters
  <2> QED BY <1>b, <1>11, <2>1, <2>2, Zenon DEF KickTx
<1>12. CASE PeekCompletions
  <2>1. Frames' /\ held' = held
    BY <1>a, <1>12, HeldUnchanged DEF PeekCompletions
  <2>c. /\ FreeCount' = FreeCount /\ FillCount' = FillCount /\ HwCount' = HwCount
        /\ RxCount' = RxCount /\ TxCount' = TxCount /\ FlightCount' = FlightCount
        /\ CqCount' = CqCount
    BY <2>1 DEF FreeCount, FillCount, HwCount, RxCount,
        TxCount, FlightCount, CqCount
  <2>2. Counters'
    <3>1. CounterType'
      BY <1>a, <1>12, <2>1, <2>c DEF PeekCompletions, Counters, CounterType,
         NoRingOverrun, NoRingUnderrun, ThreadState,
         RxSlotsUsed, CqSlotsUsed, Location
    <3>2. NoRingOverrun'
      BY <1>a, <1>12, <2>1, <2>c DEF PeekCompletions, Counters, CounterType,
         NoRingOverrun, ThreadState,
         RxSlotsUsed, CqSlotsUsed
    <3>3. NoRingUnderrun'
      BY <1>a, <1>12, <2>1, <2>c DEF PeekCompletions, Counters, CounterType,
         NoRingUnderrun, ThreadState
    <3>4. ThreadState'
      BY <1>a, <1>12, <2>1, <2>c DEF PeekCompletions, Counters, CounterType, ThreadState
    <3> QED BY <3>1, <3>2, <3>3, <3>4 DEF Counters
  <2> QED BY <1>b, <1>12, <2>1, <2>2, Zenon DEF PeekCompletions
<1>13. CASE ReapCompletion
  <2>1. Pass("cq", "free") /\ Head(held["cq"]) \in Frame
    <3>1. Pass("cq", "free")
      BY <1>13 DEF ReapCompletion, xsk_free_umem_frame
    <3>2. Head(held["cq"]) \in Frame
      BY <1>a, <3>1, HeadIsFrame DEF Pass, Place
    <3> QED BY <3>1, <3>2
  <2>2. /\ Frames' /\ CqCount >= 1
        /\ FreeCount' = FreeCount + 1
        /\ FillCount' = FillCount
        /\ HwCount' = HwCount
        /\ RxCount' = RxCount
        /\ TxCount' = TxCount
        /\ FlightCount' = FlightCount
        /\ CqCount' = CqCount - 1
    BY <1>a, <2>1, PassStep DEF Place, FreeCount, FillCount, HwCount, RxCount,
        TxCount, FlightCount, CqCount
  <2>3. Counters'
    <3>1. CounterType'
      BY <1>a, <1>13, <2>2 DEF ReapCompletion, Counters, CounterType, NoRingOverrun,
         NoRingUnderrun, ThreadState,
         RxSlotsUsed, CqSlotsUsed, Location
    <3>2. NoRingOverrun'
      BY <1>a, <1>13, <2>2 DEF ReapCompletion, Counters, CounterType, NoRingOverrun,
         ThreadState,
         RxSlotsUsed, CqSlotsUsed
    <3>3. NoRingUnderrun'
      BY <1>a, <1>13, <2>2 DEF ReapCompletion, Counters, CounterType, NoRingUnderrun,
         ThreadState
    <3>4. ThreadState'
      BY <1>a, <1>13, <2>2 DEF ReapCompletion, Counters, CounterType, ThreadState
    <3> QED BY <3>1, <3>2, <3>3, <3>4 DEF Counters
  <2> QED BY <1>b, <1>13, <2>2, <2>3, Zenon DEF ReapCompletion
<1>14. CASE ReleaseCompletions
  <2>1. Frames' /\ held' = held
    BY <1>a, <1>14, HeldUnchanged DEF ReleaseCompletions
  <2>c. /\ FreeCount' = FreeCount /\ FillCount' = FillCount /\ HwCount' = HwCount
        /\ RxCount' = RxCount /\ TxCount' = TxCount /\ FlightCount' = FlightCount
        /\ CqCount' = CqCount
    BY <2>1 DEF FreeCount, FillCount, HwCount, RxCount,
        TxCount, FlightCount, CqCount
  <2>2. Counters'
    <3>1. CounterType'
      BY <1>a, <1>14, <2>1, <2>c DEF ReleaseCompletions, Counters, CounterType,
         NoRingOverrun, NoRingUnderrun, ThreadState,
         RxSlotsUsed, CqSlotsUsed, Location
    <3>2. NoRingOverrun'
      BY <1>a, <1>14, <2>1, <2>c DEF ReleaseCompletions, Counters, CounterType,
         NoRingOverrun, ThreadState,
         RxSlotsUsed, CqSlotsUsed
    <3>3. NoRingUnderrun'
      BY <1>a, <1>14, <2>1, <2>c DEF ReleaseCompletions, Counters, CounterType,
         NoRingUnderrun, ThreadState
    <3>4. ThreadState'
      BY <1>a, <1>14, <2>1, <2>c DEF ReleaseCompletions, Counters, CounterType,
         ThreadState
    <3> QED BY <3>1, <3>2, <3>3, <3>4 DEF Counters
  <2> QED BY <1>b, <1>14, <2>1, <2>2, Zenon DEF ReleaseCompletions
<1> QED BY <1>1, <1>2, <1>3, <1>4, <1>5, <1>6, <1>7, <1>8, <1>9, <1>10, <1>11, <1>12,
<1>13, <1>14 DEF Thread

(* So do SIGINT and every step of the kernel. *)
LEMMA EnvironmentKeepsInv ==
  Inv /\ (exit_application \/ Receiving \/ KernelSends \/ KernelCompletes) => Inv'
<1> SUFFICES ASSUME Inv, exit_application \/ Receiving \/ KernelSends \/ KernelCompletes PROVE Inv'
  OBVIOUS
<1>a. Frames /\ Counters
  BY InvHalves
<1>b. global_exit \in BOOLEAN
  BY InvHalves
<1>c. /\ FreeCount \in Nat /\ FillCount \in Nat /\ HwCount \in Nat /\ RxCount \in Nat
      /\ TxCount \in Nat /\ FlightCount \in Nat /\ CqCount \in Nat
      /\ held["rx"] = <<>> <=> RxCount = 0
      /\ held["cq"] = <<>> <=> CqCount = 0
  BY <1>a, CounterFacts
<1>d. /\ RING_SIZE \in Nat \ {0} /\ RX_BATCH_SIZE \in Nat \ {0}
      /\ TX_BATCH \in Nat \ {0} /\ TX_MOD \in Nat \ {0}
  BY ConstantSizes
<1> SUFFICES Frames' /\ Counters' /\ (global_exit \in BOOLEAN)'
  BY InvHalvesNext
<1> USE <1>c, <1>d DEF fqVars, rxVars, txVars, reapVars
<1> USE DEF kernelUnchanged
<1>1. CASE exit_application
  <2>1. Frames' /\ held' = held
    BY <1>a, <1>1, HeldUnchanged DEF exit_application
  <2>c. /\ FreeCount' = FreeCount /\ FillCount' = FillCount /\ HwCount' = HwCount
        /\ RxCount' = RxCount /\ TxCount' = TxCount /\ FlightCount' = FlightCount
        /\ CqCount' = CqCount
    BY <2>1 DEF FreeCount, FillCount, HwCount, RxCount,
        TxCount, FlightCount, CqCount
  <2>2. Counters'
    <3>1. CounterType'
      BY <1>a, <1>1, <2>1, <2>c DEF exit_application, Counters, CounterType,
         NoRingOverrun, NoRingUnderrun, ThreadState,
         RxSlotsUsed, CqSlotsUsed, Location
    <3>2. NoRingOverrun'
      BY <1>a, <1>1, <2>1, <2>c DEF exit_application, Counters, CounterType,
         NoRingOverrun, ThreadState,
         RxSlotsUsed, CqSlotsUsed
    <3>3. NoRingUnderrun'
      BY <1>a, <1>1, <2>1, <2>c DEF exit_application, Counters, CounterType,
         NoRingUnderrun, ThreadState
    <3>4. ThreadState'
      BY <1>a, <1>1, <2>1, <2>c DEF exit_application, Counters, CounterType, ThreadState
    <3> QED BY <3>1, <3>2, <3>3, <3>4 DEF Counters
  <2> QED BY <1>b, <1>1, <2>1, <2>2, Zenon DEF exit_application
<1>2. CASE KernelSkipsInvalid
  <2>1. /\ FillCount > unsubmitted /\ unsubmitted \in Nat
        /\ Head(held["fill"]) = INVALID_UMEM_FRAME
        /\ SkipFill
    BY <1>a, <1>2 DEF SkipFill, KernelSkipsInvalid, FillAvailable, Counters, CounterType
  <2>2. held["fill"] # <<>> /\ INVALID_UMEM_FRAME \notin Frame
    <3>1. FillCount # 0 /\ INVALID_UMEM_FRAME \notin Frame
      BY <2>1, ConstantSizes DEF INVALID_UMEM_FRAME, Frame
    <3> QED BY <3>1 DEF FillCount
  <2>3. /\ Frames'
        /\ Len(held'["fill"]) = Len(held["fill"]) - 1
        /\ \A r \in Place \ {"fill"} : held'[r] = held[r]
    BY <1>a, <2>1, <2>2, SkipStep
  <2>4. /\ FreeCount' = FreeCount /\ FillCount' = FillCount - 1 /\ HwCount' = HwCount
        /\ RxCount' = RxCount /\ TxCount' = TxCount /\ FlightCount' = FlightCount
        /\ CqCount' = CqCount
    BY <2>3 DEF Place, FreeCount, FillCount, HwCount, RxCount,
        TxCount, FlightCount, CqCount
  <2>5. Counters'
    <3>1. CounterType'
      BY <1>a, <1>2, <2>1, <2>4 DEF KernelSkipsInvalid, FillAvailable, Counters,
         CounterType, NoRingOverrun, NoRingUnderrun, ThreadState,
         RxSlotsUsed, CqSlotsUsed, Location
    <3>2. NoRingOverrun'
      BY <1>a, <1>2, <2>1, <2>4 DEF KernelSkipsInvalid, FillAvailable, Counters,
         CounterType, NoRingOverrun, ThreadState,
         RxSlotsUsed, CqSlotsUsed
    <3>3. NoRingUnderrun'
      BY <1>a, <1>2, <2>1, <2>4 DEF KernelSkipsInvalid, FillAvailable, Counters,
         CounterType, NoRingUnderrun, ThreadState
    <3>4. ThreadState'
      BY <1>a, <1>2, <2>1, <2>4 DEF KernelSkipsInvalid, FillAvailable, Counters,
         CounterType, ThreadState
    <3> QED BY <3>1, <3>2, <3>3, <3>4 DEF Counters
  <2> QED BY <1>b, <1>2, <2>3, <2>5, Zenon DEF KernelSkipsInvalid, kernelUnchanged
<1>3. CASE KernelCopiesPacket
  <2>1. Pass("fill", "rx") /\ Head(held["fill"]) \in Frame
    BY <1>3 DEF KernelCopiesPacket, FillAvailable
  <2>2. /\ Frames' /\ FillCount >= 1
        /\ FreeCount' = FreeCount
        /\ FillCount' = FillCount - 1
        /\ HwCount' = HwCount
        /\ RxCount' = RxCount + 1
        /\ TxCount' = TxCount
        /\ FlightCount' = FlightCount
        /\ CqCount' = CqCount
    BY <1>a, <2>1, PassStep DEF Place, FreeCount, FillCount, HwCount, RxCount,
        TxCount, FlightCount, CqCount
  <2>3. Counters'
    <3>1. CounterType'
      BY <1>a, <1>3, <2>2 DEF KernelCopiesPacket, FillAvailable, Counters, CounterType,
         NoRingOverrun, NoRingUnderrun, ThreadState,
         RxSlotsUsed, CqSlotsUsed, Location
    <3>2. NoRingOverrun'
      BY SMTT(60), <1>a, <1>3, <2>2 DEF KernelCopiesPacket, FillAvailable, Counters, CounterType,
         NoRingOverrun, ThreadState,
         RxSlotsUsed, CqSlotsUsed
    <3>3. NoRingUnderrun'
      BY <1>a, <1>3, <2>2 DEF KernelCopiesPacket, FillAvailable, Counters, CounterType,
         NoRingUnderrun, ThreadState
    <3>4. ThreadState'
      BY <1>a, <1>3, <2>2 DEF KernelCopiesPacket, FillAvailable, Counters, CounterType,
         ThreadState
    <3> QED BY <3>1, <3>2, <3>3, <3>4 DEF Counters
  <2> QED BY <1>b, <1>3, <2>2, <2>3, Zenon DEF KernelCopiesPacket, kernelUnchanged
<1>4. CASE DriverPostsBuffer
  <2>1. Pass("fill", "hw") /\ Head(held["fill"]) \in Frame
    BY <1>4 DEF DriverPostsBuffer, FillAvailable
  <2>2. /\ Frames' /\ FillCount >= 1
        /\ FreeCount' = FreeCount
        /\ FillCount' = FillCount - 1
        /\ HwCount' = HwCount + 1
        /\ RxCount' = RxCount
        /\ TxCount' = TxCount
        /\ FlightCount' = FlightCount
        /\ CqCount' = CqCount
    BY <1>a, <2>1, PassStep DEF Place, FreeCount, FillCount, HwCount, RxCount,
        TxCount, FlightCount, CqCount
  <2>3. Counters'
    <3>1. CounterType'
      BY <1>a, <1>4, <2>2 DEF DriverPostsBuffer, FillAvailable, Counters, CounterType,
         NoRingOverrun, NoRingUnderrun, ThreadState,
         RxSlotsUsed, CqSlotsUsed, Location
    <3>2. NoRingOverrun'
      BY <1>a, <1>4, <2>2 DEF DriverPostsBuffer, FillAvailable, Counters, CounterType,
         NoRingOverrun, ThreadState,
         RxSlotsUsed, CqSlotsUsed
    <3>3. NoRingUnderrun'
      BY <1>a, <1>4, <2>2 DEF DriverPostsBuffer, FillAvailable, Counters, CounterType,
         NoRingUnderrun, ThreadState
    <3>4. ThreadState'
      BY <1>a, <1>4, <2>2 DEF DriverPostsBuffer, FillAvailable, Counters, CounterType,
         ThreadState
    <3> QED BY <3>1, <3>2, <3>3, <3>4 DEF Counters
  <2> QED BY <1>b, <1>4, <2>2, <2>3, Zenon DEF DriverPostsBuffer, kernelUnchanged
<1>5. CASE DriverDeliversPacket
  <2>1. Pass("hw", "rx") /\ Head(held["hw"]) \in Frame
    <3>1. Pass("hw", "rx")
      BY <1>5 DEF DriverDeliversPacket
    <3>2. Head(held["hw"]) \in Frame
      BY <1>a, <3>1, HeadIsFrame DEF Pass, Place
    <3> QED BY <3>1, <3>2
  <2>2. /\ Frames' /\ HwCount >= 1
        /\ FreeCount' = FreeCount
        /\ FillCount' = FillCount
        /\ HwCount' = HwCount - 1
        /\ RxCount' = RxCount + 1
        /\ TxCount' = TxCount
        /\ FlightCount' = FlightCount
        /\ CqCount' = CqCount
    BY <1>a, <2>1, PassStep DEF Place, FreeCount, FillCount, HwCount, RxCount,
        TxCount, FlightCount, CqCount
  <2>3. Counters'
    <3>1. CounterType'
      BY <1>a, <1>5, <2>2 DEF DriverDeliversPacket, Counters, CounterType,
         NoRingOverrun, NoRingUnderrun, ThreadState,
         RxSlotsUsed, CqSlotsUsed, Location
    <3>2. NoRingOverrun'
      BY <1>a, <1>5, <2>2 DEF DriverDeliversPacket, Counters, CounterType,
         NoRingOverrun, ThreadState,
         RxSlotsUsed, CqSlotsUsed
    <3>3. NoRingUnderrun'
      BY <1>a, <1>5, <2>2 DEF DriverDeliversPacket, Counters, CounterType,
         NoRingUnderrun, ThreadState
    <3>4. ThreadState'
      BY <1>a, <1>5, <2>2 DEF DriverDeliversPacket, Counters, CounterType, ThreadState
    <3> QED BY <3>1, <3>2, <3>3, <3>4 DEF Counters
  <2> QED BY <1>b, <1>5, <2>2, <2>3, Zenon DEF DriverDeliversPacket, kernelUnchanged
<1>6. CASE KernelSends
  <2>1. Pass("tx", "flight") /\ Head(held["tx"]) \in Frame
    <3>1. Pass("tx", "flight")
      BY <1>6 DEF KernelSends
    <3>2. Head(held["tx"]) \in Frame
      BY <1>a, <3>1, HeadIsFrame DEF Pass, Place
    <3> QED BY <3>1, <3>2
  <2>2. /\ Frames' /\ TxCount >= 1
        /\ FreeCount' = FreeCount
        /\ FillCount' = FillCount
        /\ HwCount' = HwCount
        /\ RxCount' = RxCount
        /\ TxCount' = TxCount - 1
        /\ FlightCount' = FlightCount + 1
        /\ CqCount' = CqCount
    BY <1>a, <2>1, PassStep DEF Place, FreeCount, FillCount, HwCount, RxCount,
        TxCount, FlightCount, CqCount
  <2>3. Counters'
    <3>1. CounterType'
      BY <1>a, <1>6, <2>2 DEF KernelSends, Counters, CounterType, NoRingOverrun,
         NoRingUnderrun, ThreadState,
         RxSlotsUsed, CqSlotsUsed, Location
    <3>2. NoRingOverrun'
      BY <1>a, <1>6, <2>2 DEF KernelSends, Counters, CounterType, NoRingOverrun,
         ThreadState,
         RxSlotsUsed, CqSlotsUsed
    <3>3. NoRingUnderrun'
      BY <1>a, <1>6, <2>2 DEF KernelSends, Counters, CounterType, NoRingUnderrun,
         ThreadState
    <3>4. ThreadState'
      BY <1>a, <1>6, <2>2 DEF KernelSends, Counters, CounterType, ThreadState
    <3> QED BY <3>1, <3>2, <3>3, <3>4 DEF Counters
  <2> QED BY <1>b, <1>6, <2>2, <2>3, Zenon DEF KernelSends, kernelUnchanged
<1>7. CASE KernelCompletes
  <2>1. Pass("flight", "cq") /\ Head(held["flight"]) \in Frame
    <3>1. Pass("flight", "cq")
      BY <1>7 DEF KernelCompletes
    <3>2. Head(held["flight"]) \in Frame
      BY <1>a, <3>1, HeadIsFrame DEF Pass, Place
    <3> QED BY <3>1, <3>2
  <2>2. /\ Frames' /\ FlightCount >= 1
        /\ FreeCount' = FreeCount
        /\ FillCount' = FillCount
        /\ HwCount' = HwCount
        /\ RxCount' = RxCount
        /\ TxCount' = TxCount
        /\ FlightCount' = FlightCount - 1
        /\ CqCount' = CqCount + 1
    BY <1>a, <2>1, PassStep DEF Place, FreeCount, FillCount, HwCount, RxCount,
        TxCount, FlightCount, CqCount
  <2>3. Counters'
    <3>1. CounterType'
      BY <1>a, <1>7, <2>2 DEF KernelCompletes, Counters, CounterType, NoRingOverrun,
         NoRingUnderrun, ThreadState,
         RxSlotsUsed, CqSlotsUsed, Location
    <3>2. NoRingOverrun'
      BY <1>a, <1>7, <2>2 DEF KernelCompletes, Counters, CounterType, NoRingOverrun,
         ThreadState,
         RxSlotsUsed, CqSlotsUsed
    <3>3. NoRingUnderrun'
      BY <1>a, <1>7, <2>2 DEF KernelCompletes, Counters, CounterType, NoRingUnderrun,
         ThreadState
    <3>4. ThreadState'
      BY <1>a, <1>7, <2>2 DEF KernelCompletes, Counters, CounterType, ThreadState
    <3> QED BY <3>1, <3>2, <3>3, <3>4 DEF Counters
  <2> QED BY <1>b, <1>7, <2>2, <2>3, Zenon DEF KernelCompletes, kernelUnchanged
<1> QED BY <1>1, <1>2, <1>3, <1>4, <1>5, <1>6, <1>7 DEF Receiving

LEMMA NextKeepsInv == Inv /\ [Next]_vars => Inv'
<1> SUFFICES ASSUME Inv, [Next]_vars PROVE Inv'
  OBVIOUS
<1>1. CASE Next
  BY <1>1, ThreadKeepsInv, EnvironmentKeepsInv DEF Next
<1>2. CASE UNCHANGED vars
  <2>1. Frames' /\ held' = held
    BY <1>2, InvHalves, HeldUnchanged DEF vars
  <2>2. Counters'
    <3>1. UNCHANGED <<unsubmitted, to_stock, fq_free, rx_seen, rcvd, handled, completed,
                      reaped, outstanding_tx, tx_budget, pc>>
      BY <1>2 DEF vars
    <3> QED BY <2>1, <3>1, InvHalves DEF Counters, CounterType, NoRingOverrun,
               NoRingUnderrun, ThreadState, RxSlotsUsed, CqSlotsUsed, FillCount, RxCount,
               TxCount, FlightCount, CqCount
  <2>3. (global_exit \in BOOLEAN)'
    BY <1>2, InvHalves, Zenon DEF vars
  <2> QED BY <2>1, <2>2, <2>3, InvHalvesNext
<1> QED BY <1>1, <1>2

-----------------------------------------------------------------------------
(* The invariant holds of every reachable state. *)
THEOREM InvHolds == Spec => []Inv
BY InitInv, NextKeepsInv, PTL DEF Spec

(* Every counter stays in its range and only FILL ever holds an address that
   is not a frame's. *)
THEOREM TypeCorrect == Spec => []TypeOK
<1>1. Inv => TypeOK
  BY DEF Inv
<1> QED BY <1>1, InvHolds, PTL

(* No frame is ever freed twice, posted while it is in use, or sent twice. *)
THEOREM FramesAreNotShared == Spec => []NoFrameShared
<1>1. Inv => NoFrameShared
  BY DEF Inv
<1> QED BY <1>1, InvHolds, PTL

(* Neither the error branches of process_packet nor a full ring leak a frame. *)
THEOREM FramesAreNotLost == Spec => []NoFrameLost
<1>1. Inv => NoFrameLost
  BY DEF Inv
<1> QED BY <1>1, InvHolds, PTL

(* The stale counts of free slots that the program reserves by never exceed the
   true ones: what it writes to a ring is free. *)
THEOREM RingsAreRespected == Spec => []NoRingOverrun
<1>1. Inv => NoRingOverrun
  BY DEF Inv
<1> QED BY <1>1, InvHolds, PTL

(* Nor do those of filled slots that it peeks at: what it reads from a ring has
   been written. *)
THEOREM OnlyWrittenIsRead == Spec => []NoRingUnderrun
<1>1. Inv => NoRingUnderrun
  BY DEF Inv
<1> QED BY <1>1, InvHolds, PTL

(* The loop that repeats a failed reservation of FILL slots is dead code. *)
THEOREM ReservationsSucceed == Spec => []ReserveNeverRetries
<1>1. Inv => ReserveNeverRetries
  BY DEF Inv, ThreadState, ReserveNeverRetries
<1> QED BY <1>1, InvHolds, PTL

(* A stack that lacks a frame has room: its slots are so many different
   frames, and the missing one is none of them. *)
LEMMA MissingFrameLeavesRoom ==
  ASSUME Frames, NEW p \in Place \ {"free", "fill"}, held[p] # <<>>
  PROVE  FreeCount < NUM_FRAMES
<1> DEFINE s == held["free"]
           f == Head(held[p])
           S == 1 .. Len(s)
           T == Frame \ {f}
<1>1. f = held[p][1] /\ 1 \in 1 .. Len(held[p]) /\ f \in Frame
  <2>1. held[p] \in Seq(Frame)
    BY DEF Frames, HeldType
  <2> QED BY <2>1, TailFacts
<1>2. s \in Seq(Frame) /\ Len(s) \in Nat
  BY DEF Frames, HeldType, Place
<1>3. \A i \in S : s[i] \in T
  <2> SUFFICES ASSUME NEW i \in S, s[i] = f PROVE FALSE
    BY <1>2
  <2>1. "free" \in Place /\ p \in Place /\ "free" # p
    BY DEF Place
  <2> QED BY <1>1, <2>1, OneSlotPerFrame DEF Frames
<1>4. \A i, j \in S : s[i] = s[j] => i = j
  <2> SUFFICES ASSUME NEW i \in S, NEW j \in S, s[i] = s[j] PROVE i = j
    OBVIOUS
  <2>1. "free" \in Place /\ s[i] \in Frame
    BY <1>2 DEF Place
  <2> QED BY <2>1, OneSlotPerFrame DEF Frames
<1>5. IsFiniteSet(S) /\ Cardinality(S) = Len(s)
  BY SMTT(60), <1>2, FS_Interval
<1>6. IsFiniteSet(T) /\ Cardinality(T) = NUM_FRAMES - 1
  <2>1. IsFiniteSet(Frame) /\ Cardinality(Frame) = NUM_FRAMES
    BY ConstantSizes, FS_Interval DEF Frame
  <2> QED BY <1>1, <2>1, FS_RemoveElement
<1>7. [i \in S |-> s[i]] \in [S -> T]
  BY <1>3
<1> HIDE DEF S, T
<1>8. ~(Cardinality(T) < Cardinality(S))
  <2> SUFFICES ASSUME Cardinality(T) < Cardinality(S) PROVE FALSE
    OBVIOUS
  <2> DEFINE g == [i \in S |-> s[i]]
  <2>1. g \in [S -> T]
    BY <1>7
  <2> HIDE DEF g
  <2>2. PICK x, y \in S : x # y /\ g[x] = g[y]
    BY <1>5, <1>6, <2>1, FS_PigeonHole
  <2> QED BY <2>2, <1>4 DEF g
<1> QED BY <1>2, <1>5, <1>6, <1>8, ConstantSizes DEF FreeCount

(* assert(xsk->umem_frame_free < NUM_FRAMES) never fails. *)
THEOREM FreeListHasRoom == Spec => []FreeListNeverOverflows
<1>1. Inv => FreeListNeverOverflows
  <2> SUFFICES ASSUME Inv,
                      \/ pc = "process" /\ handled < rcvd
                      \/ pc = "reap" /\ reaped < completed
               PROVE  FreeCount < NUM_FRAMES
    BY DEF FreeListNeverOverflows
  <2>1. Frames /\ Counters
    BY InvHalves
  <2>2. held["rx"] # <<>> \/ held["cq"] # <<>>
    <3>1. /\ rcvd - handled + rx_seen <= RxCount /\ completed - reaped <= CqCount
          /\ rcvd \in Int /\ handled \in Int /\ rx_seen \in Nat
          /\ completed \in Int /\ reaped \in Int
      BY <2>1 DEF Counters, CounterType, NoRingUnderrun
    <3>2. RxCount \in Nat /\ CqCount \in Nat
      BY <2>1, CounterFacts
    <3>3. RxCount # 0 \/ CqCount # 0
      BY <3>1, <3>2
    <3> QED BY <2>1, <3>3, CounterFacts
  <2> QED BY <2>1, <2>2, MissingFrameLeavesRoom DEF Place
<1> QED BY <1>1, InvHolds, PTL
=============================================================================
