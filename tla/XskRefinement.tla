--------------------------- MODULE XskRefinement ---------------------------
(***************************************************************************)
(* The AF_XDP program implements UmemOwnership: each step of the program,  *)
(* the kernel or the driver hands over what that specification allows, or  *)
(* nothing.                                                                *)
(***************************************************************************)
EXTENDS XskSocketProofs

(* FILL slots the kernel may take. *)
PostedCount == FillCount - unsubmitted

(* The owner of the frame in slot i of place p when n FILL slots are posted. *)
OwnerAt(p, i, n) ==
  IF p = "fill" THEN IF i <= n THEN "fill" ELSE "app"
  ELSE IF p = "free" THEN "app"
  ELSE IF p = "hw" THEN "fill"
  ELSE IF p = "rx" THEN "rx"
  ELSE IF p = "cq" THEN "comp"
  ELSE "tx"

OwnersKnown ==
  Frames /\ unsubmitted \in Nat =>
    \A p \in Place : \A i \in 1 .. Len(held[p]) :
      held[p][i] \in Frame => UmemOwner[held[p][i]] = OwnerAt(p, i, PostedCount)

(* The place and the slot of a frame tell its owner, since it is in no other. *)
LEMMA OwnerOfSlot == OwnersKnown
<1> SUFFICES ASSUME Frames, unsubmitted \in Nat,
                    NEW p \in Place, NEW i \in 1 .. Len(held[p]), held[p][i] \in Frame
             PROVE  UmemOwner[held[p][i]] = OwnerAt(p, i, PostedCount)
  BY DEF OwnersKnown
<1> DEFINE f == held[p][i]
<1>1. \A q \in Place : IsAt(f, q) <=> q = p
  <2>1. IsAt(f, p)
    BY DEF IsAt
  <2>2. ASSUME NEW q \in Place, IsAt(f, q) PROVE q = p
    <3>1. PICK j \in 1 .. Len(held[q]) : held[q][j] = f
      BY <2>2 DEF IsAt
    <3> QED BY <3>1, OneSlotPerFrame DEF Frames
  <2> QED BY <2>1, <2>2
<1>2. FillCount \in Nat /\ PostedCount \in Int /\ PostedCount <= FillCount
  BY Lengths DEF FillCount, PostedCount, Place
<1>3. Posted(f) <=> p = "hw" \/ (p = "fill" /\ i <= PostedCount)
  <2>1. ASSUME NEW j \in 1 .. PostedCount, held["fill"][j] = f PROVE p = "fill" /\ i = j
    <3>1. "fill" \in Place /\ j \in 1 .. Len(held["fill"])
      BY <1>2, <2>1 DEF Place, FillCount
    <3> QED BY <2>1, <3>1, OneSlotPerFrame DEF Frames
  <2>2. ASSUME p = "fill", i <= PostedCount PROVE i \in 1 .. PostedCount
    BY <1>2, <2>2 DEF FillCount
  <2>3. IsAt(f, "hw") <=> p = "hw"
    BY <1>1 DEF Place
  <2>4. Posted(f) <=> \/ \E j \in 1 .. PostedCount : held["fill"][j] = f
                      \/ IsAt(f, "hw")
    BY DEF Posted, PostedCount
  <2>5. i \in Int
    OBVIOUS
  <2> QED BY <1>2, <2>1, <2>2, <2>3, <2>4, <2>5
<1>4. UmemOwner[f] = CASE Posted(f) -> "fill"
                       [] IsAt(f, "rx") -> "rx"
                       [] IsAt(f, "tx") \/ IsAt(f, "flight") -> "tx"
                       [] IsAt(f, "cq") -> "comp"
                       [] OTHER -> "app"
  BY DEF UmemOwner
<1>5. /\ IsAt(f, "rx") <=> p = "rx"
      /\ IsAt(f, "tx") \/ IsAt(f, "flight") <=> p \in {"tx", "flight"}
      /\ IsAt(f, "cq") <=> p = "cq"
  BY <1>1 DEF Place
<1> HIDE DEF f
<1>6. UmemOwner[f] = OwnerAt(p, i, PostedCount)
  BY <1>3, <1>4, <1>5 DEF OwnerAt, Place
<1> QED BY <1>6 DEF f

LEMMA OwnerOfNextSlot == OwnersKnown'
BY OwnerOfSlot, PTL

LEMMA OwnerDomain == UmemOwner = [f \in Frame |-> UmemOwner[f]]
                     /\ UmemOwner' = [f \in Frame |-> UmemOwner'[f]]
BY DEF UmemOwner

(* Every frame is in some slot. *)
LEMMA SlotOf ==
  ASSUME Frames, NEW f \in Frame
  PROVE  \E p \in Place : \E i \in 1 .. Len(held[p]) : held[p][i] = f
BY DEF Frames, NoFrameLost

(* A frame whose slot after the step gives it the same owner keeps it. *)
LEMMA KeepsOwner ==
  ASSUME Frames, Frames', unsubmitted \in Nat, unsubmitted' \in Nat, NEW f \in Frame,
         NEW p \in Place, NEW i \in 1 .. Len(held[p]), held[p][i] = f,
         NEW q \in Place, NEW j \in 1 .. Len(held'[q]), held'[q][j] = f,
         OwnerAt(q, j, PostedCount') = OwnerAt(p, i, PostedCount)
  PROVE  UmemOwner'[f] = UmemOwner[f]
<1>1. UmemOwner[f] = OwnerAt(p, i, PostedCount)
  BY OwnerOfSlot DEF OwnersKnown
<1>2. UmemOwner'[f] = OwnerAt(q, j, PostedCount')
  BY OwnerOfNextSlot DEF OwnersKnown
<1> QED BY <1>1, <1>2

(* When one frame moves, the others keep their owner. *)
LEMMA MovedOwners ==
  ASSUME Frames, Frames', unsubmitted \in Nat, unsubmitted' \in Nat,
         NEW p, NEW k, NEW q, Moved(p, k, q), held[p][k] \in Frame,
         p = "fill" => k = 1,
         PostedCount' = IF p = "fill" THEN PostedCount - 1 ELSE PostedCount
  PROVE  /\ \A f \in Frame \ {held[p][k]} : UmemOwner'[f] = UmemOwner[f]
         /\ UmemOwner[held[p][k]] = OwnerAt(p, k, PostedCount)
         /\ UmemOwner'[held[p][k]] = OwnerAt(q, Len(held[q]) + 1, PostedCount')
<1> DEFINE m == Len(held[p])
           n == Len(held[q])
<1>1. /\ p \in Place /\ q \in Place /\ p # q /\ k \in 1 .. m
      /\ m \in Nat /\ n \in Nat /\ PostedCount \in Int
      /\ Len(held'[p]) = m - 1 /\ Len(held'[q]) = n + 1
  <2>1. /\ p \in Place /\ q \in Place /\ p # q /\ k \in 1 .. m
        /\ Len(held'[p]) = m - 1 /\ Len(held'[q]) = n + 1
    BY DEF Moved
  <2>2. m \in Nat /\ n \in Nat
    BY <2>1, Lengths
  <2>3. PostedCount \in Int
    BY Lengths DEF PostedCount, FillCount, Place
  <2> QED BY <2>1, <2>2, <2>3
<1>2. ASSUME NEW f \in Frame \ {held[p][k]} PROVE UmemOwner'[f] = UmemOwner[f]
  <2>1. PICK r \in Place : \E i \in 1 .. Len(held[r]) : held[r][i] = f
    BY SlotOf
  <2>2. PICK i \in 1 .. Len(held[r]) : held[r][i] = f
    BY <2>1
  <2>3. CASE r = p
    <3>1. i # k /\ i \in 1 .. m
      BY <1>2, <2>2, <2>3
    <3>2. CASE i < k
      <4>1. i \in 1 .. m - 1 /\ p # "fill"
        BY <1>1, <3>1, <3>2
      <4>2. held'[p][i] = f /\ i \in 1 .. Len(held'[p])
        BY <1>1, <2>2, <2>3, <3>2, <4>1 DEF Moved
      <4>3. OwnerAt(p, i, PostedCount') = OwnerAt(p, i, PostedCount)
        BY <4>1 DEF OwnerAt
      <4> QED BY <1>1, <2>2, <2>3, <4>2, <4>3, KeepsOwner
    <3>3. CASE i > k
      <4>1. i - 1 \in 1 .. m - 1 /\ ~(i - 1 < k) /\ (i - 1) + 1 = i
        BY <1>1, <3>1, <3>3
      <4>2. held'[p][i - 1] = f /\ i - 1 \in 1 .. Len(held'[p])
        BY <1>1, <2>2, <2>3, <4>1 DEF Moved
      <4>3. OwnerAt(p, i - 1, PostedCount') = OwnerAt(p, i, PostedCount)
        BY <1>1, <3>1 DEF OwnerAt
      <4> QED BY SMTT(60), <1>1, <2>2, <2>3, <4>2, <4>3, KeepsOwner
    <3>4. i \in Int /\ k \in Int
      BY <1>1, <3>1
    <3> QED BY <3>1, <3>2, <3>3, <3>4
  <2>4. CASE r = q
    <3>1. i \in 1 .. Len(held'[q]) /\ held'[q][i] = f
      BY <1>1, <2>2, <2>4 DEF Moved
    <3>2. OwnerAt(q, i, PostedCount') = OwnerAt(q, i, PostedCount)
      BY <1>1 DEF OwnerAt
    <3> QED BY <1>1, <2>2, <2>4, <3>1, <3>2, KeepsOwner
  <2>5. CASE r # p /\ r # q
    <3>1. held'[r] = held[r]
      BY <2>5 DEF Moved
    <3>2. OwnerAt(r, i, PostedCount') = OwnerAt(r, i, PostedCount)
      BY <2>5 DEF OwnerAt
    <3> QED BY <2>2, <3>1, <3>2, KeepsOwner
  <2> QED BY <2>3, <2>4, <2>5
<1>3. UmemOwner[held[p][k]] = OwnerAt(p, k, PostedCount)
  BY <1>1, OwnerOfSlot DEF OwnersKnown
<1>4. UmemOwner'[held[p][k]] = OwnerAt(q, n + 1, PostedCount')
  <2>1. n + 1 \in 1 .. Len(held'[q]) /\ held'[q][n + 1] = held[p][k]
    BY <1>1 DEF Moved
  <2> QED BY <1>1, <2>1, OwnerOfNextSlot DEF OwnersKnown
<1> QED BY <1>2, <1>3, <1>4

(* A frame that moves is given away, or not, as its two places say. *)
LEMMA GiveMoved ==
  ASSUME Frames, Frames', unsubmitted \in Nat, unsubmitted' \in Nat,
         NEW p, NEW k, NEW q, Moved(p, k, q), held[p][k] \in Frame,
         p = "fill" => k = 1,
         PostedCount' = IF p = "fill" THEN PostedCount - 1 ELSE PostedCount,
         NEW from, OwnerAt(p, k, PostedCount) = from,
         NEW to, OwnerAt(q, Len(held[q]) + 1, PostedCount') = to
  PROVE  /\ Umem!Give({held[p][k]}, from, to)
         /\ from = to => UmemOwner' = UmemOwner
<1> DEFINE g == held[p][k]
<1>1. /\ \A f \in Frame \ {g} : UmemOwner'[f] = UmemOwner[f]
      /\ UmemOwner[g] = from /\ UmemOwner'[g] = to
  BY MovedOwners
<1> HIDE DEF g
<1>2. UmemOwner' = [f \in Frame |-> IF f \in {g} THEN to ELSE UmemOwner[f]]
  BY <1>1, OwnerDomain
<1>3. from = to => UmemOwner' = UmemOwner
  BY <1>1, OwnerDomain
<1>4. Umem!Give({g}, from, to)
  BY <1>1, <1>2 DEF Umem!Give
<1> QED BY <1>3, <1>4 DEF g

(* The same for the oldest frame of a place other than the stack. *)
LEMMA GivePassed ==
  ASSUME Frames, Frames', unsubmitted \in Nat, unsubmitted' = unsubmitted,
         NEW p \in Place, NEW q \in Place \ {"fill"}, p # q, Pass(p, q),
         Head(held[p]) \in Frame, p = "fill" => PostedCount > 0,
         NEW from, OwnerAt(p, 1, PostedCount) = from,
         NEW to, \A n \in Int : OwnerAt(q, Len(held[q]) + 1, n) = to
  PROVE  /\ \E f \in Frame : Umem!Give({f}, from, to)
         /\ from = to => UmemOwner' = UmemOwner
<1>1. Moved(p, 1, q)
  BY PassMoves DEF Frames
<1>2. held[p][1] = Head(held[p])
  <2>1. held[p] \in Seq(Address) /\ held[p] # <<>>
    BY DEF Frames, HeldType, Pass
  <2> QED BY <2>1, TailFacts
<1>3. FillCount' = IF p = "fill" THEN FillCount - 1 ELSE FillCount
  BY <1>1 DEF Moved, FillCount, Place
<1>4. FillCount \in Nat
  BY Lengths DEF FillCount, Place
<1>5. /\ PostedCount' = IF p = "fill" THEN PostedCount - 1 ELSE PostedCount
      /\ PostedCount' \in Int
  BY <1>3, <1>4 DEF PostedCount
<1>6. OwnerAt(q, Len(held[q]) + 1, PostedCount') = to
  BY <1>5
<1>7. /\ held[p][1] \in Frame /\ unsubmitted' \in Nat
      /\ p = "fill" => 1 = 1
  BY <1>2
<1>8. Umem!Give({held[p][1]}, from, to) /\ (from = to => UmemOwner' = UmemOwner)
  BY <1>1, <1>5, <1>6, <1>7, GiveMoved
<1> QED BY <1>7, <1>8

(* A step that leaves every frame and the submitted slots as they are. *)
LEMMA NothingGiven ==
  ASSUME held' = held, unsubmitted' = unsubmitted
  PROVE  UmemOwner' = UmemOwner
BY DEF UmemOwner, Posted, IsAt, FillCount

(* Submitting the FILL slots gives away the frames in them. *)
LEMMA SubmitPosts ==
  ASSUME Frames, unsubmitted \in Nat, unsubmitted <= FillCount, held' = held, unsubmitted' = 0
  PROVE  Umem!Post
<1>1. Frames' /\ unsubmitted' \in Nat /\ FillCount' = FillCount /\ FillCount \in Nat
  BY HeldUnchanged, Lengths DEF FillCount, Place
<1>2. PostedCount \in Int /\ PostedCount' = FillCount /\ PostedCount <= FillCount
  BY <1>1 DEF PostedCount
<1> DEFINE S == {f \in Frame : UmemOwner'[f] # UmemOwner[f]}
<1>3. ASSUME NEW f \in S PROVE UmemOwner[f] = "app" /\ UmemOwner'[f] = "fill"
  <2>1. PICK r \in Place : \E i \in 1 .. Len(held[r]) : held[r][i] = f
    BY SlotOf
  <2>2. PICK i \in 1 .. Len(held[r]) : held[r][i] = f
    BY <2>1
  <2>3. UmemOwner[f] = OwnerAt(r, i, PostedCount)
    BY <2>2, OwnerOfSlot DEF OwnersKnown
  <2>4. UmemOwner'[f] = OwnerAt(r, i, PostedCount')
    <3>1. held'[r][i] = f /\ i \in 1 .. Len(held'[r])
      BY <2>2
    <3> QED BY <1>1, <3>1, OwnerOfNextSlot DEF OwnersKnown
  <2>5. r = "fill"
    BY <1>3, <2>3, <2>4 DEF OwnerAt
  <2>6. i \in 1 .. FillCount
    BY <2>5 DEF FillCount
  <2> QED BY <1>2, <1>3, <2>3, <2>4, <2>5, <2>6 DEF OwnerAt
<1>4. UmemOwner' = [f \in Frame |-> IF f \in S THEN "fill" ELSE UmemOwner[f]]
  BY <1>3, OwnerDomain
<1>5. Umem!Give(S, "app", "fill")
  BY <1>3, <1>4 DEF Umem!Give
<1> QED BY <1>5 DEF Umem!Post

(* Skipping an invalid address gives no frame away. *)
LEMMA SkipGivesNothing ==
  ASSUME Frames, Frames', SkipFill, held["fill"] # <<>>, Head(held["fill"]) \notin Frame,
         unsubmitted \in Nat, unsubmitted' = unsubmitted
  PROVE  UmemOwner' = UmemOwner
<1> DEFINE t == held["fill"]
<1>1. t \in Seq(Address)
  BY DEF Frames, HeldType, Place
<1>2. /\ Len(t) \in Nat \ {0} /\ Head(t) = t[1] /\ Len(Tail(t)) = Len(t) - 1
      /\ \A i \in 1 .. Len(t) - 1 : Tail(t)[i] = t[i + 1]
  BY <1>1, TailFacts
<1>3. held'["fill"] = Tail(t) /\ \A r \in Place \ {"fill"} : held'[r] = held[r]
  BY DEF SkipFill, Frames, HeldType, Place
<1>4. PostedCount \in Int /\ PostedCount' = PostedCount - 1
  BY <1>2, <1>3 DEF PostedCount, FillCount
<1>5. ASSUME NEW f \in Frame PROVE UmemOwner'[f] = UmemOwner[f]
  <2>1. PICK r \in Place : \E i \in 1 .. Len(held[r]) : held[r][i] = f
    BY SlotOf
  <2>2. PICK i \in 1 .. Len(held[r]) : held[r][i] = f
    BY <2>1
  <2>3. CASE r = "fill"
    <3>1. i # 1
      BY <1>2, <2>2, <2>3
    <3>2. i - 1 \in 1 .. Len(t) - 1 /\ (i - 1) + 1 = i
      BY <1>2, <2>2, <2>3, <3>1
    <3>3. i - 1 \in 1 .. Len(held'[r]) /\ held'[r][i - 1] = f
      BY <1>2, <1>3, <2>2, <2>3, <3>2
    <3>4. OwnerAt(r, i - 1, PostedCount') = OwnerAt(r, i, PostedCount)
      BY <1>4, <2>3, <3>2 DEF OwnerAt
    <3> QED BY <2>2, <3>3, <3>4, KeepsOwner
  <2>4. CASE r # "fill"
    <3>1. held'[r] = held[r]
      BY <1>3, <2>4
    <3>2. OwnerAt(r, i, PostedCount') = OwnerAt(r, i, PostedCount)
      BY <2>4 DEF OwnerAt
    <3> QED BY <2>2, <3>1, <3>2, KeepsOwner
  <2> QED BY <2>3, <2>4
<1> QED BY <1>5, OwnerDomain

(* Stocking a FILL slot gives nothing away before the slot is submitted. *)
LEMMA StockGivesNothing ==
  ASSUME Frames, Frames', xsk_alloc_umem_frame,
         unsubmitted \in Nat, unsubmitted' = unsubmitted + 1, unsubmitted <= FillCount
  PROVE  UmemOwner' = UmemOwner
<1>1. /\ FillCount \in Nat /\ FillCount' = FillCount + 1
      /\ PostedCount \in Int /\ PostedCount' = PostedCount /\ PostedCount <= FillCount
  BY AllocStep, Lengths DEF FillCount, PostedCount, Place
<1>2. CASE held["free"] # <<>>
  <2>1. Moved("free", Len(held["free"]), "fill")
    BY <1>2, AllocMoves DEF Frames
  <2>2. held["free"][Len(held["free"])] \in Frame
    BY SMTT(60), <1>2 DEF Frames, HeldType, Place
  <2>3. /\ OwnerAt("free", Len(held["free"]), PostedCount) = "app"
        /\ OwnerAt("fill", Len(held["fill"]) + 1, PostedCount') = "app"
    BY <1>1 DEF OwnerAt, FillCount
  <2>4. unsubmitted' \in Nat
    OBVIOUS
  <2> QED BY <1>1, <2>1, <2>2, <2>3, <2>4, GiveMoved
<1>3. CASE held["free"] = <<>>
  <2> DEFINE t == held["fill"]
  <2>1. t \in Seq(Address) /\ INVALID_UMEM_FRAME \in Address
    BY DEF Frames, HeldType, Place, Address
  <2>2. /\ held'["fill"] = Append(t, INVALID_UMEM_FRAME)
        /\ \A r \in Place \ {"fill"} : held'[r] = held[r]
    BY <1>3 DEF xsk_alloc_umem_frame, Frames, HeldType, Place
  <2>3. ASSUME NEW f \in Frame PROVE UmemOwner'[f] = UmemOwner[f]
    <3>1. PICK r \in Place : \E i \in 1 .. Len(held[r]) : held[r][i] = f
      BY SlotOf
    <3>2. PICK i \in 1 .. Len(held[r]) : held[r][i] = f
      BY <3>1
    <3>3. i \in 1 .. Len(held'[r]) /\ held'[r][i] = f
      <4>1. CASE r = "fill"
        <5>1. Len(held'["fill"]) = Len(t) + 1 /\ Append(t, INVALID_UMEM_FRAME)[i] = t[i]
          BY <2>1, <2>2, <3>2, <4>1, AppendFacts
        <5>2. Len(t) \in Nat
          BY <2>1
        <5> QED BY SMTT(60), <2>2, <3>2, <4>1, <5>1, <5>2
      <4>2. CASE r # "fill"
        BY <2>2, <3>2, <4>2
      <4> QED BY <4>1, <4>2
    <3>4. OwnerAt(r, i, PostedCount') = OwnerAt(r, i, PostedCount)
      BY <1>1 DEF OwnerAt
    <3>5. unsubmitted' \in Nat
      OBVIOUS
    <3> QED BY <3>2, <3>3, <3>4, <3>5, KeepsOwner
  <2> QED BY <2>3, OwnerDomain
<1> QED BY <1>2, <1>3

-----------------------------------------------------------------------------
LEMMA InitMapped == Init => Umem!Init
<1> SUFFICES ASSUME Init PROVE Umem!Init
  OBVIOUS
<1>1. \A p \in Place \ {"free"} : held[p] = <<>>
  BY DEF Init, Place
<1>2. unsubmitted = 0
  BY DEF Init
<1>3. ASSUME NEW f \in Frame PROVE UmemOwner[f] = "app"
  <2>1. \A p \in Place \ {"free"} : ~IsAt(f, p)
    BY <1>1 DEF IsAt
  <2>2. FillCount - unsubmitted = 0
    BY <1>1, <1>2 DEF FillCount, Place
  <2>3. ~Posted(f)
    BY <2>1, <2>2 DEF Posted, Place
  <2>4. /\ ~IsAt(f, "rx") /\ ~IsAt(f, "tx") /\ ~IsAt(f, "flight") /\ ~IsAt(f, "cq")
    BY <2>1 DEF Place
  <2> QED BY <2>3, <2>4 DEF UmemOwner
<1>4. UmemOwner = [f \in Frame |-> "app"]
  BY <1>3, OwnerDomain
<1> QED BY <1>4 DEF Umem!Init

(* Every step is a step of UmemOwnership or leaves every owner alone. *)
LEMMA NextMapped == Inv /\ Inv' /\ [Next]_vars => [Umem!Next]_UmemOwner
<1> SUFFICES ASSUME Inv, Inv', [Next]_vars
             PROVE  Umem!Next \/ UmemOwner' = UmemOwner
  OBVIOUS
<1>a. Frames /\ Frames' /\ unsubmitted \in Nat /\ unsubmitted <= FillCount
  BY InvHalves, InvHalvesNext DEF Counters, CounterType, NoRingUnderrun
<1> USE DEF fqVars, rxVars, txVars, reapVars, kernelUnchanged
<1>1. CASE StockFrame
  BY <1>1, <1>a, StockGivesNothing DEF StockFrame
<1>2. CASE SubmitFill
  <2>1. Umem!Post
    BY <1>2, <1>a, SubmitPosts DEF SubmitFill
  <2> QED BY <2>1 DEF Umem!Next
<1>3. CASE TestExit
  BY <1>3, NothingGiven DEF TestExit
<1>4. CASE CallPoll
  BY <1>4, NothingGiven DEF CallPoll
<1>5. CASE PollReturns
  BY <1>5, NothingGiven DEF PollReturns
<1>6. CASE PeekRx
  BY <1>6, NothingGiven DEF PeekRx
<1>7. CASE ReserveFill
  BY <1>7, NothingGiven DEF ReserveFill
<1>8. CASE ReplyToPacket
  <2>1. Pass("rx", "tx") /\ unsubmitted' = unsubmitted
    BY <1>8 DEF ReplyToPacket
  <2>2. Head(held["rx"]) \in Frame
    BY <1>a, <2>1, HeadIsFrame DEF Pass, Place
  <2>3. /\ OwnerAt("rx", 1, PostedCount) = "rx"
        /\ \A n \in Int : OwnerAt("tx", Len(held["tx"]) + 1, n) = "tx"
    BY <2>2 DEF OwnerAt, PostedCount
  <2>4. \E f \in Frame : Umem!Give({f}, "rx", "tx")
    BY <1>a, <2>1, <2>2, <2>3, GivePassed DEF Place
  <2> QED BY <2>4 DEF Umem!Next, Umem!Reply
<1>9. CASE DropPacket
  <2>1. Pass("rx", "free") /\ unsubmitted' = unsubmitted
    BY <1>9 DEF DropPacket, xsk_free_umem_frame
  <2>2. Head(held["rx"]) \in Frame
    BY <1>a, <2>1, HeadIsFrame DEF Pass, Place
  <2>3. /\ OwnerAt("rx", 1, PostedCount) = "rx"
        /\ \A n \in Int : OwnerAt("free", Len(held["free"]) + 1, n) = "app"
    BY <2>2 DEF OwnerAt, PostedCount
  <2>4. \E f \in Frame : Umem!Give({f}, "rx", "app")
    BY <1>a, <2>1, <2>2, <2>3, GivePassed DEF Place
  <2> QED BY <2>4 DEF Umem!Next, Umem!Discard
<1>10. CASE ReleaseRx
  BY <1>10, NothingGiven DEF ReleaseRx
<1>11. CASE KickTx
  BY <1>11, NothingGiven DEF KickTx
<1>12. CASE PeekCompletions
  BY <1>12, NothingGiven DEF PeekCompletions
<1>13. CASE ReapCompletion
  <2>1. Pass("cq", "free") /\ unsubmitted' = unsubmitted
    BY <1>13 DEF ReapCompletion, xsk_free_umem_frame
  <2>2. Head(held["cq"]) \in Frame
    BY <1>a, <2>1, HeadIsFrame DEF Pass, Place
  <2>3. /\ OwnerAt("cq", 1, PostedCount) = "comp"
        /\ \A n \in Int : OwnerAt("free", Len(held["free"]) + 1, n) = "app"
    BY <2>2 DEF OwnerAt, PostedCount
  <2>4. \E f \in Frame : Umem!Give({f}, "comp", "app")
    BY <1>a, <2>1, <2>2, <2>3, GivePassed DEF Place
  <2> QED BY <2>4 DEF Umem!Next, Umem!Reap
<1>14. CASE ReleaseCompletions
  BY <1>14, NothingGiven DEF ReleaseCompletions
<1>15. CASE exit_application
  BY <1>15, NothingGiven DEF exit_application
<1>16. CASE KernelSkipsInvalid
  <2>1. /\ SkipFill /\ unsubmitted' = unsubmitted /\ FillCount > unsubmitted
        /\ Head(held["fill"]) = INVALID_UMEM_FRAME
    BY <1>16 DEF KernelSkipsInvalid, FillAvailable, SkipFill
  <2>2. FillCount # 0 /\ INVALID_UMEM_FRAME \notin Frame
    BY <1>a, <2>1, ConstantSizes DEF INVALID_UMEM_FRAME, Frame
  <2>3. held["fill"] # <<>>
    BY <2>2 DEF FillCount
  <2> QED BY <1>a, <2>1, <2>2, <2>3, SkipGivesNothing
<1>17. CASE KernelCopiesPacket
  <2>1. Pass("fill", "rx") /\ unsubmitted' = unsubmitted
    BY <1>17 DEF KernelCopiesPacket
  <2>2. Head(held["fill"]) \in Frame /\ PostedCount > 0
    <3>1. FillCount > unsubmitted /\ Head(held["fill"]) \in Frame
      BY <1>17 DEF KernelCopiesPacket, FillAvailable
    <3>2. FillCount \in Nat
      BY <1>a, Lengths DEF FillCount, Place
    <3> QED BY <1>a, <3>1, <3>2 DEF PostedCount
  <2>3. /\ OwnerAt("fill", 1, PostedCount) = "fill"
        /\ \A n \in Int : OwnerAt("rx", Len(held["rx"]) + 1, n) = "rx"
    <3>1. PostedCount \in Int
      BY <1>a, Lengths DEF PostedCount, FillCount, Place
    <3> QED BY <2>2, <3>1 DEF OwnerAt
  <2>4. \E f \in Frame : Umem!Give({f}, "fill", "rx")
    BY <1>a, <2>1, <2>2, <2>3, GivePassed DEF Place
  <2> QED BY <2>4 DEF Umem!Next, Umem!Receive
<1>18. CASE DriverPostsBuffer
  <2>1. Pass("fill", "hw") /\ unsubmitted' = unsubmitted
    BY <1>18 DEF DriverPostsBuffer
  <2>2. Head(held["fill"]) \in Frame /\ PostedCount > 0
    <3>1. FillCount > unsubmitted /\ Head(held["fill"]) \in Frame
      BY <1>18 DEF DriverPostsBuffer, FillAvailable
    <3>2. FillCount \in Nat
      BY <1>a, Lengths DEF FillCount, Place
    <3> QED BY <1>a, <3>1, <3>2 DEF PostedCount
  <2>3. /\ OwnerAt("fill", 1, PostedCount) = "fill"
        /\ \A n \in Int : OwnerAt("hw", Len(held["hw"]) + 1, n) = "fill"
    <3>1. PostedCount \in Int
      BY <1>a, Lengths DEF PostedCount, FillCount, Place
    <3> QED BY <2>2, <3>1 DEF OwnerAt
  <2> QED BY <1>a, <2>1, <2>2, <2>3, GivePassed DEF Place
<1>19. CASE DriverDeliversPacket
  <2>1. Pass("hw", "rx") /\ unsubmitted' = unsubmitted
    BY <1>19 DEF DriverDeliversPacket
  <2>2. Head(held["hw"]) \in Frame
    BY <1>a, <2>1, HeadIsFrame DEF Pass, Place
  <2>3. /\ OwnerAt("hw", 1, PostedCount) = "fill"
        /\ \A n \in Int : OwnerAt("rx", Len(held["rx"]) + 1, n) = "rx"
    BY <2>2 DEF OwnerAt, PostedCount
  <2>4. \E f \in Frame : Umem!Give({f}, "fill", "rx")
    BY <1>a, <2>1, <2>2, <2>3, GivePassed DEF Place
  <2> QED BY <2>4 DEF Umem!Next, Umem!Receive
<1>20. CASE KernelSends
  <2>1. Pass("tx", "flight") /\ unsubmitted' = unsubmitted
    BY <1>20 DEF KernelSends
  <2>2. Head(held["tx"]) \in Frame
    BY <1>a, <2>1, HeadIsFrame DEF Pass, Place
  <2>3. /\ OwnerAt("tx", 1, PostedCount) = "tx"
        /\ \A n \in Int : OwnerAt("flight", Len(held["flight"]) + 1, n) = "tx"
    BY <2>2 DEF OwnerAt, PostedCount
  <2> QED BY <1>a, <2>1, <2>2, <2>3, GivePassed DEF Place
<1>21. CASE KernelCompletes
  <2>1. Pass("flight", "cq") /\ unsubmitted' = unsubmitted
    BY <1>21 DEF KernelCompletes
  <2>2. Head(held["flight"]) \in Frame
    BY <1>a, <2>1, HeadIsFrame DEF Pass, Place
  <2>3. /\ OwnerAt("flight", 1, PostedCount) = "tx"
        /\ \A n \in Int : OwnerAt("cq", Len(held["cq"]) + 1, n) = "comp"
    BY <2>2 DEF OwnerAt, PostedCount
  <2>4. \E f \in Frame : Umem!Give({f}, "tx", "comp")
    BY <1>a, <2>1, <2>2, <2>3, GivePassed DEF Place
  <2> QED BY <2>4 DEF Umem!Next, Umem!Complete
<1>22. CASE UNCHANGED vars
  BY <1>22, NothingGiven DEF vars
<1> QED
  BY <1>1, <1>2, <1>3, <1>4, <1>5, <1>6, <1>7, <1>8, <1>9, <1>10, <1>11, <1>12, <1>13,
     <1>14, <1>15, <1>16, <1>17, <1>18, <1>19, <1>20, <1>21, <1>22
     DEF Next, Thread, Receiving

(* The program, the kernel and the driver together implement the transfer of
   frames: no frame is used by one side while the other owns it. *)
THEOREM ImplementsOwnership == Spec => FramesChangeHands
<1>1. Init => Umem!Init
  BY InitMapped
<1>2. Inv /\ Inv' /\ [Next]_vars => [Umem!Next]_UmemOwner
  BY NextMapped
<1> QED BY <1>1, <1>2, InvHolds, PTL DEF Spec, FramesChangeHands, Umem!Spec
=============================================================================
