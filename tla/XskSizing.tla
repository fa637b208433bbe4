---------------------------- MODULE XskSizing ----------------------------
(***************************************************************************)
(* How many frames the AF_XDP program needs.  It asks the FILL ring, not   *)
(* its stack of free frames, how many slots to stock, and it stocks them   *)
(* only after a packet has been received; both are sound when the UMEM     *)
(* area has a frame for every slot in which one can be away from the stack *)
(* and from FILL.  4096 frames and rings of 2048 are exactly enough as     *)
(* long as no reply is sent and the driver keeps no receive buffers.       *)
(***************************************************************************)
EXTENDS XskSocketProofs

EnoughFrames ==
  NUM_FRAMES >= RING_SIZE + RING_SIZE + HwDepth
                + (IF ReplyEnabled THEN RING_SIZE + RING_SIZE ELSE 0)

ValidFill == held["fill"] \in Seq(Frame)

(* Every frame is counted once, so FILL can always be stocked to the brim;
   the receive path then has a frame for every slot of FILL, besides those of
   the batch in hand. *)
SizeInv ==
  /\ FreeCount + FillCount + HwCount + RxCount + TxCount + FlightCount + CqCount
       = NUM_FRAMES
  /\ HwCount <= HwDepth
  /\ ~ReplyEnabled => TxCount = 0 /\ FlightCount = 0 /\ CqCount = 0
  /\ fq_free = 0
  /\ pc = "alloc" => to_stock <= FreeCount
  /\ pc # "stock" => FillCount + to_stock + HwCount + RxCount + handled >= RING_SIZE + rcvd

LEMMA PassKeepsFill ==
  ASSUME Frames, ValidFill, NEW p \in Place, NEW q \in Place \ {"fill"}, Pass(p, q)
  PROVE  ValidFill'
<1>1. held["fill"] \in Seq(Frame) /\ held[p] # <<>>
  BY DEF ValidFill, Pass
<1>2. CASE p = "fill"
  <2>1. held'["fill"] = Tail(held["fill"])
    BY <1>2 DEF Pass, Frames, HeldType, Place
  <2> QED BY <1>1, <1>2, <2>1, TailFacts DEF ValidFill
<1>3. CASE p # "fill"
  <2>1. held'["fill"] = held["fill"]
    BY <1>3 DEF Pass, Frames, HeldType, Place
  <2> QED BY <1>1, <2>1 DEF ValidFill
<1> QED BY <1>2, <1>3

LEMMA AllocKeepsFill ==
  ASSUME Frames, ValidFill, xsk_alloc_umem_frame, FreeCount # 0
  PROVE  ValidFill' /\ held["free"] # <<>>
<1> DEFINE s == held["free"]
<1>1. s \in Seq(Frame) /\ held["fill"] \in Seq(Frame) /\ Len(s) # 0
  BY DEF Frames, HeldType, Place, ValidFill, FreeCount
<1>2. s # <<>> /\ s[Len(s)] \in Frame
  BY <1>1
<1>3. held'["fill"] = Append(held["fill"], s[Len(s)])
  BY <1>1 DEF xsk_alloc_umem_frame, Frames, HeldType, Place
<1> QED BY <1>1, <1>2, <1>3, AppendFacts DEF ValidFill

LEMMA InitSizes == Init /\ EnoughFrames => SizeInv /\ ValidFill
<1> SUFFICES ASSUME Init, EnoughFrames PROVE SizeInv /\ ValidFill
  OBVIOUS
<1> DEFINE all == [i \in 1 .. NUM_FRAMES |-> i - 1]
<1>1. all \in Seq(Frame) /\ Len(all) = NUM_FRAMES
  BY ConstantSizes DEF Frame
<1>2. held["free"] = all /\ \A p \in Place \ {"free"} : held[p] = <<>>
  BY DEF Init, Place
<1> HIDE DEF all
<1>3. /\ FreeCount = NUM_FRAMES /\ FillCount = 0 /\ HwCount = 0 /\ RxCount = 0
      /\ TxCount = 0 /\ FlightCount = 0 /\ CqCount = 0
  BY <1>1, <1>2 DEF Place, FreeCount, FillCount, HwCount, RxCount, TxCount, FlightCount,
     CqCount
<1>4. /\ to_stock = RING_SIZE /\ fq_free = 0 /\ rcvd = 0 /\ handled = 0 /\ pc = "alloc"
  BY DEF Init
<1>5. ValidFill
  BY <1>2, EmptySeq DEF Place, ValidFill
<1>6. SizeInv
  BY <1>3, <1>4, ConstantSizes DEF SizeInv
<1> QED BY <1>5, <1>6

(* Every step keeps the count; the frames it moves are counted as before. *)
LEMMA NextKeepsSizes ==
  Inv /\ Inv' /\ EnoughFrames /\ SizeInv /\ ValidFill /\ [Next]_vars => SizeInv' /\ ValidFill'
<1> SUFFICES ASSUME Inv, Inv', EnoughFrames, SizeInv, ValidFill, [Next]_vars
             PROVE  SizeInv' /\ ValidFill'
  OBVIOUS
<1>a. Frames /\ Counters
  BY InvHalves
<1>b. /\ FreeCount \in Nat /\ FillCount \in Nat /\ HwCount \in Nat /\ RxCount \in Nat
      /\ TxCount \in Nat /\ FlightCount \in Nat /\ CqCount \in Nat
      /\ unsubmitted \in Nat /\ to_stock \in Nat /\ rcvd \in Nat /\ handled \in Nat
      /\ handled <= rcvd /\ reaped \in Nat
  BY <1>a, CounterFacts DEF Counters, CounterType
<1>c. /\ RING_SIZE \in Nat \ {0} /\ HwDepth \in Nat /\ ReplyEnabled \in BOOLEAN
  BY ConstantSizes, ModesAssumption
<1>d. /\ (pc # "alloc" => to_stock = 0) /\ (pc # "process" => handled = 0)
      /\ (pc \notin {"stock", "alloc", "process"} => rcvd = 0)
  BY <1>a DEF Counters, ThreadState
<1> USE <1>b, <1>c, <1>d DEF fqVars, rxVars, txVars, reapVars, kernelUnchanged
<1>same. ASSUME held' = held
         PROVE  /\ FreeCount' = FreeCount /\ FillCount' = FillCount /\ HwCount' = HwCount
                /\ RxCount' = RxCount /\ TxCount' = TxCount /\ FlightCount' = FlightCount
                /\ CqCount' = CqCount
                /\ ValidFill'
  BY <1>same DEF ValidFill, FreeCount, FillCount, HwCount, RxCount, TxCount, FlightCount,
     CqCount
<1>1. CASE StockFrame
  <2>1. xsk_alloc_umem_frame /\ FreeCount # 0
    BY <1>1 DEF StockFrame, SizeInv
  <2>2. ValidFill' /\ held["free"] # <<>>
    BY <1>a, <2>1, AllocKeepsFill
  <2>3. /\ FillCount' = FillCount + 1 /\ FreeCount' = FreeCount - 1
        /\ HwCount' = HwCount /\ RxCount' = RxCount /\ TxCount' = TxCount
        /\ FlightCount' = FlightCount /\ CqCount' = CqCount
    BY <1>a, <2>1, <2>2, AllocStep DEF Place, FreeCount, FillCount, HwCount,
       RxCount, TxCount, FlightCount, CqCount
  <2>4. SizeInv'
    BY <1>1, <2>3 DEF StockFrame, SizeInv
  <2> QED BY <2>2, <2>4
<1>2. CASE SubmitFill
  <2>1. held' = held
    BY <1>2 DEF SubmitFill
  <2>2. SizeInv'
    BY <1>2, <1>same, <2>1 DEF SubmitFill, SizeInv
  <2> QED BY <1>same, <2>1, <2>2
<1>3. CASE TestExit
  <2>1. held' = held
    BY <1>3 DEF TestExit
  <2>2. SizeInv'
    BY <1>3, <1>same, <2>1 DEF TestExit, SizeInv
  <2> QED BY <1>same, <2>1, <2>2
<1>4. CASE CallPoll
  <2>1. held' = held
    BY <1>4 DEF CallPoll
  <2>2. SizeInv'
    BY <1>4, <1>same, <2>1 DEF CallPoll, SizeInv
  <2> QED BY <1>same, <2>1, <2>2
<1>5. CASE PollReturns
  <2>1. held' = held
    BY <1>5 DEF PollReturns
  <2>2. SizeInv'
    BY <1>5, <1>same, <2>1 DEF PollReturns, SizeInv
  <2> QED BY <1>same, <2>1, <2>2
<1>6. CASE PeekRx
  <2>1. held' = held
    BY <1>6 DEF PeekRx
  <2>2. SizeInv'
    BY <1>6, <1>same, <2>1 DEF PeekRx, SizeInv
  <2> QED BY <1>same, <2>1, <2>2
<1>7. CASE ReserveFill
  <2> DEFINE stock == IF FreeCount = 0 THEN 0 ELSE RING_SIZE - FillCount
  <2>1. RxSlotsUsed \in Nat /\ RxCount <= RING_SIZE /\ TxCount <= RING_SIZE
        /\ FlightCount + CqCount <= RING_SIZE /\ FillCount <= RING_SIZE /\ rcvd <= RxCount
    BY <1>7, <1>a DEF ReserveFill, SizeInv, Counters, CounterType, NoRingOverrun,
       NoRingUnderrun, RxSlotsUsed, CqSlotsUsed
  <2>2. stock \in Nat /\ xsk_prod_nb_free(fq_free, FreeCount) = stock
    BY <2>1 DEF SizeInv, xsk_prod_nb_free
  <2>3. xsk_prod_nb_free(stock, stock) = stock
    BY <2>2 DEF xsk_prod_nb_free
  <2> HIDE DEF stock
  <2>4. /\ to_stock' = stock /\ fq_free' = stock - stock /\ pc' \in {"process", "alloc"}
        /\ rcvd' = rcvd /\ handled' = handled /\ held' = held
    BY <1>7, <2>2, <2>3 DEF ReserveFill
  <2>5. stock <= FreeCount /\ FillCount + stock + HwCount + RxCount >= RING_SIZE + rcvd
    BY <2>1 DEF stock, EnoughFrames, SizeInv
  <2>6. SizeInv'
    BY <1>7, <1>same, <2>2, <2>4, <2>5 DEF SizeInv
  <2> QED BY <1>same, <2>4, <2>6
<1>8. CASE ReplyToPacket
  <2>1. Pass("rx", "tx")
    BY <1>8 DEF ReplyToPacket
  <2>2. Head(held["rx"]) \in Frame
    BY <1>8, <1>a, <2>1, HeadIsFrame DEF Pass, Place
  <2>3. /\ RxCount >= 1
        /\ FreeCount' = FreeCount
        /\ FillCount' = FillCount
        /\ HwCount' = HwCount
        /\ RxCount' = RxCount - 1
        /\ TxCount' = TxCount + 1
        /\ FlightCount' = FlightCount
        /\ CqCount' = CqCount
    BY <1>a, <2>1, <2>2, PassStep DEF Place, FreeCount, FillCount, HwCount,
       RxCount, TxCount, FlightCount, CqCount
  <2>4. ValidFill'
    BY <1>a, <2>1, PassKeepsFill DEF Place
  <2>5. SizeInv'
    BY <1>8, <2>3 DEF ReplyToPacket, SizeInv
  <2> QED BY <2>4, <2>5
<1>9. CASE DropPacket
  <2>1. Pass("rx", "free")
    BY <1>9 DEF DropPacket, xsk_free_umem_frame
  <2>2. Head(held["rx"]) \in Frame
    BY <1>9, <1>a, <2>1, HeadIsFrame DEF Pass, Place
  <2>3. /\ RxCount >= 1
        /\ FreeCount' = FreeCount + 1
        /\ FillCount' = FillCount
        /\ HwCount' = HwCount
        /\ RxCount' = RxCount - 1
        /\ TxCount' = TxCount
        /\ FlightCount' = FlightCount
        /\ CqCount' = CqCount
    BY <1>a, <2>1, <2>2, PassStep DEF Place, FreeCount, FillCount, HwCount,
       RxCount, TxCount, FlightCount, CqCount
  <2>4. ValidFill'
    BY <1>a, <2>1, PassKeepsFill DEF Place
  <2>5. SizeInv'
    BY <1>9, <2>3 DEF DropPacket, SizeInv
  <2> QED BY <2>4, <2>5
<1>10. CASE ReleaseRx
  <2>1. held' = held
    BY <1>10 DEF ReleaseRx
  <2>2. SizeInv'
    BY <1>10, <1>same, <2>1 DEF ReleaseRx, SizeInv
  <2> QED BY <1>same, <2>1, <2>2
<1>11. CASE KickTx
  <2>1. held' = held
    BY <1>11 DEF KickTx
  <2>2. SizeInv'
    BY <1>11, <1>same, <2>1 DEF KickTx, SizeInv
  <2> QED BY <1>same, <2>1, <2>2
<1>12. CASE PeekCompletions
  <2>1. held' = held
    BY <1>12 DEF PeekCompletions
  <2>2. SizeInv'
    BY <1>12, <1>same, <2>1 DEF PeekCompletions, SizeInv
  <2> QED BY <1>same, <2>1, <2>2
<1>13. CASE ReapCompletion
  <2>1. Pass("cq", "free")
    BY <1>13 DEF ReapCompletion, xsk_free_umem_frame
  <2>2. Head(held["cq"]) \in Frame
    BY <1>13, <1>a, <2>1, HeadIsFrame DEF Pass, Place
  <2>3. /\ CqCount >= 1
        /\ FreeCount' = FreeCount + 1
        /\ FillCount' = FillCount
        /\ HwCount' = HwCount
        /\ RxCount' = RxCount
        /\ TxCount' = TxCount
        /\ FlightCount' = FlightCount
        /\ CqCount' = CqCount - 1
    BY <1>a, <2>1, <2>2, PassStep DEF Place, FreeCount, FillCount, HwCount,
       RxCount, TxCount, FlightCount, CqCount
  <2>4. ValidFill'
    BY <1>a, <2>1, PassKeepsFill DEF Place
  <2>5. SizeInv'
    BY <1>13, <2>3 DEF ReapCompletion, SizeInv
  <2> QED BY <2>4, <2>5
<1>14. CASE ReleaseCompletions
  <2>1. held' = held
    BY <1>14 DEF ReleaseCompletions
  <2>2. SizeInv'
    BY <1>14, <1>same, <2>1 DEF ReleaseCompletions, SizeInv
  <2> QED BY <1>same, <2>1, <2>2
<1>15. CASE exit_application
  <2>1. held' = held
    BY <1>15 DEF exit_application
  <2>2. SizeInv'
    BY <1>15, <1>same, <2>1 DEF exit_application, SizeInv
  <2> QED BY <1>same, <2>1, <2>2
<1>16. CASE KernelSkipsInvalid
  <2>1. FillCount # 0 /\ Head(held["fill"]) = INVALID_UMEM_FRAME
    BY <1>16 DEF KernelSkipsInvalid, FillAvailable
  <2>2. held["fill"] \in Seq(Frame) /\ held["fill"] # <<>>
    BY <2>1 DEF ValidFill, FillCount
  <2>3. INVALID_UMEM_FRAME \in Frame
    BY <2>1, <2>2, TailFacts
  <2> QED BY <2>3, ConstantSizes DEF INVALID_UMEM_FRAME, Frame
<1>17. CASE KernelCopiesPacket
  <2>1. Pass("fill", "rx")
    BY <1>17 DEF KernelCopiesPacket
  <2>2. Head(held["fill"]) \in Frame
    BY <1>17 DEF KernelCopiesPacket, FillAvailable
  <2>3. /\ FillCount >= 1
        /\ FreeCount' = FreeCount
        /\ FillCount' = FillCount - 1
        /\ HwCount' = HwCount
        /\ RxCount' = RxCount + 1
        /\ TxCount' = TxCount
        /\ FlightCount' = FlightCount
        /\ CqCount' = CqCount
    BY <1>a, <2>1, <2>2, PassStep DEF Place, FreeCount, FillCount, HwCount,
       RxCount, TxCount, FlightCount, CqCount
  <2>4. ValidFill'
    BY <1>a, <2>1, PassKeepsFill DEF Place
  <2>5. SizeInv'
    BY <1>17, <2>3 DEF KernelCopiesPacket, SizeInv
  <2> QED BY <2>4, <2>5
<1>18. CASE DriverPostsBuffer
  <2>1. Pass("fill", "hw")
    BY <1>18 DEF DriverPostsBuffer
  <2>2. Head(held["fill"]) \in Frame
    BY <1>18 DEF DriverPostsBuffer, FillAvailable
  <2>3. /\ FillCount >= 1
        /\ FreeCount' = FreeCount
        /\ FillCount' = FillCount - 1
        /\ HwCount' = HwCount + 1
        /\ RxCount' = RxCount
        /\ TxCount' = TxCount
        /\ FlightCount' = FlightCount
        /\ CqCount' = CqCount
    BY <1>a, <2>1, <2>2, PassStep DEF Place, FreeCount, FillCount, HwCount,
       RxCount, TxCount, FlightCount, CqCount
  <2>4. ValidFill'
    BY <1>a, <2>1, PassKeepsFill DEF Place
  <2>5. SizeInv'
    BY <1>18, <2>3 DEF DriverPostsBuffer, SizeInv
  <2> QED BY <2>4, <2>5
<1>19. CASE DriverDeliversPacket
  <2>1. Pass("hw", "rx")
    BY <1>19 DEF DriverDeliversPacket
  <2>2. Head(held["hw"]) \in Frame
    BY <1>19, <1>a, <2>1, HeadIsFrame DEF Pass, Place
  <2>3. /\ HwCount >= 1
        /\ FreeCount' = FreeCount
        /\ FillCount' = FillCount
        /\ HwCount' = HwCount - 1
        /\ RxCount' = RxCount + 1
        /\ TxCount' = TxCount
        /\ FlightCount' = FlightCount
        /\ CqCount' = CqCount
    BY <1>a, <2>1, <2>2, PassStep DEF Place, FreeCount, FillCount, HwCount,
       RxCount, TxCount, FlightCount, CqCount
  <2>4. ValidFill'
    BY <1>a, <2>1, PassKeepsFill DEF Place
  <2>5. SizeInv'
    BY <1>19, <2>3 DEF DriverDeliversPacket, SizeInv
  <2> QED BY <2>4, <2>5
<1>20. CASE KernelSends
  <2>1. Pass("tx", "flight")
    BY <1>20 DEF KernelSends
  <2>2. Head(held["tx"]) \in Frame
    BY <1>20, <1>a, <2>1, HeadIsFrame DEF Pass, Place
  <2>3. /\ TxCount >= 1
        /\ FreeCount' = FreeCount
        /\ FillCount' = FillCount
        /\ HwCount' = HwCount
        /\ RxCount' = RxCount
        /\ TxCount' = TxCount - 1
        /\ FlightCount' = FlightCount + 1
        /\ CqCount' = CqCount
    BY <1>a, <2>1, <2>2, PassStep DEF Place, FreeCount, FillCount, HwCount,
       RxCount, TxCount, FlightCount, CqCount
  <2>4. ValidFill'
    BY <1>a, <2>1, PassKeepsFill DEF Place
  <2>5. SizeInv'
    BY <1>20, <2>3 DEF KernelSends, SizeInv
  <2> QED BY <2>4, <2>5
<1>21. CASE KernelCompletes
  <2>1. Pass("flight", "cq")
    BY <1>21 DEF KernelCompletes
  <2>2. Head(held["flight"]) \in Frame
    BY <1>21, <1>a, <2>1, HeadIsFrame DEF Pass, Place
  <2>3. /\ FlightCount >= 1
        /\ FreeCount' = FreeCount
        /\ FillCount' = FillCount
        /\ HwCount' = HwCount
        /\ RxCount' = RxCount
        /\ TxCount' = TxCount
        /\ FlightCount' = FlightCount - 1
        /\ CqCount' = CqCount + 1
    BY <1>a, <2>1, <2>2, PassStep DEF Place, FreeCount, FillCount, HwCount,
       RxCount, TxCount, FlightCount, CqCount
  <2>4. ValidFill'
    BY <1>a, <2>1, PassKeepsFill DEF Place
  <2>5. SizeInv'
    BY <1>21, <2>3 DEF KernelCompletes, SizeInv
  <2> QED BY <2>4, <2>5
<1>22. CASE UNCHANGED vars
  <2>1. held' = held /\ UNCHANGED <<to_stock, fq_free, rcvd, handled, pc>>
    BY <1>22 DEF vars
  <2> QED BY <1>same, <2>1 DEF SizeInv
<1> QED
  BY <1>1, <1>2, <1>3, <1>4, <1>5, <1>6, <1>7, <1>8, <1>9, <1>10, <1>11, <1>12, <1>13,
     <1>14, <1>15, <1>16, <1>17, <1>18, <1>19, <1>20, <1>21, <1>22
     DEF Next, Thread, Receiving

(* Given frames enough, only addresses of frames are put in the FILL ring,
   and the receive path never runs out of them: to stock as many slots as FILL
   has free, and to do so only after a packet came, is sound. *)
THEOREM EnoughFramesSuffice ==
  ASSUME EnoughFrames
  PROVE  Spec => [](NoInvalidStocked /\ ReceiveNeverStarves)
<1> DEFINE I == Inv /\ SizeInv /\ ValidFill
<1>1. Init => I
  BY InitInv, InitSizes
<1>2. I /\ [Next]_vars => I'
  BY NextKeepsInv, NextKeepsSizes
<1>3. I => NoInvalidStocked /\ ReceiveNeverStarves
  <2> SUFFICES ASSUME I PROVE NoInvalidStocked /\ ReceiveNeverStarves
    OBVIOUS
  <2>1. \A i \in 1 .. FillCount : held["fill"][i] \in Frame
    BY DEF ValidFill, FillCount
  <2>2. INVALID_UMEM_FRAME \notin Frame
    BY ConstantSizes DEF INVALID_UMEM_FRAME, Frame
  <2>3. NoInvalidStocked
    BY <2>1, <2>2 DEF NoInvalidStocked
  <2>4. ReceiveNeverStarves
    <3> SUFFICES ASSUME pc \in {"loop", "call_poll", "poll", "peek"}
                 PROVE  \E p \in {"fill", "hw", "rx"} : \E i \in 1 .. Len(held[p]) :
                          held[p][i] \in Frame
      BY DEF ReceiveNeverStarves
    <3>1. Frames /\ Counters
      BY InvHalves
    <3>2. /\ FillCount \in Nat /\ HwCount \in Nat /\ RxCount \in Nat
          /\ to_stock = 0 /\ rcvd = 0 /\ handled = 0 /\ RING_SIZE \in Nat \ {0}
      BY <3>1, CounterFacts, ConstantSizes DEF Counters, ThreadState
    <3>3. FillCount > 0 \/ HwCount > 0 \/ RxCount > 0
      BY <3>2 DEF SizeInv
    <3>4. PICK p \in {"fill", "hw", "rx"} : Len(held[p]) > 0
      BY <3>3 DEF FillCount, HwCount, RxCount
    <3>5. held[p] \in Seq(Frame)
      BY <3>1 DEF Frames, HeldType, Place, ValidFill
    <3>6. 1 \in 1 .. Len(held[p]) /\ held[p][1] \in Frame
      BY <3>4, <3>5
    <3> QED BY <3>6
  <2> QED BY <2>3, <2>4
<1> HIDE DEF I
<1> QED BY <1>1, <1>2, <1>3, PTL DEF Spec

(* rx_and_process: whenever the receive loop waits for packets, a frame is there
   for the next one. *)
THEOREM ReceivingGoesOn ==
  ASSUME EnoughFrames
  PROVE  Spec => []ReceiveNeverStarves
  BY EnoughFramesSuffice, PTL
=============================================================================
