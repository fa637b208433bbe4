----------------------------- MODULE XskSocket -----------------------------
(***************************************************************************)
(* The AF_XDP program advanced03-AF_XDP/af_xdp_user.c: one thread that     *)
(* moves UMEM frames between a private stack of free frames and the four   *)
(* single-producer single-consumer rings it shares with the kernel.        *)
(*                                                                         *)
(* The rings are libbpf's (xsk.h, a submodule) and the far end of each of  *)
(* them is the kernel's or the driver's; both are modelled from the way    *)
(* this program uses them.                                                 *)
(*                                                                         *)
(* A frame i of Frame stands for the address i * FRAME_SIZE.  held[p] is   *)
(* the sequence of frames at place p, oldest first:                        *)
(*   free    the stack umem_frame_addr[0 .. umem_frame_free - 1]           *)
(*   fill    the FILL ring, the slots not yet submitted included           *)
(*   hw      receive buffers the driver took from FILL (zero-copy only)    *)
(*   rx      the RX ring from the next descriptor to process               *)
(*   tx      the TX ring                                                   *)
(*   flight  frames the kernel is transmitting                             *)
(*   cq      the COMPLETION ring from the next address to free             *)
(***************************************************************************)
EXTENDS Integers, Sequences

CONSTANTS
  NUM_FRAMES,     \* frames of the UMEM area (4096)
  RING_SIZE,      \* descriptors of each of the four rings (2048)
  RX_BATCH_SIZE,  \* descriptors received at a time (64)
  ReplyEnabled,   \* the condition of process_packet's reply branch
  PollMode,       \* cfg->xsk_poll_mode
  HwDepth,        \* receive buffers the driver may hold; 0 in copy mode
  TX_BATCH,       \* descriptors the kernel sends for one sendto()
  TX_MOD          \* values of outstanding_tx, a uint32_t (2^32)

ASSUME SizesAssumption ==
  /\ NUM_FRAMES \in Nat \ {0}
  /\ RING_SIZE \in 1 .. NUM_FRAMES
  /\ RX_BATCH_SIZE \in Nat \ {0}
  /\ HwDepth \in Nat
  /\ TX_BATCH \in Nat \ {0}
  /\ TX_MOD \in Nat \ {0}

ASSUME ModesAssumption == ReplyEnabled \in BOOLEAN /\ PollMode \in BOOLEAN

VARIABLES
  held,            \* place |-> the frames that are there
  unsubmitted,     \* FILL slots written and not yet submitted
  to_stock,        \* FILL slots reserved and not yet written
  fq_free,         \* fq.cached_cons - fq.cached_prod
  rx_seen,         \* rx.cached_prod - rx.cached_cons
  rcvd,            \* descriptors of the batch in hand
  handled,         \* those of them processed, their RX slots not released
  completed,       \* completions of the round in hand
  reaped,          \* those of them freed, their CQ slots not released
  outstanding_tx,
  tx_budget,       \* descriptors the kernel may still send for the last kick
  global_exit,
  pc               \* where the receive thread is

vars == <<held, unsubmitted, to_stock, fq_free, rx_seen, rcvd, handled,
          completed, reaped, outstanding_tx, tx_budget, global_exit, pc>>

fqVars   == <<unsubmitted, to_stock, fq_free>>
rxVars   == <<rx_seen, rcvd, handled>>
txVars   == <<outstanding_tx, tx_budget>>
reapVars == <<completed, reaped>>

Frame == 0 .. NUM_FRAMES - 1

(* UINT64_MAX, all bits set, is the address of no frame. *)
INVALID_UMEM_FRAME == -1

Place == {"free", "fill", "hw", "rx", "tx", "flight", "cq"}

Location == {"alloc", "loop", "call_poll", "poll", "peek", "stock", "retry", "process",
             "complete", "collect", "reap", "closed"}

(* How many frames, or slots of FILL, there are at each place.  FreeCount is
   umem_frame_free. *)
FreeCount   == Len(held["free"])
FillCount   == Len(held["fill"])
HwCount     == Len(held["hw"])
RxCount     == Len(held["rx"])
TxCount     == Len(held["tx"])
FlightCount == Len(held["flight"])
CqCount     == Len(held["cq"])

-----------------------------------------------------------------------------
(* Moving frames.                                                          *)

(* The oldest frame at p goes to the end of q. *)
Pass(p, q) ==
  /\ held[p] # <<>>
  /\ held' = [held EXCEPT ![p] = Tail(@), ![q] = Append(@, Head(held[p]))]

(* xsk_free_umem_frame of the oldest frame at p: it goes on top of the
   stack.  The assertion is FreeListNeverOverflows below. *)
xsk_free_umem_frame(p) == Pass(p, "free")

(* xsk_alloc_umem_frame into the next reserved FILL slot: the top of the
   stack, or INVALID_UMEM_FRAME when the stack is empty. *)
xsk_alloc_umem_frame ==
  LET free == held["free"]
      top  == Len(free)
  IN  held' = IF top = 0
              THEN [held EXCEPT !["fill"] = Append(@, INVALID_UMEM_FRAME)]
              ELSE [held EXCEPT !["free"] = SubSeq(free, 1, top - 1),
                                !["fill"] = Append(@, free[top])]

(* xsk_prod_nb_free on the FILL ring whose producer has cached that count of
   free slots: the cached count if it is enough, else the count after the
   consumer index is read again.  It is the number of free slots, not the
   smaller of it and nb. *)
xsk_prod_nb_free(cached, nb) ==
  IF cached >= nb THEN cached ELSE RING_SIZE - FillCount

(* Slots the kernel has not got back: the processed but unreleased ones count. *)
RxSlotsUsed == RxCount + handled
CqSlotsUsed == CqCount + reaped

-----------------------------------------------------------------------------
(* Plausible mistakes, each in the place of an action below: what the        *)
(* properties would say of them is how their strength is measured.           *)

(* The processed frame is not put back. *)
DropPacket_ForgetsFrame ==
  /\ pc = "process" /\ handled < rcvd
  /\ held' = [held EXCEPT !["rx"] = Tail(@)]
  /\ handled' = handled + 1
  /\ UNCHANGED <<fqVars, rx_seen, rcvd, txVars, reapVars, global_exit, pc>>

(* process_packet returns false after it has submitted the reply. *)
ReplyToPacket_FreesToo ==
  /\ pc = "process" /\ handled < rcvd
  /\ ReplyEnabled
  /\ TxCount < RING_SIZE
  /\ held' = [held EXCEPT !["rx"] = Tail(@),
                          !["tx"] = Append(@, Head(held["rx"])),
                          !["free"] = Append(@, Head(held["rx"]))]
  /\ outstanding_tx' = (outstanding_tx + 1) % TX_MOD
  /\ handled' = handled + 1
  /\ UNCHANGED <<fqVars, rx_seen, rcvd, tx_budget, reapVars, global_exit, pc>>

(* The stack is read at umem_frame_free - 1 and umem_frame_free is kept. *)
StockFrame_KeepsTop ==
  /\ pc = "alloc" /\ to_stock > 0
  /\ held["free"] # <<>>
  /\ held' = [held EXCEPT !["fill"] = Append(@, held["free"][FreeCount])]
  /\ to_stock' = to_stock - 1
  /\ unsubmitted' = unsubmitted + 1
  /\ UNCHANGED <<fq_free, rxVars, txVars, reapVars, global_exit, pc>>

(* As many FILL slots as there are free frames, without asking the ring. *)
ReserveFill_IgnoresRing ==
  /\ pc = "stock"
  /\ to_stock' = FreeCount
  /\ fq_free' = 0
  /\ pc' = "alloc"
  /\ UNCHANGED <<held, unsubmitted, rxVars, txVars, reapVars, global_exit>>

(* stock_frames is the number of free frames, whether or not FILL has room. *)
ReserveFill_AsksForAll ==
  /\ pc = "stock"
  /\ LET stock_frames == FreeCount
         nb_free      == xsk_prod_nb_free(fq_free, stock_frames)
         granted      == IF nb_free >= stock_frames THEN stock_frames ELSE 0
     IN  /\ to_stock' = granted
         /\ fq_free' = nb_free - granted
         /\ pc' = CASE stock_frames = 0 -> "process"
                    [] stock_frames > 0 /\ granted = stock_frames -> "alloc"
                    [] OTHER -> "retry"
  /\ UNCHANGED <<held, unsubmitted, rxVars, txVars, reapVars, global_exit>>

(* The FILL ring is never restocked. *)
ReserveFill_Never ==
  /\ pc = "stock"
  /\ pc' = "process"
  /\ UNCHANGED <<held, fqVars, rxVars, txVars, reapVars, global_exit>>

(* A whole batch is taken for received, whatever xsk_ring_cons__peek says. *)
PeekRx_AssumesBatch ==
  /\ pc = "peek"
  /\ held["rx"] # <<>>
  /\ rcvd' = RX_BATCH_SIZE
  /\ rx_seen' = 0
  /\ pc' = "stock"
  /\ UNCHANGED <<held, fqVars, handled, txVars, reapVars, global_exit>>

(* The thread waits in the peek until something has come. *)
PeekRx_Waits ==
  /\ pc = "peek"
  /\ held["rx"] # <<>>
  /\ LET n == IF RxCount > RX_BATCH_SIZE THEN RX_BATCH_SIZE ELSE RxCount
     IN  rcvd' = n /\ rx_seen' = RxCount - n
  /\ pc' = "stock"
  /\ UNCHANGED <<held, fqVars, handled, txVars, reapVars, global_exit>>

(* The cached count of RX descriptors is never refreshed once it was set. *)
PeekRx_NeverRefreshes ==
  /\ pc = "peek"
  /\ rcvd' = IF rx_seen > RX_BATCH_SIZE THEN RX_BATCH_SIZE ELSE rx_seen
  /\ rx_seen' = rx_seen - rcvd'
  /\ pc' = IF rcvd' = 0 THEN "loop" ELSE "stock"
  /\ UNCHANGED <<held, fqVars, handled, txVars, reapVars, global_exit>>

(* The count of processed descriptors is carried into the next batch. *)
ReleaseRx_KeepsCount ==
  /\ pc = "process" /\ handled = rcvd
  /\ rcvd' = 0
  /\ pc' = "complete"
  /\ UNCHANGED <<held, fqVars, rx_seen, handled, txVars, reapVars, global_exit>>

-----------------------------------------------------------------------------
(* xsk_configure_socket has put the frames on the stack in ascending order
   and reserved a whole FILL ring; its stuffing loop is ahead. *)
Init ==
  /\ held = [p \in Place |->
               IF p = "free" THEN [i \in 1 .. NUM_FRAMES |-> i - 1] ELSE <<>>]
  /\ unsubmitted = 0 /\ to_stock = RING_SIZE /\ fq_free = 0
  /\ rx_seen = 0 /\ rcvd = 0 /\ handled = 0
  /\ completed = 0 /\ reaped = 0
  /\ outstanding_tx = 0 /\ tx_budget = 0
  /\ global_exit = FALSE
  /\ pc = "alloc"

(* One turn of the stuffing loop of xsk_configure_socket or of
   handle_receive_packets. *)
StockFrame ==
  /\ pc = "alloc" /\ to_stock > 0
  /\ xsk_alloc_umem_frame
  /\ to_stock' = to_stock - 1
  /\ unsubmitted' = unsubmitted + 1
  /\ UNCHANGED <<fq_free, rxVars, txVars, reapVars, global_exit, pc>>

(* xsk_ring_prod__submit; the batch in hand is processed next, if any. *)
SubmitFill ==
  /\ pc = "alloc" /\ to_stock = 0
  /\ unsubmitted' = 0
  /\ pc' = IF rcvd = 0 THEN "loop" ELSE "process"
  /\ UNCHANGED <<held, to_stock, fq_free, rxVars, txVars, reapVars, global_exit>>

(* The condition of rx_and_process' loop. *)
TestExit ==
  /\ pc = "loop"
  /\ pc' = CASE global_exit -> "closed"
             [] ~global_exit /\ PollMode -> "call_poll"
             [] OTHER -> "peek"
  /\ UNCHANGED <<held, fqVars, rxVars, txVars, reapVars, global_exit>>

(* poll(-1) blocks: only from now on does a signal interrupt it. *)
CallPoll ==
  /\ pc = "call_poll"
  /\ pc' = "poll"
  /\ UNCHANGED <<held, fqVars, rxVars, txVars, reapVars, global_exit>>

(* It returns 1 once the RX ring holds a descriptor. *)
PollReturns ==
  /\ pc = "poll" /\ held["rx"] # <<>>
  /\ pc' = "peek"
  /\ UNCHANGED <<held, fqVars, rxVars, txVars, reapVars, global_exit>>

(* xsk_ring_cons__peek on RX: the producer index is read again only when all
   that was seen of it has been consumed. *)
PeekRx ==
  /\ pc = "peek"
  /\ LET seen == IF rx_seen = 0 THEN RxCount ELSE rx_seen
         n    == IF seen > RX_BATCH_SIZE THEN RX_BATCH_SIZE ELSE seen
     IN  /\ rcvd' = n
         /\ rx_seen' = seen - n
         /\ pc' = IF n = 0 THEN "loop" ELSE "stock"
  /\ UNCHANGED <<held, fqVars, handled, txVars, reapVars, global_exit>>

(* stock_frames, and the reservation of as many FILL slots.  "retry" is the
   loop that repeats a failed reservation, with rcvd for a count; its body is
   not modelled because ReserveNeverRetries says the thread never gets there. *)
ReserveFill ==
  /\ pc = "stock"
  /\ LET stock_frames == xsk_prod_nb_free(fq_free, FreeCount)
         nb_free      == xsk_prod_nb_free(stock_frames, stock_frames)
         granted      == IF nb_free >= stock_frames THEN stock_frames ELSE 0
     IN  /\ to_stock' = granted
         /\ fq_free' = nb_free - granted
         /\ pc' = CASE stock_frames = 0 -> "process"
                    [] stock_frames > 0 /\ granted = stock_frames -> "alloc"
                    [] OTHER -> "retry"
  /\ UNCHANGED <<held, unsubmitted, rxVars, txVars, reapVars, global_exit>>

(* process_packet answers an echo request: one TX descriptor is reserved,
   written and submitted.  A single slot is reserved exactly when one is
   free, so the cached count of the TX ring is left out. *)
ReplyToPacket ==
  /\ pc = "process" /\ handled < rcvd
  /\ ReplyEnabled
  /\ TxCount < RING_SIZE
  /\ Pass("rx", "tx")
  /\ outstanding_tx' = (outstanding_tx + 1) % TX_MOD
  /\ handled' = handled + 1
  /\ UNCHANGED <<fqVars, rx_seen, rcvd, tx_budget, reapVars, global_exit, pc>>

(* process_packet returns false: the branch is compiled out, the packet is
   no echo request, or no TX slot is left.  The frame goes back on the stack. *)
DropPacket ==
  /\ pc = "process" /\ handled < rcvd
  /\ xsk_free_umem_frame("rx")
  /\ handled' = handled + 1
  /\ UNCHANGED <<fqVars, rx_seen, rcvd, txVars, reapVars, global_exit, pc>>

(* The batch is done: its RX slots go back to the kernel. *)
ReleaseRx ==
  /\ pc = "process" /\ handled = rcvd
  /\ rcvd' = 0 /\ handled' = 0
  /\ pc' = "complete"
  /\ UNCHANGED <<held, fqVars, rx_seen, txVars, reapVars, global_exit>>

(* The head of complete_tx.  sendto() lets the kernel send some of the TX
   ring, as many descriptors as it can and TX_BATCH at most; what it returns
   is not looked at. *)
KickTx ==
  /\ pc = "complete"
  /\ IF outstanding_tx = 0
     THEN pc' = "loop" /\ UNCHANGED tx_budget
     ELSE pc' = "collect" /\ tx_budget' = TX_BATCH
  /\ UNCHANGED <<held, fqVars, rxVars, outstanding_tx, reapVars, global_exit>>

(* xsk_ring_cons__peek on the COMPLETION ring, for up to a whole ring. *)
PeekCompletions ==
  /\ pc = "collect"
  /\ completed' = CqCount
  /\ pc' = IF held["cq"] = <<>> THEN "loop" ELSE "reap"
  /\ UNCHANGED <<held, fqVars, rxVars, txVars, reaped, global_exit>>

ReapCompletion ==
  /\ pc = "reap" /\ reaped < completed
  /\ xsk_free_umem_frame("cq")
  /\ reaped' = reaped + 1
  /\ UNCHANGED <<fqVars, rxVars, txVars, completed, global_exit, pc>>

(* Every completion is freed: their slots go back to the kernel. *)
ReleaseCompletions ==
  /\ pc = "reap" /\ reaped = completed
  /\ completed' = 0 /\ reaped' = 0
  /\ pc' = "loop"
  /\ UNCHANGED <<held, fqVars, rxVars, txVars, global_exit>>

Thread ==
  \/ StockFrame \/ SubmitFill \/ TestExit \/ CallPoll \/ PollReturns \/ PeekRx
  \/ ReserveFill \/ ReplyToPacket \/ DropPacket \/ ReleaseRx
  \/ KickTx \/ PeekCompletions \/ ReapCompletion \/ ReleaseCompletions

(* SIGINT, once: a blocked poll() returns EINTR and the loop continues. *)
exit_application ==
  /\ ~global_exit
  /\ global_exit' = TRUE
  /\ pc' = IF pc = "poll" THEN "loop" ELSE pc
  /\ UNCHANGED <<held, fqVars, rxVars, txVars, reapVars>>

-----------------------------------------------------------------------------
(* The far end of the rings.  "closed" deletes the socket.                 *)

FillAvailable(f) ==
  /\ pc # "closed"
  /\ FillCount > unsubmitted
  /\ Head(held["fill"]) = f

kernelUnchanged == <<fqVars, rxVars, outstanding_tx, reapVars, global_exit, pc>>

(* An address outside the UMEM area is taken off FILL and counted invalid. *)
KernelSkipsInvalid ==
  /\ FillAvailable(INVALID_UMEM_FRAME)
  /\ held' = [held EXCEPT !["fill"] = Tail(@)]
  /\ UNCHANGED <<kernelUnchanged, tx_budget>>

(* Copy mode: a packet is copied to the next FILL frame if RX has room for
   it, and is dropped if not. *)
KernelCopiesPacket ==
  /\ HwDepth = 0
  /\ \E f \in Frame : FillAvailable(f)
  /\ RxSlotsUsed < RING_SIZE
  /\ Pass("fill", "rx")
  /\ UNCHANGED <<kernelUnchanged, tx_budget>>

(* Zero-copy: the driver posts the next FILL frame to the hardware ... *)
DriverPostsBuffer ==
  /\ HwCount < HwDepth
  /\ \E f \in Frame : FillAvailable(f)
  /\ Pass("fill", "hw")
  /\ UNCHANGED <<kernelUnchanged, tx_budget>>

(* ... and delivers it on RX once a packet has come in. *)
DriverDeliversPacket ==
  /\ pc # "closed"
  /\ RxSlotsUsed < RING_SIZE
  /\ Pass("hw", "rx")
  /\ UNCHANGED <<kernelUnchanged, tx_budget>>

(* Nothing is sent that the COMPLETION ring could not report. *)
KernelSends ==
  /\ pc # "closed"
  /\ tx_budget > 0
  /\ FlightCount + CqSlotsUsed < RING_SIZE
  /\ Pass("tx", "flight")
  /\ tx_budget' = tx_budget - 1
  /\ UNCHANGED kernelUnchanged

KernelCompletes ==
  /\ pc # "closed"
  /\ Pass("flight", "cq")
  /\ UNCHANGED <<kernelUnchanged, tx_budget>>

Receiving == KernelSkipsInvalid \/ KernelCopiesPacket \/ DriverPostsBuffer
             \/ DriverDeliversPacket

Next == Thread \/ exit_application \/ Receiving \/ KernelSends \/ KernelCompletes

Spec == Init /\ [][Next]_vars

(* The thread is scheduled, and what a kick allows the kernel to send is sent
   and completed.  No packet and no signal has to come. *)
FairSpec == Spec /\ WF_vars(Thread) /\ WF_vars(KernelSends) /\ WF_vars(KernelCompletes)
-----------------------------------------------------------------------------
(* Properties.                                                             *)

(* The type invariant: which places can hold an invalid address, and the
   range of every counter. *)
TypeOK ==
  /\ held \in [Place -> Seq(Frame \cup {INVALID_UMEM_FRAME})]
  /\ \A p \in Place \ {"fill"} : held[p] \in Seq(Frame)
  /\ unsubmitted \in 0 .. RING_SIZE
  /\ to_stock \in 0 .. RING_SIZE
  /\ fq_free \in 0 .. RING_SIZE
  /\ rx_seen \in 0 .. RING_SIZE
  /\ rcvd \in 0 .. RX_BATCH_SIZE
  /\ handled \in 0 .. rcvd
  /\ completed \in 0 .. RING_SIZE
  /\ reaped \in 0 .. completed
  /\ outstanding_tx \in 0 .. TX_MOD - 1
  /\ tx_budget \in 0 .. TX_BATCH
  /\ global_exit \in BOOLEAN
  /\ pc \in Location

(* No frame is at two places, or twice at one: the program never gives the
   kernel a frame it still holds, nor frees one twice. *)
NoFrameShared ==
  \A p, q \in Place : \A i \in 1 .. Len(held[p]), j \in 1 .. Len(held[q]) :
    held[p][i] = held[q][j] /\ held[p][i] \in Frame => p = q /\ i = j

(* No frame is lost: between them the stack, the rings and the kernel hold
   every frame of the UMEM area at every moment. *)
NoFrameLost ==
  \A f \in Frame : \E p \in Place : \E i \in 1 .. Len(held[p]) : held[p][i] = f

(* The assertion in xsk_free_umem_frame: whenever the thread is about to push
   a frame, the stack has room for it. *)
FreeListNeverOverflows ==
  \/ pc = "process" /\ handled < rcvd
  \/ pc = "reap" /\ reaped < completed
  => FreeCount < NUM_FRAMES

(* No producer overwrites a slot its consumer has not released, whatever
   stale count of free slots it works with: FILL, RX, TX and COMPLETION. *)
NoRingOverrun ==
  /\ FillCount + to_stock + fq_free <= RING_SIZE
  /\ RxSlotsUsed <= RING_SIZE
  /\ TxCount <= RING_SIZE
  /\ FlightCount + CqSlotsUsed <= RING_SIZE

(* No consumer reads past its producer: the RX descriptors the thread has
   peeked or counted are there, so are the completions, and what the kernel
   may take of FILL excludes the slots not submitted. *)
NoRingUnderrun ==
  /\ rcvd - handled + rx_seen <= RxCount
  /\ completed - reaped <= CqCount
  /\ unsubmitted <= FillCount

(* "This should not happen, but just in case": the reservation of
   stock_frames is granted the first time, so its retry loop, which asks for
   rcvd slots and compares with stock_frames, is never entered. *)
ReserveNeverRetries == pc # "retry"

(* Only addresses of frames are put in the FILL ring: xsk_prod_nb_free never
   asks the stack for more frames than it has. *)
NoInvalidStocked ==
  \A i \in 1 .. FillCount : held["fill"][i] # INVALID_UMEM_FRAME

(* "Stuff the receive path with buffers, we assume we have enough": whenever
   the thread waits for packets, a frame is on the receive path for the next
   one to land in.  The ring is restocked only after a packet is received, so
   a receive path without a frame would stay without one. *)
ReceiveNeverStarves ==
  pc \in {"loop", "call_poll", "poll", "peek"} =>
    \E p \in {"fill", "hw", "rx"} : \E i \in 1 .. Len(held[p]) : held[p][i] \in Frame

IsAt(f, p) == \E i \in 1 .. Len(held[p]) : held[p][i] = f

(* A received frame is processed, unless the program is stopped. *)
ReceivedFramesAreHandled ==
  \A f \in Frame : IsAt(f, "rx") ~> (~IsAt(f, "rx") \/ pc = "closed")

(* A reply put on the TX ring is sent, unless the program is stopped. *)
RepliesAreSent ==
  \A f \in Frame : IsAt(f, "tx") ~> (~IsAt(f, "tx") \/ pc = "closed")

(* "Global shutdown handler": SIGINT ends the program. *)
ShutdownCompletes == global_exit ~> (pc = "closed")

-----------------------------------------------------------------------------
(* The program hands frames to the kernel and takes them back in the order
   UmemOwnership allows: submitting FILL is what gives a frame away, and a
   descriptor or a completion is what brings it back. *)
Posted(f) ==
  \/ \E i \in 1 .. FillCount - unsubmitted : held["fill"][i] = f
  \/ IsAt(f, "hw")

UmemOwner ==
  [f \in Frame |-> CASE Posted(f) -> "fill"
                     [] IsAt(f, "rx") -> "rx"
                     [] IsAt(f, "tx") \/ IsAt(f, "flight") -> "tx"
                     [] IsAt(f, "cq") -> "comp"
                     [] OTHER -> "app"]

Umem == INSTANCE UmemOwnership WITH owner <- UmemOwner

(* The four rings implement the transfer of ownership the documentation of
   this lesson says they are for. *)
FramesChangeHands == Umem!Spec
=============================================================================
