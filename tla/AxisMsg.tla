------------------------------ MODULE AxisMsg ------------------------------
(***************************************************************************)
(* The driver of the character device axismsg0: two rings of DMA buffers   *)
(* between threads that read and write and a scatter-gather DMA engine.    *)
(* A step is a section under the spinlock, a wake-up or a scheduling that  *)
(* follows one, or a section under a mutex that touches only its own slot. *)
(*                                                                         *)
(* External, modelled from its use: the DMA engine (descriptors complete   *)
(* in the order in which they were submitted, callbacks of a channel run   *)
(* one at a time), the work queue (a work item never runs beside itself)   *)
(* and the wait queues (a thread is registered before it looks at its      *)
(* condition).  A message is its number; a partial read takes some of it.  *)
(*                                                                         *)
(* A thread that holds no mutex and is not asleep is "idle": it is outside *)
(* the driver, about to take a mutex, or about to look at the condition of *)
(* a wait.  In neither place does it hold anything it has read before.     *)
(***************************************************************************)
EXTENDS Integers, Sequences, FiniteSets

CONSTANTS
  Threads,        \* each has the device open once
  RX_RING_DEPTH,
  TX_RING_DEPTH,
  MaxMessages,    \* bound: messages written and frames received
  MaxFaults       \* bound: failed user copies, preparations and submissions

ASSUME AxisMsgAssumption ==
  /\ RX_RING_DEPTH \in Nat \ {0} /\ TX_RING_DEPTH \in Nat \ {0}
  /\ MaxMessages \in Nat /\ MaxFaults \in Nat
  /\ "probe" \notin Threads /\ "none" \notin Threads

RxSlots == 0 .. RX_RING_DEPTH - 1
TxSlots == 0 .. TX_RING_DEPTH - 1

NoSlot == -1
NoMessage == 0

VARIABLES
  tx,                 \* [TxSlots -> state and message of the buffer]
  tx_enqueue_cursor, tx_pick_cursor,
  tx_active,          \* the slot that the engine transmits, or NoSlot
  tx_done_q,
  tx_complete,        \* the active descriptor is complete
  tx_notify,          \* tx_done_cb has unlocked and not yet woken the rest
  tx_work,            \* tx_workfn is scheduled
  tx_work_notify,     \* tx_workfn has unlocked and not yet woken the rest
  rx,                 \* [RxSlots -> state and message of the buffer]
  rx_post_cursor,
  rx_chain,           \* slots that the engine will fill, in this order
  rx_landed,          \* slots filled, whose callback has not run
  rx_cb,              \* the callback that runs: slot, stage, length
  rx_done_q,
  tx_mutex, rx_mutex, \* the holder, or "none"
  post_n,             \* n of the loop of post_rx_locked
  pc,                 \* [Threads -> place in a system call]
  tx_slot,            \* [Threads -> slot of a write]
  pending,            \* [Threads -> slot and message of a read, or NoSlot]
  accepted,           \* history: number of messages accepted by write
  sent,               \* history: messages transmitted
  arrived,            \* history: number of well formed frames received
  dropped,            \* history: number of malformed frames received
  taken,              \* history: messages taken by read
  left_out,           \* history: free slots that probe's post_rx_locked
                      \* leaves, less the failures to post that it met
  faults,             \* history: number of faults
  stalled             \* history: no one was told to try again since a
                      \* transmission could not be started

tx_vars == <<tx, tx_enqueue_cursor, tx_pick_cursor, tx_active, tx_done_q,
             tx_complete, tx_notify, tx_work, tx_work_notify, tx_mutex,
             tx_slot, accepted, sent, stalled>>
rx_vars == <<rx, rx_post_cursor, rx_chain, rx_landed, rx_cb, rx_done_q,
             rx_mutex, post_n, pending, arrived, dropped, taken, left_out>>
vars == <<tx_vars, rx_vars, pc, faults>>

slot_record(state, message) == [state |-> state, message |-> message]
holding(slot, message) == [slot |-> slot, message |-> message]
no_pending == holding(NoSlot, NoMessage)
no_callback == [stage |-> "idle", slot |-> NoSlot, message |-> NoMessage]

fault == faults < MaxFaults /\ faults' = faults + 1

(* The first of some slots that a scan from the cursor meets.              *)
first_from(i, cursor, slots, depth) ==
  /\ i \in slots
  /\ \A j \in slots : (i - cursor) % depth <= (j - cursor) % depth

after(slot, depth) == (slot + 1) % depth

(* A slot changes its state and keeps its message.                         *)
turned(slots, s, state) ==
  [slots EXCEPT ![s] = slot_record(state, slots[s].message)]

tx_in(state) == {s \in TxSlots : tx[s].state = state}
rx_in(state) == {s \in RxSlots : rx[s].state = state}
-----------------------------------------------------------------------------
(* probe: the rings are empty, and the first post_rx_locked begins.        *)
Init ==
  /\ tx = [s \in TxSlots |-> slot_record("free", NoMessage)]
  /\ tx_enqueue_cursor = 0 /\ tx_pick_cursor = 0
  /\ tx_active = NoSlot /\ tx_done_q = << >>
  /\ tx_complete = FALSE /\ tx_notify = FALSE
  /\ tx_work = FALSE /\ tx_work_notify = FALSE
  /\ rx = [s \in RxSlots |-> slot_record("free", NoMessage)]
  /\ rx_post_cursor = 0 /\ rx_chain = << >> /\ rx_landed = << >>
  /\ rx_cb = no_callback /\ rx_done_q = << >>
  /\ tx_mutex = "none" /\ rx_mutex = "probe" /\ post_n = 0
  /\ pc = [t \in Threads |-> "idle"]
  /\ tx_slot = [t \in Threads |-> NoSlot]
  /\ pending = [t \in Threads |-> no_pending]
  /\ accepted = 0 /\ sent = << >> /\ arrived = 0 /\ dropped = 0
  /\ taken = << >> /\ left_out = 0 /\ faults = 0 /\ stalled = FALSE

goto(t, place) == pc' = [pc EXCEPT ![t] = place]

(* wake_up_interruptible: who sleeps on the queue looks again.             *)
wake(asleep) ==
  pc' = [t \in Threads |-> IF pc[t] = asleep THEN "idle" ELSE pc[t]]

wake_tx == wake("tx_sleep")

(* Defect: a message that is read does not wake the readers.               *)
wake_rx_no_one == UNCHANGED pc

wake_rx == wake("rx_sleep")
-----------------------------------------------------------------------------
(* write(2) and the wait for a free slot.                                  *)
writing == {t \in Threads : pc[t] = "tx_copy"}

traffic == accepted + Cardinality(writing) + arrived + dropped

(* Defect: what is not being transmitted is freed.                         *)
reaped_all == [s \in TxSlots |->
  IF tx[s].state # "active" THEN slot_record("free", NoMessage) ELSE tx[s]]

(* reap_tx_done_locked                                                     *)
reaped == [s \in TxSlots |->
  IF \E k \in DOMAIN tx_done_q : tx_done_q[k] = s
  THEN slot_record("free", NoMessage) ELSE tx[s]]

free_after_reaping == {s \in TxSlots : reaped[s].state = "free"}

(* Under tx_mutex: reap, then take a free slot, whose state stays free.    *)
find_free_tx(t) ==
  /\ pc[t] = "idle" /\ tx_mutex = "none" /\ traffic < MaxMessages
  /\ \E slot \in TxSlots :
       /\ first_from(slot, tx_enqueue_cursor, free_after_reaping,
                     TX_RING_DEPTH)
       /\ tx_slot' = [tx_slot EXCEPT ![t] = slot]
       /\ tx_enqueue_cursor' = after(slot, TX_RING_DEPTH)
  /\ tx' = reaped /\ tx_done_q' = << >>
  /\ tx_mutex' = t
  /\ goto(t, "tx_copy")
  /\ UNCHANGED <<tx_pick_cursor, tx_active, tx_complete, tx_notify, tx_work,
                 tx_work_notify, accepted, sent, stalled, rx_vars, faults>>

any_free_tx == tx_in("free") # {}

(* Without a free slot a writer returns -EAGAIN, or waits for one, as does *)
(* a thread that polls.                                                    *)
wait_for_tx(t) ==
  /\ pc[t] = "idle" /\ ~any_free_tx
  /\ goto(t, "tx_sleep")
  /\ UNCHANGED <<tx_vars, rx_vars, faults>>

(* copy_from_user, and the slot is queued.                                 *)
queue_tx(t) ==
  /\ pc[t] = "tx_copy"
  /\ accepted' = accepted + 1
  /\ tx' = [tx EXCEPT ![tx_slot[t]] = slot_record("queued", accepted + 1)]
  /\ goto(t, "tx_schedule")
  /\ UNCHANGED <<tx_enqueue_cursor, tx_pick_cursor, tx_active, tx_done_q,
                 tx_complete, tx_notify, tx_work, tx_work_notify, tx_mutex,
                 tx_slot, sent, stalled, rx_vars, faults>>

copy_from_user_fails(t) ==
  /\ pc[t] = "tx_copy" /\ fault
  /\ tx_mutex' = "none" /\ tx_slot' = [tx_slot EXCEPT ![t] = NoSlot]
  /\ goto(t, "idle")
  /\ UNCHANGED <<tx, tx_enqueue_cursor, tx_pick_cursor, tx_active, tx_done_q,
                 tx_complete, tx_notify, tx_work, tx_work_notify, accepted,
                 sent, stalled, rx_vars>>

schedule_tx(t) ==
  /\ pc[t] = "tx_schedule"
  /\ tx_work' = TRUE /\ stalled' = FALSE
  /\ tx_mutex' = "none" /\ tx_slot' = [tx_slot EXCEPT ![t] = NoSlot]
  /\ goto(t, "idle")
  /\ UNCHANGED <<tx, tx_enqueue_cursor, tx_pick_cursor, tx_active, tx_done_q,
                 tx_complete, tx_notify, tx_work_notify, accepted, sent,
                 rx_vars, faults>>
-----------------------------------------------------------------------------
(* tx_workfn: reap, then kick_one_tx_locked.                               *)
no_kick ==
  /\ tx_active # NoSlot \/ tx_in("queued") = {}
  /\ tx' = reaped
  /\ UNCHANGED <<tx_pick_cursor, tx_active, stalled, faults>>

picked(slot) ==
  first_from(slot, tx_pick_cursor, tx_in("queued"), TX_RING_DEPTH)

kick_one_tx ==
  \E slot \in TxSlots :
    /\ tx_active = NoSlot /\ picked(slot)
    /\ tx_pick_cursor' = after(slot, TX_RING_DEPTH)
    /\ \/ /\ tx' = turned(reaped, slot, "active")
          /\ tx_active' = slot
          /\ UNCHANGED <<stalled, faults>>
       \/ /\ fault   \* the slot stays queued, behind the cursor
          /\ tx' = reaped
          /\ stalled' = TRUE
          /\ UNCHANGED tx_active

tx_workfn ==
  /\ tx_work /\ ~tx_work_notify
  /\ no_kick \/ kick_one_tx
  /\ tx_done_q' = << >>
  /\ tx_work' = FALSE /\ tx_work_notify' = TRUE
  /\ UNCHANGED <<tx_enqueue_cursor, tx_complete, tx_notify, tx_mutex, tx_slot,
                 accepted, sent, rx_vars, pc>>

tx_workfn_wakes ==
  /\ tx_work_notify
  /\ tx_work_notify' = FALSE
  /\ wake_tx
  /\ UNCHANGED <<tx, tx_enqueue_cursor, tx_pick_cursor, tx_active, tx_done_q,
                 tx_complete, tx_notify, tx_work, tx_mutex, tx_slot, accepted,
                 sent, stalled, rx_vars, faults>>

(* The engine has transmitted what the buffer holds.                       *)
tx_transmitted ==
  /\ tx_active # NoSlot /\ ~tx_complete
  /\ sent' = Append(sent, tx[tx_active].message)
  /\ tx_complete' = TRUE
  /\ UNCHANGED <<tx, tx_enqueue_cursor, tx_pick_cursor, tx_active, tx_done_q,
                 tx_notify, tx_work, tx_work_notify, tx_mutex, tx_slot,
                 accepted, stalled, rx_vars, pc, faults>>

(* A full queue of done slots would free the slot at once.                 *)
tx_done_cb ==
  /\ tx_complete /\ ~tx_notify
  /\ IF Len(tx_done_q) >= TX_RING_DEPTH
     THEN /\ tx' = [tx EXCEPT ![tx_active] = slot_record("free", NoMessage)]
          /\ UNCHANGED tx_done_q
     ELSE /\ tx' = turned(tx, tx_active, "done")
          /\ tx_done_q' = Append(tx_done_q, tx_active)
  /\ tx_active' = NoSlot
  /\ tx_complete' = FALSE /\ tx_notify' = TRUE
  /\ UNCHANGED <<tx_enqueue_cursor, tx_pick_cursor, tx_work, tx_work_notify,
                 tx_mutex, tx_slot, accepted, sent, stalled, rx_vars, pc,
                 faults>>

(* Defect: the callback leaves the rest to the next write.                 *)
tx_done_cb_wakes_only ==
  /\ tx_notify
  /\ tx_notify' = FALSE /\ UNCHANGED tx_work
  /\ wake_tx
  /\ stalled' = FALSE
  /\ UNCHANGED <<tx, tx_enqueue_cursor, tx_pick_cursor, tx_active, tx_done_q,
                 tx_complete, tx_work_notify, tx_mutex, tx_slot, accepted,
                 sent, rx_vars, faults>>

tx_done_cb_wakes ==
  /\ tx_notify
  /\ tx_notify' = FALSE /\ tx_work' = TRUE
  /\ wake_tx
  /\ stalled' = FALSE
  /\ UNCHANGED <<tx, tx_enqueue_cursor, tx_pick_cursor, tx_active, tx_done_q,
                 tx_complete, tx_work_notify, tx_mutex, tx_slot, accepted,
                 sent, rx_vars, faults>>
-----------------------------------------------------------------------------
(* post_rx_locked, one iteration a step: the cursor moves while n counts.  *)
posting == rx_mutex = "probe" \/ \E t \in Threads : pc[t] = "post"

post_slot == (rx_post_cursor + post_n) % RX_RING_DEPTH

(* Defect: a slot that is done is posted again.                            *)
postable_unless_posted == rx[post_slot].state # "posted"

postable == rx[post_slot].state = "free"

post_rx_one ==
  /\ posting /\ post_n < RX_RING_DEPTH
  /\ post_n' = post_n + 1
  /\ IF ~postable
     THEN UNCHANGED <<rx, rx_chain, rx_post_cursor, faults>>
     ELSE \/ /\ rx' = [rx EXCEPT ![post_slot] =
                         slot_record("posted", NoMessage)]
             /\ rx_chain' = Append(rx_chain, post_slot)
             /\ rx_post_cursor' = after(post_slot, RX_RING_DEPTH)
             /\ UNCHANGED faults
          \/ /\ fault   \* the preparation or the submission
             /\ rx' = [rx EXCEPT ![post_slot] = slot_record("free", NoMessage)]
             /\ UNCHANGED <<rx_chain, rx_post_cursor>>
  /\ UNCHANGED <<rx_landed, rx_cb, rx_done_q, rx_mutex, pending, arrived,
                 dropped, taken, left_out, tx_vars, pc>>

post_rx_returns ==
  /\ posting /\ post_n = RX_RING_DEPTH
  /\ rx_mutex' = "none"
  /\ pc' = [t \in Threads |-> IF pc[t] = "post" THEN "idle" ELSE pc[t]]
  /\ left_out' = IF rx_mutex = "probe"
                 THEN Cardinality(rx_in("free")) - faults ELSE left_out
  /\ UNCHANGED <<rx, rx_post_cursor, rx_chain, rx_landed, rx_cb, rx_done_q,
                 post_n, pending, arrived, dropped, taken, tx_vars, faults>>

(* The engine fills the first posted buffer; a frame without a valid       *)
(* header is NoMessage.                                                    *)
frame_arrives ==
  /\ rx_chain # << >>
  /\ traffic < MaxMessages
  /\ \/ arrived' = arrived + 1 /\ UNCHANGED dropped
     \/ dropped' = dropped + 1 /\ UNCHANGED arrived
  /\ rx' = [rx EXCEPT ![Head(rx_chain)] =
              slot_record("posted", IF arrived' > arrived THEN arrived'
                                    ELSE NoMessage)]
  /\ rx_chain' = Tail(rx_chain)
  /\ rx_landed' = Append(rx_landed, Head(rx_chain))
  /\ UNCHANGED <<rx_post_cursor, rx_cb, rx_done_q, rx_mutex, post_n, pending,
                 taken, left_out, tx_vars, pc, faults>>

(* rx_done_cb looks at the header before it takes the lock.                *)
rx_done_cb ==
  /\ rx_cb.stage = "idle" /\ rx_landed # << >>
  /\ rx_cb' = [stage |-> "lock", slot |-> Head(rx_landed),
               message |-> rx[Head(rx_landed)].message]
  /\ rx_landed' = Tail(rx_landed)
  /\ UNCHANGED <<rx, rx_post_cursor, rx_chain, rx_done_q, rx_mutex, post_n,
                 pending, arrived, dropped, taken,
                 left_out, tx_vars, pc, faults>>

(* Defect: the newest message is put first.                                *)
enqueue_rx_done_first(slot) == <<slot>> \o rx_done_q

enqueue_rx_done(slot) == Append(rx_done_q, slot)

(* A slot without a message, or without room in the queue, becomes free,   *)
(* and is not posted again here.                                           *)
rx_done_cb_locked ==
  /\ rx_cb.stage = "lock"
  /\ IF rx_cb.message # NoMessage /\ Len(rx_done_q) < RX_RING_DEPTH
     THEN /\ rx' = turned(rx, rx_cb.slot, "done")
          /\ rx_done_q' = enqueue_rx_done(rx_cb.slot)
     ELSE /\ rx' = turned(rx, rx_cb.slot, "free")
          /\ UNCHANGED rx_done_q
  /\ rx_cb' = [no_callback EXCEPT !.stage = "notify"]
  /\ UNCHANGED <<rx_post_cursor, rx_chain, rx_landed, rx_mutex, post_n,
                 pending, arrived, dropped, taken,
                 left_out, tx_vars, pc, faults>>

rx_done_cb_wakes ==
  /\ rx_cb.stage = "notify"
  /\ rx_cb' = no_callback
  /\ wake_rx
  /\ UNCHANGED <<rx, rx_post_cursor, rx_chain, rx_landed, rx_done_q, rx_mutex,
                 post_n, pending, arrived, dropped, taken, left_out, tx_vars,
                 faults>>
-----------------------------------------------------------------------------
(* read(2), the wait for a message, and release.                           *)
(* What is left of a message comes before the next one.                    *)
continue_rx(t) ==
  /\ pc[t] = "idle" /\ rx_mutex = "none"
  /\ pending[t] # no_pending
  /\ rx_mutex' = t
  /\ goto(t, "rx_copy")
  /\ UNCHANGED <<rx, rx_post_cursor, rx_chain, rx_landed, rx_cb, rx_done_q,
                 post_n, pending, arrived, dropped, taken, left_out, tx_vars,
                 faults>>

take_rx(t) ==
  /\ pc[t] = "idle" /\ rx_mutex = "none"
  /\ pending[t] = no_pending /\ rx_done_q # << >>
  /\ LET slot == Head(rx_done_q)
     IN  /\ pending' =
              [pending EXCEPT ![t] = holding(slot, rx[slot].message)]
         /\ taken' = Append(taken, rx[slot].message)
  /\ rx_done_q' = Tail(rx_done_q)
  /\ rx_mutex' = t
  /\ goto(t, "rx_copy")
  /\ UNCHANGED <<rx, rx_post_cursor, rx_chain, rx_landed, rx_cb, post_n,
                 arrived, dropped, left_out, tx_vars, faults>>

(* Likewise for a reader without a message.                                *)
wait_for_rx(t) ==
  /\ pc[t] = "idle" /\ pending[t] = no_pending /\ rx_done_q = << >>
  /\ goto(t, "rx_sleep")
  /\ UNCHANGED <<tx_vars, rx_vars, faults>>

(* copy_to_user fails, or does not take the whole rest.                    *)
copy_part(t) ==
  /\ pc[t] = "rx_copy"
  /\ rx_mutex' = "none"
  /\ goto(t, "idle")
  /\ UNCHANGED <<rx, rx_post_cursor, rx_chain, rx_landed, rx_cb, rx_done_q,
                 post_n, pending, arrived, dropped, taken, left_out, tx_vars,
                 faults>>

(* Defect: the slot is freed but none is posted.                           *)
post_none == RX_RING_DEPTH

(* post_rx_locked starts with n = 0.                                       *)
post_start == 0

free_and_post(t) ==
  /\ rx' = turned(rx, pending[t].slot, "free")
  /\ pending' = [pending EXCEPT ![t] = no_pending]
  /\ rx_mutex' = t /\ post_n' = post_start
  /\ goto(t, "post")
  /\ UNCHANGED <<rx_post_cursor, rx_chain, rx_landed, rx_cb, rx_done_q,
                 arrived, dropped, taken, left_out, tx_vars, faults>>

copy_rest(t) == pc[t] = "rx_copy" /\ free_and_post(t)

axismsg_release(t) ==
  /\ pc[t] = "idle" /\ rx_mutex = "none" /\ pending[t] # no_pending
  /\ free_and_post(t)

(* A signal ends a wait.                                                   *)
signal(t) ==
  /\ pc[t] \in {"tx_sleep", "rx_sleep"}
  /\ goto(t, "idle")
  /\ UNCHANGED <<tx_vars, rx_vars, faults>>
-----------------------------------------------------------------------------
calls(t) ==
  \/ find_free_tx(t) \/ wait_for_tx(t)
  \/ continue_rx(t) \/ take_rx(t) \/ wait_for_rx(t) \/ axismsg_release(t)
  \/ signal(t)

(* A system call that holds a mutex.                                       *)
goes_on(t) ==
  \/ queue_tx(t) \/ copy_from_user_fails(t) \/ schedule_tx(t)
  \/ copy_part(t) \/ copy_rest(t)

tx_steps ==
  \/ tx_workfn \/ tx_workfn_wakes \/ tx_transmitted \/ tx_done_cb
  \/ tx_done_cb_wakes

rx_steps ==
  \/ post_rx_one \/ post_rx_returns \/ rx_done_cb \/ rx_done_cb_locked
  \/ rx_done_cb_wakes

Next ==
  \/ \E t \in Threads : calls(t) \/ goes_on(t)
  \/ tx_steps \/ rx_steps \/ frame_arrives

Spec == Init /\ [][Next]_vars

(* The kernel runs what is scheduled and raised, the engine transmits what *)
(* it was given, and a system call goes on unless it sleeps.               *)
FairSpec ==
  /\ Spec
  /\ WF_vars(tx_workfn) /\ WF_vars(tx_workfn_wakes)
  /\ WF_vars(tx_transmitted) /\ WF_vars(tx_done_cb)
  /\ WF_vars(tx_done_cb_wakes)
  /\ WF_vars(post_rx_one) /\ WF_vars(post_rx_returns)
  /\ WF_vars(rx_done_cb) /\ WF_vars(rx_done_cb_locked)
  /\ WF_vars(rx_done_cb_wakes)
  /\ \A t \in Threads : WF_vars(goes_on(t))
-----------------------------------------------------------------------------
TxSlot == [state : {"free", "queued", "active", "done"}, message : Nat]
RxSlot == [state : {"free", "posted", "done"}, message : Nat]

TxTypeOK ==
  /\ tx \in [TxSlots -> TxSlot]
  /\ tx_enqueue_cursor \in TxSlots /\ tx_pick_cursor \in TxSlots
  /\ tx_active \in TxSlots \cup {NoSlot} /\ tx_done_q \in Seq(TxSlots)
  /\ tx_complete \in BOOLEAN /\ tx_notify \in BOOLEAN
  /\ tx_work \in BOOLEAN /\ tx_work_notify \in BOOLEAN
  /\ tx_mutex \in Threads \cup {"none"}
  /\ tx_slot \in [Threads -> TxSlots \cup {NoSlot}]
  /\ accepted \in Nat /\ sent \in Seq(Nat) /\ stalled \in BOOLEAN

RxTypeOK ==
  /\ rx \in [RxSlots -> RxSlot]
  /\ rx_post_cursor \in RxSlots /\ post_n \in 0 .. RX_RING_DEPTH
  /\ rx_chain \in Seq(RxSlots) /\ rx_landed \in Seq(RxSlots)
  /\ rx_done_q \in Seq(RxSlots)
  /\ rx_cb \in [stage : {"idle", "lock", "notify"},
                slot : RxSlots \cup {NoSlot}, message : Nat]
  /\ rx_mutex \in Threads \cup {"none", "probe"}
  /\ pending \in [Threads ->
                    [slot : RxSlots \cup {NoSlot}, message : Nat]]
  /\ arrived \in Nat /\ dropped \in Nat /\ taken \in Seq(Nat)
  /\ left_out \in Int

PcTypeOK ==
  /\ pc \in [Threads -> {"idle", "tx_sleep", "tx_copy", "tx_schedule",
                        "rx_sleep", "rx_copy", "post"}]
  /\ faults \in Nat

(* Types, cursors within their rings, and no slot where there is none.     *)
TypeOK == TxTypeOK /\ RxTypeOK /\ PcTypeOK

untransmitted ==
  tx_in("queued") \cup (IF tx_complete THEN {} ELSE tx_in("active"))

(* Every message that write has accepted is transmitted once: it is in one *)
(* slot, or it has gone out, whichever copies and submissions have failed. *)
TxExactlyOnce ==
  /\ {sent[k] : k \in DOMAIN sent} \cup {tx[s].message : s \in untransmitted}
       = 1 .. accepted
  /\ \A j, k \in DOMAIN sent : j # k => sent[j] # sent[k]
  /\ \A s \in untransmitted :
       /\ \A k \in DOMAIN sent : sent[k] # tx[s].message
       /\ \A r \in untransmitted \ {s} : tx[r].message # tx[s].message

(* Messages go out in the order in which write accepted them, unless a     *)
(* failed copy, preparation or submission has moved a cursor past a slot.  *)
TxInOrder == faults = 0 => \A k \in DOMAIN sent : sent[k] = k

(* No wake-up is lost: while a thread sleeps, what it waits for has not    *)
(* come, or who must wake it has still to do so.                           *)
NoSleeperForgotten ==
  \A t \in Threads :
    /\ pc[t] = "tx_sleep" /\ any_free_tx =>
         tx_work \/ tx_work_notify \/ tx_notify
    /\ pc[t] = "rx_sleep" /\ rx_done_q # << >> => rx_cb.stage = "notify"

(* A buffer that a descriptor is reading, in one call or in several, is    *)
(* neither posted nor read by another, and keeps its message.              *)
ReadBufferIsKept ==
  \A t \in Threads :
    pending[t] # no_pending =>
      /\ rx[pending[t].slot] = slot_record("done", pending[t].message)
      /\ \A k \in DOMAIN rx_done_q : rx_done_q[k] # pending[t].slot
      /\ \A u \in Threads \ {t} : pending[u].slot # pending[t].slot

(* Well formed frames are taken in the order in which they came, each once *)
(* and none left out, whichever threads take them.                         *)
RxInOrder ==
  /\ \A k \in DOMAIN taken : taken[k] = k
  /\ arrived = Len(taken) + Len(rx_done_q)
                 + Cardinality({k \in DOMAIN rx_landed :
                                  rx[rx_landed[k]].message # NoMessage})
                 + (IF rx_cb.stage = "lock" /\ rx_cb.message # NoMessage
                    THEN 1 ELSE 0)

(* Neither direction reorders messages, although slots are reused while    *)
(* callbacks, work and several threads are underway.                       *)
MessagesInOrder == TxInOrder /\ RxInOrder

(* Slots are lost to the ring only by malformed frames and by failures to  *)
(* post: post_rx_locked passes over slots as its cursor moves, but after   *)
(* what probe's pass has left out, no pass leaves out one more.            *)
SlotsAreNotLost ==
  ~posting => Cardinality(rx_in("free")) <= left_out + dropped + faults

(* A message that write has accepted is transmitted, unless a transmission *)
(* could not be started and no one ever tries again.                       *)
EveryWriteIsSent ==
  \A m \in 1 .. MaxMessages :
    accepted >= m ~> \/ \E k \in DOMAIN sent : sent[k] = m
                    \/ []stalled
=============================================================================
