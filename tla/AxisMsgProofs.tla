--------------------------- MODULE AxisMsgProofs ---------------------------
(***************************************************************************)
(* What holds of the driver for rings of any depth, any number of threads, *)
(* messages and faults.                                                    *)
(***************************************************************************)
EXTENDS AxisMsg, FiniteSetTheorems, TLAPS

(* Who holds a slot of the transmit ring: the engine the active one, the   *)
(* queue of done slots the done ones, and a writer a free one, under the   *)
(* mutex.                                                                  *)
TxInv ==
  /\ tx_complete => tx_active # NoSlot
  /\ \A s \in TxSlots : tx[s].state = "active" <=> s = tx_active
  /\ \A k \in DOMAIN tx_done_q : tx[tx_done_q[k]].state = "done"
  /\ \A t \in Threads :
       pc[t] \in {"tx_copy", "tx_schedule"} => tx_mutex = t
  /\ \A t \in Threads :
       pc[t] = "tx_copy" =>
         tx_slot[t] \in TxSlots /\ tx[tx_slot[t]].state = "free"

unique(q) == \A j, k \in DOMAIN q : q[j] = q[k] => j = k
apart(p, q) == \A j \in DOMAIN p, k \in DOMAIN q : p[j] # q[k]
lacks(q, s) == \A k \in DOMAIN q : q[k] # s
all_in(q, state) == \A k \in DOMAIN q : rx[q[k]].state = state

(* Who holds a slot of the receive ring: a posted one is in one place of   *)
(* the engine or in its callback, a done one in one place of the queue or  *)
(* with one reader.                                                        *)
EngineInv ==
  /\ unique(rx_chain) /\ unique(rx_landed) /\ apart(rx_chain, rx_landed)
  /\ all_in(rx_chain, "posted") /\ all_in(rx_landed, "posted")

CallbackInv ==
  rx_cb.stage = "lock" =>
    /\ rx_cb.slot \in RxSlots /\ rx[rx_cb.slot].state = "posted"
    /\ lacks(rx_chain, rx_cb.slot) /\ lacks(rx_landed, rx_cb.slot)

DoneInv == unique(rx_done_q) /\ all_in(rx_done_q, "done")

PendingInv ==
  \A t \in Threads :
    pending[t] # no_pending =>
      /\ pending[t].slot \in RxSlots
      /\ rx[pending[t].slot] = slot_record("done", pending[t].message)
      /\ lacks(rx_done_q, pending[t].slot)
      /\ \A u \in Threads \ {t} : pending[u].slot # pending[t].slot

ReaderInv == \A t \in Threads : pc[t] = "rx_copy" => pending[t] # no_pending

RxInv == EngineInv /\ CallbackInv /\ DoneInv /\ PendingInv /\ ReaderInv
-----------------------------------------------------------------------------
(* Arithmetic of the rings.                                                *)
LEMMA AfterInRing ==
  ASSUME NEW depth \in Nat \ {0}, NEW slot \in Nat
  PROVE  after(slot, depth) \in 0 .. depth - 1
BY DEF after

(* A TX cursor stays in its ring.                                          *)
LEMMA TxCursor == ASSUME NEW s \in TxSlots PROVE after(s, TX_RING_DEPTH) \in TxSlots
BY AfterInRing, AxisMsgAssumption DEF TxSlots

(* An RX cursor stays in its ring.                                         *)
LEMMA RxCursor == ASSUME NEW s \in RxSlots PROVE after(s, RX_RING_DEPTH) \in RxSlots
BY AfterInRing, AxisMsgAssumption DEF RxSlots

(* The slot that a posting looks at is in the ring.                        *)
LEMMA PostSlotInRing ==
  ASSUME rx_post_cursor \in RxSlots, post_n \in 0 .. RX_RING_DEPTH
  PROVE  post_slot \in RxSlots
BY AxisMsgAssumption DEF post_slot, RxSlots

(* The name for no slot names none.                                        *)
LEMMA NoSlotApart == NoSlot \notin TxSlots /\ NoSlot \notin RxSlots
BY DEF NoSlot, TxSlots, RxSlots

(* Reaping frees slots of the queue and leaves the others alone.           *)
LEMMA Reaping ==
  ASSUME TxTypeOK
  PROVE  /\ reaped \in [TxSlots -> TxSlot]
         /\ \A s \in TxSlots :
              \/ reaped[s] = tx[s]
              \/ /\ reaped[s].state = "free"
                 /\ \E k \in DOMAIN tx_done_q : tx_done_q[k] = s
         /\ \A s \in TxSlots :
              reaped[s].state # "free" => reaped[s] = tx[s]
BY DEF TxTypeOK, TxSlot, reaped, slot_record, NoMessage

(* A slot that changes state keeps its message; the others stay.           *)
LEMMA Turning ==
  ASSUME NEW Slot, NEW Slots, NEW slots \in [Slots -> [state : Slot, message : Nat]],
         NEW s \in Slots, NEW state \in Slot
  PROVE  /\ turned(slots, s, state) \in [Slots -> [state : Slot, message : Nat]]
         /\ turned(slots, s, state)[s] = slot_record(state, slots[s].message)
         /\ \A r \in Slots \ {s} : turned(slots, s, state)[r] = slots[r]
BY DEF turned, slot_record

(* Every step leaves a thread at a label.                                  *)
LEMMA PcStep == PcTypeOK /\ [Next]_vars => PcTypeOK'
<1> SUFFICES ASSUME PcTypeOK, [Next]_vars PROVE PcTypeOK'
  OBVIOUS
<1> USE DEF PcTypeOK, goto
<1>1. ASSUME NEW t \in Threads, calls(t) \/ goes_on(t)
      PROVE  PcTypeOK'
  BY <1>1 DEF calls, goes_on, find_free_tx, wait_for_tx, continue_rx, take_rx,
    wait_for_rx, axismsg_release, free_and_post, signal, queue_tx,
    copy_from_user_fails, schedule_tx, copy_part, copy_rest, fault
<1>2. ASSUME tx_steps
      PROVE  PcTypeOK'
  BY <1>2 DEF tx_steps, tx_workfn, tx_workfn_wakes, tx_transmitted,
    tx_done_cb, tx_done_cb_wakes, wake_tx, wake, no_kick, kick_one_tx, fault
<1>3. ASSUME rx_steps \/ frame_arrives
      PROVE  PcTypeOK'
  BY <1>3 DEF rx_steps, post_rx_one, post_rx_returns, rx_done_cb,
    rx_done_cb_locked, rx_done_cb_wakes, wake_rx, wake, frame_arrives, fault
<1>4. CASE UNCHANGED vars
  BY <1>4 DEF vars
<1>5. QED
  BY <1>1, <1>2, <1>3, <1>4 DEF Next

-----------------------------------------------------------------------------
(* The transmit ring.                                                      *)

(* What a step of the receiving half may do to the threads.                *)
no_writer_moves ==
  \A t \in Threads :
    pc'[t] \in {"tx_copy", "tx_schedule"} => pc'[t] = pc[t]

(* A step that touches neither the TX ring nor a writer keeps it right.    *)
LEMMA TxApart ==
  ASSUME TxTypeOK, TxInv, UNCHANGED tx_vars, no_writer_moves
  PROVE  TxTypeOK' /\ TxInv'
<1>1. TxTypeOK'
  BY DEF TxTypeOK, tx_vars
<1>2. TxInv'
  BY DEF TxInv, tx_vars, no_writer_moves
<1>3. QED
  BY <1>1, <1>2

(* The receiving steps leave the writers where they are.                   *)
LEMMA RxStepsAreApart ==
  ASSUME PcTypeOK,
         \/ \E t \in Threads :
              \/ wait_for_tx(t) \/ continue_rx(t) \/ take_rx(t)
              \/ wait_for_rx(t) \/ axismsg_release(t) \/ signal(t)
              \/ copy_part(t) \/ copy_rest(t)
         \/ rx_steps \/ frame_arrives
  PROVE  UNCHANGED tx_vars /\ no_writer_moves
<1>1. ASSUME NEW t \in Threads,
             \/ wait_for_tx(t) \/ continue_rx(t) \/ take_rx(t)
             \/ wait_for_rx(t) \/ axismsg_release(t) \/ signal(t)
             \/ copy_part(t) \/ copy_rest(t)
      PROVE  UNCHANGED tx_vars /\ no_writer_moves
  BY <1>1 DEF PcTypeOK, no_writer_moves, goto, wait_for_tx, continue_rx,
    take_rx, wait_for_rx, axismsg_release, free_and_post, signal, copy_part,
    copy_rest
<1>2. ASSUME rx_steps \/ frame_arrives
      PROVE  UNCHANGED tx_vars /\ no_writer_moves
  BY <1>2 DEF PcTypeOK, no_writer_moves, rx_steps, post_rx_one,
    post_rx_returns, rx_done_cb, rx_done_cb_locked, rx_done_cb_wakes, wake_rx,
    wake, frame_arrives
<1>3. QED
  BY <1>1, <1>2

(* The work function types what it does not pick.                          *)
LEMMA Workfn ==
  ASSUME TxTypeOK, tx_workfn, tx' \in [TxSlots -> TxSlot],
         tx_pick_cursor' \in TxSlots, tx_active' \in TxSlots \cup {NoSlot},
         stalled' \in BOOLEAN
  PROVE  TxTypeOK'
<1>1. /\ tx_done_q' \in Seq(TxSlots)
      /\ tx_work' \in BOOLEAN /\ tx_work_notify' \in BOOLEAN
  <2>1. tx_done_q' = << >> /\ tx_work' = FALSE /\ tx_work_notify' = TRUE
    BY DEF tx_workfn
  <2>2. << >> \in Seq(TxSlots)
    OBVIOUS
  <2>3. QED
    BY <2>1, <2>2, Zenon
<1>2. /\ tx_enqueue_cursor' \in TxSlots /\ tx_complete' \in BOOLEAN
      /\ tx_notify' \in BOOLEAN /\ tx_mutex' \in Threads \cup {"none"}
      /\ tx_slot' \in [Threads -> TxSlots \cup {NoSlot}]
      /\ accepted' \in Nat /\ sent' \in Seq(Nat)
  BY DEF tx_workfn, TxTypeOK
<1>3. QED
  BY <1>1, <1>2 DEF TxTypeOK

(* Every step keeps the TX ring right.                                     *)
LEMMA TxStep ==
  TxTypeOK /\ TxInv /\ PcTypeOK /\ [Next]_vars => TxTypeOK' /\ TxInv'
<1> SUFFICES ASSUME TxTypeOK, TxInv, PcTypeOK, [Next]_vars
             PROVE  TxTypeOK' /\ TxInv'
  OBVIOUS
<1>1. ASSUME NEW t \in Threads, find_free_tx(t)
      PROVE  TxTypeOK' /\ TxInv'
  <2>1. PICK slot \in TxSlots :
          /\ reaped[slot].state = "free"
          /\ tx_slot' = [tx_slot EXCEPT ![t] = slot]
          /\ tx_enqueue_cursor' = after(slot, TX_RING_DEPTH)
    BY <1>1 DEF find_free_tx, first_from, free_after_reaping
  <2>2. TxTypeOK'
    BY <1>1, <2>1, Reaping, TxCursor DEF TxTypeOK, find_free_tx
  <2>3. /\ \A s \in TxSlots : tx'[s].state = "active" <=> s = tx_active'
        /\ \A k \in DOMAIN tx_done_q' : tx'[tx_done_q'[k]].state = "done"
        /\ tx_complete' => tx_active' # NoSlot
    BY <1>1, Reaping DEF TxInv, TxTypeOK, find_free_tx
  <2>4. \A u \in Threads :
          pc'[u] \in {"tx_copy", "tx_schedule"} => u = t /\ tx_mutex' = u
    <3>1. \A u \in Threads : pc[u] \notin {"tx_copy", "tx_schedule"}
      BY <1>1, AxisMsgAssumption DEF TxInv, find_free_tx
    <3>2. \A u \in Threads \ {t} : pc'[u] = pc[u]
      BY <1>1 DEF find_free_tx, goto, PcTypeOK
    <3>3. tx_mutex' = t
      BY <1>1 DEF find_free_tx
    <3>4. QED
      BY <3>1, <3>2, <3>3
  <2>5. tx_slot'[t] = slot /\ tx'[slot].state = "free"
    BY <1>1, <2>1 DEF find_free_tx, TxTypeOK
  <2>6. QED
    BY <2>2, <2>3, <2>4, <2>5 DEF TxInv
<1>2. ASSUME NEW t \in Threads, queue_tx(t)
      PROVE  TxTypeOK' /\ TxInv'
  <2>1. tx_slot[t] \in TxSlots /\ tx[tx_slot[t]].state = "free"
    BY <1>2 DEF TxInv, queue_tx
  <2>2. /\ tx' \in [TxSlots -> TxSlot]
        /\ tx'[tx_slot[t]].state = "queued"
        /\ \A s \in TxSlots \ {tx_slot[t]} : tx'[s] = tx[s]
    BY <1>2, <2>1 DEF queue_tx, TxTypeOK, TxSlot, slot_record
  <2>3. TxTypeOK'
    BY <1>2, <2>2 DEF TxTypeOK, queue_tx
  <2>4. /\ \A s \in TxSlots : tx'[s].state = "active" <=> s = tx_active'
        /\ tx_complete' => tx_active' # NoSlot
    BY <1>2, <2>1, <2>2 DEF TxInv, queue_tx
  <2>5. \A k \in DOMAIN tx_done_q' : tx'[tx_done_q'[k]].state = "done"
    BY <1>2, <2>1, <2>2 DEF TxInv, TxTypeOK, queue_tx
  <2>6. /\ \A u \in Threads :
             pc'[u] \in {"tx_copy", "tx_schedule"} => tx_mutex' = u
        /\ \A u \in Threads : pc'[u] # "tx_copy"
    BY <1>2 DEF TxInv, PcTypeOK, queue_tx, goto
  <2>7. QED
    BY <2>3, <2>4, <2>5, <2>6 DEF TxInv
<1>3. ASSUME NEW t \in Threads, copy_from_user_fails(t) \/ schedule_tx(t)
      PROVE  TxTypeOK' /\ TxInv'
  <2>1. TxTypeOK'
    BY <1>3 DEF TxTypeOK, copy_from_user_fails, schedule_tx
  <2>2. \A u \in Threads : pc'[u] \notin {"tx_copy", "tx_schedule"}
    BY <1>3 DEF TxInv, PcTypeOK, copy_from_user_fails, schedule_tx, goto
  <2>3. QED
    BY <1>3, <2>1, <2>2 DEF TxInv, copy_from_user_fails, schedule_tx
<1>4. ASSUME tx_workfn
      PROVE  TxTypeOK' /\ TxInv'
  <2>1. CASE no_kick
    <3>1. TxTypeOK'
      <4>1. tx' \in [TxSlots -> TxSlot]
        BY <2>1, Reaping DEF no_kick
      <4>2. QED
        BY <1>4, <2>1, <4>1, Workfn DEF no_kick, TxTypeOK
    <3>2. QED
      BY <1>4, <2>1, <3>1, Reaping DEF TxTypeOK, TxInv, tx_workfn, no_kick
  <2>2. CASE kick_one_tx
    <3>1. PICK slot \in TxSlots :
            /\ tx_active = NoSlot /\ tx[slot].state = "queued"
            /\ tx_pick_cursor' = after(slot, TX_RING_DEPTH)
            /\ stalled' \in BOOLEAN
            /\ \/ tx' = turned(reaped, slot, "active") /\ tx_active' = slot
               \/ tx' = reaped /\ UNCHANGED tx_active
      BY <2>2 DEF kick_one_tx, picked, first_from, tx_in, TxTypeOK
    <3>2. CASE tx' = reaped /\ UNCHANGED tx_active
      <4>1. TxTypeOK'
        <5>1. tx' \in [TxSlots -> TxSlot]
          BY <3>2, Reaping
        <5>2. tx_pick_cursor' \in TxSlots
          BY <3>1, TxCursor
        <5>3. QED
          BY <1>4, <3>1, <3>2, <5>1, <5>2, Workfn
      <4>2. QED
        BY <1>4, <3>2, <4>1, Reaping DEF TxTypeOK, TxInv, tx_workfn
    <3>3. CASE tx' = turned(reaped, slot, "active") /\ tx_active' = slot
      <4>1. /\ tx' \in [TxSlots -> TxSlot]
            /\ tx'[slot].state = "active"
            /\ \A s \in TxSlots \ {slot} : tx'[s] = reaped[s]
        BY <3>3, Reaping DEF TxSlot, turned, slot_record
      <4>2. TxTypeOK'
        <5>1. tx_pick_cursor' \in TxSlots /\ tx_active' \in TxSlots
          BY <3>1, <3>3, TxCursor
        <5>2. QED
          BY <1>4, <3>1, <3>3, <4>1, <5>1, Workfn
      <4>3. /\ \A s \in TxSlots : tx'[s].state = "active" <=> s = tx_active'
            /\ tx_active' # NoSlot
        BY <3>1, <3>3, <4>1, Reaping, NoSlotApart DEF TxInv
      <4>4. \A u \in Threads :
              pc'[u] = "tx_copy" =>
                tx_slot'[u] \in TxSlots /\ tx'[tx_slot'[u]].state = "free"
        BY <1>4, <3>1, <4>1, Reaping DEF TxInv, tx_workfn
      <4>5. QED
        BY <1>4, <4>2, <4>3, <4>4 DEF TxInv, tx_workfn
    <3>4. QED
      BY <3>1, <3>2, <3>3
  <2>3. QED
    BY <1>4, <2>1, <2>2 DEF tx_workfn
<1>5. ASSUME tx_workfn_wakes \/ tx_done_cb_wakes
      PROVE  TxTypeOK' /\ TxInv'
  <2>1. TxTypeOK'
    BY <1>5 DEF TxTypeOK, tx_workfn_wakes, tx_done_cb_wakes
  <2>2. no_writer_moves
    BY <1>5 DEF no_writer_moves, PcTypeOK, tx_workfn_wakes, tx_done_cb_wakes,
      wake_tx, wake
  <2>3. QED
    BY <1>5, <2>1, <2>2 DEF TxInv, no_writer_moves, tx_workfn_wakes,
      tx_done_cb_wakes
<1>6. ASSUME tx_transmitted
      PROVE  TxTypeOK' /\ TxInv'
  <2>1. tx_active \in TxSlots /\ tx[tx_active].message \in Nat
    BY <1>6 DEF tx_transmitted, TxTypeOK, TxSlot
  <2>2. TxTypeOK'
    BY <1>6, <2>1 DEF tx_transmitted, TxTypeOK
  <2>3. QED
    BY <1>6, <2>2 DEF tx_transmitted, TxInv
<1>7. ASSUME tx_done_cb
      PROVE  TxTypeOK' /\ TxInv'
  <2>1. tx_active \in TxSlots /\ tx[tx_active].state = "active"
    BY <1>7 DEF tx_done_cb, TxInv, TxTypeOK
  <2>2. /\ tx' \in [TxSlots -> TxSlot]
        /\ tx'[tx_active].state \in {"free", "done"}
        /\ \A s \in TxSlots \ {tx_active} : tx'[s] = tx[s]
    <3>1. PICK message \in Nat, state \in {"free", "done"} :
            tx' = [tx EXCEPT ![tx_active] = slot_record(state, message)]
      <4>1. tx[tx_active].message \in Nat
        BY <2>1 DEF TxTypeOK, TxSlot
      <4>2. QED
        BY <1>7, <4>1 DEF tx_done_cb, turned, NoMessage
    <3>2. slot_record(state, message) \in TxSlot
      BY DEF slot_record, TxSlot
    <3>3. QED
      BY <2>1, <3>1, <3>2 DEF TxTypeOK, slot_record
  <2>3. TxTypeOK'
    <3>1. tx_done_q' \in Seq(TxSlots)
      <4>1. tx_done_q' \in {tx_done_q, Append(tx_done_q, tx_active)}
        BY <1>7 DEF tx_done_cb
      <4>2. QED
        BY SMTT(60), <2>1, <4>1 DEF TxTypeOK
    <3>2. /\ tx_active' \in TxSlots \cup {NoSlot}
          /\ tx_complete' \in BOOLEAN /\ tx_notify' \in BOOLEAN
      BY <1>7, Zenon DEF tx_done_cb
    <3>3. UNCHANGED <<tx_enqueue_cursor, tx_pick_cursor, tx_work,
                      tx_work_notify, tx_mutex, tx_slot, accepted, sent,
                      stalled>>
      BY <1>7 DEF tx_done_cb
    <3>4. QED
      BY <2>2, <3>1, <3>2, <3>3 DEF TxTypeOK
  <2>4. \A s \in TxSlots : tx'[s].state = "active" <=> s = tx_active'
    BY <1>7, <2>1, <2>2, NoSlotApart DEF tx_done_cb, TxInv
  <2>5. \A k \in DOMAIN tx_done_q' : tx'[tx_done_q'[k]].state = "done"
    <3>1. \A k \in DOMAIN tx_done_q :
            tx_done_q[k] \in TxSlots /\ tx_done_q[k] # tx_active
      BY <2>1 DEF TxInv, TxTypeOK
    <3>2. CASE tx_done_q' = Append(tx_done_q, tx_active)
      BY <1>7, <2>1, <2>2, <3>1, <3>2 DEF tx_done_cb, TxInv, TxTypeOK, turned,
        slot_record
    <3>3. CASE tx_done_q' = tx_done_q
      BY <2>2, <3>1, <3>3 DEF TxInv
    <3>4. QED
      BY <1>7, <3>2, <3>3 DEF tx_done_cb
  <2>6. \A u \in Threads :
          pc'[u] = "tx_copy" =>
            tx_slot'[u] \in TxSlots /\ tx'[tx_slot'[u]].state = "free"
    BY <1>7, <2>1, <2>2 DEF tx_done_cb, TxInv
  <2>7. QED
    BY <1>7, <2>3, <2>4, <2>5, <2>6 DEF tx_done_cb, TxInv
<1>8. CASE UNCHANGED vars
  BY <1>8, TxApart DEF vars, no_writer_moves
<1>9. ASSUME NEW t \in Threads, calls(t) \/ goes_on(t)
      PROVE  TxTypeOK' /\ TxInv'
  BY <1>1, <1>2, <1>3, <1>9, TxApart, RxStepsAreApart DEF calls, goes_on
<1>10. QED
  BY <1>4, <1>5, <1>6, <1>7, <1>8, <1>9, TxApart, RxStepsAreApart
  DEF Next, tx_steps
-----------------------------------------------------------------------------
(* The receive ring.                                                       *)
LEMMA Appending ==
  ASSUME NEW q \in Seq(RxSlots), NEW s \in RxSlots
  PROVE  /\ Append(q, s) \in Seq(RxSlots)
         /\ \A k \in DOMAIN Append(q, s) :
              \/ k \in DOMAIN q /\ Append(q, s)[k] = q[k]
              \/ Append(q, s)[k] = s
         /\ unique(q) /\ lacks(q, s) => unique(Append(q, s))
BY DEF unique, lacks

(* Taking the first slot off a queue moves the others up.                  *)
LEMMA Removing ==
  ASSUME NEW q \in Seq(RxSlots), q # << >>
  PROVE  /\ Head(q) \in RxSlots /\ Tail(q) \in Seq(RxSlots)
         /\ 1 \in DOMAIN q /\ Head(q) = q[1]
         /\ \A k \in DOMAIN Tail(q) :
              k + 1 \in DOMAIN q /\ Tail(q)[k] = q[k + 1]
         /\ unique(q) => unique(Tail(q)) /\ lacks(Tail(q), Head(q))
BY DEF unique, lacks

(* What a step of the transmitting half may do to the threads.             *)
no_reader_moves ==
  \A t \in Threads : pc'[t] = "rx_copy" => pc[t] = "rx_copy"

(* A step that touches neither the RX ring nor a reader keeps it right.    *)
LEMMA RxApart ==
  ASSUME RxTypeOK, RxInv, UNCHANGED rx_vars, no_reader_moves
  PROVE  RxTypeOK' /\ RxInv'
<1>1. RxTypeOK'
  BY DEF RxTypeOK, rx_vars
<1>2. EngineInv' /\ CallbackInv' /\ DoneInv' /\ PendingInv'
  BY DEF RxInv, EngineInv, CallbackInv, DoneInv, PendingInv, rx_vars, unique,
    apart, lacks, all_in
<1>3. ReaderInv'
  BY DEF RxInv, ReaderInv, rx_vars, no_reader_moves
<1>4. QED
  BY <1>1, <1>2, <1>3 DEF RxInv

(* The transmitting steps leave the readers where they are.                *)
LEMMA TxStepsAreApart ==
  ASSUME PcTypeOK,
         \/ \E t \in Threads :
              \/ find_free_tx(t) \/ wait_for_tx(t) \/ wait_for_rx(t)
              \/ signal(t) \/ queue_tx(t) \/ copy_from_user_fails(t)
              \/ schedule_tx(t)
         \/ tx_steps
  PROVE  UNCHANGED rx_vars /\ no_reader_moves
<1>1. ASSUME NEW t \in Threads,
             \/ find_free_tx(t) \/ wait_for_tx(t) \/ wait_for_rx(t)
             \/ signal(t) \/ queue_tx(t) \/ copy_from_user_fails(t)
             \/ schedule_tx(t)
      PROVE  UNCHANGED rx_vars /\ no_reader_moves
  BY <1>1 DEF PcTypeOK, no_reader_moves, goto, find_free_tx, wait_for_tx,
    wait_for_rx, signal, queue_tx, copy_from_user_fails, schedule_tx
<1>2. ASSUME tx_steps
      PROVE  UNCHANGED rx_vars /\ no_reader_moves
  BY <1>2 DEF PcTypeOK, no_reader_moves, tx_steps, tx_workfn,
    tx_workfn_wakes, tx_transmitted, tx_done_cb, tx_done_cb_wakes, wake_tx,
    wake
<1>3. QED
  BY <1>1, <1>2

(* A free slot is nowhere, a posted one is in no queue and no reader's.    *)
LEMMA Apart ==
  ASSUME RxTypeOK, RxInv, NEW slot \in RxSlots
  PROVE  /\ rx[slot].state = "free" =>
              /\ lacks(rx_chain, slot) /\ lacks(rx_landed, slot)
              /\ rx_cb.stage = "lock" => rx_cb.slot # slot
         /\ rx[slot].state # "done" =>
              /\ lacks(rx_done_q, slot)
              /\ \A t \in Threads :
                   pending[t] # no_pending => pending[t].slot # slot
         /\ rx[slot].state = "done" =>
              /\ lacks(rx_chain, slot) /\ lacks(rx_landed, slot)
              /\ rx_cb.stage = "lock" => rx_cb.slot # slot
<1>1. \A s \in RxSlots :
        /\ rx[s].state # "posted" =>
             lacks(rx_chain, s) /\ lacks(rx_landed, s)
        /\ rx[s].state # "done" => lacks(rx_done_q, s)
  BY DEF RxInv, EngineInv, DoneInv, lacks, all_in
<1>2. rx_cb.stage = "lock" => rx[rx_cb.slot].state = "posted"
  BY DEF RxInv, CallbackInv
<1>3. ASSUME NEW t \in Threads, pending[t] # no_pending
      PROVE  rx[pending[t].slot].state = "done"
  <2>1. rx[pending[t].slot] = slot_record("done", pending[t].message)
    BY <1>3 DEF RxInv, PendingInv
  <2>2. QED
    BY <2>1 DEF slot_record
<1>4. QED
  BY <1>1, <1>2, <1>3

(* Queues that stay, of slots that stay, stay as they are.                 *)
LEMMA Kept ==
  ASSUME RxTypeOK, NEW q \in Seq(RxSlots), NEW slot \in RxSlots, NEW state,
         lacks(q, slot), all_in(q, state),
         \A s \in RxSlots \ {slot} : rx'[s] = rx[s]
  PROVE  \A k \in DOMAIN q : rx'[q[k]].state = state
BY DEF lacks, all_in

(* Every step keeps the RX ring right.                                     *)
LEMMA RxStep ==
  RxTypeOK /\ RxInv /\ PcTypeOK /\ [Next]_vars => RxTypeOK' /\ RxInv'
<1> SUFFICES ASSUME RxTypeOK, RxInv, PcTypeOK, [Next]_vars
             PROVE  RxTypeOK' /\ RxInv'
  OBVIOUS
<1>1. ASSUME post_rx_one
      PROVE  RxTypeOK' /\ RxInv'
  <2> DEFINE slot == post_slot
  <2>1. post_n' \in 0 .. RX_RING_DEPTH
    BY <1>1, AxisMsgAssumption DEF post_rx_one, RxTypeOK
  <2>2. CASE UNCHANGED <<rx, rx_chain, rx_post_cursor>>
    <3>1. RxTypeOK'
      BY <1>1, <2>1, <2>2 DEF RxTypeOK, post_rx_one
    <3>2. QED
      BY <1>1, <2>2, <3>1 DEF RxInv, EngineInv, CallbackInv, DoneInv,
        PendingInv, ReaderInv, unique, apart, lacks, all_in, post_rx_one
  <2>3. CASE ~UNCHANGED <<rx, rx_chain, rx_post_cursor>>
    <3>1. slot \in RxSlots /\ rx[slot].state = "free"
      BY <1>1, <2>3, PostSlotInRing DEF post_rx_one, postable, RxTypeOK
    <3>2. PICK state \in {"free", "posted"} :
            /\ rx' = [rx EXCEPT ![slot] = slot_record(state, NoMessage)]
            /\ \/ /\ state = "posted" /\ rx_chain' = Append(rx_chain, slot)
                  /\ rx_post_cursor' = after(slot, RX_RING_DEPTH)
               \/ UNCHANGED <<rx_chain, rx_post_cursor>>
      BY <1>1, <2>3 DEF post_rx_one
    <3> HIDE DEF slot
    <3>3. /\ rx' \in [RxSlots -> RxSlot] /\ rx'[slot].state = state
          /\ \A s \in RxSlots \ {slot} : rx'[s] = rx[s]
      <4>1. slot_record(state, NoMessage) \in RxSlot
        BY DEF slot_record, RxSlot, NoMessage
      <4>2. QED
        BY <3>1, <3>2, <4>1 DEF RxTypeOK, slot_record
    <3>4. /\ rx_chain' \in Seq(RxSlots) /\ rx_post_cursor' \in RxSlots
          /\ unique(rx_chain')
          /\ \A k \in DOMAIN rx_chain' :
               \/ k \in DOMAIN rx_chain /\ rx_chain'[k] = rx_chain[k]
               \/ rx_chain'[k] = slot /\ state = "posted"
      <4>1. CASE UNCHANGED <<rx_chain, rx_post_cursor>>
        BY <4>1 DEF RxTypeOK, RxInv, EngineInv, unique
      <4>2. CASE /\ state = "posted" /\ rx_chain' = Append(rx_chain, slot)
                 /\ rx_post_cursor' = after(slot, RX_RING_DEPTH)
        <5>1. rx_chain \in Seq(RxSlots) /\ lacks(rx_chain, slot)
                /\ unique(rx_chain)
          BY <3>1, Apart DEF RxTypeOK, RxInv, EngineInv
        <5>2. QED
          BY <3>1, <4>2, <5>1, Appending, RxCursor
      <4>3. QED
        BY <3>2, <4>1, <4>2
    <3>5. RxTypeOK'
      BY <1>1, <2>1, <3>3, <3>4 DEF RxTypeOK, post_rx_one
    <3>6. EngineInv'
      <4>1. apart(rx_chain', rx_landed)
        <5>1. lacks(rx_landed, slot)
          BY <3>1, Apart
        <5>2. QED
          BY <3>4, <5>1 DEF RxInv, EngineInv, apart, lacks
      <4>2. \A k \in DOMAIN rx_landed : rx'[rx_landed[k]].state = "posted"
        BY <3>1, <3>3, Apart, Kept DEF RxTypeOK, RxInv, EngineInv
      <4>3. \A k \in DOMAIN rx_chain : rx'[rx_chain[k]].state = "posted"
        BY ZenonT(60), <3>1, <3>3, Apart, Kept DEF RxTypeOK, RxInv, EngineInv
      <4>4. \A k \in DOMAIN rx_chain' : rx'[rx_chain'[k]].state = "posted"
        BY <3>3, <3>4, <4>3
      <4>5. QED
        BY <1>1, <3>4, <4>1, <4>2, <4>4 DEF RxInv, EngineInv, unique, apart, all_in,
          post_rx_one
    <3>7. CallbackInv'
      <4>1. rx_cb.stage = "lock" =>
              /\ rx_cb.slot \in RxSlots /\ rx_cb.slot # slot
              /\ rx'[rx_cb.slot].state = "posted"
              /\ lacks(rx_landed, rx_cb.slot)
        BY <3>1, <3>3, Apart DEF RxInv, CallbackInv
      <4>2. rx_cb.stage = "lock" => lacks(rx_chain', rx_cb.slot)
        BY <3>4, <4>1 DEF RxInv, CallbackInv, lacks
      <4>3. QED
        BY <1>1, <4>1, <4>2 DEF CallbackInv, lacks, post_rx_one
    <3>8. DoneInv'
      <4>1. \A k \in DOMAIN rx_done_q : rx'[rx_done_q[k]].state = "done"
        BY ZenonT(60), <3>1, <3>3, Apart, Kept DEF RxTypeOK, RxInv, DoneInv
      <4>2. QED
        BY <1>1, <4>1 DEF RxInv, DoneInv, unique, all_in, post_rx_one
    <3>9. PendingInv' /\ ReaderInv'
      BY <1>1, <3>1, <3>3, Apart DEF RxInv, PendingInv, ReaderInv, lacks,
        post_rx_one
    <3>10. QED
      BY <3>5, <3>6, <3>7, <3>8, <3>9 DEF RxInv
  <2>4. QED
    BY <2>2, <2>3
<1>2. ASSUME post_rx_returns
      PROVE  RxTypeOK' /\ RxInv'
  <2>1. RxTypeOK'
    BY <1>2 DEF RxTypeOK, post_rx_returns
  <2>2. no_reader_moves
    BY <1>2 DEF no_reader_moves, PcTypeOK, post_rx_returns
  <2>3. QED
    BY <1>2, <2>1, <2>2 DEF RxInv, EngineInv, CallbackInv, DoneInv,
      PendingInv, ReaderInv, unique, apart, lacks, all_in, no_reader_moves,
      post_rx_returns
<1>3. ASSUME frame_arrives
      PROVE  RxTypeOK' /\ RxInv'
  <2> DEFINE slot == Head(rx_chain)
  <2>1. /\ slot \in RxSlots /\ rx[slot].state = "posted"
        /\ rx_chain' = Tail(rx_chain) /\ rx_chain' \in Seq(RxSlots)
        /\ unique(rx_chain') /\ lacks(rx_chain', slot)
        /\ \A k \in DOMAIN rx_chain' :
             k + 1 \in DOMAIN rx_chain /\ rx_chain'[k] = rx_chain[k + 1]
        /\ lacks(rx_landed, slot)
    BY <1>3, Removing DEF RxTypeOK, RxInv, EngineInv, all_in, apart, lacks,
      frame_arrives
  <2>2. /\ arrived' \in Nat /\ dropped' \in Nat
        /\ \E message \in Nat :
             rx' = [rx EXCEPT ![slot] = slot_record("posted", message)]
    <3>1. arrived' \in Nat /\ dropped' \in Nat
      BY SMTT(60), <1>3 DEF RxTypeOK, frame_arrives
    <3>2. QED
      BY <1>3, <3>1 DEF frame_arrives, NoMessage
  <2>3. rx_landed' = Append(rx_landed, slot)
    BY <1>3 DEF frame_arrives
  <2> HIDE DEF slot
  <2>4. /\ rx' \in [RxSlots -> RxSlot] /\ rx'[slot].state = "posted"
        /\ \A s \in RxSlots \ {slot} : rx'[s] = rx[s]
    <3>1. PICK message \in Nat :
            rx' = [rx EXCEPT ![slot] = slot_record("posted", message)]
      BY <2>2
    <3>2. slot_record("posted", message) \in RxSlot
      BY DEF slot_record, RxSlot
    <3>3. QED
      BY <2>1, <3>1, <3>2 DEF RxTypeOK, slot_record
  <2>5. /\ rx_landed' \in Seq(RxSlots) /\ unique(rx_landed')
        /\ \A k \in DOMAIN rx_landed' :
             \/ k \in DOMAIN rx_landed /\ rx_landed'[k] = rx_landed[k]
             \/ rx_landed'[k] = slot
    BY <2>1, <2>3, Appending DEF RxTypeOK, RxInv, EngineInv
  <2>6. RxTypeOK'
    BY <1>3, <2>1, <2>2, <2>4, <2>5 DEF RxTypeOK, frame_arrives
  <2>7. \A s \in RxSlots : rx'[s].state = rx[s].state
    BY <2>1, <2>4 DEF RxTypeOK
  <2>8. EngineInv'
    <3>1. apart(rx_chain', rx_landed')
      BY <2>1, <2>5 DEF RxInv, EngineInv, apart, lacks
    <3>2. \A k \in DOMAIN rx_chain' : rx'[rx_chain'[k]].state = "posted"
      <4>1. \A k \in DOMAIN rx_chain' : rx[rx_chain'[k]].state = "posted"
        BY <2>1 DEF RxInv, EngineInv, all_in
      <4>2. \A k \in DOMAIN rx_chain' : rx_chain'[k] \in RxSlots
        BY <2>1
      <4>3. QED
        BY <2>7, <4>1, <4>2
    <3>3. \A k \in DOMAIN rx_landed' : rx'[rx_landed'[k]].state = "posted"
      <4>1. \A k \in DOMAIN rx_landed' :
              rx_landed'[k] \in RxSlots /\ rx[rx_landed'[k]].state = "posted"
        BY <2>1, <2>5 DEF RxInv, EngineInv, all_in
      <4>2. QED
        BY <2>7, <4>1
    <3>4. QED
      BY <2>1, <2>5, <3>1, <3>2, <3>3 DEF EngineInv, unique, apart, all_in
  <2>9. CallbackInv'
    <3>1. ASSUME rx_cb.stage = "lock"
          PROVE  /\ rx_cb.slot \in RxSlots /\ rx'[rx_cb.slot].state = "posted"
                 /\ rx_cb.slot # slot /\ lacks(rx_chain', rx_cb.slot)
                 /\ lacks(rx_landed', rx_cb.slot)
      <4>1. /\ rx_cb.slot \in RxSlots /\ rx[rx_cb.slot].state = "posted"
            /\ lacks(rx_chain, rx_cb.slot) /\ lacks(rx_landed, rx_cb.slot)
        BY <3>1 DEF RxInv, CallbackInv
      <4>2. rx_cb.slot # slot
        BY <1>3, <4>1, Removing DEF lacks, slot, RxTypeOK, frame_arrives
      <4>3. QED
        BY <2>1, <2>5, <2>7, <4>1, <4>2 DEF lacks
    <3>2. QED
      BY <1>3, <3>1 DEF CallbackInv, lacks, frame_arrives
  <2>10. DoneInv'
    BY <1>3, <2>7 DEF RxInv, DoneInv, unique, all_in, RxTypeOK, frame_arrives
  <2>11. PendingInv' /\ ReaderInv'
    BY <1>3, <2>1, <2>4, Apart DEF RxInv, PendingInv, ReaderInv, lacks,
      frame_arrives
  <2>12. QED
    BY <2>6, <2>8, <2>9, <2>10, <2>11 DEF RxInv
<1>4. ASSUME rx_done_cb
      PROVE  RxTypeOK' /\ RxInv'
  <2> DEFINE slot == Head(rx_landed)
  <2>1. /\ slot \in RxSlots /\ rx[slot].state = "posted"
        /\ rx_landed' = Tail(rx_landed) /\ rx_landed' \in Seq(RxSlots)
        /\ unique(rx_landed') /\ lacks(rx_landed', slot)
        /\ \A k \in DOMAIN rx_landed' :
             k + 1 \in DOMAIN rx_landed /\ rx_landed'[k] = rx_landed[k + 1]
        /\ lacks(rx_chain, slot)
    BY <1>4, Removing DEF RxTypeOK, RxInv, EngineInv, all_in, apart, lacks,
      rx_done_cb
  <2>2. rx_cb' = [stage |-> "lock", slot |-> slot,
                  message |-> rx[slot].message]
    BY <1>4 DEF rx_done_cb
  <2> HIDE DEF slot
  <2>3. RxTypeOK'
    BY <1>4, <2>1, <2>2 DEF RxTypeOK, RxSlot, rx_done_cb
  <2>4. EngineInv'
    BY <1>4, <2>1 DEF RxInv, EngineInv, unique, apart, all_in, rx_done_cb
  <2>5. CallbackInv'
    BY <1>4, <2>1, <2>2 DEF CallbackInv, lacks, rx_done_cb
  <2>6. DoneInv' /\ PendingInv' /\ ReaderInv'
    BY <1>4 DEF RxInv, DoneInv, PendingInv, ReaderInv, unique, all_in, lacks,
      rx_done_cb
  <2>7. QED
    BY <2>3, <2>4, <2>5, <2>6 DEF RxInv
<1>5. ASSUME rx_done_cb_locked
      PROVE  RxTypeOK' /\ RxInv'
  <2> DEFINE slot == rx_cb.slot
  <2>1. /\ slot \in RxSlots /\ rx[slot].state = "posted"
        /\ lacks(rx_chain, slot) /\ lacks(rx_landed, slot)
    BY <1>5 DEF RxInv, CallbackInv, rx_done_cb_locked
  <2>2. \/ /\ rx' = turned(rx, slot, "done")
           /\ rx_done_q' = Append(rx_done_q, slot)
        \/ /\ rx' = turned(rx, slot, "free")
           /\ UNCHANGED rx_done_q
    BY <1>5 DEF rx_done_cb_locked, enqueue_rx_done
  <2>3. rx_cb' = [stage |-> "notify", slot |-> NoSlot, message |-> NoMessage]
    BY <1>5 DEF rx_done_cb_locked, no_callback
  <2> HIDE DEF slot
  <2>4. /\ rx' \in [RxSlots -> RxSlot]
        /\ \A s \in RxSlots \ {slot} : rx'[s] = rx[s]
        /\ rx_done_q' # rx_done_q => rx'[slot].state = "done"
    <3>1. PICK state \in {"free", "done"} :
            /\ rx' = turned(rx, slot, state)
            /\ state = "done" \/ UNCHANGED rx_done_q
      BY <2>2
    <3>2. rx[slot].message \in Nat
      BY <2>1 DEF RxTypeOK, RxSlot
    <3>3. slot_record(state, rx[slot].message) \in RxSlot
      BY <3>2 DEF slot_record, RxSlot
    <3>4. /\ rx' \in [RxSlots -> RxSlot] /\ rx'[slot].state = state
          /\ \A s \in RxSlots \ {slot} : rx'[s] = rx[s]
      BY <2>1, <3>1, <3>3 DEF RxTypeOK, turned, slot_record
    <3>5. QED
      BY <3>1, <3>4
  <2>5. rx_done_q' \in Seq(RxSlots)
    BY ZenonT(60), <2>1, <2>2, Appending DEF RxTypeOK
  <2>6. RxTypeOK'
    <3>1. rx_cb' \in [stage : {"idle", "lock", "notify"},
                      slot : RxSlots \cup {NoSlot}, message : Nat]
      BY <2>3 DEF NoMessage
    <3>2. QED
      BY <1>5, <2>4, <2>5, <3>1 DEF RxTypeOK, rx_done_cb_locked
  <2>7. EngineInv'
    <3>1. /\ \A k \in DOMAIN rx_chain : rx'[rx_chain[k]].state = "posted"
          /\ \A k \in DOMAIN rx_landed : rx'[rx_landed[k]].state = "posted"
      BY <2>1, <2>4, Kept DEF RxInv, EngineInv, RxTypeOK
    <3>2. QED
      BY <1>5, <3>1 DEF RxInv, EngineInv, unique, apart, all_in,
        rx_done_cb_locked
  <2>8. CallbackInv'
    BY <2>3 DEF CallbackInv
  <2>9. DoneInv'
    <3>1. \A k \in DOMAIN rx_done_q : rx'[rx_done_q[k]].state = "done"
      BY ZenonT(60), <2>1, <2>4, Apart, Kept DEF RxInv, DoneInv, RxTypeOK
    <3>2. CASE UNCHANGED rx_done_q
      BY <3>1, <3>2 DEF RxInv, DoneInv, unique, all_in
    <3>3. CASE rx_done_q' # rx_done_q
      <4>1. rx_done_q' = Append(rx_done_q, slot) /\ rx'[slot].state = "done"
        BY <2>2, <2>4, <3>3
      <4>2. unique(rx_done_q')
        BY <2>1, <4>1, Apart, Appending DEF RxInv, DoneInv, RxTypeOK
      <4>3. \A k \in DOMAIN rx_done_q' : rx'[rx_done_q'[k]].state = "done"
        BY <2>1, <3>1, <4>1, Appending DEF RxTypeOK
      <4>4. QED
        BY <4>2, <4>3 DEF DoneInv, unique, all_in
    <3>4. QED
      BY <3>2, <3>3
  <2>10. PendingInv' /\ ReaderInv'
    <3>1. UNCHANGED pending /\ UNCHANGED pc
      BY <1>5 DEF rx_done_cb_locked
    <3>2. \A t \in Threads :
            pending[t] # no_pending =>
              /\ pending[t].slot # slot
              /\ lacks(rx_done_q', pending[t].slot)
      <4>1. \A k \in DOMAIN rx_done_q' :
              \/ k \in DOMAIN rx_done_q /\ rx_done_q'[k] = rx_done_q[k]
              \/ rx_done_q'[k] = slot
        BY <2>1, <2>2, Appending DEF RxTypeOK
      <4>2. QED
        BY <2>1, <4>1, Apart DEF RxInv, PendingInv, lacks
    <3>3. QED
      BY <2>4, <3>1, <3>2 DEF RxInv, PendingInv, ReaderInv, lacks
  <2>11. QED
    BY <2>6, <2>7, <2>8, <2>9, <2>10 DEF RxInv
<1>6. ASSUME rx_done_cb_wakes
      PROVE  RxTypeOK' /\ RxInv'
  <2>1. rx_cb' = [stage |-> "idle", slot |-> NoSlot, message |-> NoMessage]
    BY <1>6 DEF rx_done_cb_wakes, no_callback
  <2>2. RxTypeOK'
    <3>1. rx_cb' \in [stage : {"idle", "lock", "notify"},
                      slot : RxSlots \cup {NoSlot}, message : Nat]
      BY <2>1 DEF NoMessage
    <3>2. QED
      BY <1>6, <3>1 DEF RxTypeOK, rx_done_cb_wakes
  <2>3. no_reader_moves
    BY <1>6 DEF no_reader_moves, PcTypeOK, rx_done_cb_wakes, wake_rx, wake
  <2>4. QED
    BY <1>6, <2>1, <2>2, <2>3 DEF RxInv, EngineInv, CallbackInv, DoneInv,
      PendingInv, ReaderInv, unique, apart, lacks, all_in, no_reader_moves,
      rx_done_cb_wakes
<1>7. ASSUME NEW t \in Threads, continue_rx(t) \/ copy_part(t)
      PROVE  RxTypeOK' /\ RxInv'
  <2>1. RxTypeOK'
    BY <1>7 DEF RxTypeOK, continue_rx, copy_part
  <2>2. ReaderInv'
    BY <1>7 DEF RxInv, ReaderInv, PcTypeOK, continue_rx, copy_part, goto
  <2>3. QED
    BY <1>7, <2>1, <2>2 DEF RxInv, EngineInv, CallbackInv, DoneInv,
      PendingInv, unique, apart, lacks, all_in, continue_rx, copy_part
<1>8. ASSUME NEW t \in Threads, take_rx(t)
      PROVE  RxTypeOK' /\ RxInv'
  <2> DEFINE slot == Head(rx_done_q)
  <2>1. /\ slot \in RxSlots /\ rx[slot].state = "done"
        /\ rx_done_q' = Tail(rx_done_q) /\ rx_done_q' \in Seq(RxSlots)
        /\ unique(rx_done_q') /\ lacks(rx_done_q', slot)
        /\ \A k \in DOMAIN rx_done_q' :
             k + 1 \in DOMAIN rx_done_q /\ rx_done_q'[k] = rx_done_q[k + 1]
        /\ 1 \in DOMAIN rx_done_q /\ slot = rx_done_q[1]
    BY <1>8, Removing DEF RxTypeOK, RxInv, DoneInv, all_in, take_rx
  <2>2. /\ pending' =
             [pending EXCEPT ![t] = holding(slot, rx[slot].message)]
        /\ taken' = Append(taken, rx[slot].message)
    BY <1>8 DEF take_rx
  <2> HIDE DEF slot
  <2>3. rx[slot].message \in Nat
        /\ rx[slot] = slot_record("done", rx[slot].message)
    BY <2>1 DEF RxTypeOK, RxSlot, slot_record
  <2>4. /\ pending' \in [Threads ->
                           [slot : RxSlots \cup {NoSlot}, message : Nat]]
        /\ pending'[t].slot = slot /\ pending'[t].message = rx[slot].message
        /\ \A u \in Threads \ {t} : pending'[u] = pending[u]
    <3>1. holding(slot, rx[slot].message)
            \in [slot : RxSlots \cup {NoSlot}, message : Nat]
      BY <2>1, <2>3 DEF holding
    <3>2. QED
      BY <2>2, <3>1 DEF RxTypeOK, holding
  <2>5. RxTypeOK'
    BY <1>8, <2>1, <2>2, <2>3, <2>4 DEF RxTypeOK, take_rx
  <2>6. EngineInv' /\ CallbackInv' /\ DoneInv'
    BY <1>8, <2>1 DEF RxInv, EngineInv, CallbackInv, DoneInv, unique, apart,
      all_in, lacks, take_rx
  <2>7. \A u \in Threads \ {t} :
          pending[u].slot # slot
    <3>1. ASSUME NEW u \in Threads, pending[u] # no_pending
          PROVE  pending[u].slot # slot
      BY <2>1, <3>1 DEF RxInv, PendingInv, lacks
    <3>2. ASSUME NEW u \in Threads, pending[u] = no_pending
          PROVE  pending[u].slot # slot
      BY <2>1, <3>2, NoSlotApart DEF no_pending, holding
    <3>3. QED
      BY <3>1, <3>2
  <2>8. PendingInv'
    BY <1>8, <2>1, <2>3, <2>4, <2>7 DEF RxInv, PendingInv, lacks, take_rx
  <2>9. ReaderInv'
    <3>1. pending'[t] # no_pending
      BY <2>1, <2>4, NoSlotApart DEF no_pending, holding
    <3>2. \A u \in Threads \ {t} : pc'[u] = pc[u]
      BY <1>8 DEF take_rx, goto, PcTypeOK
    <3>3. QED
      BY <2>4, <3>1, <3>2 DEF RxInv, ReaderInv
  <2>10. QED
    BY <2>5, <2>6, <2>8, <2>9 DEF RxInv
<1>9. ASSUME NEW t \in Threads, copy_rest(t) \/ axismsg_release(t)
      PROVE  RxTypeOK' /\ RxInv'
  <2> DEFINE slot == pending[t].slot
  <2>1. pending[t] # no_pending /\ free_and_post(t)
    BY <1>9 DEF RxInv, ReaderInv, copy_rest, axismsg_release
  <2>2. /\ slot \in RxSlots /\ rx[slot].state = "done"
        /\ lacks(rx_done_q, slot)
        /\ \A u \in Threads \ {t} : pending[u].slot # slot
    <3>1. /\ slot \in RxSlots
          /\ rx[slot] = slot_record("done", pending[t].message)
          /\ lacks(rx_done_q, slot)
          /\ \A u \in Threads \ {t} : pending[u].slot # slot
      BY <2>1 DEF RxInv, PendingInv
    <3>2. QED
      BY <3>1 DEF slot_record
  <2>3. /\ rx' = turned(rx, slot, "free")
        /\ pending' = [pending EXCEPT ![t] = no_pending]
    BY <2>1 DEF free_and_post
  <2> HIDE DEF slot
  <2>4. /\ rx' \in [RxSlots -> RxSlot]
        /\ \A s \in RxSlots \ {slot} : rx'[s] = rx[s]
    <3>1. rx[slot].message \in Nat
      BY <2>2 DEF RxTypeOK, RxSlot
    <3>2. slot_record("free", rx[slot].message) \in RxSlot
      BY <3>1 DEF slot_record, RxSlot
    <3>3. QED
      BY <2>2, <2>3, <3>2 DEF RxTypeOK, turned
  <2>5. /\ pending' \in [Threads ->
                           [slot : RxSlots \cup {NoSlot}, message : Nat]]
        /\ pending'[t] = no_pending
        /\ \A u \in Threads \ {t} : pending'[u] = pending[u]
    <3>1. no_pending \in [slot : RxSlots \cup {NoSlot}, message : Nat]
      BY DEF no_pending, holding, NoMessage
    <3>2. QED
      BY <2>3, <3>1 DEF RxTypeOK
  <2>6. RxTypeOK'
    <3>1. rx_mutex' = t /\ post_n' = 0
      BY <2>1 DEF free_and_post, post_start
    <3>2. post_n' \in 0 .. RX_RING_DEPTH
      BY <3>1, AxisMsgAssumption
    <3>3. QED
      BY <2>1, <2>4, <2>5, <3>1, <3>2 DEF RxTypeOK, free_and_post
  <2>7. EngineInv'
    <3>1. /\ \A k \in DOMAIN rx_chain : rx'[rx_chain[k]].state = "posted"
          /\ \A k \in DOMAIN rx_landed : rx'[rx_landed[k]].state = "posted"
      BY <2>2, <2>4, Apart, Kept DEF RxInv, EngineInv, RxTypeOK
    <3>2. QED
      BY <2>1, <3>1 DEF RxInv, EngineInv, unique, apart, all_in,
        free_and_post
  <2>8. CallbackInv'
    <3>1. rx_cb.stage = "lock" => rx_cb.slot # slot
      BY <2>2, Apart
    <3>2. QED
      BY <2>1, <2>4, <3>1 DEF RxInv, CallbackInv, lacks, free_and_post
  <2>9. DoneInv'
    <3>1. \A k \in DOMAIN rx_done_q : rx'[rx_done_q[k]].state = "done"
      BY <2>2, <2>4, Kept DEF RxInv, DoneInv, RxTypeOK
    <3>2. QED
      BY <2>1, <3>1 DEF RxInv, DoneInv, unique, all_in, free_and_post
  <2>10. PendingInv'
    <3>1. no_pending.slot = NoSlot
      BY DEF no_pending, holding
    <3>2. QED
      BY <2>1, <2>2, <2>4, <2>5, <3>1, NoSlotApart DEF RxInv, PendingInv,
        lacks, free_and_post
  <2>11. ReaderInv'
    <3>1. /\ pc'[t] # "rx_copy"
          /\ \A u \in Threads \ {t} : pc'[u] = pc[u]
      BY <2>1 DEF free_and_post, goto, PcTypeOK
    <3>2. QED
      BY <2>5, <3>1 DEF RxInv, ReaderInv
  <2>12. QED
    BY <2>6, <2>7, <2>8, <2>9, <2>10, <2>11 DEF RxInv
<1>10. CASE UNCHANGED vars
  BY <1>10, RxApart DEF vars, no_reader_moves
<1>11. ASSUME NEW t \in Threads, calls(t) \/ goes_on(t)
       PROVE  RxTypeOK' /\ RxInv'
  BY <1>7, <1>8, <1>9, <1>11, RxApart, TxStepsAreApart DEF calls, goes_on
<1>12. QED
  BY <1>1, <1>2, <1>3, <1>4, <1>5, <1>6, <1>10, <1>11, RxApart,
    TxStepsAreApart DEF Next, rx_steps
-----------------------------------------------------------------------------
(* The inductive invariant of both rings.                                  *)
IndInv == TxTypeOK /\ TxInv /\ RxTypeOK /\ RxInv /\ PcTypeOK

(* The invariant holds when the device starts.                             *)
LEMMA IndInit == Init => IndInv
<1> SUFFICES ASSUME Init PROVE IndInv
  OBVIOUS
<1>1. 0 \in TxSlots /\ 0 \in RxSlots /\ 0 \in 0 .. RX_RING_DEPTH
  BY AxisMsgAssumption DEF TxSlots, RxSlots
<1>2. /\ tx = [s \in TxSlots |-> [state |-> "free", message |-> 0]]
      /\ rx = [s \in RxSlots |-> [state |-> "free", message |-> 0]]
      /\ rx_cb = [stage |-> "idle", slot |-> NoSlot, message |-> 0]
      /\ pending = [t \in Threads |-> [slot |-> NoSlot, message |-> 0]]
  BY DEF Init, slot_record, no_callback, no_pending, holding, NoMessage
<1>3. TxTypeOK
  <2>1. /\ tx_complete \in BOOLEAN /\ tx_notify \in BOOLEAN
        /\ tx_work \in BOOLEAN /\ tx_work_notify \in BOOLEAN
        /\ stalled \in BOOLEAN
    BY Zenon DEF Init
  <2>2. QED
    BY <1>1, <1>2, <2>1 DEF Init, TxTypeOK, TxSlot
<1>4. TxInv
  BY <1>2, NoSlotApart DEF Init, TxInv
<1>5. RxTypeOK
  BY <1>1, <1>2 DEF Init, RxTypeOK, RxSlot
<1>6. RxInv
  <2>1. \A t \in Threads : pending[t] = no_pending /\ pc[t] = "idle"
    BY DEF Init
  <2>2. QED
    BY <1>2, <2>1 DEF Init, RxInv, EngineInv, CallbackInv, DoneInv,
      PendingInv, ReaderInv, unique, apart, all_in
<1>7. PcTypeOK
  BY DEF Init, PcTypeOK
<1>8. QED
  BY <1>3, <1>4, <1>5, <1>6, <1>7 DEF IndInv

(* Every step keeps the invariant.                                         *)
LEMMA IndStep == IndInv /\ [Next]_vars => IndInv'
BY TxStep, RxStep, PcStep DEF IndInv

(* The invariant holds at every reachable state.                           *)
LEMMA Invariance == Spec => []IndInv
BY IndInit, IndStep, PTL DEF Spec

(* Every place of the driver holds what it is meant to hold: no cursor     *)
(* leaves its ring, and none is used where there is no slot (the indices   *)
(* of axismsg->tx and axismsg->rx throughout axismsg_shim.c).              *)
THEOREM TypesAreKept == Spec => []TypeOK
<1>1. IndInv => TypeOK
  BY DEF IndInv, TypeOK
<1>2. QED
  BY <1>1, Invariance, PTL

(* The buffer of a message that is being read in several calls is neither  *)
(* posted nor given to another reader, and keeps its message.              *)
THEOREM ReadBuffersAreKept == Spec => []ReadBufferIsKept
<1>1. IndInv => ReadBufferIsKept
  BY DEF IndInv, RxInv, PendingInv, ReadBufferIsKept, lacks
<1>2. QED
  BY <1>1, Invariance, PTL
-----------------------------------------------------------------------------
(* Sleepers.  A slot that is done is reaped only once tx_done_cb has       *)
(* recorded it, and then the wake-up has still to come.                    *)
SleepInv ==
  /\ tx_done_q # << >> => tx_work \/ tx_notify
  /\ NoSleeperForgotten

(* A slot becomes free only if the queue of done slots held it.            *)
LEMMA NothingToReap ==
  ASSUME TxTypeOK, tx_done_q = << >>
  PROVE  reaped = tx
BY DEF TxTypeOK, reaped

(* No step leaves a sleeper behind.                                        *)
LEMMA SleepStep == IndInv /\ SleepInv /\ [Next]_vars => SleepInv'
<1> SUFFICES ASSUME IndInv, SleepInv, [Next]_vars PROVE SleepInv'
  OBVIOUS
<1> USE DEF any_free_tx, tx_in
<1>1. PcTypeOK /\ TxTypeOK /\ RxTypeOK
  BY DEF IndInv
<1>2. ASSUME NEW t \in Threads, find_free_tx(t)
      PROVE  SleepInv'
  <2>1. tx_done_q' = << >>
    BY <1>2 DEF find_free_tx
  <2>2. \A u \in Threads : pc'[u] \in {"tx_sleep", "rx_sleep"} => pc'[u] = pc[u]
    BY <1>1, <1>2 DEF find_free_tx, goto, PcTypeOK
  <2>3. CASE tx_done_q = << >>
    <3>1. tx' = tx
      BY <1>1, <1>2, <2>3, NothingToReap DEF find_free_tx
    <3>2. QED
      BY <1>2, <2>1, <2>2, <3>1 DEF SleepInv, NoSleeperForgotten,
        find_free_tx, rx_vars
  <2>4. CASE tx_done_q # << >>
    BY <1>2, <2>1, <2>2, <2>4 DEF SleepInv, NoSleeperForgotten, find_free_tx,
      rx_vars
  <2>5. QED
    BY <2>3, <2>4
<1>3. ASSUME NEW t \in Threads, wait_for_tx(t) \/ wait_for_rx(t)
      PROVE  SleepInv'
  <2>1. \A u \in Threads \ {t} : pc'[u] = pc[u]
    BY <1>1, <1>3 DEF wait_for_tx, wait_for_rx, goto, PcTypeOK
  <2>2. /\ pc'[t] = "tx_sleep" => ~any_free_tx
        /\ pc'[t] = "rx_sleep" => rx_done_q = << >>
    BY <1>1, <1>3 DEF wait_for_tx, wait_for_rx, goto, PcTypeOK
  <2>3. QED
    BY <1>3, <2>1, <2>2 DEF SleepInv, NoSleeperForgotten, wait_for_tx,
      wait_for_rx, tx_vars, rx_vars
<1>4. ASSUME NEW t \in Threads, queue_tx(t)
      PROVE  SleepInv'
  <2>1. \A u \in Threads : pc'[u] \in {"tx_sleep", "rx_sleep"} => pc'[u] = pc[u]
    BY <1>1, <1>4 DEF queue_tx, goto, PcTypeOK
  <2>2. \A s \in TxSlots : tx'[s].state = "free" => tx[s].state = "free"
    BY <1>1, <1>4 DEF queue_tx, slot_record, TxTypeOK
  <2>3. QED
    BY <1>4, <2>1, <2>2 DEF SleepInv, NoSleeperForgotten, queue_tx, rx_vars
<1>5. ASSUME NEW t \in Threads,
             copy_from_user_fails(t) \/ schedule_tx(t) \/ continue_rx(t)
               \/ take_rx(t) \/ axismsg_release(t) \/ signal(t)
               \/ copy_part(t) \/ copy_rest(t)
      PROVE  SleepInv'
  <2>1. \A u \in Threads : pc'[u] \in {"tx_sleep", "rx_sleep"} => pc'[u] = pc[u]
    BY <1>1, <1>5 DEF PcTypeOK, goto, copy_from_user_fails, schedule_tx,
      continue_rx, take_rx, axismsg_release, free_and_post, signal, copy_part,
      copy_rest
  <2>2. /\ UNCHANGED <<tx, tx_done_q, tx_notify, tx_work_notify, rx_cb>>
        /\ tx_work => tx_work'
        /\ rx_done_q' # << >> => rx_done_q # << >>
    BY <1>5 DEF copy_from_user_fails, schedule_tx, continue_rx, take_rx,
      axismsg_release, free_and_post, signal, copy_part, copy_rest, tx_vars,
      rx_vars
  <2>3. QED
    BY <2>1, <2>2 DEF SleepInv, NoSleeperForgotten
<1>6. ASSUME tx_workfn
      PROVE  SleepInv'
  BY <1>6 DEF SleepInv, NoSleeperForgotten, tx_workfn, rx_vars
<1>7. ASSUME tx_workfn_wakes \/ tx_done_cb_wakes
      PROVE  SleepInv'
  <2>1. \A u \in Threads :
          /\ pc'[u] # "tx_sleep"
          /\ pc'[u] = "rx_sleep" => pc[u] = "rx_sleep"
    BY <1>1, <1>7 DEF PcTypeOK, wake_tx, wake, tx_workfn_wakes,
      tx_done_cb_wakes
  <2>2. QED
    BY <1>7, <2>1 DEF SleepInv, NoSleeperForgotten, tx_workfn_wakes,
      tx_done_cb_wakes, rx_vars
<1>8. ASSUME tx_transmitted
      PROVE  SleepInv'
  BY <1>8 DEF SleepInv, NoSleeperForgotten, tx_transmitted, rx_vars
<1>9. ASSUME tx_done_cb
      PROVE  SleepInv'
  BY <1>9 DEF SleepInv, NoSleeperForgotten, tx_done_cb, rx_vars
<1>10. ASSUME post_rx_one \/ post_rx_returns \/ frame_arrives
       PROVE  SleepInv'
  <2>1. \A u \in Threads : pc'[u] \in {"tx_sleep", "rx_sleep"} => pc'[u] = pc[u]
    BY <1>1, <1>10 DEF PcTypeOK, post_rx_one, post_rx_returns, frame_arrives
  <2>2. QED
    BY <1>10, <2>1 DEF SleepInv, NoSleeperForgotten, post_rx_one,
      post_rx_returns, frame_arrives, tx_vars
<1>11. ASSUME rx_done_cb
       PROVE  SleepInv'
  BY <1>11 DEF SleepInv, NoSleeperForgotten, rx_done_cb, tx_vars
<1>12. ASSUME rx_done_cb_locked
       PROVE  SleepInv'
  BY <1>12 DEF SleepInv, NoSleeperForgotten, rx_done_cb_locked, no_callback,
    tx_vars
<1>13. ASSUME rx_done_cb_wakes
       PROVE  SleepInv'
  <2>1. \A u \in Threads :
          /\ pc'[u] # "rx_sleep"
          /\ pc'[u] = "tx_sleep" => pc[u] = "tx_sleep"
    BY <1>1, <1>13 DEF PcTypeOK, wake_rx, wake, rx_done_cb_wakes
  <2>2. QED
    BY <1>13, <2>1 DEF SleepInv, NoSleeperForgotten, rx_done_cb_wakes, tx_vars
<1>14. CASE UNCHANGED vars
  BY <1>14 DEF SleepInv, NoSleeperForgotten, vars, tx_vars, rx_vars
<1>15. QED
  BY <1>2, <1>3, <1>4, <1>5, <1>6, <1>7, <1>8, <1>9, <1>10, <1>11, <1>12,
    <1>13, <1>14 DEF Next, calls, goes_on, tx_steps, rx_steps

(* No wake-up is lost, however the sections under the lock, the wake-ups   *)
(* after them, the callbacks and the work function interleave.             *)
THEOREM SleepersAreWoken == Spec => []NoSleeperForgotten
<1>1. Init => SleepInv
  BY DEF Init, SleepInv, NoSleeperForgotten
<1>2. SleepInv => NoSleeperForgotten
  BY DEF SleepInv
<1>3. QED
  BY <1>1, <1>2, SleepStep, Invariance, PTL DEF Spec
-----------------------------------------------------------------------------
(* Messages on their way out.                                              *)

(* Nothing changes for the messages if the slots that still have one to    *)
(* transmit, and their messages, stay.                                     *)
LEMMA SameMessages ==
  ASSUME TxExactlyOnce, untransmitted' = untransmitted,
         \A s \in untransmitted : tx'[s].message = tx[s].message,
         UNCHANGED <<sent, accepted>>
  PROVE  TxExactlyOnce'
<1>1. {tx'[s].message : s \in untransmitted'} =
        {tx[s].message : s \in untransmitted}
  OBVIOUS
<1>2. QED
  BY <1>1 DEF TxExactlyOnce

(* Every step keeps each message in one place.                             *)
LEMMA OnceStep == IndInv /\ TxExactlyOnce /\ [Next]_vars => TxExactlyOnce'
<1> SUFFICES ASSUME IndInv, TxExactlyOnce, [Next]_vars PROVE TxExactlyOnce'
  OBVIOUS
<1> USE DEF tx_in
<1>1. TxTypeOK /\ TxInv
  BY DEF IndInv
<1>2. \A s \in TxSlots : tx[s].message \in Nat
  BY <1>1 DEF TxTypeOK, TxSlot
<1>3. ASSUME tx' = reaped, UNCHANGED <<tx_complete, sent, accepted>>
      PROVE  TxExactlyOnce'
  <2>1. \A s \in TxSlots :
          tx[s].state \in {"queued", "active"} => reaped[s] = tx[s]
    BY <1>1 DEF TxInv, TxTypeOK, reaped
  <2>2. \A s \in TxSlots :
          reaped[s].state \in {"queued", "active"} => reaped[s] = tx[s]
    BY <1>1, Reaping
  <2>3. /\ tx_in("queued")' = tx_in("queued")
        /\ tx_in("active")' = tx_in("active")
    BY <1>3, <2>1, <2>2
  <2>4. untransmitted' = untransmitted
    BY <1>3, <2>3 DEF untransmitted
  <2>5. \A s \in untransmitted : tx'[s].message = tx[s].message
    BY <1>3, <2>1 DEF untransmitted
  <2>6. QED
    BY <1>3, <2>4, <2>5, SameMessages
<1>4. ASSUME UNCHANGED <<tx, tx_complete, sent, accepted>>
      PROVE  TxExactlyOnce'
  <2>1. untransmitted' = untransmitted
    BY <1>4 DEF untransmitted
  <2>2. QED
    BY <1>4, <2>1, SameMessages
<1>5. ASSUME NEW t \in Threads, queue_tx(t)
      PROVE  TxExactlyOnce'
  <2> DEFINE slot == tx_slot[t]
  <2>1. /\ slot \in TxSlots /\ tx[slot].state = "free"
        /\ accepted \in Nat /\ accepted' = accepted + 1
        /\ tx' = [tx EXCEPT ![slot] = slot_record("queued", accepted + 1)]
    BY <1>1, <1>5 DEF TxInv, TxTypeOK, queue_tx
  <2> HIDE DEF slot
  <2>2. /\ tx'[slot].state = "queued" /\ tx'[slot].message = accepted + 1
        /\ \A s \in TxSlots \ {slot} : tx'[s] = tx[s]
    BY <1>1, <2>1 DEF TxTypeOK, slot_record
  <2>3. UNCHANGED <<sent, tx_complete>>
    BY <1>5 DEF queue_tx
  <2>4. untransmitted' = untransmitted \cup {slot} /\ slot \notin untransmitted
    BY <2>1, <2>2, <2>3 DEF untransmitted
  <2>5. \A s \in untransmitted : s # slot /\ s \in TxSlots
    BY <2>4 DEF untransmitted
  <2>6. {tx'[s].message : s \in untransmitted'} =
          {tx[s].message : s \in untransmitted} \cup {accepted + 1}
    BY <2>2, <2>4, <2>5
  <2>7. 1 .. (accepted + 1) = (1 .. accepted) \cup {accepted + 1}
    BY <2>1
  <2>8. /\ \A k \in DOMAIN sent : sent[k] \in 1 .. accepted
        /\ \A s \in untransmitted : tx[s].message \in 1 .. accepted
    BY DEF TxExactlyOnce
  <2>9. accepted + 1 \notin 1 .. accepted
    BY <2>1
  <2>10. {sent[k] : k \in DOMAIN sent} \cup
             {tx'[s].message : s \in untransmitted'} = 1 .. accepted'
    BY <2>1, <2>6, <2>7 DEF TxExactlyOnce
  <2>11. \A s \in untransmitted' :
           /\ \A k \in DOMAIN sent : sent[k] # tx'[s].message
           /\ \A r \in untransmitted' \ {s} : tx'[r].message # tx'[s].message
    <3>1. \A s \in untransmitted : tx'[s].message = tx[s].message
      BY <2>2, <2>5
    <3>2. QED
      BY <2>2, <2>4, <2>8, <2>9, <3>1 DEF TxExactlyOnce
  <2>12. QED
    BY <2>3, <2>10, <2>11 DEF TxExactlyOnce
<1>6. ASSUME tx_workfn
      PROVE  TxExactlyOnce'
  <2>1. UNCHANGED <<tx_complete, sent, accepted>>
    BY <1>6 DEF tx_workfn
  <2>2. CASE tx' = reaped
    BY <1>3, <2>1, <2>2
  <2>3. CASE tx' # reaped
    <3>1. PICK slot \in TxSlots :
            /\ tx_active = NoSlot /\ tx[slot].state = "queued"
            /\ tx' = turned(reaped, slot, "active")
      BY <1>1, <1>6, <2>3 DEF tx_workfn, no_kick, kick_one_tx, picked,
        first_from, TxTypeOK
    <3>2. /\ tx'[slot].state = "active"
          /\ tx'[slot].message = reaped[slot].message
          /\ \A s \in TxSlots \ {slot} : tx'[s] = reaped[s]
      BY <1>1, <3>1, Reaping DEF turned, slot_record
    <3>3. \A s \in TxSlots :
            tx[s].state \in {"queued", "active"} => reaped[s] = tx[s]
      BY <1>1 DEF TxInv, TxTypeOK, reaped
    <3>4. \A s \in TxSlots :
            reaped[s].state \in {"queued", "active"} => reaped[s] = tx[s]
      BY <1>1, Reaping
    <3>5. ~tx_complete
      BY <1>1, <3>1 DEF TxInv, TxTypeOK
    <3>6. untransmitted' = untransmitted
      BY <2>1, <3>1, <3>2, <3>3, <3>4, <3>5 DEF untransmitted
    <3>7. \A s \in untransmitted : tx'[s].message = tx[s].message
      BY <3>1, <3>2, <3>3 DEF untransmitted
    <3>8. QED
      BY <2>1, <3>6, <3>7, SameMessages
  <2>4. QED
    BY <2>2, <2>3
<1>7. ASSUME tx_transmitted
      PROVE  TxExactlyOnce'
  <2>1. /\ tx_active \in TxSlots /\ tx[tx_active].state = "active"
        /\ \A s \in TxSlots : tx[s].state = "active" => s = tx_active
    BY <1>1, <1>7 DEF TxInv, TxTypeOK, tx_transmitted
  <2>2. /\ untransmitted = tx_in("queued") \cup {tx_active}
        /\ untransmitted' = tx_in("queued")
        /\ tx_active \notin tx_in("queued")
    BY <1>7, <2>1 DEF tx_transmitted, untransmitted
  <2>3. /\ sent' = Append(sent, tx[tx_active].message)
        /\ UNCHANGED <<tx, accepted>>
    BY <1>7 DEF tx_transmitted
  <2>4. /\ sent \in Seq(Nat) /\ DOMAIN sent' = DOMAIN sent \cup {Len(sent) + 1}
        /\ sent'[Len(sent) + 1] = tx[tx_active].message
        /\ \A k \in DOMAIN sent : sent'[k] = sent[k]
        /\ Len(sent) + 1 \notin DOMAIN sent
    BY <1>1, <1>2, <2>1, <2>3 DEF TxTypeOK
  <2>5. {sent'[k] : k \in DOMAIN sent'} =
          {sent[k] : k \in DOMAIN sent} \cup {tx[tx_active].message}
    BY <2>4
  <2>6. {tx[s].message : s \in untransmitted} =
          {tx[s].message : s \in untransmitted'} \cup {tx[tx_active].message}
    BY <2>2
  <2>7. \A k \in DOMAIN sent : sent[k] # tx[tx_active].message
    BY <2>2 DEF TxExactlyOnce
  <2>8. {sent'[k] : k \in DOMAIN sent'} \cup
             {tx'[s].message : s \in untransmitted'} = 1 .. accepted'
    <3>1. {tx'[s].message : s \in untransmitted'} =
            {tx[s].message : s \in untransmitted'}
      BY <2>3
    <3>2. {sent[k] : k \in DOMAIN sent} \cup
            {tx[s].message : s \in untransmitted} = 1 .. accepted
      BY DEF TxExactlyOnce
    <3>3. QED
      BY <2>3, <2>5, <2>6, <3>1, <3>2
  <2>9. \A j, k \in DOMAIN sent' : j # k => sent'[j] # sent'[k]
    BY <2>4, <2>7 DEF TxExactlyOnce
  <2>10. \A s \in untransmitted' :
           /\ \A k \in DOMAIN sent' : sent'[k] # tx'[s].message
           /\ \A r \in untransmitted' \ {s} : tx'[r].message # tx'[s].message
    BY <2>2, <2>3, <2>4 DEF TxExactlyOnce
  <2>11. QED
    BY <2>8, <2>9, <2>10 DEF TxExactlyOnce
<1>8. ASSUME tx_done_cb
      PROVE  TxExactlyOnce'
  <2>1. /\ tx_active \in TxSlots /\ tx[tx_active].state = "active"
        /\ \A s \in TxSlots : tx[s].state = "active" => s = tx_active
    BY <1>1, <1>8 DEF TxInv, TxTypeOK, tx_done_cb
  <2>2. /\ tx'[tx_active].state \in {"free", "done"}
        /\ \A s \in TxSlots \ {tx_active} : tx'[s] = tx[s]
    BY <1>1, <1>8, <2>1 DEF tx_done_cb, TxTypeOK, turned, slot_record
  <2>3. tx_complete = TRUE /\ tx_complete' = FALSE
    BY <1>1, <1>8 DEF tx_done_cb, TxTypeOK
  <2>4. untransmitted = tx_in("queued") /\ untransmitted' = tx_in("queued")
    BY <2>1, <2>2, <2>3 DEF untransmitted
  <2>5. \A s \in untransmitted : tx'[s].message = tx[s].message
    BY <2>1, <2>2, <2>4
  <2>6. UNCHANGED <<sent, accepted>>
    BY <1>8 DEF tx_done_cb
  <2>7. QED
    BY <2>4, <2>5, <2>6, SameMessages
<1>9. ASSUME NEW t \in Threads, find_free_tx(t)
      PROVE  TxExactlyOnce'
  BY <1>3, <1>9 DEF find_free_tx
<1>10. ASSUME NEW t \in Threads, calls(t) \/ goes_on(t)
       PROVE  TxExactlyOnce'
  BY <1>4, <1>5, <1>9, <1>10 DEF calls, goes_on, wait_for_tx, continue_rx,
    take_rx, wait_for_rx, axismsg_release, free_and_post, signal,
    copy_from_user_fails, schedule_tx, copy_part, copy_rest, tx_vars
<1>11. ASSUME rx_steps \/ frame_arrives \/ tx_workfn_wakes \/ tx_done_cb_wakes
       PROVE  TxExactlyOnce'
  BY <1>4, <1>11 DEF rx_steps, post_rx_one, post_rx_returns, rx_done_cb,
    rx_done_cb_locked, rx_done_cb_wakes, frame_arrives, tx_workfn_wakes,
    tx_done_cb_wakes, tx_vars
<1>12. CASE UNCHANGED vars
  BY <1>4, <1>12 DEF vars, tx_vars
<1>13. QED
  BY <1>6, <1>7, <1>8, <1>10, <1>11, <1>12 DEF Next, tx_steps

(* No message that write has accepted is lost or transmitted twice, in     *)
(* rings of any depth and with any number of failures.                     *)
THEOREM WritesAreSentOnce == Spec => []TxExactlyOnce
<1>1. Init => TxExactlyOnce
  <2> SUFFICES ASSUME Init PROVE TxExactlyOnce
    OBVIOUS
  <2>1. untransmitted = {} /\ sent = << >> /\ accepted = 0
    BY DEF Init, untransmitted, tx_in, slot_record
  <2>2. 1 .. 0 = {}
    OBVIOUS
  <2>3. QED
    BY <2>1, <2>2 DEF TxExactlyOnce
<1>2. QED
  BY <1>1, OnceStep, Invariance, PTL DEF Spec
-----------------------------------------------------------------------------
(* Rings and counters.  A message that is the m-th to go through a ring of *)
(* some depth is in place (m - 1) % depth.                                 *)
LEMMA Division ==
  ASSUME NEW depth \in Nat, depth > 0, NEW x \in Int,
         NEW q \in Int, q = x \div depth, NEW r \in Int, r = x % depth
  PROVE  x = depth * q + r
OBVIOUS

(* Division with a remainder in range.                                     *)
LEMMA Quotient ==
  ASSUME NEW depth \in Nat, depth > 0, NEW x \in Int
  PROVE  \E q \in Int, r \in 0 .. depth - 1 :
           x = depth * q + r /\ x % depth = r
<1>1. (x \div depth) \in Int /\ x % depth \in 0 .. depth - 1
  OBVIOUS
<1>2. PICK q \in Int : q = x \div depth
  BY <1>1
<1>3. PICK r \in 0 .. depth - 1 : r = x % depth
  BY <1>1
<1>4. x = depth * q + r
  BY <1>2, <1>3, Division
<1>5. QED
  BY <1>3, <1>4

(* A remainder in range is the residue.                                    *)
LEMMA Residue ==
  ASSUME NEW depth \in Nat, depth > 0, NEW q \in Int, NEW r \in 0 .. depth - 1
  PROVE  (depth * q + r) % depth = r
OBVIOUS

(* Whole turns do not change the place.                                    *)
LEMMA WholeTurns ==
  ASSUME NEW depth \in Nat, depth > 0, NEW x \in Int, NEW p \in Int
  PROVE  (depth * p + x) % depth = x % depth
<1>1. PICK q \in Int, r \in 0 .. depth - 1 :
        x = depth * q + r /\ x % depth = r
  BY Quotient
<1> DEFINE n == p + q
<1>2. depth * p + x = depth * n + r /\ n \in Int
  BY <1>1
<1> HIDE DEF n
<1>3. (depth * n + r) % depth = r
  BY <1>2, Residue
<1>4. QED
  BY <1>1, <1>2, <1>3

(* The cursor after a slot is the residue of the next number.              *)
LEMMA NextPlace ==
  ASSUME NEW depth \in Nat, depth > 0, NEW x \in Int
  PROVE  ((x % depth) + 1) % depth = (x + 1) % depth
<1>1. PICK q \in Int, r \in 0 .. depth - 1 :
        x = depth * q + r /\ x % depth = r
  BY Quotient
<1> DEFINE n == r + 1
<1>2. x + 1 = depth * q + n /\ n \in Int /\ (x % depth) + 1 = n
  BY <1>1
<1> HIDE DEF n
<1>3. (depth * q + n) % depth = n % depth
  BY <1>1, <1>2, WholeTurns
<1>4. QED
  BY <1>2, <1>3

(* Within one turn no place comes twice.                                   *)
LEMMA OtherPlace ==
  ASSUME NEW depth \in Nat, depth > 0, NEW x \in Int, NEW d \in 1 .. depth - 1
  PROVE  (x + d) % depth # x % depth
<1>1. PICK q \in Int, r \in 0 .. depth - 1 :
        x = depth * q + r /\ x % depth = r
  BY Quotient
<1>2. CASE r + d < depth
  <2>1. x + d = depth * q + (r + d) /\ r + d \in 0 .. depth - 1
    BY <1>1, <1>2
  <2>2. (depth * q + (r + d)) % depth = r + d
    BY <1>1, <2>1, Residue
  <2>3. QED
    BY <1>1, <2>1, <2>2
<1>3. CASE r + d >= depth
  <2> DEFINE e == r + d - depth
             p == q + 1
  <2>1. x + d = depth * p + e /\ e \in 0 .. depth - 1 /\ p \in Int /\ e # r
    BY <1>1, <1>3
  <2> HIDE DEF e, p
  <2>2. (depth * p + e) % depth = e
    BY <2>1, Residue
  <2>3. QED
    BY <1>1, <2>1, <2>2
<1>4. QED
  BY <1>1, <1>2, <1>3

(* A whole turn comes to every place.                                      *)
LEMMA EveryPlace ==
  ASSUME NEW depth \in Nat, depth > 0, NEW x \in Int, NEW s \in 0 .. depth - 1
  PROVE  \E d \in 0 .. depth - 1 : (x + d) % depth = s
<1>1. PICK q \in Int, d \in 0 .. depth - 1 : s - x = depth * q + d
  <2> DEFINE y == s - x
  <2>1. y \in Int
    OBVIOUS
  <2> HIDE DEF y
  <2>2. PICK q \in Int, d \in 0 .. depth - 1 : y = depth * q + d
    BY <2>1, Quotient
  <2>3. QED
    BY <2>2 DEF y
<1>2. x + d = s - depth * q
  BY <1>1
<1>3. (s - depth * q) % depth = s
  <2> DEFINE p == 0 - q
  <2>1. s - depth * q = depth * (0 - q) + s
    OBVIOUS
  <2>2. p \in Int /\ s - depth * q = depth * p + s
    BY <2>1
  <2> HIDE DEF p
  <2>3. (depth * p + s) % depth = s
    BY <2>2, Residue
  <2>4. QED
    BY <2>2, <2>3
<1>4. QED
  BY <1>1, <1>2, <1>3

(* A scan that may stop at its cursor stops there.                         *)
LEMMA FirstIsCursor ==
  ASSUME NEW depth \in Nat, depth > 0, NEW slots \in SUBSET (0 .. depth - 1),
         NEW cursor \in slots, NEW i, first_from(i, cursor, slots, depth)
  PROVE  i = cursor
<1>1. i \in 0 .. depth - 1 /\ cursor \in 0 .. depth - 1
  BY DEF first_from
<1>2. (i - cursor) % depth = 0
  <2>1. (cursor - cursor) % depth = 0
    <3>1. cursor - cursor = 0 /\ 0 \in 0 .. depth - 1
      BY <1>1
    <3>2. 0 % depth = 0
      BY <3>1
    <3>3. QED
      BY <3>1, <3>2
  <2>2. (i - cursor) % depth <= (cursor - cursor) % depth
    BY DEF first_from
  <2>3. (i - cursor) % depth \in 0 .. depth - 1
    BY <1>1
  <2>4. QED
    BY <2>1, <2>2, <2>3
<1>3. CASE i > cursor
  <2>1. i - cursor \in 1 .. depth - 1
    BY <1>1, <1>3
  <2>2. (i - cursor) % depth = i - cursor
    BY <2>1
  <2>3. QED
    BY <1>2, <2>1, <2>2
<1>4. CASE i < cursor
  <2> DEFINE e == depth - (cursor - i)
  <2>1. e \in 1 .. depth - 1 /\ i - cursor = depth * (0 - 1) + e
    BY <1>1, <1>4
  <2> HIDE DEF e
  <2>2. (depth * (0 - 1) + e) % depth = e
    BY <2>1, Residue
  <2>3. QED
    BY <1>2, <2>1, <2>2
<1>5. QED
  BY <1>1, <1>3, <1>4
-----------------------------------------------------------------------------
(* The order of messages on their way out.  Without a fault the slots in   *)
(* use are those of consecutive messages, from the one that the engine has *)
(* to the last one accepted, and each cursor is where the next one comes.  *)
in_transit == IF tx_active # NoSlot /\ ~tx_complete THEN 1 ELSE 0
started == Len(sent) + in_transit
oldest == IF tx_active = NoSlot THEN started + 1 ELSE started
place(m) == (m - 1) % TX_RING_DEPTH

WindowInv ==
  /\ started <= accepted
  /\ accepted - oldest < TX_RING_DEPTH

QueuedInv ==
  /\ \A s \in TxSlots :
       tx[s].state = "queued" =>
         \E m \in started + 1 .. accepted : s = place(m)
  /\ \A m \in started + 1 .. accepted :
       tx[place(m)].state = "queued" /\ tx[place(m)].message = m

ActiveInv ==
  tx_active # NoSlot =>
    /\ tx_active = place(started)
    /\ ~tx_complete => tx[tx_active].message = started

DoneInQueue ==
  \A s \in TxSlots :
    tx[s].state = "done" => \E k \in DOMAIN tx_done_q : tx_done_q[k] = s

CursorInv ==
  /\ tx_pick_cursor = place(started + 1)
  /\ tx_enqueue_cursor =
       place(IF writing = {} THEN accepted + 1 ELSE accepted + 2)
  /\ \A t \in writing : tx_slot[t] = place(accepted + 1)

SentInv == \A k \in DOMAIN sent : sent[k] = k

OrderInv ==
  SentInv /\ WindowInv /\ QueuedInv /\ ActiveInv /\ DoneInQueue /\ CursorInv

TxOrderInv == faults = 0 => OrderInv

(* Every message has a slot of the ring.                                   *)
LEMMA PlaceInRing == ASSUME NEW m \in Int PROVE place(m) \in TxSlots
<1>1. m - 1 \in Int /\ TX_RING_DEPTH \in Nat /\ TX_RING_DEPTH > 0
  BY AxisMsgAssumption
<1> DEFINE x == m - 1
<1> HIDE DEF x
<1>2. x % TX_RING_DEPTH \in 0 .. TX_RING_DEPTH - 1
  BY <1>1 DEF x
<1>3. QED
  BY <1>2 DEF x, place, TxSlots

(* The next message goes to the next slot.                                 *)
LEMMA PlaceAfter ==
  ASSUME NEW m \in Int PROVE after(place(m), TX_RING_DEPTH) = place(m + 1)
<1> DEFINE x == m - 1
<1>1. x \in Int /\ (m + 1) - 1 = x + 1
  OBVIOUS
<1>2. TX_RING_DEPTH \in Nat /\ TX_RING_DEPTH > 0
  BY AxisMsgAssumption
<1> HIDE DEF x
<1>3. ((x % TX_RING_DEPTH) + 1) % TX_RING_DEPTH = (x + 1) % TX_RING_DEPTH
  BY <1>1, <1>2, NextPlace
<1>4. QED
  BY <1>1, <1>3 DEF after, place, x

(* Messages less than a turn apart have different slots.                   *)
LEMMA PlaceApart ==
  ASSUME NEW m \in Int, NEW n \in Int, m < n, n - m < TX_RING_DEPTH
  PROVE  place(m) # place(n)
<1> DEFINE x == m - 1
           d == n - m
<1>1. x \in Int /\ d \in 1 .. TX_RING_DEPTH - 1 /\ n - 1 = x + d
  BY AxisMsgAssumption
<1>2. TX_RING_DEPTH \in Nat /\ TX_RING_DEPTH > 0
  BY AxisMsgAssumption
<1> HIDE DEF x, d
<1>3. (x + d) % TX_RING_DEPTH # x % TX_RING_DEPTH
  BY <1>1, <1>2, OtherPlace
<1>4. QED
  BY <1>1, <1>3 DEF place, x

(* Every slot is the place of one message of each turn.                    *)
LEMMA PlaceOf ==
  ASSUME NEW m \in Int, NEW s \in TxSlots
  PROVE  \E n \in m .. m + TX_RING_DEPTH - 1 : place(n) = s
<1> DEFINE x == m - 1
<1>1. x \in Int /\ s \in 0 .. TX_RING_DEPTH - 1
  BY DEF TxSlots
<1>2. TX_RING_DEPTH \in Nat /\ TX_RING_DEPTH > 0
  BY AxisMsgAssumption
<1> HIDE DEF x
<1>3. PICK d \in 0 .. TX_RING_DEPTH - 1 : (x + d) % TX_RING_DEPTH = s
  BY <1>1, <1>2, EveryPlace
<1>4. m + d \in m .. m + TX_RING_DEPTH - 1 /\ (m + d) - 1 = x + d
  BY <1>2, <1>3 DEF x
<1>5. place(m + d) = s
  BY <1>3, <1>4 DEF place
<1>6. QED
  BY <1>4, <1>5

(* The counters of the TX order are numbers.                               *)
LEMMA OrderCounts ==
  ASSUME IndInv
  PROVE  /\ started \in Nat /\ oldest \in Nat /\ accepted \in Nat
         /\ oldest \in {started, started + 1}
         /\ TX_RING_DEPTH \in Nat /\ TX_RING_DEPTH > 0
<1>1. Len(sent) \in Nat /\ in_transit \in {0, 1}
  BY DEF IndInv, TxTypeOK, in_transit
<1>2. started \in Nat
  BY <1>1 DEF started
<1>3. QED
  BY <1>2, AxisMsgAssumption DEF IndInv, TxTypeOK, oldest

(* A slot that no message uses leaves room for one more, and then the next *)
(* place is one that no message uses.                                      *)
in_use(s) == tx[s].state \in {"queued", "active"}

(* If some slot is unused, the window is less than a whole turn.           *)
LEMMA RoomLeft ==
  ASSUME IndInv, OrderInv, NEW s \in TxSlots, ~in_use(s)
  PROVE  accepted - oldest < TX_RING_DEPTH - 1
<1> SUFFICES ASSUME ~(accepted - oldest < TX_RING_DEPTH - 1) PROVE FALSE
  OBVIOUS
<1>1. PICK m \in oldest .. oldest + TX_RING_DEPTH - 1 : place(m) = s
  BY PlaceOf, OrderCounts
<1>2. m \in oldest .. accepted
  BY <1>1, OrderCounts DEF OrderInv, WindowInv
<1>3. CASE m \in started + 1 .. accepted
  BY <1>1, <1>3 DEF OrderInv, QueuedInv, in_use
<1>4. CASE m \notin started + 1 .. accepted
  <2>1. m = started /\ oldest = started
    BY <1>2, <1>4, OrderCounts
  <2>2. tx_active # NoSlot
    BY <2>1, OrderCounts DEF oldest
  <2>3. s = tx_active
    BY <1>1, <2>1, <2>2 DEF OrderInv, ActiveInv
  <2>4. QED
    BY <2>3 DEF IndInv, TxInv, in_use
<1>5. QED
  BY <1>3, <1>4

(* The slot at the write cursor is unused while the window has room.       *)
LEMMA NextIsFree ==
  ASSUME IndInv, OrderInv, accepted - oldest < TX_RING_DEPTH - 1
  PROVE  ~in_use(place(accepted + 1))
<1> DEFINE s == place(accepted + 1)
<1>1. s \in TxSlots
  BY PlaceInRing, OrderCounts
<1>2. ASSUME NEW m \in oldest .. accepted PROVE place(m) # s
  <2> DEFINE n == accepted + 1
  <2>1. m \in Int /\ n \in Int /\ m < n /\ n - m < TX_RING_DEPTH
    BY OrderCounts
  <2> HIDE DEF n
  <2>2. place(m) # place(n)
    BY <2>1, PlaceApart
  <2>3. QED
    BY <2>2 DEF n
<1>3. CASE tx[s].state = "queued"
  <2>1. PICK m \in started + 1 .. accepted : s = place(m)
    BY <1>1, <1>3 DEF OrderInv, QueuedInv
  <2>2. m \in oldest .. accepted
    BY <2>1, OrderCounts
  <2>3. QED
    BY <1>2, <2>1, <2>2
<1>4. CASE tx[s].state = "active"
  <2>1. s = tx_active /\ tx_active # NoSlot
    BY <1>1, <1>4, NoSlotApart DEF IndInv, TxInv
  <2>2. s = place(started) /\ oldest = started
    BY <2>1 DEF OrderInv, ActiveInv, oldest
  <2>3. started \in oldest .. accepted
    BY <2>2, OrderCounts DEF OrderInv, WindowInv
  <2>4. QED
    BY <1>2, <2>2, <2>3
<1>5. QED
  BY <1>3, <1>4 DEF in_use

(* Reaping frees the slots whose message has gone out and no others.       *)
LEMMA ReapedInOrder ==
  ASSUME IndInv
  PROVE  /\ reaped \in [TxSlots -> TxSlot]
         /\ \A s \in TxSlots : in_use(s) => reaped[s] = tx[s]
         /\ \A s \in TxSlots :
              reaped[s].state \in {"queued", "active"} => in_use(s)
         /\ DoneInQueue => \A s \in TxSlots : reaped[s].state # "done"
<1>1. TxTypeOK /\ TxInv
  BY DEF IndInv
<1>2. \A s \in TxSlots : in_use(s) => reaped[s] = tx[s]
  BY <1>1 DEF TxInv, TxTypeOK, reaped, in_use
<1>3. \A s \in TxSlots :
        reaped[s].state \in {"queued", "active"} => in_use(s)
  BY <1>1, Reaping DEF in_use
<1>4. DoneInQueue => \A s \in TxSlots : reaped[s].state # "done"
  BY <1>1, Reaping DEF DoneInQueue, reaped, slot_record
<1>5. QED
  BY <1>1, <1>2, <1>3, <1>4, Reaping

(* The order stays if the slots in use and the places of messages do.      *)
LEMMA SameOrder ==
  ASSUME IndInv, OrderInv,
         UNCHANGED <<sent, tx_active, tx_complete, accepted>>,
         \A s \in TxSlots : in_use(s) => tx'[s] = tx[s],
         \A s \in TxSlots : tx'[s].state = "queued" => in_use(s)
  PROVE  SentInv' /\ WindowInv' /\ QueuedInv' /\ ActiveInv'
<1>1. started' = started /\ oldest' = oldest
  BY DEF started, oldest, in_transit
<1>2. SentInv' /\ WindowInv'
  BY <1>1 DEF OrderInv, SentInv, WindowInv
<1>3. QueuedInv'
  <2>1. ASSUME NEW s \in TxSlots, tx'[s].state = "queued"
        PROVE  \E m \in started + 1 .. accepted : s = place(m)
    BY <2>1 DEF OrderInv, QueuedInv
  <2>2. ASSUME NEW m \in started + 1 .. accepted
        PROVE  tx'[place(m)].state = "queued" /\ tx'[place(m)].message = m
    <3>1. place(m) \in TxSlots
      BY PlaceInRing, OrderCounts
    <3>2. tx[place(m)].state = "queued" /\ tx[place(m)].message = m
      BY DEF OrderInv, QueuedInv
    <3>3. QED
      BY <3>1, <3>2 DEF in_use
  <2>3. QED
    BY <1>1, <2>1, <2>2 DEF QueuedInv
<1>4. ActiveInv'
  <2>1. ASSUME tx_active # NoSlot PROVE tx'[tx_active] = tx[tx_active]
    BY <2>1 DEF IndInv, TxInv, TxTypeOK, in_use
  <2>2. QED
    BY <1>1, <2>1 DEF OrderInv, ActiveInv
<1>5. QED
  BY <1>2, <1>3, <1>4

(* One writer at a time is between the choice of a slot and its use.       *)
LEMMA OneWriter ==
  ASSUME IndInv, NEW t \in writing PROVE writing = {t} /\ tx_mutex = t
BY DEF IndInv, TxInv, writing

(* Every step keeps the messages of the TX ring in order.                  *)
LEMMA OrderStep == IndInv /\ TxOrderInv /\ [Next]_vars => TxOrderInv'
<1> SUFFICES ASSUME IndInv, TxOrderInv, [Next]_vars, faults' = 0
             PROVE  OrderInv'
  BY DEF TxOrderInv
<1> USE DEF IndInv
<1>1. faults = 0 /\ OrderInv /\ ~fault
  <2>1. faults \in Nat
    BY DEF PcTypeOK
  <2>2. ~fault
    BY <2>1 DEF fault
  <2>3. faults' = faults
    <3>1. ASSUME NEW t \in Threads, calls(t) \/ goes_on(t)
          PROVE  faults' = faults
      BY <2>2, <3>1 DEF calls, goes_on, find_free_tx, wait_for_tx,
        continue_rx, take_rx, wait_for_rx, axismsg_release, free_and_post,
        signal, queue_tx, copy_from_user_fails, schedule_tx, copy_part,
        copy_rest
    <3>2. ASSUME tx_steps PROVE faults' = faults
      BY <2>2, <3>2 DEF tx_steps, tx_workfn, tx_workfn_wakes, tx_transmitted,
        tx_done_cb, tx_done_cb_wakes, no_kick, kick_one_tx
    <3>3. ASSUME rx_steps \/ frame_arrives PROVE faults' = faults
      BY <2>2, <3>3 DEF rx_steps, post_rx_one, post_rx_returns, rx_done_cb,
        rx_done_cb_locked, rx_done_cb_wakes, frame_arrives
    <3>4. CASE UNCHANGED vars
      BY <3>4 DEF vars
    <3>5. QED
      BY <3>1, <3>2, <3>3, <3>4 DEF Next
  <2>4. QED
    BY <2>2, <2>3 DEF TxOrderInv
<1>2. ASSUME UNCHANGED <<tx, tx_enqueue_cursor, tx_pick_cursor, tx_active,
                         tx_done_q, tx_complete, accepted, sent>>,
             writing' = writing, \A t \in writing : tx_slot'[t] = tx_slot[t]
      PROVE  OrderInv'
  <2>1. SentInv' /\ WindowInv' /\ QueuedInv' /\ ActiveInv'
    BY <1>1, <1>2, SameOrder DEF in_use
  <2>2. DoneInQueue'
    BY <1>1, <1>2 DEF OrderInv, DoneInQueue
  <2>3. started' = started
    BY <1>2 DEF started, in_transit
  <2>4. CursorInv'
    BY <1>1, <1>2, <2>3 DEF OrderInv, CursorInv
  <2>5. QED
    BY <2>1, <2>2, <2>4 DEF OrderInv
<1>3. ASSUME UNCHANGED tx_vars, no_writer_moves,
             \A t \in writing : pc'[t] = "tx_copy"
      PROVE  OrderInv'
  <2>1. writing' = writing
    BY <1>3 DEF writing, no_writer_moves
  <2>2. QED
    BY <1>2, <1>3, <2>1 DEF tx_vars
<1>4. ASSUME NEW t \in Threads, find_free_tx(t)
      PROVE  OrderInv'
  <2>1. writing = {}
    BY <1>4, OneWriter, AxisMsgAssumption DEF find_free_tx, writing
  <2>2. tx_enqueue_cursor = place(accepted + 1)
    BY <1>1, <2>1 DEF OrderInv, CursorInv
  <2>3. PICK slot \in free_after_reaping :
          /\ first_from(slot, tx_enqueue_cursor, free_after_reaping,
                        TX_RING_DEPTH)
          /\ tx_slot' = [tx_slot EXCEPT ![t] = slot]
          /\ tx_enqueue_cursor' = after(slot, TX_RING_DEPTH)
    BY <1>4 DEF find_free_tx, first_from
  <2>4. tx_enqueue_cursor \in free_after_reaping
    <3>1. slot \in TxSlots /\ ~in_use(slot)
      BY <2>3, ReapedInOrder DEF free_after_reaping, in_use
    <3>2. ~in_use(tx_enqueue_cursor)
      BY <1>1, <2>2, <3>1, RoomLeft, NextIsFree
    <3>3. /\ tx_enqueue_cursor \in TxSlots
          /\ reaped[tx_enqueue_cursor].state \notin {"queued", "active"}
          /\ reaped[tx_enqueue_cursor].state # "done"
      BY <1>1, <3>2, ReapedInOrder DEF TxTypeOK, OrderInv
    <3>4. reaped[tx_enqueue_cursor] \in TxSlot
      BY <3>3, ReapedInOrder
    <3>5. QED
      BY <3>3, <3>4 DEF free_after_reaping, TxSlot
  <2>5. slot = tx_enqueue_cursor
    <3>1. free_after_reaping \in SUBSET (0 .. TX_RING_DEPTH - 1)
      BY DEF free_after_reaping, TxSlots
    <3>2. TX_RING_DEPTH \in Nat /\ TX_RING_DEPTH > 0
      BY AxisMsgAssumption
    <3>3. QED
      BY <2>3, <2>4, <3>1, <3>2, FirstIsCursor
  <2>6. UNCHANGED <<sent, tx_active, tx_complete, accepted, tx_pick_cursor>>
    BY <1>4 DEF find_free_tx
  <2>7. tx' = reaped
    BY <1>4 DEF find_free_tx
  <2>8. SentInv' /\ WindowInv' /\ QueuedInv' /\ ActiveInv'
    BY <1>1, <2>6, <2>7, ReapedInOrder, SameOrder
  <2>9. DoneInQueue'
    BY <1>1, <2>7, ReapedInOrder DEF OrderInv, DoneInQueue
  <2>10. writing' = {t} /\ tx_slot'[t] = slot
    BY <1>4, <2>1, <2>3 DEF find_free_tx, writing, goto, PcTypeOK, TxTypeOK
  <2>11. tx_enqueue_cursor' = place(accepted + 2)
    <3> DEFINE n == accepted + 1
    <3>1. n \in Int /\ n + 1 = accepted + 2
      BY OrderCounts
    <3> HIDE DEF n
    <3>2. after(place(n), TX_RING_DEPTH) = place(n + 1)
      BY <3>1, PlaceAfter
    <3>3. QED
      BY <2>2, <2>3, <2>5, <3>1, <3>2 DEF n
  <2>12. started' = started
    BY <2>6 DEF started, in_transit
  <2>13. CursorInv'
    BY <1>1, <2>2, <2>5, <2>6, <2>10, <2>11, <2>12 DEF OrderInv, CursorInv
  <2>14. QED
    BY <2>8, <2>9, <2>13 DEF OrderInv
<1>5. ASSUME NEW t \in Threads, queue_tx(t)
      PROVE  OrderInv'
  <2> DEFINE slot == place(accepted + 1)
  <2>1. t \in writing /\ tx_slot[t] = slot /\ writing = {t}
    <3>1. t \in writing
      BY <1>5 DEF queue_tx, writing
    <3>2. QED
      BY <1>1, <3>1, OneWriter DEF OrderInv, CursorInv
  <2>2. slot \in TxSlots /\ tx[slot].state = "free"
    BY <2>1 DEF TxInv, writing
  <2>3. /\ tx' = [tx EXCEPT ![slot] = slot_record("queued", accepted + 1)]
        /\ accepted' = accepted + 1
        /\ UNCHANGED <<sent, tx_active, tx_complete, tx_pick_cursor,
                       tx_enqueue_cursor, tx_done_q>>
    BY <1>5, <2>1 DEF queue_tx
  <2>4. accepted - oldest < TX_RING_DEPTH - 1
    BY <1>1, <2>2, RoomLeft DEF in_use
  <2>5. started' = started /\ oldest' = oldest
    BY <2>3 DEF started, oldest, in_transit
  <2>6. /\ tx'[slot].state = "queued" /\ tx'[slot].message = accepted + 1
        /\ \A s \in TxSlots \ {slot} : tx'[s] = tx[s]
    BY <2>2, <2>3 DEF TxTypeOK, slot_record
  <2>7. SentInv' /\ WindowInv'
    BY <1>1, <2>3, <2>4, <2>5, OrderCounts DEF OrderInv, SentInv, WindowInv
  <2>8. QueuedInv'
    <3>1. \A m \in started + 1 .. accepted + 1 :
            m \in started + 1 .. accepted \/ m = accepted + 1
      BY OrderCounts
    <3>2. \A m \in started + 1 .. accepted :
            /\ m \in started + 1 .. accepted + 1
            /\ place(m) \in TxSlots /\ place(m) # slot
            /\ tx[place(m)].state = "queued" /\ tx[place(m)].message = m
      <4>1. ASSUME NEW m \in started + 1 .. accepted
            PROVE  m \in started + 1 .. accepted + 1 /\ place(m) \in TxSlots
        BY PlaceInRing, OrderCounts
      <4>2. ASSUME NEW m \in started + 1 .. accepted
            PROVE  tx[place(m)].state = "queued" /\ tx[place(m)].message = m
        BY <1>1 DEF OrderInv, QueuedInv
      <4>3. QED
        BY <2>2, <4>1, <4>2
    <3>3. accepted + 1 \in started + 1 .. accepted + 1
      BY <1>1, OrderCounts DEF OrderInv, WindowInv
    <3>4. ASSUME NEW s \in TxSlots, tx'[s].state = "queued"
          PROVE  \E m \in started + 1 .. accepted + 1 : s = place(m)
      <4>1. CASE s = slot
        BY <3>3, <4>1
      <4>2. CASE s # slot
        <5>1. PICK m \in started + 1 .. accepted : s = place(m)
          BY <1>1, <2>6, <3>4, <4>2 DEF OrderInv, QueuedInv
        <5>2. QED
          BY <3>2, <5>1
      <4>3. QED
        BY <4>1, <4>2
    <3>5. ASSUME NEW m \in started + 1 .. accepted + 1
          PROVE  tx'[place(m)].state = "queued" /\ tx'[place(m)].message = m
      BY <2>6, <3>1, <3>2
    <3>6. QED
      BY <2>3, <2>5, <3>4, <3>5 DEF QueuedInv
  <2>9. ActiveInv'
    <3>1. ASSUME tx_active # NoSlot
          PROVE  tx'[tx_active] = tx[tx_active]
      BY <2>2, <2>6, <3>1 DEF TxInv, TxTypeOK
    <3>2. QED
      BY <1>1, <2>3, <2>5, <3>1 DEF OrderInv, ActiveInv
  <2>10. DoneInQueue'
    BY <1>1, <2>3, <2>6 DEF OrderInv, DoneInQueue
  <2>11. writing' = {}
    BY <1>5, <2>1 DEF queue_tx, writing, goto, PcTypeOK
  <2>12. tx_enqueue_cursor' = place(accepted' + 1)
    <3>1. (accepted + 1) + 1 = accepted + 2
      BY OrderCounts
    <3>2. tx_enqueue_cursor = place(accepted + 2)
      BY <1>1, <2>1 DEF OrderInv, CursorInv
    <3>3. QED
      BY <2>3, <3>1, <3>2
  <2>13. CursorInv'
    BY <1>1, <2>3, <2>5, <2>11, <2>12 DEF OrderInv, CursorInv
  <2>14. QED
    BY <2>7, <2>8, <2>9, <2>10, <2>13 DEF OrderInv
<1>6. ASSUME NEW t \in Threads, schedule_tx(t)
      PROVE  OrderInv'
  <2>1. writing = {} /\ writing' = {}
    <3>1. ASSUME NEW u \in writing PROVE FALSE
      BY <1>6, <3>1, OneWriter DEF schedule_tx, writing, TxInv
    <3>2. QED
      BY <1>6, <3>1 DEF schedule_tx, writing, goto, PcTypeOK
  <2>2. QED
    BY <1>2, <1>6, <2>1 DEF schedule_tx
<1>7. ASSUME tx_workfn
      PROVE  OrderInv'
  <2>1. /\ UNCHANGED <<tx_complete, accepted, sent, tx_enqueue_cursor, tx_slot>>
        /\ writing' = writing
    BY <1>7 DEF tx_workfn, writing
  <2>2. CASE no_kick
    <3>1. tx' = reaped /\ UNCHANGED <<tx_pick_cursor, tx_active>>
      BY <2>2 DEF no_kick
    <3>2. SentInv' /\ WindowInv' /\ QueuedInv' /\ ActiveInv'
      BY <1>1, <2>1, <3>1, ReapedInOrder, SameOrder
    <3>3. DoneInQueue'
      BY <1>1, <3>1, ReapedInOrder DEF OrderInv, DoneInQueue
    <3>4. started' = started
      BY <2>1, <3>1 DEF started, in_transit
    <3>5. CursorInv'
      BY <1>1, <2>1, <3>1, <3>4 DEF OrderInv, CursorInv
    <3>6. QED
      BY <3>2, <3>3, <3>5 DEF OrderInv
  <2>3. CASE kick_one_tx
    <3>1. PICK slot \in TxSlots :
            /\ tx_active = NoSlot /\ picked(slot)
            /\ tx_pick_cursor' = after(slot, TX_RING_DEPTH)
            /\ tx' = turned(reaped, slot, "active")
            /\ tx_active' = slot
      BY <1>1, <2>3 DEF kick_one_tx
    <3>2. tx_pick_cursor = place(started + 1)
      BY <1>1 DEF OrderInv, CursorInv
    <3>3. slot = tx_pick_cursor /\ started + 1 <= accepted
      <4>1. tx[slot].state = "queued"
        BY <3>1 DEF picked, first_from, tx_in
      <4>2. started + 1 <= accepted
        BY <1>1, <4>1, OrderCounts DEF OrderInv, QueuedInv
      <4>3. started + 1 \in started + 1 .. accepted
        BY <4>2, OrderCounts
      <4>4. tx_pick_cursor \in tx_in("queued")
        BY <1>1, <3>2, <4>3 DEF OrderInv, QueuedInv, tx_in, TxTypeOK
      <4>5. tx_in("queued") \in SUBSET (0 .. TX_RING_DEPTH - 1)
        BY DEF tx_in, TxSlots
      <4>6. TX_RING_DEPTH \in Nat /\ TX_RING_DEPTH > 0
        BY AxisMsgAssumption
      <4>7. slot = tx_pick_cursor
        BY <3>1, <4>4, <4>5, <4>6, FirstIsCursor DEF picked
      <4>8. QED
        BY <4>2, <4>7
    <3>4. tx[slot].state = "queued" /\ tx[slot].message = started + 1
      <4>1. started + 1 \in started + 1 .. accepted
        BY <3>3, OrderCounts
      <4>2. QED
        BY <1>1, <3>2, <3>3, <4>1 DEF OrderInv, QueuedInv
    <3>5. /\ tx'[slot].state = "active" /\ tx'[slot].message = started + 1
          /\ \A s \in TxSlots \ {slot} : tx'[s] = reaped[s]
      <4>1. reaped[slot] = tx[slot] /\ reaped \in [TxSlots -> TxSlot]
        BY <3>4, ReapedInOrder DEF in_use
      <4>2. QED
        BY <3>1, <3>4, <4>1 DEF turned, slot_record
    <3>6. /\ in_transit = 0 /\ in_transit' = 1
      BY <2>1, <3>1, NoSlotApart DEF in_transit, TxInv, TxTypeOK
    <3>7. started' = started + 1 /\ oldest' = oldest /\ oldest = started + 1
      BY <2>1, <3>1, <3>6, NoSlotApart DEF started, oldest, TxTypeOK
    <3>8. SentInv' /\ WindowInv'
      BY <1>1, <2>1, <3>3, <3>7, OrderCounts DEF OrderInv, SentInv, WindowInv
    <3>9. QueuedInv'
      <4>1. \A m \in started + 2 .. accepted :
              m \in started + 1 .. accepted /\ m # started + 1
        BY OrderCounts
      <4>2. ASSUME NEW m \in started + 2 .. accepted
            PROVE  /\ tx'[place(m)].state = "queued"
                   /\ tx'[place(m)].message = m
        <5>1. place(m) \in TxSlots
          BY PlaceInRing, OrderCounts
        <5>2. tx[place(m)].state = "queued" /\ tx[place(m)].message = m
          BY <1>1, <4>1 DEF OrderInv, QueuedInv
        <5>3. place(m) # slot
          BY <3>4, <4>1, <5>2
        <5>4. tx'[place(m)] = tx[place(m)]
          BY <3>5, <5>1, <5>2, <5>3, ReapedInOrder DEF in_use
        <5>5. QED
          BY <5>2, <5>4
      <4>3. ASSUME NEW s \in TxSlots, tx'[s].state = "queued"
            PROVE  \E m \in started + 2 .. accepted : s = place(m)
        <5>1. s # slot /\ tx'[s] = reaped[s]
          BY <3>5, <4>3
        <5>2. tx[s].state = "queued"
          BY <4>3, <5>1, ReapedInOrder
        <5>3. PICK m \in started + 1 .. accepted : s = place(m)
          BY <1>1, <5>2 DEF OrderInv, QueuedInv
        <5>4. m # started + 1
          BY <3>2, <3>3, <5>1, <5>3
        <5>5. m \in started + 2 .. accepted
          BY <5>4, OrderCounts
        <5>6. QED
          BY <5>3, <5>5
      <4>4. started' + 1 = started + 2
        BY <3>7, OrderCounts
      <4>5. QED
        BY <2>1, <4>2, <4>3, <4>4 DEF QueuedInv
    <3>10. ActiveInv'
      BY <2>1, <3>1, <3>2, <3>3, <3>5, <3>7 DEF ActiveInv
    <3>11. DoneInQueue'
      BY <1>1, <3>5, ReapedInOrder DEF OrderInv, DoneInQueue
    <3>12. CursorInv'
      <4> DEFINE n == started + 1
      <4>1. n \in Int
        BY OrderCounts
      <4>2. tx_pick_cursor' = after(place(n), TX_RING_DEPTH)
        BY <3>1, <3>2, <3>3
      <4>3. n = started'
        BY <3>7
      <4> HIDE DEF n
      <4>4. after(place(n), TX_RING_DEPTH) = place(n + 1)
        BY <4>1, PlaceAfter
      <4>5. QED
        BY <1>1, <2>1, <4>2, <4>3, <4>4 DEF OrderInv, CursorInv
    <3>13. QED
      BY <3>8, <3>9, <3>10, <3>11, <3>12 DEF OrderInv
  <2>4. QED
    BY <1>7, <2>2, <2>3 DEF tx_workfn
<1>8. ASSUME tx_transmitted
      PROVE  OrderInv'
  <2>1. /\ tx_active # NoSlot /\ tx_complete = FALSE /\ tx_complete' = TRUE
        /\ sent' = Append(sent, tx[tx_active].message)
        /\ UNCHANGED <<tx, tx_active, tx_done_q, accepted, tx_pick_cursor,
                       tx_enqueue_cursor, tx_slot, pc>>
    BY <1>8 DEF tx_transmitted, TxTypeOK
  <2>2. /\ in_transit = 1 /\ in_transit' = 0 /\ started = Len(sent) + 1
    BY <2>1 DEF in_transit, started
  <2>3. tx[tx_active].message = started /\ started \in Nat
    BY <1>1, <2>1, OrderCounts DEF OrderInv, ActiveInv
  <2>4. /\ Len(sent') = Len(sent) + 1 /\ Len(sent) \in Nat
        /\ DOMAIN sent' = DOMAIN sent \cup {Len(sent) + 1}
        /\ sent'[Len(sent) + 1] = tx[tx_active].message
        /\ \A k \in DOMAIN sent : sent'[k] = sent[k]
    BY <2>1, <2>3 DEF TxTypeOK
  <2>5. started' = started /\ oldest' = oldest
    BY <2>1, <2>2, <2>4 DEF started, oldest
  <2>6. SentInv'
    BY <1>1, <2>2, <2>3, <2>4 DEF OrderInv, SentInv
  <2>7. WindowInv' /\ QueuedInv' /\ DoneInQueue'
    BY <1>1, <2>1, <2>5 DEF OrderInv, WindowInv, QueuedInv, DoneInQueue
  <2>8. ActiveInv' /\ CursorInv'
    BY <1>1, <2>1, <2>5 DEF OrderInv, ActiveInv, CursorInv, writing
  <2>9. QED
    BY <2>6, <2>7, <2>8 DEF OrderInv
<1>9. ASSUME tx_done_cb
      PROVE  OrderInv'
  <2>1. /\ tx_active \in TxSlots /\ tx[tx_active].state = "active"
        /\ tx_complete = TRUE
    BY <1>9 DEF tx_done_cb, TxInv, TxTypeOK
  <2>2. /\ tx_active' = NoSlot /\ tx_complete' = FALSE
        /\ UNCHANGED <<accepted, sent, tx_pick_cursor, tx_enqueue_cursor,
                       tx_slot, pc>>
    BY <1>9 DEF tx_done_cb
  <2>3. /\ tx'[tx_active].state \in {"free", "done"}
        /\ \A s \in TxSlots \ {tx_active} : tx'[s] = tx[s]
    BY <1>9, <2>1 DEF tx_done_cb, TxTypeOK, turned, slot_record
  <2>4. /\ \A k \in DOMAIN tx_done_q :
             k \in DOMAIN tx_done_q' /\ tx_done_q'[k] = tx_done_q[k]
        /\ tx'[tx_active].state = "done" =>
             \E k \in DOMAIN tx_done_q' : tx_done_q'[k] = tx_active
    <3>1. CASE tx_done_q' = tx_done_q /\ tx'[tx_active].state = "free"
      BY <3>1
    <3>2. CASE tx_done_q' = Append(tx_done_q, tx_active)
      <4>1. tx_done_q \in Seq(TxSlots)
        BY DEF TxTypeOK
      <4>2. QED
        BY <2>1, <3>2, <4>1
    <3>3. QED
      BY <1>9, <2>1, <3>1, <3>2 DEF tx_done_cb, TxTypeOK, slot_record
  <2>5. started' = started /\ oldest = started /\ oldest' = started + 1
    BY <2>1, <2>2, NoSlotApart DEF started, oldest, in_transit
  <2>6. SentInv' /\ WindowInv'
    BY <1>1, <2>2, <2>5, OrderCounts DEF OrderInv, SentInv, WindowInv
  <2>7. QueuedInv'
    <3>1. ASSUME NEW m \in started + 1 .. accepted
          PROVE  tx'[place(m)].state = "queued" /\ tx'[place(m)].message = m
      <4>1. tx[place(m)].state = "queued" /\ tx[place(m)].message = m
        BY <1>1 DEF OrderInv, QueuedInv
      <4>2. place(m) \in TxSlots
        BY PlaceInRing, OrderCounts
      <4>3. QED
        BY <2>1, <2>3, <4>1, <4>2
    <3>2. QED
      BY <1>1, <2>2, <2>3, <2>5, <3>1 DEF OrderInv, QueuedInv
  <2>8. ActiveInv'
    BY <2>2 DEF ActiveInv
  <2>9. DoneInQueue'
    BY <1>1, <2>3, <2>4 DEF OrderInv, DoneInQueue
  <2>10. CursorInv'
    BY <1>1, <2>2, <2>5 DEF OrderInv, CursorInv, writing
  <2>11. QED
    BY <2>6, <2>7, <2>8, <2>9, <2>10 DEF OrderInv
<1>10. ASSUME tx_workfn_wakes \/ tx_done_cb_wakes
       PROVE  OrderInv'
  <2>1. writing' = writing
    BY <1>10 DEF tx_workfn_wakes, tx_done_cb_wakes, wake_tx, wake, writing,
      PcTypeOK
  <2>2. QED
    BY <1>2, <1>10, <2>1 DEF tx_workfn_wakes, tx_done_cb_wakes
<1>11. ASSUME NEW t \in Threads,
              \/ wait_for_tx(t) \/ continue_rx(t) \/ take_rx(t)
              \/ wait_for_rx(t) \/ axismsg_release(t) \/ signal(t)
              \/ copy_part(t) \/ copy_rest(t)
       PROVE  OrderInv'
  <2>1. \A u \in writing : pc'[u] = "tx_copy"
    BY <1>11 DEF PcTypeOK, writing, goto, wait_for_tx, continue_rx, take_rx,
      wait_for_rx, axismsg_release, free_and_post, signal, copy_part, copy_rest
  <2>2. UNCHANGED tx_vars /\ no_writer_moves
    BY <1>11, RxStepsAreApart
  <2>3. QED
    BY <1>3, <2>1, <2>2
<1>12. ASSUME rx_steps \/ frame_arrives
       PROVE  OrderInv'
  <2>1. \A u \in writing : pc'[u] = "tx_copy"
    BY <1>12 DEF PcTypeOK, writing, rx_steps, post_rx_one, post_rx_returns,
      rx_done_cb, rx_done_cb_locked, rx_done_cb_wakes, wake_rx, wake,
      frame_arrives
  <2>2. UNCHANGED tx_vars /\ no_writer_moves
    BY <1>12, RxStepsAreApart
  <2>3. QED
    BY <1>3, <2>1, <2>2
<1>13. CASE UNCHANGED vars
  BY <1>2, <1>13 DEF vars, tx_vars, writing
<1>14. ASSUME NEW t \in Threads, copy_from_user_fails(t)
       PROVE  FALSE
  BY <1>1, <1>14 DEF copy_from_user_fails
<1>15. QED
  BY <1>4, <1>5, <1>6, <1>7, <1>8, <1>9, <1>10, <1>11, <1>12, <1>13, <1>14
  DEF Next, calls, goes_on, tx_steps

(* An empty TX ring is in order.                                           *)
LEMMA OrderInit == Init => TxOrderInv
<1> SUFFICES ASSUME Init PROVE OrderInv
  BY DEF TxOrderInv
<1>1. started = 0 /\ oldest = 1 /\ accepted = 0 /\ writing = {}
  BY DEF Init, started, oldest, in_transit, writing
<1>2. place(1) = 0
  <2>1. 0 \in 0 .. TX_RING_DEPTH - 1 /\ 1 - 1 = 0
    BY AxisMsgAssumption
  <2>2. 0 % TX_RING_DEPTH = 0
    BY <2>1, AxisMsgAssumption
  <2>3. QED
    BY <2>1, <2>2 DEF place
<1>3. SentInv /\ WindowInv
  BY <1>1, AxisMsgAssumption DEF Init, SentInv, WindowInv
<1>4. QueuedInv /\ ActiveInv /\ DoneInQueue
  <2>1. \A s \in TxSlots : tx[s].state = "free"
    BY DEF Init, slot_record
  <2>2. 1 .. 0 = {}
    OBVIOUS
  <2>3. QED
    BY <1>1, <2>1, <2>2 DEF Init, QueuedInv, ActiveInv, DoneInQueue
<1>5. CursorInv
  BY <1>1, <1>2 DEF Init, CursorInv
<1>6. QED
  BY <1>3, <1>4, <1>5 DEF OrderInv
-----------------------------------------------------------------------------
(* The order of receipt.  Well formed frames are on their way from the     *)
(* engine to a reader in the order of their numbers: those that are taken, *)
(* those in rx_done_q, the one of the callback, and those that have landed.*)
heard == IF rx_cb.stage = "lock" /\ rx_cb.message # NoMessage THEN 1 ELSE 0
received == Len(taken) + Len(rx_done_q) + heard
landed == [k \in DOMAIN rx_landed |-> rx[rx_landed[k]].message]
well_formed == {k \in DOMAIN rx_landed : landed[k] # NoMessage}

TakenInv == \A k \in DOMAIN taken : taken[k] = k

RxQueueInv ==
  \A k \in DOMAIN rx_done_q : rx[rx_done_q[k]].message = Len(taken) + k

HeardInv ==
  rx_cb.stage = "lock" =>
    /\ rx[rx_cb.slot].message = rx_cb.message
    /\ rx_cb.message # NoMessage => rx_cb.message = received

LandedInv ==
  /\ received <= arrived
  /\ \A k \in well_formed : landed[k] \in received + 1 .. arrived
  /\ \A j, k \in well_formed : j < k => landed[j] < landed[k]
  /\ \A m \in received + 1 .. arrived : \E k \in well_formed : landed[k] = m

RxOrderInv == TakenInv /\ RxQueueInv /\ HeardInv /\ LandedInv

(* The counters of the RX order are numbers.                               *)
LEMMA RxCounts ==
  ASSUME RxTypeOK
  PROVE  /\ Len(taken) \in Nat /\ Len(rx_done_q) \in Nat
         /\ heard \in {0, 1} /\ received \in Nat /\ arrived \in Nat
         /\ DOMAIN rx_landed \subseteq Nat
         /\ \A k \in DOMAIN rx_landed : landed[k] \in Nat
<1>1. Len(taken) \in Nat /\ Len(rx_done_q) \in Nat /\ arrived \in Nat
  BY DEF RxTypeOK
<1>2. heard \in {0, 1}
  BY DEF heard
<1>3. \A k \in DOMAIN rx_landed : k \in Nat /\ rx_landed[k] \in RxSlots
  BY DEF RxTypeOK
<1>4. \A k \in DOMAIN rx_landed : landed[k] \in Nat
  BY <1>3 DEF RxTypeOK, RxSlot, landed
<1>5. received \in Nat
  BY <1>1, <1>2 DEF received
<1>6. QED
  BY <1>1, <1>2, <1>3, <1>4, <1>5

(* A step that moves no frame, and changes the message of free slots only, *)
(* keeps the order.                                                        *)
LEMMA SameRxOrder ==
  ASSUME RxTypeOK, RxInv, RxOrderInv,
         UNCHANGED <<taken, arrived, rx_done_q, rx_landed>>,
         rx_cb'.stage = "lock" \/ rx_cb.stage = "lock" => rx_cb' = rx_cb,
         \A s \in RxSlots :
           rx[s].state # "free" => rx'[s].message = rx[s].message
  PROVE  RxOrderInv'
<1>1. heard' = heard /\ received' = received
  BY DEF heard, received
<1>2. \A k \in DOMAIN rx_done_q :
        rx'[rx_done_q[k]].message = rx[rx_done_q[k]].message
  BY DEF RxTypeOK, RxInv, DoneInv, all_in
<1>3. \A k \in DOMAIN rx_landed : landed'[k] = landed[k]
  <2>1. \A k \in DOMAIN rx_landed : rx_landed[k] \in RxSlots
    BY DEF RxTypeOK
  <2>2. \A k \in DOMAIN rx_landed : rx[rx_landed[k]].state = "posted"
    BY DEF RxInv, EngineInv, all_in
  <2>3. \A k \in DOMAIN rx_landed :
          rx'[rx_landed[k]].message = rx[rx_landed[k]].message
    BY <2>1, <2>2
  <2>4. QED
    BY <2>3 DEF landed
<1>4. rx_cb.stage = "lock" =>
        rx'[rx_cb.slot].message = rx[rx_cb.slot].message
  BY DEF RxTypeOK, RxInv, CallbackInv
<1>5. well_formed' = well_formed
  BY <1>3 DEF well_formed
<1>6. TakenInv' /\ RxQueueInv'
  BY <1>2 DEF RxOrderInv, TakenInv, RxQueueInv
<1>7. HeardInv'
  BY <1>1, <1>4 DEF RxOrderInv, HeardInv
<1>8. LandedInv'
  <2>1. \A k \in well_formed : landed'[k] = landed[k]
    BY <1>3 DEF well_formed
  <2>2. received' <= arrived'
    BY <1>1 DEF RxOrderInv, LandedInv
  <2>3. \A k \in well_formed' : landed'[k] \in received' + 1 .. arrived'
    BY <1>1, <1>5, <2>1 DEF RxOrderInv, LandedInv
  <2>4. \A j, k \in well_formed' : j < k => landed'[j] < landed'[k]
    BY <1>5, <2>1 DEF RxOrderInv, LandedInv
  <2>5. \A m \in received' + 1 .. arrived' :
          \E k \in well_formed' : landed'[k] = m
    BY <1>1, <1>5, <2>1 DEF RxOrderInv, LandedInv
  <2>6. QED
    BY <2>2, <2>3, <2>4, <2>5 DEF LandedInv
<1>9. QED
  BY <1>6, <1>7, <1>8 DEF RxOrderInv

(* Slots that occur once are no more than the ring has.                    *)
LEMMA Fits ==
  ASSUME NEW q \in Seq(RxSlots), unique(q)
  PROVE  Len(q) <= RX_RING_DEPTH
<1> DEFINE f == [k \in 1 .. Len(q) |-> q[k]]
<1>1. f \in Injection(1 .. Len(q), RxSlots)
  BY DEF Injection, IsInjective, unique
<1>2. IsFiniteSet(RxSlots) /\ Cardinality(RxSlots) = RX_RING_DEPTH
  <2>1. RX_RING_DEPTH \in Nat /\ RX_RING_DEPTH > 0
    BY AxisMsgAssumption
  <2>2. RX_RING_DEPTH - 1 \in Int /\ ~(0 > RX_RING_DEPTH - 1)
        /\ RX_RING_DEPTH - 1 - 0 + 1 = RX_RING_DEPTH
    BY <2>1
  <2>3. QED
    BY <2>2, FS_Interval DEF RxSlots
<1>3. Cardinality(1 .. Len(q)) <= RX_RING_DEPTH
  BY <1>1, <1>2, FS_Injection
<1>4. Cardinality(1 .. Len(q)) = Len(q)
  <2>1. Len(q) \in Nat
    OBVIOUS
  <2> DEFINE n == Len(q)
  <2>2. n \in Nat /\ n = Len(q)
    BY <2>1
  <2> HIDE DEF n
  <2>3. Cardinality(1 .. n) = IF 1 > n THEN 0 ELSE n - 1 + 1
    BY <2>2, 1 \in Int, n \in Int, FS_Interval
  <2>4. Cardinality(1 .. n) = n
    BY <2>2, <2>3
  <2>5. QED
    BY <2>2, <2>4
<1>5. QED
  BY <1>3, <1>4

(* The queue of done slots has room for the slot of a callback.            *)
LEMMA QueueHasRoom ==
  ASSUME RxTypeOK, RxInv, rx_cb.stage = "lock"
  PROVE  Len(rx_done_q) < RX_RING_DEPTH
<1> DEFINE slot == rx_cb.slot
           q == Append(rx_done_q, slot)
<1>1. slot \in RxSlots /\ rx[slot].state = "posted"
  BY DEF RxInv, CallbackInv
<1>2. rx_done_q \in Seq(RxSlots) /\ unique(rx_done_q)
  BY DEF RxTypeOK, RxInv, DoneInv
<1>3. lacks(rx_done_q, slot)
  BY <1>1, Apart
<1>4. q \in Seq(RxSlots) /\ unique(q)
  BY <1>1, <1>2, <1>3, Appending
<1>5. Len(q) = Len(rx_done_q) + 1 /\ Len(rx_done_q) \in Nat
  BY <1>1, <1>2
<1> HIDE DEF q, slot
<1>6. Len(q) <= RX_RING_DEPTH
  BY <1>4, Fits
<1>7. QED
  BY <1>5, <1>6, AxisMsgAssumption

(* The frame that landed first is the next to be received.                 *)
LEMMA FirstLanded ==
  ASSUME RxTypeOK, LandedInv, 1 \in well_formed
  PROVE  landed[1] = received + 1
<1>1. landed[1] \in received + 1 .. arrived
  BY DEF LandedInv
<1>2. received + 1 \in received + 1 .. arrived
  BY <1>1, RxCounts
<1>3. PICK k \in well_formed : landed[k] = received + 1
  BY <1>2 DEF LandedInv
<1>4. k = 1 \/ 1 < k
  BY RxCounts DEF well_formed, RxTypeOK
<1>5. ~ 1 < k
  BY <1>1, <1>3, RxCounts DEF LandedInv
<1>6. QED
  BY <1>3, <1>4, <1>5

(* Every step keeps the messages of the RX ring in order.                  *)
LEMMA RxOrderStep == IndInv /\ RxOrderInv /\ [Next]_vars => RxOrderInv'
<1> SUFFICES ASSUME IndInv, RxOrderInv, [Next]_vars PROVE RxOrderInv'
  OBVIOUS
<1>1. RxTypeOK /\ RxInv /\ PcTypeOK
  BY DEF IndInv
<1>2. TakenInv /\ RxQueueInv /\ HeardInv /\ LandedInv
  BY DEF RxOrderInv
<1>3. ASSUME frame_arrives
      PROVE  RxOrderInv'
  <2> DEFINE slot == Head(rx_chain)
             message == rx'[slot].message
  <2>1. /\ slot \in RxSlots /\ rx[slot].state = "posted"
        /\ lacks(rx_landed, slot)
    BY <1>1, <1>3, Removing DEF RxTypeOK, RxInv, EngineInv, all_in, apart,
      lacks, frame_arrives
  <2>2. rx_landed' = Append(rx_landed, slot)
    BY <1>3 DEF frame_arrives
  <2>3. UNCHANGED <<taken, rx_done_q, rx_cb>>
    BY <1>3 DEF frame_arrives
  <2>4. /\ \A s \in RxSlots \ {slot} : rx'[s] = rx[s]
        /\ \/ arrived' = arrived + 1 /\ message = arrived + 1
           \/ arrived' = arrived /\ message = NoMessage
    <3>1. \/ arrived' = arrived + 1
          \/ arrived' = arrived
      BY <1>3 DEF frame_arrives
    <3>2. rx' = [rx EXCEPT ![slot] =
                   slot_record("posted", IF arrived' > arrived THEN arrived'
                                         ELSE NoMessage)]
      BY <1>3 DEF frame_arrives
    <3>3. message = IF arrived' > arrived THEN arrived' ELSE NoMessage
      BY <1>1, <2>1, <3>2 DEF slot_record, RxTypeOK
    <3>4. arrived \in Nat
      BY <1>1 DEF RxTypeOK
    <3>5. QED
      BY <1>1, <2>1, <3>1, <3>2, <3>3, <3>4 DEF RxTypeOK
  <2> HIDE DEF slot, message
  <2>5. heard' = heard /\ received' = received
    BY <2>3 DEF heard, received
  <2>6. TakenInv' /\ RxQueueInv'
    <3>1. lacks(rx_done_q, slot)
      BY <1>1, <2>1, Apart
    <3>2. \A k \in DOMAIN rx_done_q :
            rx_done_q[k] \in RxSlots /\ rx_done_q[k] # slot
      BY <1>1, <3>1 DEF RxTypeOK, lacks
    <3>3. QED
      BY <1>2, <2>3, <2>4, <3>2 DEF TakenInv, RxQueueInv
  <2>7. HeardInv'
    <3>1. rx_cb.stage = "lock" => rx_cb.slot \in RxSlots /\ rx_cb.slot # slot
      BY <1>1, <1>3, Removing DEF RxInv, CallbackInv, lacks, slot, RxTypeOK,
        frame_arrives
    <3>2. QED
      BY <1>2, <2>3, <2>4, <2>5, <3>1 DEF HeardInv
  <2>8. LandedInv'
    <3> DEFINE n == Len(rx_landed) + 1
    <3>1. /\ n \in Nat /\ DOMAIN rx_landed' = DOMAIN rx_landed \cup {n}
          /\ rx_landed'[n] = slot
          /\ \A k \in DOMAIN rx_landed :
               /\ k \in Nat /\ k < n /\ rx_landed'[k] = rx_landed[k]
               /\ rx_landed[k] \in RxSlots /\ rx_landed[k] # slot
      BY <1>1, <2>1, <2>2 DEF RxTypeOK, lacks
    <3> HIDE DEF n
    <3>2. /\ landed'[n] = message
          /\ \A k \in DOMAIN rx_landed : landed'[k] = landed[k]
      BY <2>4, <3>1 DEF landed, message
    <3>3. /\ arrived \in Nat /\ received \in Nat
          /\ \A k \in DOMAIN rx_landed : landed[k] \in Nat
      BY <1>1, RxCounts
    <3>4. CASE arrived' = arrived + 1 /\ message = arrived + 1
      <4>1. well_formed' = well_formed \cup {n}
        BY <3>1, <3>2, <3>3, <3>4 DEF well_formed, NoMessage
      <4>2. \A k \in well_formed :
              /\ k < n /\ landed'[k] = landed[k]
              /\ landed[k] \in received + 1 .. arrived
        BY <1>2, <3>1, <3>2 DEF well_formed, LandedInv
      <4>3. n \notin well_formed
        BY <3>1, <4>2
      <4>4. received' <= arrived'
        BY <1>2, <2>5, <3>3, <3>4 DEF LandedInv
      <4>5. \A k \in well_formed' : landed'[k] \in received' + 1 .. arrived'
        <5>1. \A m \in received + 1 .. arrived :
                m \in received + 1 .. arrived + 1
          BY <3>3
        <5>2. arrived + 1 \in received + 1 .. arrived + 1
          BY <1>2, <3>3 DEF LandedInv
        <5>3. QED
          BY <2>5, <3>2, <3>4, <4>1, <4>2, <5>1, <5>2
      <4>6. ASSUME NEW j \in well_formed', NEW k \in well_formed', j < k
            PROVE  landed'[j] < landed'[k]
        <5>1. CASE j = n
          <6>1. k \in well_formed
            BY <3>1, <4>1, <4>6, <5>1
          <6>2. k < n /\ k \in Nat
            BY <3>1, <4>2, <6>1 DEF well_formed
          <6>3. QED
            BY <3>1, <4>6, <5>1, <6>2
        <5>2. CASE j \in well_formed /\ k = n
          BY <3>2, <3>3, <3>4, <4>2, <5>2
        <5>3. CASE j \in well_formed /\ k \in well_formed
          BY <1>2, <4>2, <4>6, <5>3 DEF LandedInv
        <5>4. QED
          BY <4>1, <5>1, <5>2, <5>3
      <4>7. ASSUME NEW m \in received' + 1 .. arrived'
            PROVE  \E k \in well_formed' : landed'[k] = m
        <5>1. m = arrived + 1 \/ m \in received + 1 .. arrived
          BY <2>5, <3>3, <3>4
        <5>2. CASE m = arrived + 1
          BY <3>2, <3>4, <4>1, <5>2
        <5>3. CASE m \in received + 1 .. arrived
          BY <1>2, <4>1, <4>2, <5>3 DEF LandedInv
        <5>4. QED
          BY <5>1, <5>2, <5>3
      <4>8. QED
        BY <4>4, <4>5, <4>6, <4>7 DEF LandedInv
    <3>5. CASE arrived' = arrived /\ message = NoMessage
      <4>1. /\ well_formed' = well_formed
            /\ \A k \in well_formed : landed'[k] = landed[k]
        BY <3>1, <3>2, <3>5 DEF well_formed
      <4>2. QED
        BY <1>2, <2>5, <3>5, <4>1 DEF LandedInv
    <3>6. QED
      BY <2>4, <3>4, <3>5
  <2>9. QED
    BY <2>6, <2>7, <2>8 DEF RxOrderInv
<1>4. ASSUME rx_done_cb
      PROVE  RxOrderInv'
  <2> DEFINE slot == Head(rx_landed)
  <2>1. /\ slot \in RxSlots /\ slot = rx_landed[1] /\ 1 \in DOMAIN rx_landed
        /\ rx_landed' = Tail(rx_landed)
        /\ Len(rx_landed) \in Nat
        /\ DOMAIN rx_landed = 1 .. Len(rx_landed)
        /\ DOMAIN rx_landed' = 1 .. Len(rx_landed) - 1
        /\ \A k \in DOMAIN rx_landed' : rx_landed'[k] = rx_landed[k + 1]
    <3>1. rx_landed \in Seq(RxSlots) /\ rx_landed # << >>
      BY <1>1, <1>4 DEF RxTypeOK, rx_done_cb
    <3>2. rx_landed' = Tail(rx_landed)
      BY <1>4 DEF rx_done_cb
    <3>3. QED
      BY <3>1, <3>2
  <2>2. /\ rx_cb' = [stage |-> "lock", slot |-> slot,
                     message |-> rx[slot].message]
        /\ rx_cb.stage = "idle"
        /\ UNCHANGED <<rx, taken, rx_done_q, arrived>>
    BY <1>4 DEF rx_done_cb
  <2>3. rx[slot].message = landed[1]
    BY <2>1 DEF landed
  <2> HIDE DEF slot
  <2>4. /\ heard = 0
        /\ heard' = IF landed[1] # NoMessage THEN 1 ELSE 0
    BY <2>2, <2>3 DEF heard
  <2>5. received' = received + heard' /\ received \in Nat
    BY <1>1, <2>2, <2>4, RxCounts DEF received
  <2>6. TakenInv' /\ RxQueueInv'
    BY <1>2, <2>2 DEF TakenInv, RxQueueInv
  <2>7. landed[1] # NoMessage => landed[1] = received + 1
    BY <1>1, <1>2, <2>1, FirstLanded DEF well_formed
  <2>8. HeardInv'
    BY <2>2, <2>3, <2>4, <2>5, <2>7 DEF HeardInv
  <2>9. LandedInv'
    <3>1. \A k \in DOMAIN rx_landed' :
            /\ k + 1 \in DOMAIN rx_landed /\ k \in Nat /\ k >= 1
            /\ landed'[k] = landed[k + 1]
      BY <2>1, <2>2 DEF landed
    <3>2. \A k \in well_formed' :
            /\ k \in Nat /\ k >= 1 /\ k + 1 \in well_formed
            /\ landed'[k] = landed[k + 1] /\ landed[k + 1] \in Nat
      BY <1>1, <3>1, RxCounts DEF well_formed
    <3>3. \A k \in well_formed :
            k # 1 => k - 1 \in well_formed' /\ landed'[k - 1] = landed[k]
      <4>1. ASSUME NEW k \in DOMAIN rx_landed, k # 1
            PROVE  k - 1 \in DOMAIN rx_landed' /\ (k - 1) + 1 = k
        BY <2>1, <4>1
      <4>2. QED
        BY <3>1, <4>1 DEF well_formed
    <3>4. arrived \in Nat /\ \A k \in well_formed : landed[k] \in Nat
      BY <1>1, RxCounts DEF well_formed
    <3>5. \A k \in well_formed : landed[k] \in received + 1 .. arrived
      BY <1>2 DEF LandedInv
    <3>6. \A j, k \in well_formed : j < k => landed[j] < landed[k]
      BY <1>2 DEF LandedInv
    <3>7. \A m \in received + 1 .. arrived : \E k \in well_formed : landed[k] = m
      BY <1>2 DEF LandedInv
    <3>8. 1 \in well_formed <=> landed[1] # NoMessage
      BY <2>1 DEF well_formed
    <3>9. received' <= arrived'
      <4>1. CASE 1 \in well_formed
        BY <2>2, <2>4, <2>5, <2>7, <3>4, <3>5, <3>8, <4>1
      <4>2. CASE 1 \notin well_formed
        BY <1>2, <2>2, <2>4, <2>5, <3>8, <4>2 DEF LandedInv
      <4>3. QED
        BY <4>1, <4>2
    <3>10. ASSUME NEW k \in well_formed'
           PROVE  landed'[k] \in received' + 1 .. arrived'
      <4>1. landed[k + 1] \in received + 1 .. arrived
        BY <3>2, <3>5
      <4>2. 1 \in well_formed => received + 1 < landed[k + 1]
        <5>1. 1 < k + 1
          BY <3>2
        <5>2. QED
          BY <2>7, <3>2, <3>6, <3>8, <5>1
      <4>3. QED
        BY <2>2, <2>4, <2>5, <3>2, <3>4, <3>8, <4>1, <4>2
    <3>11. ASSUME NEW j \in well_formed', NEW k \in well_formed', j < k
           PROVE  landed'[j] < landed'[k]
      <4>1. j + 1 < k + 1
        BY <3>2, <3>11
      <4>2. QED
        BY <3>2, <3>6, <4>1
    <3>12. ASSUME NEW m \in received' + 1 .. arrived'
           PROVE  \E k \in well_formed' : landed'[k] = m
      <4>1. m \in received + 1 .. arrived
        BY <2>2, <2>4, <2>5, <3>4
      <4>2. PICK k \in well_formed : landed[k] = m
        BY <3>7, <4>1
      <4>3. k # 1
        BY <2>2, <2>4, <2>5, <2>7, <3>4, <3>8, <4>2
      <4>4. QED
        BY <3>3, <4>2, <4>3
    <3>13. QED
      BY <3>9, <3>10, <3>11, <3>12 DEF LandedInv
  <2>10. QED
    BY <2>6, <2>8, <2>9 DEF RxOrderInv
<1>5. ASSUME rx_done_cb_locked
      PROVE  RxOrderInv'
  <2> DEFINE slot == rx_cb.slot
  <2>1. slot \in RxSlots /\ rx[slot].state = "posted"
    BY <1>1, <1>5 DEF RxInv, CallbackInv, rx_done_cb_locked
  <2>2. Len(rx_done_q) < RX_RING_DEPTH
    BY <1>1, <1>5, QueueHasRoom DEF rx_done_cb_locked
  <2>3. IF rx_cb.message # NoMessage
        THEN /\ rx' = turned(rx, slot, "done")
             /\ rx_done_q' = Append(rx_done_q, slot)
        ELSE rx' = turned(rx, slot, "free") /\ UNCHANGED rx_done_q
    BY <1>5, <2>2 DEF rx_done_cb_locked, enqueue_rx_done
  <2>4. /\ UNCHANGED <<taken, arrived, rx_landed>>
        /\ rx_cb.stage = "lock" /\ rx_cb'.stage = "notify"
    BY <1>5 DEF rx_done_cb_locked, no_callback
  <2>5. rx_cb.message = rx[slot].message
    BY <1>2, <2>4 DEF HeardInv
  <2> HIDE DEF slot
  <2>6. \A s \in RxSlots : rx'[s].message = rx[s].message
    <3>1. PICK state \in {"free", "done"} : rx' = turned(rx, slot, state)
      BY <2>3
    <3>2. QED
      BY <1>1, <2>1, <3>1 DEF turned, slot_record, RxTypeOK
  <2>7. /\ heard' = 0
        /\ heard = IF rx_cb.message # NoMessage THEN 1 ELSE 0
    BY <2>4 DEF heard
  <2>8. rx_done_q \in Seq(RxSlots) /\ Len(rx_done_q) \in Nat
    BY <1>1 DEF RxTypeOK
  <2>9. received' = received
    <3>1. Len(rx_done_q') = Len(rx_done_q) + heard
      BY <2>1, <2>3, <2>7, <2>8
    <3>2. Len(taken) \in Nat
      BY <1>1, RxCounts
    <3>3. QED
      BY <2>4, <2>7, <2>8, <3>1, <3>2 DEF received
  <2>10. RxQueueInv'
    <3>1. \A k \in DOMAIN rx_done_q :
            /\ rx_done_q[k] \in RxSlots
            /\ rx[rx_done_q[k]].message = Len(taken) + k
      BY <1>2, <2>8 DEF RxQueueInv
    <3>2. CASE rx_cb.message # NoMessage
      <4>1. rx[slot].message = Len(taken) + (Len(rx_done_q) + 1)
        <5>1. rx[slot].message = received /\ heard = 1
          BY <1>2, <2>4, <2>5, <2>7, <3>2 DEF HeardInv
        <5>2. QED
          BY <1>1, <5>1, RxCounts DEF received
      <4>2. /\ DOMAIN rx_done_q' = DOMAIN rx_done_q \cup {Len(rx_done_q) + 1}
            /\ rx_done_q'[Len(rx_done_q) + 1] = slot
            /\ \A k \in DOMAIN rx_done_q : rx_done_q'[k] = rx_done_q[k]
        BY <2>1, <2>3, <2>8, <3>2
      <4>3. QED
        BY <2>1, <2>4, <2>6, <3>1, <4>1, <4>2 DEF RxQueueInv
    <3>3. CASE rx_cb.message = NoMessage
      BY <2>3, <2>4, <2>6, <3>1, <3>3 DEF RxQueueInv
    <3>4. QED
      BY <3>2, <3>3
  <2>11. TakenInv' /\ HeardInv'
    BY <1>2, <2>4 DEF TakenInv, HeardInv
  <2>12. LandedInv'
    <3>1. \A k \in DOMAIN rx_landed : landed'[k] = landed[k]
      BY <1>1, <2>4, <2>6 DEF RxTypeOK, landed
    <3>2. /\ well_formed' = well_formed
          /\ \A k \in well_formed : landed'[k] = landed[k]
      BY <2>4, <3>1 DEF well_formed
    <3>3. QED
      BY <1>2, <2>4, <2>9, <3>2 DEF LandedInv
  <2>13. QED
    BY <2>10, <2>11, <2>12 DEF RxOrderInv
<1>6. ASSUME NEW t \in Threads, take_rx(t)
      PROVE  RxOrderInv'
  <2>1. /\ rx_done_q \in Seq(RxSlots) /\ rx_done_q # << >>
        /\ taken \in Seq(Nat)
    BY <1>1, <1>6 DEF RxTypeOK, take_rx
  <2>2. /\ rx_done_q' = Tail(rx_done_q)
        /\ taken' = Append(taken, rx[Head(rx_done_q)].message)
        /\ UNCHANGED <<rx, rx_landed, rx_cb, arrived>>
    BY <1>6 DEF take_rx
  <2>3. 1 \in DOMAIN rx_done_q /\ Head(rx_done_q) = rx_done_q[1]
    BY <2>1
  <2>4. rx[Head(rx_done_q)].message = Len(taken) + 1
    BY <1>2, <2>3 DEF RxQueueInv
  <2>5. taken' = Append(taken, Len(taken) + 1)
    BY <2>2, <2>4
  <2>6. /\ Len(taken) \in Nat /\ Len(taken') = Len(taken) + 1
        /\ Len(rx_done_q) \in Nat /\ Len(rx_done_q') = Len(rx_done_q) - 1
    BY <2>1, <2>2, <2>5
  <2>7. TakenInv'
    BY <1>2, <2>1, <2>5 DEF TakenInv
  <2>8. RxQueueInv'
    <3>1. ASSUME NEW k \in DOMAIN rx_done_q'
          PROVE  /\ k \in Nat /\ k + 1 \in DOMAIN rx_done_q
                 /\ rx_done_q'[k] = rx_done_q[k + 1]
      BY <2>1, <2>2
    <3>2. ASSUME NEW k \in DOMAIN rx_done_q'
          PROVE  rx[rx_done_q'[k]].message = Len(taken') + k
      <4>1. rx[rx_done_q'[k]].message = Len(taken) + (k + 1)
        BY <1>2, <3>1 DEF RxQueueInv
      <4>2. QED
        BY <2>6, <3>1, <4>1
    <3>3. QED
      BY <2>2, <3>2 DEF RxQueueInv
  <2>9. heard' = heard /\ received' = received
    <3>1. heard' = heard
      BY <2>2 DEF heard
    <3>2. QED
      BY <1>1, <2>6, <3>1, RxCounts DEF received
  <2>10. HeardInv'
    BY <1>2, <2>2, <2>9 DEF HeardInv
  <2>11. LandedInv'
    <3>1. landed' = landed
      BY <2>2 DEF landed
    <3>2. well_formed' = well_formed
      BY <2>2, <3>1 DEF well_formed
    <3>3. QED
      BY <1>2, <2>2, <2>9, <3>1, <3>2 DEF LandedInv
  <2>12. QED
    BY <2>7, <2>8, <2>10, <2>11 DEF RxOrderInv
<1>7. ASSUME NEW t \in Threads, copy_rest(t) \/ axismsg_release(t)
      PROVE  RxOrderInv'
  <2>1. pending[t] # no_pending /\ free_and_post(t)
    BY <1>1, <1>7 DEF RxInv, ReaderInv, copy_rest, axismsg_release
  <2>2. pending[t].slot \in RxSlots
    BY <1>1, <2>1 DEF RxInv, PendingInv
  <2>3. \A s \in RxSlots : rx'[s].message = rx[s].message
    BY <1>1, <2>1, <2>2 DEF free_and_post, turned, slot_record, RxTypeOK
  <2>4. QED
    BY <1>1, <2>1, <2>3, SameRxOrder DEF free_and_post
<1>8. ASSUME post_rx_one
      PROVE  RxOrderInv'
  <2>1. post_slot \in RxSlots
    BY <1>1, PostSlotInRing DEF RxTypeOK
  <2>2. \A s \in RxSlots :
          rx[s].state # "free" => rx'[s].message = rx[s].message
    <3>1. CASE ~postable
      BY <1>8, <3>1 DEF post_rx_one
    <3>2. CASE postable
      <4>1. rx[post_slot].state = "free"
        BY <3>2 DEF postable
      <4>2. \A s \in RxSlots : s # post_slot => rx'[s] = rx[s]
        BY <1>1, <1>8, <2>1, <3>2 DEF post_rx_one, RxTypeOK
      <4>3. QED
        BY <4>1, <4>2
    <3>3. QED
      BY <3>1, <3>2
  <2>3. QED
    BY <1>1, <1>8, <2>2, SameRxOrder DEF post_rx_one
<1>9. ASSUME UNCHANGED <<taken, arrived, rx_done_q, rx_landed, rx>>,
             rx_cb'.stage = "lock" \/ rx_cb.stage = "lock" => rx_cb' = rx_cb
      PROVE  RxOrderInv'
  BY <1>1, <1>9, SameRxOrder
<1>10. ASSUME rx_done_cb_wakes
       PROVE  RxOrderInv'
  BY <1>9, <1>10 DEF rx_done_cb_wakes, no_callback
<1>11. ASSUME UNCHANGED rx_vars
       PROVE  RxOrderInv'
  BY <1>9, <1>11 DEF rx_vars
<1>12. ASSUME \/ post_rx_returns
              \/ \E t \in Threads : continue_rx(t) \/ copy_part(t)
       PROVE  RxOrderInv'
  BY <1>9, <1>12 DEF post_rx_returns, continue_rx, copy_part
<1>13. CASE UNCHANGED vars
  BY <1>11, <1>13 DEF vars
<1>14. ASSUME NEW t \in Threads, calls(t) \/ goes_on(t)
       PROVE  RxOrderInv'
  BY <1>1, <1>6, <1>7, <1>11, <1>12, <1>14, TxStepsAreApart
  DEF calls, goes_on
<1>15. ASSUME tx_steps
       PROVE  RxOrderInv'
  BY <1>1, <1>11, <1>15, TxStepsAreApart
<1>16. QED
  BY <1>3, <1>4, <1>5, <1>8, <1>10, <1>12, <1>13, <1>14, <1>15
  DEF Next, rx_steps

(* An empty RX ring is in order.                                           *)
LEMMA RxOrderInit == Init => RxOrderInv
<1> SUFFICES ASSUME Init PROVE RxOrderInv
  OBVIOUS
<1>1. /\ taken = << >> /\ rx_done_q = << >> /\ rx_landed = << >>
      /\ rx_cb.stage = "idle" /\ arrived = 0
  BY DEF Init, no_callback
<1>2. heard = 0 /\ received = 0 /\ well_formed = {}
  BY <1>1 DEF heard, received, well_formed
<1>3. 0 + 1 .. 0 = {}
  OBVIOUS
<1>4. LandedInv
  BY <1>1, <1>2, <1>3 DEF LandedInv
<1>5. QED
  BY <1>1, <1>4 DEF RxOrderInv, TakenInv, RxQueueInv, HeardInv

(* Nothing is left out: as many frames have landed as have numbers between *)
(* the last that was received and the last that arrived.                   *)
LEMMA NoneLeftOut ==
  ASSUME RxTypeOK, LandedInv
  PROVE  Cardinality(well_formed) = arrived - received
<1> DEFINE a == received + 1
           b == arrived
           f == [k \in well_formed |-> landed[k]]
<1>1. a \in Int /\ b \in Int /\ received \in Nat /\ arrived \in Nat
      /\ received <= arrived
  BY RxCounts DEF LandedInv
<1>2. /\ \A k \in well_formed : landed[k] \in a .. b
      /\ \A m \in a .. b : \E k \in well_formed : landed[k] = m
  BY DEF LandedInv
<1>3. \A j, k \in well_formed : landed[j] = landed[k] => j = k
  <2>1. \A k \in well_formed : k \in Nat /\ landed[k] \in Nat
    BY RxCounts DEF well_formed
  <2>2. \A j, k \in well_formed : j < k => landed[j] < landed[k]
    BY DEF LandedInv
  <2>3. QED
    BY <2>1, <2>2
<1>4. Cardinality(a .. b) = arrived - received /\ IsFiniteSet(a .. b)
  <2> HIDE DEF a, b
  <2>1. IsFiniteSet(a .. b) /\ Cardinality(a .. b) = IF a > b THEN 0 ELSE b - a + 1
    BY <1>1, FS_Interval
  <2>2. (IF a > b THEN 0 ELSE b - a + 1) = arrived - received
    BY <1>1 DEF a, b
  <2>3. QED
    BY <2>1, <2>2
<1> HIDE DEF a, b
<1>5. f \in Injection(well_formed, a .. b)
  BY <1>2, <1>3 DEF Injection, IsInjective
<1>6. f \in Surjection(well_formed, a .. b)
  BY <1>2 DEF Surjection
<1>7. QED
  BY <1>4, <1>5, <1>6, FS_Injection

(* What the numbering of both rings says of what was sent and read.        *)
LEMMA MessagesStayInOrder == IndInv /\ TxOrderInv /\ RxOrderInv => MessagesInOrder
<1> SUFFICES ASSUME IndInv, TxOrderInv, RxOrderInv PROVE MessagesInOrder
  OBVIOUS
<1>1. TxInOrder
  BY DEF TxOrderInv, OrderInv, SentInv, TxInOrder
<1>2. RxInOrder
  <2>1. RxTypeOK /\ LandedInv /\ TakenInv
    BY DEF IndInv, RxOrderInv
  <2>2. Cardinality(well_formed) = arrived - received
    BY <2>1, NoneLeftOut
  <2>3. arrived = Len(taken) + Len(rx_done_q) + Cardinality(well_formed) + heard
    BY <2>1, <2>2, RxCounts DEF received
  <2>4. well_formed = {k \in DOMAIN rx_landed :
                         rx[rx_landed[k]].message # NoMessage}
    BY DEF well_formed, landed
  <2>5. QED
    BY <2>1, <2>3, <2>4 DEF RxInOrder, TakenInv, heard
<1>3. QED
  BY <1>1, <1>2 DEF MessagesInOrder

(* Messages are transmitted in the order in which write(2) accepts them    *)
(* while nothing fails, and frames are read in the order in which they     *)
(* come, none left out, whatever fails (the cursors, tx_done_q and         *)
(* rx_done_q of axismsg_shim.c).                                           *)
THEOREM MessagesKeepOrder == Spec => []MessagesInOrder
<1>1. Init => IndInv /\ TxOrderInv /\ RxOrderInv
  BY IndInit, OrderInit, RxOrderInit
<1>2. IndInv /\ (TxOrderInv /\ RxOrderInv) /\ [Next]_vars
        => (TxOrderInv /\ RxOrderInv)'
  BY OrderStep, RxOrderStep
<1>3. QED
  BY <1>1, <1>2, IndStep, MessagesStayInOrder, PTL DEF Spec
-----------------------------------------------------------------------------
(* Slots that are lost to the ring.  A malformed frame dooms its slot: the *)
(* callback frees it and posts none.  Slots that are free or doomed are no *)
(* more than probe, malformed frames and failures account for, except that *)
(* a reader may have freed one that post_rx_locked has yet to come to.     *)
free == rx_in("free")
ended == {s \in RxSlots : ~lacks(rx_landed, s)
                            \/ (rx_cb.stage = "lock" /\ s = rx_cb.slot)}
doomed == {s \in ended : rx[s].message = NoMessage}
spare == free \cup doomed
bound == left_out + dropped + faults

RxMutexInv == \A t \in Threads : pc[t] \in {"rx_copy", "post"} => rx_mutex = t

DoomedInv == Cardinality(doomed) <= dropped

OneToPost ==
  /\ \E t \in Threads : pc[t] = "post"
  /\ Cardinality(spare) <= bound + 1
  /\ \E i \in post_n .. RX_RING_DEPTH - 1 :
       (rx_post_cursor + i) % RX_RING_DEPTH \in free

SpareInv == rx_mutex # "probe" => Cardinality(spare) <= bound \/ OneToPost

FreeInv == RxMutexInv /\ DoomedInv /\ SpareInv

(* How many slots there may be in sets of slots.                           *)
LEMMA SlotCounts ==
  ASSUME NEW S \in SUBSET RxSlots, NEW T \in SUBSET RxSlots
  PROVE  /\ Cardinality(S) \in Nat
         /\ S \subseteq T => Cardinality(S) <= Cardinality(T)
         /\ Cardinality(S \cup T) <= Cardinality(S) + Cardinality(T)
         /\ \A s \in S : Cardinality(S \ {s}) = Cardinality(S) - 1
         /\ \A s \in RxSlots : Cardinality(S \cup {s}) <= Cardinality(S) + 1
<1>1. IsFiniteSet(RxSlots)
  <2>1. RX_RING_DEPTH - 1 \in Int
    BY AxisMsgAssumption
  <2>2. QED
    BY <2>1, FS_Interval DEF RxSlots
<1>2. IsFiniteSet(S) /\ IsFiniteSet(T)
  BY <1>1, FS_Subset
<1>3. /\ Cardinality(S) \in Nat /\ Cardinality(T) \in Nat
      /\ Cardinality(S \cap T) \in Nat
  <2>1. IsFiniteSet(S \cap T)
    BY <1>2, FS_Subset
  <2>2. QED
    BY <1>2, <2>1, FS_CardinalityType
<1>4. S \subseteq T => Cardinality(S) <= Cardinality(T)
  BY <1>2, FS_Subset
<1>5. Cardinality(S \cup T) <= Cardinality(S) + Cardinality(T)
  <2>1. Cardinality(S \cup T) =
          Cardinality(S) + Cardinality(T) - Cardinality(S \cap T)
    BY <1>2, FS_Union
  <2>2. QED
    BY <1>3, <2>1
<1>6. \A s \in S : Cardinality(S \ {s}) = Cardinality(S) - 1
  BY <1>2, FS_RemoveElement
<1>7. \A s \in RxSlots : Cardinality(S \cup {s}) <= Cardinality(S) + 1
  <2>1. ASSUME NEW s \in RxSlots
        PROVE  Cardinality(S \cup {s}) \in {Cardinality(S), Cardinality(S) + 1}
    BY <1>2, FS_AddElement
  <2>2. QED
    BY <1>3, <2>1
<1>8. QED
  BY <1>3, <1>4, <1>5, <1>6, <1>7

(* The sets of receive slots that are counted are finite.                  *)
LEMMA FreeSets ==
  /\ free \in SUBSET RxSlots /\ ended \in SUBSET RxSlots
  /\ doomed \in SUBSET RxSlots /\ spare \in SUBSET RxSlots
  /\ Cardinality(doomed) \in Nat /\ Cardinality(spare) \in Nat
<1>1. /\ free \in SUBSET RxSlots /\ ended \in SUBSET RxSlots
      /\ doomed \in SUBSET RxSlots /\ spare \in SUBSET RxSlots
  BY DEF free, rx_in, ended, doomed, spare
<1>2. QED
  BY <1>1, SlotCounts

(* And they are finite after the step.                                     *)
LEMMA FreeSetsNext ==
  /\ free' \in SUBSET RxSlots /\ ended' \in SUBSET RxSlots
  /\ doomed' \in SUBSET RxSlots /\ spare' \in SUBSET RxSlots
  /\ Cardinality(doomed') \in Nat /\ Cardinality(spare') \in Nat
<1>1. /\ free' \in SUBSET RxSlots /\ ended' \in SUBSET RxSlots
      /\ doomed' \in SUBSET RxSlots /\ spare' \in SUBSET RxSlots
  BY DEF free, rx_in, ended, doomed, spare
<1>2. QED
  BY <1>1, SlotCounts

(* The bound on the free slots is a number.                                *)
LEMMA BoundTypes ==
  ASSUME IndInv
  PROVE  left_out \in Int /\ dropped \in Nat /\ faults \in Nat /\ bound \in Int
BY DEF IndInv, RxTypeOK, PcTypeOK, bound

(* A step of no one that posts or reads, which frees nothing and dooms     *)
(* nothing.                                                                *)
LEMMA SameSpare ==
  ASSUME IndInv, IndInv', FreeInv,
         UNCHANGED <<rx_mutex, post_n, rx_post_cursor, left_out>>,
         dropped' = dropped, faults' >= faults,
         doomed' \subseteq doomed, spare' \subseteq spare, free \subseteq free',
         \A t \in Threads :
           /\ pc'[t] \in {"rx_copy", "post"} => pc'[t] = pc[t]
           /\ pc[t] = "post" => pc'[t] = "post"
  PROVE  FreeInv'
<1>1. RxMutexInv'
  BY DEF FreeInv, RxMutexInv
<1>2. /\ Cardinality(doomed') <= Cardinality(doomed)
      /\ Cardinality(spare') <= Cardinality(spare)
  BY FreeSets, FreeSetsNext, SlotCounts
<1>3. /\ bound \in Int /\ bound' \in Int /\ bound <= bound'
      /\ dropped \in Nat
  <2>1. faults' \in Nat
    BY DEF IndInv, PcTypeOK
  <2>2. QED
    BY <2>1, BoundTypes DEF bound
<1>4. DoomedInv'
  BY <1>2, <1>3, FreeSets, FreeSetsNext DEF FreeInv, DoomedInv
<1>5. ASSUME rx_mutex # "probe", Cardinality(spare) <= bound
      PROVE  Cardinality(spare') <= bound'
  BY <1>2, <1>3, <1>5, FreeSets, FreeSetsNext
<1>6. ASSUME OneToPost PROVE OneToPost'
  <2>1. Cardinality(spare') <= bound' + 1
    BY <1>2, <1>3, <1>6, FreeSets, FreeSetsNext DEF OneToPost
  <2>2. \E t \in Threads : pc'[t] = "post"
    BY <1>6 DEF OneToPost
  <2>3. \E i \in post_n' .. RX_RING_DEPTH - 1 :
          (rx_post_cursor' + i) % RX_RING_DEPTH \in free'
    BY <1>6 DEF OneToPost
  <2>4. QED
    BY <2>1, <2>2, <2>3 DEF OneToPost
<1>7. SpareInv'
  BY <1>5, <1>6 DEF FreeInv, SpareInv
<1>8. QED
  BY <1>1, <1>4, <1>7 DEF FreeInv

(* Who reads or releases finds no one posting.                             *)
LEMMA NoOnePosts ==
  ASSUME FreeInv,
         rx_mutex = "none" \/ \E t \in Threads : pc[t] = "rx_copy"
  PROVE  /\ Cardinality(spare) <= bound
         /\ \A u \in Threads : pc[u] = "rx_copy" => rx_mutex = u
         /\ \A u \in Threads : pc[u] # "post"
<1>1. \A u \in Threads : pc[u] \in {"rx_copy", "post"} => rx_mutex = u
  BY DEF FreeInv, RxMutexInv
<1>2. \A u \in Threads : pc[u] # "post"
  BY <1>1, AxisMsgAssumption
<1>3. rx_mutex # "probe"
  BY <1>1, AxisMsgAssumption
<1>4. QED
  BY <1>1, <1>2, <1>3 DEF FreeInv, SpareInv, OneToPost

(* Every step keeps the free slots within their bound.                     *)
LEMMA FreeStep == IndInv /\ RxOrderInv /\ FreeInv /\ [Next]_vars => FreeInv'
<1> SUFFICES ASSUME IndInv, RxOrderInv, FreeInv, [Next]_vars PROVE FreeInv'
  OBVIOUS
<1>1. /\ RxTypeOK /\ RxInv /\ PcTypeOK /\ HeardInv
      /\ RxMutexInv /\ DoomedInv /\ SpareInv
  BY DEF IndInv, RxOrderInv, FreeInv
<1>2. IndInv' /\ RxTypeOK' /\ PcTypeOK'
  BY IndStep DEF IndInv
<1>3. /\ left_out \in Int /\ dropped \in Nat /\ faults \in Nat
      /\ bound \in Int /\ bound' \in Int
      /\ Cardinality(doomed) \in Nat /\ Cardinality(spare) \in Nat
      /\ Cardinality(doomed') \in Nat /\ Cardinality(spare') \in Nat
  <2>1. left_out' \in Int /\ dropped' \in Nat
    BY <1>2 DEF RxTypeOK
  <2>2. faults' \in Nat
    BY <1>2 DEF PcTypeOK
  <2>3. bound' = left_out' + dropped' + faults'
    BY DEF bound
  <2>4. bound' \in Int
    BY <2>1, <2>2, <2>3
  <2>5. QED
    BY <2>4, BoundTypes, FreeSets, FreeSetsNext
<1>4. ASSUME post_rx_one
      PROVE  FreeInv'
  <2> DEFINE slot == post_slot
  <2>1. slot \in RxSlots /\ slot = (rx_post_cursor + post_n) % RX_RING_DEPTH
    BY <1>1, PostSlotInRing DEF RxTypeOK, post_slot
  <2>2. /\ post_n' = post_n + 1 /\ post_n \in Nat /\ post_n < RX_RING_DEPTH
        /\ UNCHANGED <<rx_landed, rx_cb, rx_mutex, left_out, dropped, pc>>
        /\ rx_mutex = "probe" \/ \E t \in Threads : pc[t] = "post"
    BY <1>1, <1>4 DEF post_rx_one, posting, RxTypeOK
  <2>3. postable <=> slot \in free
    BY <2>1 DEF postable, free, rx_in
  <2>4. \/ slot \notin free /\ UNCHANGED <<rx, rx_post_cursor, faults>>
        \/ /\ slot \in free /\ UNCHANGED faults
           /\ rx' = [rx EXCEPT ![slot] = slot_record("posted", NoMessage)]
        \/ /\ slot \in free /\ faults' = faults + 1
           /\ rx' = [rx EXCEPT ![slot] = slot_record("free", NoMessage)]
    BY <1>4, <2>3 DEF post_rx_one, fault
  <2> HIDE DEF slot
  <2>5. slot \in free => slot \notin ended
    BY <1>1, <2>1, Apart DEF free, rx_in, ended
  <2>6. \A s \in RxSlots \ {slot} : rx'[s] = rx[s]
    BY <1>1, <2>1, <2>4 DEF RxTypeOK
  <2>7. ended' = ended
    BY <2>2 DEF ended, lacks
  <2>8. doomed' = doomed
    <3>1. CASE slot \in free
      BY <2>5, <2>6, <2>7, <3>1 DEF doomed, ended
    <3>2. CASE UNCHANGED rx
      BY <2>7, <3>2 DEF doomed
    <3>3. QED
      BY <2>4, <3>1, <3>2
  <2>9. RxMutexInv' /\ DoomedInv'
    BY <1>1, <2>2, <2>8 DEF RxMutexInv, DoomedInv
  <2>10. ASSUME rx_mutex # "probe"
         PROVE  Cardinality(spare') <= bound' \/ OneToPost'
    <3>1. CASE slot \notin free /\ UNCHANGED <<rx, rx_post_cursor, faults>>
      <4>1. free' = free /\ spare' = spare /\ bound' = bound
        BY <2>2, <2>8, <3>1 DEF free, rx_in, spare, bound
      <4>2. ASSUME OneToPost PROVE OneToPost'
        <5>1. PICK i \in post_n .. RX_RING_DEPTH - 1 :
                (rx_post_cursor + i) % RX_RING_DEPTH \in free
          BY <4>2 DEF OneToPost
        <5>2. i # post_n
          BY <2>1, <3>1, <5>1
        <5>3. i \in post_n + 1 .. RX_RING_DEPTH - 1
          BY <2>2, <5>2, AxisMsgAssumption
        <5>4. QED
          BY <2>2, <3>1, <4>1, <4>2, <5>1, <5>3 DEF OneToPost
      <4>3. QED
        BY <1>1, <2>10, <4>1, <4>2 DEF SpareInv
    <3>2. CASE /\ slot \in free /\ UNCHANGED faults
               /\ rx' = [rx EXCEPT ![slot] = slot_record("posted", NoMessage)]
      <4>1. rx'[slot].state = "posted"
        BY <1>1, <2>1, <3>2 DEF RxTypeOK, slot_record
      <4>2. free' = free \ {slot}
        BY <2>1, <2>6, <4>1 DEF free, rx_in
      <4>3. slot \notin doomed /\ slot \in spare
        BY <2>5, <3>2 DEF doomed, spare
      <4>4. spare' = spare \ {slot}
        BY <2>8, <4>2, <4>3 DEF spare
      <4>5. Cardinality(spare') = Cardinality(spare) - 1
        BY <4>3, <4>4, FreeSets, SlotCounts
      <4>6. bound' = bound
        BY <2>2, <3>2 DEF bound
      <4>7. Cardinality(spare) <= bound + 1
        BY <1>1, <1>3, <2>10 DEF SpareInv, OneToPost
      <4>8. QED
        BY <1>3, <4>5, <4>6, <4>7
    <3>3. CASE /\ slot \in free /\ faults' = faults + 1
               /\ rx' = [rx EXCEPT ![slot] = slot_record("free", NoMessage)]
      <4>1. rx'[slot].state = "free" /\ rx[slot].state = "free"
        BY <1>1, <2>1, <3>3 DEF RxTypeOK, slot_record, free, rx_in
      <4>2. free' = free
        BY <2>1, <2>6, <4>1 DEF free, rx_in
      <4>3. spare' = spare
        BY <2>8, <4>2 DEF spare
      <4>4. bound' = bound + 1
        BY <1>3, <2>2, <3>3 DEF bound
      <4>5. Cardinality(spare) <= bound + 1
        BY <1>1, <1>3, <2>10 DEF SpareInv, OneToPost
      <4>6. QED
        BY <4>3, <4>4, <4>5
    <3>4. QED
      BY <2>4, <3>1, <3>2, <3>3
  <2>11. QED
    BY <2>2, <2>9, <2>10 DEF FreeInv, SpareInv
<1>5. ASSUME post_rx_returns
      PROVE  FreeInv'
  <2>1. /\ post_n = RX_RING_DEPTH /\ rx_mutex' = "none"
        /\ UNCHANGED <<rx, rx_landed, rx_cb, dropped, faults>>
        /\ left_out' = IF rx_mutex = "probe"
                       THEN Cardinality(rx_in("free")) - faults ELSE left_out
        /\ rx_mutex = "probe" \/ \E t \in Threads : pc[t] = "post"
    BY <1>5 DEF post_rx_returns, posting
  <2>2. \A t \in Threads : pc'[t] \notin {"rx_copy", "post"}
    <3>1. \A t \in Threads : pc[t] # "rx_copy"
      BY <1>1, <2>1, AxisMsgAssumption DEF RxMutexInv
    <3>2. QED
      BY <1>1, <1>5, <3>1 DEF post_rx_returns, PcTypeOK
  <2>3. free' = free /\ ended' = ended
    BY <2>1 DEF free, rx_in, ended, lacks
  <2>4. doomed' = doomed /\ spare' = spare
    BY <2>1, <2>3 DEF doomed, spare
  <2>5. Cardinality(spare') <= bound'
    <3>1. CASE rx_mutex = "probe"
      <4>1. left_out' = Cardinality(free) - faults
        BY <2>1, <3>1 DEF free
      <4>2. Cardinality(free) \in Nat
        BY FreeSets, SlotCounts
      <4>3. bound' = Cardinality(free) + dropped
        BY <1>3, <2>1, <4>1, <4>2 DEF bound
      <4>4. Cardinality(spare) <= Cardinality(free) + Cardinality(doomed)
        BY FreeSets, SlotCounts DEF spare
      <4>5. QED
        BY <1>1, <1>3, <2>4, <4>2, <4>3, <4>4 DEF DoomedInv
    <3>2. CASE rx_mutex # "probe"
      <4>1. ~OneToPost
        BY <2>1, AxisMsgAssumption DEF OneToPost
      <4>2. bound' = bound
        BY <2>1, <3>2 DEF bound
      <4>3. QED
        BY <1>1, <2>4, <3>2, <4>1, <4>2 DEF SpareInv
    <3>3. QED
      BY <3>1, <3>2
  <2>6. RxMutexInv' /\ DoomedInv'
    BY <1>1, <2>1, <2>2, <2>4 DEF RxMutexInv, DoomedInv
  <2>7. QED
    BY <2>5, <2>6 DEF FreeInv, SpareInv
<1>6. ASSUME frame_arrives
      PROVE  FreeInv'
  <2> DEFINE slot == Head(rx_chain)
  <2>1. /\ slot \in RxSlots /\ rx[slot].state = "posted"
        /\ lacks(rx_landed, slot)
    BY <1>1, <1>6, Removing DEF RxTypeOK, RxInv, EngineInv, all_in, apart,
      lacks, frame_arrives
  <2>2. /\ rx_landed' = Append(rx_landed, slot)
        /\ UNCHANGED <<rx_cb, rx_mutex, post_n, rx_post_cursor, left_out, pc,
                       faults>>
        /\ \/ arrived' = arrived + 1 /\ dropped' = dropped
           \/ arrived' = arrived /\ dropped' = dropped + 1
        /\ rx' = [rx EXCEPT ![slot] =
                    slot_record("posted", IF arrived' > arrived THEN arrived'
                                          ELSE NoMessage)]
    BY <1>6 DEF frame_arrives
  <2> HIDE DEF slot
  <2>3. ended' = ended \cup {slot}
    <3>1. rx_landed \in Seq(RxSlots)
      BY <1>1 DEF RxTypeOK
    <3>2. \A s \in RxSlots : lacks(rx_landed', s) <=>
                               lacks(rx_landed, s) /\ s # slot
      BY <2>1, <2>2, <3>1 DEF lacks
    <3>3. QED
      BY <2>1, <2>2, <3>2 DEF ended
  <2>4. \A s \in RxSlots \ {slot} : rx'[s] = rx[s]
    BY <1>1, <2>1, <2>2 DEF RxTypeOK
  <2>5. rx'[slot].state = "posted"
    BY <1>1, <2>1, <2>2 DEF RxTypeOK, slot_record
  <2>6. free' = free
    BY <2>1, <2>4, <2>5 DEF free, rx_in
  <2>7. CASE arrived' = arrived + 1 /\ dropped' = dropped
    <3>1. arrived \in Nat
      BY <1>1 DEF RxTypeOK
    <3>2. rx'[slot].message # NoMessage
      BY <1>1, <2>1, <2>2, <2>7, <3>1 DEF RxTypeOK, slot_record, NoMessage
    <3>3. doomed' \subseteq doomed
      BY <2>1, <2>3, <2>4, <3>2 DEF doomed, ended
    <3>4. spare' \subseteq spare
      BY <2>6, <3>3 DEF spare
    <3>5. faults' >= faults
      BY <1>3, <2>2
    <3>6. QED
      BY <1>2, <2>2, <2>6, <2>7, <3>3, <3>4, <3>5, SameSpare
  <2>8. CASE arrived' = arrived /\ dropped' = dropped + 1
    <3>1. doomed' \subseteq doomed \cup {slot}
      BY <2>1, <2>3, <2>4 DEF doomed, ended
    <3>2. spare' \subseteq spare \cup {slot}
      BY <2>6, <3>1 DEF spare
    <3>3. /\ Cardinality(doomed') <= Cardinality(doomed) + 1
          /\ Cardinality(spare') <= Cardinality(spare) + 1
      <4>1. /\ doomed \cup {slot} \in SUBSET RxSlots
            /\ spare \cup {slot} \in SUBSET RxSlots
        BY <2>1, FreeSets
      <4>2. /\ Cardinality(doomed') <= Cardinality(doomed \cup {slot})
            /\ Cardinality(spare') <= Cardinality(spare \cup {slot})
        BY <3>1, <3>2, <4>1, FreeSetsNext, SlotCounts
      <4>3. /\ Cardinality(doomed \cup {slot}) <= Cardinality(doomed) + 1
            /\ Cardinality(spare \cup {slot}) <= Cardinality(spare) + 1
        BY <2>1, FreeSets, SlotCounts
      <4>4. /\ Cardinality(doomed \cup {slot}) \in Nat
            /\ Cardinality(spare \cup {slot}) \in Nat
        BY <4>1, SlotCounts
      <4>5. QED
        BY <1>3, <4>2, <4>3, <4>4
    <3>4. bound' = bound + 1
      BY <1>3, <2>2, <2>8 DEF bound
    <3>5. RxMutexInv' /\ DoomedInv'
      <4>1. RxMutexInv'
        BY <1>1, <2>2 DEF RxMutexInv
      <4>2. Cardinality(doomed') <= dropped + 1
        BY <1>1, <1>3, <3>3 DEF DoomedInv
      <4>3. QED
        BY <2>8, <4>1, <4>2 DEF DoomedInv
    <3>6. ASSUME Cardinality(spare) <= bound
          PROVE  Cardinality(spare') <= bound'
      BY <1>3, <3>3, <3>4, <3>6
    <3>7. ASSUME OneToPost PROVE OneToPost'
      <4>1. Cardinality(spare') <= bound' + 1
        BY <1>3, <3>3, <3>4, <3>7 DEF OneToPost
      <4>2. QED
        BY <2>2, <2>6, <3>7, <4>1 DEF OneToPost
    <3>8. SpareInv'
      BY <1>1, <2>2, <3>6, <3>7 DEF SpareInv
    <3>9. QED
      BY <3>5, <3>8 DEF FreeInv
  <2>9. QED
    BY <2>2, <2>7, <2>8
<1>7. ASSUME rx_done_cb
      PROVE  FreeInv'
  <2> DEFINE slot == Head(rx_landed)
  <2>1. rx_landed \in Seq(RxSlots) /\ rx_landed # << >>
    BY <1>1, <1>7 DEF RxTypeOK, rx_done_cb
  <2>2. /\ rx_landed' = Tail(rx_landed)
        /\ rx_cb'.stage = "lock" /\ rx_cb'.slot = slot
        /\ rx_cb.stage = "idle"
        /\ UNCHANGED <<rx, rx_mutex, post_n, rx_post_cursor, left_out, dropped,
                       pc, faults>>
    BY <1>7 DEF rx_done_cb
  <2>3. /\ slot \in RxSlots /\ 1 \in DOMAIN rx_landed /\ slot = rx_landed[1]
        /\ \A k \in DOMAIN rx_landed' :
             k + 1 \in DOMAIN rx_landed /\ rx_landed'[k] = rx_landed[k + 1]
    BY <2>1, <2>2, Removing
  <2> HIDE DEF slot
  <2>4. ended' \subseteq ended
    BY <2>2, <2>3 DEF ended, lacks
  <2>5. free' = free /\ doomed' \subseteq doomed
    BY <2>2, <2>4 DEF free, rx_in, doomed
  <2>6. spare' \subseteq spare
    BY <2>5 DEF spare
  <2>7. faults' >= faults
    BY <1>3, <2>2
  <2>8. QED
    BY <1>2, <2>2, <2>5, <2>6, <2>7, SameSpare
<1>8. ASSUME rx_done_cb_locked
      PROVE  FreeInv'
  <2> DEFINE slot == rx_cb.slot
  <2>1. /\ slot \in RxSlots /\ rx[slot].state = "posted"
        /\ lacks(rx_landed, slot)
    BY <1>1, <1>8 DEF RxInv, CallbackInv, rx_done_cb_locked
  <2>2. Len(rx_done_q) < RX_RING_DEPTH
    BY <1>1, <1>8, QueueHasRoom DEF rx_done_cb_locked
  <2>3. IF rx_cb.message # NoMessage
        THEN rx' = turned(rx, slot, "done") ELSE rx' = turned(rx, slot, "free")
    BY <1>8, <2>2 DEF rx_done_cb_locked
  <2>4. /\ rx_cb.stage = "lock" /\ rx_cb'.stage = "notify"
        /\ UNCHANGED <<rx_landed, rx_mutex, post_n, rx_post_cursor, left_out,
                       dropped, pc, faults>>
    BY <1>8 DEF rx_done_cb_locked, no_callback
  <2>5. rx_cb.message = rx[slot].message
    BY <1>1, <2>4 DEF HeardInv
  <2>6. slot \in ended
    BY <2>1, <2>4 DEF ended
  <2> HIDE DEF slot
  <2>7. \A s \in RxSlots \ {slot} : rx'[s] = rx[s]
    BY <1>1, <2>1, <2>3 DEF turned, RxTypeOK
  <2>8. ended' \subseteq ended \ {slot}
    BY <2>1, <2>4 DEF ended, lacks
  <2>9. doomed' \subseteq doomed
    BY <2>7, <2>8 DEF doomed, ended
  <2>10. slot \notin free
    BY <2>1 DEF free, rx_in
  <2>11. free \subseteq free'
    BY <2>7, <2>10 DEF free, rx_in
  <2>12. spare' \subseteq spare
    <3>1. CASE rx_cb.message # NoMessage
      <4>1. rx'[slot].state = "done"
        BY <1>1, <2>1, <2>3, <3>1 DEF turned, slot_record, RxTypeOK
      <4>2. free' \subseteq free
        BY <2>7, <4>1 DEF free, rx_in
      <4>3. QED
        BY <2>9, <4>2 DEF spare
    <3>2. CASE rx_cb.message = NoMessage
      <4>1. slot \in doomed
        BY <2>5, <2>6, <3>2 DEF doomed
      <4>2. free' \subseteq free \cup {slot}
        BY <2>7 DEF free, rx_in
      <4>3. QED
        BY <2>9, <4>1, <4>2 DEF spare
    <3>3. QED
      BY <3>1, <3>2
  <2>13. faults' >= faults
    BY <1>3, <2>4
  <2>14. QED
    BY <1>2, <2>4, <2>9, <2>11, <2>12, <2>13, SameSpare
(* What touches neither the slots nor who holds them.                      *)
<1>9. ASSUME UNCHANGED <<rx, rx_landed, rx_mutex, post_n, rx_post_cursor,
                         left_out, dropped>>,
             rx_cb'.stage = "lock" \/ rx_cb.stage = "lock" => rx_cb' = rx_cb,
             faults' = faults \/ faults' = faults + 1,
             \A t \in Threads :
               /\ pc'[t] \in {"rx_copy", "post"} => pc'[t] = pc[t]
               /\ pc[t] = "post" => pc'[t] = "post"
      PROVE  FreeInv'
  <2>1. free' = free /\ ended' = ended
    BY <1>9 DEF free, rx_in, ended, lacks
  <2>2. doomed' = doomed /\ spare' = spare
    BY <1>9, <2>1 DEF doomed, spare
  <2>3. faults' >= faults
    BY <1>3, <1>9
  <2>4. QED
    BY <1>2, <1>9, <2>1, <2>2, <2>3, SameSpare
<1>10. ASSUME rx_done_cb_wakes
       PROVE  FreeInv'
  <2>1. \A t \in Threads :
          /\ pc'[t] \in {"rx_copy", "post"} => pc'[t] = pc[t]
          /\ pc[t] = "post" => pc'[t] = "post"
    BY <1>1, <1>10 DEF rx_done_cb_wakes, wake_rx, wake, PcTypeOK
  <2>2. QED
    BY <1>9, <1>10, <2>1 DEF rx_done_cb_wakes, no_callback
<1>11. ASSUME NEW t \in Threads, continue_rx(t) \/ take_rx(t) \/ copy_part(t)
       PROVE  FreeInv'
  <2>1. rx_mutex = "none" \/ pc[t] = "rx_copy"
    BY <1>11 DEF continue_rx, take_rx, copy_part
  <2>2. /\ Cardinality(spare) <= bound
        /\ \A u \in Threads : pc[u] = "rx_copy" => rx_mutex = u
        /\ \A u \in Threads : pc[u] # "post"
    BY <2>1, NoOnePosts
  <2>3. UNCHANGED <<rx, rx_landed, rx_cb, left_out, dropped, faults>>
    BY <1>11 DEF continue_rx, take_rx, copy_part
  <2>4. free' = free /\ ended' = ended
    BY <2>3 DEF free, rx_in, ended, lacks
  <2>5. doomed' = doomed /\ spare' = spare /\ bound' = bound
    BY <2>3, <2>4 DEF doomed, spare, bound
  <2>6. RxMutexInv'
    <3>1. CASE copy_part(t)
      BY <1>1, <2>2, <3>1 DEF copy_part, goto, RxMutexInv, PcTypeOK
    <3>2. CASE continue_rx(t) \/ take_rx(t)
      <4>1. \A u \in Threads : pc[u] \notin {"rx_copy", "post"}
        BY <2>2, <3>2, AxisMsgAssumption DEF continue_rx, take_rx
      <4>2. rx_mutex' = t /\ pc' = [pc EXCEPT ![t] = "rx_copy"]
        BY <3>2 DEF continue_rx, take_rx, goto
      <4>3. QED
        BY <1>1, <4>1, <4>2 DEF RxMutexInv, PcTypeOK
    <3>3. QED
      BY <1>11, <3>1, <3>2
  <2>7. QED
    BY <1>1, <2>2, <2>3, <2>5, <2>6 DEF FreeInv, DoomedInv, SpareInv
<1>12. ASSUME NEW t \in Threads, copy_rest(t) \/ axismsg_release(t)
       PROVE  FreeInv'
  <2> DEFINE slot == pending[t].slot
  <2>1. pending[t] # no_pending /\ free_and_post(t)
    BY <1>1, <1>12 DEF RxInv, ReaderInv, copy_rest, axismsg_release
  <2>2. slot \in RxSlots /\ rx[slot].state = "done"
    <3>1. slot \in RxSlots /\ rx[slot] = slot_record("done", pending[t].message)
      BY <1>1, <2>1 DEF RxInv, PendingInv
    <3>2. QED
      BY <3>1 DEF slot_record
  <2>3. /\ rx' = turned(rx, slot, "free") /\ post_n' = 0 /\ rx_mutex' = t
        /\ pc' = [pc EXCEPT ![t] = "post"]
        /\ UNCHANGED <<rx_landed, rx_cb, rx_post_cursor, left_out, dropped,
                       faults>>
    BY <2>1 DEF free_and_post, post_start, goto
  <2> HIDE DEF slot
  <2>4. /\ rx'[slot].state = "free"
        /\ \A s \in RxSlots \ {slot} : rx'[s] = rx[s]
    BY <1>1, <2>2, <2>3 DEF turned, slot_record, RxTypeOK
  <2>5. free' = free \cup {slot}
    BY <2>2, <2>4 DEF free, rx_in
  <2>6. ended' = ended /\ slot \notin ended
    BY <1>1, <2>2, <2>3, Apart DEF ended, lacks
  <2>7. doomed' = doomed
    BY <2>4, <2>6 DEF doomed, ended
  <2>8. spare' = spare \cup {slot}
    BY <2>5, <2>7 DEF spare
  <2>9. Cardinality(spare') <= Cardinality(spare) + 1
    BY <2>2, <2>8, FreeSets, SlotCounts
  <2>10. /\ Cardinality(spare) <= bound
         /\ \A u \in Threads : pc[u] = "rx_copy" => rx_mutex = u
         /\ \A u \in Threads : pc[u] # "post"
    <3>1. rx_mutex = "none" \/ pc[t] = "rx_copy"
      BY <1>12 DEF copy_rest, axismsg_release
    <3>2. QED
      BY <3>1, NoOnePosts
  <2>11. bound' = bound
    BY <2>3 DEF bound
  <2>12. RxMutexInv'
    <3>1. \A u \in Threads \ {t} : pc[u] # "rx_copy"
      BY <1>12, <2>10, AxisMsgAssumption DEF copy_rest, axismsg_release
    <3>2. \A u \in Threads \ {t} : pc'[u] = pc[u]
      BY <1>1, <2>3 DEF PcTypeOK
    <3>3. QED
      BY <2>3, <2>10, <3>1, <3>2 DEF RxMutexInv
  <2>13. DoomedInv'
    BY <1>1, <2>3, <2>7 DEF DoomedInv
  <2>14. OneToPost'
    <3>1. pc'[t] = "post"
      BY <1>1, <2>3 DEF PcTypeOK
    <3>2. Cardinality(spare') <= bound' + 1
      BY <1>3, <2>9, <2>10, <2>11
    <3>3. \E i \in 0 .. RX_RING_DEPTH - 1 :
            (rx_post_cursor + i) % RX_RING_DEPTH = slot
      <4>1. RX_RING_DEPTH \in Nat /\ RX_RING_DEPTH > 0
        BY AxisMsgAssumption
      <4>2. rx_post_cursor \in Int /\ slot \in 0 .. RX_RING_DEPTH - 1
        BY <1>1, <2>2 DEF RxTypeOK, RxSlots
      <4>3. QED
        BY <4>1, <4>2, EveryPlace
    <3>4. slot \in free'
      BY <2>5
    <3>5. QED
      BY <2>3, <3>1, <3>2, <3>3, <3>4 DEF OneToPost
  <2>15. QED
    BY <2>12, <2>13, <2>14 DEF FreeInv, SpareInv
<1>13. ASSUME NEW t \in Threads,
              \/ find_free_tx(t) \/ wait_for_tx(t) \/ wait_for_rx(t)
              \/ signal(t) \/ queue_tx(t) \/ copy_from_user_fails(t)
              \/ schedule_tx(t)
       PROVE  FreeInv'
  <2>1. UNCHANGED rx_vars
    BY <1>1, <1>13, TxStepsAreApart
  <2>2. \A u \in Threads :
          /\ pc'[u] \in {"rx_copy", "post"} => pc'[u] = pc[u]
          /\ pc[u] = "post" => pc'[u] = "post"
    BY <1>1, <1>13 DEF PcTypeOK, goto, find_free_tx, wait_for_tx, wait_for_rx,
      signal, queue_tx, copy_from_user_fails, schedule_tx
  <2>3. faults' = faults \/ faults' = faults + 1
    BY <1>13 DEF find_free_tx, wait_for_tx, wait_for_rx, signal, queue_tx,
      copy_from_user_fails, schedule_tx, fault
  <2>4. QED
    BY <1>9, <2>1, <2>2, <2>3 DEF rx_vars
<1>14. ASSUME tx_steps
       PROVE  FreeInv'
  <2>1. UNCHANGED rx_vars
    BY <1>1, <1>14, TxStepsAreApart
  <2>2. \A u \in Threads :
          /\ pc'[u] \in {"rx_copy", "post"} => pc'[u] = pc[u]
          /\ pc[u] = "post" => pc'[u] = "post"
    BY <1>1, <1>14 DEF PcTypeOK, tx_steps, tx_workfn, tx_workfn_wakes,
      tx_transmitted, tx_done_cb, tx_done_cb_wakes, wake_tx, wake
  <2>3. faults' = faults \/ faults' = faults + 1
    BY <1>14 DEF tx_steps, tx_workfn, no_kick, kick_one_tx, tx_workfn_wakes,
      tx_transmitted, tx_done_cb, tx_done_cb_wakes, fault
  <2>4. QED
    BY <1>9, <2>1, <2>2, <2>3 DEF rx_vars
<1>15. CASE UNCHANGED vars
  BY <1>9, <1>15 DEF vars, rx_vars
<1>16. ASSUME NEW t \in Threads, calls(t) \/ goes_on(t)
       PROVE  FreeInv'
  BY <1>11, <1>12, <1>13, <1>16 DEF calls, goes_on
<1>17. QED
  BY <1>4, <1>5, <1>6, <1>7, <1>8, <1>10, <1>14, <1>15, <1>16
  DEF Next, rx_steps

(* While the device starts, its slots are not posted yet.                  *)
LEMMA FreeInit == Init => FreeInv
<1> SUFFICES ASSUME Init PROVE FreeInv
  OBVIOUS
<1>1. ended = {}
  BY DEF Init, ended, lacks, no_callback
<1>2. doomed = {} /\ dropped = 0
  BY <1>1 DEF doomed, Init
<1>3. Cardinality(doomed) = 0
  BY <1>2, FS_EmptySet
<1>4. DoomedInv
  BY <1>2, <1>3 DEF DoomedInv
<1>5. RxMutexInv /\ SpareInv
  BY DEF Init, RxMutexInv, SpareInv
<1>6. QED
  BY <1>4, <1>5 DEF FreeInv

(* The ring gives up no slot for good but to a malformed frame or to a     *)
(* failure, however the passes of post_rx_locked, the callbacks and the    *)
(* readers interleave (post_rx_locked and rx_done_cb of axismsg_shim.c).   *)
THEOREM NoSlotIsLost == Spec => []SlotsAreNotLost
<1>1. IndInv /\ FreeInv => SlotsAreNotLost
  <2> SUFFICES ASSUME IndInv, FreeInv, ~posting
               PROVE  Cardinality(rx_in("free")) <= left_out + dropped + faults
    BY DEF SlotsAreNotLost
  <2>1. Cardinality(spare) <= bound
    BY DEF FreeInv, SpareInv, OneToPost, posting
  <2>2. Cardinality(free) <= Cardinality(spare) /\ Cardinality(free) \in Nat
    BY FreeSets, SlotCounts DEF spare
  <2>3. Cardinality(free) <= bound
    BY <2>1, <2>2, FreeSets, BoundTypes
  <2>4. QED
    BY <2>3 DEF free, bound
<1>2. Init => IndInv /\ RxOrderInv /\ FreeInv
  BY IndInit, RxOrderInit, FreeInit
<1>3. IndInv /\ (RxOrderInv /\ FreeInv) /\ [Next]_vars
        => (RxOrderInv /\ FreeInv)'
  BY RxOrderStep, FreeStep
<1>4. QED
  BY <1>1, <1>2, <1>3, IndStep, PTL DEF Spec
=============================================================================
