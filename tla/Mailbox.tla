------------------------------ MODULE Mailbox ------------------------------
(***************************************************************************)
(* The bounded associative mailbox of src/src/runtime/hls_mailbox.erl, the *)
(* CPU reference semantics of every actor's input queue.  A mailbox is a   *)
(* value owned by a controller; its users hold capabilities: reservations  *)
(* (to cancel or commit) and selections (to consume).  Every capability    *)
(* ever issued may be presented again at any later time, in any order,     *)
(* after resets, and after the controller has rebuilt the mailbox.         *)
(*                                                                         *)
(* A call that returns an error returns the mailbox it was given, so it is *)
(* a stuttering step: the *_result operators say which reply a call gets,  *)
(* and an operation's action is guarded by the reply "ok".                 *)
(*                                                                         *)
(* "serial" and the fields of that name are history: they number the       *)
(* reservations over all incarnations and no guard reads them.             *)
(***************************************************************************)
EXTENDS Naturals, Sequences, FiniteSets

CONSTANTS
  Capacity,         \* slots of the mailbox
  Owners,           \* reservation owners: ingress failure domains
  Messages,         \* message values
  ClauseLists,      \* receive clause lists: sequences of sets of messages
  undefined,        \* the value of a slot field not yet written
  MaxReservations,  \* bound: reservations made over all incarnations
  MaxSelections,    \* bound: selections issued over all incarnations
  MaxGeneration,    \* bound: largest generation
  MaxRebuilds       \* bound: times the controller rebuilds the mailbox

ASSUME MailboxAssumption ==
  /\ Capacity \in Nat \ {0}
  /\ ClauseLists \subseteq Seq(SUBSET Messages)
  /\ undefined \notin Messages
  /\ MaxReservations \in Nat
  /\ MaxSelections \in Nat
  /\ MaxGeneration \in Nat
  /\ MaxRebuilds \in Nat

VARIABLES
  id,            \* the reference made by new/2: fresh at every rebuild
  generation,    \* actor incarnation at the stable fabric address
  next_ticket,
  next_arrival,
  slots,         \* map from the occupied slot numbers to their content
  reservations,  \* every reservation capability issued so far
  selections,    \* every selection capability issued so far
  delivery,      \* the result of the latest successful consume/2
  serial         \* history: reservations made so far

mailbox == <<id, generation, next_ticket, next_arrival, slots>>
vars == <<mailbox, reservations, selections, delivery, serial>>
-----------------------------------------------------------------------------
Slot ==
  [status : {"reserved", "committed"}, reservation_owner : Owners,
   generation : Nat, ticket : Nat, arrival : Nat \cup {undefined},
   message : Messages \cup {undefined}, serial : Nat]

Reservation ==
  [mailbox_id : Nat, reservation_owner : Owners, generation : Nat,
   slot : Nat, ticket : Nat, serial : Nat]

Selection ==
  [mailbox_id : Nat, generation : Nat, slot : Nat, ticket : Nat,
   arrival : Nat, clauses : ClauseLists, clause : Nat, serial : Nat]

NoDelivery == [serial |-> undefined]

occupied == DOMAIN slots
reserved == {n \in occupied : slots[n].status = "reserved"}
committed == {n \in occupied : slots[n].status = "committed"}

(* The map without the slots in S. *)
without(S) == [n \in occupied \ S |-> slots[n]]

(* The map with slot n holding content c. *)
with(n, c) == [k \in occupied \cup {n} |-> IF k = n THEN c ELSE slots[k]]

first_free_slot(n) ==
  /\ n \in 0 .. Capacity - 1
  /\ n \notin occupied
  /\ \A k \in 0 .. n - 1 : k \in occupied

(* Defect: a slot is recognised without its ticket, so a late token hits   *)
(* the message that reused the slot.                                       *)
same_slot(token, status) ==
  /\ token.slot \in occupied
  /\ slots[token.slot].status = status

(* The slot a capability names still holds the incarnation it was issued   *)
(* for.  The owner is compared by cancel and by the first commit only.     *)
same_incarnation(token, status) ==
  /\ token.slot \in occupied
  /\ slots[token.slot].status = status
  /\ slots[token.slot].ticket = token.ticket

current(token) == token.mailbox_id = id /\ token.generation = generation
-----------------------------------------------------------------------------
reserve_result(g) ==
  IF g # generation THEN "stale_generation"
  ELSE IF Cardinality(occupied) >= Capacity THEN "full"
  ELSE "ok"

cancel_result(r) ==
  IF r.mailbox_id # id THEN "invalid_reservation"
  ELSE IF r.generation # generation THEN "stale_generation"
  ELSE IF /\ same_incarnation(r, "reserved")
          /\ slots[r.slot].reservation_owner = r.reservation_owner
       THEN "ok" ELSE "invalid_reservation"

commit_result(r) ==
  IF r.mailbox_id # id THEN "invalid_reservation"
  ELSE IF r.generation # generation THEN "stale_generation"
  ELSE IF same_incarnation(r, "committed") THEN "already_committed"
  ELSE IF /\ same_incarnation(r, "reserved")
          /\ slots[r.slot].reservation_owner = r.reservation_owner
       THEN "ok" ELSE "invalid_reservation"

consume_result(s) ==
  IF s.mailbox_id # id THEN "stale_selection"
  ELSE IF s.generation # generation THEN "stale_generation"
  ELSE IF /\ same_incarnation(s, "committed")
          /\ slots[s.slot].arrival = s.arrival
       THEN "ok" ELSE "stale_selection"

matches(message, clauses, i) ==
  /\ i \in DOMAIN clauses
  /\ message \in clauses[i]

first_matching_clause(message, clauses, i) ==
  /\ matches(message, clauses, i)
  /\ \A j \in DOMAIN clauses : matches(message, clauses, j) => i <= j

(* Defect: the newest acceptable message is selected.                      *)
select_newest(n, clauses) ==
  /\ n \in committed
  /\ \E i \in DOMAIN clauses : matches(slots[n].message, clauses, i)
  /\ \A m \in committed :
       (\E i \in DOMAIN clauses : matches(slots[m].message, clauses, i))
         => slots[n].arrival >= slots[m].arrival

(* Slot n holds the oldest committed message that some clause accepts.     *)
select_committed(n, clauses) ==
  /\ n \in committed
  /\ \E i \in DOMAIN clauses : matches(slots[n].message, clauses, i)
  /\ \A m \in committed :
       (\E i \in DOMAIN clauses : matches(slots[m].message, clauses, i))
         => slots[n].arrival <= slots[m].arrival
-----------------------------------------------------------------------------
Init ==
  /\ id = 0
  /\ generation = 0
  /\ next_ticket = 0
  /\ next_arrival = 0
  /\ slots = << >>
  /\ reservations = {}
  /\ selections = {}
  /\ delivery = NoDelivery
  /\ serial = 0

(* Defect: only the counters are reset, and old slots survive.             *)
cleared_counters ==
  /\ next_ticket' = 0
  /\ next_arrival' = 0
  /\ UNCHANGED slots

(* A #mailbox{} record built from its defaults: no ticket, age or slot.    *)
cleared ==
  /\ next_ticket' = 0
  /\ next_arrival' = 0
  /\ slots' = << >>

(* reset/1: the same mailbox identity in its next generation.              *)
reset ==
  /\ generation < MaxGeneration
  /\ generation' = generation + 1
  /\ cleared
  /\ UNCHANGED <<id, reservations, selections, delivery, serial>>

(* new/2 by a controller that rebuilds the mailbox after a respawn, at the *)
(* generation it is told: make_ref() gives the new value another identity. *)
rebuild(g) ==
  /\ id < MaxRebuilds
  /\ id' = id + 1
  /\ generation' = g
  /\ cleared
  /\ UNCHANGED <<reservations, selections, delivery, serial>>

reserve(g, owner) ==
  /\ serial < MaxReservations
  /\ reserve_result(g) = "ok"
  /\ \E n \in 0 .. Capacity - 1 :
       /\ first_free_slot(n)
       /\ slots' = with(n,
            [status |-> "reserved", reservation_owner |-> owner,
             generation |-> generation, ticket |-> next_ticket,
             arrival |-> undefined, message |-> undefined,
             serial |-> serial])
       /\ reservations' = reservations \cup
            {[mailbox_id |-> id, reservation_owner |-> owner,
              generation |-> generation, slot |-> n,
              ticket |-> next_ticket, serial |-> serial]}
  /\ next_ticket' = next_ticket + 1
  /\ serial' = serial + 1
  /\ UNCHANGED <<id, generation, next_arrival, selections, delivery>>

cancel(r) ==
  /\ cancel_result(r) = "ok"
  /\ slots' = without({r.slot})
  /\ UNCHANGED <<id, generation, next_ticket, next_arrival, reservations,
                 selections, delivery, serial>>

(* Defect: the owner's published messages go with its credits.             *)
cancel_owner_all(owner) ==
  /\ slots' = without({n \in occupied : slots[n].reservation_owner = owner})
  /\ UNCHANGED <<id, generation, next_ticket, next_arrival, reservations,
                 selections, delivery, serial>>

cancel_owner(owner) ==
  /\ slots' = without({n \in reserved : slots[n].reservation_owner = owner})
  /\ UNCHANGED <<id, generation, next_ticket, next_arrival, reservations,
                 selections, delivery, serial>>

(* Defect: a committed slot takes the age of its reservation.              *)
commit_reservation_order(r, message) ==
  /\ commit_result(r) = "ok"
  /\ slots' = with(r.slot,
       [slots[r.slot] EXCEPT !.status = "committed",
                             !.arrival = slots[r.slot].ticket,
                             !.message = message])
  /\ next_arrival' = next_arrival + 1
  /\ UNCHANGED <<id, generation, next_ticket, reservations, selections,
                 delivery, serial>>

commit(r, message) ==
  /\ commit_result(r) = "ok"
  /\ slots' = with(r.slot,
       [slots[r.slot] EXCEPT !.status = "committed",
                             !.arrival = next_arrival,
                             !.message = message])
  /\ next_arrival' = next_arrival + 1
  /\ UNCHANGED <<id, generation, next_ticket, reservations, selections,
                 delivery, serial>>

(* select/2 leaves the mailbox as it is and hands out a capability.        *)
select(clauses) ==
  /\ Cardinality(selections) < MaxSelections
  /\ \E n \in occupied, i \in DOMAIN clauses :
       /\ select_committed(n, clauses)
       /\ first_matching_clause(slots[n].message, clauses, i)
       /\ selections' = selections \cup
            {[mailbox_id |-> id, generation |-> generation, slot |-> n,
              ticket |-> slots[n].ticket, arrival |-> slots[n].arrival,
              clauses |-> clauses, clause |-> i,
              serial |-> slots[n].serial]}
  /\ UNCHANGED <<mailbox, reservations, delivery, serial>>

consume(s) ==
  /\ consume_result(s) = "ok"
  /\ delivery' = [serial |-> slots[s.slot].serial,
                  message |-> slots[s.slot].message,
                  clauses |-> s.clauses, clause |-> s.clause]
  /\ slots' = without({s.slot})
  /\ UNCHANGED <<id, generation, next_ticket, next_arrival, reservations,
                 selections, serial>>

Next ==
  \/ reset
  \/ \E g \in 0 .. MaxGeneration : rebuild(g)
  \/ \E g \in 0 .. MaxGeneration, owner \in Owners : reserve(g, owner)
  \/ \E r \in reservations : cancel(r)
  \/ \E owner \in Owners : cancel_owner(owner)
  \/ \E r \in reservations, message \in Messages : commit(r, message)
  \/ \E clauses \in ClauseLists : select(clauses)
  \/ \E s \in selections : consume(s)

Spec == Init /\ [][Next]_vars
-----------------------------------------------------------------------------
Delivery ==
  {NoDelivery} \cup
    [serial : Nat, message : Messages, clauses : ClauseLists, clause : Nat]

(* Every field has the type its record declares, and the occupied slots    *)
(* are among the mailbox's physical slots: admission never passes the      *)
(* capacity.                                                               *)
FieldTypes ==
  /\ id \in Nat
  /\ generation \in Nat
  /\ next_ticket \in Nat
  /\ next_arrival \in Nat
  /\ serial \in Nat
  /\ occupied \subseteq 0 .. Capacity - 1
  /\ \A n \in occupied : slots[n] \in Slot
  /\ reservations \subseteq Reservation
  /\ selections \subseteq Selection
  /\ delivery \in Delivery

(* Field types, and no published slot with a field still to be written:    *)
(* commit/3 publishes message, age and status in one step.                 *)
TypeOK ==
  /\ FieldTypes
  /\ \A n \in committed :
       slots[n].arrival \in Nat /\ slots[n].message \in Messages

(* A reservation presented at any time, over all generations and rebuilds, *)
(* is accepted (or acknowledged as a retry) only by the very slot          *)
(* incarnation it was issued for: commit_current and cancel_current.       *)
ReservationExact ==
  \A r \in reservations :
    cancel_result(r) = "ok" \/ commit_result(r) \in {"ok", "already_committed"}
      => slots[r.slot].serial = r.serial

(* No reserved slot can be leaked: some reservation in its user's hands    *)
(* is still accepted by cancel/2 for it.                                   *)
ReservationReclaimable ==
  \A n \in reserved :
    \E r \in reservations : r.slot = n /\ cancel_result(r) = "ok"

(* A selection that consume/2 would accept is still the answer select/2    *)
(* would give now: the same message, the oldest one its clauses accept,    *)
(* whatever was reserved, committed, cancelled or consumed in between.     *)
SelectionStable ==
  \A s \in selections :
    consume_result(s) = "ok" =>
      /\ slots[s.slot].serial = s.serial
      /\ select_committed(s.slot, s.clauses)
      /\ first_matching_clause(slots[s.slot].message, s.clauses, s.clause)

(* A published message leaves the mailbox only by being delivered, or with *)
(* the incarnation it belongs to: no cancel, no reuse of a slot and no     *)
(* late commit removes, replaces or reorders it.                           *)
NoLostMessage ==
  [][\A n \in committed :
       \/ n \in occupied' /\ slots'[n] = slots[n]
       \/ /\ n \notin occupied'
          /\ delivery'.serial = slots[n].serial
          /\ delivery'.message = slots[n].message
       \/ <<id, generation>>' # <<id, generation>>]_vars
-----------------------------------------------------------------------------
(* The abstract mailbox these slots stand for: a reserved slot is a credit *)
(* of its owner, a committed one a message in the place its commit took.   *)
credit(n) == [serial |-> slots[n].serial, owner |-> slots[n].reservation_owner]
entry(n) == [place |-> slots[n].arrival, serial |-> slots[n].serial,
             message |-> slots[n].message]
credits == {credit(n) : n \in reserved}
queue == {entry(n) : n \in committed}

Atomic == INSTANCE AtomicMailbox
            WITH published <- next_arrival, issued <- serial

(* Select, then consume at any later time, implements an atomic receive of *)
(* the oldest acceptable message, under the credits reserve/3 grants:      *)
(* hls_mailbox behind its capabilities is the abstract queue.              *)
ImplementsAtomicMailbox == Atomic!Spec
=============================================================================
