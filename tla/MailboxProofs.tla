--------------------------- MODULE MailboxProofs ---------------------------
(***************************************************************************)
(* Safety of the mailbox for every capacity, set of owners, messages and   *)
(* clause lists, and whatever the bounds: its capabilities are exact and   *)
(* a selection stays the right answer until it is consumed.                *)
(***************************************************************************)
EXTENDS Mailbox, FiniteSetTheorems, TLAPS

(* The occupied slots belong to the current incarnation and carry distinct *)
(* tickets already issued; each was filled through a reservation that its  *)
(* user still has.                                                         *)
SlotsInv ==
  \A n \in occupied :
    /\ slots[n].generation = generation
    /\ slots[n].ticket < next_ticket
    /\ n \in committed =>
         /\ slots[n].arrival \in Nat
         /\ slots[n].arrival < next_arrival
         /\ slots[n].message \in Messages
    /\ \A m \in occupied : slots[m].ticket = slots[n].ticket => m = n
    /\ \E r \in reservations :
         /\ current(r)
         /\ r.slot = n
         /\ r.ticket = slots[n].ticket
         /\ r.reservation_owner = slots[n].reservation_owner
         /\ r.serial = slots[n].serial

(* No capability comes from a later incarnation, and a ticket names one    *)
(* reservation of its incarnation.                                         *)
Issued(token) ==
  /\ token.mailbox_id <= id
  /\ token.mailbox_id = id => token.generation <= generation
  /\ current(token) => token.ticket < next_ticket

ReservationsInv ==
  /\ \A r \in reservations : Issued(r)
  /\ \A r, q \in reservations :
       /\ r.mailbox_id = q.mailbox_id
       /\ r.generation = q.generation
       /\ r.ticket = q.ticket
       => r = q

(* While the message a selection names is resident, it is where the        *)
(* selection says it is and is still what select/2 would return.           *)
SelectionsInv ==
  \A s \in selections :
    /\ Issued(s)
    /\ \A n \in occupied :
         current(s) /\ slots[n].ticket = s.ticket =>
           /\ n = s.slot
           /\ slots[n].serial = s.serial
           /\ select_committed(n, s.clauses)
           /\ first_matching_clause(slots[n].message, s.clauses, s.clause)

(* A reservation number names at most one occupied slot.                   *)
SerialsInv ==
  \A n \in occupied :
    /\ slots[n].serial < serial
    /\ \A m \in occupied : slots[m].serial = slots[n].serial => m = n

IInv ==
  FieldTypes /\ SlotsInv /\ ReservationsInv /\ SelectionsInv /\ SerialsInv
-----------------------------------------------------------------------------
USE MailboxAssumption

(* The mailbox of new/2 starts in it.                                      *)
LEMMA InitInv == Init => IInv
  BY DEF Init, IInv, FieldTypes, SlotsInv, ReservationsInv, SelectionsInv,
         SerialsInv, occupied, committed, Delivery, NoDelivery

(* A commit that is accepted fills a reserved slot in place.               *)
LEMMA CommitFills ==
  ASSUME IInv, NEW r \in reservations, NEW message \in Messages,
         commit(r, message)
  PROVE  /\ r.slot \in reserved
         /\ occupied' = occupied
         /\ \A n \in occupied \ {r.slot} : slots'[n] = slots[n]
         /\ slots'[r.slot] =
              [slots[r.slot] EXCEPT !.status = "committed",
                                    !.arrival = next_arrival,
                                    !.message = message]
         /\ slots'[r.slot] \in Slot
         /\ \A n \in occupied :
              /\ slots'[n].generation = slots[n].generation
              /\ slots'[n].ticket = slots[n].ticket
              /\ slots'[n].reservation_owner = slots[n].reservation_owner
              /\ slots'[n].serial = slots[n].serial
         /\ slots'[r.slot].status = "committed"
         /\ slots'[r.slot].arrival = next_arrival
         /\ slots'[r.slot].message = message
         /\ next_arrival' = next_arrival + 1
         /\ UNCHANGED <<id, generation, next_ticket, reservations,
                        selections, delivery, serial>>
  <1> USE DEF occupied
  <1>1. r.slot \in reserved
    BY DEF commit, commit_result, same_incarnation, reserved
  <1>2. slots[r.slot] \in Slot
    BY <1>1 DEF IInv, FieldTypes, reserved
  <1> DEFINE c == [slots[r.slot] EXCEPT !.status = "committed",
                                        !.arrival = next_arrival,
                                        !.message = message]
  <1>3. c \in Slot
    BY <1>2 DEF IInv, FieldTypes, Slot
  <1>4. slots' = with(r.slot, c)
    BY DEF commit
  <1> HIDE DEF c
  <1>5. /\ occupied' = occupied
        /\ \A n \in occupied \ {r.slot} : slots'[n] = slots[n]
        /\ slots'[r.slot] = c
    BY <1>1, <1>4 DEF with, reserved
  <1>6. /\ c.generation = slots[r.slot].generation
        /\ c.ticket = slots[r.slot].ticket
        /\ c.reservation_owner = slots[r.slot].reservation_owner
        /\ c.serial = slots[r.slot].serial
        /\ c.status = "committed"
        /\ c.arrival = next_arrival
        /\ c.message = message
    BY <1>2 DEF c, Slot
  <1>7. \A n \in occupied : n = r.slot \/ slots'[n] = slots[n]
    BY <1>5
  <1>8. QED
    BY <1>1, <1>3, <1>5, <1>6, <1>7 DEF commit, c

(* Types are preserved by every operation.                                 *)
LEMMA TypeStep == IInv /\ [Next]_vars => FieldTypes'
  <1> SUFFICES ASSUME IInv, [Next]_vars PROVE FieldTypes'
    OBVIOUS
  <1> USE DEF IInv, FieldTypes, occupied
  <1>1. CASE reset
    BY <1>1 DEF reset, cleared
  <1>2. ASSUME NEW g \in 0 .. MaxGeneration, rebuild(g) PROVE FieldTypes'
    BY <1>2 DEF rebuild, cleared
  <1>3. ASSUME NEW g \in 0 .. MaxGeneration, NEW owner \in Owners,
               reserve(g, owner)
        PROVE  FieldTypes'
    BY <1>3 DEF reserve, first_free_slot, with, Slot, Reservation
  <1>4. ASSUME NEW r \in reservations, cancel(r) PROVE FieldTypes'
    BY <1>4 DEF cancel, without
  <1>5. ASSUME NEW owner \in Owners, cancel_owner(owner) PROVE FieldTypes'
    BY <1>5 DEF cancel_owner, without
  <1>6. ASSUME NEW r \in reservations, NEW message \in Messages,
               commit(r, message)
        PROVE  FieldTypes'
    <2>1. /\ occupied' = occupied
          /\ \A n \in occupied \ {r.slot} : slots'[n] = slots[n]
          /\ slots'[r.slot] \in Slot
          /\ next_arrival' = next_arrival + 1
          /\ UNCHANGED <<id, generation, next_ticket, reservations,
                         selections, delivery, serial>>
      BY <1>6, CommitFills
    <2>2. \A n \in occupied : slots'[n] \in Slot
      BY <2>1
    <2>3. QED
      BY <2>1, <2>2
  <1>7. ASSUME NEW clauses \in ClauseLists, select(clauses) PROVE FieldTypes'
    <2>1. PICK n \in occupied, i \in DOMAIN clauses :
            /\ select_committed(n, clauses)
            /\ selections' = selections \cup
                 {[mailbox_id |-> id, generation |-> generation, slot |-> n,
                   ticket |-> slots[n].ticket, arrival |-> slots[n].arrival,
                   clauses |-> clauses, clause |-> i,
                   serial |-> slots[n].serial]}
      BY <1>7 DEF select
    <2>2. i \in Nat /\ n \in Nat
      <3>1. clauses \in Seq(SUBSET Messages)
        BY DEF MailboxAssumption
      <3>2. DOMAIN clauses = 1 .. Len(clauses) /\ Len(clauses) \in Nat
        BY <3>1
      <3>3. QED
        BY <3>2
    <2>3. /\ slots[n].ticket \in Nat
          /\ slots[n].serial \in Nat
          /\ slots[n].arrival \in Nat
      BY <2>1 DEF select_committed, SlotsInv, Slot
    <2>4. selections' \subseteq Selection
      BY <2>1, <2>2, <2>3 DEF Selection
    <2>5. QED
      BY <1>7, <2>4 DEF select, mailbox
  <1>8. ASSUME NEW s \in selections, consume(s) PROVE FieldTypes'
    <2>1. s.slot \in committed
      BY <1>8 DEF consume, consume_result, same_incarnation, committed
    <2>2. slots[s.slot].serial \in Nat /\ slots[s.slot].message \in Messages
      BY <2>1 DEF committed, SlotsInv, Slot
    <2>3. s.clauses \in ClauseLists /\ s.clause \in Nat
      BY DEF Selection
    <2>4. delivery' \in Delivery
      BY <1>8, <2>2, <2>3 DEF consume, Delivery
    <2>5. QED
      BY <1>8, <2>4 DEF consume, without
  <1>9. CASE UNCHANGED vars
    BY <1>9 DEF vars, mailbox
  <1>10. QED
    BY <1>1, <1>2, <1>3, <1>4, <1>5, <1>6, <1>7, <1>8, <1>9 DEF Next

(* Slots keep their own incarnation, ticket and reservation.               *)
LEMMA SlotsStep == IInv /\ [Next]_vars => SlotsInv'
  <1> SUFFICES ASSUME IInv, [Next]_vars PROVE SlotsInv'
    OBVIOUS
  <1> USE DEF IInv, FieldTypes, occupied, SlotsInv, committed, current
  <1>1. CASE reset
    BY <1>1 DEF reset, cleared
  <1>2. ASSUME NEW g \in 0 .. MaxGeneration, rebuild(g) PROVE SlotsInv'
    BY <1>2 DEF rebuild, cleared
  <1>3. ASSUME NEW g \in 0 .. MaxGeneration, NEW owner \in Owners,
               reserve(g, owner)
        PROVE  SlotsInv'
    <2> DEFINE new == [status |-> "reserved", reservation_owner |-> owner,
                       generation |-> generation, ticket |-> next_ticket,
                       arrival |-> undefined, message |-> undefined,
                       serial |-> serial]
               token(k) == [mailbox_id |-> id, reservation_owner |-> owner,
                            generation |-> generation, slot |-> k,
                            ticket |-> next_ticket, serial |-> serial]
    <2>1. PICK k \in 0 .. Capacity - 1 :
            /\ k \notin occupied
            /\ slots' = with(k, new)
            /\ reservations' = reservations \cup {token(k)}
      BY <1>3 DEF reserve, first_free_slot
    <2>2. /\ occupied' = occupied \cup {k}
          /\ slots'[k] = new
          /\ \A n \in occupied : slots'[n] = slots[n]
          /\ next_ticket' = next_ticket + 1
          /\ UNCHANGED <<id, generation, next_arrival>>
      BY <1>3, <2>1 DEF reserve, with
    <2>3. \A n \in occupied : slots[n].ticket \in Nat
      BY DEF Slot
    <2>4. ASSUME NEW n \in occupied'
          PROVE  /\ slots'[n].generation = generation'
                 /\ slots'[n].ticket < next_ticket'
                 /\ n \in committed' => n \in committed
                 /\ \A m \in occupied' :
                      slots'[m].ticket = slots'[n].ticket => m = n
      BY <2>2, <2>3
    <2>5. ASSUME NEW n \in occupied'
          PROVE  \E r \in reservations' :
                   /\ current(r)'
                   /\ r.slot = n
                   /\ r.ticket = slots'[n].ticket
                   /\ r.reservation_owner = slots'[n].reservation_owner
                   /\ r.serial = slots'[n].serial
      <3>1. CASE n = k
        <4>1. token(k) \in reservations'
          BY <2>1
        <4>2. QED
          BY <3>1, <4>1, <2>2
      <3>2. CASE n # k
        BY <3>2, <2>1, <2>2
      <3>3. QED
        BY <3>1, <3>2
    <2>6. QED
      BY <2>2, <2>4, <2>5
  <1>4. ASSUME NEW r \in reservations, cancel(r) PROVE SlotsInv'
    BY <1>4 DEF cancel, without
  <1>5. ASSUME NEW owner \in Owners, cancel_owner(owner) PROVE SlotsInv'
    BY <1>5 DEF cancel_owner, without
  <1>6. ASSUME NEW r \in reservations, NEW message \in Messages,
               commit(r, message)
        PROVE  SlotsInv'
    <2>1. /\ occupied' = occupied
          /\ \A n \in occupied \ {r.slot} : slots'[n] = slots[n]
          /\ \A n \in occupied :
               /\ slots'[n].generation = slots[n].generation
               /\ slots'[n].ticket = slots[n].ticket
               /\ slots'[n].reservation_owner = slots[n].reservation_owner
               /\ slots'[n].serial = slots[n].serial
          /\ slots'[r.slot].arrival = next_arrival
          /\ slots'[r.slot].message = message
          /\ next_arrival' = next_arrival + 1
          /\ UNCHANGED <<id, generation, next_ticket, reservations>>
      BY <1>6, CommitFills
    <2>2. ASSUME NEW n \in committed'
          PROVE  /\ slots'[n].arrival \in Nat
                 /\ slots'[n].arrival < next_arrival'
                 /\ slots'[n].message \in Messages
      BY <2>1
    <2>3. QED
      BY <2>1, <2>2
  <1>7. ASSUME NEW clauses \in ClauseLists, select(clauses) PROVE SlotsInv'
    BY <1>7 DEF select, mailbox
  <1>8. ASSUME NEW s \in selections, consume(s) PROVE SlotsInv'
    BY <1>8 DEF consume, without
  <1>9. CASE UNCHANGED vars
    BY <1>9 DEF vars, mailbox
  <1>10. QED
    BY <1>1, <1>2, <1>3, <1>4, <1>5, <1>6, <1>7, <1>8, <1>9 DEF Next

(* A new reservation takes a ticket of its incarnation nobody else has.    *)
LEMMA ReservationsStep == IInv /\ [Next]_vars => ReservationsInv'
  <1> SUFFICES ASSUME IInv, [Next]_vars PROVE ReservationsInv'
    OBVIOUS
  <1> USE DEF IInv, FieldTypes, ReservationsInv, Issued, current, Reservation
  <1>1. CASE reset
    BY <1>1 DEF reset, cleared
  <1>2. ASSUME NEW g \in 0 .. MaxGeneration, rebuild(g)
        PROVE  ReservationsInv'
    BY <1>2 DEF rebuild, cleared
  <1>3. ASSUME NEW g \in 0 .. MaxGeneration, NEW owner \in Owners,
               reserve(g, owner)
        PROVE  ReservationsInv'
    BY <1>3 DEF reserve
  <1>4. CASE UNCHANGED <<id, generation, next_ticket, reservations>>
    BY <1>4
  <1>5. QED
    BY <1>1, <1>2, <1>3, <1>4 DEF Next, cancel, cancel_owner, commit, select,
       consume, vars, mailbox

(* Removing slots keeps every selection of a remaining message right.      *)
LEMMA RemovalKeepsSelections ==
  ASSUME IInv, NEW S \in SUBSET occupied, slots' = without(S),
         UNCHANGED <<id, generation, next_ticket, selections>>
  PROVE  SelectionsInv'
  <1>1. /\ occupied' = occupied \ S
        /\ \A n \in occupied' : slots'[n] = slots[n]
    BY DEF occupied, without
  <1>2. committed' = committed \ S
    BY <1>1 DEF committed
  <1>3. ASSUME NEW s \in selections', NEW n \in occupied', current(s)',
               slots'[n].ticket = s.ticket
        PROVE  /\ n = s.slot
               /\ slots'[n].serial = s.serial
               /\ select_committed(n, s.clauses)'
               /\ first_matching_clause(slots'[n].message, s.clauses, s.clause)
    <2>1. /\ n = s.slot
          /\ slots[n].serial = s.serial
          /\ select_committed(n, s.clauses)
          /\ first_matching_clause(slots[n].message, s.clauses, s.clause)
      BY <1>1, <1>3 DEF IInv, SelectionsInv, current
    <2>2. n \in committed' /\ \A m \in committed' : slots'[m] = slots[m]
      BY <2>1, <1>1, <1>2 DEF select_committed, committed
    <2>3. select_committed(n, s.clauses)'
      BY <2>1, <2>2, <1>2 DEF select_committed, matches
    <2>4. QED
      BY <2>1, <2>3, <1>1
  <1>4. ASSUME NEW s \in selections' PROVE Issued(s)'
    BY DEF IInv, SelectionsInv, Issued, current
  <1>5. QED
    BY <1>3, <1>4 DEF SelectionsInv, first_matching_clause, matches

(* No operation makes a resident selected message anything but the answer. *)
LEMMA SelectionsStep == IInv /\ [Next]_vars => SelectionsInv'
  <1> SUFFICES ASSUME IInv, [Next]_vars PROVE SelectionsInv'
    OBVIOUS
  <1> USE DEF IInv, SelectionsInv, Issued, current
  <1>1. CASE reset
    BY <1>1 DEF reset, cleared, FieldTypes, Selection, occupied
  <1>2. ASSUME NEW g \in 0 .. MaxGeneration, rebuild(g) PROVE SelectionsInv'
    BY <1>2 DEF rebuild, cleared, FieldTypes, Selection, occupied
  <1>3. ASSUME NEW g \in 0 .. MaxGeneration, NEW owner \in Owners,
               reserve(g, owner)
        PROVE  SelectionsInv'
    <2>1. PICK k \in 0 .. Capacity - 1 :
            /\ k \notin occupied
            /\ occupied' = occupied \cup {k}
            /\ slots'[k].ticket = next_ticket
            /\ slots'[k].status = "reserved"
            /\ \A n \in occupied : slots'[n] = slots[n]
      BY <1>3 DEF reserve, first_free_slot, with, occupied
    <2>2. /\ next_ticket' = next_ticket + 1
          /\ UNCHANGED <<id, generation, selections>>
      BY <1>3 DEF reserve
    <2>3. committed' = committed
      BY <2>1 DEF committed
    <2>4. ASSUME NEW s \in selections PROVE Issued(s)'
      BY <2>2 DEF FieldTypes, Selection
    <2>5. ASSUME NEW s \in selections, NEW n \in occupied', current(s),
                 slots'[n].ticket = s.ticket
          PROVE  n \in occupied /\ slots[n].ticket = s.ticket
      BY <2>1, <2>5 DEF FieldTypes, Selection
    <2>6. ASSUME NEW n \in committed, NEW clauses \in ClauseLists,
                 select_committed(n, clauses)
          PROVE  select_committed(n, clauses)'
      BY <2>1, <2>3, <2>6 DEF select_committed, matches, committed
    <2>7. ASSUME NEW s \in selections, NEW n \in occupied', current(s),
                 slots'[n].ticket = s.ticket
          PROVE  /\ n = s.slot
                 /\ slots'[n].serial = s.serial
                 /\ select_committed(n, s.clauses)'
                 /\ first_matching_clause(slots'[n].message, s.clauses,
                                          s.clause)
      <3>1. n \in occupied /\ slots[n].ticket = s.ticket
        BY <2>5, <2>7
      <3>2. /\ n = s.slot
            /\ slots[n].serial = s.serial
            /\ select_committed(n, s.clauses)
            /\ first_matching_clause(slots[n].message, s.clauses, s.clause)
        BY <3>1, <2>7
      <3>3. s.clauses \in ClauseLists
        BY DEF FieldTypes, Selection
      <3>4. n \in committed
        BY <3>2 DEF select_committed
      <3>5. select_committed(n, s.clauses)'
        BY <3>2, <3>3, <3>4, <2>6
      <3>6. QED
        BY <3>1, <3>2, <3>5, <2>1
    <2>8. QED
      BY <2>2, <2>4, <2>7 DEF first_matching_clause, matches
  <1>4. ASSUME NEW r \in reservations, cancel(r) PROVE SelectionsInv'
    <2>1. r.slot \in occupied
      BY <1>4 DEF cancel, cancel_result, same_incarnation
    <2>2. QED
      BY <1>4, <2>1, RemovalKeepsSelections DEF cancel
  <1>5. ASSUME NEW owner \in Owners, cancel_owner(owner) PROVE SelectionsInv'
    <2> DEFINE S == {n \in reserved : slots[n].reservation_owner = owner}
    <2>1. S \in SUBSET occupied
      BY DEF reserved
    <2>2. slots' = without(S) /\ UNCHANGED <<id, generation, next_ticket,
                                            selections>>
      BY <1>5 DEF cancel_owner
    <2> HIDE DEF S
    <2>3. QED
      BY <2>1, <2>2, RemovalKeepsSelections
  <1>6. ASSUME NEW r \in reservations, NEW message \in Messages,
               commit(r, message)
        PROVE  SelectionsInv'
    <2>1. /\ r.slot \in reserved
          /\ occupied' = occupied
          /\ \A n \in occupied \ {r.slot} : slots'[n] = slots[n]
          /\ \A n \in occupied : slots'[n].ticket = slots[n].ticket
          /\ slots'[r.slot].status = "committed"
          /\ slots'[r.slot].arrival = next_arrival
          /\ UNCHANGED <<id, generation, next_ticket, selections>>
      BY <1>6, CommitFills
    <2>2. committed' = committed \cup {r.slot} /\ r.slot \notin committed
      BY <2>1 DEF committed, reserved
    <2>3. ASSUME NEW n \in committed, NEW clauses \in ClauseLists,
                 select_committed(n, clauses)
          PROVE  select_committed(n, clauses)'
      <3>1. slots[n].arrival \in Nat /\ slots[n].arrival < next_arrival
        BY DEF SlotsInv, committed
      <3>2. slots'[n] = slots[n]
        BY <2>1, <2>2 DEF committed
      <3>3. ASSUME NEW m \in committed',
                   \E i \in DOMAIN clauses :
                     matches(slots'[m].message, clauses, i)
            PROVE  slots'[n].arrival <= slots'[m].arrival
        <4>1. CASE m = r.slot
          BY <4>1, <3>1, <3>2, <2>1 DEF FieldTypes
        <4>2. CASE m # r.slot
          <5>1. m \in committed /\ slots'[m] = slots[m]
            BY <4>2, <2>1, <2>2 DEF committed
          <5>2. QED
            BY <5>1, <3>2, <3>3, <2>3 DEF select_committed
        <4>3. QED
          BY <4>1, <4>2
      <3>4. QED
        BY <3>2, <3>3, <2>2, <2>3 DEF select_committed, matches
    <2>4. ASSUME NEW s \in selections, NEW n \in occupied', current(s),
                 slots'[n].ticket = s.ticket
          PROVE  /\ n = s.slot
                 /\ slots'[n].serial = s.serial
                 /\ select_committed(n, s.clauses)'
                 /\ first_matching_clause(slots'[n].message, s.clauses,
                                          s.clause)
      <3>1. n \in occupied /\ slots[n].ticket = s.ticket
        BY <2>1, <2>4
      <3>2. /\ n = s.slot
            /\ slots[n].serial = s.serial
            /\ select_committed(n, s.clauses)
            /\ first_matching_clause(slots[n].message, s.clauses, s.clause)
        BY <3>1, <2>4
      <3>3. s.clauses \in ClauseLists
        BY DEF FieldTypes, Selection
      <3>4. n \in committed /\ slots'[n] = slots[n]
        BY <3>1, <3>2, <2>1, <2>2 DEF select_committed
      <3>5. select_committed(n, s.clauses)'
        BY <3>2, <3>3, <3>4, <2>3
      <3>6. QED
        BY <3>2, <3>4, <3>5
    <2>5. QED
      BY <2>1, <2>4 DEF first_matching_clause, matches
  <1>7. ASSUME NEW clauses \in ClauseLists, select(clauses)
        PROVE  SelectionsInv'
    <2>1. PICK n \in occupied, i \in DOMAIN clauses :
            /\ select_committed(n, clauses)
            /\ first_matching_clause(slots[n].message, clauses, i)
            /\ selections' = selections \cup
                 {[mailbox_id |-> id, generation |-> generation, slot |-> n,
                   ticket |-> slots[n].ticket, arrival |-> slots[n].arrival,
                   clauses |-> clauses, clause |-> i,
                   serial |-> slots[n].serial]}
      BY <1>7 DEF select
    <2>2. UNCHANGED mailbox
      BY <1>7 DEF select
    <2> DEFINE t == [mailbox_id |-> id, generation |-> generation, slot |-> n,
                     ticket |-> slots[n].ticket, arrival |-> slots[n].arrival,
                     clauses |-> clauses, clause |-> i,
                     serial |-> slots[n].serial]
               Right(s) ==
                 /\ Issued(s)
                 /\ \A m \in occupied :
                      current(s) /\ slots[m].ticket = s.ticket =>
                        /\ m = s.slot
                        /\ slots[m].serial = s.serial
                        /\ select_committed(m, s.clauses)
                        /\ first_matching_clause(slots[m].message, s.clauses,
                                                 s.clause)
    <2>3. Right(t)
      <3>1. \A m \in occupied : slots[m].ticket = slots[n].ticket => m = n
        BY DEF SlotsInv
      <3>2. slots[n].ticket < next_ticket /\ id <= id /\ generation <= generation
        BY DEF SlotsInv, FieldTypes
      <3>3. QED
        BY <3>1, <3>2, <2>1
    <2>4. \A s \in selections : Right(s)
      OBVIOUS
    <2>5. \A s \in selections' : Right(s)
      BY <2>1, <2>3, <2>4
    <2>6. QED
      BY <2>2, <2>5 DEF mailbox, select_committed, committed, occupied,
         first_matching_clause, matches
  <1>8. ASSUME NEW s \in selections, consume(s) PROVE SelectionsInv'
    <2>1. s.slot \in occupied
      BY <1>8 DEF consume, consume_result, same_incarnation
    <2>2. QED
      BY <1>8, <2>1, RemovalKeepsSelections DEF consume
  <1>9. CASE UNCHANGED vars
    BY <1>9 DEF vars, mailbox, select_committed, committed, occupied,
       first_matching_clause, matches
  <1>10. QED
    BY <1>1, <1>2, <1>3, <1>4, <1>5, <1>6, <1>7, <1>8, <1>9 DEF Next

(* A slot takes a number of its own, and keeps it while it is occupied.    *)
LEMMA SerialsStep == IInv /\ [Next]_vars => SerialsInv'
  <1> SUFFICES ASSUME IInv, [Next]_vars PROVE SerialsInv'
    OBVIOUS
  <1> USE DEF SerialsInv, occupied
  <1>1. CASE reset
    BY <1>1 DEF reset, cleared
  <1>2. ASSUME NEW g \in 0 .. MaxGeneration, rebuild(g) PROVE SerialsInv'
    BY <1>2 DEF rebuild, cleared
  <1>3. ASSUME NEW g \in 0 .. MaxGeneration, NEW owner \in Owners,
               reserve(g, owner)
        PROVE  SerialsInv'
    <2>1. PICK k \in 0 .. Capacity - 1 :
            /\ k \notin occupied
            /\ occupied' = occupied \cup {k}
            /\ slots'[k].serial = serial
            /\ \A n \in occupied : slots'[n] = slots[n]
      BY <1>3 DEF reserve, first_free_slot, with
    <2>2. serial' = serial + 1 /\ serial \in Nat
      BY <1>3 DEF reserve, IInv, FieldTypes
    <2>3. \A n \in occupied : slots[n].serial \in Nat
      BY DEF IInv, FieldTypes, Slot
    <2>4. QED
      BY <2>1, <2>2, <2>3 DEF IInv
  <1>4. ASSUME NEW r \in reservations, cancel(r) PROVE SerialsInv'
    BY <1>4 DEF cancel, without, IInv
  <1>5. ASSUME NEW owner \in Owners, cancel_owner(owner) PROVE SerialsInv'
    BY <1>5 DEF cancel_owner, without, IInv
  <1>6. ASSUME NEW r \in reservations, NEW message \in Messages,
               commit(r, message)
        PROVE  SerialsInv'
    <2>1. /\ occupied' = occupied
          /\ \A n \in occupied : slots'[n].serial = slots[n].serial
          /\ serial' = serial
      BY <1>6, CommitFills
    <2>2. QED
      BY <2>1 DEF IInv
  <1>7. ASSUME NEW clauses \in ClauseLists, select(clauses)
        PROVE  SerialsInv'
    BY <1>7 DEF select, mailbox, IInv
  <1>8. ASSUME NEW s \in selections, consume(s) PROVE SerialsInv'
    BY <1>8 DEF consume, without, IInv
  <1>9. CASE UNCHANGED vars
    BY <1>9 DEF vars, mailbox, IInv
  <1>10. QED
    BY <1>1, <1>2, <1>3, <1>4, <1>5, <1>6, <1>7, <1>8, <1>9 DEF Next

(* The conjunction is inductive: it holds at every reachable state.        *)
THEOREM Inductive == Spec => []IInv
  <1>1. IInv /\ [Next]_vars => IInv'
    BY TypeStep, SlotsStep, ReservationsStep, SelectionsStep, SerialsStep
       DEF IInv
  <1>2. QED
    BY InitInv, <1>1, PTL DEF Spec
-----------------------------------------------------------------------------
(* Types, and admission within the capacity: hls_mailbox:reserve/3.        *)
THEOREM TypeCorrect == Spec => []TypeOK
  <1>1. IInv => TypeOK
    BY DEF IInv, TypeOK, SlotsInv, committed
  <1>2. QED
    BY Inductive, <1>1, PTL

(* A reservation acts on the slot incarnation it was issued for, never on  *)
(* a later user of the slot, of the generation or of the address.          *)
THEOREM ReservationsAreExact == Spec => []ReservationExact
  <1>1. ASSUME IInv, NEW r \in reservations,
               \/ cancel_result(r) = "ok"
               \/ commit_result(r) \in {"ok", "already_committed"}
        PROVE  slots[r.slot].serial = r.serial
    <2>1. /\ current(r)
          /\ r.slot \in occupied
          /\ slots[r.slot].ticket = r.ticket
      BY <1>1 DEF cancel_result, commit_result, same_incarnation, current
    <2>2. PICK q \in reservations :
            /\ current(q)
            /\ q.ticket = slots[r.slot].ticket
            /\ q.serial = slots[r.slot].serial
      BY <1>1, <2>1 DEF IInv, SlotsInv
    <2>3. q = r
      BY <1>1, <2>1, <2>2 DEF IInv, ReservationsInv, current
    <2>4. QED
      BY <2>2, <2>3
  <1>2. IInv => ReservationExact
    BY <1>1 DEF ReservationExact
  <1>3. QED
    BY Inductive, <1>2, PTL

(* Every credit can be given back by whoever holds it.                     *)
THEOREM ReservationsAreReclaimable == Spec => []ReservationReclaimable
  <1>1. IInv => ReservationReclaimable
    BY DEF IInv, SlotsInv, ReservationReclaimable, cancel_result,
       same_incarnation, current, reserved
  <1>2. QED
    BY Inductive, <1>1, PTL

(* Between select/2 and consume/2 nothing can change the answer.           *)
THEOREM SelectionsAreStable == Spec => []SelectionStable
  <1>1. IInv => SelectionStable
    BY DEF IInv, SelectionsInv, SelectionStable, consume_result,
       same_incarnation, current
  <1>2. QED
    BY Inductive, <1>1, PTL

(* A published message is delivered, or dies with its incarnation.         *)
THEOREM NoMessageIsLost == Spec => NoLostMessage
  <1> DEFINE Kept(n) ==
        \/ n \in occupied' /\ slots'[n] = slots[n]
        \/ /\ n \notin occupied'
           /\ delivery'.serial = slots[n].serial
           /\ delivery'.message = slots[n].message
        \/ <<id, generation>>' # <<id, generation>>
  <1>1. ASSUME IInv, [Next]_vars, NEW n \in committed PROVE Kept(n)
    <2> USE DEF occupied, committed
    <2>1. CASE reset
      BY <2>1 DEF reset, IInv, FieldTypes
    <2>2. ASSUME NEW g \in 0 .. MaxGeneration, rebuild(g) PROVE Kept(n)
      BY <1>1, <2>2 DEF rebuild, IInv, FieldTypes
    <2>3. ASSUME NEW g \in 0 .. MaxGeneration, NEW owner \in Owners,
                 reserve(g, owner)
          PROVE  Kept(n)
      BY <2>3 DEF reserve, first_free_slot, with
    <2>4. ASSUME NEW r \in reservations, cancel(r) PROVE Kept(n)
      BY <2>4 DEF cancel, cancel_result, same_incarnation, without
    <2>5. ASSUME NEW owner \in Owners, cancel_owner(owner) PROVE Kept(n)
      BY <2>5 DEF cancel_owner, without, reserved
    <2>6. ASSUME NEW r \in reservations, NEW message \in Messages,
                 commit(r, message)
          PROVE  Kept(n)
      BY <2>6 DEF commit, commit_result, same_incarnation, with
    <2>7. ASSUME NEW s \in selections, consume(s) PROVE Kept(n)
      <3>1. CASE n = s.slot
        BY <2>7, <3>1 DEF consume, without
      <3>2. CASE n # s.slot
        BY <2>7, <3>2 DEF consume, without
      <3>3. QED
        BY <3>1, <3>2
    <2>8. CASE UNCHANGED slots
      BY <2>8
    <2>9. QED
      BY <1>1, <2>1, <2>2, <2>3, <2>4, <2>5, <2>6, <2>7, <2>8
         DEF Next, select, vars, mailbox
  <1>2. IInv /\ [Next]_vars => [\A n \in committed : Kept(n)]_vars
    BY <1>1
  <1>3. QED
    BY Inductive, <1>2, PTL DEF Spec, NoLostMessage
-----------------------------------------------------------------------------
(* The abstract mailbox counts as this one does.                           *)
LEMMA SameCardinality ==
  ASSUME NEW S PROVE Atomic!Cardinality(S) = Cardinality(S)
  BY Zenon DEF Cardinality, Atomic!Cardinality

(* The mailbox has finitely many slots.                                    *)
LEMMA OccupiedFinite == ASSUME IInv PROVE IsFiniteSet(occupied)
  <1>1. Capacity - 1 \in Int
    BY DEF MailboxAssumption
  <1>2. IsFiniteSet(0 .. Capacity - 1)
    BY <1>1, FS_Interval
  <1>3. QED
    BY <1>2, FS_Subset DEF IInv, FieldTypes

(* There are no more credits than reserved slots, no more messages than    *)
(* committed ones: what reserve/3 admits, the abstract mailbox admits.     *)
LEMMA WithinCapacity ==
  ASSUME IInv, Cardinality(occupied) < Capacity
  PROVE  Cardinality(credits) + Cardinality(queue) < Capacity
  <1>1. IsFiniteSet(occupied)
    BY OccupiedFinite
  <1>2. /\ reserved \cup committed = occupied
        /\ reserved \cap committed = {}
    BY DEF IInv, FieldTypes, Slot, reserved, committed
  <1>3. IsFiniteSet(reserved) /\ IsFiniteSet(committed)
    BY <1>1, <1>2, FS_Subset
  <1>4. Cardinality(reserved) + Cardinality(committed) = Cardinality(occupied)
    <2>1. Cardinality(reserved \cup committed) =
            Cardinality(reserved) + Cardinality(committed) - Cardinality({})
      BY <1>2, <1>3, FS_Union
    <2>2. /\ Cardinality({}) = 0
          /\ Cardinality(reserved) \in Nat
          /\ Cardinality(committed) \in Nat
      BY <1>3, FS_EmptySet, FS_CardinalityType
    <2> DEFINE r == Cardinality(reserved)
               c == Cardinality(committed)
               u == Cardinality(reserved \cup committed)
    <2>3. r \in Nat /\ c \in Nat /\ u = r + c - 0
      BY <2>1, <2>2
    <2> HIDE DEF r, c, u
    <2>4. u = r + c
      BY <2>3
    <2>5. u = Cardinality(occupied)
      BY <1>2 DEF u
    <2>6. QED
      BY <2>4, <2>5 DEF r, c
  <1>5. IsFiniteSet(credits) /\ Cardinality(credits) <= Cardinality(reserved)
    <2>1. [n \in reserved |-> credit(n)] \in Surjection(reserved, credits)
      BY DEF Surjection, credits
    <2>2. QED
      BY <2>1, <1>3, FS_Surjection
  <1>6. IsFiniteSet(queue) /\ Cardinality(queue) <= Cardinality(committed)
    <2>1. [n \in committed |-> entry(n)] \in Surjection(committed, queue)
      BY DEF Surjection, queue
    <2>2. QED
      BY <2>1, <1>3, FS_Surjection
  <1>7. QED
    BY <1>1, <1>3, <1>4, <1>5, <1>6, FS_CardinalityType DEF MailboxAssumption

(* Emptied slots leave the abstract mailbox, the others stay as they are.  *)
LEMMA RemovalRemoves ==
  ASSUME IInv, NEW S \in SUBSET occupied, slots' = without(S)
  PROVE  /\ credits' = credits \ {credit(n) : n \in S \cap reserved}
         /\ queue' = queue \ {entry(n) : n \in S \cap committed}
  <1>1. /\ occupied' = occupied \ S
        /\ \A n \in occupied' : slots'[n] = slots[n]
    BY DEF occupied, without
  <1>2. reserved' = reserved \ S /\ committed' = committed \ S
    BY <1>1 DEF reserved, committed
  <1>3. /\ \A n \in reserved' : credit(n)' = credit(n)
        /\ \A n \in committed' : entry(n)' = entry(n)
    BY <1>1 DEF credit, entry, reserved, committed
  <1>4. /\ \A m, n \in reserved : credit(m) = credit(n) => m = n
        /\ \A m, n \in committed : entry(m) = entry(n) => m = n
    BY DEF IInv, SerialsInv, credit, entry, reserved, committed
  <1>5. credits' = {credit(n) : n \in reserved \ S}
    BY <1>2, <1>3 DEF credits
  <1>6. queue' = {entry(n) : n \in committed \ S}
    BY <1>2, <1>3 DEF queue
  <1>7. QED
    BY <1>4, <1>5, <1>6 DEF credits, queue

(* An empty mailbox is the abstract one just restarted.                    *)
LEMMA ClearedRestarts ==
  ASSUME cleared, UNCHANGED <<delivery, serial>>
  PROVE  Atomic!Restart
  BY DEF cleared, Atomic!Restart, credits, queue, reserved, committed,
     occupied

(* Every operation of the mailbox is one of the abstract mailbox, or shows *)
(* nothing of itself there.                                                *)
LEMMA StepImplements ==
  IInv /\ [Next]_vars => [Atomic!Next]_(Atomic!vars)
  <1> SUFFICES ASSUME IInv, [Next]_vars
               PROVE  Atomic!Next \/ UNCHANGED Atomic!vars
    OBVIOUS
  <1> USE DEF IInv
  <1>1. CASE reset
    BY <1>1, ClearedRestarts DEF reset, Atomic!Next
  <1>2. ASSUME NEW g \in 0 .. MaxGeneration, rebuild(g) PROVE Atomic!Next
    BY <1>2, ClearedRestarts DEF rebuild, Atomic!Next
  <1>3. ASSUME NEW g \in 0 .. MaxGeneration, NEW owner \in Owners,
               reserve(g, owner)
        PROVE  Atomic!Next
    <2>1. PICK k \in 0 .. Capacity - 1 :
            /\ k \notin occupied
            /\ occupied' = occupied \cup {k}
            /\ slots'[k].serial = serial
            /\ slots'[k].reservation_owner = owner
            /\ slots'[k].status = "reserved"
            /\ \A n \in occupied : slots'[n] = slots[n]
      BY <1>3 DEF reserve, first_free_slot, with, occupied
    <2>2. reserved' = reserved \cup {k} /\ committed' = committed
      BY <2>1 DEF reserved, committed
    <2>3. /\ \A n \in reserved : credit(n)' = credit(n)
          /\ credit(k)' = [serial |-> serial, owner |-> owner]
          /\ \A n \in committed : entry(n)' = entry(n)
      BY <2>1 DEF credit, entry, reserved, committed
    <2>4. credits' = credits \cup {[serial |-> serial, owner |-> owner]}
      BY <2>2, <2>3 DEF credits
    <2>5. queue' = queue
      BY <2>2, <2>3 DEF queue
    <2>6. Cardinality(occupied) < Capacity
      <3>1. IsFiniteSet(occupied)
        BY OccupiedFinite
      <3>2. Cardinality(occupied) \in Nat
        BY <3>1, FS_CardinalityType
      <3>3. ~ (Cardinality(occupied) >= Capacity)
        BY <1>3 DEF reserve, reserve_result
      <3>4. QED
        BY <3>2, <3>3 DEF MailboxAssumption
    <2>7. Cardinality(credits) + Cardinality(queue) < Capacity
      BY <2>6, WithinCapacity
    <2>8. serial' = serial + 1 /\ UNCHANGED <<next_arrival, delivery>>
      BY <1>3 DEF reserve
    <2>9. Atomic!Reserve(owner)
      BY <2>4, <2>5, <2>7, <2>8, SameCardinality DEF Atomic!Reserve
    <2>10. QED
      BY <2>9 DEF Atomic!Next
  <1>4. ASSUME NEW r \in reservations, cancel(r) PROVE Atomic!Next
    <2>1. r.slot \in reserved /\ r.slot \notin committed
      BY <1>4 DEF cancel, cancel_result, same_incarnation, reserved, committed
    <2>2. credits' = credits \ {credit(r.slot)} /\ queue' = queue
      <3>1. {r.slot} \in SUBSET occupied /\ slots' = without({r.slot})
        BY <1>4, <2>1 DEF cancel, reserved
      <3>2. /\ credits' = credits \ {credit(n) : n \in {r.slot} \cap reserved}
            /\ queue' = queue \ {entry(n) : n \in {r.slot} \cap committed}
        BY <3>1, RemovalRemoves
      <3>3. QED
        BY <3>2, <2>1
    <2>3. Atomic!Release({credit(r.slot)})
      BY <1>4, <2>2 DEF cancel, Atomic!Release
    <2>4. credit(r.slot) \in credits
      BY <2>1 DEF credits
    <2>5. QED
      BY <2>3, <2>4 DEF Atomic!Next
  <1>5. ASSUME NEW owner \in Owners, cancel_owner(owner) PROVE Atomic!Next
    <2> DEFINE S == {n \in reserved : slots[n].reservation_owner = owner}
    <2>1. /\ S \in SUBSET occupied
          /\ S \cap reserved = S
          /\ S \cap committed = {}
          /\ slots' = without(S)
      BY <1>5 DEF cancel_owner, reserved, committed
    <2>2. {credit(n) : n \in S} = {c \in credits : c.owner = owner}
      BY DEF credits, credit
    <2> HIDE DEF S
    <2>3. /\ credits' = credits \ {credit(n) : n \in S \cap reserved}
          /\ queue' = queue \ {entry(n) : n \in S \cap committed}
      BY <2>1, RemovalRemoves
    <2>4. Atomic!ReleaseOwner(owner)
      BY <1>5, <2>1, <2>2, <2>3
         DEF cancel_owner, Atomic!ReleaseOwner, Atomic!Release
    <2>5. QED
      BY <2>4 DEF Atomic!Next
  <1>6. ASSUME NEW r \in reservations, NEW message \in Messages,
               commit(r, message)
        PROVE  Atomic!Next
    <2>1. /\ r.slot \in reserved
          /\ occupied' = occupied
          /\ \A n \in occupied \ {r.slot} : slots'[n] = slots[n]
          /\ slots'[r.slot].serial = slots[r.slot].serial
          /\ slots'[r.slot].status = "committed"
          /\ slots'[r.slot].arrival = next_arrival
          /\ slots'[r.slot].message = message
          /\ next_arrival' = next_arrival + 1
          /\ UNCHANGED <<delivery, serial>>
      BY <1>6, CommitFills DEF reserved
    <2>2. /\ reserved' = reserved \ {r.slot}
          /\ committed' = committed \cup {r.slot}
      BY <2>1 DEF reserved, committed
    <2>3. /\ \A n \in reserved' : credit(n)' = credit(n)
          /\ \A n \in committed : entry(n)' = entry(n)
          /\ entry(r.slot)' =
               [place |-> next_arrival, serial |-> credit(r.slot).serial,
                message |-> message]
      BY <2>1, <2>2 DEF credit, entry, reserved, committed
    <2>4. \A n \in reserved : credit(n) = credit(r.slot) => n = r.slot
      BY <2>1 DEF SerialsInv, credit, reserved
    <2>5. credits' = {credit(n) : n \in reserved \ {r.slot}}
      BY <2>2, <2>3 DEF credits
    <2>6. credits' = credits \ {credit(r.slot)}
      BY <2>4, <2>5 DEF credits
    <2>7. queue' = queue \cup
            {[place |-> next_arrival, serial |-> credit(r.slot).serial,
              message |-> message]}
      BY <2>2, <2>3 DEF queue
    <2>8. Atomic!Publish(credit(r.slot), message)
      BY <2>1, <2>6, <2>7 DEF Atomic!Publish
    <2>9. credit(r.slot) \in credits
      BY <2>1 DEF credits
    <2>10. QED
      BY SMTT(60), <2>8, <2>9 DEF Atomic!Next
  <1>7. ASSUME NEW clauses \in ClauseLists, select(clauses)
        PROVE  UNCHANGED Atomic!vars
    BY <1>7 DEF select, mailbox, Atomic!vars, credits, queue, credit, entry,
       reserved, committed, occupied
  <1>8. ASSUME NEW s \in selections, consume(s) PROVE Atomic!Next
    <2>1. /\ s.slot \in committed
          /\ s.slot \notin reserved
          /\ current(s)
          /\ slots[s.slot].ticket = s.ticket
      BY <1>8 DEF consume, consume_result, same_incarnation, reserved,
         committed, current
    <2>2. /\ select_committed(s.slot, s.clauses)
          /\ first_matching_clause(slots[s.slot].message, s.clauses, s.clause)
      BY <2>1 DEF SelectionsInv, committed
    <2>3. credits' = credits /\ queue' = queue \ {entry(s.slot)}
      <3>1. {s.slot} \in SUBSET occupied /\ slots' = without({s.slot})
        BY <1>8, <2>1 DEF consume, committed
      <3>2. /\ credits' = credits \ {credit(n) : n \in {s.slot} \cap reserved}
            /\ queue' = queue \ {entry(n) : n \in {s.slot} \cap committed}
        BY <3>1, RemovalRemoves
      <3>3. QED
        BY <3>2, <2>1
    <2>4. /\ s.clause \in DOMAIN s.clauses
          /\ s.clause \in Atomic!Accepted(entry(s.slot).message, s.clauses)
          /\ \A j \in Atomic!Accepted(entry(s.slot).message, s.clauses) :
               s.clause <= j
      BY <2>2 DEF first_matching_clause, matches, Atomic!Accepted, entry
    <2>5. ASSUME NEW p \in queue,
                 Atomic!Accepted(p.message, s.clauses) # {}
          PROVE  entry(s.slot).place <= p.place
      <3>1. PICK m \in committed : p = entry(m)
        BY DEF queue
      <3>2. \E i \in DOMAIN s.clauses :
              matches(slots[m].message, s.clauses, i)
        BY <3>1, <2>5 DEF Atomic!Accepted, matches, entry
      <3>3. QED
        BY <3>1, <3>2, <2>2 DEF select_committed, entry
    <2>6. delivery' = [serial |-> entry(s.slot).serial,
                       message |-> entry(s.slot).message,
                       clauses |-> s.clauses, clause |-> s.clause]
      BY <1>8 DEF consume, entry
    <2>7. entry(s.slot) \in queue
      BY <2>1 DEF queue
    <2>8. UNCHANGED <<credits, next_arrival, serial>>
      BY <1>8, <2>3 DEF consume
    <2>9. Atomic!Receive(s.clauses)
      BY <2>3, <2>4, <2>5, <2>6, <2>7, <2>8 DEF Atomic!Receive
    <2>10. s.clauses \in ClauseLists
      BY DEF FieldTypes, Selection
    <2>11. QED
      BY <2>9, <2>10 DEF Atomic!Next
  <1>9. CASE UNCHANGED vars
    BY <1>9 DEF vars, mailbox, Atomic!vars, credits, queue, credit, entry,
       reserved, committed, occupied
  <1>10. QED
    BY <1>1, <1>2, <1>3, <1>4, <1>5, <1>6, <1>7, <1>8, <1>9 DEF Next

(* The mailbox implements the abstract one: its slots, tickets and two-    *)
(* step receive cannot be told from credits, one queue and an atomic       *)
(* receive of the oldest acceptable message.                               *)
THEOREM MailboxImplementsAtomic == Spec => ImplementsAtomicMailbox
  <1>1. Init => Atomic!Init
    BY DEF Init, Atomic!Init, credits, queue, reserved, committed, occupied
  <1>2. QED
    BY <1>1, Inductive, StepImplements, PTL
       DEF Spec, ImplementsAtomicMailbox, Atomic!Spec
=============================================================================
