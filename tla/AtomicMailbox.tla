--------------------------- MODULE AtomicMailbox ---------------------------
(***************************************************************************)
(* What a mailbox promises, without slots, tickets or capabilities:        *)
(* credits bound what may arrive, published messages wait in the order of  *)
(* their publication, and a receive takes the oldest message that a clause *)
(* accepts in one step.                                                    *)
(***************************************************************************)
EXTENDS Naturals, FiniteSets

CONSTANTS Capacity, Owners, Messages, ClauseLists, NoDelivery

VARIABLES
  credits,    \* the outstanding credits: their numbers and their owners
  queue,      \* the published messages, each with its place in the order
  published,  \* messages published since the restart
  delivery,   \* the latest message received
  issued      \* credits granted so far

vars == <<credits, queue, published, delivery, issued>>

Accepted(message, clauses) == {i \in DOMAIN clauses : message \in clauses[i]}

Init ==
  /\ credits = {}
  /\ queue = {}
  /\ published = 0
  /\ delivery = NoDelivery
  /\ issued = 0

Reserve(owner) ==
  /\ Cardinality(credits) + Cardinality(queue) < Capacity
  /\ credits' = credits \cup {[serial |-> issued, owner |-> owner]}
  /\ issued' = issued + 1
  /\ UNCHANGED <<queue, published, delivery>>

Release(C) ==
  /\ credits' = credits \ C
  /\ UNCHANGED <<queue, published, delivery, issued>>

ReleaseOwner(owner) == Release({c \in credits : c.owner = owner})

Publish(c, message) ==
  /\ credits' = credits \ {c}
  /\ queue' = queue \cup
       {[place |-> published, serial |-> c.serial, message |-> message]}
  /\ published' = published + 1
  /\ UNCHANGED <<delivery, issued>>

Receive(clauses) ==
  \E q \in queue, i \in DOMAIN clauses :
    /\ i \in Accepted(q.message, clauses)
    /\ \A j \in Accepted(q.message, clauses) : i <= j
    /\ \A p \in queue : Accepted(p.message, clauses) # {} => q.place <= p.place
    /\ delivery' = [serial |-> q.serial, message |-> q.message,
                    clauses |-> clauses, clause |-> i]
    /\ queue' = queue \ {q}
    /\ UNCHANGED <<credits, published, issued>>

Restart ==
  /\ credits' = {}
  /\ queue' = {}
  /\ published' = 0
  /\ UNCHANGED <<delivery, issued>>

Next ==
  \/ \E owner \in Owners : Reserve(owner) \/ ReleaseOwner(owner)
  \/ \E c \in credits : Release({c})
  \/ \E c \in credits, message \in Messages : Publish(c, message)
  \/ \E clauses \in ClauseLists : Receive(clauses)
  \/ Restart

Spec == Init /\ [][Next]_vars
=============================================================================
