---------------------------- MODULE StatemActor ----------------------------
(***************************************************************************)
(* One hls_statem process on the BEAM, with a callback that may conclude   *)
(* anything the contract allows.  Messages are numbered in the order they  *)
(* reach the process; a phase occupancy is numbered by its entry.          *)
(***************************************************************************)
EXTENDS Statem

CONSTANTS
  Phases,
  MaxMessages,   \* bound: messages sent to the actor
  MaxEntries,    \* bound: phase entries
  MaxEffects     \* bound: cast_if actions returned by one phase entry

ASSUME StatemActorAssumption ==
  /\ "repeat_phase" \notin Phases
  /\ Phases # {}
  /\ MaxMessages \in Nat /\ MaxEntries \in Nat /\ MaxEffects \in Nat

VARIABLES
  rt,        \* the #runtime{} record; its data is the number of entries made
  inbox,     \* the BEAM message queue in front of the bounded mailbox
  sent,      \* messages sent so far
  outputs,   \* casts made so far, each named by the entry that made it
  handled    \* history: <<message, occupancy>> of every callback call

vars == <<rt, inbox, sent, outputs, handled>>

Conclusions ==
  [phase : Phases, directive : {"consume", "postpone", "fail"}] \cup
  [phase : {"repeat_phase"}, directive : {"consume"}]

(* The lists handle_enter/3 may return: which of its cast_if are enabled.  *)
EffectLists == UNION {[1 .. n -> BOOLEAN] : n \in 0 .. MaxEffects}

emitted(entry, effects) ==
  [i \in 1 .. Len(SelectSeq(effects, LAMBDA valid : valid)) |-> entry]

(* Entry number n with some list of effects.                               *)
enter_phase(n) ==
  \E effects \in EffectLists : outputs' = outputs \o emitted(n, effects)
-----------------------------------------------------------------------------
(* init/1: an actor given its outputs enters its phase at once; the others *)
(* of a cyclic topology wait for connect/2.                                *)
Init ==
  /\ inbox = << >>
  /\ sent = 0
  /\ handled = << >>
  /\ \E phase \in Phases :
       \/ /\ rt = runtime("disconnected", phase, 0)
          /\ outputs = << >>
       \/ /\ rt = runtime("connected", phase, 1)
          /\ \E effects \in EffectLists : outputs = emitted(1, effects)

send ==
  /\ sent < MaxMessages
  /\ sent' = sent + 1
  /\ inbox' = Append(inbox, sent + 1)
  /\ UNCHANGED <<rt, outputs, handled>>

(* handle_call({connect, _}): the initial phase is entered, then what has  *)
(* been admitted meanwhile is processed.                                   *)
connect ==
  /\ rt.lifecycle = "disconnected"
  /\ rt' = [rt EXCEPT !.lifecycle = "connected", !.data = 1]
  /\ enter_phase(1)
  /\ UNCHANGED <<inbox, sent, handled>>

admit_disconnected ==
  /\ rt.lifecycle = "disconnected"
  /\ inbox # << >>
  /\ inbox' = Tail(inbox)
  /\ rt' = IF full(rt) THEN stop(rt) ELSE enqueue(rt, Head(inbox))
  /\ UNCHANGED <<sent, outputs, handled>>

(* One turn of the loop: the callback's conclusion c for message k of r.   *)
process(r, k, c) ==
  /\ rt' = process_message(r, k,
             [phase |-> c.phase, data |-> r.data, directive |-> c.directive],
             r.data + 1)
  /\ handled' = Append(handled, <<r.mailbox[k].message, r.data>>)
  /\ IF c.directive # "fail" /\ boundary(r, c)
     THEN r.data < MaxEntries /\ enter_phase(r.data + 1)
     ELSE UNCHANGED outputs

process_messages ==
  /\ connected(rt)
  /\ \E k \in eligible(rt), c \in Conclusions :
       selected(rt, k) /\ process(rt, k, c)
  /\ UNCHANGED <<inbox, sent>>

(* handle_cast/2 of a connected actor, up to the first callback call: the  *)
(* admitted message is the only eligible one.                              *)
admit_and_process ==
  /\ connected(rt)
  /\ quiescent(rt)
  /\ inbox # << >>
  /\ inbox' = Tail(inbox)
  /\ IF full(rt)
     THEN rt' = stop(rt) /\ UNCHANGED <<outputs, handled>>
     ELSE \E c \in Conclusions :
            LET r == enqueue(rt, Head(inbox))
            IN  process(r, Len(r.mailbox), c)
  /\ UNCHANGED sent

(* A call other than connect, or a message that is not a cast.             *)
unsupported ==
  /\ quiescent(rt)
  /\ rt.lifecycle # "stopped"
  /\ rt' = stop(rt)
  /\ UNCHANGED <<inbox, sent, outputs, handled>>

Next ==
  \/ send
  \/ connect
  \/ admit_disconnected
  \/ process_messages
  \/ admit_and_process
  \/ unsupported

Spec == Init /\ [][Next]_vars
-----------------------------------------------------------------------------
retained == {rt.mailbox[k].message : k \in DOMAIN rt.mailbox}

handled_in(entry) == {handled[i][1] : i \in {j \in DOMAIN handled :
                                               handled[j][2] = entry}}

(* A boundary makes every postponed message eligible again: no message is  *)
(* handled before an older one that is still retained has had its turn in  *)
(* the same occupancy.                                                     *)
NoOvertaking ==
  rt.lifecycle = "connected" =>
    \A older \in retained, newer \in handled_in(rt.data) :
      older < newer => older \in handled_in(rt.data)

(* A message is postponed exactly while the callback has refused it in the *)
(* present occupancy, so an idle actor waits for a message that none of    *)
(* those it holds can replace.                                             *)
PostponedThisOccupancy ==
  rt.lifecycle = "connected" =>
    \A k \in DOMAIN rt.mailbox :
      rt.mailbox[k].postponed <=>
        rt.mailbox[k].message \in handled_in(rt.data)
=============================================================================
