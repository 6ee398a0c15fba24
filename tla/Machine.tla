------------------------------ MODULE Machine ------------------------------
(***************************************************************************)
(* The hardware actor generated by xls_statem_codegen: proc Service with   *)
(* its bounded scheduler machine_step, behind the admission-credit adapter *)
(* ReservedFrame of priv/xls/lib/axis.x.  Each activation of Service       *)
(* either emits one phase-entry effect, or admits at most one frame and    *)
(* dispatches at most one message.  A full output channel delays an        *)
(* activation, so backpressure is an activation not taken yet.             *)
(*                                                                         *)
(* entered, tried, cause and rejected are history.  The list that enter() *)
(* returns is a pure function of registers that do not change until the    *)
(* entry is complete; it is chosen when the entry becomes pending.         *)
(***************************************************************************)
EXTENDS Naturals, Sequences, SequencesExt

CONSTANTS
  MailboxCapacity, Phases,
  Malformed,     \* messages whose tag or length the machine rejects
  MaxMessages,   \* bound: frames sent to the actor
  MaxEntries,    \* bound: phase entries
  MaxEffects     \* bound: effects of one phase entry

ASSUME MachineAssumption ==
  /\ MailboxCapacity \in Nat \ {0}
  /\ MaxEffects \in Nat

VARIABLES
  machine,   \* registers of Service
  link,      \* frames in the upstream FIFO
  admitted,  \* ReservedFrame holds a credit
  credits,   \* credits in the admission channel
  req,       \* frames handed to the actor and not yet received
  sent,      \* frames sent so far
  outputs,   \* effects emitted so far, each named by its entry
  handled    \* history: <<message, occupancy>> of every dispatch

vars == <<machine, link, admitted, credits, req, sent, outputs, handled>>

Conclusions ==
  [phase : Phases, directive : {"consume", "postpone", "fail"},
   repeat : BOOLEAN]

EffectLists == UNION {[1 .. n -> BOOLEAN] : n \in 0 .. MaxEffects}

invalid_repeat(c) ==
  c.repeat /\ (c.directive # "consume" \/ c.phase # machine.phase)

boundary(c) == c.phase # machine.phase \/ c.repeat

Init ==
  /\ \E phase \in Phases, effects \in EffectLists :
       machine = [phase |-> phase, slots |-> << >>, enter_pending |-> TRUE,
                  effects |-> effects, entry_effect_index |-> 0,
                  admission_pending |-> FALSE, failed |-> FALSE,
                  entered |-> 1, cause |-> "none", rejected |-> << >>]
  /\ link = << >> /\ req = << >>
  /\ admitted = FALSE /\ credits = 0
  /\ sent = 0
  /\ outputs = << >> /\ handled = << >>

send ==
  /\ sent < MaxMessages
  /\ sent' = sent + 1
  /\ link' = Append(link, sent + 1)
  /\ UNCHANGED <<machine, admitted, credits, req, outputs, handled>>

(* ReservedFrame takes its credit in an activation of its own, and only    *)
(* then accepts one frame from the link.                                   *)
take_credit ==
  /\ ~admitted
  /\ credits > 0
  /\ credits' = credits - 1
  /\ admitted' = TRUE
  /\ UNCHANGED <<machine, link, req, sent, outputs, handled>>

forward ==
  /\ admitted
  /\ link # << >>
  /\ req' = Append(req, Head(link))
  /\ link' = Tail(link)
  /\ admitted' = FALSE
  /\ UNCHANGED <<machine, credits, sent, outputs, handled>>
-----------------------------------------------------------------------------
grant(reserve) == credits' = IF reserve THEN credits + 1 ELSE credits

(* machine_entry_step: one effect of the entry, or none if it is invalid.  *)
entry_step ==
  /\ ~machine.failed
  /\ machine.enter_pending
  /\ LET count == Len(machine.effects)
         has_effect == machine.entry_effect_index < count
         next_index == IF has_effect THEN machine.entry_effect_index + 1
                       ELSE machine.entry_effect_index
         complete == next_index >= count
         reserve == /\ complete
                    /\ ~machine.admission_pending
                    /\ Len(machine.slots) < MailboxCapacity
     IN  /\ outputs' = IF has_effect /\ machine.effects[next_index]
                       THEN Append(outputs, machine.entered) ELSE outputs
         /\ machine' = [machine EXCEPT
              !.enter_pending = ~complete,
              !.entry_effect_index = IF complete THEN 0 ELSE next_index,
              !.admission_pending = @ \/ reserve]
         /\ grant(reserve)
  /\ UNCHANGED <<link, admitted, req, sent, handled>>

(* The slot that machine_step selects among those it would hold.           *)
selected(slots, k) ==
  /\ k \in DOMAIN slots
  /\ ~slots[k].postponed
  /\ \A j \in 1 .. k - 1 : slots[j].postponed

transition_slots(slots, k, c) ==
  CASE c.directive = "consume" -> RemoveAt(slots, k)
    [] c.directive = "postpone" -> [slots EXCEPT ![k].postponed = TRUE]
    [] c.directive = "fail" -> slots

(* Defect: the postponed bits outlive their phase.                         *)
still_blocked(slots) == slots

unblocked(slots) == [k \in DOMAIN slots |-> [slots[k] EXCEPT !.postponed = FALSE]]

(* Defect: a free slot is promised again while a credit is outstanding.    *)
reserves_again(received, pending, slots, failed) ==
  ~failed /\ ~received /\ Len(slots) < MailboxCapacity

(* Defect: a credit is granted only by the activation that takes a frame.  *)
reserves_on_receipt(received, pending, slots, failed) ==
  ~failed /\ received /\ ~pending /\ Len(slots) < MailboxCapacity

(* "Preserve occupied + admission_pending <= capacity."                    *)
reserves(received, pending, slots, failed) ==
  ~failed /\ ~received /\ ~pending /\ Len(slots) < MailboxCapacity

(* Phase, slots and pending entry after the activation; m are the          *)
(* registers after admission.                                              *)
finish(m, received, slots, phase, entering, effects, failed, cause) ==
  LET pending == machine.admission_pending /\ ~received
      reserve == reserves(received, pending, slots, failed)
  IN  /\ machine' = [m EXCEPT
           !.phase = phase,
           !.slots = slots,
           !.enter_pending = entering,
           !.effects = effects,
           !.admission_pending = pending \/ reserve,
           !.failed = failed,
           !.entered = IF entering THEN @ + 1 ELSE @,
           !.cause = cause]
      /\ grant(reserve)

dispatch(m, received) ==
  \E k \in DOMAIN m.slots, c \in Conclusions :
    LET tried == [m.slots EXCEPT ![k].tried = TRUE]
    IN  /\ selected(m.slots, k)
        /\ handled' = Append(handled, <<m.slots[k].message, m.entered>>)
        /\ IF invalid_repeat(c)
           THEN finish(m, received, tried, m.phase, FALSE, << >>, TRUE, "repeat")
           ELSE LET failed == c.directive = "fail"
                    slots == transition_slots(tried, k, c)
                IN  IF boundary(c)
                    THEN /\ failed \/ m.entered < MaxEntries
                         /\ \E effects \in IF failed THEN {<< >>} ELSE EffectLists :
                              finish(m, received, unblocked(slots), c.phase,
                                     ~failed, effects, failed,
                                     IF failed THEN "fail" ELSE "none")
                    ELSE finish(m, received, slots, c.phase, FALSE, << >>,
                                failed, IF failed THEN "fail" ELSE "none")

no_dispatch(m, received, failed, cause) ==
  /\ finish(m, received, m.slots, m.phase, FALSE, << >>, failed, cause)
  /\ UNCHANGED handled

selectable(slots) == \E k \in DOMAIN slots : ~slots[k].postponed

(* An activation that receives a frame: an admitted one takes the next     *)
(* slot, a malformed one fails the machine before anything is dispatched.  *)
receive_step ==
  /\ ~machine.failed /\ ~machine.enter_pending
  /\ machine.admission_pending
  /\ req # << >>
  /\ req' = Tail(req)
  /\ IF Head(req) \in Malformed
     THEN no_dispatch([machine EXCEPT !.rejected = <<Head(req)>>], TRUE,
                      TRUE, "malformed")
     ELSE dispatch([machine EXCEPT !.slots = Append(@,
            [message |-> Head(req), postponed |-> FALSE, tried |-> FALSE])],
            TRUE)
  /\ UNCHANGED <<link, admitted, sent, outputs>>

(* An activation without a frame, which may still grant a credit.          *)
idle_step ==
  /\ ~machine.failed /\ ~machine.enter_pending
  /\ ~machine.admission_pending \/ req = << >>
  /\ IF selectable(machine.slots) THEN dispatch(machine, FALSE)
     ELSE no_dispatch(machine, FALSE, FALSE, "none")
  /\ UNCHANGED <<link, admitted, req, sent, outputs>>

Activation == entry_step \/ receive_step \/ idle_step

Next == send \/ take_credit \/ forward \/ Activation

Spec == Init /\ [][Next]_vars

(* The clock drives the generated processes: an activation or a transfer   *)
(* that stays possible happens.                                            *)
FairSpec == Spec /\ WF_vars(Activation) /\ WF_vars(take_credit)
                 /\ WF_vars(forward)
-----------------------------------------------------------------------------
granted == credits + (IF admitted THEN 1 ELSE 0) + Len(req)

(* Slots promised and slots occupied stay within the capacity: the one     *)
(* outstanding credit is in exactly one place, and a frame that holds it   *)
(* always finds a free slot.                                               *)
CreditConserved ==
  /\ machine.admission_pending => granted = 1
  /\ ~machine.admission_pending => granted = 0
  /\ Len(machine.slots) + granted <= MailboxCapacity

(* A frame on the link is not held out for ever while there is room: a     *)
(* machine that has not failed hands out its next credit.                  *)
CreditGranted ==
  []<>(machine.admission_pending \/ machine.failed
         \/ Len(machine.slots) = MailboxCapacity)

(* The software scheduler's view: slots never dispatched, then frames      *)
(* underway, are its BEAM queue; an entry made is one whose effects are    *)
(* all out.                                                                *)
tried == SelectSeq(machine.slots, LAMBDA s : s.tried)
messages(slots) == [k \in DOMAIN slots |-> slots[k].message]
stopped == machine.cause \in {"fail", "repeat"}

remaining ==
  IF machine.enter_pending
  THEN SelectSeq(SubSeq(machine.effects, machine.entry_effect_index + 1,
                        Len(machine.effects)), LAMBDA valid : valid)
  ELSE << >>

CPU == INSTANCE StatemActor WITH
  rt <- [lifecycle |-> IF stopped THEN "stopped" ELSE "connected",
         phase |-> machine.phase,
         data |-> machine.entered,
         mailbox |->
           IF stopped THEN << >>
           ELSE [k \in DOMAIN tried |->
                   [message |-> tried[k].message,
                    postponed |-> tried[k].postponed]]],
  inbox <- messages(SelectSeq(machine.slots, LAMBDA s : ~s.tried))
             \o machine.rejected \o req \o link,
  outputs <- outputs \o [i \in DOMAIN remaining |-> machine.entered]

(* The generated scheduler shares the ordering and postponement rules of   *)
(* hls_statem: for the same arrivals it makes the same callback calls and  *)
(* the same effects in the same order, and it never loses a message to a   *)
(* full mailbox.                                                           *)
ImplementsStatem == CPU!Spec
=============================================================================
