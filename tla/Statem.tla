------------------------------- MODULE Statem -------------------------------
(***************************************************************************)
(* The bounded scheduling rules of src/src/api/hls_statem.erl, as          *)
(* operators on the runtime record of one actor: admission into the        *)
(* bounded mailbox, choice of the oldest eligible message, and the outcome *)
(* of a callback conclusion.  The callback is a parameter of the actor     *)
(* that uses this module: c is what handle_cast/3 returned for the chosen  *)
(* message, entered the data that handle_enter/3 returned if it was called.*)
(*                                                                         *)
(* The runtime's mailbox is the abstract queue of AtomicMailbox: each      *)
(* entry is a message with its membership of the postponed set.            *)
(***************************************************************************)
EXTENDS Naturals, Sequences, SequencesExt

CONSTANT MailboxCapacity

ASSUME StatemAssumption == MailboxCapacity \in Nat \ {0}

runtime(lifecycle, phase, data) ==
  [lifecycle |-> lifecycle, phase |-> phase, data |-> data,
   mailbox |-> << >>]

connected(rt) == rt.lifecycle = "connected"

eligible(rt) == {k \in DOMAIN rt.mailbox : ~rt.mailbox[k].postponed}

(* Defect: the newest eligible message goes first.                         *)
selected_newest(rt, k) ==
  /\ k \in eligible(rt)
  /\ \A j \in eligible(rt) : k >= j

(* hls_mailbox:select/2 with the one clause "not postponed".               *)
selected(rt, k) ==
  /\ k \in eligible(rt)
  /\ \A j \in eligible(rt) : k <= j

(* The gen_server takes its next call or cast only when the loop of        *)
(* process_messages/1 has found nothing more to do.                        *)
quiescent(rt) == connected(rt) => eligible(rt) = {}

(* Defect: the check allows a message less than the capacity.              *)
full_early(rt) == Len(rt.mailbox) + 1 >= MailboxCapacity

full(rt) == Len(rt.mailbox) >= MailboxCapacity

(* {stop, _, _}: the process ends and its mailbox with it.                 *)
stop(rt) == [rt EXCEPT !.lifecycle = "stopped", !.mailbox = << >>]

enqueue(rt, message) ==
  [rt EXCEPT !.mailbox =
     Append(@, [message |-> message, postponed |-> FALSE])]

(* Defect: the postponed set outlives its phase.                           *)
still_postponed(mailbox) == mailbox

(* The entries as they are when the postponed set has been emptied.        *)
released(mailbox) ==
  [k \in DOMAIN mailbox |-> [mailbox[k] EXCEPT !.postponed = FALSE]]

(* A change of phase, or the explicit same-phase boundary.                 *)
boundary(rt, c) == c.phase # rt.phase \/ c.phase = "repeat_phase"

next_phase(rt, c) ==
  IF c.phase = "repeat_phase" THEN rt.phase ELSE c.phase

(* Defect: a message to postpone is not added to the postponed set.        *)
settled_unmarked(rt, k, c) ==
  IF c.directive = "consume" THEN RemoveAt(rt.mailbox, k) ELSE rt.mailbox

(* What happens to the message at position k: it leaves the mailbox or     *)
(* joins the postponed set.                                                *)
settled(rt, k, c) ==
  IF c.directive = "consume" THEN RemoveAt(rt.mailbox, k)
  ELSE [rt.mailbox EXCEPT ![k].postponed = TRUE]

(* process_message/3 with finish_transition/2 or finish_repeat/2: the      *)
(* phase is entered first, then every postponed message is eligible again. *)
process_message(rt, k, c, entered) ==
  IF c.directive = "fail"
  THEN [stop(rt) EXCEPT !.phase = c.phase, !.data = c.data]
  ELSE IF boundary(rt, c)
  THEN [rt EXCEPT !.phase = next_phase(rt, c),
                  !.data = entered,
                  !.mailbox = released(settled(rt, k, c))]
  ELSE [rt EXCEPT !.data = c.data, !.mailbox = settled(rt, k, c)]
=============================================================================
