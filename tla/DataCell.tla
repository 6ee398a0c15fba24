------------------------------ MODULE DataCell ------------------------------
(***************************************************************************)
(* The callbacks of phenom_data_cell: one data qubit of the simulated      *)
(* memory, its error source and its accumulated Pauli frame.               *)
(***************************************************************************)
EXTENDS Pauli

CONSTANTS Ports, opposite, U32

bit(b) == IF b THEN 1 ELSE 0

next_step(step) == (step + 1) % U32

data_cell ==
  [step |-> 0, seen_sources |-> {}, event |-> 0, accumulated_pauli |-> i,
   reply_request_id |-> 0, reply_anticommutes |-> 0, reply_resume |-> "none",
   noise_disabled |-> 0, cutoff_armed |-> 0, cutoff_step |-> 0]

phenom_data(d, source) ==
  [tag |-> "phenom_data", step |-> d.step, source |-> source,
   present |-> d.event, quiet |-> d.noise_disabled]

pauli_reply(d) ==
  [tag |-> "pauli_reply", request_id |-> d.reply_request_id,
   anticommutes |-> d.reply_anticommutes]

no_casts == [p \in Ports \cup {"measurement"} |-> << >>]

(* handle_enter/3 changes no data: the casts on each port.                 *)
handle_enter(phase, d) ==
  [p \in Ports \cup {"measurement"} |->
     CASE phase = "reporting" /\ p \in Ports -> <<phenom_data(d, opposite[p])>>
       [] phase = "replying" /\ p = "measurement" -> <<pauli_reply(d)>>
       [] OTHER -> << >>]
-----------------------------------------------------------------------------
conclude(phase, d, directive) ==
  [phase |-> phase, data |-> d, directive |-> directive]

configuring(m, d) ==
  CASE m.tag = "phenom_config" ->
         conclude("collecting", [d EXCEPT !.accumulated_pauli = i], "consume")
    [] m.tag = "phenom_query" /\ m.step = 0 ->
         conclude("configuring", d, "postpone")
    [] OTHER -> conclude("configuring", d, "fail")

may_arm(d) == d.noise_disabled = 0 /\ d.cutoff_armed = 0

armed(d, m) ==
  [d EXCEPT !.cutoff_armed = 1, !.cutoff_step = m.first_quiet_step]

(* Defect: an update replaces the frame instead of joining it.             *)
updated_replacing(d, m) == [d EXCEPT !.accumulated_pauli = m.pauli]

updated(d, m) ==
  [d EXCEPT !.accumulated_pauli = multiply(@, m.pauli)]

(* Defect: the cutoff of a step leaves that step's own noise.              *)
cutoff_after(d) == d.cutoff_armed = 1 /\ d.step > d.cutoff_step

(* Defect: the cutoff of a step takes the noise of the step before.        *)
cutoff_before(d) == d.cutoff_armed = 1 /\ d.step + 1 >= d.cutoff_step

cutoff_applies(d) == d.cutoff_armed = 1 /\ d.step >= d.cutoff_step

(* The last query of a round: noise is the coin of the data error.         *)
sampled(d, noise) ==
  LET disabled == d.noise_disabled = 1 \/ cutoff_applies(d)
      event == IF disabled THEN 0 ELSE noise
  IN  [d EXCEPT !.event = event,
                !.accumulated_pauli = IF event = 1 THEN multiply(@, y) ELSE @,
                !.noise_disabled = bit(disabled),
                !.cutoff_armed = IF cutoff_applies(d) THEN 0 ELSE @]

(* A reply is computed at once; resume is the phase it returns to.         *)
replying_to(d, m, resume) ==
  [d EXCEPT !.reply_request_id = m.request_id,
            !.reply_anticommutes =
               bit(anticommutes(d.accumulated_pauli, m.measurement)),
            !.reply_resume = resume]

first_of_next_round(d, m) ==
  [d EXCEPT !.step = m.step, !.seen_sources = {m.source}, !.event = 0]

collecting(m, d, noise) ==
  CASE m.tag = "noise_cutoff" /\ may_arm(d) /\ m.first_quiet_step >= d.step ->
         conclude("collecting", armed(d, m), "consume")
    [] m.tag = "pauli_update" ->
         conclude("collecting", updated(d, m), "consume")
    [] /\ m.tag = "phenom_query"
       /\ m.step = d.step
       /\ m.source \in Ports \ d.seen_sources ->
         LET seen == [d EXCEPT !.seen_sources = @ \cup {m.source}]
         IN  IF seen.seen_sources = Ports
             THEN conclude("reporting", sampled(seen, noise), "consume")
             ELSE conclude("collecting", seen, "consume")
    [] m.tag = "phenom_query" /\ m.step = next_step(d.step) ->
         conclude("collecting", d, "postpone")
    [] m.tag = "pauli_query" /\ d.noise_disabled = 1 ->
         conclude("replying", replying_to(d, m, "collecting"), "consume")
    [] OTHER -> conclude("collecting", d, "fail")

reporting(m, d) ==
  CASE m.tag = "noise_cutoff" /\ may_arm(d) /\ m.first_quiet_step > d.step ->
         conclude("reporting", armed(d, m), "consume")
    [] m.tag = "pauli_update" ->
         conclude("reporting", updated(d, m), "consume")
    [] /\ m.tag = "phenom_query"
       /\ m.step = next_step(d.step)
       /\ m.source \in Ports ->
         conclude("collecting", first_of_next_round(d, m), "consume")
    [] m.tag = "pauli_query" /\ d.noise_disabled = 1 ->
         conclude("replying", replying_to(d, m, "reporting"), "consume")
    [] OTHER -> conclude("reporting", d, "fail")

(* Defect: a second query is consumed without entering the phase again.   *)
answer_again_silently(d, m) ==
  conclude("replying", replying_to(d, m, d.reply_resume), "consume")

(* The explicit boundary replying -> replying: one more reply is cast.     *)
answer_again(d, m) ==
  conclude("repeat_phase", replying_to(d, m, d.reply_resume), "consume")

(* Until the next query the cell stays in replying, whatever it resumes.   *)
replying(m, d) ==
  CASE /\ m.tag = "phenom_query"
       /\ d.reply_resume = "collecting"
       /\ m.step = d.step
       /\ m.source \in Ports \ d.seen_sources ->
         LET seen == [d EXCEPT !.seen_sources = @ \cup {m.source}]
         IN  IF seen.seen_sources = Ports
             THEN conclude("reporting", [seen EXCEPT !.event = 0], "consume")
             ELSE conclude("replying", seen, "consume")
    [] /\ m.tag = "phenom_query"
       /\ d.reply_resume = "collecting"
       /\ m.step = next_step(d.step) ->
         conclude("replying", d, "postpone")
    [] /\ m.tag = "phenom_query"
       /\ d.reply_resume = "reporting"
       /\ m.step = next_step(d.step)
       /\ m.source \in Ports ->
         conclude("collecting", first_of_next_round(d, m), "consume")
    [] m.tag = "pauli_update" ->
         conclude("replying", updated(d, m), "consume")
    [] m.tag = "pauli_query" /\ d.noise_disabled = 1 ->
         answer_again(d, m)
    [] OTHER -> conclude("replying", d, "fail")

handle_cast(m, phase, d, noise) ==
  CASE phase = "configuring" -> configuring(m, d)
    [] phase = "collecting" -> collecting(m, d, noise)
    [] phase = "reporting" -> reporting(m, d)
    [] phase = "replying" -> replying(m, d)
=============================================================================
