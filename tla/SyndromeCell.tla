---------------------------- MODULE SyndromeCell ----------------------------
(***************************************************************************)
(* The callbacks of phenom_syndrome_cell: a round asks every adjacent data *)
(* cell for its error bit, adds a measurement error and holds the          *)
(* detection event until the decoder asks for it.                          *)
(***************************************************************************)
EXTENDS Naturals

CONSTANTS Ports, opposite, U32

bit(b) == IF b THEN 1 ELSE 0
xor(a, b) == (a + b) % 2

next_step(step) == (step + 1) % U32

syndrome ==
  [step |-> 0, seen_sources |-> {}, data_parity |-> 0,
   previous_measurement |-> 0, announcement |-> 0, data_quiet |-> 0,
   announcement_quiet |-> 0, noise_disabled |-> 0, cutoff_armed |-> 0,
   cutoff_step |-> 0]

(* Defect: a result claims to be quiet as soon as the cutoff is armed.     *)
phenom_anyon_armed(s) ==
  [tag |-> "phenom_anyon", step |-> s.step, present |-> s.announcement,
   quiet |-> bit(s.cutoff_armed = 1 \/ s.noise_disabled = 1)]

phenom_anyon(s) ==
  [tag |-> "phenom_anyon", step |-> s.step, present |-> s.announcement,
   quiet |-> s.announcement_quiet]

phenom_query(step, source) ==
  [tag |-> "phenom_query", step |-> step, source |-> source]

(* handle_enter/3: the data after the entry and the casts on each port.    *)
releasing(s) == s.seen_sources = Ports

entered_step(s) == IF releasing(s) THEN next_step(s.step) ELSE s.step

no_casts == [p \in Ports \cup {"phi"} |-> << >>]

enter_collecting(s) ==
  [data |-> [s EXCEPT !.step = entered_step(s), !.seen_sources = {},
                      !.announcement = 0, !.data_quiet = 1,
                      !.announcement_quiet = 0],
   casts |-> [p \in Ports \cup {"phi"} |->
                IF p = "phi"
                THEN IF releasing(s) THEN <<phenom_anyon(s)>> ELSE << >>
                ELSE <<phenom_query(entered_step(s), opposite[p])>>]]

handle_enter(phase, s) ==
  IF phase = "collecting" THEN enter_collecting(s)
  ELSE [data |-> s, casts |-> no_casts]
-----------------------------------------------------------------------------
conclude(phase, s, directive) ==
  [phase |-> phase, data |-> s, directive |-> directive]

armed(s, m) ==
  [s EXCEPT !.cutoff_armed = 1, !.cutoff_step = m.first_quiet_step]

may_arm(s) == s.noise_disabled = 0 /\ s.cutoff_armed = 0

configuring(m, s) ==
  CASE m.tag = "phenom_config" ->
         conclude("collecting",
                  [s EXCEPT !.seen_sources = {}, !.data_parity = 0,
                            !.announcement = 0, !.data_quiet = 1,
                            !.announcement_quiet = 0], "consume")
    [] m.tag = "phenom_request" /\ m.step = s.step ->
         conclude("configuring", s, "postpone")
    [] OTHER -> conclude("configuring", s, "fail")

(* Defect: the cutoff of a step takes the noise of the step before.        *)
cutoff_before(s) == s.cutoff_armed = 1 /\ s.step + 1 >= s.cutoff_step

cutoff_applies(s) == s.cutoff_armed = 1 /\ s.step >= s.cutoff_step

(* The last report of a round: noise is the coin of the measurement error. *)
joined(s, noise) ==
  LET disabled == s.noise_disabled = 1 \/ cutoff_applies(s)
      measurement == IF disabled THEN 0 ELSE noise
  IN  [s EXCEPT !.previous_measurement = measurement,
                !.announcement =
                   xor(xor(s.data_parity, measurement),
                       s.previous_measurement),
                !.announcement_quiet = s.data_quiet * bit(disabled),
                !.noise_disabled = bit(disabled),
                !.cutoff_armed = IF cutoff_applies(s) THEN 0 ELSE @]

collecting(m, s, noise) ==
  CASE m.tag = "noise_cutoff" /\ may_arm(s) /\ m.first_quiet_step >= s.step ->
         conclude("collecting", armed(s, m), "consume")
    [] m.tag = "phenom_request" /\ m.step = s.step ->
         conclude("collecting", s, "postpone")
    [] /\ m.tag = "phenom_data"
       /\ m.step = s.step
       /\ m.source \in Ports \ s.seen_sources ->
         LET collected ==
               [s EXCEPT !.seen_sources = @ \cup {m.source},
                         !.data_parity = xor(@, m.present),
                         !.data_quiet = @ * m.quiet]
         IN  IF collected.seen_sources = Ports
             THEN conclude("announcing", joined(collected, noise), "consume")
             ELSE conclude("collecting", collected, "consume")
    [] OTHER -> conclude("collecting", s, "fail")

(* Defect: the parity of a round is carried into the next one.             *)
release_keeping_parity(s) == s

release(s) == [s EXCEPT !.data_parity = 0]

announcing(m, s) ==
  CASE m.tag = "noise_cutoff" /\ may_arm(s) /\ m.first_quiet_step > s.step ->
         conclude("announcing", armed(s, m), "consume")
    [] m.tag = "phenom_request" /\ m.step = s.step ->
         conclude("collecting", release(s), "consume")
    [] m.tag = "phenom_data" /\ m.step = next_step(s.step) ->
         conclude("announcing", s, "postpone")
    [] OTHER -> conclude("announcing", s, "fail")

handle_cast(m, phase, s, noise) ==
  CASE phase = "configuring" -> configuring(m, s)
    [] phase = "collecting" -> collecting(m, s, noise)
    [] phase = "announcing" -> announcing(m, s)
=============================================================================
