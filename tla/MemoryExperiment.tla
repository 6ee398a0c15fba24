-------------------------- MODULE MemoryExperiment --------------------------
(***************************************************************************)
(* phi_memory_experiment: the pure reducer that closes a memory experiment *)
(* out.  It turns corrections into updates of the data frames, closes a    *)
(* round of statuses per plane and step, asks every data cell once both    *)
(* planes were quiet and empty at a common step, and collects the replies. *)
(* A result is the new state with the commands to submit, in order.        *)
(***************************************************************************)
EXTENDS Pauli, Integers, Sequences, FiniteSets

CONSTANTS
  Coordinates,   \* decoder cells of a plane
  Datas,         \* data cells
  data_of,       \* [Planes -> [Coordinates -> [Directions -> Datas]]]
  measurement    \* the Pauli asked for

Planes == {"x", "z"}

NotClosed == -1

(* Defect: the Paulis of the two planes are exchanged.                     *)
own_pauli == [plane \in Planes |-> IF plane = "x" THEN x ELSE z]

(* The Pauli of phi_noise_topology:correction_update/3.                    *)
correction_pauli == [plane \in Planes |-> IF plane = "x" THEN z ELSE x]

new(first_quiet_step) ==
  [phase |-> "draining", cutoff_step |-> first_quiet_step,
   status_rounds |-> {}, closed_steps |-> [plane \in Planes |-> NotClosed],
   zero_steps |-> [plane \in Planes |-> {}], seen_corrections |-> {},
   correction_log |-> << >>, replies |-> {}, closeout_step |-> NotClosed]

done(e) == [state |-> e, commands |-> << >>]
submit(e, command) == [state |-> e, commands |-> <<command>>]
failed(e) == done([e EXCEPT !.phase = "failed"])

pauli_update(data, pauli) ==
  [tag |-> "pauli_update", data |-> data, pauli |-> pauli]
pauli_query == [tag |-> "pauli_query"]

step_closed(plane, step, e) == step <= e.closed_steps[plane]
-----------------------------------------------------------------------------
correction_key(plane, m) == <<plane, m.step, m.at>>

correction(plane, m, e) ==
  IF step_closed(plane, m.step, e)
       \/ correction_key(plane, m) \in e.seen_corrections
  THEN failed(e)
  ELSE submit(
         [e EXCEPT !.seen_corrections = @ \cup {correction_key(plane, m)},
                   !.correction_log =
                      Append(@, <<plane, m.step, m.at, m.direction>>)],
         pauli_update(data_of[plane][m.at][m.direction],
                      correction_pauli[plane]))

round(plane, step, e) ==
  {r \in e.status_rounds : r.plane = plane /\ r.step = step}

(* Defect: a step is forgotten when both planes have just closed it.       *)
prune_closed_steps(e) ==
  IF \E plane \in Planes : e.closed_steps[plane] = NotClosed THEN e
  ELSE [e EXCEPT !.zero_steps = [plane \in Planes |->
          {s \in @[plane] : \A p \in Planes : s > e.closed_steps[p]}]]

(* Steps before the one that the slower plane has closed cannot become     *)
(* common any more.                                                        *)
prune_zero_steps(e) ==
  IF \E plane \in Planes : e.closed_steps[plane] = NotClosed THEN e
  ELSE [e EXCEPT !.zero_steps = [plane \in Planes |->
          {s \in @[plane] : \E p \in Planes : s >= e.closed_steps[p]}]]

common(e) == e.zero_steps["x"] \cap e.zero_steps["z"]

maybe_query(e) ==
  IF common(e) = {} THEN done(e)
  ELSE submit([e EXCEPT !.phase = "querying",
                        !.closeout_step = CHOOSE s \in common(e) :
                                            \A t \in common(e) : s <= t],
              pauli_query)

remove_round(plane, step, e) == e.status_rounds \ round(plane, step, e)

complete_status_round(plane, step, e) ==
  LET quiet_and_empty ==
        \A r \in round(plane, step, e) : r.present = 0 /\ r.quiet = 1
      zero == IF quiet_and_empty /\ step >= e.cutoff_step THEN {step} ELSE {}
  IN  maybe_query(prune_zero_steps(
        [e EXCEPT !.status_rounds = remove_round(plane, step, e),
                  !.closed_steps[plane] = step,
                  !.zero_steps[plane] = @ \cup zero,
                  !.seen_corrections =
                    {c \in @ : c[1] # plane \/ c[2] > step}]))

status(plane, m, e) ==
  IF \/ step_closed(plane, m.step, e)
     \/ \E r \in round(plane, m.step, e) : r.at = m.at
  THEN failed(e)
  ELSE LET updated ==
             [e EXCEPT !.status_rounds = @ \cup
                {[plane |-> plane, step |-> m.step, at |-> m.at,
                  present |-> m.present, quiet |-> m.quiet]}]
       IN  IF {r.at : r \in round(plane, m.step, updated)} = Coordinates
           THEN complete_status_round(plane, m.step, updated)
           ELSE done(updated)

decoder_event(plane, m, e) ==
  CASE e.phase \in {"done", "failed"} -> done(e)
    [] e.phase = "draining" /\ m.tag = "phi_correction" ->
         correction(plane, m, e)
    [] e.phase = "draining" /\ m.tag = "phi_status" -> status(plane, m, e)
    [] e.phase = "querying" /\ m.tag = "phi_correction" -> failed(e)
    [] e.phase = "querying" /\ m.tag = "phi_status" -> done(e)

(* A reply to the experiment's own request; replies is a set of pairs.     *)
measurement_reply(data, anticommutes_bit, e) ==
  CASE e.phase # "querying" -> done(e)
    [] e.phase = "querying" /\ (\E r \in e.replies : r[1] = data) -> failed(e)
    [] OTHER ->
         LET updated == e.replies \cup {<<data, anticommutes_bit>>}
         IN  done([e EXCEPT !.replies = updated,
                            !.phase = IF Cardinality(updated) = Cardinality(Datas)
                                      THEN "done" ELSE @])
=============================================================================
