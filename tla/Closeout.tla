------------------------------ MODULE Closeout ------------------------------
(***************************************************************************)
(* The closeout of a memory experiment: the reducer phi_memory_experiment  *)
(* between the two decoder planes and the data cells of the fabric.  What  *)
(* a decoder cell emits reaches the reducer in order; the cells of a plane,*)
(* and the planes, reach it in any order.  Commands reach a data cell in   *)
(* the order in which they were submitted.                                 *)
(*                                                                         *)
(* A plane is PhiMesh reduced to its outputs: in a step each cell receives *)
(* its detection event, may move its anyon to a neighbor with a            *)
(* correction, and reports the occupancy after every move.  An event may   *)
(* still occur in the first quiet step, the trailing edge of a measurement *)
(* error, and in no later one.                                             *)
(***************************************************************************)
EXTENDS MemoryExperiment, Functions

CONSTANTS
  Directions,
  neighbor,      \* [Coordinates -> [Directions -> Coordinates]]
  MaxCutoff,     \* bound: latest first quiet step
  MaxStep,       \* bound: last step of the decoder
  MaxMoves       \* bound: corrections of a plane

ASSUME CloseoutAssumption ==
  /\ neighbor \in [Coordinates -> [Directions -> Coordinates]]
  /\ data_of \in [Planes -> [Coordinates -> [Directions -> Datas]]]
  /\ measurement \in {x, z}
  /\ IsFiniteSet(Coordinates) /\ Coordinates # {}
  /\ IsFiniteSet(Datas) /\ Datas # {}
  /\ MaxCutoff \in Nat /\ MaxStep \in Nat /\ MaxCutoff <= MaxStep

VARIABLES
  experiment,   \* state of the reducer
  plane_step,   \* [Planes -> next step of the plane]
  anyon,        \* [Planes -> [Coordinates -> occupancy]]
  out,          \* out[plane][c]: events of a decoder cell underway
  commands,     \* commands[d]: commands on their way to a data cell
  frame,        \* [Datas -> Pauli]
  replies,      \* replies[d]: replies underway
  emitted       \* history: the corrections that the planes have emitted

device == <<plane_step, anyon, out, emitted>>
closeout_vars == <<experiment, device, commands, frame, replies>>

phi_correction(step, at, direction) ==
  [tag |-> "phi_correction", step |-> step, at |-> at, direction |-> direction]
phi_status(step, at, present, quiet) ==
  [tag |-> "phi_status", step |-> step, at |-> at, present |-> present,
   quiet |-> quiet]

first_quiet == experiment.cutoff_step

CloseoutInit ==
  /\ \E cutoff \in 0 .. MaxCutoff : experiment = new(cutoff)
  /\ plane_step = [plane \in Planes |-> 0]
  /\ anyon = [plane \in Planes |-> [c \in Coordinates |-> 0]]
  /\ out = [plane \in Planes |-> [c \in Coordinates |-> << >>]]
  /\ commands = [d \in Datas |-> << >>]
  /\ frame = [d \in Datas |-> i]
  /\ replies = [d \in Datas |-> << >>]
  /\ emitted = {}

flip(occupied, cs) ==
  [c \in Coordinates |-> IF c \in cs THEN xor(occupied[c], 1) ELSE occupied[c]]

(* The moves of a step: a partial map from occupied cells to directions.   *)
moves_of(occupied) ==
  UNION {[cs -> Directions] :
           cs \in SUBSET {c \in Coordinates : occupied[c] = 1}}

emitted_by(plane) == {m \in emitted : m[1] = plane}

(* One step of the decoder plane.                                          *)
decode(plane) ==
  LET step == plane_step[plane]
      quiet == IF step >= first_quiet THEN 1 ELSE 0
  IN  /\ step <= MaxStep
      /\ \E events \in IF step <= first_quiet THEN SUBSET Coordinates ELSE {{}} :
         \E moves \in moves_of(flip(anyon[plane], events)) :
           LET arrivals(c) == {m \in DOMAIN moves : neighbor[m][moves[m]] = c}
               after == [c \in Coordinates |->
                 (flip(anyon[plane], events)[c]
                    + (IF c \in DOMAIN moves THEN 1 ELSE 0)
                    + Cardinality(arrivals(c))) % 2]
           IN  /\ Cardinality(emitted_by(plane)) + Cardinality(DOMAIN moves)
                    <= MaxMoves
               /\ anyon' = [anyon EXCEPT ![plane] = after]
               /\ emitted' = emitted \cup
                    {<<plane, step, c, moves[c]>> : c \in DOMAIN moves}
               /\ out' = [out EXCEPT ![plane] = [c \in Coordinates |->
                    @[c] \o (IF c \in DOMAIN moves
                             THEN <<phi_correction(step, c, moves[c])>>
                             ELSE << >>)
                         \o <<phi_status(step, c, after[c], quiet)>>]]
      /\ plane_step' = [plane_step EXCEPT ![plane] = step + 1]
      /\ UNCHANGED <<experiment, commands, frame, replies>>

(* The runner submits the command of a result before its next event: an    *)
(* update to its data cell, a query to all of them.                        *)
submitted(result) ==
  [d \in Datas |->
     IF \E c \in Range(result.commands) : c.tag = "pauli_query" \/ c.data = d
     THEN commands[d] \o result.commands
     ELSE commands[d]]

consume(result) ==
  /\ experiment' = result.state
  /\ commands' = submitted(result)

receive_decoder_event(plane, c) ==
  /\ out[plane][c] # << >>
  /\ out' = [out EXCEPT ![plane][c] = Tail(@)]
  /\ consume(decoder_event(plane, Head(out[plane][c]), experiment))
  /\ UNCHANGED <<plane_step, anyon, frame, replies, emitted>>

receive_reply(d) ==
  /\ replies[d] # << >>
  /\ replies' = [replies EXCEPT ![d] = Tail(@)]
  /\ consume(measurement_reply(d, Head(replies[d]), experiment))
  /\ UNCHANGED <<device, frame>>

(* A data cell takes its next command.                                     *)
data_cell(d) ==
  /\ commands[d] # << >>
  /\ commands' = [commands EXCEPT ![d] = Tail(@)]
  /\ LET command == Head(commands[d])
     IN  IF command.tag = "pauli_update"
         THEN /\ frame' = [frame EXCEPT ![d] = multiply(@, command.pauli)]
              /\ UNCHANGED replies
         ELSE /\ replies' = [replies EXCEPT ![d] =
                   Append(@, IF anticommutes(frame[d], measurement)
                             THEN 1 ELSE 0)]
              /\ UNCHANGED frame
  /\ UNCHANGED <<experiment, device>>

CloseoutNext ==
  \/ \E plane \in Planes :
       \/ decode(plane)
       \/ \E c \in Coordinates : receive_decoder_event(plane, c)
  \/ \E d \in Datas : data_cell(d) \/ receive_reply(d)

CloseoutSpec == CloseoutInit /\ [][CloseoutNext]_closeout_vars
-----------------------------------------------------------------------------
(* "At that point every earlier correction has crossed the output          *)
(* boundary": no correction comes after the witness, and the witness       *)
(* counts each one exactly once, in its log and in the replies of the      *)
(* data cells: a measurement of x sees the corrections of the x plane.     *)
WitnessIsComplete ==
  experiment.phase = "done" =>
    LET log == experiment.correction_log
        flips(d) == {m \in emitted :
          /\ data_of[m[1]][m[3]][m[4]] = d
          /\ (m[1] = "x") <=> (measurement = x)}
    IN  /\ {log[n] : n \in DOMAIN log} = emitted
        /\ Len(log) = Cardinality(emitted)
        /\ experiment.replies = {<<d, Cardinality(flips(d)) % 2>> : d \in Datas}

empty(plane) == \A c \in Coordinates : anyon[plane][c] = 0

(* Nothing is underway any more and the planes make no further step.       *)
drained ==
  /\ \A plane \in Planes :
       plane_step[plane] > MaxStep /\ \A c \in Coordinates : out[plane][c] = << >>
  /\ \A d \in Datas : commands[d] = << >> /\ replies[d] = << >>

(* Whichever plane was ahead when it closed its rounds, an experiment      *)
(* whose planes end quiet and empty is not left waiting: when all messages *)
(* have been handled it has its witness.  Every step consumes a message or *)
(* a decoder step, so a run that is fair to its processes gets there.  On  *)
(* the way no order of a correct fabric's events is taken for an error.    *)
CloseoutCompletes ==
  /\ experiment.phase # "failed"
  /\ drained /\ (\A plane \in Planes : empty(plane)) =>
       experiment.phase = "done"
=============================================================================
