----------------------------- MODULE NoiseMesh -----------------------------
(***************************************************************************)
(* The noise half of the memory demonstration on the BEAM: the data and    *)
(* syndrome cells of phi_noise_topology, started and activated by          *)
(* phi_memory_cpu_fabric, with the decoder and the host reduced to what    *)
(* they exchange with these cells.  A decoder cell asks its syndrome for   *)
(* one step after the other, after any delay.  The host has cast the       *)
(* configurations and the cutoff before any cell is connected; it then     *)
(* sends corrections, and queries once every syndrome has told its decoder *)
(* that it is quiet.  Every error and measurement error is a coin.         *)
(***************************************************************************)
EXTENDS Statem, FiniteSets, FiniteSetsExt

CONSTANTS
  Syndromes, Datas,
  Ports,          \* output ports of a cell towards its neighbors
  opposite,       \* [Ports -> Ports]
  data_at,        \* [Syndromes -> [Ports -> Datas]]
  syndrome_at,    \* [Datas -> [Ports -> Syndromes]]
  U32,            \* number of values of a u32 counter
  Measurements,   \* Paulis the host asks for
  MaxCutoff,      \* bound: latest first quiet step
  MaxStep,        \* bound: last step the decoder asks for
  MaxUpdates,     \* bound: corrections the host sends
  MaxQueries      \* bound: queries the host broadcasts

ASSUME NoiseMeshAssumption ==
  /\ Syndromes \cap Datas = {}
  /\ {"host", "phi"} \cap (Syndromes \cup Datas) = {}
  /\ {"phi", "measurement"} \cap Ports = {}
  /\ IsFiniteSet(Ports) /\ Cardinality(Ports) > 1
  /\ opposite \in [Ports -> Ports]
  /\ data_at \in [Syndromes -> [Ports -> Datas]]
  /\ syndrome_at \in [Datas -> [Ports -> Syndromes]]
  /\ \A s \in Syndromes, p \in Ports :
       syndrome_at[data_at[s][p]][opposite[p]] = s
  /\ \A d \in Datas, p \in Ports : data_at[syndrome_at[d][p]][opposite[p]] = d
  /\ \A s \in Syndromes, p, q \in Ports : data_at[s][p] = data_at[s][q] => p = q
  /\ \A d \in Datas, p, q \in Ports :
       syndrome_at[d][p] = syndrome_at[d][q] => p = q
  /\ Measurements \subseteq [x : {0, 1}, z : {0, 1}]
  /\ MailboxCapacity > 1
  /\ MaxCutoff \in Nat /\ MaxStep \in Nat /\ U32 \in Nat
  /\ MaxCutoff <= MaxStep /\ MaxStep + 1 < U32

Cells == Syndromes \cup Datas
Senders == Cells \cup {"host", "phi"}

SC == INSTANCE SyndromeCell
DC == INSTANCE DataCell

Bit == {0, 1}
xor(a, b) == (a + b) % 2

(* A history of bits is kept as its parities so far, one per round.        *)
parity_after(history, n) == IF n = 0 THEN 0 ELSE history[n]
parity(history) == parity_after(history, Len(history))
odd(S) == Cardinality(S) % 2

VARIABLES
  rt,            \* [Cells -> runtime record]
  link,          \* link[c][s]: casts of s on their way to c
  announcements, \* announcements[s]: results on their way to the decoder
  requested,     \* requested[s]: steps the decoder has asked s for
  first_quiet,   \* the step named by the cutoff
  certified,     \* syndromes whose decoder has received a quiet result
  updates,       \* updates[d]: corrections the host has sent to d
  asked,         \* the measurements asked for, in order
  replies,       \* replies[d]: pauli_reply messages of d, in order
  errors,        \* history: errors[d][n], parity of the errors of n rounds
  announced      \* history: announced[s][n], parity of the events of n rounds

cells == <<rt, link, announcements, errors, announced, replies>>
vars == <<cells, requested, first_quiet, certified, updates, asked>>

phenom_config == [tag |-> "phenom_config"]
noise_cutoff(step) == [tag |-> "noise_cutoff", first_quiet_step |-> step]
phenom_request(step) == [tag |-> "phenom_request", step |-> step]
pauli_update == [tag |-> "pauli_update", pauli |-> DC!z]
pauli_query(id, measurement) ==
  [tag |-> "pauli_query", request_id |-> id, measurement |-> measurement]

neighbor_at(c) == IF c \in Syndromes THEN data_at[c] ELSE syndrome_at[c]

(* The casts of one phase entry, added to the links of the neighbors; two  *)
(* ports never lead to the same cell.                                      *)
cast(links, c, casts) ==
  [n \in Cells |->
     IF \E p \in Ports : neighbor_at(c)[p] = n
     THEN [links[n] EXCEPT ![c] =
             @ \o casts[CHOOSE p \in Ports : neighbor_at(c)[p] = n]]
     ELSE links[n]]
-----------------------------------------------------------------------------
(* queue_startup/2, then the cutoff of the first command, then activate/1. *)
Init ==
  /\ first_quiet \in 0 .. MaxCutoff
  /\ rt = [c \in Cells |->
       runtime("disconnected", "configuring",
               IF c \in Syndromes THEN SC!syndrome ELSE DC!data_cell)]
  /\ link = [c \in Cells |-> [s \in Senders |->
       IF s = "host" THEN <<phenom_config, noise_cutoff(first_quiet)>>
       ELSE << >>]]
  /\ announcements = [s \in Syndromes |-> << >>]
  /\ requested = [s \in Syndromes |-> 0]
  /\ certified = {}
  /\ updates = [d \in Datas |-> 0]
  /\ asked = << >>
  /\ replies = [d \in Datas |-> << >>]
  /\ errors = [d \in Datas |-> << >>]
  /\ announced = [s \in Syndromes |-> << >>]

all_connected(cs) == \A c \in cs : connected(rt[c])

(* Defect: the syndrome cells are connected in any order.                  *)
connect_any(c) ==
  /\ rt[c].lifecycle = "disconnected"
  /\ link[c]["host"] = << >>
  /\ rt' = [rt EXCEPT ![c].lifecycle = "connected"]
  /\ UNCHANGED <<link, announcements, errors, announced, replies>>

(* connect_actor/1 of every data cell, then of every syndrome cell.  The   *)
(* call follows the casts of the same process, and returns when the cell   *)
(* has nothing more to do; entering configuring casts nothing.             *)
connect(c) ==
  /\ rt[c].lifecycle = "disconnected"
  /\ link[c]["host"] = << >>
  /\ c \in Syndromes => all_connected(Datas)
  /\ rt' = [rt EXCEPT ![c].lifecycle = "connected"]
  /\ UNCHANGED <<link, announcements, errors, announced, replies>>

received(c, s) == [link EXCEPT ![c][s] = Tail(@)]

admit_disconnected(c) ==
  /\ rt[c].lifecycle = "disconnected"
  /\ \E s \in Senders :
       /\ link[c][s] # << >>
       /\ link' = received(c, s)
       /\ rt' = [rt EXCEPT ![c] =
                   IF full(@) THEN stop(@) ELSE enqueue(@, Head(link[c][s]))]
  /\ UNCHANGED <<announcements, errors, announced, replies>>

(* One turn of the scheduler of a cell on message k of r, and what is left *)
(* to do when the callback has concluded.                                  *)
finish_syndrome(c, r, k, links, concl) ==
  LET entry == SC!handle_enter(next_phase(r, concl), concl.data)
      enters == concl.directive # "fail" /\ boundary(r, concl)
      casts == IF enters THEN entry.casts ELSE SC!no_casts
  IN  /\ rt' = [rt EXCEPT ![c] = process_message(r, k, concl, entry.data)]
      /\ link' = cast(links, c, casts)
      /\ announcements' = [announcements EXCEPT ![c] = @ \o casts["phi"]]
      /\ announced' = [announced EXCEPT ![c] =
           IF enters /\ concl.phase = "announcing"
           THEN Append(@, xor(parity(@), concl.data.announcement)) ELSE @]
      /\ UNCHANGED <<errors, replies>>

process_syndrome(c, r, k, links) ==
  \E noise \in Bit :
    finish_syndrome(c, r, k, links,
      SC!handle_cast(r.mailbox[k].message, r.phase, r.data, noise))

finish_data(c, r, k, links, concl) ==
  LET phase == next_phase(r, concl)
      enters == concl.directive # "fail" /\ boundary(r, concl)
      casts == IF enters THEN DC!handle_enter(phase, concl.data)
               ELSE DC!no_casts
  IN  /\ rt' = [rt EXCEPT ![c] = process_message(r, k, concl, concl.data)]
      /\ link' = cast(links, c, casts)
      /\ replies' = [replies EXCEPT ![c] = @ \o casts["measurement"]]
      /\ errors' = [errors EXCEPT ![c] =
           IF enters /\ phase = "reporting"
           THEN Append(@, xor(parity(@), concl.data.event)) ELSE @]
      /\ UNCHANGED <<announcements, announced>>

process_data(c, r, k, links) ==
  \E noise \in Bit :
    finish_data(c, r, k, links,
      DC!handle_cast(r.mailbox[k].message, r.phase, r.data, noise))

process(c, r, k, links) ==
  \/ c \in Syndromes /\ process_syndrome(c, r, k, links)
  \/ c \in Datas /\ process_data(c, r, k, links)

process_messages(c) ==
  /\ connected(rt[c])
  /\ \E k \in eligible(rt[c]) :
       selected(rt[c], k) /\ process(c, rt[c], k, link)

admit_and_process(c) ==
  /\ connected(rt[c])
  /\ quiescent(rt[c])
  /\ \E s \in Senders :
       /\ link[c][s] # << >>
       /\ IF full(rt[c])
          THEN /\ rt' = [rt EXCEPT ![c] = stop(@)]
               /\ link' = received(c, s)
               /\ UNCHANGED <<announcements, errors, announced, replies>>
          ELSE LET r == enqueue(rt[c], Head(link[c][s]))
               IN  process(c, r, Len(r.mailbox), received(c, s))

Cell(c) ==
  /\ \/ connect(c) \/ admit_disconnected(c) \/ process_messages(c)
     \/ admit_and_process(c)
  /\ UNCHANGED <<requested, first_quiet, certified, updates, asked>>
-----------------------------------------------------------------------------
(* The decoder cell of s enters measuring: it asks for its next step, the  *)
(* first time when every noise cell is connected, then when it has         *)
(* received the result of the step before.  It stays in the step MaxStep.  *)
request(s) ==
  IF requested[s] <= MaxStep
  THEN /\ requested' = [requested EXCEPT ![s] = @ + 1]
       /\ link' = [link EXCEPT ![s]["phi"] =
                     Append(@, phenom_request(requested[s]))]
  ELSE UNCHANGED <<requested, link>>

first_measurement(s) ==
  /\ requested[s] = 0
  /\ all_connected(Cells)
  /\ request(s)
  /\ UNCHANGED <<rt, announcements, first_quiet, certified, updates, asked,
                 replies, errors, announced>>

measurement(s) ==
  /\ announcements[s] # << >>
  /\ request(s)
  /\ announcements' = [announcements EXCEPT ![s] = Tail(@)]
  /\ certified' = IF Head(announcements[s]).quiet = 1
                  THEN certified \cup {s} ELSE certified
  /\ UNCHANGED <<rt, first_quiet, updates, asked, replies, errors, announced>>

(* A correction of the decoder, sent on by the host before it asks.        *)
host_update(d) ==
  /\ all_connected(Cells)
  /\ asked = << >>
  /\ SumFunction(updates) < MaxUpdates
  /\ updates' = [updates EXCEPT ![d] = @ + 1]
  /\ link' = [link EXCEPT ![d]["host"] = Append(@, pauli_update)]
  /\ UNCHANGED <<rt, announcements, requested, first_quiet, certified, asked,
                 replies, errors, announced>>

(* deliver_command/2 casts a query to every data cell.                     *)
host_query ==
  /\ certified = Syndromes
  /\ Len(asked) < MaxQueries
  /\ \E measured \in Measurements :
       /\ asked' = Append(asked, measured)
       /\ link' = [c \in Cells |->
            IF c \in Datas
            THEN [link[c] EXCEPT !["host"] =
                    Append(@, pauli_query(Len(asked), measured))]
            ELSE link[c]]
  /\ UNCHANGED <<rt, announcements, requested, first_quiet, certified, updates,
                 replies, errors, announced>>

Next ==
  \/ \E c \in Cells : Cell(c)
  \/ \E s \in Syndromes : first_measurement(s) \/ measurement(s)
  \/ \E d \in Datas : host_update(d)
  \/ host_query

Spec == Init /\ [][Next]_vars
-----------------------------------------------------------------------------
data(c) == rt[c].data

(* Staged activation, one request of credit and a query for each neighbor  *)
(* keep every mailbox within its few slots, and no cutoff, round, update   *)
(* or query ever meets a phase that rejects it: not even a query that      *)
(* arrives in the middle of a round.                                       *)
NoCellStops == \A c \in Cells : rt[c].lifecycle # "stopped"

(* A detection event is the parity of the errors of one and the same round *)
(* at every adjacent data cell and of the measurement errors at its two    *)
(* ends: summed over the rounds, only the last measurement error remains,  *)
(* however far apart the neighbors run.                                    *)
EventsExplainErrors ==
  \A s \in Syndromes :
    LET flipped == {p \in Ports :
          parity_after(errors[data_at[s][p]], Len(announced[s])) = 1}
    IN  parity(announced[s]) = xor(odd(flipped), data(s).previous_measurement)

(* The rounds that a cell has been through: its results or its samples.    *)
rounds(c) == IF c \in Syndromes THEN Len(announced[c]) ELSE Len(errors[c])

(* "Stops new phenomenological noise beginning with first_quiet_step": a   *)
(* cell has disabled its noise exactly if it has been through the round of *)
(* that step, not a round early, which would spare it errors, nor a round  *)
(* late, however far the rounds have run when the cutoff arrives; and from *)
(* that round on no source has an error.                                   *)
CutoffIsPunctual ==
  /\ \A c \in Cells : data(c).noise_disabled = 1 <=> rounds(c) > first_quiet
  /\ \A d \in Datas : \A n \in DOMAIN errors[d] :
       n > first_quiet => errors[d][n] = parity_after(errors[d], n - 1)
  /\ \A s \in Syndromes :
       Len(announced[s]) > first_quiet => data(s).previous_measurement = 0

(* A quiet result is a certificate: once the decoder of s has it, no later *)
(* result of s has an event, so that what s has announced is the parity of *)
(* the errors around it for ever.                                          *)
QuietIsFinal ==
  \A s \in certified :
    /\ \A i \in DOMAIN announcements[s] :
         announcements[s][i].present = 0 /\ announcements[s][i].quiet = 1
    /\ parity(announced[s]) =
         odd({p \in Ports : parity(errors[data_at[s][p]]) = 1})

(* Each query is answered once, in order, against all the errors and all   *)
(* the corrections that were sent before it: an error y flips both parts   *)
(* of the frame, a correction z the one that x measures.                   *)
RepliesMatchFrame ==
  \A d \in Datas :
    /\ Len(replies[d]) <= Len(asked)
    /\ \A n \in DOMAIN replies[d] :
         LET flipped == parity(errors[d])
         IN  /\ replies[d][n].request_id = n - 1
             /\ replies[d][n].anticommutes
                  = (flipped * asked[n].z + (flipped + updates[d]) * asked[n].x)
                      % 2

(* When nothing is under way any more, the noise has been certified to be  *)
(* off at every syndrome and every data cell has answered every query: no  *)
(* cell waits for a credit, a release or a step that nobody will send.     *)
at_rest(c) ==
  connected(rt[c]) /\ quiescent(rt[c]) /\ \A s \in Senders : link[c][s] = << >>

EveryQueryAnswered ==
  /\ \A c \in Cells : at_rest(c)
  /\ \A s \in Syndromes : requested[s] > 0 /\ announcements[s] = << >>
  => /\ certified = Syndromes
     /\ \A d \in Datas : Len(replies[d]) = Len(asked)
=============================================================================
