------------------------------ MODULE PhiMesh ------------------------------
(***************************************************************************)
(* A periodic mesh of phi_halo_cell processes, each scheduled by           *)
(* hls_statem on the BEAM.  Casts between two processes keep their order;  *)
(* casts of different senders reach a process in any order.                *)
(*                                                                         *)
(* The field arithmetic is abstracted: the last diffusion round leaves     *)
(* some layer-zero value in the cell.  So is the coin: each flip is heads  *)
(* or tails.  The paired syndrome cell answers each request once, after    *)
(* any delay and with any detection event.                                 *)
(***************************************************************************)
EXTENDS Statem, FiniteSets

CONSTANTS
  Cells,
  Ports,          \* the mesh output ports: north, east, west, south
  neighbor,       \* [Cells -> [Ports -> Cells]]
  opposite,       \* [Ports -> Ports]: the edge as its other end sees it
  Rounds,         \* DIFFUSION_ROUNDS
  Values,         \* layer-zero field values
  U32             \* number of values of a u32 counter

NeighborCount == Cardinality(Ports)

NoDirection == "none"

(* A periodic mesh of distance three or more: edges have two ends, and the *)
(* ports of a cell lead to different cells, none to itself.  The capacity  *)
(* is that of one early barrier and a message that completes the present.  *)
ASSUME PhiMeshAssumption ==
  /\ IsFiniteSet(Cells) /\ Cells # {} /\ IsFiniteSet(Ports) /\ Ports # {}
  /\ neighbor \in [Cells -> [Ports -> Cells]]
  /\ opposite \in [Ports -> Ports]
  /\ \A c \in Cells, p \in Ports :
       /\ neighbor[neighbor[c][p]][opposite[p]] = c
       /\ neighbor[c][p] # c
       /\ \A q \in Ports \ {p} : neighbor[c][q] # neighbor[c][p]
  /\ NoDirection \notin Ports /\ {"host", "syndrome"} \cap Cells = {}
  /\ Values \subseteq Nat /\ Values # {}
  /\ Rounds \in Nat \ {0} /\ U32 \in Nat \ {0, 1}
  /\ MailboxCapacity > NeighborCount

Senders == Cells \cup {"host", "syndrome"}

VARIABLES
  rt,        \* [Cells -> runtime record]; its data is the #cell{} record
  link,      \* link[c][s]: casts of s on their way to c
  expected   \* history: parity of detection events announced to a cell and
             \* correction edges incident to it

vars == <<rt, link, expected>>

xor(a, b) == (a + b) % 2

(* Messages of phi_protocol.hrl.                                           *)
phi_config == [tag |-> "phi_config"]
phenom_anyon(step, present) ==
  [tag |-> "phenom_anyon", step |-> step, present |-> present]
phi(epoch) == [tag |-> "phi", epoch |-> epoch]
phi0(step, source, value) ==
  [tag |-> "phi0", step |-> step, source |-> source, value |-> value]
anyon_move(step, present) ==
  [tag |-> "anyon_move", step |-> step, present |-> present]

cell ==
  [step |-> 0, diffusion_round |-> 0, phi0 |-> 0, phi_received |-> 0,
   seen_sources |-> {}, best_phi0 |-> 0, best_direction |-> NoDirection,
   moves_received |-> 0, anyon |-> 0]

(* The diffusion epoch, and the one that comes n epochs later.             *)
epoch_of(d, n) == (d.step * Rounds + d.diffusion_round + n) % U32

next_step(d) == (d.step + 1) % U32

(* Defect: a barrier that is complete one message early.                   *)
early_complete(received) == received + 2 = NeighborCount

(* The message that comes after so many of its barrier is the last one.    *)
complete(received) == received + 1 = NeighborCount

conclude(phase, d, directive) ==
  [phase |-> phase, data |-> d, directive |-> directive]
-----------------------------------------------------------------------------
(* handle_cast/3, one operator for each phase.                             *)
configuring(m, d) ==
  CASE m.tag = "phi_config" -> conclude("measuring", d, "consume")
    [] m.tag = "phi" /\ m.epoch = 0 -> conclude("configuring", d, "postpone")
    [] m.tag = "phenom_anyon" /\ m.step = 0 ->
         conclude("configuring", d, "postpone")
    [] OTHER -> conclude("configuring", d, "fail")

measuring(m, d) ==
  CASE m.tag = "phenom_anyon" /\ m.step = d.step ->
         conclude("gathering", [d EXCEPT !.anyon = xor(@, m.present)],
                  "consume")
    [] m.tag = "phi" /\ m.epoch = (d.step * Rounds) % U32 ->
         conclude("measuring", d, "postpone")
    [] OTHER -> conclude("measuring", d, "fail")

(* The fourth phi message of a round: value is what the last relaxation    *)
(* leaves, the only one that is compared.                                  *)
relaxed(d, value) ==
  LET round == d.diffusion_round + 1
      updated == [d EXCEPT !.diffusion_round = round, !.phi_received = 0,
                           !.phi0 = IF round = Rounds THEN value ELSE @]
  IN  IF round # Rounds
      THEN conclude("repeat_phase", updated, "consume")
      ELSE conclude("comparing",
             [updated EXCEPT !.seen_sources = {}, !.best_phi0 = 0,
                             !.best_direction = NoDirection], "consume")

(* Defect: a round takes the messages of the next one as its own.          *)
gathering_any_epoch(m, d, value) ==
  IF m.tag = "phi"
  THEN IF complete(d.phi_received) THEN relaxed(d, value)
       ELSE conclude("gathering", [d EXCEPT !.phi_received = @ + 1],
                     "consume")
  ELSE conclude("gathering", d, IF m.tag = "phi0" THEN "postpone" ELSE "fail")

gathering(m, d, value) ==
  CASE m.tag = "phi" /\ m.epoch = epoch_of(d, 0) ->
         IF complete(d.phi_received)
         THEN relaxed(d, value)
         ELSE conclude("gathering", [d EXCEPT !.phi_received = @ + 1],
                       "consume")
    [] \/ m.tag = "phi" /\ m.epoch = epoch_of(d, 1)
       \/ m.tag \in {"phi0", "anyon_move"} /\ m.step = d.step
       \/ m.tag = "phenom_anyon" /\ m.step = next_step(d) ->
         conclude("gathering", d, "postpone")
    [] OTHER -> conclude("gathering", d, "fail")

(* Defect: the first of two equal fields keeps the direction.              *)
compared_first_wins(m, d) ==
  LET better == d.seen_sources = {} \/ m.value > d.best_phi0
  IN  [d EXCEPT !.seen_sources = @ \cup {m.source},
                !.best_phi0 = IF better THEN m.value ELSE @,
                !.best_direction = IF better THEN m.source ELSE @]

(* The running maximum: a tie has no direction.                            *)
compared(m, d) ==
  LET first == d.seen_sources = {}
      better == first \/ m.value > d.best_phi0
  IN  [d EXCEPT
        !.seen_sources = @ \cup {m.source},
        !.best_phi0 = IF better THEN m.value ELSE @,
        !.best_direction = IF better THEN m.source
                           ELSE IF m.value = d.best_phi0 THEN NoDirection
                           ELSE @]

(* What comparing and flipping both hold back for the next step.           *)
early(m, d) ==
  \/ m.tag = "phi" /\ m.epoch = epoch_of(d, 0)
  \/ m.tag = "phenom_anyon" /\ m.step = next_step(d)

comparing(m, d) ==
  CASE m.tag = "phi0" /\ m.step = d.step /\ m.source \notin d.seen_sources ->
         LET updated == compared(m, d)
         IN  conclude(IF updated.seen_sources = Ports THEN "flipping"
                      ELSE "comparing", updated, "consume")
    [] early(m, d) \/ (m.tag = "anyon_move" /\ m.step = d.step) ->
         conclude("comparing", d, "postpone")
    [] OTHER -> conclude("comparing", d, "fail")

all_moved(d) == complete(d.moves_received)

flipping(m, d) ==
  CASE m.tag = "anyon_move" /\ m.step = d.step ->
         LET joined == [d EXCEPT !.anyon = xor(@, m.present)]
         IN  IF all_moved(d)
             THEN conclude("measuring",
                    [joined EXCEPT !.step = next_step(d),
                                   !.diffusion_round = 0,
                                   !.moves_received = 0], "consume")
             ELSE conclude("flipping",
                    [joined EXCEPT !.moves_received = @ + 1], "consume")
    [] early(m, d) -> conclude("flipping", d, "postpone")
    [] OTHER -> conclude("flipping", d, "fail")

handle_cast(m, phase, d, value) ==
  CASE phase = "configuring" -> configuring(m, d)
    [] phase = "measuring" -> measuring(m, d)
    [] phase = "gathering" -> gathering(m, d, value)
    [] phase = "comparing" -> comparing(m, d)
    [] phase = "flipping" -> flipping(m, d)
-----------------------------------------------------------------------------
(* Casts of cell c, one on each port p, added to the links; two ports of a *)
(* mesh of distance three or more never lead to the same cell.             *)
cast_all(links, c, casts) ==
  [d \in Cells |-> [s \in Senders |->
     IF s = c /\ \E p \in Ports : neighbor[c][p] = d
     THEN Append(links[d][s],
                 casts[CHOOSE p \in Ports : neighbor[c][p] = d])
     ELSE links[d][s]]]

flip(e, cs) == [c \in Cells |-> IF c \in cs THEN xor(e[c], 1) ELSE e[c]]

(* handle_enter/3, one operator for each phase that casts: r is the        *)
(* runtime that concluded concl for its message k.                         *)
enter_measuring(c, r, k, concl, links) ==
  \E present \in {0, 1} :
    /\ rt' = [rt EXCEPT ![c] = process_message(r, k, concl, concl.data)]
    /\ link' = [links EXCEPT ![c]["syndrome"] =
                  Append(@, phenom_anyon(concl.data.step, present))]
    /\ expected' = IF present = 1 THEN flip(expected, {c}) ELSE expected

enter_gathering(c, r, k, concl, links) ==
  /\ rt' = [rt EXCEPT ![c] = process_message(r, k, concl, concl.data)]
  /\ link' = cast_all(links, c, [p \in Ports |-> phi(epoch_of(concl.data, 0))])
  /\ UNCHANGED expected

enter_comparing(c, r, k, concl, links) ==
  /\ rt' = [rt EXCEPT ![c] = process_message(r, k, concl, concl.data)]
  /\ link' = cast_all(links, c, [p \in Ports |->
                phi0(concl.data.step, opposite[p], concl.data.phi0)])
  /\ UNCHANGED expected

(* Defect: a copy of the anyon stays behind.                               *)
stays(d, move) == d

departed(d, move) == IF move THEN [d EXCEPT !.anyon = xor(@, 1)] ELSE d

(* A move toggles the local anyon, tells the chosen neighbor and emits the *)
(* correction of the edge between them.                                    *)
enter_flipping(c, r, k, concl, links) ==
  \E heads \in BOOLEAN :
    LET d == concl.data
        move == d.anyon = 1 /\ d.best_direction # NoDirection /\ heads
        present(p) == IF move /\ p = d.best_direction THEN 1 ELSE 0
    IN  /\ rt' = [rt EXCEPT ![c] = process_message(r, k, concl,
                                                    departed(d, move))]
        /\ link' = cast_all(links, c,
                      [p \in Ports |-> anyon_move(d.step, present(p))])
        /\ expected' =
             IF move THEN flip(expected, {c, neighbor[c][d.best_direction]})
             ELSE expected

(* One turn of the scheduler of c on message k of r; links is what is      *)
(* underway when the turn starts.                                          *)
process(c, r, k, links) ==
  \E value \in Values :
    LET concl == handle_cast(r.mailbox[k].message, r.phase, r.data, value)
        phase == next_phase(r, concl)
    IN  IF concl.directive = "fail" \/ ~boundary(r, concl)
        THEN /\ rt' = [rt EXCEPT ![c] =
                         process_message(r, k, concl, concl.data)]
             /\ link' = links
             /\ UNCHANGED expected
        ELSE \/ phase = "measuring" /\ enter_measuring(c, r, k, concl, links)
             \/ phase = "gathering" /\ enter_gathering(c, r, k, concl, links)
             \/ phase = "comparing" /\ enter_comparing(c, r, k, concl, links)
             \/ phase = "flipping" /\ enter_flipping(c, r, k, concl, links)
-----------------------------------------------------------------------------
(* queue_startup/2 has cast each configuration before any cell is          *)
(* connected.                                                              *)
Init ==
  /\ rt = [c \in Cells |-> runtime("disconnected", "configuring", cell)]
  /\ link = [c \in Cells |-> [s \in Senders |->
               IF s = "host" THEN <<phi_config>> ELSE << >>]]
  /\ expected = [c \in Cells |-> 0]

(* Entering configuring casts nothing.                                     *)
connect(c) ==
  /\ rt[c].lifecycle = "disconnected"
  /\ rt' = [rt EXCEPT ![c].lifecycle = "connected"]
  /\ UNCHANGED <<link, expected>>

received(c, s) == [link EXCEPT ![c][s] = Tail(@)]

admit_disconnected(c) ==
  /\ rt[c].lifecycle = "disconnected"
  /\ \E s \in Senders :
       /\ link[c][s] # << >>
       /\ link' = received(c, s)
       /\ rt' = [rt EXCEPT ![c] =
                   IF full(@) THEN stop(@) ELSE enqueue(@, Head(link[c][s]))]
  /\ UNCHANGED expected

process_messages(c) ==
  /\ connected(rt[c])
  /\ \E k \in eligible(rt[c]) :
       selected(rt[c], k) /\ process(c, rt[c], k, link)

admit_and_process(c) ==
  /\ connected(rt[c])
  /\ quiescent(rt[c])
  /\ \E s \in Senders :
       /\ link[c][s] # << >>
       /\ IF full(rt[c])
          THEN /\ rt' = [rt EXCEPT ![c] = stop(@)]
               /\ link' = received(c, s)
               /\ UNCHANGED expected
          ELSE LET r == enqueue(rt[c], Head(link[c][s]))
               IN  process(c, r, Len(r.mailbox), received(c, s))

Cell(c) ==
  connect(c) \/ admit_disconnected(c) \/ process_messages(c)
    \/ admit_and_process(c)

Next == \E c \in Cells : Cell(c)

Spec == Init /\ [][Next]_vars
-----------------------------------------------------------------------------
(* Messages of a set on the links to a cell, and in its mailbox.           *)
underway(links, messages) ==
  UNION {{s} \X {i \in DOMAIN links[s] : links[s][i] \in messages} :
           s \in Senders}
kept(mailbox, messages) ==
  {k \in DOMAIN mailbox : mailbox[k].message \in messages}

(* How many of them the cell has not consumed yet.                         *)
unconsumed(links, mailbox, messages) ==
  Cardinality(underway(links, messages)) + Cardinality(kept(mailbox, messages))

unconsumed_by(c, messages) == unconsumed(link[c], rt[c].mailbox, messages)

(* "Direct-neighbor causality": with room for one complete early barrier   *)
(* and the message that completes the current one, no cell is ever         *)
(* overrun, and none meets a message its phase rejects.                    *)
NoCellStops == \A c \in Cells : rt[c].lifecycle # "stopped"

(* The anyon of a cell, with those on their way to it, is explained by the *)
(* detection events announced to it and the corrections emitted for the    *)
(* edges it is on: no move is lost, doubled or left without a correction.  *)
anyons == UNION {{phenom_anyon(s, 1), anyon_move(s, 1)} : s \in 0 .. U32 - 1}

CorrectionsExplainAnyons ==
  \A c \in Cells :
    rt[c].lifecycle = "connected" =>
      (rt[c].data.anyon + unconsumed_by(c, anyons)) % 2 = expected[c]

(* A flip goes to the one neighbor whose field is the greatest, in the     *)
(* same step and whatever order the fields came in; a tie has no winner.   *)
ComparisonAgrees ==
  \A c \in Cells :
    rt[c].phase = "flipping" =>
      LET value(p) == rt[neighbor[c][p]].data.phi0
          wins(p) == \A q \in Ports \ {p} : value(p) > value(q)
      IN  IF \E p \in Ports : wins(p)
          THEN wins(rt[c].data.best_direction)
          ELSE rt[c].data.best_direction = NoDirection

(* Exchanges with the neighbors that a cell has entered; a measurement is  *)
(* not one of them.                                                        *)
exchanges == Rounds + 2
entered(c) ==
  LET d == rt[c].data
  IN  d.step * exchanges +
        CASE rt[c].phase \in {"configuring", "measuring"} -> 0
          [] rt[c].phase = "gathering" -> 1 + d.diffusion_round
          [] rt[c].phase = "comparing" -> 1 + Rounds
          [] rt[c].phase = "flipping" -> 2 + Rounds

(* A fast cell is never more than one exchange ahead of a neighbor: it     *)
(* waits for what only that neighbor can send.                             *)
NeighborsInLockstep ==
  \A c \in Cells, p \in Ports :
    (entered(neighbor[c][p]) - entered(c)) % (U32 * exchanges)
      \in {0, 1, U32 * exchanges - 1}

(* A diffusion round sums one field of each neighbor, and of that round    *)
(* only: of the neighbors that have entered it, each one's message is      *)
(* either counted or still to come.                                        *)
EveryFieldCountedOnce ==
  \A c \in Cells :
    rt[c].phase = "gathering" =>
      LET mine == {phi(epoch_of(rt[c].data, 0))}
          entering == {p \in Ports :
            (entered(neighbor[c][p]) - entered(c)) % (U32 * exchanges)
              \in {0, 1}}
      IN  rt[c].data.phi_received + unconsumed_by(c, mine)
            = Cardinality(entering)

(* The cells never all wait for each other: in every state some cell has   *)
(* a message to handle.  A turn consumes it, or postpones it until its     *)
(* cell's next phase, and NeighborsInLockstep bounds how far one may get   *)
(* ahead of the others, so the whole mesh goes on.                         *)
SomeCellGoesOn ==
  \E c \in Cells :
    \/ rt[c].lifecycle = "disconnected"
    \/ eligible(rt[c]) # {}
    \/ \E s \in Senders : link[c][s] # << >>
=============================================================================
