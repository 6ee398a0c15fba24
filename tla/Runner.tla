------------------------------- MODULE Runner -------------------------------
(***************************************************************************)
(* phi_memory_runner: the gen_server between one fabric and one memory     *)
(* experiment, after a successful init/1.  Its mailbox receives the        *)
(* fabric's event frames, the timer's message, the monitor's message and   *)
(* the calls of await/1, in any order that keeps the fabric's last frame   *)
(* before the message of its exit.  What an event means to the experiment  *)
(* is abstracted: nothing, commands, an error or the witness.              *)
(***************************************************************************)
EXTENDS Naturals, Sequences, SequencesExt

CONSTANTS
  Callers,     \* processes that call await/1
  MaxFrames    \* bound: frames of the fabric

VARIABLES
  result,      \* #state.result: running, or the result of finish/2
  waiters,     \* #state.waiters
  timer,       \* armed, fired or cancelled
  runner,      \* the runner's process: alive or terminated
  fabric,      \* the fabric's process: alive or exited
  inbox,       \* the runner's mailbox
  frames,      \* frames sent so far
  answers      \* answers[c]: the answers of await/1 to c

vars == <<result, waiters, timer, runner, fabric, inbox, frames, answers>>

Init ==
  /\ result = "running" /\ waiters = {} /\ timer = "armed"
  /\ runner = "alive" /\ fabric = "alive"
  /\ inbox = << >> /\ frames = 0
  /\ answers = [c \in Callers |-> << >>]

deliver(message) ==
  inbox' = IF runner = "alive" THEN Append(inbox, message) ELSE inbox

fabric_frame ==
  /\ fabric = "alive" /\ frames < MaxFrames
  /\ frames' = frames + 1
  /\ deliver([tag |-> "frame"])
  /\ UNCHANGED <<result, waiters, timer, runner, fabric, answers>>

fabric_exit ==
  /\ fabric = "alive"
  /\ fabric' = "exited"
  /\ deliver([tag |-> "DOWN"])
  /\ UNCHANGED <<result, waiters, timer, runner, frames, answers>>

timer_expires ==
  /\ timer = "armed"
  /\ timer' = "fired"
  /\ deliver([tag |-> "experiment_timeout"])
  /\ UNCHANGED <<result, waiters, runner, fabric, frames, answers>>

calls(c) == {k \in DOMAIN inbox : inbox[k] = [tag |-> "await", from |-> c]}

reply(to, answer) ==
  answers' = [c \in Callers |->
                IF c \in to THEN Append(answers[c], answer) ELSE answers[c]]

(* A call of a terminated process exits in the caller.                     *)
await(c) ==
  /\ answers[c] = << >> /\ c \notin waiters /\ calls(c) = {}
  /\ deliver([tag |-> "await", from |-> c])
  /\ IF runner = "alive" THEN UNCHANGED answers ELSE reply({c}, "exit")
  /\ UNCHANGED <<result, waiters, timer, runner, fabric, frames>>
-----------------------------------------------------------------------------
cancel_timer == timer' = IF timer = "armed" THEN "cancelled" ELSE timer

(* Defect: the waiters are forgotten.                                      *)
finish_silently(outcome) ==
  /\ result' = outcome
  /\ waiters' = {}
  /\ cancel_timer
  /\ UNCHANGED <<runner, answers>>

finish(outcome) ==
  /\ result' = outcome
  /\ waiters' = {}
  /\ cancel_timer
  /\ reply(waiters, outcome)
  /\ UNCHANGED runner

(* An exception in a callback: terminate/2, and every caller's call exits. *)
crash ==
  /\ runner' = "terminated"
  /\ inbox' = << >>
  /\ waiters' = {}
  /\ cancel_timer
  /\ reply(waiters \cup {c \in Callers : calls(c) # {}}, "exit")
  /\ UNCHANGED result

ignore == UNCHANGED <<result, waiters, timer, runner, answers>>

handle_call(m) ==
  IF result = "running"
  THEN /\ waiters' = waiters \cup {m.from}
       /\ UNCHANGED <<result, timer, runner, answers>>
  ELSE /\ reply({m.from}, result)
       /\ UNCHANGED <<result, waiters, timer, runner>>

(* consume/3 of a frame: send_commands/3 calls the fabric for each command *)
(* of the experiment's result, and the call exits if the fabric has.       *)
handle_cast ==
  IF result # "running" THEN ignore /\ inbox' = Tail(inbox)
  ELSE \/ ignore /\ inbox' = Tail(inbox)
       \/ finish("witness") /\ inbox' = Tail(inbox)
       \/ finish("experiment_error") /\ inbox' = Tail(inbox)
       \/ fabric = "alive" /\ finish("send_error") /\ inbox' = Tail(inbox)
       \/ fabric = "exited" /\ crash

(* Defect: the message of a timer that came too late to be cancelled.      *)
handle_late_timeout == finish("timeout")

handle_timeout == IF result = "running" THEN finish("timeout") ELSE ignore

handle_down == IF result = "running" THEN finish("fabric_down") ELSE ignore

handle_message ==
  /\ runner = "alive" /\ inbox # << >>
  /\ LET m == Head(inbox)
     IN  \/ m.tag = "await" /\ handle_call(m) /\ inbox' = Tail(inbox)
         \/ m.tag = "frame" /\ handle_cast
         \/ /\ m.tag = "experiment_timeout"
            /\ handle_timeout /\ inbox' = Tail(inbox)
         \/ m.tag = "DOWN" /\ handle_down /\ inbox' = Tail(inbox)
  /\ UNCHANGED <<fabric, frames>>

Next ==
  \/ fabric_frame \/ fabric_exit \/ timer_expires
  \/ \E c \in Callers : await(c)
  \/ handle_message

Spec == Init /\ [][Next]_vars

(* The BEAM runs the process while its mailbox holds a message, and its    *)
(* timers expire.                                                          *)
FairSpec == Spec /\ WF_vars(handle_message) /\ WF_vars(timer_expires)
-----------------------------------------------------------------------------
(* Everyone who awaits the result gets one answer and the same one, though *)
(* the timer, the fabric's exit and the witness race: an answer is never   *)
(* superseded.  Only a crash of the runner answers differently.            *)
AnswersAgree ==
  \A c \in Callers :
    /\ Len(answers[c]) <= 1
    /\ answers[c] \in {<< >>, <<result>>, <<"exit">>}
    /\ answers[c] = <<"exit">> => runner = "terminated"
    /\ c \in waiters => answers[c] = << >> /\ result = "running"

(* The timer bounds every wait.                                            *)
EveryCallIsAnswered ==
  \A c \in Callers :
    (c \in waiters \/ calls(c) # {}) ~> answers[c] # << >>

(* "A fabric exit is reported as {error, {fabric_down, Reason}}": the      *)
(* runner itself never ends without a result.                              *)
FabricExitIsReported == runner = "terminated" => result # "running"
=============================================================================
