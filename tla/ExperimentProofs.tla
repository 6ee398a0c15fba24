-------------------------- MODULE ExperimentProofs --------------------------
(***************************************************************************)
(* The memory experiment: the answers of its runner agree, and the witness *)
(* that its reducer closes with is complete, for any callers, geometry,    *)
(* cutoff and order of events.                                             *)
(***************************************************************************)
EXTENDS Runner, Closeout, FiniteSetTheorems, TLAPS

Outcomes ==
  {"witness", "experiment_error", "send_error", "timeout", "fabric_down"}

Calls == [tag : {"await"}, from : Callers]

Messages == Calls \cup [tag : {"frame", "DOWN", "experiment_timeout"}]

(* Types of the runner's state, its mailbox and the answers.               *)
TypeOK ==
  /\ result \in Outcomes \cup {"running"}
  /\ waiters \subseteq Callers
  /\ runner \in {"alive", "terminated"}
  /\ inbox \in Seq(Messages)
  /\ answers \in [Callers -> Seq(Outcomes \cup {"exit"})]

(* A caller waits in one place: its call is in the mailbox once, or it is  *)
(* a waiter, or it has its answer.                                         *)
WaitsInOnePlace ==
  \A c \in Callers :
    /\ \A j, k \in calls(c) : j = k
    /\ calls(c) # {} => c \notin waiters /\ answers[c] = << >>

(* An answer is given once: the result when there is one, "exit" when the  *)
(* runner has ended.                                                       *)
AnsweredOnce ==
  \A c \in Callers :
    /\ \/ answers[c] = << >>
       \/ answers[c] = <<result>> /\ result # "running"
       \/ answers[c] = <<"exit">> /\ runner = "terminated"
    /\ c \in waiters => answers[c] = << >> /\ result = "running"

EndsEmpty == runner = "terminated" => inbox = << >> /\ waiters = {}

IndInv == TypeOK /\ WaitsInOnePlace /\ AnsweredOnce /\ EndsEmpty
-----------------------------------------------------------------------------
(* Initially nobody has called.                                            *)
LEMMA InitInv == Init => IndInv
BY DEF Init, IndInv, TypeOK, WaitsInOnePlace, AnsweredOnce, EndsEmpty, calls,
       Outcomes

(* A message that is not a call does not concern a caller.                 *)
LEMMA DeliverOther ==
  ASSUME IndInv, NEW tag \in {"frame", "DOWN", "experiment_timeout"},
         deliver([tag |-> tag]),
         UNCHANGED <<result, waiters, runner, answers>>
  PROVE  IndInv'
<1> DEFINE m == [tag |-> tag]
<1>1. m \in Messages
  BY DEF Messages
<1>2. TypeOK'
  BY <1>1 DEF IndInv, TypeOK, deliver
<1>3. \A c \in Callers : calls(c)' = calls(c)
  <2> TAKE c \in Callers
  <2>1. m # [tag |-> "await", from |-> c]
    <3>1. m.tag # "await"
      OBVIOUS
    <3>2. [tag |-> "await", from |-> c].tag = "await"
      OBVIOUS
    <3> HIDE DEF m
    <3>3. QED
      BY <3>1, <3>2
  <2>2. CASE runner = "alive"
    <3> HIDE DEF m
    <3>1. inbox \in Seq(Messages) /\ inbox' = Append(inbox, m)
      BY <2>2 DEF deliver, IndInv, TypeOK, m
    <3>2. DOMAIN inbox' = 1 .. Len(inbox) + 1 /\ DOMAIN inbox = 1 .. Len(inbox)
          /\ Len(inbox) \in Nat /\ inbox'[Len(inbox) + 1] = m
          /\ \A k \in 1 .. Len(inbox) : inbox'[k] = inbox[k]
      BY <1>1, <3>1 DEF m
    <3>3. QED
      BY <2>1, <3>2 DEF calls
  <2>3. CASE runner # "alive"
    BY <2>3 DEF deliver, calls
  <2>4. QED
    BY <2>2, <2>3
<1>4. WaitsInOnePlace' /\ AnsweredOnce'
  BY <1>3 DEF IndInv, WaitsInOnePlace, AnsweredOnce
<1>5. EndsEmpty'
  BY DEF IndInv, EndsEmpty, deliver
<1>6. QED
  BY <1>2, <1>4, <1>5 DEF IndInv

(* A call joins the mailbox of a caller that waits nowhere, or fails.      *)
LEMMA AwaitInv ==
  ASSUME IndInv, NEW c \in Callers, await(c)
  PROVE  IndInv'
<1> DEFINE m == [tag |-> "await", from |-> c]
<1>1. m \in Messages
  BY DEF Messages, Calls
<1>2. /\ answers[c] = << >> /\ c \notin waiters /\ calls(c) = {}
      /\ deliver(m)
      /\ UNCHANGED <<result, waiters, timer, runner, fabric, frames>>
  BY DEF await
<1>3. CASE runner = "alive"
  <2>1. UNCHANGED answers /\ inbox' = Append(inbox, m)
    BY <1>3 DEF await, deliver
  <2>2. inbox \in Seq(Messages)
    BY DEF IndInv, TypeOK
  <2> HIDE DEF m
  <2>3. /\ DOMAIN inbox' = 1 .. Len(inbox) + 1 /\ DOMAIN inbox = 1 .. Len(inbox)
        /\ Len(inbox) \in Nat /\ inbox'[Len(inbox) + 1] = m
        /\ \A k \in 1 .. Len(inbox) : inbox'[k] = inbox[k]
        /\ inbox' \in Seq(Messages)
    BY <1>1, <2>1, <2>2
  <2>4. calls(c)' = {Len(inbox) + 1}
    BY <1>2, <2>3 DEF calls, m
  <2>5. ASSUME NEW d \in Callers, d # c PROVE calls(d)' = calls(d)
    <3>1. m # [tag |-> "await", from |-> d]
      BY <2>5 DEF m
    <3>2. QED
      BY <2>3, <3>1 DEF calls
  <2>6. WaitsInOnePlace'
    BY <1>2, <2>1, <2>4, <2>5 DEF IndInv, WaitsInOnePlace
  <2>7. QED
    BY <1>2, <1>3, <2>1, <2>3, <2>6 DEF IndInv, TypeOK, AnsweredOnce, EndsEmpty
<1>4. CASE runner # "alive"
  <2>1. /\ UNCHANGED inbox
        /\ answers' = [d \in Callers |-> IF d \in {c}
                         THEN Append(answers[d], "exit") ELSE answers[d]]
    BY <1>4 DEF await, deliver, reply
  <2>2. /\ answers' \in [Callers -> Seq(Outcomes \cup {"exit"})]
        /\ answers'[c] = <<"exit">>
        /\ \A d \in Callers \ {c} : answers'[d] = answers[d]
    BY <1>2, <2>1 DEF IndInv, TypeOK
  <2>3. \A d \in Callers : calls(d)' = calls(d)
    BY <2>1 DEF calls
  <2>4. runner = "terminated"
    BY <1>4 DEF IndInv, TypeOK
  <2>5. WaitsInOnePlace'
    BY <1>2, <2>2, <2>3 DEF IndInv, WaitsInOnePlace
  <2>6. AnsweredOnce'
    BY <1>2, <2>2, <2>4 DEF IndInv, AnsweredOnce
  <2>7. QED
    BY <1>2, <2>1, <2>2, <2>5, <2>6 DEF IndInv, TypeOK, EndsEmpty
<1>5. QED
  BY <1>3, <1>4

(* The first message leaves the mailbox, and with it its caller's call.    *)
LEMMA TakesFirst ==
  ASSUME IndInv, inbox # << >>, inbox' = Tail(inbox)
  PROVE  /\ Head(inbox) \in Messages
         /\ inbox' \in Seq(Messages)
         /\ \A c \in Callers :
              /\ \A j, k \in calls(c)' : j = k
              /\ calls(c)' # {} => calls(c) # {}
              /\ Head(inbox) = [tag |-> "await", from |-> c] =>
                   calls(c) # {} /\ calls(c)' = {}
<1>1. inbox \in Seq(Messages)
  BY DEF IndInv, TypeOK
<1>2. /\ Len(inbox) \in Nat \ {0}
      /\ DOMAIN inbox = 1 .. Len(inbox)
      /\ DOMAIN inbox' = 1 .. Len(inbox) - 1
      /\ \A k \in 1 .. Len(inbox) - 1 : inbox'[k] = inbox[k + 1]
      /\ Head(inbox) = inbox[1]
      /\ Head(inbox) \in Messages /\ inbox' \in Seq(Messages)
  BY <1>1
<1>3. ASSUME NEW c \in Callers
      PROVE  /\ \A k \in calls(c)' : k \in Nat \ {0} /\ k + 1 \in calls(c)
             /\ inbox[1] = [tag |-> "await", from |-> c] => 1 \in calls(c)
  BY <1>2 DEF calls
<1>4. ASSUME NEW c \in Callers
      PROVE  \A j, k \in calls(c) : j = k
  BY DEF IndInv, WaitsInOnePlace
<1>5. ASSUME NEW c \in Callers
      PROVE  /\ \A j, k \in calls(c)' : j = k
             /\ calls(c)' # {} => calls(c) # {}
             /\ inbox[1] = [tag |-> "await", from |-> c] =>
                  calls(c) # {} /\ calls(c)' = {}
  <2>1. ASSUME NEW j \in calls(c)', NEW k \in calls(c)' PROVE j = k
    <3>1. /\ j \in Nat /\ k \in Nat
          /\ j + 1 \in calls(c) /\ k + 1 \in calls(c)
      BY <1>3, <2>1
    <3>2. j + 1 = k + 1
      BY <1>4, <3>1
    <3>3. QED
      BY <3>1, <3>2
  <2>2. ASSUME NEW k \in calls(c)', 1 \in calls(c) PROVE FALSE
    <3>1. k \in Nat \ {0} /\ k + 1 \in calls(c)
      BY <1>3, <2>2
    <3>2. k + 1 = 1
      BY <1>4, <2>2, <3>1
    <3>3. QED
      BY <3>1, <3>2
  <2>3. QED
    BY <1>3, <2>1, <2>2
<1>6. QED
  BY <1>2, <1>5

(* A result is reported to every waiter at once, and to nobody else.       *)
LEMMA FinishInv ==
  ASSUME IndInv, inbox # << >>, inbox' = Tail(inbox), result = "running",
         runner = "alive", NEW outcome \in Outcomes, finish(outcome)
  PROVE  IndInv'
<1>1. /\ result' = outcome /\ waiters' = {} /\ UNCHANGED runner
      /\ answers' = [c \in Callers |-> IF c \in waiters
                       THEN Append(answers[c], outcome) ELSE answers[c]]
  BY DEF finish, reply
<1>2. \A c \in Callers :
        /\ c \in waiters => answers'[c] = <<outcome>>
        /\ c \notin waiters => answers'[c] = answers[c]
  <2>1. \A c \in Callers : c \in waiters => answers[c] = << >>
    BY DEF IndInv, AnsweredOnce
  <2>2. Append(<< >>, outcome) = <<outcome>>
    OBVIOUS
  <2>3. QED
    BY <1>1, <2>1, <2>2
<1>3. TypeOK'
  BY <1>1, TakesFirst DEF IndInv, TypeOK
<1>4. WaitsInOnePlace'
  BY <1>1, <1>2, TakesFirst DEF IndInv, WaitsInOnePlace
<1>5. outcome # "running"
  BY DEF Outcomes
<1>6. AnsweredOnce'
  BY <1>1, <1>2, <1>5 DEF IndInv, AnsweredOnce
<1>7. QED
  BY <1>1, <1>3, <1>4, <1>6 DEF IndInv, EndsEmpty

(* A message without effect leaves everyone where they wait.               *)
LEMMA IgnoreInv ==
  ASSUME IndInv, inbox # << >>, inbox' = Tail(inbox), runner = "alive", ignore
  PROVE  IndInv'
<1>1. UNCHANGED <<result, waiters, runner, answers>>
  BY DEF ignore
<1>2. TypeOK'
  BY <1>1, TakesFirst DEF IndInv, TypeOK
<1>3. WaitsInOnePlace'
  BY <1>1, TakesFirst DEF IndInv, WaitsInOnePlace
<1>4. QED
  BY <1>1, <1>2, <1>3 DEF IndInv, AnsweredOnce, EndsEmpty

(* A call waits for the result, or is answered with it at once.            *)
LEMMA HandleCallInv ==
  ASSUME IndInv, inbox # << >>, inbox' = Tail(inbox), runner = "alive",
         NEW c \in Callers, Head(inbox) = [tag |-> "await", from |-> c],
         handle_call(Head(inbox)), UNCHANGED runner
  PROVE  IndInv'
<1>1. Head(inbox).from = c
  OBVIOUS
<1>2. /\ answers[c] = << >> /\ c \notin waiters /\ calls(c)' = {}
      /\ \A d \in Callers : calls(d)' # {} => calls(d) # {}
  BY TakesFirst DEF IndInv, WaitsInOnePlace
<1>3. CASE result = "running"
  <2>1. waiters' = waiters \cup {c} /\ UNCHANGED <<result, answers>>
    BY <1>1, <1>3 DEF handle_call
  <2>2. TypeOK'
    BY <2>1, TakesFirst DEF IndInv, TypeOK
  <2>3. WaitsInOnePlace'
    BY <1>2, <2>1, TakesFirst DEF IndInv, WaitsInOnePlace
  <2>4. AnsweredOnce'
    BY <1>2, <1>3, <2>1 DEF IndInv, AnsweredOnce
  <2>5. QED
    BY <2>2, <2>3, <2>4 DEF IndInv, EndsEmpty
<1>4. CASE result # "running"
  <2>1. /\ UNCHANGED <<result, waiters>>
        /\ answers' = [d \in Callers |-> IF d \in {c}
                         THEN Append(answers[d], result) ELSE answers[d]]
    BY <1>1, <1>4 DEF handle_call, reply
  <2>2. result \in Outcomes
    BY <1>4 DEF IndInv, TypeOK
  <2>3. /\ answers' \in [Callers -> Seq(Outcomes \cup {"exit"})]
        /\ answers'[c] = <<result>>
        /\ \A d \in Callers \ {c} : answers'[d] = answers[d]
    BY <1>2, <2>1, <2>2 DEF IndInv, TypeOK
  <2>4. TypeOK'
    BY <2>1, <2>3, TakesFirst DEF IndInv, TypeOK
  <2>5. WaitsInOnePlace'
    BY <1>2, <2>1, <2>3, TakesFirst DEF IndInv, WaitsInOnePlace
  <2>6. AnsweredOnce'
    BY <1>2, <1>4, <2>1, <2>3 DEF IndInv, AnsweredOnce
  <2>7. QED
    BY <2>4, <2>5, <2>6 DEF IndInv, EndsEmpty
<1>5. QED
  BY <1>3, <1>4

(* A crash ends every wait, and only the waits.                            *)
LEMMA CrashInv ==
  ASSUME IndInv, crash
  PROVE  IndInv'
<1>1. /\ runner' = "terminated" /\ inbox' = << >> /\ waiters' = {}
      /\ UNCHANGED result
      /\ answers' = [c \in Callers |->
           IF c \in waiters \cup {d \in Callers : calls(d) # {}}
           THEN Append(answers[c], "exit") ELSE answers[c]]
  BY DEF crash, reply
<1>2. \A c \in Callers :
        \/ answers'[c] = answers[c]
        \/ answers'[c] = <<"exit">>
  <2>1. \A c \in Callers : c \in waiters \/ calls(c) # {} => answers[c] = << >>
    BY DEF IndInv, AnsweredOnce, WaitsInOnePlace
  <2>2. Append(<< >>, "exit") = <<"exit">>
    OBVIOUS
  <2>3. QED
    BY <1>1, <2>1, <2>2
<1>3. \A c \in Callers : calls(c)' = {}
  BY <1>1 DEF calls
<1>4. TypeOK'
  BY <1>1 DEF IndInv, TypeOK
<1>5. WaitsInOnePlace'
  BY <1>3 DEF WaitsInOnePlace
<1>6. AnsweredOnce'
  BY <1>1, <1>2 DEF IndInv, AnsweredOnce
<1>7. QED
  BY <1>1, <1>4, <1>5, <1>6 DEF IndInv, EndsEmpty
-----------------------------------------------------------------------------
(* The state keeps its types, and a caller waits in one place or has one   *)
(* answer, in every reachable state.                                       *)
THEOREM RunnerInvariant == Spec => []IndInv
<1>1. ASSUME IndInv, handle_message PROVE IndInv'
  <2> DEFINE m == Head(inbox)
  <2>1. runner = "alive" /\ inbox # << >> /\ m \in Messages
    <3>1. runner = "alive" /\ inbox # << >>
      BY <1>1 DEF handle_message
    <3>2. QED
      BY <1>1, <3>1 DEF IndInv, TypeOK
  <2>2. CASE m.tag = "await" /\ handle_call(m) /\ inbox' = Tail(inbox)
    <3>1. m \in Calls
      BY <2>1, <2>2 DEF Messages
    <3>2. PICK c \in Callers : m = [tag |-> "await", from |-> c]
      BY <3>1 DEF Calls
    <3>3. UNCHANGED runner
      BY <2>2 DEF handle_call, reply
    <3>4. QED
      BY <1>1, <2>1, <2>2, <3>2, <3>3, HandleCallInv
  <2>3. CASE m.tag = "frame" /\ handle_cast
    BY <1>1, <2>1, <2>3, CrashInv, IgnoreInv, FinishInv
    DEF handle_cast, Outcomes
  <2>4. CASE m.tag = "experiment_timeout" /\ handle_timeout
             /\ inbox' = Tail(inbox)
    BY <1>1, <2>1, <2>4, IgnoreInv, FinishInv DEF handle_timeout, Outcomes
  <2>5. CASE m.tag = "DOWN" /\ handle_down /\ inbox' = Tail(inbox)
    BY <1>1, <2>1, <2>5, IgnoreInv, FinishInv DEF handle_down, Outcomes
  <2>6. QED
    BY <1>1, <2>2, <2>3, <2>4, <2>5 DEF handle_message
<1>2. IndInv /\ [Next]_vars => IndInv'
  <2> SUFFICES ASSUME IndInv, [Next]_vars PROVE IndInv'
    OBVIOUS
  <2>1. CASE fabric_frame
    BY <2>1, DeliverOther DEF fabric_frame
  <2>2. CASE fabric_exit
    BY <2>2, DeliverOther DEF fabric_exit
  <2>3. CASE timer_expires
    BY <2>3, DeliverOther DEF timer_expires
  <2>4. ASSUME NEW c \in Callers, await(c) PROVE IndInv'
    BY <2>4, AwaitInv
  <2>5. CASE handle_message
    BY <1>1, <2>5
  <2>6. CASE UNCHANGED vars
    BY <2>6 DEF vars, IndInv, TypeOK, WaitsInOnePlace, AnsweredOnce, EndsEmpty,
                calls
  <2>7. QED
    BY <2>1, <2>2, <2>3, <2>4, <2>5, <2>6 DEF Next
<1>3. QED
  BY InitInv, <1>2, PTL DEF Spec

(* Whatever the timer, the fabric, the witness and the callers do first,   *)
(* every caller gets at most one answer and all get the same.              *)
THEOREM AnswersAlwaysAgree == Spec => []AnswersAgree
<1>1. IndInv => AnswersAgree
  <2> SUFFICES ASSUME IndInv, NEW c \in Callers
               PROVE  /\ Len(answers[c]) <= 1
                      /\ answers[c] \in {<< >>, <<result>>, <<"exit">>}
                      /\ answers[c] = <<"exit">> => runner = "terminated"
                      /\ c \in waiters => answers[c] = << >> /\ result = "running"
    BY DEF AnswersAgree
  <2>1. /\ \/ answers[c] = << >>
           \/ answers[c] = <<result>> /\ result # "running"
           \/ answers[c] = <<"exit">> /\ runner = "terminated"
        /\ c \in waiters => answers[c] = << >> /\ result = "running"
    BY DEF IndInv, AnsweredOnce
  <2>2. result # "exit"
    BY DEF IndInv, TypeOK, Outcomes
  <2>3. <<result>>[1] = result /\ <<"exit">>[1] = "exit"
        /\ Len(<<result>>) = 1 /\ Len(<<"exit">>) = 1 /\ Len(<< >>) = 0
    OBVIOUS
  <2>4. << >> # <<"exit">> /\ <<result>> # <<"exit">>
    BY <2>2, <2>3
  <2>5. Len(answers[c]) <= 1
    <3> DEFINE length == Len(answers[c])
    <3>1. length = 0 \/ length = 1
      BY <2>1, <2>3
    <3> HIDE DEF length
    <3>2. length <= 1
      BY <3>1
    <3>3. QED
      BY <3>2 DEF length
  <2>6. QED
    BY <2>1, <2>4, <2>5
<1>2. QED
  BY RunnerInvariant, <1>1, PTL

-----------------------------------------------------------------------------
(* The inductive invariant of the closeout.                                *)

Corrections == Planes \X Nat \X Coordinates \X Directions

Rounds ==
  [plane : Planes, step : Nat, at : Coordinates, present : Bit, quiet : Bit]

(* A state with all the fields of the reducer's.                           *)
Fields(r) ==
  r = [phase |-> r.phase, cutoff_step |-> r.cutoff_step,
       status_rounds |-> r.status_rounds, closed_steps |-> r.closed_steps,
       zero_steps |-> r.zero_steps, seen_corrections |-> r.seen_corrections,
       correction_log |-> r.correction_log, replies |-> r.replies,
       closeout_step |-> r.closeout_step]

(* The values of the fields.                                               *)
IsExperiment(e) ==
  /\ Fields(e)
  /\ e.phase \in {"draining", "querying", "done"}
  /\ e.cutoff_step \in 0 .. MaxCutoff
  /\ e.status_rounds \subseteq Rounds
  /\ e.closed_steps \in [Planes -> Nat \cup {NotClosed}]
  /\ e.zero_steps \in [Planes -> SUBSET Nat]
  /\ e.correction_log \in Seq(Corrections)

Updates(d) == {pauli_update(d, x), pauli_update(d, z)}

(* The events of a decoder cell.                                           *)
Moves(c) ==
  [tag : {"phi_correction"}, step : Nat, at : {c}, direction : Directions]
Reports(c) ==
  [tag : {"phi_status"}, step : Nat, at : {c}, present : Bit, quiet : Bit]

CloseoutTypes ==
  /\ IsExperiment(experiment)
  /\ plane_step \in [Planes -> Nat]
  /\ anyon \in [Planes -> [Coordinates -> Bit]]
  /\ out = [plane \in Planes |-> [c \in Coordinates |-> out[plane][c]]]
  /\ \A plane \in Planes, c \in Coordinates :
       out[plane][c] \in Seq(Moves(c) \cup Reports(c))
  /\ commands = [d \in Datas |-> commands[d]]
  /\ \A d \in Datas : commands[d] \in Seq(Updates(d) \cup {pauli_query})
  /\ frame \in [Datas -> Paulis]
  /\ replies \in [Datas -> Seq(Bit)]
  /\ emitted \subseteq Corrections

(* The corrections of the log, each of them once.                          *)
logged == {experiment.correction_log[n] : n \in DOMAIN experiment.correction_log}

Logs ==
  /\ IsFiniteSet(logged)
  /\ Len(experiment.correction_log) = Cardinality(logged)
  /\ logged \subseteq emitted
  /\ \A m \in emitted : m[2] < plane_step[m[1]]

is_status(m, n) == m.tag = "phi_status" /\ m.step = n

(* The step of which a cell's next event is.                               *)
reached(plane, c) ==
  IF out[plane][c] = << >> THEN plane_step[plane] ELSE out[plane][c][1].step

(* What a cell has emitted comes in order, and of each step its status.    *)
InOrder(plane, c) ==
  LET q == out[plane][c]
  IN  /\ \A k \in DOMAIN q : q[k].step < plane_step[plane]
      /\ \A j, k \in DOMAIN q :
           j < k => \/ q[j].step < q[k].step
                    \/ /\ q[j].step = q[k].step
                       /\ q[j].tag = "phi_correction" /\ q[k].tag = "phi_status"
      /\ \A n \in Nat : n >= reached(plane, c) /\ n < plane_step[plane] =>
           \E k \in DOMAIN q : is_status(q[k], n)
      /\ \A k \in DOMAIN q :
           q[k].tag = "phi_correction" =>
             <<plane, q[k].step, c, q[k].direction>> \in emitted

quiet_from(n) == IF n >= first_quiet THEN 1 ELSE 0

(* The reducer has of each open step the statuses that it has received,    *)
(* and in its log the corrections.                                         *)
Hears(plane, c) ==
  /\ experiment.closed_steps[plane] < reached(plane, c)
  /\ \A n \in Nat :
       (\E r \in round(plane, n, experiment) : r.at = c)
         <=> experiment.closed_steps[plane] < n /\ n < reached(plane, c)
  /\ \A n \in Nat :
       <<plane, n, c>> \in experiment.seen_corrections =>
         \E direction \in Directions : <<plane, n, c, direction>> \in logged
  /\ \A k \in DOMAIN out[plane][c] :
       out[plane][c][k].tag = "phi_correction" =>
         \A direction \in Directions :
           <<plane, out[plane][c][k].step, c, direction>> \notin logged

Closing(plane) ==
  /\ \E c \in Coordinates :
       reached(plane, c) = experiment.closed_steps[plane] + 1
  /\ \A m \in emitted : m[1] = plane =>
       m \in logged \/ \E k \in DOMAIN out[plane][m[3]] :
                         out[plane][m[3]][k] = phi_correction(m[2], m[3], m[4])

(* No anyon is left after step n, and no correction comes later.           *)
Emptied(plane, n) ==
  /\ \A c \in Coordinates : anyon[plane][c] = 0
  /\ \A m \in emitted : m[1] = plane => m[2] <= n

(* A status shows that it was not.                                         *)
Shows(plane, n) ==
  \/ \E c \in Coordinates : \E k \in DOMAIN out[plane][c] :
       is_status(out[plane][c][k], n) /\ out[plane][c][k].present = 1
  \/ \E r \in round(plane, n, experiment) : r.present = 1

Empties(plane) ==
  /\ \A n \in Nat :
       /\ n > experiment.closed_steps[plane] /\ n < plane_step[plane]
       /\ n >= first_quiet
       => Emptied(plane, n) \/ Shows(plane, n)
  /\ \A n \in experiment.zero_steps[plane] :
       /\ n >= first_quiet /\ n <= experiment.closed_steps[plane]
       /\ Emptied(plane, n)
  /\ \A c \in Coordinates : \A k \in DOMAIN out[plane][c] :
       LET m == out[plane][c][k]
       IN  m.tag = "phi_status" =>
             /\ m.quiet = quiet_from(m.step)
             /\ m.step + 1 = plane_step[plane] => m.present = anyon[plane][c]
  /\ \A r \in experiment.status_rounds :
       r.plane = plane =>
         /\ r.quiet = quiet_from(r.step)
         /\ r.step + 1 = plane_step[plane] => r.present = anyon[plane][r.at]
  /\ LET n == experiment.closed_steps[plane]
     IN  n + 1 = plane_step[plane] /\ n >= first_quiet /\ Emptied(plane, n) =>
           n \in experiment.zero_steps[plane]

Draining ==
  experiment.phase = "draining" =>
    /\ \A plane \in Planes : Closing(plane) /\ Empties(plane)
    /\ \A plane \in Planes, c \in Coordinates : Hears(plane, c)
    /\ common(experiment) = {}
    /\ experiment.replies = {}
    /\ \A d \in Datas : replies[d] = << >>
    /\ \A d \in Datas : \A k \in DOMAIN commands[d] :
         commands[d][k] # pauli_query

(* The parity of a plane's corrections of a data cell that have reached    *)
(* the reducer, and of those of them that have not reached the data cell.  *)
on(plane, d) ==
  {m \in logged : m[1] = plane /\ data_of[m[1]][m[3]][m[4]] = d}
positions(q, u) == {k \in DOMAIN q : q[k] = u}
part(plane, p) == IF plane = "x" THEN p.z ELSE p.x

Framed(d) ==
  \A plane \in Planes :
    part(plane, frame[d]) =
      (Cardinality(on(plane, d))
         + Cardinality(positions(commands[d],
                                 pauli_update(d, correction_pauli[plane])))) % 2

answer(d) == Cardinality(on(IF measurement = x THEN "x" ELSE "z", d)) % 2

(* Each data cell has the query, with what it is to be told before it, or  *)
(* has answered.                                                           *)
Answering(d) ==
  \/ /\ commands[d] # << >> /\ replies[d] = << >>
     /\ \A k \in DOMAIN commands[d] :
          commands[d][k] = pauli_query <=> k = Len(commands[d])
     /\ <<d, answer(d)>> \notin experiment.replies
  \/ /\ commands[d] = << >> /\ replies[d] = <<answer(d)>>
     /\ <<d, answer(d)>> \notin experiment.replies
  \/ /\ commands[d] = << >> /\ replies[d] = << >>
     /\ <<d, answer(d)>> \in experiment.replies

Querying ==
  experiment.phase # "draining" =>
    /\ emitted \subseteq logged
    /\ \A plane \in Planes :
         /\ plane_step[plane] > first_quiet
         /\ \A c \in Coordinates :
              /\ anyon[plane][c] = 0
              /\ \A k \in DOMAIN out[plane][c] :
                   out[plane][c][k].tag = "phi_status"
    /\ \A d \in Datas : Answering(d)
    /\ experiment.replies \subseteq {<<d, answer(d)>> : d \in Datas}
    /\ experiment.phase = "done"
         <=> \A d \in Datas : <<d, answer(d)>> \in experiment.replies

CloseoutInv ==
  /\ CloseoutTypes /\ Logs
  /\ \A plane \in Planes, c \in Coordinates : InOrder(plane, c)
  /\ Draining /\ Querying
  /\ \A d \in Datas : Framed(d)
-----------------------------------------------------------------------------
(* Sequences.                                                              *)
(* The elements of a sequence after one is appended, after the first is    *)
(* taken,                                                                  *)
LEMMA AppendedOne ==
  ASSUME NEW S, NEW q \in Seq(S), NEW a \in S
  PROVE  /\ Append(q, a) \in Seq(S)
         /\ Len(q) \in Nat /\ DOMAIN q = 1 .. Len(q)
         /\ DOMAIN Append(q, a) = 1 .. Len(q) + 1
         /\ \A k \in 1 .. Len(q) : Append(q, a)[k] = q[k]
         /\ Append(q, a)[Len(q) + 1] = a
         /\ q \o <<a>> = Append(q, a)
OBVIOUS

(* The first of a sequence, and the rest.                                  *)
LEMMA FirstTaken ==
  ASSUME NEW S, NEW q \in Seq(S), q # << >>
  PROVE  /\ Len(q) \in Nat \ {0} /\ DOMAIN q = 1 .. Len(q)
         /\ Head(q) = q[1] /\ Head(q) \in S
         /\ Tail(q) \in Seq(S)
         /\ DOMAIN Tail(q) = 1 .. Len(q) - 1
         /\ Len(Tail(q)) = Len(q) - 1
         /\ \A k \in 1 .. Len(q) - 1 : Tail(q)[k] = q[k + 1]
         /\ Tail(q) = << >> <=> Len(q) = 1
<1>1. /\ Len(q) \in Nat \ {0} /\ DOMAIN q = 1 .. Len(q)
      /\ Head(q) = q[1] /\ Head(q) \in S
      /\ Tail(q) \in Seq(S)
      /\ DOMAIN Tail(q) = 1 .. Len(q) - 1
      /\ Len(Tail(q)) = Len(q) - 1
      /\ \A k \in 1 .. Len(q) - 1 : Tail(q)[k] = q[k + 1]
  OBVIOUS
<1> DEFINE t == Tail(q)
<1>2. t \in Seq(S) /\ Len(t) = Len(q) - 1
  BY <1>1
<1> HIDE DEF t
<1>3. t = << >> <=> Len(t) = 0
  BY <1>2
<1>4. QED
  BY <1>1, <1>2, <1>3 DEF t

(* and after a cell has put out a step, with a correction or without.      *)
LEMMA AppendedTwo ==
  ASSUME NEW S, NEW q \in Seq(S), NEW a \in S, NEW b \in S
  PROVE  /\ (q \o << >>) \o <<b>> = Append(q, b)
         /\ (q \o <<a>>) \o <<b>> = Append(Append(q, a), b)
<1>1. q \o << >> = q
  OBVIOUS
<1>2. q \o <<a>> = Append(q, a) /\ Append(q, a) \in Seq(S)
  BY AppendedOne
<1>3. QED
  BY <1>1, <1>2, AppendedOne

(* How often something occurs in a sequence.                               *)
LEMMA Occurs ==
  ASSUME NEW S, NEW q \in Seq(S), NEW u
  PROVE  /\ IsFiniteSet(positions(q, u))
         /\ Cardinality(positions(q, u)) \in Nat
<1>1. IsFiniteSet(1 .. Len(q))
  BY FS_Interval
<1>2. positions(q, u) \in SUBSET (1 .. Len(q))
  BY DEF positions
<1>3. QED
  BY <1>1, <1>2, FS_Subset, FS_CardinalityType

(* Appending counts once.                                                  *)
LEMMA OccursOnceMore ==
  ASSUME NEW S, NEW q \in Seq(S), NEW u, NEW a \in S
  PROVE  Cardinality(positions(Append(q, a), u))
           = Cardinality(positions(q, u)) + (IF a = u THEN 1 ELSE 0)
<1> DEFINE n == Len(q) + 1
           p == positions(q, u)
<1>1. p \subseteq 1 .. Len(q) /\ n \notin p
  BY DEF positions
<1>2. positions(Append(q, a), u) = IF a = u THEN p \cup {n} ELSE p
  <2>1. /\ DOMAIN Append(q, a) = 1 .. n /\ DOMAIN q = 1 .. Len(q)
        /\ Len(q) \in Nat
        /\ \A k \in 1 .. Len(q) : Append(q, a)[k] = q[k]
        /\ Append(q, a)[n] = a
    BY AppendedOne
  <2>2. \A k : k \in 1 .. n <=> k \in 1 .. Len(q) \/ k = n
    BY <2>1
  <2>3. QED
    BY <2>1, <2>2 DEF positions
<1>3. IsFiniteSet(p) /\ Cardinality(p) \in Nat
  BY Occurs
<1> HIDE DEF n, p
<1>4. Cardinality(p \cup {n}) = Cardinality(p) + 1
  BY <1>1, <1>3, FS_AddElement
<1>5. QED
  BY <1>2, <1>3, <1>4 DEF p

(* Taking the first counts once.                                           *)
LEMMA OccursOnceLess ==
  ASSUME NEW S, NEW q \in Seq(S), NEW u, q # << >>
  PROVE  Cardinality(positions(q, u))
           = Cardinality(positions(Tail(q), u)) + (IF Head(q) = u THEN 1 ELSE 0)
<1> DEFINE p == positions(q, u)
           t == positions(Tail(q), u)
           rest == p \ {1}
           shift == [k \in t |-> k + 1]
<1>1. /\ Len(q) \in Nat \ {0} /\ DOMAIN q = 1 .. Len(q)
      /\ Head(q) = q[1] /\ Tail(q) \in Seq(S)
      /\ DOMAIN Tail(q) = 1 .. Len(q) - 1
      /\ \A k \in 1 .. Len(q) - 1 : Tail(q)[k] = q[k + 1]
  BY FirstTaken
<1>2. IsFiniteSet(p) /\ IsFiniteSet(t) /\ Cardinality(t) \in Nat
      /\ Cardinality(p) \in Nat
  BY <1>1, Occurs
<1>3. \A k \in t : k \in 1 .. Len(q) - 1 /\ q[k + 1] = u
  BY <1>1 DEF positions
<1>4. \A k \in rest : k \in 2 .. Len(q) /\ q[k] = u
  BY <1>1 DEF positions
<1>5. \A k \in t : k + 1 \in rest
  BY <1>1, <1>3 DEF positions
<1>6. \A k \in rest : k - 1 \in t /\ (k - 1) + 1 = k
  BY <1>1, <1>4 DEF positions
<1>7. 1 \in p <=> Head(q) = u
  BY <1>1 DEF positions
<1> HIDE DEF p, t
<1>8. \A j, k \in t : j + 1 = k + 1 => j = k
  BY <1>3
<1>9. shift \in Bijection(t, rest)
  <2>1. shift \in [t -> rest]
    BY <1>5
  <2>2. \A k \in rest : \E j \in t : shift[j] = k
    BY <1>6
  <2>3. \A j, k \in t : shift[j] = shift[k] => j = k
    BY <1>8
  <2>4. QED
    BY <2>1, <2>2, <2>3 DEF Bijection, Injection, Surjection, IsInjective
<1>10. Cardinality(rest) = Cardinality(t)
  BY <1>2, <1>9, FS_Bijection DEF ExistsBijection
<1>11. Cardinality(rest) = IF 1 \in p THEN Cardinality(p) - 1 ELSE Cardinality(p)
  BY <1>2, FS_RemoveElement
<1>12. QED
  BY <1>2, <1>7, <1>10, <1>11 DEF p, t

(* What does not occur counts zero.                                        *)
LEMMA OccursNever ==
  ASSUME NEW q, NEW u, \A k \in DOMAIN q : q[k] # u
  PROVE  Cardinality(positions(q, u)) = 0
<1>1. positions(q, u) = {}
  BY DEF positions
<1>2. QED
  BY <1>1, FS_EmptySet

-----------------------------------------------------------------------------
(* The parts of the invariant at hand.                                     *)
LEMMA Constants ==
  /\ Planes = {"x", "z"} /\ x # z
  /\ neighbor \in [Coordinates -> [Directions -> Coordinates]]
  /\ \A plane \in Planes, c \in Coordinates, direction \in Directions :
       data_of[plane][c][direction] \in Datas
  /\ measurement \in {x, z}
  /\ IsFiniteSet(Coordinates) /\ Coordinates # {}
  /\ IsFiniteSet(Datas) /\ Datas # {}
  /\ MaxCutoff \in Nat /\ MaxStep \in Nat /\ MaxCutoff <= MaxStep
  /\ correction_pauli \in [Planes -> {x, z}]
  /\ correction_pauli["x"] = z /\ correction_pauli["z"] = x
BY CloseoutAssumption DEF Planes, x, z, correction_pauli

(* The invariant holds initially.                                          *)
LEMMA InitCloseout == CloseoutInit => CloseoutInv
<1> SUFFICES ASSUME CloseoutInit PROVE CloseoutInv
  OBVIOUS
<1> USE Constants
<1>1. PICK cutoff \in 0 .. MaxCutoff : experiment = new(cutoff)
  BY DEF CloseoutInit
<1>2. /\ experiment.phase = "draining" /\ experiment.cutoff_step = cutoff
      /\ experiment.status_rounds = {} /\ experiment.seen_corrections = {}
      /\ experiment.closed_steps = [plane \in Planes |-> NotClosed]
      /\ experiment.zero_steps = [plane \in Planes |-> {}]
      /\ experiment.correction_log = << >> /\ experiment.replies = {}
      /\ IsExperiment(experiment)
  BY <1>1 DEF new, IsExperiment, Fields
<1>3. /\ plane_step = [plane \in Planes |-> 0]
      /\ anyon = [plane \in Planes |-> [c \in Coordinates |-> 0]]
      /\ out = [plane \in Planes |-> [c \in Coordinates |-> << >>]]
      /\ commands = [d \in Datas |-> << >>]
      /\ frame = [d \in Datas |-> i] /\ replies = [d \in Datas |-> << >>]
      /\ emitted = {}
  BY DEF CloseoutInit
<1>4. CloseoutTypes
  BY <1>2, <1>3 DEF CloseoutTypes, i, Paulis, Bit
<1>5. logged = {}
  BY <1>2 DEF logged
<1>6. Logs
  BY <1>2, <1>3, <1>5, FS_EmptySet DEF Logs
<1>7. ASSUME NEW plane \in Planes, NEW c \in Coordinates
      PROVE  /\ InOrder(plane, c) /\ reached(plane, c) = 0
             /\ Hears(plane, c)
  <2>1. out[plane][c] = << >> /\ plane_step[plane] = 0
    BY <1>3
  <2>2. reached(plane, c) = 0
    BY <2>1 DEF reached
  <2>3. InOrder(plane, c)
    BY <2>1, <2>2 DEF InOrder
  <2>4. \A n \in Nat : round(plane, n, experiment) = {}
    BY <1>2 DEF round
  <2>5. experiment.closed_steps[plane] = -1
    BY <1>2 DEF NotClosed
  <2>6. Hears(plane, c)
    BY <1>2, <2>1, <2>2, <2>4, <2>5 DEF Hears
  <2>7. QED
    BY <2>2, <2>3, <2>6
<1>8. ASSUME NEW plane \in Planes
      PROVE  Closing(plane) /\ Empties(plane)
  <2>1. experiment.closed_steps[plane] = -1 /\ experiment.zero_steps[plane] = {}
        /\ plane_step[plane] = 0 /\ first_quiet \in Nat
    BY <1>2, <1>3 DEF NotClosed, first_quiet
  <2>2. \E c \in Coordinates : reached(plane, c) = -1 + 1
    BY <1>7
  <2>3. Closing(plane)
    BY <1>3, <2>1, <2>2 DEF Closing
  <2>4. Empties(plane)
    BY <1>2, <1>3, <2>1 DEF Empties
  <2>5. QED
    BY <2>3, <2>4
<1>9. Draining /\ Querying
  BY <1>2, <1>3, <1>7, <1>8 DEF Draining, Querying, common
<1>10. ASSUME NEW d \in Datas PROVE Framed(d)
  <2>1. frame[d] = i /\ commands[d] = << >>
    BY <1>3
  <2>2. \A plane \in Planes : on(plane, d) = {} /\ part(plane, i) = 0
    BY <1>5 DEF on, part, i
  <2>3. \A u : Cardinality(positions(<< >>, u)) = 0
    BY OccursNever
  <2>4. Cardinality({}) = 0 /\ (0 + 0) % 2 = 0
    BY FS_EmptySet
  <2>5. QED
    BY <2>1, <2>2, <2>3, <2>4 DEF Framed
<1>11. QED
  BY <1>4, <1>6, <1>7, <1>9, <1>10 DEF CloseoutInv

-----------------------------------------------------------------------------
(* The events of the decoder cells.                                        *)
LEMMA EventFacts ==
  ASSUME NEW c \in Coordinates, NEW m \in Moves(c) \cup Reports(c)
  PROVE  /\ m.step \in Nat /\ m.at = c
         /\ m.tag \in {"phi_correction", "phi_status"}
         /\ m.tag = "phi_correction" =>
              /\ m.direction \in Directions
              /\ m = phi_correction(m.step, c, m.direction)
         /\ m.tag = "phi_status" => m.present \in Bit /\ m.quiet \in Bit
BY DEF Moves, Reports, phi_correction

(* The events of a decoder cell that are underway.                         *)
LEMMA QueueFacts ==
  ASSUME CloseoutTypes, NEW plane \in Planes, NEW c \in Coordinates
  PROVE  /\ out[plane][c] \in Seq(Moves(c) \cup Reports(c))
         /\ Len(out[plane][c]) \in Nat
         /\ DOMAIN out[plane][c] = 1 .. Len(out[plane][c])
         /\ out[plane][c] # << >> => 1 \in DOMAIN out[plane][c]
         /\ plane_step[plane] \in Nat
         /\ \A k \in DOMAIN out[plane][c] :
              /\ out[plane][c][k] \in Moves(c) \cup Reports(c)
              /\ out[plane][c][k].step \in Nat
              /\ out[plane][c][k].tag \in {"phi_correction", "phi_status"}
         /\ reached(plane, c) \in Nat
<1>1. /\ out[plane][c] \in Seq(Moves(c) \cup Reports(c))
      /\ plane_step[plane] \in Nat
  BY DEF CloseoutTypes
<1>2. /\ Len(out[plane][c]) \in Nat
      /\ DOMAIN out[plane][c] = 1 .. Len(out[plane][c])
      /\ \A k \in DOMAIN out[plane][c] :
           out[plane][c][k] \in Moves(c) \cup Reports(c)
  BY <1>1
<1>3. \A k \in DOMAIN out[plane][c] :
        /\ out[plane][c][k].step \in Nat
        /\ out[plane][c][k].tag \in {"phi_correction", "phi_status"}
  BY <1>2, EventFacts
<1>4. out[plane][c] # << >> => 1 \in DOMAIN out[plane][c]
  BY <1>1
<1>5. reached(plane, c) \in Nat
  BY <1>1, <1>3, <1>4 DEF reached
<1>6. QED
  BY <1>1, <1>2, <1>3, <1>4, <1>5

(* A cell's next event is of no later step than the plane's.               *)
LEMMA ReachedStep ==
  ASSUME CloseoutTypes, NEW plane \in Planes, NEW c \in Coordinates,
         InOrder(plane, c)
  PROVE  reached(plane, c) <= plane_step[plane]
<1>1. /\ out[plane][c] # << >> => 1 \in DOMAIN out[plane][c]
      /\ plane_step[plane] \in Nat
      /\ \A k \in DOMAIN out[plane][c] : out[plane][c][k].step \in Nat
  BY QueueFacts
<1>2. \A k \in DOMAIN out[plane][c] : out[plane][c][k].step < plane_step[plane]
  BY DEF InOrder
<1>3. QED
  BY <1>1, <1>2 DEF reached

(* A cell whose events underway stay the same is where it was.             *)
LEMMA SameEvents ==
  ASSUME NEW plane, NEW c, out'[plane][c] = out[plane][c],
         plane_step'[plane] = plane_step[plane]
  PROVE  /\ reached(plane, c)' = reached(plane, c)
         /\ InOrder(plane, c) /\ emitted \subseteq emitted' =>
              InOrder(plane, c)'
<1>1. reached(plane, c)' = reached(plane, c)
  BY DEF reached
<1>2. ASSUME InOrder(plane, c), emitted \subseteq emitted'
      PROVE  InOrder(plane, c)'
  BY <1>1, <1>2 DEF InOrder
<1>3. QED
  BY <1>1, <1>2

(* What has been taken of a cell's events leaves the others in order.      *)
LEMMA TakesEvent ==
  ASSUME CloseoutTypes,
         \A p \in Planes, a \in Coordinates : InOrder(p, a),
         NEW plane \in Planes, NEW c \in Coordinates, out[plane][c] # << >>,
         out' = [out EXCEPT ![plane][c] = Tail(@)],
         plane_step' = plane_step, emitted' = emitted
  PROVE  LET q == out[plane][c]
             m == Head(q)
         IN  /\ m = q[1] /\ m \in Moves(c) \cup Reports(c) /\ 1 \in DOMAIN q
             /\ out' = [p \in Planes |-> [a \in Coordinates |-> out'[p][a]]]
             /\ \A p \in Planes, a \in Coordinates :
                  /\ out'[p][a] \in Seq(Moves(a) \cup Reports(a))
                  /\ p # plane \/ a # c =>
                       out'[p][a] = out[p][a] /\ reached(p, a)' = reached(p, a)
                  /\ InOrder(p, a)'
             /\ \A k \in DOMAIN out'[plane][c] :
                  k + 1 \in DOMAIN q /\ out'[plane][c][k] = q[k + 1]
             /\ \A k \in DOMAIN q :
                  k # 1 => k - 1 \in DOMAIN out'[plane][c]
                           /\ out'[plane][c][k - 1] = q[k]
             /\ reached(plane, c) = m.step
             /\ reached(plane, c)' =
                  IF m.tag = "phi_correction" THEN m.step ELSE m.step + 1
<1> DEFINE q == out[plane][c]
           m == Head(q)
           t == out'[plane][c]
           n == Len(q)
<1>1. out = [p \in Planes |-> [a \in Coordinates |-> out[p][a]]]
  BY DEF CloseoutTypes
<1>2. /\ \A p \in Planes, a \in Coordinates :
           p # plane \/ a # c => out'[p][a] = out[p][a]
      /\ t = Tail(q)
      /\ out' = [p \in Planes |-> [a \in Coordinates |-> out'[p][a]]]
  BY <1>1
<1>3. /\ q \in Seq(Moves(c) \cup Reports(c)) /\ q # << >>
      /\ \A k \in DOMAIN q : q[k].step \in Nat
                             /\ q[k].tag \in {"phi_correction", "phi_status"}
      /\ plane_step[plane] \in Nat
  BY QueueFacts
<1>18. reached(plane, c) = m.step
  <2>1. m = out[plane][c][1]
    BY <1>3
  <2>2. QED
    BY <2>1 DEF reached
<1> HIDE DEF q, t
<1>4. /\ n \in Nat \ {0} /\ DOMAIN q = 1 .. n
      /\ m = q[1] /\ m \in Moves(c) \cup Reports(c)
      /\ t \in Seq(Moves(c) \cup Reports(c))
      /\ DOMAIN t = 1 .. n - 1
      /\ \A k \in 1 .. n - 1 : t[k] = q[k + 1]
      /\ t = << >> <=> n = 1
  BY <1>2, <1>3, FirstTaken
<1>5. /\ \A k \in DOMAIN t : k + 1 \in DOMAIN q /\ t[k] = q[k + 1]
      /\ \A k \in DOMAIN q : k # 1 => k - 1 \in DOMAIN t /\ t[k - 1] = q[k]
      /\ 1 \in DOMAIN q
  BY <1>4
<1>6. InOrder(plane, c)
  OBVIOUS
<1> HIDE DEF m, n
<1>7. reached(plane, c) = m.step
  BY <1>18
<1>8. /\ \A k \in DOMAIN q : q[k].step < plane_step[plane]
      /\ \A j, k \in DOMAIN q :
           j < k => \/ q[j].step < q[k].step
                    \/ /\ q[j].step = q[k].step
                       /\ q[j].tag = "phi_correction" /\ q[k].tag = "phi_status"
      /\ \A l \in Nat : l >= m.step /\ l < plane_step[plane] =>
           \E k \in DOMAIN q : is_status(q[k], l)
      /\ \A k \in DOMAIN q :
           q[k].tag = "phi_correction" =>
             <<plane, q[k].step, c, q[k].direction>> \in emitted
  BY <1>6, <1>7 DEF InOrder, q
<1>9. \A l \in Nat : /\ l >= m.step /\ l < plane_step[plane]
                     /\ l # m.step \/ m.tag = "phi_correction"
                     => \E k \in DOMAIN t : is_status(t[k], l)
  <2> SUFFICES ASSUME NEW l \in Nat, l >= m.step, l < plane_step[plane],
                      l # m.step \/ m.tag = "phi_correction"
               PROVE  \E k \in DOMAIN t : is_status(t[k], l)
    OBVIOUS
  <2>1. PICK k \in DOMAIN q : is_status(q[k], l)
    BY <1>8
  <2>2. k # 1
    BY <2>1, <1>4 DEF is_status
  <2>3. QED
    BY <2>1, <2>2, <1>5
<1>10. m.step \in Nat /\ m.step < plane_step[plane]
       /\ m.tag \in {"phi_correction", "phi_status"}
  BY <1>3, <1>4, <1>5, <1>8
<1>11. ASSUME t = << >>
       PROVE  reached(plane, c)' =
                IF m.tag = "phi_correction" THEN m.step ELSE m.step + 1
  <2>1. m.tag = "phi_status" /\ m.step + 1 = plane_step[plane]
    <3>1. DOMAIN t = {}
      BY <1>4, <1>11
    <3>2. m.tag # "phi_correction"
      BY <1>9, <1>10, <3>1
    <3>3. ~ m.step + 1 < plane_step[plane]
      BY <1>9, <1>10, <3>1
    <3>4. QED
      BY <1>3, <1>10, <3>2, <3>3
  <2>2. reached(plane, c)' = plane_step[plane]
    BY <1>11 DEF reached, t
  <2>3. QED
    BY <2>1, <2>2
<1>12. ASSUME t # << >>
       PROVE  reached(plane, c)' =
                IF m.tag = "phi_correction" THEN m.step ELSE m.step + 1
  <2>1. 1 \in DOMAIN t /\ t[1] = q[2] /\ 2 \in DOMAIN q /\ 1 < 2
    BY <1>4, <1>5, <1>12
  <2>2. reached(plane, c)' = q[2].step
    BY <1>12, <2>1 DEF reached, t
  <2>3. q[2].step \in Nat /\ m = q[1] /\ 1 \in DOMAIN q /\ q[2].step < plane_step[plane]
    BY <2>1, <1>3, <1>4, <1>5, <1>8 DEF q
  <2>4. \A k \in DOMAIN t : q[2].step <= t[k].step
    <3> SUFFICES ASSUME NEW k \in DOMAIN t PROVE q[2].step <= t[k].step
      OBVIOUS
    <3>1. k + 1 \in DOMAIN q /\ t[k] = q[k + 1] /\ k + 1 \in Nat
          /\ (k + 1 = 2 \/ 2 < k + 1)
      BY <1>4, <1>5
    <3>2. q[k + 1].step \in Nat
      BY <3>1, <1>3
    <3>3. QED
      BY <3>1, <3>2, <2>1, <2>3, <1>8
  <2>5. CASE m.tag = "phi_correction"
    <3>1. m.step <= q[2].step
      BY <1>8, <1>10, <2>1, <2>3
    <3>2. PICK k \in DOMAIN t : is_status(t[k], m.step)
      BY <1>9, <1>10, <2>5
    <3>3. q[2].step <= m.step
      BY <3>2, <2>4 DEF is_status
    <3>4. QED
      BY <1>10, <2>2, <2>3, <2>5, <3>1, <3>3
  <2>6. CASE m.tag = "phi_status"
    <3>1. m.step < q[2].step
      BY <1>8, <1>10, <2>1, <2>3, <2>6
    <3>2. \/ m.step + 1 \in Nat /\ m.step + 1 < plane_step[plane]
          \/ m.step + 1 = plane_step[plane]
      BY <1>3, <1>10
    <3>3. m.step + 1 # plane_step[plane]
      BY <1>3, <1>10, <2>3, <3>1
    <3>4. PICK k \in DOMAIN t : is_status(t[k], m.step + 1)
      BY <1>9, <1>10, <3>2, <3>3
    <3>5. q[2].step <= m.step + 1
      BY <3>4, <2>4 DEF is_status
    <3>6. QED
      BY <1>10, <2>2, <2>3, <2>6, <3>1, <3>5
  <2>7. QED
    BY <1>10, <2>5, <2>6
<1>13. reached(plane, c)' =
         IF m.tag = "phi_correction" THEN m.step ELSE m.step + 1
  BY <1>11, <1>12
<1>14. InOrder(plane, c)'
  <2>1. \A k \in DOMAIN t : t[k].step < plane_step[plane]
    BY <1>5, <1>8
  <2>2. \A j, k \in DOMAIN t :
          j < k => \/ t[j].step < t[k].step
                   \/ /\ t[j].step = t[k].step
                      /\ t[j].tag = "phi_correction" /\ t[k].tag = "phi_status"
    <3> SUFFICES ASSUME NEW j \in DOMAIN t, NEW k \in DOMAIN t, j < k
                 PROVE  \/ t[j].step < t[k].step
                        \/ /\ t[j].step = t[k].step
                           /\ t[j].tag = "phi_correction"
                           /\ t[k].tag = "phi_status"
      OBVIOUS
    <3>1. j + 1 < k + 1
      BY <1>4
    <3>2. QED
      BY <3>1, <1>5, <1>8
  <2>3. \A l \in Nat : l >= reached(plane, c)' /\ l < plane_step[plane] =>
          \E k \in DOMAIN t : is_status(t[k], l)
    BY <1>9, <1>10, <1>13
  <2>4. \A k \in DOMAIN t :
          t[k].tag = "phi_correction" =>
            <<plane, t[k].step, c, t[k].direction>> \in emitted
    BY <1>5, <1>8
  <2>5. QED
    BY <2>1, <2>2, <2>3, <2>4 DEF InOrder, t
<1>15. ASSUME NEW p \in Planes, NEW a \in Coordinates, p # plane \/ a # c
       PROVE  /\ reached(p, a)' = reached(p, a)
              /\ InOrder(p, a)' /\ out'[p][a] \in Seq(Moves(a) \cup Reports(a))
  <2>1. out'[p][a] = out[p][a] /\ InOrder(p, a)
    BY <1>2, <1>15
  <2>2. plane_step'[p] = plane_step[p] /\ emitted \subseteq emitted'
    OBVIOUS
  <2>3. QED
    BY <2>1, <2>2, SameEvents, QueueFacts
<1>16. \A p \in Planes, a \in Coordinates :
         /\ out'[p][a] \in Seq(Moves(a) \cup Reports(a))
         /\ p # plane \/ a # c =>
              out'[p][a] = out[p][a] /\ reached(p, a)' = reached(p, a)
         /\ InOrder(p, a)'
  <2>1. out'[plane][c] \in Seq(Moves(c) \cup Reports(c))
    BY <1>4 DEF t
  <2>2. QED
    BY <2>1, <1>2, <1>14, <1>15
<1>17. QED
  BY <1>2, <1>4, <1>5, <1>7, <1>13, <1>16 DEF q, m, t

(* The status of a cell after step n, and its correction before it.        *)
reported(n, c, present) == phi_status(n, c, present, quiet_from(n))

(* What a step emits.                                                      *)
LEMMA ReportedFacts ==
  ASSUME NEW n \in Nat, NEW c \in Coordinates, NEW b \in Bit,
         NEW direction \in Directions
  PROVE  /\ reported(n, c, b) \in Reports(c)
         /\ reported(n, c, b).tag = "phi_status"
         /\ reported(n, c, b).step = n /\ reported(n, c, b).present = b
         /\ reported(n, c, b).quiet = quiet_from(n)
         /\ phi_correction(n, c, direction) \in Moves(c)
         /\ phi_correction(n, c, direction).tag = "phi_correction"
         /\ phi_correction(n, c, direction).step = n
         /\ phi_correction(n, c, direction).direction = direction
<1>1. quiet_from(n) \in Bit
  BY DEF quiet_from, Bit
<1>2. QED
  BY <1>1 DEF reported, phi_status, phi_correction, Moves, Reports

(* A step of a plane.  Once an empty plane is past the first quiet step,   *)
(* nothing moves.                                                          *)
LEMMA Decodes ==
  ASSUME CloseoutTypes, NEW plane \in Planes, decode(plane)
  PROVE  LET n == plane_step[plane]
         IN  /\ \E cs \in SUBSET Coordinates :
                \E moves \in [cs -> Directions], after \in [Coordinates -> Bit] :
                  /\ anyon' = [anyon EXCEPT ![plane] = after]
                  /\ emitted' = emitted \cup {<<plane, n, c, moves[c]>> : c \in cs}
                  /\ \A c \in Coordinates :
                       out'[plane][c] =
                         IF c \in cs
                         THEN Append(Append(out[plane][c],
                                            phi_correction(n, c, moves[c])),
                                     reported(n, c, after[c]))
                         ELSE Append(out[plane][c], reported(n, c, after[c]))
                  /\ n > first_quiet /\ (\A c \in Coordinates : anyon[plane][c] = 0)
                       => cs = {} /\ \A c \in Coordinates : after[c] = 0
             /\ \A p \in Planes : p # plane => out'[p] = out[p]
             /\ out' = [p \in Planes |-> [c \in Coordinates |-> out'[p][c]]]
             /\ plane_step' = [plane_step EXCEPT ![plane] = n + 1]
             /\ UNCHANGED <<experiment, commands, frame, replies>>
<1> DEFINE n == plane_step[plane]
           quiet == IF n >= first_quiet THEN 1 ELSE 0
           arrivals(moves, c) ==
             {m \in DOMAIN moves : neighbor[m][moves[m]] = c}
           later(events, moves) ==
             [c \in Coordinates |->
               (flip(anyon[plane], events)[c]
                  + (IF c \in DOMAIN moves THEN 1 ELSE 0)
                  + Cardinality(arrivals(moves, c))) % 2]
           queued(events, moves, c) ==
             out[plane][c] \o (IF c \in DOMAIN moves
                               THEN <<phi_correction(n, c, moves[c])>>
                               ELSE << >>)
                           \o <<phi_status(n, c, later(events, moves)[c], quiet)>>
<1>1. PICK events \in IF n <= first_quiet THEN SUBSET Coordinates ELSE {{}} :
        \E moves \in moves_of(flip(anyon[plane], events)) :
          /\ anyon' = [anyon EXCEPT ![plane] = later(events, moves)]
          /\ emitted' = emitted \cup
               {<<plane, n, c, moves[c]>> : c \in DOMAIN moves}
          /\ out' = [out EXCEPT ![plane] =
                       [c \in Coordinates |-> queued(events, moves, c)]]
  BY DEF decode
<1>2. PICK moves \in moves_of(flip(anyon[plane], events)) :
        /\ anyon' = [anyon EXCEPT ![plane] = later(events, moves)]
        /\ emitted' = emitted \cup
             {<<plane, n, c, moves[c]>> : c \in DOMAIN moves}
        /\ out' = [out EXCEPT ![plane] =
                     [c \in Coordinates |-> queued(events, moves, c)]]
  BY <1>1
<1>3. PICK cs \in SUBSET {c \in Coordinates : flip(anyon[plane], events)[c] = 1} :
        moves \in [cs -> Directions]
  BY <1>2 DEF moves_of
<1>4. cs \in SUBSET Coordinates /\ DOMAIN moves = cs
  BY <1>3
<1>5. /\ n \in Nat /\ anyon[plane] \in [Coordinates -> Bit]
      /\ anyon \in [Planes -> [Coordinates -> Bit]]
      /\ first_quiet \in Nat
      /\ out = [p \in Planes |-> [c \in Coordinates |-> out[p][c]]]
      /\ \A c \in Coordinates : out[plane][c] \in Seq(Moves(c) \cup Reports(c))
  BY Constants DEF CloseoutTypes, IsExperiment, Fields, first_quiet
<1>6. flip(anyon[plane], events) \in [Coordinates -> Bit]
  BY <1>5 DEF flip, xor, Bit
<1>7. ASSUME NEW c \in Coordinates
      PROVE  Cardinality(arrivals(moves, c)) \in Nat
  <2>1. arrivals(moves, c) \in SUBSET Coordinates
    BY <1>4
  <2>2. QED
    BY <2>1, Constants, FS_Subset, FS_CardinalityType
<1>8. later(events, moves) \in [Coordinates -> Bit]
  <2>1. ASSUME NEW c \in Coordinates
        PROVE  (flip(anyon[plane], events)[c]
                  + (IF c \in DOMAIN moves THEN 1 ELSE 0)
                  + Cardinality(arrivals(moves, c))) % 2 \in Bit
    <3> DEFINE u == flip(anyon[plane], events)[c]
               v == IF c \in DOMAIN moves THEN 1 ELSE 0
               w == Cardinality(arrivals(moves, c))
    <3>1. u \in Nat /\ v \in Nat /\ w \in Nat
      BY <1>6, <1>7 DEF Bit
    <3> HIDE DEF u, v, w
    <3>2. (u + v + w) % 2 \in Bit
      BY <3>1 DEF Bit
    <3>3. QED
      BY <3>2 DEF u, v, w
  <2>2. QED
    BY <2>1
<1> DEFINE after == later(events, moves)
<1>9. ASSUME n > first_quiet, \A c \in Coordinates : anyon[plane][c] = 0
      PROVE  cs = {} /\ \A c \in Coordinates : after[c] = 0
  <2>1. events = {}
    BY <1>5, <1>9
  <2>2. \A c \in Coordinates : flip(anyon[plane], events)[c] = 0
    BY <1>9, <2>1 DEF flip
  <2>3. cs = {}
    BY <1>3, <2>2
  <2>4. \A c \in Coordinates : arrivals(moves, c) = {}
    BY <1>4, <2>3
  <2>5. ASSUME NEW c \in Coordinates PROVE after[c] = 0
    <3>1. Cardinality(arrivals(moves, c)) = 0
      BY <2>4, FS_EmptySet
    <3>2. flip(anyon[plane], events)[c] = 0 /\ c \notin DOMAIN moves
      BY <1>4, <2>2, <2>3
    <3>3. after[c] = (flip(anyon[plane], events)[c]
                        + (IF c \in DOMAIN moves THEN 1 ELSE 0)
                        + Cardinality(arrivals(moves, c))) % 2
      OBVIOUS
    <3>4. (0 + 0 + 0) % 2 = 0
      OBVIOUS
    <3> HIDE DEF after, arrivals
    <3>5. QED
      BY <3>1, <3>2, <3>3, <3>4
  <2>6. QED
    BY <2>3, <2>5
<1> HIDE DEF later
<1>10. ASSUME NEW c \in Coordinates
       PROVE  queued(events, moves, c) =
                IF c \in cs
                THEN Append(Append(out[plane][c], phi_correction(n, c, moves[c])),
                            reported(n, c, after[c]))
                ELSE Append(out[plane][c], reported(n, c, after[c]))
  <2> DEFINE b == reported(n, c, after[c])
             S == Moves(c) \cup Reports(c)
             q == out[plane][c]
  <2>1. b = phi_status(n, c, after[c], quiet)
    BY DEF reported, quiet_from
  <2>2. after[c] \in Bit /\ q \in Seq(S)
    BY <1>5, <1>8
  <2> HIDE DEF b, q, S
  <2>3. CASE c \in cs
    <3> DEFINE m == phi_correction(n, c, moves[c])
    <3>1. moves[c] \in Directions
      BY <1>3, <2>3
    <3>2. m \in S /\ b \in S
      BY <1>5, <2>2, <3>1, ReportedFacts DEF b, S
    <3> HIDE DEF m
    <3>3. (q \o <<m>>) \o <<b>> = Append(Append(q, m), b)
      BY <2>2, <3>2, AppendedTwo
    <3>4. QED
      BY <1>4, <2>1, <2>3, <3>3 DEF m, b, q
  <2>4. CASE c \notin cs
    <3>1. b \in S
      <4>1. quiet_from(n) \in Bit
        BY DEF quiet_from, Bit
      <4>2. QED
        BY <1>5, <2>2, <4>1 DEF b, S, reported, phi_status, Reports
    <3>2. (q \o << >>) \o <<b>> = Append(q, b)
      BY <2>2, <3>1, AppendedTwo
    <3>3. QED
      BY <1>4, <2>1, <2>4, <3>2 DEF b, q
  <2>5. QED
    BY <2>3, <2>4
<1> HIDE DEF queued, after
<1>11. \A c \in Coordinates : out'[plane][c] = queued(events, moves, c)
  BY <1>2, <1>5
<1>12. /\ \A p \in Planes : p # plane => out'[p] = out[p]
       /\ out' = [p \in Planes |-> [c \in Coordinates |-> out'[p][c]]]
  <2>1. \A p \in Planes : p # plane => out'[p] = out[p]
    BY <1>2, <1>5
  <2>2. out'[plane] = [c \in Coordinates |-> queued(events, moves, c)]
    BY <1>2, <1>5
  <2>3. \A p \in Planes : out'[p] = [c \in Coordinates |-> out'[p][c]]
    BY <1>5, <2>1, <2>2
  <2>4. out' = [p \in Planes |-> out'[p]]
    BY <1>2, <1>5
  <2>5. QED
    BY <2>1, <2>3, <2>4
<1>13. /\ plane_step' = [plane_step EXCEPT ![plane] = n + 1]
       /\ UNCHANGED <<experiment, commands, frame, replies>>
  BY DEF decode
<1>14. /\ anyon' = [anyon EXCEPT ![plane] = after]
       /\ emitted' = emitted \cup {<<plane, n, c, moves[c]>> : c \in cs}
  BY <1>2, <1>4 DEF after
<1>15. after \in [Coordinates -> Bit]
  BY <1>8 DEF after
<1>16. \A c \in Coordinates :
         out'[plane][c] =
           IF c \in cs
           THEN Append(Append(out[plane][c], phi_correction(n, c, moves[c])),
                       reported(n, c, after[c]))
           ELSE Append(out[plane][c], reported(n, c, after[c]))
  BY <1>10, <1>11
<1>17. /\ n > first_quiet /\ (\A c \in Coordinates : anyon[plane][c] = 0)
            => cs = {} /\ \A c \in Coordinates : after[c] = 0
  BY <1>9
<1> HIDE DEF n
<1>18. \E ds \in SUBSET Coordinates :
       \E ms \in [ds -> Directions], later_on \in [Coordinates -> Bit] :
         /\ anyon' = [anyon EXCEPT ![plane] = later_on]
         /\ emitted' = emitted \cup {<<plane, n, c, ms[c]>> : c \in ds}
         /\ \A c \in Coordinates :
              out'[plane][c] =
                IF c \in ds
                THEN Append(Append(out[plane][c], phi_correction(n, c, ms[c])),
                            reported(n, c, later_on[c]))
                ELSE Append(out[plane][c], reported(n, c, later_on[c]))
         /\ n > first_quiet /\ (\A c \in Coordinates : anyon[plane][c] = 0)
              => ds = {} /\ \A c \in Coordinates : later_on[c] = 0
  <2> WITNESS cs \in SUBSET Coordinates
  <2> WITNESS moves \in [cs -> Directions], after \in [Coordinates -> Bit]
  <2> QED
    BY <1>14, <1>16, <1>17
<1>19. QED
  BY <1>12, <1>13, <1>18 DEF n

(* What a cell puts out in a step comes after what is underway.            *)
EmitsLast(plane, c, cs, moves, after) ==
  LET n == plane_step[plane]
      q == out[plane][c]
      t == out'[plane][c]
  IN  /\ t \in Seq(Moves(c) \cup Reports(c))
      /\ InOrder(plane, c)' /\ reached(plane, c)' = reached(plane, c)
      /\ \A k \in DOMAIN q : k \in DOMAIN t /\ t[k] = q[k]
      /\ \A k \in DOMAIN t :
           \/ k \in DOMAIN q
           \/ t[k] = reported(n, c, after[c])
           \/ c \in cs /\ t[k] = phi_correction(n, c, moves[c])
      /\ \E k \in DOMAIN t : t[k] = reported(n, c, after[c])
      /\ c \in cs => \E k \in DOMAIN t : t[k] = phi_correction(n, c, moves[c])

(* What a step of the plane adds to the events of one cell.                *)
LEMMA CellEmits ==
  ASSUME CloseoutTypes, NEW plane \in Planes, NEW c \in Coordinates,
         InOrder(plane, c), NEW cs, NEW moves, NEW after,
         c \in cs => moves[c] \in Directions, after[c] \in Bit,
         plane_step'[plane] = plane_step[plane] + 1,
         emitted \subseteq emitted',
         c \in cs => <<plane, plane_step[plane], c, moves[c]>> \in emitted',
         out'[plane][c] =
           IF c \in cs
           THEN Append(Append(out[plane][c],
                              phi_correction(plane_step[plane], c, moves[c])),
                       reported(plane_step[plane], c, after[c]))
           ELSE Append(out[plane][c], reported(plane_step[plane], c, after[c]))
  PROVE  EmitsLast(plane, c, cs, moves, after)
<1> DEFINE moved == c \in cs
           direction == moves[c]
           b == after[c]
           n == plane_step[plane]
           q == out[plane][c]
           t == out'[plane][c]
           S == Moves(c) \cup Reports(c)
           m == phi_correction(n, c, direction)
           s == reported(n, c, b)
           L == Len(q)
<1>1. /\ n \in Nat /\ q \in Seq(S) /\ L \in Nat /\ DOMAIN q = 1 .. L
      /\ \A k \in DOMAIN q : q[k].step \in Nat
      /\ q # << >> => 1 \in DOMAIN q
      /\ reached(plane, c) = IF q = << >> THEN n ELSE q[1].step
  BY QueueFacts DEF reached
<1>2. /\ s \in S /\ s.tag = "phi_status" /\ s.step = n
  BY <1>1 DEF reported, phi_status, Reports, quiet_from, Bit
<1>3. moved => /\ m \in S /\ m.tag = "phi_correction" /\ m.step = n
               /\ m.direction = direction
  BY <1>1 DEF phi_correction, Moves
<1>4. t = IF moved THEN Append(Append(q, m), s) ELSE Append(q, s)
  OBVIOUS
<1>5. plane_step'[plane] = n + 1
  OBVIOUS
<1>6. /\ \A k \in DOMAIN q : q[k].step < n
      /\ \A j, k \in DOMAIN q :
           j < k => \/ q[j].step < q[k].step
                    \/ /\ q[j].step = q[k].step
                       /\ q[j].tag = "phi_correction" /\ q[k].tag = "phi_status"
      /\ \A l \in Nat : l >= reached(plane, c) /\ l < n =>
           \E k \in DOMAIN q : is_status(q[k], l)
      /\ \A k \in DOMAIN q :
           q[k].tag = "phi_correction" =>
             <<plane, q[k].step, c, q[k].direction>> \in emitted
  BY DEF InOrder
<1>7. moved => <<plane, n, c, direction>> \in emitted'
  OBVIOUS
<1>8. reached(plane, c)' = IF t = << >> THEN n + 1 ELSE t[1].step
  BY <1>5 DEF reached
<1>10. emitted \subseteq emitted'
  OBVIOUS
<1> HIDE DEF n, q, t, S, m, s, L, moved, direction, b
<1>11. /\ t \in Seq(S) /\ \A k \in 1 .. L : k \in DOMAIN t /\ t[k] = q[k]
       /\ IF moved THEN /\ DOMAIN t = 1 .. L + 2
                        /\ t[L + 1] = m /\ t[L + 2] = s
                   ELSE DOMAIN t = 1 .. L + 1 /\ t[L + 1] = s
  <2>1. CASE moved
    <3> DEFINE r == Append(q, m)
    <3>1. /\ r \in Seq(S) /\ DOMAIN r = 1 .. L + 1 /\ Len(r) = L + 1
          /\ \A k \in 1 .. L : r[k] = q[k]
          /\ r[L + 1] = m
      BY <1>1, <1>3, <2>1, AppendedOne DEF L
    <3>2. t = Append(r, s)
      BY <1>4, <2>1
    <3> HIDE DEF r
    <3>3. /\ t \in Seq(S) /\ DOMAIN t = 1 .. L + 2
          /\ \A k \in 1 .. L + 1 : t[k] = r[k]
          /\ t[L + 2] = s
      BY <1>1, <1>2, <3>1, <3>2
    <3>4. L + 1 \in 1 .. L + 1 /\ \A k \in 1 .. L : k \in 1 .. L + 1 /\ k \in 1 .. L + 2
      BY <1>1
    <3>5. QED
      BY <2>1, <3>1, <3>3, <3>4
  <2>2. CASE ~moved
    <3>1. t = Append(q, s)
      BY <1>4, <2>2
    <3>2. /\ t \in Seq(S) /\ DOMAIN t = 1 .. L + 1
          /\ \A k \in 1 .. L : t[k] = q[k]
          /\ t[L + 1] = s
      BY <1>1, <1>2, <3>1, AppendedOne DEF L
    <3>3. \A k \in 1 .. L : k \in 1 .. L + 1
      BY <1>1
    <3>4. QED
      BY <2>2, <3>2, <3>3
  <2>3. QED
    BY <2>1, <2>2
<1>12. \A k \in DOMAIN t : \/ k \in 1 .. L /\ t[k] = q[k]
                           \/ k > L /\ t[k] = s /\ (moved => k = L + 2)
                           \/ k = L + 1 /\ moved /\ t[k] = m
  BY <1>1, <1>11
<1>13. /\ \E k \in DOMAIN t : t[k] = s
       /\ moved => \E k \in DOMAIN t : t[k] = m
  BY <1>1, <1>11
<1>14. reached(plane, c)' = reached(plane, c)
  <2>1. 1 \in DOMAIN t /\ t # << >>
    BY <1>1, <1>11
  <2>2. CASE q = << >>
    <3>1. L = 0
      BY <2>2 DEF L
    <3>2. t[1].step = n
      BY <1>1, <1>2, <1>3, <1>11, <1>12, <2>1, <3>1
    <3>3. QED
      BY <1>1, <1>8, <2>1, <2>2, <3>2
  <2>3. CASE q # << >>
    BY <1>1, <1>8, <1>11, <2>1, <2>3
  <2>4. QED
    BY <2>2, <2>3
<1>15. ASSUME NEW k \in DOMAIN t PROVE t[k].step < n + 1
  BY <1>1, <1>2, <1>3, <1>6, <1>12
<1>16. ASSUME NEW j \in DOMAIN t, NEW k \in DOMAIN t, j < k
       PROVE  \/ t[j].step < t[k].step
              \/ /\ t[j].step = t[k].step
                 /\ t[j].tag = "phi_correction" /\ t[k].tag = "phi_status"
  <2>0. j \in Nat /\ k \in Nat
    BY <1>1, <1>11
  <2>1. CASE j \in 1 .. L /\ k \in 1 .. L
    <3>1. j \in DOMAIN q /\ k \in DOMAIN q /\ t[j] = q[j] /\ t[k] = q[k]
      BY <1>1, <1>11, <2>1
    <3>2. QED
      BY <1>6, <1>16, <3>1
  <2>2. CASE j \in 1 .. L /\ k \notin 1 .. L
    <3>1. t[j].step < n
      BY <1>1, <1>6, <1>11, <2>2
    <3>2. t[k].step = n
      BY <1>2, <1>3, <1>12, <2>2
    <3>3. QED
      BY <3>1, <3>2
  <2>3. CASE j \notin 1 .. L
    <3>1. k \notin 1 .. L
      BY <1>1, <1>12, <1>16, <2>0, <2>3
    <3>2. moved /\ t[j] = m /\ t[k] = s
      BY <1>1, <1>11, <1>12, <1>16, <2>0, <2>3, <3>1
    <3>3. QED
      BY <1>2, <1>3, <3>2
  <2>4. QED
    BY <2>1, <2>2, <2>3
<1>17. ASSUME NEW l \in Nat, l >= reached(plane, c), l < n + 1
       PROVE  \E k \in DOMAIN t : is_status(t[k], l)
  <2>1. CASE l < n
    <3>1. PICK k \in DOMAIN q : is_status(q[k], l)
      BY <1>6, <1>17, <2>1
    <3>2. QED
      BY <1>1, <1>11, <3>1
  <2>2. CASE l = n
    BY <1>2, <1>13, <2>2 DEF is_status
  <2>3. QED
    BY <1>1, <1>17, <2>1, <2>2
<1>18. ASSUME NEW k \in DOMAIN t, t[k].tag = "phi_correction"
       PROVE  <<plane, t[k].step, c, t[k].direction>> \in emitted'
  <2>1. CASE k \in 1 .. L /\ t[k] = q[k]
    BY <1>1, <1>6, <1>10, <1>18, <2>1
  <2>2. CASE moved /\ t[k] = m
    BY <1>3, <1>7, <2>2
  <2>3. t[k] # s
    BY <1>2, <1>18
  <2>4. QED
    BY <1>12, <2>1, <2>2, <2>3
<1>19. InOrder(plane, c)'
  <2>1. \A l \in Nat : l >= reached(plane, c)' /\ l < n + 1 =>
          \E k \in DOMAIN t : is_status(t[k], l)
    BY <1>14, <1>17
  <2>2. /\ \A k \in DOMAIN t : t[k].step < plane_step'[plane]
        /\ \A j, k \in DOMAIN t :
             j < k => \/ t[j].step < t[k].step
                      \/ /\ t[j].step = t[k].step
                         /\ t[j].tag = "phi_correction" /\ t[k].tag = "phi_status"
        /\ \A l \in Nat : l >= reached(plane, c)' /\ l < plane_step'[plane] =>
             \E k \in DOMAIN t : is_status(t[k], l)
        /\ \A k \in DOMAIN t :
             t[k].tag = "phi_correction" =>
               <<plane, t[k].step, c, t[k].direction>> \in emitted'
    BY <1>5, <1>15, <1>16, <1>18, <2>1
  <2>3. QED
    BY <2>2 DEF InOrder, t
<1>20. /\ \A k \in DOMAIN q : k \in DOMAIN t /\ t[k] = q[k]
       /\ \A k \in DOMAIN t :
            \/ k \in DOMAIN q
            \/ t[k] = s
            \/ moved /\ t[k] = m
  <2>1. \A k \in DOMAIN q : k \in 1 .. L
    BY <1>1
  <2>2. \A k \in 1 .. L : k \in DOMAIN q
    BY <1>1
  <2>3. QED
    BY <1>11, <1>12, <2>1, <2>2
<1>21. QED
  BY <1>11, <1>13, <1>14, <1>19, <1>20
  DEF EmitsLast, n, q, t, S, m, s, moved, direction, b

(* A step of a plane keeps every part of the invariant.                    *)
LEMMA DecodeInv ==
  ASSUME CloseoutInv, NEW plane \in Planes, decode(plane)
  PROVE  CloseoutInv'
<1> DEFINE n == plane_step[plane]
<1>1. /\ CloseoutTypes /\ Logs /\ Draining /\ Querying
      /\ \A p \in Planes, c \in Coordinates : InOrder(p, c)
      /\ \A d \in Datas : Framed(d)
  BY DEF CloseoutInv
<1>2. PICK cs \in SUBSET Coordinates :
      \E moves \in [cs -> Directions], after \in [Coordinates -> Bit] :
        /\ anyon' = [anyon EXCEPT ![plane] = after]
        /\ emitted' = emitted \cup {<<plane, n, c, moves[c]>> : c \in cs}
        /\ \A c \in Coordinates :
             out'[plane][c] =
               IF c \in cs
               THEN Append(Append(out[plane][c], phi_correction(n, c, moves[c])),
                           reported(n, c, after[c]))
               ELSE Append(out[plane][c], reported(n, c, after[c]))
        /\ n > first_quiet /\ (\A c \in Coordinates : anyon[plane][c] = 0)
             => cs = {} /\ \A c \in Coordinates : after[c] = 0
  BY <1>1, Decodes
<1>3. PICK moves \in [cs -> Directions], after \in [Coordinates -> Bit] :
        /\ anyon' = [anyon EXCEPT ![plane] = after]
        /\ emitted' = emitted \cup {<<plane, n, c, moves[c]>> : c \in cs}
        /\ \A c \in Coordinates :
             out'[plane][c] =
               IF c \in cs
               THEN Append(Append(out[plane][c], phi_correction(n, c, moves[c])),
                           reported(n, c, after[c]))
               ELSE Append(out[plane][c], reported(n, c, after[c]))
        /\ n > first_quiet /\ (\A c \in Coordinates : anyon[plane][c] = 0)
             => cs = {} /\ \A c \in Coordinates : after[c] = 0
  BY <1>2
<1>4. /\ \A p \in Planes : p # plane => out'[p] = out[p]
      /\ out' = [p \in Planes |-> [c \in Coordinates |-> out'[p][c]]]
      /\ plane_step' = [plane_step EXCEPT ![plane] = n + 1]
      /\ experiment' = experiment /\ commands' = commands
      /\ frame' = frame /\ replies' = replies
  BY <1>1, Decodes
<1>5. /\ n \in Nat /\ plane_step \in [Planes -> Nat]
      /\ plane_step' \in [Planes -> Nat] /\ plane_step'[plane] = n + 1
      /\ anyon' \in [Planes -> [Coordinates -> Bit]] /\ anyon'[plane] = after
      /\ \A p \in Planes : p # plane =>
           anyon'[p] = anyon[p] /\ plane_step'[p] = plane_step[p]
      /\ emitted \subseteq Corrections /\ first_quiet \in Nat
      /\ first_quiet' = first_quiet
  BY <1>1, <1>3, <1>4, Constants DEF CloseoutTypes, IsExperiment, Fields, first_quiet
<1>6. /\ emitted \subseteq emitted' /\ emitted' \subseteq Corrections
      /\ \A m \in emitted' : m \in emitted \/ (m[1] = plane /\ m[2] = n)
      /\ \A p \in Planes, k \in Nat, c \in Coordinates, d \in Directions :
           <<p, k, c, d>> \in emitted' =>
             \/ <<p, k, c, d>> \in emitted
             \/ p = plane /\ k = n /\ c \in cs /\ d = moves[c]
  <2>1. emitted' = emitted \cup {<<plane, n, c, moves[c]>> : c \in cs}
    BY <1>3
  <2>2. \A c \in cs : <<plane, n, c, moves[c]>> \in Corrections
    BY <1>5 DEF Corrections
  <2>3. emitted \subseteq emitted' /\ emitted' \subseteq Corrections
    BY <1>5, <2>1, <2>2
  <2>4. \A m \in emitted' :
          m \in emitted \/ \E c \in cs : m = <<plane, n, c, moves[c]>>
    BY <2>1
  <2>5. QED
    BY <2>3, <2>4
<1>7. ASSUME NEW c \in Coordinates
      PROVE  LET q == out[plane][c]
                 t == out'[plane][c]
             IN  /\ t \in Seq(Moves(c) \cup Reports(c))
                 /\ InOrder(plane, c)' /\ reached(plane, c)' = reached(plane, c)
                 /\ \A k \in DOMAIN q : k \in DOMAIN t /\ t[k] = q[k]
                 /\ \A k \in DOMAIN t :
                      \/ k \in DOMAIN q
                      \/ t[k] = reported(n, c, after[c])
                      \/ c \in cs /\ t[k] = phi_correction(n, c, moves[c])
                 /\ \E k \in DOMAIN t : t[k] = reported(n, c, after[c])
                 /\ c \in cs =>
                      \E k \in DOMAIN t : t[k] = phi_correction(n, c, moves[c])
  <2>1. /\ CloseoutTypes /\ InOrder(plane, c) /\ emitted \subseteq emitted'
        /\ c \in cs => moves[c] \in Directions
        /\ after[c] \in Bit
        /\ c \in cs => <<plane, plane_step[plane], c, moves[c]>> \in emitted'
        /\ plane_step'[plane] = plane_step[plane] + 1
    BY <1>1, <1>3, <1>5, <1>6
  <2>2. out'[plane][c] =
          IF c \in cs
          THEN Append(Append(out[plane][c],
                             phi_correction(plane_step[plane], c, moves[c])),
                      reported(plane_step[plane], c, after[c]))
          ELSE Append(out[plane][c], reported(plane_step[plane], c, after[c]))
    BY <1>3
  <2>3. EmitsLast(plane, c, cs, moves, after)
    BY <2>1, <2>2, CellEmits
  <2>4. QED
    BY <2>3 DEF EmitsLast
<1>8. ASSUME NEW p \in Planes, p # plane, NEW c \in Coordinates
      PROVE  /\ out'[p][c] = out[p][c]
             /\ InOrder(p, c)' /\ reached(p, c)' = reached(p, c)
             /\ out'[p][c] \in Seq(Moves(c) \cup Reports(c))
  <2>1. out'[p][c] = out[p][c] /\ plane_step'[p] = plane_step[p]
    BY <1>4, <1>5, <1>8
  <2>2. QED
    BY <1>1, <1>6, <2>1, SameEvents, QueueFacts
<1>9. \A p \in Planes, c \in Coordinates :
        /\ out'[p][c] \in Seq(Moves(c) \cup Reports(c))
        /\ InOrder(p, c)' /\ reached(p, c)' = reached(p, c)
        /\ \A k \in DOMAIN out[p][c] :
             k \in DOMAIN out'[p][c] /\ out'[p][c][k] = out[p][c][k]
  <2> SUFFICES ASSUME NEW p \in Planes, NEW c \in Coordinates
               PROVE  /\ out'[p][c] \in Seq(Moves(c) \cup Reports(c))
                      /\ InOrder(p, c)' /\ reached(p, c)' = reached(p, c)
                      /\ \A k \in DOMAIN out[p][c] :
                           /\ k \in DOMAIN out'[p][c]
                           /\ out'[p][c][k] = out[p][c][k]
    OBVIOUS
  <2>1. CASE p = plane
    BY <1>7, <2>1
  <2>2. CASE p # plane
    BY <1>8, <2>2
  <2>3. QED
    BY <2>1, <2>2
<1>10. \A c \in Coordinates : /\ reported(n, c, after[c]).tag = "phi_status"
                              /\ reported(n, c, after[c]).step = n
                              /\ reported(n, c, after[c]).present = after[c]
                              /\ reported(n, c, after[c]).quiet = quiet_from(n)
                              /\ phi_correction(n, c, moves[c]).tag = "phi_correction"
                              /\ phi_correction(n, c, moves[c]).step = n
  BY DEF reported, phi_status, phi_correction
<1>11. logged' = logged
  BY <1>4 DEF logged
<1>12. CloseoutTypes'
  <2>1. /\ IsExperiment(experiment') /\ commands' = [d \in Datas |-> commands'[d]]
        /\ \A d \in Datas : commands'[d] \in Seq(Updates(d) \cup {pauli_query})
        /\ frame' \in [Datas -> Paulis] /\ replies' \in [Datas -> Seq(Bit)]
    BY <1>1, <1>4 DEF CloseoutTypes
  <2>2. /\ IsExperiment(experiment)' /\ commands' = [d \in Datas |-> commands'[d]]
        /\ \A d \in Datas : commands'[d] \in Seq(Updates(d) \cup {pauli_query})
    BY <1>4, <2>1
  <2>3. /\ out' = [p \in Planes |-> [c \in Coordinates |-> out'[p][c]]]
        /\ \A p \in Planes, c \in Coordinates :
             out'[p][c] \in Seq(Moves(c) \cup Reports(c))
    BY <1>4, <1>9
  <2>4. /\ plane_step' \in [Planes -> Nat] /\ emitted' \subseteq Corrections
        /\ anyon' \in [Planes -> [Coordinates -> Bit]]
    BY <1>5, <1>6
  <2>5. frame' \in [Datas -> Paulis] /\ replies' \in [Datas -> Seq(Bit)]
    BY <2>1
  <2>6. QED
    BY <2>2, <2>3, <2>4, <2>5 DEF CloseoutTypes
<1>13. Logs'
  <2>1. \A m \in emitted' : m[2] < plane_step'[m[1]]
    <3>1. \A m \in emitted : m[1] \in Planes /\ m[2] \in Nat /\ m[2] < plane_step[m[1]]
      BY <1>1, <1>5 DEF Logs, Corrections
    <3>2. \A m \in emitted : m[2] < plane_step'[m[1]]
      <4> SUFFICES ASSUME NEW m \in emitted PROVE m[2] < plane_step'[m[1]]
        OBVIOUS
      <4>1. CASE m[1] = plane
        <5>1. m[2] \in Nat /\ m[2] < n
          BY <3>1, <4>1
        <5> HIDE DEF n
        <5>2. QED
          BY <1>5, <4>1, <5>1
      <4>2. CASE m[1] # plane
        BY <1>5, <3>1, <4>2
      <4>3. QED
        BY <4>1, <4>2
    <3>3. n < n + 1
      BY <1>5
    <3>4. QED
      BY <1>5, <1>6, <3>2, <3>3
  <2>2. /\ IsFiniteSet(logged) /\ logged \subseteq emitted
        /\ Len(experiment.correction_log) = Cardinality(logged)
    BY <1>1 DEF Logs
  <2>3. QED
    BY <1>4, <1>6, <1>11, <2>1, <2>2 DEF Logs
<1>14. ASSUME experiment.phase = "draining" PROVE Draining'
  <2>1. /\ \A p \in Planes : Closing(p) /\ Empties(p)
        /\ \A p \in Planes, c \in Coordinates : Hears(p, c)
        /\ common(experiment) = {} /\ experiment.replies = {}
        /\ \A d \in Datas : replies[d] = << >>
        /\ \A d \in Datas : \A k \in DOMAIN commands[d] :
             commands[d][k] # pauli_query
    BY <1>1, <1>14 DEF Draining
  <2>2. \A p \in Planes, c \in Coordinates, d \in Directions :
          <<p, plane_step[p], c, d>> \notin logged
    <3> SUFFICES ASSUME NEW p \in Planes, NEW c \in Coordinates,
                        NEW d \in Directions,
                        <<p, plane_step[p], c, d>> \in logged
                 PROVE  FALSE
      OBVIOUS
    <3>1. <<p, plane_step[p], c, d>>[2] < plane_step[<<p, plane_step[p], c, d>>[1]]
      BY <1>1 DEF Logs
    <3>2. plane_step[p] \in Nat /\ plane_step[p] < plane_step[p]
      BY <1>5, <3>1
    <3>3. QED
      BY <3>2
  <2>3. ASSUME NEW p \in Planes, NEW c \in Coordinates
        PROVE  Hears(p, c)'
    <3>1. Hears(p, c) /\ reached(p, c)' = reached(p, c)
      BY <1>9, <2>1
    <3>2. \A k \in DOMAIN out'[p][c] :
            out'[p][c][k].tag = "phi_correction" =>
              \A direction \in Directions :
                <<p, out'[p][c][k].step, c, direction>> \notin logged
      <4>1. \A k \in DOMAIN out[p][c] :
              out[p][c][k].tag = "phi_correction" =>
                \A direction \in Directions :
                  <<p, out[p][c][k].step, c, direction>> \notin logged
        BY <3>1 DEF Hears
      <4>2. \A k \in DOMAIN out'[p][c] :
              \/ k \in DOMAIN out[p][c] /\ out'[p][c][k] = out[p][c][k]
              \/ p = plane /\ out'[p][c][k].step = n
        <5> SUFFICES ASSUME NEW k \in DOMAIN out'[p][c]
                     PROVE  \/ k \in DOMAIN out[p][c] /\ out'[p][c][k] = out[p][c][k]
                            \/ p = plane /\ out'[p][c][k].step = n
          OBVIOUS
        <5>1. CASE p = plane
          <6>1. \/ k \in DOMAIN out[plane][c]
                \/ out'[plane][c][k] = reported(n, c, after[c])
                \/ out'[plane][c][k] = phi_correction(n, c, moves[c])
            BY <1>7, <5>1
          <6>2. k \in DOMAIN out[plane][c] => out'[plane][c][k] = out[plane][c][k]
            BY <1>7
          <6>3. QED
            BY <1>10, <5>1, <6>1, <6>2
        <5>2. CASE p # plane
          BY <1>8, <5>2
        <5>3. QED
          BY <5>1, <5>2
      <4>3. QED
        BY <4>1, <4>2, <2>2
    <3>3. QED
      BY <1>4, <1>11, <3>1, <3>2 DEF Hears, round
  <2>4. ASSUME NEW p \in Planes PROVE Closing(p)'
    <3>1. \E c \in Coordinates :
            reached(p, c)' = experiment.closed_steps[p] + 1
      <4>1. PICK c \in Coordinates :
              reached(p, c) = experiment.closed_steps[p] + 1
        BY <2>1 DEF Closing
      <4>2. QED
        BY <1>9, <4>1
    <3>2. ASSUME NEW m \in emitted', m[1] = p
          PROVE  m \in logged \/ \E k \in DOMAIN out'[p][m[3]] :
                   out'[p][m[3]][k] = phi_correction(m[2], m[3], m[4])
      <4>1. CASE m \in emitted
        <5>1. m[3] \in Coordinates
          BY <1>5, <4>1 DEF Corrections
        <5>2. m \in logged \/ \E k \in DOMAIN out[p][m[3]] :
                 out[p][m[3]][k] = phi_correction(m[2], m[3], m[4])
          BY <2>1, <3>2, <4>1 DEF Closing
        <5>3. QED
          BY <1>9, <5>1, <5>2
      <4>2. CASE m \notin emitted
        <5>1. PICK c \in cs : m = <<plane, n, c, moves[c]>>
          BY <1>3, <3>2, <4>2
        <5>2. /\ m[1] = plane /\ m[2] = n /\ m[3] = c /\ m[4] = moves[c]
              /\ c \in Coordinates
          BY <5>1
        <5>3. \E k \in DOMAIN out'[plane][c] :
                out'[plane][c][k] = phi_correction(n, c, moves[c])
          BY <1>7, <5>1, <5>2
        <5>4. QED
          BY <3>2, <5>2, <5>3
      <4>3. QED
        BY <4>1, <4>2
    <3>3. QED
      BY <1>4, <1>11, <3>1, <3>2 DEF Closing
  <2>5. \A p \in Planes : p # plane => Empties(p)'
    <3> SUFFICES ASSUME NEW p \in Planes, p # plane PROVE Empties(p)'
      OBVIOUS
    <3>1. /\ Empties(p) /\ out'[p] = out[p] /\ anyon'[p] = anyon[p]
          /\ plane_step'[p] = plane_step[p]
      BY <1>4, <1>5, <2>1
    <3>2. \A m \in emitted' : m[1] = p <=> m \in emitted /\ m[1] = p
      BY <1>6
    <3>3. \A k : Emptied(p, k)' <=> Emptied(p, k)
      BY <1>6, <3>1, <3>2 DEF Emptied
    <3>4. \A k : Shows(p, k)' <=> Shows(p, k)
      BY <1>4, <3>1 DEF Shows, round
    <3>5. \A k : quiet_from(k)' = quiet_from(k)
      BY <1>5 DEF quiet_from
    <3>6. QED
      BY <1>4, <1>5, <3>1, <3>3, <3>4, <3>5 DEF Empties
  <2>6. Empties(plane)'
    <3> DEFINE closed == experiment.closed_steps[plane]
    <3>1. \A c \in Coordinates : closed < reached(plane, c) /\ reached(plane, c) <= n
      BY <1>1, <2>1, ReachedStep DEF Hears
    <3>2. closed \in Nat \cup {-1} /\ closed < n
      <4>1. closed \in Nat \cup {-1}
        BY <1>1 DEF CloseoutTypes, IsExperiment, Fields, NotClosed
      <4>2. PICK c \in Coordinates : TRUE
        BY Constants
      <4>3. reached(plane, c) \in Nat
        BY <1>1, QueueFacts
      <4> HIDE DEF closed
      <4>4. QED
        BY <1>5, <3>1, <4>1, <4>2, <4>3
    <3>3. /\ \A k \in Nat :
               k > closed /\ k < n /\ k >= first_quiet =>
                 Emptied(plane, k) \/ Shows(plane, k)
          /\ \A k \in experiment.zero_steps[plane] :
               k \in Nat /\ k >= first_quiet /\ k <= closed /\ Emptied(plane, k)
          /\ \A c \in Coordinates : \A k \in DOMAIN out[plane][c] :
               out[plane][c][k].tag = "phi_status" =>
                 out[plane][c][k].quiet = quiet_from(out[plane][c][k].step)
          /\ \A r \in experiment.status_rounds :
               r.plane = plane => r.quiet = quiet_from(r.step)
      BY <1>1, <2>1 DEF Empties, CloseoutTypes, IsExperiment, Fields
    <3>4. ASSUME NEW k \in Nat, k >= first_quiet, k < n, Emptied(plane, k)
          PROVE  Emptied(plane, k)'
      <4>1. cs = {} /\ \A c \in Coordinates : after[c] = 0
        BY <1>3, <1>5, <3>4 DEF Emptied
      <4>2. emitted' = emitted
        BY <1>3, <4>1
      <4>3. QED
        BY <1>5, <3>4, <4>1, <4>2 DEF Emptied
    <3>5. ASSUME NEW k \in Nat, Shows(plane, k) PROVE Shows(plane, k)'
      <4>1. round(plane, k, experiment)' = round(plane, k, experiment)
        BY <1>4 DEF round
      <4>2. CASE \E r \in round(plane, k, experiment) : r.present = 1
        BY <4>1, <4>2 DEF Shows
      <4>3. CASE \E c \in Coordinates : \E l \in DOMAIN out[plane][c] :
                   is_status(out[plane][c][l], k) /\ out[plane][c][l].present = 1
        BY <1>9, <4>3 DEF Shows
      <4>4. QED
        BY <3>5, <4>2, <4>3 DEF Shows
    <3>6. ASSUME NEW h \in Nat, h = n
          PROVE  Emptied(plane, h)' \/ Shows(plane, h)'
      <4>1. CASE \A c \in Coordinates : after[c] = 0
        <5>1. \A m \in emitted' : m[1] = plane => m[2] <= h
          <6>1. \A m \in emitted : m[2] \in Nat /\ m[2] < plane_step[m[1]]
            BY <1>1, <1>5 DEF Logs, Corrections
          <6>2. QED
            BY <1>5, <1>6, <3>6, <6>1
        <5>2. QED
          BY <1>5, <4>1, <5>1 DEF Emptied
      <4>2. CASE \E c \in Coordinates : after[c] # 0
        <5>1. PICK c \in Coordinates : after[c] # 0
          BY <4>2
        <5>2. after[c] = 1
          BY <5>1 DEF Bit
        <5>3. PICK k \in DOMAIN out'[plane][c] :
                out'[plane][c][k] = reported(n, c, after[c])
          BY <1>7
        <5>4. is_status(out'[plane][c][k], h) /\ out'[plane][c][k].present = 1
          BY <1>10, <3>6, <5>2, <5>3 DEF is_status
        <5>5. QED
          BY <5>4 DEF Shows
      <4>3. QED
        BY <4>1, <4>2
    <3>7. \A k \in Nat :
            k > closed /\ k < n + 1 /\ k >= first_quiet =>
              Emptied(plane, k)' \/ Shows(plane, k)'
      <4> SUFFICES ASSUME NEW k \in Nat, k > closed, k < n + 1, k >= first_quiet
                   PROVE  Emptied(plane, k)' \/ Shows(plane, k)'
        OBVIOUS
      <4>1. CASE k < n
        <5>1. Emptied(plane, k) \/ Shows(plane, k)
          BY <3>3, <4>1
        <5>2. QED
          BY <3>4, <3>5, <4>1, <5>1
      <4>2. CASE k = n
        BY <3>6, <4>2
      <4>3. n \in Nat
        BY <1>5
      <4>4. k < n \/ k = n
        BY <4>3
      <4>5. QED
        BY <4>1, <4>2, <4>4
    <3>8. \A k \in experiment.zero_steps[plane] :
            k >= first_quiet /\ k <= closed /\ Emptied(plane, k)'
      <4> SUFFICES ASSUME NEW k \in experiment.zero_steps[plane]
                   PROVE  k >= first_quiet /\ k <= closed /\ Emptied(plane, k)'
        OBVIOUS
      <4>1. k \in Nat /\ k >= first_quiet /\ k <= closed /\ Emptied(plane, k)
        BY <3>3
      <4>2. k < n
        <5> HIDE DEF closed
        <5>1. QED
          BY <1>5, <3>2, <4>1
      <4>3. QED
        BY <3>4, <4>1, <4>2
    <3>9. ASSUME NEW c \in Coordinates, NEW k \in DOMAIN out'[plane][c],
                 out'[plane][c][k].tag = "phi_status"
          PROVE  /\ out'[plane][c][k].quiet = quiet_from(out'[plane][c][k].step)
                 /\ out'[plane][c][k].step + 1 = n + 1 =>
                      out'[plane][c][k].present = after[c]
      <4>1. CASE k \in DOMAIN out[plane][c]
        <5>1. out'[plane][c][k] = out[plane][c][k]
          BY <1>9, <4>1
        <5>2. out[plane][c][k].step \in Nat /\ out[plane][c][k].step < n
          BY <1>1, <4>1, QueueFacts DEF InOrder
        <5>3. out[plane][c][k].step + 1 # n + 1
          <6>1. QED
            BY <1>5, <5>2
        <5>4. QED
          BY <3>3, <3>9, <4>1, <5>1, <5>3
      <4>2. CASE out'[plane][c][k] = reported(n, c, after[c])
        BY <1>10, <4>2
      <4>3. out'[plane][c][k] # phi_correction(n, c, moves[c])
        BY <1>10, <3>9
      <4>4. QED
        BY <1>7, <4>1, <4>2, <4>3
    <3>10. ASSUME NEW r \in experiment.status_rounds, r.plane = plane
           PROVE  r.quiet = quiet_from(r.step) /\ r.step + 1 # n + 1
      <4>1. r.step \in Nat /\ r.at \in Coordinates
        BY <1>1 DEF CloseoutTypes, IsExperiment, Fields, Rounds
      <4>2. r \in round(plane, r.step, experiment)
        BY <3>10 DEF round
      <4>3. r.step < reached(plane, r.at)
        BY <2>1, <4>1, <4>2 DEF Hears
      <4>4. reached(plane, r.at) \in Nat
        BY <1>1, <4>1, QueueFacts
      <4>5. reached(plane, r.at) <= n
        BY <3>1, <4>1
      <4>6. r.step + 1 # n + 1
        <5>1. QED
          BY <1>5, <4>1, <4>3, <4>4, <4>5
      <4>7. QED
        BY <3>3, <3>10, <4>6
    <3>11. closed + 1 # n + 1
      <4> HIDE DEF closed
      <4>1. QED
        BY <1>5, <3>2
    <3>13. /\ \A k \in Nat :
                /\ k > experiment'.closed_steps[plane] /\ k < plane_step'[plane]
                /\ k >= first_quiet'
                => Emptied(plane, k)' \/ Shows(plane, k)'
           /\ \A k \in experiment'.zero_steps[plane] :
                /\ k >= first_quiet' /\ k <= experiment'.closed_steps[plane]
                /\ Emptied(plane, k)'
      BY <1>4, <1>5, <3>7, <3>8
    <3>14. \A c \in Coordinates : \A k \in DOMAIN out'[plane][c] :
             LET m == out'[plane][c][k]
             IN  m.tag = "phi_status" =>
                   /\ m.quiet = IF m.step >= first_quiet' THEN 1 ELSE 0
                   /\ m.step + 1 = plane_step'[plane] =>
                        m.present = anyon'[plane][c]
      BY <1>5, <3>9 DEF quiet_from
    <3>15. \A r \in experiment'.status_rounds :
             r.plane = plane =>
               /\ r.quiet = IF r.step >= first_quiet' THEN 1 ELSE 0
               /\ r.step + 1 = plane_step'[plane] =>
                    r.present = anyon'[plane][r.at]
      BY <1>4, <1>5, <3>10 DEF quiet_from
    <3>16. experiment'.closed_steps[plane] + 1 # plane_step'[plane]
      BY <1>4, <1>5, <3>11
    <3>17. QED
      BY <3>13, <3>14, <3>15, <3>16 DEF Empties, quiet_from
  <2>7. common(experiment)' = {} /\ experiment'.replies = {}
    BY <1>4, <2>1 DEF common
  <2>8. QED
    BY <1>4, <2>1, <2>3, <2>4, <2>5, <2>6, <2>7 DEF Draining
<1>15. ASSUME experiment.phase # "draining" PROVE Querying'
  <2>1. /\ emitted \subseteq logged
        /\ \A p \in Planes :
             /\ plane_step[p] > first_quiet
             /\ \A c \in Coordinates :
                  /\ anyon[p][c] = 0
                  /\ \A k \in DOMAIN out[p][c] : out[p][c][k].tag = "phi_status"
        /\ \A d \in Datas : Answering(d)
        /\ experiment.replies \subseteq {<<d, answer(d)>> : d \in Datas}
        /\ experiment.phase = "done"
             <=> \A d \in Datas : <<d, answer(d)>> \in experiment.replies
    BY <1>1, <1>15 DEF Querying
  <2>2. cs = {} /\ \A c \in Coordinates : after[c] = 0
    BY <1>3, <2>1
  <2>3. emitted' \subseteq logged
    BY <1>3, <2>1, <2>2
  <2>4. ASSUME NEW p \in Planes
        PROVE  /\ plane_step'[p] > first_quiet
               /\ \A c \in Coordinates :
                    /\ anyon'[p][c] = 0
                    /\ \A k \in DOMAIN out'[p][c] : out'[p][c][k].tag = "phi_status"
    <3>1. CASE p = plane
      <4>1. n + 1 > first_quiet
        BY <1>5, <2>1
      <4>2. \A c \in Coordinates : \A k \in DOMAIN out'[plane][c] :
              out'[plane][c][k].tag = "phi_status"
        <5> SUFFICES ASSUME NEW c \in Coordinates, NEW k \in DOMAIN out'[plane][c]
                     PROVE  out'[plane][c][k].tag = "phi_status"
          OBVIOUS
        <5>1. \/ k \in DOMAIN out[plane][c]
              \/ out'[plane][c][k] = reported(n, c, after[c])
              \/ c \in cs
          BY <1>7
        <5>2. k \in DOMAIN out[plane][c] => out'[plane][c][k] = out[plane][c][k]
          BY <1>7
        <5>3. QED
          BY <1>10, <2>1, <2>2, <5>1, <5>2
      <4>3. QED
        BY <1>5, <2>2, <3>1, <4>1, <4>2
    <3>2. CASE p # plane
      BY <1>4, <1>5, <2>1, <3>2
    <3>3. QED
      BY <3>1, <3>2
  <2>5. \A d \in Datas : answer(d)' = answer(d)
    BY <1>11 DEF answer, on
  <2>6. \A d \in Datas : Answering(d)'
    BY <1>4, <2>1, <2>5 DEF Answering
  <2>7. QED
    BY <1>4, <1>5, <1>11, <2>1, <2>3, <2>4, <2>5, <2>6 DEF Querying
<1>16. \A d \in Datas : Framed(d)'
  BY <1>1, <1>4, <1>11 DEF Framed, on
<1>17. (experiment.phase # "draining" => Draining')
       /\ (experiment.phase = "draining" => Querying')
  BY <1>4 DEF Draining, Querying
<1>18. QED
  BY <1>9, <1>12, <1>13, <1>14, <1>15, <1>16, <1>17 DEF CloseoutInv

-----------------------------------------------------------------------------
(* A command is appended to the commands of the data cells it is for.      *)
LEMMA SubmitsNone ==
  ASSUME CloseoutTypes, NEW e
  PROVE  submitted(done(e)) = commands
<1>1. done(e).commands = << >>
  BY DEF done
<1>2. Range(<< >>) = {}
  BY DEF Range
<1>3. submitted(done(e)) = [d \in Datas |-> commands[d]]
  BY <1>1, <1>2 DEF submitted
<1>4. QED
  BY <1>3 DEF CloseoutTypes

(* A command reaches the data cells it is for.                             *)
LEMMA SubmitsOne ==
  ASSUME CloseoutTypes, NEW e, NEW command
  PROVE  submitted(submit(e, command)) =
           [d \in Datas |->
              IF command.tag = "pauli_query" \/ command.data = d
              THEN Append(commands[d], command)
              ELSE commands[d]]
<1>1. submit(e, command).commands = <<command>>
  BY DEF submit
<1>2. Range(<<command>>) = {command}
  BY DEF Range
<1>3. ASSUME NEW d \in Datas
      PROVE  commands[d] \o <<command>> = Append(commands[d], command)
  <2>1. commands[d] \in Seq(Updates(d) \cup {pauli_query})
    BY DEF CloseoutTypes
  <2> DEFINE q == commands[d]
             S == Updates(d) \cup {pauli_query}
  <2>2. q \in Seq(S \cup {command})
    <3>1. Seq(S) \subseteq Seq(S \cup {command})
      OBVIOUS
    <3>2. QED
      BY <2>1, <3>1
  <2> HIDE DEF q, S
  <2>3. q \o <<command>> = Append(q, command)
    BY <2>2, AppendedOne
  <2>4. QED
    BY <2>3 DEF q
<1>4. QED
  BY <1>1, <1>2, <1>3 DEF submitted

(* A correction that comes while the experiment drains is new to it.       *)
LEMMA CorrectionIsNew ==
  ASSUME CloseoutInv, experiment.phase = "draining",
         NEW plane \in Planes, NEW c \in Coordinates, out[plane][c] # << >>,
         Head(out[plane][c]).tag = "phi_correction"
  PROVE  LET m == Head(out[plane][c])
             u == <<plane, m.step, c, m.direction>>
         IN  /\ m.step \in Nat /\ m.direction \in Directions /\ m.at = c
             /\ u \in emitted /\ u \notin logged
             /\ decoder_event(plane, m, experiment) =
                  submit([experiment EXCEPT
                            !.seen_corrections = @ \cup {<<plane, m.step, c>>},
                            !.correction_log = Append(@, u)],
                         pauli_update(data_of[plane][c][m.direction],
                                      correction_pauli[plane]))
<1> DEFINE q == out[plane][c]
           m == Head(q)
<1>1. /\ CloseoutTypes /\ Logs /\ InOrder(plane, c) /\ Hears(plane, c)
  BY DEF CloseoutInv, Draining
<1>2. /\ q \in Seq(Moves(c) \cup Reports(c)) /\ q # << >> /\ 1 \in DOMAIN q
      /\ m = q[1] /\ m \in Moves(c) \cup Reports(c)
  <2>1. q \in Seq(Moves(c) \cup Reports(c)) /\ q # << >>
    BY <1>1, QueueFacts
  <2> HIDE DEF q
  <2>2. QED
    BY <2>1, FirstTaken
<1>3. m.step \in Nat /\ m.at = c /\ m.direction \in Directions
  BY <1>2, EventFacts
<1>4. reached(plane, c) = m.step
  BY <1>2 DEF reached
<1>5. <<plane, m.step, c, m.direction>> \in emitted
  BY <1>1, <1>2 DEF InOrder
<1>6. \A direction \in Directions :
        <<plane, m.step, c, direction>> \notin logged
  BY <1>1, <1>2 DEF Hears
<1>7. <<plane, m.step, c>> \notin experiment.seen_corrections
  BY <1>1, <1>3, <1>6 DEF Hears
<1>8. ~ step_closed(plane, m.step, experiment)
  <2>1. experiment.closed_steps[plane] < m.step
    BY <1>1, <1>4 DEF Hears
  <2>2. experiment.closed_steps[plane] \in Int
    BY <1>1 DEF CloseoutTypes, IsExperiment, Fields, NotClosed
  <2>3. QED
    BY <1>3, <2>1, <2>2 DEF step_closed
<1> HIDE DEF m
<1>9. decoder_event(plane, m, experiment) = correction(plane, m, experiment)
  BY DEF decoder_event, m
<1>10. correction(plane, m, experiment) =
         submit([experiment EXCEPT
                   !.seen_corrections = @ \cup {<<plane, m.step, c>>},
                   !.correction_log = Append(@, <<plane, m.step, c, m.direction>>)],
                pauli_update(data_of[plane][c][m.direction],
                             correction_pauli[plane]))
  BY <1>3, <1>7, <1>8 DEF correction, correction_key
<1>11. QED
  BY <1>3, <1>5, <1>6, <1>9, <1>10 DEF m

(* A correction.  It is in the log from then on, and its data cell has one *)
(* more update underway.                                                   *)
LEMMA CorrectionInv ==
  ASSUME CloseoutInv, experiment.phase = "draining",
         NEW plane \in Planes, NEW c \in Coordinates,
         receive_decoder_event(plane, c),
         Head(out[plane][c]).tag = "phi_correction"
  PROVE  CloseoutInv'
<1> DEFINE m == Head(out[plane][c])
           u == <<plane, m.step, c, m.direction>>
           d0 == data_of[plane][c][m.direction]
           update == pauli_update(d0, correction_pauli[plane])
<1>1. /\ CloseoutTypes /\ Logs /\ Draining /\ Querying
      /\ \A p \in Planes, a \in Coordinates : InOrder(p, a)
      /\ \A d \in Datas : Framed(d)
  BY DEF CloseoutInv
<1>2. /\ out[plane][c] # << >>
      /\ out' = [out EXCEPT ![plane][c] = Tail(@)]
      /\ consume(decoder_event(plane, m, experiment))
      /\ plane_step' = plane_step /\ anyon' = anyon /\ frame' = frame
      /\ replies' = replies /\ emitted' = emitted
  BY DEF receive_decoder_event
<1>3. /\ m.step \in Nat /\ m.direction \in Directions /\ m.at = c
      /\ u \in emitted /\ u \notin logged
      /\ decoder_event(plane, m, experiment) =
           submit([experiment EXCEPT
                     !.seen_corrections = @ \cup {<<plane, m.step, c>>},
                     !.correction_log = Append(@, u)], update)
  BY <1>2, CorrectionIsNew
<1>4. LET q == out[plane][c]
      IN  /\ m = q[1] /\ m \in Moves(c) \cup Reports(c) /\ 1 \in DOMAIN q
          /\ out' = [p \in Planes |-> [a \in Coordinates |-> out'[p][a]]]
          /\ \A p \in Planes, a \in Coordinates :
               /\ out'[p][a] \in Seq(Moves(a) \cup Reports(a))
               /\ p # plane \/ a # c =>
                    out'[p][a] = out[p][a] /\ reached(p, a)' = reached(p, a)
               /\ InOrder(p, a)'
          /\ \A k \in DOMAIN out'[plane][c] :
               k + 1 \in DOMAIN q /\ out'[plane][c][k] = q[k + 1]
          /\ \A k \in DOMAIN q :
               k # 1 => k - 1 \in DOMAIN out'[plane][c]
                        /\ out'[plane][c][k - 1] = q[k]
          /\ reached(plane, c) = m.step
          /\ reached(plane, c)' =
               IF m.tag = "phi_correction" THEN m.step ELSE m.step + 1
  BY <1>1, <1>2, TakesEvent
<1>5. \A p \in Planes, a \in Coordinates : reached(p, a)' = reached(p, a)
  BY <1>4
<1>6. /\ d0 \in Datas /\ update \in Updates(d0) /\ update.tag = "pauli_update"
      /\ update.data = d0 /\ update # pauli_query
  BY <1>3, Constants DEF Updates, pauli_update, pauli_query
<1>7. /\ experiment' = [experiment EXCEPT
                          !.seen_corrections = @ \cup {<<plane, m.step, c>>},
                          !.correction_log = Append(@, u)]
      /\ commands' = [d \in Datas |-> IF d0 = d THEN Append(commands[d], update)
                                      ELSE commands[d]]
  <2> DEFINE e == [experiment EXCEPT
                     !.seen_corrections = @ \cup {<<plane, m.step, c>>},
                     !.correction_log = Append(@, u)]
  <2> HIDE DEF m, update, d0, e, u
  <2>1. experiment' = submit(e, update).state /\ commands' = submitted(submit(e, update))
    BY <1>2, <1>3 DEF consume, e
  <2>2. submit(e, update).state = e
    BY DEF submit
  <2>3. submitted(submit(e, update)) =
          [d \in Datas |->
             IF update.tag = "pauli_query" \/ update.data = d
             THEN Append(commands[d], update) ELSE commands[d]]
    BY <1>1, SubmitsOne
  <2>4. QED
    BY <1>6, <2>1, <2>2, <2>3 DEF e
<1> HIDE DEF m, update, d0
<1>8. /\ experiment.correction_log \in Seq(Corrections) /\ u \in Corrections
      /\ experiment.phase = "draining"
      /\ experiment = [phase |-> experiment.phase,
                       cutoff_step |-> experiment.cutoff_step,
                       status_rounds |-> experiment.status_rounds,
                       closed_steps |-> experiment.closed_steps,
                       zero_steps |-> experiment.zero_steps,
                       seen_corrections |-> experiment.seen_corrections,
                       correction_log |-> experiment.correction_log,
                       replies |-> experiment.replies,
                       closeout_step |-> experiment.closeout_step]
  BY <1>1, <1>3 DEF CloseoutTypes, IsExperiment, Fields, Corrections
<1>9. /\ experiment'.phase = "draining"
      /\ experiment'.cutoff_step = experiment.cutoff_step
      /\ experiment'.status_rounds = experiment.status_rounds
      /\ experiment'.closed_steps = experiment.closed_steps
      /\ experiment'.zero_steps = experiment.zero_steps
      /\ experiment'.seen_corrections =
           experiment.seen_corrections \cup {<<plane, m.step, c>>}
      /\ experiment'.correction_log = Append(experiment.correction_log, u)
      /\ experiment'.replies = experiment.replies
      /\ experiment'.closeout_step = experiment.closeout_step
      /\ experiment' = [phase |-> experiment'.phase,
                        cutoff_step |-> experiment'.cutoff_step,
                        status_rounds |-> experiment'.status_rounds,
                        closed_steps |-> experiment'.closed_steps,
                        zero_steps |-> experiment'.zero_steps,
                        seen_corrections |-> experiment'.seen_corrections,
                        correction_log |-> experiment'.correction_log,
                        replies |-> experiment'.replies,
                        closeout_step |-> experiment'.closeout_step]
  BY <1>7, <1>8
<1>10. experiment'.correction_log \in Seq(Corrections)
  BY <1>8, <1>9
<1>11. CloseoutTypes'
  <2>1. IsExperiment(experiment')
    BY <1>1, <1>9, <1>10 DEF CloseoutTypes, IsExperiment, Fields
  <2>2. \A d \in Datas : commands'[d] \in Seq(Updates(d) \cup {pauli_query})
    <3> SUFFICES ASSUME NEW d \in Datas
                 PROVE  commands'[d] \in Seq(Updates(d) \cup {pauli_query})
      OBVIOUS
    <3>1. commands[d] \in Seq(Updates(d) \cup {pauli_query})
      BY <1>1 DEF CloseoutTypes
    <3>2. CASE d0 = d
      <4>1. update \in Updates(d) \cup {pauli_query}
        BY <1>6, <3>2
      <4>2. commands'[d] = Append(commands[d], update)
        BY <1>7, <3>2
      <4>3. QED
        BY <3>1, <4>1, <4>2, AppendedOne
    <3>3. CASE d0 # d
      BY <1>7, <3>1, <3>3
    <3>4. QED
      BY <3>2, <3>3
  <2>3. commands' = [d \in Datas |-> commands'[d]]
    BY <1>7
  <2>4. QED
    BY <1>1, <1>2, <1>4, <2>1, <2>2, <2>3 DEF CloseoutTypes
<1>12. logged' = logged \cup {u}
  <2> DEFINE log == experiment.correction_log
             n == Len(log)
  <2>1. /\ DOMAIN log = 1 .. n /\ DOMAIN Append(log, u) = 1 .. n + 1
        /\ n \in Nat /\ \A k \in 1 .. n : Append(log, u)[k] = log[k]
        /\ Append(log, u)[n + 1] = u
    BY <1>8, AppendedOne
  <2> HIDE DEF n
  <2>2. \A k : k \in 1 .. n + 1 <=> k \in 1 .. n \/ k = n + 1
    BY <2>1
  <2>3. logged = {log[k] : k \in 1 .. n}
    BY <2>1 DEF logged
  <2>4. logged' = {Append(log, u)[k] : k \in 1 .. n + 1}
    BY <1>9, <2>1 DEF logged
  <2>5. QED
    BY <2>1, <2>2, <2>3, <2>4
<1>13. Logs'
  <2>1. Len(experiment'.correction_log) = Len(experiment.correction_log) + 1
    BY <1>8, <1>9
  <2>2. /\ IsFiniteSet(logged) /\ logged \subseteq emitted
        /\ Len(experiment.correction_log) = Cardinality(logged)
    BY <1>1 DEF Logs
  <2>3. /\ IsFiniteSet(logged \cup {u})
        /\ Cardinality(logged \cup {u}) = Cardinality(logged) + 1
    BY <1>3, <2>2, FS_AddElement
  <2>4. QED
    BY <1>1, <1>2, <1>3, <1>12, <2>1, <2>2, <2>3 DEF Logs
<1>14. /\ \A p \in Planes : Closing(p) /\ Empties(p)
       /\ \A p \in Planes, a \in Coordinates : Hears(p, a)
       /\ common(experiment) = {} /\ experiment.replies = {}
       /\ \A d \in Datas : replies[d] = << >>
       /\ \A d \in Datas : \A k \in DOMAIN commands[d] :
            commands[d][k] # pauli_query
  BY <1>1 DEF Draining
<1>15. ASSUME NEW p \in Planes PROVE Closing(p)'
  <2>1. \E a \in Coordinates :
          reached(p, a)' = experiment'.closed_steps[p] + 1
    BY <1>5, <1>9, <1>14 DEF Closing
  <2>2. ASSUME NEW v \in emitted, v[1] = p, v \notin logged', 
               NEW k \in DOMAIN out[p][v[3]],
               out[p][v[3]][k] = phi_correction(v[2], v[3], v[4])
        PROVE  \E l \in DOMAIN out'[p][v[3]] :
                 out'[p][v[3]][l] = phi_correction(v[2], v[3], v[4])
    <3>1. v = <<v[1], v[2], v[3], v[4]>> /\ v[3] \in Coordinates
      BY <1>1 DEF CloseoutTypes, Corrections
    <3>2. CASE p = plane /\ v[3] = c
      <4>1. k # 1
        <5> SUFFICES ASSUME k = 1 PROVE FALSE
          OBVIOUS
        <5>1. m = phi_correction(v[2], v[3], v[4])
          BY <1>4, <2>2, <3>2
        <5>2. m.step = v[2] /\ m.direction = v[4]
          BY <5>1 DEF phi_correction
        <5>3. v = u
          BY <2>2, <3>1, <3>2, <5>2
        <5>4. QED
          BY <1>12, <2>2, <5>3
      <4>2. QED
        BY <1>4, <2>2, <3>2, <4>1
    <3>3. CASE p # plane \/ v[3] # c
      <4>1. out'[p][v[3]] = out[p][v[3]]
        BY <1>4, <3>1, <3>3
      <4>2. QED
        BY <2>2, <4>1
    <3>4. QED
      BY <3>2, <3>3
  <2>3. \A v \in emitted : v[1] = p =>
          v \in logged \/ \E k \in DOMAIN out[p][v[3]] :
                            out[p][v[3]][k] = phi_correction(v[2], v[3], v[4])
    BY <1>14 DEF Closing
  <2>4. \A v \in emitted' : v[1] = p =>
          v \in logged' \/ \E k \in DOMAIN out'[p][v[3]] :
                             out'[p][v[3]][k] = phi_correction(v[2], v[3], v[4])
    BY <1>2, <1>12, <2>2, <2>3
  <2>5. QED
    BY <2>1, <2>4 DEF Closing
<1>16. ASSUME NEW p \in Planes, NEW a \in Coordinates, NEW k \in DOMAIN out'[p][a]
       PROVE  \/ k \in DOMAIN out[p][a] /\ out'[p][a][k] = out[p][a][k]
              \/ k + 1 \in DOMAIN out[p][a] /\ out'[p][a][k] = out[p][a][k + 1]
  BY <1>4
<1>17. ASSUME NEW p \in Planes PROVE Empties(p)'
  <2>1. Empties(p) /\ first_quiet' = first_quiet
    BY <1>9, <1>14 DEF first_quiet
  <2>2. \A n : Emptied(p, n)' <=> Emptied(p, n)
    BY <1>2 DEF Emptied
  <2>3. ASSUME NEW n, Shows(p, n) PROVE Shows(p, n)'
    <3>1. round(p, n, experiment)' = round(p, n, experiment)
      BY <1>9 DEF round
    <3>2. CASE \E r \in round(p, n, experiment) : r.present = 1
      BY <3>1, <3>2 DEF Shows
    <3>3. CASE \E a \in Coordinates : \E k \in DOMAIN out[p][a] :
                 is_status(out[p][a][k], n) /\ out[p][a][k].present = 1
      <4>1. PICK a \in Coordinates : \E k \in DOMAIN out[p][a] :
                   is_status(out[p][a][k], n) /\ out[p][a][k].present = 1
        BY <3>3
      <4>2. PICK k \in DOMAIN out[p][a] :
                   is_status(out[p][a][k], n) /\ out[p][a][k].present = 1
        BY <4>1
      <4>3. CASE p = plane /\ a = c
        <5>1. k # 1
          BY <1>4, <4>2, <4>3 DEF is_status, m
        <5>2. k - 1 \in DOMAIN out'[p][a] /\ out'[p][a][k - 1] = out[p][a][k]
          BY <1>4, <4>2, <4>3, <5>1
        <5>3. QED
          BY <4>2, <5>2 DEF Shows
      <4>4. CASE p # plane \/ a # c
        <5>1. out'[p][a] = out[p][a]
          BY <1>4, <4>4
        <5>2. QED
          BY <4>2, <5>1 DEF Shows
      <4>5. QED
        BY <4>3, <4>4
    <3>4. QED
      BY <2>3, <3>2, <3>3 DEF Shows
  <2>4. \A n : quiet_from(n)' = quiet_from(n)
    BY <2>1 DEF quiet_from
  <2>5. \A a \in Coordinates : \A k \in DOMAIN out'[p][a] :
          LET v == out'[p][a][k]
          IN  v.tag = "phi_status" =>
                /\ v.quiet = quiet_from(v.step)
                /\ v.step + 1 = plane_step[p] => v.present = anyon[p][a]
    BY <1>16, <2>1 DEF Empties
  <2>6. \A n \in Nat :
          /\ n > experiment.closed_steps[p] /\ n < plane_step[p]
          /\ n >= first_quiet
          => Emptied(p, n)' \/ Shows(p, n)'
    BY <2>1, <2>2, <2>3 DEF Empties
  <2>7. \A n \in experiment.zero_steps[p] :
          /\ n >= first_quiet /\ n <= experiment.closed_steps[p]
          /\ Emptied(p, n)'
    BY <2>1, <2>2 DEF Empties
  <2>8. \A r \in experiment.status_rounds :
          r.plane = p =>
            /\ r.quiet = quiet_from(r.step)
            /\ r.step + 1 = plane_step[p] => r.present = anyon[p][r.at]
    BY <2>1 DEF Empties
  <2>9. \A n : /\ n = experiment.closed_steps[p] /\ n + 1 = plane_step[p]
               /\ n >= first_quiet /\ Emptied(p, n)'
               => n \in experiment.zero_steps[p]
    BY <2>1, <2>2 DEF Empties
  <2>10. QED
    BY <1>2, <1>9, <2>1, <2>4, <2>5, <2>6, <2>7, <2>8, <2>9 DEF Empties
<1>18. ASSUME NEW p \in Planes, NEW a \in Coordinates PROVE Hears(p, a)'
  <2>1. Hears(p, a) /\ reached(p, a)' = reached(p, a)
    BY <1>5, <1>14
  <2>2. \A n : round(p, n, experiment)' = round(p, n, experiment)
    BY <1>9 DEF round
  <2>3. \A n \in Nat :
          <<p, n, a>> \in experiment'.seen_corrections =>
            \E direction \in Directions : <<p, n, a, direction>> \in logged'
    <3> SUFFICES ASSUME NEW n \in Nat, <<p, n, a>> \in experiment'.seen_corrections
                 PROVE  \E direction \in Directions :
                          <<p, n, a, direction>> \in logged'
      OBVIOUS
    <3>1. CASE <<p, n, a>> \in experiment.seen_corrections
      BY <1>12, <2>1, <3>1 DEF Hears
    <3>2. CASE <<p, n, a>> = <<plane, m.step, c>>
      BY <1>3, <1>12, <3>2
    <3>3. QED
      BY <1>9, <3>1, <3>2
  <2>4. ASSUME NEW k \in DOMAIN out'[p][a], out'[p][a][k].tag = "phi_correction",
               NEW direction \in Directions
        PROVE  <<p, out'[p][a][k].step, a, direction>> \notin logged'
    <3>1. <<p, out'[p][a][k].step, a, direction>> \notin logged
      BY <1>16, <2>1, <2>4 DEF Hears
    <3>2. CASE p = plane /\ a = c
      <4>1. k + 1 \in DOMAIN out[plane][c] /\ 1 \in DOMAIN out[plane][c]
            /\ out'[p][a][k] = out[plane][c][k + 1] /\ m = out[plane][c][1]
        BY <1>4, <2>4, <3>2
      <4>2. 1 < k + 1
        <5>1. k \in Nat \ {0}
          <6> DEFINE t == out'[plane][c]
          <6>1. t \in Seq(Moves(c) \cup Reports(c)) /\ k \in DOMAIN t
            BY <1>4, <2>4, <3>2
          <6> HIDE DEF t
          <6>2. QED
            BY <6>1
        <5>2. QED
          BY <5>1
      <4>3. m.step < out'[p][a][k].step
        BY <1>1, <2>4, <4>1, <4>2 DEF InOrder
      <4>4. out'[p][a][k].step # m.step
        BY <1>3, <4>3
      <4>5. QED
        BY <1>12, <3>1, <4>4
    <3>3. CASE p # plane \/ a # c
      BY <1>12, <3>1, <3>3
    <3>4. QED
      BY <3>2, <3>3
  <2>5. QED
    BY <1>9, <2>1, <2>2, <2>3, <2>4 DEF Hears
<1>19. Draining'
  <2>1. common(experiment)' = {}
    BY <1>9, <1>14 DEF common
  <2>2. \A d \in Datas : \A k \in DOMAIN commands'[d] :
          commands'[d][k] # pauli_query
    <3> SUFFICES ASSUME NEW d \in Datas
                 PROVE  \A k \in DOMAIN commands'[d] :
                          commands'[d][k] # pauli_query
      OBVIOUS
    <3>1. CASE d0 = d
      <4>1. /\ commands[d] \in Seq(Updates(d) \cup {pauli_query})
            /\ update \in Updates(d) \cup {pauli_query}
        BY <1>1, <1>6, <3>1 DEF CloseoutTypes
      <4> DEFINE q == commands[d]
                 n == Len(q)
                 t == Append(q, update)
      <4>2. /\ DOMAIN q = 1 .. n /\ DOMAIN t = 1 .. n + 1 /\ n \in Nat
            /\ \A k \in 1 .. n : t[k] = q[k]
            /\ t[n + 1] = update
        BY <4>1, AppendedOne
      <4>3. \A k \in DOMAIN q : q[k] # pauli_query
        BY <1>14
      <4>4. commands'[d] = t
        BY <1>7, <3>1
      <4> HIDE DEF q, n, t
      <4>5. \A k \in 1 .. n + 1 : k \in 1 .. n \/ k = n + 1
        BY <4>2
      <4>6. QED
        BY <1>6, <4>2, <4>3, <4>4, <4>5
    <3>2. CASE d0 # d
      BY <1>7, <1>14, <3>2
    <3>3. QED
      BY <3>1, <3>2
  <2>3. QED
    BY <1>2, <1>9, <1>14, <1>15, <1>17, <1>18, <2>1, <2>2 DEF Draining
<1>20. Querying'
  BY <1>9 DEF Querying
<1>21. \A d \in Datas : Framed(d)'
  <2> SUFFICES ASSUME NEW d \in Datas, NEW p \in Planes
               PROVE  part(p, frame[d]) =
                        (Cardinality(on(p, d)')
                           + Cardinality(positions(commands'[d],
                               pauli_update(d, correction_pauli[p])))) % 2
    BY <1>2 DEF Framed
  <2> DEFINE up == pauli_update(d, correction_pauli[p])
             C == Cardinality(on(p, d))
             P == Cardinality(positions(commands[d], up))
  <2>1. part(p, frame[d]) = (C + P) % 2
    BY <1>1 DEF Framed
  <2>2. IsFiniteSet(on(p, d)) /\ C \in Nat
    <3>1. IsFiniteSet(logged) /\ on(p, d) \in SUBSET logged
      BY <1>1 DEF Logs, on
    <3>2. QED
      BY <3>1, FS_Subset, FS_CardinalityType
  <2>3. commands[d] \in Seq(Updates(d) \cup {pauli_query})
    BY <1>1 DEF CloseoutTypes
  <2>4. P \in Nat
    BY <2>3, Occurs
  <2>5. u[1] = plane /\ u[3] = c /\ u[4] = m.direction
    OBVIOUS
  <2>6. CASE d0 = d /\ p = plane
    <3>1. on(p, d)' = on(p, d) \cup {u} /\ u \notin on(p, d)
      BY <1>3, <1>12, <2>5, <2>6 DEF on, d0
    <3>2. Cardinality(on(p, d)') = C + 1
      BY <2>2, <3>1, FS_AddElement
    <3>3. update = up /\ update \in Updates(d) \cup {pauli_query}
          /\ commands'[d] = Append(commands[d], update)
      BY <1>6, <1>7, <2>6 DEF update
    <3>4. Cardinality(positions(commands'[d], up)) = P + 1
      BY <2>3, <3>3, OccursOnceMore
    <3> HIDE DEF C, P, up
    <3>5. (C + 1 + (P + 1)) % 2 = (C + P) % 2
      BY <2>2, <2>4
    <3>6. QED
      BY <2>1, <3>2, <3>4, <3>5 DEF up
  <2>7. CASE d0 = d /\ p # plane
    <3>1. on(p, d)' = on(p, d)
      BY <1>12, <2>5, <2>7 DEF on
    <3>2. update # up /\ update \in Updates(d) \cup {pauli_query}
          /\ commands'[d] = Append(commands[d], update)
      <4>1. correction_pauli[p] # correction_pauli[plane]
        BY <2>7, Constants
      <4>2. QED
        BY <1>6, <1>7, <2>7, <4>1 DEF update, pauli_update
    <3>3. Cardinality(positions(commands'[d], up)) = P
      <4> HIDE DEF up
      <4>1. Cardinality(positions(commands'[d], up)) =
              Cardinality(positions(commands[d], up)) + 0
        BY <2>3, <3>2, OccursOnceMore
      <4>2. QED
        BY <2>4, <4>1 
    <3>4. QED
      BY <2>1, <3>1, <3>3
  <2>8. CASE d0 # d
    <3>1. on(p, d)' = on(p, d) /\ commands'[d] = commands[d]
      BY <1>7, <1>12, <2>5, <2>8 DEF on, d0
    <3>2. QED
      BY <2>1, <3>1
  <2>9. QED
    BY <2>6, <2>7, <2>8
<1>22. QED
  BY <1>4, <1>11, <1>13, <1>19, <1>20, <1>21 DEF CloseoutInv

(* What a status adds to the rounds, and the round of its step.            *)
row(plane, m) ==
  [plane |-> plane, step |-> m.step, at |-> m.at,
   present |-> m.present, quiet |-> m.quiet]

with_row(plane, m) == experiment.status_rounds \cup {row(plane, m)}

quiet_row(r) == r.present = 0 /\ r.quiet = 1

zero(plane, m) ==
  IF /\ \A r \in with_row(plane, m) :
          r.plane = plane /\ r.step = m.step => quiet_row(r)
     /\ m.step >= first_quiet
  THEN {m.step} ELSE {}

(* The status leaves its round open.                                       *)
KeepsOpen(plane, c, m, outcome) ==
  /\ outcome.state = [experiment EXCEPT !.status_rounds = with_row(plane, m)]
  /\ submitted(outcome) = commands
  /\ \E a \in Coordinates :
       a # c /\ \A r \in round(plane, m.step, experiment) : r.at # a

(* The status closes its round.                                            *)
ClosesRound(plane, c, m, outcome) ==
  LET e == outcome.state
  IN  /\ IsExperiment(e)
      /\ e.cutoff_step = experiment.cutoff_step
      /\ e.correction_log = experiment.correction_log
      /\ e.replies = experiment.replies
      /\ e.seen_corrections \subseteq experiment.seen_corrections
      /\ \A a \in Coordinates :
           a # c => \E r \in round(plane, m.step, experiment) : r.at = a
      /\ e.closed_steps = [experiment.closed_steps EXCEPT ![plane] = m.step]
      /\ e.status_rounds =
           {r \in with_row(plane, m) : r.plane # plane \/ r.step # m.step}
      /\ \A p \in Planes :
           LET known == IF p = plane
                        THEN experiment.zero_steps[p] \cup zero(plane, m)
                        ELSE experiment.zero_steps[p]
           IN  /\ e.zero_steps[p] \subseteq known
               /\ \A s \in known : s >= e.closed_steps[p] => s \in e.zero_steps[p]
      /\ IF common(e) = {}
         THEN e.phase = "draining" /\ submitted(outcome) = commands
         ELSE /\ e.phase = "querying"
              /\ submitted(outcome) =
                   [d \in Datas |-> Append(commands[d], pauli_query)]

(* The fields of the state in which a round is closed.                     *)
taken(r, p, n, R, S, Z) ==
  [r EXCEPT !.status_rounds = R, !.closed_steps[p] = n,
            !.zero_steps[p] = @ \cup Z, !.seen_corrections = S]

(* The state t after a round is closed in r.                               *)
IsTaken(t, r, p, n, R, S, Z) ==
  /\ Fields(t) /\ t.phase = r.phase
  /\ t.cutoff_step = r.cutoff_step /\ t.status_rounds = R
  /\ t.closed_steps = [r.closed_steps EXCEPT ![p] = n]
  /\ t.zero_steps = [r.zero_steps EXCEPT ![p] = @ \cup Z]
  /\ t.seen_corrections = S /\ t.correction_log = r.correction_log
  /\ t.replies = r.replies

(* Closing a round changes four fields.                                    *)
LEMMA RoundTaken ==
  ASSUME NEW r, Fields(r), NEW p, NEW n, NEW R, NEW S, NEW Z
  PROVE  IsTaken(taken(r, p, n, R, S, Z), r, p, n, R, S, Z)
<1> DEFINE a == r.phase
           b == r.cutoff_step
           c == r.status_rounds
           d == r.closed_steps
           e == r.zero_steps
           f == r.seen_corrections
           g == r.correction_log
           h == r.replies
           j == r.closeout_step
           D == [d EXCEPT ![p] = n]
           V == e[p] \cup Z
           E == [e EXCEPT ![p] = V]
<1>9. D = [d EXCEPT ![p] = n] /\ E = [e EXCEPT ![p] = V] /\ V = e[p] \cup Z
  OBVIOUS
<1>0. r = [phase |-> a, cutoff_step |-> b, status_rounds |-> c,
           closed_steps |-> d, zero_steps |-> e, seen_corrections |-> f,
           correction_log |-> g, replies |-> h, closeout_step |-> j]
  BY DEF Fields
<1> HIDE DEF a, b, c, d, e, f, g, h, j, D, E, V
<1> DEFINE r1 == [r EXCEPT !.status_rounds = R]
           r2 == [r1 EXCEPT !.closed_steps[p] = n]
           r3 == [r2 EXCEPT !.zero_steps[p] = @ \cup Z]
           r4 == [r3 EXCEPT !.seen_corrections = S]
           record(C, D1, E1, F) ==
             [phase |-> a, cutoff_step |-> b, status_rounds |-> C,
              closed_steps |-> D1, zero_steps |-> E1, seen_corrections |-> F,
              correction_log |-> g, replies |-> h, closeout_step |-> j]
<1>1. taken(r, p, n, R, S, Z) = r4
  BY DEF taken
<1>2. r1 = record(R, d, e, f)
  BY <1>0
<1> HIDE DEF r1
<1>3. r2 = record(R, D, e, f)
  <2>1. r2 = record(R, [d EXCEPT ![p] = n], e, f)
    BY <1>2
  <2> HIDE DEF r2
  <2>2. QED
    BY <1>9, <2>1
<1> HIDE DEF r2
<1>4. r3 = record(R, D, E, f)
  <2>1. V = r2.zero_steps[p] \cup Z
    BY <1>3, <1>9
  <2>2. r3 = [r2 EXCEPT !.zero_steps[p] = V]
    BY <2>1
  <2> HIDE DEF r3
  <2>3. r3 = record(R, D, [e EXCEPT ![p] = V], f)
    BY <1>3, <2>2
  <2>4. QED
    BY <1>9, <2>3
<1> HIDE DEF r3
<1>5. r4 = record(R, D, E, S)
  BY <1>4
<1> HIDE DEF r4
<1>6. /\ Fields(r4) /\ r4.phase = a /\ r4.cutoff_step = b
      /\ r4.status_rounds = R /\ r4.closed_steps = D /\ r4.zero_steps = E
      /\ r4.seen_corrections = S /\ r4.correction_log = g /\ r4.replies = h
  BY <1>5 DEF Fields
<1>7. QED
  BY <1>1, <1>6, <1>9 DEF IsTaken, a, b, d, e, g, h, V, D, E

asking(r, s) == [r EXCEPT !.phase = "querying", !.closeout_step = s]

(* Asking changes two fields.                                              *)
LEMMA QuerySubmitted ==
  ASSUME NEW r, Fields(r), NEW s
  PROVE  LET t == asking(r, s)
         IN  /\ Fields(t) /\ t.phase = "querying"
             /\ t.cutoff_step = r.cutoff_step
             /\ t.status_rounds = r.status_rounds
             /\ t.closed_steps = r.closed_steps /\ t.zero_steps = r.zero_steps
             /\ t.seen_corrections = r.seen_corrections
             /\ t.correction_log = r.correction_log /\ t.replies = r.replies
<1> DEFINE r1 == [r EXCEPT !.phase = "querying"]
           t == asking(r, s)
<1>1. r1 = [phase |-> "querying", cutoff_step |-> r.cutoff_step,
            status_rounds |-> r.status_rounds,
            closed_steps |-> r.closed_steps, zero_steps |-> r.zero_steps,
            seen_corrections |-> r.seen_corrections,
            correction_log |-> r.correction_log, replies |-> r.replies,
            closeout_step |-> r.closeout_step]
  BY DEF Fields
<1>2. t = [r1 EXCEPT !.closeout_step = s]
  BY DEF asking
<1> HIDE DEF r1, t
<1>3. t = [phase |-> "querying", cutoff_step |-> r.cutoff_step,
           status_rounds |-> r.status_rounds,
           closed_steps |-> r.closed_steps, zero_steps |-> r.zero_steps,
           seen_corrections |-> r.seen_corrections,
           correction_log |-> r.correction_log, replies |-> r.replies,
           closeout_step |-> s]
  BY <1>1, <1>2
<1>4. /\ Fields(t) /\ t.phase = "querying"
      /\ t.cutoff_step = r.cutoff_step
      /\ t.status_rounds = r.status_rounds
      /\ t.closed_steps = r.closed_steps /\ t.zero_steps = r.zero_steps
      /\ t.seen_corrections = r.seen_corrections
      /\ t.correction_log = r.correction_log /\ t.replies = r.replies
  BY <1>3 DEF Fields
<1>5. QED
  BY <1>4 DEF t

(* What is forgotten of the closed steps.                                  *)
LEMMA Pruned ==
  ASSUME NEW r, Fields(r), r.closed_steps \in [Planes -> Int],
         r.zero_steps \in [Planes -> SUBSET Nat]
  PROVE  LET t == prune_zero_steps(r)
         IN  /\ Fields(t) /\ t.phase = r.phase
             /\ t.cutoff_step = r.cutoff_step
             /\ t.status_rounds = r.status_rounds
             /\ t.closed_steps = r.closed_steps
             /\ t.seen_corrections = r.seen_corrections
             /\ t.correction_log = r.correction_log /\ t.replies = r.replies
             /\ t.zero_steps \in [Planes -> SUBSET Nat]
             /\ \A p \in Planes :
                  /\ t.zero_steps[p] \subseteq r.zero_steps[p]
                  /\ \A s \in r.zero_steps[p] :
                       s >= r.closed_steps[p] => s \in t.zero_steps[p]
<1> DEFINE t == prune_zero_steps(r)
           K == [p \in Planes |-> {s \in r.zero_steps[p] :
                                     \E o \in Planes : s >= r.closed_steps[o]}]
<1>1. /\ K \in [Planes -> SUBSET Nat]
      /\ \A p \in Planes :
           /\ K[p] \subseteq r.zero_steps[p]
           /\ \A s \in r.zero_steps[p] : s >= r.closed_steps[p] => s \in K[p]
  OBVIOUS
<1>2. t = r \/ t = [r EXCEPT !.zero_steps = K]
  BY DEF prune_zero_steps
<1> HIDE DEF t, K
<1>3. CASE t = r
  BY <1>3 DEF t
<1>4. CASE t = [r EXCEPT !.zero_steps = K]
  <2>1. t = [phase |-> r.phase, cutoff_step |-> r.cutoff_step,
             status_rounds |-> r.status_rounds,
             closed_steps |-> r.closed_steps, zero_steps |-> K,
             seen_corrections |-> r.seen_corrections,
             correction_log |-> r.correction_log, replies |-> r.replies,
             closeout_step |-> r.closeout_step]
    BY <1>4 DEF Fields
  <2>2. /\ Fields(t) /\ t.phase = r.phase
        /\ t.cutoff_step = r.cutoff_step
        /\ t.status_rounds = r.status_rounds
        /\ t.closed_steps = r.closed_steps /\ t.zero_steps = K
        /\ t.seen_corrections = r.seen_corrections
        /\ t.correction_log = r.correction_log /\ t.replies = r.replies
    BY <2>1 DEF Fields
  <2>3. QED
    BY <1>1, <2>2 DEF t
<1>5. QED
  BY <1>2, <1>3, <1>4

(* A status that comes while the experiment drains is new to it.           *)
LEMMA StatusIsNew ==
  ASSUME CloseoutInv, experiment.phase = "draining",
         NEW plane \in Planes, NEW c \in Coordinates, out[plane][c] # << >>,
         Head(out[plane][c]).tag = "phi_status"
  PROVE  LET m == Head(out[plane][c])
             outcome == decoder_event(plane, m, experiment)
         IN  /\ m.step \in Nat /\ m.at = c /\ m.present \in Bit /\ m.quiet \in Bit
             /\ row(plane, m) \in Rounds
             /\ KeepsOpen(plane, c, m, outcome) \/ ClosesRound(plane, c, m, outcome)
<1> DEFINE q == out[plane][c]
           m == Head(q)
           outcome == decoder_event(plane, m, experiment)
           updated == [experiment EXCEPT !.status_rounds = with_row(plane, m)]
<1>1. CloseoutTypes /\ Hears(plane, c)
  BY DEF CloseoutInv, Draining
<1>2. /\ q \in Seq(Moves(c) \cup Reports(c)) /\ q # << >>
      /\ m = q[1] /\ m \in Moves(c) \cup Reports(c)
  <2>1. q \in Seq(Moves(c) \cup Reports(c)) /\ q # << >>
    BY <1>1, QueueFacts
  <2> HIDE DEF q
  <2>2. QED
    BY <2>1, FirstTaken
<1>3. m.step \in Nat /\ m.at = c /\ m.present \in Bit /\ m.quiet \in Bit
      /\ m.tag = "phi_status"
  BY <1>2, EventFacts
<1>4. row(plane, m) \in Rounds
  BY <1>3 DEF row, Rounds
<1>5. reached(plane, c) = m.step
  BY <1>2 DEF reached
<1> HIDE DEF m
<1>6. ~ step_closed(plane, m.step, experiment)
  <2>1. experiment.closed_steps[plane] < m.step
    BY <1>1, <1>5 DEF Hears
  <2>2. experiment.closed_steps[plane] \in Int
    BY <1>1 DEF CloseoutTypes, IsExperiment, Fields, NotClosed
  <2>3. QED
    BY <1>3, <2>1, <2>2 DEF step_closed
<1>7. ~ \E r \in round(plane, m.step, experiment) : r.at = m.at
  BY <1>1, <1>3, <1>5 DEF Hears
<1>8. outcome = IF {r.at : r \in round(plane, m.step, updated)} = Coordinates
               THEN complete_status_round(plane, m.step, updated)
               ELSE done(updated)
  <2>1. outcome = status(plane, m, experiment)
    BY <1>3 DEF decoder_event
  <2>2. QED
    BY <1>6, <1>7, <2>1 DEF status, with_row, row
<1>9. experiment = [phase |-> experiment.phase,
                    cutoff_step |-> experiment.cutoff_step,
                    status_rounds |-> experiment.status_rounds,
                    closed_steps |-> experiment.closed_steps,
                    zero_steps |-> experiment.zero_steps,
                    seen_corrections |-> experiment.seen_corrections,
                    correction_log |-> experiment.correction_log,
                    replies |-> experiment.replies,
                    closeout_step |-> experiment.closeout_step]
  BY <1>1 DEF CloseoutTypes, IsExperiment, Fields
<1>10. updated = [phase |-> "draining",
                  cutoff_step |-> experiment.cutoff_step,
                  status_rounds |-> with_row(plane, m),
                  closed_steps |-> experiment.closed_steps,
                  zero_steps |-> experiment.zero_steps,
                  seen_corrections |-> experiment.seen_corrections,
                  correction_log |-> experiment.correction_log,
                  replies |-> experiment.replies,
                  closeout_step |-> experiment.closeout_step]
  BY <1>9
<1>11. round(plane, m.step, updated) =
         {r \in with_row(plane, m) : r.plane = plane /\ r.step = m.step}
  BY <1>10 DEF round
<1>12. round(plane, m.step, updated) =
         round(plane, m.step, experiment) \cup {row(plane, m)}
  BY <1>11 DEF round, with_row, row
<1>13. row(plane, m).at = c
  BY <1>3 DEF row
<1>14. \A r \in round(plane, m.step, updated) : r.at \in Coordinates
  <2>1. \A r \in experiment.status_rounds : r.at \in Coordinates
    BY <1>1 DEF CloseoutTypes, IsExperiment, Fields, Rounds
  <2>2. QED
    BY <1>12, <1>13, <2>1 DEF round
<1> HIDE DEF outcome, updated
<1>15. CASE {r.at : r \in round(plane, m.step, updated)} # Coordinates
  <2>1. outcome = done(updated)
    BY <1>8, <1>15
  <2>2. outcome.state = updated
    BY <2>1 DEF done
  <2>3. submitted(outcome) = commands
    BY <1>1, <2>1, SubmitsNone
  <2>4. \E a \in Coordinates :
          a # c /\ \A r \in round(plane, m.step, experiment) : r.at # a
    BY <1>12, <1>13, <1>14, <1>15
  <2>5. KeepsOpen(plane, c, m, outcome)
    BY <2>2, <2>3, <2>4 DEF KeepsOpen, updated
  <2>6. QED
    BY <1>3, <1>4, <2>5 DEF outcome, m
<1>16. CASE {r.at : r \in round(plane, m.step, updated)} = Coordinates
  <2> DEFINE closed == [experiment.closed_steps EXCEPT ![plane] = m.step]
             known == [experiment.zero_steps EXCEPT
                         ![plane] = @ \cup zero(plane, m)]
             rows == remove_round(plane, m.step, updated)
             seen == {k \in updated.seen_corrections :
                        k[1] # plane \/ k[2] > m.step}
             e1 == taken(updated, plane, m.step, rows, seen, zero(plane, m))
             e2 == prune_zero_steps(e1)
             e == outcome.state
  <2>1. outcome = maybe_query(e2)
    <3>1. outcome = complete_status_round(plane, m.step, updated)
      BY <1>8, <1>16
    <3>2. (IF (\A r \in round(plane, m.step, updated) : r.present = 0 /\ r.quiet = 1)
              /\ m.step >= updated.cutoff_step THEN {m.step} ELSE {})
            = zero(plane, m)
      BY <1>10, <1>11 DEF zero, quiet_row, first_quiet
    <3>3. QED
      BY <3>1, <3>2 DEF complete_status_round, taken
  <2>2. /\ closed \in [Planes -> Nat \cup {NotClosed}]
        /\ known \in [Planes -> SUBSET Nat]
        /\ \A p \in Planes :
             known[p] = IF p = plane
                        THEN experiment.zero_steps[p] \cup zero(plane, m)
                        ELSE experiment.zero_steps[p]
    BY <1>1, <1>3 DEF CloseoutTypes, IsExperiment, Fields, zero
  <2>3. rows = {r \in with_row(plane, m) : r.plane # plane \/ r.step # m.step}
    BY <1>10, <1>11 DEF remove_round
  <2>4. rows \subseteq Rounds /\ seen \subseteq experiment.seen_corrections
    BY <1>1, <1>4, <1>10, <2>3 DEF CloseoutTypes, IsExperiment, Fields, with_row
  <2>5. /\ Fields(e1) /\ e1.phase = "draining"
        /\ e1.cutoff_step = experiment.cutoff_step
        /\ e1.status_rounds = rows /\ e1.closed_steps = closed
        /\ e1.zero_steps = known /\ e1.seen_corrections = seen
        /\ e1.correction_log = experiment.correction_log
        /\ e1.replies = experiment.replies
    <3>1. /\ Fields(updated) /\ updated.phase = "draining"
          /\ updated.cutoff_step = experiment.cutoff_step
          /\ updated.closed_steps = experiment.closed_steps
          /\ updated.zero_steps = experiment.zero_steps
          /\ updated.correction_log = experiment.correction_log
          /\ updated.replies = experiment.replies
      BY <1>10 DEF Fields
    <3> HIDE DEF rows, seen
    <3>2. IsTaken(e1, updated, plane, m.step, rows, seen, zero(plane, m))
      BY <3>1, RoundTaken
    <3> HIDE DEF e1
    <3>3. QED
      BY <3>1, <3>2 DEF IsTaken
  <2> HIDE DEF e1, closed, known, rows, seen
  <2>6. /\ Fields(e2) /\ e2.phase = "draining"
        /\ e2.cutoff_step = experiment.cutoff_step
        /\ e2.status_rounds = rows /\ e2.closed_steps = closed
        /\ e2.seen_corrections = seen
        /\ e2.correction_log = experiment.correction_log
        /\ e2.replies = experiment.replies
        /\ e2.zero_steps \in [Planes -> SUBSET Nat]
        /\ \A p \in Planes :
             /\ e2.zero_steps[p] \subseteq known[p]
             /\ \A s \in known[p] : s >= closed[p] => s \in e2.zero_steps[p]
    <3>1. e1.closed_steps \in [Planes -> Int]
      BY <2>2, <2>5 DEF NotClosed
    <3>2. QED
      BY <2>2, <2>5, <3>1, Pruned
  <2> HIDE DEF e2
  <2>7. /\ Fields(e)
        /\ e.phase = IF common(e) = {} THEN "draining" ELSE "querying"
        /\ e.cutoff_step = experiment.cutoff_step
        /\ e.status_rounds = rows /\ e.closed_steps = closed
        /\ e.zero_steps = e2.zero_steps /\ e.seen_corrections = seen
        /\ e.correction_log = experiment.correction_log
        /\ e.replies = experiment.replies
        /\ submitted(outcome) =
             IF common(e) = {} THEN commands
             ELSE [d \in Datas |-> Append(commands[d], pauli_query)]
    <3>1. CASE common(e2) = {}
      <4>1. outcome = done(e2)
        BY <2>1, <3>1 DEF maybe_query
      <4>2. e = e2 /\ submitted(outcome) = commands
        BY <1>1, <4>1, SubmitsNone DEF done
      <4> HIDE DEF e
      <4>3. QED
        BY <2>6, <3>1, <4>2
    <3>2. CASE common(e2) # {}
      <4> DEFINE at == CHOOSE s \in common(e2) : \A t \in common(e2) : s <= t
                 e3 == asking(e2, at)
      <4> HIDE DEF at
      <4>1. outcome = submit(e3, pauli_query)
        BY <2>1, <3>2 DEF maybe_query, at, asking
      <4>2. /\ Fields(e3) /\ e3.phase = "querying"
            /\ e3.cutoff_step = experiment.cutoff_step
            /\ e3.status_rounds = rows /\ e3.closed_steps = closed
            /\ e3.zero_steps = e2.zero_steps /\ e3.seen_corrections = seen
            /\ e3.correction_log = experiment.correction_log
            /\ e3.replies = experiment.replies
        BY <2>6, QuerySubmitted
      <4> HIDE DEF e3
      <4>3. e = e3
        BY <4>1 DEF submit
      <4>4. pauli_query.tag = "pauli_query"
        BY DEF pauli_query
      <4>5. submitted(outcome) = [d \in Datas |-> Append(commands[d], pauli_query)]
        <5>1. submitted(submit(e3, pauli_query)) =
                [d \in Datas |->
                   IF pauli_query.tag = "pauli_query" \/ pauli_query.data = d
                   THEN Append(commands[d], pauli_query) ELSE commands[d]]
          BY <1>1, SubmitsOne
        <5>2. QED
          BY <4>1, <4>4, <5>1
      <4>6. common(e) = common(e2)
        BY <4>2, <4>3 DEF common
      <4> HIDE DEF e
      <4>7. QED
        BY <3>2, <4>2, <4>3, <4>5, <4>6
    <3>3. QED
      BY <3>1, <3>2
  <2> HIDE DEF e
  <2>9. IsExperiment(e)
    BY <1>1, <2>2, <2>4, <2>6, <2>7
    DEF CloseoutTypes, IsExperiment, Fields
  <2>10. \A a \in Coordinates :
           a # c => \E r \in round(plane, m.step, experiment) : r.at = a
    BY <1>12, <1>13, <1>16
  <2>11. ClosesRound(plane, c, m, outcome)
    <3>1. \A p \in Planes :
            LET given == IF p = plane
                         THEN experiment.zero_steps[p] \cup zero(plane, m)
                         ELSE experiment.zero_steps[p]
            IN  /\ e.zero_steps[p] \subseteq given
                /\ \A s \in given : s >= e.closed_steps[p] => s \in e.zero_steps[p]
      BY <2>2, <2>6, <2>7
    <3>2. IF common(e) = {}
          THEN e.phase = "draining" /\ submitted(outcome) = commands
          ELSE /\ e.phase = "querying"
               /\ submitted(outcome) =
                    [d \in Datas |-> Append(commands[d], pauli_query)]
      BY <2>7
    <3>3. e.status_rounds =
            {r \in with_row(plane, m) : r.plane # plane \/ r.step # m.step}
      BY <2>3, <2>7
    <3>4. e.closed_steps = [experiment.closed_steps EXCEPT ![plane] = m.step]
      BY <2>7 DEF closed
    <3>5. QED
      BY <2>4, <2>7, <2>9, <2>10, <3>1, <3>2, <3>3, <3>4 DEF ClosesRound, e
  <2>12. QED
    BY <1>3, <1>4, <2>11 DEF outcome, m
<1>17. QED
  BY <1>15, <1>16

(* What a status takes from the events underway: itself.                   *)
StatusTaken(plane, c, m) ==
  /\ row(plane, m) \in Rounds /\ m.step \in Nat /\ m.at = c
  /\ m.step < plane_step[plane] /\ m.quiet = quiet_from(m.step)
  /\ m.step + 1 = plane_step[plane] => m.present = anyon[plane][c]
  /\ 1 \in DOMAIN out[plane][c] /\ m = out[plane][c][1] /\ m.tag = "phi_status"
  /\ reached(plane, c) = m.step /\ reached(plane, c)' = m.step + 1
  /\ out' = [p \in Planes |-> [a \in Coordinates |-> out'[p][a]]]
  /\ \A p \in Planes, a \in Coordinates :
       /\ out'[p][a] \in Seq(Moves(a) \cup Reports(a))
       /\ InOrder(p, a)'
       /\ p # plane \/ a # c => reached(p, a)' = reached(p, a)
       /\ \A k \in DOMAIN out'[p][a] :
            \E l \in DOMAIN out[p][a] : out'[p][a][k] = out[p][a][l]
       /\ \A k \in DOMAIN out[p][a] :
            \/ \E l \in DOMAIN out'[p][a] : out'[p][a][l] = out[p][a][k]
            \/ p = plane /\ a = c /\ k = 1

(* The next event of a cell is the status of the step it has reached.      *)
LEMMA StatusTakes ==
  ASSUME CloseoutInv, experiment.phase = "draining",
         NEW plane \in Planes, NEW c \in Coordinates,
         receive_decoder_event(plane, c),
         Head(out[plane][c]).tag = "phi_status"
  PROVE  StatusTaken(plane, c, Head(out[plane][c]))
<1> DEFINE m == Head(out[plane][c])
<1>1. /\ CloseoutTypes /\ \A p \in Planes, a \in Coordinates : InOrder(p, a)
      /\ Empties(plane)
  BY DEF CloseoutInv, Draining
<1>2. /\ out[plane][c] # << >>
      /\ out' = [out EXCEPT ![plane][c] = Tail(@)]
      /\ plane_step' = plane_step /\ emitted' = emitted
  BY DEF receive_decoder_event
<1>3. LET q == out[plane][c]
      IN  /\ m = q[1] /\ m \in Moves(c) \cup Reports(c) /\ 1 \in DOMAIN q
          /\ out' = [p \in Planes |-> [a \in Coordinates |-> out'[p][a]]]
          /\ \A p \in Planes, a \in Coordinates :
               /\ out'[p][a] \in Seq(Moves(a) \cup Reports(a))
               /\ p # plane \/ a # c =>
                    out'[p][a] = out[p][a] /\ reached(p, a)' = reached(p, a)
               /\ InOrder(p, a)'
          /\ \A k \in DOMAIN out'[plane][c] :
               k + 1 \in DOMAIN q /\ out'[plane][c][k] = q[k + 1]
          /\ \A k \in DOMAIN q :
               k # 1 => k - 1 \in DOMAIN out'[plane][c]
                        /\ out'[plane][c][k - 1] = q[k]
          /\ reached(plane, c) = m.step
          /\ reached(plane, c)' =
               IF m.tag = "phi_correction" THEN m.step ELSE m.step + 1
  BY <1>1, <1>2, TakesEvent
<1>4. m.step \in Nat /\ m.at = c /\ row(plane, m) \in Rounds
  BY <1>2, StatusIsNew
<1> HIDE DEF m
<1>5. m.tag = "phi_status"
  BY DEF m
<1>6. m.step < plane_step[plane]
  BY <1>1, <1>3 DEF InOrder
<1>7. m.quiet = quiet_from(m.step)
      /\ (m.step + 1 = plane_step[plane] => m.present = anyon[plane][c])
  BY <1>1, <1>3, <1>5 DEF Empties
<1>8. ASSUME NEW p \in Planes, NEW a \in Coordinates
      PROVE  /\ \A k \in DOMAIN out'[p][a] :
                  \E l \in DOMAIN out[p][a] : out'[p][a][k] = out[p][a][l]
             /\ \A k \in DOMAIN out[p][a] :
                  \/ \E l \in DOMAIN out'[p][a] : out'[p][a][l] = out[p][a][k]
                  \/ p = plane /\ a = c /\ k = 1
  <2>1. CASE p = plane /\ a = c
    BY <1>3, <2>1
  <2>2. CASE p # plane \/ a # c
    <3>1. out'[p][a] = out[p][a]
      BY <1>3, <2>2
    <3>2. QED
      BY <3>1
  <2>3. QED
    BY <2>1, <2>2
<1>9. StatusTaken(plane, c, m)
  BY <1>3, <1>4, <1>5, <1>6, <1>7, <1>8 DEF StatusTaken
<1>10. QED
  BY <1>9 DEF m

(* A status that leaves its round open.                                    *)
LEMMA StatusKeptInv ==
  ASSUME CloseoutInv, experiment.phase = "draining",
         NEW plane \in Planes, NEW c \in Coordinates,
         receive_decoder_event(plane, c), NEW m,
         StatusTaken(plane, c, m),
         KeepsOpen(plane, c, m, decoder_event(plane, m, experiment)),
         m = Head(out[plane][c])
  PROVE  CloseoutInv'
<1>1. /\ CloseoutTypes /\ Logs /\ Draining
      /\ \A p \in Planes, a \in Coordinates : InOrder(p, a)
      /\ \A d \in Datas : Framed(d)
  BY DEF CloseoutInv
<1>2. /\ \A p \in Planes : Closing(p) /\ Empties(p)
      /\ \A p \in Planes, a \in Coordinates : Hears(p, a)
      /\ common(experiment) = {} /\ experiment.replies = {}
      /\ \A d \in Datas : replies[d] = << >>
      /\ \A d \in Datas : \A k \in DOMAIN commands[d] :
           commands[d][k] # pauli_query
  BY <1>1 DEF Draining
<1>3. /\ experiment' = [experiment EXCEPT !.status_rounds = with_row(plane, m)]
      /\ commands' = commands
      /\ plane_step' = plane_step /\ anyon' = anyon /\ frame' = frame
      /\ replies' = replies /\ emitted' = emitted
  BY DEF receive_decoder_event, consume, KeepsOpen
<1>4. /\ experiment'.phase = "draining"
      /\ experiment'.cutoff_step = experiment.cutoff_step
      /\ experiment'.status_rounds = with_row(plane, m)
      /\ experiment'.closed_steps = experiment.closed_steps
      /\ experiment'.zero_steps = experiment.zero_steps
      /\ experiment'.seen_corrections = experiment.seen_corrections
      /\ experiment'.correction_log = experiment.correction_log
      /\ experiment'.replies = experiment.replies
      /\ Fields(experiment')
  <2>1. Fields(experiment)
    BY <1>1 DEF CloseoutTypes, IsExperiment, Fields
  <2>2. experiment' = [phase |-> experiment.phase,
                       cutoff_step |-> experiment.cutoff_step,
                       status_rounds |-> with_row(plane, m),
                       closed_steps |-> experiment.closed_steps,
                       zero_steps |-> experiment.zero_steps,
                       seen_corrections |-> experiment.seen_corrections,
                       correction_log |-> experiment.correction_log,
                       replies |-> experiment.replies,
                       closeout_step |-> experiment.closeout_step]
    BY <1>3, <2>1 DEF Fields
  <2>3. QED
    BY <2>2 DEF Fields
<1>5. /\ row(plane, m) \in Rounds /\ m.step \in Nat
      /\ m.step < plane_step[plane] /\ m.quiet = quiet_from(m.step)
      /\ m.step + 1 = plane_step[plane] => m.present = anyon[plane][c]
      /\ 1 \in DOMAIN out[plane][c] /\ m = out[plane][c][1]
      /\ m.tag = "phi_status"
      /\ reached(plane, c) = m.step /\ reached(plane, c)' = m.step + 1
      /\ out' = [p \in Planes |-> [a \in Coordinates |-> out'[p][a]]]
      /\ \A p \in Planes, a \in Coordinates :
           /\ out'[p][a] \in Seq(Moves(a) \cup Reports(a))
           /\ InOrder(p, a)'
           /\ p # plane \/ a # c => reached(p, a)' = reached(p, a)
           /\ \A k \in DOMAIN out'[p][a] :
                \E l \in DOMAIN out[p][a] : out'[p][a][k] = out[p][a][l]
           /\ \A k \in DOMAIN out[p][a] :
                \/ \E l \in DOMAIN out'[p][a] : out'[p][a][l] = out[p][a][k]
                \/ p = plane /\ a = c /\ k = 1
  BY DEF StatusTaken
<1>6. /\ row(plane, m).plane = plane /\ row(plane, m).step = m.step
      /\ row(plane, m).at = c /\ row(plane, m).present = m.present
      /\ row(plane, m).quiet = m.quiet
  BY DEF row, StatusTaken
<1>7. /\ logged' = logged /\ first_quiet' = first_quiet
      /\ \A k : quiet_from(k)' = quiet_from(k)
      /\ \A p, n : Emptied(p, n)' <=> Emptied(p, n)
  BY <1>3, <1>4 DEF logged, first_quiet, quiet_from, Emptied
<1>8. \A p \in Planes, n \in Nat :
        round(p, n, experiment)' =
          IF p = plane /\ n = m.step
          THEN round(p, n, experiment) \cup {row(plane, m)}
          ELSE round(p, n, experiment)
  BY <1>4, <1>6 DEF round, with_row
<1>9. CloseoutTypes'
  <2>1. with_row(plane, m) \subseteq Rounds
    BY <1>1, <1>5 DEF CloseoutTypes, IsExperiment, Fields, with_row
  <2>2. IsExperiment(experiment')
    BY <1>1, <1>4, <2>1 DEF CloseoutTypes, IsExperiment, Fields
  <2>3. QED
    BY <1>1, <1>3, <1>5, <2>2 DEF CloseoutTypes
<1>10. Logs'
  BY <1>1, <1>3, <1>4, <1>7 DEF Logs
<1>11. ASSUME NEW p \in Planes PROVE Closing(p)'
  <2>1. \E a \in Coordinates :
          reached(p, a)' = experiment.closed_steps[p] + 1
    <3>1. PICK a \in Coordinates :
            reached(p, a) = experiment.closed_steps[p] + 1
      BY <1>2 DEF Closing
    <3>2. CASE p # plane \/ a # c
      BY <1>5, <3>1, <3>2
    <3>3. CASE p = plane /\ a = c
      <4>1. PICK b \in Coordinates :
              b # c /\ \A r \in round(plane, m.step, experiment) : r.at # b
        BY DEF KeepsOpen
      <4>2. Hears(plane, b)
        BY <1>2
      <4>3. ~ (experiment.closed_steps[plane] < m.step
                 /\ m.step < reached(plane, b))
        BY <1>5, <4>1, <4>2 DEF Hears
      <4>4. /\ experiment.closed_steps[plane] < reached(plane, b)
            /\ m.step = experiment.closed_steps[plane] + 1
        BY <1>5, <3>1, <3>3, <4>2 DEF Hears
      <4>5. reached(plane, b) \in Nat /\ experiment.closed_steps[plane] \in Int
        <5>1. experiment.closed_steps[plane] \in Int
          BY <1>1 DEF CloseoutTypes, IsExperiment, Fields, NotClosed
        <5>2. QED
          BY <1>1, <5>1, QueueFacts
      <4>6. reached(plane, b) = experiment.closed_steps[plane] + 1
        BY <1>5, <4>3, <4>4, <4>5
      <4>7. QED
        BY <1>5, <3>3, <4>1, <4>6
    <3>4. QED
      BY <3>2, <3>3
  <2>2. \A v \in emitted : v[1] = p =>
          v \in logged \/ \E k \in DOMAIN out'[p][v[3]] :
                            out'[p][v[3]][k] = phi_correction(v[2], v[3], v[4])
    <3> SUFFICES ASSUME NEW v \in emitted, v[1] = p, v \notin logged
                 PROVE  \E k \in DOMAIN out'[p][v[3]] :
                          out'[p][v[3]][k] = phi_correction(v[2], v[3], v[4])
      OBVIOUS
    <3>1. PICK k \in DOMAIN out[p][v[3]] :
            out[p][v[3]][k] = phi_correction(v[2], v[3], v[4])
      BY <1>2 DEF Closing
    <3>2. v[3] \in Coordinates
      BY <1>1 DEF CloseoutTypes, Corrections
    <3>3. out[p][v[3]][k].tag = "phi_correction"
      BY <3>1 DEF phi_correction
    <3>4. ~ (p = plane /\ v[3] = c /\ k = 1)
      BY <1>5, <3>3
    <3>5. \E l \in DOMAIN out'[p][v[3]] : out'[p][v[3]][l] = out[p][v[3]][k]
      BY <1>5, <3>2, <3>4
    <3>6. QED
      BY <3>1, <3>5
  <2>3. QED
    BY <1>3, <1>4, <1>7, <2>1, <2>2 DEF Closing
<1>12. ASSUME NEW p \in Planes PROVE Empties(p)'
  <2>1. Empties(p)
    BY <1>2
  <2>2. ASSUME NEW n \in Nat, Shows(p, n) PROVE Shows(p, n)'
    <3>1. CASE \E r \in round(p, n, experiment) : r.present = 1
      BY <1>8, <3>1 DEF Shows
    <3>2. CASE \E a \in Coordinates : \E k \in DOMAIN out[p][a] :
                 is_status(out[p][a][k], n) /\ out[p][a][k].present = 1
      <4>1. PICK a \in Coordinates : \E k \in DOMAIN out[p][a] :
                   is_status(out[p][a][k], n) /\ out[p][a][k].present = 1
        BY <3>2
      <4>2. PICK k \in DOMAIN out[p][a] :
                   is_status(out[p][a][k], n) /\ out[p][a][k].present = 1
        BY <4>1
      <4>3. CASE \E l \in DOMAIN out'[p][a] : out'[p][a][l] = out[p][a][k]
        <5>1. PICK l \in DOMAIN out'[p][a] : out'[p][a][l] = out[p][a][k]
          BY <4>3
        <5>2. is_status(out'[p][a][l], n) /\ out'[p][a][l].present = 1
          BY <4>2, <5>1
        <5>3. QED
          BY <5>2 DEF Shows
      <4>4. CASE p = plane /\ a = c /\ k = 1
        <5>1. n = m.step /\ row(plane, m).present = 1
          BY <1>5, <1>6, <4>2, <4>4 DEF is_status
        <5>2. row(plane, m) \in round(p, n, experiment)'
          BY <1>8, <4>4, <5>1
        <5>3. QED
          BY <5>1, <5>2 DEF Shows
      <4>5. QED
        BY <1>5, <4>3, <4>4
    <3>3. QED
      BY <2>2, <3>1, <3>2 DEF Shows
  <2>3. \A n \in Nat :
          /\ n > experiment.closed_steps[p] /\ n < plane_step[p]
          /\ n >= first_quiet
          => Emptied(p, n)' \/ Shows(p, n)'
    BY <1>7, <2>1, <2>2 DEF Empties
  <2>4. \A a \in Coordinates : \A k \in DOMAIN out'[p][a] :
          LET v == out'[p][a][k]
          IN  v.tag = "phi_status" =>
                /\ v.quiet = quiet_from(v.step)
                /\ v.step + 1 = plane_step[p] => v.present = anyon[p][a]
    <3> SUFFICES ASSUME NEW a \in Coordinates, NEW k \in DOMAIN out'[p][a]
                 PROVE  LET v == out'[p][a][k]
                        IN  v.tag = "phi_status" =>
                              /\ v.quiet = quiet_from(v.step)
                              /\ v.step + 1 = plane_step[p] =>
                                   v.present = anyon[p][a]
      OBVIOUS
    <3>1. PICK l \in DOMAIN out[p][a] : out'[p][a][k] = out[p][a][l]
      BY <1>5
    <3>2. LET v == out[p][a][l]
          IN  v.tag = "phi_status" =>
                /\ v.quiet = quiet_from(v.step)
                /\ v.step + 1 = plane_step[p] => v.present = anyon[p][a]
      BY <2>1 DEF Empties
    <3>3. QED
      BY <3>1, <3>2
  <2>5. \A n \in experiment.zero_steps[p] :
          /\ n >= first_quiet /\ n <= experiment.closed_steps[p]
          /\ Emptied(p, n)'
    BY <1>7, <2>1 DEF Empties
  <2>6. \A r \in experiment'.status_rounds :
          r.plane = p =>
            /\ r.quiet = quiet_from(r.step)
            /\ r.step + 1 = plane_step[p] => r.present = anyon[p][r.at]
    <3> SUFFICES ASSUME NEW r \in experiment'.status_rounds, r.plane = p
                 PROVE  /\ r.quiet = quiet_from(r.step)
                        /\ r.step + 1 = plane_step[p] =>
                             r.present = anyon[p][r.at]
      OBVIOUS
    <3>1. CASE r \in experiment.status_rounds
      BY <2>1, <3>1 DEF Empties
    <3>2. CASE r = row(plane, m)
      BY <1>5, <1>6, <3>2
    <3>3. QED
      BY <1>4, <3>1, <3>2 DEF with_row
  <2>7. \A n : /\ n = experiment.closed_steps[p] /\ n + 1 = plane_step[p]
               /\ n >= first_quiet /\ Emptied(p, n)'
               => n \in experiment.zero_steps[p]
    BY <1>7, <2>1 DEF Empties
  <2>8. QED
    BY <1>3, <1>4, <1>7, <2>3, <2>4, <2>5, <2>6, <2>7 DEF Empties
<1>13. ASSUME NEW p \in Planes, NEW a \in Coordinates PROVE Hears(p, a)'
  <2>1. Hears(p, a)
    BY <1>2
  <2>2. /\ experiment.closed_steps[p] \in Int
        /\ reached(p, a) \in Nat
    <3>1. experiment.closed_steps[p] \in Int
      BY <1>1 DEF CloseoutTypes, IsExperiment, Fields, NotClosed
    <3>2. QED
      BY <1>1, <3>1, QueueFacts
  <2>3. /\ experiment.closed_steps[p] < reached(p, a)'
        /\ \A n \in Nat :
             (\E r \in round(p, n, experiment)' : r.at = a)
               <=> experiment.closed_steps[p] < n /\ n < reached(p, a)'
    <3>1. CASE p = plane /\ a = c
      <4>1. reached(p, a) = m.step /\ reached(p, a)' = m.step + 1
        BY <1>5, <3>1
      <4>2. experiment.closed_steps[p] < m.step
        BY <2>1, <4>1 DEF Hears
      <4>3. ASSUME NEW n \in Nat
            PROVE  (\E r \in round(p, n, experiment)' : r.at = a)
                     <=> experiment.closed_steps[p] < n /\ n < m.step + 1
        <5>1. (\E r \in round(p, n, experiment) : r.at = a)
                <=> experiment.closed_steps[p] < n /\ n < m.step
          BY <2>1, <4>1 DEF Hears
        <5>2. (\E r \in round(p, n, experiment)' : r.at = a)
                <=> (\E r \in round(p, n, experiment) : r.at = a) \/ n = m.step
          BY <1>6, <1>8, <3>1
        <5>3. n < m.step + 1 <=> n < m.step \/ n = m.step
          BY <1>5
        <5>4. QED
          BY <4>2, <5>1, <5>2, <5>3
      <4>4. QED
        BY <1>5, <2>2, <4>1, <4>2, <4>3
    <3>2. CASE p # plane \/ a # c
      <4>1. reached(p, a)' = reached(p, a)
        BY <1>5, <3>2
      <4>2. \A n \in Nat : (\E r \in round(p, n, experiment)' : r.at = a)
              <=> (\E r \in round(p, n, experiment) : r.at = a)
        BY <1>6, <1>8, <3>2
      <4>3. QED
        BY <2>1, <4>1, <4>2 DEF Hears
    <3>3. QED
      BY <3>1, <3>2
  <2>4. \A k \in DOMAIN out'[p][a] :
          out'[p][a][k].tag = "phi_correction" =>
            \A direction \in Directions :
              <<p, out'[p][a][k].step, a, direction>> \notin logged
    <3> SUFFICES ASSUME NEW k \in DOMAIN out'[p][a],
                        out'[p][a][k].tag = "phi_correction"
                 PROVE  \A direction \in Directions :
                          <<p, out'[p][a][k].step, a, direction>> \notin logged
      OBVIOUS
    <3>1. PICK l \in DOMAIN out[p][a] : out'[p][a][k] = out[p][a][l]
      BY <1>5
    <3>2. out[p][a][l].tag = "phi_correction"
      BY <3>1
    <3>3. \A direction \in Directions :
            <<p, out[p][a][l].step, a, direction>> \notin logged
      BY <2>1, <3>2 DEF Hears
    <3>4. QED
      BY <3>1, <3>3
  <2>5. \A n \in Nat :
          <<p, n, a>> \in experiment.seen_corrections =>
            \E direction \in Directions : <<p, n, a, direction>> \in logged
    BY <2>1 DEF Hears
  <2>6. QED
    BY <1>4, <1>7, <2>3, <2>4, <2>5 DEF Hears
<1>14. Draining'
  <2>1. common(experiment)' = {}
    BY <1>2, <1>4 DEF common
  <2>2. QED
    BY <1>2, <1>3, <1>4, <1>11, <1>12, <1>13, <2>1 DEF Draining
<1>15. Querying'
  BY <1>4 DEF Querying
<1>16. \A d \in Datas : Framed(d)'
  BY <1>1, <1>3, <1>7 DEF Framed, on
<1>17. QED
  BY <1>5, <1>9, <1>10, <1>14, <1>15, <1>16 DEF CloseoutInv

(* A status that closes its round: of each cell, the statuses up to this   *)
(* step, and so the corrections, have been received.                       *)
LEMMA RoundClosedInv ==
  ASSUME CloseoutInv, experiment.phase = "draining",
         NEW plane \in Planes, NEW c \in Coordinates,
         receive_decoder_event(plane, c), NEW m,
         StatusTaken(plane, c, m),
         ClosesRound(plane, c, m, decoder_event(plane, m, experiment)),
         m = Head(out[plane][c])
  PROVE  CloseoutInv'
<1> DEFINE closed(p) == experiment.closed_steps[p]
           closed_now(p) == experiment'.closed_steps[p]
           outcome == decoder_event(plane, m, experiment)
<1>1. /\ CloseoutTypes /\ Logs /\ Draining
      /\ \A p \in Planes, a \in Coordinates : InOrder(p, a)
      /\ \A d \in Datas : Framed(d)
  BY DEF CloseoutInv
<1>2. /\ \A p \in Planes : Closing(p) /\ Empties(p)
      /\ \A p \in Planes, a \in Coordinates : Hears(p, a)
      /\ common(experiment) = {} /\ experiment.replies = {}
      /\ \A d \in Datas : replies[d] = << >>
      /\ \A d \in Datas : \A k \in DOMAIN commands[d] :
           commands[d][k] # pauli_query
  BY <1>1 DEF Draining
<1>3. /\ experiment' = outcome.state /\ commands' = submitted(outcome)
      /\ plane_step' = plane_step /\ anyon' = anyon /\ frame' = frame
      /\ replies' = replies /\ emitted' = emitted
  BY DEF receive_decoder_event, consume
<1> HIDE DEF outcome
<1>4. /\ IsExperiment(experiment')
      /\ experiment'.cutoff_step = experiment.cutoff_step
      /\ experiment'.correction_log = experiment.correction_log
      /\ experiment'.replies = experiment.replies
      /\ experiment'.seen_corrections \subseteq experiment.seen_corrections
      /\ \A a \in Coordinates :
           a # c => \E r \in round(plane, m.step, experiment) : r.at = a
      /\ experiment'.closed_steps =
           [experiment.closed_steps EXCEPT ![plane] = m.step]
      /\ experiment'.status_rounds =
           {r \in with_row(plane, m) : r.plane # plane \/ r.step # m.step}
      /\ \A p \in Planes :
           LET known == IF p = plane
                        THEN experiment.zero_steps[p] \cup zero(plane, m)
                        ELSE experiment.zero_steps[p]
           IN  /\ experiment'.zero_steps[p] \subseteq known
               /\ \A s \in known :
                    s >= closed_now(p) => s \in experiment'.zero_steps[p]
      /\ IF common(experiment') = {}
         THEN experiment'.phase = "draining" /\ commands' = commands
         ELSE /\ experiment'.phase = "querying"
              /\ commands' = [d \in Datas |-> Append(commands[d], pauli_query)]
  BY <1>3 DEF ClosesRound, outcome
<1>5. /\ row(plane, m) \in Rounds /\ m.step \in Nat
      /\ m.step < plane_step[plane] /\ m.quiet = quiet_from(m.step)
      /\ m.step + 1 = plane_step[plane] => m.present = anyon[plane][c]
      /\ 1 \in DOMAIN out[plane][c] /\ m = out[plane][c][1]
      /\ m.tag = "phi_status"
      /\ reached(plane, c) = m.step /\ reached(plane, c)' = m.step + 1
      /\ out' = [p \in Planes |-> [a \in Coordinates |-> out'[p][a]]]
      /\ \A p \in Planes, a \in Coordinates :
           /\ out'[p][a] \in Seq(Moves(a) \cup Reports(a))
           /\ InOrder(p, a)'
           /\ p # plane \/ a # c => reached(p, a)' = reached(p, a)
           /\ \A k \in DOMAIN out'[p][a] :
                \E l \in DOMAIN out[p][a] : out'[p][a][k] = out[p][a][l]
           /\ \A k \in DOMAIN out[p][a] :
                \/ \E l \in DOMAIN out'[p][a] : out'[p][a][l] = out[p][a][k]
                \/ p = plane /\ a = c /\ k = 1
  BY DEF StatusTaken
<1>6. /\ row(plane, m).plane = plane /\ row(plane, m).step = m.step
      /\ row(plane, m).at = c /\ row(plane, m).present = m.present
      /\ row(plane, m).quiet = m.quiet
  BY DEF row, StatusTaken
<1>7. /\ logged' = logged /\ first_quiet' = first_quiet
      /\ first_quiet \in Nat
      /\ \A k : quiet_from(k)' = quiet_from(k)
      /\ \A p, n : Emptied(p, n)' <=> Emptied(p, n)
  <2>1. first_quiet \in Nat
    BY <1>1, Constants DEF CloseoutTypes, IsExperiment, Fields, first_quiet
  <2>2. QED
    BY <1>3, <1>4, <2>1 DEF logged, first_quiet, quiet_from, Emptied
<1>8. ASSUME NEW p \in Planes
      PROVE  /\ closed(p) \in Int
             /\ closed_now(p) = IF p = plane THEN m.step ELSE closed(p)
             /\ closed_now(p) \in Int
             /\ plane_step[p] \in Nat
             /\ \A a \in Coordinates : reached(p, a) \in Nat
             /\ experiment.zero_steps[p] \subseteq Nat
  <2>1. /\ experiment.closed_steps \in [Planes -> Nat \cup {NotClosed}]
        /\ plane_step[p] \in Nat /\ experiment.zero_steps[p] \subseteq Nat
    BY <1>1 DEF CloseoutTypes, IsExperiment, Fields
  <2>2. closed(p) \in Int
    BY <2>1 DEF NotClosed
  <2>3. closed_now(p) = IF p = plane THEN m.step ELSE closed(p)
    BY <1>4, <2>1
  <2>4. closed_now(p) \in Int
    BY <1>5, <2>2, <2>3
  <2>5. \A a \in Coordinates : reached(p, a) \in Nat
    BY <1>1, QueueFacts
  <2>6. QED
    BY <2>1, <2>2, <2>3, <2>4, <2>5
<1> HIDE DEF closed, closed_now
<1>9. ASSUME NEW p \in Planes, NEW a \in Coordinates
      PROVE  /\ closed(p) < reached(p, a)
             /\ \A n \in Nat :
                  (\E r \in round(p, n, experiment) : r.at = a)
                    <=> closed(p) < n /\ n < reached(p, a)
             /\ \A n \in Nat :
                  <<p, n, a>> \in experiment.seen_corrections =>
                    \E direction \in Directions :
                      <<p, n, a, direction>> \in logged
             /\ \A k \in DOMAIN out[p][a] :
                  out[p][a][k].tag = "phi_correction" =>
                    \A direction \in Directions :
                      <<p, out[p][a][k].step, a, direction>> \notin logged
  BY <1>2 DEF Hears, closed
<1>10. m.step = closed(plane) + 1
       /\ \A a \in Coordinates : a # c => m.step < reached(plane, a)
  <2>1. \A a \in Coordinates : a # c => m.step < reached(plane, a)
    BY <1>4, <1>5, <1>9
  <2>2. PICK a \in Coordinates : reached(plane, a) = closed(plane) + 1
    BY <1>2 DEF Closing, closed
  <2>3. closed(plane) < m.step
    BY <1>5, <1>9
  <2>4. a = c
    BY <1>5, <1>8, <2>1, <2>2, <2>3
  <2>5. QED
    BY <1>5, <2>1, <2>2, <2>4
<1>11. \A p \in Planes, n \in Nat :
         round(p, n, experiment') =
           IF p = plane /\ n = m.step THEN {} ELSE round(p, n, experiment)
  <2>1. \A r : r \in experiment'.status_rounds <=>
          /\ r \in experiment.status_rounds \/ r = row(plane, m)
          /\ r.plane # plane \/ r.step # m.step
    BY <1>4 DEF with_row
  <2>2. QED
    BY <1>6, <2>1 DEF round
<1>12. ASSUME NEW p \in Planes, NEW a \in Coordinates
       PROVE  closed_now(p) < reached(p, a)'
  <2>1. CASE p = plane /\ a = c
    BY <1>5, <1>8, <2>1
  <2>2. CASE p = plane /\ a # c
    BY <1>5, <1>8, <1>10, <2>2
  <2>3. CASE p # plane
    <3>1. reached(p, a)' = reached(p, a) /\ closed_now(p) = closed(p)
      BY <1>5, <1>8, <2>3
    <3>2. QED
      BY <1>9, <3>1
  <2>4. QED
    BY <2>1, <2>2, <2>3
<1>13. CloseoutTypes'
  <2>1. \A d \in Datas : /\ commands'[d] \in Seq(Updates(d) \cup {pauli_query})
                         /\ commands[d] \in Seq(Updates(d) \cup {pauli_query})
    <3> SUFFICES ASSUME NEW d \in Datas
                 PROVE  /\ commands'[d] \in Seq(Updates(d) \cup {pauli_query})
                        /\ commands[d] \in Seq(Updates(d) \cup {pauli_query})
      OBVIOUS
    <3>1. commands[d] \in Seq(Updates(d) \cup {pauli_query})
      BY <1>1 DEF CloseoutTypes
    <3>2. commands'[d] = commands[d] \/ commands'[d] = Append(commands[d], pauli_query)
      BY <1>4
    <3>3. pauli_query \in Updates(d) \cup {pauli_query}
      OBVIOUS
    <3>4. QED
      BY <3>1, <3>2, <3>3, AppendedOne
  <2>2. commands' = [d \in Datas |-> commands'[d]]
    <3>1. commands = [d \in Datas |-> commands[d]]
      BY <1>1 DEF CloseoutTypes
    <3>2. QED
      BY <1>4, <3>1
  <2>3. QED
    BY <1>1, <1>3, <1>4, <1>5, <2>1, <2>2 DEF CloseoutTypes
<1>14. Logs'
  BY <1>1, <1>3, <1>4, <1>7 DEF Logs
<1>15. ASSUME NEW p \in Planes PROVE Closing(p)'
  <2>1. \E a \in Coordinates : reached(p, a)' = closed_now(p) + 1
    <3>1. CASE p = plane
      BY <1>5, <1>8, <3>1
    <3>2. CASE p # plane
      <4>1. PICK a \in Coordinates : reached(p, a) = closed(p) + 1
        BY <1>2 DEF Closing, closed
      <4>2. QED
        BY <1>5, <1>8, <3>2, <4>1
    <3>3. QED
      BY <3>1, <3>2
  <2>2. \A v \in emitted : v[1] = p =>
          v \in logged \/ \E k \in DOMAIN out'[p][v[3]] :
                            out'[p][v[3]][k] = phi_correction(v[2], v[3], v[4])
    <3> SUFFICES ASSUME NEW v \in emitted, v[1] = p, v \notin logged
                 PROVE  \E k \in DOMAIN out'[p][v[3]] :
                          out'[p][v[3]][k] = phi_correction(v[2], v[3], v[4])
      OBVIOUS
    <3>1. PICK k \in DOMAIN out[p][v[3]] :
            out[p][v[3]][k] = phi_correction(v[2], v[3], v[4])
      BY <1>2 DEF Closing
    <3>2. v[3] \in Coordinates
      BY <1>1 DEF CloseoutTypes, Corrections
    <3>3. out[p][v[3]][k].tag = "phi_correction"
      BY <3>1 DEF phi_correction
    <3>4. ~ (p = plane /\ v[3] = c /\ k = 1)
      BY <1>5, <3>3
    <3>5. \E l \in DOMAIN out'[p][v[3]] : out'[p][v[3]][l] = out[p][v[3]][k]
      BY <1>5, <3>2, <3>4
    <3>6. QED
      BY <3>1, <3>5
  <2>3. QED
    BY <1>3, <1>7, <2>1, <2>2 DEF Closing, closed_now
<1>16. ASSUME NEW p \in Planes, NEW a \in Coordinates PROVE Hears(p, a)'
  <2>1. \A n \in Nat :
          (\E r \in round(p, n, experiment') : r.at = a)
            <=> closed_now(p) < n /\ n < reached(p, a)'
    <3> SUFFICES ASSUME NEW n \in Nat
                 PROVE  (\E r \in round(p, n, experiment') : r.at = a)
                          <=> closed_now(p) < n /\ n < reached(p, a)'
      OBVIOUS
    <3>1. (\E r \in round(p, n, experiment) : r.at = a)
            <=> closed(p) < n /\ n < reached(p, a)
      BY <1>9
    <3>2. CASE p # plane
      BY <1>5, <1>8, <1>11, <3>1, <3>2
    <3>3. CASE p = plane /\ n = m.step
      <4>1. closed_now(p) = m.step
        BY <1>8, <3>3
      <4>2. round(p, n, experiment') = {}
        BY <1>11, <3>3
      <4>3. QED
        BY <1>5, <3>3, <4>1, <4>2
    <3>4. CASE p = plane /\ n # m.step
      <4>1. closed_now(p) < n <=> closed(p) < n
        BY <1>5, <1>8, <1>10, <3>4
      <4>2. closed(p) < n => (n < reached(p, a)' <=> n < reached(p, a))
        <5>1. CASE a = c
          <6>1. reached(p, a)' = m.step + 1 /\ reached(p, a) = m.step
            BY <1>5, <3>4, <5>1
          <6>2. closed(p) < n => ~ n < m.step + 1
            BY <1>5, <1>8, <1>10, <3>4
          <6>3. n < m.step => n < m.step + 1
            BY <1>5
          <6>4. QED
            BY <6>1, <6>2, <6>3
        <5>2. CASE a # c
          BY <1>5, <3>4, <5>2
        <5>3. QED
          BY <5>1, <5>2
      <4>3. round(p, n, experiment') = round(p, n, experiment)
        BY <1>11, <3>4
      <4>4. QED
        BY <3>1, <4>1, <4>2, <4>3
    <3>5. QED
      BY <3>2, <3>3, <3>4
  <2>2. \A k \in DOMAIN out'[p][a] :
          out'[p][a][k].tag = "phi_correction" =>
            \A direction \in Directions :
              <<p, out'[p][a][k].step, a, direction>> \notin logged
    <3> SUFFICES ASSUME NEW k \in DOMAIN out'[p][a],
                        out'[p][a][k].tag = "phi_correction"
                 PROVE  \A direction \in Directions :
                          <<p, out'[p][a][k].step, a, direction>> \notin logged
      OBVIOUS
    <3>1. PICK l \in DOMAIN out[p][a] : out'[p][a][k] = out[p][a][l]
      BY <1>5
    <3>2. out[p][a][l].tag = "phi_correction"
      BY <3>1
    <3>3. \A direction \in Directions :
            <<p, out[p][a][l].step, a, direction>> \notin logged
      BY <1>9, <3>2
    <3>4. QED
      BY <3>1, <3>3
  <2>3. \A n \in Nat :
          <<p, n, a>> \in experiment'.seen_corrections =>
            \E direction \in Directions : <<p, n, a, direction>> \in logged
    BY <1>4, <1>9
  <2>4. QED
    BY <1>7, <1>12, <2>1, <2>2, <2>3 DEF Hears, closed_now
<1>17. ASSUME NEW a \in Coordinates, NEW k \in DOMAIN out[plane][a],
              is_status(out[plane][a][k], m.step)
       PROVE  a = c /\ k = 1
  <2>1. /\ DOMAIN out[plane][a] = 1 .. Len(out[plane][a])
        /\ Len(out[plane][a]) \in Nat /\ out[plane][a] # << >>
        /\ 1 \in DOMAIN out[plane][a]
        /\ out[plane][a][1].step \in Nat
    <3>1. /\ DOMAIN out[plane][a] = 1 .. Len(out[plane][a])
          /\ Len(out[plane][a]) \in Nat
          /\ \A l \in DOMAIN out[plane][a] : out[plane][a][l].step \in Nat
      BY <1>1, QueueFacts
    <3>2. 1 \in DOMAIN out[plane][a]
      BY <1>17, <3>1
    <3>3. out[plane][a] # << >>
      BY <3>2
    <3>4. QED
      BY <3>1, <3>2, <3>3
  <2>2. k = 1 \/ 1 < k
    BY <1>17, <2>1
  <2>3. 1 < k => \/ out[plane][a][1].step < m.step
                 \/ /\ out[plane][a][1].step = m.step
                    /\ out[plane][a][1].tag = "phi_correction"
    BY <1>1, <1>17, <2>1 DEF InOrder, is_status
  <2>4. reached(plane, a) = out[plane][a][1].step
    BY <2>1 DEF reached
  <2>5. a = c
    <3> SUFFICES ASSUME a # c PROVE FALSE
      OBVIOUS
    <3>1. m.step < out[plane][a][1].step
      BY <1>10, <2>4
    <3>2. k = 1 => FALSE
      BY <1>5, <1>17, <2>1, <3>1 DEF is_status
    <3>3. QED
      BY <1>5, <2>1, <2>2, <2>3, <3>1, <3>2
  <2>6. QED
    BY <1>5, <2>1, <2>2, <2>3, <2>5
<1>18. ASSUME NEW p \in Planes, NEW n \in Nat, p # plane \/ n # m.step,
              Shows(p, n)
       PROVE  Shows(p, n)'
  <2>1. round(p, n, experiment') = round(p, n, experiment)
    BY <1>11, <1>18
  <2>2. CASE \E r \in round(p, n, experiment) : r.present = 1
    BY <2>1, <2>2 DEF Shows
  <2>3. CASE \E a \in Coordinates : \E k \in DOMAIN out[p][a] :
               is_status(out[p][a][k], n) /\ out[p][a][k].present = 1
    <3>1. PICK a \in Coordinates : \E k \in DOMAIN out[p][a] :
                 is_status(out[p][a][k], n) /\ out[p][a][k].present = 1
      BY <2>3
    <3>2. PICK k \in DOMAIN out[p][a] :
                 is_status(out[p][a][k], n) /\ out[p][a][k].present = 1
      BY <3>1
    <3>3. ~ (p = plane /\ a = c /\ k = 1)
      BY <1>5, <1>18, <3>2 DEF is_status
    <3>4. PICK l \in DOMAIN out'[p][a] : out'[p][a][l] = out[p][a][k]
      BY <1>5, <3>3
    <3>5. is_status(out'[p][a][l], n) /\ out'[p][a][l].present = 1
      BY <3>2, <3>4
    <3>6. QED
      BY <3>5 DEF Shows
  <2>4. QED
    BY <1>18, <2>2, <2>3 DEF Shows
<1>19. ASSUME NEW n \in Nat, n = m.step, n \in zero(plane, m)
       PROVE  n >= first_quiet /\ Emptied(plane, n)
  <2>1. /\ \A r \in with_row(plane, m) :
             r.plane = plane /\ r.step = n => r.present = 0
        /\ n >= first_quiet
    BY <1>19 DEF zero, quiet_row
  <2>2. n > closed(plane) /\ n < plane_step[plane]
    BY <1>5, <1>8, <1>10, <1>19
  <2>3. Emptied(plane, n) \/ Shows(plane, n)
    BY <1>2, <2>1, <2>2 DEF Empties, closed
  <2>4. ~ \E r \in round(plane, n, experiment) : r.present = 1
    BY <2>1 DEF round, with_row
  <2>5. m.present = 0
    BY <1>6, <1>19, <2>1 DEF with_row
  <2>6. ~ \E a \in Coordinates : \E k \in DOMAIN out[plane][a] :
            is_status(out[plane][a][k], n) /\ out[plane][a][k].present = 1
    <3> SUFFICES ASSUME NEW a \in Coordinates, NEW k \in DOMAIN out[plane][a],
                        is_status(out[plane][a][k], n),
                        out[plane][a][k].present = 1
                 PROVE  FALSE
      OBVIOUS
    <3>1. a = c /\ k = 1
      BY <1>17, <1>19
    <3>2. QED
      BY <1>5, <2>5, <3>1
  <2>7. QED
    BY <2>1, <2>3, <2>4, <2>6 DEF Shows
<1>20. ASSUME NEW p \in Planes, NEW s \in experiment'.zero_steps[p]
       PROVE  s \in Nat /\ s >= first_quiet /\ s <= closed_now(p) /\ Emptied(p, s)
  <2>1. CASE s \in experiment.zero_steps[p]
    <3>1. s \in Nat /\ s >= first_quiet /\ s <= closed(p) /\ Emptied(p, s)
      BY <1>2, <1>8, <2>1 DEF Empties, closed
    <3>2. s <= closed_now(p)
      BY <1>5, <1>8, <1>10, <3>1
    <3>3. QED
      BY <3>1, <3>2
  <2>2. CASE p = plane /\ s \in zero(plane, m)
    <3>1. s = m.step
      BY <2>2 DEF zero
    <3>2. s >= first_quiet /\ Emptied(p, s)
      BY <1>5, <1>19, <2>2, <3>1
    <3>3. s <= closed_now(p)
      BY <1>5, <1>8, <2>2, <3>1
    <3>4. QED
      BY <1>5, <3>1, <3>2, <3>3
  <2>3. QED
    BY <1>4, <2>1, <2>2
<1>21. ASSUME NEW p \in Planes PROVE Empties(p)'
  <2>1. Empties(p)
    BY <1>2
  <2>2. \A n \in Nat :
          /\ n > closed_now(p) /\ n < plane_step[p] /\ n >= first_quiet
          => Emptied(p, n)' \/ Shows(p, n)'
    <3> SUFFICES ASSUME NEW n \in Nat, n > closed_now(p), n < plane_step[p],
                        n >= first_quiet
                 PROVE  Emptied(p, n)' \/ Shows(p, n)'
      OBVIOUS
    <3>1. n > closed(p) /\ (p # plane \/ n # m.step)
      BY <1>5, <1>8, <1>10
    <3>2. Emptied(p, n) \/ Shows(p, n)
      BY <2>1, <3>1 DEF Empties, closed
    <3>3. QED
      BY <1>7, <1>18, <3>1, <3>2
  <2>3. \A n \in experiment'.zero_steps[p] :
          n >= first_quiet /\ n <= closed_now(p) /\ Emptied(p, n)'
    BY <1>7, <1>20
  <2>4. \A a \in Coordinates : \A k \in DOMAIN out'[p][a] :
          LET v == out'[p][a][k]
          IN  v.tag = "phi_status" =>
                /\ v.quiet = quiet_from(v.step)
                /\ v.step + 1 = plane_step[p] => v.present = anyon[p][a]
    <3> SUFFICES ASSUME NEW a \in Coordinates, NEW k \in DOMAIN out'[p][a]
                 PROVE  LET v == out'[p][a][k]
                        IN  v.tag = "phi_status" =>
                              /\ v.quiet = quiet_from(v.step)
                              /\ v.step + 1 = plane_step[p] =>
                                   v.present = anyon[p][a]
      OBVIOUS
    <3>1. PICK l \in DOMAIN out[p][a] : out'[p][a][k] = out[p][a][l]
      BY <1>5
    <3>2. LET v == out[p][a][l]
          IN  v.tag = "phi_status" =>
                /\ v.quiet = quiet_from(v.step)
                /\ v.step + 1 = plane_step[p] => v.present = anyon[p][a]
      BY <2>1 DEF Empties
    <3>3. QED
      BY <3>1, <3>2
  <2>5. \A r \in with_row(plane, m) :
          r.plane = p =>
            /\ r.quiet = quiet_from(r.step)
            /\ r.step + 1 = plane_step[p] => r.present = anyon[p][r.at]
    <3> SUFFICES ASSUME NEW r \in with_row(plane, m), r.plane = p
                 PROVE  /\ r.quiet = quiet_from(r.step)
                        /\ r.step + 1 = plane_step[p] =>
                             r.present = anyon[p][r.at]
      OBVIOUS
    <3>1. CASE r \in experiment.status_rounds
      BY <2>1, <3>1 DEF Empties
    <3>2. CASE r = row(plane, m)
      BY <1>5, <1>6, <3>2
    <3>3. QED
      BY <3>1, <3>2 DEF with_row
  <2>6. \A n : /\ n = closed_now(p) /\ n + 1 = plane_step[p]
               /\ n >= first_quiet /\ Emptied(p, n)'
               => n \in experiment'.zero_steps[p]
    <3> SUFFICES ASSUME NEW n, n = closed_now(p), n + 1 = plane_step[p],
                        n >= first_quiet, Emptied(p, n)
                 PROVE  n \in experiment'.zero_steps[p]
      BY <1>7
    <3>1. n \in Int /\ n >= closed_now(p)
      BY <1>8
    <3>2. CASE p # plane
      <4>1. n \in experiment.zero_steps[p]
        BY <1>8, <2>1, <3>2 DEF Empties, closed
      <4>2. QED
        BY <1>4, <3>1, <3>2, <4>1
    <3>3. CASE p = plane
      <4>1. n = m.step
        BY <1>8, <3>3
      <4>2. \A a \in Coordinates : anyon[p][a] = 0
        BY DEF Emptied
      <4>3. \A r \in with_row(plane, m) : r.at \in Coordinates
        BY <1>1, <1>5 DEF CloseoutTypes, IsExperiment, Fields, Rounds, with_row
      <4>4. \A r \in with_row(plane, m) :
              r.plane = plane /\ r.step = m.step => quiet_row(r)
        BY <2>5, <3>3, <4>1, <4>2, <4>3 DEF quiet_row, quiet_from
      <4>5. n \in zero(plane, m)
        BY <4>1, <4>4 DEF zero
      <4>6. QED
        BY <1>4, <3>1, <3>3, <4>5
    <3>4. QED
      BY <3>2, <3>3
  <2>7. \A r \in experiment'.status_rounds :
          r.plane = p =>
            /\ r.quiet = quiet_from(r.step)
            /\ r.step + 1 = plane_step[p] => r.present = anyon[p][r.at]
    BY <1>4, <2>5
  <2>8. QED
    BY <1>3, <1>7, <2>2, <2>3, <2>4, <2>6, <2>7 DEF Empties, closed_now
<1>22. ASSUME NEW d \in Datas PROVE Framed(d)'
  <2>1. \A p \in Planes : on(p, d)' = on(p, d)
    BY <1>7 DEF on
  <2>2. \A p \in Planes :
          Cardinality(positions(commands'[d],
                                pauli_update(d, correction_pauli[p])))
            = Cardinality(positions(commands[d],
                                    pauli_update(d, correction_pauli[p])))
    <3>1. CASE commands'[d] = commands[d]
      BY <3>1
    <3>2. CASE commands'[d] = Append(commands[d], pauli_query)
      <4> SUFFICES ASSUME NEW p \in Planes
                   PROVE  Cardinality(positions(commands'[d],
                            pauli_update(d, correction_pauli[p])))
                          = Cardinality(positions(commands[d],
                              pauli_update(d, correction_pauli[p])))
        OBVIOUS
      <4> DEFINE up == pauli_update(d, correction_pauli[p])
                 P == Cardinality(positions(commands[d], up))
      <4>1. commands[d] \in Seq(Updates(d) \cup {pauli_query})
        BY <1>1 DEF CloseoutTypes
      <4>2. up # pauli_query /\ pauli_query \in Updates(d) \cup {pauli_query}
        BY DEF pauli_update, pauli_query
      <4>3. P \in Nat
        BY <4>1, Occurs
      <4> HIDE DEF up
      <4>4. Cardinality(positions(Append(commands[d], pauli_query), up))
              = P + (IF pauli_query = up THEN 1 ELSE 0)
        BY <4>1, <4>2, OccursOnceMore
      <4> HIDE DEF P
      <4>5. Cardinality(positions(commands'[d], up)) = P
        BY <3>2, <4>2, <4>3, <4>4
      <4>6. QED
        BY <4>5 DEF up, P
    <3>3. QED
      BY <1>4, <3>1, <3>2
  <2>3. QED
    BY <1>1, <1>3, <2>1, <2>2 DEF Framed
<1>23. CASE common(experiment') = {}
  <2>1. experiment'.phase = "draining" /\ commands' = commands
    BY <1>4, <1>23
  <2>2. Draining'
    BY <1>2, <1>3, <1>4, <1>15, <1>16, <1>21, <1>23, <2>1 DEF Draining
  <2>3. Querying'
    BY <2>1 DEF Querying
  <2>4. QED
    BY <1>5, <1>13, <1>14, <1>22, <2>2, <2>3 DEF CloseoutInv
<1>24. CASE common(experiment') # {}
  <2>1. /\ experiment'.phase = "querying"
        /\ commands' = [d \in Datas |-> Append(commands[d], pauli_query)]
    BY <1>4, <1>24
  <2>2. PICK s \in common(experiment') : TRUE
    BY <1>24
  <2>3. \A p \in Planes : /\ s \in Nat /\ s >= first_quiet
                          /\ s <= closed_now(p) /\ Emptied(p, s)
    BY <1>20, <2>2, Constants DEF common
  <2>4. ASSUME NEW p \in Planes, NEW a \in Coordinates
        PROVE  /\ s < reached(p, a)' /\ s < plane_step[p]
               /\ \A k \in DOMAIN out'[p][a] : out'[p][a][k].tag = "phi_status"
    <3> DEFINE t == out'[p][a]
    <3>1. /\ t \in Seq(Moves(a) \cup Reports(a))
          /\ \A k \in DOMAIN t : t[k].step < plane_step[p]
          /\ \A j, k \in DOMAIN t :
               j < k => \/ t[j].step < t[k].step
                        \/ /\ t[j].step = t[k].step
                           /\ t[j].tag = "phi_correction"
                           /\ t[k].tag = "phi_status"
          /\ \A k \in DOMAIN t :
               t[k].tag = "phi_correction" =>
                 <<p, t[k].step, a, t[k].direction>> \in emitted
          /\ reached(p, a)' = IF t = << >> THEN plane_step[p] ELSE t[1].step
      <4>1. InOrder(p, a)' /\ t \in Seq(Moves(a) \cup Reports(a))
        BY <1>5
      <4>2. reached(p, a)' = IF t = << >> THEN plane_step[p] ELSE t[1].step
        BY <1>3 DEF reached
      <4>3. QED
        BY <1>3, <4>1, <4>2 DEF InOrder
    <3> HIDE DEF t
    <3>2. /\ DOMAIN t = 1 .. Len(t) /\ Len(t) \in Nat
          /\ t # << >> => 1 \in DOMAIN t
          /\ \A k \in DOMAIN t : t[k] \in Moves(a) \cup Reports(a)
      BY <3>1
    <3>3. \A k \in DOMAIN t : /\ t[k].step \in Nat
                              /\ t[k].tag \in {"phi_correction", "phi_status"}
      BY <3>2, EventFacts
    <3>4. closed_now(p) < reached(p, a)' /\ closed_now(p) \in Int
          /\ s <= closed_now(p) /\ s \in Nat /\ plane_step[p] \in Nat
      BY <1>8, <1>12, <2>3
    <3>5. reached(p, a)' \in Nat /\ reached(p, a)' <= plane_step[p]
      BY <3>1, <3>2, <3>3, <3>4
    <3>6. s < reached(p, a)' /\ s < plane_step[p]
      BY <3>4, <3>5
    <3>7. ASSUME NEW k \in DOMAIN t, t[k].tag = "phi_correction" PROVE FALSE
      <4>1. t # << >> /\ 1 \in DOMAIN t /\ (k = 1 \/ 1 < k)
        BY <3>2, <3>7
      <4>2. reached(p, a)' = t[1].step /\ t[1].step \in Nat /\ t[k].step \in Nat
        BY <3>1, <3>3, <4>1
      <4>3. t[1].step <= t[k].step
        BY <3>1, <3>7, <4>1, <4>2
      <4>4. <<p, t[k].step, a, t[k].direction>> \in emitted
        BY <3>1, <3>7
      <4>5. t[k].step <= s
        BY <2>3, <4>4 DEF Emptied
      <4>6. QED
        BY <3>4, <3>6, <4>2, <4>3, <4>5
    <3>8. QED
      BY <3>3, <3>6, <3>7 DEF t
  <2>5. ASSUME NEW v \in emitted PROVE v \in logged
    <3>1. v[1] \in Planes /\ v[3] \in Coordinates
      BY <1>1 DEF CloseoutTypes, Corrections
    <3>2. \/ v \in logged
          \/ \E k \in DOMAIN out'[v[1]][v[3]] :
               out'[v[1]][v[3]][k] = phi_correction(v[2], v[3], v[4])
      BY <1>3, <1>7, <1>15, <3>1 DEF Closing
    <3>3. phi_correction(v[2], v[3], v[4]).tag = "phi_correction"
      BY DEF phi_correction
    <3>4. QED
      BY <2>4, <3>1, <3>2, <3>3
  <2>6. ASSUME NEW p \in Planes
        PROVE  /\ plane_step[p] > first_quiet
               /\ \A a \in Coordinates : anyon[p][a] = 0
    <3>1. PICK a \in Coordinates : TRUE
      BY Constants
    <3>2. s < plane_step[p] /\ s >= first_quiet /\ s \in Nat
      BY <2>3, <2>4, <3>1
    <3>3. plane_step[p] > first_quiet
      BY <1>7, <1>8, <3>2
    <3>4. QED
      BY <2>3, <3>3 DEF Emptied
  <2>7. ASSUME NEW d \in Datas PROVE Answering(d)'
    <3>1. /\ commands[d] \in Seq(Updates(d) \cup {pauli_query})
          /\ commands'[d] = Append(commands[d], pauli_query)
      BY <1>1, <2>1 DEF CloseoutTypes
    <3> DEFINE q == commands[d]
               n == Len(q)
               t == Append(q, pauli_query)
               S == Updates(d) \cup {pauli_query}
    <3>2. q \in Seq(S) /\ pauli_query \in S
      BY <3>1
    <3>3. \A k \in DOMAIN q : q[k] # pauli_query
      BY <1>2
    <3> HIDE DEF q, S
    <3>4. /\ DOMAIN q = 1 .. n /\ DOMAIN t = 1 .. n + 1 /\ n \in Nat
          /\ \A k \in 1 .. n : t[k] = q[k]
          /\ t[n + 1] = pauli_query /\ t \in Seq(S)
      BY <3>2, AppendedOne
    <3> HIDE DEF n, t
    <3>5. t # << >> /\ Len(t) = n + 1
      BY <3>4
    <3>6. \A k \in 1 .. n + 1 :
            t[k] = pauli_query <=> k = Len(t)
      <4> SUFFICES ASSUME NEW k \in 1 .. n + 1
                   PROVE  t[k] = pauli_query <=> k = n + 1
        BY <3>5
      <4>1. k \in 1 .. n \/ k = n + 1
        BY <3>4
      <4>2. k \in 1 .. n => k # n + 1
        BY <3>4
      <4>3. QED
        BY <3>3, <3>4, <4>1, <4>2
    <3>7. commands'[d] = t
      BY <3>1 DEF t, q
    <3>8. replies'[d] = << >> /\ experiment'.replies = {}
      BY <1>2, <1>3, <1>4
    <3>9. QED
      BY <3>4, <3>5, <3>6, <3>7, <3>8 DEF Answering
  <2>8. experiment'.replies = {} /\ experiment'.phase # "done"
    BY <1>2, <1>4, <2>1
  <2>9. \E d \in Datas : TRUE
    BY Constants
  <2>10. Querying'
    BY <1>3, <1>7, <2>4, <2>5, <2>6, <2>7, <2>8, <2>9 DEF Querying
  <2>11. Draining'
    BY <2>1 DEF Draining
  <2>12. QED
    BY <1>5, <1>13, <1>14, <1>22, <2>10, <2>11 DEF CloseoutInv
<1>25. QED
  BY <1>23, <1>24

(* An event that comes after the query tells nothing new.                  *)
LEMMA LateEventInv ==
  ASSUME CloseoutInv, experiment.phase # "draining",
         NEW plane \in Planes, NEW c \in Coordinates,
         receive_decoder_event(plane, c)
  PROVE  CloseoutInv'
<1> DEFINE m == Head(out[plane][c])
<1>1. /\ CloseoutTypes /\ Logs /\ Querying
      /\ \A p \in Planes, a \in Coordinates : InOrder(p, a)
      /\ \A d \in Datas : Framed(d)
  BY DEF CloseoutInv
<1>2. /\ out[plane][c] # << >>
      /\ out' = [out EXCEPT ![plane][c] = Tail(@)]
      /\ plane_step' = plane_step /\ anyon' = anyon /\ frame' = frame
      /\ replies' = replies /\ emitted' = emitted
      /\ consume(decoder_event(plane, m, experiment))
  BY DEF receive_decoder_event
<1>3. LET q == out[plane][c]
      IN  /\ m = q[1] /\ m \in Moves(c) \cup Reports(c) /\ 1 \in DOMAIN q
          /\ out' = [p \in Planes |-> [a \in Coordinates |-> out'[p][a]]]
          /\ \A p \in Planes, a \in Coordinates :
               /\ out'[p][a] \in Seq(Moves(a) \cup Reports(a))
               /\ p # plane \/ a # c =>
                    out'[p][a] = out[p][a] /\ reached(p, a)' = reached(p, a)
               /\ InOrder(p, a)'
          /\ \A k \in DOMAIN out'[plane][c] :
               k + 1 \in DOMAIN q /\ out'[plane][c][k] = q[k + 1]
          /\ \A k \in DOMAIN q :
               k # 1 => k - 1 \in DOMAIN out'[plane][c]
                        /\ out'[plane][c][k - 1] = q[k]
          /\ reached(plane, c) = m.step
          /\ reached(plane, c)' =
               IF m.tag = "phi_correction" THEN m.step ELSE m.step + 1
  BY <1>1, <1>2, TakesEvent
<1>4. /\ emitted \subseteq logged
      /\ \A p \in Planes :
           /\ plane_step[p] > first_quiet
           /\ \A a \in Coordinates :
                /\ anyon[p][a] = 0
                /\ \A k \in DOMAIN out[p][a] : out[p][a][k].tag = "phi_status"
      /\ \A d \in Datas : Answering(d)
      /\ experiment.replies \subseteq {<<d, answer(d)>> : d \in Datas}
      /\ experiment.phase = "done"
           <=> \A d \in Datas : <<d, answer(d)>> \in experiment.replies
  BY <1>1 DEF Querying
<1>5. m.tag = "phi_status"
  BY <1>3, <1>4
<1>6. experiment.phase \in {"querying", "done"}
  BY <1>1 DEF CloseoutTypes, IsExperiment, Fields
<1> HIDE DEF m
<1>7. decoder_event(plane, m, experiment) = done(experiment)
  BY <1>5, <1>6 DEF decoder_event
<1>8. experiment' = experiment /\ commands' = commands
  BY <1>1, <1>2, <1>7, SubmitsNone DEF consume, done
<1>9. logged' = logged
  BY <1>8 DEF logged
<1>10. CloseoutTypes' /\ Logs'
  BY <1>1, <1>2, <1>3, <1>8, <1>9 DEF CloseoutTypes, Logs
<1>11. \A p \in Planes, a \in Coordinates :
         \A k \in DOMAIN out'[p][a] : out'[p][a][k].tag = "phi_status"
  <2> SUFFICES ASSUME NEW p \in Planes, NEW a \in Coordinates
               PROVE  \A k \in DOMAIN out'[p][a] : out'[p][a][k].tag = "phi_status"
    OBVIOUS
  <2>1. CASE p = plane /\ a = c
    BY <1>3, <1>4, <2>1
  <2>2. CASE p # plane \/ a # c
    <3>1. out'[p][a] = out[p][a]
      BY <1>3, <2>2
    <3>2. QED
      BY <1>4, <3>1
  <2>3. QED
    BY <2>1, <2>2
<1>12. \A d \in Datas : answer(d)' = answer(d) /\ Framed(d)'
  BY <1>1, <1>2, <1>8, <1>9 DEF answer, on, Framed
<1>13. \A d \in Datas : Answering(d)'
  BY <1>2, <1>4, <1>8, <1>12 DEF Answering
<1>14. Querying'
  <2>1. first_quiet' = first_quiet
    BY <1>8 DEF first_quiet
  <2>2. QED
    BY <1>2, <1>4, <1>8, <1>9, <1>11, <1>12, <1>13, <2>1 DEF Querying
<1>15. Draining'
  BY <1>8 DEF Draining
<1>16. QED
  BY <1>3, <1>10, <1>12, <1>14, <1>15 DEF CloseoutInv

(* What a data cell and the replies change leaves the planes as they are.  *)
PlanesRest ==
  /\ plane_step' = plane_step /\ anyon' = anyon /\ out' = out
  /\ emitted' = emitted
  /\ experiment'.correction_log = experiment.correction_log
  /\ experiment'.cutoff_step = experiment.cutoff_step

(* A step of a data cell leaves the planes as they are.                    *)
LEMMA PlanesAsBefore ==
  ASSUME CloseoutInv, PlanesRest
  PROVE  /\ Logs' /\ logged' = logged
         /\ \A p \in Planes, a \in Coordinates :
              InOrder(p, a)' /\ reached(p, a)' = reached(p, a)
         /\ \A d \in Datas : answer(d)' = answer(d)
         /\ \A p \in Planes, d \in Datas : on(p, d)' = on(p, d)
         /\ first_quiet' = first_quiet
<1>1. /\ Logs /\ \A p \in Planes, a \in Coordinates : InOrder(p, a)
  BY DEF CloseoutInv
<1>2. logged' = logged
  BY DEF logged, PlanesRest
<1>3. \A p \in Planes, d \in Datas : on(p, d)' = on(p, d)
  BY <1>2 DEF on
<1>4. \A d \in Datas : answer(d)' = answer(d)
  BY <1>2 DEF answer, on
<1>5. \A p \in Planes, a \in Coordinates :
        InOrder(p, a)' /\ reached(p, a)' = reached(p, a)
  BY <1>1, SameEvents DEF PlanesRest
<1>6. Logs' /\ first_quiet' = first_quiet
  BY <1>1, <1>2 DEF Logs, PlanesRest, first_quiet
<1>7. QED
  BY <1>2, <1>3, <1>4, <1>5, <1>6

(* A data cell takes an update: the parity of the corrections that have    *)
(* reached it and of those underway stays.                                 *)
LEMMA UpdateInv ==
  ASSUME CloseoutInv, NEW d \in Datas, data_cell(d),
         Head(commands[d]) # pauli_query
  PROVE  CloseoutInv'
<1> DEFINE q == commands[d]
           command == Head(commands[d])
           S == Updates(d) \cup {pauli_query}
<1>1. /\ CloseoutTypes /\ Logs /\ Draining /\ Querying
      /\ \A e \in Datas : Framed(e)
  BY DEF CloseoutInv
<1>2. q # << >> /\ commands' = [commands EXCEPT ![d] = Tail(@)]
      /\ experiment' = experiment /\ plane_step' = plane_step
      /\ anyon' = anyon /\ out' = out /\ emitted' = emitted
  BY DEF data_cell, device
<1>3. q \in Seq(S) /\ commands = [e \in Datas |-> commands[e]]
      /\ frame \in [Datas -> Paulis]
  BY <1>1 DEF CloseoutTypes
<1> HIDE DEF S
<1>4. /\ Len(q) \in Nat \ {0} /\ DOMAIN q = 1 .. Len(q)
      /\ command = q[1] /\ command \in S
      /\ Tail(q) \in Seq(S)
      /\ DOMAIN Tail(q) = 1 .. Len(q) - 1
      /\ Len(Tail(q)) = Len(q) - 1
      /\ \A k \in 1 .. Len(q) - 1 : Tail(q)[k] = q[k + 1]
      /\ Tail(q) = << >> <=> Len(q) = 1
  <2> HIDE DEF q
  <2>1. q # << >> /\ q \in Seq(S)
    BY <1>2, <1>3
  <2>2. QED
    BY <2>1, FirstTaken DEF q
<1>5. /\ command.tag = "pauli_update" /\ command.pauli \in {x, z}
      /\ command = pauli_update(d, command.pauli)
  BY <1>4 DEF S, Updates, pauli_update
<1>6. frame' = [frame EXCEPT ![d] = multiply(@, command.pauli)]
      /\ replies' = replies
  BY <1>5 DEF data_cell
<1>7. commands' = [e \in Datas |-> IF e = d THEN Tail(q) ELSE commands[e]]
  BY <1>2, <1>3
<1>8. CloseoutTypes'
  <2>1. multiply(frame[d], command.pauli) \in Paulis
    BY <1>3, <1>5 DEF multiply, Paulis, xor, Bit, x, z
  <2>2. frame' \in [Datas -> Paulis]
    BY <1>3, <1>6, <2>1
  <2>3. \A e \in Datas : commands'[e] \in Seq(Updates(e) \cup {pauli_query})
    BY <1>1, <1>4, <1>7 DEF CloseoutTypes, S
  <2>4. commands' = [e \in Datas |-> commands'[e]]
    BY <1>7
  <2>5. QED
    BY <1>1, <1>2, <1>6, <2>2, <2>3, <2>4 DEF CloseoutTypes
<1>9. /\ Logs' /\ logged' = logged
      /\ \A p \in Planes, a \in Coordinates :
           InOrder(p, a)' /\ reached(p, a)' = reached(p, a)
      /\ \A e \in Datas : answer(e)' = answer(e)
      /\ \A p \in Planes, e \in Datas : on(p, e)' = on(p, e)
      /\ first_quiet' = first_quiet
  <2>1. PlanesRest
    BY <1>2 DEF PlanesRest
  <2>2. QED
    BY <2>1, PlanesAsBefore
<1>10. ASSUME experiment.phase = "draining" PROVE Draining'
  <2>1. /\ \A p \in Planes : Closing(p) /\ Empties(p)
        /\ \A p \in Planes, a \in Coordinates : Hears(p, a)
        /\ common(experiment) = {} /\ experiment.replies = {}
        /\ \A e \in Datas : replies[e] = << >>
        /\ \A e \in Datas : \A k \in DOMAIN commands[e] :
             commands[e][k] # pauli_query
    BY <1>1, <1>10 DEF Draining
  <2>2. \A p \in Planes : Closing(p)' /\ Empties(p)'
    <3> SUFFICES ASSUME NEW p \in Planes PROVE Closing(p)' /\ Empties(p)'
      OBVIOUS
    <3>1. Closing(p)'
      BY <1>2, <1>9, <2>1 DEF Closing
    <3>2. /\ \A n : Emptied(p, n)' <=> Emptied(p, n)
          /\ \A n : Shows(p, n)' <=> Shows(p, n)
          /\ \A n : quiet_from(n)' = quiet_from(n)
      BY <1>2, <1>9 DEF Emptied, Shows, round, quiet_from
    <3>3. Empties(p)'
      BY <1>2, <1>9, <2>1, <3>2 DEF Empties
    <3>4. QED
      BY <3>1, <3>3
  <2>3. \A p \in Planes, a \in Coordinates : Hears(p, a)'
    <3> SUFFICES ASSUME NEW p \in Planes, NEW a \in Coordinates
                 PROVE  Hears(p, a)'
      OBVIOUS
    <3>1. Hears(p, a)
      BY <2>1
    <3>2. \A n : round(p, n, experiment)' = round(p, n, experiment)
      BY <1>2 DEF round
    <3>3. QED
      BY <1>2, <1>9, <3>1, <3>2 DEF Hears
  <2>4. \A e \in Datas : \A k \in DOMAIN commands'[e] :
          commands'[e][k] # pauli_query
    BY <1>4, <1>7, <2>1
  <2>5. QED
    BY <1>2, <1>6, <2>1, <2>2, <2>3, <2>4 DEF Draining, common
<1>11. ASSUME experiment.phase # "draining" PROVE Querying'
  <2>1. /\ emitted \subseteq logged
        /\ \A p \in Planes :
             /\ plane_step[p] > first_quiet
             /\ \A a \in Coordinates :
                  /\ anyon[p][a] = 0
                  /\ \A k \in DOMAIN out[p][a] : out[p][a][k].tag = "phi_status"
        /\ \A e \in Datas : Answering(e)
        /\ experiment.replies \subseteq {<<e, answer(e)>> : e \in Datas}
        /\ experiment.phase = "done"
             <=> \A e \in Datas : <<e, answer(e)>> \in experiment.replies
    BY <1>1, <1>11 DEF Querying
  <2>2. Answering(d)'
    <3>1. /\ replies[d] = << >>
          /\ \A k \in DOMAIN q : q[k] = pauli_query <=> k = Len(q)
          /\ <<d, answer(d)>> \notin experiment.replies
      BY <1>2, <2>1 DEF Answering
    <3>2. Len(q) # 1
      <4>1. 1 \in DOMAIN q /\ q[1] # pauli_query
        BY <1>4
      <4>2. QED
        BY <3>1, <4>1
    <3>3. \A k \in DOMAIN Tail(q) : Tail(q)[k] = pauli_query <=> k = Len(Tail(q))
      <4> SUFFICES ASSUME NEW k \in 1 .. Len(q) - 1
                   PROVE  Tail(q)[k] = pauli_query <=> k = Len(q) - 1
        BY <1>4
      <4>1. k + 1 \in DOMAIN q /\ Tail(q)[k] = q[k + 1]
        BY <1>4
      <4>2. k + 1 = Len(q) <=> k = Len(q) - 1
        BY <1>4
      <4>3. QED
        BY <3>1, <4>1, <4>2
    <3>4. commands'[d] = Tail(q) /\ Tail(q) # << >>
      BY <1>4, <1>7, <3>2
    <3>5. answer(d)' = answer(d)
      BY <1>9
    <3> HIDE DEF q
    <3>6. QED
      BY <1>2, <1>6, <3>1, <3>3, <3>4, <3>5 DEF Answering
  <2>3. ASSUME NEW e \in Datas, e # d PROVE Answering(e)'
    <3>1. commands'[e] = commands[e] /\ answer(e)' = answer(e)
      BY <1>7, <1>9, <2>3
    <3>2. QED
      BY <1>2, <1>6, <2>1, <3>1 DEF Answering
  <2>4. \A e \in Datas : Answering(e)'
    BY <2>2, <2>3
  <2>5. QED
    BY <1>2, <1>9, <2>1, <2>4 DEF Querying
<1>12. ASSUME NEW e \in Datas PROVE Framed(e)'
  <2>1. CASE e # d
    BY <1>1, <1>6, <1>7, <1>9, <2>1 DEF Framed
  <2>2. CASE e = d
    <3> SUFFICES ASSUME NEW p \in Planes
                 PROVE  part(p, frame'[d]) =
                          (Cardinality(on(p, d))
                             + Cardinality(positions(Tail(q),
                                 pauli_update(d, correction_pauli[p])))) % 2
      BY <1>7, <1>9, <2>2 DEF Framed
    <3> DEFINE up == pauli_update(d, correction_pauli[p])
               C == Cardinality(on(p, d))
               P == Cardinality(positions(q, up))
               T == Cardinality(positions(Tail(q), up))
               hit == IF command = up THEN 1 ELSE 0
    <3>1. part(p, frame[d]) = (C + P) % 2
      BY <1>1 DEF Framed
    <3>2. C \in Nat
      <4>1. IsFiniteSet(logged) /\ on(p, d) \in SUBSET logged
        BY <1>1 DEF Logs, on
      <4>2. QED
        BY <4>1, FS_Subset, FS_CardinalityType
    <3>3. T \in Nat
      BY <1>4, Occurs
    <3>4. P = T + hit
      <4> HIDE DEF q, up
      <4>1. Cardinality(positions(q, up)) =
              Cardinality(positions(Tail(q), up))
                + (IF Head(q) = up THEN 1 ELSE 0)
        BY <1>2, <1>3, OccursOnceLess
      <4>2. QED
        BY <4>1 DEF q
    <3>5. command = up <=> command.pauli = correction_pauli[p]
      BY <1>5 DEF pauli_update
    <3>6. part(p, frame'[d]) = xor(part(p, frame[d]), hit)
      <4>1. frame'[d] = multiply(frame[d], command.pauli)
        BY <1>3, <1>6
      <4>2. frame[d].x \in Bit /\ frame[d].z \in Bit
        BY <1>3 DEF Paulis
      <4>3. hit = part(p, command.pauli)
        <5>1. x.x = 1 /\ x.z = 0 /\ z.x = 0 /\ z.z = 1
          BY DEF x, z
        <5>2. CASE p = "x"
          BY <1>5, <3>5, <5>1, <5>2, Constants DEF part
        <5>3. CASE p = "z"
          BY <1>5, <3>5, <5>1, <5>3, Constants DEF part
        <5>4. QED
          BY <5>2, <5>3, Constants
      <4>4. part(p, frame'[d]) = xor(part(p, frame[d]), part(p, command.pauli))
        BY <4>1 DEF part, multiply
      <4>5. QED
        BY <4>3, <4>4
    <3> HIDE DEF C, P, T, hit, up
    <3>7. hit \in {0, 1}
      BY DEF hit
    <3>8. (((C + (T + hit)) % 2) + hit) % 2 = (C + T) % 2
      <4>1. CASE hit = 0
        BY <3>2, <3>3, <4>1
      <4>2. CASE hit = 1
        BY <3>2, <3>3, <4>2
      <4>3. QED
        BY <3>7, <4>1, <4>2
    <3>9. QED
      BY <3>1, <3>4, <3>6, <3>8 DEF xor, C, T, up
  <2>3. QED
    BY <2>1, <2>2
<1>13. (experiment.phase # "draining" => Draining')
       /\ (experiment.phase = "draining" => Querying')
  BY <1>2 DEF Draining, Querying
<1>14. QED
  BY <1>8, <1>9, <1>10, <1>11, <1>12, <1>13 DEF CloseoutInv

(* A data cell answers the query: all that it was told came before, so its *)
(* bit is the parity of the corrections in the log.                        *)
LEMMA QueryInv ==
  ASSUME CloseoutInv, NEW d \in Datas, data_cell(d),
         Head(commands[d]) = pauli_query
  PROVE  CloseoutInv'
<1> DEFINE q == commands[d]
           S == Updates(d) \cup {pauli_query}
           bit == IF anticommutes(frame[d], measurement) THEN 1 ELSE 0
<1>1. /\ CloseoutTypes /\ Logs /\ Draining /\ Querying
      /\ \A e \in Datas : Framed(e)
  BY DEF CloseoutInv
<1>2. q # << >> /\ commands' = [commands EXCEPT ![d] = Tail(@)]
      /\ experiment' = experiment /\ plane_step' = plane_step
      /\ anyon' = anyon /\ out' = out /\ emitted' = emitted
  BY DEF data_cell, device
<1>3. q \in Seq(S) /\ commands = [e \in Datas |-> commands[e]]
      /\ frame \in [Datas -> Paulis] /\ replies \in [Datas -> Seq(Bit)]
  BY <1>1 DEF CloseoutTypes
<1>4. replies' = [replies EXCEPT ![d] = Append(@, bit)] /\ frame' = frame
  BY DEF data_cell, pauli_query
<1> HIDE DEF S, bit
<1>5. /\ Len(q) \in Nat \ {0} /\ DOMAIN q = 1 .. Len(q)
      /\ q[1] = pauli_query
      /\ Tail(q) \in Seq(S)
      /\ Tail(q) = << >> <=> Len(q) = 1
  <2> HIDE DEF q
  <2>1. q # << >> /\ q \in Seq(S)
    BY <1>2, <1>3
  <2>2. Head(q) = pauli_query
    BY DEF q
  <2>3. QED
    BY <2>1, <2>2, FirstTaken
<1>6. experiment.phase # "draining"
  <2>1. 1 \in DOMAIN q
    BY <1>5
  <2>2. QED
    BY <1>1, <1>5, <2>1 DEF Draining
<1>7. /\ emitted \subseteq logged
      /\ \A p \in Planes :
           /\ plane_step[p] > first_quiet
           /\ \A a \in Coordinates :
                /\ anyon[p][a] = 0
                /\ \A k \in DOMAIN out[p][a] : out[p][a][k].tag = "phi_status"
      /\ \A e \in Datas : Answering(e)
      /\ experiment.replies \subseteq {<<e, answer(e)>> : e \in Datas}
      /\ experiment.phase = "done"
           <=> \A e \in Datas : <<e, answer(e)>> \in experiment.replies
  BY <1>1, <1>6 DEF Querying
<1>8. /\ replies[d] = << >> /\ <<d, answer(d)>> \notin experiment.replies
      /\ \A k \in DOMAIN q : q[k] = pauli_query <=> k = Len(q)
  BY <1>2, <1>7 DEF Answering
<1>9. Len(q) = 1 /\ DOMAIN q = {1} /\ Tail(q) = << >>
  <2>1. 1 \in DOMAIN q
    BY <1>5
  <2>2. Len(q) = 1
    BY <1>5, <1>8, <2>1
  <2>3. 1 .. 1 = {1}
    OBVIOUS
  <2>4. QED
    BY <1>5, <2>2, <2>3
<1>10. ASSUME NEW p \in Planes
       PROVE  /\ Cardinality(positions(q,
                   pauli_update(d, correction_pauli[p]))) = 0
              /\ Cardinality(positions(<< >>,
                   pauli_update(d, correction_pauli[p]))) = 0
  <2>1. pauli_update(d, correction_pauli[p]) # pauli_query
    BY DEF pauli_update, pauli_query
  <2>2. \A k \in DOMAIN q : q[k] # pauli_update(d, correction_pauli[p])
    BY <1>5, <1>9, <2>1
  <2>3. \A k \in DOMAIN << >> : << >>[k] # pauli_update(d, correction_pauli[p])
    OBVIOUS
  <2> HIDE DEF q
  <2>4. QED
    BY <2>2, <2>3, OccursNever
<1>11. commands' = [e \in Datas |-> IF e = d THEN << >> ELSE commands[e]]
  BY <1>2, <1>3, <1>9
<1>12. bit = answer(d)
  <2> DEFINE p == IF measurement = x THEN "x" ELSE "z"
             C == Cardinality(on(p, d))
             f == frame[d]
  <2>1. p \in Planes
    BY Constants
  <2>2. C \in Nat
    <3>1. IsFiniteSet(logged) /\ on(p, d) \in SUBSET logged
      BY <1>1 DEF Logs, on
    <3>2. QED
      BY <3>1, FS_Subset, FS_CardinalityType
  <2>3. part(p, f) = answer(d)
    <3>1. part(p, f) = (C + 0) % 2
      BY <1>1, <1>10, <2>1 DEF Framed
    <3> HIDE DEF C
    <3>2. (C + 0) % 2 = C % 2
      BY <2>2
    <3>3. QED
      BY <3>1, <3>2 DEF C, answer
  <2>4. f.x \in Bit /\ f.z \in Bit
    BY <1>3 DEF Paulis
  <2> HIDE DEF f
  <2>5. x.x = 1 /\ x.z = 0 /\ z.x = 0 /\ z.z = 1
    BY DEF x, z
  <2>6. CASE measurement = x
    <3>1. part(p, f) = f.z
      BY <2>6 DEF part
    <3>2. anticommutes(f, measurement) <=> f.z = 1
      BY <2>4, <2>5, <2>6 DEF anticommutes, xor, Bit
    <3>3. QED
      BY <2>3, <2>4, <3>1, <3>2 DEF bit, f, Bit
  <2>7. CASE measurement = z
    <3>1. part(p, f) = f.x
      BY <2>7, Constants DEF part
    <3>2. anticommutes(f, measurement) <=> f.x = 1
      BY <2>4, <2>5, <2>7 DEF anticommutes, xor, Bit
    <3>3. QED
      BY <2>3, <2>4, <3>1, <3>2 DEF bit, f, Bit
  <2>8. QED
    BY <2>6, <2>7, Constants
<1>13. replies' = [e \in Datas |-> IF e = d THEN <<answer(d)>> ELSE replies[e]]
  <2>1. Append(<< >>, bit) = <<bit>>
    OBVIOUS
  <2>2. QED
    BY <1>3, <1>4, <1>8, <1>12, <2>1
<1>14. CloseoutTypes'
  <2>1. bit \in Bit
    BY DEF bit, Bit
  <2>2. <<answer(d)>> \in Seq(Bit)
    BY <1>12, <2>1
  <2>3. replies' \in [Datas -> Seq(Bit)]
    BY <1>3, <1>13, <2>2
  <2>4. \A e \in Datas : commands'[e] \in Seq(Updates(e) \cup {pauli_query})
    BY <1>1, <1>11 DEF CloseoutTypes
  <2>5. commands' = [e \in Datas |-> commands'[e]]
    BY <1>11
  <2>6. QED
    BY <1>1, <1>2, <1>4, <2>3, <2>4, <2>5 DEF CloseoutTypes
<1>15. /\ Logs' /\ logged' = logged
       /\ \A p \in Planes, a \in Coordinates :
            InOrder(p, a)' /\ reached(p, a)' = reached(p, a)
       /\ \A e \in Datas : answer(e)' = answer(e)
       /\ \A p \in Planes, e \in Datas : on(p, e)' = on(p, e)
       /\ first_quiet' = first_quiet
  <2>1. PlanesRest
    BY <1>2 DEF PlanesRest
  <2>2. QED
    BY <2>1, PlanesAsBefore
<1>16. ASSUME NEW e \in Datas PROVE Answering(e)'
  <2>1. CASE e = d
    <3>1. commands'[d] = << >> /\ replies'[d] = <<answer(d)>>
      BY <1>11, <1>13
    <3>2. QED
      BY <1>2, <1>8, <1>15, <2>1, <3>1 DEF Answering
  <2>2. CASE e # d
    <3>1. commands'[e] = commands[e] /\ replies'[e] = replies[e]
      BY <1>11, <1>13, <2>2
    <3>2. answer(e)' = answer(e) /\ Answering(e)
      BY <1>7, <1>15
    <3>3. QED
      BY <1>2, <3>1, <3>2 DEF Answering
  <2>3. QED
    BY <2>1, <2>2
<1>17. Querying'
  BY <1>2, <1>7, <1>15, <1>16 DEF Querying
<1>18. Draining'
  BY <1>2, <1>6 DEF Draining
<1>19. ASSUME NEW e \in Datas PROVE Framed(e)'
  <2>1. CASE e # d
    BY <1>1, <1>4, <1>11, <1>15, <2>1 DEF Framed
  <2>2. CASE e = d
    <3>1. commands'[d] = << >> /\ frame'[d] = frame[d] /\ Framed(d)
      BY <1>1, <1>4, <1>11
    <3>2. QED
      BY <1>10, <1>15, <2>2, <3>1 DEF Framed
  <2>3. QED
    BY <2>1, <2>2
<1>20. QED
  BY <1>14, <1>15, <1>17, <1>18, <1>19 DEF CloseoutInv

(* The reducer receives an answer: it is done with the last of them.       *)
told(r, R, P) == [r EXCEPT !.replies = R, !.phase = P]

(* A reply changes two fields.                                             *)
LEMMA ReplyTold ==
  ASSUME NEW r, Fields(r), NEW R, NEW P
  PROVE  LET t == told(r, R, P)
         IN  /\ Fields(t) /\ t.phase = P
             /\ t.cutoff_step = r.cutoff_step
             /\ t.status_rounds = r.status_rounds
             /\ t.closed_steps = r.closed_steps /\ t.zero_steps = r.zero_steps
             /\ t.seen_corrections = r.seen_corrections
             /\ t.correction_log = r.correction_log /\ t.replies = R
<1> DEFINE r1 == [r EXCEPT !.replies = R]
           t == told(r, R, P)
<1>1. r1 = [phase |-> r.phase, cutoff_step |-> r.cutoff_step,
            status_rounds |-> r.status_rounds,
            closed_steps |-> r.closed_steps, zero_steps |-> r.zero_steps,
            seen_corrections |-> r.seen_corrections,
            correction_log |-> r.correction_log, replies |-> R,
            closeout_step |-> r.closeout_step]
  BY DEF Fields
<1>2. t = [r1 EXCEPT !.phase = P]
  BY DEF told
<1> HIDE DEF r1, t
<1>3. t = [phase |-> P, cutoff_step |-> r.cutoff_step,
           status_rounds |-> r.status_rounds,
           closed_steps |-> r.closed_steps, zero_steps |-> r.zero_steps,
           seen_corrections |-> r.seen_corrections,
           correction_log |-> r.correction_log, replies |-> R,
           closeout_step |-> r.closeout_step]
  BY <1>1, <1>2
<1>4. /\ Fields(t) /\ t.phase = P
      /\ t.cutoff_step = r.cutoff_step
      /\ t.status_rounds = r.status_rounds
      /\ t.closed_steps = r.closed_steps /\ t.zero_steps = r.zero_steps
      /\ t.seen_corrections = r.seen_corrections
      /\ t.correction_log = r.correction_log /\ t.replies = R
  BY <1>3 DEF Fields
<1>5. QED
  BY <1>4 DEF t

(* A reply is one that was not told before.                                *)
LEMMA ReplyInv ==
  ASSUME CloseoutInv, NEW d \in Datas, receive_reply(d)
  PROVE  CloseoutInv'
<1> DEFINE u == <<d, answer(d)>>
           all == {<<e, answer(e)>> : e \in Datas}
           updated == experiment.replies \cup {u}
           phase == IF Cardinality(updated) = Cardinality(Datas)
                    THEN "done" ELSE "querying"
<1>1. /\ CloseoutTypes /\ Logs /\ Draining /\ Querying
      /\ \A e \in Datas : Framed(e)
  BY DEF CloseoutInv
<1>2. /\ replies[d] # << >>
      /\ replies' = [replies EXCEPT ![d] = Tail(@)]
      /\ consume(measurement_reply(d, Head(replies[d]), experiment))
      /\ plane_step' = plane_step /\ anyon' = anyon /\ out' = out
      /\ emitted' = emitted /\ frame' = frame
  BY DEF receive_reply, device
<1>3. experiment.phase # "draining"
  BY <1>1, <1>2 DEF Draining
<1>4. /\ emitted \subseteq logged
      /\ \A p \in Planes :
           /\ plane_step[p] > first_quiet
           /\ \A a \in Coordinates :
                /\ anyon[p][a] = 0
                /\ \A k \in DOMAIN out[p][a] : out[p][a][k].tag = "phi_status"
      /\ \A e \in Datas : Answering(e)
      /\ experiment.replies \subseteq all
      /\ experiment.phase = "done"
           <=> \A e \in Datas : <<e, answer(e)>> \in experiment.replies
  BY <1>1, <1>3 DEF Querying
<1>5. /\ commands[d] = << >> /\ replies[d] = <<answer(d)>>
      /\ u \notin experiment.replies
  BY <1>2, <1>4 DEF Answering
<1>6. experiment.phase = "querying"
  BY <1>1, <1>3, <1>4, <1>5 DEF CloseoutTypes, IsExperiment, Fields
<1>7. ~ \E r \in experiment.replies : r[1] = d
  <2> SUFFICES ASSUME NEW r \in experiment.replies, r[1] = d PROVE FALSE
    OBVIOUS
  <2>1. PICK e \in Datas : r = <<e, answer(e)>>
    BY <1>4
  <2>2. e = d
    BY <2>1
  <2>3. QED
    BY <1>5, <2>1, <2>2
<1>8. Head(replies[d]) = answer(d) /\ Tail(replies[d]) = << >>
  BY <1>5
<1>9. measurement_reply(d, answer(d), experiment) =
        done(told(experiment, updated, phase))
  BY <1>6, <1>7 DEF measurement_reply, told
<1> HIDE DEF updated, phase
<1>10. experiment' = told(experiment, updated, phase) /\ commands' = commands
  <2>1. /\ experiment' = done(told(experiment, updated, phase)).state
        /\ commands' = submitted(done(told(experiment, updated, phase)))
    BY <1>2, <1>8, <1>9 DEF consume
  <2>2. commands' = commands
    BY <1>1, <2>1, SubmitsNone
  <2>3. QED
    BY <2>1, <2>2 DEF done
<1>11. /\ experiment'.phase = phase
       /\ experiment'.cutoff_step = experiment.cutoff_step
       /\ experiment'.status_rounds = experiment.status_rounds
       /\ experiment'.closed_steps = experiment.closed_steps
       /\ experiment'.zero_steps = experiment.zero_steps
       /\ experiment'.correction_log = experiment.correction_log
       /\ experiment'.replies = updated
       /\ Fields(experiment')
  <2>1. Fields(experiment)
    BY <1>1 DEF CloseoutTypes, IsExperiment, Fields
  <2>2. QED
    BY <1>10, <2>1, ReplyTold
<1>12. CloseoutTypes'
  <2>1. IsExperiment(experiment')
    BY <1>1, <1>11 DEF CloseoutTypes, IsExperiment, Fields, phase
  <2>2. replies \in [Datas -> Seq(Bit)]
    BY <1>1 DEF CloseoutTypes
  <2>3. replies' \in [Datas -> Seq(Bit)]
    BY <1>2, <1>8, <2>2
  <2>4. QED
    BY <1>1, <1>2, <1>10, <2>1, <2>3 DEF CloseoutTypes
<1>13. /\ Logs' /\ logged' = logged
       /\ \A p \in Planes, a \in Coordinates :
            InOrder(p, a)' /\ reached(p, a)' = reached(p, a)
       /\ \A e \in Datas : answer(e)' = answer(e)
       /\ \A p \in Planes, e \in Datas : on(p, e)' = on(p, e)
       /\ first_quiet' = first_quiet
  <2>1. PlanesRest
    BY <1>2, <1>11 DEF PlanesRest
  <2>2. QED
    BY <2>1, PlanesAsBefore
<1>14. replies' = [e \in Datas |-> IF e = d THEN << >> ELSE replies[e]]
  <2>1. replies \in [Datas -> Seq(Bit)]
    BY <1>1 DEF CloseoutTypes
  <2>2. QED
    BY <1>2, <1>8, <2>1
<1>15. ASSUME NEW e \in Datas PROVE Answering(e)'
  <2>1. CASE e = d
    <3>1. commands'[d] = << >> /\ replies'[d] = << >> /\ u \in experiment'.replies
      BY <1>5, <1>10, <1>11, <1>14 DEF updated
    <3>2. QED
      BY <1>13, <2>1, <3>1 DEF Answering
  <2>2. CASE e # d
    <3>1. commands'[e] = commands[e] /\ replies'[e] = replies[e]
      BY <1>10, <1>14, <2>2
    <3>2. answer(e)' = answer(e) /\ Answering(e)
      BY <1>4, <1>13
    <3>3. <<e, answer(e)>> \in experiment'.replies
            <=> <<e, answer(e)>> \in experiment.replies
      BY <1>11, <2>2 DEF updated
    <3>4. QED
      BY <3>1, <3>2, <3>3 DEF Answering
  <2>3. QED
    BY <2>1, <2>2
<1>16. updated \subseteq all
  BY <1>4 DEF updated
<1>17. IsFiniteSet(all) /\ Cardinality(all) = Cardinality(Datas)
  <2> DEFINE f == [e \in Datas |-> <<e, answer(e)>>]
  <2>1. f \in Bijection(Datas, all)
    <3>1. f \in [Datas -> all]
      OBVIOUS
    <3>2. \A w \in all : \E e \in Datas : f[e] = w
      OBVIOUS
    <3>3. \A e, g \in Datas : f[e] = f[g] => e = g
      OBVIOUS
    <3>4. QED
      BY <3>1, <3>2, <3>3 DEF Bijection, Injection, Surjection, IsInjective
  <2>2. QED
    BY <2>1, Constants, FS_Bijection DEF ExistsBijection
<1>18. experiment'.phase = "done"
         <=> \A e \in Datas : <<e, answer(e)>> \in experiment'.replies
  <2> HIDE DEF all
  <2>1. Cardinality(updated) = Cardinality(Datas) <=> updated = all
    BY <1>16, <1>17, FS_Subset
  <2>2. phase = "done" <=> Cardinality(updated) = Cardinality(Datas)
    BY DEF phase
  <2>3. updated = all <=> \A e \in Datas : <<e, answer(e)>> \in updated
    BY <1>16 DEF all
  <2>4. QED
    BY <1>11, <2>1, <2>2, <2>3
<1>19. Querying'
  BY <1>2, <1>4, <1>11, <1>13, <1>15, <1>16, <1>18 DEF Querying
<1>20. Draining'
  BY <1>11 DEF Draining, phase
<1>21. \A e \in Datas : Framed(e)'
  BY <1>1, <1>2, <1>10, <1>13 DEF Framed
<1>22. QED
  BY <1>12, <1>13, <1>19, <1>20, <1>21 DEF CloseoutInv

-----------------------------------------------------------------------------
(* What a decoder cell has emitted reaches the reducer.                    *)
LEMMA EventInv ==
  ASSUME CloseoutInv, NEW plane \in Planes, NEW c \in Coordinates,
         receive_decoder_event(plane, c)
  PROVE  CloseoutInv'
<1> DEFINE m == Head(out[plane][c])
<1>1. out[plane][c] # << >>
  BY DEF receive_decoder_event
<1>2. m \in Moves(c) \cup Reports(c)
  BY <1>1, QueueFacts, FirstTaken DEF CloseoutInv
<1>3. m.tag \in {"phi_correction", "phi_status"}
  BY <1>2, EventFacts
<1>4. CASE experiment.phase # "draining"
  BY <1>4, LateEventInv
<1>5. CASE experiment.phase = "draining" /\ m.tag = "phi_correction"
  BY <1>5, CorrectionInv
<1>6. CASE experiment.phase = "draining" /\ m.tag = "phi_status"
  <2>1. StatusTaken(plane, c, m)
    BY <1>6, StatusTakes
  <2>2. \/ KeepsOpen(plane, c, m, decoder_event(plane, m, experiment))
        \/ ClosesRound(plane, c, m, decoder_event(plane, m, experiment))
    BY <1>1, <1>6, StatusIsNew
  <2>3. CASE KeepsOpen(plane, c, m, decoder_event(plane, m, experiment))
    BY <1>6, <2>1, <2>3, StatusKeptInv
  <2>4. CASE ClosesRound(plane, c, m, decoder_event(plane, m, experiment))
    BY <1>6, <2>1, <2>4, RoundClosedInv
  <2> QED
    BY <2>2, <2>3, <2>4
<1> QED
  BY <1>3, <1>4, <1>5, <1>6

(* A step that leaves everything as it is.                                 *)
LEMMA StutterInv ==
  ASSUME CloseoutInv, UNCHANGED closeout_vars
  PROVE  CloseoutInv'
<1>1. /\ experiment' = experiment /\ plane_step' = plane_step
      /\ anyon' = anyon /\ out' = out /\ commands' = commands
      /\ frame' = frame /\ replies' = replies /\ emitted' = emitted
  BY DEF closeout_vars, device
<1>2. CloseoutTypes' /\ PlanesRest
  BY <1>1 DEF CloseoutInv, CloseoutTypes, PlanesRest
<1>3. /\ Logs' /\ logged' = logged
      /\ \A p \in Planes, a \in Coordinates :
           InOrder(p, a)' /\ reached(p, a)' = reached(p, a)
      /\ \A d \in Datas : answer(d)' = answer(d)
      /\ \A p \in Planes, d \in Datas : on(p, d)' = on(p, d)
  BY <1>2, PlanesAsBefore
<1>4. \A d \in Datas : Framed(d)'
  BY <1>1, <1>3 DEF CloseoutInv, Framed
<1>5. Draining'
  <2>1. /\ \A plane \in Planes : Closing(plane)' <=> Closing(plane)
        /\ \A plane \in Planes : Empties(plane)' <=> Empties(plane)
    BY <1>1, <1>3 DEF Closing, Empties, Emptied, Shows, quiet_from,
       first_quiet, round
  <2>2. \A plane \in Planes, c \in Coordinates :
          Hears(plane, c) => Hears(plane, c)'
    BY <1>1, <1>3 DEF Hears, round
  <2> QED
    BY <1>1, <2>1, <2>2 DEF CloseoutInv, Draining, common
<1>6. Querying'
  BY <1>1, <1>3 DEF CloseoutInv, Querying, Answering, first_quiet
<1> QED
  BY <1>2, <1>3, <1>4, <1>5, <1>6 DEF CloseoutInv

(* Every step preserves the invariant.                                     *)
LEMMA CloseoutStep ==
  CloseoutInv /\ [CloseoutNext]_closeout_vars => CloseoutInv'
<1> SUFFICES ASSUME CloseoutInv, [CloseoutNext]_closeout_vars
             PROVE  CloseoutInv'
  OBVIOUS
<1>1. ASSUME NEW plane \in Planes, decode(plane)
      PROVE  CloseoutInv'
  BY <1>1, DecodeInv
<1>2. ASSUME NEW plane \in Planes, NEW c \in Coordinates,
             receive_decoder_event(plane, c)
      PROVE  CloseoutInv'
  BY <1>2, EventInv
<1>3. ASSUME NEW d \in Datas, data_cell(d)
      PROVE  CloseoutInv'
  BY <1>3, UpdateInv, QueryInv
<1>4. ASSUME NEW d \in Datas, receive_reply(d)
      PROVE  CloseoutInv'
  BY <1>4, ReplyInv
<1>5. CASE UNCHANGED closeout_vars
  BY <1>5, StutterInv
<1> QED
  BY <1>1, <1>2, <1>3, <1>4, <1>5 DEF CloseoutNext

(* The inductive invariant of the closeout: the reducer has of every cell  *)
(* what it has received, in its rounds, its log and the data frames.       *)
THEOREM CloseoutInvariant == CloseoutSpec => []CloseoutInv
<1> QED
  BY InitCloseout, CloseoutStep, PTL DEF CloseoutSpec

-----------------------------------------------------------------------------
(* The step of a plane is at most one past the last.                       *)
StepsBounded == \A plane \in Planes : plane_step[plane] \in 0 .. MaxStep + 1

(* No plane goes beyond its last step by more than one.                    *)
LEMMA StepsAreBounded == CloseoutSpec => []StepsBounded
<1>1. CloseoutInit => StepsBounded
  BY Constants DEF CloseoutInit, StepsBounded
<1>2. CloseoutInv /\ StepsBounded /\ [CloseoutNext]_closeout_vars
        => StepsBounded'
  <2> SUFFICES ASSUME CloseoutInv, StepsBounded,
                      [CloseoutNext]_closeout_vars, NEW plane \in Planes
               PROVE  plane_step'[plane] \in 0 .. MaxStep + 1
    BY DEF StepsBounded
  <2>1. /\ plane_step[plane] \in 0 .. MaxStep + 1 /\ MaxStep \in Nat
        /\ plane_step \in [Planes -> Nat]
    BY Constants DEF StepsBounded, CloseoutInv, CloseoutTypes
  <2>2. ASSUME NEW p \in Planes, decode(p)
        PROVE  plane_step'[plane] \in 0 .. MaxStep + 1
    <3>1. /\ plane_step[p] <= MaxStep
          /\ plane_step' = [plane_step EXCEPT ![p] = plane_step[p] + 1]
      BY <2>2 DEF decode
    <3> QED
      BY <2>1, <3>1
  <2>3. CASE plane_step' = plane_step
    BY <2>1, <2>3
  <2> QED
    BY <2>2, <2>3 DEF CloseoutNext, receive_decoder_event, data_cell,
       receive_reply, closeout_vars, device
<1> QED
  BY <1>1, <1>2, CloseoutInvariant, PTL DEF CloseoutSpec

-----------------------------------------------------------------------------
(* A witness is complete: what the planes have emitted is in its log, once *)
(* each, and a reply is the parity of what was emitted of its data cell in *)
(* the plane that anticommutes with the measurement.                       *)
LEMMA CompleteWitness == CloseoutInv => WitnessIsComplete
<1> SUFFICES ASSUME CloseoutInv, experiment.phase = "done"
             PROVE  LET log == experiment.correction_log
                        flips(d) == {m \in emitted :
                          /\ data_of[m[1]][m[3]][m[4]] = d
                          /\ (m[1] = "x") <=> (measurement = x)}
                    IN  /\ {log[n] : n \in DOMAIN log} = emitted
                        /\ Len(log) = Cardinality(emitted)
                        /\ experiment.replies =
                             {<<d, Cardinality(flips(d)) % 2>> : d \in Datas}
  BY DEF WitnessIsComplete
<1> DEFINE flips(d) == {m \in emitted :
             /\ data_of[m[1]][m[3]][m[4]] = d
             /\ (m[1] = "x") <=> (measurement = x)}
<1>1. /\ emitted \subseteq logged
      /\ experiment.replies \subseteq {<<d, answer(d)>> : d \in Datas}
      /\ \A d \in Datas : <<d, answer(d)>> \in experiment.replies
  BY DEF CloseoutInv, Querying
<1>2. /\ logged \subseteq emitted /\ emitted \subseteq Corrections
      /\ Len(experiment.correction_log) = Cardinality(logged)
  BY DEF CloseoutInv, Logs, CloseoutTypes
<1>3. logged = emitted
  BY <1>1, <1>2
<1>4. ASSUME NEW d \in Datas
      PROVE  answer(d) = Cardinality(flips(d)) % 2
  <2> DEFINE plane == IF measurement = x THEN "x" ELSE "z"
  <2>1. \A m \in emitted :
          m[1] = plane <=> ((m[1] = "x") <=> (measurement = x))
    BY <1>2, Constants DEF Corrections
  <2>2. on(plane, d) = flips(d)
    BY <1>3, <2>1 DEF on
  <2> QED
    BY <2>2 DEF answer
<1>5. experiment.replies = {<<d, Cardinality(flips(d)) % 2>> : d \in Datas}
  <2>1. experiment.replies = {<<d, answer(d)>> : d \in Datas}
    BY <1>1
  <2> HIDE DEF flips
  <2> QED
    BY <2>1, <1>4
<1>6. {experiment.correction_log[n] : n \in DOMAIN experiment.correction_log}
        = emitted
  BY <1>3 DEF logged
<1> QED
  BY <1>2, <1>3, <1>5, <1>6

(* An experiment whose planes end quiet and empty has its witness when     *)
(* nothing is underway.  Of a plane that has made its last step and whose  *)
(* events have all been received, that step is closed, and as a common     *)
(* step it would have ended the draining.                                  *)
LEMMA CompleteCloseout == CloseoutInv /\ StepsBounded => CloseoutCompletes
<1> SUFFICES ASSUME CloseoutInv, StepsBounded
             PROVE  CloseoutCompletes
  OBVIOUS
<1>1. experiment.phase \in {"draining", "querying", "done"}
  BY DEF CloseoutInv, CloseoutTypes, IsExperiment, Fields
<1>2. ASSUME drained, \A plane \in Planes : empty(plane),
             experiment.phase = "draining"
      PROVE  FALSE
  <2>1. ASSUME NEW plane \in Planes
        PROVE  MaxStep \in experiment.zero_steps[plane]
    <3>1. /\ Closing(plane) /\ Empties(plane)
          /\ emitted \subseteq Corrections
          /\ first_quiet \in 0 .. MaxCutoff
          /\ \A m \in emitted : m[2] < plane_step[m[1]]
      BY <1>2 DEF CloseoutInv, Draining, CloseoutTypes, IsExperiment, Fields,
         first_quiet, Logs
    <3>2. /\ plane_step[plane] \in 0 .. MaxStep + 1
          /\ plane_step[plane] > MaxStep
          /\ \A c \in Coordinates : out[plane][c] = << >>
      BY <1>2 DEF StepsBounded, drained
    <3>3. MaxStep \in Nat /\ MaxCutoff \in Nat /\ MaxCutoff <= MaxStep
      BY Constants
    <3>4. plane_step[plane] = MaxStep + 1
      BY <3>2, <3>3
    <3>5. \E c \in Coordinates :
            reached(plane, c) = experiment.closed_steps[plane] + 1
      BY <3>1 DEF Closing
    <3>6. experiment.closed_steps[plane] \in Nat \cup {-1}
      BY DEF CloseoutInv, CloseoutTypes, IsExperiment, Fields, NotClosed
    <3>7. experiment.closed_steps[plane] = MaxStep
      BY <3>2, <3>3, <3>4, <3>5, <3>6 DEF reached
    <3>8. \A c \in Coordinates : anyon[plane][c] = 0
      BY <1>2 DEF empty
    <3>9. \A m \in emitted : m[1] = plane => m[2] <= MaxStep
      <4> SUFFICES ASSUME NEW m \in emitted, m[1] = plane
                   PROVE  m[2] <= MaxStep
        OBVIOUS
      <4>1. m[2] \in Nat
        BY <3>1 DEF Corrections
      <4>2. m[2] < MaxStep + 1
        BY <3>1, <3>4
      <4> QED
        BY <3>3, <4>1, <4>2
    <3>10. MaxStep >= first_quiet
      BY <3>1, <3>3
    <3> QED
      BY <3>1, <3>4, <3>7, <3>8, <3>9, <3>10 DEF Empties, Emptied
  <2>2. MaxStep \in common(experiment)
    BY <2>1, Constants DEF common
  <2> QED
    BY <1>2, <2>2 DEF CloseoutInv, Draining
<1>3. ASSUME drained, experiment.phase = "querying"
      PROVE  FALSE
  <2>1. \A d \in Datas : Answering(d)
    BY <1>3 DEF CloseoutInv, Querying
  <2>2. ASSUME NEW d \in Datas
        PROVE  <<d, answer(d)>> \in experiment.replies
    BY <1>3, <2>1 DEF Answering, drained
  <2> QED
    BY <1>3, <2>2 DEF CloseoutInv, Querying
<1> QED
  BY <1>1, <1>2, <1>3 DEF CloseoutCompletes

(* The witness of an experiment is complete, for every geometry, schedule, *)
(* cutoff and number of steps.                                             *)
THEOREM CompleteWitnesses == CloseoutSpec => []WitnessIsComplete
<1> QED
  BY CloseoutInvariant, CompleteWitness, PTL

(* The closeout does not fail, and when nothing is left to be handled and  *)
(* the planes ended quiet and empty it is done.                            *)
THEOREM CompletedCloseouts == CloseoutSpec => []CloseoutCompletes
<1> QED
  BY CloseoutInvariant, StepsAreBounded, CompleteCloseout, PTL
=============================================================================
