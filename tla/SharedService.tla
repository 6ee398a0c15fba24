--------------------------- MODULE SharedService ---------------------------
(***************************************************************************)
(* Many actors on one executor: SharedService and SharedExecutor, which    *)
(* xls_statem_codegen generates for a scheduler of a topology, behind the  *)
(* routers and the lookahead window of EffectWindow.  Contender 0 is the   *)
(* scheduler modelled here, the others show only their batches.            *)
(*                                                                         *)
(* The service holds every actor's machine and mailbox in RAM.  It reads   *)
(* an actor's state when it issues an activation and writes it back when   *)
(* the result retires, some activations later; meanwhile it admits frames  *)
(* and issues other actors.                                                *)
(*                                                                         *)
(* Messages to an actor are numbered as they are admitted, and its entries *)
(* as they are made.  The executor is always told egress_ready, so that no *)
(* actor ever becomes an egress waiter; those registers are left out.      *)
(***************************************************************************)
EXTENDS EffectWindow, SequencesExt, FiniteSetsExt

CONSTANTS
  ACTOR_COUNT, PRODUCER_COUNT,
  MailboxCapacity,   \* MAILBOX_CAPACITY, and MAILBOX_DEPTH
  Phases, initial_phase,
  Arrivals,          \* bound: actors of the startup frames, and of the
                     \* frames of each producer
  MaxEntries         \* bound: phase entries of each actor

ASSUME SharedServiceAssumption ==
  /\ ACTOR_COUNT \in Nat \ {0} /\ PRODUCER_COUNT \in Nat \ {0}
  /\ MailboxCapacity \in Nat \ {0}
  /\ initial_phase \in Phases
  /\ Arrivals \subseteq
       [startup : Seq(0 .. ACTOR_COUNT - 1),
        frames : [0 .. PRODUCER_COUNT - 1 -> Seq(0 .. ACTOR_COUNT - 1)]]
  /\ \A s \in Arrivals : Len(s.startup) <= MailboxCapacity
  /\ MaxEntries \in Nat

Actors == 0 .. ACTOR_COUNT - 1
Producers == 0 .. PRODUCER_COUNT - 1
Depth == 0 .. MailboxCapacity - 1

MaxMessages ==
  Max({Len(s.startup) + MapThenSumSet(LAMBDA p : Len(s.frames[p]), Producers) :
         s \in Arrivals})

VARIABLES
  service,           \* the scheduler's registers
  ram,               \* [Actors -> machine]
  mailbox_ram,       \* [Actors -> [Depth -> message]]
  executor_request, executor_result,
                     \* contents of the channels
  arrivals,          \* actors of the frames yet to come
  requested,         \* [Actors -> frames that have reached the service]
  handled,           \* history: <<message, occupancy>> of callback calls
  outputs            \* history: effects emitted, each named by its entry

scheduler == <<service, ram, mailbox_ram, executor_request, executor_result>>
history == <<handled, outputs>>
vars == <<window_vars, scheduler, arrivals, requested, history>>

initial_shared_machine ==
  [phase |-> initial_phase, data |-> 0, enter_pending |-> TRUE,
   failed |-> FALSE]

(* What the RAM holds before BOOT is never read.                           *)
Init ==
  /\ WindowInit
  /\ ram = [a \in Actors |-> initial_shared_machine]
  /\ service =
       [phase |-> "BOOT",
        next_slot |-> << >>, in_flight |-> {}, completed |-> << >>,
        admission_cursor |-> 0, cursor |-> 0,
        pending |-> [p \in Producers |-> << >>],
        order |-> [a \in Actors |-> << >>],
        postponed |-> [a \in Actors |-> {}],
        mail_candidates |-> {}, entry_probes |-> {}]
  /\ mailbox_ram = [a \in Actors |-> [physical \in Depth |-> 0]]
  /\ executor_request = << >> /\ executor_result = << >>
  /\ arrivals \in Arrivals
  /\ requested = [a \in Actors |-> 0]
  /\ handled = [a \in Actors |-> << >>]
  /\ outputs = [a \in Actors |-> << >>]

(* An activation in BOOT writes a machine, one in STARTUP a frame; behind  *)
(* the last one actor 0 is issued first.                                   *)
enters_run(s, last) ==
  [s EXCEPT !.phase = IF last THEN "RUN" ELSE @,
            !.next_slot = IF last THEN <<0>> ELSE @]

boot ==
  LET last == service.cursor + 1 = ACTOR_COUNT
      booted == [service EXCEPT
        !.phase = IF last THEN "STARTUP" ELSE @,
        !.cursor = IF last THEN 0 ELSE @ + 1,
        !.entry_probes = @ \cup {service.cursor}]
  IN  /\ service.phase = "BOOT"
      /\ ram' = [ram EXCEPT ![service.cursor] = initial_shared_machine]
      /\ service' = enters_run(booted, last /\ arrivals.startup = << >>)
      /\ UNCHANGED <<window_vars, mailbox_ram, executor_request,
                     executor_result, arrivals, requested, history>>

startup ==
  LET a == Head(arrivals.startup)
      physical == Len(service.order[a])
  IN  /\ service.phase = "STARTUP"
      /\ mailbox_ram' = [mailbox_ram EXCEPT ![a][physical] = requested[a] + 1]
      /\ service' = enters_run(
           [service EXCEPT !.order[a] = Append(@, physical),
                           !.mail_candidates = @ \cup {a}],
           Len(arrivals.startup) = 1)
      /\ arrivals' = [arrivals EXCEPT !.startup = Tail(@)]
      /\ requested' = [requested EXCEPT ![a] = @ + 1]
      /\ UNCHANGED <<window_vars, ram, executor_request, executor_result,
                     history>>

(* In RUN the service finds the next frame of producer p once it has a     *)
(* free register for it.                                                   *)
request(p) ==
  LET frames == arrivals.frames[p]
  IN  /\ service.phase = "RUN"
      /\ frames # << >>
      /\ service.pending[p] = << >>
      /\ service' = [service EXCEPT !.pending[p] = <<Head(frames)>>]
      /\ arrivals' = [arrivals EXCEPT !.frames[p] = Tail(@)]
      /\ requested' = [requested EXCEPT ![Head(frames)] = @ + 1]
      /\ UNCHANGED <<window_vars, ram, mailbox_ram, executor_request,
                     executor_result, history>>

waiting(s, a) == Cardinality({p \in Producers : s.pending[p] = <<a>>})
-----------------------------------------------------------------------------
(* SharedExecutor: one activation of the actor of request r.               *)
Conclusions ==
  [phase : Phases \cup {"repeat_phase"},
   directive : {"consume", "postpone", "fail"}]

no_dispatch(r) ==
  [machine |-> r.machine, called |-> FALSE, dispatched |-> FALSE,
   directive |-> "consume", phase_boundary |-> FALSE]

concluded(r, c) ==
  LET m == r.machine
      repeat_phase == c.phase = "repeat_phase"
      phase == IF repeat_phase THEN m.phase ELSE c.phase
      invalid_repeat == repeat_phase /\ c.directive # "consume"
      failed == invalid_repeat \/ c.directive = "fail"
      phase_boundary == ~invalid_repeat /\ (repeat_phase \/ phase # m.phase)
  IN  [machine |-> [m EXCEPT !.phase = phase, !.failed = failed,
                             !.enter_pending = phase_boundary /\ ~failed],
       called |-> TRUE,
       dispatched |-> ~invalid_repeat,
       directive |-> c.directive,
       phase_boundary |-> phase_boundary]

seen(a) == {handled[a][i][1] : i \in DOMAIN handled[a]}

(* shared_machine_dispatch: the callback concludes anything, or the frame  *)
(* does not decode, which shows when it is tried first.                    *)
dispatches(r) ==
  IF r.machine.failed \/ r.machine.enter_pending \/ r.received = << >>
  THEN {no_dispatch(r)}
  ELSE {concluded(r, c) : c \in Conclusions} \cup
       {d \in {[no_dispatch(r) EXCEPT !.machine.failed = TRUE]} :
          r.received[1] \notin seen(r.slot)}

(* shared_machine_enter: the machine with its effects.                     *)
entered(m) ==
  IF m.failed \/ ~m.enter_pending THEN {<<m, << >>>>}
  ELSE {[m EXCEPT !.enter_pending = FALSE, !.data = @ + 1]} \X EntryEffectLists

execute ==
  /\ executor_request # << >>
  /\ LET r == Head(executor_request)
     IN  \E d \in dispatches(r) :
           /\ d.machine.enter_pending => r.machine.data < MaxEntries
           /\ \E e \in entered(d.machine) :
                executor_result' = Append(executor_result,
                  [slot |-> r.slot, machine |-> e[1], effects |-> e[2],
                   called |-> d.called, dispatched |-> d.dispatched,
                   directive |-> d.directive,
                   phase_boundary |-> d.phase_boundary,
                   received |-> r.received, mailbox_index |-> r.mailbox_index,
                   order_index |-> r.order_index])
  /\ executor_request' = Tail(executor_request)
  /\ UNCHANGED <<window_vars, service, ram, mailbox_ram, arrivals,
                 requested, history>>
-----------------------------------------------------------------------------
(* The operators of SharedService on its registers s.                      *)
free_mailbox_index(s, a) == Min(Depth \ ToSet(s.order[a]))

(* The positions of the order that may be tried; the first one is.         *)
candidates(s, a) ==
  {k \in DOMAIN s.order[a] : s.order[a][k] \notin s.postponed[a]}

mailbox_selection(s, a) ==
  IF candidates(s, a) = {} THEN << >> ELSE <<Min(candidates(s, a))>>

(* Defect: an actor whose result is outstanding is selected again.         *)
ready_any(s, cursor) ==
  select(s.entry_probes \cup s.mail_candidates, cursor, ACTOR_COUNT)

(* "An in-flight actor is excluded until its executor result has retired." *)
ready_selection(s, cursor) ==
  select((s.entry_probes \cup s.mail_candidates) \ s.in_flight, cursor,
         ACTOR_COUNT)

(* What becomes of the message that result r was about.                    *)
settled(s, r) ==
  LET consumed == r.dispatched /\ r.directive = "consume"
      should_postpone == r.dispatched /\ r.directive = "postpone"
  IN  [s EXCEPT
         !.order[r.slot] = IF consumed /\ r.received # << >>
                           THEN RemoveAt(@, r.order_index) ELSE @,
         !.postponed[r.slot] = IF r.phase_boundary THEN {}
                               ELSE IF should_postpone
                               THEN @ \cup {r.mailbox_index} ELSE @]

(* Defect: the mail that a phase boundary releases is not looked for.      *)
mail_remaining_before(s, r) ==
  candidates(s, r.slot) \ {r.order_index} # {} /\ ~r.machine.failed

mail_remaining(s, r) ==
  candidates(settled(s, r), r.slot) # {} /\ ~r.machine.failed

retire_actor(s, r) ==
  [settled(s, r) EXCEPT
     !.in_flight = @ \ {r.slot},
     !.mail_candidates = IF mail_remaining(s, r) THEN @ \cup {r.slot}
                         ELSE @ \ {r.slot},
     !.entry_probes = IF r.machine.enter_pending /\ ~r.machine.failed
                      THEN @ \cup {r.slot} ELSE @ \ {r.slot}]

(* The producer whose frame is admitted.                                   *)
reservation(s, excluded) ==
  select({p \in Producers :
            /\ s.pending[p] # << >>
            /\ s.pending[p][1] \notin excluded
            /\ Len(s.order[s.pending[p][1]]) < MailboxCapacity},
         s.admission_cursor, PRODUCER_COUNT)

reserve_admission(s, p) ==
  LET a == s.pending[p][1]
  IN  [s EXCEPT !.pending[p] = << >>,
                !.order[a] = Append(@, free_mailbox_index(s, a)),
                !.mail_candidates = @ \cup {a},
                !.admission_cursor = (p + 1) % PRODUCER_COUNT]

(* What the RAMs return for actor a.                                       *)
loaded(a) ==
  LET s == service
      selection == IF a \in s.mail_candidates \ s.entry_probes
                   THEN mailbox_selection(s, a) ELSE << >>
      k == IF selection = << >> THEN 1 ELSE selection[1]
      physical == IF selection = << >> THEN 0 ELSE s.order[a][k]
  IN  [slot |-> a, machine |-> ram[a],
       received |-> IF selection = << >> THEN << >>
                    ELSE <<mailbox_ram[a][physical]>>,
       mailbox_index |-> physical, order_index |-> k]

(* A sequence of none or one result stands for a register that may be      *)
(* empty.                                                                  *)
first_of(s) == IF s = << >> THEN << >> ELSE <<Head(s)>>

with_effects(results) ==
  SelectSeq(results, LAMBDA r : effects_valid(r.effects))

(* Defect: a batch is sent before the one before it has been credited.     *)
retirable_uncredited(results) == first_of(results)

(* A result that brings effects retires when the batch before it has been  *)
(* credited.                                                               *)
retirable(results) ==
  SelectSeq(first_of(results),
            LAMBDA r : ~effects_valid(r.effects) \/ ~credit_busy(0))

(* A result is taken unless one is left behind.                            *)
incoming_result ==
  IF retirable(service.completed) = service.completed
  THEN first_of(executor_result) ELSE << >>

(* Nothing is issued while a result waits for the next credit.             *)
completion_blocked(retires, completed) ==
  /\ with_effects(completed) # << >>
  /\ credit_busy(0) \/ with_effects(retires) # << >>

retired_from(s, retires) ==
  IF retires = << >> THEN s ELSE retire_actor(s, retires[1])

failed_slots(retires) ==
  {r.slot : r \in {x \in ToSet(retires) : x.machine.failed}}

admitted_from(s, admission) ==
  IF admission = << >> THEN s ELSE reserve_admission(s, admission[1])

issued_from(s, issued) ==
  [s EXCEPT !.in_flight = @ \cup ToSet(issued),
            !.cursor = IF issued = << >> THEN @
                       ELSE (issued[1] + 1) % ACTOR_COUNT]

writes_state(retires) ==
  IF retires = << >> THEN UNCHANGED <<ram, handled>>
  ELSE LET r == retires[1]
       IN  /\ ram' = [ram EXCEPT ![r.slot] = r.machine]
           /\ handled' = [handled EXCEPT ![r.slot] =
                IF r.called THEN Append(@, <<r.received[1], ram[r.slot].data>>)
                ELSE @]

(* The number of the message is that of its admission.                     *)
writes_mailbox(s, admission) ==
  IF admission = << >> THEN UNCHANGED mailbox_ram
  ELSE LET a == s.pending[admission[1]][1]
       IN  mailbox_ram' = [mailbox_ram EXCEPT ![a][free_mailbox_index(s, a)] =
             requested[a] - waiting(s, a) + 1]

(* One activation of the service in RUN, in the order of the source; each  *)
(* name is bound to the one value it has there.                            *)
activate ==
  /\ service.phase = "RUN"
  /\ \E results \in {service.completed \o incoming_result} :
     \E retires \in {retirable(results)} :
     \E completed \in {SubSeq(results, Len(retires) + 1, Len(results))} :
     \E blocked \in {completion_blocked(retires, completed)} :
     \E issued \in {IF blocked THEN << >> ELSE service.next_slot} :
     \E retired \in {retired_from([service EXCEPT !.completed = completed],
                                  retires)} :
     \E admission \in
          {reservation(retired, ToSet(issued) \cup failed_slots(retires))} :
     \E s \in {issued_from(admitted_from(retired, admission), issued)} :
       /\ sends(0, [i \in DOMAIN with_effects(retires) |->
                      batch(retires[i].slot, retires[i].machine.data,
                            retires[i].effects)])
       /\ executor_result' = IF incoming_result = << >> THEN executor_result
                             ELSE Tail(executor_result)
       /\ executor_request' = executor_request \o
                                [i \in DOMAIN issued |-> loaded(issued[i])]
       /\ writes_state(retires)
       /\ writes_mailbox(retired, admission)
       /\ service' = [s EXCEPT !.next_slot =
                        IF blocked THEN @ ELSE ready_selection(s, s.cursor)]
       /\ UNCHANGED <<router, channels, arbiter, arrivals, requested, outputs>>
-----------------------------------------------------------------------------
(* The router of this scheduler shows what it emits.                       *)
emit ==
  /\ route(0)
  /\ outputs' = [a \in Actors |->
       outputs[a] \o [i \in DOMAIN SelectSeq(routed(0), LAMBDA b : b.slot = a)
                        |-> routed(0)[1].entry]]
  /\ UNCHANGED <<scheduler, arrivals, requested, handled>>

other ==
  /\ \/ \E c \in Contenders \ {0} : schedule(c) \/ route(c)
     \/ arbitrate
  /\ UNCHANGED <<scheduler, arrivals, requested, history>>

Next ==
  \/ \E p \in Producers : request(p)
  \/ boot
  \/ startup
  \/ execute
  \/ activate
  \/ emit
  \/ other

Spec == Init /\ [][Next]_vars

(* The clock drives the generated processes; nothing is asked of the       *)
(* producers.                                                              *)
FairSpec == Spec /\ WF_vars(boot \/ startup \/ activate \/ execute \/ emit)
-----------------------------------------------------------------------------
(* What the scheduler holds of actor a, as an hls_statem actor sees it:    *)
(* messages never tried are its BEAM queue, the others its mailbox, and    *)
(* the effects of an entry are made when its result retires.               *)
messages(a) ==
  [k \in DOMAIN service.order[a] |->
     [message |-> mailbox_ram[a][service.order[a][k]],
      postponed |-> service.order[a][k] \in service.postponed[a]]]

tried(a) == SelectSeq(messages(a), LAMBDA m : m.message \in seen(a))
untried(a) == SelectSeq(messages(a), LAMBDA m : m.message \notin seen(a))

numbers(slots) == [k \in DOMAIN slots |-> slots[k].message]

unrouted(a, b, index) ==
  IF b.slot # a THEN << >>
  ELSE LET left == {k \in index + 1 .. Len(b.effects) : b.effects[k]}
       IN  [i \in 1 .. Cardinality(left) |-> b.entry]

emitted(a) ==
  outputs[a] \o unrouted(a, router[0].scheduled, router[0].index)
             \o FlattenSeq([i \in DOMAIN egress[0] |->
                             unrouted(a, egress[0][i], 0)])

CPU(a) == INSTANCE StatemActor WITH
  MaxEffects <- ENTRY_EFFECT_CAPACITY,
  rt <- [lifecycle |-> IF ram[a].failed THEN "stopped"
                       ELSE IF ram[a].enter_pending THEN "disconnected"
                       ELSE "connected",
         phase |-> ram[a].phase,
         data |-> ram[a].data,
         mailbox |-> IF ram[a].failed THEN << >> ELSE tried(a)],
  inbox <- numbers(untried(a)) \o
           [i \in 1 .. waiting(service, a) |->
              requested[a] - waiting(service, a) + i],
  sent <- requested[a],
  handled <- handled[a],
  outputs <- emitted(a)

(* Each actor of the scheduler behaves as an hls_statem process of its     *)
(* own: state read by one activation and written back after others makes   *)
(* the same calls and effects in the same order, and loses no message.     *)
ImplementsStatem ==
  /\ \A a \in Actors : CPU(a)!Init
  /\ [][\A a \in Actors : UNCHANGED CPU(a)!vars \/ CPU(a)!Next]_vars

(* No message is left untried for ever, unless its actor fails: once no    *)
(* more frames come, every admitted one has been tried.                    *)
EveryMessageIsDispatched ==
  []<>(\A a \in Actors : untried(a) = << >> \/ ram[a].failed)
=============================================================================
