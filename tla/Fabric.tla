------------------------------- MODULE Fabric -------------------------------
(***************************************************************************)
(* The host fabric broker, hls_fabric: one gen_server that owns a routed   *)
(* frame transport and hands every frame that arrives to the process that  *)
(* registered its return route.  phi_memory_cpu_fabric repeats the same    *)
(* register_route and 'DOWN' handlers.                                     *)
(*                                                                         *)
(* The processes that own routes are the broker's environment: they call   *)
(* register_route and wait, and they may exit at any moment, also with a   *)
(* call outstanding.  A restarted proxy is another member of Pid, since    *)
(* the runtime does not reuse the identity of a process in this time.      *)
(*                                                                         *)
(* The broker's mailbox is abstracted to what may be handled next.  Its    *)
(* messages come from different senders (each caller, the listener, each   *)
(* monitored process), between which the runtime promises no order; the    *)
(* two from ONE sender that could be confused, a last call and the signal  *)
(* of the caller's exit, are kept in order by the guard of HandleDown.     *)
(***************************************************************************)
EXTENDS Naturals, FiniteSets

CONSTANTS
  Pid,          \* the processes that ask for routes, one per incarnation
  Route,        \* the valid routes
  NoRoute,      \* a process without an outstanding call
  FrameBound    \* how many frames arrive for each route

ASSUME FabricAssumption ==
  /\ NoRoute \notin Route
  /\ FrameBound \in Nat

VARIABLES
  alive,        \* the processes that have not exited
  calling,      \* the route a process asks for in its outstanding call
  granted,      \* the routes a process has been told ok for
  routes,       \* #state.routes: route => #route_owner{pid, monitor}
  monitors,     \* the broker's monitors, those already fired included
  next_ref,     \* references are never reused
  arrived,      \* how many frames of a route the broker has handled
  received      \* the frames cast to a process while it was alive

vars == <<alive, calling, granted, routes, monitors, next_ref, arrived,
          received>>

RouteOwner == [pid : Pid, monitor : Nat]
Frame == [route : Route, number : Nat]

TypeOK ==
  /\ alive \subseteq Pid
  /\ calling \in [Pid -> Route \cup {NoRoute}]
  /\ granted \in [Pid -> SUBSET Route]
  /\ DOMAIN routes \subseteq Route
  /\ routes \in [DOMAIN routes -> RouteOwner]
  /\ monitors \subseteq RouteOwner
  /\ next_ref \in Nat
  /\ arrived \in [Route -> Nat]
  /\ received \in [Pid -> SUBSET Frame]

Init ==
  /\ alive = Pid
  /\ calling = [p \in Pid |-> NoRoute]
  /\ granted = [p \in Pid |-> {}]
  /\ routes = [r \in {} |-> [pid |-> r, monitor |-> 0]]
  /\ monitors = {}
  /\ next_ref = 0
  /\ arrived = [r \in Route |-> 0]
  /\ received = [p \in Pid |-> {}]

-----------------------------------------------------------------------------
(* The environment: proxies and the runner.                                *)

\* A process calls register_route for itself and waits for the reply.
RegisterRoute(p, r) ==
  /\ p \in alive
  /\ calling[p] = NoRoute
  /\ calling' = [calling EXCEPT ![p] = r]
  /\ UNCHANGED <<alive, granted, routes, monitors, next_ref, arrived, received>>

\* A process exits.  A call it has sent stays in the broker's mailbox.
Exit(p) ==
  /\ p \in alive
  /\ alive' = alive \ {p}
  /\ UNCHANGED <<calling, granted, routes, monitors, next_ref, arrived, received>>

-----------------------------------------------------------------------------
(* handle_call({register_route, Route, Owner}).                            *)

\* The reply ok reaches a caller that still lives.
reply_ok(p, r) ==
  /\ calling' = [calling EXCEPT ![p] = NoRoute]
  /\ granted' = IF p \in alive
                THEN [granted EXCEPT ![p] = @ \cup {r}] ELSE granted

\* Defect: only a process that still lives is monitored.
monitor_living(p, r, kept) ==
  LET owner == [pid |-> p, monitor |-> next_ref]
  IN  /\ routes' = [q \in DOMAIN routes \cup {r} |->
                      IF q = r THEN owner ELSE routes[q]]
      /\ monitors' = IF p \in alive THEN kept \cup {owner} ELSE kept
      /\ next_ref' = next_ref + 1

\* monitor(process, Owner) and the new entry; `kept` are the other monitors.
monitor_owner(p, r, kept) ==
  LET owner == [pid |-> p, monitor |-> next_ref]
  IN  /\ routes' = [q \in DOMAIN routes \cup {r} |->
                      IF q = r THEN owner ELSE routes[q]]
      /\ monitors' = kept \cup {owner}
      /\ next_ref' = next_ref + 1

\* Defect: the last registration wins.
never_in_use(r) == FALSE

\* is_process_alive of the present owner.
in_use(r) == routes[r].pid \in alive

\* The caller owns the route already: nothing is monitored again.
RegisterAgain(p, r) ==
  /\ calling[p] = r
  /\ r \in DOMAIN routes /\ routes[r].pid = p
  /\ reply_ok(p, r)
  /\ UNCHANGED <<alive, routes, monitors, next_ref, arrived, received>>

\* Defect: the caller is told ok although another process owns the route.
RefusalSaysOk(p, r) ==
  /\ calling[p] = r
  /\ r \in DOMAIN routes /\ routes[r].pid # p
  /\ in_use(r)
  /\ reply_ok(p, r)
  /\ UNCHANGED <<alive, routes, monitors, next_ref, arrived, received>>

\* {error, {route_in_use, Route, Existing}}.
RefuseRoute(p, r) ==
  /\ calling[p] = r
  /\ r \in DOMAIN routes /\ routes[r].pid # p
  /\ in_use(r)
  /\ calling' = [calling EXCEPT ![p] = NoRoute]
  /\ UNCHANGED <<alive, granted, routes, monitors, next_ref, arrived, received>>

\* demonitor(OldMonitor, [flush]) also removes a 'DOWN' already delivered.
without_monitor(r) == monitors \ {routes[r]}

\* The owner has exited and its 'DOWN' has not been handled yet.
ReplaceDeadOwner(p, r) ==
  /\ calling[p] = r
  /\ r \in DOMAIN routes /\ routes[r].pid # p
  /\ ~in_use(r)
  /\ monitor_owner(p, r, without_monitor(r))
  /\ reply_ok(p, r)
  /\ UNCHANGED <<alive, arrived, received>>

\* Nobody owns the route.  The caller may have exited since it called: the
\* monitor of a dead process fires at once.
RegisterFree(p, r) ==
  /\ calling[p] = r
  /\ r \notin DOMAIN routes
  /\ monitor_owner(p, r, monitors)
  /\ reply_ok(p, r)
  /\ UNCHANGED <<alive, arrived, received>>

HandleRegister(p, r) ==
  \/ RegisterAgain(p, r)
  \/ RefuseRoute(p, r)
  \/ ReplaceDeadOwner(p, r)
  \/ RegisterFree(p, r)

-----------------------------------------------------------------------------
(* handle_info.                                                            *)

\* The routes whose entry the message of monitor m removes.
owned_under(m) ==
  {r \in DOMAIN routes : routes[r].pid = m.pid /\ routes[r].monitor = m.monitor}

\* {'DOWN', Monitor, process, Owner, _Reason}.  The runtime delivers what a
\* process sent before it exited ahead of the signal of its exit.
HandleDown(m) ==
  /\ m \in monitors
  /\ m.pid \notin alive
  /\ calling[m.pid] = NoRoute
  /\ routes' = [r \in DOMAIN routes \ owned_under(m) |-> routes[r]]
  /\ monitors' = monitors \ {m}
  /\ UNCHANGED <<alive, calling, granted, next_ref, arrived, received>>

\* A frame from the listener is cast to the owner of its route, if any; a
\* cast to a process that has exited is lost.
HandleFrame(r) ==
  /\ arrived[r] < FrameBound
  /\ arrived' = [arrived EXCEPT ![r] = @ + 1]
  /\ received' =
       IF r \in DOMAIN routes /\ routes[r].pid \in alive
       THEN [received EXCEPT ![routes[r].pid] =
               @ \cup {[route |-> r, number |-> arrived[r]]}]
       ELSE received
  /\ UNCHANGED <<alive, calling, granted, routes, monitors, next_ref>>

-----------------------------------------------------------------------------
Next ==
  \/ \E p \in Pid, r \in Route : RegisterRoute(p, r)
  \/ \E p \in Pid : Exit(p)
  \/ \E p \in Pid, r \in Route : HandleRegister(p, r)
  \/ \E m \in monitors : HandleDown(m)
  \/ \E r \in Route : HandleFrame(r)

Spec == Init /\ [][Next]_vars

\* The broker handles every message it gets.
Fairness ==
  /\ \A p \in Pid : WF_vars(\E r \in Route : HandleRegister(p, r))
  /\ \A p \in Pid : WF_vars(\E m \in monitors : m.pid = p /\ HandleDown(m))

FairSpec == Spec /\ Fairness

-----------------------------------------------------------------------------
(* Properties.                                                             *)

\* Every route is watched by exactly one monitor of its present owner, and
\* the broker keeps no monitor that no route needs: the exit of an owner is
\* always noticed, and re-registration leaks nothing.
OwnersAreWatched ==
  /\ monitors = {routes[r] : r \in DOMAIN routes}
  /\ \A r, q \in DOMAIN routes :
       routes[r].monitor = routes[q].monitor => r = q

\* A process that was told ok and still lives owns the route, so two living
\* processes never both believe they own it, whatever exits, restarts and
\* late 'DOWN' messages come between.
GrantedIsOwned ==
  \A p \in alive : \A r \in granted[p] :
    r \in DOMAIN routes /\ routes[r].pid = p

taken(p, r) == {f.number : f \in {g \in received[p] : g.route = r}}

\* A living process has missed no frame of a route since its first one.
NothingMissed ==
  \A p \in alive, r \in Route : \A a \in taken(p, r) :
    a .. (arrived[r] - 1) \subseteq taken(p, r)

\* What a process has is a run of consecutive frames, and the runs of two
\* processes do not interleave.
RunsAreApart ==
  \A r \in Route : \A p, q \in Pid : \A a, b \in taken(p, r) : \A n \in a .. b :
    n \in taken(p, r) /\ (p # q => n \notin taken(q, r))

\* "That handoff preserves order and lossless delivery": the stream of a
\* route is cut only where its owner exits, and then goes on whole to the
\* next owner, with no frame given to both.
StreamIsHandedOver == NothingMissed /\ RunsAreApart

\* Only the exit of its owner takes a route away: no handler may, not that
\* of another process's 'DOWN' and not another registration.
LiveOwnerKeepsRoute ==
  [][\A r \in DOMAIN routes :
       routes[r].pid \in alive => /\ r \in DOMAIN routes'
                                  /\ routes'[r] = routes[r]]_vars

\* The route of a process that has exited is eventually given up, so that a
\* restarted proxy is not refused for ever.
DeadOwnersLeave ==
  \A p \in Pid, r \in Route :
    (r \in DOMAIN routes /\ routes[r].pid = p /\ p \notin alive)
      ~> ~(r \in DOMAIN routes /\ routes[r].pid = p)
=============================================================================
