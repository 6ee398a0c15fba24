---------------------------- MODULE FabricProofs ----------------------------
(***************************************************************************)
(* What holds of the broker for any set of processes and routes and any    *)
(* number of frames.                                                       *)
(***************************************************************************)
EXTENDS Fabric, TLAPS

-----------------------------------------------------------------------------
(* The type invariant.                                                     *)

(* Every step keeps the types.                                             *)
LEMMA TypeStep == TypeOK /\ [Next]_vars => TypeOK'
<1> SUFFICES ASSUME TypeOK, [Next]_vars PROVE TypeOK'
  OBVIOUS
<1> USE DEF TypeOK, RouteOwner
<1>1. ASSUME NEW p \in Pid, NEW r \in Route, RegisterRoute(p, r)
      PROVE  TypeOK'
  BY <1>1 DEF RegisterRoute
<1>2. ASSUME NEW p \in Pid, Exit(p)
      PROVE  TypeOK'
  BY <1>2 DEF Exit
<1>3. ASSUME NEW p \in Pid, NEW r \in Route, HandleRegister(p, r)
      PROVE  TypeOK'
  <2>1. ASSUME reply_ok(p, r)
        PROVE  /\ calling' \in [Pid -> Route \cup {NoRoute}]
               /\ granted' \in [Pid -> SUBSET Route]
    BY <2>1 DEF reply_ok
  <2>2. ASSUME NEW kept \in SUBSET RouteOwner, monitor_owner(p, r, kept)
        PROVE  /\ DOMAIN routes' \subseteq Route
               /\ routes' \in [DOMAIN routes' -> RouteOwner]
               /\ monitors' \subseteq RouteOwner
               /\ next_ref' \in Nat
    BY <2>2 DEF monitor_owner, in_use
  <2>3. CASE RegisterAgain(p, r)
    BY <2>1, <2>3 DEF RegisterAgain
  <2>4. CASE RefuseRoute(p, r)
    BY <2>4 DEF RefuseRoute
  <2>5. CASE ReplaceDeadOwner(p, r)
    <3>1. without_monitor(r) \in SUBSET RouteOwner
      BY DEF without_monitor
    <3>2. QED
      BY <2>1, <2>2, <2>5, <3>1 DEF ReplaceDeadOwner
  <2>6. CASE RegisterFree(p, r)
    <3>1. monitors \in SUBSET RouteOwner
      OBVIOUS
    <3>2. QED
      BY <2>1, <2>2, <2>6, <3>1 DEF RegisterFree
  <2>7. QED
    BY <1>3, <2>3, <2>4, <2>5, <2>6 DEF HandleRegister
<1>4. ASSUME NEW m \in monitors, HandleDown(m)
      PROVE  TypeOK'
  BY <1>4 DEF HandleDown
<1>5. ASSUME NEW r \in Route, HandleFrame(r)
      PROVE  TypeOK'
  <2>1. arrived' \in [Route -> Nat]
    BY <1>5 DEF HandleFrame
  <2>2. received' \in [Pid -> SUBSET Frame]
    <3>1. CASE r \in DOMAIN routes /\ routes[r].pid \in alive
      <4>1. [route |-> r, number |-> arrived[r]] \in Frame
        BY DEF Frame
      <4>2. received' = [received EXCEPT ![routes[r].pid] =
                           @ \cup {[route |-> r, number |-> arrived[r]]}]
        BY <1>5, <3>1 DEF HandleFrame
      <4>3. QED
        BY <4>1, <4>2
    <3>2. CASE ~(r \in DOMAIN routes /\ routes[r].pid \in alive)
      BY <1>5, <3>2 DEF HandleFrame
    <3>3. QED
      BY <3>1, <3>2
  <2>3. QED
    BY <1>5, <2>1, <2>2 DEF HandleFrame
<1>6. CASE UNCHANGED vars
  BY <1>6 DEF vars
<1>7. QED
  BY <1>1, <1>2, <1>3, <1>4, <1>5, <1>6 DEF Next

\* The broker's table, its monitors and the processes' views keep their
\* types through every step of every handler.
THEOREM TypeCorrect == Spec => []TypeOK
<1>1. Init => TypeOK
  BY FabricAssumption DEF Init, TypeOK
<1>2. QED
  BY <1>1, TypeStep, PTL DEF Spec

-----------------------------------------------------------------------------
(* The inductive invariant.                                                *)

\* References are fresh, so a new monitor is confused with no old one.
RefsAreFresh == \A m \in monitors : m.monitor < next_ref

\* The converse of GrantedIsOwned: an owner that lives has been told so.
\* Only a call of a process that has exited gives a route unannounced.
OwnedIsGranted ==
  \A r \in DOMAIN routes : in_use(r) => r \in granted[routes[r].pid]

IInv ==
  /\ TypeOK
  /\ OwnersAreWatched
  /\ RefsAreFresh
  /\ GrantedIsOwned
  /\ OwnedIsGranted

\* Monitoring a new owner of r, where the monitors kept are those of the
\* other routes, keeps the watch exact and the references fresh.
LEMMA MonitorOwner ==
  ASSUME TypeOK, OwnersAreWatched, RefsAreFresh,
         NEW p \in Pid, NEW r \in Route, NEW kept,
         kept = {routes[q] : q \in DOMAIN routes \ {r}},
         monitor_owner(p, r, kept)
  PROVE  /\ OwnersAreWatched'
         /\ RefsAreFresh'
         /\ DOMAIN routes' = DOMAIN routes \cup {r}
         /\ routes'[r].pid = p
         /\ \A q \in DOMAIN routes \ {r} : routes'[q] = routes[q]
<1> DEFINE owner == [pid |-> p, monitor |-> next_ref]
<1>1. /\ routes' = [q \in DOMAIN routes \cup {r} |->
                      IF q = r THEN owner ELSE routes[q]]
      /\ monitors' = kept \cup {owner}
      /\ next_ref' = next_ref + 1
  BY DEF monitor_owner
<1>2. /\ DOMAIN routes' = DOMAIN routes \cup {r}
      /\ routes'[r] = owner
      /\ \A q \in DOMAIN routes \ {r} : routes'[q] = routes[q]
  BY <1>1
<1>3. \A q \in DOMAIN routes :
        /\ routes[q].monitor \in Nat
        /\ routes[q].monitor < next_ref
  BY DEF TypeOK, RouteOwner, OwnersAreWatched, RefsAreFresh
<1>4. monitors' = {routes'[q] : q \in DOMAIN routes'}
  BY <1>1, <1>2
<1>5. \A q, s \in DOMAIN routes' :
        routes'[q].monitor = routes'[s].monitor => q = s
  <2> SUFFICES ASSUME NEW q \in DOMAIN routes', NEW s \in DOMAIN routes',
                      routes'[q].monitor = routes'[s].monitor
               PROVE  q = s
    OBVIOUS
  <2>1. next_ref \in Nat
    BY DEF TypeOK
  <2>2. CASE q \in DOMAIN routes \ {r} /\ s \in DOMAIN routes \ {r}
    BY <1>2, <2>2 DEF OwnersAreWatched
  <2>3. CASE q = r
    BY <1>2, <1>3, <2>1, <2>3
  <2>4. CASE s = r
    BY <1>2, <1>3, <2>1, <2>4
  <2>5. QED
    BY <1>2, <2>2, <2>3, <2>4
<1>6. \A m \in monitors' : m.monitor < next_ref'
  BY <1>1, <1>3 DEF TypeOK
<1>7. QED
  BY <1>2, <1>4, <1>5, <1>6 DEF OwnersAreWatched, RefsAreFresh

\* The same, for both handlers that give a route away: nobody alive owns r.
LEMMA NewOwner ==
  ASSUME IInv,
         NEW p \in Pid, NEW r \in Route, NEW kept,
         r \in DOMAIN routes => ~in_use(r),
         kept = {routes[q] : q \in DOMAIN routes \ {r}},
         monitor_owner(p, r, kept),
         reply_ok(p, r),
         UNCHANGED alive
  PROVE  OwnersAreWatched' /\ RefsAreFresh' /\ GrantedIsOwned' /\ OwnedIsGranted'
<1>1. /\ OwnersAreWatched'
      /\ RefsAreFresh'
      /\ DOMAIN routes' = DOMAIN routes \cup {r}
      /\ routes'[r].pid = p
      /\ \A q \in DOMAIN routes \ {r} : routes'[q] = routes[q]
  BY MonitorOwner DEF IInv
<1>2. granted' = IF p \in alive
                 THEN [granted EXCEPT ![p] = @ \cup {r}] ELSE granted
  BY DEF reply_ok
<1>3. \A q \in Pid :
        granted'[q] = IF q = p /\ p \in alive THEN granted[q] \cup {r}
                      ELSE granted[q]
  BY <1>2 DEF IInv, TypeOK
<1>4. GrantedIsOwned'
  <2> SUFFICES ASSUME NEW q \in alive', NEW s \in granted'[q]
               PROVE  s \in DOMAIN routes' /\ routes'[s].pid = q
    BY DEF GrantedIsOwned
  <2>1. q \in Pid /\ q \in alive
    BY DEF IInv, TypeOK
  <2>2. CASE s \in granted[q]
    <3>1. s \in DOMAIN routes /\ routes[s].pid = q
      BY <2>1, <2>2 DEF IInv, GrantedIsOwned
    <3>2. s # r
      BY <2>1, <3>1 DEF in_use
    <3>3. QED
      BY <1>1, <3>1, <3>2
  <2>3. CASE s = r /\ q = p
    BY <1>1, <2>3
  <2>4. QED
    BY <1>3, <2>1, <2>2, <2>3
<1>5. OwnedIsGranted'
  <2> SUFFICES ASSUME NEW s \in DOMAIN routes', routes'[s].pid \in alive
               PROVE  s \in granted'[routes'[s].pid]
    BY DEF OwnedIsGranted, in_use
  <2>1. CASE s = r
    BY <1>1, <1>3, <2>1
  <2>2. CASE s \in DOMAIN routes \ {r}
    <3>1. routes'[s] = routes[s] /\ routes[s].pid \in Pid
      BY <1>1, <2>2 DEF IInv, TypeOK, RouteOwner
    <3>2. s \in granted[routes[s].pid]
      BY <2>2, <3>1 DEF IInv, OwnedIsGranted, in_use
    <3>3. QED
      BY <1>3, <3>1, <3>2
  <2>3. QED
    BY <1>1, <2>1, <2>2
<1>6. QED
  BY <1>1, <1>4, <1>5

(* The invariant holds at the start.                                       *)
LEMMA InitInv == Init => IInv
  BY FabricAssumption
     DEF Init, IInv, TypeOK, OwnersAreWatched, RefsAreFresh, GrantedIsOwned,
         OwnedIsGranted

(* Every step keeps the invariant.                                         *)
LEMMA NextInv == IInv /\ [Next]_vars => IInv'
<1> SUFFICES ASSUME IInv, [Next]_vars PROVE IInv'
  OBVIOUS
<1>1. TypeOK'
  BY TypeStep DEF IInv
<1>2. ASSUME UNCHANGED <<routes, monitors, next_ref, granted>>,
             alive' \subseteq alive
      PROVE  IInv'
  BY <1>1, <1>2
     DEF IInv, OwnersAreWatched, RefsAreFresh, GrantedIsOwned, OwnedIsGranted,
         in_use
<1>3. ASSUME NEW p \in Pid, NEW r \in Route, RegisterRoute(p, r)
      PROVE  IInv'
  BY <1>2, <1>3 DEF RegisterRoute
<1>4. ASSUME NEW p \in Pid, Exit(p)
      PROVE  IInv'
  BY <1>2, <1>4 DEF Exit
<1>5. ASSUME NEW p \in Pid, NEW r \in Route, HandleRegister(p, r)
      PROVE  IInv'
  <2>1. CASE RegisterAgain(p, r)
    <3>1. granted' \in {granted, [granted EXCEPT ![p] = @ \cup {r}]}
      BY <2>1 DEF RegisterAgain, reply_ok
    <3>2. \A q \in Pid : /\ granted[q] \subseteq granted'[q]
                         /\ granted'[q] \subseteq granted[q] \cup {r}
                         /\ q # p => granted'[q] = granted[q]
      BY <3>1 DEF IInv, TypeOK
    <3>3. r \in DOMAIN routes /\ routes[r].pid = p
      BY <2>1 DEF RegisterAgain
    <3>4. UNCHANGED <<alive, routes, monitors, next_ref>>
      BY <2>1 DEF RegisterAgain
    <3>5. GrantedIsOwned'
      BY <3>2, <3>3, <3>4 DEF IInv, TypeOK, GrantedIsOwned
    <3>6. OwnedIsGranted'
      <4> SUFFICES ASSUME NEW s \in DOMAIN routes, routes[s].pid \in alive
                   PROVE  s \in granted'[routes[s].pid]
        BY <3>4 DEF OwnedIsGranted, in_use
      <4>1. s \in granted[routes[s].pid] /\ routes[s].pid \in Pid
        BY DEF IInv, TypeOK, OwnedIsGranted, in_use
      <4>2. QED
        BY <3>2, <4>1
    <3>7. QED
      BY <1>1, <3>4, <3>5, <3>6 DEF IInv, OwnersAreWatched, RefsAreFresh
  <2>2. CASE RefuseRoute(p, r)
    BY <1>2, <2>2 DEF RefuseRoute
  <2>3. CASE ReplaceDeadOwner(p, r)
    <3>1. without_monitor(r) = {routes[q] : q \in DOMAIN routes \ {r}}
      <4>1. \A q \in DOMAIN routes : routes[q] = routes[r] => q = r
        BY <2>3 DEF IInv, OwnersAreWatched, ReplaceDeadOwner
      <4>2. monitors = {routes[q] : q \in DOMAIN routes}
        BY DEF IInv, OwnersAreWatched
      <4>3. QED
        BY <2>3, <4>1, <4>2 DEF without_monitor, ReplaceDeadOwner
    <3>2. QED
      BY <1>1, <2>3, <3>1, NewOwner DEF IInv, ReplaceDeadOwner
  <2>4. CASE RegisterFree(p, r)
    <3>1. monitors = {routes[q] : q \in DOMAIN routes \ {r}}
      BY <2>4 DEF IInv, OwnersAreWatched, RegisterFree
    <3>2. QED
      BY <1>1, <2>4, <3>1, NewOwner DEF IInv, RegisterFree
  <2>5. QED
    BY <1>5, <2>1, <2>2, <2>3, <2>4 DEF HandleRegister
<1>6. ASSUME NEW m \in monitors, HandleDown(m)
      PROVE  IInv'
  <2>1. PICK d \in DOMAIN routes : m = routes[d]
    BY DEF IInv, OwnersAreWatched
  <2>2. owned_under(m) = {d}
    BY <2>1 DEF IInv, OwnersAreWatched, owned_under
  <2>3. /\ DOMAIN routes' = DOMAIN routes \ {d}
        /\ \A q \in DOMAIN routes' : routes'[q] = routes[q]
        /\ monitors' = monitors \ {m}
        /\ UNCHANGED <<alive, granted, next_ref>>
        /\ ~in_use(d)
    BY <1>6, <2>1, <2>2 DEF HandleDown, in_use
  <2>4. OwnersAreWatched'
    <3>1. monitors' = {routes'[q] : q \in DOMAIN routes'}
      <4>1. \A q \in DOMAIN routes : routes[q] = m => q = d
        BY <2>1 DEF IInv, OwnersAreWatched
      <4>2. monitors = {routes[q] : q \in DOMAIN routes}
        BY DEF IInv, OwnersAreWatched
      <4>3. QED
        BY <2>1, <2>3, <4>1, <4>2
    <3>2. QED
      BY <2>3, <3>1 DEF IInv, OwnersAreWatched
  <2>5. RefsAreFresh'
    BY <2>3 DEF IInv, RefsAreFresh
  <2>6. GrantedIsOwned' /\ OwnedIsGranted'
    BY <2>3 DEF IInv, GrantedIsOwned, OwnedIsGranted, in_use
  <2>7. QED
    BY <1>1, <2>4, <2>5, <2>6 DEF IInv
<1>7. ASSUME NEW r \in Route, HandleFrame(r)
      PROVE  IInv'
  BY <1>2, <1>7 DEF HandleFrame
<1>8. CASE UNCHANGED vars
  BY <1>2, <1>8 DEF vars
<1>9. QED
  BY <1>3, <1>4, <1>5, <1>6, <1>7, <1>8 DEF Next

(* The invariant holds at every reachable state.                           *)
THEOREM InvHolds == Spec => []IInv
  BY InitInv, NextInv, PTL DEF Spec

\* The broker's monitors are exactly those of its routes' present owners,
\* one each: no owner exits unnoticed, and nothing is left of old owners.
THEOREM MonitorsAreExact == Spec => []OwnersAreWatched
  BY InvHolds, PTL DEF IInv

\* No two living processes have both been told that a route is theirs, in
\* any order of registrations, exits and late 'DOWN' messages.
THEOREM OneLivingOwner == Spec => []GrantedIsOwned
  BY InvHolds, PTL DEF IInv

-----------------------------------------------------------------------------
(* The action property.                                                    *)

\* Nothing but the exit of its owner takes a route away.
THEOREM RouteIsKept == Spec => LiveOwnerKeepsRoute
<1> DEFINE Kept == \A r \in DOMAIN routes :
                     routes[r].pid \in alive => /\ r \in DOMAIN routes'
                                                /\ routes'[r] = routes[r]
<1>1. ASSUME IInv, [Next]_vars PROVE [Kept]_vars
  <2>1. ASSUME UNCHANGED routes PROVE Kept
    BY <2>1
  <2>2. ASSUME NEW p \in Pid, NEW r \in Route, NEW kept,
               monitor_owner(p, r, kept), r \in DOMAIN routes => ~in_use(r)
        PROVE  Kept
    BY <2>2 DEF monitor_owner, in_use
  <2>3. ASSUME NEW p \in Pid, NEW r \in Route, HandleRegister(p, r)
        PROVE  Kept
    BY <2>1, <2>2, <2>3
       DEF HandleRegister, RegisterAgain, RefuseRoute, ReplaceDeadOwner,
           RegisterFree
  <2>4. ASSUME NEW m \in monitors, HandleDown(m)
        PROVE  Kept
    BY <2>4 DEF HandleDown, owned_under
  <2>5. QED
    BY <1>1, <2>1, <2>3, <2>4 DEF Next, RegisterRoute, Exit, HandleFrame
<1>2. QED
  BY <1>1, InvHolds, PTL DEF Spec, LiveOwnerKeepsRoute

-----------------------------------------------------------------------------
(* The streams.  A living owner has every frame of its route since its     *)
(* first one, and nobody has a frame it was not the living owner for.      *)

ReceivedIsGranted ==
  \A p \in Pid : \A f \in received[p] :
    f.route \in granted[p] /\ f.number < arrived[f.route]

StreamInv == ReceivedIsGranted /\ NothingMissed /\ RunsAreApart

\* The frames a process has of a route have numbers of the past.
LEMMA TakenType ==
  ASSUME TypeOK, ReceivedIsGranted, NEW p \in Pid, NEW r \in Route
  PROVE  /\ taken(p, r) \subseteq Nat
         /\ \A a \in taken(p, r) : a < arrived[r] /\ r \in granted[p]
BY DEF TypeOK, Frame, ReceivedIsGranted, taken

\* A step that handles no frame leaves the streams alone.
LEMMA StreamKept ==
  ASSUME StreamInv, TypeOK,
         UNCHANGED <<received, arrived>>,
         alive' \subseteq alive,
         \A p \in Pid : granted[p] \subseteq granted'[p]
  PROVE  StreamInv'
<1>1. \A p, r : taken(p, r)' = taken(p, r)
  BY DEF taken
<1>2. ReceivedIsGranted'
  BY DEF StreamInv, ReceivedIsGranted
<1>3. NothingMissed'
  BY <1>1 DEF StreamInv, NothingMissed
<1>4. RunsAreApart'
  BY DEF StreamInv, RunsAreApart, taken
<1>5. QED
  BY <1>2, <1>3, <1>4 DEF StreamInv

(* Every step keeps the streams whole.                                     *)
LEMMA StreamNext == IInv /\ StreamInv /\ [Next]_vars => StreamInv'
<1> SUFFICES ASSUME IInv, StreamInv, [Next]_vars PROVE StreamInv'
  OBVIOUS
<1>1. TypeOK
  BY DEF IInv
<1>2. ASSUME NEW p \in Pid, NEW r \in Route, HandleRegister(p, r)
      PROVE  StreamInv'
  <2>1. ASSUME reply_ok(p, r)
        PROVE  \A q \in Pid : granted[q] \subseteq granted'[q]
    BY <1>1, <2>1 DEF reply_ok, TypeOK
  <2>2. /\ UNCHANGED <<received, arrived, alive>>
        /\ reply_ok(p, r) \/ UNCHANGED granted
    BY <1>2
       DEF HandleRegister, RegisterAgain, RefuseRoute, ReplaceDeadOwner,
           RegisterFree
  <2>3. QED
    BY <1>1, <2>1, <2>2, StreamKept
<1>3. ASSUME NEW r \in Route, HandleFrame(r)
      PROVE  StreamInv'
  <2> DEFINE n == arrived[r]
  <2>1. /\ arrived' = [arrived EXCEPT ![r] = n + 1]
        /\ UNCHANGED <<alive, granted>>
        /\ n \in Nat
    BY <1>1, <1>3 DEF HandleFrame, TypeOK
  <2>2. CASE r \in DOMAIN routes /\ routes[r].pid \in alive
    <3> DEFINE o == routes[r].pid
    <3>1. /\ o \in Pid
          /\ r \in granted[o]
          /\ received' = [received EXCEPT ![o] =
                            @ \cup {[route |-> r, number |-> n]}]
      BY <1>1, <1>3, <2>2
         DEF HandleFrame, IInv, OwnedIsGranted, in_use, TypeOK, RouteOwner
    <3>2. \A q \in Pid, s \in Route :
            taken(q, s)' = IF q = o /\ s = r THEN taken(q, s) \cup {n}
                           ELSE taken(q, s)
      <4> SUFFICES ASSUME NEW q \in Pid, NEW s \in Route
                   PROVE  taken(q, s)' = IF q = o /\ s = r
                                         THEN taken(q, s) \cup {n}
                                         ELSE taken(q, s)
        OBVIOUS
      <4>1. received'[q] = IF q = o
                           THEN received[q] \cup {[route |-> r, number |-> n]}
                           ELSE received[q]
        BY <1>1, <3>1 DEF TypeOK
      <4>2. CASE q = o
        <5> DEFINE new == [route |-> r, number |-> n]
        <5>1. received'[q] = received[q] \cup {new}
          BY <4>1, <4>2
        <5>2. {g \in received'[q] : g.route = s} =
                {g \in received[q] : g.route = s}
                  \cup (IF s = r THEN {new} ELSE {})
          BY <5>1
        <5>3. CASE s = r
          <6>1. taken(q, s)' = {f.number : f \in {g \in received[q] : g.route = s}
                                                \cup {new}}
            BY <5>2, <5>3 DEF taken
          <6>2. new.number = n
            OBVIOUS
          <6>3. taken(q, s)' = taken(q, s) \cup {n}
            BY <6>1, <6>2 DEF taken
          <6>4. QED
            BY <4>2, <5>3, <6>3
        <5>4. CASE s # r
          BY <5>2, <5>4 DEF taken
        <5>5. QED
          BY <5>3, <5>4
      <4>3. CASE q # o
        BY <4>1, <4>3 DEF taken
      <4>4. QED
        BY <4>2, <4>3
    <3>3. ReceivedIsGranted'
      BY <1>1, <2>1, <3>1 DEF StreamInv, ReceivedIsGranted, TypeOK, Frame
    <3>4. NothingMissed'
      <4> SUFFICES ASSUME NEW q \in alive, NEW s \in Route,
                          NEW a \in taken(q, s)',
                          NEW b \in a .. (arrived'[s] - 1)
                   PROVE  b \in taken(q, s)'
        BY <2>1 DEF NothingMissed
      <4>1. q \in Pid
        BY <1>1 DEF TypeOK
      <4>2. CASE s # r
        BY <1>1, <2>1, <3>2, <4>1, <4>2 DEF StreamInv, NothingMissed, TypeOK
      <4>3. CASE s = r
        <5>1. q = o
          <6>1. CASE a \in taken(q, s)
            BY <1>1, <2>2, <4>1, <4>3, <6>1, TakenType
               DEF StreamInv, IInv, GrantedIsOwned
          <6>2. CASE a \notin taken(q, s)
            BY <3>2, <4>1, <6>2
          <6>3. QED
            BY <6>1, <6>2
        <5>2. arrived'[s] = n + 1
          BY <1>1, <2>1, <4>3 DEF TypeOK
        <5>3. taken(q, s)' = taken(q, s) \cup {n} /\ taken(q, s) \subseteq Nat
          BY <1>1, <3>2, <4>1, <4>3, <5>1, TakenType DEF StreamInv
        <5>4. CASE b = n
          BY <5>3, <5>4
        <5>5. CASE b # n
          <6>1. a \in Nat /\ a < n /\ b \in a .. (n - 1)
            BY <2>1, <5>2, <5>3, <5>5
          <6>2. a \in taken(q, s)
            BY <5>3, <6>1
          <6>3. QED
            BY <4>3, <5>3, <6>1, <6>2 DEF StreamInv, NothingMissed
        <5>6. QED
          BY <5>4, <5>5
      <4>4. QED
        BY <4>2, <4>3
    <3>5. RunsAreApart'
      <4> SUFFICES ASSUME NEW s \in Route, NEW p \in Pid, NEW q \in Pid,
                          NEW a \in taken(p, s)', NEW b \in taken(p, s)',
                          NEW m \in a .. b
                   PROVE  m \in taken(p, s)' /\ (p # q => m \notin taken(q, s)')
        BY DEF RunsAreApart, taken
      <4>1. \A t \in Pid : \A i, j \in taken(t, s) : \A k \in i .. j :
              k \in taken(t, s) /\ (t # q => k \notin taken(q, s))
        BY DEF StreamInv, RunsAreApart, taken
      <4>2. \A t \in Pid : /\ taken(t, s) \subseteq Nat
                           /\ \A i \in taken(t, s) : i < arrived[s]
        BY <1>1, TakenType DEF StreamInv
      <4>3. CASE s = r /\ p = o
        <5>1. taken(p, s)' = taken(p, s) \cup {n}
          BY <3>2, <4>3
        <5>2. m \in Nat /\ m =< n /\ (m < n => a \in taken(p, s))
          BY <2>1, <4>2, <4>3, <5>1
        <5>3. m < n => m \in taken(p, s)
          <6> SUFFICES ASSUME m < n PROVE m \in taken(p, s)
            OBVIOUS
          <6>1. a .. (n - 1) \subseteq taken(p, s)
            BY <2>2, <4>3, <5>2 DEF StreamInv, NothingMissed
          <6>2. m \in a .. (n - 1)
            BY <2>1, <4>2, <5>2
          <6>3. QED
            BY <6>1, <6>2
        <5>4. p # q => m \notin taken(q, s)'
          <6> SUFFICES ASSUME p # q PROVE m \notin taken(q, s)
            BY <3>2, <4>3
          <6>1. CASE m < n
            <7>1. m \in m .. m
              BY <5>2
            <7>2. QED
              BY <4>1, <5>3, <6>1, <7>1
          <6>2. CASE m = n
            BY <4>2, <4>3, <6>2
          <6>3. QED
            BY <2>1, <5>2, <6>1, <6>2
        <5>5. QED
          BY <2>1, <5>1, <5>2, <5>3, <5>4
      <4>4. CASE ~(s = r /\ p = o)
        <5>1. taken(p, s)' = taken(p, s)
          BY <3>2, <4>4
        <5>2. m \in taken(p, s) /\ (p # q => m \notin taken(q, s))
          BY <4>1, <5>1
        <5>3. m < arrived[s]
          BY <4>2, <5>2
        <5>4. s = r => m # n
          BY <2>1, <5>3
        <5>5. QED
          BY <3>2, <5>1, <5>2, <5>4
      <4>5. QED
        BY <4>3, <4>4
    <3>6. QED
      BY <3>3, <3>4, <3>5 DEF StreamInv
  <2>3. CASE ~(r \in DOMAIN routes /\ routes[r].pid \in alive)
    <3>1. received' = received
      BY <1>3, <2>3 DEF HandleFrame
    <3>2. \A q, s : taken(q, s)' = taken(q, s)
      BY <3>1 DEF taken
    <3>3. ReceivedIsGranted'
      BY <1>1, <2>1, <3>1 DEF StreamInv, ReceivedIsGranted, TypeOK, Frame
    <3>4. NothingMissed'
      <4> SUFFICES ASSUME NEW q \in alive, NEW s \in Route,
                          NEW a \in taken(q, s)
                   PROVE  a .. (arrived'[s] - 1) \subseteq taken(q, s)
        BY <2>1, <3>2 DEF NothingMissed
      <4>1. s # r
        BY <1>1, <2>3, TakenType DEF StreamInv, IInv, GrantedIsOwned, TypeOK
      <4>2. arrived'[s] = arrived[s]
        BY <1>1, <2>1, <4>1 DEF TypeOK
      <4>3. QED
        BY <4>2 DEF StreamInv, NothingMissed
    <3>5. RunsAreApart'
      BY <3>1 DEF StreamInv, RunsAreApart, taken
    <3>6. QED
      BY <3>3, <3>4, <3>5 DEF StreamInv
  <2>4. QED
    BY <2>2, <2>3
<1>4. ASSUME UNCHANGED <<received, arrived, granted>>, alive' \subseteq alive
      PROVE  StreamInv'
  BY <1>1, <1>4, StreamKept
<1>5. QED
  BY <1>2, <1>3, <1>4 DEF Next, RegisterRoute, Exit, HandleDown, vars

\* A living process misses no frame of its route, what any process has is
\* consecutive, and successive owners' frames do not interleave.
THEOREM StreamsAreWhole == Spec => []StreamIsHandedOver
<1>1. Init => StreamInv
  BY DEF Init, StreamInv, ReceivedIsGranted, NothingMissed,
         RunsAreApart, taken
<1>2. QED
  BY <1>1, StreamNext, InvHolds, PTL DEF Spec, StreamInv, StreamIsHandedOver
=============================================================================
