---------------------------- MODULE EffectWindow ----------------------------
(***************************************************************************)
(* The routers behind the shared actor schedulers, and the arbiter of the  *)
(* one lookahead batch among them (priv/xls/lib/effect_window.x and        *)
(* router_proc of xls_topology_scheduler_dslx).                            *)
(*                                                                         *)
(* A scheduler owes its router a credit for every batch of effects, and    *)
(* sends the next batch when the credit has come back.  A router that owns *)
(* the window returns the credit of the batch it is emitting early, which  *)
(* lets one batch wait behind it.                                          *)
(*                                                                         *)
(* An action is an activation of a proc.  A channel that is full or a      *)
(* recipient that does not take an effect only delays an activation.       *)
(***************************************************************************)
EXTENDS Naturals, Sequences

CONSTANTS
  CONTENDER_COUNT,         \* schedulers that share the window
  ENTRY_EFFECT_CAPACITY,   \* effects that an entry can return
  EntryEffectLists         \* their valid bits

ASSUME EffectWindowAssumption ==
  /\ CONTENDER_COUNT \in Nat \ {0}
  /\ ENTRY_EFFECT_CAPACITY \in Nat
  /\ EntryEffectLists \subseteq
       UNION {[1 .. n -> BOOLEAN] : n \in 0 .. ENTRY_EFFECT_CAPACITY}

Contenders == 0 .. CONTENDER_COUNT - 1

VARIABLES
  egress,          \* [Contenders -> batches sent to the router]
  egress_busy,     \* [Contenders -> the scheduler waits for a credit]
  egress_credits,  \* [Contenders -> credits on their way back]
  router,          \* [Contenders -> registers of the router]
  window_request, window_grant, window_release,
                   \* [Contenders -> tokens in the channel]
  arbiter          \* registers of the arbiter

channels == <<window_request, window_grant, window_release>>
window_vars == <<egress, egress_busy, egress_credits, router, channels, arbiter>>

none_yet == [c \in Contenders |-> 0]

(* A batch is the list of valid bits of an entry's effects, with who made  *)
(* it; one without a valid effect is not sent.                             *)
batch(slot, entry, effects) ==
  [slot |-> slot, entry |-> entry, effects |-> effects]

no_batch == batch(0, 0, << >>)

idle(window_requested) ==
  [active |-> FALSE, scheduled |-> no_batch, index |-> 0,
   window_requested |-> window_requested, window_granted |-> FALSE,
   credit_debt |-> FALSE, lookahead |-> FALSE]

WindowInit ==
  /\ egress = [c \in Contenders |-> << >>]
  /\ egress_busy = [c \in Contenders |-> FALSE]
  /\ egress_credits = none_yet
  /\ router = [c \in Contenders |-> idle(FALSE)]
  /\ window_request = none_yet /\ window_grant = none_yet
  /\ window_release = none_yet
  /\ arbiter = [owner_valid |-> FALSE, owner |-> 0, cursor |-> 0,
                pending |-> {}]

changed(channel, c, takes, puts) ==
  channel' = [channel EXCEPT ![c] = @ - (IF takes THEN 1 ELSE 0)
                                      + (IF puts THEN 1 ELSE 0)]
-----------------------------------------------------------------------------
(* What a scheduler makes of the credit that may have come back, and the   *)
(* batch it sends if it is not busy then.                                  *)
credit_found(c) == egress_credits[c] > 0

credit_busy(c) == egress_busy[c] /\ ~credit_found(c)

sends(c, batches) ==
  /\ changed(egress_credits, c, credit_found(c), FALSE)
  /\ egress' = [egress EXCEPT ![c] = @ \o batches]
  /\ egress_busy' =
       [egress_busy EXCEPT ![c] = credit_busy(c) \/ batches # << >>]
-----------------------------------------------------------------------------
(* One activation of the router of c: at most one effect of its batch.     *)
is_last(b, index) == index + 1 >= Len(b.effects)

(* The next batch is taken when there is none, or behind the last effect   *)
(* of a batch whose credit has been returned early.                        *)
incoming_valid(c) ==
  LET s == router[c]
  IN  /\ egress[c] # << >>
      /\ \/ ~s.active
         \/ is_last(s.scheduled, s.index) /\ s.credit_debt /\ ~s.lookahead

grant_valid(c) ==
  LET s == router[c]
  IN  s.window_requested /\ ~s.window_granted /\ window_grant[c] > 0

(* "Never apply a stale grant to a batch admitted in this same activation."*)
grant_usable(c, batch_continues) ==
  /\ grant_valid(c)
  /\ router[c].active /\ ~router[c].lookahead /\ batch_continues

(* Defect: a grant that comes too late is not given back.                  *)
releases_used(c, last, usable) ==
  /\ last
  /\ \/ router[c].lookahead
     \/ router[c].credit_debt /\ ~incoming_valid(c)

(* The window is given back after the lookahead batch, or without one, and *)
(* at once if its batch has ended.                                         *)
releases(c, last, usable) ==
  \/ last /\ router[c].lookahead
  \/ last /\ router[c].credit_debt /\ ~incoming_valid(c)
  \/ grant_valid(c) /\ ~usable

current(c) == IF router[c].active THEN router[c].scheduled ELSE Head(egress[c])
current_index(c) == IF router[c].active THEN router[c].index ELSE 0

(* The effect that the activation emits, as a sequence of none or one.     *)
routed(c) ==
  LET b == current(c)
  IN  IF (router[c].active \/ incoming_valid(c))
           /\ b.effects[current_index(c) + 1]
      THEN <<b>> ELSE << >>

route(c) ==
  LET s == router[c]
      incoming == incoming_valid(c)
      granted == grant_valid(c)
      batch_valid == s.active \/ incoming
      last == batch_valid /\ is_last(current(c), current_index(c))
      batch_continues == batch_valid /\ ~last
      usable == grant_usable(c, batch_continues)
      swallow_physical == last /\ s.credit_debt /\ ~s.lookahead
      carry_lookahead == swallow_physical /\ incoming
      release == releases(c, last, usable)
      pending_request == s.window_requested /\ ~granted
      window_granted == (s.window_granted \/ usable) /\ ~release
      credit_debt == (s.credit_debt \/ usable) /\ ~swallow_physical
      lookahead == carry_lookahead \/ (batch_continues /\ s.lookahead)
      request == /\ carry_lookahead \/ batch_continues
                 /\ ~lookahead /\ ~window_granted /\ ~credit_debt
                 /\ ~pending_request
  IN  /\ batch_valid \/ granted
      /\ changed(egress_credits, c, FALSE, usable \/ (last /\ ~swallow_physical))
      /\ changed(window_request, c, FALSE, request)
      /\ changed(window_grant, c, granted, FALSE)
      /\ changed(window_release, c, FALSE, release)
      /\ egress' = [egress EXCEPT ![c] = IF incoming THEN Tail(@) ELSE @]
      /\ router' = [router EXCEPT ![c] =
           IF carry_lookahead \/ batch_continues
           THEN [active |-> TRUE,
                 scheduled |-> IF carry_lookahead THEN Head(egress[c])
                               ELSE current(c),
                 index |-> IF carry_lookahead THEN 0
                           ELSE current_index(c) + 1,
                 window_requested |->
                   ~carry_lookahead /\ (pending_request \/ request),
                 window_granted |-> window_granted,
                 credit_debt |-> credit_debt,
                 lookahead |-> lookahead]
           ELSE idle(pending_request)]
      /\ UNCHANGED <<egress_busy, arbiter>>
-----------------------------------------------------------------------------
(* The first candidate at or after the cursor, as a sequence of none or    *)
(* one.  Defect: the search starts at the first contender every time.      *)
select_lowest(candidates, cursor, count) ==
  IF candidates = {} THEN << >>
  ELSE <<CHOOSE winner \in candidates : \A c \in candidates : winner <= c>>

select(candidates, cursor, count) ==
  LET distance(c) == (c + count - cursor) % count
  IN  IF candidates = {} THEN << >>
      ELSE <<CHOOSE winner \in candidates :
               \A c \in candidates : distance(winner) <= distance(c)>>

(* One activation of the arbiter.                                          *)
captured_pending ==
  arbiter.pending \cup {c \in Contenders : window_request[c] > 0}

received_requests ==
  window_request' = [c \in Contenders |->
    IF window_request[c] > 0 /\ c \notin arbiter.pending
    THEN window_request[c] - 1 ELSE window_request[c]]

released == arbiter.owner_valid /\ window_release[arbiter.owner] > 0

retained_owner == arbiter.owner_valid /\ ~released

arbitrate ==
  LET granted == IF retained_owner THEN << >>
                 ELSE select(captured_pending, arbiter.cursor, CONTENDER_COUNT)
  IN  /\ received_requests
      /\ changed(window_release, arbiter.owner, released, FALSE)
      /\ IF granted = << >>
         THEN /\ arbiter' = [arbiter EXCEPT !.owner_valid = retained_owner,
                                            !.pending = captured_pending]
              /\ UNCHANGED window_grant
         ELSE /\ changed(window_grant, Head(granted), FALSE, TRUE)
              /\ arbiter' =
                   [owner_valid |-> TRUE, owner |-> Head(granted),
                    cursor |-> (Head(granted) + 1) % CONTENDER_COUNT,
                    pending |-> captured_pending \ {Head(granted)}]
      /\ UNCHANGED <<egress, egress_busy, egress_credits, router>>
-----------------------------------------------------------------------------
(* A scheduler of which only its batches are seen: any that has a valid    *)
(* effect, at any time.                                                    *)
effects_valid(effects) == \E i \in DOMAIN effects : effects[i]

Batches ==
  {batch(0, 0, effects) :
     effects \in {e \in EntryEffectLists : effects_valid(e)}}

schedule(c) ==
  /\ \/ credit_found(c) /\ sends(c, << >>)
     \/ \E b \in Batches : ~credit_busy(c) /\ sends(c, <<b>>)
  /\ UNCHANGED <<router, channels, arbiter>>

WindowNext ==
  \/ \E c \in Contenders : schedule(c) \/ route(c)
  \/ arbitrate

(* The clock drives the generated processes.                               *)
WindowFairness ==
  /\ \A c \in Contenders : WF_window_vars(route(c))
  /\ WF_window_vars(arbitrate)

WindowSpec == WindowInit /\ [][WindowNext]_window_vars /\ WindowFairness
-----------------------------------------------------------------------------
(* The window is in one place: a grant on its way to the owner, with the   *)
(* owner, or a release on its way back; and only with it is a credit       *)
(* returned early or a second batch taken.                                 *)
window(c) ==
  window_grant[c] + (IF router[c].window_granted THEN 1 ELSE 0)
    + window_release[c]

WindowHasOneOwner ==
  \A c \in Contenders :
    /\ window(c) = IF arbiter.owner_valid /\ arbiter.owner = c THEN 1 ELSE 0
    /\ router[c].credit_debt \/ router[c].lookahead =>
         router[c].window_granted

(* Every batch is credited once: those that the router has not finished    *)
(* are those that the scheduler still waits for and the one whose credit   *)
(* was returned early.                                                     *)
CreditsMatchBatches ==
  \A c \in Contenders :
    Len(egress[c]) + (IF router[c].active THEN 1 ELSE 0) + egress_credits[c]
      = (IF egress_busy[c] THEN 1 ELSE 0)
          + (IF router[c].credit_debt THEN 1 ELSE 0)

(* Neither a grant nor a credit is lost, forged or used twice, in whatever *)
(* order batches end and grants, releases and credits arrive.              *)
TokensAreConserved == WindowHasOneOwner /\ CreditsMatchBatches

(* A router that asks for the window is granted it in turn, whatever the   *)
(* other schedulers send and even if its batch has ended meanwhile.        *)
EveryRequestIsGranted ==
  \A c \in Contenders :
    router[c].window_requested ~> window_grant[c] > 0
=============================================================================
