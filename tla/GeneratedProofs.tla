-------------------------- MODULE GeneratedProofs --------------------------
(***************************************************************************)
(* Theorems about the procs that the compiler generates: the admission     *)
(* credits of a machine are conserved for every mailbox capacity and every *)
(* callback; grants and credits of the effect routers are conserved for    *)
(* any number of schedulers and any batches.                               *)
(***************************************************************************)
EXTENDS Machine, EffectWindow, FiniteSetTheorems, WellFoundedInduction, TLAPS

-----------------------------------------------------------------------------
(* Machine.                                                                *)

Slots == [message : Nat, postponed : BOOLEAN, tried : BOOLEAN]

Registers ==
  [phase : Phases, slots : Seq(Slots), enter_pending : BOOLEAN,
   effects : EffectLists, entry_effect_index : Nat,
   admission_pending : BOOLEAN, failed : BOOLEAN, entered : Nat,
   cause : {"none", "fail", "repeat", "malformed"}, rejected : Seq(Nat)]

(* Types of the registers, the channels and the history that they feed.    *)
TypeOK ==
  /\ machine \in Registers
  /\ link \in Seq(Nat) /\ req \in Seq(Nat)
  /\ admitted \in BOOLEAN /\ credits \in Nat
  /\ sent \in Nat

IndInv == TypeOK /\ CreditConserved
-----------------------------------------------------------------------------
(* A sequence without one of its elements is one shorter.                  *)
LEMMA RemoveAtLength ==
  ASSUME NEW S, NEW s \in Seq(S), NEW k \in DOMAIN s
  PROVE  RemoveAt(s, k) \in Seq(S) /\ Len(RemoveAt(s, k)) = Len(s) - 1
<1> DEFINE before == SubSeq(s, 1, k - 1)
           after == SubSeq(s, k + 1, Len(s))
           n == Len(s)
<1>1. k \in 1 .. n /\ n \in Nat
  OBVIOUS
<1>2. before \in Seq(S) /\ Len(before) = k - 1
  BY <1>1
<1>3. after \in Seq(S) /\ Len(after) = n - k
  BY <1>1
<1>4. RemoveAt(s, k) = before \o after
  BY DEF RemoveAt
<1> HIDE DEF before, after, n
<1>5. /\ before \o after \in Seq(S)
      /\ Len(before \o after) = (k - 1) + (n - k)
  BY <1>2, <1>3
<1>6. QED
  BY <1>1, <1>4, <1>5 DEF n

(* What is done with a dispatched message never needs another slot.        *)
LEMMA TransitionShrinks ==
  ASSUME NEW slots \in Seq(Slots), NEW k \in DOMAIN slots,
         NEW c \in Conclusions
  PROVE  /\ transition_slots(slots, k, c) \in Seq(Slots)
         /\ Len(transition_slots(slots, k, c)) \in Nat
         /\ Len(transition_slots(slots, k, c)) <= Len(slots)
         /\ unblocked(transition_slots(slots, k, c)) \in Seq(Slots)
         /\ Len(unblocked(transition_slots(slots, k, c))) =
              Len(transition_slots(slots, k, c))
<1> DEFINE after == transition_slots(slots, k, c)
<1>1. after \in Seq(Slots) /\ Len(after) <= Len(slots)
  <2>1. CASE c.directive = "consume"
    <3>1. after = RemoveAt(slots, k)
      BY <2>1 DEF transition_slots
    <3>2. QED
      BY <3>1, RemoveAtLength
  <2>2. CASE c.directive = "postpone"
    <3>1. after = [slots EXCEPT ![k].postponed = TRUE]
      BY <2>2 DEF transition_slots
    <3>2. [slots[k] EXCEPT !.postponed = TRUE] \in Slots
      <4>1. slots[k] \in Slots
        OBVIOUS
      <4>2. QED
        BY <4>1 DEF Slots
    <3>3. QED
      BY <3>1, <3>2
  <2>3. CASE c.directive = "fail"
    BY <2>3 DEF transition_slots
  <2>4. QED
    BY <2>1, <2>2, <2>3 DEF Conclusions
<1> HIDE DEF after
<1>2. unblocked(after) \in Seq(Slots) /\ Len(unblocked(after)) = Len(after)
  <2>1. \A j \in DOMAIN after : [after[j] EXCEPT !.postponed = FALSE] \in Slots
    <3>1. \A j \in DOMAIN after : after[j] \in Slots
      BY <1>1
    <3>2. QED
      BY <3>1 DEF Slots
  <2>2. DOMAIN after = 1 .. Len(after) /\ Len(after) \in Nat
    BY <1>1
  <2>3. QED
    BY <2>1, <2>2 DEF unblocked
<1>3. QED
  BY <1>1, <1>2 DEF after

(* The tokens that are on their way, counted apart.                        *)
LEMMA TokensInOnePlace ==
  ASSUME IndInv
  PROVE  /\ Len(req) \in Nat /\ Len(machine.slots) \in Nat
         /\ ~machine.admission_pending =>
              /\ credits = 0 /\ ~admitted /\ Len(req) = 0
              /\ Len(machine.slots) <= MailboxCapacity
         /\ machine.admission_pending =>
              /\ \/ credits = 1 /\ ~admitted /\ Len(req) = 0
                 \/ credits = 0 /\ admitted /\ Len(req) = 0
                 \/ credits = 0 /\ ~admitted /\ Len(req) = 1
              /\ Len(machine.slots) + 1 <= MailboxCapacity
<1> DEFINE a == IF admitted THEN 1 ELSE 0
           r == Len(req)
           n == Len(machine.slots)
<1>1. r \in Nat /\ n \in Nat /\ a \in Nat /\ credits \in Nat
      /\ a \in {0, 1} /\ (admitted <=> a = 1)
      /\ MailboxCapacity \in Nat
  BY MachineAssumption DEF IndInv, TypeOK, Registers
<1>2. /\ machine.admission_pending => credits + a + r = 1
      /\ ~machine.admission_pending => credits + a + r = 0
      /\ n + (credits + a + r) <= MailboxCapacity
  BY DEF IndInv, CreditConserved, granted
<1> HIDE DEF a, r, n
<1>3. CASE machine.admission_pending
  <2>1. credits + a + r = 1
    BY <1>2, <1>3
  <2>2. \/ credits = 1 /\ a = 0 /\ r = 0
        \/ credits = 0 /\ a = 1 /\ r = 0
        \/ credits = 0 /\ a = 0 /\ r = 1
    BY <1>1, <2>1
  <2>3. n + 1 <= MailboxCapacity
    BY <1>1, <1>2, <2>1
  <2>4. QED
    BY <1>1, <1>3, <2>2, <2>3 DEF r, n
<1>4. CASE ~machine.admission_pending
  <2>1. credits + a + r = 0
    BY <1>2, <1>4
  <2>2. credits = 0 /\ a = 0 /\ r = 0 /\ n <= MailboxCapacity
    BY <1>1, <1>2, <2>1
  <2>3. QED
    BY <1>1, <1>4, <2>2 DEF r, n
<1>5. QED
  BY <1>3, <1>4

(* The token is where TokensInOnePlace says after a step that preserves    *)
(* types.                                                                  *)
LEMMA TokenIsConserved ==
  ASSUME TypeOK', NEW p, p <=> machine'.admission_pending,
         NEW credit \in Nat, credits' = credit,
         ~p => credit = 0 /\ ~admitted' /\ Len(req') = 0,
         p => \/ credit = 1 /\ ~admitted' /\ Len(req') = 0
              \/ credit = 0 /\ admitted' /\ Len(req') = 0
              \/ credit = 0 /\ ~admitted' /\ Len(req') = 1,
         NEW n \in Nat, n = Len(machine'.slots),
         n + (IF p THEN 1 ELSE 0) <= MailboxCapacity
  PROVE  CreditConserved'
<1> DEFINE a == IF admitted' THEN 1 ELSE 0
           r == Len(req')
<1>1. /\ p => credit + a + r = 1
      /\ ~p => credit + a + r = 0
  <2>1. /\ ~p => credit = 0 /\ a = 0 /\ r = 0
        /\ p => \/ credit = 1 /\ a = 0 /\ r = 0
                \/ credit = 0 /\ a = 1 /\ r = 0
                \/ credit = 0 /\ a = 0 /\ r = 1
    OBVIOUS
  <2> HIDE DEF a, r
  <2>2. QED
    BY <2>1
<1>2. credit + a + r = IF p THEN 1 ELSE 0
  BY <1>1
<1> HIDE DEF a, r
<1>3. n + (credit + a + r) <= MailboxCapacity
  BY <1>2
<1>4. QED
  BY <1>1, <1>3 DEF CreditConserved, granted, a, r
-----------------------------------------------------------------------------
(* Initially there is no token, and the first entry is pending.            *)
LEMMA InitInv == Init => IndInv
<1> SUFFICES ASSUME Init PROVE IndInv
  OBVIOUS
<1>1. /\ link = << >> /\ req = << >> /\ admitted = FALSE /\ credits = 0
      /\ sent = 0
  BY DEF Init
<1>2. PICK phase \in Phases, effects \in EffectLists :
        machine = [phase |-> phase, slots |-> << >>, enter_pending |-> TRUE,
                   effects |-> effects, entry_effect_index |-> 0,
                   admission_pending |-> FALSE, failed |-> FALSE,
                   entered |-> 1, cause |-> "none", rejected |-> << >>]
  BY DEF Init
<1>3. TypeOK
  <2>1. << >> \in Seq(Slots) /\ << >> \in Seq(Nat)
    OBVIOUS
  <2>2. machine \in Registers
    BY <1>2, <2>1 DEF Registers
  <2>3. QED
    BY <1>1, <2>1, <2>2 DEF TypeOK
<1>4. CreditConserved
  BY <1>1, <1>2, MachineAssumption DEF CreditConserved, granted
<1>5. QED
  BY <1>3, <1>4 DEF IndInv

(* An activation that ends with slots that leave room for the token still  *)
(* on its way may grant another only when there is none.                   *)
LEMMA FinishInv ==
  ASSUME IndInv, NEW m \in Registers, NEW received \in BOOLEAN,
         NEW slots \in Seq(Slots), NEW phase \in Phases,
         NEW entering \in BOOLEAN, NEW effects \in EffectLists,
         NEW failed \in BOOLEAN,
         NEW cause \in {"none", "fail", "repeat", "malformed"},
         finish(m, received, slots, phase, entering, effects, failed, cause),
         received => /\ machine.admission_pending
                     /\ req # << >> /\ req' = Tail(req),
         ~received => req' = req,
         Len(slots) + (IF machine.admission_pending /\ ~received
                       THEN 1 ELSE 0) <= MailboxCapacity,
         UNCHANGED <<link, admitted, sent>>
  PROVE  IndInv'
<1> DEFINE pending == machine.admission_pending /\ ~received
           reserve == reserves(received, pending, slots, failed)
           n == Len(slots)
<1>1. /\ machine' = [m EXCEPT
           !.phase = phase, !.slots = slots, !.enter_pending = entering,
           !.effects = effects, !.admission_pending = pending \/ reserve,
           !.failed = failed,
           !.entered = IF entering THEN @ + 1 ELSE @,
           !.cause = cause]
      /\ credits' = IF reserve THEN credits + 1 ELSE credits
  BY DEF finish, grant
<1>2. n \in Nat /\ MailboxCapacity \in Nat
  BY MachineAssumption
<1>3. reserve => ~received /\ ~machine.admission_pending /\ n < MailboxCapacity
  BY DEF reserves
<1>4. /\ credits \in Nat /\ req \in Seq(Nat)
      /\ machine \in Registers
  BY DEF IndInv, TypeOK
<1> HIDE DEF reserve
<1>5. /\ machine' \in Registers
      /\ machine'.slots = slots
      /\ machine'.admission_pending <=> pending \/ reserve
  <2>1. (IF entering THEN m.entered + 1 ELSE m.entered) \in Nat
    BY DEF Registers
  <2>2. (pending \/ reserve) \in BOOLEAN
    OBVIOUS
  <2> HIDE DEF pending
  <2>3. QED
    BY ZenonT(60), <1>1, <2>1, <2>2 DEF Registers
<1>6. credits' \in Nat /\ req' \in Seq(Nat)
  <2>1. credits' \in Nat
    BY <1>1, <1>4
  <2>2. received => Tail(req) \in Seq(Nat)
    BY <1>4
  <2>3. QED
    BY <1>4, <2>1, <2>2
<1>7. TypeOK'
  BY <1>5, <1>6 DEF IndInv, TypeOK
<1>8. received => credits = 0 /\ ~admitted /\ Len(req') = 0
  <2> SUFFICES ASSUME received
               PROVE  credits = 0 /\ ~admitted /\ Len(req') = 0
    OBVIOUS
  <2>1. req # << >> /\ req' = Tail(req) /\ machine.admission_pending
    OBVIOUS
  <2>2. Len(req) # 0
    BY <1>4, <2>1
  <2>3. credits = 0 /\ ~admitted /\ Len(req) = 1
    BY <2>1, <2>2, TokensInOnePlace
  <2>4. QED
    BY <1>4, <2>1, <2>3
<1>9. CreditConserved'
  <2>1. CASE received
    <3>1. ~reserve /\ ~machine'.admission_pending /\ credits' = 0
      BY <1>1, <1>3, <1>5, <1>8, <2>1
    <3>2. n <= MailboxCapacity
      BY <2>1, <1>2
    <3>3. QED
      BY <1>2, <1>5, <1>7, <1>8, <2>1, <3>1, <3>2, TokenIsConserved
  <2>2. CASE ~received /\ machine.admission_pending
    <3>1. ~reserve /\ machine'.admission_pending /\ credits' = credits
      BY <1>1, <1>3, <1>5, <2>2
    <3>2. n + 1 <= MailboxCapacity
      BY <2>2, <1>2
    <3>3. \/ credits = 1 /\ ~admitted' /\ Len(req') = 0
          \/ credits = 0 /\ admitted' /\ Len(req') = 0
          \/ credits = 0 /\ ~admitted' /\ Len(req') = 1
      BY <2>2, TokensInOnePlace
    <3>4. QED
      BY <1>2, <1>4, <1>5, <1>7, <3>1, <3>2, <3>3, TokenIsConserved
  <2>3. CASE ~received /\ ~machine.admission_pending /\ reserve
    <3>1. machine'.admission_pending /\ credits' = 1
          /\ ~admitted' /\ Len(req') = 0
      BY <1>1, <1>5, <2>3, TokensInOnePlace
    <3>2. n + 1 <= MailboxCapacity
      BY <1>2, <1>3, <2>3
    <3>3. QED
      BY <1>2, <1>5, <1>7, <3>1, <3>2, TokenIsConserved
  <2>4. CASE ~received /\ ~machine.admission_pending /\ ~reserve
    <3>1. ~machine'.admission_pending /\ credits' = 0
          /\ ~admitted' /\ Len(req') = 0
      BY <1>1, <1>5, <2>4, TokensInOnePlace
    <3>2. n <= MailboxCapacity
      BY <1>2, <2>4
    <3>3. QED
      BY <1>2, <1>5, <1>7, <3>1, <3>2, TokenIsConserved
  <2>5. QED
    BY <2>1, <2>2, <2>3, <2>4
<1>10. QED
  BY <1>7, <1>9 DEF IndInv

(* A dispatch, with or without a frame received in the same activation.    *)
LEMMA DispatchInv ==
  ASSUME IndInv, NEW m \in Registers, NEW received \in BOOLEAN,
         dispatch(m, received),
         received => /\ machine.admission_pending
                     /\ req # << >> /\ req' = Tail(req),
         ~received => req' = req,
         Len(m.slots) + (IF machine.admission_pending /\ ~received
                         THEN 1 ELSE 0) <= MailboxCapacity,
         UNCHANGED <<link, admitted, sent>>
  PROVE  IndInv'
<1> DEFINE tried_slots(k) == [m.slots EXCEPT ![k].tried = TRUE]
           token == IF machine.admission_pending /\ ~received THEN 1 ELSE 0
<1>1. m.slots \in Seq(Slots) /\ m.phase \in Phases
  BY DEF Registers
<1>2. token \in Nat /\ MailboxCapacity \in Nat /\ Len(m.slots) \in Nat
  BY <1>1, MachineAssumption
<1>3. << >> \in EffectLists
  <2>1. << >> \in [1 .. 0 -> BOOLEAN]
    OBVIOUS
  <2>2. 0 \in 0 .. MaxEffects
    BY MachineAssumption
  <2>3. QED
    BY <2>1, <2>2 DEF EffectLists
<1>4. ASSUME NEW k \in DOMAIN m.slots
      PROVE  /\ tried_slots(k) \in Seq(Slots)
             /\ Len(tried_slots(k)) = Len(m.slots)
             /\ DOMAIN tried_slots(k) = DOMAIN m.slots
  <2>1. m.slots[k] \in Slots
    BY <1>1
  <2>2. [m.slots[k] EXCEPT !.tried = TRUE] \in Slots
    BY <2>1 DEF Slots
  <2>3. QED
    BY <1>1, <2>2
<1>5. PICK k \in DOMAIN m.slots, c \in Conclusions :
        IF invalid_repeat(c)
        THEN finish(m, received, tried_slots(k), m.phase, FALSE, << >>, TRUE,
                    "repeat")
        ELSE LET failed == c.directive = "fail"
                 slots == transition_slots(tried_slots(k), k, c)
             IN  IF boundary(c)
                 THEN \E effects \in IF failed THEN {<< >>} ELSE EffectLists :
                        finish(m, received, unblocked(slots), c.phase, ~failed,
                               effects, failed,
                               IF failed THEN "fail" ELSE "none")
                 ELSE finish(m, received, slots, c.phase, FALSE, << >>,
                             failed, IF failed THEN "fail" ELSE "none")
  BY DEF dispatch
<1> DEFINE failed == c.directive = "fail"
           slots == transition_slots(tried_slots(k), k, c)
           cause == IF failed THEN "fail" ELSE "none"
<1>6. /\ slots \in Seq(Slots) /\ unblocked(slots) \in Seq(Slots)
      /\ Len(slots) \in Nat /\ Len(slots) <= Len(m.slots)
      /\ Len(unblocked(slots)) = Len(slots)
  <2>1. tried_slots(k) \in Seq(Slots) /\ k \in DOMAIN tried_slots(k)
        /\ Len(tried_slots(k)) = Len(m.slots)
    BY <1>4
  <2> HIDE DEF tried_slots
  <2>2. QED
    BY <2>1, TransitionShrinks
<1>7. Len(slots) + token <= MailboxCapacity
  <2> DEFINE n == Len(slots)
             l == Len(m.slots)
  <2>1. n \in Nat /\ l \in Nat /\ n <= l /\ l + token <= MailboxCapacity
    BY <1>2, <1>6
  <2> HIDE DEF n, l, token
  <2>2. n + token <= MailboxCapacity
    BY <1>2, <2>1
  <2>3. QED
    BY <2>2 DEF n
<1>8. c.phase \in Phases /\ failed \in BOOLEAN
      /\ cause \in {"none", "fail", "repeat", "malformed"}
  BY DEF Conclusions
<1>9. CASE invalid_repeat(c)
  <2>1. finish(m, received, tried_slots(k), m.phase, FALSE, << >>, TRUE,
               "repeat")
    BY <1>5, <1>9
  <2>2. tried_slots(k) \in Seq(Slots)
        /\ Len(tried_slots(k)) + token <= MailboxCapacity
    BY <1>4
  <2> HIDE DEF tried_slots
  <2>3. QED
    BY <1>1, <1>3, <2>1, <2>2, FinishInv
<1>10. CASE ~invalid_repeat(c) /\ boundary(c)
  <2>1. PICK effects \in IF failed THEN {<< >>} ELSE EffectLists :
          finish(m, received, unblocked(slots), c.phase, ~failed, effects,
                 failed, cause)
    BY <1>5, <1>10
  <2> DEFINE entering == ~failed
             after == unblocked(slots)
             phase == c.phase
  <2>2. /\ finish(m, received, after, phase, entering, effects, failed, cause)
        /\ entering \in BOOLEAN /\ phase \in Phases
        /\ after \in Seq(Slots) /\ Len(after) + token <= MailboxCapacity
    BY <1>6, <1>7, <1>8, <2>1
  <2> HIDE DEF failed, cause, entering, after, phase
  <2>3. effects \in EffectLists
    BY <1>3
  <2>4. QED
    BY <1>8, <2>2, <2>3, FinishInv
<1>11. CASE ~invalid_repeat(c) /\ ~boundary(c)
  <2>1. finish(m, received, slots, c.phase, FALSE, << >>, failed, cause)
    BY <1>5, <1>11
  <2> DEFINE entering == FALSE
             effects == << >>
  <2>2. finish(m, received, slots, c.phase, entering, effects, failed, cause)
        /\ entering \in BOOLEAN /\ effects \in EffectLists
    BY <1>3, <2>1
  <2>3. slots \in Seq(Slots) /\ Len(slots) + token <= MailboxCapacity
    BY <1>6, <1>7
  <2> HIDE DEF slots, failed, cause, entering, effects
  <2>4. QED
    BY <1>8, <2>2, <2>3, FinishInv
<1>12. QED
  BY <1>9, <1>10, <1>11

(* An activation that dispatches nothing.                                  *)
LEMMA NoDispatchInv ==
  ASSUME IndInv, NEW m \in Registers, NEW received \in BOOLEAN,
         NEW failed \in BOOLEAN,
         NEW cause \in {"none", "fail", "repeat", "malformed"},
         no_dispatch(m, received, failed, cause),
         received => /\ machine.admission_pending
                     /\ req # << >> /\ req' = Tail(req),
         ~received => req' = req,
         Len(m.slots) + (IF machine.admission_pending /\ ~received
                         THEN 1 ELSE 0) <= MailboxCapacity,
         UNCHANGED <<link, admitted, sent>>
  PROVE  IndInv'
<1> DEFINE slots == m.slots
           phase == m.phase
           entering == FALSE
           effects == << >>
<1>1. << >> \in EffectLists
  <2>1. << >> \in [1 .. 0 -> BOOLEAN] /\ 0 \in 0 .. MaxEffects
    BY MachineAssumption
  <2>2. QED
    BY <2>1 DEF EffectLists
<1>2. finish(m, received, slots, phase, entering, effects, failed, cause)
  BY DEF no_dispatch
<1>3. /\ slots \in Seq(Slots) /\ phase \in Phases
      /\ entering \in BOOLEAN /\ effects \in EffectLists
  BY <1>1 DEF Registers
<1>4. Len(slots) + (IF machine.admission_pending /\ ~received
                    THEN 1 ELSE 0) <= MailboxCapacity
  OBVIOUS
<1> HIDE DEF slots, phase, entering, effects
<1>5. QED
  BY <1>2, <1>3, <1>4, FinishInv

(* An entry grants a token with its last effect, when there is none.       *)
LEMMA EntryInv ==
  ASSUME IndInv, entry_step
  PROVE  IndInv'
<1> DEFINE count == Len(machine.effects)
           has_effect == machine.entry_effect_index < count
           next_index == IF has_effect THEN machine.entry_effect_index + 1
                         ELSE machine.entry_effect_index
           complete == next_index >= count
           reserve == /\ complete
                      /\ ~machine.admission_pending
                      /\ Len(machine.slots) < MailboxCapacity
           n == Len(machine.slots)
<1>1. /\ machine' = [machine EXCEPT
           !.enter_pending = ~complete,
           !.entry_effect_index = IF complete THEN 0 ELSE next_index,
           !.admission_pending = @ \/ reserve]
      /\ credits' = IF reserve THEN credits + 1 ELSE credits
      /\ UNCHANGED <<link, admitted, req, sent, handled>>
  BY DEF entry_step, grant
<1>2. /\ machine \in Registers /\ credits \in Nat
      /\ n \in Nat /\ MailboxCapacity \in Nat
  BY TokensInOnePlace, MachineAssumption DEF IndInv, TypeOK
<1>3. reserve => ~machine.admission_pending /\ n < MailboxCapacity
  OBVIOUS
<1>4. /\ machine' \in Registers
      /\ machine'.slots = machine.slots
      /\ machine'.admission_pending <=> machine.admission_pending \/ reserve
  <2>1. next_index \in Nat
    BY <1>2 DEF Registers
  <2> HIDE DEF next_index, complete
  <2>2. (~complete) \in BOOLEAN
        /\ (machine.admission_pending \/ reserve) \in BOOLEAN
        /\ (IF complete THEN 0 ELSE next_index) \in Nat
    BY <2>1 DEF complete
  <2> HIDE DEF reserve
  <2>3. QED
    BY <1>1, <1>2, <2>2 DEF Registers
<1> HIDE DEF reserve
<1>5. TypeOK'
  BY <1>1, <1>2, <1>4 DEF IndInv, TypeOK
<1>6. CreditConserved'
  <2>1. CASE machine.admission_pending
    <3>1. ~reserve /\ machine'.admission_pending /\ credits' = credits
      BY <1>1, <1>3, <1>4, <2>1
    <3>2. n + 1 <= MailboxCapacity
      BY <2>1, TokensInOnePlace
    <3>3. \/ credits = 1 /\ ~admitted' /\ Len(req') = 0
          \/ credits = 0 /\ admitted' /\ Len(req') = 0
          \/ credits = 0 /\ ~admitted' /\ Len(req') = 1
      BY <1>1, <2>1, TokensInOnePlace
    <3>4. QED
      BY <1>2, <1>4, <1>5, <3>1, <3>2, <3>3, TokenIsConserved
  <2>2. CASE ~machine.admission_pending /\ reserve
    <3>1. machine'.admission_pending /\ credits' = 1
          /\ ~admitted' /\ Len(req') = 0
      BY <1>1, <1>4, <2>2, TokensInOnePlace
    <3>2. n + 1 <= MailboxCapacity
      BY <1>2, <1>3, <2>2
    <3>3. QED
      BY <1>2, <1>4, <1>5, <3>1, <3>2, TokenIsConserved
  <2>3. CASE ~machine.admission_pending /\ ~reserve
    <3>1. ~machine'.admission_pending /\ credits' = 0
          /\ ~admitted' /\ Len(req') = 0
      BY <1>1, <1>4, <2>3, TokensInOnePlace
    <3>2. n <= MailboxCapacity
      BY <2>3, TokensInOnePlace
    <3>3. QED
      BY <1>2, <1>4, <1>5, <3>1, <3>2, TokenIsConserved
  <2>4. QED
    BY <2>1, <2>2, <2>3
<1>7. QED
  BY <1>5, <1>6 DEF IndInv

(* A received frame uses its token up, and the slot that was promised.     *)
LEMMA ReceiveInv ==
  ASSUME IndInv, receive_step
  PROVE  IndInv'
<1> DEFINE slot == [message |-> Head(req), postponed |-> FALSE,
                    tried |-> FALSE]
           n == Len(machine.slots)
<1>1. /\ machine.admission_pending /\ req # << >> /\ req' = Tail(req)
      /\ UNCHANGED <<link, admitted, sent, outputs>>
  BY DEF receive_step
<1>2. machine \in Registers /\ Head(req) \in Nat
      /\ machine.slots \in Seq(Slots)
  BY <1>1 DEF IndInv, TypeOK, Registers
<1>3. n \in Nat /\ n + 1 <= MailboxCapacity /\ MailboxCapacity \in Nat
  BY <1>1, TokensInOnePlace, MachineAssumption
<1>4. slot \in Slots
  BY <1>2 DEF Slots
<1>5. CASE Head(req) \in Malformed
  <2> DEFINE m == [machine EXCEPT !.rejected = <<Head(req)>>]
             received == TRUE
             cause == "malformed"
  <2>1. no_dispatch(m, received, received, cause)
    BY <1>5 DEF receive_step
  <2>2. m \in Registers /\ m.slots = machine.slots
    <3>1. <<Head(req)>> \in Seq(Nat)
      BY <1>2
    <3>2. QED
      BY <1>2, <3>1 DEF Registers
  <2>3. /\ received \in BOOLEAN /\ received
        /\ cause \in {"none", "fail", "repeat", "malformed"}
    OBVIOUS
  <2>4. Len(m.slots) + (IF machine.admission_pending /\ ~received
                        THEN 1 ELSE 0) <= MailboxCapacity
    BY <1>3, <2>2
  <2> HIDE DEF m, received, cause
  <2>5. QED
    BY <1>1, <2>1, <2>2, <2>3, <2>4, NoDispatchInv
<1>6. CASE Head(req) \notin Malformed
  <2> DEFINE m == [machine EXCEPT !.slots = Append(@, slot)]
             received == TRUE
  <2>1. dispatch(m, received)
    BY <1>6 DEF receive_step
  <2>2. Append(machine.slots, slot) \in Seq(Slots)
        /\ Len(Append(machine.slots, slot)) = n + 1
    BY <1>2, <1>4
  <2> HIDE DEF slot
  <2>3. m \in Registers /\ m.slots = Append(machine.slots, slot)
    BY <1>2, <2>2 DEF Registers
  <2>4. Len(m.slots) + (IF machine.admission_pending /\ ~received
                        THEN 1 ELSE 0) <= MailboxCapacity
    BY <1>3, <2>2, <2>3
  <2>5. received \in BOOLEAN /\ received
    OBVIOUS
  <2> HIDE DEF m, received
  <2>6. QED
    BY <1>1, <2>1, <2>3, <2>4, <2>5, DispatchInv
<1>7. QED
  BY <1>5, <1>6

(* An activation without a frame leaves the token where it is.             *)
LEMMA IdleInv ==
  ASSUME IndInv, idle_step
  PROVE  IndInv'
<1> DEFINE m == machine
           received == FALSE
           failed == FALSE
           cause == "none"
<1>1. req' = req /\ UNCHANGED <<link, admitted, sent>>
  BY DEF idle_step
<1>2. m \in Registers
  BY DEF IndInv, TypeOK
<1>3. Len(m.slots) + (IF machine.admission_pending /\ ~received
                      THEN 1 ELSE 0) <= MailboxCapacity
  <2> DEFINE n == Len(m.slots)
  <2>1. /\ n \in Nat
        /\ machine.admission_pending => n + 1 <= MailboxCapacity
        /\ ~machine.admission_pending => n <= MailboxCapacity
    BY TokensInOnePlace
  <2> HIDE DEF n
  <2>2. n + (IF machine.admission_pending THEN 1 ELSE 0) <= MailboxCapacity
    BY <2>1, MachineAssumption
  <2>3. QED
    BY <2>2 DEF n
<1>4. /\ received \in BOOLEAN /\ ~received /\ failed \in BOOLEAN
      /\ cause \in {"none", "fail", "repeat", "malformed"}
  OBVIOUS
<1>5. dispatch(m, received) \/ no_dispatch(m, received, failed, cause)
  BY DEF idle_step
<1> HIDE DEF m, received, failed, cause
<1>6. CASE dispatch(m, received)
  BY <1>1, <1>2, <1>3, <1>4, <1>6, DispatchInv
<1>7. CASE no_dispatch(m, received, failed, cause)
  BY <1>1, <1>2, <1>3, <1>4, <1>7, NoDispatchInv
<1>8. QED
  BY <1>5, <1>6, <1>7

(* ReservedFrame moves the token on, and a frame with it.                  *)
LEMMA LinkInv ==
  ASSUME IndInv, send \/ take_credit \/ forward
  PROVE  IndInv'
<1> DEFINE n == Len(machine.slots)
           p == machine.admission_pending
<1>1. /\ UNCHANGED machine
      /\ credits \in Nat /\ n \in Nat
  BY TokensInOnePlace DEF IndInv, TypeOK, send, take_credit, forward
<1>2. /\ ~p => n <= MailboxCapacity
      /\ p => n + 1 <= MailboxCapacity
  BY TokensInOnePlace
<1>3. CASE send
  <2>1. TypeOK'
    <3>1. sent + 1 \in Nat /\ Append(link, sent + 1) \in Seq(Nat)
      BY DEF IndInv, TypeOK
    <3>2. QED
      BY <1>3, <3>1 DEF IndInv, TypeOK, send
  <2>2. CreditConserved'
    BY <1>3 DEF IndInv, CreditConserved, granted, send
  <2>3. QED
    BY <2>1, <2>2 DEF IndInv
<1>4. CASE take_credit
  <2>1. ~admitted /\ credits > 0 /\ credits' = credits - 1 /\ admitted'
        /\ UNCHANGED <<machine, link, req, sent>>
    BY <1>4 DEF take_credit
  <2>2. p /\ credits = 1 /\ Len(req) = 0 /\ credits' = 0
    BY <1>1, <2>1, TokensInOnePlace
  <2>3. TypeOK'
    BY <1>4, <2>2 DEF IndInv, TypeOK, take_credit
  <2>4. n + 1 <= MailboxCapacity
    BY <1>2, <2>2
  <2> HIDE DEF n
  <2>5. CreditConserved'
    <3>1. n = Len(machine'.slots) /\ (p <=> machine'.admission_pending)
      BY <2>1 DEF n
    <3>2. QED
      BY <1>1, <2>1, <2>2, <2>3, <2>4, <3>1, TokenIsConserved
  <2>6. QED
    BY <2>3, <2>5 DEF IndInv
<1>5. CASE forward
  <2>1. admitted /\ link # << >> /\ req' = Append(req, Head(link))
        /\ link' = Tail(link) /\ ~admitted'
        /\ UNCHANGED <<machine, credits, sent>>
    BY <1>5 DEF forward
  <2>2. p /\ credits = 0 /\ Len(req) = 0 /\ credits' = 0
    BY <1>1, <2>1, TokensInOnePlace
  <2>3. link \in Seq(Nat) /\ req \in Seq(Nat)
    BY DEF IndInv, TypeOK
  <2>4. Head(link) \in Nat /\ Tail(link) \in Seq(Nat)
    BY <2>1, <2>3
  <2>5. req' \in Seq(Nat) /\ Len(req') = 1
    BY <2>1, <2>2, <2>3, <2>4
  <2>6. TypeOK'
    BY <1>5, <2>4, <2>5 DEF IndInv, TypeOK, forward
  <2>7. n + 1 <= MailboxCapacity
    BY <1>2, <2>2
  <2> HIDE DEF n
  <2>8. CreditConserved'
    <3>1. n = Len(machine'.slots) /\ (p <=> machine'.admission_pending)
      BY <2>1 DEF n
    <3>2. QED
      BY <1>1, <2>1, <2>2, <2>5, <2>6, <2>7, <3>1, TokenIsConserved
  <2>9. QED
    BY <2>6, <2>8 DEF IndInv
<1>6. QED
  BY <1>3, <1>4, <1>5
-----------------------------------------------------------------------------
(* The registers and channels keep their types, and the token is in one    *)
(* place, in every reachable state.                                        *)
THEOREM Inductive == Spec => []IndInv
<1>1. IndInv /\ [Next]_vars => IndInv'
  <2> SUFFICES ASSUME IndInv, [Next]_vars PROVE IndInv'
    OBVIOUS
  <2>1. CASE send \/ take_credit \/ forward
    BY <2>1, LinkInv
  <2>2. CASE entry_step
    BY <2>2, EntryInv
  <2>3. CASE receive_step
    BY <2>3, ReceiveInv
  <2>4. CASE idle_step
    BY <2>4, IdleInv
  <2>5. CASE UNCHANGED vars
    BY <2>5 DEF vars, IndInv, TypeOK, CreditConserved, granted
  <2>6. QED
    BY <2>1, <2>2, <2>3, <2>4, <2>5 DEF Next, Activation
<1>2. QED
  BY InitInv, <1>1, PTL DEF Spec

(* Occupied slots and the slot promised to a frame underway never exceed   *)
(* the capacity, however large it is and whatever the callback concludes.  *)
THEOREM CreditIsConserved == Spec => []CreditConserved
<1>1. IndInv => CreditConserved
  BY DEF IndInv
<1>2. QED
  BY Inductive, <1>1, PTL

-----------------------------------------------------------------------------
(* EffectWindow.                                                           *)

RouterState ==
  [active : BOOLEAN, scheduled : Batches \cup {no_batch}, index : Nat,
   window_requested : BOOLEAN, window_granted : BOOLEAN,
   credit_debt : BOOLEAN, lookahead : BOOLEAN]

ArbiterState ==
  [owner_valid : BOOLEAN, owner : Contenders, cursor : Contenders,
   pending : SUBSET Contenders]

(* Types of the channels and registers.                                    *)
WindowTypeOK ==
  /\ egress \in [Contenders -> Seq(Batches)]
  /\ egress_busy \in [Contenders -> BOOLEAN]
  /\ egress_credits \in [Contenders -> Nat]
  /\ router \in [Contenders -> RouterState]
  /\ window_request \in [Contenders -> Nat]
  /\ window_grant \in [Contenders -> Nat]
  /\ window_release \in [Contenders -> Nat]
  /\ arbiter \in ArbiterState

(* A router holds the window for one of two reasons, and for an active     *)
(* batch: it has returned that batch's credit early, or the batch is the   *)
(* one that came behind such a one.                                        *)
HeldForOneReason ==
  \A c \in Contenders :
    /\ router[c].window_granted <=> router[c].credit_debt \/ router[c].lookahead
    /\ ~(router[c].credit_debt /\ router[c].lookahead)
    /\ router[c].window_granted => router[c].active

WindowIndInv == WindowTypeOK /\ HeldForOneReason /\ TokensAreConserved
-----------------------------------------------------------------------------
(* A non-empty set of candidates has one that is next in turn.             *)
LEMMA SelectsCandidate ==
  ASSUME NEW count \in Nat \ {0}, NEW cursor \in 0 .. count - 1,
         NEW candidates, candidates \subseteq 0 .. count - 1,
         select(candidates, cursor, count) # << >>
  PROVE  /\ Len(select(candidates, cursor, count)) = 1
         /\ Head(select(candidates, cursor, count)) \in candidates
<1> DEFINE distance(c) == (c + count - cursor) % count
           below(c) == 0 .. distance(c)
           order == StrictSubsetOrdering(Nat)
           T == {below(c) : c \in candidates}
           nearest == CHOOSE winner \in candidates :
                        \A c \in candidates : distance(winner) <= distance(c)
<1>1. candidates # {}
  BY DEF select
<1>2. \A c \in candidates : distance(c) \in Nat
  OBVIOUS
<1> HIDE DEF distance
<1>3. T \subseteq FiniteSubsetsOf(Nat) /\ T # {}
  <2>1. \A c \in candidates : below(c) \in SUBSET Nat /\ IsFiniteSet(below(c))
    BY <1>2, FS_Interval
  <2>2. QED
    BY <1>1, <2>1 DEF FiniteSubsetsOf
<1>4. PICK least \in T : \A t \in T : ~(<<t, least>> \in order)
  <2>1. IsWellFoundedOn(order, FiniteSubsetsOf(Nat))
    BY FS_StrictSubsetOrderingWellFounded
  <2> HIDE DEF order, T
  <2>2. QED
    BY <1>3, <2>1, WFMin
<1>5. PICK next \in candidates : least = below(next)
  OBVIOUS
<1>6. \A c \in candidates : distance(next) <= distance(c)
  <2> SUFFICES ASSUME NEW c \in candidates, distance(c) < distance(next)
               PROVE  FALSE
    BY <1>2
  <2>1. below(c) \subseteq below(next) /\ below(c) # below(next)
    BY <1>2
  <2>2. below(c) \in SUBSET Nat /\ below(next) \in SUBSET Nat
    BY <1>2
  <2>3. <<below(c), below(next)>> \in order
    BY <2>1, <2>2 DEF StrictSubsetOrdering
  <2>4. QED
    BY <1>4, <1>5, <2>3
<1>7. nearest \in candidates
  BY <1>6
<1>8. select(candidates, cursor, count) = <<nearest>>
  BY <1>1 DEF select, distance
<1> HIDE DEF nearest
<1>9. QED
  BY <1>7, <1>8
-----------------------------------------------------------------------------
(* The invariant holds at the start.                                       *)
LEMMA WindowInitInv == WindowInit => WindowIndInv
<1> SUFFICES ASSUME WindowInit PROVE WindowIndInv
  OBVIOUS
<1> USE EffectWindowAssumption DEF WindowInit
<1>1. 0 \in Contenders
  BY DEF Contenders
<1>2. idle(FALSE) \in RouterState
  BY DEF idle, RouterState
<1>3. WindowTypeOK
  BY <1>1, <1>2 DEF WindowTypeOK, ArbiterState, none_yet
<1>4. HeldForOneReason
  BY DEF HeldForOneReason, idle
<1>5. TokensAreConserved
  BY DEF TokensAreConserved, WindowHasOneOwner, CreditsMatchBatches, window,
         idle, none_yet
<1>6. QED
  BY <1>3, <1>4, <1>5 DEF WindowIndInv
-----------------------------------------------------------------------------
(* A step of a scheduler takes the one credit that it waits for, or sends  *)
(* a batch when it waits for none.                                         *)
LEMMA ScheduleInv ==
  ASSUME WindowIndInv, NEW c \in Contenders, schedule(c)
  PROVE  WindowIndInv'
<1> USE DEF WindowIndInv
<1>1. PICK batches \in Seq(Batches) :
        /\ sends(c, batches)
        /\ \/ batches = << >> /\ credit_found(c)
           \/ Len(batches) = 1 /\ ~credit_busy(c)
  <2>1. CASE credit_found(c) /\ sends(c, << >>)
    <3>1. << >> \in Seq(Batches)
      OBVIOUS
    <3>2. QED
      BY <2>1, <3>1
  <2>2. ASSUME NEW b \in Batches, ~credit_busy(c), sends(c, <<b>>)
        PROVE  \E batches \in Seq(Batches) :
                 sends(c, batches) /\ Len(batches) = 1 /\ ~credit_busy(c)
    <3>1. <<b>> \in Seq(Batches) /\ Len(<<b>>) = 1
      BY <2>2
    <3>2. QED
      BY <2>2, <3>1
  <2>3. QED
    BY <2>1, <2>2 DEF schedule
<1>2. UNCHANGED <<router, channels, arbiter>>
  BY DEF schedule
<1>3. /\ egress_credits' = [egress_credits EXCEPT
           ![c] = egress_credits[c] - (IF egress_credits[c] > 0 THEN 1 ELSE 0) + 0]
      /\ egress' = [egress EXCEPT ![c] = egress[c] \o batches]
      /\ egress_busy' = [egress_busy EXCEPT ![c] =
           (egress_busy[c] /\ ~(egress_credits[c] > 0)) \/ batches # << >>]
  BY <1>1 DEF sends, changed, credit_found, credit_busy
<1>4. WindowTypeOK'
  <2>1. egress_credits' \in [Contenders -> Nat]
    BY <1>3 DEF WindowTypeOK
  <2>2. egress' \in [Contenders -> Seq(Batches)]
    BY <1>3 DEF WindowTypeOK
  <2>3. egress_busy' \in [Contenders -> BOOLEAN]
    BY <1>3 DEF WindowTypeOK
  <2>4. QED
    BY <1>2, <2>1, <2>2, <2>3 DEF WindowTypeOK, channels
<1>5. HeldForOneReason'
  BY <1>2 DEF HeldForOneReason
<1>6. WindowHasOneOwner'
  BY <1>2 DEF TokensAreConserved, WindowHasOneOwner, window, channels
<1>7. CreditsMatchBatches'
  <2> DEFINE one(b) == IF b THEN 1 ELSE 0
  <2> SUFFICES ASSUME NEW d \in Contenders
               PROVE  Len(egress'[d]) + one(router[d].active) + egress_credits'[d]
                        = one(egress_busy'[d]) + one(router[d].credit_debt)
    BY <1>2 DEF CreditsMatchBatches
  <2>1. Len(egress[d]) + one(router[d].active) + egress_credits[d]
          = one(egress_busy[d]) + one(router[d].credit_debt)
    BY DEF TokensAreConserved, CreditsMatchBatches
  <2>2. CASE d # c
    BY <2>1, <2>2, <1>3 DEF WindowTypeOK
  <2>3. CASE d = c
    <3> DEFINE active == one(router[c].active)
               debt == one(router[c].credit_debt)
               busy == one(egress_busy[c])
               busy_next == one(egress_busy'[c])
    <3>1. egress[c] \in Seq(Batches) /\ egress_credits[c] \in Nat
      BY DEF WindowTypeOK
    <3>2. Len(egress[c]) \in Nat
      BY <3>1
    <3>3. Len(egress'[c]) = Len(egress[c]) + Len(batches)
      BY <1>3, <3>1 DEF WindowTypeOK
    <3>4. egress_credits'[c] =
            IF egress_credits[c] > 0 THEN egress_credits[c] - 1 ELSE egress_credits[c]
      BY <1>3, <3>1 DEF WindowTypeOK
    <3>5. /\ active \in {0, 1} /\ debt \in {0, 1} /\ debt <= active
          /\ busy \in {0, 1}
      BY DEF HeldForOneReason
    <3>6. \/ Len(batches) = 0 /\ egress_credits[c] > 0 /\ busy_next = 0
          \/ Len(batches) = 1 /\ egress_credits[c] > 0 /\ busy_next = 1
          \/ Len(batches) = 1 /\ busy = 0 /\ busy_next = 1
      <4>1. egress_busy'[c] <=>
              (egress_busy[c] /\ ~(egress_credits[c] > 0)) \/ batches # << >>
        BY <1>3 DEF WindowTypeOK
      <4>2. \/ batches = << >> /\ egress_credits[c] > 0
            \/ /\ batches # << >> /\ Len(batches) = 1
               /\ ~egress_busy[c] \/ egress_credits[c] > 0
        BY <1>1 DEF credit_found, credit_busy
      <4>3. CASE batches = << >> /\ egress_credits[c] > 0
        BY <4>1, <4>3
      <4>4. CASE /\ batches # << >> /\ Len(batches) = 1
                 /\ ~egress_busy[c] \/ egress_credits[c] > 0
        BY <4>1, <4>4
      <4>5. QED
        BY <4>2, <4>3, <4>4
    <3>7. Len(egress[c]) + active + egress_credits[c] = busy + debt
      BY <2>1, <2>3
    <3>8. SUFFICES Len(egress'[c]) + active + egress_credits'[c] = busy_next + debt
      BY <2>3
    <3> HIDE DEF active, debt, busy, busy_next
    <3>9. CASE egress_credits[c] > 0
      <4>1. egress_credits[c] = 1 /\ Len(egress[c]) = 0 /\ active = debt
        BY <3>1, <3>2, <3>5, <3>7, <3>9
      <4>2. egress_credits'[c] = 0
        BY <3>4, <4>1
      <4>3. busy = 1
        BY <3>5, <3>7, <4>1
      <4>4. Len(batches) = busy_next
        BY <3>6, <4>3
      <4>5. Len(egress'[c]) = busy_next
        BY <3>3, <3>6, <4>1, <4>4
      <4>6. QED
        BY <3>5, <4>1, <4>2, <4>5, <3>6
    <3>10. CASE egress_credits[c] = 0
      <4>1. egress_credits'[c] = 0
        BY <3>4, <3>10
      <4>2. Len(batches) = 1 /\ busy = 0 /\ busy_next = 1
        BY <3>6, <3>10
      <4>3. Len(egress'[c]) = Len(egress[c]) + 1
        BY <3>3, <4>2
      <4>4. Len(egress[c]) + active = debt
        BY <3>2, <3>5, <3>7, <3>10, <4>2
      <4>5. QED
        BY <3>2, <3>5, <4>1, <4>2, <4>3, <4>4
    <3>11. QED
      BY <3>1, <3>9, <3>10
  <2>4. QED
    BY <2>2, <2>3
<1>8. QED
  BY <1>4, <1>5, <1>6, <1>7 DEF TokensAreConserved
-----------------------------------------------------------------------------
(* The arbiter grants the window only when it has been given back.         *)
LEMMA ArbitrateInv ==
  ASSUME WindowIndInv, arbitrate
  PROVE  WindowIndInv'
<1> USE EffectWindowAssumption
<1> DEFINE owner == arbiter.owner
           granting ==
             IF retained_owner THEN << >>
             ELSE select(captured_pending, arbiter.cursor, CONTENDER_COUNT)
           flag(c) == IF router[c].window_granted THEN 1 ELSE 0
           back == IF released THEN 1 ELSE 0
<1>1. WindowTypeOK /\ HeldForOneReason /\ WindowHasOneOwner /\ CreditsMatchBatches
  BY DEF WindowIndInv, TokensAreConserved
<1>2. /\ arbiter.owner_valid \in BOOLEAN
      /\ owner \in Contenders
      /\ arbiter.cursor \in 0 .. CONTENDER_COUNT - 1
      /\ arbiter.pending \subseteq Contenders
  BY <1>1 DEF WindowTypeOK, ArbiterState, Contenders
<1>3. UNCHANGED <<egress, egress_busy, egress_credits, router>>
  BY DEF arbitrate
<1>4. captured_pending \subseteq Contenders
  BY <1>2 DEF captured_pending
<1>5. ASSUME granting # << >>
      PROVE  /\ ~retained_owner
             /\ Head(granting) \in Contenders
             /\ Head(granting) \in captured_pending
  <2>1. ~retained_owner
    BY <1>5
  <2>2. granting =
          select(captured_pending, arbiter.cursor, CONTENDER_COUNT)
    BY <2>1
  <2>3. captured_pending \subseteq 0 .. CONTENDER_COUNT - 1
    BY <1>4 DEF Contenders
  <2> HIDE DEF granting
  <2>4. Head(granting) \in captured_pending
    BY <1>2, <1>5, <2>2, <2>3, SelectsCandidate
  <2>5. QED
    BY <1>4, <2>1, <2>4
<1>6. window_release' = [window_release EXCEPT ![owner] = @ - back + 0]
  BY DEF arbitrate, changed
<1>7. \/ /\ granting = << >>
         /\ arbiter' = [arbiter EXCEPT !.owner_valid = retained_owner,
                                       !.pending = captured_pending]
         /\ UNCHANGED window_grant
      \/ /\ granting # << >>
         /\ window_grant' = [window_grant EXCEPT ![Head(granting)] = @ - 0 + 1]
         /\ arbiter' = [owner_valid |-> TRUE, owner |-> Head(granting),
                        cursor |-> (Head(granting) + 1) % CONTENDER_COUNT,
                        pending |-> captured_pending \ {Head(granting)}]
  BY DEF arbitrate, changed
<1> HIDE DEF granting
<1>8. window_request' \in [Contenders -> Nat]
  BY <1>1 DEF arbitrate, received_requests, WindowTypeOK
<1>9. /\ window_release' \in [Contenders -> Nat]
      /\ \A d \in Contenders :
           window_release'[d] =
             IF d = owner /\ released THEN window_release[d] - 1
             ELSE window_release[d]
  BY <1>1, <1>2, <1>6 DEF WindowTypeOK, released
<1>10. /\ window_grant' \in [Contenders -> Nat]
       /\ \A d \in Contenders :
            window_grant'[d] =
              IF granting # << >> /\ d = Head(granting) THEN window_grant[d] + 1
              ELSE window_grant[d]
  <2>1. window_grant \in [Contenders -> Nat]
    BY <1>1 DEF WindowTypeOK
  <2>2. CASE granting = << >>
    BY <1>7, <2>1, <2>2
  <2>3. CASE granting # << >>
    <3> DEFINE winner == Head(granting)
    <3>1. winner \in Contenders
      BY <1>5, <2>3
    <3>2. window_grant' = [window_grant EXCEPT ![winner] = @ - 0 + 1]
      BY <1>7, <2>3
    <3> HIDE DEF winner
    <3>3. /\ window_grant' \in [Contenders -> Nat]
          /\ \A d \in Contenders :
               window_grant'[d] = IF d = winner THEN window_grant[d] + 1
                                  ELSE window_grant[d]
      BY <2>1, <3>1, <3>2
    <3>4. QED
      BY <2>3, <3>3 DEF winner
  <2>4. QED
    BY <2>2, <2>3
<1>11. /\ arbiter'.owner_valid <=> retained_owner \/ granting # << >>
       /\ arbiter'.owner = IF granting = << >> THEN owner ELSE Head(granting)
       /\ arbiter' \in ArbiterState
  <2>1. CASE granting = << >>
    BY <1>1, <1>2, <1>4, <1>7, <2>1 DEF WindowTypeOK, ArbiterState, retained_owner
  <2>2. CASE granting # << >>
    <3>1. (Head(granting) + 1) % CONTENDER_COUNT \in Contenders
      BY <1>5, <2>2 DEF Contenders
    <3>2. captured_pending \ {Head(granting)} \subseteq Contenders
      BY <1>4
    <3> DEFINE winner == Head(granting)
               pending == captured_pending \ {winner}
               cursor == (winner + 1) % CONTENDER_COUNT
    <3>3. arbiter' = [owner_valid |-> TRUE, owner |-> winner,
                      cursor |-> cursor, pending |-> pending]
      BY <1>7, <2>2
    <3>4. winner \in Contenders /\ cursor \in Contenders
          /\ pending \in SUBSET Contenders
      BY <1>5, <2>2, <3>1, <3>2
    <3> HIDE DEF winner, pending, cursor
    <3>5. /\ arbiter' \in ArbiterState
          /\ arbiter'.owner = winner
          /\ arbiter'.owner_valid
      BY <3>3, <3>4 DEF ArbiterState
    <3>6. QED
      BY <2>2, <3>5 DEF winner
  <2>3. QED
    BY <2>1, <2>2
<1>12. WindowTypeOK'
  BY <1>1, <1>3, <1>8, <1>9, <1>10, <1>11 DEF WindowTypeOK
<1>13. HeldForOneReason' /\ CreditsMatchBatches'
  BY <1>1, <1>3 DEF HeldForOneReason, CreditsMatchBatches
<1>14. WindowHasOneOwner'
  <2> SUFFICES
        ASSUME NEW d \in Contenders
        PROVE  window_grant'[d] + flag(d) + window_release'[d]
                 = IF arbiter'.owner_valid /\ arbiter'.owner = d THEN 1 ELSE 0
    BY <1>1, <1>3 DEF WindowHasOneOwner, window
  <2> DEFINE held == flag(d)
  <2>1. /\ window_grant[d] \in Nat
        /\ window_release[d] \in Nat
        /\ held \in {0, 1}
    BY <1>1 DEF WindowTypeOK
  <2>2. window_grant[d] + held + window_release[d]
          = IF arbiter.owner_valid /\ owner = d THEN 1 ELSE 0
    BY <1>1 DEF WindowHasOneOwner, window
  <2> HIDE DEF held
  <2>3. CASE retained_owner
    <3>1. granting = << >> /\ ~released
      BY <1>5, <2>3 DEF retained_owner
    <3>2. window_grant'[d] = window_grant[d]
          /\ window_release'[d] = window_release[d]
      BY <1>9, <1>10, <3>1
    <3>3. (arbiter'.owner_valid /\ arbiter'.owner = d)
            <=> (arbiter.owner_valid /\ owner = d)
      BY <1>11, <2>3, <3>1 DEF retained_owner
    <3>4. QED
      BY <2>2, <3>2, <3>3 DEF held
  <2>4. CASE ~retained_owner
    <3>1. window_grant[d] + held + window_release'[d] = 0
      <4>1. CASE released /\ owner = d
        <5>1. window_release[d] > 0 /\ arbiter.owner_valid
          BY <4>1 DEF released
        <5>2. window_grant[d] = 0 /\ held = 0 /\ window_release[d] = 1
          BY <2>1, <2>2, <4>1, <5>1
        <5>3. QED
          BY <1>9, <4>1, <5>2
      <4>2. CASE ~(released /\ owner = d)
        <5>1. ~(arbiter.owner_valid /\ owner = d)
          BY <2>4, <4>2 DEF retained_owner
        <5>2. window_release'[d] = window_release[d]
          BY <1>9, <4>2
        <5>3. QED
          BY <2>2, <5>1, <5>2
      <4>3. QED
        BY <4>1, <4>2
    <3>2. window_release'[d] \in Nat
      BY <1>9
    <3>3. window_grant[d] = 0 /\ held = 0 /\ window_release'[d] = 0
      BY <2>1, <3>1, <3>2
    <3>4. window_grant'[d]
            = IF granting # << >> /\ d = Head(granting) THEN 1 ELSE 0
      BY <1>10, <3>3
    <3>5. (arbiter'.owner_valid /\ arbiter'.owner = d)
            <=> (granting # << >> /\ d = Head(granting))
      BY <1>11, <2>4
    <3>6. QED
      BY <3>3, <3>4, <3>5 DEF held
  <2>5. QED
    BY <2>3, <2>4
<1>15. QED
  BY <1>12, <1>13, <1>14 DEF WindowIndInv, TokensAreConserved
-----------------------------------------------------------------------------
(* A router uses a grant for one batch, returns every batch's credit once, *)
(* and gives the window back once, whichever ends first.                   *)
LEMMA RouteInv ==
  ASSUME WindowIndInv, NEW c \in Contenders, route(c)
  PROVE  WindowIndInv'
<1> DEFINE s == router[c]
           n == router'[c]
           incoming == incoming_valid(c)
           accepted == grant_valid(c)
           batch_valid == s.active \/ incoming
           last == batch_valid /\ is_last(current(c), current_index(c))
           continues == batch_valid /\ ~last
           usable == grant_usable(c, continues)
           swallow == last /\ s.credit_debt /\ ~s.lookahead
           carry == swallow /\ incoming
           release == releases(c, last, usable)
           pending_request == s.window_requested /\ ~accepted
           window_granted == (s.window_granted \/ usable) /\ ~release
           credit_debt == (s.credit_debt \/ usable) /\ ~swallow
           lookahead == carry \/ (continues /\ s.lookahead)
           request == /\ carry \/ continues
                      /\ ~lookahead /\ ~window_granted /\ ~credit_debt
                      /\ ~pending_request
           credited == usable \/ (last /\ ~swallow)
           goes_on == carry \/ continues
           scheduled == IF carry THEN Head(egress[c]) ELSE current(c)
           index == IF carry THEN 0 ELSE current_index(c) + 1
           window_requested == ~carry /\ (pending_request \/ request)
           next_state ==
             IF goes_on
             THEN [active |-> TRUE, scheduled |-> scheduled, index |-> index,
                   window_requested |-> window_requested,
                   window_granted |-> window_granted,
                   credit_debt |-> credit_debt,
                   lookahead |-> lookahead]
             ELSE idle(pending_request)
           one(b) == IF b THEN 1 ELSE 0
<1>1. WindowTypeOK /\ HeldForOneReason /\ WindowHasOneOwner /\ CreditsMatchBatches
  BY DEF WindowIndInv, TokensAreConserved
<1>2. /\ egress_credits' = [egress_credits EXCEPT ![c] = @ - 0 + one(credited)]
      /\ window_request' = [window_request EXCEPT ![c] = @ - 0 + one(request)]
      /\ window_grant' = [window_grant EXCEPT ![c] = @ - one(accepted) + 0]
      /\ window_release' = [window_release EXCEPT ![c] = @ - 0 + one(release)]
      /\ egress' = [egress EXCEPT ![c] = IF incoming THEN Tail(@) ELSE @]
      /\ router' = [router EXCEPT ![c] = next_state]
      /\ UNCHANGED <<egress_busy, arbiter>>
  BY DEF route, changed
<1>3. /\ s \in RouterState
      /\ egress[c] \in Seq(Batches)
      /\ egress_credits[c] \in Nat /\ window_request[c] \in Nat
      /\ window_grant[c] \in Nat /\ window_release[c] \in Nat
  BY <1>1 DEF WindowTypeOK
<1>4. /\ accepted => window_grant[c] > 0 /\ ~s.window_granted
      /\ incoming => egress[c] # << >>
      /\ incoming /\ s.active => last /\ s.credit_debt /\ ~s.lookahead
      /\ usable <=> accepted /\ s.active /\ ~s.lookahead /\ continues
      /\ release <=> \/ last /\ s.lookahead
                     \/ last /\ s.credit_debt /\ ~incoming
                     \/ accepted /\ ~usable
  BY DEF grant_valid, incoming_valid, grant_usable, releases, current,
         current_index
<1>5. next_state \in RouterState
  <2>1. incoming => Head(egress[c]) \in Batches
    BY <1>3, <1>4
  <2>2. batch_valid => current(c) \in Batches \cup {no_batch}
    BY <1>3, <2>1 DEF current, RouterState
  <2>3. current_index(c) \in Nat
    BY <1>3 DEF current_index, RouterState
  <2>4. idle(pending_request) \in RouterState
    BY DEF idle, RouterState
  <2>5. goes_on =>
          scheduled \in Batches \cup {no_batch} /\ index \in Nat
    BY <2>1, <2>2, <2>3
  <2>6. /\ window_requested \in BOOLEAN /\ window_granted \in BOOLEAN
        /\ credit_debt \in BOOLEAN /\ lookahead \in BOOLEAN
    OBVIOUS
  <2> HIDE DEF goes_on, scheduled, index, window_requested, window_granted,
               credit_debt, lookahead, pending_request
  <2>7. QED
    BY <2>4, <2>5, <2>6 DEF RouterState
<1>6. /\ n.active <=> goes_on
      /\ n.window_granted <=> goes_on /\ window_granted
      /\ n.credit_debt <=> goes_on /\ credit_debt
      /\ n.lookahead <=> goes_on /\ lookahead
  <2>1. n = next_state
    BY <1>1, <1>2 DEF WindowTypeOK
  <2> HIDE DEF n, goes_on, scheduled, index, window_requested, window_granted,
               credit_debt, lookahead, pending_request
  <2>2. CASE goes_on
    BY <2>1, <2>2
  <2>3. CASE ~goes_on
    BY <2>1, <2>3 DEF idle
  <2>4. QED
    BY <2>2, <2>3
<1>7. /\ s.window_granted <=> s.credit_debt \/ s.lookahead
      /\ ~(s.credit_debt /\ s.lookahead)
      /\ s.window_granted => s.active
      /\ accepted => window_grant[c] = 1 /\ window_release[c] = 0
  <2>1. accepted => window_grant[c] = 1 /\ window_release[c] = 0
    <3> DEFINE held == one(s.window_granted)
    <3>1. /\ held \in {0, 1}
          /\ \/ window_grant[c] + held + window_release[c] = 0
             \/ window_grant[c] + held + window_release[c] = 1
      BY <1>1 DEF WindowHasOneOwner, window
    <3> HIDE DEF held, accepted
    <3>2. QED
      BY <1>3, <1>4, <3>1
  <2>2. QED
    BY <1>1, <2>1 DEF HeldForOneReason
<1> HIDE DEF next_state, incoming, accepted, n
<1>8. WindowTypeOK'
  <2>1. one(credited) \in Nat /\ one(request) \in Nat /\ one(release) \in Nat
        /\ window_grant[c] - one(accepted) + 0 \in Nat
    BY <1>3, <1>7
  <2>2. incoming => Tail(egress[c]) \in Seq(Batches)
    BY <1>3, <1>4
  <2> HIDE DEF one, credited, request, release
  <2>3. egress_credits' \in [Contenders -> Nat]
    BY <1>1, <1>2, <1>3, <2>1 DEF WindowTypeOK
  <2>4. window_request' \in [Contenders -> Nat]
    BY <1>1, <1>2, <1>3, <2>1 DEF WindowTypeOK
  <2>5. window_grant' \in [Contenders -> Nat]
    BY <1>1, <1>2, <1>3, <2>1 DEF WindowTypeOK
  <2>6. window_release' \in [Contenders -> Nat]
    BY <1>1, <1>2, <1>3, <2>1 DEF WindowTypeOK
  <2>7. egress' \in [Contenders -> Seq(Batches)]
    BY <1>1, <1>2, <1>3, <2>2 DEF WindowTypeOK
  <2>8. router' \in [Contenders -> RouterState]
    BY <1>1, <1>2, <1>5 DEF WindowTypeOK
  <2>9. QED
    BY <1>1, <1>2, <2>3, <2>4, <2>5, <2>6, <2>7, <2>8 DEF WindowTypeOK
<1>9. ASSUME NEW d \in Contenders, d # c
      PROVE  /\ egress'[d] = egress[d] /\ egress_credits'[d] = egress_credits[d]
             /\ window_grant'[d] = window_grant[d]
             /\ window_release'[d] = window_release[d]
             /\ router'[d] = router[d]
  BY <1>1, <1>2, <1>9 DEF WindowTypeOK
<1>10. last => batch_valid
  OBVIOUS
<1> HIDE DEF last, usable, release, s
<1>11. /\ n.window_granted <=> n.credit_debt \/ n.lookahead
       /\ ~(n.credit_debt /\ n.lookahead)
       /\ n.window_granted => n.active
       /\ n.window_granted <=> (s.window_granted \/ usable) /\ ~release
  <2>1. CASE accepted
    BY <1>4, <1>6, <1>7, <1>10, <2>1
  <2>2. CASE ~accepted
    BY <1>4, <1>6, <1>7, <1>10, <2>2
  <2>3. QED
    BY <2>1, <2>2
<1>12. HeldForOneReason'
  BY <1>1, <1>9, <1>11 DEF HeldForOneReason, n
<1>13. WindowHasOneOwner'
  <2> SUFFICES
        ASSUME NEW d \in Contenders
        PROVE  /\ window_grant'[d] + one(router'[d].window_granted)
                    + window_release'[d]
                    = one(arbiter.owner_valid /\ arbiter.owner = d)
               /\ router'[d].credit_debt \/ router'[d].lookahead =>
                    router'[d].window_granted
    BY <1>2 DEF WindowHasOneOwner, window
  <2>1. CASE d # c
    BY <1>1, <1>9, <2>1 DEF WindowHasOneOwner, window
  <2>2. CASE d = c
    <3> DEFINE held == one(s.window_granted)
               held_next == one(n.window_granted)
               owns == one(arbiter.owner_valid /\ arbiter.owner = c)
               taken == one(accepted)
               given == one(release)
    <3>1. window_grant[c] + held + window_release[c] = owns
      BY <1>1 DEF WindowHasOneOwner, window, s
    <3>2. /\ window_grant'[c] = window_grant[c] - taken
          /\ window_release'[c] = window_release[c] + given
      <4> HIDE DEF one
      <4>1. window_grant'[c] = window_grant[c] - one(accepted) + 0
            /\ window_release'[c] = window_release[c] - 0 + one(release)
        BY <1>1, <1>2 DEF WindowTypeOK
      <4>2. one(accepted) \in Nat /\ one(release) \in Nat
        BY DEF one
      <4>3. QED
        BY <1>3, <4>1, <4>2
    <3>3. held_next + given = held + taken
      <4>1. accepted => (usable <=> ~release)
        BY <1>4, <1>7, <1>10
      <4>2. ~accepted => ~usable /\ (release => s.window_granted)
        BY <1>4, <1>7, <1>10
      <4>3. accepted => ~s.window_granted
        BY <1>4
      <4>4. CASE accepted
        BY <1>11, <4>1, <4>3, <4>4
      <4>5. CASE ~accepted
        BY <1>11, <4>2, <4>5
      <4>6. QED
        BY <4>4, <4>5
    <3>4. /\ held \in Nat /\ held_next \in Nat
          /\ taken \in Nat /\ given \in Nat
      OBVIOUS
    <3>5. window_grant'[c] + held_next + window_release'[c] = owns
      <4> HIDE DEF held, held_next, owns, taken, given
      <4>1. QED
        BY SMTT(60), <1>3, <3>1, <3>2, <3>3, <3>4
    <3>6. QED
      BY <1>11, <2>2, <3>5 DEF n
  <2>3. QED
    BY <2>1, <2>2
<1>14. CreditsMatchBatches'
  <2> SUFFICES ASSUME NEW d \in Contenders
               PROVE  Len(egress'[d]) + one(router'[d].active) + egress_credits'[d]
                        = one(egress_busy[d]) + one(router'[d].credit_debt)
    BY <1>2 DEF CreditsMatchBatches
  <2>1. CASE d # c
    BY <1>1, <1>9, <2>1 DEF CreditsMatchBatches
  <2>2. CASE d = c
    <3> DEFINE active == one(s.active)
               active_next == one(n.active)
               debt == one(s.credit_debt)
               debt_next == one(n.credit_debt)
               busy == one(egress_busy[c])
               taken == one(incoming)
               given == one(credited)
    <3>1. Len(egress[c]) + active + egress_credits[c] = busy + debt
      BY <1>1 DEF CreditsMatchBatches, s
    <3>2. egress_credits'[c] = egress_credits[c] + given
      <4> HIDE DEF one, credited
      <4>1. egress_credits'[c] = egress_credits[c] - 0 + one(credited)
        BY <1>1, <1>2 DEF WindowTypeOK
      <4>2. one(credited) \in Nat
        BY DEF one
      <4>3. QED
        BY <1>3, <4>1, <4>2
    <3>3. Len(egress'[c]) = Len(egress[c]) - taken
      <4>1. egress'[c] = IF incoming THEN Tail(egress[c]) ELSE egress[c]
        BY <1>1, <1>2 DEF WindowTypeOK
      <4>2. QED
        BY <1>3, <1>4, <4>1
    <3>4. active_next + given + debt = active + debt_next + taken
      <4>1. CASE usable
        <5>1. s.active /\ ~last /\ ~incoming /\ ~s.credit_debt
          BY <1>4, <1>7, <4>1
        <5>2. n.active /\ n.credit_debt /\ credited
          BY <1>6, <4>1, <5>1
        <5>3. QED
          BY <5>1, <5>2
      <4>2. CASE ~usable /\ swallow
        <5>1. s.active /\ s.credit_debt /\ ~credited /\ ~n.credit_debt
          BY <1>6, <1>7, <4>2
        <5>2. n.active <=> incoming
          BY <1>6, <4>2
        <5>3. QED
          BY <5>1, <5>2
      <4>3. CASE ~usable /\ last /\ ~swallow
        <5>1. credited /\ ~n.active /\ ~n.credit_debt /\ ~s.credit_debt
          BY <1>6, <1>7, <4>3
        <5>2. s.active <=> ~incoming
          BY <1>4, <1>10, <4>3, <5>1
        <5>3. QED
          BY <5>1, <5>2
      <4>4. CASE ~usable /\ ~last /\ batch_valid
        <5>1. n.active /\ ~credited /\ (n.credit_debt <=> s.credit_debt)
          BY <1>6, <4>4
        <5>2. s.active <=> ~incoming
          BY <1>4, <4>4
        <5>3. QED
          BY <5>1, <5>2
      <4>5. CASE ~usable /\ ~last /\ ~batch_valid
        <5>1. /\ ~n.active /\ ~credited /\ ~n.credit_debt
              /\ ~s.active /\ ~incoming /\ ~s.credit_debt
          BY <1>6, <1>7, <4>5
        <5>2. QED
          BY <5>1
      <4>6. QED
        BY <1>10, <4>1, <4>2, <4>3, <4>4, <4>5
    <3>5. /\ active \in Nat /\ active_next \in Nat
          /\ debt \in Nat /\ debt_next \in Nat /\ busy \in Nat
          /\ taken \in Nat /\ given \in Nat
      OBVIOUS
    <3>6. Len(egress[c]) \in Nat
      BY <1>3
    <3>7. Len(egress'[c]) + active_next + egress_credits'[c] = busy + debt_next
      <4> DEFINE length == Len(egress[c])
                 returned == egress_credits[c]
      <4> HIDE DEF active, active_next, debt, debt_next, busy, taken, given,
                   length, returned
      <4>1. /\ length \in Nat /\ returned \in Nat
            /\ length + active + returned = busy + debt
        BY <1>3, <3>1, <3>6 DEF length, returned
      <4>2. (length - taken) + active_next + (returned + given)
              = busy + debt_next
        BY <3>4, <3>5, <4>1
      <4>3. QED
        BY <3>2, <3>3, <4>2 DEF length, returned
    <3>8. QED
      BY <2>2, <3>7 DEF n
  <2>3. QED
    BY <2>1, <2>2
<1>15. QED
  BY <1>8, <1>12, <1>13, <1>14 DEF WindowIndInv, TokensAreConserved
-----------------------------------------------------------------------------
(* The registers and channels keep their types, a router holds the window  *)
(* for one reason, and tokens are conserved, in every reachable state.     *)
THEOREM WindowInductive == WindowSpec => []WindowIndInv
<1>1. WindowIndInv /\ [WindowNext]_window_vars => WindowIndInv'
  <2> SUFFICES ASSUME WindowIndInv, [WindowNext]_window_vars PROVE WindowIndInv'
    OBVIOUS
  <2>1. ASSUME NEW c \in Contenders, schedule(c) PROVE WindowIndInv'
    BY <2>1, ScheduleInv
  <2>2. ASSUME NEW c \in Contenders, route(c) PROVE WindowIndInv'
    BY <2>2, RouteInv
  <2>3. CASE arbitrate
    BY <2>3, ArbitrateInv
  <2>4. CASE UNCHANGED window_vars
    BY <2>4 DEF window_vars, channels, WindowIndInv, WindowTypeOK, HeldForOneReason,
                TokensAreConserved, WindowHasOneOwner, CreditsMatchBatches,
                window
  <2>5. QED
    BY <2>1, <2>2, <2>3, <2>4 DEF WindowNext
<1>2. QED
  BY WindowInitInv, <1>1, PTL DEF WindowSpec

(* Neither a grant nor a credit is lost, forged or used twice, however     *)
(* many schedulers share the window and whatever effects entries return.   *)
THEOREM TokensConserved == WindowSpec => []TokensAreConserved
<1>1. WindowIndInv => TokensAreConserved
  BY DEF WindowIndInv
<1>2. QED
  BY WindowInductive, <1>1, PTL
=============================================================================
