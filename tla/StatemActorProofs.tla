-------------------------- MODULE StatemActorProofs --------------------------
(***************************************************************************)
(* An hls_statem process handles messages in turn and marks what it has    *)
(* refused, for every mailbox capacity, set of phases and callback.        *)
(***************************************************************************)
EXTENDS StatemActor, TLAPS

Entries == [message : Nat, postponed : BOOLEAN]

Runtimes ==
  [lifecycle : {"disconnected", "connected", "stopped"}, phase : Phases,
   data : Nat, mailbox : Seq(Entries)]

(* Types of the runtime, the message queue and the history.                *)
TypeOK ==
  /\ rt \in Runtimes
  /\ inbox \in Seq(Nat)
  /\ sent \in Nat
  /\ handled \in Seq(Nat \X Nat)

(* The bounded mailbox holds messages in the order of their arrival.       *)
Ordered(mailbox) ==
  \A j, k \in DOMAIN mailbox :
    j < k => mailbox[j].message < mailbox[k].message

(* A message is postponed exactly if it has been tried.                    *)
Marked(mailbox, tried) ==
  \A k \in DOMAIN mailbox :
    mailbox[k].postponed <=> mailbox[k].message \in tried

(* A message is tried only after all that are older.                       *)
InTurn(mailbox, tried) ==
  \A k \in DOMAIN mailbox, newer \in tried :
    mailbox[k].message < newer => mailbox[k].message \in tried

(* No message comes from nowhere.                                          *)
Retains(mailbox, after) ==
  \A j \in DOMAIN after : \E i \in DOMAIN mailbox :
    after[j].message = mailbox[i].message

and_tried(tried, r, k) == tried \cup {r.mailbox[k].message}

(* A message that has been sent, before all that still queue.              *)
Earlier(m, queue) == m <= sent /\ \A i \in DOMAIN queue : m < queue[i]

QueueInOrder(queue) ==
  /\ \A i \in DOMAIN queue : queue[i] <= sent
  /\ \A i, j \in DOMAIN queue : i < j => queue[i] < queue[j]

HistoryIsPast(queue) ==
  \A h \in DOMAIN handled :
    Earlier(handled[h][1], queue) /\ handled[h][2] <= rt.data

(* What an actor that is not connected may hold.                           *)
Untouched ==
  rt.lifecycle = "disconnected" =>
    /\ handled = << >> /\ rt.data = 0
    /\ \A k \in DOMAIN rt.mailbox : ~rt.mailbox[k].postponed

Scheduled(mailbox) ==
  /\ Marked(mailbox, handled_in(rt.data))
  /\ InTurn(mailbox, handled_in(rt.data))

IndInv ==
  /\ TypeOK
  /\ Ordered(rt.mailbox)
  /\ \A k \in DOMAIN rt.mailbox : Earlier(rt.mailbox[k].message, inbox)
  /\ QueueInOrder(inbox)
  /\ HistoryIsPast(inbox)
  /\ Untouched
  /\ rt.lifecycle = "connected" => Scheduled(rt.mailbox)
-----------------------------------------------------------------------------
(* A sequence without its k-th element: those before stay where they are,  *)
(* those behind move up.                                                   *)
LEMMA RemoveAtElements ==
  ASSUME NEW S, NEW s \in Seq(S), NEW k \in DOMAIN s
  PROVE  /\ RemoveAt(s, k) \in Seq(S)
         /\ DOMAIN RemoveAt(s, k) = 1 .. Len(s) - 1
         /\ \A j \in 1 .. Len(s) - 1 :
              RemoveAt(s, k)[j] = IF j < k THEN s[j] ELSE s[j + 1]
<1> DEFINE before == SubSeq(s, 1, k - 1)
           after == SubSeq(s, k + 1, Len(s))
           n == Len(s)
<1>1. k \in 1 .. n /\ n \in Nat
  OBVIOUS
<1>2. /\ before \in Seq(S) /\ Len(before) = k - 1
      /\ \A j \in 1 .. k - 1 : before[j] = s[j]
  BY <1>1
<1>3. /\ after \in Seq(S) /\ Len(after) = n - k
      /\ \A j \in 1 .. n - k : after[j] = s[k + j]
  BY <1>1
<1>4. RemoveAt(s, k) = before \o after
  BY DEF RemoveAt
<1> HIDE DEF before, after, n
<1>5. /\ before \o after \in Seq(S)
      /\ Len(before \o after) = (k - 1) + (n - k)
  <2>1. before \in Seq(S) /\ Len(before) = k - 1
    BY <1>2
  <2>2. after \in Seq(S) /\ Len(after) = n - k
    BY <1>3
  <2>3. QED
    BY <2>1, <2>2
<1>6. \A j \in 1 .. n - 1 :
        (before \o after)[j] = IF j < k THEN s[j] ELSE s[j + 1]
  <2> TAKE j \in 1 .. n - 1
  <2>1. j \in 1 .. Len(before) + Len(after)
    BY <1>1, <1>2, <1>3
  <2>2. (before \o after)[j] =
          IF j <= Len(before) THEN before[j] ELSE after[j - Len(before)]
    BY <1>2, <1>3, <2>1
  <2>3. CASE j < k
    <3>1. j <= k - 1 /\ j \in 1 .. k - 1
      BY <1>1, <2>3
    <3>2. QED
      BY <1>2, <2>2, <2>3, <3>1
  <2>4. CASE ~(j < k)
    <3> DEFINE i == j - (k - 1)
    <3>1. i \in 1 .. n - k /\ k + i = j + 1 /\ ~(j <= k - 1)
      BY <1>1, <2>4
    <3>2. (before \o after)[j] = after[i]
      BY <1>2, <2>2, <3>1
    <3> HIDE DEF i
    <3>3. after[i] = s[k + i]
      BY <1>3, <3>1
    <3>4. QED
      BY <2>4, <3>1, <3>2, <3>3
  <2>5. QED
    BY <2>3, <2>4
<1>7. Len(before \o after) = n - 1
  BY <1>1, <1>5
<1>8. QED
  BY <1>4, <1>5, <1>6, <1>7 DEF n

(* The history after one more callback call.                               *)
LEMMA HandledGrows ==
  ASSUME handled \in Seq(Nat \X Nat), NEW m \in Nat, NEW entry \in Nat,
         handled' = Append(handled, <<m, entry>>)
  PROVE  /\ handled' \in Seq(Nat \X Nat)
         /\ \A h \in DOMAIN handled' :
              (h \in DOMAIN handled /\ handled'[h] = handled[h])
                \/ handled'[h] = <<m, entry>>
         /\ handled_in(entry)' = handled_in(entry) \cup {m}
         /\ \A other : other # entry => handled_in(other)' = handled_in(other)
<1>1. /\ handled' \in Seq(Nat \X Nat)
      /\ Len(handled) \in Nat
      /\ DOMAIN handled = 1 .. Len(handled)
      /\ DOMAIN handled' = 1 .. Len(handled) + 1
      /\ \A h \in 1 .. Len(handled) : handled'[h] = handled[h]
      /\ handled'[Len(handled) + 1] = <<m, entry>>
  OBVIOUS
<1>2. <<m, entry>>[1] = m /\ <<m, entry>>[2] = entry
  OBVIOUS
<1>3. \A h \in DOMAIN handled' :
        (h \in DOMAIN handled /\ handled'[h] = handled[h])
          \/ h = Len(handled) + 1
  BY <1>1
<1>4. DOMAIN handled \subseteq DOMAIN handled'
      /\ Len(handled) + 1 \in DOMAIN handled'
      /\ \A h \in DOMAIN handled : handled'[h] = handled[h]
  BY <1>1
<1>5. ASSUME NEW d
      PROVE  /\ d = entry => handled_in(d)' = handled_in(d) \cup {m}
             /\ d # entry => handled_in(d)' = handled_in(d)
  <2>1. \A x : x \in handled_in(d) <=>
          \E h \in DOMAIN handled : handled[h][2] = d /\ x = handled[h][1]
    BY DEF handled_in
  <2>2. \A x : x \in handled_in(d)' <=>
          \E h \in DOMAIN handled' : handled'[h][2] = d /\ x = handled'[h][1]
    BY DEF handled_in
  <2>3. \A x : x \in handled_in(d)' <=>
          x \in handled_in(d) \/ (d = entry /\ x = m)
    BY <1>1, <1>2, <1>3, <1>4, <2>1, <2>2
  <2>4. QED
    BY <2>3
<1>6. QED
  BY <1>1, <1>3, <1>5

(* What a turn without a boundary makes of the mailbox: the message tried  *)
(* leaves it or is marked, and nothing else changes.                       *)
LEMMA SettledIsScheduled ==
  ASSUME NEW r, r.mailbox \in Seq(Entries), NEW tried,
         NEW k \in DOMAIN r.mailbox, NEW c,
         Ordered(r.mailbox), Marked(r.mailbox, tried),
         InTurn(r.mailbox, tried), selected(r, k)
  PROVE  /\ settled(r, k, c) \in Seq(Entries)
         /\ Ordered(settled(r, k, c))
         /\ Marked(settled(r, k, c), and_tried(tried, r, k))
         /\ InTurn(settled(r, k, c), and_tried(tried, r, k))
         /\ Retains(r.mailbox, settled(r, k, c))
<1> DEFINE mailbox == r.mailbox
           after == settled(r, k, c)
           now == tried \cup {mailbox[k].message}
<1>0. /\ mailbox \in Seq(Entries) /\ k \in DOMAIN mailbox
      /\ Ordered(mailbox) /\ Marked(mailbox, tried) /\ InTurn(mailbox, tried)
      /\ \A j \in DOMAIN mailbox : ~mailbox[j].postponed => k <= j
      /\ \/ after = RemoveAt(mailbox, k)
         \/ after = [mailbox EXCEPT ![k].postponed = TRUE]
  BY DEF settled, selected, eligible
<1> HIDE DEF mailbox, after, and_tried
<1>1. /\ DOMAIN mailbox = 1 .. Len(mailbox) /\ Len(mailbox) \in Nat
      /\ \A j \in DOMAIN mailbox : mailbox[j] \in Entries
      /\ \A j \in DOMAIN mailbox : mailbox[j].message \in Nat
  <2>1. /\ DOMAIN mailbox = 1 .. Len(mailbox) /\ Len(mailbox) \in Nat
        /\ \A j \in DOMAIN mailbox : mailbox[j] \in Entries
    BY <1>0
  <2>2. QED
    BY <2>1 DEF Entries
<1>2. \A i, j \in DOMAIN mailbox :
        i # j => mailbox[i].message # mailbox[j].message
  BY <1>0, <1>1 DEF Ordered
<1>3. ASSUME NEW j \in DOMAIN mailbox, mailbox[j].message < mailbox[k].message
      PROVE  mailbox[j].message \in tried
  <2>1. j < k
    BY <1>0, <1>1, <1>3 DEF Ordered
  <2>2. mailbox[j].postponed
    BY <1>0, <1>1, <2>1
  <2>3. QED
    BY <1>0, <2>2 DEF Marked
<1>4. CASE after = RemoveAt(mailbox, k)
  <2> DEFINE at(j) == IF j < k THEN j ELSE j + 1
  <2>1. /\ after \in Seq(Entries)
        /\ DOMAIN after = 1 .. Len(mailbox) - 1
        /\ \A j \in DOMAIN after : after[j] = mailbox[at(j)]
    <3>1. mailbox \in Seq(Entries)
      BY <1>0
    <3>2. k \in DOMAIN mailbox
      BY <1>0
    <3>3. /\ RemoveAt(mailbox, k) \in Seq(Entries)
          /\ DOMAIN RemoveAt(mailbox, k) = 1 .. Len(mailbox) - 1
          /\ \A j \in 1 .. Len(mailbox) - 1 :
               RemoveAt(mailbox, k)[j] =
                 IF j < k THEN mailbox[j] ELSE mailbox[j + 1]
      BY ONLY <3>1, <3>2, RemoveAtElements
    <3>4. /\ after \in Seq(Entries)
          /\ DOMAIN after = 1 .. Len(mailbox) - 1
          /\ \A j \in 1 .. Len(mailbox) - 1 :
               after[j] = IF j < k THEN mailbox[j] ELSE mailbox[j + 1]
      BY ONLY <1>4, <3>3
    <3>5. QED
      BY ONLY <3>4
  <2>2. /\ \A j \in DOMAIN after : at(j) \in DOMAIN mailbox /\ at(j) # k
        /\ \A i, j \in DOMAIN after : i < j => at(i) < at(j)
    <3> DEFINE n == Len(mailbox)
    <3>1. n \in Nat /\ k \in 1 .. n /\ DOMAIN mailbox = 1 .. n
          /\ DOMAIN after = 1 .. n - 1
      BY <1>0, <1>1, <2>1
    <3> HIDE DEF n
    <3>2. \A j \in 1 .. n - 1 : at(j) \in 1 .. n /\ at(j) # k
      BY <3>1
    <3>3. \A i, j \in 1 .. n - 1 : i < j => at(i) < at(j)
      BY <3>1
    <3>4. QED
      BY <3>1, <3>2, <3>3
  <2> HIDE DEF at
  <2>3. Ordered(after)
    BY <1>0, <2>1, <2>2 DEF Ordered
  <2>4. Marked(after, now)
    BY <1>0, <1>2, <2>1, <2>2 DEF Marked
  <2>5. InTurn(after, now)
    BY <1>0, <1>3, <2>1, <2>2 DEF InTurn
  <2>6. Retains(mailbox, after)
    BY <2>1, <2>2 DEF Retains
  <2>7. QED
    BY <2>1, <2>3, <2>4, <2>5, <2>6 DEF mailbox, after, and_tried
<1>5. CASE after = [mailbox EXCEPT ![k].postponed = TRUE]
  <2>1. /\ after \in Seq(Entries)
        /\ DOMAIN after = DOMAIN mailbox
        /\ \A j \in DOMAIN after : after[j].message = mailbox[j].message
        /\ \A j \in DOMAIN after \ {k} : after[j].postponed = mailbox[j].postponed
        /\ after[k].postponed
    <3>1. [mailbox[k] EXCEPT !.postponed = TRUE] \in Entries
      BY <1>0, <1>1 DEF Entries
    <3>2. after \in Seq(Entries) /\ DOMAIN after = DOMAIN mailbox
      BY <1>0, <1>5, <3>1
    <3>3. /\ after[k] = [mailbox[k] EXCEPT !.postponed = TRUE]
          /\ \A j \in DOMAIN after \ {k} : after[j] = mailbox[j]
      BY <1>0, <1>5, <3>2
    <3>4. after[k].message = mailbox[k].message /\ after[k].postponed
      BY <1>0, <1>1, <3>3 DEF Entries
    <3>5. QED
      BY <3>2, <3>3, <3>4
  <2>2. Ordered(after)
    BY <1>0, <2>1 DEF Ordered
  <2>3. Marked(after, now)
    BY <1>0, <1>2, <2>1 DEF Marked
  <2>4. InTurn(after, now)
    BY <1>0, <1>3, <2>1 DEF InTurn
  <2>5. Retains(mailbox, after)
    BY <2>1 DEF Retains
  <2>6. QED
    BY <2>1, <2>2, <2>3, <2>4, <2>5 DEF mailbox, after, and_tried
<1>6. QED
  BY <1>0, <1>4, <1>5 DEF mailbox, after, and_tried

(* A boundary starts again with everything that is retained.               *)
LEMMA ReleasedIsScheduled ==
  ASSUME NEW mailbox \in Seq(Entries), Ordered(mailbox)
  PROVE  /\ released(mailbox) \in Seq(Entries)
         /\ DOMAIN released(mailbox) = DOMAIN mailbox
         /\ \A j \in DOMAIN mailbox :
              /\ released(mailbox)[j].message = mailbox[j].message
              /\ ~released(mailbox)[j].postponed
         /\ Ordered(released(mailbox))
<1>1. /\ DOMAIN mailbox = 1 .. Len(mailbox) /\ Len(mailbox) \in Nat
      /\ \A j \in DOMAIN mailbox : mailbox[j] \in Entries
  OBVIOUS
<1>2. \A j \in DOMAIN mailbox :
        /\ [mailbox[j] EXCEPT !.postponed = FALSE] \in Entries
        /\ [mailbox[j] EXCEPT !.postponed = FALSE].message = mailbox[j].message
        /\ ~[mailbox[j] EXCEPT !.postponed = FALSE].postponed
  BY <1>1 DEF Entries
<1>3. /\ DOMAIN released(mailbox) = DOMAIN mailbox
      /\ \A j \in DOMAIN mailbox :
           released(mailbox)[j] = [mailbox[j] EXCEPT !.postponed = FALSE]
  BY DEF released
<1>4. released(mailbox) \in Seq(Entries)
  BY <1>1, <1>2 DEF released
<1>5. Ordered(released(mailbox))
  BY <1>2, <1>3 DEF Ordered
<1>6. QED
  BY <1>2, <1>3, <1>4, <1>5

(* A process that stops loses what it had retained.                        *)
LEMMA StopEmpties ==
  ASSUME NEW r \in Runtimes
  PROVE  /\ stop(r) \in Runtimes /\ stop(r).lifecycle = "stopped"
         /\ stop(r).mailbox = << >> /\ stop(r).data = r.data
<1>1. << >> \in Seq(Entries)
  OBVIOUS
<1>2. QED
  BY <1>1 DEF stop, Runtimes

(* A message behind all that the mailbox holds.                            *)
LEMMA EnqueueInOrder ==
  ASSUME NEW r \in Runtimes, NEW x \in Nat, Ordered(r.mailbox),
         \A j \in DOMAIN r.mailbox : r.mailbox[j].message < x
  PROVE  LET e == enqueue(r, x)
             n == Len(r.mailbox)
         IN  /\ e \in Runtimes /\ e.lifecycle = r.lifecycle
             /\ e.data = r.data /\ Ordered(e.mailbox)
             /\ Len(e.mailbox) = n + 1 /\ n \in Nat
             /\ DOMAIN e.mailbox = 1 .. n + 1 /\ DOMAIN r.mailbox = 1 .. n
             /\ \A j \in 1 .. n : e.mailbox[j] = r.mailbox[j]
             /\ e.mailbox[n + 1].message = x
             /\ ~e.mailbox[n + 1].postponed
<1> DEFINE entry == [message |-> x, postponed |-> FALSE]
           more == Append(r.mailbox, entry)
           n == Len(r.mailbox)
<1>1. r.mailbox \in Seq(Entries) /\ entry \in Entries
  BY DEF Runtimes, Entries
<1>2. entry.message = x /\ ~entry.postponed
  OBVIOUS
<1>3. enqueue(r, x) = [r EXCEPT !.mailbox = more]
  BY DEF enqueue
<1> HIDE DEF entry
<1>4. /\ more \in Seq(Entries) /\ Len(more) = n + 1 /\ n \in Nat
      /\ DOMAIN more = 1 .. n + 1 /\ DOMAIN r.mailbox = 1 .. n
      /\ \A j \in 1 .. n : more[j] = r.mailbox[j]
      /\ more[n + 1] = entry
  BY <1>1
<1> HIDE DEF more, n
<1>5. \A j \in 1 .. n + 1 : j \in 1 .. n \/ j = n + 1
  BY <1>4
<1>6. Ordered(more)
  <2>1. \A j, k \in 1 .. n + 1 : j < k => j \in 1 .. n
    BY <1>4
  <2>2. QED
    BY <1>2, <1>4, <1>5, <2>1 DEF Ordered
<1>7. /\ enqueue(r, x) \in Runtimes
      /\ enqueue(r, x).lifecycle = r.lifecycle
      /\ enqueue(r, x).data = r.data
      /\ enqueue(r, x).mailbox = more
  BY <1>3, <1>4 DEF Runtimes
<1>8. QED
  BY <1>2, <1>4, <1>6, <1>7 DEF n

(* One turn of the loop on the oldest eligible message of r.               *)
LEMMA ProcessInv ==
  ASSUME handled \in Seq(Nat \X Nat), inbox' \in Seq(Nat), sent' = sent,
         sent \in Nat,
         NEW r \in Runtimes, r.lifecycle = "connected", r.data = rt.data,
         NEW k \in DOMAIN r.mailbox, selected(r, k),
         NEW c \in Conclusions, process(r, k, c),
         Ordered(r.mailbox), Scheduled(r.mailbox),
         \A j \in DOMAIN r.mailbox : Earlier(r.mailbox[j].message, inbox'),
         QueueInOrder(inbox'), HistoryIsPast(inbox')
  PROVE  IndInv'
<1> DEFINE d == r.data
           m == r.mailbox[k].message
           cc == [phase |-> c.phase, data |-> r.data,
                  directive |-> c.directive]
           after == settled(r, k, cc)
           now == handled_in(d) \cup {m}
<1>1. /\ r.mailbox \in Seq(Entries) /\ d \in Nat /\ r.phase \in Phases
      /\ r.mailbox[k] \in Entries /\ m \in Nat
  <2>1. r.mailbox \in Seq(Entries) /\ d \in Nat /\ r.phase \in Phases
    BY DEF Runtimes
  <2>2. r.mailbox[k] \in Entries
    BY <2>1
  <2>3. QED
    BY <2>1, <2>2 DEF Entries
<1>2. /\ rt' = process_message(r, k, cc, d + 1)
      /\ handled' = Append(handled, <<m, d>>)
  BY DEF process
<1>3. /\ handled' \in Seq(Nat \X Nat)
      /\ handled_in(d)' = now
      /\ handled_in(d + 1)' = handled_in(d + 1)
      /\ \A h \in DOMAIN handled' :
           (h \in DOMAIN handled /\ handled'[h] = handled[h])
             \/ handled'[h] = <<m, d>>
  <2>1. d + 1 # d
    BY <1>1
  <2> HIDE DEF m, d
  <2>2. QED
    BY <1>1, <1>2, <2>1, HandledGrows
<1>4. handled_in(d + 1) = {}
  <2>1. \A h \in DOMAIN handled : handled[h][2] # d + 1
    <3>1. \A h \in DOMAIN handled : handled[h][2] <= d /\ handled[h][2] \in Nat
      BY DEF HistoryIsPast
    <3> HIDE DEF d
    <3>2. QED
      BY <1>1, <3>1
  <2>2. QED
    BY <2>1 DEF handled_in
<1>5. \A h \in DOMAIN handled' :
        /\ Earlier(handled'[h][1], inbox')
        /\ handled'[h][2] \in Nat /\ handled'[h][2] <= d
  <2>1. Earlier(m, inbox') /\ <<m, d>>[1] = m /\ <<m, d>>[2] = d
    OBVIOUS
  <2>2. \A h \in DOMAIN handled :
          /\ Earlier(handled[h][1], inbox')
          /\ handled[h][2] \in Nat /\ handled[h][2] <= d
    BY DEF HistoryIsPast
  <2> HIDE DEF m, d
  <2>3. d <= d
    BY <1>1
  <2>4. QED
    BY <1>1, <1>3, <2>1, <2>2, <2>3
<1>6. c.directive # "fail" =>
        /\ after \in Seq(Entries) /\ Ordered(after)
        /\ Marked(after, now) /\ InTurn(after, now)
        /\ \A j \in DOMAIN after : Earlier(after[j].message, inbox')
  <2> SUFFICES ASSUME c.directive # "fail"
               PROVE  /\ after \in Seq(Entries) /\ Ordered(after)
                      /\ Marked(after, now) /\ InTurn(after, now)
                      /\ \A j \in DOMAIN after :
                           Earlier(after[j].message, inbox')
    OBVIOUS
  <2>1. Marked(r.mailbox, handled_in(d)) /\ InTurn(r.mailbox, handled_in(d))
    BY DEF Scheduled
  <2> DEFINE tried == handled_in(d)
  <2>2. /\ after \in Seq(Entries) /\ Ordered(after)
        /\ Marked(after, and_tried(tried, r, k))
        /\ InTurn(after, and_tried(tried, r, k))
        /\ Retains(r.mailbox, after)
    <3>1. Marked(r.mailbox, tried) /\ InTurn(r.mailbox, tried)
      BY <2>1
    <3> HIDE DEF tried, cc
    <3>2. /\ k \in DOMAIN r.mailbox /\ r.mailbox \in Seq(Entries)
          /\ Ordered(r.mailbox) /\ selected(r, k)
      BY <1>1
    <3>3. k \in DOMAIN r.mailbox
      BY <3>2
    <3>4. r.mailbox \in Seq(Entries)
      BY <3>2
    <3>5. Ordered(r.mailbox) /\ selected(r, k)
      BY <3>2
    <3>6. Marked(r.mailbox, tried)
      BY <3>1
    <3>7. InTurn(r.mailbox, tried)
      BY <3>1
    <3>8. settled(r, k, cc) \in Seq(Entries) /\ Ordered(settled(r, k, cc))
      BY ONLY <3>3, <3>4, <3>5, <3>6, <3>7, SettledIsScheduled
    <3>9. Marked(settled(r, k, cc), and_tried(tried, r, k))
      BY ONLY <3>3, <3>4, <3>5, <3>6, <3>7, SettledIsScheduled
    <3>10. InTurn(settled(r, k, cc), and_tried(tried, r, k))
      BY ONLY <3>3, <3>4, <3>5, <3>6, <3>7, SettledIsScheduled
    <3>11. Retains(r.mailbox, settled(r, k, cc))
      BY ONLY <3>3, <3>4, <3>5, <3>6, <3>7, SettledIsScheduled
    <3>12. QED
      BY <3>8, <3>9, <3>10, <3>11
  <2>3. QED
    BY <2>2 DEF and_tried, Retains
<1>7. /\ cc.phase = c.phase /\ cc.directive = c.directive /\ cc.data = d
      /\ c.phase # "repeat_phase" => c.phase \in Phases
      /\ c.directive = "fail" => c.phase \in Phases
      /\ d + 1 \in Nat /\ d <= d + 1 /\ d <= d
  BY <1>1 DEF Conclusions
<1>8. /\ QueueInOrder(inbox)'
      /\ \A x : Earlier(x, inbox)' <=> Earlier(x, inbox')
  BY DEF QueueInOrder, Earlier
<1> HIDE DEF cc, after, now, m
<1>9. CASE c.directive = "fail"
  <2>1. /\ rt' \in Runtimes /\ rt'.lifecycle = "stopped"
        /\ rt'.data = d /\ rt'.mailbox = << >>
    <3>1. stop(r) \in Runtimes /\ stop(r).lifecycle = "stopped"
          /\ stop(r).mailbox = << >>
      BY StopEmpties
    <3>2. rt' = [stop(r) EXCEPT !.phase = c.phase, !.data = d]
      BY <1>2, <1>7, <1>9 DEF process_message
    <3> HIDE DEF d
    <3>3. QED
      BY <1>1, <1>7, <1>9, <3>1, <3>2 DEF Runtimes
  <2>2. HistoryIsPast(inbox)'
    BY <1>5, <1>8, <2>1 DEF HistoryIsPast
  <2>3. Ordered(rt.mailbox)'
        /\ (\A j \in DOMAIN rt.mailbox : Earlier(rt.mailbox[j].message, inbox))'
    BY <2>1 DEF Ordered
  <2>4. QED
    BY <1>3, <1>8, <2>1, <2>2, <2>3 DEF IndInv, TypeOK, Untouched
<1>10. CASE c.directive # "fail" /\ boundary(r, cc)
  <2>1. after \in Seq(Entries) /\ Ordered(after)
    BY <1>6, <1>10
  <2>2. /\ released(after) \in Seq(Entries)
        /\ DOMAIN released(after) = DOMAIN after
        /\ \A j \in DOMAIN after :
             /\ released(after)[j].message = after[j].message
             /\ ~released(after)[j].postponed
        /\ Ordered(released(after))
    BY <2>1, ReleasedIsScheduled
  <2>3. next_phase(r, cc) \in Phases
    BY <1>1, <1>7 DEF next_phase
  <2>4. rt' = [r EXCEPT !.phase = next_phase(r, cc), !.data = d + 1,
                        !.mailbox = released(after)]
    BY <1>2, <1>7, <1>10 DEF process_message, after
  <2>5. /\ rt' \in Runtimes /\ rt'.lifecycle = "connected"
        /\ rt'.data = d + 1 /\ rt'.mailbox = released(after)
    BY <1>7, <2>2, <2>3, <2>4 DEF Runtimes
  <2>6. HistoryIsPast(inbox)'
    <3>1. \A h \in DOMAIN handled' : handled'[h][2] <= d + 1
      BY <1>1, <1>5
    <3>2. QED
      BY <1>5, <1>8, <2>5, <3>1 DEF HistoryIsPast
  <2>7. Scheduled(rt.mailbox)'
    <3>1. handled_in(rt.data)' = handled_in(d + 1)'
      BY <2>5 DEF handled_in
    <3>2. handled_in(rt.data)' = {}
      BY <1>3, <1>4, <3>1
    <3>3. QED
      BY <2>2, <2>5, <3>2 DEF Scheduled, Marked, InTurn
  <2>8. Ordered(rt.mailbox)'
        /\ (\A j \in DOMAIN rt.mailbox : Earlier(rt.mailbox[j].message, inbox))'
    BY <1>6, <1>8, <1>10, <2>2, <2>5 DEF Ordered
  <2>9. QED
    BY <1>3, <1>8, <2>5, <2>6, <2>7, <2>8 DEF IndInv, TypeOK, Untouched
<1>11. CASE c.directive # "fail" /\ ~boundary(r, cc)
  <2>1. rt' = [r EXCEPT !.data = d, !.mailbox = after]
    BY <1>2, <1>7, <1>11 DEF process_message, after
  <2>2. /\ rt' \in Runtimes /\ rt'.lifecycle = "connected"
        /\ rt'.data = d /\ rt'.mailbox = after
    BY <1>1, <1>6, <1>11, <2>1 DEF Runtimes
  <2>3. HistoryIsPast(inbox)'
    BY <1>5, <1>8, <2>2 DEF HistoryIsPast
  <2>4. Scheduled(rt.mailbox)'
    <3>1. handled_in(rt.data)' = now
      BY <1>3, <2>2 DEF handled_in
    <3>2. QED
      BY <1>6, <1>11, <2>2, <3>1 DEF Scheduled, Marked, InTurn
  <2>5. Ordered(rt.mailbox)'
        /\ (\A j \in DOMAIN rt.mailbox : Earlier(rt.mailbox[j].message, inbox))'
    BY <1>6, <1>8, <1>11, <2>2 DEF Ordered
  <2>6. QED
    BY <1>3, <1>8, <2>2, <2>3, <2>4, <2>5 DEF IndInv, TypeOK, Untouched
<1>12. QED
  BY <1>7, <1>9, <1>10, <1>11

(* What the queue keeps when the process takes its first message.          *)
LEMMA TakeFirst ==
  ASSUME TypeOK, QueueInOrder(inbox), inbox # << >>,
         inbox' = Tail(inbox), sent' = sent
  PROVE  /\ inbox' \in Seq(Nat) /\ Head(inbox) \in Nat
         /\ QueueInOrder(inbox') /\ Earlier(Head(inbox), inbox')
         /\ \A x : Earlier(x, inbox) => Earlier(x, inbox') /\ x < Head(inbox)
<1> DEFINE n == Len(inbox)
<1>1. /\ inbox \in Seq(Nat) /\ n \in Nat \ {0} /\ DOMAIN inbox = 1 .. n
      /\ Head(inbox) = inbox[1] /\ Head(inbox) \in Nat
      /\ inbox' \in Seq(Nat) /\ DOMAIN inbox' = 1 .. n - 1
      /\ \A i \in 1 .. n - 1 : inbox'[i] = inbox[i + 1]
  BY DEF TypeOK
<1> HIDE DEF n
<1>2. /\ 1 \in 1 .. n
      /\ \A i \in 1 .. n - 1 : i + 1 \in 1 .. n /\ 1 < i + 1
      /\ \A i, j \in 1 .. n - 1 : i < j => i + 1 < j + 1
  BY <1>1
<1>3. QueueInOrder(inbox')
  <2>1. \A i \in 1 .. n - 1 : inbox'[i] <= sent
    BY <1>1, <1>2 DEF QueueInOrder
  <2>2. ASSUME NEW i \in 1 .. n - 1, NEW j \in 1 .. n - 1, i < j
        PROVE  inbox'[i] < inbox'[j]
    <3>1. i + 1 \in DOMAIN inbox /\ j + 1 \in DOMAIN inbox /\ i + 1 < j + 1
      BY <1>1, <1>2, <2>2
    <3>2. inbox[i + 1] < inbox[j + 1]
      BY <3>1 DEF QueueInOrder
    <3>3. QED
      BY <1>1, <3>2
  <2>3. QED
    BY <1>1, <2>1, <2>2 DEF QueueInOrder
<1>4. Earlier(Head(inbox), inbox')
  BY <1>1, <1>2 DEF QueueInOrder, Earlier
<1>5. ASSUME NEW x, Earlier(x, inbox)
      PROVE  Earlier(x, inbox') /\ x < Head(inbox)
  BY <1>1, <1>2, <1>5 DEF Earlier
<1>6. QED
  BY <1>1, <1>3, <1>4, <1>5

(* The initial state is scheduled.                                         *)
LEMMA InitInv == Init => IndInv
<1> SUFFICES ASSUME Init PROVE IndInv
  OBVIOUS
<1>1. PICK phase \in Phases :
        rt = runtime("disconnected", phase, 0)
          \/ rt = runtime("connected", phase, 1)
  BY DEF Init
<1>2. /\ << >> \in Seq(Entries) /\ << >> \in Seq(Nat)
      /\ << >> \in Seq(Nat \X Nat) /\ 0 \in Nat /\ 1 \in Nat
  OBVIOUS
<1>3. /\ rt \in Runtimes /\ rt.mailbox = << >>
      /\ rt.lifecycle = "disconnected" => rt.data = 0
  <2>1. ASSUME NEW lifecycle \in {"disconnected", "connected"}, NEW n \in Nat
        PROVE  /\ runtime(lifecycle, phase, n) \in Runtimes
               /\ runtime(lifecycle, phase, n).mailbox = << >>
               /\ runtime(lifecycle, phase, n).lifecycle = lifecycle
               /\ runtime(lifecycle, phase, n).data = n
    BY <1>2 DEF runtime, Runtimes
  <2>2. CASE rt = runtime("disconnected", phase, 0)
    BY <1>2, <2>1, <2>2
  <2>3. CASE rt = runtime("connected", phase, 1)
    BY <1>2, <2>1, <2>3
  <2>4. QED
    BY <1>1, <2>2, <2>3
<1>4. inbox = << >> /\ sent = 0 /\ handled = << >>
  BY DEF Init
<1>5. QED
  BY <1>2, <1>3, <1>4
    DEF IndInv, TypeOK, Ordered, QueueInOrder, HistoryIsPast, Untouched,
        Scheduled, Marked, InTurn

(* A message joins the queue behind all that have been sent.               *)
LEMMA SendInv == IndInv /\ send => IndInv'
<1> SUFFICES ASSUME IndInv, send PROVE IndInv'
  OBVIOUS
<1> USE DEF IndInv, TypeOK
<1> DEFINE n == Len(inbox)
<1>1. sent' = sent + 1 /\ inbox' = Append(inbox, sent + 1)
      /\ rt' = rt /\ handled' = handled
  BY DEF send
<1>2. /\ n \in Nat /\ DOMAIN inbox = 1 .. n /\ inbox' \in Seq(Nat)
      /\ DOMAIN inbox' = 1 .. n + 1 /\ inbox'[n + 1] = sent + 1
      /\ \A i \in 1 .. n : inbox'[i] = inbox[i]
  BY <1>1
<1> HIDE DEF n
<1>3. /\ \A i \in 1 .. n + 1 : i \in 1 .. n \/ i = n + 1
      /\ \A i, j \in 1 .. n + 1 : i < j => i \in 1 .. n
      /\ \A i \in 1 .. n : inbox[i] \in Nat
  BY <1>2
<1>4. QueueInOrder(inbox)'
  <2>1. \A i \in 1 .. n : inbox'[i] <= sent /\ inbox'[i] \in Nat
    BY <1>2, <1>3 DEF QueueInOrder
  <2>2. \A i \in 1 .. n + 1 : inbox'[i] <= sent'
    BY <1>1, <1>2, <1>3, <2>1
  <2>3. ASSUME NEW i \in 1 .. n + 1, NEW j \in 1 .. n + 1, i < j
        PROVE  inbox'[i] < inbox'[j]
    <3>1. CASE j \in 1 .. n
      BY <1>2, <1>3, <2>3, <3>1 DEF QueueInOrder
    <3>2. CASE j = n + 1
      BY <1>2, <1>3, <2>1, <2>3, <3>2
    <3>3. QED
      BY <1>3, <3>1, <3>2
  <2>4. QED
    BY <1>2, <2>2, <2>3 DEF QueueInOrder
<1>5. ASSUME NEW x \in Nat, Earlier(x, inbox)
      PROVE  Earlier(x, inbox)'
  <2>1. x < sent + 1 /\ x <= sent + 1
    BY <1>5 DEF Earlier
  <2>2. \A i \in 1 .. n + 1 : x < inbox'[i]
    BY <1>2, <1>3, <1>5, <2>1 DEF Earlier
  <2>3. QED
    BY <1>1, <1>2, <2>1, <2>2 DEF Earlier
<1>6. \A j \in DOMAIN rt.mailbox : rt.mailbox[j].message \in Nat
  <2>1. rt.mailbox \in Seq(Entries)
    BY DEF Runtimes
  <2>2. \A j \in DOMAIN rt.mailbox : rt.mailbox[j] \in Entries
    BY <2>1
  <2>3. QED
    BY <2>2 DEF Entries
<1>7. (\A j \in DOMAIN rt.mailbox : Earlier(rt.mailbox[j].message, inbox))'
  BY <1>1, <1>5, <1>6
<1>8. HistoryIsPast(inbox)'
  <2>1. \A h \in DOMAIN handled : handled[h] \in Nat \X Nat
    OBVIOUS
  <2>2. \A h \in DOMAIN handled : handled[h][1] \in Nat
    BY <2>1
  <2>3. QED
    BY <1>1, <1>5, <2>2 DEF HistoryIsPast
<1>9. Untouched' /\ (rt.lifecycle = "connected" => Scheduled(rt.mailbox))'
  BY <1>1 DEF Untouched, Scheduled, Marked, InTurn, handled_in
<1>10. QED
  BY <1>1, <1>2, <1>4, <1>7, <1>8, <1>9 DEF Ordered

(* The initial phase is entered with an untouched mailbox.                 *)
LEMMA ConnectInv == IndInv /\ connect => IndInv'
<1> SUFFICES ASSUME IndInv, connect PROVE IndInv'
  OBVIOUS
<1> USE DEF IndInv
<1>1. /\ rt' = [rt EXCEPT !.lifecycle = "connected", !.data = 1]
      /\ inbox' = inbox /\ sent' = sent /\ handled' = handled
  BY DEF connect
<1>2. /\ rt' \in Runtimes /\ rt'.mailbox = rt.mailbox
      /\ rt'.lifecycle = "connected"
  BY <1>1 DEF TypeOK, Runtimes
<1>3. /\ handled = << >>
      /\ \A k \in DOMAIN rt.mailbox : ~rt.mailbox[k].postponed
  BY DEF Untouched, connect
<1>4. handled_in(rt.data)' = {}
  BY <1>1, <1>3 DEF handled_in
<1>5. Scheduled(rt.mailbox)'
  BY <1>2, <1>3, <1>4 DEF Scheduled, Marked, InTurn
<1>6. HistoryIsPast(inbox)'
  BY <1>1, <1>3 DEF HistoryIsPast
<1>7. QED
  BY <1>1, <1>2, <1>5, <1>6
    DEF TypeOK, Ordered, Earlier, QueueInOrder, Untouched

(* An actor that stops holds nothing.                                      *)
LEMMA StopInv ==
  ASSUME IndInv, rt' = stop(rt), UNCHANGED handled, sent' = sent,
         inbox' = inbox \/ (inbox # << >> /\ inbox' = Tail(inbox))
  PROVE  IndInv'
<1> USE DEF IndInv
<1>1. /\ rt' \in Runtimes /\ rt'.lifecycle = "stopped"
      /\ rt'.mailbox = << >> /\ rt'.data = rt.data
  BY StopEmpties DEF TypeOK
<1>2. /\ inbox' \in Seq(Nat) /\ QueueInOrder(inbox')
      /\ \A x : Earlier(x, inbox) => Earlier(x, inbox')
  <2>1. CASE inbox' = inbox
    BY <2>1 DEF TypeOK
  <2>2. CASE inbox # << >> /\ inbox' = Tail(inbox)
    BY <2>2, TakeFirst
  <2>3. QED
    BY <2>1, <2>2
<1>3. QueueInOrder(inbox)' /\ HistoryIsPast(inbox)'
  BY <1>1, <1>2 DEF QueueInOrder, HistoryIsPast, Earlier
<1>4. QED
  BY <1>1, <1>2, <1>3 DEF TypeOK, Ordered, Untouched

(* What the first message of the queue finds in the mailbox it joins.      *)
LEMMA AdmitInOrder ==
  ASSUME IndInv, inbox # << >>, inbox' = Tail(inbox), sent' = sent
  PROVE  LET r == enqueue(rt, Head(inbox))
             n == Len(rt.mailbox)
         IN  /\ r \in Runtimes /\ r.lifecycle = rt.lifecycle
             /\ r.data = rt.data /\ Ordered(r.mailbox)
             /\ Len(r.mailbox) = n + 1 /\ n \in Nat
             /\ DOMAIN r.mailbox = 1 .. n + 1 /\ DOMAIN rt.mailbox = 1 .. n
             /\ \A j \in 1 .. n : r.mailbox[j] = rt.mailbox[j]
             /\ r.mailbox[n + 1].message = Head(inbox)
             /\ ~r.mailbox[n + 1].postponed
             /\ \A j \in 1 .. n + 1 : j \in 1 .. n \/ j = n + 1
             /\ \A j \in 1 .. n + 1 : Earlier(r.mailbox[j].message, inbox')
<1> DEFINE r == enqueue(rt, Head(inbox))
           n == Len(rt.mailbox)
<1>1. /\ Head(inbox) \in Nat /\ Earlier(Head(inbox), inbox')
      /\ \A x : Earlier(x, inbox) => Earlier(x, inbox') /\ x < Head(inbox)
  BY TakeFirst DEF IndInv
<1>2. \A j \in DOMAIN rt.mailbox :
        /\ rt.mailbox[j].message < Head(inbox)
        /\ Earlier(rt.mailbox[j].message, inbox')
  BY <1>1 DEF IndInv
<1>3. rt \in Runtimes /\ Ordered(rt.mailbox)
  BY DEF IndInv, TypeOK
<1>4. /\ r \in Runtimes /\ r.lifecycle = rt.lifecycle
      /\ r.data = rt.data /\ Ordered(r.mailbox)
      /\ Len(r.mailbox) = n + 1 /\ n \in Nat
      /\ DOMAIN r.mailbox = 1 .. n + 1 /\ DOMAIN rt.mailbox = 1 .. n
      /\ \A j \in 1 .. n : r.mailbox[j] = rt.mailbox[j]
      /\ r.mailbox[n + 1].message = Head(inbox)
      /\ ~r.mailbox[n + 1].postponed
  <2> HIDE DEF IndInv
  <2>1. \A j \in DOMAIN rt.mailbox : rt.mailbox[j].message < Head(inbox)
    BY <1>2
  <2>2. QED
    BY <1>1, <1>3, <2>1, EnqueueInOrder
<1> HIDE DEF r, n
<1>5. \A j \in 1 .. n + 1 : j \in 1 .. n \/ j = n + 1
  BY <1>4
<1>6. \A j \in 1 .. n + 1 : Earlier(r.mailbox[j].message, inbox')
  BY <1>1, <1>2, <1>4, <1>5
<1>7. QED
  BY <1>4, <1>5, <1>6 DEF r, n

(* Before connect/2, messages are only admitted.                           *)
LEMMA AdmitDisconnectedInv == IndInv /\ admit_disconnected => IndInv'
<1> SUFFICES ASSUME IndInv, admit_disconnected PROVE IndInv'
  OBVIOUS
<1> DEFINE r == enqueue(rt, Head(inbox))
           n == Len(rt.mailbox)
<1>1. /\ inbox # << >> /\ inbox' = Tail(inbox) /\ sent' = sent
      /\ handled' = handled /\ rt.lifecycle = "disconnected"
  BY DEF admit_disconnected
<1>2. CASE full(rt)
  BY <1>1, <1>2, StopInv DEF admit_disconnected
<1>3. CASE ~full(rt)
  <2>1. rt' = r
    BY <1>3 DEF admit_disconnected
  <2>2. /\ r \in Runtimes /\ r.lifecycle = rt.lifecycle
        /\ r.data = rt.data /\ Ordered(r.mailbox)
        /\ DOMAIN r.mailbox = 1 .. n + 1 /\ DOMAIN rt.mailbox = 1 .. n
        /\ \A j \in 1 .. n : r.mailbox[j] = rt.mailbox[j]
        /\ ~r.mailbox[n + 1].postponed
        /\ \A j \in 1 .. n + 1 : j \in 1 .. n \/ j = n + 1
        /\ \A j \in 1 .. n + 1 : Earlier(r.mailbox[j].message, inbox')
    BY <1>1, AdmitInOrder
  <2> HIDE DEF r, n
  <2>3. /\ handled = << >> /\ rt.data = 0
        /\ \A j \in 1 .. n + 1 : ~r.mailbox[j].postponed
    BY <1>1, <2>2 DEF IndInv, Untouched
  <2>4. inbox' \in Seq(Nat) /\ QueueInOrder(inbox')
    BY <1>1, TakeFirst DEF IndInv
  <2>5. QueueInOrder(inbox)'
        /\ (\A j \in DOMAIN rt.mailbox : Earlier(rt.mailbox[j].message, inbox))'
    BY <1>1, <2>1, <2>2, <2>4 DEF QueueInOrder, Earlier
  <2>6. Untouched' /\ HistoryIsPast(inbox)' /\ TypeOK'
    BY <1>1, <2>1, <2>2, <2>3, <2>4
      DEF Untouched, HistoryIsPast, IndInv, TypeOK
  <2>7. QED
    BY <1>1, <2>1, <2>2, <2>5, <2>6 DEF IndInv, Ordered
<1>4. QED
  BY <1>2, <1>3

(* The oldest eligible message that is held has its turn.                  *)
LEMMA ProcessMessagesInv == IndInv /\ process_messages => IndInv'
<1> SUFFICES ASSUME IndInv, process_messages PROVE IndInv'
  OBVIOUS
<1>1. PICK k \in eligible(rt), c \in Conclusions :
        selected(rt, k) /\ process(rt, k, c)
  BY DEF process_messages
<1>2. PICK r : r = rt
  OBVIOUS
<1>3. /\ r \in Runtimes /\ r.lifecycle = "connected" /\ r.data = rt.data
      /\ k \in DOMAIN r.mailbox /\ selected(r, k) /\ process(r, k, c)
      /\ Ordered(r.mailbox) /\ Scheduled(r.mailbox)
  BY <1>1, <1>2
    DEF IndInv, TypeOK, process_messages, connected, eligible
<1>4. inbox' = inbox /\ sent' = sent
  BY DEF process_messages
<1>5. /\ handled \in Seq(Nat \X Nat) /\ inbox' \in Seq(Nat) /\ sent \in Nat
      /\ QueueInOrder(inbox') /\ HistoryIsPast(inbox')
      /\ \A j \in DOMAIN r.mailbox : Earlier(r.mailbox[j].message, inbox')
  BY <1>2, <1>4 DEF IndInv, TypeOK
<1>6. QED
  BY ONLY <1>1, <1>3, <1>4, <1>5, ProcessInv

(* A message finds all that is held postponed, so its turn comes at once.  *)
LEMMA AdmitAndProcessInv == IndInv /\ admit_and_process => IndInv'
<1> SUFFICES ASSUME IndInv, admit_and_process PROVE IndInv'
  OBVIOUS
<1>1. /\ inbox # << >> /\ inbox' = Tail(inbox) /\ sent' = sent
      /\ rt.lifecycle = "connected" /\ eligible(rt) = {}
  BY DEF admit_and_process, connected, quiescent
<1>2. CASE full(rt)
  BY <1>1, <1>2, StopInv DEF admit_and_process
<1>3. CASE ~full(rt)
  <2>1. PICK r, n : r = enqueue(rt, Head(inbox)) /\ n = Len(rt.mailbox)
    OBVIOUS
  <2>2. /\ r \in Runtimes /\ r.lifecycle = rt.lifecycle
        /\ r.data = rt.data /\ Ordered(r.mailbox)
        /\ Len(r.mailbox) = n + 1 /\ n \in Nat
        /\ DOMAIN r.mailbox = 1 .. n + 1 /\ DOMAIN rt.mailbox = 1 .. n
        /\ \A j \in 1 .. n : r.mailbox[j] = rt.mailbox[j]
        /\ r.mailbox[n + 1].message = Head(inbox)
        /\ ~r.mailbox[n + 1].postponed
        /\ \A j \in 1 .. n + 1 : j \in 1 .. n \/ j = n + 1
        /\ \A j \in 1 .. n + 1 : Earlier(r.mailbox[j].message, inbox')
    BY <1>1, <2>1, AdmitInOrder
  <2>3. /\ inbox' \in Seq(Nat) /\ QueueInOrder(inbox') /\ Head(inbox) \in Nat
        /\ \A x : Earlier(x, inbox) => Earlier(x, inbox') /\ x < Head(inbox)
    BY <1>1, TakeFirst DEF IndInv
  <2>4. HistoryIsPast(inbox')
    BY <2>3 DEF IndInv, HistoryIsPast
  <2>5. \A m \in handled_in(r.data) :
          m \in Nat /\ m < Head(inbox) /\ m # Head(inbox)
    <3>1. \A h \in DOMAIN handled :
            handled[h] \in Nat \X Nat /\ Earlier(handled[h][1], inbox)
      BY DEF IndInv, TypeOK, HistoryIsPast
    <3>2. \A h \in DOMAIN handled :
            handled[h][1] \in Nat /\ handled[h][1] < Head(inbox)
      BY <2>3, <3>1
    <3>3. \A m \in handled_in(r.data) : m \in Nat /\ m < Head(inbox)
      BY <3>2 DEF handled_in
    <3>4. QED
      BY <2>3, <3>3
  <2>6. Scheduled(rt.mailbox) /\ handled_in(r.data) = handled_in(rt.data)
    BY <1>1, <2>2 DEF IndInv
  <2>7. Marked(r.mailbox, handled_in(rt.data))
    BY <2>2, <2>5, <2>6 DEF Scheduled, Marked
  <2>8. InTurn(r.mailbox, handled_in(rt.data))
    <3>1. \A m \in handled_in(rt.data) : ~(Head(inbox) < m)
      BY <2>3, <2>5, <2>6
    <3>2. QED
      BY <2>2, <2>6, <3>1 DEF Scheduled, InTurn
  <2>9. n + 1 \in DOMAIN r.mailbox /\ selected(r, n + 1)
    <3>1. \A j \in 1 .. n : rt.mailbox[j].postponed
      BY <1>1, <2>2 DEF eligible
    <3>2. \A j \in 1 .. n : r.mailbox[j].postponed
      BY <2>2, <3>1
    <3>3. n + 1 \in 1 .. n + 1 /\ n + 1 <= n + 1
      BY <2>2
    <3>4. eligible(r) = {n + 1}
      <4>1. n + 1 \in eligible(r)
        BY <2>2, <3>3 DEF eligible
      <4>2. \A j \in eligible(r) : j = n + 1
        BY <2>2, <3>2 DEF eligible
      <4>3. QED
        BY <4>1, <4>2
    <3>5. QED
      BY <2>2, <3>3, <3>4 DEF selected
  <2>10. PICK c \in Conclusions : process(r, n + 1, c)
    BY <1>3, <2>1, <2>2 DEF admit_and_process
  <2>11. PICK k : k = n + 1
    OBVIOUS
  <2>12. /\ r.lifecycle = "connected" /\ r.data = rt.data
         /\ k \in DOMAIN r.mailbox /\ selected(r, k) /\ process(r, k, c)
         /\ Scheduled(r.mailbox)
         /\ \A j \in DOMAIN r.mailbox : Earlier(r.mailbox[j].message, inbox')
    BY <1>1, <2>2, <2>7, <2>8, <2>9, <2>10, <2>11 DEF Scheduled
  <2>13. handled \in Seq(Nat \X Nat) /\ sent \in Nat
    BY DEF IndInv, TypeOK
  <2>14. QED
    BY ONLY <1>1, <2>2, <2>3, <2>4, <2>10, <2>12, <2>13, ProcessInv
<1>4. QED
  BY <1>2, <1>3

(* For every callback the bounded scheduler keeps its mailbox in order and *)
(* its marks true.                                                         *)
THEOREM Inductive == Spec => []IndInv
<1>1. Init => IndInv
  BY InitInv
<1>2. IndInv /\ [Next]_vars => IndInv'
  <2> SUFFICES ASSUME IndInv, [Next]_vars PROVE IndInv'
    OBVIOUS
  <2>1. CASE send
    BY <2>1, SendInv
  <2>2. CASE connect
    BY <2>2, ConnectInv
  <2>3. CASE admit_disconnected
    BY <2>3, AdmitDisconnectedInv
  <2>4. CASE process_messages
    BY <2>4, ProcessMessagesInv
  <2>5. CASE admit_and_process
    BY <2>5, AdmitAndProcessInv
  <2>6. CASE unsupported
    BY <2>6, StopInv DEF unsupported
  <2>7. CASE UNCHANGED vars
    BY <2>7
      DEF vars, IndInv, TypeOK, Ordered, Earlier, QueueInOrder, HistoryIsPast,
          Untouched, Scheduled, Marked, InTurn, handled_in
  <2>8. QED
    BY <2>1, <2>2, <2>3, <2>4, <2>5, <2>6, <2>7 DEF Next
<1>3. QED
  BY <1>1, <1>2, PTL DEF Spec

(* No message is handled before an older one that is still retained has    *)
(* had its turn in the same occupancy: a boundary releases all that        *)
(* finish_transition/2 had postponed, and select/2 takes the oldest.       *)
THEOREM OlderFirst == Spec => []NoOvertaking
<1>1. IndInv => NoOvertaking
  BY DEF IndInv, Scheduled, InTurn, NoOvertaking, retained
<1>2. QED
  BY <1>1, Inductive, PTL

(* The postponed set of hls_statem names exactly the retained messages     *)
(* that the callback has refused since its phase was last entered.         *)
THEOREM MarksAreTrue == Spec => []PostponedThisOccupancy
<1>1. IndInv => PostponedThisOccupancy
  BY DEF IndInv, Scheduled, Marked, PostponedThisOccupancy
<1>2. QED
  BY <1>1, Inductive, PTL
=============================================================================
