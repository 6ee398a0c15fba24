--------------------------- MODULE NoiseMeshProofs ---------------------------
(***************************************************************************)
(* Theorems about NoiseMesh, for every mesh of syndromes and data cells,   *)
(* number of rounds, cutoff and width of the counters.  Of a round and an  *)
(* edge only one message is ever under way: the invariant says which one,  *)
(* from what the two cells have counted, and what it carries, from the     *)
(* histories.                                                              *)
(***************************************************************************)
EXTENDS NoiseMesh, FiniteSetTheorems, WellFoundedInduction, TLAPS

one_if(b) == IF b THEN 1 ELSE 0

(* A message in a mailbox that has not been tried yet.                     *)
fresh(m) == [message |-> m, postponed |-> FALSE]

SyndromeData ==
  [step : Nat, seen_sources : SUBSET Ports, data_parity : Bit,
   previous_measurement : Bit, announcement : Bit, data_quiet : Bit,
   announcement_quiet : Bit, noise_disabled : Bit, cutoff_armed : Bit,
   cutoff_step : Nat]

DataData ==
  [step : Nat, seen_sources : SUBSET Ports, event : Bit,
   accumulated_pauli : [x : Bit, z : Bit], reply_request_id : Nat,
   reply_anticommutes : Bit, reply_resume : {"none", "collecting", "reporting"},
   noise_disabled : Bit, cutoff_armed : Bit, cutoff_step : Nat]

Reply == [tag : {"pauli_reply"}, request_id : Nat, anticommutes : Bit]

FromHost ==
  {pauli_update}
    \cup [tag : {"pauli_query"}, request_id : Nat, measurement : Measurements]

(* Rounds whose every source a cell has heard, rounds in which it has      *)
(* heard the one on port p, and the queries that a syndrome has cast.      *)
complete(c) == data(c).step + one_if(data(c).seen_sources = Ports)
heard(c, p) == data(c).step + one_if(p \in data(c).seen_sources)
queried(s) == IF rt[s].phase = "configuring" THEN 0 ELSE data(s).step + 1

(* Round n is from the first quiet one on.                                 *)
quiet(n) == one_if(n >= first_quiet)

error(d, n) == xor(parity_after(errors[d], n), parity_after(errors[d], n + 1))
event(s, n) ==
  xor(parity_after(announced[s], n), parity_after(announced[s], n + 1))

(* The messages of round n.                                                *)
report(d, n, p) ==
  [tag |-> "phenom_data", step |-> n, source |-> p, present |-> error(d, n),
   quiet |-> quiet(n)]
result(s, n) ==
  [tag |-> "phenom_anyon", step |-> n, present |-> event(s, n),
   quiet |-> quiet(n)]

(* Of an edge, the query, its round at the data cell, the report and what  *)
(* follows it: one of these at a time.                                     *)
Edge(s, p) ==
  LET d == data_at[s][p]
      o == opposite[p]
  IN  /\ heard(s, p) <= complete(d) /\ heard(d, o) <= queried(s)
      /\ link[d][s] = IF heard(d, o) < queried(s)
                      THEN <<SC!phenom_query(heard(d, o), o)>> ELSE << >>
      /\ link[s][d] = IF heard(s, p) < complete(d)
                      THEN <<report(d, heard(s, p), p)>> ELSE << >>

(* Nothing else comes from a cell, nor from the decoder to a data cell.    *)
Silent ==
  /\ \A c \in Cells, x \in Cells :
       (\A p \in Ports : neighbor_at(c)[p] # x) => link[c][x] = << >>
  /\ \A d \in Datas : link[d]["phi"] = << >>

(* Configuration and cutoff, not all of them handled yet.                  *)
configuration == <<phenom_config, noise_cutoff(first_quiet)>>
initial(c) == IF c \in Syndromes THEN SC!syndrome ELSE DC!data_cell

Configuring(c) ==
  /\ rt[c].phase = "configuring"
  /\ rt[c].data = initial(c)
  /\ \/ /\ rt[c].lifecycle = "disconnected"
        /\ rt[c].mailbox = << >> /\ link[c]["host"] = configuration
     \/ /\ rt[c].lifecycle = "disconnected"
        /\ rt[c].mailbox = <<fresh(phenom_config)>>
        /\ link[c]["host"] = <<noise_cutoff(first_quiet)>>
     \/ /\ rt[c].mailbox
             = <<fresh(phenom_config), fresh(noise_cutoff(first_quiet))>>
        /\ rt[c].lifecycle = "disconnected" => link[c]["host"] = << >>

Arming(c) ==
  /\ connected(rt[c]) /\ rt[c].phase = "collecting"
  /\ rt[c].mailbox = <<fresh(noise_cutoff(first_quiet))>>
  /\ data(c).step = 0 /\ data(c).seen_sources = {}
  /\ data(c).noise_disabled = 0 /\ data(c).cutoff_armed = 0

(* The mailbox of a cell that is neither holds at most the request that a  *)
(* syndrome has postponed.                                                 *)
asked_for(s) ==
  [message |-> phenom_request(data(s).step),
   postponed |-> rt[s].phase = "collecting"]
holding(c) == c \in Syndromes /\ rt[c].mailbox = <<asked_for(c)>>

Running(c) ==
  /\ connected(rt[c])
  /\ rt[c].phase # "configuring"
  /\ rt[c].mailbox = << >> \/ holding(c)
  /\ data(c).noise_disabled = one_if(complete(c) > first_quiet)
  /\ data(c).cutoff_armed = one_if(complete(c) <= first_quiet)
  /\ complete(c) <= first_quiet => data(c).cutoff_step = first_quiet

Stage(c) == Configuring(c) \/ Arming(c) \/ Running(c)

(* The requests of a decoder cell and what it gets for them.               *)
Asking(s) ==
  /\ requested[s] \in 0 .. MaxStep + 1
  /\ link[s]["phi"] \in {<< >>, <<phenom_request(data(s).step)>>}
  /\ requested[s] = data(s).step + Len(link[s]["phi"]) + one_if(holding(s))
  /\ requested[s] <= data(s).step + 1
  /\ \/ announcements[s] = << >>
     \/ /\ data(s).step > 0 /\ requested[s] = data(s).step
        /\ announcements[s] = <<result(s, data(s).step - 1)>>
  /\ announcements[s] = << >> /\ requested[s] = data(s).step =>
       requested[s] \in {0, MaxStep + 1}
  /\ requested[s] > 0 => all_connected(Cells)
  /\ s \in certified <=>
       data(s).step - Len(announcements[s]) > first_quiet

Phases ==
  /\ \A s \in Syndromes :
       /\ rt[s].phase \in {"configuring", "collecting", "announcing"}
       /\ rt[s].phase = "announcing" <=> data(s).seen_sources = Ports
       /\ connected(rt[s]) => link[s]["host"] = << >>
       /\ connected(rt[s]) => all_connected(Datas)
  /\ \A d \in Datas :
       /\ rt[d].phase \in {"configuring", "collecting", "reporting", "replying"}
       /\ rt[d].phase = "collecting" => data(d).seen_sources # Ports
       /\ rt[d].phase = "reporting" => data(d).seen_sources = Ports
       /\ rt[d].phase = "replying" =>
            /\ data(d).noise_disabled = 1
            /\ data(d).reply_resume =
                 IF data(d).seen_sources = Ports THEN "reporting" ELSE "collecting"

(* What a syndrome has counted of its present round and announced so far.  *)
flipped(s, n) ==
  {p \in Ports : parity_after(errors[data_at[s][p]], n) = 1}
reported(s) ==
  {p \in data(s).seen_sources : error(data_at[s][p], data(s).step) = 1}

Announces(s) ==
  /\ Len(announced[s]) = complete(s)
  /\ rt[s].phase # "announcing" => data(s).data_parity = odd(reported(s))
  /\ rt[s].phase = "collecting" =>
       data(s).data_quiet =
         IF data(s).seen_sources = {} THEN 1 ELSE quiet(data(s).step)
  /\ rt[s].phase = "announcing" =>
       /\ data(s).announcement = event(s, data(s).step)
       /\ data(s).announcement_quiet = quiet(data(s).step)
  /\ complete(s) > first_quiet => data(s).previous_measurement = 0
  /\ parity(announced[s])
       = xor(odd(flipped(s, complete(s))), data(s).previous_measurement)
  /\ \A n \in Nat : n > first_quiet /\ n < complete(s) => event(s, n) = 0

(* What the host has sent to a data cell and is still under way.           *)
unanswered(d) == Len(asked) - Len(replies[d])
pending(d) == Len(link[d]["host"]) - unanswered(d)
answer(d, k) ==
  (parity(errors[d]) * asked[k].z + (parity(errors[d]) + updates[d]) * asked[k].x)
    % 2

Hosted(d) ==
  /\ Len(errors[d]) = complete(d)
  /\ \A n \in Nat : n >= first_quiet /\ n < complete(d) => error(d, n) = 0
  /\ Len(replies[d]) <= Len(asked)
  /\ \A k \in DOMAIN replies[d] :
       replies[d][k] = [tag |-> "pauli_reply", request_id |-> k - 1,
                        anticommutes |-> answer(d, k)]
  /\ connected(rt[d]) =>
       /\ link[d]["host"] \in Seq(FromHost)
       /\ pending(d) \in 0 .. updates[d]
       /\ \A k \in DOMAIN link[d]["host"] :
            link[d]["host"][k] =
              IF k <= pending(d) THEN pauli_update
              ELSE pauli_query(Len(replies[d]) + k - pending(d) - 1,
                               asked[Len(replies[d]) + k - pending(d)])
       /\ replies[d] # << >> => pending(d) = 0
       /\ data(d).accumulated_pauli =
            [x |-> parity(errors[d]),
             z |-> xor(parity(errors[d]), (updates[d] - pending(d)) % 2)]
  /\ ~connected(rt[d]) => updates[d] = 0 /\ asked = << >>

Types ==
  /\ first_quiet \in 0 .. MaxCutoff
  /\ rt = [c \in Cells |-> rt[c]]
  /\ \A c \in Cells :
       /\ rt[c] = [lifecycle |-> rt[c].lifecycle, phase |-> rt[c].phase,
                   data |-> rt[c].data, mailbox |-> rt[c].mailbox]
       /\ rt[c].lifecycle \in {"disconnected", "connected"}
  /\ \A s \in Syndromes : data(s) \in SyndromeData
  /\ \A d \in Datas : data(d) \in DataData
  /\ link = [c \in Cells |-> [x \in Senders |-> link[c][x]]]
  /\ announcements = [s \in Syndromes |-> announcements[s]]
  /\ replies \in [Datas -> Seq(Reply)]
  /\ requested \in [Syndromes -> Nat]
  /\ errors \in [Datas -> Seq(Bit)] /\ announced \in [Syndromes -> Seq(Bit)]
  /\ updates \in [Datas -> Nat] /\ asked \in Seq(Measurements)
  /\ certified \subseteq Syndromes
  /\ asked # << >> => certified = Syndromes

IInv ==
  /\ Types /\ Silent /\ Phases
  /\ \A c \in Cells : Stage(c)
  /\ \A s \in Syndromes, p \in Ports : Edge(s, p)
  /\ \A s \in Syndromes : Asking(s) /\ Announces(s)
  /\ \A d \in Datas : Hosted(d)
-----------------------------------------------------------------------------
(* The mesh.                                                               *)
(* Every port leads to another cell, whose opposite port leads back.       *)
LEMMA Edges ==
  ASSUME NEW s \in Syndromes, NEW p \in Ports
  PROVE  /\ data_at[s][p] \in Datas /\ opposite[p] \in Ports
         /\ syndrome_at[data_at[s][p]][opposite[p]] = s
         /\ \A q \in Ports : data_at[s][q] = data_at[s][p] => q = p
         /\ s \in Cells /\ s \notin Datas /\ data_at[s][p] \in Cells
         /\ s \in Senders /\ data_at[s][p] \in Senders
BY NoiseMeshAssumption DEF Cells, Senders

(* A data cell seen from a syndrome at one of its ports.                   *)
LEMMA DataEdges ==
  ASSUME NEW d \in Datas, NEW o \in Ports
  PROVE  /\ syndrome_at[d][o] \in Syndromes /\ opposite[o] \in Ports
         /\ data_at[syndrome_at[d][o]][opposite[o]] = d
         /\ opposite[opposite[o]] = o
         /\ \A q \in Ports : syndrome_at[d][q] = syndrome_at[d][o] => q = o
         /\ d \in Cells /\ d \notin Syndromes /\ syndrome_at[d][o] \in Cells
         /\ d \in Senders /\ syndrome_at[d][o] \in Senders
<1>1. /\ syndrome_at[d][o] \in Syndromes /\ opposite[o] \in Ports
      /\ data_at[syndrome_at[d][o]][opposite[o]] = d
      /\ \A q \in Ports : syndrome_at[d][q] = syndrome_at[d][o] => q = o
      /\ d \in Cells /\ d \notin Syndromes /\ syndrome_at[d][o] \in Cells
      /\ d \in Senders /\ syndrome_at[d][o] \in Senders
  BY NoiseMeshAssumption DEF Cells, Senders
<1>2. opposite[opposite[o]] = o
  <2>1. syndrome_at[d][opposite[opposite[o]]] = syndrome_at[d][o]
    BY <1>1, NoiseMeshAssumption
  <2>2. opposite[opposite[o]] \in Ports
    BY NoiseMeshAssumption
  <2>3. QED
    BY <1>1, <2>1, <2>2
<1>3. QED
  BY <1>1, <1>2

(* The host and the decoder are no cells, nor are their outputs ports.     *)
LEMMA Others ==
  /\ "host" \notin Cells /\ "phi" \notin Cells
  /\ "host" \in Senders /\ "phi" \in Senders
  /\ "phi" \notin Ports /\ "measurement" \notin Ports
  /\ Cells \subseteq Senders /\ Syndromes \subseteq Cells /\ Datas \subseteq Cells
BY NoiseMeshAssumption DEF Cells, Senders

(* Syndromes and data cells are each other's neighbors.                    *)
LEMMA NeighborOf ==
  /\ \A s \in Syndromes : neighbor_at(s) = data_at[s]
  /\ \A d \in Datas : neighbor_at(d) = syndrome_at[d]
BY NoiseMeshAssumption DEF neighbor_at

(* A cell has another neighbor at every port.                              *)
LEMMA Neighbors ==
  ASSUME NEW c \in Cells, NEW p \in Ports
  PROVE  /\ neighbor_at(c)[p] \in Cells /\ neighbor_at(c)[p] # c
         /\ \A q \in Ports : neighbor_at(c)[q] = neighbor_at(c)[p] => q = p
<1>1. CASE c \in Syndromes
  BY <1>1, Edges, NeighborOf
<1>2. CASE c \in Datas
  BY <1>2, DataEdges, NeighborOf
<1>3. QED
  BY <1>1, <1>2 DEF Cells

(* There are several ports, and bounds are numbers.                        *)
LEMMA Numbers ==
  /\ MaxCutoff \in Nat /\ MaxStep \in Nat /\ U32 \in Nat
  /\ MaxCutoff <= MaxStep /\ MaxStep + 1 < U32
  /\ \A p \in Ports : {p} # Ports
  /\ Ports # {}
  /\ MailboxCapacity \in Nat /\ MailboxCapacity > 1
<1>1. \A p \in Ports : {p} # Ports
  <2>1. \A p \in Ports : Cardinality({p}) = 1
    BY FS_Singleton
  <2>2. QED
    BY <2>1, NoiseMeshAssumption
<1>2. Ports # {}
  <2>1. Cardinality({}) = 0
    BY FS_EmptySet
  <2>2. Cardinality(Ports) > 1
    BY NoiseMeshAssumption
  <2>3. SUFFICES ASSUME Ports = {} PROVE FALSE
    OBVIOUS
  <2>4. Cardinality(Ports) = 0
    BY <2>1, <2>3
  <2>5. QED
    BY <2>2, <2>4
<1>3. QED
  BY <1>1, <1>2, NoiseMeshAssumption, StatemAssumption
-----------------------------------------------------------------------------
(* Links and mailboxes.                                                    *)
formed(L) == L = [c \in Cells |-> [x \in Senders |-> L[c][x]]]

(* Only one queue of one cell is shorter once its head is taken.           *)
LEMMA Received ==
  ASSUME formed(link), NEW c \in Cells, NEW x \in Senders
  PROVE  /\ formed(received(c, x))
         /\ received(c, x)[c][x] = Tail(link[c][x])
         /\ \A u \in Cells, v \in Senders :
              u # c \/ v # x => received(c, x)[u][v] = link[u][v]
BY DEF formed, received

(* C is L with the casts of c on every port.                               *)
carries(L, C, c, casts) ==
  /\ formed(C)
  /\ \A p \in Ports : C[neighbor_at(c)[p]][c]
                         = L[neighbor_at(c)[p]][c] \o casts[p]
  /\ \A u \in Cells, v \in Senders :
       (v # c \/ \A p \in Ports : neighbor_at(c)[p] # u) =>
         C[u][v] = L[u][v]

(* What a cell casts is appended at each neighbor, and nowhere else.       *)
LEMMA Casting ==
  ASSUME NEW L, formed(L), NEW c \in Cells, NEW casts
  PROVE  carries(L, cast(L, c, casts), c, casts)
<1> DEFINE C == cast(L, c, casts)
           heads(n) == CHOOSE p \in Ports : neighbor_at(c)[p] = n
<1>1. c \in Senders
  BY Others
<1>2. ASSUME NEW n \in Cells, NEW p \in Ports, neighbor_at(c)[p] = n
      PROVE  C[n] = [L[n] EXCEPT ![c] = @ \o casts[p]]
  <2>1. heads(n) \in Ports /\ neighbor_at(c)[heads(n)] = n
    BY <1>2
  <2>2. heads(n) = p
    BY <1>2, <2>1, Neighbors
  <2>3. C[n] = [L[n] EXCEPT ![c] = @ \o casts[heads(n)]]
    BY <1>2 DEF cast
  <2>4. QED
    BY <2>2, <2>3
<1>3. ASSUME NEW n \in Cells, \A p \in Ports : neighbor_at(c)[p] # n
      PROVE  C[n] = L[n]
  BY <1>3 DEF cast
<1>4. \A n \in Cells : L[n] = [x \in Senders |-> L[n][x]]
  BY DEF formed
<1>5. C = [n \in Cells |-> C[n]]
  BY DEF cast
<1> HIDE DEF C
<1>6. \A n \in Cells : C[n] = [x \in Senders |-> C[n][x]]
  <2> TAKE n \in Cells
  <2>1. CASE \E p \in Ports : neighbor_at(c)[p] = n
    <3>1. PICK p \in Ports : neighbor_at(c)[p] = n
      BY <2>1
    <3>2. C[n] = [L[n] EXCEPT ![c] = @ \o casts[p]]
      BY <1>2, <3>1
    <3>3. QED
      BY <1>1, <1>4, <3>2
  <2>2. CASE \A p \in Ports : neighbor_at(c)[p] # n
    BY <1>3, <1>4, <2>2
  <2>3. QED
    BY <2>1, <2>2
<1>7. formed(C)
  BY <1>5, <1>6 DEF formed
<1>8. \A p \in Ports :
        C[neighbor_at(c)[p]][c] = L[neighbor_at(c)[p]][c] \o casts[p]
  <2> TAKE p \in Ports
  <2>1. neighbor_at(c)[p] \in Cells
    BY Neighbors
  <2>2. C[neighbor_at(c)[p]]
          = [L[neighbor_at(c)[p]] EXCEPT ![c] = @ \o casts[p]]
    BY <1>2, <2>1
  <2>3. QED
    BY <1>1, <1>4, <2>1, <2>2
<1>9. ASSUME NEW u \in Cells, NEW v \in Senders,
             v # c \/ \A p \in Ports : neighbor_at(c)[p] # u
      PROVE  C[u][v] = L[u][v]
  <2>1. CASE \A p \in Ports : neighbor_at(c)[p] # u
    BY <1>3, <2>1
  <2>2. CASE \E p \in Ports : neighbor_at(c)[p] = u
    <3>1. PICK p \in Ports : neighbor_at(c)[p] = u
      BY <2>2
    <3>2. C[u] = [L[u] EXCEPT ![c] = @ \o casts[p]]
      BY <1>2, <3>1
    <3>3. v # c
      BY <1>9, <2>2
    <3>4. QED
      BY <1>4, <3>2, <3>3
  <2>3. QED
    BY <2>1, <2>2
<1>10. QED
  BY <1>7, <1>8, <1>9 DEF C, carries

(* Sequences of none and of one element.                                  *)
LEMMA Singles ==
  ASSUME NEW S, NEW q \in Seq(S)
  PROVE  /\ Len(q) = 0 => q = << >>
         /\ Len(q) = 1 => q = <<q[1]>>
<1>1. ASSUME Len(q) = 0 PROVE q = << >>
  BY <1>1
<1>2. ASSUME Len(q) = 1 PROVE q = <<q[1]>>
  BY <1>2
<1>3. QED
  BY <1>1, <1>2

(* Mailboxes of one or two messages.                                       *)
LEMMA Short ==
  ASSUME NEW a, NEW b
  PROVE  /\ Append(<< >>, a) = <<a>> /\ Append(<<a>>, b) = <<a, b>>
         /\ << >> \o <<a>> = <<a>> /\ << >> \o << >> = << >>
         /\ <<a>> \o << >> = <<a>>
         /\ Len(<< >>) = 0 /\ Len(<<a>>) = 1 /\ Len(<<a, b>>) = 2
         /\ Head(<<a>>) = a /\ Tail(<<a>>) = << >>
         /\ Head(<<a, b>>) = a /\ Tail(<<a, b>>) = <<b>>
<1>1. << >> \in Seq({a, b}) /\ <<a>> \in Seq({a, b}) /\ <<a, b>> \in Seq({a, b})
  OBVIOUS
<1>2. Append(<< >>, a) = <<a>>
  BY <1>1
<1>3. Append(<<a>>, b) = <<a, b>>
  <2> DEFINE q == Append(<<a>>, b)
  <2>1. q \in Seq({a, b}) /\ Len(q) = 2 /\ q[1] = a /\ q[2] = b
    BY <1>1
  <2> HIDE DEF q
  <2>2. q = <<a, b>>
    BY <2>1
  <2>3. QED
    BY <2>2 DEF q
<1>4. Len(<< >>) = 0 /\ Len(<<a>>) = 1 /\ Len(<<a, b>>) = 2
  OBVIOUS
<1>5. << >> \o <<a>> = <<a>> /\ << >> \o << >> = << >> /\ <<a>> \o << >> = <<a>>
  OBVIOUS
<1>6. Head(<<a>>) = a /\ Tail(<<a>>) = << >>
  OBVIOUS
<1>7. Head(<<a, b>>) = a /\ Tail(<<a, b>>) = <<b>>
  OBVIOUS
<1>8. QED
  BY <1>2, <1>3, <1>4, <1>5, <1>6, <1>7

(* A mailbox holds no more than two messages.                              *)
LEMMA ShortRemoval ==
  ASSUME NEW a, NEW b
  PROVE  /\ RemoveAt(<<a>>, 1) = << >>
         /\ RemoveAt(<<a, b>>, 1) = <<b>> /\ RemoveAt(<<a, b>>, 2) = <<a>>
<1>1. RemoveAt(<<a>>, 1) = << >>
  BY DEF RemoveAt
<1> DEFINE q == <<a, b>>
           S == {a, b}
<1>2. q \in Seq(S) /\ Len(q) = 2 /\ q[1] = a /\ q[2] = b
  OBVIOUS
<1> HIDE DEF q, S
<1>3. /\ SubSeq(q, 1, 1) \in Seq(S) /\ Len(SubSeq(q, 1, 1)) = 1
      /\ SubSeq(q, 1, 1)[1] = a
  BY <1>2
<1>4. /\ SubSeq(q, 2, 2) \in Seq(S) /\ Len(SubSeq(q, 2, 2)) = 1
      /\ SubSeq(q, 2, 2)[1] = b
  BY <1>2
<1>5. SubSeq(q, 1, 1) = <<a>> /\ SubSeq(q, 2, 2) = <<b>>
  BY <1>3, <1>4, Singles
<1>6. SubSeq(q, 1, 0) = << >> /\ SubSeq(q, 3, 2) = << >>
  BY <1>2
<1>7. RemoveAt(q, 1) = << >> \o <<b>> /\ RemoveAt(q, 2) = <<a>> \o << >>
  <2>1. /\ RemoveAt(q, 1) = SubSeq(q, 1, 1 - 1) \o SubSeq(q, 1 + 1, Len(q))
        /\ RemoveAt(q, 2) = SubSeq(q, 1, 2 - 1) \o SubSeq(q, 2 + 1, Len(q))
    BY DEF RemoveAt
  <2>2. 1 - 1 = 0 /\ 1 + 1 = 2 /\ 2 - 1 = 1 /\ 2 + 1 = 3
    OBVIOUS
  <2>3. QED
    BY <1>2, <1>5, <1>6, <2>1, <2>2
<1>8. RemoveAt(q, 1) = <<b>> /\ RemoveAt(q, 2) = <<a>>
  BY <1>7, Short
<1>9. QED
  BY <1>1, <1>8 DEF q

(* A message whose attempt is recorded.                                    *)
LEMMA Marked ==
  ASSUME NEW m, NEW b, NEW n
  PROVE  [[message |-> m, postponed |-> b] EXCEPT !.postponed = n]
           = [message |-> m, postponed |-> n]
OBVIOUS

(* Releasing a mailbox of one message makes it fresh again.                *)
LEMMA ShortRelease ==
  ASSUME NEW m, NEW b
  PROVE  /\ released(<< >>) = << >>
         /\ released(<<[message |-> m, postponed |-> b]>>) = <<fresh(m)>>
<1>1. released(<< >>) = << >>
  BY DEF released
<1>2. released(<<[message |-> m, postponed |-> b]>>) = <<fresh(m)>>
  <2> DEFINE e == [message |-> m, postponed |-> b]
  <2>1. [e EXCEPT !.postponed = FALSE] = fresh(m)
    BY Marked DEF fresh
  <2>2. released(<<e>>) = [k \in 1 .. 1 |-> [<<e>>[k] EXCEPT !.postponed = FALSE]]
    BY DEF released
  <2>3. \A k \in 1 .. 1 : k = 1
    OBVIOUS
  <2> HIDE DEF e
  <2>4. released(<<e>>) = [k \in 1 .. 1 |-> fresh(m)]
    BY <2>1, <2>2, <2>3
  <2>5. QED
    BY <2>4 DEF e
<1>3. QED
  BY <1>1, <1>2
-----------------------------------------------------------------------------
(* Parities.                                                               *)
LEMMA Xor ==
  /\ \A a, b \in Bit : xor(a, b) \in Bit /\ xor(a, b) = xor(b, a)
  /\ \A a \in Bit : xor(a, 0) = a /\ xor(a, a) = 0
  /\ \A a, b, c \in Bit : xor(xor(a, b), c) = xor(a, xor(b, c))
  /\ \A a, b \in Bit : xor(a, xor(a, b)) = b
  /\ \A a, b \in Bit : xor(a, b) = 0 <=> a = b
  /\ \A a, b \in Bit : SC!xor(a, b) = xor(a, b) /\ DC!xor(a, b) = xor(a, b)
BY DEF Bit, xor, SC!xor, DC!xor

(* The parity of a set is a bit,                                           *)
LEMMA OddBit ==
  ASSUME NEW S, IsFiniteSet(S)
  PROVE  odd(S) \in Bit
<1> DEFINE n == Cardinality(S)
<1>1. n \in Nat
  BY FS_CardinalityType
<1> HIDE DEF n
<1>2. n % 2 \in Bit
  BY <1>1 DEF Bit
<1>3. QED
  BY <1>2 DEF odd, n

(* of the empty set zero,                                                  *)
LEMMA OddNone == odd({}) = 0
BY FS_EmptySet DEF odd

(* and flips with every element that joins.                                *)
LEMMA OddOneMore ==
  ASSUME NEW S, IsFiniteSet(S), NEW p, p \notin S
  PROVE  odd(S \cup {p}) = xor(odd(S), 1)
<1> DEFINE n == Cardinality(S)
<1>1. n \in Nat /\ Cardinality(S \cup {p}) = n + 1
  BY FS_CardinalityType, FS_AddElement
<1> HIDE DEF n
<1>2. (n + 1) % 2 = ((n % 2) + 1) % 2
  BY <1>1
<1>3. QED
  BY <1>1, <1>2 DEF odd, xor, n

(* What is in exactly one of two sets.                                     *)
LEMMA OddDifference ==
  ASSUME NEW A, NEW B, IsFiniteSet(A), IsFiniteSet(B)
  PROVE  odd((A \ B) \cup (B \ A)) = xor(odd(A), odd(B))
<1> DEFINE a == Cardinality(A)
           b == Cardinality(B)
           i == Cardinality(A \cap B)
           D == (A \ B) \cup (B \ A)
           n == Cardinality(D)
           m == Cardinality(A \cup B)
<1>1. IsFiniteSet(A \cup B) /\ m = a + b - i
  BY FS_Union
<1>2. IsFiniteSet(A \cap B) /\ IsFiniteSet(D)
  BY <1>1, FS_Subset
<1>3. a \in Nat /\ b \in Nat /\ i \in Nat /\ n \in Nat
  BY <1>2, FS_CardinalityType
<1>4. m = n + i
  <2>1. Cardinality(D \cup (A \cap B))
          = Cardinality(D) + Cardinality(A \cap B) - Cardinality(D \cap (A \cap B))
    BY <1>2, FS_Union
  <2>2. D \cup (A \cap B) = A \cup B /\ D \cap (A \cap B) = {}
    OBVIOUS
  <2>3. Cardinality(D \cap (A \cap B)) = 0
    BY <2>2, FS_EmptySet
  <2>4. QED
    BY <1>3, <2>1, <2>2, <2>3
<1> HIDE DEF a, b, i, n, m
<1>5. a + b = n + i + i
  BY <1>1, <1>3, <1>4
<1>6. n % 2 = ((a % 2) + (b % 2)) % 2
  BY <1>3, <1>5
<1>7. QED
  BY <1>6 DEF odd, xor, a, b, n
-----------------------------------------------------------------------------
(* What the callbacks conclude.                                            *)
(* The data of a syndrome that has heard a report.                         *)
collected(r, m) ==
  [r EXCEPT !.seen_sources = @ \cup {m.source},
            !.data_parity = SC!xor(@, m.present),
            !.data_quiet = @ * m.quiet]

(* The clauses of a syndrome's handle_cast: the configuration,             *)
LEMMA SyndromeConfigures ==
  ASSUME NEW noise
  PROVE  SC!handle_cast(phenom_config, "configuring", SC!syndrome, noise)
           = SC!conclude("collecting",
               [SC!syndrome EXCEPT !.seen_sources = {}, !.data_parity = 0,
                  !.announcement = 0, !.data_quiet = 1,
                  !.announcement_quiet = 0], "consume")
BY DEF SC!handle_cast, SC!configuring, phenom_config

armed_with(r, n) == [r EXCEPT !.cutoff_armed = 1, !.cutoff_step = n]

(* the cutoff, in time,                                                    *)
LEMMA SyndromeArms ==
  ASSUME NEW r, NEW noise, NEW n,
         r.noise_disabled = 0, r.cutoff_armed = 0, n >= r.step
  PROVE  SC!handle_cast(noise_cutoff(n), "collecting", r, noise)
           = SC!conclude("collecting", armed_with(r, n), "consume")
BY DEF SC!handle_cast, SC!collecting, SC!may_arm, SC!armed, noise_cutoff,
   armed_with

(* which changes nothing but the cutoff,                                   *)
LEMMA SyndromeArmed ==
  ASSUME NEW r \in SyndromeData, NEW n \in Nat
  PROVE  LET d == armed_with(r, n)
         IN  /\ d \in SyndromeData
             /\ d.step = r.step /\ d.seen_sources = r.seen_sources
             /\ d.noise_disabled = r.noise_disabled
             /\ d.cutoff_armed = 1 /\ d.cutoff_step = n
             /\ d.data_parity = r.data_parity /\ d.data_quiet = r.data_quiet
             /\ d.announcement = r.announcement
             /\ d.announcement_quiet = r.announcement_quiet
             /\ d.previous_measurement = r.previous_measurement
BY DEF armed_with, SyndromeData, Bit

(* a request that comes before its result,                                 *)
LEMMA SyndromePostpones ==
  ASSUME NEW r, NEW noise
  PROVE  SC!handle_cast(phenom_request(r.step), "collecting", r, noise)
           = SC!conclude("collecting", r, "postpone")
BY DEF SC!handle_cast, SC!collecting, phenom_request

(* a report, not the last of its round,                                    *)
LEMMA SyndromeCollects ==
  ASSUME NEW r, NEW noise, NEW m,
         m.tag = "phenom_data", m.step = r.step,
         m.source \in Ports \ r.seen_sources,
         r.seen_sources \cup {m.source} # Ports, r \in SyndromeData
  PROVE  SC!handle_cast(m, "collecting", r, noise)
           = SC!conclude("collecting", collected(r, m), "consume")
<1>1. collected(r, m).seen_sources = r.seen_sources \cup {m.source}
  BY DEF collected, SyndromeData
<1>2. QED
  BY <1>1 DEF SC!handle_cast, SC!collecting, collected

(* the last one,                                                           *)
LEMMA SyndromeJoins ==
  ASSUME NEW r, NEW noise, NEW m,
         m.tag = "phenom_data", m.step = r.step,
         m.source \in Ports \ r.seen_sources,
         r.seen_sources \cup {m.source} = Ports, r \in SyndromeData
  PROVE  SC!handle_cast(m, "collecting", r, noise)
           = SC!conclude("announcing", SC!joined(collected(r, m), noise),
                         "consume")
<1>1. collected(r, m).seen_sources = Ports
  BY DEF collected, SyndromeData
<1>2. QED
  BY <1>1 DEF SC!handle_cast, SC!collecting, collected

(* and the request for the result.                                         *)
LEMMA SyndromeReleases ==
  ASSUME NEW r, NEW noise
  PROVE  SC!handle_cast(phenom_request(r.step), "announcing", r, noise)
           = SC!conclude("collecting", SC!release(r), "consume")
BY DEF SC!handle_cast, SC!announcing, phenom_request

(* The same of a data cell.                                                *)
seen_by(d, p) == [d EXCEPT !.seen_sources = @ \cup {p}]

(* The clauses of a data cell's handle_cast: the configuration,            *)
LEMMA DataConfigures ==
  ASSUME NEW noise
  PROVE  DC!handle_cast(phenom_config, "configuring", DC!data_cell, noise)
           = DC!conclude("collecting",
               [DC!data_cell EXCEPT !.accumulated_pauli = DC!i], "consume")
BY DEF DC!handle_cast, DC!configuring, phenom_config

(* the cutoff, in time,                                                    *)
LEMMA DataArms ==
  ASSUME NEW d, NEW noise, NEW n,
         d.noise_disabled = 0, d.cutoff_armed = 0, n >= d.step
  PROVE  DC!handle_cast(noise_cutoff(n), "collecting", d, noise)
           = DC!conclude("collecting", armed_with(d, n), "consume")
BY DEF DC!handle_cast, DC!collecting, DC!may_arm, DC!armed, noise_cutoff,
   armed_with

(* which changes nothing but the cutoff,                                   *)
LEMMA DataArmed ==
  ASSUME NEW r \in DataData, NEW n \in Nat
  PROVE  LET d == armed_with(r, n)
         IN  /\ d \in DataData
             /\ d.step = r.step /\ d.seen_sources = r.seen_sources
             /\ d.noise_disabled = r.noise_disabled
             /\ d.cutoff_armed = 1 /\ d.cutoff_step = n
             /\ d.accumulated_pauli = r.accumulated_pauli
BY DEF armed_with, DataData, Bit

(* a correction, in every phase,                                           *)
LEMMA DataUpdates ==
  ASSUME NEW d, NEW noise,
         NEW phase \in {"collecting", "reporting", "replying"}
  PROVE  DC!handle_cast(pauli_update, phase, d, noise)
           = DC!conclude(phase,
               [d EXCEPT !.accumulated_pauli = DC!multiply(@, DC!z)], "consume")
<1>1. pauli_update.tag = "pauli_update" /\ pauli_update.pauli = DC!z
  BY DEF pauli_update
<1>2. DC!collecting(pauli_update, d, noise)
        = DC!conclude("collecting", DC!updated(d, pauli_update), "consume")
  BY <1>1 DEF DC!collecting
<1>3. DC!reporting(pauli_update, d)
        = DC!conclude("reporting", DC!updated(d, pauli_update), "consume")
  BY <1>1 DEF DC!reporting
<1>4. DC!replying(pauli_update, d)
        = DC!conclude("replying", DC!updated(d, pauli_update), "consume")
  BY <1>1 DEF DC!replying
<1>5. DC!handle_cast(pauli_update, phase, d, noise)
        = DC!conclude(phase, DC!updated(d, pauli_update), "consume")
  BY <1>2, <1>3, <1>4 DEF DC!handle_cast
<1>6. QED
  BY <1>1, <1>5 DEF DC!updated

(* a query of the host, once the noise is off,                             *)
LEMMA DataReplies ==
  ASSUME NEW d, NEW noise, NEW id, NEW measured,
         NEW phase \in {"collecting", "reporting", "replying"},
         d.noise_disabled = 1
  PROVE  DC!handle_cast(pauli_query(id, measured), phase, d, noise)
           = DC!conclude(IF phase = "replying" THEN "repeat_phase"
                         ELSE "replying",
               DC!replying_to(d, pauli_query(id, measured),
                 IF phase = "replying" THEN d.reply_resume ELSE phase),
               "consume")
<1> DEFINE m == pauli_query(id, measured)
<1>1. m.tag = "pauli_query"
  BY DEF pauli_query
<1> HIDE DEF m
<1>2. DC!collecting(m, d, noise)
        = DC!conclude("replying", DC!replying_to(d, m, "collecting"), "consume")
  BY <1>1 DEF DC!collecting
<1>3. DC!reporting(m, d)
        = DC!conclude("replying", DC!replying_to(d, m, "reporting"), "consume")
  BY <1>1 DEF DC!reporting
<1>4. DC!replying(m, d)
        = DC!conclude("repeat_phase", DC!replying_to(d, m, d.reply_resume),
                      "consume")
  BY <1>1 DEF DC!replying, DC!answer_again
<1>5. QED
  BY <1>2, <1>3, <1>4 DEF DC!handle_cast, m

(* A query for the present round, from a source not heard yet.             *)
LEMMA DataHears ==
  ASSUME NEW d \in DataData, NEW noise, NEW p \in Ports \ d.seen_sources,
         NEW phase \in {"collecting", "replying"},
         phase = "replying" => d.reply_resume = "collecting",
         d.seen_sources \cup {p} # Ports,
         DC!next_step(d.step) # d.step
  PROVE  DC!handle_cast(SC!phenom_query(d.step, p), phase, d, noise)
           = DC!conclude(phase, seen_by(d, p), "consume")
<1> DEFINE m == SC!phenom_query(d.step, p)
<1>1. m.tag = "phenom_query" /\ m.step = d.step /\ m.source = p
  BY DEF SC!phenom_query
<1>2. seen_by(d, p).seen_sources = d.seen_sources \cup {p}
  BY DEF seen_by, DataData
<1> HIDE DEF m
<1>3. DC!collecting(m, d, noise)
        = DC!conclude("collecting", seen_by(d, p), "consume")
  BY <1>1, <1>2 DEF DC!collecting, seen_by
<1>4. phase = "replying" => DC!replying(m, d)
        = DC!conclude("replying", seen_by(d, p), "consume")
  BY <1>1, <1>2 DEF DC!replying, seen_by
<1>5. QED
  BY <1>3, <1>4 DEF DC!handle_cast, m

(* the last query of a round, which ends it,                               *)
LEMMA DataSamples ==
  ASSUME NEW d \in DataData, NEW noise, NEW p \in Ports \ d.seen_sources,
         d.seen_sources \cup {p} = Ports,
         DC!next_step(d.step) # d.step
  PROVE  DC!handle_cast(SC!phenom_query(d.step, p), "collecting", d, noise)
           = DC!conclude("reporting", DC!sampled(seen_by(d, p), noise),
                         "consume")
<1> DEFINE m == SC!phenom_query(d.step, p)
<1>1. m.tag = "phenom_query" /\ m.step = d.step /\ m.source = p
  BY DEF SC!phenom_query
<1>2. seen_by(d, p).seen_sources = d.seen_sources \cup {p}
  BY DEF seen_by, DataData
<1> HIDE DEF m
<1>3. DC!collecting(m, d, noise)
        = DC!conclude("reporting", DC!sampled(seen_by(d, p), noise), "consume")
  BY <1>1, <1>2 DEF DC!collecting, seen_by
<1>4. QED
  BY <1>3 DEF DC!handle_cast, m

(* and the same while the reply to the host is entered.                    *)
LEMMA DataEndsRound ==
  ASSUME NEW d \in DataData, NEW noise, NEW p \in Ports \ d.seen_sources,
         d.reply_resume = "collecting", d.seen_sources \cup {p} = Ports,
         DC!next_step(d.step) # d.step
  PROVE  DC!handle_cast(SC!phenom_query(d.step, p), "replying", d, noise)
           = DC!conclude("reporting", [seen_by(d, p) EXCEPT !.event = 0],
                         "consume")
<1> DEFINE m == SC!phenom_query(d.step, p)
<1>1. m.tag = "phenom_query" /\ m.step = d.step /\ m.source = p
  BY DEF SC!phenom_query
<1>2. seen_by(d, p).seen_sources = d.seen_sources \cup {p}
  BY DEF seen_by, DataData
<1> HIDE DEF m
<1>3. DC!replying(m, d)
        = DC!conclude("reporting", [seen_by(d, p) EXCEPT !.event = 0], "consume")
  BY <1>1, <1>2 DEF DC!replying, seen_by
<1>4. QED
  BY <1>3 DEF DC!handle_cast, m

(* A query for the next round, after the end of the present one.           *)
LEMMA DataBegins ==
  ASSUME NEW d \in DataData, NEW noise, NEW p \in Ports, NEW n,
         NEW phase \in {"reporting", "replying"},
         phase = "replying" => d.reply_resume = "reporting",
         n = DC!next_step(d.step)
  PROVE  DC!handle_cast(SC!phenom_query(n, p), phase, d, noise)
           = DC!conclude("collecting",
               DC!first_of_next_round(d, SC!phenom_query(n, p)), "consume")
<1> DEFINE m == SC!phenom_query(n, p)
<1>1. m.tag = "phenom_query" /\ m.step = n /\ m.source = p
  BY DEF SC!phenom_query
<1> HIDE DEF m
<1>2. DC!reporting(m, d)
        = DC!conclude("collecting", DC!first_of_next_round(d, m), "consume")
  BY <1>1 DEF DC!reporting
<1>3. phase = "replying" => DC!replying(m, d)
        = DC!conclude("collecting", DC!first_of_next_round(d, m), "consume")
  BY <1>1 DEF DC!replying
<1>4. QED
  BY <1>2, <1>3 DEF DC!handle_cast, m

(* A phase entry of a syndrome, to release its result or for the first     *)
(* time.                                                                   *)
LEMMA SyndromeReleased ==
  ASSUME NEW r \in SyndromeData, r.seen_sources = Ports, r.step + 1 < U32
  PROVE  LET e == SC!handle_enter("collecting", SC!release(r))
             d == e.data
         IN  /\ d \in SyndromeData
             /\ d.step = r.step + 1 /\ d.seen_sources = {}
             /\ d.noise_disabled = r.noise_disabled
             /\ d.cutoff_armed = r.cutoff_armed /\ d.cutoff_step = r.cutoff_step
             /\ d.data_parity = 0 /\ d.data_quiet = 1
             /\ d.previous_measurement = r.previous_measurement
             /\ e.casts["phi"] = <<SC!phenom_anyon(r)>>
             /\ \A p \in Ports :
                  e.casts[p] = <<SC!phenom_query(r.step + 1, opposite[p])>>
<1> DEFINE q == SC!release(r)
           n == SC!next_step(r.step)
           e == SC!handle_enter("collecting", q)
<1>1. n = r.step + 1
  <2> DEFINE k == r.step
  <2>1. k \in Nat /\ U32 \in Nat /\ k + 1 < U32
    BY Numbers DEF SyndromeData
  <2> HIDE DEF k
  <2>2. (k + 1) % U32 = k + 1
    BY <2>1
  <2>3. QED
    BY <2>2 DEF SC!next_step, k
<1>2. /\ q \in SyndromeData /\ q.step = r.step /\ q.seen_sources = Ports
      /\ q.noise_disabled = r.noise_disabled /\ q.data_parity = 0
      /\ q.cutoff_armed = r.cutoff_armed /\ q.cutoff_step = r.cutoff_step
      /\ q.previous_measurement = r.previous_measurement
      /\ q.announcement = r.announcement
      /\ q.announcement_quiet = r.announcement_quiet
  BY DEF SC!release, SyndromeData, Bit
<1>3. SC!releasing(q) /\ SC!entered_step(q) = r.step + 1
  BY <1>1, <1>2 DEF SC!releasing, SC!entered_step
<1>4. SC!phenom_anyon(q) = SC!phenom_anyon(r)
  BY <1>2 DEF SC!phenom_anyon
<1> HIDE DEF q, n
<1>5. e = SC!enter_collecting(q)
  BY DEF SC!handle_enter
<1>6. e.data = [q EXCEPT !.step = r.step + 1, !.seen_sources = {},
                         !.announcement = 0, !.data_quiet = 1,
                         !.announcement_quiet = 0]
  BY <1>3, <1>5 DEF SC!enter_collecting
<1>7. e.casts = [p \in Ports \cup {"phi"} |->
                   IF p = "phi" THEN <<SC!phenom_anyon(q)>>
                   ELSE <<SC!phenom_query(r.step + 1, opposite[p])>>]
  BY <1>3, <1>5 DEF SC!enter_collecting
<1> HIDE DEF e
<1>8. /\ e.data \in SyndromeData
      /\ e.data.step = r.step + 1 /\ e.data.seen_sources = {}
      /\ e.data.noise_disabled = q.noise_disabled
      /\ e.data.cutoff_armed = q.cutoff_armed
      /\ e.data.cutoff_step = q.cutoff_step
      /\ e.data.data_parity = q.data_parity /\ e.data.data_quiet = 1
      /\ e.data.previous_measurement = q.previous_measurement
  <2>1. r.step + 1 \in Nat
    BY DEF SyndromeData
  <2>2. QED
    BY ZenonT(60), <1>2, <1>6, <2>1 DEF SyndromeData, Bit
<1>9. e.casts["phi"] = <<SC!phenom_anyon(r)>>
  BY <1>4, <1>7
<1>10. \A p \in Ports :
         e.casts[p] = <<SC!phenom_query(r.step + 1, opposite[p])>>
  BY <1>7, Others
<1>11. QED
  BY <1>2, <1>8, <1>9, <1>10 DEF e, q

(* What a syndrome starts its first round with.                            *)
LEMMA SyndromeStarted ==
  LET q == [SC!syndrome EXCEPT !.seen_sources = {}, !.data_parity = 0,
              !.announcement = 0, !.data_quiet = 1, !.announcement_quiet = 0]
      e == SC!handle_enter("collecting", q)
      d == e.data
  IN  /\ d \in SyndromeData
      /\ d.step = 0 /\ d.seen_sources = {}
      /\ d.noise_disabled = 0 /\ d.cutoff_armed = 0
      /\ d.data_parity = 0 /\ d.data_quiet = 1 /\ d.previous_measurement = 0
      /\ e.casts["phi"] = << >>
      /\ \A p \in Ports : e.casts[p] = <<SC!phenom_query(0, opposite[p])>>
<1> DEFINE q == [SC!syndrome EXCEPT !.seen_sources = {}, !.data_parity = 0,
                   !.announcement = 0, !.data_quiet = 1, !.announcement_quiet = 0]
           e == SC!handle_enter("collecting", q)
<1>1. /\ q \in SyndromeData /\ q.step = 0 /\ q.seen_sources = {}
      /\ q.noise_disabled = 0 /\ q.data_parity = 0
      /\ q.cutoff_armed = 0 /\ q.previous_measurement = 0
  BY DEF SC!syndrome, SyndromeData, Bit
<1>2. ~SC!releasing(q) /\ SC!entered_step(q) = 0
  BY <1>1, Numbers DEF SC!releasing, SC!entered_step
<1> HIDE DEF q
<1>3. e = SC!enter_collecting(q)
  BY DEF SC!handle_enter
<1>4. e.data = [q EXCEPT !.step = 0, !.seen_sources = {},
                         !.announcement = 0, !.data_quiet = 1,
                         !.announcement_quiet = 0]
  BY <1>2, <1>3 DEF SC!enter_collecting
<1>5. e.casts = [p \in Ports \cup {"phi"} |->
                   IF p = "phi" THEN << >>
                   ELSE <<SC!phenom_query(0, opposite[p])>>]
  BY <1>2, <1>3 DEF SC!enter_collecting
<1> HIDE DEF e
<1>6. /\ e.data \in SyndromeData
      /\ e.data.step = 0 /\ e.data.seen_sources = {}
      /\ e.data.noise_disabled = q.noise_disabled
      /\ e.data.cutoff_armed = q.cutoff_armed
      /\ e.data.data_parity = q.data_parity /\ e.data.data_quiet = 1
      /\ e.data.previous_measurement = q.previous_measurement
  BY ZenonT(60), <1>1, <1>4 DEF SyndromeData, Bit
<1>7. e.casts["phi"] = << >>
  BY <1>5
<1>8. \A p \in Ports : e.casts[p] = <<SC!phenom_query(0, opposite[p])>>
  BY <1>5, Others
<1>9. QED
  BY <1>1, <1>6, <1>7, <1>8 DEF e, q

(* The end of a round.                                                     *)
cut_off(r) == r.noise_disabled = 1 \/ (r.cutoff_armed = 1 /\ r.step >= r.cutoff_step)

joined_as(q, d, flip) ==
  /\ d \in SyndromeData
  /\ d.step = q.step /\ d.seen_sources = q.seen_sources
  /\ d.previous_measurement = flip
  /\ d.announcement = xor(xor(q.data_parity, flip), q.previous_measurement)
  /\ d.announcement_quiet = q.data_quiet * one_if(cut_off(q))
  /\ d.noise_disabled = one_if(cut_off(q))
  /\ d.cutoff_armed = IF q.cutoff_armed = 1 /\ q.step >= q.cutoff_step
                      THEN 0 ELSE q.cutoff_armed
  /\ d.cutoff_step = q.cutoff_step

(* The result of a round: the parity of the reports, of this round's       *)
(* measurement error and of the previous one's.                            *)
LEMMA SyndromeJoined ==
  ASSUME NEW q \in SyndromeData, NEW noise \in Bit
  PROVE  joined_as(q, SC!joined(q, noise), IF cut_off(q) THEN 0 ELSE noise)
<1> DEFINE flip == IF cut_off(q) THEN 0 ELSE noise
           off == one_if(cut_off(q))
           a == SC!xor(SC!xor(q.data_parity, flip), q.previous_measurement)
           w == q.data_quiet * off
           g == IF q.cutoff_armed = 1 /\ q.step >= q.cutoff_step
                THEN 0 ELSE q.cutoff_armed
<1>1. flip \in Bit /\ off \in Bit
  BY DEF Bit, one_if
<1>2. a = xor(xor(q.data_parity, flip), q.previous_measurement) /\ a \in Bit
  <2>1. q.data_parity \in Bit /\ q.previous_measurement \in Bit
    BY DEF SyndromeData
  <2> HIDE DEF flip
  <2>2. xor(q.data_parity, flip) \in Bit
        /\ SC!xor(q.data_parity, flip) = xor(q.data_parity, flip)
    BY <1>1, <2>1, Xor
  <2>3. QED
    BY <2>1, <2>2, Xor
<1>3. w \in Bit
  <2>1. q.data_quiet \in Bit
    BY DEF SyndromeData
  <2>2. \A x, y \in Bit : x * y \in Bit
    BY DEF Bit
  <2>3. QED
    BY <1>1, <2>1, <2>2
<1>4. g \in Bit
  BY DEF SyndromeData, Bit
<1>5. SC!joined(q, noise)
        = [q EXCEPT !.previous_measurement = flip, !.announcement = a,
                    !.announcement_quiet = w, !.noise_disabled = off,
                    !.cutoff_armed = g]
  <2>1. (q.noise_disabled = 1 \/ SC!cutoff_applies(q)) <=> cut_off(q)
    BY DEF cut_off, SC!cutoff_applies
  <2>2. SC!bit(q.noise_disabled = 1 \/ SC!cutoff_applies(q)) = off
    BY <2>1 DEF SC!bit, one_if
  <2>3. (IF q.noise_disabled = 1 \/ SC!cutoff_applies(q) THEN 0 ELSE noise) = flip
    BY <2>1
  <2>4. (IF SC!cutoff_applies(q) THEN 0 ELSE q.cutoff_armed) = g
    BY DEF SC!cutoff_applies
  <2> HIDE DEF off, g
  <2>5. QED
    BY <2>2, <2>3, <2>4 DEF SC!joined
<1> HIDE DEF flip, off, a, w, g
<1>6. /\ SC!joined(q, noise) \in SyndromeData
      /\ SC!joined(q, noise).step = q.step
      /\ SC!joined(q, noise).seen_sources = q.seen_sources
      /\ SC!joined(q, noise).previous_measurement = flip
      /\ SC!joined(q, noise).announcement = a
      /\ SC!joined(q, noise).announcement_quiet = w
      /\ SC!joined(q, noise).noise_disabled = off
      /\ SC!joined(q, noise).cutoff_armed = g
      /\ SC!joined(q, noise).cutoff_step = q.cutoff_step
  BY ZenonT(60), <1>1, <1>2, <1>3, <1>4, <1>5 DEF SyndromeData
<1>7. QED
  BY <1>2, <1>6 DEF joined_as, flip, off, w, g
-----------------------------------------------------------------------------
(* What a turn does.                                                       *)
(* Cell c, connected, as it is afterwards.                                 *)
Becomes(c, phase, d, mailbox) ==
  rt' = [rt EXCEPT ![c] = [lifecycle |-> "connected", phase |-> phase,
                           data |-> d, mailbox |-> mailbox]]

single(l) == l = << >> \/ \E m : l = <<m>>

record(r) ==
  r = [lifecycle |-> "connected", phase |-> r.phase, data |-> r.data,
       mailbox |-> r.mailbox]

(* A record is known by its four fields.                                   *)
LEMMA RecordIs ==
  ASSUME NEW l, NEW f, NEW d, NEW q,
         NEW e \in [lifecycle : {l}, phase : {f}, data : {d}, mailbox : {q}]
  PROVE  e = [lifecycle |-> l, phase |-> f, data |-> d, mailbox |-> q]
OBVIOUS

moved(r, g, e, u) == [r EXCEPT !.phase = g, !.data = e, !.mailbox = u]
stayed(r, e, u) == [r EXCEPT !.data = e, !.mailbox = u]

(* What an actor is after a turn that enters a phase,                      *)
LEMMA RecordMoves ==
  ASSUME NEW r, record(r), NEW g, NEW e, NEW u
  PROVE  moved(r, g, e, u)
           = [lifecycle |-> "connected", phase |-> g, data |-> e, mailbox |-> u]
<1> DEFINE n == [r EXCEPT !.phase = g, !.data = e, !.mailbox = u]
<1>1. PICK f, d, q : r = [lifecycle |-> "connected", phase |-> f, data |-> d,
                          mailbox |-> q]
  BY DEF record
<1>2. n \in [lifecycle : {"connected"}, phase : {g}, data : {e}, mailbox : {u}]
  BY <1>1
<1> HIDE DEF n
<1>3. n = [lifecycle |-> "connected", phase |-> g, data |-> e, mailbox |-> u]
  BY <1>2, RecordIs
<1>4. QED
  BY <1>3 DEF n, moved

(* and after one that does not.                                            *)
LEMMA RecordStays ==
  ASSUME NEW r, record(r), NEW e, NEW u
  PROVE  stayed(r, e, u)
           = [lifecycle |-> "connected", phase |-> r.phase, data |-> e,
              mailbox |-> u]
<1> DEFINE n == [r EXCEPT !.data = e, !.mailbox = u]
<1>1. PICK f, d, q : r = [lifecycle |-> "connected", phase |-> f, data |-> d,
                          mailbox |-> q]
  BY DEF record
<1>2. n \in [lifecycle : {"connected"}, phase : {f}, data : {e}, mailbox : {u}]
  BY <1>1
<1>3. r.phase = f
  BY <1>1
<1> HIDE DEF n
<1>4. n = [lifecycle |-> "connected", phase |-> f, data |-> e, mailbox |-> u]
  BY <1>2, RecordIs
<1>5. QED
  BY <1>3, <1>4 DEF n, stayed

(* The message that it consumes is the last thing that happens in a phase, *)
(* or one more in the same phase, or it is kept.                           *)
LEMMA Consumes ==
  ASSUME NEW r, record(r), NEW k, NEW concl, NEW entered,
         concl.directive = "consume"
  PROVE  /\ concl.phase = r.phase /\ r.phase # "repeat_phase" =>
              /\ ~boundary(r, concl) /\ next_phase(r, concl) = r.phase
              /\ process_message(r, k, concl, entered)
                   = [lifecycle |-> "connected", phase |-> r.phase,
                      data |-> concl.data, mailbox |-> RemoveAt(r.mailbox, k)]
         /\ concl.phase # r.phase /\ concl.phase # "repeat_phase" =>
              /\ boundary(r, concl) /\ next_phase(r, concl) = concl.phase
              /\ process_message(r, k, concl, entered)
                   = [lifecycle |-> "connected", phase |-> concl.phase,
                      data |-> entered,
                      mailbox |-> released(RemoveAt(r.mailbox, k))]
         /\ concl.phase = "repeat_phase" =>
              /\ boundary(r, concl) /\ next_phase(r, concl) = r.phase
              /\ process_message(r, k, concl, entered)
                   = [lifecycle |-> "connected", phase |-> r.phase,
                      data |-> entered,
                      mailbox |-> released(RemoveAt(r.mailbox, k))]
<1> DEFINE p == next_phase(r, concl)
           q == settled(r, k, concl)
           u == released(q)
           d == concl.data
<1>1. q = RemoveAt(r.mailbox, k)
  BY DEF settled
<1>2. boundary(r, concl) => process_message(r, k, concl, entered)
        = moved(r, p, entered, u)
  BY DEF process_message, moved
<1>3. ~boundary(r, concl) => process_message(r, k, concl, entered)
        = stayed(r, d, q)
  BY DEF process_message, stayed
<1> HIDE DEF p, q, u, d
<1>4. moved(r, p, entered, u)
        = [lifecycle |-> "connected", phase |-> p, data |-> entered,
           mailbox |-> u]
  BY RecordMoves
<1>5. stayed(r, d, q)
        = [lifecycle |-> "connected", phase |-> r.phase, data |-> d,
           mailbox |-> q]
  BY RecordStays
<1>6. CASE concl.phase = r.phase /\ r.phase # "repeat_phase"
  <2>1. ~boundary(r, concl) /\ p = r.phase
    BY <1>6 DEF boundary, next_phase, p
  <2>2. QED
    BY <1>1, <1>3, <1>5, <1>6, <2>1 DEF p, d
<1>7. CASE concl.phase # r.phase /\ concl.phase # "repeat_phase"
  <2>1. boundary(r, concl) /\ p = concl.phase
    BY <1>7 DEF boundary, next_phase, p
  <2>2. QED
    BY <1>1, <1>2, <1>4, <1>7, <2>1 DEF p, u
<1>8. CASE concl.phase = "repeat_phase"
  <2>1. boundary(r, concl) /\ p = r.phase
    BY <1>8 DEF boundary, next_phase, p
  <2>2. QED
    BY <1>1, <1>2, <1>4, <1>8, <2>1 DEF p, u
<1>9. QED
  BY <1>6, <1>7, <1>8

(* A message that is not consumed is kept and marked.                      *)
LEMMA Keeps ==
  ASSUME NEW r, record(r), NEW m, r.mailbox = <<fresh(m)>>, NEW concl,
         NEW entered, concl.directive = "postpone", concl.phase = r.phase,
         r.phase # "repeat_phase"
  PROVE  /\ ~boundary(r, concl)
         /\ process_message(r, 1, concl, entered)
              = [lifecycle |-> "connected", phase |-> r.phase,
                 data |-> concl.data,
                 mailbox |-> <<[message |-> m, postponed |-> TRUE]>>]
<1> DEFINE q == settled(r, 1, concl)
           d == concl.data
<1>1. ~boundary(r, concl)
  BY DEF boundary
<1>2. q = <<[message |-> m, postponed |-> TRUE]>>
  <2>1. q = [<<fresh(m)>> EXCEPT ![1] = [fresh(m) EXCEPT !.postponed = TRUE]]
    BY DEF settled
  <2>2. [fresh(m) EXCEPT !.postponed = TRUE]
          = [message |-> m, postponed |-> TRUE]
    BY Marked DEF fresh
  <2>3. QED
    BY <2>1, <2>2
<1>3. process_message(r, 1, concl, entered)
        = stayed(r, d, q)
  BY <1>1 DEF process_message, stayed
<1> HIDE DEF q, d
<1>4. stayed(r, d, q)
        = [lifecycle |-> "connected", phase |-> r.phase, data |-> d,
           mailbox |-> q]
  BY RecordStays
<1>5. QED
  BY <1>1, <1>2, <1>3, <1>4 DEF d

(* Queues that agree everywhere are the same.                              *)
LEMMA SameLinks ==
  ASSUME NEW L, NEW C, formed(L), formed(C),
         \A u \in Cells, v \in Senders : C[u][v] = L[u][v]
  PROVE  C = L
BY DEF formed

(* Without casts the links stay as they are.                               *)
LEMMA NoCasts ==
  ASSUME NEW L, formed(L), NEW c \in Cells, NEW casts,
         \A p \in Ports : single(L[neighbor_at(c)[p]][c]) /\ casts[p] = << >>
  PROVE  cast(L, c, casts) = L
<1> DEFINE C == cast(L, c, casts)
<1>1. carries(L, C, c, casts)
  BY Casting
<1> HIDE DEF C
<1>2. ASSUME NEW l, single(l) PROVE l \o << >> = l
  BY <1>2, Short DEF single
<1>3. \A p \in Ports : C[neighbor_at(c)[p]][c] = L[neighbor_at(c)[p]][c]
  BY ZenonT(60), <1>1, <1>2 DEF carries
<1>4. \A u \in Cells, v \in Senders : C[u][v] = L[u][v]
  BY <1>1, <1>3 DEF carries
<1>5. C = L
  BY <1>1, <1>4, SameLinks DEF carries
<1>6. QED
  BY <1>5 DEF C
-----------------------------------------------------------------------------
(* The links as a turn of c finds them: at most a message has been taken.  *)
outgoing(L, c) ==
  formed(L) /\ \A u \in Cells, v \in Senders : u # c => L[u][v] = link[u][v]

(* What the invariant says of the shape of the queues before and after a   *)
(* message is taken.                                                       *)
LEMMA Outgoing ==
  ASSUME IInv, NEW c \in Cells
  PROVE  /\ formed(link) /\ outgoing(link, c)
         /\ \A x \in Senders : outgoing(received(c, x), c)
<1>1. formed(link)
  BY DEF IInv, Types, formed
<1>2. QED
  BY <1>1, Received DEF outgoing

(* At most one message of a cell is under way to each of its neighbors.    *)
LEMMA SingleLinks ==
  ASSUME IInv, NEW c \in Cells, NEW L, outgoing(L, c)
  PROVE  /\ \A p \in Ports : single(link[neighbor_at(c)[p]][c])
         /\ \A p \in Ports : single(L[neighbor_at(c)[p]][c])
<1>1. ASSUME NEW p \in Ports PROVE single(link[neighbor_at(c)[p]][c])
  <2>1. CASE c \in Syndromes
    <3>1. Edge(c, p) /\ neighbor_at(c)[p] = data_at[c][p]
      BY <2>1, NeighborOf DEF IInv
    <3>2. QED
      BY <3>1 DEF Edge, single
  <2>2. CASE c \in Datas
    <3> DEFINE s == syndrome_at[c][p]
               o == opposite[p]
    <3>1. s \in Syndromes /\ o \in Ports /\ data_at[s][o] = c
      BY <2>2, DataEdges
    <3>2. Edge(s, o) /\ neighbor_at(c)[p] = s
      BY <2>2, <3>1, NeighborOf DEF IInv
    <3> HIDE DEF s, o
    <3>3. QED
      BY <3>1, <3>2 DEF Edge, single
  <2>3. QED
    BY <2>1, <2>2 DEF Cells
<1>2. ASSUME NEW p \in Ports
      PROVE  L[neighbor_at(c)[p]][c] = link[neighbor_at(c)[p]][c]
  BY Neighbors, Others DEF outgoing
<1>3. QED
  BY <1>1, <1>2

(* The histories are functions of the cells.                               *)
LEMMA Functions ==
  ASSUME IInv
  PROVE  /\ \A s \in Syndromes : \A v :
              [announcements EXCEPT ![s] = v]
                = [t \in Syndromes |-> IF t = s THEN v ELSE announcements[t]]
         /\ announcements = [s \in Syndromes |-> announcements[s]]
         /\ announced = [s \in Syndromes |-> announced[s]]
         /\ errors = [d \in Datas |-> errors[d]]
         /\ replies = [d \in Datas |-> replies[d]]
         /\ rt = [c \in Cells |-> rt[c]]
BY DEF IInv, Types

(* A syndrome's announcements are a sequence.                              *)
LEMMA SingleResults ==
  ASSUME IInv, NEW s \in Syndromes
  PROVE  single(announcements[s]) /\ announcements[s] \o << >> = announcements[s]
<1>1. single(announcements[s])
  BY DEF IInv, Asking, single
<1>2. QED
  BY <1>1, Short DEF single

(* A turn of a syndrome that does not leave its phase casts nothing.       *)
LEMMA SyndromeStays ==
  ASSUME IInv, NEW s \in Syndromes, NEW r, record(r), NEW k, NEW L,
         outgoing(L, s), NEW concl, r.phase # "repeat_phase",
         concl.phase = r.phase, concl.directive = "consume",
         finish_syndrome(s, r, k, L, concl)
  PROVE  /\ Becomes(s, r.phase, concl.data, RemoveAt(r.mailbox, k))
         /\ link' = L
         /\ UNCHANGED <<announcements, announced, errors, replies>>
<1> DEFINE entry == SC!handle_enter(next_phase(r, concl), concl.data)
<1>1. /\ ~boundary(r, concl)
      /\ process_message(r, k, concl, entry.data)
           = [lifecycle |-> "connected", phase |-> r.phase,
              data |-> concl.data, mailbox |-> RemoveAt(r.mailbox, k)]
  BY Consumes
<1>2. cast(L, s, SC!no_casts) = L
  <2>1. \A p \in Ports : SC!no_casts[p] = << >>
    BY DEF SC!no_casts
  <2>2. \A p \in Ports : single(L[neighbor_at(s)[p]][s])
    BY SingleLinks, Others
  <2>3. QED
    BY <2>1, <2>2, NoCasts, Others DEF outgoing
<1>3. SC!no_casts["phi"] = << >>
  BY DEF SC!no_casts
<1>4. link' = L
  BY <1>1, <1>2 DEF finish_syndrome
<1>5. announcements' = announcements
  BY <1>1, <1>3, SingleResults, Functions DEF finish_syndrome
<1>6. announced' = announced
  BY <1>1, Functions DEF finish_syndrome
<1>7. QED
  BY <1>1, <1>4, <1>5, <1>6 DEF finish_syndrome, Becomes

(* One that does enters the next with the casts of that phase.             *)
syndrome_enters(s, r, k, L, phase, d) ==
  /\ Becomes(s, phase, SC!handle_enter(phase, d).data,
             released(RemoveAt(r.mailbox, k)))
  /\ carries(L, link', s, SC!handle_enter(phase, d).casts)
  /\ announcements' = [announcements EXCEPT ![s] =
       @ \o SC!handle_enter(phase, d).casts["phi"]]
  /\ announced' = [announced EXCEPT ![s] =
       IF phase = "announcing"
       THEN Append(@, xor(parity(@), d.announcement)) ELSE @]
  /\ UNCHANGED <<errors, replies>>

(* A syndrome's turn that enters a phase.                                  *)
LEMMA SyndromeMoves ==
  ASSUME IInv, NEW s \in Syndromes, NEW r, record(r), NEW k, NEW L,
         outgoing(L, s), NEW concl, concl.phase # "repeat_phase",
         concl.phase # r.phase, concl.directive = "consume",
         NEW phase, phase = concl.phase, NEW d, d = concl.data,
         finish_syndrome(s, r, k, L, concl)
  PROVE  syndrome_enters(s, r, k, L, phase, d)
<1> DEFINE entry == SC!handle_enter(next_phase(r, concl), concl.data)
           casts == SC!handle_enter(phase, d).casts
<1>1. /\ boundary(r, concl) /\ next_phase(r, concl) = concl.phase
      /\ process_message(r, k, concl, entry.data)
           = [lifecycle |-> "connected", phase |-> concl.phase,
              data |-> entry.data, mailbox |-> released(RemoveAt(r.mailbox, k))]
  BY Consumes
<1>2. carries(L, cast(L, s, casts), s, casts)
  BY Casting, Others DEF outgoing
<1>3. entry = SC!handle_enter(phase, d)
  BY <1>1
<1>4. link' = cast(L, s, casts)
  BY <1>1, <1>3 DEF finish_syndrome
<1>5. announcements' = [announcements EXCEPT ![s] = @ \o casts["phi"]]
  BY <1>1, <1>3 DEF finish_syndrome
<1>6. announced' = [announced EXCEPT ![s] =
        IF phase = "announcing"
        THEN Append(@, xor(parity(@), d.announcement)) ELSE @]
  BY <1>1 DEF finish_syndrome
<1>7. rt' = [rt EXCEPT ![s] = process_message(r, k, concl, entry.data)]
  BY DEF finish_syndrome
<1>8. UNCHANGED <<errors, replies>>
  BY DEF finish_syndrome
<1> HIDE DEF entry, casts
<1>9. Becomes(s, phase, SC!handle_enter(phase, d).data,
              released(RemoveAt(r.mailbox, k)))
  BY <1>1, <1>3, <1>7 DEF Becomes
<1>10. carries(L, link', s, casts)
  BY <1>2, <1>4
<1>11. QED
  BY <1>5, <1>6, <1>8, <1>9, <1>10 DEF casts, syndrome_enters

(* One on a message that it postpones only marks it.                       *)
LEMMA SyndromeKeeps ==
  ASSUME IInv, NEW s \in Syndromes, NEW r, record(r), NEW m,
         r.mailbox = <<fresh(m)>>, NEW L, outgoing(L, s), NEW concl,
         r.phase # "repeat_phase", concl.phase = r.phase,
         concl.directive = "postpone", finish_syndrome(s, r, 1, L, concl)
  PROVE  /\ Becomes(s, r.phase, concl.data,
                     <<[message |-> m, postponed |-> TRUE]>>)
         /\ link' = L
         /\ UNCHANGED <<announcements, announced, errors, replies>>
<1> DEFINE entry == SC!handle_enter(next_phase(r, concl), concl.data)
<1>1. /\ ~boundary(r, concl)
      /\ process_message(r, 1, concl, entry.data)
           = [lifecycle |-> "connected", phase |-> r.phase,
              data |-> concl.data,
              mailbox |-> <<[message |-> m, postponed |-> TRUE]>>]
  BY Keeps
<1>2. cast(L, s, SC!no_casts) = L
  <2>1. \A p \in Ports : SC!no_casts[p] = << >>
    BY DEF SC!no_casts
  <2>2. \A p \in Ports : single(L[neighbor_at(s)[p]][s])
    BY SingleLinks, Others
  <2>3. QED
    BY <2>1, <2>2, NoCasts, Others DEF outgoing
<1>3. SC!no_casts["phi"] = << >>
  BY DEF SC!no_casts
<1>4. link' = L
  BY <1>1, <1>2 DEF finish_syndrome
<1>5. announcements' = announcements
  BY <1>1, <1>3, SingleResults, Functions DEF finish_syndrome
<1>6. announced' = announced
  BY <1>1, Functions DEF finish_syndrome
<1>7. QED
  BY <1>1, <1>4, <1>5, <1>6 DEF finish_syndrome, Becomes

(* The same of a data cell.                                                *)
LEMMA DataStays ==
  ASSUME IInv, NEW c \in Datas, NEW r, record(r), NEW k, NEW L,
         outgoing(L, c), NEW concl, r.phase # "repeat_phase",
         concl.phase = r.phase, concl.directive = "consume",
         finish_data(c, r, k, L, concl)
  PROVE  /\ Becomes(c, r.phase, concl.data, RemoveAt(r.mailbox, k))
         /\ link' = L
         /\ UNCHANGED <<announcements, announced, errors, replies>>
<1>1. /\ ~boundary(r, concl)
      /\ process_message(r, k, concl, concl.data)
           = [lifecycle |-> "connected", phase |-> r.phase,
              data |-> concl.data, mailbox |-> RemoveAt(r.mailbox, k)]
  BY Consumes
<1>2. cast(L, c, DC!no_casts) = L
  <2>1. \A p \in Ports : DC!no_casts[p] = << >>
    BY DEF DC!no_casts
  <2>2. \A p \in Ports : single(L[neighbor_at(c)[p]][c])
    BY SingleLinks, Others
  <2>3. QED
    BY <2>1, <2>2, NoCasts, Others DEF outgoing
<1>3. DC!no_casts["measurement"] = << >>
  BY DEF DC!no_casts
<1>4. link' = L
  BY <1>1, <1>2 DEF finish_data
<1>5. replies' = replies
  <2>1. replies[c] \in Seq(Reply)
    BY DEF IInv, Types
  <2>2. replies[c] \o << >> = replies[c]
    BY <2>1
  <2>3. QED
    BY <1>1, <1>3, <2>2, Functions DEF finish_data
<1>6. errors' = errors
  BY <1>1, Functions DEF finish_data
<1>7. QED
  BY <1>1, <1>4, <1>5, <1>6 DEF finish_data, Becomes

(* The next phase of a turn that ends one, and the same again when the     *)
(* callback asks for the boundary.                                         *)
enters(r, concl, phase) ==
  \/ concl.phase # "repeat_phase" /\ concl.phase # r.phase /\ phase = concl.phase
  \/ concl.phase = "repeat_phase" /\ phase = r.phase

data_enters(c, r, k, L, phase, d) ==
  /\ Becomes(c, phase, d, released(RemoveAt(r.mailbox, k)))
  /\ carries(L, link', c, DC!handle_enter(phase, d))
  /\ replies' = [replies EXCEPT ![c] =
       @ \o DC!handle_enter(phase, d)["measurement"]]
  /\ errors' = [errors EXCEPT ![c] =
       IF phase = "reporting" THEN Append(@, xor(parity(@), d.event)) ELSE @]
  /\ UNCHANGED <<announcements, announced>>

(* A data cell's turn that enters a phase.                                 *)
LEMMA DataMoves ==
  ASSUME IInv, NEW c \in Datas, NEW r, record(r), NEW k, NEW L,
         outgoing(L, c), NEW concl, concl.directive = "consume",
         NEW phase, enters(r, concl, phase), NEW d, d = concl.data,
         finish_data(c, r, k, L, concl)
  PROVE  data_enters(c, r, k, L, phase, d)
<1> DEFINE casts == DC!handle_enter(phase, d)
<1>1. /\ boundary(r, concl) /\ next_phase(r, concl) = phase
      /\ process_message(r, k, concl, d)
           = [lifecycle |-> "connected", phase |-> phase, data |-> d,
              mailbox |-> released(RemoveAt(r.mailbox, k))]
  <2>1. CASE /\ concl.phase # "repeat_phase" /\ concl.phase # r.phase
             /\ phase = concl.phase
    BY <2>1, Consumes
  <2>2. CASE concl.phase = "repeat_phase" /\ phase = r.phase
    BY <2>2, Consumes
  <2>3. QED
    BY <2>1, <2>2 DEF enters
<1>2. carries(L, cast(L, c, casts), c, casts)
  BY Casting, Others DEF outgoing
<1>3. link' = cast(L, c, casts)
  BY <1>1 DEF finish_data
<1>4. replies' = [replies EXCEPT ![c] = @ \o casts["measurement"]]
  BY <1>1 DEF finish_data
<1>5. errors' = [errors EXCEPT ![c] =
        IF phase = "reporting" THEN Append(@, xor(parity(@), d.event)) ELSE @]
  BY <1>1 DEF finish_data
<1>6. rt' = [rt EXCEPT ![c] = process_message(r, k, concl, d)]
  BY DEF finish_data
<1>7. UNCHANGED <<announcements, announced>>
  BY DEF finish_data
<1> HIDE DEF casts
<1>8. Becomes(c, phase, d, released(RemoveAt(r.mailbox, k)))
  BY <1>1, <1>6 DEF Becomes
<1>9. carries(L, link', c, casts)
  BY <1>2, <1>3
<1>10. QED
  BY <1>4, <1>5, <1>7, <1>8, <1>9 DEF casts, data_enters

(* What a data cell casts on entry of its phases.                          *)
LEMMA DataCasts ==
  ASSUME NEW d
  PROVE  /\ \A p \in Ports :
              DC!handle_enter("reporting", d)[p] = <<DC!phenom_data(d, opposite[p])>>
         /\ DC!handle_enter("reporting", d)["measurement"] = << >>
         /\ \A p \in Ports : DC!handle_enter("collecting", d)[p] = << >>
         /\ DC!handle_enter("collecting", d)["measurement"] = << >>
         /\ \A p \in Ports : DC!handle_enter("replying", d)[p] = << >>
         /\ DC!handle_enter("replying", d)["measurement"] = <<DC!pauli_reply(d)>>
<1>1. \A p \in Ports : p \in Ports \cup {"measurement"} /\ p # "measurement"
  BY Others
<1>2. "measurement" \in Ports \cup {"measurement"} /\ "measurement" \notin Ports
  BY Others
<1>3. \A p \in Ports :
        DC!handle_enter("reporting", d)[p] = <<DC!phenom_data(d, opposite[p])>>
  BY <1>1 DEF DC!handle_enter
<1>4. DC!handle_enter("reporting", d)["measurement"] = << >>
  BY <1>2 DEF DC!handle_enter
<1>5. \A p \in Ports : DC!handle_enter("collecting", d)[p] = << >>
  BY <1>1 DEF DC!handle_enter
<1>6. DC!handle_enter("collecting", d)["measurement"] = << >>
  BY <1>2 DEF DC!handle_enter
<1>7. \A p \in Ports : DC!handle_enter("replying", d)[p] = << >>
  BY <1>1 DEF DC!handle_enter
<1>8. DC!handle_enter("replying", d)["measurement"] = <<DC!pauli_reply(d)>>
  BY <1>2 DEF DC!handle_enter
<1>9. QED
  BY <1>3, <1>4, <1>5, <1>6, <1>7, <1>8

(* A cell that collects again or replies casts nothing on its ports.       *)
LEMMA DataEntersSilently ==
  ASSUME IInv, NEW c \in Datas, NEW L, outgoing(L, c), NEW d,
         NEW phase \in {"collecting", "replying"},
         carries(L, link', c, DC!handle_enter(phase, d))
  PROVE  link' = L
<1> DEFINE casts == DC!handle_enter(phase, d)
<1>1. \A p \in Ports : casts[p] = << >>
  BY DataCasts
<1>2. \A p \in Ports : single(L[neighbor_at(c)[p]][c])
  BY SingleLinks, Others
<1> HIDE DEF casts
<1>3. carries(L, link', c, casts)
  BY DEF casts
<1>4. ASSUME NEW l, single(l) PROVE l \o << >> = l
  BY <1>4, Short DEF single
<1>5. \A p \in Ports :
        link'[neighbor_at(c)[p]][c] = L[neighbor_at(c)[p]][c]
  BY ZenonT(60), <1>1, <1>2, <1>3, <1>4 DEF carries
<1>6. \A u \in Cells, v \in Senders : link'[u][v] = L[u][v]
  BY <1>3, <1>5 DEF carries
<1>7. formed(L) /\ formed(link')
  BY <1>3 DEF carries, outgoing
<1>8. QED
  BY <1>6, <1>7, SameLinks
-----------------------------------------------------------------------------
(* The invariant, cell by cell.                                            *)
SyndromePhases(s) ==
  /\ rt[s].phase \in {"configuring", "collecting", "announcing"}
  /\ rt[s].phase = "announcing" <=> data(s).seen_sources = Ports
  /\ connected(rt[s]) => link[s]["host"] = << >>
  /\ connected(rt[s]) => all_connected(Datas)

DataPhases(d) ==
  /\ rt[d].phase \in {"configuring", "collecting", "reporting", "replying"}
  /\ rt[d].phase = "collecting" => data(d).seen_sources # Ports
  /\ rt[d].phase = "reporting" => data(d).seen_sources = Ports
  /\ rt[d].phase = "replying" =>
       /\ data(d).noise_disabled = 1
       /\ data(d).reply_resume =
            IF data(d).seen_sources = Ports THEN "reporting" ELSE "collecting"

Typed(c) ==
  /\ rt[c] = [lifecycle |-> rt[c].lifecycle, phase |-> rt[c].phase,
              data |-> rt[c].data, mailbox |-> rt[c].mailbox]
  /\ rt[c].lifecycle \in {"disconnected", "connected"}

AboutSyndrome(s) ==
  /\ Typed(s) /\ data(s) \in SyndromeData
  /\ SyndromePhases(s) /\ Stage(s) /\ Asking(s) /\ Announces(s)
  /\ \A p \in Ports : Edge(s, p)
  /\ \A x \in Cells : (\A p \in Ports : data_at[s][p] # x) => link[s][x] = << >>

AboutData(d) ==
  /\ Typed(d) /\ data(d) \in DataData
  /\ DataPhases(d) /\ Stage(d) /\ Hosted(d)
  /\ \A o \in Ports : Edge(syndrome_at[d][o], opposite[o])
  /\ \A x \in Cells :
       (\A p \in Ports : syndrome_at[d][p] # x) => link[d][x] = << >>
  /\ link[d]["phi"] = << >>

Globals ==
  /\ first_quiet \in 0 .. MaxCutoff
  /\ rt = [c \in Cells |-> rt[c]]
  /\ link = [c \in Cells |-> [x \in Senders |-> link[c][x]]]
  /\ announcements = [s \in Syndromes |-> announcements[s]]
  /\ replies \in [Datas -> Seq(Reply)]
  /\ requested \in [Syndromes -> Nat]
  /\ errors \in [Datas -> Seq(Bit)] /\ announced \in [Syndromes -> Seq(Bit)]
  /\ updates \in [Datas -> Nat] /\ asked \in Seq(Measurements)
  /\ certified \subseteq Syndromes
  /\ asked # << >> => certified = Syndromes

About ==
  /\ Globals
  /\ \A s \in Syndromes : AboutSyndrome(s)
  /\ \A d \in Datas : AboutData(d)

(* The invariant speaks of each cell by itself and of its edges.           *)
LEMMA CellByCell == IInv <=> About
<1> USE DEF About
<1>1. ASSUME IInv
      PROVE  /\ Globals
             /\ \A s \in Syndromes : AboutSyndrome(s)
             /\ \A d \in Datas : AboutData(d)
  <2>1. Globals
    BY <1>1 DEF IInv, Types, Globals
  <2>2. ASSUME NEW s \in Syndromes PROVE AboutSyndrome(s)
    <3>1. s \in Cells /\ neighbor_at(s) = data_at[s]
      BY Others, NeighborOf
    <3>2. Typed(s) /\ data(s) \in SyndromeData
      BY <1>1, <3>1 DEF IInv, Types, Typed
    <3>3. SyndromePhases(s)
      BY <1>1 DEF IInv, Phases, SyndromePhases
    <3>4. Stage(s) /\ Asking(s) /\ Announces(s) /\ \A p \in Ports : Edge(s, p)
      BY <1>1, <3>1 DEF IInv
    <3>5. \A x \in Cells :
            (\A p \in Ports : data_at[s][p] # x) => link[s][x] = << >>
      BY <1>1, <3>1 DEF IInv, Silent
    <3>6. QED
      BY <3>2, <3>3, <3>4, <3>5 DEF AboutSyndrome
  <2>3. ASSUME NEW d \in Datas PROVE AboutData(d)
    <3>1. d \in Cells /\ neighbor_at(d) = syndrome_at[d]
      BY Others, NeighborOf
    <3>2. Typed(d) /\ data(d) \in DataData
      BY <1>1, <3>1 DEF IInv, Types, Typed
    <3>3. DataPhases(d)
      BY <1>1 DEF IInv, Phases, DataPhases
    <3>4. Stage(d) /\ Hosted(d)
      BY <1>1, <3>1 DEF IInv
    <3>5. \A x \in Cells :
            (\A p \in Ports : syndrome_at[d][p] # x) => link[d][x] = << >>
      BY <1>1, <3>1 DEF IInv, Silent
    <3>6. link[d]["phi"] = << >>
      BY <1>1 DEF IInv, Silent
    <3>7. \A o \in Ports : Edge(syndrome_at[d][o], opposite[o])
      BY <1>1, DataEdges DEF IInv
    <3>8. QED
      BY <3>2, <3>3, <3>4, <3>5, <3>6, <3>7 DEF AboutData
  <2>4. QED
    BY <2>1, <2>2, <2>3
<1>2. ASSUME /\ Globals
             /\ \A s \in Syndromes : AboutSyndrome(s)
             /\ \A d \in Datas : AboutData(d)
      PROVE  IInv
  <2>1. Types
    BY <1>2 DEF Globals, AboutSyndrome, AboutData, Types, Typed, Cells
  <2>2. Silent
    <3>1. ASSUME NEW c \in Cells, NEW x \in Cells,
                 \A p \in Ports : neighbor_at(c)[p] # x
          PROVE  link[c][x] = << >>
      <4>1. CASE c \in Syndromes
        BY <1>2, <3>1, <4>1, NeighborOf DEF AboutSyndrome
      <4>2. CASE c \in Datas
        BY <1>2, <3>1, <4>2, NeighborOf DEF AboutData
      <4>3. QED
        BY <4>1, <4>2 DEF Cells
    <3>2. QED
      BY <1>2, <3>1 DEF Silent, AboutData
  <2>3. Phases
    BY <1>2 DEF AboutSyndrome, AboutData, SyndromePhases, DataPhases, Phases
  <2>4. \A c \in Cells : Stage(c)
    BY <1>2 DEF AboutSyndrome, AboutData, Cells
  <2>5. QED
    BY <1>2, <2>1, <2>2, <2>3, <2>4 DEF IInv, AboutSyndrome, AboutData
<1>3. QED
  BY <1>1, <1>2

(* A step that concerns one syndrome, or the decoder about it.             *)
OnlySyndrome(s) ==
  /\ rt' = [c \in Cells |-> rt'[c]]
  /\ \A c \in Cells : c # s => rt'[c] = rt[c]
  /\ connected(rt[s]) => connected(rt'[s])
  /\ formed(link')
  /\ \A u \in Cells, v \in Senders :
       u # s /\ v # s => link'[u][v] = link[u][v]
  /\ \A u \in Cells :
       u # s /\ (\A p \in Ports : data_at[s][p] # u) =>
         link'[u][s] = link[u][s]
  /\ announcements' = [t \in Syndromes |-> announcements'[t]]
  /\ announced' \in [Syndromes -> Seq(Bit)]
  /\ requested' \in [Syndromes -> Nat]
  /\ certified \subseteq certified' /\ certified' \subseteq Syndromes
  /\ \A t \in Syndromes : t # s =>
       /\ announcements'[t] = announcements[t] /\ announced'[t] = announced[t]
       /\ requested'[t] = requested[t]
       /\ t \in certified' <=> t \in certified
  /\ UNCHANGED <<errors, replies, first_quiet, updates, asked>>

(* Where a cell is in its startup stands while the cell and its queue      *)
(* from the host are left alone,                                           *)
LEMMA StageFrame ==
  ASSUME NEW c \in Cells, Stage(c), rt'[c] = rt[c],
         link'[c]["host"] = link[c]["host"], UNCHANGED first_quiet
  PROVE  Stage(c)'
<1>1. CASE Configuring(c)
  BY <1>1 DEF Configuring, Stage, configuration
<1>2. CASE Arming(c)
  BY <1>2 DEF Arming, Stage, data
<1>3. CASE Running(c)
  BY <1>3 DEF Running, Stage, data, complete, holding, asked_for
<1>4. QED
  BY <1>1, <1>2, <1>3 DEF Stage

(* and so does what is under way on an edge, with its two cells.           *)
LEMMA EdgeFrame ==
  ASSUME NEW s \in Syndromes, NEW p \in Ports, Edge(s, p),
         rt'[s] = rt[s], rt'[data_at[s][p]] = rt[data_at[s][p]],
         link'[s][data_at[s][p]] = link[s][data_at[s][p]],
         link'[data_at[s][p]][s] = link[data_at[s][p]][s],
         UNCHANGED <<errors, first_quiet>>
  PROVE  Edge(s, p)'
BY DEF Edge, heard, complete, queried, data, report, error, quiet

(* What the host has sent to a data cell stands while the cell, its queue  *)
(* from the host and its histories are left alone.                         *)
LEMMA HostedFrame ==
  ASSUME NEW d \in Datas, Hosted(d), rt'[d] = rt[d],
         link'[d]["host"] = link[d]["host"], errors'[d] = errors[d],
         replies'[d] = replies[d], updates'[d] = updates[d],
         UNCHANGED <<asked, first_quiet>>
  PROVE  Hosted(d)'
<1>1. complete(d)' = complete(d) /\ data(d)' = data(d)
  BY DEF complete, data
<1>2. \A n \in Nat : error(d, n)' = error(d, n)
  BY DEF error
<1>3. unanswered(d)' = unanswered(d)
  BY DEF unanswered
<1>4. pending(d)' = pending(d)
  BY <1>3 DEF pending
<1>5. (parity(errors[d]))' = parity(errors[d])
  OBVIOUS
<1>6. \A k \in DOMAIN replies[d] : answer(d, k)' = answer(d, k)
  BY <1>5 DEF answer
<1>7. /\ Len(errors[d])' = complete(d)'
      /\ (\A n \in Nat : n >= first_quiet /\ n < complete(d) => error(d, n) = 0)'
      /\ (Len(replies[d]) <= Len(asked))'
  BY <1>1, <1>2 DEF Hosted
<1>8. (\A k \in DOMAIN replies[d] :
         replies[d][k] = [tag |-> "pauli_reply", request_id |-> k - 1,
                          anticommutes |-> answer(d, k)])'
  BY <1>6 DEF Hosted
<1>9. CASE connected(rt[d])
  <2>1. connected(rt[d])'
    BY <1>9
  <2>2. QED
    BY <1>1, <1>4, <1>5, <1>7, <1>8, <1>9, <2>1 DEF Hosted
<1>10. CASE ~connected(rt[d])
  <2>1. ~connected(rt[d])'
    BY <1>10
  <2>2. QED
    BY <1>7, <1>8, <1>10, <2>1 DEF Hosted
<1>11. QED
  BY <1>9, <1>10

(* After a step of one syndrome only that syndrome has to be looked at.    *)
LEMMA SyndromeStep ==
  ASSUME IInv, NEW s \in Syndromes, OnlySyndrome(s), AboutSyndrome(s)'
  PROVE  IInv'
<1> USE DEF OnlySyndrome
<1>0. \A x \in Cells : connected(rt[x]) => connected(rt'[x])
  OBVIOUS
<1>1. Globals'
  <2>1. Globals
    BY CellByCell DEF About
  <2>2. QED
    BY <2>1 DEF Globals, formed
<1>2. ASSUME NEW t \in Syndromes PROVE AboutSyndrome(t)'
  <2>1. CASE t = s
    BY <2>1
  <2>2. CASE t # s
    <3>0. t \in Cells /\ t \in Senders /\ s \in Senders /\ "host" \in Senders
          /\ "phi" \in Senders /\ "host" # s /\ "phi" # s
      BY Others
    <3>1. AboutSyndrome(t)
      BY CellByCell DEF About
    <3>2. /\ rt'[t] = rt[t]
          /\ \A x \in Senders : x # s => link'[t][x] = link[t][x]
      BY <2>2, <3>0
    <3>3. link'[t][s] = link[t][s]
      <4>1. \A p \in Ports : data_at[s][p] # t
        BY Edges
      <4>2. QED
        BY <2>2, <3>0, <4>1
    <3>4. Typed(t)' /\ (data(t) \in SyndromeData)'
      BY <3>1, <3>2 DEF AboutSyndrome, Typed, data
    <3>5. SyndromePhases(t)'
      <4>1. SyndromePhases(t)
        BY <3>1 DEF AboutSyndrome
      <4>2. all_connected(Datas) => all_connected(Datas)'
        BY <1>0, Others DEF all_connected
      <4>3. QED
        BY <3>0, <3>2, <4>1, <4>2 DEF SyndromePhases, data
    <3>6. Stage(t)'
      BY <3>0, <3>1, <3>2, StageFrame DEF AboutSyndrome
    <3>7. Asking(t)'
      <4>1. Asking(t)
        BY <3>1 DEF AboutSyndrome
      <4>2. all_connected(Cells) => all_connected(Cells)'
        BY <1>0 DEF all_connected
      <4>3. QED
        BY <2>2, <3>0, <3>2, <4>1, <4>2
           DEF Asking, data, holding, asked_for, result, event, quiet
    <3>8. Announces(t)'
      BY <2>2, <3>1, <3>2 DEF AboutSyndrome, Announces, data, complete, event,
         quiet, flipped, reported, error
    <3>9. \A p \in Ports : Edge(t, p)'
      <4> TAKE p \in Ports
      <4>1. data_at[t][p] \in Cells /\ data_at[t][p] # s
            /\ data_at[t][p] \in Senders
        BY Edges
      <4>2. Edge(t, p)
        BY <3>1 DEF AboutSyndrome
      <4>3. /\ link'[t][data_at[t][p]] = link[t][data_at[t][p]]
            /\ link'[data_at[t][p]][t] = link[data_at[t][p]][t]
            /\ rt'[data_at[t][p]] = rt[data_at[t][p]]
        BY <2>2, <3>0, <4>1
      <4>4. QED
        BY <3>2, <4>2, <4>3, EdgeFrame
    <3>10. \A x \in Cells :
             (\A p \in Ports : data_at[t][p] # x) => link'[t][x] = << >>
      BY ZenonT(60), <3>1, <3>2, <3>3, Others DEF AboutSyndrome
    <3>11. QED
      BY <3>4, <3>5, <3>6, <3>7, <3>8, <3>9, <3>10 DEF AboutSyndrome
  <2>3. QED
    BY <2>1, <2>2
<1>3. ASSUME NEW d \in Datas PROVE AboutData(d)'
  <2>0. d \in Cells /\ d \in Senders /\ s \in Senders /\ "host" \in Senders
        /\ "phi" \in Senders /\ "host" # s /\ "phi" # s /\ d # s
    BY Others, Edges, NoiseMeshAssumption
  <2>1. AboutData(d)
    BY CellByCell DEF About
  <2>2. /\ rt'[d] = rt[d]
        /\ \A x \in Senders : x # s => link'[d][x] = link[d][x]
    BY <2>0
  <2>3. Typed(d)' /\ (data(d) \in DataData)'
    BY <2>1, <2>2 DEF AboutData, Typed, data
  <2>4. DataPhases(d)'
    BY <2>1, <2>2 DEF AboutData, DataPhases, data
  <2>5. Stage(d)'
    BY <2>0, <2>1, <2>2, StageFrame DEF AboutData
  <2>6. Hosted(d)'
    <3>1. Hosted(d)
      BY <2>1 DEF AboutData
    <3>2. link'[d]["host"] = link[d]["host"]
      BY <2>0, <2>2
    <3>3. QED
      BY <2>2, <3>1, <3>2, HostedFrame
  <2>7. \A o \in Ports : Edge(syndrome_at[d][o], opposite[o])'
    BY <1>2, DataEdges DEF AboutSyndrome
  <2>8. \A x \in Cells :
          (\A p \in Ports : syndrome_at[d][p] # x) => link'[d][x] = << >>
    <3> TAKE x \in Cells
    <3>1. SUFFICES ASSUME \A p \in Ports : syndrome_at[d][p] # x
                   PROVE  link'[d][x] = << >>
      OBVIOUS
    <3>2. link[d][x] = << >>
      BY <2>1, <3>1 DEF AboutData
    <3>3. CASE x # s
      BY <2>2, <3>2, <3>3, Others
    <3>4. CASE x = s
      <4>1. ASSUME NEW p \in Ports PROVE data_at[s][p] # d
        <5>1. data_at[s][p] = d => syndrome_at[d][opposite[p]] = s
              /\ opposite[p] \in Ports
          BY Edges
        <5>2. QED
          BY <3>1, <3>4, <5>1
      <4>2. QED
        BY <2>0, <3>2, <3>4, <4>1
    <3>5. QED
      BY <3>3, <3>4
  <2>9. link'[d]["phi"] = << >>
    BY <2>0, <2>1, <2>2 DEF AboutData
  <2>10. QED
    BY <2>3, <2>4, <2>5, <2>6, <2>7, <2>8, <2>9 DEF AboutData
<1>4. QED
  <2>1. About'
    BY <1>1, <1>2, <1>3 DEF About
  <2>2. QED
    BY <2>1, CellByCell, PTL

(* A step that concerns one data cell, or the host about it.  Its history  *)
(* of errors only grows: what the syndromes have counted stays.            *)
OnlyData(d) ==
  /\ rt' = [c \in Cells |-> rt'[c]]
  /\ \A c \in Cells : c # d => rt'[c] = rt[c]
  /\ connected(rt[d]) => connected(rt'[d])
  /\ formed(link')
  /\ \A u \in Cells, v \in Senders :
       u # d /\ v # d => link'[u][v] = link[u][v]
  /\ \A u \in Cells :
       u # d /\ (\A p \in Ports : syndrome_at[d][p] # u) =>
         link'[u][d] = link[u][d]
  /\ replies' \in [Datas -> Seq(Reply)]
  /\ errors' \in [Datas -> Seq(Bit)]
  /\ Len(errors[d]) <= Len(errors'[d])
  /\ \A n \in 1 .. Len(errors[d]) : errors'[d][n] = errors[d][n]
  /\ updates' \in [Datas -> Nat]
  /\ \A e \in Datas : e # d =>
       /\ replies'[e] = replies[e] /\ errors'[e] = errors[e]
       /\ updates'[e] = updates[e]
  /\ UNCHANGED <<announcements, announced, requested, first_quiet, certified,
                 asked>>

(* A syndrome has counted no more rounds of a port than the data cell.     *)
LEMMA CountedRounds ==
  ASSUME IInv, NEW s \in Syndromes, NEW p \in Ports
  PROVE  /\ complete(s) \in Nat /\ data(s).step \in Nat
         /\ complete(s) <= Len(errors[data_at[s][p]])
         /\ p \in data(s).seen_sources =>
              data(s).step + 1 <= Len(errors[data_at[s][p]])
<1>1. Edge(s, p) /\ data_at[s][p] \in Datas
  BY Edges DEF IInv
<1>2. complete(data_at[s][p]) = Len(errors[data_at[s][p]])
  BY <1>1 DEF IInv, Hosted
<1>3. heard(s, p) <= Len(errors[data_at[s][p]])
  BY <1>1, <1>2 DEF Edge
<1>4. data(s).step \in Nat /\ data(s).seen_sources \in SUBSET Ports
  BY DEF IInv, Types, SyndromeData
<1>5. errors[data_at[s][p]] \in Seq(Bit)
  BY <1>1 DEF IInv, Types
<1>6. Len(errors[data_at[s][p]]) \in Nat
  BY <1>5
<1>7. QED
  BY <1>3, <1>4, <1>6 DEF heard, complete, one_if

(* A step of a data cell leaves the past of every data cell.               *)
LEMMA SameParities ==
  ASSUME NEW d \in Datas, OnlyData(d), errors \in [Datas -> Seq(Bit)],
         NEW e \in Datas, NEW n \in Nat, n <= Len(errors[e])
  PROVE  parity_after(errors'[e], n) = parity_after(errors[e], n)
<1>1. CASE e = d
  <2>1. n = 0 \/ n \in 1 .. Len(errors[d])
    BY <1>1
  <2>2. QED
    BY <1>1, <2>1 DEF OnlyData, parity_after
<1>2. CASE e # d
  BY <1>2 DEF OnlyData
<1>3. QED
  BY <1>1, <1>2

(* So what the syndromes have announced stays explained.                   *)
LEMMA AnnouncesFrame ==
  ASSUME IInv, NEW d \in Datas, OnlyData(d), NEW s \in Syndromes
  PROVE  Announces(s)'
<1>1. Announces(s)
  BY DEF IInv
<1>2. rt'[s] = rt[s] /\ announced' = announced /\ first_quiet' = first_quiet
  BY Others, Edges, NoiseMeshAssumption DEF OnlyData
<1>3. data(s)' = data(s) /\ complete(s)' = complete(s)
  BY <1>2 DEF data, complete
<1>4. errors \in [Datas -> Seq(Bit)]
  BY DEF IInv, Types
<1>5. ASSUME NEW p \in Ports
      PROVE  parity_after(errors'[data_at[s][p]], complete(s))
               = parity_after(errors[data_at[s][p]], complete(s))
  BY <1>4, Edges, CountedRounds, SameParities
<1>6. ASSUME NEW p \in data(s).seen_sources
      PROVE  error(data_at[s][p], data(s).step)'
               = error(data_at[s][p], data(s).step)
  <2>1. p \in Ports
    BY DEF IInv, Types, SyndromeData
  <2> DEFINE n == data(s).step
             e == data_at[s][p]
  <2>2. n \in Nat /\ n + 1 <= Len(errors[e]) /\ e \in Datas
    BY <1>6, <2>1, CountedRounds, Edges
  <2>3. Len(errors[e]) \in Nat
    BY <1>4, <2>2
  <2>6. data(s)'.step = n
    BY <1>3
  <2> HIDE DEF n, e
  <2>4. parity_after(errors'[e], n) = parity_after(errors[e], n)
    BY <1>4, <2>2, <2>3, SameParities
  <2>5. parity_after(errors'[e], n + 1) = parity_after(errors[e], n + 1)
    BY <1>4, <2>2, <2>3, SameParities
  <2>7. QED
    BY <2>4, <2>5, <2>6 DEF error, n, e
<1>7. flipped(s, complete(s))' = flipped(s, complete(s))
  BY <1>3, <1>5 DEF flipped
<1>8. reported(s)' = reported(s)
  BY <1>3, <1>6 DEF reported
<1>9. QED
  BY <1>1, <1>2, <1>3, <1>7, <1>8 DEF Announces, event, quiet

(* After a step of one data cell only that data cell has to be looked at.  *)
LEMMA DataStep ==
  ASSUME IInv, NEW d \in Datas, OnlyData(d), AboutData(d)'
  PROVE  IInv'
<1> USE DEF OnlyData
<1>0. \A x \in Cells : connected(rt[x]) => connected(rt'[x])
  OBVIOUS
<1>1. Globals'
  <2>1. Globals
    BY CellByCell DEF About
  <2>2. QED
    BY <2>1 DEF Globals, formed
<1>9. d \in Cells /\ d \in Senders /\ "host" \in Senders
      /\ "phi" \in Senders /\ "host" # d /\ "phi" # d
  BY Others
<1>2. ASSUME NEW t \in Syndromes PROVE AboutSyndrome(t)'
  <2>0. t \in Cells /\ t \in Senders /\ t # d
    BY Others, Edges, NoiseMeshAssumption
  <2>1. AboutSyndrome(t)
    BY CellByCell DEF About
  <2>2. /\ rt'[t] = rt[t]
        /\ \A x \in Senders : x # d => link'[t][x] = link[t][x]
    BY <2>0
  <2>3. Typed(t)' /\ (data(t) \in SyndromeData)'
    BY <2>1, <2>2 DEF AboutSyndrome, Typed, data
  <2>4. SyndromePhases(t)'
    <3>1. SyndromePhases(t)
      BY <2>1 DEF AboutSyndrome
    <3>2. all_connected(Datas) => all_connected(Datas)'
      BY <1>0, Others DEF all_connected
    <3>3. QED
      BY <1>9, <2>2, <3>1, <3>2 DEF SyndromePhases, data
  <2>5. Stage(t)'
    BY <1>9, <2>0, <2>1, <2>2, StageFrame DEF AboutSyndrome
  <2>6. Asking(t)'
    <3>1. Asking(t)
      BY <2>1 DEF AboutSyndrome
    <3>2. all_connected(Cells) => all_connected(Cells)'
      BY <1>0 DEF all_connected
    <3>3. QED
      BY <1>9, <2>2, <3>1, <3>2
         DEF Asking, data, holding, asked_for, result, event, quiet
  <2>7. Announces(t)'
    BY AnnouncesFrame
  <2>8. \A p \in Ports : Edge(t, p)'
    <3> TAKE p \in Ports
    <3>1. CASE data_at[t][p] = d
      <4>1. opposite[p] \in Ports /\ syndrome_at[d][opposite[p]] = t
            /\ opposite[opposite[p]] = p
        <5>1. opposite[p] \in Ports /\ syndrome_at[d][opposite[p]] = t
          BY <3>1, Edges
        <5>2. /\ data_at[t][opposite[opposite[p]]] = d
              /\ opposite[opposite[p]] \in Ports
          BY <5>1, DataEdges
        <5>3. QED
          BY <3>1, <5>1, <5>2, Edges
      <4>2. Edge(syndrome_at[d][opposite[p]], opposite[opposite[p]])'
        BY <4>1 DEF AboutData
      <4>3. QED
        BY <4>1, <4>2
    <3>2. CASE data_at[t][p] # d
      <4> DEFINE e == data_at[t][p]
      <4>1. e \in Cells /\ e \in Senders /\ e \in Datas /\ e # t
        BY Edges
      <4>2. Edge(t, p)
        BY <2>1 DEF AboutSyndrome
      <4>3. /\ link'[t][e] = link[t][e] /\ link'[e][t] = link[e][t]
            /\ rt'[e] = rt[e] /\ errors'[e] = errors[e]
        BY <2>0, <3>2, <4>1
      <4>4. QED
        BY <2>2, <4>2, <4>3 DEF Edge, heard, complete, queried, data, report,
           error, quiet
    <3>3. QED
      BY <3>1, <3>2
  <2>9. \A x \in Cells :
          (\A p \in Ports : data_at[t][p] # x) => link'[t][x] = << >>
    <3> TAKE x \in Cells
    <3>1. SUFFICES ASSUME \A p \in Ports : data_at[t][p] # x
                   PROVE  link'[t][x] = << >>
      OBVIOUS
    <3>2. link[t][x] = << >>
      BY <2>1, <3>1 DEF AboutSyndrome
    <3>3. CASE x # d
      BY <2>2, <3>2, <3>3, Others
    <3>4. CASE x = d
      <4>1. ASSUME NEW p \in Ports PROVE syndrome_at[d][p] # t
        <5>1. syndrome_at[d][p] = t => data_at[t][opposite[p]] = d
              /\ opposite[p] \in Ports
          BY DataEdges
        <5>2. QED
          BY <3>1, <3>4, <5>1
      <4>2. QED
        BY <2>0, <3>2, <3>4, <4>1
    <3>5. QED
      BY <3>3, <3>4
  <2>10. QED
    BY <2>3, <2>4, <2>5, <2>6, <2>7, <2>8, <2>9 DEF AboutSyndrome
<1>3. ASSUME NEW e \in Datas PROVE AboutData(e)'
  <2>1. CASE e = d
    BY <2>1
  <2>2. CASE e # d
    <3>0. e \in Cells
      BY Others
    <3>1. AboutData(e)
      BY CellByCell DEF About
    <3>2. /\ rt'[e] = rt[e]
          /\ \A x \in Senders : x # d => link'[e][x] = link[e][x]
      BY <2>2, <3>0
    <3>3. link'[e][d] = link[e][d]
      <4>1. \A p \in Ports : syndrome_at[d][p] # e
        BY DataEdges
      <4>2. QED
        BY <2>2, <3>0, <4>1
    <3>4. Typed(e)' /\ (data(e) \in DataData)'
      BY <3>1, <3>2 DEF AboutData, Typed, data
    <3>5. DataPhases(e)'
      BY <3>1, <3>2 DEF AboutData, DataPhases, data
    <3>6. Stage(e)'
      BY <1>9, <3>0, <3>1, <3>2, StageFrame DEF AboutData
    <3>7. Hosted(e)'
      <4>1. Hosted(e)
        BY <3>1 DEF AboutData
      <4>2. link'[e]["host"] = link[e]["host"]
        BY <1>9, <3>2
      <4>3. QED
        BY <2>2, <3>2, <4>1, <4>2, HostedFrame
    <3>8. \A o \in Ports : Edge(syndrome_at[e][o], opposite[o])'
      BY <1>2, DataEdges DEF AboutSyndrome
    <3>9. \A x \in Cells :
            (\A p \in Ports : syndrome_at[e][p] # x) => link'[e][x] = << >>
      BY <3>1, <3>2, <3>3, Others DEF AboutData
    <3>10. link'[e]["phi"] = << >>
      BY <1>9, <3>1, <3>2 DEF AboutData
    <3>11. QED
      BY <3>4, <3>5, <3>6, <3>7, <3>8, <3>9, <3>10 DEF AboutData
  <2>3. QED
    BY <2>1, <2>2
<1>4. QED
  <2>1. About'
    BY <1>1, <1>2, <1>3 DEF About
  <2>2. QED
    BY <2>1, CellByCell, PTL
-----------------------------------------------------------------------------
(* Which message a turn is about.                                          *)
LEMMA Chosen ==
  ASSUME NEW r, NEW a, NEW b
  PROVE  /\ r.mailbox = <<fresh(a), fresh(b)>> =>
              /\ eligible(r) # {} /\ \A k : selected(r, k) => k = 1
         /\ r.mailbox = <<fresh(a)>> =>
              /\ eligible(r) # {} /\ \A k : selected(r, k) => k = 1
         /\ r.mailbox = << >> => eligible(r) = {}
         /\ r.mailbox = <<[message |-> a, postponed |-> TRUE]>> =>
              eligible(r) = {}
<1>1. ASSUME r.mailbox = <<fresh(a), fresh(b)>>
      PROVE  eligible(r) # {} /\ \A k : selected(r, k) => k = 1
  <2>1. /\ DOMAIN r.mailbox = 1 .. 2
        /\ ~r.mailbox[1].postponed
    BY <1>1 DEF fresh
  <2>2. 1 \in eligible(r) /\ eligible(r) \subseteq 1 .. 2
    BY <2>1 DEF eligible
  <2>3. QED
    BY <2>2 DEF selected
<1>2. ASSUME r.mailbox = <<fresh(a)>>
      PROVE  eligible(r) # {} /\ \A k : selected(r, k) => k = 1
  <2>1. /\ DOMAIN r.mailbox = 1 .. 1
        /\ ~r.mailbox[1].postponed
    BY <1>2 DEF fresh
  <2>2. 1 \in eligible(r) /\ eligible(r) \subseteq 1 .. 1
    BY <2>1 DEF eligible
  <2>3. QED
    BY <2>2 DEF selected
<1>3. r.mailbox = << >> => eligible(r) = {}
  BY DEF eligible
<1>4. ASSUME r.mailbox = <<[message |-> a, postponed |-> TRUE]>>
      PROVE  eligible(r) = {}
  <2>1. DOMAIN r.mailbox = 1 .. 1 /\ r.mailbox[1].postponed
    BY <1>4
  <2>2. QED
    BY <2>1 DEF eligible
<1>5. QED
  BY <1>1, <1>2, <1>3, <1>4

(* The fields of a record in SyndromeData.                                 *)
LEMMA SyndromeFacts ==
  ASSUME IInv, NEW s \in Syndromes
  PROVE  /\ data(s) \in SyndromeData /\ data(s).step \in Nat
         /\ data(s).seen_sources \subseteq Ports
         /\ first_quiet \in Nat /\ Typed(s)
         /\ connected(rt[s]) => record(rt[s])
         /\ complete(s) \in Nat
         /\ data(s).step <= MaxStep + 1 /\ MaxStep \in Nat
         /\ AboutSyndrome(s) /\ Globals
<1>1. AboutSyndrome(s) /\ Globals
  BY CellByCell DEF About
<1>2. data(s) \in SyndromeData /\ Typed(s)
  BY <1>1 DEF AboutSyndrome
<1>3. data(s).step \in Nat /\ data(s).seen_sources \subseteq Ports
  BY <1>2 DEF SyndromeData
<1>4. first_quiet \in Nat /\ MaxStep \in Nat
  BY <1>1, Numbers DEF Globals
<1>5. complete(s) \in Nat
  BY <1>3 DEF complete, one_if
<1>6. data(s).step <= MaxStep + 1
  <2>1. /\ requested[s] \in 0 .. MaxStep + 1
        /\ link[s]["phi"] \in {<< >>, <<phenom_request(data(s).step)>>}
        /\ requested[s] = data(s).step + Len(link[s]["phi"]) + one_if(holding(s))
    BY <1>1 DEF AboutSyndrome, Asking
  <2>2. Len(link[s]["phi"]) \in Nat /\ one_if(holding(s)) \in Nat
    BY <2>1, Short DEF one_if
  <2>3. QED
    BY <1>3, <1>4, <2>1, <2>2
<1>7. connected(rt[s]) => record(rt[s])
  BY <1>2 DEF Typed, connected, record
<1>8. QED
  BY <1>1, <1>2, <1>3, <1>4, <1>5, <1>6, <1>7

(* What the invariant says of a data cell, in the form that its steps      *)
(* use.                                                                    *)
LEMMA DataFacts ==
  ASSUME IInv, NEW d \in Datas
  PROVE  /\ data(d) \in DataData /\ data(d).step \in Nat
         /\ data(d).seen_sources \subseteq Ports
         /\ first_quiet \in Nat /\ Typed(d)
         /\ connected(rt[d]) => record(rt[d])
         /\ complete(d) \in Nat
         /\ AboutData(d) /\ Globals
<1>1. AboutData(d) /\ Globals
  BY CellByCell DEF About
<1>2. data(d) \in DataData /\ Typed(d)
  BY <1>1 DEF AboutData
<1>3. data(d).step \in Nat /\ data(d).seen_sources \subseteq Ports
  BY <1>2 DEF DataData
<1>4. first_quiet \in Nat
  BY <1>1, Numbers DEF Globals
<1>5. complete(d) \in Nat
  BY <1>3 DEF complete, one_if
<1>7. connected(rt[d]) => record(rt[d])
  BY <1>2 DEF Typed, connected, record
<1>8. QED
  BY <1>1, <1>2, <1>3, <1>4, <1>5, <1>7

(* The cell after its turn.                                                *)
LEMMA Became ==
  ASSUME IInv, NEW c \in Cells, NEW phase, NEW d, NEW mailbox,
         Becomes(c, phase, d, mailbox)
  PROVE  /\ rt'[c].lifecycle = "connected" /\ connected(rt'[c])
         /\ rt'[c].phase = phase /\ rt'[c].data = d /\ rt'[c].mailbox = mailbox
         /\ data(c)' = d /\ Typed(c)'
         /\ rt' = [u \in Cells |-> rt'[u]]
         /\ \A u \in Cells : u # c => rt'[u] = rt[u]
<1>1. rt = [u \in Cells |-> rt[u]]
  BY Functions
<1>2. rt'[c] = [lifecycle |-> "connected", phase |-> phase, data |-> d,
                mailbox |-> mailbox]
  BY <1>1 DEF Becomes
<1>3. rt' = [u \in Cells |-> rt'[u]] /\ \A u \in Cells : u # c => rt'[u] = rt[u]
  BY <1>1 DEF Becomes
<1>4. QED
  BY <1>2, <1>3 DEF connected, data, Typed

(* Only neighbors receive what c casts, after what L holds.                *)
spreads(L, c) ==
  /\ formed(link')
  /\ \A u \in Cells, v \in Senders :
       (v # c \/ \A p \in Ports : neighbor_at(c)[p] # u) =>
         link'[u][v] = L[u][v]

(* Casting on the ports and casting nothing are both spreading.            *)
LEMMA Spreads ==
  ASSUME NEW L, NEW c
  PROVE  /\ formed(L) /\ link' = L => spreads(L, c)
         /\ \A casts : carries(L, link', c, casts) => spreads(L, c)
BY DEF carries, spreads

(* A turn of a syndrome is a step of that syndrome only.                   *)
LEMMA OnlyThisSyndrome ==
  ASSUME IInv, NEW s \in Syndromes, NEW phase, NEW d, NEW mailbox,
         Becomes(s, phase, d, mailbox), NEW L, outgoing(L, s), spreads(L, s),
         NEW a, announcements' = [announcements EXCEPT ![s] = a],
         NEW h \in Seq(Bit), announced' = [announced EXCEPT ![s] = h],
         UNCHANGED <<errors, replies, requested, first_quiet, certified,
                     updates, asked>>
  PROVE  /\ OnlySyndrome(s)
         /\ announcements'[s] = a /\ announced'[s] = h
         /\ \A x \in Senders : link'[s][x] = L[s][x]
<1>0. s \in Cells /\ Globals /\ neighbor_at(s) = data_at[s]
  BY CellByCell, Others, NeighborOf DEF About
<1>1. /\ rt' = [c \in Cells |-> rt'[c]]
      /\ \A c \in Cells : c # s => rt'[c] = rt[c]
      /\ connected(rt'[s])
  BY <1>0, Became
<1>2. /\ formed(link')
      /\ \A u \in Cells, v \in Senders :
           u # s /\ v # s => link'[u][v] = link[u][v]
      /\ \A u \in Cells :
           u # s /\ (\A p \in Ports : data_at[s][p] # u) =>
             link'[u][s] = link[u][s]
  BY <1>0, Others DEF outgoing, spreads
<1>3. \A x \in Senders : link'[s][x] = L[s][x]
  <2>1. \A p \in Ports : data_at[s][p] # s
    BY <1>0, Neighbors
  <2>2. QED
    BY <1>0, <2>1 DEF spreads
<1>4. /\ announcements' = [t \in Syndromes |-> announcements'[t]]
      /\ announcements'[s] = a
      /\ \A t \in Syndromes : t # s => announcements'[t] = announcements[t]
  BY <1>0 DEF Globals
<1>5. /\ announced' \in [Syndromes -> Seq(Bit)] /\ announced'[s] = h
      /\ \A t \in Syndromes : t # s => announced'[t] = announced[t]
  BY <1>0 DEF Globals
<1>6. /\ requested' \in [Syndromes -> Nat] /\ certified' = certified
      /\ certified' \subseteq Syndromes /\ requested' = requested
  BY <1>0 DEF Globals
<1>7. QED
  BY <1>1, <1>2, <1>3, <1>4, <1>5, <1>6 DEF OnlySyndrome

(* A turn in which a syndrome only counts: what it says of its round and   *)
(* its edges stays.                                                        *)
LEMMA SameEdges ==
  ASSUME IInv, NEW s \in Syndromes, OnlySyndrome(s),
         data(s)'.step = data(s).step,
         data(s)'.seen_sources = data(s).seen_sources,
         rt'[s].phase = "configuring" <=> rt[s].phase = "configuring",
         \A p \in Ports : link'[s][data_at[s][p]] = link[s][data_at[s][p]],
         \A p \in Ports : link'[data_at[s][p]][s] = link[data_at[s][p]][s]
  PROVE  \A p \in Ports : Edge(s, p)'
<1> TAKE p \in Ports
<1>1. Edge(s, p)
  BY DEF IInv
<1>2. rt'[data_at[s][p]] = rt[data_at[s][p]]
  BY Edges DEF OnlySyndrome
<1>3. errors' = errors /\ first_quiet' = first_quiet
  BY DEF OnlySyndrome
<1>4. heard(s, p)' = heard(s, p) /\ queried(s)' = queried(s)
  BY DEF heard, queried
<1>5. /\ heard(data_at[s][p], opposite[p])' = heard(data_at[s][p], opposite[p])
      /\ complete(data_at[s][p])' = complete(data_at[s][p])
  BY <1>2 DEF heard, complete, data
<1>6. report(data_at[s][p], heard(s, p), p)' = report(data_at[s][p], heard(s, p), p)
  BY <1>3, <1>4 DEF report, error, quiet
<1>7. QED
  BY <1>1, <1>4, <1>5, <1>6 DEF Edge

Rest == <<requested, first_quiet, certified, updates, asked>>

(* A turn that neither announces nor casts.                                *)
LEMMA OnlyCounts ==
  ASSUME IInv, NEW s \in Syndromes, NEW phase, NEW d, NEW mailbox,
         Becomes(s, phase, d, mailbox), NEW L, outgoing(L, s), link' = L,
         UNCHANGED <<announcements, announced, errors, replies>>, UNCHANGED Rest
  PROVE  /\ OnlySyndrome(s)
         /\ announcements'[s] = announcements[s] /\ announced'[s] = announced[s]
         /\ \A x \in Senders : link'[s][x] = L[s][x]
         /\ \A p \in Ports : link'[data_at[s][p]][s] = link[data_at[s][p]][s]
<1> USE DEF Rest
<1>1. spreads(L, s)
  BY Spreads DEF outgoing
<1>2. announcements' = [announcements EXCEPT ![s] = announcements[s]]
  BY Functions
<1>3. announced[s] \in Seq(Bit) /\ announced' = [announced EXCEPT ![s] = announced[s]]
  BY Functions, CellByCell DEF About, Globals
<1>4. /\ OnlySyndrome(s)
      /\ announcements'[s] = announcements[s] /\ announced'[s] = announced[s]
  BY <1>1, <1>2, <1>3, OnlyThisSyndrome
<1>5. \A p \in Ports : link'[data_at[s][p]][s] = link[data_at[s][p]][s]
  <2>1. \A p \in Ports : data_at[s][p] \in Cells /\ data_at[s][p] # s
    BY Edges
  <2>2. s \in Senders
    BY Others
  <2>3. \A p \in Ports : L[data_at[s][p]][s] = link[data_at[s][p]][s]
    BY <2>1, <2>2 DEF outgoing
  <2>4. QED
    BY <2>3
<1>6. QED
  BY <1>4, <1>5

(* A turn in which a syndrome moves in no round: besides its stage and its *)
(* mailbox, everything about it stays.                                     *)
SameRound(s) ==
  /\ OnlySyndrome(s)
  /\ rt'[s].phase = rt[s].phase
  /\ data(s)'.step = data(s).step
  /\ data(s)'.seen_sources = data(s).seen_sources
  /\ data(s)'.data_parity = data(s).data_parity
  /\ data(s)'.data_quiet = data(s).data_quiet
  /\ data(s)'.announcement = data(s).announcement
  /\ data(s)'.announcement_quiet = data(s).announcement_quiet
  /\ data(s)'.previous_measurement = data(s).previous_measurement
  /\ announcements'[s] = announcements[s] /\ announced'[s] = announced[s]
  /\ \A x \in Cells : link'[s][x] = link[s][x]
  /\ \A p \in Ports : link'[data_at[s][p]][s] = link[data_at[s][p]][s]

SameCount(s) == SameRound(s) /\ link'[s]["host"] = link[s]["host"]

(* A step of a syndrome within its round, that counts no report, keeps the *)
(* invariant if it keeps the syndrome's own part.                          *)
LEMMA SyndromeSame ==
  ASSUME IInv, NEW s \in Syndromes, SameRound(s), SyndromePhases(s)',
         (data(s) \in SyndromeData)', Typed(s)', Stage(s)',
         requested' = requested, certified' = certified,
         link'[s]["phi"] \in {<< >>, link[s]["phi"]},
         Len(link'[s]["phi"]) + one_if(holding(s)')
           = Len(link[s]["phi"]) + one_if(holding(s))
  PROVE  IInv'
<1>1. AboutSyndrome(s) /\ OnlySyndrome(s)
  BY SyndromeFacts DEF SameRound
<1>2. \A x \in Cells : connected(rt[x]) => connected(rt'[x])
  BY <1>1 DEF OnlySyndrome
<1>4. Asking(s)'
  <2>1. all_connected(Cells) => all_connected(Cells)'
    BY <1>2 DEF all_connected
  <2>2. Asking(s)
    BY <1>1 DEF AboutSyndrome
  <2>3. first_quiet' = first_quiet
    BY <1>1 DEF OnlySyndrome
  <2>4. requested'[s] = data(s)'.step + Len(link'[s]["phi"]) + one_if(holding(s)')
    <3> DEFINE a == Len(link'[s]["phi"])
               b == Len(link[s]["phi"])
               c == one_if(holding(s)')
               e == one_if(holding(s))
               n == data(s).step
    <3>1. b \in Nat
      BY <2>2, Short DEF Asking
    <3>2. a \in Nat
      BY <3>1, Short
    <3>3. c \in Nat /\ e \in Nat
      BY DEF one_if
    <3>4. n \in Nat
      BY SyndromeFacts
    <3>5. data(s)'.step = n /\ requested' = requested
      BY DEF SameRound
    <3>6. requested[s] = n + b + e /\ a + c = b + e
      BY <2>2 DEF Asking
    <3> DEFINE m == requested[s]
    <3>7. m = n + b + e
      BY <3>6
    <3> HIDE DEF a, b, c, e, n, m
    <3>8. m = n + a + c
      BY ONLY <3>1, <3>2, <3>3, <3>4, <3>6, <3>7
    <3>9. QED
      BY <3>5, <3>8 DEF a, c, m
  <2>5. QED
    BY <2>1, <2>2, <2>3, <2>4 DEF Asking, SameRound, result, event, quiet
<1>5. Announces(s)'
  <2>1. Announces(s)
    BY <1>1 DEF AboutSyndrome
  <2>2. errors' = errors /\ first_quiet' = first_quiet
    BY <1>1 DEF OnlySyndrome
  <2>3. complete(s)' = complete(s) /\ reported(s)' = reported(s)
    BY <2>2 DEF SameRound, complete, reported, error
  <2>4. flipped(s, complete(s))' = flipped(s, complete(s))
    BY <2>2, <2>3 DEF flipped
  <2>5. QED
    BY <2>1, <2>2, <2>3, <2>4 DEF Announces, SameRound, event, quiet
<1>6. \A p \in Ports : Edge(s, p)'
  <2>1. \A p \in Ports : link'[s][data_at[s][p]] = link[s][data_at[s][p]]
    BY Edges DEF SameRound
  <2>2. QED
    BY <1>1, <2>1, SameEdges DEF SameRound
<1>7. \A x \in Cells :
        (\A p \in Ports : data_at[s][p] # x) => link'[s][x] = << >>
  BY <1>1 DEF AboutSyndrome, SameRound
<1>8. QED
  BY <1>1, <1>4, <1>5, <1>6, <1>7, SyndromeStep DEF AboutSyndrome

(* The phases of a connected syndrome that takes nothing from the host are *)
(* kept then.                                                              *)
LEMMA SyndromeCounts ==
  ASSUME IInv, NEW s \in Syndromes, SameCount(s), connected(rt[s]),
         (data(s) \in SyndromeData)', Typed(s)', Stage(s)',
         requested' = requested, certified' = certified,
         link'[s]["phi"] \in {<< >>, link[s]["phi"]},
         Len(link'[s]["phi"]) + one_if(holding(s)')
           = Len(link[s]["phi"]) + one_if(holding(s))
  PROVE  IInv'
<1>1. AboutSyndrome(s) /\ OnlySyndrome(s) /\ SameRound(s)
  BY SyndromeFacts DEF SameCount, SameRound
<1>2. \A x \in Cells : connected(rt[x]) => connected(rt'[x])
  BY <1>1 DEF OnlySyndrome
<1>3. SyndromePhases(s)'
  <2>1. all_connected(Datas) => all_connected(Datas)'
    BY <1>2, Others DEF all_connected
  <2>2. SyndromePhases(s)
    BY <1>1 DEF AboutSyndrome
  <2>3. QED
    BY <2>1, <2>2 DEF SyndromePhases, SameCount, SameRound
<1>4. QED
  BY <1>1, <1>3, SyndromeSame
-----------------------------------------------------------------------------
(* The turns of a syndrome.                                                *)
turn_syndrome(s, r, k, L, noise) ==
  finish_syndrome(s, r, k, L,
    SC!handle_cast(r.mailbox[k].message, r.phase, r.data, noise))

(* It stores the cutoff.                                                   *)
LEMMA SyndromeArmsCutoff ==
  ASSUME IInv, NEW s \in Syndromes, Arming(s), NEW noise,
         turn_syndrome(s, rt[s], 1, link, noise), UNCHANGED Rest
  PROVE  IInv'
<1> DEFINE r == rt[s]
           d == armed_with(data(s), first_quiet)
<1>1. /\ connected(r) /\ r.phase = "collecting" /\ r.data = data(s)
      /\ r.mailbox = <<fresh(noise_cutoff(first_quiet))>>
      /\ data(s).step = 0 /\ data(s).seen_sources = {}
      /\ data(s).noise_disabled = 0 /\ data(s).cutoff_armed = 0
      /\ r.mailbox[1].message = noise_cutoff(first_quiet)
  BY DEF Arming, data, fresh
<1>2. /\ data(s) \in SyndromeData /\ first_quiet \in Nat /\ record(r)
      /\ AboutSyndrome(s) /\ Globals /\ complete(s) \in Nat
  BY <1>1, SyndromeFacts
<1>3. SC!handle_cast(noise_cutoff(first_quiet), "collecting", data(s), noise)
        = SC!conclude("collecting", d, "consume")
  <2>1. first_quiet >= data(s).step
    BY <1>1, <1>2
  <2>2. QED
    BY <1>1, <2>1, SyndromeArms
<1>4. finish_syndrome(s, r, 1, link, SC!conclude("collecting", d, "consume"))
  BY <1>1, <1>3 DEF turn_syndrome
<1>5. /\ d.step = data(s).step /\ d.seen_sources = data(s).seen_sources
      /\ d.cutoff_armed = 1 /\ d.cutoff_step = first_quiet
      /\ d.noise_disabled = data(s).noise_disabled /\ d \in SyndromeData
      /\ d.data_parity = data(s).data_parity /\ d.data_quiet = data(s).data_quiet
      /\ d.previous_measurement = data(s).previous_measurement
      /\ d.announcement = data(s).announcement
      /\ d.announcement_quiet = data(s).announcement_quiet
  BY <1>2, SyndromeArmed
<1>6. RemoveAt(r.mailbox, 1) = << >>
  BY <1>1, ShortRemoval
<1> HIDE DEF d
<1>7. /\ Becomes(s, "collecting", d, << >>)
      /\ link' = link
      /\ UNCHANGED <<announcements, announced, errors, replies>>
  <2> DEFINE concl == SC!conclude("collecting", d, "consume")
  <2>1. concl.phase = "collecting" /\ concl.data = d /\ concl.directive = "consume"
    BY DEF SC!conclude
  <2> HIDE DEF concl
  <2>2. finish_syndrome(s, r, 1, link, concl)
    BY <1>4 DEF concl
  <2>3. outgoing(link, s)
    BY Outgoing, Others
  <2>4. QED
    BY <1>1, <1>2, <1>6, <2>1, <2>2, <2>3, SyndromeStays
<1>8. /\ OnlySyndrome(s)
      /\ announcements'[s] = announcements[s] /\ announced'[s] = announced[s]
      /\ \A x \in Senders : link'[s][x] = link[s][x]
      /\ \A p \in Ports : link'[data_at[s][p]][s] = link[data_at[s][p]][s]
  BY <1>7, Outgoing, Others, OnlyCounts
<1>9. /\ rt'[s].lifecycle = "connected" /\ connected(rt'[s])
      /\ rt'[s].phase = "collecting" /\ rt'[s].mailbox = << >>
      /\ data(s)' = d /\ Typed(s)'
  BY <1>7, Became, Others
<1>10. QED
  <2>1. SameCount(s)
    <3>1. Cells \subseteq Senders /\ "host" \in Senders
      BY DEF Senders
    <3>2. QED
      BY <1>1, <1>5, <1>8, <1>9, <3>1 DEF SameCount, SameRound
  <2>2. complete(s)' = 0 /\ ~holding(s)' /\ ~holding(s)
    <3>1. {} # Ports
      BY Numbers
    <3>2. rt[s].mailbox # <<asked_for(s)>>
      <4>1. rt[s].mailbox[1].message.tag = "noise_cutoff"
        BY <1>1 DEF noise_cutoff
      <4>2. <<asked_for(s)>>[1].message.tag = "phenom_request"
        BY DEF asked_for, phenom_request
      <4>3. QED
        BY <4>1, <4>2
    <3>3. rt'[s].mailbox # <<asked_for(s)>>'
      BY <1>9
    <3>4. QED
      BY <1>1, <1>5, <1>9, <3>1, <3>2, <3>3 DEF complete, one_if, holding
  <2>3. Stage(s)'
    <3>1. first_quiet' = first_quiet
      BY <1>8 DEF OnlySyndrome
    <3>2. /\ one_if(complete(s) > first_quiet)' = 0
          /\ one_if(complete(s) <= first_quiet)' = 1
      BY <1>2, <2>2, <3>1 DEF one_if
    <3>3. Running(s)'
      BY <1>1, <1>5, <1>9, <3>1, <3>2 DEF Running
    <3>4. QED
      BY <3>3 DEF Stage
  <2>4. /\ link'[s]["phi"] = link[s]["phi"] /\ requested' = requested
        /\ certified' = certified /\ connected(rt[s])
    BY <1>1, <1>8, Others DEF Rest
  <2>5. (data(s) \in SyndromeData)' /\ Typed(s)'
    BY <1>5, <1>9
  <2>6. Len(link'[s]["phi"]) + one_if(holding(s)')
          = Len(link[s]["phi"]) + one_if(holding(s))
    BY <2>2, <2>4 DEF one_if
  <2>7. QED
    BY <2>1, <2>3, <2>4, <2>5, <2>6, SyndromeCounts

(* A message joins the end of the mailbox.                                 *)
LEMMA Enqueued ==
  ASSUME NEW q, record(q), NEW m
  PROVE  /\ record(enqueue(q, m))
         /\ enqueue(q, m).phase = q.phase /\ enqueue(q, m).data = q.data
         /\ enqueue(q, m).mailbox = Append(q.mailbox, fresh(m))
BY SMTT(60) DEF record, enqueue, fresh

(* A request that comes while the round is under way waits for its end.    *)
LEMMA SyndromePostponesRequest ==
  ASSUME IInv, NEW s \in Syndromes, Running(s), rt[s].phase = "collecting",
         link[s]["phi"] # << >>, NEW r, r = enqueue(rt[s], Head(link[s]["phi"])),
         NEW noise, turn_syndrome(s, r, Len(r.mailbox), received(s, "phi"), noise),
         UNCHANGED Rest
  PROVE  IInv'
<1> DEFINE req == phenom_request(data(s).step)
<1>1. /\ data(s) \in SyndromeData /\ first_quiet \in Nat /\ record(rt[s])
      /\ AboutSyndrome(s) /\ Globals /\ complete(s) \in Nat
      /\ data(s).step \in Nat
  BY SyndromeFacts DEF Running
<1>2. link[s]["phi"] = <<req>> /\ ~holding(s)
  <2>1. Asking(s)
    BY <1>1 DEF AboutSyndrome
  <2>2. link[s]["phi"] = <<req>>
    BY <2>1 DEF Asking
  <2>3. Len(link[s]["phi"]) = 1
    BY <2>2, Short
  <2>4. data(s).step + 1 + one_if(holding(s)) <= data(s).step + 1
    BY <2>1, <2>3 DEF Asking
  <2>5. one_if(holding(s)) # 1
    BY <1>1, <2>4
  <2>6. QED
    BY <2>2, <2>5 DEF one_if
<1>3. /\ rt[s].mailbox = << >>
      /\ received(s, "phi")[s]["phi"] = << >>
      /\ \A x \in Cells \cup {"host"} : received(s, "phi")[s][x] = link[s][x]
  <2>1. rt[s].mailbox = << >>
    BY <1>2 DEF Running
  <2>2. formed(link)
    BY <1>1 DEF Globals, formed
  <2>3. received(s, "phi")[s]["phi"] = Tail(link[s]["phi"])
    BY <2>2, Received, Others
  <2>4. Tail(<<req>>) = << >>
    BY Short
  <2>5. \A x \in Cells \cup {"host"} : x # "phi" /\ x \in Senders
    BY Others DEF Senders
  <2>6. \A x \in Cells \cup {"host"} : received(s, "phi")[s][x] = link[s][x]
    BY <2>2, <2>5, Received, Others
  <2>7. QED
    BY <1>2, <2>1, <2>3, <2>4, <2>6
<1> HIDE DEF req
<1>4. /\ record(r) /\ r.phase = "collecting" /\ r.data = data(s)
      /\ r.mailbox = <<fresh(req)>> /\ Len(r.mailbox) = 1
      /\ r.mailbox[1].message = req
  <2>1. Head(link[s]["phi"]) = req
    BY <1>2, Short
  <2>2. record(r) /\ r.phase = "collecting" /\ r.data = data(s)
        /\ r.mailbox = Append(<< >>, fresh(req))
    BY <1>1, <1>3, <2>1, Enqueued DEF data
  <2>3. r.mailbox = <<fresh(req)>>
    BY <2>2, Short
  <2>4. Len(r.mailbox) = 1 /\ r.mailbox[1] = fresh(req)
    <3>1. Len(<<fresh(req)>>) = 1 /\ <<fresh(req)>>[1] = fresh(req)
      BY Short
    <3>2. QED
      BY ONLY <2>3, <3>1
  <2>5. QED
    BY <2>2, <2>3, <2>4 DEF fresh
<1>5. /\ Becomes(s, "collecting", data(s), <<[message |-> req, postponed |-> TRUE]>>)
      /\ link' = received(s, "phi")
      /\ UNCHANGED <<announcements, announced, errors, replies>>
  <2> DEFINE concl == SC!conclude("collecting", data(s), "postpone")
  <2>1. concl.phase = "collecting" /\ concl.data = data(s)
        /\ concl.directive = "postpone"
    BY DEF SC!conclude
  <2>2. SC!handle_cast(req, "collecting", data(s), noise) = concl
    BY SMTT(60), SyndromePostpones DEF req
  <2> HIDE DEF concl
  <2>3. finish_syndrome(s, r, 1, received(s, "phi"), concl)
    BY <1>4, <2>2 DEF turn_syndrome
  <2>4. outgoing(received(s, "phi"), s)
    BY Outgoing, Others
  <2>5. QED
    BY <1>4, <2>1, <2>3, <2>4, SyndromeKeeps
<1>6. /\ OnlySyndrome(s)
      /\ announcements'[s] = announcements[s] /\ announced'[s] = announced[s]
      /\ \A x \in Senders : link'[s][x] = received(s, "phi")[s][x]
      /\ \A p \in Ports : link'[data_at[s][p]][s] = link[data_at[s][p]][s]
  BY <1>5, Outgoing, Others, OnlyCounts
<1>7. /\ rt'[s].lifecycle = "connected" /\ connected(rt'[s])
      /\ rt'[s].phase = "collecting"
      /\ rt'[s].mailbox = <<[message |-> req, postponed |-> TRUE]>>
      /\ data(s)' = data(s) /\ Typed(s)'
  <2> DEFINE d == data(s)
             b == <<[message |-> req, postponed |-> TRUE]>>
  <2>1. Becomes(s, "collecting", d, b) /\ s \in Cells
    BY <1>5, Others
  <2> HIDE DEF d, b
  <2>2. /\ rt'[s].lifecycle = "connected" /\ connected(rt'[s])
        /\ rt'[s].phase = "collecting" /\ rt'[s].mailbox = b
        /\ data(s)' = d /\ Typed(s)'
    BY <2>1, Became
  <2>3. QED
    BY <2>2 DEF d, b
<1>8. QED
  <2>1. SameCount(s)
    <3>1. Cells \subseteq Senders /\ "host" \in Senders
      BY DEF Senders
    <3>2. QED
      BY <1>3, <1>6, <1>7, <3>1 DEF SameCount, SameRound
  <2>2. holding(s)'
    BY <1>7 DEF holding, asked_for, req
  <2>3. Stage(s)'
    <3>1. first_quiet' = first_quiet
      BY <1>6 DEF OnlySyndrome
    <3>2. complete(s)' = complete(s)
      BY <1>7 DEF complete
    <3>3. Running(s)'
      BY <1>7, <2>2, <3>1, <3>2 DEF Running
    <3>4. QED
      BY <3>3 DEF Stage
  <2>4. /\ link'[s]["phi"] = << >> /\ requested' = requested
        /\ certified' = certified /\ connected(rt[s])
    BY <1>3, <1>6, Others DEF Rest, Running
  <2>5. (data(s) \in SyndromeData)' /\ Typed(s)'
    BY <1>1, <1>7
  <2>6. Len(link'[s]["phi"]) + one_if(holding(s)')
          = Len(link[s]["phi"]) + one_if(holding(s))
    <3>1. Len(link'[s]["phi"]) = 0 /\ Len(link[s]["phi"]) = 1
      BY <1>2, <2>4, Short
    <3>2. one_if(holding(s)') = 1 /\ one_if(holding(s)) = 0
      BY <1>2, <2>2 DEF one_if
    <3>3. QED
      BY <3>1, <3>2
  <2>7. QED
    BY <2>1, <2>3, <2>4, <2>5, <2>6, SyndromeCounts

(* A report is about the round that is under way and a port not heard yet. *)
awaited(s, p) == report(data_at[s][p], data(s).step, p)

report_due(s, p) ==
  LET d == data_at[s][p]
  IN  /\ rt[s].phase = "collecting" /\ p \in Ports \ data(s).seen_sources
      /\ data(s).seen_sources # Ports
      /\ link[s][d] = <<awaited(s, p)>>
      /\ complete(d) = data(s).step + 1 /\ link[d][s] = << >>
      /\ heard(d, opposite[p]) = data(s).step + 1
      /\ queried(s) = data(s).step + 1
      /\ complete(s) = data(s).step

(* The report that arrives is the one that is due.                         *)
LEMMA ReportArrives ==
  ASSUME IInv, NEW s \in Syndromes, Running(s), NEW p \in Ports,
         link[s][data_at[s][p]] # << >>
  PROVE  report_due(s, p)
<1> DEFINE d == data_at[s][p]
<1> DEFINE n == data(s).step
           o == opposite[p]
<1>1. /\ AboutSyndrome(s) /\ n \in Nat
      /\ d \in Datas /\ o \in Ports
  BY SyndromeFacts, Edges
<1>2. complete(d) \in Nat /\ heard(d, o) \in Nat
  BY <1>1, DataFacts DEF heard, one_if
<1>3. rt[s].phase \in {"collecting", "announcing"} /\ queried(s) = n + 1
  BY <1>1 DEF AboutSyndrome, SyndromePhases, Running, queried
<1>4. /\ heard(d, o) <= n + 1
      /\ heard(s, p) < complete(d)
      /\ link[s][d] = <<report(d, heard(s, p), p)>>
      /\ link[d][s] = IF heard(d, o) < n + 1
                      THEN <<SC!phenom_query(heard(d, o), o)>> ELSE << >>
  BY <1>1, <1>3 DEF AboutSyndrome, Edge
<1>5. complete(d) <= heard(d, o)
  BY <1>1, DataFacts DEF complete, heard, one_if
<1>6. heard(s, p) = n + one_if(p \in data(s).seen_sources)
  BY DEF heard
<1>7. p \notin data(s).seen_sources
  <2>1. ASSUME p \in data(s).seen_sources PROVE FALSE
    <3>1. heard(s, p) = n + 1
      BY <1>6, <2>1 DEF one_if
    <3> HIDE DEF n, o
    <3>2. QED
      BY <1>1, <1>2, <1>4, <1>5, <3>1
  <2>2. QED
    BY <2>1
<1>8. heard(s, p) = n
  BY <1>1, <1>6, <1>7 DEF one_if
<1>9. complete(d) = n + 1 /\ heard(d, o) = n + 1
  <2> HIDE DEF n, o
  <2>1. QED
    BY <1>1, <1>2, <1>4, <1>5, <1>8
<1>10. rt[s].phase = "collecting" /\ data(s).seen_sources # Ports
  BY <1>1, <1>3, <1>7 DEF AboutSyndrome, SyndromePhases
<1>11. complete(s) = n
  BY <1>1, <1>10 DEF complete, one_if
<1>12. link[d][s] = << >>
  BY <1>1, <1>4, <1>9
<1>13. QED
  BY <1>3, <1>4, <1>7, <1>8, <1>9, <1>10, <1>11, <1>12 DEF report_due, awaited

(* The mailbox when a message has joined it, and has left it again.        *)
LEMMA LastOf ==
  ASSUME NEW b, NEW m, b = << >> \/ \E e : b = <<e>>
  PROVE  LET q == Append(b, fresh(m))
             k == Len(q)
         IN  q[k] = fresh(m) /\ RemoveAt(q, k) = b
<1>1. CASE b = << >>
  <2>1. Append(b, fresh(m)) = <<fresh(m)>>
    BY <1>1, Short
  <2>2. Len(<<fresh(m)>>) = 1 /\ <<fresh(m)>>[1] = fresh(m)
    BY Short
  <2>3. RemoveAt(<<fresh(m)>>, 1) = << >>
    BY ShortRemoval
  <2>4. QED
    BY <1>1, <2>1, <2>2, <2>3
<1>2. CASE \E e : b = <<e>>
  <2>1. PICK e : b = <<e>>
    BY <1>2
  <2>2. Append(b, fresh(m)) = <<e, fresh(m)>>
    BY <2>1, Short
  <2>3. Len(<<e, fresh(m)>>) = 2 /\ <<e, fresh(m)>>[2] = fresh(m)
    BY Short
  <2>4. RemoveAt(<<e, fresh(m)>>, 2) = <<e>>
    BY ShortRemoval
  <2>5. QED
    BY <2>1, <2>2, <2>3, <2>4
<1>3. QED
  BY <1>1, <1>2

(* A running cell keeps one message at most: a request.                    *)
LEMMA RunningMailbox ==
  ASSUME NEW c, Running(c)
  PROVE  rt[c].mailbox = << >> \/ \E e : rt[c].mailbox = <<e>>
BY DEF Running, holding

(* Errors are bits.                                                        *)
LEMMA ErrorBit ==
  ASSUME errors \in [Datas -> Seq(Bit)], NEW d \in Datas, NEW n \in Nat
  PROVE  /\ n <= Len(errors[d]) => parity_after(errors[d], n) \in Bit
         /\ n + 1 <= Len(errors[d]) => error(d, n) \in Bit
<1>1. ASSUME NEW k \in Nat, k <= Len(errors[d])
      PROVE  parity_after(errors[d], k) \in Bit
  <2>1. errors[d] \in Seq(Bit)
    OBVIOUS
  <2>2. k = 0 \/ k \in 1 .. Len(errors[d])
    BY <1>1, <2>1
  <2>3. QED
    BY <2>1, <2>2 DEF parity_after, Bit
<1>2. ASSUME n + 1 <= Len(errors[d]) PROVE error(d, n) \in Bit
  <2>1. Len(errors[d]) \in Nat
    OBVIOUS
  <2>2. parity_after(errors[d], n) \in Bit /\ parity_after(errors[d], n + 1) \in Bit
    BY <1>1, <1>2, <2>1
  <2>3. QED
    BY <2>2, Xor DEF error
<1>3. QED
  BY <1>1, <1>2

(* The parities of a round of which one more report has been counted.      *)
reports(s, S) == {p \in S : error(data_at[s][p], data(s).step) = 1}

counts_one(s, p, c) ==
  LET r == data(s)
  IN  /\ c \in SyndromeData
      /\ c.seen_sources = r.seen_sources \cup {p}
      /\ c.data_parity = odd(reports(s, r.seen_sources \cup {p}))
      /\ c.data_quiet = quiet(r.step)
      /\ c.step = r.step
      /\ c.previous_measurement = r.previous_measurement
      /\ c.announcement = r.announcement
      /\ c.announcement_quiet = r.announcement_quiet
      /\ c.noise_disabled = r.noise_disabled
      /\ c.cutoff_armed = r.cutoff_armed
      /\ c.cutoff_step = r.cutoff_step

(* Counting a report adds its error to the parity of the round.            *)
LEMMA CountsOne ==
  ASSUME IInv, NEW s \in Syndromes, rt[s].phase = "collecting",
         NEW p \in Ports \ data(s).seen_sources,
         data(s).step + 1 <= Len(errors[data_at[s][p]])
  PROVE  counts_one(s, p, collected(data(s), awaited(s, p)))
<1> DEFINE r == data(s)
           m == awaited(s, p)
           d == collected(r, m)
           e == data_at[s][p]
           S == r.seen_sources
<1>1. /\ r \in SyndromeData /\ AboutSyndrome(s) /\ S \subseteq Ports
      /\ r.step \in Nat
  BY SyndromeFacts
<1>2. m.source = p /\ m.present = error(e, r.step) /\ m.quiet = quiet(r.step)
  BY DEF awaited, report
<1>3. m.present \in Bit
  BY <1>1, <1>2, Edges, ErrorBit, SyndromeFacts DEF Globals
<1>4. m.quiet \in Bit
  BY <1>2 DEF quiet, one_if, Bit
<1>5. r.data_parity \in Bit /\ r.data_quiet \in Bit
  BY <1>1 DEF SyndromeData
<1>6. SC!xor(r.data_parity, m.present) \in Bit /\ r.data_quiet * m.quiet \in Bit
  <2>1. SC!xor(r.data_parity, m.present) \in Bit
    BY <1>3, <1>5, Xor
  <2>2. r.data_quiet * m.quiet \in Bit
    BY <1>4, <1>5 DEF Bit
  <2>3. QED
    BY <2>1, <2>2
<1>7. /\ d \in SyndromeData
      /\ d.seen_sources = S \cup {p}
      /\ d.data_parity = SC!xor(r.data_parity, m.present)
      /\ d.data_quiet = r.data_quiet * m.quiet
      /\ d.step = r.step
      /\ d.previous_measurement = r.previous_measurement
      /\ d.announcement = r.announcement
      /\ d.announcement_quiet = r.announcement_quiet
      /\ d.noise_disabled = r.noise_disabled
      /\ d.cutoff_armed = r.cutoff_armed
      /\ d.cutoff_step = r.cutoff_step
  <2> HIDE DEF r
  <2>1. S \cup {p} \in SUBSET Ports
    BY <1>1
  <2>2. QED
    BY <1>1, <1>2, <1>6, <2>1 DEF collected, SyndromeData
<1>8. d.data_parity = odd(reports(s, S \cup {p}))
  <2>1. r.data_parity = odd(reports(s, S))
    BY <1>1 DEF AboutSyndrome, Announces, reported, reports
  <2>2. IsFiniteSet(reports(s, S)) /\ p \notin reports(s, S)
    <3>1. reports(s, S) \subseteq Ports
      BY <1>1 DEF reports
    <3>2. QED
      BY <3>1, FS_Subset, NoiseMeshAssumption DEF reports
  <2>3. CASE m.present = 1
    <3>1. reports(s, S \cup {p}) = reports(s, S) \cup {p}
      BY <1>2, <2>3 DEF reports
    <3>2. SC!xor(r.data_parity, 1) = xor(odd(reports(s, S)), 1)
      BY <1>5, <2>1, Xor DEF Bit
    <3>3. QED
      BY <1>7, <2>2, <2>3, <3>1, <3>2, OddOneMore
  <2>4. CASE m.present = 0
    <3>0. error(data_at[s][p], data(s).step) # 1
      BY <1>2, <2>4
    <3>1. reports(s, S \cup {p}) = reports(s, S)
      BY <3>0 DEF reports
    <3>2. SC!xor(r.data_parity, 0) = r.data_parity
      BY <1>5, Xor DEF Bit
    <3>3. QED
      BY <1>7, <2>1, <2>4, <3>1, <3>2
  <2>5. QED
    BY <1>3, <2>3, <2>4 DEF Bit
<1>9. d.data_quiet = quiet(r.step)
  <2>1. r.data_quiet = IF S = {} THEN 1 ELSE quiet(r.step)
    BY <1>1 DEF AboutSyndrome, Announces
  <2>2. r.data_quiet * quiet(r.step) = quiet(r.step)
    BY <2>1 DEF quiet, one_if
  <2>3. QED
    BY <1>2, <1>7, <2>2
<1>10. QED
  BY <1>7, <1>8, <1>9 DEF counts_one

(* A turn on the report of port p, as the mailbox and the links then are.  *)
with_report(s, p) == enqueue(rt[s], Head(link[s][data_at[s][p]]))

on_report(s, p, r, L) ==
  LET d == data_at[s][p]
  IN  /\ record(r) /\ r.phase = "collecting" /\ r.data = data(s)
      /\ r.mailbox[Len(r.mailbox)].message = awaited(s, p)
      /\ RemoveAt(r.mailbox, Len(r.mailbox)) = rt[s].mailbox
      /\ L[s][d] = << >> /\ outgoing(L, s)
      /\ \A x \in Senders : x # d => L[s][x] = link[s][x]
      /\ data(s).step + 1 <= Len(errors[d])

(* The runtime in which a syndrome handles a report: behind the request    *)
(* that it may hold.                                                       *)
LEMMA TurnOnReport ==
  ASSUME IInv, NEW s \in Syndromes, Running(s), NEW p \in Ports,
         link[s][data_at[s][p]] # << >>
  PROVE  on_report(s, p, with_report(s, p), received(s, data_at[s][p]))
<1> DEFINE d == data_at[s][p]
           m == awaited(s, p)
           r == with_report(s, p)
           L == received(s, d)
<1>1. /\ rt[s].phase = "collecting" /\ link[s][d] = <<m>>
      /\ complete(d) = data(s).step + 1 /\ d \in Datas
      /\ s \in Cells /\ d \in Senders /\ d \in Cells
  <2>1. report_due(s, p)
    BY ReportArrives
  <2>2. QED
    BY <2>1, Edges DEF report_due
<1> HIDE DEF m
<1>2. Head(link[s][d]) = m /\ Tail(link[s][d]) = << >>
  BY <1>1, Short
<1>3. /\ record(r) /\ r.phase = "collecting" /\ r.data = data(s)
      /\ r.mailbox = Append(rt[s].mailbox, fresh(m))
  <2>1. record(rt[s])
    BY SyndromeFacts DEF Running
  <2>2. QED
    BY <1>1, <1>2, <2>1, Enqueued DEF data, with_report
<1>4. /\ r.mailbox[Len(r.mailbox)] = fresh(m)
      /\ RemoveAt(r.mailbox, Len(r.mailbox)) = rt[s].mailbox
  <2> DEFINE b == rt[s].mailbox
             q == Append(b, fresh(m))
  <2>1. b = << >> \/ \E e : b = <<e>>
    BY RunningMailbox
  <2> HIDE DEF b
  <2>2. q[Len(q)] = fresh(m) /\ RemoveAt(q, Len(q)) = b
    BY <2>1, LastOf
  <2> HIDE DEF q
  <2>3. r.mailbox = q
    BY <1>3 DEF q, b
  <2> HIDE DEF r
  <2>4. QED
    BY <2>2, <2>3 DEF b
<1>5. formed(link) /\ outgoing(L, s)
  BY <1>1, Outgoing
<1>6. L[s][d] = << >> /\ \A x \in Senders : x # d => L[s][x] = link[s][x]
  BY ZenonT(60), <1>1, <1>2, <1>5, Received
<1>7. data(s).step + 1 <= Len(errors[d])
  <2>1. Len(errors[d]) = data(s).step + 1 /\ data(s).step \in Nat
    BY <1>1, SyndromeFacts DEF IInv, Hosted
  <2>2. QED
    BY <2>1
<1>8. r.mailbox[Len(r.mailbox)].message = m
  BY <1>4 DEF fresh
<1> HIDE DEF r, L
<1>9. QED
  BY <1>3, <1>4, <1>5, <1>6, <1>7, <1>8 DEF on_report, m, r, L

(* A report, not the last of its round, keeps the invariant.               *)
LEMMA SyndromeCollectsReport ==
  ASSUME IInv, NEW s \in Syndromes, Running(s), NEW p \in Ports,
         link[s][data_at[s][p]] # << >>,
         data(s).seen_sources \cup {p} # Ports, NEW noise,
         LET r == with_report(s, p)
         IN  turn_syndrome(s, r, Len(r.mailbox), received(s, data_at[s][p]), noise),
         UNCHANGED Rest
  PROVE  IInv'
<1> DEFINE d == data_at[s][p]
           m == awaited(s, p)
           c == collected(data(s), m)
           S == data(s).seen_sources
           L == received(s, d)
           b == rt[s].mailbox
           r == with_report(s, p)
<1>1. /\ rt[s].phase = "collecting" /\ p \in Ports \ S /\ S # Ports
      /\ link[s][d] = <<m>> /\ complete(d) = data(s).step + 1
      /\ link[d][s] = << >> /\ heard(d, opposite[p]) = data(s).step + 1
      /\ queried(s) = data(s).step + 1 /\ complete(s) = data(s).step
  <2>1. report_due(s, p)
    BY ReportArrives
  <2>2. QED
    BY <2>1 DEF report_due
<1>2. /\ data(s) \in SyndromeData /\ first_quiet \in Nat
      /\ AboutSyndrome(s) /\ Globals /\ data(s).step \in Nat /\ connected(rt[s])
  BY SyndromeFacts DEF Running
<1>3. /\ record(r) /\ r.phase = "collecting" /\ r.data = data(s)
      /\ r.mailbox[Len(r.mailbox)].message = m
      /\ RemoveAt(r.mailbox, Len(r.mailbox)) = b
      /\ L[s][d] = << >> /\ outgoing(L, s)
      /\ \A x \in Senders : x # d => L[s][x] = link[s][x]
      /\ data(s).step + 1 <= Len(errors[d])
  <2>1. on_report(s, p, r, L)
    BY TurnOnReport
  <2> HIDE DEF r, L
  <2>2. QED
    BY <2>1 DEF on_report
<1>4. m.tag = "phenom_data" /\ m.step = data(s).step /\ m.source = p
  BY DEF awaited, report
<1>5. /\ c \in SyndromeData
      /\ c.seen_sources = S \cup {p}
      /\ c.data_parity = odd(reports(s, S \cup {p}))
      /\ c.data_quiet = quiet(data(s).step)
      /\ c.step = data(s).step
      /\ c.previous_measurement = data(s).previous_measurement
      /\ c.noise_disabled = data(s).noise_disabled
      /\ c.cutoff_armed = data(s).cutoff_armed
      /\ c.cutoff_step = data(s).cutoff_step
  <2>1. counts_one(s, p, c)
    BY <1>1, <1>3, CountsOne
  <2> HIDE DEF c
  <2>2. QED
    BY <2>1 DEF counts_one
<1>6. SC!handle_cast(m, "collecting", data(s), noise)
        = SC!conclude("collecting", c, "consume")
  BY <1>1, <1>2, <1>4, SyndromeCollects
<1> HIDE DEF m, c, L, b, r
<1>7. /\ Becomes(s, "collecting", c, b)
      /\ link' = L
      /\ UNCHANGED <<announcements, announced, errors, replies>>
  <2> DEFINE concl == SC!conclude("collecting", c, "consume")
  <2>1. concl.phase = "collecting" /\ concl.data = c /\ concl.directive = "consume"
    BY DEF SC!conclude
  <2> HIDE DEF concl
  <2>2. finish_syndrome(s, r, Len(r.mailbox), L, concl)
    BY <1>3, <1>6 DEF turn_syndrome, L, r, concl
  <2>3. QED
    BY <1>3, <2>1, <2>2, SyndromeStays
<1>8. /\ OnlySyndrome(s)
      /\ announcements'[s] = announcements[s] /\ announced'[s] = announced[s]
      /\ \A x \in Senders : link'[s][x] = L[s][x]
      /\ \A q \in Ports : link'[data_at[s][q]][s] = link[data_at[s][q]][s]
  BY <1>3, <1>7, OnlyCounts
<1>9. /\ rt'[s].lifecycle = "connected" /\ connected(rt'[s])
      /\ rt'[s].phase = "collecting" /\ rt'[s].mailbox = b
      /\ data(s)' = c /\ Typed(s)'
  BY <1>7, Became, Others
<1>10. /\ first_quiet' = first_quiet /\ errors' = errors
       /\ requested' = requested /\ certified' = certified
       /\ \A x \in Cells : connected(rt[x]) => connected(rt'[x])
  BY <1>8 DEF OnlySyndrome, Rest
<1>11. complete(s)' = complete(s) /\ complete(s)' = data(s).step
  BY <1>1, <1>2, <1>5, <1>9 DEF complete, one_if
<1>12. holding(s)' <=> holding(s)
  BY <1>1, <1>5, <1>9 DEF holding, asked_for, b
<1>13. SyndromePhases(s)'
  <2>1. SyndromePhases(s)
    BY <1>2 DEF AboutSyndrome
  <2>2. all_connected(Datas)'
    BY <1>2, <1>10, <2>1, Others DEF all_connected, SyndromePhases
  <2>3. link'[s]["host"] = << >>
    <3>1. "host" \in Senders /\ "host" # d
      BY Edges, Others
    <3>2. QED
      BY <1>2, <1>3, <1>8, <2>1, <3>1 DEF SyndromePhases
  <2>4. QED
    BY <1>5, <1>9, <2>2, <2>3 DEF SyndromePhases
<1>14. Stage(s)'
  <2>1. Running(s)'
    BY <1>1, <1>5, <1>9, <1>10, <1>11, <1>12 DEF Running, b
  <2>2. QED
    BY <2>1 DEF Stage
<1>15. Asking(s)'
  <2>1. all_connected(Cells) => all_connected(Cells)'
    BY <1>10 DEF all_connected
  <2>2. link'[s]["phi"] = link[s]["phi"]
    <3>1. "phi" \in Senders /\ "phi" # d
      BY Edges, Others
    <3>2. QED
      BY <1>3, <1>8, <3>1
  <2>3. Asking(s)
    BY <1>2 DEF AboutSyndrome
  <2>4. data(s)'.step = data(s).step /\ one_if(holding(s)') = one_if(holding(s))
    BY <1>5, <1>9, <1>12 DEF one_if
  <2>5. /\ result(s, data(s).step - 1)' = result(s, data(s).step - 1)
        /\ phenom_request(data(s).step)' = phenom_request(data(s).step)
    BY <1>8, <1>10, <2>4 DEF result, event, quiet
  <2>6. QED
    BY <1>8, <1>10, <2>1, <2>2, <2>3, <2>4, <2>5 DEF Asking
<1>16. Announces(s)'
  <2>1. Announces(s)
    BY <1>2 DEF AboutSyndrome
  <2>2. reported(s)' = reports(s, S \cup {p})
    BY <1>5, <1>9, <1>10 DEF reported, reports, error
  <2>3. flipped(s, complete(s))' = flipped(s, complete(s))
    BY <1>10, <1>11 DEF flipped
  <2>4. data(s)'.data_parity = odd(reported(s)')
    BY <1>5, <1>9, <2>2
  <2>5. quiet(data(s).step)' = quiet(data(s).step)
    BY <1>5, <1>9, <1>10 DEF quiet
  <2>6. QED
    BY <1>1, <1>5, <1>8, <1>9, <1>10, <1>11, <2>1, <2>3, <2>4, <2>5
       DEF Announces, event
<1>17. \A q \in Ports : Edge(s, q)'
  <2> TAKE q \in Ports
  <2> DEFINE e == data_at[s][q]
             o == opposite[q]
  <2>1. Edge(s, q) /\ e \in Senders /\ e \in Cells /\ e # s
    BY <1>2, Edges DEF AboutSyndrome
  <2>2. link'[e][s] = link[e][s] /\ queried(s)' = queried(s)
    BY <1>1, <1>5, <1>8, <1>9 DEF queried
  <2>3. rt'[e] = rt[e]
    BY <1>8, <2>1 DEF OnlySyndrome
  <2>4. heard(e, o)' = heard(e, o) /\ complete(e)' = complete(e)
    BY <2>3 DEF heard, complete, data
  <2>5. CASE q = p
    <3>1. e = d
      BY <2>5
    <3>2. heard(s, q)' = data(s).step + 1
      BY <1>5, <1>9, <2>5 DEF heard, one_if
    <3>3. link'[s][e] = << >>
      BY <1>3, <1>8, <2>1, <3>1
    <3>4. complete(e)' = data(s).step + 1 /\ heard(e, o)' = data(s).step + 1
          /\ queried(s)' = data(s).step + 1 /\ link'[e][s] = << >>
      BY <1>1, <2>2, <2>4, <2>5, <3>1
    <3>5. QED
      BY <1>2, <3>2, <3>3, <3>4 DEF Edge
  <2>6. CASE q # p
    <3>1. e # d
      BY <2>6, Edges
    <3>2. heard(s, q)' = heard(s, q)
      BY <1>5, <1>9, <2>6 DEF heard
    <3>3. link'[s][e] = link[s][e]
      BY <1>3, <1>8, <2>1, <3>1
    <3>4. report(e, heard(s, q), q)' = report(e, heard(s, q), q)
      BY <1>10, <3>2 DEF report, error, quiet
    <3>5. QED
      BY <2>1, <2>2, <2>4, <3>2, <3>3, <3>4 DEF Edge
  <2>7. QED
    BY <2>5, <2>6
<1>18. \A x \in Cells :
         (\A q \in Ports : data_at[s][q] # x) => link'[s][x] = << >>
  BY <1>2, <1>3, <1>8, Others DEF AboutSyndrome
<1>19. QED
  BY <1>5, <1>8, <1>9, <1>13, <1>14, <1>15, <1>16, <1>17, <1>18, SyndromeStep
     DEF AboutSyndrome

(* Cut off is a round from the first quiet one on.                         *)
LEMMA CutOff ==
  ASSUME NEW c, Running(c), first_quiet \in Nat, data(c).step \in Nat,
         complete(c) = data(c).step
  PROVE  /\ cut_off(data(c)) <=> data(c).step >= first_quiet
         /\ (data(c).cutoff_armed = 1 /\ data(c).step >= data(c).cutoff_step)
              <=> data(c).step = first_quiet
<1> DEFINE n == data(c).step
           f == first_quiet
           a == data(c).cutoff_armed
           k == data(c).cutoff_step
           w == data(c).noise_disabled
<1>1. /\ w = one_if(n > f) /\ a = one_if(n <= f)
      /\ n <= f => k = f
      /\ n \in Nat /\ f \in Nat
  BY DEF Running
<1>2. cut_off(data(c)) <=> w = 1 \/ (a = 1 /\ n >= k)
  BY DEF cut_off
<1> HIDE DEF n, f, a, k, w
<1>3. a = 1 /\ n >= k <=> n = f
  BY <1>1 DEF one_if
<1>4. w = 1 \/ (a = 1 /\ n >= k) <=> n >= f
  BY <1>1, <1>3 DEF one_if
<1>5. QED
  BY <1>2, <1>3, <1>4 DEF n, f, a, k, w

(* A history that grows by a round.                                        *)
grows(h, g, a) ==
  /\ g \in Seq(Bit) /\ Len(g) = Len(h) + 1 /\ Len(h) \in Nat
  /\ parity(h) \in Bit /\ parity(g) = xor(parity(h), a)
  /\ \A n \in Nat : n <= Len(h) => parity_after(g, n) = parity_after(h, n)
  /\ xor(parity_after(g, Len(h)), parity_after(g, Len(h) + 1)) = a

(* A history one round longer,                                             *)
LEMMA Grown ==
  ASSUME NEW h \in Seq(Bit), NEW a \in Bit, NEW g, g = Append(h, xor(parity(h), a))
  PROVE  grows(h, g, a)
<1> DEFINE k == Len(h)
           P == parity(h)
           b == xor(P, a)
<1>1. k \in Nat /\ P \in Bit
  <2>1. k = 0 \/ k \in 1 .. Len(h)
    OBVIOUS
  <2>2. QED
    BY <2>1 DEF parity, parity_after, Bit
<1>2. b \in Bit
  BY <1>1, Xor
<1> HIDE DEF b
<1>3. g \in Seq(Bit) /\ Len(g) = k + 1 /\ g[k + 1] = b
      /\ \A n \in 1 .. k : g[n] = h[n]
  BY <1>2 DEF b
<1>4. \A n \in Nat : n <= k => parity_after(g, n) = parity_after(h, n)
  <2> TAKE n \in Nat
  <2>1. CASE n = 0
    BY <2>1 DEF parity_after
  <2>2. CASE n # 0
    BY <1>1, <1>3, <2>2 DEF parity_after
  <2>3. QED
    BY <2>1, <2>2
<1>5. parity_after(g, k + 1) = b /\ parity(g) = b
  BY <1>1, <1>3 DEF parity_after, parity
<1>6. parity_after(g, k) = P
  BY <1>1, <1>4 DEF parity, P
<1>7. xor(P, b) = a
  BY <1>1, Xor DEF b
<1>8. QED
  BY <1>1, <1>3, <1>4, <1>5, <1>6, <1>7 DEF b, grows

(* whose new round has the bit and whose past is unchanged.                *)
LEMMA Grows ==
  ASSUME NEW h \in Seq(Bit), NEW a \in Bit, NEW g, g = Append(h, xor(parity(h), a))
  PROVE  /\ g \in Seq(Bit) /\ Len(g) = Len(h) + 1 /\ Len(h) \in Nat
         /\ parity(h) \in Bit /\ parity(g) = xor(parity(h), a)
         /\ \A n \in Nat : n <= Len(h) => parity_after(g, n) = parity_after(h, n)
         /\ xor(parity_after(g, Len(h)), parity_after(g, Len(h) + 1)) = a
<1>1. grows(h, g, a)
  BY Grown
<1>2. QED
  BY <1>1 DEF grows

(* The errors of a round are what distinguishes the parities after it from *)
(* those before it.                                                        *)
LEMMA FlippedNext ==
  ASSUME IInv, NEW s \in Syndromes,
         \A p \in Ports : data(s).step + 1 <= Len(errors[data_at[s][p]])
  PROVE  /\ odd(flipped(s, data(s).step + 1))
              = xor(odd(flipped(s, data(s).step)), odd(reports(s, Ports)))
         /\ odd(flipped(s, data(s).step)) \in Bit /\ odd(reports(s, Ports)) \in Bit
<1> DEFINE n == data(s).step
           F == flipped(s, n)
           G == flipped(s, n + 1)
           R == reports(s, Ports)
<1>1. n \in Nat /\ errors \in [Datas -> Seq(Bit)]
  BY SyndromeFacts DEF Globals
<1>2. IsFiniteSet(F) /\ IsFiniteSet(R)
  <2>1. F \subseteq Ports /\ R \subseteq Ports
    BY DEF flipped, reports
  <2>2. QED
    BY <2>1, FS_Subset, NoiseMeshAssumption
<1>3. G = (F \ R) \cup (R \ F)
  <2>1. ASSUME NEW p \in Ports
        PROVE  p \in G <=> ~(p \in F <=> p \in R)
    <3> DEFINE d == data_at[s][p]
               a == parity_after(errors[d], n)
               b == parity_after(errors[d], n + 1)
    <3>1. d \in Datas /\ Len(errors[d]) \in Nat /\ n + 1 <= Len(errors[d])
      BY <1>1, Edges
    <3>2. a \in Bit /\ b \in Bit
      BY <1>1, <3>1, ErrorBit
    <3>3. /\ p \in F <=> a = 1
          /\ p \in G <=> b = 1
          /\ p \in R <=> xor(a, b) = 1
      BY DEF flipped, reports, error
    <3> HIDE DEF a, b
    <3>4. b = 1 <=> ~(a = 1 <=> xor(a, b) = 1)
      BY <3>2 DEF Bit, xor
    <3>5. QED
      BY <3>3, <3>4
  <2>2. F \subseteq Ports /\ R \subseteq Ports /\ G \subseteq Ports
    BY DEF flipped, reports
  <2> HIDE DEF F, G, R
  <2>3. QED
    BY <2>1, <2>2
<1> HIDE DEF F, G, R
<1>4. odd(G) = xor(odd(F), odd(R)) /\ odd(F) \in Bit /\ odd(R) \in Bit
  BY <1>2, <1>3, OddDifference, OddBit
<1>5. QED
  BY <1>4 DEF F, G, R

(* A syndrome that announces casts nothing yet.                            *)
LEMMA SyndromeAnnounces ==
  ASSUME IInv, NEW s \in Syndromes, NEW r, record(r), NEW k, NEW L,
         outgoing(L, s), NEW d, r.phase = "collecting",
         finish_syndrome(s, r, k, L, SC!conclude("announcing", d, "consume"))
  PROVE  /\ Becomes(s, "announcing", d, released(RemoveAt(r.mailbox, k)))
         /\ link' = L /\ announcements' = announcements
         /\ announced' = [announced EXCEPT ![s] =
              Append(@, xor(parity(@), d.announcement))]
         /\ UNCHANGED <<errors, replies>>
<1> DEFINE concl == SC!conclude("announcing", d, "consume")
           e == SC!handle_enter("announcing", d)
<1>1. /\ concl.phase = "announcing" /\ concl.directive = "consume" /\ concl.data = d
      /\ "announcing" # "repeat_phase" /\ "announcing" # r.phase
  BY DEF SC!conclude
<1>2. e.data = d /\ e.casts = SC!no_casts
  BY DEF SC!handle_enter
<1> HIDE DEF concl, e
<1>3. finish_syndrome(s, r, k, L, concl)
  BY DEF concl
<1>4. /\ Becomes(s, "announcing", e.data, released(RemoveAt(r.mailbox, k)))
      /\ carries(L, link', s, e.casts)
      /\ announcements' = [announcements EXCEPT ![s] = @ \o e.casts["phi"]]
      /\ announced' = [announced EXCEPT ![s] =
           Append(@, xor(parity(@), d.announcement))]
      /\ UNCHANGED <<errors, replies>>
  <2> DEFINE phase == "announcing"
  <2>1. phase = concl.phase /\ d = concl.data /\ phase = "announcing"
    BY <1>1
  <2>2. concl.phase # "repeat_phase" /\ concl.phase # r.phase
        /\ concl.directive = "consume"
    BY <1>1
  <2> HIDE DEF phase
  <2>3. syndrome_enters(s, r, k, L, phase, d)
    BY <1>3, <2>1, <2>2, SyndromeMoves
  <2>4. QED
    BY <2>1, <2>3 DEF e, syndrome_enters
<1>5. link' = L
  <2>1. \A p \in Ports : SC!no_casts[p] = << >>
    BY DEF SC!no_casts
  <2>2. \A p \in Ports : single(L[neighbor_at(s)[p]][s])
    BY SingleLinks, Others
  <2>3. ASSUME NEW l, single(l) PROVE l \o << >> = l
    BY <2>3, Short DEF single
  <2>4. carries(L, link', s, SC!no_casts)
    BY <1>2, <1>4
  <2>5. \A p \in Ports :
          link'[neighbor_at(s)[p]][s] = L[neighbor_at(s)[p]][s]
    BY ZenonT(60), <2>1, <2>2, <2>3, <2>4 DEF carries
  <2>6. \A u \in Cells, v \in Senders : link'[u][v] = L[u][v]
    BY <2>4, <2>5 DEF carries
  <2>7. formed(L) /\ formed(link')
    BY <2>4 DEF carries, outgoing
  <2>8. QED
    BY <2>6, <2>7, SameLinks
<1>6. announcements' = announcements
  <2>1. SC!no_casts["phi"] = << >>
    BY DEF SC!no_casts
  <2>2. QED
    BY <1>2, <1>4, <2>1, SingleResults, Functions
<1>7. QED
  BY <1>2, <1>4, <1>5, <1>6

(* The last report of a round: the event is announced.                     *)
LEMMA SyndromeJoinsReport ==
  ASSUME IInv, NEW s \in Syndromes, Running(s), NEW p \in Ports,
         link[s][data_at[s][p]] # << >>,
         data(s).seen_sources \cup {p} = Ports, NEW noise \in Bit,
         LET r == with_report(s, p)
         IN  turn_syndrome(s, r, Len(r.mailbox), received(s, data_at[s][p]), noise),
         UNCHANGED Rest
  PROVE  IInv'
<1> DEFINE d == data_at[s][p]
           m == awaited(s, p)
           c == collected(data(s), m)
           j == SC!joined(c, noise)
           flip == IF cut_off(c) THEN 0 ELSE noise
           n == data(s).step
           S == data(s).seen_sources
           L == received(s, d)
           b == rt[s].mailbox
           r == with_report(s, p)
           A == announced[s]
<1>1. /\ rt[s].phase = "collecting" /\ p \in Ports \ S /\ S # Ports
      /\ link[s][d] = <<m>> /\ complete(d) = n + 1
      /\ link[d][s] = << >> /\ heard(d, opposite[p]) = n + 1
      /\ queried(s) = n + 1 /\ complete(s) = n
  <2>1. report_due(s, p)
    BY ReportArrives
  <2>2. QED
    BY <2>1 DEF report_due
<1>2. /\ data(s) \in SyndromeData /\ first_quiet \in Nat
      /\ AboutSyndrome(s) /\ Globals /\ n \in Nat /\ connected(rt[s])
      /\ A \in Seq(Bit) /\ data(s).previous_measurement \in Bit
  BY SyndromeFacts DEF Running, Globals, SyndromeData
<1>3. /\ record(r) /\ r.phase = "collecting" /\ r.data = data(s)
      /\ r.mailbox[Len(r.mailbox)].message = m
      /\ RemoveAt(r.mailbox, Len(r.mailbox)) = b
      /\ L[s][d] = << >> /\ outgoing(L, s)
      /\ \A x \in Senders : x # d => L[s][x] = link[s][x]
      /\ n + 1 <= Len(errors[d])
  <2>1. on_report(s, p, r, L)
    BY TurnOnReport
  <2> HIDE DEF r, L
  <2>2. QED
    BY <2>1 DEF on_report
<1>4. m.tag = "phenom_data" /\ m.step = n /\ m.source = p
  BY DEF awaited, report
<1>5. /\ c \in SyndromeData
      /\ c.seen_sources = Ports
      /\ c.data_parity = odd(reports(s, Ports))
      /\ c.data_quiet = quiet(n)
      /\ c.step = n
      /\ c.previous_measurement = data(s).previous_measurement
      /\ c.noise_disabled = data(s).noise_disabled
      /\ c.cutoff_armed = data(s).cutoff_armed
      /\ c.cutoff_step = data(s).cutoff_step
  <2>1. counts_one(s, p, c)
    BY <1>1, <1>3, CountsOne
  <2> HIDE DEF c
  <2>2. QED
    BY <2>1 DEF counts_one
<1>6. SC!handle_cast(m, "collecting", data(s), noise)
        = SC!conclude("announcing", j, "consume")
  BY <1>1, <1>2, <1>4, SyndromeJoins
<1>7. cut_off(c) <=> n >= first_quiet
  BY <1>1, <1>2, <1>5, CutOff DEF cut_off
<1>8. /\ j \in SyndromeData /\ j.step = n /\ j.seen_sources = Ports
      /\ j.previous_measurement = flip
      /\ j.announcement = xor(xor(c.data_parity, flip), data(s).previous_measurement)
      /\ j.announcement_quiet = c.data_quiet * one_if(n >= first_quiet)
      /\ j.noise_disabled = one_if(n >= first_quiet)
      /\ j.cutoff_armed = IF n = first_quiet THEN 0 ELSE data(s).cutoff_armed
      /\ j.cutoff_step = data(s).cutoff_step
  <2>1. joined_as(c, j, flip)
    BY <1>5, SyndromeJoined
  <2>2. c.cutoff_armed = 1 /\ c.step >= c.cutoff_step <=> n = first_quiet
    BY <1>1, <1>2, <1>5, CutOff
  <2> HIDE DEF c, j, flip
  <2>3. QED
    BY <1>5, <1>7, <2>1, <2>2 DEF joined_as, one_if
<1>9. flip \in Bit /\ (n >= first_quiet => flip = 0)
  BY <1>7 DEF Bit
<1> HIDE DEF m, c, L, b, r, j, flip, A
<1>10. /\ Becomes(s, "announcing", j, released(b))
       /\ link' = L /\ announcements' = announcements
       /\ announced' = [announced EXCEPT ![s] =
            Append(@, xor(parity(@), j.announcement))]
       /\ UNCHANGED <<errors, replies>>
  <2>1. finish_syndrome(s, r, Len(r.mailbox), L,
                        SC!conclude("announcing", j, "consume"))
    BY <1>3, <1>6 DEF turn_syndrome, L, r
  <2>2. QED
    BY SMTT(60), <1>3, <2>1, SyndromeAnnounces
<1> DEFINE B == Append(A, xor(parity(A), j.announcement))
<1>11. j.announcement \in Bit
  BY <1>8 DEF SyndromeData
<1>12. /\ B \in Seq(Bit) /\ Len(B) = Len(A) + 1 /\ Len(A) \in Nat
       /\ parity(A) \in Bit /\ parity(B) = xor(parity(A), j.announcement)
       /\ \A k \in Nat : k <= Len(A) => parity_after(B, k) = parity_after(A, k)
       /\ xor(parity_after(B, Len(A)), parity_after(B, Len(A) + 1)) = j.announcement
  BY <1>2, <1>11, Grows
<1> HIDE DEF B
<1>13. /\ OnlySyndrome(s)
       /\ announcements'[s] = announcements[s] /\ announced'[s] = B
       /\ \A x \in Senders : link'[s][x] = L[s][x]
       /\ \A q \in Ports : link'[data_at[s][q]][s] = link[data_at[s][q]][s]
  <2>1. announced' = [announced EXCEPT ![s] = B]
    BY <1>10 DEF A, B
  <2>2. spreads(L, s)
    BY <1>3, <1>10, Spreads DEF outgoing
  <2>3. announcements' = [announcements EXCEPT ![s] = announcements[s]]
    BY <1>10, Functions
  <2>4. UNCHANGED <<errors, replies, requested, first_quiet, certified,
                    updates, asked>>
    BY <1>10 DEF Rest
  <2>5. /\ OnlySyndrome(s)
        /\ announcements'[s] = announcements[s] /\ announced'[s] = B
        /\ \A x \in Senders : link'[s][x] = L[s][x]
    BY <1>3, <1>10, <1>12, <2>1, <2>2, <2>3, <2>4, OnlyThisSyndrome
  <2>6. \A q \in Ports : link'[data_at[s][q]][s] = link[data_at[s][q]][s]
    <3>1. \A q \in Ports : data_at[s][q] \in Cells /\ data_at[s][q] # s
      BY Edges
    <3>2. s \in Senders
      BY Others
    <3>3. QED
      BY <1>3, <1>10, <3>1, <3>2 DEF outgoing
  <2>7. QED
    BY <2>5, <2>6
<1>14. /\ rt'[s].lifecycle = "connected" /\ connected(rt'[s])
       /\ rt'[s].phase = "announcing" /\ rt'[s].mailbox = released(b)
       /\ data(s)' = j /\ Typed(s)'
  BY <1>10, Became, Others
<1>15. /\ first_quiet' = first_quiet /\ errors' = errors
       /\ requested' = requested /\ certified' = certified
       /\ \A x \in Cells : connected(rt[x]) => connected(rt'[x])
  BY <1>13 DEF OnlySyndrome, Rest
<1>16. complete(s)' = n + 1
  BY <1>2, <1>8, <1>14 DEF complete, one_if
<1>17. /\ holding(s)' <=> holding(s)
       /\ rt'[s].mailbox = << >> \/ holding(s)'
  <2> DEFINE q == phenom_request(n)
  <2>1. asked_for(s)' = fresh(q)
    BY <1>8, <1>14 DEF asked_for, fresh
  <2>2. asked_for(s) = [message |-> q, postponed |-> TRUE]
    BY <1>1 DEF asked_for
  <2>3. b = << >> \/ b = <<[message |-> q, postponed |-> TRUE]>>
    BY <2>2 DEF b, Running, holding
  <2>4. holding(s) <=> b = <<[message |-> q, postponed |-> TRUE]>>
    BY <2>2 DEF b, holding
  <2>5. holding(s)' <=> released(b) = <<fresh(q)>>
    BY <1>14, <2>1 DEF holding
  <2> HIDE DEF q
  <2>6. CASE b = << >>
    <3>1. released(b) = << >>
      BY <2>6, ShortRelease
    <3>2. << >> # <<fresh(q)>> /\ << >> # <<[message |-> q, postponed |-> TRUE]>>
      OBVIOUS
    <3>3. QED
      BY <1>14, <2>4, <2>5, <2>6, <3>1, <3>2
  <2>7. CASE b = <<[message |-> q, postponed |-> TRUE]>>
    <3>1. released(b) = <<fresh(q)>>
      BY <2>7, ShortRelease
    <3>2. QED
      BY <1>14, <2>4, <2>5, <2>7, <3>1
  <2>8. QED
    BY <2>3, <2>6, <2>7
<1>18. SyndromePhases(s)'
  <2>1. SyndromePhases(s)
    BY <1>2 DEF AboutSyndrome
  <2>2. all_connected(Datas)'
    BY <1>2, <1>15, <2>1, Others DEF all_connected, SyndromePhases
  <2>3. link'[s]["host"] = << >>
    <3>1. "host" \in Senders /\ "host" # d
      BY Edges, Others
    <3>2. QED
      BY <1>2, <1>3, <1>13, <2>1, <3>1 DEF SyndromePhases
  <2>4. QED
    BY <1>8, <1>14, <2>2, <2>3 DEF SyndromePhases
<1>19. Stage(s)'
  <2>1. /\ data(s).cutoff_armed = one_if(n <= first_quiet)
        /\ n <= first_quiet => data(s).cutoff_step = first_quiet
    BY <1>1 DEF Running
  <2>2. j.noise_disabled = one_if(n + 1 > first_quiet)
    BY <1>2, <1>8 DEF one_if
  <2>3. j.cutoff_armed = one_if(n + 1 <= first_quiet)
    BY <1>2, <1>8, <2>1 DEF one_if
  <2>4. n + 1 <= first_quiet => j.cutoff_step = first_quiet
    BY <1>2, <1>8, <2>1
  <2>5. Running(s)'
    BY <1>14, <1>15, <1>16, <1>17, <2>2, <2>3, <2>4 DEF Running
  <2>6. QED
    BY <2>5 DEF Stage
<1>20. Asking(s)'
  <2>1. all_connected(Cells) => all_connected(Cells)'
    BY <1>15 DEF all_connected
  <2>2. link'[s]["phi"] = link[s]["phi"]
    <3>1. "phi" \in Senders /\ "phi" # d
      BY Edges, Others
    <3>2. QED
      BY <1>3, <1>13, <3>1
  <2>3. Asking(s)
    BY <1>2 DEF AboutSyndrome
  <2>4. data(s)'.step = n /\ one_if(holding(s)') = one_if(holding(s))
    BY <1>8, <1>14, <1>17 DEF one_if
  <2>5. phenom_request(data(s).step)' = phenom_request(data(s).step)
    BY <2>4
  <2>6. n > 0 => result(s, n - 1)' = result(s, n - 1)
    <3>1. Len(A) = n
      BY <1>1, <1>2 DEF AboutSyndrome, Announces, A
    <3>2. n > 0 => parity_after(B, n - 1) = parity_after(A, n - 1)
                   /\ parity_after(B, (n - 1) + 1) = parity_after(A, (n - 1) + 1)
      BY <1>2, <1>12, <3>1
    <3>3. n' = n
      BY <1>8, <1>14
    <3>4. n > 0 => event(s, n - 1)' = event(s, n - 1)
      BY <1>13, <3>2, <3>3 DEF event, A
    <3>5. quiet(n - 1)' = quiet(n - 1)
      BY <1>15, <3>3 DEF quiet
    <3>6. QED
      BY <3>3, <3>4, <3>5 DEF result
  <2>7. QED
    BY <1>13, <1>15, <2>1, <2>2, <2>3, <2>4, <2>5, <2>6 DEF Asking
<1>21. Announces(s)'
  <2>1. /\ Len(A) = n
        /\ parity(A) = xor(odd(flipped(s, n)), data(s).previous_measurement)
        /\ n > first_quiet => data(s).previous_measurement = 0
        /\ \A k \in Nat : k > first_quiet /\ k < n => event(s, k) = 0
    BY <1>1, <1>2 DEF AboutSyndrome, Announces, A
  <2>2. \A k \in Nat : k < n => event(s, k)' = event(s, k)
    <3> TAKE k \in Nat
    <3>1. k < n => parity_after(B, k) = parity_after(A, k)
                   /\ parity_after(B, k + 1) = parity_after(A, k + 1)
      BY SMTT(60), <1>2, <1>12, <2>1
    <3>2. QED
      BY <1>13, <3>1 DEF event, A
  <2>14. xor(parity_after(announced'[s], n), parity_after(announced'[s], n + 1))
           = j.announcement
    BY <1>12, <1>13, <2>1
  <2>3. event(s, n)' = j.announcement
    <3>1. n' = n
      BY <1>8, <1>14
    <3>2. QED
      BY <2>14, <3>1 DEF event
  <2>4. \A q \in Ports : n + 1 <= Len(errors[data_at[s][q]])
    <3> TAKE q \in Ports
    <3>1. CASE q \in S
      BY <3>1, CountedRounds
    <3>2. CASE q = p
      BY <1>3, <3>2
    <3>3. QED
      BY <3>1, <3>2
  <2>5. /\ odd(flipped(s, n + 1))
             = xor(odd(flipped(s, n)), odd(reports(s, Ports)))
        /\ odd(flipped(s, n)) \in Bit /\ odd(reports(s, Ports)) \in Bit
    BY <2>4, FlippedNext
  <2>6. j.announcement_quiet = quiet(n)
    BY <1>5, <1>8 DEF quiet, one_if
  <2>7. parity(B) = xor(odd(flipped(s, n + 1)), flip)
    <3> DEFINE x == odd(flipped(s, n))
               y == odd(reports(s, Ports))
               z == data(s).previous_measurement
    <3>1. parity(B) = xor(xor(x, z), xor(xor(y, flip), z))
      BY <1>5, <1>8, <1>12, <2>1
    <3>2. x \in Bit /\ y \in Bit /\ z \in Bit
      BY <1>2, <2>5
    <3> HIDE DEF x, y, z
    <3>3. xor(xor(x, z), xor(xor(y, flip), z)) = xor(xor(x, y), flip)
      BY <1>9, <3>2 DEF xor, Bit
    <3>4. QED
      BY <2>5, <3>1, <3>3 DEF x, y
  <2>8. n > first_quiet => j.announcement = 0
    <3>1. SUFFICES ASSUME n > first_quiet PROVE j.announcement = 0
      OBVIOUS
    <3>2. \A q \in Ports : error(data_at[s][q], n) = 0
      <4> TAKE q \in Ports
      <4> DEFINE e == data_at[s][q]
      <4>1. /\ Len(errors[e]) = complete(e) /\ e \in Datas
            /\ \A k \in Nat : k >= first_quiet /\ k < complete(e) => error(e, k) = 0
        BY Edges DEF IInv, Hosted
      <4>2. n >= first_quiet /\ n < complete(e)
        <5>1. complete(e) \in Nat /\ n + 1 <= complete(e)
          BY <2>4, <4>1, DataFacts
        <5>2. QED
          BY <1>2, <3>1, <5>1
      <4>3. QED
        BY <1>2, <4>1, <4>2
    <3>3. reports(s, Ports) = {}
      <4>1. \A q \in Ports : error(data_at[s][q], n) # 1
        BY <3>2
      <4>2. QED
        BY <4>1 DEF reports
    <3>4. c.data_parity = 0
      BY <1>5, <3>3, OddNone
    <3>5. flip = 0 /\ data(s).previous_measurement = 0
      BY <1>2, <1>9, <2>1, <3>1
    <3>6. xor(xor(0, 0), 0) = 0
      BY DEF xor
    <3>7. QED
      BY <1>8, <3>4, <3>5, <3>6
  <2>9. \A k \in Nat : k > first_quiet /\ k < n + 1 => event(s, k)' = 0
    <3> TAKE k \in Nat
    <3>1. k < n + 1 => k < n \/ k = n
      BY <1>2
    <3>2. CASE k < n
      BY <2>1, <2>2, <3>2
    <3>3. CASE k = n
      BY <2>8, <2>14, <3>3 DEF event
    <3>4. QED
      BY <3>1, <3>2, <3>3
  <2>10. /\ flipped(s, complete(s))' = flipped(s, n + 1)
         /\ quiet(n)' = quiet(n)
    <3>1. (n + 1)' = n + 1 /\ n' = n
      BY <1>8, <1>14
    <3>2. quiet(n)' = quiet(n)
      BY <1>15, <3>1 DEF quiet
    <3>3. flipped(s, complete(s))' = flipped(s, n + 1)
      BY <1>15, <1>16 DEF flipped
    <3>4. QED
      BY <3>2, <3>3
  <2>11. n + 1 > first_quiet => flip = 0
    BY <1>2, <1>9
  <2>12. Len(B) = n + 1
    BY <1>12, <2>1
  <2>13. QED
    BY <1>8, <1>13, <1>14, <1>15, <1>16, <2>3, <2>6, <2>7, <2>9, <2>10, <2>11,
       <2>12 DEF Announces
<1>22. \A q \in Ports : Edge(s, q)'
  <2> TAKE q \in Ports
  <2> DEFINE e == data_at[s][q]
             o == opposite[q]
  <2>1. Edge(s, q) /\ e \in Senders /\ e \in Cells /\ e # s
    BY <1>2, Edges DEF AboutSyndrome
  <2>2. link'[e][s] = link[e][s] /\ queried(s)' = queried(s)
    BY <1>1, <1>8, <1>13, <1>14 DEF queried
  <2>3. rt'[e] = rt[e]
    BY <1>13, <2>1 DEF OnlySyndrome
  <2>4. heard(e, o)' = heard(e, o) /\ complete(e)' = complete(e)
    BY <2>3 DEF heard, complete, data
  <2>5. heard(s, q)' = n + 1
    BY <1>8, <1>14 DEF heard, one_if
  <2>6. CASE q = p
    <3>1. e = d
      BY <2>6
    <3>2. link'[s][e] = << >>
      BY <1>3, <1>13, <2>1, <3>1
    <3>3. complete(e)' = n + 1 /\ heard(e, o)' = n + 1
          /\ queried(s)' = n + 1 /\ link'[e][s] = << >>
      BY <1>1, <2>2, <2>4, <2>6, <3>1
    <3>4. QED
      BY <1>2, <2>5, <3>2, <3>3 DEF Edge
  <2>7. CASE q # p
    <3>1. e # d
      BY <2>7, Edges
    <3>2. heard(s, q)' = heard(s, q)
      BY <1>1, <2>5, <2>7 DEF heard, one_if
    <3>3. link'[s][e] = link[s][e]
      BY <1>3, <1>13, <2>1, <3>1
    <3>4. report(e, heard(s, q), q)' = report(e, heard(s, q), q)
      BY <1>15, <3>2 DEF report, error, quiet
    <3>5. QED
      BY <2>1, <2>2, <2>4, <3>2, <3>3, <3>4 DEF Edge
  <2>8. QED
    BY <2>6, <2>7
<1>23. \A x \in Cells :
         (\A q \in Ports : data_at[s][q] # x) => link'[s][x] = << >>
  BY <1>2, <1>3, <1>13, Others DEF AboutSyndrome
<1>24. QED
  BY <1>8, <1>13, <1>14, <1>18, <1>19, <1>20, <1>21, <1>22, <1>23, SyndromeStep
     DEF AboutSyndrome

(* The request that asks for an announced result: it goes out, and the     *)
(* next round begins.                                                      *)
LEMMA SyndromeReleasesResult ==
  ASSUME IInv, NEW s \in Syndromes, Running(s), rt[s].phase = "announcing",
         NEW r, record(r), r.phase = "announcing", NEW k,
         RemoveAt(r.mailbox, k) = << >>, NEW L, outgoing(L, s),
         L[s]["phi"] = << >>,
         \A x \in Senders : x # "phi" => L[s][x] = link[s][x],
         requested[s] = data(s).step + 1, NEW noise,
         finish_syndrome(s, r, k, L,
           SC!handle_cast(phenom_request(data(s).step), "announcing", data(s),
                          noise)),
         UNCHANGED Rest
  PROVE  IInv'
<1> DEFINE n == data(s).step
           q == data(s)
           e == SC!handle_enter("collecting", SC!release(q))
           d == e.data
           anyon == SC!phenom_anyon(q)
<1>1. /\ q \in SyndromeData /\ first_quiet \in Nat
      /\ AboutSyndrome(s) /\ Globals /\ n \in Nat /\ connected(rt[s])
      /\ announced[s] \in Seq(Bit)
  BY SyndromeFacts DEF Running, Globals
<1>2. q.seen_sources = Ports /\ complete(s) = n + 1
  BY <1>1 DEF AboutSyndrome, SyndromePhases, complete, one_if
<1>3. n + 1 < U32
  <2>1. requested[s] \in 0 .. MaxStep + 1
    BY <1>1 DEF AboutSyndrome, Asking
  <2>2. QED
    BY <1>1, <2>1, Numbers
<1>4. /\ d \in SyndromeData
      /\ d.step = n + 1 /\ d.seen_sources = {}
      /\ d.noise_disabled = q.noise_disabled
      /\ d.cutoff_armed = q.cutoff_armed /\ d.cutoff_step = q.cutoff_step
      /\ d.data_parity = 0 /\ d.data_quiet = 1
      /\ d.previous_measurement = q.previous_measurement
      /\ e.casts["phi"] = <<anyon>>
      /\ \A p \in Ports :
           e.casts[p] = <<SC!phenom_query(n + 1, opposite[p])>>
  <2> HIDE DEF q
  <2>1. n = q.step
    BY DEF q
  <2> HIDE DEF n
  <2>2. QED
    BY <1>1, <1>2, <1>3, <2>1, SyndromeReleased
<1>5. announcements[s] = << >>
  BY <1>1 DEF AboutSyndrome, Asking
<1>6. SC!handle_cast(phenom_request(n), "announcing", q, noise)
        = SC!conclude("collecting", SC!release(q), "consume")
  BY SyndromeReleases
<1> HIDE DEF q, e, d, anyon
<1>7. /\ Becomes(s, "collecting", d, << >>)
      /\ carries(L, link', s, e.casts)
      /\ announcements' = [announcements EXCEPT ![s] = <<anyon>>]
      /\ announced' = announced
      /\ UNCHANGED <<errors, replies>>
  <2> DEFINE phase == "collecting"
             f == SC!release(q)
             concl == SC!conclude("collecting", f, "consume")
  <2>1. /\ phase = concl.phase /\ phase = "collecting"
        /\ f = concl.data /\ concl.phase # "repeat_phase"
        /\ concl.phase # r.phase /\ concl.directive = "consume"
    BY DEF SC!conclude
  <2>2. finish_syndrome(s, r, k, L, concl)
    BY <1>6 DEF q
  <2>3. e = SC!handle_enter(phase, f)
    BY DEF e
  <2> HIDE DEF phase, f, concl
  <2>4. syndrome_enters(s, r, k, L, phase, f)
    BY <2>1, <2>2, SyndromeMoves
  <2>5. phase # "announcing"
    BY <2>1
  <2>6. announced' = announced
    BY <2>4, <2>5, Functions DEF syndrome_enters
  <2>7. << >> \o <<anyon>> = <<anyon>>
    BY Short
  <2>8. released(<< >>) = << >>
    BY ShortRelease
  <2>9. announcements' = [announcements EXCEPT ![s] = @ \o e.casts["phi"]]
    BY <2>3, <2>4 DEF syndrome_enters
  <2>10. announcements' = [announcements EXCEPT ![s] = <<anyon>>]
    BY <1>4, <1>5, <2>7, <2>9
  <2>11. Becomes(s, "collecting", d, << >>)
    BY <2>1, <2>3, <2>4, <2>8 DEF syndrome_enters, d
  <2>12. carries(L, link', s, e.casts)
    BY <2>3, <2>4 DEF syndrome_enters
  <2>13. QED
    BY <2>4, <2>6, <2>10, <2>11, <2>12 DEF syndrome_enters
<1>8. /\ OnlySyndrome(s)
      /\ announcements'[s] = <<anyon>> /\ announced'[s] = announced[s]
      /\ \A x \in Senders : link'[s][x] = L[s][x]
  <2>1. announced' = [announced EXCEPT ![s] = announced[s]]
    BY <1>7, Functions
  <2>2. spreads(L, s)
    BY <1>7, Spreads
  <2>3. UNCHANGED <<errors, replies, requested, first_quiet, certified,
                    updates, asked>>
    BY <1>7 DEF Rest
  <2> DEFINE phase == "collecting"
             b == << >>
             a == <<anyon>>
             h == announced[s]
  <2>4. Becomes(s, phase, d, b) /\ announcements' = [announcements EXCEPT ![s] = a]
    BY <1>7
  <2>5. h \in Seq(Bit) /\ announced' = [announced EXCEPT ![s] = h]
    BY <1>1, <2>1
  <2> HIDE DEF phase, b, a, h
  <2>6. OnlySyndrome(s)
    BY <2>2, <2>3, <2>4, <2>5, OnlyThisSyndrome
  <2>7. announcements'[s] = a /\ announced'[s] = h
    BY <1>1, <2>4, <2>5 DEF Globals
  <2>8. \A x \in Senders : link'[s][x] = L[s][x]
    BY <2>2, Neighbors, Others DEF spreads
  <2>9. QED
    BY <2>6, <2>7, <2>8 DEF a, h
<1>9. \A p \in Ports :
        link'[data_at[s][p]][s]
          = link[data_at[s][p]][s] \o <<SC!phenom_query(n + 1, opposite[p])>>
  <2> TAKE p \in Ports
  <2>1. /\ data_at[s][p] \in Cells /\ data_at[s][p] # s /\ s \in Senders
        /\ neighbor_at(s)[p] = data_at[s][p]
    BY Edges, NeighborOf
  <2>2. L[data_at[s][p]][s] = link[data_at[s][p]][s]
    BY <2>1 DEF outgoing
  <2>3. link'[neighbor_at(s)[p]][s] = L[neighbor_at(s)[p]][s] \o e.casts[p]
    BY <1>7 DEF carries
  <2>4. QED
    BY <1>4, <2>1, <2>2, <2>3
<1>10. /\ rt'[s].lifecycle = "connected" /\ connected(rt'[s])
       /\ rt'[s].phase = "collecting" /\ rt'[s].mailbox = << >>
       /\ data(s)' = d /\ Typed(s)'
  BY <1>7, Became, Others
<1>11. /\ first_quiet' = first_quiet /\ errors' = errors
       /\ requested' = requested /\ certified' = certified
       /\ \A x \in Cells : connected(rt[x]) => connected(rt'[x])
  BY <1>8 DEF OnlySyndrome, Rest
<1>12. complete(s)' = n + 1 /\ ~holding(s)'
  <2>1. {} # Ports
    BY Numbers
  <2>2. complete(s)' = n + 1
    BY <1>1, <1>4, <1>10, <2>1 DEF complete, one_if
  <2>3. << >> # <<asked_for(s)>>'
    OBVIOUS
  <2>4. QED
    BY <1>10, <2>2, <2>3 DEF holding
<1>13. SyndromePhases(s)'
  <2>1. SyndromePhases(s)
    BY <1>1 DEF AboutSyndrome
  <2>2. all_connected(Datas)'
    BY <1>1, <1>11, <2>1, Others DEF all_connected, SyndromePhases
  <2>3. link'[s]["host"] = << >>
    <3>1. "host" \in Senders /\ "host" # "phi"
      BY Others
    <3>2. QED
      BY <1>1, <1>8, <2>1, <3>1 DEF SyndromePhases
  <2>4. {} # Ports
    BY Numbers
  <2>5. QED
    BY <1>4, <1>10, <2>2, <2>3, <2>4 DEF SyndromePhases
<1>14. Stage(s)'
  <2>1. /\ q.noise_disabled = one_if(n + 1 > first_quiet)
        /\ q.cutoff_armed = one_if(n + 1 <= first_quiet)
        /\ n + 1 <= first_quiet => q.cutoff_step = first_quiet
    BY <1>2 DEF Running, q
  <2>2. Running(s)'
    BY <1>4, <1>10, <1>11, <1>12, <2>1 DEF Running
  <2>3. QED
    BY <2>2 DEF Stage
<1>15. Announces(s)'
  <2>1. /\ Announces(s) /\ complete(s)' = complete(s)
    BY <1>1, <1>2, <1>12 DEF AboutSyndrome
  <2>2. reported(s)' = {}
    BY <1>4, <1>10 DEF reported
  <2>3. flipped(s, complete(s))' = flipped(s, complete(s))
    BY <1>11, <2>1 DEF flipped
  <2>4. QED
    BY <1>4, <1>8, <1>10, <1>11, <2>1, <2>2, <2>3, OddNone
       DEF Announces, event, q
<1>16. Asking(s)'
  <2>1. all_connected(Cells) => all_connected(Cells)'
    BY <1>11 DEF all_connected
  <2>2. link'[s]["phi"] = << >>
    BY <1>8, Others
  <2>3. Asking(s)
    BY <1>1 DEF AboutSyndrome
  <2>4. data(s)'.step = n + 1 /\ one_if(holding(s)') = 0
    BY <1>4, <1>10, <1>12 DEF one_if
  <2>5. anyon = result(s, n)
    <3>1. q.announcement = event(s, n) /\ q.announcement_quiet = quiet(n)
      BY <1>1 DEF AboutSyndrome, Announces, q
    <3>2. QED
      BY <3>1 DEF anyon, SC!phenom_anyon, result, q
  <2>6. result(s, data(s).step - 1)' = anyon
    <3>1. (data(s).step - 1)' = n
      BY <1>1, <2>4
    <3>2. event(s, data(s).step - 1)' = event(s, n)
      BY <1>8, <3>1 DEF event
    <3>3. quiet(data(s).step - 1)' = quiet(n)
      BY <1>11, <3>1 DEF quiet
    <3>4. QED
      BY <2>5, <3>1, <3>2, <3>3 DEF result
  <2>7. Len(link'[s]["phi"]) = 0 /\ Len(announcements'[s]) = 1
    BY <1>8, <2>2, Short
  <2>8. s \in certified <=> n + 1 - 1 > first_quiet
    <3>1. Len(announcements[s]) = 0
      BY <1>5
    <3>2. s \in certified <=> n - 0 > first_quiet
      BY <2>3, <3>1 DEF Asking
    <3>3. QED
      BY <1>1, <3>2
  <2>9. /\ requested'[s] = data(s)'.step + Len(link'[s]["phi"]) + one_if(holding(s)')
        /\ requested'[s] <= data(s)'.step + 1
    BY <1>1, <1>11, <2>4, <2>7
  <2>10. /\ announcements'[s] # << >>
         /\ data(s)'.step > 0 /\ requested'[s] = data(s)'.step
         /\ announcements'[s] = <<result(s, data(s).step - 1)>>'
    <3>1. <<anyon>> # << >>
      OBVIOUS
    <3>2. QED
      BY <1>1, <1>8, <1>11, <2>4, <2>6, <3>1
  <2>11. s \in certified' <=> data(s)'.step - Len(announcements'[s]) > first_quiet'
    <3> DEFINE a == data(s)'.step
               b == Len(announcements'[s])
               f == first_quiet'
               C == certified'
    <3>1. a = n + 1 /\ b = 1 /\ f = first_quiet /\ C = certified
      BY <1>11, <2>4, <2>7
    <3> HIDE DEF a, b, f, C, n
    <3>2. s \in C <=> a - b > f
      BY <1>1, <2>8, <3>1
    <3>3. QED
      BY <3>2 DEF a, b, f, C
  <2>12. requested'[s] \in 0 .. MaxStep + 1
    BY <1>11, <2>3 DEF Asking
  <2>13. requested'[s] > 0 => all_connected(Cells)'
    BY <1>11, <2>1, <2>3 DEF Asking
  <2>14. QED
    BY <2>2, <2>9, <2>10, <2>11, <2>12, <2>13 DEF Asking
<1>17. \A p \in Ports : Edge(s, p)'
  <2> TAKE p \in Ports
  <2> DEFINE u == data_at[s][p]
             o == opposite[p]
  <2>1. Edge(s, p) /\ u \in Senders /\ u \in Cells /\ u # s /\ u \in Datas
        /\ o \in Ports /\ u # "phi"
    BY <1>1, Edges, Others DEF AboutSyndrome
  <2>2. rt'[u] = rt[u]
    BY <1>8, <2>1 DEF OnlySyndrome
  <2>3. heard(u, o)' = heard(u, o) /\ complete(u)' = complete(u)
    BY <2>2 DEF heard, complete, data
  <2>4. heard(s, p) = n + 1 /\ heard(s, p)' = n + 1
    BY <1>1, <1>2, <1>4, <1>10 DEF heard, one_if, q
  <2>5. queried(s) = n + 1 /\ queried(s)' = n + 2
    BY <1>1, <1>4, <1>10 DEF queried
  <2>6. heard(u, o) = n + 1 /\ complete(u) = n + 1
    <3>1. heard(u, o) \in Nat /\ complete(u) \in Nat /\ complete(u) <= heard(u, o)
      BY <2>1, DataFacts DEF heard, complete, one_if
    <3>2. n + 1 <= complete(u) /\ heard(u, o) <= n + 1
      BY <2>1, <2>4, <2>5 DEF Edge
    <3> HIDE DEF n, u, o
    <3>3. QED
      BY <1>1, <3>1, <3>2
  <2>7. link[u][s] = << >> /\ link[s][u] = << >>
    <3>1. ~(n + 1 < n + 1)
      BY <1>1
    <3>2. QED
      BY <2>1, <2>4, <2>5, <2>6, <3>1 DEF Edge
  <2>8. link'[s][u] = << >>
    BY <1>8, <2>1, <2>7
  <2>9. link'[u][s] = <<SC!phenom_query(n + 1, o)>>
    BY <1>9, <2>7, Short
  <2>10. n + 1 < n + 2 /\ ~(n + 1 < n + 1) /\ n + 1 <= n + 1 /\ n + 1 <= n + 2
    BY <1>1
  <2>11. QED
    BY <2>3, <2>4, <2>5, <2>6, <2>8, <2>9, <2>10 DEF Edge
<1>18. \A x \in Cells :
         (\A p \in Ports : data_at[s][p] # x) => link'[s][x] = << >>
  BY <1>1, <1>8, Others DEF AboutSyndrome
<1>19. QED
  BY <1>4, <1>8, <1>10, <1>13, <1>14, <1>15, <1>16, <1>17, <1>18, SyndromeStep
     DEF AboutSyndrome

(* The configuration: the first round begins.                              *)
LEMMA SyndromeStarts ==
  ASSUME IInv, NEW s \in Syndromes, Configuring(s), connected(rt[s]), NEW noise,
         turn_syndrome(s, rt[s], 1, link, noise), UNCHANGED Rest
  PROVE  IInv'
<1> DEFINE r == rt[s]
           q == [SC!syndrome EXCEPT !.seen_sources = {}, !.data_parity = 0,
                   !.announcement = 0, !.data_quiet = 1,
                   !.announcement_quiet = 0]
           e == SC!handle_enter("collecting", q)
           d == e.data
           late == noise_cutoff(first_quiet)
<1>1. /\ first_quiet \in Nat /\ record(r) /\ AboutSyndrome(s) /\ Globals
      /\ announced[s] \in Seq(Bit)
  BY SyndromeFacts DEF Globals
<1>2. /\ r.phase = "configuring" /\ r.data = SC!syndrome
      /\ r.mailbox = <<fresh(phenom_config), fresh(late)>>
      /\ r.mailbox[1].message = phenom_config
  <2>1. r.data = SC!syndrome /\ r.phase = "configuring"
    BY DEF Configuring, initial
  <2>2. r.mailbox = <<fresh(phenom_config), fresh(late)>>
    BY DEF Configuring, connected
  <2>3. r.mailbox[1] = fresh(phenom_config)
    BY <2>2
  <2>4. QED
    BY <2>1, <2>2, <2>3 DEF fresh
<1>3. /\ data(s).step = 0 /\ data(s).seen_sources = {}
      /\ data(s).previous_measurement = 0 /\ complete(s) = 0
      /\ queried(s) = 0
  <2>1. data(s).step = 0 /\ data(s).seen_sources = {}
        /\ data(s).previous_measurement = 0
    BY <1>2 DEF data, SC!syndrome
  <2>2. {} # Ports
    BY Numbers
  <2>3. QED
    BY <1>2, <2>1, <2>2 DEF complete, one_if, queried
<1>4. /\ d \in SyndromeData
      /\ d.step = 0 /\ d.seen_sources = {}
      /\ d.noise_disabled = 0 /\ d.cutoff_armed = 0
      /\ d.data_parity = 0 /\ d.data_quiet = 1 /\ d.previous_measurement = 0
      /\ e.casts["phi"] = << >>
      /\ \A p \in Ports : e.casts[p] = <<SC!phenom_query(0, opposite[p])>>
  BY SyndromeStarted
<1>5. SC!handle_cast(phenom_config, "configuring", SC!syndrome, noise)
        = SC!conclude("collecting", q, "consume")
  BY SyndromeConfigures
<1> HIDE DEF q, e, d, late
<1>6. released(RemoveAt(r.mailbox, 1)) = <<fresh(late)>>
  <2>1. RemoveAt(r.mailbox, 1) = <<fresh(late)>>
    <3> DEFINE a == fresh(phenom_config)
               b == fresh(late)
    <3> HIDE DEF a, b, r
    <3>1. RemoveAt(<<a, b>>, 1) = <<b>>
      BY ShortRemoval
    <3>2. r.mailbox = <<a, b>>
      BY <1>2 DEF a, b
    <3>3. QED
      BY <3>1, <3>2 DEF b
  <2>2. released(<<fresh(late)>>) = <<fresh(late)>>
    BY ShortRelease DEF fresh
  <2>3. QED
    BY <2>1, <2>2
<1> HIDE DEF r
<1>7. /\ Becomes(s, "collecting", d, <<fresh(late)>>)
      /\ carries(link, link', s, e.casts)
      /\ announcements' = announcements
      /\ announced' = announced
      /\ UNCHANGED <<errors, replies>>
  <2> DEFINE phase == "collecting"
             concl == SC!conclude("collecting", q, "consume")
  <2>1. /\ phase = concl.phase /\ phase = "collecting"
        /\ q = concl.data /\ concl.phase # "repeat_phase"
        /\ concl.phase # r.phase /\ concl.directive = "consume"
    BY <1>2 DEF SC!conclude
  <2>2. finish_syndrome(s, r, 1, link, concl)
    BY <1>2, <1>5 DEF turn_syndrome, r
  <2>3. e = SC!handle_enter(phase, q)
    BY DEF e
  <2> HIDE DEF phase, concl
  <2>4. outgoing(link, s)
    BY Outgoing, Others
  <2>5. syndrome_enters(s, r, 1, link, phase, q)
    BY <1>1, <2>1, <2>2, <2>4, SyndromeMoves
  <2>6. phase # "announcing"
    BY <2>1
  <2>7. announced' = announced
    BY <2>5, <2>6, Functions DEF syndrome_enters
  <2>8. announcements' = [announcements EXCEPT ![s] = @ \o e.casts["phi"]]
    BY <2>3, <2>5 DEF syndrome_enters
  <2>9. announcements' = announcements
    BY <1>4, <2>8, SingleResults, Functions
  <2>10. Becomes(s, "collecting", d, <<fresh(late)>>)
    BY <1>6, <2>1, <2>3, <2>5 DEF syndrome_enters, d
  <2>11. carries(link, link', s, e.casts)
    BY <2>3, <2>5 DEF syndrome_enters
  <2>12. QED
    BY <2>5, <2>7, <2>9, <2>10, <2>11 DEF syndrome_enters
<1>8. /\ OnlySyndrome(s)
      /\ announcements'[s] = announcements[s] /\ announced'[s] = announced[s]
      /\ \A x \in Senders : link'[s][x] = link[s][x]
  <2>1. announced' = [announced EXCEPT ![s] = announced[s]]
        /\ announcements' = [announcements EXCEPT ![s] = announcements[s]]
    BY <1>7, Functions
  <2>2. spreads(link, s)
    BY <1>7, Spreads
  <2>3. UNCHANGED <<errors, replies, requested, first_quiet, certified,
                    updates, asked>>
    BY <1>7 DEF Rest
  <2>4. outgoing(link, s)
    BY Outgoing, Others
  <2> DEFINE phase == "collecting"
             b == <<fresh(late)>>
             a == announcements[s]
             h == announced[s]
  <2>5. Becomes(s, phase, d, b) /\ announcements' = [announcements EXCEPT ![s] = a]
    BY <1>7, <2>1
  <2>6. h \in Seq(Bit) /\ announced' = [announced EXCEPT ![s] = h]
    BY <1>1, <2>1
  <2> HIDE DEF phase, b, a, h
  <2>7. OnlySyndrome(s)
    BY <2>2, <2>3, <2>4, <2>5, <2>6, OnlyThisSyndrome
  <2>8. \A x \in Senders : link'[s][x] = link[s][x]
    BY <2>2, Neighbors, Others DEF spreads
  <2>9. QED
    BY <1>7, <2>7, <2>8
<1>9. \A p \in Ports :
        link'[data_at[s][p]][s]
          = link[data_at[s][p]][s] \o <<SC!phenom_query(0, opposite[p])>>
  <2> TAKE p \in Ports
  <2>1. neighbor_at(s)[p] = data_at[s][p]
    BY Edges, NeighborOf
  <2>2. link'[neighbor_at(s)[p]][s] = link[neighbor_at(s)[p]][s] \o e.casts[p]
    BY <1>7 DEF carries
  <2>3. e.casts[p] = <<SC!phenom_query(0, opposite[p])>>
    BY <1>4
  <2>4. QED
    BY <2>1, <2>2, <2>3
<1>10. /\ rt'[s].lifecycle = "connected" /\ connected(rt'[s])
       /\ rt'[s].phase = "collecting" /\ rt'[s].mailbox = <<fresh(late)>>
       /\ data(s)' = d /\ Typed(s)'
  <2> DEFINE phase == "collecting"
             b == <<fresh(late)>>
  <2>1. Becomes(s, phase, d, b) /\ s \in Cells
    BY <1>7, Others
  <2> HIDE DEF phase, b
  <2>2. /\ rt'[s].lifecycle = "connected" /\ connected(rt'[s])
        /\ rt'[s].phase = phase /\ rt'[s].mailbox = b
        /\ data(s)' = d /\ Typed(s)'
    BY <2>1, Became
  <2>3. QED
    BY <2>2 DEF phase, b
<1>11. /\ first_quiet' = first_quiet /\ errors' = errors
       /\ requested' = requested /\ certified' = certified
       /\ \A x \in Cells : connected(rt[x]) => connected(rt'[x])
  BY <1>8 DEF OnlySyndrome, Rest
<1>12. complete(s)' = 0 /\ ~holding(s)' /\ ~holding(s)
  <2>1. {} # Ports
    BY Numbers
  <2>2. complete(s)' = 0
    BY <1>1, <1>4, <1>10, <2>1 DEF complete, one_if
  <2>3. ~holding(s)'
    <3>1. rt'[s].mailbox[1].message.tag = "noise_cutoff"
      BY <1>10 DEF late, fresh, noise_cutoff
    <3>2. <<asked_for(s)>>'[1].message.tag = "phenom_request"
      BY DEF asked_for, phenom_request
    <3>3. QED
      BY <3>1, <3>2 DEF holding
  <2>4. ~holding(s)
    <3>1. r.mailbox[1].message.tag = "phenom_config"
      BY <1>2 DEF phenom_config
    <3>2. <<asked_for(s)>>[1].message.tag = "phenom_request"
      BY DEF asked_for, phenom_request
    <3>3. QED
      BY <3>1, <3>2 DEF holding, r
  <2>5. QED
    BY <2>2, <2>3, <2>4
<1>13. SyndromePhases(s)'
  <2>1. SyndromePhases(s)
    BY <1>1 DEF AboutSyndrome
  <2>2. all_connected(Datas)'
    BY <1>11, <2>1, Others DEF all_connected, SyndromePhases
  <2>3. link'[s]["host"] = << >>
    BY <1>8, <2>1, Others DEF SyndromePhases
  <2>4. {} # Ports
    BY Numbers
  <2>5. QED
    BY <1>4, <1>10, <2>2, <2>3, <2>4 DEF SyndromePhases
<1>14. Stage(s)'
  <2>1. Arming(s)'
    BY <1>4, <1>10, <1>11 DEF Arming, late
  <2>2. QED
    BY <2>1 DEF Stage
<1>15. Announces(s)'
  <2>1. Announces(s) /\ complete(s)' = complete(s)
    BY <1>1, <1>3, <1>12 DEF AboutSyndrome
  <2>2. reported(s)' = {}
    BY <1>4, <1>10 DEF reported
  <2>3. flipped(s, complete(s))' = flipped(s, complete(s))
    BY <1>11, <2>1 DEF flipped
  <2>4. QED
    BY <1>3, <1>4, <1>8, <1>10, <1>11, <2>1, <2>2, <2>3, OddNone
       DEF Announces, event
<1>16. Asking(s)'
  <2>1. all_connected(Cells) => all_connected(Cells)'
    BY <1>11 DEF all_connected
  <2>2. link'[s]["phi"] = link[s]["phi"]
    BY <1>8, Others
  <2>3. Asking(s)
    BY <1>1 DEF AboutSyndrome
  <2>4. data(s)'.step = data(s).step /\ one_if(holding(s)') = one_if(holding(s))
    BY <1>3, <1>4, <1>10, <1>12 DEF one_if
  <2>5. /\ result(s, data(s).step - 1)' = result(s, data(s).step - 1)
        /\ phenom_request(data(s).step)' = phenom_request(data(s).step)
    BY <1>8, <1>11, <2>4 DEF result, event, quiet
  <2>6. QED
    BY <1>8, <1>11, <2>1, <2>2, <2>3, <2>4, <2>5 DEF Asking
<1>17. \A p \in Ports : Edge(s, p)'
  <2> TAKE p \in Ports
  <2> DEFINE u == data_at[s][p]
             o == opposite[p]
  <2>1. Edge(s, p) /\ u \in Senders /\ u \in Cells /\ u # s /\ u \in Datas
        /\ o \in Ports
    BY <1>1, Edges DEF AboutSyndrome
  <2>2. rt'[u] = rt[u]
    BY <1>8, <2>1 DEF OnlySyndrome
  <2>3. heard(u, o)' = heard(u, o) /\ complete(u)' = complete(u)
    BY <2>2 DEF heard, complete, data
  <2>4. heard(s, p) = 0 /\ heard(s, p)' = 0
    BY <1>3, <1>4, <1>10 DEF heard, one_if
  <2>5. queried(s)' = 1
    BY <1>4, <1>10 DEF queried
  <2>6. heard(u, o) = 0 /\ complete(u) = 0
    <3>1. heard(u, o) \in Nat /\ complete(u) \in Nat /\ complete(u) <= heard(u, o)
      BY <2>1, DataFacts DEF heard, complete, one_if
    <3>2. heard(u, o) <= 0
      BY <1>3, <2>1 DEF Edge
    <3> HIDE DEF u, o
    <3>3. QED
      BY <3>1, <3>2
  <2>7. link[u][s] = << >> /\ link[s][u] = << >>
    BY <1>3, <2>1, <2>4, <2>6 DEF Edge
  <2>8. link'[s][u] = << >>
    BY <1>8, <2>1, <2>7
  <2>9. link'[u][s] = <<SC!phenom_query(0, o)>>
    BY <1>9, <2>7, Short
  <2>10. QED
    BY <2>3, <2>4, <2>5, <2>6, <2>8, <2>9 DEF Edge
<1>18. \A x \in Cells :
         (\A p \in Ports : data_at[s][p] # x) => link'[s][x] = << >>
  BY <1>1, <1>8, Others DEF AboutSyndrome
<1>19. QED
  BY <1>4, <1>8, <1>10, <1>13, <1>14, <1>15, <1>16, <1>17, <1>18, SyndromeStep
     DEF AboutSyndrome

(* What a cell that holds nothing fresh may have in its mailbox.           *)
LEMMA Settled ==
  ASSUME NEW c \in Cells, Stage(c), connected(rt[c]), eligible(rt[c]) = {}
  PROVE  Running(c)
<1>1. CASE Configuring(c)
  <2>1. rt[c].mailbox
          = <<fresh(phenom_config), fresh(noise_cutoff(first_quiet))>>
    BY <1>1 DEF Configuring, connected
  <2>2. QED
    BY <2>1, Chosen
<1>2. CASE Arming(c)
  <2>1. rt[c].mailbox = <<fresh(noise_cutoff(first_quiet))>>
    BY <1>2 DEF Arming
  <2>2. QED
    BY <2>1, Chosen
<1>3. QED
  BY <1>1, <1>2 DEF Stage

(* A mailbox is never full when a message is admitted.                     *)
LEMMA NeverFull ==
  ASSUME NEW c, Running(c)
  PROVE  ~full(rt[c])
<1> DEFINE n == Len(rt[c].mailbox)
<1>1. n = 0 \/ n = 1
  BY RunningMailbox, Short
<1> HIDE DEF n
<1>2. ~(n >= MailboxCapacity)
  BY <1>1, Numbers
<1>3. QED
  BY <1>2 DEF full, n

(* A turn of a syndrome without a new message keeps the invariant,         *)
LEMMA SyndromeProcesses ==
  ASSUME IInv, NEW s \in Syndromes, process_messages(s), UNCHANGED Rest
  PROVE  IInv'
<1>1. PICK k \in eligible(rt[s]), noise \in Bit :
        selected(rt[s], k) /\ turn_syndrome(s, rt[s], k, link, noise)
  <2>1. s \notin Datas
    BY Edges, NoiseMeshAssumption
  <2>2. QED
    BY <2>1 DEF process_messages, process, process_syndrome, turn_syndrome
<1>2. /\ s \in Cells /\ connected(rt[s]) /\ Stage(s) /\ AboutSyndrome(s)
      /\ data(s).step \in Nat
  BY SyndromeFacts, Others DEF process_messages, AboutSyndrome
<1>3. CASE Configuring(s)
  <2>1. rt[s].mailbox
          = <<fresh(phenom_config), fresh(noise_cutoff(first_quiet))>>
    BY <1>2, <1>3 DEF Configuring, connected
  <2>2. k = 1
    BY <1>1, <2>1, Chosen
  <2>3. QED
    BY <1>1, <1>2, <1>3, <2>2, SyndromeStarts
<1>4. CASE Arming(s)
  <2>1. rt[s].mailbox = <<fresh(noise_cutoff(first_quiet))>>
    BY <1>4 DEF Arming
  <2>2. k = 1
    BY <1>1, <2>1, Chosen
  <2>3. QED
    BY <1>1, <1>4, <2>2, SyndromeArmsCutoff
<1>5. CASE Running(s)
  <2> DEFINE req == phenom_request(data(s).step)
  <2>1. holding(s)
    <3>1. rt[s].mailbox # << >>
      BY <1>1, Chosen
    <3>2. QED
      BY <1>5, <3>1 DEF Running
  <2>2. rt[s].mailbox
          = <<[message |-> req, postponed |-> rt[s].phase = "collecting"]>>
    BY <2>1 DEF holding, asked_for
  <2> HIDE DEF req
  <2>3. rt[s].phase # "collecting"
    <3>1. SUFFICES ASSUME rt[s].phase = "collecting" PROVE FALSE
      OBVIOUS
    <3>2. (rt[s].phase = "collecting") = TRUE
      BY <3>1
    <3>3. rt[s].mailbox = <<[message |-> req, postponed |-> TRUE]>>
      BY <2>2, <3>2
    <3>4. QED
      BY <1>1, <3>3, Chosen
  <2>4. rt[s].phase = "announcing"
    BY <1>2, <1>5, <2>3 DEF AboutSyndrome, SyndromePhases, Running
  <2>5. rt[s].mailbox = <<fresh(req)>>
    <3>1. (rt[s].phase = "collecting") = FALSE
      BY <2>3
    <3>2. QED
      BY <2>2, <3>1 DEF fresh
  <2>6. k = 1
    BY <1>1, <2>5, Chosen
  <2>7. rt[s].mailbox[1].message = req /\ RemoveAt(rt[s].mailbox, 1) = << >>
    <3> DEFINE a == fresh(req)
    <3> HIDE DEF a
    <3>1. rt[s].mailbox = <<a>>
      BY <2>5 DEF a
    <3>2. RemoveAt(<<a>>, 1) = << >>
      BY ShortRemoval
    <3>3. rt[s].mailbox[1] = a
      BY ONLY <3>1
    <3>4. QED
      BY <3>1, <3>2, <3>3 DEF a, fresh
  <2>8. requested[s] = data(s).step + 1 /\ link[s]["phi"] = << >>
    <3>1. Asking(s) /\ one_if(holding(s)) = 1
      BY <1>2, <2>1 DEF AboutSyndrome, one_if
    <3>2. CASE link[s]["phi"] = << >>
      BY <1>2, <3>1, <3>2 DEF Asking
    <3>3. CASE link[s]["phi"] = <<req>>
      <4>1. Len(link[s]["phi"]) = 1
        BY <3>3, Short
      <4>2. QED
        BY <1>2, <3>1, <4>1 DEF Asking
    <3>4. QED
      BY <3>1, <3>2, <3>3 DEF Asking, req
  <2>9. /\ record(rt[s]) /\ outgoing(link, s)
    BY <1>2, SyndromeFacts, Outgoing
  <2>10. finish_syndrome(s, rt[s], 1, link,
           SC!handle_cast(phenom_request(data(s).step), "announcing", data(s),
                          noise))
    BY <1>1, <2>4, <2>6, <2>7 DEF turn_syndrome, data, req
  <2> DEFINE r == rt[s]
             j == 1
  <2>11. /\ record(r) /\ r.phase = "announcing" /\ RemoveAt(r.mailbox, j) = << >>
         /\ finish_syndrome(s, r, j, link,
              SC!handle_cast(phenom_request(data(s).step), "announcing", data(s),
                             noise))
    BY <2>4, <2>7, <2>9, <2>10
  <2> HIDE DEF r, j
  <2>12. QED
    BY <1>5, <2>4, <2>8, <2>9, <2>11, SyndromeReleasesResult
<1>6. QED
  BY <1>2, <1>3, <1>4, <1>5 DEF Stage

(* and so does one with a new message.                                     *)
LEMMA SyndromeAdmits ==
  ASSUME IInv, NEW s \in Syndromes, admit_and_process(s), UNCHANGED Rest
  PROVE  IInv'
<1>1. /\ s \in Cells /\ connected(rt[s]) /\ Stage(s) /\ AboutSyndrome(s)
      /\ data(s).step \in Nat /\ eligible(rt[s]) = {} /\ record(rt[s])
  BY SyndromeFacts, Others DEF admit_and_process, AboutSyndrome, quiescent
<1>2. Running(s)
  BY <1>1, Settled
<1>3. PICK x \in Senders, noise \in Bit :
        /\ link[s][x] # << >>
        /\ LET r == enqueue(rt[s], Head(link[s][x]))
           IN  turn_syndrome(s, r, Len(r.mailbox), received(s, x), noise)
  <2>1. s \notin Datas
    BY Edges, NoiseMeshAssumption
  <2>2. ~full(rt[s])
    BY <1>2, NeverFull
  <2>3. PICK x \in Senders :
          /\ link[s][x] # << >>
          /\ LET r == enqueue(rt[s], Head(link[s][x]))
             IN  process(s, r, Len(r.mailbox), received(s, x))
    BY <2>2 DEF admit_and_process
  <2>4. ASSUME NEW r, NEW L, process(s, r, Len(r.mailbox), L)
        PROVE  \E noise \in Bit : turn_syndrome(s, r, Len(r.mailbox), L, noise)
    BY <2>1, <2>4 DEF process, process_syndrome, turn_syndrome
  <2>5. QED
    BY <2>3, <2>4
<1>4. CASE x \in Cells
  <2>1. PICK p \in Ports : data_at[s][p] = x
    BY <1>1, <1>3, <1>4 DEF AboutSyndrome
  <2>2. LET r == with_report(s, p)
        IN  turn_syndrome(s, r, Len(r.mailbox), received(s, data_at[s][p]), noise)
    BY <1>3, <2>1 DEF with_report
  <2>3. link[s][data_at[s][p]] # << >>
    BY <1>3, <2>1
  <2>4. CASE data(s).seen_sources \cup {p} = Ports
    BY <1>2, <2>2, <2>3, <2>4, SyndromeJoinsReport
  <2>5. CASE data(s).seen_sources \cup {p} # Ports
    BY <1>2, <2>2, <2>3, <2>5, SyndromeCollectsReport
  <2>6. QED
    BY <2>4, <2>5
<1>5. x # "host"
  BY <1>1, <1>3 DEF AboutSyndrome, SyndromePhases
<1>6. CASE x = "phi"
  <2> DEFINE r == enqueue(rt[s], Head(link[s]["phi"]))
             L == received(s, "phi")
             req == phenom_request(data(s).step)
  <2>1. turn_syndrome(s, r, Len(r.mailbox), L, noise) /\ link[s]["phi"] # << >>
    BY <1>3, <1>6
  <2>2. CASE rt[s].phase = "collecting"
    <3> HIDE DEF r, L
    <3>1. r = enqueue(rt[s], Head(link[s]["phi"])) /\ L = received(s, "phi")
      BY DEF r, L
    <3>2. QED
      BY <1>2, <2>1, <2>2, <3>1, SyndromePostponesRequest
  <2>3. CASE rt[s].phase = "announcing"
    <3>1. link[s]["phi"] = <<req>> /\ Len(link[s]["phi"]) = 1 /\ Asking(s)
      <4>1. Asking(s)
        BY <1>1 DEF AboutSyndrome
      <4>2. link[s]["phi"] = <<req>>
        BY <2>1, <4>1 DEF Asking
      <4>3. QED
        BY <4>1, <4>2, Short
    <3>2. Head(link[s]["phi"]) = req /\ Tail(link[s]["phi"]) = << >>
      BY <3>1, Short
    <3> DEFINE h == one_if(holding(s))
    <3>3. h = 0 /\ ~holding(s)
      <4>1. requested[s] = data(s).step + 1 + h
            /\ requested[s] <= data(s).step + 1 /\ h \in {0, 1}
        BY <3>1 DEF Asking, one_if
      <4> HIDE DEF h
      <4>2. h = 0
        BY <1>1, <4>1
      <4>3. QED
        BY <4>2 DEF h, one_if
    <3>4. requested[s] = data(s).step + 1
      BY <1>1, <3>1, <3>3 DEF Asking
    <3>5. rt[s].mailbox = << >>
      BY <1>2, <3>3 DEF Running
    <3>6. /\ record(r) /\ r.phase = "announcing" /\ r.data = data(s)
          /\ r.mailbox = Append(<< >>, fresh(req))
      BY <1>1, <2>3, <3>2, <3>5, Enqueued DEF data
    <3>7. r.mailbox[Len(r.mailbox)].message = req
          /\ RemoveAt(r.mailbox, Len(r.mailbox)) = << >>
      <4> DEFINE b == << >>
                 q == Append(b, fresh(req))
      <4>1. b = << >> \/ \E e : b = <<e>>
        OBVIOUS
      <4> HIDE DEF b
      <4>2. q[Len(q)] = fresh(req) /\ RemoveAt(q, Len(q)) = b
        BY <4>1, LastOf
      <4>3. r.mailbox = q
        BY <3>6 DEF b
      <4> HIDE DEF q, r
      <4>4. QED
        BY <4>2, <4>3 DEF b, fresh
    <3>8. /\ L[s]["phi"] = << >> /\ outgoing(L, s)
          /\ \A y \in Senders : y # "phi" => L[s][y] = link[s][y]
      <4>1. formed(link)
        BY <1>1, Outgoing
      <4>2. L[s]["phi"] = << >>
        BY <1>1, <3>2, <4>1, Received, Others
      <4>3. outgoing(L, s)
        BY <1>1, Outgoing, Others
      <4>4. \A y \in Senders : y # "phi" => L[s][y] = link[s][y]
        BY <1>1, <4>1, Received, Others
      <4>5. QED
        BY <4>2, <4>3, <4>4
    <3> HIDE DEF L, r
    <3> DEFINE k == Len(r.mailbox)
    <3>9. finish_syndrome(s, r, k, L,
            SC!handle_cast(phenom_request(data(s).step), "announcing", data(s),
                           noise))
      BY <2>1, <3>6, <3>7 DEF turn_syndrome
    <3>10. RemoveAt(r.mailbox, k) = << >>
      BY <3>7
    <3> HIDE DEF k
    <3>11. QED
      BY <1>2, <2>3, <3>4, <3>6, <3>8, <3>9, <3>10, SyndromeReleasesResult
  <2>4. QED
    BY <1>1, <1>2, <2>2, <2>3 DEF AboutSyndrome, SyndromePhases, Running
<1>7. QED
  BY <1>4, <1>5, <1>6 DEF Senders
-----------------------------------------------------------------------------
(* Before a cell is connected.                                             *)
(* c becomes r.                                                            *)
LEMMA Replaced ==
  ASSUME IInv, NEW c \in Cells, NEW r, rt' = [rt EXCEPT ![c] = r]
  PROVE  /\ rt'[c] = r
         /\ rt' = [u \in Cells |-> rt'[u]]
         /\ \A u \in Cells : u # c => rt'[u] = rt[u]
BY Functions

(* An actor that is connected keeps its mailbox.                           *)
LEMMA Connects ==
  ASSUME NEW r, r = [lifecycle |-> r.lifecycle, phase |-> r.phase,
                     data |-> r.data, mailbox |-> r.mailbox]
  PROVE  [r EXCEPT !.lifecycle = "connected"]
           = [lifecycle |-> "connected", phase |-> r.phase, data |-> r.data,
              mailbox |-> r.mailbox]
<1> DEFINE n == [r EXCEPT !.lifecycle = "connected"]
<1>1. PICK l, f, d, q : r = [lifecycle |-> l, phase |-> f, data |-> d, mailbox |-> q]
  OBVIOUS
<1>2. /\ n \in [lifecycle : {"connected"}, phase : {f}, data : {d}, mailbox : {q}]
      /\ r.phase = f /\ r.data = d /\ r.mailbox = q
  BY <1>1
<1> HIDE DEF n
<1>3. n = [lifecycle |-> "connected", phase |-> f, data |-> d, mailbox |-> q]
  BY <1>2, RecordIs
<1>4. QED
  BY <1>2, <1>3 DEF n

(* A message joins the mailbox of an actor.                                *)
LEMMA Joins ==
  ASSUME NEW r, r = [lifecycle |-> r.lifecycle, phase |-> r.phase,
                     data |-> r.data, mailbox |-> r.mailbox], NEW m
  PROVE  enqueue(r, m)
           = [lifecycle |-> r.lifecycle, phase |-> r.phase, data |-> r.data,
              mailbox |-> Append(r.mailbox, fresh(m))]
<1> DEFINE v == Append(r.mailbox, fresh(m))
           n == [r EXCEPT !.mailbox = v]
<1>1. PICK l, f, d, q : r = [lifecycle |-> l, phase |-> f, data |-> d, mailbox |-> q]
  OBVIOUS
<1>2. enqueue(r, m) = n
  BY DEF enqueue, fresh
<1> HIDE DEF v
<1>3. /\ n \in [lifecycle : {l}, phase : {f}, data : {d}, mailbox : {v}]
      /\ r.lifecycle = l /\ r.phase = f /\ r.data = d
  BY <1>1
<1> HIDE DEF n
<1>4. n = [lifecycle |-> l, phase |-> f, data |-> d, mailbox |-> v]
  BY <1>3, RecordIs
<1>5. QED
  BY <1>2, <1>3, <1>4 DEF v

(* What is known of a cell before it is connected.                         *)
LEMMA Disconnected ==
  ASSUME IInv, NEW c \in Cells, rt[c].lifecycle = "disconnected"
  PROVE  /\ Configuring(c) /\ ~connected(rt[c]) /\ Typed(c)
         /\ data(c).step = 0 /\ data(c).seen_sources = {} /\ complete(c) = 0
         /\ \A p \in Ports : heard(c, p) = 0
         /\ ~all_connected(Cells)
<1>1. ~connected(rt[c])
  BY DEF connected
<1>2. Configuring(c)
  BY <1>1 DEF IInv, Stage, Arming, Running
<1>3. data(c).step = 0 /\ data(c).seen_sources = {}
  <2>1. data(c) = initial(c)
    BY <1>2 DEF Configuring, data
  <2>2. QED
    BY <2>1 DEF initial, SC!syndrome, DC!data_cell
<1>4. {} # Ports
  BY Numbers
<1>5. complete(c) = 0 /\ \A p \in Ports : heard(c, p) = 0
  BY <1>3, <1>4 DEF complete, heard, one_if
<1>6. ~all_connected(Cells)
  BY <1>1 DEF all_connected
<1>7. Typed(c)
  BY DEF IInv, Types, Typed
<1>8. QED
  BY <1>1, <1>2, <1>3, <1>5, <1>6, <1>7

(* Only its startup casts are on their way to it.                          *)
LEMMA OnlyHost ==
  ASSUME IInv, NEW c \in Cells, rt[c].lifecycle = "disconnected",
         NEW x \in Senders, link[c][x] # << >>
  PROVE  x = "host"
<1>1. /\ complete(c) = 0 /\ data(c).step = 0 /\ Configuring(c)
      /\ ~all_connected(Cells) /\ ~connected(rt[c])
      /\ \A p \in Ports : heard(c, p) = 0
  BY Disconnected
<1>2. CASE c \in Syndromes
  <2>1. AboutSyndrome(c)
    BY <1>2, SyndromeFacts
  <2>2. queried(c) = 0
    BY <1>1 DEF Configuring, queried
  <2>3. link[c]["phi"] = << >>
    <3>1. Asking(c)
      BY <2>1 DEF AboutSyndrome
    <3>2. requested[c] = 0
      BY <1>1, <3>1 DEF Asking
    <3>3. SUFFICES ASSUME link[c]["phi"] = <<phenom_request(data(c).step)>>
                   PROVE  FALSE
      BY <3>1 DEF Asking
    <3> DEFINE h == one_if(holding(c))
    <3>4. Len(link[c]["phi"]) = 1
      BY <3>3, Short
    <3>5. 0 = 0 + 1 + h /\ h \in Nat
      BY <1>1, <3>1, <3>2, <3>4 DEF Asking, one_if
    <3> HIDE DEF h
    <3>6. QED
      BY <3>5
  <2>4. ASSUME NEW p \in Ports PROVE link[c][data_at[c][p]] = << >>
    <3> DEFINE d == data_at[c][p]
               o == opposite[p]
    <3>1. Edge(c, p) /\ d \in Datas /\ o \in Ports
      BY <1>2, <2>1, Edges DEF AboutSyndrome
    <3>2. heard(d, o) \in Nat /\ complete(d) \in Nat /\ complete(d) <= heard(d, o)
      BY <3>1, DataFacts DEF heard, complete, one_if
    <3>3. heard(d, o) <= 0
      BY <2>2, <3>1 DEF Edge
    <3>4. complete(d) = 0
      <4> HIDE DEF d, o
      <4>1. QED
        BY <3>2, <3>3
    <3>5. QED
      BY <1>1, <3>1, <3>4 DEF Edge
  <2>5. CASE x \in Cells
    BY <2>1, <2>4, <2>5 DEF AboutSyndrome
  <2>6. QED
    BY <2>3, <2>5 DEF Senders
<1>3. CASE c \in Datas
  <2>1. AboutData(c)
    BY <1>3, DataFacts
  <2>2. ASSUME NEW p \in Ports PROVE link[c][syndrome_at[c][p]] = << >>
    <3> DEFINE s == syndrome_at[c][p]
               o == opposite[p]
    <3>1. /\ Edge(s, o) /\ s \in Syndromes /\ o \in Ports /\ s \in Cells
          /\ data_at[s][o] = c /\ opposite[o] = p
      BY <1>3, <2>1, DataEdges DEF AboutData
    <3>2. ~connected(rt[s])
      BY <1>1, <1>3, <3>1, SyndromeFacts DEF AboutSyndrome, SyndromePhases,
         all_connected
    <3>3. rt[s].lifecycle = "disconnected"
      BY <3>1, <3>2, SyndromeFacts DEF Typed, connected
    <3>4. queried(s) = 0
      BY <3>1, <3>3, Disconnected DEF Configuring, queried
    <3>5. heard(c, p) = 0
      BY <1>1
    <3>6. QED
      BY <3>1, <3>4, <3>5 DEF Edge
  <2>3. CASE x \in Cells
    BY <2>1, <2>2, <2>3 DEF AboutData
  <2>4. QED
    BY <2>1, <2>3 DEF Senders, AboutData
<1>4. QED
  BY <1>2, <1>3 DEF Cells

(* A step that leaves everything but the runtime and the links of one cell.*)
LEMMA OnlyRuntime ==
  ASSUME IInv, NEW c \in Cells, NEW r, rt' = [rt EXCEPT ![c] = r],
         connected(rt[c]) => connected(r), formed(link'),
         \A u \in Cells, v \in Senders : u # c => link'[u][v] = link[u][v],
         UNCHANGED <<announcements, errors, announced, replies>>,
         UNCHANGED Rest
  PROVE  /\ rt'[c] = r
         /\ c \in Syndromes => OnlySyndrome(c)
         /\ c \in Datas => OnlyData(c)
<1> USE DEF Rest
<1>1. /\ rt'[c] = r
      /\ rt' = [u \in Cells |-> rt'[u]]
      /\ \A u \in Cells : u # c => rt'[u] = rt[u]
  BY Replaced
<1>2. Globals
  BY CellByCell DEF About
<1>3. ASSUME c \in Syndromes PROVE OnlySyndrome(c)
  <2>1. c \in Senders
    BY Others
  <2>2. /\ announcements' = [t \in Syndromes |-> announcements'[t]]
        /\ announced' \in [Syndromes -> Seq(Bit)]
        /\ requested' \in [Syndromes -> Nat]
        /\ certified \subseteq certified' /\ certified' \subseteq Syndromes
    BY <1>2 DEF Globals
  <2>3. QED
    BY <1>1, <2>1, <2>2 DEF OnlySyndrome
<1>4. ASSUME c \in Datas PROVE OnlyData(c)
  <2>1. c \in Senders
    BY Others
  <2>2. /\ replies' \in [Datas -> Seq(Reply)]
        /\ errors' \in [Datas -> Seq(Bit)]
        /\ Len(errors[c]) <= Len(errors'[c])
        /\ \A n \in 1 .. Len(errors[c]) : errors'[c][n] = errors[c][n]
        /\ updates' \in [Datas -> Nat]
    <3>1. Len(errors[c]) \in Nat
      BY <1>2, <1>4 DEF Globals
    <3>2. QED
      BY <1>2, <3>1 DEF Globals
  <2>3. QED
    BY <1>1, <2>1, <2>2 DEF OnlyData
<1>5. QED
  BY <1>1, <1>3, <1>4

(* The call that connects a cell follows its startup casts.                *)
LEMMA SyndromeConnects ==
  ASSUME IInv, NEW s \in Syndromes, connect(s), UNCHANGED Rest
  PROVE  IInv'
<1> DEFINE r == [rt[s] EXCEPT !.lifecycle = "connected"]
<1>1. /\ s \in Cells /\ AboutSyndrome(s) /\ Typed(s) /\ formed(link)
      /\ rt[s].lifecycle = "disconnected" /\ link[s]["host"] = << >>
      /\ all_connected(Datas) /\ rt' = [rt EXCEPT ![s] = r]
      /\ data(s) \in SyndromeData
      /\ UNCHANGED <<link, announcements, errors, announced, replies>>
  BY SyndromeFacts, Outgoing, Others DEF connect
<1>2. Configuring(s)
  BY <1>1, Disconnected
<1>3. r = [lifecycle |-> "connected", phase |-> rt[s].phase,
           data |-> rt[s].data, mailbox |-> rt[s].mailbox]
  BY <1>1, Connects DEF Typed
<1> HIDE DEF r
<1>4. connected(r)
  BY <1>3 DEF connected
<1>5. OnlySyndrome(s) /\ rt'[s] = r
  BY <1>1, <1>4, OnlyRuntime
<1>6. /\ rt'[s].phase = rt[s].phase /\ rt'[s].mailbox = rt[s].mailbox
      /\ data(s)' = data(s) /\ connected(rt'[s]) /\ Typed(s)'
      /\ rt'[s].lifecycle = "connected"
  BY <1>3, <1>4, <1>5 DEF data, Typed
<1>7. SameRound(s)
  BY <1>1, <1>5, <1>6 DEF SameRound
<1>8. SyndromePhases(s)'
  <2>1. all_connected(Datas)'
    BY <1>1, <1>5, Others DEF all_connected, OnlySyndrome
  <2>2. SyndromePhases(s)
    BY <1>1 DEF AboutSyndrome
  <2>3. QED
    BY <1>1, <1>6, <2>1, <2>2 DEF SyndromePhases
<1>9. Stage(s)'
  <2>1. rt[s].mailbox = <<fresh(phenom_config), fresh(noise_cutoff(first_quiet))>>
    <3>1. configuration # << >> /\ <<noise_cutoff(first_quiet)>> # << >>
      BY DEF configuration
    <3>2. QED
      BY <1>1, <1>2, <3>1 DEF Configuring
  <2>2. first_quiet' = first_quiet
    BY DEF Rest
  <2>3. Configuring(s)'
    BY <1>2, <1>6, <2>1, <2>2 DEF Configuring, data
  <2>4. QED
    BY <2>3 DEF Stage
<1>10. holding(s)' <=> holding(s)
  BY <1>6 DEF holding, asked_for
<1>11. /\ Len(link'[s]["phi"]) + one_if(holding(s)')
             = Len(link[s]["phi"]) + one_if(holding(s))
       /\ link'[s]["phi"] = link[s]["phi"]
       /\ requested' = requested /\ certified' = certified
       /\ (data(s) \in SyndromeData)'
  BY <1>1, <1>6, <1>10 DEF one_if, Rest
<1>12. QED
  BY <1>6, <1>7, <1>8, <1>9, <1>11, SyndromeSame

(* The next startup cast reaches a cell that is not connected.             *)
admits_startup(c, m, n) ==
  /\ \A u \in Cells, v \in Senders :
       u # c \/ v # "host" => link'[u][v] = link[u][v]
  /\ formed(link')
  /\ rt' = [rt EXCEPT ![c] = enqueue(rt[c], m)]
  /\ \/ /\ rt[c].mailbox = << >> /\ m = phenom_config
        /\ link'[c]["host"] = <<noise_cutoff(n)>>
     \/ /\ rt[c].mailbox = <<fresh(phenom_config)>> /\ m = noise_cutoff(n)
        /\ link'[c]["host"] = << >>

(* Before that a cell takes only the host's startup messages,              *)
LEMMA AdmitsStartup ==
  ASSUME IInv, NEW c \in Cells, admit_disconnected(c)
  PROVE  \E m : admits_startup(c, m, first_quiet)
<1>1. /\ rt[c].lifecycle = "disconnected" /\ Configuring(c) /\ formed(link)
  BY Disconnected, Outgoing DEF admit_disconnected
<1>2. /\ link[c]["host"] # << >>
      /\ link' = received(c, "host")
      /\ rt' = [rt EXCEPT ![c] =
                  IF full(rt[c]) THEN stop(rt[c])
                  ELSE enqueue(rt[c], Head(link[c]["host"]))]
  <2>1. PICK x \in Senders :
          /\ link[c][x] # << >>
          /\ link' = received(c, x)
          /\ rt' = [rt EXCEPT ![c] = IF full(@) THEN stop(@)
                                     ELSE enqueue(@, Head(link[c][x]))]
    BY DEF admit_disconnected
  <2>2. x = "host"
    BY <1>1, <2>1, OnlyHost
  <2>3. QED
    BY <2>1, <2>2, Functions
<1>3. /\ formed(link') /\ link'[c]["host"] = Tail(link[c]["host"])
      /\ \A u \in Cells, v \in Senders :
           u # c \/ v # "host" => link'[u][v] = link[u][v]
  BY <1>1, <1>2, Received, Others
<1> DEFINE k == Len(rt[c].mailbox)
           cut == noise_cutoff(first_quiet)
<1>4. ASSUME k < 2 /\ k \in Nat
      PROVE rt' = [rt EXCEPT ![c] = enqueue(rt[c], Head(link[c]["host"]))]
  <2> HIDE DEF k
  <2>1. ~(k >= MailboxCapacity)
    BY <1>4, Numbers
  <2>2. ~full(rt[c])
    BY <2>1 DEF full, k
  <2>3. QED
    BY <1>2, <2>2
<1>5. CASE rt[c].mailbox = << >> /\ link[c]["host"] = configuration
  <2>1. k = 0
    BY <1>5
  <2> HIDE DEF cut
  <2>2. Head(link[c]["host"]) = phenom_config /\ Tail(link[c]["host"]) = <<cut>>
    <3> DEFINE a == phenom_config
    <3>1. link[c]["host"] = <<a, cut>>
      BY <1>5 DEF configuration, cut
    <3> HIDE DEF a
    <3>2. Head(link[c]["host"]) = a /\ Tail(link[c]["host"]) = <<cut>>
      BY <3>1, Short
    <3>3. QED
      BY <3>2 DEF a
  <2>3. admits_startup(c, phenom_config, first_quiet)
    BY <1>3, <1>4, <1>5, <2>1, <2>2 DEF admits_startup, cut
  <2>4. QED
    BY <2>3
<1>6. CASE rt[c].mailbox = <<fresh(phenom_config)>> /\ link[c]["host"] = <<cut>>
  <2>1. k = 1
    BY <1>6, Short
  <2> HIDE DEF cut
  <2>2. Head(link[c]["host"]) = cut /\ Tail(link[c]["host"]) = << >>
    BY <1>6, Short
  <2>3. admits_startup(c, cut, first_quiet)
    BY <1>3, <1>4, <1>6, <2>1, <2>2 DEF admits_startup, cut
  <2>4. QED
    BY <2>3
<1>7. QED
  BY <1>1, <1>2, <1>5, <1>6 DEF Configuring

(* which it leaves in its mailbox.                                         *)
LEMMA StillConfiguring ==
  ASSUME IInv, NEW c \in Cells, rt[c].lifecycle = "disconnected", NEW m,
         admits_startup(c, m, first_quiet), first_quiet' = first_quiet
  PROVE  /\ Configuring(c)' /\ rt'[c].phase = rt[c].phase /\ data(c)' = data(c)
         /\ rt'[c].lifecycle = "disconnected" /\ Typed(c)'
         /\ rt'[c] = enqueue(rt[c], m)
         /\ c \in Syndromes => ~holding(c) /\ ~holding(c)'
<1> DEFINE cut == noise_cutoff(first_quiet)
<1>1. Configuring(c) /\ Typed(c)
  BY Disconnected
<1>2. rt'[c] = enqueue(rt[c], m)
  <2> DEFINE e == enqueue(rt[c], m)
  <2>1. rt' = [rt EXCEPT ![c] = e]
    BY DEF admits_startup
  <2> HIDE DEF e
  <2>2. rt'[c] = e
    BY <2>1, Replaced
  <2>3. QED
    BY <2>2 DEF e
<1>3. rt'[c] = [lifecycle |-> "disconnected", phase |-> rt[c].phase,
                data |-> rt[c].data, mailbox |-> Append(rt[c].mailbox, fresh(m))]
  BY <1>1, <1>2, Joins DEF Typed
<1>4. /\ rt'[c].phase = rt[c].phase /\ rt'[c].data = rt[c].data
      /\ rt'[c].lifecycle = "disconnected"
      /\ rt'[c].mailbox = Append(rt[c].mailbox, fresh(m)) /\ Typed(c)'
  BY <1>3 DEF Typed
<1>5. CASE /\ rt[c].mailbox = << >> /\ m = phenom_config
           /\ link'[c]["host"] = <<cut>>
  <2>1. rt'[c].mailbox = <<fresh(phenom_config)>>
    BY <1>4, <1>5, Short
  <2>2. Configuring(c)'
    BY <1>1, <1>4, <1>5, <2>1 DEF Configuring, initial
  <2>3. ~holding(c) /\ ~holding(c)'
    <3>1. rt'[c].mailbox[1].message.tag = "phenom_config"
      BY <2>1 DEF fresh, phenom_config
    <3>2. <<asked_for(c)>>'[1].message.tag = "phenom_request"
      BY DEF asked_for, phenom_request
    <3>3. << >> # <<asked_for(c)>>
      OBVIOUS
    <3>4. QED
      BY <1>5, <3>1, <3>2, <3>3 DEF holding
  <2>4. QED
    BY <1>2, <1>4, <2>2, <2>3 DEF data
<1>6. CASE /\ rt[c].mailbox = <<fresh(phenom_config)>> /\ m = cut
           /\ link'[c]["host"] = << >>
  <2>1. rt'[c].mailbox = <<fresh(phenom_config), fresh(cut)>>
    <3> DEFINE a == fresh(phenom_config)
               b == fresh(cut)
    <3>1. rt'[c].mailbox = Append(<<a>>, b)
      BY <1>4, <1>6
    <3> HIDE DEF a, b
    <3>2. rt'[c].mailbox = <<a, b>>
      BY <3>1, Short
    <3>3. QED
      BY <3>2 DEF a, b
  <2>2. Configuring(c)'
    BY <1>1, <1>4, <1>6, <2>1 DEF Configuring, initial
  <2>3. ~holding(c) /\ ~holding(c)'
    <3>1. rt[c].mailbox[1].message.tag = "phenom_config"
          /\ rt'[c].mailbox[1].message.tag = "phenom_config"
      BY <1>6, <2>1 DEF fresh, phenom_config
    <3>2. <<asked_for(c)>>'[1].message.tag = "phenom_request"
          /\ <<asked_for(c)>>[1].message.tag = "phenom_request"
      BY DEF asked_for, phenom_request
    <3>3. QED
      BY <3>1, <3>2 DEF holding
  <2>4. QED
    BY <1>2, <1>4, <2>2, <2>3 DEF data
<1>7. QED
  BY <1>5, <1>6 DEF admits_startup

(* Taking one at a syndrome keeps the invariant.                           *)
LEMMA SyndromeQueues ==
  ASSUME IInv, NEW s \in Syndromes, admit_disconnected(s), UNCHANGED Rest
  PROVE  IInv'
<1>1. /\ s \in Cells /\ AboutSyndrome(s) /\ data(s) \in SyndromeData
      /\ rt[s].lifecycle = "disconnected" /\ ~connected(rt[s])
      /\ UNCHANGED <<announcements, errors, announced, replies>>
  BY SyndromeFacts, Others, Disconnected DEF admit_disconnected
<1>2. PICK m : admits_startup(s, m, first_quiet)
  BY <1>1, AdmitsStartup
<1>3. /\ Configuring(s)' /\ rt'[s].phase = rt[s].phase /\ data(s)' = data(s)
      /\ rt'[s].lifecycle = "disconnected" /\ Typed(s)'
      /\ ~holding(s) /\ ~holding(s)'
  BY <1>1, <1>2, StillConfiguring DEF Rest
<1>4. OnlySyndrome(s)
  <2> DEFINE e == enqueue(rt[s], m)
  <2>1. /\ rt' = [rt EXCEPT ![s] = e] /\ formed(link')
        /\ \A u \in Cells, v \in Senders : u # s => link'[u][v] = link[u][v]
    BY <1>2 DEF admits_startup
  <2> HIDE DEF e
  <2>2. QED
    BY <1>1, <2>1, OnlyRuntime
<1>5. /\ \A x \in Cells : link'[s][x] = link[s][x]
      /\ link'[s]["phi"] = link[s]["phi"]
      /\ \A p \in Ports : link'[data_at[s][p]][s] = link[data_at[s][p]][s]
  BY <1>1, <1>2, Edges, Others DEF admits_startup
<1>6. SameRound(s)
  BY <1>1, <1>3, <1>4, <1>5 DEF SameRound
<1>7. SyndromePhases(s)'
  <2>1. SyndromePhases(s)
    BY <1>1 DEF AboutSyndrome
  <2>2. QED
    BY <1>3, <2>1 DEF SyndromePhases, connected
<1>8. Stage(s)'
  BY <1>3 DEF Stage
<1>9. /\ Len(link'[s]["phi"]) + one_if(holding(s)')
            = Len(link[s]["phi"]) + one_if(holding(s))
      /\ requested' = requested /\ certified' = certified
      /\ (data(s) \in SyndromeData)'
  BY <1>1, <1>3, <1>5 DEF one_if, Rest
<1>10. QED
  BY <1>3, <1>5, <1>6, <1>7, <1>8, <1>9, SyndromeSame
-----------------------------------------------------------------------------
(* The turns of a data cell.                                               *)
turn_data(d, r, k, L, noise) ==
  finish_data(d, r, k, L,
    DC!handle_cast(r.mailbox[k].message, r.phase, r.data, noise))

(* A step that moves in no round: the edges of the cell stay.              *)
SameSources(d) ==
  /\ OnlyData(d)
  /\ data(d)'.step = data(d).step
  /\ data(d)'.seen_sources = data(d).seen_sources
  /\ errors' = errors
  /\ \A x \in Cells \cup {"phi"} : link'[d][x] = link[d][x]
  /\ \A p \in Ports : link'[syndrome_at[d][p]][d] = link[syndrome_at[d][p]][d]

(* A step of a data cell that counts no query keeps the invariant if it    *)
(* keeps the cell's own part.                                              *)
LEMMA DataSame ==
  ASSUME IInv, NEW d \in Datas, SameSources(d), (data(d) \in DataData)',
         Typed(d)', DataPhases(d)', Stage(d)', Hosted(d)'
  PROVE  IInv'
<1>1. AboutData(d) /\ OnlyData(d)
  BY DataFacts DEF SameSources
<1>2. \A p \in Ports : Edge(syndrome_at[d][p], opposite[p])'
  <2> TAKE p \in Ports
  <2> DEFINE s == syndrome_at[d][p]
             o == opposite[p]
  <2>1. /\ s \in Syndromes /\ o \in Ports /\ data_at[s][o] = d
        /\ opposite[o] = p /\ s \in Cells /\ s # d
    BY DataEdges
  <2>2. Edge(s, o)
    BY <1>1 DEF AboutData
  <2>3. rt'[s] = rt[s] /\ errors' = errors /\ first_quiet' = first_quiet
    BY <1>1, <2>1 DEF OnlyData, SameSources
  <2>4. heard(s, o)' = heard(s, o) /\ queried(s)' = queried(s)
    BY <2>3 DEF heard, queried, data
  <2>5. heard(d, p)' = heard(d, p) /\ complete(d)' = complete(d)
    BY DEF SameSources, heard, complete
  <2>6. report(d, heard(s, o), o)' = report(d, heard(s, o), o)
    BY <2>3, <2>4 DEF report, error, quiet
  <2>7. link'[d][s] = link[d][s] /\ link'[s][d] = link[s][d]
    BY <2>1 DEF SameSources
  <2> HIDE DEF s, o
  <2>8. Edge(s, o)'
    BY <2>1, <2>2, <2>4, <2>5, <2>6, <2>7 DEF Edge
  <2>9. QED
    BY <2>8 DEF s, o
<1>3. /\ \A x \in Cells :
           (\A p \in Ports : syndrome_at[d][p] # x) => link'[d][x] = << >>
      /\ link'[d]["phi"] = << >>
  BY <1>1 DEF AboutData, SameSources
<1>4. QED
  BY <1>1, <1>2, <1>3, DataStep DEF AboutData

(* Nothing that concerns the host happens.                                 *)
LEMMA HostedSame ==
  ASSUME IInv, NEW d \in Datas, connected(rt'[d]) <=> connected(rt[d]),
         complete(d)' = complete(d), UNCHANGED <<errors, replies, asked, updates>>,
         first_quiet' = first_quiet,
         link'[d]["host"] = link[d]["host"] \/ ~connected(rt[d]),
         data(d)'.accumulated_pauli = data(d).accumulated_pauli
  PROVE  Hosted(d)'
<1>1. Hosted(d)
  BY DEF IInv
<1>2. (parity(errors[d]))' = parity(errors[d])
  OBVIOUS
<1>3. (\A n \in Nat : n >= first_quiet /\ n < complete(d) => error(d, n) = 0)'
  BY <1>1 DEF Hosted, error
<1>4. \A k \in DOMAIN replies[d] : answer(d, k)' = answer(d, k)
  BY DEF answer
<1>5. CASE connected(rt[d])
  <2>1. pending(d)' = pending(d)
    BY <1>5 DEF pending, unanswered
  <2>2. QED
    BY <1>1, <1>3, <1>4, <1>5, <2>1 DEF Hosted
<1>6. CASE ~connected(rt[d])
  BY <1>1, <1>3, <1>4, <1>6 DEF Hosted
<1>7. QED
  BY <1>5, <1>6

(* A turn that casts nothing on the ports.                                 *)
LEMMA QuietTurn ==
  ASSUME IInv, NEW d \in Datas, NEW phase, NEW e, NEW mailbox,
         Becomes(d, phase, e, mailbox), NEW L, outgoing(L, d), link' = L,
         replies' \in [Datas -> Seq(Reply)],
         \A u \in Datas : u # d => replies'[u] = replies[u],
         UNCHANGED <<announcements, announced, errors>>, UNCHANGED Rest
  PROVE  /\ OnlyData(d)
         /\ \A x \in Senders : link'[d][x] = L[d][x]
         /\ \A p \in Ports :
              link'[syndrome_at[d][p]][d] = link[syndrome_at[d][p]][d]
<1> USE DEF Rest
<1>1. d \in Cells /\ d \in Senders /\ Globals
  BY Others, CellByCell DEF About
<1>2. /\ rt' = [u \in Cells |-> rt'[u]]
      /\ \A u \in Cells : u # d => rt'[u] = rt[u]
      /\ connected(rt'[d])
  BY <1>1, Became
<1>3. /\ errors' \in [Datas -> Seq(Bit)]
      /\ Len(errors[d]) <= Len(errors'[d])
      /\ \A n \in 1 .. Len(errors[d]) : errors'[d][n] = errors[d][n]
      /\ updates' \in [Datas -> Nat]
  <2>1. Len(errors[d]) \in Nat
    BY <1>1 DEF Globals
  <2>2. QED
    BY <1>1, <2>1 DEF Globals
<1>4. OnlyData(d)
  BY <1>1, <1>2, <1>3 DEF OnlyData, outgoing
<1>5. \A p \in Ports :
        link'[syndrome_at[d][p]][d] = link[syndrome_at[d][p]][d]
  BY <1>1, DataEdges DEF outgoing
<1>6. QED
  BY <1>4, <1>5

(* A data cell that runs has an empty mailbox.                             *)
LEMMA DataMailbox ==
  ASSUME NEW d \in Datas, Running(d)
  PROVE  rt[d].mailbox = << >>
BY DataEdges, NoiseMeshAssumption DEF Running, holding

(* The configuration, and the cutoff after it.                             *)
LEMMA DataStarts ==
  ASSUME IInv, NEW d \in Datas, Configuring(d), connected(rt[d]), NEW noise,
         turn_data(d, rt[d], 1, link, noise), UNCHANGED Rest
  PROVE  IInv'
<1> DEFINE r == rt[d]
           q == [DC!data_cell EXCEPT !.accumulated_pauli = DC!i]
           late == noise_cutoff(first_quiet)
<1>1. /\ first_quiet \in Nat /\ record(r) /\ AboutData(d) /\ Globals
      /\ d \notin Syndromes /\ d \in Cells
  BY DataFacts, Others, NoiseMeshAssumption DEF Globals
<1>2. /\ r.phase = "configuring" /\ r.data = DC!data_cell
      /\ r.mailbox = <<fresh(phenom_config), fresh(late)>>
      /\ r.mailbox[1].message = phenom_config
  <2>1. r.data = DC!data_cell /\ r.phase = "configuring"
    BY <1>1 DEF Configuring, initial
  <2>2. r.mailbox = <<fresh(phenom_config), fresh(late)>>
    BY DEF Configuring, connected
  <2>3. r.mailbox[1] = fresh(phenom_config)
    BY <2>2
  <2>4. QED
    BY <2>1, <2>2, <2>3 DEF fresh
<1>3. DC!handle_cast(phenom_config, "configuring", DC!data_cell, noise)
        = DC!conclude("collecting", q, "consume")
  BY DataConfigures
<1>4. /\ q \in DataData /\ q.step = 0 /\ q.seen_sources = {}
      /\ q.noise_disabled = 0 /\ q.cutoff_armed = 0
      /\ data(d).step = 0 /\ data(d).seen_sources = {}
      /\ q.accumulated_pauli = data(d).accumulated_pauli
  BY <1>2 DEF DC!data_cell, DC!i, DataData, Bit, data
<1> HIDE DEF q, late
<1>5. released(RemoveAt(r.mailbox, 1)) = <<fresh(late)>>
  <2> DEFINE a == fresh(phenom_config)
             b == fresh(late)
  <2> HIDE DEF a, b, r
  <2>1. RemoveAt(<<a, b>>, 1) = <<b>>
    BY ShortRemoval
  <2>2. r.mailbox = <<a, b>>
    BY <1>2 DEF a, b
  <2>3. released(<<fresh(late)>>) = <<fresh(late)>>
    BY ShortRelease DEF fresh
  <2>4. QED
    BY <2>1, <2>2, <2>3 DEF b
<1> HIDE DEF r
<1>6. /\ Becomes(d, "collecting", q, <<fresh(late)>>)
      /\ link' = link /\ replies' = replies
      /\ UNCHANGED <<announcements, announced, errors>>
  <2> DEFINE phase == "collecting"
             concl == DC!conclude("collecting", q, "consume")
  <2>1. /\ phase = "collecting" /\ q = concl.data
        /\ enters(r, concl, phase) /\ concl.directive = "consume"
    BY <1>2 DEF DC!conclude, enters
  <2>2. finish_data(d, r, 1, link, concl)
    BY <1>2, <1>3 DEF turn_data, r
  <2> HIDE DEF phase, concl
  <2>3. outgoing(link, d)
    BY <1>1, Outgoing
  <2>4. data_enters(d, r, 1, link, phase, q)
    BY <1>1, <2>1, <2>2, <2>3, DataMoves
  <2>5. link' = link
    BY <2>1, <2>3, <2>4, DataEntersSilently DEF data_enters
  <2>6. replies' = replies
    <3>1. DC!handle_enter(phase, q)["measurement"] = << >>
      BY <2>1, DataCasts
    <3>2. replies[d] \in Seq(Reply)
      BY <1>1 DEF Globals
    <3>3. replies[d] \o << >> = replies[d]
      BY <3>2
    <3>4. QED
      BY <2>4, <3>1, <3>3, Functions DEF data_enters
  <2>7. errors' = errors
    BY <2>1, <2>4, Functions DEF data_enters
  <2>8. QED
    BY <1>5, <2>1, <2>4, <2>5, <2>6, <2>7 DEF data_enters
<1>7. /\ OnlyData(d)
      /\ \A x \in Senders : link'[d][x] = link[d][x]
      /\ \A p \in Ports :
           link'[syndrome_at[d][p]][d] = link[syndrome_at[d][p]][d]
  <2>1. outgoing(link, d)
    BY <1>1, Outgoing
  <2>2. replies' \in [Datas -> Seq(Reply)]
    BY <1>1, <1>6 DEF Globals
  <2> DEFINE phase == "collecting"
             b == <<fresh(late)>>
  <2>3. Becomes(d, phase, q, b)
    BY <1>6
  <2> HIDE DEF phase, b
  <2>4. QED
    BY <1>6, <2>1, <2>2, <2>3, QuietTurn
<1>8. /\ rt'[d].lifecycle = "connected" /\ connected(rt'[d])
      /\ rt'[d].phase = "collecting" /\ rt'[d].mailbox = <<fresh(late)>>
      /\ data(d)' = q /\ Typed(d)'
  <2> DEFINE phase == "collecting"
             b == <<fresh(late)>>
  <2>1. Becomes(d, phase, q, b)
    BY <1>6
  <2> HIDE DEF phase, b
  <2>2. /\ rt'[d].lifecycle = "connected" /\ connected(rt'[d])
        /\ rt'[d].phase = phase /\ rt'[d].mailbox = b
        /\ data(d)' = q /\ Typed(d)'
    BY <1>1, <2>1, Became
  <2>3. QED
    BY <2>2 DEF phase, b
<1>9. SameSources(d)
  BY <1>1, <1>4, <1>6, <1>7, <1>8, Others DEF SameSources
<1>10. DataPhases(d)'
  BY <1>4, <1>8, Numbers DEF DataPhases
<1>11. Stage(d)'
  <2>1. first_quiet' = first_quiet
    BY DEF Rest
  <2>2. Arming(d)'
    BY <1>4, <1>8, <2>1 DEF Arming, late
  <2>3. QED
    BY <2>2 DEF Stage
<1>12. Hosted(d)'
  <2>1. complete(d)' = complete(d)
    BY <1>4, <1>8 DEF complete
  <2>2. /\ UNCHANGED <<errors, replies, asked, updates>>
        /\ first_quiet' = first_quiet
        /\ link'[d]["host"] = link[d]["host"]
    BY <1>6 DEF Rest
  <2>3. data(d)'.accumulated_pauli = data(d).accumulated_pauli
    BY <1>4, <1>8
  <2>4. QED
    BY <1>8, <2>1, <2>2, <2>3, HostedSame
<1>13. QED
  BY <1>4, <1>8, <1>9, <1>10, <1>11, <1>12, DataSame

(* A data cell after a turn that does not leave the phase and casts        *)
(* nothing.                                                                *)
quiet_turn(d, phase, e, mailbox, L) ==
  /\ OnlyData(d)
  /\ \A x \in Senders : link'[d][x] = L[d][x]
  /\ \A p \in Ports :
       link'[syndrome_at[d][p]][d] = link[syndrome_at[d][p]][d]
  /\ rt'[d].lifecycle = "connected" /\ connected(rt'[d])
  /\ rt'[d].phase = phase /\ rt'[d].mailbox = mailbox
  /\ data(d)' = e /\ Typed(d)'
  /\ link' = L
  /\ UNCHANGED <<announcements, announced, errors, replies>>

(* A turn of a data cell that repeats nothing and stays in its phase       *)
(* casts nothing.                                                          *)
LEMMA DataTurns ==
  ASSUME IInv, NEW d \in Datas, NEW r, record(r), NEW k, NEW L,
         outgoing(L, d), NEW phase, phase # "repeat_phase", r.phase = phase,
         NEW e, NEW mailbox, RemoveAt(r.mailbox, k) = mailbox,
         finish_data(d, r, k, L, DC!conclude(phase, e, "consume")),
         UNCHANGED Rest
  PROVE  quiet_turn(d, phase, e, mailbox, L)
<1> DEFINE concl == DC!conclude(phase, e, "consume")
<1>1. /\ concl.phase = r.phase /\ concl.directive = "consume" /\ concl.data = e
      /\ r.phase # "repeat_phase"
  BY DEF DC!conclude
<1>2. finish_data(d, r, k, L, concl)
  OBVIOUS
<1> HIDE DEF concl
<1>3. /\ Becomes(d, r.phase, concl.data, RemoveAt(r.mailbox, k))
      /\ link' = L
      /\ UNCHANGED <<announcements, announced, errors, replies>>
  BY <1>1, <1>2, DataStays
<1>4. Becomes(d, phase, e, mailbox) /\ d \in Cells
  BY <1>1, <1>3, Others
<1>5. /\ replies' \in [Datas -> Seq(Reply)]
      /\ \A u \in Datas : u # d => replies'[u] = replies[u]
  BY <1>3, CellByCell DEF About, Globals
<1>6. /\ OnlyData(d)
      /\ \A x \in Senders : link'[d][x] = L[d][x]
      /\ \A p \in Ports :
           link'[syndrome_at[d][p]][d] = link[syndrome_at[d][p]][d]
  BY <1>3, <1>4, <1>5, QuietTurn
<1>7. /\ rt'[d].lifecycle = "connected" /\ connected(rt'[d])
      /\ rt'[d].phase = phase /\ rt'[d].mailbox = mailbox
      /\ data(d)' = e /\ Typed(d)'
  BY <1>4, Became
<1>8. QED
  BY <1>3, <1>6, <1>7 DEF quiet_turn

(* It stores the cutoff.                                                   *)
LEMMA DataArmsCutoff ==
  ASSUME IInv, NEW d \in Datas, Arming(d), NEW noise,
         turn_data(d, rt[d], 1, link, noise), UNCHANGED Rest
  PROVE  IInv'
<1> DEFINE r == rt[d]
           e == armed_with(data(d), first_quiet)
           phase == "collecting"
           k == 1
           mailbox == << >>
<1>1. /\ connected(r) /\ r.phase = "collecting" /\ r.data = data(d)
      /\ r.mailbox = <<fresh(noise_cutoff(first_quiet))>>
      /\ data(d).step = 0 /\ data(d).seen_sources = {}
      /\ data(d).noise_disabled = 0 /\ data(d).cutoff_armed = 0
      /\ r.mailbox[1].message = noise_cutoff(first_quiet)
  BY DEF Arming, data, fresh
<1>2. /\ data(d) \in DataData /\ first_quiet \in Nat /\ record(r)
      /\ AboutData(d) /\ Globals /\ complete(d) \in Nat /\ d \in Cells
      /\ d \notin Syndromes
  BY <1>1, DataFacts, Others, NoiseMeshAssumption
<1>3. DC!handle_cast(noise_cutoff(first_quiet), "collecting", data(d), noise)
        = DC!conclude("collecting", e, "consume")
  <2>1. first_quiet >= data(d).step
    BY <1>1, <1>2
  <2>2. QED
    BY <1>1, <2>1, DataArms
<1>4. finish_data(d, r, k, link, DC!conclude(phase, e, "consume"))
  BY <1>1, <1>3 DEF turn_data
<1>5. /\ e.step = data(d).step /\ e.seen_sources = data(d).seen_sources
      /\ e.cutoff_armed = 1 /\ e.cutoff_step = first_quiet
      /\ e.noise_disabled = 0 /\ e \in DataData
      /\ e.accumulated_pauli = data(d).accumulated_pauli
  <2> DEFINE q == data(d)
             n == first_quiet
  <2>1. q \in DataData /\ n \in Nat
    BY <1>2
  <2> HIDE DEF q, n
  <2>2. LET v == armed_with(q, n)
        IN  /\ v \in DataData
            /\ v.step = q.step /\ v.seen_sources = q.seen_sources
            /\ v.noise_disabled = q.noise_disabled
            /\ v.cutoff_armed = 1 /\ v.cutoff_step = n
            /\ v.accumulated_pauli = q.accumulated_pauli
    BY <2>1, DataArmed
  <2>3. QED
    BY <1>1, <2>2 DEF q, n
<1>6. RemoveAt(r.mailbox, k) = mailbox
  <2> DEFINE a == fresh(noise_cutoff(first_quiet))
  <2> HIDE DEF a
  <2>1. RemoveAt(<<a>>, 1) = << >>
    BY ShortRemoval
  <2>2. QED
    BY <1>1, <2>1 DEF a
<1>7. /\ phase = "collecting" /\ r.phase = phase /\ phase # "repeat_phase"
      /\ mailbox = << >> /\ outgoing(link, d)
  BY <1>1, <1>2, Outgoing
<1> HIDE DEF r, e, phase, k, mailbox
<1>8. quiet_turn(d, phase, e, mailbox, link)
  BY <1>2, <1>4, <1>6, <1>7, DataTurns
<1>9. SameSources(d)
  BY <1>5, <1>8, Others DEF quiet_turn, SameSources
<1>10. complete(d)' = complete(d) /\ complete(d)' = 0
  <2>1. {} # Ports
    BY Numbers
  <2>2. QED
    BY <1>1, <1>5, <1>8, <2>1 DEF complete, one_if, quiet_turn
<1>11. DataPhases(d)'
  <2>1. {} # Ports
    BY Numbers
  <2>2. QED
    BY <1>1, <1>5, <1>7, <1>8, <2>1 DEF DataPhases, quiet_turn
<1>12. Stage(d)'
  <2>1. first_quiet' = first_quiet
    BY DEF Rest
  <2>2. /\ one_if(complete(d) > first_quiet)' = 0
        /\ one_if(complete(d) <= first_quiet)' = 1
    BY <1>2, <1>10, <2>1 DEF one_if
  <2>3. Running(d)'
    BY <1>5, <1>7, <1>8, <2>1, <2>2 DEF Running, quiet_turn
  <2>4. QED
    BY <2>3 DEF Stage
<1>13. Hosted(d)'
  <2>1. /\ UNCHANGED <<errors, replies, asked, updates>>
        /\ first_quiet' = first_quiet
        /\ link'[d]["host"] = link[d]["host"]
        /\ connected(rt'[d]) /\ connected(rt[d])
        /\ data(d)'.accumulated_pauli = data(d).accumulated_pauli
    BY <1>1, <1>5, <1>8 DEF Rest, quiet_turn, r
  <2>2. QED
    BY <1>10, <2>1, HostedSame
<1>14. Typed(d)' /\ (data(d) \in DataData)'
  BY <1>5, <1>8 DEF quiet_turn
<1>15. QED
  BY <1>9, <1>11, <1>12, <1>13, <1>14, DataSame

(* The call that connects it, before the host has sent anything.           *)
LEMMA DataConnects ==
  ASSUME IInv, NEW d \in Datas, connect(d), UNCHANGED Rest
  PROVE  IInv'
<1> DEFINE r == [rt[d] EXCEPT !.lifecycle = "connected"]
<1>1. /\ d \in Cells /\ AboutData(d) /\ Typed(d) /\ formed(link)
      /\ rt[d].lifecycle = "disconnected" /\ link[d]["host"] = << >>
      /\ rt' = [rt EXCEPT ![d] = r]
      /\ data(d) \in DataData /\ first_quiet \in Nat
      /\ UNCHANGED <<link, announcements, errors, announced, replies>>
      /\ d \notin Syndromes
  BY DataFacts, Outgoing, Others, NoiseMeshAssumption DEF connect
<1>2. Configuring(d) /\ complete(d) = 0 /\ ~connected(rt[d])
  BY <1>1, Disconnected
<1>3. r = [lifecycle |-> "connected", phase |-> rt[d].phase,
           data |-> rt[d].data, mailbox |-> rt[d].mailbox]
  BY <1>1, Connects DEF Typed
<1> HIDE DEF r
<1>4. connected(r)
  BY <1>3 DEF connected
<1>5. OnlyData(d) /\ rt'[d] = r
  BY <1>1, <1>4, OnlyRuntime
<1>6. /\ rt'[d].phase = rt[d].phase /\ rt'[d].mailbox = rt[d].mailbox
      /\ data(d)' = data(d) /\ connected(rt'[d]) /\ Typed(d)'
      /\ rt'[d].lifecycle = "connected"
  BY <1>3, <1>4, <1>5 DEF data, Typed
<1>7. SameSources(d)
  BY <1>1, <1>5, <1>6 DEF SameSources
<1>8. DataPhases(d)'
  <2>1. DataPhases(d)
    BY <1>1 DEF AboutData
  <2>2. QED
    BY <1>6, <2>1 DEF DataPhases
<1>9. Stage(d)'
  <2>1. rt[d].mailbox = <<fresh(phenom_config), fresh(noise_cutoff(first_quiet))>>
    <3>1. configuration # << >> /\ <<noise_cutoff(first_quiet)>> # << >>
      BY DEF configuration
    <3>2. QED
      BY <1>1, <1>2, <3>1 DEF Configuring
  <2>2. first_quiet' = first_quiet
    BY DEF Rest
  <2>3. Configuring(d)'
    BY <1>2, <1>6, <2>1, <2>2 DEF Configuring, data
  <2>4. QED
    BY <2>3 DEF Stage
<1>10. Hosted(d)'
  <2>1. /\ Len(errors[d]) = 0
        /\ \A n \in Nat : n >= first_quiet /\ n < complete(d) => error(d, n) = 0
        /\ Len(replies[d]) <= Len(asked)
        /\ \A k \in DOMAIN replies[d] :
             replies[d][k] = [tag |-> "pauli_reply", request_id |-> k - 1,
                              anticommutes |-> answer(d, k)]
        /\ updates[d] = 0 /\ asked = << >>
    BY <1>1, <1>2 DEF AboutData, Hosted
  <2>2. replies[d] = << >> /\ Len(replies[d]) = 0 /\ Len(asked) = 0
    <3>1. replies[d] \in Seq(Reply)
      BY <1>1, CellByCell DEF About, Globals
    <3>2. Len(replies[d]) \in Nat /\ Len(asked) = 0
      BY <2>1, <3>1
    <3>3. Len(replies[d]) = 0
      BY <2>1, <3>2
    <3>4. QED
      BY <3>1, <3>2, <3>3, Singles
  <2>3. parity(errors[d]) = 0
    BY <2>1 DEF parity, parity_after
  <2>4. UNCHANGED <<link, errors, replies, asked, updates, first_quiet>>
    BY <1>1 DEF Rest
  <2>5. pending(d)' = 0
    <3>1. Len(link[d]["host"]) = 0
      BY <1>1
    <3>2. pending(d) = 0
      <4>1. pending(d) = 0 - (0 - 0)
        BY ONLY <2>2, <3>1 DEF pending, unanswered
      <4>2. 0 - (0 - 0) = 0
        OBVIOUS
      <4>3. QED
        BY <4>1, <4>2
    <3>3. QED
      BY <2>4, <3>2 DEF pending, unanswered
  <2>6. data(d).accumulated_pauli = [x |-> 0, z |-> 0]
    <3>1. data(d) = DC!data_cell
      BY <1>1, <1>2 DEF Configuring, initial, data
    <3>2. QED
      BY <3>1 DEF DC!data_cell, DC!i
  <2>7. data(d)'.accumulated_pauli
          = [x |-> parity(errors[d]),
             z |-> xor(parity(errors[d]), (updates[d] - pending(d)) % 2)]'
    <3>1. xor(0, (0 - 0) % 2) = 0
      BY DEF xor
    <3>2. QED
      BY <1>6, <2>1, <2>3, <2>4, <2>5, <2>6, <3>1
  <2>8. complete(d)' = 0
    BY <1>2, <1>6 DEF complete
  <2>9. /\ DOMAIN link[d]["host"] = {} /\ DOMAIN replies[d] = {}
        /\ link[d]["host"] \in Seq(FromHost)
    BY <1>1, <2>2
  <2>10. \A n \in Nat : ~(n < 0)
    OBVIOUS
  <2>11. QED
    BY <1>6, <2>1, <2>2, <2>4, <2>5, <2>7, <2>8, <2>9, <2>10 DEF Hosted
<1>11. (data(d) \in DataData)'
  BY <1>1, <1>6
<1>12. QED
  BY <1>6, <1>7, <1>8, <1>9, <1>10, <1>11, DataSame

(* Taking a startup message at a data cell keeps the invariant.            *)
LEMMA DataQueues ==
  ASSUME IInv, NEW d \in Datas, admit_disconnected(d), UNCHANGED Rest
  PROVE  IInv'
<1>1. /\ d \in Cells /\ AboutData(d) /\ data(d) \in DataData
      /\ rt[d].lifecycle = "disconnected" /\ ~connected(rt[d])
      /\ UNCHANGED <<announcements, errors, announced, replies>>
  BY DataFacts, Others, Disconnected DEF admit_disconnected
<1>2. PICK m : admits_startup(d, m, first_quiet)
  BY <1>1, AdmitsStartup
<1>3. /\ Configuring(d)' /\ rt'[d].phase = rt[d].phase /\ data(d)' = data(d)
      /\ rt'[d].lifecycle = "disconnected" /\ Typed(d)'
  BY <1>1, <1>2, StillConfiguring DEF Rest
<1>4. OnlyData(d)
  <2> DEFINE e == enqueue(rt[d], m)
  <2>1. /\ rt' = [rt EXCEPT ![d] = e] /\ formed(link')
        /\ \A u \in Cells, v \in Senders : u # d => link'[u][v] = link[u][v]
    BY <1>2 DEF admits_startup
  <2> HIDE DEF e
  <2>2. QED
    BY <1>1, <2>1, OnlyRuntime
<1>5. /\ \A x \in Cells \cup {"phi"} : link'[d][x] = link[d][x]
      /\ \A p \in Ports :
           link'[syndrome_at[d][p]][d] = link[syndrome_at[d][p]][d]
  BY <1>1, <1>2, DataEdges, Others DEF admits_startup
<1>6. SameSources(d)
  BY <1>1, <1>3, <1>4, <1>5 DEF SameSources
<1>7. DataPhases(d)'
  <2>1. DataPhases(d)
    BY <1>1 DEF AboutData
  <2>2. QED
    BY <1>3, <2>1 DEF DataPhases
<1>8. Stage(d)'
  BY <1>3 DEF Stage
<1>9. Hosted(d)'
  <2>1. complete(d)' = complete(d)
    BY <1>3 DEF complete
  <2>2. /\ UNCHANGED <<errors, replies, asked, updates>>
        /\ first_quiet' = first_quiet
        /\ ~connected(rt'[d])
        /\ data(d)'.accumulated_pauli = data(d).accumulated_pauli
    BY <1>1, <1>3 DEF Rest, connected
  <2>3. QED
    BY <1>1, <2>1, <2>2, HostedSame
<1>10. (data(d) \in DataData)'
  BY <1>1, <1>3
<1>11. QED
  BY <1>3, <1>6, <1>7, <1>8, <1>9, <1>10, DataSame
-----------------------------------------------------------------------------
(* The host.                                                               *)
(* A message of sender x has joined the mailbox of d and leaves it again.  *)
admitted(d, x, r, k, L) ==
  /\ record(r) /\ r.phase = rt[d].phase /\ r.data = data(d)
  /\ RemoveAt(r.mailbox, k) = << >>
  /\ r.mailbox[k].message = Head(link[d][x])
  /\ outgoing(L, d) /\ L[d][x] = Tail(link[d][x])
  /\ \A v \in Senders : v # x => L[d][v] = link[d][v]

(* The runtime in which a data cell handles a message: alone in its        *)
(* mailbox.                                                                *)
LEMMA DataAdmitted ==
  ASSUME IInv, NEW d \in Datas, Running(d), NEW x \in Senders,
         NEW r, r = enqueue(rt[d], Head(link[d][x])),
         NEW L, L = received(d, x)
  PROVE  admitted(d, x, r, Len(r.mailbox), L)
<1> DEFINE m == Head(link[d][x])
<1>1. record(rt[d]) /\ rt[d].mailbox = << >> /\ d \in Cells
  BY DataFacts, DataMailbox, Others DEF Running
<1> HIDE DEF m
<1>2. /\ record(r) /\ r.phase = rt[d].phase /\ r.data = data(d)
      /\ r.mailbox = Append(<< >>, fresh(m))
  BY <1>1, Enqueued DEF m, data
<1>3. r.mailbox[Len(r.mailbox)].message = m
      /\ RemoveAt(r.mailbox, Len(r.mailbox)) = << >>
  <2> DEFINE b == << >>
             q == Append(b, fresh(m))
  <2>1. b = << >> \/ \E e : b = <<e>>
    OBVIOUS
  <2> HIDE DEF b
  <2>2. q[Len(q)] = fresh(m) /\ RemoveAt(q, Len(q)) = b
    BY <2>1, LastOf
  <2>3. r.mailbox = q
    BY <1>2 DEF b
  <2> HIDE DEF q
  <2>4. QED
    BY <2>2, <2>3 DEF b, fresh
<1>4. formed(link)
  BY <1>1, Outgoing
<1>5. /\ outgoing(L, d) /\ L[d][x] = Tail(link[d][x])
      /\ \A v \in Senders : v # x => L[d][v] = link[d][v]
  <2>1. outgoing(L, d)
    BY <1>1, Outgoing
  <2>2. QED
    BY <1>1, <1>4, <2>1, Received
<1>6. QED
  BY <1>2, <1>3, <1>5 DEF admitted, m

(* A queue that is not empty, and what follows its head.                   *)
LEMMA Queue ==
  ASSUME NEW S, NEW q \in Seq(S), q # << >>
  PROVE  /\ Tail(q) \in Seq(S) /\ Len(q) \in Nat /\ Len(q) > 0
         /\ Len(Tail(q)) = Len(q) - 1 /\ Head(q) = q[1]
         /\ DOMAIN q = 1 .. Len(q) /\ DOMAIN Tail(q) = 1 .. Len(q) - 1
         /\ \A k \in 1 .. Len(q) - 1 : Tail(q)[k] = q[k + 1]
OBVIOUS

(* What the host has sent to a running data cell, by position.             *)
hosts(d) ==
  /\ link[d]["host"] \in Seq(FromHost)
  /\ pending(d) \in 0 .. updates[d] /\ updates[d] \in Nat
  /\ Len(asked) \in Nat /\ Len(replies[d]) \in Nat
  /\ Len(replies[d]) <= Len(asked)
  /\ \A k \in DOMAIN link[d]["host"] :
       link[d]["host"][k] =
         IF k <= pending(d) THEN pauli_update
         ELSE pauli_query(Len(replies[d]) + k - pending(d) - 1,
                          asked[Len(replies[d]) + k - pending(d)])
  /\ replies[d] # << >> => pending(d) = 0
  /\ parity(errors[d]) \in Bit
  /\ data(d).accumulated_pauli =
       [x |-> parity(errors[d]),
        z |-> xor(parity(errors[d]), (updates[d] - pending(d)) % 2)]

(* The parity of a history is a bit.                                       *)
LEMMA Parity ==
  ASSUME NEW h \in Seq(Bit)
  PROVE  parity(h) \in Bit
<1>1. Len(h) = 0 \/ Len(h) \in 1 .. Len(h)
  OBVIOUS
<1>2. QED
  BY <1>1 DEF parity, parity_after, Bit

(* What the invariant says of the host and a connected data cell.          *)
LEMMA Hosts ==
  ASSUME IInv, NEW d \in Datas, connected(rt[d])
  PROVE  hosts(d) /\ Hosted(d)
<1>1. Hosted(d) /\ Globals
  BY CellByCell DEF About, AboutData
<1>2. /\ updates[d] \in Nat /\ asked \in Seq(Measurements)
      /\ replies[d] \in Seq(Reply) /\ errors[d] \in Seq(Bit)
  BY <1>1 DEF Globals
<1>3. Len(asked) \in Nat /\ Len(replies[d]) \in Nat
  BY <1>2
<1>4. parity(errors[d]) \in Bit
  BY <1>2, Parity
<1>5. QED
  BY <1>1, <1>2, <1>3, <1>4 DEF hosts, Hosted

(* The data of a cell that has joined a correction to its frame.           *)
corrected(e) == [e EXCEPT !.accumulated_pauli = DC!multiply(@, DC!z)]

corrects(q, e) ==
  /\ e \in DataData
  /\ e.step = q.step /\ e.seen_sources = q.seen_sources
  /\ e.noise_disabled = q.noise_disabled /\ e.cutoff_armed = q.cutoff_armed
  /\ e.cutoff_step = q.cutoff_step /\ e.reply_resume = q.reply_resume
  /\ e.accumulated_pauli
       = [x |-> q.accumulated_pauli.x, z |-> xor(q.accumulated_pauli.z, 1)]

(* A correction multiplies the frame by Z.                                 *)
LEMMA Corrects ==
  ASSUME NEW q \in DataData
  PROVE  corrects(q, corrected(q))
<1> DEFINE a == q.accumulated_pauli
           b == DC!multiply(a, DC!z)
<1>1. a \in [x : Bit, z : Bit]
  BY DEF DataData
<1>2. a.x \in Bit /\ a.z \in Bit
  BY <1>1
<1>3. DC!z.x = 0 /\ DC!z.z = 1
  BY DEF DC!z
<1>4. b = [x |-> DC!xor(a.x, 0), z |-> DC!xor(a.z, 1)]
  BY <1>3 DEF DC!multiply
<1>5. DC!xor(a.x, 0) = a.x /\ DC!xor(a.z, 1) = xor(a.z, 1) /\ xor(a.z, 1) \in Bit
  BY <1>2 DEF DC!xor, xor, Bit
<1>6. b = [x |-> a.x, z |-> xor(a.z, 1)] /\ b \in [x : Bit, z : Bit]
  BY <1>2, <1>4, <1>5
<1> HIDE DEF b
<1>7. corrected(q) = [q EXCEPT !.accumulated_pauli = b]
  BY DEF corrected, b
<1>8. /\ corrected(q) \in DataData
      /\ corrected(q).step = q.step
      /\ corrected(q).seen_sources = q.seen_sources
      /\ corrected(q).noise_disabled = q.noise_disabled
      /\ corrected(q).cutoff_armed = q.cutoff_armed
      /\ corrected(q).cutoff_step = q.cutoff_step
      /\ corrected(q).reply_resume = q.reply_resume
      /\ corrected(q).accumulated_pauli = b
  BY <1>6, <1>7 DEF DataData
<1>9. QED
  BY <1>6, <1>8 DEF corrects

(* A correction that arrives keeps the invariant.                          *)
LEMMA DataCorrects ==
  ASSUME IInv, NEW d \in Datas, Running(d), NEW r, NEW k, NEW L,
         admitted(d, "host", r, k, L), link[d]["host"] # << >>,
         pending(d) # 0, NEW noise,
         finish_data(d, r, k, L,
           DC!handle_cast(pauli_update, rt[d].phase, data(d), noise)),
         UNCHANGED Rest
  PROVE  IInv'
<1> DEFINE e == corrected(data(d))
           phase == rt[d].phase
           mailbox == << >>
           u == updates[d]
           n == pending(d)
           P == parity(errors[d])
           q == link[d]["host"]
           R == Len(replies[d])
<1>1. /\ data(d) \in DataData /\ first_quiet \in Nat /\ record(r)
      /\ AboutData(d) /\ Globals /\ complete(d) \in Nat /\ d \in Cells
      /\ outgoing(L, d) /\ connected(rt[d]) /\ hosts(d) /\ Hosted(d)
  BY DataFacts, Others, Hosts DEF Running, admitted
<1>2. phase \in {"collecting", "reporting", "replying"} /\ r.phase = phase
  BY <1>1 DEF AboutData, DataPhases, Running, admitted
<1>3. /\ e \in DataData /\ e.step = data(d).step
      /\ e.seen_sources = data(d).seen_sources
      /\ e.noise_disabled = data(d).noise_disabled
      /\ e.cutoff_armed = data(d).cutoff_armed
      /\ e.cutoff_step = data(d).cutoff_step
      /\ e.reply_resume = data(d).reply_resume
      /\ e.accumulated_pauli
           = [x |-> data(d).accumulated_pauli.x,
              z |-> xor(data(d).accumulated_pauli.z, 1)]
  BY <1>1, Corrects DEF corrects
<1>4. finish_data(d, r, k, L, DC!conclude(phase, e, "consume"))
  <2> HIDE DEF phase
  <2>1. DC!handle_cast(pauli_update, phase, data(d), noise)
          = DC!conclude(phase, e, "consume")
    BY <1>2, DataUpdates DEF corrected
  <2>2. QED
    BY <2>1 DEF phase
<1>5. RemoveAt(r.mailbox, k) = mailbox /\ phase # "repeat_phase"
  BY <1>2 DEF admitted
<1> HIDE DEF e, phase, mailbox
<1>6. quiet_turn(d, phase, e, mailbox, L)
  BY <1>1, <1>2, <1>4, <1>5, DataTurns
<1>7. /\ \A v \in Senders : v # "host" => link'[d][v] = link[d][v]
      /\ link'[d]["host"] = Tail(q)
  BY <1>6, Others DEF quiet_turn, admitted
<1>8. SameSources(d)
  <2>1. \A v \in Cells \cup {"phi"} : v \in Senders /\ v # "host"
    BY Others DEF Senders
  <2>2. QED
    BY <1>3, <1>6, <1>7, <2>1 DEF quiet_turn, SameSources
<1>9. complete(d)' = complete(d) /\ first_quiet' = first_quiet
  BY <1>3, <1>6 DEF complete, quiet_turn, Rest
<1>10. DataPhases(d)'
  BY <1>1, <1>3, <1>6 DEF AboutData, DataPhases, quiet_turn, phase
<1>11. Stage(d)'
  <2>1. Running(d)'
    BY <1>3, <1>6, <1>9 DEF Running, quiet_turn, phase, mailbox
  <2>2. QED
    BY <2>1 DEF Stage
<1>12. /\ UNCHANGED <<errors, replies, asked, updates>>
       /\ connected(rt'[d]) /\ data(d)' = e
  BY <1>6 DEF Rest, quiet_turn
<1>13. /\ q \in Seq(FromHost) /\ q # << >> /\ u \in Nat /\ n \in 1 .. u
       /\ R \in Nat /\ P \in Bit
       /\ \A j \in DOMAIN q :
            q[j] = IF j <= n THEN pauli_update
                   ELSE pauli_query(R + j - n - 1, asked[R + j - n])
       /\ replies[d] = << >>
       /\ data(d).accumulated_pauli = [x |-> P, z |-> xor(P, (u - n) % 2)]
       /\ n = Len(q) - (Len(asked) - R) /\ Len(asked) \in Nat
  <2>1. n \in 0 .. u /\ n # 0 /\ u \in Nat
    BY <1>1 DEF hosts
  <2>2. n \in 1 .. u
    <3> HIDE DEF n, u
    <3>1. QED
      BY <2>1
  <2>3. n = Len(q) - (Len(asked) - R)
    BY DEF pending, unanswered
  <2>4. replies[d] = << >>
    BY <1>1 DEF hosts
  <2>5. QED
    BY <1>1, <2>1, <2>2, <2>3, <2>4 DEF hosts
<1>14. /\ Tail(q) \in Seq(FromHost) /\ Len(q) \in Nat
       /\ Len(Tail(q)) = Len(q) - 1 /\ DOMAIN q = 1 .. Len(q)
       /\ DOMAIN Tail(q) = 1 .. Len(q) - 1
       /\ \A j \in 1 .. Len(q) - 1 : Tail(q)[j] = q[j + 1]
  <2> HIDE DEF q
  <2>1. QED
    BY <1>13, Queue
<1>15. pending(d)' = n - 1
  <2> DEFINE l == Len(q)
             a == Len(asked)
             t == Len(link'[d]["host"])
  <2>1. pending(d)' = t - (a - R)
    BY <1>12 DEF pending, unanswered
  <2>2. t = l - 1 /\ l \in Nat /\ a \in Nat /\ R \in Nat /\ n = l - (a - R)
    BY <1>7, <1>13, <1>14
  <2> HIDE DEF l, a, t, R, n
  <2>3. QED
    BY <2>1, <2>2
<1>16. e.accumulated_pauli = [x |-> P, z |-> xor(P, (u - (n - 1)) % 2)]
  <2>1. /\ data(d).accumulated_pauli.x = P
        /\ data(d).accumulated_pauli.z = xor(P, (u - n) % 2)
    BY <1>13
  <2>2. xor(xor(P, (u - n) % 2), 1) = xor(P, (u - (n - 1)) % 2)
    <3> HIDE DEF P, u, n
    <3>1. u - n \in Nat /\ u - (n - 1) = (u - n) + 1
      BY <1>13
    <3> DEFINE w == u - n
    <3>4. w \in Nat /\ P \in {0, 1}
      BY <1>13, <3>1 DEF Bit
    <3> HIDE DEF w
    <3>2. xor(xor(P, w % 2), 1) = xor(P, (w + 1) % 2)
      BY ONLY <3>4 DEF xor
    <3>3. QED
      BY <3>1, <3>2 DEF w
  <2>3. QED
    BY <1>3, <2>1, <2>2
<1>17. \A j \in DOMAIN link'[d]["host"] :
         link'[d]["host"][j] =
           IF j <= n - 1 THEN pauli_update
           ELSE pauli_query(R + j - (n - 1) - 1, asked[R + j - (n - 1)])
  <2> TAKE j \in DOMAIN link'[d]["host"]
  <2>1. j \in 1 .. Len(q) - 1
    BY <1>7, <1>14
  <2> HIDE DEF q, n, R
  <2>2. link'[d]["host"][j] = q[j + 1] /\ j + 1 \in DOMAIN q
    BY <1>7, <1>14, <2>1 DEF q
  <2>3. /\ q[j + 1] = IF j + 1 <= n THEN pauli_update
           ELSE pauli_query(R + (j + 1) - n - 1, asked[R + (j + 1) - n])
    BY <1>13, <2>2
  <2>4. /\ j + 1 <= n <=> j <= n - 1
        /\ R + (j + 1) - n - 1 = R + j - (n - 1) - 1
        /\ R + (j + 1) - n = R + j - (n - 1)
    BY SMTT(60), <1>13, <1>14, <2>1
  <2>5. QED
    BY <2>2, <2>3, <2>4
<1>18. Hosted(d)'
  <2>1. (\A m \in Nat : m >= first_quiet /\ m < complete(d) => error(d, m) = 0)'
    BY <1>1, <1>9, <1>12 DEF Hosted, error
  <2>2. \A j \in DOMAIN replies[d] : answer(d, j)' = answer(d, j)
    BY <1>12 DEF answer
  <2>3. pending(d)' \in 0 .. updates'[d]
    <3>1. n - 1 \in 0 .. u
      <4> HIDE DEF n, u
      <4>1. QED
        BY <1>13
    <3>2. QED
      BY <1>12, <1>15, <3>1
  <2>4. link'[d]["host"] \in Seq(FromHost)
    BY <1>7, <1>14
  <2>5. (\A j \in DOMAIN link[d]["host"] :
            link[d]["host"][j] =
              IF j <= pending(d) THEN pauli_update
              ELSE pauli_query(Len(replies[d]) + j - pending(d) - 1,
                               asked[Len(replies[d]) + j - pending(d)]))'
    BY <1>12, <1>15, <1>17
  <2>6. (data(d).accumulated_pauli =
            [x |-> parity(errors[d]),
             z |-> xor(parity(errors[d]), (updates[d] - pending(d)) % 2)])'
    BY <1>12, <1>15, <1>16
  <2>7. (Len(errors[d]) = complete(d) /\ Len(replies[d]) <= Len(asked))'
    BY <1>1, <1>9, <1>12 DEF Hosted
  <2>8. (\A j \in DOMAIN replies[d] :
           replies[d][j] = [tag |-> "pauli_reply", request_id |-> j - 1,
                            anticommutes |-> answer(d, j)])'
    BY <1>1, <1>12, <2>2 DEF Hosted
  <2>9. QED
    BY <1>12, <1>13, <2>1, <2>3, <2>4, <2>5, <2>6, <2>7, <2>8 DEF Hosted
<1>19. Typed(d)' /\ (data(d) \in DataData)'
  BY <1>3, <1>6 DEF quiet_turn
<1>20. QED
  BY <1>8, <1>10, <1>11, <1>18, <1>19, DataSame

(* The reply to a query.                                                   *)
replied(q, id, m, resume) == DC!replying_to(q, pauli_query(id, m), resume)

replies_with(q, e, id, m, resume) ==
  /\ e \in DataData
  /\ e.step = q.step /\ e.seen_sources = q.seen_sources
  /\ e.noise_disabled = q.noise_disabled /\ e.cutoff_armed = q.cutoff_armed
  /\ e.cutoff_step = q.cutoff_step /\ e.reply_resume = resume
  /\ e.accumulated_pauli = q.accumulated_pauli
  /\ DC!pauli_reply(e) \in Reply
  /\ DC!pauli_reply(e) =
       [tag |-> "pauli_reply", request_id |-> id,
        anticommutes |-> (q.accumulated_pauli.x * m.z
                            + q.accumulated_pauli.z * m.x) % 2]

(* A reply is whether the frame and the measurement anticommute.           *)
LEMMA Replied ==
  ASSUME NEW q \in DataData, NEW id \in Nat, NEW m \in Measurements,
         NEW resume \in {"none", "collecting", "reporting"}
  PROVE  replies_with(q, replied(q, id, m, resume), id, m, resume)
<1> DEFINE a == q.accumulated_pauli
           w == (a.x * m.z + a.z * m.x) % 2
           e == replied(q, id, m, resume)
<1>1. /\ a.x \in Bit /\ a.z \in Bit /\ m.x \in Bit /\ m.z \in Bit
  <2>1. a \in [x : Bit, z : Bit]
    BY DEF DataData
  <2>2. m \in [x : Bit, z : Bit]
    BY NoiseMeshAssumption DEF Bit
  <2>3. QED
    BY <2>1, <2>2
<1>2. DC!bit(DC!anticommutes(a, m)) = w /\ w \in Bit
  <2> DEFINE f == a.x
             g == a.z
             h == m.x
             k == m.z
  <2>1. f \in {0, 1} /\ g \in {0, 1} /\ h \in {0, 1} /\ k \in {0, 1}
    BY <1>1 DEF Bit
  <2>2. DC!anticommutes(a, m) = ((f * k + g * h) % 2 = 1)
    BY DEF DC!anticommutes, DC!xor
  <2>3. w = (f * k + g * h) % 2
    OBVIOUS
  <2> HIDE DEF f, g, h, k
  <2>4. (f * k + g * h) % 2 \in {0, 1}
    BY ONLY <2>1
  <2>5. QED
    BY <2>2, <2>3, <2>4 DEF DC!bit, Bit
<1> HIDE DEF w
<1>3. pauli_query(id, m).request_id = id /\ pauli_query(id, m).measurement = m
  BY DEF pauli_query
<1>4. e = [q EXCEPT !.reply_request_id = id, !.reply_anticommutes = w,
                    !.reply_resume = resume]
  BY <1>2, <1>3 DEF replied, DC!replying_to
<1> HIDE DEF e
<1>5. /\ e \in DataData
      /\ e.step = q.step /\ e.seen_sources = q.seen_sources
      /\ e.noise_disabled = q.noise_disabled /\ e.cutoff_armed = q.cutoff_armed
      /\ e.cutoff_step = q.cutoff_step /\ e.reply_resume = resume
      /\ e.accumulated_pauli = q.accumulated_pauli
      /\ e.reply_request_id = id /\ e.reply_anticommutes = w
  BY <1>2, <1>4 DEF DataData
<1>6. DC!pauli_reply(e)
        = [tag |-> "pauli_reply", request_id |-> id, anticommutes |-> w]
  BY <1>5 DEF DC!pauli_reply
<1>7. DC!pauli_reply(e) \in Reply
  BY <1>2, <1>6 DEF Reply
<1>8. QED
  BY <1>5, <1>6, <1>7 DEF replies_with, e, w

(* The host asks only when every round has been certified to be quiet.     *)
LEMMA AskedWhenQuiet ==
  ASSUME IInv, NEW d \in Datas, asked # << >>
  PROVE  complete(d) > first_quiet
<1>1. PICK o \in Ports : TRUE
  BY Numbers
<1> DEFINE s == syndrome_at[d][o]
           p == opposite[o]
<1>2. s \in Syndromes /\ p \in Ports /\ data_at[s][p] = d
  BY DataEdges
<1>3. certified = Syndromes
  BY CellByCell DEF About, Globals
<1> DEFINE n == data(s).step
           a == Len(announcements[s])
           c == complete(d)
           h == heard(s, p)
           f == first_quiet
<1>4. n - a > f /\ a \in Nat
  <2>1. Asking(s)
    BY <1>2 DEF IInv
  <2>2. n - a > f
    BY <1>2, <1>3, <2>1 DEF Asking
  <2>3. a \in Nat
    <3>1. announcements[s] = << >> \/ announcements[s] = <<result(s, n - 1)>>
      BY <2>1 DEF Asking
    <3>2. Len(<< >>) \in Nat /\ Len(<<result(s, n - 1)>>) \in Nat
      BY Short
    <3>3. QED
      BY <3>1, <3>2
  <2>4. QED
    BY <2>2, <2>3
<1>5. n \in Nat /\ c \in Nat /\ f \in Nat
  BY <1>2, SyndromeFacts, DataFacts
<1>6. h <= c /\ h \in {n, n + 1}
  <2>1. Edge(s, p)
    BY <1>2 DEF IInv
  <2>2. QED
    BY <1>2, <1>5, <2>1 DEF Edge, heard, one_if
<1> HIDE DEF n, a, c, h, f
<1>7. c > f
  BY <1>4, <1>5, <1>6
<1>8. QED
  BY <1>7 DEF c, f

(* A query of the host that arrives keeps the invariant.                   *)
LEMMA DataAnswers ==
  ASSUME IInv, NEW d \in Datas, Running(d), NEW r, NEW k, NEW L,
         admitted(d, "host", r, k, L), link[d]["host"] # << >>,
         pending(d) = 0, NEW noise,
         finish_data(d, r, k, L,
           DC!handle_cast(Head(link[d]["host"]), rt[d].phase, data(d), noise)),
         UNCHANGED Rest
  PROVE  IInv'
<1> DEFINE R == Len(replies[d])
           m == asked[R + 1]
           resume == IF rt[d].phase = "replying" THEN data(d).reply_resume
                     ELSE rt[d].phase
           e == replied(data(d), R, m, resume)
           w == DC!pauli_reply(e)
           u == updates[d]
           P == parity(errors[d])
           q == link[d]["host"]
           a == Len(asked)
<1>1. /\ data(d) \in DataData /\ first_quiet \in Nat /\ record(r)
      /\ AboutData(d) /\ Globals /\ complete(d) \in Nat /\ d \in Cells
      /\ outgoing(L, d) /\ connected(rt[d]) /\ hosts(d) /\ Hosted(d)
      /\ d \in Senders
  BY DataFacts, Others, Hosts DEF Running, admitted
<1>2. /\ rt[d].phase \in {"collecting", "reporting", "replying"}
      /\ r.phase = rt[d].phase
  BY <1>1 DEF AboutData, DataPhases, Running, admitted
<1>3. /\ q \in Seq(FromHost) /\ u \in Nat /\ R \in Nat /\ P \in Bit
      /\ a \in Nat /\ Len(q) = a - R /\ R <= a
      /\ \A j \in DOMAIN q : q[j] = pauli_query(R + j - 1, asked[R + j])
      /\ data(d).accumulated_pauli = [x |-> P, z |-> xor(P, u % 2)]
  <2>1. hosts(d) /\ pending(d) = 0
    BY <1>1
  <2>2. u \in Nat /\ u - 0 = u /\ R \in Nat /\ a \in Nat /\ R <= a
    BY <2>1 DEF hosts
  <2>3. q \in Seq(FromHost) /\ Len(q) \in Nat
    BY <2>1 DEF hosts
  <2>4. Len(q) = a - R
    <3>1. Len(q) - (a - R) = 0
      BY <2>1 DEF pending, unanswered
    <3> DEFINE l == Len(q)
    <3> HIDE DEF l, a, R
    <3>2. l = a - R
      BY <2>2, <2>3, <3>1 DEF l
    <3>3. QED
      BY <3>2 DEF l
  <2>5. \A j \in DOMAIN q : q[j] = pauli_query(R + j - 1, asked[R + j])
    <3> TAKE j \in DOMAIN q
    <3>1. j \in Nat /\ j > 0
      BY <2>3
    <3>2. q[j] = IF j <= 0 THEN pauli_update
                 ELSE pauli_query(R + j - 0 - 1, asked[R + j - 0])
      BY <2>1 DEF hosts
    <3> HIDE DEF R, q
    <3>3. ~(j <= 0) /\ R + j - 0 - 1 = R + j - 1 /\ R + j - 0 = R + j
      BY <2>2, <3>1
    <3>4. QED
      BY <3>2, <3>3
  <2>6. data(d).accumulated_pauli = [x |-> P, z |-> xor(P, u % 2)] /\ P \in Bit
    BY <2>1, <2>2 DEF hosts
  <2>7. QED
    BY <2>2, <2>3, <2>4, <2>5, <2>6
<1>4. /\ Tail(q) \in Seq(FromHost) /\ Len(q) \in Nat /\ Len(q) > 0
      /\ Len(Tail(q)) = Len(q) - 1 /\ DOMAIN q = 1 .. Len(q)
      /\ Head(q) = q[1]
      /\ DOMAIN Tail(q) = 1 .. Len(q) - 1
      /\ \A j \in 1 .. Len(q) - 1 : Tail(q)[j] = q[j + 1]
  <2>1. q # << >>
    OBVIOUS
  <2> HIDE DEF q
  <2>2. QED
    BY <1>3, <2>1, Queue
<1>5. R + 1 <= a /\ Head(q) = pauli_query(R, m) /\ m \in Measurements
  <2> HIDE DEF R, a, q
  <2>1. R + 1 <= a
    BY <1>3, <1>4
  <2>2. 1 \in DOMAIN q /\ R + 1 - 1 = R
    BY <1>3, <1>4
  <2>3. Head(q) = pauli_query(R, m)
    BY <1>3, <1>4, <2>2
  <2>4. R + 1 \in 1 .. a
    BY <1>3, <2>1
  <2>5. asked \in Seq(Measurements)
    BY <1>1 DEF Globals
  <2>6. m \in Measurements
    BY <2>4, <2>5 DEF a
  <2>7. QED
    BY <2>1, <2>3, <2>6
<1>6. data(d).noise_disabled = 1
  <2>1. asked # << >>
    <3>1. a > 0
      BY <1>3, <1>5
    <3>2. Len(<< >>) = 0
      OBVIOUS
    <3>3. QED
      BY <3>1, <3>2
  <2>2. complete(d) > first_quiet
    BY <2>1, AskedWhenQuiet
  <2>3. QED
    BY <2>2 DEF Running, one_if
<1>7. resume \in {"none", "collecting", "reporting"}
  BY <1>1, <1>2 DEF DataData
<1>8. resume = IF data(d).seen_sources = Ports THEN "reporting" ELSE "collecting"
  BY <1>1, <1>2 DEF AboutData, DataPhases
<1>9. /\ e \in DataData /\ e.step = data(d).step
      /\ e.seen_sources = data(d).seen_sources
      /\ e.noise_disabled = data(d).noise_disabled
      /\ e.cutoff_armed = data(d).cutoff_armed
      /\ e.cutoff_step = data(d).cutoff_step
      /\ e.reply_resume = resume
      /\ e.accumulated_pauli = data(d).accumulated_pauli
      /\ w \in Reply
      /\ w = [tag |-> "pauli_reply", request_id |-> R,
              anticommutes |-> (P * m.z + xor(P, u % 2) * m.x) % 2]
  <2>1. replies_with(data(d), e, R, m, resume)
    <3> HIDE DEF R, m, resume
    <3>1. QED
      BY <1>1, <1>3, <1>5, <1>7, Replied
  <2>2. /\ data(d).accumulated_pauli.x = P
        /\ data(d).accumulated_pauli.z = xor(P, u % 2)
    BY <1>3
  <2> HIDE DEF e, R, m, resume, P, u
  <2>3. QED
    BY <2>1, <2>2 DEF replies_with
<1>10. w = [tag |-> "pauli_reply", request_id |-> R,
            anticommutes |-> answer(d, R + 1)]
  <2>1. (P * m.z + xor(P, u % 2) * m.x) % 2 = (P * m.z + (P + u) * m.x) % 2
    <3> DEFINE f == m.x
               g == m.z
    <3>1. f \in {0, 1} /\ g \in {0, 1} /\ P \in {0, 1} /\ u \in Nat
      BY <1>3, <1>5, NoiseMeshAssumption DEF Bit
    <3> HIDE DEF f, g, P, u
    <3>2. (P * g + xor(P, u % 2) * f) % 2 = (P * g + (P + u) * f) % 2
      <4>1. CASE f = 0
        <5>1. xor(P, u % 2) * f = 0 /\ (P + u) * f = 0
          BY ONLY <3>1, <4>1 DEF xor
        <5>2. QED
          BY <5>1
      <4>2. CASE f = 1
        <5>1. (P + u) * f = P + u
          BY ONLY <3>1, <4>2
        <5> DEFINE v == xor(P, u % 2)
        <5>2. v \in Nat /\ v = (P + u) % 2
          BY ONLY <3>1 DEF xor
        <5> HIDE DEF v
        <5>3. v * f = v
          BY ONLY <4>2, <5>2
        <5>4. CASE P = 0 \/ g = 0
          <6>1. P * g = 0
            BY ONLY <3>1, <5>4
          <6>2. (0 + v) % 2 = (0 + (P + u)) % 2
            BY ONLY <3>1, <5>2
          <6>3. QED
            BY <5>1, <5>3, <6>1, <6>2 DEF v
        <5>5. CASE P = 1 /\ g = 1
          <6>1. P * g = 1
            BY ONLY <5>5
          <6>2. (1 + v) % 2 = (1 + (P + u)) % 2
            BY ONLY <3>1, <5>2
          <6>3. QED
            BY <5>1, <5>3, <6>1, <6>2 DEF v
        <5>6. QED
          BY <3>1, <5>4, <5>5
      <4>3. QED
        BY <3>1, <4>1, <4>2
    <3>3. QED
      BY <3>2 DEF f, g
  <2>2. QED
    BY <1>9, <2>1 DEF answer
<1>11. DC!handle_cast(Head(q), rt[d].phase, data(d), noise)
         = DC!conclude(IF rt[d].phase = "replying" THEN "repeat_phase"
                       ELSE "replying", e, "consume")
  <2> DEFINE phase == rt[d].phase
             c == data(d)
  <2>1. phase \in {"collecting", "reporting", "replying"} /\ c.noise_disabled = 1
    BY <1>2, <1>6
  <2>2. e = DC!replying_to(c, pauli_query(R, m),
              IF phase = "replying" THEN c.reply_resume ELSE phase)
    BY DEF replied
  <2> HIDE DEF e, R, m, phase, c
  <2>3. DC!handle_cast(pauli_query(R, m), phase, c, noise)
          = DC!conclude(IF phase = "replying" THEN "repeat_phase" ELSE "replying",
                        e, "consume")
    BY <2>1, <2>2, DataReplies
  <2>4. QED
    BY <1>5, <2>3 DEF phase, c
<1> DEFINE phase == "replying"
           mailbox == << >>
           over == Append(replies[d], w)
<1> HIDE DEF e, w, resume, R, m, u, P, q, a
<1>12. /\ Becomes(d, phase, e, mailbox) /\ link' = L
       /\ replies' = [replies EXCEPT ![d] = over]
       /\ UNCHANGED <<announcements, announced, errors>>
  <2> DEFINE concl == DC!conclude(IF rt[d].phase = "replying" THEN "repeat_phase"
                                  ELSE "replying", e, "consume")
  <2>1. concl.directive = "consume" /\ e = concl.data /\ enters(r, concl, phase)
    BY <1>2 DEF DC!conclude, enters
  <2>2. finish_data(d, r, k, L, concl)
    BY <1>11 DEF q
  <2>3. phase = "replying"
    OBVIOUS
  <2> HIDE DEF concl, phase
  <2>4. data_enters(d, r, k, L, phase, e)
    BY <1>1, <2>1, <2>2, DataMoves
  <2>5. link' = L
    BY <1>1, <2>3, <2>4, DataEntersSilently DEF data_enters
  <2>6. DC!handle_enter(phase, e)["measurement"] = <<w>>
    BY <2>3, DataCasts DEF w
  <2>7. replies[d] \o <<w>> = over
    <3>1. replies[d] \in Seq(Reply) /\ w \in Reply
      BY <1>1, <1>9 DEF Globals
    <3>2. QED
      BY <3>1
  <2>8. replies' = [replies EXCEPT ![d] = over]
    BY <2>4, <2>6, <2>7 DEF data_enters
  <2>9. errors' = errors
    BY <2>3, <2>4, Functions DEF data_enters
  <2>10. released(RemoveAt(r.mailbox, k)) = mailbox
    BY ShortRelease DEF admitted
  <2>11. QED
    BY <2>4, <2>5, <2>8, <2>9, <2>10 DEF data_enters
<1>13. over \in Seq(Reply) /\ Len(over) = R + 1 /\ over[R + 1] = w
       /\ DOMAIN over = 1 .. R + 1
       /\ \A j \in 1 .. R : over[j] = replies[d][j]
  <2>1. replies[d] \in Seq(Reply) /\ w \in Reply
    BY <1>1, <1>9 DEF Globals
  <2>2. QED
    BY <2>1 DEF R
<1>14. /\ replies'[d] = over /\ replies' \in [Datas -> Seq(Reply)]
       /\ \A v \in Datas : v # d => replies'[v] = replies[v]
  BY <1>1, <1>12, <1>13 DEF Globals
<1> HIDE DEF phase, mailbox, over
<1>15. /\ OnlyData(d)
       /\ \A x \in Senders : link'[d][x] = L[d][x]
       /\ \A p \in Ports :
            link'[syndrome_at[d][p]][d] = link[syndrome_at[d][p]][d]
  BY <1>1, <1>12, <1>14, QuietTurn
<1>16. /\ rt'[d].lifecycle = "connected" /\ connected(rt'[d])
       /\ rt'[d].phase = "replying" /\ rt'[d].mailbox = << >>
       /\ data(d)' = e /\ Typed(d)'
  BY <1>1, <1>12, Became DEF phase, mailbox
<1>17. /\ \A v \in Senders : v # "host" => link'[d][v] = link[d][v]
       /\ link'[d]["host"] = Tail(q)
  BY <1>15, Others DEF admitted, q
<1>18. SameSources(d)
  <2>1. \A v \in Cells \cup {"phi"} : v \in Senders /\ v # "host"
    BY Others DEF Senders
  <2>2. QED
    BY <1>9, <1>12, <1>15, <1>16, <1>17, <2>1 DEF SameSources
<1>19. /\ complete(d)' = complete(d) /\ first_quiet' = first_quiet
       /\ UNCHANGED <<errors, asked, updates>>
  BY <1>9, <1>12, <1>16 DEF complete, Rest
<1>20. DataPhases(d)'
  BY <1>6, <1>8, <1>9, <1>16 DEF DataPhases
<1>21. Stage(d)'
  <2>1. Running(d)'
    BY <1>9, <1>16, <1>19 DEF Running
  <2>2. QED
    BY <2>1 DEF Stage
<1>22. pending(d)' = 0
  <2> DEFINE t == Len(link'[d]["host"])
             l == Len(q)
             n == Len(replies'[d])
  <2>1. pending(d)' = t - (a - n)
    BY <1>19 DEF pending, unanswered, a
  <2>2. t = l - 1 /\ l = a - R /\ n = R + 1 /\ a \in Nat /\ R \in Nat
    BY <1>3, <1>4, <1>13, <1>14, <1>17
  <2> HIDE DEF t, l, n
  <2>3. QED
    BY <2>1, <2>2
<1>23. \A j \in DOMAIN link'[d]["host"] :
         link'[d]["host"][j] = pauli_query((R + 1) + j - 0 - 1, asked[(R + 1) + j - 0])
  <2> TAKE j \in DOMAIN link'[d]["host"]
  <2>1. j \in 1 .. Len(q) - 1
    BY <1>4, <1>17
  <2>2. link'[d]["host"][j] = q[j + 1] /\ j + 1 \in DOMAIN q
    BY <1>4, <1>17, <2>1
  <2>3. q[j + 1] = pauli_query(R + (j + 1) - 1, asked[R + (j + 1)])
    BY <1>3, <2>2
  <2>4. j \in Nat /\ R \in Nat
    BY <1>3, <1>4, <2>1
  <2>5. /\ R + (j + 1) - 1 = (R + 1) + j - 0 - 1
        /\ R + (j + 1) = (R + 1) + j - 0
    BY ONLY <2>4
  <2>6. QED
    BY <2>2, <2>3, <2>5
<1>24. Hosted(d)'
  <2>1. (\A n \in Nat : n >= first_quiet /\ n < complete(d) => error(d, n) = 0)'
    BY <1>1, <1>19 DEF Hosted, error
  <2>2. \A j : answer(d, j)' = answer(d, j)
    BY <1>19 DEF answer
  <2>3. (\A j \in DOMAIN replies[d] :
           replies[d][j] = [tag |-> "pauli_reply", request_id |-> j - 1,
                            anticommutes |-> answer(d, j)])'
    <3>1. ASSUME NEW j \in 1 .. R + 1
          PROVE  over[j] = [tag |-> "pauli_reply", request_id |-> j - 1,
                            anticommutes |-> answer(d, j)]
      <4>1. CASE j = R + 1
        <5>1. j - 1 = R
          BY <1>3, <4>1
        <5>2. QED
          BY <1>10, <1>13, <4>1, <5>1
      <4>2. CASE j # R + 1
        <5>1. j \in 1 .. R
          BY <1>3, <4>2
        <5>2. j \in DOMAIN replies[d]
          BY <1>1, <5>1 DEF R, Globals
        <5>3. QED
          BY <1>1, <1>13, <5>1, <5>2 DEF Hosted
      <4>3. QED
        BY <4>1, <4>2
    <3>2. QED
      BY <1>13, <1>14, <2>2, <3>1
  <2>4. link'[d]["host"] \in Seq(FromHost)
    BY <1>4, <1>17
  <2>5. (\A j \in DOMAIN link[d]["host"] :
            link[d]["host"][j] =
              IF j <= pending(d) THEN pauli_update
              ELSE pauli_query(Len(replies[d]) + j - pending(d) - 1,
                               asked[Len(replies[d]) + j - pending(d)]))'
    <3>1. \A j \in DOMAIN link'[d]["host"] : ~(j <= 0)
      BY <1>4, <1>17
    <3>2. QED
      BY <1>13, <1>14, <1>19, <1>22, <1>23, <3>1
  <2>6. (data(d).accumulated_pauli =
            [x |-> parity(errors[d]),
             z |-> xor(parity(errors[d]), (updates[d] - pending(d)) % 2)])'
    <3>1. u - 0 = u
      BY <1>3
    <3>2. QED
      BY <1>3, <1>9, <1>16, <1>19, <1>22, <3>1 DEF u, P
  <2>7. (Len(errors[d]) = complete(d) /\ Len(replies[d]) <= Len(asked))'
    BY <1>1, <1>5, <1>13, <1>14, <1>19 DEF Hosted, a
  <2>8. pending(d)' \in 0 .. updates'[d]
    BY <1>3, <1>19, <1>22 DEF u
  <2>9. QED
    BY <1>16, <1>22, <2>1, <2>3, <2>4, <2>5, <2>6, <2>7, <2>8 DEF Hosted
<1>25. Typed(d)' /\ (data(d) \in DataData)'
  BY <1>9, <1>16
<1>26. QED
  BY <1>18, <1>20, <1>21, <1>24, <1>25, DataSame

(* A query is about the round that is under way and a port not heard yet,  *)
(* or, when the round is over, about the next one.                         *)
query_due(d, o) ==
  LET s == syndrome_at[d][o]
      n == data(d).step
  IN  /\ o \in Ports \ data(d).seen_sources /\ data(d).seen_sources # Ports
      /\ link[d][s] = <<SC!phenom_query(n, o)>> /\ link[s][d] = << >>
      /\ complete(d) = n /\ heard(s, opposite[o]) = n
      /\ heard(d, o) = n /\ queried(s) = n + 1
      /\ DC!next_step(n) # n

next_due(d, o) ==
  LET s == syndrome_at[d][o]
      n == data(d).step
  IN  /\ data(d).seen_sources = Ports
      /\ link[d][s] = <<SC!phenom_query(n + 1, o)>> /\ link[s][d] = << >>
      /\ complete(d) = n + 1 /\ heard(s, opposite[o]) = n + 1
      /\ heard(d, o) = n + 1 /\ queried(s) = n + 2
      /\ DC!next_step(n) = n + 1

(* The edge on port o of a data cell.                                      *)
from_data(d, o) ==
  LET s == syndrome_at[d][o]
      p == opposite[o]
  IN  /\ heard(s, p) <= complete(d) /\ heard(d, o) <= queried(s)
      /\ link[d][s] = IF heard(d, o) < queried(s)
                      THEN <<SC!phenom_query(heard(d, o), o)>> ELSE << >>
      /\ link[s][d] = IF heard(s, p) < complete(d)
                      THEN <<report(d, heard(s, p), p)>> ELSE << >>

(* An edge seen from its data cell.                                        *)
LEMMA FromData ==
  ASSUME NEW d \in Datas, NEW o \in Ports
  PROVE  /\ Edge(syndrome_at[d][o], opposite[o]) <=> from_data(d, o)
         /\ Edge(syndrome_at[d][o], opposite[o])' <=> from_data(d, o)'
<1> DEFINE s == syndrome_at[d][o]
           p == opposite[o]
<1>1. s \in Syndromes /\ p \in Ports /\ data_at[s][p] = d /\ opposite[p] = o
  BY DataEdges
<1>2. Edge(s, p) <=> from_data(d, o)
  BY <1>1 DEF Edge, from_data
<1>3. Edge(s, p)' <=> from_data(d, o)'
  BY <1>1 DEF Edge, from_data
<1>4. QED
  BY <1>2, <1>3

(* What the two ends of an edge have counted.                              *)
LEMMA EdgeCounts ==
  ASSUME IInv, NEW d \in Datas, NEW o \in Ports,
         NEW s, s = syndrome_at[d][o], NEW p, p = opposite[o]
  PROVE  /\ s \in Syndromes /\ p \in Ports /\ from_data(d, o)
         /\ heard(s, p) \in Nat /\ queried(s) \in Nat
         /\ heard(d, o) \in Nat /\ complete(d) \in Nat
         /\ queried(s) <= heard(s, p) + 1
         /\ queried(s) <= MaxStep + 2
         /\ heard(s, p) <= complete(d) /\ heard(d, o) <= queried(s)
<1>1. s \in Syndromes /\ p \in Ports
  BY DataEdges
<1>2. from_data(d, o)
  BY DataFacts, FromData DEF AboutData
<1>3. /\ data(s).step \in Nat /\ data(s).step <= MaxStep + 1 /\ MaxStep \in Nat
      /\ data(d).step \in Nat /\ complete(d) \in Nat
  BY <1>1, SyndromeFacts, DataFacts
<1>4. /\ heard(s, p) \in Nat /\ queried(s) \in Nat /\ heard(d, o) \in Nat
      /\ queried(s) <= heard(s, p) + 1 /\ queried(s) <= MaxStep + 2
  BY <1>3 DEF heard, queried, one_if
<1>5. heard(s, p) <= complete(d) /\ heard(d, o) <= queried(s)
  BY <1>2 DEF from_data
<1>6. QED
  BY <1>1, <1>2, <1>3, <1>4, <1>5

(* The query that arrives is of the present round or of the next one.      *)
LEMMA QueryArrives ==
  ASSUME IInv, NEW d \in Datas, NEW o \in Ports,
         link[d][syndrome_at[d][o]] # << >>
  PROVE  query_due(d, o) \/ next_due(d, o)
<1> DEFINE s == syndrome_at[d][o]
           p == opposite[o]
           n == data(d).step
           S == data(d).seen_sources
           h == heard(s, p)
           g == heard(d, o)
           c == complete(d)
           q == queried(s)
<1>1. /\ s \in Syndromes /\ p \in Ports /\ from_data(d, o)
      /\ h \in Nat /\ q \in Nat /\ g \in Nat /\ c \in Nat
      /\ q <= h + 1 /\ q <= MaxStep + 2 /\ h <= c /\ g <= q
  <2> HIDE DEF s, p
  <2>1. s = syndrome_at[d][o] /\ p = opposite[o]
    BY DEF s, p
  <2>2. QED
    BY <2>1, EdgeCounts
<1>2. /\ n \in Nat /\ S \subseteq Ports
  BY DataFacts
<1>3. /\ link[d][s] = <<SC!phenom_query(g, o)>> /\ g < q
      /\ link[s][d] = IF h < c THEN <<report(d, h, p)>> ELSE << >>
  BY <1>1 DEF from_data
<1>4. /\ o \notin S => g = n
      /\ o \in S => g = n + 1
      /\ S = Ports => c = n + 1
      /\ S # Ports => c = n
  BY <1>2 DEF heard, complete, one_if
<1>5. DC!next_step(n) = (n + 1) % U32 /\ U32 \in Nat /\ MaxStep \in Nat
      /\ MaxStep + 1 < U32
  BY Numbers DEF DC!next_step
<1>9. /\ h \in Nat /\ q \in Nat /\ g \in Nat /\ c \in Nat /\ n \in Nat
      /\ q <= h + 1 /\ q <= MaxStep + 2 /\ h <= c /\ g < q
      /\ U32 \in Nat /\ MaxStep \in Nat /\ MaxStep + 1 < U32
  BY <1>1, <1>2, <1>3, <1>5
<1>6. CASE o \in S
  <2> HIDE DEF g, h, c, q, n
  <2>1. c = n + 1
    <3>1. g = n + 1 /\ (c = n \/ c = n + 1)
      BY <1>4, <1>6
    <3>2. QED
      BY ONLY <1>9, <3>1
  <2>2. S = Ports
    <3>1. n # n + 1
      BY <1>2
    <3>2. QED
      BY <1>4, <2>1, <3>1
  <2>7. g = n + 1
    BY <1>4, <1>6
  <2>3. g = n + 1 /\ h = n + 1 /\ q = n + 2 /\ n + 1 < U32
    BY ONLY <1>9, <2>1, <2>7
  <2>4. (n + 1) % U32 = n + 1
    BY <1>2, <1>5, <2>3
  <2>5. link[s][d] = << >>
    BY <1>1, <1>3, <2>1, <2>3
  <2>6. QED
    BY <1>3, <1>5, <2>1, <2>2, <2>3, <2>4, <2>5
       DEF next_due, g, h, c, q, n
<1>7. CASE o \notin S
  <2>1. S # Ports
    BY <1>7
  <2> HIDE DEF g, h, c, q, n
  <2>2. c = n /\ g = n
    BY <1>4, <1>7, <2>1
  <2>3. h = n /\ q = n + 1 /\ n < U32 /\ U32 > 1
    BY ONLY <1>9, <2>2
  <2>4. (n + 1) % U32 # n
    <3>1. CASE n + 1 < U32
      BY <1>2, <1>5, <3>1
    <3>2. CASE n + 1 = U32
      BY <1>2, <1>5, <2>3, <3>2
    <3>3. QED
      BY <1>2, <1>5, <2>3, <3>1, <3>2
  <2>5. link[s][d] = << >>
    BY <1>1, <1>3, <2>2, <2>3
  <2>6. QED
    BY <1>3, <1>5, <1>7, <2>1, <2>2, <2>3, <2>4, <2>5
       DEF query_due, g, h, c, q, n
<1>8. QED
  BY <1>6, <1>7

(* A turn that counts the query of port o: the query has left the edge.    *)
CountsQuery(d, o) ==
  /\ OnlyData(d) /\ errors' = errors
  /\ complete(d)' = complete(d)
  /\ heard(d, o)' = queried(syndrome_at[d][o])
  /\ \A q \in Ports : q # o => heard(d, q)' = heard(d, q)
  /\ link'[d][syndrome_at[d][o]] = << >>
  /\ \A x \in Cells \cup {"phi"} :
       x # syndrome_at[d][o] => link'[d][x] = link[d][x]
  /\ \A q \in Ports : link'[syndrome_at[d][q]][d] = link[syndrome_at[d][q]][d]

(* A step of a data cell that counts a query keeps the invariant if it     *)
(* keeps the cell's own part.                                              *)
LEMMA DataCountsQuery ==
  ASSUME IInv, NEW d \in Datas, NEW o \in Ports, CountsQuery(d, o),
         (data(d) \in DataData)', Typed(d)', DataPhases(d)', Stage(d)', Hosted(d)'
  PROVE  IInv'
<1>1. AboutData(d) /\ OnlyData(d) /\ d \notin Syndromes
  BY DataFacts, NoiseMeshAssumption DEF CountsQuery
<1>2. \A q \in Ports : Edge(syndrome_at[d][q], opposite[q])'
  <2> TAKE q \in Ports
  <2> DEFINE s == syndrome_at[d][q]
             p == opposite[q]
  <2>1. /\ s \in Syndromes /\ p \in Ports /\ s \in Cells /\ s # d
        /\ \A r \in Ports : syndrome_at[d][r] = s => r = q
    BY DataEdges
  <2>2. /\ from_data(d, q) /\ queried(s) \in Nat
    BY EdgeCounts
  <2>3. rt'[s] = rt[s] /\ errors' = errors /\ first_quiet' = first_quiet
    BY <1>1, <2>1 DEF OnlyData, CountsQuery
  <2>4. heard(s, p)' = heard(s, p) /\ queried(s)' = queried(s)
    BY <2>3 DEF heard, queried, data
  <2>5. complete(d)' = complete(d) /\ link'[s][d] = link[s][d]
    BY DEF CountsQuery
  <2>6. report(d, heard(s, p), p)' = report(d, heard(s, p), p)
    BY <2>3, <2>4 DEF report, error, quiet
  <2>7. CASE q = o
    <3>1. heard(d, q)' = queried(s) /\ link'[d][s] = << >>
      BY <2>7 DEF CountsQuery
    <3>2. ~(queried(s) < queried(s)) /\ queried(s) <= queried(s)
      BY <2>2
    <3> HIDE DEF s, p
    <3>3. from_data(d, q)'
      BY <2>2, <2>4, <2>5, <2>6, <3>1, <3>2 DEF from_data, s, p
    <3>4. QED
      BY <3>3, FromData
  <2>8. CASE q # o
    <3>1. heard(d, q)' = heard(d, q) /\ link'[d][s] = link[d][s]
      BY <2>1, <2>8 DEF CountsQuery
    <3> HIDE DEF s, p
    <3>2. from_data(d, q)'
      BY <2>2, <2>4, <2>5, <2>6, <3>1 DEF from_data, s, p
    <3>3. QED
      BY <3>2, FromData
  <2>9. QED
    BY <2>7, <2>8
<1>3. /\ \A x \in Cells :
           (\A p \in Ports : syndrome_at[d][p] # x) => link'[d][x] = << >>
      /\ link'[d]["phi"] = << >>
  <2>1. "phi" # syndrome_at[d][o]
    BY DataEdges, Others
  <2>2. QED
    BY <1>1, <2>1 DEF AboutData, CountsQuery
<1>4. QED
  BY <1>1, <1>2, <1>3, DataStep DEF AboutData

(* What one more port does to the counts of a cell.                        *)
LEMMA HeardOneMore ==
  ASSUME NEW d, NEW o \in Ports \ data(d).seen_sources, data(d).step \in Nat,
         data(d).seen_sources \cup {o} # Ports,
         data(d)'.step = data(d).step,
         data(d)'.seen_sources = data(d).seen_sources \cup {o}
  PROVE  /\ complete(d)' = complete(d)
         /\ heard(d, o)' = data(d).step + 1
         /\ \A q \in Ports : q # o => heard(d, q)' = heard(d, q)
<1>1. data(d).seen_sources # Ports
  OBVIOUS
<1>2. complete(d)' = complete(d)
  BY <1>1 DEF complete, one_if
<1>3. heard(d, o)' = data(d).step + 1
  BY DEF heard, one_if
<1>4. \A q \in Ports : q # o => heard(d, q)' = heard(d, q)
  BY DEF heard, one_if
<1>5. QED
  BY <1>2, <1>3, <1>4

(* The first query of the next round: the data cell counts afresh.         *)
LEMMA HeardNextRound ==
  ASSUME NEW d, NEW o \in Ports, data(d).step \in Nat,
         data(d).seen_sources = Ports,
         data(d)'.step = data(d).step + 1, data(d)'.seen_sources = {o}
  PROVE  /\ complete(d)' = complete(d)
         /\ heard(d, o)' = data(d).step + 2
         /\ \A q \in Ports : q # o => heard(d, q)' = heard(d, q)
<1>1. {o} # Ports
  BY Numbers
<1> DEFINE n == data(d).step
<1>2. n \in Nat
  OBVIOUS
<1>3. complete(d) = n + 1 /\ complete(d)' = (n + 1) + 0
  BY <1>1 DEF complete, one_if
<1>4. heard(d, o)' = (n + 1) + 1
  BY DEF heard, one_if
<1>5. \A q \in Ports : q # o => heard(d, q)' = (n + 1) + 0 /\ heard(d, q) = n + 1
  BY DEF heard, one_if
<1> HIDE DEF n
<1>6. (n + 1) + 0 = n + 1 /\ (n + 1) + 1 = n + 2
  BY ONLY <1>2
<1>7. heard(d, o)' = n + 2
  BY <1>4, <1>6
<1>8. QED
  BY <1>3, <1>5, <1>6, <1>7 DEF n

(* The links of a data cell from which the query of port o has been taken. *)
taken(d, o, L) ==
  /\ L[d][syndrome_at[d][o]] = << >>
  /\ \A x \in Senders : x # syndrome_at[d][o] => L[d][x] = link[d][x]

(* The query has left its queue.                                           *)
LEMMA Taken ==
  ASSUME NEW d \in Datas, NEW o \in Ports, NEW r, NEW k, NEW L,
         NEW m, link[d][syndrome_at[d][o]] = <<m>>,
         admitted(d, syndrome_at[d][o], r, k, L)
  PROVE  taken(d, o, L) /\ r.mailbox[k].message = m
<1>1. Tail(<<m>>) = << >> /\ Head(<<m>>) = m
  BY Short
<1>2. QED
  BY <1>1 DEF admitted, taken

(* A query of the present round that is not the last.                      *)
LEMMA DataHearsQuery ==
  ASSUME IInv, NEW d \in Datas, Running(d), NEW o \in Ports, NEW r, NEW k,
         NEW L, admitted(d, syndrome_at[d][o], r, k, L), query_due(d, o),
         data(d).seen_sources \cup {o} # Ports, NEW noise,
         finish_data(d, r, k, L,
           DC!handle_cast(SC!phenom_query(data(d).step, o), rt[d].phase, data(d),
                          noise)),
         UNCHANGED Rest
  PROVE  IInv'
<1> DEFINE e == seen_by(data(d), o)
           phase == rt[d].phase
           mailbox == << >>
           s == syndrome_at[d][o]
<1>1. /\ data(d) \in DataData /\ first_quiet \in Nat /\ record(r)
      /\ AboutData(d) /\ Globals /\ complete(d) \in Nat /\ d \in Cells
      /\ outgoing(L, d) /\ connected(rt[d]) /\ data(d).step \in Nat
      /\ data(d).seen_sources \subseteq Ports
  BY DataFacts, Others DEF Running, admitted
<1>2. /\ o \in Ports \ data(d).seen_sources /\ data(d).seen_sources # Ports
      /\ link[d][s] = <<SC!phenom_query(data(d).step, o)>>
      /\ queried(s) = data(d).step + 1 /\ DC!next_step(data(d).step) # data(d).step
  BY DEF query_due
<1>3. /\ phase \in {"collecting", "replying"} /\ r.phase = phase
      /\ phase = "replying" => data(d).reply_resume = "collecting"
  BY <1>1, <1>2 DEF AboutData, DataPhases, Running, admitted
<1>4. /\ e \in DataData /\ e.step = data(d).step
      /\ e.seen_sources = data(d).seen_sources \cup {o}
      /\ e.noise_disabled = data(d).noise_disabled
      /\ e.cutoff_armed = data(d).cutoff_armed
      /\ e.cutoff_step = data(d).cutoff_step
      /\ e.reply_resume = data(d).reply_resume
      /\ e.accumulated_pauli = data(d).accumulated_pauli
  BY <1>1 DEF seen_by, DataData
<1>5. finish_data(d, r, k, L, DC!conclude(phase, e, "consume"))
  <2> DEFINE c == data(d)
             f == rt[d].phase
  <2>1. /\ c \in DataData /\ o \in Ports \ c.seen_sources
        /\ f \in {"collecting", "replying"}
        /\ f = "replying" => c.reply_resume = "collecting"
        /\ c.seen_sources \cup {o} # Ports /\ DC!next_step(c.step) # c.step
    BY <1>1, <1>2, <1>3
  <2> HIDE DEF c, f
  <2>2. DC!handle_cast(SC!phenom_query(c.step, o), f, c, noise)
          = DC!conclude(f, seen_by(c, o), "consume")
    BY <2>1, DataHears
  <2>3. QED
    BY <2>2 DEF c, f
<1>6. RemoveAt(r.mailbox, k) = mailbox /\ phase # "repeat_phase"
  BY <1>3 DEF admitted
<1>7. taken(d, o, L)
  <2> DEFINE m == SC!phenom_query(data(d).step, o)
  <2>1. link[d][syndrome_at[d][o]] = <<m>>
    BY <1>2
  <2> HIDE DEF m
  <2>2. QED
    BY <2>1, Taken
<1> HIDE DEF e, phase, mailbox
<1>8. quiet_turn(d, phase, e, mailbox, L)
  BY <1>1, <1>3, <1>5, <1>6, DataTurns
<1>9. /\ data(d)' = e /\ OnlyData(d)
      /\ UNCHANGED <<errors, replies, asked, updates>>
      /\ connected(rt'[d]) /\ first_quiet' = first_quiet
      /\ rt'[d].phase = phase /\ rt'[d].mailbox = << >>
  BY <1>8 DEF quiet_turn, Rest, mailbox
<1>10. /\ complete(d)' = complete(d) /\ heard(d, o)' = queried(s)
       /\ \A q \in Ports : q # o => heard(d, q)' = heard(d, q)
  BY <1>1, <1>2, <1>4, <1>9, HeardOneMore
<1>11. /\ link'[d][s] = << >>
       /\ \A x \in Senders : x # s => link'[d][x] = link[d][x]
       /\ \A q \in Ports : link'[syndrome_at[d][q]][d] = link[syndrome_at[d][q]][d]
  BY <1>7, <1>8, DataEdges DEF quiet_turn, taken
<1>12. CountsQuery(d, o)
  <2>1. \A x \in Cells \cup {"phi"} : x \in Senders
    BY Others
  <2>2. QED
    BY <1>9, <1>10, <1>11, <2>1 DEF CountsQuery
<1>13. DataPhases(d)'
  BY <1>1, <1>2, <1>3, <1>4, <1>9 DEF AboutData, DataPhases, phase
<1>14. Stage(d)'
  <2>1. Running(d)'
    BY <1>3, <1>4, <1>9, <1>10 DEF Running
  <2>2. QED
    BY <2>1 DEF Stage
<1>15. Hosted(d)'
  <2>1. "host" \in Senders /\ "host" # s
    BY Others, DataEdges
  <2>2. link'[d]["host"] = link[d]["host"]
    BY <1>11, <2>1
  <2>3. data(d)'.accumulated_pauli = data(d).accumulated_pauli
    BY <1>4, <1>9
  <2>4. QED
    BY <1>1, <1>9, <1>10, <2>2, <2>3, HostedSame
<1>16. Typed(d)' /\ (data(d) \in DataData)'
  BY <1>4, <1>8 DEF quiet_turn
<1>17. QED
  BY <1>12, <1>13, <1>14, <1>15, <1>16, DataCountsQuery

(* The first query of the next round.                                      *)
first_query(q, o) == DC!first_of_next_round(q, SC!phenom_query(q.step + 1, o))

(* The first query of the next round keeps the invariant.                  *)
LEMMA DataBeginsRound ==
  ASSUME IInv, NEW d \in Datas, Running(d), NEW o \in Ports, NEW r, NEW k,
         NEW L, admitted(d, syndrome_at[d][o], r, k, L), next_due(d, o),
         NEW noise,
         finish_data(d, r, k, L,
           DC!handle_cast(SC!phenom_query(data(d).step + 1, o), rt[d].phase,
                          data(d), noise)),
         UNCHANGED Rest
  PROVE  IInv'
<1> DEFINE e == first_query(data(d), o)
           phase == "collecting"
           mailbox == << >>
           s == syndrome_at[d][o]
           concl == DC!conclude("collecting", e, "consume")
<1>1. /\ data(d) \in DataData /\ first_quiet \in Nat /\ record(r)
      /\ AboutData(d) /\ Globals /\ complete(d) \in Nat /\ d \in Cells
      /\ outgoing(L, d) /\ connected(rt[d]) /\ data(d).step \in Nat
      /\ data(d).seen_sources \subseteq Ports
  BY DataFacts, Others DEF Running, admitted
<1>2. /\ data(d).seen_sources = Ports
      /\ link[d][s] = <<SC!phenom_query(data(d).step + 1, o)>>
      /\ queried(s) = data(d).step + 2
      /\ DC!next_step(data(d).step) = data(d).step + 1
  BY DEF next_due
<1>3. /\ rt[d].phase \in {"reporting", "replying"} /\ r.phase = rt[d].phase
      /\ rt[d].phase = "replying" => data(d).reply_resume = "reporting"
  BY <1>1, <1>2 DEF AboutData, DataPhases, Running, admitted
<1>4. /\ e \in DataData /\ e.step = data(d).step + 1
      /\ e.seen_sources = {o}
      /\ e.noise_disabled = data(d).noise_disabled
      /\ e.cutoff_armed = data(d).cutoff_armed
      /\ e.cutoff_step = data(d).cutoff_step
      /\ e.accumulated_pauli = data(d).accumulated_pauli
  <2> DEFINE n == data(d).step + 1
  <2>1. n \in Nat
    BY <1>1
  <2> HIDE DEF n
  <2>2. e = [data(d) EXCEPT !.step = n, !.seen_sources = {o}, !.event = 0]
    BY DEF first_query, DC!first_of_next_round, SC!phenom_query, n
  <2> HIDE DEF e
  <2>3. /\ e \in DataData /\ e.step = n /\ e.seen_sources = {o}
        /\ e.noise_disabled = data(d).noise_disabled
        /\ e.cutoff_armed = data(d).cutoff_armed
        /\ e.cutoff_step = data(d).cutoff_step
        /\ e.accumulated_pauli = data(d).accumulated_pauli
    BY <1>1, <2>1, <2>2 DEF DataData, Bit
  <2>4. QED
    BY <2>3 DEF n
<1>5. finish_data(d, r, k, L, concl)
  <2> DEFINE c == data(d)
             f == rt[d].phase
             n == data(d).step + 1
  <2>1. /\ c \in DataData /\ f \in {"reporting", "replying"}
        /\ f = "replying" => c.reply_resume = "reporting"
        /\ n = DC!next_step(c.step) /\ n = c.step + 1
    BY <1>1, <1>2, <1>3
  <2> HIDE DEF c, f, n
  <2>2. DC!handle_cast(SC!phenom_query(n, o), f, c, noise)
          = DC!conclude("collecting",
              DC!first_of_next_round(c, SC!phenom_query(n, o)), "consume")
    BY <2>1, DataBegins
  <2>3. DC!first_of_next_round(c, SC!phenom_query(n, o)) = first_query(c, o)
    BY <2>1 DEF first_query
  <2>4. QED
    BY <2>2, <2>3 DEF c, f, n
<1>6. /\ concl.directive = "consume" /\ e = concl.data
      /\ enters(r, concl, phase) /\ phase = "collecting"
  BY <1>3 DEF DC!conclude, enters
<1>7. taken(d, o, L)
  <2> DEFINE m == SC!phenom_query(data(d).step + 1, o)
  <2>1. link[d][syndrome_at[d][o]] = <<m>>
    BY <1>2
  <2> HIDE DEF m
  <2>2. QED
    BY <2>1, Taken
<1> HIDE DEF e, phase, mailbox, concl
<1>8. data_enters(d, r, k, L, phase, e)
  BY <1>1, <1>5, <1>6, DataMoves
<1>9. /\ Becomes(d, phase, e, mailbox) /\ link' = L /\ replies' = replies
      /\ UNCHANGED <<announcements, announced, errors>>
  <2>1. link' = L
    BY <1>1, <1>6, <1>8, DataEntersSilently DEF data_enters
  <2>2. replies' = replies
    <3>1. DC!handle_enter(phase, e)["measurement"] = << >>
      BY <1>6, DataCasts
    <3>2. replies[d] \in Seq(Reply)
      BY <1>1 DEF Globals
    <3>3. replies[d] \o << >> = replies[d]
      BY <3>2
    <3>4. QED
      BY <1>8, <3>1, <3>3, Functions DEF data_enters
  <2>3. errors' = errors
    BY <1>6, <1>8, Functions DEF data_enters
  <2>4. released(RemoveAt(r.mailbox, k)) = mailbox
    BY ShortRelease DEF admitted, mailbox
  <2>5. QED
    BY <1>8, <2>1, <2>2, <2>3, <2>4 DEF data_enters
<1>10. /\ OnlyData(d)
       /\ \A x \in Senders : link'[d][x] = L[d][x]
       /\ \A p \in Ports :
            link'[syndrome_at[d][p]][d] = link[syndrome_at[d][p]][d]
  <2>1. /\ replies' \in [Datas -> Seq(Reply)]
        /\ \A u \in Datas : u # d => replies'[u] = replies[u]
    BY <1>1, <1>9 DEF Globals
  <2>2. QED
    BY <1>1, <1>9, <2>1, QuietTurn
<1>11. /\ rt'[d].lifecycle = "connected" /\ connected(rt'[d])
       /\ rt'[d].phase = phase /\ rt'[d].mailbox = mailbox
       /\ data(d)' = e /\ Typed(d)'
  BY <1>1, <1>9, Became
<1>12. /\ complete(d)' = complete(d) /\ heard(d, o)' = queried(s)
       /\ \A q \in Ports : q # o => heard(d, q)' = heard(d, q)
  BY <1>1, <1>2, <1>4, <1>11, HeardNextRound
<1>13. /\ link'[d][s] = << >>
       /\ \A x \in Senders : x # s => link'[d][x] = link[d][x]
  BY <1>7, <1>10, DataEdges DEF taken
<1>14. CountsQuery(d, o)
  <2>1. \A x \in Cells \cup {"phi"} : x \in Senders
    BY Others
  <2>2. QED
    BY <1>9, <1>10, <1>12, <1>13, <2>1 DEF CountsQuery
<1>15. DataPhases(d)'
  <2>1. {o} # Ports
    BY Numbers
  <2>2. QED
    BY <1>4, <1>6, <1>11, <2>1 DEF DataPhases
<1>16. first_quiet' = first_quiet /\ UNCHANGED <<errors, replies, asked, updates>>
  BY <1>9 DEF Rest
<1>17. Stage(d)'
  <2>1. Running(d)'
    BY <1>4, <1>6, <1>11, <1>12, <1>16 DEF Running, mailbox
  <2>2. QED
    BY <2>1 DEF Stage
<1>18. Hosted(d)'
  <2>1. "host" \in Senders /\ "host" # s
    BY Others, DataEdges
  <2>2. link'[d]["host"] = link[d]["host"]
    BY <1>13, <2>1
  <2>3. data(d)'.accumulated_pauli = data(d).accumulated_pauli
    BY <1>4, <1>11
  <2>4. QED
    BY <1>1, <1>11, <1>12, <1>16, <2>2, <2>3, HostedSame
<1>19. (data(d) \in DataData)'
  BY <1>4, <1>11
<1>20. QED
  BY <1>11, <1>14, <1>15, <1>17, <1>18, <1>19, DataCountsQuery

(* The end of a round at a data cell: flip is its error.                   *)
ends_as(q, e, flip) ==
  /\ e \in DataData
  /\ e.step = q.step /\ e.seen_sources = q.seen_sources /\ e.event = flip
  /\ e.noise_disabled = one_if(cut_off(q))
  /\ e.cutoff_armed = IF q.cutoff_armed = 1 /\ q.step >= q.cutoff_step
                      THEN 0 ELSE q.cutoff_armed
  /\ e.cutoff_step = q.cutoff_step
  /\ e.accumulated_pauli = [x |-> xor(q.accumulated_pauli.x, flip),
                            z |-> xor(q.accumulated_pauli.z, flip)]

(* An error multiplies the frame by Y.                                     *)
LEMMA Flips ==
  ASSUME NEW a \in [x : Bit, z : Bit], NEW flip \in Bit,
         NEW b, b = IF flip = 1 THEN DC!multiply(a, DC!y) ELSE a
  PROVE  b = [x |-> xor(a.x, flip), z |-> xor(a.z, flip)]
         /\ b \in [x : Bit, z : Bit]
<1>1. a.x \in Bit /\ a.z \in Bit
  OBVIOUS
<1>2. CASE flip = 1
  <2>1. DC!y.x = 1 /\ DC!y.z = 1
    BY DEF DC!y
  <2>2. b = [x |-> DC!xor(a.x, 1), z |-> DC!xor(a.z, 1)]
    BY <1>2, <2>1 DEF DC!multiply
  <2>3. /\ DC!xor(a.x, 1) = xor(a.x, 1) /\ DC!xor(a.z, 1) = xor(a.z, 1)
        /\ xor(a.x, 1) \in Bit /\ xor(a.z, 1) \in Bit
    BY <1>1 DEF DC!xor, xor, Bit
  <2>4. b = [x |-> xor(a.x, 1), z |-> xor(a.z, 1)]
    BY <2>2, <2>3
  <2>5. b \in [x : Bit, z : Bit]
    BY <2>3, <2>4
  <2>6. QED
    BY <1>2, <2>4, <2>5
<1>3. CASE flip = 0
  <2>1. xor(a.x, 0) = a.x /\ xor(a.z, 0) = a.z
    BY <1>1, Xor
  <2>2. a = [x |-> a.x, z |-> a.z] /\ b = a
    BY <1>3
  <2>3. b = [x |-> xor(a.x, 0), z |-> xor(a.z, 0)]
    BY <2>1, <2>2
  <2>4. QED
    BY <1>3, <2>2, <2>3
<1>4. QED
  BY <1>2, <1>3 DEF Bit

(* The end of a round: an error, unless the noise is off.                  *)
LEMMA Sampled ==
  ASSUME NEW q \in DataData, NEW noise \in Bit
  PROVE  ends_as(q, DC!sampled(q, noise), IF cut_off(q) THEN 0 ELSE noise)
<1> DEFINE flip == IF cut_off(q) THEN 0 ELSE noise
           off == one_if(cut_off(q))
           a == q.accumulated_pauli
           b == IF flip = 1 THEN DC!multiply(a, DC!y) ELSE a
           g == IF q.cutoff_armed = 1 /\ q.step >= q.cutoff_step
                THEN 0 ELSE q.cutoff_armed
           e == DC!sampled(q, noise)
<1>1. flip \in Bit /\ off \in Bit
  BY DEF Bit, one_if
<1>2. a \in [x : Bit, z : Bit]
  BY DEF DataData
<1>3. g \in Bit
  BY DEF DataData, Bit
<1>4. e = [q EXCEPT !.event = flip, !.accumulated_pauli = b,
                    !.noise_disabled = off, !.cutoff_armed = g]
  <2>1. (q.noise_disabled = 1 \/ DC!cutoff_applies(q)) <=> cut_off(q)
    BY DEF cut_off, DC!cutoff_applies
  <2>2. DC!bit(q.noise_disabled = 1 \/ DC!cutoff_applies(q)) = off
    BY <2>1 DEF DC!bit, one_if
  <2>3. (IF q.noise_disabled = 1 \/ DC!cutoff_applies(q) THEN 0 ELSE noise) = flip
    BY <2>1
  <2>4. (IF DC!cutoff_applies(q) THEN 0 ELSE q.cutoff_armed) = g
    BY DEF DC!cutoff_applies
  <2> HIDE DEF off, g, flip
  <2>5. QED
    BY <2>2, <2>3, <2>4 DEF DC!sampled
<1>5. /\ b = [x |-> xor(a.x, flip), z |-> xor(a.z, flip)]
      /\ b \in [x : Bit, z : Bit]
  <2> DEFINE c == b
  <2>1. c = IF flip = 1 THEN DC!multiply(a, DC!y) ELSE a
    OBVIOUS
  <2> HIDE DEF c, flip, a
  <2>2. /\ c = [x |-> xor(a.x, flip), z |-> xor(a.z, flip)]
        /\ c \in [x : Bit, z : Bit]
    BY <1>1, <1>2, <2>1, Flips
  <2>3. QED
    BY <2>2 DEF c
<1> HIDE DEF flip, off, a, b, g, e
<1>6. /\ e \in DataData
      /\ e.step = q.step /\ e.seen_sources = q.seen_sources /\ e.event = flip
      /\ e.noise_disabled = off /\ e.cutoff_armed = g
      /\ e.cutoff_step = q.cutoff_step /\ e.accumulated_pauli = b
  BY <1>1, <1>3, <1>4, <1>5 DEF DataData
<1>7. QED
  BY <1>5, <1>6 DEF ends_as, flip, off, g, e, a

(* A round that ends while the cell replies has no error.                  *)
LEMMA EndedQuietly ==
  ASSUME NEW q \in DataData, q.noise_disabled = 1, q.cutoff_armed = 0
  PROVE  ends_as(q, [q EXCEPT !.event = 0], 0)
<1> DEFINE e == [q EXCEPT !.event = 0]
           a == q.accumulated_pauli
<1>1. a = [x |-> xor(a.x, 0), z |-> xor(a.z, 0)]
  <2>1. a \in [x : Bit, z : Bit]
    BY DEF DataData
  <2>2. a.x \in Bit /\ a.z \in Bit /\ a = [x |-> a.x, z |-> a.z]
    BY <2>1
  <2>3. xor(a.x, 0) = a.x /\ xor(a.z, 0) = a.z
    BY <2>2, Xor
  <2>4. QED
    BY <2>2, <2>3
<1>2. /\ e \in DataData
      /\ e.step = q.step /\ e.seen_sources = q.seen_sources /\ e.event = 0
      /\ e.noise_disabled = 1 /\ e.cutoff_armed = 0
      /\ e.cutoff_step = q.cutoff_step /\ e.accumulated_pauli = a
  BY DEF DataData, Bit
<1> HIDE DEF e, a
<1>3. one_if(cut_off(q)) = 1
  BY DEF one_if, cut_off
<1>4. QED
  BY <1>1, <1>2, <1>3 DEF ends_as, e, a

(* With the last query of a round, every syndrome around waits for its     *)
(* report.                                                                 *)
waited_for(d, q, n, L) ==
  LET s == syndrome_at[d][q]
  IN  /\ heard(s, opposite[q]) = n /\ queried(s) = n + 1
      /\ link[s][d] = << >> /\ L[d][s] = << >>

(* With the last query of a round every syndrome around is waiting for     *)
(* its report.                                                             *)
LEMMA AllWait ==
  ASSUME IInv, NEW d \in Datas, NEW o \in Ports, query_due(d, o),
         data(d).seen_sources \cup {o} = Ports, NEW L, taken(d, o, L)
  PROVE  \A q \in Ports : waited_for(d, q, data(d).step, L)
<1> TAKE q \in Ports
<1> DEFINE s == syndrome_at[d][q]
           p == opposite[q]
           n == data(d).step
           h == heard(s, p)
           c == complete(d)
           w == queried(s)
<1>1. /\ s \in Syndromes /\ p \in Ports /\ from_data(d, q)
      /\ h \in Nat /\ w \in Nat /\ c \in Nat
      /\ w <= h + 1 /\ h <= c /\ heard(d, q) <= w
  <2> HIDE DEF s, p
  <2>1. s = syndrome_at[d][q] /\ p = opposite[q]
    BY DEF s, p
  <2>2. QED
    BY <2>1, EdgeCounts
<1>2. n \in Nat /\ c = n
  BY DataFacts DEF query_due
<1>3. CASE q = o
  <2>1. L[d][s] = << >>
    BY <1>3 DEF taken
  <2>2. QED
    BY <1>3, <2>1 DEF query_due, waited_for
<1>4. CASE q # o
  <2>1. q \in data(d).seen_sources
    BY <1>4
  <2>2. heard(d, q) = n + 1
    BY <2>1 DEF heard, one_if
  <2>3. n + 1 <= w
    BY <1>1, <2>2
  <2> HIDE DEF n, h, c, w
  <2>4. h = n /\ w = n + 1
    BY ONLY <1>1, <1>2, <2>3
  <2>5. link[s][d] = << >> /\ link[d][s] = << >>
    <3>1. ~(h < c) /\ ~(heard(d, q) < w)
      BY <1>1, <1>2, <2>2, <2>4
    <3>2. QED
      BY <1>1, <3>1 DEF from_data, h, c, w
  <2>6. L[d][s] = << >>
    <3>1. s # syndrome_at[d][o] /\ s \in Senders
      BY <1>4, DataEdges
    <3>2. QED
      BY <2>5, <3>1 DEF taken
  <2>7. QED
    BY <2>4, <2>5, <2>6 DEF waited_for, h, w, n
<1>5. QED
  BY <1>3, <1>4

(* A cell that ends its round: it reports on every port, and its history   *)
(* grows by flip.                                                          *)
reports_round(d, e, flip, L) ==
  /\ Becomes(d, "reporting", e, << >>)
  /\ carries(L, link', d, DC!handle_enter("reporting", e))
  /\ errors' = [errors EXCEPT ![d] = Append(@, xor(parity(@), flip))]
  /\ UNCHANGED <<announcements, announced, replies>>

(* The turn in which a data cell ends its round.                           *)
LEMMA DataEntersReporting ==
  ASSUME IInv, NEW d \in Datas, NEW r, record(r), NEW k, NEW L, outgoing(L, d),
         RemoveAt(r.mailbox, k) = << >>, r.phase # "reporting", NEW e, NEW flip,
         e.event = flip,
         finish_data(d, r, k, L, DC!conclude("reporting", e, "consume"))
  PROVE  reports_round(d, e, flip, L)
<1> DEFINE phase == "reporting"
           concl == DC!conclude("reporting", e, "consume")
<1>1. /\ concl.directive = "consume" /\ e = concl.data
      /\ enters(r, concl, phase) /\ phase = "reporting"
      /\ finish_data(d, r, k, L, concl)
  BY DEF DC!conclude, enters
<1> HIDE DEF phase, concl
<1>2. data_enters(d, r, k, L, phase, e)
  BY <1>1, DataMoves
<1>3. replies' = replies
  <2>1. DC!handle_enter(phase, e)["measurement"] = << >>
    BY <1>1, DataCasts
  <2>2. replies[d] \in Seq(Reply)
    BY CellByCell DEF About, Globals
  <2>3. replies[d] \o << >> = replies[d]
    BY <2>2
  <2>4. QED
    BY <1>2, <2>1, <2>3, Functions DEF data_enters
<1>4. released(<< >>) = << >>
  BY ShortRelease
<1>5. QED
  BY <1>1, <1>2, <1>3, <1>4 DEF data_enters, reports_round

(* What changes when a round ends.                                         *)
RoundEnds(d, e, flip, L) ==
  /\ OnlyData(d)
  /\ rt'[d].lifecycle = "connected" /\ connected(rt'[d])
  /\ rt'[d].phase = "reporting" /\ rt'[d].mailbox = << >>
  /\ data(d)' = e /\ Typed(d)'
  /\ \A x \in Senders : link'[d][x] = L[d][x]
  /\ \A q \in Ports :
       link'[syndrome_at[d][q]][d]
         = link[syndrome_at[d][q]][d] \o <<DC!phenom_data(e, opposite[q])>>
  /\ replies' = replies
  /\ errors'[d] = Append(errors[d], xor(parity(errors[d]), flip))

(* What that turn does to the queues and the histories.                    *)
LEMMA DataRoundEnds ==
  ASSUME IInv, NEW d \in Datas, NEW e, NEW flip \in Bit, NEW L, outgoing(L, d),
         reports_round(d, e, flip, L), UNCHANGED Rest
  PROVE  RoundEnds(d, e, flip, L)
<1>1. /\ d \in Cells /\ d \in Senders /\ Globals /\ neighbor_at(d) = syndrome_at[d]
      /\ errors \in [Datas -> Seq(Bit)] /\ errors[d] \in Seq(Bit)
      /\ replies \in [Datas -> Seq(Reply)] /\ updates \in [Datas -> Nat]
  BY Others, NeighborOf, CellByCell DEF About, Globals
<1> DEFINE phase == "reporting"
           mailbox == << >>
           casts == DC!handle_enter("reporting", e)
           g == Append(errors[d], xor(parity(errors[d]), flip))
<1>2. Becomes(d, phase, e, mailbox)
  BY DEF reports_round
<1>3. /\ phase = "reporting" /\ mailbox = << >>
      /\ carries(L, link', d, casts)
      /\ errors' = [errors EXCEPT ![d] = g]
      /\ UNCHANGED <<announcements, announced, replies>>
  BY DEF reports_round
<1>4. \A q \in Ports : casts[q] = <<DC!phenom_data(e, opposite[q])>>
  BY DataCasts
<1>5. /\ g \in Seq(Bit) /\ Len(g) = Len(errors[d]) + 1 /\ Len(errors[d]) \in Nat
      /\ \A n \in 1 .. Len(errors[d]) : g[n] = errors[d][n]
  <2> DEFINE b == xor(parity(errors[d]), flip)
             h == errors[d]
             l == Append(h, b)
  <2>1. b \in Bit /\ h \in Seq(Bit)
    BY <1>1, Parity, Xor
  <2> HIDE DEF b, h
  <2>2. l \in Seq(Bit) /\ Len(l) = Len(h) + 1 /\ Len(h) \in Nat
    BY <2>1
  <2>3. \A n \in 1 .. Len(h) : l[n] = h[n]
    BY <2>1
  <2> HIDE DEF l
  <2>4. g = l
    BY DEF l, h, b
  <2>5. QED
    BY <2>2, <2>3, <2>4 DEF h
<1> HIDE DEF phase, mailbox, casts, g
<1>6. /\ rt'[d].lifecycle = "connected" /\ connected(rt'[d])
      /\ rt'[d].phase = phase /\ rt'[d].mailbox = mailbox
      /\ data(d)' = e /\ Typed(d)'
      /\ rt' = [u \in Cells |-> rt'[u]]
      /\ \A u \in Cells : u # d => rt'[u] = rt[u]
  BY <1>1, <1>2, Became
<1>7. /\ formed(link')
      /\ \A u \in Cells, v \in Senders : u # d /\ v # d => link'[u][v] = link[u][v]
      /\ \A u \in Cells :
           u # d /\ (\A p \in Ports : syndrome_at[d][p] # u) =>
             link'[u][d] = link[u][d]
  BY <1>1, <1>3 DEF carries, outgoing
<1>8. \A x \in Senders : link'[d][x] = L[d][x]
  <2>1. \A p \in Ports : syndrome_at[d][p] # d
    BY <1>1, Neighbors
  <2>2. QED
    BY <1>1, <1>3, <2>1 DEF carries
<1>9. \A q \in Ports :
        link'[syndrome_at[d][q]][d]
          = link[syndrome_at[d][q]][d] \o <<DC!phenom_data(e, opposite[q])>>
  <2> TAKE q \in Ports
  <2>1. link'[syndrome_at[d][q]][d] = L[syndrome_at[d][q]][d] \o casts[q]
    BY <1>1, <1>3 DEF carries
  <2>2. L[syndrome_at[d][q]][d] = link[syndrome_at[d][q]][d]
    <3>1. syndrome_at[d][q] \in Cells /\ syndrome_at[d][q] # d
      BY <1>1, Neighbors
    <3>2. QED
      BY <1>1, <3>1 DEF outgoing
  <2> DEFINE a == DC!phenom_data(e, opposite[q])
             l == link[syndrome_at[d][q]][d]
  <2>3. casts[q] = <<a>>
    BY <1>4
  <2>4. link'[syndrome_at[d][q]][d] = l \o <<a>>
    BY <2>1, <2>2, <2>3
  <2>5. QED
    BY <2>4
<1>10. /\ errors' \in [Datas -> Seq(Bit)] /\ errors'[d] = g
       /\ Len(errors[d]) <= Len(errors'[d])
       /\ \A n \in 1 .. Len(errors[d]) : errors'[d][n] = errors[d][n]
       /\ \A u \in Datas : u # d => errors'[u] = errors[u]
  <2>1. errors'[d] = g
    BY <1>1, <1>3
  <2>2. /\ errors' \in [Datas -> Seq(Bit)]
        /\ \A u \in Datas : u # d => errors'[u] = errors[u]
    BY <1>1, <1>3, <1>5
  <2>3. Len(errors[d]) <= Len(g)
    BY <1>5
  <2>4. QED
    BY <1>5, <2>1, <2>2, <2>3
<1>11. OnlyData(d)
  BY <1>1, <1>3, <1>6, <1>7, <1>10 DEF OnlyData, Rest
<1>12. QED
  BY <1>3, <1>6, <1>8, <1>9, <1>10, <1>11 DEF RoundEnds, phase, mailbox, g

(* The reports of a round that ends.                                       *)
LEMMA ReportsOfRound ==
  ASSUME IInv, NEW d \in Datas, NEW e, NEW flip \in Bit, NEW L,
         RoundEnds(d, e, flip, L), NEW n, n = data(d).step, complete(d) = n,
         e.step = n, e.event = flip, e.noise_disabled = quiet(n)
  PROVE  \A p : DC!phenom_data(e, p) = report(d, n, p)'
<1> TAKE p
<1>1. Len(errors[d]) = n /\ errors[d] \in Seq(Bit)
  BY CellByCell DEF About, AboutData, Hosted, Globals
<1>2. /\ errors'[d] = Append(errors[d], xor(parity(errors[d]), flip))
      /\ first_quiet' = first_quiet
  BY DEF RoundEnds, OnlyData
<1> DEFINE h == errors[d]
           g == Append(h, xor(parity(h), flip))
<1>3. xor(parity_after(g, Len(h)), parity_after(g, Len(h) + 1)) = flip
  <2>1. h \in Seq(Bit) /\ g = Append(h, xor(parity(h), flip))
    BY <1>1
  <2> HIDE DEF h, g
  <2>2. QED
    BY <2>1, Grows
<1>4. xor(parity_after(errors'[d], n), parity_after(errors'[d], n + 1)) = flip
  BY <1>1, <1>2, <1>3
<1> HIDE DEF g, h
<1>5. error(d, n)' = flip /\ quiet(n)' = quiet(n)
  BY <1>2, <1>4 DEF error, quiet
<1>6. QED
  BY <1>5 DEF DC!phenom_data, report

(* Every edge has the report of the round then.                            *)
LEMMA RoundEndsEdges ==
  ASSUME IInv, NEW d \in Datas, NEW e, NEW flip \in Bit, NEW L,
         RoundEnds(d, e, flip, L), NEW n \in Nat, n = data(d).step,
         complete(d) = n, e.step = n, e.event = flip,
         e.noise_disabled = quiet(n), e.seen_sources = Ports,
         \A q \in Ports : waited_for(d, q, n, L)
  PROVE  \A q \in Ports : from_data(d, q)'
<1> TAKE q \in Ports
<1> DEFINE s == syndrome_at[d][q]
           p == opposite[q]
<1>1. /\ s \in Cells /\ s # d /\ s \in Senders /\ waited_for(d, q, n, L)
      /\ rt'[s] = rt[s] /\ first_quiet' = first_quiet
  <2>1. s \in Cells /\ s # d /\ s \in Senders
    BY DataEdges, NoiseMeshAssumption
  <2>2. QED
    BY <2>1 DEF RoundEnds, OnlyData
<1>2. /\ heard(s, p) = n /\ queried(s) = n + 1
      /\ link[s][d] = << >> /\ L[d][s] = << >>
  BY <1>1 DEF waited_for
<1>3. heard(s, p)' = n /\ queried(s)' = n + 1
  BY <1>1, <1>2 DEF heard, queried, data
<1>4. complete(d)' = n + 1 /\ heard(d, q)' = n + 1
  BY DEF RoundEnds, complete, heard, one_if
<1>5. DC!phenom_data(e, p) = report(d, n, p)'
  BY SMTT(60), ReportsOfRound
<1>6. link'[d][s] = << >> /\ link'[s][d] = <<DC!phenom_data(e, p)>>
  <2> DEFINE a == DC!phenom_data(e, p)
  <2>1. link'[s][d] = link[s][d] \o <<a>>
    BY DEF RoundEnds
  <2>2. << >> \o <<a>> = <<a>>
    <3> HIDE DEF a
    <3>1. QED
      BY Short
  <2>3. QED
    BY SMTT(60), <1>1, <1>2, <2>1, <2>2 DEF RoundEnds
<1>7. report(d, heard(s, p), p)' = report(d, n, p)'
  BY <1>3 DEF report, error, quiet
<1>8. n < n + 1 /\ ~(n + 1 < n + 1) /\ n <= n + 1 /\ n + 1 <= n + 1
  OBVIOUS
<1> HIDE DEF s, p
<1>9. /\ (heard(s, p) <= complete(d))' /\ (heard(d, q) <= queried(s))'
      /\ (heard(s, p) < complete(d))' /\ ~(heard(d, q) < queried(s))'
  BY <1>3, <1>4, <1>8
<1>10. link'[s][d] = <<report(d, heard(s, p), p)>>'
  BY <1>5, <1>6, <1>7
<1>11. QED
  BY <1>6, <1>9, <1>10 DEF from_data, s, p

(* The frame of the cell counts the error of the round.                    *)
LEMMA RoundEndsHosted ==
  ASSUME IInv, NEW d \in Datas, NEW e, NEW flip \in Bit, NEW L,
         RoundEnds(d, e, flip, L), NEW n \in Nat, n = data(d).step,
         complete(d) = n, e.step = n, e.event = flip, e.seen_sources = Ports,
         n >= first_quiet => flip = 0, connected(rt[d]),
         e.accumulated_pauli = [x |-> xor(data(d).accumulated_pauli.x, flip),
                                z |-> xor(data(d).accumulated_pauli.z, flip)],
         L[d]["host"] = link[d]["host"], UNCHANGED Rest
  PROVE  Hosted(d)'
<1> DEFINE h == errors[d]
           g == Append(h, xor(parity(h), flip))
           P == parity(h)
           w == (updates[d] - pending(d)) % 2
<1>1. /\ hosts(d) /\ Hosted(d) /\ Globals /\ first_quiet \in Nat
      /\ h \in Seq(Bit) /\ Len(h) = n
  <2>1. hosts(d) /\ Hosted(d) /\ Globals /\ first_quiet \in Nat
    BY Hosts, DataFacts
  <2>2. QED
    BY <2>1 DEF Globals, Hosted
<1>2. /\ errors'[d] = g /\ first_quiet' = first_quiet /\ data(d)' = e
      /\ connected(rt'[d])
      /\ UNCHANGED <<replies, updates, asked>>
      /\ link'[d]["host"] = link[d]["host"]
  BY Others DEF RoundEnds, Rest
<1>3. complete(d)' = n + 1
  BY <1>2 DEF complete, one_if
<1>4. /\ g \in Seq(Bit) /\ Len(g) = n + 1 /\ P \in Bit /\ parity(g) = xor(P, flip)
      /\ \A m \in Nat : m <= n => parity_after(g, m) = parity_after(h, m)
      /\ xor(parity_after(g, n), parity_after(g, n + 1)) = flip
  <2>1. h \in Seq(Bit) /\ flip \in Bit /\ Len(h) = n
    BY <1>1
  <2> DEFINE b == xor(parity(h), flip)
  <2>2. g = Append(h, xor(parity(h), flip))
    OBVIOUS
  <2> HIDE DEF h, g, P
  <2>3. grows(h, g, flip)
    BY <2>1, <2>2, Grown
  <2>4. QED
    BY <2>1, <2>3 DEF grows, P
<1>5. parity(errors[d])' = xor(P, flip)
  BY <1>2, <1>4 DEF parity, parity_after
<1> HIDE DEF g
<1>6. ASSUME NEW m \in Nat, m >= first_quiet, m < n + 1
      PROVE  error(d, m)' = 0
  <2>0. error(d, m)' = xor(parity_after(g, m), parity_after(g, m + 1))
    BY <1>2 DEF error
  <2>1. CASE m = n
    BY <1>4, <1>6, <2>0, <2>1
  <2>2. CASE m # n
    <3>1. m < n /\ m <= n /\ m + 1 <= n /\ m + 1 \in Nat
      BY <1>6, <2>2
    <3>2. /\ parity_after(g, m) = parity_after(h, m)
          /\ parity_after(g, m + 1) = parity_after(h, m + 1)
      BY <1>4, <3>1
    <3>3. error(d, m) = 0
      BY <1>1, <1>6, <3>1 DEF Hosted
    <3>4. QED
      BY <2>0, <3>2, <3>3 DEF error
  <2>3. QED
    BY <2>1, <2>2
<1>7. \A m \in Nat : m >= first_quiet' /\ m < complete(d)' => error(d, m)' = 0
  BY <1>2, <1>3, <1>6
<1>8. \A j \in DOMAIN replies[d] : answer(d, j)' = answer(d, j)
  <2>1. SUFFICES ASSUME NEW j \in DOMAIN replies[d]
                 PROVE  answer(d, j)' = answer(d, j)
    OBVIOUS
  <2>2. asked # << >>
    <3>1. Len(replies[d]) # 0
      <4>1. replies[d] \in Seq(Reply)
        BY <1>1 DEF Globals
      <4> DEFINE l == replies[d]
      <4>2. l \in Seq(Reply) /\ j \in DOMAIN l
        BY <4>1
      <4> HIDE DEF l
      <4>3. Len(l) # 0
        BY <4>2
      <4>4. QED
        BY <4>3 DEF l
    <3>2. /\ Len(replies[d]) <= Len(asked) /\ Len(replies[d]) \in Nat
          /\ Len(asked) \in Nat
      BY <1>1 DEF hosts
    <3>3. Len(asked) # 0
      BY <3>1, <3>2
    <3>4. QED
      BY <3>3
  <2>3. n >= first_quiet
    BY <1>1, <2>2, AskedWhenQuiet
  <2>4. xor(P, flip) = P
    BY <1>4, <2>3, Xor
  <2>5. QED
    BY <1>2, <1>5, <2>4 DEF answer
<1>9. pending(d)' = pending(d)
  BY <1>2 DEF pending, unanswered
<1>10. e.accumulated_pauli = [x |-> xor(P, flip), z |-> xor(xor(P, flip), w)]
  <2>1. data(d).accumulated_pauli = [x |-> P, z |-> xor(P, w)]
    BY <1>1 DEF hosts
  <2>2. e.accumulated_pauli = [x |-> xor(P, flip), z |-> xor(xor(P, w), flip)]
    BY <2>1
  <2>3. w \in Bit
    <3> DEFINE u == updates[d]
               v == pending(d)
    <3>1. u \in Nat /\ v \in 0 .. u
      BY <1>1 DEF hosts
    <3> HIDE DEF u, v
    <3>2. (u - v) % 2 \in {0, 1}
      BY <3>1
    <3>3. QED
      BY <3>2 DEF u, v, Bit
  <2> HIDE DEF w, P
  <2>4. xor(xor(P, w), flip) = xor(xor(P, flip), w)
    BY <1>4, <2>3, Xor
  <2>5. QED
    BY <2>2, <2>4
<1>11. (data(d).accumulated_pauli =
          [x |-> parity(errors[d]),
           z |-> xor(parity(errors[d]), (updates[d] - pending(d)) % 2)])'
  BY <1>2, <1>5, <1>9, <1>10
<1>12. (\A j \in DOMAIN replies[d] :
          replies[d][j] = [tag |-> "pauli_reply", request_id |-> j - 1,
                           anticommutes |-> answer(d, j)])'
  BY <1>1, <1>2, <1>8 DEF Hosted
<1>13. (Len(errors[d]) = complete(d) /\ Len(replies[d]) <= Len(asked))'
  BY <1>1, <1>2, <1>3, <1>4 DEF hosts
<1>14. /\ link'[d]["host"] \in Seq(FromHost)
       /\ pending(d)' \in 0 .. updates'[d]
       /\ replies'[d] # << >> => pending(d)' = 0
  BY <1>1, <1>2, <1>9 DEF hosts
<1>15. (\A k \in DOMAIN link[d]["host"] :
          link[d]["host"][k] =
            IF k <= pending(d) THEN pauli_update
            ELSE pauli_query(Len(replies[d]) + k - pending(d) - 1,
                             asked[Len(replies[d]) + k - pending(d)]))'
  BY <1>1, <1>2, <1>9 DEF hosts
<1>16. QED
  BY <1>2, <1>7, <1>11, <1>12, <1>13, <1>14, <1>15 DEF Hosted

(* The last query of a round.                                              *)
LEMMA DataEndsWith ==
  ASSUME IInv, NEW d \in Datas, Running(d), NEW o \in Ports, NEW r, NEW k,
         NEW L, admitted(d, syndrome_at[d][o], r, k, L), query_due(d, o),
         data(d).seen_sources \cup {o} = Ports, NEW e, NEW flip \in Bit,
         ends_as(seen_by(data(d), o), e, flip),
         data(d).step >= first_quiet => flip = 0,
         finish_data(d, r, k, L, DC!conclude("reporting", e, "consume")),
         UNCHANGED Rest
  PROVE  IInv'
<1> DEFINE n == data(d).step
           s == syndrome_at[d][o]
           q == seen_by(data(d), o)
<1>1. /\ data(d) \in DataData /\ first_quiet \in Nat /\ record(r)
      /\ AboutData(d) /\ d \in Cells /\ d \notin Syndromes
      /\ outgoing(L, d) /\ connected(rt[d]) /\ n \in Nat
      /\ RemoveAt(r.mailbox, k) = << >> /\ r.phase = rt[d].phase
  BY DataFacts, Others, NoiseMeshAssumption DEF Running, admitted
<1>2. /\ data(d).seen_sources # Ports /\ complete(d) = n
      /\ link[d][s] = <<SC!phenom_query(n, o)>>
  BY DEF query_due
<1>3. /\ q.step = n /\ q.seen_sources = Ports
      /\ q.noise_disabled = data(d).noise_disabled
      /\ q.cutoff_armed = data(d).cutoff_armed
      /\ q.cutoff_step = data(d).cutoff_step
      /\ q.accumulated_pauli = data(d).accumulated_pauli
  BY <1>1 DEF seen_by, DataData
<1>4. /\ cut_off(q) <=> n >= first_quiet
      /\ (q.cutoff_armed = 1 /\ q.step >= q.cutoff_step) <=> n = first_quiet
  BY <1>1, <1>2, <1>3, CutOff DEF cut_off
<1>5. /\ e \in DataData /\ e.step = n /\ e.seen_sources = Ports /\ e.event = flip
      /\ e.noise_disabled = quiet(n)
      /\ e.cutoff_armed = IF n = first_quiet THEN 0 ELSE data(d).cutoff_armed
      /\ e.cutoff_step = data(d).cutoff_step
      /\ e.accumulated_pauli = [x |-> xor(data(d).accumulated_pauli.x, flip),
                                z |-> xor(data(d).accumulated_pauli.z, flip)]
  BY <1>3, <1>4 DEF ends_as, quiet, one_if
<1>6. taken(d, o, L) /\ r.phase # "reporting"
  <2> DEFINE m == SC!phenom_query(data(d).step, o)
  <2>1. link[d][syndrome_at[d][o]] = <<m>>
    BY <1>2
  <2> HIDE DEF m
  <2>2. taken(d, o, L)
    BY <2>1, Taken
  <2>3. QED
    BY <1>1, <1>2, <2>2 DEF AboutData, DataPhases
<1>7. \A p \in Ports : waited_for(d, p, n, L)
  BY <1>6, AllWait
<1> HIDE DEF n, q
<1>8. n = data(d).step
  BY DEF n
<1>9. reports_round(d, e, flip, L)
  BY <1>1, <1>5, <1>6, DataEntersReporting
<1>10. RoundEnds(d, e, flip, L)
  BY <1>1, <1>9, DataRoundEnds
<1>11. \A p \in Ports : from_data(d, p)'
  BY <1>1, <1>2, <1>5, <1>7, <1>8, <1>10, RoundEndsEdges
<1>12. Hosted(d)'
  <2>1. L[d]["host"] = link[d]["host"]
    BY <1>6, Others, DataEdges DEF taken
  <2>2. n >= first_quiet => flip = 0
    BY <1>8
  <2>3. QED
    BY <1>1, <1>2, <1>5, <1>8, <1>10, <2>1, <2>2, RoundEndsHosted
<1>13. /\ data(d)' = e /\ first_quiet' = first_quiet /\ OnlyData(d)
       /\ connected(rt'[d]) /\ rt'[d].phase = "reporting"
       /\ rt'[d].mailbox = << >> /\ Typed(d)'
  BY <1>10 DEF RoundEnds, OnlyData
<1>14. complete(d)' = n + 1
  BY <1>5, <1>13 DEF complete, one_if
<1>15. Stage(d)'
  <2> DEFINE f == first_quiet
             c == complete(d)'
  <2>1. /\ data(d).cutoff_armed = one_if(n <= f)
        /\ n <= f => data(d).cutoff_step = f
    BY <1>2 DEF Running
  <2>2. c = n + 1 /\ f \in Nat /\ n \in Nat
    BY <1>1, <1>14
  <2>3. e.noise_disabled = one_if(n >= f)
    BY <1>5 DEF quiet
  <2> HIDE DEF f, c
  <2>4. (n >= f <=> c > f) /\ (c <= f => n <= f /\ n # f) /\ (n <= f /\ n # f => c <= f)
    BY ONLY <2>2
  <2>5. e.noise_disabled = one_if(c > f)
    BY <2>3, <2>4 DEF one_if
  <2>6. e.cutoff_armed = one_if(c <= f)
    BY <1>5, <2>1, <2>4 DEF one_if, f
  <2>7. c <= f => e.cutoff_step = f
    BY <1>5, <2>1, <2>4
  <2>8. Running(d)'
    BY <1>13, <2>5, <2>6, <2>7 DEF Running, c, f
  <2>9. QED
    BY <2>8 DEF Stage
<1>16. DataPhases(d)'
  BY <1>5, <1>13 DEF DataPhases
<1>17. /\ \A x \in Cells :
            (\A p \in Ports : syndrome_at[d][p] # x) => link'[d][x] = << >>
       /\ link'[d]["phi"] = << >>
  <2>1. \A x \in Senders : link'[d][x] = L[d][x]
    BY <1>10 DEF RoundEnds
  <2>2. \A x \in Senders : L[d][x] \in {<< >>, link[d][x]}
    BY <1>6 DEF taken
  <2>3. \A x \in Cells :
          (\A p \in Ports : syndrome_at[d][p] # x) => link[d][x] = << >>
    BY <1>1 DEF AboutData
  <2>4. link[d]["phi"] = << >>
    BY <1>1 DEF AboutData
  <2>5. QED
    BY <2>1, <2>2, <2>3, <2>4, Others
<1>18. \A p \in Ports : Edge(syndrome_at[d][p], opposite[p])'
  BY <1>11, FromData
<1>19. AboutData(d)'
  BY <1>5, <1>12, <1>13, <1>15, <1>16, <1>17, <1>18 DEF AboutData
<1>20. QED
  BY <1>13, <1>19, DataStep

(* The last query of a round keeps the invariant.                          *)
LEMMA DataEndsOnQuery ==
  ASSUME IInv, NEW d \in Datas, Running(d), NEW o \in Ports, NEW r, NEW k,
         NEW L, admitted(d, syndrome_at[d][o], r, k, L), query_due(d, o),
         data(d).seen_sources \cup {o} = Ports, NEW noise \in Bit,
         finish_data(d, r, k, L,
           DC!handle_cast(SC!phenom_query(data(d).step, o), rt[d].phase, data(d),
                          noise)),
         UNCHANGED Rest
  PROVE  IInv'
<1> DEFINE c == data(d)
           q == seen_by(c, o)
           f == rt[d].phase
           h == DC!handle_cast(SC!phenom_query(c.step, o), f, c, noise)
<1>1. /\ c \in DataData /\ first_quiet \in Nat /\ AboutData(d) /\ c.step \in Nat
      /\ connected(rt[d]) /\ o \in Ports \ c.seen_sources
      /\ c.seen_sources # Ports /\ complete(d) = c.step
      /\ DC!next_step(c.step) # c.step
  BY DataFacts DEF Running, query_due
<1>2. /\ q \in DataData /\ q.step = c.step
      /\ q.noise_disabled = c.noise_disabled /\ q.cutoff_armed = c.cutoff_armed
      /\ q.cutoff_step = c.cutoff_step
  BY <1>1 DEF seen_by, DataData
<1>3. cut_off(q) <=> c.step >= first_quiet
  BY <1>1, <1>2, CutOff DEF cut_off
<1>4. CASE f = "collecting"
  <2> DEFINE e == DC!sampled(q, noise)
             flip == IF cut_off(q) THEN 0 ELSE noise
  <2>1. h = DC!conclude("reporting", e, "consume")
    <3> HIDE DEF c
    <3>1. DC!handle_cast(SC!phenom_query(c.step, o), "collecting", c, noise)
            = DC!conclude("reporting", DC!sampled(seen_by(c, o), noise), "consume")
      BY <1>1, DataSamples DEF c
    <3>2. QED
      BY <1>4, <3>1
  <2>2. flip \in Bit /\ (c.step >= first_quiet => flip = 0)
    BY <1>3 DEF Bit
  <2>3. ends_as(q, e, flip)
    <3> HIDE DEF q
    <3>1. QED
      BY <1>2, Sampled
  <2>4. finish_data(d, r, k, L, DC!conclude("reporting", e, "consume"))
    BY <2>1
  <2> HIDE DEF e, flip
  <2>5. QED
    BY <2>2, <2>3, <2>4, DataEndsWith
<1>5. CASE f = "replying"
  <2> DEFINE e == [q EXCEPT !.event = 0]
             flip == 0
  <2>1. c.reply_resume = "collecting" /\ c.noise_disabled = 1
    BY <1>1, <1>5 DEF AboutData, DataPhases
  <2>2. h = DC!conclude("reporting", e, "consume")
    <3> HIDE DEF c
    <3>1. DC!handle_cast(SC!phenom_query(c.step, o), "replying", c, noise)
            = DC!conclude("reporting", [seen_by(c, o) EXCEPT !.event = 0], "consume")
      BY <1>1, <2>1, DataEndsRound DEF c
    <3>2. QED
      BY <1>5, <3>1
  <2>3. q.noise_disabled = 1 /\ q.cutoff_armed = 0
    <3> DEFINE g == first_quiet
               b == complete(d)
    <3>1. /\ c.noise_disabled = one_if(b > g) /\ c.cutoff_armed = one_if(b <= g)
          /\ g \in Nat /\ b \in Nat
      BY <1>1 DEF Running
    <3> HIDE DEF g, b, c
    <3>2. c.cutoff_armed = 0
      BY <2>1, <3>1 DEF one_if
    <3>3. QED
      BY <1>2, <2>1, <3>2
  <2>4. flip \in Bit /\ flip = 0
    BY DEF Bit
  <2>5. ends_as(q, e, flip)
    <3> HIDE DEF q
    <3>1. QED
      BY <1>2, <2>3, EndedQuietly
  <2>6. finish_data(d, r, k, L, DC!conclude("reporting", e, "consume"))
    BY <2>2
  <2> HIDE DEF e, flip
  <2>7. QED
    BY <2>4, <2>5, <2>6, DataEndsWith
<1>6. f \in {"collecting", "replying"}
  BY <1>1 DEF AboutData, DataPhases, Running
<1>7. QED
  BY <1>4, <1>5, <1>6
-----------------------------------------------------------------------------
(* Every turn of a data cell.                                              *)
LEMMA DataProcesses ==
  ASSUME IInv, NEW d \in Datas, process_messages(d), UNCHANGED Rest
  PROVE  IInv'
<1>1. PICK k \in eligible(rt[d]), noise \in Bit :
        selected(rt[d], k) /\ turn_data(d, rt[d], k, link, noise)
  <2>1. d \notin Syndromes
    BY NoiseMeshAssumption
  <2>2. QED
    BY <2>1 DEF process_messages, process, process_data, turn_data
<1>2. d \in Cells /\ connected(rt[d]) /\ Stage(d)
  BY DataFacts, Others DEF process_messages, AboutData
<1>3. CASE Configuring(d)
  <2>1. rt[d].mailbox
          = <<fresh(phenom_config), fresh(noise_cutoff(first_quiet))>>
    BY <1>2, <1>3 DEF Configuring, connected
  <2>2. k = 1
    BY <1>1, <2>1, Chosen
  <2>3. QED
    BY <1>1, <1>2, <1>3, <2>2, DataStarts
<1>4. CASE Arming(d)
  <2>1. rt[d].mailbox = <<fresh(noise_cutoff(first_quiet))>>
    BY <1>4 DEF Arming
  <2>2. k = 1
    BY <1>1, <2>1, Chosen
  <2>3. QED
    BY <1>1, <1>4, <2>2, DataArmsCutoff
<1>5. CASE Running(d)
  <2>1. rt[d].mailbox = << >>
    BY <1>5, DataMailbox
  <2>2. QED
    BY <1>1, <2>1, Chosen
<1>6. QED
  BY <1>2, <1>3, <1>4, <1>5 DEF Stage

(* A query that has joined the mailbox.                                    *)
LEMMA DataTakesQuery ==
  ASSUME IInv, NEW d \in Datas, Running(d), NEW o \in Ports, NEW r, NEW k,
         NEW L, admitted(d, syndrome_at[d][o], r, k, L),
         link[d][syndrome_at[d][o]] # << >>, NEW noise \in Bit,
         turn_data(d, r, k, L, noise), UNCHANGED Rest
  PROVE  IInv'
<1> DEFINE s == syndrome_at[d][o]
<1>1. query_due(d, o) \/ next_due(d, o)
  BY QueryArrives
<1>2. ASSUME NEW m, link[d][s] = <<m>>
      PROVE  finish_data(d, r, k, L,
               DC!handle_cast(m, rt[d].phase, data(d), noise))
  <2>1. r.mailbox[k].message = m
    <3>1. Head(<<m>>) = m
      BY Short
    <3>2. r.mailbox[k].message = Head(link[d][s])
      BY DEF admitted
    <3>3. QED
      BY <1>2, <3>1, <3>2
  <2>2. r.phase = rt[d].phase /\ r.data = data(d)
    BY DEF admitted
  <2>3. QED
    BY <2>1, <2>2 DEF turn_data
<1>3. CASE query_due(d, o)
  <2> DEFINE m == SC!phenom_query(data(d).step, o)
  <2>1. link[d][s] = <<m>>
    BY <1>3 DEF query_due
  <2> HIDE DEF m
  <2>2. finish_data(d, r, k, L, DC!handle_cast(m, rt[d].phase, data(d), noise))
    BY <1>2, <2>1
  <2>3. finish_data(d, r, k, L,
          DC!handle_cast(SC!phenom_query(data(d).step, o), rt[d].phase, data(d),
                         noise))
    BY <2>2 DEF m
  <2>4. CASE data(d).seen_sources \cup {o} = Ports
    BY <1>3, <2>3, <2>4, DataEndsOnQuery
  <2>5. CASE data(d).seen_sources \cup {o} # Ports
    BY <1>3, <2>3, <2>5, DataHearsQuery
  <2>6. QED
    BY <2>4, <2>5
<1>4. CASE next_due(d, o)
  <2> DEFINE m == SC!phenom_query(data(d).step + 1, o)
  <2>1. link[d][s] = <<m>>
    BY <1>4 DEF next_due
  <2> HIDE DEF m
  <2>2. finish_data(d, r, k, L, DC!handle_cast(m, rt[d].phase, data(d), noise))
    BY <1>2, <2>1
  <2>3. finish_data(d, r, k, L,
          DC!handle_cast(SC!phenom_query(data(d).step + 1, o), rt[d].phase,
                         data(d), noise))
    BY <2>2 DEF m
  <2>4. QED
    BY <1>4, <2>3, DataBeginsRound
<1>5. QED
  BY <1>1, <1>3, <1>4

(* A correction or a query of the host that has joined the mailbox.        *)
LEMMA DataTakesCommand ==
  ASSUME IInv, NEW d \in Datas, Running(d), NEW r, NEW k, NEW L,
         admitted(d, "host", r, k, L), link[d]["host"] # << >>, NEW noise \in Bit,
         turn_data(d, r, k, L, noise), UNCHANGED Rest
  PROVE  IInv'
<1> DEFINE m == Head(link[d]["host"])
<1>1. finish_data(d, r, k, L, DC!handle_cast(m, rt[d].phase, data(d), noise))
  BY DEF admitted, turn_data
<1>2. CASE pending(d) = 0
  BY <1>1, <1>2, DataAnswers
<1>3. CASE pending(d) # 0
  <2>1. hosts(d)
    BY Hosts DEF Running
  <2> DEFINE q == link[d]["host"]
             v == pending(d)
             u == updates[d]
  <2>2. q \in Seq(FromHost) /\ v \in 0 .. u /\ u \in Nat /\ q # << >> /\ v # 0
    BY <1>3, <2>1 DEF hosts
  <2>3. \A j \in DOMAIN q : j <= v => q[j] = pauli_update
    BY <2>1 DEF hosts
  <2> HIDE DEF q, v, u
  <2>4. /\ Head(q) = q[1] /\ DOMAIN q = 1 .. Len(q) /\ Len(q) \in Nat
        /\ Len(q) > 0
    BY <2>2, Queue
  <2>5. 1 \in DOMAIN q /\ 1 <= v
    BY <2>2, <2>4
  <2>6. Head(q) = pauli_update
    BY <2>3, <2>4, <2>5
  <2>7. m = pauli_update
    BY <2>6 DEF q
  <2> HIDE DEF m
  <2>8. finish_data(d, r, k, L,
          DC!handle_cast(pauli_update, rt[d].phase, data(d), noise))
    BY <1>1, <2>7
  <2>9. QED
    BY <1>3, <2>8, DataCorrects
<1>4. QED
  BY <1>2, <1>3

(* A turn of a data cell with a new message keeps the invariant.           *)
LEMMA DataAdmits ==
  ASSUME IInv, NEW d \in Datas, admit_and_process(d), UNCHANGED Rest
  PROVE  IInv'
<1>1. /\ d \in Cells /\ connected(rt[d]) /\ Stage(d) /\ AboutData(d)
      /\ eligible(rt[d]) = {}
  BY DataFacts, Others DEF admit_and_process, AboutData, quiescent
<1>2. Running(d)
  BY <1>1, Settled
<1>3. PICK x \in Senders, noise \in Bit :
        /\ link[d][x] # << >>
        /\ LET r == enqueue(rt[d], Head(link[d][x]))
           IN  turn_data(d, r, Len(r.mailbox), received(d, x), noise)
  <2>1. d \notin Syndromes
    BY NoiseMeshAssumption
  <2>2. ~full(rt[d])
    BY <1>2, NeverFull
  <2>3. PICK x \in Senders :
          /\ link[d][x] # << >>
          /\ LET r == enqueue(rt[d], Head(link[d][x]))
             IN  process(d, r, Len(r.mailbox), received(d, x))
    BY <2>2 DEF admit_and_process
  <2>4. ASSUME NEW r, NEW L, process(d, r, Len(r.mailbox), L)
        PROVE  \E noise \in Bit : turn_data(d, r, Len(r.mailbox), L, noise)
    BY <2>1, <2>4 DEF process, process_data, turn_data
  <2>5. QED
    BY <2>3, <2>4
<1> DEFINE r == enqueue(rt[d], Head(link[d][x]))
           L == received(d, x)
           k == Len(r.mailbox)
<1>4. turn_data(d, r, k, L, noise)
  BY <1>3
<1>5. r = enqueue(rt[d], Head(link[d][x])) /\ L = received(d, x)
  OBVIOUS
<1> HIDE DEF r, L
<1>6. admitted(d, x, r, k, L)
  BY <1>2, <1>5, DataAdmitted
<1> HIDE DEF k
<1>7. CASE x \in Cells
  <2>1. PICK o \in Ports : syndrome_at[d][o] = x
    BY <1>1, <1>3, <1>7 DEF AboutData
  <2>2. admitted(d, syndrome_at[d][o], r, k, L) /\ link[d][syndrome_at[d][o]] # << >>
    BY <1>3, <1>6, <2>1
  <2>3. QED
    BY <1>2, <1>4, <2>2, DataTakesQuery
<1>8. CASE x = "host"
  <2>1. admitted(d, "host", r, k, L) /\ link[d]["host"] # << >>
    BY <1>3, <1>6, <1>8
  <2>2. QED
    BY <1>2, <1>4, <2>1, DataTakesCommand
<1>9. x # "phi"
  BY <1>1, <1>3 DEF AboutData
<1>10. QED
  BY <1>7, <1>8, <1>9 DEF Senders
-----------------------------------------------------------------------------
(* The decoder about its syndrome, and the host about its data cells.      *)
LEMMA OnlyAsking ==
  ASSUME IInv, NEW s \in Syndromes, formed(link'),
         \A u \in Cells, v \in Senders :
           u # s \/ v # "phi" => link'[u][v] = link[u][v],
         announcements' = [t \in Syndromes |-> announcements'[t]],
         requested' \in [Syndromes -> Nat],
         certified \subseteq certified', certified' \subseteq Syndromes,
         \A t \in Syndromes : t # s =>
           /\ announcements'[t] = announcements[t]
           /\ requested'[t] = requested[t] /\ (t \in certified' <=> t \in certified),
         UNCHANGED <<rt, announced, errors, replies, first_quiet, updates, asked>>,
         Asking(s)'
  PROVE  IInv'
<1>1. /\ AboutSyndrome(s) /\ Globals /\ s \in Cells /\ "phi" \notin Cells
      /\ "phi" # "host" /\ "host" \in Senders /\ Cells \subseteq Senders
      /\ s # "phi"
  BY CellByCell, Others DEF About
<1>2. OnlySyndrome(s)
  BY <1>1 DEF OnlySyndrome, Globals
<1>3. /\ rt'[s] = rt[s] /\ link'[s]["host"] = link[s]["host"]
      /\ \A x \in Cells : link'[s][x] = link[s][x]
      /\ \A x \in Cells : link'[x][s] = link[x][s]
  BY <1>1
<1>4. Typed(s)' /\ (data(s) \in SyndromeData)'
  BY <1>1, <1>3 DEF AboutSyndrome, Typed, data
<1>5. SyndromePhases(s)'
  <2>1. SyndromePhases(s)
    BY <1>1 DEF AboutSyndrome
  <2>2. all_connected(Datas)' = all_connected(Datas)
    BY DEF all_connected
  <2>3. QED
    BY <1>3, <2>1, <2>2 DEF SyndromePhases, data
<1>6. Stage(s)'
  BY <1>1, <1>3, StageFrame DEF AboutSyndrome
<1>7. Announces(s)'
  BY <1>1, <1>3 DEF AboutSyndrome, Announces, data, complete, event, quiet,
     flipped, reported, error
<1>8. \A p \in Ports : Edge(s, p)'
  <2> TAKE p \in Ports
  <2>1. Edge(s, p) /\ data_at[s][p] \in Cells
    BY <1>1, Edges DEF AboutSyndrome
  <2>2. QED
    BY <1>3, <2>1, EdgeFrame
<1>9. \A x \in Cells : (\A p \in Ports : data_at[s][p] # x) => link'[s][x] = << >>
  BY <1>1, <1>3 DEF AboutSyndrome
<1>10. AboutSyndrome(s)'
  BY <1>4, <1>5, <1>6, <1>7, <1>8, <1>9 DEF AboutSyndrome
<1>11. QED
  BY <1>2, <1>10, SyndromeStep

(* What the decoder asks for when nothing of the syndrome is under way.    *)
asks(s, n) ==
  /\ formed(link') /\ requested' \in [Syndromes -> Nat]
  /\ \A u \in Cells, v \in Senders :
       u # s \/ v # "phi" => link'[u][v] = link[u][v]
  /\ \A t \in Syndromes : t # s => requested'[t] = requested[t]
  /\ link'[s]["phi"] = IF n <= MaxStep THEN <<phenom_request(n)>> ELSE << >>
  /\ requested'[s] = IF n <= MaxStep THEN n + 1 ELSE n

(* The request of the decoder for the next result.                         *)
LEMMA Asks ==
  ASSUME IInv, NEW s \in Syndromes, link[s]["phi"] = << >>, request(s),
         NEW n, n = requested[s]
  PROVE  asks(s, n)
<1>1. /\ requested \in [Syndromes -> Nat] /\ formed(link)
      /\ s \in Cells /\ "phi" \in Senders /\ MaxStep \in Nat /\ n \in Nat
  BY CellByCell, Others, Numbers DEF About, Globals, formed
<1>2. CASE n <= MaxStep
  <2> DEFINE a == phenom_request(n)
             w == n + 1
             v == Append(link[s]["phi"], a)
  <2>1. /\ requested' = [requested EXCEPT ![s] = w]
        /\ link' = [link EXCEPT ![s]["phi"] = v]
    BY <1>2 DEF request
  <2>2. w \in Nat
    BY <1>1
  <2> HIDE DEF w
  <2>3. requested' \in [Syndromes -> Nat] /\ requested'[s] = w
        /\ \A t \in Syndromes : t # s => requested'[t] = requested[t]
    BY <1>1, <2>1, <2>2
  <2> HIDE DEF v
  <2>4. /\ formed(link') /\ link'[s]["phi"] = v
        /\ \A u \in Cells, x \in Senders :
             u # s \/ x # "phi" => link'[u][x] = link[u][x]
    BY <1>1, <2>1 DEF formed
  <2>5. v = <<a>>
    <3> HIDE DEF a
    <3>1. Append(<< >>, a) = <<a>>
      BY Short
    <3>2. QED
      BY <3>1 DEF v
  <2>6. QED
    BY <1>2, <2>3, <2>4, <2>5 DEF asks, w
<1>3. CASE ~(n <= MaxStep)
  BY <1>1, <1>3 DEF asks, request
<1>4. QED
  BY <1>2, <1>3

(* The first request, when every cell is connected.                        *)
LEMMA FirstMeasurement ==
  ASSUME IInv, NEW s \in Syndromes, first_measurement(s)
  PROVE  IInv'
<1> DEFINE n == data(s).step
           l == Len(link[s]["phi"])
           h == one_if(holding(s))
           req == phenom_request(n)
<1>1. /\ Asking(s) /\ n \in Nat /\ s \in Cells /\ MaxStep \in Nat
      /\ requested[s] = 0 /\ request(s) /\ all_connected(Cells)
      /\ UNCHANGED <<rt, announcements, first_quiet, certified, updates, asked,
                     replies, errors, announced>>
  BY SyndromeFacts, Others, Numbers DEF first_measurement, AboutSyndrome
<1>2. l \in {0, 1} /\ h \in {0, 1} /\ n + l + h = 0
      /\ (l = 0 => link[s]["phi"] = << >>)
  <2>1. CASE link[s]["phi"] = << >>
    <3>1. l = 0
      BY <2>1, Short
    <3>2. QED
      BY <1>1, <2>1, <3>1 DEF Asking, one_if
  <2>2. CASE link[s]["phi"] = <<req>>
    <3>1. l = 1
      BY <2>2, Short
    <3>2. QED
      BY <1>1, <3>1 DEF Asking, one_if
  <2>3. QED
    BY <1>1, <2>1, <2>2 DEF Asking
<1> HIDE DEF l, h, n, req
<1>3. n = 0 /\ l = 0 /\ h = 0
  BY <1>1, <1>2
<1>4. link[s]["phi"] = << >> /\ ~holding(s)
  BY <1>2, <1>3 DEF h, one_if
<1>5. asks(s, 0)
  <2> DEFINE o == 0
  <2>1. o = requested[s]
    BY <1>1
  <2> HIDE DEF o
  <2>2. asks(s, o)
    BY <1>1, <1>4, <2>1, Asks
  <2>3. QED
    BY <2>2 DEF o
<1>6. link'[s]["phi"] = <<phenom_request(0)>> /\ requested'[s] = 1
  BY <1>1, <1>5 DEF asks
<1>7. Len(<<phenom_request(0)>>) = 1
  BY Short
<1>8. announcements[s] = << >>
  BY <1>1, <1>3 DEF Asking, n
<1>9. ~holding(s)' /\ data(s)' = data(s) /\ all_connected(Cells)'
  BY <1>1, <1>4 DEF holding, asked_for, data, all_connected
<1>10. Asking(s)'
  <2>1. one_if(holding(s))' = 0
    BY <1>9 DEF one_if
  <2>2. data(s)'.step = 0
    BY <1>3, <1>9 DEF n
  <2>3. (requested[s] \in 0 .. MaxStep + 1)'
    BY <1>1, <1>6
  <2>4. (s \in certified <=> data(s).step - Len(announcements[s]) > first_quiet)'
    BY <1>1, <1>9 DEF Asking
  <2>5. (requested[s] = data(s).step + Len(link[s]["phi"]) + one_if(holding(s)))'
    BY <1>6, <1>7, <2>1, <2>2
  <2>6. (announcements[s] = << >>)'
    BY <1>1, <1>8
  <2>7. QED
    BY <1>6, <1>9, <2>2, <2>3, <2>4, <2>5, <2>6 DEF Asking
<1>11. QED
  <2>1. Globals
    BY CellByCell DEF About
  <2>2. QED
    BY <1>1, <1>5, <1>10, <2>1, OnlyAsking DEF asks, Globals

(* The next one, when a result arrives.                                    *)
LEMMA NextMeasurement ==
  ASSUME IInv, NEW s \in Syndromes, measurement(s)
  PROVE  IInv'
<1> DEFINE n == data(s).step
           l == Len(link[s]["phi"])
           h == one_if(holding(s))
           req == phenom_request(n)
           a == result(s, n - 1)
           f == first_quiet
<1>1. /\ Asking(s) /\ n \in Nat /\ s \in Cells /\ MaxStep \in Nat
      /\ announcements[s] # << >> /\ request(s) /\ Globals /\ f \in Nat
      /\ announcements' = [announcements EXCEPT ![s] = Tail(announcements[s])]
      /\ certified' = IF Head(announcements[s]).quiet = 1
                      THEN certified \cup {s} ELSE certified
      /\ UNCHANGED <<rt, first_quiet, updates, asked, replies, errors, announced>>
  BY SyndromeFacts, CellByCell, Others, Numbers
     DEF measurement, AboutSyndrome, Globals, About
<1>2. announcements[s] = <<a>> /\ n > 0 /\ requested[s] = n
      /\ requested[s] \in 0 .. MaxStep + 1 /\ all_connected(Cells)
  BY <1>1 DEF Asking
<1>3. l \in {0, 1} /\ h \in {0, 1} /\ n + l + h = n
      /\ (l = 0 => link[s]["phi"] = << >>)
  <2>1. CASE link[s]["phi"] = << >>
    <3>1. l = 0
      BY <2>1, Short
    <3>2. QED
      BY <1>1, <1>2, <2>1, <3>1 DEF Asking, one_if
  <2>2. CASE link[s]["phi"] = <<req>>
    <3>1. l = 1
      BY <2>2, Short
    <3>2. QED
      BY <1>1, <1>2, <3>1 DEF Asking, one_if
  <2>3. QED
    BY <1>1, <2>1, <2>2 DEF Asking
<1>4. a.quiet = one_if(n - 1 >= f)
  BY DEF result, quiet
<1>5. /\ Head(announcements[s]) = a /\ Tail(announcements[s]) = << >>
      /\ Len(announcements[s]) = 1
  <2> HIDE DEF a
  <2>1. QED
    BY <1>2, Short
<1> HIDE DEF l, h, req, a
<1>6. link[s]["phi"] = << >> /\ ~holding(s)
  <2> HIDE DEF n
  <2>1. l = 0 /\ h = 0
    BY <1>1, <1>3
  <2>2. QED
    BY <1>3, <2>1 DEF h, one_if
<1>7. asks(s, n)
  <2> HIDE DEF n
  <2>1. QED
    BY <1>1, <1>2, <1>6, Asks
<1>8. ~holding(s)' /\ data(s)' = data(s) /\ all_connected(Cells)'
  BY <1>1, <1>2, <1>6 DEF holding, asked_for, data, all_connected
<1>9. /\ announcements' = [t \in Syndromes |-> announcements'[t]]
      /\ announcements'[s] = << >>
      /\ \A t \in Syndromes : t # s => announcements'[t] = announcements[t]
  <2> DEFINE e == << >>
  <2>1. announcements' = [announcements EXCEPT ![s] = e]
    BY <1>1, <1>5
  <2> HIDE DEF e
  <2>2. announcements = [t \in Syndromes |-> announcements[t]]
    BY <1>1 DEF Globals
  <2>3. /\ announcements' = [t \in Syndromes |-> announcements'[t]]
        /\ announcements'[s] = e
        /\ \A t \in Syndromes : t # s => announcements'[t] = announcements[t]
    BY <2>1, <2>2
  <2>4. QED
    BY <2>3 DEF e
<1>10. s \in certified' <=> n > f
  <2>1. s \in certified <=> n - 1 > f
    BY <1>1, <1>5 DEF Asking
  <2>2. certified' = IF a.quiet = 1 THEN certified \cup {s} ELSE certified
    BY <1>1, <1>5
  <2> HIDE DEF n, f
  <2>3. CASE n - 1 >= f
    <3>1. a.quiet = 1 /\ n > f
      BY <1>1, <1>4, <2>3 DEF one_if
    <3>2. QED
      BY <2>2, <3>1
  <2>4. CASE ~(n - 1 >= f)
    <3>1. a.quiet = 0 /\ ~(n > f) /\ ~(n - 1 > f)
      BY <1>1, <1>4, <2>4 DEF one_if
    <3>2. QED
      BY <2>1, <2>2, <3>1
  <2>5. QED
    BY <2>3, <2>4
<1>11. /\ certified \subseteq certified' /\ certified' \subseteq Syndromes
       /\ \A t \in Syndromes : t # s => (t \in certified' <=> t \in certified)
  BY <1>1 DEF Globals
<1>12. data(s)'.step = n /\ Len(announcements'[s]) = 0
  <2>1. Len(<< >>) = 0
    OBVIOUS
  <2>2. QED
    BY <1>8, <1>9, <2>1
<1>13. Asking(s)'
  <2>1. one_if(holding(s))' = 0
    BY <1>8 DEF one_if
  <2>2. (s \in certified <=> data(s).step - Len(announcements[s]) > first_quiet)'
    <3>1. n - 0 = n /\ first_quiet' = f
      BY <1>1
    <3>2. data(s)'.step - Len(announcements'[s]) = n
      BY <1>12, <3>1
    <3>3. QED
      BY <1>10, <3>1, <3>2
  <2> DEFINE r == requested'[s]
             k == Len(link'[s]["phi"])
  <2>3. /\ link'[s]["phi"] \in {<< >>, <<phenom_request(n)>>}
        /\ r \in 0 .. MaxStep + 1 /\ r = n + k /\ r <= n + 1
        /\ r = n => r = MaxStep + 1
    <3>1. CASE n <= MaxStep
      <4>1. link'[s]["phi"] = <<phenom_request(n)>> /\ r = n + 1
        BY <1>7, <3>1 DEF asks
      <4>2. k = 1
        BY <4>1, Short
      <4> HIDE DEF n, r, k
      <4>3. r \in 0 .. MaxStep + 1 /\ r = n + k /\ r <= n + 1 /\ r # n
        BY <1>1, <3>1, <4>1, <4>2
      <4>4. QED
        BY <4>1, <4>3
    <3>2. CASE ~(n <= MaxStep)
      <4>1. link'[s]["phi"] = << >> /\ r = n
        BY <1>7, <3>2 DEF asks
      <4>2. k = 0
        BY <4>1, Short
      <4>3. n \in 0 .. MaxStep + 1
        BY <1>2
      <4> HIDE DEF n, r, k
      <4>4. r \in 0 .. MaxStep + 1 /\ r = n + k /\ r <= n + 1 /\ r = MaxStep + 1
        BY <1>1, <3>2, <4>1, <4>2, <4>3
      <4>5. QED
        BY <4>1, <4>4
    <3>3. QED
      BY <3>1, <3>2
  <2>4. (requested[s] = data(s).step + Len(link[s]["phi"]) + one_if(holding(s)))'
    <3> HIDE DEF n, r, k
    <3>1. k \in Nat
      BY <2>3, Short DEF k
    <3>2. r = n + k + 0
      BY <1>1, <2>3, <3>1
    <3>3. QED
      BY <1>12, <2>1, <3>2 DEF r, k
  <2>5. (announcements[s] = << >>)'
    BY <1>9
  <2> HIDE DEF n
  <2>6. QED
    BY <1>8, <1>12, <2>2, <2>3, <2>4, <2>5 DEF Asking
<1>14. QED
  BY <1>1, <1>7, <1>9, <1>11, <1>13, OnlyAsking DEF asks

(* A message that the host has appended to what is under way to d.         *)
LEMMA Appended ==
  ASSUME NEW S, NEW q \in Seq(S), NEW m \in S, NEW r, r = Append(q, m)
  PROVE  /\ r \in Seq(S) /\ Len(r) = Len(q) + 1 /\ Len(q) \in Nat
         /\ DOMAIN r = 1 .. Len(q) + 1 /\ DOMAIN q = 1 .. Len(q)
         /\ r[Len(q) + 1] = m
         /\ \A k \in 1 .. Len(q) : r[k] = q[k]
OBVIOUS

(* A correction, while nothing has been asked.                             *)
LEMMA HostUpdates ==
  ASSUME IInv, NEW d \in Datas, host_update(d)
  PROVE  IInv'
<1> DEFINE u == updates[d]
           w == u + 1
           q == link[d]["host"]
           v == Append(q, pauli_update)
           p == pending(d)
           P == parity(errors[d])
<1>1. /\ d \in Cells /\ d \in Senders /\ "host" \in Senders /\ AboutData(d)
      /\ "host" # d /\ "phi" # "host" /\ Cells \subseteq Senders
      /\ "host" \notin Cells /\ "phi" \in Senders
      /\ Globals /\ formed(link) /\ connected(rt[d]) /\ asked = << >>
      /\ updates' = [updates EXCEPT ![d] = w]
      /\ link' = [link EXCEPT ![d]["host"] = v]
      /\ UNCHANGED <<rt, announcements, requested, first_quiet, certified, asked,
                     replies, errors, announced>>
  BY DataFacts, Others, CellByCell DEF host_update, all_connected, About, Globals, formed
<1>2. hosts(d) /\ Hosted(d)
  BY <1>1, Hosts
<1>3. replies[d] = << >> /\ Len(replies[d]) = 0 /\ Len(asked) = 0
      /\ p = Len(q) /\ p \in 0 .. u /\ u \in Nat /\ q \in Seq(FromHost)
  <2>1. replies[d] \in Seq(Reply) /\ Len(asked) = 0
    BY <1>1, Short DEF Globals
  <2> DEFINE R == Len(replies[d])
  <2>2. R <= 0 /\ R \in Nat
    BY <1>2, <2>1 DEF hosts
  <2> HIDE DEF R
  <2>3. R = 0
    BY <2>2
  <2>4. replies[d] = << >>
    BY <2>1, <2>3, Singles DEF R
  <2>5. q \in Seq(FromHost) /\ p \in 0 .. u /\ u \in Nat
    BY <1>2 DEF hosts
  <2>6. Len(q) \in Nat /\ p = Len(q) - (0 - 0)
    BY <2>1, <2>3, <2>5 DEF R, pending, unanswered
  <2> HIDE DEF p, q, u
  <2>7. p = Len(q)
    BY <2>6
  <2>8. QED
    BY <2>1, <2>3, <2>4, <2>5, <2>7 DEF R
<1>4. /\ v \in Seq(FromHost) /\ Len(v) = p + 1
      /\ \A k \in DOMAIN v : v[k] = pauli_update
  <2> DEFINE m == pauli_update
  <2>1. m \in FromHost
    BY DEF FromHost
  <2>2. \A k \in DOMAIN q : k <= p => q[k] = m
    BY <1>2 DEF hosts
  <2>3. v = Append(q, m)
    OBVIOUS
  <2> HIDE DEF q, m, v, p, u
  <2>4. /\ v \in Seq(FromHost) /\ Len(v) = Len(q) + 1 /\ Len(q) \in Nat
        /\ DOMAIN v = 1 .. Len(q) + 1 /\ DOMAIN q = 1 .. Len(q)
        /\ v[Len(q) + 1] = m /\ \A k \in 1 .. Len(q) : v[k] = q[k]
    BY <1>3, <2>1, <2>3, Appended
  <2>5. \A k \in DOMAIN v : v[k] = m
    <3> TAKE k \in DOMAIN v
    <3>1. k \in 1 .. Len(q) \/ k = Len(q) + 1
      BY <2>4
    <3>2. QED
      BY <1>3, <2>2, <2>4, <3>1
  <2>6. QED
    BY <1>3, <2>4, <2>5 DEF m
<1> HIDE DEF v, w
<1>5. /\ formed(link') /\ link'[d]["host"] = v
      /\ \A x \in Cells, y \in Senders :
           x # d \/ y # "host" => link'[x][y] = link[x][y]
  BY <1>1 DEF formed
<1>6. w \in Nat
  BY <1>3 DEF w
<1>7. /\ updates' \in [Datas -> Nat] /\ updates'[d] = w
      /\ \A e \in Datas : e # d => updates'[e] = updates[e]
  BY <1>1, <1>6 DEF Globals
<1>8. OnlyData(d)
  <2>1. errors[d] \in Seq(Bit)
    BY <1>1 DEF Globals
  <2>2. Len(errors[d]) \in Nat
    BY <2>1
  <2>3. QED
    BY <1>1, <1>5, <1>7, <2>2 DEF OnlyData, Globals
<1>9. pending(d)' = p + 1
  <2> DEFINE k == Len(v)
  <2>1. pending(d)' = k - (0 - 0)
    BY <1>1, <1>3, <1>5 DEF pending, unanswered
  <2> HIDE DEF k, p, u
  <2>2. k = p + 1 /\ p \in Nat
    BY <1>3, <1>4 DEF k
  <2>3. QED
    BY <2>1, <2>2
<1>10. Hosted(d)'
  <2>1. (\A n \in Nat : n >= first_quiet /\ n < complete(d) => error(d, n) = 0)'
    BY <1>1, <1>2 DEF Hosted, error, complete, data
  <2>2. (\A k \in DOMAIN replies[d] :
          replies[d][k] = [tag |-> "pauli_reply", request_id |-> k - 1,
                           anticommutes |-> answer(d, k)])'
    BY <1>1, <1>3
  <2>3. (Len(errors[d]) = complete(d) /\ Len(replies[d]) <= Len(asked))'
    BY <1>1, <1>2 DEF Hosted, complete, data
  <2>4. /\ link'[d]["host"] \in Seq(FromHost)
        /\ pending(d)' \in 0 .. updates'[d]
        /\ ~(replies'[d] # << >>)
    <3> HIDE DEF p, u, q
    <3>1. p + 1 \in 0 .. w
      BY <1>3 DEF w
    <3>2. QED
      BY <1>1, <1>3, <1>4, <1>5, <1>7, <1>9, <3>1
  <2>5. \A k \in DOMAIN v : k <= p + 1 /\ v[k] = pauli_update
    <3> HIDE DEF p, u, q
    <3>1. DOMAIN v = 1 .. Len(v)
      BY <1>4
    <3>2. QED
      BY <1>3, <1>4, <3>1
  <2>6. (\A k \in DOMAIN link[d]["host"] :
          link[d]["host"][k] =
            IF k <= pending(d) THEN pauli_update
            ELSE pauli_query(Len(replies[d]) + k - pending(d) - 1,
                             asked[Len(replies[d]) + k - pending(d)]))'
    BY <1>5, <1>9, <2>5
  <2>7. (w - (p + 1)) % 2 = (u - p) % 2
    <3> HIDE DEF p, u, q
    <3>1. w - (p + 1) = u - p
      BY <1>3 DEF w
    <3>2. QED
      BY <3>1
  <2>8. (data(d).accumulated_pauli =
          [x |-> parity(errors[d]),
           z |-> xor(parity(errors[d]), (updates[d] - pending(d)) % 2)])'
    <3>1. data(d)' = data(d) /\ errors' = errors
      BY <1>1 DEF data
    <3>2. data(d).accumulated_pauli = [x |-> P, z |-> xor(P, (u - p) % 2)]
      BY <1>2 DEF hosts
    <3>3. parity(errors[d])' = P
      BY <3>1
    <3> HIDE DEF P, u, p
    <3>4. QED
      BY <1>7, <1>9, <2>7, <3>1, <3>2, <3>3
  <2>9. connected(rt[d])'
    BY <1>1
  <2>10. QED
    BY <2>1, <2>2, <2>3, <2>4, <2>6, <2>8, <2>9 DEF Hosted
<1>11. AboutData(d)'
  <2>1. rt'[d] = rt[d] /\ \A x \in Senders : x # "host" => link'[d][x] = link[d][x]
    BY <1>1, <1>5
  <2>2. Typed(d)' /\ (data(d) \in DataData)' /\ DataPhases(d)'
    BY <1>1, <2>1 DEF AboutData, Typed, data, DataPhases
  <2>3. Stage(d)'
    <3>1. CASE Configuring(d)
      BY <1>1, <2>1, <3>1 DEF Configuring, Stage, connected
    <3>2. CASE Arming(d)
      BY <1>1, <3>2 DEF Arming, Stage, data
    <3>3. CASE Running(d)
      BY <1>1, <3>3 DEF Running, Stage, data, complete, holding, asked_for
    <3>4. QED
      BY <1>1, <3>1, <3>2, <3>3 DEF AboutData, Stage
  <2>4. \A o \in Ports : Edge(syndrome_at[d][o], opposite[o])'
    <3> TAKE o \in Ports
    <3> DEFINE s == syndrome_at[d][o]
               r == opposite[o]
    <3>1. s \in Syndromes /\ r \in Ports /\ s \in Cells /\ data_at[s][r] = d
          /\ s # d
      BY DataEdges
    <3>2. Edge(s, r)
      BY <1>1 DEF AboutData
    <3>3. link'[s][d] = link[s][d] /\ link'[d][s] = link[d][s]
      BY <1>1, <1>5, <3>1
    <3> HIDE DEF s, r
    <3>4. Edge(s, r)'
      BY <1>1, <3>1, <3>2, <3>3, EdgeFrame
    <3>5. QED
      BY <3>4 DEF s, r
  <2>5. \A x \in Cells :
          (\A o \in Ports : syndrome_at[d][o] # x) => link'[d][x] = << >>
    BY <1>1, <2>1 DEF AboutData
  <2>6. link'[d]["phi"] = << >>
    BY <1>1, <2>1 DEF AboutData
  <2>7. QED
    BY <1>10, <2>2, <2>3, <2>4, <2>5, <2>6 DEF AboutData
<1>12. QED
  BY <1>8, <1>11, DataStep

(* Every cell is connected when a syndrome has been certified.             *)
LEMMA AllConnected ==
  ASSUME IInv, certified = Syndromes, NEW d \in Datas
  PROVE  connected(rt[d])
<1>1. PICK o \in Ports : TRUE
  BY Numbers
<1> DEFINE s == syndrome_at[d][o]
           n == data(s).step
           a == Len(announcements[s])
           f == first_quiet
<1>2. s \in Syndromes /\ d \in Cells
  BY DataEdges, Others
<1>3. Asking(s) /\ n \in Nat /\ f \in Nat
  BY <1>2, SyndromeFacts, CellByCell DEF About, Globals, AboutSyndrome
<1>4. n - a > f /\ a \in Nat
  <2>1. n - a > f
    BY <1>2, <1>3 DEF Asking
  <2>2. a \in Nat
    <3>1. announcements[s] = << >> \/ announcements[s] = <<result(s, n - 1)>>
      BY <1>3 DEF Asking
    <3>2. Len(<< >>) = 0 /\ Len(<<result(s, n - 1)>>) = 1
      BY Short
    <3>3. QED
      BY <3>1, <3>2
  <2>3. QED
    BY <2>1, <2>2
<1> HIDE DEF n, a, f
<1>5. n > 0 /\ n # 0
  BY <1>3, <1>4
<1>6. requested[s] # 0
  <2> DEFINE r == requested[s]
             l == Len(link[s]["phi"])
             h == one_if(holding(s))
  <2>1. r = n + l + h
    BY <1>3 DEF Asking, n
  <2>2. l \in Nat /\ h \in Nat
    <3>1. Len(<< >>) = 0 /\ Len(<<phenom_request(data(s).step)>>) = 1
      BY Short
    <3>2. QED
      BY <1>3, <3>1 DEF Asking, one_if
  <2> HIDE DEF r, l, h
  <2>3. r # 0
    BY <1>3, <1>5, <2>1, <2>2
  <2>4. QED
    BY <2>3 DEF r
<1>7. requested[s] > 0
  BY <1>3, <1>6 DEF Asking
<1>8. all_connected(Cells)
  BY <1>3, <1>7 DEF Asking
<1>9. QED
  BY <1>2, <1>8 DEF all_connected

(* A query joins what is under way to a data cell, after all the rest.     *)
queried_by_host(d, m) ==
  /\ link'[d]["host"] = Append(link[d]["host"], pauli_query(Len(asked), m))
  /\ \A x \in Senders : x # "host" => link'[d][x] = link[d][x]
  /\ asked' = Append(asked, m)
  /\ UNCHANGED <<rt, announcements, requested, first_quiet, certified, updates,
                 replies, errors, announced>>

(* A query of the host joins the end of the queue,                         *)
LEMMA HostedQuery ==
  ASSUME IInv, NEW d \in Datas, NEW m \in Measurements, connected(rt[d]),
         queried_by_host(d, m)
  PROVE  Hosted(d)'
<1> USE DEF queried_by_host
<1> DEFINE u == updates[d]
           q == link[d]["host"]
           p == pending(d)
           A == Len(asked)
           R == Len(replies[d])
           a == pauli_query(A, m)
           v == Append(q, a)
           g == Append(asked, m)
           P == parity(errors[d])
<1>1. hosts(d) /\ Hosted(d) /\ Globals
  BY Hosts, CellByCell DEF About
<1>2. /\ q \in Seq(FromHost) /\ p \in 0 .. u /\ u \in Nat /\ A \in Nat /\ R \in Nat
      /\ R <= A /\ Len(q) \in Nat /\ p = Len(q) - (A - R)
      /\ asked \in Seq(Measurements) /\ replies[d] \in Seq(Reply)
      /\ a \in FromHost
  <2>1. q \in Seq(FromHost) /\ p \in 0 .. u /\ u \in Nat /\ R <= A
    BY <1>1 DEF hosts
  <2>2. A \in Nat /\ R \in Nat
    BY <1>1 DEF hosts
  <2>3. p = Len(q) - (A - R)
    BY DEF pending, unanswered
  <2>4. a \in FromHost
    <3> HIDE DEF A
    <3>1. QED
      BY <2>2 DEF FromHost, pauli_query
  <2>5. Len(q) \in Nat
    BY <2>1
  <2>6. asked \in Seq(Measurements) /\ replies[d] \in Seq(Reply)
    BY <1>1 DEF Globals
  <2>7. QED
    BY <2>1, <2>2, <2>3, <2>4, <2>5, <2>6
<1>3. \A k \in DOMAIN q :
        q[k] = IF k <= p THEN pauli_update
               ELSE pauli_query(R + k - p - 1, asked[R + k - p])
  BY <1>1 DEF hosts
<1>4. /\ v \in Seq(FromHost) /\ Len(v) = Len(q) + 1
      /\ DOMAIN v = 1 .. Len(q) + 1 /\ DOMAIN q = 1 .. Len(q)
      /\ v[Len(q) + 1] = a /\ \A k \in 1 .. Len(q) : v[k] = q[k]
  <2>1. v = Append(q, a)
    OBVIOUS
  <2> HIDE DEF q, a, v
  <2>2. QED
    BY <1>2, <2>1, Appended
<1>5. /\ g \in Seq(Measurements) /\ Len(g) = A + 1 /\ g[A + 1] = m
      /\ \A k \in 1 .. A : g[k] = asked[k]
  <2>1. g = Append(asked, m)
    OBVIOUS
  <2> HIDE DEF g
  <2>2. QED
    BY <1>2, <2>1, Appended
<1>6. link'[d]["host"] = v /\ asked' = g
  OBVIOUS
<1>7. DOMAIN replies[d] = 1 .. R
  BY <1>2
<1> DEFINE l == Len(q)
<1> HIDE DEF q, v, g, p, u
<1>18. /\ p \in Int /\ u \in Nat /\ A \in Nat /\ R \in Nat /\ l \in Nat
       /\ R <= A /\ p = l - (A - R)
  <2> HIDE DEF A, R
  <2>1. QED
    BY <1>2
<1> HIDE DEF l
<1>8. pending(d)' = p
  <2> DEFINE k == Len(v)
             h == Len(g)
  <2>1. pending(d)' = k - (h - R)
    BY <1>6 DEF pending, unanswered
  <2> HIDE DEF k, h, A, R
  <2>2. k = l + 1 /\ h = A + 1
    BY <1>4, <1>5 DEF k, h, l
  <2>3. k - (h - R) = p
    BY ONLY <1>18, <2>2
  <2>4. QED
    BY <2>1, <2>3
<1>9. \A k \in 1 .. R : answer(d, k)' = answer(d, k)
  <2> TAKE k \in 1 .. R
  <2>1. k \in 1 .. A
    <3> HIDE DEF A, R
    <3>1. QED
      BY <1>2
  <2>2. asked'[k] = asked[k]
    BY <1>5, <1>6, <2>1
  <2>3. (parity(errors[d]))' = parity(errors[d])
    OBVIOUS
  <2>4. QED
    BY <2>2, <2>3 DEF answer
<1>10. (\A k \in DOMAIN replies[d] :
          replies[d][k] = [tag |-> "pauli_reply", request_id |-> k - 1,
                           anticommutes |-> answer(d, k)])'
  BY <1>1, <1>7, <1>9 DEF Hosted
<1>11. \A k \in DOMAIN v :
         v[k] = IF k <= p THEN pauli_update
                ELSE pauli_query(R + k - p - 1, g[R + k - p])
  <2> TAKE k \in DOMAIN v
  <2> HIDE DEF A, R
  <2>1. CASE k \in 1 .. Len(q)
    <3>1. k \in DOMAIN q /\ v[k] = q[k]
      BY <1>4, <2>1
    <3>2. CASE k <= p
      BY <1>3, <3>1, <3>2
    <3>3. CASE ~(k <= p)
      <4> DEFINE j == R + k - p
      <4>1. j \in 1 .. A
        <5>1. k \in 1 .. l
          BY <2>1 DEF l
        <5>2. QED
          BY ONLY <1>18, <3>3, <5>1
      <4>2. g[j] = asked[j]
        BY <1>5, <4>1
      <4>3. q[k] = pauli_query(R + k - p - 1, asked[j])
        BY <1>3, <3>1, <3>3
      <4> HIDE DEF j
      <4>4. v[k] = pauli_query(R + k - p - 1, g[j])
        BY <3>1, <4>2, <4>3
      <4>5. QED
        BY <3>3, <4>4 DEF j
    <3>4. QED
      BY <3>2, <3>3
  <2>2. CASE k = Len(q) + 1
    <3>1. ~(k <= p) /\ R + k - p - 1 = A /\ R + k - p = A + 1
      <4>1. k = l + 1
        BY <2>2 DEF l
      <4>2. QED
        BY ONLY <1>18, <4>1
    <3>2. v[k] = pauli_query(A, m)
      BY <1>4, <2>2 DEF a
    <3>3. QED
      BY <1>5, <3>1, <3>2
  <2>3. QED
    BY <1>2, <1>4, <2>1, <2>2
<1>12. (\A k \in DOMAIN link[d]["host"] :
          link[d]["host"][k] =
            IF k <= pending(d) THEN pauli_update
            ELSE pauli_query(Len(replies[d]) + k - pending(d) - 1,
                             asked[Len(replies[d]) + k - pending(d)]))'
  BY <1>6, <1>8, <1>11
<1>13. (data(d).accumulated_pauli =
          [x |-> parity(errors[d]),
           z |-> xor(parity(errors[d]), (updates[d] - pending(d)) % 2)])'
  <2>1. data(d)' = data(d) /\ (parity(errors[d]))' = P
    BY DEF data
  <2>2. data(d).accumulated_pauli = [x |-> P, z |-> xor(P, (u - p) % 2)]
    BY <1>1 DEF hosts, u, p
  <2>3. updates'[d] = u
    BY DEF u
  <2> HIDE DEF P
  <2>4. QED
    BY <1>8, <2>1, <2>2, <2>3
<1>14. Len(replies'[d]) <= Len(asked')
  <2>1. Len(replies'[d]) = R /\ Len(asked') = A + 1
    BY <1>5, <1>6
  <2> HIDE DEF A, R
  <2>2. QED
    BY <1>2, <2>1
<1>15. (\A n \in Nat : n >= first_quiet /\ n < complete(d) => error(d, n) = 0)'
       /\ (Len(errors[d]) = complete(d))'
  BY <1>1 DEF Hosted, error, complete, data
<1>16. /\ link'[d]["host"] \in Seq(FromHost) /\ pending(d)' \in 0 .. updates'[d]
       /\ replies'[d] # << >> => pending(d)' = 0
  BY <1>1, <1>2, <1>4, <1>6, <1>8 DEF hosts, u, p
<1>17. QED
  BY <1>10, <1>12, <1>13, <1>14, <1>15, <1>16 DEF Hosted

(* which keeps the invariant.                                              *)
LEMMA HostQueries ==
  ASSUME IInv, host_query
  PROVE  IInv'
<1>1. PICK m \in Measurements :
        /\ asked' = Append(asked, m)
        /\ link' = [c \in Cells |->
             IF c \in Datas
             THEN [link[c] EXCEPT !["host"] =
                     Append(link[c]["host"], pauli_query(Len(asked), m))]
             ELSE link[c]]
  BY DEF host_query
<1>2. /\ certified = Syndromes /\ Globals /\ formed(link)
      /\ UNCHANGED <<rt, announcements, requested, first_quiet, certified, updates,
                     replies, errors, announced>>
  BY CellByCell DEF About, Globals, formed, host_query
<1>3. ASSUME NEW d \in Datas
      PROVE  /\ queried_by_host(d, m) /\ link'[d] = [x \in Senders |-> link'[d][x]]
  <2> DEFINE v == Append(link[d]["host"], pauli_query(Len(asked), m))
  <2>1. d \in Cells /\ link'[d] = [link[d] EXCEPT !["host"] = v]
    BY <1>1, Others
  <2> HIDE DEF v
  <2>2. /\ link'[d]["host"] = v
        /\ \A x \in Senders : x # "host" => link'[d][x] = link[d][x]
        /\ link'[d] = [x \in Senders |-> link'[d][x]]
    BY <1>2, <2>1, Others DEF formed
  <2>3. QED
    BY <1>1, <1>2, <2>2 DEF v, queried_by_host
<1>4. ASSUME NEW s \in Syndromes PROVE link'[s] = link[s] /\ s \in Cells
  <2>1. s \in Cells /\ s \notin Datas
    BY Others, NoiseMeshAssumption
  <2>2. QED
    BY <1>1, <2>1
<1>5. formed(link')
  <2>1. link' = [c \in Cells |-> link'[c]]
    BY <1>1
  <2>2. ASSUME NEW c \in Cells PROVE link'[c] = [x \in Senders |-> link'[c][x]]
    <3>1. CASE c \in Datas
      BY <1>3, <3>1
    <3>2. CASE c \in Syndromes
      BY <1>2, <1>4, <3>2 DEF formed
    <3>3. QED
      BY <3>1, <3>2 DEF Cells
  <2>3. link' = [c \in Cells |-> [x \in Senders |-> link'[c][x]]]
    BY <2>1, <2>2
  <2>4. QED
    BY <2>3 DEF formed
<1>6. Globals'
  <2>1. Append(asked, m) \in Seq(Measurements)
    BY <1>2 DEF Globals
  <2>2. QED
    BY <1>1, <1>2, <1>5, <2>1 DEF Globals, formed
<1>7. ASSUME NEW s \in Syndromes, NEW d \in Datas
      PROVE  link'[d][s] = link[d][s] /\ link'[s][d] = link[s][d]
  BY <1>3, <1>4, Others DEF queried_by_host
<1>8. ASSUME NEW s \in Syndromes PROVE AboutSyndrome(s)'
  <2>1. AboutSyndrome(s) /\ link'[s] = link[s] /\ rt'[s] = rt[s] /\ s \in Cells
    BY <1>2, <1>4, CellByCell DEF About
  <2>2. Typed(s)' /\ (data(s) \in SyndromeData)'
    BY <2>1 DEF AboutSyndrome, Typed, data
  <2>3. SyndromePhases(s)'
    <3>1. all_connected(Datas)' = all_connected(Datas)
      BY <1>2 DEF all_connected
    <3>2. QED
      BY <2>1, <3>1 DEF AboutSyndrome, SyndromePhases, data
  <2>4. Stage(s)'
    BY <1>2, <2>1, StageFrame DEF AboutSyndrome
  <2>5. Asking(s)'
    <3>1. all_connected(Cells)' = all_connected(Cells)
      BY <1>2 DEF all_connected
    <3>2. Asking(s)
      BY <2>1 DEF AboutSyndrome
    <3>3. QED
      BY <1>2, <2>1, <3>1, <3>2
         DEF Asking, data, holding, asked_for, result, event, quiet
  <2>6. Announces(s)'
    BY <1>2, <2>1 DEF AboutSyndrome, Announces, data, complete, event, quiet,
       flipped, reported, error
  <2>7. \A p \in Ports : Edge(s, p)'
    <3> TAKE p \in Ports
    <3> DEFINE d == data_at[s][p]
    <3>1. Edge(s, p) /\ d \in Datas
      BY <2>1, Edges DEF AboutSyndrome
    <3>2. link'[d][s] = link[d][s] /\ link'[s][d] = link[s][d]
      BY <1>7, <3>1
    <3>3. QED
      BY <1>2, <3>1, <3>2, EdgeFrame
  <2>8. \A x \in Cells :
          (\A p \in Ports : data_at[s][p] # x) => link'[s][x] = << >>
    BY <2>1 DEF AboutSyndrome
  <2>9. QED
    BY <2>2, <2>3, <2>4, <2>5, <2>6, <2>7, <2>8 DEF AboutSyndrome
<1>9. ASSUME NEW d \in Datas PROVE AboutData(d)'
  <2>1. /\ AboutData(d) /\ rt'[d] = rt[d] /\ d \in Cells /\ queried_by_host(d, m)
        /\ \A x \in Senders : x # "host" => link'[d][x] = link[d][x]
        /\ connected(rt[d])
    BY <1>2, <1>3, CellByCell, Others, AllConnected DEF About, queried_by_host
  <2>2. Typed(d)' /\ (data(d) \in DataData)' /\ DataPhases(d)'
    BY <1>2, <2>1 DEF AboutData, Typed, data, DataPhases
  <2>3. Stage(d)'
    <3>1. CASE Configuring(d)
      BY <1>2, <2>1, <3>1 DEF Configuring, Stage, connected
    <3>2. CASE Arming(d)
      BY <1>2, <3>2 DEF Arming, Stage, data
    <3>3. CASE Running(d)
      BY <1>2, <3>3 DEF Running, Stage, data, complete, holding, asked_for
    <3>4. QED
      BY <2>1, <3>1, <3>2, <3>3 DEF AboutData, Stage
  <2>4. \A o \in Ports : Edge(syndrome_at[d][o], opposite[o])'
    BY <1>8, DataEdges DEF AboutSyndrome
  <2>5. \A x \in Cells :
          (\A o \in Ports : syndrome_at[d][o] # x) => link'[d][x] = << >>
    BY <2>1, Others DEF AboutData
  <2>6. link'[d]["phi"] = << >>
    BY <2>1, Others DEF AboutData
  <2>7. Hosted(d)'
    BY <2>1, HostedQuery
  <2>8. QED
    BY <2>2, <2>3, <2>4, <2>5, <2>6, <2>7 DEF AboutData
<1>10. About'
  BY <1>6, <1>8, <1>9 DEF About
<1>11. QED
  BY <1>10, CellByCell, PTL
-----------------------------------------------------------------------------
(* The invariant holds before the first message is taken.                  *)
LEMMA InitInv == Init => IInv
<1> SUFFICES ASSUME Init PROVE IInv
  OBVIOUS
<1> USE DEF Init
<1>1. /\ first_quiet \in 0 .. MaxCutoff /\ first_quiet \in Nat /\ MaxStep \in Nat
      /\ ~(0 > first_quiet) /\ {} # Ports
  BY Numbers
<1>2. Len(<< >>) = 0
  OBVIOUS
<1>3. Globals
  <2>1. << >> \in Seq(Reply) /\ << >> \in Seq(Bit) /\ << >> \in Seq(Measurements)
    OBVIOUS
  <2>2. link = [c \in Cells |-> [x \in Senders |-> link[c][x]]]
    OBVIOUS
  <2>3. rt = [c \in Cells |-> rt[c]]
        /\ announcements = [s \in Syndromes |-> announcements[s]]
    OBVIOUS
  <2>4. replies \in [Datas -> Seq(Reply)] /\ requested \in [Syndromes -> Nat]
    BY <2>1
  <2>5. errors \in [Datas -> Seq(Bit)] /\ announced \in [Syndromes -> Seq(Bit)]
    BY <2>1
  <2>6. updates \in [Datas -> Nat] /\ asked \in Seq(Measurements)
    BY <2>1
  <2>7. certified \subseteq Syndromes /\ (asked # << >> => certified = Syndromes)
    OBVIOUS
  <2>8. QED
    BY <1>1, <2>2, <2>3, <2>4, <2>5, <2>6, <2>7 DEF Globals
<1>4. ASSUME NEW c \in Cells
      PROVE  /\ Typed(c) /\ Configuring(c) /\ Stage(c) /\ ~connected(rt[c])
             /\ data(c) = initial(c) /\ rt[c].phase = "configuring"
             /\ data(c).step = 0 /\ data(c).seen_sources = {}
             /\ complete(c) = 0 /\ rt[c].mailbox = << >>
             /\ \A p \in Ports : heard(c, p) = 0
             /\ queried(c) = 0
             /\ \A x \in Senders : x # "host" => link[c][x] = << >>
  <2>1. rt[c] = [lifecycle |-> "disconnected", phase |-> "configuring",
                 data |-> initial(c), mailbox |-> << >>]
    BY DEF runtime, initial
  <2>2. /\ rt[c].lifecycle = "disconnected" /\ rt[c].phase = "configuring"
        /\ rt[c].data = initial(c) /\ rt[c].mailbox = << >>
    BY <2>1
  <2>3. link[c]["host"] = configuration
    BY Others DEF configuration
  <2>4. Typed(c) /\ ~connected(rt[c])
    BY <2>1, <2>2 DEF Typed, connected
  <2>5. Configuring(c) /\ Stage(c)
    BY <2>2, <2>3 DEF Configuring, Stage
  <2>6. data(c).step = 0 /\ data(c).seen_sources = {}
    <3>1. data(c) = initial(c)
      BY <2>2 DEF data
    <3>2. QED
      BY <3>1 DEF initial, SC!syndrome, DC!data_cell
  <2>7. complete(c) = 0 /\ \A p \in Ports : heard(c, p) = 0
    BY <1>1, <2>6 DEF complete, heard, one_if
  <2>8. queried(c) = 0
    BY <2>2 DEF queried
  <2>9. \A x \in Senders : x # "host" => link[c][x] = << >>
    OBVIOUS
  <2>10. QED
    BY <2>2, <2>4, <2>5, <2>6, <2>7, <2>8, <2>9 DEF data
<1>5. \A s \in Syndromes, p \in Ports : Edge(s, p)
  <2> TAKE s \in Syndromes, p \in Ports
  <2> DEFINE d == data_at[s][p]
             o == opposite[p]
  <2>1. /\ s \in Cells /\ d \in Cells /\ s \in Senders /\ d \in Senders
        /\ o \in Ports /\ s # "host" /\ d # "host"
    BY Edges, Others
  <2>2. /\ heard(s, p) = 0 /\ complete(d) = 0 /\ heard(d, o) = 0 /\ queried(s) = 0
        /\ link[d][s] = << >> /\ link[s][d] = << >>
    BY <1>4, <2>1
  <2>3. 0 <= 0 /\ ~(0 < 0)
    OBVIOUS
  <2>4. QED
    BY <2>2, <2>3 DEF Edge
<1>6. ASSUME NEW s \in Syndromes PROVE AboutSyndrome(s)
  <2>1. s \in Cells /\ "phi" \in Senders /\ "phi" # "host" /\ Cells \subseteq Senders
        /\ "host" \notin Cells
    BY Others
  <2>2. data(s) = SC!syndrome
    BY <1>4, <2>1 DEF initial
  <2>3. data(s) \in SyndromeData
    BY <2>2 DEF SC!syndrome, SyndromeData, Bit
  <2>4. SyndromePhases(s)
    BY <1>1, <1>4, <2>1 DEF SyndromePhases
  <2>5. ~holding(s)
    <3> DEFINE a == asked_for(s)
    <3> HIDE DEF a
    <3>1. rt[s].mailbox = << >> /\ Len(<<a>>) = 1
      BY <1>4, <2>1, Short
    <3>2. << >> # <<a>>
      BY <1>2, <3>1
    <3>3. QED
      BY <3>1, <3>2 DEF holding, a
  <2>6. Asking(s)
    <3>1. requested[s] = 0 /\ link[s]["phi"] = << >> /\ announcements[s] = << >>
          /\ data(s).step = 0 /\ s \notin certified
      BY <1>4, <2>1
    <3>2. one_if(holding(s)) = 0
      BY <2>5 DEF one_if
    <3>3. 0 \in 0 .. MaxStep + 1
      BY <1>1
    <3>4. ~(0 - 0 > first_quiet)
      BY <1>1
    <3>5. QED
      BY <1>2, <3>1, <3>2, <3>3, <3>4 DEF Asking
  <2>7. Announces(s)
    <3>1. announced[s] = << >> /\ complete(s) = 0 /\ rt[s].phase = "configuring"
          /\ data(s).seen_sources = {} /\ data(s).data_parity = 0
          /\ data(s).previous_measurement = 0
      BY <1>4, <2>1, <2>2 DEF SC!syndrome
    <3>2. reported(s) = {}
      BY <3>1 DEF reported
    <3>3. flipped(s, 0) = {}
      BY DEF flipped, parity_after
    <3>4. parity(announced[s]) = 0
      BY <1>2, <3>1 DEF parity, parity_after
    <3>5. xor(0, 0) = 0
      BY Xor DEF Bit
    <3>6. \A n \in Nat : ~(n < 0)
      OBVIOUS
    <3>7. parity(announced[s])
            = xor(odd(flipped(s, complete(s))), data(s).previous_measurement)
      BY <3>1, <3>3, <3>4, <3>5, OddNone
    <3>8. \A n \in Nat : n > first_quiet /\ n < complete(s) => event(s, n) = 0
      BY <3>1, <3>6
    <3>9. Len(announced[s]) = complete(s)
      BY <1>2, <3>1
    <3>10. data(s).data_parity = odd(reported(s))
      BY <3>1, <3>2, OddNone
    <3>11. QED
      BY <3>1, <3>7, <3>8, <3>9, <3>10 DEF Announces
  <2>8. \A x \in Cells : link[s][x] = << >>
    BY <1>4, <2>1
  <2>9. QED
    BY <1>4, <1>5, <2>1, <2>3, <2>4, <2>6, <2>7, <2>8 DEF AboutSyndrome
<1>7. ASSUME NEW d \in Datas PROVE AboutData(d)
  <2>1. d \in Cells /\ "phi" \in Senders /\ "phi" # "host" /\ Cells \subseteq Senders
        /\ "host" \notin Cells /\ d \notin Syndromes
    BY Others, NoiseMeshAssumption
  <2>2. data(d) = DC!data_cell
    BY <1>4, <2>1 DEF initial
  <2>3. data(d) \in DataData
    <3>1. DC!i \in [x : Bit, z : Bit]
      BY DEF DC!i, Bit
    <3>2. QED
      BY <2>2, <3>1 DEF DC!data_cell, DataData, Bit
  <2>4. DataPhases(d)
    BY <1>4, <2>1 DEF DataPhases
  <2>5. Hosted(d)
    <3>1. errors[d] = << >> /\ replies[d] = << >> /\ complete(d) = 0
          /\ ~connected(rt[d]) /\ updates[d] = 0 /\ asked = << >>
      BY <1>4, <2>1
    <3>2. \A n \in Nat : ~(n < 0)
      OBVIOUS
    <3>3. DOMAIN << >> = {}
      OBVIOUS
    <3>4. QED
      BY <1>2, <3>1, <3>2, <3>3 DEF Hosted
  <2>6. \A x \in Cells : link[d][x] = << >>
    BY <1>4, <2>1
  <2>7. link[d]["phi"] = << >>
    BY <1>4, <2>1
  <2>8. \A o \in Ports : Edge(syndrome_at[d][o], opposite[o])
    BY <1>5, DataEdges
  <2>9. QED
    BY <1>4, <2>1, <2>3, <2>4, <2>5, <2>6, <2>7, <2>8 DEF AboutData
<1>8. QED
  BY <1>3, <1>6, <1>7, CellByCell DEF About

(* Stuttering keeps it.                                                    *)
LEMMA Unchanged == IInv /\ UNCHANGED vars => IInv'
<1> SUFFICES ASSUME IInv, UNCHANGED vars PROVE IInv'
  OBVIOUS
<1> USE DEF vars, cells
<1>2. Types' /\ Silent' /\ Phases'
  <2>1. Types'
    BY DEF IInv, Types, data
  <2>2. Silent'
    BY DEF IInv, Silent
  <2>3. Phases'
    BY DEF IInv, Phases, data, all_connected
  <2>4. QED
    BY <2>1, <2>2, <2>3
<1>3. \A c \in Cells : Stage(c)'
  BY StageFrame DEF IInv
<1>4. \A s \in Syndromes, p \in Ports : Edge(s, p)'
  BY EdgeFrame DEF IInv
<1>5. ASSUME NEW s \in Syndromes PROVE Asking(s)' /\ Announces(s)'
  <2>1. Asking(s) /\ Announces(s)
    BY DEF IInv
  <2>2. Asking(s)'
    BY <2>1 DEF Asking, data, holding, asked_for, result, event, quiet,
       all_connected
  <2>3. Announces(s)'
    BY <2>1 DEF Announces, data, complete, event, quiet, flipped, reported, error
  <2>4. QED
    BY <2>2, <2>3
<1>6. ASSUME NEW d \in Datas PROVE Hosted(d)'
  <2>1. Hosted(d)
    BY DEF IInv
  <2>2. QED
    BY <2>1, HostedFrame
<1>7. QED
  BY <1>2, <1>3, <1>4, <1>5, <1>6 DEF IInv

(* Every step of the mesh.                                                 *)
LEMMA Inductive == IInv /\ [Next]_vars => IInv'
<1> SUFFICES ASSUME IInv, [Next]_vars PROVE IInv'
  OBVIOUS
<1>1. ASSUME NEW c \in Cells, Cell(c) PROVE IInv'
  <2>1. UNCHANGED Rest
    BY <1>1 DEF Cell, Rest
  <2>2. CASE c \in Syndromes
    BY <1>1, <2>1, <2>2, SyndromeConnects, SyndromeQueues, SyndromeProcesses,
       SyndromeAdmits DEF Cell
  <2>3. CASE c \in Datas
    BY <1>1, <2>1, <2>3, DataConnects, DataQueues, DataProcesses, DataAdmits
       DEF Cell
  <2>4. QED
    BY <2>2, <2>3 DEF Cells
<1>2. QED
  BY <1>1, FirstMeasurement, NextMeasurement, HostUpdates, HostQueries, Unchanged
     DEF Next

(* The invariant, for every mesh.                                          *)
LEMMA Invariance == Spec => []IInv
BY InitInv, Inductive, PTL DEF Spec
-----------------------------------------------------------------------------
(* No cell stops, whatever meets its mailbox and its phase.                *)
THEOREM NoCellEverStops == Spec => []NoCellStops
<1>1. IInv => NoCellStops
  BY DEF IInv, Types, NoCellStops
<1>2. QED
  BY <1>1, Invariance, PTL

(* An event of a syndrome is the parity of the errors of one round at all  *)
(* its data cells and of its own two measurement errors.                   *)
THEOREM EventsAlwaysExplainErrors == Spec => []EventsExplainErrors
<1>1. IInv => EventsExplainErrors
  <2> SUFFICES ASSUME IInv, NEW s \in Syndromes
               PROVE  parity(announced[s])
                        = xor(odd(flipped(s, Len(announced[s]))),
                              data(s).previous_measurement)
    BY DEF EventsExplainErrors, flipped
  <2>1. Announces(s)
    BY DEF IInv
  <2>2. QED
    BY <2>1 DEF Announces
<1>2. QED
  BY <1>1, Invariance, PTL

(* A cell has disabled its noise exactly if it has been through the first  *)
(* quiet round: before it is armed it has been through none, and from then *)
(* on the flag follows its rounds.                                         *)
LEMMA DisabledAfterFirstQuiet ==
  ASSUME IInv, NEW c \in Cells
  PROVE  data(c).noise_disabled = 1 <=> rounds(c) > first_quiet
<1>1. first_quiet \in Nat /\ Ports # {}
  BY Numbers DEF IInv, Types
<1>2. rounds(c) = complete(c)
  <2>1. CASE c \in Syndromes
    BY <2>1 DEF IInv, Announces, rounds
  <2>2. CASE c \notin Syndromes
    BY <2>2 DEF IInv, Hosted, rounds, Cells
  <2>3. QED
    BY <2>1, <2>2
<1>3. Stage(c)
  BY DEF IInv
<1>4. CASE Configuring(c)
  <2>1. data(c) = initial(c)
    BY <1>4 DEF Configuring, data
  <2>2. data(c).step = 0 /\ data(c).seen_sources = {} /\ data(c).noise_disabled = 0
    BY <2>1 DEF initial, SC!syndrome, DC!data_cell
  <2>3. complete(c) = 0
    BY <1>1, <2>2 DEF complete, one_if
  <2>4. QED
    BY <1>1, <1>2, <2>2, <2>3
<1>5. CASE Arming(c)
  <2>1. complete(c) = 0 /\ data(c).noise_disabled = 0
    BY <1>1, <1>5 DEF Arming, complete, one_if
  <2>2. QED
    BY <1>1, <1>2, <2>1
<1>6. CASE Running(c)
  BY <1>2, <1>6 DEF Running, one_if
<1>7. QED
  BY <1>3, <1>4, <1>5, <1>6 DEF Stage

(* The noise of a cell is disabled from the first quiet round on, and not  *)
(* before, and from that round on no source has an error.                  *)
THEOREM CutoffIsAlwaysPunctual == Spec => []CutoffIsPunctual
<1>1. IInv => CutoffIsPunctual
  <2> SUFFICES ASSUME IInv PROVE CutoffIsPunctual
    OBVIOUS
  <2>1. ASSUME NEW d \in Datas, NEW n \in DOMAIN errors[d], n > first_quiet
        PROVE  errors[d][n] = parity_after(errors[d], n - 1)
    <3> DEFINE h == errors[d]
               f == first_quiet
               l == Len(h)
    <3>1. /\ Hosted(d) /\ f \in Nat /\ h \in Seq(Bit) /\ l \in Nat /\ n \in 1 .. l
          /\ n > f
      BY <2>1, DataFacts DEF AboutData, Globals
    <3>2. n - 1 \in Nat /\ n - 1 >= f /\ n - 1 < l /\ (n - 1) + 1 = n /\ n # 0
      <4> HIDE DEF l, f
      <4>1. QED
        BY ONLY <3>1
    <3>3. error(d, n - 1) = 0
      BY <3>1, <3>2 DEF Hosted
    <3>4. \A m \in 0 .. l : parity_after(h, m) \in Bit
      BY <3>1 DEF parity_after, Bit
    <3>5. xor(parity_after(h, n - 1), parity_after(h, n)) = 0
      BY <3>2, <3>3 DEF error
    <3>6. n - 1 \in 0 .. l /\ n \in 0 .. l
      <4> HIDE DEF l, f
      <4>1. QED
        BY ONLY <3>1
    <3>7. parity_after(h, n - 1) = parity_after(h, n)
      BY <3>4, <3>5, <3>6, Xor
    <3>8. parity_after(h, n) = h[n]
      BY <3>2 DEF parity_after
    <3>9. QED
      BY <3>7, <3>8
  <2>2. ASSUME NEW s \in Syndromes, Len(announced[s]) > first_quiet
        PROVE  data(s).previous_measurement = 0
    BY <2>2 DEF IInv, Announces
  <2>3. ASSUME NEW c \in Cells
        PROVE  data(c).noise_disabled = 1 <=> rounds(c) > first_quiet
    BY <2>3, DisabledAfterFirstQuiet
  <2>4. QED
    BY <2>1, <2>2, <2>3 DEF CutoffIsPunctual
<1>2. QED
  BY <1>1, Invariance, PTL

(* A data cell is never more than a round ahead of its syndromes, so that  *)
(* both have the same parity of errors once it stays.                      *)
LEMMA SettledErrors ==
  ASSUME IInv, NEW s \in Syndromes, NEW p \in Ports, complete(s) > first_quiet
  PROVE  parity_after(errors[data_at[s][p]], complete(s))
           = parity(errors[data_at[s][p]])
<1> DEFINE d == data_at[s][p]
           o == opposite[p]
           h == errors[d]
           l == Len(h)
           c == complete(s)
           n == data(s).step
           f == first_quiet
<1>1. /\ d \in Datas /\ o \in Ports /\ Hosted(d) /\ Edge(s, p) /\ h \in Seq(Bit)
      /\ l \in Nat /\ c \in Nat /\ f \in Nat /\ n \in Nat /\ c > f /\ n <= c
  <2>1. d \in Datas /\ o \in Ports /\ Edge(s, p)
    BY Edges DEF IInv
  <2>2. Hosted(d) /\ h \in Seq(Bit)
    BY <2>1, DataFacts DEF AboutData, Globals
  <2>3. c \in Nat /\ f \in Nat /\ n \in Nat
    BY SyndromeFacts
  <2>4. n <= c
    BY <2>3 DEF complete, one_if
  <2>5. l \in Nat
    BY <2>2
  <2>6. QED
    BY <2>1, <2>2, <2>3, <2>4, <2>5
<1>2. c <= l
  BY CountedRounds
<1>3. l <= n + 1
  <2> DEFINE a == heard(d, o)
             q == queried(s)
             e == data(d).step
  <2>1. l = complete(d) /\ e \in Nat /\ data(d).seen_sources \subseteq Ports
    BY <1>1, DataFacts DEF Hosted
  <2>2. l <= a
    BY <1>1, <2>1 DEF complete, heard, one_if
  <2>3. a <= q /\ (q = 0 \/ q = n + 1)
    BY <1>1 DEF Edge, queried
  <2>4. a \in Nat
    BY <2>1 DEF heard, one_if
  <2> HIDE DEF l, n, a, q
  <2>5. QED
    BY <1>1, <2>2, <2>3, <2>4
<1>4. c = l \/ (c \in Nat /\ c + 1 = l /\ c >= f /\ c < l)
  <2> HIDE DEF l, n, c, f
  <2>1. QED
    BY ONLY <1>1, <1>2, <1>3
<1>5. CASE c = l
  BY <1>5 DEF parity
<1>6. CASE c + 1 = l /\ c >= f /\ c < l
  <2>1. error(d, c) = 0
    <3>1. l = complete(d)
      BY <1>1 DEF Hosted
    <3> HIDE DEF c, l
    <3>2. QED
      BY <1>1, <1>6, <3>1 DEF Hosted
  <2>2. xor(parity_after(h, c), parity_after(h, c + 1)) = 0
    BY <2>1 DEF error
  <2>3. \A m \in 0 .. l : parity_after(h, m) \in Bit
    BY <1>1 DEF parity_after, Bit
  <2>4. c \in 0 .. l /\ c + 1 \in 0 .. l
    <3> HIDE DEF c, l
    <3>1. QED
      BY <1>1, <1>6
  <2> HIDE DEF c, l, h
  <2>5. parity_after(h, c) = parity_after(h, l)
    BY <1>6, <2>2, <2>3, <2>4, Xor
  <2>6. QED
    BY <2>5 DEF parity, c, l, h
<1>7. QED
  BY <1>4, <1>5, <1>6

(* What a quiet result says of a syndrome holds for ever.                  *)
THEOREM QuietIsAlwaysFinal == Spec => []QuietIsFinal
<1>1. IInv => QuietIsFinal
  <2> SUFFICES ASSUME IInv, NEW s \in certified
               PROVE  /\ \A k \in DOMAIN announcements[s] :
                           /\ announcements[s][k].present = 0
                           /\ announcements[s][k].quiet = 1
                      /\ parity(announced[s]) =
                           odd({p \in Ports : parity(errors[data_at[s][p]]) = 1})
    BY DEF QuietIsFinal
  <2> DEFINE n == data(s).step
             c == complete(s)
             f == first_quiet
             l == Len(announcements[s])
             a == result(s, n - 1)
  <2>1. /\ s \in Syndromes /\ Asking(s) /\ Announces(s) /\ n \in Nat /\ c \in Nat
        /\ f \in Nat
    <3>1. s \in Syndromes
      BY CellByCell DEF About, Globals
    <3>2. QED
      BY <3>1, SyndromeFacts DEF AboutSyndrome
  <2>2. n <= c
    BY <2>1 DEF complete, one_if
  <2>3. n - l > f
    BY <2>1 DEF Asking
  <2>4. announcements[s] = << >> \/ announcements[s] = <<a>>
    BY <2>1 DEF Asking
  <2>5. ASSUME NEW k \in DOMAIN announcements[s]
        PROVE  /\ announcements[s][k].present = 0
               /\ announcements[s][k].quiet = 1
    <3>1. announcements[s] # << >>
      BY <2>5
    <3>2. announcements[s] = <<a>>
      BY <2>4, <3>1
    <3>3. l = 1 /\ announcements[s][k] = a
      <4> HIDE DEF a
      <4>1. l = 1
        BY <3>2, Short
      <4>2. DOMAIN <<a>> = {1} /\ <<a>>[1] = a
        OBVIOUS
      <4>3. QED
        BY <2>5, <3>2, <4>1, <4>2
    <3> DEFINE m == n - 1
    <3> HIDE DEF n, c, f, l
    <3>4. m \in Nat /\ m > f /\ m < c /\ m >= f
      BY ONLY <2>1, <2>2, <2>3, <3>3
    <3>5. event(s, m) = 0
      BY <2>1, <3>4 DEF Announces, c, f
    <3>6. quiet(m) = 1
      BY <3>4 DEF quiet, one_if, f
    <3>7. a.present = event(s, m) /\ a.quiet = quiet(m)
      BY DEF result, n
    <3>8. QED
      BY <3>3, <3>5, <3>6, <3>7
  <2>6. l \in Nat
    <3>1. CASE announcements[s] = << >>
      BY <3>1, Short
    <3>2. CASE announcements[s] = <<a>>
      <4> HIDE DEF a
      <4>1. QED
        BY <3>2, Short
    <3>3. QED
      BY <2>4, <3>1, <3>2
  <2>7. c > f
    <3> HIDE DEF n, c, f, l
    <3>1. QED
      BY ONLY <2>1, <2>2, <2>3, <2>6
  <2>8. flipped(s, c) = {p \in Ports : parity(errors[data_at[s][p]]) = 1}
    BY <2>1, <2>7, SettledErrors DEF flipped
  <2>9. parity(announced[s]) = xor(odd(flipped(s, c)), 0)
    BY <2>1, <2>7 DEF Announces
  <2>10. odd(flipped(s, c)) \in Bit
    <3>1. flipped(s, c) \subseteq Ports /\ IsFiniteSet(Ports)
      BY NoiseMeshAssumption DEF flipped
    <3>2. QED
      BY <3>1, FS_Subset, OddBit
  <2> HIDE DEF c
  <2>11. parity(announced[s]) = odd(flipped(s, c))
    BY <2>9, <2>10, Xor
  <2>12. QED
    BY <2>5, <2>8, <2>11
<1>2. QED
  BY <1>1, Invariance, PTL

(* Each query is answered once and in order, against every correction and  *)
(* every error of the data cell.                                           *)
THEOREM RepliesAlwaysMatchFrame == Spec => []RepliesMatchFrame
<1>1. IInv => RepliesMatchFrame
  <2> SUFFICES ASSUME IInv, NEW d \in Datas
               PROVE  /\ Len(replies[d]) <= Len(asked)
                      /\ \A n \in DOMAIN replies[d] :
                           /\ replies[d][n].request_id = n - 1
                           /\ replies[d][n].anticommutes = answer(d, n)
    BY DEF RepliesMatchFrame, answer
  <2>1. Hosted(d)
    BY DEF IInv
  <2>2. ASSUME NEW n \in DOMAIN replies[d]
        PROVE  /\ replies[d][n].request_id = n - 1
               /\ replies[d][n].anticommutes = answer(d, n)
    <3> DEFINE r == n - 1
               v == answer(d, n)
    <3>1. replies[d][n]
            = [tag |-> "pauli_reply", request_id |-> r, anticommutes |-> v]
      BY <2>1 DEF Hosted
    <3> HIDE DEF r, v
    <3>2. replies[d][n].request_id = r /\ replies[d][n].anticommutes = v
      BY <3>1
    <3>3. QED
      BY <3>2 DEF r, v
  <2>3. Len(replies[d]) <= Len(asked)
    BY <2>1 DEF Hosted
  <2>4. QED
    BY <2>2, <2>3
<1>2. QED
  BY <1>1, Invariance, PTL
-----------------------------------------------------------------------------
(* Of some syndromes, one has heard the fewest rounds.                     *)
LEMMA SomeSyndromeIsLast ==
  ASSUME NEW S, S # {}, NEW h \in [S -> Nat]
  PROVE  \E c \in S : \A d \in S : h[c] <= h[d]
<1> DEFINE below(c) == 0 .. h[c]
           order == StrictSubsetOrdering(Nat)
           T == {below(c) : c \in S}
<1>1. \A c \in S : h[c] \in Nat
  OBVIOUS
<1>2. T \subseteq FiniteSubsetsOf(Nat) /\ T # {}
  <2>1. \A c \in S : below(c) \in SUBSET Nat /\ IsFiniteSet(below(c))
    BY <1>1, FS_Interval
  <2>2. QED
    BY <2>1 DEF FiniteSubsetsOf
<1>3. PICK least \in T : \A t \in T : ~(<<t, least>> \in order)
  <2>1. IsWellFoundedOn(order, FiniteSubsetsOf(Nat))
    BY FS_StrictSubsetOrderingWellFounded
  <2> HIDE DEF order, T
  <2>2. QED
    BY <1>2, <2>1, WFMin
<1>4. PICK c \in S : least = below(c)
  OBVIOUS
<1>5. ASSUME NEW d \in S, h[d] < h[c]
      PROVE  FALSE
  <2>1. below(d) \subseteq below(c) /\ below(d) # below(c)
    BY <1>1, <1>5
  <2>2. below(d) \in SUBSET Nat /\ below(c) \in SUBSET Nat
    BY <1>1
  <2>3. <<below(d), below(c)>> \in order
    BY <2>1, <2>2 DEF StrictSubsetOrdering
  <2>4. QED
    BY <1>3, <1>4, <2>3
<1>6. \A d \in S : h[c] <= h[d]
  BY <1>1, <1>5
<1>7. QED
  BY <1>6

(* What EveryQueryAnswered assumes.                                        *)
all_at_rest ==
  /\ \A c \in Cells : at_rest(c)
  /\ \A s \in Syndromes : requested[s] > 0 /\ announcements[s] = << >>

(* When nothing is under way, the two ends of an edge have counted the     *)
(* same.                                                                   *)
LEMMA EdgeAtRest ==
  ASSUME IInv, all_at_rest, NEW s \in Syndromes, NEW p \in Ports
  PROVE  /\ heard(s, p) = complete(data_at[s][p])
         /\ heard(data_at[s][p], opposite[p]) = queried(s)
         /\ queried(s) = data(s).step + 1
<1> DEFINE d == data_at[s][p]
           o == opposite[p]
           a == SC!phenom_query(heard(d, o), o)
           r == report(d, heard(s, p), p)
<1>1. /\ s \in Cells /\ d \in Cells /\ d \in Datas /\ o \in Ports /\ s \in Senders
      /\ d \in Senders /\ Edge(s, p)
  BY Edges DEF IInv
<1>2. link[d][s] = << >> /\ link[s][d] = << >>
  BY <1>1 DEF all_at_rest, at_rest
<1>3. << >> # <<a>> /\ << >> # <<r>>
  <2> HIDE DEF a, r
  <2>1. Len(<<a>>) = 1 /\ Len(<<r>>) = 1 /\ Len(<< >>) = 0
    BY Short
  <2>2. QED
    BY <2>1
<1> DEFINE h == heard(s, p)
           c == complete(d)
           g == heard(d, o)
           q == queried(s)
<1>4. h <= c /\ g <= q /\ ~(g < q) /\ ~(h < c)
  BY <1>1, <1>2, <1>3 DEF Edge
<1>5. h \in Nat /\ c \in Nat /\ g \in Nat /\ q \in Nat
  BY <1>1, SyndromeFacts, DataFacts DEF heard, queried, one_if
<1>6. Running(s)
  <2>1. connected(rt[s]) /\ eligible(rt[s]) = {} /\ Stage(s)
    BY <1>1 DEF all_at_rest, at_rest, quiescent, IInv
  <2>2. QED
    BY <1>1, <2>1, Settled
<1>7. q = data(s).step + 1
  BY <1>6 DEF queried, Running
<1> HIDE DEF h, c, g, q
<1>8. h = c /\ g = q
  BY <1>4, <1>5
<1>9. QED
  BY <1>7, <1>8 DEF h, c, g, q

(* A syndrome at rest has had its last request answered, or else waits for *)
(* a port of the present round.                                            *)
LEMMA WaitsForPort ==
  ASSUME IInv, all_at_rest, NEW s \in Syndromes
  PROVE  \/ data(s).step = MaxStep + 1
         \/ /\ data(s).seen_sources # Ports /\ data(s).step <= MaxStep
<1> DEFINE n == data(s).step
           r == requested[s]
           h == one_if(holding(s))
           req == phenom_request(n)
<1>1. /\ s \in Cells /\ "phi" \in Senders /\ Asking(s) /\ Stage(s)
      /\ SyndromePhases(s) /\ n \in Nat /\ MaxStep \in Nat
  BY Others, SyndromeFacts DEF AboutSyndrome
<1>2. /\ connected(rt[s]) /\ eligible(rt[s]) = {} /\ link[s]["phi"] = << >>
      /\ r > 0 /\ announcements[s] = << >>
  BY <1>1 DEF all_at_rest, at_rest, quiescent
<1>3. Running(s)
  BY <1>1, <1>2, Settled
<1>4. Len(link[s]["phi"]) = 0
  BY <1>2, Short
<1>5. r = n + 0 + h /\ r \in 0 .. MaxStep + 1 /\ (r = n => r \in {0, MaxStep + 1})
  BY <1>1, <1>2, <1>4 DEF Asking
<1>6. CASE ~holding(s)
  <2>1. h = 0
    BY <1>6 DEF one_if
  <2> HIDE DEF n, r, h
  <2>2. n = MaxStep + 1
    BY <1>1, <1>2, <1>5, <2>1
  <2>3. QED
    BY <2>2 DEF n
<1>7. CASE holding(s)
  <2>1. h = 1
    BY <1>7 DEF one_if
  <2>2. n <= MaxStep
    <3> HIDE DEF n, r, h
    <3>1. QED
      BY <1>1, <1>5, <2>1
  <2>3. rt[s].mailbox
          = <<[message |-> req, postponed |-> rt[s].phase = "collecting"]>>
    BY <1>7 DEF holding, asked_for
  <2>4. rt[s].phase = "collecting"
    <3>1. SUFFICES ASSUME rt[s].phase # "collecting" PROVE FALSE
      OBVIOUS
    <3>2. (rt[s].phase = "collecting") = FALSE
      BY <3>1
    <3> HIDE DEF req
    <3>3. rt[s].mailbox = <<fresh(req)>>
      BY <2>3, <3>2 DEF fresh
    <3>4. QED
      BY <1>2, <3>3, Chosen
  <2>5. data(s).seen_sources # Ports
    BY <1>1, <2>4 DEF SyndromePhases
  <2>6. QED
    BY <2>2, <2>5
<1>8. QED
  BY <1>6, <1>7

(* A syndrome that waits for a port waits for a cell that waits for one    *)
(* further behind.                                                         *)
LEMMA SomeoneFurtherBehind ==
  ASSUME IInv, all_at_rest, NEW s \in Syndromes, data(s).seen_sources # Ports
  PROVE  \E t \in Syndromes : data(t).step < data(s).step
<1> DEFINE n == data(s).step
<1>1. n \in Nat /\ data(s).seen_sources \subseteq Ports
  BY SyndromeFacts
<1>2. PICK p \in Ports : p \notin data(s).seen_sources
  BY <1>1
<1> DEFINE d == data_at[s][p]
           o == opposite[p]
           e == data(d).step
           S == data(d).seen_sources
<1>3. /\ d \in Datas /\ o \in Ports /\ e \in Nat /\ S \subseteq Ports
  BY Edges, DataFacts
<1>4. heard(s, p) = n
  BY <1>1, <1>2 DEF heard, one_if
<1>5. complete(d) = n /\ heard(d, o) = n + 1
  BY <1>4, EdgeAtRest
<1>6. S # Ports /\ e = n
  <2>1. complete(d) = e + one_if(S = Ports)
    BY DEF complete
  <2>2. heard(d, o) = e + one_if(o \in S)
    BY DEF heard
  <2> DEFINE a == one_if(S = Ports)
             b == one_if(o \in S)
  <2>3. a \in {0, 1} /\ b \in {0, 1}
    BY DEF one_if
  <2> HIDE DEF a, b, n, e
  <2>4. n = e + a /\ n + 1 = e + b
    BY <1>5, <2>1, <2>2 DEF a, b
  <2>5. a = 0 /\ e = n
    BY <1>1, <1>3, <2>3, <2>4
  <2>6. QED
    BY <2>5 DEF a, one_if
<1>7. PICK u \in Ports : u \notin S
  BY <1>3, <1>6
<1> DEFINE t == syndrome_at[d][u]
           v == opposite[u]
           m == data(t).step
<1>8. /\ t \in Syndromes /\ v \in Ports /\ data_at[t][v] = d /\ opposite[v] = u
  BY <1>3, DataEdges
<1>9. heard(d, u) = e
  BY <1>3, <1>7 DEF heard, one_if
<1>10. heard(d, u) = m + 1 /\ m \in Nat
  <2>1. heard(data_at[t][v], opposite[v]) = queried(t) /\ queried(t) = m + 1
    BY <1>8, EdgeAtRest
  <2>2. QED
    BY <1>8, <2>1, SyndromeFacts
<1> HIDE DEF n, e, m
<1>11. m < n
  BY <1>1, <1>6, <1>9, <1>10
<1>12. QED
  BY <1>8, <1>11 DEF m, n

(* When nothing is under way any more, the noise has been certified to be  *)
(* off at every syndrome and every query has been answered: nobody waits   *)
(* for anybody.                                                            *)
THEOREM EveryQueryIsAnswered == Spec => []EveryQueryAnswered
<1>1. IInv => EveryQueryAnswered
  <2> SUFFICES ASSUME IInv, all_at_rest
               PROVE  /\ certified = Syndromes
                      /\ \A d \in Datas : Len(replies[d]) = Len(asked)
    BY DEF EveryQueryAnswered, all_at_rest
  <2>1. ASSUME NEW s \in Syndromes PROVE s \in certified
    <3> DEFINE h == [t \in Syndromes |-> data(t).step]
    <3>1. h \in [Syndromes -> Nat]
      BY SyndromeFacts
    <3>2. PICK c \in Syndromes : \A t \in Syndromes : h[c] <= h[t]
      <4>1. Syndromes # {}
        BY <2>1
      <4> HIDE DEF h
      <4>2. QED
        BY <3>1, <4>1, SomeSyndromeIsLast
    <3>3. data(c).seen_sources = Ports
      <4>1. SUFFICES ASSUME data(c).seen_sources # Ports PROVE FALSE
        OBVIOUS
      <4>2. PICK t \in Syndromes : data(t).step < data(c).step
        BY <4>1, SomeoneFurtherBehind
      <4>3. h[c] <= h[t] /\ h[t] < h[c] /\ h[c] \in Nat /\ h[t] \in Nat
        BY <3>1, <3>2, <4>2
      <4> HIDE DEF h
      <4>4. QED
        BY <4>3
    <3>4. data(c).step = MaxStep + 1
      BY <3>3, WaitsForPort
    <3> DEFINE n == data(s).step
               f == first_quiet
    <3>5. h[s] = n /\ h[c] = MaxStep + 1 /\ h[c] <= h[s] /\ n \in Nat /\ f \in Nat
      BY <3>2, <3>4, SyndromeFacts
    <3>6. f \in 0 .. MaxCutoff /\ Asking(s) /\ announcements[s] = << >>
      BY CellByCell DEF About, Globals, AboutSyndrome, all_at_rest
    <3>7. s \in certified <=> n - Len(announcements[s]) > f
      BY <3>6 DEF Asking
    <3>8. Len(announcements[s]) = 0
      BY <3>6, Short
    <3> HIDE DEF h, n, f
    <3>9. n - 0 > f
      BY <3>5, <3>6, Numbers
    <3>10. QED
      BY <3>7, <3>8, <3>9
  <2>2. certified \subseteq Syndromes
    BY CellByCell DEF About, Globals
  <2>3. ASSUME NEW d \in Datas PROVE Len(replies[d]) = Len(asked)
    <3> DEFINE u == updates[d]
               v == pending(d)
               A == Len(asked)
               R == Len(replies[d])
               k == Len(link[d]["host"])
    <3>1. d \in Cells /\ "host" \in Senders
      BY Others
    <3>2. connected(rt[d]) /\ link[d]["host"] = << >>
      BY <3>1 DEF all_at_rest, at_rest
    <3>3. k = 0 /\ hosts(d)
      BY <3>2, Short, Hosts
    <3>4. v \in 0 .. u /\ u \in Nat /\ A \in Nat /\ R \in Nat /\ R <= A
      BY <3>3 DEF hosts
    <3>5. v = k - (A - R)
      BY DEF pending, unanswered
    <3> HIDE DEF u, v, A, R, k
    <3>6. R = A
      BY <3>3, <3>4, <3>5
    <3>7. QED
      BY <3>6 DEF R, A
  <2>4. QED
    BY <2>1, <2>2, <2>3
<1>2. QED
  BY <1>1, Invariance, PTL
=============================================================================
