--------------------------- MODULE PhiMeshProofs ---------------------------
(***************************************************************************)
(* Theorems about PhiMesh, for every mesh whose cells have distinct        *)
(* neighbors.  A counter that wraps does not say how many exchanges a cell *)
(* has entered; the invariant is that some numbering h of them fits.  The  *)
(* last part is about the torus that phi_noise_topology makes of the mesh. *)
(***************************************************************************)
EXTENDS PhiMesh, NoiseTopology, FiniteSetTheorems, WellFoundedInduction, TLAPS

Phases == {"configuring", "measuring", "gathering", "comparing", "flipping"}
Counter == 0 .. U32 - 1
Barrier == 0 .. NeighborCount - 1

Message ==
  {phi_config}
    \cup {phenom_anyon(s, b) : s \in Counter, b \in {0, 1}}
    \cup {phi(e) : e \in Counter}
    \cup {phi0(s, p, v) : s \in Counter, p \in Ports, v \in Values}
    \cup {anyon_move(s, b) : s \in Counter, b \in {0, 1}}

Entry == [message : Message, postponed : BOOLEAN]

Data ==
  [step : Counter, diffusion_round : 0 .. Rounds, phi0 : Nat,
   phi_received : Barrier, seen_sources : SUBSET Ports, best_phi0 : Nat,
   best_direction : Ports \cup {NoDirection}, moves_received : Barrier,
   anyon : {0, 1}]

Runtime ==
  [lifecycle : {"disconnected", "connected"}, phase : Phases, data : Data,
   mailbox : Seq(Entry)]

(* What is on the links to a cell.                                         *)
Inbound == [Senders -> Seq(Message)]

one_if(b) == IF b THEN 1 ELSE 0

(* Exchange e is the one with this index of this turn of the cells' loop.  *)
turn(e) == (e - 1) \div exchanges
index(e) == (e - 1) % exchanges

(* The fields that a cell casts on its port p of exchange e, and all that  *)
(* cells cast to each other in it.                                         *)
fields_from(e, p) == {phi0(turn(e) % U32, p, v) : v \in Values}

of_exchange(e) ==
  IF index(e) < Rounds THEN {phi((turn(e) * Rounds + index(e)) % U32)}
  ELSE IF index(e) = Rounds THEN UNION {fields_from(e, p) : p \in Ports}
  ELSE {anyon_move(turn(e) % U32, b) : b \in {0, 1}}

(* What the host or the syndrome still owes a cell.                        *)
requested(r) ==
  CASE r.phase = "configuring" -> {phi_config}
    [] r.phase = "measuring" -> {phenom_anyon(r.data.step, b) : b \in {0, 1}}
    [] OTHER -> {}

(* Messages of its present exchange that a cell has consumed.              *)
consumed(r) ==
  CASE r.phase = "gathering" -> r.data.phi_received
    [] r.phase = "comparing" -> Cardinality(r.data.seen_sources)
    [] r.phase = "flipping" -> r.data.moves_received
    [] OTHER -> NeighborCount

(* Where a cell that has entered e exchanges is in its loop.               *)
at(r, e) ==
  LET d == r.data
  IN  /\ r.phase = "configuring" => e = 0
      /\ r.phase \in {"configuring", "measuring"} =>
           index(e + 1) = 0 /\ d.diffusion_round = 0
             /\ d.step = turn(e + 1) % U32
      /\ r.phase \notin {"configuring", "measuring"} =>
           d.step = turn(e) % U32
      /\ r.phase = "gathering" =>
           d.diffusion_round = index(e) /\ index(e) < Rounds
      /\ r.phase = "comparing" =>
           d.diffusion_round = Rounds /\ index(e) = Rounds
             /\ d.seen_sources # Ports
      /\ r.phase = "flipping" =>
           d.diffusion_round = Rounds /\ index(e) = Rounds + 1
      /\ r.phase # "gathering" => d.phi_received = 0
      /\ r.phase # "flipping" => d.moves_received = 0

(* The ports whose neighbors have entered exchange e, when each cell x has *)
(* entered h[x] of them.                                                   *)
there(c, e, h) == {p \in Ports : h[neighbor[c][p]] >= e}

(* c enters one more exchange.                                             *)
entering(h, c) == [h EXCEPT ![c] = @ + 1]

(* Nothing is underway but messages of the present exchange, of the next   *)
(* one, and what was requested.                                            *)
NothingElse(r, l, e) ==
  unconsumed(l, r.mailbox,
    Message \ (of_exchange(e) \cup of_exchange(e + 1) \cup requested(r))) = 0

(* One message of each neighbor that has entered an exchange.              *)
OneOfEach(c, r, l, h) ==
  /\ consumed(r) + unconsumed(l, r.mailbox, of_exchange(h[c]))
       = Cardinality(there(c, h[c], h))
  /\ unconsumed(l, r.mailbox, of_exchange(h[c] + 1))
       = Cardinality(there(c, h[c] + 1, h))

(* At most one field comes from each of them, and none from others.        *)
OneField(c, r, l, h) ==
  /\ index(h[c]) = Rounds =>
       /\ r.data.seen_sources \subseteq there(c, h[c], h)
       /\ \A p \in Ports :
            unconsumed(l, r.mailbox, fields_from(h[c], p))
              <= one_if(p \in there(c, h[c], h) \ r.data.seen_sources)
  /\ index(h[c] + 1) = Rounds =>
       \A p \in Ports :
         unconsumed(l, r.mailbox, fields_from(h[c] + 1, p))
           <= one_if(p \in there(c, h[c] + 1, h))

(* A request is answered once.                                             *)
OneAnswer(r, l) ==
  r.phase \in {"configuring", "measuring"} =>
    unconsumed(l, r.mailbox, requested(r)) = 1

(* Only messages of the next exchange are postponed.                       *)
HeldBack(r, e) ==
  \A k \in DOMAIN r.mailbox :
    r.mailbox[k].postponed => r.mailbox[k].message \in of_exchange(e + 1)

CellInv(c, r, l, h) ==
  /\ r.lifecycle = "disconnected" => r.phase = "configuring"
  /\ at(r, h[c])
  /\ NothingElse(r, l, h[c])
  /\ OneOfEach(c, r, l, h) /\ OneField(c, r, l, h)
  /\ OneAnswer(r, l) /\ HeldBack(r, h[c])

(* No cell is more than an exchange ahead of a neighbor.                   *)
Lockstep(h) ==
  \A c \in Cells, p \in Ports : h[neighbor[c][p]] <= h[c] + 1

(* The cells and links R and L, when each cell c has entered h[c] exchanges. *)
Fits(R, L, h) ==
  /\ h \in [Cells -> Nat]
  /\ R \in [Cells -> Runtime] /\ L \in [Cells -> Inbound]
  /\ Lockstep(h)
  /\ \A c \in Cells : CellInv(c, R[c], L[c], h)
-----------------------------------------------------------------------------
(* Counters that wrap.                                                     *)
(* Division with its remainder.                                            *)
LEMMA Division ==
  ASSUME NEW n \in Nat, n > 0, NEW x \in Int,
         NEW q \in Int, q = x \div n, NEW r \in Int, r = x % n
  PROVE  x = n * q + r
OBVIOUS

(* A remainder in range is the residue, and its factor the quotient.       *)
LEMMA Residue ==
  ASSUME NEW n \in Nat, n > 0, NEW q \in Int, NEW r \in 0 .. n - 1
  PROVE  (n * q + r) % n = r /\ (n * q + r) \div n = q
OBVIOUS

(* Division with a remainder in range.                                     *)
LEMMA Quotient ==
  ASSUME NEW n \in Nat, n > 0, NEW x \in Int
  PROVE  \E q \in Int, r \in 0 .. n - 1 :
           x = n * q + r /\ x % n = r /\ x \div n = q
<1>1. (x \div n) \in Int /\ x % n \in 0 .. n - 1
  OBVIOUS
<1>2. PICK q \in Int : q = x \div n
  BY <1>1
<1>3. PICK r \in 0 .. n - 1 : r = x % n
  BY <1>1
<1>4. x = n * q + r
  BY <1>2, <1>3, Division
<1>5. QED
  BY <1>2, <1>3, <1>4

(* Whole turns leave the residue alone.                                    *)
LEMMA WholeTurns ==
  ASSUME NEW n \in Nat, n > 0, NEW x \in Int, NEW p \in Int
  PROVE  (n * p + x) % n = x % n
<1>1. PICK q \in Int, r \in 0 .. n - 1 : x = n * q + r /\ x % n = r
  BY Quotient
<1> DEFINE s == p + q
<1>2. n * p + x = n * s + r /\ s \in Int
  BY <1>1
<1> HIDE DEF s
<1>3. (n * s + r) % n = r
  BY <1>2, Residue
<1>4. QED
  BY <1>1, <1>2, <1>3

(* A counter that has wrapped counts on as if it had not.                  *)
LEMMA CountsOn ==
  ASSUME NEW n \in Nat, n > 0, NEW x \in Int, NEW a \in Int, NEW b \in Int
  PROVE  ((x % n) * a + b) % n = (x * a + b) % n
<1>1. PICK q \in Int, r \in 0 .. n - 1 : x = n * q + r /\ x % n = r
  BY Quotient
<1> DEFINE p == q * a
           y == r * a + b
<1>2. p \in Int /\ y \in Int
  BY <1>1
<1>3. x * a + b = n * p + y
  <2>1. (n * q + r) * a = n * (q * a) + r * a
    BY <1>1
  <2>2. q * a \in Int /\ r * a \in Int /\ n * (q * a) \in Int
    BY <1>1
  <2>3. QED
    BY <1>1, <2>1, <2>2
<1> HIDE DEF p
<1>4. (n * p + y) % n = y % n
  <2> HIDE DEF y
  <2>1. QED
    BY <1>2, WholeTurns
<1>5. QED
  BY <1>1, <1>3, <1>4

(* The next number, reduced.                                               *)
LEMMA NextPlace ==
  ASSUME NEW n \in Nat, n > 0, NEW x \in Int
  PROVE  ((x % n) + 1) % n = (x + 1) % n
<1>1. PICK q \in Int, r \in 0 .. n - 1 : x = n * q + r /\ x % n = r
  BY Quotient
<1> DEFINE y == r + 1
<1>2. x + 1 = n * q + y /\ y \in Int /\ (x % n) + 1 = y
  BY <1>1
<1> HIDE DEF y
<1>3. (n * q + y) % n = y % n
  BY <1>1, <1>2, WholeTurns
<1>4. QED
  BY <1>2, <1>3

(* Within one turn no residue comes twice.                                 *)
LEMMA OtherPlace ==
  ASSUME NEW n \in Nat, n > 0, NEW x \in Int, NEW d \in 1 .. n - 1
  PROVE  (x + d) % n # x % n
<1>1. PICK q \in Int, r \in 0 .. n - 1 : x = n * q + r /\ x % n = r
  BY Quotient
<1>2. CASE r + d < n
  <2>1. x + d = n * q + (r + d) /\ r + d \in 0 .. n - 1
    BY <1>1, <1>2
  <2>2. (n * q + (r + d)) % n = r + d
    BY <1>1, <2>1, Residue
  <2>3. QED
    BY <1>1, <2>1, <2>2
<1>3. CASE r + d >= n
  <2> DEFINE e == r + d - n
             p == q + 1
  <2>1. x + d = n * p + e /\ e \in 0 .. n - 1 /\ p \in Int /\ e # r
    BY <1>1, <1>3
  <2> HIDE DEF e, p
  <2>2. (n * p + e) % n = e
    BY <2>1, Residue
  <2>3. QED
    BY <1>1, <2>1, <2>2
<1>4. QED
  BY <1>1, <1>2, <1>3
-----------------------------------------------------------------------------
(* Exchanges.                                                              *)
(* A turn has at least three exchanges, and all counts are numbers.        *)
LEMMA Numbers ==
  /\ Rounds \in Nat /\ Rounds > 0 /\ U32 \in Nat /\ U32 > 1
  /\ exchanges \in Nat /\ exchanges = Rounds + 2 /\ exchanges > 2
  /\ NeighborCount \in Nat /\ NeighborCount > 0
  /\ MailboxCapacity \in Nat /\ MailboxCapacity > NeighborCount
<1>1. Cardinality(Ports) \in Nat /\ Cardinality(Ports) # 0
  BY PhiMeshAssumption, FS_CardinalityType, FS_EmptySet
<1>2. QED
  BY <1>1, PhiMeshAssumption, StatemAssumption DEF exchanges, NeighborCount

(* Every exchange has a place in a turn.                                   *)
LEMMA Places ==
  ASSUME NEW e \in Int
  PROVE  turn(e) \in Int /\ index(e) \in 0 .. Rounds + 1
<1> DEFINE x == e - 1
<1>1. x \in Int
  OBVIOUS
<1> HIDE DEF x
<1>2. (x \div exchanges) \in Int /\ x % exchanges \in 0 .. exchanges - 1
  BY <1>1, Numbers
<1>3. QED
  BY <1>2, Numbers DEF x, turn, index

(* The next exchange is the next of its turn, or the first of the next.    *)
LEMMA NextExchange ==
  ASSUME NEW e \in Int
  PROVE  /\ index(e) < Rounds + 1 =>
              index(e + 1) = index(e) + 1 /\ turn(e + 1) = turn(e)
         /\ index(e) = Rounds + 1 =>
              index(e + 1) = 0 /\ turn(e + 1) = turn(e) + 1
<1> DEFINE x == e - 1
           E == exchanges
<1>1. x \in Int /\ (e + 1) - 1 = x + 1
  OBVIOUS
<1>2. E \in Nat /\ E > 0 /\ E = Rounds + 2 /\ Rounds \in Nat /\ Rounds > 0
  BY Numbers
<1> HIDE DEF x, E
<1>3. PICK q \in Int, r \in 0 .. E - 1 :
        x = E * q + r /\ x % E = r /\ x \div E = q
  BY <1>1, <1>2, Quotient
<1>4. turn(e) = q /\ index(e) = r
  BY <1>3 DEF turn, index, x, E
<1>5. turn(e + 1) = (x + 1) \div E /\ index(e + 1) = (x + 1) % E
  BY <1>1 DEF turn, index, x, E
<1>6. CASE r < E - 1
  <2>1. x + 1 = E * q + (r + 1) /\ r + 1 \in 0 .. E - 1
    BY <1>1, <1>2, <1>3, <1>6
  <2>2. (x + 1) % E = r + 1 /\ (x + 1) \div E = q
    BY <1>2, <2>1, Residue
  <2>3. QED
    BY <1>2, <1>4, <1>5, <1>6, <2>2
<1>7. CASE r = E - 1
  <2> DEFINE p == q + 1
  <2>1. p \in Int /\ x + 1 = E * p + 0 /\ 0 \in 0 .. E - 1
    BY <1>1, <1>2, <1>3, <1>7
  <2> HIDE DEF p
  <2>2. (x + 1) % E = 0 /\ (x + 1) \div E = p
    BY <1>2, <2>1, Residue
  <2>3. QED
    BY <1>2, <1>4, <1>5, <1>7, <2>2 DEF p
<1>8. QED
  BY <1>2, <1>3, <1>6, <1>7

(* Before the first exchange the last turn is over.                        *)
LEMMA FirstExchange == index(0) = Rounds + 1 /\ index(1) = 0 /\ turn(1) = 0
<1>1. 0 = exchanges * 0 + 0 /\ 0 \in 0 .. exchanges - 1
  BY Numbers
<1>2. 0 % exchanges = 0 /\ 0 \div exchanges = 0
  BY <1>1, Numbers, Residue
<1>3. index(1) = 0 /\ turn(1) = 0
  BY <1>2 DEF index, turn
<1>4. index(0) \in 0 .. Rounds + 1
  BY Places
<1>5. QED
  BY <1>3, <1>4, Numbers, NextExchange

(* What a cell writes in its messages counts turns and epochs modulo U32.  *)
LEMMA Epochs ==
  ASSUME NEW e \in Int, NEW n \in Int
  PROVE  /\ turn(e) % U32 \in Counter
         /\ (turn(e) * Rounds + n) % U32 \in Counter
         /\ ((turn(e) % U32) * Rounds + n) % U32
              = (turn(e) * Rounds + n) % U32
         /\ ((turn(e) % U32) + 1) % U32 = (turn(e) + 1) % U32
         /\ (turn(e) * Rounds + n + 1) % U32 # (turn(e) * Rounds + n) % U32
<1>1. turn(e) \in Int
  BY Places
<1>2. turn(e) * Rounds \in Int
  BY <1>1, Numbers
<1> DEFINE x == turn(e) * Rounds + n
<1>3. x \in Int
  BY <1>2
<1>4. \A y \in Int : y % U32 \in Counter
  BY Numbers DEF Counter
<1>5. (x + 1) % U32 # x % U32
  <2> HIDE DEF x
  <2>1. 1 \in 1 .. U32 - 1
    BY Numbers
  <2>2. QED
    BY <1>3, <2>1, Numbers, OtherPlace
<1>6. /\ ((turn(e) % U32) * Rounds + n) % U32 = x % U32
      /\ ((turn(e) % U32) + 1) % U32 = (turn(e) + 1) % U32
  <2>1. PICK t \in Int : t = turn(e)
    BY <1>1
  <2> DEFINE U == U32
             R == Rounds
  <2>2. U \in Nat /\ U > 0 /\ R \in Int
    BY Numbers
  <2> HIDE DEF U, R
  <2>3. ((t % U) * R + n) % U = (t * R + n) % U
    BY ZenonT(60), <2>2, CountsOn
  <2>4. ((t % U) + 1) % U = (t + 1) % U
    BY <2>2, NextPlace
  <2>5. QED
    BY <2>1, <2>3, <2>4 DEF U, R
<1>7. QED
  BY <1>1, <1>3, <1>4, <1>5, <1>6
(* What is cast in an exchange is a message; no message is of an exchange  *)
(* and of the next.                                                        *)
LEMMA Exchanged ==
  ASSUME NEW e \in Int
  PROVE  /\ of_exchange(e) \subseteq Message
         /\ of_exchange(e) \cap of_exchange(e + 1) = {}
<1>1. /\ turn(e) \in Int /\ index(e) \in 0 .. Rounds + 1
      /\ turn(e + 1) \in Int /\ index(e + 1) \in 0 .. Rounds + 1
  BY Places
<1>2. /\ turn(e) % U32 \in Counter
      /\ (turn(e) * Rounds + index(e)) % U32 \in Counter
      /\ (turn(e) * Rounds + index(e) + 1) % U32
           # (turn(e) * Rounds + index(e)) % U32
  BY <1>1, Epochs
<1>3. of_exchange(e) \subseteq Message
  BY <1>2 DEF of_exchange, fields_from, Message
<1>4. /\ index(e) < Rounds + 1 =>
           index(e + 1) = index(e) + 1 /\ turn(e + 1) = turn(e)
      /\ index(e) = Rounds + 1 => index(e + 1) = 0
  BY NextExchange
<1>5. of_exchange(e) \cap of_exchange(e + 1) = {}
  <2>1. CASE index(e) + 1 < Rounds
    <3>1. turn(e) * Rounds \in Int
      BY <1>1, Numbers
    <3>2. turn(e) * Rounds + (index(e) + 1) = turn(e) * Rounds + index(e) + 1
      BY <1>1, <3>1
    <3>3. /\ of_exchange(e) = {phi((turn(e) * Rounds + index(e)) % U32)}
          /\ of_exchange(e + 1)
               = {phi((turn(e) * Rounds + index(e) + 1) % U32)}
      BY <1>1, <1>4, <2>1, <3>2, Numbers DEF of_exchange
    <3>4. QED
      BY <1>2, <3>3 DEF phi
  <2>2. CASE index(e) + 1 = Rounds
    <3>1. \A m \in of_exchange(e) : m.tag = "phi"
      BY <1>1, <2>2, Numbers DEF of_exchange, phi
    <3>2. \A m \in of_exchange(e + 1) : m.tag = "phi0"
      BY <1>1, <1>4, <2>2, Numbers DEF of_exchange, fields_from, phi0
    <3>3. QED
      BY <3>1, <3>2
  <2>3. CASE index(e) = Rounds
    <3>1. \A m \in of_exchange(e) : m.tag = "phi0"
      BY <2>3, Numbers DEF of_exchange, fields_from, phi0
    <3>2. \A m \in of_exchange(e + 1) : m.tag = "anyon_move"
      BY <1>4, <2>3, Numbers DEF of_exchange, anyon_move
    <3>3. QED
      BY <3>1, <3>2
  <2>4. CASE index(e) = Rounds + 1
    <3>1. \A m \in of_exchange(e) : m.tag = "anyon_move"
      BY <2>4, Numbers DEF of_exchange, anyon_move
    <3>2. \A m \in of_exchange(e + 1) : m.tag = "phi"
      BY <1>4, <2>4, Numbers DEF of_exchange, phi
    <3>3. QED
      BY <3>1, <3>2
  <2>5. QED
    BY <1>1, <2>1, <2>2, <2>3, <2>4, Numbers
<1>6. QED
  BY <1>3, <1>5
-----------------------------------------------------------------------------
(* Counting messages.                                                      *)
(* What is counted is finite.                                              *)
LEMMA Counted ==
  ASSUME NEW l \in Inbound, NEW q \in Seq(Entry), NEW S
  PROVE  /\ IsFiniteSet(underway(l, S)) /\ IsFiniteSet(kept(q, S))
         /\ Cardinality(underway(l, S)) \in Nat
         /\ Cardinality(kept(q, S)) \in Nat
         /\ unconsumed(l, q, S) \in Nat
         /\ kept(q, S) \subseteq 1 .. Len(q)
<1>1. IsFiniteSet(Senders)
  <2>1. IsFiniteSet({"host"}) /\ IsFiniteSet({"syndrome"})
    BY FS_Singleton
  <2>2. IsFiniteSet({"host"} \cup {"syndrome"})
    BY <2>1, FS_Union
  <2>3. Senders = Cells \cup ({"host"} \cup {"syndrome"})
    BY DEF Senders
  <2>4. QED
    BY <2>2, <2>3, PhiMeshAssumption, FS_Union
<1> DEFINE on(s) == {s} \X {i \in DOMAIN l[s] : l[s][i] \in S}
<1>2. \A s \in Senders : IsFiniteSet(on(s))
  <2> SUFFICES ASSUME NEW s \in Senders PROVE IsFiniteSet(on(s))
    OBVIOUS
  <2> DEFINE I == {i \in DOMAIN l[s] : l[s][i] \in S}
             n == Len(l[s])
  <2>1. n \in Nat /\ DOMAIN l[s] = 1 .. n
    BY DEF Inbound
  <2>2. IsFiniteSet(1 .. n)
    <3> HIDE DEF n
    <3>1. 1 \in Int /\ n \in Int
      BY <2>1
    <3>2. QED
      BY <3>1, FS_Interval
  <2>3. I \in SUBSET (1 .. n)
    BY <2>1
  <2>4. IsFiniteSet(I)
    BY <2>2, <2>3, FS_Subset
  <2>5. IsFiniteSet({s})
    BY FS_Singleton
  <2>6. IsFiniteSet({s} \X I)
    BY <2>4, <2>5, FS_Product
  <2>7. QED
    BY <2>6
<1>3. IsFiniteSet(underway(l, S))
  <2> DEFINE O == {on(s) : s \in Senders}
  <2>1. IsFiniteSet(O)
    <3> DEFINE f == [s \in Senders |-> on(s)]
    <3>1. f \in Surjection(Senders, O)
      <4> HIDE DEF on
      <4>1. QED
        BY DEF Surjection
    <3> HIDE DEF f, O
    <3>2. QED
      BY <1>1, <3>1, FS_Surjection
  <2>2. \A T \in O : IsFiniteSet(T)
    BY <1>2
  <2>3. IsFiniteSet(UNION O)
    <3> HIDE DEF O
    <3>1. QED
      BY <2>1, <2>2, FS_UNION
  <2>4. QED
    BY <2>3 DEF underway
<1>4. IsFiniteSet(kept(q, S)) /\ kept(q, S) \subseteq 1 .. Len(q)
  <2> DEFINE n == Len(q)
  <2>1. n \in Nat /\ DOMAIN q = 1 .. n
    OBVIOUS
  <2>2. IsFiniteSet(1 .. n)
    <3> HIDE DEF n
    <3>1. 1 \in Int /\ n \in Int
      BY <2>1
    <3>2. QED
      BY <3>1, FS_Interval
  <2>3. kept(q, S) \in SUBSET (1 .. n)
    BY <2>1 DEF kept
  <2>4. QED
    BY <2>2, <2>3, FS_Subset
<1>5. QED
  BY <1>3, <1>4, FS_CardinalityType DEF unconsumed

(* A place on a link that counts.                                          *)
LEMMA OnLink ==
  ASSUME NEW l, NEW S, NEW s, NEW i
  PROVE  <<s, i>> \in underway(l, S)
           <=> s \in Senders /\ i \in DOMAIN l[s] /\ l[s][i] \in S
BY DEF underway

(* And no others.                                                          *)
LEMMA OnLinkOnly ==
  ASSUME NEW l, NEW S, NEW x \in underway(l, S)
  PROVE  \E s, i : x = <<s, i>>
BY DEF underway

(* A message that is there counts.                                         *)
LEMMA Present ==
  ASSUME NEW l \in Inbound, NEW q \in Seq(Entry), NEW S
  PROVE  /\ \A s \in Senders : \A i \in DOMAIN l[s] :
              l[s][i] \in S => unconsumed(l, q, S) >= 1
         /\ \A k \in DOMAIN q :
              q[k].message \in S => unconsumed(l, q, S) >= 1
<1> DEFINE u == Cardinality(underway(l, S))
           v == Cardinality(kept(q, S))
<1>1. u \in Nat /\ v \in Nat /\ unconsumed(l, q, S) = u + v
  BY Counted DEF unconsumed
<1>2. u = 0 => underway(l, S) = {}
  BY Counted, FS_EmptySet
<1>3. v = 0 => kept(q, S) = {}
  BY Counted, FS_EmptySet
<1> HIDE DEF u, v
<1>4. ASSUME NEW s \in Senders, NEW i \in DOMAIN l[s], l[s][i] \in S
      PROVE  unconsumed(l, q, S) >= 1
  <2>1. underway(l, S) # {}
    BY <1>4, OnLink
  <2>2. QED
    BY <1>1, <1>2, <2>1
<1>5. ASSUME NEW k \in DOMAIN q, q[k].message \in S
      PROVE  unconsumed(l, q, S) >= 1
  <2>1. kept(q, S) # {}
    BY <1>5 DEF kept
  <2>2. QED
    BY <1>1, <1>3, <2>1
<1>6. QED
  BY <1>4, <1>5

(* If none is there, none counts.                                          *)
LEMMA Absent ==
  ASSUME NEW l \in Inbound, NEW q \in Seq(Entry), NEW S,
         \A s \in Senders : \A i \in DOMAIN l[s] : l[s][i] \notin S,
         \A k \in DOMAIN q : q[k].message \notin S
  PROVE  unconsumed(l, q, S) = 0
<1>1. underway(l, S) = {}
  BY DEF underway
<1>2. kept(q, S) = {}
  BY DEF kept
<1>3. QED
  BY <1>1, <1>2, FS_EmptySet DEF unconsumed

(* Fewer messages count less.                                              *)
LEMMA CountsLess ==
  ASSUME NEW l \in Inbound, NEW q \in Seq(Entry), NEW S, NEW T, S \subseteq T
  PROVE  unconsumed(l, q, S) <= unconsumed(l, q, T)
<1>1. underway(l, S) \in SUBSET underway(l, T)
  BY DEF underway
<1>2. kept(q, S) \in SUBSET kept(q, T)
  BY DEF kept
<1> DEFINE u == Cardinality(underway(l, S))
           v == Cardinality(kept(q, S))
           w == Cardinality(underway(l, T))
           z == Cardinality(kept(q, T))
<1>3. u \in Nat /\ v \in Nat /\ w \in Nat /\ z \in Nat
  BY Counted
<1>4. u <= w
  BY <1>1, Counted, FS_Subset
<1>5. v <= z
  BY <1>2, Counted, FS_Subset
<1>6. unconsumed(l, q, S) = u + v /\ unconsumed(l, q, T) = w + z
  BY DEF unconsumed
<1> HIDE DEF u, v, w, z
<1>7. QED
  BY <1>3, <1>4, <1>5, <1>6

(* A cast adds one to what it is counted among.                            *)
LEMMA CastCounts ==
  ASSUME NEW l \in Inbound, NEW q \in Seq(Entry), NEW S,
         NEW s \in Senders, NEW m \in Message
  PROVE  /\ [l EXCEPT ![s] = Append(@, m)] \in Inbound
         /\ unconsumed([l EXCEPT ![s] = Append(@, m)], q, S)
              = unconsumed(l, q, S) + one_if(m \in S)
<1> DEFINE k == [l EXCEPT ![s] = Append(@, m)]
           n == Len(l[s]) + 1
           x == <<s, n>>
           before == underway(l, S)
           after == underway(k, S)
<1>1. l[s] \in Seq(Message) /\ n \in Nat /\ n \notin DOMAIN l[s]
  BY DEF Inbound
<1>2. k \in Inbound
  BY <1>1 DEF Inbound
<1>3. /\ k[s] = Append(l[s], m) /\ DOMAIN k[s] = DOMAIN l[s] \cup {n}
      /\ k[s][n] = m
      /\ \A i \in DOMAIN l[s] : k[s][i] = l[s][i]
      /\ \A t \in Senders \ {s} : k[t] = l[t]
  BY <1>1 DEF Inbound
<1>4. x \notin before
  BY <1>1, OnLink
<1>5. CASE m \in S
  <2>1. after \subseteq before \cup {x}
    <3> SUFFICES ASSUME NEW y \in after PROVE y \in before \cup {x}
      OBVIOUS
    <3>1. PICK t, i : y = <<t, i>>
      BY OnLinkOnly
    <3>2. t \in Senders /\ i \in DOMAIN k[t] /\ k[t][i] \in S
      BY <3>1, OnLink
    <3> HIDE DEF k, n, before
    <3>3. t # s => i \in DOMAIN l[t] /\ l[t][i] \in S
      BY <1>3, <3>2
    <3>4. ASSUME t = s, i # n
          PROVE  i \in DOMAIN l[t] /\ l[t][i] \in S
      <4>1. i \in DOMAIN l[s]
        BY <1>3, <3>2, <3>4
      <4>2. k[s][i] = l[s][i]
        BY <1>3, <4>1
      <4>3. QED
        BY <3>2, <3>4, <4>1, <4>2
    <3>5. QED
      BY <3>1, <3>2, <3>3, <3>4, OnLink DEF before
  <2>2. before \cup {x} \subseteq after
    <3>1. x \in after
      BY <1>3, <1>5, OnLink
    <3>2. ASSUME NEW y \in before PROVE y \in after
      <4>1. PICK t, i : y = <<t, i>>
        BY OnLinkOnly
      <4>2. t \in Senders /\ i \in DOMAIN l[t] /\ l[t][i] \in S
        BY <4>1, OnLink
      <4> HIDE DEF k, n
      <4>3. i \in DOMAIN k[t] /\ k[t][i] \in S
        BY <1>3, <4>2
      <4>4. QED
        BY <4>1, <4>2, <4>3, OnLink
    <3>3. QED
      BY <3>1, <3>2
  <2>3. after = before \cup {x}
    BY <2>1, <2>2
  <2>4. Cardinality(after) = Cardinality(before) + 1
    <3> HIDE DEF before, after, x
    <3>1. IsFiniteSet(before)
      BY Counted DEF before
    <3>2. QED
      BY <1>4, <2>3, <3>1, FS_AddElement
  <2>5. Cardinality(before) \in Nat /\ Cardinality(kept(q, S)) \in Nat
    BY Counted
  <2>6. QED
    BY <1>2, <1>5, <2>4, <2>5 DEF unconsumed, one_if
<1>6. CASE m \notin S
  <2>1. after \subseteq before
    <3> SUFFICES ASSUME NEW y \in after PROVE y \in before
      OBVIOUS
    <3>1. PICK t, i : y = <<t, i>>
      BY OnLinkOnly
    <3>2. t \in Senders /\ i \in DOMAIN k[t] /\ k[t][i] \in S
      BY <3>1, OnLink
    <3> HIDE DEF k, n
    <3>3. i \in DOMAIN l[t] /\ l[t][i] \in S
      BY <1>3, <1>6, <3>2
    <3>4. QED
      BY <3>1, <3>2, <3>3, OnLink
  <2>2. before \subseteq after
    <3> SUFFICES ASSUME NEW y \in before PROVE y \in after
      OBVIOUS
    <3>1. PICK t, i : y = <<t, i>>
      BY OnLinkOnly
    <3>2. t \in Senders /\ i \in DOMAIN l[t] /\ l[t][i] \in S
      BY <3>1, OnLink
    <3> HIDE DEF k, n
    <3>3. i \in DOMAIN k[t] /\ k[t][i] \in S
      BY <1>3, <3>2
    <3>4. QED
      BY <3>1, <3>2, <3>3, OnLink
  <2>3. after = before
    BY <2>1, <2>2
  <2>4. Cardinality(before) \in Nat /\ Cardinality(kept(q, S)) \in Nat
    BY Counted
  <2>5. QED
    BY <1>2, <1>6, <2>3, <2>4 DEF unconsumed, one_if
<1>7. QED
  BY <1>2, <1>5, <1>6

(* Admission moves a message from its link to the mailbox.                 *)
taken_from(l, s) == [l EXCEPT ![s] = Tail(@)]
admitted(q, m) == Append(q, [message |-> m, postponed |-> FALSE])

(* It makes no difference to the count.                                    *)
LEMMA AdmissionCounts ==
  ASSUME NEW l \in Inbound, NEW q \in Seq(Entry),
         NEW s \in Senders, l[s] # << >>
  PROVE  /\ taken_from(l, s) \in Inbound
         /\ admitted(q, Head(l[s])) \in Seq(Entry)
         /\ \A S : unconsumed(taken_from(l, s), admitted(q, Head(l[s])), S)
                    = unconsumed(l, q, S)
<1> SUFFICES ASSUME NEW S
             PROVE  /\ taken_from(l, s) \in Inbound
                    /\ admitted(q, Head(l[s])) \in Seq(Entry)
                    /\ unconsumed(taken_from(l, s), admitted(q, Head(l[s])), S)
                         = unconsumed(l, q, S)
  OBVIOUS
<1> DEFINE k == [l EXCEPT ![s] = Tail(@)]
           m == Head(l[s])
           y == [message |-> m, postponed |-> FALSE]
           p == Append(q, y)
           n == Len(q) + 1
           x == <<s, 1>>
           moved(z) == IF z[1] = s THEN <<s, z[2] + 1>> ELSE z
           before == underway(l, S)
           after == underway(k, S)
<1>1. /\ l[s] \in Seq(Message) /\ m \in Message /\ 1 \in DOMAIN l[s]
      /\ m = l[s][1]
  BY DEF Inbound
<1>2. k \in Inbound /\ y \in Entry /\ p \in Seq(Entry)
  BY <1>1 DEF Inbound, Entry
<1>3. /\ \A i \in DOMAIN k[s] : i \in Nat /\ i > 0 /\ i + 1 \in DOMAIN l[s]
                                /\ k[s][i] = l[s][i + 1]
      /\ \A i \in DOMAIN l[s] : i \in Nat /\ i > 0
           /\ (i > 1 => i - 1 \in DOMAIN k[s] /\ k[s][i - 1] = l[s][i])
      /\ \A t \in Senders \ {s} : k[t] = l[t]
  BY <1>1 DEF Inbound
<1>4. /\ n \in Nat /\ n \notin DOMAIN q /\ DOMAIN p = DOMAIN q \cup {n}
      /\ p[n] = y /\ \A i \in DOMAIN q : p[i] = q[i]
  BY <1>2
<1> DEFINE rest == before \ {x}
<1> DEFINE f == [z \in after |-> moved(z)]
<1>5. Cardinality(after) = Cardinality(rest)
  <2>1. f \in [after -> rest]
    <3> SUFFICES ASSUME NEW z \in after PROVE moved(z) \in rest
      OBVIOUS
    <3>1. PICK t, i : z = <<t, i>>
      BY OnLinkOnly
    <3>2. t \in Senders /\ i \in DOMAIN k[t] /\ k[t][i] \in S
      BY <3>1, OnLink
    <3> HIDE DEF k
    <3>3. CASE t = s
      <4>1. moved(z) = <<s, i + 1>> /\ i + 1 # 1
        BY <1>3, <3>1, <3>2, <3>3
      <4>2. <<s, i + 1>> \in before
        BY <1>3, <3>2, <3>3, OnLink
      <4>3. QED
        BY <4>1, <4>2
    <3>4. CASE t # s
      <4>1. moved(z) = z /\ z # x
        BY <3>1, <3>4
      <4>2. z \in before
        BY <1>3, <3>1, <3>2, <3>4, OnLink
      <4>3. QED
        BY <4>1, <4>2
    <3>5. QED
      BY <3>3, <3>4
  <2>2. \A z \in rest : \E w \in after : f[w] = z
    <3> SUFFICES ASSUME NEW z \in rest PROVE \E w \in after : moved(w) = z
      OBVIOUS
    <3>1. PICK t, i : z = <<t, i>>
      BY OnLinkOnly
    <3>2. t \in Senders /\ i \in DOMAIN l[t] /\ l[t][i] \in S
      BY <3>1, OnLink
    <3> HIDE DEF k
    <3>3. CASE t = s
      <4>1. i > 1 /\ i \in Nat
        BY <1>3, <3>1, <3>2, <3>3
      <4>2. <<s, i - 1>> \in after
        BY <1>3, <3>2, <3>3, <4>1, OnLink
      <4>3. moved(<<s, i - 1>>) = z
        BY <3>1, <3>3, <4>1
      <4>4. QED
        BY <4>2, <4>3
    <3>4. CASE t # s
      <4>1. z \in after /\ moved(z) = z
        BY <1>3, <3>1, <3>2, <3>4, OnLink
      <4>2. QED
        BY <4>1
    <3>5. QED
      BY <3>3, <3>4
  <2>3. \A z, w \in after : f[z] = f[w] => z = w
    <3> SUFFICES ASSUME NEW z \in after, NEW w \in after, moved(z) = moved(w)
                 PROVE  z = w
      OBVIOUS
    <3>1. PICK t, i : z = <<t, i>>
      BY OnLinkOnly
    <3>2. PICK u, j : w = <<u, j>>
      BY OnLinkOnly
    <3>3. /\ t \in Senders /\ i \in DOMAIN k[t]
          /\ u \in Senders /\ j \in DOMAIN k[u]
      BY <3>1, <3>2, OnLink
    <3> HIDE DEF k
    <3>4. t = s => i \in Nat
      BY <1>3, <3>3
    <3>5. u = s => j \in Nat
      BY <1>3, <3>3
    <3>6. QED
      BY <3>1, <3>2, <3>4, <3>5
  <2>4. IsFiniteSet(after) /\ IsFiniteSet(before)
    BY <1>2, Counted
  <2>5. IsFiniteSet(rest)
    BY <2>4, FS_Difference
  <2> HIDE DEF f, after, rest
  <2>6. f \in Surjection(after, rest)
    BY <2>1, <2>2 DEF Surjection
  <2>7. f \in Injection(after, rest)
    BY <2>1, <2>3 DEF Injection, IsInjective
  <2>8. QED
    BY <2>4, <2>6, <2>7, FS_Surjection
<1>6. x \in before <=> m \in S
  <2>1. s \in Senders /\ 1 \in DOMAIN l[s] /\ l[s][1] = m
    BY <1>1
  <2> HIDE DEF m
  <2>2. QED
    BY <2>1, OnLink
<1>7. Cardinality(rest)
        = IF m \in S THEN Cardinality(before) - 1 ELSE Cardinality(before)
  <2>1. IsFiniteSet(before)
    BY Counted
  <2> HIDE DEF before, x, m
  <2>2. QED
    BY <1>6, <2>1, FS_RemoveElement
<1>8. Cardinality(kept(p, S))
        = IF m \in S THEN Cardinality(kept(q, S)) + 1
          ELSE Cardinality(kept(q, S))
  <2>1. IsFiniteSet(kept(q, S)) /\ n \notin kept(q, S)
    BY <1>4, Counted DEF kept
  <2>2. CASE m \in S
    <3>1. kept(p, S) = kept(q, S) \cup {n}
      <4>1. p[n].message = m
        BY <1>4
      <4> HIDE DEF p, n, m
      <4>2. QED
        BY <1>4, <2>2, <4>1 DEF kept
    <3> HIDE DEF p, n, m
    <3>2. QED
      BY <2>1, <2>2, <3>1, FS_AddElement
  <2>3. CASE m \notin S
    <3>1. kept(p, S) = kept(q, S)
      <4>1. p[n].message = m
        BY <1>4
      <4> HIDE DEF p, n, m
      <4>2. QED
        BY <1>4, <2>3, <4>1 DEF kept
    <3>2. QED
      BY <2>3, <3>1
  <2>4. QED
    BY <2>2, <2>3
<1>9. Cardinality(before) \in Nat /\ Cardinality(kept(q, S)) \in Nat
  BY Counted
<1>10. unconsumed(k, p, S) = unconsumed(l, q, S)
  BY <1>5, <1>7, <1>8, <1>9 DEF unconsumed
<1>11. QED
  BY <1>2, <1>10 DEF taken_from, admitted

(* A sequence without its k-th element: those before stay where they are,  *)
(* those behind move up.                                                   *)
LEMMA RemoveAtElements ==
  ASSUME NEW S, NEW s \in Seq(S), NEW k \in DOMAIN s
  PROVE  /\ RemoveAt(s, k) \in Seq(S)
         /\ DOMAIN RemoveAt(s, k) = 1 .. Len(s) - 1
         /\ \A j \in 1 .. Len(s) - 1 :
              RemoveAt(s, k)[j] = IF j < k THEN s[j] ELSE s[j + 1]
<1> DEFINE before == SubSeq(s, 1, k - 1)
           after == SubSeq(s, k + 1, Len(s))
           n == Len(s)
<1>1. k \in 1 .. n /\ n \in Nat
  OBVIOUS
<1>2. /\ before \in Seq(S) /\ Len(before) = k - 1
      /\ \A j \in 1 .. k - 1 : before[j] = s[j]
  BY <1>1
<1>3. /\ after \in Seq(S) /\ Len(after) = n - k
      /\ \A j \in 1 .. n - k : after[j] = s[k + j]
  BY <1>1
<1>4. RemoveAt(s, k) = before \o after
  BY DEF RemoveAt
<1> HIDE DEF before, after, n
<1>5. /\ before \o after \in Seq(S)
      /\ Len(before \o after) = (k - 1) + (n - k)
  <2>1. before \in Seq(S) /\ Len(before) = k - 1
    BY <1>2
  <2>2. after \in Seq(S) /\ Len(after) = n - k
    BY <1>3
  <2>3. QED
    BY <2>1, <2>2
<1>6. \A j \in 1 .. n - 1 :
        (before \o after)[j] = IF j < k THEN s[j] ELSE s[j + 1]
  <2> TAKE j \in 1 .. n - 1
  <2>1. j \in 1 .. Len(before) + Len(after)
    BY <1>1, <1>2, <1>3
  <2>2. (before \o after)[j] =
          IF j <= Len(before) THEN before[j] ELSE after[j - Len(before)]
    BY <1>2, <1>3, <2>1
  <2>3. CASE j < k
    <3>1. j <= k - 1 /\ j \in 1 .. k - 1
      BY <1>1, <2>3
    <3>2. QED
      BY <1>2, <2>2, <2>3, <3>1
  <2>4. CASE ~(j < k)
    <3> DEFINE i == j - (k - 1)
    <3>1. i \in 1 .. n - k /\ k + i = j + 1 /\ ~(j <= k - 1)
      BY <1>1, <2>4
    <3>2. (before \o after)[j] = after[i]
      BY <1>2, <2>2, <3>1
    <3> HIDE DEF i
    <3>3. after[i] = s[k + i]
      BY <1>3, <3>1
    <3>4. QED
      BY <2>4, <3>1, <3>2, <3>3
  <2>5. QED
    BY <2>3, <2>4
<1>7. DOMAIN (before \o after) = 1 .. n - 1
  <2>1. Len(before \o after) = n - 1
    BY <1>1, <1>5
  <2> DEFINE t == before \o after
  <2> HIDE DEF t
  <2>2. t \in Seq(S) /\ Len(t) = n - 1
    BY <1>5, <2>1 DEF t
  <2>3. DOMAIN t = 1 .. n - 1
    BY <2>2
  <2>4. QED
    BY <2>3 DEF t
<1> DEFINE t == before \o after
<1> HIDE DEF t
<1>8. /\ t \in Seq(S) /\ DOMAIN t = 1 .. n - 1
      /\ \A j \in 1 .. n - 1 : t[j] = IF j < k THEN s[j] ELSE s[j + 1]
      /\ RemoveAt(s, k) = t
  BY <1>4, <1>5, <1>6, <1>7 DEF t
<1>9. QED
  BY <1>8 DEF n

(* A message that is handled and consumed no longer counts.                *)
LEMMA HandlingCounts ==
  ASSUME NEW l \in Inbound, NEW q \in Seq(Entry), NEW S, NEW k \in DOMAIN q
  PROVE  /\ RemoveAt(q, k) \in Seq(Entry)
         /\ unconsumed(l, RemoveAt(q, k), S)
              = unconsumed(l, q, S) - one_if(q[k].message \in S)
<1> DEFINE r == RemoveAt(q, k)
           n == Len(q)
           before == kept(q, S)
           after == kept(r, S)
           rest == before \ {k}
           place(j) == IF j < k THEN j ELSE j + 1
           f == [j \in after |-> place(j)]
<1>1. n \in Nat /\ DOMAIN q = 1 .. n /\ k \in 1 .. n
  OBVIOUS
<1>2. /\ r \in Seq(Entry) /\ DOMAIN r = 1 .. n - 1
      /\ \A j \in 1 .. n - 1 : r[j] = q[place(j)]
  <2>1. /\ r \in Seq(Entry) /\ DOMAIN r = 1 .. n - 1
        /\ \A j \in 1 .. n - 1 : r[j] = IF j < k THEN q[j] ELSE q[j + 1]
    BY RemoveAtElements
  <2>2. QED
    BY <2>1
<1>3. Cardinality(after) = Cardinality(rest)
  <2> HIDE DEF r, n
  <2>1. f \in [after -> rest]
    <3> SUFFICES ASSUME NEW j \in after PROVE place(j) \in rest
      OBVIOUS
    <3>1. j \in 1 .. n - 1 /\ r[j].message \in S
      BY <1>2 DEF kept
    <3>2. place(j) \in 1 .. n /\ place(j) # k
      BY <1>1, <3>1
    <3>3. QED
      BY <1>1, <1>2, <3>1, <3>2 DEF kept
  <2>2. \A z \in rest : \E j \in after : f[j] = z
    <3> SUFFICES ASSUME NEW z \in rest PROVE \E j \in after : place(j) = z
      OBVIOUS
    <3>1. z \in 1 .. n /\ z # k /\ q[z].message \in S
      BY <1>1 DEF kept
    <3> DEFINE j == IF z < k THEN z ELSE z - 1
    <3>2. j \in 1 .. n - 1 /\ place(j) = z
      BY <1>1, <3>1
    <3>3. j \in after
      <4> HIDE DEF j
      <4>1. QED
        BY <1>2, <3>1, <3>2 DEF kept
    <3>4. QED
      BY <3>2, <3>3
  <2>3. \A z, w \in after : f[z] = f[w] => z = w
    <3>1. after \subseteq 1 .. n - 1
      BY <1>2 DEF kept
    <3>2. \A z, w \in 1 .. n - 1 : place(z) = place(w) => z = w
      BY <1>1
    <3>3. QED
      BY <3>1, <3>2
  <2>4. IsFiniteSet(after) /\ IsFiniteSet(before)
    BY <1>2, Counted
  <2>5. IsFiniteSet(rest)
    BY <2>4, FS_Difference
  <2> HIDE DEF f, after, rest
  <2>6. f \in Surjection(after, rest)
    BY <2>1, <2>2 DEF Surjection
  <2>7. f \in Injection(after, rest)
    BY <2>1, <2>3 DEF Injection, IsInjective
  <2>8. QED
    BY <2>4, <2>6, <2>7, FS_Surjection
<1>4. Cardinality(rest)
        = IF k \in before THEN Cardinality(before) - 1 ELSE Cardinality(before)
  <2>1. IsFiniteSet(before)
    BY Counted
  <2> HIDE DEF before
  <2>2. QED
    BY <2>1, FS_RemoveElement
<1>5. k \in before <=> q[k].message \in S
  BY DEF kept
<1>6. Cardinality(before) \in Nat /\ Cardinality(underway(l, S)) \in Nat
  BY Counted
<1>7. unconsumed(l, r, S)
        = unconsumed(l, q, S) - one_if(q[k].message \in S)
  <2> DEFINE u == Cardinality(underway(l, S))
             v == Cardinality(before)
             w == Cardinality(after)
  <2>1. unconsumed(l, r, S) = u + w /\ unconsumed(l, q, S) = u + v
    BY DEF unconsumed
  <2>2. w = v - one_if(q[k].message \in S)
    BY <1>3, <1>4, <1>5, <1>6 DEF one_if
  <2>3. u \in Nat /\ v \in Nat
    BY <1>6
  <2> HIDE DEF u, v, w
  <2>4. one_if(q[k].message \in S) \in Nat
    BY DEF one_if
  <2>5. QED
    BY <2>1, <2>2, <2>3, <2>4
<1>8. QED
  BY <1>2, <1>7

(* The marks of postponed messages make no difference to the count.        *)
LEMMA MarksDoNotCount ==
  ASSUME NEW l, NEW q, NEW r, NEW S,
         DOMAIN r = DOMAIN q,
         \A k \in DOMAIN q : r[k].message = q[k].message
  PROVE  unconsumed(l, r, S) = unconsumed(l, q, S)
<1>1. kept(r, S) = kept(q, S)
  BY DEF kept
<1>2. QED
  BY <1>1 DEF unconsumed

(* A mailbox released at a boundary.                                       *)
LEMMA Released ==
  ASSUME NEW q \in Seq(Entry)
  PROVE  /\ released(q) \in Seq(Entry)
         /\ DOMAIN released(q) = DOMAIN q
         /\ \A k \in DOMAIN q : /\ released(q)[k].message = q[k].message
                                /\ ~released(q)[k].postponed
         /\ \A l, S : unconsumed(l, released(q), S) = unconsumed(l, q, S)
<1>1. /\ DOMAIN released(q) = DOMAIN q
      /\ \A k \in DOMAIN q : /\ released(q)[k] \in Entry
                             /\ released(q)[k].message = q[k].message
                             /\ ~released(q)[k].postponed
  <2>1. \A k \in DOMAIN q : q[k] \in Entry
    OBVIOUS
  <2>2. QED
    BY <2>1 DEF released, Entry
<1>2. released(q) \in Seq(Entry)
  <2>1. DOMAIN q = 1 .. Len(q) /\ Len(q) \in Nat
    OBVIOUS
  <2>2. released(q) = [k \in 1 .. Len(q) |-> released(q)[k]]
    BY <2>1 DEF released
  <2>3. \A k \in 1 .. Len(q) : released(q)[k] \in Entry
    BY <1>1, <2>1
  <2>4. QED
    BY <2>1, <2>2, <2>3
<1>3. QED
  BY <1>1, <1>2, MarksDoNotCount

(* A mailbox in which one more message is postponed.                       *)
held_back(q, k) == [q EXCEPT ![k].postponed = TRUE]

(* Nothing else of it changes.                                             *)
LEMMA Postponed ==
  ASSUME NEW q \in Seq(Entry), NEW k \in DOMAIN q
  PROVE  /\ held_back(q, k) \in Seq(Entry)
         /\ DOMAIN held_back(q, k) = DOMAIN q
         /\ \A j \in DOMAIN q :
              /\ held_back(q, k)[j].message = q[j].message
              /\ held_back(q, k)[j].postponed => q[j].postponed \/ j = k
         /\ \A l, S : unconsumed(l, held_back(q, k), S) = unconsumed(l, q, S)
<1> DEFINE r == [q EXCEPT ![k].postponed = TRUE]
<1>1. \A j \in DOMAIN q : q[j] \in Entry
  OBVIOUS
<1>2. /\ DOMAIN r = DOMAIN q
      /\ r[k] = [q[k] EXCEPT !.postponed = TRUE]
      /\ \A j \in DOMAIN q \ {k} : r[j] = q[j]
  OBVIOUS
<1>3. /\ r[k] \in Entry /\ r[k].message = q[k].message
  BY <1>1, <1>2 DEF Entry
<1> HIDE DEF r
<1>4. \A j \in DOMAIN q : /\ r[j] \in Entry /\ r[j].message = q[j].message
                          /\ r[j].postponed => q[j].postponed \/ j = k
  BY <1>1, <1>2, <1>3
<1>5. r \in Seq(Entry)
  <2>1. DOMAIN q = 1 .. Len(q) /\ Len(q) \in Nat
    OBVIOUS
  <2>2. r = [j \in 1 .. Len(q) |-> r[j]]
    <3>1. r = [j \in DOMAIN q |-> r[j]]
      BY DEF r
    <3>2. QED
      BY <2>1, <3>1
  <2>3. \A j \in 1 .. Len(q) : r[j] \in Entry
    BY <1>4, <2>1
  <2>4. QED
    BY <2>1, <2>2, <2>3
<1>6. \A l, S : unconsumed(l, r, S) = unconsumed(l, q, S)
  BY <1>2, <1>4, MarksDoNotCount
<1>7. QED
  BY <1>2, <1>4, <1>5, <1>6 DEF r, held_back
-----------------------------------------------------------------------------
(* What a step does to the cells.                                          *)
(* The links to a cell with one more cast of s.                            *)
with_cast(l, s, m) == [l EXCEPT ![s] = Append(@, m)]
(* A cell's casts reach its neighbors, one each, and nobody else.          *)
LEMMA Casting ==
  ASSUME NEW L \in [Cells -> Inbound], NEW c \in Cells,
         NEW casts \in [Ports -> Message]
  PROVE  /\ cast_all(L, c, casts) \in [Cells -> Inbound]
         /\ \A p \in Ports :
              cast_all(L, c, casts)[neighbor[c][p]]
                = with_cast(L[neighbor[c][p]], c, casts[p])
         /\ \A d \in Cells :
              (\A p \in Ports : neighbor[c][p] # d)
                => cast_all(L, c, casts)[d] = L[d]
<1> DEFINE K == cast_all(L, c, casts)
           to(d) == CHOOSE p \in Ports : neighbor[c][p] = d
<1>1. \A d \in Cells : L[d] \in [Senders -> Seq(Message)]
  BY DEF Inbound
<1>2. c \in Senders
  BY DEF Senders
<1>3. K = [d \in Cells |-> [s \in Senders |->
             IF s = c /\ \E p \in Ports : neighbor[c][p] = d
             THEN Append(L[d][s], casts[to(d)]) ELSE L[d][s]]]
  BY DEF cast_all
<1>4. \A p \in Ports : neighbor[c][p] \in Cells /\ to(neighbor[c][p]) = p
  <2> SUFFICES ASSUME NEW p \in Ports
               PROVE  neighbor[c][p] \in Cells /\ to(neighbor[c][p]) = p
    OBVIOUS
  <2>1. \A q \in Ports : neighbor[c][q] = neighbor[c][p] => q = p
    BY PhiMeshAssumption
  <2>2. QED
    BY <2>1, PhiMeshAssumption
<1>5. ASSUME NEW p \in Ports
      PROVE  /\ K[neighbor[c][p]]
                  = [L[neighbor[c][p]] EXCEPT ![c] = Append(@, casts[p])]
             /\ K[neighbor[c][p]] \in Inbound
  <2> DEFINE d == neighbor[c][p]
  <2>1. d \in Cells /\ to(d) = p /\ L[d] \in [Senders -> Seq(Message)]
    BY <1>1, <1>4
  <2> HIDE DEF to
  <2>2. K[d] = [s \in Senders |->
                  IF s = c THEN Append(L[d][s], casts[p]) ELSE L[d][s]]
    BY ZenonT(60), <1>3, <2>1
  <2>3. \A s \in Senders : L[d][s] \in Seq(Message)
    BY <2>1
  <2>4. casts[p] \in Message
    OBVIOUS
  <2> HIDE DEF K, d
  <2>5. K[d] \in [Senders -> Seq(Message)]
    BY <2>2, <2>3, <2>4
  <2>6. K[d] = [L[d] EXCEPT ![c] = Append(@, casts[p])]
    BY <2>1, <2>2
  <2>7. QED
    BY <2>5, <2>6 DEF d, Inbound
<1>6. ASSUME NEW d \in Cells, \A p \in Ports : neighbor[c][p] # d
      PROVE  K[d] = L[d]
  <2>1. K[d] = [s \in Senders |-> L[d][s]]
    BY <1>3, <1>6
  <2>2. QED
    BY <1>1, <2>1
<1>7. K \in [Cells -> Inbound]
  <2>1. \A d \in Cells : K[d] \in Inbound
    BY <1>5, <1>6
  <2> DEFINE F(d) == [s \in Senders |->
             IF s = c /\ \E p \in Ports : neighbor[c][p] = d
             THEN Append(L[d][s], casts[to(d)]) ELSE L[d][s]]
  <2>2. K = [d \in Cells |-> F(d)]
    BY <1>3
  <2> HIDE DEF K, F
  <2>3. QED
    BY <2>1, <2>2
<1>8. QED
  BY <1>5, <1>6, <1>7 DEF with_cast

(* Ports lead somewhere, and back.                                         *)
LEMMA Edges ==
  ASSUME NEW c \in Cells, NEW p \in Ports
  PROVE  /\ neighbor[c][p] \in Cells /\ neighbor[c][p] # c
         /\ opposite[p] \in Ports
         /\ neighbor[neighbor[c][p]][opposite[p]] = c
         /\ \A q \in Ports :
              neighbor[neighbor[c][p]][q] = c => q = opposite[p]
         /\ c \in Senders /\ "syndrome" \in Senders /\ c # "syndrome"
<1>1. /\ neighbor[c][p] \in Cells /\ neighbor[c][p] # c
      /\ opposite[p] \in Ports
      /\ neighbor[neighbor[c][p]][opposite[p]] = c
  BY PhiMeshAssumption
<1>2. \A q \in Ports : neighbor[neighbor[c][p]][q] = c => q = opposite[p]
  BY <1>1, PhiMeshAssumption
<1>3. c \in Senders /\ "syndrome" \in Senders /\ c # "syndrome"
  BY PhiMeshAssumption DEF Senders
<1>4. QED
  BY <1>1, <1>2, <1>3

(* The neighbors that are there can be counted.                            *)
LEMMA CountThere ==
  ASSUME NEW c \in Cells, NEW e \in Int, NEW h \in [Cells -> Nat]
  PROVE  /\ there(c, e, h) \subseteq Ports
         /\ IsFiniteSet(there(c, e, h))
         /\ Cardinality(there(c, e, h)) \in 0 .. NeighborCount
         /\ Cardinality(there(c, e, h)) = NeighborCount
              => there(c, e, h) = Ports
<1>1. there(c, e, h) \in SUBSET Ports
  BY DEF there
<1> DEFINE t == there(c, e, h)
<1> HIDE DEF t
<1>2. /\ IsFiniteSet(t) /\ Cardinality(t) <= Cardinality(Ports)
      /\ Cardinality(Ports) = Cardinality(t) => Ports = t
  <2>1. t \in SUBSET Ports
    BY <1>1 DEF t
  <2>2. IsFiniteSet(Ports)
    BY PhiMeshAssumption
  <2>3. QED
    BY <2>1, <2>2, FS_Subset
<1>3. Cardinality(t) \in Nat
  BY <1>2, FS_CardinalityType
<1>4. NeighborCount = Cardinality(Ports) /\ NeighborCount \in Nat
  BY Numbers DEF NeighborCount
<1>5. QED
  BY <1>1, <1>2, <1>3, <1>4 DEF t

(* When c enters its next exchange, one of the neighbors of a neighbor is  *)
(* there more than before, and the others see no difference.               *)
LEMMA OneMoreThere ==
  ASSUME NEW h \in [Cells -> Nat], NEW c \in Cells, NEW e \in Int,
         NEW p \in Ports, e = h[c] + 1
  PROVE  /\ there(neighbor[c][p], e, entering(h, c))
              = there(neighbor[c][p], e, h) \cup {opposite[p]}
         /\ opposite[p] \notin there(neighbor[c][p], e, h)
         /\ Cardinality(there(neighbor[c][p], e, entering(h, c)))
              = Cardinality(there(neighbor[c][p], e, h)) + 1
<1> DEFINE d == neighbor[c][p]
           o == opposite[p]
           t == there(d, e, h)
           u == there(d, e, entering(h, c))
<1>1. /\ entering(h, c) \in [Cells -> Nat]
      /\ entering(h, c)[c] = h[c] + 1 /\ h[c] \in Nat
      /\ \A x \in Cells \ {c} : entering(h, c)[x] = h[x]
  BY DEF entering
<1>2. d \in Cells /\ o \in Ports /\ neighbor[d][o] = c
  BY Edges
<1>3. \A q \in Ports \ {o} : neighbor[d][q] \in Cells \ {c}
  BY <1>2, Edges
<1> HIDE DEF d, o
<1>4. /\ \A q \in Ports \ {o} : q \in u <=> q \in t
      /\ u \subseteq Ports /\ t \subseteq Ports
  BY <1>1, <1>3 DEF there
<1>5. o \in u
  BY <1>1, <1>2 DEF there
<1>6. o \notin t
  BY <1>1, <1>2 DEF there
<1>7. IsFiniteSet(t)
  BY <1>2, CountThere
<1> HIDE DEF t, u
<1>8. u = t \cup {o}
  BY <1>2, <1>4, <1>5
<1>9. Cardinality(u) = Cardinality(t) + 1
  BY <1>6, <1>7, <1>8, FS_AddElement
<1>10. QED
  BY <1>6, <1>8, <1>9 DEF t, u, d, o

(* In other exchanges there is no difference.                              *)
LEMMA SameThere ==
  ASSUME NEW h \in [Cells -> Nat], NEW c \in Cells, NEW e \in Int,
         NEW d \in Cells,
         e # h[c] + 1 \/ \A p \in Ports : neighbor[d][p] # c
  PROVE  there(d, e, entering(h, c)) = there(d, e, h)
<1> DEFINE t == there(d, e, h)
           u == there(d, e, entering(h, c))
<1>1. /\ entering(h, c)[c] = h[c] + 1 /\ h[c] \in Nat
      /\ \A x \in Cells \ {c} : entering(h, c)[x] = h[x]
  BY DEF entering
<1>2. ASSUME NEW p \in Ports PROVE p \in t <=> p \in u
  <2>1. neighbor[d][p] \in Cells
    BY Edges
  <2>2. CASE neighbor[d][p] = c
    BY <1>1, <2>2 DEF there
  <2>3. CASE neighbor[d][p] # c
    BY <1>1, <2>1, <2>3 DEF there
  <2>4. QED
    BY <2>2, <2>3
<1>3. t \subseteq Ports /\ u \subseteq Ports
  BY DEF there
<1> HIDE DEF t, u
<1>4. t = u
  BY <1>2, <1>3
<1>5. QED
  BY <1>4 DEF t, u

(* What is requested is no part of an exchange.                            *)
LEMMA RequestedApart ==
  ASSUME NEW e \in Int, NEW r \in Runtime
  PROVE  /\ requested(r) \cap of_exchange(e) = {}
         /\ requested(r) \subseteq Message
         /\ r.phase \notin {"configuring", "measuring"} => requested(r) = {}
<1>1. \A m \in requested(r) : m.tag \in {"phi_config", "phenom_anyon"}
  BY DEF requested, phi_config, phenom_anyon
<1>2. \A m \in of_exchange(e) : m.tag \in {"phi", "phi0", "anyon_move"}
  BY DEF of_exchange, fields_from, phi, phi0, anyon_move
<1>3. requested(r) \subseteq Message
  BY DEF requested, Message, Runtime, Data
<1>4. r.phase \notin {"configuring", "measuring"} => requested(r) = {}
  BY DEF requested
<1>5. QED
  BY <1>1, <1>2, <1>3, <1>4

(* The fields of an exchange, each from one port.                          *)
LEMMA FieldsApart ==
  ASSUME NEW e \in Int, NEW p \in Ports, index(e) = Rounds
  PROVE  /\ fields_from(e, p) \subseteq of_exchange(e)
         /\ \A m \in fields_from(e, p) : m.source = p
<1>1. \A m \in fields_from(e, p) : m.source = p
  BY DEF fields_from, phi0
<1>2. fields_from(e, p) \subseteq of_exchange(e)
  BY Numbers DEF of_exchange
<1>3. QED
  BY <1>1, <1>2

(* A cell has consumed no more than a barrier, and less while it waits.    *)
LEMMA ConsumedType ==
  ASSUME NEW r \in Runtime
  PROVE  /\ IsFiniteSet(r.data.seen_sources)
         /\ Cardinality(r.data.seen_sources) \in Nat
         /\ consumed(r) \in 0 .. NeighborCount
         /\ \A e : at(r, e) /\ r.phase \notin {"configuring", "measuring"}
                     => consumed(r) < NeighborCount
<1> DEFINE s == r.data.seen_sources
<1>1. s \in SUBSET Ports
  BY DEF Runtime, Data
<1> HIDE DEF s
<1>2. IsFiniteSet(Ports) /\ NeighborCount = Cardinality(Ports)
  BY PhiMeshAssumption DEF NeighborCount
<1>3. /\ IsFiniteSet(s) /\ Cardinality(s) <= Cardinality(Ports)
      /\ Cardinality(s) = Cardinality(Ports) => s = Ports
  <2>1. Cardinality(Ports) = Cardinality(s) => Ports = s
    BY <1>1, <1>2, FS_Subset
  <2>2. IsFiniteSet(s) /\ Cardinality(s) <= Cardinality(Ports)
    BY <1>1, <1>2, FS_Subset
  <2>3. QED
    BY <2>1, <2>2
<1>4. Cardinality(s) \in Nat
  BY <1>3, FS_CardinalityType
<1>5. /\ r.data.phi_received \in 0 .. NeighborCount - 1
      /\ r.data.moves_received \in 0 .. NeighborCount - 1
      /\ r.phase \in Phases
  BY DEF Runtime, Data, Barrier
<1>6. consumed(r) \in 0 .. NeighborCount
  BY <1>2, <1>3, <1>4, <1>5, Numbers DEF consumed, s
<1>7. ASSUME NEW e, at(r, e), r.phase \notin {"configuring", "measuring"}
      PROVE  consumed(r) < NeighborCount
  <2>1. CASE r.phase = "comparing"
    <3>1. s # Ports
      BY <1>7, <2>1 DEF at, s
    <3>2. QED
      BY <1>2, <1>3, <1>4, <2>1, <3>1, Numbers DEF consumed, s
  <2>2. CASE r.phase \in {"gathering", "flipping"}
    BY <1>5, <2>2, Numbers DEF consumed
  <2>3. QED
    BY <1>5, <1>7, <2>1, <2>2 DEF Phases
<1>8. QED
  BY <1>3, <1>4, <1>6, <1>7 DEF s

(* A neighbor hears of it when a cell enters its next exchange.            *)
LEMMA NeighborHears ==
  ASSUME NEW h \in [Cells -> Nat], NEW c \in Cells, NEW p \in Ports,
         NEW d, d = neighbor[c][p], h[d] \in {h[c], h[c] + 1},
         NEW r \in Runtime, NEW l \in Inbound, CellInv(d, r, l, h),
         NEW m \in of_exchange(h[c] + 1),
         index(h[c] + 1) = Rounds => m \in fields_from(h[c] + 1, opposite[p])
  PROVE  CellInv(d, r, [l EXCEPT ![c] = Append(@, m)], entering(h, c))
<1> DEFINE k == [l EXCEPT ![c] = Append(@, m)]
           q == r.mailbox
           o == opposite[p]
           e == h[d]
           n == h[c] + 1
           g == entering(h, c)
<1>1. /\ d \in Cells /\ d # c /\ o \in Ports /\ c \in Senders
      /\ q \in Seq(Entry)
  BY Edges DEF Runtime
<1>2. /\ e \in Nat /\ n \in Nat /\ n \in {e, e + 1} /\ g[d] = e
      /\ e \in Int /\ e + 1 \in Int /\ n \in Int
  BY <1>1 DEF entering
<1>3. m \in Message /\ m \notin requested(r)
  BY <1>2, Exchanged, RequestedApart
<1>4. /\ m \in of_exchange(e) <=> n = e
      /\ m \in of_exchange(e + 1) <=> n = e + 1
  <2>1. of_exchange(e) \cap of_exchange(e + 1) = {}
    BY <1>2, Exchanged
  <2>2. QED
    BY <1>2, <2>1
<1>5. /\ k \in Inbound
      /\ \A S : unconsumed(k, q, S) = unconsumed(l, q, S) + one_if(m \in S)
  BY <1>1, <1>3, CastCounts
<1>6. \A S : unconsumed(l, q, S) \in Nat
  BY <1>1, Counted
<1>7. /\ \A f \in {e, e + 1} : f # n => there(d, f, g) = there(d, f, h)
      /\ there(d, n, g) = there(d, n, h) \cup {o}
      /\ o \notin there(d, n, h)
      /\ Cardinality(there(d, n, g)) = Cardinality(there(d, n, h)) + 1
  <2>1. ASSUME NEW f \in {e, e + 1}, f # n
        PROVE  there(d, f, g) = there(d, f, h)
    <3>1. f \in Int
      BY <1>2
    <3>2. QED
      BY <1>1, <2>1, <3>1, SameThere
  <2>2. /\ there(d, n, g) = there(d, n, h) \cup {o}
        /\ o \notin there(d, n, h)
        /\ Cardinality(there(d, n, g)) = Cardinality(there(d, n, h)) + 1
    BY <1>2, OneMoreThere
  <2>3. QED
    BY <2>1, <2>2
<1>8. /\ at(r, e) /\ NothingElse(r, l, e) /\ OneOfEach(d, r, l, h)
      /\ OneField(d, r, l, h) /\ OneAnswer(r, l) /\ HeldBack(r, e)
      /\ r.lifecycle = "disconnected" => r.phase = "configuring"
  BY DEF CellInv
<1> HIDE DEF k, q, o, e, n, g
<1>9. NothingElse(r, k, e)
  <2> DEFINE S == Message \ (of_exchange(e) \cup of_exchange(e + 1)
                               \cup requested(r))
  <2>1. unconsumed(l, q, S) = 0
    BY <1>8 DEF NothingElse, q
  <2>2. m \notin S
    BY <1>2, <1>4
  <2> HIDE DEF S
  <2>3. unconsumed(k, q, S) = 0
    BY <1>5, <2>1, <2>2 DEF one_if
  <2>4. QED
    BY <2>3 DEF NothingElse, S, q
<1>10. OneOfEach(d, r, k, g)
  <2>1. /\ consumed(r) + unconsumed(l, q, of_exchange(e))
             = Cardinality(there(d, e, h))
        /\ unconsumed(l, q, of_exchange(e + 1))
             = Cardinality(there(d, e + 1, h))
    BY <1>8 DEF OneOfEach, q, e
  <2>2. /\ unconsumed(k, q, of_exchange(e))
             = unconsumed(l, q, of_exchange(e)) + one_if(n = e)
        /\ unconsumed(k, q, of_exchange(e + 1))
             = unconsumed(l, q, of_exchange(e + 1)) + one_if(n = e + 1)
    BY <1>4, <1>5
  <2>3. /\ Cardinality(there(d, e, g))
             = Cardinality(there(d, e, h)) + one_if(n = e)
        /\ Cardinality(there(d, e + 1, g))
             = Cardinality(there(d, e + 1, h)) + one_if(n = e + 1)
    <3>1. \A f \in {e, e + 1} : Cardinality(there(d, f, h)) \in Nat
      BY <1>1, <1>2, CountThere
    <3>2. CASE n = e
      BY <1>2, <1>7, <3>1, <3>2 DEF one_if
    <3>3. CASE n = e + 1
      BY <1>2, <1>7, <3>1, <3>3 DEF one_if
    <3>4. QED
      BY <1>2, <3>2, <3>3
  <2>4. consumed(r) \in Nat
    BY ConsumedType, Numbers
  <2>5. /\ unconsumed(l, q, of_exchange(e)) \in Nat
        /\ one_if(n = e) \in Nat
    BY <1>6 DEF one_if
  <2>6. consumed(r) + unconsumed(k, q, of_exchange(e))
          = Cardinality(there(d, e, g))
    BY <2>1, <2>2, <2>3, <2>4, <2>5
  <2>7. unconsumed(k, q, of_exchange(e + 1)) = Cardinality(there(d, e + 1, g))
    BY <2>1, <2>2, <2>3
  <2>8. QED
    BY <1>2, <2>6, <2>7 DEF OneOfEach, q
<1>11. OneField(d, r, k, g)
  <2>1. ASSUME index(e) = Rounds
        PROVE  /\ r.data.seen_sources \subseteq there(d, e, g)
               /\ \A x \in Ports :
                    unconsumed(k, q, fields_from(e, x))
                      <= one_if(x \in there(d, e, g) \ r.data.seen_sources)
    <3>1. /\ r.data.seen_sources \subseteq there(d, e, h)
          /\ \A x \in Ports :
               unconsumed(l, q, fields_from(e, x))
                 <= one_if(x \in there(d, e, h) \ r.data.seen_sources)
      BY <1>8, <2>1 DEF OneField, q, e
    <3>2. \A x \in Ports : m \in fields_from(e, x) <=> n = e /\ x = o
      <4>1. n = e => m \in fields_from(e, o)
        BY <2>1 DEF n, o
      <4>2. \A x \in Ports : /\ m \in fields_from(e, x) => m.source = x
                             /\ fields_from(e, x) \subseteq of_exchange(e)
        BY <1>2, <2>1, FieldsApart
      <4>3. QED
        BY <1>1, <1>4, <4>1, <4>2
    <3>3. CASE n = e
      <4>1. r.data.seen_sources \subseteq there(d, e, g)
        BY <1>7, <3>1, <3>3
      <4>2. \A x \in Ports :
              unconsumed(k, q, fields_from(e, x))
                <= one_if(x \in there(d, e, g) \ r.data.seen_sources)
        <5> TAKE x \in Ports
        <5>1. CASE x = o
          <6>1. /\ o \notin there(d, e, h) /\ o \in there(d, e, g)
                /\ o \notin r.data.seen_sources
            BY <1>7, <3>1, <3>3
          <6>2. unconsumed(l, q, fields_from(e, x)) = 0
            BY <1>6, <3>1, <5>1, <6>1 DEF one_if
          <6>3. unconsumed(k, q, fields_from(e, x)) = 1
            BY <1>5, <3>2, <3>3, <5>1, <6>2 DEF one_if
          <6>4. QED
            BY <5>1, <6>1, <6>3 DEF one_if
        <5>2. CASE x # o
          <6>1. unconsumed(k, q, fields_from(e, x))
                  = unconsumed(l, q, fields_from(e, x))
            <7>1. m \notin fields_from(e, x)
              BY <3>2, <5>2
            <7>2. QED
              BY <1>5, <1>6, <7>1 DEF one_if
          <6>2. x \in there(d, e, g) <=> x \in there(d, e, h)
            BY <1>7, <3>3, <5>2
          <6>3. QED
            BY <1>6, <3>1, <6>1, <6>2 DEF one_if
        <5>3. QED
          BY <5>1, <5>2
      <4>3. QED
        BY <4>1, <4>2
    <3>4. CASE n # e
      <4>1. there(d, e, g) = there(d, e, h)
        BY <1>7, <3>4
      <4>2. \A x \in Ports : unconsumed(k, q, fields_from(e, x))
                               = unconsumed(l, q, fields_from(e, x))
        BY <1>5, <1>6, <3>2, <3>4 DEF one_if
      <4>3. QED
        BY <3>1, <4>1, <4>2
    <3>5. QED
      BY <3>3, <3>4
  <2>2. ASSUME index(e + 1) = Rounds
        PROVE  \A x \in Ports :
                 unconsumed(k, q, fields_from(e + 1, x))
                   <= one_if(x \in there(d, e + 1, g))
    <3>1. \A x \in Ports : unconsumed(l, q, fields_from(e + 1, x))
                             <= one_if(x \in there(d, e + 1, h))
      BY <1>8, <2>2 DEF OneField, q, e
    <3>2. \A x \in Ports : m \in fields_from(e + 1, x) <=> n = e + 1 /\ x = o
      <4>1. n = e + 1 => m \in fields_from(e + 1, o)
        BY <2>2 DEF n, o
      <4>2. \A x \in Ports :
              /\ m \in fields_from(e + 1, x) => m.source = x
              /\ fields_from(e + 1, x) \subseteq of_exchange(e + 1)
        BY <1>2, <2>2, FieldsApart
      <4>3. QED
        BY <1>1, <1>4, <4>1, <4>2
    <3> TAKE x \in Ports
    <3>3. CASE n = e + 1 /\ x = o
      <4>1. o \notin there(d, e + 1, h) /\ o \in there(d, e + 1, g)
        BY <1>7, <3>3
      <4>2. unconsumed(l, q, fields_from(e + 1, x)) = 0
        BY <1>6, <3>1, <3>3, <4>1 DEF one_if
      <4>3. unconsumed(k, q, fields_from(e + 1, x)) = 1
        BY <1>5, <3>2, <3>3, <4>2 DEF one_if
      <4>4. QED
        BY <3>3, <4>1, <4>3 DEF one_if
    <3>4. CASE ~(n = e + 1 /\ x = o)
      <4>1. unconsumed(k, q, fields_from(e + 1, x))
              = unconsumed(l, q, fields_from(e + 1, x))
        <5>1. m \notin fields_from(e + 1, x)
          BY <3>2, <3>4
        <5>2. QED
          BY <1>5, <1>6, <5>1 DEF one_if
      <4>2. x \in there(d, e + 1, g) <=> x \in there(d, e + 1, h)
        BY <1>7, <3>4
      <4>3. QED
        BY <1>6, <3>1, <4>1, <4>2 DEF one_if
    <3>5. QED
      BY <3>3, <3>4
  <2>3. QED
    BY <1>2, <2>1, <2>2 DEF OneField, q
<1>12. OneAnswer(r, k)
  <2>1. unconsumed(k, q, requested(r)) = unconsumed(l, q, requested(r))
    BY <1>3, <1>5, <1>6 DEF one_if
  <2>2. QED
    BY <1>8, <2>1 DEF OneAnswer, q
<1>13. QED
  BY <1>2, <1>8, <1>9, <1>10, <1>11, <1>12 DEF CellInv, k, g

(* A cell that is no neighbor does not notice.                             *)
LEMMA Unmoved ==
  ASSUME NEW h \in [Cells -> Nat], NEW c \in Cells,
         NEW d \in Cells, d # c, \A p \in Ports : neighbor[d][p] # c,
         NEW r \in Runtime, NEW l \in Inbound, CellInv(d, r, l, h)
  PROVE  CellInv(d, r, l, entering(h, c))
<1> DEFINE g == entering(h, c)
           e == h[d]
<1>1. g[d] = e /\ e \in Int /\ e + 1 \in Int
  BY DEF entering
<1>2. /\ there(d, e, g) = there(d, e, h)
      /\ there(d, e + 1, g) = there(d, e + 1, h)
  BY <1>1, SameThere
<1> HIDE DEF g, e
<1>3. OneOfEach(d, r, l, h) /\ OneField(d, r, l, h)
  BY DEF CellInv
<1>4. OneOfEach(d, r, l, g)
  BY <1>1, <1>2, <1>3 DEF OneOfEach, e
<1>5. OneField(d, r, l, g)
  BY <1>1, <1>2, <1>3 DEF OneField, e
<1>6. QED
  BY <1>1, <1>4, <1>5 DEF CellInv, e, g

(* Everything of the present exchange has come, and nothing is left but    *)
(* what the neighbors ahead have cast of the next.                         *)
OnlyNext(c, l, q, h) ==
  /\ there(c, h[c], h) = Ports
  /\ unconsumed(l, q, Message \ of_exchange(h[c] + 1)) = 0
  /\ unconsumed(l, q, of_exchange(h[c] + 1))
       = Cardinality(there(c, h[c] + 1, h))
  /\ index(h[c] + 1) = Rounds =>
       \A p \in Ports :
         unconsumed(l, q, fields_from(h[c] + 1, p))
           <= one_if(p \in there(c, h[c] + 1, h))

(* So it is when a cell has handled the last message of a barrier, or the  *)
(* answer to a request.                                                    *)
LEMMA BarrierEnds ==
  ASSUME NEW h \in [Cells -> Nat], NEW c \in Cells,
         NEW r \in Runtime, NEW l \in Inbound, CellInv(c, r, l, h),
         NEW k \in DOMAIN r.mailbox, NEW m, m = r.mailbox[k].message,
         \/ /\ m \in of_exchange(h[c])
            /\ r.phase \notin {"configuring", "measuring"}
            /\ consumed(r) + 1 = NeighborCount
         \/ m \in requested(r)
  PROVE  /\ RemoveAt(r.mailbox, k) \in Seq(Entry)
         /\ OnlyNext(c, l, RemoveAt(r.mailbox, k), h)
<1> DEFINE e == h[c]
           q == r.mailbox
           s == RemoveAt(q, k)
           u(S) == unconsumed(l, q, S)
           v(S) == unconsumed(l, s, S)
<1>1. e \in Int /\ e + 1 \in Int /\ q \in Seq(Entry) /\ k \in DOMAIN q
  BY DEF Runtime
<1>2. /\ s \in Seq(Entry)
      /\ \A S : unconsumed(l, s, S) = unconsumed(l, q, S) - one_if(m \in S)
  BY <1>1, HandlingCounts
<1>3. \A S : unconsumed(l, q, S) \in Nat /\ unconsumed(l, s, S) \in Nat
  BY <1>1, <1>2, Counted
<1>4. NothingElse(r, l, e) /\ OneOfEach(c, r, l, h) /\ OneAnswer(r, l)
      /\ OneField(c, r, l, h)
  BY DEF CellInv
<1>5. /\ Cardinality(there(c, e, h)) \in 0 .. NeighborCount
      /\ Cardinality(there(c, e, h)) = NeighborCount => there(c, e, h) = Ports
  BY <1>1, CountThere
<1>6. consumed(r) \in 0 .. NeighborCount /\ NeighborCount \in Nat
  BY ConsumedType, Numbers
<1>7. /\ requested(r) \cap of_exchange(e) = {}
      /\ requested(r) \cap of_exchange(e + 1) = {}
      /\ of_exchange(e) \cap of_exchange(e + 1) = {}
      /\ r.phase \notin {"configuring", "measuring"} => requested(r) = {}
  BY <1>1, Exchanged, RequestedApart
<1>8. /\ consumed(r) + unconsumed(l, q, of_exchange(e))
           = Cardinality(there(c, e, h))
      /\ unconsumed(l, q, of_exchange(e + 1)) = Cardinality(there(c, e + 1, h))
  BY <1>4 DEF OneOfEach
<1> HIDE DEF e, q, s
<1>9. /\ there(c, e, h) = Ports
      /\ unconsumed(l, s, of_exchange(e)) = 0
      /\ unconsumed(l, s, requested(r)) = 0
      /\ m \notin of_exchange(e + 1)
  <2>1. CASE /\ m \in of_exchange(e)
             /\ r.phase \notin {"configuring", "measuring"}
             /\ consumed(r) + 1 = NeighborCount
    <3>1. unconsumed(l, q, of_exchange(e)) >= 1
      BY <1>1, <2>1, Present DEF q
    <3>2. /\ unconsumed(l, q, of_exchange(e)) = 1
          /\ Cardinality(there(c, e, h)) = NeighborCount
      BY <1>3, <1>5, <1>6, <1>8, <2>1, <3>1
    <3>3. unconsumed(l, s, of_exchange(e)) = 0
      BY <1>2, <2>1, <3>2 DEF one_if
    <3>4. requested(r) = {}
      BY <1>7, <2>1
    <3>5. unconsumed(l, s, requested(r)) = 0
      BY <1>2, <3>4, Absent
    <3>6. QED
      BY <1>5, <1>7, <2>1, <3>2, <3>3, <3>5
  <2>2. CASE m \in requested(r)
    <3>1. r.phase \in {"configuring", "measuring"}
      BY <1>7, <2>2
    <3>2. consumed(r) = NeighborCount
      BY <3>1 DEF consumed
    <3>3. /\ unconsumed(l, q, of_exchange(e)) = 0
          /\ Cardinality(there(c, e, h)) = NeighborCount
      BY <1>3, <1>5, <1>6, <1>8, <3>2
    <3>4. unconsumed(l, s, of_exchange(e)) = 0
      BY <1>2, <1>7, <2>2, <3>3 DEF one_if
    <3>5. unconsumed(l, q, requested(r)) = 1
      BY <1>4, <3>1 DEF OneAnswer, q
    <3>6. unconsumed(l, s, requested(r)) = 0
      BY <1>2, <2>2, <3>5 DEF one_if
    <3>7. QED
      BY <1>5, <1>7, <2>2, <3>3, <3>4, <3>6
  <2>3. QED
    BY <2>1, <2>2 DEF e
<1>10. unconsumed(l, s, Message \ of_exchange(e + 1)) = 0
  <2> DEFINE S == Message \ (of_exchange(e) \cup of_exchange(e + 1)
                               \cup requested(r))
  <2>1. unconsumed(l, q, S) = 0
    BY <1>4 DEF NothingElse, q
  <2>2. unconsumed(l, s, S) = 0
    <3> HIDE DEF S
    <3>1. QED
      BY <1>2, <1>3, <2>1 DEF one_if
  <2>3. \A x \in Message \ of_exchange(e + 1) :
          x \in S \/ x \in of_exchange(e) \/ x \in requested(r)
    OBVIOUS
  <2> HIDE DEF S
  <2>4. \A T : unconsumed(l, s, T) = 0 =>
          /\ \A t \in Senders : \A i \in DOMAIN l[t] : l[t][i] \notin T
          /\ \A i \in DOMAIN s : s[i].message \notin T
    <3> SUFFICES ASSUME NEW T, unconsumed(l, s, T) = 0
                 PROVE /\ \A t \in Senders : \A i \in DOMAIN l[t] :
                            l[t][i] \notin T
                       /\ \A i \in DOMAIN s : s[i].message \notin T
      OBVIOUS
    <3>1. ~(unconsumed(l, s, T) >= 1)
      OBVIOUS
    <3>2. QED
      BY <1>2, <3>1, Present
  <2>5. \A t \in Senders : \A i \in DOMAIN l[t] :
          l[t][i] \notin Message \ of_exchange(e + 1)
    BY <1>9, <2>2, <2>3, <2>4
  <2>6. \A i \in DOMAIN s : s[i].message \notin Message \ of_exchange(e + 1)
    BY <1>9, <2>2, <2>3, <2>4
  <2>7. QED
    BY <1>2, <2>5, <2>6, Absent
<1>11. unconsumed(l, s, of_exchange(e + 1)) = Cardinality(there(c, e + 1, h))
  BY <1>2, <1>3, <1>8, <1>9 DEF one_if
<1>12. ASSUME index(e + 1) = Rounds, NEW p \in Ports
       PROVE  unconsumed(l, s, fields_from(e + 1, p))
                <= one_if(p \in there(c, e + 1, h))
  <2>1. unconsumed(l, q, fields_from(e + 1, p))
          <= one_if(p \in there(c, e + 1, h))
    BY <1>4, <1>12 DEF OneField, q, e
  <2>2. /\ unconsumed(l, s, fields_from(e + 1, p))
             = unconsumed(l, q, fields_from(e + 1, p))
                 - one_if(m \in fields_from(e + 1, p))
        /\ unconsumed(l, q, fields_from(e + 1, p)) \in Nat
    BY <1>2, <1>3
  <2>3. \A b : one_if(b) \in {0, 1}
    BY DEF one_if
  <2>4. QED
    BY <2>1, <2>2, <2>3
<1>13. QED
  BY <1>2, <1>9, <1>10, <1>11, <1>12 DEF OnlyNext, e, s, q

(* Then the messages that are left are all of the next exchange.           *)
LEMMA LeftOver ==
  ASSUME NEW h \in [Cells -> Nat], NEW c \in Cells, NEW l \in Inbound,
         NEW q \in Seq(Entry), OnlyNext(c, l, q, h),
         NEW S, S \cap of_exchange(h[c] + 1) = {}
  PROVE  unconsumed(l, q, S) = 0
<1>1. unconsumed(l, q, Message \ of_exchange(h[c] + 1)) = 0
  BY DEF OnlyNext
<1>2. ~(unconsumed(l, q, Message \ of_exchange(h[c] + 1)) >= 1)
  BY <1>1
<1>3. /\ \A s \in Senders : \A i \in DOMAIN l[s] :
           l[s][i] \in Message /\ l[s][i] \in of_exchange(h[c] + 1)
      /\ \A k \in DOMAIN q :
           q[k].message \in Message /\ q[k].message \in of_exchange(h[c] + 1)
  <2>1. \A s \in Senders : \A i \in DOMAIN l[s] : l[s][i] \in Message
    BY DEF Inbound
  <2>2. \A k \in DOMAIN q : q[k].message \in Message
    <3>1. \A k \in DOMAIN q : q[k] \in Entry
      OBVIOUS
    <3>2. QED
      BY <3>1 DEF Entry
  <2>3. QED
    BY <1>2, <2>1, <2>2, Present
<1>4. QED
  BY <1>3, Absent

(* It enters the next exchange, in which it has consumed nothing yet.      *)
LEMMA CellEnters ==
  ASSUME NEW h \in [Cells -> Nat], NEW c \in Cells, Lockstep(h),
         NEW l \in Inbound, NEW q \in Seq(Entry), OnlyNext(c, l, q, h),
         NEW r \in Runtime, r.mailbox = released(q),
         r.lifecycle = "connected",
         r.phase \in {"gathering", "comparing", "flipping"},
         at(r, h[c] + 1), consumed(r) = 0,
         r.phase = "comparing" => r.data.seen_sources = {}
  PROVE  CellInv(c, r, l, entering(h, c))
<1> DEFINE g == entering(h, c)
           e == h[c] + 1
           s == r.mailbox
<1>1. e \in Int /\ e + 1 \in Int /\ g[c] = e /\ h[c] \in Nat
  BY DEF entering
<1>2. /\ \A S : unconsumed(l, s, S) = unconsumed(l, q, S)
      /\ s \in Seq(Entry)
      /\ \A k \in DOMAIN s : ~s[k].postponed
  BY Released
<1>3. /\ of_exchange(e) \cap of_exchange(e + 1) = {}
      /\ requested(r) = {}
  BY <1>1, Exchanged, RequestedApart
<1>4. /\ there(c, e, g) = there(c, e, h)
      /\ there(c, e + 1, g) = there(c, e + 1, h)
  <2>1. \A p \in Ports : neighbor[c][p] # c
    BY Edges
  <2>2. QED
    BY <1>1, <2>1, SameThere
<1>5. there(c, e + 1, h) = {}
  <2>1. \A p \in Ports : /\ h[neighbor[c][p]] \in Nat
                         /\ h[neighbor[c][p]] <= h[c] + 1
    BY Edges DEF Lockstep
  <2>2. \A p \in Ports : ~(h[neighbor[c][p]] >= h[c] + 1 + 1)
    BY <1>1, <2>1
  <2>3. QED
    BY <2>2 DEF there
<1>6. \A S : S \cap of_exchange(e) = {} => unconsumed(l, s, S) = 0
  BY <1>2, LeftOver
<1>7. /\ unconsumed(l, s, of_exchange(e)) = Cardinality(there(c, e, h))
      /\ index(e) = Rounds =>
           \A p \in Ports : unconsumed(l, s, fields_from(e, p))
                              <= one_if(p \in there(c, e, h))
  BY <1>2 DEF OnlyNext
<1>8. Cardinality(there(c, e, h)) \in Nat
  BY <1>1, CountThere
<1> HIDE DEF g, s
<1>9. NothingElse(r, l, e)
  <2>1. (Message \ (of_exchange(e) \cup of_exchange(e + 1) \cup requested(r)))
          \cap of_exchange(e) = {}
    OBVIOUS
  <2>2. QED
    BY <1>6, <2>1 DEF NothingElse, s
<1>10. OneOfEach(c, r, l, g)
  <2>1. unconsumed(l, s, of_exchange(e + 1)) = 0
    BY <1>3, <1>6
  <2>2. Cardinality(there(c, e + 1, g)) = 0
    BY <1>4, <1>5, FS_EmptySet
  <2>3. consumed(r) + unconsumed(l, s, of_exchange(e))
          = Cardinality(there(c, e, g))
    BY <1>4, <1>7, <1>8
  <2> HIDE DEF e
  <2>4. QED
    BY <1>1, <2>1, <2>2, <2>3 DEF OneOfEach, s
<1>11. OneField(c, r, l, g)
  <2>1. ASSUME index(e) = Rounds
        PROVE  r.data.seen_sources = {}
    <3>1. r.phase = "comparing"
      BY <2>1, Numbers DEF at
    <3>2. QED
      BY <3>1
  <2>2. ASSUME index(e + 1) = Rounds, NEW p \in Ports
        PROVE  unconsumed(l, s, fields_from(e + 1, p)) = 0
    <3>1. fields_from(e + 1, p) \subseteq of_exchange(e + 1)
      BY <1>1, <2>2, FieldsApart
    <3>2. QED
      BY <1>3, <1>6, <3>1
  <2>3. \A b : 0 <= one_if(b)
    BY DEF one_if
  <2> HIDE DEF e
  <2>4. \A p \in there(c, e, g) : p \in there(c, e, g) \ {}
    OBVIOUS
  <2>5. QED
    BY <1>1, <1>4, <1>7, <2>1, <2>2, <2>3 DEF OneField, s
<1>12. OneAnswer(r, l) /\ HeldBack(r, e)
  BY <1>2 DEF OneAnswer, HeldBack, s
<1>13. QED
  BY <1>1, <1>9, <1>10, <1>11, <1>12 DEF CellInv, g

(* It asks for its next measurement, and is answered.                      *)
LEMMA CellMeasures ==
  ASSUME NEW h \in [Cells -> Nat], NEW c \in Cells,
         NEW l \in Inbound, NEW q \in Seq(Entry), OnlyNext(c, l, q, h),
         NEW r \in Runtime, r.mailbox = released(q),
         r.lifecycle = "connected", r.phase = "measuring", at(r, h[c]),
         NEW b \in {0, 1}, NEW m, m = phenom_anyon(r.data.step, b)
  PROVE  CellInv(c, r, [l EXCEPT !["syndrome"] = Append(@, m)], h)
<1> DEFINE e == h[c]
           s == r.mailbox
           k == [l EXCEPT !["syndrome"] = Append(@, m)]
<1>1. e \in Int /\ e + 1 \in Int
  OBVIOUS
<1>2. /\ \A S : unconsumed(l, s, S) = unconsumed(l, q, S)
      /\ s \in Seq(Entry)
      /\ \A i \in DOMAIN s : ~s[i].postponed
  BY Released
<1>3. /\ m \in requested(r) /\ m \in Message
      /\ requested(r) \cap of_exchange(e) = {}
      /\ requested(r) \cap of_exchange(e + 1) = {}
      /\ of_exchange(e) \cap of_exchange(e + 1) = {}
  <2>1. m \in requested(r)
    BY DEF requested
  <2>2. QED
    BY <1>1, <2>1, Exchanged, RequestedApart
<1>4. /\ k \in Inbound
      /\ \A S : unconsumed(k, s, S) = unconsumed(l, s, S) + one_if(m \in S)
  <2>1. "syndrome" \in Senders
    BY DEF Senders
  <2>2. s \in Seq(Entry) /\ m \in Message
    BY <1>2, <1>3
  <2> HIDE DEF s
  <2>3. QED
    BY ZenonT(60), <2>1, <2>2, CastCounts
<1>5. \A S : S \cap of_exchange(e + 1) = {} => unconsumed(l, s, S) = 0
  BY <1>2, LeftOver
<1>6. /\ there(c, e, h) = Ports
      /\ unconsumed(l, s, of_exchange(e + 1))
           = Cardinality(there(c, e + 1, h))
      /\ index(e + 1) = Rounds =>
           \A p \in Ports : unconsumed(l, s, fields_from(e + 1, p))
                              <= one_if(p \in there(c, e + 1, h))
  BY <1>2 DEF OnlyNext
<1>7. Cardinality(there(c, e + 1, h)) \in Nat
  BY <1>1, CountThere
<1>8. Cardinality(there(c, e, h)) = NeighborCount /\ NeighborCount \in Nat
  BY <1>6, Numbers DEF NeighborCount
<1> HIDE DEF e, s, k
<1>9. NothingElse(r, k, e)
  <2> DEFINE S == Message \ (of_exchange(e) \cup of_exchange(e + 1)
                               \cup requested(r))
  <2>1. S \cap of_exchange(e + 1) = {} /\ m \notin S
    BY <1>3
  <2> HIDE DEF S
  <2>2. unconsumed(k, s, S) = 0
    BY <1>4, <1>5, <2>1 DEF one_if
  <2>3. QED
    BY <2>2 DEF NothingElse, S, s
<1>10. OneOfEach(c, r, k, h)
  <2>1. m \notin of_exchange(e) /\ m \notin of_exchange(e + 1)
    BY <1>3
  <2>2. unconsumed(k, s, of_exchange(e)) = 0
    BY <1>3, <1>4, <1>5, <2>1 DEF one_if
  <2>3. unconsumed(k, s, of_exchange(e + 1)) = Cardinality(there(c, e + 1, h))
    BY <1>4, <1>6, <1>7, <2>1 DEF one_if
  <2>4. consumed(r) = NeighborCount
    BY DEF consumed
  <2>5. QED
    BY <1>8, <2>2, <2>3, <2>4 DEF OneOfEach, e, s
<1>11. OneField(c, r, k, h)
  <2>1. index(e) # Rounds
    <3>1. index(e + 1) = 0
      BY DEF at, e
    <3>2. index(e) \in 0 .. Rounds + 1
      BY <1>1, Places
    <3>3. QED
      BY <1>1, <3>1, <3>2, NextExchange, Numbers
  <2>2. ASSUME index(e + 1) = Rounds, NEW p \in Ports
        PROVE  unconsumed(k, s, fields_from(e + 1, p))
                 <= one_if(p \in there(c, e + 1, h))
    <3>1. index(e + 1) = 0
      BY DEF at, e
    <3>2. QED
      BY <2>2, <3>1, Numbers
  <2>3. QED
    BY <2>1, <2>2 DEF OneField, e, s
<1>12. OneAnswer(r, k)
  <2>1. unconsumed(k, s, requested(r)) = 1
    BY <1>3, <1>4, <1>5 DEF one_if
  <2>2. QED
    BY <2>1 DEF OneAnswer, s
<1>13. HeldBack(r, e)
  BY <1>2 DEF HeldBack, s
<1>14. QED
  BY <1>9, <1>10, <1>11, <1>12, <1>13 DEF CellInv, e, k

(* A message that is not the last of its barrier is counted.               *)
LEMMA CellCounts ==
  ASSUME NEW h \in [Cells -> Nat], NEW c \in Cells,
         NEW r \in Runtime, NEW l \in Inbound, CellInv(c, r, l, h),
         NEW k \in DOMAIN r.mailbox, NEW m, m = r.mailbox[k].message,
         m \in of_exchange(h[c]),
         NEW t \in Runtime, t.mailbox = RemoveAt(r.mailbox, k),
         t.phase = r.phase, t.lifecycle = "connected",
         t.phase \notin {"configuring", "measuring"},
         at(t, h[c]), consumed(t) = consumed(r) + 1,
         index(h[c]) = Rounds =>
           \E p \in Ports :
             /\ m \in fields_from(h[c], p)
             /\ t.data.seen_sources = r.data.seen_sources \cup {p}
  PROVE  CellInv(c, t, l, h)
<1> DEFINE e == h[c]
           q == r.mailbox
           s == t.mailbox
<1>1. e \in Int /\ e + 1 \in Int /\ q \in Seq(Entry) /\ k \in DOMAIN q
  BY DEF Runtime
<1>2. /\ s \in Seq(Entry)
      /\ \A S : unconsumed(l, s, S) = unconsumed(l, q, S) - one_if(m \in S)
  BY <1>1, HandlingCounts
<1>3. \A S : unconsumed(l, q, S) \in Nat /\ unconsumed(l, s, S) \in Nat
  BY <1>1, <1>2, Counted
<1>4. /\ NothingElse(r, l, e) /\ OneOfEach(c, r, l, h)
      /\ OneField(c, r, l, h) /\ HeldBack(r, e)
  BY DEF CellInv
<1>5. /\ requested(r) = {} /\ requested(t) = {}
      /\ of_exchange(e) \cap of_exchange(e + 1) = {}
  BY <1>1, Exchanged, RequestedApart
<1>6. consumed(r) \in Nat
  BY ConsumedType
<1>7. \A b : one_if(b) \in {0, 1}
  BY DEF one_if
<1> HIDE DEF e, q, s
<1>8. NothingElse(t, l, e)
  <2> DEFINE S == Message \ (of_exchange(e) \cup of_exchange(e + 1) \cup {})
  <2>1. unconsumed(l, q, S) = 0
    BY <1>4, <1>5 DEF NothingElse, q
  <2> HIDE DEF S
  <2>2. unconsumed(l, s, S) = 0
    BY <1>2, <1>3, <1>7, <2>1
  <2>3. QED
    BY <1>5, <2>2 DEF NothingElse, S, s
<1>9. OneOfEach(c, t, l, h)
  <2>1. /\ consumed(r) + unconsumed(l, q, of_exchange(e))
             = Cardinality(there(c, e, h))
        /\ unconsumed(l, q, of_exchange(e + 1))
             = Cardinality(there(c, e + 1, h))
    BY <1>4 DEF OneOfEach, e, q
  <2>2. m \in of_exchange(e) /\ m \notin of_exchange(e + 1)
    BY <1>5 DEF e
  <2>3. unconsumed(l, s, of_exchange(e)) = unconsumed(l, q, of_exchange(e)) - 1
    BY <1>2, <2>2 DEF one_if
  <2>4. unconsumed(l, s, of_exchange(e + 1))
          = unconsumed(l, q, of_exchange(e + 1))
    BY <1>2, <1>3, <2>2 DEF one_if
  <2>5. consumed(t) + unconsumed(l, s, of_exchange(e))
          = Cardinality(there(c, e, h))
    BY <1>3, <1>6, <2>1, <2>3
  <2>6. QED
    BY <2>1, <2>4, <2>5 DEF OneOfEach, e, s
<1>10. OneField(c, t, l, h)
  <2>1. ASSUME index(e) = Rounds
        PROVE  /\ t.data.seen_sources \subseteq there(c, e, h)
               /\ \A p \in Ports :
                    unconsumed(l, s, fields_from(e, p))
                      <= one_if(p \in there(c, e, h) \ t.data.seen_sources)
    <3>1. PICK p \in Ports :
            /\ m \in fields_from(e, p)
            /\ t.data.seen_sources = r.data.seen_sources \cup {p}
      BY <2>1 DEF e
    <3>2. /\ r.data.seen_sources \subseteq there(c, e, h)
          /\ \A x \in Ports :
               unconsumed(l, q, fields_from(e, x))
                 <= one_if(x \in there(c, e, h) \ r.data.seen_sources)
      BY <1>4, <2>1 DEF OneField, e, q
    <3>3. unconsumed(l, q, fields_from(e, p)) >= 1
      BY <1>1, <3>1, Present DEF q
    <3>4. p \in there(c, e, h) \ r.data.seen_sources
      BY <1>3, <3>2, <3>3 DEF one_if
    <3>5. unconsumed(l, s, fields_from(e, p)) = 0
      <4>1. unconsumed(l, q, fields_from(e, p)) <= 1
        BY <3>2, <3>4 DEF one_if
      <4>2. unconsumed(l, s, fields_from(e, p))
              = unconsumed(l, q, fields_from(e, p)) - 1
        BY <1>2, <3>1 DEF one_if
      <4>3. QED
        BY <1>3, <3>3, <4>1, <4>2
    <3>6. ASSUME NEW x \in Ports, x # p
          PROVE  unconsumed(l, s, fields_from(e, x))
                   <= one_if(x \in there(c, e, h) \ t.data.seen_sources)
      <4>1. unconsumed(l, s, fields_from(e, x))
              <= unconsumed(l, q, fields_from(e, x))
        BY <1>2, <1>3, <1>7
      <4>2. x \in there(c, e, h) \ t.data.seen_sources
              <=> x \in there(c, e, h) \ r.data.seen_sources
        BY <3>1, <3>6
      <4>3. one_if(x \in there(c, e, h) \ t.data.seen_sources)
              = one_if(x \in there(c, e, h) \ r.data.seen_sources)
        BY <4>2 DEF one_if
      <4> DEFINE a == unconsumed(l, s, fields_from(e, x))
                 b == unconsumed(l, q, fields_from(e, x))
                 d == one_if(x \in there(c, e, h) \ r.data.seen_sources)
      <4>4. a \in Nat /\ b \in Nat /\ d \in {0, 1} /\ a <= b /\ b <= d
        BY <1>3, <1>7, <3>2, <4>1
      <4> HIDE DEF a, b, d
      <4>5. a <= d
        BY <4>4
      <4>6. QED
        BY <4>3, <4>5 DEF a, d
    <3>7. 0 <= one_if(p \in there(c, e, h) \ t.data.seen_sources)
      BY DEF one_if
    <3>8. QED
      BY <3>1, <3>2, <3>4, <3>5, <3>6, <3>7
  <2>2. ASSUME index(e + 1) = Rounds, NEW p \in Ports
        PROVE  unconsumed(l, s, fields_from(e + 1, p))
                 <= one_if(p \in there(c, e + 1, h))
    <3>1. unconsumed(l, q, fields_from(e + 1, p))
            <= one_if(p \in there(c, e + 1, h))
      BY <1>4, <2>2 DEF OneField, e, q
    <3>2. unconsumed(l, s, fields_from(e + 1, p))
            <= unconsumed(l, q, fields_from(e + 1, p))
      BY <1>2, <1>3, <1>7
    <3> DEFINE a == unconsumed(l, s, fields_from(e + 1, p))
               b == unconsumed(l, q, fields_from(e + 1, p))
               d == one_if(p \in there(c, e + 1, h))
    <3>3. a \in Nat /\ b \in Nat /\ d \in {0, 1} /\ a <= b /\ b <= d
      BY <1>3, <1>7, <3>1, <3>2
    <3> HIDE DEF a, b, d
    <3>4. a <= d
      BY <3>3
    <3>5. QED
      BY <3>4 DEF a, d
  <2>3. QED
    BY <2>1, <2>2 DEF OneField, e, s
<1>11. OneAnswer(t, l)
  BY DEF OneAnswer
<1>12. HeldBack(t, e)
  <2>1. \A i \in DOMAIN s : \E j \in DOMAIN q : s[i] = q[j]
    <3>1. /\ DOMAIN s = 1 .. Len(q) - 1
          /\ \A i \in 1 .. Len(q) - 1 :
               s[i] = IF i < k THEN q[i] ELSE q[i + 1]
      BY <1>1, RemoveAtElements DEF q, s
    <3>2. DOMAIN q = 1 .. Len(q) /\ Len(q) \in Nat
      BY <1>1
    <3>3. QED
      BY <3>1, <3>2
  <2>2. QED
    BY <1>4, <2>1 DEF HeldBack, q, s
<1>13. QED
  BY <1>8, <1>9, <1>10, <1>11, <1>12 DEF CellInv, e

(* A message of the next exchange is held back.                            *)
LEMMA CellHoldsBack ==
  ASSUME NEW h \in [Cells -> Nat], NEW c \in Cells,
         NEW r \in Runtime, NEW l \in Inbound, CellInv(c, r, l, h),
         NEW k \in DOMAIN r.mailbox,
         r.mailbox[k].message \in of_exchange(h[c] + 1),
         NEW t, t = [r EXCEPT !.mailbox = held_back(@, k)]
  PROVE  t \in Runtime /\ CellInv(c, t, l, h)
<1> DEFINE q == r.mailbox
           s == held_back(q, k)
<1>1. q \in Seq(Entry) /\ k \in DOMAIN q
  BY DEF Runtime
<1>2. /\ s \in Seq(Entry) /\ DOMAIN s = DOMAIN q
      /\ \A j \in DOMAIN q : /\ s[j].message = q[j].message
                             /\ s[j].postponed => q[j].postponed \/ j = k
      /\ \A S : unconsumed(l, s, S) = unconsumed(l, q, S)
  BY <1>1, Postponed
<1>3. /\ t \in Runtime /\ t.mailbox = s /\ t.phase = r.phase
      /\ t.data = r.data /\ t.lifecycle = r.lifecycle
  <2> HIDE DEF s
  <2>1. t = [r EXCEPT !.mailbox = s]
    BY DEF s
  <2>2. QED
    BY <1>2, <2>1 DEF Runtime
<1>4. /\ at(t, h[c]) <=> at(r, h[c])
      /\ requested(t) = requested(r) /\ consumed(t) = consumed(r)
  BY <1>3 DEF at, requested, consumed
<1> HIDE DEF q, s
<1>5. NothingElse(t, l, h[c]) /\ OneOfEach(c, t, l, h)
  BY <1>2, <1>3, <1>4 DEF CellInv, NothingElse, OneOfEach, q
<1>6. OneField(c, t, l, h)
  BY <1>2, <1>3 DEF CellInv, OneField, q
<1>7. OneAnswer(t, l)
  BY <1>2, <1>3, <1>4 DEF CellInv, OneAnswer, q
<1>8. HeldBack(t, h[c])
  BY <1>2, <1>3 DEF CellInv, HeldBack, q
<1>9. QED
  BY <1>3, <1>4, <1>5, <1>6, <1>7, <1>8 DEF CellInv
-----------------------------------------------------------------------------
(* What handle_cast/3 concludes.                                           *)
(* The conclusion that r comes to on message m.                            *)
conclusion(m, r, value) == handle_cast(m, r.phase, r.data, value)

(* r with the data, and the phase, of a conclusion.                        *)
with_data(r, concl) == [r EXCEPT !.data = concl.data]
with_phase(r, concl) ==
  [r EXCEPT !.data = concl.data, !.phase = next_phase(r, concl)]

(* Message m is the last of a barrier, or answers a request.               *)
Completes(r, m, e) ==
  \/ /\ m \in of_exchange(e)
     /\ r.phase \notin {"configuring", "measuring"}
     /\ consumed(r) + 1 = NeighborCount
  \/ m \in requested(r)

(* The four outcomes of a turn: m is early; it is one of the barrier; the  *)
(* next exchange begins with it; the next measurement does.                *)
Holds(r, m, concl, e) ==
  m \in of_exchange(e + 1) /\ concl = conclude(r.phase, r.data, "postpone")

Counts(r, m, concl, e) ==
  /\ m \in of_exchange(e) /\ r.phase \notin {"configuring", "measuring"}
  /\ concl.directive = "consume" /\ concl.phase = r.phase
  /\ concl.data \in Data
  /\ at(with_data(r, concl), e)
  /\ consumed(with_data(r, concl)) = consumed(r) + 1
  /\ index(e) = Rounds =>
       \E p \in Ports :
         /\ m \in fields_from(e, p)
         /\ concl.data.seen_sources = r.data.seen_sources \cup {p}

Enters(r, m, concl, e) ==
  /\ Completes(r, m, e)
  /\ concl.directive = "consume" /\ boundary(r, concl)
  /\ concl.data \in Data
  /\ next_phase(r, concl) \in {"gathering", "comparing", "flipping"}
  /\ at(with_phase(r, concl), e + 1)
  /\ consumed(with_phase(r, concl)) = 0
  /\ next_phase(r, concl) = "comparing" =>
       concl.data.seen_sources = {} /\ concl.data.phi0 \in Values

Measures(r, m, concl, e) ==
  /\ Completes(r, m, e)
  /\ concl.directive = "consume" /\ boundary(r, concl)
  /\ concl.data \in Data
  /\ next_phase(r, concl) = "measuring"
  /\ at(with_phase(r, concl), e)

Concluded(r, m, concl, e) ==
  \/ Holds(r, m, concl, e) \/ Counts(r, m, concl, e)
  \/ Enters(r, m, concl, e) \/ Measures(r, m, concl, e)

(* The messages a cell can meet.                                           *)
LEMMA Nearby ==
  ASSUME NEW h \in [Cells -> Nat], NEW c \in Cells,
         NEW r \in Runtime, NEW l \in Inbound, CellInv(c, r, l, h),
         NEW k \in DOMAIN r.mailbox, NEW m, m = r.mailbox[k].message
  PROVE  /\ m \in Message
         /\ \/ m \in of_exchange(h[c] + 1)
            \/ m \in requested(r)
            \/ /\ m \in of_exchange(h[c])
               /\ r.phase \notin {"configuring", "measuring"}
         /\ index(h[c]) = Rounds =>
              \A p \in Ports :
                m \in fields_from(h[c], p) => p \notin r.data.seen_sources
<1> DEFINE e == h[c]
           q == r.mailbox
<1>1. e \in Int /\ q \in Seq(Entry) /\ k \in DOMAIN q
  BY DEF Runtime
<1>2. NothingElse(r, l, e) /\ OneOfEach(c, r, l, h) /\ OneField(c, r, l, h)
  BY DEF CellInv
<1>3. m \in Message
  <2>1. q[k] \in Entry
    BY <1>1
  <2>2. QED
    BY <2>1 DEF Entry
<1>4. \A S : m \in S => unconsumed(l, q, S) >= 1
  BY <1>1, Present
<1>5. \A S : unconsumed(l, q, S) \in Nat
  BY <1>1, Counted
<1> HIDE DEF e, q
<1>6. m \in of_exchange(e) \cup of_exchange(e + 1) \cup requested(r)
  <2> DEFINE S == Message \ (of_exchange(e) \cup of_exchange(e + 1)
                               \cup requested(r))
  <2>1. unconsumed(l, q, S) = 0
    BY <1>2 DEF NothingElse, q
  <2> HIDE DEF S
  <2>2. m \notin S
    BY <1>4, <2>1
  <2>3. QED
    BY <1>3, <2>2 DEF S
<1>7. ASSUME m \in of_exchange(e)
      PROVE  r.phase \notin {"configuring", "measuring"}
  <2>1. consumed(r) + unconsumed(l, q, of_exchange(e))
          = Cardinality(there(c, e, h))
    BY <1>2 DEF OneOfEach, e, q
  <2>2. Cardinality(there(c, e, h)) \in 0 .. NeighborCount
    BY <1>1, CountThere
  <2>3. unconsumed(l, q, of_exchange(e)) >= 1
    BY <1>4, <1>7
  <2>4. consumed(r) # NeighborCount
    BY <1>5, <2>1, <2>2, <2>3, Numbers
  <2>5. QED
    BY <2>4 DEF consumed
<1>8. ASSUME index(e) = Rounds, NEW p \in Ports, m \in fields_from(e, p)
      PROVE  p \notin r.data.seen_sources
  <2>1. unconsumed(l, q, fields_from(e, p))
          <= one_if(p \in there(c, e, h) \ r.data.seen_sources)
    BY <1>2, <1>8 DEF OneField, e, q
  <2>2. unconsumed(l, q, fields_from(e, p)) >= 1
    BY <1>4, <1>8
  <2>3. unconsumed(l, q, fields_from(e, p)) \in Nat
    BY <1>5
  <2>4. p \in there(c, e, h) \ r.data.seen_sources
    BY <2>1, <2>2, <2>3 DEF one_if
  <2>5. QED
    BY <2>4
<1>9. QED
  BY <1>3, <1>6, <1>7, <1>8 DEF e

(* Configuring waits for the configuration, then measures.                 *)
LEMMA Configuring ==
  ASSUME NEW r \in Runtime, NEW e \in Nat, at(r, e),
         r.phase = "configuring", NEW value \in Values, NEW m,
         m \in of_exchange(e + 1) \/ m \in requested(r)
  PROVE  Concluded(r, m, conclusion(m, r, value), e)
<1> DEFINE concl == conclusion(m, r, value)
<1>1. concl = configuring(m, r.data)
  BY DEF conclusion, handle_cast
<1>2. e = 0 /\ r.data \in Data
  BY DEF at, Runtime
<1> HIDE DEF concl
<1>3. CASE m \in of_exchange(e + 1)
  <2>1. m = phi((turn(1) * Rounds + index(1)) % U32)
    BY <1>2, <1>3, FirstExchange, Numbers DEF of_exchange
  <2>2. (turn(1) * Rounds + index(1)) % U32 = 0
    <3> DEFINE U == U32
    <3>1. U \in Nat /\ U > 0
      BY Numbers
    <3>2. turn(1) * Rounds + index(1) = 0
      BY FirstExchange, Numbers
    <3> HIDE DEF U
    <3>3. 0 % U = 0
      BY <3>1
    <3>4. QED
      BY <3>2, <3>3 DEF U
  <2>3. m.tag = "phi" /\ m.epoch = 0
    BY <2>1, <2>2 DEF phi
  <2>4. concl = conclude("configuring", r.data, "postpone")
    BY <1>1, <2>3 DEF configuring
  <2>5. QED
    BY <1>3, <2>4 DEF Concluded, Holds, concl
<1>4. CASE m \in requested(r)
  <2>1. m = phi_config
    BY <1>4 DEF requested
  <2>2. concl = conclude("measuring", r.data, "consume")
    BY <1>1, <2>1 DEF configuring, phi_config
  <2>3. /\ boundary(r, concl) /\ next_phase(r, concl) = "measuring"
        /\ concl.data = r.data /\ concl.directive = "consume"
    BY <2>2 DEF boundary, next_phase, conclude
  <2>4. /\ with_phase(r, concl).phase = "measuring"
        /\ with_phase(r, concl).data = r.data
    BY <2>3 DEF with_phase, Runtime
  <2>5. at(with_phase(r, concl), e)
    BY <2>4 DEF at
  <2>6. QED
    BY <1>2, <1>4, <2>3, <2>5 DEF Concluded, Measures, Completes, concl
<1>5. QED
  BY <1>3, <1>4

(* The fields of the runtime that a conclusion changes.                    *)
LEMMA Reached ==
  ASSUME NEW r \in Runtime, NEW concl, concl.data \in Data,
         next_phase(r, concl) \in Phases
  PROVE  /\ with_data(r, concl) \in Runtime
         /\ with_data(r, concl).data = concl.data
         /\ with_data(r, concl).phase = r.phase
         /\ with_phase(r, concl) \in Runtime
         /\ with_phase(r, concl).data = concl.data
         /\ with_phase(r, concl).phase = next_phase(r, concl)
<1> DEFINE p == next_phase(r, concl)
<1> HIDE DEF p
<1>1. with_phase(r, concl) = [r EXCEPT !.data = concl.data, !.phase = p]
  BY DEF with_phase, p
<1>2. p \in Phases
  BY DEF p
<1>3. QED
  BY <1>1, <1>2 DEF Runtime, with_data, p

(* The measurement begins the first diffusion round.                       *)
LEMMA Measuring ==
  ASSUME NEW r \in Runtime, NEW e \in Nat, at(r, e),
         r.phase = "measuring", NEW value \in Values, NEW m,
         m \in of_exchange(e + 1) \/ m \in requested(r)
  PROVE  Concluded(r, m, conclusion(m, r, value), e)
<1> DEFINE concl == conclusion(m, r, value)
           d == r.data
<1>1. concl = measuring(m, d)
  BY DEF conclusion, handle_cast
<1>2. /\ d \in Data /\ index(e + 1) = 0 /\ d.diffusion_round = 0
      /\ d.step = turn(e + 1) % U32 /\ e + 1 \in Int
      /\ d.phi_received = 0 /\ d.moves_received = 0
  BY DEF at, Runtime
<1> HIDE DEF concl, d
<1>3. CASE m \in of_exchange(e + 1)
  <2>1. m = phi((turn(e + 1) * Rounds + 0) % U32)
    BY <1>2, <1>3, Numbers DEF of_exchange
  <2>2. (d.step * Rounds + 0) % U32 = (turn(e + 1) * Rounds + 0) % U32
    BY <1>2, Epochs
  <2>3. d.step * Rounds \in Int
    BY <1>2, Numbers DEF Data, Counter
  <2>4. d.step * Rounds + 0 = d.step * Rounds
    BY <2>3
  <2>5. m.tag = "phi" /\ m.epoch = (d.step * Rounds) % U32
    BY <2>1, <2>2, <2>4 DEF phi
  <2>6. concl = conclude("measuring", d, "postpone")
    BY <1>1, <2>5 DEF measuring
  <2>7. QED
    BY <1>3, <2>6 DEF Concluded, Holds, concl, d
<1>4. CASE m \in requested(r)
  <2>1. PICK b \in {0, 1} : m = phenom_anyon(d.step, b)
    BY <1>4 DEF requested, d
  <2> DEFINE x == xor(d.anyon, b)
  <2>2. x \in {0, 1}
    <3>1. d.anyon \in {0, 1}
      BY <1>2 DEF Data
    <3>2. QED
      BY <3>1 DEF xor
  <2>3. concl = conclude("gathering", [d EXCEPT !.anyon = x], "consume")
    BY <1>1, <2>1 DEF measuring, phenom_anyon
  <2> HIDE DEF x
  <2>4. /\ boundary(r, concl) /\ next_phase(r, concl) = "gathering"
        /\ concl.data = [d EXCEPT !.anyon = x]
        /\ concl.directive = "consume"
    BY <2>3 DEF boundary, next_phase, conclude
  <2>5. concl.data \in Data
    BY <1>2, <2>2, <2>4 DEF Data
  <2> DEFINE t == with_phase(r, concl)
  <2>6. t.phase = "gathering" /\ t.data = concl.data
    BY <2>4, <2>5, Reached DEF Phases
  <2>7. /\ t.data.step = d.step /\ t.data.diffusion_round = 0
        /\ t.data.phi_received = 0 /\ t.data.moves_received = 0
    BY <1>2, <2>4, <2>6 DEF Data
  <2> HIDE DEF t
  <2>8. at(t, e + 1)
    BY <1>2, <2>6, <2>7, Numbers DEF at
  <2>9. consumed(t) = 0
    BY <2>6, <2>7 DEF consumed
  <2>10. QED
    BY <1>4, <2>4, <2>5, <2>8, <2>9
      DEF Concluded, Enters, Completes, concl, t
<1>5. QED
  BY <1>3, <1>4

(* Exchange e + 1, as a cell in exchange e expects it.                     *)
LEMMA Expected ==
  ASSUME NEW e \in Int, NEW m \in of_exchange(e + 1)
  PROVE  /\ index(e) + 1 < Rounds =>
              m = phi((turn(e) * Rounds + index(e) + 1) % U32)
         /\ index(e) + 1 = Rounds =>
              \E p \in Ports, v \in Values : m = phi0(turn(e) % U32, p, v)
         /\ index(e) = Rounds =>
              \E b \in {0, 1} : m = anyon_move(turn(e) % U32, b)
         /\ index(e) = Rounds + 1 =>
              m = phi((turn(e) * Rounds + Rounds) % U32)
<1>1. /\ turn(e) \in Int /\ index(e) \in 0 .. Rounds + 1
      /\ turn(e) * Rounds \in Int
  BY Places, Numbers
<1>2. CASE index(e) < Rounds + 1
  <2>1. index(e + 1) = index(e) + 1 /\ turn(e + 1) = turn(e)
    BY <1>2, NextExchange
  <2>2. turn(e) * Rounds + (index(e) + 1) = turn(e) * Rounds + index(e) + 1
    BY <1>1
  <2>3. index(e) + 1 < Rounds =>
          m = phi((turn(e) * Rounds + index(e) + 1) % U32)
    BY <2>1, <2>2 DEF of_exchange
  <2>4. index(e) + 1 = Rounds =>
          \E p \in Ports, v \in Values : m = phi0(turn(e) % U32, p, v)
    BY <1>1, <2>1, Numbers DEF of_exchange, fields_from
  <2>5. index(e) = Rounds =>
          \E b \in {0, 1} : m = anyon_move(turn(e) % U32, b)
    BY <1>1, <2>1, Numbers DEF of_exchange
  <2>6. QED
    BY <1>1, <1>2, <2>3, <2>4, <2>5
<1>3. CASE index(e) = Rounds + 1
  <2>1. index(e + 1) = 0 /\ turn(e + 1) = turn(e) + 1
    BY <1>3, NextExchange
  <2>2. (turn(e) + 1) * Rounds + 0 = turn(e) * Rounds + Rounds
    <3> DEFINE x == turn(e)
               R == Rounds
    <3>1. x \in Int /\ R \in Int
      BY <1>1, Numbers
    <3> HIDE DEF x, R
    <3>2. (x + 1) * R + 0 = x * R + R
      BY <3>1
    <3>3. QED
      BY <3>2 DEF x, R
  <2>3. m = phi((turn(e) * Rounds + Rounds) % U32)
    BY <2>1, <2>2, Numbers DEF of_exchange
  <2>4. QED
    BY <1>3, <2>3, Numbers
<1>4. QED
  BY <1>1, <1>2, <1>3, Numbers

(* A diffusion round counts a message of each neighbor; with the last one  *)
(* it begins the next round, or the comparison.                            *)
LEMMA Gathering ==
  ASSUME NEW r \in Runtime, NEW e \in Nat, at(r, e),
         r.phase = "gathering", NEW value \in Values, NEW m,
         m \in of_exchange(e + 1) \/ m \in of_exchange(e)
  PROVE  Concluded(r, m, conclusion(m, r, value), e)
<1> DEFINE concl == conclusion(m, r, value)
           d == r.data
           x == turn(e) * Rounds
           n == index(e)
<1>1. concl = gathering(m, d, value)
  BY DEF conclusion, handle_cast
<1>2. /\ d \in Data /\ d.step = turn(e) % U32 /\ d.diffusion_round = n
      /\ n < Rounds /\ d.moves_received = 0
      /\ d.phi_received \in Barrier /\ d.step \in Counter
  BY DEF at, Runtime, Data
<1>3. /\ n \in Nat /\ turn(e) \in Int /\ x \in Int
      /\ e + 1 \in Int /\ e \in Int
  BY Places, Numbers
<1>4. epoch_of(d, 0) = (x + n) % U32 /\ epoch_of(d, 1) = (x + n + 1) % U32
  <2>1. d.step * Rounds \in Int
    BY <1>2, Numbers DEF Counter
  <2>2. /\ ((turn(e) % U32) * Rounds + n) % U32 = (x + n) % U32
        /\ ((turn(e) % U32) * Rounds + (n + 1)) % U32 = (x + (n + 1)) % U32
    BY <1>3, Epochs
  <2> DEFINE y == d.step * Rounds
  <2>3. y + n + 0 = y + n /\ y + n + 1 = y + (n + 1)
        /\ x + n + 1 = x + (n + 1)
    BY <1>3, <2>1
  <2> HIDE DEF x, n, d
  <2>4. QED
    BY <1>2, <2>2, <2>3 DEF epoch_of
<1>5. (x + n + 1) % U32 # (x + n) % U32
  BY <1>3, Epochs
<1>6. value \in Nat
  BY PhiMeshAssumption
<1> HIDE DEF concl, d, x, n
<1>7. ASSUME m \in of_exchange(e + 1)
      PROVE  \/ m.tag = "phi" /\ m.epoch = epoch_of(d, 1)
             \/ m.tag = "phi0" /\ m.step = d.step
  <2>1. CASE n + 1 < Rounds
    BY <1>3, <1>4, <1>7, <2>1, Expected DEF phi, x, n
  <2>2. CASE n + 1 = Rounds
    BY <1>2, <1>3, <1>7, <2>2, Expected DEF phi0, x, n
  <2>3. QED
    BY <1>2, <1>3, <2>1, <2>2, Numbers
<1>8. CASE m \in of_exchange(e + 1)
  <2>1. ~(m.tag = "phi" /\ m.epoch = epoch_of(d, 0))
    BY <1>4, <1>5, <1>7, <1>8
  <2>2. concl = conclude("gathering", d, "postpone")
    BY <1>1, <1>7, <1>8, <2>1 DEF gathering
  <2>3. QED
    BY <1>8, <2>2 DEF Concluded, Holds, concl, d
<1>9. CASE m \in of_exchange(e)
  <2>1. m.tag = "phi" /\ m.epoch = epoch_of(d, 0)
    BY <1>2, <1>4, <1>9 DEF of_exchange, phi, x, n
  <2>2. CASE ~complete(d.phi_received)
    <3>1. concl = conclude("gathering", [d EXCEPT !.phi_received = @ + 1],
                           "consume")
      BY <1>1, <1>4, <1>5, <2>1, <2>2 DEF gathering
    <3>2. /\ concl.data = [d EXCEPT !.phi_received = @ + 1]
          /\ concl.phase = r.phase /\ concl.directive = "consume"
      BY <3>1 DEF conclude
    <3>3. d.phi_received + 1 \in Barrier
      BY <1>2, <2>2, Numbers DEF complete, Barrier
    <3>4. concl.data \in Data
      BY <1>2, <3>2, <3>3 DEF Data
    <3> DEFINE t == with_data(r, concl)
    <3>5. t.phase = "gathering" /\ t.data = concl.data
      <4>1. next_phase(r, concl) \in Phases
        BY <3>2 DEF next_phase, Phases
      <4>2. QED
        BY <3>4, <4>1, Reached
    <3>6. /\ t.data.step = d.step /\ t.data.diffusion_round = n
          /\ t.data.phi_received = d.phi_received + 1
          /\ t.data.moves_received = 0
      BY <1>2, <3>2, <3>5 DEF Data
    <3> HIDE DEF t
    <3>7. at(t, e)
      BY <1>2, <3>5, <3>6 DEF at, n
    <3>8. consumed(t) = consumed(r) + 1
      BY <3>5, <3>6 DEF consumed, d
    <3>9. index(e) # Rounds
      BY <1>2, <1>3, Numbers DEF n
    <3>10. QED
      BY <1>9, <3>2, <3>4, <3>7, <3>8, <3>9
        DEF Concluded, Counts, concl, t
  <2>3. CASE complete(d.phi_received)
    <3> DEFINE v == IF n + 1 = Rounds THEN value ELSE d.phi0
               u == [d EXCEPT !.diffusion_round = n + 1, !.phi_received = 0,
                              !.phi0 = v]
    <3>1. concl = relaxed(d, value)
      BY <1>1, <1>4, <1>5, <2>1, <2>3 DEF gathering
    <3>2. v \in Nat /\ n + 1 \in 0 .. Rounds /\ 0 \in Barrier
      BY <1>2, <1>3, <1>6, Numbers DEF Data, Barrier
    <3>3. Completes(r, m, e)
      BY <1>9, <2>3 DEF Completes, complete, consumed, d
    <3> HIDE DEF v
    <3>4. /\ u \in Data /\ u.step = d.step /\ u.diffusion_round = n + 1
          /\ u.phi_received = 0 /\ u.moves_received = 0 /\ u.phi0 = v
      BY <1>2, <3>2 DEF Data
    <3>5. CASE n + 1 # Rounds
      <4>1. concl = conclude("repeat_phase", u, "consume")
        BY <1>2, <3>1, <3>5 DEF relaxed, v
      <4> HIDE DEF u
      <4>2. /\ boundary(r, concl) /\ next_phase(r, concl) = "gathering"
            /\ concl.data = u /\ concl.directive = "consume"
        BY <4>1 DEF boundary, next_phase, conclude
      <4> DEFINE t == with_phase(r, concl)
      <4>3. t.phase = "gathering" /\ t.data = u
        BY <3>4, <4>2, Reached DEF Phases
      <4> HIDE DEF t
      <4>4. index(e + 1) = n + 1 /\ turn(e + 1) = turn(e) /\ n + 1 < Rounds
        BY <1>2, <1>3, <3>5, NextExchange, Numbers DEF n
      <4>5. at(t, e + 1)
        BY <1>2, <3>4, <4>3, <4>4 DEF at
      <4>6. consumed(t) = 0
        BY <3>4, <4>3 DEF consumed
      <4>7. QED
        BY <3>3, <3>4, <4>2, <4>5, <4>6 DEF Concluded, Enters, concl, t
    <3>6. CASE n + 1 = Rounds
      <4> DEFINE w == [u EXCEPT !.seen_sources = {}, !.best_phi0 = 0,
                                !.best_direction = NoDirection]
      <4>1. concl = conclude("comparing", w, "consume")
        BY <1>2, <3>1, <3>6 DEF relaxed, v
      <4> HIDE DEF u
      <4>2. /\ boundary(r, concl) /\ next_phase(r, concl) = "comparing"
            /\ concl.data = w /\ concl.directive = "consume"
        BY <4>1 DEF boundary, next_phase, conclude
      <4>3. /\ w \in Data /\ w.step = d.step /\ w.diffusion_round = Rounds
            /\ w.phi_received = 0 /\ w.moves_received = 0
            /\ w.seen_sources = {} /\ w.phi0 = u.phi0
        BY <3>4, <3>6 DEF Data
      <4> HIDE DEF w
      <4> DEFINE t == with_phase(r, concl)
      <4>4. t.phase = "comparing" /\ t.data = w
        BY <4>2, <4>3, Reached DEF Phases
      <4> HIDE DEF t
      <4>5. index(e + 1) = Rounds /\ turn(e + 1) = turn(e)
        BY <1>2, <1>3, <3>6, NextExchange, Numbers DEF n
      <4>6. Ports # {}
        BY PhiMeshAssumption
      <4>7. at(t, e + 1)
        BY <1>2, <4>3, <4>4, <4>5, <4>6 DEF at
      <4>8. consumed(t) = 0
        BY <4>3, <4>4, FS_EmptySet DEF consumed
      <4>9. w.phi0 \in Values
        BY <3>4, <3>6, <4>3 DEF v
      <4>10. QED
        BY <3>3, <4>2, <4>3, <4>7, <4>8, <4>9 DEF Concluded, Enters, concl, t
    <3>7. QED
      BY <3>5, <3>6
  <2>4. QED
    BY <2>2, <2>3
<1>10. QED
  BY <1>8, <1>9

(* Each neighbor's field is compared once; the last one decides the flip.  *)
LEMMA Comparing ==
  ASSUME NEW r \in Runtime, NEW e \in Nat, at(r, e),
         r.phase = "comparing", NEW value \in Values, NEW m,
         m \in of_exchange(e + 1) \/ m \in of_exchange(e),
         \A p \in Ports :
           m \in fields_from(e, p) => p \notin r.data.seen_sources
  PROVE  Concluded(r, m, conclusion(m, r, value), e)
<1> DEFINE concl == conclusion(m, r, value)
           d == r.data
<1>1. concl = comparing(m, d)
  BY DEF conclusion, handle_cast
<1>2. /\ d \in Data /\ d.step = turn(e) % U32 /\ d.diffusion_round = Rounds
      /\ index(e) = Rounds /\ d.moves_received = 0 /\ d.phi_received = 0
      /\ d.seen_sources \subseteq Ports
  BY DEF at, Runtime, Data
<1>3. e \in Int /\ e + 1 \in Int
  OBVIOUS
<1>4. /\ IsFiniteSet(d.seen_sources)
      /\ consumed(r) = Cardinality(d.seen_sources)
  BY ConsumedType DEF consumed
<1> HIDE DEF concl, d
<1>5. CASE m \in of_exchange(e + 1)
  <2>1. m.tag = "anyon_move" /\ m.step = d.step
    BY <1>2, <1>3, <1>5, Expected DEF anyon_move
  <2>2. concl = conclude("comparing", d, "postpone")
    BY <1>1, <2>1 DEF comparing
  <2>3. QED
    BY <1>5, <2>2 DEF Concluded, Holds, concl, d
<1>6. CASE m \in of_exchange(e)
  <2>1. m \in UNION {fields_from(e, p) : p \in Ports}
    BY <1>2, <1>6, Numbers DEF of_exchange
  <2>2. PICK p \in Ports : m \in fields_from(e, p)
    BY <2>1
  <2>3. PICK v \in Values : m = phi0(turn(e) % U32, p, v)
    BY <2>2 DEF fields_from
  <2>4. /\ m.tag = "phi0" /\ m.step = d.step /\ m.source = p
        /\ m.value = v /\ v \in Nat
    BY <1>2, <2>3, PhiMeshAssumption DEF phi0
  <2>5. m.source \notin d.seen_sources
    BY <2>2, <2>4 DEF d
  <2> DEFINE u == compared(m, d)
             seen == d.seen_sources \cup {p}
  <2>6. concl = conclude(IF u.seen_sources = Ports THEN "flipping"
                         ELSE "comparing", u, "consume")
    BY <1>1, <2>4, <2>5 DEF comparing, early
  <2>7. /\ u \in Data /\ u.step = d.step /\ u.diffusion_round = Rounds
        /\ u.phi_received = 0 /\ u.moves_received = 0
        /\ u.seen_sources = seen
    BY <1>2, <2>4 DEF compared, Data
  <2>8. Cardinality(seen) = consumed(r) + 1
    <3> DEFINE before == d.seen_sources
    <3>1. IsFiniteSet(before) /\ p \notin before
      BY <1>4, <2>4, <2>5
    <3>2. consumed(r) = Cardinality(before)
      BY <1>4
    <3> HIDE DEF before
    <3>3. Cardinality(before \cup {p}) = Cardinality(before) + 1
      BY ONLY <3>1, FS_AddElement
    <3>4. QED
      BY <3>2, <3>3 DEF before
  <2> HIDE DEF u
  <2>9. CASE seen # Ports
    <3>1. /\ concl.data = u /\ concl.phase = r.phase
          /\ concl.directive = "consume"
      BY <2>6, <2>7, <2>9 DEF conclude
    <3> DEFINE t == with_data(r, concl)
    <3>2. t.phase = "comparing" /\ t.data = u
      <4>1. next_phase(r, concl) \in Phases
        BY <3>1 DEF next_phase, Phases
      <4>2. QED
        BY <2>7, <3>1, <4>1, Reached
    <3> HIDE DEF t, seen
    <3>3. at(t, e)
      BY <1>2, <2>7, <2>9, <3>2 DEF at
    <3>4. consumed(t) = consumed(r) + 1
      BY <2>7, <2>8, <3>2 DEF consumed
    <3>5. QED
      BY <1>6, <2>2, <2>7, <3>1, <3>3, <3>4
        DEF Concluded, Counts, concl, t, d, seen
  <2>10. CASE seen = Ports
    <3>1. /\ boundary(r, concl) /\ next_phase(r, concl) = "flipping"
          /\ concl.data = u /\ concl.directive = "consume"
      BY <2>6, <2>7, <2>10 DEF conclude, boundary, next_phase
    <3> DEFINE t == with_phase(r, concl)
    <3>2. t.phase = "flipping" /\ t.data = u
      BY <2>7, <3>1, Reached DEF Phases
    <3> HIDE DEF t, seen
    <3>3. index(e + 1) = Rounds + 1 /\ turn(e + 1) = turn(e)
      BY <1>2, <1>3, NextExchange, Numbers
    <3>4. at(t, e + 1)
      BY <1>2, <2>7, <3>2, <3>3 DEF at
    <3>5. consumed(t) = 0
      BY <2>7, <3>2 DEF consumed
    <3>6. Completes(r, m, e)
      BY <1>6, <2>8, <2>10 DEF Completes, NeighborCount
    <3>7. QED
      BY <2>7, <3>1, <3>4, <3>5, <3>6 DEF Concluded, Enters, concl, t
  <2>11. QED
    BY <2>9, <2>10
<1>7. QED
  BY <1>5, <1>6

(* Each neighbor's move is counted; with the last one the cell measures    *)
(* again, in the next step.                                                *)
LEMMA Flipping ==
  ASSUME NEW r \in Runtime, NEW e \in Nat, at(r, e),
         r.phase = "flipping", NEW value \in Values, NEW m,
         m \in of_exchange(e + 1) \/ m \in of_exchange(e)
  PROVE  Concluded(r, m, conclusion(m, r, value), e)
<1> DEFINE concl == conclusion(m, r, value)
           d == r.data
<1>1. concl = flipping(m, d)
  BY DEF conclusion, handle_cast
<1>2. /\ d \in Data /\ d.step = turn(e) % U32 /\ d.diffusion_round = Rounds
      /\ index(e) = Rounds + 1 /\ d.phi_received = 0
      /\ d.moves_received \in Barrier /\ d.step \in Counter
      /\ d.anyon \in {0, 1}
  BY DEF at, Runtime, Data
<1>3. e \in Int /\ e + 1 \in Int /\ turn(e) \in Int
  BY Places
<1> HIDE DEF concl, d
<1>4. CASE m \in of_exchange(e + 1)
  <2>1. epoch_of(d, 0) = (turn(e) * Rounds + Rounds) % U32
    <3>1. ((turn(e) % U32) * Rounds + Rounds) % U32
            = (turn(e) * Rounds + Rounds) % U32
      BY <1>3, Numbers, Epochs
    <3> DEFINE y == d.step * Rounds + Rounds
    <3>2. y \in Int
      BY <1>2, Numbers DEF Counter
    <3>3. y + 0 = y
      BY <3>2
    <3>4. QED
      BY <1>2, <3>1, <3>3 DEF epoch_of
  <2>2. m.tag = "phi" /\ m.epoch = epoch_of(d, 0)
    BY <1>2, <1>3, <1>4, <2>1, Expected DEF phi
  <2>3. concl = conclude("flipping", d, "postpone")
    BY <1>1, <2>2 DEF flipping, early
  <2>4. QED
    BY <1>4, <2>3 DEF Concluded, Holds, concl, d
<1>5. CASE m \in of_exchange(e)
  <2>1. PICK b \in {0, 1} : m = anyon_move(turn(e) % U32, b)
    BY <1>2, <1>5, Numbers DEF of_exchange
  <2>2. m.tag = "anyon_move" /\ m.step = d.step /\ m.present = b
    BY <1>2, <2>1 DEF anyon_move
  <2> DEFINE x == xor(d.anyon, b)
  <2>3. x \in {0, 1}
    BY <1>2 DEF xor
  <2> HIDE DEF x
  <2>4. CASE ~all_moved(d)
    <3> DEFINE u == [d EXCEPT !.anyon = x, !.moves_received = @ + 1]
    <3>1. concl = conclude("flipping", u, "consume")
      BY <1>1, <2>2, <2>4 DEF flipping, early, x
    <3>2. d.moves_received + 1 \in Barrier
      BY <1>2, <2>4, Numbers DEF all_moved, complete, Barrier
    <3>3. /\ u \in Data /\ u.step = d.step /\ u.diffusion_round = Rounds
          /\ u.phi_received = 0 /\ u.moves_received = d.moves_received + 1
      BY <1>2, <2>3, <3>2 DEF Data
    <3> HIDE DEF u
    <3>4. /\ concl.data = u /\ concl.phase = r.phase
          /\ concl.directive = "consume"
      BY <3>1 DEF conclude
    <3> DEFINE t == with_data(r, concl)
    <3>5. t.phase = "flipping" /\ t.data = u
      <4>1. next_phase(r, concl) \in Phases
        BY <3>4 DEF next_phase, Phases
      <4>2. QED
        BY <3>3, <3>4, <4>1, Reached
    <3> HIDE DEF t
    <3>6. at(t, e)
      BY <1>2, <3>3, <3>5 DEF at
    <3>7. consumed(t) = consumed(r) + 1
      BY <3>3, <3>5 DEF consumed, d
    <3>8. index(e) # Rounds
      BY <1>2, Numbers
    <3>9. QED
      BY <1>5, <3>3, <3>4, <3>6, <3>7, <3>8
        DEF Concluded, Counts, concl, t
  <2>5. CASE all_moved(d)
    <3> DEFINE u == [d EXCEPT !.anyon = x, !.step = next_step(d),
                              !.diffusion_round = 0, !.moves_received = 0]
    <3>1. concl = conclude("measuring", u, "consume")
      <4> DEFINE j == [d EXCEPT !.anyon = x]
      <4>1. j.step = d.step /\ j.moves_received = d.moves_received
        BY <1>2 DEF Data
      <4>2. u = [j EXCEPT !.step = next_step(d), !.diffusion_round = 0,
                          !.moves_received = 0]
        BY <1>2 DEF Data
      <4>3. QED
        BY <1>1, <2>2, <2>5, <4>2 DEF flipping, early, x
    <3>2. next_step(d) = turn(e + 1) % U32 /\ next_step(d) \in Counter
      <4>1. turn(e + 1) = turn(e) + 1
        BY <1>2, <1>3, NextExchange
      <4>2. ((turn(e) % U32) + 1) % U32 = (turn(e) + 1) % U32
        BY <1>3, Numbers, Epochs
      <4>3. turn(e + 1) % U32 \in Counter
        BY <1>3, Numbers, Epochs
      <4>4. QED
        BY <1>2, <4>1, <4>2, <4>3 DEF next_step
    <3> DEFINE y == next_step(d)
    <3> HIDE DEF y
    <3>3. 0 \in Barrier /\ 0 \in 0 .. Rounds
      BY Numbers DEF Barrier
    <3>4. /\ u \in Data /\ u.step = turn(e + 1) % U32
          /\ u.diffusion_round = 0
          /\ u.phi_received = 0 /\ u.moves_received = 0
      BY <1>2, <2>3, <3>2, <3>3 DEF Data
    <3> HIDE DEF u
    <3>5. /\ boundary(r, concl) /\ next_phase(r, concl) = "measuring"
          /\ concl.data = u /\ concl.directive = "consume"
      BY <3>1 DEF boundary, next_phase, conclude
    <3> DEFINE t == with_phase(r, concl)
    <3>6. t.phase = "measuring" /\ t.data = u
      BY <3>4, <3>5, Reached DEF Phases
    <3> HIDE DEF t
    <3>7. index(e + 1) = 0
      BY <1>2, <1>3, NextExchange
    <3>8. at(t, e)
      BY <3>4, <3>6, <3>7 DEF at
    <3>9. Completes(r, m, e)
      BY <1>5, <2>5 DEF Completes, all_moved, complete, consumed, d
    <3>10. QED
      BY <3>4, <3>5, <3>8, <3>9 DEF Concluded, Measures, concl, t
  <2>6. QED
    BY <2>4, <2>5
<1>6. QED
  BY <1>4, <1>5

(* Every message a cell meets has one of the four outcomes; none fails.    *)
LEMMA EveryConclusion ==
  ASSUME NEW h \in [Cells -> Nat], NEW c \in Cells,
         NEW r \in Runtime, NEW l \in Inbound, CellInv(c, r, l, h),
         NEW k \in DOMAIN r.mailbox, NEW m, m = r.mailbox[k].message,
         NEW value \in Values
  PROVE  Concluded(r, m, conclusion(m, r, value), h[c])
<1>1. at(r, h[c]) /\ h[c] \in Nat
  BY DEF CellInv
<1>2. /\ \/ m \in of_exchange(h[c] + 1)
         \/ m \in requested(r)
         \/ /\ m \in of_exchange(h[c])
            /\ r.phase \notin {"configuring", "measuring"}
      /\ index(h[c]) = Rounds =>
           \A p \in Ports :
             m \in fields_from(h[c], p) => p \notin r.data.seen_sources
  BY Nearby
<1>3. r.phase \notin {"configuring", "measuring"} => requested(r) = {}
  BY <1>1, RequestedApart
<1>4. r.phase \in Phases
  BY DEF Runtime
<1>5. CASE r.phase = "configuring"
  BY <1>1, <1>2, <1>5, Configuring
<1>6. CASE r.phase = "measuring"
  BY <1>1, <1>2, <1>6, Measuring
<1>7. CASE r.phase = "gathering"
  BY <1>1, <1>2, <1>3, <1>7, Gathering
<1>8. CASE r.phase = "comparing"
  <2>1. index(h[c]) = Rounds
    BY <1>1, <1>8 DEF at
  <2>2. QED
    BY <1>1, <1>2, <1>3, <1>8, <2>1, Comparing
<1>9. CASE r.phase = "flipping"
  BY <1>1, <1>2, <1>3, <1>9, Flipping
<1>10. QED
  BY <1>4, <1>5, <1>6, <1>7, <1>8, <1>9 DEF Phases
-----------------------------------------------------------------------------
(* What a turn does to the mesh.                                           *)
(* A cell that begins an exchange, and tells its neighbors.                *)
LEMMA ExchangeBegins ==
  ASSUME NEW R, NEW L, NEW h, Fits(R, L, h), NEW c \in Cells,
         NEW q \in Seq(Entry), OnlyNext(c, L[c], q, h),
         NEW t \in Runtime, t.mailbox = released(q),
         t.lifecycle = "connected",
         t.phase \in {"gathering", "comparing", "flipping"},
         at(t, h[c] + 1), consumed(t) = 0,
         t.phase = "comparing" => t.data.seen_sources = {},
         NEW casts \in [Ports -> Message],
         \A p \in Ports :
           /\ casts[p] \in of_exchange(h[c] + 1)
           /\ index(h[c] + 1) = Rounds =>
                casts[p] \in fields_from(h[c] + 1, opposite[p])
  PROVE  Fits([R EXCEPT ![c] = t], cast_all(L, c, casts), entering(h, c))
<1> DEFINE g == entering(h, c)
           K == cast_all(L, c, casts)
           T == [R EXCEPT ![c] = t]
<1>1. /\ h \in [Cells -> Nat] /\ R \in [Cells -> Runtime]
      /\ L \in [Cells -> Inbound] /\ Lockstep(h)
      /\ \A d \in Cells : CellInv(d, R[d], L[d], h)
  BY DEF Fits
<1>2. /\ g \in [Cells -> Nat] /\ g[c] = h[c] + 1
      /\ \A d \in Cells \ {c} : g[d] = h[d]
  BY <1>1 DEF entering
<1>3. /\ T \in [Cells -> Runtime] /\ T[c] = t
      /\ \A d \in Cells \ {c} : T[d] = R[d]
  BY <1>1
<1>4. /\ K \in [Cells -> Inbound]
      /\ \A p \in Ports :
           K[neighbor[c][p]]
             = [L[neighbor[c][p]] EXCEPT ![c] = Append(@, casts[p])]
      /\ \A d \in Cells :
           (\A p \in Ports : neighbor[c][p] # d) => K[d] = L[d]
  <2>1. \A p \in Ports :
          K[neighbor[c][p]] = with_cast(L[neighbor[c][p]], c, casts[p])
    BY <1>1, Casting
  <2>2. /\ K \in [Cells -> Inbound]
        /\ \A d \in Cells :
             (\A p \in Ports : neighbor[c][p] # d) => K[d] = L[d]
    BY <1>1, Casting
  <2> HIDE DEF K
  <2>3. QED
    BY <2>1, <2>2 DEF with_cast
<1> HIDE DEF T, K
<1>5. \A p \in Ports : h[neighbor[c][p]] \in {h[c], h[c] + 1}
  <2>1. there(c, h[c], h) = Ports
    BY DEF OnlyNext
  <2>2. \A p \in Ports : h[neighbor[c][p]] >= h[c]
    BY <2>1 DEF there
  <2>3. \A p \in Ports : h[neighbor[c][p]] \in Nat /\ h[c] \in Nat
                           /\ h[neighbor[c][p]] <= h[c] + 1
    BY <1>1, Edges DEF Lockstep
  <2>4. QED
    BY <2>2, <2>3
<1>6. Lockstep(g)
  <2> SUFFICES ASSUME NEW d \in Cells, NEW p \in Ports
               PROVE  g[neighbor[d][p]] <= g[d] + 1
    BY DEF Lockstep
  <2>1. /\ neighbor[d][p] \in Cells /\ neighbor[d][p] # d
        /\ opposite[p] \in Ports
        /\ neighbor[neighbor[d][p]][opposite[p]] = d
    BY Edges
  <2>2. h[neighbor[d][p]] <= h[d] + 1 /\ h[d] \in Nat
          /\ h[neighbor[d][p]] \in Nat
    BY <1>1, <2>1 DEF Lockstep
  <2> HIDE DEF g
  <2>3. CASE neighbor[d][p] = c
    <3>1. h[d] \in {h[c], h[c] + 1}
      BY <1>5, <2>1, <2>3
    <3>2. g[neighbor[d][p]] = h[c] + 1 /\ g[d] = h[d] /\ h[c] \in Nat
      BY <1>1, <1>2, <2>1, <2>3
    <3>3. QED
      BY <2>2, <3>1, <3>2
  <2>4. CASE neighbor[d][p] # c
    <3>1. g[neighbor[d][p]] = h[neighbor[d][p]] /\ g[d] \in {h[d], h[d] + 1}
      BY <1>2, <2>1, <2>4
    <3>2. QED
      BY <2>2, <3>1
  <2>5. QED
    BY <2>3, <2>4
<1>7. CellInv(c, t, K[c], g)
  <2>1. \A p \in Ports : neighbor[c][p] # c
    BY Edges
  <2>2. K[c] = L[c] /\ L[c] \in Inbound
    BY <1>1, <1>4, <2>1
  <2>3. QED
    BY <1>1, <2>2, CellEnters
<1>8. ASSUME NEW p \in Ports
      PROVE  CellInv(neighbor[c][p], R[neighbor[c][p]], K[neighbor[c][p]], g)
  <2>1. /\ neighbor[c][p] \in Cells
        /\ casts[p] \in of_exchange(h[c] + 1)
        /\ index(h[c] + 1) = Rounds =>
             casts[p] \in fields_from(h[c] + 1, opposite[p])
    BY Edges
  <2>2. R[neighbor[c][p]] \in Runtime /\ L[neighbor[c][p]] \in Inbound
          /\ CellInv(neighbor[c][p], R[neighbor[c][p]], L[neighbor[c][p]], h)
    BY <1>1, <2>1
  <2> DEFINE d == neighbor[c][p]
             m == casts[p]
             r == R[d]
             l == L[d]
  <2>3. d = neighbor[c][p] /\ h[d] \in {h[c], h[c] + 1}
    BY <1>5
  <2>4. K[d] = [l EXCEPT ![c] = Append(@, m)]
    BY <1>4
  <2> HIDE DEF d, m, r, l, g
  <2>5. CellInv(d, r, [l EXCEPT ![c] = Append(@, m)], entering(h, c))
    BY <1>1, <2>1, <2>2, <2>3, NeighborHears DEF d, m, r, l
  <2>6. QED
    BY <2>4, <2>5 DEF d, r, g
<1>9. ASSUME NEW d \in Cells, d # c, \A p \in Ports : neighbor[c][p] # d
      PROVE  CellInv(d, R[d], K[d], g)
  <2>1. \A p \in Ports : neighbor[d][p] # c
    BY <1>9, Edges
  <2>2. K[d] = L[d] /\ R[d] \in Runtime /\ L[d] \in Inbound
          /\ CellInv(d, R[d], L[d], h)
    BY <1>1, <1>4, <1>9
  <2>3. QED
    BY <1>1, <1>9, <2>1, <2>2, Unmoved
<1> HIDE DEF g
<1>10. \A d \in Cells : CellInv(d, T[d], K[d], g)
  <2> SUFFICES ASSUME NEW d \in Cells
               PROVE  CellInv(d, T[d], K[d], g)
    OBVIOUS
  <2>1. CASE d = c
    BY <1>3, <1>7, <2>1
  <2>2. CASE d # c /\ \E p \in Ports : neighbor[c][p] = d
    BY <1>3, <1>8, <2>2
  <2>3. CASE d # c /\ \A p \in Ports : neighbor[c][p] # d
    BY <1>3, <1>9, <2>3
  <2>4. QED
    BY <2>1, <2>2, <2>3
<1>11. QED
  BY <1>2, <1>3, <1>4, <1>6, <1>10 DEF Fits, T, K, g

(* A turn that only one cell notices.                                      *)
LEMMA OneCellMoves ==
  ASSUME NEW R, NEW L, NEW h, Fits(R, L, h), NEW c \in Cells,
         NEW t \in Runtime, NEW l \in Inbound, CellInv(c, t, l, h)
  PROVE  Fits([R EXCEPT ![c] = t], [L EXCEPT ![c] = l], h)
<1>1. /\ h \in [Cells -> Nat] /\ R \in [Cells -> Runtime]
      /\ L \in [Cells -> Inbound] /\ Lockstep(h)
      /\ \A d \in Cells : CellInv(d, R[d], L[d], h)
  BY DEF Fits
<1> DEFINE T == [R EXCEPT ![c] = t]
           K == [L EXCEPT ![c] = l]
<1>2. /\ T \in [Cells -> Runtime] /\ K \in [Cells -> Inbound]
      /\ T[c] = t /\ K[c] = l
      /\ \A d \in Cells \ {c} : T[d] = R[d] /\ K[d] = L[d]
  BY <1>1
<1> HIDE DEF T, K
<1>3. \A d \in Cells : CellInv(d, T[d], K[d], h)
  BY <1>1, <1>2
<1>4. QED
  BY <1>1, <1>2, <1>3 DEF Fits, T, K

(* A place in the loop is a matter of the phase and of the data; anyons do *)
(* not matter to it.                                                       *)
LEMMA SamePlace ==
  ASSUME NEW r, NEW t, t.phase = r.phase, r.data \in Data,
         NEW x, t.data = r.data \/ t.data = [r.data EXCEPT !.anyon = x]
  PROVE  /\ \A e : at(t, e) <=> at(r, e)
         /\ consumed(t) = consumed(r)
         /\ t.data.seen_sources = r.data.seen_sources
<1>1. /\ t.data.step = r.data.step
      /\ t.data.diffusion_round = r.data.diffusion_round
      /\ t.data.phi_received = r.data.phi_received
      /\ t.data.seen_sources = r.data.seen_sources
      /\ t.data.moves_received = r.data.moves_received
  BY DEF Data
<1>2. QED
  BY <1>1 DEF at, consumed

(* The runtime after a message that its phase has taken, or held back.     *)
LEMMA TurnWithin ==
  ASSUME NEW h \in [Cells -> Nat], NEW c \in Cells,
         NEW r \in Runtime, r.lifecycle = "connected",
         NEW l \in Inbound, CellInv(c, r, l, h),
         NEW k \in DOMAIN r.mailbox, NEW m, m = r.mailbox[k].message,
         NEW concl, Holds(r, m, concl, h[c]) \/ Counts(r, m, concl, h[c])
  PROVE  /\ ~boundary(r, concl)
         /\ process_message(r, k, concl, concl.data) \in Runtime
         /\ CellInv(c, process_message(r, k, concl, concl.data), l, h)
<1> DEFINE t == process_message(r, k, concl, concl.data)
<1>1. r.phase \in Phases /\ r.data \in Data /\ r.mailbox \in Seq(Entry)
  BY DEF Runtime
<1>2. concl.phase = r.phase
  BY DEF Holds, Counts, conclude
<1>3. ~boundary(r, concl)
  BY <1>1, <1>2 DEF boundary, Phases
<1>4. CASE Holds(r, m, concl, h[c])
  <2>1. concl.directive = "postpone" /\ concl.data = r.data
    BY <1>4 DEF Holds, conclude
  <2>2. t = [r EXCEPT !.mailbox = held_back(@, k)]
    BY <1>3, <2>1 DEF process_message, settled, held_back, Runtime
  <2>3. m \in of_exchange(h[c] + 1)
    BY <1>4 DEF Holds
  <2> HIDE DEF t
  <2>4. t \in Runtime /\ CellInv(c, t, l, h)
    BY <2>2, <2>3, CellHoldsBack
  <2>5. QED
    BY <1>3, <2>4 DEF t
<1>5. CASE Counts(r, m, concl, h[c])
  <2>1. /\ concl.directive = "consume" /\ concl.data \in Data
        /\ m \in of_exchange(h[c])
        /\ r.phase \notin {"configuring", "measuring"}
        /\ at(with_data(r, concl), h[c])
        /\ consumed(with_data(r, concl)) = consumed(r) + 1
        /\ index(h[c]) = Rounds =>
             \E p \in Ports :
               /\ m \in fields_from(h[c], p)
               /\ concl.data.seen_sources = r.data.seen_sources \cup {p}
    BY <1>5 DEF Counts
  <2> DEFINE s == RemoveAt(r.mailbox, k)
  <2>2. s \in Seq(Entry)
    BY <1>1, RemoveAtElements
  <2>3. t = [r EXCEPT !.data = concl.data, !.mailbox = s]
    BY <1>3, <2>1 DEF process_message, settled
  <2> HIDE DEF t, s
  <2>4. /\ t \in Runtime /\ t.mailbox = s /\ t.phase = r.phase
        /\ t.data = concl.data /\ t.lifecycle = "connected"
    BY <1>1, <2>1, <2>2, <2>3 DEF Runtime
  <2>5. with_data(r, concl).phase = r.phase
          /\ with_data(r, concl).data = concl.data
    BY DEF with_data, Runtime
  <2>6. at(t, h[c]) /\ consumed(t) = consumed(r) + 1
    BY <2>1, <2>4, <2>5, SamePlace
  <2>7. CellInv(c, t, l, h)
    BY <2>1, <2>4, <2>6, CellCounts DEF s
  <2>8. QED
    BY <1>3, <2>4, <2>7 DEF t
<1>6. QED
  BY <1>4, <1>5

(* What handle_enter/3 leaves of the data of a conclusion: an anyon may    *)
(* have left with the flip.                                                *)
entered_data(concl) == {concl.data, departed(concl.data, TRUE)}

(* The runtime after a message that its phase ends with.                   *)
LEMMA TurnAcross ==
  ASSUME NEW h \in [Cells -> Nat], NEW c \in Cells,
         NEW r \in Runtime, r.lifecycle = "connected",
         NEW l \in Inbound, CellInv(c, r, l, h),
         NEW k \in DOMAIN r.mailbox, NEW m, m = r.mailbox[k].message,
         NEW concl, concl.directive = "consume", boundary(r, concl),
         concl.data \in Data, next_phase(r, concl) \in Phases,
         Completes(r, m, h[c]),
         NEW d \in entered_data(concl)
  PROVE  /\ RemoveAt(r.mailbox, k) \in Seq(Entry)
         /\ OnlyNext(c, l, RemoveAt(r.mailbox, k), h)
         /\ process_message(r, k, concl, d) \in Runtime
         /\ process_message(r, k, concl, d).mailbox
              = released(RemoveAt(r.mailbox, k))
         /\ process_message(r, k, concl, d).lifecycle = "connected"
         /\ process_message(r, k, concl, d).phase = next_phase(r, concl)
         /\ process_message(r, k, concl, d).data = d
         /\ \A e : at(process_message(r, k, concl, d), e)
                     <=> at(with_phase(r, concl), e)
         /\ consumed(process_message(r, k, concl, d))
              = consumed(with_phase(r, concl))
<1> DEFINE x == xor(concl.data.anyon, 1)
           s == RemoveAt(r.mailbox, k)
           p == next_phase(r, concl)
           t == process_message(r, k, concl, d)
<1>1. s \in Seq(Entry) /\ OnlyNext(c, l, s, h)
  BY BarrierEnds DEF Completes
<1>2. released(s) \in Seq(Entry)
  BY <1>1, Released
<1>3. /\ d \in Data
      /\ d = concl.data \/ d = [concl.data EXCEPT !.anyon = x]
  <2>1. x \in {0, 1}
    BY DEF xor, Data
  <2>2. d = concl.data \/ d = [concl.data EXCEPT !.anyon = x]
    BY DEF departed, entered_data
  <2> HIDE DEF x
  <2>3. QED
    BY <2>1, <2>2 DEF Data
<1> HIDE DEF p, s, x
<1>4. t = [r EXCEPT !.phase = p, !.data = d, !.mailbox = released(s)]
  BY DEF process_message, settled, p, s
<1>5. p \in Phases
  BY DEF p
<1> HIDE DEF t
<1>6. /\ t \in Runtime /\ t.mailbox = released(s) /\ t.phase = p
      /\ t.data = d /\ t.lifecycle = "connected"
  BY <1>2, <1>3, <1>4, <1>5 DEF Runtime
<1> DEFINE w == with_phase(r, concl)
<1>7. w.phase = p /\ w.data = concl.data
  BY Reached DEF p
<1> HIDE DEF w
<1>8. (\A e : at(t, e) <=> at(w, e)) /\ consumed(t) = consumed(w)
  <2>1. /\ t.phase = w.phase /\ w.data \in Data
        /\ t.data = w.data \/ t.data = [w.data EXCEPT !.anyon = x]
    BY <1>3, <1>6, <1>7
  <2>2. QED
    BY <2>1, SamePlace
<1>9. QED
  BY <1>1, <1>6, <1>8 DEF t, s, p, w

(* What a cell casts when it begins an exchange is of that exchange.       *)
LEMMA CastsOfExchange ==
  ASSUME NEW t \in Runtime, NEW e \in Int, at(t, e), NEW p \in Ports
  PROVE  /\ t.phase = "gathering" =>
              /\ phi(epoch_of(t.data, 0)) \in of_exchange(e)
              /\ index(e) # Rounds
         /\ t.phase = "comparing" /\ t.data.phi0 \in Values =>
              /\ phi0(t.data.step, p, t.data.phi0) \in of_exchange(e)
              /\ phi0(t.data.step, p, t.data.phi0) \in fields_from(e, p)
         /\ t.phase = "flipping" =>
              /\ \A b \in {0, 1} :
                   anyon_move(t.data.step, b) \in of_exchange(e)
              /\ index(e) # Rounds
<1>1. t.data \in Data /\ index(e) \in 0 .. Rounds + 1 /\ turn(e) \in Int
  BY Places DEF Runtime
<1>2. ASSUME t.phase = "gathering"
      PROVE  phi(epoch_of(t.data, 0)) \in of_exchange(e) /\ index(e) # Rounds
  <2> DEFINE n == index(e)
  <2>1. /\ t.data.step = turn(e) % U32 /\ t.data.diffusion_round = n
        /\ n < Rounds /\ n \in Nat /\ t.data.step \in Counter
    BY <1>1, <1>2 DEF at, Data
  <2>2. ((turn(e) % U32) * Rounds + n) % U32 = (turn(e) * Rounds + n) % U32
    BY <1>1, <2>1, Epochs
  <2> DEFINE y == t.data.step * Rounds + n
  <2>3. y \in Int
    BY <2>1, Numbers DEF Counter
  <2>4. y + 0 = y
    BY <2>3
  <2> HIDE DEF n
  <2>5. epoch_of(t.data, 0) = (turn(e) * Rounds + n) % U32
    BY <2>1, <2>2, <2>4 DEF epoch_of
  <2>6. QED
    BY <2>1, <2>5, Numbers DEF of_exchange, n
<1>3. ASSUME t.phase = "comparing", t.data.phi0 \in Values
      PROVE  /\ phi0(t.data.step, p, t.data.phi0) \in of_exchange(e)
             /\ phi0(t.data.step, p, t.data.phi0) \in fields_from(e, p)
  <2>1. index(e) = Rounds /\ t.data.step = turn(e) % U32
    BY <1>3 DEF at
  <2>2. phi0(t.data.step, p, t.data.phi0) \in fields_from(e, p)
    BY <1>3, <2>1 DEF fields_from
  <2>3. QED
    BY <2>1, <2>2, FieldsApart
<1>4. ASSUME t.phase = "flipping"
      PROVE  /\ \A b \in {0, 1} :
                  anyon_move(t.data.step, b) \in of_exchange(e)
             /\ index(e) # Rounds
  <2>1. index(e) = Rounds + 1 /\ t.data.step = turn(e) % U32
    BY <1>4 DEF at
  <2>2. QED
    BY <2>1, Numbers DEF of_exchange
<1>5. QED
  BY <1>2, <1>3, <1>4

(* A turn in which a cell begins an exchange with these casts.             *)
LEMMA TurnBegins ==
  ASSUME NEW c \in Cells, NEW r \in Runtime, r.lifecycle = "connected",
         rt \in [Cells -> Runtime], NEW L, NEW h,
         Fits([rt EXCEPT ![c] = r], L, h),
         NEW k \in DOMAIN r.mailbox, NEW m, m = r.mailbox[k].message,
         NEW concl, Enters(r, m, concl, h[c]),
         NEW d \in entered_data(concl),
         rt' = [rt EXCEPT ![c] = process_message(r, k, concl, d)],
         NEW casts \in [Ports -> Message], link' = cast_all(L, c, casts),
         \A p \in Ports :
           /\ casts[p] \in of_exchange(h[c] + 1)
           /\ index(h[c] + 1) = Rounds =>
                casts[p] \in fields_from(h[c] + 1, opposite[p])
  PROVE  Fits(rt', link', entering(h, c))
<1> DEFINE R == [rt EXCEPT ![c] = r]
           t == process_message(r, k, concl, d)
           q == RemoveAt(r.mailbox, k)
<1>1. /\ h \in [Cells -> Nat] /\ L[c] \in Inbound
      /\ CellInv(c, r, L[c], h)
  BY DEF Fits
<1>2. /\ concl.directive = "consume" /\ boundary(r, concl)
      /\ concl.data \in Data
      /\ next_phase(r, concl) \in {"gathering", "comparing", "flipping"}
      /\ Completes(r, m, h[c])
      /\ at(with_phase(r, concl), h[c] + 1)
      /\ consumed(with_phase(r, concl)) = 0
      /\ next_phase(r, concl) = "comparing" => concl.data.seen_sources = {}
  BY DEF Enters
<1>3. next_phase(r, concl) \in Phases
  BY <1>2 DEF Phases
<1>4. /\ q \in Seq(Entry) /\ OnlyNext(c, L[c], q, h)
      /\ t \in Runtime /\ t.mailbox = released(q)
      /\ t.lifecycle = "connected" /\ t.phase = next_phase(r, concl)
      /\ t.data = d
      /\ \A e : at(t, e) <=> at(with_phase(r, concl), e)
      /\ consumed(t) = consumed(with_phase(r, concl))
  <2> DEFINE l == L[c]
  <2>1. /\ h \in [Cells -> Nat] /\ c \in Cells
        /\ r \in Runtime /\ r.lifecycle = "connected"
        /\ l \in Inbound /\ CellInv(c, r, l, h)
        /\ k \in DOMAIN r.mailbox /\ m = r.mailbox[k].message
        /\ concl.directive = "consume" /\ boundary(r, concl)
        /\ concl.data \in Data /\ next_phase(r, concl) \in Phases
        /\ Completes(r, m, h[c]) /\ d \in entered_data(concl)
    BY <1>1, <1>2, <1>3
  <2> HIDE DEF l
  <2>2. /\ q \in Seq(Entry) /\ OnlyNext(c, l, q, h)
        /\ t \in Runtime /\ t.mailbox = released(q)
        /\ t.lifecycle = "connected" /\ t.phase = next_phase(r, concl)
        /\ t.data = d
        /\ \A e : at(t, e) <=> at(with_phase(r, concl), e)
        /\ consumed(t) = consumed(with_phase(r, concl))
    BY ONLY <2>1, TurnAcross DEF t, q
  <2>3. QED
    BY <2>2 DEF l
<1> HIDE DEF t, q
<1>5. /\ t.phase \in {"gathering", "comparing", "flipping"}
      /\ at(t, h[c] + 1) /\ consumed(t) = 0
      /\ t.phase = "comparing" => t.data.seen_sources = {}
  <2>1. d.seen_sources = concl.data.seen_sources
    BY <1>2 DEF entered_data, departed, Data
  <2>2. QED
    BY <1>2, <1>4, <2>1
<1>6. Fits(R, L, h)
  BY SMTT(60)
<1>7. rt' = [R EXCEPT ![c] = t]
  BY DEF t
<1> HIDE DEF R
<1>8. Fits([R EXCEPT ![c] = t], cast_all(L, c, casts), entering(h, c))
  BY <1>4, <1>5, <1>6, ExchangeBegins
<1>9. QED
  BY <1>7, <1>8

(* A turn in which a cell asks for a measurement, and is answered.         *)
LEMMA TurnMeasures ==
  ASSUME NEW c \in Cells, NEW r \in Runtime, r.lifecycle = "connected",
         rt \in [Cells -> Runtime], NEW L, NEW h,
         Fits([rt EXCEPT ![c] = r], L, h),
         NEW k \in DOMAIN r.mailbox, NEW m, m = r.mailbox[k].message,
         NEW concl, Measures(r, m, concl, h[c]), NEW b \in {0, 1},
         rt' = [rt EXCEPT ![c] = process_message(r, k, concl, concl.data)],
         link' = [L EXCEPT ![c]["syndrome"] =
                    Append(@, phenom_anyon(concl.data.step, b))]
  PROVE  Fits(rt', link', h)
<1> DEFINE R == [rt EXCEPT ![c] = r]
           d == concl.data
           t == process_message(r, k, concl, d)
           q == RemoveAt(r.mailbox, k)
           l == L[c]
           y == phenom_anyon(d.step, b)
           n == [l EXCEPT !["syndrome"] = Append(@, y)]
<1>1. /\ h \in [Cells -> Nat] /\ l \in Inbound /\ CellInv(c, r, l, h)
      /\ L \in [Cells -> Inbound]
  BY DEF Fits
<1>2. /\ concl.directive = "consume" /\ boundary(r, concl)
      /\ concl.data \in Data
      /\ next_phase(r, concl) = "measuring"
      /\ Completes(r, m, h[c])
      /\ at(with_phase(r, concl), h[c])
  BY DEF Measures
<1>3. next_phase(r, concl) \in Phases /\ d \in entered_data(concl)
  BY <1>2 DEF Phases, entered_data
<1> HIDE DEF l, d
<1>4. /\ h \in [Cells -> Nat] /\ c \in Cells
      /\ r \in Runtime /\ r.lifecycle = "connected"
      /\ l \in Inbound /\ CellInv(c, r, l, h)
      /\ k \in DOMAIN r.mailbox /\ m = r.mailbox[k].message
      /\ concl.directive = "consume" /\ boundary(r, concl)
      /\ concl.data \in Data /\ next_phase(r, concl) \in Phases
      /\ Completes(r, m, h[c]) /\ d \in entered_data(concl)
  BY <1>1, <1>2, <1>3
<1>5. /\ q \in Seq(Entry) /\ OnlyNext(c, l, q, h)
      /\ t \in Runtime /\ t.mailbox = released(q)
      /\ t.lifecycle = "connected" /\ t.phase = next_phase(r, concl)
      /\ t.data = d
      /\ \A e : at(t, e) <=> at(with_phase(r, concl), e)
  BY ONLY <1>4, TurnAcross DEF t, q
<1>6. t.phase = "measuring" /\ at(t, h[c])
  BY <1>2, <1>5
<1>7. y = phenom_anyon(t.data.step, b)
  BY <1>5
<1>8. n \in Inbound
  <2>1. y \in Message
    <3>1. d.step \in Counter
      BY <1>2 DEF Data, d
    <3>2. QED
      BY <3>1 DEF Message
  <2>2. "syndrome" \in Senders /\ << >> \in Seq(Entry)
    BY DEF Senders
  <2> HIDE DEF y
  <2>3. QED
    BY <1>1, <2>1, <2>2, CastCounts
<1> HIDE DEF t, q, y
<1>9. CellInv(c, t, n, h)
  BY ONLY <1>4, <1>5, <1>6, <1>7, b \in {0, 1}, CellMeasures
<1>10. link' = [L EXCEPT ![c] = n]
  BY <1>1 DEF y, d, l
<1>11. rt' = [R EXCEPT ![c] = t]
  BY DEF t, d
<1>12. Fits(R, L, h)
  OBVIOUS
<1> HIDE DEF R, n
<1>13. Fits([R EXCEPT ![c] = t], [L EXCEPT ![c] = n], h)
  BY ONLY <1>4, <1>5, <1>8, <1>9, <1>12, OneCellMoves
<1>14. QED
  BY <1>10, <1>11, <1>13

(* One turn of a cell's scheduler, for a mesh that fits.                   *)
LEMMA Turn ==
  ASSUME NEW c \in Cells, NEW r \in Runtime, r.lifecycle = "connected",
         rt \in [Cells -> Runtime], NEW L, NEW h,
         Fits([rt EXCEPT ![c] = r], L, h),
         NEW k \in DOMAIN r.mailbox, process(c, r, k, L)
  PROVE  \E g : Fits(rt', link', g)
<1> DEFINE m == r.mailbox[k].message
           e == h[c]
<1>1. PICK value \in Values :
        LET concl == handle_cast(m, r.phase, r.data, value)
            phase == next_phase(r, concl)
        IN  IF concl.directive = "fail" \/ ~boundary(r, concl)
            THEN /\ rt' = [rt EXCEPT ![c] =
                             process_message(r, k, concl, concl.data)]
                 /\ link' = L
            ELSE \/ phase = "measuring" /\ enter_measuring(c, r, k, concl, L)
                 \/ phase = "gathering" /\ enter_gathering(c, r, k, concl, L)
                 \/ phase = "comparing" /\ enter_comparing(c, r, k, concl, L)
                 \/ phase = "flipping" /\ enter_flipping(c, r, k, concl, L)
  BY DEF process
<1> DEFINE concl == conclusion(m, r, value)
           phase == next_phase(r, concl)
<1>2. /\ concl.directive = "fail" \/ ~boundary(r, concl) =>
           /\ rt' = [rt EXCEPT ![c] =
                       process_message(r, k, concl, concl.data)]
           /\ link' = L
      /\ concl.directive # "fail" /\ boundary(r, concl) =>
           \/ phase = "measuring" /\ enter_measuring(c, r, k, concl, L)
           \/ phase = "gathering" /\ enter_gathering(c, r, k, concl, L)
           \/ phase = "comparing" /\ enter_comparing(c, r, k, concl, L)
           \/ phase = "flipping" /\ enter_flipping(c, r, k, concl, L)
  BY <1>1 DEF conclusion
<1>3. /\ h \in [Cells -> Nat] /\ CellInv(c, r, L[c], h)
      /\ L \in [Cells -> Inbound] /\ L[c] \in Inbound
  BY DEF Fits
<1>4. Concluded(r, m, concl, e)
  BY <1>3, EveryConclusion
<1> HIDE DEF concl, m
<1>5. CASE Holds(r, m, concl, e) \/ Counts(r, m, concl, e)
  <2> DEFINE t == process_message(r, k, concl, concl.data)
             R == [rt EXCEPT ![c] = r]
             l == L[c]
  <2>1. l \in Inbound /\ CellInv(c, r, l, h)
    BY <1>3
  <2> HIDE DEF l
  <2>2. ~boundary(r, concl) /\ t \in Runtime /\ CellInv(c, t, l, h)
    BY <1>3, <1>5, <2>1, TurnWithin DEF m
  <2>3. rt' = [R EXCEPT ![c] = t] /\ link' = [L EXCEPT ![c] = l]
    BY <1>2, <1>3, <2>2 DEF l
  <2>4. Fits(R, L, h)
    OBVIOUS
  <2> HIDE DEF t, R
  <2>5. QED
    BY <2>1, <2>2, <2>3, <2>4, OneCellMoves
<1>6. CASE Measures(r, m, concl, e)
  <2>1. PICK b \in {0, 1} :
          /\ rt' = [rt EXCEPT ![c] =
                      process_message(r, k, concl, concl.data)]
          /\ link' = [L EXCEPT ![c]["syndrome"] =
                        Append(@, phenom_anyon(concl.data.step, b))]
    BY <1>2, <1>6 DEF Measures, enter_measuring
  <2>2. Fits(rt', link', h)
    BY <1>6, <2>1, TurnMeasures DEF m
  <2>3. QED
    BY <2>2
<1>7. CASE Enters(r, m, concl, e)
  <2> DEFINE w == with_phase(r, concl)
  <2>1. /\ concl.directive = "consume" /\ boundary(r, concl)
        /\ concl.data \in Data
        /\ phase \in {"gathering", "comparing", "flipping"}
        /\ at(w, e + 1)
        /\ phase = "comparing" => concl.data.phi0 \in Values
    BY <1>7 DEF Enters
  <2>2. w \in Runtime /\ w.phase = phase /\ w.data = concl.data
    BY <2>1, Reached DEF Phases
  <2>3. e + 1 \in Int /\ \A p \in Ports : opposite[p] \in Ports
    BY <1>3, PhiMeshAssumption
  <2>4. Ports # {} /\ of_exchange(e + 1) \subseteq Message
    BY <2>3, Exchanged, PhiMeshAssumption
  <2> HIDE DEF w, phase
  <2>5. ASSUME NEW d \in entered_data(concl),
               rt' = [rt EXCEPT ![c] = process_message(r, k, concl, d)],
               NEW casts \in [Ports -> Message],
               link' = cast_all(L, c, casts),
               \A p \in Ports :
                 /\ casts[p] \in of_exchange(e + 1)
                 /\ index(e + 1) = Rounds =>
                      casts[p] \in fields_from(e + 1, opposite[p])
        PROVE  \E g : Fits(rt', link', g)
    BY <1>7, <2>5, TurnBegins DEF m
  <2>6. concl.data \in entered_data(concl)
    BY DEF entered_data
  <2>7. CASE phase = "gathering"
    <3> DEFINE x == phi(epoch_of(concl.data, 0))
               casts == [p \in Ports |-> x]
    <3>1. /\ rt' = [rt EXCEPT ![c] =
                      process_message(r, k, concl, concl.data)]
          /\ link' = cast_all(L, c, casts)
      BY <1>2, <2>1, <2>7 DEF enter_gathering, phase
    <3>2. x \in of_exchange(e + 1) /\ index(e + 1) # Rounds
      BY <2>1, <2>2, <2>3, <2>4, <2>7, CastsOfExchange
    <3> HIDE DEF x
    <3>3. casts \in [Ports -> Message]
      BY <2>4, <3>2
    <3>4. QED
      BY <2>5, <2>6, <3>1, <3>2, <3>3
  <2>8. CASE phase = "comparing"
    <3> DEFINE d == concl.data
               casts == [p \in Ports |-> phi0(d.step, opposite[p], d.phi0)]
    <3>1. /\ rt' = [rt EXCEPT ![c] =
                      process_message(r, k, concl, concl.data)]
          /\ link' = cast_all(L, c, casts)
      BY <1>2, <2>1, <2>8 DEF enter_comparing, phase
    <3>2. \A p \in Ports :
            /\ phi0(d.step, opposite[p], d.phi0) \in of_exchange(e + 1)
            /\ phi0(d.step, opposite[p], d.phi0)
                 \in fields_from(e + 1, opposite[p])
      BY <2>1, <2>2, <2>3, <2>8, CastsOfExchange
    <3> HIDE DEF d
    <3>3. casts \in [Ports -> Message]
      BY <2>4, <3>2
    <3>4. QED
      BY <2>5, <2>6, <3>1, <3>2, <3>3
  <2>9. CASE phase = "flipping"
    <3> DEFINE d == concl.data
    <3>1. PICK heads \in BOOLEAN :
            LET move == d.anyon = 1 /\ d.best_direction # NoDirection /\ heads
                present(p) == IF move /\ p = d.best_direction THEN 1 ELSE 0
            IN  /\ rt' = [rt EXCEPT ![c] = process_message(r, k, concl,
                                                          departed(d, move))]
                /\ link' = cast_all(L, c,
                             [p \in Ports |-> anyon_move(d.step, present(p))])
      BY <1>2, <2>1, <2>9 DEF enter_flipping, phase
    <3> DEFINE move == d.anyon = 1 /\ d.best_direction # NoDirection /\ heads
               present(p) == IF move /\ p = d.best_direction THEN 1 ELSE 0
               casts == [p \in Ports |-> anyon_move(d.step, present(p))]
               f == departed(d, move)
    <3>2. /\ rt' = [rt EXCEPT ![c] = process_message(r, k, concl, f)]
          /\ link' = cast_all(L, c, casts)
      BY <3>1
    <3>3. f \in entered_data(concl)
      BY DEF departed, entered_data
    <3>4. \A p \in Ports : present(p) \in {0, 1}
      OBVIOUS
    <3>5. /\ \A b \in {0, 1} : anyon_move(d.step, b) \in of_exchange(e + 1)
          /\ index(e + 1) # Rounds
      BY <2>1, <2>2, <2>3, <2>4, <2>9, CastsOfExchange
    <3> HIDE DEF d, present, f
    <3>6. \A p \in Ports :
            anyon_move(d.step, present(p)) \in of_exchange(e + 1)
      BY <3>4, <3>5
    <3>7. casts \in [Ports -> Message]
      BY <2>4, <3>6
    <3>8. \A p \in Ports : casts[p] \in of_exchange(e + 1)
      BY <3>6
    <3> HIDE DEF casts
    <3>9. QED
      BY <2>5, <3>2, <3>3, <3>5, <3>7, <3>8
  <2>10. QED
    BY <2>1, <2>7, <2>8, <2>9
<1>8. QED
  BY <1>4, <1>5, <1>6, <1>7 DEF Concluded
-----------------------------------------------------------------------------
(* Admission.                                                              *)
(* What is counted of two sets is counted of one of them.                  *)
LEMMA EitherCounts ==
  ASSUME NEW l \in Inbound, NEW q \in Seq(Entry), NEW S, NEW T
  PROVE  unconsumed(l, q, S \cup T)
           <= unconsumed(l, q, S) + unconsumed(l, q, T)
<1> DEFINE A == underway(l, S)
           B == underway(l, T)
           C == kept(q, S)
           D == kept(q, T)
<1>1. underway(l, S \cup T) = A \cup B /\ kept(q, S \cup T) = C \cup D
  BY DEF underway, kept
<1>2. IsFiniteSet(A) /\ IsFiniteSet(B) /\ IsFiniteSet(C) /\ IsFiniteSet(D)
  BY Counted
<1>3. /\ Cardinality(A) \in Nat /\ Cardinality(B) \in Nat
      /\ Cardinality(C) \in Nat /\ Cardinality(D) \in Nat
  BY Counted
<1>4. ASSUME NEW X, NEW Y, IsFiniteSet(X), IsFiniteSet(Y)
      PROVE  Cardinality(X \cup Y) <= Cardinality(X) + Cardinality(Y)
  <2>1. Cardinality(X \cup Y)
          = Cardinality(X) + Cardinality(Y) - Cardinality(X \cap Y)
    BY <1>4, FS_Union
  <2>2. IsFiniteSet(X \cap Y)
    BY <1>4, FS_Intersection
  <2>3. /\ Cardinality(X) \in Nat /\ Cardinality(Y) \in Nat
        /\ Cardinality(X \cap Y) \in Nat
    BY <1>4, <2>2, FS_CardinalityType
  <2>4. QED
    BY <2>1, <2>3
<1> HIDE DEF A, B, C, D
<1>5. /\ Cardinality(A \cup B) <= Cardinality(A) + Cardinality(B)
      /\ Cardinality(C \cup D) <= Cardinality(C) + Cardinality(D)
  BY <1>2, <1>4
<1>6. Cardinality(A \cup B) \in Nat /\ Cardinality(C \cup D) \in Nat
  BY <1>2, FS_Union, FS_CardinalityType
<1>7. /\ unconsumed(l, q, S) = Cardinality(A) + Cardinality(C)
      /\ unconsumed(l, q, T) = Cardinality(B) + Cardinality(D)
      /\ unconsumed(l, q, S \cup T)
           = Cardinality(A \cup B) + Cardinality(C \cup D)
  BY <1>1 DEF unconsumed, A, B, C, D
<1>8. QED
  BY <1>3, <1>5, <1>6, <1>7

(* A mailbox of counted messages is no longer than their count.            *)
LEMMA LengthCounts ==
  ASSUME NEW l \in Inbound, NEW q \in Seq(Entry), NEW S,
         \A k \in DOMAIN q : q[k].message \in S
  PROVE  Len(q) <= unconsumed(l, q, S)
<1> DEFINE n == Len(q)
<1>1. n \in Nat /\ DOMAIN q = 1 .. n
  OBVIOUS
<1> HIDE DEF n
<1>2. kept(q, S) = 1 .. n
  BY <1>1 DEF kept
<1>3. Cardinality(1 .. n) = n
  <2>1. 1 \in Int /\ n \in Int
    BY <1>1
  <2>2. Cardinality(1 .. n) = IF 1 > n THEN 0 ELSE n - 1 + 1
    BY <2>1, FS_Interval
  <2>3. QED
    BY <1>1, <2>2
<1>4. Cardinality(underway(l, S)) \in Nat
  BY Counted
<1>5. QED
  BY <1>1, <1>2, <1>3, <1>4 DEF unconsumed, n

(* The counts of a cell as it admits a message.                            *)
LEMMA CellAdmits ==
  ASSUME NEW h \in [Cells -> Nat], NEW c \in Cells,
         NEW r \in Runtime, NEW l \in Inbound, CellInv(c, r, l, h),
         NEW s \in Senders, l[s] # << >>
  PROVE  /\ enqueue(r, Head(l[s])) \in Runtime
         /\ taken_from(l, s) \in Inbound
         /\ CellInv(c, enqueue(r, Head(l[s])), taken_from(l, s), h)
<1> DEFINE q == r.mailbox
           k == taken_from(l, s)
           p == admitted(q, Head(l[s]))
           t == enqueue(r, Head(l[s]))
<1>1. q \in Seq(Entry)
  BY DEF Runtime
<1> HIDE DEF q
<1>2. /\ k \in Inbound /\ p \in Seq(Entry)
      /\ \A S : unconsumed(k, p, S) = unconsumed(l, q, S)
  BY <1>1, AdmissionCounts
<1>3. /\ DOMAIN p = 1 .. Len(q) + 1 /\ DOMAIN q = 1 .. Len(q)
      /\ \A j \in DOMAIN q : p[j] = q[j]
      /\ ~p[Len(q) + 1].postponed /\ Len(q) \in Nat
  BY <1>1 DEF admitted
<1> HIDE DEF p, k
<1>4. t = [r EXCEPT !.mailbox = p]
  BY DEF enqueue, admitted, p, q
<1> HIDE DEF t
<1>5. /\ t \in Runtime /\ t.mailbox = p /\ t.phase = r.phase
      /\ t.data = r.data /\ t.lifecycle = r.lifecycle
  BY <1>2, <1>4 DEF Runtime
<1>6. /\ at(t, h[c]) <=> at(r, h[c])
      /\ requested(t) = requested(r) /\ consumed(t) = consumed(r)
  BY <1>5 DEF at, requested, consumed
<1>7. NothingElse(t, k, h[c]) /\ OneOfEach(c, t, k, h)
  BY <1>2, <1>5, <1>6 DEF CellInv, NothingElse, OneOfEach, q
<1>8. OneField(c, t, k, h)
  BY <1>2, <1>5 DEF CellInv, OneField, q
<1>9. OneAnswer(t, k)
  BY <1>2, <1>5, <1>6 DEF CellInv, OneAnswer, q
<1>10. HeldBack(t, h[c])
  <2>1. \A j \in DOMAIN p : p[j].postponed => j \in DOMAIN q /\ p[j] = q[j]
    BY <1>3
  <2>2. QED
    BY <1>5, <2>1 DEF CellInv, HeldBack, q
<1>11. CellInv(c, t, k, h)
  BY <1>5, <1>6, <1>7, <1>8, <1>9, <1>10 DEF CellInv
<1>12. QED
  BY <1>2, <1>5, <1>11 DEF t, k

(* A cell that admits a message has room for it.                           *)
LEMMA RoomForMessage ==
  ASSUME NEW h \in [Cells -> Nat], NEW c \in Cells,
         NEW r \in Runtime, NEW l \in Inbound, CellInv(c, r, l, h),
         quiescent(r), NEW s \in Senders, l[s] # << >>
  PROVE  ~full(r)
<1> DEFINE q == r.mailbox
           e == h[c]
<1>1. q \in Seq(Entry) /\ e \in Int /\ e + 1 \in Int
        /\ r.lifecycle \in {"disconnected", "connected"}
  BY DEF Runtime
<1>2. /\ unconsumed(l, q, of_exchange(e + 1)) <= NeighborCount
      /\ consumed(r) + unconsumed(l, q, of_exchange(e)) <= NeighborCount
  <2>1. /\ Cardinality(there(c, e, h)) \in 0 .. NeighborCount
        /\ Cardinality(there(c, e + 1, h)) \in 0 .. NeighborCount
    BY <1>1, CountThere
  <2> HIDE DEF q, e
  <2>2. QED
    BY <2>1, Numbers DEF CellInv, OneOfEach, q, e
<1>3. \A S : unconsumed(l, q, S) \in Nat
  BY <1>1, Counted
<1> HIDE DEF q, e
<1>4. Len(q) \in Nat
  BY <1>1
<1>5. CASE r.lifecycle = "connected"
  <2>1. \A k \in DOMAIN q : q[k].postponed
    BY <1>5 DEF quiescent, connected, eligible, q
  <2>2. \A k \in DOMAIN q : q[k].message \in of_exchange(e + 1)
    BY <2>1 DEF CellInv, HeldBack, q, e
  <2>3. Len(q) <= unconsumed(l, q, of_exchange(e + 1))
    BY <1>1, <2>2, LengthCounts
  <2>4. QED
    BY <1>2, <1>3, <1>4, <2>3, Numbers DEF full, q
<1>6. CASE r.lifecycle = "disconnected"
  <2>1. r.phase = "configuring"
    BY <1>6 DEF CellInv
  <2>2. consumed(r) = NeighborCount
    BY <2>1 DEF consumed
  <2>3. unconsumed(l, q, of_exchange(e)) = 0
    BY <1>2, <1>3, <2>2, Numbers
  <2>4. unconsumed(l, q, requested(r)) = 1
    BY <2>1 DEF CellInv, OneAnswer, q
  <2> DEFINE A == of_exchange(e)
             B == of_exchange(e + 1)
             C == requested(r)
             D == Message \ (A \cup B \cup C)
  <2>5. unconsumed(l, q, D) = 0
    BY DEF CellInv, NothingElse, q, e
  <2> HIDE DEF A, B, C, D
  <2>6. unconsumed(l, q, (A \cup D) \cup (B \cup C)) <= NeighborCount + 1
    <3>1. unconsumed(l, q, A) = 0 /\ unconsumed(l, q, C) = 1
            /\ unconsumed(l, q, B) <= NeighborCount
      BY <1>2, <2>3, <2>4 DEF A, B, C
    <3>2. unconsumed(l, q, A \cup D)
            <= unconsumed(l, q, A) + unconsumed(l, q, D)
      BY <1>1, EitherCounts
    <3>3. unconsumed(l, q, B \cup C)
            <= unconsumed(l, q, B) + unconsumed(l, q, C)
      BY <1>1, EitherCounts
    <3>4. unconsumed(l, q, (A \cup D) \cup (B \cup C))
            <= unconsumed(l, q, A \cup D) + unconsumed(l, q, B \cup C)
      BY <1>1, EitherCounts
    <3>5. QED
      BY <1>3, <2>5, <3>1, <3>2, <3>3, <3>4, Numbers
  <2> DEFINE M == (A \cup D) \cup (B \cup C)
             k == taken_from(l, s)
             p == admitted(q, Head(l[s]))
  <2>7. k \in Inbound /\ p \in Seq(Entry)
    BY <1>1, AdmissionCounts
  <2>8. unconsumed(k, p, M) = unconsumed(l, q, M)
    BY <1>1, AdmissionCounts
  <2>9. Len(p) = Len(q) + 1
    BY <1>1 DEF admitted
  <2> HIDE DEF p, k
  <2>10. Len(p) <= unconsumed(k, p, M)
    <3>1. \A j \in DOMAIN p : p[j] \in Entry
      BY <2>7
    <3>2. \A j \in DOMAIN p : p[j].message \in Message
      BY <3>1 DEF Entry
    <3>3. \A x \in Message : x \in M
      BY DEF D
    <3> HIDE DEF M
    <3>4. \A j \in DOMAIN p : p[j].message \in M
      BY <3>2, <3>3
    <3>5. QED
      BY <2>7, <3>4, LengthCounts
  <2> HIDE DEF M
  <2>11. unconsumed(l, q, M) <= NeighborCount + 1
    BY <2>6 DEF M
  <2>12. Len(q) + 1 <= NeighborCount + 1
    BY <1>3, <1>4, <2>8, <2>9, <2>10, <2>11, Numbers
  <2>13. QED
    BY <1>4, <2>12, Numbers DEF full, q
<1>7. QED
  BY <1>1, <1>5, <1>6

(* A cell of the mesh admits a message.                                    *)
LEMMA MeshAdmits ==
  ASSUME NEW h, Fits(rt, link, h), NEW c \in Cells, quiescent(rt[c]),
         NEW s \in Senders, link[c][s] # << >>
  PROVE  /\ ~full(rt[c])
         /\ enqueue(rt[c], Head(link[c][s])) \in Runtime
         /\ Fits([rt EXCEPT ![c] = enqueue(@, Head(link[c][s]))],
                 received(c, s), h)
<1>1. /\ h \in [Cells -> Nat] /\ rt \in [Cells -> Runtime]
      /\ link \in [Cells -> Inbound] /\ CellInv(c, rt[c], link[c], h)
      /\ rt[c] \in Runtime /\ link[c] \in Inbound
  BY DEF Fits
<1> DEFINE r == rt[c]
           l == link[c]
           t == enqueue(r, Head(l[s]))
           n == taken_from(l, s)
<1>2. /\ r \in Runtime /\ l \in Inbound /\ CellInv(c, r, l, h)
      /\ quiescent(r) /\ l[s] # << >>
  BY <1>1
<1>3. received(c, s) = [link EXCEPT ![c] = n]
  BY <1>1 DEF received, taken_from
<1>4. [rt EXCEPT ![c] = enqueue(@, Head(link[c][s]))] = [rt EXCEPT ![c] = t]
  BY <1>1
<1> HIDE DEF r, l
<1>5. ~full(r)
  BY <1>1, <1>2, RoomForMessage
<1>6. t \in Runtime /\ n \in Inbound /\ CellInv(c, t, n, h)
  BY <1>1, <1>2, CellAdmits DEF taken_from
<1> HIDE DEF t, n
<1>7. Fits([rt EXCEPT ![c] = t], [link EXCEPT ![c] = n], h)
  BY <1>6, OneCellMoves
<1>8. QED
  BY <1>3, <1>4, <1>5, <1>6, <1>7 DEF r, l, t

-----------------------------------------------------------------------------
(* The inductive invariant.                                                *)
IInv == \E h : Fits(rt, link, h)

(* A single message counts once.                                           *)
LEMMA OnlyOne ==
  ASSUME NEW n \in Inbound, NEW q \in Seq(Entry), DOMAIN q = {},
         \A t \in Senders : DOMAIN n[t] = {},
         NEW s \in Senders, NEW m \in Message
  PROVE  /\ [n EXCEPT ![s] = Append(@, m)] \in Inbound
         /\ \A S : unconsumed([n EXCEPT ![s] = Append(@, m)], q, S)
                    = one_if(m \in S)
<1>1. [n EXCEPT ![s] = Append(@, m)] \in Inbound
  BY CastCounts
<1>2. ASSUME NEW S
      PROVE  unconsumed([n EXCEPT ![s] = Append(@, m)], q, S) = one_if(m \in S)
  <2>1. n \in Inbound /\ q \in Seq(Entry) /\ s \in Senders /\ m \in Message
    OBVIOUS
  <2>2. unconsumed([n EXCEPT ![s] = Append(@, m)], q, S)
          = unconsumed(n, q, S) + one_if(m \in S)
    BY ONLY <2>1, CastCounts
  <2>3. unconsumed(n, q, S) = 0
    BY Absent
  <2>4. one_if(m \in S) \in {0, 1}
    BY DEF one_if
  <2>5. QED
    BY <2>2, <2>3, <2>4
<1>3. QED
  BY <1>1, <1>2

(* At first no cell has entered an exchange.                               *)
LEMMA InitFits == Init => IInv
<1> SUFFICES ASSUME Init PROVE IInv
  OBVIOUS
<1> DEFINE h == [c \in Cells |-> 0]
           r == runtime("disconnected", "configuring", cell)
           q == << >>
           none == [s \in Senders |-> << >>]
           l == [s \in Senders |->
                   IF s = "host" THEN <<phi_config>> ELSE << >>]
<1>1. rt = [c \in Cells |-> r] /\ link = [c \in Cells |-> l]
  BY DEF Init
<1>2. /\ r \in Runtime /\ r.mailbox = q /\ r.phase = "configuring"
      /\ r.lifecycle = "disconnected" /\ r.data = cell
  <2>1. cell \in Data
    BY Numbers DEF cell, Data, Counter, Barrier
  <2> HIDE DEF cell
  <2>2. << >> \in Seq(Entry)
    OBVIOUS
  <2>3. QED
    BY <2>1, <2>2 DEF runtime, Runtime, Phases
<1>3. /\ l \in Inbound
      /\ \A S : unconsumed(l, q, S) = one_if(phi_config \in S)
  <2>1. none \in Inbound
    BY DEF Inbound
  <2>2. "host" \in Senders /\ phi_config \in Message
    BY DEF Senders, Message
  <2>3. l = [none EXCEPT !["host"] = Append(@, phi_config)]
    <3>1. Append(<< >>, phi_config) = <<phi_config>>
      OBVIOUS
    <3>2. QED
      BY <2>2, <3>1
  <2>4. /\ q \in Seq(Entry) /\ DOMAIN q = {}
        /\ \A s \in Senders : DOMAIN none[s] = {}
    OBVIOUS
  <2> HIDE DEF none, l, q
  <2> DEFINE m == phi_config
             s == "host"
             k == [none EXCEPT ![s] = Append(@, m)]
  <2>5. s \in Senders /\ m \in Message
    BY <2>2
  <2>6. l = k
    BY <2>3
  <2> HIDE DEF m, s
  <2>7. [none EXCEPT ![s] = Append(@, m)] \in Inbound
    BY ONLY <2>1, <2>4, <2>5, OnlyOne
  <2>8. \A S : unconsumed([none EXCEPT ![s] = Append(@, m)], q, S)
                = one_if(m \in S)
    BY ONLY <2>1, <2>4, <2>5, OnlyOne
  <2> HIDE DEF k
  <2>9. k \in Inbound /\ \A S : unconsumed(k, q, S) = one_if(m \in S)
    BY ONLY <2>7, <2>8 DEF k
  <2>10. QED
    BY <2>6, <2>9 DEF m
<1>4. requested(r) = {phi_config}
  BY <1>2 DEF requested
<1>5. DOMAIN q = {}
  OBVIOUS
<1> HIDE DEF r, l, q
<1>6. h \in [Cells -> Nat] /\ \A c \in Cells : h[c] = 0
  OBVIOUS
<1>7. Lockstep(h)
  BY <1>6, Edges DEF Lockstep
<1>8. ASSUME NEW c \in Cells
      PROVE  CellInv(c, r, l, h)
  <2>1. h[c] = 0
    BY <1>6
  <2>2. there(c, 0, h) = Ports /\ there(c, 1, h) = {}
    BY <1>6, Edges DEF there
  <2> HIDE DEF h
  <2>3. /\ phi_config \notin of_exchange(0)
        /\ phi_config \notin of_exchange(1)
    BY <1>2, <1>4, RequestedApart
  <2>4. at(r, 0)
    <3>1. turn(1) % U32 = 0
      <4> DEFINE U == U32
      <4>1. U \in Nat /\ U > 0
        BY Numbers
      <4> HIDE DEF U
      <4>2. 0 % U = 0
        BY <4>1
      <4>3. QED
        BY <4>2, FirstExchange DEF U
    <3>2. QED
      BY <1>2, <3>1, FirstExchange DEF at, cell
  <2>5. NothingElse(r, l, 0)
    BY <1>2, <1>3, <1>4 DEF NothingElse, one_if
  <2>6. OneOfEach(c, r, l, h)
    <3>1. /\ unconsumed(l, q, of_exchange(0)) = 0
          /\ unconsumed(l, q, of_exchange(1)) = 0
      BY <1>3, <2>3 DEF one_if
    <3>2. consumed(r) = NeighborCount /\ NeighborCount \in Nat
      BY <1>2, Numbers DEF consumed
    <3>3. Cardinality({}) = 0
      BY FS_EmptySet
    <3>4. 0 + 1 = 1
      OBVIOUS
    <3>5. QED
      BY <1>2, <2>1, <2>2, <3>1, <3>2, <3>3, <3>4
        DEF OneOfEach, NeighborCount
  <2>7. OneField(c, r, l, h)
    BY <2>1, FirstExchange, Numbers DEF OneField
  <2>8. OneAnswer(r, l) /\ HeldBack(r, 0)
    BY <1>2, <1>3, <1>4, <1>5 DEF OneAnswer, HeldBack, one_if
  <2>9. QED
    BY <1>2, <2>1, <2>4, <2>5, <2>6, <2>7, <2>8 DEF CellInv
<1> HIDE DEF h
<1>9. Fits(rt, link, h)
  BY <1>1, <1>2, <1>3, <1>6, <1>7, <1>8 DEF Fits
<1>10. QED
  BY <1>9 DEF IInv

(* Every step leads to a numbering that fits.                              *)
LEMMA StepFits == IInv /\ [Next]_vars => IInv'
<1> SUFFICES ASSUME IInv, [Next]_vars PROVE IInv'
  OBVIOUS
<1>1. PICK h : Fits(rt, link, h)
  BY DEF IInv
<1>2. /\ h \in [Cells -> Nat] /\ rt \in [Cells -> Runtime]
      /\ link \in [Cells -> Inbound]
      /\ \A c \in Cells : CellInv(c, rt[c], link[c], h)
  BY <1>1 DEF Fits
<1> SUFFICES \E g : Fits(rt', link', g)
  BY DEF IInv, Fits, CellInv
<1>3. CASE UNCHANGED vars
  BY <1>1, <1>3 DEF vars
<1>4. ASSUME NEW c \in Cells, connect(c)
      PROVE  \E g : Fits(rt', link', g)
  <2> DEFINE r == rt[c]
             t == [r EXCEPT !.lifecycle = "connected"]
             l == link[c]
  <2>1. /\ r \in Runtime /\ l \in Inbound /\ CellInv(c, r, l, h)
    BY <1>2
  <2>2. rt' = [rt EXCEPT ![c] = t] /\ link' = [link EXCEPT ![c] = l]
    BY <1>2, <1>4 DEF connect
  <2> HIDE DEF r, l
  <2>3. /\ t \in Runtime /\ t.mailbox = r.mailbox /\ t.phase = r.phase
        /\ t.data = r.data /\ t.lifecycle = "connected"
    BY <2>1 DEF Runtime
  <2> HIDE DEF t
  <2>4. /\ at(t, h[c]) <=> at(r, h[c])
        /\ requested(t) = requested(r) /\ consumed(t) = consumed(r)
    BY <2>3 DEF at, requested, consumed
  <2>5. CellInv(c, t, l, h)
    BY <2>1, <2>3, <2>4
      DEF CellInv, NothingElse, OneOfEach, OneField, OneAnswer, HeldBack
  <2>6. QED
    BY <1>1, <2>1, <2>2, <2>3, <2>5, OneCellMoves
<1>5. ASSUME NEW c \in Cells, admit_disconnected(c)
      PROVE  \E g : Fits(rt', link', g)
  <2>1. PICK s \in Senders :
          /\ link[c][s] # << >>
          /\ link' = received(c, s)
          /\ rt' = [rt EXCEPT ![c] =
                      IF full(@) THEN stop(@)
                      ELSE enqueue(@, Head(link[c][s]))]
    BY <1>5 DEF admit_disconnected
  <2>2. quiescent(rt[c])
    BY <1>5 DEF admit_disconnected, quiescent, connected
  <2>3. ~full(rt[c]) /\ Fits([rt EXCEPT ![c] = enqueue(@, Head(link[c][s]))],
                             received(c, s), h)
    BY <1>1, <2>1, <2>2, MeshAdmits
  <2>4. QED
    BY <1>2, <2>1, <2>3
<1>6. ASSUME NEW c \in Cells, process_messages(c)
      PROVE  \E g : Fits(rt', link', g)
  <2>1. PICK k \in eligible(rt[c]) : process(c, rt[c], k, link)
    BY <1>6 DEF process_messages
  <2> DEFINE r == rt[c]
  <2>2. /\ r \in Runtime /\ k \in DOMAIN r.mailbox
        /\ r.lifecycle = "connected" /\ [rt EXCEPT ![c] = r] = rt
        /\ process(c, r, k, link)
    BY <1>2, <1>6, <2>1 DEF eligible, process_messages, connected
  <2> HIDE DEF r
  <2>3. QED
    BY <1>1, <1>2, <2>2, Turn
<1>7. ASSUME NEW c \in Cells, admit_and_process(c)
      PROVE  \E g : Fits(rt', link', g)
  <2>1. connected(rt[c]) /\ quiescent(rt[c])
    BY <1>7 DEF admit_and_process
  <2>2. PICK s \in Senders :
          /\ link[c][s] # << >>
          /\ ~full(rt[c]) =>
               LET r == enqueue(rt[c], Head(link[c][s]))
               IN  process(c, r, Len(r.mailbox), received(c, s))
    BY <1>7 DEF admit_and_process
  <2> DEFINE r == enqueue(rt[c], Head(link[c][s]))
             L == received(c, s)
             k == Len(r.mailbox)
  <2>3. ~full(rt[c]) /\ r \in Runtime
          /\ Fits([rt EXCEPT ![c] = r], L, h)
    <3>1. [rt EXCEPT ![c] = enqueue(@, Head(link[c][s]))]
            = [rt EXCEPT ![c] = r]
      BY <1>2
    <3>2. QED
      BY <1>1, <2>1, <2>2, <3>1, MeshAdmits
  <2>4. process(c, r, k, L)
    BY <2>2, <2>3
  <2>5. k \in DOMAIN r.mailbox /\ r.lifecycle = "connected"
    <3>1. rt[c].mailbox \in Seq(Entry) /\ rt[c] \in Runtime
      BY <1>2 DEF Runtime
    <3>2. r.mailbox = Append(rt[c].mailbox, [message |-> Head(link[c][s]),
                                             postponed |-> FALSE])
      BY <3>1 DEF enqueue, Runtime
    <3>3. r.lifecycle = rt[c].lifecycle
      BY <3>1 DEF enqueue, Runtime
    <3>4. QED
      BY <2>1, <3>1, <3>2, <3>3 DEF connected
  <2> HIDE DEF r, L, k
  <2>6. QED
    BY <1>2, <2>3, <2>4, <2>5, Turn
<1>8. QED
  BY <1>3, <1>4, <1>5, <1>6, <1>7 DEF Next, Cell

(* Some numbering of the exchanges always fits.                            *)
THEOREM ExchangesFit == Spec => []IInv
<1>1. Init => IInv
  BY InitFits
<1>2. IInv /\ [Next]_vars => IInv'
  BY StepFits
<1>3. QED
  BY <1>1, <1>2, PTL DEF Spec

(* NoCellStops: with room for an early barrier and the message that        *)
(* completes the present one, no cell is ever overrun, and no phase meets  *)
(* a message that it rejects.                                              *)
THEOREM CellsNeverStop == Spec => []NoCellStops
<1>1. IInv => NoCellStops
  BY DEF IInv, Fits, NoCellStops, Runtime
<1>2. QED
  BY <1>1, ExchangesFit, PTL

-----------------------------------------------------------------------------
(* What the numbering says of the counters that the cells keep.            *)
(* A cell's own count is its number of exchanges, reduced.                 *)
LEMMA EnteredCounts ==
  ASSUME NEW h, Fits(rt, link, h), NEW c \in Cells
  PROVE  /\ entered(c) \in Int
         /\ \E j \in Int : h[c] = entered(c) + (U32 * exchanges) * j
<1> DEFINE r == rt[c]
           d == r.data
           e == h[c]
           U == U32
           E == exchanges
<1>1. /\ e \in Int /\ e + 1 \in Int /\ at(r, e) /\ r \in Runtime
      /\ r.phase \in Phases /\ d.step \in Counter
  BY DEF Fits, CellInv, Runtime, Data
<1>2. /\ U \in Nat /\ U > 0 /\ E \in Nat /\ E > 0 /\ E = Rounds + 2
      /\ Rounds \in Nat
  BY Numbers
<1> HIDE DEF r, e, U, E
<1>3. ASSUME NEW x \in Int, NEW i \in Nat, d.step = turn(x) % U,
             e = E * turn(x) + i, turn(x) \in Int, NEW v, v = d.step * E + i
      PROVE  v \in Int /\ \E j \in Int : e = v + (U * E) * j
  <2> DEFINE t == turn(x)
  <2>1. t \in Int
    BY <1>3
  <2> HIDE DEF t
  <2>2. PICK q \in Int, w \in 0 .. U - 1 : t = U * q + w /\ t % U = w
    BY <1>2, <2>1, Quotient
  <2>3. w \in Int /\ d.step = w
    BY <1>2, <1>3, <2>2 DEF t
  <2>4. e = E * (U * q + w) + i
    BY <1>3, <2>2 DEF t
  <2> DEFINE s == d.step
  <2> HIDE DEF s, d
  <2>5. v = w * E + i
    BY <1>3, <2>3
  <2>6. E * (U * q + w) + i = (w * E + i) + (U * E) * q
    BY <1>2, <2>2, <2>3
  <2>7. v \in Int /\ e = v + (U * E) * q
    BY <1>2, <1>3, <2>3, <2>4, <2>5, <2>6
  <2>8. QED
    BY <2>2, <2>7
<1>4. ASSUME NEW x \in Int
      PROVE  /\ turn(x) \in Int /\ index(x) \in Nat
             /\ x = E * turn(x) + index(x) + 1
  <2> DEFINE y == x - 1
             q == turn(x)
             i == index(x)
  <2>1. q \in Int /\ i \in Nat
    BY Places, Numbers
  <2>2. y \in Int /\ q = y \div E /\ i = y % E
    BY DEF turn, index, E
  <2> HIDE DEF y, q, i
  <2>3. y = E * q + i
    BY <1>2, <2>1, <2>2, Division
  <2>4. QED
    BY <1>2, <2>1, <2>3 DEF y, q, i
<1>5. CASE r.phase \in {"configuring", "measuring"}
  <2>1. d.step = turn(e + 1) % U /\ index(e + 1) = 0
    BY <1>1, <1>5 DEF at, U
  <2>2. turn(e + 1) \in Int /\ e + 1 = E * turn(e + 1) + 0 + 1
    BY <1>1, <1>4, <2>1
  <2>3. e = E * turn(e + 1) + 0
    <3> DEFINE z == E * turn(e + 1)
    <3>1. z \in Int
      BY <1>2, <2>2
    <3> HIDE DEF z
    <3>2. e + 1 = z + 0 + 1
      BY <2>2 DEF z
    <3>3. QED
      BY <1>1, <3>1, <3>2 DEF z
  <2>4. entered(c) = d.step * E + 0
    BY <1>5 DEF entered, r, E
  <2>5. QED
    BY <1>1, <1>3, <2>1, <2>2, <2>3, <2>4 DEF e, U, E
<1>6. CASE r.phase \notin {"configuring", "measuring"}
  <2> DEFINE i == index(e) + 1
  <2>1. d.step = turn(e) % U
    BY <1>1, <1>6 DEF at, U
  <2>2. turn(e) \in Int /\ i \in Nat /\ e = E * turn(e) + i
    <3> DEFINE z == E * turn(e)
    <3>1. turn(e) \in Int /\ index(e) \in Nat /\ e = z + index(e) + 1
      BY <1>1, <1>4
    <3>2. z \in Int
      BY <1>2, <3>1
    <3> HIDE DEF z
    <3>3. i \in Nat /\ e = z + i
      BY <3>1, <3>2
    <3>4. QED
      BY <3>1, <3>3 DEF z
  <2>3. entered(c) = d.step * E + i
    <3>1. CASE r.phase = "gathering"
      <4>1. d.diffusion_round = index(e) /\ index(e) \in Nat
        BY <1>1, <1>4, <3>1 DEF at
      <4>2. entered(c) = d.step * E + (1 + d.diffusion_round)
        BY <3>1 DEF entered, r, E
      <4>3. QED
        BY <4>1, <4>2
    <3>2. CASE r.phase = "comparing"
      <4>1. index(e) = Rounds
        BY <1>1, <3>2 DEF at
      <4>2. entered(c) = d.step * E + (1 + Rounds)
        BY <3>2 DEF entered, r, E
      <4>3. QED
        BY <1>2, <4>1, <4>2
    <3>3. CASE r.phase = "flipping"
      <4>1. index(e) = Rounds + 1
        BY <1>1, <3>3 DEF at
      <4>2. entered(c) = d.step * E + (2 + Rounds)
        BY <3>3 DEF entered, r, E
      <4>3. 2 + Rounds = i
        BY <1>2, <4>1
      <4>4. QED
        BY <4>2, <4>3
    <3>4. QED
      BY <1>1, <1>6, <3>1, <3>2, <3>3 DEF Phases
  <2> HIDE DEF i
  <2>4. QED
    BY <1>1, <1>3, <2>1, <2>2, <2>3 DEF e, U, E
<1>7. QED
  BY <1>5, <1>6

(* So the difference of two neighbors' counts is that of their numbers.    *)
LEMMA DifferenceCounts ==
  ASSUME NEW h, Fits(rt, link, h), NEW c \in Cells, NEW p \in Ports
  PROVE  /\ h[neighbor[c][p]] \in {h[c] - 1, h[c], h[c] + 1}
         /\ LET n == U32 * exchanges
                m == (entered(neighbor[c][p]) - entered(c)) % n
            IN  /\ n > 2 /\ n \in Nat
                /\ h[neighbor[c][p]] = h[c] - 1 => m = n - 1
                /\ h[neighbor[c][p]] = h[c] => m = 0
                /\ h[neighbor[c][p]] = h[c] + 1 => m = 1
<1> DEFINE d == neighbor[c][p]
           n == U32 * exchanges
           x == entered(d)
           y == entered(c)
           a == h[d]
           b == h[c]
<1>1. d \in Cells /\ opposite[p] \in Ports /\ neighbor[d][opposite[p]] = c
  BY Edges
<1>2. a \in Nat /\ b \in Nat /\ a <= b + 1 /\ b <= a + 1
  BY <1>1 DEF Fits, Lockstep
<1>3. n \in Nat /\ n > 2
  <2> DEFINE U == U32
             E == exchanges
  <2>1. U \in Nat /\ U > 1 /\ E \in Nat /\ E > 2
    BY Numbers
  <2> HIDE DEF U, E
  <2>2. U * E \in Nat /\ U * E > 2
    <3>1. (U - 1) * E >= E
      <4>1. \E u \in Nat : U - 1 = u + 1
        <5>1. U - 2 \in Nat /\ U - 1 = (U - 2) + 1
          BY <2>1
        <5>2. QED
          BY <5>1
      <4>2. PICK u \in Nat : U - 1 = u + 1
        BY <4>1
      <4>3. (u + 1) * E = u * E + E /\ u * E \in Nat
        BY <2>1
      <4>4. QED
        BY <2>1, <4>2, <4>3
    <3>2. U * E = (U - 1) * E + E
      BY <2>1
    <3>3. (U - 1) * E \in Int /\ U * E \in Int
      BY <2>1
    <3>4. QED
      BY <2>1, <3>1, <3>2, <3>3
  <2>3. QED
    BY <2>2 DEF U, E
<1>4. x \in Int /\ \E j \in Int : a = x + n * j
  BY <1>1, EnteredCounts
<1>5. y \in Int /\ \E j \in Int : b = y + n * j
  BY EnteredCounts
<1> HIDE DEF d, n, x, y, a, b
<1>6. PICK i \in Int : a = x + n * i
  BY <1>4
<1>7. PICK j \in Int : b = y + n * j
  BY <1>5
<1> DEFINE q == j - i
           z == a - b
<1>8. x - y = n * q + z /\ q \in Int /\ z \in {-1, 0, 1}
  <2>1. n * (j - i) = n * j - n * i
    BY <1>3
  <2>2. n * j \in Int /\ n * i \in Int
    BY <1>3
  <2>3. QED
    BY <1>2, <1>4, <1>5, <1>6, <1>7, <2>1, <2>2
<1> HIDE DEF q, z
<1>9. CASE z = -1
  <2> DEFINE s == q - 1
  <2>1. n * q + z = n * s + (n - 1) /\ s \in Int /\ n - 1 \in 0 .. n - 1
    BY <1>3, <1>8, <1>9
  <2> HIDE DEF s
  <2>2. (x - y) % n = n - 1
    <3>1. (n * s + (n - 1)) % n = n - 1
      BY <1>3, <2>1, Residue
    <3>2. QED
      BY <1>8, <2>1, <3>1
  <2>3. a = b - 1
    BY <1>2, <1>9 DEF z
  <2>4. QED
    BY <1>2, <1>3, <2>2, <2>3 DEF a, b, d, n, x, y
<1>10. CASE z \in {0, 1}
  <2>1. (n * q + z) % n = z
    <3>1. z \in 0 .. n - 1
      BY <1>3, <1>10
    <3>2. n \in Nat /\ n > 0 /\ q \in Int
      BY <1>3, <1>8
    <3>3. QED
      BY ONLY <3>1, <3>2, Residue
  <2>2. (x - y) % n = z /\ a = b + z
    BY <1>2, <1>8, <2>1 DEF z
  <2>3. QED
    BY <1>2, <1>3, <1>10, <2>2 DEF a, b, d, n, x, y
<1>11. QED
  BY <1>8, <1>9, <1>10

(* NeighborsInLockstep: a fast cell is never more than one exchange ahead  *)
(* of a neighbor, for it waits for what only that neighbor can send.       *)
THEOREM NeighborsStayInLockstep == Spec => []NeighborsInLockstep
<1>1. IInv => NeighborsInLockstep
  <2> SUFFICES ASSUME IInv, NEW c \in Cells, NEW p \in Ports
               PROVE  (entered(neighbor[c][p]) - entered(c))
                        % (U32 * exchanges) \in {0, 1, U32 * exchanges - 1}
    BY DEF NeighborsInLockstep
  <2>1. PICK h : Fits(rt, link, h)
    BY DEF IInv
  <2>2. QED
    BY <2>1, DifferenceCounts
<1>2. QED
  BY <1>1, ExchangesFit, PTL

(* EveryFieldCountedOnce: of the neighbors that have entered a diffusion   *)
(* round, each one's message of that round is either counted or still to   *)
(* come, and no other message is taken for one.                            *)
THEOREM FieldsCountedOnce == Spec => []EveryFieldCountedOnce
<1>1. IInv => EveryFieldCountedOnce
  <2> SUFFICES ASSUME IInv, NEW c \in Cells, rt[c].phase = "gathering"
               PROVE  rt[c].data.phi_received
                        + unconsumed_by(c, {phi(epoch_of(rt[c].data, 0))})
                      = Cardinality({p \in Ports :
                          (entered(neighbor[c][p]) - entered(c))
                            % (U32 * exchanges) \in {0, 1}})
    BY DEF EveryFieldCountedOnce
  <2>1. PICK h : Fits(rt, link, h)
    BY DEF IInv
  <2> DEFINE r == rt[c]
             e == h[c]
  <2>2. /\ CellInv(c, r, link[c], h) /\ r \in Runtime /\ e \in Int
        /\ h \in [Cells -> Nat]
    BY <2>1 DEF Fits
  <2>3. at(r, e) /\ OneOfEach(c, r, link[c], h)
    BY <2>2 DEF CellInv
  <2>4. {phi(epoch_of(r.data, 0))} = of_exchange(e)
    <3>1. phi(epoch_of(r.data, 0)) \in of_exchange(e)
      BY <2>2, <2>3, PhiMeshAssumption, CastsOfExchange
    <3>2. index(e) < Rounds
      BY <2>3 DEF at
    <3>3. QED
      BY <3>1, <3>2 DEF of_exchange
  <2>5. r.data.phi_received + unconsumed(link[c], r.mailbox, of_exchange(e))
          = Cardinality(there(c, e, h))
    BY <2>3 DEF OneOfEach, consumed
  <2>6. ASSUME NEW p \in Ports
        PROVE  h[neighbor[c][p]] >= h[c]
                 <=> (entered(neighbor[c][p]) - entered(c))
                       % (U32 * exchanges) \in {0, 1}
    <3> DEFINE n == U32 * exchanges
               m == (entered(neighbor[c][p]) - entered(c)) % n
               a == h[neighbor[c][p]]
               b == h[c]
    <3>1. /\ a \in {b - 1, b, b + 1}
          /\ n > 2 /\ n \in Nat
          /\ a = b - 1 => m = n - 1
          /\ a = b => m = 0
          /\ a = b + 1 => m = 1
      BY <2>1, DifferenceCounts
    <3>2. b \in Nat
      BY <2>2
    <3> HIDE DEF m, n, a, b
    <3>3. a >= b <=> m \in {0, 1}
      BY <3>1, <3>2
    <3>4. QED
      BY <3>3 DEF m, n, a, b
  <2>7. there(c, e, h) = {p \in Ports :
                            (entered(neighbor[c][p]) - entered(c))
                              % (U32 * exchanges) \in {0, 1}}
    BY <2>6 DEF there
  <2>8. QED
    BY <2>4, <2>5, <2>7 DEF unconsumed_by
<1>2. QED
  BY <1>1, ExchangesFit, PTL

(* Of some cells, one has entered the fewest exchanges.                    *)
LEMMA SomeCellIsLast ==
  ASSUME NEW h \in [Cells -> Nat]
  PROVE  \E c \in Cells : \A d \in Cells : h[c] <= h[d]
<1> DEFINE below(c) == 0 .. h[c]
           order == StrictSubsetOrdering(Nat)
           T == {below(c) : c \in Cells}
<1>1. \A c \in Cells : h[c] \in Nat
  OBVIOUS
<1>2. T \subseteq FiniteSubsetsOf(Nat) /\ T # {}
  <2>1. \A c \in Cells : below(c) \in SUBSET Nat /\ IsFiniteSet(below(c))
    BY <1>1, FS_Interval
  <2>2. Cells # {}
    BY PhiMeshAssumption
  <2>3. QED
    BY <2>1, <2>2 DEF FiniteSubsetsOf
<1>3. PICK least \in T : \A t \in T : ~(<<t, least>> \in order)
  <2>1. IsWellFoundedOn(order, FiniteSubsetsOf(Nat))
    BY FS_StrictSubsetOrderingWellFounded
  <2> HIDE DEF order, T
  <2>2. QED
    BY <1>2, <2>1, WFMin
<1>4. PICK c \in Cells : least = below(c)
  OBVIOUS
<1>5. ASSUME NEW d \in Cells, h[d] < h[c]
      PROVE  FALSE
  <2>1. below(d) \subseteq below(c) /\ below(d) # below(c)
    BY <1>1, <1>5
  <2>2. below(d) \in SUBSET Nat /\ below(c) \in SUBSET Nat
    BY <1>1
  <2>3. <<below(d), below(c)>> \in order
    BY <2>1, <2>2 DEF StrictSubsetOrdering
  <2>4. QED
    BY <1>3, <1>4, <2>3
<1>6. \A d \in Cells : h[c] <= h[d]
  BY <1>1, <1>5
<1>7. QED
  BY <1>6

(* SomeCellGoesOn: the cells never all wait for each other.  The one that  *)
(* has entered the fewest exchanges misses nothing but what is on its way  *)
(* to it.                                                                  *)
THEOREM MeshGoesOn == Spec => []SomeCellGoesOn
<1>1. IInv => SomeCellGoesOn
  <2> SUFFICES ASSUME IInv, ~SomeCellGoesOn
               PROVE  FALSE
    OBVIOUS
  <2>1. PICK h : Fits(rt, link, h)
    BY DEF IInv
  <2>2. PICK c \in Cells : \A d \in Cells : h[c] <= h[d]
    BY <2>1, SomeCellIsLast DEF Fits
  <2> DEFINE r == rt[c]
             l == link[c]
             q == r.mailbox
             e == h[c]
  <2>3. /\ CellInv(c, r, l, h) /\ r \in Runtime /\ l \in Inbound
        /\ e \in Int /\ e + 1 \in Int /\ h \in [Cells -> Nat]
        /\ q \in Seq(Entry)
    BY <2>1 DEF Fits, Runtime
  <2>4. \A s \in Senders : \A i \in DOMAIN l[s] : FALSE
    <3>1. \A s \in Senders : l[s] = << >>
      BY DEF SomeCellGoesOn
    <3>2. QED
      BY <3>1
  <2>5. \A k \in DOMAIN q : q[k].message \in of_exchange(e + 1)
    <3>1. \A k \in DOMAIN q : q[k].postponed
      BY DEF SomeCellGoesOn, eligible
    <3>2. QED
      BY <2>3, <3>1 DEF CellInv, HeldBack
  <2>6. \A S : S \cap of_exchange(e + 1) = {} => unconsumed(l, q, S) = 0
    <3> SUFFICES ASSUME NEW S, S \cap of_exchange(e + 1) = {}
                 PROVE  unconsumed(l, q, S) = 0
      OBVIOUS
    <3> HIDE DEF l, q, e
    <3>1. /\ \A s \in Senders : \A i \in DOMAIN l[s] : l[s][i] \notin S
          /\ \A k \in DOMAIN q : q[k].message \notin S
      BY <2>4, <2>5
    <3>2. QED
      BY <2>3, <3>1, Absent
  <2>7. /\ of_exchange(e) \cap of_exchange(e + 1) = {}
        /\ requested(r) \cap of_exchange(e + 1) = {}
    BY <2>3, Exchanged, RequestedApart
  <2>8. there(c, e, h) = Ports
    <3>1. \A p \in Ports : h[neighbor[c][p]] >= h[c]
      <4>1. \A p \in Ports : neighbor[c][p] \in Cells
        BY Edges
      <4>2. \A d \in Cells : h[d] \in Nat
        BY <2>3
      <4>3. QED
        BY <2>2, <4>1, <4>2
    <3>2. QED
      BY <3>1 DEF there
  <2>9. consumed(r) = NeighborCount
    <3>1. consumed(r) + unconsumed(l, q, of_exchange(e))
            = Cardinality(there(c, e, h))
      BY <2>3 DEF CellInv, OneOfEach
    <3>2. unconsumed(l, q, of_exchange(e)) = 0
      BY <2>6, <2>7
    <3>3. consumed(r) \in 0 .. NeighborCount
      BY <2>3, ConsumedType
    <3>4. QED
      BY <2>8, <3>1, <3>2, <3>3, Numbers DEF NeighborCount
  <2>10. r.phase \in {"configuring", "measuring"}
    <3>1. at(r, e)
      BY <2>3 DEF CellInv
    <3>2. QED
      BY <2>3, <2>9, <3>1, ConsumedType, Numbers
  <2>11. unconsumed(l, q, requested(r)) = 1
    BY <2>3, <2>10 DEF CellInv, OneAnswer
  <2>12. unconsumed(l, q, requested(r)) = 0
    BY <2>6, <2>7
  <2>13. QED
    BY <2>11, <2>12
<1>2. QED
  BY <1>1, ExchangesFit, PTL
-----------------------------------------------------------------------------
(* Anyons and corrections.                                                 *)
(* X is what the anyons of the cells R and those on the links L explain.   *)
Explains(R, L, X) ==
  /\ X \in [Cells -> {0, 1}]
  /\ \A c \in Cells :
       xor(R[c].data.anyon, unconsumed(L[c], R[c].mailbox, anyons)) = X[c]

(* How parities add.                                                       *)
LEMMA Parities ==
  ASSUME NEW a \in {0, 1}, NEW b \in {0, 1}, NEW n \in Nat
  PROVE  /\ xor(a, b) \in {0, 1} /\ xor(a, 0) = a
         /\ xor(a, n) \in {0, 1}
         /\ xor(a, n + b) = xor(xor(a, n), b)
         /\ n >= b => xor(xor(a, b), n - b) = xor(a, n)
         /\ xor(xor(a, b), n) = xor(xor(a, n), b)
BY DEF xor

(* Which messages carry an anyon.                                          *)
LEMMA CarriesAnyon ==
  ASSUME NEW s \in Counter, NEW b \in {0, 1}
  PROVE  /\ one_if(phenom_anyon(s, b) \in anyons) = b
         /\ one_if(anyon_move(s, b) \in anyons) = b
<1>1. \A m \in anyons : m.present = 1
  BY DEF anyons, phenom_anyon, anyon_move
<1>2. phenom_anyon(s, 1) \in anyons /\ anyon_move(s, 1) \in anyons
  BY DEF anyons, Counter
<1>3. phenom_anyon(s, b).present = b /\ anyon_move(s, b).present = b
  BY DEF phenom_anyon, anyon_move
<1>4. CASE b = 0
  BY <1>1, <1>3, <1>4 DEF one_if
<1>5. CASE b = 1
  BY <1>2, <1>5 DEF one_if
<1>6. QED
  BY <1>4, <1>5

(* No other message does.                                                  *)
LEMMA CarriesNone ==
  ASSUME NEW m, m.tag \notin {"phenom_anyon", "anyon_move"}
  PROVE  one_if(m \in anyons) = 0
<1>1. \A x \in anyons : x.tag \in {"phenom_anyon", "anyon_move"}
  BY DEF anyons, phenom_anyon, anyon_move
<1>2. QED
  BY <1>1 DEF one_if

(* What handle_cast/3 makes of the data when it consumes a message.        *)
LEMMA Absorbed ==
  ASSUME NEW r \in Runtime, NEW m \in Message, NEW value \in Values,
         NEW concl, concl = conclusion(m, r, value),
         concl.directive = "consume"
  PROVE  concl.data.anyon = xor(r.data.anyon, one_if(m \in anyons))
<1> DEFINE d == r.data
<1>1. d \in Data /\ d.anyon \in {0, 1}
  BY DEF Runtime, Data
<1>2. xor(d.anyon, 0) = d.anyon
  BY <1>1, Parities
<1>3. r.phase \in Phases
  BY DEF Runtime
<1> HIDE DEF d
<1>4. CASE r.phase = "configuring"
  <2>1. concl = configuring(m, d)
    BY <1>4 DEF conclusion, handle_cast, d
  <2>2. m.tag = "phi_config" /\ concl.data = d
    BY <2>1 DEF configuring, conclude
  <2>3. QED
    BY <1>2, <2>2, CarriesNone DEF d
<1>5. CASE r.phase = "measuring"
  <2>1. concl = measuring(m, d)
    BY <1>5 DEF conclusion, handle_cast, d
  <2>2. m.tag = "phenom_anyon" /\ concl.data = [d EXCEPT !.anyon =
                                                  xor(@, m.present)]
    BY <2>1 DEF measuring, conclude
  <2>3. PICK s \in Counter, b \in {0, 1} : m = phenom_anyon(s, b)
    BY <2>2 DEF Message, phi_config, phi, phi0, anyon_move
  <2>4. m.present = b
    BY <2>3 DEF phenom_anyon
  <2>5. concl.data.anyon = xor(d.anyon, b)
    BY <1>1, <2>2, <2>4 DEF Data
  <2>6. QED
    BY <2>3, <2>5, CarriesAnyon DEF d
<1>6. CASE r.phase = "gathering"
  <2>1. concl = gathering(m, d, value)
    BY <1>6 DEF conclusion, handle_cast, d
  <2>2. m.tag = "phi"
        /\ concl = IF complete(d.phi_received) THEN relaxed(d, value)
                   ELSE conclude("gathering",
                                 [d EXCEPT !.phi_received = @ + 1],
                                 "consume")
    BY <2>1 DEF gathering, conclude
  <2>3. concl.data.anyon = d.anyon
    <3>1. CASE complete(d.phi_received)
      <4>1. relaxed(d, value).data.anyon = d.anyon
        BY <1>1 DEF relaxed, conclude, Data
      <4>2. QED
        BY <2>2, <3>1, <4>1
    <3>2. CASE ~complete(d.phi_received)
      BY <1>1, <2>2, <3>2 DEF conclude, Data
    <3>3. QED
      BY <3>1, <3>2
  <2>4. QED
    BY <1>2, <2>2, <2>3, CarriesNone DEF d
<1>7. CASE r.phase = "comparing"
  <2>1. concl = comparing(m, d)
    BY <1>7 DEF conclusion, handle_cast, d
  <2>2. m.tag = "phi0" /\ concl.data = compared(m, d)
    BY <2>1 DEF comparing, conclude
  <2>3. compared(m, d).anyon = d.anyon
    BY <1>1 DEF compared, Data
  <2>4. QED
    BY <1>2, <2>2, <2>3, CarriesNone DEF d
<1>8. CASE r.phase = "flipping"
  <2>1. concl = flipping(m, d)
    BY <1>8 DEF conclusion, handle_cast, d
  <2>2. /\ m.tag = "anyon_move"
        /\ concl.data.anyon = xor(d.anyon, m.present)
    BY <1>1, <2>1 DEF flipping, conclude, Data
  <2>3. PICK s \in Counter, b \in {0, 1} : m = anyon_move(s, b)
    BY <2>2 DEF Message, phi_config, phi, phi0, phenom_anyon
  <2>4. m.present = b
    BY <2>3 DEF anyon_move
  <2>5. QED
    BY <2>2, <2>3, <2>4, CarriesAnyon DEF d
<1>9. QED
  BY <1>3, <1>4, <1>5, <1>6, <1>7, <1>8 DEF Phases

(* A consumed anyon joins the one the cell has.                            *)
LEMMA AnyonJoins ==
  ASSUME NEW r \in Runtime, NEW l \in Inbound, NEW k \in DOMAIN r.mailbox,
         NEW m, m = r.mailbox[k].message, NEW value \in Values,
         NEW concl, concl = conclusion(m, r, value),
         concl.directive = "consume"
  PROVE  xor(concl.data.anyon,
             unconsumed(l, RemoveAt(r.mailbox, k), anyons))
           = xor(r.data.anyon, unconsumed(l, r.mailbox, anyons))
<1> DEFINE q == r.mailbox
           n == unconsumed(l, q, anyons)
           b == one_if(m \in anyons)
           a == r.data.anyon
<1>1. q \in Seq(Entry) /\ a \in {0, 1} /\ b \in {0, 1}
  BY DEF Runtime, Data, one_if
<1>2. m \in Message
  <2>1. q[k] \in Entry
    BY <1>1
  <2>2. QED
    BY <2>1 DEF Entry
<1>3. n \in Nat /\ (m \in anyons => n >= 1)
  BY <1>1, Counted, Present
<1>4. n >= b
  BY <1>3 DEF one_if
<1>5. unconsumed(l, RemoveAt(q, k), anyons) = n - b
  BY <1>1, HandlingCounts
<1>6. concl.data.anyon = xor(a, b)
  BY <1>2, Absorbed
<1> HIDE DEF n, b, a
<1>7. xor(xor(a, b), n - b) = xor(a, n)
  BY <1>1, <1>3, <1>4 DEF xor
<1>8. QED
  BY <1>5, <1>6, <1>7 DEF n, a

(* What casts add to the messages of a set.                                *)
LEMMA CastsAdd ==
  ASSUME NEW L \in [Cells -> Inbound], NEW c \in Cells,
         NEW casts \in [Ports -> Message], NEW q \in Seq(Entry), NEW S
  PROVE  \A p \in Ports :
           unconsumed(cast_all(L, c, casts)[neighbor[c][p]], q, S)
             = unconsumed(L[neighbor[c][p]], q, S) + one_if(casts[p] \in S)
<1> DEFINE K == cast_all(L, c, casts)
<1>1. \A p \in Ports :
        K[neighbor[c][p]] = with_cast(L[neighbor[c][p]], c, casts[p])
  BY Casting
<1> HIDE DEF K
<1>2. ASSUME NEW p \in Ports
      PROVE  unconsumed(K[neighbor[c][p]], q, S)
               = unconsumed(L[neighbor[c][p]], q, S) + one_if(casts[p] \in S)
  <2> DEFINE m == casts[p]
             l == L[neighbor[c][p]]
  <2>1. c \in Senders /\ neighbor[c][p] \in Cells
    BY Edges
  <2>2. m \in Message /\ l \in Inbound
    BY <2>1
  <2>3. K[neighbor[c][p]] = with_cast(l, c, m)
    BY <1>1
  <2> HIDE DEF m, l
  <2>4. unconsumed(with_cast(l, c, m), q, S)
          = unconsumed(l, q, S) + one_if(m \in S)
    BY <2>1, <2>2, CastCounts DEF with_cast
  <2>5. QED
    BY <2>3, <2>4 DEF m, l
<1>3. QED
  BY <1>2 DEF K

(* A turn that only one cell notices.                                      *)
LEMMA CellExplains ==
  ASSUME NEW R \in [Cells -> Runtime], NEW L \in [Cells -> Inbound], NEW X,
         Explains(R, L, X), NEW c \in Cells,
         NEW t \in Runtime, NEW l \in Inbound, NEW y \in {0, 1},
         xor(t.data.anyon, unconsumed(l, t.mailbox, anyons)) = y
  PROVE  Explains([R EXCEPT ![c] = t], [L EXCEPT ![c] = l],
                  [X EXCEPT ![c] = y])
<1> DEFINE T == [R EXCEPT ![c] = t]
           K == [L EXCEPT ![c] = l]
           Y == [X EXCEPT ![c] = y]
<1>1. X \in [Cells -> {0, 1}]
  BY DEF Explains
<1>2. T[c] = t /\ K[c] = l /\ Y[c] = y /\ Y \in [Cells -> {0, 1}]
  BY <1>1
<1>3. \A d \in Cells \ {c} : T[d] = R[d] /\ K[d] = L[d] /\ Y[d] = X[d]
  BY <1>1
<1> HIDE DEF T, K, Y
<1>4. \A d \in Cells :
        xor(T[d].data.anyon, unconsumed(K[d], T[d].mailbox, anyons)) = Y[d]
  BY <1>2, <1>3 DEF Explains
<1>5. Explains(T, K, Y)
  BY <1>2, <1>4 DEF Explains
<1>6. QED
  BY <1>5 DEF T, K, Y

(* A turn whose casts reach the neighbors.                                 *)
LEMMA CastsExplain ==
  ASSUME NEW R \in [Cells -> Runtime], NEW L \in [Cells -> Inbound], NEW X,
         Explains(R, L, X), NEW c \in Cells, NEW t \in Runtime,
         NEW casts \in [Ports -> Message],
         NEW Y \in [Cells -> {0, 1}],
         xor(t.data.anyon, unconsumed(L[c], t.mailbox, anyons)) = Y[c],
         \A p \in Ports :
           Y[neighbor[c][p]] = xor(X[neighbor[c][p]],
                                   one_if(casts[p] \in anyons)),
         \A d \in Cells \ {c} :
           (\A p \in Ports : neighbor[c][p] # d) => Y[d] = X[d]
  PROVE  Explains([R EXCEPT ![c] = t], cast_all(L, c, casts), Y)
<1> DEFINE T == [R EXCEPT ![c] = t]
           K == cast_all(L, c, casts)
<1>1. T[c] = t /\ \A d \in Cells \ {c} : T[d] = R[d]
  OBVIOUS
<1>2. \A d \in Cells :
        R[d].mailbox \in Seq(Entry) /\ R[d].data.anyon \in {0, 1}
  BY DEF Runtime, Data
<1>3. t.mailbox \in Seq(Entry)
  BY DEF Runtime
<1> HIDE DEF T, K
<1>4. ASSUME NEW p \in Ports
      PROVE  LET d == neighbor[c][p]
             IN  xor(T[d].data.anyon, unconsumed(K[d], T[d].mailbox, anyons))
                   = Y[d]
  <2> DEFINE d == neighbor[c][p]
             a == R[d].data.anyon
             n == unconsumed(L[d], R[d].mailbox, anyons)
             b == one_if(casts[p] \in anyons)
  <2>1. d \in Cells /\ d # c
    BY Edges
  <2>2. /\ R[d].mailbox \in Seq(Entry) /\ a \in {0, 1} /\ L[d] \in Inbound
        /\ T[d] = R[d]
    BY <1>1, <1>2, <2>1
  <2>3. n \in Nat /\ b \in {0, 1}
    BY <2>2, Counted DEF one_if
  <2>4. xor(a, n) = X[d]
    BY <2>1 DEF Explains
  <2>5. unconsumed(K[d], R[d].mailbox, anyons) = n + b
    BY <2>2, CastsAdd DEF K
  <2>6. Y[d] = xor(X[d], b)
    OBVIOUS
  <2>7. xor(a, n + b) = xor(xor(a, n), b)
    <3>1. a \in {0, 1}
      BY <2>2
    <3> HIDE DEF n, b, a, d
    <3>2. QED
      BY <2>3, <3>1 DEF xor
  <2>8. QED
    BY <2>2, <2>4, <2>5, <2>6, <2>7
<1>5. ASSUME NEW d \in Cells, \A p \in Ports : neighbor[c][p] # d
      PROVE  xor(T[d].data.anyon, unconsumed(K[d], T[d].mailbox, anyons))
               = Y[d]
  <2>1. K[d] = L[d]
    BY <1>5, Casting DEF K
  <2>2. CASE d = c
    BY <1>1, <2>1, <2>2
  <2>3. CASE d # c
    BY <1>1, <1>5, <2>1, <2>3 DEF Explains
  <2>4. QED
    BY <2>2, <2>3
<1>6. Explains(T, K, Y)
  <2>1. \A d \in Cells :
          xor(T[d].data.anyon, unconsumed(K[d], T[d].mailbox, anyons)) = Y[d]
    BY <1>4, <1>5
  <2>2. QED
    BY <2>1 DEF Explains
<1>7. QED
  BY <1>6 DEF T, K

(* What a turn does, with what its message is to the cell.                 *)
Within(c, r, k, L, e, concl) ==
  /\ \/ Holds(r, r.mailbox[k].message, concl, e)
     \/ Counts(r, r.mailbox[k].message, concl, e)
  /\ rt' = [rt EXCEPT ![c] = process_message(r, k, concl, concl.data)]
  /\ link' = L /\ expected' = expected

Into(c, r, k, L, e, concl) ==
  /\ Enters(r, r.mailbox[k].message, concl, e)
  /\ \/ /\ next_phase(r, concl) = "gathering"
        /\ enter_gathering(c, r, k, concl, L)
     \/ /\ next_phase(r, concl) = "comparing"
        /\ enter_comparing(c, r, k, concl, L)
     \/ /\ next_phase(r, concl) = "flipping"
        /\ enter_flipping(c, r, k, concl, L)

Asks(c, r, k, L, e, concl) ==
  /\ Measures(r, r.mailbox[k].message, concl, e)
  /\ enter_measuring(c, r, k, concl, L)

(* There are these kinds of turn.                                          *)
LEMMA TurnIs ==
  ASSUME NEW c \in Cells, NEW r \in Runtime, rt \in [Cells -> Runtime],
         NEW L, NEW h, Fits([rt EXCEPT ![c] = r], L, h),
         NEW k \in DOMAIN r.mailbox, process(c, r, k, L)
  PROVE  \E value \in Values : \E concl :
           /\ concl = conclusion(r.mailbox[k].message, r, value)
           /\ \/ Within(c, r, k, L, h[c], concl)
              \/ Into(c, r, k, L, h[c], concl)
              \/ Asks(c, r, k, L, h[c], concl)
<1> DEFINE m == r.mailbox[k].message
           e == h[c]
<1>1. PICK value \in Values :
        LET concl == handle_cast(m, r.phase, r.data, value)
            phase == next_phase(r, concl)
        IN  IF concl.directive = "fail" \/ ~boundary(r, concl)
            THEN /\ rt' = [rt EXCEPT ![c] =
                             process_message(r, k, concl, concl.data)]
                 /\ link' = L /\ expected' = expected
            ELSE \/ phase = "measuring" /\ enter_measuring(c, r, k, concl, L)
                 \/ phase = "gathering" /\ enter_gathering(c, r, k, concl, L)
                 \/ phase = "comparing" /\ enter_comparing(c, r, k, concl, L)
                 \/ phase = "flipping" /\ enter_flipping(c, r, k, concl, L)
  BY DEF process
<1> DEFINE concl == conclusion(m, r, value)
           phase == next_phase(r, concl)
<1>2. /\ concl.directive = "fail" \/ ~boundary(r, concl) =>
           /\ rt' = [rt EXCEPT ![c] =
                       process_message(r, k, concl, concl.data)]
           /\ link' = L /\ expected' = expected
      /\ concl.directive # "fail" /\ boundary(r, concl) =>
           \/ phase = "measuring" /\ enter_measuring(c, r, k, concl, L)
           \/ phase = "gathering" /\ enter_gathering(c, r, k, concl, L)
           \/ phase = "comparing" /\ enter_comparing(c, r, k, concl, L)
           \/ phase = "flipping" /\ enter_flipping(c, r, k, concl, L)
  BY <1>1 DEF conclusion
<1>3. /\ h \in [Cells -> Nat] /\ CellInv(c, r, L[c], h)
      /\ L \in [Cells -> Inbound] /\ L[c] \in Inbound
  BY DEF Fits
<1>4. Concluded(r, m, concl, e)
  BY <1>3, EveryConclusion
<1>5. SUFFICES \/ Within(c, r, k, L, e, concl) \/ Into(c, r, k, L, e, concl)
               \/ Asks(c, r, k, L, e, concl)
  OBVIOUS
<1> HIDE DEF concl, phase
<1>6. CASE Holds(r, m, concl, e) \/ Counts(r, m, concl, e)
  <2>1. ~boundary(r, concl)
    <3>1. concl.phase = r.phase
      BY <1>6 DEF Holds, Counts, conclude
    <3>2. r.phase # "repeat_phase"
      BY DEF Runtime, Phases
    <3>3. QED
      BY <3>1, <3>2 DEF boundary
  <2>2. QED
    BY <1>2, <1>6, <2>1 DEF Within
<1>7. CASE Measures(r, m, concl, e)
  BY <1>2, <1>7 DEF Measures, Asks, phase
<1>8. CASE Enters(r, m, concl, e)
  BY <1>2, <1>8 DEF Enters, Into, phase
<1>9. QED
  BY <1>4, <1>6, <1>7, <1>8 DEF Concluded

(* One turn of a cell's scheduler explains what it leaves.                 *)
LEMMA TurnExplains ==
  ASSUME NEW c \in Cells, NEW r \in Runtime, r.lifecycle = "connected",
         rt \in [Cells -> Runtime], NEW L, NEW h,
         Fits([rt EXCEPT ![c] = r], L, h),
         Explains([rt EXCEPT ![c] = r], L, expected),
         NEW k \in DOMAIN r.mailbox, process(c, r, k, L)
  PROVE  Explains(rt', link', expected')
<1> DEFINE R == [rt EXCEPT ![c] = r]
           X == expected
           l == L[c]
           m == r.mailbox[k].message
           e == h[c]
           n == unconsumed(l, r.mailbox, anyons)
<1>1. /\ R \in [Cells -> Runtime] /\ R[c] = r /\ Explains(R, L, X)
      /\ \A t : [rt EXCEPT ![c] = t] = [R EXCEPT ![c] = t]
  OBVIOUS
<1>2. /\ h \in [Cells -> Nat] /\ CellInv(c, r, l, h)
      /\ L \in [Cells -> Inbound] /\ l \in Inbound
  BY <1>1 DEF Fits
<1>3. X \in [Cells -> {0, 1}] /\ X[c] \in {0, 1} /\ xor(r.data.anyon, n) = X[c]
  BY <1>1 DEF Explains
<1>4. PICK value \in Values : \E concl :
        /\ concl = conclusion(m, r, value)
        /\ \/ Within(c, r, k, L, e, concl) \/ Into(c, r, k, L, e, concl)
           \/ Asks(c, r, k, L, e, concl)
  BY TurnIs
<1>5. PICK concl :
        /\ concl = conclusion(m, r, value)
        /\ \/ Within(c, r, k, L, e, concl) \/ Into(c, r, k, L, e, concl)
           \/ Asks(c, r, k, L, e, concl)
  BY <1>4
<1>6. r.mailbox \in Seq(Entry)
  BY DEF Runtime
<1>11. ASSUME Enters(r, m, concl, e) \/ Measures(r, m, concl, e),
              NEW d \in entered_data(concl)
      PROVE  /\ process_message(r, k, concl, d) \in Runtime
             /\ process_message(r, k, concl, d).data = d
             /\ concl.data \in Data
             /\ xor(concl.data.anyon,
                    unconsumed(l, process_message(r, k, concl, d).mailbox,
                               anyons)) = X[c]
  <2> DEFINE t == process_message(r, k, concl, d)
             q == RemoveAt(r.mailbox, k)
  <2>1. /\ c \in Cells /\ r \in Runtime /\ r.lifecycle = "connected"
        /\ k \in DOMAIN r.mailbox /\ value \in Values
        /\ concl = conclusion(m, r, value)
    BY <1>5
  <2> HIDE DEF l
  <2>2. /\ t \in Runtime /\ t.data = d /\ t.mailbox = released(q)
        /\ concl.data \in Data /\ concl.directive = "consume"
        /\ q \in Seq(Entry)
    <3>1. /\ concl.directive = "consume" /\ boundary(r, concl)
          /\ concl.data \in Data /\ next_phase(r, concl) \in Phases
          /\ Completes(r, m, h[c]) /\ d \in entered_data(concl)
      BY <1>11 DEF Enters, Measures, Phases
    <3> HIDE DEF Completes
    <3>2. q \in Seq(Entry) /\ t \in Runtime
          /\ t.mailbox = released(q) /\ t.data = d
      BY <1>2, <2>1, <3>1, TurnAcross DEF m, q, t
    <3>3. QED
      BY <3>1, <3>2
  <2>3. xor(concl.data.anyon, unconsumed(l, q, anyons)) = X[c]
    <3>1. xor(concl.data.anyon, unconsumed(l, q, anyons))
            = xor(r.data.anyon, n)
      BY <1>2, <2>1, <2>2, AnyonJoins DEF m, n, q
    <3>2. QED
      BY <1>3, <3>1
  <2> HIDE DEF t, q
  <2>4. unconsumed(l, t.mailbox, anyons) = unconsumed(l, q, anyons)
    BY <1>2, <2>2, Released
  <2>5. QED
    BY <2>2, <2>3, <2>4 DEF t
<1> HIDE DEF R, X, l, m, n
<1>7. CASE Within(c, r, k, L, e, concl)
  <2> DEFINE t == process_message(r, k, concl, concl.data)
  <2>1. /\ Holds(r, m, concl, e) \/ Counts(r, m, concl, e)
        /\ rt' = [R EXCEPT ![c] = t] /\ link' = L /\ expected' = X
    BY <1>1, <1>7 DEF Within, m, X
  <2>2. ~boundary(r, concl) /\ t \in Runtime
    BY <1>2, <2>1, TurnWithin DEF m
  <2>3. xor(t.data.anyon, unconsumed(l, t.mailbox, anyons)) = X[c]
    <3>1. CASE Holds(r, m, concl, e)
      <4>1. concl.directive = "postpone" /\ concl.data = r.data
        BY <3>1 DEF Holds, conclude
      <4>2. t.data = r.data /\ t.mailbox = held_back(r.mailbox, k)
        BY <2>2, <4>1 DEF process_message, settled, held_back, Runtime
      <4>3. unconsumed(l, held_back(r.mailbox, k), anyons) = n
        BY <1>6, Postponed DEF n
      <4>4. QED
        BY <1>3, <4>2, <4>3
    <3>2. CASE Counts(r, m, concl, e)
      <4>1. concl.directive = "consume"
        BY <3>2 DEF Counts
      <4>2. t.data = concl.data /\ t.mailbox = RemoveAt(r.mailbox, k)
        BY <2>2, <4>1 DEF process_message, settled, Runtime
      <4>3. xor(concl.data.anyon,
                unconsumed(l, RemoveAt(r.mailbox, k), anyons))
              = xor(r.data.anyon, n)
        BY <1>2, <1>5, <4>1, AnyonJoins DEF m, n
      <4>4. QED
        BY <1>3, <4>2, <4>3
    <3>3. QED
      BY <2>1, <3>1, <3>2
  <2> HIDE DEF t
  <2>4. Explains([R EXCEPT ![c] = t], [L EXCEPT ![c] = l],
                 [X EXCEPT ![c] = X[c]])
    BY <1>1, <1>2, <1>3, <2>2, <2>3, CellExplains
  <2>5. [L EXCEPT ![c] = l] = L /\ [X EXCEPT ![c] = X[c]] = X
    BY <1>2, <1>3 DEF l
  <2>6. QED
    BY <2>1, <2>4, <2>5
<1>8. CASE Asks(c, r, k, L, e, concl)
  <2>1. PICK b \in {0, 1} :
          /\ rt' = [R EXCEPT ![c] =
                      process_message(r, k, concl, concl.data)]
          /\ link' = [L EXCEPT ![c]["syndrome"] =
                        Append(@, phenom_anyon(concl.data.step, b))]
          /\ expected' = IF b = 1 THEN flip(X, {c}) ELSE X
    BY <1>1, <1>8 DEF Asks, enter_measuring, X
  <2> DEFINE t == process_message(r, k, concl, concl.data)
             x == phenom_anyon(concl.data.step, b)
             u == with_cast(l, "syndrome", x)
             y == xor(X[c], b)
  <2>2. Measures(r, m, concl, e) /\ concl.data \in entered_data(concl)
    BY <1>8 DEF Asks, m, entered_data
  <2>3. /\ t \in Runtime /\ t.data = concl.data /\ concl.data \in Data
        /\ xor(concl.data.anyon, unconsumed(l, t.mailbox, anyons)) = X[c]
    BY <1>11, <2>2
  <2>4. concl.data.step \in Counter /\ concl.data.anyon \in {0, 1}
    BY <2>3 DEF Data
  <2>5. x \in Message /\ one_if(x \in anyons) = b
    BY <2>4, CarriesAnyon DEF Message
  <2>6. t.mailbox \in Seq(Entry)
    BY <2>3 DEF Runtime
  <2> HIDE DEF t, x
  <2>7. u \in Inbound /\ unconsumed(u, t.mailbox, anyons)
                           = unconsumed(l, t.mailbox, anyons) + b
    <3>1. "syndrome" \in Senders
      BY DEF Senders
    <3>2. unconsumed(u, t.mailbox, anyons)
            = unconsumed(l, t.mailbox, anyons) + one_if(x \in anyons)
      BY <1>2, <2>5, <2>6, <3>1, CastCounts DEF with_cast
    <3>3. u \in Inbound
      BY <1>2, <2>5, <2>6, <3>1, CastCounts DEF with_cast
    <3>4. QED
      BY <2>5, <3>2, <3>3
  <2>8. unconsumed(l, t.mailbox, anyons) \in Nat
    BY <1>2, <2>6, Counted
  <2>9. xor(t.data.anyon, unconsumed(u, t.mailbox, anyons)) = y
    BY <2>3, <2>4, <2>7, <2>8, Parities
  <2>10. y \in {0, 1}
    BY <1>3, Parities
  <2> HIDE DEF u, y
  <2>11. Explains([R EXCEPT ![c] = t], [L EXCEPT ![c] = u],
                  [X EXCEPT ![c] = y])
    BY <1>1, <1>2, <2>3, <2>7, <2>9, <2>10, CellExplains
  <2>12. link' = [L EXCEPT ![c] = u]
    BY <1>2, <2>1 DEF u, x, l, with_cast
  <2>13. expected' = [X EXCEPT ![c] = y]
    <3>1. b = 0 => y = X[c]
      BY <1>3, Parities DEF y
    <3>2. CASE b = 0
      BY <1>3, <2>1, <3>1, <3>2
    <3>3. CASE b = 1
      BY <1>3, <2>1, <3>3 DEF flip, y
    <3>4. QED
      BY <3>2, <3>3
  <2>14. QED
    BY <2>1, <2>11, <2>12, <2>13 DEF t
<1>9. CASE Into(c, r, k, L, e, concl)
  <2>1. Enters(r, m, concl, e)
    BY <1>9 DEF Into, m
  <2>2. ASSUME NEW d \in entered_data(concl)
        PROVE  /\ process_message(r, k, concl, d) \in Runtime
               /\ process_message(r, k, concl, d).data = d
               /\ concl.data \in Data
               /\ xor(concl.data.anyon,
                      unconsumed(l, process_message(r, k, concl, d).mailbox,
                                 anyons)) = X[c]
    BY <1>11, <2>1, <2>2
  <2>3. concl.data \in entered_data(concl)
    BY DEF entered_data
  <2>4. concl.data \in Data
    BY <2>2, <2>3
  <2>5. /\ concl.data.step \in Counter /\ concl.data.anyon \in {0, 1}
        /\ concl.data.best_direction \in Ports \cup {NoDirection}
    BY <2>4 DEF Data
  <2>6. ASSUME NEW casts \in [Ports -> Message],
               rt' = [R EXCEPT ![c] =
                        process_message(r, k, concl, concl.data)],
               link' = cast_all(L, c, casts), expected' = X,
               \A p \in Ports : one_if(casts[p] \in anyons) = 0
        PROVE  Explains(rt', link', expected')
    <3> DEFINE t == process_message(r, k, concl, concl.data)
    <3>1. /\ t \in Runtime
          /\ xor(t.data.anyon, unconsumed(l, t.mailbox, anyons)) = X[c]
      BY <2>2, <2>3
    <3> HIDE DEF t
    <3>2. \A p \in Ports : X[neighbor[c][p]]
                             = xor(X[neighbor[c][p]],
                                   one_if(casts[p] \in anyons))
      <4>1. \A p \in Ports : X[neighbor[c][p]] \in {0, 1}
        BY <1>3, Edges
      <4>2. QED
        BY <2>6, <4>1 DEF xor
    <3>3. Explains([R EXCEPT ![c] = t], cast_all(L, c, casts), X)
      BY <1>1, <1>2, <1>3, <3>1, <3>2, CastsExplain DEF l
    <3>4. QED
      BY <2>6, <3>3 DEF t
  <2> DEFINE w == with_phase(r, concl)
  <2>7. /\ w \in Runtime /\ w.phase = next_phase(r, concl)
        /\ w.data = concl.data /\ at(w, e + 1)
        /\ next_phase(r, concl) = "comparing" => w.data.phi0 \in Values
    BY <2>1, Reached DEF Enters, Phases
  <2>8. /\ e + 1 \in Int /\ of_exchange(e + 1) \subseteq Message
        /\ Ports # {} /\ \A p \in Ports : opposite[p] \in Ports
    BY <1>2, Exchanged, PhiMeshAssumption
  <2> HIDE DEF w
  <2>9. CASE /\ next_phase(r, concl) = "gathering"
             /\ enter_gathering(c, r, k, concl, L)
    <3> DEFINE x == phi(epoch_of(concl.data, 0))
               casts == [p \in Ports |-> x]
    <3>1. x \in Message
      BY <2>7, <2>8, <2>9, CastsOfExchange
    <3>2. one_if(x \in anyons) = 0
      BY CarriesNone DEF phi
    <3>3. /\ rt' = [R EXCEPT ![c] = process_message(r, k, concl, concl.data)]
          /\ link' = cast_all(L, c, casts) /\ expected' = X
      BY <1>1, <2>9 DEF enter_gathering, X
    <3> HIDE DEF x
    <3>4. casts \in [Ports -> Message]
      BY <3>1
    <3>5. QED
      BY <2>6, <3>2, <3>3, <3>4
  <2>10. CASE /\ next_phase(r, concl) = "comparing"
              /\ enter_comparing(c, r, k, concl, L)
    <3> DEFINE d == concl.data
               x(p) == phi0(d.step, opposite[p], d.phi0)
               casts == [p \in Ports |-> x(p)]
    <3>1. \A p \in Ports : x(p) \in Message
      BY <2>7, <2>8, <2>10, CastsOfExchange
    <3>2. \A p \in Ports : one_if(x(p) \in anyons) = 0
      <4>1. \A p \in Ports : x(p).tag = "phi0"
        BY DEF phi0
      <4> HIDE DEF x
      <4>2. QED
        BY <4>1, CarriesNone
    <3>3. /\ rt' = [R EXCEPT ![c] = process_message(r, k, concl, concl.data)]
          /\ link' = cast_all(L, c, casts) /\ expected' = X
      BY <1>1, <2>10 DEF enter_comparing, X
    <3> HIDE DEF x
    <3>4. casts \in [Ports -> Message]
      BY <3>1
    <3>5. \A p \in Ports : one_if(casts[p] \in anyons) = 0
      BY <3>2
    <3> HIDE DEF casts
    <3>6. QED
      BY <2>6, <3>3, <3>4, <3>5
  <2>11. CASE /\ next_phase(r, concl) = "flipping"
              /\ enter_flipping(c, r, k, concl, L)
    <3> DEFINE d == concl.data
               best == d.best_direction
    <3>1. PICK heads \in BOOLEAN :
            LET move == d.anyon = 1 /\ best # NoDirection /\ heads
                present(p) == IF move /\ p = best THEN 1 ELSE 0
            IN  /\ rt' = [R EXCEPT ![c] = process_message(r, k, concl,
                                                         departed(d, move))]
                /\ link' = cast_all(L, c,
                             [p \in Ports |-> anyon_move(d.step, present(p))])
                /\ expected' = IF move THEN flip(X, {c, neighbor[c][best]})
                               ELSE X
      BY <1>1, <2>11 DEF enter_flipping, X
    <3> DEFINE move == d.anyon = 1 /\ best # NoDirection /\ heads
               present(p) == IF move /\ p = best THEN 1 ELSE 0
               x(p) == anyon_move(d.step, present(p))
               casts == [p \in Ports |-> x(p)]
               f == departed(d, move)
               t == process_message(r, k, concl, f)
               Y == expected'
               z == unconsumed(l, t.mailbox, anyons)
    <3>2. /\ rt' = [R EXCEPT ![c] = t] /\ link' = cast_all(L, c, casts)
          /\ Y = IF move THEN flip(X, {c, neighbor[c][best]}) ELSE X
      BY <3>1
    <3>3. f \in entered_data(concl) /\ f = departed(d, move)
      BY DEF departed, entered_data
    <3>4. \A p \in Ports : present(p) \in {0, 1}
      OBVIOUS
    <3>5. d.step \in Counter /\ d.anyon \in {0, 1} /\ d \in Data
          /\ best \in Ports \cup {NoDirection}
      BY <2>4, <2>5
    <3>6. \A p \in Ports :
            x(p) \in Message /\ one_if(x(p) \in anyons) = present(p)
      <4> SUFFICES ASSUME NEW p \in Ports
                   PROVE  /\ x(p) \in Message
                          /\ one_if(x(p) \in anyons) = present(p)
        OBVIOUS
      <4>1. present(p) \in {0, 1}
        BY <3>4
      <4> HIDE DEF present, d
      <4>2. QED
        BY <3>5, <4>1, CarriesAnyon DEF Message
    <3>7. t \in Runtime /\ t.data = f /\ xor(d.anyon, z) = X[c]
      <4> HIDE DEF f
      <4>1. QED
        BY <2>2, <3>3
    <3>8. z \in Nat
      <4>1. t.mailbox \in Seq(Entry)
        BY <3>7 DEF Runtime
      <4> HIDE DEF t
      <4>2. QED
        BY <1>2, <4>1, Counted
    <3> HIDE DEF t, z, x, f
    <3>9. casts \in [Ports -> Message]
          /\ \A p \in Ports : one_if(casts[p] \in anyons) = present(p)
      BY <3>6
    <3> HIDE DEF casts
    <3>10. Explains([R EXCEPT ![c] = t], cast_all(L, c, casts), Y)
      <4>1. CASE ~move
        <5>1. t.data.anyon = d.anyon /\ Y = X
          BY <3>2, <3>3, <3>7, <4>1 DEF departed
        <5>2. \A p \in Ports : one_if(casts[p] \in anyons) = 0
          BY <3>9, <4>1
        <5>3. \A p \in Ports : X[neighbor[c][p]]
                                 = xor(X[neighbor[c][p]],
                                       one_if(casts[p] \in anyons))
          <6>1. \A p \in Ports : X[neighbor[c][p]] \in {0, 1}
            BY <1>3, Edges
          <6>2. QED
            BY <5>2, <6>1 DEF xor
        <5>4. xor(t.data.anyon, z) = X[c]
          BY <3>7, <5>1
        <5>5. Explains([R EXCEPT ![c] = t], cast_all(L, c, casts), X)
          BY <1>1, <1>2, <1>3, <3>7, <3>9, <5>3, <5>4, CastsExplain DEF l, z
        <5>6. QED
          BY <5>1, <5>5
      <4>2. CASE move
        <5>1. best \in Ports /\ neighbor[c][best] \in Cells
              /\ neighbor[c][best] # c
          BY <3>5, <4>2, Edges
        <5>2. Y = flip(X, {c, neighbor[c][best]})
          BY <3>2, <4>2
        <5>3. /\ Y \in [Cells -> {0, 1}] /\ Y[c] = xor(X[c], 1)
              /\ Y[neighbor[c][best]] = xor(X[neighbor[c][best]], 1)
              /\ \A v \in Cells \ {c, neighbor[c][best]} : Y[v] = X[v]
          BY <1>3, <5>1, <5>2 DEF flip, xor
        <5>4. t.data.anyon = xor(d.anyon, 1)
          BY <3>3, <3>5, <3>7, <4>2 DEF departed, Data
        <5>5. xor(t.data.anyon, z) = Y[c]
          <6> HIDE DEF d, Y
          <6>1. QED
            BY <3>5, <3>7, <3>8, <5>3, <5>4 DEF xor
        <5>6. ASSUME NEW p \in Ports
              PROVE  Y[neighbor[c][p]] = xor(X[neighbor[c][p]],
                                             one_if(casts[p] \in anyons))
          <6>1. CASE p = best
            BY <3>9, <4>2, <5>3, <6>1
          <6>2. CASE p # best
            <7>1. /\ neighbor[c][p] \in Cells
                  /\ neighbor[c][p] \notin {c, neighbor[c][best]}
              <8>1. neighbor[c][p] \in Cells /\ neighbor[c][p] # c
                BY Edges
              <8> HIDE DEF best
              <8>2. neighbor[c][p] # neighbor[c][best]
                BY <5>1, <6>2, PhiMeshAssumption
              <8>3. QED
                BY <8>1, <8>2
            <7>2. one_if(casts[p] \in anyons) = 0
              BY <3>9, <6>2
            <7>3. X[neighbor[c][p]] \in {0, 1}
              BY <1>3, <7>1
            <7> HIDE DEF Y
            <7>4. QED
              BY <5>3, <7>1, <7>2, <7>3 DEF xor
          <6>3. QED
            BY <6>1, <6>2
        <5>7. \A v \in Cells \ {c} :
                (\A p \in Ports : neighbor[c][p] # v) => Y[v] = X[v]
          BY <5>1, <5>3
        <5> HIDE DEF Y
        <5>8. QED
          BY <1>1, <1>2, <3>7, <3>9, <5>3, <5>5, <5>6, <5>7, CastsExplain
            DEF l, z
      <4>3. QED
        BY <4>1, <4>2
    <3>11. QED
      BY <3>2, <3>10
  <2>12. QED
    BY <1>9, <2>9, <2>10, <2>11 DEF Into
<1>10. QED
  BY <1>5, <1>7, <1>8, <1>9
-----------------------------------------------------------------------------
(* Fields and their comparison.                                            *)
(* The fields of the neighbors of c, and the messages that say otherwise.  *)
fields(c, R) == [p \in Ports |-> R[neighbor[c][p]].data.phi0]

stale(f) == {m \in Message : m.tag = "phi0" /\ m.value # f[m.source]}

(* The best of the fields seen is the greatest, and its direction the only *)
(* one that has it.                                                        *)
Best(d, f) ==
  d.seen_sources # {} =>
    /\ \A p \in d.seen_sources : f[p] <= d.best_phi0
    /\ d.best_direction \in Ports =>
         /\ d.best_direction \in d.seen_sources
         /\ f[d.best_direction] = d.best_phi0
         /\ \A p \in d.seen_sources \ {d.best_direction} :
              f[p] # d.best_phi0
    /\ d.best_direction \notin Ports =>
         \E p \in d.seen_sources : \E q \in d.seen_sources \ {p} :
           f[p] = d.best_phi0 /\ f[q] = d.best_phi0

Sound(r, l, f) ==
  /\ unconsumed(l, r.mailbox, stale(f)) = 0
  /\ r.phase \in {"comparing", "flipping"} => Best(r.data, f)
  /\ r.phase = "flipping" => r.data.seen_sources = Ports

Compares(R, L) == \A c \in Cells : Sound(R[c], L[c], fields(c, R))

(* One more field keeps the best the best.                                 *)
LEMMA BestGrows ==
  ASSUME NEW d \in Data, NEW f \in [Ports -> Nat], Best(d, f), NEW m,
         m.source \in Ports \ d.seen_sources, m.value = f[m.source]
  PROVE  Best(compared(m, d), f)
<1> DEFINE seen == d.seen_sources
           best == d.best_phi0
           dir == d.best_direction
           p == m.source
           v == m.value
           better == seen = {} \/ v > best
           u == compared(m, d)
           toward == IF better THEN p
                     ELSE IF v = best THEN NoDirection ELSE dir
<1>1. /\ seen \in SUBSET Ports /\ best \in Nat
      /\ dir \in Ports \cup {NoDirection} /\ p \in Ports /\ p \notin seen
      /\ v = f[p] /\ v \in Nat /\ NoDirection \notin Ports
  BY PhiMeshAssumption DEF Data
<1>2. /\ u.seen_sources = seen \cup {p}
      /\ u.best_phi0 = IF better THEN v ELSE best
      /\ u.best_direction = toward
  BY DEF compared, Data
<1>3. seen # {} =>
        /\ \A x \in seen : f[x] <= best
        /\ dir \in Ports =>
             dir \in seen /\ f[dir] = best
               /\ \A x \in seen \ {dir} : f[x] # best
        /\ dir \notin Ports =>
             \E x \in seen : \E y \in seen \ {x} : f[x] = best /\ f[y] = best
  BY DEF Best
<1>4. \A x \in seen : f[x] \in Nat
  BY <1>1
<1> HIDE DEF u, seen, best, dir, p, v
<1>5. CASE better
  <2>1. \A x \in seen : f[x] <= v /\ f[x] # v
    BY <1>1, <1>3, <1>4, <1>5
  <2>2. u.seen_sources = seen \cup {p} /\ u.best_phi0 = v
          /\ u.best_direction = p
    BY <1>2, <1>5
  <2>3. QED
    BY <1>1, <2>1, <2>2 DEF Best, u
<1>6. CASE ~better /\ v = best
  <2>1. u.seen_sources = seen \cup {p} /\ u.best_phi0 = best
          /\ u.best_direction = NoDirection
    BY <1>2, <1>6
  <2>2. \A x \in seen \cup {p} : f[x] <= best
    BY <1>1, <1>3, <1>6
  <2>3. \E x \in seen \cup {p} : \E y \in (seen \cup {p}) \ {x} :
          f[x] = best /\ f[y] = best
    <3>1. CASE dir \in Ports
      <4>1. dir \in seen /\ f[dir] = best /\ f[p] = best /\ dir # p
        BY <1>1, <1>3, <1>6, <3>1
      <4>2. QED
        BY <4>1
    <3>2. CASE dir \notin Ports
      BY <1>3, <1>6, <3>2
    <3>3. QED
      BY <3>1, <3>2
  <2>4. QED
    BY <1>1, <2>1, <2>2, <2>3 DEF Best, u
<1>7. CASE ~better /\ v # best
  <2>1. u.seen_sources = seen \cup {p} /\ u.best_phi0 = best
          /\ u.best_direction = dir
    BY <1>2, <1>7
  <2>2. v < best /\ seen # {}
    BY <1>1, <1>7
  <2>3. QED
    BY <1>1, <1>3, <2>1, <2>2 DEF Best, u
<1>8. QED
  BY <1>5, <1>6, <1>7

(* What a cell has seen decides which field is the best.                   *)
LEMMA BestOfSeen ==
  ASSUME NEW d \in Data, NEW f, NEW g, Best(d, f),
         \A p \in d.seen_sources : g[p] = f[p],
         NEW x, x.seen_sources = d.seen_sources, x.best_phi0 = d.best_phi0,
         x.best_direction = d.best_direction
  PROVE  Best(x, g)
BY DEF Best

(* The best of all fields is the winner, if there is one.                  *)
LEMMA BestWins ==
  ASSUME NEW d \in Data, NEW f \in [Ports -> Nat], Best(d, f),
         d.seen_sources = Ports
  PROVE  LET wins(p) == \A q \in Ports \ {p} : f[p] > f[q]
         IN  IF \E p \in Ports : wins(p)
             THEN d.best_direction \in Ports /\ wins(d.best_direction)
             ELSE d.best_direction = NoDirection
<1> DEFINE dir == d.best_direction
           best == d.best_phi0
           wins(p) == \A q \in Ports \ {p} : f[p] > f[q]
<1>1. /\ best \in Nat /\ dir \in Ports \cup {NoDirection} /\ Ports # {}
      /\ \A p \in Ports : f[p] \in Nat
  BY PhiMeshAssumption DEF Data
<1>2. /\ \A p \in Ports : f[p] <= best
      /\ dir \in Ports => f[dir] = best
                            /\ \A p \in Ports \ {dir} : f[p] # best
      /\ dir \notin Ports =>
           \E p \in Ports : \E q \in Ports \ {p} : f[p] = best /\ f[q] = best
  BY <1>1 DEF Best
<1> HIDE DEF dir, best
<1>3. CASE dir \in Ports
  <2>1. wins(dir)
    BY <1>1, <1>2, <1>3
  <2>2. QED
    BY <1>3, <2>1 DEF dir
<1>4. CASE dir \notin Ports
  <2>1. PICK p \in Ports : \E q \in Ports \ {p} : f[p] = best /\ f[q] = best
    BY <1>2, <1>4
  <2>2. PICK q \in Ports \ {p} : f[p] = best /\ f[q] = best
    BY <2>1
  <2>3. ASSUME NEW x \in Ports, wins(x)
        PROVE  FALSE
    <3>1. CASE x = p
      BY <1>1, <2>2, <2>3, <3>1
    <3>2. CASE x # p
      <4>1. f[x] > f[p] /\ f[x] <= best
        BY <1>2, <2>3, <3>2
      <4>2. QED
        BY <1>1, <2>2, <4>1
    <3>3. QED
      BY <3>1, <3>2
  <2>4. QED
    BY <1>1, <1>4, <2>3 DEF dir
<1>5. QED
  BY <1>3, <1>4

(* A field names its port.                                                 *)
LEMMA FieldMessage ==
  ASSUME NEW m \in Message, m.tag = "phi0"
  PROVE  m.source \in Ports /\ m.value \in Nat
<1>1. PICK s \in Counter, p \in Ports, v \in Values : m = phi0(s, p, v)
  BY DEF Message, phi_config, phi, phenom_anyon, anyon_move
<1>2. m.source = p /\ m.value = v
  BY <1>1 DEF phi0
<1>3. QED
  BY <1>2, PhiMeshAssumption

(* What handle_cast/3 makes of the comparison when it consumes a message.  *)
LEMMA Handled ==
  ASSUME NEW r \in Runtime, NEW m \in Message, NEW value \in Values,
         NEW f \in [Ports -> Nat], m \notin stale(f),
         r.phase \in {"comparing", "flipping"} => Best(r.data, f),
         r.phase = "flipping" => r.data.seen_sources = Ports,
         NEW concl, concl = conclusion(m, r, value),
         concl.directive = "consume"
  PROVE  /\ concl.phase \in {"comparing", "flipping"} => Best(concl.data, f)
         /\ concl.phase = "flipping" => concl.data.seen_sources = Ports
         /\ concl.phase = "comparing" /\ r.phase # "comparing" =>
              concl.data.seen_sources = {}
         /\ concl.phase # "comparing" \/ r.phase = "comparing" =>
              concl.data.phi0 = r.data.phi0
         /\ concl.phase = "repeat_phase" => r.phase = "gathering"
<1> DEFINE d == r.data
<1>1. d \in Data
  BY DEF Runtime
<1>2. r.phase \in Phases
  BY DEF Runtime
<1> HIDE DEF d
<1>3. CASE r.phase = "configuring"
  <2>1. concl = configuring(m, d)
    BY <1>3 DEF conclusion, handle_cast, d
  <2>2. concl = conclude("measuring", d, "consume")
    BY <2>1 DEF configuring, conclude
  <2>3. QED
    BY <2>2 DEF conclude, d
<1>4. CASE r.phase = "measuring"
  <2>1. concl = measuring(m, d)
    BY <1>4 DEF conclusion, handle_cast, d
  <2>2. concl = conclude("gathering", [d EXCEPT !.anyon = xor(@, m.present)],
                         "consume")
    BY <2>1 DEF measuring, conclude
  <2>3. concl.phase = "gathering" /\ concl.data.phi0 = d.phi0
    BY <1>1, <2>2 DEF conclude, Data
  <2>4. QED
    BY <2>3 DEF d
<1>5. CASE r.phase = "gathering"
  <2>1. concl = gathering(m, d, value)
    BY <1>5 DEF conclusion, handle_cast, d
  <2>2. concl = IF complete(d.phi_received) THEN relaxed(d, value)
                ELSE conclude("gathering", [d EXCEPT !.phi_received = @ + 1],
                              "consume")
    BY <2>1 DEF gathering, conclude
  <2>3. CASE ~complete(d.phi_received)
    <3>1. concl.phase = "gathering" /\ concl.data.phi0 = d.phi0
      BY <1>1, <2>2, <2>3 DEF conclude, Data
    <3>2. QED
      BY <3>1 DEF d
  <2>4. CASE complete(d.phi_received) /\ d.diffusion_round + 1 # Rounds
    <3>1. concl.phase = "repeat_phase" /\ concl.data.phi0 = d.phi0
      <4> DEFINE round == d.diffusion_round + 1
                 u == [d EXCEPT !.diffusion_round = round, !.phi_received = 0,
                                !.phi0 = IF round = Rounds THEN value ELSE @]
      <4>1. concl = conclude("repeat_phase", u, "consume")
        BY <2>2, <2>4 DEF relaxed
      <4>2. u.phi0 = d.phi0
        BY <1>1, <2>4 DEF Data
      <4> HIDE DEF u
      <4>3. QED
        BY <4>1, <4>2 DEF conclude
    <3>2. QED
      BY <1>5, <3>1 DEF d
  <2>5. CASE complete(d.phi_received) /\ d.diffusion_round + 1 = Rounds
    <3>1. concl.phase = "comparing" /\ concl.data.seen_sources = {}
      BY <1>1, <2>2, <2>5 DEF relaxed, conclude, Data
    <3>2. Best(concl.data, f)
      BY <3>1 DEF Best
    <3>3. QED
      BY <1>5, <3>1, <3>2
  <2>6. QED
    BY <2>3, <2>4, <2>5
<1>6. CASE r.phase = "comparing"
  <2>1. concl = comparing(m, d)
    BY <1>6 DEF conclusion, handle_cast, d
  <2> DEFINE u == compared(m, d)
  <2>2. /\ m.tag = "phi0" /\ m.source \notin d.seen_sources
        /\ concl = conclude(IF u.seen_sources = Ports THEN "flipping"
                            ELSE "comparing", u, "consume")
    BY <2>1 DEF comparing, conclude
  <2>3. m.source \in Ports \ d.seen_sources /\ m.value = f[m.source]
    BY <2>2, FieldMessage DEF stale
  <2>4. Best(u, f)
    BY <1>1, <1>6, <2>3, BestGrows DEF d
  <2>5. u.phi0 = d.phi0
    BY <1>1 DEF compared, Data
  <2> HIDE DEF u
  <2>6. /\ concl.data = u /\ concl.phase \in {"comparing", "flipping"}
        /\ concl.phase = "flipping" => u.seen_sources = Ports
    BY <2>2 DEF conclude
  <2>7. QED
    BY <1>6, <2>4, <2>5, <2>6 DEF d
<1>7. CASE r.phase = "flipping"
  <2>1. concl = flipping(m, d)
    BY <1>7 DEF conclusion, handle_cast, d
  <2>2. /\ concl.phase \in {"measuring", "flipping"}
        /\ concl.data.phi0 = d.phi0
        /\ concl.data.seen_sources = d.seen_sources
        /\ concl.data.best_phi0 = d.best_phi0
        /\ concl.data.best_direction = d.best_direction
    BY <1>1, <2>1 DEF flipping, conclude, Data
  <2>3. Best(concl.data, f) /\ d.seen_sources = Ports
    BY <1>1, <1>7, <2>2, BestOfSeen DEF d
  <2>4. QED
    BY <1>7, <2>2, <2>3 DEF d
<1>8. QED
  BY <1>2, <1>3, <1>4, <1>5, <1>6, <1>7 DEF Phases

(* What is not stale stays so as a message is consumed.                    *)
LEMMA NoneStale ==
  ASSUME NEW l \in Inbound, NEW q \in Seq(Entry), NEW k \in DOMAIN q,
         NEW S, unconsumed(l, q, S) = 0
  PROVE  /\ q[k].message \notin S /\ RemoveAt(q, k) \in Seq(Entry)
         /\ unconsumed(l, RemoveAt(q, k), S) = 0
<1>1. q[k].message \notin S
  BY Present
<1>2. /\ RemoveAt(q, k) \in Seq(Entry)
      /\ unconsumed(l, RemoveAt(q, k), S)
           = unconsumed(l, q, S) - one_if(q[k].message \in S)
  BY HandlingCounts
<1>3. one_if(q[k].message \in S) = 0
  BY <1>1 DEF one_if
<1>4. QED
  BY <1>1, <1>2, <1>3

(* A cell's step changes its own field only.                               *)
LEMMA SameFields ==
  ASSUME NEW R \in [Cells -> Runtime], NEW c \in Cells, NEW t \in Runtime
  PROVE  /\ \A d \in Cells : fields(d, R) \in [Ports -> Nat]
         /\ fields(c, [R EXCEPT ![c] = t]) = fields(c, R)
         /\ t.data.phi0 = R[c].data.phi0 =>
              \A d \in Cells : fields(d, [R EXCEPT ![c] = t]) = fields(d, R)
         /\ \A d \in Cells :
              (\A p \in Ports : neighbor[d][p] # c)
                => fields(d, [R EXCEPT ![c] = t]) = fields(d, R)
<1> DEFINE T == [R EXCEPT ![c] = t]
<1>1. T[c] = t /\ \A d \in Cells \ {c} : T[d] = R[d]
  OBVIOUS
<1>2. \A d \in Cells : R[d].data.phi0 \in Nat
  BY DEF Runtime, Data
<1>3. \A d \in Cells, p \in Ports : neighbor[d][p] \in Cells
  BY Edges
<1>4. \A p \in Ports : neighbor[c][p] # c
  BY Edges
<1> HIDE DEF T
<1>5. \A d \in Cells : fields(d, R) \in [Ports -> Nat]
  BY <1>2, <1>3 DEF fields
<1>6. fields(c, T) = fields(c, R)
  BY <1>1, <1>3, <1>4 DEF fields
<1>7. ASSUME NEW d \in Cells,
             \/ t.data.phi0 = R[c].data.phi0
             \/ \A p \in Ports : neighbor[d][p] # c
      PROVE  fields(d, T) = fields(d, R)
  <2>1. \A p \in Ports :
          T[neighbor[d][p]].data.phi0 = R[neighbor[d][p]].data.phi0
    BY <1>1, <1>3, <1>7
  <2>2. QED
    BY <2>1 DEF fields
<1>8. QED
  BY <1>5, <1>6, <1>7 DEF T

(* A turn that only one cell notices.                                      *)
LEMMA CellCompares ==
  ASSUME NEW R \in [Cells -> Runtime], NEW L \in [Cells -> Inbound],
         Compares(R, L), NEW c \in Cells,
         NEW t \in Runtime, NEW l \in Inbound,
         Sound(t, l, fields(c, R)), t.data.phi0 = R[c].data.phi0
  PROVE  Compares([R EXCEPT ![c] = t], [L EXCEPT ![c] = l])
<1> DEFINE T == [R EXCEPT ![c] = t]
           K == [L EXCEPT ![c] = l]
<1>1. /\ T[c] = t /\ K[c] = l
      /\ \A d \in Cells \ {c} : T[d] = R[d] /\ K[d] = L[d]
  OBVIOUS
<1>2. \A d \in Cells : fields(d, T) = fields(d, R)
  BY SameFields
<1> HIDE DEF T, K
<1>3. Compares(T, K)
  BY <1>1, <1>2 DEF Compares
<1>4. QED
  BY <1>3 DEF T, K

(* What is cast to a neighbor that is not stale leaves it sound.           *)
LEMMA SoundHears ==
  ASSUME NEW r \in Runtime, NEW l \in Inbound, NEW s \in Senders,
         NEW m \in Message, NEW f, NEW g, Sound(r, l, f), m \notin stale(g),
         unconsumed(l, r.mailbox, stale(g)) = 0,
         r.phase \in {"comparing", "flipping"} =>
           \A p \in r.data.seen_sources : g[p] = f[p]
  PROVE  Sound(r, with_cast(l, s, m), g)
<1>1. r.mailbox \in Seq(Entry) /\ r.data \in Data
  BY DEF Runtime
<1>2. unconsumed(with_cast(l, s, m), r.mailbox, stale(g))
        = unconsumed(l, r.mailbox, stale(g)) + one_if(m \in stale(g))
  BY <1>1, CastCounts DEF with_cast
<1>3. unconsumed(with_cast(l, s, m), r.mailbox, stale(g)) = 0
  BY <1>2 DEF one_if
<1>4. r.phase \in {"comparing", "flipping"} => Best(r.data, g)
  <2> SUFFICES ASSUME r.phase \in {"comparing", "flipping"}
               PROVE  Best(r.data, g)
    OBVIOUS
  <2>1. Best(r.data, f)
    BY DEF Sound
  <2>2. QED
    BY <1>1, <2>1, BestOfSeen
<1>5. QED
  BY <1>3, <1>4 DEF Sound

(* A turn whose casts are no fields.                                       *)
LEMMA CastsCompare ==
  ASSUME NEW R \in [Cells -> Runtime], NEW L \in [Cells -> Inbound],
         Compares(R, L), NEW c \in Cells, NEW t \in Runtime,
         NEW casts \in [Ports -> Message],
         \A p \in Ports : casts[p].tag # "phi0",
         Sound(t, L[c], fields(c, R)), t.data.phi0 = R[c].data.phi0
  PROVE  Compares([R EXCEPT ![c] = t], cast_all(L, c, casts))
<1> DEFINE T == [R EXCEPT ![c] = t]
           K == cast_all(L, c, casts)
<1>1. T[c] = t /\ \A d \in Cells \ {c} : T[d] = R[d]
  OBVIOUS
<1>2. \A d \in Cells : fields(d, T) = fields(d, R)
  BY SameFields
<1>3. /\ \A p \in Ports :
           K[neighbor[c][p]] = with_cast(L[neighbor[c][p]], c, casts[p])
      /\ \A d \in Cells :
           (\A p \in Ports : neighbor[c][p] # d) => K[d] = L[d]
  BY Casting
<1> HIDE DEF T, K
<1>4. ASSUME NEW p \in Ports
      PROVE  Sound(T[neighbor[c][p]], K[neighbor[c][p]],
                   fields(neighbor[c][p], T))
  <2> DEFINE d == neighbor[c][p]
             f == fields(d, R)
  <2>1. d \in Cells /\ d # c /\ c \in Senders
    BY Edges
  <2>2. /\ R[d] \in Runtime /\ L[d] \in Inbound /\ casts[p] \in Message
        /\ Sound(R[d], L[d], f)
    BY <2>1 DEF Compares
  <2>3. casts[p] \notin stale(f)
    BY DEF stale
  <2>4. unconsumed(L[d], R[d].mailbox, stale(f)) = 0
    BY <2>2 DEF Sound
  <2> HIDE DEF d, f
  <2>5. Sound(R[d], with_cast(L[d], c, casts[p]), f)
    BY <2>1, <2>2, <2>3, <2>4, SoundHears
  <2>6. T[d] = R[d] /\ K[d] = with_cast(L[d], c, casts[p])
          /\ fields(d, T) = f
    BY <1>1, <1>2, <1>3, <2>1 DEF d, f
  <2>7. QED
    BY <2>5, <2>6 DEF d
<1>5. ASSUME NEW d \in Cells, \A p \in Ports : neighbor[c][p] # d
      PROVE  Sound(T[d], K[d], fields(d, T))
  <2>1. K[d] = L[d] /\ fields(d, T) = fields(d, R)
    BY <1>2, <1>3, <1>5
  <2>2. CASE d = c
    BY <1>1, <2>1, <2>2
  <2>3. CASE d # c
    BY <1>1, <2>1, <2>3 DEF Compares
  <2>4. QED
    BY <2>2, <2>3
<1>6. Compares(T, K)
  BY <1>4, <1>5 DEF Compares
<1>7. QED
  BY <1>6 DEF T, K

(* The fields that came, or will come, through a port.                     *)
through(o) == {m \in Message : m.tag = "phi0" /\ m.source = o}

(* Nothing of a field is left with a neighbor when it is compared anew.    *)
LEMMA NoFieldYet ==
  ASSUME NEW h \in [Cells -> Nat], NEW c \in Cells, NEW d \in Cells,
         NEW o \in Ports, neighbor[d][o] = c,
         NEW r \in Runtime, NEW l \in Inbound, CellInv(d, r, l, h),
         h[d] \in {h[c], h[c] + 1}, index(h[c] + 1) = Rounds
  PROVE  /\ unconsumed(l, r.mailbox, through(o)) = 0
         /\ r.phase \in {"comparing", "flipping"} =>
              o \notin r.data.seen_sources
<1> DEFINE e == h[d]
           q == r.mailbox
           A == of_exchange(e)
           B == of_exchange(e + 1)
           D == Message \ (A \cup B \cup requested(r))
           F == through(o)
<1>1. q \in Seq(Entry) /\ e \in Int /\ e + 1 \in Int /\ h[c] \in Nat
        /\ Rounds \in Nat /\ Rounds > 0
  BY Numbers DEF Runtime
<1>2. unconsumed(l, q, D) = 0
  BY DEF CellInv, NothingElse
<1>3. \A m \in F : /\ m \in Message /\ m.tag = "phi0" /\ m.source = o
                   /\ m \notin requested(r)
  BY DEF through, requested, phi_config, phenom_anyon
<1>4. \A x \in Int :
        index(x) # Rounds => \A m \in of_exchange(x) : m.tag # "phi0"
  BY DEF of_exchange, phi, anyon_move
<1>5. \A x \in Int : index(x) = Rounds =>
        \A m \in of_exchange(x) : m \in fields_from(x, m.source)
  <2> SUFFICES ASSUME NEW x \in Int, index(x) = Rounds,
                      NEW m \in of_exchange(x)
               PROVE  m \in fields_from(x, m.source)
    OBVIOUS
  <2>1. of_exchange(x) = UNION {fields_from(x, p) : p \in Ports}
    BY <1>1 DEF of_exchange
  <2>2. PICK p \in Ports : m \in fields_from(x, p)
    BY <2>1
  <2>3. m.source = p
    BY <2>2, FieldsApart
  <2>4. QED
    BY <2>2, <2>3
<1>6. ASSUME NEW x \in Int, x \in {e, e + 1}, index(x) = Rounds,
             unconsumed(l, q, fields_from(x, o)) = 0,
             \A y \in {e, e + 1} \ {x} : index(y) # Rounds
      PROVE  unconsumed(l, q, F) = 0
  <2> DEFINE G == fields_from(x, o)
  <2>1. F \subseteq G \cup D
    <3> SUFFICES ASSUME NEW m \in F, m \notin D
                 PROVE  m \in G
      OBVIOUS
    <3>1. PICK y \in {e, e + 1} : m \in of_exchange(y)
      BY <1>3
    <3>2. y = x
      BY <1>1, <1>3, <1>4, <1>6, <3>1
    <3>3. QED
      BY <1>3, <1>5, <1>6, <3>1, <3>2
  <2>2. unconsumed(l, q, D) = 0 /\ unconsumed(l, q, G) = 0
    BY <1>2, <1>6
  <2> HIDE DEF F, G, D, q
  <2>3. unconsumed(l, q, F) <= unconsumed(l, q, G \cup D)
    BY <1>1, <2>1, CountsLess
  <2>4. unconsumed(l, q, G \cup D) <= unconsumed(l, q, G) + unconsumed(l, q, D)
    BY <1>1, EitherCounts
  <2>5. unconsumed(l, q, F) \in Nat /\ unconsumed(l, q, G \cup D) \in Nat
    BY <1>1, Counted
  <2>6. QED
    BY <2>2, <2>3, <2>4, <2>5
<1>7. at(r, e) /\ OneField(d, r, l, h)
  BY DEF CellInv
<1>8. CASE e = h[c]
  <2>1. index(e + 1) = Rounds
    BY <1>8
  <2>2. index(e) # Rounds /\ index(e) # Rounds + 1
    <3>1. index(e) \in 0 .. Rounds + 1
      BY <1>1, Places
    <3>2. /\ index(e) < Rounds + 1 => index(e + 1) = index(e) + 1
          /\ index(e) = Rounds + 1 => index(e + 1) = 0
      BY <1>1, NextExchange
    <3>3. QED
      BY <1>1, <2>1, <3>1, <3>2
  <2>3. o \notin there(d, e + 1, h)
    BY <1>1, <1>8 DEF there
  <2>4. unconsumed(l, q, fields_from(e + 1, o)) = 0
    <3>1. unconsumed(l, q, fields_from(e + 1, o)) <= 0
      BY <1>7, <2>1, <2>3 DEF OneField, one_if
    <3>2. unconsumed(l, q, fields_from(e + 1, o)) \in Nat
      BY <1>1, Counted
    <3>3. QED
      BY <3>1, <3>2
  <2>5. unconsumed(l, q, F) = 0
    BY <1>1, <1>6, <2>1, <2>2, <2>4
  <2>6. r.phase \notin {"comparing", "flipping"}
    BY <1>7, <2>2 DEF at
  <2>7. QED
    BY <2>5, <2>6
<1>9. CASE e = h[c] + 1
  <2>1. index(e) = Rounds
    BY <1>9
  <2>2. index(e + 1) # Rounds
    BY <1>1, <2>1, NextExchange
  <2>3. o \notin there(d, e, h)
    BY <1>1, <1>9 DEF there
  <2>4. unconsumed(l, q, fields_from(e, o)) = 0
    <3>1. unconsumed(l, q, fields_from(e, o)) <= 0
      BY <1>7, <2>1, <2>3 DEF OneField, one_if
    <3>2. unconsumed(l, q, fields_from(e, o)) \in Nat
      BY <1>1, Counted
    <3>3. QED
      BY <3>1, <3>2
  <2>5. unconsumed(l, q, F) = 0
    BY <1>1, <1>6, <2>1, <2>2, <2>4
  <2>6. o \notin r.data.seen_sources
    BY <1>7, <2>1, <2>3 DEF OneField
  <2>7. QED
    BY <2>5, <2>6
<1>10. QED
  BY <1>8, <1>9

(* A turn that sends the cell's new field to its neighbors.                *)
LEMMA FieldsSent ==
  ASSUME NEW R, NEW L, NEW h, Fits(R, L, h), Compares(R, L),
         NEW c \in Cells, NEW t \in Runtime,
         there(c, h[c], h) = Ports, index(h[c] + 1) = Rounds,
         Sound(t, L[c], fields(c, R)),
         NEW casts \in [Ports -> Message],
         \A p \in Ports : casts[p].source = opposite[p]
                            /\ casts[p].value = t.data.phi0
  PROVE  Compares([R EXCEPT ![c] = t], cast_all(L, c, casts))
<1> DEFINE T == [R EXCEPT ![c] = t]
           K == cast_all(L, c, casts)
<1>1. /\ h \in [Cells -> Nat] /\ R \in [Cells -> Runtime]
      /\ L \in [Cells -> Inbound] /\ Lockstep(h)
      /\ \A d \in Cells : CellInv(d, R[d], L[d], h)
  BY DEF Fits
<1>2. T[c] = t /\ \A d \in Cells \ {c} : T[d] = R[d]
  BY <1>1
<1>3. /\ fields(c, T) = fields(c, R)
      /\ \A d \in Cells : (\A p \in Ports : neighbor[d][p] # c)
                            => fields(d, T) = fields(d, R)
  <2>1. t \in Runtime /\ c \in Cells /\ R \in [Cells -> Runtime]
    BY <1>1
  <2>2. fields(c, [R EXCEPT ![c] = t]) = fields(c, R)
    BY <2>1, SameFields
  <2>3. \A d \in Cells :
          (\A p \in Ports : neighbor[d][p] # c)
            => fields(d, [R EXCEPT ![c] = t]) = fields(d, R)
    BY <2>1, SameFields
  <2>4. QED
    BY <2>2, <2>3
<1>4. /\ \A p \in Ports :
           K[neighbor[c][p]] = with_cast(L[neighbor[c][p]], c, casts[p])
      /\ \A d \in Cells :
           (\A p \in Ports : neighbor[c][p] # d) => K[d] = L[d]
  BY <1>1, Casting
<1> HIDE DEF K
<1>5. ASSUME NEW p \in Ports
      PROVE  Sound(T[neighbor[c][p]], K[neighbor[c][p]],
                   fields(neighbor[c][p], T))
  <2> DEFINE d == neighbor[c][p]
             o == opposite[p]
             r == R[d]
             l == L[d]
             f == fields(d, R)
             g == fields(d, T)
             m == casts[p]
  <2>1. /\ d \in Cells /\ d # c /\ o \in Ports /\ neighbor[d][o] = c
        /\ \A x \in Ports : neighbor[d][x] = c => x = o
        /\ c \in Senders
    BY Edges
  <2>2. h[d] \in {h[c], h[c] + 1}
    <3>1. h[d] >= h[c]
      BY DEF there
    <3>2. h[d] <= h[c] + 1 /\ h[c] \in Nat /\ h[d] \in Nat
      BY <1>1, <2>1 DEF Lockstep
    <3>3. QED
      BY <3>1, <3>2
  <2>3. /\ r \in Runtime /\ l \in Inbound /\ CellInv(d, r, l, h)
        /\ Sound(r, l, f) /\ r.mailbox \in Seq(Entry) /\ r.data \in Data
    BY <1>1, <2>1 DEF Compares, Runtime
  <2>4. \A x \in Ports \ {o} : g[x] = f[x]
    BY SMTT(60), <1>2, <2>1, Edges DEF fields
  <2>5. g[o] = t.data.phi0
    BY <1>2, <2>1 DEF fields
  <2>6. m \in Message /\ m.source = o /\ m.value = t.data.phi0
    OBVIOUS
  <2> HIDE DEF d, o, r, l, f, g, m, T
  <2>7. /\ unconsumed(l, r.mailbox, through(o)) = 0
        /\ r.phase \in {"comparing", "flipping"} =>
             o \notin r.data.seen_sources
    BY <1>1, <2>1, <2>2, <2>3, NoFieldYet
  <2>8. unconsumed(l, r.mailbox, stale(g)) = 0
    <3> DEFINE q == r.mailbox
               S == stale(f)
               U == through(o)
    <3>1. stale(g) \subseteq S \cup U
      <4> SUFFICES ASSUME NEW x \in stale(g), x.source # o
                   PROVE  x \in S
        BY DEF stale, through
      <4>1. x \in Message /\ x.tag = "phi0" /\ x.value # g[x.source]
        BY DEF stale
      <4>2. x.source \in Ports
        BY <4>1, FieldMessage
      <4>3. QED
        BY <2>4, <4>1, <4>2 DEF stale
    <3>2. unconsumed(l, q, S) = 0 /\ unconsumed(l, q, U) = 0
            /\ q \in Seq(Entry)
      BY <2>3, <2>7 DEF Sound
    <3> HIDE DEF q, S, U
    <3>3. unconsumed(l, q, stale(g)) <= unconsumed(l, q, S \cup U)
      BY <2>3, <3>1, <3>2, CountsLess
    <3>4. unconsumed(l, q, S \cup U)
            <= unconsumed(l, q, S) + unconsumed(l, q, U)
      BY <2>3, <3>2, EitherCounts
    <3>5. unconsumed(l, q, stale(g)) \in Nat
            /\ unconsumed(l, q, S \cup U) \in Nat
      BY <2>3, <3>2, Counted
    <3>6. unconsumed(l, q, stale(g)) = 0
      BY <3>2, <3>3, <3>4, <3>5
    <3>7. QED
      BY <3>6 DEF q
  <2>9. m \notin stale(g)
    BY <2>5, <2>6 DEF stale
  <2>10. r.phase \in {"comparing", "flipping"} =>
           \A x \in r.data.seen_sources : g[x] = f[x]
    BY <2>3, <2>4, <2>7 DEF Data
  <2>11. Sound(r, with_cast(l, c, m), g)
    BY <2>1, <2>3, <2>6, <2>8, <2>9, <2>10, SoundHears
  <2>12. T[d] = r /\ K[d] = with_cast(l, c, m)
    BY <1>2, <1>4, <2>1 DEF d, r, l, m, T
  <2>13. QED
    BY <2>11, <2>12 DEF d, g
<1> HIDE DEF T
<1>6. ASSUME NEW d \in Cells, \A p \in Ports : neighbor[c][p] # d
      PROVE  Sound(T[d], K[d], fields(d, T))
  <2>1. \A p \in Ports : neighbor[d][p] # c
    BY <1>6, Edges
  <2>2. K[d] = L[d] /\ fields(d, T) = fields(d, R)
    BY <1>3, <1>4, <1>6, <2>1
  <2>3. CASE d = c
    BY <1>2, <2>2, <2>3
  <2>4. CASE d # c
    BY <1>2, <2>2, <2>4 DEF Compares
  <2>5. QED
    BY <2>3, <2>4
<1>7. Compares(T, K)
  BY <1>5, <1>6 DEF Compares
<1>8. QED
  BY <1>7 DEF T, K

(* One turn of a cell's scheduler, and what it leaves of the comparisons.  *)
LEMMA TurnCompares ==
  ASSUME NEW c \in Cells, NEW r \in Runtime, r.lifecycle = "connected",
         rt \in [Cells -> Runtime], NEW L, NEW h,
         Fits([rt EXCEPT ![c] = r], L, h),
         Compares([rt EXCEPT ![c] = r], L),
         NEW k \in DOMAIN r.mailbox, process(c, r, k, L)
  PROVE  Compares(rt', link')
<1> DEFINE R == [rt EXCEPT ![c] = r]
           l == L[c]
           m == r.mailbox[k].message
           e == h[c]
           f == fields(c, R)
<1>1. /\ R \in [Cells -> Runtime] /\ R[c] = r /\ Compares(R, L)
      /\ Fits(R, L, h)
      /\ \A t : [rt EXCEPT ![c] = t] = [R EXCEPT ![c] = t]
  OBVIOUS
<1>2. /\ h \in [Cells -> Nat] /\ CellInv(c, r, l, h)
      /\ L \in [Cells -> Inbound] /\ l \in Inbound
  BY <1>1 DEF Fits
<1>3. Sound(r, l, f) /\ f \in [Ports -> Nat]
  BY <1>1, SameFields DEF Compares
<1>4. PICK value \in Values : \E concl :
        /\ concl = conclusion(m, r, value)
        /\ \/ Within(c, r, k, L, e, concl) \/ Into(c, r, k, L, e, concl)
           \/ Asks(c, r, k, L, e, concl)
  BY TurnIs
<1>5. PICK concl :
        /\ concl = conclusion(m, r, value)
        /\ \/ Within(c, r, k, L, e, concl) \/ Into(c, r, k, L, e, concl)
           \/ Asks(c, r, k, L, e, concl)
  BY <1>4
<1>6. r.mailbox \in Seq(Entry) /\ m \in Message /\ r.phase \in Phases
  <2>1. r.mailbox \in Seq(Entry) /\ r.phase \in Phases
    BY DEF Runtime
  <2>2. r.mailbox[k] \in Entry
    BY <2>1
  <2>3. QED
    BY <2>1, <2>2 DEF Entry
<1> HIDE DEF R, f, l
<1>7. /\ m \notin stale(f) /\ RemoveAt(r.mailbox, k) \in Seq(Entry)
      /\ unconsumed(l, RemoveAt(r.mailbox, k), stale(f)) = 0
  <2>1. unconsumed(l, r.mailbox, stale(f)) = 0
    BY <1>3 DEF Sound
  <2>2. QED
    BY <1>2, <1>6, <2>1, NoneStale
<1>8. concl.directive = "consume" =>
        /\ concl.phase \in {"comparing", "flipping"} => Best(concl.data, f)
        /\ concl.phase = "flipping" => concl.data.seen_sources = Ports
        /\ concl.phase # "comparing" \/ r.phase = "comparing" =>
             concl.data.phi0 = r.data.phi0
        /\ concl.phase = "repeat_phase" => r.phase = "gathering"
  <2> SUFFICES ASSUME concl.directive = "consume"
               PROVE  /\ concl.phase \in {"comparing", "flipping"} =>
                           Best(concl.data, f)
                      /\ concl.phase = "flipping" =>
                           concl.data.seen_sources = Ports
                      /\ concl.phase # "comparing" \/ r.phase = "comparing" =>
                           concl.data.phi0 = r.data.phi0
                      /\ concl.phase = "repeat_phase" =>
                           r.phase = "gathering"
    OBVIOUS
  <2>1. /\ r.phase \in {"comparing", "flipping"} => Best(r.data, f)
        /\ r.phase = "flipping" => r.data.seen_sources = Ports
    BY <1>3 DEF Sound
  <2>2. concl = conclusion(m, r, value)
    BY <1>5
  <2> HIDE DEF m
  <2>3. QED
    BY <1>3, <1>6, <1>7, <2>1, <2>2, Handled
<1>9. ASSUME Enters(r, m, concl, e) \/ Measures(r, m, concl, e),
             NEW d \in entered_data(concl)
      PROVE  /\ process_message(r, k, concl, d) \in Runtime
             /\ Sound(process_message(r, k, concl, d), l, f)
             /\ process_message(r, k, concl, d).data.phi0 = concl.data.phi0
             /\ next_phase(r, concl) # "comparing" =>
                  concl.data.phi0 = r.data.phi0
             /\ there(c, h[c], h) = Ports
  <2> DEFINE t == process_message(r, k, concl, d)
             q == RemoveAt(r.mailbox, k)
  <2>1. /\ concl.directive = "consume" /\ boundary(r, concl)
        /\ concl.data \in Data /\ next_phase(r, concl) \in Phases
        /\ Completes(r, m, h[c]) /\ d \in entered_data(concl)
    BY <1>9 DEF Enters, Measures, Phases
  <2>2. /\ q \in Seq(Entry) /\ t \in Runtime
        /\ t.mailbox = released(q) /\ t.data = d
        /\ t.phase = next_phase(r, concl) /\ OnlyNext(c, l, q, h)
    <3> HIDE DEF Completes
    <3>1. QED
      BY <1>2, <2>1, TurnAcross
  <2>3. /\ d.seen_sources = concl.data.seen_sources
        /\ d.best_phi0 = concl.data.best_phi0
        /\ d.best_direction = concl.data.best_direction
        /\ d.phi0 = concl.data.phi0
    BY <2>1 DEF entered_data, departed, Data
  <2> HIDE DEF t, q
  <2>4. unconsumed(l, t.mailbox, stale(f)) = 0
    BY <1>2, <1>7, <2>2, Released DEF q
  <2>5. t.phase \in {"comparing", "flipping"} => t.phase = concl.phase
    BY <1>8, <2>1, <2>2 DEF next_phase
  <2>6. t.phase \in {"comparing", "flipping"} => Best(t.data, f)
    <3> SUFFICES ASSUME t.phase \in {"comparing", "flipping"}
                 PROVE  Best(d, f)
      BY <2>2
    <3>1. Best(concl.data, f)
      BY <1>8, <2>1, <2>5
    <3>2. QED
      BY <2>1, <2>3, <3>1, BestOfSeen
  <2>7. t.phase = "flipping" => t.data.seen_sources = Ports
    BY <1>8, <2>1, <2>2, <2>3, <2>5
  <2>8. Sound(t, l, f)
    BY <2>4, <2>6, <2>7 DEF Sound
  <2>9. next_phase(r, concl) # "comparing" => concl.data.phi0 = r.data.phi0
    BY <1>8, <2>1 DEF next_phase
  <2>10. there(c, h[c], h) = Ports
    BY <2>2 DEF OnlyNext
  <2>11. QED
    BY <2>2, <2>3, <2>8, <2>9, <2>10 DEF t
<1>10. CASE Within(c, r, k, L, e, concl)
  <2> DEFINE t == process_message(r, k, concl, concl.data)
  <2>1. /\ Holds(r, m, concl, e) \/ Counts(r, m, concl, e)
        /\ rt' = [R EXCEPT ![c] = t] /\ link' = L
    BY <1>1, <1>10 DEF Within
  <2>2. ~boundary(r, concl) /\ t \in Runtime
    BY <1>2, <2>1, TurnWithin
  <2>3. Sound(t, l, f) /\ t.data.phi0 = r.data.phi0
    <3>1. CASE Holds(r, m, concl, e)
      <4>1. concl.directive = "postpone" /\ concl.data = r.data
        BY <3>1 DEF Holds, conclude
      <4>2. /\ t.data = r.data /\ t.phase = r.phase
            /\ t.mailbox = held_back(r.mailbox, k)
        BY <2>2, <4>1 DEF process_message, settled, held_back, Runtime
      <4>3. unconsumed(l, held_back(r.mailbox, k), stale(f)) = 0
        BY <1>3, <1>6, Postponed DEF Sound
      <4> HIDE DEF t
      <4>4. QED
        BY <1>3, <4>2, <4>3 DEF Sound
    <3>2. CASE Counts(r, m, concl, e)
      <4>1. concl.directive = "consume" /\ concl.phase = r.phase
        BY <3>2 DEF Counts
      <4>2. /\ t.data = concl.data /\ t.phase = r.phase
            /\ t.mailbox = RemoveAt(r.mailbox, k)
        BY <2>2, <4>1 DEF process_message, settled, Runtime
      <4> HIDE DEF t
      <4>3. QED
        BY <1>7, <1>8, <4>1, <4>2 DEF Sound
    <3>3. QED
      BY <2>1, <3>1, <3>2
  <2> HIDE DEF t
  <2>4. Compares([R EXCEPT ![c] = t], [L EXCEPT ![c] = l])
    BY <1>1, <1>2, <2>2, <2>3, CellCompares DEF f
  <2>5. [L EXCEPT ![c] = l] = L
    BY <1>2 DEF l
  <2>6. QED
    BY <2>1, <2>4, <2>5
<1>11. CASE Asks(c, r, k, L, e, concl)
  <2> DEFINE t == process_message(r, k, concl, concl.data)
  <2>1. PICK b \in {0, 1} :
          /\ rt' = [R EXCEPT ![c] = t]
          /\ link' = [L EXCEPT ![c]["syndrome"] =
                        Append(@, phenom_anyon(concl.data.step, b))]
    BY <1>1, <1>11 DEF Asks, enter_measuring
  <2> DEFINE x == phenom_anyon(concl.data.step, b)
             u == with_cast(l, "syndrome", x)
  <2>2. /\ Measures(r, m, concl, e) /\ concl.data \in entered_data(concl)
        /\ next_phase(r, concl) = "measuring" /\ concl.data \in Data
    BY <1>11 DEF Asks, entered_data, Measures
  <2>3. /\ t \in Runtime /\ Sound(t, l, f) /\ t.data.phi0 = r.data.phi0
    BY <1>9, <2>2
  <2>4. x \in Message /\ x.tag # "phi0" /\ "syndrome" \in Senders
    <3>1. concl.data.step \in Counter
      BY <2>2 DEF Data
    <3>2. QED
      BY <3>1 DEF Message, phenom_anyon, Senders
  <2>5. link' = [L EXCEPT ![c] = u]
    BY <1>2, <2>1 DEF u, l, with_cast
  <2> HIDE DEF t, x
  <2>6. x \notin stale(f)
    BY <2>4 DEF stale
  <2>7. u \in Inbound
    <3>1. t.mailbox \in Seq(Entry)
      BY <2>3 DEF Runtime
    <3>2. QED
      BY <1>2, <2>4, <3>1, CastCounts DEF with_cast
  <2>8. Sound(t, u, f)
    <3>1. unconsumed(l, t.mailbox, stale(f)) = 0
      BY <2>3 DEF Sound
    <3>2. QED
      BY <1>2, <2>3, <2>4, <2>6, <3>1, SoundHears
  <2> HIDE DEF u
  <2>9. Compares([R EXCEPT ![c] = t], [L EXCEPT ![c] = u])
    BY <1>1, <1>2, <2>3, <2>7, <2>8, CellCompares DEF f
  <2>10. QED
    BY <2>1, <2>5, <2>9
<1>12. CASE Into(c, r, k, L, e, concl)
  <2>1. Enters(r, m, concl, e) /\ concl.data \in Data
    BY <1>12 DEF Into, Enters
  <2>2. concl.data \in entered_data(concl)
    BY DEF entered_data
  <2>3. ASSUME NEW d \in entered_data(concl),
               NEW casts \in [Ports -> Message],
               rt' = [R EXCEPT ![c] = process_message(r, k, concl, d)],
               link' = cast_all(L, c, casts),
               next_phase(r, concl) # "comparing",
               \A p \in Ports : casts[p].tag # "phi0"
        PROVE  Compares(rt', link')
    <3> DEFINE t == process_message(r, k, concl, d)
    <3>1. /\ t \in Runtime /\ Sound(t, l, f) /\ t.data.phi0 = r.data.phi0
      BY <1>9, <2>1, <2>3
    <3> HIDE DEF t
    <3>2. Compares([R EXCEPT ![c] = t], cast_all(L, c, casts))
      BY <1>1, <1>2, <2>3, <3>1, CastsCompare DEF f, l
    <3>3. QED
      BY <2>3, <3>2 DEF t
  <2> DEFINE w == with_phase(r, concl)
  <2>4. /\ w \in Runtime /\ w.phase = next_phase(r, concl)
        /\ w.data = concl.data /\ at(w, e + 1)
        /\ next_phase(r, concl) = "comparing" => w.data.phi0 \in Values
    BY <2>1, Reached DEF Enters, Phases
  <2>5. /\ e + 1 \in Int /\ of_exchange(e + 1) \subseteq Message
        /\ Ports # {} /\ \A p \in Ports : opposite[p] \in Ports
    BY <1>2, Exchanged, PhiMeshAssumption
  <2>6. concl.data.step \in Counter
    BY <2>1 DEF Data
  <2> HIDE DEF w
  <2>7. CASE /\ next_phase(r, concl) = "gathering"
             /\ enter_gathering(c, r, k, concl, L)
    <3> DEFINE x == phi(epoch_of(concl.data, 0))
               casts == [p \in Ports |-> x]
    <3>1. x \in Message /\ x.tag = "phi"
      BY <2>4, <2>5, <2>7, CastsOfExchange DEF phi
    <3>2. /\ rt' = [R EXCEPT ![c] = process_message(r, k, concl, concl.data)]
          /\ link' = cast_all(L, c, casts)
      BY <1>1, <2>7 DEF enter_gathering
    <3> HIDE DEF x
    <3>3. /\ casts \in [Ports -> Message]
          /\ \A p \in Ports : casts[p].tag # "phi0"
      BY <3>1
    <3>4. QED
      BY <2>2, <2>3, <2>7, <3>2, <3>3
  <2>8. CASE /\ next_phase(r, concl) = "comparing"
             /\ enter_comparing(c, r, k, concl, L)
    <3> DEFINE d == concl.data
               t == process_message(r, k, concl, d)
               x(p) == phi0(d.step, opposite[p], d.phi0)
               casts == [p \in Ports |-> x(p)]
    <3>1. \A p \in Ports : x(p) \in Message
      BY <2>4, <2>5, <2>8, CastsOfExchange
    <3>2. /\ rt' = [R EXCEPT ![c] = t] /\ link' = cast_all(L, c, casts)
      BY <1>1, <2>8 DEF enter_comparing
    <3>3. \A p \in Ports : x(p).source = opposite[p] /\ x(p).value = d.phi0
      BY DEF phi0
    <3>4. index(e + 1) = Rounds
      BY <2>4, <2>8 DEF at
    <3>5. /\ t \in Runtime /\ Sound(t, l, f) /\ t.data.phi0 = d.phi0
          /\ there(c, h[c], h) = Ports
      BY <1>9, <2>1, <2>2
    <3> HIDE DEF x, d, t
    <3>6. /\ casts \in [Ports -> Message]
          /\ \A p \in Ports : casts[p].source = opposite[p]
                                /\ casts[p].value = t.data.phi0
      BY <3>1, <3>3, <3>5
    <3> HIDE DEF casts
    <3>7. Compares([R EXCEPT ![c] = t], cast_all(L, c, casts))
      BY <1>1, <3>4, <3>5, <3>6, FieldsSent DEF f, l
    <3>8. QED
      BY <3>2, <3>7
  <2>9. CASE /\ next_phase(r, concl) = "flipping"
             /\ enter_flipping(c, r, k, concl, L)
    <3> DEFINE d == concl.data
               best == d.best_direction
    <3>1. PICK heads \in BOOLEAN :
            LET move == d.anyon = 1 /\ best # NoDirection /\ heads
                present(p) == IF move /\ p = best THEN 1 ELSE 0
            IN  /\ rt' = [R EXCEPT ![c] = process_message(r, k, concl,
                                                         departed(d, move))]
                /\ link' = cast_all(L, c,
                             [p \in Ports |-> anyon_move(d.step, present(p))])
      BY <1>1, <2>9 DEF enter_flipping
    <3> DEFINE move == d.anyon = 1 /\ best # NoDirection /\ heads
               present(p) == IF move /\ p = best THEN 1 ELSE 0
               x(p) == anyon_move(d.step, present(p))
               casts == [p \in Ports |-> x(p)]
               g == departed(d, move)
    <3>2. /\ rt' = [R EXCEPT ![c] = process_message(r, k, concl, g)]
          /\ link' = cast_all(L, c, casts)
      BY <3>1
    <3>3. g \in entered_data(concl)
      BY DEF departed, entered_data
    <3>4. \A p \in Ports : present(p) \in {0, 1}
      OBVIOUS
    <3> HIDE DEF present, g
    <3>5. \A p \in Ports : x(p) \in Message /\ x(p).tag # "phi0"
      <4> SUFFICES ASSUME NEW p \in Ports
                   PROVE  x(p) \in Message /\ x(p).tag # "phi0"
        OBVIOUS
      <4>1. present(p) \in {0, 1}
        BY <3>4
      <4>2. QED
        BY <2>6, <4>1 DEF Message, anyon_move
    <3> HIDE DEF x
    <3>6. /\ casts \in [Ports -> Message]
          /\ \A p \in Ports : casts[p].tag # "phi0"
      BY <3>5
    <3> HIDE DEF casts
    <3>7. QED
      BY <2>3, <2>9, <3>2, <3>3, <3>6
  <2>10. QED
    BY <1>12, <2>7, <2>8, <2>9 DEF Into
<1>13. QED
  BY <1>5, <1>10, <1>11, <1>12

-----------------------------------------------------------------------------
(* What a mesh accounts for: its anyons and its fields.                    *)
Accounts(R, L, X) == Explains(R, L, X) /\ Compares(R, L)

(* Every step keeps the accounts.                                          *)
LEMMA StepAccounts ==
  ASSUME IInv, Accounts(rt, link, expected), [Next]_vars
  PROVE  Accounts(rt', link', expected')
<1> DEFINE X == expected
<1>1. PICK h : Fits(rt, link, h)
  BY DEF IInv
<1>2. /\ h \in [Cells -> Nat] /\ rt \in [Cells -> Runtime]
      /\ link \in [Cells -> Inbound]
      /\ \A c \in Cells : CellInv(c, rt[c], link[c], h)
  BY <1>1 DEF Fits
<1>3. X \in [Cells -> {0, 1}] /\ Explains(rt, link, X) /\ Compares(rt, link)
  BY DEF Accounts, Explains
<1>4. ASSUME NEW c \in Cells, NEW t \in Runtime, NEW l \in Inbound,
             t.data = rt[c].data, t.phase = rt[c].phase,
             \A S : unconsumed(l, t.mailbox, S)
                      = unconsumed(link[c], rt[c].mailbox, S)
      PROVE  Accounts([rt EXCEPT ![c] = t], [link EXCEPT ![c] = l], X)
  <2>1. xor(t.data.anyon, unconsumed(l, t.mailbox, anyons)) = X[c]
          /\ X[c] \in {0, 1}
    BY <1>3, <1>4 DEF Explains
  <2>2. Explains([rt EXCEPT ![c] = t], [link EXCEPT ![c] = l],
                 [X EXCEPT ![c] = X[c]])
    BY <1>2, <1>3, <2>1, CellExplains
  <2>3. [X EXCEPT ![c] = X[c]] = X
    BY <1>3
  <2>4. Sound(t, l, fields(c, rt))
    <3> DEFINE f == fields(c, rt)
    <3>1. Sound(rt[c], link[c], f)
      BY <1>3 DEF Compares
    <3>2. unconsumed(l, t.mailbox, stale(f))
            = unconsumed(link[c], rt[c].mailbox, stale(f))
      BY <1>4
    <3> HIDE DEF f
    <3>3. Sound(t, l, f)
      BY <1>4, <3>1, <3>2 DEF Sound
    <3>4. QED
      BY <3>3 DEF f
  <2>5. Compares([rt EXCEPT ![c] = t], [link EXCEPT ![c] = l])
    BY <1>2, <1>3, <1>4, <2>4, CellCompares
  <2>6. QED
    BY <2>2, <2>3, <2>5 DEF Accounts
<1>5. ASSUME NEW c \in Cells, NEW s \in Senders, link[c][s] # << >>,
             enqueue(rt[c], Head(link[c][s])) \in Runtime
      PROVE  Accounts([rt EXCEPT ![c] = enqueue(rt[c], Head(link[c][s]))],
                      received(c, s), X)
  <2> DEFINE r == rt[c]
             l == link[c]
             t == enqueue(r, Head(l[s]))
             n == taken_from(l, s)
  <2>1. /\ l \in Inbound /\ r.mailbox \in Seq(Entry) /\ r \in Runtime
        /\ received(c, s) = [link EXCEPT ![c] = n] /\ l[s] # << >>
    BY <1>2, <1>5 DEF Runtime, received, taken_from
  <2> HIDE DEF r, l
  <2>2. /\ t.mailbox = admitted(r.mailbox, Head(l[s])) /\ t.data = r.data
        /\ t.phase = r.phase
    BY <2>1 DEF enqueue, admitted, Runtime
  <2>3. /\ n \in Inbound
        /\ \A S : unconsumed(n, admitted(r.mailbox, Head(l[s])), S)
                   = unconsumed(l, r.mailbox, S)
    BY <2>1, AdmissionCounts
  <2>4. t \in Runtime
    BY <1>5 DEF r, l
  <2> HIDE DEF t, n
  <2>5. Accounts([rt EXCEPT ![c] = t], [link EXCEPT ![c] = n], X)
    BY <1>4, <2>2, <2>3, <2>4 DEF r, l
  <2>6. QED
    BY <2>1, <2>5 DEF t, r, l
<1>6. CASE UNCHANGED vars
  BY <1>6 DEF vars
<1>7. ASSUME NEW c \in Cells, connect(c)
      PROVE  Accounts(rt', link', expected')
  <2> DEFINE t == [rt[c] EXCEPT !.lifecycle = "connected"]
  <2>1. /\ t \in Runtime /\ t.data = rt[c].data /\ t.mailbox = rt[c].mailbox
        /\ t.phase = rt[c].phase /\ link[c] \in Inbound
    BY <1>2 DEF Runtime
  <2>2. rt' = [rt EXCEPT ![c] = t] /\ link' = [link EXCEPT ![c] = link[c]]
          /\ expected' = X
    BY <1>2, <1>7 DEF connect
  <2> HIDE DEF t
  <2>3. QED
    BY <1>4, <2>1, <2>2
<1>8. ASSUME NEW c \in Cells, admit_disconnected(c)
      PROVE  Accounts(rt', link', expected')
  <2>1. PICK s \in Senders :
          /\ link[c][s] # << >>
          /\ link' = received(c, s)
          /\ rt' = [rt EXCEPT ![c] =
                      IF full(@) THEN stop(@)
                      ELSE enqueue(@, Head(link[c][s]))]
          /\ expected' = X
    BY <1>8 DEF admit_disconnected
  <2>2. quiescent(rt[c])
    BY <1>8 DEF admit_disconnected, quiescent, connected
  <2>3. ~full(rt[c]) /\ enqueue(rt[c], Head(link[c][s])) \in Runtime
    BY <1>1, <2>1, <2>2, MeshAdmits
  <2>4. rt' = [rt EXCEPT ![c] = enqueue(rt[c], Head(link[c][s]))]
    BY <1>2, <2>1, <2>3
  <2>5. QED
    BY <1>5, <2>1, <2>3, <2>4
<1>9. ASSUME NEW c \in Cells, process_messages(c)
      PROVE  Accounts(rt', link', expected')
  <2>1. PICK k \in eligible(rt[c]) : process(c, rt[c], k, link)
    BY <1>9 DEF process_messages
  <2> DEFINE r == rt[c]
  <2>2. /\ r \in Runtime /\ k \in DOMAIN r.mailbox
        /\ r.lifecycle = "connected" /\ [rt EXCEPT ![c] = r] = rt
        /\ process(c, r, k, link)
    BY <1>2, <1>9, <2>1 DEF eligible, process_messages, connected
  <2> HIDE DEF r
  <2>3. Explains(rt', link', expected')
    BY <1>1, <1>2, <1>3, <2>2, TurnExplains
  <2>4. Compares(rt', link')
    BY <1>1, <1>2, <1>3, <2>2, TurnCompares
  <2>5. QED
    BY <2>3, <2>4 DEF Accounts
<1>10. ASSUME NEW c \in Cells, admit_and_process(c)
       PROVE  Accounts(rt', link', expected')
  <2>1. connected(rt[c]) /\ quiescent(rt[c])
    BY <1>10 DEF admit_and_process
  <2>2. PICK s \in Senders :
          /\ link[c][s] # << >>
          /\ ~full(rt[c]) =>
               LET r == enqueue(rt[c], Head(link[c][s]))
               IN  process(c, r, Len(r.mailbox), received(c, s))
    BY <1>10 DEF admit_and_process
  <2> DEFINE r == enqueue(rt[c], Head(link[c][s]))
             L == received(c, s)
             k == Len(r.mailbox)
  <2>3. ~full(rt[c]) /\ r \in Runtime
          /\ Fits([rt EXCEPT ![c] = r], L, h)
    <3>1. [rt EXCEPT ![c] = enqueue(@, Head(link[c][s]))]
            = [rt EXCEPT ![c] = r]
      BY <1>2
    <3>2. QED
      BY <1>1, <2>1, <2>2, <3>1, MeshAdmits
  <2>4. process(c, r, k, L)
    BY <2>2, <2>3
  <2>5. k \in DOMAIN r.mailbox /\ r.lifecycle = "connected"
    <3>1. rt[c].mailbox \in Seq(Entry) /\ rt[c] \in Runtime
      BY <1>2 DEF Runtime
    <3>2. r.mailbox = Append(rt[c].mailbox, [message |-> Head(link[c][s]),
                                             postponed |-> FALSE])
      BY <3>1 DEF enqueue, Runtime
    <3>3. r.lifecycle = rt[c].lifecycle
      BY <3>1 DEF enqueue, Runtime
    <3>4. QED
      BY <2>1, <3>1, <3>2, <3>3 DEF connected
  <2>6. Accounts([rt EXCEPT ![c] = r], L, expected)
    BY <1>5, <2>2, <2>3
  <2>7. Explains([rt EXCEPT ![c] = r], L, expected)
          /\ Compares([rt EXCEPT ![c] = r], L)
    BY <2>6 DEF Accounts
  <2> HIDE DEF r, L, k
  <2>8. Explains(rt', link', expected')
    BY <1>2, <2>3, <2>4, <2>5, <2>7, TurnExplains
  <2>9. Compares(rt', link')
    BY <1>2, <2>3, <2>4, <2>5, <2>7, TurnCompares
  <2>10. QED
    BY <2>8, <2>9 DEF Accounts
<1>11. QED
  BY <1>6, <1>7, <1>8, <1>9, <1>10 DEF Next, Cell

(* At first there is nothing to explain and nothing to compare.            *)
LEMMA InitAccounts == Init => Accounts(rt, link, expected)
<1> SUFFICES ASSUME Init PROVE Accounts(rt, link, expected)
  OBVIOUS
<1>1. expected = [c \in Cells |-> 0]
  BY DEF Init
<1>2. phi_config.tag = "phi_config" /\ phi_config \in Message
  BY DEF phi_config, Message
<1>3. ASSUME NEW c \in Cells, NEW S, phi_config \notin S
      PROVE  unconsumed(link[c], rt[c].mailbox, S) = 0
  <2> DEFINE q == << >>
             l == [s \in Senders |->
                     IF s = "host" THEN <<phi_config>> ELSE << >>]
  <2>1. rt[c].mailbox = q /\ link[c] = l
    BY DEF Init, runtime
  <2>2. \A s \in Senders : \A i \in DOMAIN l[s] : l[s][i] \notin S
    BY <1>3
  <2>3. q \in Seq(Entry) /\ \A k \in DOMAIN q : q[k].message \notin S
    OBVIOUS
  <2>4. l \in Inbound
    <3>1. <<phi_config>> \in Seq(Message) /\ << >> \in Seq(Message)
      BY <1>2
    <3>2. QED
      BY <3>1 DEF Inbound
  <2> HIDE DEF l, q
  <2>5. QED
    BY <2>1, <2>2, <2>3, <2>4, Absent
<1>4. \A c \in Cells : rt[c].data.anyon = 0 /\ rt[c].phase = "configuring"
  BY DEF Init, runtime, cell
<1>5. phi_config \notin anyons
  <2>1. one_if(phi_config \in anyons) = 0
    BY <1>2, CarriesNone
  <2>2. QED
    BY <2>1 DEF one_if
<1>6. Explains(rt, link, expected)
  BY <1>1, <1>3, <1>4, <1>5 DEF Explains, xor
<1>7. Compares(rt, link)
  <2> SUFFICES ASSUME NEW c \in Cells
               PROVE  Sound(rt[c], link[c], fields(c, rt))
    BY DEF Compares
  <2>1. phi_config \notin stale(fields(c, rt))
    BY <1>2 DEF stale
  <2>2. QED
    BY <1>3, <1>4, <2>1 DEF Sound
<1>8. QED
  BY <1>6, <1>7 DEF Accounts

(* The mesh always accounts for its anyons and its fields.                 *)
LEMMA AlwaysAccounts == Spec => [](IInv /\ Accounts(rt, link, expected))
<1> DEFINE AInv == IInv /\ Accounts(rt, link, expected)
<1>1. Init => AInv
  BY InitFits, InitAccounts
<1>2. AInv /\ [Next]_vars => AInv'
  <2> SUFFICES ASSUME IInv, Accounts(rt, link, expected), [Next]_vars
               PROVE  Accounts(rt, link, expected)'
    BY StepFits
  <2>1. Accounts(rt', link', expected')
    BY StepAccounts
  <2>2. QED
    BY <2>1 DEF Accounts, Explains, Compares, Sound, fields
<1>3. QED
  BY <1>1, <1>2, PTL DEF Spec

(* CorrectionsExplainAnyons: no move is lost, doubled or left without a    *)
(* correction, so the anyon of a cell, with those on their way to it, is   *)
(* the parity of what was announced to it and emitted around it.           *)
THEOREM AnyonsAreExplained == Spec => []CorrectionsExplainAnyons
<1>1. Accounts(rt, link, expected) => CorrectionsExplainAnyons
  BY DEF Accounts, Explains, CorrectionsExplainAnyons, xor, unconsumed_by
<1>2. QED
  BY <1>1, AlwaysAccounts, PTL

(* ComparisonAgrees: a cell flips towards the one neighbor whose field is  *)
(* the greatest, in whatever order the fields came, and towards none if    *)
(* the greatest is shared.                                                 *)
THEOREM FlipsFollowTheGreatest == Spec => []ComparisonAgrees
<1>1. IInv /\ Accounts(rt, link, expected) => ComparisonAgrees
  <2> SUFFICES ASSUME IInv, Accounts(rt, link, expected),
                      NEW c \in Cells, rt[c].phase = "flipping"
               PROVE  LET value(p) == rt[neighbor[c][p]].data.phi0
                          wins(p) == \A q \in Ports \ {p} : value(p) > value(q)
                      IN  IF \E p \in Ports : wins(p)
                          THEN wins(rt[c].data.best_direction)
                          ELSE rt[c].data.best_direction = NoDirection
    BY DEF ComparisonAgrees
  <2>1. rt \in [Cells -> Runtime]
    BY DEF IInv, Fits
  <2> DEFINE f == fields(c, rt)
             d == rt[c].data
             value(p) == rt[neighbor[c][p]].data.phi0
  <2>2. d \in Data /\ f \in [Ports -> Nat]
    BY <2>1, SameFields DEF Runtime
  <2>3. Best(d, f) /\ d.seen_sources = Ports
    BY DEF Accounts, Compares, Sound
  <2>4. \A p \in Ports : f[p] = value(p)
    BY DEF fields
  <2> HIDE DEF d, f, value
  <2> DEFINE dir == d.best_direction
             wins(p) == \A q \in Ports \ {p} : f[p] > f[q]
             best(p) == \A q \in Ports \ {p} : value(p) > value(q)
  <2>5. IF \E p \in Ports : wins(p) THEN dir \in Ports /\ wins(dir)
        ELSE dir = NoDirection
    BY <2>2, <2>3, BestWins
  <2>6. \A p \in Ports : wins(p) <=> best(p)
    BY <2>4
  <2> HIDE DEF wins, best, dir
  <2>7. IF \E p \in Ports : best(p) THEN best(dir) ELSE dir = NoDirection
    BY <2>5, <2>6
  <2>8. QED
    BY <2>7 DEF d, value, dir, best
<1>2. QED
  BY <1>1, AlwaysAccounts, PTL
-----------------------------------------------------------------------------
(* Arithmetic on the torus.                                                *)
LEMMA Remainder ==
  ASSUME NEW m \in Nat \ {0}, NEW q \in 0 .. 2, NEW r \in 0 .. m - 1
  PROVE  (q * m + r) % m = r
<1>1. q = 0 \/ q = 1 \/ q = 2
  OBVIOUS
<1>2. CASE q = 0
  BY <1>2
<1>3. CASE q = 1
  BY <1>3
<1>4. CASE q = 2
  BY <1>4
<1>5. QED
  BY <1>1, <1>2, <1>3, <1>4

(* What wrap does to the values it is given.                               *)
LEMMA Wrapping ==
  ASSUME NEW m \in Nat \ {0}, NEW v \in (-m) .. (2 * m - 1)
  PROVE  wrap(v, m) = IF v < 0 THEN v + m ELSE IF v < m THEN v ELSE v - m
<1>1. CASE v < 0
  BY <1>1, Remainder DEF wrap
<1>2. CASE v \in 0 .. m - 1
  <2>1. v + m = 1 * m + v
    OBVIOUS
  <2>2. QED
    BY <1>2, <2>1, Remainder DEF wrap
<1>3. CASE v >= m
  <2>1. v + m = 2 * m + (v - m)
    OBVIOUS
  <2>2. QED
    BY <1>3, <2>1, Remainder DEF wrap
<1>4. QED
  BY <1>1, <1>2, <1>3

(* One step from a coordinate stays on the torus, and a step back undoes   *)
(* it.                                                                     *)
LEMMA OneStep ==
  ASSUME NEW distance \in Nat \ {0}, NEW v \in 0 .. distance - 1
  PROVE  /\ wrap(v + 0, distance) = v
         /\ wrap(v + 1, distance) = IF v = distance - 1 THEN 0 ELSE v + 1
         /\ wrap(v + -1, distance) = IF v = 0 THEN distance - 1 ELSE v - 1
         /\ wrap(v + 1, distance) \in 0 .. distance - 1
         /\ wrap(v + -1, distance) \in 0 .. distance - 1
<1>1. /\ wrap(v + 0, distance) = v
      /\ wrap(v + 1, distance) = IF v = distance - 1 THEN 0 ELSE v + 1
      /\ wrap(v + -1, distance) = IF v = 0 THEN distance - 1 ELSE v - 1
  BY Wrapping
<1>2. QED
  BY <1>1

(* What wrap/2 gives two steps from a coordinate.                          *)
LEMMA TwoSteps ==
  ASSUME NEW distance \in Nat \ {0}, NEW v \in 0 .. distance - 1
  PROVE  /\ wrap(v + 0, distance) = v
         /\ wrap(wrap(v + 1, distance) + 0, distance) = wrap(v + 1, distance)
         /\ wrap(wrap(v + -1, distance) + 0, distance) = wrap(v + -1, distance)
         /\ wrap(wrap(v + 1, distance) + -1, distance) = v
         /\ wrap(wrap(v + -1, distance) + 1, distance) = v
<1> DEFINE up == wrap(v + 1, distance)
           down == wrap(v + -1, distance)
<1>1. /\ up = IF v = distance - 1 THEN 0 ELSE v + 1
      /\ down = IF v = 0 THEN distance - 1 ELSE v - 1
      /\ up \in 0 .. distance - 1 /\ down \in 0 .. distance - 1
  BY OneStep
<1> HIDE DEF up, down
<1>2. /\ wrap(up + 0, distance) = up
      /\ wrap(up + -1, distance) = IF up = 0 THEN distance - 1 ELSE up - 1
  BY <1>1, OneStep
<1>3. /\ wrap(down + 0, distance) = down
      /\ wrap(down + 1, distance)
           = IF down = distance - 1 THEN 0 ELSE down + 1
  BY <1>1, OneStep
<1>4. wrap(up + -1, distance) = v /\ wrap(down + 1, distance) = v
  BY <1>1, <1>2, <1>3
<1>5. QED
  BY <1>2, <1>3, <1>4, OneStep DEF up, down
-----------------------------------------------------------------------------
(* Every link between decoder cells has a link back on the opposite port:  *)
(* what a cell labels its message with is the port on which its recipient  *)
(* answers.                                                                *)
THEOREM DecoderLinksAreMutual ==
  ASSUME NEW distance \in Nat \ {0}, NEW x \in 0 .. distance - 1,
         NEW y \in 0 .. distance - 1, NEW direction \in Directions
  PROVE  phi_neighbor(distance, phi_neighbor(distance, <<x, y>>, direction),
                      reverse[direction]) = <<x, y>>
<1> USE DEF phi_neighbor, translate, phi_relations, reverse
<1>1. /\ wrap(x + 0, distance) = x /\ wrap(y + 0, distance) = y
      /\ wrap(wrap(x + 1, distance) + 0, distance) = wrap(x + 1, distance)
      /\ wrap(wrap(y + 1, distance) + 0, distance) = wrap(y + 1, distance)
      /\ wrap(wrap(x + -1, distance) + 0, distance) = wrap(x + -1, distance)
      /\ wrap(wrap(y + -1, distance) + 0, distance) = wrap(y + -1, distance)
      /\ wrap(wrap(x + 1, distance) + -1, distance) = x
      /\ wrap(wrap(y + 1, distance) + -1, distance) = y
      /\ wrap(wrap(x + -1, distance) + 1, distance) = x
      /\ wrap(wrap(y + -1, distance) + 1, distance) = y
  BY TwoSteps
<1>2. CASE direction = "north"
  BY <1>1, <1>2
<1>3. CASE direction = "east"
  BY <1>1, <1>3
<1>4. CASE direction = "west"
  BY <1>1, <1>4
<1>5. CASE direction = "south"
  BY SMTT(60), <1>1, <1>5
<1>6. QED
  BY <1>2, <1>3, <1>4, <1>5 DEF Directions

(* The same between syndromes and data cells, from a syndrome ...          *)
THEOREM SyndromeLinksAreMutual ==
  ASSUME NEW distance \in Nat \ {0}, NEW x \in 0 .. distance - 1,
         NEW y \in 0 .. distance - 1, NEW direction \in Directions,
         NEW plane \in Planes
  PROVE  LET data == data_at(distance, plane, <<x, y>>, direction)
         IN  syndrome_at(distance, data[1], data[2], reverse[direction])
               = <<plane, <<x, y>>>>
<1> USE DEF data_at, syndrome_at, translate, relation, syndrome_relations,
      data_relations, reverse
<1>1. /\ wrap(x + 0, distance) = x /\ wrap(y + 0, distance) = y
      /\ wrap(wrap(x + 1, distance) + 0, distance) = wrap(x + 1, distance)
      /\ wrap(wrap(y + 1, distance) + 0, distance) = wrap(y + 1, distance)
      /\ wrap(wrap(x + -1, distance) + 0, distance) = wrap(x + -1, distance)
      /\ wrap(wrap(y + -1, distance) + 0, distance) = wrap(y + -1, distance)
      /\ wrap(wrap(x + 1, distance) + -1, distance) = x
      /\ wrap(wrap(y + 1, distance) + -1, distance) = y
      /\ wrap(wrap(x + -1, distance) + 1, distance) = x
      /\ wrap(wrap(y + -1, distance) + 1, distance) = y
  BY SMTT(60), TwoSteps
<1>2. CASE plane = "x"
  <2>1. CASE direction = "north"
    BY <1>1, <1>2, <2>1
  <2>2. CASE direction = "east"
    BY <1>1, <1>2, <2>2
  <2>3. CASE direction = "west"
    BY <1>1, <1>2, <2>3
  <2>4. CASE direction = "south"
    BY <1>1, <1>2, <2>4
  <2>5. QED
    BY <2>1, <2>2, <2>3, <2>4 DEF Directions
<1>3. CASE plane = "z"
  <2>1. CASE direction = "north"
    BY <1>1, <1>3, <2>1
  <2>2. CASE direction = "east"
    BY <1>1, <1>3, <2>2
  <2>3. CASE direction = "west"
    BY <1>1, <1>3, <2>3
  <2>4. CASE direction = "south"
    BY SMTT(60), <1>1, <1>3, <2>4
  <2>5. QED
    BY <2>1, <2>2, <2>3, <2>4 DEF Directions
<1>4. QED
  BY ZenonT(60), <1>2, <1>3 DEF Planes

(* ... and from a data cell.                                               *)
THEOREM DataLinksAreMutual ==
  ASSUME NEW distance \in Nat \ {0}, NEW x \in 0 .. distance - 1,
         NEW y \in 0 .. distance - 1, NEW direction \in Directions,
         NEW family \in {"even", "odd"}
  PROVE  LET syndrome == syndrome_at(distance, family, <<x, y>>, direction)
         IN  data_at(distance, syndrome[1], syndrome[2], reverse[direction])
               = <<family, <<x, y>>>>
<1> USE DEF data_at, syndrome_at, translate, relation, syndrome_relations,
      data_relations, reverse
<1>1. /\ wrap(x + 0, distance) = x /\ wrap(y + 0, distance) = y
      /\ wrap(wrap(x + 1, distance) + 0, distance) = wrap(x + 1, distance)
      /\ wrap(wrap(y + 1, distance) + 0, distance) = wrap(y + 1, distance)
      /\ wrap(wrap(x + -1, distance) + 0, distance) = wrap(x + -1, distance)
      /\ wrap(wrap(y + -1, distance) + 0, distance) = wrap(y + -1, distance)
      /\ wrap(wrap(x + 1, distance) + -1, distance) = x
      /\ wrap(wrap(y + 1, distance) + -1, distance) = y
      /\ wrap(wrap(x + -1, distance) + 1, distance) = x
      /\ wrap(wrap(y + -1, distance) + 1, distance) = y
  BY SMTT(60), TwoSteps
<1>2. CASE family = "even"
  <2>1. CASE direction = "north"
    BY <1>1, <1>2, <2>1
  <2>2. CASE direction = "east"
    BY <1>1, <1>2, <2>2
  <2>3. CASE direction = "west"
    BY <1>1, <1>2, <2>3
  <2>4. CASE direction = "south"
    BY <1>1, <1>2, <2>4
  <2>5. QED
    BY <2>1, <2>2, <2>3, <2>4 DEF Directions
<1>3. CASE family = "odd"
  <2>1. CASE direction = "north"
    BY <1>1, <1>3, <2>1
  <2>2. CASE direction = "east"
    BY <1>1, <1>3, <2>2
  <2>3. CASE direction = "west"
    BY <1>1, <1>3, <2>3
  <2>4. CASE direction = "south"
    BY SMTT(60), <1>1, <1>3, <2>4
  <2>5. QED
    BY <2>1, <2>2, <2>3, <2>4 DEF Directions
<1>4. QED
  BY ZenonT(60), <1>2, <1>3

(* A move of a decoder cell corrects the one data qubit that lies between  *)
(* its syndrome and the syndrome of the cell it moves to, in the physical  *)
(* coordinates of the host: correction_update/3 agrees with the routes.    *)
THEOREM CorrectionIsOnTheEdge ==
  ASSUME NEW distance \in Nat \ {0}, NEW x \in 0 .. distance - 1,
         NEW y \in 0 .. distance - 1, NEW direction \in Directions,
         NEW plane \in Planes
  PROVE  LET data == data_at(distance, plane, <<x, y>>, direction)
         IN  /\ physical(data)
                  = correction_update(distance, plane, <<x, y>>, direction)
             /\ syndrome_at(distance, data[1], data[2], direction)
                  = <<plane, phi_neighbor(distance, <<x, y>>, direction)>>
<1> USE DEF data_at, syndrome_at, translate, relation, syndrome_relations,
      data_relations, phi_neighbor, phi_relations, physical,
      correction_update
<1>1. /\ wrap(x + 0, distance) = x /\ wrap(y + 0, distance) = y
      /\ wrap(wrap(x + 1, distance) + 0, distance) = wrap(x + 1, distance)
      /\ wrap(wrap(y + 1, distance) + 0, distance) = wrap(y + 1, distance)
      /\ wrap(wrap(x + -1, distance) + 0, distance) = wrap(x + -1, distance)
      /\ wrap(wrap(y + -1, distance) + 0, distance) = wrap(y + -1, distance)
      /\ wrap(wrap(x + 1, distance) + -1, distance) = x
      /\ wrap(wrap(y + 1, distance) + -1, distance) = y
      /\ wrap(wrap(x + -1, distance) + 1, distance) = x
      /\ wrap(wrap(y + -1, distance) + 1, distance) = y
  BY TwoSteps
<1>2. /\ wrap(2 * y - 1, 2 * distance) = 2 * wrap(y + -1, distance) + 1
      /\ wrap(2 * y + 2, 2 * distance) = 2 * wrap(y + 1, distance)
  <2>1. wrap(2 * y - 1, 2 * distance) =
          IF y = 0 THEN 2 * distance - 1 ELSE 2 * y - 1
    BY Wrapping
  <2>2. wrap(2 * y + 2, 2 * distance) =
          IF y = distance - 1 THEN 0 ELSE 2 * y + 2
    BY Wrapping
  <2>3. /\ wrap(y + 1, distance) = IF y = distance - 1 THEN 0 ELSE y + 1
        /\ wrap(y + -1, distance) = IF y = 0 THEN distance - 1 ELSE y - 1
    BY SMTT(60), OneStep
  <2>4. QED
    BY <2>1, <2>2, <2>3
<1>3. CASE plane = "x"
  <2>1. CASE direction = "north"
    BY <1>1, <1>2, <1>3, <2>1
  <2>2. CASE direction = "east"
    BY <1>1, <1>2, <1>3, <2>2
  <2>3. CASE direction = "west"
    BY <1>1, <1>2, <1>3, <2>3
  <2>4. CASE direction = "south"
    BY <1>1, <1>2, <1>3, <2>4
  <2>5. QED
    BY <2>1, <2>2, <2>3, <2>4 DEF Directions
<1>4. CASE plane = "z"
  <2>1. CASE direction = "north"
    BY <1>1, <1>2, <1>4, <2>1
  <2>2. CASE direction = "east"
    BY <1>1, <1>2, <1>4, <2>2
  <2>3. CASE direction = "west"
    BY SMTT(60), <1>1, <1>2, <1>4, <2>3
  <2>4. CASE direction = "south"
    <3>1. data_at(distance, plane, <<x, y>>, direction)
            = <<"even", <<wrap(x + 1, distance), wrap(y + 1, distance)>>>>
      BY <1>4, <2>4
    <3>2. physical(data_at(distance, plane, <<x, y>>, direction))
            = correction_update(distance, plane, <<x, y>>, direction)
      <4>1. correction_update(distance, plane, <<x, y>>, direction)
              = <<wrap(x + 1, distance), wrap(2 * y + 2, 2 * distance)>>
        BY <1>4, <2>4
      <4>2. wrap(y + 1, distance) \in Nat
        BY OneStep
      <4>3. physical(data_at(distance, plane, <<x, y>>, direction))
              = <<wrap(x + 1, distance), 2 * wrap(y + 1, distance)>>
        BY <3>1, <4>2
      <4>4. QED
        BY <1>2, <4>1, <4>3
    <3>3. syndrome_at(distance, "even", <<wrap(x + 1, distance),
                                          wrap(y + 1, distance)>>, "south")
            = <<plane, phi_neighbor(distance, <<x, y>>, direction)>>
      BY <1>1, <1>4, <2>4
    <3>4. QED
      BY <2>4, <3>1, <3>2, <3>3
  <2>5. QED
    BY <2>1, <2>2, <2>3, <2>4 DEF Directions
<1>5. QED
  BY <1>3, <1>4 DEF Planes

(* "Distance three is the smallest witness in which the four cardinal phi  *)
(* neighbors are distinct": the decoder meshes of PhiMeshAssumption, where  *)
(* no two ports lead to one cell, exist exactly from there.                *)
THEOREM PortsLeadApart ==
  ASSUME NEW distance \in Nat \ {0}, NEW x \in 0 .. distance - 1,
         NEW y \in 0 .. distance - 1
  PROVE  (\A p, q \in Directions :
            p # q => phi_neighbor(distance, <<x, y>>, p)
                       # phi_neighbor(distance, <<x, y>>, q))
         <=> distance >= 3
<1>1. /\ phi_neighbor(distance, <<x, y>>, "north") =
           <<x, wrap(y + -1, distance)>>
      /\ phi_neighbor(distance, <<x, y>>, "south") =
           <<x, wrap(y + 1, distance)>>
      /\ phi_neighbor(distance, <<x, y>>, "east") =
           <<wrap(x + 1, distance), y>>
      /\ phi_neighbor(distance, <<x, y>>, "west") =
           <<wrap(x + -1, distance), y>>
  <2>1. wrap(x + 0, distance) = x /\ wrap(y + 0, distance) = y
    BY OneStep
  <2>2. QED
    BY <2>1 DEF phi_neighbor, phi_relations, translate
<1>2. CASE distance >= 3
  <2>1. \A v \in {x, y} :
          /\ wrap(v + 1, distance) = IF v = distance - 1 THEN 0 ELSE v + 1
          /\ wrap(v + -1, distance) = IF v = 0 THEN distance - 1 ELSE v - 1
    BY OneStep
  <2>2. \A v \in {x, y} :
          /\ wrap(v + 1, distance) # v /\ wrap(v + -1, distance) # v
          /\ wrap(v + 1, distance) # wrap(v + -1, distance)
    BY <1>2, <2>1
  <2>3. QED
    BY <1>1, <1>2, <2>2 DEF Directions
<1>3. CASE distance < 3
  <2>1. wrap(y + -1, distance) = wrap(y + 1, distance)
    <3>1. /\ wrap(y + 1, distance) = IF y = distance - 1 THEN 0 ELSE y + 1
          /\ wrap(y + -1, distance) = IF y = 0 THEN distance - 1 ELSE y - 1
      BY OneStep
    <3>2. distance = 1 \/ distance = 2
      BY <1>3
    <3>3. QED
      BY <3>1, <3>2
  <2>2. phi_neighbor(distance, <<x, y>>, "north") =
          phi_neighbor(distance, <<x, y>>, "south")
    BY <1>1, <2>1
  <2>3. QED
    BY <1>3, <2>2 DEF Directions
<1>4. QED
  BY <1>2, <1>3

(* From distance three the torus is a mesh of PhiMeshAssumption, so that   *)
(* the theorems about PhiMesh hold of every decoder of that size.          *)
THEOREM TorusIsAMesh ==
  ASSUME NEW distance \in Nat, distance >= 3
  PROVE  LET torus == (0 .. distance - 1) \X (0 .. distance - 1)
             next == [c \in torus |-> [p \in Directions |->
                                         phi_neighbor(distance, c, p)]]
         IN  /\ IsFiniteSet(torus) /\ torus # {}
             /\ IsFiniteSet(Directions) /\ Cardinality(Directions) = 4
             /\ next \in [torus -> [Directions -> torus]]
             /\ reverse \in [Directions -> Directions]
             /\ \A c \in torus, p \in Directions :
                  /\ next[next[c][p]][reverse[p]] = c
                  /\ next[c][p] # c
                  /\ \A q \in Directions \ {p} : next[c][q] # next[c][p]
<1> DEFINE side == 0 .. distance - 1
           torus == side \X side
           next == [c \in torus |-> [p \in Directions |->
                                       phi_neighbor(distance, c, p)]]
<1>1. IsFiniteSet(torus) /\ torus # {}
  <2>1. IsFiniteSet(side)
    BY FS_Interval
  <2>2. <<0, 0>> \in torus
    OBVIOUS
  <2> HIDE DEF side
  <2>3. QED
    BY <2>1, <2>2, FS_Product
<1>2. IsFiniteSet(Directions) /\ Cardinality(Directions) = 4
  <2> DEFINE one == {"north"}
             two == one \cup {"east"}
             three == two \cup {"west"}
  <2>1. IsFiniteSet(one) /\ Cardinality(one) = 1 /\ "east" \notin one
    BY FS_Singleton
  <2>2. IsFiniteSet(two) /\ Cardinality(two) = 2
    <3> HIDE DEF one
    <3>1. QED
      BY <2>1, FS_AddElement
  <2>3. "west" \notin two
    OBVIOUS
  <2>4. IsFiniteSet(three) /\ Cardinality(three) = 3
    <3> HIDE DEF two
    <3>1. QED
      BY <2>2, <2>3, FS_AddElement
  <2>5. "south" \notin three /\ Directions = three \cup {"south"}
    BY DEF Directions
  <2>6. QED
    <3> HIDE DEF three
    <3>1. QED
      BY <2>4, <2>5, FS_AddElement
<1>3. ASSUME NEW c \in torus, NEW p \in Directions
      PROVE  phi_neighbor(distance, c, p) \in torus
  <2>1. PICK x \in side, y \in side : c = <<x, y>>
    OBVIOUS
  <2>2. \A v \in side : {wrap(v + 1, distance), wrap(v + 0, distance),
                         wrap(v + -1, distance)} \subseteq side
    BY SMTT(60), OneStep
  <2>3. QED
    BY <2>1, <2>2 DEF phi_neighbor, translate, phi_relations, Directions
<1>4. \A c \in torus, p \in Directions :
        next[c][p] = phi_neighbor(distance, c, p)
  OBVIOUS
<1>5. reverse \in [Directions -> Directions]
  BY DEF reverse, Directions
<1>6. ASSUME NEW c \in torus, NEW p \in Directions
      PROVE  /\ next[next[c][p]][reverse[p]] = c
             /\ next[c][p] # c
             /\ \A q \in Directions \ {p} : next[c][q] # next[c][p]
  <2>1. PICK x \in side, y \in side : c = <<x, y>>
    OBVIOUS
  <2>2. phi_neighbor(distance, phi_neighbor(distance, c, p), reverse[p]) = c
    BY <2>1, DecoderLinksAreMutual
  <2>3. next[next[c][p]][reverse[p]]
          = phi_neighbor(distance, phi_neighbor(distance, c, p), reverse[p])
    <3> HIDE DEF next, torus
    <3>1. QED
      BY <1>3, <1>4, <1>5
  <2>4. \A q \in Directions \ {p} : next[c][q] # next[c][p]
    <3>1. \A q, r \in Directions :
            q # r => phi_neighbor(distance, c, q)
                       # phi_neighbor(distance, c, r)
      BY <2>1, PortsLeadApart
    <3> HIDE DEF next, torus
    <3>2. QED
      BY <1>4, <3>1
  <2>5. phi_neighbor(distance, c, p) # c
    <3>1. \A v \in side : /\ wrap(v + 1, distance) # v
                          /\ wrap(v + -1, distance) # v
      <4>1. \A v \in side :
              /\ wrap(v + 1, distance) = IF v = distance - 1 THEN 0 ELSE v + 1
              /\ wrap(v + -1, distance) = IF v = 0 THEN distance - 1 ELSE v - 1
        <5>1. distance \in Nat \ {0}
          OBVIOUS
        <5>2. QED
          BY ONLY <5>1, OneStep DEF side
      <4>2. QED
        BY <4>1
    <3>2. QED
      BY <2>1, <3>1 DEF phi_neighbor, translate, phi_relations, Directions
  <2>6. QED
    BY <1>4, <2>2, <2>3, <2>4, <2>5
<1>7. next \in [torus -> [Directions -> torus]]
  BY <1>3
<1>8. QED
  BY <1>1, <1>2, <1>5, <1>6, <1>7

(* And from distance two the syndromes of both planes and the data cells   *)
(* of both families are a mesh as NoiseMesh assumes it: what a cell hears  *)
(* on a port comes from one neighbor, and that neighbor hears it back on   *)
(* the opposite port.                                                      *)
THEOREM TorusIsANoiseMesh ==
  ASSUME NEW distance \in Nat, distance >= 2
  PROVE  LET torus == (0 .. distance - 1) \X (0 .. distance - 1)
             syndromes == Planes \X torus
             datas == {"even", "odd"} \X torus
             datas_at == [s \in syndromes |-> [p \in Directions |->
                            data_at(distance, s[1], s[2], p)]]
             syndromes_at == [d \in datas |-> [p \in Directions |->
                                syndrome_at(distance, d[1], d[2], p)]]
         IN  /\ syndromes \cap datas = {}
             /\ datas_at \in [syndromes -> [Directions -> datas]]
             /\ syndromes_at \in [datas -> [Directions -> syndromes]]
             /\ \A s \in syndromes, p \in Directions :
                  /\ syndromes_at[datas_at[s][p]][reverse[p]] = s
                  /\ \A q \in Directions \ {p} : datas_at[s][q] # datas_at[s][p]
             /\ \A d \in datas, p \in Directions :
                  /\ datas_at[syndromes_at[d][p]][reverse[p]] = d
                  /\ \A q \in Directions \ {p} :
                       syndromes_at[d][q] # syndromes_at[d][p]
<1> DEFINE side == 0 .. distance - 1
           torus == side \X side
           syndromes == Planes \X torus
           datas == {"even", "odd"} \X torus
           datas_at == [s \in syndromes |-> [p \in Directions |->
                          data_at(distance, s[1], s[2], p)]]
           syndromes_at == [d \in datas |-> [p \in Directions |->
                              syndrome_at(distance, d[1], d[2], p)]]
<1>1. distance \in Nat \ {0}
  OBVIOUS
<1>2. ASSUME NEW v \in side
      PROVE  /\ wrap(v + 0, distance) = v
             /\ wrap(v + 1, distance) \in side /\ wrap(v + 1, distance) # v
             /\ wrap(v + -1, distance) \in side /\ wrap(v + -1, distance) # v
  <2>1. /\ wrap(v + 0, distance) = v
        /\ wrap(v + 1, distance) = IF v = distance - 1 THEN 0 ELSE v + 1
        /\ wrap(v + -1, distance) = IF v = 0 THEN distance - 1 ELSE v - 1
        /\ wrap(v + 1, distance) \in side /\ wrap(v + -1, distance) \in side
    BY <1>1, OneStep
  <2>2. QED
    BY <2>1
<1>3. syndromes \cap datas = {}
  BY DEF Planes
<1>4. reverse \in [Directions -> Directions]
  BY DEF reverse, Directions
<1>5. ASSUME NEW s \in syndromes
      PROVE  \E plane \in Planes, x \in side, y \in side :
               s = <<plane, <<x, y>>>> /\ s[1] = plane /\ s[2] = <<x, y>>
  OBVIOUS
<1>6. ASSUME NEW d \in datas
      PROVE  \E family \in {"even", "odd"}, x \in side, y \in side :
               d = <<family, <<x, y>>>> /\ d[1] = family /\ d[2] = <<x, y>>
  OBVIOUS
<1>7. ASSUME NEW plane \in Planes, NEW x \in side, NEW y \in side
      PROVE  /\ \A p \in Directions :
                  data_at(distance, plane, <<x, y>>, p) \in datas
             /\ \A p, q \in Directions :
                  p # q => data_at(distance, plane, <<x, y>>, p)
                             # data_at(distance, plane, <<x, y>>, q)
  <2> DEFINE onto(p) == data_at(distance, plane, <<x, y>>, p)
             right == wrap(x + 1, distance)
             up == wrap(y + 1, distance)
             down == wrap(y + -1, distance)
  <2>1. /\ right \in side /\ right # x
        /\ up \in side /\ up # y /\ down \in side /\ down # y
        /\ wrap(x + 0, distance) = x /\ wrap(y + 0, distance) = y
    BY <1>2
  <2>2. CASE plane = "x"
    <3>1. /\ onto("north") = <<"odd", <<x, down>>>>
          /\ onto("east") = <<"even", <<right, y>>>>
          /\ onto("west") = <<"even", <<x, y>>>>
          /\ onto("south") = <<"odd", <<x, y>>>>
      BY <2>1, <2>2 DEF data_at, translate, syndrome_relations, relation
    <3> HIDE DEF onto, right, up, down
    <3>2. QED
      BY <2>1, <3>1 DEF Directions, onto
  <2>3. CASE plane = "z"
    <3>1. /\ onto("north") = <<"even", <<right, y>>>>
          /\ onto("east") = <<"odd", <<right, y>>>>
          /\ onto("west") = <<"odd", <<x, y>>>>
          /\ onto("south") = <<"even", <<right, up>>>>
      BY <2>1, <2>3 DEF data_at, translate, syndrome_relations, relation
    <3> HIDE DEF onto, right, up, down
    <3>2. QED
      BY <2>1, <3>1 DEF Directions, onto
  <2>4. QED
    BY <2>2, <2>3 DEF Planes
<1>8. ASSUME NEW family \in {"even", "odd"}, NEW x \in side, NEW y \in side
      PROVE  /\ \A p \in Directions :
                  syndrome_at(distance, family, <<x, y>>, p) \in syndromes
             /\ \A p, q \in Directions :
                  p # q => syndrome_at(distance, family, <<x, y>>, p)
                             # syndrome_at(distance, family, <<x, y>>, q)
  <2> DEFINE onto(p) == syndrome_at(distance, family, <<x, y>>, p)
             left == wrap(x + -1, distance)
             up == wrap(y + 1, distance)
             down == wrap(y + -1, distance)
  <2>1. /\ left \in side /\ left # x
        /\ up \in side /\ up # y /\ down \in side /\ down # y
        /\ wrap(x + 0, distance) = x /\ wrap(y + 0, distance) = y
    BY <1>2
  <2>2. CASE family = "even"
    <3>1. /\ onto("north") = <<"z", <<left, down>>>>
          /\ onto("east") = <<"x", <<x, y>>>>
          /\ onto("west") = <<"x", <<left, y>>>>
          /\ onto("south") = <<"z", <<left, y>>>>
      BY <2>1, <2>2 DEF syndrome_at, translate, data_relations, relation
    <3> HIDE DEF onto, left, up, down
    <3>2. QED
      BY <2>1, <3>1 DEF Directions, Planes, onto
  <2>3. CASE family = "odd"
    <3>1. /\ onto("north") = <<"x", <<x, y>>>>
          /\ onto("east") = <<"z", <<x, y>>>>
          /\ onto("west") = <<"z", <<left, y>>>>
          /\ onto("south") = <<"x", <<x, up>>>>
      BY <2>1, <2>3 DEF syndrome_at, translate, data_relations, relation
    <3> HIDE DEF onto, left, up, down
    <3>2. QED
      BY <2>1, <3>1 DEF Directions, Planes, onto
  <2>4. QED
    BY <2>2, <2>3
<1>9. /\ \A s \in syndromes, p \in Directions :
           /\ datas_at[s][p] = data_at(distance, s[1], s[2], p)
           /\ datas_at[s][p] \in datas
      /\ \A d \in datas, p \in Directions :
           /\ syndromes_at[d][p] = syndrome_at(distance, d[1], d[2], p)
           /\ syndromes_at[d][p] \in syndromes
  <2>1. ASSUME NEW s \in syndromes, NEW p \in Directions
        PROVE  /\ datas_at[s][p] = data_at(distance, s[1], s[2], p)
               /\ data_at(distance, s[1], s[2], p) \in datas
    <3>1. data_at(distance, s[1], s[2], p) \in datas
      BY <1>5, <1>7
    <3>2. QED
      BY <3>1
  <2>2. ASSUME NEW d \in datas, NEW p \in Directions
        PROVE  /\ syndromes_at[d][p] = syndrome_at(distance, d[1], d[2], p)
               /\ syndrome_at(distance, d[1], d[2], p) \in syndromes
    <3>1. syndrome_at(distance, d[1], d[2], p) \in syndromes
      BY <1>6, <1>8
    <3>2. QED
      BY <3>1
  <2> HIDE DEF datas_at, syndromes_at, syndromes, datas
  <2>3. QED
    BY <2>1, <2>2
<1>10. ASSUME NEW s \in syndromes, NEW p \in Directions
       PROVE  /\ syndromes_at[datas_at[s][p]][reverse[p]] = s
              /\ \A q \in Directions \ {p} : datas_at[s][q] # datas_at[s][p]
  <2>1. PICK plane \in Planes, x \in side, y \in side :
               s = <<plane, <<x, y>>>> /\ s[1] = plane /\ s[2] = <<x, y>>
    BY <1>5
  <2> DEFINE d == data_at(distance, plane, <<x, y>>, p)
  <2>2. syndrome_at(distance, d[1], d[2], reverse[p]) = s
    <3>1. /\ distance \in Nat \ {0} /\ plane \in Planes /\ p \in Directions
          /\ x \in 0 .. distance - 1 /\ y \in 0 .. distance - 1
      BY <1>1
    <3>2. syndrome_at(distance, d[1], d[2], reverse[p]) = <<plane, <<x, y>>>>
      BY ONLY <3>1, SyndromeLinksAreMutual
    <3>3. QED
      BY <2>1, <3>2
  <2>3. d = datas_at[s][p] /\ d \in datas
    <3> HIDE DEF datas_at, syndromes, datas
    <3>1. QED
      BY <1>9, <2>1
  <2> HIDE DEF d
  <2>4. syndromes_at[datas_at[s][p]][reverse[p]] = s
    <3> HIDE DEF datas_at, syndromes_at, syndromes, datas
    <3>1. QED
      BY <1>4, <1>9, <2>2, <2>3
  <2>5. \A q \in Directions \ {p} : datas_at[s][q] # datas_at[s][p]
    <3> HIDE DEF datas_at, syndromes, datas
    <3>1. QED
      BY <1>7, <1>9, <2>1
  <2>6. QED
    BY <2>4, <2>5
<1>11. ASSUME NEW d \in datas, NEW p \in Directions
       PROVE  /\ datas_at[syndromes_at[d][p]][reverse[p]] = d
              /\ \A q \in Directions \ {p} :
                   syndromes_at[d][q] # syndromes_at[d][p]
  <2>1. PICK family \in {"even", "odd"}, x \in side, y \in side :
               d = <<family, <<x, y>>>> /\ d[1] = family /\ d[2] = <<x, y>>
    BY <1>6
  <2> DEFINE s == syndrome_at(distance, family, <<x, y>>, p)
  <2>2. data_at(distance, s[1], s[2], reverse[p]) = d
    <3>1. /\ distance \in Nat \ {0} /\ family \in {"even", "odd"} /\ p \in Directions
          /\ x \in 0 .. distance - 1 /\ y \in 0 .. distance - 1
      BY <1>1
    <3>2. data_at(distance, s[1], s[2], reverse[p]) = <<family, <<x, y>>>>
      BY ONLY <3>1, DataLinksAreMutual
    <3>3. QED
      BY <2>1, <3>2
  <2>3. s = syndromes_at[d][p] /\ s \in syndromes
    <3> HIDE DEF syndromes_at, syndromes, datas
    <3>1. QED
      BY <1>9, <2>1
  <2> HIDE DEF s
  <2>4. datas_at[syndromes_at[d][p]][reverse[p]] = d
    <3> HIDE DEF datas_at, syndromes_at, syndromes, datas
    <3>1. QED
      BY <1>4, <1>9, <2>2, <2>3
  <2>5. \A q \in Directions \ {p} : syndromes_at[d][q] # syndromes_at[d][p]
    <3> HIDE DEF syndromes_at, syndromes, datas
    <3>1. QED
      BY <1>8, <1>9, <2>1
  <2>6. QED
    BY <2>4, <2>5
<1>12. datas_at \in [syndromes -> [Directions -> datas]]
  <2>1. ASSUME NEW s \in syndromes, NEW p \in Directions
        PROVE  data_at(distance, s[1], s[2], p) \in datas
    BY <1>5, <1>7
  <2> HIDE DEF syndromes, datas
  <2>2. QED
    BY <2>1
<1>13. syndromes_at \in [datas -> [Directions -> syndromes]]
  <2>1. ASSUME NEW d \in datas, NEW p \in Directions
        PROVE  syndrome_at(distance, d[1], d[2], p) \in syndromes
    BY <1>6, <1>8
  <2> HIDE DEF syndromes, datas
  <2>2. QED
    BY <2>1
<1>14. QED
  BY <1>3, <1>10, <1>11, <1>12, <1>13
=============================================================================
