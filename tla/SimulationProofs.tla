--------------------------- MODULE SimulationProofs ---------------------------
(***************************************************************************)
(* Simulated time in Simulation, for any workers, training times, budgets  *)
(* and either kind of aggregator: nothing under way is older than the      *)
(* server's clock, and updates are aggregated in the order of time.  Then  *)
(* the turns of the workers: none is lost and none is given twice.         *)
(*                                                                         *)
(* The operations of the server leave its clock alone; what a step does to *)
(* it, it does first.  So each operation is shown to keep a server and a   *)
(* queue in order (InOrder), and each step to move the clock no further    *)
(* than the earliest message.                                              *)
(***************************************************************************)
EXTENDS Simulation, FiniteSetTheorems, SequenceTheorems, WellFoundedInduction, TLAPS

\* What waits for an aggregation, and the last aggregation, are of the past, of before
\* the deadline if there is one; the messages in the queue are not.
InOrder(s, q) ==
  /\ s.crash # "late"
  /\ s.state > TotalRounds => s.fresh = {}
  /\ \A i \in DOMAIN q : q[i].at >= s.time
  /\ \A u \in s.fresh \cup s.staled : u.at <= s.time /\ (timeUp => u.at < s.deadline)
  /\ timeUp => s.time <= s.deadline
  /\ s.agg.at <= s.time
  /\ \A u \in s.agg.updates : u.at <= s.agg.at /\ (timeUp => u.at < s.agg.at)

\* Models are of rounds there are to train, so that no update is ever of the round that
\* the server is in when there is nothing left to train.
InRounds(s, q) ==
  /\ IsFiniteSet(s.fresh) /\ IsFiniteSet(s.staled)
  /\ \A i \in DOMAIN q : q[i].round <= TotalRounds

Fit(s, q) ==
  /\ s \in Server /\ q \in Seq(Message)
  /\ InRounds(s, q)
  /\ ~s.finished => InOrder(s, q)

\* What an operation makes of a server whose clock shows now.
Good(now, r) ==
  /\ Fit(r.server, r.queue)
  /\ r.server.time = now

\* Whatever the server has put aside is not of its past.
Ahead(s, c) ==
  /\ \A i \in DOMAIN c : c[i].round <= TotalRounds
  /\ ~s.finished => \A i \in DOMAIN c : c[i].at >= s.time

\* Before the start nothing is under way or received.
Idle == server.time = 0 /\ server.fresh = {} /\ server.staled = {} /\ ~server.finished

IInv ==
  /\ TypeOK
  /\ Fit(server, queue)
  /\ Ahead(server, cache)
  /\ ~started => Idle

-----------------------------------------------------------------------------
(* The earliest message.                                                   *)

LEMMA LeastNat ==
  ASSUME NEW T \in SUBSET Nat, T # {}
  PROVE  \E x \in T : \A y \in T : x <= y
<1>1. PICK x \in T : \A y \in T : <<y, x>> \notin OpToRel(<, Nat)
  BY NatLessThanWellFounded, WFMin
<1>2. \A y \in T : ~(y < x)
  BY <1>1 DEF OpToRel
<1> QED  BY <1>2

\* The heap has a first message, and none in it is earlier.
LEMMA EarliestIsFirst ==
  ASSUME NEW c \in Seq(Message), c # <<>>
  PROVE  /\ Earliest(c) \in DOMAIN c
         /\ \A j \in DOMAIN c : c[j].at >= c[Earliest(c)].at
<1> DEFINE First(i) == \A j \in DOMAIN c \ {i} :
             \/ c[i].at < c[j].at
             \/ c[i].at = c[j].at /\ c[i].round < c[j].round
             \/ c[i].at = c[j].at /\ c[i].round = c[j].round /\ i < j
<1>1. /\ DOMAIN c = 1 .. Len(c) /\ Len(c) \in Nat /\ Len(c) # 0
      /\ \A i \in DOMAIN c : c[i].at \in Nat /\ c[i].round \in Nat
  <2>1. DOMAIN c = 1 .. Len(c) /\ Len(c) \in Nat /\ Len(c) # 0
    BY LenProperties, EmptySeq
  <2>2. ASSUME NEW i \in DOMAIN c  PROVE c[i].at \in Nat /\ c[i].round \in Nat
    <3>1. c[i] \in Message
      BY <2>1, ElementOfSeq
    <3> QED  BY <3>1, SimulationAssumption DEF Message, Rounds
  <2> QED  BY <2>1, <2>2
<1>2. PICK a \in {c[i].at : i \in DOMAIN c} : \A b \in {c[i].at : i \in DOMAIN c} : a <= b
  <2>1. {c[i].at : i \in DOMAIN c} \in SUBSET Nat /\ c[1].at \in {c[i].at : i \in DOMAIN c}
    BY <1>1
  <2> QED  BY <2>1, LeastNat
<1> DEFINE S == {i \in DOMAIN c : c[i].at = a}
<1>3. PICK r \in {c[i].round : i \in S} : \A b \in {c[i].round : i \in S} : r <= b
  <2>1. {c[i].round : i \in S} \in SUBSET Nat /\ {c[i].round : i \in S} # {}
    BY <1>1, <1>2
  <2> QED  BY <2>1, LeastNat
<1> DEFINE T == {i \in S : c[i].round = r}
<1>4. PICK i \in T : \A j \in T : i <= j
  <2>1. T \in SUBSET Nat /\ T # {}
    BY <1>1, <1>3
  <2> QED  BY <2>1, LeastNat
<1>5. First(i) /\ i \in DOMAIN c
  <2> SUFFICES ASSUME NEW j \in DOMAIN c \ {i}
               PROVE  \/ c[i].at < c[j].at
                      \/ c[i].at = c[j].at /\ c[i].round < c[j].round
                      \/ c[i].at = c[j].at /\ c[i].round = c[j].round /\ i < j
    BY <1>4
  <2>1. /\ c[j].at \in Nat /\ c[j].round \in Nat /\ i \in Nat /\ j \in Nat
        /\ c[i].at \in Nat /\ c[i].round \in Nat /\ c[i].at = a /\ c[i].round = r
    BY <1>1, <1>4
  <2>2. c[i].at <= c[j].at
    BY <1>2, <2>1
  <2>3. c[j].at = a => c[i].round <= c[j].round
    BY <1>3, <2>1
  <2>4. c[j].at = a /\ c[j].round = r => i <= j
    BY <1>4
  <2> HIDE DEF S, T
  <2> QED  BY <2>1, <2>2, <2>3, <2>4
<1>6. Earliest(c) = CHOOSE k \in DOMAIN c : First(k)
  BY DEF Earliest
<1>7. Earliest(c) \in DOMAIN c /\ First(Earliest(c))
  <2> HIDE DEF First
  <2> QED  BY <1>5, <1>6
<1>8. PICK e \in DOMAIN c : e = Earliest(c) /\ First(e)
  BY <1>7
<1>9. ASSUME NEW j \in DOMAIN c  PROVE c[j].at >= c[e].at
  <2>1. c[j].at \in Nat /\ c[e].at \in Nat
    BY <1>1
  <2> QED  BY <1>8, <2>1
<1> QED  BY <1>8, <1>9

\* Taking a message out of the heap leaves the others, in their order.
LEMMA WithoutAt ==
  ASSUME NEW c \in Seq(Message), NEW i \in DOMAIN c
  PROVE  /\ Without(c, i) \in Seq(Message) /\ DOMAIN Without(c, i) = 1 .. Len(c) - 1
         /\ \A j \in DOMAIN Without(c, i) : Without(c, i)[j] = c[IF j < i THEN j ELSE j + 1]
<1> DEFINE a == SubSeq(c, 1, i - 1)
           b == SubSeq(c, i + 1, Len(c))
<1>1. Len(c) \in Nat /\ DOMAIN c = 1 .. Len(c) /\ i \in 1 .. Len(c)
  BY LenProperties
<1>2. /\ a \in Seq(Message) /\ Len(a) = i - 1
      /\ \A j \in 1 .. Len(a) : a[j] = c[j]
  <2>1. \A j \in 1 .. i - 1 : c[j] \in Message
    BY <1>1, ElementOfSeq
  <2>2. i - 1 \in Int /\ 1 \in Int
    BY <1>1
  <2>3. /\ a \in Seq(Message)
        /\ Len(a) = IF 1 <= i - 1 THEN (i - 1) - 1 + 1 ELSE 0
        /\ \A j \in 1 .. (i - 1) - 1 + 1 : a[j] = c[1 + j - 1]
    BY <2>1, <2>2, SubSeqProperties
  <2> HIDE DEF a
  <2> QED  BY <1>1, <2>3
<1>3. /\ b \in Seq(Message) /\ Len(b) = Len(c) - i
      /\ \A j \in 1 .. Len(b) : b[j] = c[i + j]
  <2>1. \A j \in i + 1 .. Len(c) : c[j] \in Message
    BY <1>1, ElementOfSeq
  <2>2. i + 1 \in Int /\ Len(c) \in Int
    BY <1>1
  <2>3. /\ b \in Seq(Message)
        /\ Len(b) = IF i + 1 <= Len(c) THEN Len(c) - (i + 1) + 1 ELSE 0
        /\ \A j \in 1 .. Len(c) - (i + 1) + 1 : b[j] = c[(i + 1) + j - 1]
    BY <2>1, <2>2, SubSeqProperties
  <2> HIDE DEF b
  <2>4. Len(b) = Len(c) - i
    BY <1>1, <2>3
  <2>5. ASSUME NEW j \in 1 .. Len(b)  PROVE b[j] = c[i + j]
    <3>1. j \in 1 .. Len(c) - (i + 1) + 1 /\ (i + 1) + j - 1 = i + j
      BY <1>1, <2>4
    <3>2. b[j] = c[(i + 1) + j - 1]
      BY <2>3, <3>1
    <3> QED  BY <3>1, <3>2
  <2> QED  BY <2>3, <2>4, <2>5
<1> HIDE DEF a, b
<1>4. /\ a \o b \in Seq(Message) /\ DOMAIN (a \o b) = 1 .. Len(a) + Len(b)
      /\ \A j \in 1 .. Len(a) + Len(b) :
           (a \o b)[j] = IF j <= Len(a) THEN a[j] ELSE b[j - Len(a)]
  <2>1. /\ a \o b \in Seq(Message) /\ Len(a \o b) = Len(a) + Len(b)
        /\ \A j \in 1 .. Len(a) + Len(b) :
             (a \o b)[j] = IF j <= Len(a) THEN a[j] ELSE b[j - Len(a)]
    BY <1>2, <1>3, ConcatProperties
  <2>2. DOMAIN (a \o b) = 1 .. Len(a \o b)
    BY <2>1, LenProperties
  <2> QED  BY <2>1, <2>2
<1>5. Len(a) + Len(b) = Len(c) - 1 /\ Len(a) = i - 1 /\ Len(a) \in Nat /\ Len(b) \in Nat
  BY <1>1, <1>2, <1>3
<1>6. ASSUME NEW j \in 1 .. Len(c) - 1
      PROVE  (a \o b)[j] = c[IF j < i THEN j ELSE j + 1]
  <2>1. (a \o b)[j] = IF j <= Len(a) THEN a[j] ELSE b[j - Len(a)]
    BY <1>4, <1>5
  <2>2. CASE j < i
    <3>1. j \in 1 .. Len(a)
      BY <1>1, <1>5, <2>2
    <3> QED  BY <1>2, <1>5, <2>1, <2>2, <3>1
  <2>3. CASE ~(j < i)
    <3> DEFINE k == j - Len(a)
    <3>1. k \in 1 .. Len(b) /\ ~(j <= Len(a)) /\ i + k = j + 1
      BY <1>1, <1>5, <2>3
    <3>2. (a \o b)[j] = b[k]
      BY <2>1, <3>1
    <3> HIDE DEF k
    <3>3. b[k] = c[i + k]
      BY <1>3, <3>1
    <3> QED  BY <2>3, <3>1, <3>2, <3>3
  <2> QED  BY <2>2, <2>3
<1> QED  BY <1>4, <1>5, <1>6 DEF Without, a, b

LEMMA WithoutKeeps ==
  ASSUME NEW c \in Seq(Message), NEW i \in DOMAIN c
  PROVE  /\ Without(c, i) \in Seq(Message)
         /\ \A j \in DOMAIN Without(c, i) : \E k \in DOMAIN c : Without(c, i)[j] = c[k]
<1> DEFINE l == Without(c, i)
<1>1. /\ l \in Seq(Message) /\ DOMAIN l = 1 .. Len(c) - 1
      /\ \A j \in DOMAIN l : l[j] = c[IF j < i THEN j ELSE j + 1]
      /\ DOMAIN c = 1 .. Len(c) /\ Len(c) \in Nat
  BY WithoutAt, LenProperties
<1> HIDE DEF l
<1>2. ASSUME NEW j \in DOMAIN l  PROVE \E k \in DOMAIN c : l[j] = c[k]
  <2>1. (IF j < i THEN j ELSE j + 1) \in DOMAIN c
    BY <1>1
  <2> QED  BY <1>1, <2>1
<1> QED  BY <1>1, <1>2 DEF l

-----------------------------------------------------------------------------
(* The server's operations.                                                *)

LEMMA RoundsAreNat == TotalRounds \in Nat \ {0} /\ Rounds \subseteq Nat
BY SimulationAssumption DEF Rounds

LEMMA CappedRound ==
  ASSUME NEW r \in Int, r >= 0
  PROVE  Capped(r) \in Rounds /\ Capped(r) <= TotalRounds
BY SimulationAssumption DEF Capped, Rounds

\* Messages of now to some workers.
LEMMA ToFit ==
  ASSUME NEW S \in SUBSET Clients, NEW n \in Nat, NEW p \in Lists(S, n),
         NEW type \in {"model_para", "evaluate"}, NEW r \in Int, r >= 0, NEW at \in Nat
  PROVE  /\ To(p, type, r, at) \in Seq(Message)
         /\ \A i \in DOMAIN To(p, type, r, at) :
              To(p, type, r, at)[i].at = at /\ To(p, type, r, at)[i].round <= TotalRounds
<1> DEFINE m(i) == [type |-> type, client |-> p[i], round |-> Capped(r), at |-> at]
<1>1. p \in [1 .. n -> S]
  BY DEF Lists
<1>2. \A i \in 1 .. n : m(i) \in Message /\ m(i).at = at /\ m(i).round <= TotalRounds
  BY <1>1, CappedRound DEF Message
<1>3. To(p, type, r, at) = [i \in 1 .. n |-> m(i)]
  BY <1>1 DEF To
<1> HIDE DEF m
<1> QED  BY <1>2, <1>3

\* Sending messages of now.
LEMMA SendFit ==
  ASSUME NEW s, NEW q, Fit(s, q), NEW new \in Seq(Message),
         \A i \in DOMAIN new : new[i].at = s.time /\ new[i].round <= TotalRounds
  PROVE  Fit(s, q \o new)
<1>1. /\ s \in Server /\ q \in Seq(Message) /\ InRounds(s, q)
      /\ ~s.finished => InOrder(s, q)
  BY DEF Fit
<1>2. /\ q \o new \in Seq(Message) /\ DOMAIN (q \o new) = 1 .. Len(q) + Len(new)
      /\ \A i \in 1 .. Len(q) + Len(new) :
           (q \o new)[i] = IF i <= Len(q) THEN q[i] ELSE new[i - Len(q)]
      /\ Len(q) \in Nat /\ DOMAIN q = 1 .. Len(q)
      /\ Len(new) \in Nat /\ DOMAIN new = 1 .. Len(new)
  BY <1>1, ConcatProperties, LenProperties
<1>3. s.time \in Nat
  BY <1>1 DEF Server
<1>4. ASSUME NEW i \in DOMAIN (q \o new)
      PROVE  /\ ~s.finished => (q \o new)[i].at >= s.time
             /\ (q \o new)[i].round <= TotalRounds
  <2>1. CASE i <= Len(q)
    <3>1. i \in DOMAIN q /\ (q \o new)[i] = q[i]
      BY <1>2, <2>1
    <3> QED  BY <1>1, <3>1 DEF InOrder, InRounds
  <2>2. CASE ~(i <= Len(q))
    <3> DEFINE k == i - Len(q)
    <3>1. k \in DOMAIN new /\ (q \o new)[i] = new[k]
      BY <1>2, <2>2
    <3> HIDE DEF k
    <3>2. new[k].at = s.time /\ new[k].round <= TotalRounds
      BY <3>1
    <3> QED  BY <1>3, <3>1, <3>2
  <2> QED  BY <2>1, <2>2
<1>5. ~s.finished => InOrder(s, q \o new)
  BY <1>1, <1>4 DEF InOrder
<1>6. InRounds(s, q \o new)
  BY <1>1, <1>4 DEF InRounds
<1> QED  BY <1>1, <1>2, <1>5, <1>6 DEF Fit

\* A change that leaves the clock, the buffers and the last aggregation alone.
LEMMA SameFit ==
  ASSUME NEW s, NEW t, NEW q, Fit(s, q), t \in Server,
         s.finished => t.finished, t.crash = s.crash \/ t.crash # "late",
         t.time = s.time, t.fresh = s.fresh, t.staled = s.staled, t.agg = s.agg,
         t.deadline = s.deadline, t.state = s.state \/ t.finished
  PROVE  Fit(t, q)
BY DEF Fit, InRounds, InOrder

\* The sampler's workers are sent messages of now, or the sampler raises.
LEMMA BroadcastGood ==
  ASSUME NEW s, NEW q, Fit(s, q), NEW n \in Nat,
         NEW r \in BroadcastModelPara(s, q, n)
  PROVE  Good(s.time, r) /\ r.server.finished = s.finished
<1>1. /\ s \in Server /\ q \in Seq(Message) /\ s.time \in Nat /\ s.state \in Nat
      /\ s.idle \in SUBSET Clients
  BY RoundsAreNat DEF Fit, Server
<1>2. CASE s.crash # "none"
  BY <1>2 DEF BroadcastModelPara, Result, Good
<1>3. CASE s.crash = "none" /\ n > Cardinality(s.idle)
  <2> DEFINE t == [s EXCEPT !.crash = "starved"]
  <2>1. r = Result(t, q)
    BY <1>3 DEF BroadcastModelPara
  <2>2. /\ t \in Server /\ t.finished = s.finished /\ t.crash # "late"
        /\ t.time = s.time /\ t.fresh = s.fresh /\ t.staled = s.staled /\ t.agg = s.agg
        /\ t.deadline = s.deadline /\ t.state = s.state
    BY <1>1 DEF Server
  <2> HIDE DEF t
  <2>3. Fit(t, q)
    BY <2>2, SameFit
  <2> QED  BY <2>1, <2>2, <2>3 DEF Good, Result
<1>4. CASE s.crash = "none" /\ ~(n > Cardinality(s.idle))
  <2>1. PICK p \in Lists(s.idle, n) :
          r = Result([s EXCEPT !.idle = @ \ {p[i] : i \in DOMAIN p}],
                     q \o To(p, "model_para", s.state, s.time))
    BY <1>4 DEF BroadcastModelPara
  <2> DEFINE t   == [s EXCEPT !.idle = @ \ {p[i] : i \in DOMAIN p}]
             new == To(p, "model_para", s.state, s.time)
  <2>2. /\ t \in Server /\ t.finished = s.finished /\ t.crash = s.crash
        /\ t.time = s.time /\ t.fresh = s.fresh /\ t.staled = s.staled /\ t.agg = s.agg
        /\ t.deadline = s.deadline /\ t.state = s.state
    BY <1>1 DEF Server
  <2>3. /\ new \in Seq(Message)
        /\ \A i \in DOMAIN new : new[i].at = s.time /\ new[i].round <= TotalRounds
    <3>1. s.state \in Int /\ s.state >= 0 /\ s.time \in Nat /\ s.idle \in SUBSET Clients
      BY <1>1
    <3> HIDE DEF t
    <3> QED  BY <3>1, ToFit
  <2>4. r = Result(t, q \o new)
    BY <2>1
  <2> HIDE DEF t, new
  <2>5. Fit(t, q)
    BY <2>2, SameFit
  <2>6. Fit(t, q \o new)
    BY <2>2, <2>3, <2>5, SendFit
  <2> QED  BY <2>2, <2>4, <2>6 DEF Good, Result
<1> QED  BY <1>2, <1>3, <1>4

\* The course may be over after an evaluation, but not before its last round.
LEMMA CheckAndSaveFit ==
  ASSUME NEW s, NEW q, Fit(s, q)
  PROVE  LET t == CheckAndSave(s)
         IN  /\ Fit(t, q) /\ t.time = s.time
             /\ s.finished => t.finished
             /\ s.state # TotalRounds => t = s
<1> DEFINE t == [s EXCEPT !.state = @ + 1, !.finished = TRUE]
<1>1. CASE s.state = TotalRounds
  <2>1. s.state + 1 \in Rounds
    BY <1>1, RoundsAreNat DEF Rounds
  <2>2. s \in Server
    BY DEF Fit
  <2>3. /\ t \in Server /\ t.finished /\ t.crash = s.crash
        /\ t.time = s.time /\ t.fresh = s.fresh /\ t.staled = s.staled /\ t.agg = s.agg
        /\ t.deadline = s.deadline
    BY <2>1, <2>2 DEF Server
  <2>4. CheckAndSave(s) = t
    BY <1>1 DEF CheckAndSave
  <2> HIDE DEF t
  <2>5. Fit(t, q)
    BY <2>3, SameFit
  <2> QED  BY <1>1, <2>3, <2>4, <2>5
<1>2. CASE s.state # TotalRounds
  <2>1. CheckAndSave(s) = s
    BY <1>2 DEF CheckAndSave
  <2> QED  BY <2>1
<1> QED  BY <1>1, <1>2

LEMMA EvalGood ==
  ASSUME NEW s, NEW q, Fit(s, q), ~s.finished, s.state >= 1, NEW r \in Eval(s, q)
  PROVE  /\ Good(s.time, r)
         /\ s.state # TotalRounds =>
              ~r.server.finished /\ r.server.fresh = s.fresh /\ r.server.staled = s.staled
<1>1. CASE GlobalEval
  <2>1. r = Result(CheckAndSave(s), q)
    BY <1>1 DEF Eval
  <2> QED  BY <2>1, CheckAndSaveFit DEF Good, Result
<1>2. CASE ~GlobalEval
  <2>1. PICK p \in Lists(Clients, Cardinality(Clients)) :
          r = Result(s, q \o To(p, "evaluate", s.state - 1, s.time))
    BY <1>2 DEF Eval
  <2> DEFINE new == To(p, "evaluate", s.state - 1, s.time)
  <2>2. /\ s.state \in Nat /\ s.time \in Nat /\ Cardinality(Clients) \in Nat
    BY RoundsAreNat, SimulationAssumption, FS_CardinalityType DEF Fit, Server
  <2>3. s.state - 1 \in Int /\ s.state - 1 >= 0
    BY <2>2
  <2>4. /\ new \in Seq(Message)
        /\ \A i \in DOMAIN new : new[i].at = s.time /\ new[i].round <= TotalRounds
    BY <2>2, <2>3, ToFit
  <2>5. r = Result(s, q \o new)
    BY <2>1
  <2> HIDE DEF new
  <2>6. Fit(s, q \o new)
    BY <2>4, SendFit
  <2> QED  BY <2>5, <2>6 DEF Good, Result
<1> QED  BY <1>1, <1>2

\* With empty buffers the deadline may be any that is not of the past.
LEMMA LaterDeadline ==
  ASSUME NEW s, NEW q, Fit(s, q), s.fresh = {}, s.staled = {},
         NEW d \in Nat, timeUp => s.time <= d
  PROVE  LET t == [s EXCEPT !.deadline = d]
         IN  /\ Fit(t, q) /\ t.time = s.time /\ t.finished = s.finished
             /\ t.fresh = {} /\ t.staled = {} /\ t.dropout = s.dropout
<1> DEFINE t == [s EXCEPT !.deadline = d]
<1>1. s \in Server
  BY DEF Fit
<1>2. /\ t \in Server /\ t.finished = s.finished /\ t.crash = s.crash
      /\ t.time = s.time /\ t.fresh = s.fresh /\ t.staled = s.staled /\ t.agg = s.agg
      /\ t.deadline = d /\ t.state = s.state /\ t.dropout = s.dropout
  BY <1>1 DEF Server
<1> HIDE DEF t
<1>3. Fit(t, q)
  BY <1>2 DEF Fit, InRounds, InOrder
<1> QED  BY <1>2, <1>3 DEF t

\* Replacing the workers whose updates were dropped, which are then forgotten.
LEMMA ReplaceGood ==
  ASSUME NEW s, NEW q, Fit(s, q), NEW n \in Nat,
         NEW b \in BroadcastModelPara(s, q, n),
         NEW r, r = Result([b.server EXCEPT !.dropout = 0], b.queue)
  PROVE  Good(s.time, r) /\ r.server.finished = s.finished
<1> DEFINE t == [b.server EXCEPT !.dropout = 0]
<1>1. Good(s.time, b) /\ b.server.finished = s.finished
  BY BroadcastGood
<1>2. b.server \in Server
  BY <1>1 DEF Good, Fit
<1>3. /\ t \in Server /\ t.finished = b.server.finished /\ t.crash = b.server.crash
      /\ t.time = b.server.time /\ t.fresh = b.server.fresh /\ t.staled = b.server.staled
      /\ t.agg = b.server.agg /\ t.deadline = b.server.deadline /\ t.state = b.server.state
  BY <1>2 DEF Server
<1>4. r = Result(t, b.queue)
  OBVIOUS
<1> HIDE DEF t
<1>5. Fit(t, b.queue)
  BY <1>1, <1>3, SameFit DEF Good
<1> QED  BY <1>1, <1>3, <1>4, <1>5 DEF Good, Result

LEMMA NextRoundGood ==
  ASSUME NEW s, NEW q, Fit(s, q), s.fresh = {}, s.staled = {}, NEW received \in Nat,
         NEW r \in NextRound(s, q, received)
  PROVE  Good(s.time, r)
<1> DEFINE d    == IF timeUp THEN s.time + Budget ELSE s.deadline
           next == [s EXCEPT !.deadline = d]
           n    == IF Overselection THEN SampleNum ELSE received + s.dropout
<1>1. s.time \in Nat /\ s.deadline \in Nat /\ s.dropout \in Nat
  BY DEF Fit, Server
<1>2. d \in Nat /\ (timeUp => s.time <= d)
  BY <1>1, SimulationAssumption
<1>3. n \in Nat
  BY <1>1, SimulationAssumption, FS_CardinalityType
<1>4. /\ Fit(next, q) /\ next.time = s.time
  <2> HIDE DEF d
  <2> QED  BY <1>2, LaterDeadline
<1>5. \/ r = Result(next, q)
      \/ \E b \in BroadcastModelPara(next, q, n) :
           r = Result([b.server EXCEPT !.dropout = 0], b.queue)
  <2>1. next = [s EXCEPT !.deadline = IF timeUp THEN s.time + Budget ELSE @]
    BY DEF Fit, Server
  <2>2. r \in IF afterReceiving THEN {Result(next, q)}
              ELSE {Result([b.server EXCEPT !.dropout = 0], b.queue) :
                      b \in BroadcastModelPara(next, q, n)}
    BY <2>1 DEF NextRound
  <2> HIDE DEF next, n
  <2> QED  BY <2>2
<1> HIDE DEF next, n
<1>6. CASE r = Result(next, q)
  BY <1>4, <1>6 DEF Good, Result
<1>7. CASE \E b \in BroadcastModelPara(next, q, n) :
             r = Result([b.server EXCEPT !.dropout = 0], b.queue)
  BY <1>3, <1>4, <1>7, ReplaceGood
<1> QED  BY <1>5, <1>6, <1>7

\* The server that aggregates what waits.
Aggregated(s) ==
  LET s1 == [s EXCEPT !.state = @ + 1, !.fresh = {},
                      !.agg = [updates |-> s.fresh \cup s.staled, at |-> s.time]]
  IN  IF s1.state < TotalRounds THEN [s1 EXCEPT !.staled = {}] ELSE s1

\* Aggregating takes all that waits, which is of the past.
LEMMA AggregatedFit ==
  ASSUME NEW s, NEW q, Fit(s, q), ~s.finished, Enough(s),
         ~(s.fresh = {} /\ s.state >= TotalRounds)
  PROVE  LET t == Aggregated(s)
         IN  /\ Fit(t, q) /\ ~t.finished /\ t.time = s.time /\ t.crash = s.crash
             /\ t.state = s.state + 1 /\ t.state >= 1 /\ t.idle = s.idle
             /\ t.fresh = {} /\ t.dropout = s.dropout /\ t.staled \in {{}, s.staled}
             /\ t.state < TotalRounds => t.staled = {}
<1> DEFINE got == s.fresh \cup s.staled
           s1  == [s EXCEPT !.state = @ + 1, !.fresh = {},
                            !.agg = [updates |-> got, at |-> s.time]]
           s2  == IF s1.state < TotalRounds THEN [s1 EXCEPT !.staled = {}] ELSE s1
<1>1. /\ s \in Server /\ s.time \in Nat /\ s.state \in Nat /\ s.state \in Rounds
      /\ s.fresh \in SUBSET Updates /\ s.staled \in SUBSET Updates /\ s.deadline \in Nat
      /\ IsFiniteSet(s.fresh) /\ IsFiniteSet(s.staled)
      /\ InOrder(s, q) /\ InRounds(s, q)
  BY RoundsAreNat DEF Fit, Server, InRounds
<1>2. s.state + 1 \in Rounds
  <2>1. s.state <= TotalRounds
    BY <1>1, RoundsAreNat DEF InOrder
  <2> QED  BY <1>1, <2>1, RoundsAreNat DEF Rounds
<1>3. got \in SUBSET Updates /\ IsFiniteSet(got) /\ Cardinality(got) \in Nat
  BY <1>1, FS_Union, FS_CardinalityType
<1>4. \A u \in got : u.at <= s.time /\ (timeUp => u.at < s.time)
  <2> SUFFICES ASSUME NEW u \in got  PROVE u.at <= s.time /\ (timeUp => u.at < s.time)
    OBVIOUS
  <2>1. u.at \in Nat
    BY <1>3 DEF Updates
  <2>2. u.at <= s.time /\ (timeUp => u.at < s.deadline)
    BY <1>1 DEF InOrder
  <2>3. timeUp => s.time >= s.deadline
    BY DEF Enough
  <2> QED  BY <1>1, <2>1, <2>2, <2>3
<1>5. /\ s1 \in Server /\ s1.finished = s.finished /\ s1.crash = s.crash
      /\ s1.time = s.time /\ s1.fresh = {} /\ s1.staled = s.staled
      /\ s1.agg = [updates |-> got, at |-> s.time]
      /\ s1.deadline = s.deadline /\ s1.state = s.state + 1
      /\ s1.idle = s.idle /\ s1.dropout = s.dropout
  BY <1>1, <1>2, <1>3 DEF Server
<1>6. s2 = Aggregated(s)
  BY DEF Aggregated
<1> HIDE DEF s1
<1>7. /\ s2 \in Server /\ s2.finished = s.finished /\ s2.crash = s.crash
      /\ s2.time = s.time /\ s2.fresh = {} /\ s2.staled \in {{}, s.staled}
      /\ s2.agg = [updates |-> got, at |-> s.time]
      /\ s2.deadline = s.deadline /\ s2.state = s.state + 1
      /\ s2.idle = s.idle /\ s2.dropout = s.dropout
      /\ s2.state < TotalRounds => s2.staled = {}
  BY <1>5 DEF Server
<1> HIDE DEF s2
<1>8. Fit(s2, q)
  <2>1. InRounds(s2, q)
    BY <1>1, <1>7, FS_EmptySet DEF InRounds
  <2>2. InOrder(s2, q)
    <3>1. s2.agg.at = s.time /\ s2.agg.updates = got /\ s.time <= s.time
      BY <1>1, <1>7
    <3>2. \A u \in s2.fresh \cup s2.staled : u.at <= s2.time /\ (timeUp => u.at < s2.deadline)
      BY <1>1, <1>7 DEF InOrder
    <3>3. s2.crash # "late" /\ (\A i \in DOMAIN q : q[i].at >= s2.time)
          /\ (timeUp => s2.time <= s2.deadline)
      BY <1>1, <1>7 DEF InOrder
    <3> QED  BY <1>4, <1>7, <3>1, <3>2, <3>3 DEF InOrder
  <2> QED  BY <1>7, <2>1, <2>2 DEF Fit
<1> QED  BY <1>1, <1>6, <1>7, <1>8

LEMMA MoveOnCases ==
  ASSUME NEW s \in Server, NEW q, ~(s.fresh = {} /\ s.state >= TotalRounds),
         NEW r \in MoveOn(s, q)
  PROVE  LET t   == Aggregated(s)
             got == s.fresh \cup s.staled
         IN  \/ ~(t.state < TotalRounds) /\ r \in Eval(t, q)
             \/ /\ t.state < TotalRounds
                /\ \E e \in IF t.state % EvalFreq = 0 THEN Eval(t, q) ELSE {Result(t, q)} :
                     r \in NextRound(e.server, e.queue, Cardinality(got))
<1> DEFINE got == s.fresh \cup s.staled
           s1  == [s EXCEPT !.state = @ + 1, !.fresh = {},
                            !.agg = [updates |-> got, at |-> s.time]]
           t   == Aggregated(s)
<1>1. t = IF s1.state < TotalRounds THEN [s1 EXCEPT !.staled = {}] ELSE s1
  BY DEF Aggregated
<1>2. s1.state < TotalRounds <=> t.state < TotalRounds
  <2>1. [s1 EXCEPT !.staled = {}].state = s1.state
    BY DEF Server
  <2> HIDE DEF s1, t
  <2> QED  BY <1>1, <2>1
<1>3. r \in IF ~(s1.state < TotalRounds) THEN Eval(t, q)
            ELSE UNION {NextRound(e.server, e.queue, Cardinality(got)) :
                          e \in IF t.state % EvalFreq = 0 THEN Eval(t, q) ELSE {Result(t, q)}}
  BY <1>1 DEF MoveOn
<1> HIDE DEF got, s1, t
<1>4. \/ ~(t.state < TotalRounds) /\ r \in Eval(t, q)
      \/ /\ t.state < TotalRounds
         /\ \E e \in IF t.state % EvalFreq = 0 THEN Eval(t, q) ELSE {Result(t, q)} :
              r \in NextRound(e.server, e.queue, Cardinality(got))
  BY <1>2, <1>3
<1> QED  BY <1>4 DEF got, t

\* What comes after it is as the operations before.
LEMMA MoveOnGood ==
  ASSUME NEW s, NEW q, Fit(s, q), ~s.finished, Enough(s), NEW r \in MoveOn(s, q)
  PROVE  Good(s.time, r)
<1> DEFINE got == s.fresh \cup s.staled
           t   == Aggregated(s)
<1>1. s \in Server /\ IsFiniteSet(s.fresh) /\ IsFiniteSet(s.staled)
  BY DEF Fit, InRounds
<1>2. CASE s.fresh = {} /\ s.state >= TotalRounds
  <2> DEFINE u == [s EXCEPT !.crash = "missing_buffer"]
  <2>1. r = Result(u, q)
    BY <1>2 DEF MoveOn
  <2>2. /\ u \in Server /\ u.finished = s.finished /\ u.crash # "late"
        /\ u.time = s.time /\ u.fresh = s.fresh /\ u.staled = s.staled /\ u.agg = s.agg
        /\ u.deadline = s.deadline /\ u.state = s.state
    BY <1>1 DEF Server
  <2> HIDE DEF u
  <2>3. Fit(u, q)
    BY <2>2, SameFit
  <2> QED  BY <2>1, <2>2, <2>3 DEF Good, Result
<1>3. CASE ~(s.fresh = {} /\ s.state >= TotalRounds)
  <2>1. /\ Fit(t, q) /\ ~t.finished /\ t.time = s.time /\ t.state >= 1
        /\ t.fresh = {} /\ (t.state < TotalRounds => t.staled = {})
    BY <1>3, AggregatedFit
  <2>2. \/ ~(t.state < TotalRounds) /\ r \in Eval(t, q)
        \/ /\ t.state < TotalRounds
           /\ \E e \in IF t.state % EvalFreq = 0 THEN Eval(t, q) ELSE {Result(t, q)} :
                r \in NextRound(e.server, e.queue, Cardinality(got))
    BY <1>1, <1>3, MoveOnCases
  <2>3. Cardinality(got) \in Nat
    BY <1>1, FS_Union, FS_CardinalityType
  <2> HIDE DEF got, t
  <2>4. CASE r \in Eval(t, q)
    BY <2>1, <2>4, EvalGood
  <2>5. ASSUME t.state < TotalRounds,
               NEW e \in IF t.state % EvalFreq = 0 THEN Eval(t, q) ELSE {Result(t, q)},
               r \in NextRound(e.server, e.queue, Cardinality(got))
        PROVE  Good(s.time, r)
    <3>1. Good(s.time, e) /\ e.server.fresh = {} /\ e.server.staled = {}
      <4>1. CASE e = Result(t, q)
        BY <2>1, <2>5, <4>1 DEF Good, Result
      <4>2. CASE e \in Eval(t, q)
        <5>1. t.state # TotalRounds
          <6>1. t.state \in Nat
            BY <2>1, RoundsAreNat DEF Fit, Server
          <6> QED  BY <2>5, <6>1, RoundsAreNat
        <5> QED  BY <2>1, <2>5, <4>2, <5>1, EvalGood
      <4> QED  BY <2>5, <4>1, <4>2
    <3>2. Fit(e.server, e.queue) /\ e.server.time = s.time
      BY <3>1 DEF Good
    <3>3. Good(e.server.time, r)
      BY <2>3, <2>5, <3>1, <3>2, NextRoundGood
    <3> QED  BY <3>2, <3>3
  <2> QED  BY <2>2, <2>4, <2>5
<1> QED  BY <1>2, <1>3

\* Waiting for another budget.
LEMMA ProlongGood ==
  ASSUME NEW s, NEW q, Fit(s, q), ~s.finished, timeUp, s.fresh = {}, s.staled = {},
         NEW r \in Prolong(s, q)
  PROVE  Good(s.time, r) /\ ~r.server.finished
<1> DEFINE d      == s.deadline + Budget
           longer == [s EXCEPT !.deadline = d]
<1>1. s.time \in Nat /\ s.deadline \in Nat /\ s.dropout \in Nat /\ s.time <= s.deadline
  BY DEF Fit, Server, InOrder
<1>2. d \in Nat /\ s.time <= d
  BY <1>1, SimulationAssumption
<1>3. Fit(longer, q) /\ longer.time = s.time /\ ~longer.finished
  <2> HIDE DEF d
  <2> QED  BY <1>2, LaterDeadline
<1>4. \/ r = Result(longer, q)
      \/ \E b \in BroadcastModelPara(longer, q, s.dropout) :
           r = Result([b.server EXCEPT !.dropout = 0], b.queue)
  <2>1. longer = [s EXCEPT !.deadline = @ + Budget]
    BY DEF Fit, Server
  <2>2. r \in IF ~afterReceiving /\ s.dropout # 0
                THEN {Result([b.server EXCEPT !.dropout = 0], b.queue) :
                        b \in BroadcastModelPara(longer, q, s.dropout)}
                ELSE {Result(longer, q)}
    BY <2>1 DEF Prolong
  <2> HIDE DEF longer
  <2> QED  BY <2>2
<1> HIDE DEF longer
<1>5. CASE r = Result(longer, q)
  BY <1>3, <1>5 DEF Good, Result
<1>6. CASE \E b \in BroadcastModelPara(longer, q, s.dropout) :
             r = Result([b.server EXCEPT !.dropout = 0], b.queue)
  <2>1. PICK b \in BroadcastModelPara(longer, q, s.dropout) :
          r = Result([b.server EXCEPT !.dropout = 0], b.queue)
    BY <1>6
  <2>2. Good(longer.time, r) /\ r.server.finished = longer.finished
    BY <1>1, <1>3, <2>1, ReplaceGood
  <2> QED  BY <1>3, <2>2
<1> QED  BY <1>4, <1>5, <1>6

LEMMA CheckAndMoveOnGood ==
  ASSUME NEW s, NEW q, Fit(s, q), ~s.finished, NEW r \in CheckAndMoveOn(s, q)
  PROVE  Good(s.time, r)
<1> DEFINE checked == IF timeUp /\ s.time >= s.deadline /\ s.fresh = {} /\ s.staled = {}
                        THEN Prolong(s, q) ELSE {Result(s, q)}
<1>1. PICK e \in checked : r \in IF e.server.crash = "none" /\ Enough(e.server)
                                   THEN MoveOn(e.server, e.queue) ELSE {e}
  <2>1. r \in UNION {IF e.server.crash = "none" /\ Enough(e.server)
                       THEN MoveOn(e.server, e.queue) ELSE {e} : e \in checked}
    BY DEF CheckAndMoveOn
  <2> HIDE DEF checked
  <2> QED  BY <2>1
<1>2. Good(s.time, e) /\ ~e.server.finished
  <2>1. CASE e = Result(s, q)
    BY <2>1 DEF Good, Result
  <2>2. CASE e \in Prolong(s, q) /\ timeUp /\ s.fresh = {} /\ s.staled = {}
    BY <2>2, ProlongGood
  <2> QED  BY <2>1, <2>2
<1> HIDE DEF checked
<1>3. CASE r = e
  BY <1>2, <1>3
<1>4. CASE Enough(e.server) /\ r \in MoveOn(e.server, e.queue)
  BY <1>2, <1>4, MoveOnGood DEF Good
<1> QED  BY <1>1, <1>3, <1>4

-----------------------------------------------------------------------------
(* The server's handlers.                                                  *)

\* A message that is handled while nothing is in the queue: not of the past, and of
\* before the deadline.
Timely(s, m) ==
  /\ m \in Message /\ m.round <= TotalRounds
  /\ ~s.finished => m.at >= s.time /\ (timeUp => m.at < s.deadline)

\* Filing an update moves the clock to it.
LEMMA FiledFit ==
  ASSUME NEW s, Fit(s, <<>>), ~s.finished, NEW m, Timely(s, m)
  PROVE  Fit(Filed(s, m), <<>>) /\ Filed(s, m).time = m.at /\ ~Filed(s, m).finished
<1> DEFINE u  == [client |-> m.client, round |-> m.round, at |-> m.at]
           s1 == [s EXCEPT !.idle = @ \cup {m.client}, !.time = m.at]
           t  == Filed(s, m)
<1>1. /\ s \in Server /\ InOrder(s, <<>>) /\ IsFiniteSet(s.fresh) /\ IsFiniteSet(s.staled)
      /\ s.time \in Nat /\ s.state \in Nat /\ s.deadline \in Nat /\ s.agg.at \in Nat
      /\ s.fresh \in SUBSET Updates /\ s.staled \in SUBSET Updates
  BY RoundsAreNat DEF Fit, InRounds, Server
<1>2. /\ m.client \in Clients /\ m.round \in Rounds /\ m.round \in Nat /\ m.at \in Nat
      /\ m.round <= TotalRounds /\ m.at >= s.time /\ (timeUp => m.at < s.deadline)
  BY RoundsAreNat DEF Timely, Message
<1>3. u \in Updates /\ u.at = m.at
  BY <1>2 DEF Updates
<1>4. /\ s1 \in Server /\ s1.finished = s.finished /\ s1.crash = s.crash
      /\ s1.time = m.at /\ s1.fresh = s.fresh /\ s1.staled = s.staled
      /\ s1.agg = s.agg /\ s1.deadline = s.deadline /\ s1.state = s.state
  BY <1>1, <1>2 DEF Server
<1>5. t = IF m.round = s.state THEN [s1 EXCEPT !.fresh = @ \cup {u}]
          ELSE IF m.round >= s.state - Staleness THEN [s1 EXCEPT !.staled = @ \cup {u}]
          ELSE [s1 EXCEPT !.dropout = @ + 1]
  BY DEF Filed
<1> HIDE DEF t, s1, u
<1>6. /\ t \in Server /\ t.finished = s.finished /\ t.crash = s.crash
      /\ t.time = m.at /\ t.agg = s.agg /\ t.deadline = s.deadline /\ t.state = s.state
      /\ \/ m.round = s.state /\ t.fresh = s.fresh \cup {u} /\ t.staled = s.staled
         \/ t.fresh = s.fresh /\ t.staled = s.staled \cup {u}
         \/ t.fresh = s.fresh /\ t.staled = s.staled
  <2>1. CASE m.round = s.state
    <3>1. t = [s1 EXCEPT !.fresh = @ \cup {u}]
      BY <1>5, <2>1
    <3> QED  BY <1>1, <1>3, <1>4, <2>1, <3>1 DEF Server
  <2>2. CASE m.round # s.state /\ m.round >= s.state - Staleness
    <3>1. t = [s1 EXCEPT !.staled = @ \cup {u}]
      BY <1>5, <2>2
    <3> QED  BY <1>1, <1>3, <1>4, <3>1 DEF Server
  <2>3. CASE m.round # s.state /\ ~(m.round >= s.state - Staleness)
    <3>1. t = [s1 EXCEPT !.dropout = @ + 1]
      BY <1>5, <2>3
    <3>2. PICK n \in Nat : t = [s1 EXCEPT !.dropout = n]
      BY <1>4, <3>1 DEF Server
    <3>3. t \in Server
      BY <1>4, <3>2 DEF Server
    <3> QED  BY <1>4, <3>2, <3>3 DEF Server
  <2> QED  BY <2>1, <2>2, <2>3
<1>7. IsFiniteSet(t.fresh) /\ IsFiniteSet(t.staled)
  <2>1. IsFiniteSet(s.fresh \cup {u}) /\ IsFiniteSet(s.staled \cup {u})
    BY <1>1, FS_AddElement
  <2> QED  BY <1>1, <1>6, <2>1
<1>8. ASSUME NEW v \in t.fresh \cup t.staled
      PROVE  v.at <= t.time /\ (timeUp => v.at < t.deadline)
  <2>1. CASE v = u
    BY <1>2, <1>3, <1>6, <2>1
  <2>2. CASE v \in s.fresh \cup s.staled
    <3>1. v.at \in Nat
      BY <1>1, <2>2 DEF Updates
    <3>2. v.at <= s.time /\ (timeUp => v.at < s.deadline)
      BY <1>1, <2>2 DEF InOrder
    <3> QED  BY <1>1, <1>2, <1>6, <3>1, <3>2
  <2> QED  BY <1>6, <2>1, <2>2
<1>9. t.state > TotalRounds => t.fresh = {}
  BY <1>1, <1>2, <1>6, RoundsAreNat DEF InOrder
<1>10. timeUp => t.time <= t.deadline
  BY <1>1, <1>2, <1>6
<1>11. t.agg.at <= t.time
  BY <1>1, <1>2, <1>6 DEF InOrder
<1>12. InOrder(t, <<>>)
  BY <1>1, <1>6, <1>8, <1>9, <1>10, <1>11 DEF InOrder
<1>13. InRounds(t, <<>>)
  BY <1>7 DEF InRounds
<1> QED  BY <1>6, <1>12, <1>13 DEF Fit, t

LEMMA HandleUpdateGood ==
  ASSUME NEW s, Fit(s, <<>>), NEW m, Timely(s, m), NEW r \in HandleUpdate(s, <<>>, m)
  PROVE  /\ Fit(r.server, r.queue)
         /\ ~r.server.finished => ~s.finished /\ r.server.time = m.at
<1>1. CASE s.finished
  BY <1>1 DEF HandleUpdate, Result
<1>2. CASE ~s.finished
  <2>1. ~(m.at < s.time)
    BY <1>2 DEF Timely, Message, Fit, Server
  <2>2. PICK e \in CheckAndMoveOn(Filed(s, m), <<>>) :
          r \in IF afterReceiving THEN BroadcastModelPara(e.server, e.queue, 1) ELSE {e}
    BY <1>2, <2>1 DEF HandleUpdate
  <2>3. Good(m.at, e)
    BY <1>2, FiledFit, CheckAndMoveOnGood
  <2>4. CASE r = e
    BY <1>2, <2>3, <2>4 DEF Good
  <2>5. CASE r \in BroadcastModelPara(e.server, e.queue, 1)
    <3>1. Good(e.server.time, r)
      BY <2>3, <2>5, BroadcastGood DEF Good
    <3> QED  BY <1>2, <2>3, <3>1 DEF Good
  <2> QED  BY <2>2, <2>4, <2>5
<1> QED  BY <1>1, <1>2

LEMMA HandleMetricsGood ==
  ASSUME NEW s, Fit(s, <<>>), NEW m \in Message, NEW r \in HandleMetrics(s, <<>>, m)
  PROVE  /\ Good(s.time, r)
         /\ s.finished => r.server.finished
<1> DEFINE s1 == IF m.round > s.evalRound
                   THEN [s EXCEPT !.evalRound = m.round, !.evalFrom = {m.client}]
                 ELSE IF m.round = s.evalRound
                   THEN [s EXCEPT !.evalFrom = @ \cup {m.client}]
                 ELSE s
           s0 == [s1 EXCEPT !.evalFrom = {}]
           s2 == CheckAndSave(s0)
           s3 == [s2 EXCEPT !.finished = @ \/ s2.state >= TotalRounds]
<1>1. s \in Server /\ m.client \in Clients /\ m.round \in Rounds
  BY DEF Fit, Message
<1>2. /\ s1 \in Server /\ s1.finished = s.finished /\ s1.crash = s.crash
      /\ s1.time = s.time /\ s1.fresh = s.fresh /\ s1.staled = s.staled
      /\ s1.agg = s.agg /\ s1.deadline = s.deadline /\ s1.state = s.state
  BY <1>1 DEF Server
<1>3. r = Result(IF s1.evalFrom # Clients THEN s1 ELSE s3, <<>>)
  BY DEF HandleMetrics
<1> HIDE DEF s1
<1>4. Fit(s1, <<>>)
  BY <1>2, SameFit
<1>5. /\ s0 \in Server /\ s0.finished = s.finished /\ s0.crash = s.crash
      /\ s0.time = s.time /\ s0.fresh = s.fresh /\ s0.staled = s.staled
      /\ s0.agg = s.agg /\ s0.deadline = s.deadline /\ s0.state = s.state
  BY <1>2 DEF Server
<1> HIDE DEF s0
<1>6. Fit(s0, <<>>)
  BY <1>5, SameFit
<1>7. /\ Fit(s2, <<>>) /\ s2.time = s.time /\ (s.finished => s2.finished)
  BY <1>5, <1>6, CheckAndSaveFit
<1>8. s2 \in Server
  BY <1>7 DEF Fit
<1> HIDE DEF s2
<1>9. /\ s3 \in Server /\ (s2.finished => s3.finished) /\ s3.crash = s2.crash
      /\ s3.time = s2.time /\ s3.fresh = s2.fresh /\ s3.staled = s2.staled
      /\ s3.agg = s2.agg /\ s3.deadline = s2.deadline /\ s3.state = s2.state
  BY <1>8 DEF Server
<1> HIDE DEF s3
<1>10. Fit(s3, <<>>)
  BY <1>7, <1>9, SameFit
<1> QED  BY <1>2, <1>3, <1>4, <1>7, <1>9, <1>10 DEF Good, Result

\* When the time is up the clock shows the deadline.
LEMMA ExpiredFit ==
  ASSUME NEW s, Fit(s, <<>>), ~s.finished, timeUp
  PROVE  LET t == [s EXCEPT !.time = s.deadline]
         IN  Fit(t, <<>>) /\ t.time = s.deadline /\ ~t.finished
<1> DEFINE t == [s EXCEPT !.time = s.deadline]
<1>1. /\ s \in Server /\ InOrder(s, <<>>) /\ InRounds(s, <<>>)
      /\ s.time \in Nat /\ s.deadline \in Nat /\ s.agg.at \in Nat
      /\ s.fresh \in SUBSET Updates /\ s.staled \in SUBSET Updates
  BY DEF Fit, Server
<1>2. /\ t \in Server /\ t.finished = s.finished /\ t.crash = s.crash
      /\ t.time = s.deadline /\ t.fresh = s.fresh /\ t.staled = s.staled /\ t.agg = s.agg
      /\ t.deadline = s.deadline /\ t.state = s.state
  BY <1>1 DEF Server
<1> HIDE DEF t
<1>3. ASSUME NEW u \in t.fresh \cup t.staled  PROVE u.at <= t.time /\ u.at < t.deadline
  <2>1. u.at \in Nat
    BY <1>1, <1>2 DEF Updates
  <2>2. u.at < s.deadline
    BY <1>1, <1>2 DEF InOrder
  <2> QED  BY <1>1, <1>2, <2>1, <2>2
<1>4. s.agg.at <= s.deadline
  BY <1>1 DEF InOrder
<1>5. s.deadline <= s.deadline
  BY <1>1
<1>6. InOrder(t, <<>>) /\ InRounds(t, <<>>)
  BY <1>1, <1>2, <1>3, <1>4, <1>5 DEF InOrder, InRounds
<1>7. Fit(t, <<>>)
  BY <1>2, <1>6 DEF Fit
<1> QED  BY <1>2, <1>7 DEF t

LEMMA ExpireGood ==
  ASSUME NEW s, Fit(s, <<>>), ~s.finished, timeUp, NEW r \in Expire(s, <<>>)
  PROVE  Good(s.deadline, r)
<1> DEFINE t == [s EXCEPT !.time = s.deadline]
<1>1. r \in CheckAndMoveOn(t, <<>>)
  BY DEF Expire
<1>2. Fit(t, <<>>) /\ t.time = s.deadline /\ ~t.finished
  BY ExpiredFit
<1> HIDE DEF t
<1> QED  BY <1>1, <1>2, CheckAndMoveOnGood

-----------------------------------------------------------------------------
(* The runner's steps.                                                     *)

LEMMA InitHolds == Init => IInv
<1> SUFFICES ASSUME Init  PROVE IInv
  OBVIOUS
<1> USE DEF Init
<1>1. server \in Server
  BY SimulationAssumption DEF Server, Rounds
<1>2. queue \in Seq(Message) /\ cache \in Seq(Message)
  OBVIOUS
<1>3. /\ server.fresh = {} /\ server.staled = {} /\ ~server.finished /\ server.time = 0
      /\ server.crash = "none" /\ server.deadline = 1 /\ server.state = 0
      /\ server.agg.at = 0 /\ server.agg.updates = {} /\ ~started
      /\ DOMAIN queue = {} /\ DOMAIN cache = {}
  OBVIOUS
<1>4. TypeOK
  BY <1>1, <1>2 DEF TypeOK
<1>5. Fit(server, queue)
  BY <1>1, <1>2, <1>3, FS_EmptySet DEF Fit, InRounds, InOrder
<1>6. Ahead(server, cache) /\ Idle
  BY <1>3 DEF Ahead, Idle
<1> QED  BY <1>4, <1>5, <1>6 DEF IInv

LEMMA StartKeeps ==
  ASSUME IInv, Start
  PROVE  IInv'
<1> DEFINE d == IF timeUp THEN Budget ELSE server.deadline
           t == [server EXCEPT !.deadline = d]
<1>1. /\ started' /\ UNCHANGED <<timeUp, afterReceiving, cache, over>>
      /\ TypeOK /\ Idle /\ Fit(server, queue) /\ Ahead(server, cache)
  BY DEF Start, IInv
<1>2. PICK r \in BroadcastModelPara(t, queue, SampleNum) :
        server' = r.server /\ queue' = r.queue
  <2>1. t = [server EXCEPT !.deadline = IF timeUp THEN Budget ELSE @]
    BY <1>1 DEF TypeOK, Server
  <2>2. \E r \in BroadcastModelPara(t, queue, SampleNum) :
          server' = r.server /\ queue' = r.queue
    BY <2>1 DEF Start
  <2> HIDE DEF t
  <2> QED  BY <2>2
<1>3. /\ d \in Nat /\ (timeUp => server.time <= d)
  BY <1>1, SimulationAssumption DEF Idle, TypeOK, Server
<1>4. Fit(t, queue) /\ t.time = server.time /\ t.finished = server.finished
  <2> HIDE DEF d
  <2> QED  BY <1>1, <1>3, LaterDeadline DEF Idle
<1> HIDE DEF t
<1>5. Good(server.time, r) /\ r.server.finished = server.finished
  <2>1. SampleNum \in Nat
    BY SimulationAssumption, FS_CardinalityType
  <2> QED  BY <1>2, <1>4, <2>1, BroadcastGood
<1>6. Fit(server', queue') /\ server'.time = server.time /\ server'.finished = server.finished
  BY <1>2, <1>5 DEF Good
<1>7. Fit(server, queue)' /\ Ahead(server, cache)'
  BY <1>1, <1>6 DEF Fit, InRounds, InOrder, Ahead
<1>8. TypeOK'
  BY <1>1, <1>6 DEF TypeOK, Fit
<1> QED  BY <1>1, <1>7, <1>8 DEF IInv

\* A message taken from the queue.
LEMMA Taken ==
  ASSUME IInv, queue # <<>>
  PROVE  /\ Head(queue) \in Message /\ Head(queue).round <= TotalRounds
         /\ ~server.finished => Head(queue).at >= server.time
         /\ Tail(queue) \in Seq(Message)
         /\ \A i \in DOMAIN Tail(queue) : \E j \in DOMAIN queue : Tail(queue)[i] = queue[j]
<1>1. queue \in Seq(Message) /\ InRounds(server, queue)
      /\ (~server.finished => InOrder(server, queue))
  BY DEF IInv, Fit
<1>2. 1 \in DOMAIN queue /\ Head(queue) = queue[1] /\ Head(queue) \in Message
  BY <1>1
<1>3. /\ Tail(queue) \in Seq(Message)
      /\ \A i \in DOMAIN Tail(queue) : i + 1 \in DOMAIN queue /\ Tail(queue)[i] = queue[i + 1]
  BY <1>1
<1> QED  BY <1>1, <1>2, <1>3 DEF InRounds, InOrder

LEMMA ReplyTyped ==
  ASSUME NEW m \in Message
  PROVE  /\ \A d \in Nat : LET reply == [m EXCEPT !.type = "update", !.at = @ + d]
                          IN  reply \in Message /\ reply.round = m.round /\ reply.at >= m.at
         /\ LET reply == [m EXCEPT !.type = "metrics"]
            IN  reply \in Message /\ reply.round = m.round /\ reply.at >= m.at
<1>1. m.at \in Nat /\ m.at >= m.at
  BY DEF Message
<1>2. ASSUME NEW d \in Nat
      PROVE  LET reply == [m EXCEPT !.type = "update", !.at = @ + d]
             IN  reply \in Message /\ reply.round = m.round /\ reply.at >= m.at
  <2> DEFINE b == m.at + d
             reply == [m EXCEPT !.type = "update", !.at = b]
  <2>1. b \in Nat /\ b >= m.at
    BY <1>1
  <2>2. reply = [m EXCEPT !.type = "update", !.at = @ + d]
    BY DEF Message
  <2> HIDE DEF b
  <2>3. reply \in Message /\ reply.round = m.round /\ reply.at = b
    BY <2>1 DEF Message
  <2> HIDE DEF reply
  <2> QED  BY <2>1, <2>2, <2>3
<1>3. LET reply == [m EXCEPT !.type = "metrics"]
      IN  reply \in Message /\ reply.round = m.round /\ reply.at = m.at
  BY DEF Message
<1> QED  BY <1>1, <1>2, <1>3

LEMMA AppendOne ==
  ASSUME NEW s \in Seq(Message), NEW m \in Message
  PROVE  /\ Append(s, m) \in Seq(Message)
         /\ \A i \in DOMAIN Append(s, m) :
              Append(s, m)[i] = m \/ (i \in DOMAIN s /\ Append(s, m)[i] = s[i])
<1>1. /\ Append(s, m) \in Seq(Message)
      /\ Len(Append(s, m)) = Len(s) + 1
      /\ \A i \in 1 .. Len(s) : Append(s, m)[i] = s[i]
      /\ Append(s, m)[Len(s) + 1] = m
  BY AppendProperties
<1>2. /\ DOMAIN s = 1 .. Len(s) /\ Len(s) \in Nat
      /\ DOMAIN Append(s, m) = 1 .. Len(Append(s, m))
  BY <1>1, LenProperties
<1> QED  BY <1>1, <1>2

LEMMA RunClientKeeps ==
  ASSUME IInv, RunClient
  PROVE  IInv'
<1>1. /\ UNCHANGED <<timeUp, afterReceiving, started, server, cache, over>>
      /\ started /\ queue # <<>>
      /\ TypeOK /\ Fit(server, queue) /\ Ahead(server, cache)
  BY DEF RunClient, Running, IInv
<1>2. PICK reply \in Replies(Head(queue)) : queue' = Append(Tail(queue), reply)
  BY DEF RunClient
<1> DEFINE m == Head(queue)
           s == Tail(queue)
<1>3. /\ m \in Message /\ m.round <= TotalRounds /\ m.client \in Clients /\ m.at \in Nat
      /\ (~server.finished => m.at >= server.time)
      /\ s \in Seq(Message)
      /\ \A i \in DOMAIN s : \E j \in DOMAIN queue : s[i] = queue[j]
      /\ server.time \in Nat
  BY <1>1, Taken DEF Message, TypeOK, Server
<1>4. /\ reply \in Message /\ reply.round = m.round /\ reply.at >= m.at
  <2>1. CASE m.type = "model_para"
    <3>1. PICK d \in Cost[m.client] : reply = [m EXCEPT !.type = "update", !.at = @ + d]
      BY <1>2, <2>1 DEF Replies
    <3>2. d \in Nat
      BY <1>3, SimulationAssumption
    <3> HIDE DEF m
    <3> QED  BY <1>3, <3>1, <3>2, ReplyTyped
  <2>2. CASE m.type # "model_para"
    <3>1. reply = [m EXCEPT !.type = "metrics"]
      BY <1>2, <2>2 DEF Replies
    <3> HIDE DEF m
    <3> QED  BY <1>3, <3>1, ReplyTyped
  <2> QED  BY <2>1, <2>2
<1> HIDE DEF m, s
<1>5. /\ queue' = Append(s, reply)
      /\ Append(s, reply) \in Seq(Message)
      /\ \A i \in DOMAIN Append(s, reply) :
           Append(s, reply)[i] = reply \/ (i \in DOMAIN s /\ Append(s, reply)[i] = s[i])
  BY <1>2, <1>3, <1>4, AppendOne DEF s
<1>6. \A i \in DOMAIN queue' :
        /\ queue'[i].round <= TotalRounds
        /\ ~server.finished => queue'[i].at >= server.time
  <2> TAKE i \in DOMAIN queue'
  <2>1. CASE queue'[i] = reply
    <3>1. reply.at \in Nat
      BY <1>4 DEF Message
    <3> QED  BY <1>3, <1>4, <2>1, <3>1
  <2>2. CASE i \in DOMAIN s /\ queue'[i] = s[i]
    <3>1. PICK j \in DOMAIN queue : queue'[i] = queue[j]
      BY <1>3, <2>2
    <3> QED  BY <1>1, <3>1 DEF Fit, InRounds, InOrder
  <2> QED  BY <1>5, <2>1, <2>2
<1>7. Fit(server, queue)'
  BY <1>1, <1>5, <1>6 DEF Fit, InRounds, InOrder
<1>8. TypeOK'
  BY <1>1, <1>5 DEF TypeOK
<1>9. Ahead(server, cache)'
  BY <1>1 DEF Ahead
<1> QED  BY <1>1, <1>7, <1>8, <1>9 DEF IInv

LEMMA PutAsideKeeps ==
  ASSUME IInv, PutAside
  PROVE  IInv'
<1>1. /\ UNCHANGED <<timeUp, afterReceiving, started, server, over>>
      /\ started /\ queue # <<>>
      /\ queue' = Tail(queue) /\ cache' = Append(cache, Head(queue))
      /\ TypeOK /\ Fit(server, queue) /\ Ahead(server, cache)
      /\ cache \in Seq(Message)
  BY DEF PutAside, Running, IInv, TypeOK
<1>2. /\ Head(queue) \in Message /\ Head(queue).round <= TotalRounds
      /\ (~server.finished => Head(queue).at >= server.time)
      /\ Tail(queue) \in Seq(Message)
      /\ \A i \in DOMAIN Tail(queue) : \E j \in DOMAIN queue : Tail(queue)[i] = queue[j]
  BY <1>1, Taken
<1>3. Fit(server, queue)'
  <2>1. \A i \in DOMAIN queue' : \E j \in DOMAIN queue : queue'[i] = queue[j]
    BY <1>1, <1>2
  <2>2. queue' \in Seq(Message)
    BY <1>1, <1>2
  <2> QED  BY <1>1, <2>1, <2>2 DEF Fit, InRounds, InOrder
<1>4. /\ cache' \in Seq(Message)
      /\ \A i \in DOMAIN cache' :
           cache'[i] = Head(queue) \/ (i \in DOMAIN cache /\ cache'[i] = cache[i])
  BY <1>1, <1>2, AppendOne
<1>5. Ahead(server, cache)'
  BY <1>1, <1>2, <1>4 DEF Ahead
<1>6. TypeOK'
  BY <1>1, <1>2, <1>4 DEF TypeOK
<1> QED  BY <1>1, <1>3, <1>5, <1>6 DEF IInv

LEMMA RunServerKeeps ==
  ASSUME IInv, RunServer
  PROVE  IInv'
<1> DEFINE i == Earliest(cache)
           m == cache[i]
<1>1. /\ UNCHANGED <<timeUp, afterReceiving, started, over>>
      /\ started /\ queue = <<>> /\ cache # <<>>
      /\ TypeOK /\ Fit(server, <<>>) /\ Ahead(server, cache)
      /\ cache \in Seq(Message) /\ server \in Server
      /\ server.time \in Nat /\ server.deadline \in Nat
  BY DEF RunServer, Running, IInv, TypeOK, Server
<1>2. i \in DOMAIN cache /\ \A j \in DOMAIN cache : cache[j].at >= m.at
  BY <1>1, EarliestIsFirst
<1>3. /\ m \in Message /\ m.at \in Nat /\ m.round <= TotalRounds
      /\ ~server.finished => m.at >= server.time
      /\ \A j \in DOMAIN cache : cache[j] \in Message /\ cache[j].at \in Nat
  <2>1. \A j \in DOMAIN cache : cache[j] \in Message
    BY <1>1, ElementOfSeq, LenProperties
  <2> QED  BY <1>1, <1>2, <2>1 DEF Ahead, Message
<1>4. IF Expires(m.at)
        THEN (\E r \in Expire(server, <<>>) : server' = r.server /\ queue' = r.queue)
             /\ cache' = cache
        ELSE (\E r \in IF m.type = "update" THEN HandleUpdate(server, <<>>, m)
                                            ELSE HandleMetrics(server, <<>>, m) :
                server' = r.server /\ queue' = r.queue)
             /\ cache' = Without(cache, i)
  BY <1>1 DEF RunServer
<1> HIDE DEF m, i
<1>5. ASSUME Fit(server', queue'), cache' \in Seq(Message), Ahead(server', cache')
      PROVE  IInv'
  <2>1. TypeOK'
    BY <1>1, <1>5 DEF TypeOK, Fit
  <2>2. Fit(server, queue)' /\ Ahead(server, cache)'
    BY <1>1, <1>5 DEF Fit, InRounds, InOrder, Ahead
  <2> QED  BY <1>1, <2>1, <2>2 DEF IInv
<1>6. CASE Expires(m.at)
  <2>1. PICK r \in Expire(server, <<>>) : server' = r.server /\ queue' = r.queue
    BY <1>4, <1>6
  <2>2. timeUp /\ ~server.finished /\ m.at >= server.deadline
    BY <1>6 DEF Expires
  <2>3. Fit(server', queue') /\ server'.time = server.deadline
    BY <1>1, <2>1, <2>2, ExpireGood DEF Good
  <2>4. Ahead(server', cache')
    <3>1. cache' = cache
      BY <1>4, <1>6
    <3>2. \A j \in DOMAIN cache : cache[j].at >= server.deadline
      BY <1>1, <1>2, <1>3, <2>2
    <3> QED  BY <1>1, <2>3, <3>1, <3>2 DEF Ahead
  <2> QED  BY <1>1, <1>4, <1>5, <1>6, <2>3, <2>4
<1>7. CASE ~Expires(m.at)
  <2>1. /\ cache' = Without(cache, i) /\ cache' \in Seq(Message)
        /\ \A j \in DOMAIN cache' : \E k \in DOMAIN cache : cache'[j] = cache[k]
    BY <1>1, <1>2, <1>4, <1>7, WithoutKeeps
  <2>2. Timely(server, m)
    BY <1>1, <1>3, <1>7 DEF Timely, Expires
  <2>3. CASE m.type = "update"
    <3>1. PICK r \in HandleUpdate(server, <<>>, m) : server' = r.server /\ queue' = r.queue
      BY <1>4, <1>7, <2>3
    <3>2. Fit(server', queue') /\ (~server'.finished => server'.time = m.at)
      BY <1>1, <2>2, <3>1, HandleUpdateGood
    <3>3. Ahead(server', cache')
      BY <1>1, <1>2, <2>1, <3>2 DEF Ahead, m
    <3> QED  BY <1>5, <2>1, <3>2, <3>3
  <2>4. CASE m.type # "update"
    <3>1. PICK r \in HandleMetrics(server, <<>>, m) : server' = r.server /\ queue' = r.queue
      BY <1>4, <1>7, <2>4
    <3>2. /\ Fit(server', queue') /\ server'.time = server.time
          /\ (server.finished => server'.finished)
      BY <1>1, <1>3, <3>1, HandleMetricsGood DEF Good
    <3>3. Ahead(server', cache')
      BY <1>1, <2>1, <3>2 DEF Ahead
    <3> QED  BY <1>5, <2>1, <3>2, <3>3
  <2> QED  BY <2>3, <2>4
<1> QED  BY <1>6, <1>7

LEMMA RunIdleKeeps ==
  ASSUME IInv, RunIdle
  PROVE  IInv'
<1>1. /\ UNCHANGED <<timeUp, afterReceiving, started, cache>>
      /\ started /\ queue = <<>> /\ cache = <<>> /\ over' \in BOOLEAN
      /\ TypeOK /\ Fit(server, <<>>)
  BY DEF RunIdle, Running, IInv
<1>2. Fit(server', queue')
  <2>1. CASE timeUp /\ ~server.finished
    <3>1. PICK r \in Expire(server, <<>>) : server' = r.server /\ queue' = r.queue
      BY <1>1, <2>1 DEF RunIdle
    <3> QED  BY <1>1, <2>1, <3>1, ExpireGood DEF Good
  <2>2. CASE ~(timeUp /\ ~server.finished)
    BY <1>1, <2>2 DEF RunIdle
  <2> QED  BY <2>1, <2>2
<1>3. Fit(server, queue)'
  BY <1>1, <1>2 DEF Fit, InRounds, InOrder
<1>4. Ahead(server, cache)'
  <2>1. DOMAIN cache' = {}
    BY <1>1
  <2> QED  BY <2>1 DEF Ahead
<1>5. TypeOK'
  BY <1>1, <1>2 DEF TypeOK, Fit
<1> QED  BY <1>1, <1>3, <1>4, <1>5 DEF IInv

LEMMA StutterKeeps ==
  ASSUME IInv, UNCHANGED vars
  PROVE  IInv'
<1>1. UNCHANGED <<timeUp, afterReceiving, started, server, queue, cache, over>>
  BY DEF vars
<1> QED  BY <1>1 DEF IInv, TypeOK, Fit, InRounds, InOrder, Ahead, Idle

LEMMA NextKeeps == IInv /\ [Next]_vars => IInv'
BY StartKeeps, RunClientKeeps, PutAsideKeeps, RunServerKeeps, RunIdleKeeps, StutterKeeps
   DEF Next

-----------------------------------------------------------------------------
(* Theorems.                                                               *)

\* Server, queue and heap stay in the order of simulated time.
THEOREM InductiveInvariant == Spec => []IInv
BY InitHolds, NextKeeps, PTL DEF Spec

\* The variables of a simulation keep their types.
THEOREM TypeCorrect == Spec => []TypeOK
BY InductiveInvariant, PTL DEF IInv

\* The messages under way, in an invariant state of a course that goes on.
LEMMA UnderWayAhead ==
  ASSUME IInv, ~server.finished, NEW m \in UnderWay
  PROVE  m.at >= server.time
<1>1. CASE \E i \in DOMAIN queue : m = queue[i]
  BY <1>1 DEF IInv, Fit, InOrder
<1>2. CASE \E i \in DOMAIN cache : m = cache[i]
  BY <1>2 DEF IInv, Ahead
<1> QED  BY <1>1, <1>2 DEF UnderWay

\* Whatever training takes and whenever deadlines pass, the server never meets an
\* update from before its time.
THEOREM ClockNeverPassed == Spec => []NothingInThePast
<1>1. IInv => NothingInThePast
  BY UnderWayAhead DEF NothingInThePast, IInv, Fit, InOrder
<1> QED  BY <1>1, InductiveInvariant, PTL

\* Updates are aggregated in the order of simulated time, and with deadlines each
\* aggregation holds what was finished before its deadline.
THEOREM OrderOfTime == Spec => []AggregatedInOrder
<1>1. IInv => AggregatedInOrder
  <2> SUFFICES ASSUME IInv, ~server.finished, NEW u \in server.agg.updates
               PROVE  /\ IF timeUp THEN u.at < server.agg.at ELSE u.at <= server.agg.at
                      /\ \A m \in UnderWay : m.type = "update" => m.at >= u.at
    BY DEF AggregatedInOrder
  <2>1. u.at \in Nat /\ server.agg.at \in Nat /\ server.time \in Nat
    BY DEF IInv, TypeOK, Server, Updates
  <2>2. /\ u.at <= server.agg.at /\ (timeUp => u.at < server.agg.at)
        /\ server.agg.at <= server.time
    BY DEF IInv, Fit, InOrder
  <2>3. ASSUME NEW m \in UnderWay  PROVE m.at >= u.at
    <3>1. m.at >= server.time
      BY UnderWayAhead
    <3>2. m.at \in Nat
      <4>1. m \in Message
        BY ElementOfSeq, LenProperties DEF UnderWay, IInv, TypeOK
      <4> QED  BY <4>1 DEF Message
    <3> QED  BY <2>1, <2>2, <3>1, <3>2
  <2> QED  BY <2>2, <2>3
<1> QED  BY <1>1, InductiveInvariant, PTL

-----------------------------------------------------------------------------
(* Turns.  Every worker that is not idle has exactly one turn: a model on  *)
(* its way to it, or its update on its way to the server, in the queue or  *)
(* put aside.  What the workers buffered, dropped and busy come to is      *)
(* therefore known, also in the middle of a handler.                       *)

Turn(m) == m.type \in {"model_para", "update"}

\* The workers that have a turn in q, and that none has two.
Held(q) == {q[i].client : i \in {k \in DOMAIN q : Turn(q[k])}}
Apart(q) == \A i, j \in DOMAIN q :
              Turn(q[i]) /\ Turn(q[j]) /\ q[i].client = q[j].client => i = j

\* The workers in H, whose turns are put aside, and those with a turn in q are those that
\* are not idle; unless workers are asked one by one, nobody is asked before the buffers
\* are empty.
Tidy(s, q, H) ==
  /\ Apart(q)
  /\ Held(q) \cap H = {}
  /\ Held(q) \cup H = Clients \ s.idle
  /\ ~afterReceiving => /\ s.fresh \cap s.staled = {}
                        /\ \A u \in s.fresh \cup s.staled : u.client \in s.idle

Busy(s) == Cardinality(Clients \ s.idle)

\* What is under way, buffered or dropped; asked one by one, so many are under way.
Accounted(s, out) ==
  /\ s.crash = "none"
  /\ IF afterReceiving THEN Busy(s) = out
     ELSE Busy(s) + Cardinality(s.fresh) + Cardinality(s.staled) + s.dropout = SampleNum

Counting(s) == ~Overselection /\ s.state < TotalRounds

\* What an operation makes of a server and a queue in a course that goes on.
Kept(r, H, out) ==
  ~r.server.finished =>
    /\ Tidy(r.server, r.queue, H)
    /\ Counting(r.server) => Accounted(r.server, out)

\* Only answers are put aside.
Answers(c) == \A i \in DOMAIN c : c[i].type \in {"update", "metrics"}

TInv ==
  /\ IInv
  /\ Answers(cache)
  /\ started /\ ~server.finished =>
       /\ Tidy(server, queue, Held(cache))
       /\ Apart(cache)
       /\ Counting(server) => Accounted(server, SampleNum)
  /\ ~started =>
       /\ server.idle = Clients /\ server.dropout = 0 /\ server.crash = "none"
       /\ queue = <<>> /\ cache = <<>>

-----------------------------------------------------------------------------
(* Counting workers.                                                       *)

Listed(p) == {p[i] : i \in DOMAIN p}

\* A list of n workers holds n workers.
LEMMA ListedCount ==
  ASSUME NEW S \in SUBSET Clients, NEW n \in Nat, NEW p \in Lists(S, n)
  PROVE  /\ Listed(p) \in SUBSET S
         /\ IsFiniteSet(Listed(p)) /\ Cardinality(Listed(p)) = n
<1>1. /\ p \in [1 .. n -> S]
      /\ \A i, j \in 1 .. n : p[i] = p[j] => i = j
  BY DEF Lists
<1>2. DOMAIN p = 1 .. n /\ Listed(p) = {p[i] : i \in 1 .. n}
  BY <1>1 DEF Listed
<1>3. p \in Bijection(1 .. n, Listed(p))
  <2>1. p \in [1 .. n -> Listed(p)]
    BY <1>1, <1>2
  <2>2. p \in Injection(1 .. n, Listed(p))
    BY <1>1, <2>1 DEF Injection, IsInjective
  <2>3. p \in Surjection(1 .. n, Listed(p))
    BY <1>2, <2>1 DEF Surjection
  <2> QED  BY <2>2, <2>3 DEF Bijection
<1>4. ExistsBijection(1 .. n, Listed(p))
  BY <1>3 DEF ExistsBijection
<1>5. IsFiniteSet(1 .. n) /\ Cardinality(1 .. n) = n
  <2>1. IsFiniteSet(1 .. n) /\ Cardinality(1 .. n) = IF 1 > n THEN 0 ELSE n - 1 + 1
    BY FS_Interval
  <2> QED  BY <2>1
<1>6. IsFiniteSet(Listed(p)) /\ Cardinality(Listed(p)) = n
  BY <1>4, <1>5, FS_Bijection
<1> QED  BY <1>1, <1>2, <1>6

\* Asking the workers in P.
LEMMA MoreBusy ==
  ASSUME NEW S \in SUBSET Clients, NEW P \in SUBSET S
  PROVE  /\ Clients \ (S \ P) = (Clients \ S) \cup P
         /\ Cardinality(Clients \ (S \ P)) = Cardinality(Clients \ S) + Cardinality(P)
<1>1. IsFiniteSet(Clients \ S) /\ IsFiniteSet(P) /\ (Clients \ S) \cap P = {}
  BY SimulationAssumption, FS_Subset
<1>2. Cardinality((Clients \ S) \cup P)
        = Cardinality(Clients \ S) + Cardinality(P) - Cardinality((Clients \ S) \cap P)
  BY <1>1, FS_Union
<1>3. Cardinality((Clients \ S) \cap P) = 0
  BY <1>1, FS_EmptySet
<1>4. Clients \ (S \ P) = (Clients \ S) \cup P
  OBVIOUS
<1>5. Cardinality(Clients \ S) \in Nat /\ Cardinality(P) \in Nat
  BY <1>1, FS_CardinalityType
<1>6. Cardinality((Clients \ S) \cup P) = Cardinality(Clients \ S) + Cardinality(P)
  BY <1>2, <1>3, <1>5
<1> QED  BY <1>4, <1>6

\* A worker that is heard from.
LEMMA LessBusy ==
  ASSUME NEW S \in SUBSET Clients, NEW c \in Clients \ S
  PROVE  /\ Cardinality(Clients \ S) \in Nat
         /\ Cardinality(Clients \ (S \cup {c})) = Cardinality(Clients \ S) - 1
<1>1. IsFiniteSet(Clients \ S) /\ c \in Clients \ S
  BY SimulationAssumption, FS_Subset
<1>2. Cardinality((Clients \ S) \ {c}) = Cardinality(Clients \ S) - 1
  BY <1>1, FS_RemoveElement
<1>3. Clients \ (S \cup {c}) = (Clients \ S) \ {c}
  OBVIOUS
<1>4. Cardinality(Clients \ S) \in Nat
  BY <1>1, FS_CardinalityType
<1> QED  BY <1>2, <1>3, <1>4

LEMMA CountsAreNat ==
  ASSUME NEW s, NEW q, Fit(s, q)
  PROVE  /\ s.dropout \in Nat /\ s.state \in Nat /\ s.idle \in SUBSET Clients
         /\ Cardinality(s.fresh) \in Nat /\ Cardinality(s.staled) \in Nat
         /\ Busy(s) \in Nat /\ IsFiniteSet(s.idle) /\ Cardinality(s.idle) \in Nat
         /\ Busy(s) + Cardinality(s.idle) = Cardinality(Clients)
         /\ Cardinality(Clients) \in Nat /\ SampleNum \in Nat /\ SampleNum <= Cardinality(Clients)
<1>1. /\ s \in Server /\ IsFiniteSet(s.fresh) /\ IsFiniteSet(s.staled)
  BY DEF Fit, InRounds
<1>2. s.dropout \in Nat /\ s.state \in Nat /\ s.idle \in SUBSET Clients
  BY <1>1, RoundsAreNat DEF Server
<1>3. Cardinality(s.fresh) \in Nat /\ Cardinality(s.staled) \in Nat
  BY <1>1, FS_CardinalityType
<1>4. IsFiniteSet(Clients) /\ Cardinality(Clients) \in Nat
  BY SimulationAssumption, FS_CardinalityType
<1>5. IsFiniteSet(s.idle) /\ Cardinality(s.idle) \in Nat
  BY <1>2, <1>4, FS_Subset, FS_CardinalityType
<1>6. IsFiniteSet(Clients \ s.idle) /\ Busy(s) = Cardinality(Clients) - Cardinality(s.idle)
  <2>1. /\ IsFiniteSet(Clients \ s.idle)
        /\ Cardinality(Clients \ s.idle)
             = Cardinality(Clients) - Cardinality(Clients \cap s.idle)
    BY <1>4, FS_Difference
  <2>2. Clients \cap s.idle = s.idle
    BY <1>2
  <2> QED  BY <2>1, <2>2 DEF Busy
<1>7. Busy(s) \in Nat
  BY <1>6, FS_CardinalityType DEF Busy
<1>8. SampleNum \in Nat /\ SampleNum <= Cardinality(Clients)
  BY <1>4, SimulationAssumption
<1> QED  BY <1>2, <1>3, <1>4, <1>5, <1>6, <1>7, <1>8

-----------------------------------------------------------------------------
(* The turns in a queue.                                                   *)

LEMMA HeldEmpty == Held(<<>>) = {} /\ Apart(<<>>)
BY DEF Held, Apart

\* Turns in a queue that grows.
LEMMA HeldConcat ==
  ASSUME NEW q \in Seq(Message), NEW new \in Seq(Message)
  PROVE  /\ Held(q \o new) = Held(q) \cup Held(new)
         /\ Apart(q) /\ Apart(new) /\ Held(q) \cap Held(new) = {} => Apart(q \o new)
<1> DEFINE l == q \o new
<1>1. /\ DOMAIN l = 1 .. Len(q) + Len(new)
      /\ \A i \in 1 .. Len(q) + Len(new) : l[i] = IF i <= Len(q) THEN q[i] ELSE new[i - Len(q)]
      /\ Len(q) \in Nat /\ DOMAIN q = 1 .. Len(q)
      /\ Len(new) \in Nat /\ DOMAIN new = 1 .. Len(new)
  BY ConcatProperties, LenProperties
<1> HIDE DEF l
<1>2. \A i \in DOMAIN l : \/ i \in DOMAIN q /\ l[i] = q[i]
                          \/ /\ i > Len(q) /\ i - Len(q) \in DOMAIN new
                             /\ l[i] = new[i - Len(q)]
  <2> SUFFICES ASSUME NEW i \in DOMAIN l
               PROVE  \/ i \in DOMAIN q /\ l[i] = q[i]
                      \/ i > Len(q) /\ i - Len(q) \in DOMAIN new /\ l[i] = new[i - Len(q)]
    OBVIOUS
  <2>1. i \in 1 .. Len(q) + Len(new)
    BY <1>1
  <2>2. l[i] = IF i <= Len(q) THEN q[i] ELSE new[i - Len(q)]
    BY <1>1, <2>1
  <2>3. CASE i <= Len(q)
    BY <1>1, <2>1, <2>2, <2>3
  <2>4. CASE ~(i <= Len(q))
    <3>1. i > Len(q) /\ i - Len(q) \in 1 .. Len(new)
      BY <1>1, <2>1, <2>4
    <3> QED  BY <1>1, <2>2, <2>4, <3>1
  <2> QED  BY <2>3, <2>4
<1>3. \A i \in DOMAIN q : i \in DOMAIN l /\ l[i] = q[i]
  BY <1>1
<1>4. ASSUME NEW j \in DOMAIN new
      PROVE  Len(q) + j \in DOMAIN l /\ l[Len(q) + j] = new[j]
  <2>1. Len(q) + j \in 1 .. Len(q) + Len(new) /\ ~(Len(q) + j <= Len(q))
        /\ (Len(q) + j) - Len(q) = j
    BY <1>1
  <2> QED  BY <1>1, <2>1
<1>5. Held(l) = Held(q) \cup Held(new)
  <2>1. Held(l) \subseteq Held(q) \cup Held(new)
    BY <1>2 DEF Held
  <2>2. Held(q) \subseteq Held(l)
    BY <1>3 DEF Held
  <2>3. Held(new) \subseteq Held(l)
    BY <1>4 DEF Held
  <2> QED  BY <2>1, <2>2, <2>3
<1>6. ASSUME Apart(q), Apart(new), Held(q) \cap Held(new) = {}
      PROVE  Apart(l)
  <2> SUFFICES ASSUME NEW i \in DOMAIN l, NEW j \in DOMAIN l,
                      Turn(l[i]), Turn(l[j]), l[i].client = l[j].client
               PROVE  i = j
    BY DEF Apart
  <2>1. CASE i \in DOMAIN q /\ l[i] = q[i] /\ j \in DOMAIN q /\ l[j] = q[j]
    BY <1>6, <2>1 DEF Apart
  <2>2. ASSUME i - Len(q) \in DOMAIN new, l[i] = new[i - Len(q)],
               j - Len(q) \in DOMAIN new, l[j] = new[j - Len(q)]
        PROVE  i = j
    <3>1. i - Len(q) = j - Len(q)
      BY <1>6, <2>2 DEF Apart
    <3> QED  BY <1>1, <3>1
  <2>3. ~(i \in DOMAIN q /\ l[i] = q[i] /\ j - Len(q) \in DOMAIN new /\ l[j] = new[j - Len(q)])
    BY <1>6 DEF Held
  <2>4. ~(j \in DOMAIN q /\ l[j] = q[j] /\ i - Len(q) \in DOMAIN new /\ l[i] = new[i - Len(q)])
    BY <1>6 DEF Held
  <2> QED  BY <1>2, <2>1, <2>2, <2>3, <2>4
<1> QED  BY <1>5, <1>6 DEF l

\* Models for a list of workers are a turn of each; requests for evaluations are none.
LEMMA HeldTo ==
  ASSUME NEW S \in SUBSET Clients, NEW n \in Nat, NEW p \in Lists(S, n), NEW r, NEW at
  PROVE  /\ Held(To(p, "model_para", r, at)) = Listed(p)
         /\ Apart(To(p, "model_para", r, at))
         /\ Held(To(p, "evaluate", r, at)) = {} /\ Apart(To(p, "evaluate", r, at))
<1> DEFINE new == To(p, "model_para", r, at)
           ask == To(p, "evaluate", r, at)
<1>1. p \in [1 .. n -> S] /\ \A i, j \in 1 .. n : p[i] = p[j] => i = j
  BY DEF Lists
<1>2. /\ DOMAIN new = 1 .. n /\ DOMAIN ask = 1 .. n /\ DOMAIN p = 1 .. n
      /\ \A i \in 1 .. n : new[i].client = p[i] /\ new[i].type = "model_para"
                           /\ ask[i].type = "evaluate"
  BY <1>1 DEF To
<1> HIDE DEF new, ask
<1>3. \A i \in 1 .. n : Turn(new[i]) /\ ~Turn(ask[i])
  BY <1>2 DEF Turn
<1>4. Held(new) = Listed(p) /\ Held(ask) = {}
  BY <1>2, <1>3 DEF Held, Listed
<1>5. Apart(new) /\ Apart(ask)
  BY <1>1, <1>2, <1>3 DEF Apart
<1> QED  BY <1>4, <1>5 DEF new, ask

-----------------------------------------------------------------------------
(* Turns and the server's operations.                                      *)

\* What an operation that asks workers leaves alone.
Unasked(s, t) ==
  /\ t.fresh = s.fresh /\ t.staled = s.staled /\ t.dropout = s.dropout
  /\ t.state = s.state /\ t.finished = s.finished

\* Workers that are asked get a turn each; with enough of them idle the sampler finds n.
LEMMA BroadcastTurns ==
  ASSUME NEW s, NEW q, Fit(s, q), NEW H, Tidy(s, q, H), NEW n \in Nat,
         afterReceiving \/ (s.fresh = {} /\ s.staled = {}),
         NEW r \in BroadcastModelPara(s, q, n)
  PROVE  /\ r.server \in Server /\ Tidy(r.server, r.queue, H) /\ Unasked(s, r.server)
         /\ s.crash = "none" /\ n <= Cardinality(s.idle) =>
              r.server.crash = "none" /\ Busy(r.server) = Busy(s) + n
<1>1. /\ s \in Server /\ q \in Seq(Message) /\ s.time \in Nat /\ s.state \in Nat
      /\ s.idle \in SUBSET Clients /\ Cardinality(s.idle) \in Nat
  BY RoundsAreNat, CountsAreNat DEF Fit, Server
<1>2. CASE s.crash # "none"
  BY <1>1, <1>2 DEF BroadcastModelPara, Result, Unasked
<1>3. CASE s.crash = "none" /\ n > Cardinality(s.idle)
  <2> DEFINE t == [s EXCEPT !.crash = "starved"]
  <2>1. r = Result(t, q)
    BY <1>3 DEF BroadcastModelPara
  <2>2. t \in Server /\ Unasked(s, t) /\ t.idle = s.idle
    BY <1>1 DEF Server, Unasked
  <2> HIDE DEF t
  <2>3. Tidy(t, q, H)
    BY <2>2 DEF Tidy, Unasked
  <2>4. ~(n <= Cardinality(s.idle))
    BY <1>1, <1>3
  <2> QED  BY <2>1, <2>2, <2>3, <2>4 DEF Result
<1>4. CASE s.crash = "none" /\ ~(n > Cardinality(s.idle))
  <2>1. PICK p \in Lists(s.idle, n) :
          r = Result([s EXCEPT !.idle = @ \ {p[i] : i \in DOMAIN p}],
                     q \o To(p, "model_para", s.state, s.time))
    BY <1>4 DEF BroadcastModelPara
  <2> DEFINE t   == [s EXCEPT !.idle = @ \ {p[i] : i \in DOMAIN p}]
             new == To(p, "model_para", s.state, s.time)
  <2>2. /\ t \in Server /\ Unasked(s, t) /\ t.crash = s.crash
        /\ t.idle = s.idle \ Listed(p)
    BY <1>1 DEF Server, Unasked, Listed
  <2>3. /\ new \in Seq(Message) /\ Held(new) = Listed(p) /\ Apart(new)
    <3>1. s.state \in Int /\ s.state >= 0 /\ s.time \in Nat /\ s.idle \in SUBSET Clients
      BY <1>1
    <3> HIDE DEF t
    <3> QED  BY <3>1, ToFit, HeldTo
  <2>4. r = Result(t, q \o new)
    BY <2>1
  <2> HIDE DEF t, new
  <2>5. Listed(p) \in SUBSET s.idle /\ Cardinality(Listed(p)) = n
    BY <1>1, ListedCount
  <2>6. /\ Clients \ t.idle = (Clients \ s.idle) \cup Listed(p)
        /\ Busy(t) = Busy(s) + n
    BY <1>1, <2>2, <2>5, MoreBusy DEF Busy
  <2>7. Held(q) \cap H = {} /\ Held(q) \cup H = Clients \ s.idle /\ Apart(q)
    BY DEF Tidy
  <2>8. /\ Held(q \o new) = Held(q) \cup Listed(p) /\ Apart(q \o new)
        /\ Listed(p) \cap H = {}
    <3>1. Listed(p) \cap (Held(q) \cup H) = {}
      BY <2>5, <2>7
    <3> QED  BY <1>1, <2>3, <2>7, <3>1, HeldConcat
  <2>9. Tidy(t, q \o new, H)
    <3>1. Held(q \o new) \cap H = {} /\ Held(q \o new) \cup H = Clients \ t.idle
      BY <2>6, <2>7, <2>8
    <3>2. ~afterReceiving => t.fresh = {} /\ t.staled = {}
      BY <2>2 DEF Unasked
    <3> QED  BY <2>8, <3>1, <3>2 DEF Tidy
  <2> QED  BY <1>4, <2>2, <2>4, <2>6, <2>9 DEF Result
<1> QED  BY <1>2, <1>3, <1>4

\* An evaluation asks for no update; it changes the server only at the end.
LEMMA EvalTurns ==
  ASSUME NEW s, NEW q, Fit(s, q), ~s.finished, s.state >= 1, NEW H, Tidy(s, q, H),
         NEW r \in Eval(s, q)
  PROVE  ~r.server.finished => r.server = s /\ Tidy(s, r.queue, H)
<1>1. CASE GlobalEval
  <2>1. r = Result(CheckAndSave(s), q)
    BY <1>1 DEF Eval
  <2>2. CheckAndSave(s) = s \/ CheckAndSave(s) = [s EXCEPT !.state = @ + 1, !.finished = TRUE]
    BY DEF CheckAndSave
  <2>3. [s EXCEPT !.state = @ + 1, !.finished = TRUE].finished
    BY DEF Fit, Server
  <2> QED  BY <2>1, <2>2, <2>3 DEF Result
<1>2. CASE ~GlobalEval
  <2>1. PICK p \in Lists(Clients, Cardinality(Clients)) :
          r = Result(s, q \o To(p, "evaluate", s.state - 1, s.time))
    BY <1>2 DEF Eval
  <2> DEFINE new == To(p, "evaluate", s.state - 1, s.time)
  <2>2. /\ s.state \in Nat /\ s.time \in Nat /\ Cardinality(Clients) \in Nat
        /\ q \in Seq(Message)
    BY RoundsAreNat, SimulationAssumption, FS_CardinalityType DEF Fit, Server
  <2>3. s.state - 1 \in Int /\ s.state - 1 >= 0
    BY <2>2
  <2>4. new \in Seq(Message) /\ Held(new) = {} /\ Apart(new)
    BY <2>2, <2>3, ToFit, HeldTo
  <2>5. r = Result(s, q \o new)
    BY <2>1
  <2> HIDE DEF new
  <2>6. Held(q \o new) = Held(q) /\ Apart(q \o new)
    BY <2>2, <2>4, HeldConcat DEF Tidy
  <2>7. Tidy(s, q \o new, H)
    BY <2>6 DEF Tidy
  <2> QED  BY <2>5, <2>7 DEF Result
<1> QED  BY <1>1, <1>2

\* As many workers are replaced as there are to replace, so that the sampler finds them.
LEMMA ReplaceTurns ==
  ASSUME NEW s, NEW q, Fit(s, q), ~s.finished, NEW H, Tidy(s, q, H), NEW n \in Nat,
         s.fresh = {}, s.staled = {}, ~afterReceiving,
         Counting(s) => s.crash = "none" /\ Busy(s) + n = SampleNum,
         NEW b \in BroadcastModelPara(s, q, n),
         NEW r, r = Result([b.server EXCEPT !.dropout = 0], b.queue), NEW out
  PROVE  Kept(r, H, out)
<1> DEFINE t == [b.server EXCEPT !.dropout = 0]
<1>1. /\ b.server \in Server /\ Tidy(b.server, b.queue, H) /\ Unasked(s, b.server)
      /\ s.crash = "none" /\ n <= Cardinality(s.idle) =>
           b.server.crash = "none" /\ Busy(b.server) = Busy(s) + n
  BY BroadcastTurns
<1>2. /\ t.fresh = {} /\ t.staled = {} /\ t.dropout = 0 /\ t.state = s.state
      /\ t.crash = b.server.crash /\ t.idle = b.server.idle
  BY <1>1 DEF Server, Unasked
<1>3. r.server = t /\ r.queue = b.queue
  BY DEF Result
<1> HIDE DEF t
<1>4. Tidy(t, b.queue, H)
  BY <1>1, <1>2 DEF Tidy, Unasked
<1>5. ASSUME Counting(t)  PROVE Accounted(t, out)
  <2>1. s.crash = "none" /\ Busy(s) + n = SampleNum
    BY <1>2, <1>5 DEF Counting
  <2>2. n <= Cardinality(s.idle)
    BY <2>1, CountsAreNat
  <2>3. b.server.crash = "none" /\ Busy(b.server) = SampleNum
    BY <1>1, <2>1, <2>2
  <2>4. Busy(t) = SampleNum /\ SampleNum \in Nat /\ Cardinality({}) = 0
    BY <1>2, <2>3, CountsAreNat, FS_EmptySet DEF Busy
  <2> QED  BY <1>2, <2>3, <2>4 DEF Accounted
<1> QED  BY <1>3, <1>4, <1>5 DEF Kept

\* A server with empty buffers whose next round asks for as many workers as it has
\* received and dropped.
LEMMA NextRoundTurns ==
  ASSUME NEW s, NEW q, Fit(s, q), ~s.finished, NEW H, Tidy(s, q, H),
         s.fresh = {}, s.staled = {}, NEW received \in Nat, NEW out,
         Counting(s) => /\ s.crash = "none"
                        /\ IF afterReceiving THEN Busy(s) = out
                           ELSE Busy(s) + received + s.dropout = SampleNum,
         NEW r \in NextRound(s, q, received)
  PROVE  Kept(r, H, out)
<1> DEFINE d    == IF timeUp THEN s.time + Budget ELSE s.deadline
           next == [s EXCEPT !.deadline = d]
           n    == IF Overselection THEN SampleNum ELSE received + s.dropout
<1>1. s \in Server /\ s.time \in Nat /\ s.deadline \in Nat /\ s.dropout \in Nat
  BY DEF Fit, Server
<1>2. d \in Nat /\ (timeUp => s.time <= d)
  BY <1>1, SimulationAssumption
<1>3. n \in Nat
  BY <1>1, SimulationAssumption, FS_CardinalityType
<1>4. /\ Fit(next, q) /\ ~next.finished
      /\ next.fresh = {} /\ next.staled = {} /\ next.dropout = s.dropout
      /\ next.idle = s.idle /\ next.crash = s.crash /\ next.state = s.state
  <2>1. Fit(next, q)
    <3> HIDE DEF d
    <3> QED  BY <1>2, LaterDeadline
  <2> QED  BY <1>1, <2>1 DEF Server
<1>5. \/ afterReceiving /\ r = Result(next, q)
      \/ /\ ~afterReceiving
         /\ \E b \in BroadcastModelPara(next, q, n) :
              r = Result([b.server EXCEPT !.dropout = 0], b.queue)
  <2>1. next = [s EXCEPT !.deadline = IF timeUp THEN s.time + Budget ELSE @]
    BY <1>1 DEF Server
  <2>2. r \in IF afterReceiving THEN {Result(next, q)}
              ELSE {Result([b.server EXCEPT !.dropout = 0], b.queue) :
                      b \in BroadcastModelPara(next, q, n)}
    BY <2>1 DEF NextRound
  <2> HIDE DEF next, n
  <2> QED  BY <2>2
<1>6. ~Overselection => n = received + s.dropout
  OBVIOUS
<1> HIDE DEF next, n, d
<1>7. Tidy(next, q, H) /\ Busy(next) = Busy(s) /\ (Counting(next) <=> Counting(s))
  BY <1>4 DEF Tidy, Busy, Counting
<1>8. CASE afterReceiving /\ r = Result(next, q)
  BY <1>4, <1>7, <1>8 DEF Kept, Result, Accounted
<1>9. ASSUME ~afterReceiving, NEW b \in BroadcastModelPara(next, q, n),
             r = Result([b.server EXCEPT !.dropout = 0], b.queue)
      PROVE  Kept(r, H, out)
  <2>1. Counting(next) => next.crash = "none" /\ Busy(next) + n = SampleNum
    <3> SUFFICES ASSUME Counting(s)  PROVE next.crash = "none" /\ Busy(next) + n = SampleNum
      BY <1>7
    <3>1. s.crash = "none" /\ Busy(s) + received + s.dropout = SampleNum /\ ~Overselection
      BY <1>9 DEF Counting
    <3>2. Busy(s) \in Nat /\ SampleNum \in Nat
      BY CountsAreNat
    <3> QED  BY <1>1, <1>4, <1>6, <1>7, <3>1, <3>2
  <2> QED  BY <1>3, <1>4, <1>7, <1>9, <2>1, ReplaceTurns
<1> QED  BY <1>5, <1>8, <1>9

\* Aggregating empties the buffers, whose workers the next round replaces.
LEMMA MoveOnTurns ==
  ASSUME NEW s, NEW q, Fit(s, q), ~s.finished, NEW H, Tidy(s, q, H), NEW out,
         Counting(s) => Accounted(s, out), Enough(s), NEW r \in MoveOn(s, q)
  PROVE  Kept(r, H, out)
<1> DEFINE got == s.fresh \cup s.staled
           t   == Aggregated(s)
<1>1. s \in Server /\ s.state \in Nat /\ IsFiniteSet(s.fresh) /\ IsFiniteSet(s.staled)
  BY RoundsAreNat DEF Fit, Server, InRounds
<1>2. CASE s.fresh = {} /\ s.state >= TotalRounds
  <2> DEFINE u == [s EXCEPT !.crash = "missing_buffer"]
  <2>1. r = Result(u, q)
    BY <1>2 DEF MoveOn
  <2>2. u.idle = s.idle /\ u.fresh = s.fresh /\ u.staled = s.staled /\ u.state = s.state
    BY <1>1 DEF Server
  <2> HIDE DEF u
  <2>3. Tidy(u, q, H) /\ ~Counting(u)
    BY <1>1, <1>2, <2>2, RoundsAreNat DEF Counting, Tidy
  <2> QED  BY <2>1, <2>3 DEF Kept, Result
<1>3. CASE ~(s.fresh = {} /\ s.state >= TotalRounds)
  <2>1. /\ Cardinality(got) \in Nat
        /\ ~afterReceiving => Cardinality(got) = Cardinality(s.fresh) + Cardinality(s.staled)
    <3>1. /\ Cardinality(got) \in Nat
          /\ Cardinality(got) = Cardinality(s.fresh) + Cardinality(s.staled)
                                  - Cardinality(s.fresh \cap s.staled)
      BY <1>1, FS_Union, FS_CardinalityType
    <3>2. ~afterReceiving => Cardinality(s.fresh \cap s.staled) = 0
      BY FS_EmptySet DEF Tidy
    <3>3. Cardinality(s.fresh) \in Nat /\ Cardinality(s.staled) \in Nat
      BY CountsAreNat
    <3> HIDE DEF got
    <3> QED  BY <3>1, <3>2, <3>3
  <2>2. /\ Fit(t, q) /\ ~t.finished /\ t.crash = s.crash
        /\ t.state = s.state + 1 /\ t.state >= 1 /\ t.idle = s.idle
        /\ t.fresh = {} /\ t.dropout = s.dropout /\ t.staled \in {{}, s.staled}
        /\ t.state < TotalRounds => t.staled = {}
    BY <1>3, AggregatedFit
  <2>3. \/ ~(t.state < TotalRounds) /\ r \in Eval(t, q)
        \/ /\ t.state < TotalRounds
           /\ \E e \in IF t.state % EvalFreq = 0 THEN Eval(t, q) ELSE {Result(t, q)} :
                r \in NextRound(e.server, e.queue, Cardinality(got))
    BY <1>1, <1>3, MoveOnCases
  <2> HIDE DEF got, t
  <2>4. Tidy(t, q, H)
    BY <2>2 DEF Tidy
  <2>5. CASE ~(t.state < TotalRounds) /\ r \in Eval(t, q)
    <3>1. ~r.server.finished => r.server = t /\ Tidy(t, r.queue, H)
      BY <2>2, <2>4, <2>5, EvalTurns
    <3> QED  BY <2>5, <3>1 DEF Kept, Counting
  <2>6. ASSUME t.state < TotalRounds,
               NEW e \in IF t.state % EvalFreq = 0 THEN Eval(t, q) ELSE {Result(t, q)},
               r \in NextRound(e.server, e.queue, Cardinality(got))
        PROVE  Kept(r, H, out)
    <3>1. /\ Fit(e.server, e.queue) /\ Tidy(e.server, e.queue, H)
          /\ e.server = t /\ ~e.server.finished
      <4>1. CASE e = Result(t, q)
        BY <2>2, <2>4, <4>1 DEF Result
      <4>2. CASE e \in Eval(t, q)
        <5>1. t.state # TotalRounds
          BY <1>1, <2>2, <2>6, RoundsAreNat
        <5>2. Fit(e.server, e.queue) /\ ~e.server.finished
          BY <2>2, <4>2, <5>1, EvalGood DEF Good
        <5> QED  BY <2>2, <2>4, <4>2, <5>2, EvalTurns
      <4> QED  BY <2>6, <4>1, <4>2
    <3>2. ASSUME Counting(t)
          PROVE  /\ t.crash = "none"
                 /\ IF afterReceiving THEN Busy(t) = out
                    ELSE Busy(t) + Cardinality(got) + t.dropout = SampleNum
      <4>1. Counting(s)
        BY <1>1, <2>2, <3>2, RoundsAreNat DEF Counting
      <4>2. Accounted(s, out) /\ Busy(t) = Busy(s)
        BY <2>2, <4>1 DEF Busy
      <4>3. CASE afterReceiving
        BY <2>2, <4>2, <4>3 DEF Accounted
      <4>4. CASE ~afterReceiving
        <5>1. /\ Busy(s) + Cardinality(s.fresh) + Cardinality(s.staled) + s.dropout = SampleNum
              /\ s.crash = "none"
          BY <4>2, <4>4 DEF Accounted
        <5>2. /\ Busy(s) \in Nat /\ s.dropout \in Nat /\ SampleNum \in Nat
              /\ Cardinality(s.fresh) \in Nat /\ Cardinality(s.staled) \in Nat
          BY CountsAreNat
        <5>3. Cardinality(got) = Cardinality(s.fresh) + Cardinality(s.staled)
          BY <2>1, <4>4
        <5> QED  BY <2>2, <4>2, <4>4, <5>1, <5>2, <5>3
      <4> QED  BY <4>3, <4>4
    <3> QED  BY <2>1, <2>2, <2>6, <3>1, <3>2, NextRoundTurns
  <2> QED  BY <2>3, <2>5, <2>6
<1> QED  BY <1>2, <1>3

LEMMA ProlongTurns ==
  ASSUME NEW s, NEW q, Fit(s, q), ~s.finished, timeUp, s.fresh = {}, s.staled = {},
         NEW H, Tidy(s, q, H), NEW out, Counting(s) => Accounted(s, out),
         NEW r \in Prolong(s, q)
  PROVE  Kept(r, H, out)
<1> DEFINE d      == s.deadline + Budget
           longer == [s EXCEPT !.deadline = d]
<1>1. /\ s \in Server /\ s.time \in Nat /\ s.deadline \in Nat /\ s.dropout \in Nat
      /\ s.time <= s.deadline
  BY DEF Fit, Server, InOrder
<1>2. d \in Nat /\ s.time <= d
  BY <1>1, SimulationAssumption
<1>3. /\ Fit(longer, q) /\ ~longer.finished
      /\ longer.fresh = {} /\ longer.staled = {} /\ longer.dropout = s.dropout
      /\ longer.idle = s.idle /\ longer.crash = s.crash /\ longer.state = s.state
  <2>1. Fit(longer, q)
    <3> HIDE DEF d
    <3> QED  BY <1>2, LaterDeadline
  <2> QED  BY <1>1, <2>1 DEF Server
<1>4. \/ r = Result(longer, q)
      \/ /\ ~afterReceiving
         /\ \E b \in BroadcastModelPara(longer, q, s.dropout) :
              r = Result([b.server EXCEPT !.dropout = 0], b.queue)
  <2>1. longer = [s EXCEPT !.deadline = @ + Budget]
    BY <1>1 DEF Server
  <2>2. r \in IF ~afterReceiving /\ s.dropout # 0
                THEN {Result([b.server EXCEPT !.dropout = 0], b.queue) :
                        b \in BroadcastModelPara(longer, q, s.dropout)}
                ELSE {Result(longer, q)}
    BY <2>1 DEF Prolong
  <2> HIDE DEF longer
  <2> QED  BY <2>2
<1> HIDE DEF longer
<1>5. /\ Tidy(longer, q, H) /\ Busy(longer) = Busy(s) /\ (Counting(longer) <=> Counting(s))
      /\ Counting(longer) => Accounted(longer, out)
  BY <1>3 DEF Tidy, Busy, Counting, Accounted
<1>6. CASE r = Result(longer, q)
  BY <1>5, <1>6 DEF Kept, Result
<1>7. ASSUME ~afterReceiving, NEW b \in BroadcastModelPara(longer, q, s.dropout),
             r = Result([b.server EXCEPT !.dropout = 0], b.queue)
      PROVE  Kept(r, H, out)
  <2>1. ASSUME Counting(longer)
        PROVE  longer.crash = "none" /\ Busy(longer) + s.dropout = SampleNum
    <3>1. /\ longer.crash = "none"
          /\ Busy(longer) + Cardinality({}) + Cardinality({}) + s.dropout = SampleNum
      BY <1>3, <1>5, <1>7, <2>1 DEF Accounted
    <3>2. Busy(longer) \in Nat /\ Cardinality({}) = 0
      BY <1>3, CountsAreNat, FS_EmptySet
    <3> QED  BY <1>1, <3>1, <3>2
  <2> QED  BY <1>1, <1>3, <1>5, <1>7, <2>1, ReplaceTurns
<1> QED  BY <1>4, <1>6, <1>7

LEMMA CheckAndMoveOnTurns ==
  ASSUME NEW s, NEW q, Fit(s, q), ~s.finished, NEW H, Tidy(s, q, H), NEW out,
         Counting(s) => Accounted(s, out), NEW r \in CheckAndMoveOn(s, q)
  PROVE  Kept(r, H, out)
<1> DEFINE checked == IF timeUp /\ s.time >= s.deadline /\ s.fresh = {} /\ s.staled = {}
                        THEN Prolong(s, q) ELSE {Result(s, q)}
<1>1. PICK e \in checked : r \in IF e.server.crash = "none" /\ Enough(e.server)
                                   THEN MoveOn(e.server, e.queue) ELSE {e}
  <2>1. r \in UNION {IF e.server.crash = "none" /\ Enough(e.server)
                       THEN MoveOn(e.server, e.queue) ELSE {e} : e \in checked}
    BY DEF CheckAndMoveOn
  <2> HIDE DEF checked
  <2> QED  BY <2>1
<1>2. Fit(e.server, e.queue) /\ ~e.server.finished /\ Kept(e, H, out)
  <2>1. CASE e = Result(s, q)
    BY <2>1 DEF Result, Kept
  <2>2. CASE e \in Prolong(s, q) /\ timeUp /\ s.fresh = {} /\ s.staled = {}
    BY <2>2, ProlongGood, ProlongTurns DEF Good
  <2> QED  BY <2>1, <2>2
<1> HIDE DEF checked
<1>3. CASE r = e
  BY <1>2, <1>3
<1>4. CASE Enough(e.server) /\ r \in MoveOn(e.server, e.queue)
  <2>1. Tidy(e.server, e.queue, H) /\ (Counting(e.server) => Accounted(e.server, out))
    BY <1>2 DEF Kept
  <2> QED  BY <1>2, <1>4, <2>1, MoveOnTurns
<1> QED  BY <1>1, <1>3, <1>4

\* The worker whose update is filed is idle again; the update is a new one among the
\* buffered, or it is dropped.
LEMMA FiledTurns ==
  ASSUME NEW s, Fit(s, <<>>), ~s.finished, NEW m, Timely(s, m), NEW H,
         m.client \notin H, Tidy(s, <<>>, H \cup {m.client}),
         Counting(s) => Accounted(s, SampleNum)
  PROVE  /\ Tidy(Filed(s, m), <<>>, H)
         /\ Counting(Filed(s, m)) => Accounted(Filed(s, m), SampleNum - 1)
<1> DEFINE u  == [client |-> m.client, round |-> m.round, at |-> m.at]
           s1 == [s EXCEPT !.idle = @ \cup {m.client}, !.time = m.at]
           t  == Filed(s, m)
<1>1. /\ s \in Server /\ IsFiniteSet(s.fresh) /\ IsFiniteSet(s.staled)
      /\ s.idle \in SUBSET Clients /\ s.dropout \in Nat /\ m.client \in Clients
  BY DEF Fit, InRounds, Server, Timely, Message
<1>2. /\ s1 \in [time : {m.at}, deadline : {s.deadline}, state : {s.state},
                 idle : {s.idle \cup {m.client}}, fresh : {s.fresh}, staled : {s.staled},
                 dropout : {s.dropout}, evalRound : {s.evalRound}, evalFrom : {s.evalFrom},
                 finished : {s.finished}, crash : {s.crash}, agg : {s.agg}]
      /\ u.client = m.client
  BY <1>1 DEF Server
<1>3. t = IF m.round = s.state THEN [s1 EXCEPT !.fresh = @ \cup {u}]
          ELSE IF m.round >= s.state - Staleness THEN [s1 EXCEPT !.staled = @ \cup {u}]
          ELSE [s1 EXCEPT !.dropout = @ + 1]
  BY DEF Filed
<1> HIDE DEF t, s1, u
<1>4. /\ t.idle = s.idle \cup {m.client} /\ t.state = s.state /\ t.crash = s.crash
      /\ \/ t.fresh = s.fresh \cup {u} /\ t.staled = s.staled /\ t.dropout = s.dropout
         \/ t.fresh = s.fresh /\ t.staled = s.staled \cup {u} /\ t.dropout = s.dropout
         \/ t.fresh = s.fresh /\ t.staled = s.staled /\ t.dropout = s.dropout + 1
  <2>1. CASE m.round = s.state
    <3>1. t = [s1 EXCEPT !.fresh = @ \cup {u}]
      BY <1>3, <2>1
    <3> QED  BY <1>2, <3>1
  <2>2. CASE m.round # s.state /\ m.round >= s.state - Staleness
    <3>1. t = [s1 EXCEPT !.staled = @ \cup {u}]
      BY <1>3, <2>2
    <3> QED  BY <1>2, <3>1
  <2>3. CASE m.round # s.state /\ ~(m.round >= s.state - Staleness)
    <3>1. t = [s1 EXCEPT !.dropout = @ + 1]
      BY <1>3, <2>3
    <3> QED  BY <1>2, <3>1
  <2> QED  BY <2>1, <2>2, <2>3
<1>5. H \cup {m.client} = Clients \ s.idle /\ m.client \in Clients \ s.idle
  BY HeldEmpty DEF Tidy
<1>6. H = Clients \ t.idle
  BY <1>4, <1>5
<1>7. ~afterReceiving => /\ s.fresh \cap s.staled = {} /\ u \notin s.fresh /\ u \notin s.staled
                         /\ \A v \in s.fresh \cup s.staled : v.client \in s.idle
  BY <1>2, <1>5 DEF Tidy
<1>8. ~afterReceiving => /\ t.fresh \cap t.staled = {}
                         /\ \A v \in t.fresh \cup t.staled : v.client \in t.idle
  <2>1. ~afterReceiving => t.fresh \cap t.staled = {}
    BY <1>4, <1>7
  <2>2. ASSUME ~afterReceiving, NEW v \in t.fresh \cup t.staled  PROVE v.client \in t.idle
    <3>1. v = u \/ v \in s.fresh \cup s.staled
      BY <1>4, <2>2
    <3> QED  BY <1>2, <1>4, <1>7, <2>2, <3>1
  <2> QED  BY <2>1, <2>2
<1>9. Tidy(t, <<>>, H)
  <2>1. Held(<<>>) \cap H = {} /\ Held(<<>>) \cup H = Clients \ t.idle /\ Apart(<<>>)
    BY <1>6, HeldEmpty
  <2> QED  BY <1>8, <2>1 DEF Tidy
<1>10. ASSUME Counting(t)  PROVE Accounted(t, SampleNum - 1)
  <2>1. Accounted(s, SampleNum) /\ t.crash = "none"
    BY <1>4, <1>10 DEF Counting, Accounted
  <2>2. Busy(s) \in Nat /\ Busy(t) = Busy(s) - 1
    BY <1>1, <1>4, <1>5, LessBusy DEF Busy
  <2>3. CASE afterReceiving
    BY <2>1, <2>2, <2>3 DEF Accounted
  <2>4. CASE ~afterReceiving
    <3>1. Busy(s) + Cardinality(s.fresh) + Cardinality(s.staled) + s.dropout = SampleNum
      BY <2>1, <2>4 DEF Accounted
    <3>2. /\ Cardinality(s.fresh) \in Nat /\ Cardinality(s.staled) \in Nat /\ SampleNum \in Nat
          /\ Cardinality(s.fresh \cup {u}) = Cardinality(s.fresh) + 1
          /\ Cardinality(s.staled \cup {u}) = Cardinality(s.staled) + 1
      BY <1>1, <1>7, <2>4, CountsAreNat, FS_AddElement
    <3>3. Busy(t) + Cardinality(t.fresh) + Cardinality(t.staled) + t.dropout = SampleNum
      <4>1. CASE t.fresh = s.fresh \cup {u} /\ t.staled = s.staled /\ t.dropout = s.dropout
        BY <1>1, <2>2, <3>1, <3>2, <4>1
      <4>2. CASE t.fresh = s.fresh /\ t.staled = s.staled \cup {u} /\ t.dropout = s.dropout
        BY <1>1, <2>2, <3>1, <3>2, <4>2
      <4>3. CASE t.fresh = s.fresh /\ t.staled = s.staled /\ t.dropout = s.dropout + 1
        BY <1>1, <2>2, <3>1, <3>2, <4>3
      <4> QED  BY <1>4, <4>1, <4>2, <4>3
    <3> QED  BY <2>1, <2>4, <3>3 DEF Accounted
  <2> QED  BY <2>3, <2>4
<1> QED  BY <1>9, <1>10 DEF t

LEMMA HandleUpdateTurns ==
  ASSUME NEW s, Fit(s, <<>>), NEW m, Timely(s, m), NEW H, ~s.finished,
         m.client \notin H, Tidy(s, <<>>, H \cup {m.client}),
         Counting(s) => Accounted(s, SampleNum), NEW r \in HandleUpdate(s, <<>>, m)
  PROVE  Kept(r, H, SampleNum)
<1> DEFINE t == Filed(s, m)
<1>1. ~(m.at < s.time)
  BY DEF Timely, Message, Fit, Server
<1>2. PICK e \in CheckAndMoveOn(t, <<>>) :
        r \in IF afterReceiving THEN BroadcastModelPara(e.server, e.queue, 1) ELSE {e}
  BY <1>1 DEF HandleUpdate
<1>3. /\ Fit(t, <<>>) /\ ~t.finished /\ Tidy(t, <<>>, H)
      /\ Counting(t) => Accounted(t, SampleNum - 1)
  BY FiledFit, FiledTurns
<1> HIDE DEF t
<1>4. Fit(e.server, e.queue) /\ Kept(e, H, SampleNum - 1)
  BY <1>2, <1>3, CheckAndMoveOnGood, CheckAndMoveOnTurns DEF Good
<1>5. CASE ~afterReceiving
  BY <1>2, <1>4, <1>5 DEF Kept, Accounted
<1>6. CASE afterReceiving
  <2> SUFFICES ASSUME ~r.server.finished
               PROVE  /\ Tidy(r.server, r.queue, H)
                      /\ Counting(r.server) => Accounted(r.server, SampleNum)
    BY DEF Kept
  <2>1. r \in BroadcastModelPara(e.server, e.queue, 1)
    BY <1>2, <1>6
  <2>2. ~e.server.finished
    BY <1>4, <2>1, BroadcastGood
  <2>3. Tidy(e.server, e.queue, H) /\ (Counting(e.server) => Accounted(e.server, SampleNum - 1))
    BY <1>4, <2>2 DEF Kept
  <2>4. /\ Tidy(r.server, r.queue, H) /\ Unasked(e.server, r.server)
        /\ e.server.crash = "none" /\ 1 <= Cardinality(e.server.idle) =>
             r.server.crash = "none" /\ Busy(r.server) = Busy(e.server) + 1
    BY <1>4, <1>6, <2>1, <2>3, BroadcastTurns
  <2>5. ASSUME Counting(r.server)  PROVE Accounted(r.server, SampleNum)
    <3>1. Accounted(e.server, SampleNum - 1)
      BY <2>3, <2>4, <2>5 DEF Counting, Unasked
    <3>2. e.server.crash = "none" /\ Busy(e.server) = SampleNum - 1
      BY <1>6, <3>1 DEF Accounted
    <3>3. 1 <= Cardinality(e.server.idle) /\ SampleNum \in Nat
      BY <1>4, <3>2, CountsAreNat
    <3>4. r.server.crash = "none" /\ Busy(r.server) = SampleNum
      BY <2>4, <3>2, <3>3
    <3> QED  BY <1>6, <3>4 DEF Accounted
  <2> QED  BY <2>4, <2>5
<1> QED  BY <1>5, <1>6

LEMMA HandleMetricsTurns ==
  ASSUME NEW s, Fit(s, <<>>), NEW m \in Message, NEW H, Tidy(s, <<>>, H),
         Counting(s) => Accounted(s, SampleNum), NEW r \in HandleMetrics(s, <<>>, m)
  PROVE  Kept(r, H, SampleNum)
<1> DEFINE s1 == IF m.round > s.evalRound
                   THEN [s EXCEPT !.evalRound = m.round, !.evalFrom = {m.client}]
                 ELSE IF m.round = s.evalRound
                   THEN [s EXCEPT !.evalFrom = @ \cup {m.client}]
                 ELSE s
           s0 == [s1 EXCEPT !.evalFrom = {}]
           s2 == CheckAndSave(s0)
           s3 == [s2 EXCEPT !.finished = @ \/ s2.state >= TotalRounds]
           Same(t) == /\ t.idle = s.idle /\ t.fresh = s.fresh /\ t.staled = s.staled
                      /\ t.dropout = s.dropout /\ t.crash = s.crash /\ t.state = s.state
<1>1. s \in Server /\ m.client \in Clients /\ m.round \in Rounds
  BY DEF Fit, Message
<1>2. s1 \in Server /\ Same(s1)
  BY <1>1 DEF Server
<1>3. r = Result(IF s1.evalFrom # Clients THEN s1 ELSE s3, <<>>)
  BY DEF HandleMetrics
<1> HIDE DEF s1
<1>4. s0 \in Server /\ Same(s0)
  BY <1>2 DEF Server
<1> HIDE DEF s0
<1>5. s2.finished \/ s2 = s0
  <2>1. [s0 EXCEPT !.state = @ + 1, !.finished = TRUE].finished
    BY <1>4 DEF Server
  <2> QED  BY <2>1 DEF CheckAndSave
<1>6. s2.finished => s3.finished
  <2>1. CASE s0.state = TotalRounds
    <3>1. s2 = [s0 EXCEPT !.state = @ + 1, !.finished = TRUE]
      BY <2>1 DEF CheckAndSave
    <3>2. "finished" \in DOMAIN s2
      BY <1>4, <3>1 DEF Server
    <3> HIDE DEF s2
    <3> QED  BY <3>2
  <2>2. CASE s0.state # TotalRounds
    <3>1. s2 = s0
      BY <2>2 DEF CheckAndSave
    <3> HIDE DEF s2
    <3> QED  BY <1>4, <3>1 DEF Server
  <2> QED  BY <2>1, <2>2
<1>7. s2 = s0 => Same(s3)
  <2> HIDE DEF s2
  <2> QED  BY <1>4 DEF Server
<1> HIDE DEF s2, s3
<1>8. ~r.server.finished => Same(r.server) /\ r.queue = <<>>
  BY <1>2, <1>3, <1>5, <1>6, <1>7 DEF Result
<1>9. ASSUME NEW t, Same(t)
      PROVE  Tidy(t, <<>>, H) /\ (Counting(t) => Accounted(t, SampleNum))
  BY <1>9 DEF Tidy, Counting, Accounted, Busy
<1> HIDE DEF Same
<1> QED  BY <1>8, <1>9 DEF Kept

LEMMA ExpireTurns ==
  ASSUME NEW s, Fit(s, <<>>), ~s.finished, timeUp, NEW H, Tidy(s, <<>>, H),
         Counting(s) => Accounted(s, SampleNum), NEW r \in Expire(s, <<>>)
  PROVE  Kept(r, H, SampleNum)
<1> DEFINE t == [s EXCEPT !.time = s.deadline]
<1>1. r \in CheckAndMoveOn(t, <<>>)
  BY DEF Expire
<1>2. /\ t.finished = s.finished /\ t.crash = s.crash /\ t.dropout = s.dropout
      /\ t.fresh = s.fresh /\ t.staled = s.staled /\ t.idle = s.idle /\ t.state = s.state
  BY DEF Fit, Server
<1>3. Fit(t, <<>>)
  BY ExpiredFit
<1> HIDE DEF t
<1>4. Tidy(t, <<>>, H) /\ (Counting(t) => Accounted(t, SampleNum))
  BY <1>2 DEF Tidy, Counting, Accounted, Busy
<1> QED  BY <1>1, <1>2, <1>3, <1>4, CheckAndMoveOnTurns

-----------------------------------------------------------------------------
(* Turns and the runner's steps.                                           *)

TurnOf(m) == IF Turn(m) THEN {m.client} ELSE {}

LEMMA HeldAppend ==
  ASSUME NEW q \in Seq(Message), NEW m \in Message
  PROVE  /\ Held(Append(q, m)) = Held(q) \cup TurnOf(m)
         /\ Apart(q) /\ Held(q) \cap TurnOf(m) = {} => Apart(Append(q, m))
<1>1. PICK one \in Seq(Message) : one = <<m>>
  <2>1. <<m>> \in Seq(Message)
    OBVIOUS
  <2> QED  BY <2>1, Zenon
<1>2. Append(q, m) = q \o one
  BY <1>1
<1>3. DOMAIN one = {1} /\ one[1] = m
  BY <1>1
<1>4. Held(one) = TurnOf(m)
  <2>1. {k \in DOMAIN one : Turn(one[k])} = IF Turn(m) THEN {1} ELSE {}
    BY <1>3
  <2> QED  BY <1>3, <2>1 DEF Held, TurnOf
<1>5. Apart(one)
  BY <1>3 DEF Apart
<1>6. /\ Held(q \o one) = Held(q) \cup Held(one)
      /\ Apart(q) /\ Held(q) \cap Held(one) = {} => Apart(q \o one)
  BY <1>5, HeldConcat
<1> QED  BY <1>2, <1>4, <1>6

LEMMA HeldHead ==
  ASSUME NEW q \in Seq(Message), q # <<>>, Apart(q)
  PROVE  /\ Held(q) = Held(Tail(q)) \cup TurnOf(Head(q))
         /\ Held(Tail(q)) \cap TurnOf(Head(q)) = {}
         /\ Apart(Tail(q))
<1> DEFINE l == Tail(q)
<1>1. /\ DOMAIN q = 1 .. Len(q) /\ Len(q) \in Nat /\ 1 \in DOMAIN q
      /\ Head(q) = q[1] /\ DOMAIN l = 1 .. Len(q) - 1
      /\ \A i \in 1 .. Len(q) - 1 : l[i] = q[i + 1]
  OBVIOUS
<1> HIDE DEF l
<1>2. \A i \in DOMAIN l : i + 1 \in DOMAIN q /\ i + 1 # 1 /\ l[i] = q[i + 1]
  BY <1>1
<1>3. \A j \in DOMAIN q : j # 1 => j - 1 \in DOMAIN l /\ l[j - 1] = q[j]
  <2> SUFFICES ASSUME NEW j \in DOMAIN q, j # 1  PROVE j - 1 \in DOMAIN l /\ l[j - 1] = q[j]
    OBVIOUS
  <2>1. j - 1 \in 1 .. Len(q) - 1 /\ (j - 1) + 1 = j
    BY <1>1
  <2> QED  BY <1>1, <2>1
<1>4. Held(l) \subseteq Held(q)
  BY <1>2 DEF Held
<1>5. TurnOf(Head(q)) \subseteq Held(q)
  BY <1>1 DEF Held, TurnOf
<1>6. Held(q) \subseteq Held(l) \cup TurnOf(Head(q))
  BY <1>1, <1>3 DEF Held, TurnOf
<1>7. Held(l) \cap TurnOf(Head(q)) = {}
  BY <1>1, <1>2 DEF Held, TurnOf, Apart
<1>8. Apart(l)
  <2> SUFFICES ASSUME NEW i \in DOMAIN l, NEW j \in DOMAIN l,
                      Turn(l[i]), Turn(l[j]), l[i].client = l[j].client
               PROVE  i = j
    BY DEF Apart
  <2>1. i + 1 = j + 1
    BY <1>2 DEF Apart
  <2> QED  BY <1>1, <2>1
<1> QED  BY <1>4, <1>5, <1>6, <1>7, <1>8 DEF l

LEMMA HeldWithout ==
  ASSUME NEW c \in Seq(Message), NEW i \in DOMAIN c, Apart(c)
  PROVE  /\ Held(c) = Held(Without(c, i)) \cup TurnOf(c[i])
         /\ Held(Without(c, i)) \cap TurnOf(c[i]) = {}
         /\ Apart(Without(c, i))
<1> DEFINE l    == Without(c, i)
           k(j) == IF j < i THEN j ELSE j + 1
<1>1. /\ DOMAIN c = 1 .. Len(c) /\ Len(c) \in Nat /\ DOMAIN l = 1 .. Len(c) - 1
      /\ \A j \in DOMAIN l : l[j] = c[k(j)]
  BY WithoutAt, LenProperties
<1> HIDE DEF l
<1>2. \A j \in DOMAIN l : k(j) \in DOMAIN c /\ k(j) # i /\ l[j] = c[k(j)]
  BY <1>1
<1>3. \A j \in DOMAIN c : j # i => \E h \in DOMAIN l : l[h] = c[j]
  <2> SUFFICES ASSUME NEW j \in DOMAIN c, j # i  PROVE \E h \in DOMAIN l : l[h] = c[j]
    OBVIOUS
  <2>1. CASE j < i
    <3>1. j \in DOMAIN l /\ k(j) = j
      BY <1>1, <2>1
    <3> QED  BY <1>1, <3>1
  <2>2. CASE j > i
    <3>1. j - 1 \in DOMAIN l /\ k(j - 1) = j
      BY <1>1, <2>2
    <3> QED  BY <1>1, <3>1
  <2> QED  BY <1>1, <2>1, <2>2
<1>4. \A j, h \in DOMAIN l : k(j) = k(h) => j = h
  BY <1>1
<1> HIDE DEF k
<1>5. Held(l) \subseteq Held(c)
  BY <1>2 DEF Held
<1>6. TurnOf(c[i]) \subseteq Held(c)
  BY DEF Held, TurnOf
<1>7. Held(c) \subseteq Held(l) \cup TurnOf(c[i])
  BY <1>3 DEF Held, TurnOf
<1>8. Held(l) \cap TurnOf(c[i]) = {}
  BY <1>2 DEF Held, TurnOf, Apart
<1>9. Apart(l)
  BY <1>2, <1>4 DEF Apart
<1> QED  BY <1>5, <1>6, <1>7, <1>8, <1>9 DEF l

LEMMA InitTurns == Init => TInv
<1> SUFFICES ASSUME Init  PROVE TInv
  OBVIOUS
<1>1. /\ ~started /\ queue = <<>> /\ cache = <<>>
      /\ server.idle = Clients /\ server.dropout = 0 /\ server.crash = "none"
  BY DEF Init
<1>2. Answers(cache)
  BY <1>1 DEF Answers
<1> QED  BY <1>1, <1>2, InitHolds DEF TInv

\* At the start SampleNum workers are asked.
LEMMA StartTurns ==
  ASSUME TInv, Start
  PROVE  TInv'
<1> DEFINE d == IF timeUp THEN Budget ELSE server.deadline
           t == [server EXCEPT !.deadline = d]
<1>1. /\ started' /\ cache' = cache /\ afterReceiving' = afterReceiving
      /\ queue = <<>> /\ cache = <<>> /\ Answers(cache)
      /\ server.idle = Clients /\ server.dropout = 0 /\ server.crash = "none"
      /\ IInv /\ TypeOK /\ Idle /\ Fit(server, queue)
  BY DEF Start, IInv, TInv
<1>2. PICK r \in BroadcastModelPara(t, queue, SampleNum) :
        server' = r.server /\ queue' = r.queue
  <2>1. t = [server EXCEPT !.deadline = IF timeUp THEN Budget ELSE @]
    BY <1>1 DEF TypeOK, Server
  <2>2. \E r \in BroadcastModelPara(t, queue, SampleNum) :
          server' = r.server /\ queue' = r.queue
    BY <2>1 DEF Start
  <2> HIDE DEF t
  <2> QED  BY <2>2
<1>3. d \in Nat /\ (timeUp => server.time <= d)
  BY <1>1, SimulationAssumption DEF Idle, TypeOK, Server
<1>4. /\ Fit(t, queue) /\ t.idle = Clients /\ t.dropout = 0 /\ t.crash = "none"
      /\ t.fresh = {} /\ t.staled = {}
  <2>1. Fit(t, queue)
    <3> HIDE DEF d
    <3> QED  BY <1>1, <1>3, LaterDeadline DEF Idle
  <2> QED  BY <1>1, <2>1 DEF TypeOK, Server, Idle
<1> HIDE DEF t
<1>5. Tidy(t, queue, {})
  BY <1>1, <1>4, HeldEmpty DEF Tidy
<1>6. Held(cache) = {} /\ Apart(cache)
  BY <1>1, HeldEmpty
<1>7. SampleNum \in Nat /\ SampleNum <= Cardinality(t.idle) /\ Busy(t) = 0
  <2>1. SampleNum \in Nat /\ SampleNum <= Cardinality(Clients)
    BY <1>4, CountsAreNat
  <2>2. Clients \ Clients = {} /\ Cardinality({}) = 0
    BY FS_EmptySet
  <2> QED  BY <1>4, <2>1, <2>2 DEF Busy
<1>8. /\ Tidy(r.server, r.queue, {}) /\ Unasked(t, r.server)
      /\ r.server.crash = "none" /\ Busy(r.server) = SampleNum
  <2>1. /\ Tidy(r.server, r.queue, {}) /\ Unasked(t, r.server)
        /\ r.server.crash = "none" /\ Busy(r.server) = Busy(t) + SampleNum
    BY <1>2, <1>4, <1>5, <1>7, BroadcastTurns
  <2> QED  BY <1>7, <2>1
<1>9. Accounted(r.server, SampleNum)
  <2>1. r.server.fresh = {} /\ r.server.staled = {} /\ r.server.dropout = 0
    BY <1>4, <1>8 DEF Unasked
  <2>2. Cardinality({}) = 0 /\ SampleNum + 0 + 0 + 0 = SampleNum
    BY <1>7, FS_EmptySet
  <2> QED  BY <1>8, <2>1, <2>2 DEF Accounted
<1>10. Tidy(server', queue', Held(cache)) /\ Accounted(server', SampleNum)
  BY <1>2, <1>6, <1>8, <1>9
<1>11. Tidy(server, queue, Held(cache))' /\ Accounted(server, SampleNum)'
  BY <1>1, <1>10 DEF Tidy, Accounted
<1>12. IInv'
  BY <1>1, StartKeeps
<1> QED  BY <1>1, <1>6, <1>11, <1>12 DEF TInv

\* A worker's turn goes on with its update.
LEMMA RunClientTurns ==
  ASSUME TInv, RunClient
  PROVE  TInv'
<1> DEFINE m == Head(queue)
           s == Tail(queue)
<1>1. /\ started /\ started' /\ cache' = cache /\ server' = server
      /\ afterReceiving' = afterReceiving
      /\ queue # <<>> /\ queue \in Seq(Message) /\ IInv /\ Answers(cache)
  BY DEF RunClient, Running, TInv, IInv, TypeOK
<1>2. PICK reply \in Replies(m) : queue' = Append(s, reply)
  BY DEF RunClient
<1>3. m \in Message /\ s \in Seq(Message) /\ m.type \in {"model_para", "evaluate"}
  BY <1>1 DEF RunClient
<1>4. IInv'
  BY <1>1, RunClientKeeps
<1>5. TurnOf(reply) = TurnOf(m)
  <2>1. CASE m.type = "model_para"
    <3>1. reply \in {[m EXCEPT !.type = "update", !.at = @ + d] : d \in Cost[m.client]}
      BY <1>2, <2>1 DEF Replies
    <3> HIDE DEF m
    <3>2. reply.type = "update" /\ reply.client = m.client
      BY <1>3, <3>1 DEF Message
    <3> QED  BY <2>1, <3>2 DEF TurnOf, Turn
  <2>2. CASE m.type = "evaluate"
    <3>1. reply = [m EXCEPT !.type = "metrics"]
      BY <1>2, <2>2 DEF Replies
    <3> HIDE DEF m
    <3>2. reply.type = "metrics"
      BY <1>3, <3>1 DEF Message
    <3> QED  BY <2>2, <3>2 DEF TurnOf, Turn
  <2> QED  BY <1>3, <2>1, <2>2
<1>6. reply \in Message
  <2>1. queue' \in Seq(Message) /\ Len(s) + 1 \in DOMAIN queue' /\ queue'[Len(s) + 1] = reply
    <3>1. queue' \in Seq(Message)
      BY <1>4 DEF IInv, TypeOK
    <3>2. Len(s) \in Nat
      BY <1>3
    <3> HIDE DEF s, m
    <3>3. Len(Append(s, reply)) = Len(s) + 1 /\ Append(s, reply)[Len(s) + 1] = reply
      BY <1>3
    <3> QED  BY <1>2, <3>1, <3>2, <3>3, LenProperties
  <2> QED  BY <2>1, ElementOfSeq, LenProperties
<1> HIDE DEF m, s
<1>7. ASSUME ~server.finished
      PROVE  /\ Held(queue') = Held(queue) /\ Apart(queue')
             /\ Tidy(server, queue, Held(cache)) /\ Apart(cache)
             /\ Counting(server) => Accounted(server, SampleNum)
  <2>1. /\ Tidy(server, queue, Held(cache)) /\ Apart(cache) /\ Apart(queue)
        /\ Counting(server) => Accounted(server, SampleNum)
    BY <1>1, <1>7 DEF TInv, Tidy
  <2>2. /\ Held(queue) = Held(s) \cup TurnOf(m) /\ Held(s) \cap TurnOf(m) = {} /\ Apart(s)
    BY <1>1, <2>1, HeldHead DEF m, s
  <2>3. Held(queue') = Held(s) \cup TurnOf(m) /\ Apart(queue')
    BY <1>2, <1>3, <1>5, <1>6, <2>2, HeldAppend
  <2> QED  BY <2>1, <2>2, <2>3
<1>8. ASSUME ~server.finished
      PROVE  Tidy(server', queue', Held(cache'))
  BY <1>1, <1>7, <1>8 DEF Tidy
<1>9. (~server.finished)' => (Tidy(server, queue, Held(cache)))' /\ Apart(cache)'
                             /\ (Counting(server) => Accounted(server, SampleNum))'
  BY <1>1, <1>7, <1>8 DEF Tidy, Counting, Accounted
<1> QED  BY <1>1, <1>4, <1>9 DEF TInv

LEMMA PutAsideTurns ==
  ASSUME TInv, PutAside
  PROVE  TInv'
<1> DEFINE m == Head(queue)
           s == Tail(queue)
<1>1. /\ started /\ started' /\ server' = server /\ afterReceiving' = afterReceiving
      /\ queue # <<>> /\ queue \in Seq(Message) /\ cache \in Seq(Message)
      /\ IInv /\ Answers(cache)
      /\ queue' = s /\ cache' = Append(cache, m)
  BY DEF PutAside, Running, TInv, IInv, TypeOK
<1>2. m \in Message /\ s \in Seq(Message) /\ m.type \in {"update", "metrics"}
  BY <1>1 DEF PutAside
<1>3. IInv'
  BY <1>1, PutAsideKeeps
<1> HIDE DEF m
<1>4. Answers(cache')
  BY <1>1, <1>2, AppendOne DEF Answers
<1>5. ASSUME ~server.finished
      PROVE  /\ Tidy(server', queue', Held(cache')) /\ Apart(cache')
             /\ Counting(server) => Accounted(server, SampleNum)
  <2>1. /\ Tidy(server, queue, Held(cache)) /\ Apart(cache) /\ Apart(queue)
        /\ Counting(server) => Accounted(server, SampleNum)
        /\ Held(queue) \cap Held(cache) = {}
    BY <1>1, <1>5 DEF TInv, Tidy
  <2>2. /\ Held(queue) = Held(s) \cup TurnOf(m) /\ Held(s) \cap TurnOf(m) = {} /\ Apart(s)
    BY <1>1, <2>1, HeldHead DEF m
  <2>3. Held(cache') = Held(cache) \cup TurnOf(m) /\ Apart(cache')
    <3>1. Held(cache) \cap TurnOf(m) = {}
      BY <2>1, <2>2
    <3> QED  BY <1>1, <1>2, <2>1, <3>1, HeldAppend
  <2>4. /\ Held(s) \cap Held(cache') = {}
        /\ Held(s) \cup Held(cache') = Held(queue) \cup Held(cache)
    BY <2>1, <2>2, <2>3
  <2>5. Tidy(server', queue', Held(cache'))
    BY <1>1, <2>1, <2>2, <2>4 DEF Tidy
  <2> QED  BY <2>1, <2>3, <2>5
<1>6. (~server.finished)' => (Tidy(server, queue, Held(cache)))' /\ Apart(cache)'
                             /\ (Counting(server) => Accounted(server, SampleNum))'
  BY <1>1, <1>5 DEF Tidy, Counting, Accounted
<1> QED  BY <1>1, <1>3, <1>4, <1>6 DEF TInv

\* What is left to show of a step of the server.
LEMMA ServedTurns ==
  ASSUME IInv', started', afterReceiving' = afterReceiving, Answers(cache'),
         NEW r, server' = r.server, queue' = r.queue,
         ~server'.finished => Apart(cache'),
         Kept(r, Held(cache'), SampleNum)
  PROVE  TInv'
<1>1. ASSUME (~server.finished)'
      PROVE  Tidy(server, queue, Held(cache))' /\ Apart(cache)'
             /\ (Counting(server) => Accounted(server, SampleNum))'
  <2>1. ~r.server.finished
    BY <1>1
  <2>2. /\ Tidy(server', queue', Held(cache')) /\ Apart(cache')
        /\ Counting(server') => Accounted(server', SampleNum)
    BY <2>1 DEF Kept
  <2> QED  BY <2>2 DEF Tidy, Counting, Accounted
<1> QED  BY <1>1 DEF TInv

LEMMA RunServerTurns ==
  ASSUME TInv, RunServer
  PROVE  TInv'
<1> DEFINE i == Earliest(cache)
           m == cache[i]
           l == Without(cache, i)
<1>1. /\ started /\ started' /\ afterReceiving' = afterReceiving
      /\ queue = <<>> /\ cache # <<>> /\ cache \in Seq(Message)
      /\ IInv /\ Answers(cache) /\ Fit(server, <<>>) /\ Ahead(server, cache)
      /\ TypeOK /\ server.time \in Nat /\ server.deadline \in Nat
  BY DEF RunServer, Running, TInv, IInv, TypeOK, Server
<1>2. i \in DOMAIN cache /\ \A j \in DOMAIN cache : cache[j].at >= m.at
  BY <1>1, EarliestIsFirst
<1>3. /\ m \in Message /\ m.at \in Nat /\ m.round <= TotalRounds
      /\ m.type \in {"update", "metrics"}
      /\ ~server.finished => m.at >= server.time
  <2>1. m \in Message
    BY <1>1, <1>2, ElementOfSeq, LenProperties
  <2> QED  BY <1>1, <1>2, <2>1 DEF Ahead, Answers, Message
<1>4. IF Expires(m.at)
        THEN (\E r \in Expire(server, <<>>) : server' = r.server /\ queue' = r.queue)
             /\ cache' = cache
        ELSE (\E r \in IF m.type = "update" THEN HandleUpdate(server, <<>>, m)
                                            ELSE HandleMetrics(server, <<>>, m) :
                server' = r.server /\ queue' = r.queue)
             /\ cache' = l
  BY <1>1 DEF RunServer
<1>5. IInv'
  BY <1>1, RunServerKeeps
<1> HIDE DEF m, i
<1>6. ~server.finished =>
        /\ Tidy(server, <<>>, Held(cache)) /\ Apart(cache)
        /\ Counting(server) => Accounted(server, SampleNum)
  BY <1>1 DEF TInv
<1>7. Answers(l)
  <2>1. \A j \in DOMAIN l : \E k \in DOMAIN cache : l[j] = cache[k]
    BY <1>1, <1>2, WithoutKeeps
  <2> HIDE DEF l
  <2> QED  BY <1>1, <2>1 DEF Answers
<1>8. ~server.finished =>
        /\ Held(cache) = Held(l) \cup TurnOf(m) /\ Held(l) \cap TurnOf(m) = {} /\ Apart(l)
  BY <1>1, <1>2, <1>6, HeldWithout DEF m
<1> HIDE DEF l
<1>9. CASE Expires(m.at)
  <2>1. PICK r \in Expire(server, <<>>) : server' = r.server /\ queue' = r.queue
    BY <1>4, <1>9
  <2>2. timeUp /\ ~server.finished /\ cache' = cache
    BY <1>4, <1>9 DEF Expires
  <2>3. Kept(r, Held(cache), SampleNum)
    BY <1>1, <1>6, <2>1, <2>2, ExpireTurns
  <2> QED  BY <1>1, <1>5, <1>6, <2>1, <2>2, <2>3, ServedTurns
<1>10. CASE ~Expires(m.at) /\ m.type = "update"
  <2>1. PICK r \in HandleUpdate(server, <<>>, m) : server' = r.server /\ queue' = r.queue
    BY <1>4, <1>10
  <2>2. cache' = l
    BY <1>4, <1>10
  <2>3. CASE server.finished
    <3>1. r.server.finished
      BY <2>1, <2>3 DEF HandleUpdate, Result
    <3>2. Kept(r, Held(cache'), SampleNum) /\ server'.finished
      BY <2>1, <3>1 DEF Kept
    <3> QED  BY <1>1, <1>5, <1>7, <2>1, <2>2, <3>2, ServedTurns
  <2>4. CASE ~server.finished
    <3>1. Timely(server, m)
      BY <1>1, <1>3, <1>10 DEF Timely, Expires
    <3>2. TurnOf(m) = {m.client}
      BY <1>10 DEF TurnOf, Turn
    <3>3. m.client \notin Held(l) /\ Tidy(server, <<>>, Held(l) \cup {m.client}) /\ Apart(l)
      BY <1>6, <1>8, <2>4, <3>2
    <3>4. Kept(r, Held(l), SampleNum)
      BY <1>1, <1>6, <2>1, <2>4, <3>1, <3>3, HandleUpdateTurns
    <3> QED  BY <1>1, <1>5, <1>7, <2>1, <2>2, <3>3, <3>4, ServedTurns
  <2> QED  BY <2>3, <2>4
<1>11. CASE ~Expires(m.at) /\ m.type # "update"
  <2>1. PICK r \in HandleMetrics(server, <<>>, m) : server' = r.server /\ queue' = r.queue
    BY <1>4, <1>11
  <2>2. cache' = l
    BY <1>4, <1>11
  <2>3. CASE server.finished
    <3>1. r.server.finished
      BY <1>1, <1>3, <2>1, <2>3, HandleMetricsGood
    <3>2. Kept(r, Held(cache'), SampleNum) /\ server'.finished
      BY <2>1, <3>1 DEF Kept
    <3> QED  BY <1>1, <1>5, <1>7, <2>1, <2>2, <3>2, ServedTurns
  <2>4. CASE ~server.finished
    <3>1. TurnOf(m) = {}
      BY <1>3, <1>11 DEF TurnOf, Turn
    <3>2. Tidy(server, <<>>, Held(l)) /\ Apart(l)
      BY <1>6, <1>8, <2>4, <3>1
    <3>3. Kept(r, Held(l), SampleNum)
      BY <1>1, <1>3, <1>6, <2>1, <2>4, <3>2, HandleMetricsTurns
    <3> QED  BY <1>1, <1>5, <1>7, <2>1, <2>2, <3>2, <3>3, ServedTurns
  <2> QED  BY <2>3, <2>4
<1> QED  BY <1>9, <1>10, <1>11

LEMMA RunIdleTurns ==
  ASSUME TInv, RunIdle
  PROVE  TInv'
<1>1. /\ started /\ started' /\ afterReceiving' = afterReceiving /\ cache' = cache
      /\ queue = <<>> /\ cache = <<>> /\ IInv /\ Fit(server, <<>>) /\ Answers(cache')
  BY DEF RunIdle, Running, TInv, IInv
<1>2. IInv'
  BY <1>1, RunIdleKeeps
<1>3. ~server.finished =>
        /\ Tidy(server, <<>>, Held(cache))
        /\ Counting(server) => Accounted(server, SampleNum)
  BY <1>1 DEF TInv
<1>4. Apart(cache')
  BY <1>1, HeldEmpty
<1>5. CASE timeUp /\ ~server.finished
  <2>1. PICK r \in Expire(server, <<>>) : server' = r.server /\ queue' = r.queue
    BY <1>1, <1>5 DEF RunIdle
  <2>2. Kept(r, Held(cache), SampleNum)
    BY <1>1, <1>3, <1>5, <2>1, ExpireTurns
  <2> QED  BY <1>1, <1>2, <1>4, <2>1, <2>2, ServedTurns
<1>6. CASE ~(timeUp /\ ~server.finished)
  <2> DEFINE r == Result(server, <<>>)
  <2>1. server' = r.server /\ queue' = r.queue
    BY <1>1, <1>6 DEF RunIdle, Result
  <2>2. Kept(r, Held(cache), SampleNum)
    BY <1>3 DEF Kept, Result
  <2> HIDE DEF r
  <2> QED  BY <1>1, <1>2, <1>4, <2>1, <2>2, ServedTurns
<1> QED  BY <1>5, <1>6

LEMMA StutterTurns ==
  ASSUME TInv, UNCHANGED vars
  PROVE  TInv'
<1>1. UNCHANGED <<timeUp, afterReceiving, started, server, queue, cache, over>>
  BY DEF vars
<1>2. IInv'
  BY StutterKeeps DEF TInv
<1> QED  BY <1>1, <1>2 DEF TInv, Tidy, Counting, Accounted

LEMMA NextTurns == TInv /\ [Next]_vars => TInv'
BY StartTurns, RunClientTurns, PutAsideTurns, RunServerTurns, RunIdleTurns, StutterTurns
   DEF Next

-----------------------------------------------------------------------------
(* Theorems about turns.                                                   *)

\* Every worker that is not idle has one turn, and the server's account of them is right.
THEOREM TurnsInvariant == Spec => []TInv
BY InitTurns, NextTurns, PTL DEF Spec

\* In a course that goes on, the workers that are not idle are exactly those with a model
\* or an update under way, and none has two of them: an update of a worker that is counted
\* twice, or asked again before it has answered, cannot happen.
OneTurnEach ==
  started /\ ~server.finished =>
    /\ Held(queue) \cup Held(cache) = Clients \ server.idle
    /\ Held(queue) \cap Held(cache) = {} /\ Apart(queue) /\ Apart(cache)

THEOREM BusyWorkersAnswerOnce == Spec => []OneTurnEach
<1>1. TInv => OneTurnEach
  BY DEF TInv, Tidy, OneTurnEach
<1> QED  BY <1>1, TurnsInvariant, PTL

\* Whatever training takes, whenever deadlines pass and however many updates are staled
\* or dropped, as many workers train, wait for an aggregation or for a replacement as
\* were sampled at first.
THEOREM TurnsAreConserved == Spec => []TurnsConserved
<1>1. TInv => TurnsConserved
  <2> SUFFICES ASSUME TInv, started, ~Overselection, ~server.finished,
                      server.state < TotalRounds
               PROVE  IF afterReceiving THEN Busy(server) = SampleNum
                      ELSE Busy(server) + Cardinality(server.fresh)
                             + Cardinality(server.staled) + server.dropout = SampleNum
    BY DEF TurnsConserved, Busy
  <2> QED  BY DEF TInv, Counting, Accounted
<1> QED  BY <1>1, TurnsInvariant, PTL
=============================================================================
