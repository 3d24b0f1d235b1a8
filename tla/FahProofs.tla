----------------------------- MODULE FahProofs ------------------------------
(***************************************************************************)
(* Theorems about FahCourse, whoever takes part.  A course is synchronous, *)
(* its statistics arrive before its updates, the ranks assigned are within *)
(* their caps and add up to what was asked for: the loops of the rank      *)
(* scheduler are followed turn by turn, by induction stated as the least   *)
(* element of a set of naturals.                                           *)
(***************************************************************************)
EXTENDS FahCourse, FiniteSetTheorems, WellFoundedInduction, TLAPS

\* Where a worker of the cohort can be in the round under way: it has the model, it has
\* answered, the server has its statistics, or its update too.
Asked(c) ==
  /\ \E m : toClient[c] = <<m>> /\ m.round = state
  /\ toServer[c] = <<>>
  /\ c \notin DOMAIN stats[state]
  /\ c \notin updates

Answered(c) ==
  /\ toClient[c] = <<>>
  /\ \E s : /\ toServer[c] = <<s, Update(state)>>
            /\ s.type = "fah_stats"
            /\ s.round = state
  /\ c \notin DOMAIN stats[state]
  /\ c \notin updates

Reported(c) ==
  /\ toClient[c] = <<>>
  /\ toServer[c] = <<Update(state)>>
  /\ c \in DOMAIN stats[state]
  /\ c \notin updates

Returned(c) ==
  /\ toClient[c] = <<>>
  /\ toServer[c] = <<>>
  /\ c \in DOMAIN stats[state]
  /\ c \in updates

Stage(c) == Asked(c) \/ Answered(c) \/ Reported(c) \/ Returned(c)

Idle(c) == toClient[c] = <<>> /\ toServer[c] = <<>>

\* Only the cohort has anything to do, and that while rounds are left.
Where(c) ==
  \/ c \in cohort /\ state < TotalRounds /\ Stage(c)
  \/ (c \notin cohort \/ state = TotalRounds) /\ Idle(c)

\* The statistics of a round are those of its cohort: all of them once it is over, and
\* none before it begins.
Attendance ==
  /\ DOMAIN stats = 0 .. TotalRounds - 1
  /\ \A r \in 0 .. TotalRounds - 1 :
       /\ DOMAIN stats[r] \in SUBSET Clients
       /\ r < state => Cardinality(DOMAIN stats[r]) = SampleNum
       /\ r = state => DOMAIN stats[r] \in SUBSET cohort
       /\ r > state => DOMAIN stats[r] = {}

Course ==
  /\ state \in 0 .. TotalRounds
  /\ cohort \in SUBSET Clients
  /\ updates \in SUBSET cohort
  /\ cohort # {} => Cardinality(cohort) = SampleNum
  /\ cohort = {} => state = 0
  /\ state = TotalRounds => updates = {}
  /\ DOMAIN toClient = Clients /\ DOMAIN toServer = Clients
  /\ Attendance
  /\ \A c \in Clients : Where(c)

\* The ranks are those of the warm-up: nobody is registered.
WarmupRanks ==
  /\ ~profiled
  /\ config = [c \in Clients |-> WarmupRank(c)]
  /\ assigned = [c \in Clients |-> Pair(c, Min({InitRank, Cap(c)}))]

\* The statistics of a round are processed when they are those of all workers, and
\* nothing else changes the ranks.
Processing ==
  /\ \A r \in 0 .. TotalRounds - 1 : DOMAIN stats[r] = Clients <=> r \in processed
  /\ processed \subseteq 0 .. TotalRounds - 1
  /\ processed = {} => WarmupRanks

IInv == Course /\ Processing

-----------------------------------------------------------------------------
(* Counting: the test of a number of workers is a test for all of them.    *)

LEMMA Numbers == N \in Nat \ {0} /\ SampleNum \in Nat \ {0} /\ SampleNum <= N
<1>1. N \in Nat \ {0}
  BY RanksAssumption, FS_CardinalityType, FS_EmptySet DEF N
<1> QED  BY <1>1, FahAssumption

\* As many of some workers as there are, are all of those.
LEMMA AllOf ==
  ASSUME NEW S \in SUBSET Clients, NEW T \in SUBSET S
  PROVE  /\ Cardinality(S) \in Nat /\ Cardinality(T) \in Nat
         /\ Cardinality(T) <= Cardinality(S)
         /\ Cardinality(T) >= Cardinality(S) => T = S
<1>1. IsFiniteSet(S)
  BY RanksAssumption, FS_Subset
<1>2. /\ Cardinality(S) \in Nat /\ IsFiniteSet(T)
      /\ Cardinality(T) <= Cardinality(S)
      /\ Cardinality(S) = Cardinality(T) => S = T
  BY <1>1, FS_Subset, FS_CardinalityType
<1>3. Cardinality(T) \in Nat
  BY <1>2, FS_CardinalityType
<1> QED  BY <1>2, <1>3

\* As many workers as there are, are all of them.
LEMMA AllOfThem ==
  ASSUME NEW S \in SUBSET Clients
  PROVE  /\ Cardinality(S) >= N => S = Clients
         /\ Cardinality(Clients) >= N
BY AllOf, Numbers DEF N

-----------------------------------------------------------------------------
(* The course: one lemma per action.                                       *)

\* A broadcast puts its cohort, and nobody else, at the beginning of the round.
LEMMA BroadcastReaches ==
  ASSUME NEW r, Broadcast(r), DOMAIN toClient = Clients,
         \A c \in Clients : toClient[c] = <<>>
  PROVE  /\ cohort' \in SUBSET Clients
         /\ cohort' # {}
         /\ Cardinality(cohort') = SampleNum
         /\ DOMAIN toClient' = Clients
         /\ \A c \in cohort' : \E m : toClient'[c] = <<m>> /\ m.round = r
         /\ \A c \in Clients \ cohort' : toClient'[c] = <<>>
<1>1. PICK S \in SUBSET Clients :
        /\ Cardinality(S) = SampleNum
        /\ cohort' = S
        /\ toClient' = [c \in Clients |->
             IF c \in S
               THEN Append(toClient[c], Model(r, RuntimeConfig(r)[c],
                                 IF assigned = None THEN None ELSE assigned[c]))
               ELSE toClient[c]]
  BY DEF Broadcast
<1>2. S # {}
  BY <1>1, Numbers, FS_EmptySet
<1>3. ASSUME NEW c \in S  PROVE \E m : toClient'[c] = <<m>> /\ m.round = r
  <2> DEFINE m == Model(r, RuntimeConfig(r)[c], IF assigned = None THEN None ELSE assigned[c])
  <2>1. toClient'[c] = Append(<<>>, m)
    BY <1>1
  <2>2. m.round = r
    BY DEF Model
  <2> HIDE DEF m
  <2>3. toClient'[c] = <<m>>
    BY <2>1
  <2> QED  BY <2>2, <2>3
<1>4. DOMAIN toClient' = Clients /\ \A c \in Clients \ S : toClient'[c] = <<>>
  BY <1>1
<1> QED  BY <1>1, <1>2, <1>3, <1>4

LEMMA StartStaysOnCourse ==
  ASSUME Course, Start
  PROVE  Course'
<1>1. cohort = {} /\ state = 0 /\ updates = {} /\ 0 \in 0 .. TotalRounds - 1
  BY FahAssumption DEF Start, Course
<1>2. UNCHANGED <<state, updates, toServer, stats>> /\ Broadcast(0)
  BY DEF Start
<1>3. \A c \in Clients : Idle(c)
  BY <1>1 DEF Course, Where
<1>4. /\ cohort' \in SUBSET Clients /\ cohort' # {} /\ Cardinality(cohort') = SampleNum
      /\ DOMAIN toClient' = Clients
      /\ \A c \in cohort' : \E m : toClient'[c] = <<m>> /\ m.round = 0
      /\ \A c \in Clients \ cohort' : toClient'[c] = <<>>
  BY <1>2, <1>3, BroadcastReaches DEF Course, Idle
<1>5. DOMAIN stats[0] = {}
  BY <1>1 DEF Course, Attendance
<1>6. ASSUME NEW c \in Clients  PROVE Where(c)'
  <2>1. toServer'[c] = <<>> /\ c \notin updates' /\ state' = 0 /\ state' < TotalRounds
    BY <1>1, <1>2, <1>3, FahAssumption DEF Idle
  <2>2. CASE c \in cohort'
    <3>1. Asked(c)'
      BY <1>2, <1>4, <1>5, <2>1, <2>2 DEF Asked
    <3> QED  BY <2>1, <2>2, <3>1 DEF Where, Stage
  <2>3. CASE c \notin cohort'
    BY <1>4, <2>1, <2>3 DEF Where, Idle
  <2> QED  BY <2>2, <2>3
<1>7. Attendance'
  BY <1>1, <1>2, <1>5 DEF Course, Attendance
<1> QED  BY <1>1, <1>2, <1>4, <1>6, <1>7, FahAssumption DEF Course

\* Who is not concerned stays where it is.
LEMMA ElsewhereStays ==
  ASSUME NEW c \in Clients, Where(c), state' = state, cohort' = cohort,
         toClient'[c] = toClient[c], toServer'[c] = toServer[c],
         c \in updates' <=> c \in updates,
         state < TotalRounds => (c \in DOMAIN stats'[state] <=> c \in DOMAIN stats[state])
  PROVE  Where(c)'
BY DEF Where, Stage, Idle, Asked, Answered, Reported, Returned

\* A worker with a model to read was asked for the round under way.
LEMMA WhoTrains ==
  ASSUME Course, NEW c \in Clients, toClient[c] # <<>>
  PROVE  c \in cohort /\ state < TotalRounds /\ Asked(c)
BY DEF Course, Where, Stage, Idle, Answered, Reported, Returned

\* Statistics that the server reads are of a worker that answered, an update is of one
\* whose statistics it has.
LEMMA WhoReports ==
  ASSUME Course, NEW c \in Clients, toServer[c] # <<>>
  PROVE  /\ c \in cohort /\ state \in 0 .. TotalRounds - 1
         /\ Answered(c) \/ Reported(c)
         /\ Head(toServer[c]).type = "fah_stats" => Answered(c)
         /\ Head(toServer[c]).type = "model_para" => Reported(c)
<1>1. c \in cohort /\ state < TotalRounds /\ (Answered(c) \/ Reported(c))
  BY DEF Course, Where, Stage, Idle, Asked, Returned
<1>2. state \in 0 .. TotalRounds - 1
  BY <1>1, FahAssumption DEF Course
<1>3. Answered(c) => Head(toServer[c]).type = "fah_stats"
  <2> SUFFICES ASSUME Answered(c)  PROVE Head(toServer[c]).type = "fah_stats"
    OBVIOUS
  <2>1. PICK s : toServer[c] = <<s, Update(state)>> /\ s.type = "fah_stats"
    BY DEF Answered
  <2>2. Head(toServer[c]) = s
    BY <2>1
  <2> QED  BY <2>1, <2>2
<1>4. Reported(c) => Head(toServer[c]).type = "model_para"
  BY DEF Reported, Update
<1> QED  BY <1>1, <1>2, <1>3, <1>4

LEMMA TrainStaysOnCourse ==
  ASSUME Course, NEW c \in Clients, Train(c)
  PROVE  Course'
<1>1. UNCHANGED <<state, cohort, updates, stats>> /\ toClient[c] # <<>>
  BY DEF Train, courseVars
<1>2. c \in cohort /\ state < TotalRounds /\ Asked(c)
  BY <1>1, WhoTrains
<1>3. PICK m : toClient[c] = <<m>> /\ m.round = state
  BY <1>2 DEF Asked
<1> DEFINE pair == IF m.pair = None THEN worker[c] ELSE m.pair
           s    == Stat(m.round, pair, m.config)
<1>4. Head(toClient[c]) = m /\ Tail(toClient[c]) = <<>>
  BY <1>3
<1>5. toClient' = [toClient EXCEPT ![c] = <<>>]
  BY <1>4 DEF Train
<1>6. toServer' = [toServer EXCEPT ![c] = @ \o <<s, Update(m.round)>>]
  BY <1>4 DEF Train
<1>7. s.type = "fah_stats" /\ s.round = m.round
  BY DEF Stat
<1> HIDE DEF s
<1>8. /\ toClient'[c] = <<>> /\ toServer'[c] = <<s, Update(state)>>
      /\ DOMAIN toClient' = Clients /\ DOMAIN toServer' = Clients
      /\ \A d \in Clients \ {c} : toClient'[d] = toClient[d] /\ toServer'[d] = toServer[d]
  BY <1>2, <1>3, <1>5, <1>6 DEF Course, Asked
<1>9. Answered(c)'
  BY <1>1, <1>2, <1>3, <1>7, <1>8 DEF Answered, Asked
<1>10. ASSUME NEW d \in Clients  PROVE Where(d)'
  <2>1. CASE d = c
    BY <1>1, <1>2, <1>9, <2>1 DEF Where, Stage
  <2>2. CASE d # c
    BY <1>1, <1>8, <2>2, ElsewhereStays DEF Course
  <2> QED  BY <2>1, <2>2
<1>11. Attendance'
  BY <1>1 DEF Course, Attendance
<1> QED  BY <1>1, <1>8, <1>10, <1>11 DEF Course

\* The statistics of a worker enter the buffer of the round under way.
LEMMA StatsEnter ==
  ASSUME Course, NEW c \in Clients, HandleStats(c)
  PROVE  /\ c \in cohort /\ state \in 0 .. TotalRounds - 1 /\ Answered(c)
         /\ \E s : /\ toServer[c] = <<s, Update(state)>>
                   /\ Head(toServer[c]) = s /\ s.type = "fah_stats" /\ s.round = state
                   /\ stats'[state][c] = s
         /\ toServer'[c] = <<Update(state)>> /\ DOMAIN toServer' = Clients
         /\ \A d \in Clients \ {c} : toServer'[d] = toServer[d]
         /\ DOMAIN stats' = DOMAIN stats
         /\ DOMAIN stats'[state] = DOMAIN stats[state] \cup {c}
         /\ \A d \in DOMAIN stats[state] : d # c => stats'[state][d] = stats[state][d]
         /\ \A r \in 0 .. TotalRounds - 1 : r # state => stats'[r] = stats[r]
         /\ UNCHANGED <<state, cohort, updates, toClient>>
<1>1. /\ UNCHANGED <<state, cohort, updates, toClient>>
      /\ toServer[c] # <<>>
      /\ Head(toServer[c]).type = "fah_stats"
      /\ toServer' = [toServer EXCEPT ![c] = Tail(@)]
  BY DEF HandleStats, courseVars, Read
<1>2. c \in cohort /\ state \in 0 .. TotalRounds - 1 /\ Answered(c)
  BY <1>1, WhoReports
<1>3. PICK s : toServer[c] = <<s, Update(state)>> /\ s.type = "fah_stats" /\ s.round = state
  BY <1>2 DEF Answered
<1>4. Head(toServer[c]) = s
  BY <1>3
<1>5. /\ toServer'[c] = <<Update(state)>> /\ DOMAIN toServer' = Clients
      /\ \A d \in Clients \ {c} : toServer'[d] = toServer[d]
  BY <1>1, <1>3 DEF Course
<1>6. stats' = [stats EXCEPT ![state] =
        [d \in DOMAIN @ \cup {c} |-> IF d = c THEN s ELSE @[d]]]
  BY <1>3, <1>4 DEF HandleStats
<1>7. /\ DOMAIN stats' = DOMAIN stats
      /\ DOMAIN stats'[state] = DOMAIN stats[state] \cup {c}
      /\ stats'[state][c] = s
      /\ \A d \in DOMAIN stats[state] : d # c => stats'[state][d] = stats[state][d]
      /\ \A r \in 0 .. TotalRounds - 1 : r # state => stats'[r] = stats[r]
  BY <1>2, <1>6 DEF Course, Attendance
<1> QED  BY <1>1, <1>2, <1>3, <1>4, <1>5, <1>7

LEMMA HandleStatsStaysOnCourse ==
  ASSUME Course, NEW c \in Clients, HandleStats(c)
  PROVE  Course'
<1>1. c \in cohort /\ state \in 0 .. TotalRounds - 1 /\ Answered(c)
  BY StatsEnter
<1>2. /\ toServer'[c] = <<Update(state)>> /\ DOMAIN toServer' = Clients
      /\ \A d \in Clients \ {c} : toServer'[d] = toServer[d]
      /\ UNCHANGED <<state, cohort, updates, toClient>>
  BY StatsEnter
<1>3. /\ DOMAIN stats' = DOMAIN stats
      /\ DOMAIN stats'[state] = DOMAIN stats[state] \cup {c}
      /\ \A r \in 0 .. TotalRounds - 1 : r # state => stats'[r] = stats[r]
  BY StatsEnter
<1>4. Reported(c)'
  BY <1>1, <1>2, <1>3 DEF Reported, Answered
<1>5. ASSUME NEW d \in Clients  PROVE Where(d)'
  <2>1. CASE d = c
    BY <1>1, <1>2, <1>4, <2>1, FahAssumption DEF Where, Stage
  <2>2. CASE d # c
    BY <1>2, <1>3, <2>2, ElsewhereStays DEF Course
  <2> QED  BY <2>1, <2>2
<1>6. Attendance'
  <2>1. ASSUME NEW r \in 0 .. TotalRounds - 1
        PROVE  /\ DOMAIN stats'[r] \in SUBSET Clients
               /\ r < state => Cardinality(DOMAIN stats'[r]) = SampleNum
               /\ r = state => DOMAIN stats'[r] \in SUBSET cohort
               /\ r > state => DOMAIN stats'[r] = {}
    <3>1. CASE r = state
      BY <1>1, <1>3, <3>1 DEF Course, Attendance
    <3>2. CASE r # state
      BY <1>3, <3>2 DEF Course, Attendance
    <3> QED  BY <3>1, <3>2
  <2> QED  BY <1>2, <1>3, <2>1 DEF Course, Attendance
<1> QED  BY <1>2, <1>5, <1>6 DEF Course

\* When the last update of a round is read, nothing else is under way, and the
\* statistics of the round are there.
LEMMA RoundLeavesNobody ==
  ASSUME Course, NEW c \in Clients, toServer[c] # <<>>,
         Head(toServer[c]).type = "model_para", RoundOver(updates \cup {c})
  PROVE  /\ updates \cup {c} = cohort
         /\ \A d \in Clients : toClient[d] = <<>> /\ (d # c => Idle(d))
         /\ DOMAIN stats[state] = cohort
<1>1. c \in cohort /\ state \in 0 .. TotalRounds - 1 /\ Reported(c)
  BY WhoReports
<1>2. updates \cup {c} \in SUBSET cohort /\ cohort \in SUBSET Clients
  BY <1>1 DEF Course
<1>3. Cardinality(cohort) = SampleNum /\ Cardinality(updates \cup {c}) >= SampleNum
  BY <1>1 DEF RoundOver, Course
<1>4. updates \cup {c} = cohort
  BY <1>2, <1>3, AllOf
<1>5. ASSUME NEW d \in Clients, d # c  PROVE Idle(d)
  BY <1>4, <1>5 DEF Course, Where, Stage, Idle, Asked, Answered, Reported, Returned
<1>6. ASSUME NEW d \in cohort  PROVE d \in DOMAIN stats[state]
  <2>1. CASE d = c
    BY <1>1, <2>1 DEF Reported
  <2>2. CASE d # c
    <3>1. d \in updates /\ d \in Clients
      BY <1>2, <1>4, <2>2
    <3>2. Stage(d)
      BY <1>1, <3>1, FahAssumption DEF Course, Where
    <3> QED  BY <3>1, <3>2 DEF Stage, Asked, Answered, Reported, Returned
  <2> QED  BY <2>1, <2>2
<1>7. DOMAIN stats[state] \in SUBSET cohort
  BY <1>1 DEF Course, Attendance
<1> QED  BY <1>1, <1>4, <1>5, <1>6, <1>7 DEF Idle, Reported

LEMMA HandleUpdateStaysOnCourse ==
  ASSUME Course, NEW c \in Clients, HandleUpdate(c)
  PROVE  Course'
<1>1. /\ UNCHANGED stats
      /\ toServer[c] # <<>>
      /\ Head(toServer[c]).type = "model_para"
      /\ toServer' = [toServer EXCEPT ![c] = Tail(@)]
  BY DEF HandleUpdate, Read
<1>2. c \in cohort /\ state \in 0 .. TotalRounds - 1 /\ Reported(c)
  BY <1>1, WhoReports
<1>3. /\ toServer'[c] = <<>> /\ toClient[c] = <<>>
      /\ DOMAIN toServer' = Clients
      /\ \A d \in Clients \ {c} : toServer'[d] = toServer[d]
  BY <1>1, <1>2 DEF Reported, Course
<1>4. state + 1 \in 0 .. TotalRounds /\ state # TotalRounds /\ state < TotalRounds
  BY <1>2, FahAssumption
<1>5. CASE ~RoundOver(updates \cup {c})
  <2>1. UNCHANGED <<state, cohort, toClient>> /\ updates' = updates \cup {c}
    BY <1>5 DEF HandleUpdate
  <2>2. Returned(c)'
    BY <1>1, <1>2, <1>3, <2>1 DEF Reported, Returned
  <2>3. ASSUME NEW d \in Clients  PROVE Where(d)'
    <3>1. CASE d = c
      BY <1>2, <1>4, <2>1, <2>2, <3>1 DEF Where, Stage
    <3>2. CASE d # c
      BY <1>1, <1>3, <2>1, <3>2, ElsewhereStays DEF Course
    <3> QED  BY <3>1, <3>2
  <2>4. Attendance'
    BY <1>1, <2>1 DEF Course, Attendance
  <2> QED  BY <1>2, <1>3, <1>4, <2>1, <2>3, <2>4 DEF Course
<1>6. CASE RoundOver(updates \cup {c})
  <2>1. state' = state + 1 /\ updates' = {}
    BY <1>6 DEF HandleUpdate
  <2>2. /\ \A d \in Clients : toClient[d] = <<>> /\ (d # c => Idle(d))
        /\ DOMAIN stats[state] = cohort
    BY <1>1, <1>6, RoundLeavesNobody
  <2>3. \A d \in Clients : toClient[d] = <<>> /\ toServer'[d] = <<>>
    BY <1>3, <2>2 DEF Idle
  <2>4. Cardinality(DOMAIN stats[state]) = SampleNum
    BY <1>2, <2>2 DEF Course
  <2>5. Attendance'
    <3>1. ASSUME NEW r \in 0 .. TotalRounds - 1
          PROVE  /\ r < state' => Cardinality(DOMAIN stats[r]) = SampleNum
                 /\ r >= state' => DOMAIN stats[r] = {}
      BY <1>2, <2>1, <2>4 DEF Course, Attendance
    <3>2. state' \in Int
      BY <1>2, <2>1
    <3> QED  BY <1>1, <3>1, <3>2 DEF Course, Attendance
  <2>6. CASE state' < TotalRounds
    <3>1. Broadcast(state')
      BY <1>6, <2>6 DEF HandleUpdate
    <3>2. /\ cohort' \in SUBSET Clients /\ cohort' # {} /\ Cardinality(cohort') = SampleNum
          /\ DOMAIN toClient' = Clients
          /\ \A d \in cohort' : \E m : toClient'[d] = <<m>> /\ m.round = state'
          /\ \A d \in Clients \ cohort' : toClient'[d] = <<>>
      BY <2>3, <3>1, BroadcastReaches DEF Course
    <3>3. DOMAIN stats[state'] = {}
      BY <1>2, <2>1, <2>6, FahAssumption DEF Course, Attendance
    <3>4. ASSUME NEW d \in Clients  PROVE Where(d)'
      <4>1. CASE d \in cohort'
        <5>1. Asked(d)'
          BY <1>1, <2>1, <2>3, <3>2, <3>3, <4>1 DEF Asked
        <5> QED  BY <2>6, <4>1, <5>1 DEF Where, Stage
      <4>2. CASE d \notin cohort'
        BY <2>3, <3>2, <4>2 DEF Where, Idle
      <4> QED  BY <4>1, <4>2
    <3> QED  BY <1>3, <1>4, <2>1, <2>5, <3>2, <3>4 DEF Course
  <2>7. CASE ~(state' < TotalRounds)
    <3>1. UNCHANGED <<cohort, toClient>>
      BY <1>6, <2>7 DEF HandleUpdate
    <3>2. state' = TotalRounds
      BY <1>2, <2>1, <2>7, FahAssumption
    <3>3. \A d \in Clients : Where(d)'
      BY <2>3, <3>1, <3>2 DEF Where, Idle
    <3> QED  BY <1>2, <1>3, <1>4, <2>1, <2>5, <3>1, <3>3 DEF Course
  <2> QED  BY <2>6, <2>7
<1> QED  BY <1>5, <1>6

LEMMA InitOnCourse == Init => Course
<1> SUFFICES ASSUME Init  PROVE Course
  OBVIOUS
<1>1. \A c \in Clients : Where(c)
  BY DEF Init, Where, Idle
<1>2. Attendance
  <2>1. DOMAIN stats = 0 .. TotalRounds - 1
        /\ \A r \in 0 .. TotalRounds - 1 : DOMAIN stats[r] = {}
    BY DEF Init
  <2>2. state = 0 /\ \A r \in 0 .. TotalRounds - 1 : ~(r < 0)
    BY FahAssumption DEF Init
  <2> QED  BY <2>1, <2>2 DEF Attendance
<1> QED  BY <1>1, <1>2, FahAssumption DEF Init, Course

LEMMA StaysOnCourse == Course /\ [Next]_vars => Course'
<1> SUFFICES ASSUME Course, [Next]_vars  PROVE Course'
  OBVIOUS
<1>1. CASE UNCHANGED vars
  <2>1. UNCHANGED <<state, cohort, updates, toClient, toServer, stats>>
    BY <1>1 DEF vars, courseVars
  <2>2. \A c \in Clients : Where(c)'
    BY <2>1, ElsewhereStays DEF Course
  <2> QED  BY <2>1, <2>2 DEF Course, Attendance
<1> QED  BY <1>1, StartStaysOnCourse, TrainStaysOnCourse, HandleStatsStaysOnCourse,
            HandleUpdateStaysOnCourse DEF Next, Ended

-----------------------------------------------------------------------------
(* What is processed.                                                      *)

LEMMA HandleStatsProcesses ==
  ASSUME IInv, NEW c \in Clients, HandleStats(c)
  PROVE  Processing'
<1>1. state \in 0 .. TotalRounds - 1
  BY StatsEnter DEF IInv
<1>2. /\ DOMAIN stats'[state] = DOMAIN stats[state] \cup {c}
      /\ \A r \in 0 .. TotalRounds - 1 : r # state => stats'[r] = stats[r]
  BY StatsEnter DEF IInv
<1>3. PICK s : Head(toServer[c]) = s /\ s.round = state
  BY StatsEnter DEF IInv
<1>4. DOMAIN stats'[state] \in SUBSET Clients
  BY <1>1, <1>2 DEF IInv, Course, Attendance
<1>5. CASE AllReported(state)
  <2>1. processed' = processed \cup {state}
    BY <1>3, <1>5 DEF HandleStats
  <2>2. DOMAIN stats'[state] = Clients
    BY <1>4, <1>5, AllOfThem DEF AllReported
  <2>3. ASSUME NEW r \in 0 .. TotalRounds - 1
        PROVE  DOMAIN stats'[r] = Clients <=> r \in processed'
    BY <1>2, <2>1, <2>2 DEF IInv, Processing
  <2> QED  BY <1>1, <2>1, <2>3 DEF IInv, Processing
<1>6. CASE ~AllReported(state)
  <2>1. UNCHANGED <<processed, profiled, config, assigned>>
    BY <1>3, <1>6 DEF HandleStats, rankVars
  <2>2. DOMAIN stats'[state] # Clients
    BY <1>6, AllOfThem DEF AllReported
  <2>3. state \notin processed
    <3>1. DOMAIN stats[state] # Clients
      BY <1>2, <2>2
    <3> QED  BY <1>1, <3>1 DEF IInv, Processing
  <2>4. ASSUME NEW r \in 0 .. TotalRounds - 1
        PROVE  DOMAIN stats'[r] = Clients <=> r \in processed'
    BY <1>2, <2>1, <2>2, <2>3 DEF IInv, Processing
  <2> QED  BY <2>1, <2>4 DEF IInv, Processing, WarmupRanks
<1> QED  BY <1>5, <1>6

LEMMA ElsewhereNoProcessing ==
  ASSUME Processing, UNCHANGED <<stats, processed, profiled, config, assigned>>
  PROVE  Processing'
BY DEF Processing, WarmupRanks

LEMMA IInvKept == IInv /\ [Next]_vars => IInv'
<1> SUFFICES ASSUME IInv, [Next]_vars  PROVE IInv'
  OBVIOUS
<1>1. Course'
  BY StaysOnCourse DEF IInv
<1>2. Processing'
  <2>1. CASE Start
    BY <2>1, ElsewhereNoProcessing DEF Start, rankVars, IInv
  <2>2. CASE \E c \in Clients : Train(c)
    BY <2>2, ElsewhereNoProcessing DEF Train, rankVars, IInv
  <2>3. CASE \E c \in Clients : HandleStats(c)
    BY <2>3, HandleStatsProcesses
  <2>4. CASE \E c \in Clients : HandleUpdate(c)
    BY <2>4, ElsewhereNoProcessing DEF HandleUpdate, rankVars, IInv
  <2>5. CASE UNCHANGED vars
    BY <2>5, ElsewhereNoProcessing DEF vars, rankVars, IInv
  <2> QED  BY <2>1, <2>2, <2>3, <2>4, <2>5 DEF Next, Ended
<1> QED  BY <1>1, <1>2 DEF IInv

\* Whoever takes part, and in whatever order the server reads its workers' messages: the
\* statistics of a round are those of its cohort, all of which are there when the round ends.
THEOREM StatisticsFirst == Spec => []IInv
<1>1. Init => IInv
  <2> SUFFICES ASSUME Init  PROVE IInv
    OBVIOUS
  <2>1. \A r \in 0 .. TotalRounds - 1 : DOMAIN stats[r] = {}
    BY DEF Init
  <2>2. processed = {} /\ WarmupRanks
    BY DEF Init, WarmupRanks
  <2>3. Processing
    BY <2>1, <2>2, RanksAssumption DEF Processing
  <2> QED  BY <2>3, InitOnCourse DEF IInv
<1> QED  BY <1>1, IInvKept, PTL DEF Spec

\* With full participation the ranks that travel with a model are always those
\* computed from the complete statistics of the round before.
THEOREM RanksInTime ==
  ASSUME SampleNum = N
  PROVE  Spec => []RanksReady
<1>1. ASSUME IInv  PROVE RanksReady
  <2> SUFFICES ASSUME NEW r \in 0 .. state - 1  PROVE r \in processed
    BY DEF RanksReady
  <2>1. r \in 0 .. TotalRounds - 1 /\ r < state
    BY <1>1, FahAssumption DEF IInv, Course
  <2>2. DOMAIN stats[r] \in SUBSET Clients /\ Cardinality(DOMAIN stats[r]) >= N
    BY <1>1, <2>1, Numbers DEF IInv, Course, Attendance
  <2>3. DOMAIN stats[r] = Clients
    BY <2>2, AllOfThem
  <2> QED  BY <1>1, <2>1, <2>3 DEF IInv, Processing
<1> QED  BY <1>1, StatisticsFirst, PTL

\* No round is processed, and models are cut to the ranks of the warm-up.
NeverAdapts == processed = {} /\ WarmupRanks

\* With less than full participation the scheduler never adapts a rank: a round has the
\* statistics of its cohort only, and the handler waits for those of all neighbours.
THEOREM PartialNeverAdapts ==
  ASSUME SampleNum < N
  PROVE  Spec => []NeverAdapts
<1>1. ASSUME IInv  PROVE NeverAdapts
  <2>1. ASSUME NEW r \in processed  PROVE FALSE
    <3>1. r \in 0 .. TotalRounds - 1 /\ DOMAIN stats[r] = Clients
      BY <1>1 DEF IInv, Processing
    <3>2. state \in 0 .. TotalRounds /\ TotalRounds \in Nat
      BY <1>1, FahAssumption DEF IInv, Course
    <3>3. CASE r < state
      BY <1>1, <3>1, <3>3, Numbers DEF IInv, Course, Attendance, N
    <3>4. CASE r = state
      <4>1. cohort = Clients /\ Clients # {}
        BY <1>1, <3>1, <3>4, RanksAssumption DEF IInv, Course, Attendance
      <4> QED  BY <1>1, <4>1, Numbers DEF IInv, Course, N
    <3>5. CASE r > state
      BY <1>1, <3>1, <3>5, RanksAssumption DEF IInv, Course, Attendance
    <3> QED  BY <3>1, <3>2, <3>3, <3>4, <3>5
  <2> QED  BY <1>1, <2>1 DEF IInv, Processing, NeverAdapts
<1> QED  BY <1>1, StatisticsFirst, PTL

-----------------------------------------------------------------------------
(* The refinement of SyncRounds.                                           *)

\* The workers whose update is out.
Out == {c \in Clients : toClient[c] # <<>> \/ Update(state) \in Range(toServer[c])}

\* While rounds are left, those are the ones of the cohort whose update is not buffered.
Awaited == IF state < TotalRounds THEN cohort \ updates ELSE {}

OutIs == Course => Out = Awaited

LEMMA WhoIsOut == OutIs
<1> SUFFICES ASSUME Course  PROVE Out = Awaited
  BY DEF OutIs
<1>1. \A x : Range(<<x>>) = {x}
  BY DEF Range
<1>2. \A x, y : Range(<<x, y>>) = {x, y}
  BY DEF Range
<1>3. Range(<<>>) = {}
  BY DEF Range
<1>4. ASSUME NEW c \in Clients, Stage(c)
      PROVE  (toClient[c] # <<>> \/ Update(state) \in Range(toServer[c])) <=> c \notin updates
  <2>1. CASE Asked(c)
    BY <2>1 DEF Asked
  <2>2. CASE Answered(c)
    BY <2>2, <1>2 DEF Answered
  <2>3. CASE Reported(c)
    BY <2>3, <1>1 DEF Reported
  <2>4. CASE Returned(c)
    BY <2>4, <1>3 DEF Returned
  <2> QED  BY <1>4, <2>1, <2>2, <2>3, <2>4 DEF Stage
<1>5. ASSUME NEW c \in Clients
      PROVE  c \in Out <=> c \in Awaited
  <2>1. CASE c \in cohort /\ state < TotalRounds /\ Stage(c)
    BY <1>4, <2>1 DEF Out, Awaited
  <2>2. CASE (c \notin cohort \/ state = TotalRounds) /\ Idle(c)
    BY <1>3, <2>2, FahAssumption DEF Out, Awaited, Idle
  <2> QED  BY <2>1, <2>2 DEF Course, Where
<1>6. Out \in SUBSET Clients /\ Awaited \in SUBSET Clients
  BY DEF Out, Awaited, Course
<1> QED  BY <1>5, <1>6

LEMMA WhoIsOutNext == OutIs'
BY WhoIsOut, PTL

\* The phase of the abstract course.
Phase == IF cohort = {} THEN "joining"
         ELSE IF state < TotalRounds THEN "training" ELSE "evaluating"

LEMMA RefinesInit == Init => Abstract!Init
<1> SUFFICES ASSUME Init  PROVE Abstract!Init
  OBVIOUS
<1>1. Out = {}
  BY DEF Init, Out, Range
<1> QED  BY <1>1 DEF Init, Out, Abstract!Init

\* The abstract specification counts as the course does.
LEMMA SameCount ==
  ASSUME NEW S
  PROVE  Abstract!Cardinality(S) = Cardinality(S)
BY DEF Abstract!Cardinality, Cardinality

\* At the beginning of a round its cohort is awaited, which is one of the abstract course.
LEMMA CohortIsAwaited ==
  ASSUME Course', cohort' # {}, updates' = {}, state' < TotalRounds
  PROVE  Out' \in Abstract!Cohorts
<1>1. Out' = cohort'
  BY WhoIsOutNext DEF OutIs, Awaited
<1>2. cohort' \in SUBSET Clients /\ Cardinality(cohort') = SampleNum
  BY DEF Course
<1> QED  BY <1>1, <1>2, SameCount DEF Abstract!Cohorts

LEMMA StartRefines ==
  ASSUME Course, Course', Start
  PROVE  Abstract!Start
<1>1. cohort = {} /\ state = 0 /\ state' = 0 /\ updates' = {} /\ Broadcast(0)
  BY DEF Start, Course
<1>2. cohort' # {}
  <2>1. \A c \in Clients : toClient[c] = <<>>
    BY <1>1 DEF Course, Where, Idle
  <2> QED  BY <1>1, <2>1, BroadcastReaches DEF Course
<1>3. Out' \in Abstract!Cohorts
  BY <1>1, <1>2, CohortIsAwaited, FahAssumption
<1>4. Phase = "joining" /\ Phase' = "training"
  BY <1>1, <1>2, FahAssumption DEF Phase
<1> QED  BY <1>1, <1>3, <1>4 DEF Abstract!Start, Out, Phase

LEMMA UpdateRefines ==
  ASSUME Course, Course', NEW c \in Clients, HandleUpdate(c)
  PROVE  Abstract!Return(c) \/ Abstract!EndRound
<1>1. /\ toServer[c] # <<>>
      /\ Head(toServer[c]).type = "model_para"
  BY DEF HandleUpdate
<1>2. c \in cohort /\ state \in 0 .. TotalRounds - 1 /\ Reported(c) /\ state < TotalRounds
  BY <1>1, WhoReports, FahAssumption
<1>3. Out = cohort \ updates /\ c \in Out
  BY <1>2, WhoIsOut DEF OutIs, Awaited, Reported
<1>4. Phase = "training"
  BY <1>2 DEF Phase
<1>5. CASE ~RoundOver(updates \cup {c})
  <2>1. UNCHANGED <<state, cohort>> /\ updates' = updates \cup {c}
    BY <1>5 DEF HandleUpdate
  <2>2. updates \cup {c} # cohort
    BY <1>2, <1>5, Numbers DEF RoundOver, Course
  <2>3. Out' = Out \ {c} /\ Out # {c}
    BY <1>2, <1>3, <2>1, <2>2, WhoIsOutNext DEF OutIs, Awaited, Course
  <2>4. Phase' = Phase
    BY <2>1 DEF Phase
  <2> QED  BY <1>3, <1>4, <2>1, <2>3, <2>4 DEF Abstract!Return, Out, Phase
<1>6. CASE RoundOver(updates \cup {c})
  <2>1. updates \cup {c} = cohort /\ \A d \in Clients : toClient[d] = <<>>
    BY <1>1, <1>6, RoundLeavesNobody
  <2>2. Abstract!Cardinality(Out) = 1
    <3>1. Out = {c}
      BY <1>3, <2>1
    <3> QED  BY <3>1, FS_Singleton, SameCount
  <2>3. updates' = {} /\ state' = state + 1
    BY <1>6 DEF HandleUpdate
  <2>4. CASE state' < TotalRounds
    <3>1. cohort' # {}
      BY <1>6, <2>1, <2>4, BroadcastReaches DEF HandleUpdate, Course
    <3>2. Out' \in Abstract!Cohorts
      BY <2>3, <2>4, <3>1, CohortIsAwaited
    <3>3. Phase' = Phase
      BY <1>4, <2>4, <3>1 DEF Phase
    <3>4. Abstract!EndRound
      BY <1>4, <2>2, <2>3, <2>4, <3>2, <3>3 DEF Abstract!EndRound, Out, Phase
    <3> QED  BY <3>4
  <2>5. CASE ~(state' < TotalRounds)
    <3>1. Out' = {}
      BY <2>5, WhoIsOutNext DEF OutIs, Awaited
    <3>2. Phase' = "evaluating"
      <4>1. cohort' = cohort
        BY <1>6, <2>5 DEF HandleUpdate
      <4> QED  BY <1>2, <2>5, <4>1 DEF Phase
    <3>3. Abstract!EndRound
      BY <1>4, <2>2, <2>3, <2>5, <3>1, <3>2 DEF Abstract!EndRound, Out, Phase
    <3> QED  BY <3>3
  <2> QED  BY <2>4, <2>5
<1> QED  BY <1>5, <1>6

\* What leaves the course alone, changes nothing the abstract course shows.
LEMMA OthersStutter ==
  ASSUME Course, Course', UNCHANGED <<state, cohort, updates>>
  PROVE  UNCHANGED Abstract!vars
<1>1. Out' = Out
  BY WhoIsOut, WhoIsOutNext DEF OutIs, Awaited
<1>2. Phase' = Phase
  BY DEF Phase
<1> QED  BY <1>1, <1>2 DEF Abstract!vars, Out, Phase

LEMMA RefinesStep ==
  ASSUME Course, Course', [Next]_vars
  PROVE  [Abstract!Next]_(Abstract!vars)
<1>1. CASE Start
  BY <1>1, StartRefines DEF Abstract!Next
<1>2. CASE \E c \in Clients : Train(c) \/ HandleStats(c)
  BY <1>2, OthersStutter DEF Train, HandleStats, courseVars
<1>3. CASE \E c \in Clients : HandleUpdate(c)
  BY <1>3, UpdateRefines DEF Abstract!Next
<1>4. CASE UNCHANGED vars
  BY <1>4, OthersStutter DEF vars, courseVars
<1> QED  BY <1>1, <1>2, <1>3, <1>4 DEF Next, Ended

\* Whoever takes part, a course that adapts its ranks is, seen without them, a
\* synchronous course: every worker of a cohort returns one update per round, and a
\* round ends with the last of them.
THEOREM CourseIsSynchronous == Spec => ImplementsSyncRounds
<1>1. Init => Abstract!Init
  BY RefinesInit
<1>2. IInv /\ IInv' /\ [Next]_vars => [Abstract!Next]_(Abstract!vars)
  BY RefinesStep DEF IInv
<1> QED  BY <1>1, <1>2, StatisticsFirst, PTL DEF Spec, ImplementsSyncRounds, Abstract!Spec

-----------------------------------------------------------------------------
(* The ranks that the statistics were measured at.                         *)

\* What is assigned, what the next models are cut to and what the scheduler takes for
\* the ranks of the workers are the same, once the workers are registered.
Known ==
  /\ profiled \in BOOLEAN
  /\ profiled =>
       /\ assigned = current /\ current # None
       /\ \A c \in Clients : current[c] # None /\ config[c] = current[c][1]

\* A worker is asked to train at the ranks the scheduler takes for its own.
AskedAsAssigned ==
  \A c \in Clients : \A i \in DOMAIN toClient[c] :
    toClient[c][i].round >= WarmupRounds /\ profiled =>
      /\ toClient[c][i].pair = current[c]
      /\ toClient[c][i].config = current[c][1]

MInv == Known /\ AskedAsAssigned /\ MeasuredAsAssigned

\* No statistics are pending that were not.
NoMorePending ==
  \A c \in Clients : \A m \in Pending(c)' : m \in Pending(c)

LEMMA StillMeasured ==
  ASSUME MeasuredAsAssigned, NoMorePending, UNCHANGED <<profiled, current>>
  PROVE  MeasuredAsAssigned'
BY DEF MeasuredAsAssigned, NoMorePending

\* A broadcast asks its cohort to train as assigned.
LEMMA BroadcastAsAssigned ==
  ASSUME NEW r \in Nat, Broadcast(r), Known, UNCHANGED <<profiled, current>>,
         \A c \in Clients : toClient[c] = <<>>
  PROVE  AskedAsAssigned'
<1> DEFINE m(c) == Model(r, RuntimeConfig(r)[c], IF assigned = None THEN None ELSE assigned[c])
<1>1. \A c \in Clients : toClient'[c] \in {<<>>, Append(<<>>, m(c))}
  BY DEF Broadcast
<1>2. ASSUME NEW c \in Clients, r >= WarmupRounds, profiled
      PROVE  m(c).pair = current[c] /\ m(c).config = current[c][1]
  <2>1. RuntimeConfig(r)[c] = config[c]
    BY <1>2, FahAssumption DEF RuntimeConfig
  <2> QED  BY <1>2, <2>1 DEF Known, Model
<1>3. \A c \in Clients : m(c).round = r
  BY DEF Model
<1> HIDE DEF m
<1>4. ASSUME NEW c \in Clients, NEW i \in DOMAIN toClient'[c]
      PROVE  toClient'[c][i] = m(c)
  BY <1>1
<1> QED  BY <1>2, <1>3, <1>4 DEF AskedAsAssigned

LEMMA StartMeasures ==
  ASSUME IInv, MInv, Start
  PROVE  MInv'
<1>1. /\ UNCHANGED <<toServer, stats, processed, profiled, current, assigned, config>>
      /\ Broadcast(0)
      /\ \A c \in Clients : toClient[c] = <<>>
  BY DEF Start, rankVars, IInv, Course, Where, Idle
<1>2. AskedAsAssigned'
  BY <1>1, BroadcastAsAssigned DEF MInv
<1>3. Known'
  BY <1>1 DEF MInv, Known
<1>4. MeasuredAsAssigned'
  BY <1>1, StillMeasured DEF MInv, NoMorePending, Pending
<1> QED  BY <1>2, <1>3, <1>4 DEF MInv

LEMMA TrainMeasures ==
  ASSUME IInv, MInv, NEW c \in Clients, Train(c)
  PROVE  MInv'
<1>1. /\ UNCHANGED <<state, cohort, updates, stats, processed>>
      /\ UNCHANGED <<profiled, current, assigned, config>>
      /\ toClient[c] # <<>>
  BY DEF Train, courseVars, rankVars
<1>2. Asked(c)
  BY <1>1, WhoTrains DEF IInv
<1>3. PICK m : toClient[c] = <<m>> /\ m.round = state
  BY <1>2 DEF Asked
<1> DEFINE pair == IF m.pair = None THEN worker[c] ELSE m.pair
           s    == Stat(m.round, pair, m.config)
<1>4. Head(toClient[c]) = m /\ toClient' = [toClient EXCEPT ![c] = <<>>]
  BY <1>3 DEF Train
<1>5. /\ toServer'[c] = <<s, Update(m.round)>>
      /\ \A d \in Clients \ {c} : toServer'[d] = toServer[d]
  <2>1. toServer' = [toServer EXCEPT ![c] = @ \o <<s, Update(m.round)>>]
    BY <1>4 DEF Train
  <2> HIDE DEF s
  <2> QED  BY <1>2, <2>1 DEF Asked, IInv, Course
<1>6. s.round >= WarmupRounds /\ profiled => s.pair = current[c] /\ s.trained = current[c][1]
  <2>1. s.round = m.round /\ s.pair = pair /\ s.trained = m.config
    BY DEF Stat
  <2>2. m.round >= WarmupRounds /\ profiled =>
          m.pair = current[c] /\ m.config = current[c][1] /\ current[c] # None
    BY <1>3 DEF MInv, AskedAsAssigned, Known
  <2> HIDE DEF s
  <2> QED  BY <2>1, <2>2
<1> HIDE DEF s
<1>7. AskedAsAssigned'
  <2>1. \A d \in Clients : toClient'[d] = <<>> \/ toClient'[d] = toClient[d]
    BY <1>4 DEF IInv, Course
  <2> QED  BY <1>1, <2>1 DEF MInv, AskedAsAssigned
<1>8. MeasuredAsAssigned'
  <2> SUFFICES ASSUME NEW d \in Clients, NEW x \in Pending(d)'
               PROVE  x \in Pending(d) \/ (d = c /\ x = s)
    BY <1>1, <1>6 DEF MInv, MeasuredAsAssigned
  <2>1. CASE d # c
    BY <1>1, <1>5, <2>1 DEF Pending
  <2>2. CASE d = c
    <3>1. DOMAIN toServer'[c] = {1, 2} /\ toServer'[c][1] = s
          /\ toServer'[c][2].type # "fah_stats"
      BY <1>5 DEF Update
    <3> QED  BY <1>1, <2>2, <3>1 DEF Pending
  <2> QED  BY <2>1, <2>2
<1>9. Known'
  BY <1>1 DEF MInv, Known
<1> QED  BY <1>7, <1>8, <1>9 DEF MInv

\* Processing a round assigns the ranks it computes to everybody.
LEMMA AssignKnown ==
  ASSUME Known, NEW known \in BOOLEAN, NEW average, Assign(known, average),
         known \/ ~profiled, profiled' \in BOOLEAN, profiled' => known
  PROVE  Known'
<1>1. CASE known
  <2>1. PICK ranks \in Plans[average] :
          /\ current' = [c \in Clients |-> Pair(c, ranks[c])]
          /\ assigned' = current'
          /\ config' = ranks
    BY <1>1 DEF Assign
  <2>2. \A c \in Clients : current'[c] = <<ranks[c], HatRank(c, ranks[c])>>
    BY <2>1 DEF Pair
  <2>3. current' # None
    <3>1. DOMAIN current' = Clients /\ Clients # {}
      BY <2>1, RanksAssumption
    <3> QED  BY <3>1 DEF None
  <2>4. \A c \in Clients : current'[c] # None /\ config'[c] = current'[c][1]
    BY <2>1, <2>2 DEF None
  <2> QED  BY <2>1, <2>3, <2>4 DEF Known
<1>2. CASE ~known
  BY <1>2 DEF Known
<1> QED  BY <1>1, <1>2

LEMMA ProcessingKnown ==
  ASSUME Known, NEW r, ProcessWarmup(r) \/ ProcessAdaptive
  PROVE  Known'
<1>1. CASE ProcessWarmup(r)
  <2>1. CASE r = WarmupRounds - 1
    BY <1>1, <2>1, AssignKnown DEF ProcessWarmup
  <2>2. CASE r # WarmupRounds - 1
    BY <1>1, <2>2 DEF ProcessWarmup, Known
  <2> QED  BY <2>1, <2>2
<1>2. CASE ProcessAdaptive
  <2>1. Assign(profiled, avg') /\ profiled' = profiled
    BY <1>2 DEF ProcessAdaptive
  <2>2. profiled \in BOOLEAN
    BY DEF Known
  <2> QED  BY <2>1, <2>2, AssignKnown
<1> QED  BY <1>1, <1>2

\* When the statistics of all workers are there, none are pending any more.
LEMMA AllReportedLeavesNothing ==
  ASSUME IInv, IInv', NEW c \in Clients, HandleStats(c), AllReported(state)
  PROVE  \A d \in Clients : toClient'[d] = <<>> /\ Pending(d)' = {}
<1>1. /\ c \in cohort /\ state \in 0 .. TotalRounds - 1 /\ Answered(c)
      /\ toServer'[c] = <<Update(state)>>
      /\ \A d \in Clients \ {c} : toServer'[d] = toServer[d]
      /\ UNCHANGED <<state, cohort, updates, toClient>>
      /\ DOMAIN stats'[state] = DOMAIN stats[state] \cup {c}
  BY StatsEnter DEF IInv
<1>2. /\ DOMAIN stats'[state] \in SUBSET Clients
      /\ DOMAIN stats'[state] \in SUBSET cohort
  BY <1>1 DEF IInv, Course, Attendance
<1>3. DOMAIN stats'[state] = Clients
  BY <1>2, AllOfThem DEF AllReported
<1>4. cohort = Clients /\ SampleNum = N
  BY <1>2, <1>3, RanksAssumption DEF IInv, Course, N
<1>5. ASSUME NEW d \in Clients
      PROVE  toClient'[d] = <<>> /\ toServer'[d] \in {<<>>, <<Update(state)>>}
  <2>1. CASE d = c
    BY <1>1, <2>1 DEF Answered
  <2>2. CASE d # c
    <3>1. d \in DOMAIN stats[state]
      BY <1>1, <1>3, <2>2
    <3>2. Reported(d) \/ Returned(d)
      BY <1>1, <1>4, <3>1, FahAssumption DEF IInv, Course, Where, Stage, Asked, Answered
    <3> QED  BY <1>1, <2>2, <3>2 DEF Reported, Returned
  <2> QED  BY <2>1, <2>2
<1>6. \A r \in 0 .. TotalRounds - 1 : DOMAIN stats'[r] # {} => r \in processed'
  <2> SUFFICES ASSUME NEW r \in 0 .. TotalRounds - 1, DOMAIN stats'[r] # {}
               PROVE  DOMAIN stats'[r] = Clients
    BY DEF IInv, Processing
  <2>1. DOMAIN stats'[r] \in SUBSET Clients /\ ~(r > state)
    BY <1>1 DEF IInv, Course, Attendance
  <2>2. CASE r = state
    BY <1>3, <2>2
  <2>3. CASE r < state
    <3>1. Cardinality(DOMAIN stats'[r]) = N
      BY <1>1, <1>4, <2>3 DEF IInv, Course, Attendance
    <3> QED  BY <2>1, <3>1, Numbers, AllOfThem
  <2> QED  BY <1>1, <2>1, <2>2, <2>3
<1>7. ASSUME NEW d \in Clients, NEW x \in Pending(d)'
      PROVE  FALSE
  <2>1. CASE \E i \in DOMAIN toServer'[d] : x = toServer'[d][i] /\ x.type = "fah_stats"
    BY <1>5, <2>1 DEF Update
  <2>2. CASE \E r \in DOMAIN stats' : d \in DOMAIN stats'[r] /\ r \notin processed'
    BY <1>6, <2>2 DEF IInv, Course, Attendance
  <2> QED  BY <2>1, <2>2 DEF Pending
<1> QED  BY <1>5, <1>7

LEMMA HandleStatsMeasures ==
  ASSUME IInv, IInv', MInv, NEW c \in Clients, HandleStats(c)
  PROVE  MInv'
<1>1. PICK s : /\ toServer[c] = <<s, Update(state)>>
               /\ Head(toServer[c]) = s /\ s.type = "fah_stats" /\ s.round = state
               /\ stats'[state][c] = s
  BY StatsEnter DEF IInv
<1>2. CASE ~AllReported(state)
  <2>1. UNCHANGED <<profiled, current, assigned, config, processed>>
    BY <1>1, <1>2 DEF HandleStats, rankVars
  <2>2. Known' /\ AskedAsAssigned'
    BY <2>1 DEF MInv, Known, AskedAsAssigned, HandleStats
  <2>3. NoMorePending
    <3> SUFFICES ASSUME NEW d \in Clients, NEW x \in Pending(d)'
                 PROVE  x \in Pending(d)
      BY DEF NoMorePending
    <3>1. CASE \E i \in DOMAIN toServer'[d] : x = toServer'[d][i] /\ x.type = "fah_stats"
      <4>1. /\ toServer'[c] = <<Update(state)>>
            /\ \A e \in Clients \ {c} : toServer'[e] = toServer[e]
        BY StatsEnter DEF IInv
      <4>2. d # c
        BY <3>1, <4>1 DEF Update
      <4> QED  BY <3>1, <4>1, <4>2 DEF Pending
    <3>2. CASE \E r \in DOMAIN stats' : d \in DOMAIN stats'[r] /\ r \notin processed' /\ x = stats'[r][d]
      <4>1. PICK r \in DOMAIN stats' : d \in DOMAIN stats'[r] /\ r \notin processed' /\ x = stats'[r][d]
        BY <3>2
      <4>2. CASE r = state /\ d = c
        <5>1. x = toServer[c][1] /\ 1 \in DOMAIN toServer[c] /\ x.type = "fah_stats"
          BY <1>1, <4>1, <4>2
        <5> QED  BY <4>2, <5>1 DEF Pending
      <4>3. CASE ~(r = state /\ d = c)
        <5>1. /\ DOMAIN stats' = DOMAIN stats /\ DOMAIN stats = 0 .. TotalRounds - 1
              /\ DOMAIN stats'[state] = DOMAIN stats[state] \cup {c}
              /\ \A e \in DOMAIN stats[state] : e # c => stats'[state][e] = stats[state][e]
              /\ \A q \in 0 .. TotalRounds - 1 : q # state => stats'[q] = stats[q]
          BY StatsEnter DEF IInv, Course, Attendance
        <5>2. /\ r \in DOMAIN stats /\ d \in DOMAIN stats[r] /\ r \notin processed
              /\ x = stats[r][d]
          BY <2>1, <4>1, <4>3, <5>1
        <5> QED  BY <5>2 DEF Pending
      <4> QED  BY <4>2, <4>3
    <3> QED  BY <3>1, <3>2 DEF Pending
  <2> QED  BY <2>1, <2>2, <2>3, StillMeasured DEF MInv
<1>3. CASE AllReported(state)
  <2>1. \A d \in Clients : toClient'[d] = <<>> /\ Pending(d)' = {}
    BY <1>3, AllReportedLeavesNothing
  <2>2. AskedAsAssigned' /\ MeasuredAsAssigned'
    BY <2>1 DEF AskedAsAssigned, MeasuredAsAssigned
  <2>3. Known'
    BY <1>1, <1>3, ProcessingKnown DEF HandleStats, MInv
  <2> QED  BY <2>2, <2>3 DEF MInv
<1> QED  BY <1>2, <1>3

LEMMA HandleUpdateMeasures ==
  ASSUME IInv, MInv, NEW c \in Clients, HandleUpdate(c)
  PROVE  MInv'
<1>1. /\ UNCHANGED <<stats, processed, profiled, current, assigned, config>>
      /\ toServer[c] # <<>>
      /\ Head(toServer[c]).type = "model_para"
      /\ toServer' = [toServer EXCEPT ![c] = Tail(@)]
  BY DEF HandleUpdate, Read, rankVars
<1>2. state \in 0 .. TotalRounds - 1 /\ Reported(c)
  BY <1>1, WhoReports DEF IInv
<1>3. toServer'[c] = <<>> /\ \A d \in Clients \ {c} : toServer'[d] = toServer[d]
  BY <1>1, <1>2 DEF Reported, IInv, Course
<1>4. Known' /\ MeasuredAsAssigned'
  <2>1. \A d \in Clients : \A x \in Pending(d)' : x \in Pending(d)
    BY <1>1, <1>3 DEF Pending
  <2> QED  BY <1>1, <2>1, StillMeasured DEF MInv, Known, NoMorePending
<1>5. AskedAsAssigned'
  <2>1. CASE UNCHANGED toClient
    BY <1>1, <2>1 DEF MInv, AskedAsAssigned
  <2>2. CASE ~UNCHANGED toClient
    <3>1. RoundOver(updates \cup {c}) /\ state' = state + 1 /\ Broadcast(state')
      BY <2>2 DEF HandleUpdate
    <3>2. state' \in Nat /\ \A d \in Clients : toClient[d] = <<>>
      BY <1>1, <1>2, <3>1, RoundLeavesNobody, FahAssumption DEF IInv
    <3> QED  BY <1>1, <3>1, <3>2, BroadcastAsAssigned DEF MInv
  <2> QED  BY <2>1, <2>2
<1> QED  BY <1>4, <1>5 DEF MInv

\* Whoever takes part, the scheduler judges the statistics of an adaptive round by the
\* ranks the workers trained at and measured their losses at.
THEOREM MeasuredAtItsRanks == Spec => []MeasuredAsAssigned
<1>1. Init => MInv
  <2> SUFFICES ASSUME Init  PROVE MInv
    OBVIOUS
  <2>1. profiled = FALSE
    BY DEF Init
  <2> QED  BY <2>1 DEF MInv, Known, AskedAsAssigned, MeasuredAsAssigned
<1>2. IInv /\ IInv' /\ MInv /\ [Next]_vars => MInv'
  <2> SUFFICES ASSUME IInv, IInv', MInv, [Next]_vars  PROVE MInv'
    OBVIOUS
  <2>1. CASE Start
    BY <2>1, StartMeasures
  <2>2. CASE \E c \in Clients : Train(c)
    BY <2>2, TrainMeasures
  <2>3. CASE \E c \in Clients : HandleStats(c)
    BY <2>3, HandleStatsMeasures
  <2>4. CASE \E c \in Clients : HandleUpdate(c)
    BY <2>4, HandleUpdateMeasures
  <2>5. CASE UNCHANGED vars
    <3>1. /\ UNCHANGED <<toClient, toServer, stats, processed>>
          /\ UNCHANGED <<profiled, current, assigned, config>>
      BY <2>5 DEF vars, courseVars, rankVars
    <3>2. Known' /\ AskedAsAssigned'
      BY <3>1 DEF MInv, Known, AskedAsAssigned
    <3>3. NoMorePending
      BY <3>1 DEF NoMorePending, Pending
    <3> QED  BY <3>1, <3>2, <3>3, StillMeasured DEF MInv
  <2> QED  BY <2>1, <2>2, <2>3, <2>4, <2>5 DEF Next, Ended
<1>3. MInv => MeasuredAsAssigned
  BY DEF MInv
<1> QED  BY <1>1, <1>2, <1>3, StatisticsFirst, PTL DEF Spec

-----------------------------------------------------------------------------
(* Induction, as a statement about sets.                                   *)

\* A non-empty set of naturals has a least element.
LEMMA LeastNat ==
  ASSUME NEW T \in SUBSET Nat, T # {}
  PROVE  \E x \in T : \A y \in T : x <= y
<1>1. PICK x \in T : \A y \in T : <<y, x>> \notin OpToRel(<, Nat)
  BY NatLessThanWellFounded, WFMin
<1>2. \A y \in T : ~(y < x)
  BY <1>1 DEF OpToRel
<1> QED  BY <1>2

\* A set that has 0 and the successor of each of its members has all naturals.
LEMMA FromZeroUp ==
  ASSUME NEW T, 0 \in T, \A n \in Nat : n \in T => n + 1 \in T
  PROVE  \A n \in Nat : n \in T
<1> SUFFICES ASSUME {n \in Nat : n \notin T} # {}  PROVE FALSE
  OBVIOUS
<1>1. PICK x \in {n \in Nat : n \notin T} : \A y \in {n \in Nat : n \notin T} : x <= y
  BY LeastNat
<1>2. x - 1 \in Nat /\ x - 1 \notin {n \in Nat : n \notin T}
  BY <1>1
<1>3. (x - 1) + 1 \in T
  BY <1>2
<1> QED  BY <1>1, <1>2, <1>3

-----------------------------------------------------------------------------
(* Numbers.                                                                *)

LEMMA MaxOfTwo ==
  ASSUME NEW a \in Int, NEW b \in Int
  PROVE  Max({a, b}) = IF a >= b THEN a ELSE b
<1>1. \E x \in {a, b} : \A y \in {a, b} : x >= y
  OBVIOUS
<1>2. Max({a, b}) \in {a, b} /\ \A y \in {a, b} : Max({a, b}) >= y
  BY <1>1 DEF Max
<1> QED  BY <1>2

LEMMA MinOfTwo ==
  ASSUME NEW a \in Int, NEW b \in Int
  PROVE  Min({a, b}) = IF a <= b THEN a ELSE b
<1>1. \E x \in {a, b} : \A y \in {a, b} : x =< y
  OBVIOUS
<1>2. Min({a, b}) \in {a, b} /\ \A y \in {a, b} : Min({a, b}) =< y
  BY <1>1 DEF Min
<1> QED  BY <1>2

LEMMA ClampIs ==
  ASSUME NEW low \in Int, NEW high \in Int, NEW x \in Int, low <= high
  PROVE  /\ Clamp(low, high, x) \in low .. high
         /\ Clamp(low, high, x) = IF x < low THEN low ELSE IF x > high THEN high ELSE x
<1>1. Min({high, x}) = IF high <= x THEN high ELSE x
  BY MinOfTwo
<1>2. Min({high, x}) \in Int
  BY <1>1
<1>3. Max({low, Min({high, x})}) = IF low >= Min({high, x}) THEN low ELSE Min({high, x})
  BY <1>2, MaxOfTwo
<1> QED  BY <1>1, <1>2, <1>3 DEF Clamp

LEMMA Bounds ==
  /\ RMin \in Nat \ {0} /\ RMax \in Nat /\ RMin <= RMax
  /\ N \in Nat \ {0}
  /\ \A c \in Clients : Cap(c) \in RMin .. RMax
<1>1. RMin \in Nat \ {0} /\ RMax \in Nat /\ RMin <= RMax
  BY RanksAssumption
<1>2. N \in Nat \ {0}
  BY Numbers
<1>3. ASSUME NEW c \in Clients  PROVE Cap(c) \in RMin .. RMax
  <2>1. RankCap[c] \in Int
    BY RanksAssumption
  <2> QED  BY <1>1, <2>1, ClampIs DEF Cap
<1> QED  BY <1>1, <1>2, <1>3

-----------------------------------------------------------------------------
(* Sums.                                                                   *)

Chosen(s) == CHOOSE x \in s : TRUE

SumStep(f, it) ==
  [s \in SUBSET (DOMAIN f) |-> IF s = {} THEN 0 ELSE f[Chosen(s)] + it[s \ {Chosen(s)}]]

Sums(f) == CHOOSE it : it = SumStep(f, it)

LEMMA TotalIs == ASSUME NEW f PROVE Total(f) = Sums(f)[DOMAIN f]
BY DEF Total, SumFunction, SumFunctionOnSet, FoldFunctionOnSet, MapThenFoldSet, Sums,
       SumStep, Chosen

LEMMA ChosenIs ==
  ASSUME NEW s \in SUBSET Clients, s # {}
  PROVE  /\ Chosen(s) \in s
         /\ s \ {Chosen(s)} \in SUBSET Clients
         /\ Cardinality(s) \in Nat
         /\ Cardinality(s \ {Chosen(s)}) = Cardinality(s) - 1
<1>1. Chosen(s) \in s
  BY DEF Chosen
<1>2. IsFiniteSet(s)
  BY RanksAssumption, FS_Subset
<1> QED  BY <1>1, <1>2, FS_CardinalityType, FS_RemoveElement

\* A set of sets of workers has them all, when it has {} and each set of which it has
\* what is left without the one chosen first.
LEMMA OneByOne ==
  ASSUME NEW T, {} \in T,
         \A s \in SUBSET Clients : s # {} /\ s \ {Chosen(s)} \in T => s \in T
  PROVE  \A s \in SUBSET Clients : s \in T
<1> DEFINE K == {n \in Nat : \A s \in SUBSET Clients : Cardinality(s) = n => s \in T}
<1>1. 0 \in K
  <2> SUFFICES ASSUME NEW s \in SUBSET Clients, Cardinality(s) = 0  PROVE s = {}
    OBVIOUS
  <2> QED  BY RanksAssumption, FS_Subset, FS_EmptySet
<1>2. ASSUME NEW n \in Nat, n \in K  PROVE n + 1 \in K
  <2> SUFFICES ASSUME NEW s \in SUBSET Clients, Cardinality(s) = n + 1  PROVE s \in T
    OBVIOUS
  <2>1. s # {}
    BY FS_EmptySet
  <2>2. s \ {Chosen(s)} \in SUBSET Clients /\ Cardinality(s \ {Chosen(s)}) = n
    BY <2>1, ChosenIs
  <2> QED  BY <1>2, <2>1, <2>2
<1> HIDE DEF K
<1>3. \A n \in Nat : n \in K
  BY <1>1, <1>2, FromZeroUp
<1> SUFFICES ASSUME NEW s \in SUBSET Clients  PROVE s \in T
  OBVIOUS
<1>4. Cardinality(s) \in Nat
  BY RanksAssumption, FS_Subset, FS_CardinalityType
<1> QED  BY <1>3, <1>4 DEF K

\* The recursion of a sum has a solution: it is reached by applying it once for each worker.
LEMMA SumsExist ==
  ASSUME NEW f \in [Clients -> Int]
  PROVE  Sums(f) = SumStep(f, Sums(f))
<1> DEFINE Solves(it, n) == \A s \in SUBSET Clients :
                              Cardinality(s) < n => it[s] = SumStep(f, it)[s]
           K == {n \in Nat : \E it : Solves(it, n)}
<1>1. 0 \in K
  <2>1. \A s \in SUBSET Clients : Cardinality(s) \in Nat
    BY RanksAssumption, FS_Subset, FS_CardinalityType
  <2>2. \A it : Solves(it, 0)
    BY <2>1
  <2> HIDE DEF Solves
  <2> QED  BY <2>2
<1>2. ASSUME NEW n \in Nat, n \in K  PROVE n + 1 \in K
  <2>1. PICK it : Solves(it, n)
    BY <1>2
  <2> SUFFICES ASSUME NEW s \in SUBSET Clients, Cardinality(s) < n + 1
               PROVE  SumStep(f, it)[s] = SumStep(f, SumStep(f, it))[s]
    OBVIOUS
  <2>2. CASE s = {}
    BY <2>2 DEF SumStep
  <2>3. CASE s # {}
    <3>1. /\ s \ {Chosen(s)} \in SUBSET Clients
          /\ Cardinality(s \ {Chosen(s)}) < n
      BY <2>3, ChosenIs
    <3>2. it[s \ {Chosen(s)}] = SumStep(f, it)[s \ {Chosen(s)}]
      BY <2>1, <3>1
    <3>3. SumStep(f, it)[s] = f[Chosen(s)] + it[s \ {Chosen(s)}]
      BY <2>3 DEF SumStep
    <3>4. SumStep(f, SumStep(f, it))[s] = f[Chosen(s)] + SumStep(f, it)[s \ {Chosen(s)}]
      BY <2>3 DEF SumStep
    <3> QED  BY <3>2, <3>3, <3>4
  <2> QED  BY <2>2, <2>3
<1>3. N + 1 \in K
  <2> HIDE DEF K
  <2> QED  BY <1>1, <1>2, FromZeroUp, Bounds
<1>4. PICK it : Solves(it, N + 1)
  BY <1>3
<1>5. \A s \in SUBSET Clients : Cardinality(s) < N + 1
  BY RanksAssumption, FS_Subset, FS_CardinalityType DEF N
<1>6. SumStep(f, it) = SumStep(f, SumStep(f, it))
  <2> SUFFICES ASSUME NEW s \in SUBSET Clients
               PROVE  SumStep(f, it)[s] = SumStep(f, SumStep(f, it))[s]
    BY DEF SumStep
  <2>1. CASE s = {}
    BY <2>1 DEF SumStep
  <2>2. CASE s # {}
    <3>1. s \ {Chosen(s)} \in SUBSET Clients
      BY <2>2, ChosenIs
    <3>2. it[s \ {Chosen(s)}] = SumStep(f, it)[s \ {Chosen(s)}]
      BY <1>4, <1>5, <3>1
    <3>3. SumStep(f, it)[s] = f[Chosen(s)] + it[s \ {Chosen(s)}]
      BY <2>2 DEF SumStep
    <3>4. SumStep(f, SumStep(f, it))[s] = f[Chosen(s)] + SumStep(f, it)[s \ {Chosen(s)}]
      BY <2>2 DEF SumStep
    <3> QED  BY <3>2, <3>3, <3>4
  <2> QED  BY <2>1, <2>2
<1> QED  BY <1>6 DEF Sums

LEMMA SumsAre ==
  ASSUME NEW f \in [Clients -> Int]
  PROVE  /\ Sums(f)[{}] = 0
         /\ \A s \in SUBSET Clients : s # {} =>
              Sums(f)[s] = f[Chosen(s)] + Sums(f)[s \ {Chosen(s)}]
         /\ \A s \in SUBSET Clients : Sums(f)[s] \in Int
<1> DEFINE Sf == Sums(f)
<1>1. Sf = SumStep(f, Sf)
  BY SumsExist
<1> HIDE DEF Sf
<1>2. Sf[{}] = 0
  <2>1. SumStep(f, Sf)[{}] = 0
    BY DEF SumStep
  <2> QED  BY <1>1, <2>1
<1>3. ASSUME NEW s \in SUBSET Clients, s # {}
      PROVE  Sf[s] = f[Chosen(s)] + Sf[s \ {Chosen(s)}]
  <2>1. SumStep(f, Sf)[s] = f[Chosen(s)] + Sf[s \ {Chosen(s)}]
    BY <1>3 DEF SumStep
  <2> QED  BY <1>1, <2>1
<1> DEFINE T == {s \in SUBSET Clients : Sf[s] \in Int}
<1>4. {} \in T
  BY <1>2
<1>5. ASSUME NEW s \in SUBSET Clients, s # {}, s \ {Chosen(s)} \in T  PROVE s \in T
  <2>1. Chosen(s) \in Clients
    BY <1>5, ChosenIs
  <2>2. f[Chosen(s)] \in Int
    BY <2>1
  <2>3. Sf[s \ {Chosen(s)}] \in Int
    BY <1>5
  <2>4. Sf[s] = f[Chosen(s)] + Sf[s \ {Chosen(s)}]
    BY <1>3, <1>5
  <2> HIDE DEF Sf
  <2> QED  BY <2>2, <2>3, <2>4
<1> HIDE DEF T
<1>6. \A s \in SUBSET Clients : s \in T
  BY <1>4, <1>5, OneByOne
<1> QED  BY <1>2, <1>3, <1>6 DEF T, Sf

LEMMA TotalType ==
  ASSUME NEW f \in [Clients -> Int]
  PROVE  Total(f) \in Int
BY TotalIs, SumsAre

\* What holds of a multiple of each number holds of that of their sum.
LEMMA TotalMonotone ==
  ASSUME NEW f \in [Clients -> Int], NEW g \in [Clients -> Int], NEW k \in Nat,
         \A c \in Clients : k * f[c] <= g[c]
  PROVE  k * Total(f) <= Total(g)
<1> DEFINE T == {s \in SUBSET Clients : k * Sums(f)[s] <= Sums(g)[s]}
<1>1. {} \in T
  BY SumsAre
<1>2. ASSUME NEW s \in SUBSET Clients, s # {}, s \ {Chosen(s)} \in T  PROVE s \in T
  <2> DEFINE x == Chosen(s)
             p == Sums(f)[s \ {x}]
             q == Sums(g)[s \ {x}]
  <2>1. x \in Clients /\ s \ {x} \in SUBSET Clients
    BY <1>2, ChosenIs
  <2>2. p \in Int /\ q \in Int /\ k * p <= q
    BY <1>2, <2>1, SumsAre
  <2>3. Sums(f)[s] = f[x] + p /\ Sums(g)[s] = g[x] + q
    BY <1>2, SumsAre
  <2>4. f[x] \in Int /\ g[x] \in Int /\ k * f[x] <= g[x]
    BY <2>1
  <2> HIDE DEF x, p, q
  <2>5. k * (f[x] + p) = k * f[x] + k * p
    BY <2>2, <2>4
  <2>6. k * f[x] \in Int /\ k * p \in Int
    BY <2>2, <2>4
  <2>7. k * (f[x] + p) <= g[x] + q
    BY <2>2, <2>4, <2>5, <2>6
  <2> QED  BY <2>3, <2>7
<1> HIDE DEF T
<1>3. \A s \in SUBSET Clients : s \in T
  BY <1>1, <1>2, OneByOne
<1>4. Clients \in T
  BY <1>3
<1> QED  BY <1>4, TotalIs DEF T

\* Changing one number changes the sum by as much.
LEMMA TotalChange ==
  ASSUME NEW f \in [Clients -> Int], NEW d \in Clients, NEW u \in Int
  PROVE  Total([f EXCEPT ![d] = @ + u]) = Total(f) + u
<1> DEFINE g == [f EXCEPT ![d] = @ + u]
           T == {s \in SUBSET Clients : Sums(g)[s] = Sums(f)[s] + IF d \in s THEN u ELSE 0}
<1>0. /\ g \in [Clients -> Int] /\ g[d] = f[d] + u
      /\ \A c \in Clients : c # d => g[c] = f[c]
  OBVIOUS
<1> HIDE DEF g
<1>1. {} \in T
  BY <1>0, SumsAre
<1>2. ASSUME NEW s \in SUBSET Clients, s # {}, s \ {Chosen(s)} \in T  PROVE s \in T
  <2> DEFINE x == Chosen(s)
             p == Sums(f)[s \ {x}]
             q == Sums(g)[s \ {x}]
  <2>1. x \in s /\ x \in Clients /\ s \ {x} \in SUBSET Clients
    BY <1>2, ChosenIs
  <2>2. p \in Int /\ q = p + IF d \in s \ {x} THEN u ELSE 0
    BY <1>2, <2>1, SumsAre
  <2>3. Sums(f)[s] = f[x] + p /\ Sums(g)[s] = g[x] + q
    BY <1>0, <1>2, SumsAre
  <2> HIDE DEF x, p, q
  <2>4. CASE x = d
    BY <1>0, <2>1, <2>2, <2>3, <2>4
  <2>5. CASE x # d
    <3>1. d \in s \ {x} <=> d \in s
      BY <2>5
    <3>2. g[x] = f[x] /\ f[x] \in Int
      BY <1>0, <2>1, <2>5
    <3> QED  BY <2>2, <2>3, <3>1, <3>2
  <2> QED  BY <2>4, <2>5
<1> HIDE DEF T
<1>3. \A s \in SUBSET Clients : s \in T
  BY <1>1, <1>2, OneByOne
<1>4. Clients \in T
  BY <1>3
<1> QED  BY <1>0, <1>4, TotalIs DEF T, g

\* The sum of a constant.
LEMMA TotalConstant ==
  ASSUME NEW k \in Int
  PROVE  Total([c \in Clients |-> k]) = N * k
<1> DEFINE g == [c \in Clients |-> k]
           T == {s \in SUBSET Clients : Sums(g)[s] = Cardinality(s) * k}
<1>0. g \in [Clients -> Int] /\ DOMAIN g = Clients /\ \A c \in Clients : g[c] = k
  OBVIOUS
<1> HIDE DEF g
<1>1. {} \in T
  BY <1>0, SumsAre, FS_EmptySet
<1>2. ASSUME NEW s \in SUBSET Clients, s # {}, s \ {Chosen(s)} \in T  PROVE s \in T
  <2> DEFINE n == Cardinality(s)
  <2>1. /\ Chosen(s) \in Clients
        /\ n \in Nat /\ Cardinality(s \ {Chosen(s)}) = n - 1
    BY <1>2, ChosenIs
  <2>2. Sums(g)[s] = k + Sums(g)[s \ {Chosen(s)}]
    BY <1>0, <1>2, <2>1, SumsAre
  <2>3. Sums(g)[s \ {Chosen(s)}] = (n - 1) * k
    BY <1>2, <2>1
  <2> HIDE DEF n
  <2>4. (n - 1) * k = n * k - k /\ n * k \in Int
    BY <2>1
  <2>5. Sums(g)[s] = n * k
    BY <2>2, <2>3, <2>4
  <2> QED  BY <2>5 DEF n
<1> HIDE DEF T
<1>3. \A s \in SUBSET Clients : s \in T
  BY <1>1, <1>2, OneByOne
<1>4. Clients \in T
  BY <1>3
<1> QED  BY <1>0, <1>4, TotalIs DEF T, g, N

-----------------------------------------------------------------------------
(* Round robin.                                                            *)

\* The workers in an order, and all of them.
LEMMA OrderIs ==
  ASSUME NEW order \in Orders
  PROVE  /\ order \in [1 .. N -> Clients]
         /\ \A c \in Clients : \E k \in 1 .. N : order[k] = c
         /\ \A i, j \in 1 .. N : order[i] = order[j] => i = j
         /\ Len(order) = N
<1>1. /\ order \in [1 .. N -> Clients]
      /\ \A i, j \in 1 .. N : i # j => order[i] # order[j]
  BY DEF Orders, SetToSeqs, N
<1>2. order \in Injection(1 .. N, Clients)
  BY <1>1 DEF Injection, IsInjective
<1>3. IsFiniteSet(1 .. N) /\ Cardinality(1 .. N) = N
  BY Bounds, FS_Interval
<1>4. order \in Surjection(1 .. N, Clients)
  BY <1>2, <1>3, FS_Injection, RanksAssumption DEF N
<1>5. \A c \in Clients : \E k \in 1 .. N : order[k] = c
  BY <1>4 DEF Surjection
<1>6. Len(order) = N
  BY <1>1, Bounds
<1> QED  BY <1>1, <1>5, <1>6

LEMMA ReverseIs ==
  ASSUME NEW order \in Orders
  PROVE  Reverse(order) \in Orders
<1>1. /\ order \in [1 .. N -> Clients]
      /\ \A i, j \in 1 .. N : order[i] = order[j] => i = j
      /\ Len(order) = N
  BY OrderIs
<1>2. Reverse(order) = [i \in 1 .. N |-> order[(N - i) + 1]]
  BY <1>1 DEF Reverse
<1>3. \A i \in 1 .. N : (N - i) + 1 \in 1 .. N
  BY Bounds
<1>4. Reverse(order) \in [1 .. N -> Clients]
  BY <1>1, <1>2, <1>3
<1>5. ASSUME NEW i \in 1 .. N, NEW j \in 1 .. N, i # j
      PROVE  Reverse(order)[i] # Reverse(order)[j]
  <2>1. (N - i) + 1 # (N - j) + 1
    BY <1>5, Bounds
  <2> QED  BY <1>1, <1>2, <1>3, <2>1
<1> QED  BY <1>4, <1>5 DEF Orders, SetToSeqs, N

\* The place of turn number i.
Place(i) == ((i - 1) % N) + 1

LEMMA PlaceIs ==
  ASSUME NEW q \in Nat, NEW j \in 1 .. N
  PROVE  Place(q * N + j) = j
<1> DEFINE x == q * N + j - 1
           a == x \div N
           b == x % N
<1>1. N \in Nat \ {0} /\ q * N \in Nat
  BY Bounds
<1>2. x \in Nat
  BY <1>1
<1>3. a \in Nat /\ b \in 0 .. N - 1 /\ x = N * a + b
  <2> HIDE DEF x
  <2> QED  BY <1>1, <1>2
<1>4. x = q * N + (j - 1)
  BY <1>1
<1>5. b = j - 1
  <2> HIDE DEF x, a, b
  <2>1. CASE a = q
    <3>1. N * a = q * N
      BY <1>1, <2>1
    <3> QED  BY <1>1, <1>3, <1>4, <3>1
  <2>2. CASE a >= q + 1
    <3>1. N * a >= N * (q + 1)
      BY <1>1, <1>3, <2>2
    <3>2. N * (q + 1) = q * N + N
      BY <1>1
    <3>3. N * a \in Int
      BY <1>1, <1>3
    <3> QED  BY <1>1, <1>3, <1>4, <3>1, <3>2, <3>3
  <2>3. CASE a + 1 <= q
    <3>1. N * (a + 1) <= N * q
      BY <1>1, <1>3, <2>3
    <3>2. N * (a + 1) = N * a + N /\ N * q = q * N
      BY <1>1, <1>3
    <3>3. N * a \in Int
      BY <1>1, <1>3
    <3> QED  BY <1>1, <1>3, <1>4, <3>1, <3>2, <3>3
  <2> QED  BY <1>3, <2>1, <2>2, <2>3
<1>6. Place(q * N + j) = b + 1
  <2>1. \A y : Place(y) = ((y - 1) % N) + 1
    BY DEF Place
  <2>2. (q * N + j) - 1 = x
    BY <1>1
  <2> HIDE DEF x
  <2> QED  BY <2>1, <2>2
<1> HIDE DEF b
<1> QED  BY <1>1, <1>5, <1>6

-----------------------------------------------------------------------------
(* The loop of Shift, turn by turn.                                        *)

Turn(turn, unit, i, s) ==
  LET c == turn[((i - 1) % N) + 1]
  IN  IF s.diff # 0 /\ s.ranks[c] + unit \in RMin .. Cap(c)
        THEN [ranks |-> [s.ranks EXCEPT ![c] = @ + unit],
              diff  |-> s.diff - unit]
        ELSE s

TurnStep(turn, unit, ranks, diff, steps, it) ==
  [i \in 0 .. steps |->
     IF i = 0 THEN [ranks |-> ranks, diff |-> diff] ELSE Turn(turn, unit, i, it[i - 1])]

\* The ranks and what is left to hand out or to take back, after each turn.
After(turn, unit, ranks, diff, steps) ==
  CHOOSE it : it = TurnStep(turn, unit, ranks, diff, steps, it)

Unit(diff) == IF diff > 0 THEN 1 ELSE -1
InTurn(order, diff) == IF diff > 0 THEN order ELSE Reverse(order)

LEMMA ShiftIs ==
  ASSUME NEW order, NEW ranks, NEW diff, NEW steps
  PROVE  Shift(order, ranks, diff, steps) =
           After(InTurn(order, diff), Unit(diff), ranks, diff, steps)[steps].ranks
BY DEF Shift, After, TurnStep, Turn, Unit, InTurn

LEMMA AfterExists ==
  ASSUME NEW turn, NEW unit, NEW ranks, NEW diff, NEW steps \in Nat
  PROVE  After(turn, unit, ranks, diff, steps) =
           TurnStep(turn, unit, ranks, diff, steps, After(turn, unit, ranks, diff, steps))
<1> DEFINE F(it) == TurnStep(turn, unit, ranks, diff, steps, it)
           Solves(it, n) == \A i \in 0 .. steps : i < n => it[i] = F(it)[i]
           K == {n \in Nat : \E it : Solves(it, n)}
<1>0. ASSUME NEW it, NEW i \in 0 .. steps
      PROVE  F(it)[i] = IF i = 0 THEN [ranks |-> ranks, diff |-> diff]
                        ELSE Turn(turn, unit, i, it[i - 1])
  BY DEF TurnStep
<1>1. 0 \in K
  OBVIOUS
<1>2. ASSUME NEW it, NEW n \in Nat, Solves(it, n)
      PROVE  Solves(F(it), n + 1)
  <2> SUFFICES ASSUME NEW i \in 0 .. steps, i < n + 1  PROVE F(it)[i] = F(F(it))[i]
    OBVIOUS
  <2> HIDE DEF F
  <2>1. CASE i = 0
    BY <1>0, <2>1
  <2>2. CASE i # 0
    <3>1. i - 1 \in 0 .. steps /\ i - 1 < n
      BY <2>2
    <3>2. it[i - 1] = F(it)[i - 1]
      BY <1>2, <3>1
    <3> QED  BY <1>0, <2>2, <3>2
  <2> QED  BY <2>1, <2>2
<1>3. ASSUME NEW n \in Nat, n \in K  PROVE n + 1 \in K
  <2>1. PICK it : Solves(it, n)
    BY <1>3
  <2>2. Solves(F(it), n + 1)
    BY <1>2, <2>1
  <2> HIDE DEF F
  <2> QED  BY <2>2
<1>4. steps + 1 \in K
  <2> HIDE DEF K
  <2> QED  BY <1>1, <1>3, FromZeroUp
<1>5. PICK it : Solves(it, steps + 1)
  BY <1>4
<1>6. Solves(F(it), (steps + 1) + 1)
  BY <1>2, <1>5
<1>7. F(it) = F(F(it))
  <2>1. ASSUME NEW i \in 0 .. steps  PROVE F(it)[i] = F(F(it))[i]
    <3>1. i < (steps + 1) + 1
      OBVIOUS
    <3> HIDE DEF F
    <3> QED  BY <1>6, <3>1
  <2>2. \A g : F(g) = [i \in 0 .. steps |-> F(g)[i]]
    BY DEF TurnStep
  <2> HIDE DEF F
  <2>3. F(it) = [i \in 0 .. steps |-> F(it)[i]] /\ F(F(it)) = [i \in 0 .. steps |-> F(F(it))[i]]
    BY <2>2
  <2> QED  BY <2>1, <2>3
<1> HIDE DEF Solves, K
<1>8. \E g : g = F(g)
  <2> HIDE DEF F
  <2> QED  BY <1>7
<1> QED  BY <1>8 DEF After

\* A starts as told and each turn follows from the one before.
TurnByTurn(A, turn, unit, ranks, diff, steps) ==
  /\ A[0] = [ranks |-> ranks, diff |-> diff]
  /\ \A i \in 1 .. steps : A[i] = Turn(turn, unit, i, A[i - 1])

LEMMA AfterIs ==
  ASSUME NEW turn, NEW unit, NEW ranks, NEW diff, NEW steps \in Nat
  PROVE  TurnByTurn(After(turn, unit, ranks, diff, steps), turn, unit, ranks, diff, steps)
<1> DEFINE A == After(turn, unit, ranks, diff, steps)
<1>1. A = TurnStep(turn, unit, ranks, diff, steps, A)
  BY AfterExists
<1> HIDE DEF A
<1>2. TurnStep(turn, unit, ranks, diff, steps, A)[0] = [ranks |-> ranks, diff |-> diff]
  BY DEF TurnStep
<1>3. ASSUME NEW i \in 1 .. steps
      PROVE  TurnStep(turn, unit, ranks, diff, steps, A)[i] = Turn(turn, unit, i, A[i - 1])
  BY DEF TurnStep
<1>4. A[0] = [ranks |-> ranks, diff |-> diff]
  BY <1>1, <1>2
<1>5. \A i \in 1 .. steps : A[i] = Turn(turn, unit, i, A[i - 1])
  BY <1>1, <1>3
<1> QED  BY <1>4, <1>5 DEF TurnByTurn, A

\* Ranks that every worker can have.
Within(ranks) ==
  /\ ranks \in [Clients -> Int]
  /\ \A c \in Clients : ranks[c] \in RMin .. Cap(c)

\* What is left is never on the other side of zero.
Left(s, unit) ==
  /\ s.diff \in Int
  /\ IF unit = 1 THEN s.diff >= 0 ELSE s.diff <= 0

Sound(s, unit, target) ==
  /\ Within(s.ranks)
  /\ Left(s, unit)
  /\ Total(s.ranks) + s.diff = target

\* A is the loop in turns that starts with ranks and a difference that are fit.
Loop(A, turn, unit, steps, target) ==
  /\ turn \in Orders
  /\ unit \in {1, -1}
  /\ steps \in Nat
  /\ Sound(A[0], unit, target)
  /\ \A i \in 1 .. steps : A[i] = Turn(turn, unit, i, A[i - 1])

\* What a turn does to the worker whose turn it is.
Moved(c, rank, unit) == IF rank + unit \in RMin .. Cap(c) THEN rank + unit ELSE rank

\* One turn: the worker in turn moves within its range and the others stay, or nothing is
\* left and nothing moves.
LEMMA TurnIs ==
  ASSUME NEW turn \in Orders, NEW unit \in {1, -1}, NEW target \in Int,
         NEW s, Sound(s, unit, target), NEW i \in Nat, Place(i) \in 1 .. N
  PROVE  /\ Sound(Turn(turn, unit, i, s), unit, target)
         /\ s.diff = 0 => Turn(turn, unit, i, s) = s
         /\ s.diff # 0 =>
              /\ \A c \in Clients :
                   Turn(turn, unit, i, s).ranks[c] =
                     IF c = turn[Place(i)] THEN Moved(c, s.ranks[c], unit) ELSE s.ranks[c]
              /\ Turn(turn, unit, i, s) = s \/ Turn(turn, unit, i, s).diff = s.diff - unit
<1> DEFINE c == turn[Place(i)]
           t == Turn(turn, unit, i, s)
<1>1. c \in Clients
  BY OrderIs
<1>2. t = IF s.diff # 0 /\ s.ranks[c] + unit \in RMin .. Cap(c)
            THEN [ranks |-> [s.ranks EXCEPT ![c] = @ + unit], diff |-> s.diff - unit]
            ELSE s
  BY DEF Turn, Place
<1> HIDE DEF c, t
<1>3. s.ranks \in [Clients -> Int] /\ s.diff \in Int /\ Total(s.ranks) \in Int
  BY TotalType DEF Sound, Within, Left
<1>4. CASE s.diff # 0 /\ s.ranks[c] + unit \in RMin .. Cap(c)
  <2>1. t.ranks = [s.ranks EXCEPT ![c] = @ + unit] /\ t.diff = s.diff - unit
    BY <1>2, <1>4
  <2>2. t.ranks \in [Clients -> Int] /\ t.ranks[c] = s.ranks[c] + unit
        /\ \A d \in Clients : d # c => t.ranks[d] = s.ranks[d]
    BY <1>1, <1>3, <2>1
  <2>3. Within(t.ranks)
    BY <1>4, <2>2 DEF Sound, Within
  <2>4. Left(t, unit)
    BY <1>3, <1>4, <2>1 DEF Sound, Left
  <2>5. Total(t.ranks) = Total(s.ranks) + unit
    BY <1>1, <1>3, <2>1, TotalChange
  <2>6. Total(t.ranks) + t.diff = target
    BY <1>3, <2>1, <2>5 DEF Sound
  <2>7. \A d \in Clients : t.ranks[d] = IF d = c THEN Moved(d, s.ranks[d], unit) ELSE s.ranks[d]
    BY <1>4, <2>2 DEF Moved
  <2> QED  BY <1>4, <2>1, <2>3, <2>4, <2>6, <2>7 DEF Sound, t, c
<1>5. CASE ~(s.diff # 0 /\ s.ranks[c] + unit \in RMin .. Cap(c))
  <2>1. t = s
    BY <1>2, <1>5
  <2>2. s.diff # 0 =>
          \A d \in Clients :
            t.ranks[d] = IF d = c THEN Moved(d, s.ranks[d], unit) ELSE s.ranks[d]
    BY <1>5, <2>1 DEF Moved
  <2> QED  BY <2>1, <2>2 DEF t, c
<1> QED  BY <1>4, <1>5

\* Turn number i is some worker's.
LEMMA PlaceType ==
  ASSUME NEW i \in Nat \ {0}
  PROVE  Place(i) \in 1 .. N
<1>1. (i - 1) % N \in 0 .. N - 1
  BY Bounds
<1> QED  BY <1>1, Bounds DEF Place

\* The loop keeps ranks in their range and hands out what it takes from the difference.
LEMMA LoopSound ==
  ASSUME NEW A, NEW turn, NEW unit, NEW steps, NEW target \in Int,
         Loop(A, turn, unit, steps, target)
  PROVE  \A i \in 0 .. steps : Sound(A[i], unit, target)
<1> DEFINE T == {i \in Nat : i <= steps => Sound(A[i], unit, target)}
<1>1. 0 \in T
  BY DEF Loop
<1>2. ASSUME NEW n \in Nat, n \in T  PROVE n + 1 \in T
  <2> SUFFICES ASSUME n + 1 <= steps  PROVE Sound(A[n + 1], unit, target)
    OBVIOUS
  <2>1. n + 1 \in 1 .. steps /\ n <= steps /\ steps \in Nat
    BY DEF Loop
  <2>2. Sound(A[n], unit, target)
    BY <1>2, <2>1
  <2>3. A[n + 1] = Turn(turn, unit, n + 1, A[n])
    <3>1. (n + 1) - 1 = n
      OBVIOUS
    <3> QED  BY <2>1, <3>1 DEF Loop
  <2>4. Place(n + 1) \in 1 .. N
    BY PlaceType
  <2>5. turn \in Orders /\ unit \in {1, -1}
    BY DEF Loop
  <2> QED  BY <2>2, <2>3, <2>4, <2>5, TurnIs
<1> HIDE DEF T
<1>3. \A n \in Nat : n \in T
  BY <1>1, <1>2, FromZeroUp
<1>4. steps \in Nat
  BY DEF Loop
<1> QED  BY <1>3, <1>4 DEF T

\* Within cycle q, after j of its turns: unless nothing is left, the workers that had
\* their turn have moved and the others have not.
Halfway(A, turn, unit, q, j) ==
  A[q * N + j].diff # 0 =>
    /\ A[q * N].diff # 0
    /\ \A k \in 1 .. N :
         A[q * N + j].ranks[turn[k]] =
           IF k <= j THEN Moved(turn[k], A[q * N].ranks[turn[k]], unit)
                     ELSE A[q * N].ranks[turn[k]]

LEMMA CycleHalfway ==
  ASSUME NEW A, NEW turn, NEW unit, NEW steps, NEW target \in Int,
         Loop(A, turn, unit, steps, target),
         NEW q \in Nat, q * N + N <= steps,
         NEW j \in 0 .. N
  PROVE  Halfway(A, turn, unit, q, j)
<1> DEFINE T == {i \in Nat : i <= N => Halfway(A, turn, unit, q, i)}
<1>0. N \in Nat \ {0} /\ steps \in Nat /\ turn \in Orders /\ unit \in {1, -1} /\ q * N \in Nat
  BY Bounds DEF Loop
<1>1. 0 \in T
  <2>1. q * N + 0 = q * N
    BY <1>0
  <2>2. \A k \in 1 .. N : ~(k <= 0)
    BY <1>0
  <2> QED  BY <2>1, <2>2 DEF Halfway
<1>2. ASSUME NEW n \in Nat, n \in T  PROVE n + 1 \in T
  <2> SUFFICES ASSUME n + 1 <= N  PROVE Halfway(A, turn, unit, q, n + 1)
    OBVIOUS
  <2> DEFINE s == A[q * N + n]
             t == A[q * N + (n + 1)]
  <2>1. n + 1 \in 1 .. N /\ n <= N /\ Halfway(A, turn, unit, q, n)
    BY <1>0, <1>2
  <2>2. Place(q * N + (n + 1)) = n + 1
    BY <2>1, PlaceIs
  <2>3. t = Turn(turn, unit, q * N + (n + 1), s)
    <3>1. q * N + (n + 1) \in 1 .. steps /\ (q * N + (n + 1)) - 1 = q * N + n
      BY <1>0, <2>1
    <3> QED  BY <3>1 DEF Loop
  <2>4. Sound(s, unit, target)
    <3>1. q * N + n \in 0 .. steps
      BY <1>0, <2>1
    <3> QED  BY <3>1, LoopSound
  <2>5. q * N + (n + 1) \in Nat
    BY <1>0
  <2> SUFFICES ASSUME t.diff # 0
               PROVE  /\ A[q * N].diff # 0
                      /\ \A k \in 1 .. N :
                           t.ranks[turn[k]] =
                             IF k <= n + 1 THEN Moved(turn[k], A[q * N].ranks[turn[k]], unit)
                                           ELSE A[q * N].ranks[turn[k]]
    BY DEF Halfway
  <2> HIDE DEF s, t
  <2>6. s.diff # 0
    BY <1>0, <2>1, <2>2, <2>3, <2>4, <2>5, TurnIs
  <2>7. \A c \in Clients :
          t.ranks[c] = IF c = turn[n + 1] THEN Moved(c, s.ranks[c], unit) ELSE s.ranks[c]
    BY <1>0, <2>1, <2>2, <2>3, <2>4, <2>5, <2>6, TurnIs
  <2>8. /\ A[q * N].diff # 0
        /\ \A k \in 1 .. N :
             s.ranks[turn[k]] = IF k <= n THEN Moved(turn[k], A[q * N].ranks[turn[k]], unit)
                                         ELSE A[q * N].ranks[turn[k]]
    BY <2>1, <2>6 DEF Halfway, s
  <2>9. ASSUME NEW k \in 1 .. N
        PROVE  t.ranks[turn[k]] =
                 IF k <= n + 1 THEN Moved(turn[k], A[q * N].ranks[turn[k]], unit)
                               ELSE A[q * N].ranks[turn[k]]
    <3>1. turn[k] \in Clients /\ (turn[k] = turn[n + 1] <=> k = n + 1)
      <4>1. /\ turn \in [1 .. N -> Clients]
            /\ \A a, b \in 1 .. N : turn[a] = turn[b] => a = b
        BY <1>0, OrderIs
      <4> QED  BY <2>1, <4>1
    <3>2. CASE k = n + 1
      <4>1. s.ranks[turn[k]] = A[q * N].ranks[turn[k]]
        BY <2>8, <3>2
      <4> QED  BY <2>7, <3>1, <3>2, <4>1
    <3>3. CASE k # n + 1
      <4>1. k <= n + 1 <=> k <= n
        BY <3>3
      <4> QED  BY <2>7, <2>8, <3>1, <3>3, <4>1
    <3> QED  BY <3>2, <3>3
  <2> QED  BY <2>8, <2>9
<1> HIDE DEF T
<1>3. \A n \in Nat : n \in T
  BY <1>1, <1>2, FromZeroUp
<1> QED  BY <1>0, <1>3 DEF T

\* After a whole cycle everybody has moved, or nothing is left.
LEMMA CycleMoves ==
  ASSUME NEW A, NEW turn, NEW unit, NEW steps, NEW target \in Int,
         Loop(A, turn, unit, steps, target),
         NEW q \in Nat, q * N + N <= steps, A[q * N + N].diff # 0
  PROVE  /\ A[q * N].diff # 0
         /\ \A c \in Clients : A[q * N + N].ranks[c] = Moved(c, A[q * N].ranks[c], unit)
<1>1. N \in 0 .. N /\ turn \in Orders
  BY Bounds DEF Loop
<1>2. Halfway(A, turn, unit, q, N)
  BY <1>1, CycleHalfway
<1>3. ASSUME NEW c \in Clients
      PROVE  A[q * N + N].ranks[c] = Moved(c, A[q * N].ranks[c], unit)
  <2>1. PICK k \in 1 .. N : turn[k] = c
    BY <1>1, OrderIs
  <2>2. k <= N
    BY Bounds
  <2> QED  BY <1>2, <2>1, <2>2 DEF Halfway
<1> QED  BY <1>2, <1>3 DEF Halfway

-----------------------------------------------------------------------------
(* What Shift leaves of the difference.                                    *)

LEMMA ShiftLoops ==
  ASSUME NEW order \in Orders, NEW ranks, Within(ranks), NEW diff \in Int, NEW steps \in Nat
  PROVE  LET A == After(InTurn(order, diff), Unit(diff), ranks, diff, steps)
         IN  /\ A[0] = [ranks |-> ranks, diff |-> diff]
             /\ Loop(A, InTurn(order, diff), Unit(diff), steps, Total(ranks) + diff)
<1> DEFINE turn == InTurn(order, diff)
           unit == Unit(diff)
           A == After(turn, unit, ranks, diff, steps)
<1>0. TurnByTurn(A, turn, unit, ranks, diff, steps)
  BY AfterIs
<1> HIDE DEF A, turn, unit
<1>1. /\ A[0] = [ranks |-> ranks, diff |-> diff]
      /\ \A i \in 1 .. steps : A[i] = Turn(turn, unit, i, A[i - 1])
  BY <1>0 DEF TurnByTurn
<1>2. turn \in Orders
  BY ReverseIs DEF InTurn, turn
<1>3. unit \in {1, -1} /\ (unit = 1 <=> diff > 0)
  BY DEF Unit, unit
<1>4. A[0].ranks = ranks /\ A[0].diff = diff
  BY <1>1
<1>5. Sound(A[0], unit, Total(ranks) + diff)
  <2>1. Left(A[0], unit)
    BY <1>3, <1>4 DEF Left
  <2> QED  BY <1>4, <2>1 DEF Sound
<1>6. Loop(A, turn, unit, steps, Total(ranks) + diff)
  BY <1>1, <1>2, <1>3, <1>5 DEF Loop
<1> QED  BY <1>1, <1>6 DEF A, turn, unit

\* Where nothing is left, nothing moves.
LEMMA NothingLeft ==
  ASSUME NEW A, NEW turn, NEW unit, NEW steps, NEW target \in Int,
         Loop(A, turn, unit, steps, target), A[0].diff = 0
  PROVE  A[steps] = A[0]
<1> DEFINE T == {i \in Nat : i <= steps => A[i] = A[0]}
<1>1. 0 \in T
  OBVIOUS
<1>2. ASSUME NEW n \in Nat, n \in T  PROVE n + 1 \in T
  <2> SUFFICES ASSUME n + 1 <= steps  PROVE A[n + 1] = A[0]
    OBVIOUS
  <2>1. n + 1 \in 1 .. steps /\ n <= steps /\ steps \in Nat
    BY DEF Loop
  <2>2. A[n] = A[0] /\ Sound(A[0], unit, target)
    BY <1>2, <2>1 DEF Loop
  <2>3. A[n + 1] = Turn(turn, unit, n + 1, A[n])
    <3>1. (n + 1) - 1 = n
      OBVIOUS
    <3> QED  BY <2>1, <3>1 DEF Loop
  <2>4. Place(n + 1) \in 1 .. N
    BY PlaceType
  <2>5. turn \in Orders /\ unit \in {1, -1}
    BY DEF Loop
  <2>6. Turn(turn, unit, n + 1, A[0]) = A[0]
    BY <2>2, <2>4, <2>5, TurnIs
  <2> QED  BY <2>2, <2>3, <2>6
<1> HIDE DEF T
<1>3. \A n \in Nat : n \in T
  BY <1>1, <1>2, FromZeroUp
<1>4. steps \in Nat
  BY DEF Loop
<1> QED  BY <1>3, <1>4 DEF T

LEMMA MaxTotalType ==
  /\ MaxTotal \in Int
  /\ N * RMin \in Int
  /\ \A ranks : Within(ranks) => /\ Total(ranks) \in Int
                                 /\ N * RMin <= Total(ranks)
                                 /\ Total(ranks) <= MaxTotal
  /\ N * RMin <= MaxTotal
<1> DEFINE cap == [c \in Clients |-> Cap(c)]
           least == [c \in Clients |-> RMin]
<1>1. /\ cap \in [Clients -> Int] /\ least \in [Clients -> Int]
      /\ \A c \in Clients : cap[c] = Cap(c) /\ least[c] = RMin /\ RMin <= Cap(c)
  BY Bounds
<1>2. MaxTotal = Total(cap) /\ Total(least) = N * RMin
  BY Bounds, TotalConstant DEF MaxTotal
<1> HIDE DEF cap, least
<1>3. Total(cap) \in Int /\ Total(least) \in Int
  BY <1>1, TotalType
<1>4. ASSUME NEW f \in [Clients -> Int], NEW g \in [Clients -> Int],
             \A c \in Clients : f[c] <= g[c]
      PROVE  Total(f) <= Total(g)
  <2>1. \A c \in Clients : 1 * f[c] <= g[c]
    BY <1>4
  <2>2. 1 * Total(f) <= Total(g)
    BY <2>1, TotalMonotone
  <2> QED  BY <2>2, TotalType
<1>5. ASSUME NEW ranks, Within(ranks)
      PROVE  Total(ranks) \in Int /\ N * RMin <= Total(ranks) /\ Total(ranks) <= MaxTotal
  <2>1. ranks \in [Clients -> Int] /\ \A c \in Clients : RMin <= ranks[c] /\ ranks[c] <= Cap(c)
    BY <1>5 DEF Within
  <2>2. Total(ranks) \in Int
    BY <2>1, TotalType
  <2>3. Total(least) <= Total(ranks)
    BY <1>1, <1>4, <2>1
  <2>4. Total(ranks) <= Total(cap)
    BY <1>1, <1>4, <2>1
  <2> QED  BY <1>2, <2>2, <2>3, <2>4
<1>6. Total(least) <= Total(cap)
  BY <1>1, <1>4
<1> QED  BY <1>2, <1>3, <1>5, <1>6

\* A cycle in which something is left has handed out at least one.
LEMMA CycleGains ==
  ASSUME NEW A, NEW turn, NEW steps, NEW target \in Int, target <= MaxTotal,
         Loop(A, turn, 1, steps, target),
         NEW q \in Nat, q * N + N <= steps, A[q * N + N].diff # 0
  PROVE  A[q * N + N].diff <= A[q * N].diff - 1
<1> DEFINE s == A[q * N]
           t == A[q * N + N]
<1>1. s.diff # 0 /\ \A c \in Clients : t.ranks[c] = Moved(c, s.ranks[c], 1)
  BY CycleMoves
<1>2. q * N \in 0 .. steps /\ q * N + N \in 0 .. steps
  <2>1. q * N \in Nat /\ N \in Nat /\ steps \in Nat
    BY Bounds DEF Loop
  <2> QED  BY <2>1
<1>3. Sound(s, 1, target) /\ Sound(t, 1, target)
  BY <1>2, LoopSound
<1> HIDE DEF s, t
<1>4. /\ s.ranks \in [Clients -> Int] /\ t.ranks \in [Clients -> Int]
      /\ \A c \in Clients : s.ranks[c] \in RMin .. Cap(c)
      /\ s.diff \in Int /\ s.diff > 0 /\ t.diff \in Int
      /\ Total(s.ranks) + s.diff = target /\ Total(t.ranks) + t.diff = target
  BY <1>1, <1>3 DEF Sound, Within, Left
<1>5. Total(s.ranks) \in Int /\ Total(t.ranks) \in Int
  BY <1>4, TotalType
<1>6. PICK d \in Clients : s.ranks[d] # Cap(d)
  <2> SUFFICES ASSUME \A d \in Clients : s.ranks[d] = Cap(d)  PROVE FALSE
    OBVIOUS
  <2>1. s.ranks = [c \in Clients |-> Cap(c)]
    BY <1>4
  <2>2. Total(s.ranks) = MaxTotal
    BY <2>1 DEF MaxTotal
  <2> QED  BY <1>4, <1>5, <2>2
<1> DEFINE g == [s.ranks EXCEPT ![d] = @ + 1]
<1>7. Total(g) = Total(s.ranks) + 1
  BY <1>4, TotalChange
<1>8. \A c \in Clients : g[c] \in Int /\ t.ranks[c] \in Int /\ g[c] <= t.ranks[c]
  <2> SUFFICES ASSUME NEW c \in Clients  PROVE g[c] \in Int /\ g[c] <= Moved(c, s.ranks[c], 1)
    BY <1>1, <1>4
  <2>1. Cap(c) \in Int /\ RMin \in Int
    BY Bounds
  <2>2. CASE c = d
    <3>1. g[c] = s.ranks[c] + 1
      BY <1>4, <2>2
    <3>2. s.ranks[c] + 1 \in RMin .. Cap(c)
      BY <1>4, <1>6, <2>1, <2>2
    <3> QED  BY <1>4, <3>1, <3>2 DEF Moved
  <2>3. CASE c # d
    <3>1. g[c] = s.ranks[c]
      BY <1>4, <2>3
    <3> QED  BY <1>4, <3>1 DEF Moved
  <2> QED  BY <2>2, <2>3
<1>9. g \in [Clients -> Int]
  BY <1>4
<1> HIDE DEF g
<1>10. \A c \in Clients : 1 * g[c] <= t.ranks[c]
  BY <1>8
<1>11. 1 * Total(g) <= Total(t.ranks)
  BY <1>4, <1>9, <1>10, TotalMonotone
<1>12. t.diff <= s.diff - 1
  BY <1>4, <1>5, <1>7, <1>11
<1> QED  BY <1>12 DEF s, t

\* After as many cycles nothing is left, or as much has been handed out.
LEMMA CyclesGain ==
  ASSUME NEW A, NEW turn, NEW steps, NEW target \in Int, target <= MaxTotal,
         Loop(A, turn, 1, steps, target)
  PROVE  \A q \in Nat : q * N <= steps => A[q * N].diff = 0 \/ A[q * N].diff <= A[0].diff - q
<1> DEFINE T == {q \in Nat : q * N <= steps => A[q * N].diff = 0 \/ A[q * N].diff <= A[0].diff - q}
<1>0. N \in Nat \ {0} /\ steps \in Nat /\ A[0].diff \in Int
  BY Bounds DEF Loop, Sound, Left
<1>1. 0 \in T
  <2>1. 0 * N = 0
    BY <1>0
  <2>2. A[0].diff <= A[0].diff - 0
    BY <1>0
  <2> QED  BY <2>1, <2>2
<1>2. ASSUME NEW q \in Nat, q \in T  PROVE q + 1 \in T
  <2>1. (q + 1) * N = q * N + N /\ q * N \in Nat
    BY <1>0
  <2> SUFFICES ASSUME q * N + N <= steps, A[q * N + N].diff # 0
               PROVE  A[q * N + N].diff <= A[0].diff - (q + 1)
    BY <2>1
  <2>2. A[q * N].diff # 0
    BY CycleMoves
  <2>3. A[q * N].diff <= A[0].diff - q
    BY <1>0, <1>2, <2>1, <2>2
  <2>4. A[q * N + N].diff <= A[q * N].diff - 1
    BY CycleGains
  <2>5. A[q * N].diff \in Int /\ A[q * N + N].diff \in Int
    <3>1. q * N \in 0 .. steps /\ q * N + N \in 0 .. steps
      BY <1>0, <2>1
    <3> QED  BY <3>1, LoopSound DEF Sound, Left
  <2> QED  BY <1>0, <2>3, <2>4, <2>5
<1> HIDE DEF T
<1>3. \A n \in Nat : n \in T
  BY <1>1, <1>2, FromZeroUp
<1> QED  BY <1>3 DEF T

\* A deficit that the caps allow is handed out to the last unit.
LEMMA HandsOut ==
  ASSUME NEW order \in Orders, NEW ranks, Within(ranks),
         NEW target \in Int, Total(ranks) <= target, target <= MaxTotal
  PROVE  /\ Within(Shift(order, ranks, target - Total(ranks), AllTurns))
         /\ Total(Shift(order, ranks, target - Total(ranks), AllTurns)) = target
<1> DEFINE diff == target - Total(ranks)
           D == Max({1, MaxTotal - N * RMin})
           turn == InTurn(order, diff)
           unit == Unit(diff)
           A == After(turn, unit, ranks, diff, AllTurns)
<1>1. /\ MaxTotal \in Int /\ N * RMin \in Int /\ N \in Nat \ {0}
      /\ Total(ranks) \in Int /\ N * RMin <= Total(ranks)
  BY MaxTotalType, Bounds
<1>2. D \in Nat \ {0} /\ D >= MaxTotal - N * RMin
  <2>1. MaxTotal - N * RMin \in Int
    BY <1>1
  <2>2. D = IF 1 >= MaxTotal - N * RMin THEN 1 ELSE MaxTotal - N * RMin
    BY <2>1, MaxOfTwo
  <2> QED  BY <1>1, <2>2
<1>3. AllTurns = D * N
  BY DEF AllTurns
<1> HIDE DEF D
<1>4. AllTurns \in Nat /\ diff \in Int /\ diff >= 0 /\ diff <= D /\ Total(ranks) + diff = target
  BY <1>1, <1>2, <1>3
<1>5. A[0] = [ranks |-> ranks, diff |-> diff] /\ Loop(A, turn, unit, AllTurns, target)
  <2> HIDE DEF diff
  <2> QED  BY <1>4, ShiftLoops
<1>6. Shift(order, ranks, diff, AllTurns) = A[AllTurns].ranks
  <2> HIDE DEF diff
  <2> QED  BY ShiftIs
<1>7. unit = 1 <=> diff > 0
  <2> HIDE DEF diff
  <2> QED  BY DEF Unit
<1> HIDE DEF diff, turn, unit, A
<1>8. A[0].diff = diff
  BY <1>5
<1>9. Sound(A[AllTurns], unit, target)
  BY <1>4, <1>5, LoopSound
<1>10. A[AllTurns].diff = 0
  <2>1. CASE diff > 0
    <3>1. unit = 1
      BY <1>7, <2>1
    <3>2. D * N <= AllTurns
      BY <1>3, <1>4
    <3>3. A[D * N].diff = 0 \/ A[D * N].diff <= A[0].diff - D
      BY <1>2, <1>5, <3>1, <3>2, CyclesGain
    <3>4. A[AllTurns].diff = 0 \/ A[AllTurns].diff <= diff - D
      BY <1>3, <1>8, <3>3
    <3> QED  BY <1>2, <1>4, <1>9, <3>1, <3>4 DEF Sound, Left
  <2>2. CASE diff = 0
    BY <1>5, <1>8, <2>2, NothingLeft
  <2> QED  BY <1>4, <2>1, <2>2
<1>11. Within(A[AllTurns].ranks) /\ Total(A[AllTurns].ranks) = target
  BY <1>9, <1>10, TotalType DEF Sound, Within
<1> QED  BY <1>6, <1>11 DEF diff

-----------------------------------------------------------------------------
(* Rounding.                                                               *)

\* Half to even is at most one above the quotient.
LEMMA RoundIs ==
  ASSUME NEW a \in Int, NEW b \in Nat \ {0}
  PROVE  /\ a \div b \in Int
         /\ Round(a, b) \in {a \div b, a \div b + 1}
         /\ b * (a \div b) <= a
<1> DEFINE q == a \div b
           r == 2 * (a % b)
<1>1. q \in Int /\ a % b \in 0 .. b - 1 /\ a = b * q + (a % b)
  OBVIOUS
<1>2. Round(a, b) = IF r < b \/ (r = b /\ q % 2 = 0) THEN q ELSE q + 1
  BY DEF Round
<1>3. b * q <= a
  <2>1. b * q \in Int
    BY <1>1
  <2> HIDE DEF q
  <2> QED  BY <1>1, <2>1
<1> QED  BY <1>1, <1>2, <1>3

\* A clamped rank is in its worker's range.
LEMMA ClampCap ==
  ASSUME NEW c \in Clients, NEW x \in Int
  PROVE  /\ Clamp(RMin, Cap(c), x) \in RMin .. Cap(c)
         /\ Clamp(RMin, Cap(c), x) = IF x < RMin THEN RMin ELSE IF x > Cap(c) THEN Cap(c) ELSE x
<1>1. PICK k : k = Cap(c)
  OBVIOUS
<1>2. k \in Int /\ RMin \in Int /\ RMin <= k
  BY <1>1, Bounds
<1>3. /\ Clamp(RMin, k, x) \in RMin .. k
      /\ Clamp(RMin, k, x) = IF x < RMin THEN RMin ELSE IF x > k THEN k ELSE x
  BY <1>2, ClampIs
<1> QED  BY <1>1, <1>3

LEMMA RoundExact ==
  ASSUME NEW k \in Int, NEW b \in Nat \ {0}
  PROVE  Round(b * k, b) = k
<1> DEFINE a == b * k
           q == a \div b
           m == a % b
<1>1. a \in Int /\ q \in Int /\ m \in 0 .. b - 1 /\ a = b * q + m
  OBVIOUS
<1>2. q = k
  <2>1. a = b * k
    OBVIOUS
  <2> HIDE DEF q, m, a
  <2>2. CASE q >= k + 1
    <3>1. b * q >= b * (k + 1) /\ b * (k + 1) = b * k + b
      BY <1>1, <2>2
    <3>2. b * q \in Int /\ b * k \in Int
      BY <1>1
    <3> QED  BY <1>1, <2>1, <3>1, <3>2
  <2>3. CASE q + 1 <= k
    <3>1. b * (q + 1) <= b * k /\ b * (q + 1) = b * q + b
      BY <1>1, <2>3
    <3>2. b * q \in Int /\ b * k \in Int
      BY <1>1
    <3> QED  BY <1>1, <2>1, <3>1, <3>2
  <2> QED  BY <1>1, <2>2, <2>3
<1>3. m = 0
  <2> HIDE DEF q, m
  <2> QED  BY <1>1, <1>2
<1>4. Round(a, b) = IF 2 * m < b \/ (2 * m = b /\ q % 2 = 0) THEN q ELSE q + 1
  BY DEF Round
<1> HIDE DEF q, m
<1>5. Round(a, b) = q
  BY <1>3, <1>4
<1> QED  BY <1>2, <1>5 DEF a

-----------------------------------------------------------------------------
(* The optimizer's ranks.                                                  *)

\* Rounded to their ranges the solutions leave too much by so little that one cycle
\* takes it back.
LEMMA OneCycleTakesBack ==
  ASSUME NEW target \in Int, NEW x \in Solutions(target), NEW order \in Orders
  PROVE  LET near == [c \in Clients |-> Clamp(RMin, Cap(c), Round(x[c], Grain))]
             r == Shift(order, near, target - Total(near), N)
         IN  Within(r) /\ Total(r) <= target
<1> DEFINE near == [c \in Clients |-> Clamp(RMin, Cap(c), Round(x[c], Grain))]
           diff == target - Total(near)
           turn == InTurn(order, diff)
           unit == Unit(diff)
           A == After(turn, unit, near, diff, N)
<1>1. Grain \in Nat \ {0} /\ N \in Nat \ {0} /\ RMin \in Nat \ {0} /\ RMax \in Nat
  BY RanksAssumption, Bounds
<1>2. ASSUME NEW c \in Clients
      PROVE  /\ x[c] \in Int
             /\ Grain * RMin <= x[c]
             /\ near[c] \in RMin .. Cap(c)
             /\ Grain * Moved(c, near[c], -1) <= x[c]
  <2> DEFINE q == x[c] \div Grain
             R == Round(x[c], Grain)
  <2>1. x[c] \in Grain * RMin .. Grain * RMax
    BY DEF Solutions
  <2>2. Grain * RMin \in Int /\ x[c] \in Int /\ Grain * RMin <= x[c]
    BY <1>1, <2>1
  <2>3. q \in Int /\ R \in {q, q + 1} /\ Grain * q <= x[c]
    BY <1>1, <2>2, RoundIs
  <2>4. Cap(c) \in Int /\ RMin <= Cap(c)
    BY Bounds
  <2>5. near[c] = Clamp(RMin, Cap(c), R)
    OBVIOUS
  <2> HIDE DEF q, R, near
  <2>6. /\ near[c] \in RMin .. Cap(c)
        /\ near[c] = IF R < RMin THEN RMin ELSE IF R > Cap(c) THEN Cap(c) ELSE R
    BY <2>3, <2>5, ClampCap
  <2>7. Grain * Moved(c, near[c], -1) <= x[c]
    <3>1. CASE near[c] = RMin
      <4>1. Moved(c, near[c], -1) = RMin
        BY <1>1, <3>1 DEF Moved
      <4> QED  BY <2>2, <4>1
    <3>2. CASE near[c] # RMin
      <4>1. near[c] + (-1) \in RMin .. Cap(c) /\ near[c] + (-1) <= q
        BY <1>1, <2>3, <2>4, <2>6, <3>2
      <4>2. Moved(c, near[c], -1) = near[c] + (-1)
        BY <4>1 DEF Moved
      <4> DEFINE y == near[c] + (-1)
      <4>3. y \in Int /\ y <= q
        BY <4>1
      <4> HIDE DEF y
      <4>4. Grain * y <= Grain * q /\ Grain * y \in Int /\ Grain * q \in Int
        BY <1>1, <2>3, <4>3
      <4>5. Grain * y <= x[c]
        BY <2>2, <2>3, <4>4
      <4> QED  BY <4>2, <4>5 DEF y
    <3> QED  BY <3>1, <3>2
  <2> QED  BY <2>2, <2>6, <2>7
<1>3. Within(near)
  <2>1. near = [c \in Clients |-> near[c]]
    OBVIOUS
  <2> HIDE DEF near
  <2>2. \A c \in Clients : near[c] \in Int
    BY <1>2
  <2> QED  BY <1>2, <2>1, <2>2 DEF Within
<1>4. x \in [Clients -> Int] /\ Total(x) = Grain * target
  <2>1. DOMAIN x = Clients /\ x = [c \in Clients |-> x[c]]
    BY DEF Solutions
  <2>2. Total(x) = Grain * target
    BY DEF Solutions
  <2>3. x \in [Clients -> Int]
    BY <1>2, <2>1
  <2> QED  BY <2>2, <2>3
<1> HIDE DEF near
<1>5. Total(near) \in Int /\ diff \in Int /\ Total(near) + diff = target
  <2>1. Total(near) \in Int
    BY <1>3, TotalType DEF Within
  <2> QED  BY <2>1
<1>6. A[0] = [ranks |-> near, diff |-> diff] /\ Loop(A, turn, unit, N, target)
  <2> HIDE DEF diff
  <2> QED  BY <1>1, <1>3, <1>5, ShiftLoops
<1>7. Shift(order, near, diff, N) = A[N].ranks
  <2> HIDE DEF diff
  <2> QED  BY ShiftIs
<1>8. unit \in {1, -1}
  BY DEF Unit
<1> HIDE DEF diff, turn, unit, A
<1>9. Sound(A[N], unit, target)
  BY <1>1, <1>6, LoopSound
<1> DEFINE r == A[N].ranks
           left == A[N].diff
<1>10. /\ Within(r) /\ Total(r) \in Int /\ left \in Int /\ Total(r) + left = target
       /\ unit = 1 => left >= 0
       /\ unit # 1 => left <= 0
  BY <1>9, TotalType DEF Sound, Within, Left
<1> HIDE DEF r, left
<1>11. unit # 1 => left = 0
  <2> SUFFICES ASSUME unit = -1, left # 0  PROVE FALSE
    BY <1>8
  <2>1. 0 * N = 0 /\ 0 * N + N = N /\ N <= N
    BY <1>1
  <2>2. \A c \in Clients : A[0 * N + N].ranks[c] = Moved(c, A[0 * N].ranks[c], unit)
    <3>1. A[0 * N + N].diff # 0 /\ 0 * N + N <= N
      BY <2>1 DEF left
    <3> QED  BY <1>5, <1>6, <3>1, CycleMoves
  <2>3. \A c \in Clients : r[c] = Moved(c, near[c], -1)
    BY <1>6, <2>1, <2>2 DEF r
  <2>4. \A c \in Clients : Grain * r[c] <= x[c]
    BY <1>2, <2>3
  <2>5. Grain * Total(r) <= Grain * target
    <3>1. r \in [Clients -> Int]
      BY <1>10 DEF Within
    <3> QED  BY <1>1, <1>4, <2>4, <3>1, TotalMonotone
  <2>6. target + 1 <= Total(r)
    BY <1>10
  <2>7. Grain * (target + 1) <= Grain * Total(r) /\ Grain * (target + 1) = Grain * target + Grain
    BY <1>1, <1>10, <2>6
  <2>8. Grain * target \in Int /\ Grain * Total(r) \in Int
    BY <1>1, <1>10
  <2> QED  BY <1>1, <2>5, <2>7, <2>8
<1>12. Total(r) <= target
  BY <1>10, <1>11
<1>13. Within(A[N].ranks) /\ Total(A[N].ranks) <= target
  BY <1>10, <1>12 DEF r
<1> QED  BY <1>7, <1>13 DEF diff, near

-----------------------------------------------------------------------------
(* The ranks assigned.                                                     *)

LEMMA TargetIs ==
  ASSUME NEW average \in RMin .. RMax
  PROVE  /\ FeasibleTarget(average) = Min({N * average, MaxTotal})
         /\ FeasibleTarget(average) = IF N * average <= MaxTotal THEN N * average ELSE MaxTotal
         /\ FeasibleTarget(average) \in Int
         /\ FeasibleTarget(average) <= MaxTotal
<1>1. /\ N \in Nat \ {0} /\ RMin \in Nat /\ average \in Int /\ RMin <= average
      /\ MaxTotal \in Int /\ N * RMin \in Int /\ N * RMin <= MaxTotal
  BY Bounds, MaxTotalType
<1> DEFINE y == N * average
           z == N * RMin
<1>2. y \in Int /\ z <= y
  BY <1>1
<1>3. FeasibleTarget(average) = Clamp(z, MaxTotal, y)
  BY DEF FeasibleTarget
<1>4. Min({N * average, MaxTotal}) = Min({y, MaxTotal}) /\ z \in Int /\ z <= MaxTotal
  BY <1>1
<1> HIDE DEF y, z
<1>5. Clamp(z, MaxTotal, y) = IF y <= MaxTotal THEN y ELSE MaxTotal
  BY <1>1, <1>2, <1>4, ClampIs
<1>6. Min({y, MaxTotal}) = IF y <= MaxTotal THEN y ELSE MaxTotal
  BY <1>1, <1>2, MinOfTwo
<1> QED  BY <1>1, <1>2, <1>3, <1>4, <1>5, <1>6 DEF y

\* The heuristic starts from ranks that never exceed the target together.
LEMMA SeedFits ==
  ASSUME NEW average \in RMin .. RMax
  PROVE  LET target == FeasibleTarget(average)
             seed == [c \in Clients |-> Clamp(RMin, Cap(c), Round(target, N))]
         IN  Within(seed) /\ Total(seed) <= target
<1> DEFINE target == FeasibleTarget(average)
           R == Round(target, N)
           seed == [c \in Clients |-> Clamp(RMin, Cap(c), R)]
<1>1. /\ target = IF N * average <= MaxTotal THEN N * average ELSE MaxTotal
      /\ target \in Int /\ target <= MaxTotal
  BY TargetIs
<1>2. N \in Nat \ {0} /\ RMin \in Nat /\ average \in Int /\ RMin <= average /\ MaxTotal \in Int
  BY Bounds, MaxTotalType
<1>3. R \in Int
  <2> HIDE DEF target
  <2> QED  BY <1>1, <1>2, RoundIs
<1>4. \A c \in Clients : Cap(c) \in Int /\ RMin <= Cap(c)
  BY Bounds
<1>5. N * average <= MaxTotal => R = average
  BY <1>1, <1>2, RoundExact
<1> HIDE DEF target, R
<1>6. \A c \in Clients :
        /\ Clamp(RMin, Cap(c), R) \in RMin .. Cap(c)
        /\ Clamp(RMin, Cap(c), R) = IF R < RMin THEN RMin ELSE IF R > Cap(c) THEN Cap(c) ELSE R
  BY <1>3, ClampCap
<1>7. Within(seed)
  BY <1>6 DEF Within
<1>8. Total(seed) <= target
  <2>1. CASE N * average <= MaxTotal
    <3> DEFINE level == [c \in Clients |-> average]
    <3>1. /\ seed \in [Clients -> Int] /\ level \in [Clients -> Int]
          /\ \A c \in Clients : 1 * seed[c] <= level[c]
      BY <1>2, <1>4, <1>5, <1>6, <2>1
    <3>2. Total(level) = N * average
      BY <1>2, TotalConstant
    <3> HIDE DEF seed, level
    <3>3. 1 * Total(seed) <= Total(level)
      BY <3>1, TotalMonotone
    <3>4. Total(seed) \in Int
      BY <3>1, TotalType
    <3> QED  BY <1>1, <2>1, <3>2, <3>3, <3>4
  <2>2. CASE ~(N * average <= MaxTotal)
    <3> HIDE DEF seed
    <3> QED  BY <1>1, <1>7, <2>2, MaxTotalType
  <2> QED  BY <2>1, <2>2
<1> QED  BY <1>7, <1>8 DEF target, R

\* The heuristic spends the target to the last unit.
LEMMA HeuristicSpends ==
  ASSUME NEW average \in RMin .. RMax, NEW order \in Orders
  PROVE  /\ Within(Heuristic(order, FeasibleTarget(average)))
         /\ Total(Heuristic(order, FeasibleTarget(average))) = FeasibleTarget(average)
<1> DEFINE target == FeasibleTarget(average)
           seed == [c \in Clients |-> Clamp(RMin, Cap(c), Round(target, N))]
<1>1. Within(seed) /\ Total(seed) <= target
  BY SeedFits
<1>2. target \in Int /\ target <= MaxTotal
  BY TargetIs
<1>3. Heuristic(order, target) = Shift(order, seed, target - Total(seed), AllTurns)
  BY DEF Heuristic
<1> HIDE DEF seed, target
<1>4. Within(Heuristic(order, target)) /\ Total(Heuristic(order, target)) = target
  BY <1>1, <1>2, <1>3, HandsOut
<1> QED  BY <1>4 DEF target

\* Whatever the optimizer returns, and if it fails, the ranks assigned are within their
\* caps and spend the target to the last unit.
LEMMA AssignmentsFeasible ==
  ASSUME NEW average \in RMin .. RMax, NEW ranks \in Assignments(average)
  PROVE  Within(ranks) /\ Total(ranks) = Min({N * average, MaxTotal})
<1> DEFINE target == FeasibleTarget(average)
<1>1. target \in Int /\ target <= MaxTotal /\ target = Min({N * average, MaxTotal})
  BY TargetIs
<1>2. PICK order \in Orders : \E s \in Rounded(target) \cup {Heuristic(order, target)} :
        ranks = Redistribute(order, [c \in Clients |-> Clamp(RMin, Cap(c), s[c])], target)
  BY DEF Assignments
<1>3. PICK s \in Rounded(target) \cup {Heuristic(order, target)} :
        ranks = Redistribute(order, [c \in Clients |-> Clamp(RMin, Cap(c), s[c])], target)
  BY <1>2
<1>4. Within(s) /\ Total(s) <= target
  <2>1. CASE s \in Rounded(target)
    <3>1. PICK x \in Solutions(target) : \E o \in Orders :
            LET near == [c \in Clients |-> Clamp(RMin, Cap(c), Round(x[c], Grain))]
            IN  s = Shift(o, near, target - Total(near), N)
      BY <2>1 DEF Rounded
    <3> HIDE DEF target
    <3> QED  BY <1>1, <3>1, OneCycleTakesBack
  <2>2. CASE s = Heuristic(order, target)
    BY <1>1, <2>2, HeuristicSpends
  <2> QED  BY <1>3, <2>1, <2>2
<1> DEFINE clamped == [c \in Clients |-> Clamp(RMin, Cap(c), s[c])]
<1>5. clamped = s
  <2>1. s \in [Clients -> Int] /\ \A c \in Clients : s[c] \in RMin .. Cap(c)
    BY <1>4 DEF Within
  <2>2. ASSUME NEW c \in Clients  PROVE Clamp(RMin, Cap(c), s[c]) = s[c]
    <3>1. RMin \in Int /\ Cap(c) \in Int /\ RMin <= Cap(c)
      BY Bounds
    <3>2. s[c] \in Int /\ RMin <= s[c] /\ s[c] <= Cap(c)
      BY <2>1, <3>1
    <3> QED  BY <3>1, <3>2, ClampCap
  <2> QED  BY <2>1, <2>2
<1>6. ranks = Shift(order, s, Max({0, target - Total(s)}), AllTurns)
  BY <1>3, <1>5 DEF Redistribute
<1> HIDE DEF target, clamped
<1>7. Max({0, target - Total(s)}) = target - Total(s)
  <2>1. Total(s) \in Int
    BY <1>4, TotalType DEF Within
  <2>2. target - Total(s) \in Int /\ target - Total(s) >= 0
    BY <1>1, <1>4, <2>1
  <2>3. Max({0, target - Total(s)}) = IF 0 >= target - Total(s) THEN 0 ELSE target - Total(s)
    BY <2>2, MaxOfTwo
  <2> QED  BY <2>2, <2>3
<1> QED  BY <1>1, <1>4, <1>6, <1>7, HandsOut

-----------------------------------------------------------------------------
(* Who gets more.                                                          *)

\* The workers in their order are on two levels, the first j on the higher one, each as
\* far as its cap allows.
Leveled(ranks, turn, b, j) ==
  /\ b \in Int /\ b >= RMin
  /\ j \in 0 .. N - 1
  /\ \A k \in 1 .. N :
       ranks[turn[k]] = LET l == IF k <= j THEN b + 1 ELSE b
                        IN  IF Cap(turn[k]) <= l THEN Cap(turn[k]) ELSE l

\* A turn lifts the next worker to the higher level, the last one beginning a new one.
LEMMA TurnLifts ==
  ASSUME NEW turn \in Orders, NEW ranks, NEW new, NEW b, NEW j, Leveled(ranks, turn, b, j),
         \A c \in Clients :
           new[c] = IF c = turn[j + 1] THEN Moved(c, ranks[c], 1) ELSE ranks[c]
  PROVE  IF j + 1 < N THEN Leveled(new, turn, b, j + 1) ELSE Leveled(new, turn, b + 1, 0)
<1>1. b \in Int /\ b >= RMin /\ j \in 0 .. N - 1 /\ j + 1 \in 1 .. N /\ N \in Nat /\ RMin \in Nat
  BY Bounds DEF Leveled
<1>2. ASSUME NEW k \in 1 .. N
      PROVE  new[turn[k]] = LET l == IF k <= j + 1 THEN b + 1 ELSE b
                            IN  IF Cap(turn[k]) <= l THEN Cap(turn[k]) ELSE l
  <2>1. turn[k] \in Clients /\ (turn[k] = turn[j + 1] <=> k = j + 1)
    <3>1. turn \in [1 .. N -> Clients] /\ \A p, q \in 1 .. N : turn[p] = turn[q] => p = q
      BY OrderIs
    <3> QED  BY <1>1, <3>1
  <2>2. PICK m : m = Cap(turn[k])
    OBVIOUS
  <2>3. m \in Int /\ m >= RMin
    BY <2>1, <2>2, Bounds
  <2>4. ranks[turn[k]] = LET l == IF k <= j THEN b + 1 ELSE b IN IF m <= l THEN m ELSE l
    BY <2>2 DEF Leveled
  <2>5. CASE k = j + 1
    <3>1. ranks[turn[k]] = IF m <= b THEN m ELSE b
      BY <1>1, <2>4, <2>5
    <3>2. new[turn[k]] = Moved(turn[k], ranks[turn[k]], 1)
      BY <2>1, <2>5
    <3>3. new[turn[k]] = IF ranks[turn[k]] + 1 \in RMin .. m
                           THEN ranks[turn[k]] + 1 ELSE ranks[turn[k]]
      BY <2>2, <3>2 DEF Moved
    <3>4. new[turn[k]] = IF m <= b + 1 THEN m ELSE b + 1
      BY <1>1, <2>3, <3>1, <3>3
    <3> QED  BY <1>1, <2>2, <2>5, <3>4
  <2>6. CASE k # j + 1
    <3>1. k <= j + 1 <=> k <= j
      BY <1>1, <2>6
    <3>2. new[turn[k]] = ranks[turn[k]]
      BY <2>1, <2>6
    <3> QED  BY <2>2, <2>4, <3>1, <3>2
  <2> QED  BY <2>5, <2>6
<1>3. CASE j + 1 < N
  <2>1. j + 1 \in 0 .. N - 1
    BY <1>1, <1>3
  <2>2. Leveled(new, turn, b, j + 1)
    BY <1>1, <1>2, <2>1 DEF Leveled
  <2> QED  BY <1>3, <2>2
<1>4. CASE ~(j + 1 < N)
  <2>1. \A k \in 1 .. N : k <= j + 1 /\ ~(k <= 0)
    BY <1>1, <1>4
  <2>2. 0 \in 0 .. N - 1 /\ b + 1 \in Int /\ b + 1 >= RMin
    BY <1>1
  <2>3. Leveled(new, turn, b + 1, 0)
    BY <1>2, <2>1, <2>2 DEF Leveled
  <2> QED  BY <1>4, <2>3
<1> QED  BY <1>3, <1>4

\* After i turns: they are q cycles and j more, and while something is left j workers are
\* on the higher level.
Climbed(A, turn, i) ==
  \E q \in Nat, j \in 0 .. N - 1 :
    /\ i = q * N + j
    /\ \E b, l : /\ Leveled(A[i].ranks, turn, b, l)
                 /\ A[i].diff # 0 => l = j

LEMMA LoopClimbs ==
  ASSUME NEW A, NEW turn, NEW steps, NEW target \in Int,
         Loop(A, turn, 1, steps, target),
         NEW b, Leveled(A[0].ranks, turn, b, 0)
  PROVE  Climbed(A, turn, steps)
<1> DEFINE T == {i \in Nat : i <= steps => Climbed(A, turn, i)}
<1>0. N \in Nat \ {0} /\ steps \in Nat /\ turn \in Orders
  BY Bounds DEF Loop
<1>1. 0 \in T
  <2>1. 0 \in Nat /\ 0 \in 0 .. N - 1 /\ 0 = 0 * N + 0
    BY <1>0
  <2> QED  BY <2>1 DEF Climbed
<1>2. ASSUME NEW n \in Nat, n \in T  PROVE n + 1 \in T
  <2> SUFFICES ASSUME n + 1 <= steps  PROVE Climbed(A, turn, n + 1)
    OBVIOUS
  <2>1. n + 1 \in 1 .. steps /\ n <= steps /\ n \in 0 .. steps
    BY <1>0
  <2>2. PICK q \in Nat, j \in 0 .. N - 1 :
          /\ n = q * N + j
          /\ \E d, l : Leveled(A[n].ranks, turn, d, l) /\ (A[n].diff # 0 => l = j)
    BY <1>2, <2>1 DEF Climbed
  <2>3. PICK d, l : Leveled(A[n].ranks, turn, d, l) /\ (A[n].diff # 0 => l = j)
    BY <2>2
  <2>4. A[n + 1] = Turn(turn, 1, n + 1, A[n])
    <3>1. (n + 1) - 1 = n
      OBVIOUS
    <3> QED  BY <2>1, <3>1 DEF Loop
  <2>5. Sound(A[n], 1, target)
    BY <2>1, LoopSound
  <2>6. Place(n + 1) = j + 1 /\ Place(n + 1) \in 1 .. N
    <3>1. j + 1 \in 1 .. N
      BY <1>0
    <3>2. q * N + (j + 1) = n + 1
      <4>1. q * N \in Nat
        BY <1>0
      <4> QED  BY <2>2, <4>1
    <3>3. Place(q * N + (j + 1)) = j + 1
      BY <3>1, PlaceIs
    <3> QED  BY <3>1, <3>2, <3>3
  <2>7. PICK p \in Nat, k \in 0 .. N - 1 :
          n + 1 = p * N + k /\ IF j + 1 < N THEN k = j + 1 ELSE k = 0
    <3>1. q * N \in Nat
      BY <1>0
    <3>2. CASE j + 1 < N
      <4>1. j + 1 \in 0 .. N - 1 /\ n + 1 = q * N + (j + 1)
        BY <1>0, <2>2, <3>1, <3>2
      <4> QED  BY <3>2, <4>1
    <3>3. CASE ~(j + 1 < N)
      <4>1. j + 1 = N /\ (q + 1) * N = q * N + N /\ (q + 1) * N \in Nat
        BY <1>0, <3>3
      <4>2. q + 1 \in Nat /\ 0 \in 0 .. N - 1 /\ n + 1 = (q + 1) * N + 0
        BY <1>0, <2>2, <3>1, <4>1
      <4> QED  BY <3>3, <4>2
    <3> QED  BY <3>2, <3>3
  <2>8. CASE A[n].diff = 0
    <3>1. A[n + 1] = A[n]
      BY <1>0, <2>4, <2>5, <2>6, <2>8, TurnIs
    <3>2. Leveled(A[n + 1].ranks, turn, d, l) /\ A[n + 1].diff = 0
      BY <2>3, <2>8, <3>1
    <3> QED  BY <2>7, <3>2 DEF Climbed
  <2>9. CASE A[n].diff # 0
    <3>1. l = j
      BY <2>3, <2>9
    <3>2. \A c \in Clients : A[n + 1].ranks[c] =
            IF c = turn[l + 1] THEN Moved(c, A[n].ranks[c], 1) ELSE A[n].ranks[c]
      BY <1>0, <2>4, <2>5, <2>6, <2>9, <3>1, TurnIs
    <3>3. IF l + 1 < N THEN Leveled(A[n + 1].ranks, turn, d, l + 1)
                       ELSE Leveled(A[n + 1].ranks, turn, d + 1, 0)
      BY <1>0, <2>3, <3>2, TurnLifts
    <3>4. \E e : Leveled(A[n + 1].ranks, turn, e, k)
      BY <2>7, <3>1, <3>3
    <3> QED  BY <2>7, <3>4 DEF Climbed
  <2> QED  BY <2>8, <2>9
<1> HIDE DEF T
<1>3. \A n \in Nat : n \in T
  BY <1>1, <1>2, FromZeroUp
<1> QED  BY <1>0, <1>3 DEF T

\* The heuristic's seed is on one level.
LEMMA SeedLeveled ==
  ASSUME NEW order \in Orders, NEW R \in Int, NEW seed,
         seed = [c \in Clients |-> Clamp(RMin, Cap(c), R)]
  PROVE  \E b : Leveled(seed, order, b, 0)
<1> DEFINE b == IF R < RMin THEN RMin ELSE R
<1>1. N \in Nat \ {0} /\ RMin \in Nat
  BY Bounds
<1>2. b \in Int /\ b >= RMin
  BY <1>1
<1>3. ASSUME NEW k \in 1 .. N
      PROVE  seed[order[k]] = IF Cap(order[k]) <= b THEN Cap(order[k]) ELSE b
  <2>1. order[k] \in Clients
    BY OrderIs
  <2>2. PICK m : m = Cap(order[k])
    OBVIOUS
  <2>3. m \in Int /\ RMin <= m
    BY <2>1, <2>2, Bounds
  <2>4. seed[order[k]] = IF R < RMin THEN RMin ELSE IF R > m THEN m ELSE R
    BY <2>1, <2>2, ClampCap
  <2>5. seed[order[k]] = IF m <= b THEN m ELSE b
    BY <1>1, <2>3, <2>4
  <2> QED  BY <2>2, <2>5
<1> HIDE DEF b
<1>4. \A k \in 1 .. N : ~(k <= 0)
  OBVIOUS
<1>5. 0 \in 0 .. N - 1
  BY <1>1
<1>6. Leveled(seed, order, b, 0)
  BY <1>2, <1>3, <1>4, <1>5 DEF Leveled
<1> QED  BY <1>6

\* On levels, who comes first has no less, unless its cap forbids it.
LEMMA LevelsAreFair ==
  ASSUME NEW order \in Orders, NEW ranks, NEW b, NEW l, Leveled(ranks, order, b, l),
         NEW i \in 1 .. N, NEW j \in 1 .. N, i < j
  PROVE  ranks[order[i]] >= Min({Cap(order[i]), ranks[order[j]]})
<1>1. PICK m, n : m = Cap(order[i]) /\ n = Cap(order[j])
  OBVIOUS
<1>2. m \in Int /\ n \in Int
  <2>1. order[i] \in Clients /\ order[j] \in Clients
    BY OrderIs
  <2> QED  BY <1>1, <2>1, Bounds
<1>3. b \in Int /\ l \in Int /\ i \in Int /\ j \in Int
  BY Bounds DEF Leveled
<1> DEFINE x == ranks[order[i]]
           y == ranks[order[j]]
           u == IF i <= l THEN b + 1 ELSE b
           v == IF j <= l THEN b + 1 ELSE b
<1>4. x = IF m <= u THEN m ELSE u
  BY <1>1 DEF Leveled
<1>5. y = IF n <= v THEN n ELSE v
  BY <1>1 DEF Leveled
<1>6. u >= v /\ u \in Int /\ v \in Int
  BY <1>3
<1> HIDE DEF x, y, u, v
<1>7. x \in Int /\ y \in Int
  BY <1>2, <1>4, <1>5, <1>6
<1>8. Min({m, y}) = IF m <= y THEN m ELSE y
  BY <1>2, <1>7, MinOfTwo
<1>9. x >= Min({m, y})
  BY <1>2, <1>4, <1>5, <1>6, <1>7, <1>8
<1> QED  BY <1>1, <1>9 DEF x, y

LEMMA HeuristicIsFair ==
  ASSUME NEW average \in RMin .. RMax, NEW order \in Orders,
         NEW i \in 1 .. N, NEW j \in 1 .. N, i < j
  PROVE  Heuristic(order, FeasibleTarget(average))[order[i]]
           >= Min({Cap(order[i]), Heuristic(order, FeasibleTarget(average))[order[j]]})
<1> DEFINE target == FeasibleTarget(average)
           seed == [c \in Clients |-> Clamp(RMin, Cap(c), Round(target, N))]
           diff == target - Total(seed)
           turn == InTurn(order, diff)
           unit == Unit(diff)
           A == After(turn, unit, seed, diff, AllTurns)
<1>1. Within(seed) /\ Total(seed) <= target
  BY SeedFits
<1>2. target \in Int
  BY TargetIs
<1>3. Heuristic(order, target) = Shift(order, seed, diff, AllTurns)
  BY DEF Heuristic
<1>4. \E b : Leveled(seed, order, b, 0)
  <2>1. Round(target, N) \in Int
    <3> HIDE DEF target
    <3> QED  BY <1>2, Bounds, RoundIs
  <2> QED  BY <2>1, SeedLeveled
<1> HIDE DEF target, seed
<1>5. Total(seed) \in Int /\ diff \in Int /\ diff >= 0 /\ Total(seed) + diff = target
  <2>1. Total(seed) \in Int
    BY <1>1, TotalType DEF Within
  <2> QED  BY <1>1, <1>2, <2>1
<1> HIDE DEF diff
<1>6. AllTurns \in Nat
  <2>1. MaxTotal - N * RMin \in Int
    BY MaxTotalType
  <2>2. Max({1, MaxTotal - N * RMin}) = IF 1 >= MaxTotal - N * RMin THEN 1 ELSE MaxTotal - N * RMin
    BY <2>1, MaxOfTwo
  <2>3. Max({1, MaxTotal - N * RMin}) \in Nat
    BY <2>1, <2>2
  <2> QED  BY <2>3, Bounds DEF AllTurns
<1>7. A[0] = [ranks |-> seed, diff |-> diff] /\ Loop(A, turn, unit, AllTurns, target)
  BY <1>1, <1>5, <1>6, ShiftLoops
<1>8. Heuristic(order, target) = A[AllTurns].ranks
  BY <1>3, ShiftIs
<1>9. diff > 0 => turn = order /\ unit = 1
  BY DEF InTurn, Unit
<1> HIDE DEF turn, unit, A
<1>10. A[0].ranks = seed /\ A[0].diff = diff
  BY <1>7
<1>11. \E b, l : Leveled(A[AllTurns].ranks, order, b, l)
  <2>1. CASE diff > 0
    <3>1. Climbed(A, order, AllTurns)
      BY <1>2, <1>4, <1>7, <1>9, <1>10, <2>1, LoopClimbs
    <3> QED  BY <3>1 DEF Climbed
  <2>2. CASE diff = 0
    <3>1. A[AllTurns] = A[0]
      BY <1>2, <1>7, <1>10, <2>2, NothingLeft
    <3> QED  BY <1>4, <1>10, <3>1
  <2> QED  BY <1>5, <2>1, <2>2
<1>12. Heuristic(order, target)[order[i]]
         >= Min({Cap(order[i]), Heuristic(order, target)[order[j]]})
  BY <1>8, <1>11, LevelsAreFair
<1> QED  BY <1>12 DEF target

-----------------------------------------------------------------------------
(* The ranks the course assigns, whoever takes part.                       *)

LEMMA PlansAre ==
  ASSUME NEW average \in Ranks, NEW ranks \in Plans[average]
  PROVE  Within(ranks) /\ Total(ranks) = Min({N * average, MaxTotal})
BY AssignmentsFeasible DEF Plans, Ranks

LEMMA AverageType ==
  ASSUME NEW average \in Ranks, NEW sign \in Int
  PROVE  NextAverage(average, sign) \in Ranks
<1> DEFINE x == CASE sign > 0 -> average - LambdaDec
                  [] sign < 0 -> average + LambdaInc
                  [] sign = 0 -> average
<1>1. average \in Int /\ LambdaDec \in Int /\ LambdaInc \in Int
  BY RanksAssumption, Bounds DEF Ranks
<1>2. x \in Int
  BY <1>1
<1>3. NextAverage(average, sign) = Clamp(RMin, RMax, x)
  BY DEF NextAverage
<1> HIDE DEF x
<1> QED  BY <1>2, <1>3, Bounds, ClampIs DEF Ranks

\* What the scheduler knows: an average in the range, and feasible ranks once it knows the
\* workers.
FInv ==
  /\ avg \in Ranks
  /\ profiled \in BOOLEAN
  /\ RanksFeasible

\* New ranks are feasible for the average they are computed for.
LEMMA AssignFeasible ==
  ASSUME NEW average \in Ranks, Assign(TRUE, average), avg' = average
  PROVE  /\ \A c \in Clients : current'[c][1] \in RMin .. Cap(c)
         /\ Total([c \in Clients |-> current'[c][1]]) = Min({N * avg', MaxTotal})
<1>1. PICK ranks \in Plans[average] : current' = [c \in Clients |-> Pair(c, ranks[c])]
  BY DEF Assign
<1>2. \A c \in Clients : current'[c][1] = ranks[c]
  BY <1>1 DEF Pair
<1>3. Within(ranks) /\ Total(ranks) = Min({N * average, MaxTotal})
  BY PlansAre
<1>4. [c \in Clients |-> current'[c][1]] = ranks
  BY <1>2, <1>3 DEF Within
<1>5. \A c \in Clients : current'[c][1] \in RMin .. Cap(c)
  BY <1>2, <1>3 DEF Within
<1> QED  BY <1>3, <1>4, <1>5

LEMMA ProcessAdaptiveIs ==
  ASSUME avg \in Ranks, ProcessAdaptive
  PROVE  avg' \in Ranks /\ profiled' = profiled /\ Assign(profiled, avg')
<1>1. PICK sign \in IF rates' THEN Signs(avg, hatAvg) ELSE {0} :
        IF rates' THEN avg' = NextAverage(avg, sign) ELSE avg' = avg
  BY DEF ProcessAdaptive
<1>2. sign \in Int
  BY <1>1 DEF Signs
<1>3. avg' \in Ranks
  BY <1>1, <1>2, AverageType
<1> QED  BY <1>3 DEF ProcessAdaptive

LEMMA ProcessingFeasible ==
  ASSUME FInv, NEW r, ProcessWarmup(r) \/ ProcessAdaptive
  PROVE  FInv'
<1>1. CASE ProcessWarmup(r)
  <2>1. avg' = avg
    BY <1>1 DEF ProcessWarmup
  <2>2. CASE r = WarmupRounds - 1
    <3>1. profiled' = TRUE /\ Assign(TRUE, avg)
      BY <1>1, <2>2 DEF ProcessWarmup
    <3> QED  BY <2>1, <3>1, AssignFeasible DEF FInv, RanksFeasible
  <2>3. CASE r # WarmupRounds - 1
    BY <1>1, <2>1, <2>3 DEF ProcessWarmup, FInv, RanksFeasible
  <2> QED  BY <2>2, <2>3
<1>2. CASE ProcessAdaptive
  <2>1. avg' \in Ranks /\ profiled' = profiled /\ Assign(profiled, avg')
    BY <1>2, ProcessAdaptiveIs DEF FInv
  <2>2. CASE profiled
    <3>1. Assign(TRUE, avg')
      <4>1. profiled = TRUE
        BY <2>2 DEF FInv
      <4> QED  BY <2>1, <4>1
    <3>2. /\ \A c \in Clients : current'[c][1] \in RMin .. Cap(c)
          /\ Total([c \in Clients |-> current'[c][1]]) = Min({N * avg', MaxTotal})
      BY <2>1, <3>1, AssignFeasible
    <3> QED  BY <2>1, <3>2 DEF FInv, RanksFeasible
  <2>3. CASE ~profiled
    BY <2>1, <2>3 DEF FInv, RanksFeasible
  <2> QED  BY <2>2, <2>3
<1> QED  BY <1>1, <1>2

LEMMA StayFeasible ==
  ASSUME FInv, UNCHANGED <<avg, profiled, current>>
  PROVE  FInv'
BY DEF FInv, RanksFeasible

LEMMA FeasibleKept == FInv /\ [Next]_vars => FInv'
<1> SUFFICES ASSUME FInv, [Next]_vars  PROVE FInv'
  OBVIOUS
<1>1. ASSUME NEW c \in Clients, HandleStats(c)  PROVE FInv'
  <2>1. \/ ProcessWarmup(Head(toServer[c]).round)
        \/ ProcessAdaptive
        \/ UNCHANGED <<avg, profiled, current>>
    BY <1>1 DEF HandleStats, rankVars
  <2> QED  BY <2>1, ProcessingFeasible, StayFeasible
<1>2. CASE \/ Start \/ UNCHANGED vars
           \/ \E c \in Clients : Train(c) \/ HandleUpdate(c)
  BY <1>2, StayFeasible DEF Start, Train, HandleUpdate, rankVars, vars
<1> QED  BY <1>1, <1>2 DEF Next, Ended

LEMMA InitFeasible == Init => FInv
BY RanksAssumption DEF Init, FInv, RanksFeasible, Ranks

LEMMA RanksInvariant == Spec => []FInv
BY InitFeasible, FeasibleKept, PTL DEF Spec

\* Whoever takes part and whatever was measured: once the scheduler knows its workers,
\* their ranks respect their caps and add up to the average asked for, or to all the caps allow.
THEOREM RanksAddUp == Spec => []RanksFeasible
<1>1. FInv => RanksFeasible
  BY DEF FInv
<1> QED  BY <1>1, RanksInvariant, PTL

\* For every average that a course reaches, the heuristic gives a faster worker no less
\* than a slower one, unless its cap forbids it.
THEOREM FasterFirst == Spec => []FasterGetMore
<1>1. FInv => FasterGetMore
  <2> SUFFICES ASSUME FInv, NEW order \in Orders,
                      NEW i \in 1 .. N, NEW j \in 1 .. N, i < j
               PROVE  Heuristic(order, FeasibleTarget(avg))[order[i]]
                        >= Min({Cap(order[i]), Heuristic(order, FeasibleTarget(avg))[order[j]]})
    BY DEF FasterGetMore
  <2>1. avg \in RMin .. RMax
    BY DEF FInv, Ranks
  <2> QED  BY <2>1, HeuristicIsFair
<1> QED  BY <1>1, RanksInvariant, PTL


-----------------------------------------------------------------------------
(* Types.                                                                  *)

Asking == [round : Nat, config : Ranks, pair : Pairs \cup {None}]

RankTypes ==
  /\ losses \in BOOLEAN /\ rates \in BOOLEAN /\ profiled \in BOOLEAN
  /\ avg \in Ranks /\ hatAvg \in Ranks
  /\ current \in [Clients -> Pairs] \cup {None}
  /\ assigned \in [Clients -> Pairs] \cup {None}
  /\ config \in [Clients -> Ranks]

MailTypes ==
  \A c \in Clients :
    /\ \A i \in DOMAIN toClient[c] : toClient[c][i] \in Asking
    /\ \A i \in DOMAIN toServer[c] : toServer[c][i].type \in {"fah_stats", "model_para"}

TInv == IInv /\ RankTypes /\ MailTypes /\ worker \in [Clients -> Pairs]

LEMMA TypesSuffice == TInv => TypeOK
<1> SUFFICES ASSUME TInv  PROVE TypeOK
  OBVIOUS
<1>1. cohort \in SUBSET Clients /\ updates \in SUBSET Clients /\ state \in 0 .. TotalRounds
  BY DEF TInv, IInv, Course
<1>2. \A c \in Clients :
        /\ \A i \in DOMAIN toClient[c] :
             toClient[c][i] \in [round : Nat, config : Ranks, pair : Pairs \cup {None}]
        /\ \A i \in DOMAIN toServer[c] : toServer[c][i].type \in {"fah_stats", "model_para"}
  BY DEF TInv, MailTypes, Asking
<1>3. /\ \A r \in DOMAIN stats : DOMAIN stats[r] \subseteq Clients
      /\ processed \subseteq DOMAIN stats
  BY DEF TInv, IInv, Course, Attendance, Processing
<1> QED  BY <1>1, <1>2, <1>3 DEF TInv, RankTypes, TypeOK

\* The ranks derived from a worker's are in the range.
LEMMA HatType ==
  ASSUME NEW c \in Clients, NEW rank \in Int
  PROVE  HatRank(c, rank) \in Ranks
<1>1. rank - 1 \in Int
  OBVIOUS
<1>2. HatRank(c, rank) \in RMin .. Cap(c)
  BY <1>1, ClampCap DEF HatRank
<1> QED  BY <1>2, Bounds DEF Ranks

LEMMA PairType ==
  ASSUME NEW c \in Clients, NEW rank \in Ranks
  PROVE  Pair(c, rank) \in Pairs
<1>1. rank \in Int
  BY DEF Ranks
<1> QED  BY <1>1, HatType DEF Pair, Pairs

LEMMA WarmupType ==
  ASSUME NEW c \in Clients
  PROVE  WarmupRank(c) \in Ranks /\ Min({InitRank, Cap(c)}) \in Ranks
<1>1. PICK k : k = Cap(c)
  OBVIOUS
<1>2. k \in RMin .. RMax /\ InitRank \in RMin .. RMax /\ RMin \in Int /\ RMax \in Int
  BY <1>1, Bounds, RanksAssumption
<1>3. Min({InitRank, k}) = IF InitRank <= k THEN InitRank ELSE k
  BY <1>2, MinOfTwo
<1>4. Min({InitRank, k}) \in RMin .. RMax
  BY <1>2, <1>3
<1>5. WarmupRank(c) \in RMin .. Cap(c)
  <2>1. Min({InitRank, Cap(c)}) \in Int
    BY <1>1, <1>4
  <2> QED  BY <2>1, ClampCap DEF WarmupRank
<1>6. WarmupRank(c) \in Ranks
  BY <1>1, <1>2, <1>5 DEF Ranks
<1> QED  BY <1>1, <1>4, <1>6 DEF Ranks

LEMMA WithinType ==
  ASSUME NEW ranks, Within(ranks)
  PROVE  ranks \in [Clients -> Ranks]
<1>1. \A c \in Clients : ranks[c] \in Ranks
  BY Bounds DEF Within, Ranks
<1> QED  BY <1>1 DEF Within

-----------------------------------------------------------------------------
(* What the server assigns and sends.                                      *)

LEMMA AssignTypes ==
  ASSUME NEW known, NEW average \in Ranks, Assign(known, average),
         current \in [Clients -> Pairs] \cup {None}
  PROVE  /\ current' \in [Clients -> Pairs] \cup {None}
         /\ assigned' \in [Clients -> Pairs] \cup {None}
         /\ config' \in [Clients -> Ranks]
<1>1. CASE known
  <2>1. PICK ranks \in Plans[average] :
          /\ current' = [c \in Clients |-> Pair(c, ranks[c])]
          /\ assigned' = current'
          /\ config' = ranks
    BY <1>1 DEF Assign
  <2>2. ranks \in [Clients -> Ranks]
    BY PlansAre, WithinType
  <2>3. \A c \in Clients : Pair(c, ranks[c]) \in Pairs
    BY <2>2, PairType
  <2> QED  BY <2>1, <2>2, <2>3
<1>2. CASE ~known
  BY <1>2, WarmupType DEF Assign
<1> QED  BY <1>1, <1>2

LEMMA NextHatType ==
  ASSUME NEW average \in Ranks
  PROVE  NextHatAverage(average) \in Ranks
<1>1. /\ average \in Int /\ RMin <= average /\ average <= RMax
      /\ RMin \in Int /\ RMax \in Int /\ RMin <= RMax
  BY Bounds DEF Ranks
<1>2. average - 1 \in Int
  BY <1>1
<1>3. NextHatAverage(average) = IF RMin >= average - 1 THEN RMin ELSE average - 1
  BY <1>1, <1>2, MaxOfTwo DEF NextHatAverage
<1> QED  BY <1>1, <1>3 DEF Ranks

LEMMA ProcessingTypes ==
  ASSUME RankTypes, NEW r, ProcessWarmup(r) \/ ProcessAdaptive
  PROVE  RankTypes'
<1>1. CASE ProcessWarmup(r)
  <2>1. losses' = TRUE /\ UNCHANGED <<rates, avg, hatAvg>>
    BY <1>1 DEF ProcessWarmup
  <2>2. CASE r = WarmupRounds - 1
    <3>1. profiled' = TRUE /\ Assign(TRUE, avg)
      BY <1>1, <2>2 DEF ProcessWarmup
    <3>2. PICK yes : yes = TRUE
      OBVIOUS
    <3>3. Assign(yes, avg)
      BY <3>1, <3>2
    <3> QED  BY <2>1, <3>1, <3>3, AssignTypes DEF RankTypes
  <2>3. CASE r # WarmupRounds - 1
    BY <1>1, <2>1, <2>3 DEF ProcessWarmup, RankTypes
  <2> QED  BY <2>2, <2>3
<1>2. CASE ProcessAdaptive
  <2>1. avg' \in Ranks /\ profiled' = profiled /\ Assign(profiled, avg')
    BY <1>2, ProcessAdaptiveIs DEF RankTypes
  <2>2. rates' = (rates \/ losses) /\ losses' = TRUE
    BY <1>2 DEF ProcessAdaptive
  <2>3. hatAvg' = hatAvg \/ hatAvg' = NextHatAverage(avg')
    BY <1>2 DEF ProcessAdaptive
  <2>4. hatAvg' \in Ranks
    BY <2>1, <2>3, NextHatType DEF RankTypes
  <2>5. rates' \in BOOLEAN /\ losses' \in BOOLEAN
    BY <2>2
  <2> QED  BY <2>1, <2>4, <2>5, AssignTypes DEF RankTypes
<1> QED  BY <1>1, <1>2

LEMMA BroadcastTypes ==
  ASSUME RankTypes, MailTypes, NEW r \in Nat, Broadcast(r),
         \A c \in Clients : toClient[c] = <<>>
  PROVE  \A c \in Clients : \A i \in DOMAIN toClient'[c] : toClient'[c][i] \in Asking
<1> DEFINE m(c) == Model(r, RuntimeConfig(r)[c], IF assigned = None THEN None ELSE assigned[c])
<1>1. \A c \in Clients : toClient'[c] \in {<<>>, Append(<<>>, m(c))}
  BY DEF Broadcast
<1>2. ASSUME NEW c \in Clients  PROVE m(c) \in Asking
  <2>1. RuntimeConfig(r)[c] \in Ranks
    <3>1. CASE r < WarmupRounds
      BY <3>1, WarmupType DEF RuntimeConfig
    <3>2. CASE ~(r < WarmupRounds)
      BY <3>2 DEF RuntimeConfig, RankTypes
    <3> QED  BY <3>1, <3>2
  <2>2. (IF assigned = None THEN None ELSE assigned[c]) \in Pairs \cup {None}
    BY DEF RankTypes
  <2> QED  BY <2>1, <2>2 DEF Model, Asking
<1> HIDE DEF m
<1>3. ASSUME NEW c \in Clients, NEW i \in DOMAIN toClient'[c]
      PROVE  toClient'[c][i] = m(c)
  BY <1>1
<1> QED  BY <1>2, <1>3

-----------------------------------------------------------------------------
(* One lemma per action.                                                   *)

LEMMA RanksStayTyped ==
  ASSUME RankTypes, UNCHANGED rankVars
  PROVE  RankTypes'
BY DEF RankTypes, rankVars

LEMMA StartTyped ==
  ASSUME TInv, Start
  PROVE  (RankTypes /\ MailTypes /\ worker \in [Clients -> Pairs])'
<1>1. \A c \in Clients : toClient[c] = <<>>
  BY DEF TInv, IInv, Course, Where, Idle, Start
<1>2. UNCHANGED <<toServer, worker, rankVars>> /\ Broadcast(0)
  BY DEF Start
<1>3. \A c \in Clients : \A i \in DOMAIN toClient'[c] : toClient'[c][i] \in Asking
  BY <1>1, <1>2, BroadcastTypes DEF TInv
<1>4. RankTypes' /\ MailTypes'
  BY <1>2, <1>3, RanksStayTyped DEF TInv, MailTypes
<1> QED  BY <1>2, <1>4 DEF TInv

LEMMA TrainTyped ==
  ASSUME TInv, NEW c \in Clients, Train(c)
  PROVE  (RankTypes /\ MailTypes /\ worker \in [Clients -> Pairs])'
<1>1. UNCHANGED rankVars /\ toClient[c] # <<>>
  BY DEF Train
<1>2. Asked(c)
  BY <1>1, WhoTrains DEF TInv, IInv
<1>3. PICK m : toClient[c] = <<m>>
  BY <1>2 DEF Asked
<1>4. m \in Asking
  <2>1. 1 \in DOMAIN toClient[c] /\ toClient[c][1] = m
    BY <1>3
  <2> QED  BY <2>1 DEF TInv, MailTypes
<1> DEFINE pair == IF m.pair = None THEN worker[c] ELSE m.pair
           s    == Stat(m.round, pair, m.config)
<1>5. Head(toClient[c]) = m /\ Tail(toClient[c]) = <<>>
  BY <1>3
<1>6. /\ toClient' = [toClient EXCEPT ![c] = <<>>]
      /\ worker' = [worker EXCEPT ![c] = pair]
  BY <1>5 DEF Train
<1>7. toServer' = [toServer EXCEPT ![c] = @ \o <<s, Update(m.round)>>]
  BY <1>5 DEF Train
<1>8. s.type = "fah_stats" /\ Update(m.round).type = "model_para"
  BY DEF Stat, Update
<1>9. pair \in Pairs
  BY <1>4 DEF Asking, TInv
<1> DEFINE u == Update(m.round)
<1>10. u = Update(m.round)
  OBVIOUS
<1> HIDE DEF s, pair, u
<1>11. toServer'[c] = <<s, u>> /\ \A d \in Clients \ {c} : toServer'[d] = toServer[d]
  BY <1>2, <1>7, <1>10 DEF TInv, IInv, Course, Asked
<1>12. ASSUME NEW i \in DOMAIN toServer'[c]
       PROVE  toServer'[c][i].type \in {"fah_stats", "model_para"}
  <2>1. toServer'[c][i] = s \/ toServer'[c][i] = u
    BY <1>11, <1>12
  <2> QED  BY <1>8, <1>10, <2>1
<1>13. \A d \in Clients : toClient'[d] = <<>> \/ toClient'[d] = toClient[d]
  BY <1>6 DEF TInv, IInv, Course
<1>14. MailTypes'
  BY <1>11, <1>12, <1>13 DEF TInv, MailTypes
<1>15. worker' \in [Clients -> Pairs]
  BY <1>6, <1>9 DEF TInv
<1> QED  BY <1>1, <1>14, <1>15, RanksStayTyped DEF TInv

LEMMA ReadTyped ==
  ASSUME TInv, NEW c \in Clients, Read(c), toServer[c] # <<>>
  PROVE  \A d \in Clients : \A i \in DOMAIN toServer'[d] :
           toServer'[d][i].type \in {"fah_stats", "model_para"}
<1>1. toServer' = [toServer EXCEPT ![c] = Tail(@)] /\ DOMAIN toServer = Clients
  BY DEF Read, TInv, IInv, Course
<1>2. Answered(c) \/ Reported(c)
  BY WhoReports DEF TInv, IInv
<1>3. toServer'[c] \in {<<>>, <<Update(state)>>}
  <2>1. toServer'[c] = Tail(toServer[c])
    BY <1>1
  <2>2. CASE Answered(c)
    <3>1. PICK s : toServer[c] = <<s, Update(state)>>
      BY <2>2 DEF Answered
    <3>2. Tail(toServer[c]) = <<Update(state)>>
      BY <3>1
    <3> QED  BY <2>1, <3>2
  <2>3. CASE Reported(c)
    <3>1. Tail(toServer[c]) = <<>>
      BY <2>3 DEF Reported
    <3> QED  BY <2>1, <3>1
  <2> QED  BY <1>2, <2>2, <2>3
<1>4. ASSUME NEW i \in DOMAIN toServer'[c]
      PROVE  toServer'[c][i].type \in {"fah_stats", "model_para"}
  BY <1>3, <1>4 DEF Update
<1>5. \A d \in Clients \ {c} : toServer'[d] = toServer[d]
  BY <1>1
<1> QED  BY <1>4, <1>5 DEF TInv, MailTypes

LEMMA HandleStatsTyped ==
  ASSUME TInv, NEW c \in Clients, HandleStats(c)
  PROVE  (RankTypes /\ MailTypes /\ worker \in [Clients -> Pairs])'
<1> DEFINE r == Head(toServer[c]).round
<1>1. /\ ProcessWarmup(r) \/ ProcessAdaptive \/ UNCHANGED rankVars
      /\ UNCHANGED <<toClient, worker>>
      /\ Read(c) /\ toServer[c] # <<>>
  BY DEF HandleStats
<1> HIDE DEF r
<1>2. RankTypes'
  BY <1>1, ProcessingTypes, RanksStayTyped DEF TInv
<1>3. MailTypes'
  BY <1>1, ReadTyped DEF TInv, MailTypes
<1> QED  BY <1>1, <1>2, <1>3 DEF TInv

LEMMA HandleUpdateTyped ==
  ASSUME TInv, NEW c \in Clients, HandleUpdate(c)
  PROVE  (RankTypes /\ MailTypes /\ worker \in [Clients -> Pairs])'
<1>1. /\ UNCHANGED <<worker, rankVars>> /\ Read(c) /\ toServer[c] # <<>>
      /\ Head(toServer[c]).type = "model_para"
  BY DEF HandleUpdate
<1>2. \A d \in Clients : \A i \in DOMAIN toClient'[d] : toClient'[d][i] \in Asking
  <2>1. CASE UNCHANGED toClient
    BY <2>1 DEF TInv, MailTypes
  <2>2. CASE ~UNCHANGED toClient
    <3>1. RoundOver(updates \cup {c}) /\ state' = state + 1 /\ Broadcast(state')
      BY <2>2 DEF HandleUpdate
    <3>2. state' \in Nat
      BY <3>1, FahAssumption DEF TInv, IInv, Course
    <3>3. \A d \in Clients : toClient[d] = <<>>
      BY <1>1, <3>1, RoundLeavesNobody DEF TInv, IInv
    <3> QED  BY <3>1, <3>2, <3>3, BroadcastTypes DEF TInv
  <2> QED  BY <2>1, <2>2
<1>3. MailTypes'
  BY <1>1, <1>2, ReadTyped DEF TInv, MailTypes
<1> QED  BY <1>1, <1>3, RanksStayTyped DEF TInv

LEMMA InitTyped == Init => RankTypes /\ MailTypes /\ worker \in [Clients -> Pairs]
<1> SUFFICES ASSUME Init  PROVE RankTypes /\ MailTypes /\ worker \in [Clients -> Pairs]
  OBVIOUS
<1>1. InitRank \in Ranks /\ NextHatAverage(InitRank) \in Ranks
  BY RanksAssumption, NextHatType DEF Ranks
<1>2. Max({RMin, InitRank - 1}) \in Ranks
  BY <1>1 DEF NextHatAverage
<1>3. \A c \in Clients : Pair(c, Min({InitRank, Cap(c)})) \in Pairs /\ WarmupRank(c) \in Ranks
  BY WarmupType, PairType
<1>4. RankTypes
  <2>1. assigned \in [Clients -> Pairs] /\ config \in [Clients -> Ranks]
    BY <1>3 DEF Init
  <2> QED  BY <1>1, <1>2, <2>1 DEF Init, RankTypes
<1>5. MailTypes
  BY DEF Init, MailTypes
<1>6. worker \in [Clients -> Pairs]
  BY <1>1, <1>2 DEF Init, Pairs
<1> QED  BY <1>4, <1>5, <1>6

LEMMA NextTyped == TInv /\ IInv' /\ [Next]_vars => TInv'
<1> SUFFICES ASSUME TInv, IInv', [Next]_vars
             PROVE  (RankTypes /\ MailTypes /\ worker \in [Clients -> Pairs])'
  BY DEF TInv
<1>1. CASE UNCHANGED vars
  <2>1. UNCHANGED <<toClient, toServer, worker, rankVars>>
    BY <1>1 DEF vars
  <2>2. MailTypes' /\ worker' \in [Clients -> Pairs]
    BY <2>1 DEF TInv, MailTypes
  <2> QED  BY <2>1, <2>2, RanksStayTyped DEF TInv
<1> QED  BY <1>1, StartTyped, TrainTyped, HandleStatsTyped, HandleUpdateTyped
         DEF Next, Ended

\* Whoever takes part: the variables of a FAH-QLoRA course keep their types, and all ranks, the
\* averages and the workers' own included, stay in the range.
THEOREM TypeCorrect == Spec => []TypeOK
<1>1. Init => RankTypes /\ MailTypes /\ worker \in [Clients -> Pairs]
  BY InitTyped
<1>2. RankTypes /\ MailTypes /\ worker \in [Clients -> Pairs] /\ IInv <=> TInv
  BY DEF TInv
<1>3. Spec => []TInv
  BY <1>1, <1>2, NextTyped, StatisticsFirst, PTL DEF Spec
<1> QED  BY <1>3, TypesSuffice, PTL
=============================================================================
