-------------------------- MODULE ContributorProofs --------------------------
(***************************************************************************)
(* Who contributes to an aggregation, how often a round is restarted, that *)
(* no more is aggregated than there are rounds, and that no worker is lost *)
(* to the sampler: proofs about FedCourse for every number of workers and  *)
(* rounds and every mode of the server.                                    *)
(*                                                                         *)
(* No message carries a round the server has not come to, because the      *)
(* server dates every model with its round and its round only grows.  So   *)
(* an update that is not of the round is of an earlier one, and the pairs  *)
(* that wait in the buffer of staled updates differ from the fresh ones.   *)
(*                                                                         *)
(* A model is delivered to whom it is sent, because the workers are known  *)
(* and run when the first is sent (joining), none stops before the server  *)
(* has ended (delivery), and none is past the round of what it is given,   *)
(* so that it skips nothing.  Hence who is marked as working has work.     *)
(***************************************************************************)
EXTENDS FedCourseProofs

\* The channels a hold no model and no update of a round after s.
Dated(a, s) ==
  \A c \in Clients : \A i \in DOMAIN a[c] :
    a[c][i].type = "model_para" => a[c][i].round <= s

\* What may be aggregated in round s: fresh updates f and staled ones st of
\* workers that take part, the latter from earlier rounds that are tolerated.
Clean(f, st, s) ==
  /\ f \cap Unseen = {}
  /\ s < TotalRounds =>
       \A u \in st : /\ u[2] \notin Unseen
                     /\ u[1] < s
                     /\ u[1] >= s - Staleness

\* The inductive invariant, on top of that of FedCourseProofs.
CInv ==
  /\ Dated(toClient, state)
  /\ Dated(toServer, state)
  /\ Clean(fresh, staled, state)
  /\ ContributorsSound
  /\ restarts <= numFailure

-----------------------------------------------------------------------------
(* The rounds of messages.                                                 *)

LEMMA RoundsAreNat == Rounds \subseteq Nat /\ TotalRounds \in Nat \ {0}
  BY NetworkAssumption DEF Rounds

LEMMA QuietDated ==
  ASSUME NEW a, NEW b, NEW s, Quiet(a, b), Dated(a, s)
  PROVE  Dated(b, s)
  BY DEF Quiet, Dated, Notable

\* What was not ahead of round s is not ahead of a later one.
LEMMA LaterDated ==
  ASSUME NEW a \in Inboxes, NEW s \in Rounds, NEW t \in Rounds, s <= t, Dated(a, s)
  PROVE  Dated(a, t)
<1> SUFFICES ASSUME NEW c \in Clients, NEW i \in DOMAIN a[c], a[c][i].type = "model_para"
             PROVE  a[c][i].round <= t
  BY DEF Dated
<1>1. a[c] \in Seq(DownMsg)
  BY DEF Inboxes
<1>2. a[c][i].round \in Rounds
  <2>1. a[c][i] \in DownMsg
    BY <1>1
  <2> QED  BY <2>1 DEF DownMsg
<1>3. a[c][i].round <= s
  BY DEF Dated
<1>4. s \in Nat /\ t \in Nat /\ a[c][i].round \in Nat
  BY <1>2, RoundsAreNat
<1> QED  BY <1>3, <1>4

\* A broadcast of the model of round s is not ahead of s.
LEMMA BroadcastDated ==
  ASSUME NEW b \in Inboxes, NEW s \in Rounds, NEW free, NEW size, Dated(b, s),
         BroadcastModelPara(b, free, size, s)
  PROVE  Dated(toClient', s)
<1> DEFINE m == Msg("model_para", Capped(s))
<1>1. m \in DownMsg /\ m.round <= s
  BY RoundsAreNat DEF Msg, Capped, DownMsg, Rounds
<1>2. \A c \in Clients : b[c] \in Seq(DownMsg)
  BY DEF Inboxes
<1>3. \A c \in Clients : toClient'[c] \in {b[c], Append(b[c], m)}
  BY DEF BroadcastModelPara, Deliver
<1> HIDE DEF m
<1>4. ASSUME NEW c \in Clients, NEW i \in DOMAIN toClient'[c],
             toClient'[c][i].type = "model_para"
      PROVE  toClient'[c][i].round <= s
  <2>1. CASE toClient'[c] = b[c]
    BY <1>4, <2>1 DEF Dated
  <2>2. CASE toClient'[c] = Append(b[c], m)
    <3>1. \/ i \in DOMAIN b[c] /\ toClient'[c][i] = b[c][i]
          \/ toClient'[c][i] = m
      BY <1>1, <1>2, <1>4, <2>2, AppendPositions
    <3> QED  BY <1>1, <1>4, <3>1 DEF Dated
  <2> QED  BY <1>3, <2>1, <2>2
<1> QED  BY <1>4 DEF Dated

LEMMA NoBroadcastDated ==
  ASSUME NEW b, NEW s, NEW free, Dated(b, s), NoBroadcast(b, free)
  PROVE  Dated(toClient', s)
  BY DEF NoBroadcast

\* Asking a worker for its information dates nothing.
LEMMA AskDated ==
  ASSUME NEW b \in Inboxes, NEW S, NEW s, NEW m \in DownMsg, m.type # "model_para",
         Dated(b, s)
  PROVE  Deliver(b, S, m) \in Inboxes /\ Dated(Deliver(b, S, m), s)
<1>1. \A c \in Clients : b[c] \in Seq(DownMsg)
  BY DEF Inboxes
<1>2. Deliver(b, S, m) \in Inboxes
  BY <1>1, AppendPositions DEF Deliver, Inboxes
<1>3. ASSUME NEW c \in Clients, NEW i \in DOMAIN Deliver(b, S, m)[c],
             Deliver(b, S, m)[c][i].type = "model_para"
      PROVE  Deliver(b, S, m)[c][i].round <= s
  <2>1. Deliver(b, S, m)[c] \in {b[c], Append(b[c], m)}
    BY DEF Deliver
  <2>2. i \in DOMAIN b[c] /\ Deliver(b, S, m)[c][i] = b[c][i]
    BY <1>1, <1>3, <2>1, AppendPositions
  <2> QED  BY <1>3, <2>2 DEF Dated
<1> QED  BY <1>2, <1>3 DEF Dated

\* Evaluating and saving leave the round, or end the course.
LEMMA CheckAndSaveRound ==
  ASSUME NEW s, NEW b, NEW stop \in BOOLEAN
  PROVE  CheckAndSave(s, b, stop).state \in {s, TotalRounds + 1}
  BY RoundsAreNat DEF CheckAndSave

LEMMA EvalRound ==
  ASSUME NEW s, NEW b, NEW stop \in BOOLEAN
  PROVE  Eval(s, b, stop).state \in {s, TotalRounds + 1}
  BY CheckAndSaveRound DEF Eval

-----------------------------------------------------------------------------
(* Counting the updates of an aggregation.                                 *)

\* The updates of the aggregation of round s.
Pooled(s, f, st) == {<<s, c>> : c \in f} \cup st

\* Fresh updates are as many as the workers they are from, and none is staled.
LEMMA UpdatesCounted ==
  ASSUME NEW s, NEW f \in SUBSET Clients, NEW st \in SUBSET (Rounds \X Clients),
         \A u \in st : u[1] # s
  PROVE  Cardinality(Pooled(s, f, st)) = Cardinality(f) + Cardinality(st)
<1> DEFINE now == {<<s, c>> : c \in f}
           g   == [c \in f |-> <<s, c>>]
<1>1. IsFiniteSet(f)
  BY NetworkAssumption, FS_Subset
<1>2. g \in Surjection(f, now) /\ g \in Injection(f, now)
  BY DEF Surjection, Injection, IsInjective
<1>3. IsFiniteSet(now) /\ Cardinality(now) = Cardinality(f)
  BY <1>1, <1>2, FS_Surjection
<1>4. IsFiniteSet(st)
  <2>1. IsFiniteSet(Rounds)
    BY RoundsAreNat, FS_Interval DEF Rounds
  <2>2. IsFiniteSet(Rounds \X Clients)
    BY <2>1, NetworkAssumption, FS_Product
  <2> QED  BY <2>2, FS_Subset
<1>5. now \cap st = {}
  OBVIOUS
<1>6. Cardinality(now \cup st) = Cardinality(now) + Cardinality(st) - Cardinality({})
  BY <1>3, <1>4, <1>5, FS_Union
<1> HIDE DEF now
<1>7. Cardinality(now) \in Nat /\ Cardinality(st) \in Nat /\ Cardinality({}) = 0
  BY <1>3, <1>4, FS_CardinalityType, FS_EmptySet
<1> QED  BY <1>3, <1>6, <1>7 DEF now, Pooled

-----------------------------------------------------------------------------
(* The server looks at its training buffer.                                *)

\* What the callers of check_and_move_on see to.
Given(free, f, keyed, st, d) ==
  /\ Handed(free, f, keyed, st, d)
  /\ Dated(toClient, state)
  /\ Clean(f, st, state)
  /\ ContributorsSound

\* What they can rely on when it returns.
Left ==
  /\ state' \in Rounds /\ state <= state'
  /\ Dated(toClient', state')
  /\ Clean(fresh', staled', state')
  /\ ContributorsSound'
  /\ restarts' \in {0, restarts}

\* An aggregation of clean updates is sound.
LEMMA AggregationSound ==
  ASSUME NEW free, NEW f, NEW keyed, NEW st, NEW d, NEW extra,
         Given(free, f, keyed, st, d), TrainQuorum(f, st),
         Aggregate(free, f, st, d, extra)
  PROVE  ContributorsSound'
<1> DEFINE from == Pooled(state, f, st)
<1>1. agg'.round = state /\ agg'.from = from
  BY DEF Aggregate, Pooled
<1> SUFFICES ASSUME state \in 0 .. TotalRounds - 1
             PROVE  /\ Cardinality(from) >= MinReceived
                    /\ \A u \in from : /\ u[2] \notin Unseen
                                       /\ u[1] <= state
                                       /\ u[1] >= state - Staleness
  BY <1>1 DEF ContributorsSound
<1>2. /\ state < TotalRounds /\ state \in Nat /\ Staleness \in Nat
      /\ f \in SUBSET Clients /\ st \in SUBSET (Rounds \X Clients)
  BY RoundsAreNat, ServerAssumption DEF Given, Handed
<1>3. /\ f \cap Unseen = {}
      /\ \A u \in st : u[2] \notin Unseen /\ u[1] < state /\ u[1] >= state - Staleness
  BY <1>2 DEF Given, Clean
<1>4. \A u \in st : u[1] \in Nat
  BY <1>2, RoundsAreNat
<1>5. Cardinality(from) = Cardinality(f) + Cardinality(st)
  <2>1. \A u \in st : u[1] # state
    BY <1>2, <1>3, <1>4
  <2> QED  BY <1>2, <2>1, UpdatesCounted
<1>6. Cardinality(from) >= MinReceived
  BY <1>5 DEF TrainQuorum
<1>7. ASSUME NEW u \in from
      PROVE  u[2] \notin Unseen /\ u[1] <= state /\ u[1] >= state - Staleness
  <2>1. CASE u \in st
    BY <1>2, <1>3, <1>4, <2>1
  <2>2. CASE u \in {<<state, c>> : c \in f}
    <3>1. u[1] = state /\ u[2] \in f
      BY <2>2
    <3> QED  BY <1>2, <1>3, <3>1
  <2> QED  BY <2>1, <2>2 DEF Pooled
<1> HIDE DEF from
<1> QED  BY <1>6, <1>7

LEMMA AggregateLeft ==
  ASSUME NEW free, NEW f, NEW keyed, NEW st, NEW d, NEW extra,
         Given(free, f, keyed, st, d), TrainQuorum(f, st),
         Aggregate(free, f, st, d, extra)
  PROVE  Left
<1> DEFINE s1  == state + 1
           due == s1 % EvalFreq = 0 /\ s1 # TotalRounds
           mid(stop) == IF due THEN Eval(s1, toClient, stop)
                        ELSE [state |-> s1, inbox |-> toClient, finished |-> FALSE]
<1>1. /\ s1 \in Rounds \ {0} /\ state \in Rounds /\ state <= s1
      /\ TotalRounds + 1 \in Rounds /\ s1 <= TotalRounds + 1
  BY RoundsAreNat DEF Given, Handed, Rounds
<1>2. Quiet(toClient, toClient) /\ toClient \in Inboxes
  BY QuietSame DEF Given, Handed
<1>3. PICK stop \in BOOLEAN :
        IF MoreRounds(mid(stop).state)
          THEN NextRound(mid(stop), free, f, st, d, extra)
          ELSE FinalEval(mid(stop), free, st, d, extra)
  BY VerdictsAreBooleans DEF Aggregate
<1>4. /\ mid(stop).state \in {s1, TotalRounds + 1}
      /\ mid(stop).state \in Rounds \ {0}
      /\ Quiet(toClient, mid(stop).inbox)
  <2>1. CASE due
    <3>1. mid(stop) = Eval(s1, toClient, stop)
      BY <2>1
    <3> HIDE DEF s1, mid
    <3>2. /\ Eval(s1, toClient, stop).state \in Rounds \ {0}
          /\ Quiet(toClient, Eval(s1, toClient, stop).inbox)
      BY <1>1, <1>2, EvalQuiet, NetworkAssumption DEF Rounds
    <3>3. Eval(s1, toClient, stop).state \in {s1, TotalRounds + 1}
      BY EvalRound
    <3> QED  BY <3>1, <3>2, <3>3
  <2>2. CASE ~due
    BY <1>1, <1>2, <2>2
  <2> QED  BY <2>1, <2>2
<1>5. restarts' = 0 /\ ContributorsSound'
  BY AggregationSound DEF Aggregate
<1>6. Dated(toClient, state)
  BY DEF Given
<1> HIDE DEF mid, s1, due
<1>7. CASE MoreRounds(mid(stop).state)
  <2>1. /\ state' = mid(stop).state
        /\ fresh' = {} /\ staled' = {}
        /\ \/ \E n : BroadcastModelPara(mid(stop).inbox, free, n, mid(stop).state)
           \/ NoBroadcast(mid(stop).inbox, free)
    BY <1>3, <1>7 DEF NextRound
  <2>2. state' \in Rounds /\ state <= state'
    BY <1>1, <1>4, <2>1, RoundsAreNat
  <2>3. Dated(toClient, state') /\ Dated(mid(stop).inbox, state') /\ mid(stop).inbox \in Inboxes
    BY <1>1, <1>2, <1>4, <1>6, <2>2, LaterDated, QuietDated DEF Quiet
  <2>4. Dated(toClient', state')
    BY <2>1, <2>2, <2>3, BroadcastDated, NoBroadcastDated
  <2> QED  BY <1>5, <2>1, <2>2, <2>4 DEF Left, Clean
<1>8. CASE ~MoreRounds(mid(stop).state)
  <2> DEFINE fin(v) == Eval(mid(stop).state, mid(stop).inbox, v)
  <2>1. FinalEval(mid(stop), free, st, d, extra)
    BY <1>3, <1>8
  <2>2. PICK v \in BOOLEAN :
          /\ state' = fin(v).state
          /\ fresh' = {}
          /\ \/ BroadcastModelPara(fin(v).inbox, free, extra, fin(v).state)
             \/ NoBroadcast(fin(v).inbox, free)
    BY <2>1, VerdictsAreBooleans DEF FinalEval
  <2>3. /\ fin(v).state \in {mid(stop).state, TotalRounds + 1}
        /\ fin(v).state \in Rounds
        /\ Quiet(toClient, fin(v).inbox)
    BY <1>4, EvalQuiet, EvalRound
  <2> HIDE DEF fin
  <2>4. state' \in Rounds /\ state <= state' /\ ~(state' < TotalRounds)
    <3>1. /\ mid(stop).state \in Nat /\ state \in Nat /\ s1 \in Nat /\ TotalRounds \in Nat
          /\ ~(mid(stop).state < TotalRounds)
      BY <1>1, <1>4, <1>8, RoundsAreNat DEF MoreRounds
    <3>2. state <= mid(stop).state /\ state <= TotalRounds + 1
      BY <1>1, <1>4, <3>1
    <3>3. state' \in {mid(stop).state, TotalRounds + 1} /\ state' \in Rounds
      BY <2>2, <2>3
    <3> QED  BY <3>1, <3>2, <3>3
  <2>5. Dated(toClient, state') /\ Dated(fin(v).inbox, state') /\ fin(v).inbox \in Inboxes
    BY <1>1, <1>2, <1>6, <2>3, <2>4, LaterDated, QuietDated DEF Quiet
  <2>6. Dated(toClient', state')
    BY <2>2, <2>4, <2>5, BroadcastDated, NoBroadcastDated
  <2> QED  BY <1>5, <2>2, <2>4, <2>6 DEF Left, Clean
<1> QED  BY <1>7, <1>8

LEMMA MoveOnLeft ==
  ASSUME NEW free, NEW f, NEW keyed, NEW st, NEW d, NEW extra,
         Given(free, f, keyed, st, d),
         CheckAndMoveOn(free, f, keyed, st, d, extra)
  PROVE  Left
<1>1. /\ state \in Rounds /\ state <= state /\ toClient \in Inboxes
      /\ Dated(toClient, state) /\ Clean(f, st, state) /\ ContributorsSound
  BY RoundsAreNat DEF Given, Handed, Rounds
<1>2. ASSUME NEW k, Keep(f, k, st, d), Dated(toClient', state)
      PROVE  Left
  BY <1>1, <1>2 DEF Keep, Left, ContributorsSound
<1>3. CASE Wait(free, f, keyed, st, d, extra)
  BY <1>1, <1>2, <1>3, BroadcastDated, NoBroadcastDated DEF Wait
<1>4. CASE TrainQuorum(f, st) /\ Aggregate(free, f, st, d, extra)
  BY <1>4, AggregateLeft
<1>5. CASE KeyError(free, f, st, d)
  BY <1>1, <1>2, <1>5 DEF KeyError
<1> QED
  BY <1>3, <1>4, <1>5 DEF CheckAndMoveOn, Given, Handed

-----------------------------------------------------------------------------
(* Every step keeps the invariant.                                         *)

LEMMA Timely ==
  ASSUME IInv, CInv
  PROVE  /\ state \in Rounds /\ state \in Nat /\ restarts \in Nat /\ numFailure \in Nat
         /\ toClient \in Inboxes
         /\ \A c \in Clients : Busy(c) => c \notin Unseen
  BY RoundsAreNat, ServerAssumption
     DEF IInv, TypeOK, STypeOK, NetTypeOK, Inboxes, OneTaskPerClient

\* What the server has not read yet is not newer for its having read something.
LEMMA ConsumeDated ==
  ASSUME IInv, NEW c \in Clients, toServer[c] # <<>>, toServer' = Consume(c),
         NEW s, Dated(toServer, s)
  PROVE  Dated(toServer', s)
<1> SUFFICES ASSUME NEW d \in Clients, NEW i \in DOMAIN toServer'[d],
                    toServer'[d][i].type = "model_para"
             PROVE  toServer'[d][i].round <= s
  BY DEF Dated
<1>1. PICK j \in DOMAIN toServer[d] : toServer'[d][i] = toServer[d][j]
  BY ConsumeUploadsNothing DEF IInv, NoNewUpload
<1> QED  BY <1>1 DEF Dated

\* The same for the updates under way when the round goes on.
LEMMA UploadsLater ==
  ASSUME IInv', NEW s \in Rounds, state' \in Rounds, s <= state', Dated(toServer', s)
  PROVE  Dated(toServer', state')
<1> SUFFICES ASSUME NEW c \in Clients, NEW i \in DOMAIN toServer'[c],
                    toServer'[c][i].type = "model_para"
             PROVE  toServer'[c][i].round <= state'
  BY DEF Dated
<1>1. toServer'[c][i].round \in Rounds
  <2>1. toServer'[c] \in Seq(UpMsg)
    BY DEF IInv, TypeOK, NetTypeOK
  <2>2. toServer'[c][i] \in UpMsg
    BY <2>1
  <2> QED  BY <2>2 DEF UpMsg
<1>2. toServer'[c][i].round <= s
  BY DEF Dated
<1>3. s \in Nat /\ state' \in Nat /\ toServer'[c][i].round \in Nat
  BY <1>1, RoundsAreNat
<1> QED  BY <1>2, <1>3

\* An update arrived.
LEMMA ModelParaKeepsCInv ==
  ASSUME IInv, CInv, IInv', NEW c \in Clients, HandleModelPara(c)
  PROVE  CInv'
<1>1. /\ Listening /\ Arrived(c, "model_para") /\ toServer[c] # <<>>
      /\ toServer' = Consume(c)
      /\ UNCHANGED numFailure
  BY DEF HandleModelPara, Arrived
<1>2. /\ state \in Rounds /\ state \in Nat /\ restarts \in Nat /\ numFailure \in Nat
      /\ toClient \in Inboxes
  BY Timely
<1>3. Dated(toServer', state)
  BY <1>1, ConsumeDated DEF CInv
<1>4. 1 \in Updates(c) /\ c \notin Unseen
  BY <1>1, ConsumePositions, Timely DEF Arrived, Busy, Updates, IInv
<1>5. CASE isFinish
  BY <1>1, <1>3, <1>5 DEF HandleModelPara, CInv, roundVars, ContributorsSound
<1>6. CASE ~isFinish
  <2> DEFINE r     == Head(toServer[c]).round
             now   == r = state
             late  == ~now /\ Tolerated(r)
             f     == IF now THEN fresh \cup {c} ELSE fresh
             keyed == hasRound \/ now
             st    == IF late THEN staled \cup {<<r, c>>} ELSE staled
             d     == IF now \/ late THEN dropout ELSE dropout + 1
             extra == IF AfterReceiving THEN 1 ELSE 0
  <2>1. CheckAndMoveOn(idle \cup {c}, f, keyed, st, d, extra)
    BY <1>6 DEF HandleModelPara
  <2>2. r \in Rounds /\ r <= state
    BY <1>1, <1>4, ConsumePositions DEF UpMsg, CInv, Dated, Updates, IInv
  <2>3. pc = "listening" /\ state \in 0 .. TotalRounds
    BY <1>1, <1>2, <1>4, RoundsAreNat DEF IInv, WorkAfterJoining, Listening, Busy
  <2>4. Handed(idle \cup {c}, f, keyed, st, d)
    BY <1>2, <2>2, <2>3 DEF Handed, IInv, TypeOK, STypeOK
  <2>5. f \cap Unseen = {}
    BY <1>4 DEF CInv, Clean
  <2>6. r \in Nat /\ Staleness \in Nat
    BY <2>2, RoundsAreNat, ServerAssumption
  <2>7. late => r < state /\ r >= state - Staleness
    BY <1>2, <2>2, <2>6 DEF Tolerated
  <2>8. ASSUME state < TotalRounds, NEW u \in st
        PROVE  u[2] \notin Unseen /\ u[1] < state /\ u[1] >= state - Staleness
    <3>1. CASE u \in staled
      BY <2>8, <3>1 DEF CInv, Clean
    <3>2. CASE late /\ u = <<r, c>>
      BY <1>4, <2>7, <3>2
    <3> QED  BY <2>8, <3>1, <3>2
  <2> HIDE DEF r, now, late, f, keyed, st, d, extra
  <2>9. Given(idle \cup {c}, f, keyed, st, d)
    BY <2>4, <2>5, <2>8 DEF Given, CInv, Clean
  <2>10. Left
    BY <2>1, <2>9, MoveOnLeft
  <2>11. Dated(toServer', state')
    BY <1>2, <1>3, <2>10, UploadsLater DEF Left
  <2>12. restarts' <= numFailure'
    BY <1>1, <1>2, <2>10 DEF Left, CInv
  <2> QED  BY <2>10, <2>11, <2>12 DEF Left, CInv
<1> QED  BY <1>5, <1>6

\* The alarm went off.
LEMMA TimeUpKeepsCInv ==
  ASSUME IInv, CInv, IInv', TimeUp
  PROVE  CInv'
<1>1. /\ pc = "listening" /\ state \in 0 .. TotalRounds
      /\ toServer' = toServer
  BY RoundsAreNat DEF IInv, TimeUp, Listening, TypeOK, STypeOK, Rounds
<1>2. /\ state \in Rounds /\ state \in Nat /\ restarts \in Nat /\ numFailure \in Nat
      /\ toClient \in Inboxes
  BY Timely
<1>3. CASE TrainQuorum(fresh, staled)
  <2>1. /\ numFailure' = IF hasRound THEN 0 ELSE numFailure
        /\ CheckAndMoveOn(idle, fresh, hasRound, staled, dropout, 0)
    BY <1>3 DEF TimeUp
  <2>2. Given(idle, fresh, hasRound, staled, dropout)
    BY <1>1, <1>2 DEF Given, Handed, CInv, IInv, TypeOK, STypeOK
  <2>3. Left
    BY <2>1, <2>2, MoveOnLeft
  <2>4. Dated(toServer', state')
    BY <1>1, <1>2, <2>3, UploadsLater DEF Left, CInv
  <2>5. restarts' <= numFailure'
    <3>1. CASE hasRound
      BY <1>3, <2>1, <3>1 DEF CheckAndMoveOn, Aggregate
    <3>2. CASE ~hasRound
      BY <1>2, <2>1, <2>3, <3>2 DEF Left, CInv
    <3> QED  BY <3>1, <3>2
  <2> QED  BY <2>3, <2>4, <2>5 DEF Left, CInv
<1>4. CASE ~TrainQuorum(fresh, staled)
  <2>1. /\ numFailure' = numFailure + 1
        /\ restarts' \in {restarts, restarts + 1}
        /\ fresh' \in {fresh, {}}
        /\ UNCHANGED <<state, staled, agg>>
        /\ \/ toClient' = Deliver(toClient, neighbors, Msg("finish", state))
           \/ BroadcastModelPara(toClient, idle, SampleNum, state)
    BY <1>4 DEF TimeUp, Terminate, roundVars
  <2>2. Dated(toClient', state)
    <3>1. Quiet(toClient, Deliver(toClient, neighbors, Msg("finish", state)))
      <4>1. /\ Msg("finish", state) \in DownMsg
            /\ Msg("finish", state).type \notin Notable
        BY <1>2 DEF Msg, DownMsg, Notable
      <4> QED  BY <1>2, <4>1, QuietSame, QuietDeliver
    <3> QED  BY <1>2, <2>1, <3>1, QuietDated, BroadcastDated DEF CInv
  <2>3. restarts' <= numFailure'
    BY <1>2, <2>1 DEF CInv
  <2>4. Clean(fresh', staled', state') /\ ContributorsSound'
    BY <2>1 DEF CInv, Clean, ContributorsSound
  <2> QED  BY <1>1, <2>1, <2>2, <2>3, <2>4 DEF CInv
<1> QED  BY <1>3, <1>4

\* Evaluation results arrived.
LEMMA MetricsKeepCInv ==
  ASSUME IInv, CInv, IInv', NEW c \in Clients, HandleMetrics(c)
  PROVE  CInv'
<1>1. /\ toServer[c] # <<>> /\ toServer' = Consume(c)
      /\ UNCHANGED <<fresh, staled, agg, numFailure, restarts>>
  BY DEF HandleMetrics, Arrived
<1>2. /\ state \in Rounds /\ state \in Nat /\ toClient \in Inboxes
  BY Timely
<1>3. /\ state' \in {state, TotalRounds + 1}
      /\ Quiet(toClient, toClient')
  <2>1. \/ \E stop \in BOOLEAN :
             /\ state' = CheckAndSave(state, toClient, stop).state
             /\ toClient' = CheckAndSave(state, toClient, stop).inbox
        \/ UNCHANGED <<state, toClient>>
    BY VerdictsAreBooleans DEF HandleMetrics
  <2>2. CASE UNCHANGED <<state, toClient>>
    BY <1>2, <2>2, QuietSame
  <2>3. ASSUME NEW stop \in BOOLEAN,
               state' = CheckAndSave(state, toClient, stop).state,
               toClient' = CheckAndSave(state, toClient, stop).inbox
        PROVE  state' \in {state, TotalRounds + 1} /\ Quiet(toClient, toClient')
    BY <1>2, <2>3, QuietSame, CheckAndSaveQuiet, CheckAndSaveRound
  <2> QED  BY <2>1, <2>2, <2>3
<1>4. state' \in Rounds /\ state <= state' /\ (state' < TotalRounds => state' = state)
  BY <1>2, <1>3, RoundsAreNat DEF Rounds
<1>5. Dated(toClient', state')
  BY <1>2, <1>3, <1>4, LaterDated, QuietDated DEF CInv
<1>6. Dated(toServer', state')
  BY <1>1, <1>2, <1>4, ConsumeDated, UploadsLater DEF CInv
<1>7. Clean(fresh', staled', state')
  BY <1>1, <1>4 DEF CInv, Clean
<1> QED  BY <1>1, <1>5, <1>6, <1>7 DEF CInv, ContributorsSound

\* A worker registers, or sends its information.
LEMMA JoiningKeepsCInv ==
  ASSUME IInv, CInv, NEW c \in Clients, HandleJoinIn(c) \/ HandleJoinInInfo(c)
  PROVE  CInv'
<1> DEFINE ask == Msg("ask_for_join_in_info", state)
<1>1. /\ toServer[c] # <<>> /\ toServer' = Consume(c)
      /\ UNCHANGED <<roundVars, numFailure, restarts>>
      /\ \E b \in {toClient, Deliver(toClient, {c}, ask)} : TriggerForStart(b)
  BY DEF HandleJoinIn, HandleJoinInInfo, Arrived
<1>2. state \in Rounds /\ toClient \in Inboxes
  BY Timely
<1>3. ask \in DownMsg /\ ask.type = "ask_for_join_in_info"
  BY <1>2 DEF Msg, DownMsg
<1> HIDE DEF ask
<1>4. /\ Deliver(toClient, {c}, ask) \in Inboxes
      /\ Dated(Deliver(toClient, {c}, ask), state)
  BY <1>2, <1>3, AskDated DEF CInv
<1>5. Dated(toClient', state)
  BY <1>1, <1>2, <1>4, BroadcastDated, NoBroadcastDated DEF CInv, TriggerForStart
<1>6. Dated(toServer', state)
  BY <1>1, ConsumeDated DEF CInv
<1> QED  BY <1>1, <1>5, <1>6 DEF CInv, roundVars, Clean, ContributorsSound

\* The server leaves its loop.
LEMMA ExitKeepsCInv ==
  ASSUME IInv, CInv, Exits
  PROVE  CInv'
<1>1. /\ toClient' = Deliver(toClient, neighbors, Msg("finish", state))
      /\ UNCHANGED <<roundVars, numFailure, restarts, toServer>>
  BY DEF Exits, ExitLoop, Terminate
<1>2. state \in Rounds /\ toClient \in Inboxes
  BY Timely
<1>3. Msg("finish", state) \in DownMsg /\ Msg("finish", state).type # "model_para"
  BY <1>2 DEF Msg, DownMsg
<1>4. Dated(toClient', state)
  BY <1>1, <1>2, <1>3, AskDated DEF CInv
<1> QED  BY <1>1, <1>4 DEF CInv, roundVars, Clean, ContributorsSound

\* Removing messages from an inbox dates none anew.
LEMMA RemovesDated ==
  ASSUME NEW c \in Clients, OnlyRemoves(c), NEW s, Dated(toClient, s)
  PROVE  Dated(toClient', s)
<1> SUFFICES ASSUME NEW d \in Clients, NEW i \in DOMAIN toClient'[d],
                    toClient'[d][i].type = "model_para"
             PROVE  toClient'[d][i].round <= s
  BY DEF Dated
<1>1. \E k \in DOMAIN toClient[d] : toClient'[d][i] = toClient[d][k]
  BY DEF OnlyRemoves
<1> QED  BY <1>1 DEF Dated

\* What a worker sends is dated like what it read.
LEMMA SendDated ==
  ASSUME TypeOK, NEW s, Dated(toServer, s), NEW c \in Clients, NEW m \in UpMsg,
         m.type = "model_para" => m.round <= s,
         Send(c, m) \/ UNCHANGED toServer
  PROVE  Dated(toServer', s)
<1>1. CASE UNCHANGED toServer
  BY <1>1
<1>2. CASE Send(c, m)
  <2> SUFFICES ASSUME NEW d \in Clients, NEW i \in DOMAIN toServer'[d],
                      toServer'[d][i].type = "model_para"
               PROVE  toServer'[d][i].round <= s
    BY DEF Dated
  <2>1. \/ i \in DOMAIN toServer[d] /\ toServer'[d][i] = toServer[d][i]
        \/ toServer'[d][i] = m
    BY <1>2, SendPositions
  <2> QED  BY <2>1 DEF Dated
<1> QED  BY <1>1, <1>2

\* So the workers date nothing after what they were given.
LEMMA ClientDated ==
  ASSUME IInv, NEW s, Dated(toClient, s), Dated(toServer, s), NEW c \in Clients, Client(c)
  PROVE  Dated(toClient', s) /\ Dated(toServer', s)
<1>1. TypeOK
  BY DEF IInv
<1>2. ASSUME toClient[c] # <<>>, Read(c)
      PROVE  Dated(toClient', s) /\ Head(toClient[c]) \in DownMsg
  BY <1>1, <1>2, ReadRemoves, ReadPositions, RemovesDated
<1>3. CASE Train(c)
  <2> DEFINE r == Head(toClient[c]).round
  <2>1. /\ toClient[c] # <<>> /\ Head(toClient[c]).type = "model_para" /\ Read(c)
        /\ Send(c, Msg("model_para", r)) \/ UNCHANGED toServer
    BY <1>3 DEF Train, Hears, Answer
  <2>2. r \in Rounds /\ r <= s
    BY <1>1, <2>1, ReadPositions DEF DownMsg, Dated
  <2>3. Msg("model_para", r) \in UpMsg /\ Msg("model_para", r).round <= s
    BY <2>2 DEF UpMsg, Msg
  <2> HIDE DEF r
  <2> QED  BY <1>1, <1>2, <2>1, <2>3, SendDated
<1>4. CASE Evaluate(c)
  <2> DEFINE r == Head(toClient[c]).round
  <2>1. /\ toClient[c] # <<>> /\ Read(c)
        /\ Send(c, Msg("metrics", r)) \/ UNCHANGED toServer
    BY <1>4 DEF Evaluate, Hears, Answer
  <2>2. Msg("metrics", r) \in UpMsg /\ Msg("metrics", r).type # "model_para"
    BY <1>2, <2>1 DEF DownMsg, UpMsg, Msg
  <2> HIDE DEF r
  <2> QED  BY <1>1, <1>2, <2>1, <2>2, SendDated
<1>5. CASE AnswerJoinInInfo(c)
  <2>1. /\ toClient[c] # <<>> /\ Read(c)
        /\ Send(c, Msg("join_in_info", 0)) \/ UNCHANGED toServer
    BY <1>5 DEF AnswerJoinInInfo, Hears
  <2>2. Msg("join_in_info", 0) \in UpMsg /\ Msg("join_in_info", 0).type # "model_para"
    BY NetworkAssumption DEF UpMsg, Msg, Rounds
  <2> QED  BY <1>1, <1>2, <2>1, <2>2, SendDated
<1>6. CASE JoinIn(c)
  <2>1. Send(c, Msg("join_in", 0)) /\ UNCHANGED toClient
    BY <1>6 DEF JoinIn
  <2>2. Msg("join_in", 0) \in UpMsg /\ Msg("join_in", 0).type # "model_para"
    BY NetworkAssumption DEF UpMsg, Msg, Rounds
  <2> QED  BY <1>1, <2>1, <2>2, SendDated
<1>7. CASE Converged(c) \/ Finish(c)
  <2>1. OnlyRemoves(c) /\ UNCHANGED toServer
    BY <1>1, <1>7, ReadRemoves, EmptiedRemoves DEF Converged, Finish, Hears, TypeOK, NetTypeOK
  <2> QED  BY <2>1, RemovesDated
<1> QED  BY <1>3, <1>4, <1>5, <1>6, <1>7 DEF Client, ClientStep

\* Nor does a fault.
LEMMA FaultDated ==
  ASSUME IInv, NEW s, Dated(toClient, s), Dated(toServer, s), NEW c \in Clients, Fault(c)
  PROVE  Dated(toClient', s) /\ Dated(toServer', s)
<1>1. CASE LoseDown(c) \/ Crash(c)
  <2>1. OnlyRemoves(c) /\ UNCHANGED toServer
    BY <1>1, ReadRemoves, EmptiedRemoves DEF IInv, LoseDown, Crash, Read
  <2> QED  BY <2>1, RemovesDated
<1>2. CASE LoseUp(c)
  <2>1. toServer[c] # <<>> /\ toServer' = Consume(c) /\ UNCHANGED toClient
    BY <1>2 DEF LoseUp
  <2> QED  BY <2>1, ConsumeDated
<1> QED  BY <1>1, <1>2 DEF Fault

\* The rest of the invariant stays when the server does not move.
LEMMA OthersKeepCInv ==
  ASSUME IInv, CInv, NEW c \in Clients, Client(c) \/ Fault(c)
  PROVE  CInv'
<1>1. UNCHANGED sVars
  BY DEF Client, Fault
<1>2. Dated(toClient', state) /\ Dated(toServer', state)
  BY ClientDated, FaultDated DEF CInv
<1> QED  BY <1>1, <1>2 DEF CInv, sVars, roundVars, Clean, ContributorsSound

-----------------------------------------------------------------------------
(* The theorems.                                                           *)

LEMMA InitCInv ==
  ASSUME Init
  PROVE  CInv
<1>1. \A c \in Clients : DOMAIN toClient[c] = {} /\ DOMAIN toServer[c] = {}
  BY DEF Init, NetInit
<1> QED  BY <1>1 DEF Init, SInit, CInv, Dated, Clean, ContributorsSound

LEMMA NextKeepsCInv ==
  ASSUME IInv, CInv, IInv', [Next]_vars
  PROVE  CInv'
<1>1. ASSUME NEW c \in Clients, Reads(c)
      PROVE  CInv'
  BY <1>1, JoiningKeepsCInv, ModelParaKeepsCInv, MetricsKeepCInv DEF Reads, ReadFrom
<1>2. ASSUME NEW c \in Clients, Client(c)
      PROVE  CInv'
  BY <1>2, OthersKeepCInv
<1>3. ASSUME NEW c \in Clients, Fault(c)
      PROVE  CInv'
  BY <1>3, OthersKeepCInv
<1>4. CASE Exits
  BY <1>4, ExitKeepsCInv
<1>5. CASE Alarm
  BY <1>5, TimeUpKeepsCInv DEF Alarm
<1>6. CASE UNCHANGED vars
  BY <1>6 DEF vars, netVars, sVars, roundVars, CInv, Dated, Clean, ContributorsSound
<1> QED  BY <1>1, <1>2, <1>3, <1>4, <1>5, <1>6 DEF Next, Ended

\* Messages, buffers and the last aggregation are dated as they should.
THEOREM DatesAreRight == Spec => []CInv
<1>1. Init => CInv
  BY InitCInv
<1>2. IInv /\ IInv' /\ CInv /\ [Next]_vars => CInv'
  BY NextKeepsCInv
<1> QED  BY <1>1, <1>2, InductiveInvariant, PTL DEF Spec

\* Every aggregation of the training has enough updates, all of workers that take
\* part, none from the future and none staler than tolerated: whatever is lost,
\* whoever dies, and however often the round is restarted.
THEOREM ContributorsAreSound == Spec => []ContributorsSound
<1>1. CInv => ContributorsSound
  BY DEF CInv
<1> QED  BY <1>1, DatesAreRight, PTL

\* No restart of a round goes uncounted, so that none is restarted more often than
\* allowed.
THEOREM RestartsAreCounted == Spec => []RestartsCounted
<1>1. CInv => RestartsCounted
  BY DEF CInv, RestartsCounted
<1> QED  BY <1>1, DatesAreRight, PTL

-----------------------------------------------------------------------------
(* Joining.                                                                *)

\* Where worker c is on its way into the course: what it has sent and the server
\* has not read, and what it was asked and has not answered.
Joins(c) == {i \in DOMAIN toServer[c] : toServer[c][i].type \in {"join_in", "join_in_info"}}
Asks(c)  == {i \in DOMAIN toClient[c] : toClient[c][i].type = "ask_for_join_in_info"}

\* Every worker takes one step of joining at a time, and none when it is through.
OneStep ==
  \A c \in Clients :
    /\ \A i, j \in Joins(c) : i = j
    /\ \A i, j \in Asks(c)  : i = j
    /\ Joins(c) = {} \/ Asks(c) = {}
    /\ c \in joinInfo \/ proc[c] = "off" => Joins(c) = {} /\ Asks(c) = {}

\* The workers that may have been counted: launched, known, and not about to join.
Joined ==
  {c \in neighbors :
     proc[c] # "off" /\ \A i \in DOMAIN toServer[c] : toServer[c][i].type # "join_in"}

JoinsCounted == joinNum <= Cardinality(Joined)

\* Until all have joined, nothing but joining is spoken of.
Prelude ==
  ~AllJoined =>
    /\ state = 0
    /\ \A c \in Clients :
         /\ \A i \in DOMAIN toClient[c] : toClient[c][i].type = "ask_for_join_in_info"
         /\ \A i \in DOMAIN toServer[c] : toServer[c][i].type \in {"join_in", "join_in_info"}

\* Who has sent its information was launched.
Launched == \A c \in joinInfo : proc[c] # "off"

JInv == OneStep /\ JoinsCounted /\ Prelude /\ Launched

\* No step of joining is new: what is in the channels was there, possibly further back.
NoNewJoin ==
  \A c \in Clients : \E k \in Nat : \A i \in Joins(c)' :
    i + k \in Joins(c) /\ toServer'[c][i] = toServer[c][i + k]

NoNewAsk == \A c \in Clients : \E k \in Nat : \A i \in Asks(c)' : i + k \in Asks(c)

LEMMA ChannelsTyped ==
  ASSUME IInv
  PROVE  /\ toClient \in Inboxes /\ toServer \in Outboxes
         /\ \A c \in Clients : /\ toClient[c] \in Seq(DownMsg)
                               /\ toServer[c] \in Seq(UpMsg)
                               /\ DOMAIN toClient[c] \subseteq Nat
                               /\ DOMAIN toServer[c] \subseteq Nat
  BY DEF IInv, TypeOK, NetTypeOK, Inboxes, Outboxes

\* More workers in a set are not fewer.
LEMMA MoreCounted ==
  ASSUME NEW A \in SUBSET Clients, NEW B \in SUBSET Clients, A \subseteq B
  PROVE  /\ Cardinality(A) \in Nat /\ Cardinality(B) \in Nat
         /\ Cardinality(A) <= Cardinality(B)
         /\ Cardinality(A) = Cardinality(B) => A = B
<1>1. IsFiniteSet(B) /\ IsFiniteSet(A)
  BY NetworkAssumption, FS_Subset
<1> QED  BY <1>1, FS_Subset, FS_CardinalityType

LEMMA JoinsStay ==
  ASSUME IInv, IInv', JInv, NoNewJoin, NoNewAsk, UNCHANGED joinVars,
         \A c \in Clients : proc'[c] = "off" <=> proc[c] = "off"
  PROVE  OneStep' /\ JoinsCounted'
<1>1. ASSUME NEW c \in Clients
      PROVE  /\ \A i, j \in Joins(c)' : i = j
             /\ \A i, j \in Asks(c)'  : i = j
             /\ Joins(c)' = {} \/ Asks(c)' = {}
             /\ c \in joinInfo' \/ proc'[c] = "off" => Joins(c)' = {} /\ Asks(c)' = {}
  <2>1. PICK k \in Nat : \A i \in Joins(c)' : i + k \in Joins(c)
    BY DEF NoNewJoin
  <2>2. PICK l \in Nat : \A i \in Asks(c)' : i + l \in Asks(c)
    BY DEF NoNewAsk
  <2>3. Joins(c)' \subseteq Nat /\ Asks(c)' \subseteq Nat
    <3>1. toServer'[c] \in Seq(UpMsg) /\ toClient'[c] \in Seq(DownMsg)
      BY DEF IInv, TypeOK, NetTypeOK
    <3>2. DOMAIN toServer'[c] \subseteq Nat /\ DOMAIN toClient'[c] \subseteq Nat
      BY <3>1
    <3> QED  BY <3>2 DEF Joins, Asks
  <2>4. /\ \A i, j \in Joins(c) : i = j
        /\ \A i, j \in Asks(c)  : i = j
        /\ Joins(c) = {} \/ Asks(c) = {}
        /\ c \in joinInfo \/ proc[c] = "off" => Joins(c) = {} /\ Asks(c) = {}
    BY DEF JInv, OneStep
  <2>5. \A i, j \in Joins(c)' : i = j
    BY <2>1, <2>3, <2>4
  <2>6. \A i, j \in Asks(c)' : i = j
    BY <2>2, <2>3, <2>4
  <2>7. (Joins(c) = {} => Joins(c)' = {}) /\ (Asks(c) = {} => Asks(c)' = {})
    BY <2>1, <2>2
  <2>8. joinInfo' = joinInfo /\ (proc'[c] = "off" <=> proc[c] = "off")
    BY DEF joinVars
  <2> QED  BY <2>4, <2>5, <2>6, <2>7, <2>8
<1>2. Joined \subseteq Joined'
  <2> SUFFICES ASSUME NEW c \in Joined  PROVE c \in Joined'
    OBVIOUS
  <2>1. /\ c \in neighbors' /\ c \in Clients /\ proc'[c] # "off"
        /\ \A i \in DOMAIN toServer[c] : toServer[c][i].type # "join_in"
    BY DEF Joined, joinVars, IInv, TypeOK, STypeOK
  <2>2. ASSUME NEW i \in DOMAIN toServer'[c], toServer'[c][i].type = "join_in"
        PROVE  FALSE
    <3>1. i \in Joins(c)'
      BY <2>2 DEF Joins
    <3>2. \E j \in DOMAIN toServer[c] : toServer'[c][i] = toServer[c][j]
      BY <2>1, <3>1 DEF NoNewJoin, Joins
    <3> QED  BY <2>1, <2>2, <3>2
  <2> QED  BY <2>1, <2>2 DEF Joined
<1>3. JoinsCounted'
  <2>1. Joined \in SUBSET Clients /\ Joined' \in SUBSET Clients /\ joinNum \in Nat
    BY DEF Joined, IInv, TypeOK, STypeOK
  <2>2. /\ Cardinality(Joined) \in Nat /\ Cardinality(Joined') \in Nat
        /\ Cardinality(Joined) <= Cardinality(Joined')
    BY <1>2, <2>1, MoreCounted
  <2> QED  BY <2>1, <2>2 DEF JInv, JoinsCounted, joinVars
<1> QED  BY <1>1, <1>3 DEF OneStep

\* Every worker was launched, the server knows it, and it is not about to join.
Known ==
  \A c \in Clients :
    /\ c \in neighbors /\ proc[c] # "off"
    /\ \A i \in DOMAIN toServer[c] : toServer[c][i].type # "join_in"

\* When all have joined, it is so.
LEMMA AllKnown ==
  ASSUME IInv, JInv, AllJoined
  PROVE  Known
<1>1. Joined \in SUBSET Clients /\ joinNum \in Nat
  BY DEF Joined, IInv, TypeOK, STypeOK
<1>2. /\ Cardinality(Joined) \in Nat /\ Cardinality(Clients) \in Nat
      /\ Cardinality(Joined) <= Cardinality(Clients)
      /\ Cardinality(Joined) = Cardinality(Clients) => Joined = Clients
  BY <1>1, MoreCounted
<1>3. Joined = Clients
  BY <1>1, <1>2 DEF AllJoined, JInv, JoinsCounted
<1> QED  BY <1>3 DEF Joined, Known

-----------------------------------------------------------------------------
(* What the server sends.                                                  *)

\* The messages a worker works on if it is not past their round.
Work == {"model_para", "evaluate"}

\* The work in inbox a is in the order of its rounds, none of it is behind its
\* worker, and none of it ahead of round r.
Forward(a, r) ==
  \A c \in Clients :
    /\ cState[c] <= r
    /\ \A i \in DOMAIN a[c] : a[c][i].type \in Work =>
         /\ cState[c] <= a[c][i].round
         /\ a[c][i].round <= r
         /\ \A j \in DOMAIN a[c] :
              a[c][j].type \in Work /\ i <= j => a[c][i].round <= a[c][j].round

NoFinish(a) == \A c \in Clients : \A i \in DOMAIN a[c] : a[c][i].type # "finish"

\* Inbox b is inbox a and what the server has sent since, no work of it ahead of
\* round r; the workers are told to finish only if fin.
Grown(a, b, r, fin) ==
  /\ b \in Inboxes
  /\ \A c \in Clients : \A i \in DOMAIN a[c] : i \in DOMAIN b[c] /\ b[c][i] = a[c][i]
  /\ \A c \in Clients : \A i \in DOMAIN b[c] :
       b[c][i].type = "ask_for_join_in_info" => i \in DOMAIN a[c]
  /\ Forward(b, r)
  /\ fin \/ NoFinish(b)

LEMMA InboxMessages ==
  ASSUME NEW b \in Inboxes, NEW c \in Clients
  PROVE  /\ b[c] \in Seq(DownMsg) /\ DOMAIN b[c] \subseteq Nat
         /\ Len(b[c]) \in Nat /\ \A i \in DOMAIN b[c] : i <= Len(b[c])
         /\ \A i \in DOMAIN b[c] : b[c][i] \in DownMsg /\ b[c][i].round \in Nat
<1>1. b[c] \in Seq(DownMsg)
  BY DEF Inboxes
<1>2. ASSUME NEW i \in DOMAIN b[c]
      PROVE  b[c][i] \in DownMsg /\ b[c][i].round \in Nat
  <2>1. b[c][i] \in DownMsg
    BY <1>1
  <2> QED  BY <2>1, RoundsAreNat DEF DownMsg
<1> QED  BY <1>1, <1>2

LEMMA GrownDeliver ==
  ASSUME CTypeOK, NEW a, NEW b, NEW r \in Rounds, NEW q \in Rounds, r <= q, NEW fin,
         Grown(a, b, r, fin), NEW S, NEW m \in DownMsg,
         m.type # "ask_for_join_in_info", m.type \in Work => m.round = q
  PROVE  Grown(a, Deliver(b, S, m), q, fin \/ m.type = "finish")
<1> DEFINE e == Deliver(b, S, m)
<1>1. /\ b \in Inboxes
      /\ \A c \in Clients : \A i \in DOMAIN a[c] : i \in DOMAIN b[c] /\ b[c][i] = a[c][i]
      /\ \A c \in Clients : \A i \in DOMAIN b[c] :
           b[c][i].type = "ask_for_join_in_info" => i \in DOMAIN a[c]
      /\ fin \/ NoFinish(b)
  BY DEF Grown
<1>2. \A c \in Clients : b[c] \in Seq(DownMsg) /\ Len(b[c]) \in Nat
  BY <1>1, InboxMessages
<1>3. e \in Inboxes
  BY <1>2, AppendPositions DEF Deliver, Inboxes
<1>4. ASSUME NEW c \in Clients
      PROVE  /\ \A i \in DOMAIN b[c] : i \in DOMAIN e[c] /\ e[c][i] = b[c][i]
             /\ \A i \in DOMAIN e[c] :
                  \/ i \in DOMAIN b[c] /\ e[c][i] = b[c][i]
                  \/ i = Len(b[c]) + 1 /\ e[c][i] = m
  <2>1. e[c] = b[c] \/ e[c] = Append(b[c], m)
    BY DEF Deliver
  <2> HIDE DEF e
  <2> QED  BY <1>2, <2>1, AppendPositions
<1> HIDE DEF e
<1>5. Forward(e, q)
  <2> SUFFICES ASSUME NEW c \in Clients
               PROVE  /\ cState[c] <= q
                      /\ \A i \in DOMAIN e[c] : e[c][i].type \in Work =>
                           /\ cState[c] <= e[c][i].round
                           /\ e[c][i].round <= q
                           /\ \A j \in DOMAIN e[c] :
                                e[c][j].type \in Work /\ i <= j => e[c][i].round <= e[c][j].round
    BY DEF Forward
  <2>1. /\ cState[c] <= r
        /\ \A i \in DOMAIN b[c] : b[c][i].type \in Work =>
             /\ cState[c] <= b[c][i].round
             /\ b[c][i].round <= r
             /\ \A j \in DOMAIN b[c] :
                  b[c][j].type \in Work /\ i <= j => b[c][i].round <= b[c][j].round
    BY DEF Grown, Forward
  <2>2. cState[c] \in Int /\ r \in Nat /\ q \in Nat
    BY RoundsAreNat DEF CTypeOK
  <2>3. \A i \in DOMAIN b[c] : i \in Nat /\ i <= Len(b[c]) /\ b[c][i].round \in Nat
    BY <1>1, InboxMessages
  <2>4. cState[c] <= q
    BY <2>1, <2>2
  <2>5. ASSUME NEW i \in DOMAIN e[c], e[c][i].type \in Work
        PROVE  cState[c] <= e[c][i].round /\ e[c][i].round <= q /\ e[c][i].round \in Nat
    <3>1. CASE i \in DOMAIN b[c] /\ e[c][i] = b[c][i]
      BY <2>1, <2>2, <2>3, <2>5, <3>1
    <3>2. CASE e[c][i] = m
      BY <2>2, <2>4, <2>5, <3>2
    <3> QED  BY <1>4, <3>1, <3>2
  <2>6. ASSUME NEW i \in DOMAIN e[c], NEW j \in DOMAIN e[c], i <= j,
               e[c][i].type \in Work, e[c][j].type \in Work
        PROVE  e[c][i].round <= e[c][j].round
    <3>1. CASE e[c][j] = m
      BY <2>5, <2>6, <3>1
    <3>2. CASE j \in DOMAIN b[c] /\ e[c][j] = b[c][j]
      <4>1. i \in DOMAIN b[c] /\ e[c][i] = b[c][i]
        BY <1>2, <1>4, <2>3, <2>6, <3>2
      <4> QED  BY <2>1, <2>6, <3>2, <4>1
    <3> QED  BY <1>4, <3>1, <3>2
  <2> QED  BY <2>4, <2>5, <2>6
<1>6. \A c \in Clients : \A i \in DOMAIN a[c] : i \in DOMAIN e[c] /\ e[c][i] = a[c][i]
  BY <1>1, <1>4
<1>7. \A c \in Clients : \A i \in DOMAIN e[c] :
        e[c][i].type = "ask_for_join_in_info" => i \in DOMAIN a[c]
  BY <1>1, <1>4
<1>8. (fin \/ m.type = "finish") \/ NoFinish(e)
  BY <1>1, <1>4 DEF NoFinish
<1> QED  BY <1>3, <1>5, <1>6, <1>7, <1>8 DEF Grown, e

\* The same when the message is no work: the bound may grow by itself.
LEMMA GrownLater ==
  ASSUME CTypeOK, NEW a, NEW b, NEW r \in Rounds, NEW q \in Rounds, r <= q, NEW fin,
         Grown(a, b, r, fin)
  PROVE  Grown(a, b, q, fin)
<1>1. ASSUME NEW c \in Clients
      PROVE  /\ cState[c] <= q
             /\ \A i \in DOMAIN b[c] : b[c][i].type \in Work => b[c][i].round <= q
  <2>1. cState[c] \in Int /\ r \in Nat /\ q \in Nat
    BY RoundsAreNat DEF CTypeOK
  <2>2. \A i \in DOMAIN b[c] : b[c][i].round \in Nat
    BY InboxMessages DEF Grown
  <2> QED  BY <2>1, <2>2 DEF Grown, Forward
<1> QED  BY <1>1 DEF Grown, Forward

\* The rounds messages are dated with.
LEMMA CappedRounds ==
  ASSUME NEW s \in Rounds
  PROVE  /\ Capped(s) \in Rounds /\ Capped(s) <= s /\ Capped(s) <= TotalRounds
         /\ \A t \in Rounds : s <= t => Capped(s) <= Capped(t)
  BY RoundsAreNat DEF Capped, Rounds

LEMMA CheckAndSaveGrown ==
  ASSUME CTypeOK, NEW a, NEW b, NEW r \in Rounds, NEW fin, Grown(a, b, r, fin),
         NEW s \in Rounds, NEW stop \in BOOLEAN
  PROVE  LET res == CheckAndSave(s, b, stop)
         IN  /\ Grown(a, res.inbox, r, fin \/ res.finished)
             /\ res.finished => res.state = TotalRounds + 1
             /\ res.state \in {s, TotalRounds + 1}
             /\ res.finished \in BOOLEAN
<1> DEFINE s1     == IF stop THEN TotalRounds + 1 ELSE s
           warned == IF stop THEN Deliver(b, neighbors, Msg("converged", s)) ELSE b
           last   == stop \/ s1 = TotalRounds
           res    == CheckAndSave(s, b, stop)
<1>1. s1 \in Rounds /\ TotalRounds \in Nat /\ r <= r
  BY RoundsAreNat DEF Rounds
<1>2. /\ Msg("converged", s) \in DownMsg /\ Msg("finish", s1) \in DownMsg
      /\ Msg("converged", s).type = "converged" /\ Msg("finish", s1).type = "finish"
  BY <1>1 DEF Msg, DownMsg
<1>3. Grown(a, warned, r, fin)
  <2>1. CASE stop
    <3>1. Grown(a, Deliver(b, neighbors, Msg("converged", s)), r, fin \/ FALSE)
      BY <1>1, <1>2, GrownDeliver DEF Work
    <3> QED  BY <2>1, <3>1 DEF Grown
  <2> QED  BY <2>1
<1>4. /\ res.inbox = IF last THEN Deliver(warned, neighbors, Msg("finish", s1)) ELSE warned
      /\ res.finished = last
      /\ res.state = IF s1 = TotalRounds THEN TotalRounds + 1 ELSE s1
  BY DEF CheckAndSave
<1>5. Grown(a, Deliver(warned, neighbors, Msg("finish", s1)), r, TRUE)
  <2> HIDE DEF warned
  <2> DEFINE told == Deliver(warned, neighbors, Msg("finish", s1))
  <2>1. Grown(a, told, r, fin \/ TRUE)
    BY <1>1, <1>2, <1>3, GrownDeliver DEF Work
  <2> HIDE DEF told
  <2>2. Grown(a, told, r, TRUE)
    BY <2>1 DEF Grown
  <2> QED  BY <2>2 DEF told
<1>6. Grown(a, res.inbox, r, fin \/ res.finished)
  <2> HIDE DEF warned, res
  <2>1. CASE last
    <3>1. Grown(a, res.inbox, r, TRUE) /\ res.finished
      BY <1>4, <1>5, <2>1
    <3> HIDE DEF last
    <3> QED  BY <3>1 DEF Grown
  <2>2. CASE ~last
    <3>1. Grown(a, res.inbox, r, fin) /\ ~res.finished
      BY <1>3, <1>4, <2>2
    <3> HIDE DEF last
    <3> QED  BY <3>1 DEF Grown
  <2> QED  BY <2>1, <2>2
<1> QED  BY <1>1, <1>4, <1>6

LEMMA EvalGrown ==
  ASSUME CTypeOK, NEW a, NEW b, NEW r \in Rounds, NEW fin, Grown(a, b, r, fin),
         NEW s \in Rounds \ {0}, r <= Capped(s - 1), NEW stop \in BOOLEAN
  PROVE  LET res == Eval(s, b, stop)
         IN  /\ Grown(a, res.inbox, Capped(s - 1), fin \/ res.finished)
             /\ res.finished => res.state = TotalRounds + 1
             /\ res.state \in {s, TotalRounds + 1}
             /\ res.finished \in BOOLEAN
<1>1. s - 1 \in Rounds /\ Capped(s - 1) \in Rounds
  BY RoundsAreNat DEF Rounds, Capped
<1>2. CASE GlobalEval
  <2>1. Grown(a, b, Capped(s - 1), fin)
    BY <1>1, GrownLater
  <2> QED  BY <1>1, <1>2, <2>1, CheckAndSaveGrown DEF Eval
<1>3. CASE ~GlobalEval
  <2>1. /\ Msg("evaluate", Capped(s - 1)) \in DownMsg
        /\ Msg("evaluate", Capped(s - 1)).type = "evaluate"
        /\ Msg("evaluate", Capped(s - 1)).round = Capped(s - 1)
    BY <1>1 DEF Msg, DownMsg
  <2>2. Grown(a, EvaluateRequest(b, s), Capped(s - 1), fin \/ FALSE)
    BY <1>1, <2>1, GrownDeliver DEF EvaluateRequest
  <2> QED  BY <1>3, <2>2 DEF Eval, Grown
<1> QED  BY <1>2, <1>3

-----------------------------------------------------------------------------
(* The server looks at its training buffer.                                *)

\* The course still needs its workers.
Serving == pc = "listening" /\ state <= TotalRounds

\* Who was idle, runs, and was sampled has a model in its channel.
Tasked(free) ==
  \A c \in Clients :
    c \in free /\ c \notin idle' /\ c \in neighbors' /\ proc[c] = "up"
      => \E i \in DOMAIN toClient'[c] : toClient'[c][i].type = "model_para"

\* What the server has done to the channels, which were a, and to the sampler's idle
\* workers, which were those in free.
Served(a, free) ==
  /\ Grown(a, toClient', Capped(state'), ~Serving')
  /\ isFinish' => isFinish \/ ~Serving'
  /\ Tasked(free)

LEMMA BroadcastServed ==
  ASSUME CTypeOK, NEW a, NEW b, NEW r \in Rounds, NEW fin, Grown(a, b, r, fin),
         NEW s \in Rounds, r <= Capped(s), NEW free, NEW size,
         BroadcastModelPara(b, free, size, s)
  PROVE  Grown(a, toClient', Capped(s), fin) /\ Tasked(free)
<1> DEFINE m == Msg("model_para", Capped(s))
<1>1. /\ Capped(s) \in Rounds
      /\ m \in DownMsg /\ m.type = "model_para" /\ m.round = Capped(s)
  BY CappedRounds DEF Msg, DownMsg
<1>2. b \in Inboxes
  BY DEF Grown
<1> HIDE DEF m
<1>3. CASE size > Cardinality(free \ Unseen)
  <2>1. idle' = free /\ toClient' = b
    BY <1>3 DEF BroadcastModelPara
  <2> QED  BY <1>1, <2>1, GrownLater DEF Tasked
<1>4. CASE ~(size > Cardinality(free \ Unseen))
  <2>1. PICK S \in Samples(free \ Unseen, size) :
          /\ idle' = (free \ S) \cup Unseen
          /\ toClient' = Deliver(b, S \cap neighbors', m)
    BY <1>4 DEF BroadcastModelPara, m
  <2>2. Grown(a, toClient', Capped(s), fin)
    <3>1. Grown(a, Deliver(b, S \cap neighbors', m), Capped(s), fin \/ m.type = "finish")
      BY <1>1, GrownDeliver
    <3> QED  BY <1>1, <2>1, <3>1 DEF Grown
  <2>3. ASSUME NEW c \in Clients,
               c \in free, c \notin idle', c \in neighbors', proc[c] = "up"
        PROVE  \E i \in DOMAIN toClient'[c] : toClient'[c][i].type = "model_para"
    <3>1. toClient'[c] = Append(b[c], m)
      BY <2>1, <2>3 DEF Deliver
    <3>2. b[c] \in Seq(DownMsg)
      BY <1>2, InboxMessages
    <3>3. Len(b[c]) + 1 \in DOMAIN toClient'[c] /\ toClient'[c][Len(b[c]) + 1] = m
      BY <1>1, <3>1, <3>2, AppendPositions
    <3> QED  BY <1>1, <3>3
  <2> QED  BY <2>2, <2>3 DEF Tasked
<1> QED  BY <1>3, <1>4

LEMMA NoBroadcastServed ==
  ASSUME CTypeOK, NEW a, NEW b, NEW r \in Rounds, NEW fin, Grown(a, b, r, fin),
         NEW s \in Rounds, r <= Capped(s), NEW free, NoBroadcast(b, free)
  PROVE  Grown(a, toClient', Capped(s), fin) /\ Tasked(free)
  BY CappedRounds, GrownLater DEF NoBroadcast, Tasked

LEMMA AggregateServed ==
  ASSUME CTypeOK, NEW free, NEW f, NEW keyed, NEW st, NEW d, NEW extra,
         Handed(free, f, keyed, st, d),
         Grown(toClient, toClient, Capped(state), FALSE),
         Aggregate(free, f, st, d, extra)
  PROVE  Served(toClient, free)
<1> DEFINE s1  == state + 1
           due == s1 % EvalFreq = 0 /\ s1 # TotalRounds
           mid(stop) == IF due THEN Eval(s1, toClient, stop)
                        ELSE [state |-> s1, inbox |-> toClient, finished |-> FALSE]
<1>1. /\ s1 \in Rounds \ {0} /\ state \in Rounds /\ s1 - 1 = state
      /\ TotalRounds \in Nat /\ TotalRounds + 1 \in Rounds
      /\ s1 \in Nat /\ s1 <= TotalRounds + 1
  BY RoundsAreNat DEF Handed, Rounds
<1>2. PICK stop \in BOOLEAN :
        IF MoreRounds(mid(stop).state)
          THEN NextRound(mid(stop), free, f, st, d, extra)
          ELSE FinalEval(mid(stop), free, st, d, extra)
  BY VerdictsAreBooleans DEF Aggregate
<1>3. /\ Grown(toClient, mid(stop).inbox, Capped(state), mid(stop).finished)
      /\ mid(stop).finished => mid(stop).state = TotalRounds + 1
      /\ mid(stop).state \in {s1, TotalRounds + 1}
      /\ mid(stop).finished \in BOOLEAN
  <2>1. CASE due
    <3>1. mid(stop) = Eval(s1, toClient, stop)
      BY <2>1
    <3> HIDE DEF s1, mid, due
    <3>2. Capped(state) \in Rounds /\ Capped(state) <= Capped(s1 - 1)
      BY <1>1, CappedRounds, RoundsAreNat
    <3> DEFINE res == Eval(s1, toClient, stop)
    <3>3. PICK no : no = FALSE
      OBVIOUS
    <3>4. Grown(toClient, toClient, Capped(state), no)
      BY <3>3
    <3>5. /\ Grown(toClient, res.inbox, Capped(s1 - 1), no \/ res.finished)
          /\ res.finished => res.state = TotalRounds + 1
          /\ res.state \in {s1, TotalRounds + 1}
          /\ res.finished \in BOOLEAN
      <4>1. s1 \in Rounds \ {0} /\ Capped(state) <= Capped(s1 - 1)
        BY <1>1, <3>2
      <4>2. Capped(state) \in Rounds /\ stop \in BOOLEAN
        BY <3>2
      <4> QED  BY <3>4, <4>1, <4>2, EvalGrown
    <3>6. Grown(toClient, res.inbox, Capped(state), res.finished)
      <4>1. s1 - 1 = state
        BY <1>1
      <4> QED  BY <3>3, <3>5, <4>1 DEF Grown
    <3> QED  BY <3>1, <3>5, <3>6
  <2>2. CASE ~due
    BY <1>1, <2>2
  <2> QED  BY <2>1, <2>2
<1>4. mid(stop).state \in Rounds \ {0} /\ s1 <= mid(stop).state
  BY <1>1, <1>3, RoundsAreNat
<1> HIDE DEF mid, s1, due
<1>5. CASE MoreRounds(mid(stop).state)
  <2>1. /\ state' = mid(stop).state
        /\ isFinish' = (isFinish \/ mid(stop).finished)
        /\ \/ \E n : BroadcastModelPara(mid(stop).inbox, free, n, mid(stop).state)
           \/ NoBroadcast(mid(stop).inbox, free)
    BY <1>2, <1>5 DEF NextRound
  <2>2. mid(stop).state = s1 /\ ~mid(stop).finished
    BY <1>1, <1>3, <1>5 DEF MoreRounds
  <2>3. /\ Capped(state) \in Rounds /\ Capped(state) <= Capped(mid(stop).state)
    <3>1. state <= s1
      BY <1>1, RoundsAreNat DEF s1
    <3> QED  BY <1>1, <2>2, <3>1, CappedRounds
  <2>4. Grown(toClient, toClient', Capped(state'), mid(stop).finished) /\ Tasked(free)
    BY <1>3, <1>4, <2>1, <2>3, BroadcastServed, NoBroadcastServed
  <2>5. Grown(toClient, toClient', Capped(state'), ~Serving')
    BY <2>2, <2>4 DEF Grown
  <2> QED  BY <2>1, <2>2, <2>4, <2>5 DEF Served
<1>6. CASE ~MoreRounds(mid(stop).state)
  <2> DEFINE fin(v) == Eval(mid(stop).state, mid(stop).inbox, v)
  <2>1. PICK v \in BOOLEAN :
          /\ state' = fin(v).state
          /\ isFinish' = (isFinish \/ mid(stop).finished \/ fin(v).finished)
          /\ \/ BroadcastModelPara(fin(v).inbox, free, extra, fin(v).state)
             \/ NoBroadcast(fin(v).inbox, free)
    BY <1>2, <1>6, VerdictsAreBooleans DEF FinalEval
  <2> DEFINE r == Capped(mid(stop).state - 1)
  <2>2. /\ Capped(state) \in Rounds /\ Capped(state) <= r /\ r \in Rounds
    <3>1. state <= mid(stop).state - 1 /\ mid(stop).state - 1 \in Rounds
      BY <1>1, <1>4, RoundsAreNat DEF Rounds
    <3> QED  BY <1>1, <3>1, CappedRounds
  <2>3. /\ Grown(toClient, fin(v).inbox, r, mid(stop).finished \/ fin(v).finished)
        /\ fin(v).finished => fin(v).state = TotalRounds + 1
        /\ fin(v).state \in {mid(stop).state, TotalRounds + 1}
    BY <1>3, <1>4, <2>2, EvalGrown
  <2>4. fin(v).state \in Rounds /\ r <= Capped(fin(v).state)
    <3>1. /\ fin(v).state \in Rounds /\ mid(stop).state - 1 \in Rounds
          /\ mid(stop).state - 1 <= fin(v).state
      BY <1>1, <1>4, <2>3, RoundsAreNat DEF Rounds
    <3> QED  BY <3>1, CappedRounds
  <2>5. mid(stop).finished \/ fin(v).finished => fin(v).state = TotalRounds + 1
    BY <1>3, <2>3
  <2> HIDE DEF fin, r
  <2>6. /\ Grown(toClient, toClient', Capped(state'), mid(stop).finished \/ fin(v).finished)
        /\ Tasked(free)
    BY <2>1, <2>2, <2>3, <2>4, BroadcastServed, NoBroadcastServed
  <2>7. mid(stop).finished \/ fin(v).finished => ~Serving'
    BY <1>1, <2>1, <2>5 DEF Serving
  <2>8. Grown(toClient, toClient', Capped(state'), ~Serving')
    BY <2>6, <2>7 DEF Grown
  <2> QED  BY <2>1, <2>6, <2>7, <2>8 DEF Served
<1> QED  BY <1>5, <1>6

LEMMA MoveOnServed ==
  ASSUME CTypeOK, NEW free, NEW f, NEW keyed, NEW st, NEW d, NEW extra,
         Handed(free, f, keyed, st, d),
         Grown(toClient, toClient, Capped(state), FALSE),
         CheckAndMoveOn(free, f, keyed, st, d, extra)
  PROVE  Served(toClient, free)
<1>1. state \in Rounds /\ Capped(state) \in Rounds /\ Capped(state) <= Capped(state)
  BY CappedRounds, RoundsAreNat DEF Handed, Rounds
<1>2. ASSUME Grown(toClient, toClient', Capped(state), FALSE), Tasked(free),
             UNCHANGED <<state, isFinish>>
      PROVE  Served(toClient, free)
  BY <1>2 DEF Served, Grown
<1>3. CASE Wait(free, f, keyed, st, d, extra)
  BY <1>1, <1>2, <1>3, BroadcastServed, NoBroadcastServed DEF Wait, Keep
<1>4. CASE Aggregate(free, f, st, d, extra)
  BY <1>4, AggregateServed
<1>5. CASE KeyError(free, f, st, d)
  BY <1>2, <1>5 DEF KeyError, Keep, Tasked
<1> QED
  BY <1>3, <1>4, <1>5 DEF CheckAndMoveOn, Handed

-----------------------------------------------------------------------------
(* The server's steps.                                                     *)

\* As long as the course needs its workers none is told to finish and none stops.
Open ==
  Serving => /\ ~isFinish
             /\ NoFinish(toClient)
             /\ \A c \in Clients : proc[c] # "stopped"

\* Without a crash no worker is dead.
NoneDead == faults.crash = 0 => \A c \in Clients : proc[c] # "dead"

\* The inductive invariant, on top of those of joining and of FedCourseProofs.
DInv ==
  /\ Forward(toClient, Capped(state))
  /\ Open
  /\ NoneDead
  /\ NoSlotLost

LEMMA ListeningServes ==
  ASSUME IInv, JInv, Listening
  PROVE  Serving
  BY RoundsAreNat DEF Listening, Serving, JInv, Prelude

LEMMA AllKnownNext == (IInv /\ JInv /\ AllJoined)' => Known'
<1>1. IInv /\ JInv /\ AllJoined => Known
  BY AllKnown
<1> QED  BY <1>1, PTL

\* The channels when a step begins.
LEMMA StartGrown ==
  ASSUME IInv, DInv, Serving
  PROVE  /\ Grown(toClient, toClient, Capped(state), FALSE)
         /\ CTypeOK /\ state \in Rounds /\ Capped(state) \in Rounds
         /\ Capped(state) <= Capped(state) /\ idle \subseteq Clients
<1>1. toClient \in Inboxes /\ state \in Rounds
  BY ChannelsTyped DEF IInv, TypeOK, STypeOK
<1>2. Capped(state) \in Rounds /\ Capped(state) <= Capped(state)
  BY <1>1, CappedRounds, RoundsAreNat
<1> QED  BY <1>1, <1>2 DEF Grown, DInv, Open, IInv, TypeOK, STypeOK

\* A worker whose tasks are not touched keeps them, and one that is sampled gets one.
LEMMA ServedKeepsDInv ==
  ASSUME IInv, JInv, IInv', JInv', DInv, Serving, UNCHANGED <<cVars, proc, faults>>,
         NEW a, NEW free, Served(a, free), idle \subseteq free,
         Quiet(a, toClient), \A c \in Clients : DOMAIN toClient[c] \subseteq DOMAIN a[c],
         \A c \in Clients \ free : Updates(c) # {} => Updates(c)' # {},
         AllJoined' \/ idle' = free
  PROVE  DInv'
<1>1. /\ Grown(a, toClient', Capped(state'), ~Serving')
      /\ isFinish' => isFinish \/ ~Serving'
      /\ Tasked(free)
  BY DEF Served
<1>2. Forward(toClient, Capped(state))'
  BY <1>1 DEF Grown, Forward, cVars, Capped
<1>3. /\ ~isFinish /\ NoFinish(toClient)
      /\ \A c \in Clients : proc[c] # "stopped"
      /\ NoneDead
  BY DEF DInv, Open
<1>4. Open'
  BY <1>1, <1>3 DEF Open, Grown, NoFinish
<1>5. NoneDead'
  BY <1>3 DEF NoneDead
<1>6. ASSUME Listening', (faults = [loss |-> 0, crash |-> 0])',
             NEW c \in Clients, c \notin idle'
      PROVE  Busy(c)'
  <2>1. CASE c \in free
    <3>1. c \in neighbors' /\ proc[c] # "off"
      BY <1>6, <2>1, AllKnownNext DEF Known
    <3>2. proc[c] # "stopped" /\ proc[c] # "dead"
      BY <1>3, <1>6 DEF NoneDead
    <3>3. proc[c] = "up"
      BY <3>1, <3>2 DEF IInv, TypeOK, NetTypeOK
    <3> QED  BY <1>1, <1>6, <2>1, <3>1, <3>3 DEF Tasked, Busy, Models
  <2>2. CASE c \notin free
    <3>1. Busy(c)
      <4>1. Listening /\ faults = [loss |-> 0, crash |-> 0] /\ c \notin idle
        BY <1>6, <2>2 DEF Serving, Listening
      <4> QED  BY <4>1 DEF DInv, NoSlotLost
    <3>2. Updates(c) # {} => Updates(c)' # {}
      BY <2>2
    <3>3. ASSUME NEW i \in Models(c)
          PROVE  i \in Models(c)'
      <4>1. i \in DOMAIN toClient[c] /\ toClient[c][i].type = "model_para"
        BY DEF Models
      <4>2. i \in DOMAIN a[c] /\ a[c][i] = toClient[c][i]
        BY <4>1 DEF Quiet, Notable
      <4>3. i \in DOMAIN toClient'[c] /\ toClient'[c][i] = a[c][i]
        BY <1>1, <4>2 DEF Grown
      <4> QED  BY <4>1, <4>2, <4>3 DEF Models
    <3> QED  BY <3>1, <3>2, <3>3 DEF Busy
  <2> QED  BY <2>1, <2>2
<1> QED  BY <1>2, <1>4, <1>5, <1>6 DEF DInv, NoSlotLost

\* Reading a message starts no step of joining.
LEMMA ConsumeJoins ==
  ASSUME IInv, NEW c \in Clients, toServer[c] # <<>>, toServer' = Consume(c)
  PROVE  NoNewJoin
<1> SUFFICES ASSUME NEW d \in Clients
             PROVE  \E k \in Nat : \A i \in Joins(d)' :
                      i + k \in Joins(d) /\ toServer'[d][i] = toServer[d][i + k]
  BY DEF NoNewJoin
<1>1. CASE d = c
  <2>1. \A i \in Joins(d)' : i + 1 \in Joins(d) /\ toServer'[d][i] = toServer[d][i + 1]
    BY <1>1, ConsumePositions DEF Joins, IInv
  <2> QED  BY <2>1
<1>2. CASE d # c
  <2>1. toServer'[d] = toServer[d] /\ DOMAIN toServer[d] \subseteq Nat
    BY <1>2, ConsumePositions, ChannelsTyped DEF IInv
  <2>2. \A i \in Joins(d)' : i + 0 \in Joins(d) /\ toServer'[d][i] = toServer[d][i + 0]
    BY <2>1 DEF Joins
  <2> QED  BY <2>2
<1> QED  BY <1>1, <1>2

\* Reading a message that is no update takes no update away.
LEMMA OtherUpdatesStay ==
  ASSUME IInv, NEW c \in Clients, toServer[c] # <<>>, toServer' = Consume(c),
         ~Arrived(c, "model_para")
  PROVE  \A d \in Clients : Updates(d) # {} => Updates(d)' # {}
<1> SUFFICES ASSUME NEW d \in Clients, NEW i \in Updates(d)  PROVE Updates(d)' # {}
  OBVIOUS
<1>1. CASE d # c
  BY <1>1, ConsumePositions DEF Updates, IInv
<1>2. CASE d = c
  <2>1. toServer[c] \in Seq(UpMsg) /\ toServer'[c] = Tail(toServer[c])
    BY ChannelsTyped DEF Consume, Outboxes
  <2>2. i \in DOMAIN toServer[c] /\ i # 1 /\ toServer[c][i].type = "model_para"
    BY <1>2, <2>1 DEF Updates, Arrived
  <2>3. i - 1 \in DOMAIN toServer'[c] /\ toServer'[c][i - 1] = toServer[c][i]
    BY <2>1, <2>2
  <2> QED  BY <1>2, <2>2, <2>3 DEF Updates
<1> QED  BY <1>1, <1>2

LEMMA SameJoins ==
  ASSUME IInv, toServer' = toServer
  PROVE  NoNewJoin
<1>1. ASSUME NEW d \in Clients, NEW i \in Joins(d)'
      PROVE  i + 0 \in Joins(d) /\ toServer'[d][i] = toServer[d][i + 0]
  <2>1. i \in Joins(d) /\ i \in Nat
    BY ChannelsTyped DEF Joins
  <2> QED  BY <2>1
<1> QED  BY <1>1 DEF NoNewJoin

LEMMA GrownAsks ==
  ASSUME IInv, NEW r, NEW fin, Grown(toClient, toClient', r, fin)
  PROVE  NoNewAsk
<1>1. ASSUME NEW d \in Clients, NEW i \in Asks(d)'
      PROVE  i + 0 \in Asks(d)
  <2>1. i \in Asks(d) /\ i \in Nat
    BY ChannelsTyped DEF Asks, Grown
  <2> QED  BY <2>1
<1> QED  BY <1>1 DEF NoNewAsk

\* Once all have joined, a step of the server that starts no joining keeps JInv.
LEMMA ServedKeepsJInv ==
  ASSUME IInv, IInv', JInv, AllJoined, NEW free, Served(toClient, free),
         NoNewJoin, UNCHANGED <<joinVars, proc>>
  PROVE  JInv'
<1>1. NoNewAsk
  BY GrownAsks DEF Served
<1>2. OneStep' /\ JoinsCounted'
  BY <1>1, JoinsStay
<1>3. AllJoined'
  BY DEF AllJoined, joinVars
<1>4. Launched'
  BY DEF JInv, Launched, joinVars
<1> QED  BY <1>2, <1>3, <1>4 DEF JInv, Prelude

LEMMA IsHanded ==
  ASSUME IInv, Serving, NEW free \in SUBSET Clients, NEW f \in SUBSET Clients,
         NEW keyed \in BOOLEAN, NEW st \in SUBSET (Rounds \X Clients), NEW d \in Nat
  PROVE  Handed(free, f, keyed, st, d)
<1>1. pc = "listening" /\ state \in 0 .. TotalRounds
  <2>1. state \in Rounds
    BY DEF IInv, TypeOK, STypeOK
  <2> QED  BY <2>1, RoundsAreNat DEF Serving, Rounds
<1>2. toClient \in Inboxes
  BY ChannelsTyped
<1>3. /\ isFinish \in BOOLEAN /\ restarts \in Nat
      /\ agg \in [round : {-1} \cup Rounds, from : SUBSET (Rounds \X Clients), count : Nat]
  BY DEF IInv, TypeOK, STypeOK
<1> QED  BY <1>1, <1>2, <1>3 DEF Handed

LEMMA ModelParaKeepsDInv ==
  ASSUME IInv, IInv', CInv, JInv, DInv, NEW c \in Clients,
         HandleModelPara(c), UNCHANGED <<cVars, proc, faults>>
  PROVE  JInv' /\ DInv'
<1>1. /\ Listening /\ Arrived(c, "model_para") /\ toServer[c] # <<>>
      /\ toServer' = Consume(c)
      /\ UNCHANGED joinVars
  BY DEF HandleModelPara, Arrived
<1>2. Serving /\ ~isFinish
  BY <1>1, ListeningServes DEF DInv, Open
<1>3. 1 \in Updates(c) /\ toServer[c][1] = Head(toServer[c])
  BY <1>1, ConsumePositions DEF Arrived, Updates, IInv
<1>4. AllJoined /\ AllJoined'
  BY <1>1, <1>3 DEF IInv, WorkAfterJoining, Busy, AllJoined, joinVars
<1>5. PICK f, keyed, st, d, extra :
        /\ CheckAndMoveOn(idle \cup {c}, f, keyed, st, d, extra)
        /\ Handed(idle \cup {c}, f, keyed, st, d)
  <2> DEFINE r     == Head(toServer[c]).round
             now   == r = state
             late  == ~now /\ Tolerated(r)
             f     == IF now THEN fresh \cup {c} ELSE fresh
             keyed == hasRound \/ now
             st    == IF late THEN staled \cup {<<r, c>>} ELSE staled
             d     == IF now \/ late THEN dropout ELSE dropout + 1
             extra == IF AfterReceiving THEN 1 ELSE 0
  <2>1. CheckAndMoveOn(idle \cup {c}, f, keyed, st, d, extra)
    BY <1>2 DEF HandleModelPara
  <2>2. r \in Rounds
    BY <1>1, ConsumePositions DEF UpMsg, IInv
  <2>3. /\ idle \cup {c} \in SUBSET Clients /\ f \in SUBSET Clients
        /\ keyed \in BOOLEAN /\ st \in SUBSET (Rounds \X Clients) /\ d \in Nat
    BY <2>2 DEF IInv, TypeOK, STypeOK
  <2>4. Handed(idle \cup {c}, f, keyed, st, d)
    <3> HIDE DEF f, keyed, st, d
    <3> QED  BY <1>2, <2>3, IsHanded
  <2> QED  BY <2>1, <2>4
<1>6. Served(toClient, idle \cup {c})
  <2>1. CTypeOK /\ Grown(toClient, toClient, Capped(state), FALSE)
    BY <1>2, StartGrown
  <2> QED  BY <1>5, <2>1, MoveOnServed
<1>7. NoNewJoin
  BY <1>1, ConsumeJoins
<1>8. JInv'
  BY <1>1, <1>4, <1>6, <1>7, ServedKeepsJInv
<1>9. \A e \in Clients \ (idle \cup {c}) : Updates(e) # {} => Updates(e)' # {}
  BY <1>1, ConsumePositions DEF IInv, Updates
<1>10. DInv'
  <2>1. toClient \in Inboxes
    BY ChannelsTyped
  <2> QED  BY <1>2, <1>4, <1>6, <1>8, <1>9, <2>1, QuietSame, ServedKeepsDInv
<1> QED  BY <1>8, <1>10

LEMMA MetricsKeepDInv ==
  ASSUME IInv, IInv', JInv, DInv, NEW c \in Clients,
         HandleMetrics(c), UNCHANGED <<cVars, proc, faults>>
  PROVE  JInv' /\ DInv'
<1>1. /\ Listening /\ Arrived(c, "metrics") /\ toServer[c] # <<>>
      /\ toServer' = Consume(c)
      /\ UNCHANGED <<joinVars, idle, pc>>
  BY DEF HandleMetrics, Arrived
<1>2. Serving
  BY <1>1, ListeningServes
<1>3. AllJoined /\ AllJoined'
  <2>1. 1 \in DOMAIN toServer[c] /\ toServer[c][1].type = "metrics"
    BY <1>1, ConsumePositions DEF Arrived, IInv
  <2> QED  BY <1>1, <2>1 DEF JInv, Prelude, AllJoined, joinVars
<1>4. Served(toClient, idle)
  <2>1. /\ Grown(toClient, toClient, Capped(state), FALSE)
        /\ CTypeOK /\ state \in Rounds /\ Capped(state) \in Rounds
    BY <1>2, StartGrown
  <2>2. Tasked(idle)
    BY <1>1 DEF Tasked
  <2>3. CASE UNCHANGED <<state, toClient, isFinish>>
    BY <2>1, <2>2, <2>3 DEF Served, Grown
  <2>4. ASSUME NEW stop \in BOOLEAN,
               state' = CheckAndSave(state, toClient, stop).state,
               toClient' = CheckAndSave(state, toClient, stop).inbox,
               isFinish' = (isFinish \/ CheckAndSave(state, toClient, stop).finished)
        PROVE  Served(toClient, idle)
    <3> DEFINE res == CheckAndSave(state, toClient, stop)
    <3>1. PICK no : no = FALSE
      OBVIOUS
    <3>2. Grown(toClient, toClient, Capped(state), no)
      BY <2>1, <3>1
    <3>3. /\ Grown(toClient, res.inbox, Capped(state), no \/ res.finished)
          /\ res.finished => res.state = TotalRounds + 1
          /\ res.state \in {state, TotalRounds + 1}
      BY <2>1, <3>2, CheckAndSaveGrown
    <3> HIDE DEF res
    <3>4. state' = res.state /\ toClient' = res.inbox /\ isFinish' = (isFinish \/ res.finished)
      BY <2>4 DEF res
    <3>5. res.finished => ~Serving'
      BY <3>3, <3>4, RoundsAreNat DEF Serving
    <3>6. Capped(state) <= Capped(state') /\ Capped(state') \in Rounds
      <4>1. state' \in Rounds /\ state <= state'
        BY <2>1, <3>3, <3>4, RoundsAreNat DEF Rounds
      <4> QED  BY <2>1, <4>1, CappedRounds
    <3>7. Grown(toClient, toClient', Capped(state'), ~Serving')
      <4>1. Grown(toClient, toClient', Capped(state'), no \/ res.finished)
        BY <2>1, <3>3, <3>4, <3>6, GrownLater
      <4> QED  BY <3>1, <3>5, <4>1 DEF Grown
    <3> QED  BY <2>2, <3>4, <3>5, <3>7 DEF Served
  <2>5. \/ UNCHANGED <<state, toClient, isFinish>>
        \/ \E stop \in BOOLEAN :
             /\ state' = CheckAndSave(state, toClient, stop).state
             /\ toClient' = CheckAndSave(state, toClient, stop).inbox
             /\ isFinish' = (isFinish \/ CheckAndSave(state, toClient, stop).finished)
    BY VerdictsAreBooleans DEF HandleMetrics
  <2> QED  BY <2>3, <2>4, <2>5
<1>5. JInv'
  BY <1>1, <1>3, <1>4, ConsumeJoins, ServedKeepsJInv
<1>6. DInv'
  <2>1. \A d \in Clients : Updates(d) # {} => Updates(d)' # {}
    BY <1>1, OtherUpdatesStay DEF Arrived
  <2>2. toClient \in Inboxes
    BY ChannelsTyped
  <2> QED  BY <1>2, <1>3, <1>4, <1>5, <2>1, <2>2, QuietSame, ServedKeepsDInv
<1> QED  BY <1>5, <1>6

\* The alarm went off.
LEMMA TimeUpKeepsDInv ==
  ASSUME IInv, IInv', JInv, DInv, TimeUp, UNCHANGED <<cVars, proc, faults>>
  PROVE  JInv' /\ DInv'
<1>1. /\ Listening /\ AllJoined /\ UNCHANGED <<joinVars, toServer>> /\ AllJoined'
  BY DEF TimeUp, AllJoined, joinVars
<1>2. /\ Serving
      /\ Grown(toClient, toClient, Capped(state), FALSE)
      /\ CTypeOK /\ state \in Rounds /\ Capped(state) \in Rounds
      /\ Capped(state) <= Capped(state)
  BY <1>1, ListeningServes, StartGrown
<1>3. Served(toClient, idle)
  <2>1. CASE TrainQuorum(fresh, staled)
    <3>1. CheckAndMoveOn(idle, fresh, hasRound, staled, dropout, 0)
      BY <2>1 DEF TimeUp
    <3>2. Handed(idle, fresh, hasRound, staled, dropout)
      <4>1. /\ idle \in SUBSET Clients /\ fresh \in SUBSET Clients /\ hasRound \in BOOLEAN
            /\ staled \in SUBSET (Rounds \X Clients) /\ dropout \in Nat
        BY DEF IInv, TypeOK, STypeOK
      <4> QED  BY <1>2, <4>1, IsHanded
    <3> QED  BY <1>2, <3>1, <3>2, MoveOnServed
  <2>2. CASE ~TrainQuorum(fresh, staled) /\ BroadcastModelPara(toClient, idle, SampleNum, state)
                /\ UNCHANGED <<state, isFinish>>
    <3>1. Grown(toClient, toClient', Capped(state), FALSE) /\ Tasked(idle)
      BY <1>2, <2>2, BroadcastServed
    <3> QED  BY <2>2, <3>1 DEF Served, Grown
  <2>3. CASE Terminate /\ UNCHANGED <<state, idle>>
    <3>1. ~Serving'
      BY <2>3 DEF Terminate, Serving
    <3> DEFINE m == Msg("finish", state)
    <3>2. m \in DownMsg /\ m.type = "finish" /\ toClient' = Deliver(toClient, neighbors, m)
      BY <1>2, <2>3 DEF Msg, DownMsg, Terminate
    <3> HIDE DEF m
    <3>3. Grown(toClient, toClient', Capped(state), FALSE \/ m.type = "finish")
      BY <1>2, <3>2, GrownDeliver DEF Work
    <3> QED  BY <2>3, <3>1, <3>3 DEF Served, Grown, Tasked
  <2> QED  BY <2>1, <2>2, <2>3 DEF TimeUp, roundVars
<1>4. JInv'
  BY <1>1, <1>3, SameJoins, ServedKeepsJInv
<1>5. DInv'
  <2>1. \A c \in Clients \ idle : Updates(c) # {} => Updates(c)' # {}
    BY <1>1 DEF Updates
  <2>2. toClient \in Inboxes
    BY ChannelsTyped
  <2> QED  BY <1>1, <1>2, <1>3, <1>4, <2>1, <2>2, QuietSame, ServedKeepsDInv
<1> QED  BY <1>4, <1>5

\* The server leaves its loop.
LEMMA ExitKeepsDInv ==
  ASSUME IInv, IInv', JInv, DInv, Exits
  PROVE  JInv' /\ DInv'
<1> DEFINE m == Msg("finish", state)
<1>1. /\ AllJoined /\ pc' = "done"
      /\ toClient' = Deliver(toClient, neighbors, m)
      /\ UNCHANGED <<state, joinVars, idle, toServer, cVars, proc, faults>>
  BY DEF Exits, ExitLoop, Terminate, roundVars
<1>2. state \in Rounds /\ Capped(state) \in Rounds /\ Capped(state) <= Capped(state) /\ CTypeOK
  BY CappedRounds, RoundsAreNat DEF IInv, TypeOK, STypeOK
<1>3. m \in DownMsg /\ m.type = "finish"
  BY <1>2 DEF Msg, DownMsg
<1> HIDE DEF m
<1>4. Grown(toClient, toClient, Capped(state), TRUE)
  BY ChannelsTyped DEF Grown, DInv
<1>5. Grown(toClient, toClient', Capped(state), TRUE \/ m.type = "finish")
  BY <1>1, <1>2, <1>3, <1>4, GrownDeliver DEF Work
<1>6. ~Serving' /\ ~Listening'
  BY <1>1 DEF Serving, Listening
<1>7. Served(toClient, idle)
  BY <1>1, <1>5, <1>6 DEF Served, Grown, Tasked
<1>8. JInv'
  BY <1>1, <1>7, SameJoins, ServedKeepsJInv
<1>9. DInv'
  BY <1>1, <1>5, <1>6 DEF DInv, Open, NoneDead, NoSlotLost, Grown, Forward, cVars, Capped
<1> QED  BY <1>8, <1>9

\* The first models are sent when all have joined, not before.
LEMMA StartAfterJoining ==
  ASSUME IInv',
         IF JoinInfo THEN Cardinality(joinInfo') = Cardinality(Clients)
                     ELSE joinNum' = Cardinality(Clients)
  PROVE  AllJoined'
<1>1. joinNum' \in Nat /\ joinInfo' \in SUBSET Clients
  BY DEF IInv, TypeOK, STypeOK
<1>2. CASE ~JoinInfo
  <2>1. Cardinality(Clients) \in Nat
    BY NetworkAssumption, FS_CardinalityType
  <2> QED  BY <1>1, <1>2, <2>1 DEF AllJoined
<1>3. CASE JoinInfo
  <2>1. joinInfo' \subseteq Asked' /\ Asked' \in SUBSET Clients
    BY <1>1 DEF Asked
  <2>2. /\ Cardinality(joinInfo') \in Nat /\ Cardinality(Asked') \in Nat
        /\ Cardinality(joinInfo') <= Cardinality(Asked')
    BY <1>1, <2>1, MoreCounted
  <2>3. Cardinality(Asked') <= joinNum'
    BY DEF IInv, AskedHaveJoined
  <2> QED  BY <1>1, <1>3, <2>2, <2>3 DEF AllJoined
<1> QED  BY <1>2, <1>3

\* Either the course starts, and all have joined, or nothing more is sent.
LEMMA TriggerServed ==
  ASSUME IInv', CTypeOK, state \in Rounds, NEW a, Grown(a, a, Capped(state), FALSE),
         TriggerForStart(a), UNCHANGED <<state, isFinish>>
  PROVE  Served(a, idle) /\ (AllJoined' \/ (idle' = idle /\ toClient' = a))
<1> DEFINE start == IF JoinInfo THEN Cardinality(joinInfo') = Cardinality(Clients)
                                ELSE joinNum' = Cardinality(Clients)
<1>1. Capped(state) \in Rounds /\ Capped(state) <= Capped(state)
  BY CappedRounds, RoundsAreNat
<1>2. CASE start
  <2>1. BroadcastModelPara(a, idle, SampleNum, state) /\ AllJoined'
    BY <1>2, StartAfterJoining DEF TriggerForStart
  <2>2. Grown(a, toClient', Capped(state), FALSE) /\ Tasked(idle)
    BY <1>1, <2>1, BroadcastServed
  <2>3. Served(a, idle)
    BY <2>2 DEF Served, Grown
  <2> QED  BY <2>1, <2>3
<1>3. CASE ~start
  <2>1. NoBroadcast(a, idle)
    BY <1>3 DEF TriggerForStart
  <2> QED  BY <2>1 DEF NoBroadcast, Served, Grown, Tasked
<1> QED  BY <1>2, <1>3

\* Whoever may have been counted still may, and one more.
LEMMA OneMoreJoined ==
  ASSUME IInv, IInv', JInv, NEW c \in Clients, c \notin Joined,
         Joined \cup {c} \subseteq Joined', joinNum' = joinNum + 1
  PROVE  JoinsCounted'
<1>1. Joined \in SUBSET Clients /\ Joined' \in SUBSET Clients /\ joinNum \in Nat
  BY DEF Joined, IInv, TypeOK, STypeOK
<1>2. IsFiniteSet(Joined) /\ Cardinality(Joined) \in Nat
  BY <1>1, NetworkAssumption, FS_Subset, FS_CardinalityType
<1>3. Cardinality(Joined \cup {c}) = Cardinality(Joined) + 1
  BY <1>2, FS_AddElement
<1>4. Joined \cup {c} \in SUBSET Clients
  BY <1>1
<1>5. /\ Cardinality(Joined') \in Nat
      /\ Cardinality(Joined \cup {c}) <= Cardinality(Joined')
  BY <1>1, <1>4, MoreCounted
<1>6. joinNum <= Cardinality(Joined)
  BY DEF JInv, JoinsCounted
<1> QED  BY <1>1, <1>2, <1>3, <1>5, <1>6 DEF JoinsCounted

\* Inbox a is what the server had sent and a request m to the workers in S.
AskedOf(a, S, m) ==
  /\ Grown(a, a, Capped(state), FALSE)
  /\ Quiet(a, toClient)
  /\ \A c \in Clients :
       /\ a[c] = toClient[c] \/ (c \in S /\ a[c] = Append(toClient[c], m))
       /\ DOMAIN toClient[c] \subseteq DOMAIN a[c]

\* The request for a worker's information is no work.
LEMMA AskGrown ==
  ASSUME IInv, DInv, Serving, NEW S, NEW m \in DownMsg, m.type = "ask_for_join_in_info",
         NEW a, a = Deliver(toClient, S, m)
  PROVE  AskedOf(a, S, m)
<1>1. \A c \in Clients : toClient[c] \in Seq(DownMsg)
  BY ChannelsTyped
<1>2. a \in Inboxes
  BY <1>1, AppendPositions DEF Deliver, Inboxes
<1>3. \A c \in Clients :
        a[c] = toClient[c] \/ (c \in S /\ a[c] = Append(toClient[c], m))
  BY DEF Deliver
<1>4. ASSUME NEW c \in Clients
      PROVE  /\ \A i \in DOMAIN toClient[c] : i \in DOMAIN a[c] /\ a[c][i] = toClient[c][i]
             /\ \A i \in DOMAIN a[c] :
                  \/ i \in DOMAIN toClient[c] /\ a[c][i] = toClient[c][i]
                  \/ a[c][i] = m
  BY <1>1, <1>3, AppendPositions
<1>5. Forward(a, Capped(state)) /\ NoFinish(a)
  <2>1. Forward(toClient, Capped(state)) /\ NoFinish(toClient)
    BY DEF DInv, Open
  <2>2. Forward(a, Capped(state))
    <3>1. m.type \notin Work
      BY DEF Work
    <3> QED  BY <1>4, <2>1, <3>1 DEF Forward
  <2>3. NoFinish(a)
    BY <1>4, <2>1 DEF NoFinish
  <2> QED  BY <2>2, <2>3
<1>6. Grown(a, a, Capped(state), FALSE)
  BY <1>2, <1>5 DEF Grown
<1>7. Quiet(a, toClient)
  BY <1>4, ChannelsTyped DEF Quiet
<1> QED  BY <1>3, <1>4, <1>6, <1>7 DEF AskedOf

\* A worker registers.
LEMMA JoinInKeepsDInv ==
  ASSUME IInv, IInv', JInv, DInv, NEW c \in Clients,
         HandleJoinIn(c), UNCHANGED <<cVars, proc, faults>>
  PROVE  JInv' /\ DInv'
<1> DEFINE ask == Msg("ask_for_join_in_info", state)
           a   == IF JoinInfo THEN Deliver(toClient, {c}, ask) ELSE toClient
<1>1. /\ Listening /\ Arrived(c, "join_in") /\ toServer[c] # <<>>
      /\ toServer' = Consume(c)
      /\ joinNum' = joinNum + 1
      /\ neighbors' = neighbors \cup {c}
      /\ joinInfo' = joinInfo
      /\ TriggerForStart(a)
      /\ UNCHANGED <<state, isFinish>>
  BY DEF HandleJoinIn, Arrived, roundVars
<1>2. /\ Serving
      /\ Grown(toClient, toClient, Capped(state), FALSE)
      /\ CTypeOK /\ state \in Rounds /\ Capped(state) \in Rounds
      /\ Capped(state) <= Capped(state)
  BY <1>1, ListeningServes, StartGrown
<1>3. ask \in DownMsg /\ ask.type = "ask_for_join_in_info"
  BY <1>2 DEF Msg, DownMsg
<1>4. /\ Grown(a, a, Capped(state), FALSE)
      /\ Quiet(a, toClient)
      /\ \A d \in Clients :
           /\ a[d] = toClient[d] \/ (d = c /\ a[d] = Append(toClient[d], ask))
           /\ DOMAIN toClient[d] \subseteq DOMAIN a[d]
  <2> HIDE DEF ask
  <2>1. CASE JoinInfo
    <3>1. a = Deliver(toClient, {c}, ask)
      BY <2>1
    <3> HIDE DEF a
    <3>2. PICK S : S = {c}
      OBVIOUS
    <3>3. a = Deliver(toClient, S, ask)
      BY <3>1, <3>2
    <3>4. AskedOf(a, S, ask)
      BY <1>2, <1>3, <3>3, AskGrown
    <3> QED  BY <3>2, <3>4 DEF AskedOf
  <2>2. CASE ~JoinInfo
    BY <1>2, <2>2, ChannelsTyped, QuietSame
  <2> QED  BY <2>1, <2>2
<1> HIDE DEF ask, a
<1>5. 1 \in Joins(c) /\ toServer[c][1].type = "join_in"
  BY <1>1, ConsumePositions DEF Joins, Arrived, IInv
<1>6. /\ \A i \in Joins(c) : i = 1
      /\ Asks(c) = {}
      /\ c \notin joinInfo /\ proc[c] # "off"
  BY <1>5 DEF JInv, OneStep
<1>7. /\ Joins(c)' = {}
      /\ \A d \in Clients \ {c} : toServer'[d] = toServer[d]
  BY <1>1, <1>6, ConsumePositions DEF Joins, IInv
<1>8. Served(a, idle) /\ (AllJoined' \/ (idle' = idle /\ toClient' = a))
  BY <1>1, <1>2, <1>4, TriggerServed
<1>9. OneStep'
  <2> SUFFICES ASSUME NEW d \in Clients
               PROVE  /\ \A i, j \in Joins(d)' : i = j
                      /\ \A i, j \in Asks(d)'  : i = j
                      /\ Joins(d)' = {} \/ Asks(d)' = {}
                      /\ d \in joinInfo' \/ proc'[d] = "off" => Joins(d)' = {} /\ Asks(d)' = {}
    BY DEF OneStep
  <2>1. \A i \in Asks(d)' : i \in DOMAIN a[d] /\ a[d][i].type = "ask_for_join_in_info"
    BY <1>8 DEF Served, Grown, Asks
  <2>2. CASE d = c
    <3>1. toClient[d] \in Seq(DownMsg) /\ Len(toClient[d]) \in Nat
      BY ChannelsTyped
    <3>2. \A i \in Asks(d)' : i = Len(toClient[d]) + 1
      <4> SUFFICES ASSUME NEW i \in Asks(d)'  PROVE i = Len(toClient[d]) + 1
        OBVIOUS
      <4>1. i \in DOMAIN a[d] /\ a[d][i].type = "ask_for_join_in_info"
        BY <2>1
      <4>2. ~(i \in DOMAIN toClient[d] /\ toClient[d][i] = a[d][i])
        BY <1>6, <2>2, <4>1 DEF Asks
      <4> QED  BY <1>3, <1>4, <2>2, <3>1, <4>1, <4>2, AppendPositions
    <3> QED  BY <1>1, <1>6, <1>7, <2>2, <3>2
  <2>3. CASE d # c
    <3>1. Joins(d)' = Joins(d) /\ Asks(d)' \subseteq Asks(d)
      BY <1>4, <1>7, <2>1, <2>3 DEF Joins, Asks
    <3> QED  BY <1>1, <3>1 DEF JInv, OneStep
  <2> QED  BY <2>2, <2>3
<1>10. JoinsCounted'
  <2>1. c \notin Joined
    BY <1>5 DEF Joined, Joins
  <2>2. Joined \subseteq Joined'
    BY <1>1, <1>7, <2>1 DEF Joined, IInv, TypeOK, STypeOK
  <2>3. c \in Joined'
    BY <1>1, <1>6, <1>7 DEF Joined, Joins
  <2> QED  BY <1>1, <2>1, <2>2, <2>3, OneMoreJoined
<1>11. Prelude'
  <2> SUFFICES ASSUME ~AllJoined', NEW d \in Clients
               PROVE  /\ state' = 0
                      /\ \A i \in DOMAIN toClient'[d] : toClient'[d][i].type = "ask_for_join_in_info"
                      /\ \A i \in DOMAIN toServer'[d] :
                           toServer'[d][i].type \in {"join_in", "join_in_info"}
    BY <1>1, NetworkAssumption DEF Prelude
  <2>1. ~AllJoined
    <3>1. joinNum \in Nat /\ Cardinality(Clients) \in Nat
      BY NetworkAssumption, FS_CardinalityType DEF IInv, TypeOK, STypeOK
    <3> QED  BY <1>1, <3>1 DEF AllJoined
  <2>2. /\ state = 0
        /\ \A i \in DOMAIN toClient[d] : toClient[d][i].type = "ask_for_join_in_info"
        /\ \A i \in DOMAIN toServer[d] : toServer[d][i].type \in {"join_in", "join_in_info"}
    BY <2>1 DEF JInv, Prelude
  <2>3. \A i \in DOMAIN a[d] : a[d][i].type = "ask_for_join_in_info"
    <3>1. toClient[d] \in Seq(DownMsg)
      BY ChannelsTyped
    <3>2. a[d] = toClient[d] \/ a[d] = Append(toClient[d], ask)
      BY <1>4
    <3> HIDE DEF a, ask
    <3>3. \A i \in DOMAIN Append(toClient[d], ask) :
            Append(toClient[d], ask)[i].type = "ask_for_join_in_info"
      BY <1>3, <2>2, <3>1, AppendPositions
    <3> QED  BY <2>2, <3>2, <3>3
  <2>4. \A i \in DOMAIN toServer'[d] : \E j \in DOMAIN toServer[d] : toServer'[d][i] = toServer[d][j]
    BY <1>1, ConsumeUploadsNothing DEF IInv, NoNewUpload
  <2> QED  BY <1>1, <1>8, <2>2, <2>3, <2>4
<1>12. JInv'
  <2>1. Launched'
    BY <1>1 DEF JInv, Launched
  <2> QED  BY <1>9, <1>10, <1>11, <2>1 DEF JInv
<1>13. DInv'
  <2>1. \A d \in Clients \ idle : Updates(d) # {} => Updates(d)' # {}
    <3>1. Updates(c) = {}
      <4>1. ASSUME Updates(c) # {}  PROVE FALSE
        <5>1. AllJoined
          BY <4>1 DEF IInv, WorkAfterJoining, Busy
        <5> QED  BY <1>5, <5>1, AllKnown DEF Known, Joins
      <4> QED  BY <4>1
    <3> QED  BY <1>7, <3>1 DEF Updates
  <2> QED  BY <1>2, <1>4, <1>8, <1>12, <2>1, ServedKeepsDInv
<1> QED  BY <1>12, <1>13

\* A worker's information arrives.
LEMMA JoinInInfoKeepsDInv ==
  ASSUME IInv, IInv', JInv, DInv, NEW c \in Clients,
         HandleJoinInInfo(c), UNCHANGED <<cVars, proc, faults>>
  PROVE  JInv' /\ DInv'
<1>1. /\ Listening /\ Arrived(c, "join_in_info") /\ toServer[c] # <<>>
      /\ ~Arrived(c, "model_para")
      /\ toServer' = Consume(c)
      /\ joinInfo' = joinInfo \cup {c}
      /\ UNCHANGED <<joinNum, neighbors>>
      /\ TriggerForStart(toClient)
      /\ UNCHANGED <<state, isFinish>>
  BY DEF HandleJoinInInfo, Arrived, roundVars
<1>2. /\ Serving
      /\ Grown(toClient, toClient, Capped(state), FALSE)
      /\ CTypeOK /\ state \in Rounds
  BY <1>1, ListeningServes, StartGrown
<1>3. Served(toClient, idle) /\ (AllJoined' \/ (idle' = idle /\ toClient' = toClient))
  BY <1>1, <1>2, TriggerServed
<1>4. 1 \in Joins(c)
  BY <1>1, ConsumePositions DEF Joins, Arrived, IInv
<1>5. /\ \A i \in Joins(c) : i = 1
      /\ Asks(c) = {}
      /\ proc[c] # "off"
  BY <1>4 DEF JInv, OneStep
<1>6. /\ Joins(c)' = {}
      /\ \A d \in Clients \ {c} : toServer'[d] = toServer[d]
      /\ \A d \in Clients : \A i \in DOMAIN toServer'[d] :
           \E j \in DOMAIN toServer[d] : toServer'[d][i] = toServer[d][j]
  BY <1>1, <1>5, ConsumePositions, ConsumeUploadsNothing DEF Joins, IInv, NoNewUpload
<1>7. OneStep'
  <2> SUFFICES ASSUME NEW d \in Clients
               PROVE  /\ \A i, j \in Joins(d)' : i = j
                      /\ \A i, j \in Asks(d)'  : i = j
                      /\ Joins(d)' = {} \/ Asks(d)' = {}
                      /\ d \in joinInfo' \/ proc'[d] = "off" => Joins(d)' = {} /\ Asks(d)' = {}
    BY DEF OneStep
  <2>1. Asks(d)' \subseteq Asks(d)
    BY <1>3 DEF Served, Grown, Asks
  <2>2. CASE d = c
    BY <1>5, <1>6, <2>1, <2>2
  <2>3. CASE d # c
    <3>1. Joins(d)' = Joins(d)
      BY <1>6, <2>3 DEF Joins
    <3> QED  BY <1>1, <2>1, <2>3, <3>1 DEF JInv, OneStep
  <2> QED  BY <2>2, <2>3
<1>8. JoinsCounted'
  <2>1. Joined \in SUBSET Clients /\ Joined' \in SUBSET Clients /\ joinNum \in Nat
    BY DEF Joined, IInv, TypeOK, STypeOK
  <2>2. Joined \subseteq Joined'
    BY <1>1, <1>6, <2>1 DEF Joined
  <2>3. /\ Cardinality(Joined) \in Nat /\ Cardinality(Joined') \in Nat
        /\ Cardinality(Joined) <= Cardinality(Joined')
    BY <2>1, <2>2, MoreCounted
  <2> QED  BY <1>1, <2>1, <2>3 DEF JInv, JoinsCounted
<1>9. Prelude'
  <2> SUFFICES ASSUME ~AllJoined', NEW d \in Clients
               PROVE  /\ state' = 0
                      /\ \A i \in DOMAIN toClient'[d] : toClient'[d][i].type = "ask_for_join_in_info"
                      /\ \A i \in DOMAIN toServer'[d] :
                           toServer'[d][i].type \in {"join_in", "join_in_info"}
    BY <1>1, NetworkAssumption DEF Prelude
  <2>1. ~AllJoined /\ toClient' = toClient
    BY <1>1, <1>3 DEF AllJoined
  <2>2. /\ state = 0
        /\ \A i \in DOMAIN toClient[d] : toClient[d][i].type = "ask_for_join_in_info"
        /\ \A i \in DOMAIN toServer[d] : toServer[d][i].type \in {"join_in", "join_in_info"}
    BY <2>1 DEF JInv, Prelude
  <2> QED  BY <1>1, <1>6, <2>1, <2>2
<1>10. JInv'
  <2>1. Launched'
    BY <1>1, <1>5 DEF JInv, Launched
  <2> QED  BY <1>7, <1>8, <1>9, <2>1 DEF JInv
<1>11. DInv'
  <2>1. \A d \in Clients \ idle : Updates(d) # {} => Updates(d)' # {}
    BY <1>1, OtherUpdatesStay
  <2>2. toClient \in Inboxes
    BY ChannelsTyped
  <2> QED  BY <1>2, <1>3, <1>10, <2>1, <2>2, QuietSame, ServedKeepsDInv
<1> QED  BY <1>10, <1>11

-----------------------------------------------------------------------------
(* The workers' steps and the faults.                                      *)

\* Messages at the head of worker c's channel are gone, and nothing else is.
Shifted(c) ==
  /\ toClient' \in Inboxes
  /\ \A d \in Clients \ {c} : toClient'[d] = toClient[d]
  /\ \E k \in Nat : \A i \in DOMAIN toClient'[c] :
       i + k \in DOMAIN toClient[c] /\ toClient'[c][i] = toClient[c][i + k]

LEMMA ReadShifts ==
  ASSUME IInv, NEW c \in Clients, toClient[c] # <<>>, Read(c)
  PROVE  Shifted(c)
  BY ReadPositions DEF Shifted, IInv

LEMMA EmptiedShifts ==
  ASSUME IInv, NEW c \in Clients, toClient' = [toClient EXCEPT ![c] = <<>>]
  PROVE  Shifted(c)
<1>1. toClient' \in Inboxes /\ \A d \in Clients \ {c} : toClient'[d] = toClient[d]
  BY EmptiedRemoves DEF OnlyRemoves, IInv
<1>2. DOMAIN toClient'[c] = {}
  BY ChannelsTyped DEF Inboxes
<1>3. 0 \in Nat
  OBVIOUS
<1> QED  BY <1>1, <1>2, <1>3 DEF Shifted

LEMMA SameShifts ==
  ASSUME IInv, NEW c \in Clients, toClient' = toClient
  PROVE  Shifted(c)
<1>1. ASSUME NEW i \in DOMAIN toClient'[c]
      PROVE  i + 0 \in DOMAIN toClient[c] /\ toClient'[c][i] = toClient[c][i + 0]
  <2>1. i \in Nat
    BY ChannelsTyped
  <2> QED  BY <2>1
<1> QED  BY <1>1, ChannelsTyped DEF Shifted

LEMMA ShiftedAsks ==
  ASSUME IInv, NEW c \in Clients, Shifted(c)
  PROVE  NoNewAsk
<1> SUFFICES ASSUME NEW d \in Clients
             PROVE  \E k \in Nat : \A i \in Asks(d)' : i + k \in Asks(d)
  BY DEF NoNewAsk
<1>1. CASE d = c
  BY <1>1 DEF Shifted, Asks
<1>2. CASE d # c
  <2>1. \A i \in Asks(d)' : i + 0 \in Asks(d)
    BY <1>2, ChannelsTyped DEF Shifted, Asks
  <2> QED  BY <2>1
<1> QED  BY <1>1, <1>2

LEMMA StillKeepsJInv ==
  ASSUME IInv, IInv', JInv, NEW c \in Clients, Shifted(c), NoNewJoin, UNCHANGED sVars,
         \A d \in Clients : proc'[d] = "off" <=> proc[d] = "off",
         AllJoined \/ NoNewUpload
  PROVE  JInv'
<1>1. UNCHANGED joinVars /\ state' = state
  BY DEF sVars, roundVars
<1>2. OneStep' /\ JoinsCounted'
  BY <1>1, ShiftedAsks, JoinsStay
<1>3. Launched'
  BY <1>1 DEF JInv, Launched, joinVars, IInv, TypeOK, STypeOK
<1>4. Prelude'
  <2> SUFFICES ASSUME ~AllJoined, NEW d \in Clients
               PROVE  /\ state = 0
                      /\ \A i \in DOMAIN toClient'[d] : toClient'[d][i].type = "ask_for_join_in_info"
                      /\ \A i \in DOMAIN toServer'[d] :
                           toServer'[d][i].type \in {"join_in", "join_in_info"}
    BY <1>1, NetworkAssumption DEF Prelude, AllJoined, joinVars
  <2>1. /\ state = 0
        /\ \A i \in DOMAIN toClient[d] : toClient[d][i].type = "ask_for_join_in_info"
        /\ \A i \in DOMAIN toServer[d] : toServer[d][i].type \in {"join_in", "join_in_info"}
    BY DEF JInv, Prelude
  <2>2. \A i \in DOMAIN toClient'[d] :
          \E j \in DOMAIN toClient[d] : toClient'[d][i] = toClient[d][j]
    BY DEF Shifted
  <2> QED  BY <2>1, <2>2 DEF NoNewUpload
<1> QED  BY <1>2, <1>3, <1>4 DEF JInv

LEMMA StillKeepsDInv ==
  ASSUME IInv, IInv', DInv, NEW c \in Clients, Shifted(c), UNCHANGED sVars,
         \/ cState' = cState
         \/ /\ 1 \in DOMAIN toClient[c] /\ toClient[c][1].type \in Work
            /\ cState' = [cState EXCEPT ![c] = toClient[c][1].round],
         \A d \in Clients : proc'[d] = "stopped" => proc[d] = "stopped" \/ ~Serving,
         faults'.crash = 0 =>
           faults.crash = 0 /\ \A d \in Clients : proc'[d] = "dead" => proc[d] = "dead",
         \/ ~Listening
         \/ faults' # [loss |-> 0, crash |-> 0]
         \/ faults' = faults /\ \A d \in Clients : Busy(d) => Busy(d)'
  PROVE  DInv'
<1>1. UNCHANGED <<state, pc, isFinish, idle, joinNum>>
  BY DEF sVars, roundVars, joinVars
<1>2. PICK k \in Nat : \A i \in DOMAIN toClient'[c] :
        i + k \in DOMAIN toClient[c] /\ toClient'[c][i] = toClient[c][i + k]
  BY DEF Shifted
<1>3. /\ \A d \in Clients \ {c} : toClient'[d] = toClient[d]
      /\ \A d \in Clients : DOMAIN toClient'[d] \subseteq Nat
  BY InboxMessages DEF Shifted
<1>4. \A d \in Clients : \A i \in DOMAIN toClient[d] : i \in Nat /\ 1 <= i
  BY ChannelsTyped
<1>5. Forward(toClient, Capped(state))'
  <2> SUFFICES ASSUME NEW d \in Clients
               PROVE  /\ cState'[d] <= Capped(state)
                      /\ \A i \in DOMAIN toClient'[d] : toClient'[d][i].type \in Work =>
                           /\ cState'[d] <= toClient'[d][i].round
                           /\ toClient'[d][i].round <= Capped(state)
                           /\ \A j \in DOMAIN toClient'[d] :
                                toClient'[d][j].type \in Work /\ i <= j
                                  => toClient'[d][i].round <= toClient'[d][j].round
    BY <1>1 DEF Forward, Capped
  <2>1. /\ cState[d] <= Capped(state)
        /\ \A i \in DOMAIN toClient[d] : toClient[d][i].type \in Work =>
             /\ cState[d] <= toClient[d][i].round
             /\ toClient[d][i].round <= Capped(state)
             /\ \A j \in DOMAIN toClient[d] :
                  toClient[d][j].type \in Work /\ i <= j
                    => toClient[d][i].round <= toClient[d][j].round
    BY DEF DInv, Forward
  <2>2. CASE d # c
    <3>1. cState'[d] = cState[d] /\ toClient'[d] = toClient[d]
      BY <1>3, <2>2 DEF IInv, TypeOK, CTypeOK
    <3> QED  BY <2>1, <3>1
  <2>3. CASE d = c
    <3>1. \/ cState'[c] = cState[c]
          \/ /\ 1 \in DOMAIN toClient[c] /\ toClient[c][1].type \in Work
             /\ cState'[c] = toClient[c][1].round
      BY DEF IInv, TypeOK, CTypeOK
    <3>2. \A i \in DOMAIN toClient'[c] :
            /\ i + k \in DOMAIN toClient[c] /\ toClient'[c][i] = toClient[c][i + k]
            /\ 1 <= i + k
      BY <1>2, <1>4
    <3>3. \A i, j \in DOMAIN toClient'[c] : i <= j => i + k <= j + k
      BY <1>3
    <3> QED  BY <2>1, <2>3, <3>1, <3>2, <3>3
  <2> QED  BY <2>2, <2>3
<1>6. NoFinish(toClient) => NoFinish(toClient')
  BY <1>2, <1>3 DEF NoFinish
<1>7. Open'
  BY <1>1, <1>6 DEF DInv, Open, Serving
<1>8. NoneDead'
  BY DEF DInv, NoneDead
<1>9. NoSlotLost'
  BY <1>1 DEF DInv, NoSlotLost, Listening, AllJoined
<1> QED  BY <1>5, <1>7, <1>8, <1>9 DEF DInv

\* What is behind the message read moves up.
LEMMA ReadMovesUp ==
  ASSUME IInv, NEW c \in Clients, toClient[c] # <<>>, Read(c)
  PROVE  \A i \in DOMAIN toClient[c] :
           i # 1 => i - 1 \in DOMAIN toClient'[c] /\ toClient'[c][i - 1] = toClient[c][i]
<1>1. toClient[c] \in Seq(DownMsg) /\ toClient'[c] = Tail(toClient[c])
  BY ChannelsTyped DEF Read, Inboxes
<1> QED  BY <1>1

\* What was sent before stays, and the message is behind it.
LEMMA SendAdds ==
  ASSUME IInv, NEW c \in Clients, NEW m \in UpMsg, Send(c, m)
  PROVE  /\ \A i \in DOMAIN toServer[c] :
              i \in DOMAIN toServer'[c] /\ toServer'[c][i] = toServer[c][i]
         /\ \E i \in DOMAIN toServer'[c] : toServer'[c][i] = m
<1>1. toServer[c] \in Seq(UpMsg) /\ toServer'[c] = Append(toServer[c], m)
  BY ChannelsTyped DEF Send, Outboxes
<1> QED  BY <1>1, AppendPositions

\* A task that is not answered stays.
LEMMA TasksStay ==
  ASSUME IInv, NEW c \in Clients, toClient[c] # <<>>, Read(c),
         \A d \in Clients \ {c} : toServer'[d] = toServer[d],
         \A i \in DOMAIN toServer[c] :
           i \in DOMAIN toServer'[c] /\ toServer'[c][i] = toServer[c][i],
         1 \notin Models(c) \/ Updates(c)' # {}
  PROVE  \A d \in Clients : Busy(d) => Busy(d)'
<1> SUFFICES ASSUME NEW d \in Clients, Busy(d)  PROVE Busy(d)'
  OBVIOUS
<1>1. CASE d # c
  BY <1>1, ReadPositions DEF Busy, Models, Updates, IInv
<1>2. CASE d = c
  <2>1. CASE Updates(c) # {}
    BY <1>2, <2>1 DEF Busy, Updates
  <2>2. ASSUME NEW i \in Models(c)
        PROVE  Busy(c)'
    <3>1. CASE i = 1
      BY <2>2, <3>1 DEF Busy
    <3>2. CASE i # 1
      BY <2>2, <3>2, ReadMovesUp DEF Busy, Models
    <3> QED  BY <3>1, <3>2
  <2> QED  BY <1>2, <2>1, <2>2 DEF Busy
<1> QED  BY <1>1, <1>2

\* A worker is never past its work: it works on whatever it is given.
LEMMA AlwaysCurrent ==
  ASSUME IInv, DInv, NEW c \in Clients, toClient[c] # <<>>, Head(toClient[c]).type \in Work
  PROVE  /\ Current(c)
         /\ 1 \in DOMAIN toClient[c] /\ toClient[c][1] = Head(toClient[c])
         /\ Head(toClient[c]) \in DownMsg
<1>1. 1 \in DOMAIN toClient[c] /\ toClient[c][1] = Head(toClient[c]) /\ Head(toClient[c]) \in DownMsg
  BY TailPositions, ChannelsTyped
<1> QED  BY <1>1 DEF Current, DInv, Forward

\* A worker trains, or evaluates.
LEMMA WorkKeepsDInv ==
  ASSUME IInv, IInv', JInv, DInv, NEW c \in Clients, Train(c) \/ Evaluate(c), UNCHANGED sVars
  PROVE  JInv' /\ DInv'
<1> DEFINE r == Head(toClient[c]).round
<1>1. PICK type \in {"model_para", "metrics"} :
        /\ toClient[c] # <<>> /\ Head(toClient[c]).type \in Work
        /\ Head(toClient[c]).type = "model_para" => type = "model_para"
        /\ Answer(c, type)
  BY DEF Train, Evaluate, Hears, Work
<1>2. /\ Current(c)
      /\ 1 \in DOMAIN toClient[c] /\ toClient[c][1] = Head(toClient[c])
      /\ r \in Rounds
  BY <1>1, AlwaysCurrent DEF DownMsg
<1> DEFINE m == Msg(type, r)
<1>3. /\ Read(c)
      /\ cState' = [cState EXCEPT ![c] = r]
      /\ Send(c, m)
      /\ UNCHANGED <<proc, faults>>
      /\ m \in UpMsg /\ m.type = type
  BY <1>1, <1>2 DEF Answer, Msg, UpMsg
<1> HIDE DEF m
<1>4. Shifted(c)
  BY <1>1, <1>3, ReadShifts
<1>5. NoNewJoin
  <2>1. ASSUME NEW d \in Clients, NEW i \in Joins(d)'
        PROVE  i + 0 \in Joins(d) /\ toServer'[d][i] = toServer[d][i + 0]
    <3>1. i \in DOMAIN toServer[d] /\ toServer'[d][i] = toServer[d][i]
      BY <1>1, <1>3, <2>1, SendPositions DEF Joins, IInv
    <3>2. i \in Nat
      BY <3>1, ChannelsTyped
    <3> QED  BY <2>1, <3>1, <3>2 DEF Joins
  <2> QED  BY <2>1 DEF NoNewJoin
<1>6. AllJoined
  BY <1>1, <1>2 DEF JInv, Prelude, Work
<1>7. JInv'
  BY <1>3, <1>4, <1>5, <1>6, StillKeepsJInv
<1>8. 1 \notin Models(c) \/ Updates(c)' # {}
  BY <1>1, <1>2, <1>3, SendAdds DEF Models, Updates
<1>9. \A d \in Clients : Busy(d) => Busy(d)'
  BY <1>1, <1>3, <1>8, SendAdds, SendPositions, TasksStay DEF IInv
<1>10. DInv'
  BY <1>1, <1>2, <1>3, <1>4, <1>9, StillKeepsDInv
<1> QED  BY <1>7, <1>10

\* Joins(c) and Asks(c) after worker c has sent a message of joining.
LEMMA NewJoin ==
  ASSUME IInv, NEW c \in Clients, NEW m \in UpMsg, Send(c, m), Joins(c) = {}
  PROVE  /\ \A i, j \in Joins(c)' : i = j
         /\ \A d \in Clients \ {c} : Joins(d)' = Joins(d)
<1>1. \A i \in Joins(c)' : i = Len(toServer[c]) + 1
  BY SendPositions DEF Joins, IInv
<1>2. \A d \in Clients \ {c} : Joins(d)' = Joins(d)
  BY SendPositions DEF Joins, IInv
<1> QED  BY <1>1, <1>2

\* A worker answers the request for its information.
LEMMA AnswerKeepsDInv ==
  ASSUME IInv, IInv', JInv, DInv, NEW c \in Clients, AnswerJoinInInfo(c), UNCHANGED sVars
  PROVE  JInv' /\ DInv'
<1> DEFINE m == Msg("join_in_info", 0)
<1>1. /\ toClient[c] # <<>> /\ Head(toClient[c]).type = "ask_for_join_in_info"
      /\ Read(c)
      /\ Send(c, m) \/ UNCHANGED toServer
      /\ UNCHANGED <<cState, proc, faults>>
      /\ UNCHANGED <<joinVars, state>>
  BY DEF AnswerJoinInInfo, Hears, sVars, roundVars
<1>2. m \in UpMsg /\ m.type = "join_in_info"
  BY RoundsAreNat, NetworkAssumption DEF Msg, UpMsg, Rounds
<1> HIDE DEF m
<1>3. Shifted(c)
  BY <1>1, ReadShifts
<1>4. 1 \in Asks(c)
  BY <1>1, ReadPositions DEF Asks, IInv
<1>5. /\ \A i \in Asks(c) : i = 1
      /\ Joins(c) = {}
      /\ c \notin joinInfo /\ proc[c] # "off"
  BY <1>4 DEF JInv, OneStep
<1>6. Asks(c)' = {} /\ \A d \in Clients \ {c} : Asks(d)' = Asks(d)
  BY <1>1, <1>5, ReadPositions DEF Asks, IInv
<1>7. /\ \A i, j \in Joins(c)' : i = j
      /\ \A d \in Clients \ {c} : Joins(d)' = Joins(d)
  BY <1>1, <1>2, <1>5, NewJoin DEF Joins
<1>8. \A d \in Clients : \A i \in DOMAIN toServer'[d] :
        \/ i \in DOMAIN toServer[d] /\ toServer'[d][i] = toServer[d][i]
        \/ toServer'[d][i].type = "join_in_info"
  BY <1>1, <1>2, SendPositions DEF IInv
<1>9. OneStep'
  <2> SUFFICES ASSUME NEW d \in Clients
               PROVE  /\ \A i, j \in Joins(d)' : i = j
                      /\ \A i, j \in Asks(d)'  : i = j
                      /\ Joins(d)' = {} \/ Asks(d)' = {}
                      /\ d \in joinInfo' \/ proc'[d] = "off" => Joins(d)' = {} /\ Asks(d)' = {}
    BY DEF OneStep
  <2>1. CASE d = c
    BY <1>1, <1>5, <1>6, <1>7, <2>1 DEF joinVars
  <2>2. CASE d # c
    BY <1>1, <1>6, <1>7, <2>2 DEF joinVars, JInv, OneStep
  <2> QED  BY <2>1, <2>2
<1>10. JoinsCounted'
  <2>1. Joined \in SUBSET Clients /\ Joined' \in SUBSET Clients /\ joinNum \in Nat
    BY DEF Joined, IInv, TypeOK, STypeOK
  <2>2. Joined \subseteq Joined'
    BY <1>1, <1>8, <2>1 DEF Joined, joinVars
  <2>3. /\ Cardinality(Joined) \in Nat /\ Cardinality(Joined') \in Nat
        /\ Cardinality(Joined) <= Cardinality(Joined')
    BY <2>1, <2>2, MoreCounted
  <2> QED  BY <1>1, <2>1, <2>3 DEF JInv, JoinsCounted, joinVars
<1>11. Prelude'
  <2>1. \A d \in Clients : \A i \in DOMAIN toClient'[d] :
          \E j \in DOMAIN toClient[d] : toClient'[d][i] = toClient[d][j]
    BY <1>3 DEF Shifted
  <2> QED  BY <1>1, <1>8, <2>1 DEF JInv, Prelude, AllJoined, joinVars
<1>12. JInv'
  BY <1>1, <1>9, <1>10, <1>11 DEF JInv, Launched, joinVars
<1>13. \A d \in Clients : Busy(d) => Busy(d)'
  <2>1. 1 \notin Models(c)
    BY <1>5, <1>4 DEF Asks, Models
  <2>2. /\ \A d \in Clients \ {c} : toServer'[d] = toServer[d]
        /\ \A i \in DOMAIN toServer[c] :
             i \in DOMAIN toServer'[c] /\ toServer'[c][i] = toServer[c][i]
    BY <1>1, <1>2, SendPositions, SendAdds DEF IInv
  <2> QED  BY <1>1, <2>1, <2>2, TasksStay
<1>14. DInv'
  BY <1>1, <1>3, <1>13, StillKeepsDInv
<1> QED  BY <1>12, <1>14

\* A worker is launched and registers.
LEMMA RegisterKeepsDInv ==
  ASSUME IInv, IInv', JInv, DInv, NEW c \in Clients, JoinIn(c), UNCHANGED sVars
  PROVE  JInv' /\ DInv'
<1> DEFINE m == Msg("join_in", 0)
<1>1. /\ proc[c] = "off" /\ proc' = [proc EXCEPT ![c] = "up"]
      /\ Send(c, m)
      /\ UNCHANGED <<toClient, cState, faults>>
      /\ UNCHANGED <<joinVars, state>>
  BY DEF JoinIn, sVars, roundVars
<1>2. m \in UpMsg /\ m.type = "join_in"
  BY RoundsAreNat, NetworkAssumption DEF Msg, UpMsg, Rounds
<1> HIDE DEF m
<1>3. Shifted(c)
  BY <1>1, SameShifts
<1>4. Joins(c) = {} /\ Asks(c) = {} /\ c \notin joinInfo
  BY <1>1 DEF JInv, OneStep, Launched
<1>5. /\ \A d \in Clients : Asks(d)' = Asks(d)
      /\ \A i, j \in Joins(c)' : i = j
      /\ \A d \in Clients \ {c} : Joins(d)' = Joins(d)
  BY <1>1, <1>2, <1>4, NewJoin DEF Asks
<1>6. /\ proc'[c] = "up"
      /\ \A d \in Clients \ {c} : proc'[d] = proc[d] /\ toServer'[d] = toServer[d]
  BY <1>1, <1>2, SendPositions DEF IInv, TypeOK, NetTypeOK
<1>7. OneStep'
  <2> SUFFICES ASSUME NEW d \in Clients
               PROVE  /\ \A i, j \in Joins(d)' : i = j
                      /\ \A i, j \in Asks(d)'  : i = j
                      /\ Joins(d)' = {} \/ Asks(d)' = {}
                      /\ d \in joinInfo' \/ proc'[d] = "off" => Joins(d)' = {} /\ Asks(d)' = {}
    BY DEF OneStep
  <2>1. CASE d = c
    BY <1>1, <1>4, <1>5, <1>6, <2>1 DEF joinVars
  <2>2. CASE d # c
    BY <1>1, <1>5, <1>6, <2>2 DEF joinVars, JInv, OneStep
  <2> QED  BY <2>1, <2>2
<1>8. JoinsCounted'
  <2>1. Joined \in SUBSET Clients /\ Joined' \in SUBSET Clients /\ joinNum \in Nat
    BY DEF Joined, IInv, TypeOK, STypeOK
  <2>2. Joined \subseteq Joined'
    BY <1>1, <1>6, <2>1 DEF Joined, joinVars
  <2>3. /\ Cardinality(Joined) \in Nat /\ Cardinality(Joined') \in Nat
        /\ Cardinality(Joined) <= Cardinality(Joined')
    BY <2>1, <2>2, MoreCounted
  <2> QED  BY <1>1, <2>1, <2>3 DEF JInv, JoinsCounted, joinVars
<1>9. Prelude'
  <2>1. \A d \in Clients : \A i \in DOMAIN toServer'[d] :
          \/ i \in DOMAIN toServer[d] /\ toServer'[d][i] = toServer[d][i]
          \/ toServer'[d][i].type = "join_in"
    BY <1>1, <1>2, SendPositions DEF IInv
  <2> QED  BY <1>1, <2>1 DEF JInv, Prelude, AllJoined, joinVars
<1>10. JInv'
  <2>1. Launched'
    BY <1>1, <1>6 DEF JInv, Launched, joinVars, IInv, TypeOK, STypeOK
  <2> QED  BY <1>7, <1>8, <1>9, <2>1 DEF JInv
<1>11. \A d \in Clients : Busy(d) => Busy(d)'
  <2>1. \A d \in Clients : Updates(d) # {} => Updates(d)' # {}
    BY <1>1, <1>2, <1>6, SendAdds DEF Updates
  <2>2. \A d \in Clients : Models(d)' = Models(d)
    BY <1>1 DEF Models
  <2> QED  BY <2>1, <2>2 DEF Busy
<1>12. DInv'
  <2>1. \A d \in Clients : proc'[d] \in {"stopped", "dead"} => proc'[d] = proc[d]
    BY <1>6
  <2> QED  BY <1>1, <1>3, <1>11, <2>1, StillKeepsDInv
<1> QED  BY <1>10, <1>12

\* A worker hears that the course converged, or that it is to stop.
LEMMA HearKeepsDInv ==
  ASSUME IInv, IInv', JInv, DInv, NEW c \in Clients, Converged(c) \/ Finish(c), UNCHANGED sVars
  PROVE  JInv' /\ DInv'
<1>1. /\ proc[c] = "up" /\ toClient[c] # <<>>
      /\ Head(toClient[c]).type \in {"converged", "finish"}
      /\ UNCHANGED <<toServer, cState, faults>>
      /\ \/ Read(c) /\ UNCHANGED proc
         \/ /\ Head(toClient[c]).type = "finish"
            /\ toClient' = [toClient EXCEPT ![c] = <<>>]
            /\ proc' = [proc EXCEPT ![c] = "stopped"]
  BY DEF Converged, Finish, Hears
<1>2. 1 \in DOMAIN toClient[c] /\ toClient[c][1] = Head(toClient[c])
  BY <1>1, TailPositions, ChannelsTyped
<1>3. Shifted(c)
  BY <1>1, ReadShifts, EmptiedShifts
<1>4. AllJoined
  BY <1>1, <1>2 DEF JInv, Prelude
<1>5. Head(toClient[c]).type = "finish" => ~Serving
  BY <1>2 DEF DInv, Open, NoFinish
<1>6. /\ \A d \in Clients : proc'[d] = "off" <=> proc[d] = "off"
      /\ \A d \in Clients : proc'[d] = "dead" => proc[d] = "dead"
      /\ \A d \in Clients : proc'[d] = "stopped" => proc[d] = "stopped" \/ ~Serving
  BY <1>1, <1>5 DEF IInv, TypeOK, NetTypeOK
<1>7. JInv'
  BY <1>1, <1>3, <1>4, <1>6, SameJoins, StillKeepsJInv
<1>8. ~Listening \/ \A d \in Clients : Busy(d) => Busy(d)'
  <2>1. CASE Read(c)
    <3>1. 1 \notin Models(c)
      BY <1>1, <1>2 DEF Models
    <3> QED  BY <1>1, <2>1, <3>1, TasksStay
  <2>2. CASE Head(toClient[c]).type = "finish"
    BY <1>5, <2>2, ListeningServes
  <2> QED  BY <1>1, <2>1, <2>2
<1>9. DInv'
  BY <1>1, <1>3, <1>6, <1>8, StillKeepsDInv
<1> QED  BY <1>7, <1>9

LEMMA ClientKeepsDInv ==
  ASSUME IInv, IInv', JInv, DInv, NEW c \in Clients, Client(c)
  PROVE  JInv' /\ DInv'
  BY WorkKeepsDInv, AnswerKeepsDInv, RegisterKeepsDInv, HearKeepsDInv DEF Client, ClientStep

\* After a fault nothing is promised of the workers' tasks; the order and the dates
\* of what is left are what they were.
LEMMA FaultKeepsDInv ==
  ASSUME IInv, IInv', JInv, DInv, NEW c \in Clients, Fault(c)
  PROVE  JInv' /\ DInv'
<1>1. UNCHANGED sVars /\ cState' = cState /\ faults.loss \in Nat /\ faults.crash \in Nat
  BY NetworkAssumption DEF Fault, cVars, IInv, TypeOK, NetTypeOK
<1>2. faults \in [loss : Nat, crash : Nat]
  BY NetworkAssumption DEF IInv, TypeOK, NetTypeOK
<1>3. CASE LoseDown(c) \/ LoseUp(c)
  <2>1. /\ UNCHANGED proc
        /\ faults'.loss = faults.loss + 1 /\ faults'.crash = faults.crash
        /\ \/ toClient[c] # <<>> /\ Read(c) /\ toServer' = toServer
           \/ toServer[c] # <<>> /\ toServer' = Consume(c) /\ toClient' = toClient
    BY <1>2, <1>3 DEF LoseDown, LoseUp, Read
  <2>2. faults' # [loss |-> 0, crash |-> 0]
    BY <1>1, <2>1
  <2>3. Shifted(c)
    BY <2>1, ReadShifts, SameShifts
  <2>4. NoNewJoin /\ NoNewUpload
    BY <2>1, ConsumeJoins, SameJoins, ConsumeUploadsNothing DEF IInv, NoNewUpload
  <2>5. JInv'
    BY <1>1, <2>1, <2>3, <2>4, StillKeepsJInv
  <2>6. DInv'
    BY <1>1, <2>1, <2>2, <2>3, StillKeepsDInv
  <2> QED  BY <2>5, <2>6
<1>4. CASE Crash(c)
  <2>1. /\ proc[c] = "up" /\ proc' = [proc EXCEPT ![c] = "dead"]
        /\ toClient' = [toClient EXCEPT ![c] = <<>>]
        /\ faults'.crash = faults.crash + 1
        /\ toServer' = toServer
    BY <1>2, <1>4 DEF Crash
  <2>2. faults'.crash # 0 /\ faults' # [loss |-> 0, crash |-> 0]
    BY <1>1, <2>1
  <2>3. Shifted(c)
    BY <2>1, EmptiedShifts
  <2>4. NoNewJoin /\ NoNewUpload
    BY <2>1, SameJoins DEF NoNewUpload
  <2>5. \A d \in Clients : /\ proc'[d] = "off" <=> proc[d] = "off"
                           /\ proc'[d] = "stopped" => proc[d] = "stopped"
    BY <2>1 DEF IInv, TypeOK, NetTypeOK
  <2>6. JInv'
    BY <1>1, <2>3, <2>4, <2>5, StillKeepsJInv
  <2>7. DInv'
    BY <1>1, <2>2, <2>3, <2>5, StillKeepsDInv
  <2> QED  BY <2>6, <2>7
<1> QED  BY <1>3, <1>4 DEF Fault

LEMMA InitDInv ==
  ASSUME Init
  PROVE  JInv /\ DInv
<1>1. /\ \A c \in Clients : toClient[c] = <<>> /\ toServer[c] = <<>> /\ proc[c] = "off"
      /\ \A c \in Clients : cState[c] = -1
      /\ state = 0 /\ joinNum = 0 /\ joinInfo = {} /\ idle = Clients /\ isFinish = FALSE
      /\ neighbors \subseteq Clients
  BY DEF Init, NetInit, SInit, CInit
<1>2. \A c \in Clients : /\ DOMAIN toClient[c] = {} /\ DOMAIN toServer[c] = {}
                         /\ Joins(c) = {} /\ Asks(c) = {}
  BY <1>1 DEF Joins, Asks
<1>3. OneStep /\ Launched /\ Prelude
  BY <1>1, <1>2 DEF OneStep, Launched, Prelude
<1>4. JoinsCounted
  <2>1. Joined = {}
    BY <1>1 DEF Joined
  <2> QED  BY <1>1, <2>1, FS_EmptySet DEF JoinsCounted
<1>5. Forward(toClient, Capped(state))
  <2>1. Capped(state) = 0
    BY <1>1, RoundsAreNat DEF Capped
  <2> QED  BY <1>1, <1>2, <2>1 DEF Forward
<1>6. Open /\ NoneDead /\ NoSlotLost
  BY <1>1, <1>2 DEF Open, NoFinish, NoneDead, NoSlotLost
<1> QED  BY <1>3, <1>4, <1>5, <1>6 DEF JInv, DInv

LEMMA NextKeepsDInv ==
  ASSUME IInv, IInv', CInv, JInv, DInv, [Next]_vars
  PROVE  JInv' /\ DInv'
<1>1. ASSUME NEW c \in Clients, Reads(c)
      PROVE  JInv' /\ DInv'
  <2>1. ReadFrom(c) /\ UNCHANGED <<cVars, proc, faults>>
    BY <1>1 DEF Reads
  <2> QED
    BY <2>1, JoinInKeepsDInv, JoinInInfoKeepsDInv, ModelParaKeepsDInv, MetricsKeepDInv
       DEF ReadFrom
<1>2. ASSUME NEW c \in Clients, Client(c) \/ Fault(c)
      PROVE  JInv' /\ DInv'
  BY <1>2, ClientKeepsDInv, FaultKeepsDInv
<1>3. CASE Exits
  BY <1>3, ExitKeepsDInv
<1>4. CASE Alarm
  BY <1>4, TimeUpKeepsDInv DEF Alarm
<1>5. CASE UNCHANGED vars
  <2>1. UNCHANGED <<sVars, toClient, toServer, proc, faults, cState>>
    BY <1>5 DEF vars, netVars, cVars
  <2>2. PICK c : c \in Clients
    BY NetworkAssumption
  <2>3. Shifted(c) /\ NoNewJoin /\ NoNewUpload
    BY <2>1, <2>2, SameShifts, SameJoins DEF NoNewUpload
  <2>4. \A d \in Clients : Busy(d) => Busy(d)'
    BY <2>1 DEF Busy, Models, Updates
  <2>5. JInv'
    BY <2>1, <2>2, <2>3, StillKeepsJInv
  <2>6. DInv'
    BY <2>1, <2>2, <2>3, <2>4, StillKeepsDInv
  <2> QED  BY <2>5, <2>6
<1> QED
  BY <1>1, <1>2, <1>3, <1>4, <1>5 DEF Next, Ended

\* Joining is one message at a time for every worker, and nothing else is spoken of
\* before all have joined; the work a worker is given is in the order of its rounds;
\* no worker is told to stop, or stops, while the course still needs it.
THEOREM DeliveryIsOrderly == Spec => [](JInv /\ DInv)
<1>1. Init => JInv /\ DInv
  BY InitDInv
<1>2. IInv /\ IInv' /\ CInv /\ JInv /\ DInv /\ [Next]_vars => JInv' /\ DInv'
  BY NextKeepsDInv
<1> QED
  BY <1>1, <1>2, InductiveInvariant, DatesAreRight, PTL DEF Spec

\* In every mode of the server, with every number of workers and rounds: as long as
\* nothing was lost and nobody died, a worker that the sampler holds for busy has a
\* model or an update under way, so that no slot of the sampler leaks.
THEOREM NothingLost == Spec => []NoSlotLost
<1>1. DInv => NoSlotLost
  BY DEF DInv
<1> QED
  BY <1>1, DeliveryIsOrderly, PTL

-----------------------------------------------------------------------------
(* The start.                                                              *)

\* Inbox a holds what the server had sent, and requests for information.
Asking(a) ==
  /\ a \in Inboxes
  /\ \A c \in Clients : \A i \in DOMAIN a[c] :
       \/ i \in DOMAIN toClient[c] /\ a[c][i] = toClient[c][i]
       \/ a[c][i].type = "ask_for_join_in_info"

\* A step that starts the course sends the first models, any other sends none.
Starts(a) ==
  \/ ~Started /\ Started' /\ BroadcastModelPara(a, idle, SampleNum, state)
  \/ (Started' <=> Started) /\ NoBroadcast(a, idle)

\* The last registration starts the course, if there is no more to be learnt.
LEMMA JoinInStarts ==
  ASSUME IInv, JInv, NEW c \in Clients, HandleJoinIn(c)
  PROVE  \E a : Asking(a) /\ Starts(a)
<1> DEFINE ask == Msg("ask_for_join_in_info", state)
           a   == IF JoinInfo THEN Deliver(toClient, {c}, ask) ELSE toClient
<1>1. /\ Arrived(c, "join_in") /\ toServer[c] # <<>>
      /\ toServer' = Consume(c)
      /\ joinNum' = joinNum + 1
      /\ joinInfo' = joinInfo
      /\ TriggerForStart(a)
  BY DEF HandleJoinIn, Arrived
<1>2. Asking(a)
  <2>1. \A d \in Clients : toClient[d] \in Seq(DownMsg)
    BY ChannelsTyped
  <2>2. ask \in DownMsg /\ ask.type = "ask_for_join_in_info"
    BY RoundsAreNat DEF Msg, DownMsg, IInv, TypeOK, STypeOK
  <2> HIDE DEF ask
  <2>3. CASE JoinInfo
    <3>1. a = Deliver(toClient, {c}, ask)
      BY <2>3
    <3> HIDE DEF a
    <3>2. a \in Inboxes /\ \A d \in Clients : a[d] \in {toClient[d], Append(toClient[d], ask)}
      BY <2>1, <2>2, <3>1, AppendPositions DEF Deliver, Inboxes
    <3> QED  BY <2>1, <2>2, <3>2, AppendPositions DEF Asking
  <2>4. CASE ~JoinInfo
    BY <2>4, ChannelsTyped DEF Asking
  <2> QED  BY <2>3, <2>4
<1> HIDE DEF a
<1>3. 1 \in Joins(c) /\ toServer[c][1].type = "join_in"
  BY <1>1, ConsumePositions DEF Joins, Arrived, IInv
<1>4. c \notin joinInfo /\ c \notin Joined
  BY <1>3 DEF JInv, OneStep, Joined, Joins
<1>5. /\ Joined \in SUBSET Clients /\ Joined \cup {c} \in SUBSET Clients
      /\ joinInfo \in SUBSET Clients /\ joinNum \in Nat
  BY DEF Joined, IInv, TypeOK, STypeOK
<1>6. CASE JoinInfo
  <2>1. Cardinality(joinInfo) # Cardinality(Clients) /\ joinInfo # Clients
    BY <1>4, <1>5, MoreCounted
  <2> QED  BY <1>1, <1>2, <1>6, <2>1 DEF TriggerForStart, Starts, Started
<1>7. CASE ~JoinInfo
  <2>1. Cardinality(Joined \cup {c}) = Cardinality(Joined) + 1
    BY <1>4, <1>5, NetworkAssumption, FS_Subset, FS_AddElement
  <2>2. Cardinality(Joined) \in Nat /\ Cardinality(Clients) \in Nat
        /\ Cardinality(Joined \cup {c}) <= Cardinality(Clients)
    BY <1>5, MoreCounted
  <2>3. joinNum <= Cardinality(Joined)
    BY DEF JInv, JoinsCounted
  <2>4. joinNum < Cardinality(Clients)
    BY <1>5, <2>1, <2>2, <2>3
  <2>5. ~AllJoined
    BY <1>5, <2>2, <2>4 DEF AllJoined
  <2>6. AllJoined' <=> joinNum' = Cardinality(Clients)
    BY <1>1, <1>5, <2>2, <2>4 DEF AllJoined
  <2> QED  BY <1>1, <1>2, <1>7, <2>5, <2>6 DEF TriggerForStart, Starts, Started
<1> QED  BY <1>6, <1>7

\* So does the last worker's information, which comes once.
LEMMA JoinInInfoStarts ==
  ASSUME IInv, JInv, NEW c \in Clients, HandleJoinInInfo(c)
  PROVE  Asking(toClient) /\ Starts(toClient)
<1>1. /\ Arrived(c, "join_in_info") /\ toServer[c] # <<>>
      /\ toServer' = Consume(c)
      /\ joinInfo' = joinInfo \cup {c}
      /\ TriggerForStart(toClient)
  BY DEF HandleJoinInInfo, Arrived
<1>2. Asking(toClient)
  BY ChannelsTyped DEF Asking
<1>3. 1 \in Joins(c) /\ toServer[c][1].type = "join_in_info" /\ 1 \in DOMAIN toServer[c]
  BY <1>1, ConsumePositions DEF Joins, Arrived, IInv
<1>4. c \notin joinInfo
  BY <1>3 DEF JInv, OneStep
<1>5. JoinInfo
  BY <1>3 DEF IInv, AskedHaveJoined, Asked
<1>6. joinInfo' \in SUBSET Clients /\ Clients \in SUBSET Clients
  BY <1>1 DEF IInv, TypeOK, STypeOK
<1>7. Cardinality(joinInfo') = Cardinality(Clients) <=> joinInfo' = Clients
  BY <1>6, MoreCounted
<1>8. ~Started /\ (Started' <=> joinInfo' = Clients)
  BY <1>4, <1>5 DEF Started
<1> QED  BY <1>1, <1>2, <1>5, <1>7, <1>8 DEF TriggerForStart, Starts

\* Before the start nothing has been trained on, and nobody is busy.
Waiting ==
  ~Started =>
    /\ state = 0 /\ idle = Clients
    /\ fresh = {} /\ staled = {} /\ dropout = 0 /\ agg.from = {}
    /\ \A c \in Clients :
         /\ \A i \in DOMAIN toClient[c] : toClient[c][i].type = "ask_for_join_in_info"
         /\ \A i \in DOMAIN toServer[c] : toServer[c][i].type \in {"join_in", "join_in_info"}

\* What a worker reads or the server reads is in its channel.
LEMMA HeadsAreThere ==
  ASSUME IInv, NEW c \in Clients
  PROVE  /\ toClient[c] # <<>> => 1 \in DOMAIN toClient[c] /\ toClient[c][1] = Head(toClient[c])
         /\ toServer[c] # <<>> => 1 \in DOMAIN toServer[c] /\ toServer[c][1] = Head(toServer[c])
  BY ChannelsTyped, TailPositions

LEMMA NextKeepsWaiting ==
  ASSUME ~Timed, IInv, JInv, Waiting, [Next]_vars
  PROVE  Waiting'
<1> SUFFICES ASSUME ~Started'  PROVE Waiting'
  BY DEF Waiting
<1>1. ASSUME UNCHANGED sVars,
             \A d \in Clients :
               /\ \A i \in DOMAIN toClient'[d] : \/ \E j \in DOMAIN toClient[d] : toClient'[d][i] = toClient[d][j]
                                                 \/ toClient'[d][i].type = "ask_for_join_in_info"
               /\ \A i \in DOMAIN toServer'[d] : \/ \E j \in DOMAIN toServer[d] : toServer'[d][i] = toServer[d][j]
                                                 \/ toServer'[d][i].type \in {"join_in", "join_in_info"}
      PROVE  Waiting'
  BY <1>1 DEF Waiting, Started, sVars, roundVars, joinVars, AllJoined
<1>2. ASSUME NEW c \in Clients, NEW a, Asking(a), Starts(a), toServer[c] # <<>>,
             toServer' = Consume(c), UNCHANGED roundVars
      PROVE  Waiting'
  <2>1. ~Started /\ NoBroadcast(a, idle)
    BY <1>2 DEF Starts
  <2>2. NoNewUpload
    BY <1>2, ConsumeUploadsNothing DEF IInv
  <2> QED  BY <1>2, <2>1, <2>2 DEF Waiting, Asking, NoBroadcast, NoNewUpload, roundVars
<1>3. ASSUME UNCHANGED joinVars  PROVE ~Started
  BY <1>3 DEF Started, AllJoined, joinVars
<1>4. ASSUME NEW c \in Clients, Reads(c)
      PROVE  Waiting'
  <2>1. CASE HandleJoinIn(c)
    BY <1>2, <2>1, JoinInStarts DEF HandleJoinIn, Arrived
  <2>2. CASE HandleJoinInInfo(c)
    BY <1>2, <2>2, JoinInInfoStarts DEF HandleJoinInInfo, Arrived
  <2>3. CASE HandleModelPara(c) \/ HandleMetrics(c)
    <3>1. UNCHANGED joinVars /\ toServer[c] # <<>>
          /\ Head(toServer[c]).type \in {"model_para", "metrics"}
      BY <2>3 DEF HandleModelPara, HandleMetrics, Arrived
    <3> QED  BY <1>3, <3>1, HeadsAreThere DEF Waiting
  <2> QED  BY <1>4, <2>1, <2>2, <2>3 DEF Reads, ReadFrom
<1>5. ASSUME NEW c \in Clients, Client(c)
      PROVE  Waiting'
  <2>1. UNCHANGED sVars /\ ~Started
    BY <1>3, <1>5 DEF Client, sVars
  <2>2. CASE Train(c) \/ Evaluate(c) \/ Converged(c) \/ Finish(c)
    BY <2>1, <2>2, HeadsAreThere DEF Waiting, Train, Evaluate, Converged, Finish, Hears
  <2>3. CASE AnswerJoinInInfo(c)
    <3> DEFINE m == Msg("join_in_info", 0)
    <3>1. m \in UpMsg /\ m.type = "join_in_info"
      BY NetworkAssumption DEF UpMsg, Msg, Rounds
    <3>2. toClient[c] # <<>> /\ Read(c) /\ (Send(c, m) \/ UNCHANGED toServer)
      BY <2>3 DEF AnswerJoinInInfo, Hears
    <3> HIDE DEF m
    <3> QED  BY <1>1, <2>1, <3>1, <3>2, ReadPositions, SendPositions DEF IInv
  <2>4. CASE JoinIn(c)
    <3> DEFINE m == Msg("join_in", 0)
    <3>1. m \in UpMsg /\ m.type = "join_in"
      BY NetworkAssumption DEF UpMsg, Msg, Rounds
    <3>2. UNCHANGED toClient /\ Send(c, m)
      BY <2>4 DEF JoinIn
    <3> HIDE DEF m
    <3> QED  BY <1>1, <2>1, <3>1, <3>2, SendPositions DEF IInv
  <2> QED  BY <1>5, <2>2, <2>3, <2>4 DEF Client, ClientStep
<1>6. ASSUME NEW c \in Clients, Fault(c)
      PROVE  Waiting'
  <2>1. UNCHANGED sVars
    BY <1>6 DEF Fault
  <2>2. CASE LoseDown(c) \/ Crash(c)
    <3>1. OnlyRemoves(c) /\ UNCHANGED toServer
      BY <2>2, ReadRemoves, EmptiedRemoves DEF LoseDown, Crash, Read, IInv
    <3> QED  BY <1>1, <2>1, <3>1 DEF OnlyRemoves
  <2>3. CASE LoseUp(c)
    <3>1. NoNewUpload /\ UNCHANGED toClient
      BY <2>3, ConsumeUploadsNothing DEF LoseUp, IInv
    <3> QED  BY <1>1, <2>1, <3>1 DEF NoNewUpload
  <2> QED  BY <1>6, <2>2, <2>3 DEF Fault
<1>7. CASE Exits
  <2>1. UNCHANGED joinVars /\ state > TotalRounds
    BY <1>7 DEF Exits, ExitLoop
  <2> QED  BY <1>3, <2>1, RoundsAreNat DEF Waiting
<1>8. ~Alarm
  BY DEF Alarm, TimeUp
<1>9. CASE UNCHANGED vars
  BY <1>1, <1>9 DEF vars, netVars, sVars
<1> QED  BY <1>4, <1>5, <1>6, <1>7, <1>8, <1>9 DEF Next, Ended

\* Without an alarm the course starts with its first models, once, and before that
\* nobody has been given anything to do.
THEOREM StartsOnce ==
  ASSUME ~Timed
  PROVE  Spec => []Waiting
<1>1. Init => Waiting
  <2> SUFFICES ASSUME Init  PROVE Waiting
    OBVIOUS
  <2>1. \A c \in Clients : DOMAIN toClient[c] = {} /\ DOMAIN toServer[c] = {}
    BY DEF Init, NetInit
  <2> QED  BY <2>1 DEF Init, SInit, Waiting
<1>2. IInv /\ JInv /\ Waiting /\ [Next]_vars => Waiting'
  BY NextKeepsWaiting
<1>3. JInv /\ DInv => JInv
  OBVIOUS
<1> QED
  BY <1>1, <1>2, <1>3, InductiveInvariant, DeliveryIsOrderly, PTL DEF Spec

-----------------------------------------------------------------------------
(* The end of the training.                                                *)

\* No model and no update is of a round that is not trained.
Trained == Dated(toClient, TotalRounds - 1) /\ Dated(toServer, TotalRounds - 1)

\* Every round was aggregated once, and the buffer that an aggregation after the last
\* would read does not exist.
LInv ==
  /\ agg.count <= TotalRounds
  /\ state < TotalRounds => agg.count <= state
  /\ state = TotalRounds => ~hasRound
  /\ Trained

LEMMA LastRound == TotalRounds - 1 \in Rounds /\ TotalRounds \in Nat \ {0}
  BY NetworkAssumption DEF Rounds

\* While the training goes on, dates are as they should.
LEMMA TrainedBefore ==
  ASSUME IInv', CInv', state' < TotalRounds
  PROVE  Trained'
<1>1. state' \in Rounds /\ toClient' \in Inboxes
  BY DEF IInv, TypeOK, STypeOK, NetTypeOK, Inboxes
<1>2. state' \in Nat /\ TotalRounds \in Nat /\ state' <= TotalRounds - 1
  BY <1>1, RoundsAreNat
<1>3. Dated(toClient', TotalRounds - 1)
  BY <1>1, <1>2, LastRound, LaterDated DEF CInv
<1>4. ASSUME NEW c \in Clients, NEW i \in DOMAIN toServer'[c],
             toServer'[c][i].type = "model_para"
      PROVE  toServer'[c][i].round <= TotalRounds - 1
  <2>1. toServer'[c][i].round \in Rounds
    <3>1. toServer'[c] \in Seq(UpMsg)
      BY DEF IInv, TypeOK, NetTypeOK
    <3>2. toServer'[c][i] \in UpMsg
      BY <3>1
    <3> QED  BY <3>2 DEF UpMsg
  <2>2. toServer'[c][i].round <= state'
    BY <1>4 DEF CInv, Dated
  <2>3. toServer'[c][i].round \in Nat
    BY <2>1, RoundsAreNat
  <2> QED  BY <1>2, <2>2, <2>3
<1> QED  BY <1>3, <1>4 DEF Trained, Dated

\* An aggregation is of a round that is trained, and after the last no model is sent.
LEMMA AggregateEnds ==
  ASSUME NEW free, NEW f, NEW keyed, NEW st, NEW d,
         Handed(free, f, keyed, st, d), LInv, state # TotalRounds,
         Aggregate(free, f, st, d, 0)
  PROVE  /\ agg'.count <= TotalRounds
         /\ state' < TotalRounds => agg'.count <= state'
         /\ state' = TotalRounds => ~hasRound'
         /\ ~(state' < TotalRounds) => Dated(toClient', TotalRounds - 1)
<1> DEFINE s1  == state + 1
           due == s1 % EvalFreq = 0 /\ s1 # TotalRounds
           mid(stop) == IF due THEN Eval(s1, toClient, stop)
                        ELSE [state |-> s1, inbox |-> toClient, finished |-> FALSE]
<1>1. /\ state \in Nat /\ TotalRounds \in Nat /\ agg.count \in Nat /\ state < TotalRounds
      /\ s1 \in Rounds \ {0} /\ s1 \in Nat /\ s1 <= TotalRounds
  BY RoundsAreNat DEF Handed, Rounds
<1>2. Quiet(toClient, toClient) /\ Dated(toClient, TotalRounds - 1)
  BY QuietSame DEF Handed, LInv, Trained
<1>3. PICK stop \in BOOLEAN :
        IF MoreRounds(mid(stop).state)
          THEN NextRound(mid(stop), free, f, st, d, 0)
          ELSE FinalEval(mid(stop), free, st, d, 0)
  BY VerdictsAreBooleans DEF Aggregate
<1>4. /\ mid(stop).state \in {s1, TotalRounds + 1} /\ mid(stop).state \in Rounds \ {0}
      /\ Quiet(toClient, mid(stop).inbox)
  <2>1. CASE due
    <3>1. mid(stop) = Eval(s1, toClient, stop)
      BY <2>1
    <3> HIDE DEF s1, mid
    <3>2. /\ Eval(s1, toClient, stop).state \in Rounds \ {0}
          /\ Quiet(toClient, Eval(s1, toClient, stop).inbox)
      BY <1>1, <1>2, EvalQuiet, NetworkAssumption DEF Rounds
    <3>3. Eval(s1, toClient, stop).state \in {s1, TotalRounds + 1}
      BY EvalRound
    <3> QED  BY <3>1, <3>2, <3>3
  <2>2. CASE ~due
    BY <1>1, <1>2, <2>2
  <2> QED  BY <2>1, <2>2
<1>5. agg'.count = agg.count + 1
  BY DEF Aggregate
<1>6. agg'.count <= s1 /\ agg'.count <= TotalRounds
  BY <1>1, <1>5 DEF LInv
<1> HIDE DEF mid, due
<1>7. CASE MoreRounds(mid(stop).state)
  <2>1. state' = mid(stop).state
    BY <1>3, <1>7 DEF NextRound
  <2>2. state' = s1 /\ state' < TotalRounds
    BY <1>1, <1>4, <1>7, <2>1 DEF MoreRounds
  <2> QED  BY <1>1, <1>6, <2>2
<1>8. CASE ~MoreRounds(mid(stop).state)
  <2> DEFINE fin(v) == Eval(mid(stop).state, mid(stop).inbox, v)
  <2>1. FinalEval(mid(stop), free, st, d, 0)
    BY <1>3, <1>8
  <2>2. PICK v \in BOOLEAN :
          state' = fin(v).state /\ hasRound' = FALSE /\ NoBroadcast(fin(v).inbox, free)
    <3>1. ~(0 > 0)
      OBVIOUS
    <3> QED  BY <2>1, <3>1, VerdictsAreBooleans DEF FinalEval
  <2>3. /\ fin(v).state \in {mid(stop).state, TotalRounds + 1}
        /\ Quiet(toClient, fin(v).inbox)
    BY <1>4, EvalQuiet, EvalRound
  <2> HIDE DEF fin
  <2>4. ~(state' < TotalRounds)
    BY <1>1, <1>4, <1>8, <2>2, <2>3 DEF MoreRounds
  <2>5. Dated(toClient', TotalRounds - 1)
    BY <1>2, <2>2, <2>3, QuietDated DEF NoBroadcast
  <2> QED  BY <1>6, <2>2, <2>4, <2>5
<1> QED  BY <1>7, <1>8

LEMMA ModelParaKeepsLInv ==
  ASSUME ~AfterReceiving, IInv, CInv, LInv, IInv', CInv', NEW c \in Clients,
         HandleModelPara(c)
  PROVE  LInv'
<1>1. /\ Listening /\ Arrived(c, "model_para") /\ toServer[c] # <<>>
      /\ toServer' = Consume(c)
  BY DEF HandleModelPara, Arrived
<1>2. state \in Rounds /\ state \in Nat /\ toClient \in Inboxes
  BY Timely
<1>3. 1 \in Updates(c)
  BY <1>1, ConsumePositions DEF Arrived, Updates, IInv
<1>4. Dated(toServer', TotalRounds - 1)
  BY <1>1, ConsumeDated DEF LInv, Trained
<1>5. CASE isFinish
  <2>1. UNCHANGED <<roundVars, toClient>>
    BY <1>5 DEF HandleModelPara
  <2> QED  BY <1>4, <2>1 DEF LInv, Trained, roundVars
<1>6. CASE ~isFinish
  <2> DEFINE r     == Head(toServer[c]).round
             now   == r = state
             late  == ~now /\ Tolerated(r)
             f     == IF now THEN fresh \cup {c} ELSE fresh
             keyed == hasRound \/ now
             st    == IF late THEN staled \cup {<<r, c>>} ELSE staled
             d     == IF now \/ late THEN dropout ELSE dropout + 1
  <2>1. CheckAndMoveOn(idle \cup {c}, f, keyed, st, d, 0)
    BY <1>6 DEF HandleModelPara
  <2>2. r \in Rounds /\ r \in Nat /\ r <= TotalRounds - 1
    BY <1>1, <1>3, ConsumePositions, RoundsAreNat DEF UpMsg, LInv, Trained, Dated, Updates, IInv
  <2>3. pc = "listening" /\ state \in 0 .. TotalRounds
    BY <1>1, <1>2, <1>3, RoundsAreNat DEF IInv, WorkAfterJoining, Listening, Busy
  <2>4. Handed(idle \cup {c}, f, keyed, st, d)
    BY <1>2, <2>2, <2>3 DEF Handed, IInv, TypeOK, STypeOK
  <2>5. state = TotalRounds => ~keyed
    BY <2>2, LastRound DEF LInv
  <2> HIDE DEF r, now, late, f, keyed, st, d
  <2>6. CASE Aggregate(idle \cup {c}, f, st, d, 0) /\ keyed
    <3>1. state # TotalRounds
      BY <2>5, <2>6
    <3>2. /\ agg'.count <= TotalRounds
          /\ state' < TotalRounds => agg'.count <= state'
          /\ state' = TotalRounds => ~hasRound'
          /\ ~(state' < TotalRounds) => Dated(toClient', TotalRounds - 1)
      BY <2>4, <2>6, <3>1, AggregateEnds
    <3>3. Trained'
      BY <1>4, <3>2, TrainedBefore DEF Trained
    <3> QED  BY <3>2, <3>3 DEF LInv
  <2>7. CASE \E k : Keep(f, k, st, d) /\ (k => keyed) /\ toClient' = toClient
    <3>1. Trained'
      BY <1>4, <2>7 DEF LInv, Trained
    <3> QED  BY <2>5, <2>7, <3>1 DEF LInv, Keep
  <2>8. \/ Aggregate(idle \cup {c}, f, st, d, 0) /\ keyed
        \/ \E k : Keep(f, k, st, d) /\ (k => keyed) /\ toClient' = toClient
    <3>1. keyed \in BOOLEAN
      BY <2>4 DEF Handed
    <3>2. CASE Wait(idle \cup {c}, f, keyed, st, d, 0)
      BY <3>2 DEF Wait, NoBroadcast
    <3>3. CASE KeyError(idle \cup {c}, f, st, d)
      BY <3>3 DEF KeyError
    <3> QED  BY <2>1, <3>1, <3>2, <3>3 DEF CheckAndMoveOn
  <2> QED  BY <2>6, <2>7, <2>8
<1> QED  BY <1>5, <1>6

\* Steps that leave the rounds and their buffers alone, but for the end of the course.
LEMMA RoundsStay ==
  ASSUME LInv, UNCHANGED <<agg, hasRound>>, state' \in {state, TotalRounds + 1}, Trained'
  PROVE  LInv'
  BY LastRound DEF LInv

\* Whoever registers after the start sets nothing off.
LEMMA JoiningKeepsLInv ==
  ASSUME IInv, JInv, Waiting, LInv, IInv', CInv', NEW c \in Clients,
         HandleJoinIn(c) \/ HandleJoinInInfo(c)
  PROVE  LInv'
<1>1. /\ UNCHANGED <<roundVars, state, agg, hasRound>>
      /\ toServer[c] # <<>> /\ toServer' = Consume(c)
  BY DEF HandleJoinIn, HandleJoinInInfo, Arrived, roundVars
<1>2. Dated(toServer', TotalRounds - 1)
  BY <1>1, ConsumeDated DEF LInv, Trained
<1>3. PICK a : Asking(a) /\ Starts(a)
  BY JoinInStarts, JoinInInfoStarts
<1>4. CASE ~Started
  <2>1. state' = 0 /\ state' < TotalRounds
    BY <1>1, <1>4, LastRound DEF Waiting
  <2> QED  BY <1>1, <2>1, TrainedBefore, RoundsStay
<1>5. CASE Started
  <2>1. toClient' = a
    BY <1>3, <1>5 DEF Starts, NoBroadcast
  <2>2. Dated(toClient', TotalRounds - 1)
    BY <1>3, <2>1 DEF Asking, LInv, Trained, Dated
  <2> QED  BY <1>1, <1>2, <2>2, RoundsStay DEF Trained
<1> QED  BY <1>4, <1>5

LEMMA MetricsKeepLInv ==
  ASSUME IInv, LInv, NEW c \in Clients, HandleMetrics(c)
  PROVE  LInv'
<1>1. /\ toServer[c] # <<>> /\ toServer' = Consume(c)
      /\ UNCHANGED <<agg, hasRound>>
      /\ \/ \E stop \in BOOLEAN :
              /\ state' = CheckAndSave(state, toClient, stop).state
              /\ toClient' = CheckAndSave(state, toClient, stop).inbox
         \/ UNCHANGED <<state, toClient>>
  BY VerdictsAreBooleans DEF HandleMetrics, Arrived
<1>2. Dated(toServer', TotalRounds - 1)
  BY <1>1, ConsumeDated DEF LInv, Trained
<1>3. state \in Rounds /\ toClient \in Inboxes
  BY DEF IInv, TypeOK, STypeOK, NetTypeOK, Inboxes
<1>4. state' \in {state, TotalRounds + 1} /\ Quiet(toClient, toClient')
  <2>1. CASE UNCHANGED <<state, toClient>>
    BY <1>3, <2>1, QuietSame
  <2>2. ASSUME NEW stop \in BOOLEAN,
               state' = CheckAndSave(state, toClient, stop).state,
               toClient' = CheckAndSave(state, toClient, stop).inbox
        PROVE  state' \in {state, TotalRounds + 1} /\ Quiet(toClient, toClient')
    BY <1>3, <2>2, QuietSame, CheckAndSaveQuiet, CheckAndSaveRound
  <2> QED  BY <1>1, <2>1, <2>2
<1>5. Dated(toClient', TotalRounds - 1)
  BY <1>4, QuietDated DEF LInv, Trained
<1> QED  BY <1>1, <1>2, <1>4, <1>5, RoundsStay DEF Trained

LEMMA NextKeepsLInv ==
  ASSUME ~AfterReceiving, ~Timed, IInv, CInv, JInv, Waiting, LInv, IInv', CInv', [Next]_vars
  PROVE  LInv'
<1>1. ASSUME NEW c \in Clients, Reads(c)
      PROVE  LInv'
  BY <1>1, JoiningKeepsLInv, ModelParaKeepsLInv, MetricsKeepLInv DEF Reads, ReadFrom
<1>2. ASSUME NEW c \in Clients, Client(c) \/ Fault(c)
      PROVE  LInv'
  <2>1. UNCHANGED <<agg, hasRound, state>>
    BY <1>2 DEF Client, Fault, sVars, roundVars
  <2>2. Trained'
    BY <1>2, ClientDated, FaultDated DEF LInv, Trained
  <2> QED  BY <2>1, <2>2, RoundsStay
<1>3. CASE Exits
  <2>1. /\ toClient' = Deliver(toClient, neighbors, Msg("finish", state))
        /\ UNCHANGED <<agg, hasRound, state, toServer>>
    BY <1>3 DEF Exits, ExitLoop, Terminate, roundVars
  <2>2. state \in Rounds /\ toClient \in Inboxes
    BY Timely
  <2>3. Msg("finish", state) \in DownMsg /\ Msg("finish", state).type # "model_para"
    BY <2>2 DEF Msg, DownMsg
  <2>4. Dated(toClient', TotalRounds - 1)
    BY <2>1, <2>2, <2>3, AskDated DEF LInv, Trained
  <2> QED  BY <2>1, <2>4, RoundsStay DEF LInv, Trained
<1>4. ~Alarm
  BY DEF Alarm, TimeUp
<1>5. CASE UNCHANGED vars
  <2>1. UNCHANGED <<agg, hasRound, state, toClient, toServer>>
    BY <1>5 DEF vars, netVars, sVars, roundVars
  <2> QED  BY <2>1, RoundsStay DEF LInv, Trained
<1> QED  BY <1>1, <1>2, <1>3, <1>4, <1>5 DEF Next, Ended

\* Without alarms, and unless a new worker is given a model for every update that
\* arrives, no more rounds are aggregated than asked for: whoever evaluates, and
\* whatever arrives or gets lost after the last aggregation.
THEOREM NoMoreRounds ==
  ASSUME ~AfterReceiving, ~Timed
  PROVE  Spec => []NoRoundTooMany
<1>1. Init => LInv
  <2> SUFFICES ASSUME Init  PROVE LInv
    OBVIOUS
  <2>1. \A c \in Clients : DOMAIN toClient[c] = {} /\ DOMAIN toServer[c] = {}
    BY DEF Init, NetInit
  <2> QED  BY <2>1, LastRound DEF Init, SInit, LInv, Trained, Dated
<1>2. /\ IInv /\ CInv /\ JInv /\ Waiting /\ LInv /\ IInv' /\ CInv' /\ [Next]_vars
      => LInv'
  BY NextKeepsLInv
<1>3. JInv /\ DInv => JInv
  OBVIOUS
<1>4. LInv => NoRoundTooMany
  BY DEF LInv, NoRoundTooMany
<1>5. Spec => []Waiting
  BY StartsOnce
<1> QED
  BY <1>1, <1>2, <1>3, <1>4, <1>5, InductiveInvariant, DatesAreRight, DeliveryIsOrderly, PTL
     DEF Spec
=============================================================================
