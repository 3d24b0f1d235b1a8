----------------------------- MODULE RoundProofs -----------------------------
(***************************************************************************)
(* The rounds of a course: proofs about FedCourse for every number of      *)
(* workers and rounds.                                                     *)
(*                                                                         *)
(* 1. When a new model is sent only at the beginning of a round            *)
(*    (OncePerRound) no worker votes twice, and every round finds workers  *)
(*    to sample.  A worker that has a task has no update in the buffers,   *)
(*    because the buffers are emptied whenever tasks are given; and the    *)
(*    round of its task is after that of any update of it that was         *)
(*    aggregated last.                                                     *)
(* 2. A synchronous course that loses nothing is a sequence of cohorts     *)
(*    that all return: it implements SyncRounds.                           *)
(* 3. When everybody takes part in every round, the course ends with the   *)
(*    evaluation of its last model by everybody.                           *)
(***************************************************************************)
EXTENDS ContributorProofs

\* No model is sent in return for an update, nor because the time is up.
OncePerRound == ~AfterReceiving /\ ~Timed

\* The rounds of the tasks of worker c in the channels a to and b from the workers.
Tasks(a, b, c) ==
  {a[c][i].round : i \in {j \in DOMAIN a[c] : a[c][j].type = "model_para"}}
    \cup {b[c][i].round : i \in {j \in DOMAIN b[c] : b[c][j].type = "model_para"}}

\* No worker is in the buffers twice.
OneBuffered(f, st) ==
  /\ \A u \in st : u[2] \notin f
  /\ \A u, v \in st : u[2] = v[2] => u = v

\* Worker c, with a task of round t, has nothing in the buffers, and what was
\* aggregated of it is older.
Owes(c, t, f, st, votes) ==
  /\ c \notin f
  /\ \A u \in st : u[2] # c
  /\ \A u \in votes : u[2] = c => u[1] < t

Past(st, s) == \A u \in st : u[1] < s

VInv ==
  /\ Past(staled, state)
  /\ Past(agg.from, state)
  /\ OneBuffered(fresh, staled)
  /\ OneVotePerClient
  /\ \A c \in Clients : \A t \in Tasks(toClient, toServer, c) :
       Owes(c, t, fresh, staled, agg.from)

-----------------------------------------------------------------------------
(* Steps that leave the buffers alone.                                     *)

LEMMA PastLater ==
  ASSUME NEW st \in SUBSET (Rounds \X Clients), NEW s \in Rounds, NEW t \in Rounds,
         s <= t, Past(st, s)
  PROVE  Past(st, t)
<1> SUFFICES ASSUME NEW u \in st  PROVE u[1] < t
  BY DEF Past
<1>1. u[1] \in Nat /\ s \in Nat /\ t \in Nat
  BY RoundsAreNat
<1>2. u[1] < s
  BY DEF Past
<1> QED  BY <1>1, <1>2

LEMMA Sets ==
  ASSUME IInv
  PROVE  /\ staled \in SUBSET (Rounds \X Clients)
         /\ agg.from \in SUBSET (Rounds \X Clients)
         /\ state \in Rounds /\ fresh \subseteq Clients
BY DEF IInv, TypeOK, STypeOK

NoNewTask ==
  \A c \in Clients : Tasks(toClient', toServer', c) \subseteq Tasks(toClient, toServer, c)

\* A step that adds no task and leaves the buffers alone.
LEMMA NothingNew ==
  ASSUME IInv, VInv, UNCHANGED <<fresh, staled, agg>>, state' \in Rounds, state <= state',
         \A c \in Clients : Tasks(toClient', toServer', c) \subseteq Tasks(toClient, toServer, c)
  PROVE  VInv'
<1>1. Past(staled', state') /\ Past(agg'.from, state')
  BY Sets, PastLater DEF VInv
<1> QED  BY <1>1 DEF VInv, OneVotePerClient

\* Channels that hold no new model and no new update hold no new task.
LEMMA TasksFrom ==
  ASSUME NEW a, NEW b, NEW p, NEW q, NEW c,
         \A i \in DOMAIN p[c] : p[c][i].type = "model_para" =>
           \E j \in DOMAIN a[c] : p[c][i] = a[c][j],
         \A i \in DOMAIN q[c] : q[c][i].type = "model_para" =>
           \E j \in DOMAIN b[c] : q[c][i] = b[c][j]
  PROVE  Tasks(p, q, c) \subseteq Tasks(a, b, c)
<1> SUFFICES ASSUME NEW t \in Tasks(p, q, c)  PROVE t \in Tasks(a, b, c)
  OBVIOUS
<1>1. CASE \E i \in DOMAIN p[c] : p[c][i].type = "model_para" /\ t = p[c][i].round
  <2>1. \E j \in DOMAIN a[c] : a[c][j].type = "model_para" /\ t = a[c][j].round
    BY <1>1
  <2> QED  BY <2>1 DEF Tasks
<1>2. CASE \E i \in DOMAIN q[c] : q[c][i].type = "model_para" /\ t = q[c][i].round
  <2>1. \E j \in DOMAIN b[c] : b[c][j].type = "model_para" /\ t = b[c][j].round
    BY <1>2
  <2> QED  BY <2>1 DEF Tasks
<1> QED  BY <1>1, <1>2 DEF Tasks

LEMMA QuietTasks ==
  ASSUME NEW a, NEW b, NEW q, Quiet(a, b), NEW c \in Clients
  PROVE  Tasks(b, q, c) \subseteq Tasks(a, q, c)
<1>1. \A i \in DOMAIN b[c] : b[c][i].type = "model_para" =>
        \E j \in DOMAIN a[c] : b[c][i] = a[c][j]
  BY DEF Quiet, Notable
<1> QED  BY <1>1, TasksFrom

LEMMA ConsumeFewer ==
  ASSUME IInv, NEW c \in Clients, toServer[c] # <<>>, toServer' = Consume(c),
         NEW d \in Clients, NEW a
  PROVE  Tasks(a, toServer', d) \subseteq Tasks(a, toServer, d)
<1>1. \A i \in DOMAIN toServer'[d] : \E j \in DOMAIN toServer[d] : toServer'[d][i] = toServer[d][j]
  BY ConsumeUploadsNothing DEF IInv, NoNewUpload
<1> QED  BY <1>1, TasksFrom

\* A broadcast of the model of round s gives tasks of that round only.
LEMMA BroadcastTasks ==
  ASSUME NEW b \in Inboxes, NEW s \in Rounds, NEW free, NEW size, NEW q,
         BroadcastModelPara(b, free, size, s) \/ NoBroadcast(b, free),
         NEW c \in Clients, NEW t \in Tasks(toClient', q, c)
  PROVE  t \in Tasks(b, q, c) \/ t = Capped(s)
<1> DEFINE m == Msg("model_para", Capped(s))
<1>1. m \in DownMsg /\ m.round = Capped(s)
  BY RoundsAreNat DEF Msg, Capped, DownMsg, Rounds
<1>2. b[c] \in Seq(DownMsg)
  BY DEF Inboxes
<1>3. toClient'[c] \in {b[c], Append(b[c], m)}
  BY DEF BroadcastModelPara, NoBroadcast, Deliver
<1> HIDE DEF m
<1>4. CASE \E i \in DOMAIN toClient'[c] :
             toClient'[c][i].type = "model_para" /\ t = toClient'[c][i].round
  <2>1. PICK i \in DOMAIN toClient'[c] :
             toClient'[c][i].type = "model_para" /\ t = toClient'[c][i].round
    BY <1>4
  <2>2. \/ i \in DOMAIN b[c] /\ toClient'[c][i] = b[c][i]
        \/ toClient'[c][i] = m
    BY <1>1, <1>2, <1>3, <2>1, AppendPositions
  <2> QED  BY <1>1, <2>1, <2>2 DEF Tasks
<1>5. CASE \E i \in DOMAIN q[c] : q[c][i].type = "model_para" /\ t = q[c][i].round
  BY <1>5 DEF Tasks
<1> QED  BY <1>4, <1>5 DEF Tasks

-----------------------------------------------------------------------------
(* The server looks at its training buffer.                                *)

\* What it is handed, with the update just read taken out of the channel.
Ballot(f, st) ==
  /\ f \subseteq Clients /\ st \in SUBSET (Rounds \X Clients)
  /\ Past(st, state)
  /\ OneBuffered(f, st)
  /\ \A c \in Clients : \A t \in Tasks(toClient, toServer', c) : Owes(c, t, f, st, agg.from)

\* What is then in the buffers and in the channels to the workers.
Counted(f, st) ==
  /\ state' \in Rounds /\ state <= state'
  /\ fresh' \subseteq f /\ staled' \subseteq st
  /\ \/ agg' = agg
     \/ agg'.from = Pooled(state, f, st) /\ state < state'
  /\ \A c \in Clients : \A t \in Tasks(toClient', toServer', c) :
       \/ t \in Tasks(toClient, toServer', c)
       \/ fresh' = {} /\ staled' = {} /\ t = state' /\ agg' # agg

LEMMA AggregateCounts ==
  ASSUME OncePerRound, NEW free, NEW f, NEW keyed, NEW st, NEW d,
         Handed(free, f, keyed, st, d), Aggregate(free, f, st, d, 0)
  PROVE  Counted(f, st)
<1> DEFINE s1  == state + 1
           due == s1 % EvalFreq = 0 /\ s1 # TotalRounds
           mid(stop) == IF due THEN Eval(s1, toClient, stop)
                        ELSE [state |-> s1, inbox |-> toClient, finished |-> FALSE]
<1>1. s1 \in Rounds \ {0} /\ s1 \in Nat /\ state \in Nat /\ TotalRounds \in Nat
  BY RoundsAreNat DEF Handed, Rounds
<1>2. Quiet(toClient, toClient)
  BY QuietSame DEF Handed
<1>3. PICK stop \in BOOLEAN :
        IF MoreRounds(mid(stop).state)
          THEN NextRound(mid(stop), free, f, st, d, 0)
          ELSE FinalEval(mid(stop), free, st, d, 0)
  BY VerdictsAreBooleans DEF Aggregate
<1>4. /\ mid(stop).state \in {s1, TotalRounds + 1}
      /\ mid(stop).state \in Rounds \ {0}
      /\ Quiet(toClient, mid(stop).inbox)
  <2>1. CASE due
    <3>1. mid(stop) = Eval(s1, toClient, stop)
      BY <2>1
    <3> HIDE DEF s1, mid
    <3>2. /\ Eval(s1, toClient, stop).state \in Rounds \ {0}
          /\ Quiet(toClient, Eval(s1, toClient, stop).inbox)
      BY <1>1, <1>2, EvalQuiet, NetworkAssumption DEF Rounds
    <3>3. Eval(s1, toClient, stop).state \in {s1, TotalRounds + 1}
      BY EvalRound
    <3> QED  BY <3>1, <3>2, <3>3
  <2>2. CASE ~due
    BY <1>1, <1>2, <2>2
  <2> QED  BY <2>1, <2>2
<1>5. agg'.from = Pooled(state, f, st) /\ agg'.count = agg.count + 1
  BY DEF Aggregate, Pooled
<1>6. agg' # agg
  <2>1. agg.count \in Nat
    BY DEF Handed
  <2> QED  BY <1>5, <2>1
<1>7. state < s1 /\ state <= TotalRounds
  BY <1>1 DEF Handed
<1> HIDE DEF mid, s1, due
<1>8. CASE MoreRounds(mid(stop).state)
  <2>1. /\ state' = mid(stop).state
        /\ fresh' = {} /\ staled' = {}
        /\ \E n : BroadcastModelPara(mid(stop).inbox, free, n, mid(stop).state)
    BY <1>3, <1>8 DEF NextRound, OncePerRound
  <2>2. state' \in Rounds /\ state' = s1 /\ Capped(state') = state'
    BY <1>1, <1>4, <1>8, <2>1 DEF MoreRounds, Capped
  <2>3. ASSUME NEW c \in Clients, NEW t \in Tasks(toClient', toServer', c)
        PROVE  t \in Tasks(toClient, toServer', c) \/ t = state'
    <3>1. t \in Tasks(mid(stop).inbox, toServer', c) \/ t = Capped(state')
      BY <1>4, <2>1, <2>3, BroadcastTasks DEF Quiet
    <3> QED  BY <1>4, <2>2, <3>1, QuietTasks
  <2> QED  BY <1>1, <1>5, <1>6, <1>7, <2>1, <2>2, <2>3 DEF Counted
<1>9. CASE ~MoreRounds(mid(stop).state)
  <2> DEFINE fin(v) == Eval(mid(stop).state, mid(stop).inbox, v)
  <2>1. FinalEval(mid(stop), free, st, d, 0)
    BY <1>3, <1>9
  <2>2. PICK v \in BOOLEAN :
          /\ state' = fin(v).state
          /\ fresh' = {}
          /\ staled' = st
          /\ IF 0 > 0 THEN BroadcastModelPara(fin(v).inbox, free, 0, fin(v).state)
                      ELSE NoBroadcast(fin(v).inbox, free)
    BY <2>1, VerdictsAreBooleans DEF FinalEval
  <2>3. /\ fin(v).state \in {mid(stop).state, TotalRounds + 1}
        /\ fin(v).state \in Rounds
        /\ Quiet(toClient, fin(v).inbox)
    BY <1>4, EvalQuiet, EvalRound
  <2> HIDE DEF fin
  <2>4. state' \in {s1, TotalRounds + 1} /\ state' \in Rounds
    BY <1>4, <2>2, <2>3
  <2>5. state < state'
    BY <1>1, <1>7, <2>4
  <2>6. state <= state'
    BY <1>1, <1>7, <2>4
  <2>7. \A c \in Clients : Tasks(toClient', toServer', c) \subseteq Tasks(toClient, toServer', c)
    BY <2>2, <2>3, QuietTasks DEF NoBroadcast
  <2> QED  BY <1>5, <2>2, <2>4, <2>5, <2>6, <2>7 DEF Counted
<1> QED  BY <1>8, <1>9

LEMMA MoveOnCounts ==
  ASSUME OncePerRound, NEW free, NEW f, NEW keyed, NEW st, NEW d,
         Handed(free, f, keyed, st, d), CheckAndMoveOn(free, f, keyed, st, d, 0)
  PROVE  Counted(f, st)
<1>1. state \in Rounds /\ state <= state
  BY RoundsAreNat DEF Handed, Rounds
<1>2. ASSUME NEW k, Keep(f, k, st, d), toClient' = toClient
      PROVE  Counted(f, st)
  BY <1>1, <1>2 DEF Keep, Counted
<1>3. CASE Wait(free, f, keyed, st, d, 0)
  BY <1>2, <1>3 DEF Wait, NoBroadcast
<1>4. CASE Aggregate(free, f, st, d, 0)
  BY <1>4, AggregateCounts
<1>5. CASE KeyError(free, f, st, d)
  BY <1>2, <1>5 DEF KeyError
<1> QED  BY <1>3, <1>4, <1>5 DEF CheckAndMoveOn, Handed

\* One vote per worker before and after, when every worker is in the buffers once.
LEMMA CountedKeeps ==
  ASSUME VInv, NEW f, NEW st, Ballot(f, st), Counted(f, st), IInv, IInv'
  PROVE  VInv'
<1>1. fresh' \subseteq f /\ staled' \subseteq st /\ state' \in Rounds /\ state <= state'
  BY DEF Counted
<1>2. OneBuffered(fresh', staled')
  BY <1>1 DEF Ballot, OneBuffered
<1>3. Past(staled', state')
  <2>1. Past(st, state')
    BY <1>1, Sets, PastLater DEF Ballot
  <2> QED  BY <1>1, <2>1 DEF Past
<1>4. CASE agg' = agg
  <2>1. Past(agg'.from, state')
    BY <1>1, <1>4, Sets, PastLater DEF VInv
  <2>2. ASSUME NEW c \in Clients, NEW t \in Tasks(toClient', toServer', c)
        PROVE  Owes(c, t, fresh', staled', agg'.from)
    BY <1>1, <1>4, <2>2 DEF Counted, Ballot, Owes
  <2> QED  BY <1>2, <1>3, <1>4, <2>1, <2>2 DEF VInv, OneVotePerClient
<1>5. CASE agg'.from = Pooled(state, f, st) /\ state < state'
  <2>1. \A u \in agg'.from : (u[1] = state /\ u[2] \in f /\ u = <<state, u[2]>>) \/ u \in st
    BY <1>5 DEF Pooled
  <2>2. Past(agg'.from, state')
    <3>1. Past(st, state')
      BY <1>1, Sets, PastLater DEF Ballot
    <3> QED  BY <1>5, <2>1, <3>1 DEF Past
  <2>3. OneVotePerClient'
    <3> SUFFICES ASSUME NEW u \in agg'.from, NEW v \in agg'.from, u[2] = v[2]
                 PROVE  u = v
      BY DEF OneVotePerClient
    <3> QED  BY <2>1 DEF Ballot, OneBuffered
  <2>4. ASSUME NEW c \in Clients, NEW t \in Tasks(toClient', toServer', c)
        PROVE  Owes(c, t, fresh', staled', agg'.from)
    <3>1. CASE t \in Tasks(toClient, toServer', c)
      <4>1. c \notin f /\ \A u \in st : u[2] # c
        BY <3>1 DEF Ballot, Owes
      <4> QED  BY <1>1, <2>1, <4>1 DEF Owes
    <3>2. CASE fresh' = {} /\ staled' = {} /\ t = state'
      BY <2>2, <3>2 DEF Owes, Past
    <3> QED  BY <2>4, <3>1, <3>2 DEF Counted
  <2> QED  BY <1>2, <1>3, <2>2, <2>3, <2>4 DEF VInv
<1> QED  BY <1>4, <1>5 DEF Counted

-----------------------------------------------------------------------------
(* Every step keeps the invariant.                                         *)

\* A worker whose update was just read has no task any more.
LEMMA NoTaskLeft ==
  ASSUME IInv, NEW c \in Clients, toServer' = Consume(c), Arrived(c, "model_para")
  PROVE  Tasks(toClient, toServer', c) = {}
<1>1. TasksOf(toClient, idle \cup {c})
  BY ConsumeTasks DEF Arrived
<1>2. /\ {i \in DOMAIN toClient[c] : toClient[c][i].type = "model_para"} = {}
      /\ {i \in DOMAIN toServer'[c] : toServer'[c][i].type = "model_para"} = {}
  BY <1>1 DEF TasksOf
<1> QED  BY <1>2 DEF Tasks

LEMMA ModelParaKeepsVInv ==
  ASSUME OncePerRound, IInv, CInv, VInv, IInv', NEW c \in Clients, HandleModelPara(c)
  PROVE  VInv'
<1>1. /\ Listening /\ Arrived(c, "model_para") /\ toServer[c] # <<>>
      /\ toServer' = Consume(c)
      /\ UNCHANGED joinNum
  BY DEF HandleModelPara, Arrived, joinVars
<1>2. /\ state \in Rounds /\ state \in Nat /\ toClient \in Inboxes
  BY Timely
<1>3. 1 \in Updates(c) /\ toServer[c][1] = Head(toServer[c]) /\ Head(toServer[c]) \in UpMsg
  BY <1>1, ConsumePositions DEF Arrived, Updates, IInv
<1>4. AllJoined /\ AllJoined'
  BY <1>1, <1>3 DEF IInv, WorkAfterJoining, Busy, AllJoined
<1>5. \A d \in Clients : Tasks(toClient, toServer', d) \subseteq Tasks(toClient, toServer, d)
  BY <1>1, ConsumeFewer
<1>6. CASE isFinish
  <2>1. UNCHANGED <<fresh, staled, agg, state, toClient>>
    BY <1>6 DEF HandleModelPara, roundVars
  <2>2. state' \in Rounds /\ state <= state'
    BY <1>2, <2>1
  <2> QED  BY <1>4, <1>5, <2>1, <2>2, NothingNew
<1>7. CASE ~isFinish
  <2> DEFINE r     == Head(toServer[c]).round
             now   == r = state
             late  == ~now /\ Tolerated(r)
             f     == IF now THEN fresh \cup {c} ELSE fresh
             keyed == hasRound \/ now
             st    == IF late THEN staled \cup {<<r, c>>} ELSE staled
             d     == IF now \/ late THEN dropout ELSE dropout + 1
  <2>1. CheckAndMoveOn(idle \cup {c}, f, keyed, st, d, 0)
    BY <1>7 DEF HandleModelPara, OncePerRound
  <2>2. r \in Rounds /\ r \in Nat /\ r <= state
    BY <1>1, <1>3, RoundsAreNat DEF UpMsg, CInv, Dated, Updates
  <2>3. pc = "listening" /\ state \in 0 .. TotalRounds
    BY <1>1, <1>2, <1>4, RoundsAreNat DEF IInv, Listening
  <2>4. Handed(idle \cup {c}, f, keyed, st, d)
    BY <1>2, <2>2, <2>3 DEF Handed, IInv, TypeOK, STypeOK
  <2>5. r \in Tasks(toClient, toServer, c)
    BY <1>3 DEF Tasks, Updates
  <2>6. c \notin fresh /\ \A u \in staled : u[2] # c
    BY <2>5 DEF VInv, Owes
  <2>7. late => r < state
    BY <1>2, <2>2
  <2>8. Past(st, state)
    BY <2>7 DEF Past, VInv
  <2>9. OneBuffered(f, st)
    BY <2>6 DEF OneBuffered, VInv
  <2>10. f \subseteq fresh \cup {c} /\ st \subseteq staled \cup {<<r, c>>}
    OBVIOUS
  <2>11. f \subseteq Clients /\ st \in SUBSET (Rounds \X Clients)
    BY <2>4 DEF Handed
  <2> HIDE DEF r, now, late, f, keyed, st, d
  <2>12. ASSUME NEW e \in Clients, NEW t \in Tasks(toClient, toServer', e)
         PROVE  Owes(e, t, f, st, agg.from)
    <3>1. e # c
      BY <1>1, <2>12, NoTaskLeft
    <3>2. Owes(e, t, fresh, staled, agg.from)
      BY <1>5, <2>12 DEF VInv
    <3> QED  BY <2>10, <3>1, <3>2 DEF Owes
  <2>13. Ballot(f, st)
    BY <2>8, <2>9, <2>11, <2>12 DEF Ballot
  <2>14. Counted(f, st)
    BY <2>1, <2>4, MoveOnCounts
  <2> QED  BY <1>4, <2>13, <2>14, CountedKeeps
<1> QED  BY <1>6, <1>7

LEMMA MetricsKeepVInv ==
  ASSUME IInv, VInv, NEW c \in Clients, HandleMetrics(c)
  PROVE  VInv'
<1>1. /\ toServer[c] # <<>> /\ toServer' = Consume(c)
      /\ UNCHANGED <<fresh, staled, agg, joinNum>>
  BY DEF HandleMetrics, Arrived, joinVars
<1>2. /\ state \in Rounds /\ state \in Nat /\ toClient \in Inboxes
  BY DEF IInv, TypeOK, STypeOK, NetTypeOK, Inboxes, Rounds
<1>3. /\ state' \in {state, TotalRounds + 1}
      /\ Quiet(toClient, toClient')
  <2>1. \/ \E stop \in BOOLEAN :
             /\ state' = CheckAndSave(state, toClient, stop).state
             /\ toClient' = CheckAndSave(state, toClient, stop).inbox
        \/ UNCHANGED <<state, toClient>>
    BY VerdictsAreBooleans DEF HandleMetrics
  <2>2. CASE UNCHANGED <<state, toClient>>
    BY <1>2, <2>2, QuietSame
  <2>3. ASSUME NEW stop \in BOOLEAN,
               state' = CheckAndSave(state, toClient, stop).state,
               toClient' = CheckAndSave(state, toClient, stop).inbox
        PROVE  state' \in {state, TotalRounds + 1} /\ Quiet(toClient, toClient')
    BY <1>2, <2>3, QuietSame, CheckAndSaveQuiet, CheckAndSaveRound
  <2> QED  BY <2>1, <2>2, <2>3
<1>4. state' \in Rounds /\ state <= state'
  BY <1>2, <1>3, RoundsAreNat DEF Rounds
<1>5. ASSUME NEW d \in Clients
      PROVE  Tasks(toClient', toServer', d) \subseteq Tasks(toClient, toServer, d)
  BY <1>1, <1>3, ConsumeFewer, QuietTasks
<1> QED  BY <1>1, <1>4, <1>5, NothingNew

\* The first models are sent when nothing is in the buffers.
LEMMA StartKeepsVInv ==
  ASSUME IInv, VInv, Waiting, NEW c \in Clients, toServer[c] # <<>>, toServer' = Consume(c),
         UNCHANGED roundVars, NEW a, Asking(a), Starts(a)
  PROVE  VInv'
<1>1. state \in Rounds /\ state <= state /\ UNCHANGED <<state, fresh, staled, agg>>
  BY RoundsAreNat DEF IInv, TypeOK, STypeOK, roundVars
<1>2. CASE NoBroadcast(a, idle)
  <2>1. ASSUME NEW d \in Clients
        PROVE  Tasks(toClient', toServer', d) \subseteq Tasks(toClient, toServer, d)
    <3>1. Tasks(a, toServer', d) \subseteq Tasks(toClient, toServer', d)
      BY TasksFrom DEF Asking
    <3> QED  BY <1>2, <3>1, ConsumeFewer DEF NoBroadcast
  <2> QED  BY <1>1, <2>1, NothingNew
<1>3. CASE ~Started
  BY <1>1, <1>3 DEF VInv, Waiting, Owes, Past, OneBuffered, OneVotePerClient
<1> QED  BY <1>2, <1>3 DEF Starts

LEMMA ExitKeepsVInv ==
  ASSUME IInv, VInv, Exits
  PROVE  VInv'
<1>1. /\ toClient' = Deliver(toClient, neighbors, Msg("finish", state))
      /\ UNCHANGED <<roundVars, joinVars, toServer>>
  BY DEF Exits, ExitLoop, Terminate
<1>2. state \in Rounds /\ state <= state /\ toClient \in Inboxes
  BY RoundsAreNat DEF IInv, TypeOK, STypeOK, NetTypeOK, Inboxes
<1>3. Msg("finish", state) \in DownMsg /\ Msg("finish", state).type \notin Notable
  BY <1>2 DEF Msg, DownMsg, Notable
<1>4. Quiet(toClient, toClient')
  BY <1>1, <1>2, <1>3, QuietSame, QuietDeliver
<1>5. \A c \in Clients : Tasks(toClient', toServer', c) \subseteq Tasks(toClient, toServer, c)
  BY <1>1, <1>4, QuietTasks
<1> QED  BY <1>1, <1>2, <1>5, NothingNew DEF roundVars, joinVars, AllJoined

\* A step of a worker, or a fault, makes no new task: what a worker uploads is the
\* round of a task it had.
LEMMA WorkerTasks ==
  ASSUME IInv, NEW c \in Clients, OnlyRemoves(c),
         NEW m \in UpMsg, Send(c, m) \/ UNCHANGED toServer,
         m.type = "model_para" => m.round \in Tasks(toClient, toServer, c)
  PROVE  NoNewTask
<1>1. TypeOK
  BY DEF IInv
<1>2. ASSUME NEW d \in Clients, NEW t \in Tasks(toClient', toServer', d)
      PROVE  t \in Tasks(toClient, toServer, d)
  <2>1. CASE \E i \in DOMAIN toClient'[d] :
               toClient'[d][i].type = "model_para" /\ t = toClient'[d][i].round
    <3>1. PICK i \in DOMAIN toClient'[d] :
               toClient'[d][i].type = "model_para" /\ t = toClient'[d][i].round
      BY <2>1
    <3>2. \E k \in DOMAIN toClient[d] : toClient'[d][i] = toClient[d][k]
      BY DEF OnlyRemoves
    <3> QED  BY <3>1, <3>2 DEF Tasks
  <2>2. CASE \E i \in DOMAIN toServer'[d] :
               toServer'[d][i].type = "model_para" /\ t = toServer'[d][i].round
    <3>1. PICK i \in DOMAIN toServer'[d] :
               toServer'[d][i].type = "model_para" /\ t = toServer'[d][i].round
      BY <2>2
    <3>2. \/ i \in DOMAIN toServer[d] /\ toServer'[d][i] = toServer[d][i]
          \/ d = c /\ toServer'[d][i] = m
      <4>1. CASE UNCHANGED toServer
        BY <4>1
      <4>2. CASE Send(c, m)
        BY <1>1, <4>2, SendPositions
      <4> QED  BY <4>1, <4>2
    <3> QED  BY <3>1, <3>2 DEF Tasks
  <2> QED  BY <1>2, <2>1, <2>2 DEF Tasks
<1> QED  BY <1>2 DEF NoNewTask

LEMMA ClientAddsNoTask ==
  ASSUME IInv, NEW c \in Clients, Client(c)
  PROVE  NoNewTask
<1>1. TypeOK
  BY DEF IInv
<1>2. ASSUME toClient[c] # <<>>, Read(c)
      PROVE  /\ OnlyRemoves(c) /\ Head(toClient[c]) \in DownMsg
             /\ 1 \in DOMAIN toClient[c] /\ Head(toClient[c]) = toClient[c][1]
  BY <1>1, <1>2, ReadRemoves, ReadPositions
<1>3. CASE Train(c)
  <2> DEFINE r == Head(toClient[c]).round
  <2>1. /\ toClient[c] # <<>> /\ Head(toClient[c]).type = "model_para" /\ Read(c)
        /\ Send(c, Msg("model_para", r)) \/ UNCHANGED toServer
    BY <1>3 DEF Train, Hears, Answer
  <2>2. r \in Tasks(toClient, toServer, c)
    BY <1>2, <2>1 DEF Tasks
  <2>3. Msg("model_para", r) \in UpMsg /\ Msg("model_para", r).round = r
    BY <1>2, <2>1 DEF UpMsg, DownMsg, Msg
  <2> HIDE DEF r
  <2> QED  BY <1>1, <1>2, <2>1, <2>2, <2>3, WorkerTasks
<1>4. CASE Evaluate(c)
  <2> DEFINE r == Head(toClient[c]).round
  <2>1. /\ toClient[c] # <<>> /\ Read(c)
        /\ Send(c, Msg("metrics", r)) \/ UNCHANGED toServer
    BY <1>4 DEF Evaluate, Hears, Answer
  <2>2. Msg("metrics", r) \in UpMsg /\ Msg("metrics", r).type # "model_para"
    BY <1>2, <2>1 DEF DownMsg, UpMsg, Msg
  <2> HIDE DEF r
  <2> QED  BY <1>1, <1>2, <2>1, <2>2, WorkerTasks
<1>5. CASE AnswerJoinInInfo(c)
  <2>1. /\ toClient[c] # <<>> /\ Read(c)
        /\ Send(c, Msg("join_in_info", 0)) \/ UNCHANGED toServer
    BY <1>5 DEF AnswerJoinInInfo, Hears
  <2>2. Msg("join_in_info", 0) \in UpMsg /\ Msg("join_in_info", 0).type # "model_para"
    BY NetworkAssumption DEF UpMsg, Msg, Rounds
  <2> QED  BY <1>1, <1>2, <2>1, <2>2, WorkerTasks
<1>6. Msg("join_in", 0) \in UpMsg /\ Msg("join_in", 0).type # "model_para"
  BY NetworkAssumption DEF UpMsg, Msg, Rounds
<1>7. CASE JoinIn(c)
  <2>1. Send(c, Msg("join_in", 0)) /\ UNCHANGED toClient
    BY <1>7 DEF JoinIn
  <2> QED  BY <1>1, <1>6, <2>1, NothingReceivedRemoves, WorkerTasks
<1>8. CASE Converged(c) \/ Finish(c)
  <2>1. OnlyRemoves(c) /\ UNCHANGED toServer
    BY <1>1, <1>8, ReadRemoves, EmptiedRemoves DEF Converged, Finish, Hears, TypeOK, NetTypeOK
  <2> QED  BY <1>1, <1>6, <2>1, WorkerTasks
<1> QED  BY <1>3, <1>4, <1>5, <1>7, <1>8 DEF Client, ClientStep

LEMMA ClientKeepsVInv ==
  ASSUME IInv, VInv, NEW c \in Clients, Client(c)
  PROVE  VInv'
<1>1. UNCHANGED <<fresh, staled, agg, state>>
  BY DEF Client, sVars, roundVars
<1>2. state' \in Rounds /\ state <= state'
  BY <1>1, RoundsAreNat DEF IInv, TypeOK, STypeOK
<1> QED  BY <1>1, <1>2, ClientAddsNoTask, NothingNew DEF NoNewTask

LEMMA FaultKeepsVInv ==
  ASSUME IInv, VInv, NEW c \in Clients, Fault(c)
  PROVE  VInv'
<1>1. TypeOK /\ UNCHANGED sVars
  BY DEF IInv, Fault
<1>2. CASE LoseDown(c) \/ Crash(c)
  <2>1. OnlyRemoves(c) /\ UNCHANGED toServer
    BY <1>1, <1>2, ReadRemoves, EmptiedRemoves DEF LoseDown, Crash, Read
  <2>2. Msg("join_in", 0) \in UpMsg /\ Msg("join_in", 0).type # "model_para"
    BY NetworkAssumption DEF UpMsg, Msg, Rounds
  <2>3. state' \in Rounds /\ state <= state'
    BY <1>1, RoundsAreNat DEF TypeOK, STypeOK, sVars, roundVars
  <2> QED
    BY <1>1, <2>1, <2>2, <2>3, WorkerTasks, NothingNew DEF NoNewTask, sVars, roundVars
<1>3. CASE LoseUp(c)
  <2>1. toServer[c] # <<>> /\ toServer' = Consume(c) /\ UNCHANGED toClient
    BY <1>3 DEF LoseUp
  <2>2. \A d \in Clients : Tasks(toClient', toServer', d) \subseteq Tasks(toClient, toServer, d)
    BY <2>1, ConsumeFewer
  <2>3. state' \in Rounds /\ state <= state'
    BY <1>1, RoundsAreNat DEF TypeOK, STypeOK, sVars, roundVars
  <2> QED  BY <1>1, <2>2, <2>3, NothingNew DEF sVars, roundVars, joinVars, AllJoined
<1> QED  BY <1>2, <1>3 DEF Fault

-----------------------------------------------------------------------------
(* The theorems.                                                           *)

LEMMA InitVInv ==
  ASSUME Init
  PROVE  VInv
<1>1. \A c \in Clients : Tasks(toClient, toServer, c) = {}
  BY DEF Init, NetInit, Tasks
<1> QED  BY <1>1 DEF Init, SInit, VInv, Past, OneBuffered, OneVotePerClient

LEMMA NextKeepsVInv ==
  ASSUME OncePerRound, IInv, CInv, JInv, Waiting, VInv, IInv', [Next]_vars
  PROVE  VInv'
<1>1. ASSUME NEW c \in Clients, Reads(c)
      PROVE  VInv'
  <2>1. CASE HandleJoinIn(c)
    BY <2>1, JoinInStarts, StartKeepsVInv DEF HandleJoinIn, Arrived
  <2>2. CASE HandleJoinInInfo(c)
    BY <2>2, JoinInInfoStarts, StartKeepsVInv DEF HandleJoinInInfo, Arrived
  <2> QED  BY <1>1, <2>1, <2>2, ModelParaKeepsVInv, MetricsKeepVInv DEF Reads, ReadFrom
<1>2. ASSUME NEW c \in Clients, Client(c)
      PROVE  VInv'
  BY <1>2, ClientKeepsVInv
<1>3. ASSUME NEW c \in Clients, Fault(c)
      PROVE  VInv'
  BY <1>3, FaultKeepsVInv
<1>4. CASE Exits
  BY <1>4, ExitKeepsVInv
<1>5. ~Alarm
  BY DEF OncePerRound, Alarm, TimeUp
<1>6. CASE UNCHANGED vars
  <2>1. UNCHANGED <<roundVars, joinVars, toClient, toServer>>
    BY <1>6 DEF vars, netVars, sVars
  <2> QED  BY <2>1 DEF roundVars, joinVars, VInv, Tasks, AllJoined, OneVotePerClient
<1> QED  BY <1>1, <1>2, <1>3, <1>4, <1>5, <1>6 DEF Next, Ended

\* Who has a task is not in the buffers, and was last aggregated in an older round.
THEOREM TasksAreOpen ==
  ASSUME OncePerRound
  PROVE  Spec => []VInv
<1>1. Init => VInv
  BY InitVInv
<1>2. IInv /\ IInv' /\ CInv /\ JInv /\ Waiting /\ VInv /\ [Next]_vars => VInv'
  BY NextKeepsVInv
<1>3. Spec => []Waiting
  BY StartsOnce DEF OncePerRound
<1> QED
  BY <1>1, <1>2, <1>3, InductiveInvariant, DatesAreRight, DeliveryIsOrderly, PTL DEF Spec

\* No worker's updates are in one aggregation twice, however late one of them comes.
THEOREM OneVote ==
  ASSUME OncePerRound
  PROVE  Spec => []OneVotePerClient
<1>1. VInv => OneVotePerClient
  BY DEF VInv
<1> QED  BY <1>1, TasksAreOpen, PTL

\* An update is aggregated once: when it has been, or waits in the buffer of staled
\* ones, none like it is still on its way.
THEOREM CountedOnce ==
  ASSUME OncePerRound
  PROVE  Spec => []NothingCountedTwice
<1>1. IInv /\ VInv => NothingCountedTwice
  <2> SUFFICES ASSUME IInv, VInv, NEW c \in Clients, NEW i \in Updates(c)
               PROVE  <<toServer[c][i].round, c>> \notin agg.from \cup staled
    BY DEF NothingCountedTwice
  <2> DEFINE t == toServer[c][i].round
  <2>1. t \in Tasks(toClient, toServer, c)
    BY DEF Tasks, Updates
  <2>2. Owes(c, t, fresh, staled, agg.from)
    BY <2>1 DEF VInv
  <2>3. t \in Nat
    <3>1. toServer[c] \in Seq(UpMsg) /\ i \in DOMAIN toServer[c]
      BY DEF IInv, TypeOK, NetTypeOK, Updates
    <3>2. toServer[c][i] \in UpMsg
      BY <3>1
    <3> QED  BY <3>2, RoundsAreNat DEF UpMsg
  <2> HIDE DEF t
  <2>4. <<t, c>> \notin staled
    BY <2>2 DEF Owes
  <2>5. ASSUME <<t, c>> \in agg.from  PROVE FALSE
    <3>1. t < t
      BY <2>2, <2>5 DEF Owes
    <3> QED  BY <2>3, <3>1
  <2> QED  BY <2>4, <2>5 DEF t
<1> QED  BY <1>1, InductiveInvariant, TasksAreOpen, PTL

-----------------------------------------------------------------------------
(* The sampler's accounts, when a round replaces those who returned.       *)

\* A new round asks for as many workers as have returned since the last was started.
Replenished == OncePerRound /\ ~Overselection

\* Workers with a task, and what was received since the last models were sent, fresh,
\* staled and dropped, are at most as many as are sampled.
Account(free, f, st, d) ==
  Cardinality(Clients \ free) + Cardinality(f) + Cardinality(st) + d <= SampleNum

SlotInv ==
  /\ Account(idle, fresh, staled, dropout)
  /\ Unseen \subseteq idle
  /\ SamplerNeverStarved

LEMMA Sizes ==
  ASSUME NEW f \in SUBSET Clients, NEW st \in SUBSET (Rounds \X Clients)
  PROVE  /\ IsFiniteSet(f) /\ Cardinality(f) \in Nat
         /\ IsFiniteSet(st) /\ Cardinality(st) \in Nat
<1>1. IsFiniteSet(f)
  BY NetworkAssumption, FS_Subset
<1>2. IsFiniteSet(st)
  <2>1. IsFiniteSet(Rounds)
    BY RoundsAreNat, FS_Interval DEF Rounds
  <2>2. IsFiniteSet(Rounds \X Clients)
    BY <2>1, NetworkAssumption, FS_Product
  <2> QED  BY <2>2, FS_Subset
<1> QED  BY <1>1, <1>2, FS_CardinalityType

LEMMA NothingCounts ==
  /\ Cardinality({}) = 0
  /\ SampleNum \in Nat \ {0} /\ MinReceived \in Nat \ {0}
  /\ IsFiniteSet(Clients \ Unseen) /\ SampleNum <= Cardinality(Clients \ Unseen)
  /\ Cardinality(Clients \ Unseen) \in Nat
<1>1. IsFiniteSet(Clients \ Unseen)
  BY NetworkAssumption, FS_Subset
<1>2. Cardinality(Clients \ Unseen) \in Nat
  BY <1>1, FS_CardinalityType
<1> QED  BY <1>1, <1>2, FS_EmptySet, ServerAssumption

\* Sampling workers makes that many more busy, and never fails for lack of idle ones
\* while no more are busy in the end than are sampled in a round.
LEMMA SamplingAccounts ==
  ASSUME NEW free \in SUBSET Clients, Unseen \subseteq free, NEW n \in Nat, NEW b, NEW s,
         Cardinality(Clients \ free) + n <= SampleNum,
         BroadcastModelPara(b, free, n, s)
  PROVE  /\ pc' = pc
         /\ Unseen \subseteq idle'
         /\ Cardinality(Clients \ idle') = Cardinality(Clients \ free) + n
<1> DEFINE cand == free \ Unseen
           busy == Clients \ free
<1>1. /\ IsFiniteSet(cand) /\ Cardinality(cand) \in Nat
      /\ IsFiniteSet(busy) /\ Cardinality(busy) \in Nat
  BY NetworkAssumption, FS_Subset, FS_CardinalityType
<1>2. Cardinality(Clients \ Unseen) = Cardinality(cand) + Cardinality(busy)
  <2>1. cand \cap busy = {} /\ cand \cup busy = Clients \ Unseen
    OBVIOUS
  <2>2. Cardinality(cand \cup busy)
          = Cardinality(cand) + Cardinality(busy) - Cardinality(cand \cap busy)
    BY <1>1, FS_Union
  <2> HIDE DEF cand, busy
  <2> QED  BY <1>1, <2>1, <2>2, NothingCounts
<1>3. n <= Cardinality(cand)
  BY <1>1, <1>2, NothingCounts
<1>4. PICK S \in Samples(cand, n) : idle' = (free \ S) \cup Unseen /\ pc' = pc
  <2>1. ~(n > Cardinality(free \ Unseen))
    BY <1>1, <1>3
  <2> QED  BY <2>1, Zenon DEF BroadcastModelPara
<1>5. S \subseteq cand /\ IsFiniteSet(S) /\ Cardinality(S) = n
  BY <1>1, <1>4, FS_Subset DEF Samples
<1>6. Cardinality(busy \cup S) = Cardinality(busy) + n
  <2>1. busy \cap S = {}
    BY <1>5
  <2>2. Cardinality(busy \cup S) = Cardinality(busy) + Cardinality(S) - Cardinality(busy \cap S)
    BY <1>1, <1>5, FS_Union
  <2>3. Cardinality(busy \cap S) = 0 /\ Cardinality(S) = n
    BY <1>5, <2>1, NothingCounts
  <2> HIDE DEF busy
  <2> QED  BY <1>1, <2>2, <2>3
<1>7. Clients \ idle' = busy \cup S
  BY <1>4, <1>5
<1> QED  BY <1>4, <1>6, <1>7

\* What the server leaves behind when it has looked at its buffer.
Settled == pc' = pc /\ Account(idle', fresh', staled', dropout') /\ Unseen \subseteq idle'

LEMMA AggregateAccounts ==
  ASSUME Replenished, NEW free, NEW f, NEW keyed, NEW st, NEW d,
         Handed(free, f, keyed, st, d), TrainQuorum(f, st),
         Account(free, f, st, d), Unseen \subseteq free,
         Aggregate(free, f, st, d, 0)
  PROVE  Settled
<1>1. /\ free \in SUBSET Clients /\ f \in SUBSET Clients
      /\ st \in SUBSET (Rounds \X Clients) /\ d \in Nat
  BY DEF Handed
<1>2. /\ Cardinality(f) \in Nat /\ Cardinality(st) \in Nat
      /\ Cardinality(Clients \ free) \in Nat
  BY <1>1, Sizes
<1>3. Cardinality(Clients \ free) + NextSample(f, st, d) <= SampleNum
      /\ NextSample(f, st, d) \in Nat
  <2>1. CASE Asyn
    <3>1. NextSample(f, st, d) = Cardinality(f) + Cardinality(st) + d
      BY <2>1 DEF NextSample, Replenished
    <3> QED  BY <1>1, <1>2, <3>1, NothingCounts DEF Account
  <2>2. CASE ~Asyn
    <3>1. NextSample(f, st, d) = SampleNum /\ MinReceived = SampleNum
      BY <2>2, ServerAssumption DEF NextSample
    <3>2. Cardinality(Clients \ free) = 0
      BY <1>1, <1>2, <3>1, NothingCounts DEF Account, TrainQuorum
    <3> QED  BY <3>1, <3>2, NothingCounts
  <2> QED  BY <2>1, <2>2
<1>4. Asyn \/ d = 0
  BY <1>1, <1>2, ServerAssumption, NothingCounts DEF Account, TrainQuorum
<1>5. \/ \E mid : NextRound(mid, free, f, st, d, 0)
      \/ \E mid : FinalEval(mid, free, st, d, 0)
  BY DEF Aggregate
<1>6. CASE \E mid : NextRound(mid, free, f, st, d, 0)
  <2>1. /\ fresh' = {} /\ staled' = {} /\ dropout' = 0
        /\ \E b, s : BroadcastModelPara(b, free, NextSample(f, st, d), s)
    BY <1>4, <1>6 DEF NextRound, Replenished, OncePerRound
  <2>2. /\ pc' = pc /\ Unseen \subseteq idle'
        /\ Cardinality(Clients \ idle') = Cardinality(Clients \ free) + NextSample(f, st, d)
    BY <1>1, <1>3, <2>1, SamplingAccounts
  <2>3. Cardinality(fresh') = 0 /\ Cardinality(staled') = 0
    BY <2>1, NothingCounts
  <2>4. Account(idle', fresh', staled', dropout')
    BY <1>2, <1>3, <2>1, <2>2, <2>3, NothingCounts DEF Account
  <2> QED  BY <2>2, <2>4 DEF Settled
<1>7. CASE \E mid : FinalEval(mid, free, st, d, 0)
  <2>1. /\ fresh' = {} /\ staled' = st /\ dropout' = d
        /\ idle' = free /\ pc' = pc
    BY <1>7 DEF FinalEval, NoBroadcast
  <2>2. Cardinality(fresh') = 0
    BY <2>1, NothingCounts
  <2>3. Account(idle', fresh', staled', dropout')
    BY <1>1, <1>2, <2>1, <2>2, NothingCounts DEF Account
  <2> QED  BY <2>1, <2>3 DEF Settled
<1> QED  BY <1>5, <1>6, <1>7

LEMMA MoveOnAccounts ==
  ASSUME Replenished, NEW free, NEW f, NEW keyed, NEW st, NEW d,
         Handed(free, f, keyed, st, d), Account(free, f, st, d), Unseen \subseteq free,
         CheckAndMoveOn(free, f, keyed, st, d, 0)
  PROVE  /\ pc' \in {pc, "missing_buffer"}
         /\ Account(idle', fresh', staled', dropout')
         /\ Unseen \subseteq idle'
<1>1. CASE Wait(free, f, keyed, st, d, 0)
  BY <1>1 DEF Wait, Keep, NoBroadcast
<1>2. CASE TrainQuorum(f, st) /\ Aggregate(free, f, st, d, 0)
  BY <1>2, AggregateAccounts DEF Settled
<1>3. CASE KeyError(free, f, st, d)
  BY <1>3 DEF KeyError, Keep
<1> QED  BY <1>1, <1>2, <1>3 DEF CheckAndMoveOn, Handed

\* One more element, counted.
LEMMA OneMore ==
  ASSUME NEW A, IsFiniteSet(A), NEW x, x \notin A
  PROVE  Cardinality(A \cup {x}) = Cardinality(A) + 1
  BY FS_AddElement

\* An update that is read makes its worker idle, and is fresh, staled or dropped.
LEMMA ModelParaKeepsSlotInv ==
  ASSUME Replenished, IInv, CInv, VInv, SlotInv, NEW c \in Clients, HandleModelPara(c)
  PROVE  SlotInv'
<1>1. /\ Listening /\ Arrived(c, "model_para") /\ toServer[c] # <<>>
      /\ toServer' = Consume(c)
      /\ UNCHANGED joinNum
  BY DEF HandleModelPara, Arrived, joinVars
<1>2. /\ state \in Rounds /\ state \in Nat /\ toClient \in Inboxes
  BY Timely
<1>3. 1 \in Updates(c) /\ toServer[c][1] = Head(toServer[c]) /\ Head(toServer[c]) \in UpMsg
  BY <1>1, ConsumePositions DEF Arrived, Updates, IInv
<1>4. AllJoined /\ AllJoined'
  BY <1>1, <1>3 DEF IInv, WorkAfterJoining, Busy, AllJoined
<1>5. CASE isFinish
  BY <1>4, <1>5 DEF HandleModelPara, roundVars, SlotInv, SamplerNeverStarved
<1>6. CASE ~isFinish
  <2> DEFINE r     == Head(toServer[c]).round
             now   == r = state
             late  == ~now /\ Tolerated(r)
             f     == IF now THEN fresh \cup {c} ELSE fresh
             keyed == hasRound \/ now
             st    == IF late THEN staled \cup {<<r, c>>} ELSE staled
             d     == IF now \/ late THEN dropout ELSE dropout + 1
             free  == idle \cup {c}
  <2>1. CheckAndMoveOn(free, f, keyed, st, d, 0)
    BY <1>6 DEF HandleModelPara, Replenished, OncePerRound
  <2>2. r \in Rounds /\ r \in Nat /\ r <= state
    BY <1>1, <1>3, RoundsAreNat DEF UpMsg, CInv, Dated, Updates
  <2>3. pc = "listening" /\ state \in 0 .. TotalRounds
    BY <1>1, <1>2, <1>4, RoundsAreNat DEF IInv, Listening
  <2>4. Handed(free, f, keyed, st, d)
    BY <1>2, <2>2, <2>3 DEF Handed, IInv, TypeOK, STypeOK
  <2>5. c \notin fresh /\ \A u \in staled : u[2] # c
    <3>1. r \in Tasks(toClient, toServer, c)
      BY <1>3 DEF Tasks, Updates
    <3> QED  BY <3>1 DEF VInv, Owes
  <2>6. c \notin idle
    BY <1>3 DEF IInv, OneTaskPerClient, Busy
  <2>7. /\ idle \in SUBSET Clients /\ fresh \in SUBSET Clients
        /\ staled \in SUBSET (Rounds \X Clients) /\ dropout \in Nat
    BY DEF IInv, TypeOK, STypeOK
  <2>8. /\ Cardinality(Clients \ free) \in Nat
        /\ Cardinality(Clients \ idle) = Cardinality(Clients \ free) + 1
    <3>1. Clients \ idle = (Clients \ free) \cup {c} /\ c \notin Clients \ free
      BY <2>6
    <3>2. IsFiniteSet(Clients \ free) /\ Cardinality(Clients \ free) \in Nat
      BY Sizes
    <3> HIDE DEF free
    <3> QED  BY <3>1, <3>2, OneMore
  <2>9. /\ IsFiniteSet(fresh) /\ Cardinality(fresh) \in Nat
        /\ IsFiniteSet(staled) /\ Cardinality(staled) \in Nat
    BY <2>7, Sizes
  <2>10. /\ Cardinality(fresh \cup {c}) = Cardinality(fresh) + 1
         /\ Cardinality(staled \cup {<<r, c>>}) = Cardinality(staled) + 1
    <3>1. <<r, c>> \notin staled
      BY <2>5
    <3> HIDE DEF r
    <3> QED  BY <2>5, <2>9, <3>1, OneMore
  <2>11. Cardinality(f) + Cardinality(st) + d = Cardinality(fresh) + Cardinality(staled) + dropout + 1
    <3> HIDE DEF r
    <3>1. CASE now
      BY <2>7, <2>9, <2>10, <3>1
    <3>2. CASE late
      BY <2>7, <2>9, <2>10, <3>2
    <3>3. CASE ~now /\ ~late
      BY <2>7, <2>9, <3>3
    <3> QED  BY <3>1, <3>2, <3>3
  <2>12. Cardinality(f) \in Nat /\ Cardinality(st) \in Nat /\ d \in Nat
    BY <2>4, Sizes DEF Handed
  <2>13. Unseen \subseteq free
    BY DEF SlotInv
  <2> HIDE DEF r, now, late, f, keyed, st, d, free
  <2>14. Account(free, f, st, d)
    BY <2>7, <2>8, <2>9, <2>11, <2>12, NothingCounts DEF SlotInv, Account
  <2>15. /\ pc' \in {pc, "missing_buffer"}
         /\ Account(idle', fresh', staled', dropout')
         /\ Unseen \subseteq idle'
    BY <2>1, <2>4, <2>13, <2>14, MoveOnAccounts
  <2> QED  BY <1>4, <2>15 DEF SlotInv, SamplerNeverStarved
<1> QED  BY <1>5, <1>6

\* The first round: everybody is idle, and enough take part.
LEMMA StartKeepsSlotInv ==
  ASSUME SlotInv, Waiting, UNCHANGED roundVars, NEW a, Starts(a)
  PROVE  SlotInv'
<1>1. CASE NoBroadcast(a, idle)
  BY <1>1 DEF NoBroadcast, SlotInv, SamplerNeverStarved, roundVars
<1>2. CASE ~Started /\ BroadcastModelPara(a, idle, SampleNum, state)
  <2>1. idle = Clients /\ fresh = {} /\ staled = {} /\ dropout = 0
    BY <1>2 DEF Waiting
  <2>2. Clients \ idle = {}
    BY <2>1
  <2>3. /\ Cardinality(Clients \ idle) = 0 /\ Cardinality(fresh) = 0
        /\ Cardinality(staled) = 0
    BY <2>1, <2>2, NothingCounts
  <2>4. Unseen \subseteq idle /\ idle \in SUBSET Clients
    BY <2>1 DEF SlotInv
  <2>5. SampleNum \in Nat /\ Cardinality(Clients \ idle) + SampleNum = SampleNum
        /\ SampleNum <= SampleNum
    BY <2>3, NothingCounts
  <2>6. /\ pc' = pc /\ Unseen \subseteq idle'
        /\ Cardinality(Clients \ idle') = Cardinality(Clients \ idle) + SampleNum
    BY <1>2, <2>4, <2>5, SamplingAccounts
  <2>7. Account(idle', fresh', staled', dropout')
    BY <2>1, <2>3, <2>5, <2>6, NothingCounts DEF Account, roundVars
  <2> QED  BY <2>6, <2>7 DEF SlotInv, SamplerNeverStarved
<1> QED  BY <1>1, <1>2 DEF Starts

LEMMA NextKeepsSlotInv ==
  ASSUME Replenished, IInv, CInv, JInv, Waiting, VInv, SlotInv, [Next]_vars
  PROVE  SlotInv'
<1>1. OncePerRound
  BY DEF Replenished
<1>2. ASSUME UNCHANGED <<idle, fresh, staled, dropout, joinNum>>, pc' # "sampler_error"
      PROVE  SlotInv'
  BY <1>2 DEF SlotInv, AllJoined, SamplerNeverStarved
<1>3. ASSUME NEW c \in Clients, Reads(c)
      PROVE  SlotInv'
  <2>1. CASE HandleJoinIn(c) \/ HandleJoinInInfo(c)
    BY <2>1, JoinInStarts, JoinInInfoStarts, StartKeepsSlotInv
       DEF HandleJoinIn, HandleJoinInInfo
  <2>2. ASSUME HandleMetrics(c)  PROVE SlotInv'
    BY <1>2, <2>2 DEF HandleMetrics, joinVars, SlotInv, SamplerNeverStarved
  <2> QED  BY <1>3, <2>1, <2>2, ModelParaKeepsSlotInv DEF Reads, ReadFrom
<1>4. ASSUME NEW c \in Clients, Client(c) \/ Fault(c)
      PROVE  SlotInv'
  <2>1. UNCHANGED sVars
    BY <1>4 DEF Client, Fault
  <2> QED  BY <1>2, <2>1 DEF sVars, roundVars, joinVars, SlotInv, SamplerNeverStarved
<1>5. CASE Exits
  BY <1>2, <1>5 DEF Exits, ExitLoop, Terminate, roundVars, joinVars
<1>6. ~Alarm
  BY <1>1 DEF OncePerRound, Alarm, TimeUp
<1>7. CASE UNCHANGED vars
  BY <1>2, <1>7 DEF vars, sVars, roundVars, joinVars, SlotInv, SamplerNeverStarved
<1> QED  BY <1>3, <1>4, <1>5, <1>6, <1>7 DEF Next, Ended

\* Every round finds enough idle workers to sample: those who returned since the last
\* are replaced, whatever became of their updates, by as many who are idle. A worker
\* whose task is lost stays marked as working, and is not replaced.
THEOREM SamplerServed ==
  ASSUME Replenished
  PROVE  Spec => []SamplerNeverStarved
<1>1. OncePerRound
  BY DEF Replenished
<1>2. Init => SlotInv
  <2> SUFFICES ASSUME Init  PROVE SlotInv
    OBVIOUS
  <2>1. /\ idle = Clients /\ fresh = {} /\ staled = {} /\ dropout = 0 /\ pc = "listening"
        /\ Clients \ idle = {}
    BY DEF Init, SInit
  <2>2. Account(idle, fresh, staled, dropout)
    BY <2>1, NothingCounts DEF Account
  <2> QED  BY <2>1, <2>2, ServerAssumption DEF SlotInv, SamplerNeverStarved
<1>3. IInv /\ CInv /\ JInv /\ Waiting /\ VInv /\ SlotInv /\ [Next]_vars => SlotInv'
  BY NextKeepsSlotInv
<1>4. SlotInv => SamplerNeverStarved
  BY DEF SlotInv
<1>5. Spec => []VInv
  BY <1>1, TasksAreOpen
<1>6. Spec => []Waiting
  BY <1>1, StartsOnce DEF OncePerRound
<1> QED
  BY <1>2, <1>3, <1>4, <1>5, <1>6, InductiveInvariant, DatesAreRight, DeliveryIsOrderly, PTL
     DEF Spec

-----------------------------------------------------------------------------
(* A synchronous course is a sequence of cohorts.                          *)

\* The server waits for the whole cohort, and nothing gets lost.
Synchronous == ~Asyn /\ MaxLoss = 0 /\ MaxCrash = 0

\* What is in the channels between the server and the workers is of round s.
TasksOfRound(s) == \A c \in Clients : \A t \in Tasks(toClient, toServer, c) : t = s

\* While a round is on, each of its cohort is busy, or is idle again and its update
\* is in the buffer; when training is over everybody is idle.
RInv ==
  /\ pc \in {"listening", "done"}
  /\ pc = "done" => state > TotalRounds
  /\ staled = {}
  /\ Unseen \subseteq idle
  /\ Started /\ state < TotalRounds =>
       /\ fresh \subseteq idle
       /\ Cardinality(Clients \ idle) + Cardinality(fresh) = SampleNum
  /\ state = TotalRounds => idle = Clients
  /\ state <= TotalRounds => TasksOfRound(state)

\* What SyncRounds shows of the course, when the workers that are not idle are those
\* who are busy.
Phase ==
  IF state > TotalRounds THEN "over"
  ELSE IF state = TotalRounds THEN "evaluating"
  ELSE IF Started THEN "training" ELSE "joining"

Pending == IF state > TotalRounds THEN {} ELSE {c \in Clients : Busy(c)}

LEMMA SynchronousModes ==
  ASSUME Synchronous
  PROVE  /\ OncePerRound /\ ~Timed /\ MinReceived = SampleNum /\ Staleness = 0
         /\ ~AfterReceiving /\ ~Overselection
  BY ServerAssumption DEF Synchronous, OncePerRound

LEMMA NoFaults ==
  ASSUME Synchronous, IInv
  PROVE  faults = [loss |-> 0, crash |-> 0]
<1>1. faults \in [loss : 0 .. 0, crash : 0 .. 0]
  BY DEF Synchronous, IInv, TypeOK, NetTypeOK
<1>2. 0 .. 0 = {0}
  OBVIOUS
<1> QED  BY <1>1, <1>2

\* The busy workers are those the sampler holds for busy.
PendingAreBusy == Pending = IF state > TotalRounds THEN {} ELSE Clients \ idle

LEMMA BusyAreCounted ==
  ASSUME Synchronous, IInv, DInv, RInv
  PROVE  PendingAreBusy
<1>1. CASE state > TotalRounds
  BY <1>1 DEF Pending, PendingAreBusy
<1>2. CASE ~(state > TotalRounds)
  <2>1. state <= TotalRounds
    BY <1>2, RoundsAreNat DEF IInv, TypeOK, STypeOK
  <2>2. Listening
    BY <1>2, <2>1 DEF Listening, RInv
  <2>3. \A c \in Clients : c \notin idle => Busy(c)
    BY <2>2, NoFaults DEF DInv, NoSlotLost
  <2>4. \A c \in Clients : Busy(c) => c \notin idle
    BY DEF IInv, OneTaskPerClient
  <2> QED  BY <1>2, <2>3, <2>4 DEF Pending, PendingAreBusy
<1> QED  BY <1>1, <1>2

LEMMA BusyAreCountedNext ==
  (Synchronous /\ IInv /\ DInv /\ RInv)' => PendingAreBusy'
<1>1. Synchronous /\ IInv /\ DInv /\ RInv => PendingAreBusy
  BY BusyAreCounted
<1> QED  BY <1>1, PTL

\* The end of a round: its whole cohort has returned.
LEMMA RoundEnds ==
  ASSUME Synchronous, NEW f, NEW keyed, NEW d,
         Handed(Clients, f, keyed, {}, d), state < TotalRounds,
         Aggregate(Clients, f, {}, d, 0)
  PROVE  /\ pc' = pc /\ staled' = {} /\ fresh' = {}
         /\ Unseen \subseteq idle'
         /\ \/ /\ state' = state + 1 /\ state' < TotalRounds
               /\ Cardinality(Clients \ idle') = SampleNum
            \/ /\ state' = state + 1 /\ state' = TotalRounds
               /\ idle' = Clients
            \/ state' = TotalRounds + 1
<1> DEFINE s1  == state + 1
           due == s1 % EvalFreq = 0 /\ s1 # TotalRounds
           mid(stop) == IF due THEN Eval(s1, toClient, stop)
                        ELSE [state |-> s1, inbox |-> toClient, finished |-> FALSE]
<1>1. s1 \in Nat /\ s1 <= TotalRounds /\ state \in Nat /\ TotalRounds \in Nat
      /\ s1 < TotalRounds + 1 /\ TotalRounds < TotalRounds + 1
  BY RoundsAreNat DEF Handed
<1>2. PICK stop \in BOOLEAN :
        IF MoreRounds(mid(stop).state)
          THEN NextRound(mid(stop), Clients, f, {}, d, 0)
          ELSE FinalEval(mid(stop), Clients, {}, d, 0)
  BY VerdictsAreBooleans DEF Aggregate
<1>3. mid(stop).state \in {s1, TotalRounds + 1}
  <2>1. CASE due
    <3>1. mid(stop) = Eval(s1, toClient, stop)
      BY <2>1
    <3> QED  BY <3>1, EvalRound
  <2>2. CASE ~due
    BY <2>2
  <2> QED  BY <2>1, <2>2
<1> HIDE DEF mid, s1, due
<1>4. CASE MoreRounds(mid(stop).state)
  <2>1. mid(stop).state = s1 /\ s1 < TotalRounds
    BY <1>1, <1>3, <1>4 DEF MoreRounds
  <2>2. /\ state' = s1 /\ fresh' = {} /\ staled' = {}
        /\ BroadcastModelPara(mid(stop).inbox, Clients, SampleNum, s1)
    BY <1>2, <1>4, <2>1, SynchronousModes DEF NextRound, NextSample, Synchronous
  <2>3. /\ Clients \in SUBSET Clients /\ Unseen \subseteq Clients /\ SampleNum \in Nat
        /\ Cardinality(Clients \ Clients) = 0
    BY NothingCounts, ServerAssumption
  <2>4. Cardinality(Clients \ Clients) + SampleNum = SampleNum /\ SampleNum <= SampleNum
    BY <2>3
  <2>5. /\ pc' = pc /\ Unseen \subseteq idle'
        /\ Cardinality(Clients \ idle') = Cardinality(Clients \ Clients) + SampleNum
    BY <2>2, <2>3, <2>4, SamplingAccounts
  <2> QED  BY <2>1, <2>2, <2>4, <2>5 DEF s1
<1>5. CASE ~MoreRounds(mid(stop).state)
  <2>1. mid(stop).state = TotalRounds \/ mid(stop).state = TotalRounds + 1
    BY <1>1, <1>3, <1>5 DEF MoreRounds
  <2>2. PICK v \in BOOLEAN :
          /\ state' = Eval(mid(stop).state, mid(stop).inbox, v).state
          /\ fresh' = {}
          /\ staled' = {}
          /\ IF 0 > 0 THEN BroadcastModelPara(Eval(mid(stop).state, mid(stop).inbox, v).inbox, Clients, 0,
                                              Eval(mid(stop).state, mid(stop).inbox, v).state)
                      ELSE NoBroadcast(Eval(mid(stop).state, mid(stop).inbox, v).inbox, Clients)
    BY <1>2, <1>5, VerdictsAreBooleans DEF FinalEval
  <2>3. state' \in {mid(stop).state, TotalRounds + 1}
    BY <2>2, EvalRound
  <2>4. pc' = pc /\ idle' = Clients
    BY <2>2 DEF NoBroadcast
  <2>5. state' = TotalRounds => state' = state + 1
    BY <1>1, <1>3, <2>1, <2>3 DEF s1
  <2> QED  BY <2>1, <2>2, <2>3, <2>4, <2>5, ServerAssumption
<1> QED  BY <1>4, <1>5

\* An update comes back: the cohort is one less, or its round is over.
Returned(c) ==
  /\ Started /\ Started' /\ state < TotalRounds /\ c \in Clients \ idle
  /\ pc' = pc /\ staled' = {} /\ Unseen \subseteq idle'
  /\ \/ /\ state' = state /\ Clients \ idle # {c}
        /\ idle' = idle \cup {c} /\ fresh' = fresh \cup {c} /\ c \notin fresh
     \/ /\ Clients \ idle = {c} /\ fresh' = {}
        /\ \/ /\ state' = state + 1 /\ state' < TotalRounds
              /\ Cardinality(Clients \ idle') = SampleNum
           \/ /\ state' = state + 1 /\ state' = TotalRounds
              /\ idle' = Clients
           \/ state' = TotalRounds + 1
  /\ state' <= TotalRounds => TasksOfRound(state)'

LEMMA UpdateReturns ==
  ASSUME Synchronous, IInv, CInv, JInv, DInv, Waiting, VInv, RInv,
         NEW c \in Clients, HandleModelPara(c)
  PROVE  Returned(c)
<1>1. /\ Listening /\ Arrived(c, "model_para") /\ toServer[c] # <<>>
      /\ toServer' = Consume(c)
      /\ UNCHANGED joinVars
  BY DEF HandleModelPara, Arrived
<1>2. /\ state \in Rounds /\ state \in Nat /\ toClient \in Inboxes
  BY Timely
<1>3. /\ 1 \in DOMAIN toServer[c] /\ 1 \in Updates(c)
      /\ toServer[c][1] = Head(toServer[c]) /\ Head(toServer[c]) \in UpMsg
  BY <1>1, ConsumePositions DEF Arrived, Updates, IInv
<1>4. c \notin idle
  BY <1>3 DEF IInv, OneTaskPerClient, Busy
<1>5. Started /\ Started'
  <2>1. Head(toServer[c]).type = "model_para"
    BY <1>1 DEF Arrived
  <2>2. Started
    BY <1>3, <2>1 DEF Waiting
  <2> QED  BY <1>1, <2>2 DEF Started, AllJoined, joinVars
<1>6. Serving /\ ~isFinish
  BY <1>1, ListeningServes DEF DInv, Open
<1>7. state < TotalRounds /\ pc = "listening"
  BY <1>2, <1>4, <1>6, RoundsAreNat DEF Serving, RInv
<1>8. /\ fresh \subseteq idle /\ staled = {} /\ Unseen \subseteq idle
      /\ Cardinality(Clients \ idle) + Cardinality(fresh) = SampleNum
  BY <1>5, <1>7 DEF RInv
<1> DEFINE r == Head(toServer[c]).round
           f == fresh \cup {c}
           free == idle \cup {c}
<1>9. r = state
  <2>1. r \in Tasks(toClient, toServer, c)
    BY <1>3 DEF Tasks, Updates
  <2>2. state <= TotalRounds
    BY <1>6 DEF Serving
  <2> QED  BY <2>1, <2>2 DEF RInv, TasksOfRound
<1>10. CheckAndMoveOn(free, f, TRUE, {}, dropout, 0)
  <2> HIDE DEF f, free
  <2>1. ~AfterReceiving
    BY SynchronousModes
  <2>2. CheckAndMoveOn(free, f, hasRound \/ TRUE, {}, dropout, 0)
    BY <1>6, <1>8, <1>9, <2>1 DEF HandleModelPara, f, free
  <2>3. (hasRound \/ TRUE) = TRUE
    OBVIOUS
  <2> QED  BY <2>2, <2>3
<1>11. Handed(free, f, TRUE, {}, dropout)
  BY <1>2, <1>7, RoundsAreNat DEF Handed, IInv, TypeOK, STypeOK
<1>12. /\ Cardinality(Clients \ free) \in Nat /\ Cardinality(f) \in Nat
       /\ Cardinality(Clients \ free) + Cardinality(f) = SampleNum
       /\ IsFiniteSet(Clients \ free)
       /\ c \notin fresh
  <2>1. c \notin fresh
    BY <1>4, <1>8
  <2>2. /\ Clients \ idle \in SUBSET Clients /\ fresh \in SUBSET Clients
        /\ Clients \ free \in SUBSET Clients
    BY DEF IInv, TypeOK, STypeOK
  <2>3. /\ IsFiniteSet(fresh) /\ Cardinality(fresh) \in Nat
        /\ IsFiniteSet(Clients \ free) /\ Cardinality(Clients \ free) \in Nat
    BY <2>2, Sizes
  <2>4. Cardinality(f) = Cardinality(fresh) + 1
    BY <2>1, <2>3, OneMore
  <2>5. Clients \ idle = (Clients \ free) \cup {c} /\ c \notin Clients \ free
    BY <1>4
  <2> HIDE DEF free, f
  <2>6. Cardinality(Clients \ idle) = Cardinality(Clients \ free) + 1
    BY <2>3, <2>5, OneMore
  <2> QED  BY <1>8, <2>1, <2>3, <2>4, <2>6
<1>13. TrainQuorum(f, {}) <=> Clients \ free = {}
  <2> HIDE DEF free, f
  <2>1. TrainQuorum(f, {}) <=> Cardinality(f) >= SampleNum
    BY <1>12, NothingCounts, SynchronousModes DEF TrainQuorum
  <2>2. Cardinality(Clients \ free) = 0 <=> Clients \ free = {}
    BY <1>12, FS_EmptySet
  <2> QED  BY <1>12, <2>1, <2>2, NothingCounts
<1>14. Clients \ free = {} <=> Clients \ idle = {c}
  BY <1>4
<1>15. Counted(f, {})
  <2> HIDE DEF f, free
  <2> QED  BY <1>10, <1>11, MoveOnCounts, SynchronousModes
<1>16. \A e \in Clients : Tasks(toClient, toServer', e) \subseteq Tasks(toClient, toServer, e)
  BY <1>1, ConsumeFewer
<1> HIDE DEF f, free
<1>17. CASE ~TrainQuorum(f, {})
  <2>1. /\ fresh' = f /\ staled' = {} /\ state' = state
        /\ idle' = free /\ toClient' = toClient /\ pc' = pc
    BY <1>10, <1>17 DEF CheckAndMoveOn, Wait, Keep, NoBroadcast
  <2>2. state <= TotalRounds
    BY <1>6 DEF Serving
  <2>3. \A e \in Clients : \A t \in Tasks(toClient, toServer', e) : t = state
    BY <1>16, <2>2 DEF RInv, TasksOfRound
  <2>4. TasksOfRound(state)'
    BY <2>1, <2>3 DEF TasksOfRound
  <2> QED
    BY <1>4, <1>5, <1>7, <1>8, <1>12, <1>13, <1>14, <1>17, <2>1, <2>4 DEF Returned, f, free
<1>18. CASE TrainQuorum(f, {})
  <2>1. free = Clients /\ Clients \ idle = {c}
    BY <1>13, <1>14, <1>18, <1>11 DEF Handed
  <2>2. Aggregate(Clients, f, {}, dropout, 0) /\ Handed(Clients, f, TRUE, {}, dropout)
    BY <1>10, <1>11, <1>18, <2>1 DEF CheckAndMoveOn
  <2>3. /\ pc' = pc /\ staled' = {} /\ fresh' = {}
        /\ Unseen \subseteq idle'
        /\ \/ /\ state' = state + 1 /\ state' < TotalRounds
              /\ Cardinality(Clients \ idle') = SampleNum
           \/ /\ state' = state + 1 /\ state' = TotalRounds
              /\ idle' = Clients
           \/ state' = TotalRounds + 1
    BY <1>7, <2>2, RoundEnds
  <2>4. state' # state
    BY <1>2, <1>7, <2>3, RoundsAreNat
  <2>5. ASSUME NEW e \in Clients
        PROVE  Tasks(toClient, toServer', e) = {}
    <3>1. CASE e = c
      BY <1>1, <3>1, NoTaskLeft
    <3>2. CASE e # c
      <4>1. ~Busy(e)
        BY <2>1, <3>2 DEF IInv, OneTaskPerClient
      <4>2. Tasks(toClient, toServer, e) = {}
        BY <4>1 DEF Busy, Models, Updates, Tasks
      <4> QED  BY <1>16, <4>2
    <3> QED  BY <3>1, <3>2
  <2>6. TasksOfRound(state)'
    BY <1>15, <2>5 DEF Counted, TasksOfRound
  <2> QED  BY <1>4, <1>5, <1>7, <2>1, <2>3, <2>6 DEF Returned
<1> QED  BY <1>17, <1>18

\* The metrics of the last model end the course, and so does a verdict of the early
\* stopper; any others change nothing but the evaluation buffer.
LEMMA MetricsEnd ==
  ASSUME Synchronous, IInv, JInv, DInv, Waiting, RInv, NEW c \in Clients, HandleMetrics(c)
  PROVE  /\ Started /\ Started' /\ state <= TotalRounds
         /\ UNCHANGED <<pc, idle, fresh, staled>>
         /\ state' \in {state, TotalRounds + 1}
         /\ \A d \in Clients :
              Tasks(toClient', toServer', d) \subseteq Tasks(toClient, toServer, d)
<1>1. /\ Listening /\ Arrived(c, "metrics") /\ toServer[c] # <<>>
      /\ toServer' = Consume(c)
      /\ UNCHANGED <<pc, idle, fresh, staled, joinVars>>
  BY DEF HandleMetrics, Arrived
<1>2. Started /\ Started'
  <2>1. Head(toServer[c]).type = "metrics"
    BY <1>1 DEF Arrived
  <2>2. Started
    BY <1>1, <2>1, HeadsAreThere DEF Waiting
  <2> QED  BY <1>1, <2>2 DEF Started, AllJoined, joinVars
<1>3. state <= TotalRounds
  BY <1>1, ListeningServes DEF Serving
<1>4. state' \in {state, TotalRounds + 1} /\ Quiet(toClient, toClient')
  <2>1. state \in Rounds /\ Quiet(toClient, toClient)
    BY QuietSame DEF IInv, TypeOK, STypeOK, NetTypeOK, Inboxes
  <2>2. \/ \E stop \in BOOLEAN :
             /\ state' = CheckAndSave(state, toClient, stop).state
             /\ toClient' = CheckAndSave(state, toClient, stop).inbox
        \/ UNCHANGED <<state, toClient>>
    BY VerdictsAreBooleans DEF HandleMetrics
  <2>3. CASE UNCHANGED <<state, toClient>>
    BY <2>1, <2>3
  <2>4. ASSUME NEW stop \in BOOLEAN,
               state' = CheckAndSave(state, toClient, stop).state,
               toClient' = CheckAndSave(state, toClient, stop).inbox
        PROVE  state' \in {state, TotalRounds + 1} /\ Quiet(toClient, toClient')
    BY <2>1, <2>4, CheckAndSaveQuiet, CheckAndSaveRound
  <2> QED  BY <2>2, <2>3, <2>4
<1>5. \A d \in Clients : Tasks(toClient', toServer', d) \subseteq Tasks(toClient, toServer, d)
  BY <1>1, <1>4, ConsumeFewer, QuietTasks
<1> QED  BY <1>1, <1>2, <1>3, <1>4, <1>5

\* The first cohort.
LEMMA StartGivesWork ==
  ASSUME Synchronous, IInv, Waiting, RInv, NEW c \in Clients, toServer[c] # <<>>,
         toServer' = Consume(c), UNCHANGED roundVars, NEW a, Asking(a), Starts(a),
         Listening
  PROVE  /\ pc' = pc /\ Unseen \subseteq idle'
         /\ UNCHANGED <<state, fresh, staled>>
         /\ \/ (Started' <=> Started) /\ idle' = idle
            \/ /\ ~Started /\ Started' /\ state = 0 /\ idle = Clients /\ fresh = {}
               /\ Cardinality(Clients \ idle') = SampleNum
         /\ state' <= TotalRounds => TasksOfRound(state)'
<1>1. UNCHANGED <<state, fresh, staled>> /\ state \in Rounds
  BY DEF roundVars, IInv, TypeOK, STypeOK
<1>2. /\ \A d \in Clients : Tasks(a, toServer', d) \subseteq Tasks(toClient, toServer', d)
      /\ a \in Inboxes
  BY TasksFrom DEF Asking
<1>3. \A d \in Clients : Tasks(a, toServer', d) \subseteq Tasks(toClient, toServer, d)
  BY <1>2, ConsumeFewer
<1>4. CASE (Started' <=> Started) /\ NoBroadcast(a, idle)
  <2>1. pc' = pc /\ idle' = idle /\ toClient' = a
    BY <1>4 DEF NoBroadcast
  <2>2. state' <= TotalRounds => TasksOfRound(state)'
    BY <1>1, <1>3, <2>1 DEF TasksOfRound, RInv
  <2> QED  BY <1>1, <1>4, <2>1, <2>2 DEF RInv
<1>5. CASE ~Started /\ Started' /\ BroadcastModelPara(a, idle, SampleNum, state)
  <2>1. state = 0 /\ idle = Clients /\ fresh = {}
    BY <1>5 DEF Waiting
  <2>2. Clients \ idle = {} /\ idle \in SUBSET Clients /\ Unseen \subseteq idle
    BY <2>1, ServerAssumption
  <2>3. /\ Cardinality(Clients \ idle) = 0 /\ SampleNum \in Nat
        /\ Cardinality(Clients \ idle) + SampleNum = SampleNum /\ SampleNum <= SampleNum
    <3>1. Cardinality(Clients \ idle) = 0
      BY <2>2, NothingCounts
    <3> QED  BY <3>1, NothingCounts
  <2>4. /\ pc' = pc /\ Unseen \subseteq idle'
        /\ Cardinality(Clients \ idle') = Cardinality(Clients \ idle) + SampleNum
    BY <1>5, <2>2, <2>3, SamplingAccounts
  <2>5. Capped(state) = state /\ state <= TotalRounds
    BY <2>1, RoundsAreNat DEF Capped
  <2>6. ASSUME NEW d \in Clients, NEW t \in Tasks(toClient', toServer', d)
        PROVE  t = state
    <3>1. t \in Tasks(a, toServer', d) \/ t = Capped(state)
      BY <1>1, <1>2, <1>5, <2>6, BroadcastTasks
    <3> QED  BY <1>3, <2>5, <3>1 DEF RInv, TasksOfRound
  <2>7. TasksOfRound(state)'
    BY <1>1, <2>6 DEF TasksOfRound
  <2> QED  BY <1>1, <1>5, <2>1, <2>3, <2>4, <2>7
<1> QED  BY <1>4, <1>5 DEF Starts

\* The other steps take no part in the rounds.
Stands ==
  /\ UNCHANGED <<idle, fresh, staled, joinVars, state>>
  /\ pc' \in {pc, "done"} /\ (pc' = "done" /\ pc # "done" => state > TotalRounds)
  /\ NoNewTask

LEMMA OthersStand ==
  ASSUME Synchronous, IInv, RInv, [Next]_vars, ~(\E c \in Clients : Reads(c))
  PROVE  Stands
<1>1. ASSUME NEW c \in Clients, Client(c)
      PROVE  Stands
  BY <1>1, ClientAddsNoTask DEF Client, Stands, sVars, roundVars
<1>2. ASSUME NEW c \in Clients  PROVE ~Fault(c)
  <2>1. faults = [loss |-> 0, crash |-> 0]
    BY NoFaults
  <2> QED  BY <2>1 DEF Fault, LoseDown, LoseUp, Crash, Synchronous
<1>3. CASE Exits
  <2>1. /\ toClient' = Deliver(toClient, neighbors, Msg("finish", state))
        /\ UNCHANGED <<roundVars, joinVars, idle, toServer>>
        /\ pc' = "done" /\ state > TotalRounds
    BY <1>3 DEF Exits, ExitLoop, Terminate
  <2>2. state \in Rounds /\ toClient \in Inboxes
    BY DEF IInv, TypeOK, STypeOK, NetTypeOK, Inboxes
  <2>3. Msg("finish", state) \in DownMsg /\ Msg("finish", state).type \notin Notable
    BY <2>2 DEF Msg, DownMsg, Notable
  <2>4. Quiet(toClient, toClient')
    BY <2>1, <2>2, <2>3, QuietSame, QuietDeliver
  <2>5. NoNewTask
    BY <2>1, <2>4, QuietTasks DEF NoNewTask
  <2> QED  BY <2>1, <2>5 DEF Stands, roundVars
<1>4. ~Alarm
  BY SynchronousModes DEF Alarm, TimeUp
<1>5. CASE UNCHANGED vars
  BY <1>5 DEF Stands, NoNewTask, vars, netVars, sVars, roundVars
<1> QED  BY <1>1, <1>2, <1>3, <1>4, <1>5 DEF Next, Ended

\* Joining, seen from the rounds: nothing, or the choice of the first cohort.
Begins ==
  /\ pc' = pc /\ Unseen \subseteq idle'
  /\ UNCHANGED <<state, fresh, staled>>
  /\ \/ (Started' <=> Started) /\ idle' = idle
     \/ /\ ~Started /\ Started' /\ state = 0 /\ idle = Clients /\ fresh = {}
        /\ Cardinality(Clients \ idle') = SampleNum
  /\ state' <= TotalRounds => TasksOfRound(state)'

\* Metrics, seen from the rounds: nothing, or the end of the course.
Evaluated ==
  /\ Started /\ Started' /\ state <= TotalRounds
  /\ UNCHANGED <<pc, idle, fresh, staled>>
  /\ state' \in {state, TotalRounds + 1}
  /\ NoNewTask

\* Every step is one of these.
LEMMA StepsOfRounds ==
  ASSUME Synchronous, IInv, CInv, JInv, DInv, Waiting, VInv, RInv, [Next]_vars
  PROVE  Begins \/ (\E c \in Clients : Returned(c)) \/ Evaluated \/ Stands
<1>1. ASSUME NEW c \in Clients, Reads(c)
      PROVE  Begins \/ Returned(c) \/ Evaluated
  <2>1. CASE HandleJoinIn(c) \/ HandleJoinInInfo(c)
    <3>1. /\ toServer[c] # <<>> /\ toServer' = Consume(c) /\ UNCHANGED roundVars /\ Listening
          /\ \E a : Asking(a) /\ Starts(a)
      BY <2>1, JoinInStarts, JoinInInfoStarts DEF HandleJoinIn, HandleJoinInInfo, Arrived
    <3> QED  BY <3>1, StartGivesWork DEF Begins
  <2>2. CASE HandleModelPara(c)
    BY <2>2, UpdateReturns
  <2>3. CASE HandleMetrics(c)
    BY <2>3, MetricsEnd DEF Evaluated, NoNewTask
  <2> QED  BY <1>1, <2>1, <2>2, <2>3 DEF Reads, ReadFrom
<1> QED  BY <1>1, OthersStand

LEMMA RoundNumbers ==
  ASSUME IInv
  PROVE  /\ state \in Nat /\ TotalRounds \in Nat \ {0} /\ idle \subseteq Clients
         /\ state <= TotalRounds <=> ~(state > TotalRounds)
  BY RoundsAreNat DEF IInv, TypeOK, STypeOK

LEMMA RoundNumbersNext ==
  ASSUME IInv'
  PROVE  /\ state' \in Nat /\ idle' \subseteq Clients
         /\ state' <= TotalRounds <=> ~(state' > TotalRounds)
<1>1. state' \in Rounds /\ idle' \subseteq Clients
  BY DEF IInv, TypeOK, STypeOK
<1> QED  BY <1>1, RoundsAreNat

LEMMA StepsKeepRInv ==
  ASSUME Synchronous, IInv, IInv', Waiting, RInv,
         Begins \/ (\E c \in Clients : Returned(c)) \/ Evaluated \/ Stands
  PROVE  RInv'
<1> USE RoundNumbers, RoundNumbersNext
<1>1. CASE Begins
  <2>1. Cardinality({}) = 0 /\ SampleNum \in Nat
    BY NothingCounts
  <2>2. CASE (Started' <=> Started) /\ idle' = idle
    BY <1>1, <2>2 DEF Begins, RInv
  <2>3. CASE /\ ~Started /\ Started' /\ state = 0 /\ idle = Clients /\ fresh = {}
             /\ Cardinality(Clients \ idle') = SampleNum
    BY <1>1, <2>1, <2>3 DEF Begins, RInv
  <2> QED  BY <1>1, <2>2, <2>3 DEF Begins
<1>2. ASSUME NEW c \in Clients, Returned(c)
      PROVE  RInv'
  <2>1. Cardinality({}) = 0 /\ SampleNum \in Nat
    BY NothingCounts
  <2>2. CASE /\ state' = state /\ Clients \ idle # {c}
             /\ idle' = idle \cup {c} /\ fresh' = fresh \cup {c} /\ c \notin fresh
    <3>1. /\ c \in Clients \ idle /\ fresh \subseteq idle /\ state < TotalRounds
          /\ Cardinality(Clients \ idle) + Cardinality(fresh) = SampleNum
      BY <1>2 DEF Returned, RInv
    <3>2. /\ IsFiniteSet(fresh) /\ Cardinality(fresh) \in Nat
          /\ IsFiniteSet(Clients \ idle') /\ Cardinality(Clients \ idle') \in Nat
      <4>1. fresh \in SUBSET Clients /\ Clients \ idle' \in SUBSET Clients
        BY <3>1
      <4> QED  BY <4>1, Sizes
    <3>3. Cardinality(fresh') = Cardinality(fresh) + 1
      BY <2>2, <3>2, OneMore
    <3>4. Clients \ idle = (Clients \ idle') \cup {c} /\ c \notin Clients \ idle'
      BY <2>2, <3>1
    <3>5. Cardinality(Clients \ idle) = Cardinality(Clients \ idle') + 1
      BY <3>2, <3>4, OneMore
    <3>6. Cardinality(Clients \ idle') + Cardinality(fresh') = SampleNum
      BY <3>1, <3>2, <3>3, <3>5
    <3>7. fresh' \subseteq idle' /\ state' < TotalRounds /\ state' # TotalRounds
      BY <2>2, <3>1
    <3> QED  BY <1>2, <3>6, <3>7 DEF Returned, RInv
  <2>3. CASE /\ Clients \ idle = {c} /\ fresh' = {}
             /\ \/ /\ state' = state + 1 /\ state' < TotalRounds
                   /\ Cardinality(Clients \ idle') = SampleNum
                \/ /\ state' = state + 1 /\ state' = TotalRounds
                   /\ idle' = Clients
                \/ state' = TotalRounds + 1
    BY <1>2, <2>1, <2>3 DEF Returned, RInv
  <2> QED  BY <1>2, <2>2, <2>3 DEF Returned
<1>3. CASE Evaluated
  BY <1>3 DEF Evaluated, RInv, TasksOfRound, NoNewTask
<1>4. CASE Stands
  <2>1. Started' <=> Started
    BY <1>4 DEF Stands, Started, AllJoined, joinVars
  <2> QED  BY <1>4, <2>1 DEF Stands, RInv, TasksOfRound, NoNewTask
<1> QED  BY <1>1, <1>2, <1>3, <1>4

-----------------------------------------------------------------------------
(* The refinement.                                                         *)

LEMMA PhaseIs ==
  ASSUME IInv
  PROVE  /\ state > TotalRounds => Phase = "over"
         /\ state = TotalRounds => Phase = "evaluating"
         /\ state < TotalRounds /\ Started => Phase = "training"
         /\ state < TotalRounds /\ ~Started => Phase = "joining"
BY RoundNumbers DEF Phase

LEMMA PhaseIsNext ==
  ASSUME IInv'
  PROVE  /\ state' > TotalRounds => Phase' = "over"
         /\ state' = TotalRounds => Phase' = "evaluating"
         /\ state' < TotalRounds /\ Started' => Phase' = "training"
         /\ state' < TotalRounds /\ ~Started' => Phase' = "joining"
BY RoundNumbersNext, RoundsAreNat DEF Phase

LEMMA InitRefines ==
  ASSUME Init
  PROVE  RInv /\ Abstract!Init
<1>1. /\ pc = "listening" /\ state = 0 /\ staled = {} /\ idle = Clients /\ fresh = {}
      /\ joinNum = 0 /\ joinInfo = {}
      /\ \A c \in Clients : DOMAIN toClient[c] = {} /\ DOMAIN toServer[c] = {}
  BY DEF Init, SInit, NetInit
<1>2. ~Started
  <2>1. Cardinality(Clients) # 0 /\ Cardinality(Clients) \in Nat
    BY NetworkAssumption, FS_EmptySet, FS_CardinalityType
  <2> QED  BY <1>1, <2>1, NetworkAssumption DEF Started, AllJoined
<1>3. state < TotalRounds /\ ~(state > TotalRounds) /\ state # TotalRounds
  BY <1>1, RoundsAreNat
<1>4. \A c \in Clients : Tasks(toClient, toServer, c) = {}
  BY <1>1 DEF Tasks
<1>5. RInv
  BY <1>1, <1>2, <1>3, <1>4, ServerAssumption DEF RInv, TasksOfRound
<1>6. \A c \in Clients : ~Busy(c)
  BY <1>1 DEF Busy, Models, Updates
<1>7. Phase = "joining" /\ Pending = {}
  BY <1>2, <1>3, <1>6 DEF Phase, Pending
<1> QED  BY <1>1, <1>5, <1>7 DEF Abstract!Init, Phase, Pending

\* SyncRounds counts as the course does.
LEMMA SameCount ==
  ASSUME NEW S
  PROVE  Abstract!Cardinality(S) = Cardinality(S)
BY DEF Abstract!Cardinality, Cardinality

\* The workers whom the sampler has made busy are a cohort.
LEMMA IsCohort ==
  ASSUME NEW free, Unseen \subseteq free, Cardinality(Clients \ free) = SampleNum
  PROVE  Clients \ free \in Abstract!Cohorts
BY SameCount DEF Abstract!Cohorts

LEMMA EndRoundIs ==
  ASSUME Phase = "training", Cardinality(Pending) = 1, state' = state + 1,
         IF state' < TotalRounds THEN Pending' \in Abstract!Cohorts /\ Phase' = Phase
                                 ELSE Pending' = {} /\ Phase' = "evaluating"
  PROVE  Abstract!EndRound
<1>1. Abstract!Cardinality(Pending) = 1
  BY SameCount
<1> QED  BY <1>1, Zenon DEF Abstract!EndRound, Phase, Pending

LEMMA StepRefines ==
  ASSUME Synchronous, IInv, IInv', RInv, RInv', PendingAreBusy, PendingAreBusy',
         Begins \/ (\E c \in Clients : Returned(c)) \/ Evaluated \/ Stands
  PROVE  [Abstract!Next]_(Abstract!vars)
<1>1. /\ state \in Nat /\ TotalRounds \in Nat \ {0} /\ idle \subseteq Clients
      /\ state' \in Nat /\ idle' \subseteq Clients
  BY RoundNumbers, RoundNumbersNext
<1>2. /\ ~(state > TotalRounds) => Pending = Clients \ idle
      /\ ~(state' > TotalRounds) => Pending' = Clients \ idle'
      /\ state' > TotalRounds => Pending' = {}
  BY DEF PendingAreBusy
<1>3. ASSUME state' = state, idle' = idle, Started' <=> Started
      PROVE  UNCHANGED Abstract!vars
  <2>1. Pending' = Pending
    BY <1>3 DEF PendingAreBusy
  <2>2. Phase' = Phase
    BY <1>3 DEF Phase
  <2> QED  BY <1>3, <2>1, <2>2 DEF Abstract!vars, Phase, Pending
<1>4. ASSUME Phase \in {"training", "evaluating"}, state' = TotalRounds + 1
      PROVE  Abstract!End
  <2>1. Pending' = {} /\ Phase' = "over"
    BY <1>1, <1>2, <1>4, PhaseIsNext
  <2> QED  BY <1>4, <2>1 DEF Abstract!End, Phase, Pending
<1>5. CASE Begins
  <2>1. CASE (Started' <=> Started) /\ idle' = idle
    BY <1>3, <1>5, <2>1 DEF Begins
  <2>2. CASE /\ ~Started /\ Started' /\ state = 0 /\ idle = Clients /\ fresh = {}
             /\ Cardinality(Clients \ idle') = SampleNum
    <3>1. state' = state /\ state < TotalRounds /\ Unseen \subseteq idle'
      BY <1>1, <1>5, <2>2 DEF Begins
    <3>2. Phase = "joining" /\ Phase' = "training"
      BY <2>2, <3>1, PhaseIs, PhaseIsNext
    <3>3. Pending' = Clients \ idle'
      BY <1>1, <1>2, <3>1
    <3>4. Pending' \in Abstract!Cohorts
      BY <2>2, <3>1, <3>3, IsCohort
    <3>5. Abstract!Start
      BY <3>1, <3>2, <3>4 DEF Abstract!Start, Phase, Pending
    <3> QED  BY <3>5 DEF Abstract!Next
  <2> QED  BY <1>5, <2>1, <2>2 DEF Begins
<1>6. ASSUME NEW c \in Clients, Returned(c)
      PROVE  Abstract!Next
  <2>1. Started /\ Started' /\ state < TotalRounds /\ c \in Clients \ idle
    BY <1>6 DEF Returned
  <2>2. Phase = "training" /\ Pending = Clients \ idle
    BY <1>1, <1>2, <2>1, PhaseIs
  <2>3. CASE /\ state' = state /\ Clients \ idle # {c}
             /\ idle' = idle \cup {c} /\ fresh' = fresh \cup {c} /\ c \notin fresh
    <3>1. Phase' = "training" /\ Pending' = Pending \ {c}
      BY <1>1, <1>2, <2>1, <2>2, <2>3, PhaseIsNext
    <3>2. c \in Clients \ Unseen
      BY <2>1 DEF RInv
    <3>3. Abstract!Return(c)
      BY <2>1, <2>2, <2>3, <3>1 DEF Abstract!Return, Phase, Pending
    <3> QED  BY <3>2, <3>3 DEF Abstract!Next
  <2>4. CASE /\ Clients \ idle = {c} /\ fresh' = {}
             /\ \/ /\ state' = state + 1 /\ state' < TotalRounds
                   /\ Cardinality(Clients \ idle') = SampleNum
                \/ /\ state' = state + 1 /\ state' = TotalRounds
                   /\ idle' = Clients
                \/ state' = TotalRounds + 1
    <3>1. Cardinality(Pending) = 1
      BY <2>2, <2>4, FS_Singleton
    <3>2. CASE /\ state' = state + 1 /\ state' < TotalRounds
               /\ Cardinality(Clients \ idle') = SampleNum
      <4>1. Pending' = Clients \ idle' /\ Phase' = Phase
        BY <1>1, <1>2, <2>1, <2>2, <3>2, PhaseIsNext
      <4>2. Unseen \subseteq idle'
        BY <1>6 DEF Returned
      <4>3. Pending' \in Abstract!Cohorts
        BY <3>2, <4>1, <4>2, IsCohort
      <4>4. Abstract!EndRound
        BY <2>2, <3>1, <3>2, <4>1, <4>3, EndRoundIs
      <4> QED  BY <4>4 DEF Abstract!Next
    <3>3. CASE state' = state + 1 /\ state' = TotalRounds /\ idle' = Clients
      <4>1. Pending' = {} /\ Phase' = "evaluating" /\ ~(state' < TotalRounds)
        BY <1>1, <1>2, <3>3, PhaseIsNext
      <4>2. Abstract!EndRound
        BY <2>2, <3>1, <3>3, <4>1, EndRoundIs
      <4> QED  BY <4>2 DEF Abstract!Next
    <3>4. CASE state' = TotalRounds + 1
      BY <1>4, <2>2, <3>4 DEF Abstract!Next
    <3> QED  BY <2>4, <3>2, <3>3, <3>4
  <2> QED  BY <1>6, <2>3, <2>4 DEF Returned
<1>7. CASE Evaluated
  <2>1. CASE state' = state
    BY <1>3, <1>7, <2>1 DEF Evaluated
  <2>2. CASE state' = TotalRounds + 1
    <3>1. Phase \in {"training", "evaluating"}
      <4>1. Started /\ state <= TotalRounds
        BY <1>7 DEF Evaluated
      <4> QED  BY <1>1, <4>1, PhaseIs
    <3> QED  BY <1>4, <2>2, <3>1 DEF Abstract!Next
  <2> QED  BY <1>7, <2>1, <2>2 DEF Evaluated
<1>8. CASE Stands
  <2>1. Started' <=> Started
    BY <1>8 DEF Stands, Started, AllJoined, joinVars
  <2> QED  BY <1>3, <1>8, <2>1 DEF Stands
<1> QED  BY <1>5, <1>6, <1>7, <1>8

\* A synchronous course that loses nothing is, for any number of workers and rounds,
\* whether they are asked for their information and whoever evaluates, a sequence of
\* cohorts that all return: SyncRounds.
THEOREM CourseIsSynchronous ==
  ASSUME Synchronous
  PROVE  Spec => ImplementsSyncRounds
<1>1. Init => RInv /\ Abstract!Init
  BY InitRefines
<1>2. IInv /\ IInv' /\ CInv /\ JInv /\ DInv /\ Waiting /\ VInv /\ RInv /\ [Next]_vars => RInv'
  BY StepsOfRounds, StepsKeepRInv
<1>3. Spec => []Waiting
  BY StartsOnce, SynchronousModes
<1>4. Spec => []VInv
  BY TasksAreOpen, SynchronousModes
<1>5. IInv /\ IInv' /\ CInv /\ JInv /\ DInv /\ DInv' /\ Waiting /\ VInv /\ RInv /\ RInv' /\ [Next]_vars
        => [Abstract!Next]_(Abstract!vars)
  BY StepsOfRounds, StepRefines, BusyAreCounted, BusyAreCountedNext
<1> QED
  BY <1>1, <1>2, <1>3, <1>4, <1>5, InductiveInvariant, DatesAreRight, DeliveryIsOrderly, PTL
     DEF Spec, ImplementsSyncRounds, Abstract!Spec

-----------------------------------------------------------------------------
(* The last evaluation, when everybody takes part in every round.          *)

FullCohort ==
  /\ ~Asyn /\ SampleNum = Cardinality(Clients)
  /\ EvalAll /\ ~GlobalEval

\* What a worker sends back of its work.
Answers == {"model_para", "metrics"}

\* Of a worker's channels x and y: its evaluations are of the model of round e; it is
\* asked for each before the next model is sent to it, and answers it before that.
EvalsFirst(x, y, e) ==
  /\ \A i \in DOMAIN x : x[i].type = "evaluate" =>
       /\ x[i].round = e
       /\ \A j \in DOMAIN x : x[j].type = "model_para" => i < j
       /\ \A j \in DOMAIN y : y[j].type # "model_para"
  /\ \A i \in DOMAIN y : y[i].type = "metrics" =>
       /\ y[i].round = e
       /\ \A j \in DOMAIN y : y[j].type = "model_para" => i < j

NoEvals(x, y) ==
  /\ \A i \in DOMAIN x : x[i].type # "evaluate"
  /\ \A i \in DOMAIN y : y[i].type # "metrics"

\* The messages in p of the types in T are those in x, from some place on.
Behind(p, x, T) ==
  \E k \in Nat : \A i \in DOMAIN p :
    p[i].type \in T => i + k \in DOMAIN x /\ p[i] = x[i + k]

\* Who has answered in this round has answered the evaluation before; nobody's answer
\* to the last evaluation is counted for another; the course is over when everybody's
\* answer to the evaluation of the last model has been merged.
EInv ==
  /\ staled = {}
  /\ fresh \subseteq idle
  /\ pc = "done" => state > TotalRounds
  /\ evalFrom # Clients
  /\ state = TotalRounds => idle = Clients
  /\ state > TotalRounds =>
       merged.stop \/ (merged.round = TotalRounds - 1 /\ merged.from = neighbors)
  /\ state <= TotalRounds =>
       /\ evalRound < state
       /\ \A c \in Clients :
            /\ EvalsFirst(toClient[c], toServer[c], state - 1)
            /\ c \in fresh => NoEvals(toClient[c], toServer[c])

LEMMA BehindSame ==
  ASSUME NEW S, NEW x \in Seq(S), NEW T
  PROVE  Behind(x, x, T)
<1>1. \A i \in DOMAIN x : i + 0 = i
  OBVIOUS
<1> QED  BY <1>1 DEF Behind

LEMMA BehindTail ==
  ASSUME NEW S, NEW x \in Seq(S), x # <<>>, NEW T
  PROVE  Behind(Tail(x), x, T)
<1>1. \A i \in DOMAIN Tail(x) : i + 1 \in DOMAIN x /\ Tail(x)[i] = x[i + 1]
  BY TailPositions
<1> QED  BY <1>1 DEF Behind

LEMMA BehindNothing ==
  ASSUME NEW x, NEW T
  PROVE  Behind(<<>>, x, T)
<1>1. DOMAIN <<>> = {} /\ 0 \in Nat
  OBVIOUS
<1> QED  BY <1>1 DEF Behind

LEMMA BehindAppend ==
  ASSUME NEW S, NEW p \in Seq(S), NEW x, NEW T, Behind(p, x, T), NEW m \in S, m.type \notin T
  PROVE  Behind(Append(p, m), x, T)
<1>1. PICK k \in Nat : \A i \in DOMAIN p :
        p[i].type \in T => i + k \in DOMAIN x /\ p[i] = x[i + k]
  BY DEF Behind
<1>2. ASSUME NEW i \in DOMAIN Append(p, m), Append(p, m)[i].type \in T
      PROVE  i + k \in DOMAIN x /\ Append(p, m)[i] = x[i + k]
  BY <1>1, <1>2, AppendPositions
<1> QED  BY <1>2 DEF Behind

LEMMA Positions ==
  ASSUME NEW S, NEW s \in Seq(S)
  PROVE  DOMAIN s = 1 .. Len(s) /\ Len(s) \in Nat
OBVIOUS

\* Reading messages and sending others does not mix up evaluations and models.
LEMMA StillFirst ==
  ASSUME NEW S, NEW R, NEW x \in Seq(S), NEW p \in Seq(S), NEW y \in Seq(R), NEW q \in Seq(R),
         Behind(p, x, Work), Behind(q, y, Answers), NEW e, EvalsFirst(x, y, e)
  PROVE  EvalsFirst(p, q, e) /\ (NoEvals(x, y) => NoEvals(p, q))
<1>1. PICK k \in Nat : \A i \in DOMAIN p :
        p[i].type \in Work => i + k \in DOMAIN x /\ p[i] = x[i + k]
  BY DEF Behind
<1>2. PICK l \in Nat : \A i \in DOMAIN q :
        q[i].type \in Answers => i + l \in DOMAIN y /\ q[i] = y[i + l]
  BY DEF Behind
<1>3. DOMAIN p \subseteq Nat /\ DOMAIN q \subseteq Nat
  OBVIOUS
<1>4. \A i, j, n \in Nat : i + n < j + n => i < j
  OBVIOUS
<1>5. ASSUME NEW i \in DOMAIN p, p[i].type = "evaluate"
      PROVE  /\ p[i].round = e
             /\ \A j \in DOMAIN p : p[j].type = "model_para" => i < j
             /\ \A j \in DOMAIN q : q[j].type # "model_para"
  <2>1. i + k \in DOMAIN x /\ p[i] = x[i + k]
    BY <1>1, <1>5 DEF Work
  <2>2. /\ p[i].round = e
        /\ \A j \in DOMAIN x : x[j].type = "model_para" => i + k < j
        /\ \A j \in DOMAIN y : y[j].type # "model_para"
    BY <1>5, <2>1 DEF EvalsFirst
  <2>3. ASSUME NEW j \in DOMAIN p, p[j].type = "model_para"  PROVE i < j
    <3>1. j + k \in DOMAIN x /\ p[j] = x[j + k]
      BY <1>1, <2>3 DEF Work
    <3>2. i + k < j + k
      BY <2>2, <2>3, <3>1
    <3> QED  BY <1>3, <1>4, <3>2
  <2>4. ASSUME NEW j \in DOMAIN q  PROVE q[j].type # "model_para"
    BY <1>2, <2>2 DEF Answers
  <2> QED  BY <2>2, <2>3, <2>4
<1>6. ASSUME NEW i \in DOMAIN q, q[i].type = "metrics"
      PROVE  /\ q[i].round = e
             /\ \A j \in DOMAIN q : q[j].type = "model_para" => i < j
  <2>1. i + l \in DOMAIN y /\ q[i] = y[i + l]
    BY <1>2, <1>6 DEF Answers
  <2>2. /\ q[i].round = e
        /\ \A j \in DOMAIN y : y[j].type = "model_para" => i + l < j
    BY <1>6, <2>1 DEF EvalsFirst
  <2>3. ASSUME NEW j \in DOMAIN q, q[j].type = "model_para"  PROVE i < j
    <3>1. j + l \in DOMAIN y /\ q[j] = y[j + l]
      BY <1>2, <2>3 DEF Answers
    <3>2. i + l < j + l
      BY <2>2, <2>3, <3>1
    <3> QED  BY <1>3, <1>4, <3>2
  <2> QED  BY <2>2, <2>3
<1>7. NoEvals(x, y) => NoEvals(p, q)
  BY <1>1, <1>2 DEF NoEvals, Work, Answers
<1> QED  BY <1>5, <1>6, <1>7 DEF EvalsFirst

\* No model is in p, and evaluations of the model of round e only; nothing is answered.
OnlyEvals(p, y, e) ==
  /\ \A i \in DOMAIN p : p[i].type # "model_para" /\ (p[i].type = "evaluate" => p[i].round = e)
  /\ \A i \in DOMAIN y : y[i].type \notin Answers

LEMMA EvalBehind ==
  ASSUME NEW S, NEW p \in Seq(S), NEW y, NEW e, OnlyEvals(p, y, e),
         NEW m \in S, m.type = "evaluate", m.round = e
  PROVE  OnlyEvals(Append(p, m), y, e)
BY AppendPositions DEF OnlyEvals

LEMMA ModelBehind ==
  ASSUME NEW S, NEW p \in Seq(S), NEW y, NEW e, OnlyEvals(p, y, e),
         NEW m \in S, m.type = "model_para"
  PROVE  EvalsFirst(Append(p, m), y, e)
<1> DEFINE q == Append(p, m)
<1>1. DOMAIN p = 1 .. Len(p) /\ Len(p) \in Nat
  BY Positions
<1>2. \A i \in DOMAIN q : (i \in DOMAIN p /\ q[i] = p[i]) \/ (i = Len(p) + 1 /\ q[i] = m)
  BY AppendPositions
<1> HIDE DEF q
<1>3. \A i \in DOMAIN p : i < Len(p) + 1
  BY <1>1
<1>4. \A i, j \in DOMAIN q : q[i].type = "evaluate" /\ q[j].type = "model_para" => i < j
  BY <1>2, <1>3 DEF OnlyEvals
<1>5. \A i \in DOMAIN q : q[i].type = "evaluate" => q[i].round = e
  BY <1>2 DEF OnlyEvals
<1>6. \A i \in DOMAIN y : y[i].type # "metrics" /\ y[i].type # "model_para"
  BY DEF OnlyEvals, Answers
<1>7. EvalsFirst(q, y, e)
  BY <1>4, <1>5, <1>6 DEF EvalsFirst
<1> QED  BY <1>7 DEF q

LEMMA EvalsOnly ==
  ASSUME NEW p, NEW y, NEW e, OnlyEvals(p, y, e)
  PROVE  EvalsFirst(p, y, e)
BY DEF OnlyEvals, EvalsFirst, Answers

-----------------------------------------------------------------------------
(* The server's channels.                                                  *)

\* Inbox b holds no work that was not there.
Calm(b) == b \in Inboxes /\ \A c \in Clients : Behind(b[c], toClient[c], Work)

LEMMA CalmSame ==
  ASSUME IInv
  PROVE  Calm(toClient)
BY ChannelsTyped, BehindSame DEF Calm

LEMMA CalmDeliver ==
  ASSUME NEW b, Calm(b), NEW S, NEW m \in DownMsg, m.type \notin Work
  PROVE  Calm(Deliver(b, S, m))
<1>1. \A c \in Clients : b[c] \in Seq(DownMsg) /\ Append(b[c], m) \in Seq(DownMsg)
  BY DEF Calm, Inboxes
<1>2. Deliver(b, S, m) \in Inboxes
  BY <1>1 DEF Deliver, Inboxes
<1>3. ASSUME NEW c \in Clients
      PROVE  Behind(Deliver(b, S, m)[c], toClient[c], Work)
  <2>1. Behind(b[c], toClient[c], Work)
    BY DEF Calm
  <2>2. Behind(Append(b[c], m), toClient[c], Work)
    BY <1>1, <2>1, BehindAppend
  <2>3. Deliver(b, S, m)[c] \in {b[c], Append(b[c], m)}
    BY DEF Deliver
  <2> QED  BY <2>1, <2>2, <2>3
<1> QED  BY <1>2, <1>3 DEF Calm

LEMMA CheckAndSaveCalm ==
  ASSUME NEW b, Calm(b), NEW s \in Rounds, NEW stop \in BOOLEAN
  PROVE  Calm(CheckAndSave(s, b, stop).inbox)
<1> DEFINE s1     == IF stop THEN TotalRounds + 1 ELSE s
           warned == IF stop THEN Deliver(b, neighbors, Msg("converged", s)) ELSE b
<1>1. s1 \in Rounds
  BY RoundsAreNat DEF Rounds
<1>2. /\ Msg("converged", s) \in DownMsg /\ Msg("converged", s).type \notin Work
      /\ Msg("finish", s1) \in DownMsg /\ Msg("finish", s1).type \notin Work
  BY <1>1 DEF Msg, DownMsg, Work
<1>3. Calm(warned)
  BY <1>2, CalmDeliver
<1>4. Calm(Deliver(warned, neighbors, Msg("finish", s1)))
  BY <1>2, <1>3, CalmDeliver
<1>5. CheckAndSave(s, b, stop).inbox \in {warned, Deliver(warned, neighbors, Msg("finish", s1))}
  BY DEF CheckAndSave
<1> QED  BY <1>3, <1>4, <1>5

LEMMA ConsumeBehind ==
  ASSUME IInv, NEW c \in Clients, toServer[c] # <<>>, toServer' = Consume(c)
  PROVE  \A d \in Clients : toServer'[d] \in Seq(UpMsg) /\ Behind(toServer'[d], toServer[d], Answers)
<1> TAKE d \in Clients
<1>1. toServer \in [Clients -> Seq(UpMsg)] /\ toServer[d] \in Seq(UpMsg)
  BY ChannelsTyped DEF Outboxes
<1>2. toServer'[d] = IF d = c THEN Tail(toServer[c]) ELSE toServer[d]
  BY <1>1 DEF Consume
<1>3. CASE d = c
  <2>1. Tail(toServer[c]) \in Seq(UpMsg)
    BY <1>1, <1>3
  <2> QED  BY <1>1, <1>2, <1>3, <2>1, BehindTail
<1>4. CASE d # c
  BY <1>1, <1>2, <1>4, BehindSame
<1> QED  BY <1>3, <1>4

\* Channels with no new work and no new answer leave the evaluations in their order.
LEMMA CalmKeepsOrder ==
  ASSUME IInv, EInv, state <= TotalRounds, NEW b, Calm(b),
         \A d \in Clients : toServer'[d] \in Seq(UpMsg) /\ Behind(toServer'[d], toServer[d], Answers)
  PROVE  \A d \in Clients :
           /\ EvalsFirst(b[d], toServer'[d], state - 1)
           /\ d \in fresh => NoEvals(b[d], toServer'[d])
<1> TAKE d \in Clients
<1>1. /\ b[d] \in Seq(DownMsg) /\ toClient[d] \in Seq(DownMsg)
      /\ toServer[d] \in Seq(UpMsg) /\ toServer'[d] \in Seq(UpMsg)
      /\ Behind(b[d], toClient[d], Work) /\ Behind(toServer'[d], toServer[d], Answers)
  BY ChannelsTyped DEF Calm, Inboxes
<1>2. /\ EvalsFirst(toClient[d], toServer[d], state - 1)
      /\ d \in fresh => NoEvals(toClient[d], toServer[d])
  BY DEF EInv
<1> QED  BY <1>1, <1>2, StillFirst

\* When the server and the buffers stand still, and no worker answers.
LEMMA StillKeepsEInv ==
  ASSUME IInv, EInv, UNCHANGED <<state, staled, fresh, idle, evalRound, evalFrom, merged, neighbors>>,
         pc' = "done" => pc = "done" \/ state > TotalRounds, Calm(toClient'),
         \A d \in Clients : toServer'[d] \in Seq(UpMsg) /\ Behind(toServer'[d], toServer[d], Answers)
  PROVE  EInv'
<1>1. state <= TotalRounds =>
        \A d \in Clients :
          /\ EvalsFirst(toClient'[d], toServer'[d], state - 1)
          /\ d \in fresh => NoEvals(toClient'[d], toServer'[d])
  BY CalmKeepsOrder
<1> QED  BY <1>1 DEF EInv

-----------------------------------------------------------------------------
(* Every step keeps the invariant.                                         *)

LEMMA CohortIsAll ==
  ASSUME FullCohort, NEW f \in SUBSET Clients
  PROVE  TrainQuorum(f, {}) <=> f = Clients
<1>1. MinReceived = Cardinality(Clients) /\ Cardinality({}) = 0
  BY ServerAssumption, NothingCounts DEF FullCohort
<1>2. /\ Cardinality(f) \in Nat /\ Cardinality(Clients) \in Nat
      /\ Cardinality(f) <= Cardinality(Clients)
      /\ Cardinality(f) = Cardinality(Clients) => f = Clients
  BY MoreCounted
<1> QED  BY <1>1, <1>2 DEF TrainQuorum

\* Asking everybody, and sending the next model.
LEMMA AskThenSend ==
  ASSUME IInv, NEW b \in Inboxes, NEW e \in Rounds,
         \A c \in Clients : OnlyEvals(b[c], toServer'[c], e)
  PROVE  /\ \A S : LET a == Deliver(b, S, Msg("evaluate", e))
                   IN  a \in Inboxes /\ \A c \in Clients : OnlyEvals(a[c], toServer'[c], e)
         /\ \A free, n, s : s \in Rounds /\ BroadcastModelPara(b, free, n, s) =>
              /\ pc' \in {pc, "sampler_error"}
              /\ \A c \in Clients : EvalsFirst(toClient'[c], toServer'[c], e)
<1>1. \A c \in Clients : b[c] \in Seq(DownMsg)
  BY DEF Inboxes
<1>2. ASSUME NEW S
      PROVE  LET a == Deliver(b, S, Msg("evaluate", e))
             IN  a \in Inboxes /\ \A c \in Clients : OnlyEvals(a[c], toServer'[c], e)
  <2> DEFINE m == Msg("evaluate", e)
             a == Deliver(b, S, m)
  <2>1. m \in DownMsg /\ m.type = "evaluate" /\ m.round = e
    BY DEF Msg, DownMsg
  <2> HIDE DEF m
  <2>2. \A c \in Clients : a[c] \in {b[c], Append(b[c], m)}
    BY DEF Deliver
  <2>3. a \in Inboxes
    BY <1>1, <2>1, AppendPositions DEF Deliver, Inboxes
  <2>4. \A c \in Clients : OnlyEvals(Append(b[c], m), toServer'[c], e)
    BY <1>1, <2>1, EvalBehind
  <2> HIDE DEF a
  <2>5. a \in Inboxes /\ \A c \in Clients : OnlyEvals(a[c], toServer'[c], e)
    BY <2>2, <2>3, <2>4
  <2> QED  BY <2>5 DEF a, m
<1>3. ASSUME NEW free, NEW n, NEW s \in Rounds, BroadcastModelPara(b, free, n, s)
      PROVE  /\ pc' \in {pc, "sampler_error"}
             /\ \A c \in Clients : EvalsFirst(toClient'[c], toServer'[c], e)
  <2> DEFINE m == Msg("model_para", Capped(s))
  <2>1. m \in DownMsg /\ m.type = "model_para"
    BY CappedRounds DEF Msg, DownMsg
  <2>2. pc' \in {pc, "sampler_error"}
    BY <1>3 DEF BroadcastModelPara
  <2>3. \A c \in Clients : toClient'[c] \in {b[c], Append(b[c], m)}
    BY <1>3 DEF BroadcastModelPara, Deliver
  <2> HIDE DEF m
  <2>4. \A c \in Clients : /\ EvalsFirst(b[c], toServer'[c], e)
                           /\ EvalsFirst(Append(b[c], m), toServer'[c], e)
    BY <1>1, <2>1, EvalsOnly, ModelBehind
  <2> QED  BY <2>2, <2>3, <2>4
<1> QED  BY <1>2, <1>3

\* The end of a round, when nobody has anything left to do.
LEMMA RoundAsksAll ==
  ASSUME FullCohort, IInv, NEW free, NEW f, NEW keyed, NEW d,
         Handed(free, f, keyed, {}, d), state < TotalRounds,
         \A c \in Clients : \A e : OnlyEvals(toClient[c], toServer'[c], e),
         Aggregate(free, f, {}, d, 0)
  PROVE  /\ pc' \in {pc, "sampler_error"} /\ staled' = {} /\ fresh' = {}
         /\ state' = state + 1
         /\ state' = TotalRounds => idle' = free
         /\ \A c \in Clients : EvalsFirst(toClient'[c], toServer'[c], state)
<1> DEFINE s1  == state + 1
           due == s1 % EvalFreq = 0 /\ s1 # TotalRounds
           mid == [state |-> s1, inbox |-> IF due THEN EvaluateRequest(toClient, s1) ELSE toClient,
                   finished |-> FALSE]
<1>1. /\ s1 \in Nat /\ s1 <= TotalRounds /\ state \in Nat /\ TotalRounds \in Nat
      /\ s1 - 1 = state /\ s1 \in Rounds /\ state \in Rounds /\ Capped(s1 - 1) = state
  BY RoundsAreNat DEF Handed, Rounds, Capped
<1>2. IF MoreRounds(mid.state) THEN NextRound(mid, free, f, {}, d, 0)
                               ELSE FinalEval(mid, free, {}, d, 0)
  BY DEF Aggregate, Eval, FullCohort
<1>3. mid.state = s1 /\ (MoreRounds(s1) <=> s1 < TotalRounds)
  BY DEF MoreRounds
<1>4. mid.inbox \in Inboxes /\ \A c \in Clients : OnlyEvals(mid.inbox[c], toServer'[c], state)
  <2>1. toClient \in Inboxes
    BY ChannelsTyped
  <2>2. CASE due
    <3>1. mid.inbox = Deliver(toClient, neighbors, Msg("evaluate", state))
      BY <1>1, <2>2 DEF EvaluateRequest
    <3> QED  BY <1>1, <2>1, <3>1, AskThenSend
  <2>3. CASE ~due
    BY <2>1, <2>3
  <2> QED  BY <2>2, <2>3
<1> HIDE DEF mid, due
<1>5. CASE s1 < TotalRounds
  <2>1. /\ state' = s1 /\ fresh' = {} /\ staled' = {}
        /\ \E n : BroadcastModelPara(mid.inbox, free, n, s1)
    <3>1. NextRound(mid, free, f, {}, d, 0) /\ ~AfterReceiving
      BY <1>2, <1>3, <1>5, ServerAssumption DEF FullCohort
    <3> QED  BY <1>3, <3>1 DEF NextRound
  <2> QED  BY <1>1, <1>4, <1>5, <2>1, AskThenSend
<1>6. CASE ~(s1 < TotalRounds)
  <2>1. s1 = TotalRounds
    BY <1>1, <1>6
  <2>2. /\ state' = s1 /\ fresh' = {} /\ staled' = {} /\ pc' = pc /\ idle' = free
        /\ toClient' = Deliver(mid.inbox, neighbors, Msg("evaluate", state))
    <3>1. FinalEval(mid, free, {}, d, 0)
      BY <1>2, <1>3, <1>6
    <3>2. \A stop : Eval(mid.state, mid.inbox, stop)
            = [state |-> s1, inbox |-> EvaluateRequest(mid.inbox, s1), finished |-> FALSE]
      BY <1>3 DEF Eval, FullCohort
    <3>3. EvaluateRequest(mid.inbox, s1) = Deliver(mid.inbox, neighbors, Msg("evaluate", state))
      BY <1>1 DEF EvaluateRequest
    <3>4. /\ state' = s1 /\ fresh' = {} /\ staled' = {}
          /\ NoBroadcast(EvaluateRequest(mid.inbox, s1), free)
      BY <3>1, <3>2 DEF FinalEval
    <3> QED  BY <3>3, <3>4 DEF NoBroadcast
  <2>3. \A c \in Clients : OnlyEvals(toClient'[c], toServer'[c], state)
    BY <1>1, <1>4, <2>2, AskThenSend
  <2> QED  BY <1>1, <2>2, <2>3, EvalsOnly
<1> QED  BY <1>5, <1>6

LEMMA UpdateKeepsEInv ==
  ASSUME FullCohort, IInv, CInv, JInv, DInv, EInv, NEW c \in Clients, HandleModelPara(c)
  PROVE  EInv'
<1>1. /\ Listening /\ Arrived(c, "model_para") /\ toServer[c] # <<>>
      /\ toServer' = Consume(c)
      /\ UNCHANGED <<joinVars, evalVars>>
  BY DEF HandleModelPara, Arrived
<1>2. /\ state \in Rounds /\ state \in Nat /\ TotalRounds \in Nat
  BY Timely, RoundsAreNat
<1>3. /\ 1 \in DOMAIN toServer[c] /\ 1 \in Updates(c) /\ toServer[c][1].type = "model_para"
      /\ toServer[c][1] = Head(toServer[c]) /\ Head(toServer[c]) \in UpMsg
  BY <1>1, ConsumePositions DEF Arrived, Updates, IInv
<1>4. c \notin idle /\ c \notin fresh
  BY <1>3 DEF IInv, OneTaskPerClient, Busy, EInv
<1>5. Serving /\ ~isFinish /\ state <= TotalRounds /\ state < TotalRounds /\ pc = "listening"
  <2>1. Serving
    BY <1>1, ListeningServes
  <2>2. state # TotalRounds
    BY <1>4 DEF EInv
  <2> QED  BY <1>2, <2>1, <2>2 DEF DInv, Open, Serving
<1> DEFINE r     == Head(toServer[c]).round
           now   == r = state
           f     == IF now THEN fresh \cup {c} ELSE fresh
           keyed == hasRound \/ now
           d     == IF now THEN dropout ELSE dropout + 1
           free  == idle \cup {c}
<1>6. CheckAndMoveOn(free, f, keyed, {}, d, 0)
  <2>1. r \in Nat /\ r <= state
    BY <1>1, <1>3, RoundsAreNat DEF UpMsg, CInv, Dated, Updates
  <2>2. staled = {} /\ Staleness = 0 /\ ~AfterReceiving
    BY ServerAssumption DEF EInv, FullCohort
  <2>3. ~(~now /\ Tolerated(r))
    BY <1>2, <2>1, <2>2 DEF Tolerated
  <2> QED  BY <1>5, <2>2, <2>3 DEF HandleModelPara
<1>7. Handed(free, f, keyed, {}, d)
  BY <1>2, <1>5 DEF Handed, IInv, TypeOK, STypeOK, NetTypeOK, Inboxes
<1>8. \A e \in Clients : toServer'[e] \in Seq(UpMsg) /\ Behind(toServer'[e], toServer[e], Answers)
  BY <1>1, ConsumeBehind
<1>9. \A e \in Clients : /\ EvalsFirst(toClient[e], toServer'[e], state - 1)
                         /\ e \in fresh => NoEvals(toClient[e], toServer'[e])
  BY <1>5, <1>8, CalmSame, CalmKeepsOrder
<1>10. NoEvals(toClient[c], toServer'[c])
  <2>1. EvalsFirst(toClient[c], toServer[c], state - 1)
    BY <1>5 DEF EInv
  <2>2. \A i \in DOMAIN toClient[c] : toClient[c][i].type # "evaluate"
    BY <1>3, <2>1 DEF EvalsFirst
  <2>3. ASSUME NEW i \in DOMAIN toServer'[c], toServer'[c][i].type = "metrics"
        PROVE  FALSE
    <3>1. /\ i \in Nat /\ i + 1 \in DOMAIN toServer[c]
          /\ toServer'[c][i] = toServer[c][i + 1]
      BY <1>1, ConsumePositions DEF IInv
    <3>2. i + 1 < 1
      BY <1>3, <2>1, <2>3, <3>1 DEF EvalsFirst
    <3> QED  BY <3>1, <3>2
  <2> QED  BY <2>2, <2>3 DEF NoEvals
<1>11. f \subseteq free /\ f \subseteq fresh \cup {c} /\ f \in SUBSET Clients /\ free \subseteq Clients
  BY <1>7 DEF EInv, Handed
<1>12. ~now => f = fresh
  OBVIOUS
<1> HIDE DEF f, free, keyed, d
<1>13. CASE ~TrainQuorum(f, {})
  <2>1. /\ fresh' = f /\ staled' = {} /\ state' = state
        /\ idle' = free /\ toClient' = toClient /\ pc' = pc
    <3>1. Wait(free, f, keyed, {}, d, 0)
      BY <1>6, <1>7, <1>13 DEF CheckAndMoveOn, Handed
    <3> QED  BY <3>1 DEF Wait, Keep, NoBroadcast
  <2>2. \A e \in Clients : e \in f => NoEvals(toClient[e], toServer'[e])
    BY <1>9, <1>10, <1>11
  <2>3. \A e \in Clients : /\ EvalsFirst(toClient'[e], toServer'[e], state' - 1)
                           /\ e \in fresh' => NoEvals(toClient'[e], toServer'[e])
    BY <1>9, <2>1, <2>2
  <2>4. ~(state' > TotalRounds) /\ state' # TotalRounds /\ pc' # "done"
    BY <1>2, <1>5, <2>1
  <2>5. evalRound' = evalRound /\ evalFrom' = evalFrom
    BY <1>1 DEF evalVars
  <2> QED  BY <1>5, <1>11, <2>1, <2>3, <2>4, <2>5 DEF EInv
<1>14. CASE TrainQuorum(f, {})
  <2>1. f = Clients /\ free = Clients
    BY <1>11, <1>14, CohortIsAll
  <2>2. now /\ keyed
    BY <1>4, <1>12, <2>1 DEF keyed
  <2>3. Aggregate(free, f, {}, d, 0)
    BY <1>6, <1>14, <2>2 DEF CheckAndMoveOn
  <2>4. \A e \in Clients : NoEvals(toClient[e], toServer'[e])
    BY <1>9, <1>10, <1>11, <2>1
  <2>5. TasksOf(toClient, free)
    BY <1>1, ConsumeTasks DEF free
  <2>6. \A e \in Clients : /\ \A i \in DOMAIN toClient[e] : toClient[e][i].type # "model_para"
                           /\ \A i \in DOMAIN toServer'[e] : toServer'[e][i].type # "model_para"
    BY <2>1, <2>5 DEF TasksOf
  <2>7. \A e \in Clients : \A s : OnlyEvals(toClient[e], toServer'[e], s)
    BY <2>4, <2>6 DEF OnlyEvals, NoEvals, Answers
  <2>8. /\ pc' \in {pc, "sampler_error"} /\ staled' = {} /\ fresh' = {}
        /\ state' = state + 1
        /\ state' = TotalRounds => idle' = free
        /\ \A e \in Clients : EvalsFirst(toClient'[e], toServer'[e], state)
    BY <1>5, <1>7, <2>3, <2>7, RoundAsksAll
  <2>9. state' - 1 = state /\ evalRound < state' /\ state' <= TotalRounds /\ ~(state' > TotalRounds)
    <3>1. evalRound \in {-1} \cup Rounds /\ evalRound < state
      BY <1>5 DEF EInv, IInv, TypeOK, STypeOK
    <3>2. evalRound \in Int
      BY <3>1, RoundsAreNat
    <3> QED  BY <1>2, <1>5, <2>8, <3>1, <3>2
  <2> QED  BY <1>1, <1>5, <2>1, <2>8, <2>9 DEF EInv, evalVars
<1> QED  BY <1>13, <1>14

\* The metrics a worker sends are of the last model; those of all workers are merged.
LEMMA MetricsKeepEInv ==
  ASSUME FullCohort, IInv, JInv, DInv, EInv, NEW c \in Clients, HandleMetrics(c)
  PROVE  EInv'
<1> DEFINE r == Head(toServer[c]).round
<1>1. /\ Listening /\ Arrived(c, "metrics") /\ toServer[c] # <<>>
      /\ toServer' = Consume(c)
      /\ UNCHANGED <<joinVars, idle, fresh, staled, pc>>
  BY DEF HandleMetrics, Arrived
<1>2. /\ state \in Rounds /\ state \in Nat /\ TotalRounds \in Nat /\ state <= TotalRounds
      /\ pc = "listening"
  <2>1. Serving
    BY <1>1, ListeningServes
  <2> QED  BY <2>1, RoundsAreNat DEF Serving, IInv, TypeOK, STypeOK
<1>3. /\ 1 \in DOMAIN toServer[c] /\ toServer[c][1] = Head(toServer[c])
      /\ toServer[c][1].type = "metrics"
  BY <1>1, HeadsAreThere DEF Arrived
<1>4. r = state - 1
  BY <1>2, <1>3 DEF EInv, EvalsFirst
<1>5. neighbors = Clients
  <2>1. AllJoined
    BY <1>3 DEF JInv, Prelude
  <2>2. neighbors \subseteq Clients
    BY DEF IInv, TypeOK, STypeOK
  <2> QED  BY <2>1, <2>2, AllKnown DEF Known
<1>6. evalRound \in Int /\ evalRound <= r /\ r < state /\ r \in Int
  <2>1. evalRound \in {-1} \cup Rounds /\ evalRound < state
    BY <1>2 DEF EInv, IInv, TypeOK, STypeOK
  <2>2. evalRound \in Int
    BY <2>1, RoundsAreNat
  <2> QED  BY <1>2, <1>4, <2>1, <2>2
<1> HIDE DEF r
<1>7. PICK from \in SUBSET Clients :
        /\ evalRound' = r
        /\ IF EvalQuorum(from)
             THEN \E stop \in BOOLEAN :
                    /\ state' = CheckAndSave(state, toClient, stop).state
                    /\ toClient' = CheckAndSave(state, toClient, stop).inbox
                    /\ evalFrom' = {}
                    /\ merged' = [round |-> r, from |-> from, stop |-> stop]
             ELSE evalFrom' = from /\ UNCHANGED <<state, toClient, merged>>
  <2> DEFINE from == IF r > evalRound THEN {c} ELSE evalFrom \cup {c}
  <2>1. from = CASE r > evalRound -> {c}
                 [] r = evalRound -> evalFrom \cup {c}
                 [] r < evalRound -> evalFrom
    BY <1>6
  <2>2. (IF r > evalRound THEN r ELSE evalRound) = r
    BY <1>6
  <2>3. from \in SUBSET Clients
    BY DEF IInv, TypeOK, STypeOK
  <2> HIDE DEF from
  <2> QED  BY <2>1, <2>2, <2>3, VerdictsAreBooleans DEF HandleMetrics, r
<1>8. EvalQuorum(from) <=> from = Clients
  <2>1. /\ Cardinality(from) \in Nat /\ Cardinality(Clients) \in Nat
        /\ Cardinality(from) <= Cardinality(Clients)
        /\ Cardinality(from) = Cardinality(Clients) => from = Clients
    BY MoreCounted
  <2> QED  BY <1>5, <2>1 DEF EvalQuorum, FullCohort
<1>9. \A d \in Clients : toServer'[d] \in Seq(UpMsg) /\ Behind(toServer'[d], toServer[d], Answers)
  BY <1>1, ConsumeBehind
<1>10. CASE ~EvalQuorum(from)
  <2>1. \A d \in Clients : /\ EvalsFirst(toClient'[d], toServer'[d], state - 1)
                           /\ d \in fresh => NoEvals(toClient'[d], toServer'[d])
    BY <1>2, <1>7, <1>9, <1>10, CalmSame, CalmKeepsOrder
  <2> QED  BY <1>1, <1>2, <1>6, <1>7, <1>8, <1>10, <2>1 DEF EInv, joinVars
<1>11. CASE EvalQuorum(from)
  <2>1. PICK stop \in BOOLEAN :
          /\ state' = CheckAndSave(state, toClient, stop).state
          /\ toClient' = CheckAndSave(state, toClient, stop).inbox
          /\ evalFrom' = {}
          /\ merged' = [round |-> r, from |-> from, stop |-> stop]
    BY <1>7, <1>11
  <2>2. Calm(toClient')
    BY <1>2, <2>1, CalmSame, CheckAndSaveCalm
  <2>3. \A d \in Clients : /\ EvalsFirst(toClient'[d], toServer'[d], state - 1)
                           /\ d \in fresh => NoEvals(toClient'[d], toServer'[d])
    BY <1>2, <1>9, <2>2, CalmKeepsOrder
  <2>4. Clients # {} /\ from = Clients
    BY <1>8, <1>11, NetworkAssumption
  <2>5. \/ state' = state /\ ~(state' > TotalRounds)
        \/ state' = TotalRounds + 1 /\ (stop \/ state = TotalRounds)
    BY <1>2, <2>1 DEF CheckAndSave
  <2>6. CASE state' = state /\ ~(state' > TotalRounds)
    BY <1>1, <1>2, <1>6, <1>7, <2>1, <2>3, <2>4, <2>6 DEF EInv, joinVars
  <2>7. CASE state' = TotalRounds + 1 /\ (stop \/ state = TotalRounds)
    <3>1. state' > TotalRounds /\ ~(state' <= TotalRounds) /\ state' # TotalRounds
      BY <1>2, <2>7
    <3>2. merged'.stop \/ (merged'.round = TotalRounds - 1 /\ merged'.from = neighbors')
      BY <1>1, <1>4, <1>5, <2>1, <2>4, <2>7 DEF joinVars
    <3> QED  BY <1>1, <1>2, <2>1, <2>4, <3>1, <3>2 DEF EInv
  <2> QED  BY <2>5, <2>6, <2>7
<1> QED  BY <1>10, <1>11

\* Joining: nothing, or the first models, before anybody has evaluated any.
LEMMA AskingCalm ==
  ASSUME IInv, NEW a, Asking(a)
  PROVE  Calm(a)
<1>1. ASSUME NEW c \in Clients
      PROVE  Behind(a[c], toClient[c], Work)
  <2>1. a[c] \in Seq(DownMsg)
    BY DEF Asking, Inboxes
  <2>2. \A i \in DOMAIN a[c] : i + 0 = i
    BY <2>1
  <2>3. \A i \in DOMAIN a[c] : a[c][i].type \in Work =>
          i + 0 \in DOMAIN toClient[c] /\ a[c][i] = toClient[c][i + 0]
    BY <2>2 DEF Asking, Work
  <2> QED  BY <2>3 DEF Behind
<1> QED  BY <1>1 DEF Calm, Asking

LEMMA StartKeepsEInv ==
  ASSUME IInv, JInv, Waiting, EInv, Listening, NEW c \in Clients, toServer[c] # <<>>,
         toServer' = Consume(c), UNCHANGED <<roundVars, evalVars>>,
         NEW a, Asking(a), Starts(a)
  PROVE  EInv'
<1>1. /\ UNCHANGED <<state, fresh, staled, evalRound, evalFrom, merged>>
      /\ state \in Nat /\ TotalRounds \in Nat \ {0} /\ state <= TotalRounds
  <2>1. Serving
    BY ListeningServes
  <2> QED  BY <2>1, RoundsAreNat DEF Serving, roundVars, evalVars, IInv, TypeOK, STypeOK
<1>2. CASE (Started' <=> Started) /\ NoBroadcast(a, idle)
  <2>1. pc' = pc /\ idle' = idle /\ toClient' = a
    BY <1>2 DEF NoBroadcast
  <2>2. Calm(a)
    BY AskingCalm
  <2>3. \A d \in Clients : toServer'[d] \in Seq(UpMsg) /\ Behind(toServer'[d], toServer[d], Answers)
    BY ConsumeBehind
  <2>4. \A d \in Clients : /\ EvalsFirst(a[d], toServer'[d], state - 1)
                           /\ d \in fresh => NoEvals(a[d], toServer'[d])
    BY <1>1, <2>2, <2>3, CalmKeepsOrder
  <2>5. pc # "done"
    BY DEF Listening
  <2> QED  BY <1>1, <2>1, <2>4, <2>5 DEF EInv
<1>3. CASE ~Started /\ Started' /\ BroadcastModelPara(a, idle, SampleNum, state)
  <2> DEFINE m == Msg("model_para", Capped(state))
  <2>1. state = 0 /\ state # TotalRounds /\ fresh = {} /\ staled = {}
    BY <1>1, <1>3 DEF Waiting
  <2>2. m.type = "model_para"
    BY DEF Msg
  <2>3. pc' # "done" /\ \A d \in Clients : toClient'[d] \in {a[d], Append(a[d], m)}
    BY <1>3 DEF BroadcastModelPara, Deliver, Listening
  <2> HIDE DEF m
  <2>4. ASSUME NEW d \in Clients
        PROVE  NoEvals(toClient'[d], toServer'[d])
    <3>1. /\ \A i \in DOMAIN toClient[d] : toClient[d][i].type = "ask_for_join_in_info"
          /\ \A i \in DOMAIN toServer[d] : toServer[d][i].type \in {"join_in", "join_in_info"}
      BY <1>3 DEF Waiting
    <3>2. \A i \in DOMAIN a[d] : a[d][i].type = "ask_for_join_in_info"
      BY <3>1 DEF Asking
    <3>3. a[d] \in Seq(DownMsg) /\ m \in DownMsg
      BY CappedRounds DEF m, Msg, DownMsg, Asking, Inboxes, IInv, TypeOK, STypeOK
    <3>5. \A i \in DOMAIN Append(a[d], m) : Append(a[d], m)[i].type # "evaluate"
      BY <2>2, <3>2, <3>3, AppendPositions
    <3>6. \A i \in DOMAIN toClient'[d] : toClient'[d][i].type # "evaluate"
      BY <2>3, <3>2, <3>5
    <3>7. \A i \in DOMAIN toServer'[d] : toServer'[d][i].type # "metrics"
      BY <3>1, ConsumeUploadsNothing DEF IInv, NoNewUpload
    <3> QED  BY <3>6, <3>7 DEF NoEvals
  <2>5. \A d \in Clients : EvalsFirst(toClient'[d], toServer'[d], state - 1)
    BY <2>4 DEF NoEvals, EvalsFirst
  <2> QED  BY <1>1, <2>1, <2>3, <2>4, <2>5 DEF EInv
<1> QED  BY <1>2, <1>3 DEF Starts

\* A worker that trains has no evaluation before it, and one that evaluates has not
\* trained on a later model.
LEMMA TrainedInOrder ==
  ASSUME NEW S, NEW R, NEW x \in Seq(S), NEW y \in Seq(R), NEW e, EvalsFirst(x, y, e),
         x # <<>>, x[1].type = "model_para", NEW m \in R, m.type = "model_para"
  PROVE  EvalsFirst(Tail(x), Append(y, m), e)
<1> DEFINE p == Tail(x)
           q == Append(y, m)
<1>1. /\ 1 \in DOMAIN x
      /\ \A i \in DOMAIN p : i + 1 \in DOMAIN x /\ p[i] = x[i + 1]
  BY TailPositions
<1>2. \A i \in DOMAIN x : ~(i < 1)
  OBVIOUS
<1>3. \A i \in DOMAIN x : x[i].type # "evaluate"
  BY <1>1, <1>2 DEF EvalsFirst
<1>4. \A i \in DOMAIN q : (i \in DOMAIN y /\ q[i] = y[i]) \/ (i = Len(y) + 1 /\ q[i] = m)
  BY AppendPositions
<1>5. \A i \in DOMAIN y : i < Len(y) + 1
  OBVIOUS
<1> HIDE DEF p, q
<1>6. \A i \in DOMAIN p : p[i].type # "evaluate"
  BY <1>1, <1>3
<1>7. ASSUME NEW i \in DOMAIN q, q[i].type = "metrics"
      PROVE  q[i].round = e /\ \A j \in DOMAIN q : q[j].type = "model_para" => i < j
  <2>1. i \in DOMAIN y /\ q[i] = y[i]
    BY <1>4, <1>7
  <2> QED  BY <1>4, <1>5, <1>7, <2>1 DEF EvalsFirst
<1>8. EvalsFirst(p, q, e)
  BY <1>6, <1>7 DEF EvalsFirst
<1> QED  BY <1>8 DEF p, q

LEMMA EvaluatedInOrder ==
  ASSUME NEW S, NEW R, NEW x \in Seq(S), NEW y \in Seq(R), NEW e, EvalsFirst(x, y, e),
         x # <<>>, x[1].type = "evaluate", NEW m \in R, m.type = "metrics", m.round = x[1].round
  PROVE  EvalsFirst(Tail(x), Append(y, m), e)
<1> DEFINE p == Tail(x)
           q == Append(y, m)
<1>1. /\ 1 \in DOMAIN x /\ DOMAIN p \subseteq Nat /\ DOMAIN x \subseteq Nat
      /\ \A i \in DOMAIN p : i + 1 \in DOMAIN x /\ p[i] = x[i + 1]
  BY TailPositions
<1>2. m.round = e /\ \A j \in DOMAIN y : y[j].type # "model_para"
  BY <1>1 DEF EvalsFirst
<1>3. \A i \in DOMAIN q : (i \in DOMAIN y /\ q[i] = y[i]) \/ (i = Len(y) + 1 /\ q[i] = m)
  BY AppendPositions
<1>4. \A i, j \in Nat : i + 1 < j + 1 => i < j
  OBVIOUS
<1> HIDE DEF p, q
<1>5. \A j \in DOMAIN q : q[j].type # "model_para"
  BY <1>2, <1>3
<1>6. ASSUME NEW i \in DOMAIN p, p[i].type = "evaluate"
      PROVE  p[i].round = e /\ \A j \in DOMAIN p : p[j].type = "model_para" => i < j
  <2>1. /\ i + 1 \in DOMAIN x /\ x[i + 1].type = "evaluate" /\ p[i].round = e
    BY <1>1, <1>6 DEF EvalsFirst
  <2>2. ASSUME NEW j \in DOMAIN p, p[j].type = "model_para"  PROVE i < j
    <3>1. i + 1 < j + 1
      BY <1>1, <2>1, <2>2 DEF EvalsFirst
    <3> QED  BY <1>1, <1>4, <3>1
  <2> QED  BY <2>1, <2>2
<1>7. \A i \in DOMAIN q : q[i].type = "metrics" => q[i].round = e
  BY <1>2, <1>3 DEF EvalsFirst
<1>8. EvalsFirst(p, q, e)
  BY <1>5, <1>6, <1>7 DEF EvalsFirst
<1> QED  BY <1>8 DEF p, q

LEMMA ReadCalm ==
  ASSUME IInv, NEW c \in Clients,
         (toClient[c] # <<>> /\ Read(c)) \/ toClient' = [toClient EXCEPT ![c] = <<>>]
  PROVE  Calm(toClient')
<1>1. toClient \in Inboxes /\ \A d \in Clients : toClient[d] \in Seq(DownMsg)
  BY ChannelsTyped
<1>2. /\ \A d \in Clients \ {c} : toClient'[d] = toClient[d]
      /\ \/ toClient[c] # <<>> /\ toClient'[c] = Tail(toClient[c])
         \/ toClient'[c] = <<>>
      /\ toClient' \in [Clients -> {toClient'[d] : d \in Clients}]
  BY <1>1 DEF Read, Inboxes
<1>3. <<>> \in Seq(DownMsg) /\ (toClient[c] # <<>> => Tail(toClient[c]) \in Seq(DownMsg))
  BY <1>1
<1>4. toClient' \in Inboxes
  BY <1>1, <1>2, <1>3 DEF Inboxes
<1>5. ASSUME NEW d \in Clients  PROVE Behind(toClient'[d], toClient[d], Work)
  <2>1. Behind(toClient[d], toClient[d], Work) /\ Behind(<<>>, toClient[d], Work)
    BY <1>1, BehindSame, BehindNothing
  <2>2. toClient[d] # <<>> => Behind(Tail(toClient[d]), toClient[d], Work)
    BY <1>1, BehindTail
  <2> QED  BY <1>2, <2>1, <2>2
<1> QED  BY <1>4, <1>5 DEF Calm

LEMMA SendBehind ==
  ASSUME IInv, NEW c \in Clients, NEW m \in UpMsg, m.type \notin Answers,
         Send(c, m) \/ UNCHANGED toServer
  PROVE  \A d \in Clients : toServer'[d] \in Seq(UpMsg) /\ Behind(toServer'[d], toServer[d], Answers)
<1> TAKE d \in Clients
<1>1. toServer[d] \in Seq(UpMsg) /\ toServer \in [Clients -> Seq(UpMsg)]
  BY ChannelsTyped DEF Outboxes
<1>2. toServer'[d] = toServer[d] \/ toServer'[d] = Append(toServer[d], m)
  BY <1>1 DEF Send
<1>3. Append(toServer[d], m) \in Seq(UpMsg)
  BY <1>1
<1>4. Behind(toServer[d], toServer[d], Answers)
  BY <1>1, BehindSame
<1>5. Behind(Append(toServer[d], m), toServer[d], Answers)
  BY <1>1, <1>4, BehindAppend
<1> QED  BY <1>1, <1>2, <1>3, <1>4, <1>5

\* A worker that answers: what it did is done, and its answer is last.
LEMMA WorkKeepsEInv ==
  ASSUME IInv, DInv, EInv, NEW c \in Clients, Train(c) \/ Evaluate(c), UNCHANGED sVars
  PROVE  EInv'
<1> DEFINE r == Head(toClient[c]).round
<1>1. PICK type \in Answers :
        /\ toClient[c] # <<>> /\ Head(toClient[c]).type \in Work
        /\ \/ Head(toClient[c]).type = "model_para" /\ type = "model_para"
           \/ Head(toClient[c]).type = "evaluate" /\ type = "metrics"
        /\ Answer(c, type)
  BY DEF Train, Evaluate, Hears, Work, Answers
<1>2. /\ Current(c)
      /\ 1 \in DOMAIN toClient[c] /\ toClient[c][1] = Head(toClient[c])
      /\ r \in Rounds
  BY <1>1, AlwaysCurrent DEF DownMsg
<1> DEFINE m == Msg(type, r)
<1>3. Read(c) /\ Send(c, m) /\ m \in UpMsg /\ m.type = type /\ m.round = r
  BY <1>1, <1>2 DEF Answer, Msg, UpMsg, Answers
<1> HIDE DEF m
<1>4. /\ toClient[c] \in Seq(DownMsg) /\ toServer[c] \in Seq(UpMsg)
      /\ toClient \in [Clients -> Seq(DownMsg)] /\ toServer \in [Clients -> Seq(UpMsg)]
  BY ChannelsTyped DEF Inboxes, Outboxes
<1>5. /\ toClient'[c] = Tail(toClient[c]) /\ toServer'[c] = Append(toServer[c], m)
      /\ \A d \in Clients \ {c} : toClient'[d] = toClient[d] /\ toServer'[d] = toServer[d]
  BY <1>3, <1>4 DEF Read, Send
<1>6. UNCHANGED <<state, staled, fresh, idle, evalRound, evalFrom, merged, neighbors, pc>>
  BY DEF sVars, roundVars, joinVars, evalVars
<1>7. ASSUME state <= TotalRounds
      PROVE  \A d \in Clients :
               /\ EvalsFirst(toClient'[d], toServer'[d], state - 1)
               /\ d \in fresh => NoEvals(toClient'[d], toServer'[d])
  <2>1. \A d \in Clients : /\ EvalsFirst(toClient[d], toServer[d], state - 1)
                           /\ d \in fresh => NoEvals(toClient[d], toServer[d])
    BY <1>7 DEF EInv
  <2>2. EvalsFirst(toClient'[c], toServer'[c], state - 1)
    <3>1. EvalsFirst(toClient[c], toServer[c], state - 1)
      BY <2>1
    <3>2. CASE Head(toClient[c]).type = "model_para" /\ type = "model_para"
      BY <1>1, <1>2, <1>3, <1>4, <1>5, <3>1, <3>2, TrainedInOrder
    <3>3. CASE Head(toClient[c]).type = "evaluate" /\ type = "metrics"
      BY <1>1, <1>2, <1>3, <1>4, <1>5, <3>1, <3>3, EvaluatedInOrder
    <3> QED  BY <1>1, <3>2, <3>3
  <2>3. c \notin fresh
    <3>1. CASE Head(toClient[c]).type = "model_para"
      BY <1>2, <3>1 DEF IInv, OneTaskPerClient, Busy, Models, EInv
    <3>2. CASE Head(toClient[c]).type = "evaluate"
      BY <1>2, <2>1, <3>2 DEF NoEvals
    <3> QED  BY <1>1, <3>1, <3>2 DEF Work
  <2> QED  BY <1>5, <2>1, <2>2, <2>3
<1> QED  BY <1>6, <1>7 DEF EInv

LEMMA ClientKeepsEInv ==
  ASSUME IInv, DInv, EInv, NEW c \in Clients, Client(c)
  PROVE  EInv'
<1>1. UNCHANGED sVars
  BY DEF Client
<1>2. ASSUME Calm(toClient'), NEW m \in UpMsg, m.type \notin Answers,
             Send(c, m) \/ UNCHANGED toServer
      PROVE  EInv'
  <2>1. \A d \in Clients : toServer'[d] \in Seq(UpMsg) /\ Behind(toServer'[d], toServer[d], Answers)
    BY <1>2, SendBehind
  <2>2. UNCHANGED <<state, staled, fresh, idle, evalRound, evalFrom, merged, neighbors, pc>>
    BY <1>1 DEF sVars, roundVars, joinVars, evalVars
  <2> QED  BY <1>2, <2>1, <2>2, StillKeepsEInv
<1>3. /\ Msg("join_in", 0) \in UpMsg /\ Msg("join_in", 0).type \notin Answers
      /\ Msg("join_in_info", 0) \in UpMsg /\ Msg("join_in_info", 0).type \notin Answers
  BY NetworkAssumption DEF UpMsg, Msg, Rounds, Answers
<1>4. CASE Train(c) \/ Evaluate(c)
  BY <1>1, <1>4, WorkKeepsEInv
<1>5. CASE JoinIn(c)
  <2>1. Calm(toClient') /\ Send(c, Msg("join_in", 0))
    BY <1>5, CalmSame DEF JoinIn
  <2> QED  BY <1>2, <1>3, <2>1
<1>6. CASE AnswerJoinInInfo(c)
  <2>1. /\ toClient[c] # <<>> /\ Read(c)
        /\ Send(c, Msg("join_in_info", 0)) \/ UNCHANGED toServer
    BY <1>6 DEF AnswerJoinInInfo, Hears
  <2> QED  BY <1>2, <1>3, <2>1, ReadCalm
<1>7. CASE Converged(c) \/ Finish(c)
  <2>1. /\ UNCHANGED toServer
        /\ ((toClient[c] # <<>> /\ Read(c)) \/ toClient' = [toClient EXCEPT ![c] = <<>>])
    BY <1>7 DEF Converged, Finish, Hears
  <2> QED  BY <1>2, <1>3, <2>1, ReadCalm
<1> QED  BY <1>4, <1>5, <1>6, <1>7 DEF Client, ClientStep

LEMMA FaultKeepsEInv ==
  ASSUME IInv, EInv, NEW c \in Clients, Fault(c)
  PROVE  EInv'
<1>1. UNCHANGED <<state, staled, fresh, idle, evalRound, evalFrom, merged, neighbors, pc>>
  BY DEF Fault, sVars, roundVars, joinVars, evalVars
<1>2. CASE LoseDown(c) \/ Crash(c)
  <2>1. /\ UNCHANGED toServer
        /\ ((toClient[c] # <<>> /\ Read(c)) \/ toClient' = [toClient EXCEPT ![c] = <<>>])
    BY <1>2 DEF LoseDown, Crash, Read
  <2>2. Calm(toClient')
    BY <2>1, ReadCalm
  <2>3. \A d \in Clients : toServer'[d] \in Seq(UpMsg) /\ Behind(toServer'[d], toServer[d], Answers)
    BY <2>1, ChannelsTyped, BehindSame
  <2> QED  BY <1>1, <2>2, <2>3, StillKeepsEInv
<1>3. CASE LoseUp(c)
  <2>1. toServer[c] # <<>> /\ toServer' = Consume(c) /\ UNCHANGED toClient
    BY <1>3 DEF LoseUp
  <2>2. Calm(toClient')
    BY <2>1, CalmSame
  <2> QED  BY <1>1, <2>1, <2>2, ConsumeBehind, StillKeepsEInv
<1> QED  BY <1>2, <1>3 DEF Fault

LEMMA ExitKeepsEInv ==
  ASSUME IInv, EInv, Exits
  PROVE  EInv'
<1>1. /\ UNCHANGED <<state, staled, fresh, idle, evalRound, evalFrom, merged, neighbors, toServer>>
      /\ toClient' = Deliver(toClient, neighbors, Msg("finish", state))
      /\ state > TotalRounds
  BY DEF Exits, ExitLoop, Terminate, roundVars, joinVars, evalVars
<1>2. Msg("finish", state) \in DownMsg /\ Msg("finish", state).type \notin Work
  BY DEF Msg, DownMsg, Work, IInv, TypeOK, STypeOK
<1>3. Calm(toClient')
  BY <1>1, <1>2, CalmSame, CalmDeliver
<1>4. \A d \in Clients : toServer'[d] \in Seq(UpMsg) /\ Behind(toServer'[d], toServer[d], Answers)
  BY <1>1, ChannelsTyped, BehindSame
<1> QED  BY <1>1, <1>3, <1>4, StillKeepsEInv

-----------------------------------------------------------------------------
(* The theorem.                                                            *)

LEMMA InitEInv ==
  ASSUME Init
  PROVE  EInv
<1>1. \A c \in Clients : DOMAIN toClient[c] = {} /\ DOMAIN toServer[c] = {}
  BY DEF Init, NetInit
<1>2. \A c \in Clients : EvalsFirst(toClient[c], toServer[c], state - 1)
  BY <1>1 DEF EvalsFirst
<1>3. state = 0 /\ ~(state > TotalRounds) /\ state # TotalRounds /\ -1 < state
  BY NetworkAssumption DEF Init, SInit
<1> QED  BY <1>2, <1>3, NetworkAssumption DEF Init, SInit, EInv

LEMMA NextKeepsEInv ==
  ASSUME FullCohort, IInv, CInv, JInv, DInv, Waiting, EInv, [Next]_vars
  PROVE  EInv'
<1>1. ASSUME NEW c \in Clients, Reads(c)
      PROVE  EInv'
  <2>1. CASE HandleJoinIn(c) \/ HandleJoinInInfo(c)
    <3>1. /\ toServer[c] # <<>> /\ toServer' = Consume(c) /\ UNCHANGED <<roundVars, evalVars>>
          /\ Listening
          /\ \E a : Asking(a) /\ Starts(a)
      BY <2>1, JoinInStarts, JoinInInfoStarts DEF HandleJoinIn, HandleJoinInInfo, Arrived
    <3> QED  BY <3>1, StartKeepsEInv
  <2>2. CASE HandleModelPara(c)
    BY <2>2, UpdateKeepsEInv
  <2>3. CASE HandleMetrics(c)
    BY <2>3, MetricsKeepEInv
  <2> QED  BY <1>1, <2>1, <2>2, <2>3 DEF Reads, ReadFrom
<1>2. ~Alarm
  BY ServerAssumption DEF Alarm, TimeUp, FullCohort
<1>3. CASE UNCHANGED vars
  BY <1>3 DEF vars, netVars, sVars, roundVars, joinVars, evalVars, EInv
<1> QED
  BY <1>1, <1>2, <1>3, ClientKeepsEInv, FaultKeepsEInv, ExitKeepsEInv DEF Next, Ended

\* When every round trains everybody and everybody evaluates, a course that was not
\* stopped early ends with the evaluation of its last model by every worker: an answer
\* is never filed under another round than that of the model just evaluated, and the
\* last evaluation is not closed by the answers to an earlier one. It does so whatever
\* is lost and whoever dies, for then it does not end.
THEOREM EvaluationIsFinal ==
  ASSUME FullCohort
  PROVE  Spec => []FinalEvalComplete
<1>1. Init => EInv
  BY InitEInv
<1>2. IInv /\ CInv /\ JInv /\ DInv /\ Waiting /\ EInv /\ [Next]_vars => EInv'
  BY NextKeepsEInv
<1>3. EInv => FinalEvalComplete
  BY DEF EInv, FinalEvalComplete
<1>4. Spec => []Waiting
  BY StartsOnce, ServerAssumption DEF FullCohort
<1> QED
  BY <1>1, <1>2, <1>3, <1>4, InductiveInvariant, DatesAreRight, DeliveryIsOrderly, PTL
     DEF Spec
=============================================================================
