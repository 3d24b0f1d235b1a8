--------------------------- MODULE FedCourseProofs ---------------------------
(***************************************************************************)
(* Proofs about FedCourse, for every number of workers and rounds and every *)
(* mode of the server.                                                     *)
(*                                                                         *)
(* The argument of every step of the server is the same: starting from the *)
(* channels as they are, it appends messages that give no work and ask     *)
(* nothing (Quiet), and then at most one broadcast of the model (Sent).    *)
(***************************************************************************)
EXTENDS FedCourse, FiniteSetTheorems, SequenceTheorems, TLAPS

Inboxes  == [Clients -> Seq(DownMsg)]
Outboxes == [Clients -> Seq(UpMsg)]

\* The messages whose presence in a channel the invariants speak about.
Notable == {"model_para", "ask_for_join_in_info"}

\* Inbox b holds no notable message that inbox a does not hold, at the same place.
Quiet(a, b) ==
  /\ b \in Inboxes
  /\ \A c \in Clients : \A i \in DOMAIN b[c] :
       b[c][i].type \in Notable => i \in DOMAIN a[c] /\ a[c][i] = b[c][i]

Pcs == {"listening", "done", "sampler_error", "missing_buffer"}

\* After a step that made the sampler's idle workers those in free and added
\* quiet messages to inbox a, at most one model was sent to each idle worker,
\* and who got one is not idle any more.
Sent(a, free) ==
  /\ toClient' \in Inboxes
  /\ idle' \subseteq Clients
  /\ pc' \in Pcs
  /\ \A c \in Clients : c \notin free \cup Unseen => c \notin idle'
  /\ \A c \in Clients : \A i \in DOMAIN toClient'[c] :
       toClient'[c][i].type \in Notable =>
         \/ i \in DOMAIN a[c] /\ a[c][i] = toClient'[c][i]
         \/ /\ toClient'[c][i].type = "model_para"
            /\ i = Len(toClient'[c])
            /\ c \in free \ Unseen
            /\ c \notin idle'

-----------------------------------------------------------------------------
(* Channels.                                                               *)

\* What appending a message does to the positions of a channel.
LEMMA AppendPositions ==
  ASSUME NEW S, NEW s \in Seq(S), NEW m \in S
  PROVE  /\ Append(s, m) \in Seq(S)
         /\ DOMAIN Append(s, m) = DOMAIN s \cup {Len(s) + 1}
         /\ Len(Append(s, m)) = Len(s) + 1
         /\ Len(s) + 1 \notin DOMAIN s
         /\ \A i \in DOMAIN s : Append(s, m)[i] = s[i]
         /\ Append(s, m)[Len(s) + 1] = m
  OBVIOUS

\* What reading the first message does to them.
LEMMA TailPositions ==
  ASSUME NEW S, NEW s \in Seq(S), s # <<>>
  PROVE  /\ Head(s) \in S
         /\ Tail(s) \in Seq(S)
         /\ 1 \in DOMAIN s
         /\ Head(s) = s[1]
         /\ \A i \in DOMAIN Tail(s) : i + 1 \in DOMAIN s /\ Tail(s)[i] = s[i + 1] /\ i + 1 # 1
         /\ DOMAIN Tail(s) \subseteq Nat
  OBVIOUS

LEMMA QuietSame ==
  ASSUME NEW a \in Inboxes
  PROVE  Quiet(a, a)
  BY DEF Quiet

\* Sending a message that is not notable is quiet.
LEMMA QuietDeliver ==
  ASSUME NEW a, NEW b, Quiet(a, b), NEW S, NEW m \in DownMsg, m.type \notin Notable
  PROVE  Quiet(a, Deliver(b, S, m))
<1>1. \A c \in Clients : b[c] \in Seq(DownMsg)
  BY DEF Quiet, Inboxes
<1>2. Deliver(b, S, m) \in Inboxes
  BY <1>1, AppendPositions DEF Deliver, Inboxes
<1>3. ASSUME NEW c \in Clients, NEW i \in DOMAIN Deliver(b, S, m)[c],
             Deliver(b, S, m)[c][i].type \in Notable
      PROVE  i \in DOMAIN a[c] /\ a[c][i] = Deliver(b, S, m)[c][i]
  <2>1. Deliver(b, S, m)[c] \in {b[c], Append(b[c], m)}
    BY DEF Deliver
  <2>2. i \in DOMAIN b[c] /\ Deliver(b, S, m)[c][i] = b[c][i]
    BY <1>1, <1>3, <2>1, AppendPositions
  <2> QED
    BY <1>3, <2>2 DEF Quiet
<1> QED
  BY <1>2, <1>3 DEF Quiet

\* A broadcast of the model after quiet messages.
LEMMA BroadcastSent ==
  ASSUME NEW a, NEW b, Quiet(a, b), pc \in Pcs,
         NEW free \in SUBSET Clients, NEW size, NEW round \in Rounds,
         BroadcastModelPara(b, free, size, round)
  PROVE  Sent(a, free)
<1> DEFINE m == Msg("model_para", Capped(round))
<1>1. m \in DownMsg /\ m.type = "model_para"
  BY NetworkAssumption DEF Msg, Capped, DownMsg, Rounds
<1>2. \A c \in Clients : b[c] \in Seq(DownMsg)
  BY DEF Quiet, Inboxes
<1>3. Unseen \subseteq Clients
  BY ServerAssumption
<1>4. CASE size > Cardinality(free \ Unseen)
  BY <1>4, <1>3 DEF BroadcastModelPara, Quiet, Sent, Pcs
<1>5. CASE ~(size > Cardinality(free \ Unseen))
  <2>1. PICK S \in Samples(free \ Unseen, size) :
          /\ idle' = (free \ S) \cup Unseen
          /\ toClient' = Deliver(b, S \cap neighbors', m)
          /\ pc' = pc
    BY <1>5 DEF BroadcastModelPara
  <2>2. S \subseteq free \ Unseen
    BY DEF Samples
  <2>3. \A c \in Clients : \/ toClient'[c] = b[c]
                           \/ c \in S /\ toClient'[c] = Append(b[c], m)
    BY <2>1 DEF Deliver
  <2>4. toClient' \in Inboxes
    <3>1. \A c \in Clients : toClient'[c] \in Seq(DownMsg)
      BY <1>1, <1>2, <2>3, AppendPositions
    <3>2. toClient' = [c \in Clients |-> toClient'[c]]
      BY <2>1 DEF Deliver
    <3> QED
      BY <3>1, <3>2 DEF Inboxes
  <2>5. ASSUME NEW c \in Clients, NEW i \in DOMAIN toClient'[c],
               toClient'[c][i].type \in Notable
        PROVE  \/ i \in DOMAIN a[c] /\ a[c][i] = toClient'[c][i]
               \/ /\ toClient'[c][i].type = "model_para"
                  /\ i = Len(toClient'[c])
                  /\ c \in free \ Unseen
                  /\ c \notin idle'
    <3>1. CASE toClient'[c] = b[c]
      BY <2>5, <3>1 DEF Quiet
    <3>2. CASE c \in S /\ toClient'[c] = Append(b[c], m)
      <4>1. c \in free \ Unseen /\ c \notin idle'
        BY <2>1, <2>2, <3>2
      <4>2. CASE i \in DOMAIN b[c]
        <5>1. toClient'[c][i] = b[c][i]
          BY <1>1, <1>2, <3>2, <4>2, AppendPositions
        <5> QED
          BY <2>5, <4>2, <5>1 DEF Quiet
      <4>3. CASE i \notin DOMAIN b[c]
        <5>1. i = Len(b[c]) + 1 /\ Len(toClient'[c]) = Len(b[c]) + 1 /\ toClient'[c][i] = m
          BY <1>1, <1>2, <2>5, <3>2, <4>3, AppendPositions
        <5> QED
          BY <1>1, <4>1, <5>1
      <4> QED
        BY <4>2, <4>3
    <3> QED
      BY <2>3, <3>1, <3>2
  <2> QED
    BY <1>3, <2>1, <2>2, <2>4, <2>5 DEF Sent
<1> QED
  BY <1>4, <1>5

\* No broadcast at all.
LEMMA NoBroadcastSent ==
  ASSUME NEW a, NEW b, Quiet(a, b), pc \in Pcs, NEW free \in SUBSET Clients,
         NoBroadcast(b, free)
  PROVE  Sent(a, free)
  BY DEF NoBroadcast, Sent, Quiet

-----------------------------------------------------------------------------
(* The server's decisions.                                                 *)

LEMMA VerdictsAreBooleans == Verdicts \subseteq BOOLEAN
  BY DEF Verdicts

\* Saving sends no work, and its round is one there is.
LEMMA CheckAndSaveQuiet ==
  ASSUME NEW a, NEW b, Quiet(a, b), NEW s \in Rounds, NEW stop \in BOOLEAN
  PROVE  /\ CheckAndSave(s, b, stop).state \in Rounds
         /\ Quiet(a, CheckAndSave(s, b, stop).inbox)
         /\ CheckAndSave(s, b, stop).finished \in BOOLEAN
<1> DEFINE s1     == IF stop THEN TotalRounds + 1 ELSE s
           warned == IF stop THEN Deliver(b, neighbors, Msg("converged", s)) ELSE b
<1>1. s1 \in Rounds
  BY NetworkAssumption DEF Rounds
<1>2. Quiet(a, warned)
  <2>1. Msg("converged", s) \in DownMsg /\ Msg("converged", s).type \notin Notable
    BY DEF Msg, DownMsg, Notable
  <2> QED
    BY <2>1, QuietDeliver
<1>3. Quiet(a, Deliver(warned, neighbors, Msg("finish", s1)))
  <2>1. Msg("finish", s1) \in DownMsg /\ Msg("finish", s1).type \notin Notable
    BY <1>1 DEF Msg, DownMsg, Notable
  <2> QED
    BY <1>2, <2>1, QuietDeliver
<1>4. /\ CheckAndSave(s, b, stop).state = IF s1 = TotalRounds THEN TotalRounds + 1 ELSE s1
      /\ CheckAndSave(s, b, stop).inbox \in
           {warned, Deliver(warned, neighbors, Msg("finish", s1))}
      /\ CheckAndSave(s, b, stop).finished \in BOOLEAN
  BY DEF CheckAndSave
<1> QED
  BY <1>1, <1>2, <1>3, <1>4, NetworkAssumption DEF Rounds

\* Neither does an evaluation.
LEMMA EvalQuiet ==
  ASSUME NEW a, NEW b, Quiet(a, b), NEW s \in Rounds \ {0}, NEW stop \in BOOLEAN
  PROVE  /\ Eval(s, b, stop).state \in Rounds
         /\ Quiet(a, Eval(s, b, stop).inbox)
         /\ Eval(s, b, stop).finished \in BOOLEAN
         /\ Eval(s, b, stop).state # 0
<1>1. CASE GlobalEval
  <2>1. CheckAndSave(s, b, stop).state # 0
    BY NetworkAssumption DEF CheckAndSave, Rounds
  <2> QED
    BY <1>1, <2>1, CheckAndSaveQuiet DEF Eval
<1>2. CASE ~GlobalEval
  <2>1. /\ Msg("evaluate", Capped(s - 1)) \in DownMsg
        /\ Msg("evaluate", Capped(s - 1)).type \notin Notable
    BY NetworkAssumption DEF Msg, Capped, DownMsg, Notable, Rounds
  <2>2. Quiet(a, EvaluateRequest(b, s))
    BY <2>1, QuietDeliver DEF EvaluateRequest
  <2> QED
    BY <1>2, <2>2 DEF Eval
<1> QED
  BY <1>1, <1>2

\* The training buffers, the counters and the round after the server looked at
\* its training buffer.
Kept ==
  /\ state' \in Rounds
  /\ fresh' \subseteq Clients
  /\ hasRound' \in BOOLEAN
  /\ staled' \subseteq (Rounds \X Clients)
  /\ dropout' \in Nat
  /\ isFinish' \in BOOLEAN
  /\ agg' \in [round : {-1} \cup Rounds, from : SUBSET (Rounds \X Clients), count : Nat]
  /\ restarts' \in Nat

\* What check_and_move_on is handed by its callers.
Handed(free, f, keyed, st, d) ==
  /\ free \subseteq Clients
  /\ f \subseteq Clients
  /\ keyed \in BOOLEAN
  /\ st \subseteq (Rounds \X Clients)
  /\ d \in Nat
  /\ toClient \in Inboxes
  /\ pc = "listening"
  /\ state \in 0 .. TotalRounds
  /\ isFinish \in BOOLEAN
  /\ agg \in [round : {-1} \cup Rounds, from : SUBSET (Rounds \X Clients), count : Nat]
  /\ restarts \in Nat

LEMMA WaitSent ==
  ASSUME NEW free, NEW f, NEW keyed, NEW st, NEW d, NEW extra,
         Handed(free, f, keyed, st, d),
         Wait(free, f, keyed, st, d, extra)
  PROVE  Kept /\ Sent(toClient, free)
<1>1. state \in Rounds
  BY NetworkAssumption DEF Handed, Rounds
<1>2. Kept
  BY <1>1 DEF Handed, Wait, Keep, Kept
<1>3. Quiet(toClient, toClient) /\ free \in SUBSET Clients /\ pc \in Pcs
  BY QuietSame DEF Handed, Pcs
<1>4. Sent(toClient, free)
  BY <1>1, <1>3, BroadcastSent, NoBroadcastSent DEF Wait
<1> QED
  BY <1>2, <1>4

LEMMA AggregateSent ==
  ASSUME NEW free, NEW f, NEW keyed, NEW st, NEW d, NEW extra,
         Handed(free, f, keyed, st, d),
         Aggregate(free, f, st, d, extra)
  PROVE  Kept /\ Sent(toClient, free)
<1> DEFINE s1  == state + 1
           due == s1 % EvalFreq = 0 /\ s1 # TotalRounds
           mid(stop) == IF due THEN Eval(s1, toClient, stop)
                        ELSE [state |-> s1, inbox |-> toClient, finished |-> FALSE]
<1>1. s1 \in Rounds \ {0} /\ state \in Rounds
  BY NetworkAssumption DEF Handed, Rounds
<1>2. Quiet(toClient, toClient) /\ free \in SUBSET Clients /\ pc \in Pcs
  BY QuietSame DEF Handed, Pcs
<1>3. PICK stop \in BOOLEAN :
        IF MoreRounds(mid(stop).state)
          THEN NextRound(mid(stop), free, f, st, d, extra)
          ELSE FinalEval(mid(stop), free, st, d, extra)
  BY VerdictsAreBooleans DEF Aggregate
<1>4. /\ mid(stop).state \in Rounds \ {0}
      /\ Quiet(toClient, mid(stop).inbox)
      /\ mid(stop).finished \in BOOLEAN
  <2>1. CASE due
    BY <1>1, <1>2, <2>1, EvalQuiet
  <2>2. CASE ~due
    BY <1>1, <1>2, <2>2
  <2> QED
    BY <2>1, <2>2
<1>5. /\ agg' \in [round : {-1} \cup Rounds, from : SUBSET (Rounds \X Clients), count : Nat]
      /\ restarts' \in Nat
  <2>1. {<<state, c>> : c \in f} \cup st \subseteq Rounds \X Clients
    BY <1>1 DEF Handed
  <2> QED
    BY <1>1, <2>1 DEF Aggregate, Handed
<1> HIDE DEF mid, s1, due
<1>6. CASE MoreRounds(mid(stop).state)
  <2>1. NextRound(mid(stop), free, f, st, d, extra)
    BY <1>3, <1>6
  <2>2. Kept
    BY <1>4, <1>5, <2>1 DEF NextRound, Kept, Handed
  <2>3. Sent(toClient, free)
    BY <1>2, <1>4, <2>1, BroadcastSent, NoBroadcastSent DEF NextRound
  <2> QED
    BY <2>2, <2>3
<1>7. CASE ~MoreRounds(mid(stop).state)
  <2>1. FinalEval(mid(stop), free, st, d, extra)
    BY <1>3, <1>7
  <2> DEFINE fin(v) == Eval(mid(stop).state, mid(stop).inbox, v)
  <2>2. PICK v \in BOOLEAN :
          /\ state' = fin(v).state
          /\ fresh' = {}
          /\ hasRound' = FALSE
          /\ staled' = st
          /\ dropout' = d
          /\ isFinish' = (isFinish \/ mid(stop).finished \/ fin(v).finished)
          /\ IF extra > 0 THEN BroadcastModelPara(fin(v).inbox, free, extra, fin(v).state)
                          ELSE NoBroadcast(fin(v).inbox, free)
    BY <2>1, VerdictsAreBooleans DEF FinalEval
  <2>3. /\ fin(v).state \in Rounds
        /\ Quiet(toClient, fin(v).inbox)
        /\ fin(v).finished \in BOOLEAN
    BY <1>4, EvalQuiet
  <2> HIDE DEF fin
  <2>4. Kept
    BY <1>4, <1>5, <2>2, <2>3 DEF Kept, Handed
  <2>5. Sent(toClient, free)
    BY <1>2, <2>2, <2>3, BroadcastSent, NoBroadcastSent
  <2> QED
    BY <2>4, <2>5
<1> QED
  BY <1>6, <1>7

\* Whatever the server finds in its training buffer, it leaves its state well
\* formed, and gives work to idle workers only.
LEMMA MoveOnSent ==
  ASSUME NEW free, NEW f, NEW keyed, NEW st, NEW d, NEW extra,
         Handed(free, f, keyed, st, d),
         CheckAndMoveOn(free, f, keyed, st, d, extra)
  PROVE  Kept /\ Sent(toClient, free)
<1>1. CASE Wait(free, f, keyed, st, d, extra)
  BY <1>1, WaitSent
<1>2. CASE Aggregate(free, f, st, d, extra)
  BY <1>2, AggregateSent
<1>3. CASE KeyError(free, f, st, d)
  <2>1. state \in Rounds
    BY NetworkAssumption DEF Handed, Rounds
  <2>2. Kept
    BY <1>3, <2>1 DEF KeyError, Keep, Kept, Handed
  <2>3. Sent(toClient, free)
    BY <1>3 DEF KeyError, Handed, Sent, Pcs
  <2> QED
    BY <2>2, <2>3
<1> QED
  BY <1>1, <1>2, <1>3 DEF CheckAndMoveOn, Handed

-----------------------------------------------------------------------------
(* The inductive invariant.                                                *)

\* The workers that were asked for their information, as far as it shows.
Asked ==
  joinInfo
    \cup {c \in Clients : \E i \in DOMAIN toClient[c] :
                            toClient[c][i].type = "ask_for_join_in_info"}
    \cup {c \in Clients : \E i \in DOMAIN toServer[c] :
                            toServer[c][i].type = "join_in_info"}

\* Each of them was counted when it joined, and there is none unless the server asks.
AskedHaveJoined ==
  /\ Cardinality(Asked) <= joinNum
  /\ ~JoinInfo => Asked = {}

\* Nobody works before everybody has joined.
WorkAfterJoining == \A c \in Clients : Busy(c) => AllJoined

\* A server that goes on has not failed too often.
FailuresAllowed == pc = "listening" => numFailure <= MaxFailure

IInv ==
  /\ TypeOK
  /\ AskedHaveJoined
  /\ WorkAfterJoining
  /\ FailuresAllowed
  /\ OneTaskPerClient

-----------------------------------------------------------------------------
(* What a step does to the channels.                                       *)

LEMMA ConsumePositions ==
  ASSUME TypeOK, NEW c \in Clients, toServer[c] # <<>>, toServer' = Consume(c)
  PROVE  /\ Head(toServer[c]) \in UpMsg
         /\ 1 \in DOMAIN toServer[c] /\ Head(toServer[c]) = toServer[c][1]
         /\ toServer' \in Outboxes
         /\ \A i \in DOMAIN toServer'[c] :
              /\ i \in Nat /\ i + 1 # 1
              /\ i + 1 \in DOMAIN toServer[c]
              /\ toServer'[c][i] = toServer[c][i + 1]
         /\ \A d \in Clients \ {c} : toServer'[d] = toServer[d]
<1>1. toServer \in [Clients -> Seq(UpMsg)]
  BY DEF TypeOK, NetTypeOK
<1>2. toServer[c] \in Seq(UpMsg)
  BY <1>1
<1>3. /\ Tail(toServer[c]) \in Seq(UpMsg)
      /\ DOMAIN Tail(toServer[c]) \subseteq Nat
      /\ \A i \in DOMAIN Tail(toServer[c]) :
           i + 1 \in DOMAIN toServer[c] /\ Tail(toServer[c])[i] = toServer[c][i + 1]
      /\ Head(toServer[c]) \in UpMsg
      /\ 1 \in DOMAIN toServer[c] /\ Head(toServer[c]) = toServer[c][1]
  BY <1>2, TailPositions
<1>4. /\ toServer' \in Outboxes
      /\ toServer'[c] = Tail(toServer[c])
      /\ \A d \in Clients \ {c} : toServer'[d] = toServer[d]
  BY <1>1, <1>3 DEF Consume, Outboxes
<1>5. \A i \in Nat : i + 1 # 1 <=> i # 0
  OBVIOUS
<1>6. 0 \notin DOMAIN Tail(toServer[c])
  BY <1>3
<1> QED
  BY <1>3, <1>4, <1>5, <1>6

LEMMA ReadPositions ==
  ASSUME TypeOK, NEW c \in Clients, toClient[c] # <<>>, Read(c)
  PROVE  /\ Head(toClient[c]) \in DownMsg
         /\ 1 \in DOMAIN toClient[c] /\ Head(toClient[c]) = toClient[c][1]
         /\ toClient' \in Inboxes
         /\ \A i \in DOMAIN toClient'[c] :
              /\ i \in Nat /\ i + 1 # 1
              /\ i + 1 \in DOMAIN toClient[c]
              /\ toClient'[c][i] = toClient[c][i + 1]
         /\ \A d \in Clients \ {c} : toClient'[d] = toClient[d]
<1>1. toClient \in [Clients -> Seq(DownMsg)]
  BY DEF TypeOK, NetTypeOK
<1>2. toClient[c] \in Seq(DownMsg)
  BY <1>1
<1>3. /\ Tail(toClient[c]) \in Seq(DownMsg)
      /\ DOMAIN Tail(toClient[c]) \subseteq Nat
      /\ \A i \in DOMAIN Tail(toClient[c]) :
           i + 1 \in DOMAIN toClient[c] /\ Tail(toClient[c])[i] = toClient[c][i + 1]
      /\ Head(toClient[c]) \in DownMsg
      /\ 1 \in DOMAIN toClient[c] /\ Head(toClient[c]) = toClient[c][1]
  BY <1>2, TailPositions
<1>4. /\ toClient' \in Inboxes
      /\ toClient'[c] = Tail(toClient[c])
      /\ \A d \in Clients \ {c} : toClient'[d] = toClient[d]
  BY <1>1, <1>3 DEF Read, Inboxes
<1>5. \A i \in Nat : i + 1 # 1 <=> i # 0
  OBVIOUS
<1>6. 0 \notin DOMAIN Tail(toClient[c])
  BY <1>2, <1>3
<1> QED
  BY <1>3, <1>4, <1>5, <1>6

LEMMA SendPositions ==
  ASSUME TypeOK, NEW c \in Clients, NEW m \in UpMsg, Send(c, m)
  PROVE  /\ toServer' \in Outboxes
         /\ \A i \in DOMAIN toServer'[c] :
              \/ i \in DOMAIN toServer[c] /\ toServer'[c][i] = toServer[c][i]
              \/ i = Len(toServer[c]) + 1 /\ toServer'[c][i] = m
         /\ \A d \in Clients \ {c} : toServer'[d] = toServer[d]
<1>1. toServer \in [Clients -> Seq(UpMsg)]
  BY DEF TypeOK, NetTypeOK
<1>2. toServer[c] \in Seq(UpMsg)
  BY <1>1
<1>3. /\ Append(toServer[c], m) \in Seq(UpMsg)
      /\ DOMAIN Append(toServer[c], m) = DOMAIN toServer[c] \cup {Len(toServer[c]) + 1}
      /\ \A i \in DOMAIN toServer[c] : Append(toServer[c], m)[i] = toServer[c][i]
      /\ Append(toServer[c], m)[Len(toServer[c]) + 1] = m
  BY <1>2, AppendPositions
<1>4. /\ toServer' \in Outboxes
      /\ toServer'[c] = Append(toServer[c], m)
      /\ \A d \in Clients \ {c} : toServer'[d] = toServer[d]
  BY <1>1, <1>3 DEF Send, Outboxes
<1> QED
  BY <1>3, <1>4

-----------------------------------------------------------------------------
(* One task per worker.                                                    *)

\* With the models in inbox a, the updates that are left and the idle workers
\* free, no worker has two tasks and none that is free or unseen has one.
TasksOf(a, free) ==
  \A c \in Clients :
    LET models  == {i \in DOMAIN a[c] : a[c][i].type = "model_para"}
        updates == {i \in DOMAIN toServer'[c] : toServer'[c][i].type = "model_para"}
    IN  /\ \A i, j \in models  : i = j
        /\ \A i, j \in updates : i = j
        /\ models = {} \/ updates = {}
        /\ models # {} \/ updates # {} => c \notin free \cup Unseen

\* A broadcast to idle workers only gives no worker a second task.
LEMMA SentKeepsOneTask ==
  ASSUME NEW a, NEW free, TasksOf(a, free), Sent(a, free)
  PROVE  OneTaskPerClient'
<1> SUFFICES ASSUME NEW c \in Clients
             PROVE  /\ \A i, j \in Models(c)'  : i = j
                    /\ \A i, j \in Updates(c)' : i = j
                    /\ Models(c)' = {} \/ Updates(c)' = {}
                    /\ Busy(c)' => c \notin idle' \cup Unseen
  BY DEF OneTaskPerClient
<1> DEFINE models  == {i \in DOMAIN a[c] : a[c][i].type = "model_para"}
           updates == {i \in DOMAIN toServer'[c] : toServer'[c][i].type = "model_para"}
<1>1. /\ \A i, j \in models  : i = j
      /\ \A i, j \in updates : i = j
      /\ models = {} \/ updates = {}
      /\ models # {} \/ updates # {} => c \notin free \cup Unseen
  BY DEF TasksOf
<1>2. Updates(c)' = updates
  BY DEF Updates
<1>3. \A i \in Models(c)' :
        \/ i \in models
        \/ i = Len(toClient'[c]) /\ c \in free \ Unseen /\ c \notin idle'
  BY DEF Models, Sent, Notable
<1>4. c \notin free \cup Unseen => c \notin idle'
  BY DEF Sent
<1> HIDE DEF models, updates
<1>5. CASE c \in free \cup Unseen
  <2>1. models = {} /\ updates = {}
    BY <1>1, <1>5
  <2>2. \A i \in Models(c)' : i = Len(toClient'[c]) /\ c \notin idle' \cup Unseen
    BY <1>3, <2>1
  <2> QED
    BY <1>2, <2>1, <2>2 DEF Busy
<1>6. CASE c \notin free \cup Unseen
  <2>1. \A i \in Models(c)' : i \in models
    BY <1>3, <1>6
  <2> QED
    BY <1>1, <1>2, <1>4, <1>6, <2>1 DEF Busy
<1> QED
  BY <1>5, <1>6

\* Reading a message leaves the tasks as they were, and if it is an update its
\* worker has none left.
LEMMA ConsumeTasks ==
  ASSUME IInv, NEW c \in Clients, toServer[c] # <<>>, toServer' = Consume(c)
  PROVE  /\ TasksOf(toClient, idle)
         /\ Arrived(c, "model_para") => TasksOf(toClient, idle \cup {c})
<1>1. \A d \in Clients :
        /\ \A i, j \in Models(d)  : i = j
        /\ \A i, j \in Updates(d) : i = j
        /\ Models(d) = {} \/ Updates(d) = {}
        /\ Busy(d) => d \notin idle \cup Unseen
  BY DEF IInv, OneTaskPerClient
<1>2. \A i \in DOMAIN toServer'[c] :
        toServer'[c][i].type = "model_para"
          => i \in Nat /\ i + 1 \in Updates(c) /\ i + 1 # 1
  BY ConsumePositions DEF IInv, Updates
<1>3. \A d \in Clients \ {c} : toServer'[d] = toServer[d]
  BY ConsumePositions DEF IInv
<1>4. TasksOf(toClient, idle)
  <2> SUFFICES ASSUME NEW d \in Clients
               PROVE  LET updates == {i \in DOMAIN toServer'[d] :
                                        toServer'[d][i].type = "model_para"}
                      IN  /\ \A i, j \in Models(d)  : i = j
                          /\ \A i, j \in updates : i = j
                          /\ Models(d) = {} \/ updates = {}
                          /\ Models(d) # {} \/ updates # {} => d \notin idle \cup Unseen
    BY DEF TasksOf, Models
  <2> DEFINE updates == {i \in DOMAIN toServer'[d] : toServer'[d][i].type = "model_para"}
  <2>1. CASE d = c
    <3>1. \A i \in updates : i \in Nat /\ i + 1 \in Updates(c)
      BY <1>2, <2>1
    <3>2. \A i, j \in updates : i = j
      BY <1>1, <3>1
    <3> QED
      BY <1>1, <2>1, <3>1, <3>2 DEF Busy
  <2>2. CASE d # c
    <3>1. updates = Updates(d)
      BY <1>3, <2>2 DEF Updates
    <3> QED
      BY <1>1, <3>1 DEF Busy
  <2> QED
    BY <2>1, <2>2
<1>5. ASSUME Arrived(c, "model_para")
      PROVE  TasksOf(toClient, idle \cup {c})
  <2>1. 1 \in Updates(c)
    BY <1>5, ConsumePositions DEF Arrived, Updates, IInv
  <2>2. Models(c) = {} /\ c \notin Unseen
    BY <1>1, <2>1 DEF Busy
  <2>3. {i \in DOMAIN toServer'[c] : toServer'[c][i].type = "model_para"} = {}
    BY <1>1, <1>2, <2>1
  <2> QED
    BY <1>4, <2>2, <2>3 DEF TasksOf, Models
<1> QED
  BY <1>4, <1>5

-----------------------------------------------------------------------------
(* Who was asked.                                                          *)

LEMMA AskedFinite ==
  ASSUME TypeOK
  PROVE  Asked \subseteq Clients /\ IsFiniteSet(Asked)
<1>1. Asked \subseteq Clients
  BY DEF Asked, TypeOK, STypeOK
<1> QED
  BY <1>1, NetworkAssumption, FS_Subset

LEMMA AskedStays ==
  ASSUME IInv, Asked' \subseteq Asked, joinNum' = joinNum
  PROVE  AskedHaveJoined'
<1>1. IsFiniteSet(Asked)
  BY AskedFinite DEF IInv
<1>2. Asked' \in SUBSET Asked
  OBVIOUS
<1>3. IsFiniteSet(Asked') /\ Cardinality(Asked') <= Cardinality(Asked)
  BY <1>1, <1>2, FS_Subset
<1>4. Cardinality(Asked) \in Nat /\ Cardinality(Asked') \in Nat /\ joinNum \in Nat
  BY <1>1, <1>3, FS_CardinalityType DEF IInv, TypeOK, STypeOK
<1> QED
  BY <1>3, <1>4 DEF IInv, AskedHaveJoined

LEMMA AskedCounted ==
  ASSUME IInv, NEW c, Asked' \subseteq Asked \cup {c}, joinNum' = joinNum + 1,
         JoinInfo \/ Asked' \subseteq Asked
  PROVE  AskedHaveJoined'
<1>1. IsFiniteSet(Asked)
  BY AskedFinite DEF IInv
<1>2. /\ IsFiniteSet(Asked \cup {c})
      /\ Cardinality(Asked \cup {c}) =
           IF c \in Asked THEN Cardinality(Asked) ELSE Cardinality(Asked) + 1
  BY <1>1, FS_AddElement
<1>3. Asked' \in SUBSET (Asked \cup {c})
  OBVIOUS
<1>4. IsFiniteSet(Asked') /\ Cardinality(Asked') <= Cardinality(Asked \cup {c})
  BY <1>2, <1>3, FS_Subset
<1>5. Cardinality(Asked) \in Nat /\ Cardinality(Asked') \in Nat /\ joinNum \in Nat
  BY <1>1, <1>4, FS_CardinalityType DEF IInv, TypeOK, STypeOK
<1> QED
  BY <1>2, <1>4, <1>5 DEF IInv, AskedHaveJoined

\* Nothing was uploaded: every message on its way to the server was so before.
NoNewUpload ==
  \A d \in Clients : \A i \in DOMAIN toServer'[d] :
    \E j \in DOMAIN toServer[d] : toServer'[d][i] = toServer[d][j]

LEMMA ConsumeUploadsNothing ==
  ASSUME TypeOK, NEW c \in Clients, toServer[c] # <<>>, toServer' = Consume(c)
  PROVE  NoNewUpload
<1> SUFFICES ASSUME NEW d \in Clients, NEW i \in DOMAIN toServer'[d]
             PROVE  \E j \in DOMAIN toServer[d] : toServer'[d][i] = toServer[d][j]
  BY DEF NoNewUpload
<1>1. CASE d = c
  <2>1. i + 1 \in DOMAIN toServer[d] /\ toServer'[d][i] = toServer[d][i + 1]
    BY <1>1, ConsumePositions
  <2> QED
    BY <2>1
<1>2. CASE d # c
  BY <1>2, ConsumePositions
<1> QED
  BY <1>1, <1>2

\* The server's broadcasts ask nobody who was not asked.
LEMMA SentAsksNobody ==
  ASSUME NEW free, Sent(toClient, free), NoNewUpload, joinInfo' \subseteq Asked
  PROVE  Asked' \subseteq Asked
<1> SUFFICES ASSUME NEW c \in Asked' PROVE c \in Asked
  OBVIOUS
<1>1. CASE c \in joinInfo'
  BY <1>1
<1>2. CASE c \in Clients /\ \E i \in DOMAIN toClient'[c] :
             toClient'[c][i].type = "ask_for_join_in_info"
  <2>1. PICK i \in DOMAIN toClient'[c] : toClient'[c][i].type = "ask_for_join_in_info"
    BY <1>2
  <2>2. i \in DOMAIN toClient[c] /\ toClient[c][i] = toClient'[c][i]
    BY <1>2, <2>1 DEF Sent, Notable
  <2> QED
    BY <1>2, <2>1, <2>2 DEF Asked
<1>3. CASE c \in Clients /\ \E i \in DOMAIN toServer'[c] :
             toServer'[c][i].type = "join_in_info"
  <2>1. PICK i \in DOMAIN toServer'[c] : toServer'[c][i].type = "join_in_info"
    BY <1>3
  <2>2. PICK j \in DOMAIN toServer[c] : toServer'[c][i] = toServer[c][j]
    BY <1>3, <2>1 DEF NoNewUpload
  <2> QED
    BY <1>3, <2>1, <2>2 DEF Asked
<1> QED
  BY <1>1, <1>2, <1>3 DEF Asked

-----------------------------------------------------------------------------
(* Every step keeps the invariant.                                         *)

\* The server looks at its training buffer: an update arrived.
LEMMA ModelParaKeepsIInv ==
  ASSUME IInv, NEW c \in Clients, HandleModelPara(c), UNCHANGED <<cVars, proc, faults>>
  PROVE  IInv'
<1>1. /\ TypeOK /\ Listening /\ Arrived(c, "model_para") /\ toServer[c] # <<>>
      /\ toServer' = Consume(c)
      /\ UNCHANGED <<joinVars, evalVars, numFailure>>
  BY DEF IInv, HandleModelPara, Arrived
<1>2. Busy(c)
  BY <1>1, ConsumePositions DEF Arrived, Busy, Updates
<1>3. AllJoined /\ state \in 0 .. TotalRounds /\ pc = "listening"
  BY <1>1, <1>2, NetworkAssumption
     DEF IInv, WorkAfterJoining, Listening, TypeOK, STypeOK, Rounds
<1>4. PICK free \in {idle, idle \cup {c}} :
        /\ Kept
        /\ Sent(toClient, free)
        /\ TasksOf(toClient, free)
  <2>1. CASE isFinish
    <3>1. Kept
      BY <1>1, <2>1 DEF HandleModelPara, Kept, roundVars, TypeOK, STypeOK
    <3>2. Sent(toClient, idle)
      BY <1>1, <1>3, <2>1 DEF HandleModelPara, Sent, Pcs, Inboxes, TypeOK, STypeOK, NetTypeOK
    <3> QED
      BY <1>1, <3>1, <3>2, ConsumeTasks
  <2>2. CASE ~isFinish
    <3> DEFINE r     == Head(toServer[c]).round
               now   == r = state
               late  == ~now /\ Tolerated(r)
               f     == IF now THEN fresh \cup {c} ELSE fresh
               keyed == hasRound \/ now
               st    == IF late THEN staled \cup {<<r, c>>} ELSE staled
               d     == IF now \/ late THEN dropout ELSE dropout + 1
               extra == IF AfterReceiving THEN 1 ELSE 0
    <3>1. CheckAndMoveOn(idle \cup {c}, f, keyed, st, d, extra)
      BY <2>2 DEF HandleModelPara
    <3>2. r \in Rounds
      BY <1>1, ConsumePositions DEF UpMsg
    <3>3. Handed(idle \cup {c}, f, keyed, st, d)
      BY <1>1, <1>3, <3>2 DEF Handed, TypeOK, STypeOK, NetTypeOK, Inboxes
    <3> HIDE DEF r, now, late, f, keyed, st, d, extra
    <3>4. Kept /\ Sent(toClient, idle \cup {c})
      BY <3>1, <3>3, MoveOnSent
    <3> QED
      BY <1>1, <3>4, ConsumeTasks
  <2> QED
    BY <2>1, <2>2
<1>5. TypeOK'
  <2>1. NetTypeOK'
    BY <1>1, <1>4, ConsumePositions DEF NetTypeOK, Sent, Inboxes, Outboxes, TypeOK
  <2>2. STypeOK'
    BY <1>1, <1>4 DEF STypeOK, Kept, Sent, Pcs, TypeOK, joinVars, evalVars
  <2> QED
    BY <1>1, <2>1, <2>2 DEF TypeOK, CTypeOK, cVars
<1>6. AskedHaveJoined'
  <2>1. joinInfo' \subseteq Asked /\ joinNum' = joinNum
    BY <1>1 DEF Asked, joinVars
  <2> QED
    BY <1>1, <1>4, <2>1, ConsumeUploadsNothing, SentAsksNobody, AskedStays
<1>7. WorkAfterJoining'
  BY <1>1, <1>3 DEF WorkAfterJoining, AllJoined, joinVars
<1>8. FailuresAllowed'
  BY <1>1, <1>3 DEF IInv, FailuresAllowed
<1>9. OneTaskPerClient'
  BY <1>4, SentKeepsOneTask
<1> QED
  BY <1>5, <1>6, <1>7, <1>8, <1>9 DEF IInv

\* Evaluation results arrived.
LEMMA MetricsKeepIInv ==
  ASSUME IInv, NEW c \in Clients, HandleMetrics(c), UNCHANGED <<cVars, proc, faults>>
  PROVE  IInv'
<1>1. /\ TypeOK /\ pc = "listening" /\ Arrived(c, "metrics") /\ toServer[c] # <<>>
      /\ toServer' = Consume(c)
      /\ UNCHANGED <<joinVars, idle, fresh, hasRound, staled, dropout, agg, pc,
                     numFailure, restarts>>
  BY DEF IInv, HandleMetrics, Arrived, Listening
<1> DEFINE r    == Head(toServer[c]).round
           from == CASE r > evalRound -> {c}
                     [] r = evalRound -> evalFrom \cup {c}
                     [] r < evalRound -> evalFrom
<1>2. r \in Rounds /\ r \in Int
  BY <1>1, ConsumePositions, NetworkAssumption DEF UpMsg, Rounds
<1>3. from \subseteq Clients /\ evalRound' \in {-1} \cup Rounds
  <2>1. /\ evalRound \in {-1} \cup Rounds /\ evalFrom \subseteq Clients
        /\ evalRound \in Int
    BY <1>1, NetworkAssumption DEF TypeOK, STypeOK, Rounds
  <2>2. evalRound' = IF r > evalRound THEN r ELSE evalRound
    BY DEF HandleMetrics
  <2>3. r > evalRound \/ r = evalRound \/ r < evalRound
    BY <1>2, <2>1
  <2>4. from \in {{c}, evalFrom \cup {c}, evalFrom}
    BY <2>3
  <2> HIDE DEF r, from
  <2> QED
    BY <1>2, <2>1, <2>2, <2>4
<1>4. Quiet(toClient, toClient)
  BY <1>1, QuietSame DEF Inboxes, TypeOK, NetTypeOK
<1>5. /\ state' \in Rounds
      /\ Quiet(toClient, toClient')
      /\ isFinish' \in BOOLEAN
      /\ evalFrom' \subseteq Clients
      /\ merged' \in [round : {-1} \cup Rounds, from : SUBSET Clients, stop : BOOLEAN]
  <2>1. CASE EvalQuorum(from)
    <3>1. PICK stop \in BOOLEAN :
            LET res == CheckAndSave(state, toClient, stop)
            IN  /\ state' = res.state
                /\ toClient' = res.inbox
                /\ isFinish' = (isFinish \/ res.finished)
                /\ evalFrom' = {}
                /\ merged' = [round |-> evalRound', from |-> from, stop |-> stop]
      BY <2>1, VerdictsAreBooleans DEF HandleMetrics
    <3>2. state \in Rounds
      BY <1>1 DEF TypeOK, STypeOK
    <3> HIDE DEF from
    <3> QED
      BY <1>1, <1>3, <1>4, <3>1, <3>2, CheckAndSaveQuiet DEF TypeOK, STypeOK
  <2>2. CASE ~EvalQuorum(from)
    <3>1. evalFrom' = from /\ UNCHANGED <<state, toClient, isFinish, merged>>
      BY <2>2 DEF HandleMetrics
    <3> HIDE DEF from
    <3> QED
      BY <1>1, <1>3, <1>4, <3>1 DEF TypeOK, STypeOK
  <2> QED
    BY <2>1, <2>2
<1>6. Sent(toClient, idle)
  BY <1>1, <1>5 DEF Quiet, Sent, Pcs, TypeOK, STypeOK
<1>7. TypeOK'
  <2>1. NetTypeOK'
    BY <1>1, <1>5, ConsumePositions DEF NetTypeOK, Quiet, Inboxes, Outboxes, TypeOK
  <2>2. STypeOK'
    BY <1>1, <1>3, <1>5 DEF STypeOK, TypeOK, joinVars
  <2> QED
    BY <1>1, <2>1, <2>2 DEF TypeOK, CTypeOK, cVars
<1>8. AskedHaveJoined'
  <2>1. joinInfo' \subseteq Asked /\ joinNum' = joinNum
    BY <1>1 DEF Asked, joinVars
  <2> QED
    BY <1>1, <1>6, <2>1, ConsumeUploadsNothing, SentAsksNobody, AskedStays
<1>9. WorkAfterJoining'
  <2> SUFFICES ASSUME NEW d \in Clients, Busy(d)' PROVE AllJoined
    BY <1>1 DEF WorkAfterJoining, AllJoined, joinVars
  <2>1. CASE Models(d)' # {}
    <3>1. Models(d) # {}
      BY <1>5, <2>1 DEF Models, Quiet, Notable
    <3> QED
      BY <3>1 DEF IInv, WorkAfterJoining, Busy
  <2>2. CASE Updates(d)' # {}
    <3>1. NoNewUpload
      BY <1>1, ConsumeUploadsNothing
    <3>2. Updates(d) # {}
      BY <2>2, <3>1 DEF Updates, NoNewUpload
    <3> QED
      BY <3>2 DEF IInv, WorkAfterJoining, Busy
  <2> QED
    BY <2>1, <2>2 DEF Busy
<1>10. FailuresAllowed'
  BY <1>1 DEF IInv, FailuresAllowed
<1>11. OneTaskPerClient'
  BY <1>1, <1>6, ConsumeTasks, SentKeepsOneTask
<1> QED
  BY <1>7, <1>8, <1>9, <1>10, <1>11 DEF IInv

\* The alarm went off.
LEMMA TimeUpKeepsIInv ==
  ASSUME IInv, TimeUp, UNCHANGED <<cVars, proc, faults>>
  PROVE  IInv'
<1>1. /\ TypeOK /\ pc = "listening" /\ AllJoined /\ state \in 0 .. TotalRounds
      /\ UNCHANGED <<joinVars, evalVars, toServer>>
  BY NetworkAssumption DEF IInv, TimeUp, Listening, TypeOK, STypeOK, Rounds
<1>2. toClient \in Inboxes /\ Quiet(toClient, toClient) /\ pc \in Pcs
  BY <1>1, QuietSame DEF Inboxes, TypeOK, NetTypeOK, Pcs
<1>3. numFailure \in 0 .. MaxFailure /\ MaxFailure \in Nat
  BY <1>1, ServerAssumption DEF IInv, FailuresAllowed, TypeOK, STypeOK
<1>4. /\ Kept
      /\ Sent(toClient, idle)
      /\ numFailure' \in 0 .. MaxFailure + 1
      /\ pc' = "listening" => numFailure' <= MaxFailure
  <2>1. CASE TrainQuorum(fresh, staled)
    <3>1. /\ numFailure' = IF hasRound THEN 0 ELSE numFailure
          /\ CheckAndMoveOn(idle, fresh, hasRound, staled, dropout, 0)
      BY <2>1 DEF TimeUp
    <3>2. Handed(idle, fresh, hasRound, staled, dropout)
      BY <1>1, <1>2 DEF Handed, TypeOK, STypeOK
    <3> QED
      BY <1>3, <3>1, <3>2, MoveOnSent
  <2>2. CASE ~TrainQuorum(fresh, staled) /\ numFailure + 1 > MaxFailure
    <3>1. numFailure' = numFailure + 1 /\ Terminate /\ UNCHANGED <<roundVars, idle, restarts>>
      BY <2>2 DEF TimeUp
    <3>2. /\ Msg("finish", state) \in DownMsg
          /\ Msg("finish", state).type \notin Notable
      BY <1>1 DEF Msg, DownMsg, Notable, TypeOK, STypeOK
    <3>3. Quiet(toClient, toClient')
      BY <1>2, <3>1, <3>2, QuietDeliver DEF Terminate
    <3>4. Sent(toClient, idle)
      BY <1>1, <3>1, <3>3 DEF Quiet, Sent, Pcs, Terminate, TypeOK, STypeOK
    <3>5. Kept
      BY <1>1, <3>1 DEF Kept, Terminate, roundVars, TypeOK, STypeOK
    <3> QED
      BY <1>3, <3>1, <3>4, <3>5 DEF Terminate
  <2>3. CASE ~TrainQuorum(fresh, staled) /\ ~(numFailure + 1 > MaxFailure)
    <3>1. /\ numFailure' = numFailure + 1
          /\ fresh' = {}
          /\ restarts' = restarts + 1
          /\ BroadcastModelPara(toClient, idle, SampleNum, state)
          /\ UNCHANGED <<state, hasRound, staled, dropout, agg, isFinish>>
      BY <2>3 DEF TimeUp
    <3>2. Kept
      BY <1>1, <3>1 DEF Kept, TypeOK, STypeOK
    <3>3. idle \in SUBSET Clients /\ state \in Rounds
      BY <1>1 DEF TypeOK, STypeOK
    <3>4. Sent(toClient, idle)
      BY <1>2, <3>1, <3>3, BroadcastSent
    <3> QED
      BY <1>3, <2>3, <3>1, <3>2, <3>4
  <2> QED
    BY <2>1, <2>2, <2>3
<1>5. TypeOK'
  <2>1. NetTypeOK'
    BY <1>1, <1>4 DEF NetTypeOK, Sent, Inboxes, TypeOK
  <2>2. STypeOK'
    BY <1>1, <1>4 DEF STypeOK, Kept, Sent, Pcs, TypeOK, joinVars, evalVars
  <2> QED
    BY <1>1, <2>1, <2>2 DEF TypeOK, CTypeOK, cVars
<1>6. AskedHaveJoined'
  <2>1. joinInfo' \subseteq Asked /\ joinNum' = joinNum /\ NoNewUpload
    BY <1>1 DEF Asked, joinVars, NoNewUpload
  <2> QED
    BY <1>4, <2>1, SentAsksNobody, AskedStays
<1>7. WorkAfterJoining'
  BY <1>1 DEF WorkAfterJoining, AllJoined, joinVars
<1>8. OneTaskPerClient'
  <2>1. TasksOf(toClient, idle)
    BY <1>1 DEF IInv, OneTaskPerClient, TasksOf, Models, Updates, Busy
  <2> QED
    BY <1>4, <2>1, SentKeepsOneTask
<1> QED
  BY <1>4, <1>5, <1>6, <1>7, <1>8 DEF IInv, FailuresAllowed

\* The server leaves its loop.
LEMMA ExitKeepsIInv ==
  ASSUME IInv, Exits
  PROVE  IInv'
<1>1. /\ TypeOK
      /\ Terminate
      /\ UNCHANGED <<roundVars, joinVars, evalVars, idle, numFailure, restarts,
                     toServer, cVars, proc, faults>>
  BY DEF IInv, Exits, ExitLoop
<1>2. Quiet(toClient, toClient')
  <2>1. /\ Msg("finish", state) \in DownMsg
        /\ Msg("finish", state).type \notin Notable
    BY <1>1 DEF Msg, DownMsg, Notable, TypeOK, STypeOK
  <2>2. Quiet(toClient, toClient)
    BY <1>1, QuietSame DEF Inboxes, TypeOK, NetTypeOK
  <2> QED
    BY <1>1, <2>1, <2>2, QuietDeliver DEF Terminate
<1>3. Sent(toClient, idle)
  BY <1>1, <1>2 DEF Quiet, Sent, Pcs, Terminate, TypeOK, STypeOK
<1>4. TypeOK'
  <2>1. NetTypeOK'
    BY <1>1, <1>2 DEF NetTypeOK, Quiet, Inboxes, TypeOK
  <2>2. STypeOK'
    BY <1>1 DEF STypeOK, Terminate, TypeOK, roundVars, joinVars, evalVars
  <2> QED
    BY <1>1, <2>1, <2>2 DEF TypeOK, CTypeOK, cVars
<1>5. AskedHaveJoined'
  <2>1. joinInfo' \subseteq Asked /\ joinNum' = joinNum /\ NoNewUpload
    BY <1>1 DEF Asked, joinVars, NoNewUpload
  <2> QED
    BY <1>3, <2>1, SentAsksNobody, AskedStays
<1>6. WorkAfterJoining'
  <2> SUFFICES ASSUME NEW d \in Clients, Busy(d)' PROVE Busy(d)
    BY <1>1 DEF IInv, WorkAfterJoining, AllJoined, joinVars
  <2>1. Models(d)' # {} => Models(d) # {}
    BY <1>2 DEF Models, Quiet, Notable
  <2>2. Updates(d)' = Updates(d)
    BY <1>1 DEF Updates
  <2> QED
    BY <2>1, <2>2 DEF Busy
<1>7. FailuresAllowed'
  BY <1>1 DEF FailuresAllowed, Terminate
<1>8. OneTaskPerClient'
  <2>1. TasksOf(toClient, idle)
    BY <1>1 DEF IInv, OneTaskPerClient, TasksOf, Models, Updates, Busy
  <2> QED
    BY <1>3, <2>1, SentKeepsOneTask
<1> QED
  BY <1>4, <1>5, <1>6, <1>7, <1>8 DEF IInv

\* Once everybody is known to the server, the first models are sent.
LEMMA TriggerSent ==
  ASSUME IInv, NEW a, a \in Inboxes, TriggerForStart(a)
  PROVE  Sent(a, idle)
<1>1. /\ Quiet(a, a) /\ pc \in Pcs /\ idle \in SUBSET Clients /\ state \in Rounds
  BY QuietSame DEF IInv, TypeOK, STypeOK, Pcs
<1> QED
  BY <1>1, BroadcastSent, NoBroadcastSent DEF TriggerForStart

\* If they are not sent, no channel holds a model that inbox a does not hold.
LEMMA TriggerEarly ==
  ASSUME IInv, NEW a, a \in Inboxes, TriggerForStart(a),
         IF JoinInfo THEN Cardinality(joinInfo') # Cardinality(Clients)
                     ELSE joinNum' # Cardinality(Clients)
  PROVE  toClient' = a
  BY DEF TriggerForStart, NoBroadcast

\* A worker registers.
LEMMA JoinInKeepsIInv ==
  ASSUME IInv, NEW c \in Clients, HandleJoinIn(c), UNCHANGED <<cVars, proc, faults>>
  PROVE  IInv'
<1> DEFINE ask == Msg("ask_for_join_in_info", state)
           a   == IF JoinInfo THEN Deliver(toClient, {c}, ask) ELSE toClient
<1>1. /\ TypeOK /\ pc = "listening" /\ toServer[c] # <<>>
      /\ toServer' = Consume(c)
      /\ joinNum' = joinNum + 1
      /\ neighbors' = neighbors \cup {c}
      /\ joinInfo' = joinInfo
      /\ TriggerForStart(a)
      /\ UNCHANGED <<roundVars, evalVars, isFinish, numFailure, restarts>>
  BY DEF IInv, HandleJoinIn, Arrived, Listening
<1>2. ask \in DownMsg /\ ask.type = "ask_for_join_in_info"
  BY <1>1 DEF Msg, DownMsg, TypeOK, STypeOK
<1>3. toClient \in Inboxes /\ \A d \in Clients : toClient[d] \in Seq(DownMsg)
  BY <1>1 DEF Inboxes, TypeOK, NetTypeOK
<1> HIDE DEF ask
<1>4. /\ a \in Inboxes
      /\ \A d \in Clients : \A i \in DOMAIN a[d] :
           \/ i \in DOMAIN toClient[d] /\ a[d][i] = toClient[d][i]
           \/ d = c /\ a[d][i] = ask
      /\ ~JoinInfo => a = toClient
  <2>0. ~JoinInfo => a = toClient
    OBVIOUS
  <2>1. \A d \in Clients : \/ a[d] = toClient[d]
                           \/ d = c /\ a[d] = Append(toClient[d], ask)
    BY DEF Deliver
  <2>2. a = [d \in Clients |-> a[d]]
    <3>1. CASE JoinInfo
      BY <3>1 DEF Deliver
    <3>2. CASE ~JoinInfo
      BY <1>3, <3>2 DEF Inboxes
    <3> QED
      BY <3>1, <3>2
  <2> HIDE DEF a
  <2>3. \A d \in Clients : Append(toClient[d], ask) \in Seq(DownMsg)
    BY <1>2, <1>3, AppendPositions
  <2>4. a \in Inboxes
    BY <1>3, <2>1, <2>2, <2>3 DEF Inboxes
  <2>5. ASSUME NEW d \in Clients, NEW i \in DOMAIN a[d]
        PROVE  \/ i \in DOMAIN toClient[d] /\ a[d][i] = toClient[d][i]
               \/ d = c /\ a[d][i] = ask
    BY <1>2, <1>3, <2>1, <2>5, AppendPositions
  <2> QED
    BY <2>0, <2>4, <2>5
<1> HIDE DEF a
<1>5. Sent(a, idle)
  BY <1>1, <1>4, TriggerSent
<1>6. NoNewUpload
  BY <1>1, ConsumeUploadsNothing
<1>7. TypeOK'
  <2>1. NetTypeOK'
    BY <1>1, <1>5, ConsumePositions DEF NetTypeOK, Sent, Inboxes, Outboxes, TypeOK
  <2>2. STypeOK'
    BY <1>1, <1>5 DEF STypeOK, Sent, Pcs, TypeOK, roundVars, evalVars
  <2> QED
    BY <1>1, <2>1, <2>2 DEF TypeOK, CTypeOK, cVars
<1>8. AskedHaveJoined'
  <2>0. JoinInfo \/ Asked' \subseteq Asked
    <3>1. joinInfo' \subseteq Asked
      BY <1>1 DEF Asked
    <3> QED
      BY <1>4, <1>5, <1>6, <3>1, SentAsksNobody
  <2> SUFFICES ASSUME NEW d \in Asked' PROVE d \in Asked \cup {c}
    BY <1>1, <2>0, AskedCounted
  <2>1. CASE d \in joinInfo'
    BY <1>1, <2>1 DEF Asked
  <2>2. CASE d \in Clients /\ \E i \in DOMAIN toClient'[d] :
               toClient'[d][i].type = "ask_for_join_in_info"
    <3>1. PICK i \in DOMAIN toClient'[d] : toClient'[d][i].type = "ask_for_join_in_info"
      BY <2>2
    <3>2. i \in DOMAIN a[d] /\ a[d][i] = toClient'[d][i]
      BY <1>5, <2>2, <3>1 DEF Sent, Notable
    <3> QED
      BY <1>4, <2>2, <3>1, <3>2 DEF Asked
  <2>3. CASE d \in Clients /\ \E i \in DOMAIN toServer'[d] :
               toServer'[d][i].type = "join_in_info"
    <3>1. PICK i \in DOMAIN toServer'[d] : toServer'[d][i].type = "join_in_info"
      BY <2>3
    <3>2. PICK j \in DOMAIN toServer[d] : toServer'[d][i] = toServer[d][j]
      BY <1>6, <2>3, <3>1 DEF NoNewUpload
    <3> QED
      BY <2>3, <3>1, <3>2 DEF Asked
  <2> QED
    BY <2>1, <2>2, <2>3 DEF Asked
<1>9. WorkAfterJoining'
  <2>1. Cardinality(Clients) \in Nat /\ joinNum \in Nat
    BY <1>1, NetworkAssumption, FS_CardinalityType DEF TypeOK, STypeOK
  <2>2. CASE joinNum + 1 >= Cardinality(Clients)
    BY <1>1, <2>2 DEF WorkAfterJoining, AllJoined
  <2>3. CASE ~(joinNum + 1 >= Cardinality(Clients))
    <3>1. ~AllJoined
      BY <2>1, <2>3 DEF AllJoined
    <3>2. \A d \in Clients : Models(d) = {} /\ Updates(d) = {}
      BY <3>1 DEF IInv, WorkAfterJoining, Busy
    <3>3. \A d \in Clients : Updates(d)' = {}
      BY <1>6, <3>2 DEF Updates, NoNewUpload
    <3>4. toClient' = a
      <4>1. joinInfo \subseteq Asked
        BY DEF Asked
      <4>2. Cardinality(joinInfo) <= Cardinality(Asked) /\ IsFiniteSet(joinInfo)
        BY <1>1, <4>1, AskedFinite, FS_Subset
      <4>3. Cardinality(joinInfo) \in Nat /\ Cardinality(Asked) \in Nat
        BY <1>1, <4>2, AskedFinite, FS_CardinalityType
      <4>4. Cardinality(joinInfo') # Cardinality(Clients)
        BY <1>1, <2>1, <2>3, <4>2, <4>3 DEF IInv, AskedHaveJoined
      <4> QED
        BY <1>1, <1>4, <2>1, <2>3, <4>4, TriggerEarly
    <3>5. \A d \in Clients : Models(d)' = {}
      BY <1>2, <1>4, <3>2, <3>4 DEF Models
    <3> QED
      BY <3>3, <3>5 DEF WorkAfterJoining, Busy
  <2> QED
    BY <2>2, <2>3
<1>10. FailuresAllowed'
  BY <1>1 DEF IInv, FailuresAllowed
<1>11. OneTaskPerClient'
  <2>1. TasksOf(toClient, idle)
    BY <1>1, ConsumeTasks
  <2>2. \A d \in Clients : \A i \in DOMAIN a[d] :
          a[d][i].type = "model_para"
            => i \in DOMAIN toClient[d] /\ toClient[d][i].type = "model_para"
    BY <1>2, <1>4
  <2>3. TasksOf(a, idle)
    BY <2>1, <2>2 DEF TasksOf
  <2> QED
    BY <1>5, <2>3, SentKeepsOneTask
<1> QED
  BY <1>7, <1>8, <1>9, <1>10, <1>11 DEF IInv

\* A worker sent its information.
LEMMA JoinInInfoKeepsIInv ==
  ASSUME IInv, NEW c \in Clients, HandleJoinInInfo(c), UNCHANGED <<cVars, proc, faults>>
  PROVE  IInv'
<1>1. /\ TypeOK /\ pc = "listening" /\ toServer[c] # <<>>
      /\ Arrived(c, "join_in_info")
      /\ toServer' = Consume(c)
      /\ joinInfo' = joinInfo \cup {c}
      /\ UNCHANGED <<joinNum, neighbors>>
      /\ TriggerForStart(toClient)
      /\ UNCHANGED <<roundVars, evalVars, isFinish, numFailure, restarts>>
  BY DEF IInv, HandleJoinInInfo, Arrived, Listening
<1>2. toClient \in Inboxes
  BY <1>1 DEF Inboxes, TypeOK, NetTypeOK
<1>3. Sent(toClient, idle)
  BY <1>1, <1>2, TriggerSent
<1>4. NoNewUpload
  BY <1>1, ConsumeUploadsNothing
<1>5. joinInfo' \subseteq Asked
  <2>1. 1 \in DOMAIN toServer[c] /\ toServer[c][1].type = "join_in_info"
    BY <1>1, ConsumePositions DEF Arrived
  <2> QED
    BY <1>1, <2>1 DEF Asked
<1>6. TypeOK'
  <2>1. NetTypeOK'
    BY <1>1, <1>3, ConsumePositions DEF NetTypeOK, Sent, Inboxes, Outboxes, TypeOK
  <2>2. STypeOK'
    BY <1>1, <1>3 DEF STypeOK, Sent, Pcs, TypeOK, roundVars, evalVars
  <2> QED
    BY <1>1, <2>1, <2>2 DEF TypeOK, CTypeOK, cVars
<1>7. AskedHaveJoined'
  BY <1>1, <1>3, <1>4, <1>5, SentAsksNobody, AskedStays
<1>8. WorkAfterJoining'
  <2>1. CASE AllJoined
    BY <1>1, <2>1 DEF WorkAfterJoining, AllJoined
  <2>2. CASE ~AllJoined
    <3>1. Cardinality(Clients) \in Nat /\ joinNum \in Nat
      BY <1>1, NetworkAssumption, FS_CardinalityType DEF TypeOK, STypeOK
    <3>2. joinNum < Cardinality(Clients)
      BY <2>2, <3>1 DEF AllJoined
    <3>3. IsFiniteSet(joinInfo') /\ Cardinality(joinInfo') <= Cardinality(Asked)
      BY <1>1, <1>5, AskedFinite, FS_Subset
    <3>4. Cardinality(joinInfo') \in Nat /\ Cardinality(Asked) \in Nat
      BY <1>1, <3>3, AskedFinite, FS_CardinalityType
    <3>5. Cardinality(joinInfo') # Cardinality(Clients) /\ joinNum' # Cardinality(Clients)
      BY <1>1, <3>1, <3>2, <3>3, <3>4 DEF IInv, AskedHaveJoined
    <3>6. toClient' = toClient
      BY <1>1, <1>2, <3>5, TriggerEarly
    <3>7. \A d \in Clients : Busy(d)' => Busy(d)
      BY <1>4, <3>6 DEF Busy, Models, Updates, NoNewUpload
    <3> QED
      BY <2>2, <3>7 DEF IInv, WorkAfterJoining
  <2> QED
    BY <2>1, <2>2
<1>9. FailuresAllowed'
  BY <1>1 DEF IInv, FailuresAllowed
<1>10. OneTaskPerClient'
  BY <1>1, <1>3, ConsumeTasks, SentKeepsOneTask
<1> QED
  BY <1>6, <1>7, <1>8, <1>9, <1>10 DEF IInv

-----------------------------------------------------------------------------
(* The workers and the faults.                                             *)

\* A step of one worker, or a fault, adds at most one message to what it sends,
\* and takes messages out of what it receives.
OnlyRemoves(c) ==
  /\ toClient' \in Inboxes
  /\ \A d \in Clients \ {c} : toClient'[d] = toClient[d]
  /\ \A i, j \in DOMAIN toClient'[c] :
       \E k, l \in DOMAIN toClient[c] :
         /\ toClient'[c][i] = toClient[c][k]
         /\ toClient'[c][j] = toClient[c][l]
         /\ k = l => i = j

LEMMA ReadRemoves ==
  ASSUME TypeOK, NEW c \in Clients, toClient[c] # <<>>, Read(c)
  PROVE  OnlyRemoves(c)
<1>1. ASSUME NEW i \in DOMAIN toClient'[c], NEW j \in DOMAIN toClient'[c]
      PROVE  \E k, l \in DOMAIN toClient[c] :
               /\ toClient'[c][i] = toClient[c][k]
               /\ toClient'[c][j] = toClient[c][l]
               /\ k = l => i = j
  <2>1. /\ i \in Nat /\ i + 1 \in DOMAIN toClient[c] /\ toClient'[c][i] = toClient[c][i + 1]
        /\ j \in Nat /\ j + 1 \in DOMAIN toClient[c] /\ toClient'[c][j] = toClient[c][j + 1]
    BY ReadPositions
  <2>2. i + 1 = j + 1 => i = j
    BY <2>1
  <2> QED
    BY <2>1, <2>2
<1> QED
  BY <1>1, ReadPositions DEF OnlyRemoves

LEMMA NothingReceivedRemoves ==
  ASSUME TypeOK, NEW c \in Clients, UNCHANGED toClient
  PROVE  OnlyRemoves(c)
  BY DEF OnlyRemoves, TypeOK, NetTypeOK, Inboxes

\* A worker that ends or dies empties its channel.
LEMMA EmptiedRemoves ==
  ASSUME TypeOK, NEW c \in Clients, toClient' = [toClient EXCEPT ![c] = <<>>]
  PROVE  OnlyRemoves(c)
<1>1. <<>> \in Seq(DownMsg) /\ DOMAIN <<>> = {}
  OBVIOUS
<1> QED
  BY <1>1 DEF OnlyRemoves, TypeOK, NetTypeOK, Inboxes

\* Messages other than uploads of a trained model add no task, and removing one
\* takes none away from another worker.
LEMMA RemovingKeepsOneTask ==
  ASSUME IInv, NEW c \in Clients, OnlyRemoves(c), idle' = idle,
         \A d \in Clients : \A i \in Updates(d)' : i \in Updates(d)
  PROVE  OneTaskPerClient' /\ \A d \in Clients : Busy(d)' => Busy(d)
<1>1. \A d \in Clients :
        /\ \A i, j \in Models(d)  : i = j
        /\ \A i, j \in Updates(d) : i = j
        /\ Models(d) = {} \/ Updates(d) = {}
        /\ Busy(d) => d \notin idle \cup Unseen
  BY DEF IInv, OneTaskPerClient
<1>2. \A d \in Clients \ {c} : Models(d)' = Models(d)
  BY DEF OnlyRemoves, Models
<1>3. \A i, j \in Models(c)' : \E k, l \in Models(c) : k = l => i = j
  BY DEF OnlyRemoves, Models
<1>4. /\ \A i, j \in Models(c)' : i = j
      /\ Models(c)' # {} => Models(c) # {}
  BY <1>1, <1>3
<1>5. \A d \in Clients : Busy(d)' => Busy(d)
  BY <1>2, <1>4 DEF Busy
<1>6. ASSUME NEW d \in Clients
      PROVE  /\ \A i, j \in Models(d)'  : i = j
             /\ \A i, j \in Updates(d)' : i = j
             /\ Models(d)' = {} \/ Updates(d)' = {}
             /\ Busy(d)' => d \notin idle' \cup Unseen
  BY <1>1, <1>2, <1>4, <1>5
<1> QED
  BY <1>5, <1>6 DEF OneTaskPerClient

\* The rest of the invariant, when the server does not move.
LEMMA ServerStill ==
  ASSUME IInv, UNCHANGED sVars, Asked' \subseteq Asked,
         \A d \in Clients : Busy(d)' => Busy(d)
  PROVE  /\ AskedHaveJoined'
         /\ WorkAfterJoining'
         /\ FailuresAllowed'
         /\ STypeOK'
<1>1. AskedHaveJoined'
  BY AskedStays DEF sVars, joinVars
<1>2. WorkAfterJoining'
  BY DEF IInv, WorkAfterJoining, AllJoined, sVars, joinVars
<1>3. FailuresAllowed'
  BY DEF IInv, FailuresAllowed, sVars
<1>4. STypeOK'
  BY DEF IInv, TypeOK, STypeOK, sVars, roundVars, joinVars, evalVars
<1> QED
  BY <1>1, <1>2, <1>3, <1>4

\* Asks and answers do not appear by themselves.
LEMMA RemovingAsksNobody ==
  ASSUME NEW c \in Clients, OnlyRemoves(c), joinInfo' = joinInfo,
         \A d \in Clients : \A i \in DOMAIN toServer'[d] :
           toServer'[d][i].type = "join_in_info" => d \in Asked
  PROVE  Asked' \subseteq Asked
<1> SUFFICES ASSUME NEW d \in Asked' PROVE d \in Asked
  OBVIOUS
<1>1. CASE d \in joinInfo'
  BY <1>1 DEF Asked
<1>2. CASE d \in Clients /\ \E i \in DOMAIN toClient'[d] :
             toClient'[d][i].type = "ask_for_join_in_info"
  <2>1. \E i \in DOMAIN toClient[d] : toClient[d][i].type = "ask_for_join_in_info"
    BY <1>2 DEF OnlyRemoves
  <2> QED
    BY <1>2, <2>1 DEF Asked
<1>3. CASE d \in Clients /\ \E i \in DOMAIN toServer'[d] :
             toServer'[d][i].type = "join_in_info"
  BY <1>3
<1> QED
  BY <1>1, <1>2, <1>3 DEF Asked

\* A worker trains on the model it received: its task becomes an update.
LEMMA TrainKeepsOneTask ==
  ASSUME IInv, NEW c \in Clients, Train(c), UNCHANGED sVars
  PROVE  /\ OneTaskPerClient'
         /\ OnlyRemoves(c)
         /\ NetTypeOK' /\ CTypeOK'
         /\ \A d \in Clients : Busy(d)' => Busy(d)
         /\ Asked' \subseteq Asked
<1> DEFINE r == Head(toClient[c]).round
<1>1. /\ TypeOK
      /\ toClient[c] # <<>> /\ Head(toClient[c]).type = "model_para"
      /\ Read(c)
      /\ \/ cState' = [cState EXCEPT ![c] = r] /\ Send(c, Msg("model_para", r))
         \/ UNCHANGED <<cState, toServer>>
      /\ UNCHANGED <<proc, faults>>
      /\ idle' = idle /\ joinInfo' = joinInfo
  BY DEF IInv, Train, Hears, Answer, sVars, joinVars
<1>2. OnlyRemoves(c)
  BY <1>1, ReadRemoves
<1>3. r \in Rounds /\ Msg("model_para", r) \in UpMsg /\ Msg("model_para", r).type = "model_para"
  BY <1>1, ReadPositions DEF DownMsg, UpMsg, Msg
<1>4. 1 \in Models(c)
  BY <1>1, ReadPositions DEF Models
<1>5. /\ \A i \in Models(c) : i = 1
      /\ Updates(c) = {}
      /\ c \notin idle \cup Unseen
  BY <1>4 DEF IInv, OneTaskPerClient, Busy
<1>6. Models(c)' = {}
  <2> SUFFICES ASSUME NEW i \in Models(c)' PROVE FALSE
    OBVIOUS
  <2>1. i + 1 \in Models(c) /\ i + 1 # 1
    BY <1>1, ReadPositions DEF Models
  <2> QED
    BY <1>5, <2>1
<1> HIDE DEF r
<1>7. /\ toServer' \in Outboxes
      /\ \A d \in Clients \ {c} : toServer'[d] = toServer[d]
      /\ \A i \in DOMAIN toServer'[c] :
           \/ i \in DOMAIN toServer[c] /\ toServer'[c][i] = toServer[c][i]
           \/ i = Len(toServer[c]) + 1 /\ toServer'[c][i].type = "model_para"
  <2>1. CASE Send(c, Msg("model_para", r))
    BY <1>1, <1>3, <2>1, SendPositions
  <2>2. CASE toServer' = toServer
    BY <1>1, <2>2 DEF Outboxes, TypeOK, NetTypeOK
  <2> QED
    BY <1>1, <2>1, <2>2
<1>8. \A i \in Updates(c)' : i = Len(toServer[c]) + 1
  BY <1>5, <1>7 DEF Updates
<1>9. \A d \in Clients \ {c} : Models(d)' = Models(d) /\ Updates(d)' = Updates(d)
  BY <1>2, <1>7 DEF OnlyRemoves, Models, Updates
<1>10. OneTaskPerClient'
  <2> SUFFICES ASSUME NEW d \in Clients
               PROVE  /\ \A i, j \in Models(d)'  : i = j
                      /\ \A i, j \in Updates(d)' : i = j
                      /\ Models(d)' = {} \/ Updates(d)' = {}
                      /\ Busy(d)' => d \notin idle' \cup Unseen
    BY DEF OneTaskPerClient
  <2>1. CASE d = c
    BY <1>1, <1>5, <1>6, <1>8, <2>1
  <2>2. CASE d # c
    BY <1>1, <1>9, <2>2 DEF IInv, OneTaskPerClient, Busy
  <2> QED
    BY <2>1, <2>2
<1>11. \A d \in Clients : Busy(d)' => Busy(d)
  BY <1>4, <1>9 DEF Busy
<1>12. NetTypeOK' /\ CTypeOK'
  <2>1. NetTypeOK'
    BY <1>1, <1>2, <1>7 DEF OnlyRemoves, NetTypeOK, TypeOK, Inboxes, Outboxes
  <2>2. CTypeOK'
    BY <1>1, <1>3, NetworkAssumption DEF CTypeOK, TypeOK, Rounds
  <2> QED
    BY <2>1, <2>2
<1>13. Asked' \subseteq Asked
  <2>1. \A d \in Clients : \A i \in DOMAIN toServer'[d] :
          toServer'[d][i].type = "join_in_info" => d \in Asked
    BY <1>7 DEF Asked
  <2> QED
    BY <1>1, <1>2, <2>1, RemovingAsksNobody
<1> QED
  BY <1>2, <1>10, <1>11, <1>12, <1>13

\* Any other answer, and a registration, is no task.
LEMMA SendKeepsOneTask ==
  ASSUME IInv, NEW c \in Clients, UNCHANGED sVars, OnlyRemoves(c),
         NEW m \in UpMsg, m.type # "model_para",
         m.type = "join_in_info" => c \in Asked,
         Send(c, m) \/ UNCHANGED toServer
  PROVE  /\ OneTaskPerClient'
         /\ toServer' \in Outboxes
         /\ \A d \in Clients : Busy(d)' => Busy(d)
         /\ Asked' \subseteq Asked
<1>1. TypeOK /\ idle' = idle /\ joinInfo' = joinInfo
  BY DEF IInv, sVars, joinVars
<1>2. /\ toServer' \in Outboxes
      /\ \A d \in Clients : \A i \in DOMAIN toServer'[d] :
           \/ i \in DOMAIN toServer[d] /\ toServer'[d][i] = toServer[d][i]
           \/ d = c /\ toServer'[d][i] = m
  <2>1. CASE Send(c, m)
    BY <1>1, <2>1, SendPositions
  <2>2. CASE UNCHANGED toServer
    BY <1>1, <2>2 DEF Outboxes, TypeOK, NetTypeOK
  <2> QED
    BY <2>1, <2>2
<1>3. \A d \in Clients : \A i \in Updates(d)' : i \in Updates(d)
  BY <1>2 DEF Updates
<1>4. \A d \in Clients : \A i \in DOMAIN toServer'[d] :
        toServer'[d][i].type = "join_in_info" => d \in Asked
  BY <1>2 DEF Asked
<1> QED
  BY <1>1, <1>2, <1>3, <1>4, RemovingKeepsOneTask, RemovingAsksNobody

\* Every step of a worker.
LEMMA ClientKeepsIInv ==
  ASSUME IInv, NEW c \in Clients, Client(c)
  PROVE  IInv'
<1>1. TypeOK /\ UNCHANGED sVars
  BY DEF IInv, Client
<1>2. SUFFICES /\ OneTaskPerClient'
               /\ NetTypeOK' /\ CTypeOK'
               /\ \A d \in Clients : Busy(d)' => Busy(d)
               /\ Asked' \subseteq Asked
  BY <1>1, <1>2, ServerStill DEF IInv, TypeOK
<1>3. CASE Train(c)
  BY <1>1, <1>3, TrainKeepsOneTask
<1>4. CASE Evaluate(c)
  <2> DEFINE r == Head(toClient[c]).round
  <2>1. /\ toClient[c] # <<>>
        /\ Read(c)
        /\ Send(c, Msg("metrics", r)) \/ UNCHANGED toServer
        /\ cState' = [cState EXCEPT ![c] = r] \/ UNCHANGED cState
        /\ UNCHANGED <<proc, faults>>
    BY <1>4 DEF Evaluate, Hears, Answer
  <2>2. r \in Rounds /\ Msg("metrics", r) \in UpMsg /\ Msg("metrics", r).type = "metrics"
    BY <1>1, <2>1, ReadPositions DEF DownMsg, UpMsg, Msg
  <2> HIDE DEF r
  <2>3. OnlyRemoves(c)
    BY <1>1, <2>1, ReadRemoves
  <2>4. /\ OneTaskPerClient'
        /\ toServer' \in Outboxes
        /\ \A d \in Clients : Busy(d)' => Busy(d)
        /\ Asked' \subseteq Asked
    BY <1>1, <2>1, <2>2, <2>3, SendKeepsOneTask
  <2>5. NetTypeOK'
    BY <1>1, <2>1, <2>3, <2>4 DEF OnlyRemoves, NetTypeOK, TypeOK, Inboxes, Outboxes
  <2>6. CTypeOK'
    BY <1>1, <2>1, <2>2, NetworkAssumption DEF CTypeOK, TypeOK, Rounds
  <2> QED
    BY <2>4, <2>5, <2>6
<1>5. CASE AnswerJoinInInfo(c)
  <2>1. /\ toClient[c] # <<>> /\ Head(toClient[c]).type = "ask_for_join_in_info"
        /\ Read(c)
        /\ Send(c, Msg("join_in_info", 0)) \/ UNCHANGED toServer
        /\ UNCHANGED <<cState, proc, faults>>
    BY <1>5 DEF AnswerJoinInInfo, Hears
  <2>2. Msg("join_in_info", 0) \in UpMsg /\ Msg("join_in_info", 0).type = "join_in_info"
    BY NetworkAssumption DEF UpMsg, Msg, Rounds
  <2>3. OnlyRemoves(c) /\ c \in Asked
    BY <1>1, <2>1, ReadRemoves, ReadPositions DEF Asked
  <2>4. /\ OneTaskPerClient'
        /\ toServer' \in Outboxes
        /\ \A d \in Clients : Busy(d)' => Busy(d)
        /\ Asked' \subseteq Asked
    BY <1>1, <2>1, <2>2, <2>3, SendKeepsOneTask
  <2> QED
    BY <1>1, <2>1, <2>3, <2>4
       DEF OnlyRemoves, NetTypeOK, TypeOK, CTypeOK, Inboxes, Outboxes
<1>6. CASE JoinIn(c)
  <2>1. /\ Send(c, Msg("join_in", 0))
        /\ proc' = [proc EXCEPT ![c] = "up"]
        /\ UNCHANGED <<toClient, cState, faults>>
    BY <1>6 DEF JoinIn
  <2>2. Msg("join_in", 0) \in UpMsg /\ Msg("join_in", 0).type = "join_in"
    BY NetworkAssumption DEF UpMsg, Msg, Rounds
  <2>3. OnlyRemoves(c)
    BY <1>1, <2>1, NothingReceivedRemoves
  <2>4. /\ OneTaskPerClient'
        /\ toServer' \in Outboxes
        /\ \A d \in Clients : Busy(d)' => Busy(d)
        /\ Asked' \subseteq Asked
    BY <1>1, <2>1, <2>2, <2>3, SendKeepsOneTask
  <2> QED
    BY <1>1, <2>1, <2>3, <2>4
       DEF OnlyRemoves, NetTypeOK, TypeOK, CTypeOK, Inboxes, Outboxes
<1>7. CASE Converged(c) \/ Finish(c)
  <2>1. /\ OnlyRemoves(c)
        /\ proc' \in [Clients -> {"off", "up", "stopped", "dead"}]
        /\ UNCHANGED <<toServer, cState, faults>>
    BY <1>1, <1>7, ReadRemoves, EmptiedRemoves
       DEF Converged, Finish, Hears, TypeOK, NetTypeOK
  <2>2. Msg("metrics", 0) \in UpMsg /\ Msg("metrics", 0).type = "metrics"
    BY NetworkAssumption DEF UpMsg, Msg, Rounds
  <2>3. /\ OneTaskPerClient'
        /\ toServer' \in Outboxes
        /\ \A d \in Clients : Busy(d)' => Busy(d)
        /\ Asked' \subseteq Asked
    BY <1>1, <2>1, <2>2, SendKeepsOneTask
  <2> QED
    BY <1>1, <2>1, <2>3 DEF OnlyRemoves, NetTypeOK, TypeOK, CTypeOK, Inboxes, Outboxes
<1> QED
  BY <1>3, <1>4, <1>5, <1>6, <1>7 DEF Client, ClientStep

\* The bounds on the faults are kept.
LEMMA FaultsCounted ==
  ASSUME TypeOK,
         \/ faults.loss < MaxLoss /\ faults' = [faults EXCEPT !.loss = @ + 1]
         \/ faults.crash < MaxCrash /\ faults' = [faults EXCEPT !.crash = @ + 1]
  PROVE  faults' \in [loss : 0 .. MaxLoss, crash : 0 .. MaxCrash]
<1> DEFINE l == faults.loss
           k == faults.crash
<1>1. /\ faults = [loss |-> l, crash |-> k]
      /\ l \in 0 .. MaxLoss
      /\ k \in 0 .. MaxCrash
  BY DEF TypeOK, NetTypeOK
<1>2. MaxLoss \in Nat /\ MaxCrash \in Nat
  BY NetworkAssumption
<1>3. CASE faults.loss < MaxLoss /\ faults' = [faults EXCEPT !.loss = @ + 1]
  <2>1. l + 1 \in 0 .. MaxLoss
    BY <1>1, <1>2, <1>3
  <2>2. faults' = [loss |-> l + 1, crash |-> k]
    BY <1>1, <1>3
  <2> QED
    BY <1>1, <2>1, <2>2
<1>4. CASE faults.crash < MaxCrash /\ faults' = [faults EXCEPT !.crash = @ + 1]
  <2>1. k + 1 \in 0 .. MaxCrash
    BY <1>1, <1>2, <1>4
  <2>2. faults' = [loss |-> l, crash |-> k + 1]
    BY <1>1, <1>4
  <2> QED
    BY <1>1, <2>1, <2>2
<1> QED
  BY <1>3, <1>4

\* A message lost or a worker dead takes tasks away and adds none.
LEMMA FaultKeepsIInv ==
  ASSUME IInv, NEW c \in Clients, Fault(c)
  PROVE  IInv'
<1>1. TypeOK /\ UNCHANGED sVars /\ UNCHANGED cVars
  BY DEF IInv, Fault
<1>2. idle' = idle /\ joinInfo' = joinInfo /\ CTypeOK'
  BY <1>1 DEF sVars, joinVars, cVars, CTypeOK, TypeOK
<1>3. CASE LoseDown(c) \/ Crash(c)
  <2>1. UNCHANGED toServer /\ OnlyRemoves(c)
    <3>1. CASE LoseDown(c)
      BY <1>1, <3>1, ReadRemoves DEF LoseDown, Read
    <3>2. CASE Crash(c)
      BY <1>1, <3>2, EmptiedRemoves DEF Crash
    <3> QED
      BY <1>3, <3>1, <3>2 DEF LoseDown, Crash
  <2>2. /\ proc' \in [Clients -> {"off", "up", "stopped", "dead"}]
        /\ faults' \in [loss : 0 .. MaxLoss, crash : 0 .. MaxCrash]
    BY <1>1, <1>3, FaultsCounted DEF LoseDown, Crash, TypeOK, NetTypeOK
  <2>3. NetTypeOK'
    BY <1>1, <2>1, <2>2 DEF OnlyRemoves, NetTypeOK, TypeOK, Inboxes
  <2>4. OneTaskPerClient' /\ \A d \in Clients : Busy(d)' => Busy(d)
    BY <1>2, <2>1, RemovingKeepsOneTask DEF Updates
  <2>5. \A d \in Clients : \A i \in DOMAIN toServer'[d] :
          toServer'[d][i].type = "join_in_info" => d \in Asked
    BY <2>1 DEF Asked
  <2>6. Asked' \subseteq Asked
    BY <1>2, <2>1, <2>5, RemovingAsksNobody
  <2> QED
    BY <1>1, <1>2, <2>3, <2>4, <2>6, ServerStill DEF IInv, TypeOK
<1>4. CASE LoseUp(c)
  <2>1. /\ toServer[c] # <<>> /\ toServer' = Consume(c)
        /\ UNCHANGED <<toClient, proc>>
        /\ faults' \in [loss : 0 .. MaxLoss, crash : 0 .. MaxCrash]
    BY <1>1, <1>4, FaultsCounted DEF LoseUp
  <2>2. toClient \in Inboxes /\ Sent(toClient, idle)
    BY <1>1, <2>1 DEF Sent, Pcs, Inboxes, TypeOK, NetTypeOK, STypeOK, sVars
  <2>3. OneTaskPerClient'
    BY <2>1, <2>2, ConsumeTasks, SentKeepsOneTask
  <2>4. NoNewUpload
    BY <1>1, <2>1, ConsumeUploadsNothing
  <2>5. \A d \in Clients : Busy(d)' => Busy(d)
    BY <2>1, <2>4 DEF Busy, Models, Updates, NoNewUpload
  <2>6. Asked' \subseteq Asked
    BY <1>2, <2>2, <2>4, SentAsksNobody DEF Asked
  <2>7. NetTypeOK'
    BY <1>1, <2>1, ConsumePositions DEF NetTypeOK, TypeOK, Outboxes
  <2> QED
    BY <1>1, <1>2, <2>3, <2>5, <2>6, <2>7, ServerStill DEF IInv, TypeOK
<1> QED
  BY <1>3, <1>4 DEF Fault

-----------------------------------------------------------------------------
(* The theorems.                                                           *)

LEMMA InitIInv ==
  ASSUME Init
  PROVE  IInv
<1>1. TypeOK
  <2>1. /\ 0 \in Rounds
        /\ TotalRounds \in Nat /\ MaxLoss \in Nat /\ MaxCrash \in Nat /\ MaxFailure \in Nat
    BY NetworkAssumption, ServerAssumption DEF Rounds
  <2>2. NetTypeOK
    <3>1. <<>> \in Seq(DownMsg) /\ <<>> \in Seq(UpMsg)
      OBVIOUS
    <3> QED
      BY <2>1, <3>1 DEF Init, NetInit, NetTypeOK
  <2>3. STypeOK
    <3>1. SInit
      BY DEF Init
    <3>2. agg \in [round : {-1} \cup Rounds, from : SUBSET (Rounds \X Clients), count : Nat]
      BY <3>1 DEF SInit
    <3>3. merged \in [round : {-1} \cup Rounds, from : SUBSET Clients, stop : BOOLEAN]
      BY <3>1 DEF SInit
    <3>4. neighbors \subseteq Clients
      BY <3>1 DEF SInit
    <3>5. /\ pc = "listening" /\ state = 0 /\ joinNum = 0 /\ joinInfo = {} /\ idle = Clients
          /\ fresh = {} /\ hasRound = FALSE /\ staled = {} /\ dropout = 0 /\ evalRound = -1
          /\ evalFrom = {} /\ isFinish = FALSE /\ numFailure = 0 /\ restarts = 0
      BY <3>1 DEF SInit
    <3>6. numFailure \in 0 .. MaxFailure + 1
      BY <2>1, <3>5
    <3> QED
      BY <2>1, <3>2, <3>3, <3>4, <3>5, <3>6 DEF STypeOK
  <2>4. CTypeOK
    BY <2>1 DEF Init, CInit, CTypeOK
  <2> QED
    BY <2>2, <2>3, <2>4 DEF TypeOK
<1>2. \A c \in Clients : Models(c) = {} /\ Updates(c) = {}
  BY DEF Init, NetInit, Models, Updates
<1>3. WorkAfterJoining /\ OneTaskPerClient
  BY <1>2 DEF WorkAfterJoining, OneTaskPerClient, Busy
<1>4. AskedHaveJoined
  <2>1. Asked = {}
    BY DEF Init, NetInit, SInit, Asked
  <2> QED
    BY <2>1, FS_EmptySet DEF Init, SInit, AskedHaveJoined
<1>5. FailuresAllowed
  BY ServerAssumption DEF Init, SInit, FailuresAllowed
<1> QED
  BY <1>1, <1>3, <1>4, <1>5 DEF IInv

LEMMA NextKeepsIInv ==
  ASSUME IInv, [Next]_vars
  PROVE  IInv'
<1>1. ASSUME NEW c \in Clients, Reads(c)
      PROVE  IInv'
  <2>1. ReadFrom(c) /\ UNCHANGED <<cVars, proc, faults>>
    BY <1>1 DEF Reads
  <2> QED
    BY <2>1, JoinInKeepsIInv, JoinInInfoKeepsIInv, ModelParaKeepsIInv, MetricsKeepIInv
       DEF ReadFrom
<1>2. ASSUME NEW c \in Clients, Client(c)
      PROVE  IInv'
  BY <1>2, ClientKeepsIInv
<1>3. ASSUME NEW c \in Clients, Fault(c)
      PROVE  IInv'
  BY <1>3, FaultKeepsIInv
<1>4. CASE Exits
  BY <1>4, ExitKeepsIInv
<1>5. CASE Alarm
  BY <1>5, TimeUpKeepsIInv DEF Alarm
<1>6. CASE UNCHANGED vars
  <2>1. UNCHANGED sVars /\ UNCHANGED netVars /\ UNCHANGED cVars
    BY <1>6 DEF vars
  <2>2. UNCHANGED <<toClient, toServer, proc, faults, cState>>
    BY <2>1 DEF netVars, cVars
  <2>3. Asked' = Asked
    BY <2>1, <2>2 DEF Asked, sVars, joinVars
  <2>4. \A d \in Clients : Models(d)' = Models(d) /\ Updates(d)' = Updates(d)
    BY <2>2 DEF Models, Updates
  <2>5. OneTaskPerClient'
    BY <2>1, <2>4 DEF IInv, OneTaskPerClient, Busy, sVars
  <2>6. NetTypeOK' /\ CTypeOK'
    BY <2>2 DEF IInv, TypeOK, NetTypeOK, CTypeOK
  <2> QED
    BY <2>1, <2>3, <2>4, <2>5, <2>6, ServerStill DEF IInv, TypeOK, Busy
<1> QED
  BY <1>1, <1>2, <1>3, <1>4, <1>5, <1>6 DEF Next, Ended

\* The invariant holds of every course.
THEOREM InductiveInvariant == Spec => []IInv
<1>1. Init => IInv
  BY InitIInv
<1>2. IInv /\ [Next]_vars => IInv'
  BY NextKeepsIInv
<1> QED
  BY <1>1, <1>2, PTL DEF Spec

\* Every variable of the server, the workers and their channels keeps its type:
\* in particular no round exceeds TotalRounds + 1, and the server stops counting
\* failures at MaxFailure + 1.
THEOREM TypeCorrect == Spec => []TypeOK
<1>1. IInv => TypeOK
  BY DEF IInv
<1> QED
  BY <1>1, InductiveInvariant, PTL

\* Whatever is lost, whoever dies and however often the round is restarted, no
\* worker is given a second task, and none that has one is idle for the sampler.
THEOREM OneTask == Spec => []OneTaskPerClient
<1>1. IInv => OneTaskPerClient
  BY DEF IInv
<1> QED
  BY <1>1, InductiveInvariant, PTL
=============================================================================
