----------------------------- MODULE HetLoraProofs -----------------------------
(***************************************************************************)
(* HetLora, for any workers, ranks and rounds.  The protocol keeps order   *)
(* by turns: a worker's channels show whose turn it is, and the report of  *)
(* a new rank is always read before the update that ends the worker's      *)
(* turn.  So by the end of a round the server knows all ranks.             *)
(*                                                                         *)
(* Turns do not depend on the ranks, and hold whatever the task is; that   *)
(* the server uses what it knows does not: see Vlm in HetLora.             *)
(***************************************************************************)
EXTENDS HetLora, SequenceTheorems, TLAPS

Report == RankReport \cup Update

Evaluations(s)   == \A i \in 1 .. Len(s) : s[i].type = "evaluate"
EndsWithModel(s) == /\ s # <<>>
                    /\ \A i \in 1 .. Len(s) : s[i].type = "model_para" <=> i = Len(s)

\* Whose turn it is: a worker has nothing to do but evaluate, is to train, or has answered.
Idle(c)     == toServer[c] = <<>> /\ Evaluations(toClient[c])
Asked(c)    == toServer[c] = <<>> /\ EndsWithModel(toClient[c]) /\ c \notin DOMAIN buffer
Answered(c) == toClient[c] = <<>> /\ EndsWithModel(toServer[c]) /\ c \notin DOMAIN buffer

Turns ==
  /\ \A c \in Clients : Idle(c) \/ Asked(c) \/ Answered(c)
  /\ round = TotalRounds => \A c \in Clients : Idle(c)
  /\ ~started => /\ round = 0 /\ DOMAIN buffer = {}
                 /\ \A c \in Clients : toClient[c] = <<>> /\ toServer[c] = <<>>

TInv == TypeOK /\ Turns

\* What the server knows, or is about to read, of a worker's rank; and every tensor
\* under way, or received in this round, is filled up to the rank of its worker.
Known(c) ==
  /\ toServer[c] = <<>> \/ Head(toServer[c]).type = "model_para" => record[c] = rank[c]
  /\ \A i \in 1 .. Len(toServer[c]) :
       IF toServer[c][i].type = "model_para"
         THEN toServer[c][i].rows = Rows(rank[c])
         ELSE toServer[c][i].rank = rank[c]

AtRank(s, r) == \A i \in 1 .. Len(s) : s[i].rank = r /\ s[i].rows = Rows(r)

Full(c) ==
  /\ c \in DOMAIN buffer => buffer[c] = Rows(rank[c])
  /\ AtRank(toClient[c], rank[c])

Settled ==
  /\ config = record
  /\ \A c \in Clients : Known(c) /\ Full(c)
  /\ ~started => filled = Rows(MaxRank)

-----------------------------------------------------------------------------
(* The helpers.                                                            *)

\* A rank within the bounds stays as it is.
LEMMA ClampKeeps == \A r \in Ranks : Clamp(r) = r
BY HetLoraAssumption DEF Clamp, Ranks, Most, Least

\* Pruning never ends below the smallest rank, nor above the rank before.
LEMMA PrunedInRanks ==
  ASSUME NEW r \in Ranks, NEW p \in Prunings(r)
  PROVE  p \in Ranks /\ p <= r
<1> DEFINE q == (r * Decay) \div 100
<1>1. q \in Int
  <2>1. r * Decay \in Int
    BY HetLoraAssumption DEF Ranks
  <2> QED  BY <2>1
<1> HIDE DEF q
<1>2. p = r \/ (p = Most(RankMin, q) /\ p < r)
  BY DEF Prunings, q
<1> QED  BY <1>1, <1>2, HetLoraAssumption DEF Ranks, Most

\* What a worker of rank old answers to the rows it was sent, having become one of rank
\* new: a report if the rank is another one, and what it has left of a full model.
Answering(s, old, new, rows) ==
  /\ s \in Seq(Report) /\ s # <<>>
  /\ Len(s) = IF new < old THEN 2 ELSE 1
  /\ s[Len(s)].type = "model_para"
  /\ rows = Rows(old) => s[Len(s)].rows = Rows(new)
  /\ \A i \in 1 .. Len(s) : i # Len(s) => s[i] = [type |-> "hetlora_rank", rank |-> new]

LEMMA AnswerIs ==
  ASSUME NEW old \in Ranks, NEW new \in Ranks, NEW u \in Update,
         NEW rows, rows = Rows(old) => u.rows = Rows(new)
  PROVE  Answering(Answer(old, new, u), old, new, rows)
<1> DEFINE m == [type |-> "hetlora_rank", rank |-> new]
           p == IF new < old THEN <<m>> ELSE <<>>
           s == Answer(old, new, u)
<1>1. m \in Report /\ u \in Report
  BY DEF Report, RankReport
<1> HIDE DEF m
<1>2. <<u>> \in Seq(Report) /\ Len(<<u>>) = 1 /\ <<u>>[1] = u
  BY <1>1
<1>3. /\ p \in Seq(Report) /\ Len(p) \in {0, 1}
      /\ \A i \in 1 .. Len(p) : p[i] = m
      /\ Len(p) = IF new < old THEN 1 ELSE 0
  <2>1. CASE new < old
    BY <1>1, <2>1 DEF Ranks
  <2>2. CASE ~(new < old)
    BY <2>2, EmptySeq
  <2> QED  BY <2>1, <2>2
<1>4. s = p \o <<u>>
  BY DEF Answer, m
<1> HIDE DEF p, s
<1>5. /\ s \in Seq(Report) /\ Len(s) = Len(p) + 1
      /\ \A i \in 1 .. Len(p) + 1 : s[i] = IF i <= Len(p) THEN p[i] ELSE <<u>>[i - Len(p)]
  BY <1>2, <1>3, <1>4, ConcatProperties
<1>6. s # <<>>
  BY <1>3, <1>5, EmptySeq
<1>7. s[Len(s)] = u /\ \A i \in 1 .. Len(s) : i # Len(s) => s[i] = m
  BY <1>2, <1>3, <1>5
<1>8. Len(s) = IF new < old THEN 2 ELSE 1
  BY <1>3, <1>5
<1>9. u.type = "model_para"
  BY DEF Update
<1> QED  BY <1>5, <1>6, <1>7, <1>8, <1>9 DEF Answering, s, m

\* What a broadcast adds to a channel.
Grown(t, s, m) ==
  /\ t \in Seq(Download) /\ t # <<>>
  /\ Len(t) = Len(s) + 1 /\ Len(s) \in Nat
  /\ t[Len(t)] = m
  /\ \A i \in 1 .. Len(s) : t[i] = s[i]

LEMMA BroadcastGrows ==
  ASSUME NEW inbox \in [Clients -> Seq(Download)], NEW type \in {"model_para", "evaluate"},
         NEW conf \in [Clients -> Ranks], NEW F \in SUBSET Rows(MaxRank)
  PROVE  /\ Broadcast(inbox, type, conf, F) \in [Clients -> Seq(Download)]
         /\ \A c \in Clients :
              Grown(Broadcast(inbox, type, conf, F)[c], inbox[c], Payload(type, conf[c], F))
<1> SUFFICES ASSUME NEW c \in Clients
             PROVE  LET s == Append(inbox[c], Payload(type, conf[c], F))
                    IN  s \in Seq(Download) /\ Grown(s, inbox[c], Payload(type, conf[c], F))
  BY DEF Broadcast
<1>1. Payload(type, conf[c], F) \in Download
  BY DEF Payload, Download
<1>2. inbox[c] \in Seq(Download)
  OBVIOUS
<1> QED  BY <1>1, <1>2, AppendProperties, LenProperties, EmptySeq DEF Grown

\* So a worker that is idle stays so, or is to train.
LEMMA GrownTurn ==
  ASSUME NEW s \in Seq(Download), NEW m \in Download, NEW t, Grown(t, s, m), Evaluations(s)
  PROVE  IF m.type = "evaluate" THEN Evaluations(t) ELSE EndsWithModel(t)
<1>1. \A i \in 1 .. Len(t) : t[i].type = IF i = Len(t) THEN m.type ELSE "evaluate"
  BY DEF Grown, Evaluations
<1>2. m.type \in {"model_para", "evaluate"}
  BY DEF Download
<1> QED  BY <1>1, <1>2 DEF Grown, Evaluations, EndsWithModel

\* Reading the head of a channel.
LEMMA TailShifts ==
  ASSUME NEW S, NEW s \in Seq(S), s # <<>>
  PROVE  /\ Head(s) \in S /\ Head(s) = s[1]
         /\ Tail(s) \in Seq(S) /\ Len(s) \in Nat /\ Len(s) >= 1
         /\ Len(Tail(s)) = Len(s) - 1
         /\ \A i \in 1 .. Len(Tail(s)) : Tail(s)[i] = s[i + 1]
         /\ Len(s) = 1 <=> Tail(s) = <<>>
<1>1. Head(s) \in S /\ Head(s) = s[1]
  BY LenProperties, EmptySeq
<1>2. /\ Tail(s) \in Seq(S) /\ Len(Tail(s)) = Len(s) - 1
      /\ \A i \in 1 .. Len(Tail(s)) : Tail(s)[i] = s[i + 1]
  BY HeadTailProperties
<1>3. Len(s) \in Nat /\ Len(s) >= 1
  BY LenProperties, EmptySeq
<1>4. ASSUME NEW t \in Seq(S), Len(t) = 0  PROVE t = <<>>
  <2>1. \A q \in Seq(S) : q # <<>> => Len(q) \in Nat \ {0}
    BY EmptySeq
  <2> QED  BY <1>4, <2>1
<1>5. Len(s) = 1 <=> Tail(s) = <<>>
  <2>1. Len(s) = 1 => Len(Tail(s)) = 0 /\ Tail(s) \in Seq(S)
    BY <1>2
  <2>2. Tail(s) = <<>> => Len(Tail(s)) = 0
    <3>1. Len(<<>>) = 0
      BY EmptySeq
    <3> QED  BY <3>1
  <2>3. Len(Tail(s)) = 0 => Len(s) = 1
    <3>1. Len(Tail(s)) = Len(s) - 1
      BY <1>2
    <3>2. \A n \in Nat : n - 1 = 0 => n = 1
      OBVIOUS
    <3> QED  BY <1>3, <3>1, <3>2
  <2> QED  BY <1>4, <2>1, <2>2, <2>3
<1> QED  BY <1>1, <1>2, <1>3, <1>5

\* The model is the last message of a turn.
LEMMA HeadOfTurn ==
  ASSUME NEW S, NEW s \in Seq(S), EndsWithModel(s)
  PROVE  IF Head(s).type = "model_para" THEN Len(s) = 1 ELSE EndsWithModel(Tail(s))
<1>1. s # <<>> /\ \A i \in 1 .. Len(s) : s[i].type = "model_para" <=> i = Len(s)
  BY DEF EndsWithModel
<1>2. /\ Head(s) = s[1] /\ Len(s) \in Nat /\ Len(s) >= 1
      /\ Len(Tail(s)) = Len(s) - 1
      /\ \A i \in 1 .. Len(Tail(s)) : Tail(s)[i] = s[i + 1]
      /\ Len(s) = 1 <=> Tail(s) = <<>>
  BY <1>1, TailShifts
<1>3. CASE Len(s) = 1
  <2>1. 1 \in 1 .. Len(s)
    BY <1>3
  <2>2. s[1].type = "model_para"
    BY <1>1, <1>3, <2>1
  <2> QED  BY <1>2, <1>3, <2>2
<1>4. CASE Len(s) # 1
  <2>1. s[1].type # "model_para"
    <3>1. 1 \in 1 .. Len(s)
      BY <1>2
    <3> QED  BY <1>1, <1>4, <3>1
  <2>2. ASSUME NEW i \in 1 .. Len(Tail(s))
        PROVE  Tail(s)[i].type = "model_para" <=> i = Len(Tail(s))
    <3>1. i + 1 \in 1 .. Len(s) /\ (i + 1 = Len(s) <=> i = Len(Tail(s)))
      BY <1>2
    <3>2. Tail(s)[i] = s[i + 1]
      BY <1>2
    <3> QED  BY <1>1, <3>1, <3>2
  <2> QED  BY <1>2, <1>4, <2>1, <2>2 DEF EndsWithModel
<1> QED  BY <1>3, <1>4

-----------------------------------------------------------------------------
(* Types and turns.                                                        *)

\* Nothing under way means nothing to do.
LEMMA EmptyIsIdle ==
  /\ Evaluations(<<>>) /\ <<>> \in Seq(Download) /\ <<>> \in Seq(Report)
BY EmptySeq DEF Evaluations

LEMMA TypeInit == Init => TInv
<1> SUFFICES ASSUME Init  PROVE TInv
  OBVIOUS
<1>1. TypeOK
  <2>1. rank \in [Clients -> Ranks]
    BY HetLoraAssumption DEF Init, Ranks
  <2>2. buffer = [c \in {} |-> {}] /\ DOMAIN buffer = {}
    BY DEF Init
  <2>3. buffer \in [DOMAIN buffer -> SUBSET Rows(MaxRank)]
    BY <2>2
  <2>4. /\ toClient \in [Clients -> Seq(Download)]
        /\ toServer \in [Clients -> Seq(RankReport \cup Update)]
    BY EmptyIsIdle DEF Init, Report
  <2>5. round \in 0 .. TotalRounds
    BY HetLoraAssumption DEF Init
  <2> QED  BY <2>1, <2>2, <2>3, <2>4, <2>5 DEF Init, TypeOK
<1>2. Turns
  <2>1. DOMAIN buffer = {}
    BY DEF Init
  <2> QED  BY <2>1, EmptyIsIdle, HetLoraAssumption DEF Init, Turns, Idle
<1> QED  BY <1>1, <1>2 DEF TInv

\* The course starts with a task for everyone.
LEMMA StartTurn ==
  ASSUME TInv, Start
  PROVE  TInv'
<1> USE DEF TInv
<1>1. CASE ~Distributable(config)
  <2>1. toClient' = toClient /\ UNCHANGED <<pruning, round, record, config, filled, buffer, rank, toServer>>
        /\ started' /\ crashed'
    BY <1>1 DEF Start
  <2> QED  BY <2>1 DEF TypeOK, Turns, Idle, Asked, Answered
<1>2. CASE Distributable(config)
  <2>1. /\ toClient' = Broadcast(toClient, "model_para", config, filled)
        /\ UNCHANGED <<pruning, crashed, round, record, config, filled, buffer, rank, toServer>>
        /\ started' /\ round = 0 /\ DOMAIN buffer = {}
        /\ \A c \in Clients : toClient[c] = <<>> /\ toServer[c] = <<>>
    BY <1>2 DEF Start, Turns
  <2>2. TypeOK'
    <3>1. toClient' \in [Clients -> Seq(Download)]
      BY <2>1, BroadcastGrows DEF TypeOK
    <3> QED  BY <2>1, <3>1 DEF TypeOK
  <2>3. ASSUME NEW c \in Clients  PROVE EndsWithModel(toClient'[c])
    <3> DEFINE m == Payload("model_para", config[c], filled)
    <3>1. m \in Download /\ m.type = "model_para"
      BY DEF Payload, Download, TypeOK
    <3>2. Grown(toClient'[c], <<>>, m)
      BY <2>1, BroadcastGrows DEF TypeOK
    <3> HIDE DEF m
    <3> QED  BY <3>1, <3>2, EmptyIsIdle, GrownTurn
  <2>4. Turns'
    <3>1. \A c \in Clients : Asked(c)'
      BY <2>1, <2>3 DEF Asked
    <3>2. round' # TotalRounds
      BY <2>1, HetLoraAssumption
    <3> QED  BY <2>1, <3>1, <3>2 DEF Turns
  <2> QED  BY <2>2, <2>4
<1> QED  BY <1>1, <1>2

\* A worker's answer ends its turn.
LEMMA TrainAnswers ==
  ASSUME TypeOK, NEW c \in Clients, toServer[c] = <<>>, NEW m \in Download, Train(c, m)
  PROVE  \E r \in Ranks : \E s \in Seq(Report) :
           /\ r <= rank[c]
           /\ rank' = [rank EXCEPT ![c] = r]
           /\ toServer' = [toServer EXCEPT ![c] = s]
           /\ Answering(s, rank[c], r, m.rows)
           /\ EndsWithModel(s)
<1> DEFINE update(F) == [type |-> "model_para", rows |-> F]
           Answers(r, s) ==
             /\ r <= rank[c]
             /\ rank' = [rank EXCEPT ![c] = r]
             /\ toServer' = [toServer EXCEPT ![c] = s]
             /\ Answering(s, rank[c], r, m.rows)
             /\ EndsWithModel(s)
<1> SUFFICES \E r \in Ranks : \E s \in Seq(Report) : Answers(r, s)
  OBVIOUS
<1>1. /\ rank \in [Clients -> Ranks] /\ toServer \in [Clients -> Seq(Report)]
      /\ rank[c] \in Ranks /\ rank[c] \in Int /\ Clamp(rank[c]) = rank[c]
      /\ m.rows \in SUBSET Rows(MaxRank)
  BY ClampKeeps DEF TypeOK, Report, Download, Ranks
<1>2. CASE ~pruning
  <2> DEFINE s == <<update(m.rows)>>
  <2>1. /\ toServer' = [toServer EXCEPT ![c] = Append(<<>>, update(m.rows))]
        /\ rank' = rank
    BY <1>2 DEF Train
  <2>2. update(m.rows) \in Report
    BY <1>1 DEF Report, Update
  <2>3. Append(<<>>, update(m.rows)) = s
    OBVIOUS
  <2>4. s \in Seq(Report) /\ Len(s) = 1 /\ s # <<>> /\ s[1] = update(m.rows)
    BY <2>2, EmptySeq
  <2>5. toServer' = [toServer EXCEPT ![c] = s] /\ rank' = [rank EXCEPT ![c] = rank[c]]
    BY <1>1, <2>1, <2>3
  <2> HIDE DEF s
  <2>6. EndsWithModel(s)
    BY <2>4 DEF EndsWithModel
  <2>7. Answering(s, rank[c], rank[c], m.rows)
    BY <1>1, <2>4 DEF Answering
  <2>8. Answers(rank[c], s)
    BY <1>1, <2>5, <2>6, <2>7
  <2> HIDE DEF Answers
  <2> QED  BY <1>1, <2>4, <2>8
<1>3. CASE pruning
  <2>1. PICK r \in Prunings(rank[c]) :
          /\ rank' = [rank EXCEPT ![c] = Clamp(r)]
          /\ toServer' = [toServer EXCEPT ![c] =
                            <<>> \o Answer(rank[c], r, update(Truncated(m.rows, r)))]
    BY <1>1, <1>3 DEF Train
  <2> DEFINE s == Answer(rank[c], r, update(Truncated(m.rows, r)))
  <2>2. r \in Ranks /\ Clamp(r) = r /\ r <= rank[c]
    BY <1>1, PrunedInRanks, ClampKeeps
  <2>3. update(Truncated(m.rows, r)) \in Update
    BY <1>1 DEF Truncated, Update
  <2>4. m.rows = Rows(rank[c]) => Truncated(m.rows, r) = Rows(r)
    BY <1>1, <2>2 DEF Truncated, Rows, Ranks
  <2>5. Answering(s, rank[c], r, m.rows)
    BY <1>1, <2>2, <2>3, <2>4, AnswerIs
  <2> HIDE DEF s
  <2>6. s \in Seq(Report)
    BY <2>5 DEF Answering
  <2>7. EndsWithModel(s)
    <3>1. \A i \in 1 .. Len(s) : i # Len(s) => s[i].type = "hetlora_rank"
      BY <2>5 DEF Answering
    <3> QED  BY <2>5, <3>1 DEF EndsWithModel, Answering
  <2>8. toServer' = [toServer EXCEPT ![c] = s]
    BY <2>1, <2>6, ConcatEmptySeq DEF s
  <2>9. Answers(r, s)
    BY <2>1, <2>2, <2>5, <2>7, <2>8
  <2> HIDE DEF Answers
  <2> QED  BY <2>2, <2>6, <2>9
<1> QED  BY <1>2, <1>3

\* Evaluations leave a worker idle or with its task.
LEMMA ClientTurn ==
  ASSUME TInv, NEW c \in Clients, ClientStep(c)
  PROVE  TInv'
<1> DEFINE m == Head(toClient[c])
<1>1. /\ toClient \in [Clients -> Seq(Download)] /\ toClient[c] # <<>>
      /\ toClient' = [toClient EXCEPT ![c] = Tail(@)]
      /\ toServer[c] = <<>>
      /\ UNCHANGED <<pruning, serverVars>>
  BY DEF ClientStep, TInv, TypeOK, Turns, Idle, Asked, Answered
<1>2. /\ m \in Download /\ m = toClient[c][1]
      /\ Tail(toClient[c]) \in Seq(Download) /\ Len(toClient[c]) \in Nat /\ Len(toClient[c]) >= 1
      /\ Len(Tail(toClient[c])) = Len(toClient[c]) - 1
      /\ \A i \in 1 .. Len(Tail(toClient[c])) : Tail(toClient[c])[i] = toClient[c][i + 1]
      /\ Len(toClient[c]) = 1 => Tail(toClient[c]) = <<>>
  BY <1>1, TailShifts
<1>3. toClient' \in [Clients -> Seq(Download)]
  BY <1>1, <1>2
<1>4. started
  BY <1>1 DEF TInv, Turns
<1>5. CASE m.type = "model_para" /\ Train(c, m)
  <2>1. Asked(c) /\ Len(toClient[c]) = 1
    <3>1. Idle(c) \/ Asked(c) \/ Answered(c)
      BY DEF TInv, Turns
    <3>2. toClient[c][1].type = "model_para" /\ 1 \in 1 .. Len(toClient[c])
      BY <1>2, <1>5
    <3>4. ~Idle(c)
      BY <3>2 DEF Idle, Evaluations
    <3>5. ~Answered(c)
      BY <1>1 DEF Answered
    <3>3. Asked(c) => Len(toClient[c]) = 1
      BY <1>1, <1>5, HeadOfTurn DEF Asked
    <3> QED  BY <3>1, <3>3, <3>4, <3>5
  <2>2. /\ rank' \in [Clients -> Ranks]
        /\ toServer' \in [Clients -> Seq(Report)]
        /\ EndsWithModel(toServer'[c])
        /\ \A d \in Clients \ {c} : toServer'[d] = toServer[d]
    <3>1. PICK r \in Ranks, s \in Seq(Report) :
            /\ rank' = [rank EXCEPT ![c] = r]
            /\ toServer' = [toServer EXCEPT ![c] = s]
            /\ EndsWithModel(s)
      BY <1>1, <1>2, <1>5, TrainAnswers DEF TInv
    <3> QED  BY <3>1 DEF TInv, TypeOK, Report
  <2>3. TypeOK'
    BY <1>1, <1>3, <2>2 DEF TInv, TypeOK, serverVars, Report
  <2>4. Answered(c)'
    BY <1>1, <1>2, <2>1, <2>2 DEF Asked, Answered, serverVars, TInv, TypeOK
  <2>5. ASSUME NEW d \in Clients \ {c}
        PROVE  /\ Idle(d) => Idle(d)'
               /\ Idle(d)' \/ Asked(d)' \/ Answered(d)'
    BY <1>1, <2>2 DEF TInv, Turns, Idle, Asked, Answered, serverVars
  <2>6. round # TotalRounds
    BY <2>1 DEF TInv, Turns, Idle, Asked, Evaluations, EndsWithModel
  <2>7. Turns'
    BY <1>1, <1>4, <2>4, <2>5, <2>6 DEF Turns, serverVars
  <2> QED  BY <2>3, <2>7 DEF TInv
<1>6. CASE m.type = "evaluate" /\ UNCHANGED <<rank, toServer>>
  <2>1. TypeOK'
    BY <1>1, <1>3, <1>6 DEF TInv, TypeOK, serverVars
  <2>2. Idle(c) => Idle(c)'
    BY <1>1, <1>2, <1>6 DEF Idle, Evaluations
  <2>3. Asked(c) => Asked(c)'
    <3> SUFFICES ASSUME Asked(c)  PROVE EndsWithModel(Tail(toClient[c]))
      BY <1>1, <1>6 DEF Asked, serverVars, TInv, TypeOK
    <3>1. toClient[c] \in Seq(Download) /\ EndsWithModel(toClient[c])
      BY <1>1 DEF Asked
    <3> QED  BY <1>6, <3>1, HeadOfTurn
  <2>4. ~Answered(c)
    BY <1>1 DEF Answered
  <2>5. ASSUME NEW d \in Clients \ {c}
        PROVE  /\ Idle(d) => Idle(d)'
               /\ Idle(d)' \/ Asked(d)' \/ Answered(d)'
    BY <1>1, <1>6 DEF TInv, Turns, Idle, Asked, Answered, serverVars
  <2>6. Turns'
    BY <1>1, <1>4, <2>2, <2>3, <2>4, <2>5 DEF TInv, Turns, serverVars
  <2> QED  BY <2>1, <2>6 DEF TInv
<1> QED  BY <1>1, <1>5, <1>6 DEF ClientStep

\* Reading a report leaves the worker its turn, for its update is to come.
LEMMA RankTurn ==
  ASSUME TInv, NEW c \in Clients, HandleRank(c)
  PROVE  TInv'
<1> DEFINE m == Head(toServer[c])
<1>1. /\ toServer \in [Clients -> Seq(Report)] /\ toServer[c] # <<>>
      /\ m.type = "hetlora_rank"
      /\ toServer' = [toServer EXCEPT ![c] = Tail(@)]
      /\ record' = [record EXCEPT ![c] = Clamp(m.rank)]
      /\ config' = Updated(config, record')
      /\ UNCHANGED <<pruning, started, crashed, round, filled, buffer, rank, toClient>>
  BY DEF HandleRank, TInv, TypeOK, Report
<1>2. /\ m \in Report /\ m = toServer[c][1]
      /\ Tail(toServer[c]) \in Seq(Report) /\ Len(toServer[c]) \in Nat /\ Len(toServer[c]) >= 1
      /\ Len(Tail(toServer[c])) = Len(toServer[c]) - 1
      /\ \A i \in 1 .. Len(Tail(toServer[c])) : Tail(toServer[c])[i] = toServer[c][i + 1]
  BY <1>1, TailShifts
<1>3. TypeOK'
  <2>1. m.rank \in Ranks
    BY <1>1, <1>2 DEF Report, RankReport, Update
  <2>2. record' \in [Clients -> Ranks] /\ config' \in [Clients -> Ranks]
    BY <1>1, <2>1, ClampKeeps DEF TInv, TypeOK, Updated
  <2>3. toServer' \in [Clients -> Seq(Report)]
    BY <1>1, <1>2
  <2> QED  BY <1>1, <2>2, <2>3 DEF TInv, TypeOK, Report
<1>4. Answered(c)
  BY <1>1 DEF TInv, Turns, Idle, Asked
<1>5. EndsWithModel(Tail(toServer[c]))
  <2>1. toServer[c] \in Seq(Report) /\ EndsWithModel(toServer[c])
    BY <1>1, <1>4 DEF Answered
  <2> QED  BY <1>1, <2>1, HeadOfTurn
<1>6. Answered(c)'
  BY <1>1, <1>4, <1>5 DEF Answered
<1>7. ASSUME NEW d \in Clients \ {c}
      PROVE  /\ Idle(d) => Idle(d)'
             /\ Idle(d)' \/ Asked(d)' \/ Answered(d)'
  BY <1>1 DEF TInv, Turns, Idle, Asked, Answered
<1>8. Turns'
  BY <1>1, <1>6, <1>7 DEF TInv, Turns, Idle
<1> QED  BY <1>3, <1>8 DEF TInv

\* What a message of the server's round leaves of it.
LEMMA UpdateRead ==
  ASSUME TInv, NEW c \in Clients, HandleUpdate(c)
  PROVE  /\ Answered(c) /\ Len(toServer[c]) = 1 /\ toServer[c][1] = Head(toServer[c])
         /\ Head(toServer[c]) \in Update
         /\ toServer' = [toServer EXCEPT ![c] = <<>>]
<1> DEFINE m == Head(toServer[c])
<1>1. /\ toServer \in [Clients -> Seq(Report)] /\ toServer[c] # <<>>
      /\ m.type = "model_para"
      /\ toServer' = [toServer EXCEPT ![c] = Tail(@)]
  BY DEF HandleUpdate, TInv, TypeOK, Report
<1>2. /\ m \in Report /\ m = toServer[c][1] /\ Len(toServer[c]) \in Nat /\ Len(toServer[c]) >= 1
      /\ Len(toServer[c]) = 1 => Tail(toServer[c]) = <<>>
  BY <1>1, TailShifts
<1>3. Answered(c)
  BY <1>1 DEF TInv, Turns, Idle, Asked
<1>4. Len(toServer[c]) = 1
  <2>1. toServer[c] \in Seq(Report) /\ EndsWithModel(toServer[c])
    BY <1>1, <1>3 DEF Answered
  <2> QED  BY <1>1, <2>1, HeadOfTurn
<1>5. m \in Update
  BY <1>1, <1>2 DEF Report, RankReport, Update
<1> QED  BY <1>1, <1>2, <1>3, <1>4, <1>5

\* With its update the worker becomes idle; the last one lets all of them go on.
LEMMA UpdateTurn ==
  ASSUME TInv, NEW c \in Clients, HandleUpdate(c)
  PROVE  TInv'
<1> DEFINE m == Head(toServer[c])
           models == Filed(c, m.rows)
<1>1. /\ Answered(c) /\ m \in Update
      /\ toServer' = [toServer EXCEPT ![c] = <<>>]
  BY UpdateRead
<1>2. /\ UNCHANGED <<pruning, started, crashed, record, config, rank>>
      /\ toServer' \in [Clients -> Seq(Report)]
      /\ toClient \in [Clients -> Seq(Download)]
  BY <1>1, EmptyIsIdle DEF HandleUpdate, TInv, TypeOK, Report
<1>3. /\ DOMAIN models = DOMAIN buffer \cup {c} /\ DOMAIN models \subseteq Clients
      /\ models \in [DOMAIN models -> SUBSET Rows(MaxRank)]
  BY <1>1 DEF Filed, TInv, TypeOK, Update
<1>4. started /\ round # TotalRounds
  <2>1. toServer[c] # <<>>
    BY <1>1 DEF Answered, EndsWithModel
  <2> QED  BY <2>1 DEF TInv, Turns, Idle
<1>5. CASE ~RoundOver(models)
  <2>1. buffer' = models /\ UNCHANGED <<round, filled, toClient>>
    BY <1>5 DEF HandleUpdate
  <2>2. TypeOK'
    BY <1>2, <1>3, <2>1 DEF TInv, TypeOK, Report
  <2>3. Idle(c)'
    BY <1>1, <2>1, EmptyIsIdle DEF Idle, Answered, TInv, TypeOK
  <2>4. ASSUME NEW d \in Clients \ {c}
        PROVE  Idle(d)' \/ Asked(d)' \/ Answered(d)'
    BY <1>1, <1>3, <2>1 DEF TInv, TypeOK, Turns, Idle, Asked, Answered
  <2>5. Turns'
    BY <1>2, <1>4, <2>1, <2>3, <2>4 DEF TInv, Turns
  <2> QED  BY <2>2, <2>5 DEF TInv
<1>6. CASE RoundOver(models)
  <2> DEFINE evaluated == IF round' % EvalFreq = 0 \/ round' = TotalRounds
                            THEN Broadcast(toClient, "evaluate", config, filled')
                            ELSE toClient
  <2>1. /\ buffer' = [d \in {} |-> {}]
        /\ round' = round + 1
        /\ filled' = Aggregated(models)
        /\ toClient' = IF round' < TotalRounds
                         THEN Broadcast(evaluated, "model_para", config, filled')
                         ELSE evaluated
    BY <1>6 DEF HandleUpdate
  <2>2. filled' \in SUBSET Rows(MaxRank) /\ config \in [Clients -> Ranks]
    BY <1>3, <2>1 DEF Aggregated, TInv, TypeOK
  <2>3. evaluated \in [Clients -> Seq(Download)]
    BY <1>2, <2>2, BroadcastGrows
  <2>4. toClient' \in [Clients -> Seq(Download)]
    <3> HIDE DEF evaluated
    <3> QED  BY <2>1, <2>2, <2>3, BroadcastGrows
  <2>5. DOMAIN buffer' = {} /\ buffer' \in [DOMAIN buffer' -> SUBSET Rows(MaxRank)]
    BY <2>1
  <2>6. round' \in 0 .. TotalRounds
    BY <1>4, <2>1, HetLoraAssumption DEF TInv, TypeOK
  <2>7. TypeOK'
    BY <1>2, <2>2, <2>4, <2>5, <2>6 DEF TInv, TypeOK, Report
  <2>8. ASSUME NEW d \in Clients
        PROVE  toServer'[d] = <<>> /\ Evaluations(evaluated[d])
    <3>1. toServer'[d] = <<>> /\ Evaluations(toClient[d])
      <4>1. CASE d = c
        BY <1>1, <1>2, <4>1, EmptyIsIdle DEF Answered, TInv, TypeOK
      <4>2. CASE d # c
        <5>1. d \in DOMAIN buffer
          BY <1>3, <1>6, <4>2 DEF RoundOver
        <5>2. Idle(d)
          BY <5>1 DEF TInv, Turns, Asked, Answered
        <5> QED  BY <1>1, <4>2, <5>2 DEF Idle, TInv, TypeOK
      <4> QED  BY <4>1, <4>2
    <3> DEFINE sent == Payload("evaluate", config[d], filled')
    <3>2. sent \in Download /\ sent.type = "evaluate"
      BY <2>2 DEF Payload, Download
    <3>3. Grown(Broadcast(toClient, "evaluate", config, filled')[d], toClient[d], sent)
      BY <1>2, <2>2, BroadcastGrows
    <3>4. toClient[d] \in Seq(Download)
      BY <1>2
    <3> HIDE DEF sent
    <3>5. Evaluations(Broadcast(toClient, "evaluate", config, filled')[d])
      BY <3>1, <3>2, <3>3, <3>4, GrownTurn
    <3> QED  BY <3>1, <3>5
  <2>9. ASSUME NEW d \in Clients
        PROVE  IF round' < TotalRounds THEN Asked(d)' ELSE Idle(d)'
    <3> HIDE DEF evaluated
    <3>1. CASE round' < TotalRounds
      <4> DEFINE sent == Payload("model_para", config[d], filled')
      <4>1. sent \in Download /\ sent.type = "model_para"
        BY <2>2 DEF Payload, Download
      <4>2. Grown(toClient'[d], evaluated[d], sent)
        BY <2>1, <2>2, <2>3, <3>1, BroadcastGrows
      <4>3. evaluated[d] \in Seq(Download) /\ Evaluations(evaluated[d])
        BY <2>3, <2>8
      <4> HIDE DEF sent
      <4>4. EndsWithModel(toClient'[d])
        BY <4>1, <4>2, <4>3, GrownTurn
      <4> QED  BY <2>5, <2>8, <3>1, <4>4 DEF Asked
    <3>2. CASE ~(round' < TotalRounds)
      BY <2>1, <2>8, <3>2 DEF Idle
    <3> QED  BY <3>1, <3>2
  <2>10. Turns'
    BY <1>2, <1>4, <2>1, <2>6, <2>9, HetLoraAssumption DEF Turns
  <2> QED  BY <2>7, <2>10 DEF TInv
<1> QED  BY <1>5, <1>6

LEMMA TurnStep == TInv /\ [Next]_vars => TInv'
<1> SUFFICES ASSUME TInv, [Next]_vars  PROVE TInv'
  OBVIOUS
<1>1. CASE UNCHANGED vars
  BY <1>1 DEF vars, serverVars, TInv, TypeOK, Turns, Idle, Asked, Answered
<1>2. CASE Ended
  BY <1>2 DEF Ended, vars, serverVars, TInv, TypeOK, Turns, Idle, Asked, Answered
<1> QED  BY <1>1, <1>2, StartTurn, ClientTurn, RankTurn, UpdateTurn DEF Next

\* The variables of a HetLoRA course keep their types: every rank stays between its
\* bounds, every tensor within the rows of an adapter, and the round within the course,
\* however the workers prune themselves and whatever the task is.
THEOREM TypeCorrect == Spec => []TypeOK
<1>1. Init => TInv
  BY TypeInit
<1>2. TInv /\ [Next]_vars => TInv'
  BY TurnStep
<1>3. TInv => TypeOK
  BY DEF TInv
<1> QED  BY <1>1, <1>2, <1>3, PTL DEF Spec

-----------------------------------------------------------------------------
(* Ranks and rows.                                                         *)

LEMMA SettledInit ==
  ASSUME Init
  PROVE  Settled
BY HetLoraAssumption, EmptyIsIdle, EmptySeq DEF Init, Settled, Known, Full, AtRank

\* What a broadcast adds, if the server knows the ranks and has the rows for them.
LEMMA BroadcastFull ==
  ASSUME NEW inbox \in [Clients -> Seq(Download)], NEW type \in {"model_para", "evaluate"},
         NEW conf \in [Clients -> Ranks], NEW F \in SUBSET Rows(MaxRank),
         NEW c \in Clients, NEW r, conf[c] = r, Rows(r) \subseteq F, AtRank(inbox[c], r)
  PROVE  AtRank(Broadcast(inbox, type, conf, F)[c], r)
<1> DEFINE s == Broadcast(inbox, type, conf, F)[c]
           m == Payload(type, conf[c], F)
<1>1. Grown(s, inbox[c], m)
  BY BroadcastGrows
<1>2. m.rank = r /\ m.rows = Rows(r)
  BY DEF Payload
<1> HIDE DEF s, m
<1>3. AtRank(s, r)
  BY <1>1, <1>2 DEF Grown, AtRank
<1> QED  BY <1>3 DEF s

\* Ranks that fit are sent in full from the model that the course starts with.
LEMMA StartSettled ==
  ASSUME TInv, Settled, Start
  PROVE  Settled'
<1>1. /\ UNCHANGED <<record, config, filled, buffer, rank, toServer>>
      /\ started' /\ config = record /\ filled = Rows(MaxRank)
      /\ DOMAIN buffer = {}
      /\ config \in [Clients -> Ranks] /\ toClient \in [Clients -> Seq(Download)]
      /\ \A c \in Clients : toClient[c] = <<>> /\ toServer[c] = <<>> /\ record[c] = rank[c]
  BY DEF Start, TInv, TypeOK, Turns, Settled, Known
<1>2. ASSUME NEW c \in Clients
      PROVE  AtRank(toClient'[c], rank[c])
  <2>1. CASE ~Distributable(config)
    <3>1. toClient'[c] = <<>>
      BY <1>1, <2>1 DEF Start
    <3> QED  BY <3>1, EmptySeq DEF AtRank
  <2>2. CASE Distributable(config)
    <3>1. toClient' = Broadcast(toClient, "model_para", config, filled)
      BY <2>2 DEF Start
    <3>2. Rows(rank[c]) \subseteq filled /\ config[c] = rank[c]
      BY <1>1, <2>2, HetLoraAssumption DEF Distributable, Rows, Ranks
    <3>3. Len(toClient[c]) = 0
      BY <1>1, EmptySeq
    <3> QED  BY <1>1, <3>1, <3>2, <3>3, BroadcastFull DEF AtRank
  <2> QED  BY <2>1, <2>2
<1> QED  BY <1>1, <1>2 DEF Settled, Known, Full, AtRank

\* The rows of one worker do not depend on another's messages.
LEMMA OthersSettled ==
  ASSUME Settled, NEW c \in Clients, rank'[c] = rank[c], record'[c] = record[c],
         toServer'[c] = toServer[c], toClient'[c] = toClient[c],
         c \in DOMAIN buffer' => c \in DOMAIN buffer /\ buffer'[c] = buffer[c]
  PROVE  Known(c)' /\ Full(c)'
BY DEF Settled, Known, Full, AtRank

\* Training and pruning: the answer says what has become of the worker.
LEMMA ClientSettled ==
  ASSUME TInv, Settled, NEW c \in Clients, ClientStep(c)
  PROVE  Settled'
<1> DEFINE m == Head(toClient[c])
<1>1. /\ toClient \in [Clients -> Seq(Download)] /\ toClient[c] # <<>>
      /\ toServer \in [Clients -> Seq(Report)] /\ rank \in [Clients -> Ranks]
      /\ toClient' = [toClient EXCEPT ![c] = Tail(@)]
      /\ toServer[c] = <<>>
      /\ UNCHANGED <<started, record, config, filled, buffer>>
  BY DEF ClientStep, serverVars, TInv, TypeOK, Turns, Idle, Asked, Answered, Report
<1>2. /\ m \in Download /\ m = toClient[c][1]
      /\ Tail(toClient[c]) \in Seq(Download) /\ Len(toClient[c]) \in Nat /\ Len(toClient[c]) >= 1
      /\ Len(Tail(toClient[c])) = Len(toClient[c]) - 1
      /\ \A i \in 1 .. Len(Tail(toClient[c])) : Tail(toClient[c])[i] = toClient[c][i + 1]
      /\ Len(toClient[c]) = 1 <=> Tail(toClient[c]) = <<>>
  BY <1>1, TailShifts
<1>3. CASE m.type = "model_para" /\ Train(c, m)
  <2>1. Asked(c) /\ Len(toClient[c]) = 1 /\ m.rows = Rows(rank[c])
    <3>1. toClient[c][1].type = "model_para" /\ 1 \in 1 .. Len(toClient[c])
      BY <1>2, <1>3
    <3>2. Asked(c)
      BY <1>1, <3>1 DEF TInv, Turns, Idle, Answered, Evaluations
    <3>3. Len(toClient[c]) = 1
      BY <1>1, <1>3, <3>2, HeadOfTurn DEF Asked
    <3>4. m.rows = Rows(rank[c])
      BY <1>2, <3>1 DEF Settled, Full, AtRank
    <3> QED  BY <3>2, <3>3, <3>4
  <2>2. PICK r \in Ranks, s \in Seq(Report) :
          /\ r <= rank[c]
          /\ rank' = [rank EXCEPT ![c] = r]
          /\ toServer' = [toServer EXCEPT ![c] = s]
          /\ Answering(s, rank[c], r, m.rows)
    BY <1>1, <1>2, <1>3, TrainAnswers DEF TInv
  <2>3. record[c] = rank[c] /\ rank'[c] = r /\ toServer'[c] = s /\ toClient'[c] = <<>>
    BY <1>1, <1>2, <2>1, <2>2 DEF Settled, Known
  <2>4. Full(c)'
    <3>1. c \notin DOMAIN buffer'
      BY <1>1, <2>1 DEF Asked
    <3> QED  BY <2>3, <3>1, EmptySeq DEF Full, AtRank
  <2>5. Head(s) = s[1] /\ s # <<>> /\ s[Len(s)].type = "model_para"
    BY <2>2, TailShifts DEF Answering
  <2>6. Known(c)'
    <3>1. Head(s).type = "model_para" => record'[c] = rank'[c]
      <4>1. CASE r < rank[c]
        <5>1. s[1].type = "hetlora_rank"
          BY <2>2, <4>1 DEF Answering
        <5> QED  BY <2>5, <5>1
      <4>2. CASE ~(r < rank[c])
        <5>1. r = rank[c]
          BY <1>1, <2>2, <4>2 DEF Ranks
        <5> QED  BY <1>1, <2>3, <5>1
      <4> QED  BY <4>1, <4>2
    <3>2. ASSUME NEW i \in 1 .. Len(s)
          PROVE  IF s[i].type = "model_para" THEN s[i].rows = Rows(r) ELSE s[i].rank = r
      <4>1. CASE i = Len(s)
        BY <2>1, <2>2, <4>1 DEF Answering
      <4>2. CASE i # Len(s)
        BY <2>2, <4>2 DEF Answering
      <4> QED  BY <4>1, <4>2
    <3> QED  BY <2>3, <2>5, <3>1, <3>2 DEF Known
  <2>7. ASSUME NEW d \in Clients \ {c}  PROVE Known(d)' /\ Full(d)'
    BY <1>1, <2>2, OthersSettled
  <2> QED  BY <1>1, <2>4, <2>6, <2>7 DEF Settled
<1>4. CASE m.type = "evaluate" /\ UNCHANGED <<rank, toServer>>
  <2>1. Known(c)'
    BY <1>1, <1>4 DEF Settled, Known
  <2>2. AtRank(toClient[c], rank[c]) /\ (c \in DOMAIN buffer => buffer[c] = Rows(rank[c]))
    BY DEF Settled, Full
  <2>3. AtRank(Tail(toClient[c]), rank[c])
    <3>1. ASSUME NEW i \in 1 .. Len(Tail(toClient[c]))
          PROVE  Tail(toClient[c])[i] = toClient[c][i + 1] /\ i + 1 \in 1 .. Len(toClient[c])
      BY <1>2
    <3> QED  BY <2>2, <3>1 DEF AtRank
  <2>4. Full(c)'
    BY <1>1, <1>4, <2>2, <2>3 DEF Full
  <2>5. ASSUME NEW d \in Clients \ {c}  PROVE Known(d)' /\ Full(d)'
    BY <1>1, <1>4, OthersSettled
  <2> QED  BY <1>1, <2>1, <2>4, <2>5 DEF Settled
<1> QED  BY <1>3, <1>4 DEF ClientStep

\* The report is what the server did not know.
LEMMA RankSettled ==
  ASSUME ~Vlm, TInv, Settled, NEW c \in Clients, HandleRank(c)
  PROVE  Settled'
<1> DEFINE m == Head(toServer[c])
<1>1. /\ toServer \in [Clients -> Seq(Report)] /\ toServer[c] # <<>>
      /\ rank \in [Clients -> Ranks] /\ record \in [Clients -> Ranks]
      /\ m.type = "hetlora_rank"
      /\ toServer' = [toServer EXCEPT ![c] = Tail(@)]
      /\ record' = [record EXCEPT ![c] = Clamp(m.rank)]
      /\ config' = record'
      /\ UNCHANGED <<started, filled, buffer, rank, toClient>>
  BY DEF HandleRank, Updated, TInv, TypeOK, Report
<1>2. /\ m = toServer[c][1] /\ Len(toServer[c]) \in Nat /\ Len(toServer[c]) >= 1
      /\ Len(Tail(toServer[c])) = Len(toServer[c]) - 1
      /\ \A i \in 1 .. Len(Tail(toServer[c])) : Tail(toServer[c])[i] = toServer[c][i + 1]
  BY <1>1, TailShifts
<1>3. m.rank = rank[c]
  <2>1. 1 \in 1 .. Len(toServer[c]) /\ toServer[c][1].type # "model_para"
    BY <1>1, <1>2
  <2>2. toServer[c][1].rank = rank[c]
    BY <2>1 DEF Settled, Known
  <2> QED  BY <1>2, <2>2
<1>4. record'[c] = rank[c]
  BY <1>1, <1>3, ClampKeeps
<1>5. Known(c)'
  BY <1>1, <1>2, <1>4 DEF Settled, Known
<1>6. Full(c)'
  BY <1>1 DEF Settled, Full
<1>7. ASSUME NEW d \in Clients \ {c}  PROVE Known(d)' /\ Full(d)'
  BY <1>1, OthersSettled
<1> QED  BY <1>1, <1>5, <1>6, <1>7 DEF Settled

\* Every worker has uploaded its rows, and the server knows the ranks of all: the next
\* model has the rows that it will send.
LEMMA UpdateSettled ==
  ASSUME TInv, Settled, NEW c \in Clients, HandleUpdate(c)
  PROVE  Settled'
<1> DEFINE m == Head(toServer[c])
           models == Filed(c, m.rows)
<1>1. /\ Answered(c) /\ Len(toServer[c]) = 1 /\ m = toServer[c][1] /\ m \in Update
      /\ toServer' = [toServer EXCEPT ![c] = <<>>]
  BY UpdateRead
<1>2. /\ UNCHANGED <<started, record, config, rank>>
      /\ toServer \in [Clients -> Seq(Report)] /\ toClient \in [Clients -> Seq(Download)]
      /\ config \in [Clients -> Ranks] /\ config = record
      /\ toClient[c] = <<>>
  BY <1>1 DEF HandleUpdate, TInv, TypeOK, Report, Settled, Answered
<1>3. record[c] = rank[c] /\ m.rows = Rows(rank[c])
  <2>1. m.type = "model_para" /\ 1 \in 1 .. Len(toServer[c])
    BY <1>1 DEF Update
  <2> QED  BY <1>1, <2>1 DEF Settled, Known
<1>4. /\ DOMAIN models = DOMAIN buffer \cup {c}
      /\ \A d \in DOMAIN models \cap Clients : models[d] = Rows(rank[d])
  BY <1>3 DEF Filed, Settled, Full
<1>5. started
  <2>1. toServer[c] # <<>>
    BY <1>1 DEF Answered, EndsWithModel
  <2> QED  BY <2>1 DEF TInv, Turns
<1>6. CASE ~RoundOver(models)
  <2>1. buffer' = models /\ toClient' = toClient
    BY <1>6 DEF HandleUpdate
  <2>2. toServer'[c] = <<>> /\ toClient'[c] = <<>> /\ rank'[c] = rank[c] /\ record'[c] = rank[c]
    BY <1>1, <1>2, <1>3, <2>1
  <2>3. Known(c)' /\ Full(c)'
    <3>1. buffer'[c] = Rows(rank[c])
      BY <1>4, <2>1
    <3>2. Len(<<>>) = 0
      BY EmptySeq
    <3> QED  BY <2>2, <3>1, <3>2 DEF Known, Full, AtRank
  <2>4. ASSUME NEW d \in Clients \ {c}  PROVE Known(d)' /\ Full(d)'
    <3>1. d \in DOMAIN models => d \in DOMAIN buffer /\ models[d] = buffer[d]
      BY DEF Filed
    <3> QED  BY <1>1, <1>2, <2>1, <3>1, OthersSettled
  <2> QED  BY <1>2, <1>5, <2>3, <2>4 DEF Settled
<1>7. CASE RoundOver(models)
  <2> DEFINE evaluated == IF round' % EvalFreq = 0 \/ round' = TotalRounds
                            THEN Broadcast(toClient, "evaluate", config, filled')
                            ELSE toClient
  <2>1. /\ buffer' = [d \in {} |-> {}]
        /\ filled' = Aggregated(models)
        /\ toClient' = IF round' < TotalRounds
                         THEN Broadcast(evaluated, "model_para", config, filled')
                         ELSE evaluated
    BY <1>7 DEF HandleUpdate
  <2>2. filled' \in SUBSET Rows(MaxRank)
    BY UpdateTurn DEF TInv, TypeOK
  <2>3. evaluated \in [Clients -> Seq(Download)]
    BY <1>2, <2>2, BroadcastGrows
  <2>4. ASSUME NEW d \in Clients
        PROVE  toServer'[d] = <<>> /\ record[d] = rank[d]
    <3>1. CASE d = c
      BY <1>1, <1>2, <1>3, <3>1
    <3>2. CASE d # c
      <4>1. d \in DOMAIN buffer
        BY <1>4, <1>7, <3>2 DEF RoundOver
      <4>2. toServer[d] = <<>>
        BY <4>1 DEF TInv, Turns, Idle, Asked, Answered
      <4> QED  BY <1>1, <1>2, <3>2, <4>2 DEF Settled, Known
    <3> QED  BY <3>1, <3>2
  <2>5. ASSUME NEW d \in Clients
        PROVE  AtRank(toClient'[d], rank[d])
    <3>1. Rows(rank[d]) \subseteq filled' /\ config[d] = rank[d]
      BY <1>2, <1>4, <1>7, <2>1, <2>4 DEF Aggregated, RoundOver
    <3>2. AtRank(toClient[d], rank[d])
      BY DEF Settled, Full
    <3>3. AtRank(Broadcast(toClient, "evaluate", config, filled')[d], rank[d])
      BY <1>2, <2>2, <3>1, <3>2, BroadcastFull
    <3>4. AtRank(evaluated[d], rank[d])
      BY <3>2, <3>3
    <3> HIDE DEF evaluated
    <3>5. AtRank(Broadcast(evaluated, "model_para", config, filled')[d], rank[d])
      BY <1>2, <2>2, <2>3, <3>1, <3>4, BroadcastFull
    <3> QED  BY <2>1, <3>4, <3>5
  <2>6. ASSUME NEW d \in Clients  PROVE Known(d)' /\ Full(d)'
    <3>1. Len(<<>>) = 0 /\ DOMAIN buffer' = {}
      BY <2>1, EmptySeq
    <3> QED  BY <1>2, <2>4, <2>5, <3>1 DEF Known, Full
  <2> QED  BY <1>2, <1>5, <2>6 DEF Settled
<1> QED  BY <1>6, <1>7

\* The inductive invariant: turns, types and, unless the server forgets what it is told,
\* agreement about the ranks.
IInv == TInv /\ (~Vlm => Settled)

THEOREM InductiveInvariant == Spec => []IInv
<1>1. Init => IInv
  BY TypeInit, SettledInit DEF IInv
<1>2. TInv /\ [Next]_vars => TInv'
  BY TurnStep
<1>3. ASSUME TInv, Settled, ~Vlm, [Next]_vars  PROVE Settled'
  <2>1. CASE UNCHANGED vars
    BY <1>3, <2>1 DEF vars, serverVars, Settled, Known, Full
  <2>2. CASE Ended
    BY <1>3, <2>2 DEF Ended, vars, serverVars, Settled, Known, Full
  <2>3. CASE Start
    BY <1>3, <2>3, StartSettled
  <2>4. ASSUME NEW c \in Clients, ClientStep(c) \/ HandleRank(c) \/ HandleUpdate(c)
        PROVE  Settled'
    BY <1>3, <2>4, ClientSettled, RankSettled, UpdateSettled
  <2> QED  BY <1>3, <2>1, <2>2, <2>3, <2>4 DEF Next
<1>4. IInv /\ [Next]_vars => IInv'
  BY <1>2, <1>3 DEF IInv
<1> QED  BY <1>1, <1>4, PTL DEF Spec

\* Unless the task is a vision-language one, the server's account of the ranks agrees
\* with the workers' own whenever it matters, however often they prune themselves.
THEOREM AccountsAgree ==
  ASSUME ~Vlm
  PROVE  Spec => []RanksAgree
<1>1. IInv => RanksAgree
  <2> SUFFICES ASSUME IInv, NEW c \in Clients
               PROVE  /\ \A i \in DOMAIN toClient[c] : toClient[c][i].rank = rank[c]
                      /\ toServer[c] = <<>> => record[c] = rank[c]
    BY DEF RanksAgree
  <2>1. DOMAIN toClient[c] = 1 .. Len(toClient[c])
    <3>1. toClient[c] \in Seq(Download)
      BY DEF IInv, TInv, TypeOK
    <3> QED  BY <3>1, LenProperties
  <2> QED  BY <2>1 DEF IInv, Settled, Known, Full, AtRank
<1> QED  BY <1>1, InductiveInvariant, PTL

\* And every row that a worker is sent is filled: truncation and padding lose none that
\* anyone still has.
THEOREM RowsAreFilled ==
  ASSUME ~Vlm
  PROVE  Spec => []NoEmptyRows
<1>1. IInv => NoEmptyRows
  <2> SUFFICES ASSUME IInv, NEW c \in Clients, NEW i \in DOMAIN toClient[c]
               PROVE  toClient[c][i].rows = Rows(toClient[c][i].rank)
    BY DEF NoEmptyRows
  <2>1. DOMAIN toClient[c] = 1 .. Len(toClient[c])
    <3>1. toClient[c] \in Seq(Download)
      BY DEF IInv, TInv, TypeOK
    <3> QED  BY <3>1, LenProperties
  <2> QED  BY <2>1 DEF IInv, Settled, Full, AtRank
<1> QED  BY <1>1, InductiveInvariant, PTL
================================================================================
