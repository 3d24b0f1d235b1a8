--------------------------- MODULE AdaSparseProofs ---------------------------
(***************************************************************************)
(* Theorems about AdaSparse, for any number of workers, layers, rounds and *)
(* budgets, and whatever is pruned and selected: server and workers agree  *)
(* on the survivors, what was pruned stays pruned, and the floor of the    *)
(* ranks holds over all rounds.                                            *)
(*                                                                         *)
(* All three rest on whose turn it is: the server sends only when every    *)
(* worker's upload of the round has been read.                             *)
(***************************************************************************)
EXTENDS AdaSparse, FiniteSetTheorems, FunctionTheorems, SequenceTheorems, TLAPS

\* The workers whose uploads of the round have been read.
Senders == {buffer[i][1] : i \in DOMAIN buffer}

\* Worker c owes the server an upload, has uploaded, or has been read; only the last
\* message it is sent asks for training.
Turn(c) ==
  /\ Len(toServer[c]) <= 1
  /\ toServer[c] # <<>> => toClient[c] = <<>> /\ c \notin Senders
  /\ c \in Senders => toClient[c] = <<>>
  /\ \A i \in DOMAIN toClient[c] :
       i < Len(toClient[c]) => toClient[c][i].type = "evaluate"

\* Before the course nothing is under way, and after its last round no training is.
Quiet ==
  /\ ~started => /\ round = 0 /\ buffer = <<>>
                 /\ \A c \in Clients : toClient[c] = <<>> /\ toServer[c] = <<>>
  /\ round = TotalRounds =>
       \A c \in Clients :
         /\ toServer[c] = <<>>
         /\ \A i \in DOMAIN toClient[c] : toClient[c][i].type = "evaluate"

Finite == \A c \in Clients : IsFiniteSet(survivors[c]) /\ IsFiniteSet(known[c])

IInv ==
  /\ TypeOK
  /\ Cardinality(Senders) = Len(buffer)
  /\ \A c \in Clients : Turn(c)
  /\ Quiet
  /\ Agreement
  /\ Finite
  /\ RankFloor

-----------------------------------------------------------------------------
(* What is selected and pruned.                                            *)

\* A worker starts with finitely many components, and at least one.
LEMMA InitialFinite ==
  ASSUME NEW c \in Clients
  PROVE  /\ InitialSurvivors(c) \in SUBSET Component
         /\ IsFiniteSet(InitialSurvivors(c))
<1> DEFINE f == [l \in Layers |-> {l} \X (0 .. Rank[c][l] - 1)]
           T == {{l} \X (0 .. Rank[c][l] - 1) : l \in Layers}
<1>1. InitialSurvivors(c) = UNION T
  BY DEF InitialSurvivors
<1>2. f \in Surjection(Layers, T)
  <2>1. f \in [Layers -> T]
    OBVIOUS
  <2>2. \A t \in T : \E l \in Layers : f[l] = t
    OBVIOUS
  <2> QED  BY <2>1, <2>2, Fun_IsSurj
<1>3. IsFiniteSet(T)
  <2> HIDE DEF f, T
  <2> QED  BY <1>2, FS_Surjection, AdaSparseAssumption
<1>4. ASSUME NEW t \in T  PROVE IsFiniteSet(t)
  <2>1. PICK l \in Layers : t = {l} \X (0 .. Rank[c][l] - 1)
    OBVIOUS
  <2>2. IsFiniteSet(0 .. Rank[c][l] - 1)
    BY FS_Interval, AdaSparseAssumption
  <2>3. IsFiniteSet({l})
    BY FS_Singleton
  <2> QED  BY <2>1, <2>2, <2>3, FS_Product
<1>5. IsFiniteSet(UNION T)
  <2> HIDE DEF T
  <2> QED  BY <1>3, <1>4, FS_UNION
<1>6. ASSUME NEW x \in InitialSurvivors(c)  PROVE x \in Component
  <2>1. PICK l \in Layers : x \in {l} \X (0 .. Rank[c][l] - 1)
    BY <1>6 DEF InitialSurvivors
  <2> DEFINE K == {{k} \X (0 .. Rank[d][k] - 1) : d \in Clients, k \in Layers}
  <2>2. {l} \X (0 .. Rank[c][l] - 1) \in K
    OBVIOUS
  <2>3. x \in UNION K
    <3> HIDE DEF K
    <3> QED  BY <2>1, <2>2
  <2> QED  BY <2>3 DEF Component
<1> QED  BY <1>1, <1>5, <1>6

\* What Stage 1 leaves of S: a part of it that respects every floor up to rank_min
\* that S respects.
LEMMA PruningLeavesFloor ==
  ASSUME NEW S, IsFiniteSet(S), NEW P \in Prunings(S),
         NEW floor \in Nat, floor <= RankMin, Cardinality(S) >= floor
  PROVE  /\ S \ P \in SUBSET S
         /\ IsFiniteSet(S \ P)
         /\ Cardinality(S \ P) >= floor
<1> DEFINE n   == Cardinality(S)
           x   == (n * Gamma) \div 100
           cap == Most(0, n - Most(RankMin, x))
<1>1. n \in Nat /\ RankMin \in Nat /\ Gamma \in Nat
  BY FS_CardinalityType, AdaSparseAssumption
<1>2. P \in SUBSET S /\ Cardinality(P) <= cap
  BY DEF Prunings
<1>3. x \in Int
  <2>1. n * Gamma \in Nat
    BY <1>1
  <2> HIDE DEF n
  <2> QED  BY <2>1
<1>4. cap \in Int /\ (cap <= 0 \/ cap <= n - RankMin)
  <2> HIDE DEF n, x
  <2> QED  BY <1>1, <1>3 DEF Most
<1>5. /\ IsFiniteSet(S \ P)
      /\ Cardinality(S \ P) = n - Cardinality(S \cap P)
      /\ S \cap P = P
      /\ IsFiniteSet(P) /\ Cardinality(P) \in Nat
  BY <1>2, FS_Difference, FS_Subset, FS_CardinalityType
<1>6. Cardinality(S \ P) = n - Cardinality(P)
  BY <1>5
<1>7. n - Cardinality(P) >= floor
  <2> HIDE DEF n, cap
  <2>1. n >= floor
    BY DEF n
  <2> QED  BY <1>1, <1>2, <1>4, <1>5, <2>1
<1> QED  BY <1>5, <1>6, <1>7

\* Whatever is uploaded survives.
LEMMA UploadsSurvive ==
  ASSUME NEW S, NEW b, NEW T \in Uploads(S, b)
  PROVE  T \in SUBSET S
<1>1. CASE ~stage2 \/ b \in {0, Unlimited}
  BY <1>1 DEF Uploads
<1>2. CASE ~(~stage2 \/ b \in {0, Unlimited})
  <2>1. PICK R \in Selections(S, b) : T = IF R = {} THEN S ELSE R
    BY <1>2 DEF Uploads
  <2>2. R \in SUBSET S
    BY <2>1 DEF Selections
  <2> QED  BY <2>1, <2>2
<1> QED  BY <1>1, <1>2

\* Part of a map of rows is a map of rows.
LEMMA OnlyRows ==
  ASSUME NEW S \in SUBSET Component, NEW f,
         \A x \in S : f[x] \in SUBSET Component
  PROVE  Only(f, S) \in Rows /\ DOMAIN Only(f, S) = S
<1>1. Only(f, S) \in [S -> SUBSET Component]
  BY DEF Only
<1> QED  BY <1>1 DEF Rows, Only

LEMMA RowsRows ==
  ASSUME NEW f \in Rows
  PROVE  DOMAIN f \in SUBSET Component /\ \A x \in DOMAIN f : f[x] \in SUBSET Component
BY DEF Rows

LEMMA NoRowsRows == NoRows \in Rows
BY DEF NoRows, Rows

\* The update with residuals is a map of rows.
LEMMA EffectiveRows ==
  ASSUME NEW S \in SUBSET Component, NEW L \in SUBSET Component, NEW res \in Rows
  PROVE  \A x \in S : Effective(S, L, res)[x] \in SUBSET Component
<1> TAKE x \in S
<1>1. RowOf(S, L, x) \in SUBSET Component
  BY DEF RowOf, InLayer
<1>2. x \in DOMAIN res => res[x] \in SUBSET Component
  BY RowsRows
<1> QED  BY <1>1, <1>2 DEF Effective

-----------------------------------------------------------------------------
(* What the server sends.                                                  *)

\* A channel with messages for a worker whose survivors are R, of which only the last
\* may ask for training; and one that asks for evaluation only.
Asks(s, R) ==
  /\ s \in Seq(Download)
  /\ \A i \in DOMAIN s : s[i].survivors = R /\ (i < Len(s) => s[i].type = "evaluate")

Evals(s, R) ==
  /\ s \in Seq(Download)
  /\ \A i \in DOMAIN s : s[i].survivors = R /\ s[i].type = "evaluate"

\* One message of that type for a worker whose survivors are R, or none.
Single(s, R, type) ==
  /\ s \in Seq(Download)
  /\ Len(s) = 0 \/ Len(s) = 1
  /\ \A i \in DOMAIN s : s[i].survivors = R /\ s[i].type = type

LEMMA MessagesTyped ==
  ASSUME NEW type \in {"model_para", "evaluate"}, NEW S \in SUBSET Component,
         NEW D \in SUBSET Component, NEW rnd
  PROVE  Single(Messages(type, S, D, rnd), S, type)
<1> DEFINE m == [type |-> type, survivors |-> S, download |-> D,
                 partial |-> rnd # 0 /\ Cardinality(D) < Cardinality(S)]
<1>1. m \in Download /\ m.survivors = S /\ m.type = type
  <2>1. (rnd # 0 /\ Cardinality(D) < Cardinality(S)) \in BOOLEAN
    OBVIOUS
  <2> QED  BY <2>1 DEF Download
<1>2. Messages(type, S, D, rnd) = IF S = {} THEN <<>> ELSE <<m>>
  BY DEF Messages
<1> HIDE DEF m
<1> QED  BY <1>1, <1>2 DEF Single

\* A broadcast after evaluation requests leaves the request for training the last.
LEMMA BroadcastAsks ==
  ASSUME NEW inbox \in [Clients -> Seq(Download)], NEW rec \in [Clients -> SUBSET Component],
         NEW D \in [Clients -> SUBSET Component], NEW rnd,
         NEW type \in {"model_para", "evaluate"},
         \A c \in Clients : Evals(inbox[c], rec[c]),
         NEW sent, sent = Broadcast(inbox, type, rec, D, rnd)
  PROVE  /\ sent \in [Clients -> Seq(Download)]
         /\ \A c \in Clients : Asks(sent[c], rec[c])
         /\ type = "evaluate" => \A c \in Clients : Evals(sent[c], rec[c])
<1> DEFINE new(c) == Messages(type, rec[c], D[c], rnd)
<1>1. sent = [c \in Clients |-> inbox[c] \o new(c)]
  BY DEF Broadcast
<1>2. ASSUME NEW c \in Clients
      PROVE  /\ inbox[c] \o new(c) \in Seq(Download)
             /\ Asks(inbox[c] \o new(c), rec[c])
             /\ type = "evaluate" => Evals(inbox[c] \o new(c), rec[c])
  <2> DEFINE a == inbox[c]
             b == new(c)
  <2>1. /\ a \in Seq(Download)
        /\ \A i \in DOMAIN a : a[i].survivors = rec[c] /\ a[i].type = "evaluate"
    BY DEF Evals
  <2>2. /\ b \in Seq(Download)
        /\ Len(b) = 0 \/ Len(b) = 1
        /\ \A i \in DOMAIN b : b[i].survivors = rec[c] /\ b[i].type = type
    <3>1. rec[c] \in SUBSET Component /\ D[c] \in SUBSET Component
      OBVIOUS
    <3>2. Single(b, rec[c], type)
      BY <3>1, MessagesTyped
    <3> HIDE DEF b
    <3> QED  BY <3>2 DEF Single
  <2> HIDE DEF a, b
  <2>3. /\ a \o b \in Seq(Download)
        /\ Len(a \o b) = Len(a) + Len(b)
        /\ \A i \in 1 .. Len(a) + Len(b) :
             (a \o b)[i] = IF i <= Len(a) THEN a[i] ELSE b[i - Len(a)]
    BY <2>1, <2>2, ConcatProperties
  <2>4. /\ Len(a) \in Nat /\ DOMAIN a = 1 .. Len(a)
        /\ Len(b) \in Nat /\ DOMAIN b = 1 .. Len(b)
        /\ DOMAIN (a \o b) = 1 .. Len(a) + Len(b)
    BY <2>1, <2>2, <2>3, LenProperties
  <2>5. ASSUME NEW i \in DOMAIN (a \o b)
        PROVE  /\ (a \o b)[i].survivors = rec[c]
               /\ i < Len(a \o b) => (a \o b)[i].type = "evaluate"
               /\ type = "evaluate" => (a \o b)[i].type = "evaluate"
    <3>1. CASE i <= Len(a)
      BY <2>1, <2>3, <2>4, <3>1
    <3>2. CASE i > Len(a)
      <4>1. i - Len(a) \in DOMAIN b /\ i = Len(a \o b)
        <5>1. i \in 1 .. Len(a) + Len(b) /\ Len(a) \in Nat /\ Len(b) \in Nat
          BY <2>4
        <5>2. i = Len(a) + 1 /\ Len(b) = 1
          BY <2>2, <3>2, <5>1
        <5> QED  BY <2>3, <2>4, <5>1, <5>2
      <4>2. (a \o b)[i] = b[i - Len(a)]
        BY <2>3, <2>4, <3>2
      <4> QED  BY <2>2, <2>3, <2>4, <4>1, <4>2
    <3> QED  BY <2>4, <3>1, <3>2
  <2>6. a \o b \in Seq(Download) /\ Asks(a \o b, rec[c])
    BY <2>3, <2>5 DEF Asks
  <2>7. type = "evaluate" => Evals(a \o b, rec[c])
    BY <2>3, <2>5 DEF Evals
  <2> QED  BY <2>6, <2>7 DEF a, b
<1> HIDE DEF new
<1>3. sent \in [Clients -> Seq(Download)]
  BY <1>1, <1>2
<1>4. \A c \in Clients : sent[c] = inbox[c] \o new(c)
  BY <1>1
<1> QED  BY <1>2, <1>3, <1>4

-----------------------------------------------------------------------------
(* The first step.                                                         *)

LEMMA InitHolds == Init => IInv
<1> SUFFICES ASSUME Init  PROVE IInv
  OBVIOUS
<1> USE DEF Init
<1>1. ASSUME NEW c \in Clients
      PROVE  /\ known[c] = InitialSurvivors(c) /\ survivors[c] = known[c]
             /\ known[c] \in SUBSET Component /\ IsFiniteSet(known[c])
             /\ toClient[c] = <<>> /\ toServer[c] = <<>>
  BY InitialFinite
<1>2. TypeOK
  <2>1. known \in [Clients -> SUBSET Component]
    BY InitialFinite
  <2>2. residual \in [Clients -> Rows]
    BY NoRowsRows
  <2>3. round \in 0 .. TotalRounds
    BY AdaSparseAssumption
  <2>4. buffer \in Seq(Clients \X Rows) /\ Len(buffer) <= Cardinality(Clients)
    BY AdaSparseAssumption, FS_CardinalityType
  <2>5. toClient \in [Clients -> Seq(Download)] /\ toServer \in [Clients -> Seq(Upload)]
    OBVIOUS
  <2> QED  BY <2>1, <2>2, <2>3, <2>4, <2>5 DEF TypeOK
<1>3. Senders = {} /\ Cardinality(Senders) = Len(buffer)
  <2>1. DOMAIN buffer = {}
    OBVIOUS
  <2>2. Senders = {}
    BY <2>1 DEF Senders
  <2> QED  BY <2>2, FS_EmptySet
<1>4. \A c \in Clients : Turn(c)
  BY <1>1, <1>3 DEF Turn
<1>5. Quiet
  BY <1>1, AdaSparseAssumption DEF Quiet
<1>6. Agreement /\ Finite
  BY <1>1 DEF Agreement, Finite
<1>7. RankFloor
  <2>1. ASSUME NEW c \in Clients
        PROVE  Cardinality(InitialSurvivors(c)) >= Least(RankMin, Cardinality(InitialSurvivors(c)))
    <3>1. Cardinality(InitialSurvivors(c)) \in Nat /\ RankMin \in Nat
      BY InitialFinite, FS_CardinalityType, AdaSparseAssumption
    <3> QED  BY <3>1 DEF Least
  <2> QED  BY <1>1, <2>1 DEF RankFloor
<1> QED  BY <1>2, <1>3, <1>4, <1>5, <1>6, <1>7 DEF IInv

\* What a broadcast to silent channels leaves.
LEMMA StartKeeps ==
  ASSUME IInv, Start
  PROVE  IInv'
<1> USE DEF Start
<1>1. /\ UNCHANGED <<stage2, round, known, updates, buffer, survivors, loaded, residual,
                     partial, failed, toServer>>
      /\ started' = TRUE
      /\ toClient' = Broadcast(toClient, "model_para", known, known, 0)
      /\ round = 0 /\ buffer = <<>>
      /\ \A c \in Clients : toClient[c] = <<>> /\ toServer[c] = <<>>
  BY DEF clientVars, IInv, Quiet
<1>2. TypeOK
  BY DEF IInv
<1>3. /\ toClient' \in [Clients -> Seq(Download)]
      /\ \A c \in Clients : Asks(toClient'[c], known[c])
  <2>1. /\ toClient \in [Clients -> Seq(Download)]
        /\ known \in [Clients -> SUBSET Component]
    BY <1>2 DEF TypeOK
  <2>2. \A c \in Clients : Evals(toClient[c], known[c])
    BY <1>1, <2>1 DEF Evals
  <2> QED  BY <1>1, <2>1, <2>2, BroadcastAsks
<1>4. TypeOK'
  BY <1>1, <1>2, <1>3 DEF TypeOK
<1>5. Senders' = Senders /\ Senders = {}
  <2>1. DOMAIN buffer = {}
    BY <1>1
  <2> QED  BY <1>1, <2>1 DEF Senders
<1>6. ASSUME NEW c \in Clients  PROVE Turn(c)'
  BY <1>1, <1>3, <1>5 DEF Turn, Asks, IInv
<1>7. Quiet'
  <2>1. round # TotalRounds
    BY <1>1, AdaSparseAssumption
  <2> QED  BY <1>1, <2>1 DEF Quiet
<1>8. Agreement'
  BY <1>1, <1>3 DEF Agreement, IInv, Asks
<1>9. Finite' /\ RankFloor'
  BY <1>1 DEF Finite, RankFloor, IInv
<1> QED  BY <1>1, <1>4, <1>5, <1>6, <1>7, <1>8, <1>9 DEF IInv

-----------------------------------------------------------------------------
(* A worker's steps.                                                       *)

\* What is known of the message that a worker takes.
LEMMA MessageTaken ==
  ASSUME IInv, NEW c \in Clients, toClient[c] # <<>>
  PROVE  /\ Head(toClient[c]) \in Download
         /\ Head(toClient[c]).survivors = known[c] /\ survivors[c] = known[c]
         /\ toServer[c] = <<>> /\ c \notin Senders
         /\ Tail(toClient[c]) \in Seq(Download)
         /\ Len(toClient[c]) \in Nat /\ Len(Tail(toClient[c])) = Len(toClient[c]) - 1
         /\ \A i \in DOMAIN Tail(toClient[c]) :
              i + 1 \in DOMAIN toClient[c] /\ Tail(toClient[c])[i] = toClient[c][i + 1]
         /\ Head(toClient[c]).type = "model_para" =>
              Tail(toClient[c]) = <<>> /\ round # TotalRounds
<1> DEFINE s == toClient[c]
<1>1. s \in Seq(Download) /\ s # <<>>
  BY DEF IInv, TypeOK
<1>2. toServer[c] = <<>> /\ c \notin Senders
  BY DEF IInv, Turn
<1>3. /\ \A i \in DOMAIN s : s[i].survivors = known[c]
      /\ survivors[c] = known[c]
  BY <1>2 DEF IInv, Agreement
<1>4. /\ \A i \in DOMAIN s : i < Len(s) => s[i].type = "evaluate"
      /\ round = TotalRounds => \A i \in DOMAIN s : s[i].type = "evaluate"
  BY DEF IInv, Turn, Quiet
<1> HIDE DEF s
<1>5. /\ Len(s) \in Nat /\ Len(s) >= 1 /\ DOMAIN s = 1 .. Len(s)
      /\ Head(s) = s[1] /\ Head(s) \in Download
      /\ Tail(s) \in Seq(Download) /\ Len(Tail(s)) = Len(s) - 1
      /\ \A i \in 1 .. Len(Tail(s)) : Tail(s)[i] = s[i + 1]
  BY <1>1, HeadTailProperties, LenProperties
<1>6. DOMAIN Tail(s) = 1 .. Len(s) - 1
  BY <1>5, LenProperties
<1>7. \A i \in DOMAIN Tail(s) : i + 1 \in DOMAIN s /\ Tail(s)[i] = s[i + 1]
  BY <1>5, <1>6
<1>8. ASSUME Head(s).type = "model_para"
      PROVE  Tail(s) = <<>> /\ round # TotalRounds
  <2>1. s[1].type # "evaluate" /\ 1 \in DOMAIN s
    BY <1>5, <1>8
  <2>2. ~(1 < Len(s)) /\ round # TotalRounds
    BY <1>4, <2>1
  <2>3. Len(Tail(s)) = 0
    BY <1>5, <2>2
  <2> QED  BY <1>5, <2>2, <2>3, EmptySeq
<1>9. Head(s).survivors = known[c]
  BY <1>3, <1>5
<1> QED  BY <1>2, <1>3, <1>5, <1>7, <1>8, <1>9 DEF s

\* What a step of worker c does, S being its survivors afterwards.
Effect(c, S) ==
  /\ S \in SUBSET survivors[c]
  /\ \A floor \in Nat : floor <= RankMin /\ Cardinality(survivors[c]) >= floor
                          => Cardinality(S) >= floor
  /\ survivors' = [survivors EXCEPT ![c] = S]
  /\ \/ S = survivors[c] /\ toServer' = toServer
     \/ /\ Head(toClient[c]).type = "model_para"
        /\ \E up \in Upload : up.survivors = S /\ toServer' = [toServer EXCEPT ![c] = <<up>>]
  /\ loaded' \in [Clients -> SUBSET Component]
  /\ residual' \in [Clients -> Rows]
  /\ partial' \in [Clients -> BOOLEAN]
  /\ failed' \in SUBSET Clients

\* Training: the survivors shrink, never below the floor, and are uploaded.
LEMMA TrainEffect ==
  ASSUME IInv, NEW c \in Clients, toClient[c] # <<>>, Train(c, Head(toClient[c])),
         Head(toClient[c]).type = "model_para"
  PROVE  \E S : Effect(c, S)
<1> DEFINE m == Head(toClient[c])
           L == Loaded(c, m.download)
<1>1. /\ m \in Download /\ m.survivors = survivors[c] /\ toServer[c] = <<>>
  BY MessageTaken
<1>2. /\ m.download \in SUBSET Component /\ m.survivors \in SUBSET Component
      /\ m.partial \in BOOLEAN
  BY <1>1 DEF Download
<1>3. PICK P \in Prunings(m.survivors) :
        LET S   == m.survivors \ P
            old == IF stage2 THEN Only(residual[c], DOMAIN residual[c] \ P) ELSE NoRows
            eff == Effective(S, L, old)
        IN  \E T \in Uploads(S, UpBudget[c]) :
              /\ survivors' = [survivors EXCEPT ![c] = S]
              /\ loaded' = [loaded EXCEPT ![c] = L]
              /\ residual' = [residual EXCEPT ![c] = IF stage2 THEN Only(eff, S \ T) ELSE NoRows]
              /\ partial' = [partial EXCEPT ![c] = m.partial]
              /\ toServer' = [toServer EXCEPT ![c] =
                                Append(@, [update |-> Only(eff, T), survivors |-> S])]
              /\ UNCHANGED failed
  BY DEF Train
<1> DEFINE S   == m.survivors \ P
           old == IF stage2 THEN Only(residual[c], DOMAIN residual[c] \ P) ELSE NoRows
           eff == Effective(S, L, old)
<1>4. PICK T \in Uploads(S, UpBudget[c]) :
        /\ survivors' = [survivors EXCEPT ![c] = S]
        /\ loaded' = [loaded EXCEPT ![c] = L]
        /\ residual' = [residual EXCEPT ![c] = IF stage2 THEN Only(eff, S \ T) ELSE NoRows]
        /\ partial' = [partial EXCEPT ![c] = m.partial]
        /\ toServer' = [toServer EXCEPT ![c] =
                          Append(@, [update |-> Only(eff, T), survivors |-> S])]
        /\ UNCHANGED failed
  BY <1>3
<1>5. TypeOK /\ Finite
  BY DEF IInv
<1>6. /\ S \in SUBSET survivors[c]
      /\ \A floor \in Nat : floor <= RankMin /\ Cardinality(survivors[c]) >= floor
                              => Cardinality(S) >= floor
  <2>1. IsFiniteSet(m.survivors)
    BY <1>1, <1>5 DEF Finite
  <2> HIDE DEF m
  <2> QED  BY <1>1, <2>1, PruningLeavesFloor
<1>7. S \in SUBSET Component /\ T \in SUBSET S
  BY <1>2, UploadsSurvive
<1>8. L \in SUBSET Component
  <2>1. loaded[c] \in SUBSET Component
    BY <1>5 DEF TypeOK
  <2> QED  BY <1>2, <2>1 DEF Loaded
<1>9. old \in Rows
  <2>1. residual[c] \in Rows
    BY <1>5 DEF TypeOK
  <2>2. Only(residual[c], DOMAIN residual[c] \ P) \in Rows
    <3>1. /\ DOMAIN residual[c] \ P \in SUBSET Component
          /\ \A x \in DOMAIN residual[c] \ P : residual[c][x] \in SUBSET Component
      BY <2>1, RowsRows
    <3> QED  BY <3>1, OnlyRows
  <2> QED  BY <2>2, NoRowsRows
<1> HIDE DEF old, L, S, m
<1>10. \A x \in S : eff[x] \in SUBSET Component
  BY <1>7, <1>8, <1>9, EffectiveRows
<1> HIDE DEF eff
<1>11. Only(eff, T) \in Rows /\ Only(eff, S \ T) \in Rows
  <2>1. T \in SUBSET Component /\ S \ T \in SUBSET Component
    BY <1>7
  <2>2. /\ \A x \in T : eff[x] \in SUBSET Component
        /\ \A x \in S \ T : eff[x] \in SUBSET Component
    BY <1>7, <1>10
  <2> QED  BY <2>1, <2>2, OnlyRows
<1> DEFINE up == [update |-> Only(eff, T), survivors |-> S]
<1>12. up \in Upload /\ up.survivors = S
  BY <1>7, <1>11 DEF Upload
<1>13. toServer' = [toServer EXCEPT ![c] = <<up>>]
  <2>1. Append(toServer[c], up) = <<up>>
    BY <1>1
  <2> QED  BY <1>4, <2>1
<1> HIDE DEF up
<1>14. /\ loaded' \in [Clients -> SUBSET Component]
       /\ residual' \in [Clients -> Rows]
       /\ partial' \in [Clients -> BOOLEAN]
       /\ failed' \in SUBSET Clients
  <2>1. /\ loaded \in [Clients -> SUBSET Component]
        /\ residual \in [Clients -> Rows]
        /\ partial \in [Clients -> BOOLEAN]
        /\ failed \in SUBSET Clients
    BY <1>5 DEF TypeOK
  <2>2. loaded' \in [Clients -> SUBSET Component]
    BY <1>4, <1>8, <2>1
  <2>3. residual' \in [Clients -> Rows]
    BY <1>4, <1>11, <2>1, NoRowsRows
  <2>4. partial' \in [Clients -> BOOLEAN]
    BY <1>2, <1>4, <2>1
  <2> QED  BY <1>4, <2>1, <2>2, <2>3, <2>4
<1>15. Effect(c, S)
  BY <1>4, <1>6, <1>12, <1>13, <1>14 DEF Effect
<1> QED  BY <1>15

\* Evaluating and failing leave the survivors, which the message repeats, as they are.
LEMMA StepEffect ==
  ASSUME IInv, NEW c \in Clients, ClientStep(c)
  PROVE  \E S : Effect(c, S)
<1> DEFINE m == Head(toClient[c])
<1>1. toClient[c] # <<>>
  BY DEF ClientStep
<1>2. m \in Download /\ m.survivors = survivors[c]
  BY <1>1, MessageTaken
<1>3. /\ survivors \in [Clients -> SUBSET Component]
      /\ loaded \in [Clients -> SUBSET Component]
      /\ residual \in [Clients -> Rows]
      /\ partial \in [Clients -> BOOLEAN]
      /\ failed \in SUBSET Clients
  BY DEF IInv, TypeOK
<1>4. m.download \in SUBSET Component /\ m.partial \in BOOLEAN
  BY <1>2 DEF Download
<1>5. survivors = [survivors EXCEPT ![c] = survivors[c]]
  BY <1>3
<1>6. ASSUME survivors' = [survivors EXCEPT ![c] = m.survivors], toServer' = toServer,
             residual' = residual,
             loaded' \in [Clients -> SUBSET Component],
             partial' \in [Clients -> BOOLEAN], failed' \in SUBSET Clients
      PROVE  Effect(c, survivors[c])
  BY <1>2, <1>3, <1>5, <1>6 DEF Effect
<1>7. CASE Fail(c, m)
  <2>1. partial' \in [Clients -> BOOLEAN]
    BY <1>3, <1>4, <1>7 DEF Fail
  <2> QED  BY <1>3, <1>6, <1>7, <2>1 DEF Fail
<1>8. CASE Evaluate(c, m)
  <2>1. Loaded(c, m.download) \in SUBSET Component
    BY <1>3, <1>4 DEF Loaded
  <2>2. loaded' \in [Clients -> SUBSET Component]
    BY <1>3, <1>8, <2>1 DEF Evaluate
  <2> QED  BY <1>3, <1>6, <1>8, <2>2 DEF Evaluate
<1>9. CASE m.type = "model_para" /\ Train(c, m)
  BY <1>1, <1>9, TrainEffect
<1> QED  BY <1>7, <1>8, <1>9 DEF ClientStep

LEMMA StepKeeps ==
  ASSUME IInv, NEW c \in Clients, ClientStep(c)
  PROVE  IInv' /\ survivors'[c] \in SUBSET survivors[c]
<1>1. /\ toClient[c] # <<>>
      /\ toClient' = [toClient EXCEPT ![c] = Tail(@)]
      /\ UNCHANGED <<stage2, started, round, known, updates, buffer>>
  BY DEF ClientStep, serverVars
<1>2. PICK S : Effect(c, S)
  BY StepEffect
<1>3. /\ TypeOK /\ Finite /\ Agreement /\ RankFloor /\ Quiet
      /\ Cardinality(Senders) = Len(buffer)
      /\ \A d \in Clients : Turn(d)
  BY DEF IInv
<1>4. /\ survivors \in [Clients -> SUBSET Component]
      /\ toClient \in [Clients -> Seq(Download)]
      /\ toServer \in [Clients -> Seq(Upload)]
  BY <1>3 DEF TypeOK
<1>5. /\ survivors[c] = known[c] /\ toServer[c] = <<>> /\ c \notin Senders
      /\ Tail(toClient[c]) \in Seq(Download)
      /\ Len(toClient[c]) \in Nat /\ Len(Tail(toClient[c])) = Len(toClient[c]) - 1
      /\ \A i \in DOMAIN Tail(toClient[c]) :
           i + 1 \in DOMAIN toClient[c] /\ Tail(toClient[c])[i] = toClient[c][i + 1]
      /\ Head(toClient[c]).type = "model_para" =>
           Tail(toClient[c]) = <<>> /\ round # TotalRounds
  BY <1>1, MessageTaken
<1>6. Senders' = Senders
  BY <1>1 DEF Senders
<1>7. /\ survivors'[c] = S /\ S \in SUBSET survivors[c]
      /\ \A d \in Clients \ {c} : survivors'[d] = survivors[d]
      /\ survivors' \in [Clients -> SUBSET Component]
  BY <1>2, <1>4 DEF Effect
<1>8. /\ toClient' \in [Clients -> Seq(Download)]
      /\ toClient'[c] = Tail(toClient[c])
      /\ \A d \in Clients \ {c} : toClient'[d] = toClient[d]
  BY <1>1, <1>4, <1>5
<1>9. \/ S = survivors[c] /\ toServer' = toServer
      \/ /\ Head(toClient[c]).type = "model_para"
         /\ \E up \in Upload : up.survivors = S /\ toServer' = [toServer EXCEPT ![c] = <<up>>]
  BY <1>2 DEF Effect
<1>10. /\ toServer' \in [Clients -> Seq(Upload)]
       /\ \A d \in Clients \ {c} : toServer'[d] = toServer[d]
  <2>1. CASE toServer' = toServer
    BY <1>4, <2>1
  <2>2. ASSUME NEW up \in Upload, toServer' = [toServer EXCEPT ![c] = <<up>>]
        PROVE  /\ toServer' \in [Clients -> Seq(Upload)]
               /\ \A d \in Clients \ {c} : toServer'[d] = toServer[d]
    <3>1. <<up>> \in Seq(Upload)
      OBVIOUS
    <3> QED  BY <1>4, <2>2, <3>1
  <2> QED  BY <1>9, <2>1, <2>2
<1>11. \/ toServer'[c] = <<>> /\ S = survivors[c]
       \/ /\ Len(toServer'[c]) = 1 /\ toServer'[c] # <<>>
          /\ toServer'[c][1].survivors = S
          /\ Tail(toClient[c]) = <<>> /\ round # TotalRounds
  <2>1. CASE S = survivors[c] /\ toServer' = toServer
    BY <1>5, <2>1
  <2>2. CASE Head(toClient[c]).type = "model_para"
             /\ \E up \in Upload : up.survivors = S /\ toServer' = [toServer EXCEPT ![c] = <<up>>]
    <3>1. PICK up \in Upload : up.survivors = S /\ toServer' = [toServer EXCEPT ![c] = <<up>>]
      BY <2>2
    <3>2. toServer'[c] = <<up>>
      BY <1>4, <3>1
    <3>3. Len(<<up>>) = 1 /\ <<up>> # <<>> /\ <<up>>[1] = up
      OBVIOUS
    <3> QED  BY <1>5, <2>2, <3>1, <3>2, <3>3
  <2> QED  BY <1>9, <2>1, <2>2
<1>12. TypeOK'
  BY <1>1, <1>2, <1>3, <1>7, <1>8, <1>10 DEF TypeOK, Effect
<1>13. ASSUME NEW d \in Clients  PROVE Turn(d)'
  <2>1. CASE d # c
    <3>1. toClient'[d] = toClient[d] /\ toServer'[d] = toServer[d] /\ Turn(d)
      BY <1>3, <1>8, <1>10, <2>1
    <3> QED  BY <1>6, <3>1 DEF Turn
  <2>2. Turn(c)'
    <3>1. \A i \in DOMAIN toClient'[c] :
            i < Len(toClient'[c]) => toClient'[c][i].type = "evaluate"
      BY <1>3, <1>5, <1>8 DEF Turn
    <3>2. Len(toServer'[c]) <= 1
      <4>1. Len(<<>>) = 0
        OBVIOUS
      <4>2. CASE toServer'[c] = <<>>
        BY <4>1, <4>2
      <4>3. CASE Len(toServer'[c]) = 1
        BY <4>3
      <4> QED  BY <1>11, <4>2, <4>3
    <3> QED  BY <1>5, <1>6, <1>8, <1>11, <3>1, <3>2 DEF Turn
  <2> QED  BY <2>1, <2>2
<1>14. Quiet'
  <2>1. started
    BY <1>1, <1>3 DEF Quiet
  <2>2. ASSUME round' = TotalRounds, NEW d \in Clients
        PROVE  /\ toServer'[d] = <<>>
               /\ \A i \in DOMAIN toClient'[d] : toClient'[d][i].type = "evaluate"
    <3>1. CASE d # c
      BY <1>1, <1>3, <1>8, <1>10, <2>2, <3>1 DEF Quiet
    <3>2. toServer'[c] = <<>>
      BY <1>1, <1>11, <2>2
    <3>3. \A i \in DOMAIN toClient'[c] : toClient'[c][i].type = "evaluate"
      BY <1>1, <1>3, <1>5, <1>8, <2>2 DEF Quiet
    <3> QED  BY <3>1, <3>2, <3>3
  <2> QED  BY <1>1, <2>1, <2>2 DEF Quiet
<1>15. Agreement'
  <2>1. ASSUME NEW d \in Clients
        PROVE  /\ survivors'[d] = IF toServer'[d] = <<>> THEN known'[d]
                                  ELSE toServer'[d][Len(toServer'[d])].survivors
               /\ \A i \in DOMAIN toClient'[d] : toClient'[d][i].survivors = known'[d]
    <3>1. CASE d # c
      <4>1. /\ toClient'[d] = toClient[d] /\ toServer'[d] = toServer[d]
            /\ survivors'[d] = survivors[d] /\ known'[d] = known[d]
        BY <1>1, <1>7, <1>8, <1>10, <3>1
      <4> QED  BY <1>3, <4>1 DEF Agreement
    <3>2. survivors'[c] = IF toServer'[c] = <<>> THEN known'[c]
                          ELSE toServer'[c][Len(toServer'[c])].survivors
      BY <1>1, <1>5, <1>7, <1>11
    <3>3. \A i \in DOMAIN toClient'[c] : toClient'[c][i].survivors = known'[c]
      BY <1>1, <1>3, <1>5, <1>8 DEF Agreement
    <3> QED  BY <3>1, <3>2, <3>3
  <2> QED  BY <2>1 DEF Agreement
<1>16. Finite'
  <2>1. IsFiniteSet(S)
    BY <1>3, <1>7, FS_Subset DEF Finite
  <2> QED  BY <1>1, <1>3, <1>7, <2>1 DEF Finite
<1>17. RankFloor'
  <2>1. ASSUME NEW d \in Clients
        PROVE  Cardinality(survivors'[d]) >= Least(RankMin, Cardinality(InitialSurvivors(d)))
    <3>1. Cardinality(survivors[d]) >= Least(RankMin, Cardinality(InitialSurvivors(d)))
      BY <1>3 DEF RankFloor
    <3>2. /\ Least(RankMin, Cardinality(InitialSurvivors(d))) \in Nat
          /\ Least(RankMin, Cardinality(InitialSurvivors(d))) <= RankMin
      <4>1. Cardinality(InitialSurvivors(d)) \in Nat /\ RankMin \in Nat
        BY InitialFinite, FS_CardinalityType, AdaSparseAssumption
      <4> QED  BY <4>1 DEF Least
    <3>3. CASE d = c
      BY <1>2, <1>7, <3>1, <3>2, <3>3 DEF Effect
    <3> QED  BY <1>7, <3>1, <3>3
  <2> QED  BY <1>1, <1>3, <2>1 DEF RankFloor
<1> QED  BY <1>1, <1>3, <1>6, <1>7, <1>12, <1>13, <1>14, <1>15, <1>16, <1>17 DEF IInv

-----------------------------------------------------------------------------
(* The server's steps.                                                     *)

\* Reading the upload of worker c makes the round's uploads models: its sender is
\* counted once, and the last upload of a round leaves every channel empty.
Reading(c, models) ==
  /\ Head(toServer[c]) \in Upload /\ Head(toServer[c]).survivors = survivors[c]
  /\ toServer' = [toServer EXCEPT ![c] = <<>>]
  /\ known' = [known EXCEPT ![c] = survivors[c]]
  /\ toClient[c] = <<>> /\ c \notin Senders /\ round # TotalRounds /\ started
  /\ models \in Seq(Clients \X Rows)
  /\ {models[i][1] : i \in DOMAIN models} = Senders \cup {c}
  /\ Cardinality(Senders \cup {c}) = Len(models)
  /\ Senders \cup {c} \in SUBSET Clients
  /\ Len(models) <= Cardinality(Clients)
  /\ RoundOver(models) => \A d \in Clients : toClient[d] = <<>> /\ toServer'[d] = <<>>

LEMMA UploadRead ==
  ASSUME IInv, NEW c \in Clients, HandleUpload(c)
  PROVE  Reading(c, Append(buffer, <<c, Head(toServer[c]).update>>))
<1> DEFINE models == Append(buffer, <<c, Head(toServer[c]).update>>)
<1> DEFINE s == toServer[c]
<1>1. /\ TypeOK /\ Agreement /\ Quiet /\ Cardinality(Senders) = Len(buffer)
      /\ \A d \in Clients : Turn(d)
  BY DEF IInv
<1>2. /\ s # <<>> /\ s \in Seq(Upload)
      /\ toServer' = [toServer EXCEPT ![c] = Tail(@)]
      /\ known' = [known EXCEPT ![c] = Head(s).survivors]
  BY <1>1 DEF HandleUpload, Recorded, TypeOK
<1>3. toClient[c] = <<>> /\ c \notin Senders /\ Len(s) <= 1 /\ round # TotalRounds /\ started
  BY <1>1, <1>2 DEF Turn, Quiet
<1>4. survivors[c] = s[Len(s)].survivors
  BY <1>1, <1>2 DEF Agreement
<1> HIDE DEF s
<1>5. Len(s) = 1 /\ Head(s) = s[1] /\ Head(s) \in Upload /\ Tail(s) = <<>>
  <2>1. Len(s) \in Nat /\ Len(s) # 0 /\ Head(s) \in Upload /\ Head(s) = s[1]
    BY <1>2, EmptySeq, HeadTailProperties
  <2>2. Len(s) = 1
    <3>1. Len(s) <= 1
      BY <1>3
    <3> DEFINE n == Len(s)
    <3>2. n \in Nat /\ n # 0 /\ n <= 1
      BY <2>1, <3>1
    <3> HIDE DEF n
    <3>3. n = 1
      BY <3>2
    <3> QED  BY <3>3 DEF n
  <2>3. Tail(s) \in Seq(Upload) /\ Len(Tail(s)) = 0
    BY <1>2, <2>2, HeadTailProperties
  <2> QED  BY <2>1, <2>2, <2>3, EmptySeq
<1>6. /\ Head(s).survivors = survivors[c]
      /\ toServer' = [toServer EXCEPT ![c] = <<>>]
      /\ known' = [known EXCEPT ![c] = survivors[c]]
  BY <1>2, <1>4, <1>5 DEF s
<1> DEFINE x == <<c, Head(s).update>>
<1>7. buffer \in Seq(Clients \X Rows) /\ x \in Clients \X Rows /\ x[1] = c
  <2>1. Head(s).update \in Rows
    BY <1>5 DEF Upload
  <2> QED  BY <1>1, <2>1 DEF TypeOK
<1>8. models = Append(buffer, x)
  BY DEF s
<1> HIDE DEF x, models
<1>9. /\ models \in Seq(Clients \X Rows)
      /\ Len(models) = Len(buffer) + 1
      /\ \A i \in 1 .. Len(buffer) : models[i] = buffer[i]
      /\ models[Len(buffer) + 1] = x
      /\ Len(buffer) \in Nat /\ DOMAIN buffer = 1 .. Len(buffer)
      /\ DOMAIN models = 1 .. Len(buffer) + 1
  BY <1>7, <1>8, AppendProperties, LenProperties
<1>10. {models[i][1] : i \in DOMAIN models} = Senders \cup {c}
  <2>1. DOMAIN models = DOMAIN buffer \cup {Len(buffer) + 1}
    BY <1>9
  <2>2. \A i \in DOMAIN buffer : models[i] = buffer[i]
    BY <1>9
  <2>3. models[Len(buffer) + 1][1] = c
    BY <1>7, <1>9
  <2> HIDE DEF Senders
  <2>4. Senders = {buffer[i][1] : i \in DOMAIN buffer}
    BY DEF Senders
  <2> QED  BY <2>1, <2>2, <2>3, <2>4
<1>11. Senders \in SUBSET Clients
  <2>1. ASSUME NEW i \in DOMAIN buffer  PROVE buffer[i][1] \in Clients
    <3>1. buffer[i] \in Clients \X Rows
      BY <1>7, ElementOfSeq, <1>9
    <3> QED  BY <3>1
  <2> QED  BY <2>1 DEF Senders
<1>12. /\ IsFiniteSet(Clients) /\ IsFiniteSet(Senders)
       /\ Cardinality(Senders \cup {c}) = Len(models)
       /\ Senders \cup {c} \in SUBSET Clients
  <2>1. IsFiniteSet(Clients) /\ IsFiniteSet(Senders)
    BY <1>11, FS_Subset, AdaSparseAssumption
  <2> QED  BY <1>1, <1>3, <1>9, <1>11, <2>1, FS_AddElement
<1>13. /\ Len(models) <= Cardinality(Clients)
       /\ Len(models) = Cardinality(Clients) => Senders \cup {c} = Clients
  BY <1>12, FS_Subset
<1>14. ASSUME RoundOver(models), NEW d \in Clients
       PROVE  toClient[d] = <<>> /\ toServer'[d] = <<>>
  <2>1. d \in Senders \/ d = c
    BY <1>13, <1>14 DEF RoundOver
  <2>2. CASE d = c
    BY <1>1, <1>3, <1>6, <2>2 DEF TypeOK
  <2>3. CASE d # c
    BY <1>1, <1>6, <2>1, <2>3 DEF Turn, TypeOK
  <2> QED  BY <2>2, <2>3
<1>15. Reading(c, models)
  BY <1>3, <1>5, <1>6, <1>9, <1>10, <1>12, <1>13, <1>14 DEF s, Reading
<1> QED  BY <1>15 DEF models

\* While a round is under way the server only counts; its end starts the next.
LEMMA UploadKeeps ==
  ASSUME IInv, NEW c \in Clients, HandleUpload(c)
  PROVE  IInv' /\ survivors' = survivors
<1> DEFINE m      == Head(toServer[c])
           models == Append(buffer, <<c, m.update>>)
<1>1. /\ m \in Upload /\ m.survivors = survivors[c]
      /\ toServer' = [toServer EXCEPT ![c] = <<>>]
      /\ known' = [known EXCEPT ![c] = survivors[c]]
      /\ toClient[c] = <<>> /\ c \notin Senders /\ round # TotalRounds /\ started
      /\ models \in Seq(Clients \X Rows)
      /\ {models[i][1] : i \in DOMAIN models} = Senders \cup {c}
      /\ Cardinality(Senders \cup {c}) = Len(models)
      /\ Len(models) <= Cardinality(Clients)
      /\ RoundOver(models) => \A d \in Clients : toClient[d] = <<>> /\ toServer'[d] = <<>>
  <2>1. Reading(c, models)
    BY UploadRead
  <2> HIDE DEF models
  <2> QED  BY <2>1 DEF Reading
<1>2. UNCHANGED <<stage2, started, survivors, loaded, residual, partial, failed>>
  BY DEF HandleUpload, clientVars
<1>3. /\ TypeOK /\ Finite /\ Agreement /\ RankFloor /\ Quiet
      /\ \A d \in Clients : Turn(d)
  BY DEF IInv
<1>4. /\ toServer' \in [Clients -> Seq(Upload)]
      /\ toServer'[c] = <<>> /\ \A d \in Clients \ {c} : toServer'[d] = toServer[d]
      /\ known' \in [Clients -> SUBSET Component]
      /\ known'[c] = survivors[c] /\ \A d \in Clients \ {c} : known'[d] = known[d]
      /\ survivors \in [Clients -> SUBSET Component]
      /\ toClient \in [Clients -> Seq(Download)]
      /\ round \in 0 .. TotalRounds /\ TotalRounds \in Nat
  BY <1>1, <1>3, AdaSparseAssumption DEF TypeOK
<1>5. Finite' /\ RankFloor'
  BY <1>2, <1>3, <1>4 DEF Finite, RankFloor
<1>6. \A d \in Clients : survivors'[d] = IF toServer'[d] = <<>> THEN known'[d]
                                         ELSE toServer'[d][Len(toServer'[d])].survivors
  BY <1>2, <1>3, <1>4 DEF Agreement
<1>7. CASE ~RoundOver(models)
  <2>1. buffer' = models /\ UNCHANGED <<round, updates, toClient>>
    BY <1>7 DEF HandleUpload
  <2> HIDE DEF models, m
  <2>2. Senders' = Senders \cup {c}
    BY <1>1, <2>1 DEF Senders
  <2>3. TypeOK'
    BY <1>1, <1>2, <1>3, <1>4, <2>1 DEF TypeOK
  <2>4. \A d \in Clients : Turn(d)'
    <3> TAKE d \in Clients
    <3>1. CASE d = c
      BY <1>1, <1>4, <2>1, <3>1 DEF Turn
    <3>2. CASE d # c
      <4>1. d \in Senders' <=> d \in Senders
        BY <2>2, <3>2
      <4> QED  BY <1>3, <1>4, <2>1, <3>2, <4>1 DEF Turn
    <3> QED  BY <3>1, <3>2
  <2>5. Quiet'
    BY <1>1, <1>2, <2>1 DEF Quiet
  <2>6. Agreement'
    <3>1. ASSUME NEW d \in Clients
          PROVE  \A i \in DOMAIN toClient'[d] : toClient'[d][i].survivors = known'[d]
      <4>1. CASE d = c
        BY <1>1, <2>1, <4>1
      <4>2. CASE d # c
        BY <1>3, <1>4, <2>1, <4>2 DEF Agreement
      <4> QED  BY <4>1, <4>2
    <3> QED  BY <1>6, <3>1 DEF Agreement
  <2>7. Cardinality(Senders') = Len(buffer')
    BY <1>1, <2>1, <2>2
  <2> QED  BY <1>2, <1>5, <2>3, <2>4, <2>5, <2>6, <2>7 DEF IInv
<1>8. CASE RoundOver(models)
  <2>1. /\ buffer' = <<>> /\ round' = round + 1 /\ updates' = AggregatedLayers(models)
        /\ \E D \in Downloads(known', round', updates') :
             LET send(inbox, type) == Broadcast(inbox, type, known', D, round')
                 evaluated == IF round' % EvalFreq = 0 \/ round' = TotalRounds
                                THEN send(toClient, "evaluate") ELSE toClient
             IN  toClient' = IF MoreRounds(round')
                               THEN send(evaluated, "model_para") ELSE evaluated
    BY <1>8 DEF HandleUpload
  <2>2. PICK D \in Downloads(known', round', updates') :
          LET send(inbox, type) == Broadcast(inbox, type, known', D, round')
              evaluated == IF round' % EvalFreq = 0 \/ round' = TotalRounds
                             THEN send(toClient, "evaluate") ELSE toClient
          IN  toClient' = IF MoreRounds(round')
                            THEN send(evaluated, "model_para") ELSE evaluated
    BY <2>1
  <2> DEFINE asked     == Broadcast(toClient, "evaluate", known', D, round')
             evaluated == IF round' % EvalFreq = 0 \/ round' = TotalRounds
                            THEN asked ELSE toClient
             next      == Broadcast(evaluated, "model_para", known', D, round')
  <2>3. toClient' = IF MoreRounds(round') THEN next ELSE evaluated
    BY <2>2
  <2>4. D \in [Clients -> SUBSET Component]
    BY DEF Downloads
  <2> HIDE DEF models, m
  <2>5. \A d \in Clients : toClient[d] = <<>> /\ toServer'[d] = <<>>
    BY <1>1, <1>8
  <2>6. \A d \in Clients : Evals(toClient[d], known'[d])
    BY <1>4, <2>5 DEF Evals
  <2>7. asked \in [Clients -> Seq(Download)] /\ \A d \in Clients : Evals(asked[d], known'[d])
    BY <1>4, <2>4, <2>6, BroadcastAsks
  <2> HIDE DEF asked
  <2>8. /\ evaluated \in [Clients -> Seq(Download)]
        /\ \A d \in Clients : Evals(evaluated[d], known'[d])
    BY <1>4, <2>6, <2>7
  <2> HIDE DEF evaluated
  <2>9. next \in [Clients -> Seq(Download)] /\ \A d \in Clients : Asks(next[d], known'[d])
    BY <1>4, <2>4, <2>8, BroadcastAsks
  <2> HIDE DEF next
  <2>10. /\ toClient' \in [Clients -> Seq(Download)]
         /\ \A d \in Clients : Asks(toClient'[d], known'[d])
         /\ ~MoreRounds(round') => \A d \in Clients : Evals(toClient'[d], known'[d])
    <3>1. \A d \in Clients : Asks(evaluated[d], known'[d])
      BY <2>8 DEF Evals, Asks
    <3> QED  BY <2>3, <2>8, <2>9, <3>1
  <2>11. round' \in 0 .. TotalRounds
    BY <1>1, <1>4, <2>1
  <2>12. Senders' = {} /\ Cardinality(Senders') = Len(buffer')
    <3>1. DOMAIN buffer' = {} /\ Len(buffer') = 0
      BY <2>1
    <3>2. Senders' = {}
      BY <3>1 DEF Senders
    <3> QED  BY <3>1, <3>2, FS_EmptySet
  <2>13. TypeOK'
    <3>1. updates' \in SUBSET Layers
      <4>1. Len(models) # 0
        <5>1. c \in Senders \cup {c} /\ IsFiniteSet(Senders \cup {c})
          BY UploadRead, FS_Subset, AdaSparseAssumption DEF Reading
        <5> QED  BY <1>1, <5>1, FS_EmptySet
      <4>2. models[1] \in Clients \X Rows
        BY <1>1, <4>1, LenProperties, ElementOfSeq
      <4>3. DOMAIN models[1][2] \in SUBSET Component
        BY <4>2, RowsRows
      <4>4. \A x \in Component : x[1] \in Layers
        BY DEF Component
      <4> QED  BY <2>1, <4>3, <4>4 DEF AggregatedLayers, LayersOf
    <3>2. buffer' \in Seq(Clients \X Rows) /\ Len(buffer') <= Cardinality(Clients)
      BY <2>1, AdaSparseAssumption, FS_CardinalityType
    <3> QED  BY <1>2, <1>3, <1>4, <2>10, <2>11, <3>1, <3>2 DEF TypeOK
  <2>14. \A d \in Clients : Turn(d)'
    <3> TAKE d \in Clients
    <3>1. Len(toServer'[d]) <= 1
      BY <2>5
    <3> QED  BY <2>5, <2>10, <2>12, <3>1 DEF Turn, Asks
  <2>15. Quiet'
    <3>1. round' = TotalRounds => ~MoreRounds(round')
      BY <1>4 DEF MoreRounds
    <3> QED  BY <1>1, <1>2, <2>5, <2>10, <3>1 DEF Quiet, Evals
  <2>16. Agreement'
    BY <1>6, <2>10 DEF Agreement, Asks
  <2> QED  BY <1>2, <1>5, <2>12, <2>13, <2>14, <2>15, <2>16 DEF IInv
<1> QED  BY <1>2, <1>7, <1>8

-----------------------------------------------------------------------------
(* Theorems.                                                               *)

LEMMA StutterKeeps ==
  ASSUME IInv, UNCHANGED vars
  PROVE  IInv'
<1>1. UNCHANGED <<stage2, started, round, known, updates, buffer, survivors, loaded,
                  residual, partial, failed, toClient, toServer>>
  BY DEF vars, serverVars, clientVars
<1>2. Senders' = Senders /\ TypeOK' /\ Quiet' /\ Agreement' /\ Finite' /\ RankFloor'
  BY <1>1 DEF IInv, Senders, TypeOK, Quiet, Agreement, Finite, RankFloor
<1>3. \A c \in Clients : Turn(c)'
  BY <1>1, <1>2 DEF IInv, Turn
<1> QED  BY <1>1, <1>2, <1>3 DEF IInv

LEMMA NextKeeps == IInv /\ [Next]_vars => IInv'
<1> SUFFICES ASSUME IInv, [Next]_vars  PROVE IInv'
  OBVIOUS
<1>1. CASE Start
  BY <1>1, StartKeeps
<1>2. ASSUME NEW c \in Clients, ClientStep(c)  PROVE IInv'
  BY <1>2, StepKeeps
<1>3. ASSUME NEW c \in Clients, HandleUpload(c)  PROVE IInv'
  BY <1>3, UploadKeeps
<1>4. CASE UNCHANGED vars
  BY <1>4, StutterKeeps
<1> QED  BY <1>1, <1>2, <1>3, <1>4 DEF Next

\* Whose turn it is, and what follows from it, holds at every moment of every course.
THEOREM InductiveInvariant == Spec => []IInv
BY InitHolds, NextKeeps, PTL DEF Spec

\* The variables of a course keep their types.
THEOREM TypeCorrect == Spec => []TypeOK
BY InductiveInvariant, PTL DEF IInv

\* Server and worker agree on what survives, whatever is pruned and selected.
THEOREM SurvivorsAgree == Spec => []Agreement
BY InductiveInvariant, PTL DEF IInv

\* The floor of the ranks holds over all rounds.
THEOREM FloorHolds == Spec => []RankFloor
BY InductiveInvariant, PTL DEF IInv

\* What a worker has pruned stays pruned.
THEOREM PrunedStaysPruned == Spec => NeverGrows
<1>1. IInv /\ [Next]_vars => [\A c \in Clients : survivors'[c] \subseteq survivors[c]]_vars
  <2> SUFFICES ASSUME IInv, Next, NEW c \in Clients
               PROVE  survivors'[c] \subseteq survivors[c]
    OBVIOUS
  <2>1. CASE Start
    BY <2>1 DEF Start, clientVars
  <2>2. ASSUME NEW d \in Clients, ClientStep(d)
        PROVE  survivors'[c] \subseteq survivors[c]
    <3>1. PICK S : Effect(d, S)
      BY <2>2, StepEffect
    <3>2. survivors \in [Clients -> SUBSET Component]
      BY DEF IInv, TypeOK
    <3> QED  BY <3>1, <3>2 DEF Effect
  <2>3. ASSUME NEW d \in Clients, HandleUpload(d)
        PROVE  survivors'[c] \subseteq survivors[c]
    BY <2>3, UploadKeeps
  <2> QED  BY <2>1, <2>2, <2>3 DEF Next
<1> QED  BY <1>1, InductiveInvariant, PTL DEF Spec, NeverGrows

-----------------------------------------------------------------------------
(* Rows and the components they are uploaded for.                          *)

LEMMA ComponentPair ==
  ASSUME NEW x \in Component
  PROVE  x[2] \in Int /\ x = <<x[1], x[2]>>
<1> DEFINE K == {{k} \X (0 .. Rank[d][k] - 1) : d \in Clients, k \in Layers}
<1>1. PICK t \in K : x \in t
  BY DEF Component
<1>2. PICK d \in Clients, k \in Layers : t = {k} \X (0 .. Rank[d][k] - 1)
  BY <1>1
<1>3. Rank[d][k] \in Nat
  BY AdaSparseAssumption
<1> QED  BY <1>1, <1>2, <1>3

\* In a layer the rows follow the indices.
LEMMA PositionsFollow ==
  ASSUME NEW S \in SUBSET Component, IsFiniteSet(S), NEW x \in S, NEW y \in S,
         x[1] = y[1], x[2] < y[2]
  PROVE  Position(S, x) < Position(S, y)
<1> DEFINE A == {z \in InLayer(S, x[1]) : z[2] < x[2]}
           B == {z \in InLayer(S, y[1]) : z[2] < y[2]}
<1>1. A \in SUBSET B
  <2> SUFFICES ASSUME NEW z \in A  PROVE z \in B
    OBVIOUS
  <2>1. z \in S /\ z[2] < x[2] /\ z[1] = y[1]
    BY DEF InLayer
  <2>2. z[2] \in Int /\ x[2] \in Int /\ y[2] \in Int
    BY <2>1, ComponentPair
  <2> QED  BY <2>1, <2>2 DEF InLayer
<1>2. x \in B /\ x \notin A
  <2>1. x[2] \in Int
    BY ComponentPair
  <2> QED  BY <2>1 DEF InLayer
<1>3. IsFiniteSet(B)
  <2>1. B \in SUBSET S
    BY DEF InLayer
  <2> QED  BY <2>1, FS_Subset
<1> HIDE DEF A, B
<1>4. /\ IsFiniteSet(A) /\ Cardinality(A) <= Cardinality(B)
      /\ Cardinality(B) = Cardinality(A) => B = A
  BY <1>1, <1>3, FS_Subset
<1>5. Cardinality(A) \in Nat /\ Cardinality(B) \in Nat
  BY <1>3, <1>4, FS_CardinalityType
<1>6. Cardinality(A) < Cardinality(B)
  BY <1>2, <1>4, <1>5
<1> QED  BY <1>6 DEF A, B, Position

\* If a layer's rows hold exactly the survivors that the lookup uses, every component
\* of the layer is found in its own row.
LEMMA OwnRow ==
  ASSUME NEW S \in SUBSET Component, IsFiniteSet(S), NEW L, NEW x \in S,
         InLayer(L, x[1]) = InLayer(S, x[1])
  PROVE  RowOf(S, L, x) = {x}
<1>1. \A y \in InLayer(S, x[1]) : Position(L, y) = Position(S, y)
  BY DEF Position, InLayer
<1>2. RowOf(S, L, x) = {y \in InLayer(S, x[1]) : Position(S, y) = Position(S, x)}
  BY <1>1 DEF RowOf
<1>3. x \in InLayer(S, x[1])
  BY DEF InLayer
<1>4. ASSUME NEW y \in InLayer(S, x[1]), Position(S, y) = Position(S, x)
      PROVE  y = x
  <2>1. y \in S /\ y[1] = x[1]
    BY DEF InLayer
  <2>2. /\ x[2] \in Int /\ x = <<x[1], x[2]>>
        /\ y[2] \in Int /\ y = <<y[1], y[2]>>
    BY <2>1, ComponentPair
  <2>3. IsFiniteSet(S) /\ \A z \in S : Position(S, z) \in Int
    <3>1. ASSUME NEW z \in S  PROVE Position(S, z) \in Int
      <4>1. {w \in InLayer(S, z[1]) : w[2] < z[2]} \in SUBSET S
        BY DEF InLayer
      <4>2. Cardinality({w \in InLayer(S, z[1]) : w[2] < z[2]}) \in Nat
        BY <4>1, FS_Subset, FS_CardinalityType
      <4> QED  BY <4>2 DEF Position
    <3> QED  BY <3>1
  <2>4. ~(x[2] < y[2])
    <3>1. SUFFICES ASSUME x[2] < y[2]  PROVE FALSE
      OBVIOUS
    <3>2. Position(S, x) < Position(S, y)
      BY <2>1, <3>1, PositionsFollow
    <3> QED  BY <1>4, <2>1, <2>3, <3>2
  <2>5. ~(y[2] < x[2])
    <3>1. SUFFICES ASSUME y[2] < x[2]  PROVE FALSE
      OBVIOUS
    <3>2. Position(S, y) < Position(S, x)
      BY <2>1, <3>1, PositionsFollow
    <3> QED  BY <1>4, <2>1, <2>3, <3>2
  <2>6. x[2] = y[2]
    BY <2>2, <2>4, <2>5
  <2> QED  BY <2>1, <2>2, <2>6
<1> QED  BY <1>2, <1>3, <1>4

\* Every message under way sends all that survives.
WholeDownloads(s) == \A i \in DOMAIN s : s[i].download = s[i].survivors

Whole == ~stage2 => \A c \in Clients : WholeDownloads(toClient[c])

LEMMA BroadcastWhole ==
  ASSUME NEW inbox \in [Clients -> Seq(Download)], NEW rec \in [Clients -> SUBSET Component],
         NEW D \in [Clients -> SUBSET Component], NEW rnd,
         NEW type \in {"model_para", "evaluate"},
         \A c \in Clients : D[c] = rec[c],
         \A c \in Clients : WholeDownloads(inbox[c]),
         NEW sent, sent = Broadcast(inbox, type, rec, D, rnd)
  PROVE  \A c \in Clients : WholeDownloads(sent[c])
<1> TAKE c \in Clients
<1> DEFINE a == inbox[c]
           b == Messages(type, rec[c], D[c], rnd)
<1>1. sent[c] = a \o b
  BY DEF Broadcast
<1>2. a \in Seq(Download) /\ b \in Seq(Download)
  <2>1. rec[c] \in SUBSET Component /\ D[c] \in SUBSET Component
    OBVIOUS
  <2>2. Single(b, rec[c], type)
    BY <2>1, MessagesTyped
  <2> QED  BY <2>2 DEF Single
<1>3. WholeDownloads(b)
  <2> DEFINE m == [type |-> type, survivors |-> rec[c], download |-> D[c],
                   partial |-> rnd # 0 /\ Cardinality(D[c]) < Cardinality(rec[c])]
  <2>1. m.download = m.survivors
    OBVIOUS
  <2>2. b = IF rec[c] = {} THEN <<>> ELSE <<m>>
    BY DEF Messages
  <2> HIDE DEF m, b
  <2> QED  BY <2>1, <2>2 DEF WholeDownloads
<1>4. WholeDownloads(a)
  OBVIOUS
<1> HIDE DEF a, b
<1>5. /\ DOMAIN (a \o b) = 1 .. Len(a) + Len(b)
      /\ \A i \in 1 .. Len(a) + Len(b) :
           (a \o b)[i] = IF i <= Len(a) THEN a[i] ELSE b[i - Len(a)]
      /\ Len(a) \in Nat /\ DOMAIN a = 1 .. Len(a)
      /\ Len(b) \in Nat /\ DOMAIN b = 1 .. Len(b)
  BY <1>2, ConcatProperties, LenProperties
<1>6. ASSUME NEW i \in 1 .. Len(a) + Len(b)
      PROVE  (a \o b)[i].download = (a \o b)[i].survivors
  <2>1. CASE i <= Len(a)
    <3>1. i \in DOMAIN a /\ (a \o b)[i] = a[i]
      BY <1>5, <2>1
    <3> QED  BY <1>4, <3>1 DEF WholeDownloads
  <2>2. CASE ~(i <= Len(a))
    <3>1. i - Len(a) \in DOMAIN b /\ (a \o b)[i] = b[i - Len(a)]
      BY <1>5, <2>2
    <3> QED  BY <1>3, <3>1 DEF WholeDownloads
  <2> QED  BY <2>1, <2>2
<1> QED  BY <1>1, <1>5, <1>6 DEF WholeDownloads

\* Without Stage 2 every broadcast sends all that survives.
LEMMA DownloadsWhole ==
  ASSUME ~stage2, NEW rec \in [Clients -> SUBSET Component], NEW rnd, NEW layers,
         NEW D \in Downloads(rec, rnd, layers)
  PROVE  D \in [Clients -> SUBSET Component] /\ \A c \in Clients : D[c] = rec[c]
BY DEF Downloads, Downlinks

\* Training on a whole download, a worker that prunes nothing uploads each survivor's
\* own row.
LEMMA TrainExact ==
  ASSUME IInv, Whole, NEW c \in Clients, toClient[c] # <<>>, Train(c, Head(toClient[c])), ~stage2
  PROVE  \E up : /\ toServer' = [toServer EXCEPT ![c] = <<up>>]
                 /\ up.survivors = known[c] => \A x \in DOMAIN up.update : up.update[x] = {x}
<1> DEFINE m == Head(toClient[c])
           L == Loaded(c, m.download)
<1>1. /\ m \in Download /\ m.survivors = survivors[c] /\ survivors[c] = known[c]
      /\ toServer[c] = <<>>
  BY MessageTaken
<1>2. m.download = m.survivors /\ m.survivors \in SUBSET Component /\ IsFiniteSet(m.survivors)
  <2>1. toClient[c] \in Seq(Download)
    BY DEF IInv, TypeOK
  <2>2. 1 \in DOMAIN toClient[c] /\ m = toClient[c][1]
    BY <2>1, HeadTailProperties, LenProperties
  <2> QED  BY <1>1, <2>2 DEF Whole, WholeDownloads, Download, IInv, Finite
<1>3. PICK P \in Prunings(m.survivors) :
        LET S   == m.survivors \ P
            old == IF stage2 THEN Only(residual[c], DOMAIN residual[c] \ P) ELSE NoRows
            eff == Effective(S, L, old)
        IN  \E T \in Uploads(S, UpBudget[c]) :
              toServer' = [toServer EXCEPT ![c] =
                             Append(@, [update |-> Only(eff, T), survivors |-> S])]
  BY DEF Train
<1> DEFINE S   == m.survivors \ P
           eff == Effective(S, L, NoRows)
<1>4. PICK T \in Uploads(S, UpBudget[c]) :
        toServer' = [toServer EXCEPT ![c] =
                       Append(@, [update |-> Only(eff, T), survivors |-> S])]
  BY <1>3
<1> DEFINE up == [update |-> Only(eff, T), survivors |-> S]
<1>5. toServer' = [toServer EXCEPT ![c] = <<up>>]
  <2>1. Append(toServer[c], up) = <<up>>
    BY <1>1
  <2> QED  BY <1>4, <2>1
<1>6. ASSUME S = known[c]  PROVE \A x \in T : Only(eff, T)[x] = {x}
  <2> TAKE x \in T
  <2>1. T \in SUBSET S
    BY UploadsSurvive
  <2>2. S = m.survivors /\ L = Loaded(c, S)
    BY <1>1, <1>2, <1>6
  <2> HIDE DEF L, m
  <2>3. InLayer(L, x[1]) = InLayer(S, x[1])
    <3>1. x[1] \in LayersOf(S)
      BY <2>1 DEF LayersOf
    <3> HIDE DEF S
    <3> QED  BY <2>2, <3>1 DEF Loaded, InLayer
  <2>4. RowOf(S, L, x) = {x}
    <3>1. x \in S /\ S \in SUBSET Component /\ IsFiniteSet(S)
      BY <1>2, <2>1, <2>2
    <3> HIDE DEF S
    <3> QED  BY <2>3, <3>1, OwnRow
  <2>5. eff[x] = {x}
    <3>1. x \in S /\ x \notin DOMAIN NoRows
      BY <2>1 DEF NoRows
    <3> HIDE DEF S
    <3> QED  BY <2>4, <3>1 DEF Effective
  <2> HIDE DEF eff
  <2> QED  BY <2>5 DEF Only
<1>7. up.survivors = S /\ up.update = Only(eff, T) /\ DOMAIN up.update = T
  BY DEF Only
<1> HIDE DEF up, S, eff
<1>8. up.survivors = known[c] => \A x \in DOMAIN up.update : up.update[x] = {x}
  BY <1>6, <1>7
<1> WITNESS up
<1> QED  BY <1>5, <1>8

LEMMA ExactInit == Init => Whole /\ ExactUnlessPruned
<1> SUFFICES ASSUME Init  PROVE Whole /\ ExactUnlessPruned
  OBVIOUS
<1>1. \A c \in Clients : DOMAIN toClient[c] = {} /\ DOMAIN toServer[c] = {}
  BY DEF Init
<1> QED  BY <1>1 DEF Whole, WholeDownloads, ExactUnlessPruned

LEMMA ExactNext ==
  IInv /\ Whole /\ ExactUnlessPruned /\ [Next]_vars => Whole' /\ ExactUnlessPruned'
<1> SUFFICES ASSUME IInv, Whole, ExactUnlessPruned, [Next]_vars
             PROVE  Whole' /\ ExactUnlessPruned'
  OBVIOUS
<1>1. /\ toClient \in [Clients -> Seq(Download)] /\ toServer \in [Clients -> Seq(Upload)]
      /\ known \in [Clients -> SUBSET Component]
  BY DEF IInv, TypeOK
<1>2. ASSUME stage2' = stage2, ~stage2, toServer' = toServer, known' = known
      PROVE  ExactUnlessPruned'
  BY <1>2 DEF ExactUnlessPruned
<1>3. stage2' = stage2
  BY DEF Next, Start, ClientStep, HandleUpload, vars
<1>4. CASE stage2
  BY <1>3, <1>4 DEF Whole, ExactUnlessPruned
<1>5. CASE ~stage2 /\ Start
  <2>1. /\ toClient' = Broadcast(toClient, "model_para", known, known, 0)
        /\ UNCHANGED <<known, toServer>>
    BY <1>5 DEF Start
  <2>2. \A c \in Clients : WholeDownloads(toClient[c])
    BY <1>5 DEF Whole
  <2>3. \A c \in Clients : WholeDownloads(toClient'[c])
    BY <1>1, <2>1, <2>2, BroadcastWhole
  <2> QED  BY <1>2, <1>3, <1>5, <2>1, <2>3 DEF Whole
<1>6. ASSUME ~stage2, NEW c \in Clients, ClientStep(c)
      PROVE  Whole' /\ ExactUnlessPruned'
  <2>1. /\ toClient[c] # <<>> /\ toClient' = [toClient EXCEPT ![c] = Tail(@)]
        /\ known' = known
    BY <1>6 DEF ClientStep, serverVars
  <2>2. \A i \in DOMAIN Tail(toClient[c]) :
          i + 1 \in DOMAIN toClient[c] /\ Tail(toClient[c])[i] = toClient[c][i + 1]
    BY <2>1, MessageTaken
  <2>3. Whole'
    <3>1. ASSUME NEW d \in Clients  PROVE WholeDownloads(toClient'[d])
      <4>1. WholeDownloads(toClient[d])
        BY <1>6 DEF Whole
      <4>2. CASE d # c
        <5>1. toClient'[d] = toClient[d]
          BY <1>1, <2>1, <4>2
        <5> QED  BY <4>1, <5>1
      <4>3. CASE d = c
        <5>1. toClient'[c] = Tail(toClient[c])
          BY <1>1, <2>1
        <5> QED  BY <2>2, <4>1, <4>3, <5>1 DEF WholeDownloads
      <4> QED  BY <4>2, <4>3
    <3> QED  BY <3>1 DEF Whole
  <2>4. CASE toServer' = toServer
    BY <1>2, <1>3, <1>6, <2>1, <2>3, <2>4
  <2>5. CASE Train(c, Head(toClient[c]))
    <3>1. PICK up : /\ toServer' = [toServer EXCEPT ![c] = <<up>>]
                    /\ up.survivors = known[c] => \A x \in DOMAIN up.update : up.update[x] = {x}
      BY <1>6, <2>1, <2>5, TrainExact
    <3>2. ASSUME NEW d \in Clients, NEW i \in DOMAIN toServer'[d],
                 toServer'[d][i].survivors = known'[d]
          PROVE  \A x \in DOMAIN toServer'[d][i].update : toServer'[d][i].update[x] = {x}
      <4>1. CASE d # c
        <5>1. toServer'[d] = toServer[d]
          BY <1>1, <3>1, <4>1
        <5>2. known'[d] = known[d]
          BY <2>1
        <5> QED  BY <1>6, <3>2, <5>1, <5>2 DEF ExactUnlessPruned
      <4>2. CASE d = c
        <5>1. toServer'[c] = <<up>>
          BY <1>1, <3>1
        <5>2. toServer'[d][i] = up
          BY <3>2, <4>2, <5>1
        <5> QED  BY <2>1, <3>1, <3>2, <4>2, <5>2
      <4> QED  BY <4>1, <4>2
    <3> QED  BY <2>3, <3>2 DEF ExactUnlessPruned
  <2>6. CASE Fail(c, Head(toClient[c])) \/ Evaluate(c, Head(toClient[c]))
    BY <2>4, <2>6 DEF Fail, Evaluate
  <2> QED  BY <1>6, <2>5, <2>6 DEF ClientStep
<1>7. ASSUME ~stage2, NEW c \in Clients, HandleUpload(c)
      PROVE  Whole' /\ ExactUnlessPruned'
  <2> DEFINE models == Append(buffer, <<c, Head(toServer[c]).update>>)
  <2>1. /\ toServer' = [toServer EXCEPT ![c] = <<>>]
        /\ known' = [known EXCEPT ![c] = survivors[c]]
    <3>1. Reading(c, models)
      BY <1>7, UploadRead
    <3> HIDE DEF models
    <3> QED  BY <3>1 DEF Reading
  <2>2. known' \in [Clients -> SUBSET Component]
    BY <2>1, <1>1 DEF IInv, TypeOK
  <2>3. ExactUnlessPruned'
    <3>1. ASSUME NEW d \in Clients, NEW i \in DOMAIN toServer'[d],
                 toServer'[d][i].survivors = known'[d]
          PROVE  \A x \in DOMAIN toServer'[d][i].update : toServer'[d][i].update[x] = {x}
      <4>1. d # c
        <5>1. DOMAIN toServer'[c] = {}
          BY <1>1, <2>1
        <5> QED  BY <3>1, <5>1
      <4>2. toServer'[d] = toServer[d] /\ known'[d] = known[d]
        BY <1>1, <2>1, <4>1
      <4> QED  BY <1>7, <3>1, <4>2 DEF ExactUnlessPruned
    <3> QED  BY <3>1 DEF ExactUnlessPruned
  <2>4. \A d \in Clients : WholeDownloads(toClient[d])
    BY <1>7 DEF Whole
  <2>5. CASE ~RoundOver(models)
    <3>1. toClient' = toClient
      BY <1>7, <2>5 DEF HandleUpload
    <3> QED  BY <2>3, <2>4, <3>1 DEF Whole
  <2>6. CASE RoundOver(models)
    <3>1. \E D \in Downloads(known', round', updates') :
            LET send(inbox, type) == Broadcast(inbox, type, known', D, round')
                evaluated == IF round' % EvalFreq = 0 \/ round' = TotalRounds
                               THEN send(toClient, "evaluate") ELSE toClient
            IN  toClient' = IF MoreRounds(round')
                              THEN send(evaluated, "model_para") ELSE evaluated
      BY <1>7, <2>6 DEF HandleUpload
    <3>2. PICK D \in Downloads(known', round', updates') :
            LET send(inbox, type) == Broadcast(inbox, type, known', D, round')
                evaluated == IF round' % EvalFreq = 0 \/ round' = TotalRounds
                               THEN send(toClient, "evaluate") ELSE toClient
            IN  toClient' = IF MoreRounds(round')
                              THEN send(evaluated, "model_para") ELSE evaluated
      BY <3>1
    <3> DEFINE asked     == Broadcast(toClient, "evaluate", known', D, round')
               evaluated == IF round' % EvalFreq = 0 \/ round' = TotalRounds
                              THEN asked ELSE toClient
               next      == Broadcast(evaluated, "model_para", known', D, round')
    <3>3. toClient' = IF MoreRounds(round') THEN next ELSE evaluated
      BY <3>2
    <3>4. D \in [Clients -> SUBSET Component] /\ \A d \in Clients : D[d] = known'[d]
      BY <1>7, <2>2, DownloadsWhole
    <3>5. \A d \in Clients : Evals(toClient[d], known'[d])
      <4>1. \A d \in Clients : toClient[d] = <<>>
        <5>1. Reading(c, models)
          BY <1>7, UploadRead
        <5> HIDE DEF models
        <5> QED  BY <2>6, <5>1 DEF Reading
      <4> QED  BY <1>1, <4>1 DEF Evals
    <3> HIDE DEF models
    <3>6. /\ asked \in [Clients -> Seq(Download)]
          /\ \A d \in Clients : WholeDownloads(asked[d])
      <4>1. asked \in [Clients -> Seq(Download)]
        BY <1>1, <2>2, <3>4, <3>5, BroadcastAsks
      <4> QED  BY <1>1, <2>2, <2>4, <3>4, <4>1, BroadcastWhole
    <3> HIDE DEF asked
    <3>7. /\ evaluated \in [Clients -> Seq(Download)]
          /\ \A d \in Clients : WholeDownloads(evaluated[d])
      BY <1>1, <2>4, <3>6
    <3> HIDE DEF evaluated
    <3>8. \A d \in Clients : WholeDownloads(next[d])
      BY <2>2, <3>4, <3>7, BroadcastWhole
    <3> HIDE DEF next
    <3> QED  BY <2>3, <3>3, <3>7, <3>8 DEF Whole
  <2> QED  BY <2>5, <2>6
<1>8. CASE UNCHANGED vars
  <2>1. UNCHANGED <<stage2, known, toClient, toServer>>
    BY <1>8 DEF vars, serverVars
  <2> QED  BY <2>1 DEF Whole, ExactUnlessPruned
<1> QED  BY <1>4, <1>5, <1>6, <1>7, <1>8 DEF Next

\* In every course without Stage 2, whatever was pruned in earlier rounds: a worker that
\* prunes nothing in a round uploads for each of its survivors that survivor's update.
THEOREM UploadsAreExact == Spec => []ExactUnlessPruned
<1>1. Init => Whole /\ ExactUnlessPruned
  BY ExactInit
<1>2. IInv /\ Whole /\ ExactUnlessPruned /\ [Next]_vars => Whole' /\ ExactUnlessPruned'
  BY ExactNext
<1> QED  BY <1>1, <1>2, InductiveInvariant, PTL DEF Spec
=============================================================================
