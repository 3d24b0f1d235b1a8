---------------------------- MODULE TransportProofs ----------------------------
(***************************************************************************)
(* Theorems about the transport and the deployment, for any number of      *)
(* workers, messages and faults, direct or relayed: requests and replies   *)
(* stay in lockstep, the sockets, threads and queues implement one ordered *)
(* channel per worker and direction, and the registry knows every running  *)
(* container.                                                              *)
(***************************************************************************)
EXTENDS Deployment, FiniteSetTheorems, SequenceTheorems, TLAPS

\* The queues of messages, one per worker.
Queues == [Workers -> Seq(Message)]

\* The type invariant, variable by variable.
Typed ==
  /\ main \in [Workers -> {"new", "ready", "waiting", "failed"}]
  /\ sent \in 0 .. MaxUp
  /\ request \in Queues /\ inHand \in Queues /\ relayQueue \in Queues
  /\ recvQueue \in Queues /\ frames \in Queues /\ decoded \in Queues
  /\ inbox \in Queues
  /\ reply \in [Workers -> {"ACK", None}]
  /\ owed \in Workers \cup {None}
  /\ published \in 0 .. MaxDown
  /\ subscribed \in SUBSET Workers
  /\ lastSize \in [Workers -> Sizes]
  /\ mixed \in SUBSET Workers
  /\ faults \in 0 .. MaxFaults

\* Without a relay nothing is in its queue.
NoRelay == ~Relay => relayQueue = Empty

IInv ==
  /\ Typed
  /\ LockStep
  /\ NoRelay

-----------------------------------------------------------------------------
(* Types.                                                                  *)

LEMMA TypedIsTypeOK == Typed <=> TypeOK
BY DEF TypeOK, Typed, Queues

LEMMA PutType ==
  ASSUME NEW q \in Queues, NEW c \in Workers, NEW m \in Message
  PROVE  Put(q, c, m) \in Queues
BY DEF Put, Queues

LEMMA PopType ==
  ASSUME NEW q \in Queues, NEW c \in Workers, q[c] # <<>>
  PROVE  /\ Pop(q, c) \in Queues
         /\ Head(q[c]) \in Message
<1>1. q[c] \in Seq(Message)
  BY DEF Queues
<1>2. Head(q[c]) \in Message /\ Tail(q[c]) \in Seq(Message)
  BY <1>1, HeadTailProperties
<1> QED  BY <1>2 DEF Pop, Queues

LEMMA EmptyType == Empty \in Queues
BY EmptySeq DEF Empty, Queues

LEMMA DecodeType ==
  ASSUME Typed, NEW c \in Workers, NEW from \in Queues, from[c] # <<>>,
         Decode(c, from)
  PROVE  recvQueue' \in Queues
<1>1. Head(from[c]) \in Message
  BY PopType
<1> QED  BY <1>1, PutType DEF Typed, Decode

LEMMA EncodedType ==
  ASSUME Typed, NEW ok \in BOOLEAN, Encoded(ok)
  PROVE  faults' \in 0 .. MaxFaults
BY TransportAssumption DEF Encoded, Typed

LEMMA TypeInit == Init => Typed
<1>1. NoMessage \in Sizes
  BY DEF Sizes
<1> QED  BY <1>1, EmptyType, TransportAssumption DEF Typed, Init

LEMMA TypeStep == Typed /\ [Next]_vars => Typed'
<1> SUFFICES ASSUME Typed, [Next]_vars  PROVE Typed'
  OBVIOUS
<1> USE DEF Typed
<1>1. ASSUME NEW c \in Workers, Send(c)  PROVE Typed'
  <2>1. PICK ok \in BOOLEAN : /\ Encoded(ok)
                              /\ request' = Put(request, c, [n |-> sent', ok |-> ok])
    BY <1>1 DEF Send
  <2>2. sent' \in 0 .. MaxUp /\ sent' \in 1 .. MaxUp + MaxDown
    BY <1>1, TransportAssumption DEF Send
  <2>3. request' \in Queues
    BY <2>1, <2>2, PutType DEF Message
  <2>4. faults' \in 0 .. MaxFaults
    BY <2>1, EncodedType
  <2> QED  BY <1>1, <2>2, <2>3, <2>4 DEF Send, repVars, downVars
<1>2. ASSUME NEW c \in Workers, Acknowledged(c)  PROVE Typed'
  BY <1>2 DEF Acknowledged, repVars, downVars
<1>3. ASSUME NEW c \in Workers, TimesOut(c)  PROVE Typed'
  <2>1. faults' \in 0 .. MaxFaults
    BY <1>3, TransportAssumption DEF TimesOut
  <2>2. frames' \in Queues /\ decoded' \in Queues /\ inbox' \in Queues
    BY <1>3, EmptySeq DEF TimesOut, Queues
  <2> QED  BY <1>3, <2>1, <2>2 DEF TimesOut, repVars
<1>4. ASSUME NEW c \in Workers, Receive(c)  PROVE Typed'
  BY <1>4, PopType DEF Receive, upVars, repVars
<1>5. ASSUME NEW c \in Workers, Subscribe(c)  PROVE Typed'
  BY <1>5 DEF Subscribe, upVars, repVars
<1>6. ASSUME NEW c \in Workers, TakeFrame(c)  PROVE Typed'
  <2>1. Head(frames[c]) \in Message /\ frames' \in Queues
    BY <1>6, PopType DEF TakeFrame
  <2>2. \/ /\ decoded' = Put(decoded, c, Head(frames[c]))
           /\ lastSize' = [lastSize EXCEPT ![c] = Head(frames[c])]
        \/ UNCHANGED <<decoded, lastSize>>
    BY <1>6 DEF TakeFrame
  <2>3. Put(decoded, c, Head(frames[c])) \in Queues
    BY <2>1, PutType
  <2>4. Head(frames[c]) \in Sizes
    BY <2>1 DEF Sizes
  <2>5. decoded' \in Queues /\ lastSize' \in [Workers -> Sizes]
    BY <2>2, <2>3, <2>4
  <2> QED  BY <1>6, <2>1, <2>5 DEF TakeFrame, upVars, repVars
<1>7. ASSUME NEW c \in Workers, QueueMessage(c)  PROVE Typed'
  BY <1>7, PopType, PutType DEF QueueMessage, upVars, repVars
<1>8. ASSUME NEW c \in Workers, RepReceive(c)  PROVE Typed'
  BY <1>8, PopType, PutType DEF RepReceive, downVars
<1>9. ASSUME NEW c \in Workers, RepReply(c)  PROVE Typed'
  BY <1>9 DEF RepReply, downVars
<1>10. ASSUME NEW c \in Workers, RepDecode(c)  PROVE Typed'
  BY <1>10, PopType, DecodeType DEF RepDecode, upVars, downVars
<1>11. ASSUME NEW c \in Workers, RelayPut(c)  PROVE Typed'
  BY <1>11, PopType, PutType DEF RelayPut, upVars, downVars
<1>12. ASSUME NEW c \in Workers, RelayDecode(c)  PROVE Typed'
  BY <1>12, PopType, DecodeType DEF RelayDecode, upVars, downVars
<1>13. ASSUME NEW c \in Workers, ServerReceive(c)  PROVE Typed'
  BY <1>13, PopType DEF ServerReceive, upVars, downVars
<1>14. ASSUME NEW S \in SUBSET Workers, Publish(S)  PROVE Typed'
  <2>1. PICK ok \in BOOLEAN :
          /\ Encoded(ok)
          /\ frames' = [c \in Workers |->
                          IF c \in S \cap subscribed
                            THEN Append(frames[c], [n |-> published', ok |-> ok])
                            ELSE frames[c]]
    BY <1>14 DEF Publish
  <2>2. published' \in 0 .. MaxDown /\ published' \in 1 .. MaxUp + MaxDown
    BY <1>14, TransportAssumption DEF Publish
  <2>3. [n |-> published', ok |-> ok] \in Message
    BY <2>2 DEF Message
  <2>4. frames' \in Queues
    BY <2>1, <2>3 DEF Queues
  <2>5. faults' \in 0 .. MaxFaults
    BY <2>1, EncodedType
  <2> QED  BY <1>14, <2>2, <2>4, <2>5 DEF Publish, upVars, repVars
<1>15. CASE UNCHANGED vars
  BY <1>15 DEF vars, upVars, repVars, downVars
<1> QED  BY <1>1, <1>2, <1>3, <1>4, <1>5, <1>6, <1>7, <1>8, <1>9, <1>10, <1>11, <1>12,
            <1>13, <1>14, <1>15
         DEF Next, DirectNext, WorkerMain, WorkerThread, RepLoop

-----------------------------------------------------------------------------
(* Lockstep.                                                               *)

\* What LockStep says of one worker.
InStep(c) ==
  /\ main[c] = "waiting" => UnderWay(c) = 1
  /\ main[c] \in {"new", "ready"} => UnderWay(c) = 0
  /\ main[c] = "failed" => UnderWay(c) <= 1 /\ reply[c] = None

LEMMA LockStepIs == LockStep <=> \A c \in Workers : InStep(c)
BY DEF LockStep, InStep

\* The number of a worker's requests and replies under way.
LEMMA UnderWayNat ==
  ASSUME Typed, NEW c \in Workers
  PROVE  /\ Len(request[c]) \in Nat
         /\ UnderWay(c) \in Nat
         /\ UnderWay(c) = 0 => Len(request[c]) = 0 /\ owed # c /\ reply[c] = None
         /\ UnderWay(c) = 1 => Len(request[c]) <= 1
         /\ UnderWay(c) = 1 /\ reply[c] # None => Len(request[c]) = 0 /\ owed # c
         /\ UnderWay(c) = 1 /\ owed = c => Len(request[c]) = 0 /\ reply[c] = None
<1>1. Len(request[c]) \in Nat
  BY LenProperties DEF Typed, Queues
<1> DEFINE w == IF owed = c THEN 1 ELSE 0
           r == IF reply[c] # None THEN 1 ELSE 0
           n == Len(request[c])
<1>2. UnderWay(c) = n + w + r
  BY DEF UnderWay
<1>3. w \in 0 .. 1 /\ (owed = c <=> w = 1)
  OBVIOUS
<1>4. r \in 0 .. 1 /\ (reply[c] # None <=> r = 1)
  OBVIOUS
<1> HIDE DEF w, r, n
<1>5. /\ UnderWay(c) \in Nat
      /\ UnderWay(c) = 0 => n = 0 /\ w = 0 /\ r = 0
      /\ UnderWay(c) = 1 => n <= 1
      /\ UnderWay(c) = 1 /\ r = 1 => n = 0 /\ w = 0
      /\ UnderWay(c) = 1 /\ w = 1 => n = 0 /\ r = 0
  <2>1. w \in 0 .. 1 /\ r \in 0 .. 1 /\ n \in Nat
    BY <1>1, <1>3, <1>4 DEF n
  <2> QED  BY <1>2, <2>1
<1> QED  BY <1>1, <1>3, <1>4, <1>5 DEF n

\* A step that leaves a worker's thread, request and reply alone leaves it in step.
LEMMA Untouched ==
  ASSUME NEW c \in Workers, InStep(c), main'[c] = main[c], request'[c] = request[c],
         reply'[c] = reply[c], owed' = c <=> owed = c
  PROVE  InStep(c)'
<1>1. UnderWay(c)' = UnderWay(c)
  BY DEF UnderWay
<1> QED  BY <1>1 DEF InStep

LEMMA LockStepInit == Init => LockStep
<1> SUFFICES ASSUME Init, NEW c \in Workers  PROVE InStep(c)
  BY LockStepIs
<1>1. main[c] = "new" /\ request[c] = <<>> /\ reply[c] = None /\ owed # c
  BY NoneIsNoWorker DEF Init, Empty
<1>2. UnderWay(c) = 0
  BY <1>1, EmptySeq DEF UnderWay
<1> QED  BY <1>1, <1>2 DEF InStep

LEMMA LockStepSend ==
  ASSUME Typed, NEW c \in Workers, InStep(c), Send(c), Typed'
  PROVE  InStep(c)'
<1>1. UnderWay(c) = 0 /\ Len(request[c]) = 0 /\ owed # c /\ reply[c] = None
  BY UnderWayNat DEF InStep, Send
<1>2. PICK m : request' = Put(request, c, m) /\ m \in Message
  <2>1. PICK ok \in BOOLEAN : request' = Put(request, c, [n |-> sent', ok |-> ok])
    BY DEF Send
  <2>2. sent' \in 1 .. MaxUp + MaxDown
    BY TransportAssumption DEF Send, Typed
  <2> QED  BY <2>1, <2>2 DEF Message
<1>3. request[c] \in Seq(Message) /\ request'[c] = Append(request[c], m)
  BY <1>2 DEF Typed, Queues, Put
<1>4. Len(request'[c]) = 1
  BY <1>1, <1>2, <1>3, AppendProperties
<1>5. UnderWay(c)' = 1 /\ main'[c] = "waiting"
  BY <1>1, <1>4 DEF Send, repVars, UnderWay, Typed
<1> QED  BY <1>5 DEF InStep

LEMMA LockStepAcknowledged ==
  ASSUME Typed, NEW c \in Workers, InStep(c), Acknowledged(c)
  PROVE  InStep(c)'
<1>1. UnderWay(c) = 1 /\ Len(request[c]) = 0 /\ owed # c
  BY UnderWayNat DEF InStep, Acknowledged
<1>2. main'[c] = "ready" /\ reply'[c] = None /\ owed' = owed /\ request' = request
  BY DEF Acknowledged, repVars, Typed
<1>3. UnderWay(c)' = 0
  BY <1>1, <1>2 DEF UnderWay
<1> QED  BY <1>2, <1>3 DEF InStep

LEMMA LockStepTimesOut ==
  ASSUME Typed, NEW c \in Workers, InStep(c), TimesOut(c)
  PROVE  InStep(c)'
<1>1. UnderWay(c) = 1 /\ Len(request[c]) \in Nat /\ Len(request[c]) <= 1
  BY UnderWayNat DEF InStep, TimesOut
<1>2. main'[c] = "failed" /\ reply'[c] = None /\ owed' = owed /\ request' = request
  BY DEF TimesOut, repVars, Typed
<1>3. UnderWay(c)' <= 1
  <2>1. CASE owed = c
    <3>1. Len(request[c]) = 0
      BY <1>1, <2>1, UnderWayNat
    <3>2. UnderWay(c)' = 0 + 1 + 0
      BY <1>2, <2>1, <3>1 DEF UnderWay
    <3> QED  BY <3>2
  <2>2. CASE owed # c
    <3>1. UnderWay(c)' = Len(request[c]) + 0 + 0
      BY <1>2, <2>2 DEF UnderWay
    <3> QED  BY <1>1, <3>1
  <2> QED  BY <2>1, <2>2
<1> QED  BY <1>2, <1>3 DEF InStep

LEMMA LockStepReceive ==
  ASSUME Typed, NEW c \in Workers, InStep(c), RepReceive(c)
  PROVE  InStep(c)'
<1>1. owed # c /\ owed' = c /\ request' = Pop(request, c) /\ request[c] # <<>>
  BY NoneIsNoWorker DEF RepReceive
<1>2. main' = main /\ reply' = reply
  BY DEF RepReceive
<1>3. request[c] \in Seq(Message) /\ request'[c] = Tail(request[c])
  BY <1>1 DEF Typed, Queues, Pop
<1>4. Len(request'[c]) = Len(request[c]) - 1 /\ Len(request[c]) \in Nat
  BY <1>1, <1>3, HeadTailProperties, LenProperties
<1>5. UnderWay(c)' = UnderWay(c)
  BY <1>1, <1>2, <1>4 DEF UnderWay
<1> QED  BY <1>2, <1>5 DEF InStep

LEMMA LockStepReply ==
  ASSUME Typed, NEW c \in Workers, InStep(c), RepReply(c)
  PROVE  InStep(c)'
<1>1. owed = c /\ owed' # c /\ request' = request /\ main' = main
  BY NoneIsNoWorker DEF RepReply
<1>2. main[c] = "waiting" \/ main[c] = "failed"
  BY <1>1, UnderWayNat DEF InStep, Typed
<1>3. CASE main[c] = "waiting"
  <2>1. Len(request[c]) = 0
    BY <1>1, <1>3, UnderWayNat DEF InStep
  <2>2. reply'[c] = "ACK" /\ reply'[c] # None
    BY <1>3 DEF RepReply, Typed, None
  <2>3. UnderWay(c)' = 1
    BY <1>1, <2>1, <2>2 DEF UnderWay
  <2> QED  BY <1>1, <1>3, <2>3 DEF InStep
<1>4. CASE main[c] = "failed"
  <2>1. reply' = reply /\ reply[c] = None /\ UnderWay(c) <= 1
    BY <1>4 DEF RepReply, InStep
  <2>2. UnderWay(c)' <= 1
    BY <1>1, <2>1, UnderWayNat DEF UnderWay
  <2> QED  BY <1>1, <1>4, <2>1, <2>2 DEF InStep
<1> QED  BY <1>2, <1>3, <1>4

LEMMA LockStepStep ==
  ASSUME Typed, Typed', LockStep, [Next]_vars
  PROVE  LockStep'
<1> USE NoneIsNoWorker
<1> SUFFICES ASSUME NEW d \in Workers  PROVE InStep(d)'
  BY DEF LockStep, InStep
<1>0. InStep(d)
  BY LockStepIs
<1>1. ASSUME NEW c \in Workers, Send(c)  PROVE InStep(d)'
  <2>1. CASE c = d
    BY <1>0, <1>1, <2>1, LockStepSend
  <2>2. CASE c # d
    <3>1. PICK m : request' = Put(request, c, m)
      BY <1>1 DEF Send
    <3> QED  BY <1>0, <1>1, <2>2, <3>1, Untouched DEF Send, repVars, Put, Typed, Queues
  <2> QED  BY <2>1, <2>2
<1>2. ASSUME NEW c \in Workers, Acknowledged(c)  PROVE InStep(d)'
  <2>1. CASE c = d
    BY <1>0, <1>2, <2>1, LockStepAcknowledged
  <2>2. CASE c # d
    BY <1>0, <1>2, <2>2, Untouched DEF Acknowledged, repVars, Typed
  <2> QED  BY <2>1, <2>2
<1>3. ASSUME NEW c \in Workers, TimesOut(c)  PROVE InStep(d)'
  <2>1. CASE c = d
    BY <1>0, <1>3, <2>1, LockStepTimesOut
  <2>2. CASE c # d
    BY <1>0, <1>3, <2>2, Untouched DEF TimesOut, repVars, Typed
  <2> QED  BY <2>1, <2>2
<1>4. ASSUME NEW c \in Workers, RepReceive(c)  PROVE InStep(d)'
  <2>1. CASE c = d
    BY <1>0, <1>4, <2>1, LockStepReceive
  <2>2. CASE c # d
    BY <1>0, <1>4, <2>2, Untouched DEF RepReceive, Pop, Typed, Queues
  <2> QED  BY <2>1, <2>2
<1>5. ASSUME NEW c \in Workers, RepReply(c)  PROVE InStep(d)'
  <2>1. CASE c = d
    BY <1>0, <1>5, <2>1, LockStepReply
  <2>2. CASE c # d
    BY <1>0, <1>5, <2>2, Untouched DEF RepReply, Typed
  <2> QED  BY <2>1, <2>2
<1>6. ASSUME UNCHANGED <<main, request, reply, owed>>  PROVE InStep(d)'
  BY <1>0, <1>6, Untouched
<1>7. ASSUME NEW c \in Workers,
             \/ Receive(c) \/ Subscribe(c) \/ TakeFrame(c) \/ QueueMessage(c)
             \/ RepDecode(c) \/ RelayPut(c) \/ RelayDecode(c) \/ ServerReceive(c)
      PROVE  UNCHANGED <<main, request, reply, owed>>
  BY <1>7 DEF Receive, Subscribe, TakeFrame, QueueMessage, RepDecode, RelayPut,
              RelayDecode, ServerReceive, upVars, repVars
<1>8. ASSUME NEW S \in SUBSET Workers, Publish(S)
      PROVE  UNCHANGED <<main, request, reply, owed>>
  BY <1>8 DEF Publish, upVars, repVars
<1>9. CASE UNCHANGED vars
  BY <1>6, <1>9 DEF vars, upVars, repVars
<1> QED  BY <1>1, <1>2, <1>3, <1>4, <1>5, <1>6, <1>7, <1>8, <1>9
         DEF Next, DirectNext, WorkerMain, WorkerThread, RepLoop

\* Without a relay nothing enters the relay queue.
LEMMA NoRelayStep ==
  ASSUME Typed, NoRelay, [Next]_vars
  PROVE  NoRelay'
<1> SUFFICES ASSUME ~Relay  PROVE relayQueue' = Empty
  BY DEF NoRelay, Empty
<1>1. \A c \in Workers : ~RelayPut(c) /\ ~RelayDecode(c)
  BY DEF RelayPut, RelayDecode, NoRelay, Empty
<1> QED  BY <1>1 DEF Next, DirectNext, WorkerMain, WorkerThread, RepLoop, vars, upVars, repVars,
           NoRelay, Send, Acknowledged, TimesOut, Receive, Subscribe, TakeFrame,
           QueueMessage, RepReceive, RepReply, RepDecode, ServerReceive, Publish

-----------------------------------------------------------------------------
(* The inductive invariant, for every number of workers, messages and faults *)
(* and for both kinds of deployment.                                         *)
THEOREM InductiveInvariant == Spec => []IInv
<1>1. Init => IInv
  BY TypeInit, LockStepInit DEF IInv, NoRelay, Init
<1>2. IInv /\ [Next]_vars => IInv'
  BY TypeStep, LockStepStep, NoRelayStep DEF IInv
<1> QED  BY <1>1, <1>2, PTL DEF Spec

\* Every variable of the transport keeps its type: a reply is an acknowledgement, and
\* the bounded counters stay in their bounds.
THEOREM TypeCorrect == Spec => []TypeOK
BY InductiveInvariant, TypedIsTypeOK, PTL DEF IInv

\* REQ and REP stay in lockstep through every timeout and undecodable message: a
\* worker waits exactly while its request or the reply to it is under way.
THEOREM InLockStep == Spec => []LockStep
BY InductiveInvariant, PTL DEF IInv

-----------------------------------------------------------------------------
(* Sequences.                                                              *)

\* The head of one queue goes to the end of the queue in front of it.
LEMMA HeadMoves ==
  ASSUME NEW S, NEW s \in Seq(S), NEW t \in Seq(S), t # <<>>
  PROVE  /\ Append(s, Head(t)) \in Seq(S)
         /\ Append(s, Head(t)) \o Tail(t) = s \o t
<1>1. /\ Head(t) \in S /\ Tail(t) \in Seq(S) /\ Len(Tail(t)) = Len(t) - 1
      /\ \A i \in 1 .. Len(Tail(t)) : Tail(t)[i] = t[i + 1]
  BY HeadTailProperties
<1>2. Head(t) = t[1]
  OBVIOUS
<1> DEFINE a == Append(s, Head(t))
<1>3. /\ a \in Seq(S) /\ Len(a) = Len(s) + 1
      /\ \A i \in 1 .. Len(s) : a[i] = s[i]
      /\ a[Len(s) + 1] = Head(t)
  BY <1>1, AppendProperties
<1>4. /\ a \o Tail(t) \in Seq(S)
      /\ Len(a \o Tail(t)) = Len(a) + Len(Tail(t))
      /\ \A i \in 1 .. Len(a) + Len(Tail(t)) :
           (a \o Tail(t))[i] = IF i <= Len(a) THEN a[i] ELSE Tail(t)[i - Len(a)]
  <2> HIDE DEF a
  <2> QED  BY <1>1, <1>3, ConcatProperties
<1>5. /\ s \o t \in Seq(S)
      /\ Len(s \o t) = Len(s) + Len(t)
      /\ \A i \in 1 .. Len(s) + Len(t) :
           (s \o t)[i] = IF i <= Len(s) THEN s[i] ELSE t[i - Len(s)]
  BY ConcatProperties
<1>6. Len(s) \in Nat /\ Len(t) \in Nat
  BY LenProperties
<1>7. Len(a \o Tail(t)) = Len(s \o t)
  BY <1>1, <1>3, <1>4, <1>5, <1>6
<1>8. ASSUME NEW i \in 1 .. Len(a \o Tail(t))
      PROVE  (a \o Tail(t))[i] = (s \o t)[i]
  <2> HIDE DEF a
  <2> QED  BY <1>1, <1>2, <1>3, <1>4, <1>5, <1>6
<1>9. a \o Tail(t) = s \o t
  <2> HIDE DEF a
  <2> QED  BY <1>4, <1>5, <1>7, <1>8, SeqEqual
<1> QED  BY <1>3, <1>9

LEMMA TailConcat ==
  ASSUME NEW S, NEW s \in Seq(S), NEW t \in Seq(S), s # <<>>
  PROVE  /\ s \o t # <<>>
         /\ Head(s \o t) = Head(s)
         /\ Tail(s \o t) = Tail(s) \o t
<1>1. /\ Tail(s) \in Seq(S) /\ Len(Tail(s)) = Len(s) - 1
      /\ \A i \in 1 .. Len(Tail(s)) : Tail(s)[i] = s[i + 1]
  BY HeadTailProperties
<1>2. /\ s \o t \in Seq(S)
      /\ Len(s \o t) = Len(s) + Len(t)
      /\ \A i \in 1 .. Len(s) + Len(t) :
           (s \o t)[i] = IF i <= Len(s) THEN s[i] ELSE t[i - Len(s)]
  BY ConcatProperties
<1>3. Len(s) \in Nat \ {0} /\ Len(t) \in Nat
  BY LenProperties, EmptySeq
<1>4. s \o t # <<>>
  BY <1>2, <1>3, EmptySeq
<1>5. Head(s \o t) = Head(s)
  BY <1>2, <1>3
<1>6. /\ Tail(s \o t) \in Seq(S) /\ Len(Tail(s \o t)) = Len(s \o t) - 1
      /\ \A i \in 1 .. Len(Tail(s \o t)) : Tail(s \o t)[i] = (s \o t)[i + 1]
  BY <1>2, <1>4, HeadTailProperties
<1>7. /\ Tail(s) \o t \in Seq(S)
      /\ Len(Tail(s) \o t) = Len(Tail(s)) + Len(t)
      /\ \A i \in 1 .. Len(Tail(s)) + Len(t) :
           (Tail(s) \o t)[i] = IF i <= Len(Tail(s)) THEN Tail(s)[i]
                                                   ELSE t[i - Len(Tail(s))]
  BY <1>1, ConcatProperties
<1>8. Tail(s \o t) = Tail(s) \o t
  <2>1. Len(Tail(s \o t)) = Len(Tail(s) \o t)
    BY <1>1, <1>2, <1>3, <1>6, <1>7
  <2>2. ASSUME NEW i \in 1 .. Len(Tail(s \o t))
        PROVE  Tail(s \o t)[i] = (Tail(s) \o t)[i]
    BY <1>1, <1>2, <1>3, <1>6, <1>7, <2>1
  <2> QED  BY <1>6, <1>7, <2>1, <2>2, SeqEqual
<1> QED  BY <1>4, <1>5, <1>8

LEMMA AppendConcat ==
  ASSUME NEW S, NEW s \in Seq(S), NEW t \in Seq(S), NEW m \in S
  PROVE  s \o Append(t, m) = Append(s \o t, m)
<1>1. <<m>> \in Seq(S)
  OBVIOUS
<1>2. Append(t, m) = t \o <<m>> /\ Append(s \o t, m) = (s \o t) \o <<m>>
  BY AppendIsConcat, ConcatProperties
<1> QED  BY <1>1, <1>2, ConcatAssociative

LEMMA InRange ==
  ASSUME NEW n \in Nat, NEW k \in Nat \ {0}, k # 1
  PROVE  n + 2 \in n + 1 .. n + k /\ n + k \in n + 1 .. n + k
OBVIOUS

\* Dropping the head of the rest is dropping one message of the whole.
LEMMA DropHead ==
  ASSUME NEW S, NEW s \in Seq(S), NEW t \in Seq(S), t # <<>>
  PROVE  /\ Len(s) + 1 \in DOMAIN (s \o t)
         /\ (s \o t)[Len(s) + 1] = Head(t)
         /\ Abstract!Without(s \o t, Len(s) + 1) = s \o Tail(t)
<1> DEFINE w == s \o t
           n == Len(s)
<1>1. Len(s) \in Nat /\ Len(t) \in Nat \ {0}
  BY LenProperties, EmptySeq
<1>2. /\ w \in Seq(S)
      /\ Len(w) = n + Len(t)
      /\ \A i \in 1 .. n + Len(t) : w[i] = IF i <= n THEN s[i] ELSE t[i - n]
  BY ConcatProperties
<1>3. DOMAIN w = 1 .. Len(w)
  BY <1>2, LenProperties
<1>4. n + 1 \in DOMAIN w /\ w[n + 1] = Head(t)
  BY <1>1, <1>2, <1>3
<1>5. SubSeq(w, 1, n) = s
  <2>1. CASE n = 0
    <3>1. SubSeq(w, 1, n) = <<>>
      BY <2>1, SubSeqEmpty
    <3> QED  BY <1>1, <2>1, <3>1, EmptySeq
  <2>2. CASE n # 0
    <3>1. 1 \in 1 .. Len(s) /\ n \in 1 .. Len(s)
      BY <1>1, <2>2
    <3> QED  BY <3>1, SubSeqOfConcat1, SubSeqFull
  <2> QED  BY <2>1, <2>2
<1>6. SubSeq(w, n + 2, Len(w)) = Tail(t)
  <2>1. CASE Len(t) = 1
    <3>1. SubSeq(w, n + 2, Len(w)) = <<>>
      BY <1>1, <1>2, <2>1, SubSeqEmpty
    <3>2. Tail(t) \in Seq(S) /\ Len(Tail(t)) = 0
      BY <2>1, HeadTailProperties
    <3> QED  BY <3>1, <3>2, EmptySeq
  <2>2. CASE Len(t) # 1
    <3>1. n + 2 \in n + 1 .. n + Len(t) /\ n + Len(t) \in n + 1 .. n + Len(t)
      BY <1>1, <2>2, InRange
    <3>2. SubSeq(w, n + 2, n + Len(t)) = SubSeq(t, n + 2 - n, n + Len(t) - n)
      BY <3>1, SubSeqOfConcat2
    <3>3. n + 2 - n = 2 /\ n + Len(t) - n = Len(t)
      BY <1>1
    <3> QED  BY <1>2, <3>2, <3>3, TailIsSubSeq
  <2> QED  BY <2>1, <2>2
<1>7. (n + 1) - 1 = n /\ (n + 1) + 1 = n + 2
  BY <1>1
<1>8. Abstract!Without(w, n + 1) = SubSeq(w, 1, n) \o SubSeq(w, n + 2, Len(w))
  BY <1>7 DEF Abstract!Without
<1> QED  BY <1>4, <1>5, <1>6, <1>8

-----------------------------------------------------------------------------
(* Both directions, in the form the lemmas on sequences apply to.          *)

Up   == [c \in Workers |-> Upstream(c)]
Down == [c \in Workers |-> Downstream(c)]

QueuesOf(c) ==
  /\ recvQueue[c] \in Seq(Message) /\ relayQueue[c] \in Seq(Message)
  /\ inHand[c] \in Seq(Message) /\ request[c] \in Seq(Message)
  /\ inbox[c] \in Seq(Message) /\ decoded[c] \in Seq(Message)
  /\ frames[c] \in Seq(Message)

LEMMA Queued ==
  ASSUME Typed, NEW c \in Workers
  PROVE  QueuesOf(c)
BY DEF Typed, Queues, QueuesOf

\* What the queues of a worker's messages to the server hold is unchanged.
LEMMA SameUp ==
  ASSUME UNCHANGED <<recvQueue, relayQueue, inHand, request>>
  PROVE  Up' = Up
BY DEF Up, Upstream

LEMMA SameDown ==
  ASSUME UNCHANGED <<inbox, decoded, frames>>
  PROVE  Down' = Down
BY DEF Down, Downstream

LEMMA SameUpOf ==
  ASSUME NEW d, recvQueue'[d] = recvQueue[d], relayQueue'[d] = relayQueue[d],
         inHand'[d] = inHand[d], request'[d] = request[d]
  PROVE  Upstream(d)' = Upstream(d)
BY DEF Upstream

LEMMA SameDownOf ==
  ASSUME NEW d, inbox'[d] = inbox[d], decoded'[d] = decoded[d], frames'[d] = frames[d]
  PROVE  Downstream(d)' = Downstream(d)
BY DEF Downstream

\* How one worker's channel to the server changes when only its queues do.
LEMMA UpAt ==
  ASSUME NEW c \in Workers, NEW v, Upstream(c)' = v,
         \A d \in Workers \ {c} : Upstream(d)' = Upstream(d)
  PROVE  Up' = [Up EXCEPT ![c] = v]
BY DEF Up

LEMMA DownAt ==
  ASSUME NEW c \in Workers, NEW v, Downstream(c)' = v,
         \A d \in Workers \ {c} : Downstream(d)' = Downstream(d)
  PROVE  Down' = [Down EXCEPT ![c] = v]
BY DEF Down

-----------------------------------------------------------------------------
(* Concatenation, as an operator that only these facts are known of.       *)

Cat(s, t) == s \o t

LEMMA CatFacts ==
  ASSUME NEW S, NEW s \in Seq(S), NEW t \in Seq(S)
  PROVE  /\ Cat(s, t) \in Seq(S)
         /\ s = <<>> => Cat(s, t) = t
         /\ t = <<>> => Cat(s, t) = s
BY ConcatProperties, ConcatEmptySeq DEF Cat

LEMMA CatAssociative ==
  ASSUME NEW S, NEW s \in Seq(S), NEW t \in Seq(S), NEW u \in Seq(S)
  PROVE  Cat(Cat(s, t), u) = Cat(s, Cat(t, u))
BY ConcatAssociative DEF Cat

LEMMA CatMoves ==
  ASSUME NEW S, NEW s \in Seq(S), NEW t \in Seq(S), t # <<>>
  PROVE  /\ Append(s, Head(t)) \in Seq(S) /\ Tail(t) \in Seq(S)
         /\ Cat(Append(s, Head(t)), Tail(t)) = Cat(s, t)
BY HeadMoves, HeadTailProperties DEF Cat

LEMMA CatTail ==
  ASSUME NEW S, NEW s \in Seq(S), NEW t \in Seq(S), s # <<>>
  PROVE  /\ Cat(s, t) # <<>>
         /\ Head(Cat(s, t)) = Head(s)
         /\ Tail(Cat(s, t)) = Cat(Tail(s), t)
BY TailConcat DEF Cat

LEMMA CatAppend ==
  ASSUME NEW S, NEW s \in Seq(S), NEW t \in Seq(S), NEW m \in S
  PROVE  Cat(s, Append(t, m)) = Append(Cat(s, t), m)
BY AppendConcat DEF Cat

\* Message m is dropped from w, which leaves v.
DropsOne(w, m, v) ==
  \E i \in DOMAIN w : w[i] = m /\ Abstract!Without(w, i) = v

LEMMA CatDrop ==
  ASSUME NEW S, NEW s \in Seq(S), NEW t \in Seq(S), t # <<>>
  PROVE  DropsOne(Cat(s, t), Head(t), Cat(s, Tail(t)))
BY DropHead DEF Cat, DropsOne

\* The queues of one direction, front to back.
Joined(p, q, r, s) == Cat(Cat(Cat(p, q), r), s)

LEMMA TwoAndTwo ==
  ASSUME NEW S, NEW p \in Seq(S), NEW q \in Seq(S), NEW r \in Seq(S), NEW s \in Seq(S)
  PROVE  Joined(p, q, r, s) = Cat(Cat(p, q), Cat(r, s))
<1>1. Cat(p, q) \in Seq(S)
  BY CatFacts
<1> QED  BY <1>1, CatAssociative DEF Joined

LEMMA OneAndThree ==
  ASSUME NEW S, NEW p \in Seq(S), NEW q \in Seq(S), NEW r \in Seq(S), NEW s \in Seq(S)
  PROVE  /\ Cat(q, Cat(r, s)) \in Seq(S)
         /\ Joined(p, q, r, s) = Cat(p, Cat(q, Cat(r, s)))
<1>1. Cat(r, s) \in Seq(S)
  BY CatFacts
<1>2. Cat(Cat(p, q), Cat(r, s)) = Cat(p, Cat(q, Cat(r, s)))
  BY <1>1, CatAssociative
<1>3. Cat(q, Cat(r, s)) \in Seq(S)
  BY <1>1, CatFacts
<1> QED  BY <1>2, <1>3, TwoAndTwo

\* A message moves from the last queue, from the third, and from the second.
LEMMA MoveLast ==
  ASSUME NEW S, NEW p \in Seq(S), NEW q \in Seq(S), NEW r \in Seq(S), NEW s \in Seq(S),
         s # <<>>
  PROVE  Joined(p, q, Append(r, Head(s)), Tail(s)) = Joined(p, q, r, s)
<1>1. /\ Append(r, Head(s)) \in Seq(S) /\ Tail(s) \in Seq(S)
      /\ Cat(Append(r, Head(s)), Tail(s)) = Cat(r, s)
  BY CatMoves
<1>2. Joined(p, q, Append(r, Head(s)), Tail(s))
        = Cat(Cat(p, q), Cat(Append(r, Head(s)), Tail(s)))
  <2> DEFINE t == Append(r, Head(s))
             u == Tail(s)
  <2>1. t \in Seq(S) /\ u \in Seq(S)
    BY <1>1
  <2> HIDE DEF t, u
  <2>2. Joined(p, q, t, u) = Cat(Cat(p, q), Cat(t, u))
    BY <2>1, TwoAndTwo
  <2> QED  BY <2>2 DEF t, u
<1>3. Joined(p, q, r, s) = Cat(Cat(p, q), Cat(r, s))
  BY TwoAndTwo
<1> QED  BY <1>1, <1>2, <1>3

LEMMA MoveThird ==
  ASSUME NEW S, NEW p \in Seq(S), NEW q \in Seq(S), NEW r \in Seq(S), NEW s \in Seq(S),
         r # <<>>
  PROVE  Joined(p, Append(q, Head(r)), Tail(r), s) = Joined(p, q, r, s)
<1>1. /\ Append(q, Head(r)) \in Seq(S) /\ Tail(r) \in Seq(S)
      /\ Cat(Append(q, Head(r)), Tail(r)) = Cat(q, r)
  BY CatMoves
<1>2. Cat(Cat(p, Append(q, Head(r))), Tail(r)) = Cat(p, Cat(Append(q, Head(r)), Tail(r)))
  <2> DEFINE t == Append(q, Head(r))
             u == Tail(r)
  <2>1. t \in Seq(S) /\ u \in Seq(S)
    BY <1>1
  <2> HIDE DEF t, u
  <2>2. Cat(Cat(p, t), u) = Cat(p, Cat(t, u))
    BY <2>1, CatAssociative
  <2> QED  BY <2>2 DEF t, u
<1>3. Cat(Cat(p, q), r) = Cat(p, Cat(q, r))
  BY CatAssociative
<1> QED  BY <1>1, <1>2, <1>3 DEF Joined

LEMMA MoveSecond ==
  ASSUME NEW S, NEW p \in Seq(S), NEW q \in Seq(S), NEW r \in Seq(S), NEW s \in Seq(S),
         q # <<>>
  PROVE  Joined(Append(p, Head(q)), Tail(q), r, s) = Joined(p, q, r, s)
BY CatMoves DEF Joined

\* A message moves from the third queue to the first, past an empty one.
LEMMA MovePast ==
  ASSUME NEW S, NEW p \in Seq(S), NEW r \in Seq(S), NEW s \in Seq(S), r # <<>>
  PROVE  Joined(Append(p, Head(r)), <<>>, Tail(r), s) = Joined(p, <<>>, r, s)
<1>1. <<>> \in Seq(S)
  BY EmptySeq
<1>2. Append(p, Head(r)) \in Seq(S) /\ Cat(Append(p, Head(r)), Tail(r)) = Cat(p, r)
  BY CatMoves
<1>3. Cat(Append(p, Head(r)), <<>>) = Append(p, Head(r)) /\ Cat(p, <<>>) = p
  BY <1>1, <1>2, CatFacts
<1> QED  BY <1>2, <1>3 DEF Joined

\* A message is dropped from the second queue, and from the third behind an empty one.
LEMMA DropSecond ==
  ASSUME NEW S, NEW p \in Seq(S), NEW q \in Seq(S), NEW r \in Seq(S), NEW s \in Seq(S),
         q # <<>>
  PROVE  DropsOne(Joined(p, q, r, s), Head(q), Joined(p, Tail(q), r, s))
<1>1. Tail(q) \in Seq(S)
  BY HeadTailProperties
<1>2. Cat(r, s) \in Seq(S) /\ Cat(q, Cat(r, s)) \in Seq(S)
  BY CatFacts, OneAndThree
<1>3. /\ Cat(q, Cat(r, s)) # <<>>
      /\ Head(Cat(q, Cat(r, s))) = Head(q)
      /\ Tail(Cat(q, Cat(r, s))) = Cat(Tail(q), Cat(r, s))
  BY <1>2, CatTail
<1>4. Joined(p, q, r, s) = Cat(p, Cat(q, Cat(r, s)))
  BY OneAndThree
<1>5. Joined(p, Tail(q), r, s) = Cat(p, Cat(Tail(q), Cat(r, s)))
  <2> DEFINE t == Tail(q)
  <2>1. t \in Seq(S)
    BY <1>1
  <2> HIDE DEF t
  <2>2. Joined(p, t, r, s) = Cat(p, Cat(t, Cat(r, s)))
    BY <2>1, OneAndThree
  <2> QED  BY <2>2 DEF t
<1>6. DropsOne(Cat(p, Cat(q, Cat(r, s))), Head(Cat(q, Cat(r, s))),
               Cat(p, Tail(Cat(q, Cat(r, s)))))
  BY <1>2, <1>3, CatDrop
<1> QED  BY <1>3, <1>4, <1>5, <1>6

LEMMA DropThird ==
  ASSUME NEW S, NEW p \in Seq(S), NEW r \in Seq(S), NEW s \in Seq(S), r # <<>>
  PROVE  DropsOne(Joined(p, <<>>, r, s), Head(r), Joined(p, <<>>, Tail(r), s))
<1>1. <<>> \in Seq(S) /\ Tail(r) \in Seq(S)
  BY HeadTailProperties, EmptySeq
<1>2. Cat(p, <<>>) = p
  BY <1>1, CatFacts
<1>3. Cat(p, r) \in Seq(S) /\ Cat(p, Tail(r)) \in Seq(S)
  BY <1>1, CatFacts
<1>4. Cat(Cat(p, r), <<>>) = Cat(p, r) /\ Cat(Cat(p, Tail(r)), <<>>) = Cat(p, Tail(r))
  BY <1>1, <1>3, CatFacts
<1>5. /\ Joined(p, <<>>, r, s) = Joined(p, r, <<>>, s)
      /\ Joined(p, <<>>, Tail(r), s) = Joined(p, Tail(r), <<>>, s)
  BY <1>2, <1>4 DEF Joined
<1> QED  BY <1>1, <1>5, DropSecond

\* The oldest message is read from the first queue.
LEMMA ReadFirst ==
  ASSUME NEW S, NEW p \in Seq(S), NEW q \in Seq(S), NEW r \in Seq(S), NEW s \in Seq(S),
         p # <<>>
  PROVE  /\ Joined(p, q, r, s) # <<>>
         /\ Joined(Tail(p), q, r, s) = Tail(Joined(p, q, r, s))
<1>1. Tail(p) \in Seq(S) /\ Cat(q, Cat(r, s)) \in Seq(S)
  BY HeadTailProperties, OneAndThree
<1>2. /\ Cat(p, Cat(q, Cat(r, s))) # <<>>
      /\ Tail(Cat(p, Cat(q, Cat(r, s)))) = Cat(Tail(p), Cat(q, Cat(r, s)))
  BY <1>1, CatTail
<1>3. Joined(p, q, r, s) = Cat(p, Cat(q, Cat(r, s)))
  BY OneAndThree
<1>4. Joined(Tail(p), q, r, s) = Cat(Tail(p), Cat(q, Cat(r, s)))
  <2> DEFINE t == Tail(p)
  <2>1. t \in Seq(S)
    BY <1>1
  <2> HIDE DEF t
  <2>2. Joined(t, q, r, s) = Cat(t, Cat(q, Cat(r, s)))
    BY <2>1, OneAndThree
  <2> QED  BY <2>2 DEF t
<1> QED  BY <1>2, <1>3, <1>4

-----------------------------------------------------------------------------
(* What a step does to the channels.                                       *)

LEMMA UpIs ==
  ASSUME NEW c
  PROVE  /\ Upstream(c) = Joined(recvQueue[c], relayQueue[c], inHand[c], request[c])
         /\ Upstream(c)' = Joined(recvQueue'[c], relayQueue'[c], inHand'[c], request'[c])
BY DEF Upstream, Joined, Cat

LEMMA DownIs ==
  ASSUME NEW c, QueuesOf(c), QueuesOf(c)'
  PROVE  /\ Downstream(c) = Joined(inbox[c], decoded[c], frames[c], <<>>)
         /\ Downstream(c)' = Joined(inbox'[c], decoded'[c], frames'[c], <<>>)
<1>1. <<>> \in Seq(Message)
  BY EmptySeq
<1>2. ASSUME NEW i \in Seq(Message), NEW d \in Seq(Message), NEW f \in Seq(Message)
      PROVE  i \o d \o f = Joined(i, d, f, <<>>)
  <2>1. Cat(i, d) \in Seq(Message)
    BY CatFacts
  <2>2. Cat(Cat(i, d), f) \in Seq(Message)
    BY <2>1, CatFacts
  <2>3. Cat(Cat(Cat(i, d), f), <<>>) = Cat(Cat(i, d), f)
    BY <1>1, <2>2, CatFacts
  <2> QED  BY <2>3 DEF Cat, Joined
<1> QED  BY <1>2 DEF Downstream, QueuesOf

\* A step that moves a message on its way, or none.
Still == Up' = Up /\ Down' = Down /\ subscribed' = subscribed

LEMMA StillRepReceive ==
  ASSUME Typed, NEW c \in Workers, RepReceive(c)
  PROVE  Still
<1>1. /\ request[c] # <<>>
      /\ inHand'[c] = Append(inHand[c], Head(request[c])) /\ request'[c] = Tail(request[c])
      /\ \A d \in Workers \ {c} : inHand'[d] = inHand[d] /\ request'[d] = request[d]
  BY DEF RepReceive, Put, Pop, Typed, Queues
<1>2. recvQueue' = recvQueue /\ relayQueue' = relayQueue
  BY DEF RepReceive
<1>3. QueuesOf(c)
  BY Queued
<1>4. Joined(recvQueue[c], relayQueue[c], Append(inHand[c], Head(request[c])), Tail(request[c]))
        = Joined(recvQueue[c], relayQueue[c], inHand[c], request[c])
  BY <1>1, <1>3, MoveLast DEF QueuesOf
<1>5. Upstream(c)' = Upstream(c)
  BY <1>1, <1>2, <1>4, UpIs
<1>6. \A d \in Workers : Upstream(d)' = Upstream(d)
  BY <1>1, <1>2, <1>5, SameUpOf
<1>7. Up' = Up
  BY <1>6 DEF Up
<1>8. Down' = Down /\ subscribed' = subscribed
  BY SameDown DEF RepReceive, downVars
<1> QED  BY <1>7, <1>8 DEF Still

LEMMA StillRelayPut ==
  ASSUME Typed, NEW c \in Workers, RelayPut(c)
  PROVE  Still
<1>1. /\ inHand[c] # <<>>
      /\ relayQueue'[c] = Append(relayQueue[c], Head(inHand[c])) /\ inHand'[c] = Tail(inHand[c])
      /\ \A d \in Workers \ {c} : inHand'[d] = inHand[d] /\ relayQueue'[d] = relayQueue[d]
  BY DEF RelayPut, Put, Pop, Typed, Queues
<1>2. recvQueue' = recvQueue /\ request' = request
  BY DEF RelayPut, upVars
<1>3. QueuesOf(c)
  BY Queued
<1>4. Joined(recvQueue[c], Append(relayQueue[c], Head(inHand[c])), Tail(inHand[c]), request[c])
        = Joined(recvQueue[c], relayQueue[c], inHand[c], request[c])
  BY <1>1, <1>3, MoveThird DEF QueuesOf
<1>5. Upstream(c)' = Upstream(c)
  BY <1>1, <1>2, <1>4, UpIs
<1>6. \A d \in Workers : Upstream(d)' = Upstream(d)
  BY <1>1, <1>2, <1>5, SameUpOf
<1>7. Up' = Up
  BY <1>6 DEF Up
<1>8. Down' = Down /\ subscribed' = subscribed
  BY SameDown DEF RelayPut, downVars
<1> QED  BY <1>7, <1>8 DEF Still

LEMMA StillQueueMessage ==
  ASSUME Typed, NEW c \in Workers, QueueMessage(c)
  PROVE  Still
<1>1. /\ decoded[c] # <<>>
      /\ inbox'[c] = Append(inbox[c], Head(decoded[c])) /\ decoded'[c] = Tail(decoded[c])
      /\ \A d \in Workers \ {c} : inbox'[d] = inbox[d] /\ decoded'[d] = decoded[d]
  BY DEF QueueMessage, Put, Pop, Typed, Queues
<1>2. frames' = frames
  BY DEF QueueMessage
<1>3. QueuesOf(c)
  BY Queued
<1>4. inbox'[c] \o decoded'[c] = inbox[c] \o decoded[c]
  BY <1>1, <1>3, HeadMoves DEF QueuesOf
<1>5. Downstream(c)' = Downstream(c)
  BY <1>2, <1>4 DEF Downstream
<1>6. \A d \in Workers : Downstream(d)' = Downstream(d)
  BY <1>1, <1>2, <1>5, SameDownOf
<1>7. Down' = Down
  BY <1>6 DEF Down
<1>8. Up' = Up /\ subscribed' = subscribed
  BY SameUp DEF QueueMessage, upVars, repVars
<1> QED  BY <1>7, <1>8 DEF Still

LEMMA StillOthers ==
  ASSUME NEW c \in Workers, Acknowledged(c) \/ RepReply(c)
  PROVE  Still
BY SameUp, SameDown DEF Acknowledged, RepReply, Still, upVars, repVars, downVars

\* The head of a queue is read, sent on, or dropped if it cannot be decoded.
Loses(f, g, c) ==
  \E i \in DOMAIN f[c] : /\ ~f[c][i].ok
                         /\ g = [f EXCEPT ![c] = Abstract!Without(f[c], i)]

LEMMA LosesIf ==
  ASSUME NEW f, NEW g, NEW c, NEW m, NEW v, DropsOne(f[c], m, v), ~m.ok,
         g = [f EXCEPT ![c] = v]
  PROVE  Loses(f, g, c)
BY DEF Loses, DropsOne

LEMMA RelayDecodes ==
  ASSUME Typed, NEW c \in Workers, RelayDecode(c)
  PROVE  /\ Up' = Up \/ Loses(Up, Up', c)
         /\ Down' = Down /\ subscribed' = subscribed
<1> DEFINE m == Head(relayQueue[c])
<1>1. /\ relayQueue[c] # <<>> /\ relayQueue'[c] = Tail(relayQueue[c])
      /\ recvQueue' = IF m.ok THEN Put(recvQueue, c, m) ELSE recvQueue
      /\ \A d \in Workers \ {c} : relayQueue'[d] = relayQueue[d]
  BY DEF RelayDecode, Decode, Pop, Typed, Queues
<1>2. inHand' = inHand /\ request' = request
  BY DEF RelayDecode, upVars
<1>3. QueuesOf(c)
  BY Queued
<1>4. \A d \in Workers \ {c} : recvQueue'[d] = recvQueue[d]
  BY <1>1 DEF Put, Typed, Queues
<1>5. \A d \in Workers \ {c} : Upstream(d)' = Upstream(d)
  BY <1>1, <1>2, <1>4, SameUpOf
<1>8. Down' = Down /\ subscribed' = subscribed
  BY SameDown DEF RelayDecode, downVars
<1>6. CASE m.ok
  <2>1. recvQueue'[c] = Append(recvQueue[c], m)
    BY <1>1, <1>6 DEF Put, Typed, Queues
  <2>2. Joined(Append(recvQueue[c], m), Tail(relayQueue[c]), inHand[c], request[c])
          = Joined(recvQueue[c], relayQueue[c], inHand[c], request[c])
    BY <1>1, <1>3, MoveSecond DEF QueuesOf
  <2>3. Upstream(c)' = Upstream(c)
    BY <1>1, <1>2, <2>1, <2>2, UpIs
  <2>4. Up' = Up
    BY <1>5, <2>3 DEF Up
  <2> QED  BY <1>8, <2>4
<1>7. CASE ~m.ok
  <2>1. DropsOne(Joined(recvQueue[c], relayQueue[c], inHand[c], request[c]), m,
                 Joined(recvQueue[c], Tail(relayQueue[c]), inHand[c], request[c]))
    BY <1>1, <1>3, DropSecond DEF QueuesOf
  <2>2. recvQueue' = recvQueue
    BY <1>1, <1>7
  <2>3. DropsOne(Upstream(c), m, Upstream(c)')
    BY <1>1, <1>2, <2>1, <2>2, UpIs
  <2>4. Up' = [Up EXCEPT ![c] = Upstream(c)'] /\ Up[c] = Upstream(c)
    BY <1>5 DEF Up
  <2>5. Loses(Up, Up', c)
    <3> HIDE DEF m
    <3> QED  BY <1>7, <2>3, <2>4, LosesIf
  <2> QED  BY <1>8, <2>5
<1> QED  BY <1>6, <1>7, <1>8

LEMMA RepDecodes ==
  ASSUME Typed, NoRelay, NEW c \in Workers, RepDecode(c)
  PROVE  /\ Up' = Up \/ Loses(Up, Up', c)
         /\ Down' = Down /\ subscribed' = subscribed
<1> DEFINE m == Head(inHand[c])
<1>1. /\ inHand[c] # <<>> /\ inHand'[c] = Tail(inHand[c])
      /\ recvQueue' = IF m.ok THEN Put(recvQueue, c, m) ELSE recvQueue
      /\ \A d \in Workers \ {c} : inHand'[d] = inHand[d]
  BY DEF RepDecode, Decode, Pop, Typed, Queues
<1>2. relayQueue' = relayQueue /\ request' = request /\ relayQueue[c] = <<>>
  BY DEF RepDecode, upVars, NoRelay, Empty
<1>3. QueuesOf(c)
  BY Queued
<1>4. \A d \in Workers \ {c} : recvQueue'[d] = recvQueue[d]
  BY <1>1 DEF Put, Typed, Queues
<1>5. \A d \in Workers \ {c} : Upstream(d)' = Upstream(d)
  BY <1>1, <1>2, <1>4, SameUpOf
<1>6. Down' = Down /\ subscribed' = subscribed
  BY SameDown DEF RepDecode, downVars
<1>7. CASE m.ok
  <2>1. recvQueue'[c] = Append(recvQueue[c], m)
    BY <1>1, <1>7 DEF Put, Typed, Queues
  <2>2. Joined(Append(recvQueue[c], m), <<>>, Tail(inHand[c]), request[c])
          = Joined(recvQueue[c], <<>>, inHand[c], request[c])
    BY <1>1, <1>3, MovePast DEF QueuesOf
  <2>3. Upstream(c)' = Upstream(c)
    BY <1>1, <1>2, <2>1, <2>2, UpIs
  <2>4. Up' = Up
    BY <1>5, <2>3 DEF Up
  <2> QED  BY <1>6, <2>4
<1>8. CASE ~m.ok
  <2>1. DropsOne(Joined(recvQueue[c], <<>>, inHand[c], request[c]), m,
                 Joined(recvQueue[c], <<>>, Tail(inHand[c]), request[c]))
    BY <1>1, <1>3, DropThird DEF QueuesOf
  <2>2. recvQueue' = recvQueue
    BY <1>1, <1>8
  <2>3. DropsOne(Upstream(c), m, Upstream(c)')
    BY <1>1, <1>2, <2>1, <2>2, UpIs
  <2>4. Up' = [Up EXCEPT ![c] = Upstream(c)'] /\ Up[c] = Upstream(c)
    BY <1>5 DEF Up
  <2>5. Loses(Up, Up', c)
    <3> HIDE DEF m
    <3> QED  BY <1>8, <2>3, <2>4, LosesIf
  <2> QED  BY <1>6, <2>5
<1> QED  BY <1>7, <1>8

LEMMA TakesFrame ==
  ASSUME Typed, Typed', NEW c \in Workers, TakeFrame(c)
  PROVE  /\ Down' = Down \/ Loses(Down, Down', c)
         /\ Up' = Up /\ subscribed' = subscribed
<1> DEFINE m == Head(frames[c])
<1>1. /\ frames[c] # <<>> /\ frames'[c] = Tail(frames[c]) /\ decoded[c] = <<>>
      /\ decoded' = IF m.ok THEN Put(decoded, c, m) ELSE decoded
      /\ \A d \in Workers \ {c} : frames'[d] = frames[d]
  BY DEF TakeFrame, Pop, Typed, Queues
<1>2. inbox' = inbox
  BY DEF TakeFrame
<1>3. QueuesOf(c) /\ QueuesOf(c)' /\ <<>> \in Seq(Message)
  BY EmptySeq DEF Typed, Queues, QueuesOf
<1>4. \A d \in Workers \ {c} : decoded'[d] = decoded[d]
  BY <1>1 DEF Put, Typed, Queues
<1>5. \A d \in Workers \ {c} : Downstream(d)' = Downstream(d)
  BY <1>1, <1>2, <1>4, SameDownOf
<1>6. Up' = Up /\ subscribed' = subscribed
  BY SameUp DEF TakeFrame, upVars, repVars
<1>7. CASE m.ok
  <2>1. decoded'[c] = Append(decoded[c], m)
    BY <1>1, <1>7 DEF Put, Typed, Queues
  <2>2. Joined(inbox[c], Append(decoded[c], m), Tail(frames[c]), <<>>)
          = Joined(inbox[c], decoded[c], frames[c], <<>>)
    <3> DEFINE p == inbox[c]
               q == decoded[c]
               r == frames[c]
               s == <<>>
    <3>1. p \in Seq(Message) /\ q \in Seq(Message) /\ r \in Seq(Message) /\ s \in Seq(Message)
      BY <1>3 DEF QueuesOf
    <3>2. r # <<>>
      BY <1>1
    <3> HIDE DEF p, q, r, s
    <3>3. Joined(p, Append(q, Head(r)), Tail(r), s) = Joined(p, q, r, s)
      BY <3>1, <3>2, MoveThird
    <3> QED  BY <3>3 DEF p, q, r, s
  <2>3. Downstream(c)' = Downstream(c)
    BY <1>1, <1>2, <1>3, <2>1, <2>2, DownIs
  <2>4. Down' = Down
    BY <1>5, <2>3 DEF Down
  <2> QED  BY <1>6, <2>4
<1>8. CASE ~m.ok
  <2>1. DropsOne(Joined(inbox[c], <<>>, frames[c], <<>>), m,
                 Joined(inbox[c], <<>>, Tail(frames[c]), <<>>))
    BY <1>1, <1>3, DropThird DEF QueuesOf
  <2>2. decoded' = decoded
    BY <1>1, <1>8
  <2>3. DropsOne(Downstream(c), m, Downstream(c)')
    BY <1>1, <1>2, <1>3, <2>1, <2>2, DownIs
  <2>4. Down' = [Down EXCEPT ![c] = Downstream(c)'] /\ Down[c] = Downstream(c)
    BY <1>5 DEF Down
  <2>5. Loses(Down, Down', c)
    <3> HIDE DEF m
    <3> QED  BY <1>8, <2>3, <2>4, LosesIf
  <2> QED  BY <1>6, <2>5
<1> QED  BY <1>7, <1>8

LEMMA ServerReads ==
  ASSUME Typed, NEW c \in Workers, ServerReceive(c)
  PROVE  /\ Up[c] # <<>> /\ Up' = [Up EXCEPT ![c] = Tail(Up[c])]
         /\ Down' = Down /\ subscribed' = subscribed
<1>1. /\ recvQueue[c] # <<>> /\ recvQueue'[c] = Tail(recvQueue[c])
      /\ \A d \in Workers \ {c} : recvQueue'[d] = recvQueue[d]
  BY DEF ServerReceive, Pop, Typed, Queues
<1>2. relayQueue' = relayQueue /\ inHand' = inHand /\ request' = request
  BY DEF ServerReceive, upVars
<1>3. QueuesOf(c)
  BY Queued
<1>4. /\ Joined(recvQueue[c], relayQueue[c], inHand[c], request[c]) # <<>>
      /\ Joined(Tail(recvQueue[c]), relayQueue[c], inHand[c], request[c])
           = Tail(Joined(recvQueue[c], relayQueue[c], inHand[c], request[c]))
  <2> DEFINE p == recvQueue[c]
             q == relayQueue[c]
             r == inHand[c]
             s == request[c]
  <2>1. p \in Seq(Message) /\ q \in Seq(Message) /\ r \in Seq(Message) /\ s \in Seq(Message)
    BY <1>3 DEF QueuesOf
  <2>2. p # <<>>
    BY <1>1
  <2> HIDE DEF p, q, r, s
  <2>3. Joined(p, q, r, s) # <<>> /\ Joined(Tail(p), q, r, s) = Tail(Joined(p, q, r, s))
    BY <2>1, <2>2, ReadFirst
  <2> QED  BY <2>3 DEF p, q, r, s
<1>5. Upstream(c) # <<>> /\ Upstream(c)' = Tail(Upstream(c))
  BY <1>1, <1>2, <1>4, UpIs
<1>6. \A d \in Workers \ {c} : Upstream(d)' = Upstream(d)
  BY <1>1, <1>2, SameUpOf
<1>7. Up[c] # <<>> /\ Up' = [Up EXCEPT ![c] = Tail(Up[c])]
  BY <1>5, <1>6 DEF Up
<1>8. Down' = Down /\ subscribed' = subscribed
  BY SameDown DEF ServerReceive, downVars
<1> QED  BY <1>7, <1>8

LEMMA ClientReads ==
  ASSUME Typed, Typed', NEW c \in Workers, Receive(c)
  PROVE  /\ Down[c] # <<>> /\ Down' = [Down EXCEPT ![c] = Tail(Down[c])]
         /\ Up' = Up /\ subscribed' = subscribed
<1>1. /\ inbox[c] # <<>> /\ inbox'[c] = Tail(inbox[c])
      /\ \A d \in Workers \ {c} : inbox'[d] = inbox[d]
  BY DEF Receive, Pop, Typed, Queues
<1>2. decoded' = decoded /\ frames' = frames
  BY DEF Receive
<1>3. QueuesOf(c) /\ QueuesOf(c)' /\ <<>> \in Seq(Message)
  BY EmptySeq DEF Typed, Queues, QueuesOf
<1>4. /\ Joined(inbox[c], decoded[c], frames[c], <<>>) # <<>>
      /\ Joined(Tail(inbox[c]), decoded[c], frames[c], <<>>)
           = Tail(Joined(inbox[c], decoded[c], frames[c], <<>>))
  <2> DEFINE p == inbox[c]
             q == decoded[c]
             r == frames[c]
             s == <<>>
  <2>1. p \in Seq(Message) /\ q \in Seq(Message) /\ r \in Seq(Message) /\ s \in Seq(Message)
    BY <1>3 DEF QueuesOf
  <2>2. p # <<>>
    BY <1>1
  <2> HIDE DEF p, q, r, s
  <2>3. Joined(p, q, r, s) # <<>> /\ Joined(Tail(p), q, r, s) = Tail(Joined(p, q, r, s))
    BY <2>1, <2>2, ReadFirst
  <2> QED  BY <2>3 DEF p, q, r, s
<1>5. Downstream(c) # <<>> /\ Downstream(c)' = Tail(Downstream(c))
  BY <1>1, <1>2, <1>3, <1>4, DownIs
<1>6. \A d \in Workers \ {c} : Downstream(d)' = Downstream(d)
  BY <1>1, <1>2, SameDownOf
<1>7. Down[c] # <<>> /\ Down' = [Down EXCEPT ![c] = Tail(Down[c])]
  BY <1>5, <1>6 DEF Down
<1>8. Up' = Up /\ subscribed' = subscribed
  BY SameUp DEF Receive, upVars, repVars
<1> QED  BY <1>7, <1>8

LEMMA ClientSends ==
  ASSUME Typed, NEW c \in Workers, Send(c)
  PROVE  /\ \E m \in Message : Up' = [Up EXCEPT ![c] = Append(Up[c], m)]
         /\ Down' = Down /\ subscribed' = subscribed
<1>1. PICK m \in Message : request' = Put(request, c, m)
  <2>1. PICK ok \in BOOLEAN : request' = Put(request, c, [n |-> sent', ok |-> ok])
    BY DEF Send
  <2>2. sent' \in 1 .. MaxUp + MaxDown
    BY TransportAssumption DEF Send, Typed
  <2> QED  BY <2>1, <2>2 DEF Message
<1>2. /\ request'[c] = Append(request[c], m)
      /\ \A d \in Workers \ {c} : request'[d] = request[d]
  BY <1>1 DEF Put, Typed, Queues
<1>3. recvQueue' = recvQueue /\ relayQueue' = relayQueue /\ inHand' = inHand
  BY DEF Send, repVars
<1>4. QueuesOf(c)
  BY Queued
<1>5. Joined(recvQueue[c], relayQueue[c], inHand[c], Append(request[c], m))
        = Append(Joined(recvQueue[c], relayQueue[c], inHand[c], request[c]), m)
  <2> DEFINE p == recvQueue[c]
             q == relayQueue[c]
             r == inHand[c]
             s == request[c]
  <2>1. p \in Seq(Message) /\ q \in Seq(Message) /\ r \in Seq(Message) /\ s \in Seq(Message)
    BY <1>4 DEF QueuesOf
  <2> HIDE DEF p, q, r, s
  <2>2. Cat(Cat(p, q), r) \in Seq(Message)
    BY <2>1, CatFacts
  <2>3. Cat(Cat(Cat(p, q), r), Append(s, m)) = Append(Cat(Cat(Cat(p, q), r), s), m)
    BY <2>1, <2>2, CatAppend
  <2> QED  BY <2>3 DEF p, q, r, s, Joined
<1>6. Upstream(c)' = Append(Upstream(c), m)
  BY <1>2, <1>3, <1>5, UpIs
<1>7. \A d \in Workers \ {c} : Upstream(d)' = Upstream(d)
  BY <1>2, <1>3, SameUpOf
<1>8. Up' = [Up EXCEPT ![c] = Append(Up[c], m)]
  BY <1>6, <1>7 DEF Up
<1>9. Down' = Down /\ subscribed' = subscribed
  BY SameDown DEF Send, downVars
<1> QED  BY <1>8, <1>9

LEMMA ServerSends ==
  ASSUME Typed, NEW T \in SUBSET Workers, Publish(T)
  PROVE  /\ \E m \in Message :
               Down' = [c \in Workers |-> IF c \in T \cap subscribed
                                           THEN Append(Down[c], m) ELSE Down[c]]
         /\ Up' = Up /\ subscribed' = subscribed
<1>1. PICK m \in Message :
        frames' = [c \in Workers |-> IF c \in T \cap subscribed
                                      THEN Append(frames[c], m) ELSE frames[c]]
  <2>1. PICK ok \in BOOLEAN :
          frames' = [c \in Workers |->
                       IF c \in T \cap subscribed
                         THEN Append(frames[c], [n |-> published', ok |-> ok])
                         ELSE frames[c]]
    BY DEF Publish
  <2>2. published' \in 1 .. MaxUp + MaxDown
    BY TransportAssumption DEF Publish, Typed
  <2> QED  BY <2>1, <2>2 DEF Message
<1>2. inbox' = inbox /\ decoded' = decoded
  BY DEF Publish
<1>3. ASSUME NEW c \in Workers
      PROVE  Downstream(c)' = IF c \in T \cap subscribed
                                THEN Append(Downstream(c), m) ELSE Downstream(c)
  <2>1. QueuesOf(c)
    BY Queued
  <2>2. inbox[c] \o decoded[c] \in Seq(Message)
    BY <2>1, ConcatProperties DEF QueuesOf
  <2>3. (inbox[c] \o decoded[c]) \o Append(frames[c], m)
          = Append((inbox[c] \o decoded[c]) \o frames[c], m)
    <3> DEFINE p == inbox[c] \o decoded[c]
               q == frames[c]
    <3>1. p \in Seq(Message) /\ q \in Seq(Message)
      BY <2>1, <2>2 DEF QueuesOf
    <3> HIDE DEF p, q
    <3>2. p \o Append(q, m) = Append(p \o q, m)
      BY <3>1, AppendConcat
    <3> QED  BY <3>2 DEF p, q
  <2> QED  BY <1>1, <1>2, <2>3 DEF Downstream
<1>4. Down' = [c \in Workers |-> IF c \in T \cap subscribed
                                  THEN Append(Down[c], m) ELSE Down[c]]
  BY <1>3 DEF Down
<1>5. Up' = Up /\ subscribed' = subscribed
  BY SameUp DEF Publish, upVars, repVars
<1> QED  BY <1>4, <1>5

LEMMA WorkerDies ==
  ASSUME Typed, NEW c \in Workers, TimesOut(c)
  PROVE  /\ Down' = [Down EXCEPT ![c] = <<>>]
         /\ Up' = Up /\ subscribed' = subscribed \ {c}
<1>1. /\ inbox'[c] = <<>> /\ decoded'[c] = <<>> /\ frames'[c] = <<>>
      /\ \A d \in Workers \ {c} :
           inbox'[d] = inbox[d] /\ decoded'[d] = decoded[d] /\ frames'[d] = frames[d]
  BY DEF TimesOut, Typed, Queues
<1>2. <<>> \o <<>> \o <<>> = <<>>
  OBVIOUS
<1>3. Downstream(c)' = <<>>
  BY <1>1, <1>2 DEF Downstream
<1>4. \A d \in Workers \ {c} : Downstream(d)' = Downstream(d)
  BY <1>1, SameDownOf
<1>5. Down' = [Down EXCEPT ![c] = <<>>]
  BY <1>3, <1>4 DEF Down
<1>6. Up' = Up /\ subscribed' = subscribed \ {c}
  BY SameUp DEF TimesOut, repVars
<1> QED  BY <1>5, <1>6

-----------------------------------------------------------------------------
(* The refinement.                                                         *)

LEMMA RefinesInit == Init => Abstract!Init
<1> SUFFICES ASSUME Init  PROVE Abstract!Init
  OBVIOUS
<1>1. <<>> \o <<>> = <<>>
  OBVIOUS
<1>2. \A c \in Workers : Upstream(c) = <<>> /\ Downstream(c) = <<>>
  BY <1>1 DEF Init, Empty, Upstream, Downstream
<1> QED  BY <1>2 DEF Init, Abstract!Init

LEMMA RefinesStep ==
  ASSUME IInv, IInv', [Next]_vars
  PROVE  [Abstract!Next]_(Abstract!vars)
<1>0. Typed /\ Typed' /\ NoRelay
  BY DEF IInv
<1>1. ASSUME Still  PROVE UNCHANGED Abstract!vars
  BY <1>1 DEF Still, Up, Down, Abstract!vars
<1>2. ASSUME NEW c \in Workers, Send(c)  PROVE Abstract!ClientSends(c)
  BY <1>0, <1>2, ClientSends DEF Abstract!ClientSends, Up, Down
<1>3. ASSUME NEW c \in Workers, TimesOut(c)  PROVE Abstract!Dies(c)
  BY <1>0, <1>3, WorkerDies DEF Abstract!Dies, Up, Down
<1>4. ASSUME NEW c \in Workers, Receive(c)  PROVE Abstract!ClientReads(c)
  BY <1>0, <1>4, ClientReads DEF Abstract!ClientReads, Up, Down
<1>5. ASSUME NEW c \in Workers, Subscribe(c)  PROVE Abstract!Listen(c)
  BY <1>5, SameUp, SameDown DEF Subscribe, upVars, repVars, Abstract!Listen, Up, Down
<1>6. ASSUME NEW c \in Workers, TakeFrame(c)
      PROVE  Still \/ Abstract!LosesDown(c)
  BY <1>0, <1>6, TakesFrame DEF Still, Loses, Abstract!LosesDown, Up, Down
<1>7. ASSUME NEW c \in Workers, RepDecode(c) \/ RelayDecode(c)
      PROVE  Still \/ Abstract!LosesUp(c)
  BY <1>0, <1>7, RepDecodes, RelayDecodes DEF Still, Loses, Abstract!LosesUp, Up, Down
<1>8. ASSUME NEW c \in Workers, ServerReceive(c)  PROVE Abstract!ServerReads(c)
  BY <1>0, <1>8, ServerReads DEF Abstract!ServerReads, Up, Down
<1>9. ASSUME NEW T \in SUBSET Workers, Publish(T)  PROVE Abstract!ServerSends(T)
  BY <1>0, <1>9, ServerSends DEF Abstract!ServerSends, Up, Down
<1>10. ASSUME NEW c \in Workers,
              \/ Acknowledged(c) \/ QueueMessage(c) \/ RepReceive(c) \/ RepReply(c)
              \/ RelayPut(c)
       PROVE  Still
  BY <1>0, <1>10, StillOthers, StillQueueMessage, StillRepReceive, StillRelayPut
<1>11. ASSUME UNCHANGED vars  PROVE Still
  BY <1>11, SameUp, SameDown DEF vars, upVars, repVars, downVars, Still
<1> QED  BY <1>1, <1>2, <1>3, <1>4, <1>5, <1>6, <1>7, <1>8, <1>9, <1>10, <1>11
         DEF Next, DirectNext, WorkerMain, WorkerThread, RepLoop, Abstract!Next

\* Sockets, threads and queues, direct or relayed, implement one ordered channel per
\* worker and direction: nothing is duplicated, reordered or made up, and lost is only
\* what cannot be decoded and what is published to a worker that does not listen or dies.
THEOREM ChannelsImplemented == Spec => ImplementsChannels
<1>1. Init => Abstract!Init
  BY RefinesInit
<1>2. IInv /\ IInv' /\ [Next]_vars => [Abstract!Next]_(Abstract!vars)
  BY RefinesStep
<1> QED  BY <1>1, <1>2, InductiveInvariant, PTL DEF Spec, ImplementsChannels, Abstract!Spec

\* What is proved of the transport holds of the manager on its own.
LEMMA DirectIsTransport == DirectSpec => Spec
<1>1. DirectNext => Next
  BY DEF Next
<1> QED  BY <1>1, PTL DEF DirectSpec, Spec

-----------------------------------------------------------------------------
(* The deployment.                                                         *)

LEMMA DeploymentStep ==
  ASSUME [DNext]_allVars
  PROVE  [Next]_vars
<1>1. ASSUME NEW c \in Workers,
             \/ Worker(c) \/ Sends(c) \/ Faulty(c) \/ RepStep(c) \/ Decodes(c) \/ Reads(c)
      PROVE  Next
  BY <1>1 DEF Worker, Sends, Faulty, RepStep, Decodes, Reads, Transport,
                Next, DirectNext, RepLoop
<1>2. ASSUME Publishes  PROVE Next
  BY <1>2 DEF Publishes, Transport, Next, DirectNext
<1>3. ASSUME NEW d \in Devices,
             \/ AgentSubscribe(d) \/ Advertise(d) \/ AgentRestart(d) \/ HandleAdvertisement(d)
      PROVE  UNCHANGED vars
  BY <1>3 DEF AgentSubscribe, Advertise, AgentRestart, HandleAdvertisement
<1>4. ASSUME NEW c \in Workers, PublishStart(c) \/ StartFails(c) \/ RunContainer(c)
      PROVE  UNCHANGED vars
  BY <1>4 DEF PublishStart, StartFails, RunContainer
<1>5. ASSUME DevicesReady \/ DevicesMissing \/ RecordStart \/ BuildServer
      PROVE  UNCHANGED vars
  BY <1>5 DEF DevicesReady, DevicesMissing, RecordStart, BuildServer
<1>6. ASSUME UNCHANGED allVars  PROVE UNCHANGED vars
  BY <1>6 DEF allVars
<1> QED  BY <1>1, <1>2, <1>3, <1>4, <1>5, <1>6 DEF DNext

\* In a deployment, whatever the launch and the agents do, the transport is the one
\* the theorems above are about.
THEOREM DeploymentUsesTransport == DSpec => Spec
<1>1. DInit => Init
  BY DEF DInit
<1>2. [DNext]_allVars => [Next]_vars
  BY DeploymentStep
<1> QED  BY <1>1, <1>2, PTL DEF DSpec, Spec

\* The registry and the launch.
Registry ==
  /\ agent \in [Devices -> {"off", "advertising", "registered"}]
  /\ agentSubs \in SUBSET Devices
  /\ Registered \in SUBSET Devices
  /\ \A d \in Registered : devices[d] \in SUBSET Workers
  /\ launch \in {"waiting", "starting", "serving", "exited"}
  /\ restarted \in SUBSET Devices /\ IsFiniteSet(restarted)
  /\ Cardinality(restarted) <= MaxRestarts

\* The container starts.
Starts ==
  /\ started \in SUBSET Workers /\ failed \in SUBSET (Workers \ started)
  /\ Cardinality(failed) <= MaxFailedStarts
  /\ recording \in started \cup {None}
  /\ ordered \in SUBSET started /\ running \in SUBSET started

\* Containers are started only when all devices have registered.
StartedAfterAll ==
  /\ launch \in {"starting", "serving"} => Manifest \subseteq Registered
  /\ \A c \in started : DeviceOf[c] \in Registered

\* An agent that has registered, and was not restarted since, listens.
RegisteredListen ==
  /\ \A d \in Devices : agent[d] # "off" => d \in agentSubs
  /\ \A d \in Registered \ restarted : agent[d] = "registered"

DInv == Registry /\ Starts /\ StartedAfterAll /\ StartedAreRecorded

LInv == DInv /\ RegisteredListen /\ LostOnlyByRestart

LEMMA RegistryInit == DInit => LInv
<1> SUFFICES ASSUME DInit  PROVE LInv
  OBVIOUS
<1>1. Registered = {}
  BY DEF DInit, Registered
<1>2. IsFiniteSet({}) /\ Cardinality({}) = 0
  BY FS_EmptySet
<1>3. Registry
  BY <1>1, <1>2, DeploymentAssumption DEF DInit, Registry
<1>4. Starts
  BY <1>2, DeploymentAssumption DEF DInit, Starts
<1> QED  BY <1>1, <1>3, <1>4
         DEF DInit, LInv, DInv, StartedAfterAll, RegisteredListen, StartedAreRecorded,
             LostOnlyByRestart

\* What only the transport moves leaves the launch alone.
LEMMA TransportIsApart ==
  ASSUME NEW c \in Workers,
         \/ Worker(c) \/ Sends(c) \/ Faulty(c) \/ RepStep(c) \/ Decodes(c) \/ Reads(c)
         \/ Publishes
  PROVE  UNCHANGED ctrlVars
BY DEF Worker, Sends, Faulty, RepStep, Decodes, Reads, Publishes, Transport

LEMMA UnchangedRegistry ==
  ASSUME LInv \/ DInv, UNCHANGED ctrlVars
  PROVE  (LInv => LInv') /\ (DInv => DInv')
<1>1. UNCHANGED <<agent, agentSubs, restarted, devices, launch, started, failed, recording,
                  ordered, running>>
  BY DEF ctrlVars, agentVars, startVars, workerVars
<1>2. Registered' = Registered
  BY <1>1 DEF Registered
<1>3. (Registry => Registry') /\ (Starts => Starts')
  BY <1>1, <1>2 DEF Registry, Starts
<1>4. /\ StartedAfterAll => StartedAfterAll'
      /\ RegisteredListen => RegisteredListen'
      /\ StartedAreRecorded => StartedAreRecorded'
      /\ LostOnlyByRestart => LostOnlyByRestart'
  BY <1>1, <1>2
     DEF StartedAfterAll, RegisteredListen, StartedAreRecorded, LostOnlyByRestart
<1> QED  BY <1>3, <1>4 DEF LInv, DInv

LEMMA RegisterStep ==
  ASSUME DInv, NEW d \in Devices, HandleAdvertisement(d)
  PROVE  /\ DInv'
         /\ Registered' = Registered \cup {d} /\ agent' = [agent EXCEPT ![d] = "registered"]
         /\ UNCHANGED <<agentSubs, restarted, started, ordered, running>>
<1> USE DEF DInv
<1>1. /\ Registered' = Registered \cup {d}
      /\ \A e \in Registered : devices'[e] = devices[e]
      /\ d \notin Registered => devices'[d] = {}
  <2>1. CASE d \in Registered
    BY <2>1 DEF HandleAdvertisement, Registered
  <2>2. CASE d \notin Registered
    <3>1. devices' = [e \in Registered \cup {d} |-> IF e = d THEN {} ELSE devices[e]]
      BY <2>2 DEF HandleAdvertisement
    <3>2. DOMAIN devices' = Registered \cup {d}
      BY <3>1
    <3> QED  BY <2>2, <3>1, <3>2 DEF Registered
  <2> QED  BY <2>1, <2>2
<1>2. agent' = [agent EXCEPT ![d] = "registered"]
  BY DEF HandleAdvertisement
<1>3. UNCHANGED <<agentSubs, restarted, launch, started, failed, recording, ordered, running>>
  BY DEF HandleAdvertisement, startVars, workerVars
<1>4. Registry'
  BY <1>1, <1>2, <1>3 DEF Registry
<1>5. Starts'
  BY <1>3 DEF Starts
<1>6. StartedAfterAll'
  BY <1>1, <1>3 DEF StartedAfterAll, Manifest
<1>7. StartedAreRecorded'
  BY <1>1, <1>3 DEF StartedAreRecorded
<1> QED  BY <1>1, <1>2, <1>3, <1>4, <1>5, <1>6, <1>7

LEMMA PublishStartStep ==
  ASSUME DInv, NEW c \in Workers, PublishStart(c)
  PROVE  /\ DInv'
         /\ DeviceOf[c] \in Registered
<1> USE DEF DInv
<1>1. DeviceOf[c] \in Registered
  BY DEF PublishStart, StartsNext, StartedAfterAll, Manifest
<1>2. UNCHANGED <<agent, agentSubs, restarted, devices, launch, failed, running>>
  BY DEF PublishStart, agentVars
<1>3. Registered' = Registered
  BY <1>2 DEF Registered
<1>4. /\ started' = started \cup {c} /\ recording' = c
      /\ recording = None /\ c \notin failed
      /\ ordered' = ordered \/ ordered' = ordered \cup {c}
  BY DEF PublishStart, StartsNext
<1>5. Registry'
  BY <1>2, <1>3 DEF Registry
<1>6. Starts'
  BY <1>2, <1>4 DEF Starts
<1>7. StartedAfterAll'
  BY <1>1, <1>2, <1>3, <1>4 DEF StartedAfterAll, Manifest
<1>8. StartedAreRecorded'
  <2> SUFFICES ASSUME NEW e \in started' \ {recording'}
               PROVE  DeviceOf[e] \in Registered' /\ e \in devices'[DeviceOf[e]]
    BY DEF StartedAreRecorded
  <2>1. e \in started \ {recording}
    BY <1>4, NoneIsNoWorker DEF Starts
  <2> QED  BY <1>2, <1>3, <2>1 DEF StartedAreRecorded
<1> QED  BY <1>1, <1>5, <1>6, <1>7, <1>8

LEMMA RecordStartStep ==
  ASSUME DInv, RecordStart
  PROVE  /\ DInv'
         /\ Registered' = Registered
<1> USE DEF DInv
<1> DEFINE c == recording
           d == DeviceOf[c]
<1>1. c \in started /\ d \in Registered
  BY DEF RecordStart, Starts, StartedAfterAll
<1>2. devices' = [devices EXCEPT ![d] = @ \cup {c}]
  BY <1>1 DEF RecordStart
<1>3. DOMAIN devices' = DOMAIN devices
  BY <1>2
<1>4. Registered' = Registered
  BY <1>3 DEF Registered
<1>5. \A e \in Registered : devices'[e] = IF e = d THEN devices[d] \cup {c} ELSE devices[e]
  BY <1>2 DEF Registered
<1>6. /\ UNCHANGED <<agent, agentSubs, restarted, launch, started, failed, ordered, running>>
      /\ recording' = None
  BY DEF RecordStart, agentVars, workerVars
<1>7. Registry'
  BY <1>1, <1>4, <1>5, <1>6 DEF Registry, Starts
<1>8. Starts'
  BY <1>6 DEF Starts
<1>9. StartedAfterAll'
  BY <1>4, <1>6 DEF StartedAfterAll, Manifest
<1>10. StartedAreRecorded'
  <2> SUFFICES ASSUME NEW e \in started
               PROVE  DeviceOf[e] \in Registered' /\ e \in devices'[DeviceOf[e]]
    BY <1>6 DEF StartedAreRecorded
  <2>1. CASE e = c
    BY <1>1, <1>4, <1>5, <2>1
  <2>2. CASE e # c
    BY <1>4, <1>5, <2>2 DEF StartedAreRecorded
  <2> QED  BY <2>1, <2>2
<1> QED  BY <1>4, <1>7, <1>8, <1>9, <1>10

LEMMA StartFailsStep ==
  ASSUME DInv, NEW c \in Workers, StartFails(c)
  PROVE  /\ DInv'
         /\ UNCHANGED <<agent, agentSubs, restarted, devices, started, ordered, running>>
<1> USE DEF DInv
<1>1. UNCHANGED <<agent, agentSubs, restarted, devices, launch, started, recording,
                  ordered, running>>
  BY DEF StartFails, agentVars, workerVars
<1>2. Registered' = Registered
  BY <1>1 DEF Registered
<1>3. /\ failed' = failed \cup {c} /\ c \notin failed /\ c \notin started
      /\ Cardinality(failed) < MaxFailedStarts
  BY DEF StartFails, StartsNext
<1>4. IsFiniteSet(failed)
  BY TransportAssumption, FS_Subset DEF Starts
<1>5. Cardinality(failed \cup {c}) = Cardinality(failed) + 1 /\ Cardinality(failed) \in Nat
  BY <1>3, <1>4, FS_AddElement, FS_CardinalityType
<1>6. Cardinality(failed') <= MaxFailedStarts
  BY <1>3, <1>5, DeploymentAssumption
<1>7. Registry' /\ StartedAfterAll' /\ StartedAreRecorded'
  BY <1>1, <1>2 DEF Registry, StartedAfterAll, Manifest, StartedAreRecorded
<1>8. Starts'
  BY <1>1, <1>3, <1>6 DEF Starts
<1> QED  BY <1>1, <1>7, <1>8

LEMMA RunContainerStep ==
  ASSUME DInv, NEW c \in Workers, RunContainer(c)
  PROVE  /\ DInv'
         /\ UNCHANGED <<agent, agentSubs, restarted, devices, started>>
<1> USE DEF DInv
<1>1. UNCHANGED <<agent, agentSubs, restarted, devices, launch, started, failed, recording>>
  BY DEF RunContainer, agentVars, startVars
<1>2. Registered' = Registered
  BY <1>1 DEF Registered
<1>3. Registry' /\ StartedAfterAll' /\ StartedAreRecorded'
  BY <1>1, <1>2 DEF Registry, StartedAfterAll, Manifest, StartedAreRecorded
<1>4. Starts'
  BY <1>1 DEF RunContainer, Starts
<1> QED  BY <1>1, <1>3, <1>4

LEMMA RestartStep ==
  ASSUME DInv, NEW d \in Devices, AgentRestart(d)
  PROVE  DInv'
<1> USE DEF DInv
<1>1. restarted' = restarted \cup {d} /\ d \notin restarted
      /\ Cardinality(restarted) < MaxRestarts
  BY DEF AgentRestart
<1>2. /\ IsFiniteSet(restarted \cup {d})
      /\ Cardinality(restarted \cup {d}) = Cardinality(restarted) + 1
      /\ Cardinality(restarted) \in Nat
  BY <1>1, FS_AddElement, FS_CardinalityType DEF Registry
<1>3. IsFiniteSet(restarted') /\ Cardinality(restarted') <= MaxRestarts
  BY <1>1, <1>2, DeploymentAssumption
<1>4. /\ UNCHANGED <<devices, launch, started, failed, recording, running>>
      /\ ordered' \in SUBSET ordered
  BY DEF AgentRestart, startVars
<1>5. Registered' = Registered
  BY <1>4 DEF Registered
<1>6. /\ agent' \in [Devices -> {"off", "advertising", "registered"}]
      /\ agentSubs' \in SUBSET Devices
  BY DEF AgentRestart, Registry
<1>7. Registry'
  BY <1>1, <1>3, <1>4, <1>5, <1>6 DEF Registry
<1>8. Starts'
  BY <1>4 DEF Starts
<1> QED  BY <1>4, <1>5, <1>7, <1>8 DEF StartedAfterAll, StartedAreRecorded, Manifest

LEMMA OtherLaunchStep ==
  ASSUME DInv,
         \/ \E d \in Devices : AgentSubscribe(d) \/ Advertise(d)
         \/ DevicesReady \/ DevicesMissing \/ BuildServer
  PROVE  /\ DInv'
         /\ Registered' = Registered
         /\ UNCHANGED <<started, ordered, running, restarted>>
<1> USE DEF DInv
<1>1. UNCHANGED <<devices, started, failed, recording, ordered, running, restarted>>
  BY DEF AgentSubscribe, Advertise, DevicesReady, DevicesMissing, BuildServer,
         agentVars, startVars, workerVars
<1>2. Registered' = Registered
  BY <1>1 DEF Registered
<1>3. /\ agent' \in [Devices -> {"off", "advertising", "registered"}]
      /\ agentSubs' \in SUBSET Devices
      /\ launch' \in {"waiting", "starting", "serving", "exited"}
  BY DEF AgentSubscribe, Advertise, DevicesReady, DevicesMissing, BuildServer, Registry,
         agentVars
<1>4. launch' \in {"starting", "serving"} => Manifest \subseteq Registered
  BY DEF AgentSubscribe, Advertise, DevicesReady, DevicesMissing, BuildServer, StartedAfterAll
<1>5. Registry'
  BY <1>1, <1>2, <1>3 DEF Registry
<1>6. Starts'
  BY <1>1 DEF Starts
<1>7. StartedAfterAll'
  BY <1>1, <1>2, <1>4 DEF StartedAfterAll, Manifest
<1> QED  BY <1>1, <1>2, <1>5, <1>6, <1>7 DEF StartedAreRecorded

LEMMA RegistryStep == DInv /\ [DNext]_allVars => DInv'
<1> SUFFICES ASSUME DInv, [DNext]_allVars  PROVE DInv'
  OBVIOUS
<1>1. ASSUME UNCHANGED ctrlVars  PROVE DInv'
  BY <1>1, UnchangedRegistry
<1>2. ASSUME Publishes  PROVE UNCHANGED ctrlVars
  BY <1>2 DEF Publishes, Transport
<1> QED  BY <1>1, <1>2, TransportIsApart, RegisterStep, PublishStartStep, RecordStartStep,
            StartFailsStep, RunContainerStep, RestartStep, OtherLaunchStep
         DEF DNext, allVars

LEMMA ListenStep ==
  ASSUME SubscribesFirst, LInv, DInv', [DNext]_allVars
  PROVE  LInv'
<1> USE DEF LInv
<1> SUFFICES RegisteredListen' /\ LostOnlyByRestart'
  OBVIOUS
<1>1. ASSUME UNCHANGED ctrlVars  PROVE RegisteredListen' /\ LostOnlyByRestart'
  BY <1>1, UnchangedRegistry
<1>2. ASSUME NEW d \in Devices, HandleAdvertisement(d)
      PROVE  RegisteredListen' /\ LostOnlyByRestart'
  <2>1. /\ Registered' = Registered \cup {d} /\ agent' = [agent EXCEPT ![d] = "registered"]
        /\ UNCHANGED <<agentSubs, restarted, started, ordered, running>>
        /\ agent[d] = "advertising"
    BY <1>2, RegisterStep DEF HandleAdvertisement
  <2>2. agent \in [Devices -> {"off", "advertising", "registered"}]
    BY DEF DInv, Registry
  <2>3. RegisteredListen'
    BY <2>1, <2>2 DEF RegisteredListen, DInv, Registry
  <2> QED  BY <2>1, <2>3 DEF LostOnlyByRestart
<1>3. ASSUME NEW c \in Workers, PublishStart(c)
      PROVE  RegisteredListen' /\ LostOnlyByRestart'
  <2>1. DeviceOf[c] \in Registered
    BY <1>3, PublishStartStep
  <2>2. /\ UNCHANGED <<agent, agentSubs, restarted, devices, running>>
        /\ started' = started \cup {c}
    BY <1>3 DEF PublishStart, agentVars
  <2>3. RegisteredListen'
    BY <2>2 DEF RegisteredListen, Registered
  <2>4. DeviceOf[c] \in agentSubs \/ DeviceOf[c] \in restarted
    BY <2>1, DeploymentAssumption DEF RegisteredListen
  <2>5. ordered' = IF DeviceOf[c] \in agentSubs THEN ordered \cup {c} ELSE ordered
    BY <1>3 DEF PublishStart
  <2>6. LostOnlyByRestart'
    BY <2>2, <2>4, <2>5 DEF LostOnlyByRestart
  <2> QED  BY <2>3, <2>6
<1>4. ASSUME RecordStart  PROVE RegisteredListen' /\ LostOnlyByRestart'
  <2>1. Registered' = Registered
    BY <1>4, RecordStartStep
  <2>2. UNCHANGED <<agent, agentSubs, restarted, started, ordered, running>>
    BY <1>4 DEF RecordStart, agentVars, workerVars
  <2> QED  BY <2>1, <2>2 DEF RegisteredListen, LostOnlyByRestart
<1>5. ASSUME NEW c \in Workers, StartFails(c)
      PROVE  RegisteredListen' /\ LostOnlyByRestart'
  <2>1. UNCHANGED <<agent, agentSubs, restarted, devices, started, ordered, running>>
    BY <1>5, StartFailsStep
  <2> QED  BY <2>1 DEF Registered, RegisteredListen, LostOnlyByRestart
<1>6. ASSUME NEW c \in Workers, RunContainer(c)
      PROVE  RegisteredListen' /\ LostOnlyByRestart'
  <2>1. UNCHANGED <<agent, agentSubs, restarted, devices, started>>
    BY <1>6, RunContainerStep
  <2>2. ordered' \cup running' = ordered \cup running
    BY <1>6 DEF RunContainer
  <2> QED  BY <2>1, <2>2 DEF Registered, RegisteredListen, LostOnlyByRestart
<1>7. ASSUME NEW d \in Devices, AgentRestart(d)
      PROVE  RegisteredListen' /\ LostOnlyByRestart'
  <2>1. /\ restarted' = restarted \cup {d} /\ agent' = [agent EXCEPT ![d] = "off"]
        /\ agentSubs' = agentSubs \ {d} /\ UNCHANGED <<devices, started, running>>
        /\ ordered' = {c \in ordered : DeviceOf[c] # d}
    BY <1>7 DEF AgentRestart, startVars
  <2>2. Registered' = Registered /\ Registered \in SUBSET Devices
        /\ agent \in [Devices -> {"off", "advertising", "registered"}]
    BY <2>1 DEF Registered, DInv, Registry
  <2>3. RegisteredListen'
    BY <2>1, <2>2 DEF RegisteredListen
  <2>4. LostOnlyByRestart'
    BY <2>1 DEF LostOnlyByRestart
  <2> QED  BY <2>3, <2>4
<1>8. ASSUME NEW d \in Devices, AgentSubscribe(d) \/ Advertise(d)
      PROVE  RegisteredListen' /\ LostOnlyByRestart'
  <2>1. Registered' = Registered /\ UNCHANGED <<started, ordered, running, restarted>>
    BY <1>8, OtherLaunchStep
  <2>2. \/ agent' = agent /\ agentSubs' = agentSubs \cup {d}
        \/ /\ agent[d] = "off" /\ d \in agentSubs
           /\ agent' = [agent EXCEPT ![d] = "advertising"] /\ agentSubs' = agentSubs
    BY <1>8 DEF AgentSubscribe, Advertise
  <2>3. agent \in [Devices -> {"off", "advertising", "registered"}]
        /\ Registered \in SUBSET Devices
    BY DEF DInv, Registry
  <2>4. RegisteredListen'
    BY <2>1, <2>2, <2>3 DEF RegisteredListen
  <2> QED  BY <2>1, <2>4 DEF LostOnlyByRestart
<1>9. ASSUME DevicesReady \/ DevicesMissing \/ BuildServer
      PROVE  RegisteredListen' /\ LostOnlyByRestart'
  <2>1. UNCHANGED <<agent, agentSubs, restarted, devices, started, ordered, running>>
    BY <1>9 DEF DevicesReady, DevicesMissing, BuildServer, agentVars, startVars, workerVars
  <2> QED  BY <2>1 DEF Registered, RegisteredListen, LostOnlyByRestart
<1>10. ASSUME Publishes  PROVE UNCHANGED ctrlVars
  BY <1>10 DEF Publishes, Transport
<1> HIDE DEF LInv
<1> QED  BY <1>1, <1>2, <1>3, <1>4, <1>5, <1>6, <1>7, <1>8, <1>9, <1>10, TransportIsApart
         DEF DNext, allVars

\* In whatever order the publishing and the recording of a container's start, the
\* container's running, its agent's restart and a second advertisement come, the
\* registry knows every container started but the one send_container_start has in
\* hand, which it has published and not yet recorded.
THEOREM RegistryComplete == DSpec => []StartedAreRecorded
<1>1. DInit => DInv
  BY RegistryInit DEF LInv
<1>2. DInv /\ [DNext]_allVars => DInv'
  BY RegistryStep
<1>3. DInv => StartedAreRecorded
  BY DEF DInv
<1> QED  BY <1>1, <1>2, <1>3, PTL DEF DSpec

\* Every variable of the deployment keeps its type.
THEOREM DeploymentTypeCorrect == DSpec => []DTypeOK
<1>1. DInit => DInv
  BY RegistryInit DEF LInv
<1>2. DInv /\ [DNext]_allVars => DInv'
  BY RegistryStep
<1>3. DInv /\ TypeOK => DTypeOK
  BY DEF DInv, Registry, Starts, DTypeOK
<1> QED  BY <1>1, <1>2, <1>3, DeploymentUsesTransport, TypeCorrect, PTL DEF DSpec

\* If agents subscribe before they advertise, a container start that was published is
\* lost only on an agent that restarted after its registration.
THEOREM OnlyRestartsLose == SubscribesFirst => (DSpec => []LostOnlyByRestart)
<1> SUFFICES ASSUME SubscribesFirst  PROVE DSpec => []LostOnlyByRestart
  OBVIOUS
<1>1. DInit => LInv
  BY RegistryInit
<1>2. LInv /\ [DNext]_allVars => LInv'
  BY RegistryStep, ListenStep DEF LInv
<1>3. LInv => LostOnlyByRestart
  BY DEF LInv
<1> QED  BY <1>1, <1>2, <1>3, PTL DEF DSpec

=============================================================================
