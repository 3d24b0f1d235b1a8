----------------------------- MODULE ZmqTransport -----------------------------
(***************************************************************************)
(* The ZeroMQ comm managers: a worker sends over a REQ socket and waits    *)
(* for the acknowledgement in the same thread; the server answers it from  *)
(* a REP socket in a thread that fills the queue its main thread reads.    *)
(* The server publishes, and a thread of the worker takes the frames from  *)
(* a SUB socket and fills the queue of the worker's main thread.           *)
(*                                                                         *)
(* With Relay the REP socket is the control plane's, whose loop queues an  *)
(* envelope before it acknowledges it and leaves the decoding to a third   *)
(* thread; without, the manager's own loop acknowledges first.  The device *)
(* agent in between forwards frames and belongs to the wires.              *)
(*                                                                         *)
(* A message is its number and whether the receiving end can decode it.    *)
(* The queues keep the order of each worker's messages; which worker's     *)
(* message is read first is left open.                                     *)
(***************************************************************************)
EXTENDS Integers, Sequences, FiniteSets

CONSTANTS
  Workers,   \* the containers, by name
  Relay,     \* FL traffic goes through the control plane (not --direct)
  MaxUp,     \* bound: messages the workers send
  MaxDown,   \* bound: messages the server publishes
  MaxFaults  \* bound: undecodable messages and timed-out acknowledgements

ASSUME TransportAssumption ==
  /\ IsFiniteSet(Workers)
  /\ Relay \in BOOLEAN
  /\ MaxUp \in Nat /\ MaxDown \in Nat /\ MaxFaults \in Nat

None == "none"

ASSUME NoneIsNoWorker == None \notin Workers

VARIABLES
  main,        \* per worker: "new", "ready", "waiting" for a reply, or "failed"
  sent,        \* how many messages the workers have sent: the number of the last
  request,     \* per worker, requests on their way to the REP socket
  reply,       \* per worker, the reply on its way back, or None
  owed,        \* the worker whose request the REP socket has not answered, or None
  inHand,      \* per worker, the envelope of its that the REP loop holds
  relayQueue,  \* per worker, ControlPlaneService._fl_relay_queue
  recvQueue,   \* per worker, ZMQServerCommManager._recv_queue
  published,   \* how many messages the server has published
  subscribed,  \* the workers whose subscription the PUB socket knows
  frames,      \* per worker, what its SUB socket holds
  decoded,     \* per worker, the message its receive thread holds
  inbox,       \* per worker, ZMQClientCommManager._recv_queue
  lastSize,    \* per worker, _last_recv_payload_size: the message it is the size of
  mixed,       \* history: the workers that counted a message with another's size
  faults       \* how many faults have happened

upVars   == <<main, sent, request, reply>>
repVars  == <<owed, inHand, relayQueue, recvQueue>>
downVars == <<published, subscribed, frames, decoded, inbox, lastSize, mixed>>
vars     == <<upVars, repVars, downVars, faults>>

Message == [n : 1 .. MaxUp + MaxDown, ok : BOOLEAN]

\* Before anything is received: _last_recv_payload_size = 0.
NoMessage == [n |-> 0, ok |-> TRUE]

Sizes == Message \cup {NoMessage}

TypeOK ==
  /\ main \in [Workers -> {"new", "ready", "waiting", "failed"}]
  /\ sent \in 0 .. MaxUp
  /\ \A q \in {request, inHand, relayQueue, recvQueue, frames, decoded, inbox} :
       q \in [Workers -> Seq(Message)]
  /\ reply \in [Workers -> {"ACK", None}]
  /\ owed \in Workers \cup {None}
  /\ published \in 0 .. MaxDown
  /\ subscribed \in SUBSET Workers
  /\ lastSize \in [Workers -> Sizes]
  /\ mixed \in SUBSET Workers
  /\ faults \in 0 .. MaxFaults

Empty == [c \in Workers |-> <<>>]

Init ==
  /\ main = [c \in Workers |-> "new"]
  /\ sent = 0
  /\ request = Empty /\ inHand = Empty /\ relayQueue = Empty /\ recvQueue = Empty
  /\ frames = Empty /\ decoded = Empty /\ inbox = Empty
  /\ reply = [c \in Workers |-> None]
  /\ owed = None
  /\ published = 0
  /\ subscribed = {}
  /\ lastSize = [c \in Workers |-> NoMessage]
  /\ mixed = {}
  /\ faults = 0

Put(q, c, m) == [q EXCEPT ![c] = Append(@, m)]
Pop(q, c)    == [q EXCEPT ![c] = Tail(@)]

\* The faults, when a message is sent that its receiver can (or cannot) decode.
Encoded(ok) ==
  /\ ok \/ faults < MaxFaults
  /\ faults' = IF ok THEN faults ELSE faults + 1

-----------------------------------------------------------------------------
(* The main thread of a worker.                                            *)

\* send: the sockets are opened by the first call; the thread waits for a reply.
Send(c) ==
  /\ main[c] \in {"new", "ready"}
  /\ sent < MaxUp
  /\ main' = [main EXCEPT ![c] = "waiting"]
  /\ sent' = sent + 1
  /\ \E ok \in BOOLEAN :
       /\ Encoded(ok)
       /\ request' = Put(request, c, [n |-> sent', ok |-> ok])
  /\ UNCHANGED <<reply, repVars, downVars>>

\* The reply arrives; what it says is not looked at.
Acknowledged(c) ==
  /\ main[c] = "waiting"
  /\ reply[c] # None
  /\ main' = [main EXCEPT ![c] = "ready"]
  /\ reply' = [reply EXCEPT ![c] = None]
  /\ UNCHANGED <<sent, request, repVars, downVars, faults>>

\* Mutant: the exception of a timed-out send is caught and the socket kept.
TimesOutAndGoesOn(c) ==
  /\ main[c] = "waiting"
  /\ faults < MaxFaults
  /\ faults' = faults + 1
  /\ main' = [main EXCEPT ![c] = "ready"]
  /\ UNCHANGED <<sent, request, reply, repVars, downVars>>

\* RCVTIMEO expires first: the exception ends the worker.  Its request is on its
\* way and its reply, if any, finds nobody.
TimesOut(c) ==
  /\ main[c] = "waiting"
  /\ faults < MaxFaults
  /\ faults' = faults + 1
  /\ main' = [main EXCEPT ![c] = "failed"]
  /\ reply' = [reply EXCEPT ![c] = None]
  /\ subscribed' = subscribed \ {c}
  /\ frames' = [frames EXCEPT ![c] = <<>>]
  /\ decoded' = [decoded EXCEPT ![c] = <<>>]
  /\ inbox' = [inbox EXCEPT ![c] = <<>>]
  /\ UNCHANGED <<sent, request, repVars, published, lastSize, mixed>>

\* receive: the oldest message, counted with the size recorded last.
Receive(c) ==
  /\ main[c] = "ready"
  /\ inbox[c] # <<>>
  /\ inbox' = Pop(inbox, c)
  /\ mixed' = IF lastSize[c] = Head(inbox[c]) THEN mixed ELSE mixed \cup {c}
  /\ UNCHANGED <<upVars, repVars, published, subscribed, frames, decoded, lastSize, faults>>

-----------------------------------------------------------------------------
(* The receive thread of a worker.                                         *)

\* The PUB socket learns of the subscription some time after the connect.
Subscribe(c) ==
  /\ main[c] \notin {"new", "failed"}
  /\ c \notin subscribed
  /\ subscribed' = subscribed \cup {c}
  /\ UNCHANGED <<upVars, repVars, published, frames, decoded, inbox, lastSize, mixed, faults>>

\* A frame is decoded, or logged and dropped; its size is noted before it is queued.
TakeFrame(c) ==
  /\ frames[c] # <<>>
  /\ decoded[c] = <<>>
  /\ LET m == Head(frames[c])
     IN  /\ frames' = Pop(frames, c)
         /\ IF m.ok
              THEN decoded' = Put(decoded, c, m) /\ lastSize' = [lastSize EXCEPT ![c] = m]
              ELSE UNCHANGED <<decoded, lastSize>>
  /\ UNCHANGED <<upVars, repVars, published, subscribed, inbox, mixed, faults>>

QueueMessage(c) ==
  /\ decoded[c] # <<>>
  /\ inbox' = Put(inbox, c, Head(decoded[c]))
  /\ decoded' = Pop(decoded, c)
  /\ UNCHANGED <<upVars, repVars, published, subscribed, frames, lastSize, mixed, faults>>

-----------------------------------------------------------------------------
(* The server's threads.                                                   *)

\* The loop takes a request: only a REP socket that owes no reply can.
RepReceive(c) ==
  /\ owed = None /\ inHand = Empty
  /\ request[c] # <<>>
  /\ owed' = c
  /\ inHand' = Put(inHand, c, Head(request[c]))
  /\ request' = Pop(request, c)
  /\ UNCHANGED <<main, sent, reply, relayQueue, recvQueue, downVars, faults>>

\* Mutants: the reply waits for the decoding; it is sent only for what decodes; and
\* it is sent only to a worker that still waits.
ReplySaysDecoded(c) ==
  /\ owed = c
  /\ Relay => inHand[c] = <<>>
  /\ owed' = None
  /\ LET kept == relayQueue[c] \o inHand[c]
         bad  == kept # <<>> /\ ~kept[Len(kept)].ok
     IN  reply' = IF main[c] = "waiting"
                    THEN [reply EXCEPT ![c] = IF bad THEN "ERROR" ELSE "ACK"]
                    ELSE reply
  /\ UNCHANGED <<main, sent, request, inHand, relayQueue, recvQueue, downVars, faults>>

ReplyIfDecodable(c) ==
  /\ owed = c
  /\ \A m \in {inHand[c][i] : i \in DOMAIN inHand[c]} : m.ok
  /\ owed' = None
  /\ reply' = IF main[c] = "waiting" THEN [reply EXCEPT ![c] = "ACK"] ELSE reply
  /\ UNCHANGED <<main, sent, request, inHand, relayQueue, recvQueue, downVars, faults>>

ReplyToTheLiving(c) ==
  /\ owed = c
  /\ Relay => inHand[c] = <<>>
  /\ main[c] = "waiting"
  /\ owed' = None
  /\ reply' = [reply EXCEPT ![c] = "ACK"]
  /\ UNCHANGED <<main, sent, request, inHand, relayQueue, recvQueue, downVars, faults>>

\* The reply: of the manager's own loop at once, of the control plane's loop after
\* the envelope is queued.  A worker that is gone does not get it.
RepReply(c) ==
  /\ owed = c
  /\ Relay => inHand[c] = <<>>
  /\ owed' = None
  /\ reply' = IF main[c] = "waiting" THEN [reply EXCEPT ![c] = "ACK"] ELSE reply
  /\ UNCHANGED <<main, sent, request, inHand, relayQueue, recvQueue, downVars, faults>>

\* Decode an envelope and queue the message for the main thread, or log and go on.
Decode(c, from) ==
  recvQueue' = IF Head(from[c]).ok THEN Put(recvQueue, c, Head(from[c])) ELSE recvQueue

\* Mutant: an envelope that was decoded stays in hand.
RepDecodeAgain(c) ==
  /\ ~Relay /\ owed # c
  /\ inHand[c] # <<>>
  /\ Decode(c, inHand)
  /\ UNCHANGED <<upVars, owed, inHand, relayQueue, downVars, faults>>

\* Direct: the loop decodes what it has acknowledged.
RepDecode(c) ==
  /\ ~Relay /\ owed # c
  /\ inHand[c] # <<>>
  /\ Decode(c, inHand)
  /\ inHand' = Pop(inHand, c)
  /\ UNCHANGED <<upVars, owed, relayQueue, downVars, faults>>

\* Relay: the control plane's loop queues the envelope for the FL plane.
RelayPut(c) ==
  /\ Relay
  /\ inHand[c] # <<>>
  /\ relayQueue' = Put(relayQueue, c, Head(inHand[c]))
  /\ inHand' = Pop(inHand, c)
  /\ UNCHANGED <<upVars, owed, recvQueue, downVars, faults>>

\* Mutant: an envelope is not taken off the relay queue.
RelayDecodeAgain(c) ==
  /\ relayQueue[c] # <<>>
  /\ Decode(c, relayQueue)
  /\ UNCHANGED <<upVars, owed, inHand, relayQueue, downVars, faults>>

\* Relay: the manager's thread reads that queue.
RelayDecode(c) ==
  /\ relayQueue[c] # <<>>
  /\ Decode(c, relayQueue)
  /\ relayQueue' = Pop(relayQueue, c)
  /\ UNCHANGED <<upVars, owed, inHand, downVars, faults>>

\* receive of the server's main thread.
ServerReceive(c) ==
  /\ recvQueue[c] # <<>>
  /\ recvQueue' = Pop(recvQueue, c)
  /\ UNCHANGED <<upVars, owed, inHand, relayQueue, downVars, faults>>

\* send of the server's main thread: a frame per receiver that has subscribed.
Publish(S) ==
  /\ published < MaxDown
  /\ published' = published + 1
  /\ \E ok \in BOOLEAN :
       /\ Encoded(ok)
       /\ frames' = [c \in Workers |->
                       IF c \in S \cap subscribed
                         THEN Append(frames[c], [n |-> published', ok |-> ok])
                         ELSE frames[c]]
  /\ UNCHANGED <<upVars, repVars, subscribed, decoded, inbox, lastSize, mixed>>

-----------------------------------------------------------------------------
WorkerMain(c)   == Acknowledged(c) \/ Receive(c)
WorkerThread(c) == Subscribe(c) \/ TakeFrame(c) \/ QueueMessage(c)
RepLoop(c)      == RepReceive(c) \/ RepReply(c) \/ RepDecode(c) \/ RelayPut(c)

\* What the manager does on its own, the worker and the server included.
DirectNext ==
  \/ \E c \in Workers :
       \/ Send(c) \/ WorkerMain(c) \/ TimesOut(c) \/ WorkerThread(c)
       \/ RepReceive(c) \/ RepReply(c) \/ RepDecode(c) \/ ServerReceive(c)
  \/ \E S \in SUBSET Workers : S # {} /\ Publish(S)

\* With what the control plane's loop and the thread behind it add.
Next == DirectNext \/ \E c \in Workers : RelayPut(c) \/ RelayDecode(c)

Spec       == Init /\ [][Next]_vars
DirectSpec == Init /\ [][DirectNext]_vars

\* Every thread runs, and the REP socket serves its peers in turn.  Nobody must send.
Fairness ==
  \A c \in Workers :
    /\ WF_vars(WorkerMain(c)) /\ WF_vars(WorkerThread(c))
    /\ SF_vars(RepReceive(c)) /\ WF_vars(RepLoop(c))
    /\ WF_vars(RelayDecode(c)) /\ WF_vars(ServerReceive(c))

FairSpec       == Spec /\ Fairness
DirectFairSpec == DirectSpec /\ Fairness

-----------------------------------------------------------------------------
\* The request and the reply of worker c that are under way.
UnderWay(c) ==
  Len(request[c]) + (IF owed = c THEN 1 ELSE 0) + (IF reply[c] # None THEN 1 ELSE 0)

\* REQ and REP stay in lockstep through every timeout: a worker waits exactly while
\* its request or the reply to it is under way, and one that died leaves at most a
\* request behind, which the loop answers without anybody left to read it.
LockStep ==
  \A c \in Workers :
    /\ main[c] = "waiting" => UnderWay(c) = 1
    /\ main[c] \in {"new", "ready"} => UnderWay(c) = 0
    /\ main[c] = "failed" => UnderWay(c) <= 1 /\ reply[c] = None

\* What worker c has sent and the server has not read, the oldest first.
Upstream(c) == recvQueue[c] \o relayQueue[c] \o inHand[c] \o request[c]

\* What the server has published to worker c and it has not read.
Downstream(c) == inbox[c] \o decoded[c] \o frames[c]

\* The sockets, threads and queues together are one ordered channel per worker and
\* direction that duplicates nothing and loses only what cannot be decoded.
Abstract == INSTANCE Channels WITH
  Messages  <- Message,
  toServer  <- [c \in Workers |-> Upstream(c)],
  toClient  <- [c \in Workers |-> Downstream(c)],
  listening <- subscribed

ImplementsChannels == Abstract!Spec

\* Every send returns, unless its worker dies of a timeout.
EverySendReturns == \A c \in Workers : (main[c] = "waiting") ~> (main[c] # "waiting")

\* Whatever a worker has sent, also one that died since, the server reads, unless it
\* cannot be decoded: nothing stays behind in a socket or a queue.
NothingLeftBehind == \A c \in Workers : []<>(Upstream(c) = <<>>)
=============================================================================
