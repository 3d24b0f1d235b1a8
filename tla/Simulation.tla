------------------------------ MODULE Simulation ------------------------------
(***************************************************************************)
(* An asynchronous course in standalone mode: StandaloneRunner runs server *)
(* and workers in one thread and simulates time.  Every message carries a  *)
(* timestamp; a worker stamps its update with the time its training would  *)
(* have taken.  The runner empties the shared queue first and only then    *)
(* hands the server the earliest message that it has put aside; with the   *)
(* aggregator 'time_up' the deadline of a round is such an event as well.  *)
(*                                                                         *)
(* The server's handlers are those of the course, without early stopper    *)
(* and unseen workers; the course starts when all workers have joined.     *)
(***************************************************************************)
EXTENDS Integers, Sequences, FiniteSets

CONSTANTS
  Clients,
  SampleNum,      \* cfg.federate.sample_client_num
  MinReceived,    \* cfg.asyn.min_received_num
  TotalRounds,
  EvalFreq,       \* cfg.eval.freq
  Staleness,      \* cfg.asyn.staleness_toleration
  Overselection,  \* cfg.asyn.overselection
  GlobalEval,     \* cfg.federate.make_global_eval
  TimeUp,         \* the values of cfg.asyn.aggregator = 'time_up' considered,
  AfterReceiving, \* and of cfg.asyn.broadcast_manner = 'after_receiving'
  Budget,         \* cfg.asyn.time_budget
  Cost            \* the time that a worker's training may take

ASSUME SimulationAssumption ==
  /\ IsFiniteSet(Clients)
  /\ SampleNum \in 1 .. Cardinality(Clients)
  /\ MinReceived \in 1 .. SampleNum
  /\ TotalRounds \in Nat \ {0}
  /\ EvalFreq \in Nat \ {0}
  /\ Staleness \in Nat
  /\ Overselection \in BOOLEAN
  /\ GlobalEval \in BOOLEAN
  /\ TimeUp \in SUBSET BOOLEAN
  /\ AfterReceiving \in SUBSET BOOLEAN
  /\ Budget \in Nat \ {0}
  /\ Cost \in [Clients -> SUBSET Nat]

Rounds == 0 .. TotalRounds + 1

Message == [type : {"model_para", "update", "evaluate", "metrics"},
            client : Clients, round : Rounds, at : Nat]

Updates == [client : Clients, round : Rounds, at : Nat]

VARIABLES
  timeUp,         \* the two choices of the configuration
  afterReceiving,
  started,        \* all workers have joined
  server,         \* what the server's handlers change
  queue,          \* shared_comm_queue
  cache,          \* server_msg_cache, a heap: in the order of serial numbers
  over            \* the loop of _run_simulation has ended

vars == <<timeUp, afterReceiving, started, server, queue, cache, over>>

\* The server: time is cur_timestamp, deadline deadline_for_cur_round, fresh the
\* updates in msg_buffer['train'][state], crash the exception that ended everything,
\* and agg, which the code does not keep, the last aggregation.
Server ==
  [time : Nat, deadline : Nat, state : Rounds, idle : SUBSET Clients,
   fresh : SUBSET Updates, staled : SUBSET Updates, dropout : Nat,
   evalRound : Rounds \cup {-1}, evalFrom : SUBSET Clients, finished : BOOLEAN,
   crash : {"none", "starved", "late", "missing_buffer"},
   agg : [updates : SUBSET Updates, at : Nat]]

TypeOK ==
  /\ timeUp \in TimeUp /\ afterReceiving \in AfterReceiving
  /\ started \in BOOLEAN /\ over \in BOOLEAN
  /\ server \in Server
  /\ queue \in Seq(Message) /\ cache \in Seq(Message)

Init ==
  /\ timeUp \in TimeUp
  /\ afterReceiving \in AfterReceiving
  /\ started = FALSE
  /\ server = [time |-> 0, deadline |-> 1, state |-> 0, idle |-> Clients, fresh |-> {},
               staled |-> {}, dropout |-> 0, evalRound |-> -1, evalFrom |-> {},
               finished |-> FALSE, crash |-> "none", agg |-> [updates |-> {}, at |-> 0]]
  /\ queue = <<>>
  /\ cache = <<>>
  /\ over = FALSE

-----------------------------------------------------------------------------
(* The server's operations.  Each maps a server s and the messages q in    *)
(* the queue to the set of its possible results.  (Operators named for a   *)
(* slip stand before the operation they would replace.)                    *)

Result(s, q) == [server |-> s, queue |-> q]

Capped(round) == IF round <= TotalRounds THEN round ELSE TotalRounds

\* A list of n of the workers in S.
Lists(S, n) == {p \in [1 .. n -> S] : \A i, j \in 1 .. n : p[i] = p[j] => i = j}

To(p, type, round, at) ==
  [i \in DOMAIN p |-> [type |-> type, client |-> p[i], round |-> Capped(round), at |-> at]]

\* broadcast_model_para(sample_client_num = n); the sampler raises if fewer are idle.
BroadcastModelPara(s, q, n) ==
  IF s.crash # "none" THEN {Result(s, q)}
  ELSE IF n > Cardinality(s.idle) THEN {Result([s EXCEPT !.crash = "starved"], q)}
  ELSE {Result([s EXCEPT !.idle = @ \ {p[i] : i \in DOMAIN p}],
               q \o To(p, "model_para", s.state, s.time)) : p \in Lists(s.idle, n)}

CheckAndSaveAlwaysBumps(s) ==
  [s EXCEPT !.state = @ + 1, !.finished = s.state >= TotalRounds]

\* check_and_save, without early stopper: after the last round the course is over.
CheckAndSave(s) ==
  IF s.state = TotalRounds THEN [s EXCEPT !.state = @ + 1, !.finished = TRUE] ELSE s

\* eval: by the server at once, or a request to every worker.
Eval(s, q) ==
  IF GlobalEval
    THEN {Result(CheckAndSave(s), q)}
    ELSE {Result(s, q \o To(p, "evaluate", s.state - 1, s.time)) :
            p \in Lists(Clients, Cardinality(Clients))}

\* _start_new_training_round.
NextRound(s, q, received) ==
  LET next == [s EXCEPT !.deadline = IF timeUp THEN s.time + Budget ELSE @]
      n    == IF Overselection THEN SampleNum ELSE received + s.dropout
  IN  IF afterReceiving THEN {Result(next, q)}
      ELSE {Result([r.server EXCEPT !.dropout = 0], r.queue) :
              r \in BroadcastModelPara(next, q, n)}

\* check_and_move_on once there is enough: aggregate, evaluate, start the next round;
\* after the last round the staled updates stay in their buffer.
MoveOn(s, q) ==
  LET agg  == [updates |-> s.fresh \cup s.staled, at |-> s.time]
      s1   == [s EXCEPT !.state = @ + 1, !.fresh = {}, !.agg = agg]
      more == s1.state < TotalRounds
      s2   == IF more THEN [s1 EXCEPT !.staled = {}] ELSE s1
  IN  IF s.fresh = {} /\ s.state >= TotalRounds
        THEN {Result([s EXCEPT !.crash = "missing_buffer"], q)}
      ELSE IF ~more THEN Eval(s2, q)
      ELSE UNION {NextRound(r.server, r.queue, Cardinality(agg.updates)) :
                    r \in IF s2.state % EvalFreq = 0 THEN Eval(s2, q) ELSE {Result(s2, q)}}

\* check_buffer: whether to move on.
Enough(s) ==
  IF timeUp THEN s.time >= s.deadline
            ELSE Cardinality(s.fresh) + Cardinality(s.staled) >= MinReceived

ProlongKeepsCount(s, q) ==
  BroadcastModelPara([s EXCEPT !.deadline = @ + Budget], q,
                     IF afterReceiving THEN 0 ELSE s.dropout)

\* The time is up and nothing has been received: wait for another budget, and replace
\* the workers whose updates were dropped.
Prolong(s, q) ==
  LET longer == [s EXCEPT !.deadline = @ + Budget]
  IN  IF ~afterReceiving /\ s.dropout # 0
        THEN {Result([r.server EXCEPT !.dropout = 0], r.queue) :
                r \in BroadcastModelPara(longer, q, s.dropout)}
        ELSE {Result(longer, q)}

CheckAndMoveOn(s, q) ==
  LET checked == IF timeUp /\ s.time >= s.deadline /\ s.fresh = {} /\ s.staled = {}
                   THEN Prolong(s, q) ELSE {Result(s, q)}
  IN  UNION {IF r.server.crash = "none" /\ Enough(r.server)
               THEN MoveOn(r.server, r.queue) ELSE {r} : r \in checked}

\* File an update: with those of its round, with the staled ones, or drop it.
Filed(s, m) ==
  LET u  == [client |-> m.client, round |-> m.round, at |-> m.at]
      s1 == [s EXCEPT !.idle = @ \cup {m.client}, !.time = m.at]
  IN  IF m.round = s.state THEN [s1 EXCEPT !.fresh = @ \cup {u}]
      ELSE IF m.round >= s.state - Staleness THEN [s1 EXCEPT !.staled = @ \cup {u}]
      ELSE [s1 EXCEPT !.dropout = @ + 1]

\* callback_funcs_model_para.
HandleUpdate(s, q, m) ==
  IF s.finished THEN {Result(s, q)}
  ELSE IF m.at < s.time THEN {Result([s EXCEPT !.crash = "late"], q)}
  ELSE UNION {IF afterReceiving THEN BroadcastModelPara(r.server, r.queue, 1) ELSE {r} :
                r \in CheckAndMoveOn(Filed(s, m), q)}

\* callback_funcs_for_metrics: the workers evaluate the largest round; in standalone
\* mode all of them have to answer.
HandleMetrics(s, q, m) ==
  LET s1 == IF m.round > s.evalRound
              THEN [s EXCEPT !.evalRound = m.round, !.evalFrom = {m.client}]
            ELSE IF m.round = s.evalRound
              THEN [s EXCEPT !.evalFrom = @ \cup {m.client}]
            ELSE s
      s2 == CheckAndSave([s1 EXCEPT !.evalFrom = {}])
  IN  {Result(IF s1.evalFrom # Clients THEN s1
              ELSE [s2 EXCEPT !.finished = @ \/ s2.state >= TotalRounds], q)}

ExpireUnmoved(s, q) == CheckAndMoveOn(s, q)

\* trigger_for_time_up.
Expire(s, q) == CheckAndMoveOn([s EXCEPT !.time = s.deadline], q)

-----------------------------------------------------------------------------
(* The runner.                                                             *)

Running == started /\ ~over /\ server.crash = "none"

\* The course starts.
Start ==
  /\ ~started
  /\ started' = TRUE
  /\ \E r \in BroadcastModelPara(
                [server EXCEPT !.deadline = IF timeUp THEN Budget ELSE @], queue, SampleNum) :
       server' = r.server /\ queue' = r.queue
  /\ UNCHANGED <<timeUp, afterReceiving, cache, over>>

\* What a worker may answer: training takes time, evaluation none.
Replies(m) ==
  IF m.type = "model_para"
    THEN {[m EXCEPT !.type = "update", !.at = @ + d] : d \in Cost[m.client]}
    ELSE {[m EXCEPT !.type = "metrics"]}

\* The runner takes a message for a worker from the queue: it is handled at once.
RunClient ==
  /\ Running
  /\ queue # <<>> /\ Head(queue).type \in {"model_para", "evaluate"}
  /\ \E reply \in Replies(Head(queue)) : queue' = Append(Tail(queue), reply)
  /\ UNCHANGED <<timeUp, afterReceiving, started, server, cache, over>>

\* A message for the server is put aside.
PutAside ==
  /\ Running
  /\ queue # <<>> /\ Head(queue).type \in {"update", "metrics"}
  /\ queue' = Tail(queue)
  /\ cache' = Append(cache, Head(queue))
  /\ UNCHANGED <<timeUp, afterReceiving, started, server, over>>

FirstPutAside(c) == 1

\* Message.__lt__: the position of the earliest message.
Earliest(c) ==
  CHOOSE i \in DOMAIN c : \A j \in DOMAIN c \ {i} :
    \/ c[i].at < c[j].at
    \/ c[i].at = c[j].at /\ c[i].round < c[j].round
    \/ c[i].at = c[j].at /\ c[i].round = c[j].round /\ i < j

Without(c, i) == SubSeq(c, 1, i - 1) \o SubSeq(c, i + 1, Len(c))

ExpiresAfter(at) == timeUp /\ ~server.finished /\ at > server.deadline

\* Whether the deadline comes before a message of that time.
Expires(at) == timeUp /\ ~server.finished /\ at >= server.deadline

\* The queue is empty: the deadline passes before the earliest message, or the message
\* is handled.
RunServer ==
  /\ Running
  /\ queue = <<>> /\ cache # <<>>
  /\ LET i == Earliest(cache)
         m == cache[i]
     IN  IF Expires(m.at)
           THEN /\ \E r \in Expire(server, queue) : server' = r.server /\ queue' = r.queue
                /\ UNCHANGED cache
           ELSE /\ \E r \in IF m.type = "update" THEN HandleUpdate(server, queue, m)
                                                 ELSE HandleMetrics(server, queue, m) :
                     server' = r.server /\ queue' = r.queue
                /\ cache' = Without(cache, i)
  /\ UNCHANGED <<timeUp, afterReceiving, started, over>>

\* Nothing is under way: the deadline passes, and if that leads to nothing the
\* simulation ends.
RunIdle ==
  /\ Running
  /\ queue = <<>> /\ cache = <<>>
  /\ IF timeUp /\ ~server.finished
       THEN \E r \in Expire(server, queue) : server' = r.server /\ queue' = r.queue
       ELSE UNCHANGED <<server, queue>>
  /\ over' = (queue' = <<>>)
  /\ UNCHANGED <<timeUp, afterReceiving, started, cache>>

Next == Start \/ RunClient \/ PutAside \/ RunServer \/ RunIdle

Spec == Init /\ [][Next]_vars

\* One thread runs the loop.
FairSpec == Spec /\ WF_vars(Next)

-----------------------------------------------------------------------------
(* Properties.                                                             *)

UnderWay == {queue[i] : i \in DOMAIN queue} \cup {cache[i] : i \in DOMAIN cache}

\* Whatever training takes, no message under way is older than the server's clock, so
\* that the server never meets an update from before its time (its assertion).
NothingInThePast ==
  ~server.finished =>
    /\ server.crash # "late"
    /\ \A m \in UnderWay : m.at >= server.time

\* Updates are aggregated in the order of simulated time: none that waits or is under
\* way is older than an update aggregated before it; and with deadlines an aggregation
\* holds exactly what its workers finished before the deadline.
AggregatedInOrder ==
  ~server.finished =>
    \A u \in server.agg.updates :
      /\ IF timeUp THEN u.at < server.agg.at ELSE u.at <= server.agg.at
      /\ \A m \in UnderWay : m.type = "update" => m.at >= u.at

\* No worker's turn gets lost: unless more are asked than aggregated, as many updates
\* are under way, buffered or to be replaced as workers were sampled at first.
TurnsConserved ==
  (started /\ ~Overselection /\ ~server.finished /\ server.state < TotalRounds) =>
    LET busy == Cardinality(Clients \ server.idle)
    IN  IF afterReceiving THEN busy = SampleNum
        ELSE busy + Cardinality(server.fresh) + Cardinality(server.staled)
               + server.dropout = SampleNum

\* The simulation ends, and ends only when the course is over.
EndsFinished == <>(over /\ server.finished)
=============================================================================
