------------------------------ MODULE FedServer ------------------------------
(***************************************************************************)
(* The server of an FL course: Server.run, the handlers it dispatches to,  *)
(* the sampler, the two message buffers and the timeout of the             *)
(* asynchronous mode.  Every handler runs to its end before the next       *)
(* message is read, so each is one action.                                 *)
(*                                                                         *)
(* Only what is ever read again is kept of the buffers: of                 *)
(* msg_buffer['train'] the entry of the current round (fresh, and whether  *)
(* the key exists at all), of msg_buffer['eval'] the entry of its largest  *)
(* round.                                                                  *)
(***************************************************************************)
EXTENDS FedNetwork

CONSTANTS
  Unseen,         \* unseen_clients_id: never sampled for training
  SampleNum,      \* cfg.federate.sample_client_num
  MinReceived,    \* cfg.asyn.min_received_num, or sample_client_num
  EvalFreq,       \* cfg.eval.freq
  Asyn,           \* cfg.asyn.use (aggregator 'goal_achieved')
  Staleness,      \* cfg.asyn.staleness_toleration
  AfterReceiving, \* cfg.asyn.broadcast_manner = 'after_receiving'
  Overselection,  \* cfg.asyn.overselection
  EvalAll,        \* cfg.federate.mode = 'standalone': all neighbours evaluate
  PreAdded,       \* the deployment adds every neighbour before anyone joins
  GlobalEval,     \* cfg.federate.make_global_eval
  EarlyStop,      \* cfg.early_stop.patience > 0
  JoinInfo,       \* cfg.federate.join_in_info is not empty
  Timed,          \* cfg.asyn.time_budget > 0
  MaxFailure      \* Timeout.max_failure

ASSUME ServerAssumption ==
  /\ Unseen \subseteq Clients
  /\ SampleNum \in 1 .. Cardinality(Clients \ Unseen)
  /\ MinReceived \in 1 .. SampleNum
  /\ EvalFreq \in Nat \ {0}
  /\ Staleness \in Nat
  /\ MaxFailure \in Nat
  /\ {Asyn, AfterReceiving, Overselection, EvalAll, PreAdded, GlobalEval,
      EarlyStop, JoinInfo, Timed} \subseteq BOOLEAN
  /\ ~Asyn => /\ MinReceived = SampleNum
              /\ Staleness = 0
              /\ ~AfterReceiving
              /\ ~Overselection
              /\ ~Timed

VARIABLES
  pc,         \* "listening", "done", or the exception that ended the process
  state,      \* Server.state: the training round
  joinNum,    \* join_in_client_num
  joinInfo,   \* the keys of join_in_info
  neighbors,  \* the keys of comm_manager.neighbors
  idle,       \* the workers whose sampler.client_state is 1
  fresh,      \* the keys of msg_buffer['train'][state]
  hasRound,   \* whether state is a key of msg_buffer['train']
  staled,     \* staled_msg_buffer: pairs of a round and a worker
  dropout,    \* dropout_num
  evalRound,  \* the largest key of msg_buffer['eval'], -1 when it has none
  evalFrom,   \* the keys of msg_buffer['eval'][evalRound]
  isFinish,   \* is_finish
  numFailure  \* num_failure of run

\* What the code does not keep and the properties speak about.
VARIABLES
  agg,        \* the last aggregation: its round, the updates in it, how many so far
  merged,     \* the last merged evaluation: its round, the workers in it, the verdict
  restarts    \* restarts of the current round

roundVars == <<state, fresh, hasRound, staled, dropout, agg>>
joinVars  == <<joinNum, joinInfo, neighbors>>
evalVars  == <<evalRound, evalFrom, merged>>
sVars == <<pc, roundVars, joinVars, evalVars, idle, isFinish, numFailure, restarts>>

STypeOK ==
  /\ pc \in {"listening", "done", "sampler_error", "missing_buffer"}
  /\ state \in Rounds
  /\ joinNum \in Nat
  /\ joinInfo \subseteq Clients
  /\ neighbors \subseteq Clients
  /\ idle \subseteq Clients
  /\ fresh \subseteq Clients
  /\ hasRound \in BOOLEAN
  /\ staled \subseteq (Rounds \X Clients)
  /\ dropout \in Nat
  /\ evalRound \in {-1} \cup Rounds
  /\ evalFrom \subseteq Clients
  /\ isFinish \in BOOLEAN
  /\ numFailure \in 0 .. MaxFailure + 1
  /\ agg \in [round : {-1} \cup Rounds, from : SUBSET (Rounds \X Clients), count : Nat]
  /\ merged \in [round : {-1} \cup Rounds, from : SUBSET Clients, stop : BOOLEAN]
  /\ restarts \in Nat

SInit ==
  /\ pc = "listening"
  /\ state = 0
  /\ joinNum = 0
  /\ joinInfo = {}
  /\ neighbors = IF PreAdded THEN Clients ELSE {}
  /\ idle = Clients
  /\ fresh = {}
  /\ hasRound = FALSE
  /\ staled = {}
  /\ dropout = 0
  /\ evalRound = -1
  /\ evalFrom = {}
  /\ isFinish = FALSE
  /\ numFailure = 0
  /\ agg = [round |-> -1, from |-> {}, count |-> 0]
  /\ merged = [round |-> -1, from |-> {}, stop |-> FALSE]
  /\ restarts = 0

\* The two loops of run: until all have joined, then until the last round is over.
AllJoined == joinNum >= Cardinality(Clients)

Listening == pc = "listening" /\ (~AllJoined \/ state <= TotalRounds)

Capped(round) == IF round <= TotalRounds THEN round ELSE TotalRounds

-----------------------------------------------------------------------------
(* Sampling and broadcasting.                                              *)

\* UniformSampler.sample: size distinct idle workers.
Samples(candidates, size) == {S \in SUBSET candidates : Cardinality(S) = size}

\* (Operators named for a slip, like the next one, are what a plausible bug would
\* make of the definition that follows them; no action uses them.)
BroadcastUnmarked(inbox, free, size, round) ==
  IF size > Cardinality(free \ Unseen)
    THEN /\ pc' = "sampler_error"
         /\ idle' = free
         /\ toClient' = inbox
    ELSE \E S \in Samples(free \ Unseen, size) :
           /\ idle' = free
           /\ toClient' = Deliver(inbox, S \cap neighbors',
                                  Msg("model_para", Capped(round)))
           /\ UNCHANGED pc

\* broadcast_model_para(sample_client_num = size): the unseen are masked while
\* sampling and are idle again afterwards; np.random.choice raises when there
\* are fewer candidates than asked for.
BroadcastModelPara(inbox, free, size, round) ==
  IF size > Cardinality(free \ Unseen)
    THEN /\ pc' = "sampler_error"
         /\ idle' = free
         /\ toClient' = inbox
    ELSE \E S \in Samples(free \ Unseen, size) :
           /\ idle' = (free \ S) \cup Unseen
           /\ toClient' = Deliver(inbox, S \cap neighbors',
                                  Msg("model_para", Capped(round)))
           /\ UNCHANGED pc

NoBroadcast(inbox, free) ==
  /\ idle' = free
  /\ toClient' = inbox
  /\ UNCHANGED pc

\* eval, when the workers evaluate: the model is that of the round just ended.
EvaluateRequest(inbox, round) ==
  Deliver(inbox, neighbors, Msg("evaluate", Capped(round - 1)))

CheckAndSaveAlwaysBumps(s, inbox, stop) ==
  LET s1   == IF stop THEN TotalRounds + 1 ELSE s
      last == stop \/ s1 = TotalRounds
  IN  [state    |-> IF last THEN s1 + 1 ELSE s1,
       inbox    |-> IF last THEN Deliver(inbox, neighbors, Msg("finish", s1)) ELSE inbox,
       finished |-> last]

\* What check_and_save decides at round s, with the early stopper's verdict: the
\* round it leaves, the messages it sends and whether it terminated the course.
CheckAndSave(s, inbox, stop) ==
  LET s1     == IF stop THEN TotalRounds + 1 ELSE s
      warned == IF stop THEN Deliver(inbox, neighbors, Msg("converged", s)) ELSE inbox
      last   == stop \/ s1 = TotalRounds
  IN  [state    |-> IF s1 = TotalRounds THEN TotalRounds + 1 ELSE s1,
       inbox    |-> IF last THEN Deliver(warned, neighbors, Msg("finish", s1))
                            ELSE warned,
       finished |-> last]

Verdicts == IF EarlyStop THEN BOOLEAN ELSE {FALSE}

\* eval at round s: the server evaluates at once or asks the workers to.
Eval(s, inbox, stop) ==
  IF GlobalEval
    THEN CheckAndSave(s, inbox, stop)
    ELSE [state |-> s, inbox |-> EvaluateRequest(inbox, s), finished |-> FALSE]

-----------------------------------------------------------------------------
(* check_and_move_on on the training buffer.                               *)

TrainQuorumOneShort(f, st) == Cardinality(f) + Cardinality(st) >= MinReceived - 1

TrainQuorum(f, st) == Cardinality(f) + Cardinality(st) >= MinReceived

NextSampleFixed(f, st, d) == SampleNum

\* The number of workers _start_new_training_round samples after aggregating.
NextSample(f, st, d) ==
  IF Asyn /\ ~Overselection
    THEN Cardinality(f) + Cardinality(st) + d
    ELSE SampleNum

\* The server starts training round mid.state: the buffers are cleaned and the
\* new model is sent.  extra is what the caller broadcasts after this returns.
NextRound(mid, free, f, st, d, extra) ==
  /\ state' = mid.state
  /\ fresh' = {}
  /\ hasRound' = TRUE
  /\ staled' = {}
  /\ dropout' = IF Asyn /\ ~AfterReceiving THEN 0 ELSE d
  /\ isFinish' = (isFinish \/ mid.finished)
  /\ IF ~AfterReceiving
       THEN BroadcastModelPara(mid.inbox, free, NextSample(f, st, d), mid.state)
       ELSE IF extra > 0
         THEN BroadcastModelPara(mid.inbox, free, extra, mid.state)
         ELSE NoBroadcast(mid.inbox, free)

\* Training is finished: the final evaluation.  No buffer is cleaned, and the
\* training buffer has no entry for the round the server is now in.
FinalEval(mid, free, st, d, extra) ==
  \E stop \in IF GlobalEval THEN Verdicts ELSE {FALSE} :
    LET fin == Eval(mid.state, mid.inbox, stop)
    IN  /\ state' = fin.state
        /\ fresh' = {}
        /\ hasRound' = FALSE
        /\ staled' = st
        /\ dropout' = d
        /\ isFinish' = (isFinish \/ mid.finished \/ fin.finished)
        /\ IF extra > 0 THEN BroadcastModelPara(fin.inbox, free, extra, fin.state)
                        ELSE NoBroadcast(fin.inbox, free)

\* Whether the training goes on after the round before s.
MoreRounds(s) == s < TotalRounds

\* _perform_federated_aggregation and what follows it.
Aggregate(free, f, st, d, extra) ==
  LET s1  == state + 1
      due == s1 % EvalFreq = 0 /\ s1 # TotalRounds
  IN  /\ agg' = [round |-> state,
                 from  |-> {<<state, c>> : c \in f} \cup st,
                 count |-> agg.count + 1]
      /\ restarts' = 0
      /\ \E stop \in IF GlobalEval /\ due THEN Verdicts ELSE {FALSE} :
           LET mid == IF due THEN Eval(s1, toClient, stop)
                      ELSE [state |-> s1, inbox |-> toClient, finished |-> FALSE]
           IN  IF MoreRounds(mid.state)
                 THEN NextRound(mid, free, f, st, d, extra)
                 ELSE FinalEval(mid, free, st, d, extra)

\* The buffers as the caller left them, when no aggregation took place.
Keep(f, keyed, st, d) ==
  /\ fresh' = f
  /\ hasRound' = keyed
  /\ staled' = st
  /\ dropout' = d
  /\ UNCHANGED <<state, isFinish, agg, restarts>>

Wait(free, f, keyed, st, d, extra) ==
  /\ Keep(f, keyed, st, d)
  /\ IF extra > 0 THEN BroadcastModelPara(toClient, free, extra, state)
                  ELSE NoBroadcast(toClient, free)

\* Aggregating reads msg_buffer['train'][state], which does not exist.
KeyError(free, f, st, d) ==
  /\ Keep(f, FALSE, st, d)
  /\ pc' = "missing_buffer"
  /\ idle' = free
  /\ UNCHANGED toClient

CheckAndMoveOnFreshOnly(free, f, keyed, st, d, extra) ==
  IF Cardinality(f) < MinReceived
    THEN Wait(free, f, keyed, st, d, extra)
    ELSE Aggregate(free, f, st, d, extra)

\* Mutant: a buffer that does not exist is taken for an empty one.
CheckAndMoveOnLenient(free, f, keyed, st, d, extra) ==
  IF TrainQuorum(f, st)
    THEN Aggregate(free, f, st, d, extra)
    ELSE Wait(free, f, keyed, st, d, extra)

\* check_and_move_on with the sampler and the buffers as the caller left them.
CheckAndMoveOn(free, f, keyed, st, d, extra) ==
  CASE ~TrainQuorum(f, st)          -> Wait(free, f, keyed, st, d, extra)
    [] TrainQuorum(f, st) /\ keyed  -> Aggregate(free, f, st, d, extra)
    [] TrainQuorum(f, st) /\ ~keyed -> KeyError(free, f, st, d)

-----------------------------------------------------------------------------
(* The handlers.                                                           *)

TriggerOneEarly(inbox) ==
  IF Cardinality(IF JoinInfo THEN joinInfo' ELSE neighbors') = Cardinality(Clients) - 1
    THEN BroadcastModelPara(inbox, idle, SampleNum, state)
    ELSE NoBroadcast(inbox, idle)

\* trigger_for_start, with the channels and join counts as its caller left them.
TriggerForStart(inbox) ==
  IF IF JoinInfo THEN Cardinality(joinInfo') = Cardinality(Clients)
                 ELSE joinNum' = Cardinality(Clients)
    THEN BroadcastModelPara(inbox, idle, SampleNum, state)
    ELSE NoBroadcast(inbox, idle)

\* callback_funcs_for_join_in, message join_in (of a worker that has its ID).
HandleJoinIn(c) ==
  /\ Listening
  /\ Arrived(c, "join_in")
  /\ toServer' = Consume(c)
  /\ joinNum' = joinNum + 1
  /\ neighbors' = neighbors \cup {c}
  /\ UNCHANGED joinInfo
  /\ TriggerForStart(IF JoinInfo
                       THEN Deliver(toClient, {c}, Msg("ask_for_join_in_info", state))
                       ELSE toClient)
  /\ UNCHANGED <<roundVars, evalVars, isFinish, numFailure, restarts>>

\* callback_funcs_for_join_in, message join_in_info.
HandleJoinInInfo(c) ==
  /\ Listening
  /\ Arrived(c, "join_in_info")
  /\ toServer' = Consume(c)
  /\ joinInfo' = joinInfo \cup {c}
  /\ UNCHANGED <<joinNum, neighbors>>
  /\ TriggerForStart(toClient)
  /\ UNCHANGED <<roundVars, evalVars, isFinish, numFailure, restarts>>

ToleratedOneMore(r) == r >= state - Staleness - 1

\* An update of an older round that still counts.
Tolerated(r) == r >= state - Staleness

\* callback_funcs_model_para: the sender is idle again, and its update is fresh,
\* stale but tolerated, or dropped.
HandleModelPara(c) ==
  /\ Listening
  /\ Arrived(c, "model_para")
  /\ toServer' = Consume(c)
  /\ UNCHANGED <<joinVars, evalVars, numFailure>>
  /\ IF isFinish
       THEN UNCHANGED <<pc, roundVars, idle, isFinish, restarts, toClient>>
       ELSE LET r    == Head(toServer[c]).round
                now  == r = state
                late == ~now /\ Tolerated(r)
            IN  CheckAndMoveOn(idle \cup {c},
                               IF now THEN fresh \cup {c} ELSE fresh,
                               hasRound \/ now,
                               IF late THEN staled \cup {<<r, c>>} ELSE staled,
                               IF now \/ late THEN dropout ELSE dropout + 1,
                               IF AfterReceiving THEN 1 ELSE 0)

EvalQuorumOneShort(from) ==
  Cardinality(from) >= IF EvalAll THEN Cardinality(neighbors) - 1 ELSE MinReceived

EvalQuorum(from) ==
  Cardinality(from) >= IF EvalAll THEN Cardinality(neighbors) ELSE MinReceived

\* callback_funcs_for_metrics: the results are filed under their round, and the
\* largest round's are merged, saved and cleared when there are enough of them.
HandleMetrics(c) ==
  /\ Listening
  /\ Arrived(c, "metrics")
  /\ toServer' = Consume(c)
  /\ UNCHANGED <<joinVars, idle, fresh, hasRound, staled, dropout, agg, pc,
                 numFailure, restarts>>
  /\ LET r    == Head(toServer[c]).round
         from == CASE r > evalRound -> {c}
                   [] r = evalRound -> evalFrom \cup {c}
                   [] r < evalRound -> evalFrom
     IN  /\ evalRound' = IF r > evalRound THEN r ELSE evalRound
         /\ IF EvalQuorum(from)
              THEN \E stop \in Verdicts :
                     LET res == CheckAndSave(state, toClient, stop)
                     IN  /\ state' = res.state
                         /\ toClient' = res.inbox
                         /\ isFinish' = (isFinish \/ res.finished)
                         /\ evalFrom' = {}
                         /\ merged' = [round |-> evalRound', from |-> from, stop |-> stop]
              ELSE /\ evalFrom' = from
                   /\ UNCHANGED <<state, toClient, isFinish, merged>>

\* terminate: tell every neighbour; run returns.
Terminate ==
  /\ pc' = "done"
  /\ isFinish' = TRUE
  /\ toClient' = Deliver(toClient, neighbors, Msg("finish", state))

\* run leaves its loop after the last round or an early stop.
ExitLoop ==
  /\ pc = "listening"
  /\ AllJoined
  /\ state > TotalRounds
  /\ Terminate
  /\ UNCHANGED <<roundVars, joinVars, evalVars, idle, numFailure, restarts, toServer>>

\* Mutant: a round that could be restarted clears the count.
TimeUpForgets ==
  /\ Timed
  /\ Listening
  /\ AllJoined
  /\ UNCHANGED <<joinVars, evalVars, toServer>>
  /\ IF TrainQuorum(fresh, staled)
       THEN /\ numFailure' = IF hasRound THEN 0 ELSE numFailure
            /\ CheckAndMoveOn(idle, fresh, hasRound, staled, dropout, 0)
       ELSE /\ numFailure' = IF numFailure + 1 > MaxFailure THEN numFailure + 1 ELSE 0
            /\ IF numFailure + 1 > MaxFailure
                 THEN Terminate /\ UNCHANGED <<roundVars, idle, restarts>>
                 ELSE /\ fresh' = {}
                      /\ restarts' = restarts + 1
                      /\ BroadcastModelPara(toClient, idle, SampleNum, state)
                      /\ UNCHANGED <<state, hasRound, staled, dropout, agg, isFinish>>

\* The alarm interrupts receive: move on if possible, give up after too many
\* failures, and otherwise restart the round.  (The evaluation buffer never
\* holds a quorum while the server waits.)
TimeUp ==
  /\ Timed
  /\ Listening
  /\ AllJoined
  /\ UNCHANGED <<joinVars, evalVars, toServer>>
  /\ IF TrainQuorum(fresh, staled)
       THEN /\ numFailure' = IF hasRound THEN 0 ELSE numFailure
            /\ CheckAndMoveOn(idle, fresh, hasRound, staled, dropout, 0)
       ELSE /\ numFailure' = numFailure + 1
            /\ IF numFailure' > MaxFailure
                 THEN Terminate /\ UNCHANGED <<roundVars, idle, restarts>>
                 ELSE /\ fresh' = {}
                      /\ restarts' = restarts + 1
                      /\ BroadcastModelPara(toClient, idle, SampleNum, state)
                      /\ UNCHANGED <<state, hasRound, staled, dropout, agg, isFinish>>

ReadFrom(c) ==
  \/ HandleJoinIn(c)
  \/ HandleJoinInInfo(c)
  \/ HandleModelPara(c)
  \/ HandleMetrics(c)
=============================================================================
