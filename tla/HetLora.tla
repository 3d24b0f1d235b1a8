-------------------------------- MODULE HetLora --------------------------------
(***************************************************************************)
(* HetLoRA in a synchronous course of all workers.  Adapters have MaxRank  *)
(* rows everywhere; a worker's rank says how many of the first ones are    *)
(* its own.  The server keeps its own account of the ranks and sends each  *)
(* worker that many rows of the aggregated model.  A worker that prunes    *)
(* itself after training reports its new rank, in a message of its own     *)
(* before its update, and uploads only the rows that are left.  Uploads    *)
(* are padded with zeros when they are aggregated: a row that nobody       *)
(* uploads is empty in the next model.                                     *)
(*                                                                         *)
(* Which rows of a tensor are filled is all that is modelled of it.        *)
(* Whether a worker prunes depends on scores: it is an arbitrary choice.   *)
(***************************************************************************)
EXTENDS Integers, Sequences, FiniteSets

CONSTANTS
  Clients,
  InitRanks,    \* the values of hetero_ranks.config_local considered
  MaxRank,      \* adapter.max_rank
  RankMin,      \* hetlora.rank_min and rank_max
  RankMax,
  Decay,        \* pruning.decay in percent
  TotalRounds,
  EvalFreq,     \* eval.freq
  Vlm           \* the task is a vision-language one, with its own adapter options

ASSUME HetLoraAssumption ==
  /\ IsFiniteSet(Clients) /\ Clients # {}
  /\ RankMin \in Nat \ {0} /\ RankMax \in Nat /\ MaxRank \in Nat
  /\ InitRanks \in SUBSET [Clients -> RankMin .. RankMax]
  /\ Decay \in 0 .. 100
  /\ TotalRounds \in Nat \ {0}
  /\ EvalFreq \in Nat \ {0}
  /\ Vlm \in BOOLEAN

VARIABLES
  pruning,    \* pruning.enabled, the same everywhere
  started,    \* all workers have joined
  crashed,    \* RuntimeError: a worker's rank is above MaxRank
  round,      \* the server's state
  record,     \* hetlora_client_ranks
  config,     \* the active hetero_ranks.config_local, from which payloads are made
  filled,     \* the rows of the server's model that are not empty
  buffer,     \* the round's uploads: per sender, the rows that they fill
  rank,       \* per worker, hetlora_current_rank
  toClient,   \* per worker, messages under way from and to the server
  toServer

serverVars == <<started, crashed, round, record, config, filled, buffer>>
vars       == <<pruning, serverVars, rank, toClient, toServer>>

Ranks   == RankMin .. RankMax
Rows(r) == 0 .. r - 1

Download   == [type : {"model_para", "evaluate"}, rank : Ranks, rows : SUBSET Rows(MaxRank)]
RankReport == [type : {"hetlora_rank"}, rank : Ranks]
Update     == [type : {"model_para"}, rows : SUBSET Rows(MaxRank)]

TypeOK ==
  /\ pruning \in BOOLEAN
  /\ started \in BOOLEAN
  /\ crashed \in BOOLEAN
  /\ round \in 0 .. TotalRounds
  /\ record \in [Clients -> Ranks]
  /\ config \in [Clients -> Ranks]
  /\ filled \in SUBSET Rows(MaxRank)
  /\ DOMAIN buffer \subseteq Clients
  /\ buffer \in [DOMAIN buffer -> SUBSET Rows(MaxRank)]
  /\ rank \in [Clients -> Ranks]
  /\ toClient \in [Clients -> Seq(Download)]
  /\ toServer \in [Clients -> Seq(RankReport \cup Update)]

Least(m, n) == IF m < n THEN m ELSE n
Most(m, n)  == IF m < n THEN n ELSE m

Clamp(r) == Most(RankMin, Least(RankMax, r))

-----------------------------------------------------------------------------
(* Downlink.                                                               *)

\* distribute_weight_fast: a worker of rank r is sent the first r rows of the model, of
\* which those in F are filled.
Payload(type, r, F) == [type |-> type, rank |-> r, rows |-> Rows(r) \cap F]

\* _broadcast_capability_model_para: every worker gets the rows of its own rank.
Broadcast(inbox, type, conf, F) ==
  [c \in Clients |-> Append(inbox[c], Payload(type, conf[c], F))]

\* _build_personalized_hetero_payloads raises if a worker's rank is above max_rank. Ranks
\* never grow, so that it is the first payloads that are missing, if any.
Distributable(conf) == \A c \in Clients : conf[c] <= MaxRank

Init ==
  /\ pruning \in BOOLEAN
  /\ started = FALSE
  /\ crashed = FALSE
  /\ round = 0
  /\ rank \in InitRanks
  /\ record = rank
  /\ config = rank
  /\ filled = Rows(MaxRank)
  /\ buffer = [c \in {} |-> {}]
  /\ toClient = [c \in Clients |-> <<>>]
  /\ toServer = [c \in Clients |-> <<>>]

\* trigger_for_start: the payloads of round 0 are prepared and sent.
Start ==
  /\ ~started
  /\ started' = TRUE
  /\ IF Distributable(config)
       THEN /\ toClient' = Broadcast(toClient, "model_para", config, filled)
            /\ UNCHANGED crashed
       ELSE /\ crashed' = TRUE
            /\ UNCHANGED toClient
  /\ UNCHANGED <<pruning, round, record, config, filled, buffer, rank, toServer>>

-----------------------------------------------------------------------------
(* A worker.                                                               *)

\* What a worker of rank r may be after training: pruned, if pruning makes a difference.
Prunings(r) ==
  LET pruned == Most(RankMin, (r * Decay) \div 100)
  IN  IF pruned < r THEN {r, pruned} ELSE {r}

\* truncate_client_lora_to_rank: the rows beyond r are cut off.
Truncated(rows, r) == rows \cap Rows(r)

UpdateFirst(old, new, update) ==
  <<update>> \o IF new < old THEN <<[type |-> "hetlora_rank", rank |-> new]>> ELSE <<>>

\* _hetlora_prune_and_send_rank: a worker that has pruned reports its new rank before it
\* sends its update. (UpdateFirst is a slip of it; no action uses what is named for one.)
Answer(old, new, update) ==
  (IF new < old THEN <<[type |-> "hetlora_rank", rank |-> new]>> ELSE <<>>) \o <<update>>

\* callback_funcs_for_model_para: load the rows into an otherwise empty adapter, train,
\* prune, upload. Rows that are empty stay so, as nothing reaches them in training.
Train(c, m) ==
  LET current  == Clamp(rank[c])
      update(F) == [type |-> "model_para", rows |-> F]
  IN  \/ /\ ~pruning
         /\ toServer' = [toServer EXCEPT ![c] = Append(@, update(m.rows))]
         /\ UNCHANGED rank
      \/ /\ pruning
         /\ \E r \in Prunings(current) :
              /\ rank' = [rank EXCEPT ![c] = Clamp(r)]
              /\ toServer' = [toServer EXCEPT ![c] =
                                @ \o Answer(current, r, update(Truncated(m.rows, r)))]

\* callback_funcs_for_evaluate loads the rows, too, but they are not trained further.
ClientStep(c) ==
  /\ toClient[c] # <<>>
  /\ toClient' = [toClient EXCEPT ![c] = Tail(@)]
  /\ \/ Head(toClient[c]).type = "model_para" /\ Train(c, Head(toClient[c]))
     \/ Head(toClient[c]).type = "evaluate" /\ UNCHANGED <<rank, toServer>>
  /\ UNCHANGED <<pruning, serverVars>>

-----------------------------------------------------------------------------
(* The server.                                                             *)

\* _update_hetero_ranks_config writes the ranks into the adapter options of language
\* models and of GLUE tasks. For a vision-language task get_active_hetero_config_local
\* prefers the options of its own.
Updated(conf, ranks) == IF Vlm THEN conf ELSE ranks

\* callback_funcs_for_hetlora_rank.
HandleRank(c) ==
  /\ toServer[c] # <<>>
  /\ Head(toServer[c]).type = "hetlora_rank"
  /\ toServer' = [toServer EXCEPT ![c] = Tail(@)]
  /\ record' = [record EXCEPT ![c] = Clamp(Head(toServer[c]).rank)]
  /\ config' = Updated(config, record')
  /\ UNCHANGED <<pruning, started, crashed, round, filled, buffer, rank, toClient>>

Filed(c, rows) ==
  [d \in DOMAIN buffer \cup {c} |-> IF d = c THEN rows ELSE buffer[d]]

RoundOver(models) == DOMAIN models = Clients

AggregatedCommon(models) == {x \in Rows(MaxRank) : \A c \in DOMAIN models : x \in models[c]}

\* _sparsity_weighted_aggregate, _hetero_lora_weighted_avg: uploads are padded with zeros.
\* (AggregatedCommon, which cuts them to the smallest, is a slip of it.)
Aggregated(models) == UNION {models[c] : c \in DOMAIN models}

\* callback_funcs_model_para: the last update completes the round, which is aggregated,
\* evaluated and followed by the next.
HandleUpdate(c) ==
  /\ toServer[c] # <<>>
  /\ Head(toServer[c]).type = "model_para"
  /\ toServer' = [toServer EXCEPT ![c] = Tail(@)]
  /\ LET models == Filed(c, Head(toServer[c]).rows)
     IN  IF ~RoundOver(models)
           THEN /\ buffer' = models
                /\ UNCHANGED <<round, filled, toClient>>
           ELSE /\ buffer' = [d \in {} |-> {}]
                /\ round' = round + 1
                /\ filled' = Aggregated(models)
                /\ LET send(inbox, type) == Broadcast(inbox, type, config, filled')
                       evaluated == IF round' % EvalFreq = 0 \/ round' = TotalRounds
                                      THEN send(toClient, "evaluate") ELSE toClient
                   IN  toClient' = IF round' < TotalRounds
                                     THEN send(evaluated, "model_para") ELSE evaluated
  /\ UNCHANGED <<pruning, started, crashed, record, config, rank>>

\* The course has ended, or the server with its error.
Ended ==
  /\ crashed \/ round = TotalRounds
  /\ \A c \in Clients : toClient[c] = <<>> /\ toServer[c] = <<>>
  /\ UNCHANGED vars

Next ==
  \/ Start
  \/ \E c \in Clients : ClientStep(c) \/ HandleRank(c) \/ HandleUpdate(c)
  \/ Ended

Spec == Init /\ [][Next]_vars

-----------------------------------------------------------------------------
(* Properties.                                                             *)

\* The two accounts of a worker's rank agree whenever it matters: what a worker is sent,
\* for training or evaluation, is sent at the rank the worker has when it reads it,
\* however often it has pruned itself; and no report is left behind by its update.
RanksAgree ==
  \A c \in Clients :
    /\ \A i \in DOMAIN toClient[c] : toClient[c][i].rank = rank[c]
    /\ toServer[c] = <<>> => record[c] = rank[c]

\* Truncation by the workers and padding by the aggregation lose nothing that anyone
\* still needs: every row that a worker is sent is filled.
NoEmptyRows ==
  \A c \in Clients : \A i \in DOMAIN toClient[c] :
    toClient[c][i].rows = Rows(toClient[c][i].rank)
=============================================================================
