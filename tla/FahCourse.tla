----------------------------- MODULE FahCourse ------------------------------
(***************************************************************************)
(* The rank adaptation of FAH-QLoRA in a synchronous course: the workers'  *)
(* statistics, the server's buffer for them, the warm-up, and the ranks    *)
(* that travel with the next model.  Of the course itself remain the       *)
(* cohorts and the channels (FedCourse has the rest).                      *)
(***************************************************************************)
EXTENDS FahRanks

CONSTANTS
  TotalRounds,   \* cfg.federate.total_round_num
  SampleNum,     \* cfg.federate.sample_client_num
  WarmupRounds   \* fah.warmup_rounds

ASSUME FahAssumption ==
  /\ TotalRounds \in Nat \ {0}
  /\ SampleNum \in 1 .. N
  /\ WarmupRounds \in Nat

VARIABLES
  state,      \* the server's round, TotalRounds when training is over
  cohort,     \* the workers sampled for it, {} before the start
  updates,    \* the workers whose update of it is buffered
  toClient,   \* per worker, models sent and not read
  toServer,   \* per worker, statistics and updates sent and not read
  worker,     \* per worker, fah_current_rank and fah_current_hat_rank
  stats,      \* fah_stats_buffer: per round, the statistics by worker
  losses,     \* fah_global_loss_history has an entry
  rates,      \* R_history has an entry
  avg,        \* the last of r_history
  hatAvg,     \* the last of r_hat_history
  profiled,   \* client_profiles is filled, with all workers
  current,    \* current_ranks and current_hat_ranks
  assigned,   \* fah_client_ranks
  config,     \* fah_round_config_local, the rank per worker
  processed   \* (history) the rounds _process_fah_round was called for

courseVars == <<state, cohort, updates>>
rankVars   == <<losses, rates, avg, hatAvg, profiled, current, assigned, config>>
vars == <<courseVars, toClient, toServer, worker, stats, rankVars, processed>>

Ranks  == RMin .. RMax
Pairs  == Ranks \X Ranks
None   == <<>>
Pair(c, rank) == <<rank, HatRank(c, rank)>>

Model(r, rank, pair) == [round |-> r, config |-> rank, pair |-> pair]
Stat(r, pair, rank)  == [type |-> "fah_stats", round |-> r, pair |-> pair, trained |-> rank]
Update(r)            == [type |-> "model_para", round |-> r]

\* Every variable has its type: all ranks, averages included, stay in the range.
TypeOK ==
  /\ state \in 0 .. TotalRounds
  /\ {cohort, updates} \subseteq SUBSET Clients
  /\ \A c \in Clients :
       /\ \A i \in DOMAIN toClient[c] :
            toClient[c][i] \in [round : Nat, config : Ranks, pair : Pairs \cup {None}]
       /\ \A i \in DOMAIN toServer[c] : toServer[c][i].type \in {"fah_stats", "model_para"}
  /\ worker \in [Clients -> Pairs]
  /\ \A r \in DOMAIN stats : DOMAIN stats[r] \subseteq Clients
  /\ {losses, rates, profiled} \subseteq BOOLEAN
  /\ {avg, hatAvg} \subseteq Ranks
  /\ {current, assigned} \subseteq [Clients -> Pairs] \cup {None}
  /\ config \in [Clients -> Ranks]
  /\ processed \subseteq DOMAIN stats

Init ==
  /\ state = 0
  /\ cohort = {}
  /\ updates = {}
  /\ toClient = [c \in Clients |-> <<>>]
  /\ toServer = [c \in Clients |-> <<>>]
  /\ worker = [c \in Clients |-> <<InitRank, Max({RMin, InitRank - 1})>>]
  /\ stats = [r \in 0 .. TotalRounds - 1 |-> <<>>]
  /\ losses = FALSE
  /\ rates = FALSE
  /\ avg = InitRank
  /\ hatAvg = Max({RMin, InitRank - 1})
  /\ profiled = FALSE
  /\ current = None
  /\ assigned = [c \in Clients |-> Pair(c, Min({InitRank, Cap(c)}))]
  /\ config = [c \in Clients |-> WarmupRank(c)]
  /\ processed = {}

-----------------------------------------------------------------------------
(* The server's broadcasts.                                                *)

ConfigOneLate(r) ==
  IF r <= WarmupRounds THEN [c \in Clients |-> WarmupRank(c)] ELSE config

\* _get_fah_runtime_config_local
RuntimeConfig(r) ==
  IF r < WarmupRounds THEN [c \in Clients |-> WarmupRank(c)] ELSE config

\* _broadcast_method_model_para: a sample is sent the model of round r, cut to the
\* rank of each worker, with its pair of ranks if it has one.
Broadcast(r) ==
  \E S \in SUBSET Clients :
    /\ Cardinality(S) = SampleNum
    /\ cohort' = S
    /\ toClient' =
         [c \in Clients |->
            IF c \in S
              THEN Append(toClient[c],
                     Model(r, RuntimeConfig(r)[c],
                           IF assigned = None THEN None ELSE assigned[c]))
              ELSE toClient[c]]

\* All workers have joined: trigger_for_start broadcasts the first model.
Start ==
  /\ cohort = {}
  /\ Broadcast(0)
  /\ UNCHANGED <<state, updates, toServer, worker, stats, rankVars, processed>>

-----------------------------------------------------------------------------
(* The worker.                                                             *)

TrainUpdateFirst(c) ==
  /\ toClient[c] # <<>>
  /\ LET m    == Head(toClient[c])
         pair == IF m.pair = None THEN worker[c] ELSE m.pair
     IN  /\ worker' = [worker EXCEPT ![c] = pair]
         /\ toServer' = [toServer EXCEPT ![c] =
              @ \o <<Update(m.round), Stat(m.round, pair, m.config)>>]
  /\ toClient' = [toClient EXCEPT ![c] = Tail(@)]
  /\ UNCHANGED <<courseVars, stats, rankVars, processed>>

\* callback_funcs_for_model_para of a FAH worker: it takes its ranks from the
\* message, trains, measures the losses at both ranks, and sends the statistics and
\* then the update.
Train(c) ==
  /\ toClient[c] # <<>>
  /\ LET m    == Head(toClient[c])
         pair == IF m.pair = None THEN worker[c] ELSE m.pair
     IN  /\ worker' = [worker EXCEPT ![c] = pair]
         /\ toServer' = [toServer EXCEPT ![c] =
              @ \o <<Stat(m.round, pair, m.config), Update(m.round)>>]
  /\ toClient' = [toClient EXCEPT ![c] = Tail(@)]
  /\ UNCHANGED <<courseVars, stats, rankVars, processed>>

-----------------------------------------------------------------------------
(* The server's handlers.                                                  *)

Read(c) == toServer' = [toServer EXCEPT ![c] = Tail(@)]

\* solve_p1_for_round and what its callers do with the result.  It assigns nothing
\* as long as no worker is registered.
Assign(known, average) ==
  IF known
    THEN \E ranks \in Plans[average] :
           /\ current' = [c \in Clients |-> Pair(c, ranks[c])]
           /\ assigned' = current'
           /\ config' = ranks
    ELSE /\ UNCHANGED current
         /\ assigned' = None
         /\ config' = [c \in Clients |-> WarmupRank(c)]

\* _process_fah_round in the warm-up; its last round registers the workers and
\* assigns the first ranks (_finalize_fah_profiling).
ProcessWarmup(r) ==
  /\ losses' = TRUE
  /\ UNCHANGED <<rates, avg, hatAvg>>
  /\ IF r = WarmupRounds - 1
       THEN profiled' = TRUE /\ Assign(TRUE, avg)
       ELSE UNCHANGED <<profiled, current, assigned, config>>

\* _process_fah_round after it: update_round_stats, update_average_rank,
\* solve_p1_for_round.  The first loss has no predecessor and gives no rate.
ProcessAdaptive ==
  /\ rates' = (rates \/ losses)
  /\ losses' = TRUE
  /\ \E sign \in IF rates' THEN Signs(avg, hatAvg) ELSE {0} :
       IF rates'
         THEN /\ avg' = NextAverage(avg, sign)
              /\ hatAvg' = NextHatAverage(avg')
         ELSE UNCHANGED <<avg, hatAvg>>
  /\ UNCHANGED profiled
  /\ Assign(profiled, avg')

AllReported(r) == Cardinality(DOMAIN stats'[r]) >= N

\* callback_funcs_for_fah_stats: the round is processed when every neighbour of the
\* server has reported.
HandleStats(c) ==
  /\ toServer[c] # <<>>
  /\ Head(toServer[c]).type = "fah_stats"
  /\ Read(c)
  /\ LET m == Head(toServer[c])
         r == m.round
     IN  /\ stats' = [stats EXCEPT ![r] =
              [d \in DOMAIN @ \cup {c} |-> IF d = c THEN m ELSE @[d]]]
         /\ IF AllReported(r)
              THEN /\ processed' = processed \cup {r}
                   /\ IF r < WarmupRounds THEN ProcessWarmup(r) ELSE ProcessAdaptive
              ELSE UNCHANGED <<rankVars, processed>>
  /\ UNCHANGED <<courseVars, toClient, worker>>

RoundOverOneShort(buffered) == Cardinality(buffered) >= SampleNum - 1

\* check_buffer: the round has all its updates.
RoundOver(buffered) == Cardinality(buffered) >= SampleNum

\* callback_funcs_model_para and check_and_move_on in the synchronous mode: the
\* last update of the cohort ends the round, and the next one starts.
HandleUpdate(c) ==
  /\ toServer[c] # <<>>
  /\ Head(toServer[c]).type = "model_para"
  /\ Read(c)
  /\ IF RoundOver(updates \cup {c})
       THEN /\ updates' = {}
            /\ state' = state + 1
            /\ IF state' < TotalRounds THEN Broadcast(state')
                                       ELSE UNCHANGED <<cohort, toClient>>
       ELSE /\ updates' = updates \cup {c}
            /\ UNCHANGED <<state, cohort, toClient>>
  /\ UNCHANGED <<worker, stats, rankVars, processed>>

\* Training is over; what is still to be read changes nothing here.
Ended == state = TotalRounds /\ UNCHANGED vars

Next ==
  \/ Start
  \/ \E c \in Clients : Train(c) \/ HandleStats(c) \/ HandleUpdate(c)
  \/ Ended

Spec == Init /\ [][Next]_vars

-----------------------------------------------------------------------------
\* The statistics of a round are complete, and the ranks for the next computed from
\* them, before the next model is sent: they overtake no update.
RanksReady == \A r \in 0 .. state - 1 : r \in processed

\* Statistics of worker c that no rank has been computed from yet.
Pending(c) ==
  {m \in {toServer[c][i] : i \in DOMAIN toServer[c]} : m.type = "fah_stats"}
    \cup {stats[r][c] : r \in {q \in DOMAIN stats : c \in DOMAIN stats[q] /\ q \notin processed}}

\* The scheduler judges the statistics of an adaptive round by the ranks it last
\* assigned: they are those the worker trained at and measured the losses at.
MeasuredAsAssigned ==
  \A c \in Clients : \A m \in Pending(c) :
    m.round >= WarmupRounds /\ profiled =>
      /\ m.pair = current[c]
      /\ m.trained = current[c][1]

\* The ranks assigned respect every worker's cap and spend exactly the average asked
\* for, or all the caps allow.
RanksFeasible ==
  profiled =>
    /\ \A c \in Clients : current[c][1] \in RMin .. Cap(c)
    /\ Total([c \in Clients |-> current[c][1]]) = Min({N * avg, MaxTotal})

\* For whatever average the course has reached, the heuristic gives a faster worker
\* no less than a slower one, unless its cap forbids it.
FasterGetMore ==
  \A order \in Orders :
    LET ranks == Heuristic(order, FeasibleTarget(avg))
    IN  \A i, j \in 1 .. N :
          i < j => ranks[order[i]] >= Min({Cap(order[i]), ranks[order[j]]})

\* Seen without the ranks, this is a synchronous course like any other.
Abstract == INSTANCE SyncRounds WITH
  Workers <- Clients,
  round   <- state,
  pending <- {c \in Clients : toClient[c] # <<>> \/ Update(state) \in Range(toServer[c])},
  phase   <- IF cohort = {} THEN "joining"
             ELSE IF state < TotalRounds THEN "training" ELSE "evaluating"

ImplementsSyncRounds == Abstract!Spec
=============================================================================
