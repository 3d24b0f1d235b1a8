------------------------------- MODULE AdaSparse -------------------------------
(***************************************************************************)
(* AdaSparse-LoRA v3 in a synchronous course of all workers.  A component  *)
(* is one rank position of one LoRA layer.  A worker trains its surviving  *)
(* components, prunes some of them (Stage 1) and uploads all survivors or, *)
(* under a budget, a selection of them (Stage 2); what it withholds stays  *)
(* in its residual buffers.  The server keeps what each worker has told it *)
(* of its survivors and sends those components of the aggregated model.    *)
(*                                                                         *)
(* A worker's LoRA tensors have a fixed number of rows.  A download puts   *)
(* the components of a layer into the first rows, in the order of their    *)
(* indices: which component a row holds is all that is modelled of it.     *)
(* Scores are data: pruning and selection choose among all outcomes that   *)
(* some scores have.                                                       *)
(***************************************************************************)
EXTENDS Integers, Sequences, FiniteSets

LOCAL INSTANCE FiniteSetsExt

CONSTANTS
  Clients,
  Layers,       \* layer keys
  Rank,         \* client_rank_config: each worker's rank per layer, its tensors' rows
  TotalRounds,
  RankMin,      \* rank_min, over all layers together
  Gamma,        \* gamma in percent: what the low set leaves of the components
  GlobalPrune,  \* stage1_global_competition
  Modes,        \* the values of stage2.enabled considered
  GlobalSelect, \* stage2_global_competition
  EvalFreq,     \* eval.freq
  Cost,         \* bits that a component of a layer takes
  UpBudget,     \* each worker's uplink and downlink budget in bits: static bandwidth
  DownBudget

\* No bandwidth manager, no budget.
Unlimited == -1

Component == UNION {{l} \X (0 .. Rank[c][l] - 1) : c \in Clients, l \in Layers}

InitialSurvivors(c) == UNION {{l} \X (0 .. Rank[c][l] - 1) : l \in Layers}

ASSUME AdaSparseAssumption ==
  /\ IsFiniteSet(Clients) /\ Clients # {}
  /\ IsFiniteSet(Layers)
  /\ Rank \in [Clients -> [Layers -> Nat]]
  /\ TotalRounds \in Nat \ {0}
  /\ RankMin \in Nat
  /\ \A c \in Clients : InitialSurvivors(c) # {}
  /\ Gamma \in 0 .. 100
  /\ GlobalPrune \in BOOLEAN /\ GlobalSelect \in BOOLEAN
  /\ Modes \in SUBSET BOOLEAN
  /\ Cost \in [Layers -> Nat \ {0}]
  /\ EvalFreq \in Nat \ {0}
  /\ UpBudget \in [Clients -> Nat \cup {Unlimited}]
  /\ DownBudget \in [Clients -> Nat \cup {Unlimited}]

VARIABLES
  stage2,     \* stage2.enabled, the same everywhere
  started,    \* all workers have joined
  round,      \* the server's state
  known,      \* adasparse_v3_client_survivors_by_layer: what the server knows
  updates,    \* the layers of adasparse_v3_aggregated_global_updates
  buffer,     \* the round's uploads and their senders, in the order of arrival
  survivors,  \* per worker, adasparse_v3_survivors_by_layer
  loaded,     \* per worker, the components its tensors' rows hold
  residual,   \* per worker, its residual buffers: whose updates each of them holds
  partial,    \* per worker, _download_is_partial
  failed,     \* the workers that raised NotImplementedError
  toClient,   \* per worker, messages under way from and to the server
  toServer

serverVars == <<started, round, known, updates, buffer>>
clientVars == <<survivors, loaded, residual, partial, failed>>
vars       == <<stage2, serverVars, clientVars, toClient, toServer>>

InLayer(S, l)  == {x \in S : x[1] = l}
LayersOf(S)    == {x[1] : x \in S}
Count(S, l)    == Cardinality(InLayer(S, l))

\* Buffers and sparse updates: per component, the components whose updates the row
\* that goes under its name holds.
Rows == UNION {[S -> SUBSET Component] : S \in SUBSET Component}

Download == [type : {"model_para", "evaluate"}, survivors : SUBSET Component,
             download : SUBSET Component, partial : BOOLEAN]
Upload   == [update : Rows, survivors : SUBSET Component]

TypeOK ==
  /\ stage2 \in Modes
  /\ started \in BOOLEAN
  /\ round \in 0 .. TotalRounds
  /\ known \in [Clients -> SUBSET Component]
  /\ updates \in SUBSET Layers
  /\ buffer \in Seq(Clients \X Rows) /\ Len(buffer) <= Cardinality(Clients)
  /\ survivors \in [Clients -> SUBSET Component]
  /\ loaded \in [Clients -> SUBSET Component]
  /\ residual \in [Clients -> Rows]
  /\ partial \in [Clients -> BOOLEAN]
  /\ failed \in SUBSET Clients
  /\ toClient \in [Clients -> Seq(Download)]
  /\ toServer \in [Clients -> Seq(Upload)]

NoRows == [x \in {} |-> {}]

-----------------------------------------------------------------------------
(* Selection under a budget.                                               *)

Least(m, n) == IF m < n THEN m ELSE n
Most(m, n)  == IF m < n THEN n ELSE m

CostOf(S) == MapThenSumSet(LAMBDA l : Count(S, l) * Cost[l], LayersOf(S))

\* greedy_select_by_score_cost_ratio_grouped: what it may select of S, whatever the
\* scores: globally a selection to which nothing more fits, or from each layer as
\* many as fit its share of the budget.
Selections(S, budget) ==
  IF GlobalSelect
    THEN {T \in SUBSET S : /\ CostOf(T) <= budget
                           /\ \A x \in S \ T : CostOf(T) + Cost[x[1]] > budget}
    ELSE {T \in SUBSET S : \A l \in LayersOf(S) :
            Count(T, l) = Least(Count(S, l),
                                (budget * Count(S, l)) \div (Cardinality(S) * Cost[l]))}

-----------------------------------------------------------------------------
(* Downlink.                                                               *)

\* What the server may send of the survivors S in a round with a downlink budget.
\* Only components of the layers that were aggregated have a score.
Downlinks(S, rnd, layers, budget) ==
  IF rnd = 0 \/ ~stage2 \/ budget = Unlimited
    THEN {S}
    ELSE Selections({x \in S : x[1] \in layers}, budget)

\* What a worker with the survivors S is sent, if its download is D: nothing if nothing
\* survives.
Messages(type, S, D, rnd) ==
  IF S = {} THEN <<>>
  ELSE <<[type |-> type, survivors |-> S, download |-> D,
          partial |-> rnd # 0 /\ Cardinality(D) < Cardinality(S)]>>

\* What the workers may be sent: their downloads depend on scores and budgets, and both
\* are the same for the evaluation of a round and for the training that follows it.
Downloads(rec, rnd, layers) ==
  {f \in [Clients -> SUBSET Component] :
     \A c \in Clients : f[c] \in Downlinks(rec[c], rnd, layers, DownBudget[c])}

\* _broadcast_method_model_para: every worker gets its own message.
Broadcast(inbox, type, rec, D, rnd) ==
  [c \in Clients |-> inbox[c] \o Messages(type, rec[c], D[c], rnd)]

Init ==
  /\ stage2 \in Modes
  /\ started = FALSE
  /\ round = 0
  /\ known = [c \in Clients |-> InitialSurvivors(c)]
  /\ updates = {}
  /\ buffer = <<>>
  /\ survivors = known
  /\ loaded = known
  /\ residual = [c \in Clients |-> NoRows]
  /\ partial = [c \in Clients |-> FALSE]
  /\ failed = {}
  /\ toClient = [c \in Clients |-> <<>>]
  /\ toServer = [c \in Clients |-> <<>>]

\* trigger_for_start: round 0 sends every component.
Start ==
  /\ ~started
  /\ started' = TRUE
  /\ toClient' = Broadcast(toClient, "model_para", known, known, 0)
  /\ UNCHANGED <<stage2, round, known, updates, buffer, clientVars, toServer>>

-----------------------------------------------------------------------------
(* A worker.                                                               *)

\* (Operators named for a slip, like the next one, are what a plausible bug would make
\* of the definition that follows them; no action uses them.)
LoadedMerged(c, D) == D \cup loaded[c]

\* apply_distributed_lora_download: the layers that were sent are filled from the
\* first row on and cleared behind, the others stay as they are.
Loaded(c, D) == D \cup {x \in loaded[c] : x[1] \notin LayersOf(D)}

\* A download taken for a partial one fits only if each layer sent fills its tensors.
Fits(c, D, flag) == flag => \A l \in LayersOf(D) : Count(D, l) = Rank[c][l]

PruningsUnfloored(S) ==
  LET low(n) == n - (n * Gamma) \div 100
  IN  {P \in SUBSET S : /\ Cardinality(P) <= low(Cardinality(S))
                        /\ GlobalPrune \/ \A l \in LayersOf(S) : Count(P, l) <= low(Count(S, l))}

\* What Stage 1 may prune of S, whatever the scores: candidates of the low set,
\* which leaves gamma of all components (of each layer, unless layers compete) and
\* never less than rank_min of all layers together.
Prunings(S) ==
  LET low(n) == n - (n * Gamma) \div 100
      cap    == Most(0, Cardinality(S) - Most(RankMin, (Cardinality(S) * Gamma) \div 100))
  IN  {P \in SUBSET S : /\ Cardinality(P) <= cap
                        /\ GlobalPrune \/ \A l \in LayersOf(S) : Count(P, l) <= low(Count(S, l))}

\* The row that component x has among the components S of its layer.
Position(S, x) == Cardinality({y \in InLayer(S, x[1]) : y[2] < x[2]})

\* slice_model_update_by_component_ids: x's row is looked up among the survivors S,
\* in tensors whose rows hold the components L.
RowOf(S, L, x) == {y \in InLayer(L, x[1]) : Position(L, y) = Position(S, x)}

\* The update of each survivor with its residual, and what is uploaded of it.
Effective(S, L, res) ==
  [x \in S |-> RowOf(S, L, x) \cup IF x \in DOMAIN res THEN res[x] ELSE {}]

Only(f, S) == [x \in S |-> f[x]]

\* _adasparse_v3_stage2_select_upload: all survivors, if Stage 2 is off, there is no
\* budget or nothing fits it.
Uploads(S, budget) ==
  IF ~stage2 \/ budget \in {0, Unlimited} THEN {S}
  ELSE {IF T = {} THEN S ELSE T : T \in Selections(S, budget)}

\* callback_funcs_for_model_para: note whether the download is partial, load it, train,
\* prune, upload.
Train(c, m) ==
  LET L == Loaded(c, m.download)
  IN  \E P \in Prunings(m.survivors) :
        LET S   == m.survivors \ P
            old == IF stage2 THEN Only(residual[c], DOMAIN residual[c] \ P) ELSE NoRows
            eff == Effective(S, L, old)
        IN  \E T \in Uploads(S, UpBudget[c]) :
              /\ survivors' = [survivors EXCEPT ![c] = S]
              /\ loaded' = [loaded EXCEPT ![c] = L]
              /\ residual' = [residual EXCEPT ![c] = IF stage2 THEN Only(eff, S \ T) ELSE NoRows]
              /\ partial' = [partial EXCEPT ![c] = m.partial]
              /\ toServer' = [toServer EXCEPT ![c] =
                                Append(@, [update |-> Only(eff, T), survivors |-> S])]
              /\ UNCHANGED failed

\* callback_funcs_for_evaluate: the download is loaded without noting whether it is
\* partial.
Evaluate(c, m) ==
  /\ survivors' = [survivors EXCEPT ![c] = m.survivors]
  /\ loaded' = [loaded EXCEPT ![c] = Loaded(c, m.download)]
  /\ UNCHANGED <<residual, partial, failed, toServer>>

\* NotImplementedError: the worker has taken over the survivors, and ends.
Fail(c, m) ==
  /\ survivors' = [survivors EXCEPT ![c] = m.survivors]
  /\ partial' = [partial EXCEPT ![c] = IF m.type = "model_para" THEN m.partial ELSE @]
  /\ failed' = failed \cup {c}
  /\ UNCHANGED <<loaded, residual, toServer>>

ClientStep(c) ==
  /\ c \notin failed
  /\ toClient[c] # <<>>
  /\ toClient' = [toClient EXCEPT ![c] = Tail(@)]
  /\ LET m    == Head(toClient[c])
         flag == IF m.type = "model_para" THEN m.partial ELSE partial[c]
     IN  \/ ~Fits(c, m.download, flag) /\ Fail(c, m)
         \/ Fits(c, m.download, flag) /\ m.type = "model_para" /\ Train(c, m)
         \/ Fits(c, m.download, flag) /\ m.type = "evaluate" /\ Evaluate(c, m)
  /\ UNCHANGED <<stage2, serverVars>>

-----------------------------------------------------------------------------
(* The server.                                                             *)

\* _sparse_update_aggregate_v3: the layers are those of the first upload.
AggregatedLayers(models) == LayersOf(DOMAIN models[1][2])

RoundOverOneMore(models) == Len(models) > Cardinality(Clients)

RoundOver(models) == Len(models) = Cardinality(Clients)

MoreRounds(r) == r < TotalRounds

RecordedUploaded(c, m) == [known EXCEPT ![c] = DOMAIN m.update]

RecordedNot(c, m) == known

\* _parse_method_model_para_content: the survivors are those that the upload names.
Recorded(c, m) == [known EXCEPT ![c] = m.survivors]

\* callback_funcs_model_para: the sender's survivors are recorded; the last upload
\* completes the round, which is aggregated, evaluated and followed by the next.
HandleUpload(c) ==
  /\ toServer[c] # <<>>
  /\ toServer' = [toServer EXCEPT ![c] = Tail(@)]
  /\ LET m      == Head(toServer[c])
         models == Append(buffer, <<c, m.update>>)
     IN  /\ known' = Recorded(c, m)
         /\ IF ~RoundOver(models)
              THEN /\ buffer' = models
                   /\ UNCHANGED <<round, updates, toClient>>
              ELSE /\ buffer' = <<>>
                   /\ round' = round + 1
                   /\ updates' = AggregatedLayers(models)
                   /\ \E D \in Downloads(known', round', updates') :
                        LET send(inbox, type) == Broadcast(inbox, type, known', D, round')
                            evaluated == IF round' % EvalFreq = 0 \/ round' = TotalRounds
                                           THEN send(toClient, "evaluate") ELSE toClient
                        IN  toClient' = IF MoreRounds(round')
                                          THEN send(evaluated, "model_para") ELSE evaluated
  /\ UNCHANGED <<stage2, started, clientVars>>

Next == Start \/ \E c \in Clients : ClientStep(c) \/ HandleUpload(c)

Spec == Init /\ [][Next]_vars

Fairness == /\ WF_vars(Start)
            /\ \A c \in Clients : WF_vars(ClientStep(c)) /\ WF_vars(HandleUpload(c))

FairSpec == Spec /\ Fairness

-----------------------------------------------------------------------------
(* Properties.                                                             *)

\* rank_min: pruning round after round, whatever the scores, the server's record and
\* the workers keep rank_min components of all layers together, if there were as many.
RankFloor ==
  \A c \in Clients :
    LET floor == Least(RankMin, Cardinality(InitialSurvivors(c)))
    IN  Cardinality(survivors[c]) >= floor /\ Cardinality(known[c]) >= floor

\* A worker and the server agree on the worker's survivors unless its upload is under
\* way, and no message under way would make the worker forget what it has pruned.
Agreement ==
  \A c \in Clients :
    /\ survivors[c] = IF toServer[c] = <<>> THEN known[c]
                      ELSE toServer[c][Len(toServer[c])].survivors
    /\ \A i \in DOMAIN toClient[c] : toClient[c][i].survivors = known[c]

\* A component that a worker has pruned never survives again, though every download
\* replaces the worker's survivors with the server's.
NeverGrows == [][\A c \in Clients : survivors'[c] \subseteq survivors[c]]_vars

\* Without Stage 2, if a worker has pruned nothing in this round, whatever it pruned in
\* others, what it uploads for a component is the update of that component.
ExactUnlessPruned ==
  ~stage2 => \A c \in Clients : \A i \in DOMAIN toServer[c] :
    LET m == toServer[c][i]
    IN  m.survivors = known[c] => \A x \in DOMAIN m.update : m.update[x] = {x}

\* The course completes its rounds unless a worker refuses a download: pruning never
\* leaves a worker without the message that would ask it for its update.
Completes == <>(round = TotalRounds \/ failed # {})

\* "Full model updates for all survivors", "Map global indices to local positions":
\* without Stage 2, the row uploaded for a component is that component's.
InPlace ==
  ~stage2 => \A c \in Clients : \A i \in DOMAIN toServer[c] :
    LET update == toServer[c][i].update
    IN  \A x \in DOMAIN update : update[x] = {x}
=============================================================================
