# A verification project for FedLoRA

TLA+ models of the FedLoRA federated-learning system (FederatedScope's server and
client, extended with heterogeneous and sparse LoRA methods, a simulation and a ZeroMQ
deployment), the TLC runs that check them on small instances, and theorems about them that
TLAPS checks for every value of the constants. Paths below are relative to the repository
(`src/` is its root).

## 1. Inventory

| Component | Source | State it keeps | Operations | What makes it correct |
|---|---|---|---|---|
| FL server | `federatedscope/core/workers/server.py` | `state` (the round), `join_in_client_num`, `join_in_info`, `msg_buffer['train'/'eval']`, `staled_msg_buffer`, `dropout_num`, `is_finish`, the sampler, `num_failure` | `run`, `callback_funcs_for_join_in`, `callback_funcs_model_para`, `callback_funcs_for_metrics`, `check_and_move_on`, `broadcast_model_para`, `eval`, `check_and_save`, `terminate` | every round aggregates enough admissible updates, each once; the course ends with the evaluation of its last model; it always ends |
| FL client | `federatedscope/core/workers/client.py` | `state` (the round it works on) | `join_in`, `run`, handlers of `model_para`, `evaluate`, `ask_for_join_in_info`, `converged`, `finish` | it answers each task once and ignores none that is meant for it |
| Sampler | `federatedscope/core/sampler.py` | `client_state` (idle or working) | `sample`, `change_state` | nobody gets two tasks; nobody is lost |
| Round timeout | `federatedscope/core/auxiliaries/utils.py` (`Timeout`) | the alarm | `reset`, `exceed_max_failure` | a course that has started does not hang |
| Channels | `federatedscope/core/communication.py` (queue, gRPC), `distributed/comm/` (ZMQ) | messages in flight, `neighbors` | `send`, `receive`, `add_neighbors` | order is kept per worker, nothing is duplicated |
| ZMQ transport | `distributed/comm/zmq_client_comm.py`, `zmq_server_comm.py` | REQ/REP and PUB/SUB sockets, receive threads and their queues | `send` and `receive` on both sides, the receive loops | implements the channels; a REP socket always answers |
| Control plane | `distributed/control_plane/service.py`, `distributed/server/main.py`, `distributed/worker/main.py` | registered devices and their containers, the relay queue | advertisement, container start, relay, launch | a course starts when all devices are there; the registry knows what runs; relay traffic and control traffic do not disturb each other |
| Standalone runner | `federatedscope/core/fed_runner.py` | the shared queue, the server's message cache (a heap ordered by simulated time), the deadline | the loop of `_run_simulation`, `trigger_for_time_up` | the server never meets the past; a deadline comes between the messages before and after it |
| FAH-QLoRA | `federatedscope/contrib/worker/methods/fah_*.py` | loss statistics per round, average rank, rank per client | `fah_stats` messages, warm-up, two-stage rank assignment | ranks respect the caps, add up to the target, and are ready before the next broadcast |
| AdaSparse-LoRA v1-v3 | `federatedscope/contrib/worker/methods/adasparse_*.py`, `contrib/common/adasparse_*.py`, `core/aggregators/adasparse_*.py` | per worker the surviving components, residuals, what was sent down | pruning, upload and download selection under a budget | server and worker agree on the survivors; a component's values stay that component's; nothing is pruned below the floor |
| HetLoRA / HeteroLoRA | `federatedscope/contrib/worker/methods/het*.py` | rank per client and module | truncation, zero-padding, self-pruning | server and worker agree on a worker's rank when it matters; no row that is still in use is lost to padding and truncation |
| Bandwidth manager | `federatedscope/contrib/common/bandwidth_manager.py`, `distributed/worker/bandwidth_measure.py` | bandwidth per round and worker, its history | advance of a round, measured feedback, save | the values a round uses are that round's |
| Early stopper | `federatedscope/core/monitors/early_stopper.py` | best metric, rounds without improvement | `track_and_check` | it stops after `patience` evaluations without improvement, never before |
| Others | trainers, monitors, configuration, parallel runner, secret sharing, organizer, scripts, analysis, legacy | | | numeric, offline or unused here: see section 8 |

How they interact: the server and its workers exchange messages (`join_in`,
`ask_for_join_in_info`, `join_in_info`, `model_para`, `evaluate`, `metrics`, `converged`,
`finish`); handlers run one at a time in each process. In the deployment a receive thread
fills the queue that `receive` reads, worker uploads are REQ/REP and broadcasts are PUB/SUB,
either straight to the server or relayed by a device agent and the control plane; the
control plane has the agents start the workers. In the simulation one thread runs everybody:
it hands the workers' messages on at once and the server's in the order of simulated time.

What is hard here: evaluation of one round overlaps the training of the next; in the
asynchronous mode updates of several rounds are in flight and stale ones count within a
tolerance; a timeout restarts a round while its workers still train; a simulated deadline
falls between two messages; two threads and two queues lie between a send and its
acknowledgement; sends that fail are only logged; workers die for good (`restart: "no"`);
server and worker each keep their own account of what survived pruning; termination is decided
by a round counter that three handlers move. `PROJECT.json` lists each hazard at its line.

## 2. Modules

| Module | Models | Notes |
|---|---|---|
| `FedNetwork` | channels, processes, faults | `toClient[c]`, `toServer[c]`: one FIFO queue per worker and direction; `Deliver` reaches only running workers; `LoseDown`, `LoseUp`, `Crash` are the faults, bounded by `MaxLoss`, `MaxCrash` |
| `FedClient` | `Client.run` and its handlers | one action per message type; `Current` is the test `self.state <= msg.state` |
| `FedServer` | `Server.run`, its handlers, sampler, buffers, timeout | one action per handler, each running to its end, with `check_and_move_on`, the broadcast and `check_and_save` inside |
| `FedCourse` | the composition, fairness, the properties | `Spec`, `FairSpec` |
| `SyncRounds` | abstract specification of a synchronous course | cohorts that all return, round by round; `FedCourse` and `FahCourse` refine it |
| `FahRanks` | `FahRankScheduler` as operators: the average rank (Stage 1), the heuristic, the rounding of the optimizer's solution, the redistribution (Stage 2) | `Shift` is the loop the last three share; `Solutions` is every point that meets the optimizer's constraints, of which it returns one |
| `FahCourse` | FAH-QLoRA in a synchronous course: statistics, warm-up, processing of a round, ranks in the models | refines `SyncRounds` |
| `Channels` | abstract specification of a transport | one ordered channel per worker and direction; loses only what cannot be decoded, is published to nobody or belongs to the dead |
| `ZmqTransport` | the ZeroMQ comm managers and the control plane's relay loop | worker main thread, worker receive thread, REP loop, relay queue and its thread, server main thread: one action per step between two queues or sockets; refines `Channels` |
| `Deployment` | device agents, control plane, launch, on top of `ZmqTransport` in relay mode | advertisements and envelopes share the REP socket, starts and broadcasts the PUB socket |
| `AdaSparse` | AdaSparse-LoRA v3: Stage 1 and 2 on both sides, tensors' layouts | synchronous course of all workers |
| `Simulation` | `StandaloneRunner._run_simulation` and the asynchronous server it drives, with both aggregators | simulated time, cache, deadlines |
| `HetLora` | HetLoRA: downlink at each worker's rank, self-pruning, rank reports, padding in the aggregation | synchronous course of all workers |
| `FedCourseProofs`, `ContributorProofs`, `RoundProofs`, `FahProofs`, `AdaSparseProofs`, `HetLoraProofs`, `TransportProofs`, `SimulationProofs` | theorems | about every value of the constants |
| `MCFedCourse`, `MCAsyncCourse`, `MCFahCourse`, `MCZmqTransport`, `MCDeployment`, `MCAdaSparse`, `MCHetLora`, `MCSimulation` | the values of the constants for TLC | |

In several modules an operator stands before the definition it is a slip of (it says so): the
mistake a plausible edit would make. No action uses them. Putting one in the place of
its definition must make the property it is paired with fail (`mutants` in `PROJECT.json`).

**The course.** `state`, `joinNum`, `joinInfo`, `neighbors`, `staled`, `dropout`, `isFinish`,
`numFailure` are the attributes of those names. `fresh` is the key set of
`msg_buffer['train'][state]` and `hasRound` says whether that entry exists: aggregating reads
it without a test. `evalRound` and `evalFrom` are the largest key of `msg_buffer['eval']` and
the senders in it: the code reads no other. `idle` is the sampler's `client_state`. `pc` is
`"listening"` while `run` loops, `"done"` after it returns, and names the exception otherwise
(`sampler_error`: `np.random.choice` with too few candidates; `missing_buffer`: `KeyError` in the
aggregation). `agg`, `merged` and `restarts` are history variables: no action reads them to
decide anything.

A message is its type and its round. Model parameters, metrics and join-in information are
those of the message's round and sender; no property depends on more. The early stopper's
verdict at an evaluation is an arbitrary choice when patience is positive, a superset of what
the counting can answer.

**FAH-QLoRA.** `avg` and `hatAvg` are the last entries of `r_history` and `r_hat_history`, `rates`
and `losses` say whether `R_history` and `fah_global_loss_history` have one, `current`, `assigned`
and `config` are `current_ranks` (with `current_hat_ranks`), `fah_client_ranks` and
`fah_round_config_local`, `stats` is `fah_stats_buffer`. Losses and times are data: the sign of the
gradient is an arbitrary choice where it is defined, and so is the order of the workers by
their time per rank unit, which bandwidth changes every round. A worker sends its statistics
and then its update in one handler, so `Train` appends both. The model covers the synchronous
mode, which is the only one FAH-QLoRA is configured for, and integer steps of the average rank
(1 in every configuration).

**Transport.** A message is its number and whether its receiver can decode it. `request`,
`reply` and `owed` are the REQ/REP pair: a request on its way, the reply on its way back, and
the worker whose request the REP socket has read and not answered (a REP socket that owes a
reply reads nothing). `inHand` is the envelope the loop holds; the manager's own loop
acknowledges first and decodes after, the control plane's loop queues the envelope first
(`relayQueue`) and leaves decoding to the manager's thread. `recvQueue` and `inbox` are the two
`_recv_queue`s, `frames` what a SUB socket holds, `decoded` the message its thread has decoded and not
queued yet, `lastSize` `_last_recv_payload_size`. A send whose acknowledgement times out raises: the worker is
`"failed"`, and its request stays on its way. `DirectNext` is the manager without the
control plane; `Next` adds the relay's two steps. The queues keep the order of each
worker's messages; which worker's is read first is left open.

**Deployment.** `devices` is `ControlPlaneService.devices` with the containers recorded per device.
`launch` follows the main program: it waits for the manifest's devices, starts containers, builds
the server. A start is published (`PublishStart`) and then recorded (`RecordStart`), under two locks in the code,
so that the agent may run the container in between (`RunContainer`; `ordered` is what is on its way to an agent); or it
fails before it is published (`StartFails`), and the main program, which ignores the result, goes on without that worker.
An agent may restart at any time until a container of its device runs; from then on it is one of the wires of the
transport, and a restart that drops messages is not modelled. Two external parts are modelled as the code in `src/` uses them: the device
agents (C++, not in the repository) advertise once per start and start a container whenever they
are told to, and `SubscribesFirst` says that an agent is subscribed before it advertises. What is
proved and checked about lost container starts rests on that assumption, which is why it is a constant.

**AdaSparse.** A component is one rank position of one layer. The server's record (`known`)
and a worker's `survivors` are sets of components; a component's row is its rank among those of its
layer (`Position`), since the code sorts them. A worker's tensors have the same number of rows for
ever, and a download fills the first ones of each layer it names; which components the rows hold
(`loaded`) is all the model keeps of a tensor. An uploaded or withheld row is the set of the
components whose updates it holds under the name of one, so that a row under a wrong name shows. Scores are data: Stage 1
and Stage 2 choose among all outcomes that some scores have, within the counts the code computes
from `gamma`, `rank_min` and the budget.

**HetLoRA.** `record` is `hetlora_client_ranks`, `config` the ranks that
`get_active_hetero_config_local` returns, from which payloads are cut, and `rank` each worker's
`hetlora_current_rank`, which the code sets from its own configuration and its own pruning, never
from a message. `filled` and the `rows` of messages are the rows of a tensor that are not all zero:
payloads are the first rows of the server's model, uploads are cut to the worker's rank, and the
aggregation starts from zeros, so that the next model has the rows that somebody uploaded.
Whether a worker prunes depends on scores and is an arbitrary choice. `Vlm` says that the task is a
vision-language one, where `_update_hetero_ranks_config` writes the ranks into options that are not read.
Ranks start within `rank_min .. rank_max` (`HetLoraAssumption`), as in the configurations;
they may exceed `max_rank`, and then the server raises before the first round (`crashed`).

**Simulation.** `server` is a record of what the handlers change, and an operation maps it and
the queue to the set of its results, as the handlers call each other several levels deep. `time` is
`cur_timestamp`, `deadline` `deadline_for_cur_round`; `queue` is `shared_comm_queue`, `cache` the heap (the order
is that of `Message.__lt__`). Workers train for a time out of a set of their own.

## 3. Runs

| Run | Instance | Shows |
|---|---|---|
| `sync` | 3 workers, all sampled, 3 rounds, evaluation by the workers after each, early stop, join-in info | `TypeOK`; `NoSlotLost`: no worker is lost to the sampler; `FinalEvalComplete`; `ImplementsSyncRounds`: refinement of `SyncRounds`; `Terminates` |
| `async` | 4 workers, one unseen, 2 of 3 sampled updates wanted, staleness 1, 4 rounds, evaluation every second round by the server or by the workers (`MCAsyncCourse` has both), early stop | `SamplerNeverStarved`, `ContributorsSound`, `OneVotePerClient`, `NothingCountedTwice`; `NoRoundTooMany`: late updates never make one aggregation more than there are rounds; no deadlock |
| `lossy` | 2 workers, 1 sampled, 1 update wanted, broadcast after receiving, timeout with limit 2, one lost message, one dead worker, 3 rounds | `OneTaskPerClient`, `RestartsCounted`, `NeverHangs` |
| `fah` | 3 workers with caps 2, 4 and 5, all sampled, 2 warm-up and 2 adaptive rounds, ranks 1 to 5 | `TypeOK`; `RanksReady`: a round's statistics are processed before the next model is sent; `MeasuredAsAssigned`: the scheduler judges them by the ranks they were measured at; `RanksFeasible`: caps respected, average spent; `FasterGetMore`: the heuristic's promise; `ImplementsSyncRounds` |
| `direct` | 2 workers, direct ZeroMQ, 2 messages up and 2 down, one fault (undecodable message or timed-out acknowledgement) | `TypeOK`; `LockStep`: a worker waits exactly while its request or its reply is under way; `ImplementsChannels`; `EverySendReturns`; `NothingLeftBehind` |
| `relay` | 2 devices with one worker each, relay mode, 2 messages up and 1 down, one fault, one agent restart, one start that fails at the server | `StartedAreRecorded`: the registry knows every container whose start was published; `LostOnlyByRestart`; `ImplementsChannels` in relay mode; `LaunchEnds` |
| `adasparse` | 2 workers, layers `a` and `b`, ranks 2+1 and 2+2, 3 rounds, floor 2, gamma 50%, Stage 2 off and on, budgets on both links | `RankFloor`; `Agreement`: a worker trains on the survivors the server has recorded; `ExactUnlessPruned`: in rounds without pruning every row uploaded is that of the component it is named for; `NeverGrows`; `Completes` |
| `hetlora` | 3 workers with ranks 6, 4, 3 or 5, 5, 2 or 7, 3, 3 in adapters of rank 6, floor 2, pruned to 75%, with and without pruning, 6 rounds, evaluation after every second | `RanksAgree`: what is sent is sent at the rank its reader has; `NoEmptyRows`: every row sent is filled; no deadlock |
| `simulation` | 3 workers, 2 sampled, one fast, one whose training time varies, one slow; 4 rounds, both aggregators, both manners of broadcasting | `TypeOK`; `NothingInThePast`; `AggregatedInOrder`; `TurnsConserved`: as many turns are under way, buffered or to be replaced as workers were sampled at first; `EndsFinished` |
| `final_eval`, `restart_round`, `misplaced` | | counterexamples, section 4 |

The bounds. *Course*: 3 rounds are a first, a middle and a last one, with an evaluation that overlaps
the next round and one that overlaps the final one; the asynchronous run has a fourth so that
an update can be one round late, tolerated, and another two rounds late, dropped, before the
last round. Three sampled workers with a quorum of two leave one that is late at every
aggregation. When the server evaluates it stops listening in the handler of the last aggregation; when the workers do, it goes
on reading updates while it waits for their metrics, which is the case that `NoRoundTooMany` is about. Two workers, one loss and one crash are enough for every combination of a fault
with a restart. Every counter is bounded by the code itself except the losses and crashes
(`MaxLoss`, `MaxCrash`). `lossy` turns deadlock checking off: before all workers have
registered the server has no timeout, so a lost registration stops the system.

*FAH-QLoRA*: with caps 2, 4 and 5 an average of 3 meets one cap and one of 4 all of them, so that
the heuristic hands out units past a full worker and the target is cut to what is feasible;
solutions in halves (`Grain`) contain the ties of rounding. Two warm-up rounds are one that only
measures and one that registers the workers; two adaptive rounds take the average down to `r_min`.

*Transport*: `MaxUp`, `MaxDown` and `MaxFaults` bound what is sent and what goes wrong. Two messages up are two
workers competing for the REP socket, or one that sends again after its acknowledgement; two
down are the fewest whose order can be wrong. A restart needs one device that restarts
and one that does not (`MaxRestarts`), and so does a failed start (`MaxFailedStarts`). When nothing is left to send the system stops, so
neither run checks deadlock.

*AdaSparse*: layers of rank 2 and 1 make the floor of 2 bite in different layers by rounding; the
budgets are large enough for some components and too small for all; three rounds are one to
prune, one that trains on what is left and one that must not bring it back. It ends early where
a worker refuses a partial download, so deadlock is off.

*HetLoRA*: rank 6 falls to the floor in three prunings (4, 3, 2), so that six rounds have workers that
prune in different rounds, go on at the floor and are evaluated in between; the third fleet has a rank that
does not fit. The types of `AdaSparse`, `Deployment` and `HetLora` are proved (section 5) and not among the
runs' properties.

*Simulation*: four rounds let an update be staled by one round, tolerated, and by two, dropped; the
training times straddle the budget of 2, so that deadlines fall before, at and after messages, and pass with nothing
received. The simulation stops when it is over, so deadlock is off.

Fairness. *Course*: `WF` of reading each worker's channel (the real queue is one queue in order of
arrival, so every worker's turn comes), of each worker's loop (a live process handles its
next message), of leaving the loop, and of the alarm (the kernel delivers it). *Transport*: `WF` of
each thread's next step, and `SF` of the REP socket's reading each worker, because a REP socket serves its
peers in turn while it is disabled between requests. *Deployment*: the same for the threads; agents subscribe
and advertise; the main program goes on; a worker that starts sends its registration. The timeout of the
wait for devices may expire or not. *AdaSparse*: `WF` of the step that is possible, as
in the course. *HetLoRA*: none, its properties are of safety. *Simulation*: `WF` of the whole next-state relation: one thread runs one loop.
Nothing obliges a fault to happen anywhere.

## 4. Disagreements between code and documentation

* `final_eval`: the log says the final evaluation is finished, but an earlier evaluation that
  completes late ends the course.
* `restart_round`: the timeout's "re-start" of a round raises in the sampler, because the
  workers of the first attempt are still marked working.
* `misplaced`: "exact layer-specific ComponentID for all operations" does not hold in the
  round in which a worker prunes: rows are looked up by the survivors after pruning, in
  tensors laid out by those before.

`PROJECT.json` quotes the lines. More limits of the code are hazards of the list, not runs:
with deadlines and evaluation by the workers the staled updates of the last aggregation are left in
their buffer and the next deadline aggregates them again, from a buffer that does not exist; for a
vision-language task the ranks that HetLoRA's workers report are recorded and never used (with `Vlm = TRUE` in
`hetlora.cfg` TLC finds `RanksAgree` violated after one pruning); with evaluation by the workers, updates that come after the last aggregation are buffered
for a round that does not exist, and an aggregation of them ends the server with a `KeyError` (`missing_buffer`, which `async`
reaches) or, with broadcasts after receiving or a restart by the alarm, is one round too many; with partial participation FAH-QLoRA waits for statistics
that nobody sends (proved: `PartialNeverAdapts`); and after a restart by the timeout a worker whose staled
update waits may be sampled again and vote twice.

## 5. Proofs

All theorems hold for any finite set of workers, any number of rounds, any bound on faults
and every configuration the assumptions of the modules allow, unless a hypothesis is named.

**`FedCourseProofs`**: `TypeCorrect` (that `numFailure` stays within
`0 .. MaxFailure + 1` needs that a listening server has not exceeded the limit), `OneTask` (`Spec =>
[]OneTaskPerClient`) and `InductiveInvariant` (`Spec => []IInv`), from which both follow.
`OneTaskPerClient` is not inductive: a `join_in` or `join_in_info` handler starts the training whenever its
count is right, so it must be known that no worker has a task yet. `IInv` therefore adds `AskedHaveJoined` (no more
workers were asked for their information than have joined, and none unless the server asks), `WorkAfterJoining`
(a task exists only when all have joined) and `FailuresAllowed`. The proof has one lemma
per action. They rest on lemmas about what an action may do to a worker's channels
and its mark in the sampler (`Quiet`, `Sent`, `Kept`, `Handed`), and on one about
`BroadcastModelPara`: it sends a task only to workers that are idle and seen, and marks them.

**`ContributorProofs`**: `ContributorsAreSound` and `RestartsAreCounted`, for every mode and
whatever is lost. The invariant `CInv` is about dates: no model and no update carries a
round the server has not come to, and the staled updates that wait are from earlier rounds,
tolerated, and of workers that take part. So fresh and staled updates are distinct pairs,
and an aggregation has as many updates as the two counts the code adds up (`UpdatesCounted`).
`NoMoreRounds` (`[]NoRoundTooMany`) holds for either evaluation and whatever is lost, without alarms and when models are sent only at the
start of a round. Its invariant `LInv` says that before the end at most as many aggregations were made as the number of the round says, and
that after the last one every model and update under way is of a round before it (`Trained`), the newest of
which were sent for the last round. So whatever is read then is stale: it is filed with the staled updates or dropped, and
creates no buffer, without which nothing is aggregated.
It needs the dates of `CInv`, and `StartsOnce` below for the first models. With models sent in return for updates a worker gets
one of the round after the last, and its update makes the buffer.

`NothingLost` (`[]NoSlotLost`) needs no hypothesis at all. A worker that is marked as working has work because what is
sent to it is delivered and answered, and that takes two invariants. `JInv` is about joining: a worker takes one step of
it at a time (`OneStep`), the workers counted are known and run (`JoinsCounted`), and until all are counted nothing
else is spoken of (`Prelude`); so whoever is sampled is subscribed. `DInv` is about delivery: while the
course needs its workers none is told to finish (`Open`), and in each channel rounds do not decrease and
are not behind the worker's own (`Forward`), so that no model is skipped as outdated. `Served` is what every
handler does to the channels and the sampler together. `NoSlotLost` speaks of the time the server listens (`Listening`), not of
`pc = "listening"`: with evaluation by the server and models sent in return for updates, the last
handler sends a model behind the finish message, to a worker that will never read it, when the course is over and nobody samples any more.
`StartsOnce` says that the course starts once, with a model for the first cohort, and that before it nobody has work.

**`RoundProofs`**: `OneVote` and `CountedOnce`, when models are sent only at the beginning of a round
(`OncePerRound`: no alarm, nothing sent in return for an update), the configuration
of `async`. The invariant `VInv` relates tasks to buffers: a worker that has a task has nothing in
either buffer, and what was last aggregated of it is of a round before that task's. It is kept
because in this mode a step that hands out tasks empties both buffers, and the first models find them empty (`StartsOnce`).
The hypothesis is there for a reason: with the alarm a round is restarted with the staled buffer kept.
`SamplerServed` (`[]SamplerNeverStarved`) needs besides that there is no over-selection (`Replenished`). `SlotInv` keeps the
accounts: the workers marked as working, the updates in both buffers and the dropped ones are together at most
`SampleNum`. Reading an update moves one unit from the first count to one of the others, which needs `VInv` (the
worker had nothing in the buffers), and a new round samples what the others add up to. It is an inequality
because the final evaluation and lost tasks leave units behind.

`CourseIsSynchronous` (`Spec => ImplementsSyncRounds`) is the refinement, for the synchronous aggregator without losses
and crashes (`Synchronous`; unseen workers, cohorts smaller than all, join-in information, early stop and either evaluation are
included). `RInv` says that in a round the cohort is either busy or idle again with its update in the buffer, and that the two
add up to `SampleNum`. With `NoSlotLost` the abstract cohort, who is busy, is the complement of the
sampler's idle workers (`BusyAreCounted`), so each step is described by what it does to those (`StepsOfRounds`: joining
`Begins`, an update is `Returned`, metrics are `Evaluated`, all else `Stands`) before it is mapped: the first models to
`Start`, an update to `Return` or `EndRound`, the end of the course to `Finish`.

`EvaluationIsFinal` (`[]FinalEvalComplete`), if everybody is sampled and the workers evaluate (`FullCohort`), with losses, crashes and early stop.
`EInv` follows the order in the two channels of a worker (`EvalsFirst`): it is asked for an evaluation
before the next model and answers it before its next update, and the metrics under way are all of the model just
aggregated. A round ends only with the updates of all, so by then all answers to its evaluation were
read or lost, and the last round of the buffer cannot be closed by older ones. With smaller cohorts this is
false (section 4): a worker that is not sampled may answer at any time.

**`FahProofs`**: whoever takes part, `StatisticsFirst`, `CourseIsSynchronous` (`Spec => ImplementsSyncRounds`),
`MeasuredAtItsRanks` (`[]MeasuredAsAssigned`), `TypeCorrect`, `RanksAddUp` (`[]RanksFeasible`) and `FasterFirst`
(`[]FasterGetMore`). With all workers sampled `RanksInTime` (`[]RanksReady`); with fewer `PartialNeverAdapts`: no
round is ever processed and the ranks stay those of the warm-up, so the hypothesis of `RanksInTime` is needed.

The inductive invariant (`IInv`, proved by `StatisticsFirst`) has two parts. `Course` says where each worker of the
cohort is in the round under way: asked, answered, reported or returned (`Where`), and that the statistics of a round are of
its cohort, none before it begins and all of them when it is over (`Attendance`). A worker whose update was read is in
the round's statistics, because the two travel in order through one channel. `Processing` says that a round is
processed exactly when its statistics are those of all workers. The counting tests of the code (`>=` a number of workers) become
equalities of sets by the lemma `AllOf`. The refinement follows from `Course`: whose update is out is the cohort without
the buffered updates (`WhoIsOut`).

`RanksAddUp` is about the loops of the rank scheduler, for any number of workers and any caps. `SumFunction` and the states
of the loop in `Shift` are recursive functions; that these exist and satisfy their equations (`SumsExist`, `AfterExists`) is
proved first, from partial solutions for more and more workers or turns. Induction is
stated about sets and never about an operator: a set of naturals that holds 0 and with each number the next is all of them (`FromZeroUp`), since its
complement would have a least element. A turn of the loop moves one unit and keeps the ranks within
their range and the sum of ranks and rest (`LoopSound`); a cycle of N turns moves a unit for every worker that has room (`CycleMoves`), so
`AllTurns` turns hand out whatever fits under the caps (`HandsOut`), and the single cycle that
`_round_to_valid_integers` allows itself takes back what rounding added, because a rounded rank lowered by
one is no more than the optimizer's (`OneCycleTakesBack`). What is left of a deficit there, `_redistribute_deficit_under_caps` hands
out. `FasterFirst` follows the heuristic's loop turn by turn: all ranks are at one level or one above it, the
faster ones first, or at their cap below it (`LoopClimbs`, `LevelsAreFair`).

**`TransportProofs`**: `TypeCorrect`, `InLockStep`, `ChannelsImplemented` (the refinement, direct and
relayed), `DeploymentUsesTransport` (a deployment is a behaviour of the transport, so the three hold there
too), `DeploymentTypeCorrect`, `RegistryComplete` and `OnlyRestartsLose`, the last if
agents subscribe first. The refinement maps all queues between a sender and
its reader to their concatenation: a step from one queue to the next leaves it as it is, reading
takes its head, and an undecodable message that is dropped is removed from where it is. The
lemmas about `\o`, `Append` and `Tail` are stated once and cited per action. `RegistryComplete` (`[]StartedAreRecorded`) needs that
nothing is started before all devices have registered (`StartedAfterAll`) and that the start in hand is the only one between
publication and record (`Starts`).

**`AdaSparseProofs`**: `TypeCorrect`, `SurvivorsAgree` (`[]Agreement`), `FloorHolds`, `PrunedStaysPruned`,
`UploadsAreExact` (`[]ExactUnlessPruned`) and `InductiveInvariant`. The invariant says whose turn it is (`Turn`): a worker has downloads to read of which only the
last asks for training, or its one upload is under way, or it is among the senders of the round
(`Quiet`: nothing is under way before the course, no training after it). From that follows
`Agreement`, and the floor is kept because pruning never leaves less than `rank_min`
(`PruningLeavesFloor`). `UploadsAreExact` adds that without Stage 2 each download under way is all that survives
(`Whole`): a worker then loads its survivors into the first rows of their layers, and
a component's row is its own because positions within a layer are distinct (`OwnRow`).

**`HetLoraProofs`**: `TypeCorrect`, `AccountsAgree` (`[]RanksAgree`), `RowsAreFilled` (`[]NoEmptyRows`) and
`InductiveInvariant`; the second and third for tasks that are not vision-language ones. The invariant has two
layers. `TInv` is about turns and does not mention ranks: a worker's channels show whether it has
nothing to do but evaluate, is to train, or has answered, and the last message of an answer is the update. On top of it
`Settled` says what the server knows: the record is the worker's rank unless a report of that rank is under
way before the update, and every tensor under way or received in this round is filled up to its worker's rank. When the
last update is read all others have been, so all ranks are known and all rows are there.

**`SimulationProofs`**: `TypeCorrect`, `ClockNeverPassed` (`[]NothingInThePast`), `OrderOfTime` (`[]AggregatedInOrder`)
and `InductiveInvariant`. The handlers leave the clock alone: each operation is shown to map a server and a
queue that are in order to ones that are (`InOrder`: what waits for an aggregation is of before the clock
and before the deadline, what is in the queue is not), and a step that moves the clock moves it no further
than the earliest message. That the heap has an earliest message (`EarliestIsFirst`) is the
well-foundedness of `<` on the naturals.

`TurnsAreConserved` (`[]TurnsConserved`), `BusyWorkersAnswerOnce` and `TurnsInvariant` are about whose turn it is. `TInv` adds to
the order of time that the workers who are not idle are exactly those with a turn, a model or an
update, in the queue or in the cache, one each (`Tidy`), and that the server's account of them is right
(`Accounted`): those busy, buffered, staled and dropped together are `SampleNum`. A handler is followed
through its operations with the turns that were put aside as a parameter (`Kept`): an update whose
sender becomes idle leaves the account of the busy and enters that of the buffers, an aggregation and the sampling after
it move as many back, and a deadline that passes drops as many as it replaces. Over-selection breaks
the sum, which `TurnsConserved` therefore excludes, but not the rest.

## 6. What stays with TLC

Liveness (`Terminates`, `NeverHangs`, `EverySendReturns`, `NothingLeftBehind`, `LaunchEnds`, `Completes`,
`EndsFinished`) and everything that needs `ENABLED` is beyond the proof system's reach. Every other property
of the passing runs, each invariant, action property and refinement, is stated by a theorem of section 5; those with
a hypothesis beyond the assumptions on the constants name it there.

## 7. Plan

1. `FedCourse` and its proofs (done).
2. FAH-QLoRA: `FahRanks`, `FahCourse` and their theorems (done).
3. Transport: the ZMQ sockets, receive threads and the relay, refining the channels (done).
4. Control plane: registration, container start, launch (done; shutdown is open).
5. AdaSparse v3: agreement on indices between server and worker (done).
6. The standalone simulation with deadlines (done).
7. HetLoRA: ranks that shrink, truncation and padding on both sides (done; HeteroLoRA's own client and
   ranks per module are open).
8. Early stopper: counting against a reference over all short histories; the bandwidth
   manager's advance of a round.
9. Alarms inside handlers, over-selection, server-assigned IDs.
10. Theorems: every safety property of the passing runs (done); the modules of items 8 and 9 will need theirs.

## 8. Not modelled

* Server-assigned client IDs, secret sharing, vertical FL and online aggregation: no
  configuration of the repository uses them.
* An alarm in the middle of a handler: each handler would be split at every statement that
  changes state. It is a hazard of the list without a property.
* Simulated timestamps in a distributed course: nothing orders the messages by them, and the
  server's assertion about them is listed as a hazard.
* HeteroLoRA's own client (it reshapes its adapter to what it is sent) and ranks per module. HetLoRA
  in the asynchronous mode or with some workers sampled: no configuration of the repository asks for it.
* AdaSparse v1 and v2: they select by position within flattened tensors, and v3 is said to replace them.
* The bandwidth manager and the measurement: their numbers are data for everything modelled; how
  the size of one message is taken for another's is in `ZmqTransport` (`mixed`), with no property, since nothing
  the course decides depends on it.
* The early stopper's counting: its verdict is an arbitrary choice.
* Container stop (nothing calls it), the manifest check (it only warns), SIGINT (its handler sets a
  flag that nobody reads, so that the course neither stops nor finishes its round), and the routing table of the control plane.
* The parallel runner (it replicates the server over processes and exchanges tensors), the older
  copy of the runner loops in `FedRunner`, the organizer, launch scripts, analysis and the archived `legacy` tree.
* Trainers, models, data loading, averages of tensors, metrics and plotting: numeric, with
  no interaction.
