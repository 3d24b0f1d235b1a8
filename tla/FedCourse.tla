------------------------------ MODULE FedCourse ------------------------------
(***************************************************************************)
(* An FL course: the server, its workers and the channels between them.    *)
(***************************************************************************)
EXTENDS FedServer, FedClient

vars == <<netVars, sVars, cVars>>

Init == NetInit /\ SInit /\ CInit

Reads(c) == ReadFrom(c) /\ UNCHANGED <<cVars, proc, faults>>

Exits == ExitLoop /\ UNCHANGED <<cVars, proc, faults>>

Alarm == TimeUp /\ UNCHANGED <<cVars, proc, faults>>

Client(c) == ClientStep(c) /\ UNCHANGED sVars

\* What the environment may do to a worker that the server is waiting for.
Fault(c) ==
  /\ LoseDown(c) \/ LoseUp(c) \/ Crash(c)
  /\ UNCHANGED <<sVars, cVars>>

\* The server process has ended; nothing is left that must happen.
Ended == pc # "listening" /\ UNCHANGED vars

Next ==
  \/ \E c \in Clients : Reads(c) \/ Client(c) \/ Fault(c)
  \/ Exits
  \/ Alarm
  \/ Ended

Spec == Init /\ [][Next]_vars

\* The server's queue holds the messages of all workers in the order of their
\* arrival, so it comes to every worker's; its alarm does go off; a worker that
\* runs reads, trains and answers.  Nothing obliges the environment to a fault.
Fairness ==
  /\ \A c \in Clients : WF_vars(Reads(c)) /\ WF_vars(Client(c))
  /\ WF_vars(Exits)
  /\ WF_vars(Alarm)

FairSpec == Spec /\ Fairness

-----------------------------------------------------------------------------
\* Every variable of the course has its type: rounds stay within the course, only
\* workers are in the buffers, and nothing else ends the server.
TypeOK == NetTypeOK /\ STypeOK /\ CTypeOK

\* The training tasks of worker c that are under way: models it has not trained
\* on yet, and updates the server has not read yet.
Models(c)  == {i \in DOMAIN toClient[c] : toClient[c][i].type = "model_para"}
Updates(c) == {i \in DOMAIN toServer[c] : toServer[c][i].type = "model_para"}
Busy(c)    == Models(c) # {} \/ Updates(c) # {}

\* A worker is never given a model while it still works on another: it has one
\* task at a time, the sampler knows that it is busy, and one that is unseen has
\* none.
OneTaskPerClient ==
  \A c \in Clients :
    /\ \A i, j \in Models(c)  : i = j
    /\ \A i, j \in Updates(c) : i = j
    /\ Models(c) = {} \/ Updates(c) = {}
    /\ Busy(c) => c \notin idle \cup Unseen

\* Conversely no worker is lost to the sampler: as long as the server listens and
\* nothing was lost, one that is marked working has a task under way.
NoSlotLost ==
  (Listening /\ faults = [loss |-> 0, crash |-> 0])
    => \A c \in Clients : c \notin idle => Busy(c)

\* Every round asks the sampler for no more workers than are idle.
SamplerNeverStarved == pc # "sampler_error"

\* A round's aggregation has enough updates, none of an unseen worker, none from
\* the future and none older than tolerated.
ContributorsSound ==
  agg.round \in 0 .. TotalRounds - 1 =>
    /\ Cardinality(agg.from) >= MinReceived
    /\ \A u \in agg.from : /\ u[2] \notin Unseen
                           /\ u[1] <= agg.round
                           /\ u[1] >= agg.round - Staleness

\* No worker votes twice in one aggregation.
OneVotePerClient == \A u, v \in agg.from : u[2] = v[2] => u = v

\* No update that was aggregated, or waits to be, is still to arrive.
NothingCountedTwice ==
  \A c \in Clients : \A i \in Updates(c) :
    <<toServer[c][i].round, c>> \notin agg.from \cup staled

\* A course that was not stopped early ends with the evaluation of its last
\* model by every worker.
FinalEvalComplete ==
  pc = "done" /\ ~merged.stop =>
    merged.round = TotalRounds - 1 /\ merged.from = neighbors

\* The server never aggregates once more than there are rounds: not even when the
\* updates that the last aggregation did not wait for arrive while the workers
\* evaluate, where they may be as many as an aggregation needs.
NoRoundTooMany == agg.count <= TotalRounds

\* Every restart of the round under way is among the failures counted, so that no
\* round is restarted more often than allowed.
RestartsCounted == Listening => restarts <= numFailure

\* The course ends and every worker is told.
Terminates == <>(pc = "done" /\ \A c \in Clients : proc[c] = "stopped")

\* A synchronous course is a sequence of cohorts that all return.
Started == IF JoinInfo THEN joinInfo = Clients ELSE AllJoined

Abstract == INSTANCE SyncRounds WITH
  Workers <- Clients \ Unseen,
  round   <- state,
  pending <- IF state > TotalRounds THEN {} ELSE {c \in Clients : Busy(c)},
  phase   <- IF state > TotalRounds THEN "over"
             ELSE IF state = TotalRounds THEN "evaluating"
             ELSE IF Started THEN "training" ELSE "joining"

ImplementsSyncRounds == Abstract!Spec

\* Once all have joined, the server does not listen for ever, whatever is lost and
\* whoever dies.
NeverHangs == (AllJoined /\ pc = "listening") ~> (pc # "listening")
=============================================================================
