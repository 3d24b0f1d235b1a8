------------------------------ MODULE FedClient ------------------------------
(***************************************************************************)
(* A worker of an FL course: Client.run and the handlers it dispatches to. *)
(* A worker handles one message at a time, so that a whole iteration of    *)
(* its loop is one action: the time it trains is the time the message it   *)
(* trains on waits in its channel.                                         *)
(***************************************************************************)
EXTENDS FedNetwork

VARIABLE
  cState      \* per worker, Client.state: the round it last worked on

cVars == <<cState>>

CTypeOK == cState \in [Clients -> -1 .. TotalRounds + 1]

CInit == cState = [c \in Clients |-> -1]

Send(c, m) == toServer' = [toServer EXCEPT ![c] = Append(@, m)]

-----------------------------------------------------------------------------
\* The worker process is launched and sends join_in.
JoinIn(c) ==
  /\ proc[c] = "off"
  /\ proc' = [proc EXCEPT ![c] = "up"]
  /\ Send(c, Msg("join_in", 0))
  /\ UNCHANGED <<toClient, cState, faults>>

\* The next message of worker c, which is running, is of this type.
Hears(c, type) ==
  /\ proc[c] = "up"
  /\ toClient[c] # <<>>
  /\ Head(toClient[c]).type = type

Read(c) == toClient' = [toClient EXCEPT ![c] = Tail(@)]

CurrentStrict(c) == cState[c] < Head(toClient[c]).round

\* The test of the loop before it dispatches: an older message is skipped.
Current(c) == cState[c] <= Head(toClient[c]).round

AnswerTwice(c, type) ==
  /\ Read(c)
  /\ cState' = [cState EXCEPT ![c] = Head(toClient[c]).round]
  /\ LET m == Msg(type, Head(toClient[c]).round)
     IN  toServer' = [toServer EXCEPT ![c] = @ \o <<m, m>>]
  /\ UNCHANGED <<proc, faults>>

\* A handler that works on the round of its message and answers with that round.
Answer(c, type) ==
  /\ Read(c)
  /\ IF Current(c)
       THEN /\ cState' = [cState EXCEPT ![c] = Head(toClient[c]).round]
            /\ Send(c, Msg(type, Head(toClient[c]).round))
       ELSE UNCHANGED <<cState, toServer>>
  /\ UNCHANGED <<proc, faults>>

\* callback_funcs_for_model_para: train on the model received and upload.
Train(c) == Hears(c, "model_para") /\ Answer(c, "model_para")

\* callback_funcs_for_evaluate: evaluate the model received and send metrics.
Evaluate(c) == Hears(c, "evaluate") /\ Answer(c, "metrics")

\* callback_funcs_for_join_in_info: answer the server's request.
AnswerJoinInInfo(c) ==
  /\ Hears(c, "ask_for_join_in_info")
  /\ Read(c)
  /\ IF Current(c) THEN Send(c, Msg("join_in_info", 0)) ELSE UNCHANGED toServer
  /\ UNCHANGED <<cState, proc, faults>>

\* callback_funcs_for_converged records it in the monitor only.
Converged(c) ==
  /\ Hears(c, "converged")
  /\ Read(c)
  /\ UNCHANGED <<toServer, cState, proc, faults>>

\* A finish message ends the loop, whether or not its handler is run; what is
\* left in the worker's channel is never read.
Finish(c) ==
  /\ Hears(c, "finish")
  /\ toClient' = [toClient EXCEPT ![c] = <<>>]
  /\ proc' = [proc EXCEPT ![c] = "stopped"]
  /\ UNCHANGED <<toServer, cState, faults>>

ClientStep(c) ==
  \/ JoinIn(c)
  \/ Train(c)
  \/ Evaluate(c)
  \/ AnswerJoinInInfo(c)
  \/ Converged(c)
  \/ Finish(c)
=============================================================================
