----------------------------- MODULE FedNetwork -----------------------------
(***************************************************************************)
(* What the server and the workers of an FL course share: the messages in *)
(* flight and the processes that may receive them.                         *)
(*                                                                         *)
(* The comm managers (gRPC, ZMQ, the standalone queue) give one ordered    *)
(* channel per worker in each direction.  The managers that send over a    *)
(* network log a failed send and go on, so a message may also disappear;   *)
(* the ZMQ worker has a strict request/acknowledge send, so it either      *)
(* delivers or dies.  A message is its type and its round (Message.state): *)
(* the parameters it carries are those of that round.                      *)
(***************************************************************************)
EXTENDS Integers, Sequences, FiniteSets

CONSTANTS
  Clients,      \* the workers of the course
  TotalRounds,  \* cfg.federate.total_round_num
  MaxLoss,      \* bound: messages that may be lost in one behaviour
  MaxCrash      \* bound: workers that may die in one behaviour

ASSUME NetworkAssumption ==
  /\ IsFiniteSet(Clients)
  /\ Clients # {}
  /\ TotalRounds \in Nat \ {0}
  /\ MaxLoss \in Nat
  /\ MaxCrash \in Nat

VARIABLES
  toClient,   \* per worker, the messages the server sent and it has not read
  toServer,   \* per worker, the messages it sent and the server has not read
  proc,       \* per worker: "off" until launched, "up", "stopped", "dead"
  faults      \* how many losses and crashes have happened

netVars == <<toClient, toServer, proc, faults>>

Rounds == 0 .. TotalRounds + 1

DownMsg ==
  [type : {"model_para", "evaluate", "ask_for_join_in_info", "converged", "finish"},
   round : Rounds]

UpMsg ==
  [type : {"join_in", "join_in_info", "model_para", "metrics"}, round : Rounds]

NetTypeOK ==
  /\ toClient \in [Clients -> Seq(DownMsg)]
  /\ toServer \in [Clients -> Seq(UpMsg)]
  /\ proc \in [Clients -> {"off", "up", "stopped", "dead"}]
  /\ faults \in [loss : 0 .. MaxLoss, crash : 0 .. MaxCrash]

NetInit ==
  /\ toClient = [c \in Clients |-> <<>>]
  /\ toServer = [c \in Clients |-> <<>>]
  /\ proc = [c \in Clients |-> "off"]
  /\ faults = [loss |-> 0, crash |-> 0]

Msg(type, round) == [type |-> type, round |-> round]

\* The channels after message m was sent to the workers in S: a worker that is
\* not running is not subscribed, and what is published to it is gone.
Deliver(inbox, S, m) ==
  [c \in Clients |->
     IF c \in S /\ proc[c] = "up" THEN Append(inbox[c], m) ELSE inbox[c]]

\* The next message the server would read from worker c is of this type.
Arrived(c, type) == toServer[c] # <<>> /\ Head(toServer[c]).type = type

Consume(c) == [toServer EXCEPT ![c] = Tail(@)]

-----------------------------------------------------------------------------
(* Faults.  The whole-system module decides whether they are possible by   *)
(* the two bounds.                                                         *)

\* A broadcast to worker c that its sender logged and swallowed, or that was
\* published before the worker's subscription was complete.
LoseDown(c) ==
  /\ faults.loss < MaxLoss
  /\ toClient[c] # <<>>
  /\ toClient' = [toClient EXCEPT ![c] = Tail(@)]
  /\ faults' = [faults EXCEPT !.loss = @ + 1]
  /\ UNCHANGED <<toServer, proc>>

\* A message of worker c whose send failed and was only logged.
LoseUp(c) ==
  /\ faults.loss < MaxLoss
  /\ toServer[c] # <<>>
  /\ toServer' = Consume(c)
  /\ faults' = [faults EXCEPT !.loss = @ + 1]
  /\ UNCHANGED <<toClient, proc>>

\* A worker dies for good (compose files say restart: "no"), with what it had
\* received; what it had already sent stays in the server's queue.
Crash(c) ==
  /\ faults.crash < MaxCrash
  /\ proc[c] = "up"
  /\ proc' = [proc EXCEPT ![c] = "dead"]
  /\ toClient' = [toClient EXCEPT ![c] = <<>>]
  /\ faults' = [faults EXCEPT !.crash = @ + 1]
  /\ UNCHANGED toServer
=============================================================================
