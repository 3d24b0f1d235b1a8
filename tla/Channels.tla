------------------------------- MODULE Channels -------------------------------
(***************************************************************************)
(* What the transport of an FL course promises to the server and to its    *)
(* workers, without sockets and threads: one ordered channel per worker in *)
(* each direction, in which nothing is duplicated, reordered or made up.   *)
(* Lost are only messages that their receiver cannot decode, and what is   *)
(* published to a worker that does not listen or that dies.                *)
(***************************************************************************)
EXTENDS Integers, Sequences

CONSTANTS
  Workers,
  Messages   \* what can be sent; .ok says whether its receiver can decode it

VARIABLES
  toServer,   \* per worker, what it sent and the server has not read
  toClient,   \* per worker, what was published to it and it has not read
  listening   \* the workers that receive what is published

vars == <<toServer, toClient, listening>>

Init ==
  /\ toServer = [c \in Workers |-> <<>>]
  /\ toClient = [c \in Workers |-> <<>>]
  /\ listening = {}

Without(s, i) == SubSeq(s, 1, i - 1) \o SubSeq(s, i + 1, Len(s))

Listen(c) ==
  /\ listening' = listening \cup {c}
  /\ UNCHANGED <<toServer, toClient>>

ClientSends(c) ==
  /\ \E m \in Messages : toServer' = [toServer EXCEPT ![c] = Append(@, m)]
  /\ UNCHANGED <<toClient, listening>>

ServerReads(c) ==
  /\ toServer[c] # <<>>
  /\ toServer' = [toServer EXCEPT ![c] = Tail(@)]
  /\ UNCHANGED <<toClient, listening>>

ServerSends(S) ==
  /\ \E m \in Messages :
       toClient' = [c \in Workers |-> IF c \in S \cap listening
                                        THEN Append(toClient[c], m)
                                        ELSE toClient[c]]
  /\ UNCHANGED <<toServer, listening>>

ClientReads(c) ==
  /\ toClient[c] # <<>>
  /\ toClient' = [toClient EXCEPT ![c] = Tail(@)]
  /\ UNCHANGED <<toServer, listening>>

\* An undecodable message is lost, wherever it is.
LosesUp(c) ==
  /\ \E i \in DOMAIN toServer[c] :
       /\ ~toServer[c][i].ok
       /\ toServer' = [toServer EXCEPT ![c] = Without(@, i)]
  /\ UNCHANGED <<toClient, listening>>

LosesDown(c) ==
  /\ \E i \in DOMAIN toClient[c] :
       /\ ~toClient[c][i].ok
       /\ toClient' = [toClient EXCEPT ![c] = Without(@, i)]
  /\ UNCHANGED <<toServer, listening>>

\* A worker dies with all that was sent to it; what it sent itself may remain.
Dies(c) ==
  /\ toClient' = [toClient EXCEPT ![c] = <<>>]
  /\ listening' = listening \ {c}
  /\ UNCHANGED toServer

Next ==
  \/ \E c \in Workers : \/ Listen(c) \/ Dies(c)
                        \/ ClientSends(c) \/ ClientReads(c) \/ ServerReads(c)
                        \/ LosesUp(c) \/ LosesDown(c)
  \/ \E S \in SUBSET Workers : ServerSends(S)

Spec == Init /\ [][Next]_vars
=============================================================================
