------------------------------ MODULE Deployment ------------------------------
(***************************************************************************)
(* A deployment in relay mode: device agents register with the control     *)
(* plane, the server's main program waits for all devices of its manifest, *)
(* has their agents start the workers and only then builds the FL server.  *)
(* Advertisements and relayed FL messages share one REP socket, container  *)
(* starts and relayed broadcasts one PUB socket.                           *)
(*                                                                         *)
(* The agents (C++, not in the repository) are modelled as the code uses   *)
(* them: they advertise once per start, and start a container whenever     *)
(* they are told to.  An agent may restart until a container of its device *)
(* runs; from then on it is part of the wires of the transport.            *)
(***************************************************************************)
EXTENDS ZmqTransport

CONSTANTS
  Devices,         \* the devices of the manifest
  DeviceOf,        \* manifest: the device of each worker's container
  MaxRestarts,     \* bound: device agents that restart, each once
  MaxFailedStarts, \* bound: container starts that fail at the server
  SubscribesFirst  \* an agent is subscribed before it advertises

ASSUME DeploymentAssumption ==
  /\ DeviceOf \in [Workers -> Devices]
  /\ Devices \cap (Workers \cup {None}) = {}
  /\ MaxRestarts \in Nat /\ MaxFailedStarts \in Nat
  /\ SubscribesFirst \in BOOLEAN

VARIABLES
  agent,      \* per device, its agent: "off", "advertising" (its request is on its
              \* way to the REP socket) or "registered"
  agentSubs,  \* the devices whose agent is subscribed to the PUB socket
  devices,    \* ControlPlaneService.devices: the containers recorded per device
  launch,     \* main: "waiting", "starting", "serving" or "exited"
  started,    \* the workers for which CONTAINER_START was published
  failed,     \* the workers for which it could not be published
  recording,  \* the one published, but not recorded in devices, or None
  ordered,    \* the starts on their way to an agent that listens
  running,    \* the workers whose container runs
  restarted   \* the devices whose agent was restarted

agentVars  == <<agent, agentSubs, restarted>>
startVars  == <<started, failed, recording>>
workerVars == <<ordered, running>>
ctrlVars   == <<agentVars, devices, launch, startVars, workerVars>>
allVars    == <<vars, ctrlVars>>

Registered == DOMAIN devices

DTypeOK ==
  /\ TypeOK
  /\ agent \in [Devices -> {"off", "advertising", "registered"}]
  /\ agentSubs \in SUBSET Devices
  /\ Registered \in SUBSET Devices
  /\ \A d \in Registered : devices[d] \in SUBSET Workers
  /\ launch \in {"waiting", "starting", "serving", "exited"}
  /\ started \in SUBSET Workers /\ failed \in SUBSET (Workers \ started)
  /\ Cardinality(failed) <= MaxFailedStarts
  /\ recording \in started \cup {None}
  /\ ordered \in SUBSET started /\ running \in SUBSET started
  /\ restarted \in SUBSET Devices /\ Cardinality(restarted) <= MaxRestarts

DInit ==
  /\ Init
  /\ agent = [d \in Devices |-> "off"]
  /\ agentSubs = {}
  /\ devices = [d \in {} |-> {}]
  /\ launch = "waiting"
  /\ started = {} /\ failed = {} /\ recording = None
  /\ ordered = {} /\ running = {}
  /\ restarted = {}

-----------------------------------------------------------------------------
(* Device agents.                                                          *)

AgentSubscribe(d) ==
  /\ d \notin agentSubs
  /\ agent[d] # "off" \/ SubscribesFirst
  /\ agentSubs' = agentSubs \cup {d}
  /\ UNCHANGED <<vars, agent, restarted, devices, launch, startVars, workerVars>>

Advertise(d) ==
  /\ agent[d] = "off"
  /\ SubscribesFirst => d \in agentSubs
  /\ agent' = [agent EXCEPT ![d] = "advertising"]
  /\ UNCHANGED <<vars, agentSubs, restarted, devices, launch, startVars, workerVars>>

\* An agent that hears the start of a container on its device runs it.
RunContainer(c) ==
  /\ c \in ordered
  /\ ordered' = ordered \ {c}
  /\ running' = running \cup {c}
  /\ UNCHANGED <<vars, agentVars, devices, launch, startVars>>

\* An agent is restarted, at any time before a container of its device runs: it
\* loses the starts on their way to it, and advertises anew.
AgentRestart(d) ==
  /\ d \notin restarted /\ Cardinality(restarted) < MaxRestarts
  /\ agent[d] = "registered"
  /\ \A c \in running : DeviceOf[c] # d
  /\ restarted' = restarted \cup {d}
  /\ agent' = [agent EXCEPT ![d] = "off"]
  /\ agentSubs' = agentSubs \ {d}
  /\ ordered' = {c \in ordered : DeviceOf[c] # d}
  /\ UNCHANGED <<vars, devices, launch, startVars, running>>

-----------------------------------------------------------------------------
(* The control plane service.                                              *)

\* Mutant: a device that registers again gets a fresh entry.
HandleAdvertisementAfresh(d) ==
  /\ owed = None /\ inHand = Empty
  /\ agent[d] = "advertising"
  /\ agent' = [agent EXCEPT ![d] = "registered"]
  /\ devices' = [e \in Registered \cup {d} |-> IF e = d THEN {} ELSE devices[e]]
  /\ UNCHANGED <<vars, agentSubs, restarted, launch, startVars, workerVars>>

\* _handle_device_advertisement, with its reply: a device is registered, or its
\* entry refreshed.  The loop must not owe another reply.
HandleAdvertisement(d) ==
  /\ owed = None /\ inHand = Empty
  /\ agent[d] = "advertising"
  /\ agent' = [agent EXCEPT ![d] = "registered"]
  /\ devices' = IF d \in Registered THEN devices
                ELSE [e \in Registered \cup {d} |-> IF e = d THEN {} ELSE devices[e]]
  /\ UNCHANGED <<vars, agentSubs, restarted, launch, startVars, workerVars>>

\* The main program takes up the next container of the manifest.
StartsNext(c) ==
  /\ launch = "starting" /\ recording = None
  /\ c \notin started \cup failed

\* send_container_start, under _pub_lock: published once, whoever hears it.
PublishStart(c) ==
  /\ StartsNext(c)
  /\ started' = started \cup {c}
  /\ recording' = c
  /\ ordered' = IF DeviceOf[c] \in agentSubs THEN ordered \cup {c} ELSE ordered
  /\ UNCHANGED <<vars, agentVars, devices, launch, failed, running>>

\* send_container_start, then under _devices_lock: recorded, whoever heard it.
RecordStart ==
  /\ recording # None
  /\ LET d == DeviceOf[recording]
     IN  devices' = IF d \in Registered THEN [devices EXCEPT ![d] = @ \cup {recording}]
                    ELSE devices
  /\ recording' = None
  /\ UNCHANGED <<vars, agentVars, launch, started, failed, workerVars>>

\* send_container_start raises before the frame is out: False is returned, and the
\* main program, which does not look at it, goes on.
StartFails(c) ==
  /\ StartsNext(c)
  /\ Cardinality(failed) < MaxFailedStarts
  /\ failed' = failed \cup {c}
  /\ UNCHANGED <<vars, agentVars, devices, launch, started, recording, workerVars>>

-----------------------------------------------------------------------------
(* The server's main program.                                              *)

Manifest == {DeviceOf[c] : c \in Workers}

\* Mutants: one registered device is enough; the server waits for its workers.
DevicesReadyAny ==
  /\ launch = "waiting"
  /\ Manifest \cap Registered # {}
  /\ launch' = "starting"
  /\ UNCHANGED <<vars, agentVars, devices, startVars, workerVars>>

BuildServerWhenRunning ==
  /\ launch = "starting" /\ recording = None
  /\ running = Workers
  /\ launch' = "serving"
  /\ UNCHANGED <<vars, agentVars, devices, startVars, workerVars>>

\* wait_for_devices: all devices of the manifest have registered.
DevicesReady ==
  /\ launch = "waiting"
  /\ Manifest \subseteq Registered
  /\ launch' = "starting"
  /\ UNCHANGED <<vars, agentVars, devices, startVars, workerVars>>

\* wait_for_devices runs into its timeout: the program ends.
DevicesMissing ==
  /\ launch = "waiting"
  /\ ~(Manifest \subseteq Registered)
  /\ launch' = "exited"
  /\ UNCHANGED <<vars, agentVars, devices, startVars, workerVars>>

\* The manifest is through; the comm manager and the FL server are built.
BuildServer ==
  /\ launch = "starting" /\ recording = None
  /\ started \cup failed = Workers
  /\ launch' = "serving"
  /\ UNCHANGED <<vars, agentVars, devices, startVars, workerVars>>

-----------------------------------------------------------------------------
(* The transport, once there is somebody to use it.                        *)

Control == launch # "exited"

Transport(A) == A /\ UNCHANGED ctrlVars

Worker(c)   == c \in running /\ Transport(WorkerMain(c) \/ WorkerThread(c))
Sends(c)    == c \in running /\ Transport(Send(c))
Faulty(c)   == Transport(TimesOut(c))
RepStep(c)  == Control /\ Transport(RepLoop(c))
Decodes(c)  == launch = "serving" /\ Transport(RelayDecode(c))
Reads(c)    == launch = "serving" /\ Transport(ServerReceive(c))
Publishes   == /\ launch = "serving"
               /\ \E S \in SUBSET Workers : S # {} /\ Transport(Publish(S))

DNext ==
  \/ \E d \in Devices : \/ AgentSubscribe(d) \/ Advertise(d)
                        \/ AgentRestart(d)
                        \/ Control /\ HandleAdvertisement(d)
  \/ \E c \in Workers : \/ PublishStart(c) \/ StartFails(c) \/ RunContainer(c)
                        \/ Worker(c) \/ Sends(c) \/ Faulty(c)
                        \/ RepStep(c) \/ Decodes(c) \/ Reads(c)
  \/ DevicesReady \/ DevicesMissing \/ RecordStart \/ BuildServer
  \/ Publishes

DSpec == DInit /\ [][DNext]_allVars

\* Agents advertise and listen, threads run, the REP socket serves its peers in
\* turn, the main program goes on, and workers that start register.  The timeout
\* of wait_for_devices may expire or not.
DFairness ==
  /\ \A d \in Devices :
       /\ WF_allVars(AgentSubscribe(d)) /\ WF_allVars(Advertise(d))
       /\ SF_allVars(Control /\ HandleAdvertisement(d))
  /\ \A c \in Workers :
       /\ WF_allVars(PublishStart(c)) /\ WF_allVars(RunContainer(c))
       /\ WF_allVars(Worker(c)) /\ WF_allVars(Sends(c) /\ main[c] = "new")
       /\ SF_allVars(RepReceive(c) /\ Control /\ UNCHANGED ctrlVars)
       /\ WF_allVars(RepStep(c)) /\ WF_allVars(Decodes(c)) /\ WF_allVars(Reads(c))
  /\ WF_allVars(DevicesReady) /\ WF_allVars(RecordStart) /\ WF_allVars(BuildServer)

DFairSpec == DSpec /\ DFairness

-----------------------------------------------------------------------------
\* A start is published before it is recorded, under two locks, and an agent may run
\* the container, restart and advertise again at any time around them.  Still the
\* registry knows every container whose start was published, whether it runs or
\* not, but the one that send_container_start has in hand.
StartedAreRecorded ==
  \A c \in started \ {recording} :
    DeviceOf[c] \in Registered /\ c \in devices[DeviceOf[c]]

\* CONTAINER_START is published once and never acknowledged, yet once published it
\* is lost only on an agent that restarted after its registration.
LostOnlyByRestart ==
  \A c \in started \ (ordered \cup running) : DeviceOf[c] \in restarted

\* The launch comes to an end: the program exits, or it serves, with every worker
\* running but those whose start failed or whose agent restarted.
LaunchEnds ==
  <>[](\/ launch = "exited"
       \/ /\ launch = "serving"
          /\ \A c \in Workers : c \in running \cup failed \/ DeviceOf[c] \in restarted)
=============================================================================
