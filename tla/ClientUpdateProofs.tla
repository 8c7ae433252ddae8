------------------------- MODULE ClientUpdateProofs -------------------------
(***************************************************************************)
(* For any versions and any number of updaters, whichever process dies and *)
(* whenever: a live updater owns the state, and what counts as a success    *)
(* was confirmed, unless a handover was given up after its updater had     *)
(* been started or a version was handed over that was not newer.           *)
(***************************************************************************)
EXTENDS ClientUpdate, TLAPS

State   == [state : UpdateState, version : Version \cup {NoVersion}, pid : Updater \cup {NoPid}]
Service == [made : BOOLEAN, manifest : Version \cup {NoVersion},
            installer : Version \cup {NoVersion}]
Worker  == [at : {"none", "checking", "downloading", "asking", "handoff", "pid"},
            cached : Version \cup {NoVersion}, fresh : BOOLEAN, pid : Updater \cup {NoPid}]
Agent   == [version : Version \cup {NoVersion}, loop : {"top", "poll", "prepare"},
            leaving : BOOLEAN]
Process == [at : {"unused", "start", "wait", "install", "launch", "confirm", "rollback", "gone"},
            target : Version \cup {NoVersion}, waits : BOOLEAN]

\* The Agent is of the version that is installed, and knows what it works on.
AgentKept ==
    /\ ClientUp => client.version = installed
    /\ worker.at # "none" => ClientUp
    /\ worker.at = "downloading" => service.manifest # NoVersion
    /\ worker.at \in {"asking", "handoff"} => service.installer # NoVersion
    /\ \A u \in Updater : updater[u].at # "unused" => updater[u].target # NoVersion

Regular == ~broken /\ ~backward

\* The updater that is alive is named by the state, or has not started yet.
OwnerKept ==
    Regular => \A u \in Updater : Live(u) =>
       /\ InProgress(stateFile) /\ stateFile.version = updater[u].target
       /\ \A w \in Updater : Live(w) => w = u
       /\ stateFile.pid \in {NoPid, u}
       /\ stateFile.pid = NoPid => updater[u].at = "start"

\* Until it installs, its version is newer than the one that is there, and has not
\* confirmed a start.
TargetKept ==
    Regular => \A u \in Updater :
       /\ updater[u].at \in {"start", "wait", "install"} => updater[u].target > installed
       /\ updater[u].at \in {"wait", "install"} => marker # updater[u].target
       /\ updater[u].at \in {"launch", "confirm"} /\ marker = updater[u].target =>
             marker \in started

\* While the Agent checks, downloads or hands over, no updater is alive but the one
\* it has just started.
WorkerKept ==
    Regular =>
       /\ worker.at \in {"checking", "downloading", "handoff"} => \A u \in Updater : ~Live(u)
       /\ worker.at = "handoff" =>
             /\ stateFile = AtState("installing", service.installer, NoPid)
             /\ service.installer > client.version
       /\ worker.at = "pid" => \A u \in Updater : Live(u) => u = worker.pid

UpdateInv == UpdateTypeOK /\ AgentKept /\ OwnerKept /\ TargetKept /\ WorkerKept

-----------------------------------------------------------------------------
(* What the operators make of the state, and of the updaters *)

LEMMA Numbers ==
    /\ Version \subseteq Nat /\ Updater \subseteq Nat /\ NoVersion \notin Version
    /\ NoPid \notin Updater /\ NoVersion = 0 /\ NoPid = 0
  BY ClientUpdateAssumption DEF Version, Updater, NoVersion, NoPid

LEMMA TypedParts ==
    UpdateTypeOK <=>
      /\ stateFile \in State /\ service \in Service /\ worker \in Worker /\ client \in Agent
      /\ script \in {"none", "owned", "orphan"}
      /\ {ui, previous, marker} \subseteq Version \cup {NoVersion}
      /\ staged \subseteq Version /\ installed \in Version
      /\ updater \in [Updater -> Process]
      /\ started \subseteq Version /\ {unowned, broken, backward} \subseteq BOOLEAN
  BY DEF UpdateTypeOK, State, Service, Worker, Agent, Process

LEMMA TypedNext ==
    UpdateTypeOK' <=>
      /\ stateFile' \in State /\ service' \in Service /\ worker' \in Worker /\ client' \in Agent
      /\ script' \in {"none", "owned", "orphan"}
      /\ {ui', previous', marker'} \subseteq Version \cup {NoVersion}
      /\ staged' \subseteq Version /\ installed' \in Version
      /\ updater' \in [Updater -> Process]
      /\ started' \subseteq Version /\ {unowned', broken', backward'} \subseteq BOOLEAN
  BY DEF UpdateTypeOK, State, Service, Worker, Agent, Process

LEMMA AtStateType ==
    ASSUME NEW s \in UpdateState, NEW v \in Version \cup {NoVersion}, NEW p \in Updater \cup {NoPid}
    PROVE  /\ AtState(s, v, p) \in State
           /\ AtState(s, v, p).state = s /\ AtState(s, v, p).version = v /\ AtState(s, v, p).pid = p
  BY DEF AtState, State

\* An update in progress is what it was, and nothing else becomes one.
LEMMA RecoveredStates ==
    ASSUME stateFile \in State, staged \subseteq Version, NEW s \in Recovered
    PROVE  /\ s \in State
           /\ InProgress(stateFile) => s = stateFile
           /\ InProgress(s) => s = stateFile
           /\ s.state = "available" => s.version = stateFile.version /\ s.version > client.version
           /\ s.state \in {"verified", "waiting-for-idle"} => s = stateFile
  <1>0. "idle" \in UpdateState /\ "available" \in UpdateState
    BY DEF UpdateState
  <1>1. PICK v \in Version \cup {NoVersion} : v = stateFile.version
    BY DEF State
  <1>2. /\ AtState("idle", NoVersion, NoPid) \in State
        /\ AtState("idle", NoVersion, NoPid).state = "idle"
        /\ AtState("available", v, NoPid) \in State
        /\ AtState("available", v, NoPid).state = "available"
        /\ AtState("available", v, NoPid).version = v
    BY <1>0, AtStateType
  <1>3. CASE stateFile.state \in {"available", "downloading"}
    BY <1>1, <1>2, <1>3 DEF Recovered, InProgress
  <1>4. CASE stateFile.state \in {"verified", "waiting-for-idle"}
    BY <1>2, <1>4 DEF Recovered, InProgress
  <1>5. CASE stateFile.state \notin {"available", "downloading", "verified", "waiting-for-idle"}
    BY <1>5 DEF Recovered
  <1> QED
    BY <1>3, <1>4, <1>5

LEMMA RebuiltType ==
    ASSUME NEW s \in State
    PROVE  /\ Rebuilt(s) \in Service
           /\ Rebuilt(s).manifest # NoVersion => s.state = "available"
  BY DEF Rebuilt, Service, State

\* Updater u comes to l, and the others stay where they are.
Goes(u, l) ==
    /\ updater' \in [Updater -> Process]
    /\ updater'[u].at = l
    /\ \A w \in Updater : /\ updater'[w].target = updater[w].target
                          /\ w # u => updater'[w].at = updater[w].at

LEMMA WaitedFor ==
    ASSUME updater \in [Updater -> Process]
    PROVE  /\ NobodyWaitedFor \in [Updater -> Process]
           /\ \A w \in Updater : /\ NobodyWaitedFor[w].at = updater[w].at
                                 /\ NobodyWaitedFor[w].target = updater[w].target
  <1>1. ASSUME NEW w \in Updater
        PROVE  LET q == [updater[w] EXCEPT !.waits = FALSE] IN
             q \in Process /\ q.at = updater[w].at /\ q.target = updater[w].target
    <2> SUFFICES ASSUME NEW q \in Process, q = updater[w]
                 PROVE  LET p == [q EXCEPT !.waits = FALSE] IN
                          p \in Process /\ p.at = q.at /\ p.target = q.target
      OBVIOUS
    <2> QED
      BY DEF Process
  <1> QED
    BY <1>1 DEF NobodyWaitedFor

LEMMA AtGoes ==
    ASSUME updater \in [Updater -> Process], NEW u \in Updater,
           NEW l \in {"start", "wait", "install", "launch", "confirm", "rollback", "gone"},
           updater' = At(u, l) \/ updater' = [NobodyWaitedFor EXCEPT ![u].at = l]
    PROVE  Goes(u, l)
  <1>2. ASSUME NEW f \in [Updater -> Process], updater' = [f EXCEPT ![u].at = l],
               \A w \in Updater : f[w].at = updater[w].at /\ f[w].target = updater[w].target
        PROVE  Goes(u, l)
    <2>1. PICK q \in Process : q = f[u]
      OBVIOUS
    <2>2. [q EXCEPT !.at = l] \in Process /\ [q EXCEPT !.at = l].at = l
          /\ [q EXCEPT !.at = l].target = q.target
      BY DEF Process
    <2>3. updater' = [f EXCEPT ![u] = [q EXCEPT !.at = l]]
      BY <1>2, <2>1
    <2> QED
      BY <1>2, <2>1, <2>2, <2>3 DEF Goes
  <1> QED
    BY <1>2, WaitedFor DEF At

LEMMA NoneTypes ==
    /\ NoService \in Service /\ NoWorker \in Worker /\ NoClient \in Agent /\ NoUpdater \in Process
    /\ NoWorker.at = "none" /\ NoClient.version = NoVersion /\ NoUpdater.at = "unused"
    /\ RolledBack \in State /\ RolledBack.state = "rolled-back"
    /\ "rolled-back" \in UpdateState
  <1>1. NoVersion \in Version \cup {NoVersion} /\ NoPid \in Updater \cup {NoPid}
    OBVIOUS
  <1> QED
    BY <1>1 DEF NoService, Service, NoWorker, Worker, NoClient, Agent, NoUpdater, Process,
                RolledBack, AtState, State, UpdateState

-----------------------------------------------------------------------------
(* Types, and what the Agent knows *)

LEMMA WorkerChange ==
    ASSUME NEW q \in Worker
    PROVE  \A a \in {"none", "checking", "downloading", "asking", "handoff", "pid"} :
              [q EXCEPT !.at = a] \in Worker /\ [q EXCEPT !.at = a].at = a
  BY DEF Worker

LEMMA ClientChange ==
    ASSUME NEW q \in Agent
    PROVE  /\ \A l \in {"top", "poll", "prepare"} :
                 /\ [q EXCEPT !.loop = l] \in Agent
                 /\ [q EXCEPT !.loop = l].version = q.version
           /\ [q EXCEPT !.leaving = TRUE] \in Agent
           /\ [q EXCEPT !.leaving = TRUE].version = q.version
           /\ \A v \in Version : /\ [NoClient EXCEPT !.version = v] \in Agent
                                 /\ [NoClient EXCEPT !.version = v].version = v
  BY DEF Agent, NoClient


\* The steps of a check.
Checks ==
    CheckLeaves \/ CheckBegins \/ (\E v \in Version : CheckFinds(v)) \/ CheckEnds

LEMMA ChecksTypes ==
    ASSUME UpdateTypeOK, AgentKept, Checks PROVE UpdateTypeOK' /\ AgentKept'
  <1> USE TypedParts
  <1>0. /\ UNCHANGED <<client, script, ui, staged, previous, installed, marker, updater, started,
                       unowned, broken, backward>>
        /\ "idle" \in UpdateState /\ "available" \in UpdateState /\ "checking" \in UpdateState
    BY DEF Checks, CheckLeaves, CheckBegins, CheckFinds, CheckEnds, machine, updateHistory,
           UpdateState
  <1>1. ASSUME stateFile' \in State, service' \in Service, worker' \in Worker,
               worker'.at \in {"none", "checking"}, worker'.at # "none" => ClientUp
        PROVE  UpdateTypeOK' /\ AgentKept'
    <2>1. UpdateTypeOK'
      BY <1>0, <1>1, TypedNext
    <2> QED
      BY <1>0, <1>1, <2>1 DEF AgentKept, ClientUp
  <1>2. CASE CheckLeaves
    <2>1. PICK s \in Recovered : stateFile' = s /\ service' = Rebuilt(s)
      BY <1>2 DEF CheckLeaves
    <2>2. worker' = worker /\ worker.at = "none"
      BY <1>2 DEF CheckLeaves
    <2>3. s \in State
      BY RecoveredStates
    <2>4. service' \in Service
      BY <2>1, <2>3, RebuiltType
    <2> QED
      BY <1>1, <2>1, <2>2, <2>3, <2>4
  <1>3. CASE CheckBegins
    <2>1. PICK s \in Recovered :
             /\ stateFile' = AtState("checking", NoVersion, NoPid)
             /\ worker' = [NoWorker EXCEPT !.at = "checking", !.cached = Rebuilt(s).manifest]
      BY <1>3 DEF CheckBegins
    <2>2. PICK q \in Service : q = Rebuilt(s)
      BY RecoveredStates, RebuiltType
    <2>3. PICK v \in Version \cup {NoVersion} : v = q.manifest
      BY DEF Service
    <2>4. worker' = [NoWorker EXCEPT !.at = "checking", !.cached = v]
      BY <2>1, <2>2, <2>3
    <2>5. worker' \in Worker /\ worker'.at = "checking"
      BY <2>4 DEF NoWorker, Worker
    <2>6. stateFile' \in State
      BY <1>0, <2>1, AtStateType
    <2>7. service' = service /\ ClientUp
      BY <1>3 DEF CheckBegins
    <2> QED
      BY <1>1, <2>5, <2>6, <2>7
  <1>4. CASE (\E v \in Version : CheckFinds(v)) \/ CheckEnds
    <2>1. worker' = NoWorker
      BY <1>4 DEF CheckFinds, CheckEnds
    <2>2. PICK c \in Version \cup {NoVersion} : c = worker.cached
      BY DEF Worker
    <2>3. PICK v \in Version \cup {NoVersion} :
             service' = [made |-> TRUE, manifest |-> v, installer |-> NoVersion]
      BY <1>4, <2>2 DEF CheckFinds, CheckEnds
    <2>4. service' \in Service
      BY <2>3 DEF Service
    <2>5. stateFile' \in State
      <3>1. \A w \in Version \cup {NoVersion} : AtState("available", w, NoPid) \in State
        BY <1>0, AtStateType
      <3>2. AtState("idle", NoVersion, NoPid) \in State
        BY <1>0, AtStateType
      <3> QED
        BY <1>4, <2>2, <3>1, <3>2 DEF CheckFinds, CheckEnds
    <2> QED
      BY <1>1, <2>1, <2>4, <2>5, NoneTypes
  <1> QED
    BY <1>2, <1>3, <1>4 DEF Checks

LEMMA GivesUpTypes ==
    ASSUME service \in Service, GivesUp
    PROVE  service' \in Service /\ worker' = NoWorker /\ worker' \in Worker /\ worker'.at = "none"
  BY NoneTypes DEF GivesUp

\* The steps of an installation.
Installation ==
    InstallAsked \/ Downloaded \/ DownloadFails \/ InstallWaits \/ InstallBegins \/ InstallRefused
    \/ HandoffFails \/ PidRecorded \/ PidFails

LEMMA InstallationTypes ==
    ASSUME UpdateTypeOK, AgentKept, Installation PROVE UpdateTypeOK' /\ AgentKept'
  <1> USE TypedParts
  <1>0. /\ UNCHANGED <<script, ui, previous, installed, marker, updater, started, unowned>>
        /\ staged' = staged \/ staged' = staged \cup {service.manifest}
        /\ {broken', backward'} \subseteq BOOLEAN
        /\ {"downloading", "verified", "available", "waiting-for-idle", "installing"}
             \subseteq UpdateState
        /\ service.manifest \in Version \cup {NoVersion}
        /\ service.installer \in Version \cup {NoVersion}
    BY DEF Installation, InstallAsked, Downloaded, DownloadFails, InstallWaits, InstallBegins,
           InstallRefused, HandoffFails, PidRecorded, PidFails, machine, updateHistory,
           UpdateState, Service
  <1>1. ASSUME stateFile' \in State, service' \in Service, worker' \in Worker, client' \in Agent,
               client'.version = client.version, staged' \subseteq Version,
               worker'.at # "none" => ClientUp,
               worker'.at = "downloading" => service'.manifest # NoVersion,
               worker'.at \in {"asking", "handoff"} => service'.installer # NoVersion
        PROVE  UpdateTypeOK' /\ AgentKept'
    <2>1. UpdateTypeOK'
      BY <1>0, <1>1, TypedNext
    <2> QED
      BY <1>0, <1>1, <2>1 DEF AgentKept, ClientUp
  <1>2. CASE InstallAsked
    <2>1. PICK s \in IF service.made THEN {stateFile} ELSE Recovered :
             LET used == IF service.made THEN service ELSE Rebuilt(s)
                 download == used.manifest # NoVersion /\ used.installer = NoVersion
                 at == CASE download /\ s.state = "available" -> "downloading"
                         [] used.installer # NoVersion -> "asking"
                         [] OTHER -> "none"
             IN /\ stateFile' = IF at = "downloading"
                                THEN AtState("downloading", used.manifest, NoPid) ELSE s
                /\ worker' = [NoWorker EXCEPT !.at = at, !.fresh = at # "none" /\ ~service.made]
                /\ service' = IF at = "none" THEN service ELSE used
      BY <1>2 DEF InstallAsked
    <2>2. s \in State
      BY <2>1, RecoveredStates
    <2>3. PICK used \in Service : used = IF service.made THEN service ELSE Rebuilt(s)
      BY <2>2, RebuiltType
    <2>4. PICK at \in {"none", "downloading", "asking"} :
             /\ at = CASE used.manifest # NoVersion /\ used.installer = NoVersion
                            /\ s.state = "available" -> "downloading"
                       [] used.installer # NoVersion -> "asking"
                       [] OTHER -> "none"
             /\ stateFile' = IF at = "downloading"
                             THEN AtState("downloading", used.manifest, NoPid) ELSE s
             /\ worker' = [NoWorker EXCEPT !.at = at, !.fresh = at # "none" /\ ~service.made]
             /\ service' = IF at = "none" THEN service ELSE used
      BY <2>1, <2>3
    <2>5. worker' \in Worker /\ worker'.at = at
      <3>1. PICK fresh \in BOOLEAN : worker' = [NoWorker EXCEPT !.at = at, !.fresh = fresh]
        BY <2>4
      <3> QED
        BY <3>1 DEF NoWorker, Worker
    <2>6. stateFile' \in State
      <3>1. used.manifest \in Version \cup {NoVersion}
        BY DEF Service
      <3>2. AtState("downloading", used.manifest, NoPid) \in State
        BY <1>0, <3>1, AtStateType
      <3> QED
        BY <2>2, <2>4, <3>2
    <2>7. /\ at = "downloading" => used.manifest # NoVersion
          /\ at = "asking" => used.installer # NoVersion
      BY <2>4
    <2>8. ClientUp /\ client' = client /\ staged' = staged
      BY <1>2 DEF InstallAsked, machine
    <2> QED
      BY <1>1, <2>4, <2>5, <2>6, <2>7, <2>8
  <1>3. CASE Downloaded
    <2>1. service.manifest \in Version /\ ClientUp
      BY <1>0, <1>3 DEF AgentKept, Downloaded
    <2>2. PICK v \in Version : v = service.manifest
      BY <2>1
    <2>3. service' = [service EXCEPT !.installer = v] /\ stateFile' = AtState("verified", v, NoPid)
          /\ worker' = [worker EXCEPT !.at = "asking"] /\ client' = client
          /\ staged' = staged \cup {v}
      BY <1>3, <2>2 DEF Downloaded
    <2>4. service' \in Service /\ service'.installer = v
      BY <2>3 DEF Service
    <2>5. worker' \in Worker /\ worker'.at = "asking"
      BY <2>3, WorkerChange
    <2>6. stateFile' \in State
      BY <1>0, <2>3, AtStateType
    <2> QED
      BY <1>1, <2>1, <2>3, <2>4, <2>5, <2>6, Numbers
  <1>4. CASE DownloadFails
    <2>1. stateFile' = AtState("available", service.manifest, NoPid) /\ GivesUp
          /\ client' = client /\ staged' = staged
      BY <1>4 DEF DownloadFails, machine
    <2> QED
      BY <1>0, <1>1, <2>1, GivesUpTypes, AtStateType
  <1>5. CASE InstallWaits
    <2>1. /\ stateFile' = AtState("waiting-for-idle", service.installer, NoPid)
          /\ worker' = NoWorker /\ UNCHANGED <<service, client, staged>>
      BY <1>5 DEF InstallWaits, machine
    <2> QED
      BY <1>0, <1>1, <2>1, NoneTypes, AtStateType
  <1>6. CASE InstallBegins
    <2>1. /\ stateFile' = AtState("installing", service.installer, NoPid)
          /\ worker' = [worker EXCEPT !.at = "handoff"] /\ UNCHANGED <<service, client, staged>>
          /\ worker.at = "asking"
      BY <1>6 DEF InstallBegins, machine
    <2>2. worker' \in Worker /\ worker'.at = "handoff"
      BY <2>1, WorkerChange
    <2>3. stateFile' \in State
      BY <1>0, <2>1, AtStateType
    <2>4. service.installer # NoVersion /\ ClientUp
      BY <2>1 DEF AgentKept
    <2> QED
      BY <1>1, <2>1, <2>2, <2>3, <2>4
  <1>7. CASE InstallRefused \/ HandoffFails \/ PidFails
    <2>1. /\ stateFile' \in {stateFile, RolledBack} /\ GivesUp /\ UNCHANGED <<client, staged>>
      BY <1>7 DEF InstallRefused, HandoffFails, PidFails, machine
    <2> QED
      BY <1>1, <2>1, NoneTypes, GivesUpTypes
  <1>8. CASE PidRecorded
    <2>1. PICK p \in Updater \cup {NoPid}, q \in State, c \in Agent :
             p = worker.pid /\ q = stateFile /\ c = client
      BY DEF Worker
    <2>2. /\ stateFile' = [q EXCEPT !.pid = p] /\ client' = [c EXCEPT !.leaving = TRUE]
          /\ worker' = NoWorker /\ UNCHANGED <<service, staged>>
      BY <1>8, <2>1 DEF PidRecorded, machine
    <2>3. stateFile' \in State
      BY <2>2 DEF State
    <2>4. client' \in Agent /\ client'.version = client.version
      BY <2>1, <2>2, ClientChange
    <2> QED
      BY <1>1, <2>2, <2>3, <2>4, NoneTypes
  <1> QED
    BY <1>2, <1>3, <1>4, <1>5, <1>6, <1>7, <1>8 DEF Installation

\* The updater that a handover starts.
LEMMA HandoffTypes ==
    ASSUME UpdateTypeOK, AgentKept, NEW u \in Updater, Handoff(u)
    PROVE  /\ UpdateTypeOK' /\ AgentKept'
           /\ updater'[u].at = "start" /\ updater'[u].target = service.installer
           /\ \A w \in Updater \ {u} : updater'[w] = updater[w]
           /\ worker'.at = "pid" /\ worker'.pid = u
           /\ UNCHANGED <<stateFile, service, client, installed, marker, started, broken, backward>>
  <1> USE TypedParts
  <1>0. /\ UNCHANGED <<stateFile, service, client, script, ui, staged, previous, installed, marker,
                       started, unowned, broken, backward>>
        /\ worker.at = "handoff"
    BY DEF Handoff, machine, updateHistory
  <1>1. PICK q \in Worker : q = worker
    OBVIOUS
  <1>2. worker' = [q EXCEPT !.at = "pid", !.pid = u]
    BY <1>1 DEF Handoff
  <1>3. worker' \in Worker /\ worker'.at = "pid" /\ worker'.pid = u
    BY <1>2 DEF Worker
  <1>4. PICK v \in Version : v = service.installer
    BY <1>0 DEF AgentKept, Service
  <1>5. updater' = [updater EXCEPT ![u] = [at |-> "start", target |-> v, waits |-> TRUE]]
    BY <1>4 DEF Handoff
  <1>6. [at |-> "start", target |-> v, waits |-> TRUE] \in Process
    BY DEF Process
  <1>7. /\ updater' \in [Updater -> Process]
        /\ updater'[u].at = "start" /\ updater'[u].target = v
        /\ \A w \in Updater \ {u} : updater'[w] = updater[w]
    BY <1>5, <1>6
  <1>8. UpdateTypeOK'
    BY <1>0, <1>3, <1>7, TypedNext
  <1>9. AgentKept'
    BY <1>0, <1>3, <1>4, <1>7, Numbers DEF AgentKept, ClientUp
  <1> QED
    BY <1>0, <1>3, <1>4, <1>7, <1>8, <1>9

\* The Agent goes, and with it what it worked on.
LEMMA GoneTypes ==
    ASSUME UpdateTypeOK, ClientGone
    PROVE  /\ client' \in Agent /\ service' \in Service /\ worker' \in Worker
           /\ script' \in {"none", "owned", "orphan"} /\ unowned' \in BOOLEAN
           /\ client'.version = NoVersion /\ worker'.at = "none"
  BY TypedParts, NoneTypes DEF ClientGone

LEMMA LoopTypes ==
    ASSUME UpdateTypeOK, AgentKept, Loop
    PROVE  /\ UpdateTypeOK' /\ AgentKept'
           /\ UNCHANGED <<stateFile, marker, installed, started, broken, backward>>
           /\ \/ UNCHANGED <<service, worker>> /\ client'.version = client.version
              \/ worker'.at = "none"
           /\ \A w \in Updater : /\ updater'[w].at = updater[w].at
                                 /\ updater'[w].target = updater[w].target
  <1> USE TypedParts
  <1>0. UNCHANGED <<stateFile, ui, staged, previous, marker, installed, started, broken, backward>>
    BY DEF Loop, Iterates, Claims, Starts, StartsNothing, ScriptIsOver, ClientLeaves, machine,
           updateHistory
  <1>1. CASE Iterates \/ Claims \/ Starts \/ StartsNothing \/ ScriptIsOver
    <2>1. UNCHANGED <<service, worker, updater, unowned>>
      BY <1>1 DEF Iterates, Claims, Starts, StartsNothing, ScriptIsOver, updateHistory
    <2>2. script' \in {"none", "owned", "orphan"}
      BY <1>1 DEF Iterates, Claims, Starts, StartsNothing, ScriptIsOver
    <2>3. client' \in Agent /\ client'.version = client.version
      BY <1>1, ClientChange DEF Iterates, Claims, Starts, StartsNothing, ScriptIsOver
    <2>4. UpdateTypeOK'
      BY <1>0, <2>1, <2>2, <2>3, TypedNext
    <2>5. AgentKept'
      BY <1>0, <2>1, <2>3 DEF AgentKept, ClientUp
    <2> QED
      BY <1>0, <2>1, <2>3, <2>4, <2>5
  <1>2. CASE ClientLeaves
    <2>1. ClientGone /\ updater' = NobodyWaitedFor
      BY <1>2 DEF ClientLeaves
    <2>2. UpdateTypeOK'
      BY <1>0, <2>1, GoneTypes, WaitedFor, TypedNext
    <2>3. AgentKept'
      BY <1>0, <2>1, GoneTypes, WaitedFor DEF AgentKept, ClientUp
    <2> QED
      BY <1>0, <2>1, <2>2, <2>3, GoneTypes, WaitedFor
  <1> QED
    BY <1>1, <1>2 DEF Loop

LEMMA UiTypes ==
    ASSUME UpdateTypeOK, AgentKept, Ui
    PROVE  /\ UpdateTypeOK' /\ AgentKept'
           /\ UNCHANGED <<stateFile, updater, broken, backward>>
           /\ \/ /\ UNCHANGED <<service, worker, installed>>
                 /\ ClientUp => client' = client
                 /\ \/ UNCHANGED <<marker, started>>
                    \/ marker' = installed /\ started' = started \cup {installed}
              \/ worker'.at = "none" /\ marker' = marker /\ \A u \in Updater : ~Live(u)
  <1> USE TypedParts
  <1>1. CASE UiStarts
    <2>1. UNCHANGED <<stateFile, service, worker, client, script, staged, previous, installed,
                      marker, updater, started, unowned, broken, backward>> /\ ui' = installed
      BY <1>1 DEF UiStarts, clientState, updateHistory
    <2>2. UpdateTypeOK'
      BY <2>1, TypedNext
    <2> QED
      BY <2>1, <2>2 DEF AgentKept, ClientUp
  <1>2. CASE ClientIsStarted
    <2>1. UNCHANGED <<stateFile, service, worker, script, ui, staged, previous, installed,
                      marker, updater, started, unowned, broken, backward>>
      BY <1>2 DEF ClientIsStarted, machine, updateHistory
    <2>2. client' \in Agent /\ client'.version = installed
      BY <1>2, NoneTypes, ClientChange DEF ClientIsStarted
    <2>3. UpdateTypeOK'
      BY <2>1, <2>2, TypedNext
    <2>4. AgentKept'
      BY <2>1, <2>2, Numbers DEF AgentKept, ClientUp
    <2> QED
      BY <1>2, <2>1, <2>3, <2>4 DEF ClientIsStarted
  <1>3. CASE ConfirmsStart
    <2>1. /\ UNCHANGED <<stateFile, service, worker, client, script, ui, staged, previous,
                         installed, updater, unowned, broken, backward>>
          /\ marker' = ui /\ started' = started \cup {ui} /\ client.version = ui /\ ClientUp
      BY <1>3 DEF ConfirmsStart, clientState, ClientUp
    <2>2. ui = installed
      BY <2>1 DEF AgentKept
    <2>3. UpdateTypeOK'
      BY <2>1, <2>2, TypedNext
    <2> QED
      BY <2>1, <2>2, <2>3 DEF AgentKept, ClientUp
  <1>4. ASSUME NEW v \in Version, InstalledByHand(v)
        PROVE  /\ UpdateTypeOK' /\ AgentKept'
               /\ UNCHANGED <<stateFile, updater, broken, backward, marker>>
               /\ worker'.at = "none" /\ \A u \in Updater : ~Live(u)
    <2>1. /\ UNCHANGED <<stateFile, staged, previous, marker, updater, broken, backward>>
          /\ ClientGone /\ installed' = v /\ ui' = NoVersion /\ started' = started \ {v}
          /\ \A u \in Updater : ~Live(u)
      BY <1>4 DEF InstalledByHand
    <2>2. UpdateTypeOK'
      BY <2>1, GoneTypes, TypedNext
    <2>3. AgentKept'
      BY <2>1, GoneTypes DEF AgentKept, ClientUp
    <2> QED
      BY <2>1, <2>2, <2>3, GoneTypes
  <1> QED
    BY <1>1, <1>2, <1>3, <1>4 DEF Ui

\* What an updater does to the state when it ends.
LEMMA EndsAtTypes ==
    ASSUME UpdateTypeOK, NEW u \in Updater, NEW s \in State, EndsAt(u, s)
    PROVE  stateFile' \in State /\ Goes(u, "gone")
  BY TypedParts, AtGoes, NoneTypes DEF EndsAt

\* The steps of an updater that leave the Agent and what is installed alone, ...
Watches(u) ==
    \/ UpdaterStarts(u) \/ ClientHasGone(u) \/ ClientStays(u) \/ Launches(u)
    \/ StartSeen(u) \/ StartNotSeen(u) \/ RollbackFails(u) \/ UpdaterDies(u)

\* ... and those in which an installer runs.
Replaces(u) == Installs(u) \/ InstallerFails(u) \/ RollsBack(u)

LEMMA WatchesTypes ==
    ASSUME UpdateTypeOK, AgentKept, NEW u \in Updater, Watches(u)
    PROVE  /\ UpdateTypeOK' /\ AgentKept'
           /\ UNCHANGED <<service, worker, client, installed, started, broken, backward>>
           /\ Live(u)
           /\ \/ UpdaterStarts(u) /\ Goes(u, "wait")
              \/ /\ marker' = marker
                 /\ \/ Goes(u, "gone")
                    \/ /\ stateFile' = stateFile
                       /\ \/ ClientHasGone(u) /\ Goes(u, "install")
                          \/ Launches(u) /\ Goes(u, "confirm")
                          \/ updater[u].at # "start" /\ Goes(u, "rollback")
  <1> USE TypedParts
  <1>0. UNCHANGED <<service, worker, client, script, staged, installed, started, unowned, broken,
                    backward>>
    BY DEF Watches, UpdaterStarts, ClientHasGone, ClientStays, Launches, StartSeen, StartNotSeen,
           RollbackFails, UpdaterDies, clientState, machine, updateHistory
  <1>1. updater[u].at \notin {"unused", "gone"}
    BY DEF Watches, UpdaterStarts, ClientHasGone, ClientStays, Launches, StartSeen, StartNotSeen,
           RollbackFails, UpdaterDies, Live
  <1>2. ASSUME NEW l, Goes(u, l), stateFile' \in State,
               {ui', previous', marker'} \subseteq Version \cup {NoVersion}
        PROVE  UpdateTypeOK' /\ AgentKept'
    <2>1. UpdateTypeOK'
      BY <1>0, <1>2, TypedNext DEF Goes
    <2>2. \A w \in Updater : updater'[w].at # "unused" => updater[w].at # "unused"
      BY <1>1, <1>2 DEF Goes
    <2> QED
      BY <1>0, <1>2, <2>1, <2>2 DEF AgentKept, ClientUp, Goes
  <1>3. CASE UpdaterStarts(u)
    <2>1. PICK q \in State : q = stateFile
      OBVIOUS
    <2>2. stateFile' = [q EXCEPT !.pid = u] /\ marker' = NoVersion /\ ui' = ui
          /\ previous' = previous /\ updater' = At(u, "wait")
      BY <1>3, <2>1 DEF UpdaterStarts
    <2>3. stateFile' \in State
      BY <2>2 DEF State
    <2>4. Goes(u, "wait")
      BY <2>2, AtGoes
    <2> QED
      BY <1>0, <1>1, <1>2, <1>3, <2>2, <2>3, <2>4 DEF Live
  <1>4. CASE ClientHasGone(u) \/ StartNotSeen(u) \/ UpdaterDies(u)
    <2>1. UNCHANGED <<stateFile, ui, previous, marker>>
      BY <1>4 DEF ClientHasGone, StartNotSeen, UpdaterDies, machine
    <2>2. \/ ClientHasGone(u) /\ Goes(u, "install")
          \/ Goes(u, "gone")
          \/ updater[u].at # "start" /\ Goes(u, "rollback")
      BY <1>4, AtGoes DEF ClientHasGone, StartNotSeen, UpdaterDies
    <2> QED
      BY <1>0, <1>1, <1>2, <2>1, <2>2 DEF Live
  <1>5. CASE Launches(u)
    <2>1. /\ UNCHANGED <<stateFile, previous, marker>> /\ ui' \in {ui, installed}
          /\ updater' = At(u, "confirm")
      BY <1>5 DEF Launches
    <2>2. Goes(u, "confirm")
      BY <2>1, AtGoes
    <2> QED
      BY <1>0, <1>1, <1>2, <1>5, <2>1, <2>2 DEF Live
  <1>6. CASE ClientStays(u) \/ StartSeen(u) \/ RollbackFails(u)
    <2>1. PICK s \in State : EndsAt(u, s)
      <3>1. PICK v \in Version \cup {NoVersion} : v = updater[u].target
        BY DEF Process
      <3>2. AtState("succeeded", v, NoPid) \in State
        BY AtStateType DEF UpdateState
      <3> QED
        BY <1>6, <3>1, <3>2, NoneTypes DEF ClientStays, StartSeen, RollbackFails
    <2>2. stateFile' \in State /\ Goes(u, "gone")
      BY <2>1, EndsAtTypes
    <2>3. ui' = ui /\ marker' = marker /\ previous' \in Version \cup {NoVersion}
      BY <1>6 DEF ClientStays, StartSeen, RollbackFails, machine, Process
    <2> QED
      BY <1>0, <1>1, <1>2, <2>2, <2>3 DEF Live
  <1> QED
    BY <1>3, <1>4, <1>5, <1>6 DEF Watches

LEMMA ReplacesTypes ==
    ASSUME UpdateTypeOK, AgentKept, NEW u \in Updater, Replaces(u)
    PROVE  /\ UpdateTypeOK' /\ AgentKept'
           /\ UNCHANGED <<marker, broken, backward>> /\ worker'.at = "none" /\ Live(u)
           /\ updater[u].at \in {"install", "rollback"}
           /\ \/ /\ Goes(u, "launch") /\ updater[u].at = "install"
                 /\ stateFile' = AtState("verifying-startup", updater[u].target, u)
                 /\ started' = started \ {updater[u].target}
              \/ Goes(u, "rollback") /\ stateFile' = stateFile
              \/ Goes(u, "gone")
  <1> USE TypedParts
  <1>1. PICK v \in Version : v = updater[u].target
    <2>1. updater[u].at # "unused"
      BY DEF Replaces, Installs, InstallerFails, RollsBack
    <2> QED
      BY <2>1, Numbers DEF AgentKept, Process
  <1>2. /\ ClientGone /\ UNCHANGED <<staged, previous, marker, broken, backward>>
        /\ updater[u].at \in {"install", "rollback"}
    BY DEF Replaces, Installs, InstallerFails, RollsBack, Closes
  <1>3. /\ installed' \in Version /\ started' \subseteq Version
        /\ ui' \in Version \cup {NoVersion}
    <2>1. CASE Installs(u) \/ InstallerFails(u)
      BY <1>1, <2>1 DEF Installs, InstallerFails, Closes
    <2>2. CASE RollsBack(u)
      BY <2>2 DEF RollsBack
    <2> QED
      BY <2>1, <2>2 DEF Replaces
  <1>4. /\ stateFile' \in State
        /\ \/ /\ Goes(u, "launch") /\ updater[u].at = "install"
              /\ stateFile' = AtState("verifying-startup", v, u)
              /\ started' = started \ {v}
           \/ Goes(u, "rollback") /\ stateFile' = stateFile
           \/ Goes(u, "gone")
    <2>1. CASE Installs(u)
      <3>1. AtState("verifying-startup", v, u) \in State
        BY AtStateType DEF UpdateState
      <3>2. \/ /\ stateFile' = AtState("verifying-startup", v, u)
               /\ updater' = [NobodyWaitedFor EXCEPT ![u].at = "launch"]
            \/ /\ stateFile' \in {RolledBack, stateFile}
               /\ updater' = [NobodyWaitedFor EXCEPT ![u].at = "gone"]
        BY <1>1, <2>1 DEF Installs
      <3>3. updater[u].at = "install" /\ started' = started \ {v}
        BY <1>1, <2>1 DEF Installs
      <3> QED
        BY <3>1, <3>2, <3>3, AtGoes, NoneTypes
    <2>2. CASE InstallerFails(u)
      BY <2>2, AtGoes DEF InstallerFails
    <2>3. CASE RollsBack(u)
      BY <2>3, AtGoes, NoneTypes DEF RollsBack
    <2> QED
      BY <2>1, <2>2, <2>3 DEF Replaces
  <1>5. updater' \in [Updater -> Process]
        /\ \A w \in Updater : /\ updater'[w].target = updater[w].target
                              /\ updater'[w].at # "unused" => updater[w].at # "unused"
    BY <1>2, <1>4 DEF Goes
  <1>6. UpdateTypeOK'
    BY <1>2, <1>3, <1>4, <1>5, GoneTypes, TypedNext
  <1>7. AgentKept'
    BY <1>2, <1>5, GoneTypes DEF AgentKept, ClientUp
  <1> QED
    BY <1>1, <1>2, <1>4, <1>6, <1>7, GoneTypes DEF Live

-----------------------------------------------------------------------------
(* The owner of the state *)

Owned == OwnerKept /\ TargetKept /\ WorkerKept

NoneLive == \A u \in Updater : ~Live(u)

LEMMA VersionNumbers ==
    ASSUME UpdateTypeOK
    PROVE  /\ stateFile.version \in Nat /\ service.installer \in Nat /\ client.version \in Nat
           /\ installed \in Nat /\ \A u \in Updater : updater[u].target \in Nat
  <1>1. \A v \in Version \cup {NoVersion} : v \in Nat
    BY Numbers
  <1>2. /\ stateFile.version \in Version \cup {NoVersion}
        /\ service.installer \in Version \cup {NoVersion}
        /\ client.version \in Version \cup {NoVersion}
        /\ installed \in Version \cup {NoVersion}
        /\ \A u \in Updater : updater[u].target \in Version \cup {NoVersion}
    BY TypedParts DEF State, Service, Agent, Process
  <1> QED
    BY <1>1, <1>2

LEMMA ChecksOwned == ASSUME UpdateInv, Checks PROVE Owned'
  <1> USE DEF UpdateInv
  <1>0. UNCHANGED <<client, updater, installed, marker, started, broken, backward>>
    BY DEF Checks, CheckLeaves, CheckBegins, CheckFinds, CheckEnds, machine, updateHistory
  <1>1. ASSUME Regular, NoneLive \/ stateFile' = stateFile,
               worker'.at = "none" \/ (worker'.at = "checking" /\ NoneLive)
        PROVE  Owned'
    <2>1. \A u \in Updater : Live(u)' <=> Live(u)
      BY <1>0 DEF Live
    <2>2. OwnerKept'
      BY <1>0, <1>1, <2>1 DEF OwnerKept, NoneLive, Regular
    <2>3. TargetKept'
      BY <1>0 DEF TargetKept, Regular
    <2>4. WorkerKept'
      BY <1>1, <2>1 DEF WorkerKept, NoneLive
    <2> QED
      BY <2>2, <2>3, <2>4 DEF Owned
  <1>2. CASE ~Regular
    BY <1>0, <1>2 DEF Owned, OwnerKept, TargetKept, WorkerKept, Regular
  <1>3. CASE Regular /\ CheckLeaves
    <2>1. PICK s \in Recovered : stateFile' = s /\ worker' = worker /\ worker.at = "none"
      BY <1>3 DEF CheckLeaves
    <2>2. NoneLive \/ s = stateFile
      BY <1>3, TypedParts, RecoveredStates DEF OwnerKept, NoneLive
    <2> QED
      BY <1>1, <1>3, <2>1, <2>2
  <1>4. CASE Regular /\ CheckBegins
    <2>1. PICK s \in Recovered : InProgress(s) => Stale(s)
      BY <1>4 DEF CheckBegins
    <2>2. worker'.at = "checking" /\ ClientUp
      BY <1>4 DEF CheckBegins, NoWorker
    <2>3. ASSUME NEW u \in Updater, Live(u) PROVE FALSE
      <3>1. InProgress(stateFile) /\ stateFile.version = updater[u].target
            /\ stateFile.pid \in {NoPid, u} /\ (stateFile.pid = NoPid => updater[u].at = "start")
        BY <1>4, <2>3 DEF OwnerKept
      <3>2. Stale(stateFile)
        BY <2>1, <3>1, TypedParts, RecoveredStates
      <3>3. CASE stateFile.pid = u
        BY <2>3, <3>2, <3>3, Numbers DEF Stale
      <3>4. CASE stateFile.pid = NoPid
        <4>1. stateFile.version < client.version /\ client.version = installed
          BY <2>2, <3>2, <3>4 DEF Stale, AgentKept
        <4>2. stateFile.version > installed
          BY <1>4, <3>1, <3>4 DEF TargetKept
        <4>3. stateFile.version \in Nat /\ installed \in Nat
          BY VersionNumbers
        <4> QED
          BY <4>1, <4>2, <4>3
      <3> QED
        BY <3>1, <3>3, <3>4
    <2> QED
      BY <1>1, <1>4, <2>2, <2>3 DEF NoneLive
  <1>5. CASE Regular /\ ((\E v \in Version : CheckFinds(v)) \/ CheckEnds)
    <2>1. worker' = NoWorker /\ worker.at = "checking"
      BY <1>5 DEF CheckFinds, CheckEnds
    <2> QED
      BY <1>1, <1>5, <2>1, NoneTypes DEF WorkerKept, NoneLive
  <1> QED
    BY <1>2, <1>3, <1>4, <1>5 DEF Checks

LEMMA InstallationOwned == ASSUME UpdateInv, Installation PROVE Owned'
  <1> USE DEF UpdateInv
  <1>0. /\ UNCHANGED <<updater, installed, marker, started>>
        /\ broken => broken'
        /\ backward => backward'
    <2>1. CASE InstallBegins
      <3>1. backward' = (backward \/ service.installer <= client.version)
            /\ UNCHANGED <<updater, installed, marker, started, broken>>
        BY <2>1 DEF InstallBegins, machine
      <3> QED
        BY <3>1, Zenon
    <2>2. CASE PidFails
      BY <2>2 DEF PidFails, machine
    <2>3. CASE \/ InstallAsked \/ Downloaded \/ DownloadFails \/ InstallWaits \/ InstallRefused
               \/ HandoffFails \/ PidRecorded
      <3>1. UNCHANGED <<updater, installed, marker, started, broken, backward>>
        BY <2>3 DEF InstallAsked, Downloaded, DownloadFails, InstallWaits, InstallRefused,
                    HandoffFails, PidRecorded, machine, updateHistory
      <3> QED
        BY <3>1, Zenon
    <2> QED
      BY <2>1, <2>2, <2>3 DEF Installation
  <1>1. ASSUME Regular, NoneLive \/ stateFile' = stateFile,
               worker'.at \in {"none", "asking"} \/ (worker'.at = "downloading" /\ NoneLive)
        PROVE  Owned'
    <2>1. \A u \in Updater : Live(u)' <=> Live(u)
      BY <1>0 DEF Live
    <2>2. OwnerKept'
      BY <1>0, <1>1, <2>1 DEF OwnerKept, NoneLive, Regular
    <2>3. TargetKept'
      BY <1>0, <1>1 DEF TargetKept, Regular
    <2>4. WorkerKept'
      BY <1>1, <2>1 DEF WorkerKept, NoneLive
    <2> QED
      BY <2>2, <2>3, <2>4 DEF Owned
  <1>2. CASE ~Regular
    BY <1>0, <1>2 DEF Owned, OwnerKept, TargetKept, WorkerKept, Regular
  <1>3. CASE Regular /\ InstallAsked
    <2>1. PICK s \in IF service.made THEN {stateFile} ELSE Recovered,
               at \in {"none", "downloading", "asking"}, fresh \in BOOLEAN :
             /\ at # "downloading" => stateFile' = s
             /\ at = "downloading" => s.state = "available"
             /\ worker' = [NoWorker EXCEPT !.at = at, !.fresh = fresh]
      BY <1>3 DEF InstallAsked
    <2>2. worker'.at = at
      BY <2>1 DEF NoWorker
    <2>3. NoneLive \/ s = stateFile
      BY <1>3, <2>1, TypedParts, RecoveredStates DEF OwnerKept, NoneLive
    <2>4. at = "downloading" => NoneLive
      BY <1>3, <2>1, <2>3 DEF OwnerKept, NoneLive, InProgress
    <2> QED
      BY <1>1, <1>3, <2>1, <2>2, <2>3, <2>4
  <1>4. CASE Regular /\ (Downloaded \/ DownloadFails)
    <2>1. NoneLive
      BY <1>4 DEF Downloaded, DownloadFails, WorkerKept, NoneLive
    <2>2. PICK q \in Worker : q = worker
      BY TypedParts
    <2>3. worker' = [q EXCEPT !.at = "asking"] \/ worker' = NoWorker
      BY <1>4, <2>2 DEF Downloaded, DownloadFails, GivesUp
    <2>4. worker'.at \in {"none", "asking"}
      BY <2>3, NoneTypes DEF Worker
    <2> QED
      BY <1>1, <1>4, <2>1, <2>4
  <1>5. CASE Regular /\ InstallWaits
    <2>1. NoneLive
      BY <1>5 DEF InstallWaits, OwnerKept, NoneLive, InProgress
    <2>2. worker' = NoWorker
      BY <1>5 DEF InstallWaits
    <2> QED
      BY <1>1, <1>5, <2>1, <2>2, NoneTypes
  <1>6. CASE Regular /\ InstallBegins
    <2>1. NoneLive
      BY <1>6 DEF InstallBegins, OwnerKept, NoneLive, InProgress
    <2>2. /\ stateFile' = AtState("installing", service.installer, NoPid)
          /\ worker' = [worker EXCEPT !.at = "handoff"] /\ UNCHANGED <<service, client>>
          /\ backward' = (backward \/ service.installer <= client.version)
      BY <1>6 DEF InstallBegins
    <2>3. worker'.at = "handoff"
      BY <2>2, TypedParts, WorkerChange
    <2>4. \A u \in Updater : ~Live(u)'
      BY <1>0, <2>1 DEF Live, NoneLive
    <2>5. Regular' => service.installer > client.version
      <3>1. service.installer \in Nat /\ client.version \in Nat
        BY VersionNumbers
      <3>2. service.installer <= client.version => backward'
        BY <2>2, Zenon
      <3> QED
        BY <3>1, <3>2 DEF Regular
    <2> QED
      BY <1>0, <1>6, <2>2, <2>3, <2>4, <2>5 DEF Owned, OwnerKept, TargetKept, WorkerKept, AtState
  <1>7. CASE Regular /\ InstallRefused
    <2>1. stateFile' = stateFile /\ worker' = NoWorker
      BY <1>7 DEF InstallRefused, GivesUp
    <2> QED
      BY <1>1, <1>7, <2>1, NoneTypes
  <1>8. CASE Regular /\ HandoffFails
    <2>1. NoneLive /\ worker' = NoWorker
      BY <1>8 DEF HandoffFails, GivesUp, WorkerKept, NoneLive
    <2> QED
      BY <1>1, <1>8, <2>1, NoneTypes
  <1>9. CASE Regular /\ PidRecorded
    <2>1. PICK q \in State, w \in Worker : q = stateFile /\ w = worker
      BY TypedParts
    <2>2. PICK p \in Updater \cup {NoPid} : p = w.pid
      BY DEF Worker
    <2>3. stateFile' = [q EXCEPT !.pid = p] /\ worker' = NoWorker
      BY <1>9, <2>1, <2>2 DEF PidRecorded
    <2>4. stateFile'.state = q.state /\ stateFile'.version = q.version /\ stateFile'.pid = p
      BY <2>3 DEF State
    <2>5. \A u \in Updater : Live(u) => p = u
      BY <1>9, <2>1, <2>2 DEF WorkerKept, PidRecorded
    <2>6. \A u \in Updater : Live(u)' <=> Live(u)
      BY <1>0 DEF Live
    <2>7. OwnerKept'
      BY <1>0, <1>9, <2>1, <2>4, <2>5, <2>6, Numbers DEF OwnerKept, InProgress
    <2>8. TargetKept' /\ WorkerKept'
      BY <1>0, <1>9, <2>3, NoneTypes DEF TargetKept, WorkerKept
    <2> QED
      BY <2>7, <2>8 DEF Owned
  <1>10. CASE PidFails
    BY <1>10 DEF PidFails, Owned, OwnerKept, TargetKept, WorkerKept, Regular
  <1> QED
    BY <1>2, <1>3, <1>4, <1>5, <1>6, <1>7, <1>8, <1>9, <1>10 DEF Installation

LEMMA HandoffOwned == ASSUME UpdateInv, NEW u \in Updater, Handoff(u) PROVE Owned'
  <1> USE DEF UpdateInv
  <1>1. /\ updater'[u].at = "start" /\ updater'[u].target = service.installer
        /\ \A w \in Updater \ {u} : updater'[w] = updater[w]
        /\ worker'.at = "pid" /\ worker'.pid = u
        /\ UNCHANGED <<stateFile, service, client, installed, marker, started, broken, backward>>
    BY HandoffTypes
  <1>2. CASE ~Regular
    BY <1>1, <1>2 DEF Owned, OwnerKept, TargetKept, WorkerKept, Regular
  <1>3. CASE Regular
    <2>1. worker.at = "handoff"
      BY DEF Handoff
    <2>2. /\ NoneLive /\ stateFile = AtState("installing", service.installer, NoPid)
          /\ service.installer > installed
      BY <1>3, <2>1 DEF WorkerKept, NoneLive, AgentKept
    <2>3. \A w \in Updater : Live(w)' => w = u
      BY <1>1, <2>2 DEF Live, NoneLive
    <2>4. OwnerKept'
      BY <1>1, <2>2, <2>3 DEF OwnerKept, InProgress, AtState
    <2>5. TargetKept'
      BY <1>1, <1>3, <2>2 DEF TargetKept
    <2>6. WorkerKept'
      BY <1>1, <2>3 DEF WorkerKept
    <2> QED
      BY <2>4, <2>5, <2>6 DEF Owned
  <1> QED
    BY <1>2, <1>3

LEMMA LoopOwned == ASSUME UpdateInv, Loop PROVE Owned'
  <1>1. /\ UNCHANGED <<stateFile, marker, installed, started, broken, backward>>
        /\ \/ UNCHANGED <<service, worker>> /\ client'.version = client.version
           \/ worker'.at = "none"
        /\ \A w \in Updater : /\ updater'[w].at = updater[w].at
                              /\ updater'[w].target = updater[w].target
    BY LoopTypes DEF UpdateInv
  <1>2. \A w \in Updater : Live(w)' <=> Live(w)
    BY <1>1 DEF Live
  <1>3. OwnerKept' /\ TargetKept'
    BY <1>1, <1>2 DEF UpdateInv, OwnerKept, TargetKept, Regular
  <1>4. WorkerKept'
    BY <1>1, <1>2 DEF UpdateInv, WorkerKept, Regular
  <1> QED
    BY <1>3, <1>4 DEF Owned

LEMMA UiOwned == ASSUME UpdateInv, Ui PROVE Owned'
  <1> USE DEF UpdateInv
  <1>1. /\ UNCHANGED <<stateFile, updater, broken, backward>>
        /\ \/ /\ UNCHANGED <<service, worker, installed>>
              /\ ClientUp => client' = client
              /\ \/ UNCHANGED <<marker, started>>
                 \/ marker' = installed /\ started' = started \cup {installed}
           \/ worker'.at = "none" /\ marker' = marker /\ \A u \in Updater : ~Live(u)
    BY UiTypes
  <1>2. \A w \in Updater : Live(w)' <=> Live(w)
    BY <1>1 DEF Live
  <1>3. OwnerKept'
    BY <1>1, <1>2 DEF OwnerKept, Regular
  <1>4. TargetKept'
    <2>1. CASE NoneLive
      BY <1>1, <2>1 DEF TargetKept, NoneLive, Live
    <2>2. CASE UNCHANGED <<installed, marker, started>>
      BY <1>1, <2>2 DEF TargetKept, Regular
    <2>3. CASE /\ installed' = installed
               /\ marker' = installed /\ started' = started \cup {installed}
      <3>1. \A u \in Updater : updater[u].target \in Nat
        BY VersionNumbers
      <3>2. installed \in Nat
        BY VersionNumbers
      <3> QED
        BY <1>1, <2>3, <3>1, <3>2 DEF TargetKept, Regular
    <2> QED
      BY <1>1, <2>1, <2>2, <2>3 DEF NoneLive
  <1>5. WorkerKept'
    <2>1. CASE worker'.at = "none"
      BY <2>1 DEF WorkerKept
    <2>2. CASE worker'.at # "none"
      <3>1. UNCHANGED <<service, worker, client>>
        BY <1>1, <2>2 DEF AgentKept
      <3> QED
        BY <1>1, <1>2, <3>1 DEF WorkerKept, Regular
    <2> QED
      BY <2>1, <2>2
  <1> QED
    BY <1>3, <1>4, <1>5 DEF Owned

LEMMA WatchesOwned == ASSUME UpdateInv, NEW u \in Updater, Watches(u) PROVE Owned'
  <1> USE DEF UpdateInv
  <1>1. /\ UNCHANGED <<service, worker, client, installed, started, broken, backward>>
        /\ Live(u)
        /\ \/ UpdaterStarts(u) /\ Goes(u, "wait")
           \/ /\ marker' = marker
              /\ \/ Goes(u, "gone")
                 \/ /\ stateFile' = stateFile
                    /\ \/ ClientHasGone(u) /\ Goes(u, "install")
                       \/ Launches(u) /\ Goes(u, "confirm")
                       \/ updater[u].at # "start" /\ Goes(u, "rollback")
    BY WatchesTypes
  <1>2. CASE ~Regular
    BY <1>1, <1>2 DEF Owned, OwnerKept, TargetKept, WorkerKept, Regular
  <1>3. CASE Regular
    <2>1. \A w \in Updater : Live(w) => w = u
      BY <1>1, <1>3 DEF OwnerKept
    <2>2. \A w \in Updater : Live(w)' => w = u
      <3>1. ASSUME NEW w \in Updater, w # u PROVE ~Live(w)'
        <4>1. updater'[w].at = updater[w].at
          BY <1>1, <3>1 DEF Goes
        <4> QED
          BY <2>1, <3>1, <4>1 DEF Live
      <3> QED
        BY <3>1
    <2>3. WorkerKept'
      <3>1. worker.at \notin {"checking", "downloading", "handoff"}
        BY <1>1, <1>3 DEF WorkerKept
      <3> QED
        BY <1>1, <1>3, <2>2, <3>1 DEF WorkerKept
    <2>4. CASE UpdaterStarts(u) /\ Goes(u, "wait")
      <3>1. PICK q \in State : q = stateFile
        BY TypedParts
      <3>2. stateFile' = [q EXCEPT !.pid = u] /\ marker' = NoVersion /\ updater[u].at = "start"
        BY <2>4, <3>1 DEF UpdaterStarts
      <3>3. stateFile'.state = q.state /\ stateFile'.version = q.version /\ stateFile'.pid = u
        BY <3>2 DEF State
      <3>4. OwnerKept'
        BY <1>1, <1>3, <2>2, <2>4, <3>1, <3>3, Numbers DEF OwnerKept, InProgress, Goes
      <3>5. TargetKept'
        <4>1. updater[u].target > installed /\ updater[u].target # NoVersion
          BY <1>3, <3>2 DEF TargetKept, AgentKept
        <4>2. \A w \in Updater : w # u => updater'[w].at \in {"unused", "gone"}
          BY <2>1, <2>4 DEF Goes, Live
        <4> QED
          BY <1>1, <2>4, <3>2, <4>1, <4>2 DEF TargetKept, Goes
      <3> QED
        BY <2>3, <3>4, <3>5 DEF Owned
    <2>5. CASE marker' = marker /\ Goes(u, "gone")
      <3>1. \A w \in Updater : updater'[w].at \in {"unused", "gone"}
        BY <2>1, <2>5 DEF Goes, Live
      <3> QED
        BY <2>3, <3>1 DEF Owned, OwnerKept, TargetKept, Live
    <2>6. CASE /\ marker' = marker /\ stateFile' = stateFile
               /\ \/ ClientHasGone(u) /\ Goes(u, "install")
                  \/ Launches(u) /\ Goes(u, "confirm")
                  \/ updater[u].at # "start" /\ Goes(u, "rollback")
      <3>1. updater[u].at # "start"
        BY <2>6 DEF ClientHasGone, Launches
      <3>2. OwnerKept'
        BY <1>1, <1>3, <2>2, <2>6, <3>1 DEF OwnerKept, Goes
      <3>3. \A w \in Updater : w # u => updater'[w].at \in {"unused", "gone"}
        BY <2>1, <2>6 DEF Goes, Live
      <3>4. /\ updater'[u].target = updater[u].target
            /\ \/ updater[u].at = "wait" /\ updater'[u].at = "install"
               \/ updater[u].at = "launch" /\ updater'[u].at = "confirm"
               \/ updater'[u].at = "rollback"
        BY <2>6 DEF Goes, ClientHasGone, Launches
      <3>5. TargetKept'
        BY <1>1, <1>3, <2>6, <3>3, <3>4 DEF TargetKept
      <3> QED
        BY <2>3, <3>2, <3>5 DEF Owned
    <2> QED
      BY <1>1, <2>4, <2>5, <2>6
  <1> QED
    BY <1>2, <1>3

LEMMA ReplacesOwned == ASSUME UpdateInv, NEW u \in Updater, Replaces(u) PROVE Owned'
  <1> USE DEF UpdateInv
  <1>1. /\ UNCHANGED <<marker, broken, backward>> /\ worker'.at = "none" /\ Live(u)
        /\ updater[u].at \in {"install", "rollback"}
        /\ \/ /\ Goes(u, "launch") /\ updater[u].at = "install"
              /\ stateFile' = AtState("verifying-startup", updater[u].target, u)
              /\ started' = started \ {updater[u].target}
           \/ Goes(u, "rollback") /\ stateFile' = stateFile
           \/ Goes(u, "gone")
    BY ReplacesTypes
  <1>2. CASE ~Regular
    BY <1>1, <1>2 DEF Owned, OwnerKept, TargetKept, WorkerKept, Regular
  <1>3. CASE Regular
    <2>1. \A w \in Updater : Live(w) => w = u
      BY <1>1, <1>3 DEF OwnerKept
    <2>2. \A w \in Updater : w # u => updater'[w].at \in {"unused", "gone"}
      BY <1>1, <2>1 DEF Goes, Live
    <2>3. \A w \in Updater : Live(w)' => w = u
      BY <2>2 DEF Live
    <2>4. WorkerKept'
      BY <1>1 DEF WorkerKept
    <2>5. updater'[u].target = updater[u].target
      BY <1>1 DEF Goes
    <2>6. OwnerKept'
      <3>1. SUFFICES ASSUME Live(u)'
                     PROVE  /\ InProgress(stateFile)' /\ stateFile'.version = updater'[u].target
                            /\ stateFile'.pid \in {NoPid, u}
                            /\ stateFile'.pid = NoPid => updater'[u].at = "start"
        BY <2>3 DEF OwnerKept
      <3>2. CASE Goes(u, "launch")
                 /\ stateFile' = AtState("verifying-startup", updater[u].target, u)
        BY <2>5, <3>2, Numbers DEF InProgress, AtState
      <3>3. CASE Goes(u, "rollback") /\ stateFile' = stateFile
        BY <1>1, <1>3, <2>5, <3>3 DEF OwnerKept, InProgress
      <3>4. CASE Goes(u, "gone")
        BY <3>1, <3>4 DEF Goes, Live
      <3> QED
        BY <1>1, <3>2, <3>3, <3>4
    <2>7. TargetKept'
      <3>1. updater'[u].at = "launch" => updater[u].at = "install"
        BY <1>1 DEF Goes
      <3>2. updater'[u].at \in {"launch", "rollback", "gone"}
        BY <1>1 DEF Goes
      <3> QED
        BY <1>1, <1>3, <2>2, <2>5, <3>1, <3>2 DEF TargetKept
    <2> QED
      BY <2>4, <2>6, <2>7 DEF Owned
  <1> QED
    BY <1>2, <1>3

-----------------------------------------------------------------------------
(* The theorems *)

LEMMA UpdateInvInit == ASSUME UpdateInit PROVE UpdateInv
  <1>1. /\ stateFile \in State /\ service \in Service /\ worker \in Worker /\ client \in Agent
        /\ updater \in [Updater -> Process] /\ 1 \in Version
    <2>1. 1 \in Version /\ "idle" \in UpdateState
      BY ClientUpdateAssumption DEF Version, UpdateState
    <2>2. stateFile \in State
      BY <2>1, AtStateType DEF UpdateInit
    <2> QED
      BY <2>1, <2>2, NoneTypes DEF UpdateInit
  <1>2. UpdateTypeOK
    BY <1>1, TypedParts DEF UpdateInit
  <1>3. worker.at = "none" /\ client.version = NoVersion /\ \A u \in Updater : updater[u].at = "unused"
    BY NoneTypes DEF UpdateInit
  <1> QED
    BY <1>2, <1>3 DEF UpdateInv, AgentKept, ClientUp, OwnerKept, TargetKept, WorkerKept, Live

LEMMA UpdateInvStep == UpdateInv /\ [UpdateNext]_updateVars => UpdateInv'
  <1>1. ASSUME UpdateInv, UpdateNext PROVE UpdateInv'
    <2>1. ASSUME Owned', UpdateTypeOK', AgentKept' PROVE UpdateInv'
      BY <2>1 DEF UpdateInv, Owned
    <2>2. CASE Checks
      BY <1>1, <2>1, <2>2, ChecksTypes, ChecksOwned DEF UpdateInv
    <2>3. CASE Installation
      BY <1>1, <2>1, <2>3, InstallationTypes, InstallationOwned DEF UpdateInv
    <2>4. ASSUME NEW u \in Updater, Handoff(u) PROVE UpdateInv'
      BY <1>1, <2>1, <2>4, HandoffTypes, HandoffOwned DEF UpdateInv
    <2>5. CASE Loop
      BY <1>1, <2>1, <2>5, LoopTypes, LoopOwned DEF UpdateInv
    <2>6. CASE Ui
      BY <1>1, <2>1, <2>6, UiTypes, UiOwned DEF UpdateInv
    <2>7. ASSUME NEW u \in Updater, Watches(u) PROVE UpdateInv'
      BY <1>1, <2>1, <2>7, WatchesTypes, WatchesOwned DEF UpdateInv
    <2>8. ASSUME NEW u \in Updater, Replaces(u) PROVE UpdateInv'
      BY <1>1, <2>1, <2>8, ReplacesTypes, ReplacesOwned DEF UpdateInv
    <2> QED
      BY <1>1, <2>2, <2>3, <2>4, <2>5, <2>6, <2>7, <2>8
         DEF UpdateNext, ChecksAndInstalls, Checks, Installation, UpdaterStep, Watches, Replaces
  <1>2. CASE UNCHANGED updateVars
    <2>1. UNCHANGED <<stateFile, service, worker, client, script, ui, staged, previous, installed,
                      marker, updater, started, unowned, broken, backward>>
      BY <1>2 DEF updateVars, clientState, machine, updateHistory
    <2>2. UpdateTypeOK' <=> UpdateTypeOK
      BY <2>1, TypedParts, TypedNext
    <2> QED
      BY <2>1, <2>2 DEF UpdateInv, AgentKept, ClientUp, OwnerKept, TargetKept, WorkerKept, Live,
                        Regular, InProgress
  <1> QED
    BY <1>1, <1>2

\* The inductive invariant: the updater that is alive, its target and the Agent's
\* thread agree with the state.
THEOREM UpdateInvariant == UpdateSpec => []UpdateInv
  <1>1. UpdateInit => UpdateInv
    BY UpdateInvInit
  <1> QED
    BY <1>1, UpdateInvStep, PTL DEF UpdateSpec

(* A live updater is the only one and the state is its own, whichever Agent       *)
(* checks meanwhile, unless the handover failed after it had been started or a    *)
(* version that was not newer was handed over (_should_recover_installing).       *)
THEOREM ALiveUpdaterOwnsTheState == UpdateSpec => []UpdaterOwnsState
  <1>1. UpdateInv => UpdaterOwnsState
    BY DEF UpdateInv, OwnerKept, UpdaterOwnsState, Regular
  <1> QED
    BY <1>1, UpdateInvariant, PTL

(* What an updater takes for the confirmation of a start is one of the version    *)
(* that it has installed, since it installed it (run_update).                     *)
THEOREM ASuccessWasConfirmed == UpdateSpec => []SuccessWasConfirmed
  <1>1. UpdateInv => SuccessWasConfirmed
    BY DEF UpdateInv, TargetKept, SuccessWasConfirmed, Regular
  <1> QED
    BY <1>1, UpdateInvariant, PTL

=============================================================================
