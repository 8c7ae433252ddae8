----------------------------- MODULE ClientUpdate -----------------------------
(***************************************************************************)
(* How a client replaces itself.  The Agent looks for a newer version,     *)
(* downloads its installer when the user asks for it, and hands it over to  *)
(* an updater, a process of its own, which waits for the Agent to go, runs  *)
(* the installer, starts the new version and, unless that confirms its      *)
(* start, installs the version before it again.  Both write state.json,     *)
(* and each may die at any moment.  The UI starts an Agent when there is    *)
(* none, and the Agent executes scripts meanwhile.                          *)
(*                                                                         *)
(* Versions are numbered; what is downloaded is VerifiedDownload's affair.  *)
(* The two steps in which a service is used, a check and an installation,   *)
(* exclude each other (updater.py's _lock).                                 *)
(***************************************************************************)
EXTENDS Naturals

CONSTANTS MaxVersion,  \* bound on the versions that are published
          MaxUpdaters  \* bound on the updaters that are started

ASSUME ClientUpdateAssumption == MaxVersion \in Nat \ {0} /\ MaxUpdaters \in Nat

VARIABLES stateFile,   \* state.json
          service,     \* _active_service
          worker,      \* what the thread that holds _lock is doing
          client,      \* the Agent's process: its version, its loop, _restart_requested
          script,      \* a script: of this Agent, or of one that has gone
          ui,          \* the version of the UI that runs
          staged,      \* complete installers in the updates directory
          previous,    \* the version of previous-installer.exe
          installed,   \* the version in the installation directory
          marker,      \* startup-ok.json
          updater,     \* the updaters
          started,     \* versions that confirmed their start since installed (history)
          unowned,     \* the Agent died while it handed over (history)
          broken,      \* it gave up a handover to an updater that runs (history)
          backward     \* it handed over a version that was not newer (history)

clientState    == <<service, worker, client, script>>
machine        == <<ui, staged, previous, installed, marker>>
updateHistory  == <<started, unowned, broken, backward>>
updateVars == <<stateFile, clientState, machine, updater, updateHistory>>

Version == 1..MaxVersion
Updater == 1..MaxUpdaters
NoVersion == 0
NoPid == 0

UpdateState == {"idle", "checking", "available", "downloading", "verified",
                "waiting-for-idle", "installing", "verifying-startup", "succeeded",
                "rolled-back"}

ALLOWED_TRANSITIONS ==
    [s \in UpdateState |->
        CASE s = "idle" -> {"checking"}
          [] s = "checking" -> {"idle", "available"}
          [] s = "available" -> {"downloading", "idle"}
          [] s = "downloading" -> {"verified", "available", "idle"}
          [] s = "verified" -> {"waiting-for-idle", "installing", "idle"}
          [] s = "waiting-for-idle" -> {"installing", "idle"}
          [] s = "installing" -> {"verifying-startup", "rolled-back"}
          [] s = "verifying-startup" -> {"succeeded", "rolled-back"}
          [] s \in {"succeeded", "rolled-back"} -> {"idle"}]

NoService == [made |-> FALSE, manifest |-> NoVersion, installer |-> NoVersion]
NoWorker  == [at |-> "none", cached |-> NoVersion, fresh |-> FALSE, pid |-> NoPid]
NoClient  == [version |-> NoVersion, loop |-> "top", leaving |-> FALSE]
NoUpdater == [at |-> "unused", target |-> NoVersion, waits |-> FALSE]
AtState(s, v, u) == [state |-> s, version |-> v, pid |-> u]

Live(u) == updater[u].at \notin {"unused", "gone"}

UpdateTypeOK ==
    /\ stateFile \in [state : UpdateState, version : Version \cup {NoVersion},
                      pid : Updater \cup {NoPid}]
    /\ service \in [made : BOOLEAN, manifest : Version \cup {NoVersion},
                    installer : Version \cup {NoVersion}]
    /\ worker \in [at : {"none", "checking", "downloading", "asking", "handoff", "pid"},
                   cached : Version \cup {NoVersion}, fresh : BOOLEAN,
                   pid : Updater \cup {NoPid}]
    /\ client \in [version : Version \cup {NoVersion}, loop : {"top", "poll", "prepare"},
                   leaving : BOOLEAN]
    /\ script \in {"none", "owned", "orphan"}
    /\ {ui, previous, marker} \subseteq Version \cup {NoVersion}
    /\ staged \subseteq Version /\ installed \in Version
    /\ updater \in [Updater -> [at : {"unused", "start", "wait", "install", "launch",
                                     "confirm", "rollback", "gone"},
                                target : Version \cup {NoVersion}, waits : BOOLEAN]]
    /\ started \subseteq Version /\ {unowned, broken, backward} \subseteq BOOLEAN

\* The version that is there was installed by hand, or by an update.
UpdateInit ==
    /\ stateFile = AtState("idle", NoVersion, NoPid)
    /\ service = NoService /\ worker = NoWorker /\ client = NoClient /\ script = "none"
    /\ ui = NoVersion /\ staged = {}
    /\ installed = 1 /\ previous \in {NoVersion, installed} /\ marker = NoVersion
    /\ updater = [u \in Updater |-> NoUpdater]
    /\ started = {1} /\ unowned = FALSE /\ broken = FALSE /\ backward = FALSE

Legal(s) == s \in ALLOWED_TRANSITIONS[stateFile.state]

-----------------------------------------------------------------------------
(* The Agent: a check *)

ClientUp == client.version # NoVersion

\* What UpdateService.__init__ makes of state.json: what was discovered must be
\* newer and still readable, what was staged must be there.
Recovered ==
    CASE stateFile.state \in {"available", "downloading"} ->
           {AtState("idle", NoVersion, NoPid)}
           \cup {s \in {AtState("available", stateFile.version, NoPid)} :
                   s.version > client.version}
      [] stateFile.state \in {"verified", "waiting-for-idle"} ->
           IF stateFile.version \in staged THEN {stateFile}
           ELSE {AtState("idle", NoVersion, NoPid)}
      [] OTHER -> {stateFile}

Rebuilt(s) ==
    [made |-> TRUE,
     manifest |-> IF s.state = "available" THEN s.version ELSE NoVersion,
     installer |-> IF s.state \in {"verified", "waiting-for-idle"} THEN s.version
                   ELSE NoVersion]

InProgress(s) == s.state \in {"installing", "verifying-startup"}

\* MUTANT of Stale: any recorded updater is taken for dead.
Stale_AnyPid(s) ==
    IF s.pid # NoPid THEN TRUE ELSE s.version < client.version

\* _should_recover_installing
Stale(s) ==
    IF s.pid # NoPid THEN ~Live(s.pid) ELSE s.version < client.version

\* An update that an updater owns, or that is staged, is left as it is.
CheckLeaves ==
    /\ ClientUp /\ worker.at = "none"
    /\ \E s \in Recovered :
          /\ \/ InProgress(s) /\ ~Stale(s)
             \/ s.state \in {"verified", "waiting-for-idle"}
          /\ stateFile' = s /\ service' = Rebuilt(s)
    /\ UNCHANGED <<worker, client, script, machine, updater, updateHistory>>

\* Otherwise, by rolled-back and idle, the sources are asked.
CheckBegins ==
    /\ ClientUp /\ worker.at = "none"
    /\ \E s \in Recovered :
          /\ InProgress(s) => Stale(s)
          /\ s.state \notin {"verified", "waiting-for-idle"}
          /\ stateFile' = AtState("checking", NoVersion, NoPid)
          /\ worker' = [NoWorker EXCEPT !.at = "checking", !.cached = Rebuilt(s).manifest]
    /\ UNCHANGED <<service, client, script, machine, updater, updateHistory>>

CheckFinds(v) ==
    /\ worker.at = "checking" /\ v > client.version
    /\ stateFile' = AtState("available", v, NoPid)
    /\ service' = [made |-> TRUE, manifest |-> v, installer |-> NoVersion]
    /\ worker' = NoWorker
    /\ UNCHANGED <<client, script, machine, updater, updateHistory>>

\* No source answers, when a known version stays known; or none has a newer one.
CheckEnds ==
    /\ worker.at = "checking"
    /\ \/ stateFile' = AtState("idle", NoVersion, NoPid)
       \/ /\ worker.cached # NoVersion
          /\ stateFile' = AtState("available", worker.cached, NoPid)
    /\ service' = [made |-> TRUE, manifest |-> worker.cached, installer |-> NoVersion]
    /\ worker' = NoWorker
    /\ UNCHANGED <<client, script, machine, updater, updateHistory>>

-----------------------------------------------------------------------------
(* The Agent: an installation that the user has asked for *)

\* What fails does not leave a service behind that was made for it.
GivesUp ==
    /\ worker' = NoWorker
    /\ service' = IF worker.fresh THEN NoService ELSE service

\* The service is the one of the last check, or a new one; a manifest without an
\* installer is downloaded, which only an available update allows.
InstallAsked ==
    /\ ClientUp /\ worker.at = "none"
    /\ \E s \in IF service.made THEN {stateFile} ELSE Recovered :
          LET used == IF service.made THEN service ELSE Rebuilt(s)
              download == used.manifest # NoVersion /\ used.installer = NoVersion
              at == CASE download /\ s.state = "available" -> "downloading"
                      [] used.installer # NoVersion -> "asking"
                      [] OTHER -> "none"
          IN /\ stateFile' = IF at = "downloading"
                             THEN AtState("downloading", used.manifest, NoPid) ELSE s
             /\ worker' = [NoWorker EXCEPT !.at = at, !.fresh = at # "none" /\ ~service.made]
             /\ service' = IF at = "none" THEN service ELSE used
    /\ UNCHANGED <<client, script, machine, updater, updateHistory>>

Downloaded ==
    /\ worker.at = "downloading" /\ Legal("verified")
    /\ staged' = staged \cup {service.manifest}
    /\ service' = [service EXCEPT !.installer = service.manifest]
    /\ stateFile' = AtState("verified", service.manifest, NoPid)
    /\ worker' = [worker EXCEPT !.at = "asking"]
    /\ UNCHANGED <<client, script, ui, previous, installed, marker, updater, updateHistory>>

DownloadFails ==
    /\ worker.at = "downloading" /\ Legal("available")
    /\ stateFile' = AtState("available", service.manifest, NoPid)
    /\ GivesUp
    /\ UNCHANGED <<client, script, machine, updater, updateHistory>>

\* request_install, while a script of this Agent runs: nothing is installed ...
InstallWaits ==
    /\ worker.at = "asking" /\ script = "owned"
    /\ stateFile.state \in {"verified", "waiting-for-idle"}
    /\ stateFile' = AtState("waiting-for-idle", service.installer, NoPid)
    /\ worker' = NoWorker
    /\ UNCHANGED <<service, client, script, machine, updater, updateHistory>>

\* ... and otherwise the handover begins.
InstallBegins ==
    /\ worker.at = "asking" /\ script # "owned"
    /\ stateFile.state \in {"verified", "waiting-for-idle"}
    /\ stateFile' = AtState("installing", service.installer, NoPid)
    /\ worker' = [worker EXCEPT !.at = "handoff"]
    /\ backward' = (backward \/ service.installer <= client.version)
    /\ UNCHANGED <<service, client, script, machine, updater, started, unowned, broken>>

InstallRefused ==
    /\ worker.at = "asking"
    /\ stateFile.state \notin {"verified", "waiting-for-idle"}
    /\ GivesUp
    /\ UNCHANGED <<stateFile, client, script, machine, updater, updateHistory>>

\* _handoff: the updater is started ...
Handoff(u) ==
    /\ worker.at = "handoff" /\ updater[u].at = "unused"
    /\ updater' = [updater EXCEPT ![u] =
                     [at |-> "start", target |-> service.installer, waits |-> TRUE]]
    /\ worker' = [worker EXCEPT !.at = "pid", !.pid = u]
    /\ UNCHANGED <<stateFile, service, client, script, machine, updateHistory>>

RolledBack == AtState("rolled-back", NoVersion, NoPid)

\* ... or cannot be ...
HandoffFails ==
    /\ worker.at = "handoff"
    /\ stateFile' = RolledBack
    /\ GivesUp
    /\ UNCHANGED <<client, script, machine, updater, updateHistory>>

\* ... its pid is recorded, and the Agent is to go ...
PidRecorded ==
    /\ worker.at = "pid"
    /\ stateFile' = [stateFile EXCEPT !.pid = worker.pid]
    /\ client' = [client EXCEPT !.leaving = TRUE]
    /\ worker' = NoWorker
    /\ UNCHANGED <<service, script, machine, updater, updateHistory>>

\* ... or that fails (the updater writes the same state.tmp).
PidFails ==
    /\ worker.at = "pid"
    /\ stateFile' = IF Legal("rolled-back") THEN RolledBack ELSE stateFile
    /\ GivesUp
    /\ broken' = TRUE
    /\ UNCHANGED <<client, script, machine, updater, started, unowned, backward>>

-----------------------------------------------------------------------------
(* The Agent's loop and its scripts *)

ClientGone ==
    /\ client' = NoClient /\ service' = NoService /\ worker' = NoWorker
    /\ script' = IF script = "owned" THEN "orphan" ELSE script
    /\ unowned' = (unowned \/ worker.at \in {"handoff", "pid"})

NobodyWaitedFor == [u \in Updater |-> [updater[u] EXCEPT !.waits = FALSE]]

\* _restart_requested is looked at between two iterations only.
Iterates ==
    /\ ClientUp /\ client.loop = "top" /\ ~client.leaving
    /\ client' = [client EXCEPT !.loop = "poll"]
    /\ UNCHANGED <<stateFile, service, worker, script, machine, updater, updateHistory>>

\* A run is claimed, unless a script runs; until it starts nobody sees it.
Claims ==
    /\ client.loop = "poll" /\ script # "owned"
    /\ client' = [client EXCEPT !.loop = "prepare"]
    /\ UNCHANGED <<stateFile, service, worker, script, machine, updater, updateHistory>>

Starts ==
    /\ client.loop = "prepare"
    /\ client' = [client EXCEPT !.loop = "top"]
    /\ script' = "owned"
    /\ UNCHANGED <<stateFile, service, worker, machine, updater, updateHistory>>

StartsNothing ==
    /\ client.loop \in {"poll", "prepare"}
    /\ client' = [client EXCEPT !.loop = "top"]
    /\ UNCHANGED <<stateFile, service, worker, script, machine, updater, updateHistory>>

ScriptIsOver ==
    /\ script # "none" /\ script' = "none"
    /\ UNCHANGED <<stateFile, service, worker, client, machine, updater, updateHistory>>

\* It leaves as it has been asked to, or dies.
ClientLeaves ==
    /\ ClientUp
    /\ ClientGone
    /\ updater' = NobodyWaitedFor
    /\ UNCHANGED <<stateFile, machine, started, broken, backward>>

-----------------------------------------------------------------------------
(* The UI *)

UiStarts ==
    /\ ui = NoVersion /\ ui' = installed
    /\ UNCHANGED <<stateFile, clientState, staged, previous, installed, marker, updater,
                   updateHistory>>

\* _watch_agent
ClientIsStarted ==
    /\ ui # NoVersion /\ ~ClientUp
    /\ client' = [NoClient EXCEPT !.version = installed]
    /\ UNCHANGED <<stateFile, service, worker, script, machine, updater, updateHistory>>

\* _confirm_startup, when the Agent reports the UI's own version.
ConfirmsStart ==
    /\ ui # NoVersion /\ client.version = ui
    /\ marker' = ui /\ started' = started \cup {ui}
    /\ UNCHANGED <<stateFile, clientState, ui, staged, previous, installed, updater,
                   unowned, broken, backward>>

\* Somebody runs an installer by hand, but not during an update.
InstalledByHand(v) ==
    /\ \A u \in Updater : ~Live(u)
    /\ v > installed /\ installed' = v
    /\ ui' = NoVersion /\ ClientGone
    /\ started' = started \ {v}
    /\ UNCHANGED <<stateFile, staged, previous, marker, updater, broken, backward>>

-----------------------------------------------------------------------------
(* The updater: run_update *)

At(u, l) == [updater EXCEPT ![u].at = l]

\* It ends, with the transition if that is allowed; its last resort, another
\* "rolled-back", is then not allowed either.
EndsAt(u, s) ==
    /\ updater' = At(u, "gone")
    /\ stateFile' = CASE Legal(s.state) -> s
                      [] Legal("rolled-back") -> RolledBack
                      [] OTHER -> stateFile

\* MUTANT of UpdaterStarts: the marker of an earlier start is left.
UpdaterStarts_OldMarker(u) ==
    /\ updater[u].at = "start"
    /\ stateFile' = [stateFile EXCEPT !.pid = u]
    /\ updater' = At(u, "wait")
    /\ UNCHANGED <<clientState, machine, updateHistory>>

UpdaterStarts(u) ==
    /\ updater[u].at = "start"
    /\ stateFile' = [stateFile EXCEPT !.pid = u]
    /\ marker' = NoVersion
    /\ updater' = At(u, "wait")
    /\ UNCHANGED <<clientState, ui, staged, previous, installed, updateHistory>>

ClientHasGone(u) ==
    /\ updater[u].at = "wait" /\ ~updater[u].waits
    /\ updater' = At(u, "install")
    /\ UNCHANGED <<stateFile, clientState, machine, updateHistory>>

ClientStays(u) ==
    /\ updater[u].at = "wait" /\ updater[u].waits
    /\ EndsAt(u, RolledBack)
    /\ UNCHANGED <<clientState, machine, updateHistory>>

\* An installer closes what runs.
Closes == ui' = NoVersion /\ ClientGone

Installs(u) ==
    /\ updater[u].at = "install"
    /\ Closes
    /\ installed' = updater[u].target /\ started' = started \ {updater[u].target}
    /\ IF Legal("verifying-startup")
       THEN /\ stateFile' = AtState("verifying-startup", updater[u].target, u)
            /\ updater' = [NobodyWaitedFor EXCEPT ![u].at = "launch"]
       ELSE /\ stateFile' = IF Legal("rolled-back") THEN RolledBack ELSE stateFile
            /\ updater' = [NobodyWaitedFor EXCEPT ![u].at = "gone"]
    /\ UNCHANGED <<staged, previous, marker, broken, backward>>

\* It exits with a failure, whatever it has installed.
InstallerFails(u) ==
    /\ updater[u].at = "install"
    /\ Closes
    /\ \/ UNCHANGED <<installed, started>>
       \/ installed' = updater[u].target /\ started' = started \ {updater[u].target}
    /\ updater' = [NobodyWaitedFor EXCEPT ![u].at = "rollback"]
    /\ UNCHANGED <<stateFile, staged, previous, marker, broken, backward>>

Launches(u) ==
    /\ updater[u].at = "launch"
    /\ ui' = IF ui = NoVersion THEN installed ELSE ui
    /\ updater' = At(u, "confirm")
    /\ UNCHANGED <<stateFile, clientState, staged, previous, installed, marker, updateHistory>>

StartSeen(u) ==
    /\ updater[u].at = "confirm" /\ marker = updater[u].target
    /\ previous' = updater[u].target
    /\ EndsAt(u, AtState("succeeded", updater[u].target, NoPid))
    /\ UNCHANGED <<clientState, ui, staged, installed, marker, updateHistory>>

StartNotSeen(u) ==
    /\ updater[u].at \in {"launch", "confirm"}
    /\ updater' = At(u, "rollback")
    /\ UNCHANGED <<stateFile, clientState, machine, updateHistory>>

\* The version before is installed again, and started ...
RollsBack(u) ==
    /\ updater[u].at = "rollback" /\ previous # NoVersion
    /\ ClientGone
    /\ installed' = previous /\ ui' = previous /\ started' = started \ {previous}
    /\ stateFile' = IF Legal("rolled-back") THEN RolledBack ELSE stateFile
    /\ updater' = [NobodyWaitedFor EXCEPT ![u].at = "gone"]
    /\ UNCHANGED <<staged, previous, marker, broken, backward>>

\* ... or there is none, or its installer fails.
RollbackFails(u) ==
    /\ updater[u].at = "rollback"
    /\ EndsAt(u, RolledBack)
    /\ UNCHANGED <<clientState, machine, updateHistory>>

UpdaterDies(u) ==
    /\ Live(u)
    /\ updater' = At(u, "gone")
    /\ UNCHANGED <<stateFile, clientState, machine, updateHistory>>

-----------------------------------------------------------------------------

ChecksAndInstalls ==
    \/ CheckLeaves \/ CheckBegins \/ (\E v \in Version : CheckFinds(v)) \/ CheckEnds
    \/ InstallAsked \/ Downloaded \/ DownloadFails
    \/ InstallWaits \/ InstallBegins \/ InstallRefused
    \/ (\E u \in Updater : Handoff(u)) \/ HandoffFails \/ PidRecorded \/ PidFails

Loop == Iterates \/ Claims \/ Starts \/ StartsNothing \/ ScriptIsOver \/ ClientLeaves

Ui == \/ UiStarts \/ ClientIsStarted \/ ConfirmsStart
      \/ \E v \in Version : InstalledByHand(v)

UpdaterStep(u) ==
    \/ UpdaterStarts(u) \/ ClientHasGone(u) \/ ClientStays(u)
    \/ Installs(u) \/ InstallerFails(u) \/ Launches(u)
    \/ StartSeen(u) \/ StartNotSeen(u) \/ RollsBack(u) \/ RollbackFails(u)
    \/ UpdaterDies(u)

UpdateNext == ChecksAndInstalls \/ Loop \/ Ui \/ \E u \in Updater : UpdaterStep(u)

UpdateSpec == UpdateInit /\ [][UpdateNext]_updateVars

-----------------------------------------------------------------------------
(* Properties *)

(* While an updater is alive it is the only one, and the state is still its own   *)
(* ("live detached updater owns the state", _should_recover_installing): neither  *)
(* a check nor another Agent that the UI has started meanwhile takes it away,     *)
(* unless the handover failed after the updater had been started, or a staged      *)
(* version was installed over a newer one.                                        *)
UpdaterOwnsState ==
    ~broken /\ ~backward => \A u \in Updater : Live(u) =>
        /\ InProgress(stateFile) /\ stateFile.version = updater[u].target
        /\ \A w \in Updater : Live(w) => w = u

(* An update succeeds, and its installer becomes the one to return to, only when  *)
(* that version has confirmed its start since it was installed, and not by the    *)
(* marker of an earlier attempt (run_update).  Two updaters at once, and an update *)
(* to a version that runs already, are left aside.                                *)
SuccessWasConfirmed ==
    ~backward /\ ~broken => \A u \in Updater :
        updater[u].at = "confirm" /\ marker = updater[u].target => marker \in started

=============================================================================
