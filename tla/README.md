# AutoScript Hub in TLA+

AutoScript Hub runs scripts on Windows computers from a central server. The
server is a FastAPI application over SQLite with one background thread; every
computer runs a client (the *device* or *agent*) that polls the server, claims
runs, executes them in a subprocess and reports back; administrators and users
work through a React front end.

This directory holds TLA+ modules for the parts of the system where the order of
steps matters, TLC configurations that check them on small instances, and proofs
that TLAPS checks for instances of any size. `PROJECT.json` names, for every
definition, the source lines it stands for, and lists every run, hazard, finding
and theorem.

## 1. The system

| component | state | operations | what makes it correct |
|---|---|---|---|
| run lifecycle (`routers/runs.py`, `services/run_dispatch.py`) | `runs`: status, target, executor, deadline | execute, claim, report, cancel | one device per run, ended runs stay ended, an outcome only from the device that executes |
| device registry (`routers/agents.py`, `services/managed_agent_lifecycle.py`) | `agents`: mode, enabled, deleted, online, last heartbeat | register, heartbeat, disable, enable, delete | a paused or deleted device executes no directed run |
| managed plans (`routers/managed.py`, `services/schedule_time.py`) | `managed_schedules`: device, rule, enabled, cursor, last miss | create, update, enable, disable, delete, run now, retry | an occurrence is executed once, recorded as missed, or paused; no backlog, no catching up |
| managed batches (`routers/managed.py`) | `managed_agent_batches`, `..._items`: status, lease, item results | submit, resume, execute an item | an item is carried out once and its result says so, whatever is interrupted |
| background scheduler (`scheduler.py`) | one thread, one session per scan | watchdog, expiry, plan scan, log archiving | silent devices are noticed; it does not undo what requests have decided |
| run logs (`routers/runs.py`, `client/agent/main.py`) | log file and offset on both sides | append a chunk, stream | the server's file is a prefix of the client's, and complete in the end |
| client agent (`client/agent/main.py`) | current subprocess, cached reports, cached local runs | poll, claim, execute, report, shut down | an outcome reaches the server once, cancelled work is killed |
| local runs (`client/agent/main.py`, `local_server.py`) | local history, identifiers given by the server | start, finish, synchronise | every local run is imported once |
| client update (`client/update/`, `client/agent/updater.py`) | update state file, downloaded package | check, download, hand over, roll back | one updater at a time; success only after the new version confirmed its start |
| environments (`client/runtime/environment_manager.py`) | virtual environments on disk | create, repair, remove | a half-created environment is never used |
| release caches (`release_cache.py`, `server_update_cache.py`) | cached release files and their index | refresh, publish, prune, serve | what is indexed is served complete; channels do not go back |
| scripts (`routers/scripts.py`, `services/script_*`) | scripts, revisions on disk, groups, a client's snapshot | upload, new revision, delete, share | no active run of a deleted script; a run keeps its revision; revocation reaches clients |
| thumbnails (`routers/agents.py`, `client/agent/thumbnail.py`) | the owner's switch, the stored picture | capture, upload, pause, show | a paused capture is cleared in the end |
| server upgrade (`ops/server/`) | deployed version, database, WAL, scripts, backup | back up, switch, restore, roll back | no server on a database of a newer one; scripts listed have files |
| authentication, users, issues, presets, settings, audit | rows of their own | create, read, update, delete | single-row statements |

How they interact. All server components share one SQLite database. Requests run
in threads of a pool, each with a session of its own; the scheduler is one more
thread. Devices see the server only through requests that may be delayed, lost
or repeated. The plan scan creates runs through the same function as the
requests (`create_validated_run`), which locks the script row so that script
deletion and run creation are serialised. Disabling or deleting a device stops
its runs and pauses its plans in one transaction.

What is hard about it:

* **Read, decide, write.** SQLite takes its write lock at the first write of a
  transaction. The checks of most handlers are made before it. Whether the
  decision is repeated under the lock depends on how the write is phrased: a
  conditional `UPDATE` re-reads its predicate, an attribute assigned to a loaded
  object is written by primary key.
* **What the session remembers.** `autoflush` is off, so assignments wait in the
  session until the commit, and only columns that differ from the loaded value
  are written. `db.expire_all()` throws away assignments that were not flushed.
* **Failure and restart.** Any handler or scan may stop between two steps; batches
  are resumed by a later request; the scheduler starts its loop again.
* **Time.** Heartbeats, deadlines, leases and cursors all compare the clock with
  something that was read earlier.

`hazards` in `PROJECT.json` lists these at the lines where they bite.

## 2. Modules

| module | what it is |
|---|---|
| `RunContract` | abstract specification: what the run table promises to its readers |
| `RunLifecycle` | the tables `runs` and `agents` with every handler and sweep that writes them |
| `ScheduleCursor` | where the cursor of a plan goes (pure functions) |
| `ManagedSchedules` | plans: the scan as one SQLAlchemy session, and the requests of an administrator |
| `ManagedBatch` | batches: idempotency key, lease, item loop, interruption and resumption |
| `ClientAgent` | the main loop of one device against the run table of `RunContract`: claims, reports, cached reports, local runs, crashes |
| `LogUpload` | one log: the script writes, the client uploads by offset, the server appends, a browser follows |
| `LocalRuns` | scripts started at the device without the server, and their import, over `RunContract` |
| `ClientUpdate` | the update's state file between the Agent, its service and the updater process |
| `VerifiedDownload` | resumed transfers with ETags, parts, and the comparison with the manifest |
| `EnvironmentCache` | the shared virtual environment under its lock file |
| `ReleaseCache` | publication, index, pruning and readers of the server's release cache |
| `ServerUpgrade` | backup, upgrade, restore and rollback of the server, with its database's WAL |
| `ScriptLibrary` | uploads of revisions, groups, deletion against creation of runs, the offline snapshot |
| `Thumbnails` | the client's captures and heartbeats against the upload handlers |
| `MC...` | instances for TLC: symmetry sets, and parts that share nothing, in one run |
| `RunLifecycleProofs`, `ManagedSchedulesProofs`, `ManagedBatchProofs`, `ClientAgentProofs`, `LocalRunsProofs`, `ClientUpdateProofs` | the theorems of these components |
| `WorkstationProofs`, `ServerPartsProofs` | the theorems of the other parts of `MCWorkstation` and `MCServerParts`, and of their composition |

**State and code.** A table is a function from identities to records; a record
keeps the columns that guards and properties read. `request[t]` is what handler
`t` has read and not yet written: the handler's local variables and the objects
in its session. A handler that reads, decides and then writes is two actions,
`XBegin` and `XCommit` (or `Load` and `XCommit`); a handler whose decision is
made inside one conditional `UPDATE` is one action. `Flush` is SQLAlchemy's rule
for writing a loaded object. `Abort` is an exception or a lost client at any
point in between. `sweep` and `scan` are the local state of the scheduler thread.

In `ManagedSchedules` the session of the scan is explicit: `scan.loaded` is what
was read, `scan.draft` what has been assigned, and `Refreshed` is
`lock_script_for_lifecycle`, which takes the write lock (`scan.locked`) and
forgets the draft. While the scan holds the lock no other writer is enabled, and
nobody sees what it has not committed. Devices are one Boolean there; how their
rows change is the subject of `RunLifecycle`.

In `ManagedBatch` an item's check and execution end in one transaction. What an
operation does to its device (dispatch, pause, resume, pause plans, set groups)
is reduced to a count of how often it was carried out.

In `ClientAgent` a request to the server that is answered is one action with its
effect on the client: what happens in between commutes with what the client does
to itself. A request that fails, times out or loses its answer is given up
(`GiveUp`): it may stay in `late` and be processed at any later time. `pc` says
where the main loop is; inside `Polling` it holds `_execution_start_lock`, which
the thread of the local API only tries (`LocalBegin`). The preparation of a run
(metadata, files, environment, parameters) is one step that succeeds or fails. A
crash forgets everything but the file of cached reports, which may be truncated
if it was being written; `exposed` names the runs that the client may have lost
that way, or by an error answer to a claim that went through. These are the
cases in which the server alone has to end the run, see `stuck_run`.

In `LogUpload` the file is a sequence of bytes in which a character may take two
("lead", "trail"), because the client decodes what it has read before it sends it:
a chunk can end inside a character. A request that was given up stays in the
server's hands, and two requests may measure the file before either appends.
`garbled` and `overlapped` say that a byte was replaced or that two did.

In `LocalRuns` the thread of the local API starts a script in three assignments
(`starter`), and the main loop imports a record request by request (`importing`,
`todo`); what was written to `local_runs.json` is `recordFile`, and a crash goes
back to it. `unknown` are the local runs whose import was created but whose
identity never reached the file. The request that creates the run looks at the
user's other runs (`Admitted`) and inserts its own in a later transaction
(`Created`); other users' requests stand between the two at any time (`UserActs`).

In `ClientUpdate` `stateFile` is `state.json`; `service` is the object that the
Agent keeps, `updater` the detached processes with the version each installs, and
`marker` the file by which a version confirms its start. The UI starts an Agent
when there is none. `broken` and `backward` are the two cases in which the code
itself hands over wrongly (see below). What arrives is left to `VerifiedDownload`,
where objects are told apart by ETag and hash only.

In `EnvironmentCache` a client is where `ensure_environment` is; `overstayed` and
`raced` mark the two ways in which the 1800-second rule lets two clients under
one lock. In `ReleaseCache` `shelf` and `backup` are the directories, `listed` the
index file, `work` and `doomed` the local variables of the publisher; `good` is
the build that was last published. In `ServerUpgrade` `main` and `wal` are the two
files of the database (`Visible` is what SQLite reads of them; `foreign` says that
they do not belong together), and `command` is where the shell scripts are. `oldImage` and
`savedEnv` are what the upgrade's script keeps to go back to: the image of the server
that it found, and the `.env` file as it found it, whatever that file names. An
upgrade may be begun after one that was cut short or after a rollback by hand
(`UpgradeBegins`); it only needs a server that answers. One upgrade runs at a time,
and the latest backup is the one that is kept. `upgrade.sh` run without
`remote_upgrade.py` around it is not modelled. In
`ScriptLibrary` `writer` holds the database's write lock, `snapshot` is the
client's file, and `since` counts since when the server does not allow the script.
In `Thumbnails` heartbeats under way are a set, so they are handled in any order,
repeated or never. `enabled` is the administrator's switch: the heartbeats and
uploads of a disabled device are refused with 403, while its picture goes on being
shown. `beating` is the heartbeat handler with the row as it was loaded, because it
writes only the columns in which its assignments differ from that row; one heartbeat
is handled at a time. A deleted device takes its picture with it, which is left out.

**How the modules fit together.** `RunLifecycle` implements `RunContract`
(`ImplementsContract`, checked and proved), and `ClientAgent` takes
`RunContract` as its server: what is shown of the client holds with any run
table that keeps the contract, and the client never makes the table move in a way
that the contract does not foresee (`TheClientKeepsTheContract`, and
`ImportsKeepTheContract` for `LocalRuns`). `ManagedSchedules` uses
`ScheduleCursor` for its cursors and repeats claim, report and cancel only as far
as plans notice them. The scan's expiry of runs appears in both: in
`RunLifecycle` with its lost update (`SweepExpire`), in `ManagedSchedules` with
the session that may forget it (`scan.expired`). `LocalRuns` takes the same
contract as its server as `ClientAgent` does. `ClientUpdate` leaves transfers to
`VerifiedDownload` and knows of scripts only whether one executes. The other new
modules share no variable with each other: what one reads of another is one value
that it may change at any time (`ScriptLibrary` ends runs freely, `LogUpload` ends
the run freely).

## 3. Runs

| run | instance | question | distinct states |
|---|---|---|---|
| `lifecycle` | 1 run; 1 device with 2 handlers, and 2 devices with 1 handler | `TypeOK`, `PausedDeviceIdle`, `BindingInv`, `NeverResurrected`, `ExecutorStable`, `ImplementsContract` | 985 000 |
| `attended` | 1 interval plan, 2 runs, clock to 2 | `TypeOK`, `ScanRunsDoNotOverlap`, `NoCatchUp` | 989 000 |
| `accounted` | 2 plans, 1 run, period 2, deadline 2, clock to 3, fair | `DueOccurrenceAccounted` | 141 000 |
| `lease` | 1 batch of 3, 3 requests | `TypeOK`, `CompletedMeansDone`, `LeaseExcludes`, `ResultTellsEffect`, `HolderRepeatsNothing` | 661 000 |
| `client` | 1 run, 2 cached reports, 1 late request, fair | `TypeOK`, `OneSubprocess`, `ExecutesOnlyClaimed`, `ClaimedIsKnown`, `SuccessIsReal`, `ClaimedRunEnds` | 71 000 |
| `workstation` | log of 3 bytes, 2 requests; 1 local run, 2 runs; 2 versions, 2 updaters; 1 part, 2 objects; 3 clients of an environment | `WorkstationTypeOK`, `LogIsFaithful`, `ImportedOnce`, `KnownImportNotExecuted`, `SyncedHasEnded`, `UpdaterOwnsState`, `SuccessWasConfirmed`, `PartialIsOneObject`, `EnvironmentInUseIsComplete` | 1 480 000 |
| `server` | 3 releases of 2 builds, room for 2; 2 scripts through an upgrade; 2 developers, 2 revisions, 1 run, 1 group | `ServerPartsTypeOK`, `IndexedIsServed`, `ListedScriptsHaveFiles`, `SettledServerIsConsistent`, `DeletedScriptHasNoActiveRun`, `RevisionsKeepTheirFiles`, `RevokedScriptsStop`, `ChannelNeverGoesBack` | 3 120 000 |
| `in_the_end` | 1 run, 1 device, 1 handler; 2 upload handlers; fair | `SilentDeviceGoesOffline`, `PausedCaptureIsCleared` | 108 000 |

`lifecycle`, `workstation`, `server` and `in_the_end` put several instances into
one run. A variable (`instance`, `part`) is chosen at the start and never changes;
only the chosen part moves, so that the state spaces add up. This loses nothing,
because the parts have no variable in common: a behaviour of all of them is one
of each, and no property speaks of two. (For `lifecycle` both instances are the
same module: two devices with one request at a time, or one device with two.)

Why the bounds are enough. The races of the run table involve one row, one
device and two decisions that overlap: two handlers, or one handler and the
scheduler thread, which is not counted among the handlers. A second device
matters for who a run is bound to (the second instance of `lifecycle`). Plans need two runs to see an
overlap or a repetition, and a clock that passes two occurrences. In `accounted`
there are two plans, so that the run of one, created or refused, makes the scan's
session forget what it has decided for the other; one run is enough for it, since
a plan that finds none left is refused, which forgets the same. A batch needs
three items for a first, a middle and a last one, and a third request for a lease
that is lost and taken twice. The client handles one run at a time, and runs meet
only in the cache of reports, where each is sent for itself; one run can already
have two reports in it that contradict each other. (The invariants of `client`
were also found to hold with two runs, in 6.5 million states.) The invariants and action properties, which are
proved, do not depend on these bounds.

Three bytes hold a character of two and one beside it, cut at every place; two
requests are one that was given up and its repetition. One local run and two runs
of the server show an import that is repeated. Two versions and two updaters show
an update, its repetition, and an updater that is still there. Three releases with
room for two show pruning against both channels; two builds tell a republished
version from its predecessor. Two revisions and two developers show an upload over
another, three clients a lock that is taken over while another waits.

The bounds are the constants `MaxTime` (the clock), `MaxEffects` (the count of
effects per item), `MaxCached` (reports in the client's cache; a claim does not
fail when it is full), `MaxLate` (requests given up that may still arrive), `MaxBytes` (the log),
`MaxVersion`, `MaxUpdaters`, `MaxBroken` (publications that the server dies in),
`MaxRevision`, `MaxAge`, `Slot` and `Handler` (requests the server handles at once) and the
finite sets of identities. Deadlock is not checked for
plans and batches, which really stop when the clock and the identities are used
up, nor for `workstation` and `server`, whose logs, runs and versions are used up.
`workstation` does not follow a log after a byte was replaced or two requests have
appended on the same measurement (`CONSTRAINT Undisturbed`): its property says
nothing of what comes after. `SYMMETRY` permutes identities and is left out of the runs with liveness.

**Fairness.** `_scheduler_loop` is a daemon thread that catches every exception
and sleeps for a fixed time, so an iteration may fail (`SweepAbort`, `ScanAbort`)
again and again, but not every one of them: the steps of the watchdog are strongly
fair, and of the plan scan it is assumed that again and again an iteration
completes (`ScanFairness`; strong fairness of each step would not give that with two
plans, since the scan may fail behind a different step each time). The clock
advances. Of the client's loop (`ClientAgent`, `Fairness`) it is assumed
that it goes round, which `run_agent` does; that a subprocess ends, which its
timeout enforces; and that a request that is repeated for ever is answered some
time, which is strong fairness on `Reported` and on sending each cached report.
`ClaimedRunEnds` says nothing of a run while the client is down. Of the thumbnails it is assumed that the main loop goes on sending heartbeats,
that some of those that arrive arrive while the device is enabled if it is enabled again
and again, that old ones are handled or lost some time, and that a capture, a
heartbeat handler and an upload handler end. That a device is ever enabled again is
not assumed. Nothing is
assumed of the server's users, of other devices, or of the network otherwise.

### What the code does not keep

These runs expect a counterexample; the quoted statement and the line that breaks
it are under `findings`.

| run | property | what happens |
|---|---|---|
| `cancel_lost` | `CancelledStaysCancelled` | the watchdog overwrites a cancellation with "failed"; the client, which kills only on "cancelled", goes on |
| `stuck_run` | `SilentDeviceRunsEnd` | a run claimed after its device was marked offline is never failed |
| `replay` | `FailedOccurrenceNotRerun` | the scan creates a run, forgets the new cursor, and executes the occurrence again after it failed |
| `restore` | `RestoreBringsBackBackup` | the write-ahead log of a server that was killed stays beside the restored database and is read with it |

`replay` narrows down what `attended` shows: a run that the scan has created and
that is still active is found by the next scan, so the forgotten cursor does no
harm until that run has ended.

The models show other gaps, which no run states separately.

* The cursor or the miss that a scan has decided for a plan is forgotten when it
  creates a run of another plan, or is refused one, behind it (`DecisionLost`), and
  not only once: if another plan is due behind it in every scan, an occurrence whose
  deadline has passed is never recorded. `DueOccurrenceAccounted` promises a record
  to each plan whose decisions are lost only finitely often.
* The scan marks a run expired that was claimed after its expiry query
  (`SweepExpire`); a dispatch or a retry that checked a device before it was paused
  leaves its run waiting for it (`Insert`); a plan can be enabled for a device that
  was paused since the check (`EnableCommit`); a run asked for by hand may overlap
  one of the scan (`InsertCommit`).
* An item that outlives the lease of its batch is carried out again by the next
  request (`overtaken`), although docs/被控模式与托管计划.md:48 says that it is not.
  As long as no lease runs out under a handler, `lease` shows that each is carried
  out once, however often handlers are interrupted or killed.
* A failure that the client cached for a claim that had not gone through is
  accepted when the run has been claimed and started later; its real outcome is
  answered with 409 and dropped, which `client/agent/main.py:904` takes for the
  server's decision (`ClaimFails`, `FlushAnswered`).
* Two appends that measured the file at the same time repeat bytes (`overlapped`).
* An import whose answer was lost, or was not saved before a crash, is created
  again (`unknown`); between its creation and its claim any other device of the
  user may be offered it and execute it, as `KnownImportNotExecuted` says of this
  device only.
* A staged installer is taken up although a newer version runs by then
  (`backward`); a handover that fails after the updater was started leaves it
  running without the state (`broken`).
* Two clients may take over one old lock (`raced`), and a build of more than 1800
  seconds loses its own (`overstayed`).
* A server that dies between the renames of a publication leaves the version's
  directory missing or unlisted until it is published again (`interrupted`); with
  room for one release only, a channel loses its newest version.
* After a rollback by hand the `.env` file goes on naming the new image (`byHand`).
  An upgrade that is begun then, or after one that was cut short, saves this file and
  puts it back when it fails: the server that is started again is the old one, and
  `.env` names an image that does not run (`savedEnv # oldImage`). Only an upgrade
  that found its `.env` in order leaves it so also when it fails, as
  `SettledServerIsConsistent` says; of the database and the server it says that they
  agree whatever the file names.
* Two uploads at once may write the same revision (`overlapped` in
  `ScriptLibrary`); the second one to commit wins.
* A thumbnail that was accepted before the pause is shown until the next heartbeat
  that says "paused". The heartbeats of a disabled device are refused
  (routers/agents.py:195) while its picture is shown (routers/managed.py:1220), so
  a pause during that time has no effect before the device is enabled again.
* A directory of the release cache that cannot be deleted (`ignore_errors=True`)
  stays, unlisted and served to nobody; `ReleaseCache` lets every deletion succeed.
* A client's snapshot may be used for its maximal age counted from the client's own
  clock when the answer arrived; `Syncs` is one step, so the duration of that request
  and the tolerance of clocks come on top of the bound in `RevokedScriptsStop`.

## 4. Proofs

Every invariant and action property that a run checks is stated by a theorem, so
the runs' bounds matter only for the liveness properties.

Assumptions: the names that stand for "nothing" (`None`, `Nobody`, `Unlocked`,
`NoTag`) are not identities, two devices of one user (`Me` and `Other`,
`ThisDevice` and `OtherDevice`) are different, periods and bounds are natural
numbers. There is no assumption on the number of runs, devices, plans, batches,
handlers, clients, objects, developers, groups, releases, scripts or bytes, and the
sets of identities need not be finite.

* **`RunLifecycleProofs`.** `Inv` strengthens `PausedDeviceIdle`, which is not
  inductive: a claim commits on a check of the device that was made earlier. The
  strengthening is `ClaimInv`: while a claim is in progress and its directed run
  is still pending, the device still accepts work. Pausing or deleting the device
  would break that, but the same transaction cancels the pending run; a run that
  is inserted late for a paused device is not in a claim.
  `TypeCorrect`, `RunsAreBound`,
  `PausedDevicesAreIdle` and the action properties `EndedRunsStayEnded`,
  `RunsAreNotMoved` follow from it. `RunTableRefinesContract` maps every action
  to one of the contract's or a stutter.
* **`ManagedSchedulesProofs`.** Of the cursor's functions (`ScheduleCursor`):
  `AdvanceIsNextOccurrence`: the cursor of an interval
  plan is the first instant after now that is a whole number of intervals from
  the due time. `NextRunBounds` covers both kinds of rule.
  Of the plans: `SchedulesTypeCorrect` rests on `NextRunBounds`.
  `ScanCreatesNoOverlap`: only the scan creates runs of its own, so the plan it
  is turning into a run keeps having none that is active between the check and
  the insert, whatever is asked for by hand meanwhile.
  `NothingIsMadeUpFor`: the occurrence that the scan has accepted was not past its
  deadline when the scan began, and stays the one that it inserts (`InTime`), while
  the plan's cursor may move; no other step inserts a run of the scan.
* **`ManagedBatchProofs`.** `Inv`: a handler about to complete a batch has seen the
  last pending item go, and no item becomes pending again; unless a lease ran out
  under it, a handler that executes a batch holds its lease. From it follow
  `CompletedBatchesAreDone` and `LeaseIsExclusive`. `ItemInv` adds that the item a
  handler has picked is still pending when it executes it, which gives
  `ResultsTellEffects` and the action property `DoneItemsAreKept`.

  `BatchesTypeCorrect` is its type invariant.

* **`ClientAgentProofs`.** Of the server the proof uses only what `Moved` states
  of each step: bindings to this device stay, and nothing that waits is bound.
  `SlotInv` is the lock discipline of the two kinds of run. `KnownInv` strengthens
  `ClaimedIsKnown`, which a delayed claim would break: a run that a late claim may
  yet bind is already known, because the client reported a failure for it when it
  gave the claim up and keeps that report until the server has seen the run end.
  `SuccessInv` follows a success through the cache, the file and the requests
  under way back to the subprocess.

* **`LocalRunsProofs`.** `LocalInv`: what a record says, in memory or on disk, is
  true of the local run and of the run it was imported as (`RecordKept`); an identity
  that is on disk is the one in memory; unless it is unknown, a local run has no
  import but the one it remembers (`ImportsKnown`); and the pass over the records
  knows, at each of its requests, what it has read (`SyncKept`). That an
  import is not executed needs all of it: the poll skips an import because its record names it, which is true after
  a restart because the identity was saved before the run was claimed. What the proof
  uses of the server is `ServerMoves`, which leaves a run that has ended to be
  overridden by the watchdog or by `execute_script`'s late cancellation: an outcome
  that was "success" may become "failed", never the other way. From it follow
  `ALocalRunIsImportedOnce`, `AnImportIsNotExecuted` and `ASyncedRunHasEnded`.
* **`ClientUpdateProofs`.** `UpdateInv`, unless a handover broke or went backward:
  a live updater is the only one, the state names its version and its process or no
  process yet (`OwnerKept`); until it has installed, its version is newer than the
  one that is there and the marker is not of that version (`TargetKept`); and while
  the Agent checks, downloads or hands over no updater is alive but the one it has
  just started (`WorkerKept`). The second part is what makes the marker of an
  earlier attempt harmless. From it follow `ALiveUpdaterOwnsTheState` and
  `ASuccessWasConfirmed`.
* **`WorkstationProofs`** holds three components and the composition.
  `LogUpload`: `LogInv` says that what is stored or under way is a piece of the
  device's file at its place (`HeldKept`), that the server never reports a size that
  it does not have (`SizeKept`), that the last upload takes the rest of the file with
  it (`WholeKept`), and that the outcome is reported after it (`ReportKept`). What a
  chunk decodes to is a flattened sequence, so the lemmas about cutting a file
  between characters are an induction over its length; `TheLogIsFaithful` follows for
  files of every length.
  `EnvironmentCache`: without an outstayed or doubly taken lock the client that works
  under the lock is the one that holds it, what it removes was not ready, because it
  has looked again, and nothing half removed looks ready
  (`EnvironmentsInUseAreComplete`).
  `VerifiedDownload`: what a transfer appends is of the object whose ETag the partial
  file carries, since a transfer that continues was answered with the same ETag
  (`BodyInv`) and one that starts over has removed both files first
  (`PartialsAreOneObject`); `DownloadTypeCorrect` says that the file in its place has
  the manifest's content.
  `AWorkstationIsItsParts`: a behaviour of the composition that the run checks is a
  behaviour of each part's own specification, so that what is proved of the parts
  holds of it; `TheWorkstationIsTyped` is an instance.
* **`ServerPartsProofs`** does the same for the server.
  `ReleaseCache`: `ReleaseInv` follows a publication through its two renames and the
  index: what is moved aside is the good build until the index names another
  (`StageKept`), and what is being deleted is no longer indexed (`IndexKept`). From it
  follow `WhatIsIndexedIsServed` and, as pruning keeps the newest of each channel and
  a release that GitHub calls a beta is not published as stable (`PublicationKept`),
  the action property `AChannelNeverGoesBack`.
  `ServerUpgrade`: `UpgradeInv` says of each command of the shell scripts what has
  been established when it begins: which image may run (`CommandKept`), that the
  backup has the files of its scripts and is of the image to go back to (`CopyKept`),
  what a server would find (`FoundKept`) and what has been restored (`RestoredKept`).
  Nothing is assumed of the `.env` file with which an upgrade begins; the theorem speaks
  of it only where the upgrade found it naming the image that ran. From it follow
  `AListedScriptHasItsFiles` and `ASettledServerIsConsistent`.
  `ScriptLibrary`: without an overlap the one upload in progress writes the revision
  after the latest, and runs have revisions up to the latest (`UploadInv`, `RunInv`,
  for `RevisionsAreKept`). `AgeInv`, the snapshot is at least as old as the
  authorization it is of, gives `RevocationReachesClients`.
  `DeletedScriptsHaveNoActiveRun` is inductive as it stands: creation reads the
  script again under the lock.

Induction. The library's induction theorems take an operator as a parameter, which
the provers cannot instantiate. For natural numbers `WorkstationProofs` states it of
a set instead (`SetInduction`, from the well-foundedness of < on `Nat`), which is
enough for facts about a sequence's length.

What the proofs found in the models. What the index leaves as the good builds in
`ReleaseCache` was a `CASE` with overlapping guards, which TLA+ leaves open where TLC
takes the first: the proof could not tell which build is the good one. In `LocalRuns`
`execute_script` was one step, which the contract of the run table does not have:
its cancellation of a waiting run and its insertion are two transactions
(`routers/runs.py:187` and `create_validated_run`), and the first one is written
whatever the run has become.

Only model-checked are the liveness properties (`SilentDeviceGoesOffline`,
`DueOccurrenceAccounted`, `ClaimedRunEnds`, `PausedCaptureIsCleared`): fairness is
stated with ENABLED, which is out of the prover's reach. `Thumbnails` has no other
property.

## 5. Not modelled

* **Of the client**: draining before it exits, registration and authentication
  beyond `Offline`, and a subprocess that outlives a crash of its client. Of the
  update: signatures and trusted keys (a manifest is genuine), which source is
  asked first, and what an installer does inside. Of an environment: how it is
  built. `state.tmp` is shared by the Agent and the updater, each of which records
  the updater's process; the two writes are one step each.
* **Of the server's modules**: users and roles (a request comes from the principal
  it names), tokens, the parameters of a script, audit rows, the impact preview's
  version, physical deletion of runs (`is_deleted` of a run is never set by the
  modelled code), the daily archiving of logs, the GitHub protocol, and the limit
  of two active batches, which only bounds load. All runs are of one
  user, whose other active runs `execute_script` looks at (`ExecuteBegin`, `Admits`).
* **Device groups** are labels for filtering, each request one transaction.
  **Users, groups, issues, presets, settings, audit and dashboard** are single-row
  statements: there is little to check beyond the statements themselves.
* **Authentication** is token signing and password hashing; **migrations** are
  schema changes that run once at start-up (`ServerUpgrade` has them as one step
  that may fail half-way).
* **Desktop UI, web frontend and release tooling** present or package what the
  modelled parts decide.
