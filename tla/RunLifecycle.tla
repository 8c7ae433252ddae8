---------------------------- MODULE RunLifecycle ----------------------------
(***************************************************************************)
(* The server's run table and device table, and every handler that writes  *)
(* them: claim, status report, cancel, execute, dispatch, retry, device    *)
(* registration, heartbeat, disable / enable / delete, and the two sweeps  *)
(* of the background thread.                                               *)
(*                                                                         *)
(* Database.  The server uses SQLite in WAL mode and SQLAlchemy sessions   *)
(* with autoflush off.  A SELECT runs outside a transaction and sees the   *)
(* latest commit; the first UPDATE or INSERT takes the single write lock,  *)
(* which is held until the commit.  A handler that reads, decides and then *)
(* writes is therefore two actions: one that reads and remembers what it   *)
(* read in request[t], and one that writes and commits.  A conditional     *)
(* UPDATE re-reads its predicate under the lock; an attribute of a loaded  *)
(* object is flushed as UPDATE ... WHERE id = ?, with no predicate, and    *)
(* only if it differs from the value that was loaded (Flush).              *)
(***************************************************************************)
EXTENDS FiniteSets

CONSTANTS Run,      \* identities the run table can hand out
          Agent,    \* device identities (device_uid)
          Thread,   \* request handlers that can be in progress at once
          None      \* SQL NULL

ASSUME NoneIsNoRow == None \notin Run \cup Agent

VARIABLES run,      \* run[r]: a row of the table runs
          agent,    \* agent[a]: a row of the table agents
          fresh,    \* fresh[a]: last_heartbeat is within HEARTBEAT_TIMEOUT_SEC
          request,  \* request[t]: what handler t has read and not yet written
          sweep     \* the scheduler thread

vars == <<run, agent, fresh, request, sweep>>

-----------------------------------------------------------------------------
(* Rows *)

Terminal == {"success", "failed", "cancelled", "expired"}
Status   == {"unused", "pending", "running"} \cup Terminal
Device   == Agent \cup {None}

\* overdue: past expires_at (directed runs), or older than the five minutes
\* after which execute_script abandons a pending standard run.  A run is
\* directed exactly when its dispatch_type is one of the managed ones.
RunRow   == [status : Status, target : Device, executor : Device, overdue : BOOLEAN]
AgentRow == [mode : {"absent", "standard", "managed"}, enabled : BOOLEAN,
             deleted : BOOLEAN, status : {"online", "offline"}]

NoRun   == [status |-> "unused", target |-> None, executor |-> None, overdue |-> FALSE]
NoAgent == [mode |-> "absent", enabled |-> FALSE, deleted |-> FALSE, status |-> "offline"]

Exists(a)    == agent[a].mode # "absent" /\ ~agent[a].deleted
Accepting(a) == Exists(a) /\ agent[a].enabled
Directed(r)  == run[r].target # None

\* Executing on a, or directed to it and executing: the "running" predicate
\* of dispatch_managed_run, retry_managed_run and _stop_active_work.
RunningOn(a) == {r \in Run : run[r].status = "running" /\ a \in {run[r].target, run[r].executor}}

Request == [kind  : {"idle", "claim", "abandon", "insert", "heartbeat", "register",
                     "disable", "enable", "delete"},
            run   : Run \cup {None},
            agent : Device,
            late  : BOOLEAN,          \* claim: the deadline had passed at `now`
            row   : AgentRow]         \* the agent object as the session loaded it

Idle == [kind |-> "idle", run |-> None, agent |-> None, late |-> FALSE, row |-> NoAgent]

Sweep == [pc : {"idle", "stuck", "fail", "expiry", "expire"},
          agents : SUBSET Agent, runs : SUBSET Run]

NoSweep == [pc |-> "idle", agents |-> {}, runs |-> {}]

TypeOK ==
    /\ run \in [Run -> RunRow]
    /\ agent \in [Agent -> AgentRow]
    /\ fresh \in [Agent -> BOOLEAN]
    /\ request \in [Thread -> Request]
    /\ sweep \in Sweep

Init ==
    /\ run = [r \in Run |-> NoRun]
    /\ agent = [a \in Agent |-> NoAgent]
    /\ fresh = [a \in Agent |-> FALSE]
    /\ request = [t \in Thread |-> Idle]
    /\ sweep = NoSweep

\* The unit-of-work flush of one object: columns assigned a value other than
\* the loaded one are written, the others keep what the table holds now.
Changed(current, loaded, assigned) == IF assigned # loaded THEN assigned ELSE current

Flush(current, loaded, assigned) ==
    [mode    |-> Changed(current.mode, loaded.mode, assigned.mode),
     enabled |-> Changed(current.enabled, loaded.enabled, assigned.enabled),
     deleted |-> Changed(current.deleted, loaded.deleted, assigned.deleted),
     status  |-> Changed(current.status, loaded.status, assigned.status)]

Stamp(S, status) ==
    [r \in Run |-> IF r \in S THEN [run[r] EXCEPT !.status = status] ELSE run[r]]

Remember(t, req) == request[t] = Idle /\ request' = [request EXCEPT ![t] = req]
Done(t) == request' = [request EXCEPT ![t] = Idle]

-----------------------------------------------------------------------------
(* Claiming, reporting, cancelling *)

\* MUTANT of ClaimBegin: the checks on target_agent_id are missing.
ClaimBegin_AnyTarget(t, a, r) ==
    /\ Accepting(a)
    /\ run[r].status # "unused"
    /\ Remember(t, [Idle EXCEPT !.kind = "claim", !.run = r, !.agent = a,
                                !.late = Directed(r) /\ run[r].overdue])
    /\ UNCHANGED <<run, agent, fresh, sweep>>

\* claim_run up to its UPDATE: the device is loaded and `now` is taken; the
\* columns of the candidate that are checked never change after its insert.
\* The expiry branch comes before the checks on the target.
ClaimBegin(t, a, r) ==
    /\ Accepting(a)
    /\ run[r].status # "unused"
    /\ LET late == Directed(r) /\ run[r].overdue
       IN  /\ \/ late
              \/ run[r].target = (IF agent[a].mode = "managed" THEN a ELSE None)
           /\ Remember(t, [Idle EXCEPT !.kind = "claim", !.run = r, !.agent = a,
                                       !.late = late])
    /\ UNCHANGED <<run, agent, fresh, sweep>>

\* MUTANT of ClaimCommit: the object that was read is written, with no predicate.
ClaimCommit_Blind(t) ==
    LET r == request[t].run
    IN  /\ request[t].kind = "claim"
        /\ run' = IF request[t].late THEN [run EXCEPT ![r].status = "expired"]
                  ELSE [run EXCEPT ![r].status = "running", ![r].executor = request[t].agent]
        /\ Done(t)
        /\ UNCHANGED <<agent, fresh, sweep>>

\* The conditional UPDATE of claim_run: pending to running, or to expired when
\* the deadline had passed; no row matches if the run is no longer pending.
ClaimCommit(t) ==
    LET r == request[t].run
        a == request[t].agent
    IN  /\ request[t].kind = "claim"
        /\ run' = IF run[r].status # "pending" THEN run
                  ELSE IF request[t].late THEN [run EXCEPT ![r].status = "expired"]
                  ELSE IF run[r].executor # None THEN run
                  ELSE [run EXCEPT ![r].status = "running", ![r].executor = a]
        /\ Done(t)
        /\ UNCHANGED <<agent, fresh, sweep>>

\* MUTANT of Report: the UPDATE lacks its running predicate.
Report_AnyStatus(a, r, outcome) ==
    /\ run[r].executor = a
    /\ Exists(a)
    /\ run' = [run EXCEPT ![r].status = outcome]
    /\ UNCHANGED <<agent, fresh, request, sweep>>

\* update_run_status.  Its earlier reads add nothing to the conditional UPDATE:
\* agent_id is set once, and deleting the device cancels its running runs.
Report(a, r, outcome) ==
    /\ run[r].status = "running"
    /\ run[r].executor = a
    /\ Exists(a)
    /\ run' = [run EXCEPT ![r].status = outcome]
    /\ UNCHANGED <<agent, fresh, request, sweep>>

\* cancel_run by the run's user or an administrator.
CancelRun(r) ==
    /\ run[r].status \in {"pending", "running"}
    /\ run' = [run EXCEPT ![r].status = "cancelled"]
    /\ UNCHANGED <<agent, fresh, request, sweep>>

-----------------------------------------------------------------------------
(* Creating runs *)

\* execute_script up to create_validated_run: the user may have no active
\* standard run, or one pending for so long that it is abandoned.
ExecuteBegin(t) ==
    /\ LET active == {r \in Run : ~Directed(r) /\ run[r].status \in {"pending", "running"}}
       IN  \/ /\ active = {}
              /\ Remember(t, [Idle EXCEPT !.kind = "insert"])
           \/ \E r \in active :
              /\ run[r].status = "pending"
              /\ run[r].overdue
              /\ Remember(t, [Idle EXCEPT !.kind = "abandon", !.run = r])
    /\ UNCHANGED <<run, agent, fresh, sweep>>

\* active.status = "cancelled"; db.commit(): written without a predicate.
ExecuteAbandon(t) ==
    /\ request[t].kind = "abandon"
    /\ run' = Stamp({request[t].run}, "cancelled")
    /\ request' = [request EXCEPT ![t] = [Idle EXCEPT !.kind = "insert"]]
    /\ UNCHANGED <<agent, fresh, sweep>>

\* dispatch_managed_run: the device accepts work and runs nothing.
DispatchBegin(t, a) ==
    /\ Accepting(a)
    /\ agent[a].mode = "managed"
    /\ RunningOn(a) = {}
    /\ Remember(t, [Idle EXCEPT !.kind = "insert", !.agent = a])
    /\ UNCHANGED <<run, agent, fresh, sweep>>

\* retry_managed_run: the same for the device an unsuccessful run was directed to.
RetryBegin(t, r) ==
    /\ Directed(r)
    /\ run[r].status \in {"failed", "expired", "cancelled"}
    /\ DispatchBegin(t, run[r].target)

\* _create_schedule_run and the materialising branch of _managed_schedule_scan,
\* seen from here: the device accepts work, it may be busy.  The plan whose
\* occurrence this is lives in ManagedSchedules.
ScheduleRunBegin(t, a) ==
    /\ Accepting(a)
    /\ agent[a].mode = "managed"
    /\ Remember(t, [Idle EXCEPT !.kind = "insert", !.agent = a])
    /\ UNCHANGED <<run, agent, fresh, sweep>>

\* create_validated_run: lock_script_for_lifecycle takes the write lock, the run
\* is validated and inserted, and the transaction commits.
Insert(t) ==
    /\ request[t].kind = "insert"
    /\ \E r \in Run :
       /\ run[r].status = "unused"
       /\ run' = [run EXCEPT ![r] = [NoRun EXCEPT !.status = "pending",
                                                  !.target = request[t].agent]]
    /\ Done(t)
    /\ UNCHANGED <<agent, fresh, sweep>>

-----------------------------------------------------------------------------
(* Devices *)

\* register_agent for a device_uid the table does not hold.
RegisterNew(a, mode, on) ==
    /\ agent[a].mode = "absent"
    /\ agent' = [agent EXCEPT ![a] = [mode |-> mode, enabled |-> on, deleted |-> FALSE,
                                      status |-> IF on THEN "online" ELSE "offline"]]
    /\ fresh' = [fresh EXCEPT ![a] = TRUE]
    /\ UNCHANGED <<run, request, sweep>>

\* Loads the device row before writing it; a removed device is refused.
\* heartbeat also refuses a disabled one; disable_agent and enable_agent want a
\* managed one; DELETE /agents/{id} deletes either kind.  The FOR UPDATE of
\* _agent_or_404 takes no lock in SQLite, and the snapshot whose version the
\* administrator confirmed is read here too, before the write lock.
Load(t, a, kind) ==
    /\ Exists(a)
    /\ kind = "heartbeat" => agent[a].enabled
    /\ kind \in {"disable", "enable"} => agent[a].mode = "managed"
    /\ Remember(t, [Idle EXCEPT !.kind = kind, !.agent = a, !.row = agent[a]])
    /\ UNCHANGED <<run, agent, fresh, sweep>>

\* What the handler assigned to the loaded object is flushed to the table.
FlushAgent(t, assigned) ==
    LET a == request[t].agent
    IN  agent' = [agent EXCEPT ![a] = Flush(agent[a], request[t].row, assigned)]

HeartbeatCommit(t) ==
    /\ request[t].kind = "heartbeat"
    /\ FlushAgent(t, [request[t].row EXCEPT !.status = "online"])
    /\ fresh' = [fresh EXCEPT ![request[t].agent] = TRUE]
    /\ Done(t)
    /\ UNCHANGED <<run, sweep>>

\* register_agent for a known device: the mode the client asks for is taken
\* over, enabled is not.
RegisterCommit(t, mode) ==
    LET row == request[t].row
    IN  /\ request[t].kind = "register"
        /\ FlushAgent(t, [row EXCEPT !.mode = mode,
                                     !.status = IF row.enabled THEN "online" ELSE "offline"])
        /\ fresh' = [fresh EXCEPT ![request[t].agent] = TRUE]
        /\ Done(t)
        /\ UNCHANGED <<run, sweep>>

\* MUTANT of StopActiveWork: waiting runs are forgotten.
StopActiveWork_RunningOnly(a) == run' = Stamp(RunningOn(a), "cancelled")

\* _stop_active_work: conditional updates, executed under the write lock.
StopActiveWork(a) ==
    run' = Stamp(RunningOn(a) \cup
                 {r \in Run : run[r].status = "pending" /\ run[r].target = a},
                 "cancelled")

DisableCommit(t) ==
    /\ request[t].kind = "disable"
    /\ StopActiveWork(request[t].agent)
    /\ FlushAgent(t, [request[t].row EXCEPT !.enabled = FALSE, !.status = "offline"])
    /\ Done(t)
    /\ UNCHANGED <<fresh, sweep>>

DeleteCommit(t) ==
    /\ request[t].kind = "delete"
    /\ StopActiveWork(request[t].agent)
    /\ FlushAgent(t, [request[t].row EXCEPT !.enabled = FALSE, !.deleted = TRUE,
                                            !.status = "offline"])
    /\ Done(t)
    /\ UNCHANGED <<fresh, sweep>>

\* enable_agent: a heartbeat, not the click, makes the device online again.
EnableCommit(t) ==
    /\ request[t].kind = "enable"
    /\ FlushAgent(t, [request[t].row EXCEPT !.enabled = TRUE, !.status = "offline"])
    /\ Done(t)
    /\ UNCHANGED <<run, fresh, sweep>>

\* The handler raises, or the client goes away: the session rolls back.
Abort(t) ==
    /\ request[t] # Idle
    /\ Done(t)
    /\ UNCHANGED <<run, agent, fresh, sweep>>

-----------------------------------------------------------------------------
(* The scheduler thread: _heartbeat_scan, then the expiry part of           *)
(* _managed_schedule_scan.  Each reads first and writes without a predicate *)

SweepDevices ==
    LET stale == {a \in Agent : Exists(a) /\ agent[a].status = "online" /\ ~fresh[a]}
    IN  /\ sweep.pc = "idle"
        /\ sweep' = IF stale = {} THEN [NoSweep EXCEPT !.pc = "expiry"]
                    ELSE [NoSweep EXCEPT !.pc = "stuck", !.agents = stale]
        /\ UNCHANGED <<run, agent, fresh, request>>

SweepStuckRuns ==
    /\ sweep.pc = "stuck"
    /\ sweep' = [sweep EXCEPT !.pc = "fail",
                              !.runs = {r \in Run : /\ run[r].status = "running"
                                                    /\ run[r].executor \in sweep.agents}]
    /\ UNCHANGED <<run, agent, fresh, request>>

\* MUTANT of SweepFail: a status outside the vocabulary of the run table.
SweepFail_Timeout ==
    /\ sweep.pc = "fail"
    /\ agent' = [a \in Agent |-> IF a \in sweep.agents
                                 THEN [agent[a] EXCEPT !.status = "offline"]
                                 ELSE agent[a]]
    /\ run' = Stamp(sweep.runs, "timeout")
    /\ sweep' = [NoSweep EXCEPT !.pc = "expiry"]
    /\ UNCHANGED <<fresh, request>>

\* MUTANT of SweepFail: the devices keep their status.
SweepFail_RunsOnly ==
    /\ sweep.pc = "fail"
    /\ run' = Stamp(sweep.runs, "failed")
    /\ sweep' = [NoSweep EXCEPT !.pc = "expiry"]
    /\ UNCHANGED <<agent, fresh, request>>

SweepFail ==
    /\ sweep.pc = "fail"
    /\ agent' = [a \in Agent |-> IF a \in sweep.agents
                                 THEN [agent[a] EXCEPT !.status = "offline"]
                                 ELSE agent[a]]
    /\ run' = Stamp(sweep.runs, "failed")
    /\ sweep' = [NoSweep EXCEPT !.pc = "expiry"]
    /\ UNCHANGED <<fresh, request>>

SweepOverdue ==
    /\ sweep.pc = "expiry"
    /\ sweep' = [NoSweep EXCEPT !.pc = "expire",
                                !.runs = {r \in Run : /\ run[r].status = "pending"
                                                      /\ Directed(r)
                                                      /\ run[r].overdue}]
    /\ UNCHANGED <<run, agent, fresh, request>>

\* The commit at the end of the scan.  If a plan was materialised in between,
\* lock_script_for_lifecycle called expire_all and the assignments are gone.
SweepExpire(kept) ==
    /\ sweep.pc = "expire"
    /\ kept \in {{}, sweep.runs}
    /\ run' = Stamp(kept, "expired")
    /\ sweep' = NoSweep
    /\ UNCHANGED <<agent, fresh, request>>

\* An exception, or a restart of the server: _scheduler_loop starts over.
SweepAbort ==
    /\ sweep # NoSweep
    /\ sweep' = NoSweep
    /\ UNCHANGED <<run, agent, fresh, request>>

-----------------------------------------------------------------------------
(* Time *)

\* Ninety seconds without a heartbeat.
GoStale(a) ==
    /\ fresh[a]
    /\ fresh' = [fresh EXCEPT ![a] = FALSE]
    /\ UNCHANGED <<run, agent, request, sweep>>

BecomeOverdue(r) ==
    /\ run[r].status # "unused"
    /\ ~run[r].overdue
    /\ run' = [run EXCEPT ![r].overdue = TRUE]
    /\ UNCHANGED <<agent, fresh, request, sweep>>

-----------------------------------------------------------------------------

RunRequests ==
    \/ \E t \in Thread, a \in Agent, r \in Run : ClaimBegin(t, a, r)
    \/ \E t \in Thread : ClaimCommit(t)
    \/ \E a \in Agent, r \in Run, outcome \in {"success", "failed"} : Report(a, r, outcome)
    \/ \E r \in Run : CancelRun(r)
    \/ \E t \in Thread : ExecuteBegin(t) \/ ExecuteAbandon(t) \/ Insert(t)
    \/ \E t \in Thread, a \in Agent : DispatchBegin(t, a) \/ ScheduleRunBegin(t, a)
    \/ \E t \in Thread, r \in Run : RetryBegin(t, r)

DeviceRequests ==
    \/ \E a \in Agent, mode \in {"standard", "managed"}, on \in BOOLEAN : RegisterNew(a, mode, on)
    \/ \E t \in Thread, a \in Agent,
          kind \in {"heartbeat", "register", "disable", "enable", "delete"} : Load(t, a, kind)
    \/ \E t \in Thread, mode \in {"standard", "managed"} : RegisterCommit(t, mode)
    \/ \E t \in Thread : HeartbeatCommit(t) \/ DisableCommit(t) \/ DeleteCommit(t)
                         \/ EnableCommit(t) \/ Abort(t)

Scheduler ==
    \/ SweepDevices
    \/ SweepStuckRuns
    \/ SweepFail
    \/ SweepOverdue
    \/ \E kept \in SUBSET Run : SweepExpire(kept)

Time ==
    \/ \E a \in Agent : GoStale(a)
    \/ \E r \in Run : BecomeOverdue(r)

Next == RunRequests \/ DeviceRequests \/ Scheduler \/ SweepAbort \/ Time

Spec == Init /\ [][Next]_vars

-----------------------------------------------------------------------------
(* Properties *)

\* A run belongs to at most one device: rows that were never claimed have no
\* agent_id, rows that run or succeeded have one, and a directed run is never
\* bound to a device other than its target (claim_run, create_validated_run).
BindingInv ==
    \A r \in Run :
       /\ run[r].status \in {"unused", "pending"} => run[r].executor = None
       /\ run[r].status \in {"running", "success"} => run[r].executor # None
       /\ Directed(r) => run[r].executor \in {None, run[r].target}

\* A directed run executes only while its device is registered, enabled and not
\* deleted: disabling or deleting a device stops its work, and no claim that was
\* already in progress brings it back (claim_run against _stop_active_work).
PausedDeviceIdle ==
    \A r \in Run : run[r].status = "running" /\ Directed(r) => Accepting(run[r].target)

\* A run that was cancelled, failed or expired never runs again and never
\* becomes a success: a late claim or a delayed report loses (the predicates of
\* claim_run and update_run_status).
NeverResurrected ==
    [][\A r \in Run : run[r].status \in {"cancelled", "failed", "expired"}
          => run'[r].status \in {"cancelled", "failed", "expired"}]_run

\* The device a run was bound to never changes, so two devices never execute
\* the same run, and it stays readable after the run has ended.
ExecutorStable ==
    [][\A r \in Run : run[r].executor # None => run'[r].executor = run[r].executor]_run

\* The run table implements RunContract.
Contract == INSTANCE RunContract WITH
    run <- [r \in Run |-> [status |-> run[r].status, target |-> run[r].target,
                           executor |-> run[r].executor]]

\* Every step of a handler or a sweep is a step of the contract: one run
\* created, claimed or finished, or a group of runs stopped.
ImplementsContract == Contract!Spec

-----------------------------------------------------------------------------
(* The scheduler thread loops for ever and catches what an iteration raises; *)
(* an iteration may fail again and again, but not every one of them.         *)

SchedulerFairness ==
    /\ SF_vars(SweepDevices)
    /\ SF_vars(SweepStuckRuns)
    /\ SF_vars(SweepFail)
    /\ SF_vars(SweepOverdue)
    /\ SF_vars(\E kept \in SUBSET Run : SweepExpire(kept))

FairSpec == Spec /\ SchedulerFairness

\* A device that stops sending heartbeats is shown offline in the end, unless it
\* reports again or is removed (_heartbeat_scan).
SilentDeviceGoesOffline ==
    \A a \in Agent :
       (Exists(a) /\ agent[a].status = "online" /\ ~fresh[a])
          ~> (agent[a].status = "offline" \/ fresh[a] \/ ~Exists(a))

-----------------------------------------------------------------------------
(* Statements of the repository that the code does not keep.               *)

\* "Keep this terminal state stable" (managed_agent_lifecycle.py:177): a run that
\* was cancelled after a device claimed it stays cancelled.  The client kills the
\* subprocess only when it sees that status, so a sweep that replaces it leaves
\* the process running.
CancelledStaysCancelled ==
    [][\A r \in Run : run[r].status = "cancelled" /\ run[r].executor # None
          => run'[r].status = "cancelled"]_run

\* "Agent crash: heartbeat timeout, all its running runs become failed"
\* (docs/superpowers/specs/2026-05-31-autoscript-hub-platform-design.md:483): a run
\* whose device has gone silent does not stay running.
SilentDeviceRunsEnd ==
    \A r \in Run, a \in Agent :
       (run[r].status = "running" /\ run[r].executor = a /\ ~fresh[a])
          ~> (run[r].status # "running" \/ fresh[a])

=============================================================================
