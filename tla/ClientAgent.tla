---------------------------- MODULE ClientAgent ----------------------------
(***************************************************************************)
(* The main loop of one device: it polls the server, claims a run, executes *)
(* it in a subprocess, reports the outcome and caches the reports that did  *)
(* not get through, while the thread of the local API may start a script    *)
(* that the user asked for.  The server is the run table of RunContract,    *)
(* which RunLifecycle implements; other devices, users and sweeps change it *)
(* at any time.                                                             *)
(*                                                                          *)
(* A request is answered, or the client gives it up: it fails, times out,   *)
(* or its answer is lost.  The server may still process a request that was  *)
(* given up, at any later time (late), or never.  A request that is         *)
(* answered and its effect on the client are one action: what happens in    *)
(* between commutes with what the client does to itself.                    *)
(***************************************************************************)
EXTENDS Naturals, Sequences, FiniteSets

CONSTANTS Run,
          Me,         \* this device
          Other,      \* a device of the same user
          None,
          MaxCached,  \* bound on the cached reports
          MaxLate     \* bound on the requests in flight that were given up

ASSUME AgentAssumption ==
    /\ Me # Other /\ None \notin Run \cup {Me, Other}
    /\ MaxCached \in Nat \ {0} /\ MaxLate \in Nat

VARIABLES run,       \* the server's table (RunContract)
          late,      \* requests that were given up and may still be processed
          pc,        \* where the main loop is
          job,       \* the run being claimed, prepared or reported
          word,      \* the outcome being reported
          proc,      \* the run of _running_proc
          local,     \* _local_run_proc, and who holds _execution_start_lock for it
          pending,   \* _pending_reports
          left,      \* reports the flush has still to try
          disk,      \* PENDING_REPORTS_FILE as _load_pending_reports would read it
          life,      \* life[r]: what became of the subprocess of r (history)
          told,      \* told[r]: the outcome the server took from this device (history)
          exposed    \* runs the client may know nothing of any more (history)

client  == <<pc, job, word, proc, local, pending, left, disk>>
history == <<life, told, exposed>>
vars    == <<run, late, client, history>>

Server == INSTANCE RunContract WITH Agent <- {Me, Other}

-----------------------------------------------------------------------------

Outcome == {"success", "failed"}
Report  == [run : Run, outcome : Outcome]
Message == [kind : {"claim"}, run : Run, outcome : {"failed"}]
           \cup [kind : {"report"}, run : Run, outcome : Outcome]

ClaimOf(r)     == [kind |-> "claim", run |-> r, outcome |-> "failed"]
ReportOf(r, o) == [kind |-> "report", run |-> r, outcome |-> o]

\* Inside poll_and_execute the main loop holds _execution_start_lock.
Polling == {"cancel", "check", "next", "claim", "prepare", "report", "saveReport"}

TypeOK ==
    /\ run \in [Run -> [status : Server!Status, target : {Me, Other, None},
                        executor : {Me, Other, None}]]
    /\ late \subseteq Message
    /\ pc \in {"down", "idle", "flush", "saveFlush", "local", "poll"} \cup Polling
    /\ job \in Run \cup {None} /\ word \in Outcome
    /\ proc \in Run \cup {None}
    /\ local \in {"none", "starting", "running"}
    /\ pending \in Seq(Report) /\ Len(pending) <= MaxCached
    /\ left \in 0 .. MaxCached
    /\ disk \in Seq(Report) /\ Len(disk) <= MaxCached
    /\ life \in [Run -> {"new", "started", "killed"} \cup Outcome]
    /\ told \in [Run -> Outcome \cup {"nothing"}]
    /\ exposed \subseteq Run

Init ==
    /\ Server!Init
    /\ late = {} /\ pc = "idle" /\ job = None /\ word = "failed" /\ proc = None
    /\ local = "none" /\ pending = <<>> /\ left = 0 /\ disk = <<>>
    /\ life = [r \in Run |-> "new"]
    /\ told = [r \in Run |-> "nothing"]
    /\ exposed = {}

Goto(l) == pc' = l

\* The client gives up on m, which the server may process later.
GiveUp(m) ==
    \/ late' = late
    \/ Cardinality(late) < MaxLate /\ late' = late \cup {m}

RunsIn(reports) == {reports[i].run : i \in DOMAIN reports}

-----------------------------------------------------------------------------
(* The server *)

\* update_run_status: 200 if the run is running on the device that reports.
Accepts(r)  == run[r].executor = Me /\ run[r].status = "running"
\* 409: the run of this device has ended; anything else is an error.
Conflict(r) == run[r].executor = Me /\ run[r].status # "running"

Take(r, outcome) ==
    /\ Server!Finish(r, outcome)
    /\ told' = [told EXCEPT ![r] = outcome]

\* A request that the client gave up arrives after all, and may be refused.
Deliver(m) ==
    /\ m \in late
    /\ late' = late \ {m}
    /\ \/ m.kind = "claim" /\ Server!Claim(m.run, Me) /\ UNCHANGED told
       \/ m.kind = "report" /\ Accepts(m.run) /\ Take(m.run, m.outcome)
       \/ UNCHANGED <<run, told>>
    /\ UNCHANGED <<client, life, exposed>>

\* Users, other devices and the sweeps of the server.  To this client the terminal
\* statuses that a sweep may write are all alike, "failed" stands for them.
Others(r) ==
    /\ \/ \E target \in {None, Me} : Server!Create(r, target)
       \/ Server!Claim(r, Other)
       \/ Server!Cancel({r})
       \/ Server!Override({r}, "failed")
    /\ UNCHANGED <<late, client, history>>

-----------------------------------------------------------------------------
(* agent_iteration: cached reports and local runs *)

\* authenticate fails: only the local run is looked at.
Offline ==
    /\ pc = "idle"
    /\ local = "running"
    /\ local' = "none"
    /\ UNCHANGED <<run, late, pc, job, word, proc, pending, left, disk, history>>

Begin ==
    /\ pc = "idle"
    /\ left' = Len(pending)
    /\ Goto(IF pending = <<>> THEN "local" ELSE "flush")
    /\ UNCHANGED <<run, late, job, word, proc, local, pending, disk, history>>

\* MUTANT of FlushAnswered: every answer settles a report.
FlushAnswered_AnyAnswer ==
    LET item == Head(pending)
    IN  /\ pc = "flush" /\ left > 0
        /\ left' = left - 1
        /\ IF Accepts(item.run) THEN Take(item.run, item.outcome) ELSE UNCHANGED <<run, told>>
        /\ pending' = Tail(pending)
        /\ UNCHANGED <<late, pc, job, word, proc, local, disk, life, exposed>>

\* _flush_pending_reports: 200 and 409 settle a report, anything else keeps it.
FlushAnswered ==
    LET item == Head(pending)
    IN  /\ pc = "flush" /\ left > 0
        /\ left' = left - 1
        /\ IF Accepts(item.run) THEN Take(item.run, item.outcome) ELSE UNCHANGED <<run, told>>
        /\ pending' = IF Accepts(item.run) \/ Conflict(item.run)
                      THEN Tail(pending) ELSE Append(Tail(pending), item)
        /\ UNCHANGED <<late, pc, job, word, proc, local, disk, life, exposed>>

\* MUTANT of FlushFails: a report that fails again is cached again and kept.
FlushFails_CachesAgain ==
    LET item == Head(pending)
    IN  /\ pc = "flush" /\ left > 0
        /\ left' = left - 1
        /\ GiveUp(ReportOf(item.run, item.outcome))
        /\ pending' = Append(Append(Tail(pending), item), item)
        /\ UNCHANGED <<run, pc, job, word, proc, local, disk, history>>

FlushFails ==
    LET item == Head(pending)
    IN  /\ pc = "flush" /\ left > 0
        /\ left' = left - 1
        /\ GiveUp(ReportOf(item.run, item.outcome))
        /\ pending' = Append(Tail(pending), item)
        /\ UNCHANGED <<run, pc, job, word, proc, local, disk, history>>

FlushEnds ==
    /\ pc = "flush" /\ left = 0
    /\ Goto("saveFlush")
    /\ UNCHANGED <<run, late, job, word, proc, local, pending, left, disk, history>>

\* _save_pending_reports opens the file for writing and dumps the list; when that
\* fails the file is left as it was or truncated, which reads as no reports.
Save ==
    /\ pc \in {"saveFlush", "saveReport"}
    /\ disk' \in {pending, disk, <<>>}
    /\ Goto(IF pc = "saveFlush" THEN "local" ELSE "idle")
    /\ UNCHANGED <<run, late, job, word, proc, local, pending, left, history>>

\* _check_local_runs.
CheckLocal ==
    /\ pc = "local"
    /\ local' \in IF local = "running" THEN {"running", "none"} ELSE {local}
    /\ Goto("poll")
    /\ UNCHANGED <<run, late, job, word, proc, pending, left, disk, history>>

-----------------------------------------------------------------------------
(* poll_and_execute *)

\* The lock is not waited for.  While a script runs the server is asked whether
\* it was cancelled; a local run, a client that is closing and a device that is
\* not registered ask for no work.
Poll ==
    /\ pc = "poll"
    /\ \/ local # "starting" /\ proc # None /\ Goto("cancel")
       \/ local = "none" /\ proc = None /\ Goto("next")
       \/ proc = None /\ Goto("idle")
    /\ UNCHANGED <<run, late, job, word, proc, local, pending, left, disk, history>>

\* The cancelled run's subprocess is killed; nothing is reported.
KillCancelled ==
    /\ pc = "cancel"
    /\ run[proc].status = "cancelled"
    /\ proc' = None
    /\ life' = [life EXCEPT ![proc] = "killed"]
    /\ Goto("idle")
    /\ UNCHANGED <<run, late, job, word, local, pending, left, disk, told, exposed>>

\* Another status, or no answer.
NotCancelled ==
    /\ pc = "cancel"
    /\ Goto("check")
    /\ UNCHANGED <<run, late, job, word, proc, local, pending, left, disk, history>>

\* MUTANT of StillRunning: a subprocess without exit code counts as successful.
StillRunning_Success ==
    /\ pc = "check"
    /\ proc' = None /\ job' = proc /\ word' = "success"
    /\ Goto("report")
    /\ UNCHANGED <<run, late, local, pending, left, disk, history>>

\* _check_running_process: the subprocess goes on.
StillRunning ==
    /\ pc = "check"
    /\ Goto("idle")
    /\ UNCHANGED <<run, late, job, word, proc, local, pending, left, disk, history>>

\* It has exited, or is killed after its timeout.
Ended(outcome) ==
    /\ pc = "check"
    /\ proc' = None /\ job' = proc /\ word' = outcome
    /\ life' = [life EXCEPT ![proc] = outcome]
    /\ Goto("report")
    /\ UNCHANGED <<run, late, local, pending, left, disk, told, exposed>>

\* get_next_run offers a waiting run, or nothing, or is not reached.
Offered(r) ==
    /\ pc = "next"
    /\ run[r].status = "pending" /\ run[r].target \in {None, Me}
    /\ job' = r
    /\ Goto("claim")
    /\ UNCHANGED <<run, late, word, proc, local, pending, left, disk, history>>

NothingOffered ==
    /\ pc = "next"
    /\ Goto("idle")
    /\ UNCHANGED <<run, late, job, word, proc, local, pending, left, disk, history>>

Claimed ==
    /\ pc = "claim"
    /\ Server!Claim(job, Me)
    /\ Goto("prepare")
    /\ UNCHANGED <<late, job, word, proc, local, pending, left, disk, history>>

\* MUTANT of ClaimRefused: the answer is not looked at.
ClaimRefused_Ignored ==
    /\ pc = "claim"
    /\ Goto("prepare")
    /\ UNCHANGED <<run, late, job, word, proc, local, pending, left, disk, history>>

\* The run was taken by another device, cancelled, or is refused for another reason.
ClaimRefused ==
    /\ pc = "claim"
    /\ job' = None
    /\ Goto("idle")
    /\ UNCHANGED <<run, late, word, proc, local, pending, left, disk, history>>

\* An error is answered although the run was claimed: the client drops the run.
ClaimError ==
    /\ pc = "claim"
    /\ Server!Claim(job, Me)
    /\ exposed' = exposed \cup {job}
    /\ job' = None
    /\ Goto("idle")
    /\ UNCHANGED <<late, word, proc, local, pending, left, disk, life, told>>

\* The request fails: the outermost handler reports the run as failed.  The guard
\* is the bound on the cache, which a report of an unclaimed run may need.
ClaimFails ==
    /\ pc = "claim"
    /\ Len(pending) < MaxCached
    /\ GiveUp(ClaimOf(job))
    /\ word' = "failed"
    /\ Goto("report")
    /\ UNCHANGED <<run, job, proc, local, pending, left, disk, history>>

\* Metadata, files, environment or parameters are missing, or anything raises.
PrepareFails ==
    /\ pc = "prepare"
    /\ word' = "failed"
    /\ Goto("report")
    /\ UNCHANGED <<run, late, job, proc, local, pending, left, disk, history>>

Start ==
    /\ pc = "prepare"
    /\ proc' = job /\ job' = None
    /\ life' = [life EXCEPT ![job] = "started"]
    /\ Goto("idle")
    /\ UNCHANGED <<run, late, word, local, pending, left, disk, told, exposed>>

\* _report_run_status: 200 or 409.
Reported ==
    /\ pc = "report"
    /\ \/ Accepts(job) /\ Take(job, word)
       \/ Conflict(job) /\ UNCHANGED <<run, told>>
    /\ job' = None /\ word' = "failed"
    /\ Goto("idle")
    /\ UNCHANGED <<late, proc, local, pending, left, disk, life, exposed>>

\* MUTANT of NotReported: the report is sent once.
NotReported_Dropped ==
    /\ pc = "report"
    /\ GiveUp(ReportOf(job, word))
    /\ job' = None /\ word' = "failed"
    /\ Goto("idle")
    /\ UNCHANGED <<run, proc, local, pending, left, disk, history>>

\* Any other answer, or none: the report is cached.
NotReported ==
    /\ pc = "report"
    /\ Len(pending) < MaxCached
    /\ GiveUp(ReportOf(job, word))
    /\ pending' = Append(pending, [run |-> job, outcome |-> word])
    /\ job' = None /\ word' = "failed"
    /\ Goto("saveReport")
    /\ UNCHANGED <<run, proc, local, left, disk, history>>

-----------------------------------------------------------------------------
(* start_local_run, on the thread of the local API *)

\* MUTANT of LocalBegin: the two starts do not exclude each other.
LocalBegin_NoLock ==
    /\ pc # "down"
    /\ local = "none" /\ proc = None
    /\ local' = "starting"
    /\ UNCHANGED <<run, late, pc, job, word, proc, pending, left, disk, history>>

LocalBegin ==
    /\ pc \notin Polling \cup {"down"}
    /\ local = "none" /\ proc = None
    /\ local' = "starting"
    /\ UNCHANGED <<run, late, pc, job, word, proc, pending, left, disk, history>>

LocalStarts(started) ==
    /\ local = "starting"
    /\ local' = IF started THEN "running" ELSE "none"
    /\ UNCHANGED <<run, late, pc, job, word, proc, pending, left, disk, history>>

-----------------------------------------------------------------------------
(* The client is killed and started again *)

\* A crash during a save may leave the file truncated.  What only the memory
\* knew is lost; a subprocess goes on, and nobody waits for it.
Crash ==
    /\ pc # "down"
    /\ disk' \in IF pc \in {"saveFlush", "saveReport"} THEN {pending, disk, <<>>} ELSE {disk}
    /\ exposed' = exposed \cup ((({proc, job} \ {None}) \cup RunsIn(pending)) \ RunsIn(disk'))
    /\ pc' = "down" /\ job' = None /\ word' = "failed" /\ proc' = None
    /\ local' = "none" /\ pending' = <<>> /\ left' = 0
    /\ UNCHANGED <<run, late, life, told>>

\* initialize_agent_runtime.
Restart ==
    /\ pc = "down"
    /\ pending' = disk
    /\ Goto("idle")
    /\ UNCHANGED <<run, late, job, word, proc, local, left, disk, history>>

-----------------------------------------------------------------------------

Flush   == FlushAnswered \/ FlushFails \/ FlushEnds \/ Save
Working == CheckLocal \/ Poll \/ KillCancelled \/ NotCancelled \/ StillRunning
           \/ (\E outcome \in Outcome : Ended(outcome))
Claims  == (\E r \in Run : Offered(r)) \/ NothingOffered \/ Claimed \/ ClaimRefused
           \/ ClaimError \/ ClaimFails \/ PrepareFails \/ Start
Reports == Reported \/ NotReported

MainLoop == Begin \/ Flush \/ Working \/ Claims \/ Reports

LocalApi == LocalBegin \/ \E started \in BOOLEAN : LocalStarts(started)

Network == \E m \in late : Deliver(m)

Next ==
    \/ MainLoop \/ Offline \/ LocalApi \/ Network \/ Crash \/ Restart
    \/ \E r \in Run : Others(r)

Spec == Init /\ [][Next]_vars

-----------------------------------------------------------------------------
(* Properties *)

\* The desktop is shared: the device never executes a run of the server and a
\* local one at the same time (_execution_start_lock, which is only tried).  A
\* subprocess that has outlived its client is not counted: nobody waits for it.
OneSubprocess == ~(proc # None /\ local = "running")

\* The subprocess belongs to a run that the server has bound to this device, so
\* that no other device executes it, whatever was given up before (claim before
\* execution, poll_and_execute).
ExecutesOnlyClaimed == proc # None => run[proc].executor = Me

\* The client never forgets a run that the server takes to be running on it: it
\* executes the run, is about to report it, or has a report cached, in the file
\* if the client is down.  Runs whose claim was answered with an error, and what
\* only the memory knew in a crash, are the exceptions.
ClaimedIsKnown ==
    \A r \in Run : Accepts(r) =>
       r \in exposed \cup {proc, job} \cup RunsIn(IF pc = "down" THEN disk ELSE pending)

\* The server takes a success from this device only if the subprocess of that run
\* has ended successfully, also when the report was cached, repeated or delayed.
SuccessIsReal == \A r \in Run : told[r] = "success" => life[r] = "success"

-----------------------------------------------------------------------------
(* The loop goes round, the subprocess ends by itself or by its timeout, and *)
(* requests that are repeated again and again are answered some time.        *)

Fairness ==
    /\ WF_vars(MainLoop)
    /\ SF_vars(\E outcome \in Outcome : Ended(outcome))
    /\ SF_vars(Reported)
    /\ \A item \in Report : SF_vars(FlushAnswered /\ Head(pending) = item)

FairSpec == Spec /\ Fairness

\* A run that is running on this device does not stay so for ever, unless the
\* client is closed or has lost it.
ClaimedRunEnds ==
    \A r \in Run : (Accepts(r) /\ r \notin exposed /\ pc # "down")
                      ~> (~Accepts(r) \/ r \in exposed \/ pc = "down")

=============================================================================
