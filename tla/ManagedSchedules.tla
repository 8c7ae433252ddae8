-------------------------- MODULE ManagedSchedules --------------------------
(***************************************************************************)
(* Managed plans: the scan of the background thread that turns due plans   *)
(* into runs, and the administrator's requests that write plans or create  *)
(* runs of a plan.  Devices are reduced to whether they accept work; how   *)
(* their rows change is modelled in RunLifecycle.                          *)
(*                                                                         *)
(* The scan works on one SQLAlchemy session with autoflush off.  The plans *)
(* it has loaded and the values it has assigned to them live in            *)
(* scan.loaded and scan.draft until the commit, which writes the columns   *)
(* whose assigned value differs from the loaded one.  Creating a run calls *)
(* lock_script_for_lifecycle, which takes the write lock and then expires  *)
(* the whole session: every assignment made so far is forgotten.           *)
(*                                                                         *)
(* While the scan holds the write lock no other action is enabled: another *)
(* writer has to wait, and a reader sees the tables as they were before.   *)
(***************************************************************************)
EXTENDS Naturals, ScheduleCursor

CONSTANTS Plan,       \* identities of managed plans
          CronPlan,   \* the plans whose rule is a cron expression
          Run, Agent,
          Thread,     \* request handlers that can be in progress at once
          None,
          Interval,   \* period of every plan
          Expiry,     \* expires_after_seconds of every plan
          MaxTime     \* bound on the clock

ASSUME ScheduleAssumption ==
    /\ CronPlan \subseteq Plan
    /\ None \notin Plan \cup Agent
    /\ Interval \in Nat \ {0} /\ Expiry \in Nat \ {0} /\ MaxTime \in Nat \ {0}

VARIABLES now,        \* the clock, in scan periods
          plan,       \* plan[p]: a row of managed_schedules
          run,        \* run[r]: a row of runs that belongs to a plan
          accepting,  \* accepting[a]: the device is managed, enabled, not deleted
          scan,       \* the session of _managed_schedule_scan
          request     \* request[t]: what handler t has read and not yet written

vars == <<now, plan, run, accepting, scan, request>>

-----------------------------------------------------------------------------
(* Rows *)

Instant == 0 .. (MaxTime + Interval)       \* 0 is NULL
Status  == {"unused", "pending", "running", "success", "failed", "cancelled", "expired"}
Active  == {"pending", "running"}

PlanRow == [state : {"absent", "live", "deleted"}, agent : Agent \cup {None},
            enabled : BOOLEAN, next : Instant, missed : Instant]
NoPlan  == [state |-> "absent", agent |-> None, enabled |-> FALSE, next |-> 0, missed |-> 0]

\* byScan: which code inserted the row; it is not a column.
RunRow == [status : Status, plan : Plan \cup {None}, agent : Agent \cup {None},
           due : Instant, expires : Nat, byScan : BOOLEAN]
NoRun  == [status |-> "unused", plan |-> None, agent |-> None, due |-> 0, expires |-> 0,
           byScan |-> FALSE]

NewRun(p, a, due, byScan) ==
    [status |-> "pending", plan |-> p, agent |-> a, due |-> due, expires |-> due + Expiry,
     byScan |-> byScan]

Scan == [pc : {"idle", "list", "loop", "create"},
         began   : Instant,            \* now as the scan took it
         expired : SUBSET Run,         \* runs it has marked expired
         due     : SUBSET Plan,        \* plans it still has to process
         at      : [Plan -> Instant],  \* next_run_at when the due plans were listed
         loaded  : [Plan -> PlanRow],
         draft   : [Plan -> PlanRow],
         current : Plan \cup {None},   \* the plan being turned into a run,
         dueAt   : Instant,            \* and its occurrence
         created : SUBSET Run,         \* inserted, not committed
         locked  : BOOLEAN]

NoScan == [pc |-> "idle", began |-> 0, expired |-> {}, due |-> {},
           at |-> [p \in Plan |-> 0], loaded |-> [p \in Plan |-> NoPlan],
           draft |-> [p \in Plan |-> NoPlan], current |-> None, dueAt |-> 0,
           created |-> {}, locked |-> FALSE]

Request == [kind : {"idle", "create", "update", "enable", "disable", "insert"},
            plan : Plan \cup {None}, agent : Agent \cup {None},
            row  : PlanRow,                     \* the plan object as it was loaded
            on   : {"keep", "on", "off"},       \* update: the new value of enabled
            at   : Instant]                     \* insert: scheduled_for

Idle == [kind |-> "idle", plan |-> None, agent |-> None, row |-> NoPlan, on |-> "keep", at |-> 0]

TypeOK ==
    /\ now \in 1 .. MaxTime
    /\ plan \in [Plan -> PlanRow]
    /\ run \in [Run -> RunRow]
    /\ accepting \in [Agent -> BOOLEAN]
    /\ scan \in Scan
    /\ request \in [Thread -> Request]

Init ==
    /\ now = 1
    /\ plan = [p \in Plan |-> NoPlan]
    /\ run = [r \in Run |-> NoRun]
    /\ accepting = [a \in Agent |-> TRUE]
    /\ scan = NoScan
    /\ request = [t \in Thread |-> Idle]

IsActive(p) == \E r \in Run : run[r].plan = p /\ run[r].status \in Active

NextTime(p) == NextScheduleTime(p \in CronPlan, Interval, now)

\* The flush of one plan object: columns that were assigned a new value.
Flush(current, loaded, assigned) ==
    [current EXCEPT
       !.enabled = IF assigned.enabled # loaded.enabled THEN assigned.enabled ELSE @,
       !.next    = IF assigned.next # loaded.next THEN assigned.next ELSE @,
       !.missed  = IF assigned.missed # loaded.missed THEN assigned.missed ELSE @]

Stamp(S, status) ==
    [r \in Run |-> IF r \in S THEN [run[r] EXCEPT !.status = status] ELSE run[r]]

-----------------------------------------------------------------------------
(* _managed_schedule_scan *)

\* The loop sleeps SCAN_INTERVAL_SEC between two scans, the unit of the clock;
\* once the clock has reached its bound, scans may go on.
ScanStart ==
    /\ scan.pc = "idle"
    /\ now > scan.began \/ now = MaxTime
    /\ scan' = [NoScan EXCEPT !.pc = "list", !.began = now,
                  !.expired = {r \in Run : run[r].status = "pending" /\ run[r].expires <= now}]
    /\ UNCHANGED <<now, plan, run, accepting, request>>

ScanList ==
    LET due == {p \in Plan : plan[p].state = "live" /\ plan[p].enabled
                             /\ plan[p].next <= scan.began}
    IN  /\ scan.pc = "list"
        /\ scan' = [scan EXCEPT !.pc = "loop", !.due = due,
                      !.at = [p \in Plan |-> IF p \in due THEN plan[p].next ELSE 0],
                      !.loaded = plan, !.draft = plan]
        /\ UNCHANGED <<now, plan, run, accepting, request>>

\* ORDER BY next_run_at
First(p) == p \in scan.due /\ \A q \in scan.due : scan.at[p] <= scan.at[q]

\* MUTANT of Skipped: an occurrence whose deadline has passed is made up for.
Skipped_CatchUp(p, due) == IsActive(p) \/ ~accepting[scan.draft[p].agent]

\* MUTANT of Skipped: the run that is still active is not looked for.
Skipped_Overlap(p, due) == due + Expiry <= scan.began \/ ~accepting[scan.draft[p].agent]

\* The branches of the loop that end in _record_schedule_miss before the lock.
Skipped(p, due) == \/ due + Expiry <= scan.began
                   \/ IsActive(p)
                   \/ ~accepting[scan.draft[p].agent]

\* schedule.next_run_at = ... at the top of the loop.
Advanced(p, due) ==
    [scan.draft EXCEPT ![p].next = NextScheduleRun(p \in CronPlan, due, Interval, scan.began)]

\* _record_schedule_miss, in the session.
ScanMiss(p) ==
    LET due == scan.draft[p].next
    IN  /\ scan.pc = "loop"
        /\ First(p)
        /\ Skipped(p, due)
        /\ scan' = [scan EXCEPT !.due = @ \ {p},
                                !.draft = [Advanced(p, due) EXCEPT ![p].missed = due]]
        /\ UNCHANGED <<now, plan, run, accepting, request>>

ScanAccept(p) ==
    LET due == scan.draft[p].next
    IN  /\ scan.pc = "loop"
        /\ First(p)
        /\ ~Skipped(p, due)
        /\ scan' = [scan EXCEPT !.pc = "create", !.due = @ \ {p}, !.current = p,
                                !.dueAt = due, !.draft = Advanced(p, due)]
        /\ UNCHANGED <<now, plan, run, accepting, request>>

\* MUTANT of Refreshed: the cursors were written at once, only the misses are lost.
Refreshed_KeepsCursors ==
    [scan EXCEPT !.pc = "loop", !.current = None, !.locked = TRUE, !.expired = {},
                 !.loaded = plan,
                 !.draft = [p \in Plan |-> [plan[p] EXCEPT !.next = scan.draft[p].next]]]

\* lock_script_for_lifecycle: the write lock, then expire_all.  Every object of
\* the session is read again; what was assigned to it is lost.
Refreshed ==
    [scan EXCEPT !.pc = "loop", !.current = None, !.locked = TRUE, !.expired = {},
                 !.loaded = plan, !.draft = plan]

\* create_validated_run succeeds.  Neither enabled nor is_deleted of the plan nor
\* the device is looked at again under the lock.
ScanCreate ==
    LET p == scan.current
    IN  /\ scan.pc = "create"
        /\ \E r \in Run :
           /\ run[r].status = "unused"
           /\ run' = [run EXCEPT ![r] = NewRun(p, scan.draft[p].agent, scan.dueAt, TRUE)]
           /\ scan' = [Refreshed EXCEPT !.created = @ \cup {r}]
        /\ UNCHANGED <<now, plan, accepting, request>>

\* The script, its parameters or the environment are refused under the lock.
ScanRefuse ==
    /\ scan.pc = "create"
    /\ scan' = [Refreshed EXCEPT !.draft[scan.current].missed = scan.dueAt]
    /\ UNCHANGED <<now, plan, run, accepting, request>>

ScanCommit ==
    /\ scan.pc = "loop"
    /\ scan.due = {}
    /\ plan' = [p \in Plan |-> Flush(plan[p], scan.loaded[p], scan.draft[p])]
    /\ run' = Stamp(scan.expired, "expired")
    /\ scan' = [NoScan EXCEPT !.began = scan.began]
    /\ UNCHANGED <<now, accepting, request>>

\* An exception or a restart of the server: the transaction is rolled back.
ScanAbort ==
    /\ scan.pc # "idle"
    /\ run' = [r \in Run |-> IF r \in scan.created THEN NoRun ELSE run[r]]
    /\ scan' = [NoScan EXCEPT !.began = scan.began]
    /\ UNCHANGED <<now, plan, accepting, request>>

-----------------------------------------------------------------------------
(* Requests of the administrator.  Begin: what is checked before the write  *)
(* lock.  Commit: what is written under it.                                 *)

Remember(t, req) == ~scan.locked /\ request[t] = Idle /\ request' = [request EXCEPT ![t] = req]
Done(t) == ~scan.locked /\ request' = [request EXCEPT ![t] = Idle]

CreateBegin(t, a) ==
    /\ accepting[a]
    /\ Remember(t, [Idle EXCEPT !.kind = "create", !.agent = a])
    /\ UNCHANGED <<now, plan, run, accepting, scan>>

\* next_run_at may be given for an interval plan, also in the past.
CreateCommit(t, on, given) ==
    /\ request[t].kind = "create"
    /\ \E p \in Plan :
       /\ plan[p].state = "absent"
       /\ plan' = [plan EXCEPT ![p] =
                     [state |-> "live", agent |-> request[t].agent, enabled |-> on, missed |-> 0,
                      next |-> IF given /\ p \notin CronPlan THEN now ELSE NextTime(p)]]
    /\ Done(t)
    /\ UNCHANGED <<now, run, accepting, scan>>

\* update_managed_schedule up to validate_run_request.
UpdateBegin(t, p, a, on) ==
    /\ plan[p].state = "live"
    /\ accepting[a] \/ on = "off" \/ (on = "keep" /\ ~plan[p].enabled)
    /\ Remember(t, [Idle EXCEPT !.kind = "update", !.plan = p, !.on = on,
                                !.agent = IF a = plan[p].agent THEN None ELSE a])
    /\ UNCHANGED <<now, plan, run, accepting, scan>>

\* The rest of it runs under the lock, on the row as it is now.  newRule: the
\* rule was edited; given: next_run_at was.
UpdateCommit(t, newRule, given) ==
    LET p == request[t].plan
        q == request[t]
    IN  /\ q.kind = "update"
        /\ plan' = [plan EXCEPT
             ![p].agent = IF q.agent = None THEN @ ELSE q.agent,
             ![p].enabled = (q.on = "on") \/ (q.on = "keep" /\ @),
             ![p].next = IF newRule \/ (q.on = "on" /\ ~plan[p].enabled) \/ (given /\ p \in CronPlan)
                         THEN NextTime(p)
                         ELSE IF given THEN now ELSE @]
        /\ Done(t)
        /\ UNCHANGED <<now, run, accepting, scan>>

EnableBegin(t, p) ==
    /\ plan[p].state = "live"
    /\ accepting[plan[p].agent]
    /\ Remember(t, [Idle EXCEPT !.kind = "enable", !.plan = p, !.row = plan[p]])
    /\ UNCHANGED <<now, plan, run, accepting, scan>>

EnableCommit(t) ==
    LET p == request[t].plan
        row == request[t].row
    IN  /\ request[t].kind = "enable"
        /\ plan' = [plan EXCEPT ![p] = Flush(@, row, [row EXCEPT !.enabled = TRUE,
                                                                 !.next = NextTime(p)])]
        /\ Done(t)
        /\ UNCHANGED <<now, run, accepting, scan>>

DisableBegin(t, p) ==
    /\ plan[p].state = "live"
    /\ Remember(t, [Idle EXCEPT !.kind = "disable", !.plan = p, !.row = plan[p]])
    /\ UNCHANGED <<now, plan, run, accepting, scan>>

DisableCommit(t) ==
    LET row == request[t].row
    IN  /\ request[t].kind = "disable"
        /\ plan' = [plan EXCEPT ![request[t].plan] = Flush(@, row, [row EXCEPT !.enabled = FALSE])]
        /\ Done(t)
        /\ UNCHANGED <<now, run, accepting, scan>>

\* delete_managed_schedule: nothing is decided on what it reads first.
DeletePlan(p) ==
    /\ ~scan.locked
    /\ plan[p].state = "live"
    /\ plan' = [plan EXCEPT ![p].state = "deleted", ![p].enabled = FALSE]
    /\ run' = Stamp({r \in Run : run[r].plan = p /\ run[r].status = "pending"}, "cancelled")
    /\ UNCHANGED <<now, accepting, scan, request>>

\* run_managed_schedule_now, _create_schedule_run: the plan may be paused.
RunNowBegin(t, p) ==
    /\ plan[p].state = "live"
    /\ ~IsActive(p)
    /\ accepting[plan[p].agent]
    /\ Remember(t, [Idle EXCEPT !.kind = "insert", !.plan = p, !.agent = plan[p].agent,
                                !.at = now])
    /\ UNCHANGED <<now, plan, run, accepting, scan>>

\* retry_managed_run: the device must run nothing; other runs of the plan and the
\* state of the plan are not looked at.
RetryBegin(t, r) ==
    /\ run[r].status \in {"failed", "expired", "cancelled"}
    /\ accepting[run[r].agent]
    /\ \A q \in Run : ~(run[q].status = "running" /\ run[q].agent = run[r].agent)
    /\ Remember(t, [Idle EXCEPT !.kind = "insert", !.plan = run[r].plan, !.agent = run[r].agent,
                                !.at = now])
    /\ UNCHANGED <<now, plan, run, accepting, scan>>

InsertCommit(t) ==
    /\ request[t].kind = "insert"
    /\ \E r \in Run :
       /\ run[r].status = "unused"
       /\ run' = [run EXCEPT ![r] = NewRun(request[t].plan, request[t].agent, request[t].at, FALSE)]
    /\ Done(t)
    /\ UNCHANGED <<now, plan, accepting, scan>>

\* The request is refused under the lock, or fails.
Abort(t) ==
    /\ request[t] # Idle
    /\ Done(t)
    /\ UNCHANGED <<now, plan, run, accepting, scan>>

-----------------------------------------------------------------------------
(* Devices and their runs, in the detail the plans need *)

\* claim_run: a run past its deadline expires instead.
Claim(r) ==
    /\ ~scan.locked
    /\ run[r].status = "pending"
    /\ accepting[run[r].agent]
    /\ run' = Stamp({r}, IF run[r].expires <= now THEN "expired" ELSE "running")
    /\ UNCHANGED <<now, plan, accepting, scan, request>>

\* update_run_status; the watchdog, too, ends a run as failed.
Finish(r, outcome) ==
    /\ ~scan.locked
    /\ run[r].status = "running"
    /\ run' = Stamp({r}, outcome)
    /\ UNCHANGED <<now, plan, accepting, scan, request>>

CancelRun(r) ==
    /\ ~scan.locked
    /\ run[r].status \in Active
    /\ run' = Stamp({r}, "cancelled")
    /\ UNCHANGED <<now, plan, accepting, scan, request>>

\* _stop_active_work and the device row of disable_agent and delete_agent.
PauseDevice(a) ==
    /\ ~scan.locked
    /\ accepting[a]
    /\ accepting' = [accepting EXCEPT ![a] = FALSE]
    /\ plan' = [p \in Plan |-> IF plan[p].state = "live" /\ plan[p].agent = a
                               THEN [plan[p] EXCEPT !.enabled = FALSE] ELSE plan[p]]
    /\ run' = Stamp({r \in Run : run[r].agent = a /\ run[r].status \in Active}, "cancelled")
    /\ UNCHANGED <<now, scan, request>>

\* enable_agent: paused plans stay paused.
ResumeDevice(a) ==
    /\ ~scan.locked
    /\ ~accepting[a]
    /\ accepting' = [accepting EXCEPT ![a] = TRUE]
    /\ UNCHANGED <<now, plan, run, scan, request>>

Tick ==
    /\ now < MaxTime
    /\ now' = now + 1
    /\ UNCHANGED <<plan, run, accepting, scan, request>>

-----------------------------------------------------------------------------

Scanner ==
    \/ ScanStart \/ ScanList \/ ScanCreate \/ ScanRefuse \/ ScanCommit
    \/ \E p \in Plan : ScanMiss(p) \/ ScanAccept(p)

PlanRequests ==
    \/ \E t \in Thread, a \in Agent : CreateBegin(t, a)
    \/ \E t \in Thread, on, given \in BOOLEAN : CreateCommit(t, on, given)
    \/ \E t \in Thread, p \in Plan, a \in Agent, on \in {"keep", "on", "off"} :
          UpdateBegin(t, p, a, on)
    \/ \E t \in Thread, newRule, given \in BOOLEAN : UpdateCommit(t, newRule, given)
    \/ \E t \in Thread, p \in Plan : EnableBegin(t, p) \/ DisableBegin(t, p)
    \/ \E t \in Thread : EnableCommit(t) \/ DisableCommit(t) \/ Abort(t)
    \/ \E p \in Plan : DeletePlan(p)

\* Runs of a plan that the administrator asks for.
RunRequests ==
    \/ \E t \in Thread, p \in Plan : RunNowBegin(t, p)
    \/ \E t \in Thread, r \in Run : RetryBegin(t, r)
    \/ \E t \in Thread : InsertCommit(t)

Devices ==
    \/ \E r \in Run : Claim(r) \/ CancelRun(r)
    \/ \E r \in Run, outcome \in {"success", "failed"} : Finish(r, outcome)
    \/ \E a \in Agent : PauseDevice(a) \/ ResumeDevice(a)

Next == Scanner \/ ScanAbort \/ PlanRequests \/ RunRequests \/ Devices \/ Tick

\* Plans are created and otherwise left alone.
NextUnedited ==
    \/ Scanner \/ ScanAbort \/ Devices \/ Tick
    \/ \E t \in Thread, a \in Agent : CreateBegin(t, a)
    \/ \E t \in Thread, on, given \in BOOLEAN : CreateCommit(t, on, given)

Spec         == Init /\ [][Next]_vars
UneditedSpec == Init /\ [][NextUnedited]_vars

-----------------------------------------------------------------------------
(* Properties *)

\* The scan never gives a plan a second run while one that it created is waiting
\* or running, whatever is done to plans and devices between its check and its
\* insert (the active check of _managed_schedule_scan, made before the lock).
ScanRunsDoNotOverlap ==
    \A r, q \in Run : /\ run[r].byScan /\ run[r].status \in Active
                      /\ run[q].byScan /\ run[q].status \in Active
                      /\ run[r].plan = run[q].plan
                      => r = q

\* An occurrence whose deadline had passed when the scan started is not made up
\* for, also when the cursor was moved while the scan was in progress
\* (_managed_schedule_scan, original_expires_at).
NoCatchUp ==
    [][\A r \in Run : run[r].status = "unused" /\ run'[r].status = "pending" /\ run'[r].byScan
          => run'[r].expires > scan.began]_vars

\* An occurrence whose run failed, for instance because the device went away, is
\* not run again by itself: only the administrator's retry repeats it.
FailedOccurrenceNotRerun ==
    \A r, q \in Run : /\ run[r].byScan /\ run[q].byScan
                      /\ run[r].plan = run[q].plan /\ run[r].due = run[q].due
                      /\ run[r].status = "failed"
                      => r = q

-----------------------------------------------------------------------------
(* The scheduler thread loops for ever: iterations fail, at any point, but    *)
(* again and again one of them completes, and time goes on between them.      *)

ScanFairness == []<><<ScanCommit>>_vars

FairUneditedSpec == UneditedSpec /\ ScanFairness

\* The lock for another plan's run is about to discard what the scan has decided on p.
DecisionLost(p) == scan.pc = "create" /\ scan.current # p /\ scan.draft[p] # scan.loaded[p]

\* An occurrence is never passed over in silence: if a plan is due, a run for the
\* occurrence is created or its miss is recorded, unless the plan is paused.  The
\* lock for another plan's run discards the miss and the cursor together, so that a
\* later scan decides again; only runs of other plans that are created or refused
\* behind it in scan after scan put it off for ever (_managed_schedule_scan,
\* lock_script_for_lifecycle).
DueOccurrenceAccounted ==
    \A p \in Plan :
       \/ []<>DecisionLost(p)
       \/ \A d \in Instant :
            (plan[p].state = "live" /\ plan[p].enabled /\ plan[p].next = d /\ d <= now)
            ~> (\/ ~plan[p].enabled
                \/ plan[p].missed = d
                \/ \E r \in Run : run[r].plan = p /\ run[r].due = d)

=============================================================================
