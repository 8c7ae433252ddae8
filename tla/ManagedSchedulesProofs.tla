----------------------- MODULE ManagedSchedulesProofs -----------------------
(***************************************************************************)
(* Type correctness of ManagedSchedules, that the scan never gives a plan   *)
(* two active runs, and that it makes up for nothing past its deadline, for *)
(* any number of plans, runs, devices and administrators, any period and    *)
(* any deadline.                                                            *)
(***************************************************************************)
EXTENDS ManagedSchedules, TLAPS

-----------------------------------------------------------------------------
(* The cursor *)

\* Integer division, as the two cursor functions use it.
LEMMA Division ==
    ASSUME NEW a \in Nat, NEW d \in Nat \ {0}
    PROVE  /\ a \div d \in Nat
           /\ (a \div d) * d <= a
           /\ a < (a \div d + 1) * d
  <1>1. a \div d \in Nat
    OBVIOUS
  <1>2. a = d * (a \div d) + (a % d) /\ a % d \in 0 .. d - 1
    OBVIOUS
  <1> QED
    BY <1>1, <1>2

\* An interval cursor lands on the first instant of its grid after now: it is
\* beyond now, at most one interval beyond, and a whole number of intervals from
\* the occurrence that was due, so no rhythm is lost and no backlog is left
\* (_advance_next_run).
THEOREM AdvanceIsNextOccurrence ==
    ASSUME NEW due \in Nat, NEW interval \in Nat \ {0}, NEW t \in Nat, due <= t
    PROVE  /\ AdvanceNextRun(due, interval, t) \in Nat
           /\ t < AdvanceNextRun(due, interval, t)
           /\ AdvanceNextRun(due, interval, t) <= t + interval
           /\ \E k \in Nat : AdvanceNextRun(due, interval, t) = due + k * interval
  <1> DEFINE a == t - due
             q == a \div interval
  <1>1. a \in Nat /\ q \in Nat
    OBVIOUS
  <1>2. q * interval <= a /\ a < (q + 1) * interval
    BY <1>1, Division
  <1>3. AdvanceNextRun(due, interval, t) = due + (q + 1) * interval
    BY DEF AdvanceNextRun
  <1>4. (q + 1) * interval = q * interval + interval /\ (q + 1) * interval \in Nat
    BY <1>1
  <1> HIDE DEF q
  <1>5. q + 1 \in Nat
    BY <1>1
  <1> QED
    BY <1>1, <1>2, <1>3, <1>4, <1>5

\* A cron cursor, too, is beyond now by at most one period.
LEMMA CronNextRange ==
    ASSUME NEW period \in Nat \ {0}, NEW t \in Nat
    PROVE  /\ CronNext(period, t) \in Nat
           /\ t < CronNext(period, t)
           /\ CronNext(period, t) <= t + period
  <1> DEFINE q == t \div period
  <1>1. q \in Nat /\ q * period <= t /\ t < (q + 1) * period
    BY Division
  <1>2. (q + 1) * period = q * period + period /\ (q + 1) * period \in Nat
    BY <1>1
  <1> HIDE DEF q
  <1> QED
    BY <1>1, <1>2 DEF CronNext, q

\* Whatever was due, the scan leaves a cursor after now and within one period of
\* the later of the two (_next_schedule_run).
THEOREM NextRunBounds ==
    ASSUME NEW cron \in BOOLEAN, NEW due \in Nat, NEW interval \in Nat \ {0}, NEW t \in Nat
    PROVE  /\ NextScheduleRun(cron, due, interval, t) \in Nat
           /\ t < NextScheduleRun(cron, due, interval, t)
           /\ \/ NextScheduleRun(cron, due, interval, t) <= t + interval
              \/ NextScheduleRun(cron, due, interval, t) = due
  <1>1. CASE cron
    BY <1>1, CronNextRange DEF NextScheduleRun
  <1>2. CASE ~cron /\ due > t
    BY <1>2 DEF NextScheduleRun, AdvanceNextRun
  <1>3. CASE ~cron /\ due <= t
    BY <1>3, AdvanceIsNextOccurrence DEF NextScheduleRun
  <1> QED
    BY <1>1, <1>2, <1>3

-----------------------------------------------------------------------------
(* The invariant *)


\* A request that writes a plan has loaded one.
RequestInv ==
    \A t \in Thread : request[t].kind \in {"update", "enable", "disable"}
                      => request[t].plan \in Plan

RequestsTyped == request \in [Thread -> Request] /\ RequestInv

\* The time of a scan is not ahead of the clock, and the plan that is being
\* turned into a run is one.
ScanInv ==
    /\ scan.began <= now
    /\ scan.pc = "create" => scan.current \in Plan

Typed == TypeOK /\ RequestInv /\ ScanInv

\* Runs that the scan created and that are waiting or running.
Live(r)      == run[r].status \in Active
ActiveRun(r) == Live(r) /\ run[r].byScan

\* The plan the scan is about to create a run for has none.
Free(p)      == \A r \in Run : ActiveRun(r) => run[r].plan # p
CurrentQuiet == scan.pc = "create" => Free(scan.current)

Quiet == ScanRunsDoNotOverlap /\ CurrentQuiet

-----------------------------------------------------------------------------
(* Operators *)

LEMMA IntervalFacts == Interval \in Nat \ {0} /\ Expiry \in Nat \ {0} /\ MaxTime \in Nat \ {0}
  BY ScheduleAssumption

LEMMA NextTimeType ==
    ASSUME now \in 1 .. MaxTime, NEW p \in Plan
    PROVE  NextTime(p) \in Instant /\ now \in Instant
  <1>3. now \in Nat /\ Interval \in Nat \ {0}
    BY IntervalFacts
  <1>4. NextTime(p) \in Nat /\ NextTime(p) <= now + Interval
    <2>1. CASE p \in CronPlan
      BY <2>1, <1>3, CronNextRange DEF NextTime, NextScheduleTime
    <2>2. CASE p \notin CronPlan
      BY <2>2, <1>3 DEF NextTime, NextScheduleTime
    <2> QED
      BY <2>1, <2>2
  <1> QED
    BY <1>4, IntervalFacts DEF Instant

LEMMA FlushType ==
    ASSUME NEW c \in PlanRow, NEW l \in PlanRow, NEW v \in PlanRow
    PROVE  Flush(c, l, v) \in PlanRow
  BY DEF Flush, PlanRow

LEMMA StampType ==
    ASSUME run \in [Run -> RunRow], NEW S \in SUBSET Run, NEW s \in Status
    PROVE  /\ Stamp(S, s) \in [Run -> RunRow]
           /\ \A r \in Run : /\ Stamp(S, s)[r].plan = run[r].plan
                             /\ Stamp(S, s)[r].byScan = run[r].byScan
                             /\ Stamp(S, s)[r].status = IF r \in S THEN s ELSE run[r].status
  BY DEF Stamp, RunRow

LEMMA NewRunType ==
    ASSUME NEW p \in Plan \cup {None}, NEW a \in Agent \cup {None}, NEW d \in Instant,
           NEW b \in BOOLEAN
    PROVE  /\ NewRun(p, a, d, b) \in RunRow
           /\ NewRun(p, a, d, b).plan = p /\ NewRun(p, a, d, b).byScan = b
  BY IntervalFacts DEF NewRun, RunRow, Status, Instant

LEMMA NoRows == NoRun \in RunRow /\ NoPlan \in PlanRow /\ Idle \in Request
  BY IntervalFacts DEF NoRun, RunRow, NoPlan, PlanRow, Idle, Request, Instant, Status

LEMMA NoScanType ==
    ASSUME NEW b \in Instant
    PROVE  [NoScan EXCEPT !.began = b] \in Scan /\ NoScan \in Scan
  <1>1. 0 \in Instant
    BY IntervalFacts DEF Instant
  <1>2. /\ [p \in Plan |-> 0] \in [Plan -> Instant]
        /\ [p \in Plan |-> NoPlan] \in [Plan -> PlanRow]
    BY <1>1, NoRows
  <1> QED
    BY <1>1, <1>2 DEF NoScan, Scan

\* The cursor the scan computes stays within the clock's range.
LEMMA AdvancedType ==
    ASSUME Typed, NEW p \in Plan, NEW d \in Instant
    PROVE  Advanced(p, d) \in [Plan -> PlanRow]
  <1>1. scan.draft \in [Plan -> PlanRow] /\ scan.began \in Nat /\ scan.began <= MaxTime
    BY IntervalFacts DEF Typed, TypeOK, Scan, ScanInv, Instant
  <1>2. d \in Nat /\ d <= MaxTime + Interval
    BY IntervalFacts DEF Instant
  <1> DEFINE n == NextScheduleRun(p \in CronPlan, d, Interval, scan.began)
  <1>4. n \in Nat /\ (n <= scan.began + Interval \/ n = d)
    <2>1. CASE p \in CronPlan
      BY <2>1, <1>1, CronNextRange, IntervalFacts DEF NextScheduleRun
    <2>2. CASE p \notin CronPlan /\ d > scan.began
      BY <2>2, <1>2 DEF NextScheduleRun, AdvanceNextRun
    <2>3. CASE p \notin CronPlan /\ d <= scan.began
      BY <2>3, <1>1, <1>2, AdvanceIsNextOccurrence, IntervalFacts DEF NextScheduleRun
    <2> QED
      BY <2>1, <2>2, <2>3, <1>1, <1>2
  <1>6. Advanced(p, d) = [scan.draft EXCEPT ![p].next = n]
    BY DEF Advanced
  <1> HIDE DEF n
  <1>5. n \in Instant
    BY <1>1, <1>2, <1>4, IntervalFacts DEF Instant
  <1> QED
    BY <1>1, <1>5, <1>6 DEF PlanRow

LEMMA RememberType ==
    ASSUME RequestsTyped, NEW t \in Thread, NEW req \in Request,
           req.kind \in {"update", "enable", "disable"} => req.plan \in Plan,
           Remember(t, req)
    PROVE  RequestsTyped'
  BY DEF RequestsTyped, RequestInv, Remember

LEMMA DoneType ==
    ASSUME RequestsTyped, NEW t \in Thread, Done(t)
    PROVE  RequestsTyped'
  BY NoRows DEF RequestsTyped, RequestInv, Done, Idle

-----------------------------------------------------------------------------
(* Type correctness *)

LEMMA TypedInit == Init => Typed
  <1> SUFFICES ASSUME Init PROVE Typed
    OBVIOUS
  <1>1. 0 \in Instant /\ 1 \in 1 .. MaxTime
    BY IntervalFacts DEF Instant
  <1>3. NoScan \in Scan
    BY <1>1, NoScanType
  <1>4. TypeOK
    BY <1>1, <1>3, NoRows DEF Init, TypeOK
  <1>5. RequestInv /\ ScanInv
    BY DEF Init, RequestInv, ScanInv, Idle, NoScan
  <1> QED
    BY <1>4, <1>5 DEF Typed

\* What every step keeps when it does not touch the session of the scan.
LEMMA KeepsScan ==
    ASSUME Typed, scan' = scan, now' \in 1 .. MaxTime, now <= now',
           plan' \in [Plan -> PlanRow], run' \in [Run -> RunRow],
           accepting' \in [Agent -> BOOLEAN], RequestsTyped'
    PROVE  Typed'
  <1>1. scan.began \in Nat
    BY DEF Typed, TypeOK, Scan, Instant
  <1>2. now \in Nat /\ now' \in Nat
    BY DEF Typed, TypeOK
  <1> QED
    BY <1>1, <1>2 DEF Typed, TypeOK, ScanInv, RequestsTyped

\* What a step of the scan has to establish.
LEMMA KeepsRest ==
    ASSUME Typed, UNCHANGED <<now, accepting, request>>,
           plan' \in [Plan -> PlanRow], run' \in [Run -> RunRow], scan' \in Scan,
           scan'.began <= now, scan'.pc = "create" => scan'.current \in Plan
    PROVE  Typed'
  BY DEF Typed, TypeOK, RequestInv, ScanInv

LEMMA ScannerTyped ==
    ASSUME Typed, Scanner \/ ScanAbort
    PROVE  Typed'
  <1>0. /\ run \in [Run -> RunRow] /\ plan \in [Plan -> PlanRow]
        /\ scan \in Scan /\ scan.began <= now /\ now \in 1 .. MaxTime
        /\ scan.began \in Instant
    BY DEF Typed, TypeOK, ScanInv, Scan
  <1>1. CASE ScanStart
    <2>1. now \in Instant
      BY <1>0, IntervalFacts DEF Instant
    <2>2. [NoScan EXCEPT !.began = now] \in Scan
      BY <2>1, NoScanType
    <2>3. scan' = [[NoScan EXCEPT !.began = now] EXCEPT !.pc = "list",
                     !.expired = {r \in Run : run[r].status = "pending" /\ run[r].expires <= now}]
      BY <1>1 DEF ScanStart, NoScan
    <2>4. scan' \in Scan /\ scan'.began = now /\ scan'.pc = "list"
      BY <2>2, <2>3 DEF Scan, NoScan
    <2> QED
      BY <1>0, <1>1, <2>4, KeepsRest DEF ScanStart
  <1>2. CASE ScanList
    <2>1. PICK due \in SUBSET Plan, at \in [Plan -> Instant] :
             scan' = [scan EXCEPT !.pc = "loop", !.due = due, !.at = at,
                                  !.loaded = plan, !.draft = plan]
      <3> DEFINE due == {p \in Plan : plan[p].state = "live" /\ plan[p].enabled
                                      /\ plan[p].next <= scan.began}
                 at == [p \in Plan |-> IF p \in due THEN plan[p].next ELSE 0]
      <3>1. at \in [Plan -> Instant]
        BY <1>0, IntervalFacts DEF PlanRow, Instant
      <3>2. scan' = [scan EXCEPT !.pc = "loop", !.due = due, !.at = at,
                                 !.loaded = plan, !.draft = plan]
        BY <1>2 DEF ScanList
      <3> QED
        BY <3>1, <3>2
    <2>2. scan' \in Scan /\ scan'.began = scan.began /\ scan'.pc = "loop"
      BY <1>0, <2>1 DEF Scan
    <2> QED
      BY <1>0, <1>2, <2>2, KeepsRest DEF ScanList
  <1>3. ASSUME NEW p \in Plan, ScanMiss(p)
        PROVE  Typed'
    <2>1. PICK d \in Instant : d = scan.draft[p].next
      BY <1>0 DEF Scan, PlanRow
    <2>2. Advanced(p, d) \in [Plan -> PlanRow]
      BY AdvancedType
    <2>3. PICK draft \in [Plan -> PlanRow] :
             scan' = [scan EXCEPT !.due = @ \ {p}, !.draft = draft]
      <3>1. [Advanced(p, d) EXCEPT ![p].missed = d] \in [Plan -> PlanRow]
        BY <2>2 DEF PlanRow
      <3> QED
        BY <1>3, <2>1, <3>1 DEF ScanMiss
    <2>4. scan.pc = "loop"
      BY <1>3 DEF ScanMiss
    <2>5. scan' \in Scan /\ scan'.began = scan.began /\ scan'.pc = "loop"
      BY <1>0, <2>3, <2>4 DEF Scan
    <2> QED
      BY <1>0, <1>3, <2>5, KeepsRest DEF ScanMiss
  <1>4. ASSUME NEW p \in Plan, ScanAccept(p)
        PROVE  Typed'
    <2>1. PICK d \in Instant : d = scan.draft[p].next
      BY <1>0 DEF Scan, PlanRow
    <2>2. PICK draft \in [Plan -> PlanRow] :
             scan' = [scan EXCEPT !.pc = "create", !.due = @ \ {p}, !.current = p,
                                  !.dueAt = d, !.draft = draft]
      BY <1>4, <2>1, AdvancedType DEF ScanAccept
    <2>3. scan' \in Scan /\ scan'.began = scan.began /\ scan'.current = p
      BY <1>0, <2>2 DEF Scan
    <2> QED
      BY <1>0, <1>4, <2>3, KeepsRest DEF ScanAccept
  <1>5. Refreshed \in Scan /\ Refreshed.began = scan.began /\ Refreshed.pc = "loop"
    BY <1>0 DEF Refreshed, Scan
  <1>6. CASE ScanCreate
    <2>1. PICK a \in Agent \cup {None}, d \in Instant, p \in Plan :
             a = scan.draft[p].agent /\ d = scan.dueAt /\ p = scan.current
      BY <1>0, <1>6 DEF Typed, ScanInv, ScanCreate, Scan, PlanRow
    <2>2. PICK r \in Run : /\ run' = [run EXCEPT ![r] = NewRun(p, a, d, TRUE)]
                           /\ scan' = [Refreshed EXCEPT !.created = @ \cup {r}]
      BY <1>6, <2>1 DEF ScanCreate
    <2>3. run' \in [Run -> RunRow]
      BY <1>0, <2>2, NewRunType
    <2>4. scan' \in Scan /\ scan'.began = scan.began /\ scan'.pc = "loop"
      BY <1>5, <2>2 DEF Scan
    <2> QED
      BY <1>0, <1>6, <2>3, <2>4, KeepsRest DEF ScanCreate
  <1>7. CASE ScanRefuse
    <2>0. PICK p \in Plan, d \in Instant : p = scan.current /\ d = scan.dueAt
      BY <1>0, <1>7 DEF Typed, ScanInv, ScanRefuse, Scan
    <2>2. PICK draft \in [Plan -> PlanRow] : draft = [Refreshed.draft EXCEPT ![p].missed = d]
      BY <1>5 DEF Scan, PlanRow
    <2>3. scan' = [Refreshed EXCEPT !.draft = draft]
      BY <1>7, <2>0, <2>2 DEF ScanRefuse
    <2>1. scan' \in Scan /\ scan'.began = scan.began /\ scan'.pc = "loop"
      BY <1>5, <2>3 DEF Scan
    <2> QED
      BY <1>0, <1>7, <2>1, KeepsRest DEF ScanRefuse
  <1>8. [NoScan EXCEPT !.began = scan.began] \in Scan
    BY <1>0, NoScanType
  <1>9. CASE ScanCommit
    <2>1. plan' \in [Plan -> PlanRow]
      BY <1>0, <1>9, FlushType DEF ScanCommit, Scan
    <2>2. run' \in [Run -> RunRow]
      BY <1>0, <1>9, StampType DEF ScanCommit, Scan, Status
    <2>3. scan' \in Scan /\ scan'.began = scan.began /\ scan'.pc = "idle"
      BY <1>8, <1>9 DEF ScanCommit, NoScan
    <2> QED
      BY <1>0, <1>9, <2>1, <2>2, <2>3, KeepsRest DEF ScanCommit
  <1>10. CASE ScanAbort
    <2>1. run' \in [Run -> RunRow]
      BY <1>0, <1>10, NoRows DEF ScanAbort
    <2>2. scan' \in Scan /\ scan'.began = scan.began /\ scan'.pc = "idle"
      BY <1>8, <1>10 DEF ScanAbort, NoScan
    <2> QED
      BY <1>0, <1>10, <2>1, <2>2, KeepsRest DEF ScanAbort
  <1> QED
    BY <1>1, <1>2, <1>3, <1>4, <1>6, <1>7, <1>9, <1>10 DEF Scanner

LEMMA RequestsTypedStep ==
    ASSUME Typed, PlanRequests \/ RunRequests
    PROVE  Typed'
  <1>0. /\ run \in [Run -> RunRow] /\ plan \in [Plan -> PlanRow]
        /\ accepting \in [Agent -> BOOLEAN] /\ request \in [Thread -> Request]
        /\ now \in 1 .. MaxTime /\ now <= now /\ RequestsTyped
    BY DEF Typed, TypeOK, RequestsTyped
  <1>1. Idle \in Request /\ Idle.kind = "idle"
    BY NoRows DEF Idle
  <1>2. ASSUME NEW t \in Thread, NEW req \in Request, Remember(t, req),
               req.kind \in {"update", "enable", "disable"} => req.plan \in Plan,
               UNCHANGED <<now, plan, run, accepting, scan>>
        PROVE  Typed'
    <2>1. RequestsTyped'
      BY <1>0, <1>2, RememberType
    <2> QED
      BY <1>0, <1>2, <2>1, KeepsScan
  <1>3. ASSUME NEW t \in Thread, Done(t), UNCHANGED <<now, accepting, scan>>,
               plan' \in [Plan -> PlanRow], run' \in [Run -> RunRow]
        PROVE  Typed'
    <2>1. RequestsTyped'
      BY <1>0, <1>3, DoneType
    <2> QED
      BY <1>0, <1>3, <2>1, KeepsScan
  <1>4. now \in Instant /\ \A p \in Plan : NextTime(p) \in Instant
    BY <1>0, NextTimeType, IntervalFacts DEF Instant
  <1>5. \A p \in Plan : plan[p] \in PlanRow /\ plan[p].agent \in Agent \cup {None}
    BY <1>0 DEF PlanRow
  <1>6. \A r \in Run : run[r].agent \in Agent \cup {None} /\ run[r].plan \in Plan \cup {None}
    BY <1>0 DEF RunRow
  <1>11. ASSUME NEW t \in Thread, NEW a \in Agent, CreateBegin(t, a) PROVE Typed'
    <2>1. [Idle EXCEPT !.kind = "create", !.agent = a] \in Request
      BY <1>1 DEF Request
    <2> QED
      BY <1>2, <1>11, <2>1 DEF CreateBegin, Idle
  <1>12. ASSUME NEW t \in Thread, NEW on \in BOOLEAN, NEW given \in BOOLEAN,
                CreateCommit(t, on, given)
         PROVE  Typed'
    <2>1. PICK p \in Plan, n \in Instant, a \in Agent \cup {None} :
             plan' = [plan EXCEPT ![p] = [state |-> "live", agent |-> a, enabled |-> on,
                                          missed |-> 0, next |-> n]]
      <3>1. PICK p \in Plan :
               plan' = [plan EXCEPT ![p] =
                 [state |-> "live", agent |-> request[t].agent, enabled |-> on, missed |-> 0,
                  next |-> IF given /\ p \notin CronPlan THEN now ELSE NextTime(p)]]
        BY <1>12 DEF CreateCommit
      <3>2. PICK n \in Instant : n = IF given /\ p \notin CronPlan THEN now ELSE NextTime(p)
        BY <1>4
      <3>3. request[t].agent \in Agent \cup {None}
        BY <1>0 DEF Request
      <3> QED
        BY <3>1, <3>2, <3>3
    <2>2. 0 \in Instant
      BY IntervalFacts DEF Instant
    <2>3. plan' \in [Plan -> PlanRow]
      BY <1>0, <2>1, <2>2 DEF PlanRow
    <2> QED
      BY <1>0, <1>3, <1>12, <2>3 DEF CreateCommit
  <1>13. ASSUME NEW t \in Thread, NEW p \in Plan, NEW a \in Agent, NEW on \in {"keep", "on", "off"},
                UpdateBegin(t, p, a, on)
         PROVE  Typed'
    <2>1. PICK b \in Agent \cup {None} : b = IF a = plan[p].agent THEN None ELSE a
      OBVIOUS
    <2>2. [Idle EXCEPT !.kind = "update", !.plan = p, !.on = on, !.agent = b] \in Request
      BY <1>1 DEF Request
    <2>3. Remember(t, [Idle EXCEPT !.kind = "update", !.plan = p, !.on = on, !.agent = b])
      BY <1>13, <2>1 DEF UpdateBegin
    <2> QED
      BY <1>2, <1>13, <2>2, <2>3 DEF UpdateBegin, Idle
  <1>14. ASSUME NEW t \in Thread, NEW newRule \in BOOLEAN, NEW given \in BOOLEAN,
                UpdateCommit(t, newRule, given)
         PROVE  Typed'
    <2>1. PICK p \in Plan : p = request[t].plan
      BY <1>0, <1>14 DEF UpdateCommit, RequestsTyped, RequestInv
    <2>2. plan' = [plan EXCEPT
             ![p].agent = IF request[t].agent = None THEN @ ELSE request[t].agent,
             ![p].enabled = (request[t].on = "on") \/ (request[t].on = "keep" /\ @),
             ![p].next = IF newRule \/ (request[t].on = "on" /\ ~plan[p].enabled)
                            \/ (given /\ p \in CronPlan)
                         THEN NextTime(p)
                         ELSE IF given THEN now ELSE @]
      BY <1>14, <2>1 DEF UpdateCommit
    <2>3. PICK n \in Instant :
             n = IF newRule \/ (request[t].on = "on" /\ ~plan[p].enabled) \/ (given /\ p \in CronPlan)
                 THEN NextTime(p) ELSE IF given THEN now ELSE plan[p].next
      BY <1>4, <1>5 DEF PlanRow
    <2>4. PICK b \in Agent \cup {None} :
             b = IF request[t].agent = None THEN plan[p].agent ELSE request[t].agent
      BY <1>0, <1>5 DEF Request
    <2>5. PICK e \in BOOLEAN :
             e = ((request[t].on = "on") \/ (request[t].on = "keep" /\ plan[p].enabled))
      BY Zenon
    <2>6. plan' = [plan EXCEPT ![p] = [plan[p] EXCEPT !.agent = b, !.enabled = e, !.next = n]]
      BY <1>0, <2>2, <2>3, <2>4, <2>5 DEF PlanRow
    <2>7. plan' \in [Plan -> PlanRow]
      BY <1>0, <2>6 DEF PlanRow
    <2> QED
      BY <1>0, <1>3, <1>14, <2>7 DEF UpdateCommit
  <1>15. ASSUME NEW t \in Thread, NEW p \in Plan, EnableBegin(t, p) PROVE Typed'
    <2>1. [Idle EXCEPT !.kind = "enable", !.plan = p, !.row = plan[p]] \in Request
      BY <1>1, <1>5 DEF Request
    <2> QED
      BY <1>2, <1>15, <2>1 DEF EnableBegin, Idle
  <1>16. ASSUME NEW t \in Thread, NEW p \in Plan, DisableBegin(t, p) PROVE Typed'
    <2>1. [Idle EXCEPT !.kind = "disable", !.plan = p, !.row = plan[p]] \in Request
      BY <1>1, <1>5 DEF Request
    <2> QED
      BY <1>2, <1>16, <2>1 DEF DisableBegin, Idle
  <1>17. ASSUME NEW t \in Thread, EnableCommit(t) PROVE Typed'
    <2>1. PICK p \in Plan, row \in PlanRow : p = request[t].plan /\ row = request[t].row
      BY <1>0, <1>17 DEF EnableCommit, RequestsTyped, RequestInv, Request
    <2>2. [row EXCEPT !.enabled = TRUE, !.next = NextTime(p)] \in PlanRow
      BY <1>4, <2>1 DEF PlanRow
    <2>3. plan' = [plan EXCEPT ![p] = Flush(plan[p], row, [row EXCEPT !.enabled = TRUE,
                                                                      !.next = NextTime(p)])]
      BY <1>17, <2>1 DEF EnableCommit
    <2>4. plan' \in [Plan -> PlanRow]
      BY <1>0, <1>5, <2>2, <2>3, FlushType
    <2> QED
      BY <1>0, <1>3, <1>17, <2>4 DEF EnableCommit
  <1>18. ASSUME NEW t \in Thread, DisableCommit(t) PROVE Typed'
    <2>1. PICK p \in Plan, row \in PlanRow : p = request[t].plan /\ row = request[t].row
      BY <1>0, <1>18 DEF DisableCommit, RequestsTyped, RequestInv, Request
    <2>2. [row EXCEPT !.enabled = FALSE] \in PlanRow
      BY DEF PlanRow
    <2>3. plan' = [plan EXCEPT ![p] = Flush(plan[p], row, [row EXCEPT !.enabled = FALSE])]
      BY <1>18, <2>1 DEF DisableCommit
    <2>4. plan' \in [Plan -> PlanRow]
      BY <1>0, <1>5, <2>2, <2>3, FlushType
    <2> QED
      BY <1>0, <1>3, <1>18, <2>4 DEF DisableCommit
  <1>19. ASSUME NEW t \in Thread, Abort(t) PROVE Typed'
    BY <1>0, <1>3, <1>19 DEF Abort
  <1>20. ASSUME NEW p \in Plan, DeletePlan(p) PROVE Typed'
    <2>1. plan' \in [Plan -> PlanRow]
      BY <1>0, <1>20 DEF DeletePlan, PlanRow
    <2>2. run' \in [Run -> RunRow]
      BY <1>0, <1>20, StampType DEF DeletePlan, Status
    <2>3. RequestsTyped'
      BY <1>0, <1>20 DEF DeletePlan, RequestsTyped, RequestInv
    <2> QED
      BY <1>0, <1>20, <2>1, <2>2, <2>3, KeepsScan DEF DeletePlan
  <1>21. ASSUME NEW t \in Thread, NEW p \in Plan, RunNowBegin(t, p) PROVE Typed'
    <2>1. [Idle EXCEPT !.kind = "insert", !.plan = p, !.agent = plan[p].agent, !.at = now] \in Request
      BY <1>1, <1>4, <1>5 DEF Request
    <2> QED
      BY <1>2, <1>21, <2>1 DEF RunNowBegin, Idle
  <1>22. ASSUME NEW t \in Thread, NEW r \in Run, RetryBegin(t, r) PROVE Typed'
    <2>1. [Idle EXCEPT !.kind = "insert", !.plan = run[r].plan, !.agent = run[r].agent,
                       !.at = now] \in Request
      BY <1>1, <1>4, <1>6 DEF Request
    <2> QED
      BY <1>2, <1>22, <2>1 DEF RetryBegin, Idle
  <1>23. ASSUME NEW t \in Thread, InsertCommit(t) PROVE Typed'
    <2>1. PICK p \in Plan \cup {None}, a \in Agent \cup {None}, d \in Instant :
             p = request[t].plan /\ a = request[t].agent /\ d = request[t].at
      BY <1>0 DEF Request
    <2>2. PICK r \in Run : run' = [run EXCEPT ![r] = NewRun(p, a, d, FALSE)]
      BY <1>23, <2>1 DEF InsertCommit
    <2>3. run' \in [Run -> RunRow]
      BY <1>0, <2>2, NewRunType
    <2> QED
      BY <1>0, <1>3, <1>23, <2>3 DEF InsertCommit
  <1> QED
    BY <1>11, <1>12, <1>13, <1>14, <1>15, <1>16, <1>17, <1>18, <1>19, <1>20, <1>21, <1>22, <1>23
       DEF PlanRequests, RunRequests

LEMMA DevicesTyped ==
    ASSUME Typed, Devices \/ Tick
    PROVE  Typed'
  <1>0. /\ run \in [Run -> RunRow] /\ plan \in [Plan -> PlanRow]
        /\ accepting \in [Agent -> BOOLEAN] /\ now \in 1 .. MaxTime /\ now <= now
        /\ RequestsTyped
    BY DEF Typed, TypeOK, RequestsTyped
  <1>1. UNCHANGED request => RequestsTyped'
    BY <1>0 DEF RequestsTyped, RequestInv
  <1>2. ASSUME NEW r \in Run, NEW s \in Status, run' = Stamp({r}, s),
               UNCHANGED <<now, plan, accepting, scan, request>>
        PROVE  Typed'
    <2>1. PICK S \in SUBSET Run : run' = Stamp(S, s)
      BY <1>2
    <2>2. run' \in [Run -> RunRow]
      BY <1>0, <2>1, StampType
    <2> QED
      BY <1>0, <1>1, <1>2, <2>2, KeepsScan
  <1>3. ASSUME NEW r \in Run, Claim(r) \/ CancelRun(r) PROVE Typed'
    <2>1. PICK s \in Status : run' = Stamp({r}, s)
      BY <1>3 DEF Claim, CancelRun, Status
    <2> QED
      BY <1>2, <1>3, <2>1 DEF Claim, CancelRun
  <1>4. ASSUME NEW r \in Run, NEW s \in {"success", "failed"}, Finish(r, s) PROVE Typed'
    <2>1. s \in Status
      BY DEF Status
    <2> QED
      BY <1>2, <1>4, <2>1 DEF Finish
  <1>5. ASSUME NEW a \in Agent, PauseDevice(a) PROVE Typed'
    <2>1. plan' \in [Plan -> PlanRow]
      BY <1>0, <1>5 DEF PauseDevice, PlanRow
    <2>2. run' \in [Run -> RunRow]
      BY <1>0, <1>5, StampType DEF PauseDevice, Status
    <2> QED
      BY <1>0, <1>1, <1>5, <2>1, <2>2, KeepsScan DEF PauseDevice
  <1>6. ASSUME NEW a \in Agent, ResumeDevice(a) PROVE Typed'
    <2>1. accepting' \in [Agent -> BOOLEAN]
      BY <1>0, <1>6 DEF ResumeDevice
    <2>2. UNCHANGED <<now, plan, run, scan, request>>
      BY <1>6 DEF ResumeDevice
    <2> QED
      BY <1>0, <1>1, <2>1, <2>2, KeepsScan
  <1>7. CASE Tick
    <2>1. now' \in 1 .. MaxTime /\ now <= now'
      BY <1>0, <1>7, IntervalFacts DEF Tick
    <2> QED
      BY <1>0, <1>1, <1>7, <2>1, KeepsScan DEF Tick
  <1> QED
    BY <1>3, <1>4, <1>5, <1>6, <1>7 DEF Devices

LEMMA TypedStep == Typed /\ [Next]_vars => Typed'
  <1> SUFFICES ASSUME Typed, [Next]_vars PROVE Typed'
    OBVIOUS
  <1>1. CASE UNCHANGED vars
    BY <1>1 DEF vars, Typed, TypeOK, RequestInv, ScanInv
  <1>2. CASE Next
    BY <1>2, ScannerTyped, RequestsTypedStep, DevicesTyped DEF Next
  <1> QED
    BY <1>1, <1>2

\* Every variable stays in its type: in particular the cursors, which the scan
\* computes by division, never leave the range of the clock plus one period.
THEOREM SchedulesTypeCorrect == Spec => []TypeOK
  <1>1. Typed => TypeOK
    BY DEF Typed
  <1> QED
    BY <1>1, TypedInit, TypedStep, PTL DEF Spec

-----------------------------------------------------------------------------
(* One active run of the scan per plan *)

\* No run becomes active: the runs that are active afterwards were before.
LEMMA NoneStarted ==
    ASSUME Quiet,
           \A r \in Run : ActiveRun(r)' => ActiveRun(r) /\ run'[r].plan = run[r].plan
    PROVE  /\ ScanRunsDoNotOverlap'
           /\ \A p \in Plan : Free(p) => Free(p)'
  BY DEF Quiet, ScanRunsDoNotOverlap, Free, ActiveRun, Live

LEMMA NoneStartedQuiet ==
    ASSUME Typed, Quiet, UNCHANGED scan,
           \A r \in Run : ActiveRun(r)' => ActiveRun(r) /\ run'[r].plan = run[r].plan
    PROVE  Quiet'
  <1>1. scan.pc = "create" => scan.current \in Plan
    BY DEF Typed, ScanInv
  <1> QED
    BY <1>1, NoneStarted DEF Quiet, CurrentQuiet

\* A status other than pending and running starts nothing; neither does running
\* for a run that is already active.
LEMMA StampStartsNothing ==
    ASSUME Typed, NEW S \in SUBSET Run, NEW s \in Status, run' = Stamp(S, s),
           s \in Active => \A r \in S : Live(r)
    PROVE  \A r \in Run : ActiveRun(r)' => ActiveRun(r) /\ run'[r].plan = run[r].plan
  <1>1. run \in [Run -> RunRow]
    BY DEF Typed, TypeOK
  <1> QED
    BY <1>1, StampType DEF ActiveRun, Live

LEMMA QuietStep == Typed /\ Quiet /\ [Next]_vars => Quiet'
  <1> SUFFICES ASSUME Typed, Quiet, [Next]_vars PROVE Quiet'
    OBVIOUS
  <1>0. run \in [Run -> RunRow] /\ scan \in Scan
    BY DEF Typed, TypeOK
  <1>1. CASE run' = run /\ scan'.pc # "create"
    BY <1>1 DEF Quiet, ScanRunsDoNotOverlap, CurrentQuiet
  <1>2. CASE run' = run /\ scan' = scan
    BY <1>2 DEF Quiet, ScanRunsDoNotOverlap, CurrentQuiet, Free, ActiveRun, Live
  <1>3. ASSUME NEW p \in Plan, ScanAccept(p) PROVE Quiet'
    <2>1. ~IsActive(p) /\ run' = run /\ scan'.current = p
      BY <1>0, <1>3 DEF ScanAccept, Skipped, Scan
    <2> QED
      BY <2>1 DEF IsActive, Quiet, ScanRunsDoNotOverlap, CurrentQuiet, Free, ActiveRun, Live
  <1>4. CASE ScanCreate
    <2>1. PICK p \in Plan : p = scan.current
      BY <1>4 DEF ScanCreate, Typed, ScanInv
    <2>2. Free(p)
      BY <1>4, <2>1 DEF ScanCreate, Quiet, CurrentQuiet
    <2>7. PICK a \in Agent \cup {None}, d \in Instant : a = scan.draft[p].agent /\ d = scan.dueAt
      BY <1>0 DEF Scan, PlanRow
    <2>3. PICK r \in Run :
             run[r].status = "unused" /\ run' = [run EXCEPT ![r] = NewRun(p, a, d, TRUE)]
      BY <1>4, <2>1, <2>7 DEF ScanCreate
    <2>4. run'[r].plan = p /\ \A q \in Run : q # r => run'[q] = run[q]
      BY <1>0, <2>3, NewRunType
    <2>5. ScanRunsDoNotOverlap'
      BY <2>2, <2>4 DEF ScanRunsDoNotOverlap, Quiet, Free, ActiveRun, Live
    <2>6. scan'.pc = "loop"
      BY <1>0, <1>4 DEF ScanCreate, Refreshed, Scan
    <2> QED
      BY <2>5, <2>6 DEF Quiet, CurrentQuiet
  <1>5. CASE ScanCommit
    <2>1. run' = Stamp(scan.expired, "expired") /\ scan.expired \in SUBSET Run
      BY <1>0, <1>5 DEF ScanCommit, Scan
    <2>2. "expired" \in Status /\ "expired" \notin Active
      BY DEF Status, Active
    <2>3. ScanRunsDoNotOverlap'
      BY <2>1, <2>2, StampStartsNothing, NoneStarted
    <2>4. scan'.pc = "idle"
      BY <1>5 DEF ScanCommit, NoScan
    <2> QED
      BY <2>3, <2>4 DEF Quiet, CurrentQuiet
  <1>6. CASE ScanAbort
    <2>1. \A r \in Run : ActiveRun(r)' => ActiveRun(r) /\ run'[r].plan = run[r].plan
      BY <1>6 DEF ScanAbort, ActiveRun, Live, Active, NoRun
    <2>2. scan'.pc = "idle"
      BY <1>6 DEF ScanAbort, NoScan
    <2> QED
      BY <2>1, <2>2, NoneStarted DEF Quiet, CurrentQuiet
  <1>7. ASSUME NEW S \in SUBSET Run, NEW s \in Status, run' = Stamp(S, s), UNCHANGED scan,
               s \in Active => \A r \in S : Live(r)
        PROVE  Quiet'
    BY <1>7, StampStartsNothing, NoneStartedQuiet
  <1>8. CASE Devices
    <2>1. ASSUME NEW r \in Run, Claim(r) PROVE Quiet'
      <3>1. PICK S \in SUBSET Run, s \in Status :
               run' = Stamp(S, s) /\ \A q \in S : Live(q)
        BY <2>1 DEF Claim, Status, Live, Active
      <3> QED
        BY <1>7, <2>1, <3>1 DEF Claim
    <2>2. ASSUME NEW r \in Run, CancelRun(r) PROVE Quiet'
      <3>1. PICK S \in SUBSET Run, s \in Status :
               run' = Stamp(S, s) /\ \A q \in S : Live(q)
        BY <2>2 DEF CancelRun, Status, Live, Active
      <3> QED
        BY <1>7, <2>2, <3>1 DEF CancelRun
    <2>3. ASSUME NEW r \in Run, NEW s \in {"success", "failed"}, Finish(r, s) PROVE Quiet'
      <3>1. PICK S \in SUBSET Run : run' = Stamp(S, s) /\ \A q \in S : Live(q)
        BY <2>3 DEF Finish, Live, Active
      <3>2. s \in Status
        BY DEF Status
      <3> QED
        BY <1>7, <2>3, <3>1, <3>2 DEF Finish
    <2>4. ASSUME NEW a \in Agent, PauseDevice(a) PROVE Quiet'
      <3>1. PICK S \in SUBSET Run : run' = Stamp(S, "cancelled") /\ \A q \in S : Live(q)
        <4> DEFINE T == {r \in Run : run[r].agent = a /\ run[r].status \in Active}
        <4>1. run' = Stamp(T, "cancelled")
          BY <2>4 DEF PauseDevice
        <4>2. T \in SUBSET Run /\ \A q \in T : Live(q)
          BY DEF Live
        <4> QED
          BY <4>1, <4>2
      <3>2. "cancelled" \in Status
        BY DEF Status
      <3> QED
        BY <1>7, <2>4, <3>1, <3>2 DEF PauseDevice
    <2>5. ASSUME NEW a \in Agent, ResumeDevice(a) PROVE Quiet'
      BY <1>2, <2>5 DEF ResumeDevice
    <2> QED
      BY <1>8, <2>1, <2>2, <2>3, <2>4, <2>5 DEF Devices
  <1>9. CASE PlanRequests
    <2>1. ASSUME NEW p \in Plan, DeletePlan(p) PROVE Quiet'
      <3>1. PICK S \in SUBSET Run : run' = Stamp(S, "cancelled") /\ \A q \in S : Live(q)
        <4> DEFINE T == {r \in Run : run[r].plan = p /\ run[r].status = "pending"}
        <4>1. run' = Stamp(T, "cancelled")
          BY <2>1 DEF DeletePlan
        <4>2. T \in SUBSET Run /\ \A q \in T : Live(q)
          BY DEF Live, Active
        <4> QED
          BY <4>1, <4>2
      <3>2. "cancelled" \in Status
        BY DEF Status
      <3> QED
        BY <1>7, <2>1, <3>1, <3>2 DEF DeletePlan
    <2> QED
      BY <1>2, <1>9, <2>1 DEF PlanRequests, CreateBegin, CreateCommit, UpdateBegin, UpdateCommit,
         EnableBegin, EnableCommit, DisableBegin, DisableCommit, Abort
  <1>12. CASE RunRequests
    <2>1. ASSUME NEW t \in Thread, InsertCommit(t) PROVE Quiet'
      <3>1. PICK p \in Plan \cup {None}, a \in Agent \cup {None}, d \in Instant :
               p = request[t].plan /\ a = request[t].agent /\ d = request[t].at
        BY DEF Typed, TypeOK, Request
      <3>2. PICK r \in Run : run' = [run EXCEPT ![r] = NewRun(p, a, d, FALSE)]
        BY <2>1, <3>1 DEF InsertCommit
      <3>3. \A q \in Run : ActiveRun(q)' => ActiveRun(q) /\ run'[q].plan = run[q].plan
        BY <1>0, <3>2, NewRunType DEF ActiveRun, Live
      <3> QED
        BY <2>1, <3>3, NoneStartedQuiet DEF InsertCommit
    <2> QED
      BY <1>2, <1>12, <2>1 DEF RunRequests, RunNowBegin, RetryBegin
  <1>10. CASE ScanStart \/ ScanList \/ ScanRefuse \/ (\E p \in Plan : ScanMiss(p))
    <2>1. run' = run /\ scan'.pc # "create"
      BY <1>0, <1>10 DEF ScanStart, ScanList, ScanRefuse, ScanMiss, NoScan, Refreshed, Scan
    <2> QED
      BY <1>1, <2>1
  <1>11. CASE Tick \/ UNCHANGED vars
    BY <1>2, <1>11 DEF Tick, vars
  <1> QED
    BY <1>3, <1>4, <1>5, <1>6, <1>8, <1>9, <1>10, <1>11, <1>12 DEF Next, Scanner

LEMMA QuietInit == Init => Quiet
  BY DEF Init, Quiet, ScanRunsDoNotOverlap, CurrentQuiet, NoRun, NoScan, Active

\* Two runs that the scan created for one plan are never waiting or running at the
\* same time, whatever is done to plans, runs and devices between the scan's check
\* and its insert.
THEOREM ScanCreatesNoOverlap == Spec => []ScanRunsDoNotOverlap
  <1>1. Quiet => ScanRunsDoNotOverlap
    BY DEF Quiet
  <1> QED
    BY <1>1, TypedInit, TypedStep, QuietInit, QuietStep, PTL DEF Spec

-----------------------------------------------------------------------------
(* No occurrence past its deadline *)

\* What the scan decided of the occurrence it turns into a run holds until it does.
InTime == scan.pc = "create" => scan.dueAt + Expiry > scan.began

\* The scan's inserts are the only runs of its own, whatever else becomes of runs.
NoneInserted == \A r \in Run : run[r].status = "unused" /\ run'[r].status = "pending"
                                 => ~run'[r].byScan

LEMMA StampInsertsNothing ==
    ASSUME Typed, NEW S \in SUBSET Run, NEW s \in Status \ {"pending"}, run' = Stamp(S, s)
    PROVE  NoneInserted
  <1>1. run \in [Run -> RunRow] /\ s \in Status /\ s # "pending"
    BY DEF Typed, TypeOK
  <1>2. \A r \in Run : Stamp(S, s)[r].status = IF r \in S THEN s ELSE run[r].status
    BY <1>1 DEF Stamp, RunRow
  <1> QED
    BY <1>1, <1>2 DEF NoneInserted

LEMMA InTimeStep == Typed /\ InTime /\ [Next]_vars => InTime'
  <1> SUFFICES ASSUME Typed, InTime, [Next]_vars PROVE InTime'
    OBVIOUS
  <1>0. scan \in Scan /\ Expiry \in Nat
    BY IntervalFacts DEF Typed, TypeOK
  <1>1. CASE UNCHANGED scan
    BY <1>1 DEF InTime
  <1>2. CASE scan'.pc # "create"
    BY <1>2 DEF InTime
  <1>3. ASSUME NEW p \in Plan, ScanAccept(p) PROVE InTime'
    <2>1. PICK due \in Instant : due = scan.draft[p].next
      BY <1>0 DEF Scan, PlanRow
    <2>2. due + Expiry > scan.began
      <3>1. scan.began \in Nat /\ due \in Nat
        BY <1>0, IntervalFacts DEF Scan, Instant
      <3> QED
        BY <1>0, <1>3, <2>1, <3>1 DEF ScanAccept, Skipped
    <2>3. scan'.dueAt = due /\ scan'.began = scan.began
      BY <1>0, <1>3, <2>1 DEF ScanAccept, Scan
    <2> QED
      BY <2>2, <2>3 DEF InTime
  <1>4. CASE ScanStart \/ ScanList \/ ScanRefuse \/ ScanCreate \/ ScanCommit \/ ScanAbort
             \/ (\E p \in Plan : ScanMiss(p))
    <2>1. scan'.pc # "create"
      BY <1>0, <1>4 DEF ScanStart, ScanList, ScanRefuse, ScanCreate, ScanCommit, ScanAbort,
                        ScanMiss, NoScan, Refreshed, Scan
    <2> QED
      BY <1>2, <2>1
  <1>5. CASE PlanRequests \/ RunRequests \/ Devices \/ Tick \/ UNCHANGED vars
    <2>1. UNCHANGED scan
      BY <1>5 DEF PlanRequests, RunRequests, Devices, Tick, vars, CreateBegin, CreateCommit,
         UpdateBegin, UpdateCommit, EnableBegin, EnableCommit, DisableBegin, DisableCommit, Abort,
         DeletePlan, RunNowBegin, RetryBegin, InsertCommit, Claim, CancelRun, Finish, PauseDevice,
         ResumeDevice
    <2> QED
      BY <1>1, <2>1
  <1> QED
    BY <1>3, <1>4, <1>5 DEF Next, Scanner

\* Every step but the scan's insert.
LEMMA OthersInsertNothing ==
    ASSUME Typed, [Next]_vars PROVE ScanCreate \/ NoneInserted
  <1>0. run \in [Run -> RunRow] /\ scan \in Scan
    BY DEF Typed, TypeOK
  <1>1. ASSUME UNCHANGED run PROVE NoneInserted
    BY <1>1 DEF NoneInserted
  <1>2. CASE ScanCommit
    <2>1. scan.expired \in SUBSET Run /\ "expired" \in Status \ {"pending"}
      BY <1>0 DEF Scan, Status
    <2> QED
      BY <1>2, <2>1, StampInsertsNothing DEF ScanCommit
  <1>3. CASE ScanAbort
    BY <1>3 DEF ScanAbort, NoneInserted, NoRun
  <1>4. ASSUME NEW t \in Thread, InsertCommit(t) PROVE NoneInserted
    <2>1. PICK p \in Plan \cup {None}, a \in Agent \cup {None}, d \in Instant :
             p = request[t].plan /\ a = request[t].agent /\ d = request[t].at
      BY DEF Typed, TypeOK, Request
    <2>2. PICK r \in Run : run' = [run EXCEPT ![r] = NewRun(p, a, d, FALSE)]
      BY <1>4, <2>1 DEF InsertCommit
    <2> QED
      BY <1>0, <2>2, NewRunType DEF NoneInserted
  <1>5. ASSUME NEW p \in Plan, DeletePlan(p) PROVE NoneInserted
    <2> DEFINE S == {r \in Run : run[r].plan = p /\ run[r].status = "pending"}
    <2>1. S \in SUBSET Run /\ "cancelled" \in Status \ {"pending"} /\ run' = Stamp(S, "cancelled")
      BY <1>5 DEF DeletePlan, Status
    <2> QED
      BY <2>1, StampInsertsNothing
  <1>6. CASE Devices
    <2>1. ASSUME NEW r \in Run, NEW s \in Status \ {"pending"}, run' = Stamp({r}, s)
          PROVE  NoneInserted
      BY <2>1, StampInsertsNothing
    <2>2. {"expired", "running", "cancelled", "success", "failed"} \subseteq Status \ {"pending"}
      BY DEF Status
    <2>3. ASSUME NEW a \in Agent, PauseDevice(a) PROVE NoneInserted
      <3> DEFINE S == {r \in Run : run[r].agent = a /\ run[r].status \in Active}
      <3>1. S \in SUBSET Run /\ run' = Stamp(S, "cancelled")
        BY <2>3 DEF PauseDevice
      <3> QED
        BY <2>2, <3>1, StampInsertsNothing
    <2>4. ASSUME NEW r \in Run, Claim(r) PROVE NoneInserted
      <3>1. PICK s \in Status \ {"pending"} : run' = Stamp({r}, s)
        BY <2>2, <2>4 DEF Claim
      <3> QED
        BY <2>1, <3>1
    <2>5. ASSUME NEW r \in Run, CancelRun(r) PROVE NoneInserted
      BY <2>1, <2>2, <2>5 DEF CancelRun
    <2>6. ASSUME NEW r \in Run, NEW s \in {"success", "failed"}, Finish(r, s) PROVE NoneInserted
      BY <2>1, <2>2, <2>6 DEF Finish
    <2> QED
      BY <1>1, <1>6, <2>3, <2>4, <2>5, <2>6 DEF Devices, ResumeDevice
  <1>7. CASE ScanStart \/ ScanList \/ ScanRefuse \/ (\E p \in Plan : ScanMiss(p) \/ ScanAccept(p))
             \/ Tick \/ UNCHANGED vars
    BY <1>1, <1>7 DEF ScanStart, ScanList, ScanRefuse, ScanMiss, ScanAccept, Tick, vars
  <1>8. CASE PlanRequests \/ RunRequests
    BY <1>1, <1>4, <1>5, <1>8 DEF PlanRequests, RunRequests, CreateBegin, CreateCommit,
       UpdateBegin, UpdateCommit, EnableBegin, EnableCommit, DisableBegin, DisableCommit, Abort,
       RunNowBegin, RetryBegin
  <1> QED
    BY <1>2, <1>3, <1>6, <1>7, <1>8 DEF Next, Scanner

LEMMA InsertIsInTime ==
    ASSUME Typed, InTime, ScanCreate
    PROVE  \A r \in Run : run[r].status = "unused" /\ run'[r].status = "pending"
                          => run'[r].expires > scan.began
  <1>0. run \in [Run -> RunRow] /\ scan \in Scan
    BY DEF Typed, TypeOK
  <1> DEFINE made == NewRun(scan.current, scan.draft[scan.current].agent, scan.dueAt, TRUE)
  <1>1. made.expires = scan.dueAt + Expiry
    BY DEF NewRun
  <1>2. PICK r \in Run : run' = [run EXCEPT ![r] = made]
    BY DEF ScanCreate
  <1> HIDE DEF made
  <1>3. run'[r].expires = scan.dueAt + Expiry /\ \A q \in Run : q # r => run'[q] = run[q]
    BY <1>0, <1>1, <1>2
  <1> QED
    BY <1>3 DEF InTime, ScanCreate

\* For any period, deadline and clock: the scan never inserts a run for an
\* occurrence whose deadline had passed when the scan began, although it reads the
\* plan again under the lock and the cursor may be moved meanwhile.
THEOREM NothingIsMadeUpFor == Spec => NoCatchUp
  <1> DEFINE Prompt == \A r \in Run :
                run[r].status = "unused" /\ run'[r].status = "pending" /\ run'[r].byScan
                  => run'[r].expires > scan.began
  <1>1. Init => InTime
    BY DEF Init, InTime, NoScan
  <1>2. Typed /\ InTime /\ [Next]_vars => Prompt
    BY OthersInsertNothing, InsertIsInTime DEF NoneInserted
  <1>3. Typed /\ InTime /\ [Next]_vars => [Prompt]_vars
    BY <1>2
  <1>4. Spec => [][Prompt]_vars
    BY <1>1, <1>3, TypedInit, TypedStep, InTimeStep, PTL DEF Spec
  <1> QED
    BY <1>4 DEF NoCatchUp

=============================================================================
