------------------------- MODULE RunLifecycleProofs -------------------------
(***************************************************************************)
(* For every set of runs, devices and handlers: type correctness of the    *)
(* run lifecycle, the inductive invariant behind its safety properties,    *)
(* those properties, and that it implements RunContract.                   *)
(***************************************************************************)
EXTENDS RunLifecycle, TLAPS

\* TypeOK strengthened by what each kind of request remembers.
RequestInv ==
    \A t \in Thread :
       /\ request[t].kind \in {"claim", "abandon"} =>
             /\ request[t].run \in Run
             /\ run[request[t].run].status # "unused"
       /\ request[t].kind \in {"claim", "heartbeat", "register", "disable", "enable", "delete"} =>
             request[t].agent \in Agent

\* What the sweeps have selected exists.
SweepInv == \A r \in sweep.runs : run[r].status # "unused"

\* A claim in progress: the run may go to the device, and as long as a directed
\* run is still waiting, the device still accepts work.  Disabling or deleting
\* the device in between cancels the run, so this is never broken by them.
ClaimInv ==
    \A t \in Thread : request[t].kind = "claim" /\ ~request[t].late =>
       /\ run[request[t].run].target \in {None, request[t].agent}
       /\ run[request[t].run].status = "pending" /\ Directed(request[t].run)
             => Accepting(request[t].agent)

Inv == TypeOK /\ RequestInv /\ SweepInv /\ ClaimInv /\ BindingInv /\ PausedDeviceIdle

-----------------------------------------------------------------------------
(* Operators *)

\* A flush yields a well-formed row.
LEMMA FlushType ==
    ASSUME NEW c \in AgentRow, NEW l \in AgentRow, NEW v \in AgentRow
    PROVE  Flush(c, l, v) \in AgentRow
  BY DEF Flush, Changed, AgentRow

\* A flush that assigns nothing to a column leaves the table's value.
LEMMA FlushKeeps ==
    ASSUME NEW c \in AgentRow, NEW l \in AgentRow, NEW v \in AgentRow
    PROVE  /\ v.enabled = l.enabled => Flush(c, l, v).enabled = c.enabled
           /\ v.deleted = l.deleted => Flush(c, l, v).deleted = c.deleted
           /\ v.mode = l.mode => Flush(c, l, v).mode = c.mode
           /\ Flush(c, l, v).mode \in {v.mode, c.mode}
           /\ v.enabled => Flush(c, l, v).enabled \/ v.enabled = l.enabled
  BY DEF Flush, Changed, AgentRow

\* Stamping a status keeps the table well-formed and changes nothing but the
\* status of the stamped rows.
LEMMA StampStep ==
    ASSUME run \in [Run -> RunRow], NEW S \in SUBSET Run, NEW s \in Status,
           run' = Stamp(S, s)
    PROVE  /\ run' \in [Run -> RunRow]
           /\ \A r \in Run : /\ run'[r].target = run[r].target
                             /\ run'[r].executor = run[r].executor
                             /\ run'[r].status = IF r \in S THEN s ELSE run[r].status
  BY DEF Stamp, RunRow

\* Stopping a device's work cancels what waits for it or runs on it.
LEMMA StopStep ==
    ASSUME run \in [Run -> RunRow], NEW a, StopActiveWork(a)
    PROVE  /\ run' \in [Run -> RunRow]
           /\ \A r \in Run :
                /\ run'[r].target = run[r].target
                /\ run'[r].executor = run[r].executor
                /\ run'[r].status =
                      IF \/ run[r].status = "pending" /\ run[r].target = a
                         \/ run[r].status = "running" /\ a \in {run[r].target, run[r].executor}
                      THEN "cancelled" ELSE run[r].status
  <1> DEFINE S == RunningOn(a) \cup {r \in Run : run[r].status = "pending" /\ run[r].target = a}
  <1>1. S \in SUBSET Run
    BY DEF RunningOn
  <1>2. run' = Stamp(S, "cancelled") /\ "cancelled" \in Status
    BY DEF StopActiveWork, Status, Terminal
  <1>3. \A r \in Run : r \in S <=>
           \/ run[r].status = "pending" /\ run[r].target = a
           \/ run[r].status = "running" /\ a \in {run[r].target, run[r].executor}
    BY DEF RunningOn
  <1> HIDE DEF S
  <1> QED
    BY <1>1, <1>2, <1>3, StampStep

\* A finished handler is idle, the others are where they were.
LEMMA DoneRequests ==
    ASSUME request \in [Thread -> Request], NEW t \in Thread, Done(t)
    PROVE  /\ request' \in [Thread -> Request]
           /\ request'[t].kind = "idle"
           /\ \A u \in Thread : u # t => request'[u] = request[u]
  BY DEF Done, Idle, Request, NoAgent, AgentRow, Device

\* A flush leaves the device table well-formed.
LEMMA FlushTable ==
    ASSUME agent \in [Agent -> AgentRow], NEW t \in Thread, request[t] \in Request,
           request[t].agent \in Agent, NEW v \in AgentRow, FlushAgent(t, v)
    PROVE  /\ agent' \in [Agent -> AgentRow]
           /\ agent'[request[t].agent] = Flush(agent[request[t].agent], request[t].row, v)
           /\ \A b \in Agent : b # request[t].agent => agent'[b] = agent[b]
  <1>1. request[t].row \in AgentRow
    BY DEF Request
  <1>2. Flush(agent[request[t].agent], request[t].row, v) \in AgentRow
    BY <1>1, FlushType
  <1> QED
    BY <1>2 DEF FlushAgent

-----------------------------------------------------------------------------
(* Types *)

\* The type invariant and the shape of the requests are inductive together.
Typed == TypeOK /\ RequestInv

LEMMA TypedInit == Init => Typed
  BY DEF Init, Typed, TypeOK, RequestInv, NoRun, NoAgent, Idle, NoSweep, RunRow, AgentRow,
         Request, Sweep, Status, Terminal, Device

LEMMA TypedStep == Typed /\ [Next]_vars => Typed'
  <1> SUFFICES ASSUME Typed, [Next]_vars PROVE Typed'
    OBVIOUS
  <1> USE DEF Typed, TypeOK, RequestInv
  <1> USE DEF Status, Terminal, Device
  <1>1. ASSUME NEW t \in Thread, NEW a \in Agent, NEW r \in Run, ClaimBegin(t, a, r)
        PROVE  Typed'
    BY <1>1 DEF ClaimBegin, Remember, Request, Idle, NoAgent, AgentRow, Directed, RunRow
  <1>2. ASSUME NEW t \in Thread, ClaimCommit(t)
        PROVE  Typed'
    <2>1. /\ request[t].run \in Run
          /\ request[t].agent \in Agent
      BY <1>2 DEF ClaimCommit
    <2>2. /\ run' \in [Run -> RunRow]
          /\ \A r \in Run : run[r].status # "unused" => run'[r].status # "unused"
      BY <1>2, <2>1 DEF ClaimCommit, RunRow
    <2>3. request' \in [Thread -> Request] /\ request'[t].kind = "idle"
          /\ \A u \in Thread : u # t => request'[u] = request[u]
      BY <1>2, DoneRequests DEF ClaimCommit
    <2> QED
      BY <1>2, <2>2, <2>3 DEF ClaimCommit
  <1>3. ASSUME NEW a \in Agent, NEW r \in Run, NEW outcome \in {"success", "failed"},
               Report(a, r, outcome)
        PROVE  Typed'
    BY <1>3 DEF Report, RunRow
  <1>4. ASSUME NEW r \in Run, CancelRun(r)
        PROVE  Typed'
    BY <1>4 DEF CancelRun, RunRow
  <1>5. ASSUME NEW t \in Thread, ExecuteBegin(t)
        PROVE  Typed'
    <2>1. CASE Remember(t, [Idle EXCEPT !.kind = "insert"])
      BY <1>5, <2>1 DEF ExecuteBegin, Remember, Request, Idle, NoAgent, AgentRow
    <2>2. ASSUME NEW r \in Run, run[r].status = "pending",
                 Remember(t, [Idle EXCEPT !.kind = "abandon", !.run = r])
          PROVE  Typed'
      BY <1>5, <2>2 DEF ExecuteBegin, Remember, Request, Idle, NoAgent, AgentRow
    <2> QED
      BY <1>5, <2>1, <2>2 DEF ExecuteBegin
  <1>6. ASSUME NEW t \in Thread, ExecuteAbandon(t)
        PROVE  Typed'
    <2>1. request[t].run \in Run
      BY <1>6 DEF ExecuteAbandon
    <2>2. /\ run' \in [Run -> RunRow]
          /\ \A r \in Run : run[r].status # "unused" => run'[r].status # "unused"
      <3>1. PICK S \in SUBSET Run : run' = Stamp(S, "cancelled")
        BY <1>6, <2>1 DEF ExecuteAbandon
      <3> QED
        BY <3>1, StampStep
    <2>3. [Idle EXCEPT !.kind = "insert"] \in Request
      BY DEF Idle, Request, NoAgent, AgentRow
    <2>4. request' \in [Thread -> Request] /\ request'[t].kind = "insert"
          /\ \A u \in Thread : u # t => request'[u] = request[u]
      BY <1>6, <2>3 DEF ExecuteAbandon, Idle
    <2> QED
      BY <1>6, <2>2, <2>4 DEF ExecuteAbandon
  <1>7. ASSUME NEW t \in Thread, Insert(t)
        PROVE  Typed'
    <2>1. request[t].agent \in Device
      BY DEF Request
    <2>2. /\ run' \in [Run -> RunRow]
          /\ \A r \in Run : run[r].status # "unused" => run'[r].status # "unused"
      <3>1. PICK r \in Run : /\ run[r].status = "unused"
                             /\ run' = [run EXCEPT ![r] = [NoRun EXCEPT
                                   !.status = "pending", !.target = request[t].agent]]
        BY <1>7 DEF Insert
      <3>2. [NoRun EXCEPT !.status = "pending", !.target = request[t].agent] \in RunRow
        BY <2>1 DEF NoRun, RunRow
      <3> QED
        BY <3>1, <3>2
    <2>3. request' \in [Thread -> Request] /\ request'[t].kind = "idle"
          /\ \A u \in Thread : u # t => request'[u] = request[u]
      BY <1>7, DoneRequests DEF Insert
    <2> QED
      BY <1>7, <2>2, <2>3 DEF Insert
  <1>8. ASSUME NEW t \in Thread, NEW a \in Agent, ScheduleRunBegin(t, a)
        PROVE  Typed'
    BY <1>8 DEF ScheduleRunBegin, Remember, Request, Idle, NoAgent, AgentRow
  <1>9. ASSUME NEW t \in Thread, NEW a \in Agent, DispatchBegin(t, a)
        PROVE  Typed'
    BY <1>9 DEF DispatchBegin, Remember, Request, Idle, NoAgent, AgentRow
  <1>10. ASSUME NEW a \in Agent, NEW mode \in {"standard", "managed"}, NEW on \in BOOLEAN,
                RegisterNew(a, mode, on)
         PROVE  Typed'
    BY <1>10 DEF RegisterNew, AgentRow
  <1>11. ASSUME NEW t \in Thread, NEW a \in Agent,
                NEW kind \in {"heartbeat", "register", "disable", "enable", "delete"},
                Load(t, a, kind)
         PROVE  Typed'
    BY <1>11 DEF Load, Remember, Request, Idle, NoAgent
  <1>12. ASSUME NEW t \in Thread, HeartbeatCommit(t)
         PROVE  Typed'
    <2>1. /\ request[t] \in Request /\ request[t].agent \in Agent
          /\ request[t].row \in AgentRow
      BY <1>12 DEF HeartbeatCommit, Request
    <2>2. [request[t].row EXCEPT !.status = "online"] \in AgentRow
      BY <2>1 DEF AgentRow
    <2>3. agent' \in [Agent -> AgentRow]
      BY <1>12, <2>1, <2>2, FlushTable DEF HeartbeatCommit
    <2>4. request' \in [Thread -> Request] /\ request'[t].kind = "idle"
          /\ \A u \in Thread : u # t => request'[u] = request[u]
      BY <1>12, DoneRequests DEF HeartbeatCommit
    <2> QED
      BY <1>12, <2>3, <2>4 DEF HeartbeatCommit
  <1>13. ASSUME NEW t \in Thread, NEW mode \in {"standard", "managed"}, RegisterCommit(t, mode)
         PROVE  Typed'
    <2>1. /\ request[t] \in Request /\ request[t].agent \in Agent
          /\ request[t].row \in AgentRow
      BY <1>13 DEF RegisterCommit, Request
    <2>2. [request[t].row EXCEPT !.mode = mode,
                                   !.status = IF request[t].row.enabled THEN "online"
                                              ELSE "offline"] \in AgentRow
      BY <2>1 DEF AgentRow
    <2>3. agent' \in [Agent -> AgentRow]
      BY <1>13, <2>1, <2>2, FlushTable DEF RegisterCommit
    <2>4. request' \in [Thread -> Request] /\ request'[t].kind = "idle"
          /\ \A u \in Thread : u # t => request'[u] = request[u]
      BY <1>13, DoneRequests DEF RegisterCommit
    <2> QED
      BY <1>13, <2>3, <2>4 DEF RegisterCommit
  <1>14. ASSUME NEW t \in Thread, DisableCommit(t)
         PROVE  Typed'
    <2>1. /\ request[t] \in Request /\ request[t].agent \in Agent
          /\ request[t].row \in AgentRow
      BY <1>14 DEF DisableCommit, Request
    <2>2. [request[t].row EXCEPT !.enabled = FALSE, !.status = "offline"] \in AgentRow
      BY <2>1 DEF AgentRow
    <2>3. agent' \in [Agent -> AgentRow]
      BY <1>14, <2>1, <2>2, FlushTable DEF DisableCommit
    <2>4. request' \in [Thread -> Request] /\ request'[t].kind = "idle"
          /\ \A u \in Thread : u # t => request'[u] = request[u]
      BY <1>14, DoneRequests DEF DisableCommit
    <2>6. /\ run' \in [Run -> RunRow]
          /\ \A r \in Run : run[r].status # "unused" => run'[r].status # "unused"
      BY <1>14, StopStep DEF DisableCommit
    <2> QED
      BY <1>14, <2>3, <2>4, <2>6 DEF DisableCommit
  <1>15. ASSUME NEW t \in Thread, DeleteCommit(t)
         PROVE  Typed'
    <2>1. /\ request[t] \in Request /\ request[t].agent \in Agent
          /\ request[t].row \in AgentRow
      BY <1>15 DEF DeleteCommit, Request
    <2>2. [request[t].row EXCEPT !.enabled = FALSE, !.deleted = TRUE,
                                   !.status = "offline"] \in AgentRow
      BY <2>1 DEF AgentRow
    <2>3. agent' \in [Agent -> AgentRow]
      BY <1>15, <2>1, <2>2, FlushTable DEF DeleteCommit
    <2>4. request' \in [Thread -> Request] /\ request'[t].kind = "idle"
          /\ \A u \in Thread : u # t => request'[u] = request[u]
      BY <1>15, DoneRequests DEF DeleteCommit
    <2>6. /\ run' \in [Run -> RunRow]
          /\ \A r \in Run : run[r].status # "unused" => run'[r].status # "unused"
      BY <1>15, StopStep DEF DeleteCommit
    <2> QED
      BY <1>15, <2>3, <2>4, <2>6 DEF DeleteCommit
  <1>16. ASSUME NEW t \in Thread, EnableCommit(t)
         PROVE  Typed'
    <2>1. /\ request[t] \in Request /\ request[t].agent \in Agent
          /\ request[t].row \in AgentRow
      BY <1>16 DEF EnableCommit, Request
    <2>2. [request[t].row EXCEPT !.enabled = TRUE, !.status = "offline"] \in AgentRow
      BY <2>1 DEF AgentRow
    <2>3. agent' \in [Agent -> AgentRow]
      BY <1>16, <2>1, <2>2, FlushTable DEF EnableCommit
    <2>4. request' \in [Thread -> Request] /\ request'[t].kind = "idle"
          /\ \A u \in Thread : u # t => request'[u] = request[u]
      BY <1>16, DoneRequests DEF EnableCommit
    <2> QED
      BY <1>16, <2>3, <2>4 DEF EnableCommit
  <1>17. ASSUME NEW t \in Thread, Abort(t)
         PROVE  Typed'
    BY <1>17 DEF Abort, Done, Request, Idle, NoAgent, AgentRow
  <1>18. CASE SweepDevices
    BY <1>18 DEF SweepDevices, Sweep, NoSweep
  <1>19. CASE SweepStuckRuns
    BY <1>19 DEF SweepStuckRuns, Sweep
  <1>20. CASE SweepFail
    <2>1. sweep.runs \in SUBSET Run
      BY DEF Sweep
    <2>2. /\ run' \in [Run -> RunRow]
          /\ \A r \in Run : run[r].status # "unused" => run'[r].status # "unused"
      <3>1. run' = Stamp(sweep.runs, "failed")
        BY <1>20 DEF SweepFail
      <3> QED
        BY <3>1, <2>1, StampStep
    <2>3. agent' \in [Agent -> AgentRow]
      BY <1>20 DEF SweepFail, AgentRow
    <2> QED
      BY <1>20, <2>2, <2>3 DEF SweepFail, Sweep, NoSweep
  <1>21. CASE SweepOverdue
    BY <1>21 DEF SweepOverdue, Sweep, NoSweep
  <1>22. ASSUME NEW kept \in SUBSET Run, SweepExpire(kept)
         PROVE  Typed'
    <2>1. /\ run' \in [Run -> RunRow]
          /\ \A r \in Run : run[r].status # "unused" => run'[r].status # "unused"
      <3>1. run' = Stamp(kept, "expired")
        BY <1>22 DEF SweepExpire
      <3> QED
        BY <3>1, StampStep
    <2> QED
      BY <1>22, <2>1 DEF SweepExpire, Sweep, NoSweep
  <1>23. CASE SweepAbort
    BY <1>23 DEF SweepAbort, Sweep, NoSweep
  <1>24. ASSUME NEW a \in Agent, GoStale(a)
         PROVE  Typed'
    BY <1>24 DEF GoStale
  <1>25. ASSUME NEW r \in Run, BecomeOverdue(r)
         PROVE  Typed'
    BY <1>25 DEF BecomeOverdue, RunRow
  <1>26. CASE UNCHANGED vars
    BY <1>26 DEF vars
  <1>27. ASSUME NEW t \in Thread, NEW r \in Run, RetryBegin(t, r)
         PROVE  Typed'
    BY <1>27, <1>9 DEF RetryBegin, Directed, RunRow
  <1> QED
    BY <1>1, <1>2, <1>3, <1>4, <1>5, <1>6, <1>7, <1>8, <1>9, <1>10, <1>11, <1>12, <1>13, <1>14,
       <1>15, <1>16, <1>17, <1>18, <1>19, <1>20, <1>21, <1>22, <1>23, <1>24, <1>25, <1>26, <1>27
       DEF Next, RunRequests, DeviceRequests, Scheduler, Time

-----------------------------------------------------------------------------
(* The invariant *)

LEMMA InvInit == Init => Inv
  <1> SUFFICES ASSUME Init PROVE Inv
    OBVIOUS
  <1>1. TypeOK /\ RequestInv
    BY TypedInit DEF Typed
  <1>2. SweepInv /\ ClaimInv /\ BindingInv /\ PausedDeviceIdle
    BY DEF Init, SweepInv, ClaimInv, BindingInv, PausedDeviceIdle, NoRun, Idle, NoSweep, Directed
  <1> QED
    BY <1>1, <1>2 DEF Inv

\* What an action that stops runs or leaves them alone does to them: a status
\* may only become terminal, and the binding columns stay.
RunsOnlyEnd ==
    \A r \in Run : /\ run'[r].target = run[r].target
                   /\ run'[r].executor = run[r].executor
                   /\ \/ run'[r].status = run[r].status
                      \/ /\ run[r].status # "unused"
                         /\ run'[r].status \in {"failed", "cancelled", "expired"}

\* Such a step keeps the binding of the runs.
LEMMA EndKeepsBinding ==
    ASSUME BindingInv, RunsOnlyEnd
    PROVE  BindingInv'
  BY DEF BindingInv, RunsOnlyEnd, Directed

\* If moreover every device goes on accepting work, or the runs waiting for it
\* and running on it end, the claims in progress and the running runs are safe.
LEMMA EndKeepsPaused ==
    ASSUME Typed, Typed', ClaimInv, PausedDeviceIdle, RunsOnlyEnd,
           \A t \in Thread : request'[t].kind = "claim" => request'[t] = request[t],
           \A a \in Agent : Accepting(a) => Accepting(a)' \/
              \A r \in Run : run[r].target = a => run'[r].status \notin {"pending", "running"}
    PROVE  ClaimInv' /\ PausedDeviceIdle'
  <1>1. \A r \in Run : run'[r].status \in {"pending", "running"} => run'[r].status = run[r].status
    BY DEF RunsOnlyEnd
  <1>2. \A r \in Run : run[r].target \in Device
    BY DEF Typed, TypeOK, RunRow
  <1>3. PausedDeviceIdle'
    BY <1>1, <1>2 DEF PausedDeviceIdle, RunsOnlyEnd, Directed, Device
  <1>4. ASSUME NEW t \in Thread, (request[t].kind = "claim" /\ ~request[t].late)'
        PROVE  (/\ run[request[t].run].target \in {None, request[t].agent}
                /\ run[request[t].run].status = "pending" /\ Directed(request[t].run)
                     => Accepting(request[t].agent))'
    <2>1. request'[t] = request[t] /\ request[t].run \in Run /\ request[t].agent \in Agent
      BY <1>4 DEF Typed, RequestInv
    <2>2. run[request[t].run].target \in {None, request[t].agent}
      BY <1>4, <2>1 DEF ClaimInv
    <2>3. ASSUME run'[request[t].run].status = "pending", run'[request[t].run].target # None
          PROVE  Accepting(request[t].agent)'
      <3>1. /\ run[request[t].run].status = "pending"
            /\ run[request[t].run].target = request[t].agent
            /\ run[request[t].run].target # None
        BY <1>1, <2>1, <2>2, <2>3 DEF RunsOnlyEnd
      <3>2. Accepting(request[t].agent)
        BY <1>4, <2>1, <3>1 DEF ClaimInv, Directed
      <3>3. PICK a \in Agent : a = request[t].agent
        BY <2>1
      <3>4. Accepting(a)'
        BY <2>1, <2>3, <3>1, <3>2, <3>3
      <3> QED
        BY <2>1, <3>3, <3>4 DEF Accepting, Exists
    <2> QED
      BY <2>1, <2>2, <2>3 DEF RunsOnlyEnd, Directed
  <1> QED
    BY <1>3, <1>4 DEF ClaimInv

\* The remaining conjuncts, for a step that only ends runs.
LEMMA EndKeepsInv ==
    ASSUME Inv, Typed', RunsOnlyEnd,
           sweep'.runs \subseteq sweep.runs \/ \A r \in sweep'.runs : run[r].status # "unused",
           \A t \in Thread : request'[t].kind = "claim" => request'[t] = request[t],
           \A a \in Agent : Accepting(a) => Accepting(a)' \/
              \A r \in Run : run[r].target = a => run'[r].status \notin {"pending", "running"}
    PROVE  Inv'
  <1>1. BindingInv'
    BY EndKeepsBinding DEF Inv
  <1>2. ClaimInv' /\ PausedDeviceIdle'
    BY EndKeepsPaused DEF Inv, Typed
  <1>3. sweep'.runs \subseteq Run
    BY DEF Typed, TypeOK, Sweep
  <1>4. SweepInv'
    BY <1>3 DEF Inv, SweepInv, RunsOnlyEnd
  <1> QED
    BY <1>1, <1>2, <1>4 DEF Inv, Typed

LEMMA InvStep == Inv /\ [Next]_vars => Inv'
  <1> SUFFICES ASSUME Inv, [Next]_vars PROVE Inv'
    OBVIOUS
  <1>0. /\ Typed /\ Typed'
        /\ run \in [Run -> RunRow] /\ run' \in [Run -> RunRow]
        /\ agent \in [Agent -> AgentRow]
        /\ request \in [Thread -> Request] /\ request' \in [Thread -> Request]
        /\ sweep \in Sweep
    BY TypedStep DEF Inv, Typed, TypeOK
  <1>1. ASSUME NEW t \in Thread, NEW a \in Agent, NEW r \in Run, ClaimBegin(t, a, r)
        PROVE  Inv'
    <2>1. /\ UNCHANGED <<run, agent, sweep>>
          /\ \A u \in Thread : u # t => request'[u] = request[u]
          /\ request'[t].run = r /\ request'[t].agent = a
          /\ ~request'[t].late => run[r].target \in {None, a}
          /\ Accepting(a)
      BY <1>0, <1>1 DEF ClaimBegin, Remember, Idle, Request, NoAgent, AgentRow
    <2>2. BindingInv' /\ PausedDeviceIdle' /\ SweepInv'
      BY <2>1 DEF Inv, BindingInv, PausedDeviceIdle, SweepInv, Directed, Accepting, Exists
    <2>3. ASSUME NEW u \in Thread, (request[u].kind = "claim" /\ ~request[u].late)'
          PROVE  (/\ run[request[u].run].target \in {None, request[u].agent}
                  /\ run[request[u].run].status = "pending" /\ Directed(request[u].run)
                       => Accepting(request[u].agent))'
      <3>1. CASE u = t
        BY <2>1, <2>3, <3>1 DEF Directed, Accepting, Exists
      <3>2. CASE u # t
        BY <2>1, <2>3, <3>2 DEF Inv, ClaimInv, Directed, Accepting, Exists
      <3> QED
        BY <3>1, <3>2
    <2> QED
      BY <1>0, <2>2, <2>3 DEF Inv, ClaimInv, Typed
  <1>2. ASSUME NEW t \in Thread, ClaimCommit(t)
        PROVE  Inv'
    <2> DEFINE r == request[t].run
               a == request[t].agent
    <2>1. r \in Run /\ a \in Agent
      BY <1>0, <1>2 DEF ClaimCommit, Typed, RequestInv
    <2>2. /\ UNCHANGED <<agent, sweep>>
          /\ request'[t].kind = "idle"
          /\ \A u \in Thread : u # t => request'[u] = request[u]
      BY <1>0, <1>2, DoneRequests DEF ClaimCommit
    <2>3. CASE RunsOnlyEnd
      BY <1>0, <2>2, <2>3, EndKeepsInv DEF Accepting, Exists
    <2>4. CASE /\ run[r].status = "pending" /\ ~request[t].late /\ run[r].executor = None
               /\ run' = [run EXCEPT ![r].status = "running", ![r].executor = a]
      <3>1. /\ run'[r].status = "running" /\ run'[r].executor = a
            /\ run'[r].target = run[r].target
            /\ \A q \in Run : q # r => run'[q] = run[q]
            /\ \A q \in Run : run'[q].target = run[q].target
        BY <1>0, <2>1, <2>4 DEF RunRow
      <3>2. run[r].target \in {None, a}
        BY <1>2, <2>4 DEF Inv, ClaimInv, ClaimCommit
      <3>3. Directed(r) => Accepting(a) /\ run[r].target = a
        BY <1>2, <2>4, <3>2 DEF Inv, ClaimInv, ClaimCommit, Directed
      <3>4. a # None
        BY <2>1, NoneIsNoRow
      <3>5. BindingInv'
        BY <2>1, <3>1, <3>2, <3>4 DEF Inv, BindingInv, Directed
      <3>6. PausedDeviceIdle'
        BY <2>1, <2>2, <3>1, <3>3 DEF Inv, PausedDeviceIdle, Directed, Accepting, Exists
      <3>7. SweepInv'
        BY <1>0, <2>1, <2>2, <3>1 DEF Inv, SweepInv, Sweep
      <3>8. ASSUME NEW u \in Thread, (request[u].kind = "claim" /\ ~request[u].late)'
            PROVE  (/\ run[request[u].run].target \in {None, request[u].agent}
                    /\ run[request[u].run].status = "pending" /\ Directed(request[u].run)
                         => Accepting(request[u].agent))'
        <4>1. u # t /\ request'[u] = request[u] /\ request[u].run \in Run
          BY <1>0, <2>2, <3>8 DEF Typed, RequestInv
        <4>2. run'[request[u].run].target = run[request[u].run].target
          BY <3>1, <4>1
        <4>3. run'[request[u].run].status = "pending" => run[request[u].run].status = "pending"
          BY <3>1, <4>1
        <4> QED
          BY <2>2, <3>8, <4>1, <4>2, <4>3 DEF Inv, ClaimInv, Directed, Accepting, Exists
      <3> QED
        BY <1>0, <3>5, <3>6, <3>7, <3>8 DEF Inv, ClaimInv, Typed
    <2> QED
      BY <1>0, <1>2, <2>1, <2>3, <2>4 DEF ClaimCommit, RunsOnlyEnd, RunRow
  <1>3. ASSUME NEW a \in Agent, NEW r \in Run, NEW outcome \in {"success", "failed"},
               Report(a, r, outcome)
        PROVE  Inv'
    <2>1. /\ UNCHANGED <<agent, request, sweep>>
          /\ run'[r].status = outcome /\ run[r].status = "running"
          /\ run'[r].executor = run[r].executor /\ run[r].executor = a
          /\ \A q \in Run : q # r => run'[q] = run[q]
          /\ \A q \in Run : run'[q].target = run[q].target
      BY <1>0, <1>3 DEF Report, RunRow
    <2>2. BindingInv' /\ PausedDeviceIdle' /\ SweepInv'
      BY <1>0, <2>1, NoneIsNoRow
         DEF Inv, BindingInv, PausedDeviceIdle, SweepInv, Sweep, Directed, Accepting, Exists
    <2>3. ClaimInv'
      BY <1>0, <2>1 DEF Inv, ClaimInv, Typed, RequestInv, Directed, Accepting, Exists
    <2> QED
      BY <1>0, <2>2, <2>3 DEF Inv, Typed
  <1>4. ASSUME NEW r \in Run, CancelRun(r)
        PROVE  Inv'
    <2>1. RunsOnlyEnd
      BY <1>0, <1>4 DEF CancelRun, RunsOnlyEnd, RunRow
    <2> QED
      BY <1>0, <1>4, <2>1, EndKeepsInv DEF CancelRun, Accepting, Exists
  <1>5. ASSUME NEW t \in Thread, ExecuteBegin(t)
        PROVE  Inv'
    <2>1. /\ UNCHANGED <<run, agent, sweep>>
          /\ \A u \in Thread : request'[u].kind = "claim" => request'[u] = request[u]
      BY <1>0, <1>5 DEF ExecuteBegin, Remember, Idle
    <2> QED
      BY <1>0, <2>1, EndKeepsInv DEF RunsOnlyEnd, Accepting, Exists
  <1>6. ASSUME NEW t \in Thread, ExecuteAbandon(t)
        PROVE  Inv'
    <2>1. request[t].run \in Run /\ run[request[t].run].status # "unused"
      BY <1>0, <1>6 DEF ExecuteAbandon, Typed, RequestInv
    <2>2. PICK S \in SUBSET Run : /\ run' = Stamp(S, "cancelled")
                                  /\ \A r \in S : run[r].status # "unused"
      BY <1>6, <2>1 DEF ExecuteAbandon
    <2>3. RunsOnlyEnd
      <3>1. "cancelled" \in Status
        BY DEF Status, Terminal
      <3>2. \A r \in Run : /\ run'[r].target = run[r].target
                           /\ run'[r].executor = run[r].executor
                           /\ run'[r].status = IF r \in S THEN "cancelled" ELSE run[r].status
        BY <1>0, <2>2, <3>1, StampStep
      <3> QED
        BY <2>2, <3>2 DEF RunsOnlyEnd
    <2>4. /\ UNCHANGED <<agent, sweep>>
          /\ \A u \in Thread : request'[u].kind = "claim" => request'[u] = request[u]
      BY <1>0, <1>6 DEF ExecuteAbandon, Idle
    <2> QED
      BY <1>0, <2>3, <2>4, EndKeepsInv DEF Accepting, Exists
  <1>7. ASSUME NEW t \in Thread, Insert(t)
        PROVE  Inv'
    <2>1. PICK r \in Run : /\ run[r].status = "unused"
                           /\ run' = [run EXCEPT ![r] = [NoRun EXCEPT
                                 !.status = "pending", !.target = request[t].agent]]
      BY <1>7 DEF Insert
    <2>2. /\ run'[r].status = "pending" /\ run'[r].executor = None
          /\ \A q \in Run : q # r => run'[q] = run[q]
      BY <1>0, <2>1 DEF NoRun
    <2>3. /\ UNCHANGED <<agent, sweep>>
          /\ request'[t].kind = "idle"
          /\ \A u \in Thread : u # t => request'[u] = request[u]
      BY <1>0, <1>7, DoneRequests DEF Insert
    <2>4. BindingInv' /\ PausedDeviceIdle'
      BY <2>2, <2>3 DEF Inv, BindingInv, PausedDeviceIdle, Directed, Accepting, Exists
    <2>5. SweepInv'
      BY <1>0, <2>2, <2>3 DEF Inv, SweepInv, Sweep
    <2>6. ASSUME NEW u \in Thread, (request[u].kind = "claim" /\ ~request[u].late)'
          PROVE  (/\ run[request[u].run].target \in {None, request[u].agent}
                  /\ run[request[u].run].status = "pending" /\ Directed(request[u].run)
                       => Accepting(request[u].agent))'
      <3>1. /\ u # t /\ request'[u] = request[u]
            /\ request[u].run \in Run /\ request[u].run # r
        BY <1>0, <2>1, <2>3, <2>6 DEF Typed, RequestInv
      <3> QED
        BY <2>2, <2>3, <2>6, <3>1 DEF Inv, ClaimInv, Directed, Accepting, Exists
    <2> QED
      BY <1>0, <2>4, <2>5, <2>6 DEF Inv, ClaimInv, Typed
  <1>8. ASSUME NEW t \in Thread, NEW a \in Agent, ScheduleRunBegin(t, a)
        PROVE  Inv'
    <2>1. /\ UNCHANGED <<run, agent, sweep>>
          /\ \A u \in Thread : request'[u].kind = "claim" => request'[u] = request[u]
      BY <1>0, <1>8 DEF ScheduleRunBegin, Remember, Idle
    <2> QED
      BY <1>0, <2>1, EndKeepsInv DEF RunsOnlyEnd, Accepting, Exists
  <1>9. ASSUME NEW t \in Thread, NEW a \in Agent, DispatchBegin(t, a)
        PROVE  Inv'
    <2>1. /\ UNCHANGED <<run, agent, sweep>>
          /\ \A u \in Thread : request'[u].kind = "claim" => request'[u] = request[u]
      BY <1>0, <1>9 DEF DispatchBegin, Remember, Idle
    <2> QED
      BY <1>0, <2>1, EndKeepsInv DEF RunsOnlyEnd, Accepting, Exists
  <1>27. ASSUME NEW t \in Thread, NEW r \in Run, RetryBegin(t, r)
        PROVE  Inv'
    <2>1. /\ UNCHANGED <<run, agent, sweep>>
          /\ \A u \in Thread : request'[u].kind = "claim" => request'[u] = request[u]
      BY <1>0, <1>27 DEF RetryBegin, DispatchBegin, Remember, Idle
    <2> QED
      BY <1>0, <2>1, EndKeepsInv DEF RunsOnlyEnd, Accepting, Exists
  <1>11. ASSUME NEW t \in Thread, NEW a \in Agent,
                NEW kind \in {"heartbeat", "register", "disable", "enable", "delete"},
                Load(t, a, kind)
         PROVE  Inv'
    <2>1. /\ UNCHANGED <<run, agent, sweep>>
          /\ \A u \in Thread : request'[u].kind = "claim" => request'[u] = request[u]
      BY <1>0, <1>11 DEF Load, Remember, Idle
    <2> QED
      BY <1>0, <2>1, EndKeepsInv DEF RunsOnlyEnd, Accepting, Exists
  <1>10. ASSUME NEW a \in Agent, NEW mode \in {"standard", "managed"}, NEW on \in BOOLEAN,
                RegisterNew(a, mode, on)
         PROVE  Inv'
    <2>1. /\ UNCHANGED <<run, request, sweep>>
          /\ ~Accepting(a)
          /\ \A b \in Agent : b # a => agent'[b] = agent[b]
      BY <1>0, <1>10 DEF RegisterNew, Accepting, Exists
    <2>2. \A b \in Agent : Accepting(b) => Accepting(b)'
      BY <2>1 DEF Accepting, Exists
    <2> QED
      BY <1>0, <2>1, <2>2, EndKeepsInv DEF RunsOnlyEnd
  <1>12. ASSUME NEW t \in Thread, HeartbeatCommit(t)
         PROVE  Inv'
    <2>1. /\ request[t] \in Request /\ request[t].agent \in Agent
          /\ request[t].row \in AgentRow /\ agent[request[t].agent] \in AgentRow
      BY <1>0, <1>12 DEF HeartbeatCommit, Typed, RequestInv, Request
    <2>2. PICK v \in AgentRow : /\ FlushAgent(t, v)
                                /\ v.enabled = request[t].row.enabled \/ v.enabled
                                /\ v.deleted = request[t].row.deleted
                                /\ v.mode = request[t].row.mode \/ v.mode # "absent"
      <3>1. [request[t].row EXCEPT !.status = "online"] \in AgentRow
        BY <2>1 DEF AgentRow
      <3> QED
        BY <1>12, <2>1, <3>1 DEF HeartbeatCommit, AgentRow
    <2>3. /\ agent'[request[t].agent] = Flush(agent[request[t].agent], request[t].row, v)
          /\ \A b \in Agent : b # request[t].agent => agent'[b] = agent[b]
      BY <1>0, <2>1, <2>2, FlushTable
    <2>4. \A b \in Agent : Accepting(b) => Accepting(b)'
      <3>0. PICK a \in Agent : a = request[t].agent
        BY <2>1
      <3> DEFINE f == Flush(agent[a], request[t].row, v)
      <3>1. /\ v.enabled = request[t].row.enabled => f.enabled = agent[a].enabled
            /\ f.enabled \/ v.enabled = request[t].row.enabled \/ ~v.enabled
            /\ f.deleted = agent[a].deleted
            /\ v.mode = request[t].row.mode => f.mode = agent[a].mode
            /\ f.mode \in {v.mode, agent[a].mode}
        BY <2>1, <2>2, <3>0, FlushKeeps
      <3>2. agent'[a] = f
        BY <2>3, <3>0
      <3> HIDE DEF f
      <3>3. Accepting(a) => Accepting(a)'
        BY <2>1, <2>2, <3>1, <3>2 DEF Accepting, Exists
      <3> QED
        BY <2>3, <3>0, <3>3 DEF Accepting, Exists
    <2>5. /\ UNCHANGED <<run, sweep>>
          /\ \A u \in Thread : request'[u].kind = "claim" => request'[u] = request[u]
      BY <1>0, <1>12, DoneRequests DEF HeartbeatCommit
    <2> QED
      BY <1>0, <2>4, <2>5, EndKeepsInv DEF RunsOnlyEnd
  <1>13. ASSUME NEW t \in Thread, NEW mode \in {"standard", "managed"}, RegisterCommit(t, mode)
         PROVE  Inv'
    <2>1. /\ request[t] \in Request /\ request[t].agent \in Agent
          /\ request[t].row \in AgentRow /\ agent[request[t].agent] \in AgentRow
      BY <1>0, <1>13 DEF RegisterCommit, Typed, RequestInv, Request
    <2>2. PICK v \in AgentRow : /\ FlushAgent(t, v)
                                /\ v.enabled = request[t].row.enabled \/ v.enabled
                                /\ v.deleted = request[t].row.deleted
                                /\ v.mode = request[t].row.mode \/ v.mode # "absent"
      <3>1. [request[t].row EXCEPT
               !.mode = mode,
               !.status = IF request[t].row.enabled THEN "online" ELSE "offline"] \in AgentRow
        BY <2>1 DEF AgentRow
      <3> QED
        BY <1>13, <2>1, <3>1 DEF RegisterCommit, AgentRow
    <2>3. /\ agent'[request[t].agent] = Flush(agent[request[t].agent], request[t].row, v)
          /\ \A b \in Agent : b # request[t].agent => agent'[b] = agent[b]
      BY <1>0, <2>1, <2>2, FlushTable
    <2>4. \A b \in Agent : Accepting(b) => Accepting(b)'
      <3>0. PICK a \in Agent : a = request[t].agent
        BY <2>1
      <3> DEFINE f == Flush(agent[a], request[t].row, v)
      <3>1. /\ v.enabled = request[t].row.enabled => f.enabled = agent[a].enabled
            /\ f.enabled \/ v.enabled = request[t].row.enabled \/ ~v.enabled
            /\ f.deleted = agent[a].deleted
            /\ v.mode = request[t].row.mode => f.mode = agent[a].mode
            /\ f.mode \in {v.mode, agent[a].mode}
        BY <2>1, <2>2, <3>0, FlushKeeps
      <3>2. agent'[a] = f
        BY <2>3, <3>0
      <3> HIDE DEF f
      <3>3. Accepting(a) => Accepting(a)'
        BY <2>1, <2>2, <3>1, <3>2 DEF Accepting, Exists
      <3> QED
        BY <2>3, <3>0, <3>3 DEF Accepting, Exists
    <2>5. /\ UNCHANGED <<run, sweep>>
          /\ \A u \in Thread : request'[u].kind = "claim" => request'[u] = request[u]
      BY <1>0, <1>13, DoneRequests DEF RegisterCommit
    <2> QED
      BY <1>0, <2>4, <2>5, EndKeepsInv DEF RunsOnlyEnd
  <1>16. ASSUME NEW t \in Thread, EnableCommit(t)
         PROVE  Inv'
    <2>1. /\ request[t] \in Request /\ request[t].agent \in Agent
          /\ request[t].row \in AgentRow /\ agent[request[t].agent] \in AgentRow
      BY <1>0, <1>16 DEF EnableCommit, Typed, RequestInv, Request
    <2>2. PICK v \in AgentRow : /\ FlushAgent(t, v)
                                /\ v.enabled = request[t].row.enabled \/ v.enabled
                                /\ v.deleted = request[t].row.deleted
                                /\ v.mode = request[t].row.mode \/ v.mode # "absent"
      <3>1. [request[t].row EXCEPT !.enabled = TRUE, !.status = "offline"] \in AgentRow
        BY <2>1 DEF AgentRow
      <3> QED
        BY <1>16, <2>1, <3>1 DEF EnableCommit, AgentRow
    <2>3. /\ agent'[request[t].agent] = Flush(agent[request[t].agent], request[t].row, v)
          /\ \A b \in Agent : b # request[t].agent => agent'[b] = agent[b]
      BY <1>0, <2>1, <2>2, FlushTable
    <2>4. \A b \in Agent : Accepting(b) => Accepting(b)'
      <3>0. PICK a \in Agent : a = request[t].agent
        BY <2>1
      <3> DEFINE f == Flush(agent[a], request[t].row, v)
      <3>1. /\ v.enabled = request[t].row.enabled => f.enabled = agent[a].enabled
            /\ f.enabled \/ v.enabled = request[t].row.enabled \/ ~v.enabled
            /\ f.deleted = agent[a].deleted
            /\ v.mode = request[t].row.mode => f.mode = agent[a].mode
            /\ f.mode \in {v.mode, agent[a].mode}
        BY <2>1, <2>2, <3>0, FlushKeeps
      <3>2. agent'[a] = f
        BY <2>3, <3>0
      <3> HIDE DEF f
      <3>3. Accepting(a) => Accepting(a)'
        BY <2>1, <2>2, <3>1, <3>2 DEF Accepting, Exists
      <3> QED
        BY <2>3, <3>0, <3>3 DEF Accepting, Exists
    <2>5. /\ UNCHANGED <<run, sweep>>
          /\ \A u \in Thread : request'[u].kind = "claim" => request'[u] = request[u]
      BY <1>0, <1>16, DoneRequests DEF EnableCommit
    <2> QED
      BY <1>0, <2>4, <2>5, EndKeepsInv DEF RunsOnlyEnd
  <1>14. ASSUME NEW t \in Thread, DisableCommit(t)
         PROVE  Inv'
    <2>1. /\ request[t] \in Request /\ request[t].agent \in Agent
          /\ request[t].row \in AgentRow
      BY <1>0, <1>14 DEF DisableCommit, Typed, RequestInv, Request
    <2>2. [request[t].row EXCEPT !.enabled = FALSE, !.status = "offline"] \in AgentRow
      BY <2>1 DEF AgentRow
    <2>3. \A b \in Agent : b # request[t].agent => agent'[b] = agent[b]
      BY <1>0, <1>14, <2>1, <2>2, FlushTable DEF DisableCommit
    <2>4. StopActiveWork(request[t].agent)
      BY <1>14 DEF DisableCommit
    <2>5. /\ RunsOnlyEnd
          /\ \A r \in Run : run[r].target = request[t].agent
                             => run'[r].status \notin {"pending", "running"}
      BY <1>0, <2>4, StopStep DEF RunsOnlyEnd
    <2>6. /\ UNCHANGED sweep
          /\ \A u \in Thread : request'[u].kind = "claim" => request'[u] = request[u]
      BY <1>0, <1>14, DoneRequests DEF DisableCommit
    <2>7. \A b \in Agent : b # request[t].agent /\ Accepting(b) => Accepting(b)'
      BY <2>3 DEF Accepting, Exists
    <2> QED
      BY <1>0, <2>1, <2>5, <2>6, <2>7, EndKeepsInv
  <1>15. ASSUME NEW t \in Thread, DeleteCommit(t)
         PROVE  Inv'
    <2>1. /\ request[t] \in Request /\ request[t].agent \in Agent
          /\ request[t].row \in AgentRow
      BY <1>0, <1>15 DEF DeleteCommit, Typed, RequestInv, Request
    <2>2. [request[t].row EXCEPT
             !.enabled = FALSE, !.deleted = TRUE, !.status = "offline"] \in AgentRow
      BY <2>1 DEF AgentRow
    <2>3. \A b \in Agent : b # request[t].agent => agent'[b] = agent[b]
      BY <1>0, <1>15, <2>1, <2>2, FlushTable DEF DeleteCommit
    <2>4. StopActiveWork(request[t].agent)
      BY <1>15 DEF DeleteCommit
    <2>5. /\ RunsOnlyEnd
          /\ \A r \in Run : run[r].target = request[t].agent
                             => run'[r].status \notin {"pending", "running"}
      BY <1>0, <2>4, StopStep DEF RunsOnlyEnd
    <2>6. /\ UNCHANGED sweep
          /\ \A u \in Thread : request'[u].kind = "claim" => request'[u] = request[u]
      BY <1>0, <1>15, DoneRequests DEF DeleteCommit
    <2>7. \A b \in Agent : b # request[t].agent /\ Accepting(b) => Accepting(b)'
      BY <2>3 DEF Accepting, Exists
    <2> QED
      BY <1>0, <2>1, <2>5, <2>6, <2>7, EndKeepsInv
  <1>17. ASSUME NEW t \in Thread, Abort(t)
         PROVE  Inv'
    <2>1. /\ UNCHANGED <<run, agent, sweep>>
          /\ \A u \in Thread : request'[u].kind = "claim" => request'[u] = request[u]
      BY <1>0, <1>17, DoneRequests DEF Abort
    <2> QED
      BY <1>0, <2>1, EndKeepsInv DEF RunsOnlyEnd, Accepting, Exists
  <1>18. CASE SweepDevices
    <2>1. /\ UNCHANGED <<run, agent, request>>
          /\ \A r \in sweep'.runs : run[r].status # "unused"
      BY <1>18 DEF SweepDevices, NoSweep
    <2> QED
      BY <1>0, <2>1, EndKeepsInv DEF RunsOnlyEnd, Accepting, Exists
  <1>19. CASE SweepStuckRuns
    <2>1. /\ UNCHANGED <<run, agent, request>>
          /\ \A r \in sweep'.runs : run[r].status # "unused"
      BY <1>19 DEF SweepStuckRuns, NoSweep
    <2> QED
      BY <1>0, <2>1, EndKeepsInv DEF RunsOnlyEnd, Accepting, Exists
  <1>21. CASE SweepOverdue
    <2>1. /\ UNCHANGED <<run, agent, request>>
          /\ \A r \in sweep'.runs : run[r].status # "unused"
      BY <1>21 DEF SweepOverdue, NoSweep
    <2> QED
      BY <1>0, <2>1, EndKeepsInv DEF RunsOnlyEnd, Accepting, Exists
  <1>23. CASE SweepAbort
    <2>1. /\ UNCHANGED <<run, agent, request>>
          /\ \A r \in sweep'.runs : run[r].status # "unused"
      BY <1>23 DEF SweepAbort, NoSweep
    <2> QED
      BY <1>0, <2>1, EndKeepsInv DEF RunsOnlyEnd, Accepting, Exists
  <1>20. CASE SweepFail
    <2>1. /\ run' = Stamp(sweep.runs, "failed") /\ sweep.runs \in SUBSET Run
          /\ UNCHANGED request
          /\ sweep'.runs = {}
      BY <1>0, <1>20 DEF SweepFail, NoSweep, Sweep
    <2>2. RunsOnlyEnd
      BY <1>0, <2>1, StampStep DEF RunsOnlyEnd, Inv, SweepInv, Status, Terminal
    <2>3. \A a \in Agent : Accepting(a) => Accepting(a)'
      BY <1>0, <1>20 DEF SweepFail, Accepting, Exists, AgentRow
    <2> QED
      BY <1>0, <2>1, <2>2, <2>3, EndKeepsInv
  <1>22. ASSUME NEW kept \in SUBSET Run, SweepExpire(kept)
         PROVE  Inv'
    <2>1. /\ run' = Stamp(kept, "expired")
          /\ kept \subseteq sweep.runs
          /\ UNCHANGED <<agent, request>>
          /\ sweep'.runs = {}
      BY <1>22 DEF SweepExpire, NoSweep
    <2>2. RunsOnlyEnd
      BY <1>0, <2>1, StampStep DEF RunsOnlyEnd, Inv, SweepInv, Status, Terminal
    <2> QED
      BY <1>0, <2>1, <2>2, EndKeepsInv DEF Accepting, Exists
  <1>24. ASSUME NEW a \in Agent, GoStale(a)
         PROVE  Inv'
    BY <1>0, <1>24, EndKeepsInv DEF GoStale, RunsOnlyEnd, Accepting, Exists
  <1>25. ASSUME NEW r \in Run, BecomeOverdue(r)
         PROVE  Inv'
    <2>1. RunsOnlyEnd
      BY <1>0, <1>25 DEF BecomeOverdue, RunsOnlyEnd, RunRow
    <2> QED
      BY <1>0, <1>25, <2>1, EndKeepsInv DEF BecomeOverdue, Accepting, Exists
  <1>26. CASE UNCHANGED vars
    BY <1>0, <1>26, EndKeepsInv DEF vars, RunsOnlyEnd, Accepting, Exists
  <1> QED
    BY <1>1, <1>2, <1>3, <1>4, <1>5, <1>6, <1>7, <1>8, <1>9, <1>10, <1>11, <1>12, <1>13, <1>14,
       <1>15, <1>16, <1>17, <1>18, <1>19, <1>20, <1>21, <1>22, <1>23, <1>24, <1>25, <1>26, <1>27
       DEF Next, RunRequests, DeviceRequests, Scheduler, Time

-----------------------------------------------------------------------------
(* Theorems *)

THEOREM InvHolds == Spec => []Inv
  BY InvInit, InvStep, PTL DEF Spec

\* Type correctness.
THEOREM TypeCorrect == Spec => []TypeOK
  <1>1. Inv => TypeOK
    BY DEF Inv
  <1> QED
    BY <1>1, InvHolds, PTL

\* A run is bound to one device at most, and a directed run to its target only.
THEOREM RunsAreBound == Spec => []BindingInv
  <1>1. Inv => BindingInv
    BY DEF Inv
  <1> QED
    BY <1>1, InvHolds, PTL

\* No directed run executes on a device that is paused or deleted, however claims,
\* dispatches and administrators' actions interleave.
THEOREM PausedDevicesAreIdle == Spec => []PausedDeviceIdle
  <1>1. Inv => PausedDeviceIdle
    BY DEF Inv
  <1> QED
    BY <1>1, InvHolds, PTL

-----------------------------------------------------------------------------
(* Refinement *)

\* The rows as RunContract sees them.
View == [r \in Run |-> [status |-> run[r].status, target |-> run[r].target,
                        executor |-> run[r].executor]]

\* Stamping rows that exist is the contract's Override.
LEMMA StampOverrides ==
    ASSUME run \in [Run -> RunRow], NEW S \in SUBSET Run,
           NEW s \in {"failed", "cancelled", "expired"},
           \A r \in S : run[r].status # "unused", run' = Stamp(S, s)
    PROVE  Contract!Next
  <1>1. run' \in [Run -> RunRow]
    BY StampStep DEF Status, Terminal
  <1>2. \A r \in Run : [status |-> run'[r].status, target |-> run'[r].target,
                        executor |-> run'[r].executor]
                       = IF r \in S THEN [View[r] EXCEPT !.status = s] ELSE View[r]
    BY DEF Stamp, View, RunRow
  <1>3. View' = [r \in Run |-> IF r \in S THEN [View[r] EXCEPT !.status = s] ELSE View[r]]
    BY <1>2 DEF View
  <1>4. Contract!Override(S, s)
    BY <1>3 DEF Contract!Override, View
  <1> QED
    BY <1>4 DEF Contract!Next

LEMMA ContractInit == Init => Contract!Init
  BY DEF Init, NoRun, Contract!Init, Contract!Unused

LEMMA ContractStep == Inv /\ Inv' /\ [Next]_vars => Contract!Next \/ UNCHANGED View
  <1> SUFFICES ASSUME Inv, Inv', [Next]_vars PROVE Contract!Next \/ UNCHANGED View
    OBVIOUS
  <1>0. /\ Typed
        /\ run \in [Run -> RunRow] /\ run' \in [Run -> RunRow]
        /\ \A t \in Thread : request[t] \in Request
        /\ sweep \in Sweep
    BY DEF Inv, Typed, TypeOK
  <1>1. CASE UNCHANGED run
    BY <1>1 DEF View
  <1>2. ASSUME NEW t \in Thread, ClaimCommit(t)
        PROVE  Contract!Next \/ UNCHANGED View
    <2>1. PICK r \in Run, a \in Agent : r = request[t].run /\ a = request[t].agent
      BY <1>0, <1>2 DEF ClaimCommit, Typed, RequestInv
    <2>2. CASE run[r].status = "pending" /\ request[t].late /\ run' = [run EXCEPT ![r].status = "expired"]
      <3>1. run' = Stamp({r}, "expired") /\ \A q \in {r} : run[q].status # "unused"
        BY <1>0, <2>2 DEF Stamp, RunRow
      <3>2. PICK S \in SUBSET Run : run' = Stamp(S, "expired") /\ \A q \in S : run[q].status # "unused"
        BY <3>1
      <3> QED
        BY <1>0, <3>2, StampOverrides
    <2>3. CASE /\ run[r].status = "pending" /\ ~request[t].late /\ run[r].executor = None
               /\ run' = [run EXCEPT ![r].status = "running", ![r].executor = a]
      <3>0. request[t].kind = "claim" /\ ~request[t].late
        BY <1>2, <2>3 DEF ClaimCommit
      <3>1. run[r].target \in {None, a}
        BY <3>0, <2>1 DEF Inv, ClaimInv
      <3>2. View' = [View EXCEPT ![r].status = "running", ![r].executor = a]
        <4>1. \A q \in Run : q # r => run'[q] = run[q]
          BY <1>0, <2>3
        <4>2. /\ run'[r].status = "running" /\ run'[r].executor = a
              /\ run'[r].target = run[r].target
          BY <1>0, <2>3 DEF RunRow
        <4>3. View' = [q \in Run |-> IF q = r THEN [View[r] EXCEPT !.status = "running", !.executor = a]
                                     ELSE View[q]]
          BY <4>1, <4>2 DEF View
        <4> QED
          BY <4>3 DEF View
      <3>3. Contract!Claim(r, a)
        BY <2>3, <3>1, <3>2 DEF Contract!Claim, View
      <3> QED
        BY <3>3 DEF Contract!Next
    <2> QED
      BY <1>1, <1>2, <2>1, <2>2, <2>3 DEF ClaimCommit
  <1>3. ASSUME NEW a \in Agent, NEW r \in Run, NEW outcome \in {"success", "failed"},
               Report(a, r, outcome)
        PROVE  Contract!Next \/ UNCHANGED View
    <2>1. run[r].status = "running" /\ run[r].executor # None
      BY <1>3, NoneIsNoRow DEF Report
    <2>2. View' = [View EXCEPT ![r].status = outcome]
      BY <1>0, <1>3 DEF Report, View, RunRow
    <2>3. Contract!Finish(r, outcome)
      BY <2>1, <2>2 DEF Contract!Finish, View
    <2> QED
      BY <2>3 DEF Contract!Next
  <1>4. ASSUME NEW r \in Run, CancelRun(r)
        PROVE  Contract!Next \/ UNCHANGED View
    <2>1. run' = Stamp({r}, "cancelled")
      BY <1>0, <1>4 DEF CancelRun, Stamp, RunRow
    <2>2. PICK S \in SUBSET Run : run' = Stamp(S, "cancelled") /\ \A q \in S : run[q].status # "unused"
      BY <1>4, <2>1 DEF CancelRun
    <2> QED
      BY <1>0, <2>2, StampOverrides
  <1>5. ASSUME NEW t \in Thread, ExecuteAbandon(t)
        PROVE  Contract!Next \/ UNCHANGED View
    <2>1. PICK S \in SUBSET Run : run' = Stamp(S, "cancelled") /\ \A q \in S : run[q].status # "unused"
      BY <1>0, <1>5 DEF ExecuteAbandon, Typed, RequestInv
    <2> QED
      BY <1>0, <2>1, StampOverrides
  <1>6. ASSUME NEW t \in Thread, Insert(t)
        PROVE  Contract!Next \/ UNCHANGED View
    <2>1. PICK r \in Run, d \in Device :
             /\ run[r].status = "unused"
             /\ run' = [run EXCEPT ![r] = [NoRun EXCEPT !.status = "pending", !.target = d]]
      BY <1>0, <1>6 DEF Insert, Request
    <2>2. View' = [View EXCEPT ![r] = [status |-> "pending", target |-> d, executor |-> None]]
      BY <1>0, <2>1 DEF View, NoRun, RunRow
    <2>3. Contract!Create(r, d)
      BY <2>1, <2>2 DEF Contract!Create, View
    <2> QED
      BY <2>3 DEF Contract!Next, Device, Contract!Device
  <1>7. ASSUME NEW a \in Agent, StopActiveWork(a)
        PROVE  Contract!Next \/ UNCHANGED View
    <2>1. PICK S \in SUBSET Run : run' = Stamp(S, "cancelled") /\ \A q \in S : run[q].status # "unused"
      BY <1>7 DEF StopActiveWork, RunningOn
    <2> QED
      BY <1>0, <2>1, StampOverrides
  <1>8. ASSUME NEW t \in Thread, DisableCommit(t) \/ DeleteCommit(t)
        PROVE  Contract!Next \/ UNCHANGED View
    BY <1>0, <1>7, <1>8 DEF DisableCommit, DeleteCommit, Typed, RequestInv
  <1>9. CASE SweepFail
    <2>1. run' = Stamp(sweep.runs, "failed") /\ sweep.runs \in SUBSET Run
      BY <1>0, <1>9 DEF SweepFail, Sweep
    <2> QED
      BY <1>0, <2>1, StampOverrides DEF Inv, SweepInv
  <1>10. ASSUME NEW kept \in SUBSET Run, SweepExpire(kept)
         PROVE  Contract!Next \/ UNCHANGED View
    <2>1. run' = Stamp(kept, "expired") /\ \A q \in kept : run[q].status # "unused"
      BY <1>10 DEF SweepExpire, Inv, SweepInv
    <2> QED
      BY <1>0, <2>1, StampOverrides
  <1>11. ASSUME NEW r \in Run, BecomeOverdue(r)
         PROVE  Contract!Next \/ UNCHANGED View
    BY <1>0, <1>11 DEF BecomeOverdue, View, RunRow
  <1> QED
    BY <1>1, <1>2, <1>3, <1>4, <1>5, <1>6, <1>8, <1>9, <1>10, <1>11
       DEF Next, RunRequests, DeviceRequests, Scheduler, Time, vars, ClaimBegin, ExecuteBegin,
           DispatchBegin, ScheduleRunBegin, RetryBegin, RegisterNew, Load, RegisterCommit,
           HeartbeatCommit, EnableCommit, Abort, SweepDevices, SweepStuckRuns, SweepOverdue,
           SweepAbort, GoStale

\* The run table implements its contract: every handler, sweep and clock step is
\* one of the contract's steps or leaves the rows as they are.
THEOREM RunTableRefinesContract == Spec => ImplementsContract
  <1>1. Inv /\ Inv' /\ [Next]_vars => [Contract!Next]_View
    BY ContractStep
  <1> QED
    BY <1>1, InvHolds, ContractInit, PTL
       DEF Spec, ImplementsContract, Contract!Spec, View

-----------------------------------------------------------------------------
(* Action properties *)

\* A run that ended badly never runs or succeeds afterwards, and the device a run
\* is bound to never changes.
LEMMA RowStep ==
    ASSUME Inv, [Next]_vars, NEW r \in Run, Inv'
    PROVE  /\ run[r].status \in {"cancelled", "failed", "expired"}
                => run'[r].status \in {"cancelled", "failed", "expired"}
           /\ run[r].executor # None => run'[r].executor = run[r].executor
  <1>1. run \in [Run -> RunRow] /\ run' \in [Run -> RunRow]
    BY DEF Inv, TypeOK
  <1>2. Contract!Next \/ UNCHANGED View
    BY ContractStep
  <1>3. /\ View[r].status = run[r].status /\ View[r].executor = run[r].executor
        /\ View'[r].status = run'[r].status /\ View'[r].executor = run'[r].executor
    BY DEF View
  <1>4. run[r].status = "unused" => run[r].executor = None
    BY DEF Inv, BindingInv
  <1>5. CASE UNCHANGED View
    BY <1>3, <1>5
  <1> DEFINE Goal == /\ run[r].status \in {"cancelled", "failed", "expired"}
                          => run'[r].status \in {"cancelled", "failed", "expired"}
                     /\ run[r].executor # None => run'[r].executor = run[r].executor
  <1>6. CASE Contract!Next
    <2>0. View \in [Run -> [status : Status, target : Device, executor : Device]]
      BY <1>1 DEF View, RunRow
    <2>1. ASSUME NEW q \in Run, NEW d \in Device, Contract!Create(q, d) PROVE Goal
      BY <1>3, <1>4, <2>0, <2>1 DEF Contract!Create, View
    <2>2. ASSUME NEW q \in Run, NEW a \in Agent, Contract!Claim(q, a) PROVE Goal
      BY <1>3, <2>0, <2>2 DEF Contract!Claim, View
    <2>3. ASSUME NEW q \in Run, NEW s \in {"success", "failed"}, Contract!Finish(q, s) PROVE Goal
      <3>1. View[q].status = "running" /\ View' = [View EXCEPT ![q].status = s]
        BY <2>3 DEF Contract!Finish, View
      <3>2. View'[r].executor = View[r].executor /\ (q # r => View'[r] = View[r])
        BY <2>0, <3>1
      <3> QED
        BY <1>3, <3>1, <3>2
    <2>4. ASSUME NEW S \in SUBSET Run, Contract!Cancel(S) PROVE Goal
      <3>1. /\ r \in S => View[r].status \in {"pending", "running"}
            /\ View' = [q \in Run |-> IF q \in S THEN [View[q] EXCEPT !.status = "cancelled"]
                                      ELSE View[q]]
        BY <2>4 DEF Contract!Cancel, View
      <3>2. View'[r].executor = View[r].executor /\ (r \notin S => View'[r] = View[r])
        BY <2>0, <3>1
      <3> QED
        BY <1>3, <3>1, <3>2
    <2>5. ASSUME NEW S \in SUBSET Run, NEW s \in {"failed", "cancelled", "expired"},
                 Contract!Override(S, s)
          PROVE  Goal
      BY <1>3, <2>0, <2>5 DEF Contract!Override, View
    <2> QED
      BY <1>6, <2>1, <2>2, <2>3, <2>4, <2>5
         DEF Contract!Next, Device, Contract!Device
  <1> QED
    BY <1>2, <1>3, <1>5, <1>6

\* Late claims and delayed reports lose: an ended run is never resurrected.
THEOREM EndedRunsStayEnded == Spec => NeverResurrected
  <1>1. Inv /\ Inv' /\ [Next]_vars =>
          [\A r \in Run : run[r].status \in {"cancelled", "failed", "expired"}
              => run'[r].status \in {"cancelled", "failed", "expired"}]_run
    BY RowStep
  <1> QED
    BY <1>1, InvHolds, PTL DEF Spec, NeverResurrected

\* A run is never taken from the device that claimed it.
THEOREM RunsAreNotMoved == Spec => ExecutorStable
  <1>1. Inv /\ Inv' /\ [Next]_vars =>
          [\A r \in Run : run[r].executor # None => run'[r].executor = run[r].executor]_run
    BY RowStep
  <1> QED
    BY <1>1, InvHolds, PTL DEF Spec, ExecutorStable

=============================================================================
