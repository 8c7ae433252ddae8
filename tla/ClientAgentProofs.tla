------------------------- MODULE ClientAgentProofs --------------------------
(***************************************************************************)
(* For any number of runs, cached reports and late requests: the client     *)
(* executes one script at a time and only what is bound to it, forgets no   *)
(* run that the server takes to be running on it, and no success is told    *)
(* of a run that did not succeed.                                           *)
(***************************************************************************)
EXTENDS ClientAgent, TLAPS

\* The flush never looks past the end of the cache.
QueueInv ==
    /\ left <= Len(pending)
    /\ pc = "down" => left = 0

\* One slot for both kinds of run: the main loop asks for work only while no local
\* run exists, and no local run begins while it holds the lock or a run executes.
SlotInv ==
    /\ proc # None => local = "none"
    /\ pc \in {"next", "claim", "prepare"} => local = "none" /\ proc = None
    /\ pc \in {"cancel", "check"} => proc # None
    /\ pc \in {"claim", "prepare", "report"} => job \in Run

\* A waiting run is bound to nobody, a run that is prepared or executed to this device.
BoundInv ==
    /\ \A r \in Run : run[r].status \in {"unused", "pending"} => run[r].executor = None
    /\ pc = "prepare" => run[job].executor = Me
    /\ proc # None => run[proc].executor = Me

Cached(x, q) == \E i \in DOMAIN q : q[i] = x

\* Wherever a success is told, cached or under way, the subprocess has succeeded.
SuccessInv ==
    /\ \A r \in Run : life[r] # "new" => run[r].executor = Me
    /\ pc = "prepare" => life[job] = "new"
    /\ proc # None => life[proc] = "started"
    /\ pc = "report" /\ word = "success" => life[job] = "success"
    /\ \A x \in Report : x.outcome = "success" /\ (Cached(x, pending) \/ Cached(x, disk))
                         => life[x.run] = "success"
    /\ \A m \in late : m.kind = "report" /\ m.outcome = "success" => life[m.run] = "success"
    /\ SuccessIsReal

\* The runs that the client executes, is about to report, or has a report of.
Knows(r) ==
    \/ r \in exposed
    \/ r = proc
    \/ pc \in {"prepare", "report"} /\ r = job
    \/ \E x \in Report : x.run = r /\ Cached(x, IF pc = "down" THEN disk ELSE pending)

\* They include the runs that a late claim may yet bind to the client.
KnownInv ==
    /\ \A r \in Run : Accepts(r) => Knows(r)
    /\ \A m \in late : m.kind = "claim" /\ run[m.run].status \in {"unused", "pending"}
                       => Knows(m.run)

-----------------------------------------------------------------------------
(* The cache of reports as a sequence *)

LEMMA AppendReport ==
    ASSUME NEW q \in Seq(Report), NEW x \in Report
    PROVE  /\ Append(q, x) \in Seq(Report)
           /\ Len(Append(q, x)) = Len(q) + 1
           /\ \A y : Cached(y, Append(q, x)) <=> Cached(y, q) \/ y = x
  <1>1. /\ Append(q, x) \in Seq(Report) /\ Len(Append(q, x)) = Len(q) + 1
        /\ DOMAIN q = 1 .. Len(q) /\ Len(q) \in Nat
        /\ DOMAIN Append(q, x) = 1 .. Len(q) + 1
        /\ \A i \in 1 .. Len(q) : Append(q, x)[i] = q[i]
        /\ Append(q, x)[Len(q) + 1] = x
    OBVIOUS
  <1>2. \A i \in 1 .. Len(q) + 1 : i \in 1 .. Len(q) \/ i = Len(q) + 1
    BY <1>1
  <1>3. \A i \in 1 .. Len(q) : i \in 1 .. Len(q) + 1
    BY <1>1
  <1>4. Len(q) + 1 \in 1 .. Len(q) + 1
    BY <1>1
  <1> QED
    BY <1>1, <1>2, <1>3, <1>4 DEF Cached

LEMMA TakeReport ==
    ASSUME NEW q \in Seq(Report), Len(q) > 0
    PROVE  /\ Head(q) \in Report /\ Tail(q) \in Seq(Report)
           /\ Len(Tail(q)) = Len(q) - 1
           /\ \A y : Cached(y, q) <=> Cached(y, Tail(q)) \/ y = Head(q)
  <1>1. /\ Head(q) \in Report /\ Head(q) = q[1]
        /\ Tail(q) \in Seq(Report) /\ Len(Tail(q)) = Len(q) - 1
        /\ DOMAIN q = 1 .. Len(q) /\ Len(q) \in Nat
        /\ DOMAIN Tail(q) = 1 .. Len(q) - 1
        /\ \A i \in 1 .. Len(q) - 1 : Tail(q)[i] = q[i + 1]
    OBVIOUS
  <1>2. \A i \in 1 .. Len(q) : i = 1 \/ i - 1 \in 1 .. Len(q) - 1
    BY <1>1
  <1>3. \A i \in 1 .. Len(q) - 1 : i + 1 \in 1 .. Len(q)
    BY <1>1
  <1>4. \A i \in 1 .. Len(q) : i - 1 \in 1 .. Len(q) - 1 => Tail(q)[i - 1] = q[i]
    BY <1>1
  <1>5. 1 \in 1 .. Len(q)
    BY <1>1
  <1> QED
    BY <1>1, <1>2, <1>3, <1>4, <1>5 DEF Cached

LEMMA RunsOfReports ==
    ASSUME NEW q \in Seq(Report), NEW r
    PROVE  r \in RunsIn(q) <=> \E x \in Report : x.run = r /\ Cached(x, q)
  <1>1. \A i \in DOMAIN q : q[i] \in Report
    OBVIOUS
  <1> QED
    BY <1>1 DEF RunsIn, Cached

\* A report that is tried and kept goes to the end of the cache.
LEMMA KeepReport ==
    ASSUME NEW q \in Seq(Report), Len(q) > 0
    PROVE  /\ Append(Tail(q), Head(q)) \in Seq(Report)
           /\ Len(Append(Tail(q), Head(q))) = Len(q)
           /\ \A y : Cached(y, Append(Tail(q), Head(q))) <=> Cached(y, q)
  <1>1. Len(q) \in Nat
    OBVIOUS
  <1>2. Head(q) \in Report /\ Tail(q) \in Seq(Report)
    BY TakeReport
  <1>3. /\ Append(Tail(q), Head(q)) \in Seq(Report)
        /\ Len(Append(Tail(q), Head(q))) = Len(Tail(q)) + 1
        /\ \A y : Cached(y, Append(Tail(q), Head(q))) <=> Cached(y, Tail(q)) \/ y = Head(q)
    BY <1>2, AppendReport
  <1> QED
    BY <1>1, <1>3, TakeReport

-----------------------------------------------------------------------------
(* What the server does to its runs *)

Table == [Run -> [status : Server!Status, target : {Me, Other, None},
                  executor : {Me, Other, None}]]

Waiting == {"unused", "pending"}

\* A step of the server moves no run away from this device, binds no run that stays
\* waiting, and starts at most the runs of S on this device.
Moved(S) ==
    /\ run' \in Table
    /\ \A r \in Run :
       /\ run[r].executor = Me => run'[r].executor = Me
       /\ run'[r].status \in Waiting => run[r].status \in Waiting /\ run'[r].executor = None
       /\ r \notin S /\ run'[r].executor = Me /\ run'[r].status = "running"
          => run[r].executor = Me /\ run[r].status = "running"

Unbound == \A r \in Run : run[r].status \in Waiting => run[r].executor = None

LEMMA NothingMoves ==
    ASSUME run \in Table, Unbound, run' = run
    PROVE  Moved({})
  BY DEF Moved, Unbound

LEMMA ClaimMoves ==
    ASSUME run \in Table, Unbound, NEW r \in Run, NEW a \in {Me, Other}, Server!Claim(r, a)
    PROVE  Moved(IF a = Me THEN {r} ELSE {})
  BY AgentAssumption DEF Table, Unbound, Waiting, Moved, Server!Claim, Server!Status, Server!Terminal

LEMMA TakeMoves ==
    ASSUME run \in Table, Unbound, NEW r \in Run, NEW outcome \in Outcome, Server!Finish(r, outcome)
    PROVE  Moved({})
  BY AgentAssumption DEF Table, Unbound, Waiting, Moved, Outcome, Server!Finish, Server!Status, Server!Terminal

LEMMA OthersMove ==
    ASSUME run \in Table, Unbound, NEW r \in Run, Others(r)
    PROVE  Moved({})
  <1> USE AgentAssumption DEF Table, Unbound, Waiting, Moved, Server!Status, Server!Terminal
  <1>1. ASSUME NEW target \in {None, Me}, Server!Create(r, target) PROVE Moved({})
    BY <1>1 DEF Server!Create
  <1>2. CASE Server!Claim(r, Other)
    BY <1>2 DEF Server!Claim
  <1>3. CASE Server!Cancel({r})
    BY <1>3 DEF Server!Cancel
  <1>4. CASE Server!Override({r}, "failed")
    BY <1>4 DEF Server!Override
  <1> QED
    BY <1>1, <1>2, <1>3, <1>4 DEF Others

-----------------------------------------------------------------------------
(* The inductive invariant *)

Inv == /\ TypeOK /\ QueueInv /\ SlotInv
       /\ BoundInv /\ SuccessInv /\ KnownInv

LEMMA InvInit == Init => Inv
  <1> SUFFICES ASSUME Init PROVE Inv
    OBVIOUS
  <1>1. TypeOK
    BY AgentAssumption DEF Init, TypeOK, Server!Init, Server!Unused, Server!Status, Server!Terminal,
       Outcome, Message
  <1>2. QueueInv /\ SlotInv
    BY DEF Init, QueueInv, SlotInv
  <1>3. BoundInv
    BY DEF Init, BoundInv, Server!Init, Server!Unused
  <1>4. \A x : ~Cached(x, <<>>)
    BY DEF Cached
  <1>5. SuccessInv
    BY <1>4 DEF Init, SuccessInv, SuccessIsReal
  <1>6. KnownInv
    BY AgentAssumption DEF Init, KnownInv, Accepts, Server!Init, Server!Unused
  <1> QED
    BY <1>1, <1>2, <1>3, <1>5, <1>6 DEF Inv

LEMMA HeadOfFlush ==
    ASSUME Inv, left > 0
    PROVE  Len(pending) > 0 /\ pending \in Seq(Report) /\ Head(pending) \in Report
  <1>1. pending \in Seq(Report) /\ left \in Nat /\ left <= Len(pending)
    BY AgentAssumption DEF Inv, TypeOK, QueueInv
  <1>2. Len(pending) > 0
    BY <1>1
  <1> QED
    BY <1>1, <1>2, TakeReport

LEMMA ServerSteps ==
    ASSUME Inv
    PROVE  /\ FlushAnswered \/ Reported => Moved({})
           /\ Claimed \/ ClaimError => Moved({job})
           /\ \A m \in late : Deliver(m) => Moved(IF m.kind = "claim" THEN {m.run} ELSE {})
           /\ \A r \in Run : Others(r) => Moved({})
  <1>1. run \in Table /\ Unbound
    BY DEF Inv, TypeOK, Table, BoundInv, Unbound, Waiting
  <1>2. ASSUME FlushAnswered PROVE Moved({})
    <2>1. PICK r \in Run, o \in Outcome : r = Head(pending).run /\ o = Head(pending).outcome
      BY <1>2, HeadOfFlush DEF FlushAnswered, Report
    <2>2. Server!Finish(r, o) \/ run' = run
      BY <1>2, <2>1 DEF FlushAnswered, Take
    <2> QED
      BY <1>1, <2>2, TakeMoves, NothingMoves
  <1>3. ASSUME Reported PROVE Moved({})
    <2>1. job \in Run /\ word \in Outcome
      BY <1>3 DEF Reported, Inv, SlotInv, TypeOK
    <2>2. Server!Finish(job, word) \/ run' = run
      BY <1>3 DEF Reported, Take
    <2> QED
      BY <1>1, <2>1, <2>2, TakeMoves, NothingMoves
  <1>4. ASSUME Claimed \/ ClaimError PROVE Moved({job})
    <2>1. job \in Run /\ Server!Claim(job, Me)
      BY <1>4 DEF Claimed, ClaimError, Inv, SlotInv
    <2> QED
      BY <1>1, <2>1, ClaimMoves
  <1>5. ASSUME NEW m \in late, Deliver(m)
        PROVE  Moved(IF m.kind = "claim" THEN {m.run} ELSE {})
    <2>1. m.run \in Run /\ m.outcome \in Outcome /\ m.kind \in {"claim", "report"}
      BY DEF Inv, TypeOK, Message, Outcome
    <2>2. CASE m.kind = "claim" /\ Server!Claim(m.run, Me)
      BY <1>1, <2>1, <2>2, ClaimMoves
    <2>3. CASE m.kind = "report" /\ Server!Finish(m.run, m.outcome)
      BY <1>1, <2>1, <2>3, TakeMoves
    <2>4. CASE run' = run
      BY <1>1, <2>4, NothingMoves DEF Moved
    <2> QED
      BY <1>5, <2>2, <2>3, <2>4 DEF Deliver, Take
  <1> QED
    BY <1>1, <1>2, <1>3, <1>4, <1>5, OthersMove

\* The actions that leave the server alone.
Quiet ==
    \/ Begin \/ FlushFails \/ FlushEnds \/ Save \/ CheckLocal \/ Poll \/ KillCancelled
    \/ NotCancelled \/ StillRunning \/ (\E outcome \in Outcome : Ended(outcome))
    \/ (\E r \in Run : Offered(r)) \/ NothingOffered \/ ClaimRefused \/ ClaimFails
    \/ PrepareFails \/ Start \/ NotReported \/ Offline \/ LocalApi \/ Crash \/ Restart
    \/ UNCHANGED vars

LEMMA QuietKeeps == Quiet => run' = run /\ told' = told
  BY DEF Quiet, Begin, FlushFails, FlushEnds, Save, CheckLocal, Poll, KillCancelled, NotCancelled,
     StillRunning, Ended, Offered, NothingOffered, ClaimRefused, ClaimFails, PrepareFails, Start,
     NotReported, Offline, LocalApi, LocalBegin, LocalStarts, Crash, Restart, vars, history

LEMMA Steps ==
    ASSUME [Next]_vars
    PROVE  \/ FlushAnswered \/ Reported \/ Claimed \/ ClaimError
           \/ (\E m \in late : Deliver(m)) \/ (\E r \in Run : Others(r))
           \/ Quiet
  BY DEF Next, MainLoop, Flush, Working, Claims, Reports, Network, Quiet

LEMMA TableStep ==
    ASSUME Inv, [Next]_vars
    PROVE  Moved(Run)
  <1>1. \A S \in SUBSET Run : Moved(S) => Moved(Run)
    BY DEF Moved
  <1>2. Moved({}) => Moved(Run)
    BY <1>1
  <1>3. ASSUME NEW r \in Run, Moved({r}) PROVE Moved(Run)
    BY <1>1, <1>3
  <1>4. CASE Quiet
    BY <1>2, <1>4, QuietKeeps, NothingMoves
       DEF Inv, TypeOK, Table, BoundInv, Unbound, Waiting
  <1>5. CASE Claimed \/ ClaimError
    BY <1>3, <1>5, ServerSteps DEF Claimed, ClaimError, Inv, SlotInv
  <1>6. ASSUME NEW m \in late, Deliver(m) PROVE Moved(Run)
    <2>1. m.run \in Run
      BY DEF Inv, TypeOK, Message
    <2> QED
      BY <1>2, <1>3, <1>6, <2>1, ServerSteps
  <1> QED
    BY <1>2, <1>4, <1>5, <1>6, Steps, ServerSteps

-----------------------------------------------------------------------------
(* Each part of the invariant is preserved *)

LEMMA Messages ==
    /\ \A r \in Run : ClaimOf(r) \in Message
    /\ \A r \in Run, o \in Outcome : ReportOf(r, o) \in Message
  BY DEF ClaimOf, ReportOf, Message

LEMMA GivenUp ==
    ASSUME NEW m, GiveUp(m)
    PROVE  late' \subseteq late \cup {m}
  BY DEF GiveUp

LEMMA TypeStep ==
    ASSUME Inv, [Next]_vars
    PROVE  TypeOK' /\ QueueInv'
  <1> USE AgentAssumption DEF TypeOK, QueueInv
  <1>1. run' \in [Run -> [status : Server!Status, target : {Me, Other, None},
                          executor : {Me, Other, None}]]
    BY TableStep DEF Moved, Table
  <1>2. /\ late \subseteq Message
        /\ pc \in {"down", "idle", "flush", "saveFlush", "local", "poll"} \cup Polling
        /\ job \in Run \cup {None} /\ word \in Outcome /\ proc \in Run \cup {None}
        /\ local \in {"none", "starting", "running"}
        /\ pending \in Seq(Report) /\ Len(pending) \in Nat /\ Len(pending) <= MaxCached
        /\ left \in 0 .. MaxCached /\ left <= Len(pending) /\ (pc = "down" => left = 0)
        /\ disk \in Seq(Report) /\ Len(disk) \in Nat /\ Len(disk) <= MaxCached
        /\ life \in [Run -> {"new", "started", "killed"} \cup Outcome]
        /\ told \in [Run -> Outcome \cup {"nothing"}] /\ exposed \subseteq Run
    BY DEF Inv
  <1>3. Len(pending) > 0 /\ left > 0 =>
           /\ Head(pending) \in Report
           /\ Tail(pending) \in Seq(Report) /\ Len(Tail(pending)) = Len(pending) - 1
           /\ Append(Tail(pending), Head(pending)) \in Seq(Report)
           /\ Len(Append(Tail(pending), Head(pending))) = Len(pending)
    BY <1>2, TakeReport, KeepReport
  <1>4. <<>> \in Seq(Report) /\ Len(<<>>) = 0
    OBVIOUS
  <1>25. ASSUME disk' \in {pending, disk, <<>>}
         PROVE  disk' \in Seq(Report) /\ Len(disk') <= MaxCached
    <2>1. CASE disk' = pending
      BY <1>2, <2>1
    <2>2. CASE disk' = disk
      BY <1>2, <2>2
    <2>3. CASE disk' = <<>>
      BY <1>4, <2>3
    <2> QED
      BY <1>25, <2>1, <2>2, <2>3
  <1>5. CASE FlushAnswered
    <2>1. /\ left' = left - 1 /\ left > 0
          /\ pending' \in {Tail(pending), Append(Tail(pending), Head(pending))}
          /\ UNCHANGED <<late, pc, job, word, proc, local, disk, life, exposed>>
      BY <1>5 DEF FlushAnswered
    <2>2. told' \in [Run -> Outcome \cup {"nothing"}]
      BY <1>2, <1>3, <1>5, HeadOfFlush DEF FlushAnswered, Take, Report
    <2>3. pending' \in Seq(Report) /\ Len(pending') <= MaxCached /\ left' <= Len(pending')
      <3>1. Len(pending) > 0
        BY <2>1, HeadOfFlush
      <3>2. CASE pending' = Tail(pending)
        BY <1>2, <1>3, <2>1, <3>1, <3>2
      <3>3. CASE pending' = Append(Tail(pending), Head(pending))
        BY <1>2, <1>3, <2>1, <3>1, <3>3
      <3> QED
        BY <2>1, <3>2, <3>3
    <2> QED
      BY <1>1, <1>2, <1>5, <2>1, <2>2, <2>3 DEF FlushAnswered
  <1>6. CASE Reported
    <2>1. told' \in [Run -> Outcome \cup {"nothing"}]
      BY <1>2, <1>6 DEF Reported, Take
    <2> QED
      BY <1>1, <1>2, <1>6, <2>1 DEF Reported, Goto, Outcome
  <1>7. CASE Claimed
    BY <1>1, <1>2, <1>7 DEF Claimed, Goto, Polling, history
  <1>8. CASE ClaimError
    BY <1>1, <1>2, <1>8 DEF ClaimError, Goto, Inv, SlotInv
  <1>9. ASSUME NEW m \in late, Deliver(m) PROVE TypeOK' /\ QueueInv'
    <2>1. m.outcome \in Outcome
      BY <1>2 DEF Message, Outcome
    <2>2. told' \in [Run -> Outcome \cup {"nothing"}] /\ late' \subseteq Message
      BY <1>2, <1>9, <2>1 DEF Deliver, Take
    <2> QED
      BY <1>1, <1>2, <1>9, <2>2 DEF Deliver, client
  <1>10. ASSUME NEW r \in Run, Others(r) PROVE TypeOK' /\ QueueInv'
    BY <1>1, <1>2, <1>10 DEF Others, client, history
  <1>11. CASE Begin
    BY <1>1, <1>2, <1>11 DEF Begin, Goto, history
  <1>12. CASE FlushFails
    <2>1. ReportOf(Head(pending).run, Head(pending).outcome) \in Message
      BY <1>12, HeadOfFlush, Messages DEF FlushFails, Report
    <2>2. late' \subseteq Message
      BY <1>2, <1>12, <2>1, GivenUp DEF FlushFails
    <2> QED
      BY <1>1, <1>2, <1>3, <1>12, <2>2, HeadOfFlush DEF FlushFails, history
  <1>13. CASE FlushEnds \/ NotCancelled \/ StillRunning \/ NothingOffered \/ UNCHANGED vars
    BY <1>1, <1>2, <1>13 DEF FlushEnds, NotCancelled, StillRunning, NothingOffered, vars, client,
       history, Goto, Polling
  <1>23. CASE CheckLocal \/ Poll \/ Offline \/ LocalApi
    BY <1>1, <1>2, <1>23 DEF CheckLocal, Poll, Offline, LocalApi, LocalBegin, LocalStarts,
       history, Goto, Polling
  <1>24. CASE ClaimRefused \/ PrepareFails
    BY <1>1, <1>2, <1>24 DEF ClaimRefused, PrepareFails, history, Goto, Polling, Outcome
  <1>14. CASE Save
    <2>1. disk' \in Seq(Report) /\ Len(disk') <= MaxCached
      BY <1>14, <1>25 DEF Save
    <2> QED
      BY <1>1, <1>2, <1>14, <2>1 DEF Save, Goto, history
  <1>15. CASE KillCancelled
    BY <1>1, <1>2, <1>15 DEF KillCancelled, Goto
  <1>16. ASSUME NEW outcome \in Outcome, Ended(outcome) PROVE TypeOK' /\ QueueInv'
    BY <1>1, <1>2, <1>16 DEF Ended, Goto, Polling
  <1>17. ASSUME NEW r \in Run, Offered(r) PROVE TypeOK' /\ QueueInv'
    BY <1>1, <1>2, <1>17 DEF Offered, Goto, Polling, history
  <1>18. CASE ClaimFails
    <2>1. late' \subseteq Message
      BY <1>2, <1>18, GivenUp, Messages DEF ClaimFails, Inv, SlotInv
    <2> QED
      BY <1>1, <1>2, <1>18, <2>1 DEF ClaimFails, Goto, Polling, Outcome, history
  <1>19. CASE Start
    BY <1>1, <1>2, <1>19 DEF Start, Goto
  <1>20. CASE NotReported
    <2>1. job \in Run
      BY <1>20 DEF NotReported, Inv, SlotInv
    <2>2. PICK x \in Report : x = [run |-> job, outcome |-> word]
      BY <1>2, <2>1 DEF Report
    <2>3. pending' = Append(pending, x) /\ Len(pending) < MaxCached
      BY <1>20, <2>2 DEF NotReported
    <2>4. pending' \in Seq(Report) /\ Len(pending') = Len(pending) + 1
      BY <1>2, <2>3, AppendReport
    <2>5. late' \subseteq Message
      BY <1>2, <1>20, <2>1, GivenUp, Messages DEF NotReported
    <2> QED
      BY <1>1, <1>2, <1>20, <2>3, <2>4, <2>5 DEF NotReported, Goto, Polling, Outcome, history
  <1>21. CASE Crash
    <2>1. RunsIn(pending) \subseteq Run
      <3>1. ASSUME NEW r \in RunsIn(pending) PROVE r \in Run
        <4>1. PICK x \in Report : x.run = r
          BY <1>2, <3>1, RunsOfReports
        <4> QED
          BY <4>1 DEF Report
      <3> QED
        BY <3>1
    <2>2. disk' \in Seq(Report) /\ Len(disk') <= MaxCached
      <3>1. disk' \in {pending, disk, <<>>}
        BY <1>21 DEF Crash
      <3> QED
        BY <1>25, <3>1
    <2>3. exposed' \subseteq Run
      BY <1>2, <1>21, <2>1 DEF Crash
    <2> QED
      BY <1>1, <1>2, <1>4, <1>21, <2>2, <2>3 DEF Crash, Outcome
  <1>22. CASE Restart
    BY <1>1, <1>2, <1>22 DEF Restart, Goto, history
  <1> QED
    BY <1>5, <1>6, <1>7, <1>8, <1>9, <1>10, <1>11, <1>12, <1>13, <1>14, <1>15, <1>16, <1>17,
       <1>18, <1>19, <1>20, <1>21, <1>22, <1>23, <1>24, Steps DEF Quiet

LEMMA SlotStep ==
    ASSUME Inv, [Next]_vars
    PROVE  SlotInv'
  <1> USE AgentAssumption DEF SlotInv
  <1>1. SlotInv /\ job \in Run \cup {None} /\ proc \in Run \cup {None}
    BY DEF Inv, TypeOK
  <1>2. CASE FlushAnswered \/ Reported \/ Claimed \/ ClaimError
    BY <1>1, <1>2 DEF FlushAnswered, Reported, Claimed, ClaimError, Goto
  <1>3. ASSUME NEW m \in late, Deliver(m) PROVE SlotInv'
    BY <1>1, <1>3 DEF Deliver, client
  <1>4. ASSUME NEW r \in Run, Others(r) PROVE SlotInv'
    BY <1>1, <1>4 DEF Others, client
  <1>5. CASE Quiet
    BY <1>1, <1>5 DEF Quiet, Begin, FlushFails, FlushEnds, Save, CheckLocal, Poll, KillCancelled,
       NotCancelled, StillRunning, Ended, Offered, NothingOffered, ClaimRefused, ClaimFails,
       PrepareFails, Start, NotReported, Offline, LocalApi, LocalBegin, LocalStarts, Crash, Restart,
       vars, client, Goto, Polling
  <1> QED
    BY <1>2, <1>3, <1>4, <1>5, Steps

LEMMA BoundStep ==
    ASSUME Inv, [Next]_vars
    PROVE  BoundInv'
  <1> USE AgentAssumption
  <1>1. /\ BoundInv /\ SlotInv /\ job \in Run \cup {None} /\ proc \in Run \cup {None}
        /\ run \in Table
    BY DEF Inv, TypeOK, Table
  <1>2. /\ \A r \in Run : run[r].executor = Me => run'[r].executor = Me
        /\ \A r \in Run : run'[r].status \in {"unused", "pending"} => run'[r].executor = None
    BY TableStep DEF Moved, Waiting
  <1>3. ASSUME pc' = "prepare" => pc = "prepare" /\ job' = job, proc' \in {proc, None}
        PROVE  BoundInv'
    BY <1>1, <1>2, <1>3 DEF BoundInv, SlotInv
  <1>4. CASE Claimed
    <2>1. job \in Run /\ run'[job].executor = Me
      BY <1>1, <1>4 DEF Claimed, SlotInv, Table, Server!Claim
    <2> QED
      BY <1>1, <1>2, <1>4, <2>1 DEF Claimed, BoundInv
  <1>5. CASE Start
    BY <1>1, <1>2, <1>5 DEF Start, Goto, BoundInv, SlotInv
  <1>6. CASE FlushAnswered \/ Reported \/ ClaimError
    BY <1>3, <1>6 DEF FlushAnswered, Reported, ClaimError, Goto
  <1>7. ASSUME NEW m \in late, Deliver(m) PROVE BoundInv'
    BY <1>3, <1>7 DEF Deliver, client
  <1>8. ASSUME NEW r \in Run, Others(r) PROVE BoundInv'
    BY <1>3, <1>8 DEF Others, client
  <1>9. CASE Quiet /\ ~Start
    BY <1>3, <1>9 DEF Quiet, Begin, FlushFails, FlushEnds, Save, CheckLocal, Poll, KillCancelled,
       NotCancelled, StillRunning, Ended, Offered, NothingOffered, ClaimRefused, ClaimFails,
       PrepareFails, NotReported, Offline, LocalApi, LocalBegin, LocalStarts, Crash, Restart,
       vars, client, Goto
  <1> QED
    BY <1>4, <1>5, <1>6, <1>7, <1>8, <1>9, Steps

\* What the cache and the file hold after a step was there before, except the report
\* that is cached for the first time.
LEMMA CacheStep ==
    ASSUME Inv, [Next]_vars, NEW x, Cached(x, pending') \/ Cached(x, disk')
    PROVE  \/ Cached(x, pending) \/ Cached(x, disk)
           \/ NotReported /\ x = [run |-> job, outcome |-> word]
  <1>1. ~Cached(x, <<>>)
    BY DEF Cached
  <1>2. pending \in Seq(Report)
    BY DEF Inv, TypeOK
  <1>3. CASE FlushAnswered \/ FlushFails
    <2>1. /\ left > 0 /\ disk' = disk
          /\ pending' \in {Tail(pending), Append(Tail(pending), Head(pending))}
      BY <1>3 DEF FlushAnswered, FlushFails
    <2>2. Len(pending) > 0
      BY <2>1, HeadOfFlush
    <2>3. Cached(x, Tail(pending)) => Cached(x, pending)
      BY <1>2, <2>2, TakeReport
    <2>4. Cached(x, Append(Tail(pending), Head(pending))) => Cached(x, pending)
      BY <1>2, <2>2, KeepReport
    <2>5. CASE pending' = Tail(pending)
      BY <2>1, <2>3, <2>5
    <2>6. CASE pending' = Append(Tail(pending), Head(pending))
      BY <2>1, <2>4, <2>6
    <2> QED
      BY <2>1, <2>5, <2>6
  <1>4. CASE NotReported
    <2>1. job \in Run /\ word \in Outcome
      BY <1>4 DEF NotReported, Inv, SlotInv, TypeOK
    <2>2. [run |-> job, outcome |-> word] \in Report
      BY <2>1 DEF Report
    <2> QED
      BY <1>2, <1>4, <2>2, AppendReport DEF NotReported
  <1>5. CASE Save \/ Crash \/ Restart
    BY <1>1, <1>5 DEF Save, Crash, Restart
  <1>6. CASE Reported \/ Claimed \/ ClaimError
    BY <1>6 DEF Reported, Claimed, ClaimError
  <1>7. ASSUME NEW m \in late, Deliver(m) PROVE Cached(x, pending) \/ Cached(x, disk)
    BY <1>7 DEF Deliver, client
  <1>8. ASSUME NEW r \in Run, Others(r) PROVE Cached(x, pending) \/ Cached(x, disk)
    BY <1>8 DEF Others, client
  <1>9. CASE Quiet /\ ~(FlushFails \/ NotReported \/ Save \/ Crash \/ Restart)
    BY <1>9 DEF Quiet, Begin, FlushEnds, CheckLocal, Poll, KillCancelled, NotCancelled,
       StillRunning, Ended, Offered, NothingOffered, ClaimRefused, ClaimFails, PrepareFails, Start,
       Offline, LocalApi, LocalBegin, LocalStarts, vars, client
  <1> QED
    BY <1>3, <1>4, <1>5, <1>6, <1>7, <1>8, <1>9, Steps

\* A subprocess that has succeeded remains so, and one that was started is bound.
LEMMA LifeStep ==
    ASSUME Inv, [Next]_vars
    PROVE  /\ \A r \in Run : life[r] = "success" => life'[r] = "success"
           /\ \A r \in Run : life'[r] # "new" => run'[r].executor = Me
  <1>1. /\ BoundInv /\ SlotInv /\ SuccessInv /\ proc \in Run \cup {None}
        /\ life \in [Run -> {"new", "started", "killed"} \cup Outcome]
    BY DEF Inv, TypeOK
  <1>2. \A r \in Run : run[r].executor = Me => run'[r].executor = Me
    BY TableStep DEF Moved
  <1>3. ASSUME NEW r \in Run, NEW l, life' = [life EXCEPT ![r] = l], life[r] # "success",
               run[r].executor = Me
        PROVE  /\ \A s \in Run : life[s] = "success" => life'[s] = "success"
               /\ \A s \in Run : life'[s] # "new" => run'[s].executor = Me
    BY <1>1, <1>2, <1>3 DEF SuccessInv
  <1>4. CASE KillCancelled
    BY <1>1, <1>3, <1>4 DEF KillCancelled, SlotInv, BoundInv, SuccessInv
  <1>5. ASSUME NEW outcome \in Outcome, Ended(outcome)
        PROVE  /\ \A s \in Run : life[s] = "success" => life'[s] = "success"
               /\ \A s \in Run : life'[s] # "new" => run'[s].executor = Me
    BY <1>1, <1>3, <1>5 DEF Ended, SlotInv, BoundInv, SuccessInv
  <1>6. CASE Start
    BY <1>1, <1>3, <1>6 DEF Start, SlotInv, BoundInv, SuccessInv
  <1>7. CASE life' = life
    BY <1>1, <1>2, <1>7 DEF SuccessInv
  <1>8. CASE FlushAnswered \/ Reported \/ Claimed \/ ClaimError
    BY <1>7, <1>8 DEF FlushAnswered, Reported, Claimed, ClaimError, history
  <1>9. (\E m \in late : Deliver(m)) \/ (\E r \in Run : Others(r)) => life' = life
    BY DEF Deliver, Others, history
  <1>10. Quiet => life' = life \/ KillCancelled \/ Start \/ \E outcome \in Outcome : Ended(outcome)
    BY DEF Quiet, Begin, FlushFails, FlushEnds, Save, CheckLocal, Poll,
       NotCancelled, StillRunning, Offered, NothingOffered, ClaimRefused, ClaimFails,
       PrepareFails, NotReported, Offline, LocalApi, LocalBegin, LocalStarts, Crash, Restart,
       vars, history
  <1> QED
    BY <1>4, <1>5, <1>6, <1>7, <1>8, <1>9, <1>10, Steps

LEMMA SuccessStep ==
    ASSUME Inv, [Next]_vars
    PROVE  SuccessInv'
  <1> USE AgentAssumption
  <1>1. /\ BoundInv /\ SlotInv /\ SuccessInv
        /\ job \in Run \cup {None} /\ proc \in Run \cup {None} /\ word \in Outcome
        /\ late \subseteq Message
        /\ life \in [Run -> {"new", "started", "killed"} \cup Outcome]
        /\ told \in [Run -> Outcome \cup {"nothing"}]
    BY DEF Inv, TypeOK
  <1>2. /\ \A r \in Run : life[r] = "success" => life'[r] = "success"
        /\ \A r \in Run : life'[r] # "new" => run'[r].executor = Me
    BY LifeStep
  \* The cache and the file.
  <1>3. \A x \in Report : x.outcome = "success" /\ (Cached(x, pending') \/ Cached(x, disk'))
                          => life'[x.run] = "success"
    <2>1. SUFFICES ASSUME NEW x \in Report, x.outcome = "success",
                          Cached(x, pending') \/ Cached(x, disk')
                   PROVE  life[x.run] = "success"
      BY <1>2 DEF Report
    <2>2. CASE NotReported /\ x = [run |-> job, outcome |-> word]
      BY <1>1, <2>1, <2>2 DEF NotReported, SuccessInv
    <2> QED
      BY <1>1, <2>1, <2>2, CacheStep DEF SuccessInv
  \* Requests that were given up.
  <1>4. \A m \in late' : m.kind = "report" /\ m.outcome = "success" => life'[m.run] = "success"
    <2>1. SUFFICES ASSUME NEW m \in late', m.kind = "report", m.outcome = "success", m \notin late
                   PROVE  m.run \in Run /\ life[m.run] = "success"
      BY <1>1, <1>2 DEF SuccessInv, Message
    <2>2. CASE FlushFails
      <3>1. m = ReportOf(Head(pending).run, Head(pending).outcome) /\ left > 0
        BY <2>1, <2>2, GivenUp DEF FlushFails
      <3>2. Head(pending) \in Report /\ Cached(Head(pending), pending)
        BY <3>1, HeadOfFlush, TakeReport
      <3> QED
        BY <1>1, <2>1, <3>1, <3>2 DEF SuccessInv, ReportOf, Report
    <2>3. CASE NotReported
      <3>1. m = ReportOf(job, word)
        BY <2>1, <2>3, GivenUp DEF NotReported
      <3> QED
        BY <1>1, <2>1, <2>3, <3>1 DEF NotReported, SuccessInv, SlotInv, ReportOf
    <2>4. CASE ClaimFails
      BY <2>1, <2>4, GivenUp DEF ClaimFails, ClaimOf
    <2>5. (\E n \in late : Deliver(n)) => late' \subseteq late
      BY DEF Deliver
    <2>6. (\E r \in Run : Others(r)) => late' = late
      BY DEF Others
    <2>7. FlushAnswered \/ Reported \/ Claimed \/ ClaimError => late' = late
      BY DEF FlushAnswered, Reported, Claimed, ClaimError
    <2>8. Quiet => late' = late \/ FlushFails \/ NotReported \/ ClaimFails
      BY DEF Quiet, Begin, FlushEnds, Save, CheckLocal, Poll, KillCancelled,
         NotCancelled, StillRunning, Ended, Offered, NothingOffered, ClaimRefused, PrepareFails,
         Start, Offline, LocalApi, LocalBegin, LocalStarts, Crash, Restart, vars
    <2> QED
      BY <2>1, <2>2, <2>3, <2>4, <2>5, <2>6, <2>7, <2>8, Steps
  \* What the server has taken.
  <1>5. SuccessIsReal'
    <2>1. ASSUME NEW r \in Run, NEW o \in Outcome, told' = [told EXCEPT ![r] = o],
                 o = "success" => life[r] = "success"
          PROVE  SuccessIsReal'
      BY <1>1, <1>2, <2>1 DEF SuccessInv, SuccessIsReal
    <2>2. CASE told' = told
      BY <1>1, <1>2, <2>2 DEF SuccessInv, SuccessIsReal
    <2>3. CASE FlushAnswered
      <3>1. /\ Head(pending) \in Report /\ Cached(Head(pending), pending)
            /\ Head(pending).run \in Run /\ Head(pending).outcome \in Outcome
        BY <2>3, HeadOfFlush, TakeReport DEF FlushAnswered, Report
      <3>2. Head(pending).outcome = "success" => life[Head(pending).run] = "success"
        BY <1>1, <3>1 DEF SuccessInv
      <3> QED
        BY <2>1, <2>2, <2>3, <3>1, <3>2 DEF FlushAnswered, Take
    <2>4. CASE Reported
      <3>1. job \in Run /\ (word = "success" => life[job] = "success")
        BY <1>1, <2>4 DEF Reported, SlotInv, SuccessInv
      <3> QED
        BY <1>1, <2>1, <2>2, <2>4, <3>1 DEF Reported, Take
    <2>5. ASSUME NEW m \in late, Deliver(m) PROVE SuccessIsReal'
      <3>1. m.run \in Run /\ m.outcome \in Outcome
        BY <1>1 DEF Message, Outcome
      <3>2. CASE told' = [told EXCEPT ![m.run] = m.outcome] /\ m.kind = "report"
        BY <1>1, <2>1, <3>1, <3>2 DEF SuccessInv
      <3> QED
        BY <2>2, <2>5, <3>2 DEF Deliver, Take
    <2>6. Claimed \/ ClaimError \/ (\E r \in Run : Others(r)) => told' = told
      BY DEF Claimed, ClaimError, Others, history
    <2> QED
      BY <2>2, <2>3, <2>4, <2>5, <2>6, QuietKeeps, Steps
  \* The run at hand.
  <1>6. ASSUME pc' = "prepare" => pc = "prepare" /\ job' = job,
               proc' \in {proc, None}, life' = life,
               ~(pc' = "report" /\ word' = "success") \/ (pc = "report" /\ word' = word /\ job' = job)
        PROVE  SuccessInv'
    BY <1>1, <1>2, <1>3, <1>4, <1>5, <1>6 DEF SuccessInv
  <1>7. CASE Claimed
    <2>1. job \in Run /\ run[job].executor = None
      BY <1>1, <1>7 DEF Claimed, SlotInv, Server!Claim
    <2>2. life[job] = "new"
      BY <1>1, <2>1 DEF SuccessInv
    <2> QED
      BY <1>1, <1>2, <1>3, <1>4, <1>5, <1>7, <2>2 DEF Claimed, Goto, SuccessInv, history
  <1>8. CASE KillCancelled \/ Start
    BY <1>1, <1>2, <1>3, <1>4, <1>5, <1>8 DEF KillCancelled, Start, Goto, SuccessInv, SlotInv
  <1>9. ASSUME NEW outcome \in Outcome, Ended(outcome) PROVE SuccessInv'
    BY <1>1, <1>2, <1>3, <1>4, <1>5, <1>9 DEF Ended, Goto, SuccessInv, SlotInv
  <1>10. CASE FlushAnswered \/ Reported \/ ClaimError
    BY <1>6, <1>10 DEF FlushAnswered, Reported, ClaimError, Goto, history
  <1>11. ASSUME NEW m \in late, Deliver(m) PROVE SuccessInv'
    BY <1>6, <1>11 DEF Deliver, client
  <1>12. ASSUME NEW r \in Run, Others(r) PROVE SuccessInv'
    BY <1>6, <1>12 DEF Others, client, history
  <1>13. CASE Quiet /\ ~(KillCancelled \/ Start \/ \E outcome \in Outcome : Ended(outcome))
    BY <1>6, <1>13 DEF Quiet, Begin, FlushFails, FlushEnds, Save, CheckLocal, Poll,
       NotCancelled, StillRunning, Offered, NothingOffered, ClaimRefused, ClaimFails,
       PrepareFails, NotReported, Offline, LocalApi, LocalBegin, LocalStarts, Crash, Restart,
       vars, client, history, Goto
  <1> QED
    BY <1>7, <1>8, <1>9, <1>10, <1>11, <1>12, <1>13, Steps

\* KnownInv holds after a step that forgets no run that is, or may yet be, running here,
\* starts none that the client does not know, and gives up no claim of such a run.
LEMMA Knowing ==
    ASSUME Inv, [Next]_vars,
           \A r \in Run : Knows(r) => Knows(r)' \/ (run'[r].executor = Me /\ run'[r].status # "running"),
           \A r \in Run : Accepts(r)' => Accepts(r) \/ Knows(r)',
           \A m \in late' : m \in late \/ m.kind # "claim" \/ Knows(m.run)'
    PROVE  KnownInv'
  <1>1. late \subseteq Message /\ late' \subseteq Message /\ KnownInv
    BY TypeStep DEF Inv, TypeOK
  <1>2. \A r \in Run : run'[r].status \in {"unused", "pending"}
                       => run[r].status \in {"unused", "pending"} /\ run'[r].executor = None
    BY TableStep DEF Moved, Waiting
  <1>3. ASSUME NEW r \in Run, Accepts(r)' PROVE Knows(r)'
    <2>1. run'[r].executor = Me /\ run'[r].status = "running"
      BY <1>3 DEF Accepts
    <2> QED
      BY <1>1, <1>3, <2>1 DEF KnownInv
  <1>4. ASSUME NEW m \in late', m.kind = "claim", run'[m.run].status \in {"unused", "pending"}
        PROVE  Knows(m.run)'
    <2>1. m.run \in Run
      BY <1>1 DEF Message
    <2>2. /\ run[m.run].status \in {"unused", "pending"}
          /\ run'[m.run].executor # Me
      BY <1>2, <1>4, <2>1, AgentAssumption
    <2> QED
      BY <1>1, <1>4, <2>1, <2>2 DEF KnownInv
  <1> QED
    BY <1>3, <1>4 DEF KnownInv

\* A step that starts nothing on this device.
LEMMA StartsNothing ==
    ASSUME Moved({})
    PROVE  \A r \in Run : Accepts(r)' => Accepts(r)
  BY DEF Moved, Accepts

LEMMA KnownStep ==
    ASSUME Inv, [Next]_vars
    PROVE  KnownInv'
  <1> USE AgentAssumption
  <1>1. /\ SlotInv /\ KnownInv /\ proc \in Run \cup {None} /\ job \in Run \cup {None}
        /\ pending \in Seq(Report) /\ disk \in Seq(Report) /\ late \subseteq Message
        /\ run \in Table /\ Unbound
    BY DEF Inv, TypeOK, Table, BoundInv, Unbound, Waiting
  <1>2. \A r \in Run : run[r].executor = Me => run'[r].executor = Me
    BY TableStep DEF Moved
  \* Only the table or the requests under way change.
  <1>3. ASSUME Moved({}), late' \subseteq late, client' = client, exposed' = exposed
        PROVE  KnownInv'
    BY <1>3, Knowing, StartsNothing DEF Knows, client
  <1>4. ASSUME NEW m \in late, Deliver(m) PROVE KnownInv'
    <2>1. m.run \in Run /\ late' \subseteq late /\ client' = client /\ exposed' = exposed
      BY <1>1, <1>4 DEF Deliver, Message
    <2>2. CASE m.kind # "claim"
      BY <1>3, <1>4, <2>1, <2>2, ServerSteps
    <2>3. CASE m.kind = "claim" /\ Server!Claim(m.run, Me)
      <3>1. Knows(m.run)
        BY <1>1, <2>1, <2>3 DEF KnownInv, Server!Claim
      <3>2. \A r \in Run : Knows(r) => Knows(r)'
        BY <2>1 DEF Knows, client
      <3>3. Moved({m.run})
        BY <1>4, <2>3, ServerSteps
      <3>4. \A r \in Run : Accepts(r)' => Accepts(r) \/ r = m.run
        BY <3>3 DEF Moved, Accepts
      <3> QED
        BY <2>1, <3>1, <3>2, <3>4, Knowing
    <2>4. CASE run' = run
      BY <1>1, <1>3, <2>1, <2>4, NothingMoves
    <2> QED
      BY <1>4, <2>2, <2>3, <2>4 DEF Deliver
  <1>5. ASSUME NEW r \in Run, Others(r) PROVE KnownInv'
    BY <1>3, <1>5, ServerSteps DEF Others, history
  <1>6. CASE Claimed \/ ClaimError
    <2>1. PICK j \in Run : j = job
      BY <1>1, <1>6 DEF Claimed, ClaimError, SlotInv
    <2>2. Moved({j}) /\ late' = late
      BY <1>6, <2>1, ServerSteps DEF Claimed, ClaimError
    <2>3. \A r \in Run : Accepts(r)' => Accepts(r) \/ r = j
      BY <2>2 DEF Moved, Accepts
    <2>4. Knows(j)' /\ \A r \in Run : Knows(r) => Knows(r)'
      BY <1>6, <2>1 DEF Claimed, ClaimError, Goto, Knows, history
    <2> QED
      BY <2>2, <2>3, <2>4, Knowing
  <1>7. ASSUME Moved({}), late' \subseteq late,
               \A r \in Run : Knows(r) => Knows(r)' \/ (run'[r].executor = Me /\ run'[r].status # "running")
        PROVE  KnownInv'
    BY <1>7, Knowing, StartsNothing
  <1>8. CASE Reported
    <2>1. run'[job].executor = Me /\ run'[job].status # "running"
      BY <1>1, <1>8 DEF Reported, Take, Accepts, Conflict, SlotInv, Table, Server!Finish, Outcome,
         Inv, TypeOK
    <2>2. \A r \in Run : r # job /\ Knows(r) => Knows(r)'
      BY <1>8 DEF Reported, Goto, Knows
    <2>3. Moved({}) /\ late' = late
      BY <1>8, ServerSteps DEF Reported
    <2> QED
      BY <1>7, <2>1, <2>2, <2>3
  <1>9. CASE FlushAnswered
    <2>1. PICK x \in Report : x = Head(pending)
      BY <1>9, HeadOfFlush DEF FlushAnswered
    <2>2. Len(pending) > 0 /\ pc = "flush" /\ pc' = pc
      BY <1>9, HeadOfFlush DEF FlushAnswered
    <2>3. \A y : Cached(y, pending) => y = x \/ Cached(y, Tail(pending))
      BY <1>1, <2>1, <2>2, TakeReport
    <2>4. \A y : Cached(y, pending) => Cached(y, Append(Tail(pending), Head(pending)))
      BY <1>1, <2>2, KeepReport
    <2>5. x.run \in Run /\ x.outcome \in Outcome
      BY DEF Report
    <2>6. CASE pending' = Append(Tail(pending), Head(pending))
      <3>1. \A r \in Run : Knows(r) => Knows(r)'
        BY <1>9, <2>2, <2>4, <2>6 DEF FlushAnswered, Knows
      <3> QED
        BY <1>7, <1>9, <3>1, ServerSteps DEF FlushAnswered
    <2>7. CASE pending' = Tail(pending) /\ (Accepts(x.run) \/ Conflict(x.run))
      <3>1. run'[x.run].executor = Me /\ run'[x.run].status # "running"
        BY <1>1, <1>9, <2>1, <2>5, <2>7
           DEF FlushAnswered, Take, Accepts, Conflict, Table, Server!Finish, Outcome
      <3>2. \A r \in Run : r # x.run /\ Knows(r) => Knows(r)'
        BY <1>9, <2>2, <2>3, <2>7 DEF FlushAnswered, Knows
      <3> QED
        BY <1>7, <1>9, <3>1, <3>2, ServerSteps DEF FlushAnswered
    <2> QED
      BY <1>9, <2>1, <2>6, <2>7 DEF FlushAnswered
  <1>10. CASE Quiet
    <2>1. run' = run /\ Moved({})
      BY <1>1, <1>10, QuietKeeps, NothingMoves
    <2>2. ASSUME late' \subseteq late, \A r \in Run : Knows(r) => Knows(r)' PROVE KnownInv'
      BY <1>7, <2>1, <2>2
    <2>3. CASE FlushFails
      <3>1. /\ pending' = Append(Tail(pending), Head(pending)) /\ pc = "flush" /\ left > 0
            /\ pc' = pc /\ exposed' = exposed /\ proc' = proc /\ job' = job
        BY <2>3 DEF FlushFails, history
      <3>2. \A y : Cached(y, pending) => Cached(y, pending')
        BY <1>1, <3>1, HeadOfFlush, KeepReport
      <3>3. \A r \in Run : Knows(r) => Knows(r)'
        BY <3>1, <3>2 DEF Knows
      <3>4. \A m \in late' : m \in late \/ m.kind # "claim"
        BY <2>3, GivenUp DEF FlushFails, ReportOf
      <3> QED
        BY <2>1, <3>3, <3>4, Knowing, StartsNothing
    <2>4. CASE ClaimFails
      <3>0. PICK j \in Run : j = job
        BY <1>1, <2>4 DEF ClaimFails, SlotInv
      <3>1. \A m \in late' : m \in late \/ m.run = j
        BY <2>4, <3>0, GivenUp DEF ClaimFails, ClaimOf
      <3>2. Knows(j)' /\ \A r \in Run : Knows(r) => Knows(r)'
        BY <2>4, <3>0 DEF ClaimFails, Goto, Knows, history
      <3> QED
        BY <2>1, <3>1, <3>2, Knowing, StartsNothing
    <2>5. CASE NotReported
      <3>1. job \in Run /\ [run |-> job, outcome |-> word] \in Report
        BY <1>1, <2>5 DEF NotReported, SlotInv, Inv, TypeOK, Report
      <3>2. PICK x \in Report : x = [run |-> job, outcome |-> word]
        BY <3>1
      <3>3. /\ pending' = Append(pending, x) /\ x.run = job /\ pc = "report"
            /\ pc' = "saveReport" /\ exposed' = exposed /\ proc' = proc
        BY <2>5, <3>2 DEF NotReported, Goto, history
      <3>4. Cached(x, pending') /\ \A y : Cached(y, pending) => Cached(y, pending')
        BY <1>1, <3>3, AppendReport
      <3>5. \A r \in Run : Knows(r) => Knows(r)'
        BY <3>3, <3>4 DEF Knows
      <3>6. \A m \in late' : m \in late \/ m.kind # "claim"
        BY <2>5, GivenUp DEF NotReported, ReportOf
      <3> QED
        BY <2>1, <3>5, <3>6, Knowing, StartsNothing
    <2>6. CASE KillCancelled
      <3>1. /\ \A r \in Run : r # proc /\ Knows(r) => Knows(r)'
            /\ late' = late /\ run[proc].status = "cancelled"
        BY <2>6 DEF KillCancelled, Goto, Knows
      <3>2. run'[proc].executor = Me
        BY <2>1, <2>6 DEF KillCancelled, Inv, BoundInv, SlotInv
      <3> QED
        BY <1>7, <2>1, <3>1, <3>2
    <2>7. CASE Crash
      <3>1. \A r \in Run : Knows(r) => Knows(r)'
        <4>1. SUFFICES ASSUME NEW r \in Run, Knows(r), r \notin exposed, r \notin RunsIn(disk')
                       PROVE  r \in exposed'
          <5>1. disk' \in Seq(Report)
            BY TypeStep DEF TypeOK
          <5>2. \A r \in Run : r \in RunsIn(disk') => Knows(r)'
            BY <2>7, <5>1, RunsOfReports DEF Crash, Knows
          <5>3. \A r \in Run : r \in exposed \/ r \in exposed' => Knows(r)'
            BY <2>7 DEF Crash, Knows
          <5> QED
            BY <5>2, <5>3
        <4>2. r \in ({proc, job} \ {None}) \cup RunsIn(pending)
          BY <1>1, <2>7, <4>1, RunsOfReports DEF Crash, Knows
        <4> QED
          BY <2>7, <4>1, <4>2 DEF Crash
      <3> QED
        BY <2>2, <2>7, <3>1 DEF Crash
    <2>8. CASE Restart
      BY <2>2, <2>8 DEF Restart, Goto, Knows, history
    <2>9. CASE Save \/ Start \/ \E outcome \in Outcome : Ended(outcome)
      BY <1>1, <2>2, <2>9 DEF Save, Start, Ended, Goto, Knows, history, SlotInv
    <2>10. CASE Begin \/ FlushEnds \/ CheckLocal \/ Poll \/ NotCancelled \/ StillRunning
                \/ (\E r \in Run : Offered(r)) \/ NothingOffered \/ ClaimRefused \/ PrepareFails
                \/ Offline \/ LocalApi \/ UNCHANGED vars
      BY <2>2, <2>10 DEF Begin, FlushEnds, CheckLocal, Poll, NotCancelled, StillRunning, Offered,
         NothingOffered, ClaimRefused, PrepareFails, Offline, LocalApi, LocalBegin, LocalStarts,
         vars, client, history, Goto, Knows
    <2> QED
      BY <1>10, <2>3, <2>4, <2>5, <2>6, <2>7, <2>8, <2>9, <2>10 DEF Quiet
  <1> QED
    BY <1>4, <1>5, <1>6, <1>8, <1>9, <1>10, Steps

LEMMA InvStep == Inv /\ [Next]_vars => Inv'
  BY TypeStep, SlotStep, BoundStep, SuccessStep, KnownStep DEF Inv

-----------------------------------------------------------------------------
(* Theorems *)

THEOREM ClientInvHolds == Spec => []Inv
  <1> QED
    BY InvInit, InvStep, PTL DEF Spec

\* The client, its cache and the server's table stay well typed, and the cache within
\* its bound, for any number of runs, cached reports and late requests.
THEOREM ClientTypeCorrect == Spec => []TypeOK
  <1>1. Inv => TypeOK
    BY DEF Inv
  <1> QED
    BY <1>1, ClientInvHolds, PTL

\* A run of the server and a local run never execute at the same time.
THEOREM OneScriptAtATime == Spec => []OneSubprocess
  <1>1. Inv => OneSubprocess
    BY DEF Inv, SlotInv, OneSubprocess
  <1> QED
    BY <1>1, ClientInvHolds, PTL

\* The client executes only what the server has bound to it.
THEOREM ExecutionIsBound == Spec => []ExecutesOnlyClaimed
  <1>1. Inv => ExecutesOnlyClaimed
    BY DEF Inv, BoundInv, ExecutesOnlyClaimed
  <1> QED
    BY <1>1, ClientInvHolds, PTL

\* A run that the server takes to be running here is executed, about to be reported,
\* or cached as a report, unless an error answer or a crash has hidden it.
THEOREM RunningRunsAreKnown == Spec => []ClaimedIsKnown
  <1>1. Inv => ClaimedIsKnown
    <2>1. SUFFICES ASSUME Inv, NEW r \in Run, Knows(r)
                   PROVE  r \in exposed \cup {proc, job}
                                \cup RunsIn(IF pc = "down" THEN disk ELSE pending)
      BY DEF Inv, KnownInv, ClaimedIsKnown
    <2>2. pending \in Seq(Report) /\ disk \in Seq(Report)
      BY <2>1 DEF Inv, TypeOK
    <2> QED
      BY <2>1, <2>2, RunsOfReports DEF Knows
  <1> QED
    BY <1>1, ClientInvHolds, PTL

\* A success that the server takes from this client is the success of that run's
\* subprocess, also when the report was cached, repeated or delayed.
THEOREM SuccessesAreReal == Spec => []SuccessIsReal
  <1>1. Inv => SuccessIsReal
    BY DEF Inv, SuccessInv
  <1> QED
    BY <1>1, ClientInvHolds, PTL

-----------------------------------------------------------------------------
(* The contract of the run table *)

LEMMA ContractStep == Inv /\ [Next]_vars => [Server!Next]_run
  <1> SUFFICES ASSUME Inv, [Next]_vars PROVE Server!Next \/ run' = run
    OBVIOUS
  <1>1. ASSUME NEW r \in Run, NEW o \in Outcome, Server!Claim(r, Me) \/ Server!Finish(r, o)
        PROVE  Server!Next
    BY <1>1 DEF Server!Next, Outcome
  <1>2. CASE FlushAnswered
    <2>1. PICK r \in Run, o \in Outcome : r = Head(pending).run /\ o = Head(pending).outcome
      BY <1>2, HeadOfFlush DEF FlushAnswered, Report
    <2> QED
      BY <1>1, <1>2, <2>1 DEF FlushAnswered, Take
  <1>3. CASE Reported
    <2>1. job \in Run /\ word \in Outcome
      BY <1>3 DEF Reported, Inv, SlotInv, TypeOK
    <2> QED
      BY <1>1, <1>3, <2>1 DEF Reported, Take
  <1>4. CASE Claimed \/ ClaimError
    <2>1. job \in Run
      BY <1>4 DEF Claimed, ClaimError, Inv, SlotInv
    <2> QED
      BY <1>1, <1>4, <2>1 DEF Claimed, ClaimError, Outcome
  <1>5. ASSUME NEW m \in late, Deliver(m) PROVE Server!Next \/ run' = run
    <2>1. m.run \in Run /\ m.outcome \in Outcome
      BY DEF Inv, TypeOK, Message, Outcome
    <2> QED
      BY <1>1, <1>5, <2>1 DEF Deliver, Take
  <1>6. ASSUME NEW r \in Run, Others(r) PROVE Server!Next
    <2>1. {None, Me} \subseteq Server!Device /\ {r} \in SUBSET Run
      BY DEF Server!Device
    <2>2. ASSUME NEW d \in {None, Me}, Server!Create(r, d) PROVE Server!Next
      BY <2>1, <2>2 DEF Server!Next
    <2>3. CASE Server!Claim(r, Other)
      BY <2>3 DEF Server!Next
    <2>4. CASE Server!Cancel({r})
      BY <2>1, <2>4 DEF Server!Next
    <2>5. CASE Server!Override({r}, "failed")
      BY <2>1, <2>5 DEF Server!Next
    <2> QED
      BY <1>6, <2>2, <2>3, <2>4, <2>5 DEF Others
  <1> QED
    BY <1>2, <1>3, <1>4, <1>5, <1>6, Steps, QuietKeeps

(* Whatever this client sends, repeats or sends too late, and whatever others do, *)
(* the server's table moves only as the contract allows that the server's own     *)
(* model implements (RunLifecycle).                                               *)
THEOREM TheClientKeepsTheContract == Spec => Server!Spec
  <1>1. Init => Server!Init
    BY DEF Init
  <1> QED
    BY <1>1, ContractStep, ClientInvHolds, PTL DEF Spec, Server!Spec

=============================================================================
