-------------------------- MODULE LocalRunsProofs --------------------------
(***************************************************************************)
(* For any local runs and any runs of the server, whatever is lost, late   *)
(* or forgotten: a local run is imported once, an import that this device  *)
(* knows is not executed by it, and a record that counts as synchronised   *)
(* has a run that has ended.                                               *)
(***************************************************************************)
EXTENDS LocalRuns, FiniteSetTheorems, TLAPS

Row == [status : Backend!Status, target : {ThisDevice, OtherDevice, Nobody},
        executor : {ThisDevice, OtherDevice, Nobody}]
Position == [at : {"proc", "info"}, of : LocalRun] \cup {Idle}
Import == [of : LocalRun \cup {Nobody}, saw : Backend!Status, logs : BOOLEAN]

\* What a run has been through is never forgotten; a success that this device did
\* not execute was reported for the local run that it was created for.
RunsKept ==
    \A r \in BackendRun :
       /\ table[r].status # "expired"
       /\ table[r].status = "unused" => importOf[r] = Nobody /\ table[r].executor = Nobody
       /\ r \in executed => table[r].executor # Nobody
       /\ importOf[r] # Nobody /\ r \notin executed
          /\ table[r].executor = ThisDevice /\ table[r].status = "success"
             => outcome[importOf[r]] = "success"

EndedFor(r, q) == table[r].status \in {q.status, "failed", "cancelled"}

\* What a record of l says, in memory or on disk.
RecordKept(l, q) ==
    /\ q.status \in Ended => outcome[l] = q.status
    /\ q.backend # Nobody =>
          /\ importOf[q.backend] = l
          /\ q.backend \in executed => table[q.backend].executor = OtherDevice
    /\ q.synced => q.status \in Ended /\ q.backend # Nobody /\ EndedFor(q.backend, q)

\* An identity that is on disk is the one in memory.
RecordsKept ==
    \A l \in LocalRun :
       /\ RecordKept(l, record[l]) /\ RecordKept(l, recordFile[l])
       /\ agent # "down" /\ recordFile[l].backend # Nobody =>
             record[l].backend = recordFile[l].backend

\* The import of a run is the one in memory or, while the client is down, on disk.
Remembered(l) == IF agent = "down" THEN recordFile[l].backend ELSE record[l].backend

ImportsKnown ==
    \A l \in LocalRun \ unknown : \A r \in BackendRun :
       importOf[r] = l => Remembered(l) = r

\* Only a local run that has not ended has a process, and only one that has no
\* record is being started.
ProcessKept ==
    /\ process # Nobody => outcome[process] = "none"
    /\ starter # Idle => record[starter.of].status = "absent"
    /\ agent \in Syncing \cup {"down"} => starter = Idle

Importing == Syncing \ {"next"}

\* Where the synchronisation is, and what it knows there of the run it reports.
SyncKept ==
    /\ agent \in Syncing => \A l \in todo : record[l].status \in Ended
    /\ agent \in Importing =>
          /\ importing.of \in LocalRun /\ record[importing.of].status \in Ended
          /\ agent \in {"create", "insert"} <=> record[importing.of].backend = Nobody
    /\ agent \in {"log", "finish"} => importing.saw # "pending"
    /\ agent \in {"save", "log", "finish"} /\ importing.saw \notin {"pending", "running"} =>
          EndedFor(record[importing.of].backend, record[importing.of])

\* A late report is of the run that was created for the local run.
StragglersKept ==
    \A m \in straggler : m.kind = "finish" =>
       m.run # Nobody /\ importOf[m.run] = m.of /\ outcome[m.of] \in Ended

LocalInv ==
    /\ LocalTypeOK
    /\ RunsKept /\ RecordsKept /\ ImportsKnown /\ ProcessKept /\ SyncKept /\ StragglersKept


-----------------------------------------------------------------------------
(* What a step may do to a run of the server *)

Inserted(r) ==
    /\ table[r].status = "unused"
    /\ table'[r].status = "pending" /\ table'[r].executor = Nobody

ClaimedBy(r, a) ==
    /\ table[r].status = "pending" /\ table[r].executor = Nobody
    /\ table'[r].status = "running" /\ table'[r].executor = a

EndedAs(r, S) ==
    /\ table[r].status \in {"pending", "running"}
    /\ table'[r].status \in S /\ table'[r].executor = table[r].executor

\* What was decided before is written, whatever the run has become.
Overridden(r) ==
    /\ table[r].status # "unused"
    /\ table'[r].status \in {"failed", "cancelled"} /\ table'[r].executor = table[r].executor

RunMoves(r) ==
    \/ table'[r] = table[r]
    \/ Inserted(r)
    \/ ClaimedBy(r, ThisDevice) \/ ClaimedBy(r, OtherDevice)
    \/ EndedAs(r, Ended) \/ Overridden(r)

\* Everything that is remembered of runs and local runs stays.
ServerMoves ==
    /\ table' \in [BackendRun -> Row]
    /\ \A r \in BackendRun :
          RunMoves(r) /\ (importOf[r] # Nobody => importOf'[r] = importOf[r])
    /\ \A l \in LocalRun : outcome[l] \in Ended => outcome'[l] = outcome[l]

LEMMA RowStatus == Backend!Status =
        {"unused", "pending", "running", "success", "failed", "cancelled", "expired"}
  BY DEF Backend!Status, Backend!Terminal

LEMMA RowChange ==
    ASSUME NEW q \in Row, NEW s \in Backend!Status, NEW a \in {ThisDevice, OtherDevice, Nobody}
    PROVE  /\ [q EXCEPT !.status = s] \in Row
           /\ [q EXCEPT !.status = s].status = s /\ [q EXCEPT !.status = s].executor = q.executor
           /\ [q EXCEPT !.status = s, !.executor = a] \in Row
           /\ [q EXCEPT !.status = s, !.executor = a].status = s
           /\ [q EXCEPT !.status = s, !.executor = a].executor = a
  BY DEF Row

LEMMA ClaimMoves ==
    ASSUME table \in [BackendRun -> Row], NEW r \in BackendRun,
           NEW a \in {ThisDevice, OtherDevice}, Backend!Claim(r, a)
    PROVE  /\ table' \in [BackendRun -> Row]
           /\ ClaimedBy(r, a) /\ \A s \in BackendRun \ {r} : table'[s] = table[s]
  <1> DEFINE new == [table[r] EXCEPT !.status = "running", !.executor = a]
  <1>1. new \in Row /\ new.status = "running" /\ new.executor = a
    <2>1. PICK q \in Row : q = table[r]
      OBVIOUS
    <2>2. [q EXCEPT !.status = "running", !.executor = a] \in Row
      BY RowChange, RowStatus
    <2> QED
      BY <2>1, <2>2 DEF Row
  <1>2. table' = [table EXCEPT ![r] = new]
    BY DEF Backend!Claim
  <1> HIDE DEF new
  <1> QED
    BY <1>1, <1>2 DEF Backend!Claim, ClaimedBy

LEMMA FinishMoves ==
    ASSUME table \in [BackendRun -> Row], NEW r \in BackendRun, NEW o \in Ended,
           Backend!Finish(r, o)
    PROVE  /\ table' \in [BackendRun -> Row]
           /\ table[r].status = "running" /\ table[r].executor # Nobody
           /\ EndedAs(r, {o}) /\ \A s \in BackendRun \ {r} : table'[s] = table[s]
  <1> DEFINE new == [table[r] EXCEPT !.status = o]
  <1>1. new \in Row /\ new.status = o /\ new.executor = table[r].executor
    <2>1. table[r] \in Row /\ o \in Backend!Status
      BY RowStatus DEF Ended
    <2> QED
      BY <2>1, RowChange
  <1>2. table' = [table EXCEPT ![r] = new]
    BY DEF Backend!Finish
  <1> HIDE DEF new
  <1> QED
    BY <1>1, <1>2 DEF Backend!Finish, EndedAs

LEMMA CreateMoves ==
    ASSUME table \in [BackendRun -> Row], NEW r \in BackendRun, Backend!Create(r, Nobody)
    PROVE  /\ table' \in [BackendRun -> Row]
           /\ Inserted(r) /\ \A s \in BackendRun \ {r} : table'[s] = table[s]
  <1> DEFINE new == [status |-> "pending", target |-> Nobody, executor |-> Nobody]
  <1>1. new \in Row /\ new.status = "pending" /\ new.executor = Nobody
    BY RowStatus DEF Row
  <1>2. table' = [table EXCEPT ![r] = new]
    BY DEF Backend!Create
  <1> HIDE DEF new
  <1> QED
    BY <1>1, <1>2 DEF Backend!Create, Inserted

LEMMA OverrideMoves ==
    ASSUME table \in [BackendRun -> Row], NEW r \in BackendRun, NEW o \in {"cancelled", "failed"},
           (Backend!Cancel({r}) /\ o = "cancelled") \/ Backend!Override({r}, o)
    PROVE  /\ table' \in [BackendRun -> Row]
           /\ Overridden(r) /\ \A s \in BackendRun \ {r} : table'[s] = table[s]
  <1> DEFINE new == [table[r] EXCEPT !.status = o]
  <1>1. new \in Row /\ new.status = o /\ new.executor = table[r].executor
    <2>1. table[r] \in Row /\ o \in Backend!Status
      BY RowStatus
    <2> QED
      BY <2>1, RowChange
  <1>2. table' = [s \in BackendRun |-> IF s \in {r} THEN new ELSE table[s]]
    BY DEF Backend!Cancel, Backend!Override
  <1>3. table[r].status # "unused"
    BY DEF Backend!Cancel, Backend!Override
  <1> HIDE DEF new
  <1> QED
    BY <1>1, <1>2, <1>3 DEF Overridden

LEMMA AdmitsMoves ==
    ASSUME table \in [BackendRun -> Row], Admits
    PROVE  /\ table' \in [BackendRun -> Row]
           /\ \A s \in BackendRun : table'[s] = table[s] \/ Overridden(s)
  <1>1. CASE UNCHANGED table
    BY <1>1
  <1>2. ASSUME NEW r \in Active, Backend!Cancel({r})
        PROVE  /\ table' \in [BackendRun -> Row]
               /\ \A s \in BackendRun : table'[s] = table[s] \/ Overridden(s)
    <2>1. r \in BackendRun
      BY DEF Active
    <2> QED
      BY <1>2, <2>1, OverrideMoves
  <1> QED
    BY <1>1, <1>2 DEF Admits

LEMMA UserMoves ==
    ASSUME table \in [BackendRun -> Row], NEW r \in BackendRun, UserActs(r)
    PROVE  /\ table' \in [BackendRun -> Row]
           /\ \A s \in BackendRun : table'[s] = table[s] \/ Inserted(s) \/ Overridden(s)
  <1>1. CASE Backend!Create(r, Nobody)
    BY <1>1, CreateMoves
  <1>2. CASE Backend!Cancel({r}) \/ Backend!Override({r}, "cancelled")
                                 \/ Backend!Override({r}, "failed")
    BY <1>2, OverrideMoves
  <1> QED
    BY <1>1, <1>2 DEF UserActs

-----------------------------------------------------------------------------
(* Types *)

LEMMA RecordChange ==
    ASSUME NEW q \in Record
    PROVE  /\ \A s \in Ended \cup {"running"} : [q EXCEPT !.status = s] \in Record
           /\ \A r \in BackendRun : [q EXCEPT !.backend = r] \in Record
           /\ [q EXCEPT !.synced = TRUE] \in Record
  BY DEF Record

LEMMA AbsentIsRecord == Absent \in Record
  BY DEF Absent, Record

LEMMA PositionCases ==
    ASSUME starter \in Position
    PROVE  /\ starter # Idle => starter.at \in {"proc", "info"} /\ starter.of \in LocalRun
           /\ starter = Idle => starter.at = "idle"
  <1>1. Idle.at = "idle"
    BY DEF Idle
  <1> QED
    BY <1>1 DEF Position

\* The files that a step of _save_local_runs may leave.
LEMMA SaveTypes ==
    ASSUME LocalTypeOK, record' \in [LocalRun -> Record],
           SaveRecords \/ recordFile' = recordFile \/ recordFile' = record
    PROVE  recordFile' \in [LocalRun -> Record]
  BY DEF LocalTypeOK, SaveRecords

LEMMA MarkSyncedMarks ==
    ASSUME LocalTypeOK, importing.of \in LocalRun, MarkSynced
    PROVE  /\ record' \in [LocalRun -> Record] /\ recordFile' \in {recordFile, record'}
           /\ \A l \in LocalRun :
                 /\ record'[l].status = record[l].status
                 /\ record'[l].backend = record[l].backend
                 /\ l # importing.of => record'[l] = record[l]
  <1>1. CASE importing.logs
    <2> DEFINE new == [record[importing.of] EXCEPT !.synced = TRUE]
    <2>1. new \in Record /\ new.status = record[importing.of].status
          /\ new.backend = record[importing.of].backend
      BY RecordChange DEF LocalTypeOK, Record
    <2>2. record' = [record EXCEPT ![importing.of] = new] /\ SaveRecords
      BY <1>1 DEF MarkSynced
    <2> HIDE DEF new
    <2> QED
      BY <2>1, <2>2 DEF SaveRecords, LocalTypeOK
  <1>2. CASE ~importing.logs
    BY <1>2 DEF MarkSynced, LocalTypeOK
  <1> QED
    BY <1>1, <1>2

\* The steps that change nothing but where the main loop or the local API is.
Quietly ==
    \/ \E l \in LocalRun : StartProcess(l)
    \/ StartInfo \/ CheckRunning \/ PollSkips
    \/ SyncBegins \/ SyncSkipped \/ SyncNext \/ SyncDone
    \/ Looked \/ NotSaved \/ RequestFails
    \/ \E delivered \in BOOLEAN : LogTried(delivered)

LEMMA QuietlyKeeps == ASSUME Quietly PROVE UNCHANGED <<table, record, recordFile, localHistory>>
  BY DEF Quietly, StartProcess, StartInfo, CheckRunning, PollSkips, SyncBegins, SyncSkipped,
         SyncNext, SyncDone, Looked, NotSaved, RequestFails, LogTried

LEMMA QuietTypes == ASSUME LocalTypeOK, ProcessKept, SyncKept, Quietly PROVE LocalTypeOK'
  <1> USE DEF LocalTypeOK, localHistory, Quiet, Turn
  <1>0. /\ NotImporting \in Import /\ importing \in Import /\ starter \in Position
        /\ \A q \in Import, l \in LocalRun : [q EXCEPT !.of = l] \in Import
        /\ \A q \in Import, b \in BOOLEAN : [q EXCEPT !.logs = b] \in Import
        /\ \A q \in Import, s \in Backend!Status : [q EXCEPT !.saw = s] \in Import
    BY RowStatus DEF NotImporting, Import, Position
  <1>1. ASSUME NEW l \in LocalRun, StartProcess(l) PROVE LocalTypeOK'
    BY <1>1 DEF StartProcess
  <1>2. CASE StartInfo
    <2>1. starter.of \in LocalRun /\ starter # Idle
      BY <1>0, <1>2, PositionCases DEF StartInfo
    <2>2. starter' \in Position
      BY <1>0, <1>2, <2>1 DEF StartInfo, Position
    <2> QED
      BY <1>2, <2>2 DEF StartInfo, Position
  <1>3. CASE CheckRunning \/ PollSkips \/ SyncSkipped \/ SyncDone
    BY <1>3 DEF CheckRunning, PollSkips, SyncSkipped, SyncDone, Syncing
  <1>4. CASE SyncBegins
    BY <1>4 DEF SyncBegins, Syncing
  <1>5. CASE SyncNext
    <2>1. PICK l \in todo : /\ todo' = todo \ {l} /\ importing' = [NotImporting EXCEPT !.of = l]
                            /\ agent' \in {"create", "look"}
      BY <1>5 DEF SyncNext
    <2> QED
      BY <1>0, <1>5, <2>1 DEF SyncNext, Syncing, Import
  <1>6. CASE Looked
    <2>1. PICK r : r = record[importing.of].backend
      OBVIOUS
    <2>2. r \in BackendRun
      BY <1>6, <2>1 DEF Looked, SyncKept, Importing, Syncing, Record
    <2>3. table[r] \in Row /\ table[r].status \in Backend!Status
      BY <2>2 DEF Row
    <2>4. importing' \in Import
      BY <1>0, <1>6, <2>1, <2>3 DEF Looked, Continue
    <2> QED
      BY <1>6, <2>4 DEF Looked, Continue, Import, Syncing
  <1>7. CASE NotSaved
    BY <1>0, <1>7 DEF NotSaved, Continue, Import, Syncing
  <1>8. CASE RequestFails
    <2>1. straggler' \subseteq Straggler
      <3>1. CASE agent \in {"create", "insert"}
        BY <1>8, <3>1 DEF RequestFails, Asked, Straggler, SyncKept, Importing, Syncing
      <3>2. CASE agent = "look"
        BY <1>8, <3>2 DEF RequestFails, Asked
      <3>3. CASE agent \in {"claim", "finish"}
        <4>1. /\ importing.of \in LocalRun /\ record[importing.of].backend \in BackendRun
          BY <3>3 DEF SyncKept, Importing, Syncing, Record
        <4> QED
          BY <1>8, <3>3, <4>1 DEF RequestFails, Asked, Straggler
      <3> QED
        BY <1>8, <3>1, <3>2, <3>3 DEF RequestFails
    <2> QED
      BY <1>0, <1>8, <2>1 DEF RequestFails, Continue, Import, Syncing
  <1>9. ASSUME NEW delivered \in BOOLEAN, LogTried(delivered) PROVE LocalTypeOK'
    BY <1>0, <1>9 DEF LogTried, Import, Syncing
  <1> QED
    BY <1>1, <1>2, <1>3, <1>4, <1>5, <1>6, <1>7, <1>8, <1>9 DEF Quietly

\* Where this device starts a request that may change a run, and the run is that of
\* the record.
LEMMA ImportedRun ==
    ASSUME LocalTypeOK, SyncKept, agent \in Importing
    PROVE  /\ importing.of \in LocalRun /\ record[importing.of] \in Record
           /\ agent \notin {"create", "insert"} => record[importing.of].backend \in BackendRun
           /\ record[importing.of].status \in Ended
  <1>1. importing.of \in LocalRun /\ record[importing.of].status \in Ended
    BY DEF SyncKept
  <1>2. record[importing.of] \in Record
    BY <1>1 DEF LocalTypeOK
  <1>3. record[importing.of].backend \in BackendRun \cup {Nobody}
    BY <1>2 DEF Record
  <1>4. agent \notin {"create", "insert"} => record[importing.of].backend # Nobody
    BY DEF SyncKept
  <1> QED
    BY <1>1, <1>2, <1>3, <1>4

\* The steps that change a record, and not the server.
RecordStep ==
    \/ StartRecord \/ (\E o \in Ended : CheckEnded(o)) \/ Saved \/ AlreadyEnded
    \/ Dies \/ Restarts

LEMMA RecordStepTypes == ASSUME LocalTypeOK, SyncKept, RecordStep PROVE LocalTypeOK'
  <1> USE DEF LocalTypeOK, localHistory, Quiet, Turn
  <1>0. NotImporting \in Import /\ Idle \in Position /\ starter \in Position
    BY RowStatus DEF NotImporting, Import, Position
  <1>1. CASE StartRecord
    <2>1. starter.of \in LocalRun
      BY <1>0, <1>1, PositionCases DEF StartRecord, Idle
    <2>2. record' \in [LocalRun -> Record]
      <3> DEFINE new == [record[starter.of] EXCEPT !.status = "running"]
      <3>1. new \in Record
        BY <2>1, RecordChange
      <3>2. record' = [record EXCEPT ![starter.of] = new]
        BY <1>1 DEF StartRecord
      <3> HIDE DEF new
      <3> QED
        BY <3>1, <3>2
    <2>3. recordFile' \in [LocalRun -> Record]
      BY <1>1, <2>2, SaveTypes DEF StartRecord
    <2> QED
      BY <1>0, <1>1, <2>2, <2>3 DEF StartRecord, Position
  <1>2. ASSUME NEW o \in Ended, CheckEnded(o) PROVE LocalTypeOK'
    <2>1. process \in LocalRun
      BY <1>2 DEF CheckEnded
    <2>2. record' \in [LocalRun -> Record]
      <3> DEFINE new == [record[process] EXCEPT !.status = o]
      <3>1. new \in Record
        BY <2>1, RecordChange
      <3>2. record' = record \/ record' = [record EXCEPT ![process] = new]
        BY <1>2 DEF CheckEnded
      <3> HIDE DEF new
      <3> QED
        BY <3>1, <3>2
    <2>3. recordFile' \in [LocalRun -> Record]
      BY <1>2, <2>2, SaveTypes DEF CheckEnded
    <2>4. outcome' \in [LocalRun -> Ended \cup {"none"}]
      BY <1>2, <2>1 DEF CheckEnded
    <2> QED
      BY <1>2, <2>2, <2>3, <2>4 DEF CheckEnded
  <1>3. CASE Saved
    BY <1>3 DEF Saved, Syncing
  <1>4. CASE AlreadyEnded
    <2>1. importing.of \in LocalRun
      BY <1>4, ImportedRun DEF AlreadyEnded, Importing, Syncing
    <2>2. record' \in [LocalRun -> Record] /\ recordFile' \in [LocalRun -> Record]
      BY <1>4, <2>1, MarkSyncedMarks DEF AlreadyEnded
    <2> QED
      BY <1>0, <1>4, <2>2 DEF AlreadyEnded, Continue, Import, Syncing
  <1>5. CASE Dies
    <2>1. record' \in [LocalRun -> Record]
      BY <1>5, AbsentIsRecord DEF Dies
    <2> QED
      BY <1>0, <1>5, <2>1 DEF Dies, Import, Position
  <1>6. CASE Restarts
    BY <1>6 DEF Restarts
  <1> QED
    BY <1>1, <1>2, <1>3, <1>4, <1>5, <1>6 DEF RecordStep

-----------------------------------------------------------------------------
(* The steps at the server: what they do to its runs *)

\* A run that is executed from now on was pending, and is bound to the device.
LEMMA ExecutesMoves ==
    ASSUME LocalTypeOK, NEW r \in BackendRun, PollExecutes(r) \/ OtherExecutes(r)
    PROVE  /\ LocalTypeOK' /\ ServerMoves
           /\ executed' = executed \cup {r} /\ table[r].status = "pending"
           /\ (ClaimedBy(r, ThisDevice) \/ ClaimedBy(r, OtherDevice))
           /\ OtherExecutes(r) => ClaimedBy(r, OtherDevice)
           /\ \A s \in BackendRun \ {r} : table'[s] = table[s]
           /\ UNCHANGED <<record, recordFile, process, starter, importing, todo, straggler,
                          importOf, outcome, unknown>>
  <1>1. PICK a \in {ThisDevice, OtherDevice} :
           Backend!Claim(r, a) /\ (OtherExecutes(r) => a = OtherDevice)
    BY LocalRunsAssumption DEF PollExecutes, OtherExecutes
  <1>2. /\ table' \in [BackendRun -> Row] /\ ClaimedBy(r, a)
        /\ \A s \in BackendRun \ {r} : table'[s] = table[s]
    BY <1>1, ClaimMoves DEF LocalTypeOK, Row
  <1>3. /\ executed' = executed \cup {r} /\ agent' \in {agent, "sync"}
        /\ UNCHANGED <<record, recordFile, process, starter, importing, todo, straggler,
                       importOf, outcome, unknown>>
    BY DEF PollExecutes, OtherExecutes
  <1>4. LocalTypeOK'
    BY <1>2, <1>3 DEF LocalTypeOK, Row
  <1>5. ServerMoves
    BY <1>2, <1>3 DEF ServerMoves, RunMoves
  <1> QED
    BY <1>1, <1>2, <1>3, <1>4, <1>5 DEF ClaimedBy

LEMMA ServerStepTypes ==
    ASSUME LocalTypeOK, NEW r \in BackendRun, ExecutionEnds(r) \/ UserActs(r)
    PROVE  LocalTypeOK' /\ ServerMoves
           /\ UNCHANGED <<record, recordFile, process, starter, agent, importing, todo,
                          straggler, importOf, outcome, executed, unknown>>
  <1>1. UNCHANGED <<record, recordFile, process, starter, agent, importing, todo,
                    straggler, importOf, outcome, executed, unknown>>
    BY DEF ExecutionEnds, UserActs, localHistory
  <1>2. table' \in [BackendRun -> Row] /\ \A s \in BackendRun : RunMoves(s)
    <2>1. CASE ExecutionEnds(r)
      <3>1. PICK o \in Ended : Backend!Finish(r, o)
        BY <2>1 DEF ExecutionEnds
      <3> QED
        BY <3>1, FinishMoves DEF LocalTypeOK, Row, RunMoves, EndedAs
    <2>2. CASE UserActs(r)
      BY <2>2, UserMoves DEF LocalTypeOK, Row, RunMoves
    <2> QED
      BY <2>1, <2>2
  <1>3. LocalTypeOK'
    BY <1>1, <1>2 DEF LocalTypeOK, Row
  <1> QED
    BY <1>1, <1>2, <1>3 DEF ServerMoves

LEMMA CreatedMoves ==
    ASSUME LocalInv, NEW r \in BackendRun, Created(r)
    PROVE  /\ LocalTypeOK' /\ ServerMoves
           /\ Inserted(r) /\ importOf[r] = Nobody
           /\ \A s \in BackendRun \ {r} : table'[s] = table[s]
           /\ record'[importing.of].backend = r
           /\ \A l \in LocalRun :
                 /\ record'[l].status = record[l].status
                 /\ record'[l].synced = record[l].synced
                 /\ l # importing.of => record'[l] = record[l]
  <1> DEFINE new == [record[importing.of] EXCEPT !.backend = r]
  <1>1. importing.of \in LocalRun /\ record[importing.of] \in Record
    BY ImportedRun DEF LocalInv, Created, Importing, Syncing
  <1>2. /\ new \in Record /\ new.status = record[importing.of].status
        /\ new.synced = record[importing.of].synced /\ new.backend = r
    BY <1>1, RecordChange DEF Record
  <1>3. record' = [record EXCEPT ![importing.of] = new]
    BY DEF Created
  <1> HIDE DEF new
  <1>4. /\ table' \in [BackendRun -> Row] /\ Inserted(r)
        /\ \A s \in BackendRun \ {r} : table'[s] = table[s]
    BY CreateMoves DEF LocalInv, LocalTypeOK, Row, Created
  <1>5. importOf[r] = Nobody
    BY <1>4 DEF Inserted, LocalInv, RunsKept
  <1>6. record' \in [LocalRun -> Record]
    BY <1>1, <1>2, <1>3 DEF LocalInv, LocalTypeOK
  <1>7. importing' \in Import
    <2>1. PICK q \in Import : importing = q
      BY DEF LocalInv, LocalTypeOK, Import
    <2>2. importing' = [q EXCEPT !.saw = "pending"]
      BY <2>1 DEF Created
    <2> QED
      BY <2>2, RowStatus DEF Import
  <1>8. LocalTypeOK'
    BY <1>1, <1>4, <1>6, <1>7
       DEF LocalInv, LocalTypeOK, Row, Import, Created, Quiet, Turn, Syncing
  <1>9. ServerMoves
    BY <1>1, <1>4, <1>5
       DEF LocalInv, LocalTypeOK, Created, ServerMoves, RunMoves, EndedAs
  <1> QED
    BY <1>1, <1>2, <1>3, <1>4, <1>5, <1>6, <1>8, <1>9 DEF LocalInv, LocalTypeOK

LEMMA AdmittedMoves ==
    ASSUME LocalInv, Admitted
    PROVE  /\ LocalTypeOK' /\ ServerMoves
           /\ \A s \in BackendRun : table'[s] = table[s] \/ Overridden(s)
           /\ agent = "create" /\ agent' = "insert"
           /\ UNCHANGED <<record, recordFile, process, starter, importing, todo, straggler,
                          importOf, outcome, executed, unknown>>
  <1>1. /\ table' \in [BackendRun -> Row]
        /\ \A s \in BackendRun : table'[s] = table[s] \/ Overridden(s)
    BY AdmitsMoves DEF LocalInv, LocalTypeOK, Row, Admitted
  <1>2. /\ agent = "create" /\ agent' = "insert"
        /\ UNCHANGED <<record, recordFile, process, starter, importing, todo, straggler,
                       importOf, outcome, executed, unknown>>
    BY DEF Admitted, Quiet, Turn, localHistory
  <1>3. LocalTypeOK'
    BY <1>1, <1>2 DEF LocalInv, LocalTypeOK, Row, Syncing
  <1> QED
    BY <1>1, <1>2, <1>3 DEF ServerMoves, RunMoves

LEMMA ClaimedMoves ==
    ASSUME LocalInv, Claimed
    PROVE  /\ LocalTypeOK' /\ ServerMoves
           /\ UNCHANGED <<record, recordFile, process, starter, todo, straggler, localHistory>>
  <1>1. record[importing.of].backend \in BackendRun
    BY ImportedRun DEF LocalInv, Claimed, Importing, Syncing
  <1>2. PICK r \in BackendRun : r = record[importing.of].backend
    BY <1>1
  <1>3. Backend!Claim(r, ThisDevice)
    BY <1>2 DEF Claimed
  <1>4. /\ table' \in [BackendRun -> Row] /\ ClaimedBy(r, ThisDevice)
        /\ \A s \in BackendRun \ {r} : table'[s] = table[s]
    BY <1>3, ClaimMoves DEF LocalInv, LocalTypeOK, Row
  <1>5. importing' \in Import
    <2>1. PICK q \in Import : importing = q
      BY DEF LocalInv, LocalTypeOK, Import
    <2>2. importing' = [q EXCEPT !.saw = "running"]
      BY <2>1 DEF Claimed
    <2> QED
      BY <2>2, RowStatus DEF Import
  <1>6. LocalTypeOK'
    BY <1>4, <1>5
       DEF LocalInv, LocalTypeOK, Row, Import, Claimed, Quiet, Turn, Syncing, localHistory
  <1>7. ServerMoves
    BY <1>4 DEF Claimed, ServerMoves, RunMoves, localHistory
  <1> QED
    BY <1>6, <1>7 DEF Claimed, Quiet, localHistory

LEMMA FinishedMoves ==
    ASSUME LocalInv, Finished, NEW r, r = record[importing.of].backend
    PROVE  /\ LocalTypeOK' /\ ServerMoves
           /\ r \in BackendRun /\ EndedAs(r, {record[importing.of].status})
           /\ \A s \in BackendRun \ {r} : table'[s] = table[s]
           /\ UNCHANGED <<process, starter, todo, straggler, localHistory>>
  <1>1. /\ importing.of \in LocalRun /\ r \in BackendRun
        /\ record[importing.of].status \in Ended
    BY ImportedRun DEF LocalInv, Finished, Importing, Syncing
  <1>2. Backend!Finish(r, record[importing.of].status)
    BY DEF Finished
  <1>3. /\ table' \in [BackendRun -> Row] /\ EndedAs(r, {record[importing.of].status})
        /\ \A s \in BackendRun \ {r} : table'[s] = table[s]
    <2>1. PICK o \in Ended : o = record[importing.of].status
      BY <1>1
    <2> QED
      BY <1>1, <1>2, <2>1, FinishMoves DEF LocalInv, LocalTypeOK, Row
  <1>4. record' \in [LocalRun -> Record] /\ recordFile' \in [LocalRun -> Record]
    BY <1>1, MarkSyncedMarks DEF LocalInv, LocalTypeOK, Finished
  <1>5. LocalTypeOK'
    BY <1>3, <1>4, RowStatus
       DEF LocalInv, LocalTypeOK, Row, Finished, Continue, NotImporting, Quiet, Turn, Syncing,
           localHistory
  <1>6. ServerMoves
    BY <1>1, <1>3 DEF Finished, ServerMoves, RunMoves, EndedAs, localHistory
  <1> QED
    BY <1>1, <1>3, <1>5, <1>6 DEF Finished, Quiet, localHistory

\* A request that was given up creates a run for a local run that is unknown from
\* then on, claims one, cancels one that it had found waiting, reports the outcome of
\* its local run, or is without effect.
LateCreation(m) ==
    \E r \in BackendRun :
       /\ Inserted(r) /\ importOf[r] = Nobody /\ m.of \in LocalRun
       /\ importOf' = [importOf EXCEPT ![r] = m.of] /\ unknown' = unknown \cup {m.of}
       /\ \A s \in BackendRun \ {r} : table'[s] = table[s]

LateClaim ==
    /\ UNCHANGED <<importOf, unknown>>
    /\ \A s \in BackendRun : table'[s] = table[s] \/ ClaimedBy(s, ThisDevice) \/ Overridden(s)

LateReport(m) ==
    /\ UNCHANGED <<importOf, unknown>>
    /\ m.run \in BackendRun /\ importOf[m.run] = m.of /\ EndedAs(m.run, {outcome[m.of]})
    /\ \A s \in BackendRun \ {m.run} : table'[s] = table[s]

LEMMA ArrivesMoves ==
    ASSUME LocalInv, NEW m \in straggler, Arrives(m)
    PROVE  /\ LocalTypeOK' /\ ServerMoves
           /\ LateCreation(m) \/ LateClaim \/ LateReport(m)
           /\ \A n \in straggler' : n \in straggler \/ n.kind # "finish"
           /\ UNCHANGED <<record, recordFile, process, starter, agent, importing, todo,
                          outcome, executed>>
  <1>1. m \in Straggler /\ table \in [BackendRun -> Row] /\ straggler \subseteq Straggler
    BY DEF LocalInv, LocalTypeOK, Row
  <1> DEFINE goesOn == [m EXCEPT !.kind = "insert"]
  <1>6. m.kind = "create" => goesOn \in Straggler /\ goesOn.kind = "insert"
    BY <1>1 DEF Straggler
  <1> HIDE DEF goesOn
  <1>7. /\ straggler' = straggler \ {m}
           \/ (m.kind = "create" /\ straggler' = (straggler \ {m}) \cup {goesOn})
        /\ UNCHANGED <<record, recordFile, process, starter, agent, importing, todo,
                       outcome, executed>>
    BY DEF Arrives, goesOn
  <1>0. /\ straggler' \subseteq Straggler
        /\ \A n \in straggler' : n \in straggler \/ n.kind # "finish"
        /\ UNCHANGED <<record, recordFile, process, starter, agent, importing, todo,
                       outcome, executed>>
    BY <1>1, <1>6, <1>7
  <1>2. CASE /\ m.kind = "insert"
             /\ \E r \in BackendRun : /\ Backend!Create(r, Nobody)
                                     /\ importOf' = [importOf EXCEPT ![r] = m.of]
             /\ unknown' = unknown \cup {m.of}
    <2>1. PICK r \in BackendRun : /\ Backend!Create(r, Nobody)
                                  /\ importOf' = [importOf EXCEPT ![r] = m.of]
      BY <1>2
    <2>2. /\ table' \in [BackendRun -> Row] /\ Inserted(r)
          /\ \A s \in BackendRun \ {r} : table'[s] = table[s]
      BY <1>1, <2>1, CreateMoves
    <2>3. importOf[r] = Nobody /\ m.of \in LocalRun
      BY <1>1, <1>2, <2>2 DEF Inserted, LocalInv, RunsKept, Straggler
    <2>4. LocalTypeOK'
      BY <1>0, <1>2, <2>1, <2>2, <2>3 DEF LocalInv, LocalTypeOK, Row
    <2>5. ServerMoves
      BY <1>0, <2>1, <2>2, <2>3 DEF LocalInv, LocalTypeOK, ServerMoves, RunMoves, EndedAs
    <2> QED
      BY <1>0, <1>2, <2>1, <2>2, <2>3, <2>4, <2>5 DEF LateCreation
  <1>3. CASE m.kind = "claim" /\ Backend!Claim(m.run, ThisDevice) /\ UNCHANGED <<importOf, unknown>>
    <2>1. m.run \in BackendRun
      BY <1>1, <1>3 DEF Straggler
    <2>2. /\ table' \in [BackendRun -> Row] /\ ClaimedBy(m.run, ThisDevice)
          /\ \A s \in BackendRun \ {m.run} : table'[s] = table[s]
      BY <1>1, <1>3, <2>1, ClaimMoves
    <2>3. LocalTypeOK'
      BY <1>0, <1>3, <2>2 DEF LocalInv, LocalTypeOK, Row
    <2>4. ServerMoves
      BY <1>0, <1>3, <2>2 DEF ServerMoves, RunMoves
    <2> QED
      BY <1>0, <1>3, <2>2, <2>3, <2>4 DEF LateClaim
  <1>4. CASE /\ m.kind = "finish" /\ Accepted(m.run)
             /\ Backend!Finish(m.run, outcome[m.of]) /\ UNCHANGED <<importOf, unknown>>
    <2>1. m.run \in BackendRun /\ m.of \in LocalRun /\ importOf[m.run] = m.of
          /\ outcome[m.of] \in Ended
      BY <1>1, <1>4 DEF Straggler, LocalInv, StragglersKept
    <2>2. PICK o \in Ended : o = outcome[m.of]
      BY <2>1
    <2>3. /\ table' \in [BackendRun -> Row] /\ EndedAs(m.run, {outcome[m.of]})
          /\ \A s \in BackendRun \ {m.run} : table'[s] = table[s]
      BY <1>1, <1>4, <2>1, <2>2, FinishMoves
    <2>4. LocalTypeOK'
      BY <1>0, <1>4, <2>3 DEF LocalInv, LocalTypeOK, Row
    <2>5. ServerMoves
      BY <1>0, <1>4, <2>2, <2>3 DEF ServerMoves, RunMoves, EndedAs
    <2> QED
      BY <1>0, <1>4, <2>1, <2>3, <2>4, <2>5 DEF LateReport
  <1>8. CASE Admits /\ UNCHANGED <<importOf, unknown>>
    <2>1. /\ table' \in [BackendRun -> Row]
          /\ \A s \in BackendRun : table'[s] = table[s] \/ Overridden(s)
      BY <1>1, <1>8, AdmitsMoves
    <2>2. LocalTypeOK'
      BY <1>0, <1>8, <2>1 DEF LocalInv, LocalTypeOK, Row
    <2>3. ServerMoves
      BY <1>0, <1>8, <2>1 DEF ServerMoves, RunMoves
    <2> QED
      BY <1>0, <1>8, <2>1, <2>2, <2>3 DEF LateClaim
  <1>5. CASE UNCHANGED <<table, importOf, unknown>>
    <2>1. LocalTypeOK'
      BY <1>0, <1>5 DEF LocalInv, LocalTypeOK
    <2>2. ServerMoves
      BY <1>0, <1>1, <1>5 DEF ServerMoves, RunMoves
    <2> QED
      BY <1>0, <1>5, <2>1, <2>2 DEF LateClaim
  <1> QED
    BY <1>2, <1>3, <1>4, <1>5, <1>8 DEF Arrives

-----------------------------------------------------------------------------
(* What these steps leave of the invariant *)

LEMMA LocalNames ==
    /\ Nobody # ThisDevice /\ Nobody # OtherDevice /\ ThisDevice # OtherDevice
    /\ Nobody \notin BackendRun /\ Nobody \notin LocalRun
  BY LocalRunsAssumption

Settled == {"success", "failed", "cancelled"}

\* A run that has ended keeps its outcome or is overridden; a run that a device has
\* stays with it.
LEMMA RunStays ==
    ASSUME ServerMoves, RunsKept, NEW r \in BackendRun
    PROVE  /\ table[r].status \in Settled =>
                 table'[r].status \in {table[r].status, "failed", "cancelled"}
           /\ table[r].executor # Nobody => table'[r].executor = table[r].executor
           /\ table[r].status # "expired" => table'[r].status # "expired"
           /\ table'[r].status = "unused" => table'[r] = table[r]
  BY DEF ServerMoves, RunsKept, RunMoves, Inserted, ClaimedBy, EndedAs, Overridden, Settled, Ended

\* A record that is kept holds, unless its run is executed by this device.
LEMMA RecordStays ==
    ASSUME ServerMoves, RunsKept, NEW l \in LocalRun, NEW q \in Record, RecordKept(l, q),
           q.backend \in BackendRun /\ q.backend \in executed'
             => q.backend \in executed \/ table'[q.backend].executor = OtherDevice
    PROVE  RecordKept(l, q)'
  <1>1. q.status \in Ended => outcome'[l] = q.status
    BY DEF RecordKept, ServerMoves
  <1>2. CASE q.backend = Nobody
    BY <1>1, <1>2 DEF RecordKept
  <1>3. CASE q.backend # Nobody
    <2>1. q.backend \in BackendRun
      BY <1>3 DEF Record
    <2>2. importOf'[q.backend] = l
      BY <1>3, <2>1, LocalNames DEF RecordKept, ServerMoves
    <2>3. q.backend \in executed' => table'[q.backend].executor = OtherDevice
      BY <1>3, <2>1, LocalNames, RunStays DEF RecordKept
    <2>4. q.synced => EndedFor(q.backend, q)'
      BY <2>1, RunStays DEF RecordKept, EndedFor, Settled, Ended
    <2> QED
      BY <1>1, <1>3, <2>2, <2>3, <2>4 DEF RecordKept
  <1> QED
    BY <1>2, <1>3

LEMMA StragglersStay ==
    ASSUME LocalInv, ServerMoves, \A n \in straggler' : n \in straggler \/ n.kind # "finish"
    PROVE  StragglersKept'
  <1> SUFFICES ASSUME NEW m \in straggler, m.kind = "finish"
               PROVE  /\ m.run # Nobody /\ importOf'[m.run] = m.of /\ outcome'[m.of] \in Ended
    BY DEF StragglersKept
  <1>1. m \in Straggler /\ m.run # Nobody /\ importOf[m.run] = m.of /\ outcome[m.of] \in Ended
    BY DEF LocalInv, LocalTypeOK, StragglersKept
  <1>2. m.run \in BackendRun /\ m.of \in LocalRun
    BY <1>1 DEF Straggler
  <1> QED
    BY <1>1, <1>2, LocalNames DEF ServerMoves

LEMMA SyncStays ==
    ASSUME LocalInv, ServerMoves, UNCHANGED <<record, agent, importing, todo>>
    PROVE  SyncKept'
  <1>1. ASSUME agent \in Importing, agent \notin {"create", "insert"},
               EndedFor(record[importing.of].backend, record[importing.of])
        PROVE  EndedFor(record[importing.of].backend, record[importing.of])'
    <2>1. PICK q \in Record : q = record[importing.of] /\ q.status \in Ended
                              /\ q.backend \in BackendRun
      BY <1>1, ImportedRun DEF LocalInv
    <2>2. table[q.backend].status \in Settled
      BY <1>1, <2>1 DEF EndedFor, Ended, Settled
    <2>3. table'[q.backend].status \in {table[q.backend].status, "failed", "cancelled"}
      BY <2>1, <2>2, RunStays DEF LocalInv
    <2>4. record' = record /\ importing' = importing
      OBVIOUS
    <2> QED
      BY <1>1, <2>1, <2>3, <2>4 DEF EndedFor
  <1> QED
    BY <1>1 DEF LocalInv, SyncKept, Importing, Syncing

\* The steps at the server that leave the records and what has been executed alone.
LEMMA RecordsStay ==
    ASSUME LocalInv, ServerMoves, UNCHANGED <<record, recordFile, executed>>,
           agent' = "down" <=> agent = "down"
    PROVE  RecordsKept'
  <1> SUFFICES ASSUME NEW l \in LocalRun
               PROVE  /\ RecordKept(l, record[l])' /\ RecordKept(l, recordFile[l])'
                      /\ agent # "down" /\ recordFile[l].backend # Nobody =>
                            record[l].backend = recordFile[l].backend
    BY DEF RecordsKept
  <1>1. PICK q \in Record, f \in Record : q = record[l] /\ f = recordFile[l]
    BY DEF LocalInv, LocalTypeOK
  <1>2. RecordKept(l, q) /\ RecordKept(l, f)
    BY <1>1 DEF LocalInv, RecordsKept
  <1>3. RecordKept(l, q)' /\ RecordKept(l, f)'
    BY <1>2, RecordStays DEF LocalInv
  <1>4. record' = record /\ recordFile' = recordFile
    OBVIOUS
  <1>5. RecordKept(l, record[l])' /\ RecordKept(l, recordFile[l])'
    BY <1>1, <1>3, <1>4 DEF RecordKept, EndedFor
  <1> QED
    BY <1>5 DEF LocalInv, RecordsKept

LEMMA QuietInv == ASSUME LocalInv, Quietly PROVE LocalInv'
  <1>1. LocalTypeOK'
    BY QuietTypes DEF LocalInv
  <1>2. UNCHANGED <<table, record, recordFile, importOf, outcome, executed, unknown>>
    BY QuietlyKeeps DEF localHistory
  <1>3. (agent # "down" /\ agent' # "down") \/ agent' = agent
    BY DEF Quietly, StartProcess, StartInfo, CheckRunning, PollSkips, SyncBegins, SyncSkipped,
           SyncNext, SyncDone, Looked, NotSaved, RequestFails, LogTried, Turn, Continue, Syncing
  <1>4. RunsKept' /\ RecordsKept' /\ ImportsKnown'
    BY <1>2, <1>3
       DEF LocalInv, RunsKept, RecordsKept, RecordKept, EndedFor, ImportsKnown, Remembered
  <1>5. ProcessKept'
    <2>1. ASSUME NEW l \in LocalRun, StartProcess(l) PROVE ProcessKept'
      BY <1>2, <2>1 DEF LocalInv, ProcessKept, StartProcess, Absent, Syncing
    <2>2. CASE StartInfo
      <3>1. starter \in Position /\ starter # Idle
        BY <2>2 DEF LocalInv, LocalTypeOK, Position, StartInfo, Idle
      <3>2. starter' = [starter EXCEPT !.at = "info"] /\ starter'.of = starter.of
        BY <2>2, <3>1 DEF StartInfo, Position
      <3> QED
        BY <1>2, <2>2, <3>1, <3>2 DEF LocalInv, ProcessKept, StartInfo
    <2>3. CASE SyncBegins
      BY <1>2, <2>3 DEF LocalInv, ProcessKept, SyncBegins, Quiet
    <2>4. CASE \/ CheckRunning \/ PollSkips \/ SyncSkipped \/ SyncNext \/ SyncDone
               \/ Looked \/ NotSaved \/ RequestFails
               \/ \E delivered \in BOOLEAN : LogTried(delivered)
      <3>1. UNCHANGED <<process, starter>>
        BY <2>4 DEF CheckRunning, PollSkips, SyncSkipped, SyncNext, SyncDone, Looked, NotSaved,
                    RequestFails, LogTried, Quiet
      <3>2. agent' \in Syncing \cup {"down"} => agent \in Syncing
        BY <2>4 DEF CheckRunning, PollSkips, SyncSkipped, SyncNext, SyncDone, Looked, NotSaved,
                    RequestFails, LogTried, Turn, Continue, Syncing
      <3> QED
        BY <1>2, <3>1, <3>2 DEF LocalInv, ProcessKept
    <2> QED
      BY <2>1, <2>2, <2>3, <2>4 DEF Quietly
  <1>6. SyncKept'
    <2> USE <1>2 DEF LocalInv, SyncKept
    <2>1. CASE \/ \E l \in LocalRun : StartProcess(l)
               \/ StartInfo \/ CheckRunning \/ PollSkips \/ SyncSkipped \/ SyncDone
      BY <2>1 DEF StartProcess, StartInfo, CheckRunning, PollSkips, SyncSkipped, SyncDone, Turn,
                  Importing, Syncing, EndedFor
    <2>2. CASE SyncBegins
      BY <2>2 DEF SyncBegins, Turn, Importing, Syncing
    <2>3. CASE SyncNext
      <3>1. PICK l \in todo :
               /\ todo' = todo \ {l} /\ importing' = [NotImporting EXCEPT !.of = l]
               /\ agent' = (IF record[l].backend = Nobody THEN "create" ELSE "look")
        BY <2>3 DEF SyncNext, Turn
      <3>2. l \in LocalRun /\ record[l].status \in Ended /\ importing'.of = l
        BY <2>3, <3>1 DEF SyncNext, LocalTypeOK, Syncing, NotImporting
      <3>3. \A k \in todo' : record'[k].status \in Ended
        BY <2>3, <3>1 DEF SyncNext, Syncing
      <3>4. /\ agent' \in {"create", "look"} /\ importing'.of \in LocalRun
            /\ record'[importing'.of].status \in Ended
            /\ agent' \in {"create", "insert"} <=> record'[importing'.of].backend = Nobody
        BY <3>1, <3>2
      <3> QED
        BY <3>3, <3>4 DEF Importing, Syncing
    <2>4. CASE NotSaved \/ RequestFails
      BY <2>4 DEF NotSaved, RequestFails, Continue, Turn, Importing, Syncing
    <2>5. ASSUME NEW delivered \in BOOLEAN, LogTried(delivered) PROVE SyncKept'
      <3>1. PICK q \in Import : q = importing
        BY DEF LocalTypeOK, Import
      <3>2. importing' = [q EXCEPT !.logs = delivered] /\ importing'.of = importing.of
            /\ importing'.saw = importing.saw
        BY <2>5, <3>1 DEF LogTried, Import
      <3> QED
        BY <2>5, <3>2 DEF LogTried, Turn, Importing, Syncing, EndedFor
    <2>6. CASE Looked
      <3>1. PICK r \in BackendRun, l \in LocalRun :
               r = record[l].backend /\ l = importing.of /\ record[l].status \in Ended
        BY <2>6, ImportedRun DEF Looked, Importing, Syncing
      <3>2. CASE ~Mine(r)
        BY <2>6, <3>1, <3>2 DEF Looked, Continue, Turn, Importing, Syncing
      <3>3. CASE Mine(r)
        <4>1. PICK q \in Import : q = importing
          BY DEF LocalTypeOK, Import
        <4>2. importing' = [q EXCEPT !.saw = table[r].status] /\ importing'.of = l
              /\ importing'.saw = table[r].status /\ agent' = "save"
          BY <2>6, <3>1, <3>3, <4>1 DEF Looked, Import, Turn
        <4>3. importOf[r] = l /\ (r \in executed => table[r].executor = OtherDevice)
          BY <3>1, LocalNames DEF RecordsKept, RecordKept
        <4>4. table[r].status \notin {"pending", "running"} => EndedFor(r, record[l])
          <5>1. table[r] \in Row /\ table[r].status \notin {"expired", "unused"}
            BY <4>3, LocalNames DEF LocalTypeOK, Row, RunsKept
          <5>2. table[r].status \in {"pending", "running", "success", "failed", "cancelled"}
            BY <5>1, RowStatus DEF Row
          <5>3. table[r].status = "success" => record[l].status = "success"
            <6>1. SUFFICES ASSUME table[r].status = "success" PROVE record[l].status = "success"
              OBVIOUS
            <6>2. table[r].executor = ThisDevice /\ r \notin executed
              BY <3>3, <4>3, <6>1, LocalNames DEF Mine
            <6>3. outcome[l] = "success"
              BY <4>3, <6>1, <6>2, LocalNames DEF RunsKept
            <6> QED
              BY <3>1, <6>3 DEF RecordsKept, RecordKept
          <5> QED
            BY <5>2, <5>3 DEF EndedFor
        <4>5. EndedFor(r, record[l])' <=> EndedFor(r, record[l])
          BY DEF EndedFor
        <4>6. todo' = todo
          BY <2>6 DEF Looked
        <4>7. record'[importing'.of].backend = r /\ record'[importing'.of] = record[l]
              /\ record[l].backend # Nobody /\ agent \in Syncing
          BY <2>6, <3>1, <4>2, LocalNames DEF Looked, Syncing
        <4> QED
          BY <3>1, <4>2, <4>4, <4>6, <4>7 DEF Importing, Syncing, EndedFor
      <3> QED
        BY <3>2, <3>3
    <2> QED
      BY <2>1, <2>2, <2>3, <2>4, <2>5, <2>6 DEF Quietly
  <1>7. StragglersKept'
    <2>1. CASE straggler' = straggler
      BY <1>2, <2>1 DEF LocalInv, StragglersKept
    <2>2. CASE RequestFails
      <3>1. SUFFICES ASSUME NEW m \in Asked, m.kind = "finish"
                     PROVE  m.run # Nobody /\ importOf[m.run] = m.of /\ outcome[m.of] \in Ended
        BY <1>2, <2>2 DEF LocalInv, StragglersKept, RequestFails
      <3>2. agent = "finish" /\ m.of = importing.of /\ m.run = record[importing.of].backend
        BY <2>2, <3>1 DEF Asked, RequestFails
      <3>3. /\ importing.of \in LocalRun /\ record[importing.of].backend \in BackendRun
            /\ record[importing.of].status \in Ended
        BY <3>2, ImportedRun DEF LocalInv, Importing, Syncing
      <3> QED
        BY <3>2, <3>3, LocalNames DEF LocalInv, RecordsKept, RecordKept
    <2> QED
      BY <2>1, <2>2 DEF Quietly, StartProcess, StartInfo, CheckRunning, PollSkips, SyncBegins,
                        SyncSkipped, SyncNext, SyncDone, Looked, NotSaved, LogTried
  <1> QED
    BY <1>1, <1>4, <1>5, <1>6, <1>7 DEF LocalInv

LEMMA RecordStepServer ==
    ASSUME LocalInv, RecordStep
    PROVE  ServerMoves /\ UNCHANGED <<table, straggler, importOf, executed>>
  <1>1. UNCHANGED <<table, straggler, importOf, executed>>
    BY DEF RecordStep, StartRecord, CheckEnded, Saved, AlreadyEnded, Dies, Restarts, localHistory
  <1>2. \A l \in LocalRun : outcome[l] \in Ended => outcome'[l] = outcome[l]
    <2>1. ASSUME NEW o \in Ended, CheckEnded(o)
          PROVE  \A l \in LocalRun : outcome[l] \in Ended => outcome'[l] = outcome[l]
      <3>1. outcome[process] = "none" /\ outcome' = [outcome EXCEPT ![process] = o]
        BY <2>1 DEF LocalInv, ProcessKept, CheckEnded
      <3> QED
        BY <3>1 DEF LocalInv, LocalTypeOK, Ended
    <2>2. CASE StartRecord \/ Saved \/ AlreadyEnded \/ Dies \/ Restarts
      BY <2>2 DEF StartRecord, Saved, AlreadyEnded, Dies, Restarts, localHistory
    <2> QED
      BY <2>1, <2>2 DEF RecordStep
  <1> QED
    BY <1>1, <1>2 DEF LocalInv, LocalTypeOK, ServerMoves, RunMoves, Row

\* It is enough to look at the records in memory: the file is as it was, or has them.
LEMMA RecordStepKeeps ==
    ASSUME LocalInv, RecordStep, \A l \in LocalRun : RecordKept(l, record[l])',
           recordFile' \in {recordFile, record'}
    PROVE  \A l \in LocalRun : RecordKept(l, record[l])' /\ RecordKept(l, recordFile[l])'
  <1> SUFFICES ASSUME NEW l \in LocalRun PROVE RecordKept(l, recordFile[l])'
    OBVIOUS
  <1>1. PICK f \in Record : f = recordFile[l]
    BY DEF LocalInv, LocalTypeOK
  <1>2. RecordKept(l, f)
    BY <1>1 DEF LocalInv, RecordsKept
  <1>3. RecordKept(l, f)'
    BY <1>2, RecordStays, RecordStepServer DEF LocalInv
  <1>4. CASE recordFile' = recordFile
    BY <1>1, <1>3, <1>4 DEF RecordKept, EndedFor
  <1>5. CASE recordFile' = record'
    BY <1>5 DEF RecordKept, EndedFor
  <1> QED
    BY <1>4, <1>5

LEMMA StartRecordInv == ASSUME LocalInv, StartRecord PROVE LocalInv'
  <1> DEFINE k == starter.of
             new == [record[k] EXCEPT !.status = "running"]
  <1>0. starter # Idle /\ k \in LocalRun /\ record[k].status = "absent"
    BY PositionCases DEF LocalInv, LocalTypeOK, Position, StartRecord, ProcessKept, Idle
  <1>1. PICK q \in Record : q = record[k] /\ RecordKept(k, q) /\ q.status = "absent"
    BY <1>0 DEF LocalInv, LocalTypeOK, RecordsKept
  <1>2. new \in Record /\ new.status = "running" /\ new.backend = q.backend
        /\ new.synced = q.synced /\ record' = [record EXCEPT ![k] = new]
    BY <1>1, RecordChange DEF Record, StartRecord
  <1>3. RecordKept(k, new)
    BY <1>1, <1>2 DEF RecordKept, Ended
  <1> HIDE DEF new, k
  <1>4. UNCHANGED <<table, process, agent, importing, todo, straggler, importOf, outcome,
                    executed, unknown>>
        /\ recordFile' \in {recordFile, record'} /\ starter' = Idle
    BY DEF StartRecord, SaveRecords, localHistory
  <1>5. ASSUME NEW l \in LocalRun PROVE RecordKept(l, record[l])'
    <2>1. RecordKept(l, record'[l])
      BY <1>0, <1>2, <1>3 DEF LocalInv, LocalTypeOK, RecordsKept
    <2> QED
      BY <1>4, <2>1 DEF RecordKept, EndedFor
  <1>6. \A l \in LocalRun : RecordKept(l, record[l])' /\ RecordKept(l, recordFile[l])'
    BY <1>4, <1>5, RecordStepKeeps DEF RecordStep
  <1>7. \A l \in LocalRun : record'[l].backend = record[l].backend
    BY <1>0, <1>1, <1>2 DEF LocalInv, LocalTypeOK
  <1>8. agent \notin Syncing \cup {"down"}
    BY <1>0 DEF LocalInv, ProcessKept
  <1>9. LocalTypeOK'
    BY RecordStepTypes DEF LocalInv, RecordStep
  <1>10. RunsKept'
    BY <1>4 DEF LocalInv, RunsKept
  <1>11. RecordsKept'
    BY <1>4, <1>6, <1>7 DEF LocalInv, RecordsKept
  <1>12. ImportsKnown'
    BY <1>4, <1>7, <1>8 DEF LocalInv, ImportsKnown, Remembered
  <1>13. ProcessKept' /\ SyncKept'
    BY <1>4, <1>8 DEF LocalInv, ProcessKept, SyncKept, Importing, Syncing
  <1>14. StragglersKept'
    BY <1>4, RecordStepServer, StragglersStay DEF RecordStep
  <1> QED
    BY <1>9, <1>10, <1>11, <1>12, <1>13, <1>14 DEF LocalInv

LEMMA CheckEndedInv == ASSUME LocalInv, NEW o \in Ended, CheckEnded(o) PROVE LocalInv'
  <1> DEFINE new == [record[process] EXCEPT !.status = o]
  <1>0. process \in LocalRun /\ outcome[process] = "none" /\ agent = "check" /\ agent' = "poll"
    BY DEF LocalInv, LocalTypeOK, ProcessKept, CheckEnded
  <1>1. PICK q \in Record : q = record[process] /\ RecordKept(process, q)
    BY <1>0 DEF LocalInv, LocalTypeOK, RecordsKept
  <1>2. new \in Record /\ new.status = o /\ new.backend = q.backend /\ new.synced = q.synced
        /\ ~q.synced
    BY <1>0, <1>1, RecordChange DEF Record, RecordKept, Ended
  <1>3. starter.at # "info" => record' = [record EXCEPT ![process] = new]
    BY DEF CheckEnded
  <1> HIDE DEF new
  <1>4. /\ UNCHANGED <<table, starter, importing, todo, straggler, importOf, executed, unknown>>
        /\ outcome' = [outcome EXCEPT ![process] = o] /\ process' = Nobody
        /\ recordFile' \in {recordFile, record'}
        /\ starter.at = "info" => record' = record
        /\ starter.at # "proc"
    BY DEF CheckEnded, SaveRecords
  <1>5. ServerMoves
    BY RecordStepServer DEF RecordStep
  <1>6. ASSUME NEW l \in LocalRun PROVE RecordKept(l, record[l])'
    <2>1. PICK f \in Record : f = record[l] /\ RecordKept(l, f)
      BY DEF LocalInv, LocalTypeOK, RecordsKept
    <2>2. RecordKept(l, f)'
      BY <1>4, <1>5, <2>1, RecordStays DEF LocalInv
    <2>3. CASE record'[l] = record[l]
      BY <2>1, <2>2, <2>3 DEF RecordKept, EndedFor
    <2>4. CASE record'[l] # record[l]
      <3>1. l = process /\ record'[l] = new
        BY <1>0, <1>3, <1>4, <2>4 DEF LocalInv, LocalTypeOK
      <3>2. outcome'[l] = o
        BY <1>0, <1>4, <3>1 DEF LocalInv, LocalTypeOK
      <3> QED
        BY <1>1, <1>2, <1>4, <3>1, <3>2 DEF RecordKept, EndedFor
    <2> QED
      BY <2>3, <2>4
  <1>7. \A l \in LocalRun : RecordKept(l, record[l])' /\ RecordKept(l, recordFile[l])'
    BY <1>4, <1>6, RecordStepKeeps DEF RecordStep
  <1>8. \A l \in LocalRun : record'[l].backend = record[l].backend
    BY <1>0, <1>1, <1>2, <1>3, <1>4 DEF LocalInv, LocalTypeOK
  <1>9. LocalTypeOK'
    BY RecordStepTypes DEF LocalInv, RecordStep
  <1>10. RunsKept'
    <2>1. \A r \in BackendRun : importOf[r] \in LocalRun \cup {Nobody}
      BY DEF LocalInv, LocalTypeOK
    <2> QED
      BY <1>4, <1>5, <2>1 DEF LocalInv, RunsKept, ServerMoves, Ended
  <1>11. RecordsKept'
    BY <1>0, <1>4, <1>7, <1>8 DEF LocalInv, RecordsKept
  <1>12. ImportsKnown'
    BY <1>0, <1>4, <1>8 DEF LocalInv, ImportsKnown, Remembered
  <1>13. ProcessKept'
    <2>1. starter # Idle => starter.at = "info"
      BY <1>4, PositionCases DEF LocalInv, LocalTypeOK, Position
    <2> QED
      BY <1>0, <1>4, <2>1 DEF LocalInv, ProcessKept, Syncing
  <1>14. SyncKept'
    BY <1>0 DEF SyncKept, Importing, Syncing
  <1>15. StragglersKept'
    BY <1>4, <1>5, StragglersStay
  <1> QED
    BY <1>9, <1>10, <1>11, <1>12, <1>13, <1>14, <1>15 DEF LocalInv

LEMMA SavedInv == ASSUME LocalInv, Saved PROVE LocalInv'
  <1>1. /\ UNCHANGED <<table, record, process, starter, importing, todo, straggler, importOf,
                       outcome, executed, unknown>>
        /\ recordFile' = record /\ agent = "save"
        /\ agent' = (IF importing.saw = "pending" THEN "claim" ELSE "log")
    BY DEF Saved, Quiet, Turn, localHistory
  <1>2. LocalTypeOK'
    BY RecordStepTypes DEF LocalInv, RecordStep
  <1>3. RunsKept' /\ RecordsKept' /\ ImportsKnown' /\ ProcessKept' /\ StragglersKept'
    BY <1>1
       DEF LocalInv, RunsKept, RecordsKept, RecordKept, EndedFor, ImportsKnown, Remembered,
           ProcessKept, StragglersKept, Syncing
  <1>4. SyncKept'
    BY <1>1 DEF LocalInv, SyncKept, Importing, Syncing, EndedFor
  <1> QED
    BY <1>2, <1>3, <1>4 DEF LocalInv

LEMMA DiesInv == ASSUME LocalInv, agent # "down", Dies PROVE LocalInv'
  <1>1. /\ UNCHANGED <<table, recordFile, straggler, importOf, outcome, executed>>
        /\ agent' = "down" /\ process' = Nobody /\ starter' = Idle
        /\ record' = [l \in LocalRun |-> Absent]
        /\ unknown' = unknown \cup {l \in LocalRun : record[l].backend # recordFile[l].backend}
    BY DEF Dies
  <1>2. LocalTypeOK'
    BY RecordStepTypes DEF LocalInv, RecordStep
  <1>3. RunsKept' /\ StragglersKept'
    BY <1>1 DEF LocalInv, RunsKept, StragglersKept
  <1>4. RecordsKept'
    <2>1. \A l \in LocalRun : record'[l].status = "absent" /\ record'[l].backend = Nobody
                              /\ ~record'[l].synced
      BY <1>1 DEF Absent
    <2> QED
      BY <1>1, <2>1 DEF LocalInv, RecordsKept, RecordKept, EndedFor, Ended
  <1>5. ImportsKnown'
    BY <1>1 DEF LocalInv, ImportsKnown, Remembered
  <1>6. ProcessKept' /\ SyncKept'
    BY <1>1 DEF ProcessKept, SyncKept, Importing, Syncing
  <1> QED
    BY <1>2, <1>3, <1>4, <1>5, <1>6 DEF LocalInv

LEMMA RestartsInv == ASSUME LocalInv, Restarts PROVE LocalInv'
  <1>1. /\ UNCHANGED <<table, recordFile, process, starter, importing, todo, straggler,
                       importOf, outcome, executed, unknown>>
        /\ agent = "down" /\ agent' = "check" /\ record' = recordFile
    BY DEF Restarts, Quiet, Turn, localHistory
  <1>2. LocalTypeOK'
    BY RecordStepTypes DEF LocalInv, RecordStep
  <1>3. RunsKept' /\ StragglersKept' /\ RecordsKept' /\ ImportsKnown'
    BY <1>1
       DEF LocalInv, RunsKept, RecordsKept, RecordKept, EndedFor, ImportsKnown, Remembered,
           StragglersKept
  <1>4. ProcessKept' /\ SyncKept'
    BY <1>1 DEF LocalInv, ProcessKept, SyncKept, Importing, Syncing
  <1> QED
    BY <1>2, <1>3, <1>4 DEF LocalInv

\* The import is over: its record counts as synchronised when its log was delivered.
LEMMA ImportOver ==
    ASSUME LocalInv, LocalTypeOK', ServerMoves, MarkSynced, Continue,
           agent = "finish",
           UNCHANGED <<process, starter, todo, straggler, importOf, outcome, executed, unknown>>,
           table'[record[importing.of].backend].status
             \in {record[importing.of].status, "failed", "cancelled"},
           \A r \in BackendRun : table'[r] # table[r] =>
              r = record[importing.of].backend /\ EndedAs(r, {record[importing.of].status})
    PROVE  LocalInv'
  <1> DEFINE k == importing.of
  <1>1. k \in LocalRun /\ record[k].backend \in BackendRun /\ record[k].status \in Ended
    BY ImportedRun DEF LocalInv, Importing, Syncing
  <1>2. /\ record' \in [LocalRun -> Record] /\ recordFile' \in {recordFile, record'}
        /\ \A l \in LocalRun :
              /\ record'[l].status = record[l].status
              /\ record'[l].backend = record[l].backend
              /\ l # k => record'[l] = record[l]
    BY <1>1, MarkSyncedMarks DEF LocalInv
  <1> HIDE DEF k
  <1>3. agent' = "next"
    BY DEF Continue, Turn
  <1>4. ASSUME NEW l \in LocalRun PROVE RecordKept(l, record[l])' /\ RecordKept(l, recordFile[l])'
    <2>1. PICK q \in Record, f \in Record : q = record[l] /\ f = recordFile[l]
      BY DEF LocalInv, LocalTypeOK
    <2>2. RecordKept(l, q) /\ RecordKept(l, f)
      BY <2>1 DEF LocalInv, RecordsKept
    <2>3. RecordKept(l, q)' /\ RecordKept(l, f)'
      BY <2>2, RecordStays DEF LocalInv
    <2>4. RecordKept(l, record[l])'
      <3>1. CASE l # k
        BY <1>2, <2>1, <2>3, <3>1 DEF RecordKept, EndedFor
      <3>2. CASE l = k
        BY <1>1, <1>2, <2>1, <2>3, <3>2, LocalNames DEF RecordKept, EndedFor, k
      <3> QED
        BY <3>1, <3>2
    <2>5. RecordKept(l, recordFile[l])'
      BY <1>2, <2>1, <2>3, <2>4 DEF RecordKept, EndedFor
    <2> QED
      BY <2>4, <2>5
  <1>5. RecordsKept'
    BY <1>2, <1>3, <1>4 DEF LocalInv, RecordsKept
  <1>6. RunsKept'
    <2> SUFFICES ASSUME NEW r \in BackendRun
                 PROVE  /\ table'[r].status # "expired"
                        /\ table'[r].status = "unused" =>
                             importOf[r] = Nobody /\ table'[r].executor = Nobody
                        /\ r \in executed => table'[r].executor # Nobody
                        /\ importOf[r] # Nobody /\ r \notin executed
                           /\ table'[r].executor = ThisDevice /\ table'[r].status = "success"
                              => outcome[importOf[r]] = "success"
      BY DEF RunsKept
    <2>1. CASE table'[r] = table[r]
      BY <2>1 DEF LocalInv, RunsKept
    <2>2. CASE table'[r] # table[r]
      <3>1. r = record[k].backend /\ EndedAs(r, {record[k].status})
        BY <2>2 DEF k
      <3>2. importOf[r] = k /\ outcome[k] = record[k].status
        BY <1>1, <3>1, LocalNames DEF LocalInv, RecordsKept, RecordKept
      <3> QED
        BY <1>1, <3>1, <3>2 DEF LocalInv, RunsKept, EndedAs, Ended
    <2> QED
      BY <2>1, <2>2
  <1>7. ImportsKnown'
    BY <1>2, <1>3 DEF LocalInv, ImportsKnown, Remembered
  <1>8. ProcessKept'
    BY <1>2, <1>3 DEF LocalInv, ProcessKept, LocalTypeOK, Position, Syncing
  <1>9. SyncKept'
    BY <1>2, <1>3 DEF LocalInv, LocalTypeOK, SyncKept, Importing, Syncing
  <1>10. StragglersKept'
    BY StragglersStay
  <1> QED
    BY <1>5, <1>6, <1>7, <1>8, <1>9, <1>10 DEF LocalInv

LEMMA AlreadyEndedInv == ASSUME LocalInv, AlreadyEnded PROVE LocalInv'
  <1>1. LocalTypeOK' /\ ServerMoves
    BY RecordStepTypes, RecordStepServer DEF LocalInv, RecordStep
  <1>2. /\ MarkSynced /\ Continue /\ agent = "finish"
        /\ UNCHANGED <<table, process, starter, todo, straggler, importOf, outcome, executed,
                       unknown>>
    BY DEF AlreadyEnded, Quiet, localHistory
  <1>3. table[record[importing.of].backend].status
          \in {record[importing.of].status, "failed", "cancelled"}
    BY DEF AlreadyEnded, LocalInv, SyncKept, EndedFor
  <1> QED
    BY <1>1, <1>2, <1>3, ImportOver

LEMMA FinishedInv == ASSUME LocalInv, Finished PROVE LocalInv'
  <1>1. PICK r : r = record[importing.of].backend
    OBVIOUS
  <1>2. /\ LocalTypeOK' /\ ServerMoves
        /\ r \in BackendRun /\ EndedAs(r, {record[importing.of].status})
        /\ \A s \in BackendRun \ {r} : table'[s] = table[s]
        /\ UNCHANGED <<process, starter, todo, straggler, localHistory>>
    BY <1>1, FinishedMoves
  <1>3. MarkSynced /\ Continue /\ agent = "finish"
    BY DEF Finished
  <1>4. table'[r].status \in {record[importing.of].status, "failed", "cancelled"}
    BY <1>2 DEF EndedAs
  <1> QED
    BY <1>1, <1>2, <1>3, <1>4, ImportOver DEF localHistory

-----------------------------------------------------------------------------
(* The steps at the server *)

\* A device executes what is not an import that is known.
LEMMA ExecutesInv ==
    ASSUME LocalInv, NEW r \in BackendRun, PollExecutes(r) \/ OtherExecutes(r)
    PROVE  LocalInv'
  <1>1. /\ LocalTypeOK' /\ ServerMoves
        /\ executed' = executed \cup {r} /\ table[r].status = "pending"
        /\ ClaimedBy(r, ThisDevice) \/ ClaimedBy(r, OtherDevice)
        /\ OtherExecutes(r) => ClaimedBy(r, OtherDevice)
        /\ \A s \in BackendRun \ {r} : table'[s] = table[s]
        /\ UNCHANGED <<record, recordFile, process, starter, importing, todo, straggler,
                       importOf, outcome, unknown>>
    BY ExecutesMoves DEF LocalInv
  <1>2. /\ agent' = agent \/ (agent = "poll" /\ agent' = "sync")
        /\ OtherExecutes(r) \/ agent = "poll"
    BY DEF PollExecutes, OtherExecutes
  <1>3. RunsKept'
    BY <1>1, LocalNames DEF LocalInv, RunsKept, ClaimedBy
  <1>4. ASSUME NEW l \in LocalRun, NEW q \in {record[l], recordFile[l]}, q.backend = r
        PROVE  ClaimedBy(r, OtherDevice)
    <2>1. CASE OtherExecutes(r)
      BY <1>1, <2>1
    <2>2. CASE PollExecutes(r)
      <3>1. record[l].backend = r
        BY <1>4, <2>2, LocalNames DEF LocalInv, RecordsKept, PollExecutes
      <3>2. record[l].synced
        BY <2>2, <3>1 DEF PollExecutes
      <3>3. table[r].status \in {"success", "failed", "cancelled"}
        BY <3>1, <3>2 DEF LocalInv, RecordsKept, RecordKept, EndedFor, Ended
      <3> QED
        BY <1>1, <3>3
    <2> QED
      BY <2>1, <2>2
  <1>5. ASSUME NEW l \in LocalRun PROVE RecordKept(l, record[l])' /\ RecordKept(l, recordFile[l])'
    <2>1. PICK q \in Record, f \in Record : q = record[l] /\ f = recordFile[l]
      BY DEF LocalInv, LocalTypeOK
    <2>2. RecordKept(l, q) /\ RecordKept(l, f)
      BY <2>1 DEF LocalInv, RecordsKept
    <2>3. RecordKept(l, q)' /\ RecordKept(l, f)'
      <3>1. (q.backend = r \/ f.backend = r) => table'[r].executor = OtherDevice
        BY <1>4, <2>1 DEF ClaimedBy
      <3> QED
        BY <1>1, <2>2, <3>1, RecordStays DEF LocalInv
    <2> QED
      BY <1>1, <2>1, <2>3 DEF RecordKept, EndedFor
  <1>6. RecordsKept'
    BY <1>1, <1>2, <1>5 DEF LocalInv, RecordsKept
  <1>7. ImportsKnown'
    BY <1>1, <1>2 DEF LocalInv, ImportsKnown, Remembered
  <1>8. ProcessKept'
    BY <1>1, <1>2 DEF LocalInv, ProcessKept, Syncing
  <1>9. SyncKept'
    <2>1. CASE agent' = agent
      BY <1>1, <2>1, SyncStays
    <2>2. CASE agent' = "sync"
      BY <2>2 DEF SyncKept, Importing, Syncing
    <2> QED
      BY <1>2, <2>1, <2>2
  <1>10. StragglersKept'
    BY <1>1, StragglersStay
  <1> QED
    BY <1>1, <1>3, <1>6, <1>7, <1>8, <1>9, <1>10 DEF LocalInv

\* What of the invariant speaks of the runs alone, when none is created.
LEMMA RunsStay ==
    ASSUME LocalInv, ServerMoves, UNCHANGED <<executed, importOf, outcome>>,
           \A r \in BackendRun :
              table'[r].status = "success" => \/ table'[r] = table[r] \/ r \in executed
                                              \/ importOf[r] = Nobody
                                              \/ outcome[importOf[r]] = "success"
    PROVE  RunsKept'
  <1> SUFFICES ASSUME NEW r \in BackendRun
               PROVE  /\ table'[r].status # "expired"
                      /\ table'[r].status = "unused" =>
                           importOf[r] = Nobody /\ table'[r].executor = Nobody
                      /\ r \in executed => table'[r].executor # Nobody
                      /\ importOf[r] # Nobody /\ r \notin executed
                         /\ table'[r].executor = ThisDevice /\ table'[r].status = "success"
                            => outcome[importOf[r]] = "success"
    BY DEF RunsKept
  <1> QED
    BY RunStays DEF LocalInv, RunsKept

LEMMA ServerStepInv ==
    ASSUME LocalInv, NEW r \in BackendRun, ExecutionEnds(r) \/ UserActs(r)
    PROVE  LocalInv'
  <1>1. LocalTypeOK' /\ ServerMoves
        /\ UNCHANGED <<record, recordFile, process, starter, agent, importing, todo,
                       straggler, importOf, outcome, executed, unknown>>
    BY ServerStepTypes DEF LocalInv
  <1>2. \A s \in BackendRun : table'[s].status = "success" => table'[s] = table[s] \/ s \in executed
    <2>1. CASE UserActs(r)
      BY <2>1, UserMoves DEF LocalInv, LocalTypeOK, Row, Inserted, Overridden
    <2>2. CASE ExecutionEnds(r)
      <3>1. r \in executed /\ \E o \in Ended : Backend!Finish(r, o)
        BY <2>2 DEF ExecutionEnds
      <3> QED
        BY <3>1, FinishMoves DEF LocalInv, LocalTypeOK, Row
    <2> QED
      BY <2>1, <2>2
  <1>3. RunsKept'
    BY <1>1, <1>2, RunsStay
  <1>4. RecordsKept' /\ SyncKept' /\ StragglersKept'
    BY <1>1, RecordsStay, SyncStays, StragglersStay
  <1>5. ImportsKnown' /\ ProcessKept'
    BY <1>1 DEF LocalInv, ImportsKnown, Remembered, ProcessKept
  <1> QED
    BY <1>1, <1>3, <1>4, <1>5 DEF LocalInv

LEMMA AdmittedInv == ASSUME LocalInv, Admitted PROVE LocalInv'
  <1>1. /\ LocalTypeOK' /\ ServerMoves
        /\ \A s \in BackendRun : table'[s] = table[s] \/ Overridden(s)
        /\ agent = "create" /\ agent' = "insert"
        /\ UNCHANGED <<record, recordFile, process, starter, importing, todo, straggler,
                       importOf, outcome, executed, unknown>>
    BY AdmittedMoves
  <1>2. RunsKept'
    BY <1>1, RunsStay DEF Overridden
  <1>3. RecordsKept' /\ StragglersKept'
    BY <1>1, RecordsStay, StragglersStay
  <1>4. ImportsKnown' /\ ProcessKept' /\ SyncKept'
    BY <1>1 DEF LocalInv, ImportsKnown, Remembered, ProcessKept, SyncKept, Importing, Syncing
  <1> QED
    BY <1>1, <1>2, <1>3, <1>4 DEF LocalInv

LEMMA ClaimedInv == ASSUME LocalInv, Claimed PROVE LocalInv'
  <1>1. /\ LocalTypeOK' /\ ServerMoves
        /\ UNCHANGED <<record, recordFile, process, starter, todo, straggler, importOf, outcome,
                       executed, unknown>>
    BY ClaimedMoves DEF localHistory
  <1>2. PICK r \in BackendRun : r = record[importing.of].backend
    BY ImportedRun DEF LocalInv, Claimed, Importing, Syncing
  <1>3. /\ ClaimedBy(r, ThisDevice) /\ \A s \in BackendRun \ {r} : table'[s] = table[s]
    BY <1>2, ClaimMoves DEF LocalInv, LocalTypeOK, Row, Claimed
  <1>4. agent = "claim" /\ agent' = "log" /\ importing'.of = importing.of
        /\ importing'.saw = "running"
    <2>1. PICK q \in Import : importing = q
      BY DEF LocalInv, LocalTypeOK, Import
    <2>2. importing' = [q EXCEPT !.saw = "running"]
      BY <2>1 DEF Claimed
    <2> QED
      BY <2>1, <2>2 DEF Claimed, Turn, Import
  <1>5. RunsKept'
    BY <1>1, <1>3, RunsStay DEF ClaimedBy
  <1>6. RecordsKept'
    <2>1. ASSUME NEW l \in LocalRun PROVE RecordKept(l, record[l])' /\ RecordKept(l, recordFile[l])'
      <3>1. PICK q \in Record, f \in Record : q = record[l] /\ f = recordFile[l]
        BY DEF LocalInv, LocalTypeOK
      <3>2. RecordKept(l, q)' /\ RecordKept(l, f)'
        BY <1>1, <3>1, RecordStays DEF LocalInv, RecordsKept
      <3> QED
        BY <1>1, <3>1, <3>2 DEF RecordKept, EndedFor
    <2> QED
      BY <1>1, <1>4, <2>1 DEF LocalInv, RecordsKept
  <1>7. ImportsKnown' /\ ProcessKept'
    BY <1>1, <1>4 DEF LocalInv, ImportsKnown, Remembered, ProcessKept, Syncing
  <1>8. SyncKept'
    BY <1>1, <1>4 DEF LocalInv, SyncKept, Importing, Syncing
  <1>9. StragglersKept'
    BY <1>1, StragglersStay
  <1> QED
    BY <1>1, <1>5, <1>6, <1>7, <1>8, <1>9 DEF LocalInv

LEMMA CreatedInv == ASSUME LocalInv, NEW r \in BackendRun, Created(r) PROVE LocalInv'
  <1> DEFINE k == importing.of
  <1>1. /\ LocalTypeOK' /\ ServerMoves /\ Inserted(r) /\ importOf[r] = Nobody
        /\ \A s \in BackendRun \ {r} : table'[s] = table[s]
        /\ record'[k].backend = r
        /\ \A l \in LocalRun :
              /\ record'[l].status = record[l].status
              /\ record'[l].synced = record[l].synced
              /\ l # k => record'[l] = record[l]
    BY CreatedMoves
  <1>2. /\ k \in LocalRun /\ record[k].status \in Ended /\ record[k].backend = Nobody
    BY ImportedRun DEF LocalInv, SyncKept, Created, Importing, Syncing
  <1>3. /\ importOf' = [importOf EXCEPT ![r] = k] /\ agent = "insert" /\ agent' = "save"
        /\ UNCHANGED <<recordFile, todo, straggler, outcome, executed, unknown, process, starter>>
    BY DEF Created, Quiet, Turn
  <1>4. importing'.of = k /\ importing'.saw = "pending"
    <2>1. PICK q \in Import : importing = q
      BY DEF LocalInv, LocalTypeOK, Import
    <2>2. importing' = [q EXCEPT !.saw = "pending"]
      BY <2>1 DEF Created
    <2> QED
      BY <2>1, <2>2 DEF Import
  <1> HIDE DEF k
  <1>5. /\ importOf'[r] = k /\ \A s \in BackendRun \ {r} : importOf'[s] = importOf[s]
    BY <1>3 DEF LocalInv, LocalTypeOK
  <1>6. r \notin executed
    BY <1>1 DEF Inserted, LocalInv, RunsKept
  <1>7. RunsKept'
    <2> SUFFICES ASSUME NEW s \in BackendRun
                 PROVE  /\ table'[s].status # "expired"
                        /\ table'[s].status = "unused" =>
                             importOf'[s] = Nobody /\ table'[s].executor = Nobody
                        /\ s \in executed' => table'[s].executor # Nobody
                        /\ importOf'[s] # Nobody /\ s \notin executed'
                           /\ table'[s].executor = ThisDevice /\ table'[s].status = "success"
                              => outcome'[importOf'[s]] = "success"
      BY DEF RunsKept
    <2>1. CASE s = r
      BY <1>1, <1>3, <1>6, <2>1 DEF Inserted
    <2>2. CASE s # r
      BY <1>1, <1>3, <1>5, <2>2 DEF LocalInv, RunsKept
    <2> QED
      BY <2>1, <2>2
  <1>8. ASSUME NEW l \in LocalRun PROVE RecordKept(l, record[l])' /\ RecordKept(l, recordFile[l])'
    <2>1. PICK q \in Record, f \in Record : q = record[l] /\ f = recordFile[l]
      BY DEF LocalInv, LocalTypeOK
    <2>2. RecordKept(l, q)' /\ RecordKept(l, f)'
      BY <1>1, <1>3, <2>1, RecordStays DEF LocalInv, RecordsKept
    <2>3. CASE l # k
      BY <1>1, <1>3, <2>1, <2>2, <2>3 DEF RecordKept, EndedFor
    <2>4. CASE l = k
      <3>1. ~record[k].synced
        BY <1>2 DEF LocalInv, RecordsKept, RecordKept
      <3>2. RecordKept(l, record[l])'
        BY <1>1, <1>3, <1>5, <1>6, <2>1, <2>2, <2>4, <3>1 DEF RecordKept, EndedFor
      <3> QED
        BY <1>3, <2>1, <2>2, <3>2 DEF RecordKept, EndedFor
    <2> QED
      BY <2>3, <2>4
  <1>9. RecordsKept'
    <2>1. ASSUME NEW l \in LocalRun, recordFile[l].backend # Nobody
          PROVE  record'[l].backend = recordFile[l].backend
      BY <1>1, <1>2, <1>3, <2>1 DEF LocalInv, RecordsKept
    <2> QED
      BY <1>3, <1>8, <2>1 DEF RecordsKept
  <1>10. ImportsKnown'
    <2> SUFFICES ASSUME NEW l \in LocalRun \ unknown, NEW s \in BackendRun, importOf'[s] = l
                 PROVE  record'[l].backend = s
      BY <1>3 DEF ImportsKnown, Remembered
    <2>1. CASE s = r
      BY <1>1, <1>5, <2>1
    <2>2. CASE s # r
      <3>1. record[l].backend = s
        BY <1>3, <1>5, <2>2 DEF LocalInv, ImportsKnown, Remembered
      <3>2. l # k
        BY <1>2, <3>1, LocalNames
      <3> QED
        BY <1>1, <3>1, <3>2
    <2> QED
      BY <2>1, <2>2
  <1>11. ProcessKept'
    BY <1>1, <1>3 DEF LocalInv, ProcessKept, Syncing
  <1>12. SyncKept'
    <2>1. \A l \in todo' : record'[l].status \in Ended
      BY <1>1, <1>3 DEF LocalInv, LocalTypeOK, SyncKept, Syncing
    <2>2. record'[k].status \in Ended /\ record'[k].backend # Nobody
      BY <1>1, <1>2, LocalNames
    <2> QED
      BY <1>2, <1>3, <1>4, <2>1, <2>2 DEF SyncKept, Importing, Syncing
  <1>13. StragglersKept'
    BY <1>1, <1>3, StragglersStay
  <1> QED
    BY <1>1, <1>7, <1>9, <1>10, <1>11, <1>12, <1>13 DEF LocalInv

LEMMA ArrivesInv == ASSUME LocalInv, NEW m \in straggler, Arrives(m) PROVE LocalInv'
  <1>1. /\ LocalTypeOK' /\ ServerMoves
        /\ LateCreation(m) \/ LateClaim \/ LateReport(m)
        /\ \A n \in straggler' : n \in straggler \/ n.kind # "finish"
        /\ UNCHANGED <<record, recordFile, process, starter, agent, importing, todo,
                       outcome, executed>>
    BY ArrivesMoves
  <1>2. RecordsKept' /\ SyncKept' /\ StragglersKept' /\ ProcessKept'
    BY <1>1, RecordsStay, SyncStays, StragglersStay DEF LocalInv, ProcessKept
  <1>3. CASE LateCreation(m)
    <2>1. PICK r \in BackendRun :
             /\ Inserted(r) /\ importOf[r] = Nobody /\ m.of \in LocalRun
             /\ importOf' = [importOf EXCEPT ![r] = m.of] /\ unknown' = unknown \cup {m.of}
             /\ \A s \in BackendRun \ {r} : table'[s] = table[s]
      BY <1>3 DEF LateCreation
    <2>2. /\ importOf'[r] = m.of /\ \A s \in BackendRun \ {r} : importOf'[s] = importOf[s]
      BY <2>1 DEF LocalInv, LocalTypeOK
    <2>3. RunsKept'
      <3> SUFFICES ASSUME NEW s \in BackendRun
                   PROVE  /\ table'[s].status # "expired"
                          /\ table'[s].status = "unused" =>
                               importOf'[s] = Nobody /\ table'[s].executor = Nobody
                          /\ s \in executed' => table'[s].executor # Nobody
                          /\ importOf'[s] # Nobody /\ s \notin executed'
                             /\ table'[s].executor = ThisDevice /\ table'[s].status = "success"
                                => outcome'[importOf'[s]] = "success"
        BY DEF RunsKept
      <3>1. CASE s = r
        <4>1. r \notin executed
          BY <2>1 DEF Inserted, LocalInv, RunsKept
        <4> QED
          BY <1>1, <2>1, <3>1, <4>1 DEF Inserted
      <3>2. CASE s # r
        BY <1>1, <2>1, <2>2, <3>2 DEF LocalInv, RunsKept
      <3> QED
        BY <3>1, <3>2
    <2>4. ImportsKnown'
      BY <1>1, <2>1, <2>2 DEF LocalInv, ImportsKnown, Remembered
    <2> QED
      BY <1>1, <1>2, <2>3, <2>4 DEF LocalInv
  <1>4. CASE LateClaim
    <2>1. RunsKept'
      BY <1>1, <1>4, RunsStay DEF LateClaim, ClaimedBy, Overridden
    <2> QED
      BY <1>1, <1>2, <1>4, <2>1 DEF LateClaim, LocalInv, ImportsKnown, Remembered
  <1>5. CASE LateReport(m)
    <2>1. RunsKept'
      BY <1>1, <1>5, RunsStay DEF LateReport, EndedAs
    <2> QED
      BY <1>1, <1>2, <1>5, <2>1 DEF LateReport, LocalInv, ImportsKnown, Remembered
  <1> QED
    BY <1>1, <1>3, <1>4, <1>5

-----------------------------------------------------------------------------
(* The theorems *)

LEMMA LocalInvInit == ASSUME LocalInit PROVE LocalInv
  <1>1. \A r \in BackendRun : table[r] = Backend!Unused
    BY DEF LocalInit, Backend!Init
  <1>2. Backend!Unused \in Row /\ Backend!Unused.status = "unused"
        /\ Backend!Unused.executor = Nobody
    BY RowStatus DEF Backend!Unused, Row
  <1>3. Absent \in Record /\ Absent.status = "absent" /\ Absent.backend = Nobody
        /\ Absent.synced = FALSE
    BY AbsentIsRecord DEF Absent
  <1>4. NotImporting \in Import
    BY RowStatus DEF NotImporting, Import
  <1>5. LocalTypeOK
    BY <1>2, <1>3, <1>4 DEF LocalInit, LocalTypeOK, Backend!Init, Row, Import
  <1>6. RunsKept /\ RecordsKept /\ ImportsKnown
    BY <1>1, <1>2, <1>3, LocalNames
       DEF LocalInit, RunsKept, RecordsKept, RecordKept, EndedFor, ImportsKnown, Remembered, Ended
  <1>7. ProcessKept /\ SyncKept /\ StragglersKept
    BY DEF LocalInit, ProcessKept, SyncKept, StragglersKept, Importing, Syncing
  <1> QED
    BY <1>5, <1>6, <1>7 DEF LocalInv

LEMMA LocalSteps ==
    ASSUME LocalNext
    PROVE  \/ Quietly
           \/ StartRecord \/ (\E o \in Ended : CheckEnded(o)) \/ Saved \/ AlreadyEnded
           \/ (agent # "down" /\ Dies) \/ Restarts
           \/ Admitted \/ Claimed \/ Finished
           \/ \E r \in BackendRun : \/ PollExecutes(r) \/ OtherExecutes(r) \/ ExecutionEnds(r)
                                    \/ UserActs(r) \/ Created(r)
           \/ \E m \in straggler : Arrives(m)
  BY DEF LocalNext, Sync, Check, CheckTorn, Crashes, Quietly

LEMMA LocalInvStep == LocalInv /\ [LocalNext]_localVars => LocalInv'
  <1>1. ASSUME LocalInv, LocalNext PROVE LocalInv'
    <2>1. CASE Quietly
      BY <1>1, <2>1, QuietInv
    <2>2. CASE StartRecord \/ (\E o \in Ended : CheckEnded(o)) \/ Saved \/ AlreadyEnded
      BY <1>1, <2>2, StartRecordInv, CheckEndedInv, SavedInv, AlreadyEndedInv
    <2>3. CASE (agent # "down" /\ Dies) \/ Restarts
      BY <1>1, <2>3, DiesInv, RestartsInv
    <2>4. CASE Admitted \/ Claimed \/ Finished
      BY <1>1, <2>4, AdmittedInv, ClaimedInv, FinishedInv
    <2>5. ASSUME NEW r \in BackendRun,
                 \/ PollExecutes(r) \/ OtherExecutes(r) \/ ExecutionEnds(r)
                 \/ UserActs(r) \/ Created(r)
          PROVE  LocalInv'
      BY <1>1, <2>5, ExecutesInv, ServerStepInv, CreatedInv
    <2>6. ASSUME NEW m \in straggler, Arrives(m) PROVE LocalInv'
      BY <1>1, <2>6, ArrivesInv
    <2> QED
      BY <1>1, <2>1, <2>2, <2>3, <2>4, <2>5, <2>6, LocalSteps
  <1>2. CASE UNCHANGED localVars
    <2>1. UNCHANGED <<table, record, recordFile, process, starter, agent, importing, todo,
                      straggler, importOf, outcome, executed, unknown>>
      BY <1>2 DEF localVars, localHistory
    <2> QED
      BY <2>1
         DEF LocalInv, LocalTypeOK, RunsKept, RecordsKept, RecordKept, EndedFor, ImportsKnown,
             Remembered, ProcessKept, SyncKept, StragglersKept
  <1> QED
    BY <1>1, <1>2

\* The inductive invariant: runs, records, identities and requests under way agree.
THEOREM LocalInvariant == LocalSpec => []LocalInv
  <1>1. LocalInit => LocalInv
    BY LocalInvInit
  <1> QED
    BY <1>1, LocalInvStep, PTL DEF LocalSpec

\* The runs of a local run are the one that its record names, in memory or on disk.
LEMMA ImportsOf ==
    ASSUME LocalInv, NEW l \in LocalRun \ unknown
    PROVE  /\ \A r \in Imports(l) : r = Remembered(l)
           /\ record[l].backend # Nobody => Imports(l) = {record[l].backend}
  <1>1. \A r \in Imports(l) : r = Remembered(l)
    BY DEF LocalInv, ImportsKnown, Imports
  <1>2. ASSUME record[l].backend # Nobody PROVE Imports(l) = {record[l].backend}
    <2>1. record[l].backend \in BackendRun
      BY <1>2 DEF LocalInv, LocalTypeOK, Record
    <2>2. importOf[record[l].backend] = l
      BY <1>2 DEF LocalInv, RecordsKept, RecordKept
    <2>3. record[l].backend \in Imports(l)
      BY <2>1, <2>2 DEF Imports
    <2> QED
      BY <1>1, <2>3
  <1> QED
    BY <1>1, <1>2

(* A local run is imported once, whatever is lost after its run was created,      *)
(* unless the answer that names the run never reached the disk                    *)
(* (_sync_local_runs_locked).                                                     *)
THEOREM ALocalRunIsImportedOnce == LocalSpec => []ImportedOnce
  <1>1. ASSUME LocalInv PROVE ImportedOnce
    <2> SUFFICES ASSUME NEW l \in LocalRun \ unknown
                 PROVE  /\ Cardinality(Imports(l)) <= 1
                        /\ record[l].backend # Nobody => Imports(l) = {record[l].backend}
      BY DEF ImportedOnce
    <2>1. Imports(l) = {} \/ Imports(l) = {Remembered(l)}
      BY <1>1, ImportsOf
    <2>2. Cardinality(Imports(l)) \in {0, 1}
      BY <2>1, FS_EmptySet, FS_Singleton
    <2> QED
      BY <1>1, <2>2, ImportsOf
  <1> QED
    BY <1>1, LocalInvariant, PTL

(* This device does not execute an import that it knows, in any state of the      *)
(* import and after restarts (poll_and_execute).                                  *)
THEOREM AnImportIsNotExecuted == LocalSpec => []KnownImportNotExecuted
  <1>1. ASSUME LocalInv PROVE KnownImportNotExecuted
    <2> SUFFICES ASSUME NEW l \in LocalRun \ unknown, NEW r \in Imports(l) \cap executed
                 PROVE  table[r].executor = OtherDevice
      BY DEF KnownImportNotExecuted
    <2>1. r \in BackendRun /\ r = Remembered(l)
      BY <1>1, ImportsOf DEF Imports
    <2> QED
      BY <1>1, <2>1, LocalNames DEF Remembered, LocalInv, RecordsKept, RecordKept
  <1> QED
    BY <1>1, LocalInvariant, PTL

(* A record that counts as synchronised has a run that has ended, with the        *)
(* outcome of the local run, by a cancellation or by the watchdog                 *)
(* (_sync_local_runs_locked, update_run_status).                                  *)
THEOREM ASyncedRunHasEnded == LocalSpec => []SyncedHasEnded
  <1>1. LocalInv => SyncedHasEnded
    BY DEF LocalInv, RecordsKept, RecordKept, EndedFor, SyncedHasEnded
  <1> QED
    BY <1>1, LocalInvariant, PTL

-----------------------------------------------------------------------------
(* The contract of the run table *)

LEMMA AdmitsKeeps == ASSUME Admits PROVE Backend!Next \/ UNCHANGED table
  <1>1. ASSUME NEW r \in Active, Backend!Cancel({r}) PROVE Backend!Next
    <2>1. {r} \in SUBSET BackendRun
      BY DEF Active
    <2> QED
      BY <1>1, <2>1 DEF Backend!Next
  <1> QED
    BY <1>1 DEF Admits

LEMMA ServerStepKeeps ==
    ASSUME NEW r \in BackendRun,
           \/ PollExecutes(r) \/ OtherExecutes(r) \/ ExecutionEnds(r) \/ UserActs(r) \/ Created(r)
    PROVE  Backend!Next
  <1>1. /\ Nobody \in Backend!Device /\ {r} \in SUBSET BackendRun
        /\ Ended = {"success", "failed"}
    BY DEF Backend!Device, Ended
  <1>2. CASE PollExecutes(r) \/ OtherExecutes(r)
    BY <1>2 DEF PollExecutes, OtherExecutes, Backend!Next
  <1>3. CASE ExecutionEnds(r)
    BY <1>1, <1>3 DEF ExecutionEnds, Backend!Next
  <1>4. CASE Created(r) \/ Backend!Create(r, Nobody)
    BY <1>1, <1>4 DEF Created, Backend!Next
  <1>5. CASE Backend!Cancel({r})
    BY <1>1, <1>5 DEF Backend!Next
  <1>6. CASE Backend!Override({r}, "cancelled") \/ Backend!Override({r}, "failed")
    BY <1>1, <1>6 DEF Backend!Next
  <1> QED
    BY <1>2, <1>3, <1>4, <1>5, <1>6 DEF UserActs

\* The runs that a request names are runs of the server, and it reports an outcome.
LEMMA RequestKeeps ==
    ASSUME LocalInv, Claimed \/ Finished \/ \E m \in straggler : Arrives(m)
    PROVE  Backend!Next \/ UNCHANGED table
  <1>1. ASSUME NEW r \in BackendRun, NEW o \in Ended,
               Backend!Claim(r, ThisDevice) \/ Backend!Finish(r, o)
        PROVE  Backend!Next
    BY <1>1 DEF Backend!Next, Ended
  <1>2. CASE Claimed
    <2>1. PICK r \in BackendRun : r = record[importing.of].backend
      BY <1>2, ImportedRun DEF LocalInv, Claimed, Importing, Syncing
    <2> QED
      BY <1>1, <1>2, <2>1 DEF Claimed, Ended
  <1>3. CASE Finished
    <2>1. PICK r \in BackendRun, o \in Ended :
             r = record[importing.of].backend /\ o = record[importing.of].status
      BY <1>3, ImportedRun DEF LocalInv, Finished, Importing, Syncing
    <2> QED
      BY <1>1, <1>3, <2>1 DEF Finished
  <1>4. ASSUME NEW m \in straggler, Arrives(m) PROVE Backend!Next \/ UNCHANGED table
    <2>1. m \in Straggler
      BY DEF LocalInv, LocalTypeOK
    <2>2. ASSUME NEW r \in BackendRun, Backend!Create(r, Nobody) PROVE Backend!Next
      BY <2>2 DEF Backend!Next, Backend!Device
    <2>3. CASE m.kind = "claim" /\ Backend!Claim(m.run, ThisDevice)
      <3>1. m.run \in BackendRun
        BY <2>1, <2>3 DEF Straggler
      <3> QED
        BY <1>1, <2>3, <3>1 DEF Ended
    <2>4. CASE m.kind = "finish" /\ Backend!Finish(m.run, outcome[m.of])
      <3>1. m.run \in BackendRun /\ outcome[m.of] \in Ended
        BY <2>1, <2>4 DEF Straggler, LocalInv, StragglersKept
      <3> QED
        BY <1>1, <2>4, <3>1
    <2> QED
      BY <1>4, <2>2, <2>3, <2>4, AdmitsKeeps DEF Arrives
  <1> QED
    BY <1>2, <1>3, <1>4

(* Whatever requests an import sends, repeats or sends too late, and whatever other *)
(* users do meanwhile, the table of runs moves only as the contract allows that the *)
(* server's own model implements (RunLifecycle).                                    *)
THEOREM ImportsKeepTheContract == LocalSpec => Backend!Spec
  <1>1. LocalInit => Backend!Init
    BY DEF LocalInit
  <1>2. LocalInv /\ [LocalNext]_localVars => [Backend!Next]_table
    <2>1. ASSUME LocalInv, LocalNext PROVE Backend!Next \/ UNCHANGED table
      <3>1. CASE Quietly
        BY <3>1, QuietlyKeeps
      <3>2. CASE RecordStep
        BY <2>1, <3>2, RecordStepServer
      <3>3. CASE Admitted
        BY <3>3, AdmitsKeeps DEF Admitted
      <3>4. CASE Claimed \/ Finished \/ \E m \in straggler : Arrives(m)
        BY <2>1, <3>4, RequestKeeps
      <3>5. ASSUME NEW r \in BackendRun,
                   \/ PollExecutes(r) \/ OtherExecutes(r) \/ ExecutionEnds(r)
                   \/ UserActs(r) \/ Created(r)
            PROVE  Backend!Next
        BY <3>5, ServerStepKeeps
      <3> QED
        BY <2>1, <3>1, <3>2, <3>3, <3>4, <3>5, LocalSteps DEF RecordStep
    <2>2. CASE UNCHANGED localVars
      BY <2>2 DEF localVars
    <2> QED
      BY <2>1, <2>2
  <1> QED
    BY <1>1, <1>2, LocalInvariant, PTL DEF LocalSpec, Backend!Spec

=============================================================================
