------------------------------ MODULE LocalRuns ------------------------------
(***************************************************************************)
(* Scripts that the user starts at the device, without the server, and the *)
(* import of their records when the server can be reached: the client asks *)
(* the server for a run, keeps its identity on disk, claims it, uploads    *)
(* the log and reports the outcome, and takes up an import it has not      *)
(* finished where it left it.  The server is the run table of RunContract; *)
(* it cannot tell an import from a run that a device has to execute.       *)
(*                                                                         *)
(* The thread of the local API starts a script in three assignments, which *)
(* the main loop may see half done (_check_local_runs is outside the gate). *)
(* A request that is given up may be processed later (straggler).          *)
(***************************************************************************)
EXTENDS Naturals, FiniteSets

CONSTANTS BackendRun, LocalRun,
          ThisDevice, OtherDevice,   \* devices of the same user
          Nobody

ASSUME LocalRunsAssumption ==
    /\ ThisDevice # OtherDevice
    /\ Nobody \notin BackendRun \cup LocalRun \cup {ThisDevice, OtherDevice}

VARIABLES table,      \* the server's runs
          record,     \* _local_runs
          recordFile, \* local_runs.json
          process,    \* the local run of _local_run_proc
          starter,    \* what the local API's thread is starting, and how far it is
          agent,      \* where the main loop is
          importing,  \* the record it is importing, what it has read and done
          todo,       \* the records the pass has still to look at
          straggler,  \* requests that were given up
          importOf,   \* the local run a server's run was created for (history)
          outcome,    \* how the local run ended (history)
          executed,   \* runs of the server whose script was executed (history)
          unknown     \* local runs with an import the client does not know (history)

localHistory == <<importOf, outcome, executed, unknown>>
localVars == <<table, record, recordFile, process, starter, agent, importing, todo,
               straggler, localHistory>>

Backend == INSTANCE RunContract WITH run <- table, Run <- BackendRun, None <- Nobody,
                                     Agent <- {ThisDevice, OtherDevice}

-----------------------------------------------------------------------------

Ended    == {"success", "failed"}
Absent   == [status |-> "absent", backend |-> Nobody, synced |-> FALSE]
Record   == [status : {"absent", "running"} \cup Ended, backend : BackendRun \cup {Nobody},
             synced : BOOLEAN]
Straggler == [kind : {"create", "insert", "finish"}, of : LocalRun, run : BackendRun \cup {Nobody}]
             \cup [kind : {"claim"}, of : {Nobody}, run : BackendRun]
Idle == [at |-> "idle", of |-> Nobody]
NotImporting == [of |-> Nobody, saw |-> "pending", logs |-> FALSE]

\* Inside the synchronisation the main loop holds _execution_start_lock.
Syncing == {"next", "create", "insert", "look", "save", "claim", "log", "finish"}

LocalTypeOK ==
    /\ table \in [BackendRun -> [status : Backend!Status,
                                 target : {ThisDevice, OtherDevice, Nobody},
                                 executor : {ThisDevice, OtherDevice, Nobody}]]
    /\ record \in [LocalRun -> Record] /\ recordFile \in [LocalRun -> Record]
    /\ process \in LocalRun \cup {Nobody}
    /\ starter \in [at : {"proc", "info"}, of : LocalRun] \cup {Idle}
    /\ agent \in {"check", "poll", "sync", "down"} \cup Syncing
    /\ importing \in [of : LocalRun \cup {Nobody}, saw : Backend!Status, logs : BOOLEAN]
    /\ todo \subseteq LocalRun
    /\ straggler \subseteq Straggler
    /\ importOf \in [BackendRun -> LocalRun \cup {Nobody}]
    /\ outcome \in [LocalRun -> Ended \cup {"none"}]
    /\ executed \subseteq BackendRun /\ unknown \subseteq LocalRun

LocalInit ==
    /\ Backend!Init
    /\ record = [l \in LocalRun |-> Absent] /\ recordFile = record
    /\ process = Nobody /\ starter = Idle /\ agent = "check"
    /\ importing = NotImporting /\ todo = {} /\ straggler = {}
    /\ importOf = [r \in BackendRun |-> Nobody]
    /\ outcome = [l \in LocalRun |-> "none"]
    /\ executed = {} /\ unknown = {}

\* _save_local_runs writes every record, or fails.
SaveRecords == recordFile' \in {recordFile, record'}

\* The client dies: what was not saved is forgotten.
Dies ==
    /\ agent' = "down" /\ process' = Nobody /\ starter' = Idle
    /\ importing' = NotImporting /\ todo' = {}
    /\ record' = [l \in LocalRun |-> Absent]
    /\ unknown' = unknown \cup {l \in LocalRun : record[l].backend # recordFile[l].backend}
    /\ UNCHANGED <<table, recordFile, straggler, importOf, outcome, executed>>

-----------------------------------------------------------------------------
(* start_local_run *)

StartProcess(l) ==
    /\ starter = Idle /\ agent \notin Syncing \cup {"down"}
    /\ process = Nobody /\ record[l] = Absent /\ outcome[l] = "none"
    /\ process' = l /\ starter' = [at |-> "proc", of |-> l]
    /\ UNCHANGED <<table, record, recordFile, agent, importing, todo, straggler,
                   localHistory>>

StartInfo ==
    /\ starter.at = "proc" /\ starter' = [starter EXCEPT !.at = "info"]
    /\ UNCHANGED <<table, record, recordFile, process, agent, importing, todo, straggler,
                   localHistory>>

\* The record is inserted, for whatever process there is by now.
StartRecord ==
    /\ starter.at = "info"
    /\ record' = [record EXCEPT ![starter.of].status = "running"]
    /\ starter' = Idle
    /\ SaveRecords
    /\ UNCHANGED <<table, process, agent, importing, todo, straggler, localHistory>>

-----------------------------------------------------------------------------
(* The main loop: _check_local_runs *)

\* Between the first two assignments it fails with a KeyError, which ends the client.
CheckTorn == agent = "check" /\ process # Nobody /\ starter.at = "proc" /\ Dies

CheckRunning ==
    /\ agent = "check" /\ (process # Nobody => starter.at # "proc")
    /\ agent' = "poll"
    /\ UNCHANGED <<table, record, recordFile, process, starter, importing, todo,
                   straggler, localHistory>>

\* The process has ended or is killed for its timeout; an end that comes before
\* the record is there is not recorded.
CheckEnded(o) ==
    /\ agent = "check" /\ process # Nobody /\ starter.at # "proc"
    /\ agent' = "poll"
    /\ outcome' = [outcome EXCEPT ![process] = o]
    /\ IF starter.at = "info" THEN UNCHANGED <<record, recordFile>>
       ELSE record' = [record EXCEPT ![process].status = o] /\ SaveRecords
    /\ process' = Nobody
    /\ UNCHANGED <<table, starter, importing, todo, straggler, importOf, executed, unknown>>

-----------------------------------------------------------------------------
(* poll_and_execute *)

\* MUTANT of PollExecutes: without the look at the records.
PollExecutes_AnyRun(r) ==
    /\ agent = "poll" /\ starter = Idle /\ process = Nobody
    /\ Backend!Claim(r, ThisDevice)
    /\ executed' = executed \cup {r}
    /\ agent' = "sync"
    /\ UNCHANGED <<record, recordFile, process, starter, importing, todo, straggler,
                   importOf, outcome, unknown>>

\* It executes what the server offers, unless it is an import that it knows.
PollExecutes(r) ==
    /\ agent = "poll" /\ starter = Idle /\ process = Nobody
    /\ \A l \in LocalRun : record[l].backend # r \/ record[l].synced
    /\ Backend!Claim(r, ThisDevice)
    /\ executed' = executed \cup {r}
    /\ agent' = "sync"
    /\ UNCHANGED <<record, recordFile, process, starter, importing, todo, straggler,
                   importOf, outcome, unknown>>

PollSkips ==
    /\ agent = "poll" /\ agent' = "sync"
    /\ UNCHANGED <<table, record, recordFile, process, starter, importing, todo,
                   straggler, localHistory>>

-----------------------------------------------------------------------------
(* _sync_local_runs_to_backend *)

Turn(l) == agent' = l
Quiet   == UNCHANGED <<process, starter>>

SyncBegins ==
    /\ agent = "sync" /\ starter = Idle
    /\ Turn("next")
    /\ todo' = {l \in LocalRun : record[l].status \in Ended /\ ~record[l].synced}
    /\ Quiet /\ UNCHANGED <<table, record, recordFile, importing, straggler, localHistory>>

\* The gate is taken, or the server has not been reached for 90 seconds.
SyncSkipped ==
    /\ agent = "sync" /\ Turn("check")
    /\ Quiet /\ UNCHANGED <<table, record, recordFile, importing, todo, straggler,
                            localHistory>>

\* MUTANT of SyncNext: every pass asks for a run.
SyncNext_AsksAgain ==
    /\ agent = "next" /\ todo # {}
    /\ \E l \in todo :
          /\ todo' = todo \ {l}
          /\ importing' = [NotImporting EXCEPT !.of = l]
          /\ Turn("create")
    /\ Quiet /\ UNCHANGED <<table, record, recordFile, straggler, localHistory>>

\* An import that has an identity is taken up with it.
SyncNext ==
    /\ agent = "next" /\ todo # {}
    /\ \E l \in todo :
          /\ todo' = todo \ {l}
          /\ importing' = [NotImporting EXCEPT !.of = l]
          /\ Turn(IF record[l].backend = Nobody THEN "create" ELSE "look")
    /\ Quiet /\ UNCHANGED <<table, record, recordFile, straggler, localHistory>>

SyncDone ==
    /\ agent = "next" /\ todo = {} /\ Turn("check")
    /\ Quiet /\ UNCHANGED <<table, record, recordFile, importing, todo, straggler,
                            localHistory>>

\* The import is left for the next pass.
Continue == Turn("next") /\ importing' = NotImporting

\* execute_script goes on unless the user has a run that is active; one that has been
\* pending for five minutes is cancelled, in a transaction of its own.
Active == {r \in BackendRun : table[r].status \in {"pending", "running"}
                              /\ table[r].target = Nobody}

Admits ==
    \/ Active = {} /\ UNCHANGED table
    \/ \E r \in Active : table[r].status = "pending" /\ Backend!Cancel({r})

Admitted ==
    /\ agent = "create" /\ Admits /\ Turn("insert")
    /\ Quiet /\ UNCHANGED <<record, recordFile, importing, todo, straggler, localHistory>>

\* The run is inserted without a second look at the others, and the client is told.
Created(r) ==
    /\ agent = "insert" /\ Backend!Create(r, Nobody)
    /\ importOf' = [importOf EXCEPT ![r] = importing.of]
    /\ record' = [record EXCEPT ![importing.of].backend = r]
    /\ importing' = [importing EXCEPT !.saw = "pending"]
    /\ Turn("save")
    /\ Quiet /\ UNCHANGED <<recordFile, todo, straggler, outcome, executed, unknown>>

\* The run is looked at again; one of another device is left alone.
Mine(r) ==
    \/ table[r].executor = ThisDevice
    \/ table[r].executor = Nobody /\ table[r].status \in {"pending", "cancelled"}

Looked ==
    LET r == record[importing.of].backend IN
    /\ agent = "look"
    /\ IF Mine(r)
       THEN Turn("save") /\ importing' = [importing EXCEPT !.saw = table[r].status]
       ELSE Continue
    /\ Quiet /\ UNCHANGED <<table, record, recordFile, todo, straggler, localHistory>>

\* The identity is on disk before anything else is asked of the server.
Saved ==
    /\ agent = "save"
    /\ recordFile' = record
    /\ Turn(IF importing.saw = "pending" THEN "claim" ELSE "log")
    /\ Quiet /\ UNCHANGED <<table, record, importing, todo, straggler, localHistory>>

NotSaved ==
    /\ agent = "save" /\ Continue
    /\ Quiet /\ UNCHANGED <<table, record, recordFile, todo, straggler, localHistory>>

Claimed ==
    /\ agent = "claim"
    /\ Backend!Claim(record[importing.of].backend, ThisDevice)
    /\ importing' = [importing EXCEPT !.saw = "running"]
    /\ Turn("log")
    /\ Quiet /\ UNCHANGED <<record, recordFile, todo, straggler, localHistory>>

\* A failed upload does not keep the outcome from being reported.
LogTried(delivered) ==
    /\ agent = "log" /\ Turn("finish")
    /\ importing' = [importing EXCEPT !.logs = delivered]
    /\ Quiet /\ UNCHANGED <<table, record, recordFile, todo, straggler, localHistory>>

MarkSynced ==
    IF importing.logs
    THEN record' = [record EXCEPT ![importing.of].synced = TRUE] /\ SaveRecords
    ELSE UNCHANGED <<record, recordFile>>

\* update_run_status accepts the outcome of the device that is running the run.
Accepted(r) == table[r].executor = ThisDevice /\ table[r].status = "running"

Finished ==
    LET r == record[importing.of].backend IN
    /\ agent = "finish" /\ importing.saw = "running"
    /\ Accepted(r) /\ Backend!Finish(r, record[importing.of].status)
    /\ MarkSynced /\ Continue
    /\ Quiet /\ UNCHANGED <<todo, straggler, localHistory>>

\* MUTANT of AlreadyEnded: whatever the run was.
AlreadyEnded_Any ==
    /\ agent = "finish"
    /\ MarkSynced /\ Continue
    /\ Quiet /\ UNCHANGED <<table, todo, straggler, localHistory>>

AlreadyEnded ==
    /\ agent = "finish" /\ importing.saw # "running"
    /\ MarkSynced /\ Continue
    /\ Quiet /\ UNCHANGED <<table, todo, straggler, localHistory>>

\* A request fails, is refused, or is given up and may be processed later.
Asked == CASE agent \in {"create", "insert"} ->
                 {[kind |-> agent, of |-> importing.of, run |-> Nobody]}
           [] agent = "claim"  -> {[kind |-> "claim", of |-> Nobody,
                                    run |-> record[importing.of].backend]}
           [] agent = "finish" -> {[kind |-> "finish", of |-> importing.of,
                                    run |-> record[importing.of].backend]}
           [] agent = "look"   -> {}

RequestFails ==
    /\ \/ agent \in {"create", "insert", "look", "claim"}
       \/ agent = "finish" /\ importing.saw = "running"
    /\ straggler' \in {straggler, straggler \cup Asked}
    /\ Continue
    /\ Quiet /\ UNCHANGED <<table, record, recordFile, todo, localHistory>>

-----------------------------------------------------------------------------
(* The server, its other users, and crashes *)

Arrives(m) ==
    /\ m \in straggler
    /\ \/ /\ m.kind = "create" /\ Admits
          /\ straggler' = (straggler \ {m}) \cup {[m EXCEPT !.kind = "insert"]}
          /\ UNCHANGED <<importOf, unknown>>
       \/ /\ straggler' = straggler \ {m}
          /\ \/ /\ m.kind = "insert"
                /\ \E r \in BackendRun : /\ Backend!Create(r, Nobody)
                                        /\ importOf' = [importOf EXCEPT ![r] = m.of]
                /\ unknown' = unknown \cup {m.of}
             \/ /\ m.kind = "claim" /\ Backend!Claim(m.run, ThisDevice)
                /\ UNCHANGED <<importOf, unknown>>
             \/ /\ m.kind = "finish" /\ Accepted(m.run) /\ Backend!Finish(m.run, outcome[m.of])
                /\ UNCHANGED <<importOf, unknown>>
             \/ UNCHANGED <<table, importOf, unknown>>
    /\ UNCHANGED <<record, recordFile, process, starter, agent, importing, todo, outcome,
                   executed>>

\* The user's other device executes what is pending.
OtherExecutes(r) ==
    /\ Backend!Claim(r, OtherDevice) /\ executed' = executed \cup {r}
    /\ UNCHANGED <<record, recordFile, process, starter, agent, importing, todo, straggler,
                   importOf, outcome, unknown>>

ExecutionEnds(r) ==
    /\ r \in executed
    /\ \E o \in Ended : Backend!Finish(r, o)
    /\ UNCHANGED <<record, recordFile, process, starter, agent, importing, todo, straggler,
                   localHistory>>

\* Users ask for runs, which execute_script had admitted earlier, and cancel them;
\* execute_script cancels a run that it had found pending, and the watchdog fails one
\* that it had found running, whatever they have become since.
UserActs(r) ==
    /\ \/ Backend!Create(r, Nobody)
       \/ Backend!Cancel({r})
       \/ Backend!Override({r}, "cancelled")
       \/ table[r].executor # Nobody /\ Backend!Override({r}, "failed")
    /\ UNCHANGED <<record, recordFile, process, starter, agent, importing, todo, straggler,
                   localHistory>>

Crashes == agent # "down" /\ Dies

Restarts ==
    /\ agent = "down" /\ Turn("check") /\ record' = recordFile
    /\ Quiet /\ UNCHANGED <<table, recordFile, importing, todo, straggler, localHistory>>

-----------------------------------------------------------------------------

Sync ==
    \/ SyncBegins \/ SyncSkipped \/ SyncNext \/ SyncDone
    \/ Admitted \/ \E r \in BackendRun : Created(r)
    \/ Looked \/ Saved \/ NotSaved \/ Claimed \/ \E delivered \in BOOLEAN : LogTried(delivered)
    \/ Finished \/ AlreadyEnded \/ RequestFails

Check == CheckTorn \/ CheckRunning \/ \E o \in Ended : CheckEnded(o)

LocalNext ==
    \/ \E l \in LocalRun : StartProcess(l)
    \/ StartInfo \/ StartRecord \/ Check \/ PollSkips \/ Sync
    \/ \E r \in BackendRun : \/ PollExecutes(r) \/ OtherExecutes(r)
                             \/ ExecutionEnds(r) \/ UserActs(r)
    \/ \E m \in straggler : Arrives(m)
    \/ Crashes \/ Restarts

LocalSpec == LocalInit /\ [][LocalNext]_localVars

-----------------------------------------------------------------------------
(* Properties *)

Imports(l) == {r \in BackendRun : importOf[r] = l}

(* A local run is imported once, whatever is lost after its run was created       *)
(* (_sync_local_runs_locked resumes at the identity it has saved), unless the     *)
(* answer that names the run never reached the disk.                              *)
ImportedOnce ==
    \A l \in LocalRun \ unknown :
        /\ Cardinality(Imports(l)) <= 1
        /\ record[l].backend # Nobody => Imports(l) = {record[l].backend}

(* This device does not execute an import that it knows ("must be resumed by the  *)
(* sync path, never executed"), in any state of the import and after restarts.    *)
KnownImportNotExecuted ==
    \A l \in LocalRun \ unknown : \A r \in Imports(l) \cap executed :
        table[r].executor = OtherDevice

(* A record that counts as synchronised has a run that has ended, with the        *)
(* outcome of the local run, by a cancellation or by the watchdog, although the   *)
(* outcome may have been reported on an earlier attempt, or by a late request.    *)
SyncedHasEnded ==
    \A l \in LocalRun : record[l].synced =>
        LET r == record[l].backend IN
        /\ r # Nobody
        /\ table[r].status \in {record[l].status, "failed", "cancelled"}

=============================================================================
