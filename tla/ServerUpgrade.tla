----------------------------- MODULE ServerUpgrade -----------------------------
(***************************************************************************)
(* How operators upgrade the server and take it back: a backup while it     *)
(* runs, the new image, its migrations, and, when it does not get ready,    *)
(* the old image and the data of the backup.  Any command may fail, and the *)
(* shell or the machine may stop between two of them.  The database is a    *)
(* file and a write-ahead log beside it (external: SQLite); the scripts are *)
(* a directory.                                                             *)
(***************************************************************************)
EXTENDS Naturals, Sequences

CONSTANT Stored    \* the scripts that may be uploaded

VARIABLES main,      \* autoscript.db
          wal,       \* autoscript.db-wal
          foreign,   \* the log was not written for this autoscript.db
          files,     \* the scripts directory
          copy,      \* the backup
          previous,  \* *.restore-previous
          envFile,   \* the image that the .env file names
          running,   \* the image of the running server
          command,   \* the command that the operator's script is at
          oldImage,  \* OLD_IMAGE, or the image that the operator rolls back to
          savedEnv,  \* the image that the saved .env file names
          byHand     \* the operator rolls back: nothing puts the .env file back

started == <<oldImage, savedEnv, byHand>>
upgradeVars == <<main, wal, foreign, files, copy, previous, envFile, running, command, started>>
live == <<main, wal, foreign, files>>

Image == {"old", "new"}
\* The rows of the scripts, and whose schema it is: "half" is a migration that stopped.
Database == [rows : SUBSET Stored, schema : Image \cup {"half"}]
NoDatabase == [rows |-> {}, schema |-> "none"]

\* What a server finds when it opens the database.
Garbled == [rows |-> {}, schema |-> "garbled"]
Visible == IF wal = NoDatabase THEN main ELSE IF foreign THEN Garbled ELSE wal

Restoring == {"database aside", "database in", "files aside", "files in"}
Command == {"none", "backup", "backup files", "pull", "recreate", "wait", "roll back",
            "start old", "wait old", "stranded"} \cup Restoring

UpgradeOpsTypeOK ==
    /\ main \in Database \cup {NoDatabase, Garbled} /\ wal \in Database \cup {NoDatabase}
    /\ foreign \in BOOLEAN /\ files \subseteq Stored
    /\ copy \in [db : Database \cup {NoDatabase}, files : SUBSET Stored, complete : BOOLEAN]
    /\ previous \in [db : Database \cup {NoDatabase, Garbled}, files : SUBSET Stored, wal : BOOLEAN]
    /\ envFile \in Image /\ running \in Image \cup {"none"}
    /\ command \in Command
    /\ oldImage \in Image /\ savedEnv \in Image /\ byHand \in BOOLEAN

UpgradeOpsInit ==
    /\ main = [rows |-> {}, schema |-> "old"] /\ wal = NoDatabase /\ foreign = FALSE
    /\ files = {} /\ copy = [db |-> NoDatabase, files |-> {}, complete |-> FALSE]
    /\ previous = [db |-> NoDatabase, files |-> {}, wal |-> FALSE]
    /\ envFile = "old" /\ running = "old" /\ command = "none"
    /\ oldImage = "old" /\ savedEnv = "old" /\ byHand = FALSE

-----------------------------------------------------------------------------
(* The server *)

\* It serves requests once its database has its own schema.
Serves == running # "none" /\ Visible.schema = running

\* save_script_file: before the row.
StoresFiles(s) ==
    /\ Serves /\ files' = files \cup {s}
    /\ UNCHANGED <<main, wal, foreign, copy, previous, envFile, running, command, started>>

Writes(db) ==
    /\ wal' = db
    /\ UNCHANGED <<main, foreign, files, copy, previous, envFile, running, command, started>>

\* upload_script commits.
CommitsRow(s) ==
    /\ Serves /\ s \in files \ Visible.rows
    /\ Writes([Visible EXCEPT !.rows = @ \cup {s}])

\* docker-entrypoint.sh: upgrade_database, revision by revision.
Migrates ==
    /\ running = "new" /\ Visible.schema \in {"old", "half"}
    /\ \E schema \in {"half", "new"} \ {Visible.schema} :
         Writes([Visible EXCEPT !.schema = schema])

\* SQLite moves the log into the file.
Checkpoints ==
    /\ running # "none" /\ wal # NoDatabase /\ ~foreign
    /\ main' = wal /\ wal' = NoDatabase
    /\ UNCHANGED <<foreign, files, copy, previous, envFile, running, command, started>>

\* compose stop: the last connection moves the log, unless the server is killed.
Stopped == \/ running # "none" /\ main' = Visible /\ wal' = NoDatabase /\ foreign' = FALSE
           \/ UNCHANGED <<main, wal, foreign>>

-----------------------------------------------------------------------------
(* remote_upgrade.py, upgrade.sh *)

Goes(from, to) == command = from /\ command' = to

\* A server is ready, whichever, also after an upgrade that was cut short or a
\* rollback by hand.  The .env file is saved as it is, and names the new image then.
UpgradeBegins ==
    /\ Serves /\ command \in {"none", "stranded"} /\ command' = "backup"
    /\ oldImage' = running /\ byHand' = FALSE
    /\ savedEnv' = envFile /\ envFile' = "new"
    /\ UNCHANGED <<live, copy, previous, running>>

\* The scripts exit (set -e): remote_upgrade.py puts the saved .env file back.
EnvPutBack == envFile' = IF byHand THEN envFile ELSE savedEnv

BackupFails ==
    /\ command \in {"backup", "backup files"} /\ command' = "none" /\ EnvPutBack
    /\ UNCHANGED <<live, copy, previous, running, started>>

\* MUTANT of BackupOrder: the scripts are archived before the database.
BackupOrder_FilesFirst == <<"files", "db">>

\* create_backup: the database first, ...
BackupOrder == <<"db", "files">>

Live == [db |-> Visible, files |-> files]

\* ... while the server goes on writing, ...
BackupStarts ==
    /\ Goes("backup", "backup files")
    /\ copy' = [[db |-> NoDatabase, files |-> {}, complete |-> FALSE]
                  EXCEPT ![BackupOrder[1]] = Live[BackupOrder[1]]]
    /\ UNCHANGED <<live, previous, envFile, running, started>>

\* ... then the scripts, and the manifest.
BackupEnds ==
    /\ Goes("backup files", "pull")
    /\ copy' = [copy EXCEPT ![BackupOrder[2]] = Live[BackupOrder[2]], !.complete = TRUE]
    /\ UNCHANGED <<live, previous, envFile, running, started>>

Pulls ==
    /\ Goes("pull", "recreate")
    /\ UNCHANGED <<live, copy, previous, envFile, running, started>>

Recreates ==
    /\ Goes("recreate", "wait") /\ running' = "new" /\ Stopped
    /\ UNCHANGED <<files, copy, previous, envFile, started>>

\* wait_ready
UpgradeIsReady ==
    /\ Serves /\ running = "new" /\ Goes("wait", "none")
    /\ UNCHANGED <<live, copy, previous, envFile, running, started>>

\* The image, the container or the readiness: all of them roll back.
UpgradeFails ==
    /\ command \in {"pull", "recreate", "wait"} /\ command' = "roll back"
    /\ UNCHANGED <<live, copy, previous, envFile, running, started>>

-----------------------------------------------------------------------------
(* rollback.sh, restore.sh, restore_backup *)

\* The operator rolls back by hand, an upgrade or what it left behind, to the image
\* that the backup was made under.
OperatorRollsBack ==
    /\ command \in {"none", "stranded"} /\ copy.db.schema \in Image
    /\ command = "none" => running # copy.db.schema
    /\ command' = "roll back" /\ oldImage' = copy.db.schema /\ byHand' = TRUE
    /\ UNCHANGED <<live, copy, previous, envFile, running, savedEnv>>

\* compose stop, restore.sh: it verifies the backup, and what an earlier one left aside is deleted.
StopsServer ==
    /\ Goes("roll back", "database aside") /\ running' = "none" /\ Stopped
    /\ previous' = [db |-> NoDatabase, files |-> {}, wal |-> FALSE]
    /\ UNCHANGED <<files, copy, envFile, started>>

MovesDatabaseAside ==
    /\ copy.complete /\ Goes("database aside", "database in")
    /\ previous' = [previous EXCEPT !.db = main, !.wal = foreign]
    /\ main' = NoDatabase
    /\ UNCHANGED <<wal, foreign, files, copy, envFile, running, started>>

\* The log stays where it is.
InstallsDatabase ==
    /\ Goes("database in", "files aside")
    /\ main' = copy.db /\ foreign' = (wal # NoDatabase)
    /\ UNCHANGED <<wal, files, copy, previous, envFile, running, started>>

MovesFilesAside ==
    /\ Goes("files aside", "files in")
    /\ previous' = [previous EXCEPT !.files = files] /\ files' = {}
    /\ UNCHANGED <<main, wal, foreign, copy, envFile, running, started>>

InstallsFiles ==
    /\ Goes("files in", "start old")
    /\ files' = copy.files
    /\ UNCHANGED <<main, wal, foreign, copy, previous, envFile, running, started>>

\* Both are put back, and the scripts exit.
RestoreFails ==
    /\ command \in Restoring /\ command' = "stranded" /\ EnvPutBack
    /\ IF command = "database aside" THEN UNCHANGED <<main, foreign>>
       ELSE main' = previous.db /\ foreign' = previous.wal
    /\ files' = IF command = "files in" THEN previous.files ELSE files
    /\ UNCHANGED <<wal, copy, previous, running, started>>

\* MUTANT of StartsOld: rollback.sh goes on when restore.sh has failed.
StartsOld_Anyway ==
    /\ command \in {"start old", "stranded"} /\ command' = "wait old" /\ running' = oldImage
    /\ UNCHANGED <<live, copy, previous, envFile, started>>

StartsOld ==
    /\ Goes("start old", "wait old") /\ running' = oldImage
    /\ UNCHANGED <<live, copy, previous, envFile, started>>

RolledBack ==
    /\ Serves /\ Goes("wait old", "none") /\ EnvPutBack
    /\ UNCHANGED <<live, copy, previous, running, started>>

\* An image is missing, compose fails, or wait_ready gives up.
RollbackFails ==
    /\ command \in {"roll back", "start old", "wait old"} /\ command' = "stranded" /\ EnvPutBack
    /\ UNCHANGED <<live, copy, previous, running, started>>

\* The shell or the machine stops.
ScriptDies ==
    /\ command \notin {"none", "stranded"} /\ command' = "stranded"
    /\ UNCHANGED <<live, copy, previous, envFile, running, started>>

-----------------------------------------------------------------------------

UpgradeOpsNext ==
    \/ \E s \in Stored : StoresFiles(s) \/ CommitsRow(s)
    \/ Migrates \/ Checkpoints
    \/ UpgradeBegins \/ BackupFails \/ BackupStarts \/ BackupEnds \/ Pulls \/ Recreates
    \/ UpgradeIsReady \/ UpgradeFails \/ OperatorRollsBack \/ StopsServer
    \/ MovesDatabaseAside \/ InstallsDatabase \/ MovesFilesAside \/ InstallsFiles
    \/ RestoreFails \/ StartsOld \/ RolledBack \/ RollbackFails \/ ScriptDies

UpgradeOpsSpec == UpgradeOpsInit /\ [][UpgradeOpsNext]_upgradeVars

-----------------------------------------------------------------------------
(* Properties *)

(* Every script that a serving server lists has its files: the backup copies the  *)
(* database first and uploads store the files first, the pair is restored         *)
(* together, and a restore that fails puts both back (create_backup,              *)
(* restore_backup, upload_script).                                                *)
ListedScriptsHaveFiles == Serves => Visible.rows \subseteq files

(* An image runs only on a database that no newer one has migrated or half         *)
(* migrated, and when the scripts are through, the database has the schema of the  *)
(* image that runs - unless the log of a killed server was left beside the restored *)
(* file.  The .env file names that image too, unless the operator rolled back by   *)
(* hand or the file named another one already when the upgrade saved it, which an  *)
(* upgrade that was cut short or a rollback by hand leaves behind (upgrade.sh,     *)
(* rollback.sh, REMOTE_SCRIPT).                                                    *)
SettledServerIsConsistent ==
    Visible # Garbled =>
        /\ running = "old" => Visible.schema = "old"
        /\ command = "none" =>
             Visible.schema = running /\ (byHand \/ savedEnv # oldImage \/ envFile = running)

(* docs/0.9-deployment-runbook.md:191, the acceptance test of the backup: new data *)
(* are gone after a restore and those of the backup are there.  Not kept: the      *)
(* write-ahead log of a server that was killed stays, and is read with the file    *)
(* that was restored.                                                              *)
RestoreBringsBackBackup == command = "start old" => Visible = copy.db

=============================================================================
