----------------------------- MODULE ScriptLibrary -----------------------------
(***************************************************************************)
(* A script on the server: its revisions, in the database and on disk, the  *)
(* groups that may use it, the runs created with it, its deletion, and the  *)
(* snapshot of its authorization that a client keeps for offline use.       *)
(* A handler that reads and then writes is several actions; whoever wrote   *)
(* something holds the database's write lock until it commits.              *)
(***************************************************************************)
EXTENDS Naturals

CONSTANTS Uploader,     \* the developers; what one uploads is called by its name
          Creator,      \* the handlers that create runs
          Deleter,      \* the handler that deletes
          Attempt,      \* the runs
          Group,
          Nobody,
          MaxRevision,  \* bound
          MaxAge        \* SCRIPT_AUTHORIZATION_MAX_AGE_SEC, in ticks

ASSUME LibraryAssumption ==
    /\ Nobody \notin Uploader \cup Creator \cup {Deleter} /\ Deleter \notin Creator
    /\ MaxRevision \in Nat \ {0} /\ MaxAge \in Nat

VARIABLES row,          \* the script's row
          stored,       \* storage/scripts/<id>/<revision>
          uploading,    \* upload_version, per developer
          creating,     \* run creation, per handler
          deleting,     \* delete_script
          writer,       \* who holds the write lock
          created,      \* the rows of the runs
          access,       \* the script's groups, the user's groups, the active groups
          snapshot,     \* script_authorizations.json of the user's client
          since,        \* ticks since the server last allowed it (history)
          overlapped    \* two uploads were in progress at once (history)

libraryVars == <<row, stored, uploading, creating, deleting, writer, created, access,
                 snapshot, since, overlapped>>
uploads == <<stored, uploading, overlapped>>
runs == <<creating, deleting, created>>
clientSide == <<snapshot, since>>

Revision == 1..MaxRevision
Content == Uploader \cup {Nobody}

LibraryTypeOK ==
    /\ row \in [latest : 0..MaxRevision, content : Content, active : BOOLEAN, deleted : BOOLEAN]
    /\ stored \in [Revision -> Content]
    /\ uploading \in [Uploader -> [at : {"idle", "read", "stored"}, revision : 0..MaxRevision]]
    /\ creating \in [Creator -> {"idle", "checked", "locked"}]
    /\ deleting \in {"idle", "locked"}
    /\ writer \in Creator \cup {Deleter, Nobody}
    /\ created \in [Attempt -> [status : {"unused", "active", "ended"},
                                revision : 0..MaxRevision, content : Content]]
    /\ access \in [script : SUBSET Group, user : SUBSET Group, active : SUBSET Group]
    /\ snapshot \in [allowed : BOOLEAN, age : 0..MaxAge + 1]
    /\ since \in 0..MaxAge + 1 /\ overlapped \in BOOLEAN

IdleUpload == [at |-> "idle", revision |-> 0]

LibraryInit ==
    /\ row = [latest |-> 0, content |-> Nobody, active |-> TRUE, deleted |-> FALSE]
    /\ stored = [v \in Revision |-> Nobody]
    /\ uploading = [u \in Uploader |-> IdleUpload]
    /\ creating = [c \in Creator |-> "idle"] /\ deleting = "idle" /\ writer = Nobody
    /\ created = [a \in Attempt |-> [status |-> "unused", revision |-> 0, content |-> Nobody]]
    /\ access \in [script : {{}}, user : SUBSET Group, active : {Group}]
    /\ snapshot = [allowed |-> FALSE, age |-> 0]
    /\ since = MaxAge + 1 /\ overlapped = FALSE

-----------------------------------------------------------------------------
(* Who may use it *)

\* get_manageable_script_or_404: the developers are admins here.
Present == row.latest > 0 /\ ~row.deleted

\* get_accessible_script_or_404, require_active: one active group in common.
Accessible == /\ Present /\ row.active
              /\ access.script \cap access.user \cap access.active # {}

Unlocked == writer = Nobody

Grants(new) ==
    /\ Unlocked /\ access' = new
    /\ UNCHANGED <<row, uploads, runs, writer, clientSide>>

\* update_script_groups: assignable_groups are active.
UpdatesScriptGroups(S) ==
    Present /\ S \subseteq access.active /\ Grants([access EXCEPT !.script = S])

\* set_user_groups
UpdatesUserGroups(S) == S \subseteq access.active /\ Grants([access EXCEPT !.user = S])

\* update_group
UpdatesGroup(g) ==
    Grants([access EXCEPT !.active = IF g \in @ THEN @ \ {g} ELSE @ \cup {g}])

\* disable_script, enable_script
Switches ==
    /\ Present /\ Unlocked /\ row' = [row EXCEPT !.active = ~@]
    /\ UNCHANGED <<uploads, runs, writer, access, clientSide>>

-----------------------------------------------------------------------------
(* upload_script, upload_version, save_script_file *)

\* The first upload: nobody knows the script before it is committed.
UploadsScript(u, S) ==
    /\ row.latest = 0 /\ Unlocked /\ S \subseteq access.active
    /\ row' = [row EXCEPT !.latest = 1, !.content = u]
    /\ stored' = [stored EXCEPT ![1] = u]
    /\ access' = [access EXCEPT !.script = S]
    /\ UNCHANGED <<uploading, overlapped, runs, writer, clientSide>>

\* new_version = latest_version + 1 ...
UploadBegins(u) ==
    /\ uploading[u].at = "idle" /\ Present /\ row.latest < MaxRevision
    /\ uploading' = [uploading EXCEPT ![u] = [at |-> "read", revision |-> row.latest + 1]]
    /\ overlapped' = (overlapped \/ \E w \in Uploader : uploading[w].at # "idle")
    /\ UNCHANGED <<row, stored, runs, writer, access, clientSide>>

\* MUTANT of UploadStores: the files of the latest revision are replaced.
UploadStores_Latest(u) ==
    /\ uploading[u].at = "read"
    /\ uploading' = [uploading EXCEPT ![u].at = "stored"]
    /\ stored' = [stored EXCEPT ![row.latest] = u]
    /\ UNCHANGED <<row, overlapped, runs, writer, access, clientSide>>

\* ... whose directory is replaced ...
UploadStores(u) ==
    /\ uploading[u].at = "read"
    /\ uploading' = [uploading EXCEPT ![u].at = "stored"]
    /\ stored' = [stored EXCEPT ![uploading[u].revision] = u]
    /\ UNCHANGED <<row, overlapped, runs, writer, access, clientSide>>

\* ... and which is committed, whatever happened to the script since.
UploadCommits(u) ==
    /\ uploading[u].at = "stored" /\ Unlocked
    /\ row' = [row EXCEPT !.latest = uploading[u].revision, !.content = u]
    /\ uploading' = [uploading EXCEPT ![u] = IdleUpload]
    /\ UNCHANGED <<stored, overlapped, runs, writer, access, clientSide>>

\* The files stay.
UploadFails(u) ==
    /\ uploading[u].at # "idle"
    /\ uploading' = [uploading EXCEPT ![u] = IdleUpload]
    /\ UNCHANGED <<row, stored, overlapped, runs, writer, access, clientSide>>

-----------------------------------------------------------------------------
(* create_validated_run, delete_script: under lock_script_for_lifecycle *)

\* execute_script fails fast.
CreationBegins(c) ==
    /\ creating[c] = "idle" /\ Accessible
    /\ creating' = [creating EXCEPT ![c] = "checked"]
    /\ UNCHANGED <<row, uploads, deleting, created, writer, access, clientSide>>

CreationLocks(c) ==
    /\ creating[c] = "checked" /\ Unlocked /\ writer' = c
    /\ creating' = [creating EXCEPT ![c] = "locked"]
    /\ UNCHANGED <<row, uploads, deleting, created, access, clientSide>>

\* MUTANT of Creates: the script is not read again under the lock.
Creates_Unchecked(c, a) ==
    /\ creating[c] = "locked" /\ created[a].status = "unused"
    /\ created' = [created EXCEPT ![a] = [status |-> "active", revision |-> row.latest,
                                          content |-> stored[row.latest]]]
    /\ creating' = [creating EXCEPT ![c] = "idle"] /\ writer' = Nobody
    /\ UNCHANGED <<row, uploads, deleting, access, clientSide>>

\* validate_run_request reads the script again; the run gets its latest revision.
Creates(c, a) ==
    /\ creating[c] = "locked" /\ Accessible /\ created[a].status = "unused"
    /\ created' = [created EXCEPT ![a] = [status |-> "active", revision |-> row.latest,
                                          content |-> stored[row.latest]]]
    /\ creating' = [creating EXCEPT ![c] = "idle"] /\ writer' = Nobody
    /\ UNCHANGED <<row, uploads, deleting, access, clientSide>>

CreationRefused(c) ==
    /\ creating[c] = "locked" /\ ~Accessible
    /\ creating' = [creating EXCEPT ![c] = "idle"] /\ writer' = Nobody
    /\ UNCHANGED <<row, uploads, deleting, created, access, clientSide>>

\* The run was claimed and reported, or cancelled.
AttemptEnds(a) ==
    /\ created[a].status = "active" /\ Unlocked
    /\ created' = [created EXCEPT ![a].status = "ended"]
    /\ UNCHANGED <<row, uploads, creating, deleting, writer, access, clientSide>>

DeletionLocks ==
    /\ row.latest > 0 /\ deleting = "idle" /\ Unlocked
    /\ deleting' = "locked" /\ writer' = Deleter
    /\ UNCHANGED <<row, uploads, creating, created, access, clientSide>>

Active == {a \in Attempt : created[a].status = "active"}

\* The tombstone, unless a run is pending or running.
Deletes ==
    /\ deleting = "locked" /\ deleting' = "idle" /\ writer' = Nobody
    /\ row' = [row EXCEPT !.deleted = @ \/ Active = {}]
    /\ UNCHANGED <<uploads, creating, created, access, clientSide>>

-----------------------------------------------------------------------------
(* The client, offline *)

\* _sync_script_authorizations
Syncs ==
    /\ snapshot' = [allowed |-> Accessible, age |-> 0]
    /\ since' = IF Accessible THEN 0 ELSE since
    /\ UNCHANGED <<row, uploads, runs, writer, access>>

\* _invalidate_script_authorizations: the server answered 401 or 403.
Invalidates ==
    /\ snapshot' = [allowed |-> FALSE, age |-> 0]
    /\ UNCHANGED <<row, uploads, runs, writer, access, since>>

AddTick(n) == IF n <= MaxAge THEN n + 1 ELSE n

TimePasses ==
    /\ snapshot' = [snapshot EXCEPT !.age = AddTick(@)]
    /\ since' = IF Accessible THEN 0 ELSE AddTick(since)
    /\ UNCHANGED <<row, uploads, runs, writer, access>>

\* MUTANT of MayStartOffline: the age of the snapshot is not looked at.
MayStartOffline_AnyAge == snapshot.allowed

\* _load_authorized_script_ids
MayStartOffline == snapshot.allowed /\ snapshot.age <= MaxAge

-----------------------------------------------------------------------------

LibraryNext ==
    \/ \E S \in SUBSET Group : UpdatesScriptGroups(S) \/ UpdatesUserGroups(S)
    \/ \E g \in Group : UpdatesGroup(g)
    \/ Switches
    \/ \E u \in Uploader : \/ \E S \in SUBSET Group : UploadsScript(u, S)
                           \/ UploadBegins(u) \/ UploadStores(u) \/ UploadCommits(u)
                           \/ UploadFails(u)
    \/ \E c \in Creator : \/ CreationBegins(c) \/ CreationLocks(c) \/ CreationRefused(c)
                          \/ \E a \in Attempt : Creates(c, a)
    \/ \E a \in Attempt : AttemptEnds(a)
    \/ DeletionLocks \/ Deletes \/ Syncs \/ Invalidates \/ TimePasses

LibrarySpec == LibraryInit /\ [][LibraryNext]_libraryVars

-----------------------------------------------------------------------------
(* Properties *)

(* No run that is pending or running belongs to a deleted script, in whatever     *)
(* order its creation and the deletion check, lock and commit (delete_script,     *)
(* create_validated_run, lock_script_for_lifecycle).                              *)
DeletedScriptHasNoActiveRun == row.deleted => Active = {}

(* The files of a revision that a run was created with are not replaced by a      *)
(* later upload, and the latest revision's files are those that its configuration *)
(* was read from, also after an upload that failed half-way - as long as no two   *)
(* developers upload at once (upload_version, save_script_file).                  *)
RevisionsKeepTheirFiles ==
    ~overlapped =>
        /\ row.latest > 0 => stored[row.latest] = row.content
        /\ \A a \in Attempt : created[a].status # "unused" =>
                                  stored[created[a].revision] = created[a].content

(* A client that does not reach the server lets its user start a cached script    *)
(* for a bounded time only after the server stopped allowing it: after a group    *)
(* was changed or disabled, the script disabled or deleted                        *)
(* (_load_authorized_script_ids, _sync_script_authorizations).                    *)
RevokedScriptsStop == MayStartOffline => Accessible \/ since <= MaxAge

=============================================================================
