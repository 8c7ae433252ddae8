----------------------------- MODULE ReleaseCache -----------------------------
(***************************************************************************)
(* The server's cache of client releases.  Uploads from the LAN and the     *)
(* thread that watches GitHub publish into it, one at a time under          *)
(* _PUBLISH_LOCK: the version's directory is moved aside, the new one is    *)
(* moved in, the index is rewritten with the versions to be kept, and what  *)
(* is no longer in it is deleted.  Anonymous readers follow the index at    *)
(* any moment.  A step may fail, and the server may die between two steps.  *)
(***************************************************************************)
EXTENDS Naturals, Sequences, FiniteSets

CONSTANTS Releases,    \* versions, by their order
          Builds,      \* what the files of a version may be
          Beta,        \* the versions whose signed manifest says "beta"
          Flagged,     \* the versions that GitHub lists as prereleases
          Retention,   \* RELEASE_CACHE_RETENTION
          MaxBroken    \* bound: the server dies while fewer versions are left broken

ASSUME ReleaseAssumption ==
    /\ Releases \subseteq Nat \ {0}
    /\ Beta \subseteq Releases /\ Flagged \subseteq Releases
    /\ Retention \in Nat \ {0} /\ MaxBroken \in Nat
    /\ Builds \cap {"absent", "torn"} = {}

VARIABLES shelf,      \* the directory of each version
          backup,     \* .old-<version>-<pid>
          listed,     \* the index: the channels each version is published in
          doing,      \* the step of the publication that has the lock
          work,       \* the publication
          doomed,     \* the directories it has yet to delete
          cycle,      \* what the downloader has yet to publish in this cycle
          good,       \* the last build published of each listed version (history)
          interrupted \* the versions the server died publishing (history)

releaseVars == <<shelf, backup, listed, doing, work, doomed, cycle, good, interrupted>>
onDisk == <<shelf, backup, listed>>
history == <<good, interrupted>>

Channels == {"stable", "beta"}
Publication == [version : Releases, build : Builds, channel : Channels, aside : BOOLEAN]

\* A prerelease is never listed as stable.
ReleaseTypeOK ==
    /\ shelf \in [Releases -> Builds \cup {"absent", "torn"}]
    /\ backup \in [Releases -> Builds \cup {"absent", "torn"}]
    /\ listed \in [Releases -> SUBSET Channels] /\ \A v \in Beta : "stable" \notin listed[v]
    /\ doing \in {"nothing", "assemble", "move in", "index", "prune", "drop", "undo"}
    /\ IF doing = "nothing" THEN work = "nothing" ELSE work \in Publication
    /\ doomed \subseteq Releases
    /\ cycle \in Seq([version : Releases, channel : Channels])
    /\ good \in [Releases -> Builds \cup {"absent"}]
    /\ interrupted \subseteq Releases

ReleaseInit ==
    /\ shelf = [v \in Releases |-> "absent"] /\ backup = shelf /\ good = shelf
    /\ listed = [v \in Releases |-> {}]
    /\ doing = "nothing" /\ work = "nothing" /\ doomed = {} /\ cycle = <<>>
    /\ interrupted = {}

-----------------------------------------------------------------------------
(* The index *)

ManifestChannel(v) == IF v \in Beta THEN "beta" ELSE "stable"

NewestOf(n, S) == {v \in S : Cardinality({u \in S : u > v}) < n}

In(index, c) == {v \in Releases : c \in index[v]}

\* latest_version: the newest that is listed in the channel.
Latest(c) == NewestOf(1, In(listed, c))

\* MUTANT of Retained: the newest versions are kept, whatever their channel.
Retained_Newest(index) == NewestOf(Retention, {v \in Releases : index[v] # {}})

\* _prune: the newest of each channel, then the newest.
Retained(index) ==
    LET candidates == {v \in Releases : index[v] # {}}
        required == NewestOf(Retention, UNION {NewestOf(1, In(index, c)) : c \in Channels})
    IN  required \cup NewestOf(Retention - Cardinality(required), candidates \ required)

-----------------------------------------------------------------------------
(* Who publishes *)

\* sync_bundle: validate_bundle, publish.
Uploads(v, b) ==
    /\ doing = "nothing" /\ doing' = "assemble"
    /\ work' = [version |-> v, build |-> b, channel |-> ManifestChannel(v),
                aside |-> FALSE]
    /\ UNCHANGED <<onDisk, doomed, cycle, history>>

InChannel(S, c) == {<<[version |-> v, channel |-> c]>> : v \in NewestOf(1, S)}

\* _select_releases: the newest that is no prerelease, and the newest.
Selected(released) ==
    {s \o b : s \in InChannel(released \ Flagged, "stable") \cup
                     (IF released \subseteq Flagged THEN {<<>>} ELSE {}),
             b \in InChannel(released, "beta")}

\* run_server_update_cycle, with what is on GitHub by then.
CycleBegins ==
    /\ cycle = <<>> /\ \E released \in SUBSET Releases : cycle' \in Selected(released)
    /\ UNCHANGED <<onDisk, doing, work, doomed, history>>

\* MUTANT of ManifestFits: the channel of the manifest is not looked at.
ManifestFits_Any(p) == TRUE

\* _cache_release, _validate_staged: no beta manifest for stable.
ManifestFits(p) == p.channel = "stable" => ManifestChannel(p.version) = "stable"

\* _cache_release: it is downloaded, validated and published.
Downloads(b) ==
    /\ doing = "nothing" /\ cycle # <<>> /\ ManifestFits(Head(cycle))
    /\ doing' = "assemble" /\ cycle' = Tail(cycle)
    /\ work' = [version |-> Head(cycle).version, build |-> b, channel |-> Head(cycle).channel,
                aside |-> FALSE]
    /\ UNCHANGED <<onDisk, doomed, history>>

\* A failure of one channel is logged.
DownloadFails ==
    /\ cycle # <<>> /\ cycle' = Tail(cycle)
    /\ UNCHANGED <<onDisk, doing, work, doomed, history>>

-----------------------------------------------------------------------------
(* publish *)

Steps(from, to) ==
    /\ doing = from /\ doing' = to
    /\ work' = IF to = "nothing" THEN "nothing" ELSE work
    /\ UNCHANGED <<cycle>>

\* The files are copied together, the directory that is there is moved aside.
MovesAside ==
    /\ doing = "assemble" /\ doing' = "move in"
    /\ work' = [work EXCEPT !.aside = shelf[work.version] # "absent"]
    /\ IF work'.aside THEN backup' = [backup EXCEPT ![work.version] = shelf[work.version]]
       ELSE UNCHANGED backup
    /\ shelf' = [shelf EXCEPT ![work.version] = "absent"]
    /\ UNCHANGED <<listed, doomed, cycle, history>>

\* Before anything is moved.
AssemblyFails ==
    /\ Steps("assemble", "nothing")
    /\ UNCHANGED <<onDisk, doomed, history>>

MovesIn ==
    /\ Steps("move in", "index")
    /\ shelf' = [shelf EXCEPT ![work.version] = work.build]
    /\ UNCHANGED <<backup, listed, doomed, history>>

\* read_index, _prune, _write_index.  The index is readable: it is replaced atomically.
WritesIndex ==
    /\ Steps("index", "prune")
    /\ LET index == [listed EXCEPT ![work.version] = @ \cup {work.channel}]
           kept == Retained(index)
       IN  /\ listed' = [v \in Releases |-> IF v \in kept THEN index[v] ELSE {}]
           /\ doomed' = {v \in Releases : index[v] # {}} \ kept
           /\ good' = [v \in Releases |-> IF v \notin kept THEN "absent"
                                          ELSE IF v = work.version THEN work.build ELSE good[v]]
    /\ UNCHANGED <<shelf, backup, interrupted>>

\* One directory that the index no longer names, file by file.
Prunes(v) ==
    /\ doing = "prune" /\ v \in doomed
    /\ shelf' \in {[shelf EXCEPT ![v] = left] : left \in {"torn", "absent"}}
    /\ doomed' = IF shelf'[v] = "absent" THEN doomed \ {v} ELSE doomed
    /\ UNCHANGED <<backup, listed, doing, work, cycle, history>>

Pruned == doomed = {} /\ Steps("prune", "drop") /\ UNCHANGED <<onDisk, doomed, history>>

\* The end of publish.
DropsBackup ==
    /\ Steps("drop", "nothing")
    /\ IF work.aside THEN backup' = [backup EXCEPT ![work.version] = "absent"]
       ELSE UNCHANGED backup
    /\ interrupted' = interrupted \ {work.version}
    /\ UNCHANGED <<shelf, listed, doomed, good>>

\* The second rename, or the index, fails ...
PublishFails ==
    /\ \/ Steps("move in", "undo")
       \/ Steps("index", "undo")
    /\ UNCHANGED <<onDisk, doomed, history>>

\* ... what was moved in is deleted ...
Undoes ==
    /\ doing = "undo" /\ shelf[work.version] # "absent"
    /\ shelf' \in {[shelf EXCEPT ![work.version] = left] : left \in {"torn", "absent"}}
    /\ UNCHANGED <<backup, listed, doing, work, doomed, cycle, history>>

\* MUTANT of Restores: the directory that was moved aside is left there.
Restores_Nothing ==
    /\ Steps("undo", "nothing") /\ shelf[work.version] = "absent"
    /\ UNCHANGED <<onDisk, doomed, history>>

\* ... and what was moved aside comes back.
Restores ==
    /\ Steps("undo", "nothing") /\ shelf[work.version] = "absent"
    /\ IF work.aside
       THEN /\ shelf' = [shelf EXCEPT ![work.version] = backup[work.version]]
            /\ backup' = [backup EXCEPT ![work.version] = "absent"]
       ELSE UNCHANGED <<shelf, backup>>
    /\ UNCHANGED <<listed, doomed, history>>

\* The server dies; what it was publishing or deleting stays as it is.
ServerDies ==
    /\ doing # "nothing" \/ cycle # <<>>
    /\ interrupted' = interrupted \cup doomed \cup
                      (IF doing = "nothing" THEN {} ELSE {work.version})
    /\ Cardinality(interrupted) < MaxBroken
    /\ doing' = "nothing" /\ work' = "nothing" /\ doomed' = {} /\ cycle' = <<>>
    /\ UNCHANGED <<onDisk, good>>

-----------------------------------------------------------------------------

ReleaseNext ==
    \/ \E v \in Releases : Prunes(v) \/ \E b \in Builds : Uploads(v, b)
    \/ CycleBegins \/ DownloadFails \/ \E b \in Builds : Downloads(b)
    \/ MovesAside \/ AssemblyFails \/ MovesIn \/ WritesIndex \/ Pruned \/ DropsBackup
    \/ PublishFails \/ Undoes \/ Restores \/ ServerDies

ReleaseSpec == ReleaseInit /\ [][ReleaseNext]_releaseVars

-----------------------------------------------------------------------------
(* Properties *)

UnderWay(v) == doing # "nothing" /\ (v = work.version \/ v \in doomed)

(* What a client is sent to by the index is the last build that was published of  *)
(* that version, complete, also after a publication that failed at any step, and  *)
(* while another version is being published or deleted; what the index does not   *)
(* name is gone.  A version that is being published, or that the server died      *)
(* publishing and that was not published since, is excepted (publish, _prune).    *)
IndexedIsServed ==
    \A v \in Releases : UnderWay(v) \/ v \in interrupted \/ shelf[v] = good[v]

(* The newest version of a channel, which clients are offered as an update, is    *)
(* never replaced by an older one or by none, whatever is uploaded, downloaded,   *)
(* pruned or fails - when the limit leaves a place for each channel (_prune,      *)
(* latest_version).                                                               *)
ChannelNeverGoesBack ==
    [][Retention > 1 =>
         \A c \in Channels : \A v \in Latest(c) : \E u \in Latest(c)' : u >= v]_releaseVars

=============================================================================
