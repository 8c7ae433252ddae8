--------------------------- MODULE VerifiedDownload ---------------------------
(***************************************************************************)
(* How the files of an update reach the device: the parts of an installer,  *)
(* or all of it, from servers that may replace a file at any time.  What    *)
(* has arrived when a transfer breaks off is kept beside the file, with     *)
(* the ETag of what it is a part of, and the next attempt asks for the      *)
(* rest.  A file counts only after its length and its hash were compared    *)
(* with the signed manifest.                                                *)
(*                                                                         *)
(* An object is a version of a file's content, told from others by its      *)
(* ETag; all of them have the same length here, so that a wrong one can     *)
(* only be told by its hash.                                                *)
(***************************************************************************)
EXTENDS Naturals

CONSTANTS Part,      \* the parts of the installer
          Complete,  \* the installer
          Object,    \* what the servers may have under a file's name
          Wanted,    \* the object that the manifest describes
          Size,      \* its length
          NoTag      \* no (strong) ETag

ASSUME DownloadAssumption ==
    /\ Wanted \in Object /\ NoTag \notin Object /\ Complete \notin Part
    /\ Size \in Nat \ {0}

VARIABLES served,    \* what is on the servers
          partial,   \* <name>.download: its length and the objects its bytes are from;
                     \* and <name>.download.etag
          kept,      \* the objects the bytes of the file itself are from
          fetch      \* the transfer under way

downloadVars == <<served, partial, kept, fetch>>

File == Part \cup {Complete}
Nothing == [size |-> 0, from |-> {}, tag |-> NoTag]
NoFetch == [file |-> Complete, at |-> "idle", offset |-> 0, body |-> Wanted]

\* A file that is in its place is always what the manifest describes.
DownloadTypeOK ==
    /\ served \in [File -> Object]
    /\ partial \in [File -> [size : Nat, from : SUBSET Object, tag : Object \cup {NoTag}]]
    /\ kept \in [File -> {{}, {Wanted}}]
    /\ fetch \in [file : File, at : {"idle", "asked", "body"}, offset : Nat, body : Object]

DownloadInit ==
    /\ served \in [File -> Object]
    /\ partial = [f \in File |-> Nothing] /\ kept = [f \in File |-> {}]
    /\ fetch = NoFetch

ServerReplaces(f, o) ==
    /\ served[f] # o /\ served' = [served EXCEPT ![f] = o]
    /\ UNCHANGED <<partial, kept, fetch>>

-----------------------------------------------------------------------------
(* download_verified_file *)

\* _resume_offset; what cannot be resumed is removed.
Resumable(p) == p.size > 0 /\ p.size < Size /\ p.tag # NoTag

\* A part that is there and valid is not fetched again.
Asks(f) ==
    /\ fetch.at = "idle"
    /\ f \in Part => kept[f] # {Wanted}
    /\ LET p == IF Resumable(partial[f]) THEN partial[f] ELSE Nothing IN
          /\ partial' = [partial EXCEPT ![f] = p]
          /\ fetch' = [NoFetch EXCEPT !.file = f, !.at = "asked", !.offset = p.size]
    /\ UNCHANGED <<served, kept>>

Here == fetch.file

\* MUTANT of PartFollows: any partial answer is appended.
PartFollows_AnyTag(tag) ==
    /\ fetch.at = "asked" /\ fetch.offset > 0
    /\ partial' = [partial EXCEPT ![Here].tag = tag]
    /\ fetch' = [fetch EXCEPT !.at = "body", !.body = served[Here]]
    /\ UNCHANGED <<served, kept>>

\* A partial answer (206) with the ETag of what is there is appended to it ...
PartFollows(tag) ==
    /\ fetch.at = "asked" /\ fetch.offset > 0
    /\ tag = partial[Here].tag /\ tag = served[Here]
    /\ partial' = [partial EXCEPT ![Here].tag = tag]
    /\ fetch' = [fetch EXCEPT !.at = "body", !.body = served[Here]]
    /\ UNCHANGED <<served, kept>>

\* ... a complete one (200) replaces it ...
AllFollows(tag) ==
    /\ fetch.at = "asked" /\ tag \in {served[Here], NoTag}
    /\ partial' = [partial EXCEPT ![Here] = [Nothing EXCEPT !.tag = tag]]
    /\ fetch' = [fetch EXCEPT !.at = "body", !.body = served[Here]]
    /\ UNCHANGED <<served, kept>>

\* ... and after any other answer to a resumption nothing is kept; when no answer
\* comes what could be resumed still can.
NoAnswer ==
    /\ fetch.at = "asked"
    /\ partial' \in {partial, [partial EXCEPT ![Here] = Nothing]}
    /\ fetch' = NoFetch
    /\ UNCHANGED <<served, kept>>

\* A server may also send more than it should.
Bytes ==
    /\ fetch.at = "body" /\ partial[Here].size <= Size
    /\ partial' = [partial EXCEPT ![Here].size = @ + 1, ![Here].from = @ \cup {fetch.body}]
    /\ UNCHANGED <<served, kept, fetch>>

\* MUTANT of Verified: only the length is compared.
Verified_LengthOnly == partial[Here].size = Size

Verified == partial[Here].size = Size /\ partial[Here].from = {Wanted}

\* The file replaces what was under its name; its ETag is removed after that.
Completed ==
    /\ fetch.at = "body" /\ Verified
    /\ kept' = [kept EXCEPT ![Here] = partial[Here].from]
    /\ partial' \in {[partial EXCEPT ![Here] = Nothing],
                     [partial EXCEPT ![Here] = [Nothing EXCEPT !.tag = partial[Here].tag]]}
    /\ fetch' = NoFetch
    /\ UNCHANGED served

\* The transfer breaks off, or what has arrived is wrong; a part that can be
\* resumed is kept.
BreaksOff ==
    /\ fetch.at = "body" /\ ~Verified
    /\ partial' = [partial EXCEPT ![Here] = IF Resumable(@) THEN @ ELSE Nothing]
    /\ fetch' = NoFetch
    /\ UNCHANGED <<served, kept>>

\* The client dies: nothing is tidied up.
DownloadCut ==
    /\ fetch.at # "idle" /\ fetch' = NoFetch
    /\ UNCHANGED <<served, partial, kept>>

-----------------------------------------------------------------------------
(* _download_parts: when every part is there they are put together, and the
   result replaces the installer if it is what the manifest says. *)

Merges ==
    /\ fetch.at = "idle" /\ \A f \in Part : kept[f] # {}
    /\ (UNION {kept[f] : f \in Part}) = {Wanted}
    /\ kept' = [kept EXCEPT ![Complete] = {Wanted}]
    /\ UNCHANGED <<served, partial, fetch>>

-----------------------------------------------------------------------------

DownloadNext ==
    \/ \E f \in File : Asks(f) \/ \E o \in Object : ServerReplaces(f, o)
    \/ \E tag \in Object \cup {NoTag} : PartFollows(tag) \/ AllFollows(tag)
    \/ NoAnswer \/ Bytes \/ Completed \/ BreaksOff \/ DownloadCut \/ Merges

DownloadSpec == DownloadInit /\ [][DownloadNext]_downloadVars

-----------------------------------------------------------------------------
(* Properties *)

(* What is kept of a transfer that broke off is a part of the one object that its *)
(* ETag names, although servers replace files between two attempts and the client *)
(* may die at any moment (download_verified_file).                                *)
PartialIsOneObject ==
    \A f \in File : partial[f].tag # NoTag => partial[f].from \subseteq {partial[f].tag}

=============================================================================
