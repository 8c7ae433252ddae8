------------------------------ MODULE Thumbnails ------------------------------
(***************************************************************************)
(* The screen thumbnail of a managed device, and its owner's switch that    *)
(* pauses it.  A thread of the client captures and uploads; the main loop   *)
(* sends heartbeats that carry the switch, and one that says "paused"       *)
(* clears what the server has - unless an administrator has disabled the    *)
(* device, whose heartbeats are refused.  The upload handler looks at the   *)
(* switch, waits for the body, stores the file and commits: a heartbeat may *)
(* be handled at any moment of it, and itself loads the row before it       *)
(* writes.  Requests may be lost, and a request that the client has given   *)
(* up may still be handled.                                                 *)
(***************************************************************************)
EXTENDS FiniteSets

CONSTANT Handler       \* bound: uploads the server handles at once

VARIABLES capturePaused,   \* thumbnail_capture_paused in the device's configuration
          captures,        \* the client's thumbnail thread
          beats,           \* heartbeats and registrations on their way
          handling,        \* the upload handlers
          beating,         \* the heartbeat handler: the switch, and the row it has loaded
          enabled,         \* agents.enabled
          pausedThere,     \* agents.thumbnail_capture_paused
          imageFile,       \* THUMBNAILS_DIR/<id>.jpg exists
          stamped          \* agents.thumbnail_updated_at and _size are set

onDevice == <<capturePaused, captures>>
onServer == <<enabled, pausedThere, imageFile, stamped>>
thumbnailVars == <<onDevice, beats, handling, beating, onServer>>

Beat == [kind : {"register", "heartbeat"}, paused : BOOLEAN]

\* One heartbeat is handled at a time: bound.
Beating == [on : BOOLEAN, paused : BOOLEAN, pausedThere : BOOLEAN, stamped : BOOLEAN]
NotBeating == [on |-> FALSE, paused |-> FALSE, pausedThere |-> FALSE, stamped |-> FALSE]

ThumbnailTypeOK ==
    /\ capturePaused \in BOOLEAN
    /\ captures \in {"idle", "capture", "upload"}
    /\ beats \subseteq Beat
    /\ handling \in [Handler -> {"none", "body", "commit"}]
    /\ beating \in Beating /\ enabled \in BOOLEAN
    /\ pausedThere \in BOOLEAN /\ imageFile \in BOOLEAN /\ stamped \in BOOLEAN

ThumbnailInit ==
    /\ capturePaused \in BOOLEAN /\ pausedThere = capturePaused
    /\ captures = "idle" /\ beats = {}
    /\ handling = [h \in Handler |-> "none"]
    /\ beating = NotBeating /\ enabled = TRUE
    /\ imageFile = FALSE /\ stamped = FALSE

\* get_managed_agent_thumbnail: of a disabled device, too.
Shown == imageFile /\ stamped

-----------------------------------------------------------------------------
(* The device *)

\* set_thumbnail_capture_paused
SwitchesCapture ==
    /\ capturePaused' = ~capturePaused
    /\ UNCHANGED <<captures, beats, handling, beating, onServer>>

\* _attempt_thumbnail_upload, every 60 seconds.
CaptureBegins ==
    /\ captures = "idle" /\ ~capturePaused /\ captures' = "capture"
    /\ UNCHANGED <<capturePaused, beats, handling, beating, onServer>>

\* The switch is looked at again.
CaptureEnds ==
    /\ captures = "capture"
    /\ captures' = IF capturePaused THEN "idle" ELSE "upload"
    /\ UNCHANGED <<capturePaused, beats, handling, beating, onServer>>

\* The answer, a failure, or the desktop is locked: capture_thumbnail raises.
CaptureGivesUp ==
    /\ captures # "idle" /\ captures' = "idle"
    /\ UNCHANGED <<capturePaused, beats, handling, beating, onServer>>

\* send_heartbeat, register_agent
SendsBeat(kind) ==
    /\ beats' = beats \cup {[kind |-> kind, paused |-> capturePaused]}
    /\ UNCHANGED <<onDevice, handling, beating, onServer>>

BeatLost(b) ==
    /\ b \in beats /\ beats' = beats \ {b}
    /\ UNCHANGED <<onDevice, handling, beating, onServer>>

-----------------------------------------------------------------------------
(* The server *)

\* disable_agent, enable_agent: the thumbnail is left alone.
SwitchesDevice ==
    /\ enabled' = ~enabled
    /\ UNCHANGED <<onDevice, beats, handling, beating, pausedThere, imageFile, stamped>>

\* upload_thumbnail: the device is managed, enabled and not paused.
UploadAccepted(h) ==
    /\ captures = "upload" /\ handling[h] = "none"
    /\ enabled /\ ~pausedThere
    /\ handling' = [handling EXCEPT ![h] = "body"]
    /\ captures' = "idle"
    /\ UNCHANGED <<capturePaused, beats, beating, onServer>>

\* The body is there, is a JPEG within the limits, and replaces the file.
UploadStored(h) ==
    /\ handling[h] = "body" /\ imageFile' = TRUE
    /\ handling' = [handling EXCEPT ![h] = "commit"]
    /\ UNCHANGED <<onDevice, beats, beating, enabled, pausedThere, stamped>>

UploadCommitted(h) ==
    /\ handling[h] = "commit" /\ stamped' = TRUE
    /\ handling' = [handling EXCEPT ![h] = "none"]
    /\ UNCHANGED <<onDevice, beats, beating, enabled, pausedThere, imageFile>>

\* No JPEG, too large, or the connection breaks.
UploadAborted(h) ==
    /\ handling[h] # "none"
    /\ handling' = [handling EXCEPT ![h] = "none"]
    /\ UNCHANGED <<onDevice, beats, beating, onServer>>

\* register_agent, of a device that is registered already; it may be disabled.
RegisterHandled(b) ==
    /\ b \in beats /\ b.kind = "register" /\ beats' = beats \ {b}
    /\ pausedThere' = b.paused
    /\ UNCHANGED <<onDevice, handling, beating, enabled, imageFile, stamped>>

\* heartbeat: the row is loaded, ...
HeartbeatAccepted(b) ==
    /\ b \in beats /\ b.kind = "heartbeat" /\ beats' = beats \ {b}
    /\ enabled /\ ~beating.on
    /\ beating' = [on |-> TRUE, paused |-> b.paused,
                   pausedThere |-> pausedThere, stamped |-> stamped]
    /\ UNCHANGED <<onDevice, handling, onServer>>

\* ... the device is disabled: 403, ...
HeartbeatRefused(b) ==
    /\ b \in beats /\ b.kind = "heartbeat" /\ beats' = beats \ {b}
    /\ ~enabled
    /\ UNCHANGED <<onDevice, handling, beating, onServer>>

\* The columns that have a value other than the one loaded are written.
WritesSwitch == pausedThere' = IF beating.paused # beating.pausedThere THEN beating.paused
                               ELSE pausedThere

\* MUTANT of HeartbeatHandled: only the heartbeat that brings the change clears.
HeartbeatHandled_OnChange ==
    /\ beating.on /\ beating' = NotBeating /\ WritesSwitch
    /\ IF beating.paused /\ ~beating.pausedThere
       THEN stamped' = (stamped /\ ~beating.stamped) /\ imageFile' \in {imageFile, FALSE}
       ELSE UNCHANGED <<stamped, imageFile>>
    /\ UNCHANGED <<onDevice, beats, handling, enabled>>

\* ... or the file is deleted if that succeeds, and the stamp that was there is cleared.
HeartbeatHandled ==
    /\ beating.on /\ beating' = NotBeating /\ WritesSwitch
    /\ IF beating.paused
       THEN stamped' = (stamped /\ ~beating.stamped) /\ imageFile' \in {imageFile, FALSE}
       ELSE UNCHANGED <<stamped, imageFile>>
    /\ UNCHANGED <<onDevice, beats, handling, enabled>>

-----------------------------------------------------------------------------

ThumbnailNext ==
    \/ SwitchesCapture \/ CaptureBegins \/ CaptureEnds \/ CaptureGivesUp
    \/ \E kind \in {"register", "heartbeat"} : SendsBeat(kind)
    \/ SwitchesDevice \/ HeartbeatHandled
    \/ \E b \in beats : \/ BeatLost(b) \/ RegisterHandled(b)
                        \/ HeartbeatAccepted(b) \/ HeartbeatRefused(b)
    \/ \E h \in Handler : \/ UploadAccepted(h) \/ UploadStored(h)
                          \/ UploadCommitted(h) \/ UploadAborted(h)

HandlerEnds(h) == UploadCommitted(h) \/ UploadAborted(h)

\* The main loop goes on sending heartbeats, and some of them arrive while the switch
\* is on, if the device is enabled; the server finishes what it handles; what is under
\* way gets old.
ThumbnailFairness ==
    /\ WF_thumbnailVars(SendsBeat("heartbeat"))
    /\ SF_thumbnailVars(HeartbeatAccepted([kind |-> "heartbeat", paused |-> TRUE]))
    /\ WF_thumbnailVars(HeartbeatHandled)
    /\ WF_thumbnailVars(\E b \in beats : ~b.paused /\ (\/ BeatLost(b) \/ RegisterHandled(b)
                                                       \/ HeartbeatAccepted(b)
                                                       \/ HeartbeatRefused(b)))
    /\ WF_thumbnailVars(CaptureGivesUp \/ CaptureEnds)
    /\ \A h \in Handler : WF_thumbnailVars(UploadStored(h)) /\ WF_thumbnailVars(HandlerEnds(h))

ThumbnailSpec == ThumbnailInit /\ [][ThumbnailNext]_thumbnailVars /\ ThumbnailFairness

-----------------------------------------------------------------------------
(* Properties *)

(* When the owner leaves the capture paused and the device is enabled in the end,  *)
(* the server stops showing a thumbnail, although uploads that it had accepted      *)
(* store one after the heartbeat that cleared it, old heartbeats say that the       *)
(* capture is on, heartbeats were refused while the device was disabled, and one    *)
(* that has loaded the row too early clears nothing: every heartbeat clears again   *)
(* (heartbeat, upload_thumbnail).                                                   *)
PausedCaptureIsCleared == <>[](capturePaused /\ enabled) => <>[]~Shown

=============================================================================
