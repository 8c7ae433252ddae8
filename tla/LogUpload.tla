------------------------------ MODULE LogUpload ------------------------------
(***************************************************************************)
(* The log of one run.  The script writes a file on the device; the client *)
(* uploads the bytes that the server has not acknowledged, while the script *)
(* runs, once more when it has ended and, if that fails, again and again;  *)
(* the server appends them to its own file, and a browser follows that     *)
(* file.                                                                   *)
(*                                                                         *)
(* The client decodes what it has read before it sends it, so a character  *)
(* of two bytes is kept as two bytes, "lead" and "trail": a chunk may end  *)
(* between them, and a byte that is no character of its own is replaced.   *)
(* A request that the client has given up may still be processed.          *)
(***************************************************************************)
EXTENDS Naturals, Sequences, SequencesExt

CONSTANTS MaxBytes,   \* bound on the length of the device's file
          Slot        \* requests that can be under way at once

ASSUME LogAssumption == MaxBytes \in Nat

VARIABLES written,    \* the device's log file
          closed,     \* the script has ended
          uploader,   \* where the client is with this run
          call,       \* the request whose answer the client waits for
          acked,      \* _log_upload_offsets
          queued,     \* the run is in _pending_log_uploads
          queuedFile, \* ... and in PENDING_LOG_UPLOADS_FILE
          request,    \* the requests under way
          stored,     \* the server's log file
          status,     \* the run on the server
          viewer,     \* stream_run_log: its loop, and how much it has sent
          delivered,  \* the last upload was acknowledged before the report (history)
          garbled,    \* bytes were replaced (history)
          overlapped  \* two requests appended on the same measurement (history)

client_log == <<written, closed>>
upload     == <<uploader, call, acked, queued, queuedFile>>
logHistory == <<delivered, garbled, overlapped>>
logVars == <<client_log, upload, request, stored, status, viewer, logHistory>>

NoSlot == "no slot"
Byte == {"a", "lead", "trail", "replaced"}
Text == Seq(Byte)

NewViewer == [at |-> "check", alive |-> TRUE, shown |-> 0]

Free == [stage |-> "free", offset |-> 0, content |-> <<>>, size |-> 0]

LogTypeOK ==
    /\ written \in Text /\ Len(written) <= MaxBytes /\ closed \in BOOLEAN
    /\ uploader \in {"running", "live", "final", "report", "ended", "flush", "down"}
    /\ call \in Slot \cup {NoSlot}
    /\ acked \in Nat /\ queued \in BOOLEAN /\ queuedFile \in BOOLEAN
    /\ request \in [Slot -> [stage : {"free", "sent", "write", "stored", "conflict"},
                             offset : Nat, content : Text, size : Nat]]
    /\ stored \in Text
    /\ status \in {"running", "reported", "cancelled"}
    /\ viewer \in [at : {"check", "read", "done"}, alive : BOOLEAN, shown : Nat]
    /\ delivered \in BOOLEAN /\ garbled \in BOOLEAN /\ overlapped \in BOOLEAN

LogInit ==
    /\ written = <<>> /\ closed = FALSE
    /\ uploader = "running" /\ call = NoSlot /\ acked = 0
    /\ queued = FALSE /\ queuedFile = FALSE
    /\ request = [s \in Slot |-> Free]
    /\ stored = <<>> /\ status = "running"
    /\ viewer = NewViewer
    /\ delivered = FALSE /\ garbled = FALSE /\ overlapped = FALSE

-----------------------------------------------------------------------------
(* The script *)

Whole(file) == file = <<>> \/ Last(file) # "lead"

Write ==
    /\ ~closed
    /\ Len(written) < MaxBytes
    /\ \E byte \in IF Whole(written) THEN {"a", "lead"} ELSE {"trail"} :
          written' = Append(written, byte)
    /\ UNCHANGED <<closed, upload, request, stored, status, viewer, logHistory>>

\* It ends, or is killed in the middle of a character.
ScriptEnds ==
    /\ ~closed
    /\ closed' = TRUE
    /\ UNCHANGED <<written, upload, request, stored, status, viewer, logHistory>>

-----------------------------------------------------------------------------
(* The client: _upload_log_delta *)

Bad(raw) ==
    {i \in DOMAIN raw : \/ raw[i] = "trail" /\ (i = 1 \/ raw[i - 1] # "lead")
                        \/ raw[i] = "lead" /\ (i = Len(raw) \/ raw[i + 1] # "trail")}

Replacement == <<"replaced", "replaced", "replaced">>

\* A character that is cut off is left for the next time, unless there is
\* nothing before it or this is the last time.
Decoded(raw, force) ==
    IF Bad(raw) = {} THEN raw
    ELSE IF ~force /\ Bad(raw) = {Len(raw)} /\ Last(raw) = "lead" /\ Len(raw) > 1
         THEN Front(raw)
         ELSE FlattenSeq([i \in DOMAIN raw |->
                             IF i \in Bad(raw) THEN Replacement ELSE <<raw[i]>>])

Offset == IF acked > Len(written) THEN 0 ELSE acked
Delta  == SubSeq(written, Offset + 1, Len(written))

\* The delta is sent, and the client waits at l.
Send(l, force) ==
    /\ Delta # <<>>
    /\ \E s \in Slot :
          /\ request[s].stage = "free"
          /\ request' = [request EXCEPT ![s] =
                [stage |-> "sent", offset |-> Offset, content |-> Decoded(Delta, force),
                 size |-> 0]]
          /\ call' = s
    /\ uploader' = l
    /\ garbled' = (garbled \/ "replaced" \in ToSet(Decoded(Delta, force)))
    /\ UNCHANGED <<client_log, acked, queued, queuedFile, stored, status, viewer,
                   delivered, overlapped>>

\* _save_pending_log_uploads, which may fail.
SaveQueue(value) == queued' = value /\ queuedFile' \in {queuedFile, value}

LiveUpload == uploader = "running" /\ Send("live", FALSE)

\* The process is found to have ended: _finish_log_upload, and then the report.
FinalUpload == uploader = "running" /\ closed /\ Send("final", TRUE)

\* _flush_pending_log_uploads
FlushUpload == uploader = "ended" /\ queued /\ Send("flush", TRUE)

\* There is nothing to send, which counts as an acknowledgement.
NothingToSend ==
    /\ Delta = <<>>
    /\ \/ /\ uploader = "running" /\ closed
          /\ uploader' = "report" /\ delivered' = TRUE
       \/ uploader = "ended" /\ queued /\ UNCHANGED <<uploader, delivered>>
    /\ SaveQueue(FALSE)
    /\ UNCHANGED <<client_log, call, acked, request, stored, status, viewer,
                   garbled, overlapped>>

\* Where the client goes on from a request.
After == CASE uploader = "live" -> "running"
           [] uploader = "final" -> "report"
           [] uploader = "flush" -> "ended"

Failed ==
    /\ uploader' = After /\ call' = NoSlot
    /\ IF uploader = "final" THEN SaveQueue(TRUE) ELSE UNCHANGED <<queued, queuedFile>>
    /\ UNCHANGED delivered

\* 200: the offset is the server's, and the run is no longer queued.
Acknowledged ==
    /\ call # NoSlot /\ request[call].stage = "stored"
    /\ acked' = request[call].size
    /\ request' = [request EXCEPT ![call] = Free]
    /\ uploader' = After /\ call' = NoSlot
    /\ IF uploader = "live" THEN UNCHANGED <<queued, queuedFile>> ELSE SaveQueue(FALSE)
    /\ delivered' = (delivered \/ uploader = "final")
    /\ UNCHANGED <<client_log, stored, status, viewer, garbled, overlapped>>

\* 409: the next attempt starts from the server's offset.
Refused ==
    /\ call # NoSlot /\ request[call].stage = "conflict"
    /\ acked' = request[call].size
    /\ request' = [request EXCEPT ![call] = Free]
    /\ Failed
    /\ UNCHANGED <<client_log, stored, status, viewer, garbled, overlapped>>

\* It fails, times out, or its answer is lost; the server may go on with it.
TimesOut ==
    /\ call # NoSlot
    /\ Failed
    /\ request' \in {request, [request EXCEPT ![call] = Free]}
    /\ request' # request => request[call].stage = "sent"
    /\ UNCHANGED <<client_log, acked, stored, status, viewer, garbled, overlapped>>

\* _report_run_status, after the last upload has been tried.
Report ==
    /\ uploader = "report"
    /\ uploader' = "ended"
    /\ status' = IF status = "running" THEN "reported" ELSE status
    /\ UNCHANGED <<client_log, call, acked, queued, queuedFile, request, stored, viewer,
                   logHistory>>

\* The cancellation is noticed: the process is killed, nothing more is uploaded.
Killed ==
    /\ uploader = "running" /\ status = "cancelled"
    /\ closed' = TRUE /\ uploader' = "ended"
    /\ UNCHANGED <<written, call, acked, queued, queuedFile, request, stored, status,
                   viewer, logHistory>>

\* The client dies: offsets are forgotten, and so is a run that was not queued.
ClientDies ==
    /\ uploader # "down"
    /\ uploader' = "down" /\ call' = NoSlot /\ acked' = 0 /\ queued' = FALSE
    /\ UNCHANGED <<client_log, queuedFile, request, stored, status, viewer, logHistory>>

ClientStarts ==
    /\ uploader = "down"
    /\ uploader' = "ended" /\ queued' = queuedFile
    /\ UNCHANGED <<client_log, call, acked, queuedFile, request, stored, status, viewer,
                   logHistory>>

-----------------------------------------------------------------------------
(* The server *)

\* MUTANT of Measure: what the server has already is appended once more.
Measure_AppendsAll(s) ==
    LET r == request[s]
        end == Len(stored)
    IN /\ r.stage = "sent"
       /\ request' = [request EXCEPT ![s] =
             [r EXCEPT !.stage = IF r.offset > end THEN "conflict" ELSE "write", !.size = end]]
       /\ UNCHANGED <<client_log, upload, stored, status, viewer, logHistory>>

\* append_run_log_chunk looks for the end of its file and compares what it has ...
Measure(s) ==
    LET r == request[s]
        end == Len(stored)
        known == IF end - r.offset < Len(r.content) THEN end - r.offset ELSE Len(r.content)
    IN /\ r.stage = "sent"
       /\ request' = [request EXCEPT ![s] =
             IF \/ r.offset > end
                \/ SubSeq(stored, r.offset + 1, r.offset + known)
                     # SubSeq(r.content, 1, known)
             THEN [r EXCEPT !.stage = "conflict", !.size = end]
             ELSE [r EXCEPT !.stage = "write", !.size = end,
                            !.content = SubSeq(@, known + 1, Len(@))]]
       /\ UNCHANGED <<client_log, upload, stored, status, viewer, logHistory>>

\* ... and appends the rest, at what is the end of the file by now.
AppendRest(s) ==
    /\ request[s].stage = "write"
    /\ stored' = stored \o request[s].content
    /\ request' = [request EXCEPT ![s].stage = "stored", ![s].size = Len(stored')]
    /\ overlapped' = (overlapped \/ Len(stored) # request[s].size)
    /\ UNCHANGED <<client_log, upload, status, viewer, delivered, garbled>>

\* Nobody waits for the answer any more.
Unheard(s) ==
    /\ request[s].stage \in {"stored", "conflict"} /\ call # s
    /\ request' = [request EXCEPT ![s] = Free]
    /\ UNCHANGED <<client_log, upload, stored, status, viewer, logHistory>>

\* A user cancels the run, or the watchdog gives it up.
EndedByOthers ==
    /\ status = "running" /\ status' = "cancelled"
    /\ UNCHANGED <<client_log, upload, request, stored, viewer, logHistory>>

-----------------------------------------------------------------------------
(* stream_run_log: event_generator *)

CheckAlive ==
    /\ viewer.at = "check"
    /\ viewer' = [viewer EXCEPT !.at = "read", !.alive = status = "running"]
    /\ UNCHANGED <<client_log, upload, request, stored, status, logHistory>>

\* It stops when the run was not alive before it read; after 600 idle rounds it
\* stops too, and the browser has to follow the log anew.
ReadOn ==
    /\ viewer.at = "read"
    /\ \/ viewer' = [viewer EXCEPT !.shown = Len(stored),
                                   !.at = IF viewer.alive THEN "check" ELSE "done"]
       \/ viewer.alive /\ viewer.shown = Len(stored) /\ viewer' = NewViewer
    /\ UNCHANGED <<client_log, upload, request, stored, status, logHistory>>

-----------------------------------------------------------------------------

LogServer == \E s \in Slot : Measure(s) \/ AppendRest(s) \/ Unheard(s)

LogClient ==
    \/ LiveUpload \/ FinalUpload \/ FlushUpload \/ NothingToSend
    \/ Acknowledged \/ Refused \/ TimesOut \/ Report \/ Killed
    \/ ClientDies \/ ClientStarts

LogNext ==
    \/ Write \/ ScriptEnds
    \/ LogClient \/ LogServer \/ EndedByOthers
    \/ CheckAlive \/ ReadOn

LogSpec == LogInit /\ [][LogNext]_logVars

-----------------------------------------------------------------------------
(* Properties *)

Undisturbed == ~garbled /\ ~overlapped

(* The server's log is the beginning of the device's, in spite of requests given  *)
(* up, answers lost and offsets forgotten by a restart; one that counts as         *)
(* delivered is complete; and a browser that followed it until the run had ended   *)
(* has seen all of it, because the device reports after its last upload and the    *)
(* stream looks at the run before it reads (append_run_log_chunk,                  *)
(* _finish_log_upload, stream_run_log).  It takes that no byte had to be replaced  *)
(* and that no two requests appended on the same measurement.                      *)
LogIsFaithful ==
    Undisturbed =>
        /\ IsPrefix(stored, written)
        /\ delivered => stored = written
        /\ delivered /\ status = "reported" /\ viewer.at = "done"
             => viewer.shown = Len(written)

=============================================================================
