----------------------------- MODULE MCWorkstation -----------------------------
(***************************************************************************)
(* Parts of a workstation that share no state with one another, on small    *)
(* instances: a behaviour is one of a single part, and the state spaces add *)
(* up instead of multiplying.                                               *)
(***************************************************************************)
EXTENDS LogUpload, LocalRuns, ClientUpdate, VerifiedDownload, EnvironmentCache, TLC

VARIABLE part   \* the part that runs; the others stay where they start

Init ==
    /\ part \in {"log", "local runs", "update", "download", "environment"}
    /\ LogInit /\ LocalInit /\ UpdateInit /\ DownloadInit /\ EnvironmentInit
    /\ previous = installed   \* whatever happens without it happens with it
    /\ part # "download" => served = [f \in File |-> Wanted]
    /\ part # "environment" => target = "absent"

Log == /\ part = "log" /\ LogNext
       /\ UNCHANGED <<part, localVars, updateVars, downloadVars, environmentVars>>

Local == /\ part = "local runs" /\ LocalNext
         /\ UNCHANGED <<part, logVars, updateVars, downloadVars, environmentVars>>

Update == /\ part = "update" /\ UpdateNext
          /\ UNCHANGED <<part, logVars, localVars, downloadVars, environmentVars>>

Download == /\ part = "download" /\ DownloadNext
            /\ UNCHANGED <<part, logVars, localVars, updateVars, environmentVars>>

Environment == /\ part = "environment" /\ EnvironmentNext
               /\ UNCHANGED <<part, logVars, localVars, updateVars, downloadVars>>

Next == Log \/ Local \/ Update \/ Download \/ Environment

Spec == Init /\ [][Next]_<<part, logVars, localVars, updateVars, downloadVars, environmentVars>>

Symmetry == Permutations(Slot)

(* Every variable of every part has a value that the code can produce; a file     *)
(* that an update has put in its place is the one that the manifest describes     *)
(* (_valid_file, _download_parts).                                                *)
WorkstationTypeOK ==
    LogTypeOK /\ LocalTypeOK /\ UpdateTypeOK /\ DownloadTypeOK /\ EnvironmentTypeOK

=============================================================================
