------------------------------ MODULE MCFairParts ------------------------------
(***************************************************************************)
(* Two parts of the server that never meet and that promise something in    *)
(* the end: the rows of the devices and the thumbnails.  A behaviour is one *)
(* of a single part, with the fairness of that part.                        *)
(***************************************************************************)
EXTENDS RunLifecycle, Thumbnails

VARIABLE part   \* the part that runs; the other stays where it starts

PartsInit ==
    /\ part \in {"devices", "thumbnails"}
    /\ Init /\ ThumbnailInit
    /\ part # "thumbnails" => ~capturePaused

DeviceStep == part = "devices" /\ Next /\ UNCHANGED <<part, thumbnailVars>>

ThumbnailStep == part = "thumbnails" /\ ThumbnailNext /\ UNCHANGED <<part, vars>>

PartsSpec ==
    /\ PartsInit /\ [][DeviceStep \/ ThumbnailStep]_<<part, vars, thumbnailVars>>
    /\ part = "devices" => SchedulerFairness
    /\ part = "thumbnails" => ThumbnailFairness

=============================================================================
