----------------------------- MODULE MCServerParts -----------------------------
(***************************************************************************)
(* Parts of the server that share no state with one another, on small       *)
(* instances: a behaviour is one of a single part, and the state spaces add *)
(* up instead of multiplying.                                               *)
(***************************************************************************)
EXTENDS ReleaseCache, ServerUpgrade, ScriptLibrary, TLC

VARIABLE part   \* the part that runs; the others stay where they start

Init ==
    /\ part \in {"releases", "upgrade", "scripts"}
    /\ ReleaseInit /\ UpgradeOpsInit /\ LibraryInit
    /\ part # "scripts" => access.user = {}

ReleaseStep == /\ part = "releases" /\ ReleaseNext
               /\ UNCHANGED <<part, upgradeVars, libraryVars>>

UpgradeStep == /\ part = "upgrade" /\ UpgradeOpsNext
               /\ UNCHANGED <<part, releaseVars, libraryVars>>

ScriptStep == /\ part = "scripts" /\ LibraryNext
              /\ UNCHANGED <<part, releaseVars, upgradeVars>>

Next == ReleaseStep \/ UpgradeStep \/ ScriptStep

Spec == Init /\ [][Next]_<<part, releaseVars, upgradeVars, libraryVars>>

Symmetry == Permutations(Builds)

(* Every variable of every part has a value that the code can produce; no         *)
(* prerelease is listed as stable, although both publishers add channels to the   *)
(* same version (_cache_release, _validate_staged, publish).                      *)
ServerPartsTypeOK == ReleaseTypeOK /\ UpgradeOpsTypeOK /\ LibraryTypeOK

=============================================================================
