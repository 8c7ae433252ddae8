---------------------------- MODULE RunContract ----------------------------
(***************************************************************************)
(* What the run table promises to everyone who reads it: devices, browsers *)
(* and administrators.  Only the columns of a run that decide who executes *)
(* it are kept.  RunLifecycle implements this module.                      *)
(*                                                                         *)
(* A row is created pending, is claimed at most once and only by a device  *)
(* it may go to, and reaches "success" only from "running".  The two       *)
(* background sweeps and the stale-run cleanup write a terminal status     *)
(* without looking at the current one, so the contract lets them replace   *)
(* any status (Override): readers can rely on no more than that.           *)
(***************************************************************************)
EXTENDS FiniteSets

CONSTANTS Run, Agent, None

VARIABLE run

Terminal == {"success", "failed", "cancelled", "expired"}
Status   == {"unused", "pending", "running"} \cup Terminal
Device   == Agent \cup {None}

Unused == [status |-> "unused", target |-> None, executor |-> None]

Init == run = [r \in Run |-> Unused]

\* A run is inserted, directed to one device or (None) open to the user's devices.
Create(r, d) ==
    /\ run[r].status = "unused"
    /\ run' = [run EXCEPT ![r] = [status |-> "pending", target |-> d, executor |-> None]]

\* A pending run is bound to the device that will execute it.
Claim(r, a) ==
    /\ run[r].status = "pending"
    /\ run[r].executor = None
    /\ run[r].target \in {None, a}
    /\ run' = [run EXCEPT ![r].status = "running", ![r].executor = a]

\* The executing device reports the outcome.
Finish(r, outcome) ==
    /\ run[r].status = "running"
    /\ run[r].executor # None
    /\ run' = [run EXCEPT ![r].status = outcome]

\* Any of the runs that are still active are cancelled together.
Cancel(S) ==
    /\ \A r \in S : run[r].status \in {"pending", "running"}
    /\ run' = [r \in Run |-> IF r \in S THEN [run[r] EXCEPT !.status = "cancelled"]
                                        ELSE run[r]]

\* A sweep stamps a terminal status on runs it selected earlier, whatever they
\* have become since.
Override(S, terminal) ==
    /\ \A r \in S : run[r].status # "unused"
    /\ run' = [r \in Run |-> IF r \in S THEN [run[r] EXCEPT !.status = terminal]
                                        ELSE run[r]]

Next ==
    \/ \E r \in Run, d \in Device : Create(r, d)
    \/ \E r \in Run, a \in Agent : Claim(r, a)
    \/ \E r \in Run, outcome \in {"success", "failed"} : Finish(r, outcome)
    \/ \E S \in SUBSET Run : Cancel(S)
    \/ \E S \in SUBSET Run, terminal \in {"failed", "cancelled", "expired"} :
          Override(S, terminal)

Spec == Init /\ [][Next]_run

=============================================================================
