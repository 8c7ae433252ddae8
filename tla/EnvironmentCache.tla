--------------------------- MODULE EnvironmentCache ---------------------------
(***************************************************************************)
(* The virtual environment that scripts with the same requirements share.   *)
(* A client that finds it ready uses it.  Otherwise it takes a lock, a file *)
(* that it creates, looks again, removes what is there, builds the          *)
(* environment elsewhere and renames it into place.  Clients die, and a     *)
(* lock that is older than 1800 seconds is taken for one that was left      *)
(* behind: two clients may decide so of the same lock.                      *)
(***************************************************************************)
EXTENDS Naturals, FiniteSets

CONSTANTS Client,    \* the processes that share the directory
          Unlocked

ASSUME EnvironmentAssumption == Unlocked \notin Client

VARIABLES target,    \* the environment's directory
          lock,      \* who created the lock file, and whether it looks left behind
          at,        \* where each client is in ensure_environment
          overstayed,\* a lock became that old while its owner was working (history)
          raced      \* a client removed another lock than it had looked at (history)

environmentVars == <<target, lock, at, overstayed, raced>>

NoLock == [by |-> Unlocked, old |-> FALSE]

\* Under the lock.
Inside == {"look", "remove", "build", "publish", "leave", "leave failed"}

EnvironmentTypeOK ==
    /\ target \in {"absent", "broken", "torn", "ready"}
    /\ lock \in [by : Client \cup {Unlocked}, old : BOOLEAN]
    /\ at \in [Client -> {"idle", "wait", "take over", "using"} \cup Inside]
    /\ overstayed \in BOOLEAN /\ raced \in BOOLEAN

\* What is there may be the rest of an environment that was damaged.
EnvironmentInit ==
    /\ target \in {"absent", "broken"}
    /\ lock = NoLock /\ at = [c \in Client |-> "idle"]
    /\ overstayed = FALSE /\ raced = FALSE

\* _environment_ready sees the marker and the interpreter, also of a directory
\* that is being removed.
LooksReady == target \in {"ready", "torn"}

Moves(c, from, to) == at[c] = from /\ at' = [at EXCEPT ![c] = to]

-----------------------------------------------------------------------------
(* ensure_environment *)

FoundReady(c) ==
    /\ LooksReady /\ Moves(c, "idle", "using")
    /\ UNCHANGED <<target, lock, overstayed, raced>>

NotReady(c) ==
    /\ ~LooksReady /\ Moves(c, "idle", "wait")
    /\ UNCHANGED <<target, lock, overstayed, raced>>

\* _fingerprint_lock: the file is created ...
Locks(c) ==
    /\ lock = NoLock /\ Moves(c, "wait", "look")
    /\ lock' = [by |-> c, old |-> FALSE]
    /\ UNCHANGED <<target, overstayed, raced>>

\* ... or looks left behind and is removed, whatever it is by then ...
SeesOldLock(c) ==
    /\ lock.old /\ Moves(c, "wait", "take over")
    /\ UNCHANGED <<target, lock, overstayed, raced>>

RemovesLock(c) ==
    /\ Moves(c, "take over", "wait")
    /\ raced' = (raced \/ (lock # NoLock /\ ~lock.old))
    /\ lock' = NoLock
    /\ UNCHANGED <<target, overstayed>>

\* ... or is waited for, 300 seconds.
GivesUpWaiting(c) ==
    /\ lock # NoLock /\ Moves(c, "wait", "idle")
    /\ UNCHANGED <<target, lock, overstayed, raced>>

LooksAgain(c) ==
    /\ LooksReady /\ Moves(c, "look", "leave")
    /\ UNCHANGED <<target, lock, overstayed, raced>>

\* MUTANT of StartsOver: the second look is left out.
StartsOver_Blind(c) ==
    /\ IF target = "absent" THEN Moves(c, "look", "build") /\ UNCHANGED target
       ELSE /\ Moves(c, "look", "remove")
            /\ target' = IF LooksReady THEN "torn" ELSE "broken"
    /\ UNCHANGED <<lock, overstayed, raced>>

\* What is there is not ready: it is looked for, and its removal begins ...
StartsOver(c) ==
    /\ ~LooksReady
    /\ Moves(c, "look", "remove")
    /\ UNCHANGED <<target, lock, overstayed, raced>>

\* ... at what is there by now: a ready one still looks ready for a while.
Removes(c) ==
    /\ at[c] = "remove" /\ target \in {"ready", "torn", "broken"}
    /\ target' \in (IF target = "broken" THEN {} ELSE {"torn", "broken"}) \cup {"absent"}
    /\ at' = [at EXCEPT ![c] = IF target' = "absent" THEN "build" ELSE "remove"]
    /\ UNCHANGED <<lock, overstayed, raced>>

NothingToRemove(c) ==
    /\ target = "absent" /\ Moves(c, "remove", "build")
    /\ UNCHANGED <<target, lock, overstayed, raced>>

\* venv, pip install, pip check, in a directory of its own.
Builds(c) ==
    /\ Moves(c, "build", "publish")
    /\ UNCHANGED <<target, lock, overstayed, raced>>

\* The rename fails when there is a directory.
Publishes(c) ==
    /\ target = "absent" /\ Moves(c, "publish", "leave")
    /\ target' = "ready"
    /\ UNCHANGED <<lock, overstayed, raced>>

BuildFails(c) ==
    /\ at[c] \in {"remove", "build", "publish"}
    /\ at' = [at EXCEPT ![c] = "leave failed"]
    /\ UNCHANGED <<target, lock, overstayed, raced>>

\* The lock is removed, whoever's it is.
Unlocks(c) ==
    /\ \/ Moves(c, "leave", "using")
       \/ Moves(c, "leave failed", "idle")
    /\ lock' = NoLock
    /\ UNCHANGED <<target, overstayed, raced>>

ScriptIsDone(c) ==
    /\ Moves(c, "using", "idle")
    /\ UNCHANGED <<target, lock, overstayed, raced>>

\* The client dies, and starts again; its lock stays.
ClientDied(c) ==
    /\ at[c] # "idle" /\ at' = [at EXCEPT ![c] = "idle"]
    /\ UNCHANGED <<target, lock, overstayed, raced>>

\* 1800 seconds are over.
LockGetsOld ==
    /\ lock # NoLock /\ ~lock.old
    /\ lock' = [lock EXCEPT !.old = TRUE]
    /\ overstayed' = (overstayed \/ \E c \in Client : at[c] \in Inside)
    /\ UNCHANGED <<target, at, raced>>

-----------------------------------------------------------------------------

EnvironmentStep(c) ==
    \/ FoundReady(c) \/ NotReady(c) \/ Locks(c) \/ SeesOldLock(c) \/ RemovesLock(c)
    \/ GivesUpWaiting(c) \/ LooksAgain(c) \/ StartsOver(c) \/ Removes(c)
    \/ NothingToRemove(c) \/ Builds(c) \/ Publishes(c) \/ BuildFails(c) \/ Unlocks(c)
    \/ ScriptIsDone(c) \/ ClientDied(c)

EnvironmentNext == LockGetsOld \/ \E c \in Client : EnvironmentStep(c)

EnvironmentSpec == EnvironmentInit /\ [][EnvironmentNext]_environmentVars

-----------------------------------------------------------------------------
(* Properties *)

(* A script is started in a complete environment, and nobody removes it while the *)
(* script runs, although clients die with the lock or half of a removal behind    *)
(* them: at most one client is under the lock, and it has looked again            *)
(* (ensure_environment).  It takes that no client works longer under the lock     *)
(* than 1800 seconds, and that no two clients take the same old lock over.        *)
EnvironmentInUseIsComplete ==
    ~overstayed /\ ~raced => \A c \in Client : at[c] = "using" => target = "ready"

=============================================================================
