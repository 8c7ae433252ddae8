---------------------------- MODULE ManagedBatch ----------------------------
(***************************************************************************)
(* Batches of device operations: one request per idempotency key, executed *)
(* item by item by whichever handler holds the lease, resumed by the next  *)
(* request with the same key after an interruption.                        *)
(*                                                                         *)
(* A worker is a request handler in execute_managed_agent_batch.  It reads *)
(* the next pending item outside of a transaction; checking and executing  *)
(* it ends in one transaction that carries the effect, the item's result   *)
(* and a renewed lease, and that looks neither at the result nor at the    *)
(* lease again.  Time is reduced to a lease being live or expired.         *)
(***************************************************************************)
EXTENDS Naturals, FiniteSets

CONSTANTS Batch,      \* idempotency keys of one administrator
          Items,      \* number of target devices of a batch
          Worker,
          MaxEffects  \* bound on the effects counted per item

ASSUME BatchAssumption == Items \in Nat \ {0} /\ MaxEffects \in Nat \ {0}

VARIABLES batch,      \* batch[b]: a row of managed_agent_batches
          item,       \* item[b][i]: a row of managed_agent_batch_items
          worker,     \* worker[w]: a request handler
          overtaken   \* overtaken[b]: a lease ran out under a handler of b (history)

vars == <<batch, item, worker, overtaken>>

ItemId == 1 .. Items
Final  == {"success", "failed", "skipped"}

BatchRow == [status : {"absent", "processing", "stale", "completed"},
             lease  : {"none", "live", "expired"}]

\* effects: how often the operation was carried out on the device (history).
ItemRow == [result : {"pending"} \cup Final, effects : 0 .. MaxEffects]

Handler == [pc : {"idle", "create", "claim", "loop", "item", "finish"},
            batch : Batch, item : ItemId]

TypeOK ==
    /\ batch \in [Batch -> BatchRow]
    /\ item \in [Batch -> [ItemId -> ItemRow]]
    /\ worker \in [Worker -> Handler]
    /\ overtaken \in [Batch -> BOOLEAN]

Init ==
    /\ batch = [b \in Batch |-> [status |-> "absent", lease |-> "none"]]
    /\ item = [b \in Batch |-> [i \in ItemId |-> [result |-> "pending", effects |-> 0]]]
    /\ worker \in [Worker -> [pc : {"idle"}, batch : Batch, item : {1}]]
    /\ overtaken = [b \in Batch |-> FALSE]

Goto(w, pc) == worker' = [worker EXCEPT ![w].pc = pc]

Pending(b) == {i \in ItemId : item[b][i].result = "pending"}

\* Handlers that execute items of b.
Executing(b) == {w \in Worker : worker[w].pc \in {"loop", "item", "finish"} /\ worker[w].batch = b}

-----------------------------------------------------------------------------
(* execute_managed_agent_batch *)

\* The batch with the request's key is looked up.  A completed one is replayed;
\* a new one is refused while two batches are being processed.
Submit(w, b) ==
    /\ worker[w].pc = "idle"
    /\ \/ /\ batch[b].status = "absent"
          /\ Cardinality({c \in Batch : batch[c].status = "processing"
                                        /\ batch[c].lease = "live"}) < 2
          /\ worker' = [worker EXCEPT ![w].pc = "create", ![w].batch = b]
       \/ /\ batch[b].status \in {"processing", "stale"}
          /\ worker' = [worker EXCEPT ![w].pc = "claim", ![w].batch = b]
    /\ UNCHANGED <<batch, item, overtaken>>

\* The batch and its items are inserted in one transaction; items that fail the
\* preview get their result at once.  The unique key lets one insert win, the
\* other request is answered with the winner's progress.
Create(w) ==
    LET b == worker[w].batch
    IN  /\ worker[w].pc = "create"
        /\ \/ /\ batch[b].status # "absent"
              /\ Goto(w, "idle")
              /\ UNCHANGED <<batch, item>>
           \/ /\ batch[b].status = "absent"
              /\ batch' = [batch EXCEPT ![b] = [status |-> "processing", lease |-> "live"]]
              /\ \E first \in [ItemId -> {"pending", "failed", "skipped"}] :
                    item' = [item EXCEPT ![b] = [i \in ItemId |->
                               [result |-> first[i], effects |-> 0]]]
              /\ Goto(w, "loop")
        /\ UNCHANGED overtaken

\* MUTANT of Claim: any request with the key goes on with the batch.
Claim_NoLease(w) ==
    LET b == worker[w].batch
    IN  /\ worker[w].pc = "claim"
        /\ batch' = [batch EXCEPT ![b] = [status |-> "processing", lease |-> "live"]]
        /\ Goto(w, "loop")
        /\ UNCHANGED <<item, overtaken>>

\* The conditional UPDATE that takes the lease.
Claim(w) ==
    LET b == worker[w].batch
    IN  /\ worker[w].pc = "claim"
        /\ \/ /\ batch[b].status = "stale" \/ batch[b].lease \in {"none", "expired"}
              /\ batch' = [batch EXCEPT ![b] = [status |-> "processing", lease |-> "live"]]
              /\ Goto(w, "loop")
           \/ /\ batch[b].status # "stale" /\ batch[b].lease = "live"
              /\ Goto(w, "idle")
              /\ UNCHANGED batch
        /\ UNCHANGED <<item, overtaken>>

-----------------------------------------------------------------------------
(* _resume_managed_agent_batch *)

\* MUTANT of Pick: the query does not ask for pending items.
Pick_AnyItem(w) ==
    LET b == worker[w].batch
    IN  /\ worker[w].pc = "loop"
        /\ \/ \E i \in ItemId : worker' = [worker EXCEPT ![w].pc = "item", ![w].item = i]
           \/ Pending(b) = {} /\ Goto(w, "finish")
        /\ UNCHANGED <<batch, item, overtaken>>

\* MUTANT of Pick: the loop ends one item early.
Pick_StopsEarly(w) ==
    LET b == worker[w].batch
    IN  /\ worker[w].pc = "loop"
        /\ \/ \E i \in Pending(b) : /\ \A j \in Pending(b) : i <= j
                                    /\ worker' = [worker EXCEPT ![w].pc = "item", ![w].item = i]
           \/ Cardinality(Pending(b)) <= 1 /\ Goto(w, "finish")
        /\ UNCHANGED <<batch, item, overtaken>>

\* The first pending item by id, or the end of the loop.
Pick(w) ==
    LET b == worker[w].batch
    IN  /\ worker[w].pc = "loop"
        /\ \/ \E i \in Pending(b) : /\ \A j \in Pending(b) : i <= j
                                    /\ worker' = [worker EXCEPT ![w].pc = "item", ![w].item = i]
           \/ Pending(b) = {} /\ Goto(w, "finish")
        /\ UNCHANGED <<batch, item, overtaken>>

\* MUTANT of Execute: what the operation did survives the rollback.
Execute_NoRollback(w, outcome) ==
    LET b == worker[w].batch
        i == worker[w].item
    IN  /\ worker[w].pc = "item"
        /\ item[b][i].effects < MaxEffects
        /\ item' = [item EXCEPT ![b][i] =
                      [result |-> outcome,
                       effects |-> IF outcome # "skipped" THEN @.effects + 1 ELSE @.effects]]
        /\ batch' = [batch EXCEPT ![b].lease = "live"]
        /\ Goto(w, "loop")
        /\ UNCHANGED overtaken

\* One round of the loop: the item is checked and executed, and the result, the
\* effect and the renewed lease are committed together; when the execution
\* raises, it is rolled back and only the failure and the lease are written.
Execute(w, outcome) ==
    LET b == worker[w].batch
        i == worker[w].item
    IN  /\ worker[w].pc = "item"
        /\ outcome = "success" => item[b][i].effects < MaxEffects
        /\ item' = [item EXCEPT ![b][i] =
                      [result |-> outcome,
                       effects |-> IF outcome = "success" THEN @.effects + 1 ELSE @.effects]]
        /\ batch' = [batch EXCEPT ![b].lease = "live"]
        /\ Goto(w, "loop")
        /\ UNCHANGED overtaken

Finish(w) ==
    /\ worker[w].pc = "finish"
    /\ batch' = [batch EXCEPT ![worker[w].batch] = [status |-> "completed", lease |-> "none"]]
    /\ Goto(w, "idle")
    /\ UNCHANGED <<item, overtaken>>

\* MUTANT of Interrupt: a status nobody asks for.
Interrupt_Unknown(w) ==
    LET b == worker[w].batch
    IN  /\ worker[w].pc \in {"loop", "item", "finish"}
        /\ batch' = [batch EXCEPT ![b] = [status |-> "interrupted", lease |-> "none"]]
        /\ Goto(w, "idle")
        /\ UNCHANGED <<item, overtaken>>

\* except BaseException: roll back and leave the batch to the next request.
Interrupt(w) ==
    LET b == worker[w].batch
    IN  /\ worker[w].pc \in {"loop", "item", "finish"}
        /\ batch' = [batch EXCEPT ![b] = [status |-> "stale", lease |-> "none"]]
        /\ Goto(w, "idle")
        /\ UNCHANGED <<item, overtaken>>

\* The server is killed, or even the note that the batch is stale fails.
Die(w) ==
    /\ worker[w].pc # "idle"
    /\ Goto(w, "idle")
    /\ UNCHANGED <<batch, item, overtaken>>

\* BATCH_LEASE_SECONDS without a committed item.
LeaseExpires(b) ==
    /\ batch[b].lease = "live"
    /\ batch' = [batch EXCEPT ![b].lease = "expired"]
    /\ overtaken' = [overtaken EXCEPT ![b] = @ \/ Executing(b) # {}]
    /\ UNCHANGED <<item, worker>>

Next ==
    \/ \E w \in Worker, b \in Batch : Submit(w, b)
    \/ \E w \in Worker : Create(w) \/ Claim(w) \/ Pick(w) \/ Finish(w) \/ Interrupt(w) \/ Die(w)
    \/ \E w \in Worker, outcome \in Final : Execute(w, outcome)
    \/ \E b \in Batch : LeaseExpires(b)

Spec == Init /\ [][Next]_vars

-----------------------------------------------------------------------------
(* Properties *)

\* A batch is reported completed only when every item has its result, however
\* many requests worked on it and were interrupted (_resume_managed_agent_batch).
CompletedMeansDone == \A b \in Batch : batch[b].status = "completed" => Pending(b) = {}

\* Unless an item took longer than the lease, one handler at a time executes the
\* items of a batch, however often it is interrupted, killed and resumed (the
\* UPDATE that takes the lease, and the unique key).
LeaseExcludes ==
    \A b \in Batch : ~overtaken[b] => \A v, w \in Executing(b) : v = w

\* Then the stored result tells what happened: the operation was carried out
\* exactly once on the devices that succeeded and not at all on the others
\* (one transaction per item, Execute of _resume_managed_agent_batch).
ResultTellsEffect ==
    \A b \in Batch, i \in ItemId :
       ~overtaken[b] => item[b][i].effects = IF item[b][i].result = "success" THEN 1 ELSE 0

\* And an item that has its result is not executed again by the requests that
\* resume the batch.
HolderRepeatsNothing ==
    [][\A b \in Batch, i \in ItemId :
          batch[b].status # "absent" /\ item[b][i].result # "pending" /\ ~overtaken[b]
          => item'[b][i] = item[b][i]]_vars

=============================================================================
