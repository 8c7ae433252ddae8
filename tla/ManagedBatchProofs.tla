------------------------- MODULE ManagedBatchProofs -------------------------
(***************************************************************************)
(* For any number of batches, devices and requests: a completed batch has  *)
(* no item left, and as long as no lease runs out under a handler, one      *)
(* handler at a time executes a batch and each item is carried out once.   *)
(***************************************************************************)
EXTENDS ManagedBatch, TLAPS

\* A handler that is about to complete a batch has seen the last pending item go,
\* and none comes back.
FinishInv == \A w \in Worker : worker[w].pc = "finish" => Pending(worker[w].batch) = {}

\* Unless its lease ran out under it, a handler that executes a batch holds it.
LeaseInv ==
    \A b \in Batch : ~overtaken[b] =>
       \A w \in Executing(b) : batch[b] = [status |-> "processing", lease |-> "live"]

\* A handler that creates a batch is not executing it; one that resumes it found
\* it in the table.
CreatedInv ==
    /\ \A w \in Worker : worker[w].pc = "claim" => batch[worker[w].batch].status # "absent"
    /\ \A b \in Batch : Executing(b) # {} => batch[b].status # "absent"

Inv == /\ TypeOK /\ FinishInv /\ CompletedMeansDone
       /\ CreatedInv /\ LeaseInv /\ LeaseExcludes

LEMMA InvInit == Init => Inv
  BY BatchAssumption
     DEF Init, Inv, TypeOK, BatchRow, ItemRow, Handler, ItemId, FinishInv, CompletedMeansDone,
         CreatedInv, LeaseInv, LeaseExcludes, Executing

PC == {"idle", "create", "claim", "loop", "item", "finish"}

LEMMA GotoStep ==
    ASSUME TypeOK, NEW w \in Worker, NEW pc \in PC, Goto(w, pc)
    PROVE  /\ worker' \in [Worker -> Handler]
           /\ \A v \in Worker : /\ worker'[v].batch = worker[v].batch
                                /\ worker'[v].pc = IF v = w THEN pc ELSE worker[v].pc
  BY DEF TypeOK, Goto, Handler, PC

\* Types.
LEMMA TypeStep == TypeOK /\ [Next]_vars => TypeOK'
  <1> SUFFICES ASSUME TypeOK, [Next]_vars PROVE TypeOK'
    OBVIOUS
  <1>0. /\ batch \in [Batch -> BatchRow] /\ item \in [Batch -> [ItemId -> ItemRow]]
        /\ worker \in [Worker -> Handler] /\ overtaken \in [Batch -> BOOLEAN]
        /\ \A w \in Worker : worker[w].batch \in Batch /\ worker[w].item \in ItemId
    BY DEF TypeOK, Handler
  <1>9. ASSUME NEW w \in Worker, NEW pc \in PC, Goto(w, pc) PROVE worker' \in [Worker -> Handler]
    BY <1>9, GotoStep
  <1>10. ASSUME NEW b \in Batch, NEW row \in BatchRow, batch' = [batch EXCEPT ![b] = row]
        PROVE  batch' \in [Batch -> BatchRow]
    BY <1>0, <1>10
  <1>1. ASSUME NEW w \in Worker, NEW b \in Batch, Submit(w, b) PROVE TypeOK'
    <2>1. PICK pc \in PC : worker' = [worker EXCEPT ![w].pc = pc, ![w].batch = b]
      BY <1>1 DEF Submit, PC
    <2>2. PICK h \in Handler : h = [worker[w] EXCEPT !.pc = pc, !.batch = b]
      BY <1>0 DEF Handler, PC
    <2>3. worker' = [worker EXCEPT ![w] = h]
      BY <1>0, <2>1, <2>2
    <2>4. worker' \in [Worker -> Handler]
      BY <1>0, <2>3
    <2> QED
      BY <1>0, <1>1, <2>4 DEF Submit, TypeOK
  <1>2. ASSUME NEW w \in Worker, Create(w) PROVE TypeOK'
    <2>1. PICK b \in Batch : b = worker[w].batch
      BY <1>0
    <2>2. worker' \in [Worker -> Handler]
      BY <1>2, <1>9 DEF Create, PC
    <2>3. CASE batch[b].status # "absent"
      BY <1>0, <1>2, <2>1, <2>2, <2>3 DEF Create, TypeOK
    <2>4. CASE batch[b].status = "absent"
      <3>1. PICK first \in [ItemId -> {"pending", "failed", "skipped"}] :
               item' = [item EXCEPT ![b] = [i \in ItemId |-> [result |-> first[i], effects |-> 0]]]
        BY <1>2, <2>1, <2>4 DEF Create
      <3>2. [i \in ItemId |-> [result |-> first[i], effects |-> 0]] \in [ItemId -> ItemRow]
        BY BatchAssumption DEF ItemRow, Final
      <3>3. item' \in [Batch -> [ItemId -> ItemRow]]
        BY <1>0, <3>1, <3>2
      <3>4. batch' \in [Batch -> BatchRow]
        BY <1>2, <1>10, <2>1, <2>4 DEF Create, BatchRow
      <3> QED
        BY <1>0, <1>2, <2>2, <3>3, <3>4 DEF Create, TypeOK
    <2> QED
      BY <2>3, <2>4
  <1>3. ASSUME NEW w \in Worker, Claim(w) PROVE TypeOK'
    <2>1. worker' \in [Worker -> Handler]
      BY <1>3, <1>9 DEF Claim, PC
    <2>2. batch' \in [Batch -> BatchRow]
      BY <1>0, <1>3, <1>10 DEF Claim, BatchRow
    <2> QED
      BY <1>0, <1>3, <2>1, <2>2 DEF Claim, TypeOK
  <1>4. ASSUME NEW w \in Worker, Pick(w) PROVE TypeOK'
    <2>1. CASE Goto(w, "finish")
      BY <1>0, <1>4, <1>9, <2>1 DEF Pick, PC, TypeOK
    <2>2. ASSUME NEW i \in ItemId, worker' = [worker EXCEPT ![w].pc = "item", ![w].item = i]
          PROVE  TypeOK'
      <3>1. PICK h \in Handler : h = [worker[w] EXCEPT !.pc = "item", !.item = i]
        BY <1>0, <2>2 DEF Handler
      <3>2. worker' = [worker EXCEPT ![w] = h]
        BY <1>0, <2>2, <3>1
      <3>3. worker' \in [Worker -> Handler]
        BY <1>0, <3>2
      <3>4. batch' = batch /\ item' = item /\ overtaken' = overtaken
        BY <1>4 DEF Pick
      <3> QED
        BY <1>0, <3>3, <3>4 DEF TypeOK
    <2> QED
      BY <1>4, <2>1, <2>2 DEF Pick, Pending
  <1>5. ASSUME NEW w \in Worker, NEW outcome \in Final, Execute(w, outcome) PROVE TypeOK'
    <2>1. PICK b \in Batch, i \in ItemId : b = worker[w].batch /\ i = worker[w].item
      BY <1>0
    <2>2. item[b][i].effects \in 0 .. MaxEffects
      BY <1>0 DEF ItemRow
    <2>3. PICK n \in 0 .. MaxEffects :
             n = IF outcome = "success" THEN item[b][i].effects + 1 ELSE item[b][i].effects
      <3>1. outcome = "success" => item[b][i].effects < MaxEffects
        BY <1>5, <2>1 DEF Execute
      <3> QED
        BY <2>2, <3>1, BatchAssumption
    <2>4. item' = [item EXCEPT ![b] = [item[b] EXCEPT ![i] = [result |-> outcome, effects |-> n]]]
      BY <1>0, <1>5, <2>1, <2>3 DEF Execute
    <2>5. [result |-> outcome, effects |-> n] \in ItemRow
      BY DEF ItemRow
    <2>6. item' \in [Batch -> [ItemId -> ItemRow]]
      BY <1>0, <2>4, <2>5
    <2>7. batch' \in [Batch -> BatchRow]
      BY <1>0, <1>5 DEF Execute, BatchRow
    <2> QED
      BY <1>0, <1>5, <1>9, <2>6, <2>7 DEF Execute, PC, TypeOK
  <1>6. ASSUME NEW w \in Worker, Finish(w) \/ Interrupt(w) \/ Die(w) PROVE TypeOK'
    <2>1. worker' \in [Worker -> Handler]
      BY <1>6, <1>9 DEF Finish, Interrupt, Die, PC
    <2>2. PICK b \in Batch : b = worker[w].batch
      BY <1>0
    <2>3. batch' \in [Batch -> BatchRow]
      BY <1>0, <1>6, <1>10, <2>2 DEF Finish, Interrupt, Die, BatchRow
    <2>4. overtaken' \in [Batch -> BOOLEAN] /\ item' = item
      BY <1>0, <1>6 DEF Finish, Interrupt, Die
    <2> QED
      BY <1>0, <2>1, <2>3, <2>4 DEF TypeOK
  <1>7. ASSUME NEW b \in Batch, LeaseExpires(b) PROVE TypeOK'
    BY <1>0, <1>7 DEF LeaseExpires, BatchRow, TypeOK
  <1>8. CASE UNCHANGED vars
    BY <1>0, <1>8 DEF vars, TypeOK
  <1> QED
    BY <1>1, <1>2, <1>3, <1>4, <1>5, <1>6, <1>7, <1>8 DEF Next

-----------------------------------------------------------------------------
(* The invariant *)

\* Steps of handlers that neither start executing a batch nor change one.
LEMMA HandlerStays ==
    ASSUME Inv, TypeOK', NEW w \in Worker, UNCHANGED <<batch, item, overtaken>>,
           \A v \in Worker : v # w => worker'[v] = worker[v],
           worker'[w].pc \in {"loop", "item", "finish"} =>
              /\ worker[w].pc \in {"loop", "item", "finish"}
              /\ worker'[w].batch = worker[w].batch,
           worker'[w].pc = "claim" => batch[worker'[w].batch].status # "absent",
           worker'[w].pc = "finish" => Pending(worker'[w].batch) = {}
    PROVE  Inv'
  <1>1. \A b \in Batch : Executing(b)' \subseteq Executing(b)
    BY DEF Executing
  <1>2. \A b \in Batch : Pending(b)' = Pending(b)
    BY DEF Pending
  <1>3. FinishInv'
    <2>1. \A v \in Worker : worker'[v].batch \in Batch
      BY DEF TypeOK, Handler
    <2>2. \A v \in Worker : worker'[v].pc = "finish" => Pending(worker'[v].batch) = {}
      BY DEF Inv, FinishInv
    <2>3. SUFFICES ASSUME NEW v \in Worker, NEW b \in Batch,
                          worker'[v].pc = "finish", worker'[v].batch = b
                   PROVE  Pending(b)' = {}
      BY <2>1 DEF FinishInv, Pending
    <2> QED
      BY <1>2, <2>2, <2>3
  <1>5. CompletedMeansDone'
    BY <1>2 DEF Inv, CompletedMeansDone
  <1>4. CreatedInv' /\ LeaseInv' /\ LeaseExcludes'
    BY <1>1 DEF Inv, CreatedInv, LeaseInv, LeaseExcludes
  <1> QED
    BY <1>3, <1>4, <1>5 DEF Inv

\* Steps that leave the handlers of a batch as they are or fewer, and its pending
\* items too and do not take the
\* lease away from a handler.
LEMMA BatchChanges ==
    ASSUME Inv, TypeOK', NEW b \in Batch, NEW row \in BatchRow,
           batch' = [batch EXCEPT ![b] = row], row.status # "absent",
           \A c \in Batch : /\ Executing(c)' \subseteq Executing(c)
                            /\ Pending(c)' \subseteq Pending(c)
                            /\ c # b => overtaken'[c] = overtaken[c],
           \A v \in Worker : /\ worker'[v].batch = worker[v].batch
                             /\ worker'[v].pc = "finish" => worker[v].pc = "finish"
                             /\ worker'[v].pc = "claim" => worker[v].pc = "claim",
           row.status = "completed" => batch[b].status = "completed" \/ Pending(b)' = {},
           ~overtaken'[b] => /\ ~overtaken[b]
                             /\ Executing(b)' # {} => row = [status |-> "processing", lease |-> "live"]
    PROVE  Inv'
  <1>1. \A c \in Batch : c # b => batch'[c] = batch[c]
    BY DEF Inv, TypeOK
  <1>2. batch'[b] = row
    BY DEF Inv, TypeOK
  <1>3. \A v \in Worker : worker[v].batch \in Batch
    BY DEF Inv, TypeOK, Handler
  <1>4. FinishInv'
    BY <1>3 DEF Inv, FinishInv
  <1>5. CompletedMeansDone'
    BY <1>1, <1>2 DEF Inv, CompletedMeansDone
  <1>6. CreatedInv'
    BY <1>1, <1>2, <1>3 DEF Inv, CreatedInv
  <1>7. LeaseInv'
    BY <1>1, <1>2 DEF Inv, LeaseInv
  <1>8. LeaseExcludes'
    BY DEF Inv, LeaseExcludes
  <1> QED
    BY <1>4, <1>5, <1>6, <1>7, <1>8 DEF Inv

\* A handler starts executing a batch nobody else executes, or one whose lease ran out.
LEMMA Starts ==
    ASSUME Inv, TypeOK', NEW w \in Worker, NEW b \in Batch, b = worker[w].batch,
           batch' = [batch EXCEPT ![b] = [status |-> "processing", lease |-> "live"]],
           Goto(w, "loop"), UNCHANGED overtaken,
           ~overtaken[b] => Executing(b) = {},
           \A c \in Batch : c # b => Pending(c)' = Pending(c),
           \A v \in Worker : worker[v].pc = "finish" /\ worker[v].batch = b => Pending(b)' = {}
    PROVE  Inv'
  <1>1. \A c \in Batch : c # b => batch'[c] = batch[c]
    BY DEF Inv, TypeOK
  <1>2. batch'[b] = [status |-> "processing", lease |-> "live"]
    BY DEF Inv, TypeOK
  <1>3. \A v \in Worker : /\ worker[v].batch \in Batch
                          /\ worker'[v].batch = worker[v].batch
                          /\ worker'[v].pc = IF v = w THEN "loop" ELSE worker[v].pc
    BY GotoStep DEF Inv, TypeOK, Handler, PC
  <1>4. \A c \in Batch : Executing(c)' = IF c = b THEN Executing(b) \cup {w} ELSE Executing(c) \ {w}
    BY <1>3 DEF Executing
  <1>5. FinishInv'
    BY <1>3 DEF Inv, FinishInv
  <1>6. CompletedMeansDone'
    BY <1>1, <1>2 DEF Inv, CompletedMeansDone
  <1>7. CreatedInv'
    BY <1>1, <1>2, <1>3, <1>4 DEF Inv, CreatedInv
  <1>8. LeaseInv'
    BY <1>1, <1>2, <1>4 DEF Inv, LeaseInv
  <1>9. LeaseExcludes'
    BY <1>4 DEF Inv, LeaseExcludes
  <1> QED
    BY <1>5, <1>6, <1>7, <1>8, <1>9 DEF Inv

LEMMA InvStep == Inv /\ [Next]_vars => Inv'
  <1> SUFFICES ASSUME Inv, [Next]_vars PROVE Inv'
    OBVIOUS
  <1>0. /\ TypeOK /\ TypeOK' /\ batch \in [Batch -> BatchRow]
        /\ worker \in [Worker -> Handler] /\ item \in [Batch -> [ItemId -> ItemRow]]
        /\ \A w \in Worker : worker[w].batch \in Batch /\ worker[w].item \in ItemId
    BY TypeStep DEF Inv, TypeOK, Handler
  <1>1. ASSUME NEW w \in Worker, NEW b \in Batch, Submit(w, b) PROVE Inv'
    <2>1. PICK pc \in {"create", "claim"} :
             /\ worker' = [worker EXCEPT ![w].pc = pc, ![w].batch = b]
             /\ pc = "claim" => batch[b].status # "absent"
      BY <1>1 DEF Submit
    <2>2. worker'[w].pc = pc /\ worker'[w].batch = b
      BY <1>0, <2>1 DEF Handler
    <2>3. \A v \in Worker : v # w => worker'[v] = worker[v]
      BY <1>0, <2>1
    <2> QED
      BY <1>0, <1>1, <2>1, <2>2, <2>3, HandlerStays DEF Submit
  <1>2. ASSUME NEW w \in Worker, Goto(w, "idle"), UNCHANGED <<batch, item, overtaken>> PROVE Inv'
    <2>1. worker'[w].pc = "idle" /\ \A v \in Worker : v # w => worker'[v] = worker[v]
      BY <1>0, <1>2 DEF Goto, Handler
    <2> QED
      BY <1>0, <1>2, <2>1, HandlerStays
  <1>3. ASSUME NEW w \in Worker, Create(w) PROVE Inv'
    <2>1. PICK b \in Batch : b = worker[w].batch
      BY <1>0
    <2>2. CASE batch[b].status # "absent"
      BY <1>2, <1>3, <2>1, <2>2 DEF Create
    <2>3. CASE batch[b].status = "absent"
      <3>1. Executing(b) = {}
        BY <2>3 DEF Inv, CreatedInv
      <3>2. \A v \in Worker : ~(worker[v].pc = "finish" /\ worker[v].batch = b)
        BY <3>1 DEF Executing
      <3>3. \A c \in Batch : c # b => Pending(c)' = Pending(c)
        BY <1>0, <1>3, <2>1, <2>3 DEF Create, Pending
      <3>4. /\ batch' = [batch EXCEPT ![b] = [status |-> "processing", lease |-> "live"]]
            /\ Goto(w, "loop") /\ UNCHANGED overtaken
        BY <1>3, <2>1, <2>3 DEF Create
      <3> QED
        BY <1>0, <2>1, <3>1, <3>2, <3>3, <3>4, Starts
    <2> QED
      BY <2>2, <2>3
  <1>4. ASSUME NEW w \in Worker, Claim(w) PROVE Inv'
    <2>1. PICK b \in Batch : b = worker[w].batch
      BY <1>0
    <2>2. CASE batch[b].status # "stale" /\ batch[b].lease = "live"
      BY <1>2, <1>4, <2>1, <2>2 DEF Claim
    <2>3. CASE batch[b].status = "stale" \/ batch[b].lease \in {"none", "expired"}
      <3>1. ~overtaken[b] => Executing(b) = {}
        BY <2>3 DEF Inv, LeaseInv
      <3>2. /\ batch' = [batch EXCEPT ![b] = [status |-> "processing", lease |-> "live"]]
            /\ Goto(w, "loop") /\ UNCHANGED <<item, overtaken>>
        BY <1>4, <2>1, <2>3 DEF Claim
      <3>3. \A c \in Batch : Pending(c)' = Pending(c)
        BY <3>2 DEF Pending
      <3>4. \A v \in Worker : worker[v].pc = "finish" /\ worker[v].batch = b => Pending(b)' = {}
        BY <3>3 DEF Inv, FinishInv
      <3> QED
        BY <1>0, <2>1, <3>1, <3>2, <3>3, <3>4, Starts
    <2> QED
      BY <1>0, <2>2, <2>3 DEF BatchRow
  <1>5. ASSUME NEW w \in Worker, Pick(w) PROVE Inv'
    <2>1. /\ \A v \in Worker : v # w => worker'[v] = worker[v]
          /\ worker'[w].batch = worker[w].batch
          /\ worker'[w].pc \in {"item", "finish"} /\ worker[w].pc = "loop"
          /\ worker'[w].pc = "finish" => Pending(worker[w].batch) = {}
      BY <1>0, <1>5 DEF Pick, Goto, Handler
    <2> QED
      BY <1>0, <1>5, <2>1, HandlerStays DEF Pick
  <1>6. ASSUME NEW w \in Worker, NEW outcome \in Final, Execute(w, outcome) PROVE Inv'
    <2>1. PICK b \in Batch, i \in ItemId : b = worker[w].batch /\ i = worker[w].item
      BY <1>0
    <2>2. PICK row \in BatchRow : row = [batch[b] EXCEPT !.lease = "live"]
      BY <1>0 DEF BatchRow
    <2>3. batch' = [batch EXCEPT ![b] = row] /\ row.status = batch[b].status /\ row.lease = "live"
      BY <1>0, <1>6, <2>1, <2>2 DEF Execute, BatchRow
    <2>4. /\ \A v \in Worker : worker'[v].batch = worker[v].batch
          /\ worker'[w].pc = "loop" /\ worker[w].pc = "item"
          /\ \A v \in Worker : v # w => worker'[v].pc = worker[v].pc
      BY <1>0, <1>6, GotoStep DEF Execute, PC
    <2>5. \A c \in Batch : Executing(c)' = Executing(c)
      BY <2>4 DEF Executing
    <2>6. \A c \in Batch : Pending(c)' \subseteq Pending(c)
      <3>1. "pending" \notin Final
        BY DEF Final
      <3>2. \A c \in Batch, j \in ItemId :
               item'[c][j] = item[c][j] \/ (c = b /\ j = i /\ item'[c][j].result = outcome)
        BY <1>0, <1>6, <2>1 DEF Execute, ItemRow
      <3> QED
        BY <3>1, <3>2 DEF Pending
    <2>7. w \in Executing(b)
      BY <2>1, <2>4 DEF Executing
    <2>8. ~overtaken[b] => batch[b] = [status |-> "processing", lease |-> "live"]
      BY <2>7 DEF Inv, LeaseInv
    <2>9. batch[b].status # "absent"
      BY <2>7 DEF Inv, CreatedInv
    <2>10. ~overtaken[b] => row = [status |-> "processing", lease |-> "live"]
      BY <2>2, <2>8
    <2>11. overtaken' = overtaken
      BY <1>6 DEF Execute
    <2> QED
      BY <1>0, <2>3, <2>4, <2>5, <2>6, <2>9, <2>10, <2>11, BatchChanges
  <1>7. ASSUME NEW w \in Worker, Finish(w) \/ Interrupt(w) PROVE Inv'
    <2>1. PICK b \in Batch : b = worker[w].batch
      BY <1>0
    <2>2. PICK row \in BatchRow :
             /\ batch' = [batch EXCEPT ![b] = row] /\ row.lease = "none"
             /\ overtaken' = overtaken /\ row.status # "absent"
             /\ row.status = "completed" => worker[w].pc = "finish"
      BY <1>7, <2>1 DEF Finish, Interrupt, BatchRow
    <2>3. /\ \A v \in Worker : worker'[v].batch = worker[v].batch
          /\ worker'[w].pc = "idle" /\ item' = item
          /\ \A v \in Worker : v # w => worker'[v].pc = worker[v].pc
      BY <1>0, <1>7, GotoStep DEF Finish, Interrupt, PC
    <2>4. \A c \in Batch : Executing(c)' = Executing(c) \ {w} /\ Pending(c)' = Pending(c)
      BY <2>3 DEF Executing, Pending
    <2>5. row.status = "completed" => Pending(b)' = {}
      BY <2>1, <2>2, <2>4 DEF Inv, FinishInv
    <2>6. w \in Executing(b)
      BY <1>7, <2>1 DEF Executing, Finish, Interrupt
    <2>7. ~overtaken[b] => Executing(b)' = {}
      BY <2>4, <2>6 DEF Inv, LeaseExcludes
    <2> QED
      BY <1>0, <2>2, <2>3, <2>4, <2>5, <2>6, <2>7, BatchChanges
  <1>8. ASSUME NEW w \in Worker, Die(w) PROVE Inv'
    BY <1>2, <1>8 DEF Die
  <1>9. ASSUME NEW b \in Batch, LeaseExpires(b) PROVE Inv'
    <2>1. PICK row \in BatchRow : row = [batch[b] EXCEPT !.lease = "expired"]
      BY <1>0 DEF BatchRow
    <2>2. batch' = [batch EXCEPT ![b] = row] /\ row.status = batch[b].status
      BY <1>0, <1>9, <2>1 DEF LeaseExpires, BatchRow
    <2>3. /\ overtaken'[b] = (overtaken[b] \/ Executing(b) # {})
          /\ \A c \in Batch : c # b => overtaken'[c] = overtaken[c]
      BY <1>0, <1>9 DEF LeaseExpires, TypeOK
    <2>4. \A c \in Batch : Executing(c)' = Executing(c) /\ Pending(c)' = Pending(c)
      BY <1>9 DEF LeaseExpires, Executing, Pending
    <2>5. FinishInv'
      <3>1. worker' = worker
        BY <1>9 DEF LeaseExpires
      <3>2. SUFFICES ASSUME NEW v \in Worker, NEW b1 \in Batch,
                            worker[v].pc = "finish", worker[v].batch = b1
                     PROVE  Pending(b1)' = {}
        BY <1>0, <3>1 DEF FinishInv, Pending
      <3>3. Pending(b1) = {}
        BY <3>2 DEF Inv, FinishInv
      <3> QED
        BY <2>4, <3>3
    <2>6. \A c \in Batch : batch'[c].status = batch[c].status
      BY <1>0, <2>2
    <2>7. CompletedMeansDone' /\ CreatedInv'
      BY <1>9, <2>4, <2>6 DEF LeaseExpires, Inv, CompletedMeansDone, CreatedInv
    <2>8. \A c \in Batch : ~overtaken'[c] =>
             ~overtaken[c] /\ (batch'[c] = batch[c] \/ Executing(c) = {})
      BY <1>0, <2>2, <2>3
    <2>9. LeaseInv' /\ LeaseExcludes'
      BY <2>4, <2>8 DEF Inv, LeaseInv, LeaseExcludes
    <2> QED
      BY <1>0, <2>5, <2>7, <2>9 DEF Inv
  <1>10. CASE UNCHANGED vars
    BY <1>10 DEF vars, Inv, TypeOK, FinishInv, CompletedMeansDone, CreatedInv, LeaseInv,
                 LeaseExcludes, Executing, Pending
  <1> QED
    BY <1>1, <1>3, <1>4, <1>5, <1>6, <1>7, <1>8, <1>9, <1>10 DEF Next

-----------------------------------------------------------------------------
(* What the holder of the lease does to the items *)

\* The item a handler has picked is still pending when it executes it.
PickedInv ==
    \A w \in Worker : worker[w].pc = "item" /\ ~overtaken[worker[w].batch]
                      => item[worker[w].batch][worker[w].item].result = "pending"

ItemInv == PickedInv /\ ResultTellsEffect

LEMMA ItemInit == Init => ItemInv
  BY DEF Init, ItemInv, PickedInv, ResultTellsEffect

\* Steps that change no item and start executing none.
LEMMA ItemsStay ==
    ASSUME Inv, Inv', ItemInv, item' = item,
           \A b \in Batch : ~overtaken'[b] => ~overtaken[b],
           \A w \in Worker : worker'[w].pc = "item" => worker'[w] = worker[w]
    PROVE  ItemInv'
  <1>1. \A w \in Worker : worker'[w].batch \in Batch
    BY DEF Inv, TypeOK, Handler
  <1> QED
    BY <1>1 DEF ItemInv, PickedInv, ResultTellsEffect

\* The step of a handler that writes one item.
LEMMA ExecuteItem ==
    ASSUME Inv, ItemInv, NEW w \in Worker, NEW outcome \in Final, Execute(w, outcome),
           NEW b \in Batch, NEW i \in ItemId, b = worker[w].batch, i = worker[w].item
    PROVE  /\ \A c \in Batch, j \in ItemId : c # b \/ j # i => item'[c][j] = item[c][j]
           /\ ~overtaken[b] =>
                 /\ item[b][i].result = "pending"
                 /\ item'[b][i].result = outcome
                 /\ item'[b][i].effects = IF outcome = "success" THEN 1 ELSE 0
  <1>1. item \in [Batch -> [ItemId -> ItemRow]]
    BY DEF Inv, TypeOK
  <1>2. /\ item' = [item EXCEPT ![b] = [item[b] EXCEPT ![i] =
                      [result  |-> outcome,
                       effects |-> IF outcome = "success" THEN item[b][i].effects + 1
                                                          ELSE item[b][i].effects]]]
        /\ worker[w].pc = "item"
    BY DEF Execute
  <1>3. ~overtaken[b] => item[b][i].result = "pending" /\ item[b][i].effects = 0
    BY <1>2 DEF ItemInv, PickedInv, ResultTellsEffect
  <1> QED
    BY <1>1, <1>2, <1>3

LEMMA ItemStep == Inv /\ Inv' /\ ItemInv /\ [Next]_vars => ItemInv'
  <1> SUFFICES ASSUME Inv, Inv', ItemInv, [Next]_vars PROVE ItemInv'
    OBVIOUS
  <1>0. /\ worker \in [Worker -> Handler] /\ item \in [Batch -> [ItemId -> ItemRow]]
        /\ worker' \in [Worker -> Handler]
        /\ \A w \in Worker : worker[w].batch \in Batch /\ worker[w].item \in ItemId
    BY DEF Inv, TypeOK, Handler
  <1>1. ASSUME NEW w \in Worker, NEW pc \in PC \ {"item"}, Goto(w, pc),
               UNCHANGED <<item, overtaken>>
        PROVE  ItemInv'
    <2>1. \A v \in Worker : worker'[v].pc = "item" => worker'[v] = worker[v]
      BY <1>0, <1>1 DEF Goto, Handler
    <2> QED
      BY <1>1, <2>1, ItemsStay
  <1>2. ASSUME NEW w \in Worker, NEW b \in Batch, Submit(w, b) PROVE ItemInv'
    <2>1. \A v \in Worker : worker'[v].pc = "item" => worker'[v] = worker[v]
      BY <1>0, <1>2 DEF Submit, Handler
    <2> QED
      BY <1>2, <2>1, ItemsStay DEF Submit
  <1>3. ASSUME NEW w \in Worker, Create(w) PROVE ItemInv'
    <2>1. PICK b \in Batch : b = worker[w].batch
      BY <1>0
    <2>2. CASE batch[b].status # "absent"
      BY <1>1, <1>3, <2>1, <2>2 DEF Create, PC
    <2>3. CASE batch[b].status = "absent"
      <3>1. PICK first \in [ItemId -> {"pending", "failed", "skipped"}] :
               item' = [item EXCEPT ![b] = [j \in ItemId |-> [result |-> first[j], effects |-> 0]]]
        BY <1>3, <2>1, <2>3 DEF Create
      <3>2. \A v \in Worker : worker[v].pc = "item" => worker[v].batch # b
        BY <2>3 DEF Inv, CreatedInv, Executing
      <3>3. \A v \in Worker : worker'[v].pc = "item" => worker'[v] = worker[v]
        BY <1>0, <1>3, <2>1, <2>3 DEF Create, Goto, Handler
      <3>4. \A c \in Batch, j \in ItemId :
               IF c = b THEN item'[c][j].effects = 0 /\ item'[c][j].result # "success"
                        ELSE item'[c][j] = item[c][j]
        BY <1>0, <3>1
      <3>5. overtaken' = overtaken
        BY <1>3 DEF Create
      <3>6. PickedInv'
        BY <1>0, <3>2, <3>3, <3>4, <3>5 DEF ItemInv, PickedInv
      <3>7. ResultTellsEffect'
        BY <3>4, <3>5 DEF ItemInv, ResultTellsEffect
      <3> QED
        BY <3>6, <3>7 DEF ItemInv
    <2> QED
      BY <2>2, <2>3
  <1>4. ASSUME NEW w \in Worker, Claim(w) \/ Finish(w) \/ Interrupt(w) \/ Die(w) PROVE ItemInv'
    BY <1>1, <1>4 DEF Claim, Finish, Interrupt, Die, PC
  <1>5. ASSUME NEW w \in Worker, Pick(w) PROVE ItemInv'
    <2>1. CASE Goto(w, "finish")
      BY <1>1, <1>5, <2>1 DEF Pick, PC
    <2>2. ASSUME NEW i \in Pending(worker[w].batch),
                 worker' = [worker EXCEPT ![w].pc = "item", ![w].item = i]
          PROVE  ItemInv'
      <3>1. item' = item /\ overtaken' = overtaken
        BY <1>5 DEF Pick
      <3>2. /\ worker'[w].batch = worker[w].batch /\ worker'[w].item = i
            /\ \A v \in Worker : v # w => worker'[v] = worker[v]
        BY <1>0, <2>2 DEF Handler
      <3>3. item[worker[w].batch][i].result = "pending"
        BY <2>2 DEF Pending
      <3>4. PickedInv'
        BY <3>1, <3>2, <3>3 DEF ItemInv, PickedInv
      <3> QED
        BY <3>1, <3>4 DEF ItemInv, ResultTellsEffect
    <2> QED
      BY <1>5, <2>1, <2>2 DEF Pick
  <1>6. ASSUME NEW w \in Worker, NEW outcome \in Final, Execute(w, outcome) PROVE ItemInv'
    <2>1. PICK b \in Batch, i \in ItemId : b = worker[w].batch /\ i = worker[w].item
      BY <1>0
    <2>2. overtaken' = overtaken /\ worker[w].pc = "item"
      BY <1>6 DEF Execute
    <2>3. /\ worker'[w].pc = "loop"
          /\ \A v \in Worker : v # w => worker'[v] = worker[v]
      BY <1>0, <1>6 DEF Execute, Goto, Handler
    <2>4. \A v \in Worker : worker[v].pc = "item" /\ worker[v].batch = b /\ ~overtaken[b] => v = w
      BY <2>1, <2>2 DEF Inv, LeaseExcludes, Executing
    <2>5. PickedInv'
      <3>1. SUFFICES ASSUME NEW v \in Worker, worker'[v].pc = "item", ~overtaken[worker'[v].batch]
                     PROVE  item'[worker'[v].batch][worker'[v].item].result = "pending"
        BY <2>2 DEF PickedInv
      <3>2. v # w /\ worker'[v] = worker[v]
        BY <2>3, <3>1
      <3>3. worker[v].batch # b
        BY <2>4, <3>1, <3>2
      <3>4. item'[worker[v].batch][worker[v].item] = item[worker[v].batch][worker[v].item]
        BY <1>0, <1>6, <2>1, <3>3, ExecuteItem
      <3> QED
        BY <3>1, <3>2, <3>4 DEF ItemInv, PickedInv
    <2>6. \A c \in Batch, j \in ItemId : c # b \/ j # i => item'[c][j] = item[c][j]
      BY <1>6, <2>1, ExecuteItem
    <2>7. ~overtaken[b] => item'[b][i].effects = IF item'[b][i].result = "success" THEN 1 ELSE 0
      BY <1>6, <2>1, ExecuteItem
    <2>8. ResultTellsEffect'
      BY <2>2, <2>6, <2>7 DEF ItemInv, ResultTellsEffect
    <2> QED
      BY <2>5, <2>8 DEF ItemInv
  <1>7. ASSUME NEW b \in Batch, LeaseExpires(b) PROVE ItemInv'
    <2>1. \A c \in Batch : ~overtaken'[c] => ~overtaken[c]
      BY <1>7 DEF LeaseExpires, Inv, TypeOK
    <2> QED
      BY <1>7, <2>1, ItemsStay DEF LeaseExpires
  <1>8. CASE UNCHANGED vars
    BY <1>8, ItemsStay DEF vars
  <1> QED
    BY <1>2, <1>3, <1>4, <1>5, <1>6, <1>7, <1>8 DEF Next

\* What a step may do to an item that has its result.
LEMMA DoneItemStep ==
    ASSUME Inv, ItemInv, [Next]_vars, NEW b \in Batch, NEW i \in ItemId,
           batch[b].status # "absent", item[b][i].result # "pending", ~overtaken[b]
    PROVE  item'[b][i] = item[b][i]
  <1>1. \A w \in Worker : worker[w].batch \in Batch /\ worker[w].item \in ItemId
    BY DEF Inv, TypeOK, Handler
  <1>2. ASSUME NEW w \in Worker, Create(w) PROVE item'[b][i] = item[b][i]
    <2>1. item \in [Batch -> [ItemId -> ItemRow]]
      BY DEF Inv, TypeOK
    <2> QED
      BY <1>1, <1>2, <2>1 DEF Create
  <1>3. ASSUME NEW w \in Worker, NEW outcome \in Final, Execute(w, outcome)
        PROVE  item'[b][i] = item[b][i]
    <2>1. PICK c \in Batch, j \in ItemId : c = worker[w].batch /\ j = worker[w].item
      BY <1>1
    <2> QED
      BY <1>3, <2>1, ExecuteItem
  <1> QED
    BY <1>2, <1>3 DEF Next, vars, Submit, Claim, Pick, Finish, Interrupt, Die, LeaseExpires

-----------------------------------------------------------------------------
(* Theorems *)

THEOREM BatchInvHolds == Spec => []Inv
  <1> QED
    BY InvInit, InvStep, PTL DEF Spec

\* The batches, their items and the handlers stay well typed.
THEOREM BatchesTypeCorrect == Spec => []TypeOK
  <1>1. Inv => TypeOK
    BY DEF Inv
  <1> QED
    BY <1>1, BatchInvHolds, PTL

\* A batch that is reported completed has no pending item, whatever interrupts it.
THEOREM CompletedBatchesAreDone == Spec => []CompletedMeansDone
  <1>1. Inv => CompletedMeansDone
    BY DEF Inv
  <1> QED
    BY <1>1, BatchInvHolds, PTL

\* Two handlers never execute the same batch before its lease runs out under one of them.
THEOREM LeaseIsExclusive == Spec => []LeaseExcludes
  <1>1. Inv => LeaseExcludes
    BY DEF Inv
  <1> QED
    BY <1>1, BatchInvHolds, PTL

\* As long as no lease runs out under a handler, each item is carried out exactly
\* once if its result is success, and not at all otherwise.
THEOREM ResultsTellEffects == Spec => []ResultTellsEffect
  <1>1. ItemInv => ResultTellsEffect
    BY DEF ItemInv
  <1> QED
    BY <1>1, BatchInvHolds, ItemInit, ItemStep, PTL DEF Spec

\* Then no request that resumes a batch executes an item that has its result.
THEOREM DoneItemsAreKept == Spec => HolderRepeatsNothing
  <1>1. Inv /\ ItemInv /\ [Next]_vars
        => [\A b \in Batch, i \in ItemId :
               batch[b].status # "absent" /\ item[b][i].result # "pending" /\ ~overtaken[b]
               => item'[b][i] = item[b][i]]_vars
    BY DoneItemStep
  <1> QED
    BY <1>1, BatchInvHolds, ItemInit, ItemStep, PTL DEF Spec, HolderRepeatsNothing

=============================================================================
