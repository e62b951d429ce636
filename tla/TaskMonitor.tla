---------------------------- MODULE TaskMonitor ----------------------------
(***************************************************************************)
(* The polling loop of the Rust operator (operator/rust/crates/operator/   *)
(* src/start_operator.rs: monitor_new_tasks and sign_and_response_to_task) *)
(* against a chain that mines blocks at any moment.  The loop reads the    *)
(* logs from its cursor to the newest block, handles the tasks it finds    *)
(* one after the other, sleeps, and moves the cursor to what is the newest *)
(* block by then.                                                          *)
(***************************************************************************)
EXTENDS Integers, Sequences

CONSTANTS
    Tasks,          \* tasks that may be created
    LastBlock,      \* bound: later blocks are mined only for a pending transaction
    MaxSends        \* bound on the transactions the operator sends

ASSUME MonitorAssumption == LastBlock \in Nat /\ MaxSends \in Nat

VARIABLES
    head,           \* number of the newest block
    createdIn,      \* task -> number of the block with its event, 0 before
    pc,             \* where monitor_new_tasks is
    cursor,         \* latest_processed_block
    batch,          \* tasks of the logs read that are not handled yet
    txs,            \* the respondToTask transactions sent, in order
    first,          \* history: the first cursor
    seenUpTo,       \* history: the newest block when logs were read last
    seen,           \* history: tasks whose event was read
    skipped         \* history: blocks no get_logs ever covered

chainVars == <<head, createdIn>>
historyVars == <<first, seenUpTo, seen, skipped>>
vars == <<chainVars, pc, cursor, batch, txs, historyVars>>

Created(t) == createdIn[t] > 0
Pending == {k \in 1 .. Len(txs) : ~txs[k].mined}

Init ==
    /\ head = 1
    /\ createdIn = [t \in Tasks |-> 0]
    /\ pc = "start"
    /\ cursor = 0
    /\ batch = {}
    /\ txs = <<>>
    /\ first = 0
    /\ seenUpTo = 0
    /\ seen = {}
    /\ skipped = {}

----------------------------------------------------------------------------
(* A block with the events of some new tasks and some of the pending       *)
(* transactions.                                                           *)
MineBlock(new, included) ==
    /\ head < LastBlock \/ included # {}
    /\ head >= LastBlock => new = {}
    /\ head' = head + 1
    /\ createdIn' = [t \in Tasks |-> IF t \in new THEN head + 1 ELSE createdIn[t]]
    /\ txs' = [k \in 1 .. Len(txs) |->
                  IF k \in included THEN [txs[k] EXCEPT !.mined = TRUE] ELSE txs[k]]
    /\ UNCHANGED <<pc, cursor, batch, historyVars>>

(* The block number the loop starts from. *)
BeginTwoBack ==    \* mutant: two blocks back, below zero on a young chain
    /\ pc = "start"
    /\ cursor' = head - 2
    /\ first' = head - 2
    /\ seenUpTo' = head
    /\ pc' = "poll"
    /\ UNCHANGED <<chainVars, batch, txs, seen, skipped>>

Begin ==
    /\ pc = "start"
    /\ cursor' = head
    /\ first' = head
    /\ seenUpTo' = head
    /\ pc' = "poll"
    /\ UNCHANGED <<chainVars, batch, txs, seen, skipped>>

(* get_logs from the cursor to the newest block. *)
NewLogsAfterCursor == {t \in Tasks : Created(t) /\ createdIn[t] > cursor}    \* mutant
NewLogs == {t \in Tasks : Created(t) /\ createdIn[t] >= cursor}

ReadLogs ==
    /\ pc = "poll"
    /\ batch' = NewLogs
    /\ seen' = seen \cup NewLogs
    /\ seenUpTo' = head
    /\ pc' = "handle"
    /\ UNCHANGED <<chainVars, cursor, txs, first, skipped>>

(* Logs come in the order of their blocks; the response of a task is sent, *)
(* and the loop then waits for the receipt.                                *)
FirstOfBatch(t) == t \in batch /\ \A u \in batch : createdIn[t] <= createdIn[u]

SendResponse(t) ==
    /\ pc = "handle"
    /\ FirstOfBatch(t)
    /\ Len(txs) < MaxSends
    /\ txs' = Append(txs, [task |-> t, mined |-> FALSE, heard |-> FALSE])
    /\ batch' = batch \ {t}
    /\ pc' = "receipt"
    /\ UNCHANGED <<chainVars, cursor, historyVars>>

(* An error before the transaction is sent is dropped with the task. *)
SendFails(t) ==
    /\ pc = "handle"
    /\ FirstOfBatch(t)
    /\ batch' = batch \ {t}
    /\ UNCHANGED <<chainVars, pc, cursor, txs, historyVars>>

(* The receipt arrives once the transaction is mined, reverted or not. *)
ReceiptAtOnce ==    \* mutant: the transaction counts as answered when it is sent
    /\ pc = "receipt"
    /\ txs' = [txs EXCEPT ![Len(txs)].heard = TRUE]
    /\ pc' = "handle"
    /\ UNCHANGED <<chainVars, cursor, batch, historyVars>>

Receipt ==
    /\ pc = "receipt"
    /\ txs[Len(txs)].mined
    /\ txs' = [txs EXCEPT ![Len(txs)].heard = TRUE]
    /\ pc' = "handle"
    /\ UNCHANGED <<chainVars, cursor, batch, historyVars>>

(* get_receipt fails: the error is dropped, the transaction is not. *)
ReceiptFails ==
    /\ pc = "receipt"
    /\ pc' = "handle"
    /\ UNCHANGED <<chainVars, cursor, batch, txs, historyVars>>

(* After the sleep of 12 seconds the cursor jumps to the newest block; the *)
(* blocks mined between get_logs and now are read by nobody, but the last. *)
AdvancePastHead ==    \* mutant: the next block to read is taken to be head + 1
    /\ pc = "handle"
    /\ batch = {}
    /\ cursor' = head + 1
    /\ skipped' = skipped \cup (seenUpTo + 1 .. head - 1)
    /\ pc' = "poll"
    /\ UNCHANGED <<chainVars, batch, txs, first, seenUpTo, seen>>

Advance ==
    /\ pc = "handle"
    /\ batch = {}
    /\ cursor' = head
    /\ skipped' = skipped \cup (seenUpTo + 1 .. head - 1)
    /\ pc' = "poll"
    /\ UNCHANGED <<chainVars, batch, txs, first, seenUpTo, seen>>

(* An error of get_block_number or get_logs ends the loop, and nothing     *)
(* starts it again while main waits for Ctrl+C.                            *)
LoopEnds ==
    /\ \/ pc \in {"start", "poll"}
       \/ pc = "handle" /\ batch = {}
    /\ pc' = "ended"
    /\ UNCHANGED <<chainVars, cursor, batch, txs, historyVars>>

Next ==
    \/ \E new \in SUBSET {t \in Tasks : ~Created(t)}, included \in SUBSET Pending :
          MineBlock(new, included)
    \/ Begin \/ ReadLogs \/ Receipt \/ ReceiptFails \/ Advance \/ LoopEnds
    \/ \E t \in Tasks : SendResponse(t) \/ SendFails(t)

Spec == Init /\ [][Next]_vars

(* The loop keeps running and the chain keeps mining pending transactions. *)
Fairness ==
    /\ WF_vars(Begin)
    /\ WF_vars(ReadLogs)
    /\ WF_vars(\E t \in Tasks : SendResponse(t) \/ SendFails(t))
    /\ WF_vars(Receipt)
    /\ WF_vars(Advance)
    /\ WF_vars(\E included \in SUBSET Pending : included # {} /\ MineBlock({}, included))

FairSpec == Spec /\ Fairness

----------------------------------------------------------------------------
Transaction == [task: Tasks, mined: BOOLEAN, heard: BOOLEAN]

(* The state of the loop and of the chain holds values of their types, and *)
(* a receipt is waited for only after a transaction was sent.              *)
TypeOK ==
    /\ head \in Nat \ {0}
    /\ createdIn \in [Tasks -> Nat]
    /\ pc \in {"start", "poll", "handle", "receipt", "ended"}
    /\ cursor \in Nat
    /\ batch \subseteq Tasks
    /\ txs \in Seq(Transaction)
    /\ pc = "receipt" => txs # <<>>
    /\ first \in Nat
    /\ seenUpTo \in Nat
    /\ seen \subseteq Tasks
    /\ skipped \subseteq Nat

(* A task of a block the cursor has passed was read, unless its block was  *)
(* mined in between reading the logs and moving the cursor, and not last.  *)
OnlySkippedBlocksMissed ==
    \A t \in Tasks :
        Created(t) /\ first <= createdIn[t] /\ createdIn[t] < cursor
            => t \in seen \/ createdIn[t] \in skipped

(* Although the block at the cursor may be read again, a task is not       *)
(* answered again once the receipt of an answer was heard: the receipt     *)
(* means a newer block, so that the cursor leaves the block of the task.   *)
HeardAnswersAreFinal ==
    \A j, k \in 1 .. Len(txs) :
        j < k /\ txs[j].heard => txs[j].task # txs[k].task

(* A task of a block the loop has not passed is read in the end, unless    *)
(* the loop ends or the block is skipped.                                  *)
TasksAheadAreRead ==
    \A t \in Tasks :
        (Created(t) /\ pc # "start" /\ createdIn[t] >= cursor)
            ~> (t \in seen \/ createdIn[t] \in skipped \/ pc = "ended")

(* README.md:13 "All Operators who are registered to the AVS and has       *)
(* staked, delegated assets takes this request": no task created while the *)
(* operator monitors is passed over.                                       *)
NoTaskPassedOver ==
    \A t \in Tasks :
        Created(t) /\ first <= createdIn[t] /\ createdIn[t] < cursor => t \in seen
=============================================================================
