------------------------- MODULE TaskMonitor_proofs -------------------------
(* Proofs about TaskMonitor, for any tasks and any bounds. *)
EXTENDS TaskMonitor, SequenceTheorems, TLAPS

(* The types of the variables are preserved by every step of the loop and  *)
(* of the chain.                                                           *)
THEOREM TypeCorrect == Spec => []TypeOK
<1>1. Init => TypeOK
  BY DEF Init, TypeOK
<1>2. TypeOK /\ [Next]_vars => TypeOK'
  <2> SUFFICES ASSUME TypeOK, [Next]_vars PROVE TypeOK'
    OBVIOUS
  <2> USE DEF TypeOK, chainVars, historyVars
  <2>1. ASSUME NEW new \in SUBSET {t \in Tasks : ~Created(t)},
               NEW included \in SUBSET Pending, MineBlock(new, included)
        PROVE  TypeOK'
    <3>1. Len(txs) \in Nat /\ txs' \in [1 .. Len(txs) -> Transaction]
      <4>1. Len(txs) \in Nat /\ txs \in [1 .. Len(txs) -> Transaction]
        BY LenProperties
      <4>2. \A k \in 1 .. Len(txs) : [txs[k] EXCEPT !.mined = TRUE] \in Transaction
        BY <4>1 DEF Transaction
      <4>3. QED
        BY <4>1, <4>2, <2>1 DEF MineBlock
    <3>2. txs' \in Seq(Transaction)
      BY <3>1
    <3>3. head' \in Nat \ {0} /\ createdIn' \in [Tasks -> Nat]
      BY <2>1 DEF MineBlock
    <3>4. txs # <<>> => txs' # <<>>
      BY <3>1, <3>2
    <3>5. QED
      BY <2>1, <3>2, <3>3, <3>4 DEF MineBlock
  <2>2. CASE Begin
    BY <2>2 DEF Begin
  <2>3. CASE ReadLogs
    BY <2>3 DEF ReadLogs, NewLogs
  <2>4. ASSUME NEW t \in Tasks, SendResponse(t) PROVE TypeOK'
    BY <2>4 DEF SendResponse, Transaction
  <2>5. ASSUME NEW t \in Tasks, SendFails(t) PROVE TypeOK'
    BY <2>5 DEF SendFails
  <2>6. CASE Receipt
    <3> DEFINE last == [txs[Len(txs)] EXCEPT !.heard = TRUE]
    <3>1. Len(txs) \in 1 .. Len(txs) /\ txs[Len(txs)] \in Transaction
      BY <2>6, EmptySeq, LenProperties DEF Receipt
    <3>2. last \in Transaction
      BY <3>1 DEF Transaction
    <3>3. txs' = [txs EXCEPT ![Len(txs)] = last]
      BY <2>6 DEF Receipt
    <3>4. txs' \in Seq(Transaction)
      BY <3>1, <3>2, <3>3, ExceptSeq
    <3>5. QED
      BY <2>6, <3>4 DEF Receipt
  <2>7. CASE ReceiptFails
    BY <2>7 DEF ReceiptFails
  <2>8. CASE Advance
    BY <2>8 DEF Advance
  <2>9. CASE LoopEnds
    BY <2>9 DEF LoopEnds
  <2>10. CASE UNCHANGED vars
    BY <2>10 DEF vars
  <2>11. QED
    BY <2>1, <2>2, <2>3, <2>4, <2>5, <2>6, <2>7, <2>8, <2>9, <2>10 DEF Next
<1>3. QED
  BY <1>1, <1>2, PTL DEF Spec

----------------------------------------------------------------------------
(* What makes OnlySkippedBlocksMissed inductive: besides the tasks below    *)
(* the cursor, those up to the newest block seen are accounted for while   *)
(* the tasks of the last get_logs are handled.                             *)
Clock ==
    /\ seenUpTo <= head
    /\ cursor <= head
    /\ \A t \in Tasks : createdIn[t] <= head

Covered(bound) ==
    \A t \in Tasks :
        Created(t) /\ first <= createdIn[t] /\ createdIn[t] < bound
            => t \in seen \/ createdIn[t] \in skipped

CoverageInv ==
    /\ TypeOK
    /\ Clock
    /\ Covered(cursor)
    /\ pc \in {"handle", "receipt"} => Covered(seenUpTo + 1)

LEMMA ClockInit == Init => CoverageInv
  BY DEF Init, CoverageInv, TypeOK, Clock, Covered, Created

LEMMA ClockStep == CoverageInv /\ TypeOK' /\ [Next]_vars => CoverageInv'
<1> SUFFICES ASSUME CoverageInv, TypeOK', [Next]_vars PROVE CoverageInv'
  OBVIOUS
<1> USE DEF CoverageInv, TypeOK, Clock, Covered, Created, chainVars, historyVars
<1>1. ASSUME NEW new \in SUBSET {t \in Tasks : ~Created(t)},
             NEW included \in SUBSET Pending, MineBlock(new, included)
      PROVE  CoverageInv'
  BY <1>1 DEF MineBlock
<1>2. CASE Begin
  BY <1>2 DEF Begin
<1>3. CASE ReadLogs
  BY <1>3 DEF ReadLogs, NewLogs
<1>4. ASSUME NEW t \in Tasks, SendResponse(t) PROVE CoverageInv'
  BY <1>4 DEF SendResponse
<1>5. ASSUME NEW t \in Tasks, SendFails(t) PROVE CoverageInv'
  BY <1>5 DEF SendFails
<1>6. CASE Receipt
  BY <1>6 DEF Receipt
<1>7. CASE ReceiptFails
  BY <1>7 DEF ReceiptFails
<1>8. CASE Advance
  BY <1>8 DEF Advance
<1>9. CASE LoopEnds
  BY <1>9 DEF LoopEnds
<1>10. CASE UNCHANGED vars
  BY <1>10 DEF vars
<1>11. QED
  BY <1>1, <1>2, <1>3, <1>4, <1>5, <1>6, <1>7, <1>8, <1>9, <1>10 DEF Next

(* Whatever the chain mines and whenever it does, the loop of              *)
(* monitor_new_tasks loses exactly tasks of blocks it skipped when it set  *)
(* the cursor to the newest block.                                         *)
THEOREM OnlySkippedBlocksAreMissed == Spec => []OnlySkippedBlocksMissed
<1>1. CoverageInv => OnlySkippedBlocksMissed
  BY DEF CoverageInv, Covered, OnlySkippedBlocksMissed
<1>2. QED
  BY <1>1, ClockInit, ClockStep, TypeCorrect, PTL DEF Spec

----------------------------------------------------------------------------
(* What makes HeardAnswersAreFinal inductive: an answer that was mined is  *)
(* in a later block than its task, so that once its receipt was heard the  *)
(* task is neither waiting in the batch nor ahead of the next cursor.      *)
TaskOf(k) == txs[k].task

AnswerInv ==
    /\ CoverageInv
    /\ pc = "start" => txs = <<>> /\ batch = {}
    /\ \A t \in batch : Created(t) /\ createdIn[t] <= seenUpTo
    /\ \A k \in 1 .. Len(txs) :
          /\ Created(TaskOf(k)) /\ createdIn[TaskOf(k)] <= seenUpTo
          /\ txs[k].heard => txs[k].mined
          /\ txs[k].mined => createdIn[TaskOf(k)] < head
          /\ txs[k].heard => TaskOf(k) \notin batch
          /\ txs[k].heard /\ pc = "poll" => createdIn[TaskOf(k)] < cursor
    /\ pc = "receipt" => TaskOf(Len(txs)) \notin batch
    /\ HeardAnswersAreFinal

LEMMA AnswerInit == Init => AnswerInv
  BY ClockInit DEF Init, AnswerInv, HeardAnswersAreFinal

LEMMA AnswerStep == AnswerInv /\ CoverageInv' /\ [Next]_vars => AnswerInv'
<1> SUFFICES ASSUME AnswerInv, CoverageInv', [Next]_vars PROVE AnswerInv'
  OBVIOUS
<1> USE DEF AnswerInv, TaskOf, HeardAnswersAreFinal, Created, chainVars, historyVars
<1>0. /\ TypeOK /\ TypeOK' /\ Clock
      /\ Len(txs) \in Nat
      /\ \A k \in 1 .. Len(txs) : txs[k] \in Transaction /\ txs[k].task \in Tasks
  <2>1. TypeOK /\ TypeOK' /\ Clock
    BY DEF CoverageInv
  <2>2. txs \in Seq(Transaction)
    BY <2>1 DEF TypeOK
  <2>3. Len(txs) \in Nat /\ \A k \in 1 .. Len(txs) : txs[k] \in Transaction
    BY <2>2, LenProperties, ElementOfSeq
  <2>4. QED
    BY <2>1, <2>3 DEF Transaction
<1>1. ASSUME NEW new \in SUBSET {t \in Tasks : ~Created(t)},
             NEW included \in SUBSET Pending, MineBlock(new, included)
      PROVE  AnswerInv'
  <2>1. /\ Len(txs') = Len(txs)
        /\ \A k \in 1 .. Len(txs) : /\ txs'[k].task = txs[k].task
                                    /\ txs'[k].heard = txs[k].heard
                                    /\ txs'[k].mined => txs[k].mined \/ k \in included
    BY <1>0, <1>1 DEF MineBlock, Transaction
  <2>2. \A t \in Tasks : Created(t) => createdIn'[t] = createdIn[t]
    BY <1>0, <1>1 DEF MineBlock, TypeOK
  <2>3. QED
    BY <1>0, <1>1, <2>1, <2>2 DEF MineBlock, TypeOK, Clock
<1>2. CASE Begin
  BY <1>0, <1>2 DEF Begin
<1>3. CASE ReadLogs
  BY <1>0, <1>3 DEF ReadLogs, NewLogs, TypeOK, Clock
<1>4. ASSUME NEW t \in Tasks, SendResponse(t) PROVE AnswerInv'
  BY <1>0, <1>4 DEF SendResponse, FirstOfBatch, TypeOK
<1>5. ASSUME NEW t \in Tasks, SendFails(t) PROVE AnswerInv'
  BY <1>0, <1>5 DEF SendFails
<1>6. CASE Receipt
  <2>1. Len(txs) \in 1 .. Len(txs) /\ txs[Len(txs)].mined
    BY <1>0, <1>6, EmptySeq DEF Receipt, TypeOK
  <2>2. /\ Len(txs') = Len(txs)
        /\ \A k \in 1 .. Len(txs) : /\ txs'[k].task = txs[k].task
                                    /\ txs'[k].mined = txs[k].mined
                                    /\ txs'[k].heard => txs[k].heard \/ k = Len(txs)
    BY <1>0, <1>6, <2>1 DEF Receipt, Transaction
  <2>3. QED
    BY <1>0, <1>6, <2>1, <2>2 DEF Receipt
<1>7. CASE ReceiptFails
  BY <1>0, <1>7 DEF ReceiptFails
<1>8. CASE Advance
  BY <1>0, <1>8 DEF Advance
<1>9. CASE LoopEnds
  BY <1>0, <1>9 DEF LoopEnds
<1>10. CASE UNCHANGED vars
  BY <1>0, <1>10 DEF vars
<1>11. QED
  BY <1>1, <1>2, <1>3, <1>4, <1>5, <1>6, <1>7, <1>8, <1>9, <1>10 DEF Next

(* The operator never answers a task again once it heard the receipt of an *)
(* answer, although the block at the cursor may be read several times.     *)
THEOREM HeardAnswersStayFinal == Spec => []HeardAnswersAreFinal
<1>1. Spec => []CoverageInv
  BY ClockInit, ClockStep, TypeCorrect, PTL DEF Spec
<1>2. AnswerInv => HeardAnswersAreFinal
  BY DEF AnswerInv
<1>3. QED
  BY <1>1, <1>2, AnswerInit, AnswerStep, PTL DEF Spec
=============================================================================
