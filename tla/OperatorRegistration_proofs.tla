--------------------- MODULE OperatorRegistration_proofs ---------------------
(* Proofs about the start of an operator, for any number of starts and any  *)
(* faults.                                                                 *)
EXTENDS OperatorRegistration, SequenceTheorems, TLAPS

TxType == [kind: {"core", "avs"}, start: 1 .. MaxStarts]

(* A process that runs has been started.                                   *)
TypeInv == TypeOK /\ (pc # "down" => starts # 0)

(* What mining or broadcasting a transaction does to the mempool.          *)
LEMMA Mined ==
    ASSUME mempool \in Seq(TxType), mempool # <<>>, mempool' = Tail(mempool)
    PROVE  /\ mempool' \in Seq(TxType)
           /\ Len(mempool) \in Nat \ {0}
           /\ Len(mempool') = Len(mempool) - 1
           /\ Head(mempool) = mempool[1]
           /\ Head(mempool) \in TxType
           /\ \A k \in 1 .. Len(mempool') :
                 k + 1 \in 1 .. Len(mempool) /\ mempool'[k] = mempool[k + 1]
<1>1. /\ Len(mempool) \in Nat \ {0}
      /\ mempool' \in Seq(TxType)
      /\ Len(mempool') = Len(mempool) - 1
      /\ Head(mempool) = mempool[1]
      /\ \A k \in 1 .. Len(mempool) - 1 : mempool'[k] = mempool[k + 1]
  OBVIOUS
<1>2. Head(mempool) \in TxType
  BY <1>1, ElementOfSeq
<1>3. QED
  BY <1>1, <1>2

LEMMA Broadcast ==
    ASSUME mempool \in Seq(TxType), NEW kind \in {"core", "avs"},
           starts \in 1 .. MaxStarts, mempool' = Append(mempool, Tx(kind))
    PROVE  /\ mempool' \in Seq(TxType)
           /\ Len(mempool) \in Nat
           /\ Len(mempool') = Len(mempool) + 1
           /\ mempool'[Len(mempool) + 1] = [kind |-> kind, start |-> starts]
           /\ \A k \in 1 .. Len(mempool) : mempool'[k] = mempool[k]
<1>1. PICK tx : tx = [kind |-> kind, start |-> starts]
  OBVIOUS
<1>2. tx \in TxType /\ mempool' = Append(mempool, tx)
  BY <1>1 DEF TxType, Tx
<1>3. QED
  BY <1>1, <1>2, AppendProperties, LenProperties

LEMMA TypeInvInit == Init => TypeInv
<1> SUFFICES ASSUME Init PROVE TypeInv
  OBVIOUS
<1>1. mempool \in Seq(TxType)
  BY EmptySeq DEF Init
<1>2. starts \in 0 .. MaxStarts /\ hindered \in 0 .. MaxStarts
  BY RegistrationAssumption DEF Init
<1>3. QED
  BY <1>1, <1>2 DEF Init, TypeInv, TypeOK, TxType, WaitSteps

LEMMA TypeInvStep == TypeInv /\ [Next]_vars => TypeInv'
<1> SUFFICES ASSUME TypeInv, [Next]_vars PROVE TypeInv'
  OBVIOUS
<1>0. /\ mempool \in Seq(TxType)
      /\ MaxStarts \in Nat /\ starts \in 0 .. MaxStarts
      /\ pc # "down" => starts \in 1 .. MaxStarts
  BY RegistrationAssumption DEF TypeInv, TypeOK, TxType
<1>1. CASE UNCHANGED vars
  BY <1>1 DEF vars, chainVars, TypeInv, TypeOK
<1>2. CASE Start
  <2>1. /\ UNCHANGED <<program, coreRegistered, avsRegistered, mempool, receipt, estimatesOn>>
        /\ UNCHANGED hindered /\ pc = "down" /\ pc' = "core" /\ removed' = FALSE
        /\ starts' = starts + 1 /\ starts < MaxStarts
    BY <1>2 DEF Start, chainVars
  <2>2. starts' \in 0 .. MaxStarts /\ starts' # 0
    BY <1>0, <2>1
  <2>3. QED
    BY <2>1, <2>2 DEF TypeInv, TypeOK, WaitSteps
<1>3. CASE Crash
  BY <1>0, <1>3 DEF Crash, chainVars, TypeInv, TypeOK, WaitSteps
<1>4. CASE MineTx
  <2>1. mempool # <<>> /\ mempool' = Tail(mempool)
    BY <1>4 DEF MineTx
  <2>2. mempool' \in Seq(TxType)
    BY <1>0, <2>1, Mined
  <2>3. /\ coreRegistered' \in BOOLEAN /\ avsRegistered' \in BOOLEAN
        /\ receipt' = receipt \/ (receipt = "pending" /\ receipt' \in {"ok", "reverted"})
        /\ UNCHANGED <<program, pc, starts, estimatesOn, removed>>
        /\ hindered' \in {hindered, starts}
    BY <1>4, Zenon DEF MineTx, TypeInv, TypeOK
  <2>4. QED
    BY <1>0, <2>2, <2>3 DEF TypeInv, TypeOK, TxType
<1>5. CASE Deregister
  BY <1>5 DEF Deregister, Listens, TypeInv, TypeOK
<1>6. CASE ProcessStep
  <2>1. \/ mempool' = mempool
        \/ \E kind \in {"core", "avs"} : mempool' = Append(mempool, Tx(kind))
    BY <1>6 DEF ProcessStep, CallCore, CoreReceipt, Sign, CallAvs, AvsReceipt, Send,
                SendUnheard
  <2>2. pc # "down"
    BY <1>6 DEF ProcessStep, CallCore, CoreReceipt, Sign, CallAvs, AvsReceipt
  <2>3. mempool' \in Seq(TxType)
    BY <1>0, <2>1, <2>2, Broadcast
  <2>4. /\ UNCHANGED <<program, starts, coreRegistered, avsRegistered, estimatesOn, removed>>
        /\ hindered' \in {hindered, starts}
        /\ \/ pc' \in WaitSteps /\ receipt' = "pending"
           \/ pc' \in {"down", "sign", "avs", "monitoring"} /\ receipt' = "none"
    BY <1>6 DEF ProcessStep, CallCore, CoreReceipt, Sign, CallAvs, AvsReceipt, Send,
                SendUnheard, Goto, Leave, RequestFails, AfterCoreFailure, AvsReceiptTs, AvsReceiptRust,
                chainVars, WaitSteps
  <2>5. QED
    BY <1>0, <2>2, <2>3, <2>4 DEF TypeInv, TypeOK, TxType, WaitSteps
<1>7. QED
  BY <1>1, <1>2, <1>3, <1>4, <1>5, <1>6 DEF Next

(* Types hold for both programs: a process waits for a receipt exactly     *)
(* where it sent a transaction.                                            *)
THEOREM RegistrationTypeCorrect == Spec => []TypeOK
<1>1. TypeInv => TypeOK
  BY DEF TypeInv
<1>2. QED
  BY <1>1, TypeInvInit, TypeInvStep, PTL DEF Spec

----------------------------------------------------------------------------
(* A receipt that says ok is a registration, which lasts until the         *)
(* operator leaves the registry.                                           *)
ListensRegistered == Listens => avsRegistered \/ removed

LEMMA ListensStep ==
    ASSUME TypeInv, ListensRegistered, Next
    PROVE  ListensRegistered'
<1>1. CASE Start
  BY <1>1 DEF Start, chainVars, ListensRegistered, Listens
<1>2. CASE Crash
  BY <1>2 DEF Crash, chainVars, ListensRegistered, Listens
<1>3. CASE Deregister
  <2>1. (Listens' <=> Listens) /\ (Listens => removed')
    BY <1>3 DEF Deregister, Listens
  <2>2. QED
    BY <2>1 DEF ListensRegistered
<1>4. CASE MineTx
  <2>1. mempool \in Seq(TxType) /\ mempool # <<>> /\ mempool' = Tail(mempool)
    BY <1>4 DEF MineTx, TypeInv, TypeOK, TxType
  <2>2. Head(mempool).kind \in {"core", "avs"}
    <3>1. Head(mempool) \in TxType
      BY <2>1, Mined
    <3>2. QED
      BY <3>1 DEF TxType
  <2>3. avsRegistered => avsRegistered'
    BY <1>4 DEF MineTx
  <2>4. pc = "avsWait" /\ receipt # "ok" /\ receipt' = "ok" => avsRegistered'
    BY <1>4, <2>2 DEF MineTx
  <2>5. UNCHANGED <<program, pc, removed>>
    BY <1>4 DEF MineTx
  <2>6. QED
    BY <2>3, <2>4, <2>5 DEF ListensRegistered, Listens
<1>5. CASE CallCore \/ CoreReceipt \/ Sign \/ CallAvs
  BY <1>5 DEF CallCore, CoreReceipt, Sign, CallAvs, Send, SendUnheard, Goto,
              Leave, RequestFails, AfterCoreFailure, ListensRegistered, Listens
<1>6. CASE AvsReceipt
  <2>1. UNCHANGED <<program, avsRegistered, removed>> /\ pc = "avsWait"
    BY <1>6 DEF AvsReceipt, AvsReceiptTs, AvsReceiptRust, Goto, Leave, RequestFails, chainVars
  <2>2. program = "ts" => (pc' = "monitoring" /\ receipt = "ok") \/ pc' = "down"
    BY <1>6 DEF AvsReceipt, AvsReceiptTs, Goto, Leave, RequestFails
  <2>3. QED
    BY <2>1, <2>2 DEF ListensRegistered, Listens
<1>7. QED
  BY <1>1, <1>2, <1>3, <1>4, <1>5, <1>6 DEF Next, ProcessStep

LEMMA ListensRegisteredStep ==
    TypeInv /\ ListensRegistered /\ [Next]_vars => ListensRegistered'
<1>1. ASSUME UNCHANGED vars, ListensRegistered PROVE ListensRegistered'
  BY <1>1 DEF vars, chainVars, ListensRegistered, Listens
<1>2. QED
  BY <1>1, ListensStep

(* The TypeScript operator listens only when it was registered, and is     *)
(* registered as long as it does not leave the registry.                   *)
THEOREM TsMonitorsOnlyWhenRegistered == Spec => []MonitorsOnlyWhenRegistered
<1>1. Init => TypeInv /\ ListensRegistered
  BY TypeInvInit DEF Init, ListensRegistered, Listens
<1>2. TypeInv /\ ListensRegistered /\ [Next]_vars => (TypeInv /\ ListensRegistered)'
  BY TypeInvStep, ListensRegisteredStep
<1>3. TypeInv /\ ListensRegistered => MonitorsOnlyWhenRegistered
  BY DEF ListensRegistered, Listens, MonitorsOnlyWhenRegistered
<1>4. QED
  BY <1>1, <1>2, <1>3, PTL DEF Spec

----------------------------------------------------------------------------
(* Transactions are mined in the order they were sent, and the last one a  *)
(* start sends is the registration with a signature: when its receipt is   *)
(* there, everything before it is mined as well, of any start.             *)
Own(k) == mempool[k].start = starts

NothingOwn == \A k \in 1 .. Len(mempool) : ~Own(k)

InOrder ==
    /\ \A k \in 1 .. Len(mempool) : mempool[k].start <= starts
    /\ pc = "core" => NothingOwn
    /\ pc \in {"coreWait", "sign", "avs"} =>
           \A k \in 1 .. Len(mempool) : Own(k) => mempool[k].kind # "avs"
    /\ pc = "avsWait" /\ receipt = "pending" =>
           \A k \in 1 .. Len(mempool) : Own(k) /\ mempool[k].kind = "avs" => k = Len(mempool)
    /\ pc = "monitoring" \/ (pc = "avsWait" /\ receipt # "pending") => Len(mempool) = 0

LEMMA StartsAreNumbers == TypeInv => \A k \in 1 .. Len(mempool) : mempool[k].start \in Nat
<1> SUFFICES ASSUME TypeInv, NEW k \in 1 .. Len(mempool)
             PROVE  mempool[k].start \in Nat
  OBVIOUS
<1>1. mempool \in Seq(TxType)
  BY DEF TypeInv, TypeOK, TxType
<1>2. mempool[k] \in TxType
  BY <1>1, ElementOfSeq
<1>3. QED
  BY <1>2, RegistrationAssumption DEF TxType

(* Steps that leave the mempool as it is.                                  *)
LEMMA InOrderKept ==
    ASSUME TypeInv, InOrder, UNCHANGED <<starts, mempool>>,
           \/ pc' = "down"
           \/ pc' = "sign" /\ pc \in {"core", "coreWait"}
           \/ pc' = "avs" /\ pc = "sign"
           \/ pc' = "monitoring" /\ pc = "avsWait" /\ receipt # "pending"
    PROVE  InOrder'
BY DEF TypeInv, TypeOK, InOrder, NothingOwn, Own

LEMMA InOrderSent ==
    ASSUME TypeInv, InOrder, NEW kind \in {"core", "avs"},
           mempool' = Append(mempool, Tx(kind)), UNCHANGED starts, pc # "down",
           \/ pc' = "down"
           \/ kind = "core" /\ pc = "core" /\ pc' \in {"coreWait", "sign"}
           \/ kind = "avs" /\ pc = "avs" /\ pc' = "avsWait" /\ receipt' = "pending"
    PROVE  InOrder'
<1>1. /\ Len(mempool) \in Nat
      /\ Len(mempool') = Len(mempool) + 1
      /\ mempool'[Len(mempool) + 1] = [kind |-> kind, start |-> starts]
      /\ \A k \in 1 .. Len(mempool) : mempool'[k] = mempool[k]
      /\ starts \in 1 .. MaxStarts /\ MaxStarts \in Nat
  BY Broadcast, RegistrationAssumption DEF TypeInv, TypeOK, TxType
<1>2. \A k \in 1 .. Len(mempool') : mempool'[k].start <= starts
  BY <1>1 DEF InOrder
<1>3. CASE pc' = "down"
  BY <1>2, <1>3 DEF InOrder
<1>4. CASE kind = "core" /\ pc = "core" /\ pc' \in {"coreWait", "sign"}
  <2>1. \A k \in 1 .. Len(mempool') : mempool'[k].start = starts => mempool'[k].kind # "avs"
    BY <1>1, <1>4 DEF InOrder, NothingOwn, Own
  <2>2. QED
    BY <1>2, <1>4, <2>1 DEF InOrder, Own
<1>5. CASE kind = "avs" /\ pc = "avs" /\ pc' = "avsWait" /\ receipt' = "pending"
  <2>1. \A k \in 1 .. Len(mempool') :
            mempool'[k].start = starts /\ mempool'[k].kind = "avs" => k = Len(mempool')
    BY <1>1, <1>5 DEF InOrder, Own
  <2>2. QED
    BY <1>2, <1>5, <2>1 DEF InOrder, Own
<1>6. QED
  BY <1>3, <1>4, <1>5

LEMMA InOrderMined == TypeInv /\ InOrder /\ MineTx => InOrder'
<1> SUFFICES ASSUME TypeInv, InOrder, MineTx PROVE InOrder'
  OBVIOUS
<1>1. mempool \in Seq(TxType) /\ mempool # <<>> /\ mempool' = Tail(mempool)
  BY DEF MineTx, TypeInv, TypeOK, TxType
<1>2. /\ Len(mempool) \in Nat \ {0}
      /\ Len(mempool') = Len(mempool) - 1
      /\ Head(mempool) = mempool[1]
      /\ Head(mempool) \in TxType
      /\ \A k \in 1 .. Len(mempool') :
            k + 1 \in 1 .. Len(mempool) /\ mempool'[k] = mempool[k + 1]
  BY <1>1, Mined
<1>3. UNCHANGED <<pc, starts>>
  BY DEF MineTx
<1>4. \/ receipt' = receipt
      \/ /\ receipt = "pending" /\ Own(1)
         /\ pc = IF mempool[1].kind = "core" THEN "coreWait" ELSE "avsWait"
  BY <1>2, Zenon DEF MineTx, Own
<1>5. \A k \in 1 .. Len(mempool') : Own(k)' => Own(k + 1)
  BY <1>2, <1>3 DEF Own
<1>6. NothingOwn => NothingOwn'
  BY <1>2, <1>5 DEF NothingOwn
<1>7. pc = "avsWait" /\ receipt = "pending" /\ receipt' # "pending" => Len(mempool') = 0
  <2> SUFFICES ASSUME pc = "avsWait", receipt = "pending", receipt' # "pending"
               PROVE  Len(mempool') = 0
    OBVIOUS
  <2>1. Own(1) /\ mempool[1].kind = "avs"
    BY <1>2, <1>4 DEF TxType
  <2>2. Len(mempool) = 1
    BY <1>2, <2>1 DEF InOrder
  <2>3. Len(mempool') = Len(mempool) - 1
    BY <1>2
  <2>4. QED
    BY <2>2, <2>3
<1>8. \A k \in 1 .. Len(mempool') : mempool'[k].start <= starts
  BY <1>2 DEF InOrder
<1>9. pc \in {"coreWait", "sign", "avs"} =>
          \A k \in 1 .. Len(mempool') : Own(k)' => mempool'[k].kind # "avs"
  BY <1>2, <1>5 DEF InOrder
<1>10. pc = "avsWait" /\ receipt' = "pending" =>
          \A k \in 1 .. Len(mempool') :
              Own(k)' /\ mempool'[k].kind = "avs" => k = Len(mempool')
  <2> SUFFICES ASSUME pc = "avsWait", receipt' = "pending",
                      NEW k \in 1 .. Len(mempool'), Own(k)', mempool'[k].kind = "avs"
               PROVE  k = Len(mempool')
    OBVIOUS
  <2>1. receipt = "pending"
    BY <1>4
  <2>2. Own(k + 1) /\ mempool[k + 1].kind = "avs" /\ k + 1 \in 1 .. Len(mempool)
    BY <1>2, <1>5
  <2>3. k + 1 = Len(mempool)
    BY <2>1, <2>2 DEF InOrder
  <2>4. QED
    BY <1>2, <2>3
<1>11. pc = "monitoring" \/ (pc = "avsWait" /\ receipt' # "pending") => Len(mempool') = 0
  BY <1>2, <1>4, <1>7 DEF InOrder
<1>12. QED
  BY <1>3, <1>6, <1>8, <1>9, <1>10, <1>11 DEF InOrder

LEMMA InOrderStep == TypeInv /\ InOrder /\ [Next]_vars => InOrder'
<1> SUFFICES ASSUME TypeInv, InOrder, [Next]_vars PROVE InOrder'
  OBVIOUS
<1>1. CASE UNCHANGED vars
  BY <1>1 DEF vars, InOrder, NothingOwn, Own
<1>2. CASE Start
  <2>1. starts \in Nat /\ starts' = starts + 1 /\ pc' = "core" /\ UNCHANGED mempool
    BY <1>2, RegistrationAssumption DEF Start, TypeInv, TypeOK
  <2>2. \A k \in 1 .. Len(mempool) : mempool[k].start \in Nat
    BY StartsAreNumbers
  <2>3. QED
    BY <2>1, <2>2 DEF InOrder, NothingOwn, Own
<1>3. CASE Crash
  BY <1>3, InOrderKept DEF Crash
<1>10. CASE Deregister
  BY <1>10 DEF Deregister, InOrder, NothingOwn, Own
<1>4. CASE MineTx
  BY <1>4, InOrderMined
<1>5. CASE CallCore
  <2>1. UNCHANGED starts /\ pc = "core"
    BY <1>5 DEF CallCore, Send, SendUnheard, Goto, Leave, RequestFails
  <2>2. \/ mempool' = mempool /\ pc' \in {"sign", "down"}
        \/ mempool' = Append(mempool, Tx("core")) /\ pc' \in {"coreWait", "sign", "down"}
    BY <1>5 DEF CallCore, Send, SendUnheard, Goto, Leave, RequestFails, AfterCoreFailure
  <2>3. QED
    BY <2>1, <2>2, InOrderKept, InOrderSent
<1>6. CASE CoreReceipt \/ Sign
  <2>1. /\ UNCHANGED <<starts, mempool>>
        /\ \/ pc = "coreWait" /\ pc' \in {"sign", "down"}
           \/ pc = "sign" /\ pc' \in {"avs", "down"}
    BY <1>6 DEF CoreReceipt, Sign, Goto, Leave, RequestFails, AfterCoreFailure
  <2>2. QED
    BY <2>1, InOrderKept
<1>7. CASE CallAvs
  <2>1. UNCHANGED starts /\ pc = "avs"
    BY <1>7 DEF CallAvs, Send, SendUnheard, Goto, Leave, RequestFails
  <2>2. \/ mempool' = mempool /\ pc' = "down"
        \/ /\ mempool' = Append(mempool, Tx("avs"))
           /\ pc' = "down" \/ (pc' = "avsWait" /\ receipt' = "pending")
    BY <1>7 DEF CallAvs, Send, SendUnheard, Goto, Leave, RequestFails
  <2>3. QED
    BY <2>1, <2>2, InOrderKept, InOrderSent
<1>8. CASE AvsReceipt
  <2>1. /\ UNCHANGED <<starts, mempool>> /\ pc = "avsWait"
        /\ pc' = "down" \/ (pc' = "monitoring" /\ receipt \in {"ok", "reverted"})
    BY <1>8 DEF AvsReceipt, AvsReceiptTs, AvsReceiptRust, Goto, Leave, RequestFails
  <2>2. QED
    BY <2>1, InOrderKept
<1>9. QED
  BY <1>1, <1>2, <1>3, <1>4, <1>5, <1>6, <1>7, <1>8, <1>10 DEF Next, ProcessStep

(* When either program listens, nothing it broadcast is still to be mined, *)
(* for any number of starts and any faults.                                *)
THEOREM ListensWithNothingPending == Spec => []NothingLeftPending
<1>1. Init => TypeInv /\ InOrder
  BY TypeInvInit DEF Init, InOrder, NothingOwn
<1>2. TypeInv /\ InOrder /\ [Next]_vars => (TypeInv /\ InOrder)'
  BY TypeInvStep, InOrderStep
<1>3. TypeInv /\ InOrder => NothingLeftPending
  <2> SUFFICES ASSUME TypeInv, InOrder, pc = "monitoring" PROVE mempool = <<>>
    BY DEF NothingLeftPending
  <2>1. mempool \in Seq(TxType) /\ Len(mempool) = 0
    BY DEF TypeInv, TypeOK, TxType, InOrder
  <2>2. QED
    BY <2>1, EmptySeq
<1>4. QED
  BY <1>1, <1>2, <1>3, PTL DEF Spec

----------------------------------------------------------------------------
(* The refinement.  One operator's presence, seen as two Boolean values.   *)
LEMMA ListensBoolean == Listens \in BOOLEAN /\ Listens' \in BOOLEAN
  BY DEF Listens

LEMMA PresenceStep ==
    ASSUME avsRegistered \in BOOLEAN, avsRegistered' \in BOOLEAN,
           \/ UNCHANGED avsRegistered /\ (Listens' <=> Listens)
           \/ UNCHANGED avsRegistered /\ ~Listens'
           \/ ~avsRegistered /\ avsRegistered' /\ ~Listens
           \/ ~avsRegistered' /\ (Listens' <=> Listens)
    PROVE  [Presence!Next]_(Presence!presenceVars)
<1>1. CASE UNCHANGED avsRegistered /\ (Listens' <=> Listens)
  BY <1>1, ListensBoolean DEF Presence!presenceVars
<1>2. CASE UNCHANGED avsRegistered /\ Listens /\ ~Listens'
  <2>1. Presence!Stop("self")
    BY <1>2, ListensBoolean DEF Presence!Stop
  <2>2. QED
    BY <2>1 DEF Presence!Next
<1>3. CASE ~avsRegistered /\ avsRegistered' /\ ~Listens
  <2>1. Presence!Join("self", Listens')
    BY <1>3, ListensBoolean DEF Presence!Join
  <2>2. QED
    BY <2>1, ListensBoolean DEF Presence!Next
<1>4. CASE avsRegistered /\ ~avsRegistered' /\ (Listens' <=> Listens)
  <2>1. Presence!Leave("self")
    BY <1>4, ListensBoolean DEF Presence!Leave
  <2>2. QED
    BY <2>1 DEF Presence!Next
<1>5. QED
  BY <1>1, <1>2, <1>3, <1>4, ListensBoolean

(* Nothing is mined for a process that listens: its wallet has nothing to  *)
(* be mined.                                                               *)
LEMMA ListensMinesNothing == InOrder /\ Listens /\ mempool \in Seq(TxType) => mempool = <<>>
<1> SUFFICES ASSUME InOrder, Listens, mempool \in Seq(TxType) PROVE mempool = <<>>
  OBVIOUS
<1>1. Len(mempool) = 0
  BY DEF InOrder, Listens
<1>2. QED
  BY <1>1, EmptySeq

(* Each step is one of OperatorPresence, or leaves its two values alone:   *)
(* a registration is mined (Join), the operator leaves the registry        *)
(* (Leave), the process stops or gives up (Stop).                          *)
LEMMA StepIsPresenceStep ==
    ASSUME TypeInv, InOrder, [Next]_vars
    PROVE  [Presence!Next]_(Presence!presenceVars)
<1>0. avsRegistered \in BOOLEAN /\ avsRegistered' \in BOOLEAN
  BY TypeInvStep DEF TypeInv, TypeOK
<1>1. CASE UNCHANGED vars
  BY <1>0, <1>1, PresenceStep DEF vars, chainVars, Listens
<1>2. CASE Start
  BY <1>0, <1>2, PresenceStep DEF Start, chainVars, Listens
<1>3. CASE Crash
  BY <1>0, <1>3, PresenceStep DEF Crash, chainVars, Listens
<1>4. CASE Deregister
  BY <1>0, <1>4, PresenceStep DEF Deregister, Listens
<1>5. CASE MineTx
  <2>1. mempool \in Seq(TxType) /\ mempool # <<>> /\ mempool' = Tail(mempool)
    BY <1>5 DEF MineTx, TypeInv, TypeOK, TxType
  <2>2. Head(mempool) \in TxType
    BY <2>1, Mined
  <2>3. Head(mempool).kind \in {"core", "avs"}
    BY <2>2 DEF TxType
  <2>4. ~Listens
    BY <2>1, ListensMinesNothing
  <2>5. pc = "avsWait" /\ receipt # "ok" /\ receipt' = "ok" => ~avsRegistered /\ avsRegistered'
    BY <1>5, <2>3 DEF MineTx, Accepted
  <2>6. UNCHANGED <<program, pc>> /\ (avsRegistered => avsRegistered')
    BY <1>5 DEF MineTx
  <2>7. Listens' => ~avsRegistered /\ avsRegistered'
    BY <2>4, <2>5, <2>6 DEF Listens
  <2>8. QED
    BY <1>0, <2>4, <2>6, <2>7, PresenceStep
<1>6. CASE CallCore \/ CoreReceipt \/ Sign \/ CallAvs
  <2>1. UNCHANGED avsRegistered
    BY <1>6 DEF CallCore, CoreReceipt, Sign, CallAvs, Send, SendUnheard, Goto, Leave,
                RequestFails, chainVars
  <2>2. ~Listens'
    BY <1>6 DEF CallCore, CoreReceipt, Sign, CallAvs, Send, SendUnheard, Goto, Leave,
                RequestFails, AfterCoreFailure, Listens
  <2>3. QED
    BY <1>0, <2>1, <2>2, PresenceStep
<1>7. CASE AvsReceipt
  <2>1. UNCHANGED <<program, avsRegistered>> /\ pc = "avsWait"
    BY <1>7 DEF AvsReceipt, AvsReceiptTs, AvsReceiptRust, Goto, Leave, RequestFails, chainVars
  <2>2. program = "ts" => (pc' = "monitoring" /\ receipt = "ok") \/ pc' = "down"
    BY <1>7 DEF AvsReceipt, AvsReceiptTs, Goto, Leave, RequestFails
  <2>3. (Listens' <=> Listens) \/ ~Listens'
    BY <2>1, <2>2 DEF Listens
  <2>4. QED
    BY <1>0, <2>1, <2>3, PresenceStep
<1>8. QED
  BY <1>1, <1>2, <1>3, <1>4, <1>5, <1>6, <1>7 DEF Next, ProcessStep

(* The process of index.ts implements OperatorPresence: it begins to       *)
(* listen when its own registration is mined, and at no other time.        *)
THEOREM RegistrationImplementsPresence == Spec => ImplementsPresence
<1>1. Init => TypeInv /\ InOrder /\ Presence!Init
  <2> SUFFICES ASSUME Init PROVE TypeInv /\ InOrder /\ Presence!Init
    OBVIOUS
  <2>1. TypeInv /\ InOrder
    BY TypeInvInit DEF Init, InOrder, NothingOwn
  <2>2. avsRegistered = FALSE /\ Listens = FALSE
    BY DEF Init, Listens
  <2>3. QED
    BY <2>1, <2>2 DEF Presence!Init
<1>2. TypeInv /\ InOrder /\ [Next]_vars => (TypeInv /\ InOrder)'
  BY TypeInvStep, InOrderStep
<1>3. TypeInv /\ InOrder /\ [Next]_vars => [Presence!Next]_(Presence!presenceVars)
  BY StepIsPresenceStep
<1>4. QED
  BY <1>1, <1>2, <1>3, PTL DEF Spec, ImplementsPresence, Presence!Spec
=============================================================================
