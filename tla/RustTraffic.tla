---------------------------- MODULE RustTraffic ----------------------------
(***************************************************************************)
(* The two Rust programs at work on one chain: the generator of tasks      *)
(* (operator/rust/crates/operator/src/spam_tasks.rs) and the operator that *)
(* answers them (start_operator.rs).  They read the same PRIVATE_KEY, so   *)
(* that they spend the nonces of one account, and all they tell each other *)
(* passes through the binding: a call is encoded, decoded by the contract, *)
(* its event encoded again and decoded by the operator.                    *)
(*                                                                         *)
(* At the address of the deployment file is either the contract the        *)
(* binding was generated from, or the service manager of this repository,  *)
(* which has no function for tasks.  A block holds one transaction of the  *)
(* account; blocks of others are left out (TaskMonitor has them).          *)
(***************************************************************************)
EXTENDS ContractBindings, FiniteSetsExt

CONSTANTS
    Contracts,      \* what may answer at the address, a subset of AllContracts
    Faults,         \* {"rpc"} if requests to the node may fail, {} otherwise
    Names,          \* names generate_random_name may make
    MaxTicks,       \* bound on the ticks of the generator's interval
    MaxSends        \* bound on the transactions sent

(* What the programs use of the binding.                                   *)
createNewTask(name) == service_build_call("createNewTask", [name |-> name])
respondToTask(task, index, signature) ==
    service_build_call("respondToTask",
        [task |-> task, referenceTaskIndex |-> index, signature |-> signature])
SIGNATURE_HASH == Service!NewTaskCreated.hash
DecodesLog(log) == LogDecodes(Service!NewTaskCreated, log)
decode_log(log) == log_decode(Service!NewTaskCreated, log)

(* What the contract was compiled from: the tokens of its tasks, the two    *)
(* calls it takes and the two events it emits.                             *)
TaskToken(task) ==
    <<"struct", <<<<"packed", task.name>>, <<"word", task.taskCreatedBlock>>>>>>

NewTaskCreated(index, task) ==      \* (uint32 indexed,(string,uint32))
    [topics |-> <<<<88, 24, 10, 106>>, <<"word", index>>>>, data |-> <<TaskToken(task)>>]

TaskResponded(index, task) ==       \* (uint32 indexed,(string,uint32),address)
    [topics |-> <<<<142, 178, 210, 252>>, <<"word", index>>>>,
     data |-> <<TaskToken(task), <<"word", "account">>>>]

Tasks == [name: Names, taskCreatedBlock: 1 .. MaxSends + 1]
Indexes == 0 .. MaxSends

AllContracts == {"binding", "repository"}

ASSUME TrafficAssumption ==
    Contracts \subseteq AllContracts /\ MaxTicks \in Nat /\ MaxSends \in Nat

VARIABLES
    contract,       \* which of the contracts answers at the address
    tasks,          \* the contract's tasks, by index from zero
    answered,       \* indexes of the tasks the account has answered
    logs,           \* the log of each block, none for a reverted transaction
    account,        \* transactions of the account that are mined: its nonce
    sent,           \* transactions the node has accepted, in order
    ticks,          \* ticks of the generator's interval so far
    generator,      \* the state of create_new_task
    operator        \* the state of monitor_new_tasks

chainVars == <<contract, tasks, answered, logs, account>>
vars == <<chainVars, sent, ticks, generator, operator>>

NoLog == [topics |-> <<>>, data |-> <<>>]
head == Len(logs)

Init ==
    /\ contract \in Contracts
    /\ tasks = <<>>
    /\ answered = {}
    /\ logs = <<NoLog>>
    /\ account = 0
    /\ sent = <<>>
    /\ ticks = 0
    /\ generator = [pc |-> "sleep", name |-> "", nonce |-> 0, tx |-> 0]
    /\ operator = [pc |-> "start", cursor |-> 0, batch |-> {}, nonce |-> 0, tx |-> 0]

----------------------------------------------------------------------------
(* The node (external).  It takes a transaction with a nonce that is not   *)
(* used yet.  A second one with the nonce of a pending one takes its place *)
(* or is refused, by the fees the two happen to offer.                     *)
PendingAt(nonce) == {k \in DOMAIN sent : sent[k].state = "pending" /\ sent[k].nonce = nonce}

AcceptBoth(from, nonce, wire) ==    \* mutant: the pending one is kept too
    /\ Len(sent) < MaxSends
    /\ nonce >= account
    /\ sent' = Append(sent, [from |-> from, nonce |-> nonce, wire |-> wire, state |-> "pending"])

Accept(from, nonce, wire) ==
    /\ Len(sent) < MaxSends
    /\ nonce >= account
    /\ sent' = Append([k \in DOMAIN sent |->
                          IF k \in PendingAt(nonce) THEN [sent[k] EXCEPT !.state = "replaced"]
                                                    ELSE sent[k]],
                      [from |-> from, nonce |-> nonce, wire |-> wire, state |-> "pending"])

Refused(nonce) == nonce < account \/ PendingAt(nonce) # {}

(* The nonce the node answers with: with the pending transactions or not.  *)
NonceNowAllSent == {account, account + Len(sent)}    \* mutant: mined ones count twice
NonceNow == {account, account + Cardinality({k \in DOMAIN sent : sent[k].state = "pending"})}

(* What the contract makes of a call, by the signatures it was compiled    *)
(* from.  The binding's keeps a task under the next index, and takes one   *)
(* answer to a task it knows, signed over its name.  The repository's has  *)
(* neither function and reverts.                                           *)
Creates(wire) ==    \* createNewTask(string)
    /\ contract = "binding"
    /\ wire.selector = <<133, 237, 248, 116>>
    /\ Len(wire.data) = 1 /\ wire.data[1][1] = "packed"

Answers(wire) ==    \* respondToTask((string,uint32),uint32,bytes)
    /\ contract = "binding"
    /\ wire.selector = <<52, 21, 164, 156>>
    /\ Len(wire.data) = 3 /\ wire.data[2][1] = "word" /\ wire.data[3][1] = "packed"
    /\ LET index == wire.data[2][2] IN
       /\ index \in 0 .. Len(tasks) - 1 /\ index \notin answered
       /\ wire.data[1] = TaskToken(tasks[index + 1])
       /\ wire.data[3][2] = tasks[index + 1].name

ReceiveNewTask(wire) ==
    LET task == [name |-> wire.data[1][2], taskCreatedBlock |-> head + 1] IN
    /\ Creates(wire)
    /\ tasks' = Append(tasks, task)
    /\ logs' = Append(logs, NewTaskCreated(Len(tasks), task))
    /\ UNCHANGED answered

ReceiveAnswer(wire) ==
    LET index == wire.data[2][2] IN
    /\ Answers(wire)
    /\ answered' = answered \cup {index}
    /\ logs' = Append(logs, TaskResponded(index, tasks[index + 1]))
    /\ UNCHANGED tasks

Revert(wire) ==
    /\ ~Creates(wire) /\ ~Answers(wire)
    /\ logs' = Append(logs, NoLog)
    /\ UNCHANGED <<tasks, answered>>

(* A block with the account's next transaction.                            *)
Mine(k) ==
    /\ k \in PendingAt(account)
    /\ ReceiveNewTask(sent[k].wire) \/ ReceiveAnswer(sent[k].wire) \/ Revert(sent[k].wire)
    /\ account' = account + 1
    /\ sent' = [sent EXCEPT ![k].state = "mined"]
    /\ UNCHANGED <<contract, ticks, generator, operator>>

----------------------------------------------------------------------------
(* The generator.  A tick picks a name; the file may fail to be read, and  *)
(* the error is dropped.  No gas limit is given, so that the node runs the *)
(* call once before it is sent: a call that reverts there is never sent.   *)
Tick(name) ==
    /\ generator.pc = "sleep"
    /\ ticks < MaxTicks
    /\ ticks' = ticks + 1
    /\ generator' \in {generator, [generator EXCEPT !.pc = "call", !.name = name]}
    /\ UNCHANGED <<chainVars, sent, operator>>

NewTaskCall == createNewTask(generator.name)

FillCall(nonce) ==
    /\ generator.pc = "call"
    /\ nonce \in NonceNow
    /\ generator' = IF Creates(NewTaskCall)
                    THEN [generator EXCEPT !.pc = "send", !.nonce = nonce]
                    ELSE [generator EXCEPT !.pc = "sleep"]
    /\ UNCHANGED <<chainVars, sent, ticks, operator>>

SendCallLatest ==   \* mutant: waits for the account's latest transaction, read before the send
    /\ generator.pc = "send"
    /\ \/ /\ Accept("generator", generator.nonce, NewTaskCall)
          /\ generator' = [generator EXCEPT !.pc = "receipt",
                                !.tx = IF sent = <<>> THEN 1 ELSE Len(sent)]
       \/ /\ Refused(generator.nonce)
          /\ generator' = [generator EXCEPT !.pc = "sleep"]
          /\ UNCHANGED sent
    /\ UNCHANGED <<chainVars, ticks, operator>>

SendCall ==
    /\ generator.pc = "send"
    /\ \/ /\ Accept("generator", generator.nonce, NewTaskCall)
          /\ generator' = [generator EXCEPT !.pc = "receipt", !.tx = Len(sent) + 1]
       \/ /\ Refused(generator.nonce)
          /\ generator' = [generator EXCEPT !.pc = "sleep"]
          /\ UNCHANGED sent
    /\ UNCHANGED <<chainVars, ticks, operator>>

(* get_receipt waits for the hash of its own transaction, without a limit. *)
CallDone ==
    /\ generator.pc = "receipt"
    /\ sent[generator.tx].state = "mined"
    /\ generator' = [generator EXCEPT !.pc = "sleep"]
    /\ UNCHANGED <<chainVars, sent, ticks, operator>>

(* An error of the node on the way is dropped; what was sent stays sent.   *)
CallFails ==
    /\ "rpc" \in Faults
    /\ generator.pc \in {"call", "send", "receipt"}
    /\ generator' = [generator EXCEPT !.pc = "sleep"]
    /\ UNCHANGED <<chainVars, sent, ticks, operator>>

----------------------------------------------------------------------------
(* The operator: the loop of monitor_new_tasks.                            *)
StartMonitor ==
    /\ operator.pc = "start"
    /\ operator' = [operator EXCEPT !.pc = "poll", !.cursor = head]
    /\ UNCHANGED <<chainVars, sent, ticks, generator>>

(* A block holds one log at most, so that the blocks that hold one, in     *)
(* ascending order, stand for the logs get_logs returns.                   *)
Poll ==
    /\ operator.pc = "poll"
    /\ operator' = [operator EXCEPT !.pc = "handle",
                        !.batch = {block \in operator.cursor .. head : logs[block] # NoLog}]
    /\ UNCHANGED <<chainVars, sent, ticks, generator>>

NextLog == logs[Min(operator.batch)]
Rest == operator.batch \ {Min(operator.batch)}
IsNewTask(log) == log.topics[1] = SIGNATURE_HASH

(* A log of another event is passed over.                                  *)
SkipLog ==
    /\ operator.pc = "handle" /\ operator.batch # {}
    /\ ~IsNewTask(NextLog)
    /\ operator' = [operator EXCEPT !.batch = Rest]
    /\ UNCHANGED <<chainVars, sent, ticks, generator>>

(* The answer to the task of the log: the task as it was read, its index,  *)
(* and a signature over its name.                                          *)
AnswerCallByPosition ==     \* mutant: the index counts from the end of what was read
    LET read == decode_log(NextLog) IN
    respondToTask(read.task, Cardinality(operator.batch) - 1, read.task.name)

AnswerCall ==
    LET read == decode_log(NextLog) IN
    respondToTask(read.task, read.taskIndex, read.task.name)

(* A log of the event that does not decode ends the loop: expect panics.   *)
FillAnswer(nonce) ==
    /\ operator.pc = "handle" /\ operator.batch # {}
    /\ IsNewTask(NextLog)
    /\ nonce \in NonceNow
    /\ operator' = IF DecodesLog(NextLog)
                   THEN [operator EXCEPT !.pc = "send", !.nonce = nonce]
                   ELSE [operator EXCEPT !.pc = "panicked"]
    /\ UNCHANGED <<chainVars, sent, ticks, generator>>

(* The gas limit is given: an answer the contract refuses is sent as well. *)
SendAnswer ==
    /\ operator.pc = "send"
    /\ \/ /\ Accept("operator", operator.nonce, AnswerCall)
          /\ operator' = [operator EXCEPT !.pc = "receipt", !.tx = Len(sent) + 1]
       \/ /\ Refused(operator.nonce)
          /\ operator' = [operator EXCEPT !.pc = "handle", !.batch = Rest]
          /\ UNCHANGED sent
    /\ UNCHANGED <<chainVars, ticks, generator>>

AnswerDone ==
    /\ operator.pc = "receipt"
    /\ sent[operator.tx].state = "mined"
    /\ operator' = [operator EXCEPT !.pc = "handle", !.batch = Rest]
    /\ UNCHANGED <<chainVars, sent, ticks, generator>>

(* An error while answering is dropped with the task.                      *)
AnswerFails ==
    /\ "rpc" \in Faults
    /\ operator.pc \in {"handle", "send", "receipt"} /\ operator.batch # {}
    /\ IsNewTask(NextLog)
    /\ operator' = [operator EXCEPT !.pc = "handle", !.batch = Rest]
    /\ UNCHANGED <<chainVars, sent, ticks, generator>>

NextPoll ==
    /\ operator.pc = "handle" /\ operator.batch = {}
    /\ operator' = [operator EXCEPT !.pc = "poll", !.cursor = head]
    /\ UNCHANGED <<chainVars, sent, ticks, generator>>

----------------------------------------------------------------------------
Next ==
    \/ \E k \in DOMAIN sent : Mine(k)
    \/ \E name \in Names : Tick(name)
    \/ \E nonce \in NonceNow : FillCall(nonce) \/ FillAnswer(nonce)
    \/ SendCall \/ CallDone \/ CallFails
    \/ StartMonitor \/ Poll \/ SkipLog
    \/ SendAnswer \/ AnswerDone \/ AnswerFails \/ NextPoll

Spec == Init /\ [][Next]_vars

(* The chain mines what is pending, and both programs run.                 *)
Fairness ==
    /\ WF_vars(\E k \in DOMAIN sent : Mine(k))
    /\ WF_vars(\E nonce \in NonceNow : FillCall(nonce))
    /\ WF_vars(\E nonce \in NonceNow : FillAnswer(nonce))
    /\ WF_vars(SendCall) /\ WF_vars(CallDone)
    /\ WF_vars(StartMonitor) /\ WF_vars(Poll) /\ WF_vars(SkipLog)
    /\ WF_vars(SendAnswer) /\ WF_vars(AnswerDone) /\ WF_vars(NextPoll)

FairSpec == Spec /\ Fairness

----------------------------------------------------------------------------
Waiting(program) == program.pc = "receipt"
Stuck(program) == Waiting(program) /\ sent[program.tx].state = "replaced"

(* The chain and the two programs hold values of their types; the pending  *)
(* transactions have the nonces that follow the account's, one each.       *)
TypeOK ==
    /\ tasks \in Seq(Tasks)
    /\ answered \subseteq 0 .. Len(tasks) - 1
    /\ account + 1 = Len(logs)
    /\ \A k \in DOMAIN sent :
           /\ sent[k].from \in {"generator", "operator"}
           /\ sent[k].state \in {"pending", "mined", "replaced"}
           /\ sent[k].state = "mined" <=> sent[k].nonce < account /\ sent[k].state # "replaced"
    /\ \A nonce \in 0 .. Len(sent) : Cardinality(PendingAt(nonce)) <= 1
    /\ \A k \in DOMAIN sent : sent[k].state = "pending" =>
           \A nonce \in account .. sent[k].nonce : PendingAt(nonce) # {}
    /\ generator.pc \in {"sleep", "call", "send", "receipt"}
    /\ operator.pc \in {"start", "poll", "handle", "send", "receipt", "panicked"}
    /\ ticks \in 0 .. MaxTicks

(* What goes through the event, the operator and the call is the task the  *)
(* contract keeps, under its index: an answer that is mined is to a task   *)
(* that has been answered, so that only a repeated answer is refused.  And *)
(* start_operator.rs:108 "Failed to decode log new task created" is never  *)
(* said, so that the spawned loop, on which nobody waits, does not panic.  *)
TasksGoRoundUnchanged ==
    /\ operator.pc # "panicked"
    /\ \A k \in DOMAIN sent :
           sent[k].from = "operator" /\ sent[k].state = "mined"
               => sent[k].wire.data[2][2] \in answered

(* A transaction replaced by the other program's leaves its sender waiting *)
(* for ever, but never both: the one that replaced comes back, and finds   *)
(* the account its own.                                                    *)
AtMostOneStuck == ~(Stuck(generator) /\ Stuck(operator))

(* Whoever waits comes back, unless its transaction was replaced: the      *)
(* nonces the programs fill in leave no gap the chain would wait for.      *)
SendersComeBack ==
    /\ Waiting(generator) ~> (~Waiting(generator) \/ Stuck(generator))
    /\ Waiting(operator) ~> (~Waiting(operator) \/ Stuck(operator))

=============================================================================
