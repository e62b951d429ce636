# A formal model of the Insurance AVS

TLA+ modules, TLC configurations and TLAPS proofs for the program in this
repository: an EigenLayer AVS whose operators verify insurance claims and answer
them on chain.  Every definition is translated from the source; `PROJECT.json`
maps each one to its lines, and lists the runs, the mutants that show each
property can fail, the findings, the hazards and the theorems.

## 1. The system

```
 claimant / traffic generator                 InsurancePool (external)
        | createNewClaim                              ^ approveClaimSpending
        v                                             | respondToClaim
 InsuranceServiceManager.sol  -- NewClaimCreated -->  operator/index.ts
        ^                                             |   zkFetch, verifyProof, pinata (external)
        +---- approveClaimSpending, respondToClaim ---+
 DelegationManager, ECDSAStakeRegistry (external) <- registration - index.ts, start_operator.rs
 RewardsCoordinator (external) <- SetupPayments.s.sol <-> payments.json
```

| Component | State it keeps | Operations | What is hard | What makes it correct |
|---|---|---|---|---|
| `InsuranceServiceManager.sol` | `latestClaimNum` (uint32), `allClaimHashes`, `allClaimResponses`, `factory`, `operatorPublicKey` | `createNewClaim`, `initialize`, `approveClaimSpending`, `respondToClaim` | end of the counter; a pool that reverts after the answer was stored; nothing checked about who answers what | numbers without gaps; hashes never rewritten; stored answers, events and pool calls agree |
| TypeScript operator, claims (`signAndRespondToClaim`, `monitorNewClaims`) | one closure per claim, one wallet (nonces, pending transactions) | per `await`: inputs, fetch, verify, upload, test, populate, broadcast, wait | handlers interleave on one wallet; two transactions per acceptance; lost answers, reverts, crash and restart | the right claim is answered; spending rests on a proof; no answer contradicts a spending; nothing is said twice; only a handler whose transaction was replaced never ends |
| Start-up of both operators (`registerOperator`, `register_operator`, `main`) | where the process is; on chain: two registrations | two transactions, with a signature that expires between | crash between the two, lost answers, a late transaction of a predecessor, restart, an operator that leaves the registry meanwhile | a process that listens was registered; a partial registration heals |
| Rust operator, tasks (`monitor_new_tasks`) | block cursor, batch of logs | read logs, answer, sleep, move the cursor | the chain moves while the loop works; the block at the cursor is read twice | what may be missed is known exactly; nothing answered is answered again |
| Rust generator of tasks (`spam_tasks.rs`) and the operator beside it | where each waits; one account for both | tick, fill in a call, send, wait for the receipt | both spend the nonces of one account; a replaced sender waits without limit; what they say passes through generated code | a task goes round unchanged; never both are stuck; who is not replaced comes back |
| Rust bindings (`helloworldservicemanager.rs`, `ecdsastakeregistry.rs`) | none | encode and decode calls, returns, events, errors | two parallel tables, one of selectors and one of decoders, indexed alike and unchecked | every message is decoded as what it was sent as |
| Deployment scripts (`CoreDeploymentLib`, `InsuranceDeploymentLib`, three scripts) and the readers of their files | proxies with their code, the deployer's nonce, two JSON files | simulate, write the files, broadcast one transaction after the other, read | files are written before anything is broadcast; a broadcast stops anywhere; a nonce is used again by the next script; files are read at different times | what rests on the core rests on live contracts; a file names the right contracts; who mixes deployments is known exactly |
| Reward payments (`SetupPaymentsLib`, `SetupPayments`) | `payments.json`; on chain: roots and claims | leaves, root, proof; a run: simulation, then broadcast call by call | padding; arrays overwritten while they are read; root 0 and 100 hard-coded; a file overwritten by the run; a broadcast cut short | proofs fit roots; what is claimed is owed and paid in; no file is paid twice |
| `createNewTasks.ts`, demos, mock strategy, tests | none that matters here | - | - | environment or not modelled, see section 7 |

Components interact by transactions (operator to contract, script to
coordinator), events and logs (contract to operator), direct calls (contract to
pool) and three files (deployment script to script and operators, payment script
to itself).

## 2. Modules

| Module | Models | Extends or composes |
|---|---|---|
| `InsuranceServiceManager` | the contract: one action per external function, with sender and pool verdict as parameters | - |
| `ClaimLifecycle` | abstract: what happens to one claim at one operator | - |
| `ClaimOperator` | any number of operator processes with the contract they call | extends `InsuranceServiceManager`, implements `ClaimLifecycle` |
| `OperatorPresence` | abstract: who is registered and who listens | - |
| `OperatorRegistration` | one operator process from its start to its listening, TypeScript or Rust | implements `OperatorPresence` |
| `TaskMonitor` | the polling loop of the Rust operator with a chain | - |
| `AbiTypes` | what a binding writes down of an interface: types, functions, events, errors | - |
| `AbiCodec` | how that is encoded and decoded: words, packed values, arrays, structs, calls, logs, the search for a selector | extends `AbiTypes` |
| `ServiceManagerBinding`, `StakeRegistryBinding` | the structs, events, functions, errors and decoder tables of the two generated files | extend `AbiTypes` |
| `ContractBindings` | building and reading the calls, events and errors of the two | extends `AbiCodec`, instances of both bindings |
| `Bindings` | one message at a time across the wire | extends `ContractBindings` |
| `RustTraffic` | `spam_tasks.rs` and `start_operator.rs` on one account, the chain, and the contract at the address | extends `ContractBindings` |
| `Deployment` | the three scripts, the chain they deploy to, the two files, both operators as readers | - |
| `MerkleTree` | `padLeaves`, `merkleizeKeccak`, `generateMerkleProof` with a symbolic hash | - |
| `LeafArrays` | the arrays `createPaymentRoot` fills, and what the trees over them promise | extends `MerkleTree` |
| `SetupPayments` | the payment script, its file, the rewards coordinator | extends `MerkleTree` |
| `*_proofs` | theorems and proofs about the module of that name; `SetupPayments_proofs` also has those about `MerkleTree` and `LeafArrays`, and `RustTraffic_proofs` those about the bindings | extend it |
| `Recursion` | lemmas: induction without an operator parameter, and that functions defined by recursion exist | - |
| `MC*` | instances for TLC; `MCPayments` has the payment script and `LeafArrays` side by side, `MCTraffic` the programs of `RustTraffic` and the messages of `Bindings` | extend it |

State and actions in terms of the code:

* **Contract.**  Storage variables have the names of the code.  A transaction is one
  step: a revert leaves the storage as it was.  `newClaimEvents`,
  `respondedEvents` and `poolCalls` are histories of what was emitted and of the
  calls pools accepted.  An answer may be any bytes, none included, from
  anybody: an empty one leaves nothing in the storage, or erases an earlier one,
  while its event and the call of the pool stand.  `Uint32Size` is the number of values of the claim
  counter (2^32 in the code); the addition is checked, as Solidity 0.8 does.  A
  hash is the tuple of what is hashed, `(pool, insured)`.
* **Operator.**  Each `await` of a handler ends an action.  `populate` reads the
  nonce and `send` broadcasts, because ethers awaits in between; the
  transactions of a wallet are mined in order of nonce; a broadcast with a used
  nonce is refused or replaces the pending one.  What was replaced is never
  confirmed: `wait()` on the response of a contract call looks for no replacement,
  and its handler stays where it is (`Confirmed`).  `Faults` selects which of the
  services outside fail.  `evidence` is a history of what a handler established.
  The process comes up in one step here: `Start`, `Crash` and
  `Deregister` of `ClaimOperator` correspond to `Join`, `Stop` and `Leave` of
  `OperatorPresence`, which `OperatorRegistration` is shown to implement in its
  own, finer steps.
* **Registration.**  `program` is the program that runs, chosen once among
  `Programs`; `pc` names the place in `registerOperator` and `main`.  A
  process that died may have left a transaction behind; the node estimates a
  call on the latest or on the pending state, chosen once (`estimatesOn`).  In
  TypeScript the first registration is in a `try`, the second is not; in Rust
  every `?` ends `main`, and a receipt is not looked into.  The operator may leave
  the registry at any time (`Deregister`); the process is not told, and `removed`
  is a history of it.  `hindered` is a history: the starts in which a crash, a failed request or an expired signature
  got in the way.
* **Task monitor.**  `Begin`, `ReadLogs`, `SendResponse`, `Receipt`, `Advance` are
  the requests of the loop; the chain mines at any moment.  `skipped` and
  `seen` are histories.
* **Bindings.**  A value on the wire is a token that shows its shape (word,
  packed, array, struct) and not the name of its field, so that two fields
  exchanged, left out or given the wrong type are noticed; a word has no width.
  Selectors and hashes of events are the first four bytes of the source.  The
  decoder finds the place of a selector in `SELECTORS` and runs the function at
  the same place of `DECODE_SHIMS`, as the generated code does.  The compiler
  makes one function of the generic codec for each type; the model has one
  operator for each level of nesting, five of them, as deep as the types of the
  bindings go.
* **Traffic.**  `create_new_task` and `sign_and_response_to_task` are each: fill
  in the nonce, send, wait for the receipt, with a possible error in between that
  the caller drops.  The generator gives no gas limit, so that its call is tried
  before it is sent; the operator gives one.  The node keeps one pending
  transaction for each nonce; `sent` keeps all of them, as `pending`, `mined` or
  `replaced`.  `contract` is either the one the binding was generated from or the
  service manager of this repository, which has no function for tasks.  What
  they send and read is what the binding makes of it (`createNewTask`,
  `respondToTask`, `SIGNATURE_HASH`, `decode_log`); what the contract takes and
  logs is written down on its own, by the signatures it was compiled from.
  A poll returns the blocks that hold a log, in ascending order.
* **Deployment.**  A script is the sequence of its transactions.  Its simulation
  is the step that writes the file and takes the nonce it starts at; each
  `Broadcast` is one transaction; `BroadcastStops` ends it anywhere.  A contract
  has the name it was made under, the code behind it (a proxy begins with an
  `EmptyContract`) and the addresses it was built with.  An address is the nonce
  that made it.  The TypeScript operator reads the two files one after the other,
  once, when its module is loaded (`TsStarts`, `TsLoads`); the Rust operator reads them again in each function.
* **Payments.**  A run is `Run` (the simulation of the four calls, from
  `setRewardsUpdater` to the claim, with its effect on the file) and then one
  `Broadcast` per call, or `BroadcastStops`.  The key in the script is that of
  `Broadcaster`; the deployer, to whom the right to submit roots goes, is any
  account.  The coordinator may belong to anybody, and need not be there at all:
  `readDeploymentJson` (`CoreDeploymentLib.sol:361-379`) leaves its address at zero,
  so that with today's reader `there` is `FALSE` and no run passes its first call.
  The properties of the run speak of the other case, a reader that reads the
  address, or the library called with one.  A coordinator that is paused, that
  does not yet serve a new root, or that finds no allowance for its token is
  the choice in `Run` and `BroadcastStops`.  `trees` is a history of the leaves
  behind each root.
* **Trees.**  `merkleizeKeccak` hashes the padded leaves into an array of its own
  and overwrites that round by round; `generateMerkleProof` overwrites the padded
  array it reads its siblings from.  `Overwritten` is one round, one write after
  the other; a hash is symbolic.

## 3. Runs

| Run | Question | Bounds | Distinct states |
|---|---|---|---|
| `contract` | Are claims numbered and hashed once, up to the end of the counter, and are answers all or nothing when pools revert? | counter of 3 values, 2 pool calls, 2 operators, a pool and a contract-less address, an answer and the empty one | 1362864 |
| `contract_hash` (violation) | Is a response checked against the hashed claim, as the comment says? | same | - |
| `operator_faults` | Do two interleaving handlers of one wallet keep what reaches the pools right, with every fault, a crash and a restart? Does it implement `ClaimLifecycle`, and does every handler come to its answer or give up unless its transaction is replaced? | 1 operator, 2 claims of 2 insureds, 1 crash | 228283 |
| `operator_nonce` (violation) | Is every claim answered with two handlers on one wallet? | 1 operator, 2 claims | - |
| `operator_unverified` (violation) | Is every claim answered when its proof may not verify? | 2 operators, 1 claim | - |
| `registration` | Does the TypeScript operator begin to listen only when registered, and behave as `OperatorPresence`? For both programs: is nothing of a process that listens left pending, does a first start that nothing hinders lead to listening, is a registration cut in two completed by the next start? | 2 programs, 4 starts, all faults, deregistration at any time | 4449 |
| `registration_restart` (violation) | Does every started operator come to listen? | 2 programs, 3 starts, crashes | - |
| `monitor` | Is exactly the skipped lost, and nothing answered again? Is a task ahead of the cursor read? | 2 tasks, 4 blocks, 3 sends | 290834 |
| `monitor_skip` (violation) | Is no task passed over? | 2 tasks, 4 blocks | - |
| `payments` | Is only claimed what the first round owes, are claims funded, is no file paid twice? Do proofs and roots fit, for every array? | 2 rounds, 3 payments to 2 earners, 3 amounts, 2 accounts, 2^8 for 2^32; up to 9 leaves of 2 values | 537584 |
| `deployment` | What do completed and broken-off deployments leave on the chain and in the files, and which contracts do the next script and the operators that read these files meet? | 3 deployments of either kind, 1 broken off anywhere | 101239 |
| `traffic` | Does every message of the bindings arrive as sent? Does a task go round unchanged, and what do two programs do to one account? | 2 ticks, 4 transactions, 2 names; every call, return, event and error of both bindings | 40548 |

Why the bounds are enough for the cases that matter:

* Two claims are the least that share a wallet, and all races here are of two
  handlers; two operators share nothing but the contract, which keeps their
  answers apart by sender.
* The counter has three values so that its end is reached and one more call is
  refused.
* Four starts are a first registration, a crash in it, a restart and a restart
  after a deregistration, with late transactions of two predecessors.
* Four blocks are the first cursor, a block read, a block skipped and a last
  one; three sends are two tasks and one that is repeated.
* Nine leaves give trees of depth 1 to 4 with every amount of padding between.
* In `payments`, 356 is 100 after the cut to 8 bits, 40 is an amount that
  differs, and three payments need two levels and padding; a second round is
  where root 0 and the file of the round part, and a second earner is one whom it
  may add.
* Three deployments are a core, insurance contracts on it, and either of them
  again: the least in which an old registry meets a new core, or a file whose
  broadcast was cut off names the contracts of another script.  One broken-off
  broadcast is enough for both, since the next script starts from what it left.
* Two ticks and four transactions are two tasks and their two answers, or a
  transaction replaced by the other program's and the answer to it.  The sample
  of values a message carries differs in every field and in every element, so
  that one message of each kind shows a misplaced field.

Deadlock is checked in `contract`, where blocks and calls to `initialize` go
on.  It is off elsewhere because those systems may really stop: claims, starts,
blocks, transactions, deployments or rounds are bounded, and a process that gave
up is not started by anybody.

Fairness is used by `operator_faults`, `operator_nonce`, `operator_unverified`,
`registration`, `registration_restart`, `monitor` and `traffic`.  It is
weak, and on two kinds of steps: those of a running process (an event loop or a
tokio task runs what is due, and requests come back with an answer or an error)
and the mining of a transaction that was broadcast.  Nothing forces a fault, a
start, a tick, a new claim, a new task, or a particular outcome of a step; which of
the nonces a node may answer with is open.
`TasksAheadAreRead` has a disjunct for the end of the loop, since one failed
request ends it; `SendersComeBack` and `HandlersSettleUnlessReplaced` have one for
a transaction that was replaced, since `get_receipt` and `wait()` then wait for
ever.

## 4. What disagrees

* `contract_hash`: the comment at `InsuranceServiceManager.sol:35-37` says responses
  are checked against the hash; `respondToClaim` never reads it.
* `operator_nonce`: two handlers take the same nonce, and one claim is dropped.
* `monitor_skip`: of several blocks mined during one cycle only the last is read.
* `operator_unverified`: `index.ts:118` returns before the answer when a proof does
  not verify, although `isApproved` was set to reject the claim.
* `registration_restart`: an operator that is registered already never listens
  again.  The TypeScript program ends in the `catch` of `main`; the Rust program
  asks whether the operator is registered, does not use the answer, and ends at
  the error of the registration.

The README of the repository (its user flow, lines 12 to 14) is what all but the
first are measured against.

One more disagreement has no run, since it does not depend on any order of steps:
README.md:12 says that the contract emits `NewTaskCreated` for a request, and
README.md:146-165 has the contracts deployed, the Rust operator started and the
generator run on them.  The service manager of the repository has neither
`createNewTask` nor `respondToTask` nor the event: the generator's call reverts
when its gas is estimated, the error is dropped (`spam_tasks.rs:72`), and no task is
ever created.  `RustTraffic` has that contract as one of the two at the address.

What the runs that pass show of the code, where no document promises otherwise:

* A transaction of the TypeScript operator that is replaced leaves its handler
  waiting for ever, and its claim unanswered; that is one of the ways to the end
  of `operator_nonce`.
* After a completed deployment the beacon of the pods has a pod for its code, the
  pauser registry is an empty contract, and the strategy and token named in the
  file are not on the chain, because they were made in `setUp`, which is not
  broadcast (`CompletedDeploymentsLackFourThings`).
* A directory whose proxy is still an `EmptyContract` may lie under insurance
  contracts when the core deployment was broken off; the delegation manager, the
  strategy manager and the factory may not (`InsuranceRestsOnLiveCore`).
* After a core deployment without a new insurance deployment a TypeScript
  operator registers at one core and with the registry of another; after a new
  insurance deployment a running Rust operator answers at another contract than
  it listens to (`OperatorsMixOnlyRedeployments` says that nothing else mixes).
* A round of payments after the first pays nobody whom it adds, nor more: claims
  are of root 0 and of 100 (`OnlyTheFirstRoundIsClaimed`).
* A Rust program whose transaction is replaced by the other's on the same
  account waits for ever.

Remarks without a run.  `SetupPayments` cannot pass today, for two reasons in the
files it reads: its `setUp` looks below `.contracts` (`InsuranceDeploymentLib.sol:79`)
where the file has `.addresses`, and the address of the rewards coordinator is not
read (section 2, Payments).  `lib.rs` of the Rust utilities declares
`insuranceservicemanager`, and the file is `helloworldservicemanager.rs`.  The
constructor in the binding takes three addresses, the one of the contract four.
The TypeScript operator reads the deployment files of chain 421614, the Rust
programs and `createNewTasks.ts` those of chain 1.  The comment at `InsuranceServiceManager.sol:40` speaks of
the hash of a response, while what is stored (line 156) is an operator's signature
of the claim number, the same for either answer.  The Rust program does not look into the
receipt of its registration (`start_operator.rs:217-218`): with a reverted one it
reports success and monitors, which is why `MonitorsOnlyWhenRegistered` speaks of
the TypeScript program.

## 5. What is proved

For all values of the constants, under the named assumptions of the modules
(finite widths and bounds are numbers, the zero values belong to their types;
nothing is assumed about how many operators, claims, tasks or starts there are).

* `InsuranceServiceManager_proofs`: `ContractTypeCorrect`, `ClaimsAreRecorded`,
  `HashesAreFinal`, `AnswersAgree`.  The invariant of recording is inductive
  once it says that nothing is stored beyond the counter; `HashesAreFinal`
  follows from it, because the only number that is written is free.  The
  agreement of answers and pools needs that every event refers to a call made
  before it, in order; the newest event of an operator and number is then the one
  whose bytes were stored last.  Nothing is assumed of the bytes of an answer.
* `ClaimOperator_proofs`: `OperatorTypeCorrect`, `CallsCarryCreatedClaims`,
  `SpendingIsEvidenced`.  One inductive invariant, `OperatorInv`.  The two
  properties speak of calls that pools accepted; a call is copied from the
  mempool, that from a handler, that from an event, so the invariant says the
  same thing at each of these places: `GoodInbox` (numbers of created claims),
  `GoodHandlers` (evidence fits the step; a spending is only under way with all
  of it), `GoodMempool` and `GoodCalls`.  What survives a crash is the mempool
  and the calls, and neither refers to a handler.  Events are only appended, so
  what was said of a claim stays true.
* `ClaimOperator_proofs`, second part: `OperatorsSayNothingTwice`,
  `OperatorsAnswerAfterSpending` and, from these, `OperatorsImplementLifecycle`:
  every step of operators, wallets and contract is a step or a stutter of
  `ClaimLifecycle`.  The invariant `OrderInv` follows a claim on its way:
  undelivered it has one handler to go to and nothing was said of it
  (`InboxOrder`); before its first transaction a handler has said nothing, and
  between its two transactions exactly its approval was heard (`HandlersOrder`);
  no two transactions of a wallet, mined or pending, say the same
  (`QueueDistinct`); a pending positive answer rests on an approval that was
  heard, a pending negative one on none heard or pending (`QueueFollows`); and a
  negative answer that was heard is followed by none (`RejectionsFinal`).  Each
  part is needed: a crash takes the handler away and leaves its transactions, so
  that what the handler knew has to be said again of the mempool.
* `OperatorRegistration_proofs`: `RegistrationTypeCorrect` and
  `ListensWithNothingPending` for both programs, `TsMonitorsOnlyWhenRegistered`
  and the refinement `RegistrationImplementsPresence` for the TypeScript one.
  The invariant adds that a receipt that says ok, while it is waited for, is a
  registration, unless the operator has left the registry since (`removed`), which
  it may at any time.  That nothing
  is left pending rests on the order of the mempool: the registration with a
  signature is the last transaction of its start, so when its receipt is there
  the others are mined (`InOrder`).
* `Deployment_proofs`: all five properties, for any number of deployments of
  either kind and any number of them broken off anywhere.  `TypeCorrect`,
  `CompletedDeployments` and `FilesNameContracts` rest on `DeploymentInv`: addresses are the
  nonces of the past (`ChainOK`), what is being broadcast is the script of the
  last run (`BroadcastOK`), and of the last deployment of each kind a prefix was
  sent, each contract of the prefix has the name and the code the prefix gave it,
  and the file names the nonces it counted on (`CoreOK`, `InsuranceOK`).  A
  deployment whose prefix is the whole script is complete; one that was cut off
  has its remaining nonces taken over by the script that follows, which is the
  exception in `FilesNameTheirContracts`.  `InsuranceRests` rests on `BuiltsOK`:
  whatever an insurance contract was built with was live when it was built, and
  transactions give code to empty proxies only.  `OperatorsMix` adds `TsOK` (the
  registry a TypeScript process loaded still has the delegation manager it
  loaded, unless a core deployment came after the insurance contracts) and
  `RustInv` (what was read so far agrees with the file as long as no insurance
  deployment followed the start).
* `RustTraffic_proofs`: `TypeCorrect`, `TasksGoRound`, `OneProgramGoesOn`, for any names, ticks and transactions.  The invariant `TrafficInv` says that the
  chain's nonce counts the mined transactions and every log is that of a task
  the contract keeps (`ChainOK`); that each transaction carries a call its
  program makes, and a mined answer has answered (`SentOK`); that the pending ones have
  the nonces that follow the chain's, one each and without a gap (`NoncesOK`); and
  of each program that the nonce in its hand leaves no gap and that it waits for
  the last transaction it sent (`GeneratorOK`, `OperatorOK`).  That not both are stuck follows
  from the order: what replaced a transaction was sent later, and two programs
  that wait for their last transactions cannot each have sent the later one.
  Nothing is assumed of the binding: that its two calls are the ones the contract
  takes, and its event the one the contract logs, is computed from its tables
  (`CreateIs`, `AnswerIs`, `TaskLogIs`, `TaskLogDecodes`).
* `RustTraffic_proofs`, the bindings: `MessagesArrive`, for any values that fit
  the types of a message, of whatever length its arrays are (`PayloadAssumption`
  says that they fit; the compiler sees to it).  A type is carried through as
  many levels as it nests (`Level1` to `Level5`), a tuple field by field
  (`TupleCarried`).  `SearchFindsEveryKey`: the range of the binary search never
  loses the place of the key and shrinks until its middle is that place, so
  that a place that is found lies in both tables.  `CallsArrive` and
  `EventsArrive` need of an interface only that its selectors ascend, that each
  place of the two tables belongs to one variant and every variant has a place
  (`TablesMatch`), and that its events have hashes of their own and fill their
  fields in order (`EventsDiffer`); the lemmas on tables find this of the two
  generated files place by place.  The inductive invariant `WireInv` then only
  has to say that what is on the wire is the encoding of such values.
* `SetupPayments_proofs`, in three parts.
  - Trees: `ProofsFit` and `RootTellsLength`, for arrays of leaves of every
    length. The code overwrites its arrays; the proofs speak of the layers of
    nodes, each an array of its own. `OverwrittenIs`: a place is written from two
    places that were not yet written, because it does not lie beyond either;
    `RoundsAre`, `RoundsOfTree`: so after each round the array begins with the next
    layer, in the array of the root and in that of the proof, and the siblings are
    read from these beginnings (`SiblingInLayer`). `merkleizeKeccak` is then the
    node at the top of the layers, and a proof the sibling on each layer. `VerifiesWhatWasPut`: hashing a
    leaf up along the proof of an index meets, layer by layer, the nodes of the
    tree that has this leaf at this index, because a leaf changes only the nodes
    on its own way (`PutAside`). `RootTellsLeaves`: two arrays with one root are
    the same array; going down from equal roots the nodes are equal, a deeper
    tree would have a hash where the other has a leaf (`DeeperDiffers`), and
    padding is no leaf. The hash is symbolic: equal hashes have equal arguments,
    no leaf is a hash of two nodes, and none is the zero of the padding.
  - Files: `PaymentsTypeCorrect` and `FilesArePaidOnce`. The invariant
    `PaymentsInv` says what is left of a run (all four calls, three, two, one or
    none, in this order) and counts each file in one place only: unread, planned or
    paid.
  - Money: `ClaimsAreCovered` and `ClaimsAreOfTheFirstRound`. A simulation that
    passes makes its claim against the roots it finds; what the chain accepts
    later, when other calls were cut off, is checked again by the proof itself
    (`ClaimVerifies`): a proof from the tree of another round, put together with
    the leaf of the info, verifies against root 0 only for a leaf that is in the
    first tree, and the token leaf of 100 only in a token root of 100
    (`TokenRootTellsAmount`). `FundingInv` is inductive: before the first tree is
    submitted nobody has claimed and what the run still pays in, or has paid in,
    covers 100 for every leaf (`FirstRoundPaysIn`: the first claim only passes if
    its payments are of 100); afterwards everybody who claimed has a leaf of 100
    in the first tree, so that there are at most as many as it has leaves.

  What a recursive function computes for every argument is proved without an
  induction theorem, by way of the least element of a set of numbers
  (`LeastElement`, `InductiveSet` in `Recursion`); that `Shifted`, `Way`,
  `Overwritten`, `Rounds` and `HashedUp`, and the ranges of the binary search, exist at all is
  an instance of one lemma, `Solution`, for which the hashes over some leaves
  have to form a set (`HashesExist`).
* `TaskMonitor_proofs`: `TypeCorrect`, `OnlySkippedBlocksAreMissed`,
  `HeardAnswersStayFinal`.  The coverage invariant relates cursor, newest block
  at the last reading, and history; the answer invariant says that a task with
  a heard answer lies in a block before the newest.

Only model-checked: liveness (`HandlersSettleUnlessReplaced`,
`PartialRegistrationHeals`, `FreshRegistrationMonitors`, `TasksAheadAreRead`,
`SendersComeBack`), which the prover cannot do.  Every other property of the runs that pass is a theorem:
all invariants, action properties and refinements.

## 6. Plan

Everything planned at first is there: contract, operator, abstract life of a
claim, monitor, start-up, payments, deployment, bindings, traffic, and the proofs
of the invariants and refinements that the prover reaches.  What could follow:

1. `ClaimOperator` with the start-up composed (`OperatorRegistration` in place
   of `Start`), at least for one operator and one claim, where the nonces of the
   registration and of the answers meet.
2. A run of `TaskMonitor` with several operators if the response contract of the
   tasks is ever part of this repository.

## 7. Not modelled, and why

* EigenLayer, its middleware, OpenZeppelin, ethers, alloy, forge, the node, the proof and storage
  services and the pools: not part of the repository; modelled as far as the
  source depends on them and marked external in the map.
* Cryptography: hashes keep their arguments, signatures are values.  The
  signature of an answer is over the claim number alone and checked by nobody.
* Wording of logs, gas prices, wall-clock time: a deadline is a step that may
  come too late.
* How `SetupPayments` reads the deployment files in its `setUp`: of it only the
  coordinator's address matters to what is modelled, which is there or not.
  `uint32(numPayments)` never cuts an array that fits into a block.
* Deployment: the arguments of the initialisers (pausing, delays, owners),
  labels, console output and the calls with which forge checks its own results.
  One chain; chain ids are instances beside each other.
* Bindings: constructors, bytecode, helpers that deploy, filters of events,
  EIP-712 hashes and packed encodings: generated, stateless, and called by
  neither program.  Words have no width, bytes have no length.
* `RustTraffic` has one transaction of the account in each block and no blocks of
  others; blocks without tasks and tasks that share a block are in `TaskMonitor`.
* String helpers and the unused modifier of the service manager.
* `MockStrategy`, demos of encryption, proofs and storage, tests:
  sequential, without state of their own, or not used by the program.
