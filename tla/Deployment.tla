----------------------------- MODULE Deployment -----------------------------
(***************************************************************************)
(* The forge scripts DeployEigenLayerCore and InsuranceDeployer, the two   *)
(* files they leave, and the operators that read these files.  A script    *)
(* first runs in a simulation of the chain, where it also reads and writes *)
(* the files; its transactions are broadcast afterwards, one by one, and   *)
(* the broadcast may stop anywhere.  SetupPayments is a module of its own. *)
(* One chain: the files of other chain ids are other instances.            *)
(***************************************************************************)
EXTENDS Integers, Sequences, FiniteSets, SequencesExt

CONSTANTS
    MaxRuns,        \* bound on the deployments
    MaxLost         \* bound on the broadcasts that stop early

ASSUME DeploymentAssumption == MaxRuns \in Nat /\ MaxLost \in Nat

VARIABLES
    contracts,      \* address -> what the chain has there
    nonce,          \* the next nonce of the deployer
    coreFile,       \* deployments/core/<chain>.json
    insuranceFile,  \* deployments/insurance/<chain>.json
    broadcast,      \* the script whose transactions are being sent
    ts,             \* what the TypeScript operator loaded, and how far it is
    rust,           \* what the Rust operator read, and where it answered last
    runs,           \* history: the deployments begun, in order
    lost            \* history: the deployments whose broadcast stopped early

chainVars == <<contracts, nonce>>
files == <<coreFile, insuranceFile>>
readers == <<ts, rust>>
histories == <<runs, lost>>
vars == <<chainVars, files, broadcast, readers, histories>>

----------------------------------------------------------------------------
(* Addresses.  CREATE derives them from the creator and its nonce: what    *)
(* the deployer creates is named by that nonce.  The token of setUp is     *)
(* created by the script itself, always at the same address, and the       *)
(* strategy by the factory.                                                *)
Zero == 0
Token == -1
NewStrategy(factory) == -1 - factory

Exists(a) == a \in DOMAIN contracts
Code(a) == IF Exists(a) THEN contracts[a].code ELSE "none"

----------------------------------------------------------------------------
(* Scripts as the sequences of transactions they broadcast.                *)
New(x) == [op |-> "create", name |-> x, code |-> x]
NewProxy(x) == [op |-> "create", name |-> x, code |-> "EmptyContract"]
setUpEmptyProxy(x) == <<New("EmptyContract"), NewProxy(x)>>
setUpEmptyProxies(names) ==
    [i \in 1 .. 2 * Len(names) |->
        setUpEmptyProxy(names[(i + 1) \div 2])[IF i % 2 = 1 THEN 1 ELSE 2]]
upgradeAndCall(x, impl) == [op |-> "upgrade", name |-> x, code |-> impl]

CoreProxies ==
    <<"delegationManager", "avsDirectory", "strategyManager", "eigenPodManager",
      "rewardsCoordinator", "eigenPodBeacon", "pauserRegistry", "strategyFactory">>

CoreImplementations ==
    <<"delegationManagerImpl", "avsDirectoryImpl", "strategyManagerImpl",
      "strategyFactoryImpl", "eigenPodManagerImpl", "rewardsCoordinatorImpl",
      "eigenPodImpl", "eigenPodBeaconImpl", "baseStrategyImpl",
      "pauserRegistryImpl", "strategyBeacon">>

CoreUpgradesDelegationLast ==    \* mutant: the delegation manager last
    <<upgradeAndCall("strategyManager", "strategyManagerImpl"),
      upgradeAndCall("strategyFactory", "strategyFactoryImpl"),
      upgradeAndCall("eigenPodManager", "eigenPodManagerImpl"),
      upgradeAndCall("avsDirectory", "avsDirectoryImpl"),
      upgradeAndCall("rewardsCoordinator", "rewardsCoordinatorImpl"),
      upgradeAndCall("eigenPodBeacon", "eigenPodImpl"),
      upgradeAndCall("delegationManager", "delegationManagerImpl")>>

CoreUpgradesWithoutDirectory ==    \* mutant: one upgrade forgotten
    <<upgradeAndCall("delegationManager", "delegationManagerImpl"),
      upgradeAndCall("strategyManager", "strategyManagerImpl"),
      upgradeAndCall("strategyFactory", "strategyFactoryImpl"),
      upgradeAndCall("eigenPodManager", "eigenPodManagerImpl"),
      upgradeAndCall("rewardsCoordinator", "rewardsCoordinatorImpl"),
      upgradeAndCall("eigenPodBeacon", "eigenPodImpl")>>

(* In this order; the beacon gets the code of a pod, the pauser registry   *)
(* none.                                                                   *)
CoreUpgrades ==
    <<upgradeAndCall("delegationManager", "delegationManagerImpl"),
      upgradeAndCall("strategyManager", "strategyManagerImpl"),
      upgradeAndCall("strategyFactory", "strategyFactoryImpl"),
      upgradeAndCall("eigenPodManager", "eigenPodManagerImpl"),
      upgradeAndCall("avsDirectory", "avsDirectoryImpl"),
      upgradeAndCall("rewardsCoordinator", "rewardsCoordinatorImpl"),
      upgradeAndCall("eigenPodBeacon", "eigenPodImpl")>>

News(names) == [i \in DOMAIN names |-> New(names[i])]

CoreScript ==
    <<New("proxyAdmin")>>
    \o setUpEmptyProxies(CoreProxies)
    \o News(CoreImplementations)
    \o CoreUpgrades

InsuranceScript ==
    <<New("proxyAdmin")>>
    \o setUpEmptyProxy("insuranceServiceManager")
    \o setUpEmptyProxy("stakeRegistry")
    \o News(<<"stakeRegistryImpl", "insuranceServiceManagerImpl">>)
    \o <<upgradeAndCall("stakeRegistry", "stakeRegistryImpl"),
         upgradeAndCall("insuranceServiceManager", "insuranceServiceManagerImpl")>>

(* The address a script that starts at nonce n finds for one of its        *)
(* contracts.                                                              *)
Place(script, x) ==
    CHOOSE i \in DOMAIN script : script[i].op = "create" /\ script[i].name = x

AddressOf(script, x, n) == n - 1 + Place(script, x)

----------------------------------------------------------------------------
(* The files, by their keys below "addresses".                             *)
NoFile == <<>>

CoreKeys ==
    {"proxyAdmin", "delegation", "delegationManagerImpl", "avsDirectory",
     "avsDirectoryImpl", "strategyManager", "strategyManagerImpl", "eigenPodManager",
     "eigenPodManagerImpl", "strategyFactory", "strategyFactoryImpl", "strategyBeacon"}

NameOfKey(k) == IF k = "delegation" THEN "delegationManager" ELSE k

writeCoreJson(n) == [k \in CoreKeys |-> AddressOf(CoreScript, NameOfKey(k), n)]

InsuranceKeys ==
    {"proxyAdmin", "insuranceServiceManager", "insuranceServiceManagerImpl",
     "stakeRegistry", "stakeRegistryImpl", "strategy", "token"}

writeInsuranceJsonSwapped(n, strategy) ==    \* mutant: proxy and implementation exchanged
    [k \in InsuranceKeys |->
        CASE k = "strategy" -> strategy
          [] k = "token" -> Token
          [] k = "stakeRegistry" -> AddressOf(InsuranceScript, "stakeRegistryImpl", n)
          [] k = "stakeRegistryImpl" -> AddressOf(InsuranceScript, "stakeRegistry", n)
          [] OTHER -> AddressOf(InsuranceScript, k, n)]

writeInsuranceJson(n, strategy) ==
    [k \in InsuranceKeys |->
        CASE k = "strategy" -> strategy
          [] k = "token" -> Token
          [] OTHER -> AddressOf(InsuranceScript, k, n)]

(* CoreDeploymentLib.readDeploymentJson fills five of nine addresses.      *)
readCoreJsonSwapped ==    \* mutant: two keys exchanged
    [strategyFactory |-> coreFile.strategyFactory,
     strategyManager |-> coreFile.strategyManager,
     eigenPodManager |-> coreFile.eigenPodManager,
     delegationManager |-> coreFile.avsDirectory,
     avsDirectory |-> coreFile.delegation,
     rewardsCoordinator |-> Zero]

readCoreJson ==
    [strategyFactory |-> coreFile.strategyFactory,
     strategyManager |-> coreFile.strategyManager,
     eigenPodManager |-> coreFile.eigenPodManager,
     delegationManager |-> coreFile.delegation,
     avsDirectory |-> coreFile.avsDirectory,
     rewardsCoordinator |-> Zero]

----------------------------------------------------------------------------
Idle == [script |-> <<>>, start |-> 0, built |-> NoFile]
TsDown == [pc |-> "down", manager |-> Zero, stakeRegistry |-> Zero, delegation |-> Zero,
           avsDirectory |-> Zero, at |-> 0]
Down == [pc |-> "down", delegation |-> Zero, signedFor |-> Zero, registry |-> Zero,
         manager |-> Zero, answered |-> Zero, since |-> 0]

Init ==
    /\ contracts = <<>>
    /\ nonce = 1
    /\ coreFile = NoFile
    /\ insuranceFile = NoFile
    /\ broadcast = Idle
    /\ ts = TsDown
    /\ rust = Down
    /\ runs = <<>>
    /\ lost = {}

(* DeployEigenLayerCore up to its first transaction: the file is written.  *)
DeployCore ==
    /\ broadcast = Idle
    /\ Len(runs) < MaxRuns
    /\ coreFile' = writeCoreJson(nonce)
    /\ broadcast' = [script |-> CoreScript, start |-> nonce, built |-> NoFile]
    /\ runs' = Append(runs, "core")
    /\ UNCHANGED <<chainVars, insuranceFile, readers, lost>>

(* deployNewStrategy in setUp: the factory must answer, and its manager    *)
(* must let it add a strategy.                                             *)
SetUpPasses ==
    /\ coreFile # NoFile
    /\ Code(readCoreJson.strategyFactory) = "strategyFactoryImpl"
    /\ Code(readCoreJson.strategyManager) = "strategyManagerImpl"

(* InsuranceDeployer up to its first transaction.  Token and strategy are  *)
(* made in setUp, so in no transaction; verifyDeployment finds no zero.    *)
(* What the contracts are built with is kept beside them.                  *)
DeployInsurance ==
    /\ broadcast = Idle
    /\ Len(runs) < MaxRuns
    /\ SetUpPasses
    /\ LET core == readCoreJson
           strategy == NewStrategy(core.strategyFactory)
       IN  /\ core.delegationManager # Zero /\ core.avsDirectory # Zero
           /\ insuranceFile' = writeInsuranceJson(nonce, strategy)
           /\ broadcast' =
                 [script |-> InsuranceScript, start |-> nonce,
                  built |-> [core |-> core, strategy |-> strategy, run |-> Len(runs) + 1]]
    /\ runs' = Append(runs, "insurance")
    /\ UNCHANGED <<chainVars, coreFile, readers, lost>>

FinishedLate(n) == n - broadcast.start > Len(broadcast.script)    \* mutant
Finished(n) == n - broadcast.start = Len(broadcast.script)

(* The next transaction of the script is mined.                            *)
Broadcast ==
    /\ broadcast # Idle
    /\ LET tx == broadcast.script[nonce - broadcast.start + 1]
           proxy == AddressOf(broadcast.script, tx.name, broadcast.start)
           made == [name |-> tx.name, code |-> tx.code, built |-> broadcast.built]
       IN  contracts' =
              IF tx.op = "create"
              THEN [a \in DOMAIN contracts \cup {nonce} |->
                       IF a = nonce THEN made ELSE contracts[a]]
              ELSE [contracts EXCEPT ![proxy].code = tx.code]
    /\ nonce' = nonce + 1
    /\ broadcast' = IF Finished(nonce + 1) THEN Idle ELSE broadcast
    /\ UNCHANGED <<files, readers, histories>>

(* The node is gone or the deployer out of funds: the rest is never sent.  *)
BroadcastStops ==
    /\ broadcast # Idle
    /\ Cardinality(lost) < MaxLost
    /\ broadcast' = Idle
    /\ lost' = lost \cup {Len(runs)}
    /\ UNCHANGED <<chainVars, files, readers, runs>>

----------------------------------------------------------------------------
(* The TypeScript operator reads the file of the insurance contracts and   *)
(* then the one of the core when its module is loaded, and keeps the four  *)
(* addresses until it is stopped. A missing file ends it.                  *)
TsStarts ==
    /\ ts = TsDown
    /\ insuranceFile # NoFile
    /\ ts' = [TsDown EXCEPT !.pc = "loading",
                            !.manager = insuranceFile.insuranceServiceManager,
                            !.stakeRegistry = insuranceFile.stakeRegistry]
    /\ UNCHANGED <<chainVars, files, broadcast, rust, histories>>

TsLoads ==
    /\ ts.pc = "loading"
    /\ coreFile # NoFile
    /\ ts' = [pc |-> "running", manager |-> ts.manager, stakeRegistry |-> ts.stakeRegistry,
              delegation |-> coreFile.delegation, avsDirectory |-> coreFile.avsDirectory,
              at |-> Len(runs)]
    /\ UNCHANGED <<chainVars, files, broadcast, rust, histories>>

TsStops ==
    /\ ts # TsDown
    /\ ts' = TsDown
    /\ UNCHANGED <<chainVars, files, broadcast, rust, histories>>

(* The Rust operator reads the files again for each address it needs.      *)
parse_delegation_manager_address == coreFile.delegation
parse_insurance_service_manager == insuranceFile.insuranceServiceManager
parse_stake_registry_address == insuranceFile.stakeRegistry

RustStep(from, needed, to) ==
    /\ rust.pc = from
    /\ needed # NoFile
    /\ rust' = to
    /\ UNCHANGED <<chainVars, files, broadcast, ts, histories>>

(* Up to the registration with the DelegationManager; then the address the *)
(* signature is for; then the registry it is sent to; then the address the *)
(* monitor keeps.                                                          *)
RustStarts ==
    RustStep("down", coreFile,
             [Down EXCEPT !.pc = "registering", !.delegation = parse_delegation_manager_address,
                          !.since = Len(runs)])

RustSigns ==
    RustStep("registering", insuranceFile,
             [rust EXCEPT !.pc = "signed", !.signedFor = parse_insurance_service_manager])

RustRegisters ==
    RustStep("signed", insuranceFile,
             [rust EXCEPT !.pc = "registered", !.registry = parse_stake_registry_address])

RustMonitors ==
    RustStep("registered", insuranceFile,
             [rust EXCEPT !.pc = "monitoring", !.manager = parse_insurance_service_manager])

(* Every response reads the file again.                                    *)
RustAnswers ==
    RustStep("monitoring", insuranceFile,
             [rust EXCEPT !.answered = parse_insurance_service_manager])

RustStops ==
    /\ rust # Down
    /\ rust' = Down
    /\ UNCHANGED <<chainVars, files, broadcast, ts, histories>>

Readers ==
    \/ TsStarts \/ TsLoads \/ TsStops
    \/ RustStarts \/ RustSigns \/ RustRegisters \/ RustMonitors \/ RustAnswers \/ RustStops

Next ==
    \/ DeployCore \/ DeployInsurance \/ Broadcast \/ BroadcastStops \/ Readers

Spec == Init /\ [][Next]_vars

----------------------------------------------------------------------------
Addresses == (-1 - nonce - Len(CoreScript)) .. (nonce + Len(CoreScript))

(* The chain and what the processes know of it hold values of their types, *)
(* and creations have the nonces of the past.                              *)
TypeOK ==
    /\ nonce \in Nat \ {0}
    /\ DOMAIN contracts \subseteq 1 .. nonce - 1
    /\ coreFile = NoFile \/ coreFile \in [CoreKeys -> Addresses]
    /\ insuranceFile = NoFile \/
          insuranceFile \in [InsuranceKeys -> Addresses]
    /\ broadcast # Idle =>
          nonce - broadcast.start \in 0 .. Len(broadcast.script) - 1
    /\ ts.pc \in {"down", "loading", "running"}
    /\ rust.pc \in {"down", "registering", "signed", "registered", "monitoring"}
    /\ runs \in Seq({"core", "insurance"}) /\ lost \subseteq 1 .. Len(runs)

LatestRun(kind) == CHOOSE j \in 0 .. Len(runs) :
    /\ j # 0 => runs[j] = kind
    /\ \A i \in j + 1 .. Len(runs) : runs[i] # kind

Complete(kind) ==
    /\ LatestRun(kind) # 0
    /\ LatestRun(kind) \notin lost
    /\ broadcast = Idle \/ LatestRun(kind) # Len(runs)

(* What a proxy of the core is meant to get.                               *)
ImplementationOf ==
    [delegationManager |-> "delegationManagerImpl", avsDirectory |-> "avsDirectoryImpl",
     strategyManager |-> "strategyManagerImpl", eigenPodManager |-> "eigenPodManagerImpl",
     rewardsCoordinator |-> "rewardsCoordinatorImpl", eigenPodBeacon |-> "eigenPodBeaconImpl",
     pauserRegistry |-> "pauserRegistryImpl", strategyFactory |-> "strategyFactoryImpl"]

(* Part of CompletedDeploymentsLackFourThings: the core.                   *)
OnlyBeaconAndPauserUnusable ==
    Complete("core") =>
        LET at(x) == AddressOf(CoreScript, x, coreFile.proxyAdmin)
        IN  /\ {x \in DOMAIN ImplementationOf : Code(at(x)) # ImplementationOf[x]}
                   = {"eigenPodBeacon", "pauserRegistry"}
            /\ \A k \in CoreKeys : Exists(coreFile[k])

(* Part of CompletedDeploymentsLackFourThings: the insurance contracts.    *)
OnlyStrategyAndTokenMissing ==
    Complete("insurance") =>
        {k \in DOMAIN insuranceFile : ~Exists(insuranceFile[k])} = {"strategy", "token"}

(* A completed core deployment leaves every proxy with the implementation  *)
(* made for it, except two: the beacon of the pods, which has a pod, and   *)
(* the pauser registry, which stays empty although every other contract is *)
(* initialised with it.  And of what the file of a completed deployment of *)
(* the insurance contracts names (README.md:74), everything is on the      *)
(* chain but the strategy, in which all stake is counted, and its token:   *)
(* they were made in setUp, in the simulation alone.                       *)
CompletedDeploymentsLackFourThings ==
    OnlyBeaconAndPauserUnusable /\ OnlyStrategyAndTokenMissing

(* An insurance deployment, however early the core deployment below it     *)
(* stopped, rests on a delegation manager, a strategy manager and a        *)
(* factory that are initialised, and on addresses that are theirs: the     *)
(* order of the upgrades and the call of setUp see to it.                  *)
InsuranceRestsOnLiveCore ==
    \A a \in DOMAIN contracts :
        contracts[a].built # NoFile =>
            LET core == contracts[a].built.core
            IN  /\ Code(core.delegationManager) = "delegationManagerImpl"
                /\ Code(core.strategyManager) = "strategyManagerImpl"
                /\ Code(core.strategyFactory) = "strategyFactoryImpl"

(* An address of a file that has code has the contract of that name,       *)
(* unless the broadcast behind the file stopped early and a deployment     *)
(* took over its nonces.                                                   *)
FilesNameTheirContracts ==
    /\ coreFile # NoFile =>
           \A k \in CoreKeys : Exists(coreFile[k])
                               => contracts[coreFile[k]].name = NameOfKey(k)
    /\ insuranceFile # NoFile =>
           \/ LatestRun("insurance") \in lost /\ LatestRun("core") > LatestRun("insurance")
           \/ \A k \in DOMAIN insuranceFile : Exists(insuranceFile[k])
                               => contracts[insuranceFile[k]].name = k

(* Part of OperatorsMixOnlyRedeployments: the TypeScript operator.         *)
TsRuns == ts.pc = "running"

MixedOnlyAfterCoreRedeployed ==
    TsRuns /\ Exists(ts.stakeRegistry) =>
        LET registry == contracts[ts.stakeRegistry]
        IN  registry.name = "stakeRegistry" /\ registry.built.core.delegationManager # ts.delegation
                => \E j \in registry.built.run + 1 .. ts.at : runs[j] = "core"

(* Part of OperatorsMixOnlyRedeployments: the Rust operator.               *)
RustStaysAtOneDeployment ==
    rust.pc = "monitoring" /\ LatestRun("insurance") <= rust.since =>
        /\ rust.signedFor = rust.manager
        /\ rust.answered \in {Zero, rust.manager}
        /\ rust.manager = insuranceFile.insuranceServiceManager
        /\ rust.registry = insuranceFile.stakeRegistry

(* A TypeScript operator that registers with one delegation manager and    *)
(* with a stake registry that reads another loaded the file of the core    *)
(* after the core was deployed again on top of that registry, wherever the *)
(* deployments fall between its two reads.  And as long as the insurance   *)
(* contracts are not deployed again, the Rust operator, which reads the    *)
(* file anew at every step, signs for, monitors and answers at one         *)
(* contract, and registers at the registry of its file.                    *)
OperatorsMixOnlyRedeployments ==
    MixedOnlyAfterCoreRedeployed /\ RustStaysAtOneDeployment
=============================================================================
