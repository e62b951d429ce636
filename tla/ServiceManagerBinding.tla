----------------------- MODULE ServiceManagerBinding ------------------------
(***************************************************************************)
(* The binding of the service manager the Rust operator is built with      *)
(* (operator/rust/crates/utils/src/helloworldservicemanager.rs): what each *)
(* function, event and struct is on the wire, and the tables that find the *)
(* decoder of a call.                                                      *)
(***************************************************************************)
EXTENDS AbiTypes

----------------------------------------------------------------------------
(* The structs of the interfaces. *)
Task ==
    Struct(<<<<"name", Packed>>, <<"taskCreatedBlock", Word>>>>)
StrategyAndMultiplier ==
    Struct(<<<<"strategy", Word>>, <<"multiplier", Word>>>>)
RewardsSubmission ==
    Struct(<<<<"strategiesAndMultipliers", ArrayOf(StrategyAndMultiplier)>>,
             <<"token", Word>>, <<"amount", Word>>, <<"startTimestamp", Word>>,
        <<"duration", Word>>>>)
SignatureWithSaltAndExpiry ==
    Struct(<<<<"signature", Packed>>, <<"salt", Word>>, <<"expiry", Word>>>>)

----------------------------------------------------------------------------
(* Events: hash, indexed fields, fields of the body, how new fills them. *)
Initialized ==
    Event(<<127, 38, 184, 63>>, <<>>, <<<<"version", Word>>>>, <<"version">>)
NewTaskCreated ==
    Event(<<88, 24, 10, 106>>, <<<<"taskIndex", Word>>>>, <<<<"task", Task>>>>,
          <<"taskIndex", "task">>)
OwnershipTransferred ==
    Event(<<139, 224, 7, 156>>,
          <<<<"previousOwner", Word>>, <<"newOwner", Word>>>>, <<>>,
          <<"previousOwner", "newOwner">>)
RewardsInitiatorUpdated ==
    Event(<<225, 28, 221, 241>>, <<>>,
          <<<<"prevRewardsInitiator", Word>>,
            <<"newRewardsInitiator", Word>>>>,
          <<"prevRewardsInitiator", "newRewardsInitiator">>)
TaskResponded ==
    Event(<<142, 178, 210, 252>>, <<<<"taskIndex", Word>>>>,
          <<<<"task", Task>>, <<"operator", Word>>>>,
          <<"taskIndex", "task", "operator">>)

(* The variants of the container. *)
InsuranceServiceManagerEvents == [
    Initialized |-> Initialized, NewTaskCreated |-> NewTaskCreated,
    OwnershipTransferred |-> OwnershipTransferred,
    RewardsInitiatorUpdated |-> RewardsInitiatorUpdated,
    TaskResponded |-> TaskResponded]

----------------------------------------------------------------------------
(* Functions: selector, parameters, the order tokenize writes, results. *)
allTaskHashesCall == Query(<<45, 137, 246, 252>>, "_0", Word, Word)
allTaskResponsesCall ==
    Function(<<194, 11, 171, 127>>, <<<<"_0", Word>>, <<"_1", Word>>>>,
             <<"_0", "_1">>, <<<<"_0", Packed>>>>)
avsDirectoryCall == Getter(<<107, 58, 167, 46>>, Word)
createAVSRewardsSubmissionCall ==
    Command(<<252, 227, 108, 125>>, "rewardsSubmissions",
            ArrayOf(RewardsSubmission))
createNewTaskCall == Query(<<133, 237, 248, 116>>, "name", Packed, Task)
deregisterOperatorFromAVSCall ==
    Command(<<163, 100, 244, 218>>, "operator", Word)
getOperatorRestakedStrategiesCall ==
    Query(<<51, 207, 183, 183>>, "_operator", Word, ArrayOf(Word))
getRestakeableStrategiesCall == Getter(<<228, 129, 175, 157>>, ArrayOf(Word))
latestTaskNumCall == Getter(<<139, 0, 206, 124>>, Word)
ownerCall == Getter(<<141, 165, 203, 91>>, Word)
registerOperatorToAVSCall ==
    Function(<<153, 38, 238, 125>>,
             <<<<"operator", Word>>,
               <<"operatorSignature", SignatureWithSaltAndExpiry>>>>,
             <<"operator", "operatorSignature">>, <<>>)
renounceOwnershipCall == Function(<<113, 80, 24, 166>>, <<>>, <<>>, <<>>)
respondToTaskCall ==
    Function(<<52, 21, 164, 156>>,
             <<<<"task", Task>>, <<"referenceTaskIndex", Word>>,
               <<"signature", Packed>>>>,
             <<"task", "referenceTaskIndex", "signature">>, <<>>)
rewardsInitiatorCall == Getter(<<252, 41, 157, 238>>, Word)
setRewardsInitiatorCall ==
    Command(<<59, 194, 140, 140>>, "newRewardsInitiator", Word)
stakeRegistryCall == Getter(<<104, 48, 72, 53>>, Word)
transferOwnershipCall == Command(<<242, 253, 227, 139>>, "newOwner", Word)
updateAVSMetadataURICall ==
    Command(<<169, 143, 179, 85>>, "_metadataURI", Packed)

(* The variants of the container. *)
InsuranceServiceManagerCalls == [
    allTaskHashes |-> allTaskHashesCall,
    allTaskResponses |-> allTaskResponsesCall,
    avsDirectory |-> avsDirectoryCall,
    createAVSRewardsSubmission |-> createAVSRewardsSubmissionCall,
    createNewTask |-> createNewTaskCall,
    deregisterOperatorFromAVS |-> deregisterOperatorFromAVSCall,
    getOperatorRestakedStrategies |-> getOperatorRestakedStrategiesCall,
    getRestakeableStrategies |-> getRestakeableStrategiesCall,
    latestTaskNum |-> latestTaskNumCall, owner |-> ownerCall,
    registerOperatorToAVS |-> registerOperatorToAVSCall,
    renounceOwnership |-> renounceOwnershipCall,
    respondToTask |-> respondToTaskCall,
    rewardsInitiator |-> rewardsInitiatorCall,
    setRewardsInitiator |-> setRewardsInitiatorCall,
    stakeRegistry |-> stakeRegistryCall,
    transferOwnership |-> transferOwnershipCall,
    updateAVSMetadataURI |-> updateAVSMetadataURICall]

(* The tables of the decoder, each written on its own in the source. *)
CallSELECTORS == <<
    <<45, 137, 246, 252>>, <<51, 207, 183, 183>>, <<52, 21, 164, 156>>,
    <<59, 194, 140, 140>>, <<104, 48, 72, 53>>, <<107, 58, 167, 46>>,
    <<113, 80, 24, 166>>, <<133, 237, 248, 116>>, <<139, 0, 206, 124>>,
    <<141, 165, 203, 91>>, <<153, 38, 238, 125>>, <<163, 100, 244, 218>>,
    <<169, 143, 179, 85>>, <<194, 11, 171, 127>>, <<228, 129, 175, 157>>,
    <<242, 253, 227, 139>>, <<252, 41, 157, 238>>, <<252, 227, 108, 125>>>>
CallDECODE_SHIMS == <<
    "allTaskHashes", "getOperatorRestakedStrategies", "respondToTask",
    "setRewardsInitiator", "stakeRegistry", "avsDirectory",
    "renounceOwnership", "createNewTask", "latestTaskNum", "owner",
    "registerOperatorToAVS", "deregisterOperatorFromAVS",
    "updateAVSMetadataURI", "allTaskResponses", "getRestakeableStrategies",
    "transferOwnership", "rewardsInitiator", "createAVSRewardsSubmission">>

=============================================================================
