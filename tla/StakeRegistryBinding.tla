------------------------ MODULE StakeRegistryBinding ------------------------
(***************************************************************************)
(* The binding of the stake registry (operator/rust/crates/utils/src/      *)
(* ecdsastakeregistry.rs): what each function, event, error and struct is on*)
(* the wire, and the tables that find the decoder of a call or of an error.*)
(***************************************************************************)
EXTENDS AbiTypes

----------------------------------------------------------------------------
(* The structs of the interfaces. *)
SignatureWithSaltAndExpiry ==
    Struct(<<<<"signature", Packed>>, <<"salt", Word>>, <<"expiry", Word>>>>)
StrategyParams ==
    Struct(<<<<"strategy", Word>>, <<"multiplier", Word>>>>)
Quorum ==
    Struct(<<<<"strategies", ArrayOf(StrategyParams)>>>>)

----------------------------------------------------------------------------
(* Events: hash, indexed fields, fields of the body, how new fills them. *)
Initialized ==
    Event(<<127, 38, 184, 63>>, <<>>, <<<<"version", Word>>>>, <<"version">>)
MinimumWeightUpdated ==
    Event(<<113, 60, 165, 59>>, <<>>, <<<<"_old", Word>>, <<"_new", Word>>>>,
          <<"_old", "_new">>)
OperatorDeregistered ==
    Event(<<49, 224, 173, 254>>, <<<<"_operator", Word>>, <<"_avs", Word>>>>,
          <<>>, <<"_operator", "_avs">>)
OperatorRegistered ==
    Event(<<164, 83, 219, 97>>, <<<<"_operator", Word>>, <<"_avs", Word>>>>,
          <<>>, <<"_operator", "_avs">>)
OperatorWeightUpdated ==
    Event(<<136, 119, 13, 200>>, <<<<"_operator", Word>>>>,
          <<<<"oldWeight", Word>>, <<"newWeight", Word>>>>,
          <<"_operator", "oldWeight", "newWeight">>)
OwnershipTransferred ==
    Event(<<139, 224, 7, 156>>,
          <<<<"previousOwner", Word>>, <<"newOwner", Word>>>>, <<>>,
          <<"previousOwner", "newOwner">>)
QuorumUpdated ==
    Event(<<35, 170, 212, 230>>, <<>>,
          <<<<"_old", Quorum>>, <<"_new", Quorum>>>>, <<"_old", "_new">>)
SigningKeyUpdate ==
    Event(<<208, 97, 22, 130>>,
          <<<<"operator", Word>>, <<"updateBlock", Word>>,
            <<"newSigningKey", Word>>>>,
          <<<<"oldSigningKey", Word>>>>,
          <<"operator", "updateBlock", "newSigningKey", "oldSigningKey">>)
ThresholdWeightUpdated ==
    Event(<<147, 36, 247, 229>>, <<>>, <<<<"_thresholdWeight", Word>>>>,
          <<"_thresholdWeight">>)
TotalWeightUpdated ==
    Event(<<134, 220, 248, 107>>, <<>>,
          <<<<"oldTotalWeight", Word>>, <<"newTotalWeight", Word>>>>,
          <<"oldTotalWeight", "newTotalWeight">>)
UpdateMinimumWeight ==
    Event(<<30, 164, 33, 134>>, <<>>,
          <<<<"oldMinimumWeight", Word>>, <<"newMinimumWeight", Word>>>>,
          <<"oldMinimumWeight", "newMinimumWeight">>)

(* The variants of the container. *)
ECDSAStakeRegistryEvents == [
    Initialized |-> Initialized,
    MinimumWeightUpdated |-> MinimumWeightUpdated,
    OperatorDeregistered |-> OperatorDeregistered,
    OperatorRegistered |-> OperatorRegistered,
    OperatorWeightUpdated |-> OperatorWeightUpdated,
    OwnershipTransferred |-> OwnershipTransferred,
    QuorumUpdated |-> QuorumUpdated, SigningKeyUpdate |-> SigningKeyUpdate,
    ThresholdWeightUpdated |-> ThresholdWeightUpdated,
    TotalWeightUpdated |-> TotalWeightUpdated,
    UpdateMinimumWeight |-> UpdateMinimumWeight]

----------------------------------------------------------------------------
(* Errors. *)
InsufficientSignedStake == Error(<<225, 33, 99, 47>>)
InsufficientWeight == Error(<<168, 121, 47, 209>>)
InvalidLength == Error(<<148, 125, 90, 132>>)
InvalidQuorum == Error(<<209, 115, 87, 121>>)
InvalidReferenceBlock == Error(<<230, 79, 24, 15>>)
InvalidSignature == Error(<<139, 170, 87, 159>>)
InvalidSignedWeight == Error(<<150, 11, 65, 238>>)
InvalidThreshold == Error(<<170, 189, 90, 9>>)
LengthMismatch == Error(<<255, 99, 58, 56>>)
MustUpdateAllOperators == Error(<<45, 61, 246, 182>>)
NotSorted == Error(<<186, 80, 249, 17>>)
OperatorAlreadyRegistered == Error(<<66, 238, 104, 181>>)
OperatorNotRegistered == Error(<<37, 236, 108, 31>>)

(* The variants of the container. *)
ECDSAStakeRegistryErrors == [
    InsufficientSignedStake |-> InsufficientSignedStake,
    InsufficientWeight |-> InsufficientWeight,
    InvalidLength |-> InvalidLength, InvalidQuorum |-> InvalidQuorum,
    InvalidReferenceBlock |-> InvalidReferenceBlock,
    InvalidSignature |-> InvalidSignature,
    InvalidSignedWeight |-> InvalidSignedWeight,
    InvalidThreshold |-> InvalidThreshold, LengthMismatch |-> LengthMismatch,
    MustUpdateAllOperators |-> MustUpdateAllOperators,
    NotSorted |-> NotSorted,
    OperatorAlreadyRegistered |-> OperatorAlreadyRegistered,
    OperatorNotRegistered |-> OperatorNotRegistered]

(* The tables of the decoder, each written on its own in the source. *)
ErrorSELECTORSUnsorted == <<     \* mutant: a late selector put in front
    <<255, 99, 58, 56>>, <<37, 236, 108, 31>>, <<45, 61, 246, 182>>,
    <<66, 238, 104, 181>>, <<139, 170, 87, 159>>, <<148, 125, 90, 132>>,
    <<150, 11, 65, 238>>, <<168, 121, 47, 209>>, <<170, 189, 90, 9>>,
    <<186, 80, 249, 17>>, <<209, 115, 87, 121>>, <<225, 33, 99, 47>>,
    <<230, 79, 24, 15>>>>
ErrorSELECTORS == <<
    <<37, 236, 108, 31>>, <<45, 61, 246, 182>>, <<66, 238, 104, 181>>,
    <<139, 170, 87, 159>>, <<148, 125, 90, 132>>, <<150, 11, 65, 238>>,
    <<168, 121, 47, 209>>, <<170, 189, 90, 9>>, <<186, 80, 249, 17>>,
    <<209, 115, 87, 121>>, <<225, 33, 99, 47>>, <<230, 79, 24, 15>>,
    <<255, 99, 58, 56>>>>
ErrorDECODE_SHIMS == <<
    "OperatorNotRegistered", "MustUpdateAllOperators",
    "OperatorAlreadyRegistered", "InvalidSignature", "InvalidLength",
    "InvalidSignedWeight", "InsufficientWeight", "InvalidThreshold",
    "NotSorted", "InvalidQuorum", "InsufficientSignedStake",
    "InvalidReferenceBlock", "LengthMismatch">>

----------------------------------------------------------------------------
(* Functions: selector, parameters, the order tokenize writes, results. *)
deregisterOperatorCall == Function(<<133, 125, 193, 144>>, <<>>, <<>>, <<>>)
getLastCheckpointOperatorWeightCall ==
    Query(<<59, 36, 46, 74>>, "_operator", Word, Word)
getLastCheckpointThresholdWeightCall == Getter(<<185, 51, 250, 116>>, Word)
getLastCheckpointThresholdWeightAtBlockCall ==
    Query(<<30, 76, 216, 94>>, "_blockNumber", Word, Word)
getLastCheckpointTotalWeightCall == Getter(<<49, 79, 58, 73>>, Word)
getLastCheckpointTotalWeightAtBlockCall ==
    Query(<<13, 186, 51, 148>>, "_blockNumber", Word, Word)
getLastestOperatorSigningKeyCall ==
    Query(<<205, 205, 53, 129>>, "_operator", Word, Word)
getOperatorSigningKeyAtBlockCall ==
    Function(<<94, 16, 66, 232>>,
             <<<<"_operator", Word>>, <<"_blockNumber", Word>>>>,
             <<"_operator", "_blockNumber">>, <<<<"_0", Word>>>>)
getOperatorWeightCall == Query(<<152, 236, 26, 201>>, "_operator", Word, Word)
getOperatorWeightAtBlockCall ==
    Function(<<149, 95, 45, 144>>,
             <<<<"_operator", Word>>, <<"_blockNumber", Word>>>>,
             <<"_operator", "_blockNumber">>, <<<<"_0", Word>>>>)
initializeCall ==
    Function(<<171, 17, 137, 149>>,
             <<<<"_serviceManager", Word>>, <<"_thresholdWeight", Word>>,
               <<"_quorum", Quorum>>>>,
             <<"_serviceManager", "_thresholdWeight", "_quorum">>, <<>>)
isValidSignatureCall ==
    Function(<<22, 38, 186, 126>>,
             <<<<"_dataHash", Word>>, <<"_signatureData", Packed>>>>,
             <<"_dataHash", "_signatureData">>, <<<<"_0", Word>>>>)
minimumWeightCall == Getter(<<64, 191, 47, 183>>, Word)
operatorRegisteredCall == Query(<<236, 127, 187, 49>>, "_operator", Word, Word)
ownerCall == Getter(<<141, 165, 203, 91>>, Word)
quorumCall == Getter(<<23, 3, 160, 24>>, Quorum)
registerOperatorWithSignatureCall ==
    Function(<<61, 86, 17, 246>>,
             <<<<"_operatorSignature", SignatureWithSaltAndExpiry>>,
               <<"_signingKey", Word>>>>,
             <<"_operatorSignature", "_signingKey">>, <<>>)
renounceOwnershipCall == Function(<<113, 80, 24, 166>>, <<>>, <<>>, <<>>)
transferOwnershipCall == Command(<<242, 253, 227, 139>>, "newOwner", Word)
updateMinimumWeightCall ==
    Function(<<105, 98, 85, 190>>,
             <<<<"_newMinimumWeight", Word>>,
               <<"_operators", ArrayOf(Word)>>>>,
             <<"_newMinimumWeight", "_operators">>, <<>>)
updateOperatorSigningKeyCall ==
    Command(<<116, 60, 49, 244>>, "_newSigningKey", Word)
updateOperatorsCall ==
    Command(<<0, 207, 42, 181>>, "_operators", ArrayOf(Word))
updateOperatorsForQuorumCall ==
    Function(<<81, 64, 165, 72>>,
             <<<<"operatorsPerQuorum", ArrayOf(ArrayOf(Word))>>,
               <<"_1", Packed>>>>,
             <<"operatorsPerQuorum", "_1">>, <<>>)
updateQuorumConfigCall ==
    Function(<<222, 197, 209, 246>>,
             <<<<"_quorum", Quorum>>, <<"_operators", ArrayOf(Word)>>>>,
             <<"_quorum", "_operators">>, <<>>)
updateStakeThresholdCall ==
    Command(<<94, 245, 51, 41>>, "_thresholdWeight", Word)

(* The variants of the container. *)
ECDSAStakeRegistryCalls == [
    deregisterOperator |-> deregisterOperatorCall,
    getLastCheckpointOperatorWeight |-> getLastCheckpointOperatorWeightCall,
    getLastCheckpointThresholdWeight |-> getLastCheckpointThresholdWeightCall,
    getLastCheckpointThresholdWeightAtBlock |->
        getLastCheckpointThresholdWeightAtBlockCall,
    getLastCheckpointTotalWeight |-> getLastCheckpointTotalWeightCall,
    getLastCheckpointTotalWeightAtBlock |->
        getLastCheckpointTotalWeightAtBlockCall,
    getLastestOperatorSigningKey |-> getLastestOperatorSigningKeyCall,
    getOperatorSigningKeyAtBlock |-> getOperatorSigningKeyAtBlockCall,
    getOperatorWeight |-> getOperatorWeightCall,
    getOperatorWeightAtBlock |-> getOperatorWeightAtBlockCall,
    initialize |-> initializeCall, isValidSignature |-> isValidSignatureCall,
    minimumWeight |-> minimumWeightCall,
    operatorRegistered |-> operatorRegisteredCall, owner |-> ownerCall,
    quorum |-> quorumCall,
    registerOperatorWithSignature |-> registerOperatorWithSignatureCall,
    renounceOwnership |-> renounceOwnershipCall,
    transferOwnership |-> transferOwnershipCall,
    updateMinimumWeight |-> updateMinimumWeightCall,
    updateOperatorSigningKey |-> updateOperatorSigningKeyCall,
    updateOperators |-> updateOperatorsCall,
    updateOperatorsForQuorum |-> updateOperatorsForQuorumCall,
    updateQuorumConfig |-> updateQuorumConfigCall,
    updateStakeThreshold |-> updateStakeThresholdCall]

(* The tables of the decoder, each written on its own in the source. *)
CallSELECTORS == <<
    <<0, 207, 42, 181>>, <<13, 186, 51, 148>>, <<22, 38, 186, 126>>,
    <<23, 3, 160, 24>>, <<30, 76, 216, 94>>, <<49, 79, 58, 73>>,
    <<59, 36, 46, 74>>, <<61, 86, 17, 246>>, <<64, 191, 47, 183>>,
    <<81, 64, 165, 72>>, <<94, 16, 66, 232>>, <<94, 245, 51, 41>>,
    <<105, 98, 85, 190>>, <<113, 80, 24, 166>>, <<116, 60, 49, 244>>,
    <<133, 125, 193, 144>>, <<141, 165, 203, 91>>, <<149, 95, 45, 144>>,
    <<152, 236, 26, 201>>, <<171, 17, 137, 149>>, <<185, 51, 250, 116>>,
    <<205, 205, 53, 129>>, <<222, 197, 209, 246>>, <<236, 127, 187, 49>>,
    <<242, 253, 227, 139>>>>
CallDECODE_SHIMS == <<
    "updateOperators", "getLastCheckpointTotalWeightAtBlock",
    "isValidSignature", "quorum", "getLastCheckpointThresholdWeightAtBlock",
    "getLastCheckpointTotalWeight", "getLastCheckpointOperatorWeight",
    "registerOperatorWithSignature", "minimumWeight",
    "updateOperatorsForQuorum", "getOperatorSigningKeyAtBlock",
    "updateStakeThreshold", "updateMinimumWeight", "renounceOwnership",
    "updateOperatorSigningKey", "deregisterOperator", "owner",
    "getOperatorWeightAtBlock", "getOperatorWeight", "initialize",
    "getLastCheckpointThresholdWeight", "getLastestOperatorSigningKey",
    "updateQuorumConfig", "operatorRegistered", "transferOwnership">>

=============================================================================
