\* Three deployments of either kind, one of which may stop anywhere.
CONSTANTS
    MaxRuns = 3
    MaxLost = 1
SPECIFICATION Spec
INVARIANTS
    TypeOK
    CompletedDeploymentsLackFourThings
    InsuranceRestsOnLiveCore
    FilesNameTheirContracts
    OperatorsMixOnlyRedeployments
CHECK_DEADLOCK FALSE
