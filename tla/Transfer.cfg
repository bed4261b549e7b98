CONSTANT Deployments <- MCDeployments
SPECIFICATION Spec
INVARIANTS StagingOwned ReceiptsTrue TeardownQuiet
CHECK_DEADLOCK FALSE
PROPERTY TransfersSettle
