SPECIFICATION Spec
CONSTANTS
    MaxRetries = 2
    MaxBuildAttempts = 2
    MaxIncrementalFixes = 2
    MaxShutdowns = 1
    MaxLintFixes = 1
    Setups <- AllSetups
    Issues <- SomeIssues
PROPERTIES  FixJustified ReproductionSound WorkflowsSettle
CHECK_DEADLOCK FALSE
