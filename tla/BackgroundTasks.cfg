CONSTANTS
    MaxTasks = 2
    MaxRequeues = 1
    MaxDiscoveries = 1
    MaxCalls = 1
SPECIFICATION Spec
INVARIANTS ToldBothFlags IdlenessIsReported NobodyWaitsForEver
