CONSTANTS
    EntityQueue <- TwoQueues
    Id = {1}
    BatchDelay = 2
    NoTimeout = NoTimeout
    MaxPosted = 2
SPECIFICATION FairNotifierSpec
INVARIANT ExactlyOnce
PROPERTIES CallbacksInOrder QuietFlushIsComplete StopTerminates IdlingSurfacesChanges
