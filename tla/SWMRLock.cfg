\* Three of four threads may own the priority.
CONSTANTS
    Thread = {t1, t2, t3, t4}
    PriorityThread = {t1, t2, t3}
SPECIFICATION FairLockSpec
PROPERTIES ImplementsRWLock NoLostWakeUp LockKeepsServing
