------------------------------ MODULE SWMRLock ------------------------------
(***************************************************************************)
(* The single-writer/multiple-readers lock that guards every access to the *)
(* SQLite connection (src/utils/SWMRLock.cpp).  Each method runs under     *)
(* m_lock, so it is one step, except that a lock request whose predicate   *)
(* is false blocks on m_cond and evaluates the predicate again each time   *)
(* it is woken.  All the waiters share m_cond.                             *)
(***************************************************************************)
EXTENDS Naturals, FiniteSets

CONSTANTS Thread,          \* the threads that access the database
          PriorityThread   \* those on which the application acquires priority

ASSUME ThreadAssumption ==
    /\ IsFiniteSet(Thread)
    /\ PriorityThread \subseteq Thread

VARIABLES
    access,                \* where each thread is, see Control
    waitSet,               \* the threads blocked on m_cond
    m_nbReader,
    m_nbReaderWaiting,
    m_writing,
    m_nbWriterWaiting,
    m_priorityAccessOwners

lockVars == <<access, waitSet, m_nbReader, m_nbReaderWaiting, m_writing,
              m_nbWriterWaiting, m_priorityAccessOwners>>

\* "lock_read" and "lock_write" are threads inside the call of that name.
Control == {"idle", "lock_read", "reading", "lock_write", "writing"}

At(c) == {t \in Thread : access[t] = c}

Contending(t) == access[t] \in {"lock_read", "lock_write"}

LockInit ==
    /\ access = [t \in Thread |-> "idle"]
    /\ waitSet = {}
    /\ m_nbReader = 0
    /\ m_nbReaderWaiting = 0
    /\ m_writing = FALSE
    /\ m_nbWriterWaiting = 0
    /\ m_priorityAccessOwners = {}

-----------------------------------------------------------------------------
(* The predicates of the two waits.                                        *)

has_priority(t) == t \in m_priorityAccessOwners

must_give_way(t) == m_priorityAccessOwners # {} /\ ~has_priority(t)

\* Mutant: readers do not give way to the owners of a priority context.
CanReadWithoutTurn(t) == ~m_writing

CanRead(t) == ~must_give_way(t) /\ ~m_writing

CanWrite(t) == ~must_give_way(t) /\ ~m_writing /\ m_nbReader = 0

-----------------------------------------------------------------------------
(* The condition variable.                                                 *)

notify_all == waitSet' = {}

notify_one == IF waitSet = {} THEN UNCHANGED waitSet
              ELSE \E t \in waitSet : waitSet' = waitSet \ {t}

-----------------------------------------------------------------------------
(* lock_read: the first evaluation of the predicate belongs to the call,   *)
(* the later ones to a woken thread.                                       *)

lock_read(t) ==
    /\ access[t] = "idle"
    /\ \/ /\ CanRead(t)
          /\ access' = [access EXCEPT ![t] = "reading"]
          /\ m_nbReader' = m_nbReader + 1
          /\ UNCHANGED <<waitSet, m_nbReaderWaiting>>
       \/ /\ ~CanRead(t)
          /\ access' = [access EXCEPT ![t] = "lock_read"]
          /\ m_nbReaderWaiting' = m_nbReaderWaiting + 1
          /\ waitSet' = waitSet \cup {t}
          /\ UNCHANGED m_nbReader
    /\ UNCHANGED <<m_writing, m_nbWriterWaiting, m_priorityAccessOwners>>

WakeUpRead(t) ==
    /\ access[t] = "lock_read" /\ t \notin waitSet
    /\ \/ /\ CanRead(t)
          /\ access' = [access EXCEPT ![t] = "reading"]
          /\ m_nbReaderWaiting' = m_nbReaderWaiting - 1
          /\ m_nbReader' = m_nbReader + 1
          /\ UNCHANGED waitSet
       \/ /\ ~CanRead(t)
          /\ waitSet' = waitSet \cup {t}
          /\ UNCHANGED <<access, m_nbReaderWaiting, m_nbReader>>
    /\ UNCHANGED <<m_writing, m_nbWriterWaiting, m_priorityAccessOwners>>

\* Mutant: the last reader leaves without a word.
unlock_read_silent(t) ==
    /\ access[t] = "reading"
    /\ access' = [access EXCEPT ![t] = "idle"]
    /\ m_nbReader' = m_nbReader - 1
    /\ UNCHANGED <<waitSet, m_nbReaderWaiting, m_writing, m_nbWriterWaiting,
                   m_priorityAccessOwners>>

\* Only a waiting writer can be interested in the last reader's departure.
unlock_read(t) ==
    /\ access[t] = "reading"
    /\ access' = [access EXCEPT ![t] = "idle"]
    /\ m_nbReader' = m_nbReader - 1
    /\ IF m_nbReader' = 0 /\ m_nbWriterWaiting > 0 THEN notify_one
       ELSE UNCHANGED waitSet
    /\ UNCHANGED <<m_nbReaderWaiting, m_writing, m_nbWriterWaiting,
                   m_priorityAccessOwners>>

lock_write(t) ==
    /\ access[t] = "idle"
    /\ \/ /\ CanWrite(t)
          /\ access' = [access EXCEPT ![t] = "writing"]
          /\ m_writing' = TRUE
          /\ UNCHANGED <<waitSet, m_nbWriterWaiting>>
       \/ /\ ~CanWrite(t)
          /\ access' = [access EXCEPT ![t] = "lock_write"]
          /\ m_nbWriterWaiting' = m_nbWriterWaiting + 1
          /\ waitSet' = waitSet \cup {t}
          /\ UNCHANGED m_writing
    /\ UNCHANGED <<m_nbReader, m_nbReaderWaiting, m_priorityAccessOwners>>

WakeUpWrite(t) ==
    /\ access[t] = "lock_write" /\ t \notin waitSet
    /\ \/ /\ CanWrite(t)
          /\ access' = [access EXCEPT ![t] = "writing"]
          /\ m_nbWriterWaiting' = m_nbWriterWaiting - 1
          /\ m_writing' = TRUE
          /\ UNCHANGED waitSet
       \/ /\ ~CanWrite(t)
          /\ waitSet' = waitSet \cup {t}
          /\ UNCHANGED <<access, m_nbWriterWaiting, m_writing>>
    /\ UNCHANGED <<m_nbReader, m_nbReaderWaiting, m_priorityAccessOwners>>

\* Mutant: the departing writer looks at the waiting writers only.
unlock_write_ignoring_readers(t) ==
    /\ access[t] = "writing"
    /\ access' = [access EXCEPT ![t] = "idle"]
    /\ m_writing' = FALSE
    /\ IF m_nbWriterWaiting > 0 THEN notify_all ELSE UNCHANGED waitSet
    /\ UNCHANGED <<m_nbReader, m_nbReaderWaiting, m_nbWriterWaiting,
                   m_priorityAccessOwners>>

unlock_write(t) ==
    /\ access[t] = "writing"
    /\ access' = [access EXCEPT ![t] = "idle"]
    /\ m_writing' = FALSE
    /\ IF m_nbReaderWaiting > 0 \/ m_nbWriterWaiting > 0 THEN notify_all
       ELSE UNCHANGED waitSet
    /\ UNCHANGED <<m_nbReader, m_nbReaderWaiting, m_nbWriterWaiting,
                   m_priorityAccessOwners>>

-----------------------------------------------------------------------------
(* Priority: Connection::acquirePriorityContext asserts that the thread    *)
(* has no context open, SWMRLock that it does not own the priority yet.    *)

acquire_priority_access(t) ==
    /\ t \in PriorityThread /\ access[t] = "idle" /\ ~has_priority(t)
    /\ m_priorityAccessOwners' = m_priorityAccessOwners \cup {t}
    /\ UNCHANGED <<access, waitSet, m_nbReader, m_nbReaderWaiting, m_writing,
                   m_nbWriterWaiting>>

release_priority_access(t) ==
    /\ access[t] = "idle" /\ has_priority(t)
    /\ m_priorityAccessOwners' = m_priorityAccessOwners \ {t}
    /\ IF m_priorityAccessOwners' = {} THEN notify_all ELSE UNCHANGED waitSet
    /\ UNCHANGED <<access, m_nbReader, m_nbReaderWaiting, m_writing,
                   m_nbWriterWaiting>>

\* A condition variable may wake a thread nobody notified.
SpuriousWakeUp(t) ==
    /\ t \in waitSet
    /\ waitSet' = waitSet \ {t}
    /\ UNCHANGED <<access, m_nbReader, m_nbReaderWaiting, m_writing,
                   m_nbWriterWaiting, m_priorityAccessOwners>>

-----------------------------------------------------------------------------
\* The steps of t that need nobody's permission: a woken thread runs, and a
\* thread that holds a context ends its request or its transaction.
TryAgain(t) == WakeUpRead(t) \/ WakeUpWrite(t)
Unlock(t) == unlock_read(t) \/ unlock_write(t)

LockNext == \E t \in Thread :
    \/ lock_read(t) \/ lock_write(t)
    \/ TryAgain(t)
    \/ Unlock(t)
    \/ acquire_priority_access(t) \/ release_priority_access(t)
    \/ SpuriousWakeUp(t)

LockSpec == LockInit /\ [][LockNext]_lockVars

\* Requests are finite and the scheduler runs the threads it can run.  Whether
\* a thread asks for the lock or for priority is up to the application.
Fairness == \A t \in Thread : WF_lockVars(TryAgain(t)) /\ WF_lockVars(Unlock(t))

FairLockSpec == LockSpec /\ Fairness

-----------------------------------------------------------------------------
(* Properties.                                                             *)

LockTypeOK ==
    /\ access \in [Thread -> Control]
    /\ waitSet \subseteq {t \in Thread : Contending(t)}
    /\ m_nbReader \in Nat
    /\ m_nbReaderWaiting \in Nat
    /\ m_writing \in BOOLEAN
    /\ m_nbWriterWaiting \in Nat
    /\ m_priorityAccessOwners \subseteq PriorityThread

\* The counters the predicates read are exact: no interleaving of blocked,
\* woken and departing threads makes m_nbReader, m_writing or the counts of
\* waiting threads drift from the threads they stand for.
CountersExact ==
    /\ m_nbReader = Cardinality(At("reading"))
    /\ m_nbReaderWaiting = Cardinality(At("lock_read"))
    /\ m_nbWriterWaiting = Cardinality(At("lock_write"))
    /\ m_writing <=> At("writing") # {}

\* A write context excludes every other context, whatever the wake-ups.
MutualExclusion ==
    \A t, u \in Thread : (access[t] = "writing" /\ t # u) =>
                            access[u] \notin {"reading", "writing"}

Admissible(t) == \/ access[t] = "lock_read"  /\ CanRead(t)
                 \/ access[t] = "lock_write" /\ CanWrite(t)

NobodyUsesPriority == [](m_priorityAccessOwners = {})

NoStrandedWaiter ==
    \A t \in waitSet :
        Admissible(t) => \E u \in Thread \ waitSet : Contending(u)

\* No lost wake-up: a thread is never left blocked on m_cond by a lock that
\* would let it in unless a woken thread is about to examine the lock.  This
\* holds of the code as long as nobody uses priority contexts.
NoLostWakeUp == NobodyUsesPriority => []NoStrandedWaiter

\* "After acquiring such a context, the calling thread has priority over the
\* others if it tries to acquire a read or write context"
\* (SqliteConnection.h): a priority owner that asks for the lock gets it.
PriorityOwnerGetsLock ==
    \A t \in PriorityThread :
        (has_priority(t) /\ Contending(t)) ~> access[t] \in {"reading", "writing"}

\* As long as nobody uses priority contexts, whenever somebody waits for the
\* lock, somebody gets to use it: it does not come to rest with its clients asleep.
LockKeepsServing ==
    NobodyUsesPriority =>
        ((waitSet # {}) ~> (\E t \in Thread : access[t] \in {"reading", "writing"}))

\* The lock implements the contexts' contract, RWLock.
Contexts == INSTANCE RWLock WITH readers <- At("reading"),
                                 writers <- At("writing"),
                                 owners  <- m_priorityAccessOwners

ImplementsRWLock == Contexts!Spec

=============================================================================
