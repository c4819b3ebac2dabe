-------------------------- MODULE Concurrency_proofs --------------------------
(***************************************************************************)
(* The three components whose threads share flags, queues and counters.    *)
(*                                                                         *)
(* SWMRLock, for any finite set of threads: the counters are exact, a      *)
(* write context is exclusive, the lock implements RWLock, and, when       *)
(* priority is not used, no wake-up is lost.                               *)
(*                                                                         *)
(* ModificationNotifier, for any queues, rows, delay and bound: a change   *)
(* is never lost, repeated or left in a queue without a deadline, and the  *)
(* callbacks about a row come in the order of its life.                    *)
(*                                                                         *)
(* BackgroundTasks, for any number of tasks, requeues, discoveries and     *)
(* calls: the last callback agrees with the two flags, and the last worker *)
(* to turn idle always reports it.                                         *)
(*                                                                         *)
(* The components share no state: each theorem is about one of them.       *)
(***************************************************************************)
EXTENDS SWMRLock, ModificationNotifier, BackgroundTasks, FiniteSetTheorems, TLAPS

-----------------------------------------------------------------------------
(* SWMRLock: counting the threads at a control point.                      *)

Count(f, c) == Cardinality({u \in Thread : f[u] = c})

\* The threads at a control point are finitely many.
LEMMA CountNat ==
    ASSUME NEW f, NEW c
    PROVE  Count(f, c) \in Nat
<1>1. IsFiniteSet({u \in Thread : f[u] = c})
  BY ThreadAssumption, FS_Subset
<1>. QED  BY <1>1, FS_CardinalityType DEF Count

\* A thread that arrives at c adds one to the count of c.
LEMMA CountEnter ==
    ASSUME NEW f \in [Thread -> Control], NEW t \in Thread, NEW c \in Control,
           f[t] # c
    PROVE  Count([f EXCEPT ![t] = c], c) = Count(f, c) + 1
<1>. DEFINE S == {u \in Thread : f[u] = c}
            T == {u \in Thread : [f EXCEPT ![t] = c][u] = c}
<1>1. IsFiniteSet(S)
  BY ThreadAssumption, FS_Subset
<1>2. T = S \cup {t} /\ t \notin S
  OBVIOUS
<1>. QED  BY <1>1, <1>2, FS_AddElement DEF Count

\* A thread that leaves c takes one away from the count of c.
LEMMA CountLeave ==
    ASSUME NEW f \in [Thread -> Control], NEW t \in Thread,
           NEW d \in Control, d # f[t]
    PROVE  /\ Count([f EXCEPT ![t] = d], f[t]) = Count(f, f[t]) - 1
           /\ Count(f, f[t]) > 0
<1>. DEFINE S == {u \in Thread : f[u] = f[t]}
            T == {u \in Thread : [f EXCEPT ![t] = d][u] = f[t]}
<1>1. IsFiniteSet(S)
  BY ThreadAssumption, FS_Subset
<1>2. T = S \ {t} /\ t \in S
  OBVIOUS
<1>3. Cardinality(T) = Cardinality(S) - 1
  BY <1>1, <1>2, FS_RemoveElement
<1>4. Cardinality(S) > 0
  BY <1>1, <1>2, FS_EmptySet, FS_CardinalityType
<1>. QED  BY <1>3, <1>4 DEF Count

\* The other counts do not move.
LEMMA CountSame ==
    ASSUME NEW f \in [Thread -> Control], NEW t \in Thread, NEW c,
           NEW d \in Control, f[t] # c, d # c
    PROVE  Count([f EXCEPT ![t] = d], c) = Count(f, c)
<1>1. {u \in Thread : [f EXCEPT ![t] = d][u] = c} = {u \in Thread : f[u] = c}
  OBVIOUS
<1>. QED  BY <1>1 DEF Count

\* What the step of a thread t from its control point to d does to the counts.
Moved(t, d) ==
    /\ Count(access, access[t]) > 0
    /\ \A c \in Control :
         Count(access', c) = IF c = d THEN Count(access, c) + 1
                             ELSE IF c = access[t] THEN Count(access, c) - 1
                             ELSE Count(access, c)

LEMMA CountMove ==
    ASSUME access \in [Thread -> Control], NEW t \in Thread,
           NEW d \in Control, access[t] # d, access' = [access EXCEPT ![t] = d]
    PROVE  Moved(t, d)
<1>1. Count(access', d) = Count(access, d) + 1
  BY CountEnter
<1>2. Count(access', access[t]) = Count(access, access[t]) - 1 /\ Count(access, access[t]) > 0
  BY CountLeave
<1>3. ASSUME NEW c \in Control, c # d, c # access[t]
      PROVE  Count(access', c) = Count(access, c)
  BY <1>3, CountSame
<1>. QED  BY <1>1, <1>2, <1>3 DEF Moved

\* A count is zero exactly when nobody is there.
LEMMA CountZero ==
    ASSUME NEW f, NEW c
    PROVE  Count(f, c) = 0 <=> \A u \in Thread : f[u] # c
<1>1. IsFiniteSet({u \in Thread : f[u] = c})
  BY ThreadAssumption, FS_Subset
<1>2. Count(f, c) = 0 <=> {u \in Thread : f[u] = c} = {}
  BY <1>1, FS_EmptySet DEF Count
<1>. QED  BY <1>2

-----------------------------------------------------------------------------
(* The invariant: TypeOK needs exact counters (m_nbReader - 1 is a natural *)
(* number because the thread that leaves is counted), exclusion needs them *)
(* too (a writer is let in on m_nbReader = 0 and m_writing = FALSE).       *)

Counted ==
    /\ m_nbReader = Count(access, "reading")
    /\ m_nbReaderWaiting = Count(access, "lock_read")
    /\ m_nbWriterWaiting = Count(access, "lock_write")
    /\ m_writing <=> \E t \in Thread : access[t] = "writing"

SafetyInv == LockTypeOK /\ Counted /\ MutualExclusion

LEMMA CountedIsExact == Counted <=> CountersExact
  BY DEF Counted, CountersExact, Count, At

LEMMA SafetyInvInit == LockInit => SafetyInv
<1>. SUFFICES ASSUME LockInit PROVE SafetyInv
  OBVIOUS
<1>1. LockTypeOK
  BY ThreadAssumption DEF LockInit, LockTypeOK, Control
<1>2. Counted
  BY CountZero DEF LockInit, Counted
<1>3. MutualExclusion
  BY DEF LockInit, MutualExclusion
<1>. QED  BY <1>1, <1>2, <1>3 DEF SafetyInv

\* Every step preserves the invariant.  Each action moves one thread from one
\* control point to another, or none: the counts follow by the lemmas above.
LEMMA SafetyInvNext == SafetyInv /\ [LockNext]_lockVars => SafetyInv'
<1>. SUFFICES ASSUME SafetyInv, [LockNext]_lockVars PROVE SafetyInv'
  OBVIOUS
<1>. USE DEF SafetyInv
<1>ctl. /\ access \in [Thread -> Control]
        /\ {"idle", "lock_read", "reading", "lock_write", "writing"} \subseteq Control
  BY DEF LockTypeOK, Control
<1>u. CASE UNCHANGED lockVars
  BY <1>u DEF lockVars, LockTypeOK, Counted, MutualExclusion, Contending, Count
<1>1. ASSUME NEW t \in Thread, lock_read(t) PROVE SafetyInv'
  <2>1. CASE /\ CanRead(t)
             /\ access' = [access EXCEPT ![t] = "reading"]
             /\ m_nbReader' = m_nbReader + 1
             /\ UNCHANGED <<waitSet, m_nbReaderWaiting>>
    <3>1. LockTypeOK'
      BY <1>1, <2>1 DEF lock_read, LockTypeOK, Contending, Control
    <3>m. Moved(t, "reading")
      BY <1>ctl, <1>1, <2>1, CountMove DEF lock_read
    <3>2. Counted'
      BY <1>ctl, <1>1, <2>1, <3>m DEF lock_read, Counted, Moved
    <3>3. MutualExclusion'
      BY <1>1, <2>1 DEF lock_read, Counted, MutualExclusion, CanRead, LockTypeOK
    <3>. QED  BY <3>1, <3>2, <3>3
  <2>2. CASE /\ ~CanRead(t)
             /\ access' = [access EXCEPT ![t] = "lock_read"]
             /\ m_nbReaderWaiting' = m_nbReaderWaiting + 1
             /\ waitSet' = waitSet \cup {t}
             /\ UNCHANGED m_nbReader
    <3>1. LockTypeOK'
      BY <1>1, <2>2 DEF lock_read, LockTypeOK, Contending, Control
    <3>m. Moved(t, "lock_read")
      BY <1>ctl, <1>1, <2>2, CountMove DEF lock_read
    <3>2. Counted'
      BY <1>ctl, <1>1, <2>2, <3>m DEF lock_read, Counted, Moved
    <3>3. MutualExclusion'
      BY <1>1, <2>2 DEF lock_read, MutualExclusion, LockTypeOK
    <3>. QED  BY <3>1, <3>2, <3>3
  <2>. QED  BY <1>1, <2>1, <2>2 DEF lock_read
<1>2. ASSUME NEW t \in Thread, WakeUpRead(t) PROVE SafetyInv'
  <2>1. CASE /\ CanRead(t)
             /\ access' = [access EXCEPT ![t] = "reading"]
             /\ m_nbReaderWaiting' = m_nbReaderWaiting - 1
             /\ m_nbReader' = m_nbReader + 1
             /\ UNCHANGED waitSet
    <3>m. Moved(t, "reading")
      BY <1>ctl, <1>2, <2>1, CountMove DEF WakeUpRead
    <3>1. Counted' /\ m_nbReaderWaiting > 0
      BY <1>ctl, <1>2, <2>1, <3>m DEF WakeUpRead, Counted, Moved
    <3>2. LockTypeOK'
      BY <1>2, <2>1, <3>1 DEF WakeUpRead, LockTypeOK, Contending, Control
    <3>3. MutualExclusion'
      BY <1>2, <2>1 DEF WakeUpRead, Counted, MutualExclusion, CanRead, LockTypeOK
    <3>. QED  BY <3>1, <3>2, <3>3
  <2>2. CASE /\ ~CanRead(t)
             /\ waitSet' = waitSet \cup {t}
             /\ UNCHANGED <<access, m_nbReaderWaiting, m_nbReader>>
    BY <1>2, <2>2
    DEF WakeUpRead, LockTypeOK, Contending, Counted, MutualExclusion, Count
  <2>. QED  BY <1>2, <2>1, <2>2 DEF WakeUpRead
<1>3. ASSUME NEW t \in Thread, unlock_read(t) PROVE SafetyInv'
  <2>m. Moved(t, "idle")
    BY <1>ctl, <1>3, CountMove DEF unlock_read
  <2>1. Counted' /\ m_nbReader > 0
    BY <1>ctl, <1>3, <2>m DEF unlock_read, Counted, Moved
  <2>2. waitSet' \subseteq waitSet
    BY <1>3 DEF unlock_read, notify_one
  <2>3. LockTypeOK'
    BY <1>3, <2>1, <2>2 DEF unlock_read, LockTypeOK, Contending, Control
  <2>4. MutualExclusion'
    BY <1>3 DEF unlock_read, MutualExclusion, LockTypeOK
  <2>. QED  BY <2>1, <2>3, <2>4
<1>4. ASSUME NEW t \in Thread, lock_write(t) PROVE SafetyInv'
  <2>1. CASE /\ CanWrite(t)
             /\ access' = [access EXCEPT ![t] = "writing"]
             /\ m_writing' = TRUE
             /\ UNCHANGED <<waitSet, m_nbWriterWaiting>>
    <3>1. LockTypeOK'
      BY <1>4, <2>1 DEF lock_write, LockTypeOK, Contending, Control
    <3>m. Moved(t, "writing")
      BY <1>ctl, <1>4, <2>1, CountMove DEF lock_write
    <3>2. Counted'
      BY <1>ctl, <1>4, <2>1, <3>m DEF lock_write, Counted, Moved
    <3>3. \A u \in Thread : access[u] \notin {"reading", "writing"}
      BY <2>1, CountZero DEF CanWrite, Counted
    <3>4. MutualExclusion'
      BY <1>4, <2>1, <3>3 DEF lock_write, MutualExclusion, LockTypeOK
    <3>. QED  BY <3>1, <3>2, <3>4
  <2>2. CASE /\ ~CanWrite(t)
             /\ access' = [access EXCEPT ![t] = "lock_write"]
             /\ m_nbWriterWaiting' = m_nbWriterWaiting + 1
             /\ waitSet' = waitSet \cup {t}
             /\ UNCHANGED m_writing
    <3>1. LockTypeOK'
      BY <1>4, <2>2 DEF lock_write, LockTypeOK, Contending, Control
    <3>m. Moved(t, "lock_write")
      BY <1>ctl, <1>4, <2>2, CountMove DEF lock_write
    <3>2. Counted'
      BY <1>ctl, <1>4, <2>2, <3>m DEF lock_write, Counted, Moved
    <3>3. MutualExclusion'
      BY <1>4, <2>2 DEF lock_write, MutualExclusion, LockTypeOK
    <3>. QED  BY <3>1, <3>2, <3>3
  <2>. QED  BY <1>4, <2>1, <2>2 DEF lock_write
<1>5. ASSUME NEW t \in Thread, WakeUpWrite(t) PROVE SafetyInv'
  <2>1. CASE /\ CanWrite(t)
             /\ access' = [access EXCEPT ![t] = "writing"]
             /\ m_nbWriterWaiting' = m_nbWriterWaiting - 1
             /\ m_writing' = TRUE
             /\ UNCHANGED waitSet
    <3>m. Moved(t, "writing")
      BY <1>ctl, <1>5, <2>1, CountMove DEF WakeUpWrite
    <3>1. Counted' /\ m_nbWriterWaiting > 0
      BY <1>ctl, <1>5, <2>1, <3>m DEF WakeUpWrite, Counted, Moved
    <3>2. LockTypeOK'
      BY <1>5, <2>1, <3>1 DEF WakeUpWrite, LockTypeOK, Contending, Control
    <3>3. \A u \in Thread : access[u] \notin {"reading", "writing"}
      BY <2>1, CountZero DEF CanWrite, Counted
    <3>4. MutualExclusion'
      BY <1>5, <2>1, <3>3 DEF WakeUpWrite, MutualExclusion, LockTypeOK
    <3>. QED  BY <3>1, <3>2, <3>4
  <2>2. CASE /\ ~CanWrite(t)
             /\ waitSet' = waitSet \cup {t}
             /\ UNCHANGED <<access, m_nbWriterWaiting, m_writing>>
    BY <1>5, <2>2
    DEF WakeUpWrite, LockTypeOK, Contending, Counted, MutualExclusion, Count
  <2>. QED  BY <1>5, <2>1, <2>2 DEF WakeUpWrite
<1>6. ASSUME NEW t \in Thread, unlock_write(t) PROVE SafetyInv'
  <2>1. \A u \in Thread : access'[u] # "writing"
    BY <1>6 DEF unlock_write, MutualExclusion, LockTypeOK
  <2>m. Moved(t, "idle")
    BY <1>ctl, <1>6, CountMove DEF unlock_write
  <2>2. Counted'
    BY <1>ctl, <1>6, <2>1, <2>m DEF unlock_write, Counted, Moved
  <2>3. waitSet' \subseteq waitSet
    BY <1>6 DEF unlock_write, notify_all
  <2>4. LockTypeOK'
    BY <1>6, <2>3 DEF unlock_write, LockTypeOK, Contending, Control
  <2>5. MutualExclusion'
    BY <2>1 DEF MutualExclusion
  <2>. QED  BY <2>2, <2>4, <2>5
<1>7. ASSUME NEW t \in Thread, acquire_priority_access(t) PROVE SafetyInv'
  BY <1>7 DEF acquire_priority_access, LockTypeOK, Contending, Counted, Count,
              MutualExclusion
<1>8. ASSUME NEW t \in Thread, release_priority_access(t) PROVE SafetyInv'
  BY <1>8 DEF release_priority_access, notify_all, LockTypeOK, Contending,
              Counted, Count, MutualExclusion
<1>9. ASSUME NEW t \in Thread, SpuriousWakeUp(t) PROVE SafetyInv'
  BY <1>9 DEF SpuriousWakeUp, LockTypeOK, Contending, Counted, Count,
              MutualExclusion
<1>. QED
  BY <1>u, <1>1, <1>2, <1>3, <1>4, <1>5, <1>6, <1>7, <1>8, <1>9
  DEF LockNext, TryAgain, Unlock

LEMMA SafetyInvHolds == LockSpec => []SafetyInv
  BY SafetyInvInit, SafetyInvNext, PTL DEF LockSpec

\* The variables of SWMRLock keep their types; in particular the unsigned
\* counters never go below zero.
THEOREM LockTypeCorrect == LockSpec => []LockTypeOK
<1>1. SafetyInv => LockTypeOK
  BY DEF SafetyInv
<1>. QED  BY <1>1, SafetyInvHolds, PTL

\* The counters SWMRLock decides with are exact in every reachable state.
THEOREM CountersStayExact == LockSpec => []CountersExact
<1>1. SafetyInv => CountersExact
  BY CountedIsExact DEF SafetyInv
<1>. QED  BY <1>1, SafetyInvHolds, PTL

\* A write context is exclusive, for any number of threads.
THEOREM WriterIsAlone == LockSpec => []MutualExclusion
<1>1. SafetyInv => MutualExclusion
  BY DEF SafetyInv
<1>. QED  BY <1>1, SafetyInvHolds, PTL

-----------------------------------------------------------------------------
(* Refinement.  A thread enters RWLock when its predicate is true, either  *)
(* at once or after a wake-up; blocking and waking are stuttering steps.   *)

\* The contexts handed out by SWMRLock are those of RWLock: many readers or
\* one writer, and nobody passes the owners of a priority context.
THEOREM LockImplementsRWLock == LockSpec => ImplementsRWLock
<1>1. LockInit => Contexts!Init
  BY DEF LockInit, Contexts!Init, At
<1>2. SafetyInv /\ [LockNext]_lockVars => [Contexts!Next]_(Contexts!vars)
  <2>. SUFFICES ASSUME SafetyInv, [LockNext]_lockVars
                PROVE  [Contexts!Next]_(Contexts!vars)
    OBVIOUS
  <2>ty. access \in [Thread -> Control]
    BY DEF SafetyInv, LockTypeOK
  <2>ex. /\ m_writing <=> At("writing") # {}
         /\ m_nbReader = 0 <=> At("reading") = {}
    BY CountZero DEF SafetyInv, Counted, At
  <2>u. CASE UNCHANGED lockVars
    BY <2>u DEF lockVars, At, Contexts!vars
  <2>1. ASSUME NEW t \in Thread, lock_read(t) \/ WakeUpRead(t)
        PROVE  [Contexts!Next]_(Contexts!vars)
    <3>1. CASE CanRead(t) /\ access' = [access EXCEPT ![t] = "reading"]
      <4>1. /\ At("reading")' = At("reading") \cup {t}
            /\ At("writing")' = At("writing")
            /\ t \notin At("reading") \cup At("writing")
        BY <2>ty, <2>1, <3>1 DEF lock_read, WakeUpRead, At
      <4>2. Contexts!EnterRead(t)
        BY <2>1, <2>ex, <3>1, <4>1
        DEF lock_read, WakeUpRead, CanRead, must_give_way, has_priority,
            Contexts!EnterRead, Contexts!Inside, Contexts!HasTurn
      <4>. QED  BY <4>2 DEF Contexts!Next
    <3>2. CASE access' = access \/ access' = [access EXCEPT ![t] = "lock_read"]
      BY <2>ty, <2>1, <3>2 DEF lock_read, WakeUpRead, At, Contexts!vars
    <3>. QED  BY <2>1, <3>1, <3>2 DEF lock_read, WakeUpRead
  <2>2. ASSUME NEW t \in Thread, lock_write(t) \/ WakeUpWrite(t)
        PROVE  [Contexts!Next]_(Contexts!vars)
    <3>1. CASE CanWrite(t) /\ access' = [access EXCEPT ![t] = "writing"]
      <4>1. At("reading") = {} /\ At("writing") = {}
        BY <2>ex, <3>1 DEF CanWrite
      <4>2. At("reading")' = {} /\ At("writing")' = {t}
        BY <2>ty, <3>1, <4>1 DEF At
      <4>3. Contexts!EnterWrite(t)
        BY <2>2, <3>1, <4>1, <4>2
        DEF lock_write, WakeUpWrite, CanWrite, must_give_way, has_priority,
            Contexts!EnterWrite, Contexts!Inside, Contexts!HasTurn
      <4>. QED  BY <4>3 DEF Contexts!Next
    <3>2. CASE access' = access \/ access' = [access EXCEPT ![t] = "lock_write"]
      BY <2>ty, <2>2, <3>2 DEF lock_write, WakeUpWrite, At, Contexts!vars
    <3>. QED  BY <2>2, <3>1, <3>2 DEF lock_write, WakeUpWrite
  <2>3. ASSUME NEW t \in Thread, Unlock(t)
        PROVE  [Contexts!Next]_(Contexts!vars)
    <3>1. /\ At("reading")' = At("reading") \ {t}
          /\ At("writing")' = At("writing") \ {t}
          /\ t \in At("reading") \cup At("writing")
      BY <2>ty, <2>3 DEF Unlock, unlock_read, unlock_write, At
    <3>2. Contexts!Leave(t)
      BY <2>3, <3>1 DEF Unlock, unlock_read, unlock_write, Contexts!Leave,
                        Contexts!Inside
    <3>. QED  BY <3>2 DEF Contexts!Next
  <2>4. ASSUME NEW t \in Thread, acquire_priority_access(t)
        PROVE  [Contexts!Next]_(Contexts!vars)
    <3>1. Contexts!TakePriority(t)
      BY <2>4 DEF acquire_priority_access, has_priority, At,
                  Contexts!TakePriority, Contexts!Inside
    <3>. QED  BY <3>1 DEF Contexts!Next
  <2>5. ASSUME NEW t \in Thread, release_priority_access(t)
        PROVE  [Contexts!Next]_(Contexts!vars)
    <3>1. Contexts!GivePriority(t)
      BY <2>5 DEF release_priority_access, has_priority, At,
                  Contexts!GivePriority, Contexts!Inside
    <3>. QED  BY <3>1 DEF Contexts!Next
  <2>6. ASSUME NEW t \in Thread, SpuriousWakeUp(t)
        PROVE  [Contexts!Next]_(Contexts!vars)
    BY <2>6 DEF SpuriousWakeUp, At, Contexts!vars
  <2>. QED
    BY <2>u, <2>1, <2>2, <2>3, <2>4, <2>5, <2>6 DEF LockNext, TryAgain
<1>. QED
  BY <1>1, <1>2, SafetyInvHolds, PTL DEF LockSpec, ImplementsRWLock, Contexts!Spec

-----------------------------------------------------------------------------
(* No lost wake-up without priority.  NoStrandedWaiter is not inductive: a *)
(* notify_one by the last reader is enough only because the wait set then  *)
(* holds writers alone, and it does since a reader blocks behind a writer  *)
(* only, whose departure empties the wait set.                             *)

BlockedReaderBehindWriter ==
    \A t \in waitSet : access[t] = "lock_read" => m_writing

TryAgainInv ==
    /\ SafetyInv
    /\ m_priorityAccessOwners = {}
    /\ BlockedReaderBehindWriter
    /\ NoStrandedWaiter

LEMMA WakeUpInvNext ==
    TryAgainInv /\ [LockNext]_lockVars /\ (m_priorityAccessOwners = {})' => TryAgainInv'
<1>. SUFFICES ASSUME TryAgainInv, [LockNext]_lockVars, (m_priorityAccessOwners = {})'
              PROVE  TryAgainInv'
  OBVIOUS
<1>s. SafetyInv'
  BY SafetyInvNext DEF TryAgainInv
<1>o. m_priorityAccessOwners = {} /\ m_priorityAccessOwners' = {}
  BY DEF TryAgainInv
<1>ty. /\ access \in [Thread -> Control] /\ waitSet \subseteq Thread
       /\ \A u \in waitSet : Contending(u)
       /\ m_writing \in BOOLEAN /\ m_nbReader \in Nat
       /\ BlockedReaderBehindWriter /\ NoStrandedWaiter
  BY DEF TryAgainInv, SafetyInv, LockTypeOK
<1>w. waitSet' \subseteq Thread
  BY <1>s DEF SafetyInv, LockTypeOK
<1>p. \A u \in Thread :
        /\ CanRead(u) <=> ~m_writing
        /\ CanWrite(u) <=> (~m_writing /\ m_nbReader = 0)
        /\ CanRead(u)' <=> ~m_writing'
        /\ CanWrite(u)' <=> (~m_writing' /\ m_nbReader' = 0)
  BY <1>o DEF CanRead, CanWrite, must_give_way
<1>. SUFFICES BlockedReaderBehindWriter' /\ NoStrandedWaiter'
  BY <1>s, <1>o DEF TryAgainInv
<1>u. CASE UNCHANGED lockVars
  BY <1>ty, <1>u DEF lockVars, BlockedReaderBehindWriter, NoStrandedWaiter,
     Contending, Admissible, CanRead, CanWrite, must_give_way, has_priority
<1>1. ASSUME NEW t \in Thread, lock_read(t) \/ WakeUpRead(t)
      PROVE  BlockedReaderBehindWriter' /\ NoStrandedWaiter'
  <2>1. BlockedReaderBehindWriter'
    BY <1>ty, <1>p, <1>1 DEF lock_read, WakeUpRead, BlockedReaderBehindWriter
  <2>2. CASE m_writing
    BY <1>w, <1>p, <1>1, <2>1, <2>2
    DEF lock_read, WakeUpRead, NoStrandedWaiter, Admissible
  <2>3. CASE ~m_writing
    <3>1. \A u \in waitSet : access[u] # "lock_read"
      BY <1>ty, <2>3 DEF BlockedReaderBehindWriter
    <3>2. waitSet' = waitSet /\ m_nbReader' # 0
      BY <1>ty, <1>p, <1>1, <2>3 DEF lock_read, WakeUpRead
    <3>3. \A u \in waitSet : access'[u] # "lock_read"
      BY <1>ty, <1>p, <1>1, <2>3, <3>1 DEF lock_read, WakeUpRead
    <3>. QED  BY <1>ty, <1>p, <2>1, <3>2, <3>3 DEF NoStrandedWaiter, Admissible
  <2>. QED  BY <1>ty, <2>1, <2>2, <2>3
<1>2. ASSUME NEW t \in Thread, lock_write(t) \/ WakeUpWrite(t)
      PROVE  BlockedReaderBehindWriter' /\ NoStrandedWaiter'
  <2>1. BlockedReaderBehindWriter'
    BY <1>ty, <1>p, <1>2 DEF lock_write, WakeUpWrite, BlockedReaderBehindWriter
  <2>2. CASE CanWrite(t)
    BY <1>w, <1>p, <1>2, <2>1, <2>2
    DEF lock_write, WakeUpWrite, NoStrandedWaiter, Admissible
  <2>3. CASE ~CanWrite(t)
    <3>1. /\ m_writing' = m_writing /\ m_nbReader' = m_nbReader
          /\ m_writing \/ m_nbReader # 0
      BY <1>p, <1>2, <2>3 DEF lock_write, WakeUpWrite
    <3>. QED  BY <1>w, <1>p, <2>1, <3>1
              DEF BlockedReaderBehindWriter, NoStrandedWaiter, Admissible
  <2>. QED  BY <2>1, <2>2, <2>3
<1>3. ASSUME NEW t \in Thread, unlock_read(t)
      PROVE  BlockedReaderBehindWriter' /\ NoStrandedWaiter'
  <2>1. waitSet' \subseteq waitSet
    BY <1>3 DEF unlock_read, notify_one
  <2>2. BlockedReaderBehindWriter'
    BY <1>ty, <1>3, <2>1 DEF unlock_read, BlockedReaderBehindWriter
  <2>3. CASE m_nbReader' # 0
    BY <1>ty, <1>p, <2>1, <2>2, <2>3
    DEF BlockedReaderBehindWriter, NoStrandedWaiter, Admissible
  <2>4. CASE m_nbReader' = 0
    <3>1. CASE waitSet = {}
      BY <2>1, <2>2, <3>1 DEF NoStrandedWaiter
    <3>2. CASE \A u \in waitSet : access[u] = "lock_read"
      <4>1. \A u \in waitSet' : access'[u] = "lock_read"
        BY <1>ty, <1>3, <2>1, <3>2 DEF unlock_read
      <4>. QED  BY <1>ty, <1>p, <2>1, <2>2, <4>1
                DEF BlockedReaderBehindWriter, NoStrandedWaiter, Admissible
    <3>3. CASE \E u \in waitSet : access[u] # "lock_read"
      <4>1. \E u \in Thread : access[u] = "lock_write"
        BY <1>ty, <3>3 DEF Contending
      <4>2. m_nbWriterWaiting > 0
        BY <4>1, CountZero, CountNat DEF TryAgainInv, SafetyInv, Counted
      <4>3. PICK u \in waitSet : waitSet' = waitSet \ {u}
        BY <1>3, <2>4, <3>3, <4>2 DEF unlock_read, notify_one
      <4>4. u # t /\ access'[u] = access[u] /\ Contending(u)
        BY <1>ty, <1>3 DEF unlock_read, Contending
      <4>. QED  BY <1>ty, <2>2, <4>3, <4>4 DEF NoStrandedWaiter, Contending
    <3>. QED  BY <2>2, <3>1, <3>2, <3>3
  <2>. QED  BY <2>2, <2>3, <2>4
<1>4. ASSUME NEW t \in Thread, unlock_write(t)
      PROVE  BlockedReaderBehindWriter' /\ NoStrandedWaiter'
  <2>1. waitSet' = {}
    <3>1. CASE waitSet = {}
      BY <1>4, <3>1 DEF unlock_write, notify_all
    <3>2. CASE waitSet # {}
      <4>1. \E u \in Thread : access[u] = "lock_read" \/ access[u] = "lock_write"
        BY <1>ty, <3>2 DEF Contending
      <4>2. m_nbReaderWaiting > 0 \/ m_nbWriterWaiting > 0
        BY <4>1, CountZero, CountNat DEF TryAgainInv, SafetyInv, Counted
      <4>. QED  BY <1>4, <4>2 DEF unlock_write, notify_all
    <3>. QED  BY <3>1, <3>2
  <2>. QED  BY <2>1 DEF BlockedReaderBehindWriter, NoStrandedWaiter
<1>5. ASSUME NEW t \in Thread,
             acquire_priority_access(t) \/ release_priority_access(t)
      PROVE  FALSE
  BY <1>o, <1>5
  DEF acquire_priority_access, release_priority_access, has_priority
<1>6. ASSUME NEW t \in Thread, SpuriousWakeUp(t)
      PROVE  BlockedReaderBehindWriter' /\ NoStrandedWaiter'
  BY <1>ty, <1>6 DEF SpuriousWakeUp, BlockedReaderBehindWriter,
     NoStrandedWaiter, Contending
<1>. QED
  BY <1>u, <1>1, <1>2, <1>3, <1>4, <1>5, <1>6 DEF LockNext, TryAgain, Unlock

\* As long as no thread uses a priority context, SWMRLock loses no wake-up:
\* a blocked thread the lock would let in always has a woken thread before it.
THEOREM WakeUpsSuffice == LockSpec => NoLostWakeUp
<1>1. LockInit => TryAgainInv
  BY SafetyInvInit
  DEF LockInit, TryAgainInv, BlockedReaderBehindWriter, NoStrandedWaiter
<1>2. TryAgainInv => NoStrandedWaiter
  BY DEF TryAgainInv
<1>3. TryAgainInv /\ [LockNext]_lockVars /\ (m_priorityAccessOwners = {})' => TryAgainInv'
  BY WakeUpInvNext
<1>. QED  BY <1>1, <1>2, <1>3, PTL DEF LockSpec, NoLostWakeUp, NobodyUsesPriority

-----------------------------------------------------------------------------
(* ModificationNotifier.                                                   *)

\* A change that was posted ahead of another one of its queue is not behind it: not in the
\* queue when the other one is in the batch, nor sent after it.
NoOvertaking ==
    \A p \in ahead :
        /\ p \in Change \X Change /\ Precedes(p[1], p[2])
        /\ p[1] \in posted /\ p[1] \notin sent /\ p[2] \notin sent
        /\ p[1] \in content[p[1][1]] => p[2] \notin out

\* Each queue holds changes of its own.
OwnContent == \A q \in Queue : \A e \in content[q] : e[1] = q

NotifierInv ==
    NotifierTypeOK /\ ExactlyOnce /\ DeadlineIffContent /\ OwnContent /\ NoOvertaking

LEMMA KindRange == Range(Kind) = {"added", "modified", "removed"}
<1>1. DOMAIN Kind = 1..3
  BY DEF Kind
<1>. QED  BY <1>1 DEF Range, Kind

LEMMA IInvInit == NotifierInit => NotifierInv
<1>. SUFFICES ASSUME NotifierInit PROVE NotifierInv
  OBVIOUS
<1>1. NotifierTypeOK
  <2>1. content \in [Queue -> SUBSET Change] /\ deadline \in [Queue -> Timeouts]
    BY DEF NotifierInit, Timeouts
  <2>2. todo \in Seq(Queue) /\ timeout \in Timeouts /\ nextTimeout \in Timeouts
    BY DEF NotifierInit, Timeouts
  <2>. QED  BY <2>1, <2>2 DEF NotifierInit, NotifierTypeOK
<1>2. ExactlyOnce
  BY DEF NotifierInit, ExactlyOnce, Queued
<1>3. DeadlineIffContent /\ OwnContent /\ NoOvertaking
  BY DEF NotifierInit, DeadlineIffContent, OwnContent, NoOvertaking
<1>. QED  BY <1>1, <1>2, <1>3 DEF NotifierInv

-----------------------------------------------------------------------------
\* The steps that leave queues, batch and history alone only have to keep the
\* types.
Contents == <<content, deadline, out, posted, sent, ahead>>

LEMMA ContentsUnchanged ==
    NotifierInv /\ NotifierTypeOK' /\ (deadline' # deadline =>
        \A q \in Queue : deadline'[q] = NoTimeout <=> deadline[q] = NoTimeout)
      /\ UNCHANGED <<content, out, posted, sent, ahead>> => NotifierInv'
  BY DEF NotifierInv, ExactlyOnce, Queued, DeadlineIffContent, OwnContent, NoOvertaking

LEMMA EarlierType ==
    \A d \in Timeouts : /\ Earlier(d) \in Timeouts
                        /\ Earlier(d) = NoTimeout <=> d = NoTimeout
  BY NotifierAssumption DEF Earlier, Timeouts

\* Posting a change: it is new, its queue gets a deadline, and it is in no batch yet.
LEMMA PostInv ==
    ASSUME NotifierInv, NEW e \in Change, Post(e)
    PROVE  NotifierInv'
<1>. USE DEF NotifierInv
<1>1. PICK q \in Queue, k \in {"added", "modified", "removed"}, i \in Id :
         e = <<q, k, i>>
  BY KindRange DEF Change
<1>2. /\ content' = [content EXCEPT ![q] = @ \cup {e}]
      /\ posted' = posted \cup {e} /\ e \notin posted
      /\ UNCHANGED <<out, sent>>
  BY <1>1 DEF Post
<1>3. /\ deadline' \in [Queue -> Timeouts]
      /\ deadline'[q] # NoTimeout
      /\ \A r \in Queue \ {q} : deadline'[r] = deadline[r]
  BY <1>1, NotifierAssumption DEF Post, updateTimeout, NotifierTypeOK, Timeouts
<1>4. NotifierTypeOK'
  <2>1. content' \in [Queue -> SUBSET Change] /\ posted' \subseteq Change
    BY <1>2 DEF NotifierTypeOK
  <2>2. m_wakeUpScheduled' \in BOOLEAN /\ signalled' \in BOOLEAN
    BY DEF Post, updateTimeout, NotifyThread, NotifierTypeOK
  <2>3. UNCHANGED <<m_flushing, m_stop, pc, timeout, nextTimeout, flushing, due,
                    todo, out, flusher, owed, sent>>
    BY DEF Post
  <2>4. ahead' \subseteq Change \X Change
    BY DEF Post, NotifierTypeOK
  <2>. QED  BY <1>3, <2>1, <2>2, <2>3, <2>4 DEF NotifierTypeOK
<1>5. ExactlyOnce'
  <2>1. content \in [Queue -> SUBSET Change]
    BY DEF NotifierTypeOK
  <2>2. Queued' = Queued \cup {e}
    BY <1>1, <1>2, <2>1 DEF Queued
  <2>3. e \notin out /\ e \notin sent
    BY <1>2 DEF ExactlyOnce
  <2>. QED  BY <1>2, <2>2, <2>3 DEF ExactlyOnce
<1>6. DeadlineIffContent' /\ OwnContent'
  BY <1>1, <1>2, <1>3 DEF NotifierTypeOK, DeadlineIffContent, OwnContent
<1>7. NoOvertaking'
  <2>. SUFFICES ASSUME NEW p \in ahead'
                PROVE  /\ p \in Change \X Change /\ Precedes(p[1], p[2])
                       /\ p[1] \in posted' /\ p[1] \notin sent /\ p[2] \notin sent
                       /\ p[1] \in content'[p[1][1]] => p[2] \notin out
    BY <1>2 DEF NoOvertaking
  <2>1. CASE p \in ahead
    <3>1. /\ p \in Change \X Change /\ Precedes(p[1], p[2])
          /\ p[1] \in posted /\ p[1] \notin sent /\ p[2] \notin sent
          /\ p[1] \in content[p[1][1]] => p[2] \notin out
      BY <2>1 DEF NoOvertaking
    <3>2. p[1] # e /\ p[1][1] \in Queue
      BY <1>2, <3>1 DEF Change
    <3>3. p[1] \in content'[p[1][1]] => p[1] \in content[p[1][1]]
      BY <1>1, <1>2, <3>2 DEF NotifierTypeOK
    <3>. QED  BY <1>2, <3>1, <3>3
  <2>2. ASSUME p \notin ahead
        PROVE  p \in Change \X Change /\ p[1] \in posted \ sent /\ p[2] = e
               /\ Precedes(p[1], e)
    BY <2>2 DEF Post, NotifierTypeOK
  <2>3. CASE p \notin ahead
    BY <1>2, <2>2, <2>3 DEF ExactlyOnce
  <2>. QED  BY <2>1, <2>3
<1>. QED  BY <1>4, <1>5, <1>6, <1>7

\* Taking a queue moves its whole content to the batch: what could be
\* overtaken is taken with it.
LEMMA CheckInv ==
    ASSUME NotifierInv, Check
    PROVE  NotifierInv'
<1>. USE DEF NotifierInv
<1>. DEFINE q == Head(todo)
<1>1. q \in Queue /\ Tail(todo) \in Seq(Queue)
  BY DEF Check, NotifierTypeOK
<1>2. CASE q \in due \/ (flushing /\ deadline[q] # NoTimeout)
  <2>1. /\ out' = out \cup content[q]
        /\ content' = [content EXCEPT ![q] = {}]
        /\ deadline' = [deadline EXCEPT ![q] = NoTimeout]
        /\ UNCHANGED <<posted, sent, nextTimeout>>
    BY <1>2 DEF Check, checkQueue
  <2>2. NotifierTypeOK'
    BY <1>1, <2>1 DEF Check, NotifierTypeOK, observed, Timeouts
  <2>3. ExactlyOnce'
    <3>1. Queued = Queued' \cup content[q]
      BY <1>1, <2>1 DEF Queued, NotifierTypeOK
    <3>2. Queued' \cap content[q] = {}
      BY <1>1, <2>1 DEF Queued, NotifierTypeOK, OwnContent
    <3>3. content[q] \cap sent = {} /\ Queued' \cap out = {} /\ Queued' \cap sent = {}
      BY <3>1 DEF ExactlyOnce
    <3>. QED  BY <2>1, <3>1, <3>2, <3>3 DEF ExactlyOnce
  <2>4. DeadlineIffContent' /\ OwnContent'
    BY <1>1, <2>1 DEF NotifierTypeOK, DeadlineIffContent, OwnContent
  <2>5. NoOvertaking'
    <3>. SUFFICES ASSUME NEW p \in ahead, p[1] \in content'[p[1][1]], p[2] \in out'
                  PROVE  FALSE
      BY <2>1 DEF NoOvertaking, Check, observed
    <3>1. /\ p \in Change \X Change /\ p[1][1] = p[2][1] /\ p[1][1] \in Queue
          /\ p[1] \in content[p[1][1]] => p[2] \notin out
      BY DEF NoOvertaking, Precedes, Change
    <3>2. p[1][1] # q /\ p[1] \in content[p[1][1]]
      BY <1>1, <2>1, <3>1 DEF NotifierTypeOK
    <3>3. p[2] \in content[q]
      BY <2>1, <3>1, <3>2
    <3>. QED  BY <1>1, <3>1, <3>2, <3>3 DEF OwnContent
  <2>. QED  BY <2>2, <2>3, <2>4, <2>5
<1>3. CASE ~(q \in due \/ (flushing /\ deadline[q] # NoTimeout))
  <2>1. UNCHANGED Contents /\ nextTimeout' = Sooner(nextTimeout, deadline[q])
    BY <1>3 DEF Check, checkQueue, Postpone, Contents, observed
  <2>2. nextTimeout' \in Timeouts
    BY <1>1, <2>1 DEF Sooner, NotifierTypeOK
  <2>3. NotifierTypeOK'
    BY <1>1, <2>1, <2>2 DEF Check, NotifierTypeOK, Contents, observed
  <2>. QED  BY <2>1, <2>3, ContentsUnchanged DEF Contents
<1>. QED  BY <1>2, <1>3

\* The parts of a batch that come before this one are sent already.
LEMMA PartsInOrder ==
    ASSUME NEW n \in 1..Len(Notified), NEW m \in 1..Len(Kind), IsNext(n, m),
           NEW d \in out, NEW e \in Batch(Notified[n], Kind[m]), d \in Change,
           Precedes(d, e)
    PROVE  d \in Batch(Notified[n], Kind[m])
<1>1. d[1] = Notified[n] /\ e[2] = Kind[m] /\ d[2] \in {"added", "modified", "removed"}
  BY KindRange DEF Batch, Precedes, Change
<1>2. Len(Kind) = 3 /\ Kind[1] = "added" /\ Kind[2] = "modified" /\ Kind[3] = "removed"
  BY DEF Kind
<1>3. m \in {1, 2, 3}
  BY <1>2
<1>4. CASE d[2] = e[2]
  BY <1>1, <1>4 DEF Batch
<1>5. CASE d[2] = "added" /\ e[2] # "added"
  <2>1. 1 < m
    BY <1>1, <1>2, <1>3, <1>5
  <2>2. Batch(Notified[n], Kind[1]) = {}
    BY <1>2, <2>1 DEF IsNext
  <2>. QED  BY <1>1, <1>2, <1>5, <2>2 DEF Batch
<1>6. CASE d[2] = "modified" /\ e[2] = "removed"
  <2>1. 2 < m
    <3>1. Kind[m] = "removed" /\ Kind[1] # "removed" /\ Kind[2] # "removed"
      BY <1>1, <1>2, <1>6
    <3>2. m = 3
      BY <1>3, <3>1
    <3>. QED  BY <3>2
  <2>2. Batch(Notified[n], Kind[2]) = {}
    BY <1>2, <2>1 DEF IsNext
  <2>. QED  BY <1>1, <1>2, <1>6, <2>2 DEF Batch
<1>. QED  BY <1>1, <1>4, <1>5, <1>6 DEF Precedes

\* What is sent has nothing ahead of it that is not sent with it.
LEMMA NotifyInv ==
    ASSUME NotifierInv, notify
    PROVE  NotifierInv' /\ \A p \in ahead : p[2] \in sent' => p[1] \in sent'
<1>. USE DEF NotifierInv
<1>1. PICK n \in 1..Len(Notified), m \in 1..Len(Kind) :
        /\ IsNext(n, m)
        /\ out' = out \ Batch(Notified[n], Kind[m])
        /\ sent' = sent \cup Batch(Notified[n], Kind[m])
  BY DEF notify
<1>. DEFINE b == Batch(Notified[n], Kind[m])
<1>2. b \subseteq out /\ UNCHANGED <<content, deadline, posted>>
  BY DEF notify, Batch
<1>3. NotifierTypeOK'
  BY <1>1, <1>2 DEF notify, NotifierTypeOK
<1>4. ExactlyOnce'
  BY <1>1, <1>2 DEF ExactlyOnce, Queued
<1>5. DeadlineIffContent' /\ OwnContent'
  BY <1>2 DEF DeadlineIffContent, OwnContent
<1>6. ASSUME NEW p \in ahead, p[2] \in sent'
      PROVE  p[1] \in sent'
  <2>1. /\ p \in Change \X Change /\ Precedes(p[1], p[2])
        /\ p[1] \in posted /\ p[1] \notin sent /\ p[2] \notin sent
        /\ p[1] \in content[p[1][1]] => p[2] \notin out
    BY DEF NoOvertaking
  <2>2. p[2] \in b /\ p[2] \in out
    BY <1>1, <1>2, <1>6, <2>1
  <2>3. p[1] \in out
    <3>1. p[1] \in Queued \cup out
      BY <2>1 DEF ExactlyOnce
    <3>2. p[1] \in Queued => p[1] \in content[p[1][1]]
      BY DEF Queued, OwnContent
    <3>. QED  BY <2>1, <2>2, <3>1, <3>2
  <2>. QED  BY <1>1, <2>1, <2>2, <2>3, PartsInOrder
<1>7. NoOvertaking'
  <2>1. ahead' = {p \in ahead : p[1] \notin sent'}
    BY DEF notify
  <2>. QED  BY <1>1, <1>2, <1>6, <2>1 DEF NoOvertaking
<1>. QED  BY <1>3, <1>4, <1>5, <1>6, <1>7

LEMMA IInvNext == NotifierInv /\ [NotifierNext]_notifierVars => NotifierInv'
<1>. SUFFICES ASSUME NotifierInv, [NotifierNext]_notifierVars PROVE NotifierInv'
  OBVIOUS
<1>1. CASE UNCHANGED notifierVars
  <2>1. NotifierTypeOK'
    BY <1>1 DEF NotifierInv, notifierVars, notifierThread, observed, NotifierTypeOK
  <2>. QED  BY <1>1, <2>1, ContentsUnchanged DEF notifierVars, notifierThread, observed
<1>2. CASE Tick
  <2>1. NotifierTypeOK'
    BY <1>2, EarlierType DEF NotifierInv, Tick, NotifierTypeOK, observed
  <2>2. \A q \in Queue : deadline'[q] = NoTimeout <=> deadline[q] = NoTimeout
    BY <1>2, EarlierType DEF NotifierInv, Tick, NotifierTypeOK
  <2>. QED  BY <1>2, <2>1, <2>2, ContentsUnchanged DEF Tick, observed
<1>3. CASE RequestFlush \/ FlushReturns \/ Stop
  <2>1. NotifierTypeOK'
    BY <1>3 DEF NotifierInv, RequestFlush, FlushReturns, Stop, NotifyThread,
      NotifierTypeOK, notifierThread, observed
  <2>. QED
    BY <1>3, <2>1, ContentsUnchanged DEF RequestFlush, FlushReturns, Stop, notifierThread,
      observed
<1>4. CASE Loop \/ Wait \/ WaitIsFalse \/ Block \/ WokenUp \/ Checks \/ AllNotified
  <2>1. UNCHANGED <<content, deadline, out, posted, sent, ahead>>
    BY <1>4 DEF Loop, Wait, WaitIsFalse, Block, WokenUp, Checks, AllNotified, observed
  <2>2. timeout' \in Timeouts /\ nextTimeout' \in Timeouts
    BY <1>4, NotifierAssumption DEF NotifierInv, NotifierTypeOK, Timeouts, Loop, Wait,
       WaitIsFalse, Block, WokenUp, Checks, AllNotified
  <2>3. NotifierTypeOK
    BY DEF NotifierInv
  <2>4. Loop \/ Wait \/ WaitIsFalse => NotifierTypeOK'
    BY <2>1, <2>2, <2>3 DEF NotifierTypeOK, Loop, Wait, WaitIsFalse, observed
  <2>5. Block \/ WokenUp => NotifierTypeOK'
    BY <2>1, <2>2, <2>3 DEF NotifierTypeOK, Block, WokenUp, observed
  <2>6. Checks \/ AllNotified => NotifierTypeOK'
    BY <2>1, <2>2, <2>3 DEF NotifierTypeOK, Checks, AllNotified, observed
  <2>7. NotifierTypeOK'
    BY <1>4, <2>4, <2>5, <2>6
  <2>. QED  BY <2>1, <2>7, ContentsUnchanged
<1>5. CASE WaitUntil
  <2>1. Checked \in Seq(Queue)
    BY NotifierAssumption DEF Checked, Queue, Range
  <2>2. NotifierTypeOK'
    BY <1>5, <2>1 DEF NotifierInv, NotifierTypeOK, WaitUntil, observed, Timeouts
  <2>. QED  BY <1>5, <2>2, ContentsUnchanged DEF WaitUntil, observed
<1>6. CASE Check
  BY <1>6, CheckInv
<1>7. CASE notify
  BY <1>7, NotifyInv
<1>8. ASSUME NEW e \in Change, Post(e) PROVE NotifierInv'
  BY <1>8, PostInv
<1>. QED
  BY <1>1, <1>2, <1>3, <1>4, <1>5, <1>6, <1>7, <1>8 DEF NotifierNext, Run, Ended

LEMMA IInvHolds == NotifierSpec => []NotifierInv
  BY IInvInit, IInvNext, PTL DEF NotifierSpec

-----------------------------------------------------------------------------
\* The variables keep their types, whatever the number of queues.
THEOREM NotifierTypeCorrect == NotifierSpec => []NotifierTypeOK
<1>1. NotifierInv => NotifierTypeOK
  BY DEF NotifierInv
<1>. QED  BY <1>1, IInvHolds, PTL

\* No change is lost or sent twice between a queue and the application.
THEOREM ChangesSentOnce == NotifierSpec => []ExactlyOnce
<1>1. NotifierInv => ExactlyOnce
  BY DEF NotifierInv
<1>. QED  BY <1>1, IInvHolds, PTL

\* checkQueue() never ignores a queue that holds something.
THEOREM ContentHasDeadline == NotifierSpec => []DeadlineIffContent
<1>1. NotifierInv => DeadlineIffContent
  BY DEF NotifierInv
<1>. QED  BY <1>1, IInvHolds, PTL

\* No change is told after one that was posted behind it and comes in the same part of a
\* batch or a later one.
THEOREM ToldInOrder == NotifierSpec => CallbacksInOrder
<1>1. NotifierInv /\ [NotifierNext]_notifierVars =>
        [\A p \in ahead : p[2] \in sent' => p[1] \in sent']_notifierVars
  <2>. SUFFICES ASSUME NotifierInv, [NotifierNext]_notifierVars,
                       NEW p \in ahead, p[2] \in sent'
                PROVE  p[1] \in sent'
    OBVIOUS
  <2>1. p[2] \notin sent
    BY DEF NotifierInv, NoOvertaking
  <2>2. notify
    BY <2>1 DEF NotifierNext, Run, Ended, notifierVars, notifierThread, observed, Loop, Wait,
      WaitIsFalse, Block, WokenUp, WaitUntil, Check, Checks, AllNotified, Tick,
      RequestFlush, FlushReturns, Stop, Post
  <2>. QED  BY <2>2, NotifyInv
<1>. QED  BY <1>1, IInvHolds, PTL DEF NotifierSpec, CallbacksInOrder

-----------------------------------------------------------------------------
(* flush().                                                                *)

\* A change that was owed when flush() was called is in its queue, which this round
\* still has to check, or in the batch.
Reached(e) == e \in out \/ (e \in content[e[1]] /\ \E i \in DOMAIN todo : todo[i] = e[1])

\* Between two rounds the thread holds no batch.
BatchSent == pc \notin {"check", "notify"} => out = {}

OwedUnsent == owed \subseteq posted \ sent /\ \A e \in owed : e[1] # NewMedia

\* The flush of a thread that waited is not acknowledged before the round that serves it
\* is over, and that round takes whatever its queue holds.
FlushServed ==
    flusher = "quiet" /\ owed # {} =>
        /\ m_flushing /\ pc # "loop"
        /\ pc = "check" => flushing /\ \A e \in owed : Reached(e)
        /\ pc = "notify" => owed \subseteq out

FlushInv == BatchSent /\ OwedUnsent /\ FlushServed

LEMMA CheckedRange ==
    \A q \in Queue : q # NewMedia => \E i \in DOMAIN Checked : Checked[i] = q
<1>. SUFFICES ASSUME NEW q \in Queue, q # NewMedia
              PROVE  \E i \in DOMAIN Checked : Checked[i] = q
  OBVIOUS
<1>. DEFINE n == Len(EntityQueue)
<1>1. /\ n \in Nat /\ DOMAIN EntityQueue = 1..n /\ DOMAIN Checked = 1..(n + 1)
      /\ Checked[n + 1] = Cleanup /\ \A i \in 1..n : Checked[i] = EntityQueue[i]
  BY NotifierAssumption DEF Checked
<1>. HIDE DEF n
<1>2. CASE q = Cleanup
  BY <1>1, <1>2
<1>3. CASE q # Cleanup
  <2>1. PICK i \in DOMAIN EntityQueue : EntityQueue[i] = q
    BY <1>3 DEF Queue, Range
  <2>. QED  BY <1>1, <2>1
<1>. QED  BY <1>2, <1>3

\* What is neither in the batch nor sent is in its own queue.
LEMMA WhereOwed ==
    ASSUME NotifierInv, NEW e \in posted, e \notin sent, e \notin out
    PROVE  e[1] \in Queue /\ e \in content[e[1]]
<1>1. PICK q \in Queue : e \in content[q]
  BY DEF NotifierInv, ExactlyOnce, Queued
<1>. QED  BY <1>1 DEF NotifierInv, OwnContent

\* The steps that leave the round and the flush alone.
LEMMA FlushKept ==
    ASSUME FlushInv, UNCHANGED <<out, owed, posted, sent, flusher>>,
           FlushServed' \/ UNCHANGED <<m_flushing, pc, flushing, content, todo>>,
           pc' = pc \/ out = {}
    PROVE  FlushInv'
BY DEF FlushInv, BatchSent, OwedUnsent, FlushServed, Reached

LEMMA FlushInit == NotifierInit => FlushInv
BY DEF NotifierInit, FlushInv, BatchSent, OwedUnsent, FlushServed

\* One queue is checked: if the thread flushes and there is something in it, it is taken.
LEMMA FlushCheck ==
    ASSUME NotifierInv, FlushInv, Check
    PROVE  FlushInv'
<1>. DEFINE q == Head(todo)
<1>1. /\ pc = "check" /\ UNCHANGED <<pc, owed, posted, sent, flusher, m_flushing, flushing>>
      /\ todo' = Tail(todo) /\ todo # <<>> /\ todo \in Seq(Queue)
  BY DEF Check, observed, NotifierInv, NotifierTypeOK
<1>2. BatchSent' /\ OwedUnsent'
  BY <1>1 DEF FlushInv, BatchSent, OwedUnsent
<1>3. ASSUME flusher = "quiet", NEW e \in owed
      PROVE  Reached(e)'
  <2>1. flushing /\ Reached(e)
    BY <1>1, <1>3 DEF FlushInv, FlushServed
  <2>2. out \subseteq out'
    BY DEF Check, checkQueue, Postpone
  <2>3. CASE e \in out
    BY <2>2, <2>3 DEF Reached
  <2>4. ASSUME e \in content[e[1]], NEW i \in DOMAIN todo, todo[i] = e[1]
        PROVE  Reached(e)'
    <3>1. q \in Queue /\ e[1] \in Queue /\ content \in [Queue -> SUBSET Change]
      BY <1>1, <2>4 DEF NotifierInv, NotifierTypeOK
    <3>2. CASE e[1] = q
      <4>1. deadline[q] # NoTimeout
        BY <2>4, <3>1, <3>2 DEF NotifierInv, DeadlineIffContent
      <4>2. out' = out \cup content[q]
        BY <2>1, <4>1 DEF Check, checkQueue
      <4>. QED  BY <2>4, <3>2, <4>2 DEF Reached
    <3>3. CASE e[1] # q
      <4>1. content'[e[1]] = content[e[1]]
        BY <3>1, <3>3 DEF Check, checkQueue, Postpone
      <4>2. i \in 2..Len(todo) /\ i - 1 \in DOMAIN todo' /\ todo'[i - 1] = todo[i]
        BY <1>1, <2>4, <3>3
      <4>. QED  BY <2>4, <4>1, <4>2 DEF Reached
    <3>. QED  BY <3>2, <3>3
  <2>. QED  BY <2>1, <2>3, <2>4 DEF Reached
<1>4. FlushServed'
  BY <1>1, <1>3 DEF FlushInv, FlushServed
<1>. QED  BY <1>2, <1>4 DEF FlushInv

LEMMA FlushNotify ==
    ASSUME NotifierInv, FlushInv, notify
    PROVE  FlushInv'
<1>1. /\ pc = "notify" /\ UNCHANGED <<pc, posted, flusher, m_flushing, content, todo, flushing>>
      /\ owed' = owed \ sent'
  BY DEF notify
<1>2. out \subseteq out' \cup sent'
  BY DEF notify
<1>3. BatchSent' /\ OwedUnsent'
  BY <1>1 DEF FlushInv, BatchSent, OwedUnsent
<1>4. FlushServed'
  BY <1>1, <1>2 DEF FlushInv, FlushServed
<1>. QED  BY <1>3, <1>4 DEF FlushInv

\* flush() is called: the thread waits, and every queue is still to be checked.
LEMMA FlushCalled ==
    ASSUME NotifierInv, FlushInv, RequestFlush
    PROVE  FlushInv'
<1>1. /\ m_flushing' = TRUE /\ owed' \subseteq posted \ sent /\ \A e \in owed' : e[1] # NewMedia
      /\ flusher' = "quiet" => pc \notin {"loop", "check", "notify"}
      /\ UNCHANGED <<pc, out, posted, sent>>
  BY DEF RequestFlush
<1>. QED  BY <1>1 DEF FlushInv, BatchSent, OwedUnsent, FlushServed

\* The thread begins a round: it saw the flush, and what is owed is in the queues.
LEMMA FlushRound ==
    ASSUME NotifierInv, FlushInv, WaitUntil
    PROVE  FlushInv'
<1>1. /\ pc = "wait_until" /\ pc' \in {"done", "check"}
      /\ UNCHANGED <<out, owed, posted, sent, flusher, m_flushing, content>>
      /\ pc' = "check" => flushing' = m_flushing /\ todo' = Checked
  BY DEF WaitUntil, observed
<1>2. out = {}
  BY <1>1 DEF FlushInv, BatchSent
<1>3. ASSUME pc' = "check", NEW e \in owed
      PROVE  Reached(e)'
  <2>1. e[1] \in Queue /\ e \in content[e[1]] /\ e[1] # NewMedia
    BY <1>2, WhereOwed DEF FlushInv, OwedUnsent
  <2>2. \E i \in DOMAIN Checked : Checked[i] = e[1]
    BY <2>1, CheckedRange
  <2>. QED  BY <1>1, <1>3, <2>1, <2>2 DEF Reached
<1>4. FlushServed'
  BY <1>1, <1>3 DEF FlushInv, FlushServed
<1>. QED  BY <1>1, <1>2, <1>4, FlushKept

LEMMA FlushNext == NotifierInv /\ FlushInv /\ [NotifierNext]_notifierVars => FlushInv'
<1>. SUFFICES ASSUME NotifierInv, FlushInv, [NotifierNext]_notifierVars PROVE FlushInv'
  OBVIOUS
<1>1. CASE UNCHANGED notifierVars \/ Tick \/ Stop
  <2>1. UNCHANGED <<out, owed, posted, sent, flusher, m_flushing, pc, flushing, content, todo>>
    BY <1>1 DEF notifierVars, notifierThread, observed, Tick, Stop
  <2>. QED  BY <2>1, FlushKept
<1>2. CASE FlushReturns
  <2>1. owed' = {} /\ UNCHANGED <<out, pc>>
    BY <1>2 DEF FlushReturns, notifierThread
  <2>. QED  BY <2>1 DEF FlushInv, BatchSent, OwedUnsent, FlushServed
<1>3. ASSUME NEW e \in Change, Post(e) PROVE FlushInv'
  <2>1. /\ UNCHANGED <<out, owed, sent, flusher, m_flushing, pc, flushing, todo>>
        /\ posted \subseteq posted'
    BY <1>3 DEF Post, observed
  <2>2. \A f \in owed : Reached(f) => Reached(f)'
    <3>1. \A f \in owed : Reached(f) => f \in out \/ f[1] \in Queue
      BY DEF Reached, NotifierInv, NotifierTypeOK
    <3>2. \A q \in Queue : content[q] \subseteq content'[q]
      BY <1>3 DEF Post, NotifierInv, NotifierTypeOK
    <3>. QED  BY <2>1, <3>1, <3>2 DEF Reached
  <2>. QED  BY <2>1, <2>2 DEF FlushInv, BatchSent, OwedUnsent, FlushServed
<1>4. CASE RequestFlush
  BY <1>4, FlushCalled
<1>5. CASE Loop
  <2>1. /\ pc = "loop" /\ pc' \in {"done", "wait", "wait_until"}
        /\ UNCHANGED <<out, owed, posted, sent, flusher>>
    BY <1>5 DEF Loop, observed
  <2>. QED  BY <2>1 DEF FlushInv, BatchSent, OwedUnsent, FlushServed
<1>6. CASE Wait \/ WaitIsFalse \/ Block \/ WokenUp
  <2>1. /\ pc \in {"wait", "blocking", "blocked"}
        /\ pc' \in {"wait", "wait_until", "blocking", "blocked"}
        /\ UNCHANGED <<out, owed, posted, sent, flusher, m_flushing>>
    BY <1>6 DEF Wait, WaitIsFalse, Block, WokenUp, observed
  <2>. QED  BY <2>1 DEF FlushInv, BatchSent, OwedUnsent, FlushServed
<1>7. CASE WaitUntil
  BY <1>7, FlushRound
<1>8. CASE Check
  BY <1>8, FlushCheck
<1>9. CASE Checks
  <2>1. /\ pc = "check" /\ pc' = "notify" /\ todo = <<>>
        /\ UNCHANGED <<out, owed, posted, sent, flusher, m_flushing>>
    BY <1>9 DEF Checks, observed
  <2>. QED  BY <2>1 DEF FlushInv, BatchSent, OwedUnsent, FlushServed, Reached
<1>10. CASE notify
  BY <1>10, FlushNotify
<1>11. CASE AllNotified
  <2>1. /\ pc = "notify" /\ pc' = "loop" /\ out = {}
        /\ UNCHANGED <<out, owed, posted, sent, flusher>>
    BY <1>11 DEF AllNotified, observed
  <2>. QED  BY <2>1 DEF FlushInv, BatchSent, OwedUnsent, FlushServed
<1>. QED
  BY <1>1, <1>2, <1>3, <1>4, <1>5, <1>6, <1>7, <1>8, <1>9, <1>10, <1>11 DEF NotifierNext,
    Run, Ended

\* flush() returns to a caller that found the thread waiting only once the application was
\* told of all that was queued before the call, from whatever queue run() checks.
THEOREM QuietFlushesAreComplete == NotifierSpec => QuietFlushIsComplete
<1>1. FlushInv => [FlushReturns /\ flusher = "quiet" => owed = {}]_notifierVars
  BY DEF FlushInv, FlushServed, FlushReturns
<1>2. NotifierSpec => []FlushInv
  BY FlushInit, FlushNext, IInvHolds, PTL DEF NotifierSpec
<1>. QED  BY <1>1, <1>2, PTL DEF QuietFlushIsComplete

-----------------------------------------------------------------------------
(* BackgroundTasks.                                                        *)

\* A worker without a thread, or that asks the others with its lock held, is idle.
IdleWithoutThread ==
    \A w \in Worker : thread[w] \in {"unstarted", "reporting"} => m_idle[w]

\* Threads only end when they are told to.
EndedWhenTold ==
    \A w \in Worker : thread[w] \in {"leaving", "done", "joined"} => m_stopParser[w]

\* A thread that was announced starts with its flag down.
EntersBusy ==
    \A w \in Worker : thread[w] = "entering" => w \in unannounced \/ ~m_idle[w]

\* Once every flag is up, the library knows, or some worker is still asking: it will
\* see them all up.
SomeoneAsks ==
    unannounced = {} /\ (\A w \in Worker : m_idle[w]) /\ ~m_parserIdle
        => \E w \in Worker : IsAsking(w)

Flags == IdleWithoutThread /\ EndedWhenTold /\ EntersBusy /\ SomeoneAsks /\ ToldBothFlags

TasksInv == TypeOK /\ Flags

ThreadState == {"unstarted", "entering", "top", "running", "reporting", "waiting",
                "leaving", "done", "joined"}

\* The threads when a worker that was running may have gone back to its loop.
Underway(threads) ==
    /\ threads \in [Worker -> ThreadState]
    /\ \A x \in Worker :
         threads[x] = thread[x] \/ (thread[x] = "running" /\ threads[x] = "top")

-----------------------------------------------------------------------------
\* parse() keeps the types and the flags, whoever calls it.
LEMMA ParseInv ==
    ASSUME TasksInv, NEW v \in Worker, NEW threads, Underway(threads), parse(v, threads)
    PROVE  /\ m_tasks' \in [Worker -> Nat] /\ m_idle' \in [Worker -> BOOLEAN]
           /\ thread' \in [Worker -> ThreadState]
           /\ {m_parserIdle', m_discovererIdle', told'} \subseteq BOOLEAN
           /\ unannounced' \subseteq Worker
           /\ Flags'
<1>. USE DEF TasksInv
<1>1. /\ m_tasks' \in [Worker -> Nat] /\ m_idle' \in [Worker -> BOOLEAN]
      /\ thread' \in [Worker -> ThreadState]
      /\ unannounced' \subseteq Worker
  <2>1. m_tasks' \in [Worker -> Nat]
    BY DEF TypeOK, parse
  <2>2. m_idle' \in [Worker -> BOOLEAN]
    BY DEF TypeOK, parse, setBusy
  <2>3. thread' \in [Worker -> ThreadState]
    BY DEF parse, Underway, ThreadState
  <2>4. unannounced' \subseteq Worker
    BY DEF TypeOK, parse
  <2>. QED  BY <2>1, <2>2, <2>3, <2>4
<1>2. /\ {m_parserIdle', m_discovererIdle', told'} \subseteq BOOLEAN
      /\ ToldBothFlags'
  BY DEF TypeOK, Flags, ToldBothFlags, parse, setBusy, onParserIdleChanged, library
<1>3. \A x \in Worker \ {v} : m_idle'[x] = m_idle[x]
  BY DEF parse, setBusy, TypeOK
<1>4. m_paused[v] => m_idle' = m_idle /\ UNCHANGED library
  BY DEF parse
<1>5. ~m_paused[v] => ~m_idle'[v]
  BY DEF parse, setBusy, TypeOK
<1>6. \A x \in Worker \ {v} :
        thread'[x] = thread[x] \/ (thread[x] = "running" /\ thread'[x] = "top")
  BY DEF parse, Underway, TypeOK, ThreadState
<1>7. /\ HasThread(v) =>
           thread'[v] = thread[v] \/ (thread[v] = "running" /\ thread'[v] = "top")
      /\ ~HasThread(v) => thread'[v] = "entering"
      /\ thread[v] # "reporting"
  BY DEF parse, Underway, TypeOK, ThreadState, Unlocked
<1>8. IdleWithoutThread' /\ EndedWhenTold'
  BY <1>3, <1>6, <1>7 DEF IdleWithoutThread, EndedWhenTold, Flags, HasThread, parse
<1>9. EntersBusy'
  BY <1>3, <1>4, <1>5, <1>6, <1>7 DEF EntersBusy, Flags, HasThread, parse
<1>10. SomeoneAsks'
  <2>. SUFFICES ASSUME unannounced' = {}, \A x \in Worker : m_idle'[x], ~m_parserIdle'
                PROVE  \E x \in Worker : IsAsking(x)'
    BY DEF SomeoneAsks
  <2>1. m_paused[v] /\ m_idle' = m_idle /\ UNCHANGED library
    BY <1>4, <1>5
  <2>2. unannounced = {}
    BY DEF parse
  <2>3. PICK x \in Worker : IsAsking(x)
    BY <2>1, <2>2 DEF Flags, SomeoneAsks, library
  <2>4. thread'[x] = thread[x]
    BY <1>6, <1>7, <2>3 DEF IsAsking, HasThread
  <2>. QED  BY <2>3, <2>4 DEF IsAsking
<1>. QED  BY <1>1, <1>2, <1>8, <1>9, <1>10 DEF Flags

LEMMA SpendType ==
    ASSUME TypeOK, NEW what \in {"task", "requeue", "discovery", "call"}, Spend(what)
    PROVE  left' \in [{"task", "requeue", "discovery", "call"} -> Nat]
BY DEF TypeOK, Spend

\* The rest of the state, for the four callers of parse().
LEMMA ParseCallers ==
    ASSUME TasksInv,
           \/ \E w \in Worker : Forward(w)
           \/ Requeue \/ Spawn \/ Add
    PROVE  TasksInv'
<1>. USE DEF TasksInv
<1>1. \E v \in Worker, threads \in [Worker -> ThreadState] :
        Underway(threads) /\ parse(v, threads)
  <2>1. Underway(thread)
    BY DEF TypeOK, Underway, ThreadState
  <2>2. \A w \in Worker : thread[w] = "running" => Underway([thread EXCEPT ![w] = "top"])
    BY DEF TypeOK, Underway, ThreadState
  <2>3. ASSUME NEW w \in Worker, Forward(w)
        PROVE  \E v \in Worker, threads \in [Worker -> ThreadState] :
                 Underway(threads) /\ parse(v, threads)
    <3>1. w + 1 \in Worker
      BY <2>3 DEF Forward, Worker, Extraction, Analysis, Linking
    <3>. QED  BY <2>2, <2>3, <3>1 DEF Forward, Underway
  <2>4. CASE Requeue \/ Spawn \/ Add
    BY <2>1, <2>2, <2>4 DEF Requeue, Spawn, Add, Worker, Underway
  <2>. QED  BY <2>3, <2>4
<1>2. PICK v \in Worker, threads \in [Worker -> ThreadState] :
        Underway(threads) /\ parse(v, threads)
  BY <1>1
<1>3. UNCHANGED <<m_paused, m_stopParser, asked>>
  BY <1>2 DEF parse
<1>4. UNCHANGED <<discovery, application>>
  BY DEF Forward, Requeue, Spawn, Add
<1>5. left' \in [{"task", "requeue", "discovery", "call"} -> Nat]
  BY SpendType DEF Forward, Requeue, Spawn, Add, TypeOK
<1>6. TypeOK'
  BY <1>2, <1>3, <1>4, <1>5, ParseInv DEF TypeOK, ThreadState, discovery, application
<1>. QED  BY <1>2, <1>6, ParseInv

-----------------------------------------------------------------------------
(* The loop of a worker.                                                   *)

LEMMA EnterInv ==
    ASSUME TasksInv, NEW w \in Worker, Enter(w)
    PROVE  TasksInv'
<1>. USE DEF TasksInv
<1>1. TypeOK'
  <2>1. thread' \in [Worker -> ThreadState]
    BY DEF TypeOK, ThreadState, Enter, Moves
  <2>2. m_parserIdle' \in BOOLEAN /\ told' \in BOOLEAN
    BY DEF TypeOK, Enter, onParserIdleChanged
  <2>3. UNCHANGED <<m_tasks, m_idle, m_paused, m_stopParser, asked, m_discovererIdle,
                    discovery, application, left, unannounced>>
    BY DEF Enter, onParserIdleChanged
  <2>. QED  BY <2>1, <2>2, <2>3 DEF TypeOK, ThreadState, discovery, application
<1>2. ToldBothFlags'
  BY DEF TypeOK, Flags, ToldBothFlags, Enter, onParserIdleChanged
<1>3. IdleWithoutThread' /\ EndedWhenTold' /\ EntersBusy'
  BY DEF TypeOK, Flags, IdleWithoutThread, EndedWhenTold, EntersBusy, Enter, Moves
<1>4. SomeoneAsks'
  BY DEF TypeOK, Flags, EntersBusy, SomeoneAsks, Enter
<1>. QED  BY <1>1, <1>2, <1>3, <1>4 DEF Flags

LEMMA TakeInv ==
    ASSUME TasksInv, NEW w \in Worker, Take(w)
    PROVE  TasksInv'
<1>. USE DEF TasksInv
<1>1. TypeOK'
  BY DEF TypeOK, Take, HasWork, Moves, library, discovery, application
<1>2. \A x \in Worker : x # w => thread'[x] = thread[x]
  BY DEF TypeOK, Take, Moves
<1>3. thread[w] = "top" /\ thread'[w] = "running"
  BY DEF TypeOK, Take, Moves
<1>. QED
  BY <1>1, <1>2, <1>3 DEF Flags, IdleWithoutThread, EndedWhenTold, EntersBusy, SomeoneAsks,
    ToldBothFlags, IsAsking, Take, library

LEMMA EndInv ==
    ASSUME TasksInv, NEW w \in Worker, End(w)
    PROVE  TasksInv'
<1>. USE DEF TasksInv
<1>1. TypeOK'
  BY DEF TypeOK, End, Moves, library, discovery, application
<1>2. \A x \in Worker : x # w => thread'[x] = thread[x]
  BY DEF TypeOK, End, Moves
<1>3. thread[w] = "running" /\ thread'[w] = "top"
  BY DEF TypeOK, End, Moves
<1>. QED
  BY <1>1, <1>2, <1>3 DEF Flags, IdleWithoutThread, EndedWhenTold, EntersBusy, SomeoneAsks,
    ToldBothFlags, IsAsking, End, library

\* A worker that puts its flag up asks the others: this is what keeps SomeoneAsks.
LEMMA TurnIdleInv ==
    ASSUME TasksInv, NEW w \in Worker, TurnIdle(w) \/ Quit(w)
    PROVE  TasksInv'
<1>. USE DEF TasksInv
<1>1. PICK turning \in {"reporting", "leaving"}, settled \in {"waiting", "done"} :
        /\ setIdle(w, turning, settled)
        /\ m_stopParser[w] \/ (turning = "reporting" /\ settled = "waiting")
  BY DEF TurnIdle, Quit
<1>2. thread[w] \in {"top", "waiting"}
  BY DEF TurnIdle, Quit
<1>3. TypeOK'
  BY <1>1 DEF TypeOK, setIdle, Moves, library, discovery, application
<1>4. \A x \in Worker \ {w} : thread'[x] = thread[x] /\ m_idle'[x] = m_idle[x]
  BY <1>1 DEF TypeOK, setIdle, Moves
<1>5. /\ m_idle'[w]
      /\ m_idle[w] => thread'[w] = settled
      /\ ~m_idle[w] => thread'[w] = turning
  BY <1>1 DEF TypeOK, setIdle, Moves
<1>6. UNCHANGED <<library, m_stopParser, unannounced>>
  BY <1>1 DEF setIdle
<1>7. IdleWithoutThread' /\ EndedWhenTold' /\ EntersBusy'
  BY <1>1, <1>4, <1>5, <1>6 DEF Flags, IdleWithoutThread, EndedWhenTold, EntersBusy
<1>8. SomeoneAsks'
  <2>1. CASE m_idle[w]
    BY <1>2, <1>4, <1>5, <1>6, <2>1 DEF Flags, SomeoneAsks, IsAsking, library
  <2>2. CASE ~m_idle[w]
    BY <1>5, <2>2 DEF SomeoneAsks, IsAsking
  <2>. QED  BY <2>1, <2>2
<1>9. ToldBothFlags'
  BY <1>6 DEF Flags, ToldBothFlags, library
<1>. QED  BY <1>3, <1>7, <1>8, <1>9 DEF Flags

\* The worker only gives up when some flag is down.
LEMMA AskInv ==
    ASSUME TasksInv, NEW w \in Worker, Ask(w)
    PROVE  TasksInv'
<1>. USE DEF TasksInv
<1>. DEFINE v == asked[w]
<1>1. v \in Worker /\ v + 1 \in 0..Workers
  BY DEF Ask, TypeOK, Worker, Workers, Extraction, Analysis, Linking
<1>2. UNCHANGED <<m_idle, m_stopParser, library, unannounced>>
  BY DEF Ask
<1>3. CASE m_idle[v]
  <2>1. asked' = [asked EXCEPT ![w] = @ + 1] /\ UNCHANGED thread
    BY <1>3 DEF Ask
  <2>2. TypeOK'
    BY <1>1, <2>1 DEF Ask, TypeOK, library, discovery, application
  <2>3. Flags'
    BY <1>2, <2>1 DEF Flags, IdleWithoutThread, EndedWhenTold, EntersBusy, SomeoneAsks,
      ToldBothFlags, IsAsking, library
  <2>. QED  BY <2>2, <2>3
<1>4. CASE ~m_idle[v]
  <2>1. Asked(w) /\ IsAsking(w)
    BY <1>4 DEF Ask
  <2>2. TypeOK'
    BY <2>1 DEF Ask, Asked, Moves, TypeOK, Workers, library, discovery, application
  <2>3. \A x \in Worker : x # w => thread'[x] = thread[x]
    BY <2>1 DEF Asked, Moves, TypeOK
  <2>4. \/ thread[w] = "reporting" /\ thread'[w] = "waiting"
        \/ thread[w] = "leaving" /\ thread'[w] = "done"
    BY <2>1 DEF Asked, IsAsking, Moves, TypeOK
  <2>5. IdleWithoutThread' /\ EndedWhenTold' /\ EntersBusy' /\ ToldBothFlags'
    BY <1>2, <2>3, <2>4 DEF Flags, IdleWithoutThread, EndedWhenTold, EntersBusy,
      ToldBothFlags, library
  <2>6. SomeoneAsks'
    BY <1>1, <1>2, <1>4 DEF SomeoneAsks
  <2>. QED  BY <2>2, <2>5, <2>6 DEF Flags
<1>. QED  BY <1>3, <1>4

LEMMA ReportInv ==
    ASSUME TasksInv, NEW w \in Worker, Report(w)
    PROVE  TasksInv'
<1>. USE DEF TasksInv
<1>1. TypeOK'
  <2>1. {m_parserIdle', m_discovererIdle', told'} \subseteq BOOLEAN
    BY DEF TypeOK, Report, onParserIdleChanged
  <2>2. /\ asked' = [asked EXCEPT ![w] = 0]
        /\ \/ thread' = [thread EXCEPT ![w] = "waiting"]
           \/ thread' = [thread EXCEPT ![w] = "done"]
    BY DEF Report, Asked, Moves
  <2>3. UNCHANGED <<m_tasks, m_idle, m_paused, m_stopParser, discovery, application,
                    left, unannounced>>
    BY DEF Report
  <2>. QED  BY <2>1, <2>2, <2>3 DEF TypeOK, Workers, discovery, application
<1>2. ToldBothFlags' /\ m_parserIdle'
  BY DEF TypeOK, Flags, ToldBothFlags, Report, onParserIdleChanged
<1>3. \A x \in Worker : x # w => thread'[x] = thread[x]
  BY DEF Report, Asked, Moves, TypeOK
<1>4. \/ thread[w] = "reporting" /\ thread'[w] = "waiting"
      \/ thread[w] = "leaving" /\ thread'[w] = "done"
  BY DEF Report, Asked, IsAsking, Moves, TypeOK
<1>5. IdleWithoutThread' /\ EndedWhenTold' /\ EntersBusy'
  BY <1>3, <1>4 DEF Flags, IdleWithoutThread, EndedWhenTold, EntersBusy, Report
<1>. QED  BY <1>1, <1>2, <1>5 DEF Flags, SomeoneAsks

LEMMA WakeUpInv ==
    ASSUME TasksInv, NEW w \in Worker, WakeUp(w)
    PROVE  TasksInv'
<1>. USE DEF TasksInv
<1>1. /\ m_tasks' \in [Worker -> Nat] /\ m_idle' \in [Worker -> BOOLEAN]
      /\ ~m_idle'[w]
      /\ \A x \in Worker : x # w => m_idle'[x] = m_idle[x]
  <2>1. m_tasks' \in [Worker -> Nat]
    BY DEF TypeOK, WakeUp, HasWork
  <2>2. m_idle' = [m_idle EXCEPT ![w] = FALSE]
    BY DEF WakeUp, setBusy
  <2>. QED  BY <2>1, <2>2 DEF TypeOK
<1>2. {m_parserIdle', m_discovererIdle', told'} \subseteq BOOLEAN /\ ToldBothFlags'
  BY DEF TypeOK, Flags, ToldBothFlags, WakeUp, setBusy, onParserIdleChanged, library
<1>3. /\ thread' = [thread EXCEPT ![w] = "running"] /\ thread[w] = "waiting"
      /\ UNCHANGED <<m_paused, m_stopParser, asked, discovery, application, left,
                     unannounced>>
  BY DEF WakeUp, Moves
<1>4. TypeOK'
  BY <1>1, <1>2, <1>3 DEF TypeOK, discovery, application
<1>5. IdleWithoutThread' /\ EndedWhenTold' /\ EntersBusy'
  BY <1>1, <1>3 DEF TypeOK, Flags, IdleWithoutThread, EndedWhenTold, EntersBusy
<1>6. SomeoneAsks'
  BY <1>1 DEF SomeoneAsks
<1>. QED  BY <1>2, <1>4, <1>5, <1>6 DEF Flags

-----------------------------------------------------------------------------
(* The discoverer and the application.                                     *)

LEMMA DiscoveryInv ==
    ASSUME TasksInv, DiscoveryBegins \/ Discovery
    PROVE  TasksInv'
<1>. USE DEF TasksInv
<1>1. /\ {m_parserIdle', m_discovererIdle', told'} \subseteq BOOLEAN
      /\ ToldBothFlags' /\ UNCHANGED m_parserIdle
  <2>1. \E idle \in BOOLEAN : onDiscovererIdleChanged(idle)
    BY DEF DiscoveryBegins, Discovery, Discovers
  <2>2. PICK idle \in BOOLEAN : onDiscovererIdleChanged(idle)
    BY <2>1
  <2>. QED
    BY <2>2 DEF TypeOK, Flags, ToldBothFlags, onDiscovererIdleChanged
<1>2. /\ discoverer' \in {"unstarted", "idle", "busy", "held", "stopped"}
      /\ UNCHANGED <<worker, held, application, unannounced>>
  BY DEF DiscoveryBegins, Discovery, Discovers
<1>3. left' \in [{"task", "requeue", "discovery", "call"} -> Nat]
  BY SpendType DEF DiscoveryBegins, Discovery, TypeOK
<1>4. TypeOK'
  BY <1>1, <1>2, <1>3 DEF TypeOK, worker, application
<1>. QED
  BY <1>1, <1>2, <1>4 DEF Flags, IdleWithoutThread, EndedWhenTold, EntersBusy, SomeoneAsks,
    IsAsking, worker

Steps == {"none", "hold", "pause", "await", "flush", "drop", "rescan", "restore",
          "release", "resume", "halt", "signal", "join", "stopped"}

\* The operations leave the flags alone.
LEMMA CallInv ==
    ASSUME TasksInv, NEW operation \in Operations, Call(operation)
    PROVE  TasksInv'
<1>. USE DEF TasksInv
<1>1. at' \in Steps /\ call' \in Operations
  BY DEF Call, First, Operations, Steps
<1>2. left' \in [{"task", "requeue", "discovery", "call"} -> Nat]
  BY SpendType DEF Call, TypeOK
<1>3. UNCHANGED <<worker, library, discovery, upto, unannounced>>
  BY DEF Call
<1>4. TypeOK'
  BY <1>1, <1>2, <1>3 DEF TypeOK, Steps, worker, library, discovery
<1>. QED
  BY <1>3, <1>4 DEF Flags, IdleWithoutThread, EndedWhenTold, EntersBusy, SomeoneAsks,
    ToldBothFlags, IsAsking, worker, library

LEMMA EachType ==
    ASSUME TypeOK, NEW step, NEW next \in Steps, Each(step, next)
    PROVE  /\ upto \in Worker /\ upto' \in Worker
           /\ at' \in Steps /\ call' \in Operations \cup {"none"}
           /\ UNCHANGED <<library, discovery, left, unannounced>>
BY DEF Each, Goes, TypeOK, Steps, Worker, Workers, Extraction, Analysis, Linking

\* The steps that go from worker to worker.
LEMMA EachInv ==
    ASSUME TasksInv, Pause \/ Flush \/ Resume \/ signalStop \/ Join
    PROVE  TasksInv'
<1>. USE DEF TasksInv
<1>1. /\ upto \in Worker /\ upto' \in Worker
      /\ at' \in Steps /\ call' \in Operations \cup {"none"}
      /\ UNCHANGED <<library, discovery, left, unannounced>>
  <2>1. \E step, next : next \in Steps /\ Each(step, next)
    BY DEF Pause, Flush, Resume, signalStop, Join, Steps
  <2>. QED  BY <2>1, EachType
<1>2. /\ m_tasks' \in [Worker -> Nat] /\ m_paused' \in [Worker -> BOOLEAN]
      /\ m_stopParser' \in [Worker -> BOOLEAN]
  <2>1. m_tasks' \in [Worker -> Nat]
    BY <1>1 DEF TypeOK, Pause, Flush, Resume, signalStop, Join
  <2>2. m_paused' \in [Worker -> BOOLEAN]
    BY <1>1 DEF TypeOK, Pause, Flush, Resume, signalStop, Join
  <2>3. m_stopParser' \in [Worker -> BOOLEAN]
    BY <1>1 DEF TypeOK, Pause, Flush, Resume, signalStop, Join
  <2>. QED  BY <2>1, <2>2, <2>3
<1>3. /\ thread' \in [Worker -> ThreadState] /\ UNCHANGED <<m_idle, asked>>
      /\ \A x \in Worker : \/ thread'[x] = thread[x]
                           \/ thread[x] = "done" /\ thread'[x] = "joined"
  BY <1>1 DEF TypeOK, ThreadState, Pause, Flush, Resume, signalStop, Join
<1>4. \A x \in Worker : m_stopParser[x] => m_stopParser'[x]
  BY <1>1 DEF TypeOK, Pause, Flush, Resume, signalStop, Join
<1>5. TypeOK'
  BY <1>1, <1>2, <1>3 DEF TypeOK, Steps, ThreadState, library, discovery
<1>6. IdleWithoutThread' /\ EndedWhenTold' /\ EntersBusy'
  BY <1>1, <1>3, <1>4 DEF Flags, IdleWithoutThread, EndedWhenTold, EntersBusy
<1>7. SomeoneAsks' /\ ToldBothFlags'
  BY <1>1, <1>3 DEF Flags, SomeoneAsks, ToldBothFlags, IsAsking, library
<1>. QED  BY <1>5, <1>6, <1>7 DEF Flags

LEMMA OnceInv ==
    ASSUME TasksInv,
           \/ Hold \/ waitForBackgroundTasksIdle \/ Recreate \/ Restore \/ Release
           \/ Halt
    PROVE  TasksInv'
<1>. USE DEF TasksInv
<1>1. /\ UNCHANGED <<worker, library, upto, left, unannounced>>
      /\ at' \in Steps /\ call' \in Operations \cup {"none"}
  BY DEF Hold, waitForBackgroundTasksIdle, Recreate, Restore, Release, Halt, Goes, Steps,
    TypeOK
<1>2. /\ discoverer' \in {"unstarted", "idle", "busy", "held", "stopped"}
      /\ held' \in BOOLEAN
  BY DEF Hold, waitForBackgroundTasksIdle, Recreate, Restore, Release, Halt, discovery,
    TypeOK
<1>3. TypeOK'
  BY <1>1, <1>2 DEF TypeOK, Steps, worker, library
<1>. QED
  BY <1>1, <1>3 DEF Flags, IdleWithoutThread, EndedWhenTold, EntersBusy, SomeoneAsks,
    ToldBothFlags, IsAsking, worker, library

-----------------------------------------------------------------------------
LEMMA InitInv == Init => TasksInv
<1>. SUFFICES ASSUME Init PROVE TasksInv
  OBVIOUS
<1>1. TypeOK
  <2>1. m_tasks \in [Worker -> Nat] /\ asked \in [Worker -> 0..Workers]
    BY DEF Init, Workers
  <2>2. m_idle \in [Worker -> BOOLEAN]
    BY DEF Init
  <2>3. m_paused \in [Worker -> BOOLEAN] /\ m_stopParser \in [Worker -> BOOLEAN]
    BY DEF Init
  <2>4. thread \in [Worker -> ThreadState]
    BY DEF Init, ThreadState
  <2>5. left \in [{"task", "requeue", "discovery", "call"} -> Nat]
    BY BackgroundAssumption DEF Init
  <2>6. upto \in Worker
    BY DEF Init, Worker, Extraction
  <2>7. m_parserIdle \in BOOLEAN /\ m_discovererIdle \in BOOLEAN /\ told \in BOOLEAN
    BY DEF Init
  <2>8. held \in BOOLEAN /\ unannounced \subseteq Worker
    BY DEF Init
  <2>. QED
    BY <2>1, <2>2, <2>3, <2>4, <2>5, <2>6, <2>7, <2>8 DEF Init, TypeOK, ThreadState
<1>2. Flags
  BY DEF Init, Flags, IdleWithoutThread, EndedWhenTold, EntersBusy, SomeoneAsks,
    ToldBothFlags
<1>. QED  BY <1>1, <1>2 DEF TasksInv

LEMMA StepInv == TasksInv /\ [Next]_vars => TasksInv'
<1>. SUFFICES ASSUME TasksInv, [Next]_vars PROVE TasksInv'
  OBVIOUS
<1>1. CASE \E w \in Worker : Work(w)
  BY <1>1, EnterInv, TakeInv, TurnIdleInv, AskInv, ReportInv, WakeUpInv, EndInv,
    ParseCallers DEF Work
<1>2. CASE Requeue \/ Spawn \/ Add
  BY <1>2, ParseCallers
<1>3. CASE DiscoveryBegins \/ Discovery
  BY <1>3, DiscoveryInv
<1>4. CASE \E operation \in Operations : Call(operation)
  BY <1>4, CallInv
<1>5. CASE GoesOn
  BY <1>5, EachInv, OnceInv DEF GoesOn
<1>6. CASE UNCHANGED vars
  BY <1>6 DEF TasksInv, TypeOK, Flags, IdleWithoutThread, EndedWhenTold, EntersBusy,
    SomeoneAsks, ToldBothFlags, IsAsking, vars, worker, library, discovery, application
<1>. QED  BY <1>1, <1>2, <1>3, <1>4, <1>5, <1>6 DEF Next, Rest

\* Types, among them that no queue is taken from when it is empty.
THEOREM TasksTypeCorrect == Spec => []TypeOK
<1>1. TasksInv => TypeOK
  BY DEF TasksInv
<1>. QED  BY InitInv, StepInv, <1>1, PTL DEF Spec

\* In whatever order the workers and the discoverer report, the last callback agrees
\* with both flags (onParserIdleChanged(), onDiscovererIdleChanged()).
THEOREM CallbackTellsBothFlags == Spec => []ToldBothFlags
<1>1. TasksInv => ToldBothFlags
  BY DEF TasksInv, Flags
<1>. QED  BY InitInv, StepInv, <1>1, PTL DEF Spec

\* Parser::onIdleChanged() reads the flags one by one while they change: the last
\* worker to turn idle reports it all the same.
THEOREM LastWorkerReports == Spec => []IdlenessIsReported
<1>1. TasksInv => IdlenessIsReported
  <2>. SUFFICES ASSUME TasksInv, AtRest, unannounced = {},
                       \A w \in Worker : ~Overtaken(w) /\ ~m_stopParser[w]
                PROVE  m_parserIdle
    BY DEF IdlenessIsReported
  <2>1. \A w \in Worker : thread[w] \in {"unstarted", "waiting"}
    BY DEF AtRest, TasksInv, Flags, EndedWhenTold
  <2>2. \A w \in Worker : m_idle[w]
    BY <2>1 DEF AtRest, Overtaken, TasksInv, Flags, IdleWithoutThread
  <2>3. \A w \in Worker : ~IsAsking(w)
    BY <2>1 DEF IsAsking
  <2>. QED  BY <2>2, <2>3 DEF TasksInv, Flags, SomeoneAsks
<1>. QED  BY InitInv, StepInv, <1>1, PTL DEF Spec

=============================================================================
