------------------------ MODULE ModificationNotifier ------------------------
(***************************************************************************)
(* The thread that batches entity changes and tells the application about  *)
(* them (src/utils/ModificationsNotifier.{h,cpp}).  Any thread may post a  *)
(* change to a queue; the notifier thread sends a queue's content BatchDelay*)
(* after the first change, or at once when flush() asks for it.            *)
(*                                                                         *)
(* A deadline is the time left before it (0 once it is due): Tick moves    *)
(* all of them.  m_lock protects m_flushing, m_stop and the two condition  *)
(* variables; the queues have their own locks, and m_wakeUpScheduled is an *)
(* atomic that is set and signalled WITHOUT m_lock.                        *)
(***************************************************************************)
EXTENDS Naturals, Sequences, FiniteSets, Functions

CONSTANTS EntityQueue,   \* the queues of media, artists, albums, ..., as a
                         \* sequence, in the order run() handles them
          Id,            \* the changes of one kind in an entity's table: two changes of
                         \* a row are two elements, but for those that a std::set of
                         \* the queue merges
          BatchDelay,    \* in ticks
          NoTimeout,     \* ZeroTimeout
          MaxPosted      \* bound: changes posted in a behaviour

ASSUME NotifierAssumption ==
    /\ EntityQueue \in Seq(STRING)
    /\ BatchDelay \in Nat \ {0}
    /\ NoTimeout \notin Nat
    /\ MaxPosted \in Nat

\* The two queues that carry ids only (Queue<void>).
Cleanup == "thumbnailsCleanupRequests"
NewMedia == "subscriptionsMedia"

Queue == Range(EntityQueue) \cup {Cleanup, NewMedia}

\* Mutant: run() forgets to check the cleanup requests too.
CheckedEntities == EntityQueue

\* The queues run() checks.  They are checked under the lock: in which order does
\* not matter.
Checked == Append(EntityQueue, Cleanup)

\* Mutant: the removals of a batch are sent first.
RemovalsFirst == <<"removed", "added", "modified">>

\* In the order notify() hands the parts of a batch to the application.
Kind == <<"added", "modified", "removed">>

Change == Queue \X Range(Kind) \X Id

\* A queue<void> only has a "removed" part.
IsPostable(e) == e[1] \in {Cleanup, NewMedia} => e[2] = "removed"

VARIABLES
    (* shared *)
    content,            \* the changes that wait in each queue
    deadline,           \* Queue::timeout
    m_wakeUpScheduled,
    m_flushing,
    m_stop,
    (* the notifier thread *)
    pc,
    signalled,          \* m_cond was notified while the thread was blocked
    timeout,
    nextTimeout,
    flushing,           \* its copy of m_flushing
    due,                \* the queues whose deadline had passed at "now"
    todo,               \* the queues still to be checked in this round
    out,                \* the changes it took and has not sent yet
    (* the thread in flush(), and observations *)
    flusher,            \* "quiet"/"busy": in flush(), called while the notifier
                        \* thread was waiting/handling a batch
    owed,               \* what was queued and not sent when flush() started
    posted, sent,       \* history
    ahead               \* which changes that wait were posted ahead of which

notifierThread == <<pc, signalled, timeout, nextTimeout, flushing, due, todo, out>>
observed == <<flusher, owed, ahead>>
notifierVars == <<content, deadline, m_wakeUpScheduled, m_flushing, m_stop, notifierThread,
                  observed, posted, sent>>

Timeouts == {NoTimeout} \cup 0..BatchDelay

NotifierInit ==
    /\ content = [q \in Queue |-> {}]
    /\ deadline = [q \in Queue |-> NoTimeout]
    /\ m_wakeUpScheduled = FALSE
    /\ m_flushing = FALSE
    /\ m_stop = FALSE
    /\ pc = "loop"
    /\ signalled = FALSE
    /\ timeout = NoTimeout
    /\ nextTimeout = NoTimeout
    /\ flushing = FALSE
    /\ due = {}
    /\ todo = <<>>
    /\ out = {}
    /\ flusher = "idle"
    /\ owed = {}
    /\ posted = {}
    /\ sent = {}
    /\ ahead = {}

-----------------------------------------------------------------------------
(* Time.                                                                   *)

Earlier(d) == IF d \in Nat /\ d > 0 THEN d - 1 ELSE d

Tick ==
    /\ deadline' = [q \in Queue |-> Earlier(deadline[q])]
    /\ timeout' = Earlier(timeout)
    /\ nextTimeout' = Earlier(nextTimeout)
    /\ <<deadline', timeout', nextTimeout'>> # <<deadline, timeout, nextTimeout>>
    /\ UNCHANGED <<content, m_wakeUpScheduled, m_flushing, m_stop, pc,
                   signalled, flushing, due, todo, out, observed, posted, sent>>

-----------------------------------------------------------------------------
(* notifyCreation, notifyModification, notifyRemoval, on any thread.       *)

\* notify() hands the part of a batch that holds d no later than the one that holds e.
Precedes(d, e) == d[1] = e[1] /\ (d[2] = e[2] \/ d[2] = "added" \/ e[2] = "removed")

\* m_cond.notify_all(): nothing happens unless the thread is blocked.
NotifyThread == signalled' = (signalled \/ pc = "blocked")

updateTimeout(q) ==
    /\ deadline' = [deadline EXCEPT ![q] = IF @ = NoTimeout THEN BatchDelay ELSE @]
    /\ m_wakeUpScheduled' = TRUE
    /\ IF m_wakeUpScheduled THEN UNCHANGED signalled ELSE NotifyThread

\* Hooks post updates and deletions inside a transaction, the callers post creations after
\* it: the changes of a row come in any order.
Post(e) ==
    /\ ~m_stop
    /\ IsPostable(e) /\ e \notin posted
    /\ Cardinality(posted) < MaxPosted
    /\ content' = [content EXCEPT ![e[1]] = @ \cup {e}]
    /\ updateTimeout(e[1])
    /\ posted' = posted \cup {e}
    /\ ahead' = ahead \cup {<<d, e>> : d \in {d \in posted \ sent : Precedes(d, e)}}
    /\ UNCHANGED <<m_flushing, m_stop, pc, timeout, nextTimeout, flushing, due,
                   todo, out, flusher, owed, sent>>

-----------------------------------------------------------------------------
(* flush() and the destructor, which take m_lock.  MediaLibrary calls      *)
(* flush() under its own mutex, so there is one at a time.                 *)

m_lockIsFree == pc # "blocking"

RequestFlush ==
    /\ flusher = "idle" /\ ~m_stop /\ m_lockIsFree
    /\ m_flushing' = TRUE
    /\ NotifyThread
    /\ flusher' = IF pc \in {"wait", "blocked", "wait_until"} THEN "quiet"
                  ELSE "busy"
    /\ owed' = {e \in posted \ sent : e[1] # NewMedia}
    /\ UNCHANGED <<content, deadline, m_wakeUpScheduled, m_stop, pc, timeout,
                   nextTimeout, flushing, due, todo, out, posted, sent, ahead>>

FlushReturns ==
    /\ flusher # "idle" /\ ~m_flushing /\ m_lockIsFree
    /\ flusher' = "idle"
    /\ owed' = {}
    /\ UNCHANGED <<content, deadline, m_wakeUpScheduled, m_flushing, m_stop,
                   notifierThread, posted, sent, ahead>>

Stop ==
    /\ flusher = "idle" /\ ~m_stop /\ m_lockIsFree
    /\ m_stop' = TRUE
    /\ NotifyThread
    /\ UNCHANGED <<content, deadline, m_wakeUpScheduled, m_flushing, pc, timeout,
                   nextTimeout, flushing, due, todo, out, observed, posted, sent>>

-----------------------------------------------------------------------------
(* run(): the first wait, for something to do.  The predicate is evaluated *)
(* under m_lock, and so is what follows, but Post does not care.           *)

Loop ==
    /\ pc = "loop"
    /\ m_flushing' = FALSE
    /\ pc' = IF m_stop THEN "done"
             ELSE IF timeout = NoTimeout THEN "wait" ELSE "wait_until"
    /\ UNCHANGED <<content, deadline, m_wakeUpScheduled, m_stop, signalled,
                   timeout, nextTimeout, flushing, due, todo, out, observed,
                   posted, sent>>

\* Mutant: the first wait does not look at m_stop.
WaitIgnoringStop == m_wakeUpScheduled \/ m_flushing

WaitPredicate == m_wakeUpScheduled \/ m_stop \/ m_flushing

\* The predicate is true: consume the request for a wake-up, if any.
Wait ==
    /\ pc = "wait" /\ WaitPredicate
    /\ m_wakeUpScheduled' = FALSE
    /\ timeout' = IF m_wakeUpScheduled THEN BatchDelay ELSE timeout
    /\ pc' = "wait_until"
    /\ UNCHANGED <<content, deadline, m_flushing, m_stop, signalled, nextTimeout,
                   flushing, due, todo, out, observed, posted, sent>>

\* The predicate is false: the thread still has to go to sleep.
WaitIsFalse ==
    /\ pc = "wait" /\ ~WaitPredicate
    /\ pc' = "blocking"
    /\ UNCHANGED <<content, deadline, m_wakeUpScheduled, m_flushing, m_stop,
                   signalled, timeout, nextTimeout, flushing, due, todo, out,
                   observed, posted, sent>>

Block ==
    /\ pc = "blocking"
    /\ pc' = "blocked"
    /\ UNCHANGED <<content, deadline, m_wakeUpScheduled, m_flushing, m_stop,
                   signalled, timeout, nextTimeout, flushing, due, todo, out,
                   observed, posted, sent>>

WokenUp ==
    /\ pc = "blocked" /\ signalled
    /\ signalled' = FALSE
    /\ pc' = "wait"
    /\ UNCHANGED <<content, deadline, m_wakeUpScheduled, m_flushing, m_stop,
                   timeout, nextTimeout, flushing, due, todo, out, observed,
                   posted, sent>>

-----------------------------------------------------------------------------
(* run(): the second wait, for the deadline, a flush or the end; then one  *)
(* pass over the queues, each under its own lock.                          *)

WaitUntil ==
    /\ pc = "wait_until"
    /\ timeout \in {NoTimeout, 0} \/ m_stop \/ m_flushing
    /\ IF m_stop
       THEN /\ pc' = "done"
            /\ UNCHANGED <<flushing, due, nextTimeout, todo>>
       ELSE /\ pc' = "check"
            /\ flushing' = m_flushing
            /\ due' = {q \in Queue : deadline[q] = 0}
            /\ nextTimeout' = NoTimeout
            /\ todo' = Checked
    /\ UNCHANGED <<content, deadline, m_wakeUpScheduled, m_flushing, m_stop,
                   signalled, timeout, out, observed, posted, sent>>

\* NoTimeout is no deadline at all, whichever side it is on.
Sooner(a, b) == IF b # NoTimeout /\ (a = NoTimeout \/ b < a) THEN b ELSE a

\* A queue that is not due keeps its content; without a deadline it does not
\* count for the next one either.
Postpone(q) ==
    /\ nextTimeout' = Sooner(nextTimeout, deadline[q])
    /\ UNCHANGED <<content, deadline, out>>

\* Mutant: the queue's content is copied, not swapped.
checkQueueCopying(q) ==
    IF q \in due \/ (flushing /\ deadline[q] # NoTimeout)
    THEN /\ out' = out \cup content[q]
         /\ deadline' = [deadline EXCEPT ![q] = NoTimeout]
         /\ UNCHANGED <<content, nextTimeout>>
    ELSE Postpone(q)

\* Mutant: a flush waits for the deadline as everybody does.
checkQueueNotFlushing(q) ==
    IF q \in due
    THEN /\ out' = out \cup content[q]
         /\ content' = [content EXCEPT ![q] = {}]
         /\ deadline' = [deadline EXCEPT ![q] = NoTimeout]
         /\ UNCHANGED nextTimeout
    ELSE Postpone(q)

checkQueue(q) ==
    IF q \in due \/ (flushing /\ deadline[q] # NoTimeout)
    THEN /\ out' = out \cup content[q]
         /\ content' = [content EXCEPT ![q] = {}]
         /\ deadline' = [deadline EXCEPT ![q] = NoTimeout]
         /\ UNCHANGED nextTimeout
    ELSE Postpone(q)

Check ==
    /\ pc = "check" /\ todo # <<>>
    /\ checkQueue(Head(todo))
    /\ todo' = Tail(todo)
    /\ UNCHANGED <<m_wakeUpScheduled, m_flushing, m_stop, pc, signalled, timeout,
                   flushing, due, observed, posted, sent>>

Checks ==
    /\ pc = "check" /\ todo = <<>>
    /\ timeout' = nextTimeout
    /\ nextTimeout' = NoTimeout
    /\ due' = {} /\ flushing' = FALSE
    /\ pc' = "notify"
    /\ UNCHANGED <<content, deadline, m_wakeUpScheduled, m_flushing, m_stop,
                   signalled, todo, out, observed, posted, sent>>

-----------------------------------------------------------------------------
(* run(): one callback at a time, queue by queue; the thumbnail cleanup    *)
(* requests come last and become a single request to the thumbnailer.      *)

Notified == EntityQueue \o <<NewMedia, Cleanup>>

Batch(q, k) == {e \in out : e[1] = q /\ e[2] = k}

\* The first batch, in the order of the queues, then of the kinds.
IsNext(i, j) ==
    /\ Batch(Notified[i], Kind[j]) # {}
    /\ \A a \in 1..Len(Notified), b \in 1..Len(Kind) :
         (a < i \/ (a = i /\ b < j)) => Batch(Notified[a], Kind[b]) = {}

notify ==
    /\ pc = "notify" /\ out # {}
    /\ \E i \in 1..Len(Notified), j \in 1..Len(Kind) :
         /\ IsNext(i, j)
         /\ LET batch == Batch(Notified[i], Kind[j]) IN
            /\ out' = out \ batch
            /\ sent' = sent \cup batch
    /\ owed' = owed \ sent'
    /\ ahead' = {p \in ahead : p[1] \notin sent'}
    /\ UNCHANGED <<content, deadline, m_wakeUpScheduled, m_flushing, m_stop, pc,
                   signalled, timeout, nextTimeout, flushing, due, todo, flusher,
                   posted>>

AllNotified ==
    /\ pc = "notify" /\ out = {}
    /\ pc' = "loop"
    /\ UNCHANGED <<content, deadline, m_wakeUpScheduled, m_flushing, m_stop,
                   signalled, timeout, nextTimeout, flushing, due, todo, out,
                   observed, posted, sent>>

-----------------------------------------------------------------------------
Run == \/ Loop \/ Wait \/ WaitIsFalse \/ Block \/ WokenUp
       \/ WaitUntil \/ Check \/ Checks \/ notify \/ AllNotified

\* Once the thread has ended there is nothing left to do.
Ended == pc = "done" /\ UNCHANGED notifierVars

NotifierNext == \/ Run \/ Tick \/ RequestFlush \/ FlushReturns \/ Stop \/ Ended
                \/ \E e \in Change : Post(e)

NotifierSpec == NotifierInit /\ [][NotifierNext]_notifierVars

\* The thread is scheduled, time passes, a woken flush() runs.  Nothing forces
\* the application to change anything, to flush or to stop.
FairNotifierSpec ==
    /\ NotifierSpec
    /\ WF_notifierVars(Run) /\ WF_notifierVars(Tick) /\ WF_notifierVars(FlushReturns)

-----------------------------------------------------------------------------
(* Properties.                                                             *)

NotifierTypeOK ==
    /\ content \in [Queue -> SUBSET Change]
    /\ deadline \in [Queue -> Timeouts]
    /\ m_wakeUpScheduled \in BOOLEAN /\ m_flushing \in BOOLEAN
    /\ m_stop \in BOOLEAN /\ signalled \in BOOLEAN /\ flushing \in BOOLEAN
    /\ pc \in {"loop", "wait", "blocking", "blocked", "wait_until", "check",
               "notify", "done"}
    /\ timeout \in Timeouts /\ nextTimeout \in Timeouts
    /\ due \subseteq Queue /\ todo \in Seq(Queue)
    /\ out \subseteq Change /\ posted \subseteq Change /\ sent \subseteq Change
    /\ owed \subseteq Change /\ ahead \subseteq Change \X Change
    /\ flusher \in {"idle", "quiet", "busy"}

Queued == UNION {content[q] : q \in Queue}

\* Swapping the queues with the thread's own copies neither loses nor repeats
\* a change: what was posted is in exactly one of the queues, the batch being
\* sent, or the callbacks already made.
ExactlyOnce ==
    /\ posted = Queued \cup out \cup sent
    /\ Queued \cap out = {} /\ Queued \cap sent = {} /\ out \cap sent = {}

\* A queue that holds something has a deadline, one that does not has none:
\* checkQueue() ignores a queue without deadline.
DeadlineIffContent ==
    \A q \in Queue : content[q] # {} <=> deadline[q] # NoTimeout

\* No change overtakes one that was posted ahead of it, if their parts of a batch are
\* handed over in that order: a creation that was posted before a removal, or a
\* modification before another one, is told before it or with it, though queues are
\* swapped out one by one while others post.
CallbacksInOrder ==
    [][\A p \in ahead : p[2] \in sent' => p[1] \in sent']_notifierVars

\* flush() always returns.
FlushTerminates == (flusher # "idle") ~> (flusher = "idle")

\* The destructor's join() returns.
StopTerminates == m_stop ~> (pc = "done")

\* A flush() called while the notifier thread is waiting is complete: what was
\* posted before the call has been sent when it returns.
QuietFlushIsComplete ==
    [][FlushReturns /\ flusher = "quiet" => owed = {}]_notifierVars

SurfacesIn(qs) ==
    \A e \in Change : (e[1] \in qs /\ e \in posted) ~> (e \in sent \/ m_stop)

\* As long as the library keeps going idle, which flushes the queues, every change
\* reaches the application.
IdlingSurfacesChanges == WF_notifierVars(RequestFlush) => SurfacesIn(Queue \ {NewMedia})

-----------------------------------------------------------------------------
(* What the documentation promises and TLC refutes (see README.md).        *)

\* A change posted to a queue is sent within the delay, without any flush: "If
\* no wake up was already expected, we need to enforce a timeout refresh from
\* the notifier thread.  Otherwise, the next event is guaranteed to happen
\* before the one we're currently scheduling" (ModificationsNotifier.h).
ChangesSurface == SurfacesIn(Queue \ {NewMedia})

\* "The function will return once all queues are flushed and notifications are
\* sent" (ModificationsNotifier.h), whatever the thread was doing.
FlushIsComplete == [][FlushReturns => owed = {}]_notifierVars

\* "onSubscriptionNewMedia will be invoked when some media are added to one or
\* more subscription(s)" (IMediaLibrary.h).
NewMediaSurface == WF_notifierVars(RequestFlush) => SurfacesIn({NewMedia})

=============================================================================
