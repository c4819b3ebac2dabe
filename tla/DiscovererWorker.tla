-------------------------- MODULE DiscovererWorker --------------------------
(***************************************************************************)
(* The discoverer thread and its task list (src/discoverer/                *)
(* DiscovererWorker.{h,cpp}), down to the calls it makes to the FsDiscoverer*)
(* and to the folders' table.  Application threads enqueue requests; the   *)
(* worker pops one task at a time.  A Reload is long: a shorter request    *)
(* interrupts it, goes before it, and the Reload is queued again.          *)
(*                                                                         *)
(* A root folder stands for its tree: it is scanned in one step, between   *)
(* the checks of m_isInterrupted and m_paused.  The directories stay on    *)
(* the disk; those of Removable roots may be out of reach at any time.     *)
(***************************************************************************)
EXTENDS Naturals, Sequences, FiniteSets, SequencesExt

CONSTANTS Root,        \* the mrl of root folders
          Removable,   \* the roots on a removable (or network) device
          All,         \* the empty mrl: reload every root
          Parent,      \* the parent directory of the roots, not a root itself
          Device,      \* the device of the Removable roots
          NoTask,
          Request,     \* the calls the application makes
          MaxRequests  \* bound: calls made in a behaviour

Requests == {"discover", "remove", "reload", "reloadAll", "ban", "unban",
             "reloadDevice", "pause", "stop"}

Path == Root \cup {All, Parent}
Short == {"Remove", "Ban", "Unban", "ReloadDevice", "AddRoot"}
Task == [root : Path \cup {Device}, type : Short \cup {"Reload"}]

ASSUME DiscovererAssumption ==
    /\ Removable \subseteq Root
    /\ Cardinality({All, Parent, Device}) = 3
    /\ {All, Parent, Device} \cap Root = {}
    /\ NoTask \notin Task
    /\ Request \subseteq Requests
    /\ MaxRequests \in Nat

isLongRunning(t) == t.type = "Reload"

VARIABLES
    (* protected by m_mutex *)
    m_tasks, m_currentTask, m_run,
    (* the discoverer's flags *)
    m_isInterrupted, m_paused,
    (* the worker thread *)
    pc,
    m_discoveryNotified,
    needTaskRefresh,
    batch,              \* the roots the running FsDiscoverer::reload has left
    onDevice,           \* the roots runReloadDevice has left
    (* elsewhere *)
    folders,            \* the folders' table, for each root
    m_discovererIdle,   \* MediaLibrary's view of the thread
    (* the callers, and observations *)
    discovering,        \* the roots of the discover() calls between their two
                        \* enqueue() calls
    requests,           \* calls made
    wish,               \* the last request about a root that was not refused
    due,                \* a scan was asked for after the last one of the root
    contested,          \* the roots whose removal or unban was asked for
    held                \* pause() was called and resume() was not since

worker == <<pc, m_discoveryNotified, needTaskRefresh, batch, onDevice>>
callers == <<discovering, requests, wish, due, contested, held>>
vars == <<m_tasks, m_currentTask, m_run, m_isInterrupted, m_paused, worker,
          folders, m_discovererIdle, callers>>

Init ==
    /\ m_tasks = <<>> /\ m_currentTask = NoTask /\ m_run = FALSE
    /\ m_isInterrupted = FALSE /\ m_paused = FALSE
    /\ pc = "unstarted"
    /\ m_discoveryNotified = FALSE /\ needTaskRefresh = FALSE
    /\ batch = {} /\ onDevice = {}
    /\ folders \in [Root -> {"absent", "root", "banned"}]
    /\ m_discovererIdle = TRUE
    /\ discovering = {} /\ requests = 0
    /\ wish = [r \in Root |-> "none"] /\ due = [r \in Root |-> FALSE]
    /\ contested = {} /\ held = FALSE

-----------------------------------------------------------------------------
(* filter(): what a new task does to the tasks that wait.                  *)

\* The types of the queued tasks that a new one of the same root erases.  A root
\* never has two queued Ban tasks, so Unban erases the first it finds.
Cancels(type) ==
    CASE type = "AddRoot" -> {"Remove", "Reload"}
      [] type = "Remove" -> {"AddRoot", "Reload"}
      [] type = "Ban" -> {"AddRoot", "Reload", "Unban"}
      [] type = "Unban" -> {"Ban"}
      [] OTHER -> {}

\* The types that make a new task of the same root redundant.
MadeRedundantBy(type) ==
    CASE type = "Reload" -> {"Reload", "Remove", "Ban"}
      [] type = "Unban" -> {}
      [] OTHER -> {type}

\* The position of the task that stops the search, past the end if there is none.
Redundant(t) ==
    LET found == SelectInSeq(m_tasks, LAMBDA u :
                     u.root = t.root /\ u.type \in MadeRedundantBy(t.type))
    IN  IF found = 0 THEN Len(m_tasks) + 1 ELSE found

IsCancelled(t, u) == u.root = t.root /\ u.type \in Cancels(t.type)

\* What is left of the first n tasks, one after the other.
Spared(t, n) ==
    LET spared[i \in 0..n] ==
            IF i = 0 THEN <<>>
            ELSE IF IsCancelled(t, m_tasks[i]) THEN spared[i - 1]
            ELSE Append(spared[i - 1], m_tasks[i])
    IN  spared[n]

\* What filter() leaves of the list: it erases as it goes, until it stops.
Filtered(t) ==
    LET k == Redundant(t)
    IN  Spared(t, k - 1) \o SubSeq(m_tasks, k, Len(m_tasks))

\* Mutant: a Ban that erased something is dropped too.
FilteredOutBan(t) ==
    \/ Redundant(t) <= Len(m_tasks)
    \/ t.type \in {"Remove", "Unban", "Ban"} /\ Len(Filtered(t)) < Len(m_tasks)

\* filter() returns true.
FilteredOut(t) ==
    \/ Redundant(t) <= Len(m_tasks)
    \/ t.type \in {"Remove", "Unban"} /\ Len(Filtered(t)) < Len(m_tasks)

-----------------------------------------------------------------------------
(* enqueue(), under m_mutex.                                               *)

Interrupts(t) ==
    /\ ~isLongRunning(t)
    /\ m_currentTask # NoTask /\ isLongRunning(m_currentTask)

\* Mutant: the interrupted Reload is forgotten.
NotRequeued(t) == <<>>

\* The interrupted Reload, unless t is about to make it pointless.
Requeued(t) ==
    IF \/ ~Interrupts(t)
       \/ t.type \in {"Ban", "Remove"} /\ t.root = m_currentTask.root
    THEN <<>> ELSE <<[root |-> m_currentTask.root, type |-> "Reload"]>>

\* Mutant: the short task is queued last.
QueuedLast(t, tasks) == tasks \o Requeued(t) \o <<t>>

\* A Reload goes last, the others go before the first Reload.
Queued(t, tasks) ==
    LET long == SelectInSeq(tasks, isLongRunning)
        first == IF long = 0 THEN Len(tasks) + 1 ELSE long
    IN  IF isLongRunning(t) THEN Append(tasks, t)
        ELSE SubSeq(tasks, 1, first - 1) \o <<t>> \o Requeued(t)
                 \o SubSeq(tasks, first, Len(tasks))

enqueue(root, type) ==
    LET t == [root |-> root, type |-> type]
    IN  IF FilteredOut(t)
        THEN /\ m_tasks' = Filtered(t)
             /\ UNCHANGED m_isInterrupted
        ELSE /\ m_tasks' = Queued(t, Filtered(t))
             /\ m_isInterrupted' = (m_isInterrupted \/ Interrupts(t))

-----------------------------------------------------------------------------
(* The calls of the application.  The first one starts the thread; none    *)
(* follows stop(), which is called by MediaLibrary's destructor.           *)

Calls(name) ==
    /\ name \in Request
    /\ requests < MaxRequests
    /\ requests' = requests + 1
    /\ m_run \/ pc = "unstarted"

Ask(root, type) ==
    /\ enqueue(root, type)
    /\ m_run' = (m_run \/ pc = "unstarted")
    /\ pc' = IF pc = "unstarted" THEN "starting" ELSE pc
    /\ UNCHANGED <<m_currentTask, m_paused, m_discoveryNotified,
                   needTaskRefresh, batch, onDevice, folders, m_discovererIdle,
                   held>>

Wish(r, what) == wish' = [wish EXCEPT ![r] = what]

discover(r) ==
    /\ Calls("discover") /\ r \notin discovering
    /\ Ask(r, "AddRoot")
    /\ discovering' = discovering \cup {r}
    /\ Wish(r, "AddRoot")
    /\ due' = [due EXCEPT ![r] = TRUE]
    /\ UNCHANGED contested

\* The second enqueue() of discover(): another thread may have come between.
discoverReloads(r) ==
    /\ r \in discovering
    /\ Ask(r, "Reload")
    /\ discovering' = discovering \ {r}
    /\ UNCHANGED <<requests, wish, due, contested>>

remove(r) ==
    /\ Calls("remove")
    /\ Ask(r, "Remove")
    /\ Wish(r, "Remove")
    /\ contested' = contested \cup {r}
    /\ UNCHANGED <<discovering, due>>

ban(r) ==
    /\ Calls("ban")
    /\ Ask(r, "Ban")
    /\ Wish(r, "Ban")
    /\ UNCHANGED <<discovering, due, contested>>

unban(r) ==
    /\ Calls("unban")
    /\ Ask(r, "Unban")
    /\ Wish(r, "Unban")
    /\ contested' = contested \cup {r}
    /\ UNCHANGED <<discovering, due>>

reload(r) ==
    /\ Calls("reload")
    /\ Ask(r, "Reload")
    /\ due' = [due EXCEPT ![r] = TRUE]
    /\ UNCHANGED <<discovering, wish, contested>>

IsKnown(r) == folders[r] = "root"

reloadAll ==
    /\ Calls("reloadAll")
    /\ Ask(All, "Reload")
    /\ due' = [r \in Root |-> due[r] \/ IsKnown(r)]
    /\ UNCHANGED <<discovering, wish, contested>>

\* onDeviceReappearing, on the thread of a device lister.
reloadDevice ==
    /\ Calls("reloadDevice")
    /\ Ask(Device, "ReloadDevice")
    /\ due' = [r \in Root |-> due[r] \/ (r \in Removable /\ IsKnown(r))]
    /\ UNCHANGED <<discovering, wish, contested>>

\* pause() returns early when the thread does not run, started or not.
pause ==
    /\ Calls("pause") /\ ~held
    /\ held' = TRUE
    /\ m_paused' = (m_paused \/ m_run)
    /\ UNCHANGED <<m_tasks, m_currentTask, m_run, m_isInterrupted, worker,
                   folders, m_discovererIdle, discovering, wish, due,
                   contested>>

\* So does resume().
resume ==
    /\ held
    /\ held' = FALSE
    /\ m_paused' = (m_paused /\ ~m_run)
    /\ UNCHANGED <<m_tasks, m_currentTask, m_run, m_isInterrupted, worker,
                   folders, m_discovererIdle, discovering, requests, wish, due,
                   contested>>

stop ==
    /\ Calls("stop") /\ discovering = {} /\ m_run
    /\ m_run' = FALSE
    /\ m_isInterrupted' = TRUE
    /\ UNCHANGED <<m_tasks, m_currentTask, m_paused, worker, folders,
                   m_discovererIdle, discovering, wish, due, contested,
                   held>>

-----------------------------------------------------------------------------
(* run(): starting, taking a task, waiting for one.                        *)

\* registerCallback, and runReloadAllDevices.
Starting ==
    /\ pc = "starting"
    /\ pc' = "top"
    /\ m_discovererIdle' = FALSE
    /\ UNCHANGED <<m_tasks, m_currentTask, m_run, m_isInterrupted, m_paused,
                   m_discoveryNotified, needTaskRefresh, batch, onDevice,
                   folders, callers>>

\* Once stopping, the Reload tasks are skipped.
TakeTask ==
    /\ m_tasks' = Tail(m_tasks)
    /\ IF isLongRunning(Head(m_tasks)) /\ ~m_run
       THEN /\ pc' = "top"
            /\ UNCHANGED m_currentTask
       ELSE /\ pc' = "taken"
            /\ m_currentTask' = Head(m_tasks)

\* Mutant: a thread that stops leaves before onDiscoveryCompleted.
TopStopping ==
    /\ pc = "top"
    /\ IF m_tasks = <<>>
       THEN /\ m_discoveryNotified' = (m_discoveryNotified /\ ~m_run)
            /\ m_discovererIdle' = TRUE
            /\ pc' = "waiting"
            /\ UNCHANGED <<m_tasks, m_currentTask>>
       ELSE /\ TakeTask
            /\ UNCHANGED <<m_discoveryNotified, m_discovererIdle>>
    /\ UNCHANGED <<m_run, m_isInterrupted, m_paused, needTaskRefresh, batch,
                   onDevice, folders, callers>>

\* With nothing to do: onDiscoveryCompleted, then idle.
Top ==
    /\ pc = "top"
    /\ IF m_tasks = <<>>
       THEN /\ m_discoveryNotified' = FALSE
            /\ m_discovererIdle' = TRUE
            /\ pc' = "waiting"
            /\ UNCHANGED <<m_tasks, m_currentTask>>
       ELSE /\ TakeTask
            /\ UNCHANGED <<m_discoveryNotified, m_discovererIdle>>
    /\ UNCHANGED <<m_run, m_isInterrupted, m_paused, needTaskRefresh, batch,
                   onDevice, folders, callers>>

\* Mutant: stop() does not wake the thread.
MustWakeForTasks == m_tasks # <<>>

MustWake == m_tasks # <<>> \/ ~m_run

Wake ==
    /\ pc = "waiting" /\ MustWake
    /\ IF ~m_run
       THEN /\ pc' = "exiting"
            /\ UNCHANGED <<m_tasks, m_currentTask, m_discovererIdle>>
       ELSE /\ m_discovererIdle' = FALSE
            /\ TakeTask
    /\ UNCHANGED <<m_run, m_isInterrupted, m_paused, m_discoveryNotified,
                   needTaskRefresh, batch, onDevice, folders, callers>>

Exit ==
    /\ pc = "exiting"
    /\ pc' = "done"
    /\ m_discovererIdle' = TRUE
    /\ UNCHANGED <<m_tasks, m_currentTask, m_run, m_isInterrupted, m_paused,
                   m_discoveryNotified, needTaskRefresh, batch, onDevice,
                   folders, callers>>

\* Before a Reload, the parser forgets the tasks of the folders that are gone.
RefreshTasks ==
    /\ pc = "taken"
    /\ IF needTaskRefresh /\ isLongRunning(m_currentTask)
       THEN /\ pc' = IF m_run THEN "run" ELSE "end"
            /\ needTaskRefresh' = ~m_run
       ELSE /\ pc' = "run"
            /\ UNCHANGED needTaskRefresh
    /\ UNCHANGED <<m_tasks, m_currentTask, m_run, m_isInterrupted, m_paused,
                   m_discoveryNotified, batch, onDevice, folders,
                   m_discovererIdle, callers>>

\* The end of an iteration: m_currentTask = nullptr.
EndTask ==
    /\ pc = "end"
    /\ pc' = "top"
    /\ m_currentTask' = NoTask
    /\ UNCHANGED <<m_tasks, m_run, m_isInterrupted, m_paused,
                   m_discoveryNotified, needTaskRefresh, batch, onDevice,
                   folders, m_discovererIdle, callers>>

-----------------------------------------------------------------------------
(* The short tasks.                                                        *)

Runs(type) == pc = "run" /\ m_currentTask.type = type

\* Whether the file system answers for root r.
Answers(r) == IF r \in Removable THEN BOOLEAN ELSE {TRUE}

\* onRootAdded, onRootRemoved, ...: a request that failed is forgotten.
Reported(r, success) ==
    wish' = IF success \/ wish[r] # m_currentTask.type THEN wish
            ELSE [wish EXCEPT ![r] = "none"]

EndShort(end) ==
    /\ pc' = end
    /\ UNCHANGED <<m_tasks, m_currentTask, m_run, m_isInterrupted, m_paused,
                   m_discoveryNotified, batch, onDevice, m_discovererIdle,
                   discovering, requests, contested, held>>

\* A folder that is known or banned violates the table's UNIQUE constraint.
runAddRoot ==
    /\ Runs("AddRoot")
    /\ LET r == m_currentTask.root
       IN \E answer \in Answers(r) :
            LET success == answer /\ folders[r] = "absent"
            IN  /\ folders' = IF success THEN [folders EXCEPT ![r] = "root"] ELSE folders
                /\ Reported(r, success)
    /\ EndShort("end")
    /\ UNCHANGED <<needTaskRefresh, due>>

runRemove ==
    /\ Runs("Remove")
    /\ LET r == m_currentTask.root
       IN \E answer \in Answers(r) :
            LET success == answer /\ IsKnown(r)
            IN  /\ folders' = IF success THEN [folders EXCEPT ![r] = "absent"] ELSE folders
                /\ Reported(r, success)
    /\ needTaskRefresh' = TRUE
    /\ EndShort("end")
    /\ UNCHANGED due

\* Folder::ban() succeeds on a banned folder, and is undone when it fails.
runBan ==
    /\ Runs("Ban")
    /\ LET r == m_currentTask.root
       IN \E answer \in Answers(r) :
            /\ folders' = IF answer THEN [folders EXCEPT ![r] = "banned"] ELSE folders
            /\ due' = [due EXCEPT ![r] = @ /\ answer]
            /\ Reported(r, answer)
    /\ needTaskRefresh' = TRUE
    /\ EndShort("end")

runUnban ==
    /\ Runs("Unban")
    /\ LET r == m_currentTask.root
       IN \E answer \in Answers(r) :
            LET success == answer /\ folders[r] = "banned"
            IN  /\ folders' = IF success THEN [folders EXCEPT ![r] = "absent"] ELSE folders
                /\ Reported(r, success)
                /\ EndShort(IF success THEN "unbanned" ELSE "end")
    /\ UNCHANGED <<needTaskRefresh, due>>

\* The end of runUnban: the worker queues a task for itself.
UnbanReloadsParent ==
    /\ pc = "unbanned"
    /\ enqueue(Parent, "Reload")
    /\ pc' = "end"
    /\ UNCHANGED <<m_currentTask, m_run, m_paused, m_discoveryNotified,
                   needTaskRefresh, batch, onDevice, folders, m_discovererIdle,
                   callers>>

-----------------------------------------------------------------------------
(* The scans: runReload, runReloadDevice, and the loops of FsDiscoverer.   *)

\* The roots the file system answers for.
Reachable == {Root \ gone : gone \in SUBSET Removable}

\* The roots of a reload: the empty mrl stands for all of them.
Covers(path, r) == path \in {All, r}

\* A reload of a known root that is out of reach is reported, or skipped.
ReloadOf(path, here) ==
    /\ m_isInterrupted' = FALSE
    /\ batch' = {r \in here : IsKnown(r) /\ Covers(path, r)}
    /\ due' = [r \in Root |-> due[r] /\ ~(IsKnown(r) /\ Covers(path, r) /\ r \notin here)]

BeginReload ==
    /\ Runs("Reload")
    /\ m_discoveryNotified' = TRUE
    /\ \E here \in Reachable : ReloadOf(m_currentTask.root, here)
    /\ pc' = "scanning"
    /\ UNCHANGED <<m_tasks, m_currentTask, m_run, m_paused, needTaskRefresh,
                   onDevice, folders, m_discovererIdle, discovering, requests,
                   wish, contested, held>>

BeginReloadDevice ==
    /\ Runs("ReloadDevice")
    /\ onDevice' = {r \in Removable : IsKnown(r)}
    /\ pc' = "device"
    /\ UNCHANGED <<m_tasks, m_currentTask, m_run, m_isInterrupted, m_paused,
                   m_discoveryNotified, needTaskRefresh, batch, folders,
                   m_discovererIdle, callers>>

\* The next root of the device, without a look at m_run.
ReloadDeviceRoot(r) ==
    /\ pc = "device" /\ r \in onDevice
    /\ onDevice' = onDevice \ {r}
    /\ \E here \in Reachable : ReloadOf(r, here)
    /\ pc' = "scanning"
    /\ UNCHANGED <<m_tasks, m_currentTask, m_run, m_paused, m_discoveryNotified,
                   needTaskRefresh, folders, m_discovererIdle, discovering,
                   requests, wish, contested, held>>

EndReloadDevice ==
    /\ pc = "device" /\ onDevice = {}
    /\ needTaskRefresh' = TRUE
    /\ pc' = "end"
    /\ UNCHANGED <<m_tasks, m_currentTask, m_run, m_isInterrupted, m_paused,
                   m_discoveryNotified, batch, onDevice, folders,
                   m_discovererIdle, callers>>

\* One root: past the checks, or just resumed (the first check is not repeated).
Scan(r) ==
    /\ \/ pc = "scanning" /\ ~m_isInterrupted /\ ~m_paused
       \/ pc = "resumed"
    /\ r \in batch
    /\ batch' = batch \ {r}
    /\ due' = [due EXCEPT ![r] = FALSE]
    /\ pc' = "scanning"
    /\ UNCHANGED <<m_tasks, m_currentTask, m_run, m_isInterrupted, m_paused,
                   m_discoveryNotified, needTaskRefresh, onDevice, folders,
                   m_discovererIdle, discovering, requests, wish, contested, held>>

EndScan ==
    /\ pc = "scanning" /\ (batch = {} \/ m_isInterrupted)
    /\ batch' = {}
    /\ pc' = IF isLongRunning(m_currentTask) THEN "end" ELSE "device"
    /\ UNCHANGED <<m_tasks, m_currentTask, m_run, m_isInterrupted, m_paused,
                   m_discoveryNotified, needTaskRefresh, onDevice, folders,
                   m_discovererIdle, callers>>

\* waitIfPaused().
Pauses ==
    /\ pc = "scanning" /\ batch # {} /\ ~m_isInterrupted /\ m_paused
    /\ pc' = "paused"
    /\ m_discovererIdle' = TRUE
    /\ UNCHANGED <<m_tasks, m_currentTask, m_run, m_isInterrupted, m_paused,
                   m_discoveryNotified, needTaskRefresh, batch, onDevice,
                   folders, callers>>

Resumes ==
    /\ pc = "paused" /\ ~m_paused
    /\ pc' = "resumed"
    /\ m_discovererIdle' = FALSE
    /\ UNCHANGED <<m_tasks, m_currentTask, m_run, m_isInterrupted, m_paused,
                   m_discoveryNotified, needTaskRefresh, batch, onDevice,
                   folders, callers>>

-----------------------------------------------------------------------------
Run ==
    \/ Starting \/ Top \/ Wake \/ Exit \/ RefreshTasks \/ EndTask
    \/ runAddRoot \/ runRemove \/ runBan \/ runUnban \/ UnbanReloadsParent
    \/ BeginReload \/ BeginReloadDevice \/ EndReloadDevice \/ EndScan
    \/ Pauses \/ Resumes
    \/ \E r \in Root : ReloadDeviceRoot(r) \/ Scan(r)

Call ==
    \/ \E r \in Root : discover(r) \/ discoverReloads(r) \/ remove(r) \/ ban(r)
                       \/ unban(r) \/ reload(r)
    \/ reloadAll \/ reloadDevice \/ pause \/ resume \/ stop

\* Every request has been handled: the thread waits for another.
Settled == pc = "waiting" /\ m_tasks = <<>> /\ m_run /\ discovering = {}

\* A scan that was paused when the library stopped is never resumed.
PausedForEver == pc = "paused" /\ m_paused /\ ~m_run

Rest ==
    /\ Settled \/ PausedForEver \/ pc \in {"unstarted", "done"}
    /\ UNCHANGED vars

Next == Run \/ Call \/ Rest

Spec == Init /\ [][Next]_vars

\* The thread is scheduled and a discover() that began goes on.  Nothing forces
\* the application to make or resume anything.
FairSpec ==
    Spec /\ WF_vars(Run) /\ WF_vars(\E r \in Root : discoverReloads(r))

-----------------------------------------------------------------------------
(* Properties.                                                             *)

TypeOK ==
    /\ m_tasks \in Seq(Task) /\ m_currentTask \in Task \cup {NoTask}
    /\ m_run \in BOOLEAN /\ m_isInterrupted \in BOOLEAN /\ m_paused \in BOOLEAN
    /\ pc \in {"unstarted", "starting", "top", "waiting", "taken", "run",
               "scanning", "paused", "resumed", "device", "unbanned", "end",
               "exiting", "done"}
    /\ m_currentTask = NoTask <=>
           pc \in {"unstarted", "starting", "top", "waiting", "exiting", "done"}
    /\ m_discoveryNotified \in BOOLEAN /\ needTaskRefresh \in BOOLEAN
    /\ batch \subseteq Root /\ onDevice \subseteq Removable
    /\ folders \in [Root -> {"absent", "root", "banned"}]
    /\ m_discovererIdle \in BOOLEAN
    /\ discovering \subseteq Root /\ requests \in 0..MaxRequests
    /\ wish \in [Root -> {"none", "AddRoot", "Remove", "Ban", "Unban"}]
    /\ due \in [Root -> BOOLEAN] /\ contested \subseteq Root /\ held \in BOOLEAN

\* Interrupting, dropping and queueing Reload tasks again loses no scan: once the
\* requests are handled, a known root has been scanned since discover, reload
\* or the return of its device last asked for it, as long as nobody asks for its
\* removal or an unban (see RemovalsAreApplied and UnbansAreApplied).
RootsAreScanned ==
    Settled => \A r \in Root \ contested : IsKnown(r) => ~due[r]

\* Whatever filter() drops, a ban that came last and was not refused holds once
\* the requests are handled.
BansAreApplied == Settled => \A r \in Root : wish[r] = "Ban" => folders[r] = "banned"

\* "These types need to be processed as soon as possible" (enqueue()): no Reload,
\* queued by a caller, requeued, or queued by the worker, is before a short task.
ShortTasksFirst ==
    \A i, j \in DOMAIN m_tasks :
        i < j /\ isLongRunning(m_tasks[i]) => isLongRunning(m_tasks[j])

\* MediaLibrary believes the discoverer idle only when no task runs, or when its
\* scan is paused: clearDatabase() then drops the tables.
IdleMeansNoWork == m_discovererIdle => m_currentTask = NoTask \/ pc = "paused"

\* "This callback will be invoked once for each invocation of
\* onDiscoveryStarted" (onDiscoveryCompleted, IMediaLibrary.h), even when stop()
\* skips what is left of the discovery, unless it stays paused.
DiscoveryCompletes == m_discoveryNotified ~> (~m_discoveryNotified \/ m_paused)

IsStopping == ~m_run /\ pc # "unstarted"

\* The join() of stop() returns, unless the discovery is paused.
StopTerminates == IsStopping ~> (pc = "done" \/ m_paused)

-----------------------------------------------------------------------------
(* What the documentation promises and TLC refutes (see README.md).        *)

\* "Interrupt the current long running task if any" (stop()): paused or not, the
\* join() returns.
StopTerminatesPaused == IsStopping ~> (pc = "done")

\* "And wait for all short requests to be handled" (stop()); "If we are stopping,
\* we only want to execute the short tasks" (run()).
StopHandlesShortTasks ==
    pc = "done" => \A i \in DOMAIN m_tasks : isLongRunning(m_tasks[i])

\* "This will remove the provided root folder from the list of know locations"
\* (removeRoot, IMediaLibrary.h).
RemovalsAreApplied ==
    Settled => \A r \in Root : wish[r] = "Remove" => ~IsKnown(r)

\* "Unban a root folder" (unbanFolder, IMediaLibrary.h).
UnbansAreApplied ==
    Settled => \A r \in Root : wish[r] = "Unban" => folders[r] # "banned"

\* "will interrupt any ongoing discovery, process the request, and resume the
\* previously running task" (removeRoot, banFolder and unbanFolder,
\* IMediaLibrary.h): no scan goes on while such a request waits.
RequestsInterruptReload ==
    pc = "scanning" /\ isLongRunning(m_currentTask) /\ ~m_isInterrupted
        => \A i \in DOMAIN m_tasks : isLongRunning(m_tasks[i])

\* "This event will be fired after onDiscoveryStarted" (onRootAdded,
\* IMediaLibrary.h).
RootAddedOnceStarted ==
    [][\A r \in Root : ~IsKnown(r) /\ IsKnown(r)' => m_discoveryNotified]_vars

\* "Will stop potentially CPU intensive background operations, until
\* resumeBackgroundOperations() is called.  If an operation is currently running,
\* it will finish before pausing" (IMediaLibrary.h): no scan begins while held.
PauseHolds == [][\A r \in Root : held /\ pc = "scanning" => ~Scan(r)]_vars

=============================================================================
