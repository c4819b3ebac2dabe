--------------------------- MODULE BackgroundTasks ---------------------------
(***************************************************************************)
(* Who works, and who knows: the threads of the parser's workers, the idle *)
(* flags they derive the library's one from, and the calls that rely on    *)
(* them: pausing, clearDatabase(), forceRescan() and the end of the        *)
(* library (src/parser/ParserWorker.cpp, src/parser/Parser.cpp,            *)
(* src/MediaLibrary.cpp).                                                  *)
(*                                                                         *)
(* Tasks are only counted here: module Parser says what they are.  The     *)
(* discoverer is busy, idle or held: DiscovererWorker says why.  What      *)
(* happens under a worker's m_lock is one step, except that the lock is    *)
(* held while the worker asks the others whether they are idle.            *)
(***************************************************************************)
EXTENDS Naturals, FiniteSets

CONSTANTS MaxTasks, MaxRequeues, MaxDiscoveries, MaxCalls   \* bounds

ASSUME BackgroundAssumption ==
    {MaxTasks, MaxRequeues, MaxDiscoveries, MaxCalls} \subseteq Nat

Extraction == 0
Analysis == 1
Linking == 2
Worker == {Extraction, Analysis, Linking}
Workers == 3

VARIABLES
    (* Worker *)
    m_tasks,         \* how many tasks are queued
    m_idle, m_paused, m_stopParser,
    thread,          \* "unstarted", where its m_thread is, or "joined"
    asked,           \* how many workers a worker that turned idle has asked
    (* MediaLibrary *)
    m_parserIdle, m_discovererIdle,
    told,            \* the last onBackgroundTasksIdleChanged()
    (* the discoverer *)
    discoverer,      \* "unstarted", "idle", "busy", "held" (paused in a scan), or
                     \* "stopped"
    held,            \* FsDiscoverer::m_paused
    (* the application's thread *)
    call, at,        \* the operation and its step
    upto,            \* the worker the step has come to
    (* bounds and observations *)
    left,
    unannounced      \* the workers whose thread was started while they were paused

worker == <<m_tasks, m_idle, m_paused, m_stopParser, thread, asked>>
library == <<m_parserIdle, m_discovererIdle, told>>
discovery == <<discoverer, held>>
application == <<call, at, upto>>
vars == <<worker, library, discovery, application, left, unannounced>>

Init ==
    /\ m_tasks = [w \in Worker |-> 0]
    /\ m_idle = [w \in Worker |-> TRUE]
    /\ m_paused = [w \in Worker |-> FALSE]
    /\ m_stopParser = [w \in Worker |-> FALSE]
    /\ thread = [w \in Worker |-> "unstarted"]
    /\ asked = [w \in Worker |-> 0]
    /\ m_parserIdle = TRUE /\ m_discovererIdle = TRUE /\ told = TRUE
    /\ discoverer = "unstarted" /\ held = FALSE
    /\ call = "none" /\ at = "none" /\ upto = 0
    /\ left = [task |-> MaxTasks, requeue |-> MaxRequeues,
               discovery |-> MaxDiscoveries, call |-> MaxCalls]
    /\ unannounced = {}

Spend(what) ==
    /\ left[what] > 0
    /\ left' = [left EXCEPT ![what] = @ - 1]

-----------------------------------------------------------------------------
(* MediaLibrary: the application is told what both parts amount to, under  *)
(* m_mutex.                                                                *)

\* Mutant: the other part is not looked at.
onParserIdleChangedAlone(idle) ==
    /\ m_parserIdle' = idle
    /\ told' = IF m_parserIdle # idle THEN idle ELSE told
    /\ UNCHANGED m_discovererIdle

onParserIdleChanged(idle) ==
    /\ m_parserIdle' = idle
    /\ told' = IF m_parserIdle # idle /\ (~idle \/ m_discovererIdle)
               THEN idle ELSE told
    /\ UNCHANGED m_discovererIdle

onDiscovererIdleChanged(idle) ==
    /\ m_discovererIdle' = idle
    /\ told' = IF m_discovererIdle # idle /\ (~idle \/ m_parserIdle)
               THEN idle ELSE told
    /\ UNCHANGED m_parserIdle

-----------------------------------------------------------------------------
(* Worker.                                                                 *)

\* Its m_lock is free.
Unlocked(w) == thread[w] # "reporting"

HasThread(w) == thread[w] \notin {"unstarted", "joined"}

\* setIdle( false ), under m_lock.
setBusy(w) ==
    /\ m_idle' = [m_idle EXCEPT ![w] = FALSE]
    /\ IF m_idle[w] THEN onParserIdleChanged(FALSE) ELSE UNCHANGED library

\* parse(), called by a thread that leaves the workers' threads as they are in
\* "threads".  It starts the worker's if it has none.
parse(w, threads) ==
    /\ Unlocked(w)
    /\ m_tasks' = [m_tasks EXCEPT ![w] = @ + 1]
    /\ IF m_paused[w] THEN UNCHANGED <<m_idle, library>> ELSE setBusy(w)
    /\ thread' = IF HasThread(w) THEN threads ELSE [threads EXCEPT ![w] = "entering"]
    /\ unannounced' = IF HasThread(w) \/ ~m_paused[w] THEN unannounced
                      ELSE unannounced \cup {w}
    /\ UNCHANGED <<m_paused, m_stopParser, asked>>

Moves(w, where) == thread' = [thread EXCEPT ![w] = where]

\* The first thing a thread does, before its loop.
Enter(w) ==
    /\ thread[w] = "entering"
    /\ Moves(w, "top")
    /\ onParserIdleChanged(FALSE)
    /\ UNCHANGED <<m_tasks, m_idle, m_paused, m_stopParser, asked, discovery,
                   application, left, unannounced>>

HasWork(w) == m_tasks[w] > 0 /\ ~m_paused[w]

Take(w) ==
    /\ thread[w] = "top" /\ ~m_stopParser[w] /\ HasWork(w)
    /\ m_tasks' = [m_tasks EXCEPT ![w] = @ - 1]
    /\ Moves(w, "running")
    /\ UNCHANGED <<m_idle, m_paused, m_stopParser, asked, library, discovery,
                   application, left, unannounced>>

\* setIdle( true ): the flag is set before the others are asked, which goes on in
\* "turning" and leads to "settled".
setIdle(w, turning, settled) ==
    /\ m_idle' = [m_idle EXCEPT ![w] = TRUE]
    /\ Moves(w, IF m_idle[w] THEN settled ELSE turning)
    /\ UNCHANGED <<m_tasks, m_paused, m_stopParser, asked, library, discovery,
                   application, left, unannounced>>

\* With m_lock held until it waits.
TurnIdle(w) ==
    /\ thread[w] = "top" /\ ~m_stopParser[w] /\ ~HasWork(w)
    /\ setIdle(w, "reporting", "waiting")

\* The loop is left, without the lock.
Quit(w) ==
    /\ thread[w] \in {"top", "waiting"} /\ m_stopParser[w]
    /\ setIdle(w, "leaving", "done")

IsAsking(w) == thread[w] \in {"reporting", "leaving"}

Asked(w) ==
    /\ asked' = [asked EXCEPT ![w] = 0]
    /\ Moves(w, IF thread[w] = "reporting" THEN "waiting" ELSE "done")

\* Mutant: a worker that was never started counts as busy.
AskStarted(w) ==
    /\ IsAsking(w) /\ asked[w] < Workers
    /\ IF m_idle[asked[w]] /\ HasThread(asked[w])
       THEN asked' = [asked EXCEPT ![w] = @ + 1] /\ UNCHANGED thread
       ELSE Asked(w)
    /\ UNCHANGED <<m_tasks, m_idle, m_paused, m_stopParser, library, discovery,
                   application, left, unannounced>>

\* Parser::onIdleChanged( true ) looks at each worker, and gives up at the first
\* that is busy.
Ask(w) ==
    /\ IsAsking(w) /\ asked[w] < Workers
    /\ IF m_idle[asked[w]]
       THEN asked' = [asked EXCEPT ![w] = @ + 1] /\ UNCHANGED thread
       ELSE Asked(w)
    /\ UNCHANGED <<m_tasks, m_idle, m_paused, m_stopParser, library, discovery,
                   application, left, unannounced>>

Report(w) ==
    /\ IsAsking(w) /\ asked[w] = Workers
    /\ onParserIdleChanged(TRUE)
    /\ Asked(w)
    /\ UNCHANGED <<m_tasks, m_idle, m_paused, m_stopParser, discovery,
                   application, left, unannounced>>

\* The predicate of the wait holds.
WakeUp(w) ==
    /\ thread[w] = "waiting" /\ ~m_stopParser[w] /\ HasWork(w)
    /\ setBusy(w)
    /\ m_tasks' = [m_tasks EXCEPT ![w] = @ - 1]
    /\ Moves(w, "running")
    /\ UNCHANGED <<m_paused, m_stopParser, asked, discovery, application, left,
                   unannounced>>

\* Parser::done(): the task is over, or goes to the next service, or back to the
\* first.
End(w) ==
    /\ thread[w] = "running"
    /\ Moves(w, "top")
    /\ UNCHANGED <<m_tasks, m_idle, m_paused, m_stopParser, asked, library,
                   discovery, application, left, unannounced>>

Forward(w) ==
    /\ thread[w] = "running" /\ w # Linking
    /\ parse(w + 1, [thread EXCEPT ![w] = "top"])
    /\ UNCHANGED <<discovery, application, left>>

\* As often as the task has attempts.
Requeue ==
    /\ thread[Linking] = "running" /\ Spend("requeue")
    /\ parse(Extraction, [thread EXCEPT ![Linking] = "top"])
    /\ UNCHANGED <<discovery, application>>

\* The analysis of a playlist or of a subscription creates tasks.
Spawn ==
    /\ thread[Analysis] = "running" /\ Spend("task")
    /\ parse(Extraction, thread)
    /\ UNCHANGED <<discovery, application>>

Work(w) ==
    \/ Enter(w) \/ Take(w) \/ TurnIdle(w) \/ Quit(w) \/ Ask(w) \/ Report(w)
    \/ WakeUp(w) \/ End(w) \/ Forward(w)

-----------------------------------------------------------------------------
(* The discoverer's thread.                                                *)

Discovers(from, to, idle) ==
    /\ discoverer \in from
    /\ discoverer' = to
    /\ onDiscovererIdleChanged(idle)
    /\ UNCHANGED <<worker, held, application, unannounced>>

DiscoveryBegins ==
    Spend("discovery") /\ Discovers({"unstarted", "idle"}, "busy", FALSE)

\* Mutant: a scan that is paused is still reported as busy.
DiscoveryBusyWhileHeld ==
    /\ \/ Discovers({"busy"}, "idle", TRUE)
       \/ held /\ Discovers({"busy"}, "held", FALSE)
       \/ ~held /\ Discovers({"held"}, "busy", FALSE)
    /\ UNCHANGED left

Discovery ==
    /\ \/ Discovers({"busy"}, "idle", TRUE)
       \/ held /\ Discovers({"busy"}, "held", TRUE)
       \/ ~held /\ Discovers({"held"}, "busy", FALSE)
    /\ UNCHANGED left

\* A task is created: a file was found, or the application adds a media.
Add ==
    /\ at \notin {"signal", "join", "stopped"} /\ Spend("task")
    /\ parse(Extraction, thread)
    /\ UNCHANGED <<discovery, application>>

-----------------------------------------------------------------------------
(* The operations of the application, one at a time, step by step.         *)

First(operation) ==
    CASE operation = "pauseBackgroundOperations" -> "hold"
      [] operation = "resumeBackgroundOperations" -> "release"
      [] operation = "clearDatabase" -> "hold"
      [] operation = "forceRescan" -> "flush"
      [] operation = "stop" -> "halt"

Call(operation) ==
    /\ at = "none"
    /\ IF operation = "stop" THEN UNCHANGED left ELSE Spend("call")
    /\ call' = operation /\ at' = First(operation)
    /\ UNCHANGED <<worker, library, discovery, upto, unannounced>>

\* The operation is over with its last step.
Goes(step) ==
    /\ at' = step
    /\ call' = IF step = "none" THEN "none" ELSE call

\* One worker after the other, then the next step.
Each(step, next) ==
    /\ at = step
    /\ IF upto + 1 = Workers THEN upto' = 0 /\ Goes(next)
                             ELSE upto' = upto + 1 /\ UNCHANGED <<call, at>>
    /\ UNCHANGED <<library, discovery, left, unannounced>>

\* DiscovererWorker::pause() does nothing unless the discoverer was started.
Hold ==
    /\ at = "hold" /\ Goes("pause")
    /\ held' = (held \/ discoverer # "unstarted")
    /\ UNCHANGED <<worker, library, discoverer, upto, left, unannounced>>

Pause ==
    /\ Each("pause", IF call = "clearDatabase" THEN "await" ELSE "none")
    /\ Unlocked(upto)
    /\ m_paused' = [m_paused EXCEPT ![upto] = TRUE]
    /\ UNCHANGED <<m_tasks, m_idle, m_stopParser, thread, asked>>

waitForBackgroundTasksIdle ==
    /\ at = "await" /\ m_parserIdle /\ m_discovererIdle
    /\ Goes("flush")
    /\ UNCHANGED <<worker, library, discovery, upto, left, unannounced>>

Flush ==
    /\ Each("flush", IF call = "clearDatabase" THEN "drop" ELSE "rescan")
    /\ Unlocked(upto)
    /\ m_tasks' = [m_tasks EXCEPT ![upto] = 0]
    /\ UNCHANGED <<m_idle, m_paused, m_stopParser, thread, asked>>

\* recreateDatabase(), or the transaction of forceRescan(): when it fails nothing
\* is resumed.
Recreate ==
    /\ at \in {"drop", "rescan"}
    /\ \/ Goes("none")
       \/ Goes("restore")
    /\ UNCHANGED <<worker, library, discovery, upto, left, unannounced>>

\* The tasks it queues, the playlists to read back or what Parser::restore() finds, are
\* among those of Add.
Restore ==
    /\ at = "restore"
    /\ Goes(IF call = "clearDatabase" THEN "release" ELSE "resume")
    /\ UNCHANGED <<worker, library, discovery, upto, left, unannounced>>

Release ==
    /\ at = "release" /\ Goes("resume")
    /\ held' = FALSE
    /\ UNCHANGED <<worker, library, discoverer, upto, left, unannounced>>

Resume ==
    /\ Each("resume", "none")
    /\ Unlocked(upto)
    /\ m_paused' = [m_paused EXCEPT ![upto] = FALSE]
    /\ UNCHANGED <<m_tasks, m_idle, m_stopParser, thread, asked>>

\* DiscovererWorker::stop(), which waits for the scan (see its StopTerminates).
Halt ==
    /\ at = "halt" /\ discoverer \notin {"busy", "held"}
    /\ Goes("signal")
    /\ discoverer' = "stopped"
    /\ UNCHANGED <<worker, library, held, upto, left, unannounced>>

\* Parser::stop(): every worker is told before any is waited for.
signalStop ==
    /\ Each("signal", "join")
    /\ Unlocked(upto)
    /\ m_stopParser' = [m_stopParser EXCEPT ![upto] = TRUE]
    /\ UNCHANGED <<m_tasks, m_idle, m_paused, thread, asked>>

Join ==
    /\ Each("join", "stopped")
    /\ thread[upto] \in {"unstarted", "done"}
    /\ thread' = IF thread[upto] = "done" THEN [thread EXCEPT ![upto] = "joined"]
                 ELSE thread
    /\ UNCHANGED <<m_tasks, m_idle, m_paused, m_stopParser, asked>>

Operations ==
    {"pauseBackgroundOperations", "resumeBackgroundOperations", "clearDatabase",
     "forceRescan", "stop"}

GoesOn ==
    \/ Hold \/ Pause \/ waitForBackgroundTasksIdle \/ Flush \/ Recreate \/ Restore
    \/ Release \/ Resume \/ Halt \/ signalStop \/ Join

-----------------------------------------------------------------------------
\* Nothing is left to do but what the application may ask for.
AtRest ==
    /\ \A w \in Worker : thread[w] \in {"unstarted", "waiting", "done", "joined"}
    /\ \A w \in Worker : thread[w] = "waiting" => ~HasWork(w) /\ ~m_stopParser[w]

DiscoveryAtRest == discoverer # "busy" /\ (discoverer = "held" => held)

Rest == AtRest /\ DiscoveryAtRest /\ UNCHANGED vars

Next ==
    \/ \E w \in Worker : Work(w)
    \/ Requeue \/ Spawn \/ Add \/ DiscoveryBegins \/ Discovery
    \/ \E operation \in Operations : Call(operation)
    \/ GoesOn
    \/ Rest

Spec == Init /\ [][Next]_vars

\* Some thread of the library that can go on does, an operation that began included;
\* the services' run() and the scans end.  As tasks, requeues and discoveries are
\* bounded, none of them can keep the others from running for ever.
FairSpec ==
    Spec /\ WF_vars((\E w \in Worker : Work(w)) \/ Discovery \/ GoesOn)

-----------------------------------------------------------------------------
(* Properties.                                                             *)

TypeOK ==
    /\ m_tasks \in [Worker -> Nat]
    /\ m_idle \in [Worker -> BOOLEAN] /\ m_paused \in [Worker -> BOOLEAN]
    /\ m_stopParser \in [Worker -> BOOLEAN]
    /\ thread \in [Worker -> {"unstarted", "entering", "top", "running", "reporting",
                              "waiting", "leaving", "done", "joined"}]
    /\ asked \in [Worker -> 0..Workers]
    /\ m_parserIdle \in BOOLEAN /\ m_discovererIdle \in BOOLEAN /\ told \in BOOLEAN
    /\ discoverer \in {"unstarted", "idle", "busy", "held", "stopped"}
    /\ held \in BOOLEAN
    /\ call \in Operations \cup {"none"}
    /\ at \in {"none", "hold", "pause", "await", "flush", "drop", "rescan", "restore",
              "release", "resume", "halt", "signal", "join", "stopped"}
    /\ upto \in Worker
    /\ left \in [{"task", "requeue", "discovery", "call"} -> Nat]
    /\ unannounced \subseteq Worker

\* "If switching to idle == true, then both background workers need to be idle
\* before signaling" (onDiscovererIdleChanged()): in whatever order the parser's
\* workers and the discoverer report, the last callback tells the truth about
\* the two flags.
ToldBothFlags == told <=> m_parserIdle /\ m_discovererIdle

\* A worker that waits with its flag down: what it was woken for has been flushed,
\* or it was paused, before it ran.
Overtaken(w) == thread[w] = "waiting" /\ ~m_idle[w] /\ ~HasWork(w)

\* "Otherwise the parser is idle when all services are idle" (onIdleChanged()):
\* though each worker reads the flags of the others while they change, the last to
\* turn idle always says so, unless the library stops, or a worker was overtaken or
\* started paused.
IdlenessIsReported ==
    /\ AtRest /\ unannounced = {}
    /\ \A w \in Worker : ~Overtaken(w) /\ ~m_stopParser[w]
    => m_parserIdle

\* Once no thread has anything to do, no operation is blocked: the only waits that
\* may last are clearDatabase()'s, with the same exceptions, and stop()'s, when a scan
\* is paused.  (The runs being bounded, what is never blocked ends.)
NobodyWaitsForEver ==
    AtRest /\ DiscoveryAtRest /\ at \notin {"none", "stopped"} /\ ~ENABLED GoesOn
        => \/ at = "halt" /\ discoverer = "held"
           \/ /\ at = "await"
              /\ unannounced # {} \/ \E w \in Worker : Overtaken(w)

-----------------------------------------------------------------------------
(* What the documentation promises and TLC refutes (see README.md).        *)

\* "we must not override the idle state if the worker was paused since the pausing
\* thread is waiting for the worker to go idle" (parse(), ParserWorker.cpp): the
\* pausing thread does not wait for ever.
ClearingReturns == (at = "await") ~> (at # "await")

\* "When all parser tasks are idle, it is guaranteed that no entity modification
\* callbacks will be invoked" (IMediaLibrary.h): then no service is running.
IdleMeansNoWork == told => \A w \in Worker : thread[w] # "running"

\* "ensure they won't queue another operation" (signalStop(), ParserWorker.h): once
\* the parser is stopped, no worker has a thread left that nobody joins.
StopLeavesNoThread ==
    at = "stopped" => \A w \in Worker : thread[w] \in {"unstarted", "joined"}

=============================================================================
