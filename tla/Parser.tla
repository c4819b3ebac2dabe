------------------------------- MODULE Parser -------------------------------
(***************************************************************************)
(* The parsing pipeline (src/parser/{Parser,ParserWorker,Task}.cpp): three *)
(* threads, each with its queue and its service, move a task from metadata *)
(* extraction to analysis to linking, and keep in the Task table what is   *)
(* needed to go on after a crash.  Any thread may throw the queues away and*)
(* fill them again from the table (refreshTaskList).                       *)
(*                                                                         *)
(* A row of the table and the objects built from it are different things:  *)
(* a job is such an object, and a row may have several.  Left out: the     *)
(* tasks of subscriptions, pausing and stopping the workers.               *)
(***************************************************************************)
EXTENDS Integers, Sequences, FiniteSets

CONSTANTS Creation, Refresh, Link, Restore,  \* the rows, by Task::Type
          Removable,        \* those in a folder of the removable device
          MaxTaskAttempts, MaxLinkTaskAttempts,
          NoJob,
          MaxCrashes, MaxMounts, MaxRefreshes, MaxRetries  \* bounds

ASSUME ParserAssumption ==
    /\ Creation \cap (Refresh \cup Link \cup Restore) = {}
    /\ Refresh \cap (Link \cup Restore) = {} /\ Link \cap Restore = {}
    /\ Removable \subseteq Creation \cup Refresh
    /\ MaxTaskAttempts \in Nat \ {0} /\ MaxLinkTaskAttempts \in Nat \ {0}
    /\ {MaxCrashes, MaxMounts, MaxRefreshes, MaxRetries} \subseteq Nat
    /\ IsFiniteSet(Creation \cup Refresh \cup Link \cup Restore)

Task == Creation \cup Refresh \cup Link \cup Restore

\* The services, in order; each has its Worker.
Extraction == 0
Analysis == 1
Linking == 2
Worker == {Extraction, Analysis, Linking}

\* Step::Completed, without the extraction that is never saved alone.
Completed == {Extraction, Analysis}

MaxAttempts(t) == IF t \in Link THEN MaxLinkTaskAttempts ELSE MaxTaskAttempts

\* The threads that call restore(): Parser::start, the discoverer before a
\* reload, the device lister (through FsHolder).
Caller == {"start", "discoverer", "device"}

Status == {"Success", "Completed", "Discarded", "TemporaryUnavailable",
           "Fatal", "Requeue"}

VARIABLES
    (* the database *)
    rows,            \* the rows of the Task table
    step,            \* Task.step, a set of bits
    attempts_left,
    file_id,         \* the rows that have one: their file is in the library
    mounted,         \* Device.is_present, for the removable device
    (* the workers *)
    m_tasks,         \* their queues of jobs
    running,         \* the job a worker has taken
    phase,           \* "idle", "taken", "started" (in the service), "ended"
    result,          \* the status once ended
    (* Parser *)
    m_opScheduled, m_opDone, m_completionSignaled,
    stats,           \* the last onParsingStatsUpdated
    (* the callers *)
    adding,          \* how far Task::create and Parser::parse are, for each row
    at, fetched,     \* how far a caller of restore() is, and the jobs it read
    (* bounds and observations *)
    left,            \* the crashes, mounts, refreshes and retries left
    crashes,         \* for each row, the crashes while its service ran
    tried            \* the rows whose last attempt ended without success, and that
                     \* nothing queues again before the next restore

db == <<rows, step, attempts_left, file_id, mounted>>
workers == <<m_tasks, running, phase, result>>
counters == <<m_opScheduled, m_opDone, m_completionSignaled, stats>>
callers == <<adding, at, fetched>>
observed == <<left, crashes, tried>>
vars == <<db, workers, counters, callers, observed>>

Init ==
    /\ rows = {} /\ mounted = TRUE
    /\ step = [t \in Task |-> {}]
    /\ attempts_left = [t \in Task |-> MaxAttempts(t)]
    /\ file_id = Refresh
    /\ m_tasks = [w \in Worker |-> <<>>]
    /\ running = [w \in Worker |-> NoJob]
    /\ phase = [w \in Worker |-> "idle"]
    /\ result = [w \in Worker |-> "Success"]
    /\ m_opScheduled = 0 /\ m_opDone = 0
    /\ m_completionSignaled = FALSE
    /\ stats = <<0, 0>>
    /\ adding = [t \in Task |-> "absent"]
    /\ at = [c \in Caller |-> "idle"]
    /\ fetched = [c \in Caller |-> {}]
    /\ left = [crash |-> MaxCrashes, mount |-> MaxMounts,
               refresh |-> MaxRefreshes, retry |-> MaxRetries]
    /\ crashes = [t \in Task |-> 0]
    /\ tried = {}

Spend(what) ==
    /\ left[what] > 0
    /\ left' = [left EXCEPT ![what] = @ - 1]

\* The object built from a row, and from nothing else: neither what the extraction
\* found (info) nor the folder and the file it is about (fs, file) are in it.
Job(t) == [id |-> t, step |-> step[t], attempts |-> attempts_left[t],
           info |-> FALSE, fs |-> FALSE, file |-> FALSE]

-----------------------------------------------------------------------------
(* The statistics, under Parser::m_mutex.                                  *)

Least(m, n) == IF m < n THEN m ELSE n

\* updateStats(), with the counters the caller has just set.
updateStats(done, scheduled) ==
    LET d == Least(done, scheduled)
        signals == d % 10 = 0 \/ d = scheduled \/ m_completionSignaled
    IN  /\ m_opDone' = d
        /\ m_opScheduled' = scheduled
        /\ stats' = IF signals THEN <<d, scheduled>> ELSE stats
        /\ m_completionSignaled' =
               IF signals THEN d = scheduled ELSE m_completionSignaled

-----------------------------------------------------------------------------
(* New tasks: the row is inserted, then Parser::parse counts and queues it.*)

Create(t) ==
    /\ adding[t] = "absent"
    /\ t \in Removable => mounted
    /\ rows' = rows \cup {t}
    /\ adding' = [adding EXCEPT ![t] = "created"]
    /\ UNCHANGED <<step, attempts_left, file_id, mounted, workers, counters, at,
                   fetched, observed>>

ParseCounts(t) ==
    /\ adding[t] = "created"
    /\ updateStats(m_opDone, m_opScheduled + 1)
    /\ adding' = [adding EXCEPT ![t] = "counted"]
    /\ UNCHANGED <<db, workers, at, fetched, observed>>

NewJob(t) == [id |-> t, step |-> {}, attempts |-> MaxAttempts(t),
              info |-> FALSE, fs |-> TRUE, file |-> t \in Refresh]

ParseQueues(t) ==
    /\ adding[t] = "counted"
    /\ m_tasks' = [m_tasks EXCEPT ![Extraction] = Append(@, NewJob(t))]
    /\ adding' = [adding EXCEPT ![t] = "added"]
    /\ UNCHANGED <<db, running, phase, result, counters, at, fetched, observed>>

-----------------------------------------------------------------------------
(* Worker::mainloop.                                                       *)

\* Task::isStepCompleted(): a link task only links.
isStepCompleted(j, w) ==
    IF j.id \in Link THEN w # Linking ELSE w \in j.step

\* A completed step is over as soon as its task is taken.
Take(w) ==
    /\ phase[w] = "idle" /\ m_tasks[w] # <<>>
    /\ running' = [running EXCEPT ![w] = Head(m_tasks[w])]
    /\ m_tasks' = [m_tasks EXCEPT ![w] = Tail(@)]
    /\ IF isStepCompleted(Head(m_tasks[w]), w)
       THEN /\ phase' = [phase EXCEPT ![w] = "ended"]
            /\ result' = [result EXCEPT ![w] = "Success"]
       ELSE /\ phase' = [phase EXCEPT ![w] = "taken"]
            /\ UNCHANGED result
    /\ UNCHANGED <<db, counters, callers, observed>>

Ends(w, status) ==
    /\ phase' = [phase EXCEPT ![w] = "ended"]
    /\ result' = [result EXCEPT ![w] = status]

needEntityRestoration(j) == j.id \in Creation \cup Refresh /\ ~j.fs

OutOfReach(j) == j.id \in Removable /\ ~mounted

\* restoreLinkedEntities() succeeds.  It may do so for a folder that is out of
\* reach, when the last task was in the same one (LastTaskInfo).
Restored(w) ==
    /\ phase[w] = "taken" /\ needEntityRestoration(running[w])
    /\ running' = [running EXCEPT ![w].fs = TRUE,
                                  ![w].file = running[w].id \in file_id]
    /\ UNCHANGED <<db, m_tasks, phase, result, counters, callers, observed>>

\* The folder is out of reach, on restoring the task or on starting a step on a
\* file that is known: the attempt does not count.
Postpone(w) ==
    /\ phase[w] = "taken" /\ OutOfReach(running[w])
    /\ needEntityRestoration(running[w]) \/ running[w].file
    /\ Ends(w, "TemporaryUnavailable")
    /\ UNCHANGED <<db, m_tasks, running, counters, callers, observed>>

\* The folder is there and the file, which was never analyzed, is not any more.
Vanished(w) ==
    /\ phase[w] = "taken" /\ needEntityRestoration(running[w])
    /\ ~OutOfReach(running[w]) /\ running[w].id \notin file_id
    /\ rows' = rows \ {running[w].id}
    /\ Ends(w, "TemporaryUnavailable")
    /\ UNCHANGED <<step, attempts_left, file_id, mounted, m_tasks, running, counters,
                   callers, observed>>

IsReady(w) ==
    /\ phase[w] = "taken" /\ ~needEntityRestoration(running[w])
    /\ ~(running[w].file /\ OutOfReach(running[w]))

\* Mutant: starting a step does not use an attempt up.
StartFreely(w) ==
    /\ IsReady(w)
    /\ running' = [running EXCEPT ![w].info = @ \/ w = Extraction]
    /\ phase' = [phase EXCEPT ![w] = "started"]
    /\ UNCHANGED <<db, m_tasks, result, counters, callers, observed>>

\* Task::startParserStep(), and the service's run().
Start(w) ==
    /\ IsReady(w)
    /\ attempts_left' = [attempts_left EXCEPT ![running[w].id] = @ - 1]
    /\ running' = [running EXCEPT ![w].attempts = @ - 1,
                                  ![w].info = @ \/ w = Extraction]
    /\ phase' = [phase EXCEPT ![w] = "started"]
    /\ UNCHANGED <<rows, step, file_id, mounted, m_tasks, result, counters, callers,
                   observed>>

\* The analysis creates the file and the media, in a transaction of its own.
createFileAndMedia(w) ==
    /\ phase[w] = "started" /\ w = Analysis
    /\ running[w].id \in Creation /\ ~running[w].file
    /\ file_id' = file_id \cup {running[w].id}
    /\ running' = [running EXCEPT ![w].file = TRUE]
    /\ UNCHANGED <<rows, step, attempts_left, mounted, m_tasks, phase, result,
                   counters, callers, observed>>

\* What a service may return, or the exceptions the worker maps to a status.
Results(w) ==
    CASE w = Extraction -> {"Success", "Fatal", "TemporaryUnavailable"}
      [] w = Analysis ->
           {"Discarded", "Fatal", "TemporaryUnavailable"} \cup
           IF running[w].file \/ running[w].id \in Restore
           THEN {"Success", "Completed"} ELSE {}
      [] w = Linking -> {"Completed", "Requeue", "Fatal"}

\* Task::saveParserStep().
Save(w, steps) ==
    LET t == running[w].id
    IN  /\ running' = [running EXCEPT ![w].step = steps,
                                      ![w].attempts = MaxAttempts(t)]
        /\ step' = [step EXCEPT ![t] = steps]
        /\ attempts_left' = [attempts_left EXCEPT ![t] = MaxAttempts(t)]
        /\ UNCHANGED rows

\* Mutant: the extraction is saved like the other steps.
handleEveryServiceResult(w, status) ==
    LET j == running[w]
    IN  CASE status = "Success" -> Save(w, j.step \cup {w})
          [] status = "Completed" -> Save(w, Completed)
          [] status = "Discarded" ->
               /\ rows' = rows \ {j.id}
               /\ UNCHANGED <<running, step, attempts_left>>
          [] OTHER -> UNCHANGED <<running, rows, step, attempts_left>>

\* handleServiceResult(): an extraction that succeeds gives its attempt back.
handleServiceResult(w, status) ==
    LET j == running[w]
    IN  CASE status = "Success" /\ w = Extraction ->
               /\ running' = [running EXCEPT ![w].step = @ \cup {w},
                                             ![w].attempts = @ + 1]
               /\ attempts_left' = [attempts_left EXCEPT ![j.id] = @ + 1]
               /\ UNCHANGED <<rows, step>>
          [] status = "Success" /\ w # Extraction -> Save(w, j.step \cup {w})
          [] status = "Completed" -> Save(w, Completed)
          [] status = "Discarded" ->
               /\ rows' = rows \ {j.id}
               /\ UNCHANGED <<running, step, attempts_left>>
          [] OTHER -> UNCHANGED <<running, rows, step, attempts_left>>

Finish(w, status) ==
    /\ phase[w] = "started" /\ status \in Results(w)
    /\ handleServiceResult(w, status)
    /\ Ends(w, status)
    /\ UNCHANGED <<file_id, mounted, m_tasks, counters, callers, observed>>

-----------------------------------------------------------------------------
(* Parser::done(), on the worker's thread.                                 *)

isCompleted(j) == Completed \subseteq j.step

Frees(w) ==
    /\ phase' = [phase EXCEPT ![w] = "idle"]
    /\ running' = [running EXCEPT ![w] = NoJob]
    /\ UNCHANGED <<result, file_id, mounted, step, attempts_left, callers, left,
                   crashes>>

IsOver(w) ==
    \/ result[w] \in {"TemporaryUnavailable", "Fatal", "Discarded"}
    \/ isCompleted(running[w])

\* A link task that may not be requeued any more.
IsExhausted(w) == result[w] = "Requeue" /\ running[w].attempts = 0

\* Mutant: a task that failed is not counted as done.
DoneCountsSuccess(w) ==
    /\ phase[w] = "ended" /\ (IsOver(w) \/ IsExhausted(w))
    /\ IF result[w] = "Fatal" THEN UNCHANGED counters
       ELSE updateStats(m_opDone + 1, m_opScheduled)
    /\ rows' = IF IsOver(w) /\ running[w].id \in Refresh
               THEN rows \ {running[w].id} ELSE rows
    /\ tried' = IF isCompleted(running[w]) THEN tried ELSE tried \cup {running[w].id}
    /\ Frees(w)
    /\ UNCHANGED m_tasks

\* The last of a task; a refresh can then be asked for again.
Done(w) ==
    /\ phase[w] = "ended" /\ (IsOver(w) \/ IsExhausted(w))
    /\ updateStats(m_opDone + 1, m_opScheduled)
    /\ rows' = IF IsOver(w) /\ running[w].id \in Refresh
               THEN rows \ {running[w].id} ELSE rows
    /\ tried' = IF isCompleted(running[w]) THEN tried ELSE tried \cup {running[w].id}
    /\ Frees(w)
    /\ UNCHANGED m_tasks

\* To the next service, or back to the first.
Forward(w) ==
    /\ phase[w] = "ended" /\ ~IsOver(w) /\ ~IsExhausted(w)
    /\ LET next == IF result[w] = "Requeue" THEN Extraction ELSE w + 1
       IN  m_tasks' = [m_tasks EXCEPT ![next] = Append(@, running[w])]
    /\ Frees(w)
    /\ UNCHANGED <<rows, counters, tried>>

-----------------------------------------------------------------------------
(* refreshTaskList(): flush() the workers one by one, reset the counters,  *)
(* then restore().                                                         *)

Goes(c, where) == at' = [at EXCEPT ![c] = where]

Flush(c, w) ==
    /\ at[c] = CASE w = Extraction -> "flush0" [] w = Analysis -> "flush1"
                 [] w = Linking -> "flush2"
    /\ m_tasks' = [m_tasks EXCEPT ![w] = <<>>]
    /\ Goes(c, CASE w = Extraction -> "flush1" [] w = Analysis -> "flush2"
                 [] w = Linking -> "reset")
    /\ UNCHANGED <<db, running, phase, result, counters, adding, fetched, observed>>

ResetCounters(c) ==
    /\ at[c] = "reset"
    /\ m_opDone' = 0 /\ m_opScheduled' = 0
    /\ Goes(c, "fetch")
    /\ UNCHANGED <<db, workers, m_completionSignaled, stats, adding, fetched,
                   observed>>

\* Mutant: a task is only fetched when it has two attempts left.
FetchableTwice(t) ==
    /\ t \in rows /\ ~(Completed \subseteq step[t]) /\ attempts_left[t] > 1
    /\ \/ t \in Creation \cup Refresh /\ (t \in Removable => mounted)
       \/ t \in Link

\* The condition of Task::fetchUncompleted(): a task without a folder is only
\* fetched when it links.
Fetchable(t) ==
    /\ t \in rows /\ ~(Completed \subseteq step[t]) /\ attempts_left[t] > 0
    /\ \/ t \in Creation \cup Refresh /\ (t \in Removable => mounted)
       \/ t \in Link

Fetch(c) ==
    /\ at[c] = "fetch"
    /\ fetched' = [fetched EXCEPT ![c] = {Job(t) : t \in {u \in Task : Fetchable(u)}}]
    /\ Goes(c, IF fetched'[c] = {} THEN "idle" ELSE "count")
    /\ UNCHANGED <<db, workers, counters, adding, observed>>

RestoreCounts(c) ==
    /\ at[c] = "count"
    /\ updateStats(m_opDone, m_opScheduled + Cardinality(fetched[c]))
    /\ Goes(c, "queue")
    /\ UNCHANGED <<db, workers, adding, fetched, observed>>

\* In any order.
RestoreQueues(c) ==
    /\ at[c] = "queue"
    /\ \E order \in [1..Cardinality(fetched[c]) -> fetched[c]] :
         /\ \A j \in fetched[c] : \E i \in DOMAIN order : order[i] = j
         /\ m_tasks' = [m_tasks EXCEPT ![Extraction] = @ \o order]
    /\ fetched' = [fetched EXCEPT ![c] = {}]
    /\ Goes(c, "idle")
    /\ UNCHANGED <<db, running, phase, result, counters, adding, observed>>

-----------------------------------------------------------------------------
(* What makes them call it.                                                *)

\* The discoverer, before a reload that follows a removal.
refreshTaskList ==
    /\ Spend("refresh")
    /\ at["discoverer"] = "idle"
    /\ Goes("discoverer", "flush0")
    /\ UNCHANGED <<db, workers, counters, adding, fetched, crashes, tried>>

\* FsHolder updates the device, then calls onDeviceReappearing/Disappearing.
Mount ==
    /\ Spend("mount")
    /\ at["device"] = "idle"
    /\ mounted' = ~mounted
    /\ Goes("device", "flush0")
    /\ tried' = IF mounted THEN tried ELSE tried \ Removable
    /\ UNCHANGED <<rows, step, attempts_left, file_id, workers, counters, adding,
                   fetched, crashes>>

\* The program ends, at any point, and starts again: only the database is left.
Crash ==
    /\ Spend("crash")
    /\ m_tasks' = [w \in Worker |-> <<>>]
    /\ running' = [w \in Worker |-> NoJob]
    /\ phase' = [w \in Worker |-> "idle"]
    /\ result' = [w \in Worker |-> "Success"]
    /\ m_opScheduled' = 0 /\ m_opDone' = 0
    /\ m_completionSignaled' = FALSE /\ stats' = <<0, 0>>
    /\ adding' = [t \in Task |-> IF adding[t] = "absent" THEN "absent" ELSE "added"]
    /\ at' = [c \in Caller |-> IF c = "start" THEN "fetch" ELSE "idle"]
    /\ fetched' = [c \in Caller |-> {}]
    /\ crashes' = [t \in Task |->
           IF \E w \in Worker : phase[w] = "started" /\ running[w].id = t
           THEN crashes[t] + 1 ELSE crashes[t]]
    /\ tried' = {}
    /\ UNCHANGED db

\* forceParserRetry(): Task::resetRetryCount(), and nothing else.  The tasks are not
\* queued again, in spite of "Forces a re-run of all metadata parsers"
\* (IMediaLibrary.h).
forceParserRetry ==
    /\ Spend("retry")
    /\ attempts_left' = [t \in Task |->
           IF t \in rows \cap (Creation \cup Link) /\ ~(Completed \subseteq step[t])
           THEN MaxAttempts(t) ELSE attempts_left[t]]
    /\ crashes' = [t \in Task |-> IF t \in Creation \cup Link THEN 0 ELSE crashes[t]]
    /\ tried' = tried \cup {t \in rows : attempts_left[t] <= 0}
    /\ UNCHANGED <<rows, step, file_id, mounted, workers, counters, callers>>

-----------------------------------------------------------------------------
Work ==
    \E w \in Worker :
        \/ Take(w) \/ Restored(w) \/ Postpone(w) \/ Vanished(w) \/ Start(w)
        \/ createFileAndMedia(w) \/ Done(w) \/ Forward(w)
        \/ \E status \in Status : Finish(w, status)

Restores ==
    \E c \in Caller :
        \/ \E w \in Worker : Flush(c, w)
        \/ ResetCounters(c) \/ Fetch(c) \/ RestoreCounts(c) \/ RestoreQueues(c)

Adds == \E t \in Task : ParseCounts(t) \/ ParseQueues(t)

\* Nothing is queued, running, or about to be queued.
Settled ==
    /\ \A w \in Worker : phase[w] = "idle" /\ m_tasks[w] = <<>>
    /\ \A c \in Caller : at[c] = "idle"
    /\ \A t \in Task : adding[t] \notin {"created", "counted"}

Rest == Settled /\ UNCHANGED vars

Next ==
    \/ Work \/ Restores \/ Adds
    \/ \E t \in Task : Create(t)
    \/ refreshTaskList \/ Mount \/ Crash \/ forceParserRetry
    \/ Rest

Spec == Init /\ [][Next]_vars

\* The threads of the library are scheduled, each service's run() returns.
FairSpec ==
    /\ Spec
    /\ \A w \in Worker :
         WF_vars(\/ Take(w) \/ Restored(w) \/ Postpone(w) \/ Vanished(w)
                 \/ Start(w) \/ createFileAndMedia(w) \/ Done(w) \/ Forward(w)
                 \/ \E status \in Status : Finish(w, status))
    /\ WF_vars(Restores) /\ WF_vars(Adds)

-----------------------------------------------------------------------------
(* Properties.                                                             *)

Jobs == [id : Task, step : SUBSET Worker, attempts : Int,
         info : BOOLEAN, fs : BOOLEAN, file : BOOLEAN]

DatabaseOK ==
    /\ rows \subseteq Task /\ step \in [Task -> SUBSET Worker]
    /\ attempts_left \in [Task -> Int] /\ file_id \subseteq Task /\ mounted \in BOOLEAN

WorkersOK ==
    /\ m_tasks \in [Worker -> Seq(Jobs)]
    /\ running \in [Worker -> Jobs \cup {NoJob}]
    /\ phase \in [Worker -> {"idle", "taken", "started", "ended"}]
    /\ result \in [Worker -> Status]
    /\ \A w \in Worker : phase[w] # "idle" => running[w] \in Jobs

\* With what updateStats() guarantees: never more done than scheduled.
CountersOK ==
    /\ m_opScheduled \in Nat /\ m_opDone \in Nat /\ m_opDone <= m_opScheduled
    /\ m_completionSignaled \in BOOLEAN /\ stats \in Nat \X Nat

CallersOK ==
    /\ adding \in [Task -> {"absent", "created", "counted", "added"}]
    /\ at \in [Caller -> {"idle", "flush0", "flush1", "flush2", "reset", "fetch",
                          "count", "queue"}]
    /\ fetched \in [Caller -> SUBSET Jobs]

ObservedOK ==
    /\ left \in [{"crash", "mount", "refresh", "retry"} -> Nat]
    /\ crashes \in [Task -> Nat] /\ tried \subseteq Task

TypeOK == DatabaseOK /\ WorkersOK /\ CountersOK /\ CallersOK /\ ObservedOK

\* A row that could be parsed, and is not queued any more.
Forgotten(t) ==
    /\ t \in rows \ tried /\ ~(Completed \subseteq step[t]) /\ attempts_left[t] > 0
    /\ t \in Removable => mounted

\* Flushing, restoring, crashing and unmounting at any point, no task is lost:
\* once the queues are empty each has been completed, or tried since the last
\* event that gave it another chance.
NoTaskForgotten ==
    Settled => \A t \in Creation \cup Refresh \cup Link : ~Forgotten(t)

\* "restarting a task with extraction completed but analysis uncompleted wouldn't
\* run the extraction again, causing the analysis to run with no info"
\* (handleServiceResult()): it never does.
AnalysisHasInfo == phase[Analysis] = "started" => running[Analysis].info

\* "in case a file makes (lib)VLC crash, we would always try again, and therefore
\* we would keep on crashing" (handleServiceResult()): a task that is not
\* completed crashes the program at most as often as it has attempts.
CrashesAreBounded ==
    \A t \in Task : crashes[t] <= MaxAttempts(t) \/ Completed \subseteq step[t]

\* Whatever is flushed, dropped or processed twice, the counters agree that all is
\* done once it is.
StatsAreComplete == Settled => m_opDone = m_opScheduled

\* "The task's retry count will still be incremented to avoid looping forever"
\* (Status::Requeue): the queues end up empty.
ParsingSettles == []<>Settled

-----------------------------------------------------------------------------
(* What the documentation promises and TLC refutes (see README.md).        *)

\* "we must signal progress when: All tasks have been processed" (updateStats()).
CompletionIsSignaled == Settled => stats[1] = stats[2]

\* "The service will be paused or unstarted when this method gets called"
\* (IParserService::onFlushing).
FlushSparesRunningServices ==
    [][\A c \in Caller, w \in Worker : Flush(c, w) => phase[w] # "started"]_vars

\* "If true, the media library will attempt to keep the user created playlists"
\* (clearDatabase(), IMediaLibrary.h): the tasks that read them back are parsed.
PlaylistsAreRestored == Settled => \A t \in Restore : ~Forgotten(t)

=============================================================================
