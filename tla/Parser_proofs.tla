---------------------------- MODULE Parser_proofs ----------------------------
(***************************************************************************)
(* The pipeline of Parser, for any rows, crashes, mounts and refreshes: its *)
(* types, that the analysis never runs without what the extraction found,  *)
(* that a task does not crash the program more often than it may be tried, *)
(* that no task is lost, and that the counters agree once all is over.     *)
(***************************************************************************)
EXTENDS Parser, FiniteSetTheorems, TLAPS

(* What the steps of a job say, wherever it is. *)

\* An extraction that is over, alone, comes with its result.
StepOK(j) ==
    /\ j.step \in {{}, {Extraction}, Completed}
    /\ j.step = {Extraction} => j.info

\* Past the extraction, only a link task has not been extracted.
Arrived(w, j) == w = Extraction \/ j.id \in Link \/ j.step # {}

QueuesOK ==
    \A w \in Worker : \A i \in DOMAIN m_tasks[w] :
        StepOK(m_tasks[w][i]) /\ Arrived(w, m_tasks[w][i])

\* A worker's job j in phase p: its step is not completed while it is under way; then
\* what ended it, r, shows.
RunOK(w, j, p, r) ==
    /\ StepOK(j) /\ Arrived(w, j)
    /\ p \in {"taken", "started"} => ~isStepCompleted(j, w)
    /\ p = "started" /\ w = Extraction => j.info
    /\ p = "ended" /\ r = "Completed" => j.step = Completed
    /\ p = "ended" /\ r = "Success" => isStepCompleted(j, w)

RunsOK ==
    \A w \in Worker : phase[w] # "idle" => RunOK(w, running[w], phase[w], result[w])

FetchedOK ==
    \A c \in Caller : IsFiniteSet(fetched[c]) /\ \A j \in fetched[c] : j.step = {}

\* The extraction is never saved alone.
RowsOK == \A t \in Task : step[t] \in {{}, Completed}

Flow == QueuesOK /\ RunsOK /\ FetchedOK /\ RowsOK

IInv == TypeOK /\ Flow

-----------------------------------------------------------------------------
LEMMA InitInv == Init => IInv
<1>. SUFFICES ASSUME Init PROVE IInv
  OBVIOUS
<1>1. DatabaseOK
  <2>1. attempts_left \in [Task -> Int]
    BY ParserAssumption DEF Init, MaxAttempts
  <2>2. step \in [Task -> SUBSET Worker]
    BY DEF Init
  <2>. QED  BY <2>1, <2>2 DEF Init, DatabaseOK, Task
<1>2. WorkersOK
  BY DEF Init, WorkersOK, Status
<1>3. CountersOK
  <2>1. m_completionSignaled \in BOOLEAN
    BY DEF Init
  <2>. QED  BY <2>1 DEF Init, CountersOK
<1>4. CallersOK
  BY DEF Init, CallersOK
<1>5. ObservedOK
  BY ParserAssumption DEF Init, ObservedOK
<1>6. Flow
  BY FS_EmptySet DEF Init, Flow, QueuesOK, RunsOK, RunOK, FetchedOK, RowsOK
<1>. QED  BY <1>1, <1>2, <1>3, <1>4, <1>5, <1>6 DEF IInv, TypeOK

LEMMA Services ==
    /\ Worker = {Extraction, Analysis, Linking}
    /\ Extraction # Analysis /\ Extraction # Linking /\ Analysis # Linking
    /\ Extraction + 1 = Analysis /\ Analysis + 1 = Linking
BY DEF Worker, Extraction, Analysis, Linking

\* A job joins a queue.
LEMMA QueueJob ==
    ASSUME m_tasks \in [Worker -> Seq(Jobs)], QueuesOK,
           NEW w \in Worker, NEW j \in Jobs, StepOK(j), Arrived(w, j),
           m_tasks' = [m_tasks EXCEPT ![w] = Append(@, j)]
    PROVE  m_tasks' \in [Worker -> Seq(Jobs)] /\ QueuesOK'
<1>1. m_tasks' \in [Worker -> Seq(Jobs)]
  OBVIOUS
<1>2. ASSUME NEW x \in Worker, NEW i \in DOMAIN m_tasks'[x]
      PROVE  StepOK(m_tasks'[x][i]) /\ Arrived(x, m_tasks'[x][i])
  <2>1. CASE x = w
    <3>1. m_tasks'[x] = Append(m_tasks[w], j)
      BY <2>1
    <3>2. CASE i \in DOMAIN m_tasks[w]
      <4>1. m_tasks'[x][i] = m_tasks[w][i]
        BY <3>1, <3>2
      <4>. QED  BY <2>1, <3>2, <4>1 DEF QueuesOK
    <3>3. CASE i \notin DOMAIN m_tasks[w]
      <4>1. m_tasks'[x][i] = j
        BY <3>1, <3>3
      <4>. QED  BY <2>1, <4>1
    <3>. QED  BY <3>2, <3>3
  <2>2. CASE x # w
    <3>1. m_tasks'[x] = m_tasks[x]
      BY <2>2
    <3>. QED  BY <3>1 DEF QueuesOK
  <2>. QED  BY <2>1, <2>2
<1>3. QueuesOK'
  BY <1>2 DEF QueuesOK, Arrived
<1>. QED  BY <1>1, <1>3

\* The counters stay in order, whatever they are set to.
LEMMA StatsType ==
    ASSUME CountersOK, NEW done \in Nat, NEW scheduled \in Nat,
           updateStats(done, scheduled)
    PROVE  CountersOK'
<1>. DEFINE d == Least(done, scheduled)
<1>1. d \in Nat /\ d <= scheduled
  BY DEF Least
<1>2. m_opDone' = d /\ m_opScheduled' = scheduled
  BY DEF updateStats
<1>3. m_completionSignaled' \in BOOLEAN
  BY DEF updateStats, CountersOK
<1>4. stats' \in Nat \X Nat
  BY <1>1 DEF updateStats, CountersOK
<1>. QED  BY <1>1, <1>2, <1>3, <1>4 DEF CountersOK

-----------------------------------------------------------------------------
(* New tasks.                                                              *)

LEMMA NewJobOK ==
    ASSUME NEW t \in Task
    PROVE  NewJob(t) \in Jobs /\ StepOK(NewJob(t))
<1>1. MaxAttempts(t) \in Int
  BY ParserAssumption DEF MaxAttempts
<1>2. (t \in Refresh) \in BOOLEAN
  OBVIOUS
<1>. QED  BY <1>1, <1>2 DEF NewJob, Jobs, StepOK, Extraction

LEMMA CreateInv ==
    ASSUME IInv, NEW t \in Task, Create(t)
    PROVE  IInv'
<1>. USE DEF IInv
<1>1. DatabaseOK'
  BY DEF TypeOK, DatabaseOK, Create
<1>2. WorkersOK' /\ CountersOK'
  BY DEF TypeOK, WorkersOK, CountersOK, Create, workers, counters
<1>3. CallersOK' /\ ObservedOK'
  BY DEF TypeOK, CallersOK, ObservedOK, Create, observed
<1>4. Flow'
  BY DEF Flow, QueuesOK, RunsOK, RunOK, FetchedOK, RowsOK, Create, workers
<1>. QED  BY <1>1, <1>2, <1>3, <1>4 DEF TypeOK

LEMMA ParseCountsInv ==
    ASSUME IInv, NEW t \in Task, ParseCounts(t)
    PROVE  IInv'
<1>. USE DEF IInv
<1>1. DatabaseOK' /\ WorkersOK' /\ ObservedOK'
  BY DEF TypeOK, DatabaseOK, WorkersOK, ObservedOK, ParseCounts, db, workers, observed
<1>2. CountersOK'
  BY StatsType DEF TypeOK, CountersOK, ParseCounts
<1>3. CallersOK'
  BY DEF TypeOK, CallersOK, ParseCounts
<1>4. Flow'
  BY DEF Flow, QueuesOK, RunsOK, RunOK, FetchedOK, RowsOK, isStepCompleted, ParseCounts,
    db, workers
<1>. QED  BY <1>1, <1>2, <1>3, <1>4 DEF TypeOK

LEMMA ParseQueuesInv ==
    ASSUME IInv, NEW t \in Task, ParseQueues(t)
    PROVE  IInv'
<1>. USE DEF IInv
<1>1. DatabaseOK' /\ CountersOK' /\ ObservedOK'
  BY DEF TypeOK, DatabaseOK, CountersOK, ObservedOK, ParseQueues, db, counters, observed
<1>2. m_tasks' = [m_tasks EXCEPT ![Extraction] = Append(@, NewJob(t))]
  BY DEF ParseQueues
<1>3. m_tasks' \in [Worker -> Seq(Jobs)] /\ QueuesOK'
  BY <1>2, NewJobOK, QueueJob, Services DEF TypeOK, WorkersOK, Flow, Arrived
<1>4. CallersOK'
  BY DEF TypeOK, CallersOK, ParseQueues
<1>5. WorkersOK'
  BY <1>3 DEF TypeOK, WorkersOK, ParseQueues
<1>6. RunsOK' /\ FetchedOK' /\ RowsOK'
  BY DEF Flow, RunsOK, RunOK, FetchedOK, RowsOK, isStepCompleted, ParseQueues, db
<1>. QED  BY <1>1, <1>3, <1>4, <1>5, <1>6 DEF TypeOK, Flow

-----------------------------------------------------------------------------
(* The loop of a worker.                                                   *)

\* A step of worker w that changes its job to j, its phase to p and its result to r.
LEMMA OwnStep ==
    ASSUME TypeOK, RunsOK,
           NEW w \in Worker, NEW j \in Jobs, NEW r \in Status,
           NEW p \in {"taken", "started", "ended"}, RunOK(w, j, p, r),
           running' = [running EXCEPT ![w] = j],
           phase' = [phase EXCEPT ![w] = p],
           result' = [result EXCEPT ![w] = r],
           m_tasks' \in [Worker -> Seq(Jobs)]
    PROVE  WorkersOK' /\ RunsOK'
<1>1. /\ running' \in [Worker -> Jobs \cup {NoJob}]
      /\ phase' \in [Worker -> {"idle", "taken", "started", "ended"}]
      /\ result' \in [Worker -> Status]
  BY DEF TypeOK, WorkersOK
<1>2. /\ running'[w] = j /\ phase'[w] = p /\ result'[w] = r
      /\ \A x \in Worker \ {w} : /\ running'[x] = running[x] /\ phase'[x] = phase[x]
                                 /\ result'[x] = result[x]
  BY DEF TypeOK, WorkersOK
<1>3. WorkersOK'
  BY <1>1, <1>2 DEF TypeOK, WorkersOK
<1>4. RunsOK'
  BY <1>2, SMTT(30) DEF RunsOK, RunOK, Arrived, StepOK, isStepCompleted
<1>. QED  BY <1>3, <1>4

\* The same, when the queues stay as they are.
LEMMA OwnStepOnly ==
    ASSUME IInv, m_tasks' = m_tasks,
           NEW w \in Worker, NEW j \in Jobs, NEW r \in Status,
           NEW p \in {"taken", "started", "ended"}, RunOK(w, j, p, r),
           running' = [running EXCEPT ![w] = j],
           phase' = [phase EXCEPT ![w] = p],
           result' = [result EXCEPT ![w] = r]
    PROVE  WorkersOK' /\ RunsOK' /\ QueuesOK'
<1>1. m_tasks' \in [Worker -> Seq(Jobs)]
  BY DEF IInv, TypeOK, WorkersOK
<1>2. WorkersOK' /\ RunsOK'
  BY <1>1, OwnStep DEF IInv, Flow
<1>. QED  BY <1>2 DEF IInv, Flow, QueuesOK, Arrived

LEMMA TakeInv ==
    ASSUME IInv, NEW w \in Worker, Take(w)
    PROVE  IInv'
<1>. USE DEF IInv
<1>. DEFINE j == Head(m_tasks[w])
<1>1. DatabaseOK' /\ CountersOK' /\ CallersOK' /\ ObservedOK'
  BY DEF TypeOK, DatabaseOK, CountersOK, CallersOK, ObservedOK, Take, db, counters,
    callers, observed
<1>2. /\ m_tasks[w] \in Seq(Jobs) /\ m_tasks[w] # <<>>
      /\ m_tasks' = [m_tasks EXCEPT ![w] = Tail(@)]
      /\ running' = [running EXCEPT ![w] = j]
  BY DEF Take, TypeOK, WorkersOK
<1>3. j \in Jobs /\ StepOK(j) /\ Arrived(w, j)
  <2>1. 1 \in DOMAIN m_tasks[w] /\ j = m_tasks[w][1]
    BY <1>2
  <2>. QED  BY <1>2, <2>1 DEF Flow, QueuesOK
<1>4. m_tasks' \in [Worker -> Seq(Jobs)]
  BY <1>2 DEF TypeOK, WorkersOK
<1>5. WorkersOK' /\ RunsOK'
  <2>1. CASE isStepCompleted(j, w)
    <3>1. /\ phase' = [phase EXCEPT ![w] = "ended"]
          /\ result' = [result EXCEPT ![w] = "Success"]
      BY <2>1 DEF Take
    <3>2. RunOK(w, j, "ended", "Success")
      BY <1>3, <2>1 DEF RunOK
    <3>. QED  BY <1>2, <1>3, <1>4, <3>1, <3>2, OwnStep DEF Flow, Status
  <2>2. CASE ~isStepCompleted(j, w)
    <3>1. /\ phase' = [phase EXCEPT ![w] = "taken"]
          /\ result' = [result EXCEPT ![w] = result[w]] /\ result[w] \in Status
      BY <2>2 DEF Take, TypeOK, WorkersOK
    <3>2. RunOK(w, j, "taken", result[w])
      BY <1>3, <2>2 DEF RunOK
    <3>. QED  BY <1>2, <1>3, <1>4, <3>1, <3>2, OwnStep DEF Flow
  <2>. QED  BY <2>1, <2>2
<1>6. QueuesOK'
  <2>1. \A x \in Worker : x # w => m_tasks'[x] = m_tasks[x]
    BY <1>2
  <2>2. \A i \in DOMAIN m_tasks'[w] :
          i + 1 \in DOMAIN m_tasks[w] /\ m_tasks'[w][i] = m_tasks[w][i + 1]
    BY <1>2 DEF TypeOK, WorkersOK
  <2>. QED  BY <2>1, <2>2 DEF Flow, QueuesOK, Arrived
<1>7. FetchedOK' /\ RowsOK'
  BY DEF Flow, FetchedOK, RowsOK, Take, db, callers
<1>. QED  BY <1>1, <1>5, <1>6, <1>7 DEF TypeOK, Flow

\* The steps before the service runs, or instead of it.
LEMMA PrepareInv ==
    ASSUME IInv, NEW w \in Worker, Restored(w) \/ Postpone(w) \/ Vanished(w)
    PROVE  IInv'
<1>. USE DEF IInv
<1>. DEFINE j == running[w]
<1>1. phase[w] = "taken" /\ j \in Jobs /\ RunOK(w, j, "taken", result[w])
  BY DEF Restored, Postpone, Vanished, Flow, RunsOK, TypeOK, WorkersOK
<1>2. result[w] \in Status
  BY DEF TypeOK, WorkersOK
<1>3. CASE Restored(w)
  <2>. DEFINE k == [j EXCEPT !.fs = TRUE, !.file = j.id \in file_id]
  <2>1. k \in Jobs /\ RunOK(w, k, "taken", result[w])
    <3>1. (j.id \in file_id) \in BOOLEAN
      OBVIOUS
    <3>2. k \in Jobs
      BY <1>1, <3>1 DEF Jobs
    <3>3. k.id = j.id /\ k.step = j.step /\ k.info = j.info
      BY <1>1 DEF Jobs
    <3>. QED  BY <1>1, <3>2, <3>3 DEF RunOK, StepOK, Arrived, isStepCompleted
  <2>2. /\ running' = [running EXCEPT ![w] = k]
        /\ phase' = [phase EXCEPT ![w] = "taken"]
        /\ result' = [result EXCEPT ![w] = result[w]] /\ m_tasks' = m_tasks
    BY <1>1, <1>3 DEF Restored, TypeOK, WorkersOK
  <2>3. WorkersOK' /\ RunsOK' /\ QueuesOK'
    BY <1>2, <2>1, <2>2, OwnStepOnly
  <2>4. UNCHANGED <<db, counters, callers, observed>>
    BY <1>3 DEF Restored
  <2>. QED
    BY <2>3, <2>4 DEF TypeOK, DatabaseOK, CountersOK, CallersOK, ObservedOK, Flow, FetchedOK,
      RowsOK, db, counters, callers, observed
<1>4. CASE Postpone(w) \/ Vanished(w)
  <2>1. /\ running' = [running EXCEPT ![w] = j]
        /\ phase' = [phase EXCEPT ![w] = "ended"]
        /\ result' = [result EXCEPT ![w] = "TemporaryUnavailable"]
        /\ m_tasks' = m_tasks
    BY <1>4 DEF Postpone, Vanished, Ends, TypeOK, WorkersOK
  <2>2. RunOK(w, j, "ended", "TemporaryUnavailable")
    BY <1>1 DEF RunOK
  <2>3. WorkersOK' /\ RunsOK' /\ QueuesOK'
    BY <1>1, <2>1, <2>2, OwnStepOnly DEF Status
  <2>4. /\ UNCHANGED <<step, attempts_left, file_id, mounted, counters, callers,
                       observed>>
        /\ rows' \subseteq rows
    BY <1>4 DEF Postpone, Vanished, db
  <2>. QED
    BY <2>3, <2>4 DEF TypeOK, DatabaseOK, CountersOK, CallersOK, ObservedOK, Flow, FetchedOK,
      RowsOK, counters, callers, observed
<1>. QED  BY <1>3, <1>4

LEMMA StartInv ==
    ASSUME IInv, NEW w \in Worker, Start(w)
    PROVE  IInv'
<1>. USE DEF IInv
<1>. DEFINE j == running[w]
            k == [j EXCEPT !.attempts = @ - 1, !.info = @ \/ w = Extraction]
<1>1. phase[w] = "taken" /\ j \in Jobs /\ RunOK(w, j, "taken", result[w])
  BY DEF Start, IsReady, Flow, RunsOK, TypeOK, WorkersOK
<1>2. result[w] \in Status
  BY DEF TypeOK, WorkersOK
<1>3. /\ k \in Jobs /\ k.id = j.id /\ k.step = j.step
      /\ k.info = (j.info \/ w = Extraction)
  <2>1. (j.info \/ w = Extraction) \in BOOLEAN /\ j.attempts - 1 \in Int
    BY <1>1 DEF Jobs
  <2>. QED  BY <1>1, <2>1 DEF Jobs
<1>4. RunOK(w, k, "started", result[w])
  BY <1>1, <1>3 DEF RunOK, StepOK, Arrived, isStepCompleted
<1>5. /\ running' = [running EXCEPT ![w] = k]
      /\ phase' = [phase EXCEPT ![w] = "started"]
      /\ result' = [result EXCEPT ![w] = result[w]] /\ m_tasks' = m_tasks
  BY DEF Start, TypeOK, WorkersOK
<1>6. WorkersOK' /\ RunsOK' /\ QueuesOK'
  BY <1>2, <1>3, <1>4, <1>5, OwnStepOnly
<1>7. DatabaseOK'
  <2>1. attempts_left' \in [Task -> Int]
    <3>1. attempts_left[j.id] - 1 \in Int
      BY <1>1 DEF TypeOK, DatabaseOK, Jobs
    <3>. QED  BY <3>1 DEF TypeOK, DatabaseOK, Start
  <2>. QED  BY <2>1 DEF TypeOK, DatabaseOK, Start
<1>8. UNCHANGED <<step, counters, callers, observed>>
  BY DEF Start
<1>. QED
  BY <1>6, <1>7, <1>8 DEF TypeOK, CountersOK, CallersOK, ObservedOK, Flow, FetchedOK, RowsOK,
    counters, callers, observed

LEMMA CreateFileInv ==
    ASSUME IInv, NEW w \in Worker, createFileAndMedia(w)
    PROVE  IInv'
<1>. USE DEF IInv
<1>. DEFINE j == running[w]
            k == [j EXCEPT !.file = TRUE]
<1>1. phase[w] = "started" /\ j \in Jobs /\ RunOK(w, j, "started", result[w])
  BY DEF createFileAndMedia, Flow, RunsOK, TypeOK, WorkersOK
<1>2. result[w] \in Status
  BY DEF TypeOK, WorkersOK
<1>3. k \in Jobs /\ k.id = j.id /\ k.step = j.step /\ k.info = j.info
  BY <1>1 DEF Jobs
<1>4. RunOK(w, k, "started", result[w])
  BY <1>1, <1>3 DEF RunOK, StepOK, Arrived, isStepCompleted
<1>5. /\ running' = [running EXCEPT ![w] = k]
      /\ phase' = [phase EXCEPT ![w] = "started"]
      /\ result' = [result EXCEPT ![w] = result[w]] /\ m_tasks' = m_tasks
  BY <1>1 DEF createFileAndMedia, TypeOK, WorkersOK
<1>6. WorkersOK' /\ RunsOK' /\ QueuesOK'
  BY <1>2, <1>3, <1>4, <1>5, OwnStepOnly
<1>7. DatabaseOK'
  BY <1>1 DEF TypeOK, DatabaseOK, createFileAndMedia, Jobs
<1>8. UNCHANGED <<step, counters, callers, observed>>
  BY DEF createFileAndMedia
<1>. QED
  BY <1>6, <1>7, <1>8 DEF TypeOK, CountersOK, CallersOK, ObservedOK, Flow, FetchedOK, RowsOK,
    counters, callers, observed

\* The end of a service that leaves the job k and the row's steps.
LEMMA FinishWith ==
    ASSUME IInv, NEW w \in Worker, NEW status \in Status, phase[w] = "started",
           NEW k \in Jobs, k.id = running[w].id, RunOK(w, k, "ended", status),
           running' = [running EXCEPT ![w] = k],
           phase' = [phase EXCEPT ![w] = "ended"],
           result' = [result EXCEPT ![w] = status],
           rows' \subseteq rows, attempts_left' \in [Task -> Int],
           \/ step' = step
           \/ k.step = Completed /\ step' = [step EXCEPT ![k.id] = k.step],
           UNCHANGED <<file_id, mounted, m_tasks, counters, callers, observed>>
    PROVE  IInv'
<1>. USE DEF IInv
<1>1. WorkersOK' /\ RunsOK' /\ QueuesOK'
  BY OwnStepOnly
<1>2. step' \in [Task -> SUBSET Worker] /\ RowsOK'
  <2>1. k.id \in Task /\ Completed \in SUBSET Worker
    BY Services DEF Jobs, Completed
  <2>. QED  BY <2>1 DEF TypeOK, DatabaseOK, Flow, RowsOK
<1>3. DatabaseOK'
  BY <1>2 DEF TypeOK, DatabaseOK
<1>. QED
  BY <1>1, <1>2, <1>3 DEF TypeOK, CountersOK, CallersOK, ObservedOK, Flow, FetchedOK,
    counters, callers, observed

\* handleServiceResult(): what a service returned is in the job it leaves.
LEMMA FinishInv ==
    ASSUME IInv, NEW w \in Worker, NEW status \in Status, Finish(w, status)
    PROVE  IInv'
<1>. USE DEF IInv
<1>. DEFINE j == running[w]
            t == j.id
<1>1. phase[w] = "started" /\ j \in Jobs /\ RunOK(w, j, "started", result[w])
  BY DEF Finish, Flow, RunsOK, TypeOK, WorkersOK
<1>2. /\ t \in Task /\ j.attempts \in Int /\ j.step \in SUBSET Worker
      /\ MaxAttempts(t) \in Int
  BY <1>1, ParserAssumption DEF Jobs, MaxAttempts
<1>3. /\ phase' = [phase EXCEPT ![w] = "ended"]
      /\ result' = [result EXCEPT ![w] = status]
      /\ UNCHANGED <<file_id, mounted, m_tasks, counters, callers, observed>>
  BY DEF Finish, Ends
<1>4. running \in [Worker -> Jobs \cup {NoJob}] /\ attempts_left \in [Task -> Int]
  BY DEF TypeOK, WorkersOK, DatabaseOK
<1>5. CASE status = "Success" /\ w = Extraction
  <2>. DEFINE k == [j EXCEPT !.step = @ \cup {w}, !.attempts = @ + 1]
  <2>1. /\ running' = [running EXCEPT ![w] = k]
        /\ attempts_left' = [attempts_left EXCEPT ![t] = @ + 1]
        /\ rows' = rows /\ step' = step
    BY <1>5 DEF Finish, handleServiceResult
  <2>2. k \in Jobs /\ k.id = t /\ k.step = j.step \cup {w} /\ k.info = j.info
    <3>1. j.step \cup {w} \in SUBSET Worker /\ j.attempts + 1 \in Int
      BY <1>2
    <3>. QED  BY <1>1, <3>1 DEF Jobs
  <2>3. RunOK(w, k, "ended", status)
    <3>1. StepOK(j) /\ ~isStepCompleted(j, w) /\ j.info
      BY <1>1, <1>5 DEF RunOK
    <3>2. t \notin Link /\ j.step = {}
      BY <1>5, <3>1, Services DEF isStepCompleted, StepOK, Completed
    <3>3. k.step = {Extraction} /\ k.info /\ k.id \notin Link
      BY <1>5, <2>2, <3>1, <3>2
    <3>. QED  BY <1>5, <3>3 DEF RunOK, StepOK, Arrived, isStepCompleted
  <2>4. attempts_left' \in [Task -> Int]
    BY <1>2, <1>4, <2>1
  <2>. QED  BY <1>1, <1>3, <2>1, <2>2, <2>3, <2>4, FinishWith
<1>6. CASE status = "Completed" \/ (status = "Success" /\ w # Extraction)
  <2>. DEFINE k == [j EXCEPT !.step = Completed, !.attempts = MaxAttempts(t)]
  <2>1. Save(w, Completed)
    <3>1. CASE status = "Completed"
      BY <3>1 DEF Finish, handleServiceResult
    <3>2. CASE status = "Success" /\ w # Extraction
      <4>1. w = Analysis
        BY <3>2, Services DEF Finish, Results
      <4>2. j.step \cup {w} = Completed
        BY <1>1, <4>1, Services DEF RunOK, StepOK, Arrived, isStepCompleted, Completed
      <4>3. Save(w, j.step \cup {w})
        BY <3>2 DEF Finish, handleServiceResult
      <4>. QED  BY <4>2, <4>3
    <3>. QED  BY <1>6, <3>1, <3>2
  <2>2. /\ running' = [running EXCEPT ![w] = k]
        /\ step' = [step EXCEPT ![t] = Completed]
        /\ attempts_left' = [attempts_left EXCEPT ![t] = MaxAttempts(t)]
        /\ rows' = rows
    BY <2>1 DEF Save
  <2>3. k \in Jobs /\ k.id = t /\ k.step = Completed /\ k.info = j.info
    BY <1>1, <1>2, Services DEF Jobs, Completed
  <2>4. RunOK(w, k, "ended", status)
    <3>1. status = "Success" => w = Analysis
      BY <1>1, <1>6, Services DEF Finish, Results
    <3>. QED
      BY <1>1, <2>3, <3>1, Services DEF RunOK, StepOK, Arrived, isStepCompleted, Completed
  <2>5. attempts_left' \in [Task -> Int]
    BY <1>2, <1>4, <2>2
  <2>. QED  BY <1>1, <1>3, <2>2, <2>3, <2>4, <2>5, FinishWith
<1>7. CASE status \notin {"Success", "Completed"}
  <2>1. running' = running /\ step' = step /\ attempts_left' = attempts_left
        /\ rows' \subseteq rows
    BY <1>7 DEF Finish, handleServiceResult
  <2>2. running' = [running EXCEPT ![w] = j]
    BY <1>4, <2>1
  <2>3. RunOK(w, j, "ended", status)
    BY <1>1, <1>7 DEF RunOK
  <2>. QED  BY <1>1, <1>3, <1>4, <2>1, <2>2, <2>3, FinishWith
<1>. QED  BY <1>5, <1>6, <1>7

-----------------------------------------------------------------------------
(* Parser::done().                                                         *)

\* A worker that is idle again.
LEMMA FreesInv ==
    ASSUME IInv, NEW w \in Worker, Frees(w), rows' \subseteq rows, tried' \subseteq Task,
           CountersOK', m_tasks' \in [Worker -> Seq(Jobs)], QueuesOK'
    PROVE  IInv'
<1>. USE DEF IInv
<1>1. DatabaseOK'
  BY DEF TypeOK, DatabaseOK, Frees
<1>2. CallersOK' /\ ObservedOK'
  BY DEF TypeOK, CallersOK, ObservedOK, Frees, callers
<1>3. /\ phase'[w] = "idle"
      /\ \A x \in Worker \ {w} : phase'[x] = phase[x] /\ running'[x] = running[x]
      /\ result' = result
  BY DEF Frees, TypeOK, WorkersOK
<1>4. WorkersOK'
  <2>1. /\ running' \in [Worker -> Jobs \cup {NoJob}]
        /\ phase' \in [Worker -> {"idle", "taken", "started", "ended"}]
    BY DEF Frees, TypeOK, WorkersOK
  <2>. QED  BY <1>3, <2>1 DEF TypeOK, WorkersOK
<1>5. RunsOK'
  BY <1>3 DEF Flow, RunsOK, RunOK, Arrived, StepOK, isStepCompleted
<1>6. FetchedOK' /\ RowsOK'
  BY DEF Flow, FetchedOK, RowsOK, Frees, callers
<1>. QED  BY <1>1, <1>2, <1>4, <1>5, <1>6 DEF TypeOK, Flow

LEMMA DoneInv ==
    ASSUME IInv, NEW w \in Worker, Done(w)
    PROVE  IInv'
<1>. USE DEF IInv
<1>1. CountersOK'
  <2>1. CountersOK /\ m_opDone + 1 \in Nat /\ m_opScheduled \in Nat
    BY DEF TypeOK, CountersOK
  <2>. QED  BY <2>1, StatsType DEF Done
<1>2. m_tasks' \in [Worker -> Seq(Jobs)] /\ QueuesOK'
  BY DEF Done, TypeOK, WorkersOK, Flow, QueuesOK, Arrived
<1>3. rows' \subseteq rows /\ Frees(w)
  BY DEF Done
<1>4. tried' \subseteq Task
  <2>1. running[w].id \in Task
    BY DEF Done, TypeOK, WorkersOK, Jobs
  <2>. QED  BY <2>1 DEF Done, TypeOK, ObservedOK
<1>. QED  BY <1>1, <1>2, <1>3, <1>4, FreesInv

\* A job only goes on to a service it has what it needs for, and never past the last.
LEMMA ForwardInv ==
    ASSUME IInv, NEW w \in Worker, Forward(w)
    PROVE  IInv'
<1>. USE DEF IInv
<1>. DEFINE j == running[w]
            next == IF result[w] = "Requeue" THEN Extraction ELSE w + 1
<1>1. phase[w] = "ended" /\ j \in Jobs /\ RunOK(w, j, "ended", result[w])
  BY DEF Forward, Flow, RunsOK, TypeOK, WorkersOK
<1>2. next \in Worker /\ Arrived(next, j)
  <2>1. CASE result[w] = "Requeue"
    BY <2>1, Services DEF Arrived
  <2>2. CASE result[w] # "Requeue"
    <3>1. result[w] = "Success" /\ ~isCompleted(j)
      BY <1>1, <2>2 DEF Forward, IsOver, TypeOK, WorkersOK, Status, RunOK, isCompleted
    <3>2. isStepCompleted(j, w) /\ StepOK(j)
      BY <1>1, <3>1 DEF RunOK
    <3>3. w # Linking
      BY <3>2, Services DEF isStepCompleted, StepOK, Completed
    <3>4. j.id \in Link \/ j.step # {}
      BY <3>2 DEF isStepCompleted
    <3>. QED  BY <2>2, <3>3, <3>4, Services DEF Arrived
  <2>. QED  BY <2>1, <2>2
<1>3. m_tasks' = [m_tasks EXCEPT ![next] = Append(@, j)]
  BY DEF Forward
<1>4. m_tasks' \in [Worker -> Seq(Jobs)] /\ QueuesOK'
  <2>1. StepOK(j)
    BY <1>1 DEF RunOK
  <2>. HIDE DEF next, j
  <2>. QED  BY <1>1, <1>2, <1>3, <2>1, QueueJob DEF TypeOK, WorkersOK, Flow
<1>5. CountersOK' /\ rows' \subseteq rows /\ tried' \subseteq Task /\ Frees(w)
  BY DEF Forward, TypeOK, CountersOK, ObservedOK, counters
<1>. QED  BY <1>4, <1>5, FreesInv

-----------------------------------------------------------------------------
(* The threads that throw the queues away, and fill them again.            *)

\* The workers and the rows are left alone, and a caller goes on.
LEMMA CallerStep ==
    ASSUME IInv, UNCHANGED <<db, running, phase, result, adding, observed>>,
           m_tasks' \in [Worker -> Seq(Jobs)], QueuesOK', CountersOK',
           NEW c \in Caller,
           NEW where \in {"idle", "flush0", "flush1", "flush2", "reset", "fetch", "count",
                          "queue"},
           Goes(c, where),
           fetched' \in [Caller -> SUBSET Jobs], FetchedOK'
    PROVE  IInv'
<1>. USE DEF IInv
<1>1. DatabaseOK' /\ ObservedOK'
  BY DEF TypeOK, DatabaseOK, ObservedOK, db, observed
<1>2. WorkersOK'
  BY DEF TypeOK, WorkersOK
<1>3. CallersOK'
  BY DEF TypeOK, CallersOK, Goes
<1>4. RunsOK' /\ RowsOK'
  BY DEF Flow, RunsOK, RunOK, Arrived, StepOK, isStepCompleted, RowsOK, db
<1>. QED  BY <1>1, <1>2, <1>3, <1>4 DEF TypeOK, Flow

LEMMA FlushInv ==
    ASSUME IInv, NEW c \in Caller, NEW w \in Worker, Flush(c, w)
    PROVE  IInv'
<1>. USE DEF IInv
<1>. DEFINE where == CASE w = Extraction -> "flush1" [] w = Analysis -> "flush2"
                       [] w = Linking -> "reset"
<1>1. where \in {"flush1", "flush2", "reset"} /\ Goes(c, where)
  BY Services DEF Flush
<1>2. m_tasks' \in [Worker -> Seq(Jobs)] /\ m_tasks' = [m_tasks EXCEPT ![w] = <<>>]
  BY DEF Flush, TypeOK, WorkersOK
<1>3. QueuesOK'
  <2>1. m_tasks'[w] = <<>> /\ \A x \in Worker \ {w} : m_tasks'[x] = m_tasks[x]
    BY <1>2 DEF TypeOK, WorkersOK
  <2>2. ASSUME NEW x \in Worker, NEW i \in DOMAIN m_tasks'[x]
        PROVE  i \in DOMAIN m_tasks[x] /\ m_tasks'[x][i] = m_tasks[x][i]
    BY <2>1
  <2>. QED  BY <2>2 DEF Flow, QueuesOK, Arrived
<1>4. /\ UNCHANGED <<db, running, phase, result, adding, observed>>
      /\ CountersOK' /\ fetched' \in [Caller -> SUBSET Jobs] /\ FetchedOK'
  BY DEF Flush, TypeOK, CountersOK, CallersOK, counters, Flow, FetchedOK
<1>. HIDE DEF where
<1>. QED  BY <1>1, <1>2, <1>3, <1>4, CallerStep

LEMMA ResetCountersInv ==
    ASSUME IInv, NEW c \in Caller, ResetCounters(c)
    PROVE  IInv'
<1>. USE DEF IInv
<1>1. CountersOK'
  BY DEF ResetCounters, TypeOK, CountersOK
<1>2. m_tasks' \in [Worker -> Seq(Jobs)] /\ QueuesOK'
  BY DEF ResetCounters, TypeOK, WorkersOK, Flow, QueuesOK, Arrived, workers
<1>3. fetched' \in [Caller -> SUBSET Jobs] /\ FetchedOK'
  BY DEF ResetCounters, TypeOK, CallersOK, Flow, FetchedOK
<1>4. UNCHANGED <<db, running, phase, result, adding, observed>> /\ Goes(c, "fetch")
  BY DEF ResetCounters, workers
<1>. QED  BY <1>1, <1>2, <1>3, <1>4, CallerStep

\* A row that is fetched has no step behind it.
LEMMA FetchInv ==
    ASSUME IInv, NEW c \in Caller, Fetch(c)
    PROVE  IInv'
<1>. USE DEF IInv
<1>. DEFINE U == {u \in Task : Fetchable(u)}
            F == {Job(t) : t \in U}
            where == IF F = {} THEN "idle" ELSE "count"
<1>1. fetched' = [fetched EXCEPT ![c] = F] /\ fetched'[c] = F
  BY DEF Fetch, TypeOK, CallersOK
<1>2. \A t \in U : Job(t) \in Jobs /\ Job(t).step = {}
  BY DEF Fetchable, Flow, RowsOK, Job, Jobs, TypeOK, DatabaseOK
<1>3. IsFiniteSet(F)
  <2>1. IsFiniteSet(Task)
    BY ParserAssumption DEF Task
  <2>2. IsFiniteSet(U)
    BY <2>1, FS_Subset
  <2>. DEFINE f == [u \in U |-> Job(u)]
  <2>3. f \in Surjection(U, F)
    BY DEF Surjection
  <2>. HIDE DEF U, F, f
  <2>. QED  BY <2>2, <2>3, FS_Surjection
<1>4. fetched' \in [Caller -> SUBSET Jobs]
  BY <1>1, <1>2 DEF TypeOK, CallersOK
<1>5. FetchedOK'
  <2>1. \A j \in F : j.step = {}
    BY <1>2
  <2>2. \A d \in Caller \ {c} : fetched'[d] = fetched[d]
    BY <1>1 DEF TypeOK, CallersOK
  <2>. HIDE DEF F
  <2>. QED  BY <1>1, <1>3, <2>1, <2>2 DEF Flow, FetchedOK
<1>6. Goes(c, where)
  BY <1>1 DEF Fetch
<1>7. /\ UNCHANGED <<db, running, phase, result, adding, observed>>
      /\ m_tasks' \in [Worker -> Seq(Jobs)] /\ QueuesOK' /\ CountersOK'
  BY DEF Fetch, TypeOK, WorkersOK, CountersOK, Flow, QueuesOK, Arrived, workers, counters
<1>. HIDE DEF F
<1>. QED  BY <1>4, <1>5, <1>6, <1>7, CallerStep

LEMMA RestoreCountsInv ==
    ASSUME IInv, NEW c \in Caller, RestoreCounts(c)
    PROVE  IInv'
<1>. USE DEF IInv
<1>1. CountersOK'
  <2>1. Cardinality(fetched[c]) \in Nat
    BY FS_CardinalityType DEF Flow, FetchedOK
  <2>2. m_opDone \in Nat /\ m_opScheduled + Cardinality(fetched[c]) \in Nat /\ CountersOK
    BY <2>1 DEF TypeOK, CountersOK
  <2>. QED  BY <2>2, StatsType DEF RestoreCounts
<1>2. m_tasks' \in [Worker -> Seq(Jobs)] /\ QueuesOK'
  BY DEF RestoreCounts, TypeOK, WorkersOK, Flow, QueuesOK, Arrived, workers
<1>3. fetched' \in [Caller -> SUBSET Jobs] /\ FetchedOK'
  BY DEF RestoreCounts, TypeOK, CallersOK, Flow, FetchedOK
<1>4. UNCHANGED <<db, running, phase, result, adding, observed>> /\ Goes(c, "queue")
  BY DEF RestoreCounts, workers
<1>. QED  BY <1>1, <1>2, <1>3, <1>4, CallerStep

LEMMA RestoreQueuesInv ==
    ASSUME IInv, NEW c \in Caller, RestoreQueues(c)
    PROVE  IInv'
<1>. USE DEF IInv
<1>. DEFINE F == fetched[c]
            n == Cardinality(F)
<1>1. PICK order \in [1..n -> F] :
          m_tasks' = [m_tasks EXCEPT ![Extraction] = @ \o order]
  BY DEF RestoreQueues
<1>2. /\ n \in Nat /\ F \subseteq Jobs /\ \A j \in F : j.step = {}
      /\ fetched' = [fetched EXCEPT ![c] = {}]
  BY FS_CardinalityType DEF Flow, FetchedOK, TypeOK, CallersOK, RestoreQueues
<1>3. order \in Seq(Jobs) /\ Len(order) = n
  BY <1>2
<1>4. /\ m_tasks' \in [Worker -> Seq(Jobs)]
      /\ m_tasks'[Extraction] = m_tasks[Extraction] \o order
      /\ \A x \in Worker \ {Extraction} : m_tasks'[x] = m_tasks[x]
  BY <1>1, <1>3, Services DEF TypeOK, WorkersOK
<1>5. QueuesOK'
  <2>1. ASSUME NEW i \in DOMAIN m_tasks'[Extraction]
        PROVE  StepOK(m_tasks'[Extraction][i])
    <3>. DEFINE q == m_tasks[Extraction]
    <3>1. q \in Seq(Jobs)
      BY Services DEF TypeOK, WorkersOK
    <3>2. i \in 1..(Len(q) + n)
      BY <1>3, <1>4, <3>1
    <3>3. CASE i <= Len(q)
      <4>1. i \in DOMAIN q /\ m_tasks'[Extraction][i] = q[i]
        BY <1>3, <1>4, <3>1, <3>2, <3>3
      <4>. QED  BY <4>1, Services DEF Flow, QueuesOK
    <3>4. CASE i > Len(q)
      <4>1. i - Len(q) \in 1..n /\ m_tasks'[Extraction][i] = order[i - Len(q)]
        BY <1>2, <1>3, <1>4, <3>1, <3>2, <3>4
      <4>2. order[i - Len(q)] \in F
        BY <1>1, <4>1
      <4>. QED  BY <1>2, <4>1, <4>2, Services DEF StepOK
    <3>. QED  BY <3>1, <3>2, <3>3, <3>4
  <2>2. \A x \in Worker \ {Extraction} : \A i \in DOMAIN m_tasks'[x] :
            StepOK(m_tasks'[x][i]) /\ Arrived(x, m_tasks'[x][i])
    BY <1>4 DEF Flow, QueuesOK
  <2>. QED  BY <2>1, <2>2 DEF QueuesOK, Arrived
<1>6. fetched' \in [Caller -> SUBSET Jobs] /\ FetchedOK'
  BY <1>2, FS_EmptySet DEF TypeOK, CallersOK, Flow, FetchedOK
<1>7. UNCHANGED <<db, running, phase, result, adding, observed>> /\ Goes(c, "idle")
  BY DEF RestoreQueues
<1>8. CountersOK'
  BY DEF RestoreQueues, TypeOK, CountersOK, counters
<1>. QED  BY <1>4, <1>5, <1>6, <1>7, <1>8, CallerStep

-----------------------------------------------------------------------------
(* What makes them call it.                                                *)

LEMMA RefreshInv ==
    ASSUME IInv, refreshTaskList
    PROVE  IInv'
<1>. USE DEF IInv
<1>1. DatabaseOK' /\ WorkersOK' /\ CountersOK'
  BY DEF refreshTaskList, TypeOK, DatabaseOK, WorkersOK, CountersOK, db, workers, counters
<1>2. CallersOK'
  BY DEF refreshTaskList, Goes, TypeOK, CallersOK
<1>3. ObservedOK'
  BY DEF refreshTaskList, Spend, TypeOK, ObservedOK
<1>4. Flow'
  BY DEF refreshTaskList, Flow, QueuesOK, RunsOK, RunOK, Arrived, StepOK, isStepCompleted,
    FetchedOK, RowsOK, db, workers
<1>. QED  BY <1>1, <1>2, <1>3, <1>4 DEF TypeOK

LEMMA MountInv ==
    ASSUME IInv, Mount
    PROVE  IInv'
<1>. USE DEF IInv
<1>1. DatabaseOK' /\ WorkersOK' /\ CountersOK'
  BY DEF Mount, TypeOK, DatabaseOK, WorkersOK, CountersOK, workers, counters
<1>2. CallersOK'
  BY DEF Mount, Goes, TypeOK, CallersOK
<1>3. ObservedOK'
  BY DEF Mount, Spend, TypeOK, ObservedOK
<1>4. Flow'
  BY DEF Mount, Flow, QueuesOK, RunsOK, RunOK, Arrived, StepOK, isStepCompleted,
    FetchedOK, RowsOK, workers
<1>. QED  BY <1>1, <1>2, <1>3, <1>4 DEF TypeOK

LEMMA CrashInv ==
    ASSUME IInv, Crash
    PROVE  IInv'
<1>. USE DEF IInv
<1>1. DatabaseOK' /\ RowsOK'
  BY DEF Crash, TypeOK, DatabaseOK, Flow, RowsOK, db
<1>2. WorkersOK'
  <2>1. m_tasks' \in [Worker -> Seq(Jobs)]
    BY DEF Crash
  <2>. QED  BY <2>1 DEF Crash, WorkersOK, Status
<1>3. CountersOK'
  <2>1. m_completionSignaled' \in BOOLEAN
    BY DEF Crash
  <2>. QED  BY <2>1 DEF Crash, CountersOK
<1>4. CallersOK'
  <2>1. adding' \in [Task -> {"absent", "created", "counted", "added"}]
    BY DEF Crash
  <2>. QED  BY <2>1 DEF Crash, CallersOK
<1>5. ObservedOK'
  <2>1. crashes' \in [Task -> Nat]
    BY DEF Crash, TypeOK, ObservedOK
  <2>. QED  BY <2>1 DEF Crash, Spend, TypeOK, ObservedOK
<1>6. QueuesOK' /\ RunsOK' /\ FetchedOK'
  BY FS_EmptySet DEF Crash, QueuesOK, RunsOK, FetchedOK
<1>. QED  BY <1>1, <1>2, <1>3, <1>4, <1>5, <1>6 DEF TypeOK, Flow

LEMMA RetryInv ==
    ASSUME IInv, forceParserRetry
    PROVE  IInv'
<1>. USE DEF IInv
<1>1. DatabaseOK'
  <2>1. attempts_left' \in [Task -> Int]
    BY ParserAssumption DEF forceParserRetry, MaxAttempts, TypeOK, DatabaseOK
  <2>. QED  BY <2>1 DEF forceParserRetry, TypeOK, DatabaseOK
<1>2. WorkersOK' /\ CountersOK' /\ CallersOK'
  BY DEF forceParserRetry, TypeOK, WorkersOK, CountersOK, CallersOK, workers, counters,
    callers
<1>3. ObservedOK'
  <2>1. crashes' \in [Task -> Nat]
    BY DEF forceParserRetry, TypeOK, ObservedOK
  <2>2. tried' \subseteq Task
    BY DEF forceParserRetry, TypeOK, ObservedOK, DatabaseOK
  <2>. QED  BY <2>1, <2>2 DEF forceParserRetry, Spend, TypeOK, ObservedOK
<1>4. Flow'
  BY DEF forceParserRetry, Flow, QueuesOK, RunsOK, RunOK, Arrived, StepOK, isStepCompleted,
    FetchedOK, RowsOK, workers, callers
<1>. QED  BY <1>1, <1>2, <1>3, <1>4 DEF TypeOK

LEMMA StutterInv ==
    ASSUME IInv, UNCHANGED vars
    PROVE  IInv'
<1>. USE DEF IInv, vars
<1>1. DatabaseOK' /\ WorkersOK' /\ CountersOK' /\ CallersOK' /\ ObservedOK'
  BY DEF TypeOK, DatabaseOK, WorkersOK, CountersOK, CallersOK, ObservedOK, db, workers,
    counters, callers, observed
<1>2. Flow'
  BY DEF Flow, QueuesOK, RunsOK, RunOK, Arrived, StepOK, isStepCompleted, FetchedOK, RowsOK,
    db, workers, callers
<1>. QED  BY <1>1, <1>2 DEF TypeOK

-----------------------------------------------------------------------------
LEMMA StepInv == IInv /\ [Next]_vars => IInv'
<1>. SUFFICES ASSUME IInv, [Next]_vars PROVE IInv'
  OBVIOUS
<1>1. CASE Work
  <2>1. PICK w \in Worker :
            \/ Take(w) \/ Restored(w) \/ Postpone(w) \/ Vanished(w) \/ Start(w)
            \/ createFileAndMedia(w) \/ Done(w) \/ Forward(w)
            \/ \E status \in Status : Finish(w, status)
    BY <1>1 DEF Work
  <2>. QED
    BY <2>1, TakeInv, PrepareInv, StartInv, CreateFileInv, DoneInv, ForwardInv, FinishInv
<1>2. CASE Restores
  <2>1. PICK c \in Caller :
            \/ \E w \in Worker : Flush(c, w)
            \/ ResetCounters(c) \/ Fetch(c) \/ RestoreCounts(c) \/ RestoreQueues(c)
    BY <1>2 DEF Restores
  <2>. QED
    BY <2>1, FlushInv, ResetCountersInv, FetchInv, RestoreCountsInv, RestoreQueuesInv
<1>3. CASE Adds \/ \E t \in Task : Create(t)
  BY <1>3, CreateInv, ParseCountsInv, ParseQueuesInv DEF Adds
<1>4. CASE refreshTaskList \/ Mount \/ Crash \/ forceParserRetry
  BY <1>4, RefreshInv, MountInv, CrashInv, RetryInv
<1>5. CASE Rest \/ UNCHANGED vars
  BY <1>5, StutterInv DEF Rest
<1>. QED  BY <1>1, <1>2, <1>3, <1>4, <1>5 DEF Next

LEMMA Invariance == Spec => []IInv
BY InitInv, StepInv, PTL DEF Spec

\* However the threads of the parser, of the discoverer and of the devices interleave,
\* and wherever the program crashes, the rows, the jobs and the counters stay well formed:
\* in particular no more tasks are counted as done than as scheduled.
THEOREM TypeCorrect == Spec => []TypeOK
<1>1. IInv => TypeOK
  BY DEF IInv
<1>. QED  BY <1>1, Invariance, PTL

\* For any rows and any number of restarts, the service that analyzes a media only runs
\* on a job that its extraction has filled.
THEOREM AnalysisNeedsInfo == Spec => []AnalysisHasInfo
<1>1. ASSUME IInv PROVE AnalysisHasInfo
  <2>. SUFFICES ASSUME phase[Analysis] = "started" PROVE running[Analysis].info
    BY DEF AnalysisHasInfo
  <2>1. RunOK(Analysis, running[Analysis], "started", result[Analysis])
    BY <1>1, Services DEF IInv, Flow, RunsOK
  <2>. QED
    BY <2>1, Services DEF RunOK, StepOK, Arrived, isStepCompleted, Completed
<1>. QED  BY <1>1, Invariance, PTL

-----------------------------------------------------------------------------
(* How often a task crashes the program, when no retry is forced.          *)

\* Where a job of row t is, or is about to be.
Coming(t) == adding[t] \in {"created", "counted"}
Queued(t) == \E w \in Worker : \E i \in DOMAIN m_tasks[w] : m_tasks[w][i].id = t
InWorker(t) == \E w \in Worker : phase[w] # "idle" /\ running[w].id = t
IsFetched(t) == \E c \in Caller : \E j \in fetched[c] : j.id = t

HasJob(t) == Coming(t) \/ Queued(t) \/ InWorker(t) \/ IsFetched(t)

Started(w, t) == IF phase[w] = "started" /\ running[w].id = t THEN 1 ELSE 0

\* The services that run on a job of row t: each has used an attempt up.
Running(t) == Started(Extraction, t) + Started(Analysis, t) + Started(Linking, t)

\* An attempt is left, in use, or it crashed the program.  Two jobs of a row may use up
\* more attempts than there are, yet neither would be there after the last crash.
AttemptsOK(t) ==
    step[t] = {} =>
        /\ attempts_left[t] + Running(t) + crashes[t] <= MaxAttempts(t)
        /\ crashes[t] <= MaxAttempts(t)
        /\ HasJob(t) => crashes[t] < MaxAttempts(t)

AbsentOK(t) == adding[t] = "absent" => t \notin rows /\ ~HasJob(t) /\ crashes[t] = 0

CrashInvariant ==
    /\ left["retry"] = 0
    /\ \A t \in Task : AttemptsOK(t) /\ AbsentOK(t)

LEMMA AttemptsType == \A t \in Task : MaxAttempts(t) \in Nat /\ MaxAttempts(t) > 0
BY ParserAssumption DEF MaxAttempts

LEMMA RunningType == ASSUME NEW t PROVE Running(t) \in Nat
BY DEF Running, Started

\* Only what worker w does with row t can change how many services run on it.
LEMMA RunningStep ==
    ASSUME NEW w \in Worker, NEW t,
           \A x \in Worker \ {w} : phase'[x] = phase[x] /\ running'[x] = running[x]
    PROVE  Running(t)' = Running(t) + (Started(w, t)' - Started(w, t))
<1>. DEFINE S(x) == Started(x, t)
<1>1. \A x \in Worker \ {w} : S(x)' = S(x)
  BY DEF Started
<1>2. \A x \in Worker : S(x) \in Int /\ S(x)' \in Int
  BY DEF Started
<1>3. Running(t) = S(Extraction) + S(Analysis) + S(Linking)
  BY DEF Running
<1>4. Running(t)' = S(Extraction)' + S(Analysis)' + S(Linking)'
  BY DEF Running
<1>. SUFFICES Running(t)' = Running(t) + (S(w)' - S(w))
  OBVIOUS
<1>. HIDE DEF S
<1>5. CASE w = Extraction
  BY <1>1, <1>2, <1>3, <1>4, <1>5, Services
<1>6. CASE w = Analysis
  BY <1>1, <1>2, <1>3, <1>4, <1>6, Services
<1>7. CASE w = Linking
  BY <1>1, <1>2, <1>3, <1>4, <1>7, Services
<1>. QED  BY <1>5, <1>6, <1>7, Services

\* A step without a crash, that makes no new job and uses up what it takes.
LEMMA QuietStep ==
    ASSUME TypeOK, TypeOK', CrashInvariant,
           left'["retry"] = left["retry"], crashes' = crashes, rows' \subseteq rows,
           \A t \in Task : adding'[t] = "absent" => adding[t] = "absent",
           \A t \in Task : HasJob(t)' => HasJob(t),
           \A t \in Task : step'[t] = {} =>
               /\ step[t] = {}
               /\ attempts_left'[t] + Running(t)' <= attempts_left[t] + Running(t)
    PROVE  CrashInvariant'
<1>1. ASSUME NEW t \in Task PROVE AttemptsOK(t)'
  <2>. SUFFICES ASSUME step'[t] = {}
                PROVE  /\ attempts_left'[t] + Running(t)' + crashes[t] <= MaxAttempts(t)
                       /\ crashes[t] <= MaxAttempts(t)
                       /\ HasJob(t)' => crashes[t] < MaxAttempts(t)
    BY DEF AttemptsOK, MaxAttempts
  <2>1. /\ attempts_left[t] \in Int /\ attempts_left'[t] \in Int /\ crashes[t] \in Int
        /\ Running(t) \in Int /\ MaxAttempts(t) \in Int
    BY AttemptsType, RunningType DEF TypeOK, DatabaseOK, ObservedOK
  <2>2. Running(t)' \in Int
    BY RunningType DEF Running, Started
  <2>3. /\ attempts_left[t] + Running(t) + crashes[t] <= MaxAttempts(t)
        /\ crashes[t] <= MaxAttempts(t)
        /\ HasJob(t) => crashes[t] < MaxAttempts(t)
    BY DEF CrashInvariant, AttemptsOK
  <2>4. attempts_left'[t] + Running(t)' <= attempts_left[t] + Running(t)
    OBVIOUS
  <2>. QED  BY <2>1, <2>2, <2>3, <2>4
<1>2. ASSUME NEW t \in Task PROVE AbsentOK(t)'
  BY DEF CrashInvariant, AbsentOK
<1>. QED  BY <1>1, <1>2 DEF CrashInvariant

\* The same, for a step of worker w that keeps its job's row.
LEMMA QuietOwn ==
    ASSUME IInv, IInv', CrashInvariant, NEW w \in Worker, phase[w] # "idle",
           \A x \in Worker \ {w} : phase'[x] = phase[x] /\ running'[x] = running[x],
           running'[w].id = running[w].id,
           UNCHANGED <<m_tasks, callers, observed>>, rows' \subseteq rows,
           \A t \in Task : t # running[w].id =>
               step'[t] = step[t] /\ attempts_left'[t] = attempts_left[t],
           step'[running[w].id] = {} =>
               /\ step[running[w].id] = {}
               /\ attempts_left'[running[w].id] + Started(w, running[w].id)'
                      <= attempts_left[running[w].id] + Started(w, running[w].id)
    PROVE  CrashInvariant'
<1>. DEFINE u == running[w].id
<1>1. TypeOK /\ TypeOK' /\ left' = left /\ crashes' = crashes /\ adding' = adding
  BY DEF IInv, observed, callers
<1>2. ASSUME NEW t \in Task, HasJob(t)' PROVE HasJob(t)
  <2>1. InWorker(t)' => InWorker(t)
    BY DEF InWorker
  <2>. QED  BY <1>2, <2>1 DEF HasJob, Coming, Queued, IsFetched, callers
<1>3. ASSUME NEW t \in Task, step'[t] = {}
      PROVE  /\ step[t] = {}
             /\ attempts_left'[t] + Running(t)' <= attempts_left[t] + Running(t)
  <2>1. Running(t)' = Running(t) + (Started(w, t)' - Started(w, t))
    BY RunningStep
  <2>2. /\ Running(t) \in Int /\ Started(w, t) \in Int /\ Started(w, t)' \in Int
        /\ attempts_left[t] \in Int /\ attempts_left'[t] \in Int
    BY <1>1, RunningType DEF Started, TypeOK, DatabaseOK
  <2>3. /\ step[t] = {}
        /\ attempts_left'[t] + Started(w, t)' <= attempts_left[t] + Started(w, t)
    <3>1. CASE t = u
      BY <1>3, <3>1
    <3>2. CASE t # u
      <4>1. Started(w, t) = 0 /\ Started(w, t)' = 0
        BY <3>2 DEF Started
      <4>. QED  BY <1>3, <2>2, <3>2, <4>1
    <3>. QED  BY <3>1, <3>2
  <2>. QED  BY <2>1, <2>2, <2>3
<1>. HIDE DEF u
<1>. QED  BY <1>1, <1>2, <1>3, QuietStep

LEMMA OwnCrashes ==
    ASSUME IInv, IInv', CrashInvariant, NEW w \in Worker,
           \/ Restored(w) \/ Postpone(w) \/ Vanished(w) \/ Start(w)
           \/ createFileAndMedia(w) \/ \E status \in Status : Finish(w, status)
    PROVE  CrashInvariant'
<1>. DEFINE j == running[w]
            u == j.id
<1>1. /\ j \in Jobs /\ u \in Task /\ phase[w] # "idle"
      /\ running \in [Worker -> Jobs \cup {NoJob}] /\ DOMAIN phase = Worker
      /\ attempts_left \in [Task -> Int] /\ DOMAIN step = Task /\ MaxAttempts(u) \in Int
  BY AttemptsType DEF Restored, Postpone, Vanished, Start, IsReady, createFileAndMedia, Finish,
    IInv, TypeOK, WorkersOK, DatabaseOK, Jobs
<1>2. CASE Restored(w) \/ Postpone(w) \/ Vanished(w) \/ createFileAndMedia(w)
  <2>1. /\ \A x \in Worker \ {w} : phase'[x] = phase[x] /\ running'[x] = running[x]
        /\ UNCHANGED <<step, attempts_left, m_tasks, callers, observed>>
        /\ rows' \subseteq rows
    BY <1>1, <1>2 DEF Restored, Postpone, Vanished, createFileAndMedia, Ends, db
  <2>2. running'[w].id = u
    BY <1>1, <1>2 DEF Restored, Postpone, Vanished, createFileAndMedia, Jobs
  <2>3. phase'[w] = "started" => phase[w] = "started"
    BY <1>1, <1>2 DEF Restored, Postpone, Vanished, createFileAndMedia, Ends
  <2>4. Started(w, u)' <= Started(w, u)
    BY <2>3 DEF Started
  <2>5. attempts_left[u] \in Int /\ Started(w, u)' \in Int /\ Started(w, u) \in Int
    BY <1>1 DEF Started
  <2>. QED  BY <1>1, <2>1, <2>2, <2>4, <2>5, QuietOwn
<1>3. CASE Start(w)
  <2>1. /\ \A x \in Worker \ {w} : phase'[x] = phase[x] /\ running'[x] = running[x]
        /\ UNCHANGED <<rows, step, m_tasks, callers, observed>>
        /\ \A t \in Task : t # u => attempts_left'[t] = attempts_left[t]
        /\ attempts_left'[u] = attempts_left[u] - 1
    BY <1>1, <1>3 DEF Start
  <2>2. running'[w].id = u
    BY <1>1, <1>3 DEF Start, Jobs
  <2>3. Started(w, u)' = 1 /\ Started(w, u) = 0
    BY <1>1, <1>3, <2>2 DEF Start, IsReady, Started
  <2>4. attempts_left'[u] + Started(w, u)' <= attempts_left[u] + Started(w, u)
    BY <1>1, <2>1, <2>3
  <2>. QED  BY <1>1, <2>1, <2>2, <2>4, QuietOwn
<1>4. ASSUME NEW status \in Status, Finish(w, status) PROVE CrashInvariant'
  <2>1. /\ \A x \in Worker \ {w} : phase'[x] = phase[x] /\ phase'[w] = "ended"
        /\ UNCHANGED <<m_tasks, callers, observed>> /\ handleServiceResult(w, status)
        /\ phase[w] = "started" /\ Started(w, u) = 1 /\ Started(w, u)' = 0
    BY <1>1, <1>4 DEF Finish, Ends, Started
  <2>2. \/ /\ running' = running /\ step' = step /\ attempts_left' = attempts_left
           /\ rows' \subseteq rows
        \/ /\ running' = [running EXCEPT ![w].step = @ \cup {w}, ![w].attempts = @ + 1]
           /\ attempts_left' = [attempts_left EXCEPT ![u] = @ + 1]
           /\ UNCHANGED <<rows, step>>
        \/ \E steps \in {Completed, j.step \cup {w}} : Save(w, steps)
    BY <2>1 DEF handleServiceResult
  <2>3. CASE \E steps \in {Completed, j.step \cup {w}} : Save(w, steps)
    <3>1. PICK steps \in {Completed, j.step \cup {w}} : Save(w, steps)
      BY <2>3
    <3>2. /\ \A x \in Worker \ {w} : running'[x] = running[x]
          /\ \A t \in Task : t # u =>
                 step'[t] = step[t] /\ attempts_left'[t] = attempts_left[t]
          /\ rows' = rows /\ step'[u] = steps /\ steps # {}
      BY <1>1, <3>1 DEF Save, Completed
    <3>3. running'[w].id = u
      BY <1>1, <3>1 DEF Save, Jobs
    <3>. QED  BY <1>1, <2>1, <3>2, <3>3, QuietOwn
  <2>4. CASE /\ running' = running /\ step' = step /\ attempts_left' = attempts_left
             /\ rows' \subseteq rows
    <3>1. attempts_left'[u] + Started(w, u)' <= attempts_left[u] + Started(w, u)
      BY <1>1, <2>1, <2>4
    <3>. QED  BY <1>1, <2>1, <2>4, <3>1, QuietOwn
  <2>5. CASE /\ running' = [running EXCEPT ![w].step = @ \cup {w}, ![w].attempts = @ + 1]
             /\ attempts_left' = [attempts_left EXCEPT ![u] = @ + 1]
             /\ UNCHANGED <<rows, step>>
    <3>1. /\ \A x \in Worker \ {w} : running'[x] = running[x]
          /\ \A t \in Task : t # u => attempts_left'[t] = attempts_left[t]
          /\ attempts_left'[u] = attempts_left[u] + 1
      BY <1>1, <2>5
    <3>2. running'[w].id = u
      BY <1>1, <2>5 DEF Jobs
    <3>3. attempts_left'[u] + Started(w, u)' <= attempts_left[u] + Started(w, u)
      BY <1>1, <2>1, <3>1
    <3>. QED  BY <1>1, <2>1, <2>5, <3>1, <3>2, <3>3, QuietOwn
  <2>. QED  BY <2>2, <2>3, <2>4, <2>5
<1>. QED  BY <1>2, <1>3, <1>4

\* A job that goes from a place to another, or goes away.
LEMMA MoveCrashes ==
    ASSUME IInv, IInv', CrashInvariant, NEW w \in Worker,
           Take(w) \/ Done(w) \/ Forward(w)
    PROVE  CrashInvariant'
<1>. DEFINE j == running[w]
<1>1. /\ TypeOK /\ TypeOK' /\ left' = left /\ crashes' = crashes /\ callers' = callers
      /\ UNCHANGED <<step, attempts_left>> /\ rows' \subseteq rows
  BY DEF IInv, Take, Done, Forward, Frees, observed, db
<1>2. /\ \A x \in Worker \ {w} : phase'[x] = phase[x] /\ running'[x] = running[x]
      /\ phase'[w] # "started"
  BY <1>1 DEF Take, Done, Forward, Frees, TypeOK, WorkersOK
<1>3. ASSUME NEW t \in Task, HasJob(t)' PROVE HasJob(t)
  <2>1. CASE Coming(t)' \/ IsFetched(t)'
    BY <1>1, <2>1 DEF HasJob, Coming, IsFetched, callers
  <2>2. CASE Take(w)
    <3>1. /\ m_tasks[w] \in Seq(Jobs) /\ m_tasks[w] # <<>>
          /\ running'[w] = m_tasks[w][1] /\ 1 \in DOMAIN m_tasks[w]
          /\ \A x \in Worker \ {w} : m_tasks'[x] = m_tasks[x]
          /\ m_tasks'[w] = Tail(m_tasks[w])
      BY <1>1, <2>2 DEF Take, TypeOK, WorkersOK
    <3>2. \A i \in DOMAIN m_tasks'[w] :
              i + 1 \in DOMAIN m_tasks[w] /\ m_tasks'[w][i] = m_tasks[w][i + 1]
      BY <3>1
    <3>3. ASSUME NEW x \in Worker, NEW i \in DOMAIN m_tasks'[x], m_tasks'[x][i].id = t
          PROVE  Queued(t)
      <4>1. CASE x = w
        BY <3>2, <3>3, <4>1 DEF Queued
      <4>2. CASE x # w
        <5>1. i \in DOMAIN m_tasks[x] /\ m_tasks[x][i].id = t
          BY <3>1, <3>3, <4>2
        <5>. QED  BY <5>1 DEF Queued
      <4>. QED  BY <4>1, <4>2
    <3>4. InWorker(t)' => InWorker(t) \/ Queued(t)
      BY <1>2, <3>1 DEF InWorker, Queued
    <3>5. Queued(t)' => Queued(t)
      BY <3>3 DEF Queued
    <3>. QED  BY <1>3, <2>1, <3>4, <3>5 DEF HasJob
  <2>3. CASE Done(w) \/ Forward(w)
    <3>1. phase'[w] = "idle" /\ phase[w] # "idle"
      BY <1>1, <2>3 DEF Done, Forward, Frees, TypeOK, WorkersOK
    <3>2. InWorker(t)' => InWorker(t)
      BY <1>2, <3>1 DEF InWorker
    <3>3. Queued(t)' => Queued(t) \/ InWorker(t)
      <4>1. CASE Done(w)
        BY <4>1 DEF Done, Queued
      <4>2. CASE Forward(w)
        <5>. DEFINE next == IF result[w] = "Requeue" THEN Extraction ELSE w + 1
        <5>1. m_tasks' = [m_tasks EXCEPT ![next] = Append(@, j)]
          BY <4>2 DEF Forward
        <5>2. j \in Jobs /\ m_tasks \in [Worker -> Seq(Jobs)]
          BY <1>1, <3>1 DEF TypeOK, WorkersOK
        <5>. HIDE DEF next, j
        <5>3. ASSUME NEW x \in Worker, NEW i \in DOMAIN m_tasks'[x]
              PROVE  \/ m_tasks'[x][i] = j
                     \/ i \in DOMAIN m_tasks[x] /\ m_tasks'[x][i] = m_tasks[x][i]
          BY <5>1, <5>2
        <5>. QED  BY <3>1, <5>3 DEF Queued, InWorker, j
      <4>. QED  BY <2>3, <4>1, <4>2
    <3>. QED  BY <1>3, <2>1, <3>2, <3>3 DEF HasJob
  <2>. QED  BY <2>2, <2>3
<1>4. ASSUME NEW t \in Task
      PROVE  attempts_left'[t] + Running(t)' <= attempts_left[t] + Running(t)
  <2>1. Running(t)' = Running(t) + (Started(w, t)' - Started(w, t))
    BY <1>2, RunningStep
  <2>2. Started(w, t)' = 0 /\ Started(w, t) \in {0, 1}
    BY <1>2 DEF Started
  <2>3. Running(t) \in Int /\ attempts_left[t] \in Int
    BY <1>1, RunningType DEF TypeOK, DatabaseOK
  <2>. QED  BY <1>1, <2>1, <2>2, <2>3
<1>. QED  BY <1>1, <1>3, <1>4, QuietStep DEF callers

\* The rows and the workers are left alone.
LEMMA StillCrashes ==
    ASSUME IInv, IInv', CrashInvariant, UNCHANGED <<step, attempts_left, running, phase>>,
           rows' \subseteq rows,
           left'["retry"] = left["retry"], crashes' = crashes,
           \A t \in Task : adding'[t] = "absent" => adding[t] = "absent",
           \A t \in Task : Coming(t)' \/ Queued(t)' \/ IsFetched(t)' => HasJob(t)
    PROVE  CrashInvariant'
<1>1. TypeOK /\ TypeOK'
  BY DEF IInv
<1>2. ASSUME NEW t \in Task
      PROVE  /\ HasJob(t)' => HasJob(t)
             /\ attempts_left'[t] + Running(t)' <= attempts_left[t] + Running(t)
  <2>1. InWorker(t)' => InWorker(t)
    BY DEF InWorker
  <2>2. Running(t)' = Running(t)
    BY DEF Running, Started
  <2>3. attempts_left[t] \in Int /\ Running(t) \in Int
    BY <1>1, RunningType DEF TypeOK, DatabaseOK
  <2>. QED  BY <2>1, <2>2, <2>3 DEF HasJob
<1>. QED  BY <1>1, <1>2, QuietStep

LEMMA ParseCrashes ==
    ASSUME IInv, IInv', CrashInvariant, NEW u \in Task, ParseCounts(u) \/ ParseQueues(u)
    PROVE  CrashInvariant'
<1>1. /\ TypeOK /\ UNCHANGED <<step, attempts_left, running, phase>> /\ rows' = rows
      /\ left' = left /\ crashes' = crashes /\ fetched' = fetched
  BY DEF IInv, ParseCounts, ParseQueues, db, workers, observed
<1>2. /\ Coming(u) /\ adding'[u] # "absent"
      /\ \A t \in Task \ {u} : adding'[t] = adding[t]
  BY <1>1 DEF ParseCounts, ParseQueues, Coming, TypeOK, CallersOK
<1>3. ASSUME NEW t \in Task, Coming(t)' \/ IsFetched(t)' PROVE HasJob(t)
  BY <1>1, <1>2, <1>3 DEF HasJob, Coming, IsFetched
<1>4. ASSUME NEW t \in Task, Queued(t)' PROVE HasJob(t)
  <2>1. CASE ParseCounts(u)
    BY <1>4, <2>1 DEF ParseCounts, workers, HasJob, Queued
  <2>2. CASE ParseQueues(u)
    <3>1. /\ m_tasks' = [m_tasks EXCEPT ![Extraction] = Append(@, NewJob(u))]
          /\ m_tasks \in [Worker -> Seq(Jobs)] /\ NewJob(u) \in Jobs
      BY <1>1, <2>2, NewJobOK DEF ParseQueues, TypeOK, WorkersOK
    <3>2. ASSUME NEW x \in Worker, NEW i \in DOMAIN m_tasks'[x]
          PROVE  \/ m_tasks'[x][i] = NewJob(u)
                 \/ i \in DOMAIN m_tasks[x] /\ m_tasks'[x][i] = m_tasks[x][i]
      BY <3>1
    <3>3. t = u \/ Queued(t)
      BY <1>4, <3>2 DEF Queued, NewJob
    <3>. QED  BY <1>2, <3>3 DEF HasJob
  <2>. QED  BY <2>1, <2>2
<1>. QED  BY <1>1, <1>2, <1>3, <1>4, StillCrashes

LEMMA CallerCrashes ==
    ASSUME IInv, IInv', CrashInvariant, NEW c \in Caller,
           \/ \E w \in Worker : Flush(c, w)
           \/ ResetCounters(c) \/ RestoreCounts(c) \/ RestoreQueues(c)
    PROVE  CrashInvariant'
<1>1. /\ TypeOK /\ UNCHANGED <<step, attempts_left, running, phase>> /\ rows' = rows
      /\ left' = left /\ crashes' = crashes /\ adding' = adding
  BY DEF IInv, Flush, ResetCounters, RestoreCounts, RestoreQueues, db, workers, observed
<1>2. ASSUME NEW t \in Task, Coming(t)' PROVE HasJob(t)
  BY <1>1, <1>2 DEF HasJob, Coming
<1>3. ASSUME NEW t \in Task, IsFetched(t)' PROVE HasJob(t)
  <2>1. \A d \in Caller : fetched'[d] \subseteq fetched[d]
    BY <1>1 DEF Flush, ResetCounters, RestoreCounts, RestoreQueues, TypeOK, CallersOK
  <2>. QED  BY <1>3, <2>1 DEF HasJob, IsFetched
<1>4. ASSUME NEW t \in Task, Queued(t)' PROVE HasJob(t)
  <2>1. CASE ResetCounters(c) \/ RestoreCounts(c)
    BY <1>4, <2>1 DEF ResetCounters, RestoreCounts, workers, HasJob, Queued
  <2>2. ASSUME NEW w \in Worker, Flush(c, w) PROVE HasJob(t)
    <3>1. m_tasks'[w] = <<>> /\ \A x \in Worker \ {w} : m_tasks'[x] = m_tasks[x]
      BY <1>1, <2>2 DEF Flush, TypeOK, WorkersOK
    <3>2. ASSUME NEW x \in Worker, NEW i \in DOMAIN m_tasks'[x]
          PROVE  i \in DOMAIN m_tasks[x] /\ m_tasks'[x][i] = m_tasks[x][i]
      BY <3>1
    <3>. QED  BY <1>4, <3>2 DEF HasJob, Queued
  <2>3. CASE RestoreQueues(c)
    <3>. DEFINE F == fetched[c]
                n == Cardinality(F)
                q == m_tasks[Extraction]
    <3>1. PICK order \in [1..n -> F] :
              m_tasks' = [m_tasks EXCEPT ![Extraction] = @ \o order]
      BY <2>3 DEF RestoreQueues
    <3>2. n \in Nat /\ F \subseteq Jobs
      BY <1>1, FS_CardinalityType DEF IInv, Flow, FetchedOK, TypeOK, CallersOK
    <3>3. order \in Seq(Jobs) /\ Len(order) = n /\ q \in Seq(Jobs)
      <4>1. q \in Seq(Jobs)
        BY <1>1, Services DEF TypeOK, WorkersOK
      <4>. QED  BY <3>2, <4>1
    <3>4. /\ m_tasks'[Extraction] = q \o order
          /\ \A x \in Worker \ {Extraction} : m_tasks'[x] = m_tasks[x]
      BY <1>1, <3>1, Services DEF TypeOK, WorkersOK
    <3>5. ASSUME NEW i \in DOMAIN m_tasks'[Extraction]
          PROVE  \/ i \in DOMAIN q /\ m_tasks'[Extraction][i] = q[i]
                 \/ m_tasks'[Extraction][i] \in F
      <4>1. i \in 1..(Len(q) + n)
        BY <3>3, <3>4
      <4>2. CASE i <= Len(q)
        BY <3>3, <3>4, <4>1, <4>2
      <4>3. CASE i > Len(q)
        <5>1. i - Len(q) \in 1..n /\ m_tasks'[Extraction][i] = order[i - Len(q)]
          BY <3>2, <3>3, <3>4, <4>1, <4>3
        <5>. QED  BY <3>1, <5>1
      <4>. QED  BY <3>3, <4>1, <4>2, <4>3
    <3>6. Queued(t) \/ \E j \in F : j.id = t
      <4>1. PICK x \in Worker : \E i \in DOMAIN m_tasks'[x] : m_tasks'[x][i].id = t
        BY <1>4 DEF Queued
      <4>2. CASE x = Extraction
        BY <3>5, <4>1, <4>2, Services DEF Queued
      <4>3. CASE x # Extraction
        BY <3>4, <4>1, <4>3 DEF Queued
      <4>. QED  BY <4>2, <4>3
    <3>. QED  BY <3>6 DEF HasJob, IsFetched
  <2>. QED  BY <2>1, <2>2, <2>3
<1>. QED  BY <1>1, <1>2, <1>3, <1>4, StillCrashes

LEMMA EventCrashes ==
    ASSUME IInv, IInv', CrashInvariant, refreshTaskList \/ Mount \/ UNCHANGED vars
    PROVE  CrashInvariant'
<1>1. /\ UNCHANGED <<step, attempts_left, running, phase, m_tasks, adding, fetched>>
      /\ rows' = rows /\ crashes' = crashes
  BY DEF refreshTaskList, Mount, vars, db, workers, callers, observed
<1>2. left'["retry"] = left["retry"]
  BY DEF refreshTaskList, Mount, Spend, vars, observed, IInv, TypeOK, ObservedOK
<1>3. \A t \in Task : Coming(t)' \/ Queued(t)' \/ IsFetched(t)' => HasJob(t)
  BY <1>1 DEF HasJob, Coming, Queued, IsFetched
<1>. QED  BY <1>1, <1>2, <1>3, StillCrashes

\* A new row has its attempts, and no crash behind it.
LEMMA CreateCrashes ==
    ASSUME IInv, IInv', CrashInvariant, NEW u \in Task, Create(u)
    PROVE  CrashInvariant'
<1>1. /\ TypeOK /\ UNCHANGED <<step, attempts_left, workers, fetched>>
      /\ left' = left /\ crashes' = crashes /\ rows' = rows \cup {u}
      /\ \A t \in Task \ {u} : adding'[t] = adding[t]
      /\ adding'[u] = "created" /\ adding[u] = "absent"
  BY DEF IInv, Create, observed, TypeOK, CallersOK
<1>2. crashes[u] = 0
  BY <1>1 DEF CrashInvariant, AbsentOK
<1>3. ASSUME NEW t \in Task
      PROVE  Running(t)' = Running(t) /\ (HasJob(t)' => HasJob(t) \/ t = u)
  <2>1. Running(t)' = Running(t)
    BY <1>1 DEF Running, Started, workers
  <2>. QED
    BY <1>1, <2>1 DEF HasJob, Coming, Queued, InWorker, IsFetched, workers
<1>4. ASSUME NEW t \in Task PROVE AttemptsOK(t)'
  <2>1. AttemptsOK(t)
    BY DEF CrashInvariant
  <2>. QED
    BY <1>1, <1>2, <1>3, <2>1, AttemptsType DEF AttemptsOK, MaxAttempts
<1>5. ASSUME NEW t \in Task PROVE AbsentOK(t)'
  <2>1. CASE t = u
    BY <1>1, <2>1 DEF AbsentOK
  <2>2. CASE t # u
    BY <1>1, <1>3, <2>2 DEF CrashInvariant, AbsentOK
  <2>. QED  BY <2>1, <2>2
<1>6. left'["retry"] = 0
  BY <1>1 DEF CrashInvariant
<1>. QED  BY <1>4, <1>5, <1>6 DEF CrashInvariant

\* A row is fetched again only while it has an attempt left.
LEMMA FetchCrashes ==
    ASSUME IInv, IInv', CrashInvariant, NEW c \in Caller, Fetch(c)
    PROVE  CrashInvariant'
<1>1. /\ TypeOK /\ UNCHANGED <<rows, step, attempts_left, workers, adding, left, crashes>>
      /\ fetched' = [fetched EXCEPT ![c] = {Job(t) : t \in {u \in Task : Fetchable(u)}}]
  BY DEF IInv, Fetch, db, observed
<1>2. ASSUME NEW t \in Task
      PROVE  Running(t)' = Running(t) /\ (HasJob(t)' => HasJob(t) \/ Fetchable(t))
  <2>1. Running(t)' = Running(t)
    BY <1>1 DEF Running, Started, workers
  <2>2. Coming(t)' \/ Queued(t)' \/ InWorker(t)' => HasJob(t)
    BY <1>1 DEF HasJob, Coming, Queued, InWorker, workers
  <2>3. ASSUME IsFetched(t)' PROVE IsFetched(t) \/ Fetchable(t)
    <3>1. PICK d \in Caller : \E j \in fetched'[d] : j.id = t
      BY <2>3 DEF IsFetched
    <3>2. CASE d = c
      <4>1. PICK u \in {v \in Task : Fetchable(v)} : Job(u).id = t
        BY <1>1, <3>1, <3>2 DEF TypeOK, CallersOK
      <4>. QED  BY <4>1 DEF Job
    <3>3. CASE d # c
      BY <1>1, <3>1, <3>3 DEF IsFetched, TypeOK, CallersOK
    <3>. QED  BY <3>2, <3>3
  <2>. QED  BY <2>1, <2>2, <2>3 DEF HasJob
<1>3. ASSUME NEW t \in Task PROVE AttemptsOK(t)'
  <2>. SUFFICES ASSUME step[t] = {}
                PROVE  /\ attempts_left[t] + Running(t) + crashes[t] <= MaxAttempts(t)
                       /\ crashes[t] <= MaxAttempts(t)
                       /\ HasJob(t)' => crashes[t] < MaxAttempts(t)
    BY <1>1, <1>2 DEF AttemptsOK, MaxAttempts
  <2>1. /\ attempts_left[t] + Running(t) + crashes[t] <= MaxAttempts(t)
        /\ crashes[t] <= MaxAttempts(t)
        /\ HasJob(t) => crashes[t] < MaxAttempts(t)
    BY DEF CrashInvariant, AttemptsOK
  <2>2. attempts_left[t] \in Int /\ Running(t) \in Nat /\ crashes[t] \in Nat
    BY <1>1, RunningType DEF TypeOK, DatabaseOK, ObservedOK
  <2>3. Fetchable(t) => crashes[t] < MaxAttempts(t)
    BY <2>1, <2>2, AttemptsType DEF Fetchable
  <2>. QED  BY <1>2, <2>1, <2>3
<1>4. ASSUME NEW t \in Task PROVE AbsentOK(t)'
  BY <1>1, <1>2 DEF CrashInvariant, AbsentOK, Fetchable
<1>. QED  BY <1>1, <1>3, <1>4 DEF CrashInvariant

\* Whatever crashed used an attempt up; nothing is queued any more.
LEMMA CrashCrashes ==
    ASSUME IInv, IInv', CrashInvariant, Crash
    PROVE  CrashInvariant'
<1>1. /\ TypeOK /\ UNCHANGED <<rows, step, attempts_left>>
      /\ m_tasks' = [w \in Worker |-> <<>>] /\ phase' = [w \in Worker |-> "idle"]
      /\ fetched' = [c \in Caller |-> {}]
      /\ left'["retry"] = left["retry"]
  BY DEF IInv, Crash, db, Spend, TypeOK, ObservedOK
<1>2. ASSUME NEW t \in Task PROVE ~HasJob(t)' /\ Running(t)' = 0
  <2>1. ~Coming(t)'
    BY DEF Crash, Coming
  <2>2. ~Queued(t)' /\ ~InWorker(t)' /\ ~IsFetched(t)'
    BY <1>1 DEF Queued, InWorker, IsFetched
  <2>3. Running(t)' = 0
    BY <1>1, Services DEF Running, Started
  <2>. QED  BY <2>1, <2>2, <2>3 DEF HasJob
<1>3. ASSUME NEW t \in Task
      PROVE  \/ crashes'[t] = crashes[t]
             \/ crashes'[t] = crashes[t] + 1 /\ Running(t) >= 1 /\ HasJob(t)
  <2>1. CASE \E w \in Worker : phase[w] = "started" /\ running[w].id = t
    <3>1. PICK w \in Worker : Started(w, t) = 1 /\ InWorker(t)
      BY <2>1 DEF Started, InWorker
    <3>2. \A x \in Worker : Started(x, t) \in Nat
      BY DEF Started
    <3>3. Running(t) >= 1
      BY <3>1, <3>2, Services DEF Running
    <3>4. crashes'[t] = crashes[t] + 1
      BY <2>1 DEF Crash
    <3>. QED  BY <3>1, <3>3, <3>4 DEF HasJob
  <2>2. CASE ~\E w \in Worker : phase[w] = "started" /\ running[w].id = t
    BY <2>2 DEF Crash
  <2>. QED  BY <2>1, <2>2
<1>4. ASSUME NEW t \in Task PROVE AttemptsOK(t)'
  <2>. SUFFICES ASSUME step[t] = {}
                PROVE  /\ attempts_left[t] + crashes'[t] <= MaxAttempts(t)
                       /\ crashes'[t] <= MaxAttempts(t)
    <3>1. attempts_left[t] \in Int /\ crashes'[t] \in Int
      BY <1>1 DEF TypeOK, DatabaseOK, IInv, ObservedOK
    <3>. QED  BY <1>1, <1>2, <3>1 DEF AttemptsOK, MaxAttempts
  <2>1. /\ attempts_left[t] + Running(t) + crashes[t] <= MaxAttempts(t)
        /\ crashes[t] <= MaxAttempts(t)
        /\ HasJob(t) => crashes[t] < MaxAttempts(t)
    BY DEF CrashInvariant, AttemptsOK
  <2>2. /\ attempts_left[t] \in Int /\ Running(t) \in Nat /\ crashes[t] \in Nat
        /\ MaxAttempts(t) \in Nat
    BY <1>1, RunningType, AttemptsType DEF TypeOK, DatabaseOK, ObservedOK
  <2>. QED  BY <1>3, <2>1, <2>2
<1>5. ASSUME NEW t \in Task PROVE AbsentOK(t)'
  <2>1. adding'[t] = "absent" => adding[t] = "absent"
    BY DEF Crash
  <2>. QED  BY <1>1, <1>2, <1>3, <2>1 DEF CrashInvariant, AbsentOK
<1>. QED  BY <1>1, <1>4, <1>5 DEF CrashInvariant

LEMMA CrashStep == IInv /\ IInv' /\ CrashInvariant /\ [Next]_vars => CrashInvariant'
<1>. SUFFICES ASSUME IInv, IInv', CrashInvariant, [Next]_vars PROVE CrashInvariant'
  OBVIOUS
<1>1. CASE Work
  <2>1. PICK w \in Worker :
            \/ Take(w) \/ Restored(w) \/ Postpone(w) \/ Vanished(w) \/ Start(w)
            \/ createFileAndMedia(w) \/ Done(w) \/ Forward(w)
            \/ \E status \in Status : Finish(w, status)
    BY <1>1 DEF Work
  <2>. QED  BY <2>1, OwnCrashes, MoveCrashes
<1>2. CASE Restores
  <2>1. PICK c \in Caller :
            \/ \E w \in Worker : Flush(c, w)
            \/ ResetCounters(c) \/ Fetch(c) \/ RestoreCounts(c) \/ RestoreQueues(c)
    BY <1>2 DEF Restores
  <2>. QED  BY <2>1, CallerCrashes, FetchCrashes
<1>3. CASE Adds \/ \E t \in Task : Create(t)
  BY <1>3, CreateCrashes, ParseCrashes DEF Adds
<1>4. CASE Crash
  BY <1>4, CrashCrashes
<1>5. CASE refreshTaskList \/ Mount \/ Rest \/ UNCHANGED vars
  BY <1>5, EventCrashes DEF Rest
<1>6. CASE forceParserRetry
  BY <1>6 DEF CrashInvariant, forceParserRetry, Spend
<1>. QED  BY <1>1, <1>2, <1>3, <1>4, <1>5, <1>6 DEF Next

\* For any rows, restarts, mounts and refreshes, as long as no retry is forced: a task that
\* is not completed crashes the program at most as often as it has attempts.
THEOREM CrashBound ==
    ASSUME MaxRetries = 0
    PROVE  Spec => []CrashesAreBounded
<1>1. Init => CrashInvariant
  <2>. SUFFICES ASSUME Init PROVE CrashInvariant
    OBVIOUS
  <2>1. ASSUME NEW t \in Task PROVE ~HasJob(t) /\ Running(t) = 0
    <3>1. Running(t) = 0
      BY Services DEF Init, Running, Started
    <3>. QED  BY <3>1 DEF Init, HasJob, Coming, Queued, InWorker, IsFetched
  <2>2. \A t \in Task : attempts_left[t] = MaxAttempts(t) /\ crashes[t] = 0 /\ t \notin rows
    BY DEF Init
  <2>3. left["retry"] = 0
    BY DEF Init
  <2>. QED  BY <2>1, <2>2, <2>3, AttemptsType DEF CrashInvariant, AttemptsOK, AbsentOK
<1>2. IInv /\ CrashInvariant => CrashesAreBounded
  BY DEF CrashInvariant, AttemptsOK, IInv, Flow, RowsOK, CrashesAreBounded
<1>3. IInv /\ IInv' /\ CrashInvariant /\ [Next]_vars => CrashInvariant'
  BY CrashStep
<1>. QED  BY <1>1, <1>2, <1>3, Invariance, PTL DEF Spec

-----------------------------------------------------------------------------
(* Where the jobs are: what each step moves.                               *)

\* A job that a worker has, or has queued.
IsHeld(j) ==
    \/ \E w \in Worker : phase[w] # "idle" /\ running[w] = j
    \/ \E w \in Worker : \E i \in DOMAIN m_tasks[w] : m_tasks[w][i] = j

LEMMA HeldMeans ==
    ASSUME TypeOK, NEW t
    PROVE  Queued(t) \/ InWorker(t) <=> \E j \in Jobs : IsHeld(j) /\ j.id = t
<1>1. \A w \in Worker : m_tasks[w] \in Seq(Jobs) /\ (phase[w] # "idle" => running[w] \in Jobs)
  BY DEF TypeOK, WorkersOK
<1>. QED  BY <1>1 DEF IsHeld, Queued, InWorker

\* The steps of a worker on the job it has.
Own(w) ==
    \/ Restored(w) \/ Postpone(w) \/ Vanished(w) \/ Start(w)
    \/ createFileAndMedia(w) \/ \E status \in Status : Finish(w, status)

LEMMA OwnMoves ==
    ASSUME IInv, IInv', NEW w \in Worker, Own(w)
    PROVE  /\ phase[w] # "idle" /\ phase'[w] # "idle" /\ running[w] \in Jobs
           /\ \A x \in Worker \ {w} : phase'[x] = phase[x] /\ running'[x] = running[x]
           /\ running'[w].id = running[w].id
           /\ UNCHANGED <<m_tasks, callers, counters, mounted, tried, left>>
           /\ rows' \subseteq rows
           /\ \A t \in Task \ {running[w].id} :
                  step'[t] = step[t] /\ attempts_left'[t] = attempts_left[t]
           /\ step'[running[w].id] \in {step[running[w].id], Completed}
           /\ running'[w].step = Completed =>
                  running[w].step = Completed \/ step'[running[w].id] = Completed
<1>. DEFINE j == running[w]
            u == j.id
<1>1. /\ j \in Jobs /\ u \in Task /\ phase[w] # "idle"
      /\ running \in [Worker -> Jobs \cup {NoJob}] /\ DOMAIN phase = Worker
      /\ attempts_left \in [Task -> Int] /\ step \in [Task -> SUBSET Worker]
  BY DEF Own, Restored, Postpone, Vanished, Start, IsReady, createFileAndMedia, Finish,
    IInv, TypeOK, WorkersOK, DatabaseOK, Jobs
<1>2. CASE Restored(w) \/ Postpone(w) \/ Vanished(w) \/ createFileAndMedia(w)
  <2>1. /\ phase'[w] # "idle"
        /\ \A x \in Worker \ {w} : phase'[x] = phase[x] /\ running'[x] = running[x]
        /\ UNCHANGED <<m_tasks, callers, counters, mounted, tried, left, step, attempts_left>>
        /\ rows' \subseteq rows
    BY <1>1, <1>2 DEF Restored, Postpone, Vanished, createFileAndMedia, Ends, db, observed
  <2>2. running'[w].id = u /\ running'[w].step = j.step
    BY <1>1, <1>2 DEF Restored, Postpone, Vanished, createFileAndMedia, Jobs
  <2>. QED  BY <1>1, <2>1, <2>2
<1>3. CASE Start(w)
  <2>1. /\ phase'[w] # "idle"
        /\ \A x \in Worker \ {w} : phase'[x] = phase[x] /\ running'[x] = running[x]
        /\ UNCHANGED <<m_tasks, callers, counters, mounted, tried, left, step, rows>>
        /\ \A t \in Task \ {u} : attempts_left'[t] = attempts_left[t]
    BY <1>1, <1>3 DEF Start, observed
  <2>2. running'[w].id = u /\ running'[w].step = j.step
    BY <1>1, <1>3 DEF Start, Jobs
  <2>. QED  BY <1>1, <2>1, <2>2
<1>4. ASSUME NEW status \in Status, Finish(w, status)
      PROVE  /\ phase'[w] # "idle"
             /\ \A x \in Worker \ {w} : phase'[x] = phase[x] /\ running'[x] = running[x]
             /\ running'[w].id = u
             /\ UNCHANGED <<m_tasks, callers, counters, mounted, tried, left>>
             /\ rows' \subseteq rows
             /\ \A t \in Task \ {u} :
                    step'[t] = step[t] /\ attempts_left'[t] = attempts_left[t]
             /\ step'[u] \in {step[u], Completed}
             /\ running'[w].step = Completed => j.step = Completed \/ step'[u] = Completed
  <2>1. /\ \A x \in Worker \ {w} : phase'[x] = phase[x]
        /\ phase'[w] = "ended" /\ phase[w] = "started" /\ status \in Results(w)
        /\ UNCHANGED <<m_tasks, callers, counters, mounted, tried, left>>
        /\ handleServiceResult(w, status)
    BY <1>1, <1>4 DEF Finish, Ends, observed
  <2>2. RunOK(w, j, "started", result[w])
    BY <2>1 DEF IInv, Flow, RunsOK
  <2>3. StepOK(j) /\ Arrived(w, j) /\ ~isStepCompleted(j, w)
    BY <2>2 DEF RunOK
  <2>4. CASE status = "Success" /\ w = Extraction
    <3>1. /\ running' = [running EXCEPT ![w].step = @ \cup {w}, ![w].attempts = @ + 1]
          /\ attempts_left' = [attempts_left EXCEPT ![u] = @ + 1]
          /\ rows' = rows /\ step' = step
      BY <2>1, <2>4 DEF handleServiceResult
    <3>2. running'[w].id = u /\ running'[w].step = j.step \cup {w}
      BY <1>1, <3>1 DEF Jobs
    <3>3. j.step = {}
      BY <2>3, <2>4, Services DEF StepOK, isStepCompleted, Completed
    <3>4. running'[w].step # Completed
      BY <2>4, <3>2, <3>3, Services DEF Completed
    <3>. QED  BY <1>1, <2>1, <3>1, <3>2, <3>4
  <2>5. CASE status = "Completed" \/ (status = "Success" /\ w # Extraction)
    <3>1. Save(w, Completed)
      <4>1. CASE status = "Completed"
        BY <2>1, <4>1 DEF handleServiceResult
      <4>2. CASE status = "Success" /\ w # Extraction
        <5>1. w = Analysis
          BY <2>1, <4>2, Services DEF Results
        <5>2. j.step \cup {w} = Completed
          BY <2>3, <5>1, Services DEF StepOK, Arrived, isStepCompleted, Completed
        <5>3. Save(w, j.step \cup {w})
          BY <2>1, <4>2 DEF handleServiceResult
        <5>. QED  BY <5>2, <5>3
      <4>. QED  BY <2>5, <4>1, <4>2
    <3>2. /\ \A x \in Worker \ {w} : running'[x] = running[x]
          /\ \A t \in Task \ {u} :
                 step'[t] = step[t] /\ attempts_left'[t] = attempts_left[t]
          /\ rows' = rows /\ step'[u] = Completed
      BY <1>1, <3>1 DEF Save
    <3>3. running'[w].id = u
      BY <1>1, <3>1 DEF Save, Jobs
    <3>. QED  BY <1>1, <2>1, <3>2, <3>3
  <2>6. CASE status \notin {"Success", "Completed"}
    <3>1. /\ running' = running /\ step' = step /\ attempts_left' = attempts_left
          /\ rows' \subseteq rows
      BY <2>1, <2>6 DEF handleServiceResult
    <3>. QED  BY <1>1, <2>1, <3>1
  <2>. QED  BY <2>4, <2>5, <2>6
<1>. QED  BY <1>1, <1>2, <1>3, <1>4 DEF Own

\* Take, Done and Forward: the queue that changes, and the job that goes.
LEMMA TakeMoves ==
    ASSUME IInv, NEW w \in Worker, Take(w)
    PROVE  /\ phase[w] = "idle" /\ phase'[w] # "idle"
           /\ \A x \in Worker \ {w} : phase'[x] = phase[x] /\ running'[x] = running[x]
           /\ Len(m_tasks'[w]) = Len(m_tasks[w]) - 1
           /\ \A x \in Worker \ {w} : m_tasks'[x] = m_tasks[x]
           /\ \A j : IsHeld(j)' <=> IsHeld(j)
<1>1. /\ m_tasks[w] \in Seq(Jobs) /\ m_tasks[w] # <<>> /\ phase[w] = "idle"
      /\ m_tasks' = [m_tasks EXCEPT ![w] = Tail(@)]
      /\ running' = [running EXCEPT ![w] = Head(m_tasks[w])]
      /\ DOMAIN phase = Worker /\ DOMAIN running = Worker /\ DOMAIN m_tasks = Worker
  BY DEF Take, IInv, TypeOK, WorkersOK
<1>2. phase'[w] # "idle" /\ \A x \in Worker \ {w} : phase'[x] = phase[x]
  BY <1>1 DEF Take
<1>3. /\ \A x \in Worker \ {w} : running'[x] = running[x] /\ m_tasks'[x] = m_tasks[x]
      /\ running'[w] = m_tasks[w][1] /\ m_tasks'[w] = Tail(m_tasks[w])
  BY <1>1
<1>4. /\ Len(m_tasks'[w]) = Len(m_tasks[w]) - 1 /\ 1 \in DOMAIN m_tasks[w]
      /\ \A i \in DOMAIN m_tasks'[w] :
             i + 1 \in DOMAIN m_tasks[w] /\ m_tasks'[w][i] = m_tasks[w][i + 1]
      /\ \A i \in DOMAIN m_tasks[w] : i = 1 \/ /\ i - 1 \in DOMAIN m_tasks'[w]
                                               /\ m_tasks'[w][i - 1] = m_tasks[w][i]
  BY <1>1, <1>3
<1>5. ASSUME NEW j, IsHeld(j)' PROVE IsHeld(j)
  <2>1. CASE \E x \in Worker : phase'[x] # "idle" /\ running'[x] = j
    BY <1>2, <1>3, <1>4, <2>1 DEF IsHeld
  <2>2. ASSUME NEW x \in Worker, NEW i \in DOMAIN m_tasks'[x], m_tasks'[x][i] = j
        PROVE  IsHeld(j)
    <3>1. CASE x = w
      BY <1>4, <2>2, <3>1 DEF IsHeld
    <3>2. CASE x # w
      BY <1>3, <2>2, <3>2 DEF IsHeld
    <3>. QED  BY <3>1, <3>2
  <2>. QED  BY <1>5, <2>1, <2>2 DEF IsHeld
<1>6. ASSUME NEW j, IsHeld(j) PROVE IsHeld(j)'
  <2>1. CASE \E x \in Worker : phase[x] # "idle" /\ running[x] = j
    BY <1>1, <1>2, <1>3, <2>1 DEF IsHeld
  <2>2. ASSUME NEW x \in Worker, NEW i \in DOMAIN m_tasks[x], m_tasks[x][i] = j
        PROVE  IsHeld(j)'
    <3>1. CASE x = w /\ i = 1
      BY <1>2, <1>3, <2>2, <3>1 DEF IsHeld
    <3>2. CASE x = w /\ i # 1
      BY <1>4, <2>2, <3>2 DEF IsHeld
    <3>3. CASE x # w
      BY <1>3, <2>2, <3>3 DEF IsHeld
    <3>. QED  BY <3>1, <3>2, <3>3
  <2>. QED  BY <1>6, <2>1, <2>2 DEF IsHeld
<1>. QED  BY <1>1, <1>2, <1>3, <1>4, <1>5, <1>6

\* A job is in a queue.
InQueue(j) == \E w \in Worker : \E i \in DOMAIN m_tasks[w] : m_tasks[w][i] = j

\* A job joins the queue of worker w.
LEMMA Joins ==
    ASSUME TypeOK, NEW w \in Worker, NEW k \in Jobs,
           m_tasks' = [m_tasks EXCEPT ![w] = Append(@, k)]
    PROVE  /\ Len(m_tasks'[w]) = Len(m_tasks[w]) + 1
           /\ \A x \in Worker \ {w} : m_tasks'[x] = m_tasks[x]
           /\ \A j : InQueue(j)' <=> j = k \/ InQueue(j)
<1>1. /\ m_tasks[w] \in Seq(Jobs) /\ m_tasks'[w] = Append(m_tasks[w], k)
      /\ \A x \in Worker \ {w} : m_tasks'[x] = m_tasks[x]
  BY DEF TypeOK, WorkersOK
<1>2. /\ Len(m_tasks'[w]) = Len(m_tasks[w]) + 1
      /\ Len(m_tasks[w]) + 1 \in DOMAIN m_tasks'[w]
      /\ m_tasks'[w][Len(m_tasks[w]) + 1] = k
      /\ \A i \in DOMAIN m_tasks[w] : i \in DOMAIN m_tasks'[w] /\ m_tasks'[w][i] = m_tasks[w][i]
      /\ \A i \in DOMAIN m_tasks'[w] :
             \/ m_tasks'[w][i] = k
             \/ i \in DOMAIN m_tasks[w] /\ m_tasks'[w][i] = m_tasks[w][i]
  BY <1>1
<1>. QED  BY <1>1, <1>2 DEF InQueue

LEMMA DoneMoves ==
    ASSUME IInv, NEW w \in Worker, Done(w)
    PROVE  /\ phase[w] # "idle" /\ phase'[w] = "idle" /\ running[w] \in Jobs
           /\ \A x \in Worker \ {w} : phase'[x] = phase[x] /\ running'[x] = running[x]
           /\ m_tasks' = m_tasks
           /\ \A j : /\ IsHeld(j)' => IsHeld(j)
                     /\ IsHeld(j) /\ j # running[w] => IsHeld(j)'
<1>1. /\ phase[w] # "idle" /\ phase'[w] = "idle" /\ running[w] \in Jobs
      /\ \A x \in Worker \ {w} : phase'[x] = phase[x] /\ running'[x] = running[x]
      /\ m_tasks' = m_tasks
  BY DEF Done, Frees, IInv, TypeOK, WorkersOK
<1>. QED  BY <1>1 DEF IsHeld

LEMMA ForwardMoves ==
    ASSUME IInv, NEW w \in Worker, Forward(w)
    PROVE  /\ phase[w] # "idle" /\ phase'[w] = "idle"
           /\ \A x \in Worker \ {w} : phase'[x] = phase[x] /\ running'[x] = running[x]
           /\ \E next \in Worker : /\ Len(m_tasks'[next]) = Len(m_tasks[next]) + 1
                                   /\ \A x \in Worker \ {next} : m_tasks'[x] = m_tasks[x]
           /\ \A j : IsHeld(j)' <=> IsHeld(j)
<1>. DEFINE next == IF result[w] = "Requeue" THEN Extraction ELSE w + 1
            k == running[w]
<1>1. /\ phase[w] = "ended" /\ phase'[w] = "idle" /\ k \in Jobs
      /\ \A x \in Worker \ {w} : phase'[x] = phase[x] /\ running'[x] = running[x]
  BY DEF Forward, Frees, IInv, TypeOK, WorkersOK
<1>2. next \in Worker
  <2>1. CASE result[w] = "Requeue"
    BY <2>1, Services
  <2>2. CASE result[w] # "Requeue"
    <3>1. RunOK(w, k, "ended", result[w])
      BY <1>1 DEF IInv, Flow, RunsOK
    <3>2. result[w] = "Success" /\ ~isCompleted(k)
      BY <2>2, <3>1 DEF Forward, IsOver, IInv, TypeOK, WorkersOK, Status, RunOK, isCompleted
    <3>3. w # Linking
      BY <3>1, <3>2, Services DEF RunOK, isStepCompleted, StepOK, Completed
    <3>. QED  BY <2>2, <3>3, Services
  <2>. QED  BY <2>1, <2>2
<1>3. m_tasks' = [m_tasks EXCEPT ![next] = Append(@, k)]
  BY DEF Forward
<1>. HIDE DEF next
<1>4. /\ Len(m_tasks'[next]) = Len(m_tasks[next]) + 1
      /\ \A x \in Worker \ {next} : m_tasks'[x] = m_tasks[x]
      /\ \A j : InQueue(j)' <=> j = k \/ InQueue(j)
  <2>. HIDE DEF k
  <2>. QED  BY <1>1, <1>2, <1>3, Joins DEF IInv
<1>5. \A j : IsHeld(j)' <=> IsHeld(j)
  BY <1>1, <1>2, <1>4 DEF IsHeld, InQueue
<1>. QED  BY <1>1, <1>2, <1>4, <1>5

LEMMA ParseQueuesMoves ==
    ASSUME IInv, NEW t \in Task, ParseQueues(t)
    PROVE  /\ Len(m_tasks'[Extraction]) = Len(m_tasks[Extraction]) + 1
           /\ \A x \in Worker \ {Extraction} : m_tasks'[x] = m_tasks[x]
           /\ \A j : IsHeld(j)' <=> IsHeld(j) \/ j = NewJob(t)
<1>1. /\ m_tasks' = [m_tasks EXCEPT ![Extraction] = Append(@, NewJob(t))]
      /\ phase' = phase /\ running' = running
  BY DEF ParseQueues
<1>2. NewJob(t) \in Jobs
  BY NewJobOK
<1>3. /\ Len(m_tasks'[Extraction]) = Len(m_tasks[Extraction]) + 1
      /\ \A x \in Worker \ {Extraction} : m_tasks'[x] = m_tasks[x]
      /\ \A j : InQueue(j)' <=> j = NewJob(t) \/ InQueue(j)
  BY <1>1, <1>2, Services, Joins DEF IInv
<1>. QED  BY <1>1, <1>3 DEF IsHeld, InQueue

LEMMA FlushMoves ==
    ASSUME IInv, NEW c \in Caller, NEW w \in Worker, Flush(c, w)
    PROVE  \A j : IsHeld(j)' => IsHeld(j)
<1>1. /\ m_tasks'[w] = <<>> /\ \A x \in Worker \ {w} : m_tasks'[x] = m_tasks[x]
      /\ phase' = phase /\ running' = running
  BY DEF Flush, IInv, TypeOK, WorkersOK
<1>2. ASSUME NEW x \in Worker, NEW i \in DOMAIN m_tasks'[x]
      PROVE  i \in DOMAIN m_tasks[x] /\ m_tasks'[x][i] = m_tasks[x][i]
  BY <1>1
<1>. QED  BY <1>1, <1>2 DEF IsHeld

IsIn(j, q) == \E i \in DOMAIN q : q[i] = j

\* What a concatenation holds.
LEMMA Concatenation ==
    ASSUME NEW S, NEW q \in Seq(S), NEW r \in Seq(S)
    PROVE  /\ Len(q \o r) = Len(q) + Len(r)
           /\ \A j : IsIn(j, q \o r) <=> IsIn(j, q) \/ IsIn(j, r)
<1>1. /\ Len(q \o r) = Len(q) + Len(r) /\ Len(q) \in Nat /\ Len(r) \in Nat
      /\ DOMAIN (q \o r) = 1..(Len(q) + Len(r))
      /\ DOMAIN q = 1..Len(q) /\ DOMAIN r = 1..Len(r)
  OBVIOUS
<1>2. \A i \in DOMAIN q : i \in DOMAIN (q \o r) /\ (q \o r)[i] = q[i]
  OBVIOUS
<1>3. \A i \in DOMAIN r : i + Len(q) \in DOMAIN (q \o r) /\ (q \o r)[i + Len(q)] = r[i]
  OBVIOUS
<1>4. ASSUME NEW i \in DOMAIN (q \o r), i \notin DOMAIN q
      PROVE  i - Len(q) \in DOMAIN r /\ (q \o r)[i] = r[i - Len(q)]
  BY <1>1, <1>4
<1>. QED  BY <1>1, <1>2, <1>3, <1>4 DEF IsIn

LEMMA RestoreQueuesMoves ==
    ASSUME IInv, NEW c \in Caller, RestoreQueues(c)
    PROVE  /\ Len(m_tasks'[Extraction]) = Len(m_tasks[Extraction]) + Cardinality(fetched[c])
           /\ \A x \in Worker \ {Extraction} : m_tasks'[x] = m_tasks[x]
           /\ \A j : IsHeld(j)' <=> IsHeld(j) \/ j \in fetched[c]
           /\ fetched' = [fetched EXCEPT ![c] = {}] /\ Goes(c, "idle")
           /\ Cardinality(fetched[c]) \in Nat
<1>. DEFINE F == fetched[c]
            n == Cardinality(F)
            q == m_tasks[Extraction]
            Here(j) == IsIn(j, q)
            There(j) == \E x \in Worker \ {Extraction} :
                            \E i \in DOMAIN m_tasks[x] : m_tasks[x][i] = j
<1>1. PICK order \in [1..n -> F] :
          /\ \A j \in F : \E i \in DOMAIN order : order[i] = j
          /\ m_tasks' = [m_tasks EXCEPT ![Extraction] = @ \o order]
  BY DEF RestoreQueues
<1>2. /\ n \in Nat /\ F \subseteq Jobs /\ q \in Seq(Jobs)
      /\ m_tasks \in [Worker -> Seq(Jobs)] /\ phase' = phase /\ running' = running
  BY Services, FS_CardinalityType DEF RestoreQueues, IInv, Flow, FetchedOK, TypeOK, CallersOK,
    WorkersOK
<1>3. order \in Seq(Jobs) /\ Len(order) = n
  BY <1>2
<1>4. /\ m_tasks'[Extraction] = q \o order
      /\ \A x \in Worker \ {Extraction} : m_tasks'[x] = m_tasks[x]
  BY <1>1, <1>2, Services
<1>5. /\ Len(q \o order) = Len(q) + n
      /\ \A j : IsIn(j, q \o order) <=> Here(j) \/ IsIn(j, order)
  <2>. HIDE DEF q
  <2>. QED  BY <1>2, <1>3, Concatenation
<1>6. \A j : IsIn(j, order) <=> j \in F
  BY <1>1 DEF IsIn
<1>7. /\ Goes(c, "idle") /\ fetched' = [fetched EXCEPT ![c] = {}]
  BY DEF RestoreQueues
<1>8. ASSUME NEW j
      PROVE  (\E x \in Worker : \E i \in DOMAIN m_tasks'[x] : m_tasks'[x][i] = j)
                <=> Here(j) \/ There(j) \/ j \in F
  <2>1. (\E i \in DOMAIN m_tasks'[Extraction] : m_tasks'[Extraction][i] = j)
            <=> Here(j) \/ j \in F
    BY <1>4, <1>5, <1>6 DEF IsIn
  <2>2. (\E x \in Worker \ {Extraction} : \E i \in DOMAIN m_tasks'[x] : m_tasks'[x][i] = j)
            <=> There(j)
    BY <1>4
  <2>. HIDE DEF There, Here, F
  <2>3. (\E x \in Worker : \E i \in DOMAIN m_tasks'[x] : m_tasks'[x][i] = j)
            <=> \/ \E i \in DOMAIN m_tasks'[Extraction] : m_tasks'[Extraction][i] = j
                \/ \E x \in Worker \ {Extraction} :
                       \E i \in DOMAIN m_tasks'[x] : m_tasks'[x][i] = j
    BY Services
  <2>. QED  BY <2>1, <2>2, <2>3
<1>9. ASSUME NEW j PROVE IsHeld(j)' <=> IsHeld(j) \/ j \in F
  <2>1. IsHeld(j) <=> \/ \E w \in Worker : phase[w] # "idle" /\ running[w] = j
                      \/ Here(j) \/ There(j)
    BY Services DEF IsHeld, IsIn
  <2>2. IsHeld(j)' <=> \/ \E w \in Worker : phase[w] # "idle" /\ running[w] = j
                       \/ Here(j) \/ There(j) \/ j \in F
    BY <1>2, <1>8 DEF IsHeld
  <2>. HIDE DEF Here, There, F
  <2>. QED  BY <2>1, <2>2
<1>. QED  BY <1>2, <1>4, <1>5, <1>7, <1>9

-----------------------------------------------------------------------------
(* No task is lost.                                                        *)

Parsed == Creation \cup Refresh \cup Link

\* A thread that has still to read the table.
WillFetch == \E c \in Caller : at[c] \in {"flush0", "flush1", "flush2", "reset", "fetch"}

\* A row that could be parsed has a job, or will be fetched.
Due(t) == Forgotten(t) => HasJob(t) \/ WillFetch

\* A job that is completed is so in the table.
Behind(j) == j.step = Completed => step[j.id] = Completed
Shown == \A j \in Jobs : IsHeld(j) => Behind(j)

FetchedInTime == \A c \in Caller : at[c] \notin {"count", "queue"} => fetched[c] = {}

KeptInvariant == Shown /\ FetchedInTime /\ \A t \in Parsed : Due(t)

LEMMA ParsedTasks == Parsed \subseteq Task
BY DEF Parsed, Task

LEMMA OwnKept ==
    ASSUME IInv, IInv', KeptInvariant, NEW w \in Worker, Own(w)
    PROVE  KeptInvariant'
<1>. DEFINE u == running[w].id
<1>1. /\ phase[w] # "idle" /\ phase'[w] # "idle" /\ running[w] \in Jobs
      /\ \A x \in Worker \ {w} : phase'[x] = phase[x] /\ running'[x] = running[x]
      /\ running'[w].id = u
      /\ UNCHANGED <<m_tasks, callers, mounted, tried>>
      /\ rows' \subseteq rows
      /\ \A t \in Task \ {u} : step'[t] = step[t] /\ attempts_left'[t] = attempts_left[t]
      /\ step'[u] \in {step[u], Completed}
      /\ running'[w].step = Completed => running[w].step = Completed \/ step'[u] = Completed
  BY OwnMoves
<1>2. IsHeld(running[w])
  BY <1>1 DEF IsHeld
<1>3. \A j \in Jobs : j.id \in Task
  BY DEF Jobs
<1>4. Shown'
  <2>. SUFFICES ASSUME NEW j \in Jobs, IsHeld(j)', j.step = Completed
                PROVE  step'[j.id] = Completed
    BY DEF Shown, Behind
  <2>1. CASE IsHeld(j)
    <3>1. step[j.id] = Completed
      BY <2>1 DEF KeptInvariant, Shown, Behind
    <3>. QED  BY <1>1, <1>3, <3>1
  <2>2. CASE j = running'[w]
    <3>1. running[w].step = Completed => step[u] = Completed
      BY <1>1, <1>2 DEF KeptInvariant, Shown, Behind
    <3>. QED  BY <1>1, <2>2, <3>1
  <2>. QED  BY <1>1, <2>1, <2>2 DEF IsHeld
<1>5. FetchedInTime'
  BY <1>1 DEF KeptInvariant, FetchedInTime, callers
<1>6. ASSUME NEW t \in Parsed, Forgotten(t)' PROVE HasJob(t)' \/ WillFetch'
  <2>1. CASE t = u
    BY <1>1, <2>1 DEF HasJob, InWorker
  <2>2. CASE t # u
    <3>1. Forgotten(t)
      BY <1>1, <1>6, <2>2, ParsedTasks DEF Forgotten
    <3>2. HasJob(t) \/ WillFetch
      BY <3>1 DEF KeptInvariant, Due
    <3>3. InWorker(t) => InWorker(t)'
      BY <1>1, <2>2 DEF InWorker
    <3>. QED
      BY <1>1, <3>2, <3>3 DEF HasJob, Coming, Queued, IsFetched, WillFetch, callers
  <2>. QED  BY <2>1, <2>2
<1>. QED  BY <1>4, <1>5, <1>6 DEF KeptInvariant, Due

\* The rows, and what is completed, stay as they are, and so do the jobs, but for those
\* whose row was tried.
LEMMA QuietKept ==
    ASSUME IInv, IInv', KeptInvariant, step' = step, FetchedInTime',
           \A t \in Parsed : Forgotten(t)' => Forgotten(t) \/ HasJob(t)' \/ WillFetch',
           \A j \in Jobs : IsHeld(j)' => IsHeld(j) \/ j.step # Completed,
           WillFetch => WillFetch',
           \A t \in Parsed : HasJob(t) /\ Forgotten(t)' => HasJob(t)' \/ WillFetch'
    PROVE  KeptInvariant'
<1>1. Shown'
  BY DEF KeptInvariant, Shown, Behind
<1>2. \A t \in Parsed : Due(t)'
  BY DEF KeptInvariant, Due
<1>. QED  BY <1>1, <1>2 DEF KeptInvariant

LEMMA HasJobMeans ==
    ASSUME TypeOK, NEW t
    PROVE  HasJob(t) <=> Coming(t) \/ IsFetched(t) \/ \E j \in Jobs : IsHeld(j) /\ j.id = t
BY HeldMeans DEF HasJob

LEMMA HasJobMeansNext ==
    ASSUME TypeOK', NEW t
    PROVE  HasJob(t)' <=> Coming(t)' \/ IsFetched(t)' \/ \E j \in Jobs : IsHeld(j)' /\ j.id = t
<1>1. \A w \in Worker :
          m_tasks'[w] \in Seq(Jobs) /\ (phase'[w] # "idle" => running'[w] \in Jobs)
  BY DEF TypeOK, WorkersOK
<1>2. Queued(t)' \/ InWorker(t)' <=> \E j \in Jobs : IsHeld(j)' /\ j.id = t
  BY <1>1 DEF IsHeld, Queued, InWorker
<1>. QED  BY <1>2 DEF HasJob

LEMMA MoveKept ==
    ASSUME IInv, IInv', KeptInvariant, NEW w \in Worker, Take(w) \/ Done(w) \/ Forward(w)
    PROVE  KeptInvariant'
<1>1. /\ UNCHANGED <<step, attempts_left, mounted, callers>> /\ rows' \subseteq rows
      /\ tried \subseteq tried'
  BY DEF Take, Done, Forward, Frees, db, observed
<1>2. /\ FetchedInTime'
      /\ \A t \in Parsed : Forgotten(t)' => Forgotten(t)
      /\ WillFetch => WillFetch'
      /\ \A t : (Coming(t)' <=> Coming(t)) /\ (IsFetched(t)' <=> IsFetched(t))
  BY <1>1 DEF KeptInvariant, FetchedInTime, Forgotten, WillFetch, Coming, IsFetched, callers
<1>3. \A j \in Jobs : IsHeld(j)' => IsHeld(j)
  BY TakeMoves, DoneMoves, ForwardMoves
<1>4. ASSUME NEW t \in Parsed, HasJob(t), Forgotten(t)' PROVE HasJob(t)'
  <2>. SUFFICES ASSUME NEW j \in Jobs, IsHeld(j), j.id = t, ~IsHeld(j)' PROVE FALSE
    BY <1>2, <1>4, HasJobMeans, HasJobMeansNext DEF IInv
  <2>1. Done(w) /\ j = running[w]
    BY TakeMoves, DoneMoves, ForwardMoves
  <2>2. isCompleted(j)
    BY <1>4, <2>1 DEF Done, Forgotten
  <2>3. j.step = Completed
    <3>1. StepOK(j)
      BY <2>1 DEF IInv, Flow, RunsOK, RunOK, Done
    <3>. QED  BY <2>2, <3>1, Services DEF StepOK, isCompleted, Completed
  <2>4. step[t] = Completed
    BY <2>3 DEF KeptInvariant, Shown, Behind
  <2>. QED  BY <1>1, <1>4, <2>4 DEF Forgotten
<1>. QED  BY <1>1, <1>2, <1>3, <1>4, QuietKept

LEMMA ParseKept ==
    ASSUME IInv, IInv', KeptInvariant, NEW u \in Task,
           Create(u) \/ ParseCounts(u) \/ ParseQueues(u)
    PROVE  KeptInvariant'
<1>1. /\ UNCHANGED <<step, attempts_left, mounted, at, fetched, tried>>
      /\ rows' \subseteq rows \cup {u}
      /\ \A t \in Task \ {u} : adding'[t] = adding[t]
  BY DEF Create, ParseCounts, ParseQueues, db, observed, IInv, TypeOK, CallersOK
<1>2. /\ FetchedInTime'
      /\ \A t \in Parsed \ {u} : Forgotten(t)' => Forgotten(t)
      /\ WillFetch => WillFetch'
      /\ \A t : IsFetched(t)' <=> IsFetched(t)
      /\ \A t \in Parsed \ {u} : Coming(t)' <=> Coming(t)
  BY <1>1, ParsedTasks DEF KeptInvariant, FetchedInTime, Forgotten, WillFetch, IsFetched, Coming
<1>3. /\ \A j \in Jobs : IsHeld(j) => IsHeld(j)'
      /\ \A j \in Jobs : IsHeld(j)' => IsHeld(j) \/ j.step # Completed
  <2>1. CASE Create(u) \/ ParseCounts(u)
    BY <2>1 DEF Create, ParseCounts, workers, IsHeld
  <2>2. CASE ParseQueues(u)
    <3>1. NewJob(u).step # Completed
      BY DEF NewJob, Completed
    <3>. QED  BY <2>2, <3>1, ParseQueuesMoves
  <2>. QED  BY <2>1, <2>2
<1>4. HasJob(u)'
  <2>1. CASE Create(u) \/ ParseCounts(u)
    BY <2>1 DEF Create, ParseCounts, HasJob, Coming, IInv, TypeOK, CallersOK
  <2>2. CASE ParseQueues(u)
    <3>1. NewJob(u) \in Jobs /\ NewJob(u).id = u
      BY NewJobOK DEF NewJob
    <3>. QED  BY <2>2, <3>1, ParseQueuesMoves, HasJobMeansNext DEF IInv
  <2>. QED  BY <2>1, <2>2
<1>5. ASSUME NEW t \in Parsed, HasJob(t) PROVE HasJob(t)'
  BY <1>2, <1>3, <1>4, <1>5, HasJobMeans, HasJobMeansNext DEF IInv
<1>. QED  BY <1>1, <1>2, <1>3, <1>4, <1>5, QuietKept

LEMMA CallerKept ==
    ASSUME IInv, IInv', KeptInvariant, NEW c \in Caller,
           \/ \E w \in Worker : Flush(c, w)
           \/ ResetCounters(c) \/ RestoreCounts(c) \/ RestoreQueues(c)
    PROVE  KeptInvariant'
<1>0. at \in [Caller -> {"idle", "flush0", "flush1", "flush2", "reset", "fetch", "count",
                         "queue"}]
      /\ fetched \in [Caller -> SUBSET Jobs]
  BY DEF IInv, TypeOK, CallersOK
<1>1. /\ UNCHANGED <<rows, step, attempts_left, mounted, tried, adding>>
      /\ \A d \in Caller \ {c} : at'[d] = at[d]
  BY <1>0 DEF Flush, ResetCounters, RestoreCounts, RestoreQueues, Goes, db, observed
<1>2. /\ \A t : Forgotten(t)' => Forgotten(t)
      /\ \A t : Coming(t)' <=> Coming(t)
  BY <1>1 DEF Forgotten, Coming
<1>3. ASSUME NEW w \in Worker, Flush(c, w) PROVE KeptInvariant'
  <2>1. at'[c] \in {"flush1", "flush2", "reset"} /\ at[c] \in {"flush0", "flush1", "flush2"}
    BY <1>0, <1>3, Services DEF Flush, Goes
  <2>2. WillFetch'
    BY <2>1 DEF WillFetch
  <2>3. FetchedInTime'
    BY <1>1, <1>3, <2>1 DEF Flush, KeptInvariant, FetchedInTime
  <2>. QED  BY <1>1, <1>2, <1>3, <2>2, <2>3, FlushMoves, QuietKept
<1>4. CASE ResetCounters(c)
  <2>1. at'[c] = "fetch" /\ at[c] = "reset" /\ fetched' = fetched
    BY <1>0, <1>4 DEF ResetCounters, Goes
  <2>2. WillFetch'
    BY <2>1 DEF WillFetch
  <2>3. FetchedInTime'
    BY <1>1, <2>1 DEF KeptInvariant, FetchedInTime
  <2>4. \A j : IsHeld(j)' <=> IsHeld(j)
    BY <1>4 DEF ResetCounters, workers, IsHeld
  <2>. QED  BY <1>1, <1>2, <2>2, <2>3, <2>4, QuietKept
<1>5. CASE RestoreCounts(c)
  <2>1. at'[c] = "queue" /\ at[c] = "count" /\ fetched' = fetched
    BY <1>0, <1>5 DEF RestoreCounts, Goes
  <2>2. WillFetch => WillFetch'
    BY <1>1, <2>1 DEF WillFetch
  <2>3. FetchedInTime'
    BY <1>1, <2>1 DEF KeptInvariant, FetchedInTime
  <2>4. \A j : IsHeld(j)' <=> IsHeld(j)
    BY <1>5 DEF RestoreCounts, workers, IsHeld
  <2>5. \A t : IsFetched(t)' <=> IsFetched(t)
    BY <2>1 DEF IsFetched
  <2>6. \A t : HasJob(t) => HasJob(t)'
    BY <1>2, <2>4, <2>5, HasJobMeans, HasJobMeansNext DEF IInv
  <2>. QED  BY <1>1, <1>2, <2>2, <2>3, <2>4, <2>6, QuietKept
<1>6. CASE RestoreQueues(c)
  <2>1. /\ \A j : IsHeld(j)' <=> IsHeld(j) \/ j \in fetched[c]
        /\ fetched' = [fetched EXCEPT ![c] = {}] /\ at'[c] = "idle" /\ at[c] = "queue"
    BY <1>0, <1>6, RestoreQueuesMoves DEF Goes, RestoreQueues
  <2>2. WillFetch => WillFetch'
    BY <1>1, <2>1 DEF WillFetch
  <2>3. FetchedInTime'
    BY <1>0, <1>1, <2>1 DEF KeptInvariant, FetchedInTime
  <2>4. \A j \in Jobs : IsHeld(j)' => IsHeld(j) \/ j.step # Completed
    BY <2>1 DEF IInv, Flow, FetchedOK, Completed
  <2>5. ASSUME NEW t, HasJob(t) PROVE HasJob(t)'
    <3>1. CASE IsFetched(t)
      <4>1. PICK d \in Caller : \E j \in fetched[d] : j.id = t
        BY <3>1 DEF IsFetched
      <4>2. CASE d = c
        BY <1>0, <2>1, <4>1, <4>2, HasJobMeansNext DEF IInv
      <4>3. CASE d # c
        BY <1>0, <2>1, <4>1, <4>3 DEF HasJob, IsFetched
      <4>. QED  BY <4>2, <4>3
    <3>2. CASE ~IsFetched(t)
      BY <1>2, <2>1, <2>5, <3>2, HasJobMeans, HasJobMeansNext DEF IInv
    <3>. QED  BY <3>1, <3>2
  <2>. QED  BY <1>1, <1>2, <2>2, <2>3, <2>4, <2>5, QuietKept
<1>. QED  BY <1>3, <1>4, <1>5, <1>6

\* What could be parsed is fetched.
LEMMA FetchKept ==
    ASSUME IInv, IInv', KeptInvariant, NEW c \in Caller, Fetch(c)
    PROVE  KeptInvariant'
<1>0. /\ at \in [Caller -> {"idle", "flush0", "flush1", "flush2", "reset", "fetch", "count",
                            "queue"}]
      /\ fetched \in [Caller -> SUBSET Jobs]
  BY DEF IInv, TypeOK, CallersOK
<1>. DEFINE F == {Job(t) : t \in {u \in Task : Fetchable(u)}}
<1>1. /\ UNCHANGED <<rows, step, attempts_left, mounted, tried, adding, workers>>
      /\ \A d \in Caller \ {c} : at'[d] = at[d] /\ fetched'[d] = fetched[d]
      /\ fetched'[c] = F /\ at'[c] = IF F = {} THEN "idle" ELSE "count"
  BY <1>0 DEF Fetch, Goes, db, observed
<1>2. \A j : IsHeld(j)' <=> IsHeld(j)
  BY <1>1 DEF workers, IsHeld
<1>3. Shown'
  BY <1>1, <1>2 DEF KeptInvariant, Shown, Behind
<1>4. FetchedInTime'
  <2>. HIDE DEF F
  <2>. QED  BY <1>1 DEF KeptInvariant, FetchedInTime
<1>5. ASSUME NEW t \in Parsed, Forgotten(t)' PROVE HasJob(t)'
  <2>1. t \in Task /\ Fetchable(t)
    BY <1>1, <1>5, ParsedTasks DEF Forgotten, Fetchable, Parsed
  <2>2. Job(t) \in fetched'[c] /\ Job(t).id = t
    BY <1>1, <2>1 DEF Job
  <2>. QED  BY <2>2 DEF HasJob, IsFetched
<1>. QED  BY <1>3, <1>4, <1>5 DEF KeptInvariant, Due

LEMMA EventKept ==
    ASSUME IInv, IInv', KeptInvariant,
           refreshTaskList \/ Mount \/ Crash \/ forceParserRetry \/ UNCHANGED vars
    PROVE  KeptInvariant'
<1>0. at \in [Caller -> {"idle", "flush0", "flush1", "flush2", "reset", "fetch", "count",
                         "queue"}]
  BY DEF IInv, TypeOK, CallersOK
<1>1. CASE refreshTaskList \/ Mount
  <2>1. PICK c \in Caller : at[c] = "idle" /\ Goes(c, "flush0")
    BY <1>1 DEF refreshTaskList, Mount, Caller
  <2>2. at'[c] = "flush0" /\ \A d \in Caller \ {c} : at'[d] = at[d]
    BY <1>0, <2>1 DEF Goes
  <2>3. WillFetch'
    BY <2>2 DEF WillFetch
  <2>4. step' = step /\ workers' = workers /\ fetched' = fetched
    BY <1>1 DEF refreshTaskList, Mount, db
  <2>5. FetchedInTime'
    BY <2>1, <2>2, <2>4 DEF KeptInvariant, FetchedInTime
  <2>6. \A j : IsHeld(j)' <=> IsHeld(j)
    BY <2>4 DEF workers, IsHeld
  <2>. QED  BY <2>3, <2>4, <2>5, <2>6, QuietKept
<1>2. CASE Crash
  <2>1. /\ at' = [c \in Caller |-> IF c = "start" THEN "fetch" ELSE "idle"]
        /\ fetched' = [c \in Caller |-> {}] /\ m_tasks' = [w \in Worker |-> <<>>]
        /\ phase' = [w \in Worker |-> "idle"] /\ step' = step
    BY <1>2 DEF Crash, db
  <2>2. WillFetch' /\ FetchedInTime'
    BY <2>1 DEF WillFetch, FetchedInTime, Caller
  <2>3. \A j : ~IsHeld(j)'
    BY <2>1 DEF IsHeld
  <2>. QED  BY <2>1, <2>2, <2>3, QuietKept
<1>3. CASE forceParserRetry
  <2>1. /\ UNCHANGED <<rows, step, mounted, workers, callers>>
        /\ \A t \in rows : attempts_left[t] <= 0 => t \in tried'
        /\ tried \subseteq tried'
    BY <1>3 DEF forceParserRetry
  <2>2. \A t \in Parsed : Forgotten(t)' => Forgotten(t)
    <3>1. \A t \in Task : attempts_left[t] \in Int
      BY DEF IInv, TypeOK, DatabaseOK
    <3>. QED  BY <2>1, <3>1, ParsedTasks DEF Forgotten
  <2>3. /\ FetchedInTime' /\ (WillFetch => WillFetch')
        /\ \A j : IsHeld(j)' <=> IsHeld(j)
        /\ \A t : HasJob(t) => HasJob(t)'
    BY <2>1 DEF KeptInvariant, FetchedInTime, WillFetch, callers, workers, IsHeld, HasJob, Coming,
      Queued, InWorker, IsFetched
  <2>. QED  BY <2>1, <2>2, <2>3, QuietKept
<1>4. CASE UNCHANGED vars
  BY <1>4 DEF vars, db, workers, callers, observed, KeptInvariant, Shown, Behind, FetchedInTime, Due,
    Forgotten, HasJob, WillFetch, Coming, Queued, InWorker, IsFetched, IsHeld
<1>. QED  BY <1>1, <1>2, <1>3, <1>4

LEMMA KeptStep == IInv /\ IInv' /\ KeptInvariant /\ [Next]_vars => KeptInvariant'
<1>. SUFFICES ASSUME IInv, IInv', KeptInvariant, [Next]_vars PROVE KeptInvariant'
  OBVIOUS
<1>1. CASE Work
  <2>1. PICK w \in Worker : Own(w) \/ Take(w) \/ Done(w) \/ Forward(w)
    BY <1>1 DEF Work, Own
  <2>. QED  BY <2>1, OwnKept, MoveKept
<1>2. CASE Restores
  <2>1. PICK c \in Caller :
            \/ \E w \in Worker : Flush(c, w)
            \/ ResetCounters(c) \/ Fetch(c) \/ RestoreCounts(c) \/ RestoreQueues(c)
    BY <1>2 DEF Restores
  <2>. QED  BY <2>1, CallerKept, FetchKept
<1>3. CASE Adds \/ \E t \in Task : Create(t)
  BY <1>3, ParseKept DEF Adds
<1>4. CASE refreshTaskList \/ Mount \/ Crash \/ forceParserRetry \/ Rest \/ UNCHANGED vars
  BY <1>4, EventKept DEF Rest
<1>. QED  BY <1>1, <1>2, <1>3, <1>4 DEF Next

\* For any rows, crashes, mounts, refreshes and retries, and however the threads interleave:
\* once the queues are empty, each row that could be parsed was tried since the last event
\* that gave it a chance (flush(), restore(), Parser::start, onDeviceReappearing).
THEOREM NoTaskIsForgotten == Spec => []NoTaskForgotten
<1>1. Init => KeptInvariant
  <2>. SUFFICES ASSUME Init PROVE KeptInvariant
    OBVIOUS
  <2>1. Shown /\ FetchedInTime
    BY DEF Init, Shown, IsHeld, FetchedInTime
  <2>2. \A t : ~Forgotten(t)
    BY DEF Init, Forgotten
  <2>. QED  BY <2>1, <2>2 DEF KeptInvariant, Due
<1>2. IInv /\ KeptInvariant => NoTaskForgotten
  <2>. SUFFICES ASSUME KeptInvariant, Settled, NEW t \in Parsed, Forgotten(t) PROVE FALSE
    BY DEF NoTaskForgotten, Parsed
  <2>1. \A c \in Caller : fetched[c] = {} /\ at[c] = "idle"
    BY DEF Settled, KeptInvariant, FetchedInTime
  <2>2. ~WillFetch /\ ~HasJob(t)
    BY <2>1, ParsedTasks DEF Settled, WillFetch, HasJob, Coming, Queued, InWorker, IsFetched
  <2>. QED  BY <2>2 DEF KeptInvariant, Due
<1>3. IInv /\ IInv' /\ KeptInvariant /\ [Next]_vars => KeptInvariant'
  BY KeptStep
<1>. QED  BY <1>1, <1>2, <1>3, Invariance, PTL DEF Spec

-----------------------------------------------------------------------------
(* The counters agree.                                                     *)

\* What m_opScheduled may count and m_opDone does not yet: the jobs in the queues, those
\* the workers have, those that restore() has counted and not queued, and the tasks that
\* parse() has.
Lengths == [w \in Worker |-> Len(m_tasks[w])]
Busy == [w \in Worker |-> IF phase[w] = "idle" THEN 0 ELSE 1]
Counted == [c \in Caller |-> IF at[c] = "queue" THEN Cardinality(fetched[c]) ELSE 0]
Announced == {t \in Task : adding[t] = "counted"}

OnWorkers(f) == f[Extraction] + f[Analysis] + f[Linking]
OnCallers(f) == f["start"] + f["discoverer"] + f["device"]

Outstanding ==
    OnWorkers(Lengths) + OnWorkers(Busy) + OnCallers(Counted) + Cardinality(Announced)

WillReset == \E c \in Caller : at[c] \in {"flush1", "flush2", "reset"}

\* From the first flush() to the reset, jobs are lost that are still counted; the rest of
\* the time, those that are not done are somewhere.
StatsInvariant == WillReset \/ m_opScheduled - m_opDone <= Outstanding

\* Only one entry changes.
LEMMA OneWorker ==
    ASSUME NEW f \in [Worker -> Nat], NEW g \in [Worker -> Nat], NEW w \in Worker,
           \A x \in Worker \ {w} : g[x] = f[x]
    PROVE  OnWorkers(g) = OnWorkers(f) - f[w] + g[w]
BY Services DEF OnWorkers

LEMMA OneCaller ==
    ASSUME NEW f \in [Caller -> Nat], NEW g \in [Caller -> Nat], NEW c \in Caller,
           \A x \in Caller \ {c} : g[x] = f[x]
    PROVE  OnCallers(g) = OnCallers(f) - f[c] + g[c]
BY DEF OnCallers, Caller

LEMMA SumsType ==
    /\ \A f \in [Worker -> Nat] : OnWorkers(f) \in Nat
    /\ \A f \in [Caller -> Nat] : OnCallers(f) \in Nat
BY Services DEF OnWorkers, OnCallers, Caller

\* What the four terms are made of.
Parts ==
    /\ Lengths \in [Worker -> Nat] /\ Busy \in [Worker -> Nat]
    /\ Counted \in [Caller -> Nat]
    /\ IsFiniteSet(Announced) /\ Cardinality(Announced) \in Nat

LEMMA PartsType == IInv => Parts
<1>. SUFFICES ASSUME IInv PROVE Parts
  OBVIOUS
<1>1. \A w \in Worker : Len(m_tasks[w]) \in Nat
  BY DEF IInv, TypeOK, WorkersOK
<1>2. \A c \in Caller : Cardinality(fetched[c]) \in Nat
  BY FS_CardinalityType DEF IInv, Flow, FetchedOK
<1>3. IsFiniteSet(Announced) /\ Cardinality(Announced) \in Nat
  <2>1. IsFiniteSet(Task) /\ Announced \subseteq Task
    BY ParserAssumption DEF Task, Announced
  <2>. QED  BY <2>1, FS_Subset, FS_CardinalityType
<1>. QED  BY <1>1, <1>2, <1>3 DEF Parts, Lengths, Busy, Counted

LEMMA PartsTypeNext == IInv' => Parts'
<1>. SUFFICES ASSUME IInv' PROVE Parts'
  OBVIOUS
<1>1. \A w \in Worker : Len(m_tasks'[w]) \in Nat
  BY DEF IInv, TypeOK, WorkersOK
<1>2. \A c \in Caller : Cardinality(fetched'[c]) \in Nat
  BY FS_CardinalityType DEF IInv, Flow, FetchedOK
<1>3. IsFiniteSet(Announced') /\ Cardinality(Announced') \in Nat
  <2>1. IsFiniteSet(Task) /\ Announced' \subseteq Task
    BY ParserAssumption DEF Task, Announced
  <2>. QED  BY <2>1, FS_Subset, FS_CardinalityType
<1>. QED  BY <1>1, <1>2, <1>3 DEF Parts, Lengths, Busy, Counted

LEMMA OutstandingNext == ASSUME IInv' PROVE Outstanding' \in Nat
<1>1. Parts'
  BY PartsTypeNext
<1>2. /\ OnWorkers(Lengths)' \in Nat /\ OnWorkers(Busy)' \in Nat
      /\ OnCallers(Counted)' \in Nat /\ Cardinality(Announced)' \in Nat
  BY <1>1, SumsType DEF Parts
<1>. QED  BY <1>2 DEF Outstanding

\* What the steps that count and reset do to the counters.
LEMMA Counts ==
    ASSUME NEW done \in Nat, NEW scheduled \in Nat, updateStats(done, scheduled)
    PROVE  /\ m_opScheduled' = scheduled
           /\ m_opDone' = done \/ m_opDone' = scheduled
           /\ m_opDone' = done \/ scheduled <= done
BY DEF updateStats, Least

Figures == m_opScheduled \in Nat /\ m_opDone \in Nat /\ m_opDone <= m_opScheduled

\* A step of the workers and the counters alone.
LEMMA WorkersCount ==
    ASSUME IInv, IInv', StatsInvariant, UNCHANGED callers,
           \/ UNCHANGED <<m_opScheduled, m_opDone>>
              /\ OnWorkers(Lengths)' + OnWorkers(Busy)' >= OnWorkers(Lengths) + OnWorkers(Busy)
           \/ updateStats(m_opDone + 1, m_opScheduled)
              /\ OnWorkers(Lengths)' + OnWorkers(Busy)' = OnWorkers(Lengths) + OnWorkers(Busy) - 1
    PROVE  StatsInvariant'
<1>1. /\ OnCallers(Counted)' = OnCallers(Counted)
      /\ Announced' = Announced /\ (WillReset <=> WillReset')
  BY DEF callers, Counted, Announced, WillReset, OnCallers
<1>2. Parts /\ Parts'
  BY PartsType, PartsTypeNext
<1>3. /\ OnWorkers(Lengths) \in Nat /\ OnWorkers(Busy) \in Nat
      /\ OnWorkers(Lengths)' \in Nat /\ OnWorkers(Busy)' \in Nat
      /\ OnCallers(Counted) \in Nat /\ Cardinality(Announced) \in Nat
  BY <1>2, SumsType DEF Parts
<1>4. Figures
  BY DEF Figures, IInv, TypeOK, CountersOK
<1>. DEFINE L == OnWorkers(Lengths)
            B == OnWorkers(Busy)
            C == OnCallers(Counted)
            A == Cardinality(Announced)
<1>5. Outstanding = L + B + C + A /\ Outstanding' = L' + B' + C + A
  BY <1>1 DEF Outstanding
<1>6. CASE UNCHANGED <<m_opScheduled, m_opDone>> /\ L' + B' >= L + B
  <2>. HIDE DEF L, B, C, A
  <2>. QED  BY <1>1, <1>3, <1>4, <1>5, <1>6 DEF StatsInvariant, Figures, L, B, C, A
<1>7. CASE updateStats(m_opDone + 1, m_opScheduled) /\ L' + B' = L + B - 1
  <2>1. m_opScheduled' = m_opScheduled
        /\ (m_opDone' = m_opDone + 1 \/ m_opDone' = m_opScheduled)
    BY <1>4, <1>7, Counts DEF Figures
  <2>. QED  BY <1>1, <1>3, <1>4, <1>5, <1>7, <2>1 DEF StatsInvariant, Figures
<1>. QED  BY <1>6, <1>7

\* The lengths of the queues and the workers that have a job.
LEMMA Entries ==
    /\ \A w \in Worker : Lengths[w] = Len(m_tasks[w])
    /\ \A w \in Worker : Busy[w] = IF phase[w] = "idle" THEN 0 ELSE 1
BY DEF Lengths, Busy

LEMMA EntriesNext ==
    /\ \A w \in Worker : Lengths'[w] = Len(m_tasks'[w])
    /\ \A w \in Worker : Busy'[w] = IF phase'[w] = "idle" THEN 0 ELSE 1
BY DEF Lengths, Busy

LEMMA BusyMoves ==
    ASSUME Parts, Parts', NEW w \in Worker, \A x \in Worker \ {w} : phase'[x] = phase[x]
    PROVE  /\ phase[w] # "idle" /\ phase'[w] # "idle" => OnWorkers(Busy)' = OnWorkers(Busy)
           /\ phase[w] = "idle" /\ phase'[w] # "idle" => OnWorkers(Busy)' = OnWorkers(Busy) + 1
           /\ phase[w] # "idle" /\ phase'[w] = "idle" => OnWorkers(Busy)' = OnWorkers(Busy) - 1
<1>. DEFINE f == Busy
            g == Busy'
<1>1. /\ f \in [Worker -> Nat] /\ g \in [Worker -> Nat]
      /\ \A x \in Worker \ {w} : g[x] = f[x]
      /\ f[w] = IF phase[w] = "idle" THEN 0 ELSE 1
      /\ g[w] = IF phase'[w] = "idle" THEN 0 ELSE 1
  BY Entries, EntriesNext DEF Parts
<1>2. OnWorkers(Busy)' = OnWorkers(g)
  BY DEF OnWorkers
<1>. HIDE DEF f, g
<1>3. OnWorkers(g) = OnWorkers(f) - f[w] + g[w] /\ OnWorkers(f) \in Nat
  BY <1>1, OneWorker, SumsType
<1>. QED  BY <1>1, <1>2, <1>3 DEF f

LEMMA LengthsMove ==
    ASSUME Parts, Parts', NEW w \in Worker, NEW d \in Int,
           Len(m_tasks'[w]) = Len(m_tasks[w]) + d,
           \A x \in Worker \ {w} : m_tasks'[x] = m_tasks[x]
    PROVE  OnWorkers(Lengths)' = OnWorkers(Lengths) + d
<1>. DEFINE f == Lengths
            g == Lengths'
<1>1. /\ f \in [Worker -> Nat] /\ g \in [Worker -> Nat]
      /\ \A x \in Worker \ {w} : g[x] = f[x]
      /\ g[w] = f[w] + d
  BY Entries, EntriesNext DEF Parts
<1>2. OnWorkers(Lengths)' = OnWorkers(g)
  BY DEF OnWorkers
<1>. HIDE DEF f, g
<1>3. OnWorkers(g) = OnWorkers(f) - f[w] + g[w] /\ OnWorkers(f) \in Nat /\ f[w] \in Nat
  BY <1>1, OneWorker, SumsType
<1>. QED  BY <1>1, <1>2, <1>3 DEF f

LEMMA WorkStats ==
    ASSUME IInv, IInv', StatsInvariant, NEW w \in Worker,
           Own(w) \/ Take(w) \/ Done(w) \/ Forward(w)
    PROVE  StatsInvariant'
<1>. DEFINE L == OnWorkers(Lengths)
            B == OnWorkers(Busy)
<1>1. Parts /\ Parts'
  BY PartsType, PartsTypeNext
<1>2. L \in Nat /\ B \in Nat
  BY <1>1, SumsType DEF Parts
<1>3. UNCHANGED m_tasks => L' = L
  BY DEF OnWorkers, Lengths
<1>4. CASE Own(w)
  <2>1. UNCHANGED callers /\ UNCHANGED <<m_opScheduled, m_opDone>> /\ L' = L
    BY <1>3, <1>4, OwnMoves DEF counters
  <2>2. B' = B
    BY <1>1, <1>4, OwnMoves, BusyMoves
  <2>. HIDE DEF L, B
  <2>3. L' + B' >= L + B
    BY <1>2, <2>1, <2>2
  <2>. QED  BY <2>1, <2>3, WorkersCount DEF L, B
<1>5. CASE Take(w)
  <2>1. UNCHANGED callers /\ UNCHANGED <<m_opScheduled, m_opDone>>
    BY <1>5 DEF Take, counters
  <2>2. B' = B + 1
    BY <1>1, <1>5, TakeMoves, BusyMoves
  <2>3. L' = L - 1
    <3>1. Len(m_tasks'[w]) = Len(m_tasks[w]) + (-1)
      BY <1>5, TakeMoves DEF IInv, TypeOK, WorkersOK
    <3>2. -1 \in Int /\ \A x \in Worker \ {w} : m_tasks'[x] = m_tasks[x]
      BY <1>5, TakeMoves
    <3>3. L' = L + (-1)
      BY <1>1, <3>1, <3>2, LengthsMove
    <3>. HIDE DEF L
    <3>. QED  BY <1>2, <3>3
  <2>. HIDE DEF L, B
  <2>4. L' + B' >= L + B
    BY <1>2, <2>2, <2>3
  <2>. QED  BY <2>1, <2>4, WorkersCount DEF L, B
<1>6. CASE Done(w)
  <2>1. UNCHANGED callers /\ updateStats(m_opDone + 1, m_opScheduled) /\ L' = L
    BY <1>3, <1>6 DEF Done, Frees
  <2>2. B' = B - 1
    BY <1>1, <1>6, DoneMoves, BusyMoves
  <2>. HIDE DEF L, B
  <2>3. L' + B' = L + B - 1
    BY <1>2, <2>1, <2>2
  <2>. QED  BY <2>1, <2>3, WorkersCount DEF L, B
<1>7. CASE Forward(w)
  <2>1. UNCHANGED callers /\ UNCHANGED <<m_opScheduled, m_opDone>>
    BY <1>7 DEF Forward, Frees, counters
  <2>2. B' = B - 1
    BY <1>1, <1>7, ForwardMoves, BusyMoves
  <2>3. PICK next \in Worker : /\ Len(m_tasks'[next]) = Len(m_tasks[next]) + 1
                               /\ \A x \in Worker \ {next} : m_tasks'[x] = m_tasks[x]
    BY <1>7, ForwardMoves
  <2>4. L' = L + 1
    BY <1>1, <2>3, LengthsMove
  <2>. HIDE DEF L, B
  <2>5. L' + B' >= L + B
    BY <1>2, <2>2, <2>4
  <2>. QED  BY <2>1, <2>5, WorkersCount DEF L, B
<1>. QED  BY <1>4, <1>5, <1>6, <1>7

\* The steps of parse() and restore(), that count and queue.
LEMMA ParseStats ==
    ASSUME IInv, IInv', StatsInvariant, NEW t \in Task,
           Create(t) \/ ParseCounts(t) \/ ParseQueues(t)
    PROVE  StatsInvariant'
<1>. DEFINE L == OnWorkers(Lengths)
            B == OnWorkers(Busy)
            C == OnCallers(Counted)
            A == Cardinality(Announced)
<1>1. Parts /\ Parts' /\ Figures
  BY PartsType, PartsTypeNext DEF Figures, IInv, TypeOK, CountersOK
<1>2. /\ L \in Nat /\ B \in Nat /\ C \in Nat /\ A \in Nat
      /\ IsFiniteSet(Announced) /\ DOMAIN adding = Task
  BY <1>1, SumsType DEF Parts, IInv, TypeOK, CallersOK
<1>3. Outstanding = L + B + C + A /\ Outstanding' = L' + B' + C' + A'
  BY DEF Outstanding
<1>4. B' = B /\ C' = C /\ (WillReset <=> WillReset')
  BY DEF Create, ParseCounts, ParseQueues, workers, OnWorkers, Busy, OnCallers, Counted, WillReset
<1>5. UNCHANGED m_tasks => L' = L
  BY DEF OnWorkers, Lengths
<1>6. CASE Create(t)
  <2>1. Announced' = Announced /\ L' = L /\ UNCHANGED <<m_opScheduled, m_opDone>>
    BY <1>2, <1>5, <1>6 DEF Create, Announced, workers, counters
  <2>2. Outstanding' = Outstanding
    BY <1>3, <1>4, <2>1
  <2>. QED  BY <1>4, <2>1, <2>2 DEF StatsInvariant
<1>7. CASE ParseCounts(t)
  <2>1. /\ Announced' = Announced \cup {t} /\ t \notin Announced /\ L' = L
        /\ updateStats(m_opDone, m_opScheduled + 1)
    BY <1>2, <1>5, <1>7 DEF ParseCounts, Announced, workers
  <2>2. A' = A + 1
    BY <1>2, <2>1, FS_AddElement
  <2>3. m_opScheduled' = m_opScheduled + 1 /\ m_opDone' = m_opDone
    BY <1>1, <2>1, Counts DEF Figures
  <2>. HIDE DEF L, B, C, A
  <2>. QED  BY <1>1, <1>2, <1>3, <1>4, <2>1, <2>2, <2>3 DEF StatsInvariant, Figures
<1>8. CASE ParseQueues(t)
  <2>1. /\ Announced' = Announced \ {t} /\ t \in Announced
        /\ UNCHANGED <<m_opScheduled, m_opDone>>
    BY <1>2, <1>8 DEF ParseQueues, Announced, counters
  <2>2. A' = A - 1
    BY <1>2, <2>1, FS_RemoveElement
  <2>3. L' = L + 1
    BY <1>1, <1>8, Services, ParseQueuesMoves, LengthsMove
  <2>. HIDE DEF L, B, C, A
  <2>. QED  BY <1>1, <1>2, <1>3, <1>4, <2>1, <2>2, <2>3 DEF StatsInvariant, Figures
<1>. QED  BY <1>6, <1>7, <1>8

LEMMA CountedMoves ==
    ASSUME Parts, Parts', NEW c \in Caller,
           \A x \in Caller \ {c} : at'[x] = at[x] /\ fetched'[x] = fetched[x]
    PROVE  OnCallers(Counted)' = OnCallers(Counted) - Counted[c] + Counted'[c]
<1>. DEFINE f == Counted
            g == Counted'
<1>1. /\ f \in [Caller -> Nat] /\ g \in [Caller -> Nat]
      /\ \A x \in Caller \ {c} : g[x] = f[x]
  BY DEF Parts, Counted
<1>2. OnCallers(Counted)' = OnCallers(g)
  BY DEF OnCallers
<1>. HIDE DEF f, g
<1>3. OnCallers(g) = OnCallers(f) - f[c] + g[c]
  BY <1>1, OneCaller
<1>. QED  BY <1>2, <1>3 DEF f, g

LEMMA CallerStats ==
    ASSUME IInv, IInv', StatsInvariant, NEW c \in Caller,
           \/ \E w \in Worker : Flush(c, w)
           \/ ResetCounters(c) \/ Fetch(c) \/ RestoreCounts(c) \/ RestoreQueues(c)
    PROVE  StatsInvariant'
<1>. DEFINE L == OnWorkers(Lengths)
            B == OnWorkers(Busy)
            C == OnCallers(Counted)
            A == Cardinality(Announced)
            n == Cardinality(fetched[c])
<1>1. /\ Parts /\ Parts' /\ Figures
      /\ DOMAIN at = Caller /\ DOMAIN fetched = Caller
  BY PartsType, PartsTypeNext DEF Figures, IInv, TypeOK, CountersOK, CallersOK
<1>2. /\ L \in Nat /\ B \in Nat /\ C \in Nat /\ A \in Nat
      /\ L' \in Nat /\ B' \in Nat /\ C' \in Nat /\ A' \in Nat /\ n \in Nat
  BY <1>1, SumsType, FS_CardinalityType DEF Parts, IInv, Flow, FetchedOK
<1>3. Outstanding = L + B + C + A /\ Outstanding' = L' + B' + C' + A'
  BY DEF Outstanding
<1>4. CASE \E w \in Worker : Flush(c, w)
  <2>1. PICK w \in Worker : Flush(c, w)
    BY <1>4
  <2>2. at'[c] \in {"flush1", "flush2", "reset"}
    BY <1>1, <2>1, Services DEF Flush, Goes
  <2>. QED  BY <2>2 DEF StatsInvariant, WillReset
<1>5. CASE ResetCounters(c)
  <2>1. m_opDone' = 0 /\ m_opScheduled' = 0
    BY <1>5 DEF ResetCounters
  <2>2. Outstanding' \in Nat
    BY OutstandingNext
  <2>. QED  BY <2>1, <2>2 DEF StatsInvariant
<1>6. ASSUME UNCHANGED workers, UNCHANGED adding PROVE L' = L /\ B' = B /\ A' = A
  BY <1>6 DEF workers, OnWorkers, Busy, Lengths, Announced
<1>7. ASSUME Fetch(c) \/ RestoreCounts(c) \/ RestoreQueues(c)
      PROVE  /\ \A x \in Caller \ {c} : at'[x] = at[x] /\ fetched'[x] = fetched[x]
             /\ at[c] \notin {"flush1", "flush2", "reset"}
             /\ at'[c] \notin {"flush1", "flush2", "reset"}
             /\ Counted[c] = IF RestoreQueues(c) THEN n ELSE 0
             /\ Counted'[c] = IF RestoreCounts(c) THEN n ELSE 0
  <2>1. CASE Fetch(c)
    <3>1. /\ at[c] = "fetch" /\ at'[c] \in {"idle", "count"}
          /\ \A x \in Caller \ {c} : at'[x] = at[x] /\ fetched'[x] = fetched[x]
      BY <1>1, <2>1 DEF Fetch, Goes
    <3>. QED  BY <3>1 DEF Counted, RestoreQueues, RestoreCounts
  <2>2. CASE RestoreCounts(c)
    <3>1. /\ at[c] = "count" /\ at'[c] = "queue" /\ fetched' = fetched
          /\ \A x \in Caller \ {c} : at'[x] = at[x]
      BY <1>1, <2>2 DEF RestoreCounts, Goes
    <3>. QED  BY <2>2, <3>1 DEF Counted, RestoreQueues
  <2>3. CASE RestoreQueues(c)
    <3>1. /\ at[c] = "queue" /\ at'[c] = "idle"
          /\ \A x \in Caller \ {c} : at'[x] = at[x] /\ fetched'[x] = fetched[x]
      BY <1>1, <2>3 DEF RestoreQueues, Goes
    <3>. QED  BY <2>3, <3>1 DEF Counted, RestoreCounts
  <2>. QED  BY <1>7, <2>1, <2>2, <2>3
<1>8. ASSUME Fetch(c) \/ RestoreCounts(c) \/ RestoreQueues(c)
      PROVE  /\ C' = C - Counted[c] + Counted'[c]
             /\ WillReset <=> WillReset'
  <2>1. C' = C - Counted[c] + Counted'[c]
    <3>1. \A x \in Caller \ {c} : at'[x] = at[x] /\ fetched'[x] = fetched[x]
      BY <1>7, <1>8
    <3>. QED  BY <1>1, <3>1, CountedMoves
  <2>2. WillReset <=> WillReset'
    BY <1>7, <1>8 DEF WillReset
  <2>. QED  BY <2>1, <2>2
<1>9. CASE Fetch(c)
  <2>1. UNCHANGED <<m_opScheduled, m_opDone>> /\ L' = L /\ B' = B /\ A' = A
    BY <1>6, <1>9 DEF Fetch, counters
  <2>2. Counted[c] = 0 /\ Counted'[c] = 0
    BY <1>7, <1>9 DEF Fetch, RestoreCounts, RestoreQueues
  <2>3. C' = C /\ (WillReset <=> WillReset')
    <3>1. C' = C - Counted[c] + Counted'[c] /\ (WillReset <=> WillReset')
      BY <1>8, <1>9
    <3>. HIDE DEF C
    <3>. QED  BY <1>2, <2>2, <3>1
  <2>. QED  BY <1>3, <2>1, <2>3 DEF StatsInvariant
<1>10. CASE RestoreCounts(c)
  <2>1. updateStats(m_opDone, m_opScheduled + n) /\ L' = L /\ B' = B /\ A' = A
    BY <1>6, <1>10 DEF RestoreCounts
  <2>2. m_opScheduled' = m_opScheduled + n /\ m_opDone' = m_opDone
    <3>. HIDE DEF n
    <3>1. m_opDone \in Nat /\ m_opScheduled + n \in Nat
      BY <1>1, <1>2 DEF Figures
    <3>2. m_opScheduled' = m_opScheduled + n
      BY <2>1, <3>1, Counts
    <3>3. /\ m_opDone' = m_opDone \/ m_opDone' = m_opScheduled + n
          /\ m_opDone' = m_opDone \/ m_opScheduled + n <= m_opDone
      BY <2>1, <3>1, Counts
    <3>. QED  BY <1>1, <1>2, <3>2, <3>3 DEF Figures
  <2>3. Counted[c] = 0 /\ Counted'[c] = n
    BY <1>7, <1>10 DEF RestoreCounts, RestoreQueues
  <2>4. C' = C - Counted[c] + Counted'[c] /\ (WillReset <=> WillReset')
    BY <1>8, <1>10
  <2>. HIDE DEF L, B, C, A, n
  <2>. QED  BY <1>1, <1>2, <1>3, <2>1, <2>2, <2>3, <2>4 DEF StatsInvariant, Figures
<1>11. CASE RestoreQueues(c)
  <2>1. UNCHANGED <<m_opScheduled, m_opDone>> /\ B' = B /\ A' = A
    BY <1>11 DEF RestoreQueues, counters, OnWorkers, Busy, Announced
  <2>2. Counted[c] = n /\ Counted'[c] = 0
    BY <1>7, <1>11 DEF RestoreCounts, RestoreQueues
  <2>3. C' = C - Counted[c] + Counted'[c] /\ (WillReset <=> WillReset')
    BY <1>8, <1>11
  <2>4. L' = L + n
    <3>1. /\ Len(m_tasks'[Extraction]) = Len(m_tasks[Extraction]) + n
          /\ \A x \in Worker \ {Extraction} : m_tasks'[x] = m_tasks[x]
      BY <1>11, RestoreQueuesMoves
    <3>. HIDE DEF n
    <3>. QED  BY <1>1, <1>2, <3>1, Services, LengthsMove
  <2>. HIDE DEF L, B, C, A, n
  <2>. QED  BY <1>1, <1>2, <1>3, <2>1, <2>2, <2>3, <2>4 DEF StatsInvariant, Figures
<1>. QED  BY <1>4, <1>5, <1>9, <1>10, <1>11

LEMMA EventStats ==
    ASSUME IInv, IInv', StatsInvariant,
           refreshTaskList \/ Mount \/ Crash \/ forceParserRetry \/ UNCHANGED vars
    PROVE  StatsInvariant'
<1>1. CASE Crash
  <2>1. m_opScheduled' = 0 /\ m_opDone' = 0 /\ Outstanding' \in Nat
    BY <1>1, OutstandingNext DEF Crash
  <2>. QED  BY <2>1 DEF StatsInvariant
<1>2. ASSUME NEW c \in Caller, at[c] = "idle", Goes(c, "flush0"), UNCHANGED workers,
             UNCHANGED <<m_opScheduled, m_opDone, adding, fetched>>
      PROVE  StatsInvariant'
  <2>1. at'[c] = "flush0" /\ \A x \in Caller \ {c} : at'[x] = at[x]
    BY <1>2 DEF Goes, IInv, TypeOK, CallersOK
  <2>2. WillReset <=> WillReset'
    BY <1>2, <2>1 DEF WillReset
  <2>3. Counted' = Counted
    BY <1>2, <2>1 DEF Counted
  <2>4. Outstanding' = Outstanding
    BY <1>2, <2>3 DEF Outstanding, workers, OnWorkers, Busy, Lengths, OnCallers, Announced
  <2>. QED  BY <1>2, <2>2, <2>4 DEF StatsInvariant
<1>3. CASE refreshTaskList \/ Mount
  BY <1>2, <1>3 DEF refreshTaskList, Mount, Caller, counters
<1>4. CASE forceParserRetry \/ UNCHANGED vars
  BY <1>4 DEF forceParserRetry, vars, workers, counters, callers, StatsInvariant, WillReset,
    Outstanding, OnWorkers, Busy, Lengths, OnCallers, Counted, Announced
<1>. QED  BY <1>1, <1>3, <1>4

\* Whatever a flush throws away, a crash forgets or a row is processed twice for: once all
\* is over m_opDone is m_opScheduled again (updateStats()).
THEOREM StatsAlwaysComplete == Spec => []StatsAreComplete
<1>1. Init /\ IInv => StatsInvariant
  <2>. SUFFICES ASSUME Init, IInv PROVE StatsInvariant
    OBVIOUS
  <2>1. Parts
    BY PartsType
  <2>2. /\ OnWorkers(Lengths) \in Nat /\ OnWorkers(Busy) \in Nat
        /\ OnCallers(Counted) \in Nat /\ Cardinality(Announced) \in Nat
    BY <2>1, SumsType DEF Parts
  <2>. QED  BY <2>2 DEF Init, StatsInvariant, Outstanding
<1>2. IInv /\ StatsInvariant => StatsAreComplete
  <2>. SUFFICES ASSUME IInv, StatsInvariant, Settled PROVE m_opDone = m_opScheduled
    BY DEF StatsAreComplete
  <2>1. ~WillReset
    BY DEF Settled, WillReset
  <2>2. OnWorkers(Lengths) = 0 /\ OnWorkers(Busy) = 0
    BY Entries, Services DEF Settled, OnWorkers
  <2>3. OnCallers(Counted) = 0
    BY DEF Settled, OnCallers, Counted, Caller
  <2>4. Announced = {}
    BY DEF Settled, Announced
  <2>5. Outstanding = 0
    BY <2>2, <2>3, <2>4, FS_EmptySet DEF Outstanding
  <2>. QED  BY <2>1, <2>5 DEF StatsInvariant, IInv, TypeOK, CountersOK
<1>3. IInv /\ IInv' /\ StatsInvariant /\ [Next]_vars => StatsInvariant'
  <2>. SUFFICES ASSUME IInv, IInv', StatsInvariant, [Next]_vars PROVE StatsInvariant'
    OBVIOUS
  <2>1. CASE Work
    BY <2>1, WorkStats DEF Work, Own
  <2>2. CASE Restores
    BY <2>2, CallerStats DEF Restores
  <2>3. CASE Adds \/ \E t \in Task : Create(t)
    BY <2>3, ParseStats DEF Adds
  <2>4. CASE refreshTaskList \/ Mount \/ Crash \/ forceParserRetry \/ Rest \/ UNCHANGED vars
    BY <2>4, EventStats DEF Rest
  <2>. QED  BY <2>1, <2>2, <2>3, <2>4 DEF Next
<1>4. Spec => []IInv
  BY Invariance
<1>. QED  BY <1>1, <1>2, <1>3, <1>4, InitInv, PTL DEF Spec

=============================================================================
