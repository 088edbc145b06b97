------------------------ MODULE AutoPipeline_proofs ------------------------
(***************************************************************************)
(* Theorems about AutoPipeline, for any number of sessions, overlapping or *)
(* not, any roadmap and any number of edits, timeouts and crashes.         *)
(*                                                                         *)
(* The invariant Inv says of a session that is inside a phase which steps  *)
(* have passed, that its list lies above the phase and what it finished    *)
(* below, and that the steps that outlived a timeout belong to phases it   *)
(* has left.                                                               *)
(***************************************************************************)
EXTENDS AutoPipeline, RoadmapFile_proofs

-----------------------------------------------------------------------------
(* The invariant *)

\* The control points before the roadmap was read, inside a phase, and those of
\* a step that has been awaited.
before == {"idle", "acquire", "roadmap"}
inPhase == {"step", "ready", "running", "record", "judge", "ask", "rerunning", "rerecord"}
awaited == {"record", "judge", "rerecord"}

StepsPassed(j) ==
    j.pc \in inPhase =>
        /\ j.passed = {PIPELINE_STEPS[i] : i \in 1..(j.step - 1)}
        /\ j.pc # "step" => j.step \in 1..5

Ordered(j) ==
    /\ j.pc \in before => j.tried = {} /\ j.finished = {}
    /\ j.pc \in inPhase \cup {"phase"} =>
          /\ \A n \in j.todo : j.phase < n
          /\ \A n \in j.finished : n < j.phase
          /\ \A n \in j.tried : n <= j.phase

Stopped(j) == j.pc = "phase" => j.aborted \/ j.phaseFailed

Answered(j) == j.pc \in awaited => j.out \in {"ok", "fail", "timeout"}

JobInv(j) == StepsPassed(j) /\ Ordered(j) /\ Stopped(j) /\ Answered(j)

\* A step that outlived its timeout, and the session that started it.
LateInv(l, j) ==
    /\ j.pc \notin before
    /\ j.pc \in inPhase \cup {"phase"} => l.phase <= j.phase
    /\ (j.pc \in inPhase /\ ~(j.pc \in awaited /\ j.out = "timeout")) => l.phase < j.phase

Inv ==
    /\ TypeOK
    /\ \A s \in Sessions : JobInv(job[s])
    /\ \A l \in late : LateInv(l, job[l.by])

\* What a step may do to what a session has completed and tried.
Advances(j, k) ==
    /\ k.completed > j.completed =>
          /\ j.passed = StepNames
          /\ k.finished = j.finished \cup {j.phase}
          /\ j.phase \notin j.finished
    /\ k.tried # j.tried => \A n \in k.tried \ j.tried, m \in j.tried : m < n

-----------------------------------------------------------------------------
(* Steps and records *)

\* The five steps of the pipeline.
LEMMA FiveSteps ==
    /\ Len(PIPELINE_STEPS) = 5
    /\ StepNames = {PIPELINE_STEPS[i] : i \in 1..5}
    /\ \A i \in 1..5 : PIPELINE_STEPS[i] \in StepNames
    /\ Skippable \subseteq StepNames
<1>1. Len(PIPELINE_STEPS) = 5 /\ DOMAIN PIPELINE_STEPS = 1..5
  BY DEF PIPELINE_STEPS
<1>2. StepNames = {PIPELINE_STEPS[i] : i \in 1..5}
  BY <1>1 DEF StepNames, ToSet
<1>3. PIPELINE_STEPS[1] = "discuss" /\ PIPELINE_STEPS[2] = "plan"
  BY DEF PIPELINE_STEPS
<1>4. Skippable \subseteq StepNames
  BY <1>2, <1>3 DEF Skippable
<1> QED BY <1>1, <1>2, <1>4

\* A step that changes one session's locals keeps the invariant of all sessions.
LEMMA OneSession ==
    ASSUME Inv, NEW s \in Sessions, NEW j \in Job, JobInv(j),
           job' = [job EXCEPT ![s] = j], Advances(job[s], j),
           \A l \in late' : l.by \in Sessions /\ l.phase \in Nat,
           \A l \in late' : l.by = s => LateInv(l, j),
           \A l \in late' : l.by # s => l \in late
    PROVE  /\ job' \in [Sessions -> Job]
           /\ \A t \in Sessions : JobInv(job'[t])
           /\ \A l \in late' : LateInv(l, job'[l.by])
           /\ \A t \in Sessions : Advances(job[t], job'[t])
<1>1. job \in [Sessions -> Job]
  BY DEF Inv, TypeOK
<1>2. job' \in [Sessions -> Job] /\ job'[s] = j
  BY <1>1
<1>3. \A t \in Sessions : t # s => job'[t] = job[t]
  BY <1>1
<1>4. \A t \in Sessions : JobInv(job'[t])
  BY <1>2, <1>3 DEF Inv
<1>5. ASSUME NEW l \in late' PROVE LateInv(l, job'[l.by])
  <2>1. CASE l.by = s
    BY <2>1, <1>2
  <2>2. CASE l.by # s
    BY <2>2, <1>3 DEF Inv
  <2> QED BY <2>1, <2>2
<1>6. ASSUME NEW t \in Sessions PROVE Advances(job[t], job'[t])
  <2>1. CASE t = s
    BY <2>1, <1>2
  <2>2. CASE t # s
    <3>1. job'[t] = job[t] /\ job[t].completed \in Nat
      BY <2>2, <1>1, <1>3 DEF Job
    <3>2. ~(job[t].completed > job[t].completed)
      BY <3>1
    <3> QED BY <3>1, <3>2 DEF Advances
  <2> QED BY <2>1, <2>2
<1> QED BY <1>2, <1>4, <1>5, <1>6

\* A session's action that touches nothing but its locals and the lock.
LEMMA QuietAction ==
    ASSUME Inv, NEW s \in Sessions, NEW j \in Job, JobInv(j), Advances(job[s], j),
           job' = [job EXCEPT ![s] = j],
           \A l \in late : (l.by = s /\ LateInv(l, job[s])) => LateInv(l, j),
           lock' \in LockState \cup {NoLock, Torn},
           UNCHANGED world
    PROVE  Inv' /\ \A t \in Sessions : Advances(job[t], job'[t])
<1>1. \A l \in late' : l \in late /\ l.by \in Sessions /\ l.phase \in Nat
  BY DEF Inv, TypeOK, world
<1>2. \A l \in late' : l.by = s => LateInv(l, j)
  BY <1>1 DEF Inv
<1>3. /\ job' \in [Sessions -> Job]
      /\ \A t \in Sessions : JobInv(job'[t])
      /\ \A l \in late' : LateInv(l, job'[l.by])
      /\ \A t \in Sessions : Advances(job[t], job'[t])
  BY <1>1, <1>2, OneSession
<1>4. TypeOK'
  BY <1>3 DEF Inv, TypeOK, world
<1> QED BY <1>3, <1>4 DEF Inv

-----------------------------------------------------------------------------
(* What becomes of a session's locals *)

\* Moving to another control point inside the same step keeps everything.
LEMMA MoveInStep ==
    ASSUME NEW j \in Job, JobInv(j), j.pc \in inPhase, j.step \in 1..5,
           NEW pc \in inPhase, NEW out \in {"none", "ok", "fail", "timeout", "throw"},
           pc \in awaited => out \in {"ok", "fail", "timeout"}
    PROVE  LET k == [j EXCEPT !.pc = pc, !.out = out]
           IN  k \in Job /\ JobInv(k) /\ Advances(j, k)
<1> DEFINE k == [j EXCEPT !.pc = pc, !.out = out]
<1>1. pc \in PCs
  BY DEF inPhase, PCs
<1>2. k \in Job
  BY <1>1 DEF Job
<1>3. /\ k.pc = pc /\ k.out = out /\ k.step = j.step /\ k.passed = j.passed /\ k.todo = j.todo
      /\ k.phase = j.phase /\ k.finished = j.finished /\ k.tried = j.tried
      /\ k.completed = j.completed /\ j.completed \in Nat
  BY DEF Job
<1>4. pc \notin before /\ pc # "phase"
  BY DEF inPhase, before
<1>5. JobInv(k)
  BY <1>3, <1>4 DEF JobInv, StepsPassed, Ordered, Stopped, Answered
<1>6. Advances(j, k)
  BY <1>3 DEF Advances
<1> QED BY <1>2, <1>5, <1>6

\* A step that succeeds, or is passed over, is one more that passed.
LEMMA PassStepInv ==
    ASSUME NEW j \in Job, JobInv(j), j.pc \in inPhase, j.step \in 1..5
    PROVE  /\ PassStep(j) \in Job
           /\ JobInv(PassStep(j))
           /\ Advances(j, PassStep(j))
           /\ PassStep(j).pc = "step" /\ PassStep(j).phase = j.phase
<1> DEFINE k == PassStep(j)
<1>1. StepOf(j) = PIPELINE_STEPS[j.step] /\ StepOf(j) \in StepNames
  BY FiveSteps DEF StepOf
<1>2. j.step + 1 \in 1..6 /\ "step" \in PCs
  BY DEF PCs
<1>3. k \in Job
  <2>1. 1..(Len(PIPELINE_STEPS) + 1) = 1..6
    BY FiveSteps
  <2>2. j.passed \cup {StepOf(j)} \in SUBSET StepNames
    BY <1>1 DEF Job
  <2> QED BY <1>2, <2>1, <2>2 DEF PassStep, Job
<1>4. /\ k.pc = "step" /\ k.step = j.step + 1 /\ k.passed = j.passed \cup {StepOf(j)}
      /\ k.todo = j.todo /\ k.phase = j.phase /\ k.finished = j.finished
      /\ k.tried = j.tried /\ k.completed = j.completed /\ j.completed \in Nat
  BY DEF PassStep, Job
<1>5. j.passed = {PIPELINE_STEPS[i] : i \in 1..(j.step - 1)}
  BY DEF JobInv, StepsPassed
<1>6. k.passed = {PIPELINE_STEPS[i] : i \in 1..(k.step - 1)}
  <2>1. 1..(k.step - 1) = 1..(j.step - 1) \cup {j.step}
    BY <1>4
  <2> QED BY <1>1, <1>4, <1>5, <2>1
<1>7. JobInv(k)
  BY <1>4, <1>6 DEF JobInv, StepsPassed, Ordered, Stopped, Answered, inPhase, before, awaited
<1>8. Advances(j, k)
  BY <1>4 DEF Advances
<1> QED BY <1>3, <1>4, <1>7, <1>8

\* A phase that is given up keeps its place between what is finished and what
\* is left.
LEMMA LeavePhase ==
    ASSUME NEW j \in Job, JobInv(j), j.pc \in inPhase,
           NEW failed \in BOOLEAN, NEW aborted \in BOOLEAN, failed \/ aborted
    PROVE  LET k == [j EXCEPT !.pc = "phase", !.phaseFailed = failed, !.aborted = aborted]
           IN  k \in Job /\ JobInv(k) /\ Advances(j, k)
<1> DEFINE k == [j EXCEPT !.pc = "phase", !.phaseFailed = failed, !.aborted = aborted]
<1>1. k \in Job
  BY DEF Job, PCs
<1>2. /\ k.pc = "phase" /\ k.phaseFailed = failed /\ k.aborted = aborted
      /\ k.todo = j.todo /\ k.phase = j.phase /\ k.finished = j.finished
      /\ k.tried = j.tried /\ k.completed = j.completed /\ j.completed \in Nat
  BY DEF Job
<1>3. JobInv(k)
  BY <1>2 DEF JobInv, StepsPassed, Ordered, Stopped, Answered, inPhase, before, awaited
<1>4. Advances(j, k)
  BY <1>2 DEF Advances
<1> QED BY <1>1, <1>3, <1>4

\* k is j with the least of todo taken from the list.
Takes(j, k, todo) ==
    \/ todo = {} /\ k.pc = "release" /\ k.tried = j.tried
    \/ \E n \in todo :
          /\ \A m \in todo : n <= m
          /\ k.pc = "step" /\ k.phase = n /\ k.todo = todo \ {n}
          /\ k.step = 1 /\ k.passed = {} /\ k.tried = j.tried \cup {n}

\* What NextPhase changes, and what it leaves alone.
LEMMA NextPhaseTakes ==
    ASSUME NEW j \in Job, NEW todo \in SUBSET Nat
    PROVE  LET k == NextPhase(j, todo)
           IN  /\ k \in Job
               /\ Takes(j, k, todo)
               /\ k.finished = j.finished /\ k.completed = j.completed
               /\ k.failed = j.failed /\ k.seen = j.seen
<1>1. CASE todo = {}
  <2>1. NextPhase(j, todo) = [j EXCEPT !.pc = "release", !.todo = {}]
    BY <1>1 DEF NextPhase
  <2> QED BY <1>1, <2>1 DEF Job, PCs, Takes
<1>2. CASE todo # {}
  <2> DEFINE n == Min(todo)
  <2>1. n \in todo /\ n \in Nat /\ \A m \in todo : n <= m
    BY <1>2, MinIsLeast
  <2> HIDE DEF n
  <2>2. NextPhase(j, todo)
          = [j EXCEPT !.pc = "step", !.todo = todo \ {n}, !.phase = n, !.step = 1,
                      !.phaseFailed = FALSE, !.passed = {}, !.tried = @ \cup {n}]
    BY <1>2 DEF NextPhase, n
  <2>3. "step" \in PCs /\ 1 \in 1..(Len(PIPELINE_STEPS) + 1)
    BY FiveSteps DEF PCs
  <2>4. j.tried \cup {n} \in SUBSET Nat /\ todo \ {n} \in SUBSET Nat
    BY <2>1 DEF Job
  <2>5. NextPhase(j, todo) \in Job
    <3> DEFINE a == [j EXCEPT !.pc = "step", !.phase = n, !.step = 1]
               b == [a EXCEPT !.phaseFailed = FALSE, !.passed = {}]
               c == [b EXCEPT !.todo = todo \ {n}, !.tried = j.tried \cup {n}]
    <3>1. a \in Job
      BY <2>1, <2>3 DEF Job
    <3>2. NextPhase(j, todo) = c
      BY <2>2
    <3> HIDE DEF a
    <3>3. b \in Job
      BY <3>1 DEF Job
    <3> HIDE DEF b
    <3>4. c \in Job
      BY <2>4, <3>3 DEF Job
    <3> QED BY <3>2, <3>4
  <2>6. /\ NextPhase(j, todo).finished = j.finished
        /\ NextPhase(j, todo).completed = j.completed
        /\ NextPhase(j, todo).failed = j.failed
        /\ NextPhase(j, todo).seen = j.seen
    BY <2>2 DEF Job
  <2>7. /\ NextPhase(j, todo).pc = "step"
        /\ NextPhase(j, todo).phase = n
        /\ NextPhase(j, todo).todo = todo \ {n}
        /\ NextPhase(j, todo).step = 1
        /\ NextPhase(j, todo).passed = {}
        /\ NextPhase(j, todo).tried = j.tried \cup {n}
    BY <2>2 DEF Job
  <2>8. Takes(j, NextPhase(j, todo), todo)
    BY <2>1, <2>7 DEF Takes
  <2> QED BY <2>5, <2>6, <2>8
<1> QED BY <1>1, <1>2

\* The next phase is above all that was tried and finished.
LEMMA TakesInv ==
    ASSUME NEW j \in Job, NEW k \in Job, NEW todo \in SUBSET Nat, Takes(j, k, todo),
           \A n \in todo, m \in j.tried : m < n,
           \A n \in todo, m \in k.finished : m < n
    PROVE  /\ JobInv(k)
           /\ k.pc = "release" \/ (k.pc = "step" /\ k.phase \in todo)
           /\ k.tried # j.tried => \A n \in k.tried \ j.tried, m \in j.tried : m < n
<1>1. CASE todo = {} /\ k.pc = "release" /\ k.tried = j.tried
  <2>1. JobInv(k)
    BY <1>1 DEF JobInv, StepsPassed, Ordered, Stopped, Answered, inPhase, before, awaited
  <2> QED BY <1>1, <2>1
<1>2. CASE \E n \in todo :
             /\ \A m \in todo : n <= m
             /\ k.pc = "step" /\ k.phase = n /\ k.todo = todo \ {n}
             /\ k.step = 1 /\ k.passed = {} /\ k.tried = j.tried \cup {n}
  <2>1. PICK n \in todo :
             /\ \A m \in todo : n <= m
             /\ k.pc = "step" /\ k.phase = n /\ k.todo = todo \ {n}
             /\ k.step = 1 /\ k.passed = {} /\ k.tried = j.tried \cup {n}
    BY <1>2
  <2>2. n \in Nat /\ j.tried \in SUBSET Nat
    BY DEF Job
  <2>3. ASSUME NEW m \in k.todo PROVE n < m
    <3>1. m \in todo /\ m # n /\ m \in Nat
      BY <2>1
    <3> QED BY <2>1, <2>2, <3>1
  <2>4. {PIPELINE_STEPS[i] : i \in 1..(k.step - 1)} = {}
    BY <2>1
  <2>5. \A m \in j.tried : m < n
    OBVIOUS
  <2>6. \A m \in k.tried : m <= n
    BY <2>1, <2>2, <2>5
  <2>7. \A m \in k.finished : m < n
    OBVIOUS
  <2>8. JobInv(k)
    BY <2>1, <2>3, <2>4, <2>6, <2>7 DEF JobInv, StepsPassed, Ordered, Stopped, Answered, inPhase, before, awaited
  <2> QED BY <2>1, <2>5, <2>8
<1> QED BY <1>1, <1>2 DEF Takes

-----------------------------------------------------------------------------
(* The lock file *)

\* A lock file that parses is a lock state.
LEMMA ReadLockType ==
    ASSUME Inv
    PROVE  _readLock # NoLock => _readLock \in LockState
BY DEF Inv, TypeOK, _readLock

\* The history of a new lock, and what is kept of a longer one.
LEMMA EmptyHistory == <<>> \in History
<1>1. <<>> \in Seq(Record) /\ Len(<<>>) = 0
  OBVIOUS
<1> QED BY <1>1, AutoAssumption DEF AutoAssumption, History

LEMMA RecentType ==
    ASSUME NEW h \in Seq(Record)
    PROVE  recent(h) \in History
<1>1. HistoryLimit \in Nat \ {0} /\ Len(h) \in Nat
  BY AutoAssumption DEF AutoAssumption
<1>2. CASE Len(h) > HistoryLimit
  <2> DEFINE first == Len(h) - HistoryLimit + 1
  <2>1. first \in Int /\ \A i \in first..Len(h) : h[i] \in Record
    BY <1>1, <1>2
  <2>2. /\ SubSeq(h, first, Len(h)) \in Seq(Record)
        /\ Len(SubSeq(h, first, Len(h))) = HistoryLimit
    BY <1>1, <1>2, <2>1, SubSeqProperties
  <2> QED BY <1>1, <1>2, <2>2 DEF recent, Tail_, History
<1>3. CASE ~(Len(h) > HistoryLimit)
  BY <1>1, <1>3 DEF recent, History
<1> QED BY <1>2, <1>3

\* The two writers of the lock file write a lock.
LEMMA UpdateStepType ==
    ASSUME Inv, NEW s \in Sessions, job[s].step \in 1..5
    PROVE  updateStep(s) \in LockState
<1>1. StepOf(job[s]) \in StepNames /\ job[s].phase \in Nat
  BY FiveSteps DEF StepOf, Inv, TypeOK, Job
<1> QED BY <1>1, EmptyHistory, ReadLockType DEF updateStep, LockState

LEMMA RecordInvocationType ==
    ASSUME Inv, NEW s \in Sessions, job[s].step \in 1..5
    PROVE  recordInvocation(s) \in LockState
<1> DEFINE entry == [step |-> StepOf(job[s]), success |-> job[s].out = "ok",
                     timedOut |-> job[s].out = "timeout"]
           base == IF _readLock = NoLock
                   THEN [pid |-> s, phase |-> 0, step |-> "unknown", history |-> <<>>]
                   ELSE _readLock
           kept == recent(Append(base.history, entry))
<1>1. entry \in Record
  BY FiveSteps DEF StepOf, Record
<1>2. base \in LockState
  BY EmptyHistory, ReadLockType DEF LockState
<1>3. recordInvocation(s) = [base EXCEPT !.history = kept]
  BY DEF recordInvocation
<1> HIDE DEF entry, base
<1>4. Append(base.history, entry) \in Seq(Record)
  BY <1>1, <1>2 DEF LockState, History
<1>5. kept \in History
  BY <1>4, RecentType
<1> HIDE DEF kept
<1> QED BY <1>2, <1>3, <1>5 DEF LockState

-----------------------------------------------------------------------------
(* The actions *)

\* Each action keeps Inv; a lemma each.
LEMMA StartInv ==
    ASSUME Inv, NEW s \in Sessions, Start(s)
    PROVE  Inv' /\ \A t \in Sessions : Advances(job[t], job'[t])
<1>1. PICK start \in Nat, resumed \in Sessions \cup {None} :
        job' = [job EXCEPT ![s].pc = "acquire", ![s].start = start, ![s].resumed = resumed]
  <2>1. PICK from \in FromArgs, state \in StatePhases, noResume \in BOOLEAN :
          LET statePhase == IF state = None THEN 100 ELSE state
              start      == IF from = None THEN statePhase ELSE from
              found      == _readLock
              crashed    == /\ ~noResume
                            /\ found # NoLock
                            /\ ~isPidAlive(found.pid)
                            /\ start = statePhase
          IN  /\ job' = [job EXCEPT
                    ![s].pc = "acquire",
                    ![s].start = IF crashed THEN found.phase ELSE start,
                    ![s].resumed = IF crashed THEN found.pid ELSE None]
              /\ lock' = IF noResume THEN NoLock ELSE lock
    BY Zenon DEF Start
  <2>2. from \in Nat \cup {None} /\ state \in Nat \cup {None}
    BY AutoAssumption DEF AutoAssumption
  <2> QED BY <2>1, <2>2, ReadLockType DEF LockState
<1> DEFINE j == [job[s] EXCEPT !.pc = "acquire", !.start = start, !.resumed = resumed]
<1>2. job[s] \in Job /\ job[s].pc = "idle"
  BY DEF Start, Inv, TypeOK
<1>3. j \in Job
  BY <1>2 DEF Job, PCs
<1>4. /\ j.pc = "acquire" /\ j.tried = job[s].tried /\ j.finished = job[s].finished
      /\ j.completed = job[s].completed /\ job[s].completed \in Nat
  BY <1>2 DEF Job
<1>5. JobInv(j)
  BY <1>2, <1>4 DEF Inv, JobInv, StepsPassed, Ordered, Stopped, Answered, inPhase, before, awaited
<1>6. Advances(job[s], j)
  BY <1>4 DEF Advances
<1>7. \A l \in late : l.by = s => ~LateInv(l, job[s])
  BY <1>2 DEF LateInv, before
<1>8. job' = [job EXCEPT ![s] = j]
  BY <1>1
<1>9. lock' \in LockState \cup {NoLock, Torn} /\ UNCHANGED world
  BY DEF Start, Inv, TypeOK
<1> HIDE DEF j
<1> QED BY <1>3, <1>5, <1>6, <1>7, <1>8, <1>9, QuietAction

LEMMA AcquireInv ==
    ASSUME Inv, NEW s \in Sessions, Acquire(s)
    PROVE  Inv' /\ \A t \in Sessions : Advances(job[t], job'[t])
<1> DEFINE j == [job[s] EXCEPT !.pc = "roadmap"]
<1>1. job[s] \in Job /\ job[s].pc = "acquire" /\ job[s].start \in Nat
  BY DEF Acquire, Inv, TypeOK, Job
<1>2. j \in Job
  BY <1>1 DEF Job, PCs
<1>3. /\ j.pc = "roadmap" /\ j.tried = job[s].tried /\ j.finished = job[s].finished
      /\ j.completed = job[s].completed /\ job[s].completed \in Nat
  BY <1>1 DEF Job
<1>4. JobInv(j)
  BY <1>1, <1>3 DEF Inv, JobInv, StepsPassed, Ordered, Stopped, Answered, inPhase, before, awaited
<1>5. Advances(job[s], j)
  BY <1>3 DEF Advances
<1>6. \A l \in late : l.by = s => ~LateInv(l, job[s])
  BY <1>1 DEF LateInv, before
<1>7. job' = [job EXCEPT ![s] = j] /\ UNCHANGED world
  BY DEF Acquire, Go
<1>8. lock' \in LockState
  BY <1>1, EmptyHistory DEF Acquire, LockState
<1> HIDE DEF j
<1> QED BY <1>2, <1>4, <1>5, <1>6, <1>7, <1>8, QuietAction

LEMMA ReadRoadmapInv ==
    ASSUME Inv, NEW s \in Sessions, ReadRoadmap(s)
    PROVE  Inv' /\ \A t \in Sessions : Advances(job[t], job'[t])
<1> DEFINE todo == remainingFrom(roadmap, job[s].start)
           n == NextPhase(job[s], todo)
           j == [n EXCEPT !.seen = todo]
<1>1. job[s] \in Job /\ job[s].pc = "roadmap" /\ job[s].start \in Nat
  BY DEF ReadRoadmap, Inv, TypeOK, Job
<1>2. roadmap \in Seq(Phase)
  BY DEF Inv, TypeOK
<1>3. todo \in SUBSET Nat
  BY <1>1, <1>2, RemainingType
<1>4. job[s].tried = {} /\ job[s].finished = {}
  BY <1>1 DEF Inv, JobInv, Ordered, before
<1>5. job' = [job EXCEPT ![s] = j] /\ UNCHANGED world /\ lock' = lock
  BY DEF ReadRoadmap
<1> HIDE DEF todo
<1>6. n \in Job /\ Takes(job[s], n, todo)
      /\ n.finished = job[s].finished /\ n.completed = job[s].completed
  BY <1>1, <1>3, NextPhaseTakes
<1> HIDE DEF n
<1>7. j \in Job
  BY <1>3, <1>6 DEF Job
<1>8. /\ j.finished = {} /\ j.completed = job[s].completed
      /\ j.pc = n.pc /\ j.phase = n.phase /\ j.todo = n.todo
      /\ j.step = n.step /\ j.passed = n.passed /\ j.tried = n.tried
  BY <1>4, <1>6 DEF Job
<1> HIDE DEF j
<1>9. Takes(job[s], j, todo)
  BY <1>6, <1>8 DEF Takes
<1>10. JobInv(j)
  BY <1>1, <1>3, <1>4, <1>7, <1>8, <1>9, TakesInv
<1>11. job[s].completed \in Nat
  BY <1>1 DEF Job
<1>12. Advances(job[s], j)
  BY <1>4, <1>8, <1>11 DEF Advances
<1>13. \A l \in late : l.by = s => ~LateInv(l, job[s])
  BY <1>1 DEF LateInv, before
<1>14. lock' \in LockState \cup {NoLock, Torn}
  BY <1>5 DEF Inv, TypeOK
<1> QED BY <1>5, <1>7, <1>10, <1>12, <1>13, <1>14, QuietAction

\* What the invariant says of a session inside a phase.
LEMMA InsidePhase ==
    ASSUME Inv, NEW s \in Sessions, job[s].pc \in inPhase,
           job[s].pc # "step" \/ job[s].step <= Len(PIPELINE_STEPS)
    PROVE  /\ job[s] \in Job /\ JobInv(job[s]) /\ job[s].step \in 1..5
           /\ job[s].phase \in Nat
           /\ job[s].out \in {"none", "ok", "fail", "timeout", "throw"}
           /\ job[s].phaseFailed \in BOOLEAN
<1>1. job[s] \in Job /\ JobInv(job[s])
  BY DEF Inv, TypeOK
<1>2. job[s].step \in 1..6
  BY <1>1, FiveSteps DEF Job
<1>3. job[s].step \in 1..5
  BY <1>1, <1>2, FiveSteps DEF JobInv, StepsPassed
<1> QED BY <1>1, <1>3 DEF Job

\* A session moves inside a step, and a timed-out step is not forgotten.
LEMMA MoveInv ==
    ASSUME Inv, NEW s \in Sessions, job[s].pc \in inPhase,
           job[s].pc # "step" \/ job[s].step <= Len(PIPELINE_STEPS),
           NEW pc \in inPhase,
           pc \in awaited => job[s].pc \in awaited,
           job[s].pc \in awaited => pc \in awaited \/ job[s].out # "timeout",
           job' = [job EXCEPT ![s].pc = pc],
           lock' \in LockState \cup {NoLock, Torn}, UNCHANGED world
    PROVE  Inv' /\ \A t \in Sessions : Advances(job[t], job'[t])
<1> DEFINE j == [job[s] EXCEPT !.pc = pc, !.out = job[s].out]
<1>1. /\ job[s] \in Job /\ JobInv(job[s]) /\ job[s].step \in 1..5
      /\ job[s].out \in {"none", "ok", "fail", "timeout", "throw"}
  BY InsidePhase
<1>2. j \in Job /\ JobInv(j) /\ Advances(job[s], j)
  <2>1. pc \in awaited => job[s].out \in {"ok", "fail", "timeout"}
    BY <1>1 DEF JobInv, Answered
  <2> QED BY <1>1, <2>1, MoveInStep
<1>3. j = [job[s] EXCEPT !.pc = pc]
  BY <1>1 DEF Job
<1>4. job' = [job EXCEPT ![s] = j]
  BY <1>3
<1>5. j.pc = pc /\ j.out = job[s].out /\ j.phase = job[s].phase
  BY <1>1 DEF Job
<1> HIDE DEF j
<1>6. pc \notin before
  BY DEF inPhase, before
<1>7. \A l \in late : (l.by = s /\ LateInv(l, job[s])) => LateInv(l, j)
  BY <1>5, <1>6 DEF LateInv
<1> QED BY <1>2, <1>4, <1>7, QuietAction

\* A step passes.
LEMMA PassInv ==
    ASSUME Inv, NEW s \in Sessions, job[s].pc \in inPhase,
           job[s].pc # "step" \/ job[s].step <= Len(PIPELINE_STEPS),
           job[s].pc \in awaited => job[s].out # "timeout",
           job' = [job EXCEPT ![s] = PassStep(job[s])],
           lock' \in LockState \cup {NoLock, Torn}, UNCHANGED world
    PROVE  Inv' /\ \A t \in Sessions : Advances(job[t], job'[t])
<1> DEFINE j == PassStep(job[s])
<1>1. job[s] \in Job /\ JobInv(job[s]) /\ job[s].step \in 1..5
  BY InsidePhase
<1>2. /\ j \in Job /\ JobInv(j) /\ Advances(job[s], j)
      /\ j.pc = "step" /\ j.phase = job[s].phase
  BY <1>1, PassStepInv
<1> HIDE DEF j
<1>3. \A l \in late : (l.by = s /\ LateInv(l, job[s])) => LateInv(l, j)
  BY <1>2 DEF LateInv, before, inPhase, awaited
<1> QED BY <1>2, <1>3, QuietAction DEF j

\* The phase is left for good.
LEMMA LeaveInv ==
    ASSUME Inv, NEW s \in Sessions, job[s].pc \in inPhase, job[s].pc # "step",
           NEW failed \in BOOLEAN, NEW aborted \in BOOLEAN, failed \/ aborted,
           job' = [job EXCEPT ![s] = [job[s] EXCEPT !.pc = "phase", !.phaseFailed = failed,
                                                    !.aborted = aborted]],
           lock' \in LockState \cup {NoLock, Torn}, UNCHANGED world
    PROVE  Inv' /\ \A t \in Sessions : Advances(job[t], job'[t])
<1> DEFINE j == [job[s] EXCEPT !.pc = "phase", !.phaseFailed = failed, !.aborted = aborted]
<1>1. job[s] \in Job /\ JobInv(job[s])
  BY InsidePhase
<1>2. j \in Job /\ JobInv(j) /\ Advances(job[s], j)
  BY <1>1, LeavePhase
<1>3. j.pc = "phase" /\ j.phase = job[s].phase
  BY <1>1 DEF Job
<1> HIDE DEF j
<1>4. \A l \in late : (l.by = s /\ LateInv(l, job[s])) => LateInv(l, j)
  BY <1>3 DEF LateInv, before, inPhase
<1> QED BY <1>2, <1>4, QuietAction DEF j

\* The session is over, or about to be: it owes nothing more.
LEMMA StopInv ==
    ASSUME Inv, NEW s \in Sessions, NEW j \in Job,
           j.pc \in {"release", "done", "crashed"},
           ~(j.completed > job[s].completed), j.tried \subseteq job[s].tried,
           job' = [job EXCEPT ![s] = j],
           lock' \in LockState \cup {NoLock, Torn}, UNCHANGED world
    PROVE  Inv' /\ \A t \in Sessions : Advances(job[t], job'[t])
<1>1. JobInv(j)
  BY DEF JobInv, StepsPassed, Ordered, Stopped, Answered, inPhase, before, awaited
<1>2. Advances(job[s], j)
  BY DEF Advances
<1>3. \A l \in late : (l.by = s /\ LateInv(l, job[s])) => LateInv(l, j)
  BY DEF LateInv, before, inPhase
<1> QED BY <1>1, <1>2, <1>3, QuietAction

\* A lock that is left alone is still a lock.
LEMMA LockKept ==
    ASSUME Inv, UNCHANGED lock
    PROVE  lock' \in LockState \cup {NoLock, Torn}
BY DEF Inv, TypeOK

LEMMA SkipStepInv ==
    ASSUME Inv, NEW s \in Sessions, SkipStep(s)
    PROVE  Inv' /\ \A t \in Sessions : Advances(job[t], job'[t])
<1>1. /\ job[s].pc \in inPhase /\ job[s].pc \notin awaited
      /\ job[s].step <= Len(PIPELINE_STEPS)
      /\ job' = [job EXCEPT ![s] = PassStep(job[s])]
      /\ UNCHANGED lock /\ UNCHANGED world
  BY DEF SkipStep, inPhase, awaited
<1> QED BY <1>1, LockKept, PassInv

LEMMA EnterStepInv ==
    ASSUME Inv, NEW s \in Sessions, EnterStep(s)
    PROVE  Inv' /\ \A t \in Sessions : Advances(job[t], job'[t])
<1>1. /\ job[s].pc \in inPhase /\ job[s].pc \notin awaited
      /\ job[s].step <= Len(PIPELINE_STEPS) /\ "ready" \in inPhase /\ "ready" \notin awaited
      /\ job' = [job EXCEPT ![s].pc = "ready"]
      /\ lock' = updateStep(s) /\ UNCHANGED world
  BY DEF EnterStep, Go, inPhase, awaited
<1>2. lock' \in LockState \cup {NoLock, Torn}
  BY <1>1, InsidePhase, UpdateStepType
<1> QED BY <1>1, <1>2, MoveInv

LEMMA AbortBeforeStepInv ==
    ASSUME Inv, NEW s \in Sessions, AbortBeforeStep(s)
    PROVE  Inv' /\ \A t \in Sessions : Advances(job[t], job'[t])
<1>1. /\ job[s].pc \in inPhase /\ job[s].pc # "step"
      /\ job' = [job EXCEPT ![s].pc = "phase", ![s].aborted = TRUE]
      /\ UNCHANGED lock /\ UNCHANGED world
  BY DEF AbortBeforeStep, inPhase
<1>2. job[s] \in Job /\ job[s].phaseFailed \in BOOLEAN
  BY <1>1, InsidePhase
<1>3. [job[s] EXCEPT !.pc = "phase", !.aborted = TRUE]
        = [job[s] EXCEPT !.pc = "phase", !.phaseFailed = job[s].phaseFailed, !.aborted = TRUE]
  BY <1>2 DEF Job
<1>4. job' = [job EXCEPT ![s] = [job[s] EXCEPT !.pc = "phase",
                  !.phaseFailed = job[s].phaseFailed, !.aborted = TRUE]]
  BY <1>1, <1>3
<1> QED BY <1>1, <1>2, <1>4, LockKept, LeaveInv

LEMMA DispatchInv ==
    ASSUME Inv, NEW s \in Sessions, Dispatch(s)
    PROVE  Inv' /\ \A t \in Sessions : Advances(job[t], job'[t])
<1>1. /\ job[s].pc \in inPhase /\ job[s].pc \notin awaited /\ job[s].pc # "step"
      /\ "running" \in inPhase /\ "running" \notin awaited
      /\ job' = [job EXCEPT ![s].pc = "running"]
      /\ UNCHANGED lock /\ UNCHANGED world
  BY DEF Dispatch, Go, inPhase, awaited
<1> QED BY <1>1, LockKept, MoveInv

LEMMA StepThrowsInv ==
    ASSUME Inv, NEW s \in Sessions, StepThrows(s)
    PROVE  Inv' /\ \A t \in Sessions : Advances(job[t], job'[t])
<1> DEFINE j == [job[s] EXCEPT !.pc = "release", !.out = "throw"]
<1>1. job[s] \in Job
  BY DEF Inv, TypeOK
<1>2. j \in Job
  BY <1>1 DEF Job, PCs
<1>3. j.pc = "release" /\ j.completed = job[s].completed /\ j.tried = job[s].tried
      /\ job[s].completed \in Nat
  BY <1>1 DEF Job
<1>4. job' = [job EXCEPT ![s] = j] /\ UNCHANGED lock /\ UNCHANGED world
  BY DEF StepThrows
<1> HIDE DEF j
<1>5. ~(j.completed > job[s].completed)
  BY <1>3
<1> QED BY <1>2, <1>3, <1>4, <1>5, LockKept, StopInv

LEMMA RecordStepInv ==
    ASSUME Inv, NEW s \in Sessions, RecordStep(s)
    PROVE  Inv' /\ \A t \in Sessions : Advances(job[t], job'[t])
<1>1. /\ job[s].pc \in inPhase /\ job[s].pc # "step"
      /\ "judge" \in inPhase /\ "judge" \in awaited /\ job[s].pc \in awaited
      /\ job' = [job EXCEPT ![s].pc = "judge"]
      /\ lock' = recordInvocation(s) /\ UNCHANGED world
  BY DEF RecordStep, Go, inPhase, awaited
<1>2. lock' \in LockState \cup {NoLock, Torn}
  BY <1>1, InsidePhase, RecordInvocationType
<1> QED BY <1>1, <1>2, MoveInv

LEMMA JudgeInv ==
    ASSUME Inv, NEW s \in Sessions, Judge(s)
    PROVE  Inv' /\ \A t \in Sessions : Advances(job[t], job'[t])
<1> DEFINE history == IF _readLock = NoLock THEN <<>> ELSE _readLock.history
<1>1. /\ job[s].pc \in inPhase /\ job[s].pc # "step"
      /\ UNCHANGED lock /\ UNCHANGED world
  BY DEF Judge, inPhase
<1>2. /\ job[s] \in Job /\ job[s].phaseFailed \in BOOLEAN /\ job[s].aborted \in BOOLEAN
      /\ job[s].out \in {"none", "ok", "fail", "timeout", "throw"}
  BY <1>1, InsidePhase DEF Job
<1>3. job' = [job EXCEPT ![s] =
                CASE job[s].out = "timeout" -> FailPhase(job[s])
                  [] job[s].out # "timeout" /\ analyze(history) ->
                        [job[s] EXCEPT !.pc = "phase", !.aborted = TRUE]
                  [] job[s].out = "fail" /\ ~analyze(history) -> [job[s] EXCEPT !.pc = "ask"]
                  [] job[s].out = "ok" /\ ~analyze(history) -> PassStep(job[s])]
  BY DEF Judge
<1> HIDE DEF history
<1>4. CASE job[s].out = "timeout"
  <2>1. job' = [job EXCEPT ![s] = [job[s] EXCEPT !.pc = "phase", !.phaseFailed = TRUE,
                                                 !.aborted = job[s].aborted]]
    <3>1. FailPhase(job[s]) = [job[s] EXCEPT !.pc = "phase", !.phaseFailed = TRUE,
                                             !.aborted = job[s].aborted]
      BY <1>2 DEF FailPhase, Job
    <3>2. job' = [job EXCEPT ![s] = FailPhase(job[s])]
      BY <1>3, <1>4
    <3> QED BY <3>1, <3>2
  <2> QED BY <1>1, <1>2, <2>1, LockKept, LeaveInv
<1>5. CASE job[s].out # "timeout" /\ analyze(history)
  <2>1. job' = [job EXCEPT ![s] = [job[s] EXCEPT !.pc = "phase",
                     !.phaseFailed = job[s].phaseFailed, !.aborted = TRUE]]
    <3>1. [job[s] EXCEPT !.pc = "phase", !.aborted = TRUE]
            = [job[s] EXCEPT !.pc = "phase", !.phaseFailed = job[s].phaseFailed,
                             !.aborted = TRUE]
      BY <1>2 DEF Job
    <3>2. job' = [job EXCEPT ![s] = [job[s] EXCEPT !.pc = "phase", !.aborted = TRUE]]
      BY <1>3, <1>5
    <3> QED BY <3>1, <3>2
  <2> QED BY <1>1, <1>2, <2>1, LockKept, LeaveInv
<1>6. CASE job[s].out = "fail" /\ ~analyze(history)
  <2>1. job' = [job EXCEPT ![s].pc = "ask"]
    BY <1>3, <1>6
  <2>2. "ask" \in inPhase /\ "ask" \notin awaited
    BY DEF inPhase, awaited
  <2> QED BY <1>1, <1>6, <2>1, <2>2, LockKept, MoveInv
<1>7. CASE job[s].out = "ok" /\ ~analyze(history)
  <2>1. job' = [job EXCEPT ![s] = PassStep(job[s])]
    BY <1>3, <1>7
  <2> QED BY <1>1, <1>7, <2>1, LockKept, PassInv
<1>8. job[s].out \in {"ok", "fail", "timeout"}
  BY DEF Judge, Inv, JobInv, Answered, awaited
<1> QED BY <1>4, <1>5, <1>6, <1>7, <1>8

LEMMA RetryInv ==
    ASSUME Inv, NEW s \in Sessions, Retry(s)
    PROVE  Inv' /\ \A t \in Sessions : Advances(job[t], job'[t])
<1>1. /\ job[s].pc \in inPhase /\ job[s].pc \notin awaited /\ job[s].pc # "step"
      /\ "rerunning" \in inPhase /\ "rerunning" \notin awaited
      /\ job' = [job EXCEPT ![s].pc = "rerunning"]
      /\ UNCHANGED lock /\ UNCHANGED world
  BY DEF Retry, Go, inPhase, awaited
<1> QED BY <1>1, LockKept, MoveInv

\* FailPhase is one way to leave the phase.
LEMMA FailInv ==
    ASSUME Inv, NEW s \in Sessions, job[s].pc \in inPhase, job[s].pc # "step",
           job' = [job EXCEPT ![s] = FailPhase(job[s])],
           lock' \in LockState \cup {NoLock, Torn}, UNCHANGED world
    PROVE  Inv' /\ \A t \in Sessions : Advances(job[t], job'[t])
<1>1. job[s] \in Job /\ job[s].aborted \in BOOLEAN
  BY InsidePhase DEF Job
<1>2. FailPhase(job[s]) = [job[s] EXCEPT !.pc = "phase", !.phaseFailed = TRUE,
                                         !.aborted = job[s].aborted]
  BY <1>1 DEF FailPhase, Job
<1>3. job' = [job EXCEPT ![s] = [job[s] EXCEPT !.pc = "phase", !.phaseFailed = TRUE,
                                               !.aborted = job[s].aborted]]
  BY <1>2
<1> QED BY <1>1, <1>3, LeaveInv

LEMMA SkipPhaseInv ==
    ASSUME Inv, NEW s \in Sessions, SkipPhase(s)
    PROVE  Inv' /\ \A t \in Sessions : Advances(job[t], job'[t])
<1>1. /\ job[s].pc \in inPhase /\ job[s].pc # "step"
      /\ job' = [job EXCEPT ![s] = FailPhase(job[s])]
      /\ UNCHANGED lock /\ UNCHANGED world
  BY DEF SkipPhase, inPhase
<1> QED BY <1>1, LockKept, FailInv

LEMMA AbortInv ==
    ASSUME Inv, NEW s \in Sessions, Abort(s)
    PROVE  Inv' /\ \A t \in Sessions : Advances(job[t], job'[t])
<1>1. /\ job[s].pc \in inPhase /\ job[s].pc # "step"
      /\ job' = [job EXCEPT ![s].pc = "phase", ![s].aborted = TRUE]
      /\ UNCHANGED lock /\ UNCHANGED world
  BY DEF Abort, inPhase
<1>2. job[s] \in Job /\ job[s].phaseFailed \in BOOLEAN
  BY <1>1, InsidePhase
<1>3. [job[s] EXCEPT !.pc = "phase", !.aborted = TRUE]
        = [job[s] EXCEPT !.pc = "phase", !.phaseFailed = job[s].phaseFailed, !.aborted = TRUE]
  BY <1>2 DEF Job
<1>4. job' = [job EXCEPT ![s] = [job[s] EXCEPT !.pc = "phase",
                  !.phaseFailed = job[s].phaseFailed, !.aborted = TRUE]]
  BY <1>1, <1>3
<1> QED BY <1>1, <1>2, <1>4, LockKept, LeaveInv

LEMMA RecordRetryInv ==
    ASSUME Inv, NEW s \in Sessions, RecordRetry(s)
    PROVE  Inv' /\ \A t \in Sessions : Advances(job[t], job'[t])
<1>1. /\ job[s].pc \in inPhase /\ job[s].pc # "step"
      /\ lock' = recordInvocation(s) /\ UNCHANGED world
      /\ job' = [job EXCEPT ![s] = IF job[s].out = "ok" THEN PassStep(job[s])
                                   ELSE FailPhase(job[s])]
  BY DEF RecordRetry, inPhase
<1>2. lock' \in LockState \cup {NoLock, Torn}
  BY <1>1, InsidePhase, RecordInvocationType
<1>3. CASE job[s].out = "ok"
  <2>1. job' = [job EXCEPT ![s] = PassStep(job[s])]
    BY <1>1, <1>3
  <2> QED BY <1>1, <1>2, <1>3, <2>1, PassInv
<1>4. CASE job[s].out # "ok"
  <2>1. job' = [job EXCEPT ![s] = FailPhase(job[s])]
    BY <1>1, <1>4
  <2> QED BY <1>1, <1>2, <2>1, FailInv
<1> QED BY <1>3, <1>4

LEMMA ReleaseInv ==
    ASSUME Inv, NEW s \in Sessions, Release(s)
    PROVE  Inv' /\ \A t \in Sessions : Advances(job[t], job'[t])
<1> DEFINE j == Gone("done", NoJob)
<1>1. j = [NoJob EXCEPT !.pc = "done", !.todo = {}]
  BY DEF Gone, NoJob
<1>2. /\ job' = [job EXCEPT ![s] = j] /\ UNCHANGED world
      /\ lock' \in LockState \cup {NoLock, Torn}
  BY DEF Release
<1> HIDE DEF j
<1>3. j \in Job
  <2>1. 1 \in 1..(Len(PIPELINE_STEPS) + 1) /\ "done" \in PCs
    BY FiveSteps DEF PCs
  <2>2. j = [pc |-> "done", start |-> 0, resumed |-> None, todo |-> {}, phase |-> 0,
             step |-> 1, out |-> "none", phaseFailed |-> FALSE, aborted |-> FALSE,
             completed |-> 0, failed |-> 0, tried |-> {}, finished |-> {},
             passed |-> {}, seen |-> {}]
    BY <1>1 DEF NoJob
  <2>3. {} \in SUBSET StepNames /\ {} \in SUBSET Nat /\ 0 \in Nat
    OBVIOUS
  <2>4. None \in Sessions \cup {None} /\ "none" \in {"none", "ok", "fail", "timeout", "throw"}
    OBVIOUS
  <2> QED BY <2>1, <2>2, <2>3, <2>4, Zenon DEF Job
<1>4. j.pc = "done" /\ j.completed = 0 /\ j.tried = {}
  BY <1>1 DEF NoJob
<1>5. job[s].completed \in Nat
  BY DEF Inv, TypeOK, Job
<1>6. ~(j.completed > job[s].completed)
  BY <1>4, <1>5
<1> QED BY <1>3, <1>4, <1>2, <1>6, StopInv

\* The end of a phase: the run stops, goes on, or counts the phase as completed.
LEMMA EndPhaseInv ==
    ASSUME Inv, NEW s \in Sessions, EndPhase(s)
    PROVE  Inv' /\ \A t \in Sessions : Advances(job[t], job'[t])
<1> DEFINE old == job[s]
<1>1. /\ old \in Job /\ JobInv(old)
      /\ old.pc = "phase" \/ (old.pc = "step" /\ old.step > Len(PIPELINE_STEPS))
      /\ UNCHANGED lock /\ UNCHANGED world
      /\ job' = [job EXCEPT ![s] =
            IF old.aborted THEN [old EXCEPT !.pc = "release"]
            ELSE IF old.phaseFailed THEN GiveUpPhase(old)
            ELSE CompletePhase(old)]
  BY DEF EndPhase, Inv, TypeOK
<1>2. /\ old.phase \in Nat /\ old.todo \in SUBSET Nat /\ old.completed \in Nat
      /\ old.failed \in Nat /\ old.tried \in SUBSET Nat /\ old.finished \in SUBSET Nat
      /\ old.start \in Nat /\ old.step \in 1..6
  BY <1>1, FiveSteps DEF Job
<1>3. /\ \A n \in old.todo : old.phase < n
      /\ \A n \in old.finished : n < old.phase
      /\ \A n \in old.tried : n <= old.phase
  BY <1>1 DEF JobInv, Ordered, inPhase
<1>4. lock' \in LockState \cup {NoLock, Torn}
  BY <1>1, LockKept
<1>5. \A l \in late : (l.by = s /\ LateInv(l, old)) => l.phase <= old.phase /\ l.phase \in Nat
  BY <1>1 DEF LateInv, inPhase, Inv, TypeOK
<1>6. CASE old.aborted
  <2> DEFINE j == [old EXCEPT !.pc = "release"]
  <2>1. j \in Job
    BY <1>1 DEF Job, PCs
  <2>2. j.pc = "release" /\ j.completed = old.completed /\ j.tried = old.tried
    BY <1>1 DEF Job
  <2>3. job' = [job EXCEPT ![s] = j]
    BY <1>1, <1>6
  <2> HIDE DEF j
  <2>4. ~(j.completed > old.completed)
    BY <1>2, <2>2
  <2> QED BY <1>1, <1>4, <2>1, <2>2, <2>3, <2>4, StopInv
<1>7. CASE ~old.aborted /\ old.phaseFailed
  <2> DEFINE n == NextPhase(old, old.todo)
             j == [n EXCEPT !.failed = n.failed + 1]
  <2>1. job' = [job EXCEPT ![s] = j]
    BY <1>1, <1>7 DEF GiveUpPhase
  <2>2. n \in Job /\ Takes(old, n, old.todo)
        /\ n.finished = old.finished /\ n.completed = old.completed
    BY <1>1, <1>2, NextPhaseTakes
  <2> HIDE DEF n
  <2>3. j \in Job
    BY <2>2 DEF Job
  <2>4. /\ j.finished = old.finished /\ j.completed = old.completed
        /\ j.pc = n.pc /\ j.phase = n.phase /\ j.todo = n.todo
        /\ j.step = n.step /\ j.passed = n.passed /\ j.tried = n.tried
    BY <2>2 DEF Job
  <2> HIDE DEF j
  <2>5. Takes(old, j, old.todo)
    BY <2>2, <2>4 DEF Takes
  <2>6. \A m \in old.todo, t \in old.tried : t < m
    <3> SUFFICES ASSUME NEW m \in old.todo, NEW t \in old.tried PROVE t < m
      OBVIOUS
    <3>1. m \in Nat /\ t \in Nat
      BY <1>2
    <3>2. t <= old.phase /\ old.phase < m
      BY <1>3
    <3> QED BY <1>2, <3>1, <3>2
  <2>7. \A m \in old.todo, t \in j.finished : t < m
    <3> SUFFICES ASSUME NEW m \in old.todo, NEW t \in j.finished PROVE t < m
      OBVIOUS
    <3>1. m \in Nat /\ t \in Nat
      BY <1>2, <2>4
    <3>2. t < old.phase /\ old.phase < m
      BY <1>3, <2>4
    <3> QED BY <1>2, <3>1, <3>2
  <2>8. /\ JobInv(j)
        /\ j.pc = "release" \/ (j.pc = "step" /\ j.phase \in old.todo)
        /\ j.tried # old.tried => \A m \in j.tried \ old.tried, t \in old.tried : t < m
    BY <1>1, <1>2, <2>3, <2>5, <2>6, <2>7, TakesInv
  <2>9. Advances(old, j)
    BY <1>2, <2>4, <2>8 DEF Advances
  <2>10. \A l \in late : (l.by = s /\ LateInv(l, old)) => LateInv(l, j)
    BY <1>2, <1>3, <1>5, <2>8 DEF LateInv, before, inPhase
  <2> QED BY <1>1, <1>4, <2>1, <2>3, <2>8, <2>9, <2>10, QuietAction
<1>8. CASE ~old.aborted /\ ~old.phaseFailed
  <2> DEFINE todo == replan(old)
             n == NextPhase(old, todo)
             seen == remainingFrom(roadmap, old.start)
             j == [n EXCEPT !.completed = n.completed + 1,
                            !.finished = n.finished \cup {old.phase}, !.seen = seen]
  <2>1. job' = [job EXCEPT ![s] = j]
    BY <1>1, <1>8 DEF CompletePhase
  <2>2. old.pc = "step" /\ old.step = 6
    BY <1>1, <1>2, <1>8, FiveSteps DEF JobInv, Stopped
  <2>3. old.passed = StepNames
    BY <1>1, <2>2, FiveSteps DEF JobInv, StepsPassed, inPhase
  <2>4. old.phase \notin old.finished
    BY <1>2, <1>3
  <2>5. todo \in SUBSET Nat /\ \A m \in todo : old.phase < m
    <3> DEFINE fresh == remainingFrom(roadmap, old.phase + 100)
    <3>1. roadmap \in Seq(Phase)
      BY DEF Inv, TypeOK
    <3>2. fresh \in SUBSET Nat
      BY <1>2, <3>1, RemainingType
    <3>3. \A m \in fresh : m >= old.phase + 100
      BY DEF remainingFrom
    <3>4. todo = fresh \/ todo = old.todo
      BY DEF replan
    <3>5. \A m \in fresh : old.phase < m
      BY <1>2, <3>2, <3>3
    <3> HIDE DEF fresh, todo
    <3> QED BY <1>2, <1>3, <3>2, <3>4, <3>5
  <2>6. seen \in SUBSET Nat
    BY <1>2, RemainingType DEF Inv, TypeOK
  <2> HIDE DEF todo, seen
  <2>7. n \in Job /\ Takes(old, n, todo)
        /\ n.finished = old.finished /\ n.completed = old.completed
    BY <1>1, <2>5, NextPhaseTakes
  <2> HIDE DEF n
  <2>8. j \in Job
    <3>1. n.completed + 1 \in Nat /\ n.finished \cup {old.phase} \in SUBSET Nat
      BY <1>2, <2>7
    <3> QED BY <2>6, <2>7, <3>1 DEF Job
  <2>9. /\ j.finished = old.finished \cup {old.phase} /\ j.completed = old.completed + 1
        /\ j.pc = n.pc /\ j.phase = n.phase /\ j.todo = n.todo
        /\ j.step = n.step /\ j.passed = n.passed /\ j.tried = n.tried
    BY <2>7 DEF Job
  <2> HIDE DEF j
  <2>10. Takes(old, j, todo)
    BY <2>7, <2>9 DEF Takes
  <2>11. \A m \in todo, t \in old.tried : t < m
    <3> SUFFICES ASSUME NEW m \in todo, NEW t \in old.tried PROVE t < m
      OBVIOUS
    <3>1. m \in Nat /\ t \in Nat
      BY <1>2, <2>5
    <3>2. t <= old.phase /\ old.phase < m
      BY <1>3, <2>5
    <3> QED BY <1>2, <3>1, <3>2
  <2>12. \A m \in todo, t \in j.finished : t < m
    <3> SUFFICES ASSUME NEW m \in todo, NEW t \in j.finished PROVE t < m
      OBVIOUS
    <3>1. m \in Nat /\ t \in Nat
      BY <1>2, <2>5, <2>9
    <3>2. t <= old.phase /\ old.phase < m
      BY <1>2, <1>3, <2>5, <2>9
    <3> QED BY <1>2, <3>1, <3>2
  <2>13. /\ JobInv(j)
         /\ j.pc = "release" \/ (j.pc = "step" /\ j.phase \in todo)
         /\ j.tried # old.tried => \A m \in j.tried \ old.tried, t \in old.tried : t < m
    BY <1>1, <2>5, <2>8, <2>10, <2>11, <2>12, TakesInv
  <2>14. Advances(old, j)
    BY <2>3, <2>4, <2>9, <2>13 DEF Advances
  <2>15. \A l \in late : (l.by = s /\ LateInv(l, old)) => LateInv(l, j)
    <3> SUFFICES ASSUME NEW l \in late, l.by = s, LateInv(l, old) PROVE LateInv(l, j)
      OBVIOUS
    <3>1. l.phase <= old.phase /\ l.phase \in Nat
      BY <1>5
    <3>2. CASE j.pc = "release"
      BY <3>2 DEF LateInv, before, inPhase
    <3>3. CASE j.pc = "step" /\ j.phase \in todo
      <4>1. old.phase < j.phase /\ j.phase \in Nat
        BY <2>5, <3>3
      <4>2. l.phase < j.phase /\ l.phase <= j.phase
        BY <1>2, <3>1, <4>1
      <4> QED BY <3>3, <4>2 DEF LateInv, before
    <3> QED BY <2>13, <3>2, <3>3
  <2> QED BY <1>1, <1>4, <2>1, <2>8, <2>13, <2>14, <2>15, QuietAction
<1>9. old.aborted \in BOOLEAN /\ old.phaseFailed \in BOOLEAN
  BY <1>1 DEF Job
<1> QED BY <1>6, <1>7, <1>8, <1>9

\* A counter below its bound may count one more.
LEMMA CountType ==
    ASSUME Inv
    PROVE  /\ MaxEdits \in Nat /\ MaxTimeouts \in Nat /\ MaxCrashes \in Nat
           /\ count \in [edits : 0..MaxEdits, timeouts : 0..MaxTimeouts,
                         crashes : 0..MaxCrashes]
           /\ count.edits < MaxEdits => count.edits + 1 \in 0..MaxEdits
           /\ count.timeouts < MaxTimeouts => count.timeouts + 1 \in 0..MaxTimeouts
           /\ count.crashes < MaxCrashes => count.crashes + 1 \in 0..MaxCrashes
<1>1. MaxEdits \in Nat /\ MaxTimeouts \in Nat /\ MaxCrashes \in Nat
  BY AutoAssumption DEF AutoAssumption
<1>2. count \in [edits : 0..MaxEdits, timeouts : 0..MaxTimeouts, crashes : 0..MaxCrashes]
  BY DEF Inv, TypeOK
<1>3. /\ count.edits \in 0..MaxEdits /\ count.timeouts \in 0..MaxTimeouts
      /\ count.crashes \in 0..MaxCrashes
  BY <1>2
<1> QED BY <1>1, <1>2, <1>3

\* What a skill leaves behind when it ends.
LEMMA SkillEndsType ==
    ASSUME Inv, NEW phase \in Nat, NEW step, NEW success \in BOOLEAN,
           SkillEnds(phase, step, success)
    PROVE  written' \in SUBSET (Nat \X Skippable)
<1>1. written \in SUBSET (Nat \X Skippable)
  BY DEF Inv, TypeOK
<1>2. CASE written' = written
  BY <1>1, <1>2
<1>3. CASE step \in Skippable /\ written' = written \cup {<<phase, step>>}
  BY <1>1, <1>3
<1> QED BY <1>2, <1>3 DEF SkillEnds

LEMMA StepEndsInv ==
    ASSUME Inv, NEW s \in Sessions, StepEnds(s)
    PROVE  Inv' /\ \A t \in Sessions : Advances(job[t], job'[t])
<1>1. PICK success \in BOOLEAN :
        /\ SkillEnds(job[s].phase, StepOf(job[s]), success)
        /\ job' = [job EXCEPT ![s].pc = AfterWait(s),
                              ![s].out = IF success THEN "ok" ELSE "fail"]
  BY DEF StepEnds
<1> DEFINE pc == AfterWait(s)
           out == IF success THEN "ok" ELSE "fail"
           j == [job[s] EXCEPT !.pc = pc, !.out = out]
<1>2. /\ job[s].pc \in inPhase /\ job[s].pc # "step" /\ job[s].pc \notin awaited
      /\ pc \in inPhase /\ pc \in awaited
      /\ UNCHANGED <<roadmap, lock, late, count>>
  BY DEF StepEnds, Waiting, AfterWait, inPhase, awaited
<1>3. /\ job[s] \in Job /\ JobInv(job[s]) /\ job[s].step \in 1..5 /\ job[s].phase \in Nat
  BY <1>2, InsidePhase
<1>4. out \in {"ok", "fail"}
  OBVIOUS
<1>5. job' = [job EXCEPT ![s] = j]
  BY <1>1
<1> HIDE DEF pc, out
<1>6. j \in Job /\ JobInv(j) /\ Advances(job[s], j)
  BY <1>2, <1>3, <1>4, MoveInStep
<1>7. j.pc = pc /\ j.out = out /\ j.phase = job[s].phase
  BY <1>3 DEF Job
<1> HIDE DEF j
<1>8. \A l \in late : (l.by = s /\ LateInv(l, job[s])) => LateInv(l, j)
  BY <1>2, <1>7 DEF LateInv, before, inPhase
<1>9. \A l \in late' : l \in late /\ l.by \in Sessions /\ l.phase \in Nat
  BY <1>2 DEF Inv, TypeOK
<1>10. \A l \in late' : l.by = s => LateInv(l, j)
  BY <1>8, <1>9 DEF Inv
<1>11. /\ job' \in [Sessions -> Job]
       /\ \A t \in Sessions : JobInv(job'[t])
       /\ \A l \in late' : LateInv(l, job'[l.by])
       /\ \A t \in Sessions : Advances(job[t], job'[t])
  BY <1>5, <1>6, <1>9, <1>10, OneSession
<1>12. written' \in SUBSET (Nat \X Skippable)
  BY <1>1, <1>2, <1>3, SkillEndsType
<1>13. TypeOK'
  BY <1>2, <1>11, <1>12 DEF Inv, TypeOK
<1> QED BY <1>11, <1>13 DEF Inv

LEMMA StepTimesOutInv ==
    ASSUME Inv, NEW s \in Sessions, StepTimesOut(s)
    PROVE  Inv' /\ \A t \in Sessions : Advances(job[t], job'[t])
<1> DEFINE pc == AfterWait(s)
           j == [job[s] EXCEPT !.pc = pc, !.out = "timeout"]
           new == [by |-> s, phase |-> job[s].phase, step |-> StepOf(job[s])]
<1>1. /\ job[s].pc \in inPhase /\ job[s].pc # "step" /\ job[s].pc \notin awaited
      /\ pc \in inPhase /\ pc \in awaited
      /\ UNCHANGED <<roadmap, lock, written>>
      /\ late' = late \cup {new}
      /\ job' = [job EXCEPT ![s] = j]
      /\ count.timeouts < MaxTimeouts
      /\ count' = [count EXCEPT !.timeouts = @ + 1]
  BY DEF StepTimesOut, Waiting, AfterWait, inPhase, awaited
<1>2. /\ job[s] \in Job /\ JobInv(job[s]) /\ job[s].step \in 1..5 /\ job[s].phase \in Nat
  BY <1>1, InsidePhase
<1> HIDE DEF pc
<1>3. j \in Job /\ JobInv(j) /\ Advances(job[s], j)
  BY <1>1, <1>2, MoveInStep
<1>4. j.pc = pc /\ j.out = "timeout" /\ j.phase = job[s].phase
  BY <1>2 DEF Job
<1> HIDE DEF j
<1>5. new \in [by : Sessions, phase : Nat, step : StepNames]
      /\ new.by = s /\ new.phase = job[s].phase
  BY <1>2, FiveSteps DEF StepOf
<1> HIDE DEF new
<1>6. late' \in SUBSET [by : Sessions, phase : Nat, step : StepNames]
  BY <1>1, <1>5 DEF Inv, TypeOK
<1>7. ASSUME NEW l \in late', l.by = s PROVE LateInv(l, j)
  <2>1. pc \notin before
    BY <1>1 DEF inPhase, before
  <2>2. l.phase <= job[s].phase
    <3>1. CASE l \in late
      <4>1. LateInv(l, job[s])
        BY <1>7, <3>1 DEF Inv
      <4> QED BY <1>1, <4>1 DEF LateInv
    <3>2. CASE l = new
      BY <1>2, <1>5, <3>2
    <3> QED BY <1>1, <3>1, <3>2
  <2> QED BY <1>1, <1>4, <2>1, <2>2 DEF LateInv
<1>8. \A l \in late' : l.by \in Sessions /\ l.phase \in Nat
  BY <1>6
<1>9. \A l \in late' : l.by # s => l \in late
  BY <1>1, <1>5
<1>10. /\ job' \in [Sessions -> Job]
       /\ \A t \in Sessions : JobInv(job'[t])
       /\ \A l \in late' : LateInv(l, job'[l.by])
       /\ \A t \in Sessions : Advances(job[t], job'[t])
  BY <1>1, <1>3, <1>7, <1>8, <1>9, OneSession
<1>11. count' \in [edits : 0..MaxEdits, timeouts : 0..MaxTimeouts, crashes : 0..MaxCrashes]
  BY <1>1, CountType
<1>12. TypeOK'
  BY <1>1, <1>6, <1>10, <1>11 DEF Inv, TypeOK
<1> QED BY <1>10, <1>12 DEF Inv

LEMMA CrashInv ==
    ASSUME Inv, NEW s \in Sessions, Crash(s)
    PROVE  Inv' /\ \A t \in Sessions : Advances(job[t], job'[t])
<1> DEFINE left == job[s].todo \cup ({job[s].phase} \ (job[s].finished \cup {0}))
           j == [NoJob EXCEPT !.pc = "crashed", !.todo = left]
<1>1. /\ UNCHANGED <<roadmap, written>>
      /\ lock' = lock \/ lock' = Torn
      /\ late' = {l \in late : l.by # s}
      /\ job' = [job EXCEPT ![s] = j]
      /\ count.crashes < MaxCrashes
      /\ count' = [count EXCEPT !.crashes = @ + 1]
  BY DEF Crash, Gone
<1>2. job[s] \in Job /\ left \in SUBSET Nat /\ job[s].completed \in Nat
  BY DEF Inv, TypeOK, Job
<1> HIDE DEF left
<1>0. j = [NoJob EXCEPT !.pc = "crashed", !.todo = left]
  OBVIOUS
<1> HIDE DEF j
<1>3. j \in Job
  <2>1. 1 \in 1..(Len(PIPELINE_STEPS) + 1) /\ "crashed" \in PCs
    BY FiveSteps DEF PCs
  <2>2. j = [pc |-> "crashed", start |-> 0, resumed |-> None, todo |-> left, phase |-> 0,
             step |-> 1, out |-> "none", phaseFailed |-> FALSE, aborted |-> FALSE,
             completed |-> 0, failed |-> 0, tried |-> {}, finished |-> {},
             passed |-> {}, seen |-> {}]
    BY <1>0 DEF NoJob
  <2>3. {} \in SUBSET StepNames /\ {} \in SUBSET Nat /\ 0 \in Nat
    OBVIOUS
  <2>4. None \in Sessions \cup {None} /\ "none" \in {"none", "ok", "fail", "timeout", "throw"}
    OBVIOUS
  <2> QED BY <1>2, <2>1, <2>2, <2>3, <2>4, Zenon DEF Job
<1>4. j.pc = "crashed" /\ j.completed = 0 /\ j.tried = {}
  BY <1>0 DEF NoJob
<1>5. JobInv(j)
  BY <1>4 DEF JobInv, StepsPassed, Ordered, Stopped, Answered, inPhase, before, awaited
<1>6. Advances(job[s], j)
  <2>1. ~(j.completed > job[s].completed)
    BY <1>2, <1>4
  <2> QED BY <1>4, <2>1 DEF Advances
<1>7. \A l \in late' : l \in late /\ l.by # s /\ l.by \in Sessions /\ l.phase \in Nat
  BY <1>1 DEF Inv, TypeOK
<1>8. /\ job' \in [Sessions -> Job]
      /\ \A t \in Sessions : JobInv(job'[t])
      /\ \A l \in late' : LateInv(l, job'[l.by])
      /\ \A t \in Sessions : Advances(job[t], job'[t])
  BY <1>1, <1>3, <1>5, <1>6, <1>7, OneSession
<1>9. count' \in [edits : 0..MaxEdits, timeouts : 0..MaxTimeouts, crashes : 0..MaxCrashes]
  BY <1>1, CountType
<1>10. TypeOK'
  BY <1>1, <1>7, <1>8, <1>9 DEF Inv, TypeOK
<1> QED BY <1>8, <1>10 DEF Inv

\* A session that is not touched keeps everything.
LEMMA NothingAdvances ==
    ASSUME Inv, UNCHANGED job
    PROVE  \A t \in Sessions : Advances(job[t], job'[t])
<1> SUFFICES ASSUME NEW t \in Sessions PROVE Advances(job[t], job'[t])
  OBVIOUS
<1>1. job'[t] = job[t] /\ job[t].completed \in Nat
  BY DEF Inv, TypeOK, Job
<1>2. ~(job[t].completed > job[t].completed)
  BY <1>1
<1> QED BY <1>1, <1>2 DEF Advances

LEMMA LateStepEndsInv ==
    ASSUME Inv, LateStepEnds
    PROVE  Inv' /\ \A t \in Sessions : Advances(job[t], job'[t])
<1>1. PICK l \in late, success \in BOOLEAN :
        /\ SkillEnds(l.phase, l.step, success)
        /\ late' = late \ {l}
  BY DEF LateStepEnds
<1>2. UNCHANGED <<roadmap, lock, job, count>>
  BY DEF LateStepEnds
<1>3. l.phase \in Nat
  BY DEF Inv, TypeOK
<1>4. written' \in SUBSET (Nat \X Skippable)
  BY <1>1, <1>3, SkillEndsType
<1>5. TypeOK'
  BY <1>1, <1>2, <1>4 DEF Inv, TypeOK
<1> QED BY <1>1, <1>2, <1>5, NothingAdvances DEF Inv

LEMMA EditRoadmapInv ==
    ASSUME Inv, EditRoadmap
    PROVE  Inv' /\ \A t \in Sessions : Advances(job[t], job'[t])
<1> DEFINE id == Len(InitialRoadmap) + count'.edits
<1>1. /\ UNCHANGED <<lock, written, job, late>>
      /\ count.edits < MaxEdits
      /\ count' = [count EXCEPT !.edits = @ + 1]
      /\ \/ roadmap' = addPhase(roadmap, id)
         \/ \E after \in InsertAfter : roadmap' = insertPhase(roadmap, id, after)
         \/ \E i \in DOMAIN roadmap :
               /\ ~roadmap[i].done
               /\ roadmap' = [roadmap EXCEPT ![i].done = TRUE]
  BY DEF EditRoadmap
<1>2. count' \in [edits : 0..MaxEdits, timeouts : 0..MaxTimeouts, crashes : 0..MaxCrashes]
  BY <1>1, CountType
<1>3. id \in Nat
  BY <1>2, AutoAssumption DEF AutoAssumption
<1>4. roadmap \in Seq(Phase)
  BY DEF Inv, TypeOK
<1> HIDE DEF id
<1>5. roadmap' \in Seq(Phase)
  <2>1. CASE roadmap' = addPhase(roadmap, id)
    BY <1>3, <1>4, <2>1, AddType
  <2>2. ASSUME NEW after \in InsertAfter, roadmap' = insertPhase(roadmap, id, after)
        PROVE  roadmap' \in Seq(Phase)
    BY <1>3, <1>4, <2>2, InsertType, AutoAssumption DEF AutoAssumption
  <2>3. ASSUME NEW i \in DOMAIN roadmap, roadmap' = [roadmap EXCEPT ![i].done = TRUE]
        PROVE  roadmap' \in Seq(Phase)
    <3>1. [roadmap[i] EXCEPT !.done = TRUE] \in Phase
      <4>1. roadmap[i] \in Phase
        BY <1>4
      <4> QED BY <4>1 DEF Phase
    <3>2. roadmap' = [roadmap EXCEPT ![i] = [roadmap[i] EXCEPT !.done = TRUE]]
      BY <2>3
    <3> QED BY <1>4, <3>1, <3>2
  <2> QED BY <1>1, <2>1, <2>2, <2>3
<1>6. TypeOK'
  BY <1>1, <1>2, <1>5 DEF Inv, TypeOK
<1> QED BY <1>1, <1>6, NothingAdvances DEF Inv

\* All steps of a session.
LEMMA SessionStepInv ==
    ASSUME Inv, NEW s \in Sessions, SessionStep(s)
    PROVE  Inv' /\ \A t \in Sessions : Advances(job[t], job'[t])
BY AcquireInv, ReadRoadmapInv, SkipStepInv, EnterStepInv, AbortBeforeStepInv, DispatchInv,
   StepEndsInv, StepTimesOutInv, StepThrowsInv, RecordStepInv, JudgeInv, RetryInv,
   SkipPhaseInv, AbortInv, RecordRetryInv, EndPhaseInv, ReleaseInv DEF SessionStep

-----------------------------------------------------------------------------
(* The theorems *)

\* The first state.
LEMMA InitInv == Init => Inv
<1> SUFFICES ASSUME Init PROVE Inv
  OBVIOUS
<1>1. NoJob \in Job
  <2>1. 1 \in 1..(Len(PIPELINE_STEPS) + 1) /\ "idle" \in PCs
    BY FiveSteps DEF PCs
  <2>2. {} \in SUBSET StepNames /\ {} \in SUBSET Nat /\ 0 \in Nat
    OBVIOUS
  <2>3. None \in Sessions \cup {None} /\ "none" \in {"none", "ok", "fail", "timeout", "throw"}
    OBVIOUS
  <2> QED BY <2>1, <2>2, <2>3, Zenon DEF NoJob, Job
<1>2. job \in [Sessions -> Job] /\ \A s \in Sessions : job[s] = NoJob
  BY <1>1 DEF Init
<1>3. JobInv(NoJob)
  BY DEF NoJob, JobInv, StepsPassed, Ordered, Stopped, Answered, inPhase, before, awaited
<1>4. roadmap \in Seq(Phase)
  <2>1. <<>> \in Seq(Phase)
    OBVIOUS
  <2> QED BY <2>1, AutoAssumption DEF Init, AutoAssumption
<1>5. count \in [edits : 0..MaxEdits, timeouts : 0..MaxTimeouts, crashes : 0..MaxCrashes]
  <2>1. MaxEdits \in Nat /\ MaxTimeouts \in Nat /\ MaxCrashes \in Nat
    BY AutoAssumption DEF AutoAssumption
  <2> QED BY <2>1 DEF Init
<1>6. TypeOK
  BY <1>2, <1>4, <1>5 DEF Init, TypeOK
<1>7. late = {}
  BY DEF Init
<1> QED BY <1>2, <1>3, <1>6, <1>7 DEF Inv

\* Every step keeps Inv.
LEMMA NextInv ==
    Inv /\ [Next]_vars => Inv' /\ \A t \in Sessions : Advances(job[t], job'[t])
<1> SUFFICES ASSUME Inv, [Next]_vars
             PROVE  Inv' /\ \A t \in Sessions : Advances(job[t], job'[t])
  OBVIOUS
<1>1. ASSUME NEW s \in Sessions, Start(s)
      PROVE  Inv' /\ \A t \in Sessions : Advances(job[t], job'[t])
  BY <1>1, StartInv
<1>2. ASSUME NEW s \in Sessions, SessionStep(s)
      PROVE  Inv' /\ \A t \in Sessions : Advances(job[t], job'[t])
  BY <1>2, SessionStepInv
<1>3. ASSUME NEW s \in Sessions, Crash(s)
      PROVE  Inv' /\ \A t \in Sessions : Advances(job[t], job'[t])
  BY <1>3, CrashInv
<1>4. CASE LateStepEnds
  BY <1>4, LateStepEndsInv
<1>5. CASE EditRoadmap
  BY <1>5, EditRoadmapInv
<1>6. CASE UNCHANGED vars
  <2>1. Inv'
    BY <1>6 DEF vars, Inv, TypeOK, _readLock
  <2> QED BY <1>6, <2>1, NothingAdvances DEF vars
<1> QED BY <1>1, <1>2, <1>3, <1>4, <1>5, <1>6 DEF Next

\* The invariant holds in every run, with any number of sessions that overlap or
\* do not.
THEOREM InvHolds == Spec => []Inv
<1>1. Inv /\ [Next]_vars => Inv'
  BY NextInv
<1> QED BY InitInv, <1>1, PTL DEF Spec

\* The lock, the roadmap, the written artifacts and the locals of every session
\* stay what their readers take them for, whoever else writes them.
THEOREM TypeCorrect == Spec => []TypeOK
<1>1. Inv => TypeOK
  BY DEF Inv
<1> QED BY InvHolds, <1>1, PTL

\* No session dispatches a step that its own earlier timeout left running for the
\* same phase (auto.skill.ts, the hard timeout of a step), for sessions that
\* overlap too.  It says nothing of the steps another session left running.
THEOREM NoStepRaces == Spec => []NoStepRacesItself
<1>1. Inv => NoStepRacesItself
  <2> SUFFICES ASSUME Inv, NEW s \in Sessions, NEW l \in late, l.by = s, Waiting(s)
               PROVE  l.phase < job[s].phase
    BY DEF NoStepRacesItself
  <2>1. LateInv(l, job[s])
    BY DEF Inv
  <2>2. job[s].pc \in inPhase /\ job[s].pc \notin awaited
    BY DEF Waiting, inPhase, awaited
  <2> QED BY <2>1, <2>2 DEF LateInv
<1> QED BY InvHolds, <1>1, PTL

\* A phase counts as completed only after every step of the pipeline, and once.
THEOREM CompletedIsComplete == Spec => CompletedMeansEveryStep
<1>1. Inv /\ [Next]_vars =>
        [\A s \in Sessions :
           job'[s].completed > job[s].completed =>
             /\ job[s].passed = StepNames
             /\ job'[s].finished = job[s].finished \cup {job[s].phase}
             /\ job[s].phase \notin job[s].finished]_vars
  BY NextInv DEF Advances
<1> QED BY InvHolds, <1>1, PTL DEF Spec, CompletedMeansEveryStep

\* A session takes the phases in ascending order, whatever others do to the
\* roadmap between two replans.
THEOREM PhasesAscending == Spec => PhasesAscend
<1>1. Inv /\ [Next]_vars =>
        [\A s \in Sessions :
           job'[s].tried # job[s].tried =>
             \A n \in job'[s].tried \ job[s].tried, m \in job[s].tried : m < n]_vars
  BY NextInv DEF Advances
<1> QED BY InvHolds, <1>1, PTL DEF Spec, PhasesAscend

=============================================================================
