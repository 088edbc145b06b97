---------------------------- MODULE AutoPipeline ----------------------------
(***************************************************************************)
(* sunco auto (packages/skills-workflow/src/auto.skill.ts): the pipeline   *)
(* discuss, plan, execute, lint-gate, verify over the phases left on       *)
(* ROADMAP.md, with the crash lock (shared/auto-lock.ts) and the stuck     *)
(* detector (shared/stuck-detector.ts).                                    *)
(*                                                                         *)
(* A session is an operating-system process.  A step is another skill run  *)
(* inside it; the hard timeout stops waiting for the step and does not     *)
(* stop the step, which goes on in `late`, after the lock is released too: *)
(* cli.ts does not end the process when a skill has returned.              *)
(*                                                                         *)
(* Abstractions:                                                           *)
(*  - Phases are their numbers in hundredths (RoadmapFile!NumberOf).       *)
(*  - A lock write is one action; a process that dies in it leaves a file  *)
(*    that does not parse (Torn).  Lock and roadmap I/O does not fail.     *)
(*  - A missing ROADMAP.md is the empty roadmap.                           *)
(*  - skippedPhases and failedPhases only change together: `failed`.       *)
(*  - workflow.pause and workflow.debug are run for their reports; what    *)
(*    they write is not read here.  Model tiers and routing records too.   *)
(*  - The budget guard (shared/budget-guard.ts) compares the ceiling with  *)
(*    usage.totalCostUsd, which no code under src writes: the total is     *)
(*    always 0, a ceiling above 0 never stops a run, and the guard is left *)
(*    out.  A ceiling of 0 would abort as a red zone does.                 *)
(***************************************************************************)
EXTENDS RoadmapFile, FiniteSets

CONSTANTS
    Sessions,       \* processes that may run sunco auto, once each
    None,           \* no argument, no session
    NoLock,         \* no lock file
    Torn,           \* a lock file that does not parse
    InitialRoadmap, \* ROADMAP.md before the first session
    FromArgs,       \* --from, or None
    StatePhases,    \* the phase STATE.md may name, or None
    InsertAfter,    \* phases after which a decimal phase may be inserted
    HistoryLimit,   \* AutoLock.HISTORY_LIMIT
    MaxConsecutive, \* StuckDetector's maxConsecutiveFailures
    MaxEdits,       \* bound on roadmap edits by others
    MaxTimeouts,    \* bound on hard timeouts
    MaxCrashes,     \* bound on process deaths
    Overlap         \* whether sessions may overlap

ASSUME AutoAssumption ==
    /\ InitialRoadmap \in Seq(Phase)
    /\ FromArgs \cup StatePhases \subseteq Nat \cup {None}
    /\ InsertAfter \subseteq Nat
    /\ {MaxEdits, MaxTimeouts, MaxCrashes} \subseteq Nat
    /\ HistoryLimit \in Nat \ {0}
    /\ MaxConsecutive \in Nat \ {0}
    /\ None \notin Sessions
    /\ Overlap \in BOOLEAN

VARIABLES
    roadmap,    \* ROADMAP.md
    lock,       \* .sun/auto.lock
    written,    \* <<phase, step>> whose artifact is in the phase's directory
    job,        \* per session: the locals of execute()
    late,       \* steps that outlived their timeout
    count       \* edits, timeouts and crashes so far

vars == <<roadmap, lock, written, job, late, count>>

-----------------------------------------------------------------------------
PIPELINE_STEPS == <<"discuss", "plan", "execute", "lint-gate", "verify">>
StepNames == ToSet(PIPELINE_STEPS)
Skippable == {"discuss", "plan"}

Record == [step : StepNames, success : BOOLEAN, timedOut : BOOLEAN]
History == {h \in Seq(Record) : Len(h) <= HistoryLimit}
LockState ==
    [pid : Sessions, phase : Nat, step : StepNames \cup {"init", "unknown"}, history : History]

ASSUME LockAssumption == NoLock # Torn /\ NoLock \notin LockState /\ Torn \notin LockState

_readLock == IF lock = Torn THEN NoLock ELSE lock

PCs == {"idle", "acquire", "roadmap", "step", "ready", "running", "record", "judge",
        "ask", "rerunning", "rerecord", "phase", "release", "done", "crashed"}
Live == PCs \ {"idle", "done", "crashed"}
Running(s) == job[s].pc \in Live

Job == [pc : PCs, start : Nat, resumed : Sessions \cup {None},
        todo : SUBSET Nat, phase : Nat, step : 1..(Len(PIPELINE_STEPS) + 1),
        out : {"none", "ok", "fail", "timeout", "throw"},
        phaseFailed : BOOLEAN, aborted : BOOLEAN, completed : Nat, failed : Nat,
        tried : SUBSET Nat, finished : SUBSET Nat, passed : SUBSET StepNames,
        seen : SUBSET Nat]
NoJob == [pc |-> "idle", start |-> 0, resumed |-> None, todo |-> {}, phase |-> 0,
          step |-> 1, out |-> "none", phaseFailed |-> FALSE, aborted |-> FALSE,
          completed |-> 0, failed |-> 0, tried |-> {}, finished |-> {}, passed |-> {},
          seen |-> {}]

StepOf(j) == PIPELINE_STEPS[j.step]
isPidAlive(s) == Running(s)

-----------------------------------------------------------------------------
(* The stuck detector. *)

Tail_(h, n) == SubSeq(h, Len(h) - n + 1, Len(h))
AllFailed(h) == \A i \in DOMAIN h : ~h[i].success

\* Mutant: the window is the whole history.
consecutiveFailures_window(h) ==
    /\ Len(h) >= HistoryLimit
    /\ AllFailed(h) /\ \A i \in DOMAIN h : h[i].step = h[1].step

consecutiveFailures(h) ==
    /\ Len(h) >= MaxConsecutive
    /\ LET t == Tail_(h, MaxConsecutive)
       IN  AllFailed(t) /\ \A i \in DOMAIN t : t[i].step = t[1].step

oscillation(h) ==
    /\ Len(h) >= 4
    /\ LET t == Tail_(h, 4)
       IN  /\ AllFailed(t)
           /\ t[1].step # t[2].step
           /\ t[1].step = t[3].step
           /\ t[2].step = t[4].step

analyze(h) == consecutiveFailures(h) \/ oscillation(h)

-----------------------------------------------------------------------------
Init ==
    /\ roadmap \in {InitialRoadmap, <<>>}
    /\ lock = NoLock
    /\ written = {}
    /\ job = [s \in Sessions |-> NoJob]
    /\ late = {}
    /\ count = [edits |-> 0, timeouts |-> 0, crashes |-> 0]

world == <<roadmap, written, late, count>>

Go(s, pc) == job' = [job EXCEPT ![s].pc = pc]

(***************************************************************************)
(* The phase to start from: --from, else STATE.md's, else 1.  The lock of  *)
(* a dead process moves it to the interrupted phase, unless --from named   *)
(* another one than STATE.md's.                                            *)
(***************************************************************************)
Start(s) ==
    /\ job[s].pc = "idle"
    /\ Overlap \/ \A t \in Sessions : ~Running(t)
    /\ \E from \in FromArgs, state \in StatePhases, noResume \in BOOLEAN :
          LET statePhase == IF state = None THEN 100 ELSE state
              start      == IF from = None THEN statePhase ELSE from
              found      == _readLock
              crashed    == /\ ~noResume
                            /\ found # NoLock
                            /\ ~isPidAlive(found.pid)
                            /\ start = statePhase
          IN  /\ job' = [job EXCEPT
                    ![s].pc = "acquire",
                    ![s].start = IF crashed THEN found.phase ELSE start,
                    ![s].resumed = IF crashed THEN found.pid ELSE None]
              /\ lock' = IF noResume THEN NoLock ELSE lock
    /\ UNCHANGED world

\* Whatever lock is there is overwritten.
Acquire(s) ==
    /\ job[s].pc = "acquire"
    /\ lock' = [pid |-> s, phase |-> job[s].start, step |-> "init", history |-> <<>>]
    /\ Go(s, "roadmap")
    /\ UNCHANGED world

\* What is left to do once the head of the list is taken.
NextPhase(j, todo) ==
    IF todo = {} THEN [j EXCEPT !.pc = "release", !.todo = {}]
    ELSE LET n == Min(todo)
         IN  [j EXCEPT !.pc = "step", !.todo = todo \ {n}, !.phase = n, !.step = 1,
                       !.phaseFailed = FALSE, !.passed = {},
                       !.tried = @ \cup {n}]

ReadRoadmap(s) ==
    /\ job[s].pc = "roadmap"
    /\ LET todo == remainingFrom(roadmap, job[s].start)
       IN  job' = [job EXCEPT ![s] = [NextPhase(@, todo) EXCEPT !.seen = todo]]
    /\ UNCHANGED <<lock, world>>

PassStep(j) ==
    [j EXCEPT !.pc = "step", !.step = @ + 1, !.passed = @ \cup {StepOf(j)}]

\* discuss and plan are passed over when their artifact is there.
SkipStep(s) ==
    /\ job[s].pc = "step"
    /\ job[s].step <= Len(PIPELINE_STEPS)
    /\ <<job[s].phase, StepOf(job[s])>> \in written
    /\ job' = [job EXCEPT ![s] = PassStep(@)]
    /\ UNCHANGED <<lock, world>>

updateStep(s) ==
    IF _readLock = NoLock
    THEN [pid |-> s, phase |-> job[s].phase, step |-> StepOf(job[s]), history |-> <<>>]
    ELSE [_readLock EXCEPT !.phase = job[s].phase, !.step = StepOf(job[s])]

EnterStep(s) ==
    /\ job[s].pc = "step"
    /\ job[s].step <= Len(PIPELINE_STEPS)
    /\ <<job[s].phase, StepOf(job[s])>> \notin written
    /\ lock' = updateStep(s)
    /\ Go(s, "ready")
    /\ UNCHANGED world

\* A red context zone aborts before the step is dispatched.
AbortBeforeStep(s) ==
    /\ job[s].pc = "ready"
    /\ job' = [job EXCEPT ![s].pc = "phase", ![s].aborted = TRUE]
    /\ UNCHANGED <<lock, world>>

Dispatch(s) ==
    /\ job[s].pc = "ready"
    /\ Go(s, "running")
    /\ UNCHANGED <<lock, world>>

\* A skill that ends leaves its artifact when it succeeds, and may when it fails.
SkillEnds(phase, step, success) ==
    \/ /\ step \in Skippable
       /\ written' = written \cup {<<phase, step>>}
    \/ /\ ~(step \in Skippable /\ success)
       /\ UNCHANGED written

Waiting(s) == job[s].pc \in {"running", "rerunning"}
AfterWait(s) == IF job[s].pc = "running" THEN "record" ELSE "rerecord"

StepEnds(s) ==
    /\ Waiting(s)
    /\ \E success \in BOOLEAN :
          /\ SkillEnds(job[s].phase, StepOf(job[s]), success)
          /\ job' = [job EXCEPT ![s].pc = AfterWait(s),
                                ![s].out = IF success THEN "ok" ELSE "fail"]
    /\ UNCHANGED <<roadmap, lock, late, count>>

StepTimesOut(s) ==
    /\ Waiting(s)
    /\ count.timeouts < MaxTimeouts
    /\ count' = [count EXCEPT !.timeouts = @ + 1]
    /\ late' = late \cup {[by |-> s, phase |-> job[s].phase, step |-> StepOf(job[s])]}
    /\ job' = [job EXCEPT ![s].pc = AfterWait(s), ![s].out = "timeout"]
    /\ UNCHANGED <<roadmap, lock, written>>

\* ctx.run rejects: the finally block releases the lock and the run rejects.
StepThrows(s) ==
    /\ Waiting(s)
    /\ job' = [job EXCEPT ![s].pc = "release", ![s].out = "throw"]
    /\ UNCHANGED <<lock, world>>

LateStepEnds ==
    /\ \E l \in late, success \in BOOLEAN :
          /\ SkillEnds(l.phase, l.step, success)
          /\ late' = late \ {l}
    /\ UNCHANGED <<roadmap, lock, job, count>>

\* Mutant: one entry more than the limit is kept.
recent_oneMore(h) == IF Len(h) > HistoryLimit + 1 THEN Tail_(h, HistoryLimit + 1) ELSE h

recent(h) == IF Len(h) > HistoryLimit THEN Tail_(h, HistoryLimit) ELSE h

recordInvocation(s) ==
    LET entry == [step |-> StepOf(job[s]), success |-> job[s].out = "ok",
                  timedOut |-> job[s].out = "timeout"]
        base  == IF _readLock = NoLock
                 THEN [pid |-> s, phase |-> 0, step |-> "unknown", history |-> <<>>]
                 ELSE _readLock
    IN  [base EXCEPT !.history = recent(Append(base.history, entry))]

RecordStep(s) ==
    /\ job[s].pc = "record"
    /\ lock' = recordInvocation(s)
    /\ Go(s, "judge")
    /\ UNCHANGED world

FailPhase(j) == [j EXCEPT !.pc = "phase", !.phaseFailed = TRUE]

\* Mutant: a timed-out step may be retried like any failed one.
Judge_asksOnTimeout(s) ==
    /\ job[s].pc = "judge"
    /\ job' = [job EXCEPT ![s] = IF @.out = "ok" THEN PassStep(@) ELSE [@ EXCEPT !.pc = "ask"]]
    /\ UNCHANGED <<lock, world>>

\* A timeout fails the phase before anything else is looked at.
Judge(s) ==
    /\ job[s].pc = "judge"
    /\ LET history == IF _readLock = NoLock THEN <<>> ELSE _readLock.history
       IN  job' = [job EXCEPT ![s] =
                CASE @.out = "timeout" -> FailPhase(@)
                  [] @.out # "timeout" /\ analyze(history) ->
                        [@ EXCEPT !.pc = "phase", !.aborted = TRUE]
                  [] @.out = "fail" /\ ~analyze(history) -> [@ EXCEPT !.pc = "ask"]
                  [] @.out = "ok" /\ ~analyze(history) -> PassStep(@)]
    /\ UNCHANGED <<lock, world>>

\* The user's answer: retry the step, skip the phase or abort the pipeline.
Retry(s) ==
    /\ job[s].pc = "ask"
    /\ Go(s, "rerunning")
    /\ UNCHANGED <<lock, world>>

\* Mutant: only the step is skipped.
SkipPhase_stepOnly(s) ==
    /\ job[s].pc = "ask"
    /\ job' = [job EXCEPT ![s].pc = "step", ![s].step = @ + 1]
    /\ UNCHANGED <<lock, world>>

SkipPhase(s) ==
    /\ job[s].pc = "ask"
    /\ job' = [job EXCEPT ![s] = FailPhase(@)]
    /\ UNCHANGED <<lock, world>>

Abort(s) ==
    /\ job[s].pc = "ask"
    /\ job' = [job EXCEPT ![s].pc = "phase", ![s].aborted = TRUE]
    /\ UNCHANGED <<lock, world>>

\* A retry is recorded and not judged.
RecordRetry(s) ==
    /\ job[s].pc = "rerecord"
    /\ lock' = recordInvocation(s)
    /\ job' = [job EXCEPT ![s] = IF @.out = "ok" THEN PassStep(@) ELSE FailPhase(@)]
    /\ UNCHANGED world

\* Mutants: the roadmap is not read again; it is read from the top.
replan_never(j) == j.todo
replan_fromTheTop(j) ==
    LET fresh == remainingFrom(roadmap, 0) \ {j.phase}
    IN  IF Cardinality(fresh) # Cardinality(j.todo) THEN fresh ELSE j.todo

\* The numbers the replan keeps when the phase completed.
replan(j) ==
    LET fresh == remainingFrom(roadmap, j.phase + 100)
    IN  IF Cardinality(fresh) # Cardinality(j.todo) THEN fresh ELSE j.todo

CompletePhase(j) ==
    [NextPhase(j, replan(j)) EXCEPT
        !.completed = @ + 1,
        !.finished = @ \cup {j.phase},
        !.seen = remainingFrom(roadmap, j.start)]

GiveUpPhase(j) == [NextPhase(j, j.todo) EXCEPT !.failed = @ + 1]

EndPhase(s) ==
    /\ \/ job[s].pc = "phase"
       \/ job[s].pc = "step" /\ job[s].step > Len(PIPELINE_STEPS)
    /\ job' = [job EXCEPT ![s] =
            IF @.aborted THEN [@ EXCEPT !.pc = "release"]
            ELSE IF @.phaseFailed THEN GiveUpPhase(@)
            ELSE CompletePhase(@)]
    /\ UNCHANGED <<lock, world>>

\* The locals of a process go with it; of one that crashed, what it had left is
\* remembered for the properties.
Gone(pc, j) == [NoJob EXCEPT !.pc = pc, !.todo = j.todo \cup ({j.phase} \ (j.finished \cup {0}))]

\* Mutant: the lock outlives the run.
Release_keepsLock(s) ==
    /\ job[s].pc = "release"
    /\ job' = [job EXCEPT ![s] = Gone("done", NoJob)]
    /\ UNCHANGED <<lock, world>>

Release(s) ==
    /\ job[s].pc = "release"
    /\ lock' = NoLock
    /\ job' = [job EXCEPT ![s] = Gone("done", NoJob)]
    /\ UNCHANGED world

-----------------------------------------------------------------------------
(* The process dies, with the steps it was running. *)
Crash(s) ==
    /\ Running(s)
    /\ count.crashes < MaxCrashes
    /\ count' = [count EXCEPT !.crashes = @ + 1]
    /\ \/ UNCHANGED lock
       \/ /\ job[s].pc \in {"acquire", "step", "record", "rerecord"}
          /\ lock' = Torn
    /\ job' = [job EXCEPT ![s] = Gone("crashed", @)]
    /\ late' = {l \in late : l.by # s}
    /\ UNCHANGED <<roadmap, written>>

\* Others edit the roadmap: a phase is added, inserted or ticked off.
EditRoadmap ==
    /\ count.edits < MaxEdits
    /\ count' = [count EXCEPT !.edits = @ + 1]
    /\ LET id == Len(InitialRoadmap) + count'.edits
       IN  \/ roadmap' = addPhase(roadmap, id)
          \/ \E after \in InsertAfter : roadmap' = insertPhase(roadmap, id, after)
          \/ \E i \in DOMAIN roadmap :
                /\ ~roadmap[i].done
                /\ roadmap' = [roadmap EXCEPT ![i].done = TRUE]
    /\ UNCHANGED <<lock, written, job, late>>

SessionStep(s) ==
    \/ Acquire(s) \/ ReadRoadmap(s) \/ SkipStep(s) \/ EnterStep(s)
    \/ AbortBeforeStep(s) \/ Dispatch(s)
    \/ StepEnds(s) \/ StepTimesOut(s) \/ StepThrows(s)
    \/ RecordStep(s) \/ Judge(s) \/ Retry(s) \/ SkipPhase(s) \/ Abort(s)
    \/ RecordRetry(s) \/ EndPhase(s) \/ Release(s)

Next ==
    \/ \E s \in Sessions : Start(s) \/ SessionStep(s) \/ Crash(s)
    \/ LateStepEnds
    \/ EditRoadmap

Spec == Init /\ [][Next]_vars

-----------------------------------------------------------------------------
TypeOK ==
    /\ roadmap \in Seq(Phase)
    /\ lock \in LockState \cup {NoLock, Torn}
    /\ written \in SUBSET (Nat \X Skippable)
    /\ job \in [Sessions -> Job]
    /\ late \in SUBSET [by : Sessions, phase : Nat, step : StepNames]
    /\ count \in [edits : 0..MaxEdits, timeouts : 0..MaxTimeouts, crashes : 0..MaxCrashes]

(***************************************************************************)
(* A phase counts as completed only when every step of the pipeline        *)
(* succeeded in this session or was passed over for its artifact; the lint *)
(* gate, execute and verify cannot be passed over.  Retries, skips,        *)
(* timeouts, replans and what an earlier session left on disk all meet     *)
(* here (auto.skill.ts, "Agent CANNOT skip this").                         *)
(***************************************************************************)
CompletedMeansEveryStep ==
    [][\A s \in Sessions :
         job'[s].completed > job[s].completed =>
             /\ job[s].passed = StepNames
             /\ job'[s].finished = job[s].finished \cup {job[s].phase}
             /\ job[s].phase \notin job[s].finished]_vars

(***************************************************************************)
(* A session takes the phases in ascending order and none twice, however   *)
(* the list is replaced after a phase.                                     *)
(***************************************************************************)
PhasesAscend ==
    [][\A s \in Sessions :
         job'[s].tried # job[s].tried =>
             \A n \in job'[s].tried \ job[s].tried, m \in job[s].tried : m < n]_vars

(***************************************************************************)
(* The hard timeout leaves the step running.  No session dispatches a step *)
(* that its own earlier timeout left running for the same phase: a timeout *)
(* is never retried, and a replan never comes back to the phase.  Another  *)
(* session may: a late step outlives the release of the lock, and a later  *)
(* session can run the same step of the phase beside it.                   *)
(***************************************************************************)
NoStepRacesItself ==
    \A s \in Sessions, l \in late :
        (l.by = s /\ Waiting(s)) => l.phase < job[s].phase

(***************************************************************************)
(* The same step failing over and over stops the pipeline.  The detector's *)
(* threshold can be passed by one failure, a retry that is not judged, and *)
(* by timeouts, which are not judged either; not by more.                  *)
(***************************************************************************)
FailureStreakIsBounded ==
    \A s \in Sessions :
        (Waiting(s) /\ lock \in LockState /\ lock.pid = s /\ Len(lock.history) > MaxConsecutive)
            => LET t == Tail_(lock.history, MaxConsecutive + 1)
               IN  ~(/\ AllFailed(t)
                     /\ \A i \in DOMAIN t : t[i].step = t[1].step /\ ~t[i].timedOut)

(***************************************************************************)
(* A session that resumes after a crash tries, or still has on its list,   *)
(* every phase the dead session had not come to the end of and that is     *)
(* open, whatever it failed, skipped or replanned since.                   *)
(***************************************************************************)
ResumeCoversTheInterrupted ==
    \A s, d \in Sessions :
        (job[s].resumed = d /\ job[s].pc \in Live \ {"acquire", "roadmap"})
            => \A n \in job[d].todo :
                  n \in remainingFrom(roadmap, 0) => n \in job[s].tried \cup job[s].todo

(***************************************************************************)
(* A lock on disk means a live session or a crash: every way out of a run  *)
(* that is not a crash removes it, and while a session goes through its    *)
(* steps the lock is its own and parses (OPS-01).  Sessions that overlap   *)
(* break this, so it is stated for runs without overlap.                   *)
(***************************************************************************)
LockMeansLiveOrCrashed ==
    ~Overlap =>
        /\ lock # NoLock => \E s \in Sessions : Running(s) \/ job[s].pc = "crashed"
        /\ \A s \in Sessions :
              (Running(s) /\ job[s].pc # "acquire") =>
                  /\ lock \in LockState
                  /\ lock.pid = s
                  /\ Waiting(s) => lock.phase = job[s].phase /\ lock.step = StepOf(job[s])

(***************************************************************************)
(* A run that was not aborted and failed nothing has tried every phase     *)
(* that was open, from its start on, when it last read the roadmap: the    *)
(* adaptive replan catches "dynamically inserted phases"                   *)
(* (auto.skill.ts:500).                                                    *)
(***************************************************************************)
RoadmapIsFinished ==
    \A s \in Sessions :
        (/\ job[s].pc = "release"
         /\ job[s].completed > 0
         /\ job[s].failed = 0
         /\ ~job[s].aborted
         /\ job[s].out # "throw")
            => job[s].seen \subseteq job[s].tried

=============================================================================
