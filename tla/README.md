# Verification of the SUNCO harness

TLA+ specifications, TLC model-checking runs and TLAPS proofs about the SUNCO
harness (`src/packages/*`). Everything below refers to the source at one commit;
`PROJECT.json` maps each definition to the lines it models.

Two parts are modelled in depth: the **proof-first runtime** (`sunco-runtime do`,
`verify`, `ship`, with the evidence store, the verifier, the edit engine and the Done
Gate), whose promise `docs/architecture/runtime-foundation.md` opens with, *no
evidence, no done*; and the **workflow skills that act on their own**: `sunco auto`,
the roadmap it runs over and the `sunco phase` commands that edit it, `sunco execute`
with its waves and worktrees, the advisor's hooks, and `sunco release`.

## 1. Inventory

### Proof-first runtime (modelled)

| Component | State it keeps | Operations | Interacts by |
|---|---|---|---|
| Runtime loop, `runtime/src/index.ts` | none on disk of its own; an in-memory task object per run | `createRuntimeTask`, `runRuntimeLoop`, `getRuntimeStatus` | awaits every other component in sequence |
| Done Gate, same file | none: a function of task, evidence, caller's check kinds, time | `evaluateDoneGate` | called by `do`, `verify`, `ship`, `status`, with different arguments |
| Evidence store, `evidence/src/index.ts` | `task.json`, `evidence.json`, `decisions.jsonl` per task id | create, read, write, `updateEvidence` (read, then write), append | files shared by all processes, replaced by rename, never locked |
| Verifier, `verifier/src/index.ts` | none; results merge into `evidence.json` | `selectJsChecks`, `runVerifier`, `mergeChecks` | reads `package.json`, spawns shells |
| Edit engine, `edit-engine/src/index.ts` | none; one transaction into `evidence.json` | `createEditTransaction` (status, hashes, two patches) | four looks at git, one after the other |
| CLI, `cli/src/runtime-cli.ts` | none | `do`, `verify`, `ship`, `status` | one operating-system process per command |

Hard here: each awaited call is a point where another process, the user, git or a
crash may come between; objects are read early and written back late; two files
hold one truth; the gate has two callers' views of which checks are required;
check ids depend on the list they ran in; no check has a timeout.

What makes it correct: a task marked done or shipped has evidence, belonging to
the run that set its goal; nothing is shipped that was not done; the verdict is
the gate's, both ways; every run gets a verdict; a record never mixes two runs.

### Workflow skills and hooks (modelled)

| Component | State | Operations | Hard behaviour | What makes it correct | Module |
|---|---|---|---|---|---|
| Roadmap and phases: `phase.skill.ts`, `roadmap-parser.ts`, `roadmap-writer.ts`, `phase-reader.ts` | `ROADMAP.md`, the phase directories | add, insert, remove, find a directory | read, rewrite whole, mkdir, with no lock; decimals; renumbering | a number names one phase; edits keep the order; a phase is found in its own directory | `RoadmapFile`, `PhaseCommands` |
| Auto pipeline: `auto.skill.ts`, `auto-lock.ts`, `stuck-detector.ts` | lock file with invocation history, artifacts, locals | start or resume, dispatch with a hard timeout, judge, ask, retry, skip, abort, replan | crash and resume, a timed-out skill that goes on, a roadmap edited under the loop, a lock that is overwritten | what counts as completed ran every step; phases ascend; no session races a step it timed out of; failure streaks are bounded; resumption loses no phase | `AutoPipeline` |
| Plan execution: `execute.skill.ts`, `worktree-manager.ts` | base branch, worktrees, counters | waves, checkpoints, parallel agents, cherry-picks, cleanup | a sibling fails, git refuses, a run dies, a pick conflicts | agents are isolated; what lands lands once and in wave order; nothing is left behind; runs end | `ExecuteWaves` |
| Advisor hooks: `sunco-advisor-postaction.cjs`, `-ambient.cjs` | queue file, budget file | enqueue, expire, cap, promote, show | two processes over two files written in place, torn files | one active item per id; oldest first; the cap spares what is pending; shown once and within the budget | `AdvisorQueue` |
| Release: `release.skill.ts`, `gates.ts`, what it uses of `verify.skill.ts` | version, commits, tags, npm, remote | bump, commit, tag, gate, verify, publish, push | the verification is fresh and comes after the tag | a blocked release was blocked by something | `ReleasePipeline` |

They interact through files. `PhaseCommands` and `AutoPipeline` share `ROADMAP.md`, and
so share the operators of `RoadmapFile`: auto's environment adds and inserts phases
with the very operators the commands use. `auto` runs `execute` and `verify` as steps;
for it a step is how it ends and what it leaves in the phase's directory, and
`ExecuteWaves` models the inside of one of them.

### Other components

| Component | Hard behaviour | Status |
|---|---|---|
| Active work: `active-work.ts` | lost updates, defaults over an unreadable file | next in the plan |
| Ship: `ship.skill.ts`, `gates.ts` | a push that fails and is reported as done | later in the plan |
| Budget guard: `budget-guard.ts` | none: it compares the ceiling with a total nobody records | not modelled |
| Router references: `cli/references/router/src/*.mjs` | names at second granularity, two writes | later |
| Pause, resume and session recording | several files, one of them written last | later |
| State engine, agent router, skill registry and lifecycle, config, recommender, UI | little concurrency of their own; mostly maps, merges and rendering | not modelled |
| Verification layers, planning, discussion, debug and milestone skills, analysers, installer | prompts, file I/O and the agent's judgement | not modelled |

## 2. Modules

| Module | Models | Kind |
|---|---|---|
| `DoneGate` | the gate and the merge of results, as predicates and sets | pure operators |
| `ProofRuntime` | all commands, the store, the verifier, the edit engine, crashes, the working tree | detailed specification |
| `TaskContract` | what the runtime promises about a task: lifecycle and verdicts | abstract specification |
| `RoadmapFile` | the roadmap's phases, numbering, add, insert, remove, what is left to run | pure operators |
| `PhaseCommands` | overlapping `sunco phase` commands and the phase directories | specification |
| `AutoPipeline` | auto sessions with lock, stuck detector, timeouts, crashes, replans | specification |
| `ExecuteWaves` | runs of one phase: checkpoints, worktrees, agents, cherry-picks, cleanup | specification |
| `AdvisorQueue` | the two hooks over the queue and the budget file | specification |
| `ReleasePipeline` | one release after another, with edits in between | specification |
| `MC*` | the instances for TLC: small roadmaps, plans, symmetry | models |
| `ProofRuntime_proofs`, `PhaseCommands_proofs`, `AutoPipeline_proofs`, `ExecuteWaves_proofs`, `AdvisorQueue_proofs` | theorems about the five specifications | proofs |
| `AutoAlone_proofs` | further theorems about `AutoPipeline`: sessions in turn, roadmaps without decimals | proofs |
| `RoadmapFile_proofs` | what the roadmap's operators do to each entry; used by the proofs about phases and auto | lemmas |
| `Extrema` | least and greatest of a set of numbers, shared by the proofs | lemmas |

### How `ProofRuntime` corresponds to the code

A process `p` runs one command. `cmd[p]` and `tid[p]` say which and on which task,
`mine[p]` is the task object in its memory, `draft[p]` the edit transaction being
assembled, `selected`, `todo` and `results` the verifier's local lists and `snap[p]`
the record read by `updateEvidence`. `task`, `evidence` and `decisions` are the
files, `head`, `tree` and `scripts` the repository around them. `pc[p]` names the
next awaited call. Each action is one such call with all it changes:

| Command | Actions in order |
|---|---|
| `do` | `DoCreate`, `WriteBlankEvidence`, `LogCreated`, `BeginExecuting`, `ObserveChanges`, `DetectStale`, `DiffForward`, `DiffRollback`, `ReadForEdit`, `WriteEdit`, `BeginVerifying`, `SelectChecks`, `RunCheck` (each check), `ReadForMerge`, `WriteMerge`, `EvaluateGate`, `MarkTask`, `LogVerdict` |
| `verify` | `VerifyStart`, `SelectChecks`, `RunCheck`, `ReadForMerge`, `WriteMerge`, `EvaluateGate`, `MarkTask` |
| `ship` | `ShipStart`, `ShipGate`, `ShipWrite` |

`Crash(p)` ends a command anywhere: the process is killed, or an awaited call
rejects and `main` with it. `EditFile`, `CommitFile` and `ChangeScripts` are the
user, or an agent, at work between any two steps.

`Overlap` is the set of commands that may share a task with another command. The
code has no lock, so the set describes how the tool is used: `{}` is one command
per task at a time, `{"verify", "ship"}` lets a CI job verify and ship while
another does, and all three is no discipline at all. Tasks with different ids share
no task file and never exclude one another.

### How the workflow modules correspond to the code

| Module | State and actions |
|---|---|
| `PhaseCommands` | `edit[c]` holds what command `c` read and will write. `ReadToAdd`, `ReadToInsert`, `ReadToRemove` read and compute, `WriteRoadmap` replaces the file, `MakeDirectory` is the mkdir after it; `Progress` is work on a phase. |
| `AutoPipeline` | `job[s]` is `execute()`'s locals, `pc` its next await. `Start` (arguments, STATE.md, crash check), `Acquire`, `ReadRoadmap`; per step `SkipStep`, `EnterStep`, `AbortBeforeStep`, `Dispatch`, then `StepEnds`, `StepTimesOut` or `StepThrows`, `RecordStep`, `Judge`; the user's `Retry`, `SkipPhase`, `Abort`, and `RecordRetry`; `EndPhase` with the replan; `Release`. A step that outlived its timeout lives in `late` until `LateStepEnds`. `Crash` and `EditRoadmap` are the world. |
| `ExecuteWaves` | `run` is the locals of the run, `worktrees` the directories with the commits in them, `main` the base branch. `Start`, `Checkpoint`, `CheckpointsDone`, `CreateWorktree` or `CreateFails`, `Dispatch`, `AgentCommits`, `AgentEnds`, `AllEnded`, `BeginPick`, `PickCommit`, `PickFails`, `PickEnds`, `WavePicked`, `AskFailures`, `RemoveWorktree`, `End`, and `Crash`. |
| `AdvisorQueue` | `job[h]` is a hook process. `PostAction` and `Ambient` read the queue and compute the new one; `EmptyQueueFile`, `FillQueueFile` and the same for the budget are the two halves of `writeFileSync` (`filled`: a second writer may leave a mixed file); `CheckBudget`, `ClassifyPrompt`, `WriteToPrompt` are the rest of the ambient hook. |
| `ReleasePipeline` | `run` is the locals of `execute()`: `updateAllVersions`, `CommitRelease`, `Tag`, `ArtifactGate`, `FreshVerify`, `Publish`, `Push`; `Edit` and `CommitTree` are the user. |

### Abstractions

Of the proof-first runtime:

- Order of checks, edits and approvals is not read by anything: they are sets.
- A check is its kind, its position, its status and `required`; logs, artifacts,
  durations and wording are left out.
- A transaction keeps the set of changed files; the hashes are compared when they are
  taken. Patches are kept as "is it empty". Index, renames and modes are left out.
- `clock` numbers the `do` runs and stands for `createdAt` and the transaction id.
  Two runs within one millisecond are left out.
- Reads see whole writes (the code renames a temporary file into place).
- `status` only reads.
- Nothing in `src` records an approval or an unresolved failure, so no action
  does. The gate's conditions on them are modelled and, about approvals, proved.

Of the workflow modules, beyond what each module's header says:

- In the runs phase numbers stay below 10, so `3.1` and `3.10`, which the code compares as
  the same number, never meet; the theorem about numbers says so (`shortMinors`).
- The sort of `enforceCap` is stated by places: `ahead` counts the items that go before
  one, items that compare equal in the order they have, and `sortedSlice` picks by it.
- Model tiers, routing records, progress bars and the pause and debug skills `auto` runs
  for their reports are left out. `skippedPhases` and `failedPhases` change together in
  the code and are one counter.
- The budget guard is left out. `auto` compares the ceiling with `usage.totalCostUsd`,
  which no code under `src` writes: the total read is always 0, a ceiling above 0 never
  stops a run, and nothing bounds what a run spends. A ceiling of 0 aborts before the
  first step, as a red context zone does (`AbortBeforeStep`).
- An agent is what it commits and how it ends. It is assumed to commit in its worktree,
  where its prompt sends it (`execute.skill.ts:87-94`); the process it runs in has the
  base repository as its directory (`router.ts:98-99`), and an agent that ignores the
  prompt is not modelled.
- A cherry-pick conflicts at random, and git may refuse it, or the log before it, and
  leave nothing behind.
- `ROADMAP.md` is written at once. `writeFile` empties the file and fills it in place, so
  a command that reads in between sees a part of it; that is left out.
- `removePhase` looks a progress row up by the number and a dot, which the row of a
  decimal phase has too: for phase 1 it may find the row of 1.1, refuse on its plans or
  remove it. Rows are part of their phase here, and this is left out.
- A post-action hook queues two items at most; one for a `MultiEdit` may queue more.

## 3. Properties and runs

| Run | Result | Questions |
|---|---|---|
| `seq` | passes | `TypeOK`, `MarkedOnlyWhenProven`, `ShipFromDone`, `EveryRunGetsVerdict`, `ImplementsContract` |
| `verifiers` | passes | `DoneHasProof`, `EvidenceCoherent`, `ProofBelongsToRunUnlessCrashed` |
| `overlap` | violated | `DoneHasProof` with two overlapping `do` commands |
| `crash` | violated | `ProofBelongsToRun` without the exception for crashes |
| `stalecheck` | violated | `GreenRunClearsFailures` |
| `edits` | passes | `TypeOK`, `NumbersIdentify`, `EditsKeepOrder`, `IntegerPhasesFindTheirDirectory` |
| `auto` | passes | `TypeOK`, `CompletedMeansEveryStep`, `PhasesAscend`, `NoStepRacesItself`, `FailureStreakIsBounded`, `ResumeCoversTheInterrupted`, `LockMeansLiveOrCrashed`, `RoadmapIsFinished` |
| `decimals` | violated | `RoadmapIsFinished` with decimal phases |
| `waves` | passes | `TypeOK`, `AgentsKeepTheirWorktree`, `PlansStartFromEarlierWaves`, `OnlySuccessLandsOnce`, `EndedRunsLeaveNoWorktree`, `TotalsCountSkippedTwice`, `RunsEnd` |
| `lost` | violated | `CompletedPlansLand` |
| `advisor` | passes | `TypeOK`, `ActiveItemsAreDistinct`, `OldestPendingFirst`, `CapDropsFinishedFirst`, `SurfacedItemsWereShown`, `NoiseStaysWithinBudget` |
| `release` | violated | `BlockedReleaseHasFindings` |

Of the proof-first runtime:

- **`DoneHasProof`**: a task marked done or shipped has a required result on record
  and, for a mutation risk, sound edit evidence with a changed file. It speaks of the
  disk at every moment, not of the moment of the verdict: later merges, resets and
  write-backs must not take the proof away. It does not say that the results are
  green: a `verify` that has merged red results and not yet written its verdict makes
  that false for a while, and a crash there makes it false for good.
- **`MarkedOnlyWhenProven`**: at the very step that writes done or shipped, the record
  on disk, not the one read earlier, is complete and green. One command at a time.
- **`ShipFromDone`**: `ship` never asks for the task's status, yet only tasks marked
  done are shipped, because the gate gives `ship` the verdict it gave `do` or
  `verify`. A crash between merging and marking breaks this: the evidence is complete,
  the task still says verifying, and `ship` takes it. Hence `crashes = 0`.
- **`EvidenceCoherent`**: the unlocked read-modify-write never leaves two results of
  one check id, or edits of two runs, in one record.
- **`ProofBelongsToRunUnlessCrashed`**: evidence under a marked task is that of the
  run that set its goal and risk.
- **`EveryRunGetsVerdict`**: a started `do` ends with its verdict in `decisions.jsonl`.
- **`ImplementsContract`**: `ProofRuntime` implements `TaskContract` with the status
  read from `task.json` and the proof bit "would the gate pass on what is recorded",
  which is what `sunco-runtime status` computes. A blocked verdict on a task whose
  proof is there is as much a violation as a false done. Crashes are included: they
  stutter.

`TaskContract` is weaker than the lifecycle diagram of
`runtime-foundation.md` section 5 in three places, all of them what the code does:
`verify` gives a verdict in any status, `ship` is allowed in any status whose proof is
there, and `do` may be given an existing id and starts over. `planned` and
`approved` are never written.

Of the workflow skills (each property's comment names the code it is about):

- **`NumbersIdentify`**, **`EditsKeepOrder`**, **`IntegerPhasesFindTheirDirectory`**: a
  number is what every other skill looks a phase up by, so two commands that overwrite
  each other may lose an edit and never make two phases of one number. Two exceptions are
  stated because the code has them: removing an integer phase moves the integers and not
  the decimals inserted before them, and leaves all directories as they were.
- **`CompletedMeansEveryStep`**, **`PhasesAscend`**: retries, skips, timeouts, replans
  and artifacts of earlier sessions all meet in the loop; these say what they add up to.
- **`NoStepRacesItself`**: a session dispatches no step of a phase in which a step it
  timed out of still runs. It is about a session's own late steps. A late step outlives
  the lock, too: `cli.ts` does not end the process when a skill has returned, so a later
  session finds no lock and may dispatch the same step of the same phase beside it. The
  model has these behaviours, and no property excludes them.
- **`FailureStreakIsBounded`**: retries and timeouts are recorded and not judged, so the
  stuck detector's threshold can be passed, by one failure and no more.
- **`ResumeCoversTheInterrupted`**: a session that takes over from a dead one tries, or
  has on its list, every open phase the dead one had not come to the end of.
- **`LockMeansLiveOrCrashed`**: every way out but a crash removes the lock. It says so
  for sessions that do not overlap: `acquire` writes over any lock and `release` unlinks
  whatever lock is there, so nothing of the kind holds for sessions that do.
- **`AgentsKeepTheirWorktree`**, **`PlansStartFromEarlierWaves`**: isolation inside a
  wave, visibility between waves, whoever fails and however the run ends: nobody takes
  away, or uses again, the worktree an agent was sent to. That the agent stays in it is
  assumed (section 2).
- **`OnlySuccessLandsOnce`**: in wave order; the order of one plan's commits is not
  claimed (with `symmetric` the list is newest first).
- **`EndedRunsLeaveNoWorktree`**: but for those git refuses to remove. A crash leaves its
  worktrees and branches, and every later run fails to make a worktree for these plans
  until they are removed by hand (`CleanUpByHand`).
- **`TotalsCountSkippedTwice`**: a plan skipped at its checkpoint is counted failed and
  dispatched all the same; this pins the totals to exactly that.
- **`CapDropsFinishedFirst`**, **`OldestPendingFirst`**, **`ActiveItemsAreDistinct`**:
  of every queue on disk or about to be written, whatever hooks race or die half way.
- **`SurfacedItemsWereShown`**, **`NoiseStaysWithinBudget`**: stated for hooks that do
  not race or die, for with races an update of either file may be lost.

Section 4 proves all of these but `EveryRunGetsVerdict` and `RunsEnd`, which are liveness
properties.

Met on the way, and modelled as the code has them: the directory of an inserted phase is
made as `03.1-slug` and looked for as `3.1-`, so it is never found; `--lenient` changes no
verdict of `verify`; `promoteOldestPending` takes items the expiry has not swept; the
visible count of a budget is never reset. The budget ceiling of `auto` never acts, for
the total it is compared with is never recorded.

### What the violated runs show

- `overlap`: the first `do` gates on its own evidence; a second `do` on the same id
  resets the task; the first writes `done` over it from its own object; the second
  writes its blank evidence. The task is done and has no evidence.
- `crash`: a `do` is done; a second one with the same id dies after writing the new
  goal and before resetting the evidence; `ship` gates the new goal on the old
  evidence and ships it.
- `stalecheck`: `test` is the only script and fails as `test-1`; a `typecheck` script is
  added; `verify` runs `typecheck-1` and `test-2`, both green; the failed `test-1` stays
  and the gate fails on it at every later `verify`. Removing a script moves a check the
  same way. Only a new `do` clears it. A failed check that is no longer run at all stays
  too; the property is about checks that were run again.
- `decimals`: the replan keeps phases numbered at least the current one plus one. After
  1.1 completes, 2 is dropped; a 1.1 inserted while 1 runs is not picked up. The run ends
  with "Pipeline complete" and open phases it never tried.
- `lost`: the list of commits to pick is taken from the symmetric difference of the two
  branches. After the first plan of a wave is picked, the second plan's list starts with
  commits that are on the base branch already; picking one again is empty, git fails, the
  plan's own commits are never picked, and the plan counts as completed.
- `release`: the fresh verification is called without a phase, so it prints its usage and
  fails; the release is blocked with nothing to resolve, after the commit and the tag.

### Bounds

| Bound | Value | Why it is enough |
|---|---|---|
| `MaxCommands` | 3 | a run, a second run or verify that disturbs it, and a ship: the violations above need no more than three |
| `Procs` | 1 or 2 | a race needs two; `seq` needs one, for processes on one task exclude each other there |
| `TaskIds` | 1 | tasks share nothing but the working tree, which `Environment` already changes at will |
| `Files`, `Contents` | one file, absent or with one content | the code only compares the tree with HEAD and asks whether a file is tracked; one file can be clean, changed against HEAD, and untracked, and move between these |
| `Scripts` | `typecheck`, `test` | two kinds are the least for which positions shift and a partial list exists |
| `MaxWorld`, `MaxCrashes` | 0 or 1 | one change between two steps suffices to make a snapshot stale; one death to leave a half-written pair of files |
| `Risks` | a mutation risk, and in `seq` also `read_only` | these are the two sides of the edit-evidence rule; risks that need approval are covered by a theorem |

`verifiers` keeps one mutation risk; a check that does not pass is `fail` in `seq`
(it ran and failed) and `blocked` here (it could not be spawned). It reduces by the symmetry of the processes, which is sound
there: the cfg states invariants only and nothing distinguishes processes.
Deadlock is not checked: with its commands used up and its processes idle, the model
stops as the real system does when nobody types a command.

Of the other runs:

| Run | Bounds | Why they are enough |
|---|---|---|
| `edits` | 2 commands, 2 initial phases, 4 phase ids | two commands overwrite each other; four ids give an added phase, an inserted one and one inserted after a removal |
| `auto` | 2 sessions in turn, 1 phase and one more added or ticked, 1 timeout, 1 crash, threshold 2, history 4 | one session dies or times out in one phase and another goes on in the next; a history of 4 overflows |
| `decimals` | 1 session, phases 1, 1.1, 2, one insertion | the least roadmap with a decimal between two integers |
| `waves` | 3 plans in 2 waves, 1 commit each, 2 runs, 1 crash | two plans race in a wave, one follows them; the second run meets what the first left |
| `lost` | the same plans, 1 run, no conflicts | the second pick of a wave |
| `advisor` | 2 hooks, 3 ids, cap 2, budget 2, 4 hooks in all, clock 0..2, 1 crash | three items overflow the cap; a third remark exceeds the budget; items expire and keys are suppressed within the clock |
| `release` | 1 finding, 2 releases | the first release is enough |

Sessions of `auto` that overlap are not model-checked (the state space is out of reach at
any useful size); the theorems of `AutoPipeline_proofs`, and `RoadmapFinished`, cover
them. Decimal phases are inserted in
`decimals` only.

### Fairness

`FairSpec` adds weak fairness on `Continue(p)`, the steps of a command that has
started: Node runs a settled promise's continuation, and file and git calls end.
Nothing is assumed of the user or the environment, and crashes may always happen. The
assumption hides one thing the code does not guarantee: `runShell` has no timeout, so
a check script that never exits keeps `do` in verifying for ever
(`CHANGELOG.md:19` speaks of a timeout).

`ExecuteWaves` has a `FairSpec` too, which `RunsEnd` needs: weak fairness on `RunStep`
(git calls settle, the user answers a prompt) and on `AgentEnds(p)` (an agent is
dispatched with a timeout). Crashes may happen, and `Start` is never owed. The other
modules state no liveness: a hook may die, and `auto` waits for its user.

## 4. Proofs

Every safety property a passing run checks is also proved, for every value of the
constants that meets the assumptions named below: any number of processes, sessions or
hooks, any roadmap and plans, any limit, and any number of crashes, timeouts and edits.
Each theorem rests on an inductive invariant. The invariants were checked by TLC on small
instances before they were proved, and each has one lemma per action (or per
group of actions that change the same things).

Assumptions on constants are `ConstantsAssumption` and `RecordsAssumption` (`None` is no
task, record or other value), `AutoAssumption` (limits are positive, bounds are numbers),
`LockAssumption` (an absent or torn lock file is no lock), `ExecuteAssumption` (no plan
is listed twice), `PhaseCommandsAssumption` (the first phases are numbered by place),
`AdvisorAssumption` and `TornAssumption` (a torn file is no queue and no budget). TLC
evaluates them in every run. Hypotheses of single theorems are given with them.

### The proof-first runtime: `ProofRuntime_proofs`

- **`TypeCorrect`**: `Spec => []TypeOK`. `TypeOK` alone is not inductive, for a step
  needs to know what the process holds at its control point: `Job(p)` says so (which
  command reaches which point; task and record in memory are there when used).
  `Typed == TypeOK /\ Job` is inductive.
- **`DoneAlwaysHasProof`**: `Spec => []DoneHasProof`, assuming
  `DoRunsAlone == Overlap \subseteq {"verify", "ship"}`. The invariant is `IInv`:
  1. `Exclusive`: commands sharing a task are ones that may overlap, so a running
     `do` has its task to itself;
  2. `Recorded`: all that is recorded is required checks, no approval, no failure;
  3. `Checked`: a verifier that merges has results, so a merge never removes the last
     required result;
  4. `Unmarked`: a `do` that has not gated works on an unmarked task, so resetting the
     evidence takes no proof away;
  5. `Agrees`: what a verifier read for its merge has the edit evidence that is still
     on disk when it writes, for verifiers replace checks only and no `do` runs;
  6. `Backed`: after a gate that passed, the disk backs the mark until it is written,
     whatever other verifiers merge in between.

  `Agrees` and `Backed` are where overlapping `do` commands would break it: `overlap`
  is the counterexample without `DoRunsAlone`.
- **`ApprovalRiskNeverMarked`**: a consequence of `IInv`: a task whose risk needs an
  approval can be created and run, and never finished.
- **`EvidenceStaysCoherent`**, **`ProofBelongsToItsRun`**: `[]EvidenceCoherent` and
  `[]ProofBelongsToRunUnlessCrashed`, both assuming `DoRunsAlone`. `CInv` adds to `IInv`
  that the snapshots and results in memory are as coherent as the records (`Coherent`,
  `Unrun`), that a command's task and what it has read are of the run on disk
  (`Current`, `Collects`), and that until a command dies a record is of its task's present
  run, except between the two writes that start one (`Dated`; `crash` shows what a death
  there does).
- **`MarkedOnlyOnProof`**, **`ShipsOnlyDone`**: `Spec => MarkedOnlyWhenProven` and
  `Spec => ShipFromDone`, assuming `VerdictsRunAlone == Overlap \subseteq {"ship"}`:
  between two `verify` commands a verdict may be written over the other's red results.
  `VInv` adds to `CInv` that every selected check is still to run, has a result or is
  recorded (`Covers`), that a verdict still holds of the disk when it is written
  (`Holds`), and that without a crash a task nobody judges is marked exactly when its
  evidence passes (`Settled`), which is why `ship` need not look.
- **`RuntimeImplementsContract`**: `Spec => ImplementsContract`, under the same
  hypothesis: initial states map to initial states, and there is one lemma per action
  that maps it to a step of `TaskContract` or to a stutter. Crashes are included.
- **`GateIgnoresCaller`**: on records as the verifier writes them the gate gives the
  same verdict to a caller that names the selected kinds and to one that names none.
- **`GateOnlyExpires`**: a gate that passes later passes now on the same record.

### Phases: `PhaseCommands_proofs`

- **`TypeCorrect`**: no hypothesis.
- **`NumbersStayDistinct`**: `Spec => [](shortMinors => NumbersIdentify)`,
  **`FoundInItsDirectory`**: `[]IntegerPhasesFindTheirDirectory`, **`OrderIsKept`**:
  `Spec => EditsKeepOrder`. All assume `DistinctStart`: the roadmap the commands start
  from has no number twice, which nothing in the code enforces on a hand-written file.
  `shortMinors` (no minor number above 9) is needed because the value of `3.10` is that
  of `3.1`; the *pair* of numbers stays distinct without it.

  `PInv` says of every version of the file, read, written or about to be written, that it
  is `Sound` (no id and no number twice): an overwritten edit is lost and leaves nothing
  inconsistent. A pending edit is the roadmap it read with one phase more or one less
  (`Pending`), and until something is removed or overwritten every directory, made or
  still owed, is that of a phase on the roadmap (`Housed`, `Promised`).

### Auto: `AutoPipeline_proofs`, `AutoAlone_proofs`

For sessions that may overlap, without hypotheses: **`TypeCorrect`**, **`NoStepRaces`**
(`[]NoStepRacesItself`, about a session's own late steps), **`CompletedIsComplete`** (`CompletedMeansEveryStep`) and
**`PhasesAscending`** (`PhasesAscend`). All rest on `InvHolds`, `Spec => []Inv`. `Inv`
adds to `TypeOK`, for each session:

1. `StepsPassed`: inside a phase, what has passed is the pipeline's steps below the
   current one (the next state is passed only by success or by an artifact);
2. `Ordered`: the list lies above the phase, what was tried not above it and what was
   finished below it (this is where the replan's lower bound is used: a replan from the
   top would break it);
3. `Stopped`: a phase that is left early was failed or aborted, so `EndPhase` counts it
   as completed only at the end of the steps;
4. `Answered`: a result that is judged is one of the three a step can give;
5. `LateInv`: a step that outlived its timeout belongs to a phase the session has left,
   or to the one it is leaving because of that timeout.

None of these mentions the lock: it decides where a session starts and when it is
stuck, and the theorems hold whatever other sessions write into it.

The other properties of `auto` are about the lock and what it remembers, and need more:

- **`LockIsLiveOrCrashed`** (the property speaks of sessions in turn) and
  **`FailureStreakBounded`** (assuming `~Overlap`): `acquire` writes over any lock and
  `release` unlinks any, so a second session takes the first one's history and lock away. `Alone` says that at most one session runs (`Single`), that a lock was left
  by a session that runs or has crashed (`Left`), that a running session owns the lock,
  which names its phase and step, and in whose history a streak beyond the threshold can
  only be one about to end the phase (`Owns`, `NoStreak`).
- **`RoadmapFinished`**: `[]RoadmapIsFinished`, assuming `IntegerPhases`, for sessions
  that overlap too. `Lists`: what is open and neither tried nor listed was added after
  everything that is. With decimals it is false: the run `decimals`.
- **`ResumeCovers`**: `[]ResumeCoversTheInterrupted`, assuming `~Overlap` and
  `IntegerPhases`. `Resumes`: a lock points at or before everything its session still
  has to do, and goes on doing so after a crash.

### Waves: `ExecuteWaves_proofs`

**`AgentsAreHoused`** (`AgentsKeepTheirWorktree`), **`EarlierWavesAreSeen`**
(`PlansStartFromEarlierWaves`), **`SuccessLandsOnce`** (`OnlySuccessLandsOnce`),
**`WorktreesAreRemoved`** (`EndedRunsLeaveNoWorktree`), **`SkippedAreCountedTwice`**
(`TotalsCountSkippedTwice`) and **`TypeCorrect`** have no hypotheses and hold whatever
order `git log` lists commits in. They follow from one invariant, `Inv`, because they lean on
each other: that a worktree forks after every earlier wave (`Forked`) needs to know what
has landed (`Landed`) and that the wave landing now has no worktree still to make
(`Housed`, `Agents`); that no commit lands twice needs that a list to be picked holds,
besides the run's own commits, only commits that are on the branch (`Todo`); that none is
left behind, that the manager knows each worktree from its creation on (`Managed`); and
the totals, the set of plans counted so far (`Counts`, with `okCounted` and
`failedCounted`).

### Advisor: `AdvisorQueue_proofs`

- **`AdvisorTypes`**, **`ActiveStayDistinct`**, **`OldestStandFirst`** and
  **`FinishedDropFirst`** (`Spec => CapDropsFinishedFirst`) rest on `QInv`, which holds
  whatever hooks race or die: every queue, on disk or about to be written, is `Good`
  (one active item per id, the pending ones in order of age, an id and an age name one
  item, the length within the cap). That the cap keeps this is a fact about the sort:
  places counted by predecessors under a strict order are a bijection (`DistinctFill`,
  `Ranks`), so a slice of the sorted queue holds each item once and in order.
- **`NoiseIsBudgeted`**, **`SurfacedWereShown`** (the properties speak of hooks that have
  not raced or died) rest on `HInv`. It describes the files as they will be once the hook
  that runs has written what it holds, with the remark it still owes and whether the
  budget has paid for it (`tale`). The budget's count is then at least the number of
  remarks shown and paid for (`quiet`), and a surfaced item was shown, is owed, or found the
  budget used up (`tells`). With a second hook there is no such file, and nothing of the
  kind holds.

### Lemmas

`RoadmapFile_proofs` says entry by entry what `add`, `insert` and `remove` leave of a
roadmap and that the new major or minor number is above those there; `Extrema` that a
set of numbers has a least element, which is also how the proofs reason by induction
(the least counterexample), and a bounded one a greatest.

### Only model-checked

`EveryRunGetsVerdict` and `RunsEnd`: liveness under fairness is out of the prover's reach.
The violated runs are counterexamples, and there is nothing to prove about them. No model
has a recursive operator, so no other definition is left to TLC alone.

## 5. Plan

Done: the proof-first runtime, then roadmap, auto, waves, advisor and release; and the
proofs of every safety property of the passing runs. Left, in this order:

1. Weaker hypotheses: what remains of `MarkedOnlyWhenProven` and of the refinement when
   `verify` commands overlap; of `RoadmapIsFinished` with decimals; of
   `FailureStreakIsBounded` with overlapping sessions.
2. `ActiveWork`: appends and patches over one file, lost updates, unreadable file.
3. `ship`: its fresh verification, its gate, and what a failed push leaves reported.

### Not modelled

The state engine, the registries, configuration, the recommender and the UI adapters keep
maps or one SQLite file and have no concurrency of their own worth a model. The
verification layers, planning, discussion, debug, milestone and prompting skills build
prompts and parse what an agent answers: their correctness is the text. The installer and
the bundled tools under `cli/bin` and `cli/references` are scripts that copy and scan
files.

## 6. Running

    tlc -workers 2 -config MCProofRuntime_seq.cfg MCProofRuntime
    tlc -workers 2 -config MCProofRuntime_verifiers.cfg MCProofRuntime
    tlc -workers 2 -config MCPhaseCommands_edits.cfg MCPhaseCommands
    tlc -workers 2 -config MCAutoPipeline_runs.cfg MCAutoPipeline
    tlc -workers 2 -config MCExecuteWaves_runs.cfg MCExecuteWaves
    tlc -workers 2 -config MCAdvisorQueue_hooks.cfg MCAdvisorQueue
    tlapm ProofRuntime_proofs.tla
    tlapm Extrema.tla
    tlapm RoadmapFile_proofs.tla
    tlapm PhaseCommands_proofs.tla
    tlapm AutoPipeline_proofs.tla
    tlapm AutoAlone_proofs.tla
    tlapm ExecuteWaves_proofs.tla
    tlapm AdvisorQueue_proofs.tla

The other runs (`overlap`, `crash`, `stalecheck`, `decimals`, `lost`, `release`) end with
a counterexample.
