---------------------------- MODULE ProofRuntime ----------------------------
(***************************************************************************)
(* The proof-first runtime: sunco-runtime do, verify and ship              *)
(* (packages/cli/src/runtime-cli.ts) over the runtime loop, the Done Gate, *)
(* the verifier, the edit engine and the evidence store.                   *)
(*                                                                         *)
(* Every command is an operating-system process.  The processes share the  *)
(* files under .sunco/tasks/<id>/ and the working tree, and nothing locks  *)
(* either: each awaited file, git or shell call is one action, and any     *)
(* other process, the user or a crash may come between two of them.        *)
(*                                                                         *)
(* Abstractions:                                                           *)
(*  - task.json and evidence.json are replaced by rename, so a read sees   *)
(*    one whole write; the .tmp files are left out.                        *)
(*  - `clock` counts the do commands and stands for the timestamps that    *)
(*    createTask and createEditTransaction take; two runs in the same      *)
(*    millisecond are left out.                                            *)
(*  - The log and patch files under checks/ and diffs/ are written and     *)
(*    never read back; only whether a patch came out empty matters.        *)
(*  - git status with its hashes is one snapshot; so is each git diff.     *)
(*    Files are modified, deleted or untracked; the index is left out.     *)
(*  - status only reads, and is left out.                                  *)
(***************************************************************************)
EXTENDS DoneGate, FiniteSets, Sequences

CONSTANTS
    Procs,          \* processes that may run a command
    TaskIds,        \* task ids on disk
    Risks,          \* risks a user passes to do
    Scripts,        \* package.json scripts the user defines or removes
    Contents,       \* contents a file may have in HEAD or the working tree
    Outcomes,       \* how a check may end
    Overlap,        \* commands that may run while another runs on that task
    MaxCommands,    \* bound: commands started
    MaxWorld,       \* bound: edits, commits and package.json changes
    MaxCrashes      \* bound: commands that die or throw half way

\* DEFAULT_CHECK_ORDER of the verifier, as ranks.
Rank == [typecheck |-> 1, test |-> 2, lint |-> 3, build |-> 4]

COMMANDS == {"do", "verify", "ship"}

ASSUME ConstantsAssumption ==
    /\ None \notin TaskIds \union Contents \union COMMANDS
    /\ Risks \subseteq RISK_LEVELS
    /\ Scripts \subseteq DOMAIN Rank
    /\ Outcomes \subseteq {"pass", "fail", "blocked"}
    /\ Overlap \subseteq COMMANDS
    /\ MaxCommands \in Nat /\ MaxWorld \in Nat /\ MaxCrashes \in Nat

VARIABLES
    task,       \* task.json of each task, None when there is none
    evidence,   \* evidence.json of each task
    decisions,  \* decisions.jsonl of each task
    head,       \* the commit HEAD points at: content of each file or None
    tree,       \* the working tree
    scripts,    \* the scripts of package.json
    pc,         \* what each process does next
    cmd,        \* the command it runs, None when idle
    tid,        \* the task it runs it on
    mine,       \* its in-memory task object
    draft,      \* the edit transaction it is assembling
    selected,   \* the check kinds it selected
    todo,       \* those it has still to run
    results,    \* the results it has so far
    snap,       \* the evidence record it read for an update
    clock,      \* do commands started
    commands,   \* commands started
    changes,    \* working tree, HEAD and package.json changes
    crashes     \* commands that died

store == <<task, evidence, decisions>>
world == <<head, tree, scripts>>
job == <<cmd, tid>>
checking == <<selected, todo, results>>
local == <<job, mine, draft, checking, snap>>
bounds == <<clock, commands, changes, crashes>>
vars == <<store, world, pc, local, bounds>>

-----------------------------------------------------------------------------
(* Records                                                                 *)

TASK_STATUSES == {"intake", "planned", "approved", "executing", "verifying",
                  "blocked", "done", "shipped"}

Task == [status : TASK_STATUSES, risk : RISK_LEVELS, createdAt : Nat]

\* A file that is not there is no record.
ASSUME RecordsAssumption == None \notin Task /\ None \notin EvidenceRecord

Decision == [type : {"created", "done_gate_passed", "done_gate_blocked"},
             run  : Nat]

\* Snapshot of detectChangedFiles and what the later git calls found.
Draft == [changed  : SUBSET Files,
          before   : [Files -> Contents \union {None}],
          stale    : SUBSET Files,
          diff     : BOOLEAN,       \* the forward patch is not empty
          rollback : BOOLEAN]

PCs == {"idle", "blank", "created", "begin", "observe", "stale", "diff",
        "rollback", "editread", "editwrite", "verifying", "select", "check",
        "mergeread", "mergewrite", "gate", "passed", "blocked",
        "logpassed", "logblocked", "shipgate", "ship"}

NoDraft == [changed |-> {}, before |-> [f \in Files |-> None],
            stale |-> {}, diff |-> FALSE, rollback |-> FALSE]

\* createTask's second record; nothing in src records approvals or failures.
blankEvidence(at) == [createdAt          |-> at,
                      checks             |-> {},
                      editTransactions   |-> {},
                      approvals          |-> {},
                      unresolvedFailures |-> {}]

-----------------------------------------------------------------------------
(* Helpers                                                                 *)

Status(t) == IF task[t] = None THEN "none" ELSE task[t].status

\* The position of a kind in selectJsChecks' list: ids are `kind-position`.
position(kind, kinds) ==
    1 + Cardinality({k \in kinds : Rank[k] < Rank[kind]})

\* createPatchForFiles gives a patch: there is a tracked change against HEAD,
\* or an untracked file of the snapshot still exists.  For a snapshot without
\* files it gives none.
patchable(d) ==
    /\ d.changed # {}
    /\ \/ \E f \in Files : head[f] # None /\ head[f] # tree[f]
       \/ \E f \in d.changed : d.before[f] = None /\ tree[f] # None

\* Commands on one task at a time, except those the deployment lets overlap.
MayStart(p, c, t) ==
    /\ pc[p] = "idle"
    /\ commands < MaxCommands
    /\ \A q \in Procs : pc[q] # "idle" /\ tid[q] = t =>
           {c, cmd[q]} \subseteq Overlap

\* writeTask: the whole record is replaced by the process's own object.
writeTask(p, status) ==
    LET written == [mine[p] EXCEPT !.status = status]
    IN  /\ task' = [task EXCEPT ![tid[p]] = written]
        /\ mine' = [mine EXCEPT ![p] = written]

Goto(p, label) == pc' = [pc EXCEPT ![p] = label]

\* main reports the outcome (printLoop, printGate, fail) and the process exits:
\* what it held in memory is gone.
Exit(p) ==
    /\ Goto(p, "idle")
    /\ cmd'      = [cmd EXCEPT ![p] = None]
    /\ tid'      = [tid EXCEPT ![p] = None]
    /\ mine'     = [mine EXCEPT ![p] = None]
    /\ draft'    = [draft EXCEPT ![p] = NoDraft]
    /\ selected' = [selected EXCEPT ![p] = {}]
    /\ todo'     = [todo EXCEPT ![p] = {}]
    /\ results'  = [results EXCEPT ![p] = {}]
    /\ snap'     = [snap EXCEPT ![p] = None]

-----------------------------------------------------------------------------
(* do: createRuntimeTask                                                   *)

\* createTask, first write: task.json is replaced whatever it held.
DoCreate(p, t, risk) ==
    LET new == [status |-> "intake", risk |-> risk, createdAt |-> clock + 1]
    IN  /\ MayStart(p, "do", t)
        /\ task' = [task EXCEPT ![t] = new]
        /\ mine' = [mine EXCEPT ![p] = new]
        /\ cmd' = [cmd EXCEPT ![p] = "do"]
        /\ tid' = [tid EXCEPT ![p] = t]
        /\ Goto(p, "blank")
        /\ clock' = clock + 1
        /\ commands' = commands + 1
        /\ UNCHANGED <<evidence, decisions, world, draft, checking, snap,
                       changes, crashes>>

\* Mutant of WriteBlankEvidence: a record that exists is kept.
WriteBlankEvidence_keepsOld(p) ==
    /\ pc[p] = "blank"
    /\ evidence' = IF evidence[tid[p]] # None THEN evidence
                   ELSE [evidence EXCEPT ![tid[p]] = blankEvidence(mine[p].createdAt)]
    /\ Goto(p, "created")
    /\ UNCHANGED <<task, decisions, world, local, bounds>>

\* createTask, second write: a blank evidence record.
WriteBlankEvidence(p) ==
    /\ pc[p] = "blank"
    /\ evidence' = [evidence EXCEPT ![tid[p]] = blankEvidence(mine[p].createdAt)]
    /\ Goto(p, "created")
    /\ UNCHANGED <<task, decisions, world, local, bounds>>

appendDecision(p, type) ==
    decisions' = [decisions EXCEPT ![tid[p]] =
                     Append(@, [type |-> type, run |-> mine[p].createdAt])]

LogCreated(p) ==
    /\ pc[p] = "created"
    /\ appendDecision(p, "created")
    /\ Goto(p, "begin")
    /\ UNCHANGED <<task, evidence, world, local, bounds>>

-----------------------------------------------------------------------------
(* do: the edit transaction                                                *)

BeginExecuting(p) ==
    /\ pc[p] = "begin"
    /\ writeTask(p, "executing")
    /\ Goto(p, "observe")
    /\ UNCHANGED <<evidence, decisions, world, job, draft, checking, snap,
                   bounds>>

\* One reading step of createEditTransaction: only the draft changes.
Look(p, from, to, seen) ==
    /\ pc[p] = from
    /\ draft' = [draft EXCEPT ![p] = seen]
    /\ Goto(p, to)
    /\ UNCHANGED <<store, world, job, mine, checking, snap, bounds>>

\* detectChangedFiles: what differs from HEAD, with the hash HEAD had.
ObserveChanges(p) ==
    Look(p, "observe", "stale",
         [draft[p] EXCEPT !.changed = {f \in Files : head[f] # tree[f]},
                          !.before  = head])

\* detectStaleFiles: HEAD no longer has the recorded before-hash.
DetectStale(p) ==
    Look(p, "stale", "diff",
         [draft[p] EXCEPT !.stale =
             {f \in draft[p].changed : /\ draft[p].before[f] # None
                                       /\ head[f] # draft[p].before[f]}])

DiffForward(p) ==
    Look(p, "diff", "rollback",
         [draft[p] EXCEPT !.diff = patchable(draft[p])])

DiffRollback(p) ==
    Look(p, "rollback", "editread",
         [draft[p] EXCEPT !.rollback = patchable(draft[p])])

\* The transaction createEditTransaction parses from what it has seen.
transaction(d, at) ==
    [id                |-> at,
     status            |-> IF d.stale # {} THEN "stale"
                           ELSE IF d.changed # {} /\ ~ (d.diff /\ d.rollback)
                           THEN "failed" ELSE "observed",
     changedFiles      |-> d.changed,
     staleFiles        |-> d.stale,
     diffPath          |-> d.changed # {},
     rollbackPatchPath |-> d.changed # {}]

\* updateEvidence, read half.  Without a record it throws and the command
\* ends there.
ReadForUpdate(p, from, to) ==
    /\ pc[p] = from
    /\ UNCHANGED <<store, world, bounds>>
    /\ \/ /\ evidence[tid[p]] # None
          /\ snap' = [snap EXCEPT ![p] = evidence[tid[p]]]
          /\ Goto(p, to)
          /\ UNCHANGED <<job, mine, draft, checking>>
       \/ /\ evidence[tid[p]] = None
          /\ Exit(p)

ReadForEdit(p) == ReadForUpdate(p, "editread", "editwrite")

\* updateEvidence, write half: what was read plus this transaction.
WriteEdit(p) ==
    LET tx == transaction(draft[p], mine[p].createdAt)
        others == {e \in snap[p].editTransactions : e.id # tx.id}
    IN  /\ pc[p] = "editwrite"
        /\ evidence' = [evidence EXCEPT ![tid[p]] =
               [snap[p] EXCEPT !.editTransactions = others \union {tx}]]
        /\ snap' = [snap EXCEPT ![p] = None]
        /\ draft' = [draft EXCEPT ![p] = NoDraft]
        /\ Goto(p, "verifying")
        /\ UNCHANGED <<task, decisions, world, job, mine, checking, bounds>>

BeginVerifying(p) ==
    /\ pc[p] = "verifying"
    /\ writeTask(p, "verifying")
    /\ Goto(p, "select")
    /\ UNCHANGED <<evidence, decisions, world, job, draft, checking, snap,
                   bounds>>

-----------------------------------------------------------------------------
(* verify starts; the verifier, the gate and the verdict of do and verify  *)

\* A command that begins with readTask.  Without a task it ends at once.
Load(p, c, t, to) ==
    /\ MayStart(p, c, t)
    /\ task[t] # None
    /\ mine' = [mine EXCEPT ![p] = task[t]]
    /\ cmd' = [cmd EXCEPT ![p] = c]
    /\ tid' = [tid EXCEPT ![p] = t]
    /\ Goto(p, to)
    /\ commands' = commands + 1
    /\ UNCHANGED <<store, world, draft, checking, snap, clock, changes, crashes>>

VerifyStart(p, t) == Load(p, "verify", t, "select")

\* selectJsChecks; with no check selected runVerifier writes nothing.
SelectChecks(p) ==
    /\ pc[p] = "select"
    /\ selected' = [selected EXCEPT ![p] = scripts]
    /\ todo' = [todo EXCEPT ![p] = scripts]
    /\ Goto(p, IF scripts = {} THEN "gate" ELSE "check")
    /\ UNCHANGED <<store, world, job, mine, draft, results, snap, bounds>>

\* runCheck: the shell command passes, fails, or cannot be spawned.
RunCheck(p) ==
    /\ pc[p] = "check"
    /\ \E kind \in todo[p], status \in Outcomes :
        /\ \A k \in todo[p] : Rank[kind] <= Rank[k]
        /\ results' = [results EXCEPT ![p] = @ \union
               {[kind |-> kind, pos |-> position(kind, selected[p]),
                 status |-> status, required |-> TRUE]}]
        /\ todo' = [todo EXCEPT ![p] = @ \ {kind}]
        /\ Goto(p, IF todo[p] = {kind} THEN "mergeread" ELSE "check")
    /\ UNCHANGED <<store, world, job, mine, draft, selected, snap, bounds>>

ReadForMerge(p) == ReadForUpdate(p, "mergeread", "mergewrite")

WriteMerge(p) ==
    /\ pc[p] = "mergewrite"
    /\ evidence' = [evidence EXCEPT ![tid[p]] =
           [snap[p] EXCEPT !.checks = mergeChecks(@, results[p])]]
    /\ snap' = [snap EXCEPT ![p] = None]
    /\ Goto(p, "gate")
    /\ UNCHANGED <<task, decisions, world, job, mine, draft, checking, bounds>>

\* Mutant of EvaluateGate: the kinds are read from package.json again.
EvaluateGate_selectsAgain(p) ==
    /\ pc[p] = "gate"
    /\ Goto(p, IF gatePassed(mine[p].risk, evidence[tid[p]], scripts, clock)
               THEN "passed" ELSE "blocked")
    /\ UNCHANGED <<store, world, local, bounds>>

\* readEvidence and evaluateDoneGate with the selected (all required) kinds.
EvaluateGate(p) ==
    /\ pc[p] = "gate"
    /\ Goto(p, IF gatePassed(mine[p].risk, evidence[tid[p]], selected[p], clock)
               THEN "passed" ELSE "blocked")
    /\ UNCHANGED <<store, world, local, bounds>>

\* Mutant of verdict: the gate's own word is written as the task's status.
verdict_gateWord == [passed |-> "passed", blocked |-> "blocked"]

\* The status a gate verdict turns into.
verdict == [passed |-> "done", blocked |-> "blocked"]

\* Mutant of MarkTask: a blocked do returns before it logs its verdict.
MarkTask_blockedReturnsEarly(p) ==
    /\ pc[p] \in {"passed", "blocked"}
    /\ UNCHANGED <<evidence, decisions, world, bounds>>
    /\ \/ /\ cmd[p] = "do" /\ pc[p] = "passed"
          /\ writeTask(p, "done")
          /\ Goto(p, "logpassed")
          /\ UNCHANGED <<job, draft, checking, snap>>
       \/ /\ cmd[p] = "verify" \/ pc[p] = "blocked"
          /\ task' = [task EXCEPT ![tid[p]] =
                         [mine[p] EXCEPT !.status = verdict[pc[p]]]]
          /\ Exit(p)

\* The task object read or built at the start is written back with the
\* verdict.  verify ends here; do still logs.
MarkTask(p) ==
    /\ pc[p] \in {"passed", "blocked"}
    /\ UNCHANGED <<evidence, decisions, world, bounds>>
    /\ \/ /\ cmd[p] = "do"
          /\ writeTask(p, verdict[pc[p]])
          /\ Goto(p, IF pc[p] = "passed" THEN "logpassed" ELSE "logblocked")
          /\ UNCHANGED <<job, draft, checking, snap>>
       \/ /\ cmd[p] = "verify"
          /\ task' = [task EXCEPT ![tid[p]] =
                         [mine[p] EXCEPT !.status = verdict[pc[p]]]]
          /\ Exit(p)

LogVerdict(p) ==
    /\ pc[p] \in {"logpassed", "logblocked"}
    /\ appendDecision(p, IF pc[p] = "logpassed" THEN "done_gate_passed"
                                                ELSE "done_gate_blocked")
    /\ Exit(p)
    /\ UNCHANGED <<task, evidence, world, bounds>>

-----------------------------------------------------------------------------
(* ship                                                                    *)

ShipStart(p, t) == Load(p, "ship", t, "shipgate")

\* Mutant of ShipGate: recorded checks are enough, whatever their outcome.
ShipGate_recordedIsEnough(p) ==
    LET passed == backed(mine[p].risk, evidence[tid[p]], clock)
    IN  /\ pc[p] = "shipgate"
        /\ UNCHANGED <<store, world, bounds>>
        /\ \/ passed /\ Goto(p, "ship") /\ UNCHANGED local
           \/ ~ passed /\ Exit(p)

\* readEvidence and the gate, with the kinds the evidence itself requires.
ShipGate(p) ==
    LET ev == evidence[tid[p]]
        passed == gatePassed(mine[p].risk, ev, deriveRequiredChecks(ev), clock)
    IN  /\ pc[p] = "shipgate"
        /\ UNCHANGED <<store, world, bounds>>
        /\ \/ passed /\ Goto(p, "ship") /\ UNCHANGED local
           \/ ~ passed /\ Exit(p)

ShipWrite(p) ==
    /\ pc[p] = "ship"
    /\ task' = [task EXCEPT ![tid[p]] = [mine[p] EXCEPT !.status = "shipped"]]
    /\ Exit(p)
    /\ UNCHANGED <<evidence, decisions, world, bounds>>

-----------------------------------------------------------------------------
(* Faults and the rest of the world                                        *)

\* The process is killed, or an awaited call rejects: main() rejects with it
\* and nothing later of the command runs.
Crash(p) ==
    /\ pc[p] # "idle"
    /\ crashes < MaxCrashes
    /\ crashes' = crashes + 1
    /\ Exit(p)
    /\ UNCHANGED <<store, world, clock, commands, changes>>

\* Edits, commits and package.json changes by the user or an agent.
Disturb ==
    /\ changes < MaxWorld
    /\ changes' = changes + 1
    /\ UNCHANGED <<store, pc, local, clock, commands, crashes>>

EditFile(f, content) ==
    /\ Disturb
    /\ tree[f] # content
    /\ tree' = [tree EXCEPT ![f] = content]
    /\ UNCHANGED <<head, scripts>>

CommitFile(f) ==
    /\ Disturb
    /\ head[f] # tree[f]
    /\ head' = [head EXCEPT ![f] = tree[f]]
    /\ UNCHANGED <<tree, scripts>>

ChangeScripts(new) ==
    /\ Disturb
    /\ scripts # new
    /\ scripts' = new
    /\ UNCHANGED <<head, tree>>

-----------------------------------------------------------------------------

Init ==
    /\ task      = [t \in TaskIds |-> None]
    /\ evidence  = [t \in TaskIds |-> None]
    /\ decisions = [t \in TaskIds |-> <<>>]
    /\ head      \in [Files -> Contents \union {None}]
    /\ tree      \in [Files -> Contents \union {None}]
    /\ scripts   \in SUBSET Scripts
    /\ pc        = [p \in Procs |-> "idle"]
    /\ cmd       = [p \in Procs |-> None]
    /\ tid       = [p \in Procs |-> None]
    /\ mine      = [p \in Procs |-> None]
    /\ draft     = [p \in Procs |-> NoDraft]
    /\ selected  = [p \in Procs |-> {}]
    /\ todo      = [p \in Procs |-> {}]
    /\ results   = [p \in Procs |-> {}]
    /\ snap      = [p \in Procs |-> None]
    /\ clock = 0 /\ commands = 0 /\ changes = 0 /\ crashes = 0

\* The user starts a command.
Start(p) ==
    \E t \in TaskIds :
        \/ \E risk \in Risks : DoCreate(p, t, risk)
        \/ VerifyStart(p, t)
        \/ ShipStart(p, t)

\* A running command goes on.
Continue(p) ==
    \/ WriteBlankEvidence(p)
    \/ LogCreated(p)
    \/ BeginExecuting(p)
    \/ ObserveChanges(p)
    \/ DetectStale(p)
    \/ DiffForward(p)
    \/ DiffRollback(p)
    \/ ReadForEdit(p)
    \/ WriteEdit(p)
    \/ BeginVerifying(p)
    \/ SelectChecks(p)
    \/ RunCheck(p)
    \/ ReadForMerge(p)
    \/ WriteMerge(p)
    \/ EvaluateGate(p)
    \/ MarkTask(p)
    \/ LogVerdict(p)
    \/ ShipGate(p)
    \/ ShipWrite(p)

Environment ==
    \/ \E f \in Files, content \in Contents \union {None} : EditFile(f, content)
    \/ \E f \in Files : CommitFile(f)
    \/ \E new \in SUBSET Scripts : ChangeScripts(new)

Next ==
    \/ \E p \in Procs : Start(p) \/ Continue(p) \/ Crash(p)
    \/ Environment

Spec == Init /\ [][Next]_vars

\* A started command is driven by its own promises: every awaited call ends.
\* This assumes that check scripts exit, for runShell has no timeout.
FairSpec == Spec /\ \A p \in Procs : WF_vars(Continue(p))

-----------------------------------------------------------------------------
(* Properties                                                              *)

\* The records on disk and in memory have the shapes of the zod schemas.
TypeOK ==
    /\ task      \in [TaskIds -> Task \union {None}]
    /\ evidence  \in [TaskIds -> EvidenceRecord \union {None}]
    /\ decisions \in [TaskIds -> Seq(Decision)]
    /\ head      \in [Files -> Contents \union {None}]
    /\ tree      \in [Files -> Contents \union {None}]
    /\ scripts   \in SUBSET Scripts
    /\ pc        \in [Procs -> PCs]
    /\ cmd       \in [Procs -> COMMANDS \union {None}]
    /\ tid       \in [Procs -> TaskIds \union {None}]
    /\ mine      \in [Procs -> Task \union {None}]
    /\ draft     \in [Procs -> Draft]
    /\ selected  \in [Procs -> SUBSET Scripts]
    /\ todo      \in [Procs -> SUBSET Scripts]
    /\ results   \in [Procs -> SUBSET CheckResult]
    /\ snap      \in [Procs -> EvidenceRecord \union {None}]
    /\ clock \in Nat /\ commands \in Nat /\ changes \in Nat /\ crashes \in Nat

marked(t) == Status(t) \in {"done", "shipped"}

\* "No evidence, no done": whatever happens after the verdict, the evidence of
\* a task marked done or shipped keeps a required check and, for a mutation
\* risk, sound edit evidence with a changed file.
DoneHasProof ==
    \A t \in TaskIds : marked(t) => backed(task[t].risk, evidence[t], clock)

\* What the Done Gate contract asks of the evidence on disk.
proven(risk, ev) ==
    /\ backed(risk, ev, clock)
    /\ \A c \in requiredResults(ev) : c.status = "pass"

\* A task is rewritten as done or shipped only while the evidence on disk, not
\* just the record the process read earlier, satisfies the gate contract.
MarkedOnlyWhenProven ==
    [][\A t \in TaskIds :
          task'[t] # task[t] /\ marked(t)' => proven(task'[t].risk, evidence[t])]_vars

\* ship never takes a task that do or verify has not marked done, unless a
\* command died half way.
ShipFromDone ==
    [][\A t \in TaskIds :
          Status(t) # "shipped" /\ Status(t)' = "shipped" /\ crashes = 0
              => Status(t) = "done"]_vars

\* The evidence under a marked task was collected for the run that set its
\* present goal and risk, not for an earlier one under the same id.
ProofBelongsToRun ==
    \A t \in TaskIds :
        marked(t) /\ evidence[t] # None => evidence[t].createdAt = task[t].createdAt

\* The same as long as no command died half way.
ProofBelongsToRunUnlessCrashed == crashes = 0 => ProofBelongsToRun

\* A record never holds two results of one check id nor edit evidence of two
\* runs, however reads and writes of several processes interleave.
EvidenceCoherent ==
    \A t \in TaskIds : evidence[t] # None =>
        /\ \A c, d \in evidence[t].checks :
               c.kind = d.kind /\ c.pos = d.pos => c = d
        /\ \A e \in evidence[t].editTransactions : e.id = evidence[t].createdAt

\* A verify or do whose every check passed leaves no failed result of a kind it
\* has just re-run, so fixing a check and verifying again unblocks the task
\* (runtime/src/index.ts:124).  A kind that was not run again is not covered.
GreenRunClearsFailures ==
    \A p \in Procs :
        /\ pc[p] = "gate"
        /\ evidence[tid[p]] # None
        /\ results[p] # {}
        /\ \A c \in results[p] : c.status = "pass"
        => \A c \in requiredResults(evidence[tid[p]]), d \in results[p] :
               d.kind = c.kind => c.status = "pass"

verdictLogged(run) ==
    \E t \in TaskIds : \E i \in DOMAIN decisions[t] :
        /\ decisions[t][i].run = run
        /\ decisions[t][i].type # "created"

\* Every do run ends with its verdict in decisions.jsonl unless a command died.
EveryRunGetsVerdict ==
    \A run \in 1..MaxCommands :
        (clock >= run) ~> (verdictLogged(run) \/ crashes > 0)

\* With one command per task at a time, the runtime implements its contract,
\* crashes included.
proofBit == [t \in TaskIds |->
    /\ task[t] # None
    /\ gatePassed(task[t].risk, evidence[t], deriveRequiredChecks(evidence[t]), clock)]

statusMap == [t \in TaskIds |-> Status(t)]

Contract == INSTANCE TaskContract WITH status <- statusMap, proof <- proofBit

ImplementsContract == Contract!Spec

=============================================================================
