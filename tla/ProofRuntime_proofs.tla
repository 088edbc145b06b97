------------------------ MODULE ProofRuntime_proofs ------------------------
(***************************************************************************)
(* Theorems about ProofRuntime, proved for every number of processes,      *)
(* tasks, files, scripts and bounds.                                       *)
(*                                                                         *)
(* TypeCorrect: the records keep the shapes of the schemas.                *)
(* DoneAlwaysHasProof: if no other command runs on a task while do runs on *)
(* it, a task marked done or shipped has the evidence the Done Gate asks   *)
(* for, whatever verify and ship commands overlap, crash or come later.    *)
(* EvidenceStaysCoherent and ProofBelongsToItsRun: that evidence is of one *)
(* run, the one that set the task's goal.                                  *)
(* MarkedOnlyOnProof, ShipsOnlyDone and RuntimeImplementsContract: if only *)
(* ship may share a task, the verdicts are worth what the record says, and *)
(* the runtime is the abstract machine of TaskContract.                    *)
(***************************************************************************)
EXTENDS ProofRuntime, FiniteSetTheorems, TLAPS

-----------------------------------------------------------------------------
(* Where a command is                                                      *)

\* The control points only do passes, before and after it gates.
doing == {"blank", "created", "begin", "observe", "stale", "diff", "rollback",
          "editread", "editwrite", "verifying"}
logging == {"logpassed", "logblocked"}

\* Those do and verify share, and those of ship.
gating == {"select", "check", "mergeread", "mergewrite", "gate", "passed", "blocked"}
shipping == {"shipgate", "ship"}

\* What a process holds at each control point.
Job(p) ==
    /\ pc[p] # "idle" =>
          tid[p] \in TaskIds /\ mine[p] \in Task /\ cmd[p] \in COMMANDS
    /\ pc[p] \in doing \union logging => cmd[p] = "do"
    /\ pc[p] \in gating => cmd[p] \in {"do", "verify"}
    /\ pc[p] \in shipping => cmd[p] = "ship"
    /\ pc[p] \in {"editwrite", "mergewrite"} => snap[p] \in EvidenceRecord

Typed == TypeOK /\ \A p \in Procs : Job(p)

-----------------------------------------------------------------------------
(* Typing                                                                  *)

\* The position of a check in a list of scripts is a number, so its id has the
\* form `kind-position`.
LEMMA PositionType ==
    ASSUME NEW kinds \in SUBSET Scripts, NEW kind
    PROVE  position(kind, kinds) \in Nat
<1> DEFINE before == {k \in kinds : Rank[k] < Rank[kind]}
<1>1. IsFiniteSet({"typecheck", "test", "lint", "build"})
  <2>1. IsFiniteSet({})
    BY FS_EmptySet
  <2>2. IsFiniteSet({} \union {"typecheck"})
    BY <2>1, FS_AddElement
  <2>3. IsFiniteSet({} \union {"typecheck"} \union {"test"})
    BY <2>2, FS_AddElement
  <2>4. IsFiniteSet({} \union {"typecheck"} \union {"test"} \union {"lint"})
    BY <2>3, FS_AddElement
  <2>5. IsFiniteSet({} \union {"typecheck"} \union {"test"} \union {"lint"} \union {"build"})
    BY <2>4, FS_AddElement
  <2>6. {"typecheck", "test", "lint", "build"}
            = {} \union {"typecheck"} \union {"test"} \union {"lint"} \union {"build"}
    OBVIOUS
  <2> QED BY <2>5, <2>6
<1>2. before \subseteq {"typecheck", "test", "lint", "build"}
  BY ConstantsAssumption DEF Rank
<1>3. IsFiniteSet(before)
  BY <1>1, <1>2, FS_Subset
<1>4. Cardinality(before) \in Nat
  BY <1>3, FS_CardinalityType
<1> QED BY <1>4 DEF position

\* The blank draft and the blank record.
LEMMA NoDraftType == NoDraft \in Draft
BY DEF NoDraft, Draft

LEMMA BlankType ==
    ASSUME NEW at \in Nat
    PROVE  blankEvidence(at) \in EvidenceRecord
BY DEF blankEvidence, EvidenceRecord

\* A process that exits holds nothing any more, and no other is touched.
LEMMA ExitTyped ==
    ASSUME Typed, NEW p \in Procs, Exit(p), UNCHANGED <<world, clock, commands, changes>>,
           task'      \in [TaskIds -> Task \union {None}],
           evidence'  \in [TaskIds -> EvidenceRecord \union {None}],
           decisions' \in [TaskIds -> Seq(Decision)],
           crashes'   \in Nat
    PROVE  Typed'
BY NoDraftType DEF Typed, TypeOK, Job, Exit, Goto, world, PCs, doing,
   logging, gating, shipping

\* Loading a task keeps the types,
LEMMA LoadTyped ==
    ASSUME Typed, NEW p \in Procs, NEW t \in TaskIds, NEW c, NEW to,
           Load(p, c, t, to),
           \/ c = "verify" /\ to = "select"
           \/ c = "ship" /\ to = "shipgate"
    PROVE  Typed'
BY DEF Typed, TypeOK, Job, Load, MayStart, Goto, store, world, checking,
   COMMANDS, PCs, doing, logging, gating, shipping

\* and so does each group of actions.
LEMMA StartTyped ==
    ASSUME Typed, NEW p \in Procs, Start(p)
    PROVE  Typed'
<1>1. ASSUME NEW t \in TaskIds, NEW risk \in Risks, DoCreate(p, t, risk)
      PROVE  Typed'
  <2>1. [status |-> "intake", risk |-> risk, createdAt |-> clock + 1] \in Task
    BY ConstantsAssumption DEF Typed, TypeOK, Task, TASK_STATUSES
  <2> QED
    BY <1>1, <2>1 DEF Typed, TypeOK, Job, DoCreate, MayStart, Goto, world, checking,
       COMMANDS, PCs, doing, logging, gating, shipping
<1>2. ASSUME NEW t \in TaskIds, VerifyStart(p, t) PROVE Typed'
  BY <1>2, LoadTyped DEF VerifyStart
<1>3. ASSUME NEW t \in TaskIds, ShipStart(p, t) PROVE Typed'
  BY <1>3, LoadTyped DEF ShipStart
<1> QED BY <1>1, <1>2, <1>3 DEF Start

\* writeTask keeps the task typed when the new status is one of the schema's.
LEMMA WriteTaskTyped ==
    ASSUME Typed, NEW p \in Procs, pc[p] # "idle", NEW s \in TASK_STATUSES,
           writeTask(p, s)
    PROVE  /\ task' \in [TaskIds -> Task \union {None}]
           /\ mine' \in [Procs -> Task \union {None}]
           /\ mine'[p] \in Task
           /\ \A q \in Procs : q # p => mine'[q] = mine[q]
<1>1. [mine[p] EXCEPT !.status = s] \in Task
  BY DEF Typed, Job, Task
<1> QED BY <1>1 DEF Typed, TypeOK, Job, writeTask

LEMMA AppendTyped ==
    ASSUME Typed, NEW p \in Procs, pc[p] # "idle",
           NEW type \in {"created", "done_gate_passed", "done_gate_blocked"},
           appendDecision(p, type)
    PROVE  decisions' \in [TaskIds -> Seq(Decision)]
<1>1. [type |-> type, run |-> mine[p].createdAt] \in Decision
  BY DEF Typed, Job, Task, Decision
<1> QED BY <1>1 DEF Typed, TypeOK, Job, appendDecision

\* A step that only reads: the draft becomes some other draft.
LEMMA LookTyped ==
    ASSUME Typed, NEW p \in Procs, NEW from \in doing, NEW to \in doing,
           NEW seen \in Draft, Look(p, from, to, seen), to # "editwrite"
    PROVE  Typed'
BY DEF Typed, TypeOK, Job, Look, Goto, store, world, job, checking, bounds,
   PCs, doing, logging, gating, shipping

LEMMA ReadTyped ==
    ASSUME Typed, NEW p \in Procs, NEW from, NEW to, ReadForUpdate(p, from, to),
           \/ from = "editread" /\ to = "editwrite"
           \/ from = "mergeread" /\ to = "mergewrite"
    PROVE  Typed'
<1>1. CASE Exit(p)
  BY <1>1, ExitTyped DEF ReadForUpdate, Typed, TypeOK, store, bounds
<1>2. CASE /\ evidence[tid[p]] # None
           /\ snap' = [snap EXCEPT ![p] = evidence[tid[p]]]
           /\ Goto(p, to)
           /\ UNCHANGED <<job, mine, draft, checking>>
  BY <1>2 DEF ReadForUpdate, Typed, TypeOK, Job, Goto, store, world, job, checking,
     bounds, PCs, doing, logging, gating, shipping
<1> QED BY <1>1, <1>2 DEF ReadForUpdate

\* The steps of do before it verifies.
LEMMA DoingTyped ==
    ASSUME Typed, NEW p \in Procs
    PROVE  /\ WriteBlankEvidence(p) => Typed'
           /\ LogCreated(p) => Typed'
           /\ BeginExecuting(p) => Typed'
           /\ ObserveChanges(p) => Typed'
           /\ DetectStale(p) => Typed'
           /\ DiffForward(p) => Typed'
           /\ DiffRollback(p) => Typed'
           /\ ReadForEdit(p) => Typed'
           /\ WriteEdit(p) => Typed'
           /\ BeginVerifying(p) => Typed'
<1> USE DEF Typed, TypeOK
<1>d. draft[p] \in Draft
  OBVIOUS
<1>1. ASSUME WriteBlankEvidence(p) PROVE Typed'
  <2>1. mine[p].createdAt \in Nat
    BY <1>1 DEF WriteBlankEvidence, Job, Task
  <2>2. evidence' \in [TaskIds -> EvidenceRecord \union {None}]
    BY <1>1, <2>1, BlankType DEF WriteBlankEvidence
  <2> QED
    BY <1>1, <2>2 DEF WriteBlankEvidence, Job, Goto, world, local, job, checking,
       bounds, PCs, doing, logging, gating, shipping
<1>2. ASSUME LogCreated(p) PROVE Typed'
  <2>1. decisions' \in [TaskIds -> Seq(Decision)]
    BY <1>2, AppendTyped DEF LogCreated
  <2> QED
    BY <1>2, <2>1 DEF LogCreated, Job, Goto, world, local, job, checking,
       bounds, PCs, doing, logging, gating, shipping
<1>3. ASSUME BeginExecuting(p) PROVE Typed'
  BY <1>3, WriteTaskTyped DEF BeginExecuting, Job, Goto, world, job, checking,
     bounds, PCs, doing, logging, gating, shipping, TASK_STATUSES
<1>4. ASSUME ObserveChanges(p) PROVE Typed'
  BY <1>4, <1>d, LookTyped DEF ObserveChanges, Draft, doing
<1>5. ASSUME DetectStale(p) PROVE Typed'
  <2>1. {f \in draft[p].changed : /\ draft[p].before[f] # None
                                  /\ head[f] # draft[p].before[f]} \in SUBSET Files
    BY <1>d DEF Draft
  <2> QED BY <1>5, <1>d, <2>1, LookTyped DEF DetectStale, Draft, doing
<1>6. ASSUME DiffForward(p) PROVE Typed'
  <2>1. patchable(draft[p]) \in BOOLEAN
    BY DEF patchable
  <2>2. [draft[p] EXCEPT !.diff = patchable(draft[p])] \in Draft
    BY <1>d, <2>1 DEF Draft
  <2> QED BY <1>6, <2>2, LookTyped DEF DiffForward, doing
<1>7. ASSUME DiffRollback(p) PROVE Typed'
  <2>1. patchable(draft[p]) \in BOOLEAN
    BY DEF patchable
  <2>2. [draft[p] EXCEPT !.rollback = patchable(draft[p])] \in Draft
    BY <1>d, <2>1 DEF Draft
  <2> QED BY <1>7, <2>2, LookTyped DEF DiffRollback, doing
<1>8. ASSUME ReadForEdit(p) PROVE Typed'
  BY <1>8, ReadTyped DEF ReadForEdit
<1>9. ASSUME WriteEdit(p) PROVE Typed'
  <2> DEFINE tx == transaction(draft[p], mine[p].createdAt)
             others == {e \in snap[p].editTransactions : e.id # tx.id}
  <2>1. mine[p].createdAt \in Nat /\ tid[p] \in TaskIds /\ snap[p] \in EvidenceRecord
    BY <1>9 DEF WriteEdit, Job, Task
  <2>2. tx \in EditTransaction
    BY <2>1, <1>d DEF transaction, EditTransaction, EDIT_STATUSES, Draft
  <2>3. others \in SUBSET EditTransaction
    BY <2>1 DEF EvidenceRecord
  <2>4. [snap[p] EXCEPT !.editTransactions = others \union {tx}] \in EvidenceRecord
    BY <2>1, <2>2, <2>3 DEF EvidenceRecord
  <2>5. evidence' \in [TaskIds -> EvidenceRecord \union {None}]
    BY <1>9, <2>4 DEF WriteEdit
  <2> QED
    BY <1>9, <2>5, NoDraftType DEF WriteEdit, Job, Goto, world, job, checking,
       bounds, PCs, doing, logging, gating, shipping
<1>10. ASSUME BeginVerifying(p) PROVE Typed'
  BY <1>10, WriteTaskTyped DEF BeginVerifying, Job, Goto, world, job, checking,
     bounds, PCs, doing, logging, gating, shipping, TASK_STATUSES
<1> QED BY <1>1, <1>2, <1>3, <1>4, <1>5, <1>6, <1>7, <1>8, <1>9, <1>10

\* A merge of results is a record.
LEMMA MergeType ==
    ASSUME NEW existing \in SUBSET CheckResult, NEW incoming \in SUBSET CheckResult
    PROVE  mergeChecks(existing, incoming) \in SUBSET CheckResult
BY DEF mergeChecks

\* The steps do and verify share, the log of do, and those of ship.
LEMMA GatingTyped ==
    ASSUME Typed, NEW p \in Procs
    PROVE  /\ SelectChecks(p) => Typed'
           /\ RunCheck(p) => Typed'
           /\ ReadForMerge(p) => Typed'
           /\ WriteMerge(p) => Typed'
           /\ EvaluateGate(p) => Typed'
           /\ MarkTask(p) => Typed'
           /\ LogVerdict(p) => Typed'
           /\ ShipGate(p) => Typed'
           /\ ShipWrite(p) => Typed'
<1> USE DEF Typed, TypeOK
<1>1. ASSUME SelectChecks(p) PROVE Typed'
  BY <1>1 DEF SelectChecks, Job, Goto, store, world, job,
     bounds, PCs, doing, logging, gating, shipping
<1>2. ASSUME RunCheck(p) PROVE Typed'
  <2>1. PICK kind \in todo[p], status \in Outcomes :
          /\ results' = [results EXCEPT ![p] = @ \union
                 {[kind |-> kind, pos |-> position(kind, selected[p]),
                   status |-> status, required |-> TRUE]}]
          /\ todo' = [todo EXCEPT ![p] = @ \ {kind}]
          /\ Goto(p, IF todo[p] = {kind} THEN "mergeread" ELSE "check")
    BY <1>2 DEF RunCheck
  <2>2. position(kind, selected[p]) \in Nat
    BY PositionType
  <2>3. kind \in CHECK_KINDS /\ status \in CHECK_STATUSES
    BY ConstantsAssumption DEF CHECK_KINDS, CHECK_STATUSES, Rank
  <2>4. [kind |-> kind, pos |-> position(kind, selected[p]),
         status |-> status, required |-> TRUE] \in CheckResult
    BY <2>2, <2>3 DEF CheckResult
  <2>5. /\ results' \in [Procs -> SUBSET CheckResult]
        /\ todo' \in [Procs -> SUBSET Scripts]
    BY <2>1, <2>4
  <2>6. /\ pc' \in [Procs -> PCs]
        /\ pc[p] = "check" /\ pc'[p] \in {"check", "mergeread"}
        /\ \A q \in Procs : q # p => pc'[q] = pc[q]
    BY <1>2, <2>1 DEF RunCheck, Goto, PCs
  <2>7. UNCHANGED <<store, world, job, mine, draft, selected, snap, bounds>>
    BY <1>2 DEF RunCheck
  <2>8. TypeOK'
    BY <2>5, <2>6, <2>7 DEF store, world, job, bounds
  <2>9. \A q \in Procs : Job(q)'
    BY <2>6, <2>7 DEF Job, job, doing, logging, gating, shipping
  <2> QED BY <2>8, <2>9
<1>3. ASSUME ReadForMerge(p) PROVE Typed'
  BY <1>3, ReadTyped DEF ReadForMerge
<1>4. ASSUME WriteMerge(p) PROVE Typed'
  <2>1. tid[p] \in TaskIds /\ snap[p] \in EvidenceRecord
    BY <1>4 DEF WriteMerge, Job
  <2>2. mergeChecks(snap[p].checks, results[p]) \in SUBSET CheckResult
    BY <2>1, MergeType DEF EvidenceRecord
  <2>3. [snap[p] EXCEPT !.checks = mergeChecks(@, results[p])] \in EvidenceRecord
    BY <2>1, <2>2 DEF EvidenceRecord
  <2>4. evidence' \in [TaskIds -> EvidenceRecord \union {None}]
    BY <1>4, <2>3 DEF WriteMerge
  <2> QED
    BY <1>4, <2>4 DEF WriteMerge, Job, Goto, world, job, checking,
       bounds, PCs, doing, logging, gating, shipping
<1>5. ASSUME EvaluateGate(p) PROVE Typed'
  BY <1>5 DEF EvaluateGate, Job, Goto, store, world, local, job, checking,
     bounds, PCs, doing, logging, gating, shipping
<1>6. ASSUME MarkTask(p) PROVE Typed'
  <2>1. verdict[pc[p]] \in TASK_STATUSES /\ pc[p] # "idle"
    BY <1>6 DEF MarkTask, verdict, TASK_STATUSES
  <2>2. CASE cmd[p] = "do"
    BY <1>6, <2>1, <2>2, WriteTaskTyped DEF MarkTask, Job, Goto, world, job,
       checking, bounds, PCs, doing, logging, gating, shipping
  <2>3. CASE cmd[p] = "verify"
    <3>1. [mine[p] EXCEPT !.status = verdict[pc[p]]] \in Task
      BY <2>1 DEF Job, Task
    <3>2. task' \in [TaskIds -> Task \union {None}]
      BY <1>6, <2>3, <3>1 DEF MarkTask
    <3> QED
      BY <1>6, <2>3, <3>2, ExitTyped DEF MarkTask, bounds
  <2> QED BY <1>6, <2>2, <2>3 DEF MarkTask
<1>7. ASSUME LogVerdict(p) PROVE Typed'
  <2>1. decisions' \in [TaskIds -> Seq(Decision)]
    BY <1>7, AppendTyped DEF LogVerdict
  <2> QED BY <1>7, <2>1, ExitTyped DEF LogVerdict, bounds
<1>8. ASSUME ShipGate(p) PROVE Typed'
  <2>1. CASE Exit(p)
    BY <1>8, <2>1, ExitTyped DEF ShipGate, store, bounds
  <2>2. CASE Goto(p, "ship") /\ UNCHANGED local
    BY <1>8, <2>2 DEF ShipGate, Job, Goto, store, world, local, job, checking,
       bounds, PCs, doing, logging, gating, shipping
  <2> QED BY <1>8, <2>1, <2>2 DEF ShipGate
<1>9. ASSUME ShipWrite(p) PROVE Typed'
  <2>1. [mine[p] EXCEPT !.status = "shipped"] \in Task
    BY <1>9 DEF ShipWrite, Job, Task, TASK_STATUSES
  <2>2. task' \in [TaskIds -> Task \union {None}]
    BY <1>9, <2>1 DEF ShipWrite
  <2> QED BY <1>9, <2>2, ExitTyped DEF ShipWrite, bounds
<1> QED BY <1>1, <1>2, <1>3, <1>4, <1>5, <1>6, <1>7, <1>8, <1>9

\* The first state.
LEMMA InitTyped == Init => Typed
BY NoDraftType DEF Init, Typed, TypeOK, Job, PCs, doing, logging, gating, shipping

\* What users and agents do to the world leaves every record and process alone.
LEMMA EnvironmentFrame ==
    ASSUME Environment
    PROVE  UNCHANGED <<store, pc, local, clock, commands, crashes>>
BY DEF Environment, EditFile, CommitFile, ChangeScripts, Disturb

\* The user changes the working tree.
LEMMA EnvironmentTyped ==
    ASSUME Typed, Environment
    PROVE  Typed'
<1>1. UNCHANGED <<store, pc, local, clock, commands, crashes>>
  BY EnvironmentFrame
<1>2. changes' \in Nat
  BY DEF Environment, EditFile, CommitFile, ChangeScripts, Disturb, Typed, TypeOK
<1>3. /\ head' \in [Files -> Contents \union {None}]
      /\ tree' \in [Files -> Contents \union {None}]
      /\ scripts' \in SUBSET Scripts
  <2>1. ASSUME NEW f \in Files, NEW content \in Contents \union {None},
               EditFile(f, content)
        PROVE  <1>3!:
    BY <2>1 DEF EditFile, Typed, TypeOK
  <2>2. ASSUME NEW f \in Files, CommitFile(f) PROVE <1>3!:
    BY <2>2 DEF CommitFile, Typed, TypeOK
  <2>3. ASSUME NEW new \in SUBSET Scripts, ChangeScripts(new) PROVE <1>3!:
    BY <2>3 DEF ChangeScripts, Typed, TypeOK
  <2> QED BY <2>1, <2>2, <2>3 DEF Environment
<1>4. TypeOK'
  BY <1>1, <1>2, <1>3 DEF Typed, TypeOK, store, local, job, checking
<1> QED BY <1>1, <1>4 DEF Typed, Job, local, job

\* Every step keeps Typed.
LEMMA NextTyped == Typed /\ [Next]_vars => Typed'
<1> SUFFICES ASSUME Typed, [Next]_vars PROVE Typed'
  OBVIOUS
<1>1. ASSUME NEW p \in Procs, Start(p) PROVE Typed'
  BY <1>1, StartTyped
<1>2. ASSUME NEW p \in Procs, Continue(p) PROVE Typed'
  BY <1>2, DoingTyped, GatingTyped DEF Continue
<1>3. ASSUME NEW p \in Procs, Crash(p) PROVE Typed'
  <2>1. crashes' \in Nat
    BY <1>3 DEF Crash, Typed, TypeOK
  <2> QED BY <1>3, <2>1, ExitTyped DEF Crash, Typed, TypeOK, store
<1>4. CASE Environment
  BY <1>4, EnvironmentTyped
<1>5. CASE UNCHANGED vars
  BY <1>5 DEF vars, store, world, local, job, checking, bounds, Typed, TypeOK, Job
<1> QED BY <1>1, <1>2, <1>3, <1>4, <1>5 DEF Next

\* Typed holds.
LEMMA AlwaysTyped == Spec => []Typed
BY InitTyped, NextTyped, PTL DEF Spec

\* The records on disk and in memory keep the shapes of the zod schemas of
\* packages/core/src/runtime/types.ts, whatever commands overlap, crash or throw.
THEOREM TypeCorrect == Spec => []TypeOK
<1>1. Typed => TypeOK
  BY DEF Typed
<1> QED BY <1>1, AlwaysTyped, PTL

-----------------------------------------------------------------------------
(* No evidence, no done                                                    *)

\* do has its task to itself: no other command starts on a task that a do is
\* running on, and no do on a task that is busy.
DoRunsAlone == Overlap \subseteq {"verify", "ship"}

\* Commands that share a task are ones the deployment lets overlap.
Exclusive ==
    \A p, q \in Procs :
        p # q /\ pc[p] # "idle" /\ pc[q] # "idle" /\ tid[p] = tid[q]
            => cmd[p] \in Overlap /\ cmd[q] \in Overlap

\* All that src records: required checks, no approval, no failure of a kind
\* of its own.
plain(ev) ==
    /\ \A c \in ev.checks : c.required
    /\ ev.approvals = {}
    /\ ev.unresolvedFailures = {}

Recorded ==
    /\ \A t \in TaskIds : evidence[t] # None => plain(evidence[t])
    /\ \A p \in Procs : snap[p] # None => plain(snap[p])
    /\ \A p \in Procs : \A c \in results[p] : c.required

\* The verifier merges only when it has results.
Checked(p) ==
    /\ pc[p] = "check" => todo[p] # {}
    /\ pc[p] \in {"mergeread", "mergewrite"} => results[p] # {}

\* A do that has not gated yet runs on a task that is not marked.
Unmarked(p) ==
    cmd[p] = "do" /\ pc[p] \notin {"idle"} \union logging => ~ marked(tid[p])

\* What a verifier is about to write back has the edit evidence on disk.
Agrees(p) ==
    pc[p] = "mergewrite" =>
        /\ evidence[tid[p]] # None
        /\ snap[p].editTransactions = evidence[tid[p]].editTransactions

\* A gate that passed is backed by what is on disk until its mark is written.
Backed(p) ==
    pc[p] \in {"passed", "ship"} => backed(mine[p].risk, evidence[tid[p]], clock)

IInv ==
    /\ Typed
    /\ Exclusive
    /\ Recorded
    /\ \A p \in Procs : Checked(p) /\ Unmarked(p) /\ Agrees(p) /\ Backed(p)
    /\ DoneHasProof

\* A gate that passes on a plain record has what backed asks for, whichever
\* check kinds its caller names: do and verify name the selected ones, ship
\* the recorded ones.
LEMMA GateBacks ==
    ASSUME NEW risk, NEW ev, NEW required, NEW now, ev # None => plain(ev),
           gatePassed(risk, ev, required, now)
    PROVE  backed(risk, ev, now)
<1>1. requiredResults(ev) # {}
  <2>1. CASE required = {}
    BY <2>1 DEF gatePassed
  <2>2. CASE required # {}
    <3>1. PICK kind \in required : TRUE
      BY <2>2
    <3>2. PICK c \in ev.checks : c.kind = kind
      BY <3>1 DEF gatePassed
    <3> QED BY <3>2 DEF gatePassed, plain, requiredResults
  <2> QED BY <2>1, <2>2
<1> QED BY <1>1 DEF gatePassed, backed

\* Merging check results, and time, take nothing away from a backed record.
LEMMA BackedKept ==
    ASSUME NEW risk, NEW ev, NEW new, NEW now, NEW later,
           plain(ev), plain(new), new # None, requiredResults(new) # {},
           new.editTransactions = ev.editTransactions,
           backed(risk, ev, now)
    PROVE  backed(risk, new, later)
<1>1. risk \notin APPROVAL_REQUIRED_RISKS
  BY DEF backed, plain, hasValidApproval
<1> QED BY <1>1 DEF backed, plain

\* The part of a process's state that IInv speaks about.
kept(q) == UNCHANGED <<pc[q], cmd[q], tid[q], mine[q], todo[q], results[q], snap[q]>>

\* Nobody else is busy on the task of a do.
LEMMA Alone ==
    ASSUME DoRunsAlone, IInv, NEW p \in Procs, NEW q \in Procs, p # q,
           pc[p] # "idle", pc[q] # "idle", cmd[p] = "do" \/ cmd[q] = "do"
    PROVE  tid[p] # tid[q]
BY DEF DoRunsAlone, IInv, Exclusive

\* A step of p that writes neither record of a task.
LEMMA QuietStep ==
    ASSUME IInv, Typed', NEW p \in Procs, pc[p] \notin {"idle"} \union logging,
           UNCHANGED <<task, evidence, clock, cmd, tid, mine>>,
           \A q \in Procs : q # p => kept(q),
           snap'[p] # None => plain(snap'[p]),
           \A c \in results'[p] : c.required,
           Checked(p)', Agrees(p)', Backed(p)'
    PROVE  IInv'
<1> USE DEF IInv
<1>1. Exclusive'
  BY DEF Exclusive, kept
<1>2. Recorded'
  BY DEF Recorded, kept
<1>3. DoneHasProof'
  BY DEF DoneHasProof, marked, Status
<1>4. Unmarked(p)'
  BY DEF Unmarked, marked, Status
<1>5. ASSUME NEW q \in Procs, q # p
      PROVE  (Checked(q) /\ Unmarked(q) /\ Agrees(q) /\ Backed(q))'
  BY <1>5 DEF Checked, Unmarked, Agrees, Backed, kept, marked, Status
<1> QED BY <1>1, <1>2, <1>3, <1>4, <1>5

\* A step that ends p, after writing its task at most if p is no do.
LEMMA ExitStep ==
    ASSUME DoRunsAlone, IInv, Typed', NEW p \in Procs, pc[p] # "idle", Exit(p),
           UNCHANGED <<evidence, clock>>,
           \A t \in TaskIds : task'[t] # task[t] => t = tid[p] /\ cmd[p] # "do",
           DoneHasProof'
    PROVE  IInv'
<1> USE DEF IInv
<1>0. \A q \in Procs : q # p => kept(q)
  BY DEF Exit, Goto, kept, Typed, TypeOK
<1>p. /\ pc'[p] = "idle" /\ snap'[p] = None /\ results'[p] = {}
  BY DEF Exit, Goto, Typed, TypeOK
<1>1. Exclusive'
  BY <1>0, <1>p DEF Exclusive, kept
<1>2. Recorded'
  BY <1>0, <1>p DEF Recorded, kept
<1>3. (Checked(p) /\ Unmarked(p) /\ Agrees(p) /\ Backed(p))'
  BY <1>p DEF Checked, Unmarked, Agrees, Backed
<1>4. ASSUME NEW q \in Procs, q # p
      PROVE  (Checked(q) /\ Unmarked(q) /\ Agrees(q) /\ Backed(q))'
  <2>1. (Checked(q) /\ Agrees(q) /\ Backed(q))'
    BY <1>0, <1>4 DEF Checked, Agrees, Backed, kept
  <2>2. Unmarked(q)'
    <3>1. CASE pc[q] = "idle"
      BY <1>0, <1>4, <3>1 DEF Unmarked, kept
    <3>2. CASE pc[q] # "idle" /\ cmd[q] = "do"
      <4>1. tid[q] \in TaskIds /\ tid[q] # tid[p]
        BY <1>4, <3>2, Alone DEF Typed, Job
      <4> QED BY <1>0, <1>4, <4>1 DEF Unmarked, kept, marked, Status
    <3>3. CASE cmd[q] # "do"
      BY <1>0, <1>4, <3>3 DEF Unmarked, kept
    <3> QED BY <3>1, <3>2, <3>3
  <2> QED BY <2>1, <2>2
<1> QED BY <1>1, <1>2, <1>3, <1>4

\* A step in which the do p writes a record of its task, or logs: nobody else
\* looks at that task.
LEMMA DoStep ==
    ASSUME DoRunsAlone, IInv, Typed', NEW p \in Procs, pc[p] # "idle", pc'[p] # "idle",
           cmd[p] = "do", UNCHANGED <<clock, cmd, tid, todo, results>>,
           \A q \in Procs : q # p => kept(q),
           \A t \in TaskIds : t # tid[p] => UNCHANGED <<task[t], evidence[t]>>,
           evidence'[tid[p]] # None => plain(evidence'[tid[p]]),
           snap'[p] # None => plain(snap'[p]),
           marked(tid[p])' => backed(task'[tid[p]].risk, evidence'[tid[p]], clock'),
           Checked(p)', Unmarked(p)', Agrees(p)', Backed(p)'
    PROVE  IInv'
<1> USE DEF IInv
<1>1. Exclusive'
  BY DEF Exclusive, kept
<1>2. Recorded'
  BY DEF Recorded, kept
<1>3. DoneHasProof'
  BY DEF DoneHasProof, marked, Status
<1>4. ASSUME NEW q \in Procs, q # p
      PROVE  (Checked(q) /\ Unmarked(q) /\ Agrees(q) /\ Backed(q))'
  <2>1. CASE pc[q] = "idle"
    BY <1>4, <2>1 DEF Checked, Unmarked, Agrees, Backed, kept
  <2>2. CASE pc[q] # "idle"
    <3>1. tid[q] \in TaskIds /\ tid[q] # tid[p]
      BY <1>4, <2>2, Alone DEF Typed, Job
    <3> QED
      BY <1>4, <3>1 DEF Checked, Unmarked, Agrees, Backed, kept, marked, Status
  <2> QED BY <2>1, <2>2
<1> QED BY <1>1, <1>2, <1>3, <1>4

\* A command starts: p was idle, and its task is busy only with commands that
\* may overlap with it.
LEMMA LoadKeeps ==
    ASSUME DoRunsAlone, IInv, Typed', NEW p \in Procs, NEW t \in TaskIds, NEW c, NEW to,
           Load(p, c, t, to),
           \/ c = "verify" /\ to = "select"
           \/ c = "ship" /\ to = "shipgate"
    PROVE  IInv'
<1> USE DEF IInv
<1>0. \A q \in Procs : q # p => kept(q)
  BY DEF Load, Goto, kept, checking, Typed, TypeOK
<1>p. /\ cmd'[p] = c /\ tid'[p] = t /\ pc'[p] = to /\ pc[p] = "idle"
      /\ UNCHANGED <<task, evidence, clock, snap, results>>
  BY DEF Load, MayStart, Goto, checking, store, Typed, TypeOK
<1>1. Exclusive'
  <2>1. \A q \in Procs : pc[q] # "idle" /\ tid[q] = t => {c, cmd[q]} \subseteq Overlap
    BY DEF Load, MayStart
  <2> QED BY <1>0, <1>p, <2>1 DEF Exclusive, kept
<1>2. Recorded'
  BY <1>0, <1>p DEF Recorded, kept
<1>3. DoneHasProof'
  BY <1>p DEF DoneHasProof, marked, Status
<1>4. (Checked(p) /\ Unmarked(p) /\ Agrees(p) /\ Backed(p))'
  BY <1>p DEF Checked, Unmarked, Agrees, Backed
<1>5. ASSUME NEW q \in Procs, q # p
      PROVE  (Checked(q) /\ Unmarked(q) /\ Agrees(q) /\ Backed(q))'
  BY <1>0, <1>p, <1>5 DEF Checked, Unmarked, Agrees, Backed, kept, marked, Status
<1> QED BY <1>1, <1>2, <1>3, <1>4, <1>5

\* A do that starts.
LEMMA DoCreateKeeps ==
    ASSUME DoRunsAlone, IInv, Typed', NEW p \in Procs, NEW t \in TaskIds,
           NEW risk \in Risks, DoCreate(p, t, risk)
    PROVE  IInv'
<1> USE DEF IInv
<1>0. \A q \in Procs : q # p => kept(q)
  BY DEF DoCreate, Goto, kept, checking, Typed, TypeOK
<1>p. /\ cmd'[p] = "do" /\ tid'[p] = t /\ pc'[p] = "blank" /\ pc[p] = "idle"
      /\ UNCHANGED <<evidence, snap, results>>
      /\ task'[t] # None => task'[t].status = "intake"
      /\ \A u \in TaskIds : u # t => task'[u] = task[u]
  BY DEF DoCreate, MayStart, Goto, checking, Typed, TypeOK
<1>q. \A q \in Procs : pc[q] # "idle" => tid[q] # t
  BY DEF DoCreate, MayStart, DoRunsAlone
<1>k. ASSUME NEW ev, NEW r, ev # None => plain(ev), backed(r, ev, clock)
      PROVE  backed(r, ev, clock')
  BY <1>k, BackedKept DEF backed
<1>1. Exclusive'
  BY <1>0, <1>p, <1>q DEF Exclusive, kept
<1>2. Recorded'
  BY <1>0, <1>p DEF Recorded, kept
<1>3. ~ marked(t)'
  BY <1>p DEF marked, Status
<1>4. DoneHasProof'
  <2> SUFFICES ASSUME NEW u \in TaskIds, marked(u)'
               PROVE  backed(task'[u].risk, evidence'[u], clock')
    BY DEF DoneHasProof
  <2>1. task'[u] = task[u] /\ marked(u)
    BY <1>3, <1>p DEF marked, Status
  <2> QED BY <1>p, <1>k, <2>1 DEF DoneHasProof, Recorded
<1>5. (Checked(p) /\ Unmarked(p) /\ Agrees(p) /\ Backed(p))'
  BY <1>p, <1>3 DEF Checked, Unmarked, Agrees, Backed
<1>6. ASSUME NEW q \in Procs, q # p
      PROVE  (Checked(q) /\ Unmarked(q) /\ Agrees(q) /\ Backed(q))'
  <2>1. (Checked(q) /\ Agrees(q))'
    BY <1>0, <1>p, <1>6 DEF Checked, Agrees, kept
  <2>2. Unmarked(q)'
    <3>1. CASE pc[q] = "idle"
      BY <1>0, <1>6, <3>1 DEF Unmarked, kept
    <3>2. CASE pc[q] # "idle"
      <4>1. tid[q] \in TaskIds /\ tid[q] # t
        BY <1>q, <3>2 DEF Typed, Job
      <4> QED BY <1>0, <1>p, <1>6, <4>1 DEF Unmarked, kept, marked, Status
    <3> QED BY <3>1, <3>2
  <2>3. Backed(q)'
    <3> SUFFICES ASSUME pc[q] \in {"passed", "ship"}
                 PROVE  backed(mine[q].risk, evidence[tid[q]], clock')
      BY <1>0, <1>p, <1>6 DEF Backed, kept
    <3>1. tid[q] \in TaskIds
      BY DEF Typed, Job
    <3> QED BY <1>k, <3>1 DEF Backed, Recorded
  <2> QED BY <2>1, <2>2, <2>3
<1> QED BY <1>1, <1>2, <1>4, <1>5, <1>6

\* The steps of do before it verifies.
LEMMA DoingKeeps ==
    ASSUME DoRunsAlone, IInv, Typed', NEW p \in Procs
    PROVE  /\ WriteBlankEvidence(p) => IInv'
           /\ LogCreated(p) => IInv'
           /\ BeginExecuting(p) => IInv'
           /\ ObserveChanges(p) => IInv'
           /\ DetectStale(p) => IInv'
           /\ DiffForward(p) => IInv'
           /\ DiffRollback(p) => IInv'
           /\ WriteEdit(p) => IInv'
           /\ BeginVerifying(p) => IInv'
<1> USE DEF doing, logging, Goto, job, local, checking, bounds
<1>t. Typed /\ TypeOK /\ Job(p)
  BY DEF IInv, Typed
<1>r. Recorded /\ Unmarked(p)
  BY DEF IInv
<1>1. ASSUME WriteBlankEvidence(p) PROVE IInv'
  <2>1. evidence'[tid[p]] = blankEvidence(mine[p].createdAt)
    BY <1>1, <1>t DEF WriteBlankEvidence, TypeOK, Job
  <2>2. plain(evidence'[tid[p]])
    BY <2>1 DEF plain, blankEvidence
  <2>3. \A t \in TaskIds : t # tid[p] => UNCHANGED <<task[t], evidence[t]>>
    BY <1>1, <1>t DEF WriteBlankEvidence, TypeOK
  <2>4. (Checked(p) /\ Unmarked(p) /\ Agrees(p) /\ Backed(p))' /\ ~ marked(tid[p])'
    BY <1>1, <1>t, <1>r DEF WriteBlankEvidence, TypeOK, Job, Checked, Unmarked,
       Agrees, Backed, marked, Status
  <2> QED
    BY <1>1, <1>t, <1>r, <2>2, <2>3, <2>4, DoStep DEF WriteBlankEvidence, TypeOK,
       Job, Recorded, kept
<1>2. ASSUME LogCreated(p) PROVE IInv'
  BY <1>2, <1>t, <1>r, QuietStep DEF LogCreated, TypeOK, Recorded, kept, Checked,
     Agrees, Backed
<1>3. ASSUME BeginExecuting(p) \/ BeginVerifying(p) PROVE IInv'
  <2>1. /\ UNCHANGED <<evidence, clock, cmd, tid, todo, results, snap>>
        /\ pc'[p] \in {"observe", "select"}
        /\ \A q \in Procs : q # p => kept(q)
        /\ \A t \in TaskIds : t # tid[p] => UNCHANGED <<task[t], evidence[t]>>
        /\ pc[p] \in {"begin", "verifying"} /\ cmd[p] = "do"
    BY <1>3, <1>t DEF BeginExecuting, BeginVerifying, writeTask, TypeOK, Job, kept
  <2>2. ~ marked(tid[p])'
    <3>1. mine[p] \in Task /\ tid[p] \in TaskIds
      BY <2>1, <1>t DEF Job
    <3>2. \E st \in {"executing", "verifying"} :
              task' = [task EXCEPT ![tid[p]] = [mine[p] EXCEPT !.status = st]]
      BY <1>3 DEF BeginExecuting, BeginVerifying, writeTask
    <3>3. task'[tid[p]].status \in {"executing", "verifying"}
      BY <3>1, <3>2, <1>t DEF TypeOK, Task
    <3> QED BY <2>1, <3>3 DEF marked, Status
  <2>3. (Checked(p) /\ Unmarked(p) /\ Agrees(p) /\ Backed(p))'
    BY <2>1, <2>2 DEF Checked, Unmarked, Agrees, Backed
  <2>4. tid[p] \in TaskIds
    BY <2>1, <1>t DEF Job
  <2> QED BY <1>r, <2>1, <2>2, <2>3, <2>4, DoStep DEF Recorded
<1>4. ASSUME NEW from \in doing, NEW to \in doing, NEW seen, Look(p, from, to, seen),
             to # "editwrite"
      PROVE  IInv'
  BY <1>4, <1>t, <1>r, QuietStep DEF Look, store, TypeOK, Recorded, kept, Checked,
     Agrees, Backed
<1>5. ASSUME WriteEdit(p) PROVE IInv'
  <2> DEFINE tx == transaction(draft[p], mine[p].createdAt)
             others == {e \in snap[p].editTransactions : e.id # tx.id}
             new == [snap[p] EXCEPT !.editTransactions = others \union {tx}]
  <2>0. /\ snap[p] \in EvidenceRecord /\ snap[p] # None /\ plain(snap[p])
        /\ tid[p] \in TaskIds /\ cmd[p] = "do" /\ pc[p] = "editwrite"
    BY <1>5, <1>t, <1>r, RecordsAssumption DEF WriteEdit, Job, Recorded
  <2>1. evidence'[tid[p]] = new
    BY <1>5, <1>t, <2>0 DEF WriteEdit, TypeOK
  <2>2. plain(evidence'[tid[p]])
    BY <2>0, <2>1 DEF plain, EvidenceRecord
  <2>3. \A t \in TaskIds : t # tid[p] => UNCHANGED <<task[t], evidence[t]>>
    BY <1>5, <1>t DEF WriteEdit, TypeOK
  <2>4. (Checked(p) /\ Unmarked(p) /\ Agrees(p) /\ Backed(p))' /\ ~ marked(tid[p])'
    BY <1>5, <1>t, <1>r, <2>0 DEF WriteEdit, TypeOK, Checked, Unmarked,
       Agrees, Backed, marked, Status
  <2>5. /\ UNCHANGED <<clock, cmd, tid, todo, results>> /\ snap'[p] = None
        /\ \A q \in Procs : q # p => kept(q)
        /\ pc'[p] # "idle"
    BY <1>5, <1>t DEF WriteEdit, TypeOK, kept
  <2> QED BY <2>0, <2>2, <2>3, <2>4, <2>5, DoStep
<1> QED
  BY <1>1, <1>2, <1>3, <1>4, <1>5 DEF ObserveChanges, DetectStale, DiffForward,
     DiffRollback

\* A process that ends without writing its task leaves IInv alone.
LEMMA LeaveKeeps ==
    ASSUME DoRunsAlone, IInv, Typed', NEW p \in Procs, pc[p] # "idle", Exit(p),
           UNCHANGED <<task, evidence, clock>>
    PROVE  IInv'
<1>1. DoneHasProof'
  BY DEF IInv, DoneHasProof, marked, Status
<1> QED BY <1>1, ExitStep

\* The two reads before a write.
LEMMA ReadKeeps ==
    ASSUME DoRunsAlone, IInv, Typed', NEW p \in Procs, NEW from, NEW to,
           ReadForUpdate(p, from, to),
           \/ from = "editread" /\ to = "editwrite"
           \/ from = "mergeread" /\ to = "mergewrite"
    PROVE  IInv'
<1>t. Typed /\ TypeOK /\ Job(p) /\ Recorded /\ Checked(p) /\ pc[p] = from
  BY DEF IInv, Typed, ReadForUpdate
<1>1. CASE Exit(p)
  BY <1>t, <1>1, LeaveKeeps DEF ReadForUpdate, store, bounds
<1>2. CASE /\ evidence[tid[p]] # None
           /\ snap' = [snap EXCEPT ![p] = evidence[tid[p]]]
           /\ Goto(p, to)
           /\ UNCHANGED <<job, mine, draft, checking>>
  <2>1. /\ tid[p] \in TaskIds
        /\ UNCHANGED <<task, evidence, clock, cmd, tid, mine, todo, results>>
        /\ \A q \in Procs : q # p => kept(q)
        /\ pc'[p] = to /\ snap'[p] = evidence[tid[p]]
    BY <1>t, <1>2 DEF ReadForUpdate, store, bounds, job, checking, Goto, TypeOK, Job, kept
  <2>2. plain(snap'[p]) /\ \A c \in results'[p] : c.required
    BY <1>t, <1>2, <2>1 DEF Recorded
  <2>3. (Checked(p) /\ Agrees(p) /\ Backed(p))'
    BY <1>t, <1>2, <2>1 DEF Checked, Agrees, Backed
  <2> QED BY <1>t, <2>1, <2>2, <2>3, QuietStep DEF logging
<1> QED BY <1>1, <1>2 DEF ReadForUpdate

\* The verifier writes back what it read with its own results: whoever else
\* verifies or ships the task keeps its backing.
LEMMA WriteMergeKeeps ==
    ASSUME DoRunsAlone, IInv, Typed', NEW p \in Procs, WriteMerge(p)
    PROVE  IInv'
<1> DEFINE t == tid[p]
           new == [snap[p] EXCEPT !.checks = mergeChecks(@, results[p])]
<1>t. Typed /\ TypeOK /\ Job(p) /\ Recorded /\ Checked(p) /\ Agrees(p) /\ Unmarked(p)
  BY DEF IInv, Typed
<1>0. /\ pc[p] = "mergewrite" /\ t \in TaskIds /\ snap[p] \in EvidenceRecord
      /\ snap[p] # None /\ plain(snap[p]) /\ results[p] # {}
      /\ evidence[t] # None /\ plain(evidence[t])
      /\ snap[p].editTransactions = evidence[t].editTransactions
  BY <1>t, RecordsAssumption DEF WriteMerge, Job, Recorded, Checked, Agrees
<1>1. /\ UNCHANGED <<task, clock, cmd, tid, mine, todo, results>>
      /\ \A q \in Procs : q # p => kept(q)
      /\ pc'[p] = "gate" /\ snap'[p] = None
  BY <1>t, <1>0 DEF WriteMerge, Goto, job, checking, bounds, TypeOK, kept
<1>e. /\ \A u \in TaskIds : u # t => evidence'[u] = evidence[u]
      /\ evidence'[t] = new
  BY <1>t, <1>0 DEF WriteMerge, TypeOK
<1>2. /\ new # None
      /\ new.checks = mergeChecks(snap[p].checks, results[p])
      /\ new.editTransactions = evidence[t].editTransactions
      /\ new.approvals = {} /\ new.unresolvedFailures = {}
  <2>1. evidence'[t] \in EvidenceRecord \union {None}
    BY <1>0 DEF Typed, TypeOK
  <2>2. new.checks = mergeChecks(snap[p].checks, results[p])
    BY <1>0 DEF EvidenceRecord
  <2>3. new \in EvidenceRecord
    <3>1. mergeChecks(snap[p].checks, results[p]) \in SUBSET CheckResult
      BY <1>t, <1>0, MergeType DEF EvidenceRecord, TypeOK
    <3> QED BY <1>0, <3>1 DEF EvidenceRecord
  <2> QED BY <1>0, <2>2, <2>3, RecordsAssumption DEF plain, EvidenceRecord
<1>3. plain(new) /\ requiredResults(new) # {}
  <2>1. \A c \in new.checks : c.required
    BY <1>t, <1>0, <1>2 DEF plain, mergeChecks, Recorded
  <2>2. new.checks # {}
    BY <1>0, <1>2 DEF mergeChecks
  <2> QED BY <1>2, <2>1, <2>2 DEF plain, requiredResults
<1>k. ASSUME NEW u \in TaskIds, NEW risk, backed(risk, evidence[u], clock)
      PROVE  backed(risk, evidence'[u], clock')
  <2>1. CASE u # t
    BY <1>k, <1>1, <1>e, <2>1
  <2>2. CASE u = t
    BY <1>k, <1>0, <1>e, <1>2, <1>3, <2>2, BackedKept
  <2> QED BY <2>1, <2>2
<1>4. Exclusive'
  BY <1>0, <1>1 DEF IInv, Exclusive, kept
<1>5. Recorded'
  BY <1>t, <1>1, <1>e, <1>3 DEF Recorded, kept
<1>6. DoneHasProof'
  BY <1>1, <1>k DEF IInv, DoneHasProof, marked, Status
<1>7. (Checked(p) /\ Unmarked(p) /\ Agrees(p) /\ Backed(p))'
  BY <1>t, <1>0, <1>1 DEF Checked, Unmarked, Agrees, Backed, marked, Status, logging
<1>8. ASSUME NEW q \in Procs, q # p
      PROVE  (Checked(q) /\ Unmarked(q) /\ Agrees(q) /\ Backed(q))'
  <2>1. (Checked(q) /\ Unmarked(q))'
    BY <1>1, <1>8 DEF IInv, Checked, Unmarked, kept, marked, Status
  <2>2. Agrees(q)'
    <3> SUFFICES ASSUME pc[q] = "mergewrite"
                 PROVE  /\ evidence'[tid[q]] # None
                        /\ snap[q].editTransactions = evidence'[tid[q]].editTransactions
      BY <1>1, <1>8 DEF Agrees, kept
    <3>1. tid[q] \in TaskIds
      BY DEF IInv, Typed, Job
    <3>2. Agrees(q)
      BY DEF IInv
    <3> QED BY <1>e, <1>2, <3>1, <3>2 DEF Agrees
  <2>3. Backed(q)'
    <3> SUFFICES ASSUME pc[q] \in {"passed", "ship"}
                 PROVE  backed(mine[q].risk, evidence'[tid[q]], clock')
      BY <1>1, <1>8 DEF Backed, kept
    <3>1. tid[q] \in TaskIds /\ Backed(q)
      BY DEF IInv, Typed, Job
    <3> QED BY <1>k, <3>1 DEF Backed
  <2> QED BY <2>1, <2>2, <2>3
<1> QED BY <1>4, <1>5, <1>6, <1>7, <1>8 DEF IInv

\* A process that passed its gate marks its task and, unless it is a do, ends.
LEMMA MarkIsBacked ==
    ASSUME IInv, NEW p \in Procs, NEW s \in TASK_STATUSES,
           pc[p] # "idle",
           s \in {"done", "shipped"} => pc[p] \in {"passed", "ship"},
           task' = [task EXCEPT ![tid[p]] = [mine[p] EXCEPT !.status = s]],
           UNCHANGED <<evidence, clock>>
    PROVE  DoneHasProof'
<1>t. TypeOK /\ Job(p) /\ Backed(p)
  BY DEF IInv, Typed
<1>1. mine[p] \in Task /\ tid[p] \in TaskIds
  BY <1>t DEF Job
<1>2. /\ task'[tid[p]] = [mine[p] EXCEPT !.status = s]
      /\ task'[tid[p]].status = s
      /\ task'[tid[p]].risk = mine[p].risk
  BY <1>t, <1>1 DEF TypeOK, Task
<1> SUFFICES ASSUME NEW t \in TaskIds, marked(t)'
             PROVE  backed(task'[t].risk, evidence[t], clock)
  BY DEF DoneHasProof
<1>3. CASE t = tid[p]
  <2>1. s \in {"done", "shipped"}
    BY <1>2, <1>3 DEF marked, Status
  <2> QED BY <1>t, <1>2, <1>3, <2>1 DEF Backed
<1>4. CASE t # tid[p]
  <2>1. task'[t] = task[t]
    BY <1>t, <1>4 DEF TypeOK
  <2>2. marked(t)
    BY <2>1 DEF marked, Status
  <2> QED BY <2>1, <2>2 DEF IInv, DoneHasProof
<1> QED BY <1>3, <1>4

\* The steps do and verify share, the log of do, and those of ship.
LEMMA GatingKeeps ==
    ASSUME DoRunsAlone, IInv, Typed', NEW p \in Procs
    PROVE  /\ SelectChecks(p) => IInv'
           /\ RunCheck(p) => IInv'
           /\ EvaluateGate(p) => IInv'
           /\ MarkTask(p) => IInv'
           /\ LogVerdict(p) => IInv'
           /\ ShipGate(p) => IInv'
           /\ ShipWrite(p) => IInv'
<1> USE DEF logging, Goto, job, local, checking, bounds, store
<1>t. Typed /\ TypeOK /\ Job(p) /\ Recorded /\ Unmarked(p) /\ Backed(p) /\ DoneHasProof
  BY DEF IInv, Typed
<1>e. ASSUME pc[p] # "idle" PROVE evidence[tid[p]] # None => plain(evidence[tid[p]])
  BY <1>e, <1>t DEF Job, Recorded
<1>1. ASSUME SelectChecks(p) PROVE IInv'
  <2>1. (Checked(p) /\ Agrees(p) /\ Backed(p))'
    BY <1>1, <1>t DEF SelectChecks, TypeOK, Checked, Agrees, Backed
  <2> QED
    BY <1>1, <1>t, <2>1, QuietStep DEF SelectChecks, TypeOK, Recorded, kept
<1>2. ASSUME RunCheck(p) PROVE IInv'
  <2>1. PICK kind \in todo[p], status \in Outcomes :
          /\ results' = [results EXCEPT ![p] = @ \union
                 {[kind |-> kind, pos |-> position(kind, selected[p]),
                   status |-> status, required |-> TRUE]}]
          /\ todo' = [todo EXCEPT ![p] = @ \ {kind}]
          /\ Goto(p, IF todo[p] = {kind} THEN "mergeread" ELSE "check")
    BY <1>2 DEF RunCheck
  <2>2. \A c \in results'[p] : c.required
    BY <1>t, <2>1 DEF TypeOK, Recorded
  <2>3. (Checked(p) /\ Agrees(p) /\ Backed(p))'
    BY <1>t, <2>1 DEF TypeOK, Checked, Agrees, Backed
  <2> QED
    BY <1>2, <1>t, <2>1, <2>2, <2>3, QuietStep DEF RunCheck, TypeOK, Recorded, kept
<1>3. ASSUME EvaluateGate(p) PROVE IInv'
  <2>1. gatePassed(mine[p].risk, evidence[tid[p]], selected[p], clock)
           => backed(mine[p].risk, evidence[tid[p]], clock)
    BY <1>3, <1>e, GateBacks DEF EvaluateGate
  <2>2. (Checked(p) /\ Agrees(p) /\ Backed(p))'
    BY <1>3, <1>t, <2>1 DEF EvaluateGate, TypeOK, Checked, Agrees, Backed
  <2> QED
    BY <1>3, <1>t, <2>2, QuietStep DEF EvaluateGate, TypeOK, Recorded, kept
<1>4. ASSUME MarkTask(p) PROVE IInv'
  <2> DEFINE s == verdict[pc[p]]
  <2>0. /\ s \in TASK_STATUSES /\ pc[p] \in {"passed", "blocked"}
        /\ s \in {"done", "shipped"} => pc[p] \in {"passed", "ship"}
        /\ task' = [task EXCEPT ![tid[p]] = [mine[p] EXCEPT !.status = s]]
        /\ UNCHANGED <<evidence, clock>>
    BY <1>4 DEF MarkTask, writeTask, verdict, TASK_STATUSES
  <2>1. DoneHasProof' /\ tid[p] \in TaskIds
    BY <1>t, <2>0, MarkIsBacked DEF Job
  <2>2. CASE cmd[p] = "do"
    <3>1. /\ pc'[p] \in {"logpassed", "logblocked"}
          /\ UNCHANGED <<cmd, tid, todo, results, snap>>
          /\ \A q \in Procs : q # p => kept(q)
          /\ \A t \in TaskIds : t # tid[p] => UNCHANGED <<task[t], evidence[t]>>
      BY <1>4, <1>t, <2>2 DEF MarkTask, writeTask, TypeOK, kept
    <3>2. (Checked(p) /\ Unmarked(p) /\ Agrees(p) /\ Backed(p))'
      BY <3>1 DEF Checked, Unmarked, Agrees, Backed
    <3>3. /\ marked(tid[p])' => backed(task'[tid[p]].risk, evidence'[tid[p]], clock')
          /\ snap'[p] # None => plain(snap'[p])
      BY <1>t, <2>0, <2>1, <3>1 DEF DoneHasProof, Recorded
    <3> QED BY <1>e, <2>0, <2>2, <3>1, <3>2, <3>3, DoStep
  <2>3. CASE cmd[p] = "verify"
    <3>1. \A t \in TaskIds : task'[t] # task[t] => t = tid[p] /\ cmd[p] # "do"
      BY <1>t, <2>0, <2>3 DEF TypeOK
    <3> QED BY <1>4, <2>0, <2>1, <2>3, <3>1, ExitStep DEF MarkTask
  <2> QED BY <1>4, <2>2, <2>3 DEF MarkTask
<1>5. ASSUME LogVerdict(p) PROVE IInv'
  BY <1>5, LeaveKeeps DEF LogVerdict
<1>6. ASSUME ShipGate(p) PROVE IInv'
  <2> DEFINE ev == evidence[tid[p]]
             passed == gatePassed(mine[p].risk, ev, deriveRequiredChecks(ev), clock)
  <2>1. CASE Exit(p)
    BY <1>6, <2>1, LeaveKeeps DEF ShipGate
  <2>2. CASE passed /\ Goto(p, "ship") /\ UNCHANGED local
    <3>1. backed(mine[p].risk, evidence[tid[p]], clock)
      BY <1>6, <1>e, <2>2, GateBacks DEF ShipGate
    <3>2. (Checked(p) /\ Agrees(p) /\ Backed(p))'
      BY <1>6, <1>t, <2>2, <3>1 DEF ShipGate, TypeOK, Checked, Agrees, Backed
    <3> QED
      BY <1>6, <1>t, <2>2, <3>2, QuietStep DEF ShipGate, TypeOK, Recorded, kept
  <2> QED BY <1>6, <2>1, <2>2 DEF ShipGate
<1>7. ASSUME ShipWrite(p) PROVE IInv'
  <2>1. /\ task' = [task EXCEPT ![tid[p]] = [mine[p] EXCEPT !.status = "shipped"]]
        /\ UNCHANGED <<evidence, clock>> /\ pc[p] = "ship" /\ Exit(p)
    BY <1>7 DEF ShipWrite
  <2>2. DoneHasProof'
    BY <2>1, MarkIsBacked DEF TASK_STATUSES
  <2>3. cmd[p] = "ship"
    BY <1>t, <2>1 DEF Job, shipping
  <2>4. \A t \in TaskIds : task'[t] # task[t] => t = tid[p] /\ cmd[p] # "do"
    BY <1>t, <2>1, <2>3 DEF TypeOK
  <2> QED BY <2>1, <2>2, <2>4, ExitStep
<1> QED BY <1>1, <1>2, <1>3, <1>4, <1>5, <1>6, <1>7

\* The first state.
LEMMA InitKeeps == Init => IInv
<1> SUFFICES ASSUME Init PROVE IInv
  OBVIOUS
<1>1. Typed
  BY InitTyped
<1>2. Exclusive /\ Recorded
  BY DEF Init, Exclusive, Recorded
<1>3. \A p \in Procs : Checked(p) /\ Unmarked(p) /\ Agrees(p) /\ Backed(p)
  BY DEF Init, Checked, Unmarked, Agrees, Backed
<1>4. DoneHasProof
  BY DEF Init, DoneHasProof, marked, Status
<1> QED BY <1>1, <1>2, <1>3, <1>4 DEF IInv

\* Steps that touch neither the store nor a process.
LEMMA StutterKeeps ==
    ASSUME IInv, Typed', UNCHANGED <<store, pc, local, clock>>
    PROVE  IInv'
<1> USE DEF store, local, job, checking
<1>1. Exclusive' /\ Recorded'
  BY DEF IInv, Exclusive, Recorded
<1>2. \A p \in Procs : (Checked(p) /\ Unmarked(p) /\ Agrees(p) /\ Backed(p))'
  BY DEF IInv, Checked, Unmarked, Agrees, Backed, marked, Status
<1>3. DoneHasProof'
  BY DEF IInv, DoneHasProof, marked, Status
<1> QED BY <1>1, <1>2, <1>3 DEF IInv

\* Every step keeps IInv, if do is alone.
LEMMA NextKeeps == DoRunsAlone /\ IInv /\ [Next]_vars => IInv'
<1> SUFFICES ASSUME DoRunsAlone, IInv, [Next]_vars PROVE IInv'
  OBVIOUS
<1>t. Typed'
  BY NextTyped DEF IInv
<1>1. ASSUME NEW p \in Procs, Start(p) PROVE IInv'
  BY <1>1, <1>t, DoCreateKeeps, LoadKeeps DEF Start, VerifyStart, ShipStart
<1>2. ASSUME NEW p \in Procs, Continue(p) PROVE IInv'
  BY <1>2, <1>t, DoingKeeps, GatingKeeps, ReadKeeps, WriteMergeKeeps
     DEF Continue, ReadForEdit, ReadForMerge
<1>3. ASSUME NEW p \in Procs, Crash(p) PROVE IInv'
  BY <1>3, <1>t, LeaveKeeps DEF Crash, store
<1>4. CASE Environment
  BY <1>4, <1>t, EnvironmentFrame, StutterKeeps
<1>5. CASE UNCHANGED vars
  BY <1>5, <1>t, StutterKeeps DEF vars, bounds
<1> QED BY <1>1, <1>2, <1>3, <1>4, <1>5 DEF Next

\* "No evidence, no done" (docs/architecture/runtime-foundation.md:15): if do
\* has its task to itself, then whatever verify and ship commands overlap on it,
\* whoever edits, commits or changes scripts, and whatever dies half way, a task
\* marked done or shipped keeps a required check and, for a mutation risk, sound
\* edit evidence with a changed file.  The overlap run shows why do must be alone.
THEOREM DoneAlwaysHasProof ==
    ASSUME DoRunsAlone
    PROVE  Spec => []DoneHasProof
<1>1. IInv => DoneHasProof
  BY DEF IInv
<1> QED BY <1>1, InitKeeps, NextKeeps, PTL DEF Spec

\* "No approval, no risky mutation" (docs/architecture/runtime-foundation.md:16):
\* nothing in src records an approval, so a task whose risk requires one is
\* never marked done or shipped: createRuntimeTask accepts it, and no command
\* can finish it.
THEOREM ApprovalRiskNeverMarked ==
    ASSUME DoRunsAlone
    PROVE  Spec => [](\A t \in TaskIds :
                         task[t] # None /\ task[t].risk \in APPROVAL_REQUIRED_RISKS
                             => ~ marked(t))
<1>1. IInv => \A t \in TaskIds :
                  task[t] # None /\ task[t].risk \in APPROVAL_REQUIRED_RISKS => ~ marked(t)
  BY DEF IInv, DoneHasProof, Recorded, plain, backed, hasValidApproval
<1> QED BY <1>1, InitKeeps, NextKeeps, PTL DEF Spec

-----------------------------------------------------------------------------
(* The gate as a function                                                  *)

\* do and verify call evaluateDoneGate with the kinds they selected, ship and
\* status with none, so that the recorded kinds are required.  On a record of
\* required checks that has every selected kind, both calls give one verdict:
\* what verify marks done, ship accepts, as long as the record stays.
THEOREM GateIgnoresCaller ==
    ASSUME NEW risk, NEW ev, NEW required, NEW now,
           ev # None, \A c \in ev.checks : c.required, required \subseteq kindsOf(ev.checks)
    PROVE  gatePassed(risk, ev, required, now)
               <=> gatePassed(risk, ev, deriveRequiredChecks(ev), now)
<1> USE DEF requiredResults, kindsOf, deriveRequiredChecks
<1>1. ASSUME gatePassed(risk, ev, required, now)
      PROVE  gatePassed(risk, ev, deriveRequiredChecks(ev), now)
  <2>1. requiredResults(ev) # {}
    <3>1. CASE required = {}
      BY <1>1, <3>1 DEF gatePassed
    <3>2. CASE required # {}
      BY <3>2
    <3> QED BY <3>1, <3>2
  <2> QED BY <1>1, <2>1 DEF gatePassed
<1>2. ASSUME gatePassed(risk, ev, deriveRequiredChecks(ev), now)
      PROVE  gatePassed(risk, ev, required, now)
  <2>1. requiredResults(ev) # {}
    BY <1>2 DEF gatePassed
  <2>2. \A kind \in required : \E c \in ev.checks : c.kind = kind
    OBVIOUS
  <2> QED BY <1>2, <2>1, <2>2 DEF gatePassed
<1> QED BY <1>1, <1>2

\* Waiting never helps: a gate that passes later passes now on the same record,
\* for time only lets approvals expire.
THEOREM GateOnlyExpires ==
    ASSUME NEW risk, NEW ev, NEW required, NEW now \in Nat, NEW later \in Nat,
           ev # None => ev \in EvidenceRecord,
           now <= later, gatePassed(risk, ev, required, later)
    PROVE  gatePassed(risk, ev, required, now)
<1>1. ASSUME hasValidApproval(ev, risk, later) PROVE hasValidApproval(ev, risk, now)
  <2>1. PICK a \in ev.approvals : /\ a.risk = risk
                                  /\ ~ a.revoked
                                  /\ a.expiresAt = None \/ a.expiresAt > later
    BY <1>1 DEF hasValidApproval
  <2>2. a.expiresAt \in Nat \union {None}
    BY DEF gatePassed, EvidenceRecord, ApprovalRecord
  <2>3. a.expiresAt = None \/ a.expiresAt > now
    BY <2>1, <2>2
  <2> QED BY <2>1, <2>3 DEF hasValidApproval
<1> QED BY <1>1 DEF gatePassed

-----------------------------------------------------------------------------
(* Whose proof it is                                                       *)

\* No two results in a record share a check id.
distinct(checks) == \A c, d \in checks : c.kind = d.kind /\ c.pos = d.pos => c = d

\* The shape EvidenceCoherent asks of one record.
coherent(ev) ==
    /\ distinct(ev.checks)
    /\ \A e \in ev.editTransactions : e.id = ev.createdAt

Coherent ==
    /\ \A t \in TaskIds : evidence[t] # None => coherent(evidence[t])
    /\ \A p \in Procs : snap[p] # None => coherent(snap[p])
    /\ \A p \in Procs : distinct(results[p])

\* A command has results only once it has selected checks, and none for a
\* check it has still to run.
Unrun(p) ==
    /\ pc[p] \in {"idle", "select"} \union doing \union shipping => results[p] = {}
    /\ pc[p] = "check" => \A c \in results[p] : c.kind \notin todo[p]

\* The task in memory is of the run whose task is on disk.
Current(p) ==
    pc[p] # "idle" =>
        /\ task[tid[p]] # None
        /\ mine[p].createdAt = task[tid[p]].createdAt
        /\ mine[p].risk = task[tid[p]].risk

\* So is the record a do collects, from its second write on, and what any
\* command has read to write it back.
Collects(p) ==
    /\ cmd[p] = "do" /\ pc[p] \notin {"idle", "blank"} =>
          /\ evidence[tid[p]] # None
          /\ evidence[tid[p]].createdAt = mine[p].createdAt
    /\ pc[p] \in {"editwrite", "mergewrite"} =>
          /\ evidence[tid[p]] # None
          /\ snap[p].createdAt = evidence[tid[p]].createdAt

starting(t) == \E p \in Procs : pc[p] = "blank" /\ tid[p] = t

\* As long as no command died, the record of a task is of its present run,
\* except between the two writes of createTask.
Dated ==
    crashes = 0 =>
        \A t \in TaskIds : task[t] # None /\ ~ starting(t) =>
            /\ evidence[t] # None
            /\ evidence[t].createdAt = task[t].createdAt

CInv ==
    /\ IInv
    /\ Coherent
    /\ \A p \in Procs : Unrun(p) /\ Current(p) /\ Collects(p)
    /\ Dated

\* A step that leaves the run of a task's two records alone.
sameRun(t) ==
    /\ task'[t] = None <=> task[t] = None
    /\ task[t] # None =>
          task'[t].createdAt = task[t].createdAt /\ task'[t].risk = task[t].risk
    /\ evidence[t] # None =>
          evidence'[t] # None /\ evidence'[t].createdAt = evidence[t].createdAt

\* The other processes keep their part of the invariant.
LEMMA OtherKept ==
    ASSUME CInv, NEW q \in Procs, kept(q), pc[q] = "idle" \/ sameRun(tid[q])
    PROVE  (Unrun(q) /\ Current(q) /\ Collects(q))'
<1>k. UNCHANGED <<pc[q], cmd[q], tid[q], mine[q], todo[q], results[q], snap[q]>>
  BY DEF kept
<1>c. Unrun(q) /\ Current(q) /\ Collects(q) /\ Job(q)
  BY DEF CInv, IInv, Typed
<1>1. Unrun(q)'
  BY <1>k, <1>c DEF Unrun
<1>2. Current(q)'
  BY <1>k, <1>c DEF Current, sameRun
<1>3. Collects(q)'
  BY <1>k, <1>c DEF Collects, sameRun
<1> QED BY <1>1, <1>2, <1>3

\* A step of p after which every record is of the run it was of.
LEMMA RunStep ==
    ASSUME CInv, IInv', NEW p \in Procs, \A q \in Procs : q # p => kept(q),
           \A t \in TaskIds : sameRun(t),
           pc'[p] # "blank", pc[p] = "blank" => crashes' # 0,
           crashes' = crashes \/ crashes' # 0,
           Coherent', (Unrun(p) /\ Current(p) /\ Collects(p))'
    PROVE  CInv'
<1>1. ASSUME NEW q \in Procs, q # p
      PROVE  (Unrun(q) /\ Current(q) /\ Collects(q))'
  <2>1. kept(q)
    BY <1>1
  <2>2. pc[q] = "idle" \/ sameRun(tid[q])
    BY DEF CInv, IInv, Typed, Job
  <2> QED BY <2>1, <2>2, OtherKept
<1>2. Dated'
  <2> SUFFICES ASSUME crashes' = 0, NEW t \in TaskIds, task'[t] # None, ~ starting(t)'
               PROVE  evidence'[t] # None /\ evidence'[t].createdAt = task'[t].createdAt
    BY DEF Dated
  <2>1. sameRun(t) /\ crashes = 0 /\ pc[p] # "blank"
    OBVIOUS
  <2>2. ~ starting(t)
    <3> SUFFICES ASSUME NEW q \in Procs, pc[q] = "blank", tid[q] = t PROVE FALSE
      BY DEF starting
    <3>1. pc'[q] = "blank" /\ tid'[q] = t
      BY <2>1 DEF kept
    <3> QED BY <3>1 DEF starting
  <2>3. task[t] # None
    BY <2>1 DEF sameRun
  <2>4. evidence[t] # None /\ evidence[t].createdAt = task[t].createdAt
    BY <2>1, <2>2, <2>3 DEF CInv, Dated
  <2> QED BY <2>1, <2>3, <2>4 DEF sameRun
<1> QED BY <1>1, <1>2 DEF CInv

\* A step of p that writes no evidence.
LEMMA CoherentKept ==
    ASSUME CInv, NEW p \in Procs, UNCHANGED evidence, \A q \in Procs : q # p => kept(q),
           snap'[p] # None => coherent(snap'[p]), distinct(results'[p])
    PROVE  Coherent'
<1>1. \A t \in TaskIds : evidence'[t] # None => coherent(evidence'[t])
  BY DEF CInv, Coherent
<1>2. \A q \in Procs : snap'[q] # None => coherent(snap'[q])
  BY DEF CInv, Coherent, kept
<1>3. \A q \in Procs : distinct(results'[q])
  BY DEF CInv, Coherent, kept
<1> QED BY <1>1, <1>2, <1>3 DEF Coherent

\* The end of p, after which every record is of the run it was of.
LEMMA RunExit ==
    ASSUME CInv, IInv', NEW p \in Procs, Exit(p), UNCHANGED evidence,
           \A t \in TaskIds : sameRun(t), pc[p] = "blank" => crashes' # 0,
           crashes' = crashes \/ crashes' # 0
    PROVE  CInv'
<1>t. TypeOK
  BY DEF CInv, IInv, Typed
<1>0. \A q \in Procs : q # p => kept(q)
  BY <1>t DEF Exit, Goto, kept, TypeOK
<1>1. /\ pc'[p] = "idle" /\ snap'[p] = None /\ results'[p] = {} /\ cmd'[p] = None
  BY <1>t DEF Exit, Goto, TypeOK
<1>2. Coherent'
  BY <1>0, <1>1, CoherentKept DEF distinct
<1>3. (Unrun(p) /\ Current(p) /\ Collects(p))'
  BY <1>1 DEF Unrun, Current, Collects
<1> QED BY <1>0, <1>1, <1>2, <1>3, RunStep

\* What writeTask writes is of the run of the task on disk.
LEMMA WriteTaskRun ==
    ASSUME CInv, NEW p \in Procs, pc[p] # "idle", NEW s, UNCHANGED evidence,
           task' = [task EXCEPT ![tid[p]] = [mine[p] EXCEPT !.status = s]],
           [mine[p] EXCEPT !.status = s] # None
    PROVE  \A t \in TaskIds : sameRun(t)
<1>t. TypeOK /\ tid[p] \in TaskIds /\ mine[p] \in Task /\ Current(p)
  BY DEF CInv, IInv, Typed, Job
<1>1. \A t \in TaskIds : t # tid[p] => task'[t] = task[t]
  BY <1>t DEF TypeOK
<1>2. task'[tid[p]] = [mine[p] EXCEPT !.status = s]
  BY <1>t DEF TypeOK
<1>3. /\ [mine[p] EXCEPT !.status = s].createdAt = mine[p].createdAt
      /\ [mine[p] EXCEPT !.status = s].risk = mine[p].risk
  BY <1>t DEF Task
<1> QED BY <1>t, <1>1, <1>2, <1>3 DEF sameRun, Current

\* A new run of a task: nobody is busy on it, and its record is to be replaced.
LEMMA DoCreateRuns ==
    ASSUME DoRunsAlone, CInv, IInv', NEW p \in Procs, NEW t \in TaskIds,
           NEW risk \in Risks, DoCreate(p, t, risk)
    PROVE  CInv'
<1> DEFINE new == [status |-> "intake", risk |-> risk, createdAt |-> clock + 1]
<1>t. TypeOK
  BY DEF CInv, IInv, Typed
<1>0. \A q \in Procs : q # p => kept(q)
  BY <1>t DEF DoCreate, Goto, kept, checking, TypeOK
<1>n. new \in Task /\ new # None
  <2>1. new \in Task
    BY <1>t, ConstantsAssumption DEF TypeOK, Task, TASK_STATUSES
  <2> QED BY <2>1, RecordsAssumption
<1>p. /\ cmd'[p] = "do" /\ tid'[p] = t /\ pc'[p] = "blank" /\ pc[p] = "idle"
      /\ mine'[p] = new /\ task'[t] = new
      /\ UNCHANGED <<evidence, snap, results, crashes>>
      /\ \A u \in TaskIds : u # t => task'[u] = task[u]
  BY <1>t DEF DoCreate, MayStart, Goto, checking, TypeOK
<1>q. \A q \in Procs : pc[q] # "idle" => tid[q] # t
  BY DEF DoCreate, MayStart, DoRunsAlone
<1>1. Coherent'
  BY <1>p DEF CInv, Coherent
<1>2. (Unrun(p) /\ Current(p) /\ Collects(p))'
  BY <1>p, <1>n DEF CInv, Unrun, Current, Collects
<1>3. ASSUME NEW q \in Procs, q # p
      PROVE  (Unrun(q) /\ Current(q) /\ Collects(q))'
  <2>1. pc[q] = "idle" \/ (tid[q] \in TaskIds /\ tid[q] # t)
    BY <1>q DEF CInv, IInv, Typed, Job
  <2>2. pc[q] = "idle" \/ sameRun(tid[q])
    BY <1>p, <2>1 DEF sameRun
  <2> QED BY <1>0, <1>3, <2>2, OtherKept
<1>4. Dated'
  <2> SUFFICES ASSUME crashes = 0, NEW u \in TaskIds, task'[u] # None, ~ starting(u)'
               PROVE  evidence[u] # None /\ evidence[u].createdAt = task'[u].createdAt
    BY <1>p DEF Dated
  <2>1. u # t
    BY <1>p DEF starting
  <2>2. ~ starting(u)
    <3> SUFFICES ASSUME NEW q \in Procs, pc[q] = "blank", tid[q] = u PROVE FALSE
      BY DEF starting
    <3>1. pc'[q] = "blank" /\ tid'[q] = u
      BY <1>0, <1>p DEF kept
    <3> QED BY <3>1 DEF starting
  <2> QED BY <1>p, <2>1, <2>2 DEF CInv, Dated
<1> QED BY <1>1, <1>2, <1>3, <1>4 DEF CInv

\* verify and ship start with the task as it is on disk.
LEMMA LoadRuns ==
    ASSUME CInv, IInv', NEW p \in Procs, NEW t \in TaskIds, NEW c, NEW to,
           Load(p, c, t, to),
           \/ c = "verify" /\ to = "select"
           \/ c = "ship" /\ to = "shipgate"
    PROVE  CInv'
<1>t. TypeOK
  BY DEF CInv, IInv, Typed
<1>0. \A q \in Procs : q # p => kept(q)
  BY <1>t DEF Load, Goto, kept, checking, TypeOK
<1>p. /\ cmd'[p] = c /\ tid'[p] = t /\ pc'[p] = to /\ pc[p] = "idle"
      /\ mine'[p] = task[t] /\ task[t] # None
      /\ UNCHANGED <<task, evidence, crashes, snap, results>>
  BY <1>t DEF Load, MayStart, Goto, checking, store, TypeOK
<1>1. Coherent'
  BY <1>p DEF CInv, Coherent
<1>2. (Unrun(p) /\ Current(p) /\ Collects(p))'
  BY <1>p DEF CInv, Unrun, Current, Collects
<1>3. \A u \in TaskIds : sameRun(u)
  BY <1>p DEF sameRun
<1> QED BY <1>0, <1>p, <1>1, <1>2, <1>3, RunStep

\* createTask's second write puts the record of the new run in place.
LEMMA BlankRuns ==
    ASSUME DoRunsAlone, CInv, IInv', NEW p \in Procs, WriteBlankEvidence(p)
    PROVE  CInv'
<1>t. TypeOK /\ Job(p) /\ Current(p) /\ Unrun(p)
  BY DEF CInv, IInv, Typed
<1>p. /\ pc[p] = "blank" /\ pc'[p] = "created" /\ cmd[p] = "do" /\ tid[p] \in TaskIds
      /\ mine[p] \in Task
      /\ UNCHANGED <<task, cmd, tid, mine, todo, results, snap, crashes>>
      /\ evidence'[tid[p]] = blankEvidence(mine[p].createdAt)
      /\ \A u \in TaskIds : u # tid[p] => evidence'[u] = evidence[u]
      /\ \A q \in Procs : q # p => kept(q)
  BY <1>t DEF WriteBlankEvidence, Goto, Job, TypeOK, local, job, checking, bounds,
     kept, doing
<1>b. /\ evidence'[tid[p]] # None
      /\ evidence'[tid[p]].createdAt = mine[p].createdAt
      /\ coherent(evidence'[tid[p]])
  <2>1. mine[p].createdAt \in Nat
    BY <1>p DEF Task
  <2>2. blankEvidence(mine[p].createdAt) # None
    BY <2>1, BlankType, RecordsAssumption
  <2> QED BY <1>p, <2>2 DEF blankEvidence, coherent, distinct
<1>1. Coherent'
  BY <1>p, <1>b DEF CInv, Coherent
<1>2. (Unrun(p) /\ Current(p) /\ Collects(p))'
  BY <1>t, <1>p, <1>b DEF Unrun, Current, Collects, doing, shipping
<1>3. ASSUME NEW q \in Procs, q # p
      PROVE  (Unrun(q) /\ Current(q) /\ Collects(q))'
  <2>1. pc[q] = "idle" \/ (tid[q] \in TaskIds /\ tid[q] # tid[p])
    BY <1>p, <1>3, Alone DEF CInv, IInv, Typed, Job
  <2>2. pc[q] = "idle" \/ sameRun(tid[q])
    BY <1>p, <2>1 DEF sameRun
  <2> QED BY <1>p, <1>3, <2>2, OtherKept
<1>4. Dated'
  <2> SUFFICES ASSUME crashes = 0, NEW u \in TaskIds, task[u] # None, ~ starting(u)'
               PROVE  evidence'[u] # None /\ evidence'[u].createdAt = task[u].createdAt
    BY <1>p DEF Dated
  <2>1. CASE u = tid[p]
    BY <1>t, <1>p, <1>b, <2>1 DEF Current
  <2>2. CASE u # tid[p]
    <3>1. ~ starting(u)
      <4> SUFFICES ASSUME NEW q \in Procs, pc[q] = "blank", tid[q] = u PROVE FALSE
        BY DEF starting
      <4>1. pc'[q] = "blank" /\ tid'[q] = u
        BY <1>p, <2>2 DEF kept
      <4> QED BY <4>1 DEF starting
    <3> QED BY <1>p, <2>2, <3>1 DEF CInv, Dated
  <2> QED BY <2>1, <2>2
<1> QED BY <1>1, <1>2, <1>3, <1>4 DEF CInv

\* A step of p that writes no file and reads no record.
LEMMA LocalRuns ==
    ASSUME CInv, IInv', NEW p \in Procs, UNCHANGED <<task, evidence, crashes>>,
           \A q \in Procs : q # p => kept(q),
           pc[p] \notin {"idle", "blank"}, UNCHANGED <<cmd, tid, mine, snap>>,
           pc'[p] \notin {"idle", "blank", "editwrite", "mergewrite"},
           distinct(results'[p]), Unrun(p)'
    PROVE  CInv'
<1>1. Coherent'
  BY CoherentKept DEF CInv, Coherent
<1>2. Current(p) /\ Collects(p)
  BY DEF CInv
<1>3. (Current(p) /\ Collects(p))'
  BY <1>2 DEF Current, Collects
<1>4. \A t \in TaskIds : sameRun(t)
  BY DEF sameRun
<1> QED BY <1>1, <1>3, <1>4, RunStep

\* The other steps of do before it verifies.
LEMMA DoingRuns ==
    ASSUME CInv, IInv', NEW p \in Procs
    PROVE  /\ LogCreated(p) => CInv'
           /\ BeginExecuting(p) => CInv'
           /\ ObserveChanges(p) => CInv'
           /\ DetectStale(p) => CInv'
           /\ DiffForward(p) => CInv'
           /\ DiffRollback(p) => CInv'
           /\ WriteEdit(p) => CInv'
           /\ BeginVerifying(p) => CInv'
<1> USE DEF Goto, job, local, checking, bounds
<1>t. TypeOK /\ Job(p) /\ Unrun(p) /\ Current(p) /\ Collects(p) /\ Coherent
  BY DEF CInv, IInv, Typed
<1>1. ASSUME LogCreated(p) PROVE CInv'
  <2>1. Unrun(p)' /\ distinct(results'[p])
    BY <1>1, <1>t DEF LogCreated, TypeOK, Unrun, Coherent, doing, shipping
  <2> QED BY <1>1, <1>t, <2>1, LocalRuns DEF LogCreated, TypeOK, kept
<1>2. ASSUME BeginExecuting(p) \/ BeginVerifying(p) PROVE CInv'
  <2>1. PICK s \in {"executing", "verifying"} : writeTask(p, s)
    BY <1>2 DEF BeginExecuting, BeginVerifying
  <2>0. /\ pc[p] \in {"begin", "verifying"} /\ pc'[p] \in {"observe", "select"}
        /\ pc[p] = "begin" => pc'[p] = "observe"
        /\ UNCHANGED <<evidence, cmd, tid, todo, results, snap, crashes>>
        /\ \A q \in Procs : q # p => kept(q)
    BY <1>2, <1>t DEF BeginExecuting, BeginVerifying, writeTask, TypeOK, kept
  <2>2. mine[p] \in Task /\ mine'[p] = [mine[p] EXCEPT !.status = s]
    BY <1>t, <2>0, <2>1 DEF Job, TypeOK, writeTask
  <2>3. [mine[p] EXCEPT !.status = s] # None
    <3>1. [mine[p] EXCEPT !.status = s] \in Task
      BY <2>2 DEF Task, TASK_STATUSES
    <3> QED BY <3>1, RecordsAssumption
  <2>4. \A t \in TaskIds : sameRun(t)
    BY <2>0, <2>1, <2>3, WriteTaskRun DEF writeTask
  <2>5. Coherent'
    BY <2>0, <1>t, CoherentKept DEF Coherent
  <2>6. /\ mine'[p].createdAt = mine[p].createdAt
        /\ mine'[p].risk = mine[p].risk
    BY <2>2 DEF Task
  <2>7. (Unrun(p) /\ Current(p) /\ Collects(p))'
    <3>1. tid[p] \in TaskIds /\ sameRun(tid[p])
      BY <1>t, <2>0, <2>4 DEF Job
    <3>2. Unrun(p)'
      BY <1>t, <2>0 DEF Unrun, doing
    <3>3. Current(p)'
      BY <1>t, <2>0, <2>6, <3>1 DEF Current, sameRun
    <3>4. Collects(p)'
      BY <1>t, <2>0, <2>6, <3>1 DEF Collects, sameRun
    <3> QED BY <3>2, <3>3, <3>4
  <2> QED BY <2>0, <2>4, <2>5, <2>7, RunStep
<1>3. ASSUME NEW from \in doing \ {"blank"}, NEW to \in doing \ {"blank"}, NEW seen,
             Look(p, from, to, seen), to # "editwrite"
      PROVE  CInv'
  <2>1. Unrun(p)' /\ distinct(results'[p])
    BY <1>3, <1>t DEF Look, TypeOK, Unrun, Coherent, doing, shipping
  <2> QED BY <1>3, <1>t, <2>1, LocalRuns DEF Look, store, TypeOK, kept, doing
<1>4. ASSUME WriteEdit(p) PROVE CInv'
  <2> DEFINE tx == transaction(draft[p], mine[p].createdAt)
             others == {e \in snap[p].editTransactions : e.id # tx.id}
             new == [snap[p] EXCEPT !.editTransactions = others \union {tx}]
  <2>0. /\ snap[p] \in EvidenceRecord /\ snap[p] # None /\ coherent(snap[p])
        /\ tid[p] \in TaskIds /\ cmd[p] = "do" /\ pc[p] = "editwrite"
        /\ evidence[tid[p]] # None
        /\ evidence[tid[p]].createdAt = mine[p].createdAt
        /\ snap[p].createdAt = mine[p].createdAt
    BY <1>4, <1>t, RecordsAssumption DEF WriteEdit, Job, Coherent, Collects, doing
  <2>1. /\ UNCHANGED <<task, cmd, tid, mine, todo, results, crashes>>
        /\ snap'[p] = None /\ pc'[p] = "verifying"
        /\ \A q \in Procs : q # p => kept(q)
    BY <1>4, <1>t DEF WriteEdit, TypeOK, kept
  <2>2. /\ evidence'[tid[p]] = new
        /\ \A u \in TaskIds : u # tid[p] => evidence'[u] = evidence[u]
    BY <1>4, <1>t, <2>0 DEF WriteEdit, TypeOK
  <2>3. /\ new.createdAt = mine[p].createdAt
        /\ new.checks = snap[p].checks
        /\ new.editTransactions = others \union {tx}
    BY <2>0 DEF EvidenceRecord
  <2>4. tx.id = mine[p].createdAt
    BY DEF transaction
  <2>5. coherent(new)
    BY <2>0, <2>3, <2>4 DEF coherent
  <2>6. new # None
    <3>1. tx \in EditTransaction
      <4>1. mine[p].createdAt \in Nat /\ draft[p] \in Draft
        BY <1>t, <2>0 DEF Job, Task, TypeOK
      <4> QED BY <4>1 DEF transaction, EditTransaction, EDIT_STATUSES, Draft
    <3>2. others \in SUBSET EditTransaction
      BY <2>0 DEF EvidenceRecord
    <3>3. new \in EvidenceRecord
      BY <2>0, <3>1, <3>2 DEF EvidenceRecord
    <3> QED BY <3>3, RecordsAssumption
  <2> HIDE DEF tx, others, new
  <2>7. Coherent'
    <3>1. \A u \in TaskIds : evidence'[u] # None => coherent(evidence'[u])
      BY <1>t, <2>2, <2>5 DEF Coherent
    <3>2. \A q \in Procs : snap'[q] # None => coherent(snap'[q])
      BY <1>t, <2>1 DEF Coherent, kept
    <3> QED BY <1>t, <2>1, <3>1, <3>2 DEF Coherent
  <2>8. (Unrun(p) /\ Current(p) /\ Collects(p))'
    BY <1>t, <2>0, <2>1, <2>2, <2>3, <2>6 DEF Unrun, Current, Collects, doing
  <2>9. \A u \in TaskIds : sameRun(u)
    BY <2>0, <2>1, <2>2, <2>3, <2>6 DEF sameRun
  <2> QED BY <2>0, <2>1, <2>7, <2>8, <2>9, RunStep
<1> QED
  BY <1>1, <1>2, <1>3, <1>4 DEF ObserveChanges, DetectStale, DiffForward,
     DiffRollback, doing

\* A read before a write.
LEMMA ReadRuns ==
    ASSUME CInv, IInv', NEW p \in Procs, NEW from, NEW to, ReadForUpdate(p, from, to),
           \/ from = "editread" /\ to = "editwrite"
           \/ from = "mergeread" /\ to = "mergewrite"
    PROVE  CInv'
<1>t. /\ TypeOK /\ Job(p) /\ Unrun(p) /\ Current(p) /\ Collects(p) /\ Coherent
      /\ pc[p] = from /\ UNCHANGED <<task, evidence, crashes>>
  BY DEF CInv, IInv, Typed, ReadForUpdate, store, bounds
<1>s. \A t \in TaskIds : sameRun(t)
  BY <1>t DEF sameRun
<1>1. CASE Exit(p)
  BY <1>t, <1>s, <1>1, RunExit
<1>2. CASE /\ evidence[tid[p]] # None
           /\ snap' = [snap EXCEPT ![p] = evidence[tid[p]]]
           /\ Goto(p, to)
           /\ UNCHANGED <<job, mine, draft, checking>>
  <2>1. /\ tid[p] \in TaskIds
        /\ UNCHANGED <<cmd, tid, mine, todo, results>>
        /\ \A q \in Procs : q # p => kept(q)
        /\ pc'[p] = to /\ snap'[p] = evidence[tid[p]]
    BY <1>t, <1>2 DEF job, checking, Goto, TypeOK, Job, kept
  <2>2. Coherent'
    BY <1>t, <1>2, <2>1, CoherentKept DEF Coherent
  <2>3. (Unrun(p) /\ Current(p) /\ Collects(p))'
    BY <1>t, <1>2, <2>1 DEF Unrun, Current, Collects, doing, shipping
  <2> QED BY <1>t, <1>s, <2>1, <2>2, <2>3, RunStep
<1> QED BY <1>1, <1>2 DEF ReadForUpdate

\* Incoming results replace the recorded ones of the same id.
LEMMA MergeDistinct ==
    ASSUME NEW existing, NEW incoming, distinct(existing), distinct(incoming)
    PROVE  distinct(mergeChecks(existing, incoming))
<1> SUFFICES ASSUME NEW c \in mergeChecks(existing, incoming),
                    NEW d \in mergeChecks(existing, incoming),
                    c.kind = d.kind, c.pos = d.pos
             PROVE  c = d
  BY DEF distinct
<1> DEFINE old == {x \in existing :
                      \A y \in incoming : <<y.kind, y.pos>> # <<x.kind, x.pos>>}
<1>1. c \in old \union incoming /\ d \in old \union incoming
  BY DEF mergeChecks
<1>2. CASE c \in old /\ d \in old
  BY <1>2 DEF distinct
<1>3. CASE c \in incoming /\ d \in incoming
  BY <1>3 DEF distinct
<1>4. CASE (c \in old /\ d \in incoming) \/ (d \in old /\ c \in incoming)
  <2>1. <<c.kind, c.pos>> = <<d.kind, d.pos>>
    OBVIOUS
  <2> QED BY <1>4, <2>1
<1> QED BY <1>1, <1>2, <1>3, <1>4

\* The merge writes what was read, and the results.
LEMMA MergeRuns ==
    ASSUME CInv, IInv', NEW p \in Procs, WriteMerge(p)
    PROVE  CInv'
<1> DEFINE new == [snap[p] EXCEPT !.checks = mergeChecks(@, results[p])]
<1>t. TypeOK /\ Job(p) /\ Unrun(p) /\ Current(p) /\ Collects(p) /\ Coherent
  BY DEF CInv, IInv, Typed
<1>0. /\ pc[p] = "mergewrite" /\ tid[p] \in TaskIds /\ snap[p] \in EvidenceRecord
      /\ snap[p] # None /\ coherent(snap[p])
      /\ evidence[tid[p]] # None
      /\ snap[p].createdAt = evidence[tid[p]].createdAt
  BY <1>t, RecordsAssumption DEF WriteMerge, Job, Coherent, Collects
<1>1. /\ UNCHANGED <<task, crashes, cmd, tid, mine, todo, results>>
      /\ \A q \in Procs : q # p => kept(q)
      /\ pc'[p] = "gate" /\ snap'[p] = None
  BY <1>t, <1>0 DEF WriteMerge, Goto, job, checking, bounds, TypeOK, kept
<1>2. /\ evidence'[tid[p]] = new
      /\ \A u \in TaskIds : u # tid[p] => evidence'[u] = evidence[u]
  BY <1>t, <1>0 DEF WriteMerge, TypeOK
<1>3. /\ new.checks = mergeChecks(snap[p].checks, results[p])
      /\ new.createdAt = snap[p].createdAt
      /\ new.editTransactions = snap[p].editTransactions
  BY <1>0 DEF EvidenceRecord
<1>4. new # None
  <2>1. mergeChecks(snap[p].checks, results[p]) \in SUBSET CheckResult
    BY <1>t, <1>0, MergeType DEF EvidenceRecord, TypeOK
  <2>2. new \in EvidenceRecord
    BY <1>0, <2>1 DEF EvidenceRecord
  <2> QED BY <2>2, RecordsAssumption
<1>5. coherent(new)
  <2>1. distinct(new.checks)
    BY <1>t, <1>0, <1>3, MergeDistinct DEF coherent, Coherent
  <2> QED BY <1>0, <1>3, <2>1 DEF coherent
<1> HIDE DEF new
<1>6. Coherent'
  <2>1. \A u \in TaskIds : evidence'[u] # None => coherent(evidence'[u])
    BY <1>t, <1>2, <1>5 DEF Coherent
  <2>2. \A q \in Procs : snap'[q] # None => coherent(snap'[q])
    BY <1>t, <1>1 DEF Coherent, kept
  <2> QED BY <1>t, <1>1, <2>1, <2>2 DEF Coherent
<1>7. (Unrun(p) /\ Current(p) /\ Collects(p))'
  BY <1>t, <1>0, <1>1, <1>2, <1>3, <1>4 DEF Unrun, Current, Collects, doing, shipping
<1>8. \A u \in TaskIds : sameRun(u)
  BY <1>0, <1>1, <1>2, <1>3, <1>4 DEF sameRun
<1> QED BY <1>0, <1>1, <1>6, <1>7, <1>8, RunStep

\* The other steps do and verify share, the log of do, and those of ship.
LEMMA GatingRuns ==
    ASSUME CInv, IInv', NEW p \in Procs
    PROVE  /\ SelectChecks(p) => CInv'
           /\ RunCheck(p) => CInv'
           /\ EvaluateGate(p) => CInv'
           /\ MarkTask(p) => CInv'
           /\ LogVerdict(p) => CInv'
           /\ ShipGate(p) => CInv'
           /\ ShipWrite(p) => CInv'
<1> USE DEF Goto, job, local, checking, bounds, store
<1>t. TypeOK /\ Job(p) /\ Unrun(p) /\ Current(p) /\ Collects(p) /\ Coherent
  BY DEF CInv, IInv, Typed
<1>s. UNCHANGED <<task, evidence>> => \A t \in TaskIds : sameRun(t)
  BY DEF sameRun
<1>m. ASSUME pc[p] # "idle", NEW s \in TASK_STATUSES, UNCHANGED evidence,
             task' = [task EXCEPT ![tid[p]] = [mine[p] EXCEPT !.status = s]]
      PROVE  /\ \A t \in TaskIds : sameRun(t)
             /\ [mine[p] EXCEPT !.status = s].createdAt = mine[p].createdAt
             /\ [mine[p] EXCEPT !.status = s].risk = mine[p].risk
  <2>1. mine[p] \in Task /\ [mine[p] EXCEPT !.status = s] \in Task
    BY <1>t, <1>m DEF Job, Task
  <2>2. [mine[p] EXCEPT !.status = s] # None
    BY <2>1, RecordsAssumption
  <2> QED BY <1>m, <2>1, <2>2, WriteTaskRun DEF Task
<1>1. ASSUME SelectChecks(p) PROVE CInv'
  <2>1. Unrun(p)' /\ distinct(results'[p])
    BY <1>1, <1>t DEF SelectChecks, TypeOK, Unrun, Coherent, doing, shipping
  <2> QED BY <1>1, <1>t, <2>1, LocalRuns DEF SelectChecks, TypeOK, kept
<1>2. ASSUME RunCheck(p) PROVE CInv'
  <2> DEFINE new(kind, status) == [kind |-> kind, pos |-> position(kind, selected[p]),
                                   status |-> status, required |-> TRUE]
  <2>1. PICK kind \in todo[p], status \in Outcomes :
          /\ results' = [results EXCEPT ![p] = @ \union {new(kind, status)}]
          /\ todo' = [todo EXCEPT ![p] = @ \ {kind}]
          /\ Goto(p, IF todo[p] = {kind} THEN "mergeread" ELSE "check")
    BY <1>2 DEF RunCheck
  <2>2. /\ results'[p] = results[p] \union {new(kind, status)}
        /\ todo'[p] = todo[p] \ {kind}
        /\ pc'[p] \in {"mergeread", "check"} /\ pc[p] = "check"
        /\ new(kind, status).kind = kind
    BY <1>2, <1>t, <2>1 DEF RunCheck, TypeOK
  <2>3. \A c \in results[p] : c.kind # kind /\ c.kind \notin todo[p]
    BY <1>t, <2>2 DEF Unrun
  <2> HIDE DEF new
  <2>4. distinct(results'[p])
    BY <1>t, <2>2, <2>3 DEF distinct, Coherent
  <2>5. Unrun(p)'
    BY <2>2, <2>3 DEF Unrun, doing, shipping
  <2>6. /\ UNCHANGED <<task, evidence, crashes, cmd, tid, mine, snap>>
        /\ \A q \in Procs : q # p => kept(q)
    BY <1>2, <1>t, <2>1 DEF RunCheck, TypeOK, kept
  <2> QED BY <2>2, <2>4, <2>5, <2>6, LocalRuns
<1>3. ASSUME EvaluateGate(p) PROVE CInv'
  <2>1. Unrun(p)' /\ distinct(results'[p])
    BY <1>3, <1>t DEF EvaluateGate, TypeOK, Unrun, Coherent, doing, shipping
  <2> QED BY <1>3, <1>t, <2>1, LocalRuns DEF EvaluateGate, TypeOK, kept
<1>4. ASSUME MarkTask(p) PROVE CInv'
  <2> DEFINE s == verdict[pc[p]]
  <2>0. /\ s \in TASK_STATUSES /\ pc[p] \in {"passed", "blocked"}
        /\ task' = [task EXCEPT ![tid[p]] = [mine[p] EXCEPT !.status = s]]
        /\ UNCHANGED <<evidence, crashes>>
    BY <1>4 DEF MarkTask, writeTask, verdict, TASK_STATUSES
  <2> HIDE DEF s
  <2>1. /\ \A t \in TaskIds : sameRun(t)
        /\ [mine[p] EXCEPT !.status = s].createdAt = mine[p].createdAt
        /\ [mine[p] EXCEPT !.status = s].risk = mine[p].risk
    BY <2>0, <1>m
  <2>2. CASE cmd[p] = "do"
    <3>1. /\ pc'[p] \in logging
          /\ mine'[p] = [mine[p] EXCEPT !.status = s]
          /\ UNCHANGED <<cmd, tid, todo, results, snap>>
          /\ \A q \in Procs : q # p => kept(q)
      BY <1>4, <1>t, <2>2 DEF MarkTask, writeTask, TypeOK, kept, logging, s
    <3>2. Coherent'
      BY <1>t, <2>0, <3>1, CoherentKept DEF Coherent
    <3>3. tid[p] \in TaskIds /\ sameRun(tid[p])
      BY <1>t, <2>0, <2>1 DEF Job
    <3>4. (Unrun(p) /\ Current(p) /\ Collects(p))'
      BY <1>t, <2>0, <2>1, <3>1, <3>3 DEF Unrun, Current, Collects, sameRun, logging,
         doing, shipping
    <3> QED BY <2>0, <2>1, <3>1, <3>2, <3>4, RunStep DEF logging
  <2>3. CASE Exit(p)
    BY <2>0, <2>1, <2>3, RunExit
  <2> QED BY <1>4, <2>2, <2>3 DEF MarkTask
<1>5. ASSUME LogVerdict(p) PROVE CInv'
  BY <1>5, <1>s, RunExit DEF LogVerdict
<1>6. ASSUME ShipGate(p) PROVE CInv'
  <2>1. CASE Exit(p)
    BY <1>6, <1>s, <2>1, RunExit DEF ShipGate
  <2>2. CASE Goto(p, "ship") /\ UNCHANGED local
    <3>1. Unrun(p)' /\ distinct(results'[p])
      BY <1>6, <2>2, <1>t DEF ShipGate, TypeOK, Unrun, Coherent, doing, shipping
    <3> QED BY <1>6, <2>2, <1>t, <3>1, LocalRuns DEF ShipGate, TypeOK, kept
  <2> QED BY <1>6, <2>1, <2>2 DEF ShipGate
<1>7. ASSUME ShipWrite(p) PROVE CInv'
  <2>1. \A t \in TaskIds : sameRun(t)
    BY <1>7, <1>m DEF ShipWrite, TASK_STATUSES
  <2> QED BY <1>7, <2>1, RunExit DEF ShipWrite
<1> QED BY <1>1, <1>2, <1>3, <1>4, <1>5, <1>6, <1>7

\* The first state.
LEMMA InitRuns == Init => CInv
<1> SUFFICES ASSUME Init PROVE CInv
  OBVIOUS
<1>1. IInv
  BY InitKeeps
<1>2. Coherent /\ Dated
  BY DEF Init, Coherent, distinct, Dated
<1>3. \A p \in Procs : Unrun(p) /\ Current(p) /\ Collects(p)
  BY DEF Init, Unrun, Current, Collects
<1> QED BY <1>1, <1>2, <1>3 DEF CInv

\* Steps that touch neither the store nor a process.
LEMMA StutterRuns ==
    ASSUME CInv, IInv', UNCHANGED <<store, pc, local, crashes>>
    PROVE  CInv'
<1> USE DEF store, local, job, checking
<1>1. Coherent'
  BY DEF CInv, Coherent
<1>2. \A p \in Procs : (Unrun(p) /\ Current(p) /\ Collects(p))'
  BY DEF CInv, Unrun, Current, Collects
<1>3. Dated'
  BY DEF CInv, Dated, starting
<1> QED BY <1>1, <1>2, <1>3 DEF CInv

\* Every step keeps CInv, if do is alone.
LEMMA NextRuns == DoRunsAlone /\ CInv /\ [Next]_vars => CInv'
<1> SUFFICES ASSUME DoRunsAlone, CInv, [Next]_vars PROVE CInv'
  OBVIOUS
<1>i. IInv'
  BY NextKeeps DEF CInv
<1>1. ASSUME NEW p \in Procs, Start(p) PROVE CInv'
  BY <1>1, <1>i, DoCreateRuns, LoadRuns DEF Start, VerifyStart, ShipStart
<1>2. ASSUME NEW p \in Procs, Continue(p) PROVE CInv'
  BY <1>2, <1>i, BlankRuns, DoingRuns, GatingRuns, ReadRuns, MergeRuns
     DEF Continue, ReadForEdit, ReadForMerge
<1>3. ASSUME NEW p \in Procs, Crash(p) PROVE CInv'
  <2>1. crashes' # 0 /\ UNCHANGED <<task, evidence>> /\ Exit(p)
    BY <1>3 DEF Crash, store, CInv, IInv, Typed, TypeOK
  <2>2. \A t \in TaskIds : sameRun(t)
    BY <2>1 DEF sameRun
  <2> QED BY <1>i, <2>1, <2>2, RunExit
<1>4. CASE Environment
  BY <1>4, <1>i, EnvironmentFrame, StutterRuns
<1>5. CASE UNCHANGED vars
  BY <1>5, <1>i, StutterRuns DEF vars, bounds
<1> QED BY <1>1, <1>2, <1>3, <1>4, <1>5 DEF Next

\* However verify and ship commands on one task interleave, a record never holds
\* two results of one check id, nor edit evidence of another run than its own:
\* mergeChecks (packages/verifier) and updateEvidence (packages/evidence) keep
\* ids apart although each write is a read of some time before, written back.
THEOREM EvidenceStaysCoherent ==
    ASSUME DoRunsAlone
    PROVE  Spec => []EvidenceCoherent
<1>1. CInv => EvidenceCoherent
  BY DEF CInv, Coherent, coherent, distinct, EvidenceCoherent
<1> QED BY <1>1, InitRuns, NextRuns, PTL DEF Spec

\* Until a command dies, the evidence under a task marked done or shipped was
\* collected by the do that set its present goal and risk.  The crash run shows
\* that a do that dies between the two writes of createTask breaks it.
THEOREM ProofBelongsToItsRun ==
    ASSUME DoRunsAlone
    PROVE  Spec => []ProofBelongsToRunUnlessCrashed
<1>1. CInv => ProofBelongsToRunUnlessCrashed
  <2> SUFFICES ASSUME CInv, crashes = 0, NEW t \in TaskIds, marked(t),
                      evidence[t] # None
               PROVE  evidence[t].createdAt = task[t].createdAt
    BY DEF ProofBelongsToRunUnlessCrashed, ProofBelongsToRun
  <2>1. task[t] # None
    BY DEF marked, Status
  <2>2. ~ starting(t)
    BY DEF CInv, IInv, Typed, Job, Unmarked, starting, doing, logging
  <2> QED BY <2>1, <2>2 DEF CInv, Dated
<1> QED BY <1>1, InitRuns, NextRuns, PTL DEF Spec

-----------------------------------------------------------------------------
(* What a verdict is worth                                                 *)

\* No command that writes evidence or a verdict shares its task.
VerdictsRunAlone == Overlap \subseteq {"ship"}

\* What the Done Gate says of a task when its caller names no checks.
wouldPass(t) ==
    gatePassed(task[t].risk, evidence[t], deriveRequiredChecks(evidence[t]), clock)

\* The lifecycle a do has taken its task through before it verifies.
Lifecycle(p) ==
    /\ pc[p] \in {"blank", "created", "begin"} => Status(tid[p]) = "intake"
    /\ pc[p] \in doing \ {"blank", "created", "begin"} => Status(tid[p]) = "executing"
    /\ pc[p] \in {"begin", "created", "blank"} => mine[p].status = "intake"

\* Every check that was selected is still to run, has a result, or is recorded.
Covers(p) ==
    /\ pc[p] = "check" => selected[p] \subseteq kindsOf(results[p]) \union todo[p]
    /\ pc[p] \in {"mergeread", "mergewrite"} => selected[p] \subseteq kindsOf(results[p])
    /\ pc[p] = "gate" /\ evidence[tid[p]] # None =>
          selected[p] \subseteq kindsOf(evidence[tid[p]].checks)

\* A verdict still holds of the evidence on disk when it is written.
Holds(p) ==
    /\ pc[p] \in {"passed", "ship"} => wouldPass(tid[p])
    /\ pc[p] = "blocked" => ~ wouldPass(tid[p])

judging(t) == \E p \in Procs : pc[p] \in doing \union gating /\ tid[p] = t

\* As long as no command died, a task nobody judges has the status its
\* evidence deserves.
Settled ==
    crashes = 0 =>
        \A t \in TaskIds : task[t] # None /\ ~ judging(t) => (marked(t) <=> wouldPass(t))

VInv ==
    /\ CInv
    /\ \A p \in Procs : Lifecycle(p) /\ Covers(p) /\ Holds(p)
    /\ Settled

\* Without approvals, which nothing records, the gate does not look at the clock.
LEMMA GateIgnoresClock ==
    ASSUME NEW risk, NEW ev, NEW required, NEW now, NEW later, ev # None => plain(ev)
    PROVE  gatePassed(risk, ev, required, now) <=> gatePassed(risk, ev, required, later)
BY DEF gatePassed, hasValidApproval, plain

\* As long as record and risk stay, so does what the gate would say.
LEMMA WouldPassKept ==
    ASSUME IInv, NEW t \in TaskIds, task'[t].risk = task[t].risk, UNCHANGED evidence[t]
    PROVE  wouldPass(t)' <=> wouldPass(t)
<1>1. evidence[t] # None => plain(evidence[t])
  BY DEF IInv, Recorded
<1> QED BY <1>1, GateIgnoresClock DEF wouldPass

\* A verifier's or a do's task is its own.
LEMMA JudgesAlone ==
    ASSUME VerdictsRunAlone, IInv, NEW p \in Procs, NEW q \in Procs, p # q,
           pc[p] # "idle", pc[q] # "idle", cmd[p] # "ship" \/ cmd[q] # "ship"
    PROVE  tid[p] # tid[q]
BY DEF VerdictsRunAlone, IInv, Exclusive

\* The stronger assumption implies the weaker.
LEMMA AloneImplies == VerdictsRunAlone => DoRunsAlone
BY DEF VerdictsRunAlone, DoRunsAlone

same(t) == task'[t] = task[t] /\ evidence'[t] = evidence[t]

whole(q) == kept(q) /\ UNCHANGED selected[q]

\* The other processes keep their part of the invariant.
LEMMA OtherVerdict ==
    ASSUME VInv, NEW q \in Procs, whole(q), pc[q] = "idle" \/ same(tid[q])
    PROVE  (Lifecycle(q) /\ Covers(q) /\ Holds(q))'
<1>k. UNCHANGED <<pc[q], cmd[q], tid[q], mine[q], todo[q], results[q], selected[q]>>
  BY DEF kept, whole
<1>c. Lifecycle(q) /\ Covers(q) /\ Holds(q) /\ Job(q)
  BY DEF VInv, CInv, IInv, Typed
<1>1. CASE pc[q] = "idle"
  BY <1>k, <1>1 DEF Lifecycle, Covers, Holds, doing
<1>2. CASE pc[q] # "idle"
  <2>1. same(tid[q]) /\ tid[q] \in TaskIds
    BY <1>2, <1>c DEF Job
  <2>2. wouldPass(tid[q])' <=> wouldPass(tid[q])
    <3>1. /\ task'[tid[q]].risk = task[tid[q]].risk
          /\ evidence'[tid[q]] = evidence[tid[q]]
      BY <2>1 DEF same
    <3>2. gatePassed(task[tid[q]].risk, evidence[tid[q]],
                     deriveRequiredChecks(evidence[tid[q]]), clock')
            <=> gatePassed(task[tid[q]].risk, evidence[tid[q]],
                     deriveRequiredChecks(evidence[tid[q]]), clock)
      <4>1. evidence[tid[q]] # None => plain(evidence[tid[q]])
        BY <2>1 DEF VInv, CInv, IInv, Recorded
      <4> QED BY <4>1, GateIgnoresClock
    <3> QED BY <1>k, <3>1, <3>2 DEF wouldPass
  <2>3. Lifecycle(q)'
    BY <1>k, <1>c, <2>1 DEF Lifecycle, same, Status
  <2>4. Covers(q)'
    BY <1>k, <1>c, <2>1 DEF Covers, same
  <2>5. Holds(q)'
    BY <1>k, <1>c, <2>2 DEF Holds
  <2> QED BY <2>3, <2>4, <2>5
<1> QED BY <1>1, <1>2

settled(t) ==
    crashes = 0 /\ task[t] # None /\ ~ judging(t) => (marked(t) <=> wouldPass(t))

\* A step of p that concerns no task but t, and nobody else if it writes t.
LEMMA VerdictStep ==
    ASSUME VInv, CInv', NEW p \in Procs, NEW t \in TaskIds,
           \A q \in Procs : q # p => whole(q),
           pc[p] = "idle" \/ tid[p] = t, pc'[p] = "idle" \/ tid'[p] = t,
           \A u \in TaskIds : u # t => same(u),
           same(t) \/ \A q \in Procs : q # p /\ pc[q] # "idle" => tid[q] # t,
           crashes' = 0 => crashes = 0,
           (Lifecycle(p) /\ Covers(p) /\ Holds(p))', settled(t)'
    PROVE  VInv'
<1>1. ASSUME NEW q \in Procs, q # p
      PROVE  (Lifecycle(q) /\ Covers(q) /\ Holds(q))'
  <2>1. pc[q] = "idle" \/ same(tid[q])
    BY <1>1 DEF VInv, CInv, IInv, Typed, Job
  <2> QED BY <1>1, <2>1, OtherVerdict
<1>2. Settled'
  <2> SUFFICES ASSUME NEW u \in TaskIds PROVE settled(u)'
    BY DEF Settled, settled
  <2>1. CASE u = t
    BY <2>1
  <2>2. CASE u # t
    <3> SUFFICES ASSUME crashes' = 0, task'[u] # None, ~ judging(u)'
                 PROVE  marked(u)' <=> wouldPass(u)'
      BY DEF settled
    <3>1. same(u) /\ crashes = 0 /\ task[u] # None
      BY <2>2 DEF same
    <3>2. ~ judging(u)
      <4> SUFFICES ASSUME NEW q \in Procs, pc[q] \in doing \union gating, tid[q] = u
                   PROVE  FALSE
        BY DEF judging
      <4>1. q # p
        BY <2>2 DEF doing, gating
      <4>2. pc'[q] \in doing \union gating /\ tid'[q] = u
        BY <4>1 DEF whole, kept
      <4> QED BY <4>2 DEF judging
    <3>3. marked(u) <=> wouldPass(u)
      BY <3>1, <3>2 DEF VInv, Settled
    <3>4. wouldPass(u)' <=> wouldPass(u)
      BY <3>1, WouldPassKept DEF same, VInv, CInv
    <3>5. marked(u)' <=> marked(u)
      BY <3>1 DEF same, marked, Status
    <3> QED BY <3>3, <3>4, <3>5
  <2> QED BY <2>1, <2>2
<1> QED BY <1>1, <1>2 DEF VInv

\* A step of p that writes no record: a task that nobody judges is as settled
\* as it was, unless p leaves it unjudged.
LEMMA VerdictRead ==
    ASSUME VInv, CInv', NEW p \in Procs, NEW t \in TaskIds,
           UNCHANGED <<task, evidence>>, \A q \in Procs : q # p => whole(q),
           pc[p] = "idle" \/ tid[p] = t, pc'[p] = "idle" \/ tid'[p] = t,
           crashes' = 0 => crashes = 0,
           \/ pc'[p] \in doing \union gating
           \/ pc[p] \notin doing \union gating
           \/ crashes' # 0,
           (Lifecycle(p) /\ Covers(p) /\ Holds(p))'
    PROVE  VInv'
<1>s. \A u \in TaskIds : same(u)
  BY DEF same
<1>1. settled(t)'
  <2> SUFFICES ASSUME crashes' = 0, task[t] # None, ~ judging(t)'
               PROVE  marked(t)' <=> wouldPass(t)'
    BY DEF settled
  <2>1. pc[p] \notin doing \union gating
    BY DEF judging, doing, gating
  <2>2. ~ judging(t)
    <3> SUFFICES ASSUME NEW q \in Procs, pc[q] \in doing \union gating, tid[q] = t
                 PROVE  FALSE
      BY DEF judging
    <3>1. pc'[q] \in doing \union gating /\ tid'[q] = t
      BY <2>1 DEF whole, kept
    <3> QED BY <3>1 DEF judging
  <2>3. marked(t) <=> wouldPass(t)
    BY <2>2 DEF VInv, Settled
  <2>4. wouldPass(t)' <=> wouldPass(t)
    BY WouldPassKept DEF VInv, CInv
  <2> QED BY <2>3, <2>4 DEF marked, Status
<1> QED BY <1>s, <1>1, VerdictStep


\* A command that starts.
LEMMA StartVerdict ==
    ASSUME VerdictsRunAlone, VInv, CInv', NEW p \in Procs, Start(p)
    PROVE  VInv'
<1>t. TypeOK
  BY DEF VInv, CInv, IInv, Typed
<1>1. ASSUME NEW t \in TaskIds, NEW risk \in Risks, DoCreate(p, t, risk)
      PROVE  VInv'
  <2>1. \A q \in Procs : q # p => whole(q)
    BY <1>1, <1>t DEF DoCreate, Goto, whole, kept, checking, TypeOK
  <2>2. /\ tid'[p] = t /\ pc'[p] = "blank" /\ pc[p] = "idle"
        /\ task'[t] = mine'[p] /\ mine'[p].status = "intake"
        /\ UNCHANGED <<evidence, crashes>>
        /\ \A u \in TaskIds : u # t => task'[u] = task[u]
    BY <1>1, <1>t DEF DoCreate, MayStart, Goto, checking, TypeOK
  <2>3. \A q \in Procs : q # p /\ pc[q] # "idle" => tid[q] # t
    BY <1>1 DEF DoCreate, MayStart, VerdictsRunAlone
  <2>4. \A u \in TaskIds : u # t => same(u)
    BY <2>2 DEF same
  <2>5. task'[t] # None
    BY <2>2 DEF CInv, Current
  <2>6. (Lifecycle(p) /\ Covers(p) /\ Holds(p))'
    BY <2>2, <2>5 DEF Lifecycle, Covers, Holds, Status, doing
  <2>7. settled(t)'
    <3>1. judging(t)'
      BY <2>2 DEF judging, doing
    <3> QED BY <3>1 DEF settled
  <2> QED BY <2>1, <2>2, <2>3, <2>4, <2>6, <2>7, VerdictStep
<1>2. ASSUME NEW t \in TaskIds, NEW c, NEW to, Load(p, c, t, to),
             to \in {"select", "shipgate"}
      PROVE  VInv'
  <2>1. \A q \in Procs : q # p => whole(q)
    BY <1>2, <1>t DEF Load, Goto, whole, kept, checking, TypeOK
  <2>2. /\ tid'[p] = t /\ pc'[p] = to /\ pc[p] = "idle"
        /\ UNCHANGED <<task, evidence, crashes>>
    BY <1>2, <1>t DEF Load, MayStart, Goto, checking, store, TypeOK
  <2>3. (Lifecycle(p) /\ Covers(p) /\ Holds(p))'
    BY <1>2, <2>2 DEF Lifecycle, Covers, Holds, doing
  <2> QED BY <2>1, <2>2, <2>3, VerdictRead DEF doing, gating
<1> QED BY <1>1, <1>2 DEF Start, VerifyStart, ShipStart

\* A step by which p, alone on its task, goes on towards its verdict.
LEMMA JudgeStep ==
    ASSUME VerdictsRunAlone, VInv, CInv', NEW p \in Procs,
           pc[p] # "idle", cmd[p] # "ship",
           \A q \in Procs : q # p => whole(q), UNCHANGED <<tid, crashes>>,
           pc'[p] \in doing \union gating,
           \A u \in TaskIds : u # tid[p] => same(u),
           (Lifecycle(p) /\ Covers(p) /\ Holds(p))'
    PROVE  VInv'
<1>1. tid[p] \in TaskIds
  BY DEF VInv, CInv, IInv, Typed, Job
<1>2. \A q \in Procs : q # p /\ pc[q] # "idle" => tid[q] # tid[p]
  BY JudgesAlone DEF VInv, CInv
<1>3. settled(tid[p])'
  <2>1. judging(tid[p])'
    BY DEF judging
  <2> QED BY <2>1 DEF settled
<1>4. ASSUME NEW t \in TaskIds, t = tid[p] PROVE VInv'
  <2>1. settled(t)'
    BY <1>3, <1>4 DEF settled, judging, marked, Status, wouldPass
  <2> QED BY <1>2, <1>4, <2>1, VerdictStep
<1> QED BY <1>1, <1>4

\* The steps of do before it verifies.
LEMMA DoingVerdict ==
    ASSUME VerdictsRunAlone, VInv, CInv', NEW p \in Procs
    PROVE  /\ WriteBlankEvidence(p) => VInv'
           /\ LogCreated(p) => VInv'
           /\ BeginExecuting(p) => VInv'
           /\ ObserveChanges(p) => VInv'
           /\ DetectStale(p) => VInv'
           /\ DiffForward(p) => VInv'
           /\ DiffRollback(p) => VInv'
           /\ WriteEdit(p) => VInv'
           /\ BeginVerifying(p) => VInv'
<1> USE DEF Goto, job, local, checking, bounds
<1>t. TypeOK /\ Job(p) /\ Lifecycle(p)
  BY DEF VInv, CInv, IInv, Typed
\* A step that leaves task.json alone.
<1>a. ASSUME NEW from \in doing, NEW to \in doing, pc[p] = from, pc'[p] = to,
             UNCHANGED <<task, tid, crashes>>, mine'[p] = mine[p],
             \A u \in TaskIds : u # tid[p] => evidence'[u] = evidence[u],
             \A q \in Procs : q # p => whole(q),
             from \in {"blank", "created", "begin"} <=> to \in {"created", "begin"},
             to # "blank"
      PROVE  VInv'
  <2>1. (Lifecycle(p) /\ Covers(p) /\ Holds(p))'
    BY <1>a, <1>t DEF Lifecycle, Covers, Holds, Status, doing
  <2>2. cmd[p] # "ship" /\ pc[p] # "idle" /\ tid[p] \in TaskIds
    BY <1>a, <1>t DEF Job, doing
  <2> QED BY <1>a, <2>1, <2>2, JudgeStep DEF same
<1>1. ASSUME WriteBlankEvidence(p) PROVE VInv'
  <2>1. /\ UNCHANGED <<task, tid, crashes>> /\ mine'[p] = mine[p]
        /\ pc[p] = "blank" /\ pc'[p] = "created"
        /\ \A u \in TaskIds : u # tid[p] => evidence'[u] = evidence[u]
        /\ \A q \in Procs : q # p => whole(q)
    BY <1>1, <1>t DEF WriteBlankEvidence, TypeOK, whole, kept
  <2> QED BY <1>a, <2>1 DEF doing
<1>2. ASSUME LogCreated(p) PROVE VInv'
  <2>1. /\ UNCHANGED <<task, tid, crashes>> /\ mine'[p] = mine[p]
        /\ pc[p] = "created" /\ pc'[p] = "begin" /\ UNCHANGED evidence
        /\ \A q \in Procs : q # p => whole(q)
    BY <1>2, <1>t DEF LogCreated, TypeOK, whole, kept
  <2> QED BY <1>a, <2>1 DEF doing
<1>3. ASSUME NEW from \in doing, NEW to \in doing, NEW seen, Look(p, from, to, seen),
             from \notin {"blank", "created", "begin"},
             to \notin {"blank", "created", "begin"}
      PROVE  VInv'
  <2>1. /\ UNCHANGED <<task, tid, crashes>> /\ mine'[p] = mine[p]
        /\ pc[p] = from /\ pc'[p] = to /\ UNCHANGED evidence
        /\ \A q \in Procs : q # p => whole(q)
    BY <1>3, <1>t DEF Look, store, TypeOK, whole, kept
  <2> QED BY <1>a, <1>3, <2>1
<1>4. ASSUME WriteEdit(p) PROVE VInv'
  <2>1. /\ UNCHANGED <<task, tid, crashes>> /\ mine'[p] = mine[p]
        /\ pc[p] = "editwrite" /\ pc'[p] = "verifying"
        /\ \A u \in TaskIds : u # tid[p] => evidence'[u] = evidence[u]
        /\ \A q \in Procs : q # p => whole(q)
    BY <1>4, <1>t DEF WriteEdit, TypeOK, whole, kept
  <2> QED BY <1>a, <2>1 DEF doing
<1>5. ASSUME BeginExecuting(p) \/ BeginVerifying(p) PROVE VInv'
  <2>1. PICK s \in {"executing", "verifying"} :
          /\ writeTask(p, s)
          /\ \/ pc'[p] = "observe" /\ s = "executing"
             \/ pc'[p] = "select"
    BY <1>5, <1>t DEF BeginExecuting, BeginVerifying, TypeOK
  <2>0. /\ pc[p] \in {"begin", "verifying"} /\ UNCHANGED <<evidence, tid, crashes>>
        /\ cmd[p] # "ship" /\ tid[p] \in TaskIds /\ mine[p] \in Task
        /\ \A q \in Procs : q # p => whole(q)
    BY <1>5, <1>t DEF BeginExecuting, BeginVerifying, writeTask, Job, TypeOK, whole,
       kept, doing
  <2>2. /\ \A u \in TaskIds : u # tid[p] => same(u)
        /\ task'[tid[p]] = [mine[p] EXCEPT !.status = s]
    BY <1>t, <2>0, <2>1 DEF writeTask, same, TypeOK
  <2>3. [mine[p] EXCEPT !.status = s].status = s
    BY <2>0 DEF Task
  <2>4. [mine[p] EXCEPT !.status = s] # None
    <3>1. [mine[p] EXCEPT !.status = s] \in Task
      BY <2>0 DEF Task, TASK_STATUSES
    <3> QED BY <3>1, RecordsAssumption
  <2>5. (Lifecycle(p) /\ Covers(p) /\ Holds(p))'
    BY <2>0, <2>1, <2>2, <2>3, <2>4 DEF Lifecycle, Covers, Holds, Status, doing
  <2> QED BY <2>0, <2>1, <2>2, <2>5, JudgeStep DEF doing, gating
<1> QED
  BY <1>1, <1>2, <1>3, <1>4, <1>5 DEF ObserveChanges, DetectStale, DiffForward,
     DiffRollback, doing


\* updateEvidence throws only on a missing record, and as long as no command
\* died a command that collects evidence has one.
LEMMA ReadVerdict ==
    ASSUME VerdictsRunAlone, VInv, CInv', NEW p \in Procs, NEW from, NEW to,
           ReadForUpdate(p, from, to),
           \/ from = "editread" /\ to = "editwrite"
           \/ from = "mergeread" /\ to = "mergewrite"
    PROVE  VInv'
<1>t. /\ TypeOK /\ Job(p) /\ Lifecycle(p) /\ Covers(p) /\ Current(p) /\ Collects(p)
      /\ pc[p] = from /\ UNCHANGED <<task, evidence, crashes>>
      /\ tid[p] \in TaskIds /\ cmd[p] # "ship"
  BY DEF VInv, CInv, IInv, Typed, ReadForUpdate, store, bounds, Job, doing, gating
<1>1. CASE Exit(p) /\ evidence[tid[p]] = None
  <2>1. crashes # 0
    <3> SUFFICES ASSUME crashes = 0 PROVE FALSE
      OBVIOUS
    <3>1. ~ starting(tid[p])
      <4> SUFFICES ASSUME NEW q \in Procs, pc[q] = "blank", tid[q] = tid[p] PROVE FALSE
        BY DEF starting
      <4>1. q # p
        BY <1>t
      <4> QED BY <1>t, <4>1, JudgesAlone DEF VInv, CInv
    <3>2. task[tid[p]] # None
      BY <1>t DEF Current
    <3> QED BY <1>t, <1>1, <3>1, <3>2 DEF VInv, CInv, Dated
  <2>2. /\ \A q \in Procs : q # p => whole(q)
        /\ pc'[p] = "idle"
    BY <1>t, <1>1 DEF Exit, Goto, TypeOK, whole, kept
  <2>3. (Lifecycle(p) /\ Covers(p) /\ Holds(p))'
    BY <2>2 DEF Lifecycle, Covers, Holds, doing
  <2> QED BY <1>t, <2>1, <2>2, <2>3, VerdictRead
<1>2. CASE /\ evidence[tid[p]] # None
           /\ snap' = [snap EXCEPT ![p] = evidence[tid[p]]]
           /\ Goto(p, to)
           /\ UNCHANGED <<job, mine, draft, checking>>
  <2>1. /\ UNCHANGED <<tid, selected, results, todo>> /\ mine'[p] = mine[p]
        /\ \A q \in Procs : q # p => whole(q)
        /\ pc'[p] = to
    BY <1>t, <1>2 DEF job, checking, Goto, TypeOK, whole, kept
  <2>2. (Lifecycle(p) /\ Covers(p) /\ Holds(p))'
    BY <1>t, <2>1 DEF Lifecycle, Covers, Holds, doing, Status
  <2>3. \A u \in TaskIds : u # tid[p] => same(u)
    BY <1>t DEF same
  <2> QED BY <1>t, <2>1, <2>2, <2>3, JudgeStep DEF doing, gating
<1> QED BY <1>1, <1>2 DEF ReadForUpdate

\* The verdict on a status: the gate passed on what is on disk now.
LEMMA MarkVerdict ==
    ASSUME VerdictsRunAlone, VInv, CInv', NEW p \in Procs, MarkTask(p)
    PROVE  /\ VInv'
           /\ task'[tid[p]].status = (IF wouldPass(tid[p]) THEN "done" ELSE "blocked")
           /\ task'[tid[p]] # None
<1> DEFINE s == verdict[pc[p]]
           t == tid[p]
<1>t. TypeOK /\ Job(p) /\ Holds(p) /\ Current(p) /\ IInv
  BY DEF VInv, CInv, IInv, Typed
<1>0. /\ pc[p] \in {"passed", "blocked"} /\ t \in TaskIds /\ mine[p] \in Task
      /\ s \in {"done", "blocked"} /\ (s = "done" <=> pc[p] = "passed")
      /\ task' = [task EXCEPT ![t] = [mine[p] EXCEPT !.status = s]]
      /\ UNCHANGED <<evidence, crashes>> /\ cmd[p] # "ship"
  BY <1>t DEF MarkTask, writeTask, verdict, Job, bounds, gating
<1> HIDE DEF s
<1>1. s = (IF wouldPass(t) THEN "done" ELSE "blocked")
  BY <1>t, <1>0 DEF Holds
<1>2. /\ task'[t] = [mine[p] EXCEPT !.status = s]
      /\ \A u \in TaskIds : u # t => same(u)
  BY <1>t, <1>0 DEF TypeOK, same
<1>3. /\ [mine[p] EXCEPT !.status = s] \in Task
      /\ [mine[p] EXCEPT !.status = s].status = s
      /\ [mine[p] EXCEPT !.status = s].risk = mine[p].risk
  BY <1>0 DEF Task, TASK_STATUSES
<1>4. task'[t] # None /\ task'[t].status = s /\ task'[t].risk = task[t].risk
  BY <1>t, <1>0, <1>2, <1>3, RecordsAssumption DEF Current
<1>5. /\ \A q \in Procs : q # p => whole(q)
      /\ \/ pc'[p] \in logging /\ tid'[p] = t
         \/ pc'[p] = "idle"
  BY <1>t DEF MarkTask, writeTask, Exit, Goto, TypeOK, whole, kept, job, checking, logging
<1>6. (Lifecycle(p) /\ Covers(p) /\ Holds(p))'
  BY <1>5 DEF Lifecycle, Covers, Holds, doing, logging
<1>7. ASSUME NEW u \in TaskIds, u = t PROVE settled(u)'
  <2>1. wouldPass(u)' <=> wouldPass(u)
    BY <1>t, <1>0, <1>4, <1>7, WouldPassKept
  <2>2. marked(u)' <=> s = "done"
    BY <1>0, <1>4, <1>7 DEF marked, Status
  <2>3. wouldPass(u) <=> wouldPass(t)
    BY <1>7 DEF wouldPass
  <2> QED BY <1>1, <2>1, <2>2, <2>3 DEF settled
<1>8. \A q \in Procs : q # p /\ pc[q] # "idle" => tid[q] # t
  BY <1>t, <1>0, JudgesAlone
<1>9. ASSUME NEW u \in TaskIds, u = t PROVE VInv'
  <2>1. settled(u)' /\ tid[p] = u /\ (pc'[p] = "idle" \/ tid'[p] = u)
    BY <1>5, <1>7, <1>9
  <2>2. \A w \in TaskIds : w # u => same(w)
    BY <1>2, <1>9
  <2>3. \A q \in Procs : q # p /\ pc[q] # "idle" => tid[q] # u
    BY <1>8, <1>9
  <2> QED BY <1>0, <1>5, <1>6, <2>1, <2>2, <2>3, VerdictStep
<1> QED BY <1>0, <1>1, <1>4, <1>9


\* The steps between the selection of checks and the gate.
LEMMA CheckingVerdict ==
    ASSUME VerdictsRunAlone, VInv, CInv', NEW p \in Procs
    PROVE  /\ SelectChecks(p) => VInv'
           /\ RunCheck(p) => VInv'
           /\ WriteMerge(p) => VInv'
           /\ EvaluateGate(p) => VInv'
<1> USE DEF Goto, job, local, checking, bounds, store
<1>t. TypeOK /\ Job(p) /\ Covers(p) /\ Current(p) /\ IInv
  BY DEF VInv, CInv, IInv, Typed
<1>1. ASSUME SelectChecks(p) PROVE VInv'
  <2>1. /\ UNCHANGED <<task, evidence, tid, crashes>>
        /\ pc[p] = "select" /\ pc'[p] \in {"check", "gate"}
        /\ selected'[p] = scripts /\ todo'[p] = scripts
        /\ pc'[p] = "gate" => scripts = {}
        /\ \A q \in Procs : q # p => whole(q)
    BY <1>1, <1>t DEF SelectChecks, TypeOK, whole, kept
  <2>2. (Lifecycle(p) /\ Covers(p) /\ Holds(p))'
    BY <2>1 DEF Lifecycle, Covers, Holds, doing
  <2>3. cmd[p] # "ship"
    BY <1>t, <2>1 DEF Job, gating
  <2> QED BY <2>1, <2>2, <2>3, JudgeStep DEF gating, same
<1>2. ASSUME RunCheck(p) PROVE VInv'
  <2> DEFINE new(kind, status) == [kind |-> kind, pos |-> position(kind, selected[p]),
                                   status |-> status, required |-> TRUE]
  <2>1. PICK kind \in todo[p], status \in Outcomes :
          /\ results' = [results EXCEPT ![p] = @ \union {new(kind, status)}]
          /\ todo' = [todo EXCEPT ![p] = @ \ {kind}]
          /\ Goto(p, IF todo[p] = {kind} THEN "mergeread" ELSE "check")
    BY <1>2 DEF RunCheck
  <2>2. /\ results'[p] = results[p] \union {new(kind, status)}
        /\ todo'[p] = todo[p] \ {kind}
        /\ pc[p] = "check"
        /\ pc'[p] = "check" \/ (pc'[p] = "mergeread" /\ todo[p] = {kind})
        /\ new(kind, status).kind = kind
        /\ UNCHANGED <<task, evidence, tid, selected, crashes>>
        /\ \A q \in Procs : q # p => whole(q)
    BY <1>2, <1>t, <2>1 DEF RunCheck, TypeOK, whole, kept
  <2> HIDE DEF new
  <2>3. kindsOf(results'[p]) = kindsOf(results[p]) \union {kind}
    BY <2>2 DEF kindsOf
  <2>4. selected[p] \subseteq kindsOf(results'[p]) \union todo'[p]
    BY <1>t, <2>2, <2>3 DEF Covers
  <2>5. (Lifecycle(p) /\ Covers(p) /\ Holds(p))'
    BY <2>2, <2>4 DEF Lifecycle, Covers, Holds, doing
  <2>6. cmd[p] # "ship"
    BY <1>t, <2>2 DEF Job, gating
  <2> QED BY <2>2, <2>5, <2>6, JudgeStep DEF gating, same
<1>3. ASSUME WriteMerge(p) PROVE VInv'
  <2> DEFINE ev == [snap[p] EXCEPT !.checks = mergeChecks(@, results[p])]
  <2>1. /\ pc[p] = "mergewrite" /\ tid[p] \in TaskIds /\ snap[p] \in EvidenceRecord
        /\ cmd[p] # "ship"
    BY <1>3, <1>t DEF WriteMerge, Job, gating
  <2>2. /\ evidence'[tid[p]] = ev
        /\ UNCHANGED <<task, tid, selected, crashes>> /\ pc'[p] = "gate"
        /\ \A u \in TaskIds : u # tid[p] => same(u)
        /\ \A q \in Procs : q # p => whole(q)
    BY <1>3, <1>t, <2>1 DEF WriteMerge, TypeOK, whole, kept, same
  <2>3. ev.checks = mergeChecks(snap[p].checks, results[p])
    BY <2>1 DEF EvidenceRecord
  <2>4. selected[p] \subseteq kindsOf(ev.checks)
    BY <1>t, <2>1, <2>3 DEF Covers, mergeChecks, kindsOf
  <2>5. (Lifecycle(p) /\ Covers(p) /\ Holds(p))'
    BY <2>2, <2>4 DEF Lifecycle, Covers, Holds, doing
  <2> QED BY <2>1, <2>2, <2>5, JudgeStep DEF gating
<1>4. ASSUME EvaluateGate(p) PROVE VInv'
  <2>1. /\ UNCHANGED <<task, evidence, tid, clock, crashes>>
        /\ pc[p] = "gate" /\ tid[p] \in TaskIds /\ cmd[p] # "ship"
        /\ pc'[p] \in {"passed", "blocked"}
        /\ pc'[p] = "passed"
              <=> gatePassed(mine[p].risk, evidence[tid[p]], selected[p], clock)
        /\ \A q \in Procs : q # p => whole(q)
    BY <1>4, <1>t DEF EvaluateGate, TypeOK, Job, whole, kept, gating
  <2>2. mine[p].risk = task[tid[p]].risk
    BY <1>t, <2>1 DEF Current
  <2>3. gatePassed(mine[p].risk, evidence[tid[p]], selected[p], clock) <=> wouldPass(tid[p])
    <3>1. CASE evidence[tid[p]] = None
      BY <3>1 DEF gatePassed, wouldPass
    <3>2. CASE evidence[tid[p]] # None
      <4>1. /\ \A c \in evidence[tid[p]].checks : c.required
            /\ selected[p] \subseteq kindsOf(evidence[tid[p]].checks)
        BY <1>t, <2>1, <3>2 DEF IInv, Recorded, plain, Covers
      <4> QED BY <2>2, <3>2, <4>1, GateIgnoresCaller DEF wouldPass
    <3> QED BY <3>1, <3>2
  <2>4. wouldPass(tid[p])' <=> wouldPass(tid[p])
    BY <2>1 DEF wouldPass
  <2>5. (Lifecycle(p) /\ Covers(p) /\ Holds(p))'
    BY <2>1, <2>3, <2>4 DEF Lifecycle, Covers, Holds, doing
  <2> QED BY <2>1, <2>5, JudgeStep DEF gating, same
<1> QED BY <1>1, <1>2, <1>3, <1>4

\* A step that ends a process which was not judging, or by its death.
LEMMA LeaveVerdict ==
    ASSUME VInv, CInv', NEW p \in Procs, pc[p] # "idle", Exit(p),
           UNCHANGED <<task, evidence>>, crashes' = 0 => crashes = 0,
           pc[p] \notin doing \union gating \/ crashes' # 0
    PROVE  VInv'
<1>t. TypeOK /\ Job(p)
  BY DEF VInv, CInv, IInv, Typed
<1>1. pc'[p] = "idle" /\ tid[p] \in TaskIds /\ \A q \in Procs : q # p => whole(q)
  BY <1>t DEF Exit, Goto, TypeOK, whole, kept, Job
<1>2. (Lifecycle(p) /\ Covers(p) /\ Holds(p))'
  BY <1>1 DEF Lifecycle, Covers, Holds, doing
<1> QED BY <1>1, <1>2, VerdictRead

\* ship marks what its gate has passed.
LEMMA ShipVerdict ==
    ASSUME VerdictsRunAlone, VInv, CInv', NEW p \in Procs
    PROVE  /\ ShipGate(p) => VInv'
           /\ ShipWrite(p) =>
                /\ VInv' /\ wouldPass(tid[p])
                /\ task'[tid[p]] # None /\ task'[tid[p]].status = "shipped"
<1>t. TypeOK /\ Job(p) /\ Holds(p) /\ Current(p) /\ IInv
  BY DEF VInv, CInv, IInv, Typed
<1>1. ASSUME ShipGate(p) PROVE VInv'
  <2>0. pc[p] = "shipgate" /\ UNCHANGED <<task, evidence, clock, crashes>>
    BY <1>1 DEF ShipGate, store, bounds
  <2>1. CASE Exit(p)
    BY <2>0, <2>1, LeaveVerdict DEF doing, gating
  <2>2. CASE /\ gatePassed(mine[p].risk, evidence[tid[p]],
                           deriveRequiredChecks(evidence[tid[p]]), clock)
             /\ Goto(p, "ship") /\ UNCHANGED local
    <3>1. /\ pc'[p] = "ship" /\ UNCHANGED tid /\ tid[p] \in TaskIds
          /\ \A q \in Procs : q # p => whole(q)
      BY <1>t, <2>0, <2>2 DEF Goto, TypeOK, Job, local, job, checking, whole, kept
    <3>2. wouldPass(tid[p])'
      BY <1>t, <2>0, <2>2, <3>1 DEF wouldPass, Current
    <3>3. (Lifecycle(p) /\ Covers(p) /\ Holds(p))'
      BY <3>1, <3>2 DEF Lifecycle, Covers, Holds, doing
    <3> QED BY <2>0, <3>1, <3>3, VerdictRead DEF doing, gating
  <2> QED BY <1>1, <2>1, <2>2 DEF ShipGate
<1>2. ASSUME ShipWrite(p)
      PROVE  /\ VInv' /\ wouldPass(tid[p])
             /\ task'[tid[p]] # None /\ task'[tid[p]].status = "shipped"
  <2> DEFINE t == tid[p]
             new == [mine[p] EXCEPT !.status = "shipped"]
  <2>0. /\ pc[p] = "ship" /\ t \in TaskIds /\ mine[p] \in Task /\ cmd[p] = "ship"
        /\ task' = [task EXCEPT ![t] = new]
        /\ UNCHANGED <<evidence, clock, crashes>> /\ Exit(p)
    BY <1>2, <1>t DEF ShipWrite, Job, bounds, shipping
  <2>1. new \in Task /\ new.status = "shipped" /\ new.risk = mine[p].risk
    BY <2>0 DEF Task, TASK_STATUSES
  <2>2. /\ task'[t] = new /\ new # None
        /\ \A u \in TaskIds : u # t => same(u)
    BY <1>t, <2>0, <2>1, RecordsAssumption DEF TypeOK, same
  <2>3. wouldPass(t) /\ task'[t].risk = task[t].risk
    BY <1>t, <2>0, <2>1, <2>2 DEF Holds, Current
  <2>4. pc'[p] = "idle" /\ \A q \in Procs : q # p => whole(q)
    BY <1>t, <2>0 DEF Exit, Goto, TypeOK, whole, kept
  <2>5. (Lifecycle(p) /\ Covers(p) /\ Holds(p))'
    BY <2>4 DEF Lifecycle, Covers, Holds, doing
  <2> HIDE DEF new
  <2>6. ASSUME NEW u \in TaskIds, task'[u].risk = task[u].risk
        PROVE  wouldPass(u)' <=> wouldPass(u)
    BY <1>t, <2>0, <2>6, WouldPassKept
  <2>7. ASSUME NEW q \in Procs, q # p PROVE (Lifecycle(q) /\ Covers(q) /\ Holds(q))'
    <3>1. CASE pc[q] = "idle" \/ tid[q] # t
      <4>1. pc[q] = "idle" \/ same(tid[q])
        BY <2>2, <3>1 DEF VInv, CInv, IInv, Typed, Job
      <4> QED BY <2>4, <2>7, <4>1, OtherVerdict
    <3>2. CASE pc[q] # "idle" /\ tid[q] = t
      <4>1. cmd[q] = "ship" /\ pc[q] \notin doing \union gating
        BY <1>t, <2>0, <2>7, <3>2, JudgesAlone DEF IInv, Typed, Job
      <4>2. UNCHANGED <<pc[q], tid[q]>>
        BY <2>4, <2>7 DEF whole, kept
      <4>3. Lifecycle(q)' /\ Covers(q)'
        BY <4>1, <4>2 DEF Lifecycle, Covers, doing, gating
      <4>4. wouldPass(tid[q])'
        <5>1. ASSUME NEW u \in TaskIds, u = t PROVE wouldPass(u)'
          <6>1. wouldPass(u) /\ task'[u].risk = task[u].risk
            BY <2>3, <5>1 DEF wouldPass
          <6> QED BY <2>6, <6>1
        <5>2. tid'[q] = t
          BY <3>2, <4>2
        <5> QED BY <2>0, <5>1, <5>2
      <4>5. Holds(q)'
        BY <4>1, <4>2, <4>4 DEF Holds, gating
      <4> QED BY <4>3, <4>5
    <3> QED BY <3>1, <3>2
  <2>8. Settled'
    <3> SUFFICES ASSUME crashes = 0, NEW u \in TaskIds, task'[u] # None, ~ judging(u)'
                 PROVE  marked(u)' <=> wouldPass(u)'
      BY <2>0 DEF Settled
    <3>1. task'[u].risk = task[u].risk
      BY <2>2, <2>3 DEF same
    <3>2. wouldPass(u)' <=> wouldPass(u)
      BY <2>6, <3>1
    <3>3. CASE u = t
      <4>1. marked(u)'
        BY <2>1, <2>2, <3>3 DEF marked, Status
      <4>2. wouldPass(u)
        BY <2>3, <3>3 DEF wouldPass
      <4> QED BY <3>2, <4>1, <4>2
    <3>4. CASE u # t
      <4>1. ~ judging(u)
        <5> SUFFICES ASSUME NEW q \in Procs, pc[q] \in doing \union gating, tid[q] = u
                     PROVE  FALSE
          BY DEF judging
        <5>1. q # p
          BY <3>4
        <5>2. pc'[q] \in doing \union gating /\ tid'[q] = u
          BY <2>4, <5>1 DEF whole, kept
        <5> QED BY <5>2 DEF judging
      <4>2. same(u)
        BY <2>2, <3>4
      <4>3. marked(u)' <=> marked(u)
        BY <4>2 DEF same, marked, Status
      <4>4. task[u] # None
        BY <4>2 DEF same
      <4> QED BY <3>2, <4>1, <4>3, <4>4 DEF VInv, Settled
    <3> QED BY <3>3, <3>4
  <2>9. VInv'
    BY <2>5, <2>7, <2>8 DEF VInv
  <2> QED BY <2>1, <2>2, <2>3, <2>9
<1> QED BY <1>1, <1>2

\* Steps that touch neither the store nor a process.
LEMMA StutterVerdict ==
    ASSUME VInv, CInv', UNCHANGED <<store, pc, local, clock, crashes>>
    PROVE  VInv'
<1> USE DEF store, local, job, checking
<1>1. \A p \in Procs : (Lifecycle(p) /\ Covers(p) /\ Holds(p))'
  BY DEF VInv, Lifecycle, Covers, Holds, Status, wouldPass
<1>2. Settled'
  BY DEF VInv, Settled, judging, marked, Status, wouldPass
<1> QED BY <1>1, <1>2 DEF VInv

\* The first state.
LEMMA InitVerdict == Init => VInv
<1> SUFFICES ASSUME Init PROVE VInv
  OBVIOUS
<1>1. CInv
  BY InitRuns
<1>2. \A p \in Procs : Lifecycle(p) /\ Covers(p) /\ Holds(p)
  BY DEF Init, Lifecycle, Covers, Holds, doing
<1>3. Settled
  BY DEF Init, Settled
<1> QED BY <1>1, <1>2, <1>3 DEF VInv

\* Every step keeps VInv, if verdicts run alone.
LEMMA NextVerdict == VerdictsRunAlone /\ VInv /\ [Next]_vars => VInv'
<1> SUFFICES ASSUME VerdictsRunAlone, VInv, [Next]_vars PROVE VInv'
  OBVIOUS
<1>c. CInv'
  BY NextRuns, AloneImplies DEF VInv
<1>t. TypeOK
  BY DEF VInv, CInv, IInv, Typed
<1>1. ASSUME NEW p \in Procs, Start(p) PROVE VInv'
  BY <1>1, <1>c, StartVerdict
<1>2. ASSUME NEW p \in Procs, LogVerdict(p) PROVE VInv'
  BY <1>2, <1>c, LeaveVerdict DEF LogVerdict, bounds, doing, gating
<1>3. ASSUME NEW p \in Procs, Continue(p) PROVE VInv'
  BY <1>2, <1>3, <1>c, DoingVerdict, ReadVerdict, CheckingVerdict, MarkVerdict, ShipVerdict
     DEF Continue, ReadForEdit, ReadForMerge
<1>4. ASSUME NEW p \in Procs, Crash(p) PROVE VInv'
  <2>1. crashes' # 0
    BY <1>4, <1>t DEF Crash, TypeOK
  <2> QED BY <1>4, <1>c, <2>1, LeaveVerdict DEF Crash, store
<1>5. CASE Environment
  BY <1>5, <1>c, EnvironmentFrame, StutterVerdict
<1>6. CASE UNCHANGED vars
  BY <1>6, <1>c, StutterVerdict DEF vars, bounds
<1> QED BY <1>1, <1>3, <1>4, <1>5, <1>6 DEF Next


\* Who writes task.json, and what.
LEMMA TaskWriters ==
    ASSUME VInv, [Next]_vars, NEW t \in TaskIds, task'[t] # task[t]
    PROVE  \/ task'[t] # None /\ task'[t].status \in {"intake", "executing", "verifying"}
           \/ \E p \in Procs : t = tid[p] /\ (MarkTask(p) \/ ShipWrite(p))
<1>t. TypeOK /\ \A p \in Procs : Job(p)
  BY DEF VInv, CInv, IInv, Typed
<1> DEFINE early == task'[t] # None
                       /\ task'[t].status \in {"intake", "executing", "verifying"}
<1>1. ASSUME NEW p \in Procs, NEW u \in TaskIds, NEW risk \in Risks, DoCreate(p, u, risk)
      PROVE  early
  <2> DEFINE new == [status |-> "intake", risk |-> risk, createdAt |-> clock + 1]
  <2>1. task' = [task EXCEPT ![u] = new]
    BY <1>1 DEF DoCreate
  <2>2. new \in Task
    BY <1>t, ConstantsAssumption DEF TypeOK, Task, TASK_STATUSES
  <2>3. new # None /\ new.status = "intake"
    BY <2>2, RecordsAssumption
  <2> HIDE DEF new
  <2> QED BY <1>t, <2>1, <2>3 DEF TypeOK
<1>2. ASSUME NEW p \in Procs, BeginExecuting(p) \/ BeginVerifying(p) PROVE early
  <2>1. PICK s \in {"executing", "verifying"} :
          task' = [task EXCEPT ![tid[p]] = [mine[p] EXCEPT !.status = s]]
    BY <1>2 DEF BeginExecuting, BeginVerifying, writeTask
  <2>2. mine[p] \in Task
    BY <1>2, <1>t DEF BeginExecuting, BeginVerifying, Job
  <2>3. /\ [mine[p] EXCEPT !.status = s] \in Task
        /\ [mine[p] EXCEPT !.status = s].status = s
    BY <2>2 DEF Task, TASK_STATUSES
  <2>4. [mine[p] EXCEPT !.status = s] # None
    BY <2>3, RecordsAssumption
  <2> QED BY <1>t, <2>1, <2>3, <2>4 DEF TypeOK
<1>3. ASSUME NEW p \in Procs, MarkTask(p) \/ ShipWrite(p)
      PROVE  t = tid[p]
  BY <1>3, <1>t DEF MarkTask, ShipWrite, writeTask, TypeOK
<1>4. ASSUME NEW p \in Procs, NEW from, NEW to, ReadForUpdate(p, from, to) PROVE FALSE
  BY <1>4 DEF ReadForUpdate, store
<1>5. ASSUME NEW p \in Procs, Continue(p)
      PROVE  BeginExecuting(p) \/ BeginVerifying(p) \/ MarkTask(p) \/ ShipWrite(p)
  BY <1>4, <1>5 DEF Continue, WriteBlankEvidence, LogCreated, ObserveChanges, DetectStale,
     DiffForward, DiffRollback, Look, ReadForEdit, WriteEdit, SelectChecks, RunCheck,
     ReadForMerge, WriteMerge, EvaluateGate, LogVerdict, ShipGate, store
<1>6. ASSUME NEW p \in Procs, Start(p)
      PROVE  \E u \in TaskIds, risk \in Risks : DoCreate(p, u, risk)
  BY <1>6 DEF Start, VerifyStart, ShipStart, Load, store
<1>7. \A p \in Procs : ~ Crash(p)
  BY DEF Crash, store
<1>8. ~ Environment
  BY EnvironmentFrame DEF store
<1>9. \E p \in Procs : Start(p) \/ Continue(p)
  BY <1>7, <1>8 DEF Next, vars, store
<1> HIDE DEF early
<1>10. early \/ \E p \in Procs : t = tid[p] /\ (MarkTask(p) \/ ShipWrite(p))
  BY <1>1, <1>2, <1>3, <1>5, <1>6, <1>9
<1> QED BY <1>10 DEF early

\* A gate that passes means proof.
LEMMA PassingIsProven ==
    ASSUME IInv, NEW t \in TaskIds, wouldPass(t)
    PROVE  proven(task[t].risk, evidence[t])
<1>1. evidence[t] # None => plain(evidence[t])
  BY DEF IInv, Recorded
<1>2. backed(task[t].risk, evidence[t], clock)
  BY <1>1, GateBacks DEF wouldPass
<1>3. evidence[t] \in EvidenceRecord
  BY DEF IInv, Typed, TypeOK, wouldPass, gatePassed
<1>4. \A c \in requiredResults(evidence[t]) :
          c.status \in CHECK_STATUSES /\ c.status \notin {"fail", "blocked", "skipped"}
  BY <1>3 DEF wouldPass, gatePassed, requiredResults, EvidenceRecord, CheckResult
<1> QED BY <1>2, <1>4 DEF proven, CHECK_STATUSES

\* If nothing but ship may share a task, do, verify and ship write done or
\* shipped only while the evidence on disk, not just the record they read,
\* satisfies the gate contract of docs/architecture/runtime-foundation.md.
THEOREM MarkedOnlyOnProof ==
    ASSUME VerdictsRunAlone
    PROVE  Spec => MarkedOnlyWhenProven
<1> DEFINE marking == \A t \in TaskIds :
               task'[t] # task[t] /\ marked(t)' => proven(task'[t].risk, evidence[t])
<1>1. ASSUME VInv, [Next]_vars PROVE marking
  <2> SUFFICES ASSUME NEW t \in TaskIds, task'[t] # task[t], marked(t)'
               PROVE  proven(task'[t].risk, evidence[t])
    OBVIOUS
  <2>c. CInv' /\ IInv
    BY <1>1, NextRuns, AloneImplies DEF VInv, CInv
  <2>1. PICK p \in Procs : t = tid[p] /\ (MarkTask(p) \/ ShipWrite(p))
    BY <1>1, TaskWriters DEF marked, Status
  <2>2. wouldPass(tid[p])
    <3>1. CASE MarkTask(p)
      <4>1. task'[tid[p]].status = (IF wouldPass(tid[p]) THEN "done" ELSE "blocked")
        BY <1>1, <2>c, <3>1, MarkVerdict
      <4> QED BY <2>1, <4>1 DEF marked, Status
    <3>2. CASE ShipWrite(p)
      BY <1>1, <2>c, <3>2, ShipVerdict
    <3> QED BY <2>1, <3>1, <3>2
  <2>3. proven(task[t].risk, evidence[t])
    BY <2>c, <2>1, <2>2, PassingIsProven DEF wouldPass
  <2>4. task'[t].risk = task[t].risk
    <3>1. mine[p] \in Task /\ mine[p].risk = task[t].risk
      BY <1>1, <2>c, <2>1 DEF VInv, CInv, Current, IInv, Typed, Job, MarkTask, ShipWrite
    <3>2. PICK s \in TASK_STATUSES :
            task' = [task EXCEPT ![tid[p]] = [mine[p] EXCEPT !.status = s]]
      BY <2>1 DEF MarkTask, ShipWrite, writeTask, verdict, TASK_STATUSES
    <3>3. [mine[p] EXCEPT !.status = s].risk = mine[p].risk
      BY <3>1 DEF Task
    <3> QED BY <2>c, <2>1, <3>1, <3>2, <3>3 DEF IInv, Typed, TypeOK
  <2> QED BY <2>3, <2>4
<1>2. Spec => []VInv
  BY InitVerdict, NextVerdict, PTL DEF Spec
<1>3. VInv /\ [Next]_vars => [marking]_vars
  BY <1>1
<1> QED BY <1>2, <1>3, PTL DEF Spec, MarkedOnlyWhenProven


\* If nothing but ship may share a task and no command has died, ship takes a
\* task only from done: a task that passes the gate it derives from the record
\* is one that do or verify has already marked, however it came there.
THEOREM ShipsOnlyDone ==
    ASSUME VerdictsRunAlone
    PROVE  Spec => ShipFromDone
<1> DEFINE fromDone == \A t \in TaskIds :
               Status(t) # "shipped" /\ Status(t)' = "shipped" /\ crashes = 0
                   => Status(t) = "done"
<1>1. ASSUME VInv, [Next]_vars PROVE fromDone
  <2> SUFFICES ASSUME NEW t \in TaskIds, Status(t) # "shipped", Status(t)' = "shipped",
                      crashes = 0
               PROVE  Status(t) = "done"
    OBVIOUS
  <2>c. CInv' /\ IInv
    BY <1>1, NextRuns, AloneImplies DEF VInv, CInv
  <2>1. PICK p \in Procs : t = tid[p] /\ (MarkTask(p) \/ ShipWrite(p))
    BY <1>1, TaskWriters DEF Status
  <2>2. ~ MarkTask(p)
    <3> SUFFICES ASSUME MarkTask(p) PROVE FALSE
      OBVIOUS
    <3>1. /\ task'[tid[p]].status = (IF wouldPass(tid[p]) THEN "done" ELSE "blocked")
          /\ task'[tid[p]] # None
      BY <1>1, <2>c, MarkVerdict
    <3> QED BY <2>1, <3>1 DEF Status
  <2>3. wouldPass(tid[p]) /\ pc[p] = "ship" /\ cmd[p] = "ship" /\ task[t] # None
    BY <1>1, <2>c, <2>1, <2>2, ShipVerdict
       DEF ShipWrite, IInv, Typed, Job, shipping, VInv, CInv, Current
  <2>4. ~ judging(t)
    <3> SUFFICES ASSUME NEW q \in Procs, pc[q] \in doing \union gating, tid[q] = t
                 PROVE  FALSE
      BY DEF judging
    <3>1. q # p /\ pc[q] # "idle" /\ cmd[q] # "ship"
      BY <2>3, <2>c DEF doing, gating, IInv, Typed, Job
    <3> QED BY <2>c, <2>1, <2>3, <3>1, JudgesAlone
  <2>5. wouldPass(t)
    BY <2>1, <2>3 DEF wouldPass
  <2>6. marked(t)
    BY <1>1, <2>3, <2>4, <2>5 DEF VInv, Settled
  <2> QED BY <2>6 DEF marked
<1>2. Spec => []VInv
  BY InitVerdict, NextVerdict, PTL DEF Spec
<1>3. VInv /\ [Next]_vars => [fromDone]_vars
  BY <1>1
<1> QED BY <1>2, <1>3, PTL DEF Spec, ShipFromDone

-----------------------------------------------------------------------------
(* The runtime implements its contract                                     *)

\* The contract's bit of a task.
bit(t) == task[t] # None /\ wouldPass(t)

\* A step that concerns no task but t moves at most t in the contract.
LEMMA MapStep ==
    ASSUME IInv, NEW t \in TaskIds, \A u \in TaskIds : u # t => same(u), NEW s, Status(t)' = s
    PROVE  /\ statusMap' = [statusMap EXCEPT ![t] = s]
           /\ \E b \in BOOLEAN : proofBit' = [proofBit EXCEPT ![t] = b]
           /\ (bit(t)' <=> bit(t)) => proofBit' = proofBit
<1>1. ASSUME NEW u \in TaskIds, u # t
      PROVE  Status(u)' = Status(u) /\ (bit(u)' <=> bit(u))
  <2>1. same(u)
    BY <1>1
  <2>2. wouldPass(u)' <=> wouldPass(u)
    BY <2>1, WouldPassKept DEF same
  <2> QED BY <2>1, <2>2 DEF same, Status, bit
<1>2. /\ statusMap = [u \in TaskIds |-> Status(u)]
      /\ statusMap' = [u \in TaskIds |-> Status(u)']
  BY DEF statusMap
<1>3. statusMap' = [statusMap EXCEPT ![t] = s]
  BY <1>1, <1>2
<1>4. /\ proofBit = [u \in TaskIds |-> bit(u)]
      /\ proofBit' = [u \in TaskIds |-> bit(u)']
  BY DEF proofBit, bit, wouldPass
<1>5. \A u \in TaskIds : bit(u) \in BOOLEAN /\ bit(u)' \in BOOLEAN
  BY DEF bit
<1> HIDE DEF bit
<1>6. proofBit' = [proofBit EXCEPT ![t] = bit(t)']
  <2>1. \A u \in TaskIds : u # t => bit(u)' = bit(u)
    BY <1>1, <1>5
  <2> QED BY <1>4, <2>1
<1>7. ASSUME bit(t)' <=> bit(t) PROVE proofBit' = proofBit
  <2>1. \A u \in TaskIds : bit(u)' = bit(u)
    BY <1>1, <1>5, <1>7
  <2> QED BY <1>4, <2>1
<1> QED BY <1>3, <1>5, <1>6, <1>7

\* A step that writes no record is none of the contract's.
LEMMA MapStutter ==
    ASSUME IInv, UNCHANGED <<task, evidence>>
    PROVE  UNCHANGED <<statusMap, proofBit>>
<1>1. ASSUME NEW u \in TaskIds
      PROVE  Status(u)' = Status(u) /\ (bit(u)' <=> bit(u))
  <2>1. wouldPass(u)' <=> wouldPass(u)
    BY WouldPassKept
  <2> QED BY <2>1 DEF Status, bit
<1>2. /\ proofBit = [u \in TaskIds |-> bit(u)]
      /\ proofBit' = [u \in TaskIds |-> bit(u)']
  BY DEF proofBit, bit, wouldPass
<1>3. \A u \in TaskIds : bit(u) \in BOOLEAN /\ bit(u)' \in BOOLEAN
  BY DEF bit
<1> HIDE DEF bit
<1>4. \A u \in TaskIds : bit(u)' = bit(u)
  BY <1>1, <1>3
<1> QED BY <1>1, <1>2, <1>4 DEF statusMap

\* The first state is one of the contract.
LEMMA InitContract == Init => Contract!Init
<1> SUFFICES ASSUME Init PROVE Contract!Init
  OBVIOUS
<1>1. statusMap = [t \in TaskIds |-> "none"]
  BY DEF Init, statusMap, Status
<1>2. \A t \in TaskIds : task[t] = None
  BY DEF Init
<1>3. proofBit = [t \in TaskIds |-> FALSE]
  BY <1>2 DEF proofBit
<1> QED BY <1>1, <1>3 DEF Contract!Init


\* do: a new goal is accepted, its record replaced, its task advanced and its
\* edit evidence collected.
LEMMA DoContract ==
    ASSUME VInv, CInv', NEW p \in Procs
    PROVE  /\ \A t \in TaskIds, risk \in Risks : DoCreate(p, t, risk) => Contract!Next
           /\ WriteBlankEvidence(p) => Contract!Next
           /\ WriteEdit(p) => Contract!Next
           /\ BeginExecuting(p) => Contract!Next
           /\ BeginVerifying(p) => Contract!Next
<1> USE DEF Goto, job, local, checking, bounds
<1>t. TypeOK /\ Job(p) /\ Lifecycle(p) /\ Current(p) /\ IInv
  BY DEF VInv, CInv, IInv, Typed
<1>1. ASSUME NEW t \in TaskIds, NEW risk \in Risks, DoCreate(p, t, risk)
      PROVE  Contract!Next
  <2>1. /\ tid'[p] = t /\ pc'[p] = "blank" /\ task'[t].status = "intake"
        /\ UNCHANGED evidence
        /\ \A u \in TaskIds : u # t => task'[u] = task[u]
    BY <1>1, <1>t DEF DoCreate, TypeOK
  <2>2. task'[t] # None
    BY <2>1 DEF CInv, Current
  <2>3. Status(t)' = "intake" /\ \A u \in TaskIds : u # t => same(u)
    BY <2>1, <2>2 DEF Status, same
  <2>4. Contract!Accept(t)
    BY <1>t, <2>3, MapStep DEF Contract!Accept
  <2> QED BY <2>4 DEF Contract!Next
<1>2. ASSUME WriteBlankEvidence(p) \/ WriteEdit(p) PROVE Contract!Next
  <2>1. PICK t \in TaskIds : t = tid[p] /\ pc[p] # "idle"
    BY <1>2, <1>t DEF WriteBlankEvidence, WriteEdit, Job
  <2>2. /\ UNCHANGED task /\ \A u \in TaskIds : u # t => same(u)
    BY <1>2, <1>t, <2>1 DEF WriteBlankEvidence, WriteEdit, TypeOK, same
  <2>3. Status(t) # "none" /\ Status(t)' = Status(t)
    BY <1>t, <2>1, <2>2 DEF Status, Current, TypeOK, Task, TASK_STATUSES
  <2>4. statusMap[t] # "none" /\ statusMap' = statusMap
    BY <2>2, <2>3 DEF statusMap, Status
  <2>5. \E b \in BOOLEAN : proofBit' = [proofBit EXCEPT ![t] = b]
    BY <1>t, <2>2, <2>3, MapStep
  <2>6. Contract!Collect(t)
    BY <2>4, <2>5 DEF Contract!Collect
  <2> QED BY <2>6 DEF Contract!Next
<1>3. ASSUME BeginExecuting(p) \/ BeginVerifying(p) PROVE Contract!Next
  <2>1. PICK s \in {"executing", "verifying"} :
          /\ writeTask(p, s)
          /\ \/ s = "executing" /\ pc[p] = "begin"
             \/ s = "verifying" /\ pc[p] = "verifying"
    BY <1>3 DEF BeginExecuting, BeginVerifying
  <2>2. PICK t \in TaskIds : t = tid[p] /\ pc[p] # "idle"
    BY <2>1, <1>t DEF Job
  <2>3. mine[p] \in Task /\ UNCHANGED <<evidence, clock>>
    BY <1>3, <1>t, <2>2 DEF BeginExecuting, BeginVerifying, Job
  <2>4. /\ [mine[p] EXCEPT !.status = s] \in Task
        /\ [mine[p] EXCEPT !.status = s].status = s
        /\ [mine[p] EXCEPT !.status = s].risk = mine[p].risk
    BY <2>3 DEF Task, TASK_STATUSES
  <2>5. /\ task'[t] = [mine[p] EXCEPT !.status = s]
        /\ task'[t] # None
        /\ \A u \in TaskIds : u # t => same(u)
    BY <1>t, <2>1, <2>2, <2>3, <2>4, RecordsAssumption DEF writeTask, TypeOK, same
  <2>6. task[t] # None /\ task'[t].risk = task[t].risk
    BY <1>t, <2>2, <2>4, <2>5 DEF Current
  <2>7. Status(t)' = s
    BY <2>4, <2>5 DEF Status
  <2>8. bit(t)' <=> bit(t)
    BY <1>t, <2>3, <2>5, <2>6, WouldPassKept DEF bit
  <2>9. statusMap' = [statusMap EXCEPT ![t] = s] /\ UNCHANGED proofBit
    BY <1>t, <2>5, <2>7, <2>8, MapStep
  <2>10. statusMap[t] = (IF s = "executing" THEN "intake" ELSE "executing")
    BY <1>t, <2>1, <2>2 DEF Lifecycle, statusMap, doing
  <2>11. Contract!Advance(t)
    BY <2>1, <2>9, <2>10 DEF Contract!Advance, Contract!Move
  <2> QED BY <2>11 DEF Contract!Next
<1> QED BY <1>1, <1>2, <1>3

\* The verifier collects results; a verdict and ship follow the gate.
LEMMA VerdictContract ==
    ASSUME VerdictsRunAlone, VInv, CInv', NEW p \in Procs
    PROVE  /\ WriteMerge(p) => Contract!Next
           /\ MarkTask(p) => Contract!Next
           /\ ShipWrite(p) => Contract!Next
<1> USE DEF Goto, job, local, checking, bounds
<1>t. TypeOK /\ Job(p) /\ Current(p) /\ IInv
  BY DEF VInv, CInv, IInv, Typed
<1>1. ASSUME WriteMerge(p) PROVE Contract!Next
  <2>1. PICK t \in TaskIds : t = tid[p] /\ pc[p] # "idle"
    BY <1>1, <1>t DEF WriteMerge, Job
  <2>2. UNCHANGED task /\ \A u \in TaskIds : u # t => same(u)
    BY <1>1, <1>t, <2>1 DEF WriteMerge, TypeOK, same
  <2>3. Status(t) # "none" /\ Status(t)' = Status(t)
    BY <1>t, <2>1, <2>2 DEF Status, Current, TypeOK, Task, TASK_STATUSES
  <2>4. statusMap[t] # "none" /\ statusMap' = statusMap
    BY <2>2, <2>3 DEF statusMap, Status
  <2>5. \E b \in BOOLEAN : proofBit' = [proofBit EXCEPT ![t] = b]
    BY <1>t, <2>2, <2>3, MapStep
  <2>6. Contract!Collect(t)
    BY <2>4, <2>5 DEF Contract!Collect
  <2> QED BY <2>6 DEF Contract!Next
<1>2. ASSUME MarkTask(p) \/ ShipWrite(p) PROVE Contract!Next
  <2>1. PICK t \in TaskIds : t = tid[p] /\ pc[p] # "idle"
    BY <1>2, <1>t DEF MarkTask, ShipWrite, Job
  <2>2. /\ mine[p] \in Task /\ mine[p].risk = task[t].risk /\ task[t] # None
        /\ UNCHANGED <<evidence, clock>>
    BY <1>2, <1>t, <2>1 DEF MarkTask, ShipWrite, Job, Current
  <2>3. PICK s \in TASK_STATUSES : task' = [task EXCEPT ![t] = [mine[p] EXCEPT !.status = s]]
    BY <1>2, <2>1 DEF MarkTask, ShipWrite, writeTask, verdict, TASK_STATUSES
  <2>4. /\ [mine[p] EXCEPT !.status = s] \in Task
        /\ [mine[p] EXCEPT !.status = s].risk = mine[p].risk
    BY <2>2 DEF Task
  <2>5. /\ task'[t] # None /\ task'[t].risk = task[t].risk
        /\ \A u \in TaskIds : u # t => same(u)
    BY <1>t, <2>2, <2>3, <2>4, RecordsAssumption DEF TypeOK, same
  <2>6. bit(t)' <=> bit(t)
    BY <1>t, <2>2, <2>5, WouldPassKept DEF bit
  <2>7. /\ UNCHANGED proofBit
        /\ statusMap' = [statusMap EXCEPT ![t] = task'[t].status]
    BY <1>t, <2>5, <2>6, MapStep DEF Status
  <2>8. /\ statusMap[t] # "none"
        /\ proofBit[t] <=> wouldPass(t)
        /\ proofBit[t] \in BOOLEAN
    <3>1. Status(t) # "none"
      BY <1>t, <2>2 DEF Status, TypeOK, Task, TASK_STATUSES
    <3> QED BY <2>2, <3>1 DEF statusMap, proofBit, wouldPass
  <2>9. CASE MarkTask(p)
    <3>1. task'[t].status = (IF wouldPass(t) THEN "done" ELSE "blocked")
      <4>1. task'[tid[p]].status = (IF wouldPass(tid[p]) THEN "done" ELSE "blocked")
        BY <2>9, MarkVerdict
      <4> QED BY <2>1, <4>1 DEF wouldPass
    <3>2. Contract!Verdict(t)
      BY <2>7, <2>8, <3>1 DEF Contract!Verdict, Contract!Move
    <3> QED BY <3>2 DEF Contract!Next
  <2>10. CASE ShipWrite(p)
    <3>1. wouldPass(t) /\ task'[t].status = "shipped"
      <4>1. wouldPass(tid[p]) /\ task'[tid[p]].status = "shipped"
        BY <2>10, ShipVerdict
      <4> QED BY <2>1, <4>1 DEF wouldPass
    <3>2. Contract!Ship(t)
      BY <2>7, <2>8, <3>1 DEF Contract!Ship, Contract!Move
    <3> QED BY <3>2 DEF Contract!Next
  <2> QED BY <1>2, <2>9, <2>10
<1> QED BY <1>1, <1>2

\* Every step is one of the contract, or a stutter.
LEMMA NextContract ==
    VerdictsRunAlone /\ VInv /\ VInv' /\ [Next]_vars => [Contract!Next]_(Contract!vars)
<1> SUFFICES ASSUME VerdictsRunAlone, VInv, CInv', [Next]_vars
             PROVE  Contract!Next \/ UNCHANGED <<statusMap, proofBit>>
  BY DEF Contract!vars, VInv
<1>i. IInv
  BY DEF VInv, CInv
<1>1. ASSUME NEW p \in Procs, Start(p) PROVE Contract!Next \/ UNCHANGED <<statusMap, proofBit>>
  <2>1. ASSUME NEW t \in TaskIds, NEW risk \in Risks, DoCreate(p, t, risk)
        PROVE  Contract!Next
    BY <2>1, DoContract
  <2>2. ASSUME NEW t \in TaskIds, VerifyStart(p, t) \/ ShipStart(p, t)
        PROVE  UNCHANGED <<task, evidence>>
    BY <2>2 DEF VerifyStart, ShipStart, Load, store
  <2> QED BY <1>1, <1>i, <2>1, <2>2, MapStutter DEF Start
<1>2. ASSUME NEW p \in Procs, Continue(p)
      PROVE  Contract!Next \/ UNCHANGED <<statusMap, proofBit>>
  <2>1. CASE \/ WriteBlankEvidence(p) \/ WriteEdit(p) \/ BeginExecuting(p)
             \/ BeginVerifying(p) \/ WriteMerge(p) \/ MarkTask(p) \/ ShipWrite(p)
    BY <2>1, DoContract, VerdictContract
  <2>2. CASE \/ LogCreated(p) \/ ObserveChanges(p) \/ DetectStale(p) \/ DiffForward(p)
             \/ DiffRollback(p) \/ ReadForEdit(p) \/ SelectChecks(p) \/ RunCheck(p)
             \/ ReadForMerge(p) \/ EvaluateGate(p) \/ LogVerdict(p) \/ ShipGate(p)
    <3>1. UNCHANGED <<task, evidence>>
      BY <2>2 DEF LogCreated, ObserveChanges, DetectStale, DiffForward, DiffRollback,
         Look, ReadForEdit, ReadForMerge, ReadForUpdate, SelectChecks, RunCheck,
         EvaluateGate, LogVerdict, ShipGate, store
    <3> QED BY <1>i, <3>1, MapStutter
  <2> QED BY <1>2, <2>1, <2>2 DEF Continue
<1>3. ASSUME NEW p \in Procs, Crash(p) PROVE UNCHANGED <<statusMap, proofBit>>
  BY <1>3, <1>i, MapStutter DEF Crash, store
<1>4. CASE Environment
  BY <1>4, <1>i, EnvironmentFrame, MapStutter DEF store
<1>5. CASE UNCHANGED vars
  BY <1>5, <1>i, MapStutter DEF vars, store
<1> QED BY <1>1, <1>2, <1>3, <1>4, <1>5 DEF Next

\* If nothing but ship may share a task, the runtime implements its contract,
\* whatever dies half way: a task moves through its lifecycle, it is marked done
\* exactly when the Done Gate would pass on what is recorded, blocked exactly
\* when it would not, and shipped only when it would.
THEOREM RuntimeImplementsContract ==
    ASSUME VerdictsRunAlone
    PROVE  Spec => ImplementsContract
<1>1. Spec => []VInv
  BY InitVerdict, NextVerdict, PTL DEF Spec
<1>2. VInv /\ VInv' /\ [Next]_vars => [Contract!Next]_(Contract!vars)
  BY NextContract
<1> QED BY <1>1, <1>2, InitContract, PTL DEF Spec, ImplementsContract, Contract!Spec

=============================================================================
