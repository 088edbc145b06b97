---------------------------- MODULE ExecuteWaves ----------------------------
(***************************************************************************)
(* sunco execute (packages/skills-workflow/src/execute.skill.ts): the      *)
(* plans of a phase run wave after wave, the plans of one wave in parallel *)
(* agents, each in a git worktree of its own                               *)
(* (shared/worktree-manager.ts), and what succeeded is cherry-picked back. *)
(*                                                                         *)
(* The phase may be executed several times, one run after the other; a run *)
(* that dies leaves its worktrees on disk and the repository as it was.    *)
(*                                                                         *)
(* Abstractions:                                                           *)
(*  - Distinct plans have distinct ids, so distinct worktree paths.        *)
(*  - The expansion of delivery slices changes prompts only, and an agent  *)
(*    is what it commits and how it ends; it dies with its run.  It is     *)
(*    assumed to commit where its prompt sends it, in its worktree: the    *)
(*    process it runs in has the base repository as its directory.         *)
(*  - Nobody else commits to the base branch or checks out another one     *)
(*    during a run.  A worktree and its branch are one.                    *)
(*  - A cherry-pick conflicts at random, and git may refuse it or the log  *)
(*    before it and leave nothing behind (MayConflict).  git refuses to    *)
(*    pick on top of unmerged files, and picks on top of an empty pick.    *)
(***************************************************************************)
EXTENDS Naturals, SequencesExt, FiniteSets

CONSTANTS
    PlanOrder,   \* the *-PLAN.md files in the order of readdir
    WaveField,   \* the plan's `wave` in its frontmatter, 0 when missing
    Autonomous,  \* plans that ask for no human verification
    Symmetric,   \* whether log({from, to}) lists from...to, as simple-git does
    MayConflict, \* whether a cherry-pick may conflict, and git refuse to work
    MaxCommits,  \* bound on the commits of an agent
    MaxRuns,     \* bound on the runs of the phase
    MaxCrashes   \* bound on the runs that die

Plans == ToSet(PlanOrder)

ASSUME ExecuteAssumption ==
    /\ PlanOrder \in Seq(Plans)
    /\ \A i, j \in DOMAIN PlanOrder : PlanOrder[i] = PlanOrder[j] => i = j
    /\ PlanOrder # <<>>
    /\ WaveField \in [Plans -> Nat]
    /\ Autonomous \subseteq Plans
    /\ {Symmetric, MayConflict} \subseteq BOOLEAN
    /\ {MaxCommits, MaxRuns, MaxCrashes} \subseteq Nat

VARIABLES
    main,      \* the base branch since the first run: the commits picked onto it
    stuck,     \* what the last failed cherry-pick left in the repository
    worktrees, \* .sun/worktrees
    agent,     \* how the plan's agent of this run is doing
    run,       \* the locals of execute() and of its WorktreeManager
    crashes    \* runs that died so far

vars == <<main, stuck, worktrees, agent, run, crashes>>

-----------------------------------------------------------------------------
Commit == [run : Nat, plan : Plans, k : Nat]
Worktree == [plan : Plans, run : Nat, fork : Nat, commits : Nat]
AgentStates == {"none", "running", "ok", "failed"}

PCs == {"idle", "checkpoint", "create", "dispatch", "agents", "pick", "picking",
        "failures", "cleanup", "ended"}
Outcomes == {"none", "refused", "rejected", "finished", "crashed"}
Run == [pc : PCs, n : Nat, wave : Nat, todo : Seq(Plans), picks : Seq(Commit),
        managed : Seq(Plans), completed : Nat, failed : Nat, skipped : SUBSET Plans,
        aborted : BOOLEAN, outcome : Outcomes, kept : SUBSET Plans]

NoRun == [pc |-> "idle", n |-> 0, wave |-> 0, todo |-> <<>>, picks |-> <<>>,
          managed |-> <<>>, completed |-> 0, failed |-> 0, skipped |-> {},
          aborted |-> FALSE, outcome |-> "none", kept |-> {}]

\* Plans without a wave go into wave 1; waves ascend, plans keep the file order.
waveOf(p) == IF WaveField[p] = 0 THEN 1 ELSE WaveField[p]
wavesAfter(w) == {v \in {waveOf(p) : p \in Plans} : v > w}
plansOf(w) == {p \in Plans : waveOf(p) = w}

\* Those of the plans that are in the set, in the order of the files.
inFileOrder(set) ==
    LET upTo[i \in 0..Len(PlanOrder)] ==
            IF i = 0 THEN <<>>
            ELSE IF PlanOrder[i] \in set THEN Append(upTo[i - 1], PlanOrder[i])
            ELSE upTo[i - 1]
    IN  upTo[Len(PlanOrder)]

wavePlans(w) == inFileOrder(plansOf(w))

worktreeOf(p) == CHOOSE w \in worktrees : w.plan = p
pathTaken(p) == \E w \in worktrees : w.plan = p

\* The commits git log lists for a worktree, newest first.
gitLog(w) ==
    LET ours   == [k \in 1..w.commits |-> [run |-> w.run, plan |-> w.plan, k |-> k]]
        theirs == IF Symmetric THEN SubSeq(main, w.fork + 1, Len(main)) ELSE <<>>
    IN  Reverse(theirs) \o Reverse(ours)

-----------------------------------------------------------------------------
Init ==
    /\ main = <<>>
    /\ stuck = "no"
    /\ worktrees = {}
    /\ agent = [p \in Plans |-> "none"]
    /\ run = NoRun
    /\ crashes = 0

repo == <<main, stuck>>

\* Mutant: an abort is an outcome of its own.
nextWave_reportsAbort(r) ==
    IF r.aborted THEN [r EXCEPT !.pc = "cleanup", !.todo = <<>>, !.outcome = "aborted"]
    ELSE IF wavesAfter(r.wave) = {}
    THEN [r EXCEPT !.pc = "cleanup", !.todo = <<>>, !.outcome = "finished"]
    ELSE LET w == Min(wavesAfter(r.wave))
         IN  [r EXCEPT !.pc = "checkpoint", !.wave = w, !.todo = wavePlans(w)]

\* The next wave, or the cleanup when there is none left or the user aborted.
nextWave(r) ==
    IF r.aborted \/ wavesAfter(r.wave) = {}
    THEN [r EXCEPT !.pc = "cleanup", !.todo = <<>>, !.outcome = "finished"]
    ELSE LET w == Min(wavesAfter(r.wave))
         IN  [r EXCEPT !.pc = "checkpoint", !.wave = w, !.todo = wavePlans(w)]

\* Without phase, approved spec, provider, directory or plans nothing is done.
Start ==
    /\ run.pc \in {"idle", "ended"}
    /\ run.n < MaxRuns
    /\ \E refused \in BOOLEAN :
          LET fresh == [NoRun EXCEPT !.n = run.n + 1]
          IN  run' = IF refused
                     THEN [fresh EXCEPT !.pc = "ended", !.outcome = "refused"]
                     ELSE nextWave(fresh)
    /\ agent' = [p \in Plans |-> "none"]
    /\ UNCHANGED <<repo, worktrees, crashes>>

\* A skipped plan is counted as failed, and stays in the wave.
Checkpoint ==
    /\ run.pc = "checkpoint"
    /\ run.todo # <<>>
    /\ LET p     == Head(run.todo)
           asked == [run EXCEPT !.todo = Tail(@)]
       IN  \/ run' = asked
           \/ /\ p \notin Autonomous
              /\ run' = [asked EXCEPT !.failed = @ + 1, !.skipped = @ \cup {p}]
           \/ /\ p \notin Autonomous
              /\ run' = nextWave([asked EXCEPT !.aborted = TRUE])
    /\ UNCHANGED <<repo, worktrees, agent, crashes>>

CheckpointsDone ==
    /\ run.pc = "checkpoint"
    /\ run.todo = <<>>
    /\ run' = [run EXCEPT !.pc = "create", !.todo = wavePlans(run.wave)]
    /\ UNCHANGED <<repo, worktrees, agent, crashes>>

create(p, w) ==
    /\ ~pathTaken(p)
    /\ worktrees' = worktrees \cup {w}
    /\ run' = [run EXCEPT !.todo = Tail(@), !.managed = Append(@, p)]

\* Mutant: every worktree starts from where the run found the branch.
CreateWorktree_fromStart ==
    /\ run.pc = "create"
    /\ run.todo # <<>>
    /\ LET before == Cardinality({i \in DOMAIN main : main[i].run # run.n})
           p      == Head(run.todo)
       IN  create(p, [plan |-> p, run |-> run.n, fork |-> before, commits |-> 0])
    /\ UNCHANGED <<repo, agent, crashes>>

CreateWorktree ==
    /\ run.pc = "create"
    /\ run.todo # <<>>
    /\ LET p == Head(run.todo)
       IN  create(p, [plan |-> p, run |-> run.n, fork |-> Len(main), commits |-> 0])
    /\ UNCHANGED <<repo, agent, crashes>>

\* Mutant: the worktrees are created outside of the try block.
CreateFails_noFinally ==
    /\ run.pc = "create"
    /\ run.todo # <<>>
    /\ run' = [run EXCEPT !.pc = "ended", !.outcome = "rejected"]
    /\ UNCHANGED <<repo, worktrees, agent, crashes>>

\* git worktree add refuses a path that is taken, and may fail otherwise: the
\* run rejects, by way of the finally block.
CreateFails ==
    /\ run.pc = "create"
    /\ run.todo # <<>>
    /\ run' = [run EXCEPT !.pc = "cleanup", !.outcome = "rejected"]
    /\ UNCHANGED <<repo, worktrees, agent, crashes>>

Dispatch ==
    /\ run.pc = "create"
    /\ run.todo = <<>>
    /\ agent' = [p \in Plans |-> IF waveOf(p) = run.wave THEN "running" ELSE agent[p]]
    /\ run' = [run EXCEPT !.pc = "agents"]
    /\ UNCHANGED <<repo, worktrees, crashes>>

-----------------------------------------------------------------------------
(* The agents, and what execute does once all of them have ended. *)

AgentCommits(p) ==
    /\ agent[p] = "running"
    /\ LET w == worktreeOf(p)
       IN  /\ w.commits < MaxCommits
           /\ worktrees' = (worktrees \ {w}) \cup {[w EXCEPT !.commits = @ + 1]}
    /\ UNCHANGED <<repo, agent, run, crashes>>

\* A summary that reports success; anything else, a rejection too, is a failure.
AgentEnds(p) ==
    /\ agent[p] = "running"
    /\ \E end \in {"ok", "failed"} : agent' = [agent EXCEPT ![p] = end]
    /\ UNCHANGED <<repo, worktrees, run, crashes>>

\* Mutant: an agent that answers at all has succeeded.
succeeded_answered(w) == inFileOrder({p \in plansOf(w) : agent[p] # "running"})

succeeded(w) == inFileOrder({p \in plansOf(w) : agent[p] = "ok"})
failedPlans(w) == {p \in plansOf(w) : agent[p] = "failed"}

\* Mutant: the first agent that fails rejects the whole wave.
AllEnded_orFirstFailure ==
    /\ run.pc = "agents"
    /\ \/ /\ failedPlans(run.wave) # {}
          /\ run' = [run EXCEPT !.pc = "cleanup", !.outcome = "rejected"]
       \/ /\ \A p \in Plans : agent[p] = "ok"
          /\ run' = [run EXCEPT !.pc = "pick", !.todo = succeeded(run.wave)]
    /\ UNCHANGED <<repo, worktrees, agent, crashes>>

AllEnded ==
    /\ run.pc = "agents"
    /\ \A p \in Plans : agent[p] # "running"
    /\ run' = [run EXCEPT !.pc = "pick", !.todo = succeeded(run.wave)]
    /\ UNCHANGED <<repo, worktrees, agent, crashes>>

\* The list is taken once; the commits are picked from it one by one.
BeginPick ==
    /\ run.pc = "pick"
    /\ run.todo # <<>>
    /\ run' = [run EXCEPT !.pc = "picking",
                          !.picks = gitLog(worktreeOf(Head(run.todo)))]
    /\ UNCHANGED <<repo, worktrees, agent, crashes>>

\* The plan is counted as completed, whatever became of its commits.
planPicked(r) ==
    [r EXCEPT !.pc = "pick", !.picks = <<>>, !.todo = Tail(@), !.completed = @ + 1]

onMain(c) == c \in ToSet(main)

PickCommit ==
    /\ run.pc = "picking"
    /\ run.picks # <<>>
    /\ stuck # "conflict"
    /\ ~onMain(Head(run.picks))
    /\ main' = Append(main, Head(run.picks))
    /\ stuck' = "no"
    /\ run' = [run EXCEPT !.picks = Tail(@)]
    /\ UNCHANGED <<worktrees, agent, crashes>>

\* Mutant: a plan whose commits do not land is not counted.
PickFails_uncounted ==
    /\ run.pc = "picking"
    /\ MayConflict \/ (run.picks # <<>> /\ (stuck = "conflict" \/ onMain(Head(run.picks))))
    /\ run' = [planPicked(run) EXCEPT !.completed = run.completed]
    /\ UNCHANGED <<main, stuck, worktrees, agent, crashes>>

\* A commit that is there already makes an empty pick, which is an error.  A
\* log that fails, or a tree with other changes, leaves nothing unfinished.
PickFails ==
    /\ run.pc = "picking"
    /\ \/ MayConflict /\ UNCHANGED stuck
       \/ /\ run.picks # <<>>
          /\ LET empty == onMain(Head(run.picks))
             IN  /\ stuck = "conflict" \/ empty \/ MayConflict
                 /\ stuck' = IF empty /\ stuck # "conflict" THEN "empty" ELSE "conflict"
    /\ run' = planPicked(run)
    /\ UNCHANGED <<main, worktrees, agent, crashes>>

PickEnds ==
    /\ run.pc = "picking"
    /\ run.picks = <<>>
    /\ run' = planPicked(run)
    /\ UNCHANGED <<repo, worktrees, agent, crashes>>

WavePicked ==
    /\ run.pc = "pick"
    /\ run.todo = <<>>
    /\ run' = IF failedPlans(run.wave) = {} THEN nextWave(run)
              ELSE [run EXCEPT !.pc = "failures"]
    /\ UNCHANGED <<repo, worktrees, agent, crashes>>

AskFailures ==
    /\ run.pc = "failures"
    /\ \E abort \in BOOLEAN :
          run' = IF abort THEN nextWave([run EXCEPT !.aborted = TRUE])
                 ELSE nextWave([run EXCEPT !.failed = @ + Cardinality(failedPlans(run.wave))])
    /\ UNCHANGED <<repo, worktrees, agent, crashes>>

-----------------------------------------------------------------------------
(* The finally block, one worktree at a time; git may refuse to remove one. *)

\* Mutant: what git refuses to remove is tried again after the others.
RemoveWorktree_untilGone ==
    /\ run.pc = "cleanup"
    /\ run.managed # <<>>
    /\ LET p == Head(run.managed)
       IN  \/ /\ worktrees' = {w \in worktrees : w.plan # p}
              /\ run' = [run EXCEPT !.managed = Tail(@)]
           \/ /\ run' = [run EXCEPT !.managed = Append(Tail(@), p)]
              /\ UNCHANGED worktrees
    /\ UNCHANGED <<repo, agent, crashes>>

RemoveWorktree ==
    /\ run.pc = "cleanup"
    /\ run.managed # <<>>
    /\ LET p == Head(run.managed)
       IN  \/ /\ worktrees' = {w \in worktrees : w.plan # p}
              /\ run' = [run EXCEPT !.managed = Tail(@)]
           \/ /\ run' = [run EXCEPT !.managed = Tail(@), !.kept = @ \cup {p}]
              /\ UNCHANGED worktrees
    /\ UNCHANGED <<repo, agent, crashes>>

End ==
    /\ run.pc = "cleanup"
    /\ run.managed = <<>>
    /\ run' = [run EXCEPT !.pc = "ended"]
    /\ UNCHANGED <<repo, worktrees, agent, crashes>>

Crash ==
    /\ run.pc \notin {"idle", "ended"}
    /\ crashes < MaxCrashes
    /\ crashes' = crashes + 1
    /\ run' = [run EXCEPT !.pc = "ended", !.outcome = "crashed", !.todo = <<>>, !.picks = <<>>]
    /\ agent' = [p \in Plans |-> IF agent[p] = "running" THEN "failed" ELSE agent[p]]
    /\ UNCHANGED <<repo, worktrees>>

\* Between two runs the user may clear what the last one left.
CleanUpByHand ==
    /\ run.pc = "ended"
    /\ \/ /\ worktrees # {}
          /\ worktrees' = {}
          /\ UNCHANGED stuck
       \/ /\ stuck # "no"
          /\ stuck' = "no"
          /\ UNCHANGED worktrees
    /\ UNCHANGED <<main, agent, run, crashes>>

RunStep ==
    \/ Checkpoint \/ CheckpointsDone \/ CreateWorktree \/ CreateFails \/ Dispatch
    \/ AllEnded \/ BeginPick \/ PickCommit \/ PickFails \/ PickEnds
    \/ WavePicked \/ AskFailures \/ RemoveWorktree \/ End

Next ==
    \/ Start \/ RunStep \/ Crash \/ CleanUpByHand
    \/ \E p \in Plans : AgentCommits(p) \/ AgentEnds(p)

Spec == Init /\ [][Next]_vars

\* An awaited call returns, the user answers, and agents end by their timeout.
FairSpec == Spec /\ WF_vars(RunStep) /\ \A p \in Plans : WF_vars(AgentEnds(p))

-----------------------------------------------------------------------------
TypeOK ==
    /\ main \in Seq(Commit)
    /\ stuck \in {"no", "empty", "conflict"}
    /\ worktrees \in SUBSET Worktree
    /\ agent \in [Plans -> AgentStates]
    /\ run \in Run
    /\ crashes \in 0..MaxCrashes

(***************************************************************************)
(* An agent works in a worktree of its own run, which nobody removes under *)
(* it: a failing sibling, an abort and the finally block all wait for the  *)
(* agents of the wave, and what an earlier run left behind is never used   *)
(* again (execute.skill.ts, "Cleanup: always remove all worktrees").       *)
(***************************************************************************)
AgentsKeepTheirWorktree ==
    \A p \in Plans : agent[p] = "running" =>
        /\ run.pc = "agents"
        /\ Cardinality({w \in worktrees : w.plan = p}) = 1
        /\ \A w \in worktrees : w.plan = p => w.run = run.n

(***************************************************************************)
(* A plan starts from what every earlier wave of its run has landed, and   *)
(* from nothing of its own wave: plans of one wave see none of each        *)
(* other's work, plans of the next one see all that was picked.            *)
(***************************************************************************)
PlansStartFromEarlierWaves ==
    \A w \in {v \in worktrees : v.run = run.n}, i \in DOMAIN main :
        main[i].run = run.n =>
            (i <= w.fork <=> waveOf(main[i].plan) < waveOf(w.plan))

(***************************************************************************)
(* What lands on the base branch lands once, comes from agents that        *)
(* reported success, and in the order of the waves; a failed agent's       *)
(* commits stay in its worktree, and a later run that lists the branch     *)
(* again picks nothing twice.                                              *)
(***************************************************************************)
OnlySuccessLandsOnce ==
    /\ \A i, j \in DOMAIN main : main[i] = main[j] => i = j
    /\ \A i \in DOMAIN main : main[i].run = run.n => agent[main[i].plan] = "ok"
    /\ \A i, j \in DOMAIN main :
          (i < j /\ main[i].run = main[j].run) => waveOf(main[i].plan) <= waveOf(main[j].plan)

(***************************************************************************)
(* However a run ends, short of a crash, the worktrees it made are gone,   *)
(* but for those git refused to remove; those of other runs it leaves.     *)
(***************************************************************************)
EndedRunsLeaveNoWorktree ==
    /\ (run.pc = "ended" /\ run.outcome # "crashed")
          => \A w \in worktrees : w.run = run.n => w.plan \in run.kept
    /\ run.pc = "idle" => worktrees = {}

(***************************************************************************)
(* The totals of a run that came to its end: every plan was completed or   *)
(* failed, and a plan the user skipped at its checkpoint is counted again  *)
(* by how its agent, dispatched all the same, ended.                       *)
(***************************************************************************)
TotalsCountSkippedTwice ==
    (run.outcome = "finished" /\ ~run.aborted) =>
        /\ run.completed + run.failed = Cardinality(Plans) + Cardinality(run.skipped)
        /\ run.completed = Cardinality({p \in Plans : agent[p] = "ok"})

(***************************************************************************)
(* A run ends, whatever its agents, git and the user do.                   *)
(***************************************************************************)
RunsEnd == (run.pc \notin {"idle", "ended"}) ~> (run.pc = "ended")

(***************************************************************************)
(* The commits of a plan that counts as completed are on the base branch,  *)
(* as long as no cherry-pick conflicts: cherryPick is documented to pick   *)
(* "all new commits from a worktree branch back to the target branch"      *)
(* (worktree-manager.ts).                                                  *)
(***************************************************************************)
CompletedPlansLand ==
    (run.outcome = "finished" /\ ~MayConflict) =>
        \A w \in worktrees : (w.run = run.n /\ agent[w.plan] = "ok") =>
            \A k \in 1..w.commits : onMain([run |-> w.run, plan |-> w.plan, k |-> k])

=============================================================================
