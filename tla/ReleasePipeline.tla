-------------------------- MODULE ReleasePipeline --------------------------
(***************************************************************************)
(* sunco release (packages/skills-workflow/src/release.skill.ts): bump,    *)
(* changelog, commit and tag, then the artifact gate (shared/gates.ts) and *)
(* a fresh verification (verify.skill.ts), then npm publish and push.      *)
(*                                                                         *)
(* Abstractions:                                                           *)
(*  - A version is a number that a bump increases; the changelog goes with *)
(*    the commit.  The tree is what verification would find in it.         *)
(*  - What verification looks at is one step: its layers report findings   *)
(*    and none of them stops the others.                                   *)
(***************************************************************************)
EXTENDS Naturals, FiniteSets

CONSTANTS
    None,       \* no phase
    Findings,   \* what the verification layers may report
    MaxReleases \* bound on the releases started

VARIABLES
    tree,    \* the working tree
    version, \* package.json's version
    commits, \* versions committed as a release
    tags,    \* version tags in the repository
    npm,     \* versions published
    remote,  \* version tags pushed
    run      \* the locals of execute()

vars == <<tree, version, commits, tags, npm, remote, run>>

NoRun == [pc |-> "idle", n |-> 0, success |-> FALSE, blockedBy |-> "nothing", findings |-> {}]

-----------------------------------------------------------------------------
(* verify.skill.ts, as far as its caller sees it. *)

\* Whatever the thresholds are, any remaining finding fails (--lenient too).
computeVerdict(findings) == IF findings = {} THEN "PASS" ELSE "FAIL"

\* Without a phase, verification only prints its usage.
verify(phase) ==
    IF phase = None
    THEN [success |-> FALSE, findings |-> {}]
    ELSE [success |-> computeVerdict(tree.findings) = "PASS", findings |-> tree.findings]

\* release passes { auto: true } and no phase.
freshVerify == verify(None)

-----------------------------------------------------------------------------
Init ==
    /\ tree \in [dirty : BOOLEAN, findings : SUBSET Findings]
    /\ version = 0
    /\ commits = {}
    /\ tags = {}
    /\ npm = {}
    /\ remote = {}
    /\ run = NoRun

git == <<commits, tags>>
outside == <<npm, remote>>

Go(pc) == run' = [run EXCEPT !.pc = pc]
Block(gate, findings) ==
    run' = [run EXCEPT !.pc = "idle", !.blockedBy = gate, !.findings = findings]

\* A dirty tree is refused, --force accepts it; --dry-run stops here.
Start ==
    /\ run.pc = "idle"
    /\ run.n < MaxReleases
    /\ \E force, dryRun \in BOOLEAN :
          LET fresh == [NoRun EXCEPT !.n = run.n + 1]
          IN  run' = IF tree.dirty /\ ~force THEN [fresh EXCEPT !.blockedBy = "dirty"]
                     ELSE IF dryRun THEN [fresh EXCEPT !.success = TRUE]
                     ELSE [fresh EXCEPT !.pc = "bump"]
    /\ UNCHANGED <<tree, version, git, outside>>

updateAllVersions ==
    /\ run.pc = "bump"
    /\ version' = version + 1
    /\ tree' = [tree EXCEPT !.dirty = TRUE]
    /\ Go("commit")
    /\ UNCHANGED <<git, outside>>

\* The package.json files and CHANGELOG.md only; other changes stay uncommitted.
CommitRelease ==
    /\ run.pc = "commit"
    /\ commits' = commits \cup {version}
    /\ \E others \in BOOLEAN : tree' = [tree EXCEPT !.dirty = others]
    /\ Go("tag")
    /\ UNCHANGED <<version, tags, outside>>

\* A tag that exists is left where it is.
Tag ==
    /\ run.pc = "tag"
    /\ tags' = tags \cup {version}
    /\ Go("artifacts")
    /\ UNCHANGED <<tree, version, commits, outside>>

\* The commit and the tag of a blocked release stay.
ArtifactGate ==
    /\ run.pc = "artifacts"
    /\ \E missing \in SUBSET {"tarball", "install tree"} :
          IF missing = {} THEN Go("verify") ELSE Block("artifacts", missing)
    /\ UNCHANGED <<tree, version, git, outside>>

FreshVerify ==
    /\ run.pc = "verify"
    /\ IF freshVerify.success THEN Go("publish") ELSE Block("verify", freshVerify.findings)
    /\ UNCHANGED <<tree, version, git, outside>>

\* A failed publish is logged, and the release goes on.
Publish ==
    /\ run.pc = "publish"
    /\ npm' \in {npm, npm \cup {version}}
    /\ Go("push")
    /\ UNCHANGED <<tree, version, git, remote>>

\* A failed push is logged too; a push takes all tags, older ones included.
Push ==
    /\ run.pc = "push"
    /\ remote' \in {remote, tags}
    /\ run' = [run EXCEPT !.pc = "idle", !.success = TRUE]
    /\ UNCHANGED <<tree, version, git, npm>>

Edit ==
    /\ \E findings \in SUBSET Findings : tree' = [dirty |-> TRUE, findings |-> findings]
    /\ UNCHANGED <<version, git, outside, run>>

CommitTree ==
    /\ tree.dirty
    /\ tree' = [tree EXCEPT !.dirty = FALSE]
    /\ UNCHANGED <<version, git, outside, run>>

Next ==
    \/ Start \/ updateAllVersions \/ CommitRelease \/ Tag
    \/ ArtifactGate \/ FreshVerify \/ Publish \/ Push
    \/ Edit \/ CommitTree

Spec == Init /\ [][Next]_vars

-----------------------------------------------------------------------------
(***************************************************************************)
(* A release that its fresh verification blocks was blocked by findings:   *)
(* the summary tells the user to "Resolve all findings before release."    *)
(* (release.skill.ts).                                                     *)
(***************************************************************************)
BlockedReleaseHasFindings == run.blockedBy = "verify" => run.findings # {}

=============================================================================
