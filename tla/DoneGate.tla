------------------------------ MODULE DoneGate ------------------------------
(***************************************************************************)
(* The Done Gate of the proof-first runtime: the pure function             *)
(* evaluateDoneGate of packages/runtime/src/index.ts, over the records of  *)
(* packages/core/src/runtime/types.ts, and mergeChecks of the verifier.    *)
(*                                                                         *)
(* The code collects a list of reasons and passes when the list is empty;  *)
(* here each kind of reason is a conjunct that fails when the reason would *)
(* be pushed.  The wording of reasons and next actions is left out.        *)
(*                                                                         *)
(* Lists whose order nothing reads (checks, approvals, edit transactions,  *)
(* unresolved failures) are sets.                                          *)
(***************************************************************************)
EXTENDS Naturals

CONSTANTS
    None,       \* what readTask and readEvidence return on ENOENT
    Files       \* paths a task may change

RISK_LEVELS == {"read_only", "local_mutate", "repo_mutate",
                "repo_mutate_official", "remote_mutate", "external_mutate"}

APPROVAL_REQUIRED_RISKS ==
    {"repo_mutate_official", "remote_mutate", "external_mutate"}

MUTATION_RISKS == {"repo_mutate"} \union APPROVAL_REQUIRED_RISKS

CHECK_KINDS == {"typecheck", "test", "lint", "build", "custom"}

CHECK_STATUSES == {"pass", "fail", "skipped", "blocked"}

\* A check's id is `${kind}-${index + 1}`: the pair of kind and pos.
CheckResult == [kind     : CHECK_KINDS,
                pos      : Nat,
                status   : CHECK_STATUSES,
                required : BOOLEAN]

\* Without an expiry, expiresAt is None.
ApprovalRecord == [risk      : RISK_LEVELS,
                   revoked   : BOOLEAN,
                   expiresAt : Nat \union {None}]

EDIT_STATUSES == {"observed", "applied", "stale", "failed", "rolled_back"}

\* The two paths of an edit transaction are kept as "is it recorded".
EditTransaction == [id                : Nat,
                    status            : EDIT_STATUSES,
                    changedFiles      : SUBSET Files,
                    staleFiles        : SUBSET Files,
                    diffPath          : BOOLEAN,
                    rollbackPatchPath : BOOLEAN]

EvidenceRecord == [createdAt          : Nat,
                   checks             : SUBSET CheckResult,
                   editTransactions   : SUBSET EditTransaction,
                   approvals          : SUBSET ApprovalRecord,
                   unresolvedFailures : SUBSET STRING]

-----------------------------------------------------------------------------

requiredResults(ev) == {c \in ev.checks : c.required}

kindsOf(checks) == {c.kind : c \in checks}

\* What the gate requires when its caller names no checks (ship, status).
deriveRequiredChecks(ev) ==
    IF ev = None THEN {} ELSE kindsOf(requiredResults(ev))

\* Revoked approvals, and approvals whose expiry has been reached, do not count.
hasValidApproval(ev, risk, now) ==
    \E a \in ev.approvals :
        /\ a.risk = risk
        /\ ~ a.revoked
        /\ \/ a.expiresAt = None
           \/ a.expiresAt > now

\* One transaction is acceptable when it is neither stale nor failed and, if
\* it changed files, has both patches recorded.
soundEdit(edit) ==
    /\ edit.status \notin {"stale", "failed"}
    /\ edit.staleFiles = {}
    /\ edit.changedFiles # {} => edit.diffPath /\ edit.rollbackPatchPath

\* evaluateEditTransactions pushes no reason.
editsAccepted(risk, edits) ==
    risk \in MUTATION_RISKS =>
        /\ \E edit \in edits : edit.changedFiles # {}
        /\ \A edit \in edits : soundEdit(edit)

\* The reasons that do not depend on how a check ended or on which checks the
\* caller names: what a task needs besides green checks.
backed(risk, ev, now) ==
    /\ ev # None
    /\ requiredResults(ev) # {}
    /\ ev.unresolvedFailures = {}
    /\ risk \in APPROVAL_REQUIRED_RISKS => hasValidApproval(ev, risk, now)
    /\ editsAccepted(risk, ev.editTransactions)

\* Mutants of gatePassed: it no longer asks for a recorded check when the caller
\* names none; it looks only at the results of the kinds the caller names.
gatePassed_noChecksNeeded(risk, ev, required, now) ==
    /\ ev # None
    /\ \A kind \in required : \E c \in ev.checks : c.kind = kind
    /\ \A c \in requiredResults(ev) : c.status \notin {"fail", "blocked", "skipped"}
    /\ ev.unresolvedFailures = {}
    /\ risk \in APPROVAL_REQUIRED_RISKS => hasValidApproval(ev, risk, now)
    /\ editsAccepted(risk, ev.editTransactions)

gatePassed_namedKindsOnly(risk, ev, required, now) ==
    /\ backed(risk, ev, now)
    /\ \A kind \in required : \E c \in ev.checks : c.kind = kind
    /\ \A c \in requiredResults(ev) :
           c.kind \in required => c.status \notin {"fail", "blocked", "skipped"}

\* evaluateDoneGate(...).status = 'passed'.  required is the caller's
\* requiredChecks; a caller that passes none means deriveRequiredChecks(ev).
gatePassed(risk, ev, required, now) ==
    /\ ev # None
    /\ \A kind \in required : \E c \in ev.checks : c.kind = kind
    /\ required # {} \/ requiredResults(ev) # {}
    /\ \A c \in requiredResults(ev) : c.status \notin {"fail", "blocked", "skipped"}
    /\ ev.unresolvedFailures = {}
    /\ risk \in APPROVAL_REQUIRED_RISKS => hasValidApproval(ev, risk, now)
    /\ editsAccepted(risk, ev.editTransactions)

\* Mutant of mergeChecks: results are added and none is replaced.
mergeChecks_append(existing, incoming) == existing \union incoming

\* Incoming results replace those of the same id and are added to the others.
mergeChecks(existing, incoming) ==
    {c \in existing : \A d \in incoming : <<d.kind, d.pos>> # <<c.kind, c.pos>>}
        \union incoming

=============================================================================
