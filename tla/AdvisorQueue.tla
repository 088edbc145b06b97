---------------------------- MODULE AdvisorQueue ----------------------------
(***************************************************************************)
(* The advisor's two hooks over the files they share in ~/.sun: the        *)
(* post-action hook (packages/cli/hooks/sunco-advisor-postaction.cjs),     *)
(* which queues an item for a risky edit, and the ambient hook             *)
(* (sunco-advisor-ambient.cjs), which shows one item, or a remark on the   *)
(* prompt itself, before a prompt.                                         *)
(*                                                                         *)
(* Every hook is a process of its own, and every editor session starts     *)
(* them, so they overlap.  writeFileSync empties the file and then fills   *)
(* it; a reader in between, or after a writer that died there, finds a     *)
(* file that does not parse.  So may a reader after two overlapping        *)
(* writers, when the shorter content leaves the tail of the longer one.    *)
(*                                                                         *)
(* Abstractions:                                                           *)
(*  - An item is its id (the hash of bucket, file and signals); what the   *)
(*    classifiers make of a path or a prompt is an input.                  *)
(*  - The hooks are enabled and file I/O does not fail; the log is left    *)
(*    out.  Nothing under src moves an item on from surfaced but expiry.   *)
(*  - A post-action hook queues two items at most; one for a MultiEdit of  *)
(*    many files may queue more.                                           *)
(***************************************************************************)
EXTENDS Naturals, Sequences, SequencesExt, FiniteSets

CONSTANTS
    Hooks,         \* hook processes that may run at a time
    Ids,           \* item ids
    Keys,          \* suppression keys of prompts
    Torn,          \* a file that does not parse
    Never,         \* a key that was not shown yet
    QueueTTL,      \* QUEUE_TTL_MS
    SuppressFor,   \* suppress_same_key_minutes
    MaxQueueItems, \* MAX_QUEUE_ITEMS
    MaxVisible,    \* max_visible_per_session
    MaxTime,       \* bound on the clock
    MaxStarts,     \* bound on the hooks ever started
    MaxCrashes     \* bound on the hooks that die

ASSUME AdvisorAssumption ==
    /\ {QueueTTL, SuppressFor, MaxVisible, MaxTime, MaxStarts, MaxCrashes} \subseteq Nat
    /\ MaxQueueItems \in Nat \ {0}
    /\ Never \notin Nat

VARIABLES
    queueFile,  \* advisor-queue.json
    budgetFile, \* advisor-budget.json
    now,        \* the clock
    job,        \* per hook process: its locals
    shown,      \* what was printed into prompts, in order
    cut,        \* items enforceCap dropped
    count       \* hooks started and died, and whether two ever overlapped

vars == <<queueFile, budgetFile, now, job, shown, cut, count>>

-----------------------------------------------------------------------------
Statuses == {"pending", "surfaced", "expired"}
Item == [id : Ids, createdAt : Nat, status : Statuses]
Queue == Seq(Item)
Budget == [visibleCount : Nat, lastSurfaced : [Keys -> Nat \cup {Never}]]
Remark == [kind : {"item"}, id : Ids, at : Nat] \cup [kind : {"prompt"}, id : Keys, at : Nat]

NoBudget == [visibleCount |-> 0, lastSurfaced |-> [k \in Keys |-> Never]]

ASSUME TornAssumption == Torn \notin Queue /\ Torn \notin Budget

\* A file that does not parse reads as empty.
readQueue == IF queueFile = Torn THEN <<>> ELSE queueFile
readBudget == IF budgetFile = Torn THEN NoBudget ELSE budgetFile

PCs == {"idle", "emptyQueue", "fillQueue", "budget", "emptyBudget", "fillBudget",
        "remark", "classify"}
NoRemark == [kind |-> "none", id |-> Never, at |-> 0]
Job == [pc : PCs, post : BOOLEAN, queue : Queue, budget : Budget,
        remark : Remark \cup {NoRemark}]
NoJob == [pc |-> "idle", post |-> FALSE, queue |-> <<>>, budget |-> NoBudget,
          remark |-> NoRemark]

Running(h) == job[h].pc # "idle"

-----------------------------------------------------------------------------
(* What the hooks do to a queue. *)

isActive(item) == item.status \in {"pending", "surfaced"}
isPending(item) == item.status = "pending"

scavengeExpired(queue, t) ==
    [i \in DOMAIN queue |->
        IF isActive(queue[i]) /\ queue[i].createdAt + QueueTTL < t
        THEN [queue[i] EXCEPT !.status = "expired"]
        ELSE queue[i]]

\* Mutant: an item that was surfaced may be queued again.
enqueue_pendingOnly(queue, id, t) ==
    IF \E i \in DOMAIN queue : queue[i].id = id /\ isPending(queue[i])
    THEN queue
    ELSE Append(queue, [id |-> id, createdAt |-> t, status |-> "pending"])

enqueue(queue, id, t) ==
    IF \E i \in DOMAIN queue : queue[i].id = id /\ isActive(queue[i])
    THEN queue
    ELSE Append(queue, [id |-> id, createdAt |-> t, status |-> "pending"])

\* Mutant: the comparison of the ages is turned round.
dropsBefore_youngest(a, b) ==
    \/ ~isPending(a) /\ isPending(b)
    \/ isPending(a) = isPending(b) /\ a.createdAt > b.createdAt

\* What goes first when there are too many.
dropsBefore(a, b) ==
    \/ ~isPending(a) /\ isPending(b)
    \/ isPending(a) = isPending(b) /\ a.createdAt < b.createdAt

\* Array.sort is stable: items that compare equal stay in the order they have.
goesBefore(queue, i, j) ==
    \/ dropsBefore(queue[i], queue[j])
    \/ i < j /\ ~dropsBefore(queue[j], queue[i])

\* How many items of the sorted queue stand before the i-th one.
ahead(queue, i) == Cardinality({j \in DOMAIN queue : goesBefore(queue, j, i)})

\* The n items of the sorted queue after the first k.
sortedSlice(queue, k, n) ==
    [m \in 1..n |-> queue[CHOOSE i \in DOMAIN queue : ahead(queue, i) = k + m - 1]]

\* Mutant: the head of the sorted queue is kept.
enforceCap_keepsHead(queue) ==
    IF Len(queue) <= MaxQueueItems THEN queue
    ELSE sortedSlice(queue, 0, MaxQueueItems)

enforceCap(queue) ==
    IF Len(queue) <= MaxQueueItems THEN queue
    ELSE sortedSlice(queue, Len(queue) - MaxQueueItems, MaxQueueItems)

oldestPending(queue) == SelectInSeq(queue, isPending)

\* Mutant: an item is shown, not surfaced.
promoteOldestPending_shown(queue) ==
    LET i == oldestPending(queue)
    IN  [queue EXCEPT ![i] = [queue[i] EXCEPT !.status = "shown"]]

promoteOldestPending(queue) ==
    LET i == oldestPending(queue)
    IN  [queue EXCEPT ![i] = [queue[i] EXCEPT !.status = "surfaced"]]

-----------------------------------------------------------------------------
Init ==
    /\ queueFile = <<>>
    /\ budgetFile = NoBudget
    /\ now = 0
    /\ job = [h \in Hooks |-> NoJob]
    /\ shown = <<>>
    /\ cut = {}
    /\ count = [starts |-> 0, crashes |-> 0, raced |-> FALSE]

files == <<queueFile, budgetFile>>
Go(h, pc) == job' = [job EXCEPT ![h] = [job[h] EXCEPT !.pc = pc]]
Exit(h) == job' = [job EXCEPT ![h] = NoJob]

Begin(h) ==
    /\ ~Running(h)
    /\ count.starts < MaxStarts
    /\ count' = [count EXCEPT !.starts = count.starts + 1,
                              !.raced = count.raced \/ \E o \in Hooks : Running(o)]

(***************************************************************************)
(* The post-action hook reads, expires, queues and caps; it writes only if *)
(* it queued something, so that what it expired is lost otherwise.         *)
(***************************************************************************)
PostAction(h) ==
    /\ Begin(h)
    /\ \E first, second \in Ids :
          LET read  == scavengeExpired(readQueue, now)
              added == enqueue(enqueue(read, first, now), second, now)
              new   == enforceCap(added)
          IN  /\ job' = [job EXCEPT ![h] =
                    IF Len(added) = Len(read) THEN NoJob
                    ELSE [NoJob EXCEPT !.pc = "emptyQueue", !.post = TRUE, !.queue = new]]
              /\ cut' = cut \cup {[id |-> i.id, createdAt |-> i.createdAt] :
                                     i \in ToSet(added) \ ToSet(new)}
    /\ UNCHANGED <<files, now, shown>>

\* The ambient hook marks the first pending item before it looks at the budget;
\* neither the age of the item nor its key matters.
Ambient(h) ==
    /\ Begin(h)
    /\ LET queue == readQueue
           i     == oldestPending(queue)
       IN  job' = [job EXCEPT ![h] =
               IF i = 0 THEN [NoJob EXCEPT !.pc = "classify"]
               ELSE [NoJob EXCEPT !.pc = "emptyQueue",
                                  !.queue = promoteOldestPending(queue),
                                  !.remark = [kind |-> "item", id |-> queue[i].id,
                                             at |-> queue[i].createdAt]]]
    /\ UNCHANGED <<files, now, shown, cut>>

EmptyQueueFile(h) ==
    /\ job[h].pc = "emptyQueue"
    /\ queueFile' = Torn
    /\ Go(h, "fillQueue")
    /\ UNCHANGED <<budgetFile, now, shown, cut, count>>

\* What filling a file leaves: another hook may have filled it since it was
\* emptied, and the tail of what that one wrote may stay behind.
filled(file, content) ==
    {content} \cup (IF count.raced /\ file # Torn THEN {Torn} ELSE {})

FillQueueFile(h) ==
    /\ job[h].pc = "fillQueue"
    /\ queueFile' \in filled(queueFile, job[h].queue)
    /\ IF job[h].post THEN Exit(h)
       ELSE job' = [job EXCEPT ![h] = [job[h] EXCEPT !.pc = "budget", !.queue = <<>>]]
    /\ UNCHANGED <<budgetFile, now, shown, cut, count>>

withinCap(budget) == budget.visibleCount < MaxVisible
withOneMore(budget) == [budget EXCEPT !.visibleCount = budget.visibleCount + 1]

\* Mutants: the cap is reached one item early; items do not count.
CheckBudget_early(h) ==
    /\ job[h].pc = "budget"
    /\ job' = [job EXCEPT ![h] =
            IF readBudget.visibleCount + 1 < MaxVisible
            THEN [job[h] EXCEPT !.pc = "emptyBudget", !.budget = withOneMore(readBudget)]
            ELSE [job[h] EXCEPT !.pc = "classify", !.remark = NoRemark]]
    /\ UNCHANGED <<files, now, shown, cut, count>>
CheckBudget_uncounted(h) ==
    /\ job[h].pc = "budget"
    /\ job' = [job EXCEPT ![h] =
            IF withinCap(readBudget)
            THEN [job[h] EXCEPT !.pc = "emptyBudget", !.budget = readBudget]
            ELSE [job[h] EXCEPT !.pc = "classify", !.remark = NoRemark]]
    /\ UNCHANGED <<files, now, shown, cut, count>>

\* At the cap the item is not shown, and stays surfaced.
CheckBudget(h) ==
    /\ job[h].pc = "budget"
    /\ job' = [job EXCEPT ![h] =
            IF withinCap(readBudget)
            THEN [job[h] EXCEPT !.pc = "emptyBudget", !.budget = withOneMore(readBudget)]
            ELSE [job[h] EXCEPT !.pc = "classify", !.remark = NoRemark]]
    /\ UNCHANGED <<files, now, shown, cut, count>>

recentlySurfaced(budget, key) ==
    /\ budget.lastSurfaced[key] # Never
    /\ now < budget.lastSurfaced[key] + SuppressFor

shouldSurface(budget, key) == withinCap(budget) /\ ~recentlySurfaced(budget, key)

\* The prompt is silent, or has a key that may or may not be shown.
ClassifyPrompt(h) ==
    /\ job[h].pc = "classify"
    /\ \/ Exit(h)
       \/ \E key \in Keys :
             /\ shouldSurface(readBudget, key)
             /\ job' = [job EXCEPT ![h] =
                   [job[h] EXCEPT
                       !.pc = "emptyBudget",
                       !.budget = [withOneMore(readBudget) EXCEPT !.lastSurfaced[key] = now],
                       !.remark = [kind |-> "prompt", id |-> key, at |-> now]]]
    /\ UNCHANGED <<files, now, shown, cut, count>>

EmptyBudgetFile(h) ==
    /\ job[h].pc = "emptyBudget"
    /\ budgetFile' = Torn
    /\ Go(h, "fillBudget")
    /\ UNCHANGED <<queueFile, now, shown, cut, count>>

FillBudgetFile(h) ==
    /\ job[h].pc = "fillBudget"
    /\ budgetFile' \in filled(budgetFile, job[h].budget)
    /\ Go(h, "remark")
    /\ UNCHANGED <<queueFile, now, shown, cut, count>>

WriteToPrompt(h) ==
    /\ job[h].pc = "remark"
    /\ shown' = Append(shown, job[h].remark)
    /\ Exit(h)
    /\ UNCHANGED <<files, now, cut, count>>

-----------------------------------------------------------------------------
Crash(h) ==
    /\ Running(h)
    /\ count.crashes < MaxCrashes
    /\ count' = [count EXCEPT !.crashes = count.crashes + 1]
    /\ Exit(h)
    /\ UNCHANGED <<files, now, shown, cut>>

Tick ==
    /\ now < MaxTime
    /\ now' = now + 1
    /\ UNCHANGED <<files, job, shown, cut, count>>

Next ==
    \/ \E h \in Hooks :
          \/ PostAction(h) \/ Ambient(h)
          \/ EmptyQueueFile(h) \/ FillQueueFile(h)
          \/ CheckBudget(h) \/ ClassifyPrompt(h)
          \/ EmptyBudgetFile(h) \/ FillBudgetFile(h) \/ WriteToPrompt(h)
          \/ Crash(h)
    \/ Tick

Spec == Init /\ [][Next]_vars

-----------------------------------------------------------------------------
TypeOK ==
    /\ queueFile \in Queue \cup {Torn}
    /\ budgetFile \in Budget \cup {Torn}
    /\ now \in 0..MaxTime
    /\ job \in [Hooks -> Job]
    /\ shown \in Seq(Remark)
    /\ \A c \in cut : c \in [id : Ids, createdAt : 0..MaxTime]
    /\ count \in [starts : 0..MaxStarts, crashes : 0..MaxCrashes, raced : BOOLEAN]

\* The queues there are: the file's, and those about to be written.
Queues == {readQueue} \cup {job[h].queue : h \in Hooks}

Undisturbed == ~count.raced /\ count.crashes = 0

(***************************************************************************)
(* An id has at most one active item, and the queue keeps within its cap,  *)
(* whatever hooks overwrite each other: "Dedupe by id while the prior item *)
(* is still active", "hard cap so the file never grows unbounded".         *)
(***************************************************************************)
ActiveItemsAreDistinct ==
    \A queue \in Queues :
        /\ Len(queue) <= MaxQueueItems
        /\ \A i, j \in DOMAIN queue :
              (queue[i].id = queue[j].id /\ isActive(queue[i]) /\ isActive(queue[j]))
                  => i = j

(***************************************************************************)
(* Pending items stand in the order of their age, so that the first one    *)
(* found is the oldest: cap, expiry, lost updates and torn files keep it.  *)
(***************************************************************************)
OldestPendingFirst ==
    \A queue \in Queues : \A i, j \in DOMAIN queue :
        (i < j /\ isPending(queue[i]) /\ isPending(queue[j]))
            => queue[i].createdAt <= queue[j].createdAt

(***************************************************************************)
(* The cap drops a pending item only when nothing but pending items is     *)
(* left, and no younger one than it keeps, so that what a hook queued is   *)
(* still there when it writes: "Drop oldest non-pending first, then oldest *)
(* pending."                                                               *)
(***************************************************************************)
CapDropsFinishedFirst ==
    [][\A h \in Hooks : (job'[h].post /\ ~job[h].post) =>
         LET kept == ToSet(job'[h].queue)
             lost == {i \in ToSet(scavengeExpired(readQueue, now)) :
                         isPending(i) /\ i \notin kept}
         IN  /\ \A l \in lost, k \in kept : isPending(k) /\ l.createdAt <= k.createdAt
             /\ \E k \in kept : isPending(k) /\ k.createdAt = now]_vars

(***************************************************************************)
(* As long as no two hooks overlapped and none died, an item that is       *)
(* marked surfaced was shown, once at most, if the cap was not reached,    *)
(* and none was shown that is still pending; an item that was cut and      *)
(* queued again at once counts as another one.                             *)
(***************************************************************************)
SurfacedItemsWereShown ==
    (Undisturbed /\ \A h \in Hooks : ~Running(h)) =>
        \A i \in DOMAIN readQueue :
            LET item  == readQueue[i]
                again == [id |-> item.id, createdAt |-> item.createdAt] \in cut
                times == {n \in DOMAIN shown : /\ shown[n].kind = "item"
                                               /\ shown[n].id = item.id
                                               /\ shown[n].at = item.createdAt}
            IN  /\ ~again => Cardinality(times) <= 1
                /\ (~again /\ item.status = "pending") => times = {}
                /\ item.status = "surfaced" => times # {} \/ ~withinCap(readBudget)

(***************************************************************************)
(* As long as no two hooks overlapped and none died, no more is printed    *)
(* than the cap allows, and no prompt's key twice within the suppression   *)
(* time: "Max visible per session", "Same suppressionKey re-shown after 30 *)
(* minutes" (advisor-contract.md).                                         *)
(***************************************************************************)
NoiseStaysWithinBudget ==
    Undisturbed =>
        /\ Len(shown) <= MaxVisible
        /\ \A i, j \in DOMAIN shown :
              (i < j /\ shown[i].kind = "prompt" /\ shown[j].kind = "prompt"
                     /\ shown[i].id = shown[j].id)
                  => shown[j].at >= shown[i].at + SuppressFor

=============================================================================
