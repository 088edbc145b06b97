-------------------------- MODULE AutoAlone_proofs --------------------------
(***************************************************************************)
(* Theorems about AutoPipeline for sessions that do not overlap: what the  *)
(* crash lock says, how often a step may fail in a row, and what a resumed *)
(* session takes over.  The last one, and the one about a finished         *)
(* roadmap, are about roadmaps without decimal phases (a decimal one may   *)
(* fall out of the list: the run `decimals`).                              *)
(***************************************************************************)
EXTENDS AutoPipeline_proofs, FiniteSetTheorems

-----------------------------------------------------------------------------
(* The invariant of the lock and the history in it *)

\* After the lock was acquired, and after the step was written to it.
locked == Live \ {"acquire"}
entered == {"ready", "running", "record", "judge", "ask", "rerunning", "rerecord"}

\* The last n steps of a history are the same one, failing by itself.
Streak(h, n) ==
    /\ Len(h) >= n
    /\ \A i \in 1..Len(h), k \in 1..Len(h) : (i > Len(h) - n /\ k > Len(h) - n) =>
          ~h[i].success /\ ~h[i].timedOut /\ h[i].step = h[k].step

\* A streak beyond the threshold ends in a failure that is about to be judged,
\* or in an abort; a step is asked about only when it was not stuck.
NoStreak(j, h) ==
    /\ Streak(h, MaxConsecutive + 1) =>
          \/ j.pc = "judge" /\ j.out = "fail"
          \/ j.pc = "phase" /\ j.aborted
          \/ j.pc = "release"
    /\ j.pc \in {"ask", "rerunning", "rerecord"} => ~consecutiveFailures(h)

\* The lock l of a session s with the locals j.
Owns(s, j, l) ==
    j.pc \in locked =>
        /\ l \in LockState /\ l.pid = s
        /\ j.pc \in entered => l.phase = j.phase /\ l.step = StepOf(j)
        /\ NoStreak(j, l.history)

\* A lock is left by a session that runs or has crashed.
Left ==
    /\ lock \in LockState => job[lock.pid].pc \in Live \cup {"crashed"}
    /\ lock = Torn => \E s \in Sessions : job[s].pc = "crashed"

Single == \A s, t \in Sessions : (Running(s) /\ Running(t)) => s = t

Alone ==
    /\ Single /\ Left
    /\ \A s \in Sessions : Owns(s, job[s], lock)

-----------------------------------------------------------------------------
(* The invariant of the list of phases *)

IntegerPhases ==
    InsertAfter = {} /\ \A i \in DOMAIN InitialRoadmap : InitialRoadmap[i].minor = 0

Numbers == {NumberOf(p) : p \in ToSet(roadmap)}

\* What is open and not on a session's list was added after everything on it.
Listed(j) ==
    /\ j.todo \cup j.tried \subseteq Numbers
    /\ j.phase \in j.tried \cup {0}
    /\ j.pc \in before => j.completed = 0 /\ j.todo = {} /\ j.phase = 0
    /\ j.pc \in inPhase \cup {"phase"} => j.phase \in j.tried
    /\ j.pc \in Live \ before =>
          \A n \in remainingFrom(roadmap, j.start) :
              n \in j.tried \cup j.todo \/ \A m \in j.tried \cup j.todo : m < n

Lists ==
    /\ \A i \in DOMAIN roadmap : roadmap[i].minor = 0
    /\ \A s \in Sessions : Listed(job[s])
    /\ RoadmapIsFinished

\* A lock l points at or before everything its session still has to do; a
\* session that resumes a dead one starts from where the lock pointed.
Points(j, l) ==
    /\ j.pc = "roadmap" => l.phase <= j.start
    /\ j.pc \in inPhase \cup {"phase"} => l.phase <= j.phase
    /\ j.phase \notin j.finished \cup {0} => l.phase <= j.phase
    /\ \A n \in j.todo : l.phase <= n

Resumes ==
    /\ \A s \in Sessions : job[s].pc \in locked => Points(job[s], lock)
    /\ (lock \in LockState /\ job[lock.pid].pc = "crashed") =>
          \A n \in job[lock.pid].todo : lock.phase <= n
    /\ \A s, d \in Sessions : (job[s].resumed = d /\ Running(s)) =>
          /\ job[d].pc = "crashed"
          /\ job[s].pc \in before => \A n \in job[d].todo : job[s].start <= n
    /\ ResumeCoversTheInterrupted

-----------------------------------------------------------------------------
(* Histories *)

\* The last n elements of a sequence.
LEMMA LastElements ==
    ASSUME NEW S, NEW h \in Seq(S), NEW n \in Nat, n <= Len(h)
    PROVE  /\ DOMAIN Tail_(h, n) = 1..n /\ Len(Tail_(h, n)) = n
           /\ \A i \in 1..n : Len(h) - n + i \in 1..Len(h) /\ Tail_(h, n)[i] = h[Len(h) - n + i]
<1> DEFINE m == Len(h)
           t == Tail_(h, n)
<1>1. m \in Nat /\ n <= m
  OBVIOUS
<1>2. t = SubSeq(h, m - n + 1, m)
  BY DEF Tail_
<1> HIDE DEF t, m
<1>3. m - n + 1 \in Int /\ (m - (m - n + 1)) + 1 = n
  BY <1>1
<1>4. t = [i \in 1..n |-> h[(m - n + 1) - 1 + i]]
  BY <1>1, <1>2, <1>3
<1>5. DOMAIN t = 1..n /\ \A i \in 1..n : t[i] = h[(m - n + 1) - 1 + i]
  BY <1>4
<1>6. \A i \in 1..n : (m - n + 1) - 1 + i = m - n + i /\ m - n + i \in 1..m
  BY <1>1
<1>7. Len(t) = n
  BY <1>4
<1> QED BY <1>5, <1>6, <1>7 DEF t, m

\* A streak beyond the threshold trips the detector.
LEMMA StreakTrips ==
    ASSUME NEW h \in Seq(Record), Streak(h, MaxConsecutive + 1)
    PROVE  consecutiveFailures(h)
<1> DEFINE n == MaxConsecutive
           t == Tail_(h, n)
           m == Len(h)
<1>1. n \in Nat /\ n >= 1 /\ m \in Nat /\ m >= n + 1
  BY AutoAssumption DEF AutoAssumption, Streak
<1>2. DOMAIN t = 1..n /\ \A i \in 1..n : m - n + i \in 1..m /\ t[i] = h[m - n + i]
  <2>1. n <= Len(h)
    BY <1>1
  <2> HIDE DEF n
  <2> QED BY <1>1, <2>1, LastElements
<1>3. \A i \in 1..n : m - n + i > m - (n + 1)
  BY <1>1
<1>4. \A i, k \in 1..m : (i > m - (n + 1) /\ k > m - (n + 1)) =>
         ~h[i].success /\ h[i].step = h[k].step
  BY DEF Streak
<1>0. (m >= n /\ (\A i \in DOMAIN t : ~t[i].success) /\ \A i \in DOMAIN t : t[i].step = t[1].step)
        => consecutiveFailures(h)
  BY DEF consecutiveFailures, AllFailed
<1> HIDE DEF n, t, m
<1>5. \A i \in 1..n : ~t[i].success
  BY <1>2, <1>3, <1>4
<1>6. \A i \in 1..n : t[i].step = t[1].step
  <2>1. 1 \in 1..n
    BY <1>1
  <2> QED BY <1>2, <1>3, <1>4, <2>1
<1>7. m >= n
  BY <1>1
<1> QED BY <1>0, <1>2, <1>5, <1>6, <1>7

\* The last entries of a long history, all the same failing step, are a streak.
LEMMA TailIsStreak ==
    ASSUME NEW h \in Seq(Record), Len(h) > MaxConsecutive,
           LET t == Tail_(h, MaxConsecutive + 1)
           IN  AllFailed(t) /\ \A i \in DOMAIN t : t[i].step = t[1].step /\ ~t[i].timedOut
    PROVE  Streak(h, MaxConsecutive + 1)
<1> DEFINE n == MaxConsecutive + 1
           t == Tail_(h, n)
           m == Len(h)
<1>1. n \in Nat /\ n >= 1 /\ m \in Nat /\ n <= m
  BY AutoAssumption DEF AutoAssumption
<1>2. DOMAIN t = 1..n /\ \A i \in 1..n : m - n + i \in 1..m /\ t[i] = h[m - n + i]
  BY <1>1, LastElements
<1>3. \A i \in 1..n : ~t[i].success /\ ~t[i].timedOut /\ t[i].step = t[1].step
  BY <1>2 DEF AllFailed
<1> HIDE DEF n, t, m
<1>4. \A i \in 1..m : i > m - n => i - (m - n) \in 1..n /\ m - n + (i - (m - n)) = i
  BY <1>1
<1>5. \A i \in 1..m : i > m - n => ~h[i].success /\ ~h[i].timedOut /\ h[i].step = t[1].step
  BY <1>2, <1>3, <1>4
<1>6. m >= n
  BY <1>1
<1> QED BY <1>5, <1>6 DEF Streak, n, m

\* A streak that one entry completes was at the threshold before it.
LEMMA StreakGrows ==
    ASSUME NEW h \in Seq(Record), NEW e \in Record,
           LET all == Append(h, e)
           IN  Streak(IF Len(all) > HistoryLimit THEN Tail_(all, HistoryLimit) ELSE all,
                      MaxConsecutive + 1)
    PROVE  consecutiveFailures(h) /\ ~e.success /\ ~e.timedOut
<1> DEFINE all == Append(h, e)
           a == Len(all)
           kept == IF a > HistoryLimit THEN Tail_(all, HistoryLimit) ELSE all
           b == Len(kept)
           m == Len(h)
           n == MaxConsecutive
<1>1. /\ all \in Seq(Record) /\ m \in Nat /\ a = m + 1 /\ a \in Nat
      /\ all[a] = e /\ \A i \in 1..m : all[i] = h[i]
  OBVIOUS
<1>2. n \in Nat /\ n >= 1 /\ HistoryLimit \in Nat
  BY AutoAssumption DEF AutoAssumption
<1>3. Streak(kept, n + 1)
  OBVIOUS
<1> HIDE DEF all, a, m, n
<1>4. b \in Nat /\ b <= a /\ \A i \in 1..b : (a - b) + i \in 1..a /\ kept[i] = all[(a - b) + i]
  <2>1. CASE a > HistoryLimit
    <3>1. HistoryLimit <= Len(all)
      BY <1>1, <1>2, <2>1 DEF a
    <3>2. /\ Len(Tail_(all, HistoryLimit)) = HistoryLimit
          /\ \A i \in 1..HistoryLimit :
                /\ Len(all) - HistoryLimit + i \in 1..Len(all)
                /\ Tail_(all, HistoryLimit)[i] = all[Len(all) - HistoryLimit + i]
      BY <1>1, <1>2, <3>1, LastElements
    <3>3. kept = Tail_(all, HistoryLimit) /\ b = HistoryLimit
      BY <2>1, <3>2
    <3> HIDE DEF kept, b
    <3> QED BY <1>1, <1>2, <2>1, <3>2, <3>3 DEF a
  <2>2. CASE ~(a > HistoryLimit)
    <3>1. kept = all
      BY <2>2
    <3>2. b = a
      BY <3>1 DEF a
    <3> HIDE DEF kept, b
    <3> QED BY <1>1, <3>1, <3>2
  <2> QED BY <2>1, <2>2
<1> HIDE DEF kept
<1>5. /\ b >= n + 1
      /\ \A i, k \in 1..b : (i > b - (n + 1) /\ k > b - (n + 1)) =>
            ~kept[i].success /\ ~kept[i].timedOut /\ kept[i].step = kept[k].step
  BY <1>3 DEF Streak
<1> HIDE DEF b
<1>6. kept[b] = e /\ b \in 1..b /\ b > b - (n + 1)
  <2>1. b \in 1..b /\ (a - b) + b = a /\ b > b - (n + 1)
    BY <1>1, <1>2, <1>4, <1>5
  <2> QED BY <1>1, <1>4, <2>1
<1>7. ~e.success /\ ~e.timedOut
  BY <1>5, <1>6
<1>8. m >= n
  BY <1>1, <1>2, <1>4, <1>5
<1> DEFINE t == Tail_(h, n)
<1>9. DOMAIN t = 1..n /\ \A i \in 1..n : m - n + i \in 1..m /\ t[i] = h[m - n + i]
  BY <1>2, <1>8, LastElements DEF m
<1>0. (m >= n /\ (\A i \in DOMAIN t : ~t[i].success) /\ \A i \in DOMAIN t : t[i].step = t[1].step)
        => consecutiveFailures(h)
  BY DEF m, n, consecutiveFailures, AllFailed
<1> HIDE DEF t
<1>10. \A i \in 1..n : /\ (b - 1) - n + i \in 1..b /\ (b - 1) - n + i > b - (n + 1)
                       /\ (a - b) + ((b - 1) - n + i) = m - n + i
  BY <1>1, <1>2, <1>4, <1>5
<1>11. \A i \in 1..n : t[i] = kept[(b - 1) - n + i]
  <2> SUFFICES ASSUME NEW i \in 1..n PROVE t[i] = kept[(b - 1) - n + i]
    OBVIOUS
  <2>1. kept[(b - 1) - n + i] = all[(a - b) + ((b - 1) - n + i)]
    BY <1>4, <1>10
  <2>2. all[(a - b) + ((b - 1) - n + i)] = all[m - n + i]
    BY <1>10
  <2>3. all[m - n + i] = h[m - n + i] /\ t[i] = h[m - n + i]
    BY <1>1, <1>9
  <2> QED BY <2>1, <2>2, <2>3
<1>12. \A i \in 1..n : ~t[i].success
  BY <1>5, <1>10, <1>11
<1>13. \A i \in 1..n : t[i].step = t[1].step
  <2>1. 1 \in 1..n
    BY <1>2
  <2> QED BY <1>5, <1>10, <1>11, <2>1
<1>14. consecutiveFailures(h)
  BY <1>0, <1>8, <1>9, <1>12, <1>13
<1> QED BY <1>7, <1>14

-----------------------------------------------------------------------------
(* One session at a time *)

\* The session that moves is the only one that counts.
LEMMA Mover ==
    ASSUME Inv, Alone, NEW s \in Sessions, \A t \in Sessions : t # s => ~Running(t),
           job[s].pc # "crashed", NEW j, job' = [job EXCEPT ![s] = j], j.pc # "idle",
           Owns(s, j, lock'),
           \/ lock' = NoLock
           \/ lock' = lock /\ j.pc \in Live \cup {"crashed"}
           \/ lock' \in LockState /\ lock'.pid = s /\ j.pc \in Live \cup {"crashed"}
           \/ lock' = Torn /\ j.pc = "crashed"
    PROVE  Alone'
<1>1. /\ job'[s] = j /\ \A t \in Sessions : t # s => job'[t] = job[t]
      /\ \A t \in Sessions : t # s => job[t].pc \notin Live
  BY DEF Inv, TypeOK, Running
<1>2. Single'
  BY <1>1 DEF Single, Running
<1>3. Left'
  <2>1. CASE lock' = NoLock
    BY <2>1, LockAssumption DEF LockAssumption, Left
  <2>2. CASE lock' = lock /\ j.pc \in Live \cup {"crashed"}
    <3>1. lock \in LockState => lock.pid \in Sessions
      BY DEF LockState
    <3> QED BY <1>1, <2>2, <3>1 DEF Alone, Left
  <2>3. CASE lock' \in LockState /\ lock'.pid = s /\ j.pc \in Live \cup {"crashed"}
    BY <1>1, <2>3, LockAssumption DEF LockAssumption, Left
  <2>4. CASE lock' = Torn /\ j.pc = "crashed"
    BY <1>1, <2>4, LockAssumption DEF LockAssumption, Left
  <2> QED BY <2>1, <2>2, <2>3, <2>4
<1>4. ASSUME NEW t \in Sessions PROVE Owns(t, job'[t], lock')
  <2>1. CASE t = s
    BY <1>1, <2>1
  <2>2. CASE t # s
    <3>1. job'[t].pc \notin Live
      BY <1>1, <2>2
    <3> QED BY <3>1 DEF Owns, locked
  <2> QED BY <2>1, <2>2
<1> QED BY <1>2, <1>3, <1>4 DEF Alone

\* A session that runs runs alone, and owns what it has locked.
LEMMA RunsAlone ==
    ASSUME Inv, Alone, NEW s \in Sessions, Running(s)
    PROVE  /\ \A t \in Sessions : t # s => ~Running(t)
           /\ job[s] \in Job
           /\ job[s].pc \in locked => lock \in LockState /\ lock.pid = s /\ _readLock = lock
           /\ job[s].pc \in locked /\ job[s].pc \in entered =>
                 lock.phase = job[s].phase /\ lock.step = StepOf(job[s])
           /\ job[s].pc \in locked => NoStreak(job[s], lock.history)
<1>1. \A t \in Sessions : t # s => ~Running(t)
  BY DEF Alone, Single
<1>2. Owns(s, job[s], lock)
  BY DEF Alone
<1>3. lock \in LockState => _readLock = lock
  BY LockAssumption DEF LockAssumption, _readLock
<1> QED BY <1>1, <1>2, <1>3 DEF Owns, Inv, TypeOK

\* A session inside a phase that leaves the lock as it is.
LEMMA QuietStep ==
    ASSUME Inv, Alone, NEW s \in Sessions, job[s].pc \in locked,
           NEW j, job' = [job EXCEPT ![s] = j], j.pc \in locked, lock' = lock,
           j.pc \in entered =>
               job[s].pc \in entered /\ j.phase = job[s].phase /\ j.step = job[s].step,
           NoStreak(j, lock.history)
    PROVE  Alone'
<1>1. Running(s)
  BY DEF Running, locked
<1>2. /\ \A t \in Sessions : t # s => ~Running(t)
      /\ lock \in LockState /\ lock.pid = s
      /\ job[s].pc \in entered => lock.phase = job[s].phase /\ lock.step = StepOf(job[s])
  BY <1>1, RunsAlone
<1>3. Owns(s, j, lock')
  BY <1>2 DEF Owns, StepOf
<1>4. j.pc # "idle" /\ j.pc \in Live \cup {"crashed"} /\ job[s].pc # "crashed"
  BY DEF locked, Live
<1> QED BY <1>2, <1>3, <1>4, Mover

\* What a session finds when it starts or acquires the lock is not its own.
LEMMA StartAlone ==
    ASSUME ~Overlap, Inv, Alone, NEW s \in Sessions, Start(s)
    PROVE  Alone'
<1>1. /\ job[s].pc = "idle" /\ \A t \in Sessions : ~Running(t)
      /\ lock' = NoLock \/ lock' = lock
  BY DEF Start, world
<1>2. \E a, b : job' = [job EXCEPT ![s].pc = "acquire", ![s].start = a, ![s].resumed = b]
  <2>1. PICK from \in FromArgs, state \in StatePhases, noResume \in BOOLEAN :
          LET statePhase == IF state = None THEN 100 ELSE state
              start      == IF from = None THEN statePhase ELSE from
              found      == _readLock
              crashed    == /\ ~noResume
                            /\ found # NoLock
                            /\ ~isPidAlive(found.pid)
                            /\ start = statePhase
          IN  /\ job' = [job EXCEPT
                    ![s].pc = "acquire",
                    ![s].start = IF crashed THEN found.phase ELSE start,
                    ![s].resumed = IF crashed THEN found.pid ELSE None]
              /\ lock' = IF noResume THEN NoLock ELSE lock
    BY Zenon DEF Start
  <2> QED BY <2>1, Zenon
<1>3. PICK a, b : job' = [job EXCEPT ![s].pc = "acquire", ![s].start = a, ![s].resumed = b]
  BY <1>2
<1> DEFINE j == [job[s] EXCEPT !.pc = "acquire", !.start = a, !.resumed = b]
<1>4. job[s] \in Job /\ job' = [job EXCEPT ![s] = j]
  BY <1>3 DEF Inv, TypeOK
<1>5. j.pc = "acquire"
  BY <1>4 DEF Job
<1> HIDE DEF j
<1>6. Owns(s, j, lock')
  BY <1>1, <1>5 DEF Owns, locked
<1>7. j.pc \in Live \cup {"crashed"}
  BY <1>5 DEF Live, PCs
<1> QED BY <1>1, <1>4, <1>5, <1>6, <1>7, Mover

\* The lock it writes has no history.
LEMMA AcquireAlone ==
    ASSUME Inv, Alone, NEW s \in Sessions, Acquire(s)
    PROVE  Alone'
<1> DEFINE j == [job[s] EXCEPT !.pc = "roadmap"]
<1>1. /\ job[s].pc = "acquire" /\ job' = [job EXCEPT ![s] = j]
      /\ lock' = [pid |-> s, phase |-> job[s].start, step |-> "init", history |-> <<>>]
  BY DEF Acquire, Go, world
<1>2. Running(s)
  BY <1>1 DEF Running, Live, PCs
<1>3. job[s] \in Job /\ \A t \in Sessions : t # s => ~Running(t)
  BY <1>2, RunsAlone
<1>4. j.pc = "roadmap"
  BY <1>3 DEF Job
<1> HIDE DEF j
<1>5. lock' \in LockState /\ lock'.pid = s /\ lock'.history = <<>>
  <2>1. <<>> \in History /\ job[s].start \in Nat
    BY <1>3, EmptyHistory DEF Job
  <2> QED BY <1>1, <2>1 DEF LockState
<1>6. ~Streak(<<>>, MaxConsecutive + 1)
  <2>1. MaxConsecutive \in Nat \ {0} /\ Len(<<>>) = 0
    BY AutoAssumption DEF AutoAssumption
  <2> QED BY <2>1 DEF Streak
<1>7. Owns(s, j, lock')
  BY <1>4, <1>5, <1>6 DEF Owns, NoStreak, entered
<1>8. j.pc \in Live
  BY <1>4 DEF Live, PCs
<1> QED BY <1>1, <1>3, <1>4, <1>5, <1>7, <1>8, Mover

\* Reading the roadmap leaves the lock alone.
LEMMA ReadRoadmapAlone ==
    ASSUME Inv, Alone, NEW s \in Sessions, ReadRoadmap(s)
    PROVE  Alone'
<1> DEFINE todo == remainingFrom(roadmap, job[s].start)
           k == NextPhase(job[s], todo)
           j == [k EXCEPT !.seen = todo]
<1>1. /\ job[s].pc = "roadmap" /\ job' = [job EXCEPT ![s] = j]
      /\ lock' = lock
  BY DEF ReadRoadmap, world
<1>2. job[s].pc \in locked /\ job[s].pc \notin {"judge", "phase", "release"}
  BY <1>1 DEF locked, Live, PCs
<1>3. job[s] \in Job /\ NoStreak(job[s], lock.history)
  BY <1>2, RunsAlone DEF Running, locked
<1>4. todo \in SUBSET Nat
  <2>1. roadmap \in Seq(Phase) /\ job[s].start \in Nat
    BY <1>3 DEF Inv, TypeOK, Job
  <2> QED BY <2>1, RemainingType
<1>5. k \in Job /\ (k.pc = "release" \/ k.pc = "step")
  BY <1>3, <1>4, NextPhaseTakes DEF Takes
<1> HIDE DEF k
<1>6. j.pc \in {"release", "step"}
  BY <1>5 DEF Job
<1> HIDE DEF j, todo
<1>7. j.pc \in locked /\ j.pc \notin entered
  BY <1>6 DEF locked, Live, PCs, entered
<1>8. NoStreak(j, lock.history)
  BY <1>2, <1>3, <1>6 DEF NoStreak
<1> QED BY <1>1, <1>2, <1>7, <1>8, QuietStep

\* A step that was passed, or is passed over, has no streak behind it.
LEMMA PassAlone ==
    ASSUME Inv, Alone, NEW s \in Sessions, job[s].pc \in locked,
           job[s].pc \notin {"phase", "release"}, ~(job[s].pc = "judge" /\ job[s].out = "fail"),
           job' = [job EXCEPT ![s] = PassStep(job[s])], lock' = lock
    PROVE  Alone'
<1> DEFINE j == PassStep(job[s])
<1>1. job[s] \in Job /\ NoStreak(job[s], lock.history)
  BY RunsAlone DEF Running, locked
<1>2. j.pc = "step"
  BY <1>1 DEF PassStep, Job
<1> HIDE DEF j
<1>3. NoStreak(j, lock.history)
  BY <1>1, <1>2 DEF NoStreak
<1>4. j.pc \in locked /\ j.pc \notin entered
  BY <1>2 DEF locked, Live, PCs, entered
<1> QED BY <1>3, <1>4, QuietStep DEF j

\* Passing over a step is no failure.
LEMMA SkipStepAlone ==
    ASSUME Inv, Alone, NEW s \in Sessions, SkipStep(s)
    PROVE  Alone'
<1>1. /\ job[s].pc = "step" /\ job' = [job EXCEPT ![s] = PassStep(job[s])]
      /\ lock' = lock
  BY DEF SkipStep, world
<1>2. job[s].pc \in locked
  BY <1>1 DEF locked, Live, PCs
<1> QED BY <1>1, <1>2, PassAlone

\* The lock takes the step that is entered, and keeps its history.
LEMMA EnterStepAlone ==
    ASSUME Inv, Alone, NEW s \in Sessions, EnterStep(s)
    PROVE  Alone'
<1> DEFINE j == [job[s] EXCEPT !.pc = "ready"]
<1>1. /\ job[s].pc = "step" /\ job[s].step <= Len(PIPELINE_STEPS)
      /\ job' = [job EXCEPT ![s] = j]
      /\ lock' = updateStep(s)
  BY DEF EnterStep, Go, world
<1>2. job[s].pc \in locked /\ job[s].pc \in inPhase /\ Running(s)
  BY <1>1 DEF locked, Live, PCs, inPhase, Running
<1>3. /\ job[s] \in Job /\ NoStreak(job[s], lock.history)
      /\ lock \in LockState /\ lock.pid = s /\ _readLock = lock
      /\ \A t \in Sessions : t # s => ~Running(t)
  BY <1>2, RunsAlone
<1>4. lock' = [lock EXCEPT !.phase = job[s].phase, !.step = StepOf(job[s])]
  BY <1>1, <1>3, LockAssumption DEF updateStep, LockAssumption
<1>5. lock' \in LockState
  BY <1>1, <1>2, InsidePhase, UpdateStepType
<1>6. /\ lock'.pid = s /\ lock'.phase = job[s].phase /\ lock'.step = StepOf(job[s])
      /\ lock'.history = lock.history
  BY <1>3, <1>4 DEF LockState
<1>7. j.pc = "ready" /\ j.phase = job[s].phase /\ j.step = job[s].step
  BY <1>3 DEF Job
<1> HIDE DEF j
<1>8. NoStreak(j, lock'.history)
  BY <1>1, <1>3, <1>6, <1>7 DEF NoStreak
<1>9. Owns(s, j, lock')
  BY <1>5, <1>6, <1>7, <1>8 DEF Owns, StepOf
<1>10. j.pc \in Live
  BY <1>7 DEF Live, PCs
<1> QED BY <1>1, <1>3, <1>5, <1>6, <1>7, <1>9, <1>10, Mover

\* A session that ends a phase, or is about to release the lock.
LEMMA LeaveAlone ==
    ASSUME Inv, Alone, NEW s \in Sessions, job[s].pc \in locked,
           NEW j \in Job, job' = [job EXCEPT ![s] = j], lock' = lock,
           \/ j.pc = "release"
           \/ j.pc = "phase" /\ (j.aborted \/ ~Streak(lock.history, MaxConsecutive + 1))
    PROVE  Alone'
<1>1. NoStreak(j, lock.history)
  BY DEF NoStreak
<1>2. j.pc \in locked /\ j.pc \notin entered
  BY DEF locked, Live, PCs, entered
<1> QED BY <1>1, <1>2, QuietStep

\* An abort leaves a streak behind, if there is one.
LEMMA AbortBeforeStepAlone ==
    ASSUME Inv, Alone, NEW s \in Sessions, AbortBeforeStep(s)
    PROVE  Alone'
<1> DEFINE j == [job[s] EXCEPT !.pc = "phase", !.aborted = TRUE]
<1>1. /\ job[s].pc = "ready" /\ job' = [job EXCEPT ![s] = j]
      /\ lock' = lock
  BY DEF AbortBeforeStep, world
<1>2. job[s].pc \in locked /\ job[s] \in Job
  BY <1>1 DEF locked, Live, PCs, Inv, TypeOK
<1>3. j \in Job /\ j.pc = "phase" /\ j.aborted = TRUE
  BY <1>2 DEF Job, PCs
<1> HIDE DEF j
<1> QED BY <1>1, <1>2, <1>3, LeaveAlone

\* A step is dispatched from the phase it was entered in.
LEMMA DispatchAlone ==
    ASSUME Inv, Alone, NEW s \in Sessions, Dispatch(s)
    PROVE  Alone'
<1> DEFINE j == [job[s] EXCEPT !.pc = "running"]
<1>1. /\ job[s].pc = "ready" /\ job' = [job EXCEPT ![s] = j]
      /\ lock' = lock
  BY DEF Dispatch, Go, world
<1>2. job[s].pc \in locked /\ job[s].pc \in entered /\ Running(s)
  BY <1>1 DEF locked, Live, PCs, entered, Running
<1>3. job[s] \in Job /\ NoStreak(job[s], lock.history)
  BY <1>2, RunsAlone
<1>4. j.pc = "running" /\ j.phase = job[s].phase /\ j.step = job[s].step
  BY <1>3 DEF Job
<1> HIDE DEF j
<1>5. NoStreak(j, lock.history)
  BY <1>1, <1>3, <1>4 DEF NoStreak
<1>6. j.pc \in locked
  BY <1>4 DEF locked, Live, PCs
<1> QED BY <1>1, <1>2, <1>4, <1>5, <1>6, QuietStep

\* A step that ends is recorded next, as the outcome says.
LEMMA StepEndsAlone ==
    ASSUME Inv, Alone, NEW s \in Sessions, StepEnds(s)
    PROVE  Alone'
<1>1. PICK success \in BOOLEAN :
        /\ SkillEnds(job[s].phase, StepOf(job[s]), success)
        /\ job' = [job EXCEPT ![s].pc = AfterWait(s),
                              ![s].out = IF success THEN "ok" ELSE "fail"]
  BY DEF StepEnds
<1> DEFINE j == [job[s] EXCEPT !.pc = AfterWait(s), !.out = IF success THEN "ok" ELSE "fail"]
<1>2. Waiting(s) /\ lock' = lock
  BY DEF StepEnds
<1>3. job[s].pc \in locked /\ job[s].pc \in entered /\ Running(s)
  BY <1>2 DEF Waiting, locked, Live, PCs, entered, Running
<1>4. job[s] \in Job /\ NoStreak(job[s], lock.history)
  BY <1>3, RunsAlone
<1>5. /\ job' = [job EXCEPT ![s] = j]
      /\ j.pc = AfterWait(s) /\ j.phase = job[s].phase /\ j.step = job[s].step
  BY <1>1, <1>4 DEF Job
<1> HIDE DEF j
<1>6. \/ job[s].pc = "running" /\ j.pc = "record"
      \/ job[s].pc = "rerunning" /\ j.pc = "rerecord"
  BY <1>2, <1>5 DEF Waiting, AfterWait
<1>7. NoStreak(j, lock.history)
  BY <1>4, <1>6 DEF NoStreak
<1>8. j.pc \in locked
  BY <1>6 DEF locked, Live, PCs
<1> QED BY <1>2, <1>3, <1>5, <1>7, <1>8, QuietStep

\* So is a step that times out.
LEMMA StepTimesOutAlone ==
    ASSUME Inv, Alone, NEW s \in Sessions, StepTimesOut(s)
    PROVE  Alone'
<1> DEFINE j == [job[s] EXCEPT !.pc = AfterWait(s), !.out = "timeout"]
<1>1. /\ Waiting(s) /\ job' = [job EXCEPT ![s] = j]
      /\ lock' = lock
  BY DEF StepTimesOut
<1>2. job[s].pc \in locked /\ job[s].pc \in entered /\ Running(s)
  BY <1>1 DEF Waiting, locked, Live, PCs, entered, Running
<1>3. job[s] \in Job /\ NoStreak(job[s], lock.history)
  BY <1>2, RunsAlone
<1>4. j.pc = AfterWait(s) /\ j.phase = job[s].phase /\ j.step = job[s].step
  BY <1>3 DEF Job
<1> HIDE DEF j
<1>5. \/ job[s].pc = "running" /\ j.pc = "record"
      \/ job[s].pc = "rerunning" /\ j.pc = "rerecord"
  BY <1>1, <1>4 DEF Waiting, AfterWait
<1>6. NoStreak(j, lock.history)
  BY <1>3, <1>5 DEF NoStreak
<1>7. j.pc \in locked
  BY <1>5 DEF locked, Live, PCs
<1> QED BY <1>1, <1>2, <1>4, <1>6, <1>7, QuietStep

\* A step that rejects ends the run.
LEMMA StepThrowsAlone ==
    ASSUME Inv, Alone, NEW s \in Sessions, StepThrows(s)
    PROVE  Alone'
<1> DEFINE j == [job[s] EXCEPT !.pc = "release", !.out = "throw"]
<1>1. /\ Waiting(s) /\ job' = [job EXCEPT ![s] = j]
      /\ lock' = lock
  BY DEF StepThrows, world
<1>2. job[s].pc \in locked /\ job[s] \in Job
  BY <1>1 DEF Waiting, locked, Live, PCs, Inv, TypeOK
<1>3. j \in Job /\ j.pc = "release"
  BY <1>2 DEF Job, PCs
<1> HIDE DEF j
<1> QED BY <1>1, <1>2, <1>3, LeaveAlone

\* What a session that has the lock to itself records in it.
LEMMA RecordsOnTop ==
    ASSUME Inv, Alone, NEW s \in Sessions, job[s].pc \in {"record", "rerecord"}
    PROVE  /\ recordInvocation(s) \in LockState
           /\ recordInvocation(s).pid = s
           /\ recordInvocation(s).phase = job[s].phase
           /\ recordInvocation(s).step = StepOf(job[s])
           /\ Streak(recordInvocation(s).history, MaxConsecutive + 1) =>
                 consecutiveFailures(lock.history) /\ job[s].out = "fail"
<1> DEFINE entry == [step |-> StepOf(job[s]), success |-> job[s].out = "ok",
                     timedOut |-> job[s].out = "timeout"]
           all == Append(lock.history, entry)
           kept == IF Len(all) > HistoryLimit THEN Tail_(all, HistoryLimit) ELSE all
<1>1. job[s].pc \in locked /\ job[s].pc \in inPhase /\ Running(s) /\ job[s].pc \in entered
  BY DEF locked, Live, PCs, inPhase, Running, entered
<1>2. /\ lock \in LockState /\ lock.pid = s /\ _readLock = lock
      /\ lock.phase = job[s].phase /\ lock.step = StepOf(job[s])
  BY <1>1, RunsAlone
<1>3. job[s].step \in 1..5 /\ JobInv(job[s])
  BY <1>1, InsidePhase
<1>4. recordInvocation(s) \in LockState
  BY <1>3, RecordInvocationType
<1>5. recordInvocation(s) = [lock EXCEPT !.history = kept]
  BY <1>2, LockAssumption DEF recordInvocation, recent, LockAssumption
<1>6. entry \in Record
  <2>1. StepOf(job[s]) \in StepNames
    BY <1>3, FiveSteps DEF StepOf
  <2> QED BY <2>1 DEF Record
<1>7. lock.history \in Seq(Record)
  BY <1>2 DEF LockState, History
<1>8. recordInvocation(s).history = kept /\ recordInvocation(s).pid = lock.pid
      /\ recordInvocation(s).phase = lock.phase /\ recordInvocation(s).step = lock.step
  <2> HIDE DEF kept
  <2> QED BY <1>2, <1>5 DEF LockState
<1>9. ASSUME Streak(kept, MaxConsecutive + 1)
      PROVE  consecutiveFailures(lock.history) /\ job[s].out = "fail"
  <2>1. consecutiveFailures(lock.history) /\ ~entry.success /\ ~entry.timedOut
    <3> HIDE DEF entry
    <3> QED BY <1>6, <1>7, <1>9, StreakGrows
  <2>2. job[s].out \in {"ok", "fail", "timeout"}
    BY <1>3 DEF JobInv, Answered, awaited
  <2> QED BY <2>1, <2>2
<1> HIDE DEF kept, entry
<1> QED BY <1>2, <1>4, <1>8, <1>9

\* The record of a step is judged next.
LEMMA RecordStepAlone ==
    ASSUME Inv, Alone, NEW s \in Sessions, RecordStep(s)
    PROVE  Alone'
<1> DEFINE j == [job[s] EXCEPT !.pc = "judge"]
<1>1. /\ job[s].pc = "record" /\ job' = [job EXCEPT ![s] = j]
      /\ lock' = recordInvocation(s)
  BY DEF RecordStep, Go, world
<1>2. Running(s)
  BY <1>1 DEF Live, PCs, Running
<1>3. job[s] \in Job /\ \A t \in Sessions : t # s => ~Running(t)
  BY <1>2, RunsAlone
<1>4. /\ lock' \in LockState /\ lock'.pid = s
      /\ lock'.phase = job[s].phase /\ lock'.step = StepOf(job[s])
      /\ Streak(lock'.history, MaxConsecutive + 1) => job[s].out = "fail"
  BY <1>1, RecordsOnTop
<1>5. j.pc = "judge" /\ j.phase = job[s].phase /\ j.step = job[s].step /\ j.out = job[s].out
  BY <1>3 DEF Job
<1> HIDE DEF j
<1>6. NoStreak(j, lock'.history)
  BY <1>4, <1>5 DEF NoStreak
<1>7. Owns(s, j, lock')
  BY <1>4, <1>5, <1>6 DEF Owns, StepOf
<1>8. j.pc \in Live
  BY <1>5 DEF Live, PCs
<1> QED BY <1>1, <1>3, <1>4, <1>5, <1>7, <1>8, Mover

\* A retry is asked for only below the threshold, and what it adds is not judged.
LEMMA RecordRetryAlone ==
    ASSUME Inv, Alone, NEW s \in Sessions, RecordRetry(s)
    PROVE  Alone'
<1> DEFINE j == IF job[s].out = "ok" THEN PassStep(job[s]) ELSE FailPhase(job[s])
<1>1. /\ job[s].pc = "rerecord" /\ job' = [job EXCEPT ![s] = j]
      /\ lock' = recordInvocation(s)
  BY DEF RecordRetry, world
<1>2. Running(s) /\ job[s].pc \in locked
  BY <1>1 DEF Live, PCs, Running, locked
<1>3. /\ job[s] \in Job /\ \A t \in Sessions : t # s => ~Running(t)
      /\ NoStreak(job[s], lock.history)
  BY <1>2, RunsAlone
<1>4. /\ lock' \in LockState /\ lock'.pid = s
      /\ ~Streak(lock'.history, MaxConsecutive + 1)
  BY <1>1, <1>3, RecordsOnTop DEF NoStreak
<1>5. j.pc \in {"step", "phase"}
  BY <1>3 DEF Job, PassStep, FailPhase
<1> HIDE DEF j
<1>6. NoStreak(j, lock'.history)
  BY <1>4, <1>5 DEF NoStreak
<1>7. Owns(s, j, lock')
  BY <1>4, <1>5, <1>6 DEF Owns, entered
<1>8. j.pc \in Live
  BY <1>5 DEF Live, PCs
<1> QED BY <1>1, <1>3, <1>4, <1>5, <1>7, <1>8, Mover

\* A streak is what the detector aborts for; anything else has none behind it.
LEMMA JudgeAlone ==
    ASSUME Inv, Alone, NEW s \in Sessions, Judge(s)
    PROVE  Alone'
<1>1. /\ job[s].pc = "judge" /\ lock' = lock
  BY DEF Judge, world
<1>2. job[s].pc \in locked /\ Running(s) /\ job[s].pc \in entered
  BY <1>1 DEF Live, PCs, Running, locked, entered
<1>3. /\ job[s] \in Job /\ _readLock = lock /\ lock \in LockState
      /\ NoStreak(job[s], lock.history)
  BY <1>2, RunsAlone
<1>4. _readLock # NoLock
  BY <1>3, LockAssumption DEF LockAssumption
<1>5. job' = [job EXCEPT ![s] =
                CASE @.out = "timeout" -> FailPhase(@)
                  [] @.out # "timeout" /\ analyze(lock.history) ->
                        [@ EXCEPT !.pc = "phase", !.aborted = TRUE]
                  [] @.out = "fail" /\ ~analyze(lock.history) -> [@ EXCEPT !.pc = "ask"]
                  [] @.out = "ok" /\ ~analyze(lock.history) -> PassStep(@)]
  BY <1>3, <1>4 DEF Judge
<1>6. job[s].out \in {"ok", "fail", "timeout"}
  <2>1. JobInv(job[s])
    BY DEF Inv
  <2> QED BY <1>1, <2>1 DEF JobInv, Answered, awaited
<1>7. Streak(lock.history, MaxConsecutive + 1) => job[s].out = "fail" /\ analyze(lock.history)
  <2>1. lock.history \in Seq(Record)
    BY <1>3 DEF LockState, History
  <2>2. Streak(lock.history, MaxConsecutive + 1) => consecutiveFailures(lock.history)
    BY <2>1, StreakTrips
  <2> QED BY <1>1, <1>3, <2>2 DEF NoStreak, analyze
<1>8. CASE job[s].out = "timeout"
  <2> DEFINE j == FailPhase(job[s])
  <2>1. job' = [job EXCEPT ![s] = j]
    BY <1>5, <1>8
  <2>2. j \in Job /\ j.pc = "phase"
    BY <1>3 DEF FailPhase, Job, PCs
  <2> HIDE DEF j
  <2> QED BY <1>1, <1>2, <1>7, <1>8, <2>1, <2>2, LeaveAlone
<1>9. CASE job[s].out # "timeout" /\ analyze(lock.history)
  <2> DEFINE j == [job[s] EXCEPT !.pc = "phase", !.aborted = TRUE]
  <2>1. job' = [job EXCEPT ![s] = j]
    BY <1>5, <1>6, <1>9
  <2>2. j \in Job /\ j.pc = "phase" /\ j.aborted
    BY <1>3 DEF Job, PCs
  <2> HIDE DEF j
  <2> QED BY <1>1, <1>2, <2>1, <2>2, LeaveAlone
<1>10. CASE job[s].out = "ok" /\ ~analyze(lock.history)
  <2>1. job' = [job EXCEPT ![s] = PassStep(job[s])]
    BY <1>5, <1>10
  <2> QED BY <1>1, <1>2, <1>10, <2>1, PassAlone
<1>11. CASE job[s].out = "fail" /\ ~analyze(lock.history)
  <2> DEFINE j == [job[s] EXCEPT !.pc = "ask"]
  <2>1. job' = [job EXCEPT ![s] = j]
    BY <1>5, <1>11
  <2>2. j.pc = "ask" /\ j.phase = job[s].phase /\ j.step = job[s].step
    BY <1>3 DEF Job
  <2> HIDE DEF j
  <2>3. NoStreak(j, lock.history)
    BY <1>7, <1>11, <2>2 DEF NoStreak, analyze
  <2>4. j.pc \in locked
    BY <2>2 DEF Live, PCs, locked
  <2> QED BY <1>1, <1>2, <2>1, <2>2, <2>3, <2>4, QuietStep
<1> QED BY <1>6, <1>8, <1>9, <1>10, <1>11

\* A retry goes on from a step that was not stuck.
LEMMA RetryAlone ==
    ASSUME Inv, Alone, NEW s \in Sessions, Retry(s)
    PROVE  Alone'
<1> DEFINE j == [job[s] EXCEPT !.pc = "rerunning"]
<1>1. /\ job[s].pc = "ask" /\ job' = [job EXCEPT ![s] = j]
      /\ lock' = lock
  BY DEF Retry, Go, world
<1>2. job[s].pc \in locked /\ job[s].pc \in entered /\ Running(s)
  BY <1>1 DEF locked, Live, PCs, entered, Running
<1>3. job[s] \in Job /\ NoStreak(job[s], lock.history)
  BY <1>2, RunsAlone
<1>4. j.pc = "rerunning" /\ j.phase = job[s].phase /\ j.step = job[s].step
  BY <1>3 DEF Job
<1> HIDE DEF j
<1>5. NoStreak(j, lock.history)
  BY <1>1, <1>3, <1>4 DEF NoStreak
<1>6. j.pc \in locked
  BY <1>4 DEF locked, Live, PCs
<1> QED BY <1>1, <1>2, <1>4, <1>5, <1>6, QuietStep

\* The user's other two answers.
LEMMA SkipPhaseAlone ==
    ASSUME Inv, Alone, NEW s \in Sessions, SkipPhase(s) \/ Abort(s)
    PROVE  Alone'
<1>1. /\ job[s].pc = "ask" /\ lock' = lock
  BY DEF SkipPhase, Abort, world
<1>2. job[s].pc \in locked /\ Running(s) /\ job[s].pc \notin {"judge", "phase", "release"}
  BY <1>1 DEF locked, Live, PCs, Running
<1>3. job[s] \in Job /\ ~Streak(lock.history, MaxConsecutive + 1)
  BY <1>2, RunsAlone DEF NoStreak
<1>4. \E j \in Job : j.pc = "phase" /\ job' = [job EXCEPT ![s] = j]
  <2>1. CASE SkipPhase(s)
    <3>1. FailPhase(job[s]) \in Job /\ FailPhase(job[s]).pc = "phase"
      BY <1>3 DEF FailPhase, Job, PCs
    <3> QED BY <2>1, <3>1 DEF SkipPhase
  <2>2. CASE Abort(s)
    <3> DEFINE j == [job[s] EXCEPT !.pc = "phase", !.aborted = TRUE]
    <3>1. j \in Job /\ j.pc = "phase"
      BY <1>3 DEF Job, PCs
    <3>2. job' = [job EXCEPT ![s] = j]
      BY <2>2 DEF Abort
    <3> QED BY <3>1, <3>2
  <2> QED BY <2>1, <2>2
<1> QED BY <1>1, <1>2, <1>3, <1>4, LeaveAlone

-----------------------------------------------------------------------------
(* The end of a phase *)

\* k goes on from j with todo left, or ends the run with nothing left.
GoesOn(j, k, todo) ==
    /\ Takes(j, k, todo)
    /\ k.start = j.start /\ k.resumed = j.resumed
    /\ k.aborted = j.aborted /\ k.out = j.out
    /\ k.pc = "release" => k.todo = {} /\ k.phase = j.phase

\* How a phase ends: aborted, given up, or completed and replanned.
Ends(j, k) ==
    \/ j.aborted /\ k = [j EXCEPT !.pc = "release"]
    \/ /\ ~j.aborted /\ j.phaseFailed
       /\ GoesOn(j, k, j.todo) /\ k.finished = j.finished
       /\ k.completed = j.completed /\ k.failed = j.failed + 1 /\ k.seen = j.seen
    \/ /\ ~j.aborted /\ ~j.phaseFailed /\ j.pc = "step"
       /\ GoesOn(j, k, replan(j)) /\ k.finished = j.finished \cup {j.phase}
       /\ k.completed = j.completed + 1 /\ k.failed = j.failed
       /\ k.seen = remainingFrom(roadmap, j.start)

\* The locals of a session that takes its next phase.
LEMMA NextPhaseGoesOn ==
    ASSUME NEW j \in Job, NEW todo \in SUBSET Nat
    PROVE  GoesOn(j, NextPhase(j, todo), todo)
<1> DEFINE k == NextPhase(j, todo)
<1>1. Takes(j, k, todo)
  BY NextPhaseTakes
<1>2. CASE todo = {}
  <2>1. k = [j EXCEPT !.pc = "release", !.todo = {}]
    BY <1>2 DEF NextPhase
  <2>2. k.start = j.start /\ k.resumed = j.resumed /\ k.aborted = j.aborted /\ k.out = j.out
    BY <2>1 DEF Job
  <2>3. k.todo = {} /\ k.phase = j.phase
    BY <2>1 DEF Job
  <2> QED BY <1>1, <2>2, <2>3 DEF GoesOn
<1>3. CASE todo # {}
  <2> DEFINE n == Min(todo)
  <2>1. k = [j EXCEPT !.pc = "step", !.todo = todo \ {n}, !.phase = n, !.step = 1,
                      !.phaseFailed = FALSE, !.passed = {}, !.tried = @ \cup {n}]
    BY <1>3 DEF NextPhase
  <2> HIDE DEF n
  <2>2. /\ k.start = j.start /\ k.resumed = j.resumed /\ k.aborted = j.aborted
        /\ k.out = j.out /\ k.pc = "step"
    BY <2>1 DEF Job
  <2> HIDE DEF k
  <2> QED BY <1>1, <2>2 DEF GoesOn, k
<1> QED BY <1>2, <1>3

\* What the end of a phase does to the locals of its session.
LEMMA EndPhaseEnds ==
    ASSUME Inv, NEW s \in Sessions, EndPhase(s)
    PROVE  \E k \in Job : job' = [job EXCEPT ![s] = k] /\ Ends(job[s], k)
<1> DEFINE old == job[s]
<1>1. /\ old \in Job /\ JobInv(old)
      /\ old.pc = "phase" \/ old.pc = "step"
      /\ job' = [job EXCEPT ![s] =
            IF old.aborted THEN [old EXCEPT !.pc = "release"]
            ELSE IF old.phaseFailed THEN GiveUpPhase(old)
            ELSE CompletePhase(old)]
  BY DEF EndPhase, Inv, TypeOK
<1>2. /\ old.todo \in SUBSET Nat /\ old.completed \in Nat /\ old.failed \in Nat
      /\ old.phase \in Nat /\ old.finished \in SUBSET Nat /\ old.start \in Nat
  BY <1>1 DEF Job
<1> HIDE DEF old
<1>3. CASE old.aborted
  <2> DEFINE k == [old EXCEPT !.pc = "release"]
  <2>1. k \in Job /\ job' = [job EXCEPT ![s] = k] /\ Ends(old, k)
    BY <1>1, <1>3 DEF Job, PCs, Ends
  <2> QED BY <2>1 DEF old
<1>4. CASE ~old.aborted /\ old.phaseFailed
  <2> DEFINE n == NextPhase(old, old.todo)
             k == [n EXCEPT !.failed = n.failed + 1]
  <2>1. job' = [job EXCEPT ![s] = k]
    BY <1>1, <1>4 DEF GiveUpPhase
  <2>2. /\ n \in Job /\ GoesOn(old, n, old.todo)
        /\ n.finished = old.finished /\ n.completed = old.completed
        /\ n.failed = old.failed /\ n.seen = old.seen
    BY <1>1, <1>2, NextPhaseTakes, NextPhaseGoesOn
  <2> HIDE DEF n
  <2>3. k \in Job
    BY <2>2 DEF Job
  <2>4. /\ k.finished = old.finished /\ k.completed = old.completed
        /\ k.failed = old.failed + 1 /\ k.seen = old.seen
    BY <2>2 DEF Job
  <2>5. /\ k.pc = n.pc /\ k.phase = n.phase /\ k.todo = n.todo
        /\ k.step = n.step /\ k.passed = n.passed /\ k.tried = n.tried
        /\ k.start = n.start /\ k.resumed = n.resumed /\ k.aborted = n.aborted /\ k.out = n.out
    BY <2>2 DEF Job
  <2> HIDE DEF k
  <2>6. GoesOn(old, k, old.todo)
    BY <2>2, <2>5 DEF GoesOn, Takes
  <2>7. Ends(old, k)
    BY <1>4, <2>4, <2>6 DEF Ends
  <2> QED BY <2>1, <2>3, <2>7 DEF old
<1>5. CASE ~old.aborted /\ ~old.phaseFailed
  <2> DEFINE todo == replan(old)
             n == NextPhase(old, todo)
             seen == remainingFrom(roadmap, old.start)
             k == [n EXCEPT !.completed = n.completed + 1,
                            !.finished = n.finished \cup {old.phase}, !.seen = seen]
  <2>1. job' = [job EXCEPT ![s] = k]
    BY <1>1, <1>5 DEF CompletePhase
  <2>2. old.pc = "step"
    BY <1>1, <1>5 DEF JobInv, Stopped
  <2>3. roadmap \in Seq(Phase)
    BY DEF Inv, TypeOK
  <2>4. seen \in SUBSET Nat /\ remainingFrom(roadmap, old.phase + 100) \in SUBSET Nat
    BY <1>2, <2>3, RemainingType
  <2>5. todo \in SUBSET Nat
    BY <1>2, <2>4 DEF replan
  <2> HIDE DEF todo
  <2>0. seen = remainingFrom(roadmap, old.start)
    OBVIOUS
  <2> HIDE DEF seen
  <2>6. /\ n \in Job /\ GoesOn(old, n, todo)
        /\ n.finished = old.finished /\ n.completed = old.completed /\ n.failed = old.failed
    BY <1>1, <2>5, NextPhaseTakes, NextPhaseGoesOn
  <2> HIDE DEF n
  <2>7. k \in Job
    <3>1. n.completed + 1 \in Nat /\ n.finished \cup {old.phase} \in SUBSET Nat
      BY <1>2, <2>6
    <3> QED BY <2>4, <2>6, <3>1 DEF Job
  <2>8. /\ k.finished = old.finished \cup {old.phase} /\ k.completed = old.completed + 1
        /\ k.failed = old.failed /\ k.seen = seen
    BY <2>6 DEF Job
  <2>9. /\ k.pc = n.pc /\ k.phase = n.phase /\ k.todo = n.todo
        /\ k.step = n.step /\ k.passed = n.passed /\ k.tried = n.tried
        /\ k.start = n.start /\ k.resumed = n.resumed /\ k.aborted = n.aborted /\ k.out = n.out
    BY <2>6 DEF Job
  <2> HIDE DEF k
  <2>10. GoesOn(old, k, todo)
    BY <2>6, <2>9 DEF GoesOn, Takes
  <2>11. Ends(old, k)
    BY <1>5, <2>0, <2>2, <2>8, <2>10 DEF Ends, todo
  <2> QED BY <2>1, <2>7, <2>11 DEF old
<1>6. old.aborted \in BOOLEAN /\ old.phaseFailed \in BOOLEAN
  BY <1>1 DEF Job
<1> QED BY <1>3, <1>4, <1>5, <1>6

\* A phase that was not aborted has no streak behind it, nor has the next one.
LEMMA EndPhaseAlone ==
    ASSUME Inv, Alone, NEW s \in Sessions, EndPhase(s)
    PROVE  Alone'
<1>1. PICK k \in Job : job' = [job EXCEPT ![s] = k] /\ Ends(job[s], k)
  BY EndPhaseEnds
<1>2. /\ job[s].pc \in {"phase", "step"} /\ lock' = lock
  BY DEF EndPhase, world
<1>3. job[s].pc \in locked /\ Running(s)
  BY <1>2 DEF locked, Live, PCs, Running
<1>4. job[s] \in Job /\ NoStreak(job[s], lock.history)
  BY <1>3, RunsAlone
<1>5. CASE job[s].aborted
  <2>1. k.pc = "release"
    BY <1>1, <1>4, <1>5 DEF Ends, Job
  <2> QED BY <1>1, <1>2, <1>3, <2>1, LeaveAlone
<1>6. CASE ~job[s].aborted
  <2>1. k.pc \in {"release", "step"}
    BY <1>1, <1>6 DEF Ends, GoesOn, Takes
  <2>2. ~Streak(lock.history, MaxConsecutive + 1)
    BY <1>2, <1>4, <1>6 DEF NoStreak
  <2>3. NoStreak(k, lock.history)
    BY <2>1, <2>2 DEF NoStreak
  <2>4. k.pc \in locked /\ k.pc \notin entered
    BY <2>1 DEF Live, PCs, locked, entered
  <2> QED BY <1>1, <1>2, <1>3, <2>3, <2>4, QuietStep
<1> QED BY <1>5, <1>6

\* A session that is gone owns nothing and awaits nothing.
LEMMA GoneAlone ==
    ASSUME Inv, Alone, NEW s \in Sessions, Running(s), NEW pc \in {"done", "crashed"},
           NEW j, job' = [job EXCEPT ![s] = Gone(pc, j)],
           \/ lock' = NoLock
           \/ (lock' = lock \/ lock' = Torn) /\ pc = "crashed"
    PROVE  Alone'
<1> DEFINE k == Gone(pc, j)
<1>1. k.pc = pc
  BY DEF Gone, NoJob
<1> HIDE DEF k
<1>2. \A t \in Sessions : t # s => ~Running(t)
  BY RunsAlone
<1>3. Owns(s, k, lock')
  BY <1>1 DEF Owns, locked, Live
<1>4. job[s].pc # "crashed"
  BY DEF Running, Live
<1> QED BY <1>1, <1>2, <1>3, <1>4, Mover DEF k

\* A release removes the lock.
LEMMA ReleaseAlone ==
    ASSUME Inv, Alone, NEW s \in Sessions, Release(s)
    PROVE  Alone'
<1>1. Running(s)
  BY DEF Release, Running, Live, PCs
<1> QED BY <1>1, GoneAlone DEF Release, world

\* A crash leaves it.
LEMMA CrashAlone ==
    ASSUME Inv, Alone, NEW s \in Sessions, Crash(s)
    PROVE  Alone'
<1>1. Running(s) /\ (lock' = lock \/ lock' = Torn)
  BY DEF Crash
<1>2. job' = [job EXCEPT ![s] = Gone("crashed", job[s])]
  BY DEF Crash
<1> QED BY <1>1, <1>2, GoneAlone

-----------------------------------------------------------------------------
(* Theorems about sessions that do not overlap *)

\* What neither moves a session nor writes the lock.
LEMMA NobodyMoves ==
    ASSUME Alone, UNCHANGED <<job, lock>>
    PROVE  Alone'
BY DEF Alone, Single, Left, Owns, Running, StepOf

\* The first state has no lock.
LEMMA InitAlone == Init => Alone
<1> SUFFICES ASSUME Init PROVE Alone
  OBVIOUS
<1>1. \A s \in Sessions : job[s] = NoJob
  BY DEF Init
<1>2. \A s \in Sessions : job[s].pc = "idle"
  BY <1>1 DEF NoJob
<1>3. lock = NoLock
  BY DEF Init
<1>4. Single /\ Left
  BY <1>2, <1>3, LockAssumption DEF Single, Left, Running, Live, LockAssumption
<1>5. \A s \in Sessions : Owns(s, job[s], lock)
  BY <1>2 DEF Owns, locked, Live
<1> QED BY <1>4, <1>5 DEF Alone

\* Every step keeps Alone.
LEMMA NextAlone ==
    ASSUME ~Overlap, Inv, Alone, [Next]_vars
    PROVE  Alone'
<1>1. ASSUME NEW s \in Sessions, Start(s) PROVE Alone'
  BY <1>1, StartAlone
<1>2. ASSUME NEW s \in Sessions, SessionStep(s) PROVE Alone'
  BY <1>2, AcquireAlone, ReadRoadmapAlone, SkipStepAlone, EnterStepAlone, AbortBeforeStepAlone,
     DispatchAlone, StepEndsAlone, StepTimesOutAlone, StepThrowsAlone, RecordStepAlone,
     JudgeAlone, RetryAlone, SkipPhaseAlone, RecordRetryAlone, EndPhaseAlone, ReleaseAlone
     DEF SessionStep
<1>3. ASSUME NEW s \in Sessions, Crash(s) PROVE Alone'
  BY <1>3, CrashAlone
<1>4. CASE LateStepEnds
  BY <1>4, NobodyMoves DEF LateStepEnds
<1>5. CASE EditRoadmap
  BY <1>5, NobodyMoves DEF EditRoadmap
<1>6. CASE UNCHANGED vars
  BY <1>6, NobodyMoves DEF vars
<1> QED BY <1>1, <1>2, <1>3, <1>4, <1>5, <1>6 DEF Next

\* Alone holds of sessions that do not overlap.
LEMMA AloneHolds == ~Overlap => (Spec => []Alone)
<1> SUFFICES ASSUME ~Overlap PROVE Spec => []Alone
  OBVIOUS
<1>1. Inv /\ Alone /\ [Next]_vars => Alone'
  BY NextAlone
<1> QED BY InitAlone, InvHolds, <1>1, PTL DEF Spec

\* With one session at a time, a lock on disk is that of a session that runs or
\* has crashed, and a session inside its phases has the lock to itself, with the
\* step it is in written to it (OPS-01, auto-lock.ts).
THEOREM LockIsLiveOrCrashed == Spec => []LockMeansLiveOrCrashed
<1>1. CASE ~Overlap
  <2>1. ASSUME Inv, Alone PROVE LockMeansLiveOrCrashed
    <3>1. lock # NoLock => \E s \in Sessions : Running(s) \/ job[s].pc = "crashed"
      <4>1. lock \in LockState => lock.pid \in Sessions
        BY DEF LockState
      <4>2. lock \in LockState \cup {NoLock, Torn}
        BY <2>1 DEF Inv, TypeOK
      <4> QED BY <2>1, <4>1, <4>2 DEF Alone, Left, Running
    <3>2. ASSUME NEW s \in Sessions, Running(s), job[s].pc # "acquire"
          PROVE  /\ lock \in LockState
                 /\ lock.pid = s
                 /\ Waiting(s) => lock.phase = job[s].phase /\ lock.step = StepOf(job[s])
      <4>1. job[s].pc \in locked
        BY <3>2 DEF locked, Running
      <4>2. Waiting(s) => job[s].pc \in entered
        BY DEF Waiting, entered
      <4> QED BY <2>1, <3>2, <4>1, <4>2, RunsAlone
    <3> QED BY <3>1, <3>2 DEF LockMeansLiveOrCrashed
  <2> QED BY <1>1, <2>1, InvHolds, AloneHolds, PTL
<1>2. CASE Overlap
  <2>1. LockMeansLiveOrCrashed
    BY <1>2 DEF LockMeansLiveOrCrashed
  <2> QED BY <2>1, PTL
<1> QED BY <1>1, <1>2

\* With one session at a time, a step is not awaited once more when it has just
\* failed, by itself, more often in a row than the detector's threshold
\* (stuck-detector.ts): a retry that is not judged adds one failure, not two.
THEOREM FailureStreakBounded == ~Overlap => (Spec => []FailureStreakIsBounded)
<1> SUFFICES ASSUME ~Overlap PROVE Spec => []FailureStreakIsBounded
  OBVIOUS
<1>1. ASSUME Inv, Alone PROVE FailureStreakIsBounded
  <2> SUFFICES ASSUME NEW s \in Sessions, Waiting(s), lock \in LockState, lock.pid = s,
                      Len(lock.history) > MaxConsecutive,
                      LET t == Tail_(lock.history, MaxConsecutive + 1)
                      IN  /\ AllFailed(t)
                          /\ \A i \in DOMAIN t : t[i].step = t[1].step /\ ~t[i].timedOut
               PROVE  FALSE
    BY DEF FailureStreakIsBounded
  <2>1. lock.history \in Seq(Record)
    BY DEF LockState, History
  <2>2. Streak(lock.history, MaxConsecutive + 1)
    BY <2>1, TailIsStreak
  <2>3. job[s].pc \in locked /\ Running(s) /\ job[s].pc \in {"running", "rerunning"}
    BY DEF Waiting, locked, Live, PCs, Running
  <2>4. NoStreak(job[s], lock.history)
    BY <1>1, <2>3, RunsAlone
  <2> QED BY <2>2, <2>3, <2>4 DEF NoStreak
<1> QED BY <1>1, InvHolds, AloneHolds, PTL

-----------------------------------------------------------------------------
(* Inside a phase *)

\* The actions of a session inside a phase.
InPhaseStep(s) ==
    \/ SkipStep(s) \/ EnterStep(s) \/ AbortBeforeStep(s) \/ Dispatch(s)
    \/ StepEnds(s) \/ StepTimesOut(s) \/ StepThrows(s) \/ RecordStep(s) \/ Judge(s)
    \/ Retry(s) \/ SkipPhase(s) \/ Abort(s) \/ RecordRetry(s)

\* They keep the list of phases and what was counted, and stay in the phase,
\* unless a step throws.
SameList(j, k) ==
    /\ k.start = j.start /\ k.resumed = j.resumed /\ k.phase = j.phase
    /\ k.todo = j.todo /\ k.tried = j.tried /\ k.finished = j.finished
    /\ k.completed = j.completed /\ k.failed = j.failed /\ k.seen = j.seen

Stays(j, k) ==
    /\ j.pc \in inPhase
    /\ SameList(j, k)
    /\ k.pc \in inPhase \cup {"phase"} \/ (k.pc = "release" /\ k.out = "throw")

\* Changing where a session is, and what came of the step.
LEMMA MoveStays ==
    ASSUME NEW j \in Job, j.pc \in inPhase,
           NEW pc \in inPhase \cup {"phase", "release"}, NEW out, NEW failed, NEW aborted,
           pc = "release" => out = "throw"
    PROVE  Stays(j, [j EXCEPT !.pc = pc, !.out = out, !.phaseFailed = failed,
                              !.aborted = aborted])
<1> DEFINE k == [j EXCEPT !.pc = pc, !.out = out, !.phaseFailed = failed, !.aborted = aborted]
<1>1. k.pc = pc /\ k.out = out /\ SameList(j, k)
  BY DEF Job, SameList
<1> HIDE DEF k
<1> QED BY <1>1 DEF Stays, k

\* A step that is passed stays in the phase too.
LEMMA PassStays ==
    ASSUME NEW j \in Job, j.pc \in inPhase
    PROVE  Stays(j, PassStep(j))
<1> DEFINE k == PassStep(j)
<1>1. k = [j EXCEPT !.pc = "step", !.step = @ + 1, !.passed = @ \cup {StepOf(j)}]
  BY DEF PassStep
<1>2. k.pc = "step" /\ SameList(j, k)
  BY <1>1 DEF Job, SameList
<1> HIDE DEF k
<1> QED BY <1>2 DEF Stays, k, inPhase

\* A step inside a phase leaves the lists alone.
LEMMA InPhaseStays ==
    ASSUME Inv, NEW s \in Sessions, InPhaseStep(s)
    PROVE  \E k : job' = [job EXCEPT ![s] = k] /\ Stays(job[s], k) /\ roadmap' = roadmap
<1> DEFINE j == job[s]
           At(pc, out, failed, aborted) ==
               [j EXCEPT !.pc = pc, !.out = out, !.phaseFailed = failed, !.aborted = aborted]
<1>1. job \in [Sessions -> Job] /\ j \in Job
  BY DEF Inv, TypeOK
<1>2. \A pc \in inPhase \cup {"phase", "release"} :
         /\ [j EXCEPT !.pc = pc] = At(pc, j.out, j.phaseFailed, j.aborted)
         /\ \A out : [j EXCEPT !.pc = pc, !.out = out] = At(pc, out, j.phaseFailed, j.aborted)
         /\ \A f : [j EXCEPT !.pc = pc, !.phaseFailed = f] = At(pc, j.out, f, j.aborted)
         /\ \A a : [j EXCEPT !.pc = pc, !.aborted = a] = At(pc, j.out, j.phaseFailed, a)
  BY <1>1 DEF Job
<1>3. ASSUME NEW pc \in inPhase \cup {"phase", "release"}, NEW out, NEW failed, NEW aborted,
             j.pc \in inPhase, pc = "release" => out = "throw"
      PROVE  Stays(j, At(pc, out, failed, aborted))
  BY <1>1, <1>3, MoveStays
<1>4. j.pc \in inPhase => Stays(j, PassStep(j))
  BY <1>1, PassStays
<1>5. /\ "phase" \in inPhase \cup {"phase", "release"}
      /\ "release" \in inPhase \cup {"phase", "release"}
      /\ \A pc \in inPhase : pc # "release" /\ pc \in inPhase \cup {"phase", "release"}
  BY DEF inPhase
<1> HIDE DEF At
<1>6. CASE SkipStep(s)
  <2>1. job' = [job EXCEPT ![s] = PassStep(j)] /\ roadmap' = roadmap /\ j.pc \in inPhase
    BY <1>6 DEF SkipStep, world, inPhase
  <2> QED BY <1>4, <2>1
<1>7. CASE EnterStep(s) \/ Dispatch(s) \/ RecordStep(s) \/ Retry(s)
  <2>1. PICK pc \in inPhase : job' = [job EXCEPT ![s].pc = pc]
    BY <1>7 DEF EnterStep, Dispatch, RecordStep, Retry, Go, inPhase
  <2>2. roadmap' = roadmap /\ j.pc \in inPhase
    BY <1>7 DEF EnterStep, Dispatch, RecordStep, Retry, world, inPhase
  <2>3. job' = [job EXCEPT ![s] = At(pc, j.out, j.phaseFailed, j.aborted)]
    BY <1>1, <1>2, <1>5, <2>1
  <2> QED BY <1>3, <1>5, <2>2, <2>3
<1>8. CASE StepEnds(s)
  <2>1. PICK success \in BOOLEAN :
          job' = [job EXCEPT ![s].pc = AfterWait(s),
                             ![s].out = IF success THEN "ok" ELSE "fail"]
    BY <1>8 DEF StepEnds
  <2>2. roadmap' = roadmap /\ j.pc \in inPhase /\ AfterWait(s) \in inPhase
    BY <1>8 DEF StepEnds, Waiting, AfterWait, inPhase
  <2>3. job' = [job EXCEPT ![s] = At(AfterWait(s), IF success THEN "ok" ELSE "fail",
                                     j.phaseFailed, j.aborted)]
    BY <1>1, <1>2, <1>5, <2>1, <2>2
  <2> QED BY <1>3, <1>5, <2>2, <2>3
<1>9. CASE StepTimesOut(s)
  <2>1. job' = [job EXCEPT ![s].pc = AfterWait(s), ![s].out = "timeout"]
    BY <1>9 DEF StepTimesOut
  <2>2. roadmap' = roadmap /\ j.pc \in inPhase /\ AfterWait(s) \in inPhase
    BY <1>9 DEF StepTimesOut, Waiting, AfterWait, inPhase
  <2>3. job' = [job EXCEPT ![s] = At(AfterWait(s), "timeout", j.phaseFailed, j.aborted)]
    BY <1>1, <1>2, <1>5, <2>1, <2>2
  <2> QED BY <1>3, <1>5, <2>2, <2>3
<1>10. CASE StepThrows(s)
  <2>1. job' = [job EXCEPT ![s].pc = "release", ![s].out = "throw"]
    BY <1>10 DEF StepThrows
  <2>2. roadmap' = roadmap /\ j.pc \in inPhase
    BY <1>10 DEF StepThrows, Waiting, inPhase, world
  <2>3. job' = [job EXCEPT ![s] = At("release", "throw", j.phaseFailed, j.aborted)]
    BY <1>1, <1>2, <1>5, <2>1
  <2> QED BY <1>3, <1>5, <2>2, <2>3
<1>11. CASE AbortBeforeStep(s) \/ Abort(s)
  <2>1. job' = [job EXCEPT ![s].pc = "phase", ![s].aborted = TRUE]
    BY <1>11 DEF AbortBeforeStep, Abort
  <2>2. roadmap' = roadmap /\ j.pc \in inPhase
    BY <1>11 DEF AbortBeforeStep, Abort, inPhase, world
  <2>3. job' = [job EXCEPT ![s] = At("phase", j.out, j.phaseFailed, TRUE)]
    BY <1>1, <1>2, <1>5, <2>1
  <2> QED BY <1>3, <1>5, <2>2, <2>3
<1>12. FailPhase(j) = At("phase", j.out, TRUE, j.aborted)
  BY <1>2, <1>5 DEF FailPhase
<1>13. CASE SkipPhase(s)
  <2>1. job' = [job EXCEPT ![s] = FailPhase(j)] /\ roadmap' = roadmap /\ j.pc \in inPhase
    BY <1>13 DEF SkipPhase, inPhase, world
  <2> QED BY <1>3, <1>5, <1>12, <2>1
<1>14. CASE RecordRetry(s)
  <2>1. /\ job' = [job EXCEPT ![s] = IF j.out = "ok" THEN PassStep(j) ELSE FailPhase(j)]
        /\ roadmap' = roadmap /\ j.pc \in inPhase
    BY <1>14 DEF RecordRetry, inPhase, world
  <2> QED BY <1>3, <1>4, <1>5, <1>12, <2>1
<1>15. CASE Judge(s)
  <2>1. roadmap' = roadmap /\ j.pc \in inPhase
    BY <1>15 DEF Judge, inPhase, world
  <2>2. j.out \in {"ok", "fail", "timeout"}
    <3>1. JobInv(j)
      BY DEF Inv
    <3> QED BY <1>15, <3>1 DEF Judge, JobInv, Answered, awaited
  <2>3. \/ job' = [job EXCEPT ![s] = FailPhase(j)]
        \/ job' = [job EXCEPT ![s] = [j EXCEPT !.pc = "phase", !.aborted = TRUE]]
        \/ job' = [job EXCEPT ![s] = [j EXCEPT !.pc = "ask"]]
        \/ job' = [job EXCEPT ![s] = PassStep(j)]
    <3> DEFINE history == IF _readLock = NoLock THEN <<>> ELSE _readLock.history
    <3>1. job' = [job EXCEPT ![s] =
                CASE @.out = "timeout" -> FailPhase(@)
                  [] @.out # "timeout" /\ analyze(history) ->
                        [@ EXCEPT !.pc = "phase", !.aborted = TRUE]
                  [] @.out = "fail" /\ ~analyze(history) -> [@ EXCEPT !.pc = "ask"]
                  [] @.out = "ok" /\ ~analyze(history) -> PassStep(@)]
      BY <1>15 DEF Judge
    <3> HIDE DEF history
    <3>2. CASE j.out = "timeout"
      BY <3>1, <3>2
    <3>3. CASE j.out # "timeout" /\ analyze(history)
      BY <2>2, <3>1, <3>3
    <3>4. CASE j.out = "fail" /\ ~analyze(history)
      BY <3>1, <3>4
    <3>5. CASE j.out = "ok" /\ ~analyze(history)
      BY <3>1, <3>5
    <3> QED BY <2>2, <3>2, <3>3, <3>4, <3>5
  <2>4. /\ Stays(j, FailPhase(j)) /\ Stays(j, [j EXCEPT !.pc = "phase", !.aborted = TRUE])
        /\ Stays(j, [j EXCEPT !.pc = "ask"])
    <3>1. "ask" \in inPhase
      BY DEF inPhase
    <3>2. [j EXCEPT !.pc = "phase", !.aborted = TRUE] = At("phase", j.out, j.phaseFailed, TRUE)
      BY <1>2, <1>5
    <3>3. [j EXCEPT !.pc = "ask"] = At("ask", j.out, j.phaseFailed, j.aborted)
      BY <1>2, <1>5, <3>1
    <3>4. Stays(j, At("phase", j.out, TRUE, j.aborted))
      BY <1>3, <1>5, <2>1
    <3>5. Stays(j, At("phase", j.out, j.phaseFailed, TRUE))
      BY <1>3, <1>5, <2>1
    <3>6. Stays(j, At("ask", j.out, j.phaseFailed, j.aborted))
      BY <1>3, <1>5, <2>1, <3>1
    <3> QED BY <1>12, <3>2, <3>3, <3>4, <3>5, <3>6
  <2> QED BY <1>4, <2>1, <2>3, <2>4
<1> QED BY <1>6, <1>7, <1>8, <1>9, <1>10, <1>11, <1>13, <1>14, <1>15 DEF InPhaseStep

-----------------------------------------------------------------------------
(* Roadmaps of integer phases *)

\* What RoadmapIsFinished says of one session.
Finishes(j) ==
    (/\ j.pc = "release" /\ j.completed > 0 /\ j.failed = 0
     /\ ~j.aborted /\ j.out # "throw") => j.seen \subseteq j.tried

\* The numbers of integer phases are at least a hundred apart.
LEMMA Hundreds ==
    ASSUME Inv, Lists, NEW n \in Numbers, NEW m \in Numbers
    PROVE  n \in Nat /\ (n < m => m >= n + 100)
<1>1. \A p \in ToSet(roadmap) : p.major \in Nat /\ p.minor = 0
  <2>1. \A i \in DOMAIN roadmap : roadmap[i] \in Phase /\ roadmap[i].minor = 0
    BY DEF Inv, TypeOK, Lists
  <2> QED BY <2>1 DEF ToSet, Phase
<1>2. \A p \in ToSet(roadmap) : NumberOf(p) = 100 * p.major
  BY <1>1 DEF NumberOf
<1>3. PICK p \in ToSet(roadmap), q \in ToSet(roadmap) : n = NumberOf(p) /\ m = NumberOf(q)
  BY DEF Numbers
<1>4. p.major \in Nat /\ q.major \in Nat /\ n = 100 * p.major /\ m = 100 * q.major
  BY <1>1, <1>2, <1>3
<1> QED BY <1>4

\* What is open has a number in the list, and can be looked for from any other.
LEMMA OpenIsNumbered ==
    ASSUME Inv, NEW a, NEW b, NEW n
    PROVE  /\ n \in remainingFrom(roadmap, a) => n \in Numbers /\ n >= a
           /\ n \in remainingFrom(roadmap, a) /\ n >= b => n \in remainingFrom(roadmap, b)
BY DEF remainingFrom, Numbers

\* The session that moves is the only one whose list changes.
LEMMA OneList ==
    ASSUME Inv, Lists, NEW s \in Sessions, NEW k, job' = [job EXCEPT ![s] = k],
           roadmap' = roadmap, Listed(k), Finishes(k)
    PROVE  Lists'
<1>1. job'[s] = k /\ \A t \in Sessions : t # s => job'[t] = job[t]
  BY DEF Inv, TypeOK
<1>2. \A t \in Sessions : Listed(job'[t])
  BY <1>1 DEF Lists
<1>3. (\A t \in Sessions : Listed(job[t]))'
  BY <1>2 DEF Listed, Numbers
<1>4. RoadmapIsFinished'
  BY <1>1 DEF Lists, RoadmapIsFinished, Finishes
<1> QED BY <1>3, <1>4 DEF Lists

\* A session inside a phase keeps its list.
LEMMA InPhaseLists ==
    ASSUME Inv, Lists, NEW s \in Sessions, InPhaseStep(s)
    PROVE  Lists'
<1>1. PICK k : job' = [job EXCEPT ![s] = k] /\ Stays(job[s], k) /\ roadmap' = roadmap
  BY InPhaseStays
<1>2. job[s].pc \in Live \ before /\ Listed(job[s])
  BY <1>1 DEF Stays, inPhase, Live, PCs, before, Lists
<1>3. k.pc \notin before /\ (k.pc \in inPhase \cup {"phase"} => job[s].pc \in inPhase)
  BY <1>1 DEF Stays, inPhase, before
<1>4. Listed(k)
  BY <1>1, <1>2, <1>3 DEF Stays, SameList, Listed
<1>5. Finishes(k)
  BY <1>1 DEF Stays, Finishes, inPhase
<1> QED BY <1>1, <1>4, <1>5, OneList

\* The list is put together from what is open.
LEMMA ReadRoadmapLists ==
    ASSUME Inv, Lists, NEW s \in Sessions, ReadRoadmap(s)
    PROVE  Lists'
<1> DEFINE todo == remainingFrom(roadmap, job[s].start)
           n == NextPhase(job[s], todo)
           k == [n EXCEPT !.seen = todo]
<1>1. /\ job[s].pc = "roadmap" /\ job' = [job EXCEPT ![s] = k] /\ roadmap' = roadmap
  BY DEF ReadRoadmap, world
<1>2. job[s] \in Job /\ job[s].start \in Nat /\ roadmap \in Seq(Phase)
  BY DEF Inv, TypeOK, Job
<1>3. todo \in SUBSET Nat
  BY <1>2, RemainingType
<1>4. todo \subseteq Numbers
  BY OpenIsNumbered
<1>0. todo = remainingFrom(roadmap, job[s].start)
  OBVIOUS
<1> HIDE DEF todo
<1>5. /\ n \in Job /\ GoesOn(job[s], n, todo) /\ n.completed = job[s].completed
  BY <1>2, <1>3, NextPhaseTakes, NextPhaseGoesOn
<1> HIDE DEF n
<1>6. /\ k.pc = n.pc /\ k.todo = n.todo /\ k.tried = n.tried /\ k.start = n.start
      /\ k.phase = n.phase /\ k.completed = n.completed
  BY <1>5 DEF Job
<1> HIDE DEF k
<1>7. job[s].tried = {} /\ job[s].completed = 0 /\ job[s].phase = 0
  <2>1. JobInv(job[s]) /\ Listed(job[s]) /\ job[s].pc \in before
    BY <1>1 DEF Inv, Lists, before
  <2> QED BY <2>1 DEF JobInv, Ordered, Listed
<1>8. /\ k.todo \cup k.tried = todo /\ k.pc \in {"step", "release"}
      /\ k.pc = "step" => k.phase \in k.tried
      /\ k.phase \in k.tried \cup {0}
  BY <1>5, <1>6, <1>7 DEF GoesOn, Takes
<1>9. Listed(k)
  <2>1. k.pc \notin before
    BY <1>8 DEF before
  <2>2. k.start = job[s].start
    BY <1>5, <1>6 DEF GoesOn
  <2>3. k.pc \in inPhase \cup {"phase"} => k.phase \in k.tried
    BY <1>8 DEF inPhase
  <2> QED BY <1>0, <1>4, <1>8, <2>1, <2>2, <2>3 DEF Listed
<1>10. Finishes(k)
  BY <1>5, <1>6, <1>7 DEF Finishes
<1> QED BY <1>1, <1>9, <1>10, OneList

\* What is open is finitely much.
LEMMA OpenIsFinite ==
    ASSUME Inv, NEW from
    PROVE  IsFiniteSet(remainingFrom(roadmap, from))
<1>1. roadmap \in Seq(Phase)
  BY DEF Inv, TypeOK
<1> DEFINE I == 1..Len(roadmap)
           S == {NumberOf(roadmap[i]) : i \in I}
<1>2. IsFiniteSet(I)
  <2>1. Len(roadmap) \in Nat
    BY <1>1
  <2> QED BY <2>1, FS_Interval
<1>3. IsFiniteSet(S)
  <2> DEFINE f == [i \in I |-> NumberOf(roadmap[i])]
  <2>1. f \in Surjection(I, S)
    BY DEF Surjection
  <2> HIDE DEF f, I, S
  <2> QED BY <1>2, <2>1, FS_Surjection
<1>4. remainingFrom(roadmap, from) \subseteq S
  BY <1>1 DEF remainingFrom, ToSet
<1> HIDE DEF S
<1> QED BY <1>3, <1>4, FS_Subset

\* After a phase that completed, the list is what is open behind it, whatever
\* was added; with nothing left on it, everything open was tried.
LEMMA EndPhaseLists ==
    ASSUME Inv, Lists, NEW s \in Sessions, EndPhase(s)
    PROVE  Lists'
<1> DEFINE j == job[s]
<1>1. PICK k \in Job : job' = [job EXCEPT ![s] = k] /\ Ends(j, k)
  BY EndPhaseEnds
<1>2. roadmap' = roadmap /\ j.pc \in {"phase", "step"}
  BY DEF EndPhase, world
<1>3. /\ j \in Job /\ j.phase \in Nat /\ j.todo \in SUBSET Nat /\ j.failed \in Nat
      /\ j.tried \in SUBSET Nat /\ JobInv(j) /\ Listed(j) /\ j.start \in Nat
  BY DEF Inv, TypeOK, Lists, Job
<1> HIDE DEF j
<1>4. /\ j.phase \in j.tried /\ j.todo \cup j.tried \subseteq Numbers
      /\ \A n \in remainingFrom(roadmap, j.start) :
            n \in j.tried \cup j.todo \/ \A m \in j.tried \cup j.todo : m < n
      /\ \A n \in j.todo : j.phase < n
  BY <1>2, <1>3 DEF Listed, JobInv, Ordered, Live, PCs, before, inPhase
<1>5. ASSUME NEW todo \in SUBSET Nat, GoesOn(j, k, todo), todo \subseteq Numbers,
             \A n \in remainingFrom(roadmap, j.start) :
                n \in j.tried \cup todo \/ \A m \in j.tried \cup todo : m < n
      PROVE  /\ Listed(k)
             /\ k.pc \in {"release", "step"}
             /\ k.pc = "release" => todo = {} /\ k.tried = j.tried
  <2>1. /\ k.pc \in {"release", "step"} /\ k.todo \cup k.tried = j.tried \cup todo
        /\ k.pc = "release" => todo = {} /\ k.tried = j.tried
        /\ k.pc = "step" => k.phase \in k.tried
        /\ k.phase \in k.tried
    BY <1>4, <1>5 DEF GoesOn, Takes
  <2>2. k.start = j.start
    BY <1>5 DEF GoesOn
  <2>3. k.pc \notin before /\ (k.pc \in inPhase \cup {"phase"} => k.pc = "step")
    BY <2>1 DEF before, inPhase
  <2>4. Listed(k)
    BY <1>4, <1>5, <2>1, <2>2, <2>3 DEF Listed
  <2> QED BY <2>1, <2>4
<1>6. CASE j.aborted
  <2>1. /\ k.pc = "release" /\ k.aborted /\ k.start = j.start /\ k.todo = j.todo
        /\ k.tried = j.tried /\ k.phase = j.phase
    BY <1>1, <1>3, <1>6 DEF Ends, Job
  <2>2. Listed(k)
    BY <1>4, <2>1 DEF Listed, before, inPhase
  <2>3. Finishes(k)
    BY <2>1 DEF Finishes
  <2> QED BY <1>1, <1>2, <2>2, <2>3, OneList
<1>7. CASE ~j.aborted /\ j.phaseFailed
  <2>1. GoesOn(j, k, j.todo) /\ k.failed = j.failed + 1
    BY <1>1, <1>7 DEF Ends
  <2>2. Listed(k)
    BY <1>3, <1>4, <1>5, <2>1
  <2>3. Finishes(k)
    BY <1>3, <2>1 DEF Finishes
  <2> QED BY <1>1, <1>2, <2>2, <2>3, OneList
<1>8. CASE ~j.aborted /\ ~j.phaseFailed
  <2> DEFINE fresh == remainingFrom(roadmap, j.phase + 100)
             open == remainingFrom(roadmap, j.start)
             todo == replan(j)
  <2>1. GoesOn(j, k, todo) /\ k.seen = open
    BY <1>1, <1>8 DEF Ends
  <2>2. todo = fresh \/ (todo = j.todo /\ Cardinality(fresh) = Cardinality(j.todo))
    BY DEF replan
  <2>3. fresh \in SUBSET Nat /\ IsFiniteSet(fresh) /\ fresh \subseteq Numbers
        /\ open \subseteq Numbers
    <3>1. fresh \in SUBSET Nat
      <4>1. roadmap \in Seq(Phase) /\ j.phase + 100 \in Nat
        BY <1>3 DEF Inv, TypeOK
      <4> QED BY <4>1, RemainingType
    <3> QED BY <3>1, OpenIsFinite, OpenIsNumbered
  <2>4. \A n \in open : n \in j.tried \/ n \in fresh
    <3> SUFFICES ASSUME NEW n \in open, n \notin j.tried PROVE n \in fresh
      OBVIOUS
    <3>1. n \in Numbers /\ j.phase \in Numbers
      BY <1>4, <2>3
    <3>2. j.phase < n
      BY <1>4
    <3>3. n >= j.phase + 100
      BY <3>1, <3>2, Hundreds
    <3> QED BY <3>3, OpenIsNumbered
  <2>5. \A n \in open : n \in j.tried \cup j.todo \/ \A m \in j.tried \cup j.todo : m < n
    BY <1>4
  <2> HIDE DEF fresh, open, todo
  <2>6. todo \in SUBSET Nat /\ todo \subseteq Numbers
    BY <1>3, <1>4, <2>2, <2>3
  <2>7. \A n \in open : n \in j.tried \cup todo \/ \A m \in j.tried \cup todo : m < n
    BY <2>2, <2>4, <2>5
  <2>8. /\ Listed(k)
        /\ k.pc = "release" => todo = {} /\ k.tried = j.tried
    BY <1>5, <2>1, <2>6, <2>7 DEF open
  <2>9. todo = {} => fresh = {}
    <3>1. CASE todo = fresh
      BY <3>1
    <3>2. CASE todo = j.todo /\ todo = {} /\ Cardinality(fresh) = Cardinality(j.todo)
      <4>1. Cardinality(fresh) = 0
        BY <3>2, FS_EmptySet
      <4> QED BY <2>3, <4>1, FS_EmptySet
    <3> QED BY <2>2, <3>1, <3>2
  <2>10. Finishes(k)
    BY <2>1, <2>4, <2>8, <2>9 DEF Finishes
  <2> QED BY <1>1, <1>2, <2>8, <2>10, OneList
<1>9. j.aborted \in BOOLEAN /\ j.phaseFailed \in BOOLEAN
  BY <1>3 DEF Job
<1> QED BY <1>6, <1>7, <1>8, <1>9

\* A session starts where it was told to, or where a lock that nobody holds points.
LEMMA StartFinds ==
    ASSUME Inv, NEW s \in Sessions, Start(s)
    PROVE  \E a, b :
              /\ job' = [job EXCEPT ![s] = [job[s] EXCEPT !.pc = "acquire", !.start = a,
                                                          !.resumed = b]]
              /\ \/ b = None
                 \/ /\ _readLock # NoLock /\ b = _readLock.pid /\ a = _readLock.phase
                    /\ ~Running(b)
<1>1. PICK from \in FromArgs, state \in StatePhases, noResume \in BOOLEAN :
          LET statePhase == IF state = None THEN 100 ELSE state
              start      == IF from = None THEN statePhase ELSE from
              found      == _readLock
              crashed    == /\ ~noResume
                            /\ found # NoLock
                            /\ ~isPidAlive(found.pid)
                            /\ start = statePhase
          IN  /\ job' = [job EXCEPT
                    ![s].pc = "acquire",
                    ![s].start = IF crashed THEN found.phase ELSE start,
                    ![s].resumed = IF crashed THEN found.pid ELSE None]
              /\ lock' = IF noResume THEN NoLock ELSE lock
  BY Zenon DEF Start
<1> DEFINE statePhase == IF state = None THEN 100 ELSE state
           start == IF from = None THEN statePhase ELSE from
           crashed == /\ ~noResume
                      /\ _readLock # NoLock
                      /\ ~isPidAlive(_readLock.pid)
                      /\ start = statePhase
           a == IF crashed THEN _readLock.phase ELSE start
           b == IF crashed THEN _readLock.pid ELSE None
<1>2. job' = [job EXCEPT ![s].pc = "acquire", ![s].start = a, ![s].resumed = b]
  BY <1>1, Zenon
<1>3. crashed => _readLock # NoLock /\ ~Running(_readLock.pid)
  BY DEF isPidAlive
<1>4. (crashed /\ a = _readLock.phase /\ b = _readLock.pid) \/ b = None
  OBVIOUS
<1> HIDE DEF a, b, crashed
<1>5. job' = [job EXCEPT ![s] = [job[s] EXCEPT !.pc = "acquire", !.start = a, !.resumed = b]]
  BY <1>2 DEF Inv, TypeOK
<1> QED BY <1>3, <1>4, <1>5

\* Nothing is on the list of a session that has not read the roadmap.
LEMMA StartLists ==
    ASSUME Inv, Lists, NEW s \in Sessions, Start(s) \/ Acquire(s)
    PROVE  Lists'
<1>1. job[s] \in Job /\ job[s].pc \in before /\ Listed(job[s]) /\ roadmap' = roadmap
  BY DEF Inv, TypeOK, Lists, Start, Acquire, world, before
<1>2. PICK k : /\ job' = [job EXCEPT ![s] = k] /\ k.pc \in {"acquire", "roadmap"}
               /\ k.todo = job[s].todo /\ k.tried = job[s].tried /\ k.phase = job[s].phase
               /\ k.completed = job[s].completed
  <2>1. CASE Start(s)
    <3>1. PICK a, b :
            /\ job' = [job EXCEPT ![s] = [job[s] EXCEPT !.pc = "acquire", !.start = a,
                                                        !.resumed = b]]
            /\ \/ b = None
               \/ /\ _readLock # NoLock /\ b = _readLock.pid /\ a = _readLock.phase
                  /\ ~Running(b)
      BY <2>1, StartFinds
    <3> DEFINE k == [job[s] EXCEPT !.pc = "acquire", !.start = a, !.resumed = b]
    <3>2. /\ k.pc = "acquire" /\ k.todo = job[s].todo /\ k.tried = job[s].tried
          /\ k.phase = job[s].phase /\ k.completed = job[s].completed
      BY <1>1 DEF Job
    <3> QED BY <3>1, <3>2
  <2>2. CASE Acquire(s)
    <3> DEFINE k == [job[s] EXCEPT !.pc = "roadmap"]
    <3>1. /\ k.pc = "roadmap" /\ k.todo = job[s].todo /\ k.tried = job[s].tried
          /\ k.phase = job[s].phase /\ k.completed = job[s].completed
      BY <1>1 DEF Job
    <3>2. job' = [job EXCEPT ![s] = k]
      BY <2>2 DEF Acquire, Go
    <3> QED BY <3>1, <3>2
  <2> QED BY <2>1, <2>2
<1>3. k.pc \in before /\ k.pc \notin inPhase \cup {"phase"} /\ k.pc \notin Live \ before
  BY <1>2 DEF before, inPhase
<1>4. Listed(k)
  BY <1>1, <1>2, <1>3 DEF Listed
<1>5. Finishes(k)
  BY <1>3 DEF before, Finishes
<1> QED BY <1>1, <1>2, <1>4, <1>5, OneList

\* A session that is gone leaves the rest of its list behind, or nothing.
LEMMA GoneLists ==
    ASSUME Inv, Lists, NEW s \in Sessions, Running(s),
           \/ job' = [job EXCEPT ![s] = Gone("done", NoJob)]
           \/ job' = [job EXCEPT ![s] = Gone("crashed", job[s])],
           roadmap' = roadmap
    PROVE  Lists'
<1> DEFINE left == job[s].todo \cup ({job[s].phase} \ (job[s].finished \cup {0}))
<1>1. left \subseteq Numbers
  <2>1. Listed(job[s])
    BY DEF Lists
  <2> QED BY <2>1 DEF Listed
<1>2. PICK k : /\ job' = [job EXCEPT ![s] = k] /\ k.pc \in {"done", "crashed"}
               /\ k.todo \subseteq left /\ k.tried = {} /\ k.phase = 0
  <2> HIDE DEF left
  <2>1. Gone("done", NoJob).todo = {}
    BY DEF Gone, NoJob
  <2>2. /\ Gone("done", NoJob).pc = "done" /\ Gone("done", NoJob).tried = {}
        /\ Gone("done", NoJob).phase = 0
    BY DEF Gone, NoJob
  <2>3. /\ Gone("crashed", job[s]).pc = "crashed" /\ Gone("crashed", job[s]).tried = {}
        /\ Gone("crashed", job[s]).phase = 0 /\ Gone("crashed", job[s]).todo = left
    BY DEF Gone, NoJob, left
  <2> QED BY <2>1, <2>2, <2>3
<1> HIDE DEF left
<1>3. k.pc \notin before /\ k.pc \notin inPhase \cup {"phase"} /\ k.pc \notin Live \ before
  BY <1>2 DEF before, inPhase, Live
<1>4. Listed(k)
  BY <1>1, <1>2, <1>3 DEF Listed
<1>5. Finishes(k)
  BY <1>2 DEF Finishes
<1> QED BY <1>2, <1>4, <1>5, OneList

\* A phase that is added has a number of its own, above all others.
LEMMA AddAbove ==
    ASSUME Inv, Lists, NEW id \in Nat, roadmap' = addPhase(roadmap, id), roadmap # <<>>
    PROVE  /\ \A i \in DOMAIN roadmap' : roadmap'[i].minor = 0
           /\ \E new \in Phase : /\ ToSet(roadmap') = ToSet(roadmap) \cup {new}
                                 /\ \A n \in Numbers : n < NumberOf(new)
<1> DEFINE m == NextMajor(roadmap)
           new == NewPhase(id, m, 0)
<1>1. roadmap \in Seq(Phase) /\ m \in Nat /\ \A n \in Majors(roadmap) : n < m
  <2>1. roadmap \in Seq(Phase)
    BY DEF Inv, TypeOK
  <2> QED BY <2>1, NextMajorIsNew
<1>2. roadmap' = Append(roadmap, new)
  BY DEF addPhase
<1>3. new \in Phase /\ new.major = m /\ new.minor = 0
  <2>1. new \in Phase
    BY <1>1, NewPhaseType
  <2> QED BY <2>1 DEF NewPhase
<1> HIDE DEF new, m
<1>4. /\ Len(roadmap') = Len(roadmap) + 1 /\ Len(roadmap) \in Nat
      /\ DOMAIN roadmap = 1..Len(roadmap) /\ DOMAIN roadmap' = 1..(Len(roadmap) + 1)
      /\ \A i \in 1..Len(roadmap) : roadmap'[i] = roadmap[i]
      /\ roadmap'[Len(roadmap) + 1] = new
  BY <1>1, <1>2, <1>3
<1>5. \A i \in DOMAIN roadmap' : i \in DOMAIN roadmap \/ i = Len(roadmap) + 1
  BY <1>4
<1>6. \A i \in DOMAIN roadmap' : roadmap'[i].minor = 0
  BY <1>3, <1>4, <1>5 DEF Lists
<1>7. ToSet(roadmap') = ToSet(roadmap) \cup {new}
  <2>1. DOMAIN roadmap \subseteq DOMAIN roadmap' /\ Len(roadmap) + 1 \in DOMAIN roadmap'
    BY <1>4
  <2> QED BY <1>4, <1>5, <2>1 DEF ToSet
<1>8. ASSUME NEW n \in Numbers PROVE n < NumberOf(new)
  <2>1. PICK p \in ToSet(roadmap) : n = NumberOf(p)
    BY DEF Numbers
  <2>2. p.major \in Nat /\ p.minor = 0 /\ p.major < m
    <3>1. PICK i \in DOMAIN roadmap : p = roadmap[i]
      BY DEF ToSet
    <3>2. p \in Phase /\ p.minor = 0
      BY <1>1, <3>1 DEF Lists
    <3>3. p.major \in Majors(roadmap)
      BY DEF Majors
    <3> QED BY <1>1, <3>2, <3>3 DEF Phase
  <2>3. n = 100 * p.major /\ NumberOf(new) = 100 * m
    BY <1>1, <1>3, <2>1, <2>2 DEF NumberOf
  <2> QED BY <1>1, <2>2, <2>3
<1> QED BY <1>3, <1>6, <1>7, <1>8

\* Ticking a phase off keeps its number.
LEMMA TickKeeps ==
    ASSUME Inv, Lists, NEW i \in DOMAIN roadmap, roadmap' = [roadmap EXCEPT ![i].done = TRUE]
    PROVE  /\ \A k \in DOMAIN roadmap' : roadmap'[k].minor = 0
           /\ Numbers' = Numbers
           /\ \A from, n : n \in remainingFrom(roadmap', from) => n \in remainingFrom(roadmap, from)
<1>1. roadmap \in Seq(Phase)
  BY DEF Inv, TypeOK
<1>2. \A k \in DOMAIN roadmap : roadmap[k] \in Phase
  BY <1>1
<1>3. /\ DOMAIN roadmap' = DOMAIN roadmap
      /\ \A k \in DOMAIN roadmap : k # i => roadmap'[k] = roadmap[k]
      /\ roadmap'[i] = [roadmap[i] EXCEPT !.done = TRUE]
  BY <1>1
<1>4. /\ roadmap'[i].minor = roadmap[i].minor /\ roadmap'[i].major = roadmap[i].major
      /\ roadmap'[i].done = TRUE
  BY <1>2, <1>3 DEF Phase
<1>5. \A k \in DOMAIN roadmap : /\ NumberOf(roadmap'[k]) = NumberOf(roadmap[k])
                                /\ roadmap'[k].minor = roadmap[k].minor
                                /\ ~roadmap'[k].done => ~roadmap[k].done
  BY <1>3, <1>4 DEF NumberOf
<1>6. Numbers' = Numbers
  <2>1. \A n : n \in Numbers <=> \E k \in DOMAIN roadmap : n = NumberOf(roadmap[k])
    BY DEF Numbers, ToSet
  <2>2. \A n : n \in Numbers' <=> \E k \in DOMAIN roadmap' : n = NumberOf(roadmap'[k])
    BY DEF Numbers, ToSet
  <2>3. \A n : n \in Numbers' <=> n \in Numbers
    <3>1. DOMAIN roadmap' = DOMAIN roadmap
      BY <1>3
    <3>2. \A k \in DOMAIN roadmap : NumberOf(roadmap'[k]) = NumberOf(roadmap[k])
      BY <1>5
    <3>3. ASSUME NEW n, n \in Numbers' PROVE n \in Numbers
      <4>1. PICK k \in DOMAIN roadmap' : n = NumberOf(roadmap'[k])
        BY <2>2, <3>3
      <4>2. k \in DOMAIN roadmap /\ n = NumberOf(roadmap[k])
        BY <3>1, <3>2, <4>1
      <4> QED BY <2>1, <4>2
    <3>4. ASSUME NEW n, n \in Numbers PROVE n \in Numbers'
      <4>1. PICK k \in DOMAIN roadmap : n = NumberOf(roadmap[k])
        BY <2>1, <3>4
      <4>2. k \in DOMAIN roadmap' /\ n = NumberOf(roadmap'[k])
        BY <3>1, <3>2, <4>1
      <4> QED BY <2>2, <4>2
    <3> QED BY <3>3, <3>4
  <2> QED BY <2>3
<1>7. ASSUME NEW from, NEW n, n \in remainingFrom(roadmap', from)
      PROVE  n \in remainingFrom(roadmap, from)
  <2>1. PICK k \in DOMAIN roadmap' :
          n = NumberOf(roadmap'[k]) /\ ~roadmap'[k].done /\ NumberOf(roadmap'[k]) >= from
    BY <1>7 DEF remainingFrom, ToSet
  <2> QED BY <1>3, <1>5, <2>1 DEF remainingFrom, ToSet
<1> QED BY <1>3, <1>5, <1>6, <1>7 DEF Lists

\* What an edit opens is above everything on the roadmap.
LEMMA EditOpensAbove ==
    ASSUME Inv, Lists, IntegerPhases, EditRoadmap
    PROVE  /\ \A k \in DOMAIN roadmap' : roadmap'[k].minor = 0
           /\ Numbers \subseteq Numbers'
           /\ \A from, n : n \in remainingFrom(roadmap', from) =>
                 n \in remainingFrom(roadmap, from) \/ \A m \in Numbers : m < n
<1> DEFINE id == Len(InitialRoadmap) + count'.edits
<1>1. \/ roadmap' = addPhase(roadmap, id)
      \/ \E i \in DOMAIN roadmap : roadmap' = [roadmap EXCEPT ![i].done = TRUE]
  BY DEF EditRoadmap, IntegerPhases
<1>2. id \in Nat
  <2>1. TypeOK'
    BY EditRoadmapInv DEF Inv
  <2>2. count'.edits \in 0..MaxEdits /\ MaxEdits \in Nat
    BY <2>1, AutoAssumption DEF TypeOK, AutoAssumption
  <2> QED BY <2>2, AutoAssumption DEF AutoAssumption
<1> HIDE DEF id
<1>3. CASE roadmap' = addPhase(roadmap, id) /\ roadmap # <<>>
  <2>1. PICK new \in Phase : /\ ToSet(roadmap') = ToSet(roadmap) \cup {new}
                             /\ \A n \in Numbers : n < NumberOf(new)
    BY <1>2, <1>3, AddAbove
  <2>2. Numbers' = Numbers \cup {NumberOf(new)}
    BY <2>1 DEF Numbers
  <2>3. \A from, n : n \in remainingFrom(roadmap', from) =>
           n \in remainingFrom(roadmap, from) \/ n = NumberOf(new)
    BY <2>1 DEF remainingFrom
  <2>4. \A k \in DOMAIN roadmap' : roadmap'[k].minor = 0
    BY <1>2, <1>3, AddAbove
  <2> QED BY <2>1, <2>2, <2>3, <2>4
<1>4. CASE roadmap' = addPhase(roadmap, id) /\ roadmap = <<>>
  <2>1. roadmap' = roadmap
    BY <1>4 DEF addPhase
  <2> QED BY <2>1 DEF Lists, Numbers
<1>5. ASSUME NEW i \in DOMAIN roadmap, roadmap' = [roadmap EXCEPT ![i].done = TRUE]
      PROVE  /\ \A k \in DOMAIN roadmap' : roadmap'[k].minor = 0
             /\ Numbers \subseteq Numbers'
             /\ \A from, n : n \in remainingFrom(roadmap', from) => n \in remainingFrom(roadmap, from)
  BY <1>5, TickKeeps
<1> QED BY <1>1, <1>3, <1>4, <1>5

\* So it is above every list, and waits for the next replan.
LEMMA EditRoadmapLists ==
    ASSUME Inv, Lists, IntegerPhases, EditRoadmap
    PROVE  Lists'
<1>1. job' = job
  BY DEF EditRoadmap
<1>2. /\ \A k \in DOMAIN roadmap' : roadmap'[k].minor = 0
      /\ Numbers \subseteq Numbers'
      /\ \A from, n : n \in remainingFrom(roadmap', from) =>
            n \in remainingFrom(roadmap, from) \/ \A m \in Numbers : m < n
  BY EditOpensAbove
<1>3. ASSUME NEW s \in Sessions
      PROVE  /\ job[s].todo \cup job[s].tried \subseteq Numbers'
             /\ job[s].phase \in job[s].tried \cup {0}
             /\ job[s].pc \in before =>
                   job[s].completed = 0 /\ job[s].todo = {} /\ job[s].phase = 0
             /\ job[s].pc \in inPhase \cup {"phase"} => job[s].phase \in job[s].tried
             /\ job[s].pc \in Live \ before =>
                   \A n \in remainingFrom(roadmap', job[s].start) :
                      \/ n \in job[s].tried \cup job[s].todo
                      \/ \A m \in job[s].tried \cup job[s].todo : m < n
  <2>1. Listed(job[s])
    BY DEF Lists
  <2> QED BY <1>2, <2>1 DEF Listed
<1>4. (\A s \in Sessions : Listed(job[s]))'
  BY <1>1, <1>3 DEF Listed
<1>5. RoadmapIsFinished'
  BY <1>1 DEF Lists, RoadmapIsFinished
<1> QED BY <1>2, <1>4, <1>5 DEF Lists

\* The first state has no lists.
LEMMA InitLists == IntegerPhases /\ Init => Lists
<1> SUFFICES ASSUME IntegerPhases, Init PROVE Lists
  OBVIOUS
<1>1. \A i \in DOMAIN roadmap : roadmap[i].minor = 0
  BY DEF Init, IntegerPhases
<1>2. \A s \in Sessions : job[s] = NoJob
  BY DEF Init
<1>3. /\ NoJob.pc = "idle" /\ NoJob.todo = {} /\ NoJob.tried = {} /\ NoJob.phase = 0
      /\ NoJob.completed = 0
  BY DEF NoJob
<1>4. Listed(NoJob)
  BY <1>3 DEF Listed, inPhase, Live
<1>5. RoadmapIsFinished
  BY <1>2, <1>3 DEF RoadmapIsFinished
<1> QED BY <1>1, <1>2, <1>4, <1>5 DEF Lists

\* Every step keeps Lists.
LEMMA NextLists ==
    ASSUME IntegerPhases, Inv, Lists, [Next]_vars
    PROVE  Lists'
<1>1. ASSUME NEW s \in Sessions, Start(s) PROVE Lists'
  BY <1>1, StartLists
<1>2. ASSUME NEW s \in Sessions, SessionStep(s) PROVE Lists'
  <2>1. CASE InPhaseStep(s)
    BY <2>1, InPhaseLists
  <2>2. CASE Release(s)
    <3>1. Running(s)
      BY <2>2 DEF Release, Running, Live, PCs
    <3> QED BY <2>2, <3>1, GoneLists DEF Release, world
  <2> QED BY <1>2, <2>1, <2>2, StartLists, ReadRoadmapLists, EndPhaseLists
          DEF SessionStep, InPhaseStep
<1>3. ASSUME NEW s \in Sessions, Crash(s) PROVE Lists'
  <2>1. /\ Running(s) /\ roadmap' = roadmap
        /\ job' = [job EXCEPT ![s] = Gone("crashed", job[s])]
    BY <1>3 DEF Crash
  <2> QED BY <2>1, GoneLists
<1>4. CASE LateStepEnds
  BY <1>4 DEF LateStepEnds, Lists, Listed, Numbers, RoadmapIsFinished
<1>5. CASE EditRoadmap
  BY <1>5, EditRoadmapLists
<1>6. CASE UNCHANGED vars
  BY <1>6 DEF vars, Lists, Listed, Numbers, RoadmapIsFinished
<1> QED BY <1>1, <1>2, <1>3, <1>4, <1>5, <1>6 DEF Next

\* Lists holds of roadmaps of integer phases.
LEMMA ListsHold == IntegerPhases => (Spec => []Lists)
<1> SUFFICES ASSUME IntegerPhases PROVE Spec => []Lists
  OBVIOUS
<1>1. Inv /\ Lists /\ [Next]_vars => Lists'
  BY NextLists
<1>2. Init => Lists
  BY InitLists
<1> QED BY InvHolds, <1>1, <1>2, PTL DEF Spec

\* Without decimal phases, a run that was not aborted and failed nothing has
\* tried every phase that was open when it last read the roadmap, whoever edits
\* it meanwhile and however many sessions overlap (auto.skill.ts:500).
THEOREM RoadmapFinished == IntegerPhases => (Spec => []RoadmapIsFinished)
<1>1. Lists => RoadmapIsFinished
  BY DEF Lists
<1> QED BY ListsHold, <1>1, PTL

-----------------------------------------------------------------------------
(* What a resumed session takes over *)

\* What j has tried or will try holds all that the dead session d left open.
Covers(j, d) ==
    \A n \in job[d].todo : n \in remainingFrom(roadmap, 0) => n \in j.tried \cup j.todo

\* What Resumes says of one session.
Follows(s, j) ==
    \A d \in Sessions : (j.resumed = d /\ j.pc \in Live) =>
        /\ d # s /\ job[d].pc = "crashed"
        /\ j.pc \in before => \A n \in job[d].todo : j.start <= n
        /\ j.pc \notin before => Covers(j, d)

\* A session that follows a dead one.
LEMMA Following ==
    ASSUME Inv, Resumes, NEW s \in Sessions
    PROVE  Follows(s, job[s])
<1> SUFFICES ASSUME NEW d \in Sessions, job[s].resumed = d, job[s].pc \in Live
             PROVE  /\ d # s /\ job[d].pc = "crashed"
                    /\ job[s].pc \in before => \A n \in job[d].todo : job[s].start <= n
                    /\ job[s].pc \notin before => Covers(job[s], d)
  BY DEF Follows
<1>1. job[d].pc = "crashed"
      /\ (job[s].pc \in before => \A n \in job[d].todo : job[s].start <= n)
  BY DEF Resumes, Running
<1>2. d # s
  BY <1>1 DEF Live
<1>3. job[s].pc \notin before => Covers(job[s], d)
  <2>1. job[s].pc \notin before => job[s].pc \in Live \ {"acquire", "roadmap"}
    BY DEF before
  <2> QED BY <2>1 DEF Resumes, ResumeCoversTheInterrupted, Covers
<1> QED BY <1>1, <1>2, <1>3

\* The session that moves is the only one that goes on.
LEMMA OneResumes ==
    ASSUME Inv, Resumes, NEW s \in Sessions, \A t \in Sessions : t # s => ~Running(t),
           job[s].pc # "crashed", NEW k, job' = [job EXCEPT ![s] = k], roadmap' = roadmap,
           k.pc \in locked => Points(k, lock'),
           Follows(s, k),
           \/ /\ lock' = lock
              /\ (lock \in LockState /\ lock.pid = s /\ k.pc = "crashed") =>
                    \A n \in k.todo : lock.phase <= n
           \/ lock' \in LockState /\ lock'.pid = s /\ k.pc # "crashed"
           \/ lock' \in {NoLock, Torn}
    PROVE  Resumes'
<1>1. /\ job'[s] = k /\ \A t \in Sessions : t # s => job'[t] = job[t]
      /\ \A t \in Sessions : t # s => job[t].pc \notin Live
  BY DEF Inv, TypeOK, Running
<1>2. \A t \in Sessions : job'[t].pc \in locked => Points(job'[t], lock')
  BY <1>1 DEF locked
<1>3. (lock' \in LockState /\ job'[lock'.pid].pc = "crashed") =>
         \A n \in job'[lock'.pid].todo : lock'.phase <= n
  <2>1. CASE lock' = lock
    <3>1. lock \in LockState => lock.pid \in Sessions
      BY DEF LockState
    <3>2. CASE lock \in LockState /\ lock.pid = s
      BY <1>1, <2>1, <3>2, LockAssumption DEF LockAssumption
    <3>3. CASE lock \in LockState /\ lock.pid # s
      BY <1>1, <2>1, <3>1, <3>3 DEF Resumes
    <3> QED BY <2>1, <3>2, <3>3
  <2>2. CASE lock' \in LockState /\ lock'.pid = s /\ k.pc # "crashed"
    BY <1>1, <2>2
  <2>3. CASE lock' \in {NoLock, Torn}
    BY <2>3, LockAssumption DEF LockAssumption
  <2> QED BY <2>1, <2>2, <2>3
<1>4. ASSUME NEW t \in Sessions, NEW d \in Sessions, job'[t].resumed = d, job'[t].pc \in Live
      PROVE  /\ job'[d].pc = "crashed"
             /\ job'[t].pc \in before => \A n \in job'[d].todo : job'[t].start <= n
             /\ job'[t].pc \notin before =>
                   \A n \in job'[d].todo :
                      n \in remainingFrom(roadmap', 0) => n \in job'[t].tried \cup job'[t].todo
  <2>1. t = s
    BY <1>1, <1>4
  <2>2. /\ d # s /\ job[d].pc = "crashed"
        /\ k.pc \in before => \A n \in job[d].todo : k.start <= n
        /\ k.pc \notin before => Covers(k, d)
    BY <1>1, <1>4, <2>1 DEF Follows
  <2> QED BY <1>1, <2>1, <2>2 DEF Covers
<1>5. \A t, d \in Sessions : (job'[t].resumed = d /\ job'[t].pc \in Live) =>
         /\ job'[d].pc = "crashed"
         /\ job'[t].pc \in before => \A n \in job'[d].todo : job'[t].start <= n
  BY <1>4
<1>6. ResumeCoversTheInterrupted'
  <2> SUFFICES ASSUME NEW t \in Sessions, NEW d \in Sessions, job'[t].resumed = d,
                      job'[t].pc \in Live \ {"acquire", "roadmap"}, NEW n \in job'[d].todo,
                      n \in remainingFrom(roadmap', 0)
               PROVE  n \in job'[t].tried \cup job'[t].todo
    BY DEF ResumeCoversTheInterrupted
  <2>1. job'[t].pc \in Live /\ job'[t].pc \notin before
    BY DEF before, Live
  <2> QED BY <1>4, <2>1
<1> QED BY <1>2, <1>3, <1>5, <1>6 DEF Resumes, Running

\* A session that starts after a crash goes on where the lock points.
LEMMA StartResumes ==
    ASSUME ~Overlap, Inv, Alone, Resumes, NEW s \in Sessions, Start(s)
    PROVE  Resumes'
<1>1. /\ job[s].pc = "idle" /\ \A t \in Sessions : ~Running(t)
      /\ lock' = NoLock \/ lock' = lock
      /\ roadmap' = roadmap /\ job[s] \in Job
  BY DEF Start, world, Inv, TypeOK
<1>2. PICK a, b :
        /\ job' = [job EXCEPT ![s] = [job[s] EXCEPT !.pc = "acquire", !.start = a, !.resumed = b]]
        /\ \/ b = None
           \/ /\ _readLock # NoLock /\ b = _readLock.pid /\ a = _readLock.phase
              /\ ~Running(b)
  BY StartFinds
<1> DEFINE k == [job[s] EXCEPT !.pc = "acquire", !.start = a, !.resumed = b]
<1>3. k.pc = "acquire" /\ k.start = a /\ k.resumed = b
  BY <1>1 DEF Job
<1>4. job' = [job EXCEPT ![s] = k]
  BY <1>2
<1> HIDE DEF k
<1>5. Follows(s, k)
  <2> SUFFICES ASSUME NEW d \in Sessions, b = d
               PROVE  d # s /\ job[d].pc = "crashed" /\ \A n \in job[d].todo : a <= n
    BY <1>3 DEF Follows, before
  <2>1. /\ _readLock # NoLock /\ d = _readLock.pid /\ a = _readLock.phase /\ ~Running(d)
    BY <1>2, AutoAssumption DEF AutoAssumption
  <2>2. lock \in LockState /\ _readLock = lock
    BY <2>1 DEF _readLock, Inv, TypeOK
  <2>3. job[d].pc = "crashed"
    BY <2>1, <2>2 DEF Alone, Left, Running
  <2>4. d # s
    BY <1>1, <2>3
  <2> QED BY <2>1, <2>2, <2>3, <2>4 DEF Resumes
<1>6. k.pc \notin locked /\ k.pc # "crashed"
  BY <1>3 DEF locked
<1> QED BY <1>1, <1>3, <1>4, <1>5, <1>6, OneResumes

\* It writes the phase it starts from to the lock, and has nothing to do before it.
LEMMA AcquireResumes ==
    ASSUME Inv, Alone, Lists, Resumes, NEW s \in Sessions, Acquire(s)
    PROVE  Resumes'
<1> DEFINE k == [job[s] EXCEPT !.pc = "roadmap"]
<1>1. /\ job[s].pc = "acquire" /\ job' = [job EXCEPT ![s] = k] /\ roadmap' = roadmap
      /\ lock' = [pid |-> s, phase |-> job[s].start, step |-> "init", history |-> <<>>]
  BY DEF Acquire, Go, world
<1>2. Running(s) /\ job[s].pc \in before /\ job[s].pc \in Live
  BY <1>1 DEF Running, Live, PCs, before
<1>3. job[s] \in Job /\ \A t \in Sessions : t # s => ~Running(t)
  BY <1>2, RunsAlone
<1>4. job[s].todo = {} /\ job[s].phase = 0
  BY <1>2 DEF Lists, Listed
<1>5. /\ k.pc = "roadmap" /\ k.start = job[s].start /\ k.resumed = job[s].resumed
      /\ k.todo = {} /\ k.phase = 0
  BY <1>3, <1>4 DEF Job
<1> HIDE DEF k
<1>6. lock'.pid = s /\ lock'.phase = job[s].start /\ job[s].start \in Nat
  BY <1>1, <1>3 DEF Job
<1>7. Points(k, lock')
  BY <1>5, <1>6 DEF Points, inPhase
<1>8. Follows(s, k)
  <2>1. Follows(s, job[s])
    BY Following
  <2> QED BY <1>2, <1>5, <2>1 DEF Follows, before
<1>9. lock' \in LockState
  <2>1. <<>> \in History
    BY EmptyHistory
  <2> QED BY <1>1, <1>6, <2>1 DEF LockState
<1> QED BY <1>1, <1>3, <1>5, <1>6, <1>7, <1>8, <1>9, OneResumes

\* What is open from the interrupted phase on holds what was left behind.
LEMMA ReadRoadmapResumes ==
    ASSUME Inv, Alone, Lists, Resumes, NEW s \in Sessions, ReadRoadmap(s)
    PROVE  Resumes'
<1> DEFINE todo == remainingFrom(roadmap, job[s].start)
           n == NextPhase(job[s], todo)
           k == [n EXCEPT !.seen = todo]
<1>1. job[s].pc = "roadmap" /\ job' = [job EXCEPT ![s] = k] /\ roadmap' = roadmap /\ lock' = lock
  BY DEF ReadRoadmap, world
<1>2. job[s].pc \in locked /\ job[s].pc \in before /\ Running(s)
  BY <1>1 DEF locked, Live, PCs, before, Running
<1>3. /\ job[s] \in Job /\ job[s].start \in Nat /\ roadmap \in Seq(Phase)
      /\ lock \in LockState /\ lock.phase \in Nat
      /\ \A t \in Sessions : t # s => ~Running(t)
  <2>1. job[s] \in Job /\ lock \in LockState /\ \A t \in Sessions : t # s => ~Running(t)
    BY <1>2, RunsAlone
  <2> QED BY <2>1 DEF Inv, TypeOK, Job, LockState
<1>4. todo \in SUBSET Nat /\ \A m \in todo : job[s].start <= m
  <2>1. todo \in SUBSET Nat /\ \A m \in todo : m >= job[s].start
    BY <1>3, RemainingType
  <2> QED BY <1>3, <2>1
<1>5. \A m : m \in remainingFrom(roadmap, 0) /\ m >= job[s].start => m \in todo
  BY OpenIsNumbered
<1> HIDE DEF todo
<1>6. n \in Job /\ GoesOn(job[s], n, todo)
  BY <1>3, <1>4, NextPhaseTakes, NextPhaseGoesOn
<1> HIDE DEF n
<1>7. /\ k.pc = n.pc /\ k.todo = n.todo /\ k.tried = n.tried
      /\ k.phase = n.phase /\ k.resumed = n.resumed
  BY <1>6 DEF Job
<1> HIDE DEF k
<1>8. job[s].phase = 0 /\ lock.phase <= job[s].start
  BY <1>1, <1>2 DEF Lists, Listed, Resumes, Points
<1>9. ASSUME NEW m \in todo PROVE lock.phase <= m /\ m \in Nat
  <2>1. m \in Nat /\ job[s].start <= m /\ lock.phase <= job[s].start
    BY <1>4, <1>8
  <2> QED BY <1>3, <2>1
<1>10. /\ k.pc \in {"step", "release"} /\ k.todo \subseteq todo /\ todo \subseteq k.tried \cup k.todo
       /\ k.phase \in todo \/ (k.pc = "release" /\ k.phase = 0)
       /\ k.resumed = job[s].resumed
  BY <1>6, <1>7, <1>8 DEF GoesOn, Takes
<1>11. Points(k, lock')
  BY <1>1, <1>9, <1>10 DEF Points, inPhase
<1>12. Follows(s, k)
  <2> SUFFICES ASSUME NEW d \in Sessions, k.resumed = d
               PROVE  d # s /\ job[d].pc = "crashed" /\ Covers(k, d)
    BY <1>10 DEF Follows, before
  <2>1. d # s /\ job[d].pc = "crashed" /\ \A m \in job[d].todo : job[s].start <= m
    <3>1. Follows(s, job[s])
      BY Following
    <3> QED BY <1>2, <1>10, <3>1 DEF Follows, locked
  <2>2. \A m \in job[d].todo : m >= job[s].start
    <3>1. job[d].todo \in SUBSET Nat
      BY DEF Inv, TypeOK, Job
    <3> QED BY <1>3, <2>1, <3>1
  <2>3. Covers(k, d)
    BY <1>5, <1>10, <2>2 DEF Covers
  <2> QED BY <2>1, <2>3
<1>13. job[s].pc # "crashed" /\ k.pc # "crashed"
  BY <1>1, <1>10
<1> QED BY <1>1, <1>3, <1>11, <1>12, <1>13, OneResumes

\* Inside a phase the lock is kept, or points at the phase.
LEMMA InPhaseLock ==
    ASSUME Inv, Alone, NEW s \in Sessions, InPhaseStep(s)
    PROVE  \/ lock' = lock
           \/ lock' \in LockState /\ lock'.pid = s /\ lock'.phase = job[s].phase
<1>1. CASE EnterStep(s)
  <2>1. /\ job[s].pc = "step" /\ job[s].step <= Len(PIPELINE_STEPS) /\ lock' = updateStep(s)
    BY <1>1 DEF EnterStep
  <2>2. job[s].pc \in locked /\ job[s].pc \in inPhase /\ Running(s)
    BY <2>1 DEF locked, Live, PCs, inPhase, Running
  <2>3. lock \in LockState /\ lock.pid = s /\ _readLock = lock
    BY <2>2, RunsAlone
  <2>4. lock' \in LockState
    BY <2>1, <2>2, InsidePhase, UpdateStepType
  <2>5. lock' = [lock EXCEPT !.phase = job[s].phase, !.step = StepOf(job[s])]
    BY <2>1, <2>3, LockAssumption DEF updateStep, LockAssumption
  <2>6. lock'.pid = s /\ lock'.phase = job[s].phase
    BY <2>3, <2>5 DEF LockState
  <2> QED BY <2>4, <2>6
<1>2. CASE RecordStep(s) \/ RecordRetry(s)
  <2>1. job[s].pc \in {"record", "rerecord"} /\ lock' = recordInvocation(s)
    BY <1>2 DEF RecordStep, RecordRetry
  <2> QED BY <2>1, RecordsOnTop
<1>3. CASE ~(EnterStep(s) \/ RecordStep(s) \/ RecordRetry(s))
  BY <1>3 DEF InPhaseStep, SkipStep, AbortBeforeStep, Dispatch, StepEnds, StepTimesOut,
              StepThrows, Judge, Retry, SkipPhase, Abort
<1> QED BY <1>1, <1>2, <1>3

\* A step inside a phase.
LEMMA InPhaseResumes ==
    ASSUME Inv, Alone, Resumes, NEW s \in Sessions, InPhaseStep(s)
    PROVE  Resumes'
<1>1. PICK k : job' = [job EXCEPT ![s] = k] /\ Stays(job[s], k) /\ roadmap' = roadmap
  BY InPhaseStays
<1>2. job[s].pc \in locked /\ job[s].pc \in inPhase /\ job[s].pc \notin before /\ Running(s)
  BY <1>1 DEF Stays, inPhase, locked, Live, PCs, before, Running
<1>3. /\ job[s].phase \in Nat /\ \A n \in job[s].todo : job[s].phase < n /\ n \in Nat
      /\ \A t \in Sessions : t # s => ~Running(t)
  <2>1. job[s] \in Job /\ JobInv(job[s]) /\ \A t \in Sessions : t # s => ~Running(t)
    BY <1>2, RunsAlone DEF Inv
  <2> QED BY <1>2, <2>1 DEF Job, JobInv, Ordered
<1>4. k.pc \in inPhase \cup {"phase", "release"} /\ SameList(job[s], k)
  BY <1>1 DEF Stays
<1>5. k.pc \notin before /\ k.pc # "crashed"
  BY <1>4 DEF inPhase, before
<1>6. Points(k, lock')
  <2>1. CASE lock' = lock
    <3>1. Points(job[s], lock)
      BY <1>2 DEF Resumes
    <3> QED BY <1>2, <1>4, <1>5, <2>1, <3>1 DEF Points, SameList, before
  <2>2. CASE lock'.phase = job[s].phase
    <3>1. job[s].phase <= job[s].phase /\ \A n \in job[s].todo : job[s].phase <= n
      BY <1>3
    <3> QED BY <1>4, <1>5, <2>2, <3>1 DEF Points, SameList, before
  <2> QED BY <2>1, <2>2, InPhaseLock
<1>7. Follows(s, k)
  <2>1. Follows(s, job[s]) /\ job[s].pc \in Live
    BY <1>2, Following DEF locked
  <2> QED BY <1>2, <1>4, <1>5, <2>1 DEF Follows, Covers, SameList
<1>8. job[s].pc # "crashed"
  BY <1>2 DEF inPhase
<1> QED BY <1>1, <1>3, <1>5, <1>6, <1>7, <1>8, InPhaseLock, OneResumes

\* A replan keeps what is open behind the phase.
LEMMA EndPhaseResumes ==
    ASSUME Inv, Alone, Lists, Resumes, NEW s \in Sessions, EndPhase(s)
    PROVE  Resumes'
<1> DEFINE j == job[s]
<1>1. PICK k \in Job : job' = [job EXCEPT ![s] = k] /\ Ends(j, k)
  BY EndPhaseEnds
<1>2. roadmap' = roadmap /\ lock' = lock /\ j.pc \in {"phase", "step"}
  BY DEF EndPhase, world
<1>3. j.pc \in locked /\ j.pc \notin before /\ j.pc \in inPhase \cup {"phase"} /\ Running(s)
  BY <1>2 DEF locked, Live, PCs, before, inPhase, Running
<1>4. /\ j \in Job /\ lock \in LockState /\ \A t \in Sessions : t # s => ~Running(t)
  BY <1>3, RunsAlone
<1>5. Points(j, lock) /\ Follows(s, j) /\ j.pc \in Live /\ j.pc # "crashed"
  BY <1>2, <1>3, Following DEF Resumes, locked
<1>6. /\ j.phase \in Nat /\ j.todo \in SUBSET Nat /\ lock.phase \in Nat
      /\ JobInv(j) /\ Listed(j)
  BY <1>4 DEF Inv, Lists, Job, LockState
<1> HIDE DEF j
<1>7. /\ j.phase \in Numbers /\ j.todo \subseteq Numbers /\ \A n \in j.todo : j.phase < n
      /\ lock.phase <= j.phase /\ \A n \in j.todo : lock.phase <= n
  BY <1>3, <1>5, <1>6 DEF Listed, JobInv, Ordered, Points
<1>8. CASE j.aborted
  <2>1. k.pc = "release" /\ SameList(j, k)
    BY <1>1, <1>4, <1>8 DEF Ends, Job, SameList
  <2>2. k.pc \notin before /\ k.pc \notin inPhase \cup {"phase"}
    BY <2>1 DEF before, inPhase
  <2>3. Points(k, lock')
    BY <1>2, <1>5, <2>1, <2>2 DEF Points, SameList, before
  <2>4. Follows(s, k)
    BY <1>3, <1>5, <2>1, <2>2 DEF Follows, Covers, SameList
  <2> QED BY <1>1, <1>2, <1>4, <1>5, <2>1, <2>3, <2>4, OneResumes DEF j
<1>9. ASSUME NEW todo \in SUBSET Nat, GoesOn(j, k, todo), \A n \in todo : lock.phase <= n,
             \A n \in j.todo : n \in remainingFrom(roadmap, 0) => n \in todo
      PROVE  Resumes'
  <2>1. /\ k.pc \in {"step", "release"} /\ k.todo \subseteq todo
        /\ k.tried \cup k.todo = j.tried \cup todo
        /\ k.phase \in todo \/ (k.pc = "release" /\ k.phase = j.phase)
        /\ k.resumed = j.resumed
    BY <1>9 DEF GoesOn, Takes
  <2>2. k.pc \notin before /\ (k.pc \in inPhase \cup {"phase"} => k.pc = "step")
    BY <2>1 DEF before, inPhase
  <2>3. Points(k, lock')
    BY <1>2, <1>7, <1>9, <2>1, <2>2 DEF Points, before
  <2>4. Follows(s, k)
    <3> SUFFICES ASSUME NEW d \in Sessions, k.resumed = d
                 PROVE  d # s /\ job[d].pc = "crashed" /\ Covers(k, d)
      BY <2>2 DEF Follows
    <3>1. d # s /\ job[d].pc = "crashed" /\ Covers(j, d)
      BY <1>3, <1>5, <2>1 DEF Follows
    <3>2. Covers(k, d)
      BY <1>9, <2>1, <3>1 DEF Covers
    <3> QED BY <3>1, <3>2
  <2>5. k.pc # "crashed"
    BY <2>1
  <2> QED BY <1>1, <1>2, <1>4, <1>5, <2>3, <2>4, <2>5, OneResumes DEF j
<1>10. CASE ~j.aborted /\ j.phaseFailed
  <2>1. GoesOn(j, k, j.todo)
    BY <1>1, <1>10 DEF Ends
  <2> QED BY <1>6, <1>7, <1>9, <2>1
<1>11. CASE ~j.aborted /\ ~j.phaseFailed
  <2> DEFINE fresh == remainingFrom(roadmap, j.phase + 100)
             todo == replan(j)
  <2>1. GoesOn(j, k, todo)
    BY <1>1, <1>11 DEF Ends
  <2>2. todo = fresh \/ todo = j.todo
    BY DEF replan
  <2>3. fresh \in SUBSET Nat /\ \A n \in fresh : n >= j.phase + 100
    <3>1. roadmap \in Seq(Phase) /\ j.phase + 100 \in Nat
      BY <1>6 DEF Inv, TypeOK
    <3> QED BY <3>1, RemainingType
  <2>4. \A n \in j.todo : n \in remainingFrom(roadmap, 0) => n \in fresh
    <3> SUFFICES ASSUME NEW n \in j.todo, n \in remainingFrom(roadmap, 0) PROVE n \in fresh
      OBVIOUS
    <3>1. n >= j.phase + 100
      BY <1>7, Hundreds
    <3> QED BY <3>1, OpenIsNumbered
  <2> HIDE DEF fresh, todo
  <2>5. \A n \in fresh : lock.phase <= n
    BY <1>6, <1>7, <2>3
  <2>6. todo \in SUBSET Nat /\ \A n \in todo : lock.phase <= n
    BY <1>6, <1>7, <2>2, <2>3, <2>5
  <2>7. \A n \in j.todo : n \in remainingFrom(roadmap, 0) => n \in todo
    BY <2>2, <2>4
  <2> QED BY <1>9, <2>1, <2>6, <2>7
<1>12. j.aborted \in BOOLEAN /\ j.phaseFailed \in BOOLEAN
  BY <1>4 DEF Job
<1> QED BY <1>8, <1>10, <1>11, <1>12

\* What a session leaves behind when it dies is at or after what its lock says.
LEMMA CrashResumes ==
    ASSUME Inv, Alone, Lists, Resumes, NEW s \in Sessions, Crash(s)
    PROVE  Resumes'
<1> DEFINE left == job[s].todo \cup ({job[s].phase} \ (job[s].finished \cup {0}))
           k == Gone("crashed", job[s])
<1>1. /\ Running(s) /\ roadmap' = roadmap /\ (lock' = lock \/ lock' = Torn)
      /\ job' = [job EXCEPT ![s] = k]
  BY DEF Crash
<1>2. k.pc = "crashed" /\ k.todo = left
  BY DEF Gone, NoJob
<1> HIDE DEF k
<1>3. /\ job[s].pc # "crashed" /\ \A t \in Sessions : t # s => ~Running(t)
  BY <1>1, RunsAlone DEF Running, Live
<1>4. \A n \in left : lock.phase <= n
  <2>1. CASE job[s].pc \in before
    BY <2>1 DEF Lists, Listed
  <2>2. CASE job[s].pc \in locked
    BY <2>2 DEF Resumes, Points
  <2> QED BY <1>1, <2>1, <2>2 DEF Running, locked, before
<1>5. Follows(s, k) /\ k.pc \notin locked
  BY <1>2 DEF Follows, Live, locked
<1> QED BY <1>1, <1>2, <1>3, <1>4, <1>5, OneResumes

\* The end of a session.
LEMMA ReleaseResumes ==
    ASSUME Inv, Alone, Resumes, NEW s \in Sessions, Release(s)
    PROVE  Resumes'
<1> DEFINE k == Gone("done", NoJob)
<1>1. /\ job[s].pc = "release" /\ roadmap' = roadmap /\ lock' = NoLock
      /\ job' = [job EXCEPT ![s] = k]
  BY DEF Release, world
<1>2. k.pc = "done"
  BY DEF Gone, NoJob
<1> HIDE DEF k
<1>3. Running(s) /\ job[s].pc # "crashed"
  BY <1>1 DEF Running, Live, PCs
<1>4. \A t \in Sessions : t # s => ~Running(t)
  BY <1>3, RunsAlone
<1>5. Follows(s, k) /\ k.pc \notin locked
  BY <1>2 DEF Follows, Live, locked
<1> QED BY <1>1, <1>3, <1>4, <1>5, OneResumes

\* What an edit opens was on nobody's list.
LEMMA EditRoadmapResumes ==
    ASSUME Inv, Lists, IntegerPhases, Resumes, EditRoadmap
    PROVE  Resumes'
<1>1. UNCHANGED <<job, lock>>
  BY DEF EditRoadmap
<1>2. \A n : n \in remainingFrom(roadmap', 0) =>
         n \in remainingFrom(roadmap, 0) \/ \A m \in Numbers : m < n
  BY EditOpensAbove
<1>3. \A d \in Sessions : \A n \in job[d].todo : n \in Numbers /\ n \in Nat
  <2>1. \A d \in Sessions : job[d].todo \subseteq Numbers /\ job[d].todo \in SUBSET Nat
    BY DEF Lists, Listed, Inv, TypeOK, Job
  <2> QED BY <2>1
<1>4. \A d \in Sessions : \A n \in job[d].todo :
         n \in remainingFrom(roadmap', 0) => n \in remainingFrom(roadmap, 0)
  <2> SUFFICES ASSUME NEW d \in Sessions, NEW n \in job[d].todo, \A m \in Numbers : m < n
               PROVE  FALSE
    BY <1>2
  <2>1. n < n /\ n \in Nat
    BY <1>3
  <2> QED BY <2>1
<1>5. ResumeCoversTheInterrupted'
  BY <1>1, <1>4 DEF Resumes, ResumeCoversTheInterrupted
<1> QED BY <1>1, <1>5 DEF Resumes, Points, Running

\* The first state.
LEMMA InitResumes == Init => Resumes
<1> SUFFICES ASSUME Init PROVE Resumes
  OBVIOUS
<1>1. \A s \in Sessions : job[s].pc = "idle"
  BY DEF Init, NoJob
<1>2. lock \notin LockState
  BY LockAssumption DEF Init, LockAssumption
<1> QED BY <1>1, <1>2 DEF Resumes, ResumeCoversTheInterrupted, Running, Live, locked

\* Every step keeps Resumes.
LEMMA NextResumes ==
    ASSUME ~Overlap, IntegerPhases, Inv, Alone, Lists, Resumes, [Next]_vars
    PROVE  Resumes'
<1>1. ASSUME NEW s \in Sessions, Start(s) PROVE Resumes'
  BY <1>1, StartResumes
<1>2. ASSUME NEW s \in Sessions, SessionStep(s) PROVE Resumes'
  <2>1. CASE InPhaseStep(s)
    BY <2>1, InPhaseResumes
  <2> QED BY <1>2, <2>1, AcquireResumes, ReadRoadmapResumes, EndPhaseResumes, ReleaseResumes
          DEF SessionStep, InPhaseStep
<1>3. ASSUME NEW s \in Sessions, Crash(s) PROVE Resumes'
  BY <1>3, CrashResumes
<1>4. CASE LateStepEnds \/ UNCHANGED vars
  <2>1. UNCHANGED <<job, lock, roadmap>>
    BY <1>4 DEF LateStepEnds, vars
  <2>2. ResumeCoversTheInterrupted'
    BY <2>1 DEF Resumes, ResumeCoversTheInterrupted
  <2> QED BY <2>1, <2>2 DEF Resumes, Points, Running
<1>5. CASE EditRoadmap
  BY <1>5, EditRoadmapResumes
<1> QED BY <1>1, <1>2, <1>3, <1>4, <1>5 DEF Next

\* One session at a time and without decimal phases, a session that resumes a
\* dead one tries, or still has on its list, every open phase the dead one had
\* not come to the end of (auto.skill.ts, the lock of a crashed run): what is
\* added, ticked off, failed or replanned in between does not lose one.
THEOREM ResumeCovers ==
    ~Overlap /\ IntegerPhases => (Spec => []ResumeCoversTheInterrupted)
<1> SUFFICES ASSUME ~Overlap, IntegerPhases PROVE Spec => []ResumeCoversTheInterrupted
  OBVIOUS
<1>1. Inv /\ Alone /\ Lists /\ Resumes /\ [Next]_vars => Resumes'
  BY NextResumes
<1>2. Resumes => ResumeCoversTheInterrupted
  BY DEF Resumes
<1>3. Spec => []Alone
  BY AloneHolds
<1>4. Spec => []Lists
  BY ListsHold
<1> QED BY InvHolds, InitResumes, <1>1, <1>2, <1>3, <1>4, PTL DEF Spec

=============================================================================
