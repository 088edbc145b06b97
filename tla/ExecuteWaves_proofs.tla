------------------------- MODULE ExecuteWaves_proofs -------------------------
(***************************************************************************)
(* Theorems about ExecuteWaves, for any plans and waves, whatever git log  *)
(* lists, and any number of commits, runs and crashes.                     *)
(*                                                                         *)
(* The invariant Inv says where a run stands: which waves have landed on   *)
(* the branch, which plans have a worktree of this run and which list      *)
(* remembers it for the cleanup, how every agent of an earlier, the        *)
(* current and a later wave is doing, and what the totals count so far.    *)
(***************************************************************************)
EXTENDS ExecuteWaves, Extrema, FiniteSetTheorems

-----------------------------------------------------------------------------
(* The invariant *)

\* Inside a wave, before its commits are picked, and while they are.
unpicked == {"checkpoint", "create", "agents"}
picked == {"pick", "picking", "failures"}
inWave == unpicked \cup picked

Distinct(s) == \A i, j \in DOMAIN s : s[i] = s[j] => i = j

\* This run's worktree of a plan.
Own(p) == \E w \in worktrees : w.plan = p /\ w.run = run.n

\* The branch and the worktrees come from this run and earlier ones.
Past ==
    /\ \A v, w \in worktrees : v.plan = w.plan => v = w
    /\ \A w \in worktrees : w.run <= run.n /\ w.fork <= Len(main)
    /\ \A i \in DOMAIN main : main[i].run <= run.n
    /\ run.pc = "idle" => worktrees = {}

\* What this run has landed: agents that succeeded, up to the current wave.
Landed ==
    /\ Distinct(main)
    /\ \A i \in DOMAIN main : main[i].run = run.n =>
          /\ agent[main[i].plan] = "ok"
          /\ waveOf(main[i].plan) <= run.wave
          /\ run.pc \in unpicked => waveOf(main[i].plan) < run.wave
    /\ \A i, j \in DOMAIN main :
          (i < j /\ main[i].run = main[j].run) => waveOf(main[i].plan) <= waveOf(main[j].plan)

Forked ==
    \A w \in worktrees : w.run = run.n =>
        /\ waveOf(w.plan) <= run.wave
        /\ \A i \in DOMAIN main : main[i].run = run.n =>
              (i <= w.fork <=> waveOf(main[i].plan) < waveOf(w.plan))

\* The manager knows every worktree of the run until the cleanup is over.
Managed ==
    \A w \in worktrees : w.run = run.n =>
        /\ run.pc # "ended" => w.plan \in ToSet(run.managed) \cup run.kept
        /\ (run.pc = "ended" /\ run.outcome # "crashed") => w.plan \in run.kept

\* What is still to do in the wave, and what it may be done with.
Todo ==
    /\ run.pc \in {"checkpoint", "create"} => \A p \in ToSet(run.todo) : waveOf(p) = run.wave
    /\ run.pc \in {"pick", "picking"} =>
          \A p \in ToSet(run.todo) : waveOf(p) = run.wave /\ agent[p] = "ok"
    /\ run.pc \in {"checkpoint", "pick", "picking"} => Distinct(run.todo)
    /\ run.pc = "picking" =>
          /\ run.todo # <<>>
          /\ \A c \in ToSet(run.picks) : onMain(c) \/ (c.run = run.n /\ c.plan = Head(run.todo))

\* Every plan of the wave has its worktree before an agent starts.
Housed ==
    /\ run.pc = "create" => \A p \in plansOf(run.wave) : p \in ToSet(run.todo) \/ Own(p)
    /\ run.pc \in {"agents", "pick", "picking"} => \A p \in plansOf(run.wave) : Own(p)

\* How the agents of earlier waves, of this one and of later ones are doing.
Agents ==
    /\ \A p \in Plans : agent[p] = "running" => run.pc = "agents" /\ waveOf(p) = run.wave
    /\ run.pc \in inWave => \A p \in Plans :
          /\ waveOf(p) < run.wave => agent[p] \in {"ok", "failed"}
          /\ waveOf(p) > run.wave => agent[p] = "none"
          /\ waveOf(p) = run.wave => (agent[p] = "none" <=> run.pc \in {"checkpoint", "create"})

\* The plans the totals have counted: picked or given up on, failed, skipped.
okCounted ==
    {p \in Plans : /\ agent[p] = "ok"
                   /\ run.pc = "agents" => waveOf(p) < run.wave
                   /\ run.pc \in {"pick", "picking"} => p \notin ToSet(run.todo)}
failedCounted == {p \in Plans : agent[p] = "failed" /\ waveOf(p) < run.wave}

Counts ==
    /\ run.pc \in inWave =>
          /\ ~run.aborted
          /\ run.outcome = "none"
          /\ run.completed = Cardinality(okCounted)
          /\ run.failed = Cardinality(failedCounted) + Cardinality(run.skipped)
          /\ \A p \in run.skipped :
                /\ waveOf(p) <= run.wave
                /\ run.pc = "checkpoint" => p \notin ToSet(run.todo)
    /\ TotalsCountSkippedTwice

Inv ==
    /\ TypeOK
    /\ Past /\ Landed /\ Forked /\ Managed
    /\ Todo /\ Housed /\ Agents /\ Counts

-----------------------------------------------------------------------------
(* Sequences *)

\* What the elements of a longer sequence are.
LEMMA AppendElements ==
    ASSUME NEW S, NEW s \in Seq(S), NEW e \in S
    PROVE  /\ Append(s, e) \in Seq(S)
           /\ ToSet(Append(s, e)) = ToSet(s) \cup {e}
           /\ (Distinct(s) /\ e \notin ToSet(s)) => Distinct(Append(s, e))
<1> DEFINE t == Append(s, e)
<1>1. /\ t \in Seq(S) /\ Len(t) = Len(s) + 1 /\ Len(s) \in Nat
      /\ DOMAIN t = 1..(Len(s) + 1) /\ DOMAIN s = 1..Len(s)
      /\ \A i \in 1..Len(s) : t[i] = s[i]
      /\ t[Len(s) + 1] = e
  OBVIOUS
<1> HIDE DEF t
<1>2. ToSet(t) = ToSet(s) \cup {e}
  <2>1. \A i \in DOMAIN t : i \in DOMAIN s \/ i = Len(s) + 1
    BY <1>1
  <2>2. ToSet(t) \subseteq ToSet(s) \cup {e}
    BY <1>1, <2>1 DEF ToSet
  <2>3. \A i \in DOMAIN s : i \in DOMAIN t
    BY <1>1
  <2>4. Len(s) + 1 \in DOMAIN t
    BY <1>1
  <2>5. ToSet(s) \cup {e} \subseteq ToSet(t)
    BY <1>1, <2>3, <2>4 DEF ToSet
  <2> QED BY <2>2, <2>5
<1>3. ASSUME Distinct(s), e \notin ToSet(s) PROVE Distinct(t)
  <2>1. \A i \in DOMAIN s : s[i] # e
    BY <1>3 DEF ToSet
  <2> QED BY <1>1, <1>3, <2>1 DEF Distinct
<1> QED BY <1>1, <1>2, <1>3 DEF t

\* What the elements of a sequence are without its head.
LEMMA TailElements ==
    ASSUME NEW S, NEW s \in Seq(S), s # <<>>
    PROVE  /\ Tail(s) \in Seq(S) /\ Head(s) \in S
           /\ ToSet(s) = ToSet(Tail(s)) \cup {Head(s)}
           /\ Distinct(s) => Distinct(Tail(s)) /\ Head(s) \notin ToSet(Tail(s))
<1> DEFINE t == Tail(s)
<1>1. /\ t \in Seq(S) /\ Head(s) \in S /\ Head(s) = s[1]
      /\ Len(s) \in Nat \ {0}
      /\ DOMAIN s = 1..Len(s) /\ DOMAIN t = 1..(Len(s) - 1)
      /\ \A i \in 1..(Len(s) - 1) : t[i] = s[i + 1]
  OBVIOUS
<1> HIDE DEF t
<1>2. ToSet(s) \subseteq ToSet(t) \cup {s[1]}
  <2>1. ASSUME NEW i \in DOMAIN s, i # 1 PROVE i - 1 \in DOMAIN t /\ s[i] = t[i - 1]
    BY <1>1, <2>1
  <2> QED BY <2>1 DEF ToSet
<1>3. ToSet(t) \cup {s[1]} \subseteq ToSet(s)
  <2>1. \A i \in DOMAIN t : i + 1 \in DOMAIN s /\ t[i] = s[i + 1]
    BY <1>1
  <2>2. 1 \in DOMAIN s
    BY <1>1
  <2> QED BY <2>1, <2>2 DEF ToSet
<1>4. ASSUME Distinct(s) PROVE Distinct(t) /\ s[1] \notin ToSet(t)
  <2>1. \A i \in DOMAIN t : i + 1 \in DOMAIN s /\ t[i] = s[i + 1] /\ i + 1 # 1 /\ i \in Nat
    BY <1>1
  <2>2. 1 \in DOMAIN s
    BY <1>1
  <2>3. Distinct(t)
    <3>1. ASSUME NEW i \in DOMAIN t, NEW j \in DOMAIN t, t[i] = t[j] PROVE i = j
      <4>1. i + 1 = j + 1
        BY <1>4, <2>1, <3>1 DEF Distinct
      <4> QED BY <4>1, <2>1
    <3> QED BY <3>1 DEF Distinct
  <2>4. s[1] \notin ToSet(t)
    BY <1>4, <2>1, <2>2 DEF Distinct, ToSet
  <2> QED BY <2>3, <2>4
<1> QED BY <1>1, <1>2, <1>3, <1>4 DEF t

\* The empty sequence has no elements.
LEMMA EmptyElements ==
    ToSet(<<>>) = {} /\ Distinct(<<>>) /\ \A S : <<>> \in Seq(S)
BY DEF ToSet, Distinct

-----------------------------------------------------------------------------
(* The plans of a wave *)

\* There are finitely many plans.
LEMMA PlansAreFinite == IsFiniteSet(Plans)
<1>1. /\ PlanOrder \in [1..Len(PlanOrder) -> Plans] /\ Len(PlanOrder) \in Nat
      /\ \A p \in Plans : \E i \in 1..Len(PlanOrder) : PlanOrder[i] = p
  BY ExecuteAssumption DEF Plans, ToSet
<1>2. PlanOrder \in Surjection(1..Len(PlanOrder), Plans)
  BY <1>1 DEF Surjection
<1>3. IsFiniteSet(1..Len(PlanOrder))
  BY <1>1, FS_Interval
<1> QED BY <1>2, <1>3, FS_Surjection

\* f is the function inFileOrder builds, up to the k-th file.
Builds(T, k, f) ==
    f = [i \in 0..k |->
            IF i = 0 THEN <<>>
            ELSE IF PlanOrder[i] \in T THEN Append(f[i - 1], PlanOrder[i])
            ELSE f[i - 1]]

\* There is such a function.
LEMMA FileOrderExists ==
    ASSUME NEW T, NEW n \in Nat
    PROVE  \E f : Builds(T, n, f)
<1> USE DEF Builds
<1> DEFINE Entry(f, i) == IF i = 0 THEN <<>>
                          ELSE IF PlanOrder[i] \in T THEN Append(f[i - 1], PlanOrder[i])
                          ELSE f[i - 1]
           Solves(f, k) == f = [i \in 0..k |-> Entry(f, i)]
           Bad == {k \in Nat : ~\E f : Solves(f, k)}
<1>1. ASSUME Bad # {} PROVE FALSE
  <2>1. \E x \in Bad : \A k \in Bad : x <= k
    <3>1. Bad \in SUBSET Nat
      OBVIOUS
    <3> HIDE DEF Bad
    <3> QED BY <1>1, <3>1, LeastNumber
  <2>2. PICK m \in Nat : m \in Bad /\ \A k \in Bad : m <= k
    BY <2>1
  <2>3. CASE m = 0
    <3> DEFINE f == [i \in 0..0 |-> <<>>]
    <3>1. \A i \in 0..0 : Entry(f, i) = <<>>
      OBVIOUS
    <3>2. Solves(f, 0)
      BY <3>1
    <3> QED BY <2>2, <2>3, <3>2
  <2>4. CASE m # 0
    <3>1. m - 1 \in Nat /\ ~(m <= m - 1)
      BY <2>4
    <3>2. m - 1 \notin Bad
      <4> HIDE DEF Bad
      <4> QED BY <2>2, <3>1
    <3>3. PICK g : Solves(g, m - 1)
      BY <3>1, <3>2
    <3> DEFINE f == [i \in 0..m |-> IF i = m THEN Entry(g, m) ELSE g[i]]
    <3>4. ASSUME NEW i \in 0..m PROVE f[i] = Entry(f, i)
      <4>1. CASE i = 0
        <5>1. f[0] = g[0] /\ g[0] = <<>>
          BY <2>4, <3>1, <3>3
        <5> QED BY <4>1, <5>1
      <4>2. CASE i # 0
        <5>1. i - 1 \in 0..m /\ i - 1 # m
          BY <4>2
        <5>2. f[i - 1] = g[i - 1]
          BY <5>1
        <5>3. Entry(f, i) = Entry(g, i)
          BY <4>2, <5>2
        <5>4. i # m => i \in 0..(m - 1)
          OBVIOUS
        <5>5. f[i] = Entry(g, i)
          BY <3>3, <5>4
        <5> QED BY <5>3, <5>5
      <4> QED BY <4>1, <4>2
    <3>5. f = [i \in 0..m |-> f[i]]
      OBVIOUS
    <3>6. Solves(f, m)
      BY <3>4, <3>5
    <3> QED BY <2>2, <3>6
  <2> QED BY <2>3, <2>4
<1>2. n \notin Bad
  BY <1>1
<1> QED BY <1>2

\* inFileOrder lists the plans of the set, each once.
LEMMA FileOrder ==
    ASSUME NEW T
    PROVE  /\ inFileOrder(T) \in Seq(Plans)
           /\ ToSet(inFileOrder(T)) = T \cap Plans
           /\ Distinct(inFileOrder(T))
<1> DEFINE n == Len(PlanOrder)
           upTo == CHOOSE f : Builds(T, n, f)
           Lists(k) == /\ upTo[k] \in Seq(Plans)
                       /\ ToSet(upTo[k]) = {PlanOrder[j] : j \in 1..k} \cap T
                       /\ Distinct(upTo[k])
           Bad == {k \in 0..n : ~Lists(k)}
<1>1. n \in Nat /\ \A i \in 1..n : PlanOrder[i] \in Plans
  BY ExecuteAssumption
<1>2. \A i, j \in 1..n : PlanOrder[i] = PlanOrder[j] => i = j
  BY ExecuteAssumption
<1>3. Plans = {PlanOrder[j] : j \in 1..n}
  BY ExecuteAssumption DEF Plans, ToSet
<1>4. inFileOrder(T) = upTo[n]
  BY DEF inFileOrder, Builds
<1>5. Builds(T, n, upTo)
  BY <1>1, FileOrderExists
<1> HIDE DEF upTo, n
<1>6. 0 \in 0..n /\ \A k \in 1..n : k \in 0..n /\ k # 0
  BY <1>1
<1>7. upTo[0] = <<>>
  BY <1>5, <1>6 DEF Builds
<1>8. ASSUME NEW k \in 1..n
      PROVE  upTo[k] = IF PlanOrder[k] \in T THEN Append(upTo[k - 1], PlanOrder[k])
                       ELSE upTo[k - 1]
  BY <1>5, <1>6 DEF Builds
<1>9. Lists(0)
  <2>1. {PlanOrder[j] : j \in 1..0} \cap T = {}
    OBVIOUS
  <2>2. ToSet(upTo[0]) = {} /\ Distinct(upTo[0]) /\ upTo[0] \in Seq(Plans)
    BY <1>7, EmptyElements
  <2> QED BY <2>1, <2>2
<1>10. ASSUME NEW k \in 1..n, Lists(k - 1) PROVE Lists(k)
  <2> DEFINE old == {PlanOrder[j] : j \in 1..(k - 1)}
             new == {PlanOrder[j] : j \in 1..k}
  <2>1. new = old \cup {PlanOrder[k]}
    <3>1. \A j \in 1..k : j \in 1..(k - 1) \/ j = k
      BY <1>1
    <3>2. \A j \in 1..(k - 1) : j \in 1..k
      BY <1>1
    <3>3. k \in 1..k
      BY <1>1
    <3> QED BY <3>1, <3>2, <3>3
  <2>2. PlanOrder[k] \notin old
    <3>1. \A j \in 1..(k - 1) : j \in 1..n /\ j # k
      BY <1>1
    <3> QED BY <1>2, <3>1
  <2>3. PlanOrder[k] \in Plans
    BY <1>1
  <2> HIDE DEF old, new
  <2>4. /\ upTo[k - 1] \in Seq(Plans)
        /\ ToSet(upTo[k - 1]) = old \cap T
        /\ Distinct(upTo[k - 1])
    BY <1>10 DEF old
  <2>5. CASE PlanOrder[k] \in T
    <3>1. upTo[k] = Append(upTo[k - 1], PlanOrder[k])
      BY <1>8, <2>5
    <3>2. upTo[k] \in Seq(Plans) /\ ToSet(upTo[k]) = new \cap T /\ Distinct(upTo[k])
      BY <2>1, <2>2, <2>3, <2>4, <2>5, <3>1, AppendElements
    <3> QED BY <3>2 DEF new
  <2>6. CASE PlanOrder[k] \notin T
    <3>1. upTo[k] = upTo[k - 1]
      BY <1>8, <2>6
    <3>2. upTo[k] \in Seq(Plans) /\ ToSet(upTo[k]) = new \cap T /\ Distinct(upTo[k])
      BY <2>1, <2>4, <2>6, <3>1
    <3> QED BY <3>2 DEF new
  <2> QED BY <2>5, <2>6
<1>11. ASSUME Bad # {} PROVE FALSE
  <2>1. Bad \in SUBSET Nat
    BY <1>1
  <2>2. \E x \in Bad : \A k \in Bad : x <= k
    <3> HIDE DEF Bad
    <3> QED BY <1>11, <2>1, LeastNumber
  <2>3. PICK m \in 0..n : ~Lists(m) /\ \A k \in Bad : m <= k
    BY <2>2
  <2> HIDE DEF Lists
  <2>4. m \in 1..n /\ m - 1 \in 0..n /\ ~(m <= m - 1)
    BY <1>1, <1>9, <2>3
  <2>5. Lists(m - 1)
    BY <2>3, <2>4
  <2> QED BY <1>10, <2>3, <2>4, <2>5
<1>12. Lists(n)
  <2> HIDE DEF Lists
  <2> QED BY <1>1, <1>11
<1>13. ToSet(upTo[n]) = Plans \cap T
  BY <1>3, <1>12
<1> QED BY <1>4, <1>12, <1>13

\* The plans of a wave in the order of their files.
LEMMA WavePlans ==
    ASSUME NEW w
    PROVE  /\ wavePlans(w) \in Seq(Plans)
           /\ ToSet(wavePlans(w)) = plansOf(w)
           /\ Distinct(wavePlans(w))
<1>1. plansOf(w) \cap Plans = plansOf(w)
  BY DEF plansOf
<1> QED BY <1>1, FileOrder DEF wavePlans

\* Those that succeeded.
LEMMA Succeeded ==
    ASSUME NEW w
    PROVE  /\ succeeded(w) \in Seq(Plans)
           /\ ToSet(succeeded(w)) = {p \in plansOf(w) : agent[p] = "ok"}
           /\ Distinct(succeeded(w))
<1>1. {p \in plansOf(w) : agent[p] = "ok"} \cap Plans = {p \in plansOf(w) : agent[p] = "ok"}
  BY DEF plansOf
<1> QED BY <1>1, FileOrder DEF succeeded

\* Waves are numbered from 1.
LEMMA WaveType == \A p \in Plans : waveOf(p) \in Nat /\ waveOf(p) >= 1
BY ExecuteAssumption DEF waveOf

\* The next wave is the smallest one above, if there is one.
LEMMA NextWave ==
    ASSUME NEW r \in Run
    PROVE  LET s == nextWave(r)
           IN  /\ s \in Run
               /\ s.n = r.n /\ s.picks = r.picks /\ s.managed = r.managed
               /\ s.completed = r.completed /\ s.failed = r.failed
               /\ s.skipped = r.skipped /\ s.aborted = r.aborted /\ s.kept = r.kept
               /\ \/ /\ s.pc = "cleanup" /\ s.outcome = "finished" /\ s.wave = r.wave
                     /\ r.aborted \/ \A p \in Plans : waveOf(p) <= r.wave
                  \/ /\ s.pc = "checkpoint" /\ s.outcome = r.outcome /\ s.wave > r.wave
                     /\ ~r.aborted
                     /\ s.todo = wavePlans(s.wave)
                     /\ \A p \in Plans : waveOf(p) <= r.wave \/ waveOf(p) >= s.wave
<1> DEFINE after == wavesAfter(r.wave)
<1>1. r.wave \in Nat /\ after \in SUBSET Nat
  BY WaveType DEF wavesAfter, Run
<1>2. \A p \in Plans : waveOf(p) > r.wave => waveOf(p) \in after
  BY DEF wavesAfter
<1>3. \A v \in after : v > r.wave
  BY DEF wavesAfter
<1>4. CASE r.aborted \/ after = {}
  <2> DEFINE k == [r EXCEPT !.pc = "cleanup", !.todo = <<>>, !.outcome = "finished"]
  <2>1. nextWave(r) = k
    BY <1>4 DEF nextWave
  <2>2. r.aborted \/ \A p \in Plans : waveOf(p) <= r.wave
    BY <1>1, <1>2, <1>4, WaveType
  <2>3. "cleanup" \in PCs /\ "finished" \in Outcomes /\ <<>> \in Seq(Plans)
    BY DEF PCs, Outcomes
  <2>4. k \in Run
    BY <2>3 DEF Run
  <2>5. /\ k.pc = "cleanup" /\ k.outcome = "finished" /\ k.wave = r.wave
        /\ k.n = r.n /\ k.picks = r.picks /\ k.managed = r.managed
        /\ k.completed = r.completed /\ k.failed = r.failed
        /\ k.skipped = r.skipped /\ k.aborted = r.aborted /\ k.kept = r.kept
    BY DEF Run
  <2> QED BY <2>1, <2>2, <2>4, <2>5
<1>5. CASE ~(r.aborted \/ after = {})
  <2> DEFINE w == Min(after)
             k == [r EXCEPT !.pc = "checkpoint", !.wave = w, !.todo = wavePlans(w)]
  <2>1. nextWave(r) = k
    BY <1>5 DEF nextWave
  <2>2. w \in after /\ \A v \in after : w <= v
    <3> HIDE DEF after
    <3> QED BY <1>1, <1>5, MinIsLeast
  <2> HIDE DEF w, after
  <2>3. w \in Nat /\ w > r.wave
    BY <1>1, <1>3, <2>2
  <2>4. \A p \in Plans : waveOf(p) <= r.wave \/ waveOf(p) >= w
    BY <1>1, <1>2, <2>2, <2>3, WaveType
  <2>5. "checkpoint" \in PCs /\ wavePlans(w) \in Seq(Plans)
    BY WavePlans DEF PCs
  <2>6. k \in Run
    BY <2>3, <2>5 DEF Run
  <2>7. /\ k.pc = "checkpoint" /\ k.outcome = r.outcome /\ k.wave = w /\ k.todo = wavePlans(w)
        /\ k.n = r.n /\ k.picks = r.picks /\ k.managed = r.managed
        /\ k.completed = r.completed /\ k.failed = r.failed
        /\ k.skipped = r.skipped /\ k.aborted = r.aborted /\ k.kept = r.kept
    BY DEF Run
  <2> QED BY <1>5, <2>1, <2>3, <2>4, <2>6, <2>7
<1> QED BY <1>4, <1>5

-----------------------------------------------------------------------------
(* The end of a wave *)

\* With r for its locals and a for the agents, a run is done with its wave.
WaveOver(r, a) ==
    /\ r \in Run /\ a \in [Plans -> AgentStates]
    /\ r.outcome = "none"
    /\ \A w \in worktrees : w.run <= r.n
    /\ \A i \in DOMAIN main : main[i].run <= r.n
    /\ \A i \in DOMAIN main : main[i].run = r.n =>
          a[main[i].plan] = "ok" /\ waveOf(main[i].plan) <= r.wave
    /\ \A w \in worktrees : w.run = r.n =>
          /\ waveOf(w.plan) <= r.wave
          /\ w.plan \in ToSet(r.managed) \cup r.kept
          /\ \A i \in DOMAIN main : main[i].run = r.n =>
                (i <= w.fork <=> waveOf(main[i].plan) < waveOf(w.plan))
    /\ \A p \in Plans : a[p] # "running" /\ (waveOf(p) > r.wave => a[p] = "none")
    /\ ~r.aborted =>
          /\ \A p \in Plans : waveOf(p) <= r.wave => a[p] \in {"ok", "failed"}
          /\ r.completed = Cardinality({p \in Plans : a[p] = "ok"})
          /\ r.failed = Cardinality({p \in Plans : a[p] = "failed"}) + Cardinality(r.skipped)
          /\ \A p \in r.skipped : waveOf(p) <= r.wave

\* Every plan is counted once when all have ended.
LEMMA AllCounted ==
    ASSUME NEW a \in [Plans -> AgentStates], \A p \in Plans : a[p] \in {"ok", "failed"}
    PROVE  Cardinality({p \in Plans : a[p] = "ok"}) + Cardinality({p \in Plans : a[p] = "failed"})
             = Cardinality(Plans)
<1> DEFINE S == {p \in Plans : a[p] = "ok"}
           T == {p \in Plans : a[p] = "failed"}
<1>1. S \cup T = Plans /\ S \cap T = {} /\ S \in SUBSET Plans /\ T \in SUBSET Plans
  OBVIOUS
<1> HIDE DEF S, T
<1>2. IsFiniteSet(S) /\ IsFiniteSet(T)
  BY <1>1, PlansAreFinite, FS_Subset
<1>3. Cardinality(S) \in Nat /\ Cardinality(T) \in Nat
  BY <1>2, FS_CardinalityType
<1>4. Cardinality(Plans) = Cardinality(S) + Cardinality(T) - Cardinality({})
  BY <1>1, <1>2, FS_Union
<1>5. Cardinality(S) + Cardinality(T) = Cardinality(Plans)
  BY <1>3, <1>4, FS_EmptySet
<1> QED BY <1>5 DEF S, T

\* What the branch and the worktrees hold.
LEMMA Contents ==
    ASSUME TypeOK
    PROVE  /\ \A i \in DOMAIN main :
                 main[i] \in Commit /\ main[i].plan \in Plans /\ main[i].run \in Nat
           /\ \A w \in worktrees :
                 w \in Worktree /\ w.plan \in Plans /\ w.run \in Nat /\ w.fork \in Nat
           /\ Len(main) \in Nat /\ DOMAIN main = 1..Len(main)
<1>1. main \in Seq(Commit) /\ \A w \in worktrees : w \in Worktree
  BY DEF TypeOK
<1>2. \A i \in DOMAIN main : main[i] \in Commit
  BY <1>1
<1>3. Len(main) \in Nat /\ DOMAIN main = 1..Len(main)
  BY <1>1
<1> QED BY <1>1, <1>2, <1>3 DEF Commit, Worktree

\* The next wave, or the cleanup, finds everything in order.
LEMMA EntersWave ==
    ASSUME Inv, NEW r, NEW a, WaveOver(r, a), run' = nextWave(r), agent' = a,
           UNCHANGED <<main, stuck, worktrees, crashes>>
    PROVE  Inv'
<1> DEFINE s == nextWave(r)
<1>1. r \in Run /\ a \in [Plans -> AgentStates]
  BY DEF WaveOver
<1>2. /\ s \in Run
      /\ s.n = r.n /\ s.picks = r.picks /\ s.managed = r.managed
      /\ s.completed = r.completed /\ s.failed = r.failed
      /\ s.skipped = r.skipped /\ s.aborted = r.aborted /\ s.kept = r.kept
  BY <1>1, NextWave
<1>3. \/ /\ s.pc = "cleanup" /\ s.outcome = "finished" /\ s.wave = r.wave
         /\ r.aborted \/ \A p \in Plans : waveOf(p) <= r.wave
      \/ /\ s.pc = "checkpoint" /\ s.outcome = r.outcome /\ s.wave > r.wave
         /\ ~r.aborted
         /\ s.todo = wavePlans(s.wave)
         /\ \A p \in Plans : waveOf(p) <= r.wave \/ waveOf(p) >= s.wave
  BY <1>1, NextWave
<1>4. run' = s /\ r.wave \in Nat /\ s.wave \in Nat /\ r.n \in Nat
  BY <1>1, <1>2 DEF Run
<1>5. s.pc # "idle" /\ s.pc # "ended"
  BY <1>3
<1> HIDE DEF s
<1>6. \A i \in DOMAIN main : main[i] \in Commit /\ main[i].plan \in Plans /\ main[i].run \in Nat
  BY Contents DEF Inv
<1>7. \A w \in worktrees : w \in Worktree /\ w.plan \in Plans /\ w.run \in Nat
  BY Contents DEF Inv
<1>8. TypeOK'
  BY <1>1, <1>2, <1>4 DEF Inv, TypeOK
<1>9. Past'
  <2>1. \A w \in worktrees : w.run <= s.n
    BY <1>2 DEF WaveOver
  <2>2. \A i \in DOMAIN main : main[i].run <= s.n
    BY <1>2 DEF WaveOver
  <2> QED BY <1>4, <1>5, <2>1, <2>2 DEF Inv, Past
<1>10. Landed'
  <2>1. \A i \in DOMAIN main : main[i].run = r.n =>
           a[main[i].plan] = "ok" /\ waveOf(main[i].plan) <= r.wave /\ waveOf(main[i].plan) \in Nat
    BY <1>6, WaveType DEF WaveOver
  <2>2. s.wave >= r.wave /\ (s.pc \in unpicked => s.wave > r.wave)
    BY <1>3, <1>4 DEF unpicked
  <2> QED BY <1>2, <1>4, <2>1, <2>2 DEF Inv, Landed
<1>11. Forked'
  <2>1. s.wave >= r.wave
    BY <1>3, <1>4
  <2>2. \A w \in worktrees : w.run = r.n => waveOf(w.plan) <= s.wave
    BY <1>4, <1>7, <2>1, WaveType DEF WaveOver
  <2> QED BY <1>2, <1>4, <2>2 DEF Forked, WaveOver
<1>12. Managed'
  <2>1. \A w \in worktrees : w.run = s.n => w.plan \in ToSet(s.managed) \cup s.kept
    BY <1>2 DEF WaveOver
  <2> QED BY <1>4, <1>5, <2>1 DEF Managed
<1>13. Todo'
  <2>1. CASE s.pc = "cleanup"
    BY <1>4, <2>1 DEF Todo
  <2>2. CASE s.pc = "checkpoint"
    <3>1. ToSet(s.todo) = plansOf(s.wave) /\ Distinct(s.todo)
      BY <1>3, <2>2, WavePlans
    <3> QED BY <1>4, <2>2, <3>1 DEF Todo, plansOf
  <2> QED BY <1>3, <2>1, <2>2
<1>14. Housed'
  BY <1>3, <1>4 DEF Housed
<1>15. Agents'
  <2>1. \A p \in Plans : a[p] # "running"
    BY DEF WaveOver
  <2>2. CASE s.pc = "cleanup"
    BY <1>4, <2>1, <2>2 DEF Agents, inWave, unpicked, picked
  <2>3. CASE s.pc = "checkpoint"
    <3>1. \A p \in Plans : /\ waveOf(p) < s.wave => a[p] \in {"ok", "failed"}
                           /\ waveOf(p) >= s.wave => a[p] = "none"
      BY <1>3, <1>4, <2>3, WaveType DEF WaveOver
    <3>2. \A p \in Plans : waveOf(p) \in Nat
      BY WaveType
    <3> QED BY <1>4, <2>1, <2>3, <3>1, <3>2 DEF Agents
  <2> QED BY <1>3, <2>2, <2>3
<1>16. Counts'
  <2>1. CASE s.pc = "cleanup"
    <3>1. ASSUME ~s.aborted
          PROVE  /\ s.completed + s.failed = Cardinality(Plans) + Cardinality(s.skipped)
                 /\ s.completed = Cardinality({p \in Plans : a[p] = "ok"})
      <4>1. \A p \in Plans : a[p] \in {"ok", "failed"}
        BY <1>2, <1>3, <2>1, <3>1 DEF WaveOver
      <4>2. /\ s.completed = Cardinality({p \in Plans : a[p] = "ok"})
            /\ s.failed = Cardinality({p \in Plans : a[p] = "failed"}) + Cardinality(s.skipped)
        BY <1>2, <3>1 DEF WaveOver
      <4>3. Cardinality({p \in Plans : a[p] = "ok"}) + Cardinality({p \in Plans : a[p] = "failed"})
              = Cardinality(Plans)
        BY <1>1, <4>1, AllCounted
      <4>4. /\ Cardinality({p \in Plans : a[p] = "ok"}) \in Nat
            /\ Cardinality({p \in Plans : a[p] = "failed"}) \in Nat
            /\ Cardinality(s.skipped) \in Nat
        <5>1. s.skipped \in SUBSET Plans
          BY <1>2 DEF Run
        <5> QED BY <5>1, PlansAreFinite, FS_Subset, FS_CardinalityType
      <4> QED BY <4>2, <4>3, <4>4
    <3> QED BY <1>4, <2>1, <3>1 DEF Counts, TotalsCountSkippedTwice, inWave, unpicked, picked
  <2>2. CASE s.pc = "checkpoint"
    <3>1. ~r.aborted /\ s.outcome = "none" /\ s.wave > r.wave
      BY <1>3, <2>2 DEF WaveOver
    <3>2. okCounted' = {p \in Plans : a[p] = "ok"}
      BY <1>4, <2>2 DEF okCounted
    <3>3. failedCounted' = {p \in Plans : a[p] = "failed"}
      <4>1. \A p \in Plans : a[p] = "failed" => waveOf(p) < s.wave
        BY <1>4, <3>1, WaveType DEF WaveOver
      <4> QED BY <1>4, <4>1 DEF failedCounted
    <3>4. \A p \in s.skipped : waveOf(p) < s.wave
      <4>1. s.skipped \in SUBSET Plans
        BY <1>2 DEF Run
      <4> QED BY <1>2, <1>4, <3>1, <4>1, WaveType DEF WaveOver
    <3>5. ToSet(s.todo) = plansOf(s.wave)
      BY <1>3, <2>2, WavePlans
    <3>6. \A p \in s.skipped : waveOf(p) <= s.wave /\ p \notin ToSet(s.todo)
      <4>1. \A p \in s.skipped : waveOf(p) \in Nat
        BY <1>2, WaveType DEF Run
      <4> QED BY <1>4, <3>4, <3>5, <4>1 DEF plansOf
    <3> QED BY <1>2, <1>4, <2>2, <3>1, <3>2, <3>3, <3>6
            DEF Counts, TotalsCountSkippedTwice, WaveOver
  <2> QED BY <1>3, <2>1, <2>2
<1> QED BY <1>8, <1>9, <1>10, <1>11, <1>12, <1>13, <1>14, <1>15, <1>16 DEF Inv

\* A run whose wave has ended, or that stops at a checkpoint.
LEMMA AtWaveEnd ==
    ASSUME Inv, run.pc \in {"checkpoint", "pick", "failures"}, NEW r \in Run,
           r.n = run.n, r.wave = run.wave, r.managed = run.managed, r.kept = run.kept,
           r.outcome = run.outcome,
           ~r.aborted =>
               /\ run.pc \in {"pick", "failures"}
               /\ r.completed = Cardinality({p \in Plans : agent[p] = "ok"})
               /\ r.failed = Cardinality({p \in Plans : agent[p] = "failed"})
                               + Cardinality(r.skipped)
               /\ r.skipped = run.skipped
    PROVE  WaveOver(r, agent)
<1>1. run.pc \in inWave /\ run.pc # "agents" /\ run.pc # "ended"
  BY DEF inWave, unpicked, picked
<1>2. run.outcome = "none" /\ \A q \in run.skipped : waveOf(q) <= run.wave
  BY <1>1 DEF Inv, Counts
<1>3. \A q \in Plans : agent[q] # "running" /\ (waveOf(q) > run.wave => agent[q] = "none")
  BY <1>1 DEF Inv, Agents
<1>4. /\ \A w \in worktrees : w.run <= run.n
      /\ \A i \in DOMAIN main : main[i].run <= run.n
  BY DEF Inv, Past
<1>5. \A i \in DOMAIN main : main[i].run = run.n =>
          agent[main[i].plan] = "ok" /\ waveOf(main[i].plan) <= run.wave
  BY DEF Inv, Landed
<1>6. \A w \in worktrees : w.run = run.n =>
        /\ waveOf(w.plan) <= run.wave
        /\ w.plan \in ToSet(run.managed) \cup run.kept
        /\ \A i \in DOMAIN main : main[i].run = run.n =>
              (i <= w.fork <=> waveOf(main[i].plan) < waveOf(w.plan))
  BY <1>1 DEF Inv, Forked, Managed
<1>7. agent \in [Plans -> AgentStates]
  BY DEF Inv, TypeOK
<1>8. ASSUME run.pc \in {"pick", "failures"}, NEW q \in Plans, waveOf(q) <= run.wave
      PROVE  agent[q] \in {"ok", "failed"}
  <2>1. CASE waveOf(q) < run.wave
    BY <1>1, <2>1 DEF Inv, Agents
  <2>2. CASE waveOf(q) = run.wave
    <3>1. agent[q] # "none" /\ agent[q] # "running"
      BY <1>1, <1>3, <1>8, <2>2 DEF Inv, Agents
    <3> QED BY <1>7, <3>1 DEF AgentStates
  <2>3. run.wave \in Nat /\ waveOf(q) \in Nat
    BY WaveType DEF Inv, TypeOK, Run
  <2> QED BY <1>8, <2>1, <2>2, <2>3
<1> QED BY <1>2, <1>3, <1>4, <1>5, <1>6, <1>7, <1>8 DEF WaveOver

-----------------------------------------------------------------------------
(* Every action keeps the invariant *)

\* A run that was refused has nothing, and one that begins has all before it.
LEMMA StartInv ==
    ASSUME Inv, Start
    PROVE  Inv'
<1> DEFINE fresh == [NoRun EXCEPT !.n = run.n + 1]
           a == [p \in Plans |-> "none"]
<1>1. run \in Run /\ run.n \in Nat
  BY DEF Inv, TypeOK, Run
<1>2. NoRun \in Run
  BY EmptyElements DEF NoRun, Run, PCs, Outcomes
<1>3. fresh \in Run
  <2>1. run.n + 1 \in Nat
    BY <1>1
  <2> HIDE DEF NoRun
  <2> QED BY <1>2, <2>1 DEF Run
<1>4. /\ fresh.n = run.n + 1 /\ fresh.wave = 0 /\ fresh.completed = 0 /\ fresh.failed = 0
      /\ fresh.skipped = {} /\ fresh.aborted = FALSE /\ fresh.outcome = "none"
  BY DEF NoRun
<1>5. /\ agent' = a /\ UNCHANGED <<main, stuck, worktrees, crashes>>
      /\ \/ run' = [fresh EXCEPT !.pc = "ended", !.outcome = "refused"]
         \/ run' = nextWave(fresh)
  BY DEF Start, repo
<1> HIDE DEF fresh
<1>6. a \in [Plans -> AgentStates] /\ \A p \in Plans : a[p] = "none"
  BY DEF AgentStates
<1> HIDE DEF a
<1>7. /\ \A w \in worktrees : w.run < fresh.n
      /\ \A i \in DOMAIN main : main[i].run < fresh.n
  BY <1>1, <1>4, Contents DEF Inv, Past
<1>8. /\ \A w \in worktrees : w.run <= fresh.n /\ w.run # fresh.n
      /\ \A i \in DOMAIN main : main[i].run <= fresh.n /\ main[i].run # fresh.n
  BY <1>1, <1>4, <1>7, Contents DEF Inv
<1>9. CASE run' = nextWave(fresh)
  <2>1. {p \in Plans : a[p] = "ok"} = {} /\ {p \in Plans : a[p] = "failed"} = {}
    BY <1>6
  <2>2. Cardinality({}) = 0
    BY FS_EmptySet
  <2>3. \A p \in Plans : ~(waveOf(p) <= fresh.wave)
    BY <1>4, WaveType
  <2>4. \A p \in Plans : a[p] # "running" /\ (waveOf(p) > fresh.wave => a[p] = "none")
    BY <1>6
  <2>5. /\ fresh.completed = Cardinality({p \in Plans : a[p] = "ok"})
        /\ fresh.failed = Cardinality({p \in Plans : a[p] = "failed"}) + Cardinality(fresh.skipped)
    BY <1>4, <2>1, <2>2
  <2>6. WaveOver(fresh, a)
    BY <1>3, <1>4, <1>6, <1>8, <2>3, <2>4, <2>5 DEF WaveOver
  <2> QED BY <1>5, <1>9, <2>6, EntersWave
<1>10. CASE run' = [fresh EXCEPT !.pc = "ended", !.outcome = "refused"]
  <2> DEFINE k == [fresh EXCEPT !.pc = "ended", !.outcome = "refused"]
  <2>1. k \in Run
    BY <1>3 DEF Run, PCs, Outcomes
  <2>2. k.pc = "ended" /\ k.outcome = "refused" /\ k.n = fresh.n
    BY <1>3 DEF Run
  <2>3. run' = k
    BY <1>10
  <2> HIDE DEF k
  <2>4. TypeOK'
    BY <1>5, <1>6, <2>1, <2>3 DEF Inv, TypeOK
  <2>5. Past'
    BY <1>5, <1>8, <2>2, <2>3 DEF Inv, Past
  <2>6. Landed'
    BY <1>5, <1>8, <2>2, <2>3 DEF Inv, Landed
  <2>7. Forked' /\ Managed'
    BY <1>5, <1>8, <2>2, <2>3 DEF Forked, Managed
  <2>8. Todo' /\ Housed'
    BY <2>2, <2>3 DEF Todo, Housed
  <2>9. Agents'
    BY <1>5, <1>6, <2>2, <2>3 DEF Agents, inWave, unpicked, picked
  <2>10. Counts'
    BY <2>2, <2>3 DEF Counts, TotalsCountSkippedTwice, inWave, unpicked, picked
  <2> QED BY <2>4, <2>5, <2>6, <2>7, <2>8, <2>9, <2>10 DEF Inv
<1> QED BY <1>5, <1>9, <1>10

\* At the checkpoints the waves so far are over, and this one has not begun.
LEMMA CheckpointInv ==
    ASSUME Inv, Checkpoint
    PROVE  Inv'
<1> DEFINE p == Head(run.todo)
           t == Tail(run.todo)
           asked == [run EXCEPT !.todo = Tail(@)]
           skips == [asked EXCEPT !.failed = @ + 1, !.skipped = @ \cup {p}]
           aborts == [asked EXCEPT !.aborted = TRUE]
<1>1. /\ run \in Run /\ run.pc = "checkpoint" /\ run.todo # <<>>
      /\ UNCHANGED <<main, stuck, worktrees, agent, crashes>>
  BY DEF Checkpoint, Inv, TypeOK, repo
<1>2. run' = asked \/ run' = skips \/ run' = nextWave(aborts)
  BY DEF Checkpoint
<1>3. /\ run.todo \in Seq(Plans) /\ run.skipped \in SUBSET Plans /\ run.n \in Nat
      /\ run.wave \in Nat /\ run.failed \in Nat
  BY <1>1 DEF Run
<1>4. /\ t \in Seq(Plans) /\ p \in Plans
      /\ ToSet(run.todo) = ToSet(t) \cup {p}
      /\ Distinct(run.todo) => Distinct(t) /\ p \notin ToSet(t)
  BY <1>1, <1>3, TailElements
<1>5. Distinct(t) /\ p \notin ToSet(t) /\ p \notin run.skipped /\ waveOf(p) = run.wave
  BY <1>1, <1>4 DEF Inv, Todo, Counts, inWave, unpicked
<1>6. asked \in Run /\ asked = [run EXCEPT !.todo = t]
  BY <1>1, <1>4 DEF Run
<1> HIDE DEF p, t
<1>7. CASE run' = nextWave(aborts)
  <2>1. aborts \in Run
    BY <1>6 DEF Run
  <2>2. /\ aborts.n = run.n /\ aborts.wave = run.wave /\ aborts.managed = run.managed
        /\ aborts.kept = run.kept /\ aborts.aborted = TRUE /\ aborts.outcome = run.outcome
    BY <1>1, <1>6 DEF Run
  <2> HIDE DEF aborts
  <2>3. WaveOver(aborts, agent)
    BY <1>1, <2>1, <2>2, AtWaveEnd
  <2> QED BY <1>1, <1>7, <2>3, EntersWave
<1>8. CASE run' = asked \/ run' = skips
  <2>1. skips \in Run
    <3>1. run.skipped \cup {p} \in SUBSET Plans /\ run.failed + 1 \in Nat
      BY <1>3, <1>4
    <3> QED BY <1>1, <1>6, <3>1 DEF Run
  <2>2. run' \in Run
    BY <1>6, <1>8, <2>1
  <2>3. /\ run'.pc = "checkpoint" /\ run'.n = run.n /\ run'.wave = run.wave /\ run'.todo = t
        /\ run'.managed = run.managed /\ run'.completed = run.completed
        /\ run'.aborted = run.aborted /\ run'.outcome = run.outcome /\ run'.kept = run.kept
    <3>1. CASE run' = asked
      BY <1>1, <1>6, <3>1 DEF Run
    <3>2. CASE run' = skips
      BY <1>1, <1>6, <3>2 DEF Run
    <3> QED BY <1>8, <3>1, <3>2
  <2>4. \/ run'.failed = run.failed /\ run'.skipped = run.skipped
        \/ run'.failed = run.failed + 1 /\ run'.skipped = run.skipped \cup {p}
    BY <1>1, <1>6, <1>8 DEF Run
  <2> HIDE DEF asked, skips
  <2>5. TypeOK'
    BY <1>1, <2>2 DEF Inv, TypeOK
  <2>6. Past' /\ Landed' /\ Forked' /\ Managed'
    BY <1>1, <2>3 DEF Inv, Past, Landed, Forked, Managed
  <2>7. Todo'
    BY <1>1, <1>4, <1>5, <2>3 DEF Inv, Todo
  <2>8. Housed' /\ Agents'
    BY <1>1, <2>3 DEF Inv, Housed, Agents
  <2>9. Counts'
    <3>1. okCounted' = okCounted /\ failedCounted' = failedCounted
      BY <1>1, <2>3 DEF okCounted, failedCounted
    <3>2. run'.failed = Cardinality(failedCounted) + Cardinality(run'.skipped)
      <4>1. run.failed = Cardinality(failedCounted) + Cardinality(run.skipped)
        BY <1>1 DEF Inv, Counts, inWave, unpicked
      <4>2. Cardinality(failedCounted) \in Nat
        <5>1. failedCounted \in SUBSET Plans
          BY DEF failedCounted
        <5> QED BY <5>1, PlansAreFinite, FS_Subset, FS_CardinalityType
      <4>3. IsFiniteSet(run.skipped) /\ Cardinality(run.skipped) \in Nat
        BY <1>3, PlansAreFinite, FS_Subset, FS_CardinalityType
      <4>4. Cardinality(run.skipped \cup {p}) = Cardinality(run.skipped) + 1
        BY <1>5, <4>3, FS_AddElement
      <4>5. CASE run'.failed = run.failed /\ run'.skipped = run.skipped
        BY <4>1, <4>5
      <4>6. CASE run'.failed = run.failed + 1 /\ run'.skipped = run.skipped \cup {p}
        <5>1. Cardinality(run'.skipped) = Cardinality(run.skipped) + 1
          BY <4>4, <4>6
        <5> QED BY <4>1, <4>2, <4>3, <4>6, <5>1
      <4> QED BY <2>4, <4>5, <4>6
    <3>3. \A q \in run'.skipped : waveOf(q) <= run.wave /\ q \notin ToSet(t)
      <4>1. \A q \in run.skipped : waveOf(q) <= run.wave /\ q \notin ToSet(run.todo)
        BY <1>1 DEF Inv, Counts, inWave, unpicked
      <4> QED BY <1>3, <1>4, <1>5, <2>4, <4>1
    <3>4. run'.pc \in inWave /\ run.pc \in inWave
      BY <1>1, <2>3 DEF inWave, unpicked
    <3> QED BY <2>3, <3>1, <3>2, <3>3, <3>4
            DEF Inv, Counts, TotalsCountSkippedTwice
  <2> QED BY <2>5, <2>6, <2>7, <2>8, <2>9 DEF Inv
<1> QED BY <1>2, <1>7, <1>8

\* After the checkpoints the wave is the same.
LEMMA CheckpointsDoneInv ==
    ASSUME Inv, CheckpointsDone
    PROVE  Inv'
<1>1. /\ run \in Run /\ run.pc = "checkpoint"
      /\ run' = [run EXCEPT !.pc = "create", !.todo = wavePlans(run.wave)]
      /\ UNCHANGED <<main, stuck, worktrees, agent, crashes>>
  BY DEF CheckpointsDone, Inv, TypeOK, repo
<1>2. /\ wavePlans(run.wave) \in Seq(Plans)
      /\ ToSet(wavePlans(run.wave)) = plansOf(run.wave)
  BY WavePlans
<1>3. run' \in Run
  BY <1>1, <1>2 DEF Run, PCs
<1>4. /\ run'.pc = "create" /\ run'.n = run.n /\ run'.wave = run.wave
      /\ run'.todo = wavePlans(run.wave) /\ run'.managed = run.managed
      /\ run'.completed = run.completed /\ run'.failed = run.failed
      /\ run'.skipped = run.skipped /\ run'.aborted = run.aborted
      /\ run'.outcome = run.outcome /\ run'.kept = run.kept
  BY <1>1 DEF Run
<1>5. TypeOK'
  BY <1>1, <1>3 DEF Inv, TypeOK
<1>6. Past' /\ Landed' /\ Forked' /\ Managed'
  BY <1>1, <1>4 DEF Inv, Past, Landed, Forked, Managed, unpicked
<1>7. Todo' /\ Housed'
  BY <1>2, <1>4 DEF Todo, Housed, plansOf
<1>8. Agents'
  BY <1>1, <1>4 DEF Inv, Agents, inWave, unpicked
<1>9. Counts'
  <2>1. okCounted' = okCounted /\ failedCounted' = failedCounted
    BY <1>1, <1>4 DEF okCounted, failedCounted
  <2>2. run'.pc \in inWave /\ run.pc \in inWave
    BY <1>1, <1>4 DEF inWave, unpicked
  <2> QED BY <1>4, <2>1, <2>2 DEF Inv, Counts, TotalsCountSkippedTwice
<1> QED BY <1>5, <1>6, <1>7, <1>8, <1>9 DEF Inv

\* A new worktree starts where every earlier wave has landed.
LEMMA CreateWorktreeInv ==
    ASSUME Inv, CreateWorktree
    PROVE  Inv'
<1> DEFINE p == Head(run.todo)
           t == Tail(run.todo)
           m == Append(run.managed, p)
           w == [plan |-> p, run |-> run.n, fork |-> Len(main), commits |-> 0]
<1>1. /\ run \in Run /\ run.pc = "create" /\ run.todo # <<>>
      /\ run' = [run EXCEPT !.todo = t, !.managed = m]
      /\ worktrees' = worktrees \cup {w} /\ ~pathTaken(p)
      /\ UNCHANGED <<main, stuck, agent, crashes>>
  BY DEF CreateWorktree, create, Inv, TypeOK, repo
<1>2. run.todo \in Seq(Plans) /\ run.managed \in Seq(Plans) /\ run.n \in Nat /\ run.wave \in Nat
  BY <1>1 DEF Run
<1>3. t \in Seq(Plans) /\ p \in Plans /\ ToSet(run.todo) = ToSet(t) \cup {p}
  BY <1>1, <1>2, TailElements
<1>4. m \in Seq(Plans) /\ ToSet(m) = ToSet(run.managed) \cup {p}
  BY <1>2, <1>3, AppendElements
<1>5. /\ w \in Worktree /\ w.plan = p /\ w.run = run.n /\ w.fork = Len(main)
      /\ Len(main) \in Nat /\ DOMAIN main = 1..Len(main)
  BY <1>2, <1>3, Contents DEF Inv, Worktree
<1>6. \A v \in worktrees : v.plan # p
  BY <1>1 DEF pathTaken
<1>7. waveOf(p) = run.wave
  BY <1>1, <1>3 DEF Inv, Todo
<1> HIDE DEF p, t, m, w
<1>8. run' \in Run
  BY <1>1, <1>3, <1>4 DEF Run
<1>9. /\ run'.pc = "create" /\ run'.n = run.n /\ run'.wave = run.wave
      /\ run'.todo = t /\ run'.managed = m
      /\ run'.completed = run.completed /\ run'.failed = run.failed
      /\ run'.skipped = run.skipped /\ run'.aborted = run.aborted
      /\ run'.outcome = run.outcome /\ run'.kept = run.kept
  BY <1>1 DEF Run
<1>10. TypeOK'
  BY <1>1, <1>5, <1>8 DEF Inv, TypeOK
<1>11. Past'
  BY <1>1, <1>2, <1>5, <1>6, <1>9 DEF Inv, Past
<1>12. Landed'
  BY <1>1, <1>9 DEF Inv, Landed
<1>13. Forked'
  <2>1. \A i \in DOMAIN main : main[i].run = run.n => waveOf(main[i].plan) < run.wave
    BY <1>1 DEF Inv, Landed, unpicked
  <2>2. \A i \in DOMAIN main : i <= w.fork
    BY <1>5
  <2>3. \A v \in worktrees' : v = w \/ v \in worktrees
    BY <1>1
  <2>4. waveOf(w.plan) <= run.wave /\ waveOf(w.plan) = run.wave
    BY <1>2, <1>5, <1>7
  <2> QED BY <1>1, <1>9, <2>1, <2>2, <2>3, <2>4 DEF Inv, Forked
<1>14. Managed'
  BY <1>1, <1>4, <1>5, <1>9 DEF Inv, Managed
<1>15. Todo'
  BY <1>1, <1>3, <1>9 DEF Inv, Todo
<1>16. Housed'
  <2> DEFINE owns(q) == \E v \in worktrees' : v.plan = q /\ v.run = run'.n
  <2>1. \A q : Own(q) => owns(q)
    BY <1>1, <1>9 DEF Own
  <2>2. owns(p)
    BY <1>1, <1>5, <1>9
  <2>3. \A q \in plansOf(run.wave) : q \in ToSet(t) \/ q = p \/ Own(q)
    BY <1>1, <1>3 DEF Inv, Housed
  <2> HIDE DEF owns
  <2>4. \A q \in plansOf(run.wave) : q \in ToSet(t) \/ owns(q)
    BY <2>1, <2>2, <2>3
  <2> QED BY <1>9, <2>4 DEF Housed, plansOf, Own, owns
<1>17. Agents'
  BY <1>1, <1>9 DEF Inv, Agents
<1>18. Counts'
  <2>1. okCounted' = okCounted /\ failedCounted' = failedCounted
    BY <1>1, <1>9 DEF okCounted, failedCounted
  <2>2. run'.pc \in inWave /\ run.pc \in inWave
    BY <1>1, <1>9 DEF inWave, unpicked
  <2> QED BY <1>1, <1>9, <2>1, <2>2 DEF Inv, Counts, TotalsCountSkippedTwice
<1> QED BY <1>10, <1>11, <1>12, <1>13, <1>14, <1>15, <1>16, <1>17, <1>18 DEF Inv

\* A run that rejects goes to the cleanup with what it has made.
LEMMA CreateFailsInv ==
    ASSUME Inv, CreateFails
    PROVE  Inv'
<1>1. /\ run \in Run /\ run.pc = "create"
      /\ run' = [run EXCEPT !.pc = "cleanup", !.outcome = "rejected"]
      /\ UNCHANGED <<main, stuck, worktrees, agent, crashes>>
  BY DEF CreateFails, Inv, TypeOK, repo
<1>2. run' \in Run
  BY <1>1 DEF Run, PCs, Outcomes
<1>3. /\ run'.pc = "cleanup" /\ run'.outcome = "rejected" /\ run'.n = run.n
      /\ run'.wave = run.wave /\ run'.managed = run.managed /\ run'.kept = run.kept
  BY <1>1 DEF Run
<1>4. TypeOK'
  BY <1>1, <1>2 DEF Inv, TypeOK
<1>5. Past' /\ Landed' /\ Forked' /\ Managed'
  BY <1>1, <1>3 DEF Inv, Past, Landed, Forked, Managed, unpicked
<1>6. Todo' /\ Housed'
  BY <1>3 DEF Todo, Housed
<1>7. Agents'
  BY <1>1, <1>3 DEF Inv, Agents, inWave, unpicked, picked
<1>8. Counts'
  BY <1>3 DEF Counts, TotalsCountSkippedTwice, inWave, unpicked, picked
<1> QED BY <1>4, <1>5, <1>6, <1>7, <1>8 DEF Inv

\* When the agents start every plan of the wave has its worktree.
LEMMA DispatchInv ==
    ASSUME Inv, Dispatch
    PROVE  Inv'
<1> DEFINE a == [p \in Plans |-> IF waveOf(p) = run.wave THEN "running" ELSE agent[p]]
<1>1. /\ run \in Run /\ run.pc = "create" /\ run.todo = <<>>
      /\ run' = [run EXCEPT !.pc = "agents"]
      /\ UNCHANGED <<main, stuck, worktrees, crashes>>
  BY DEF Dispatch, Inv, TypeOK, repo
<1>2. /\ agent' = a /\ agent \in [Plans -> AgentStates]
      /\ a \in [Plans -> AgentStates]
      /\ \A p \in Plans : a[p] = IF waveOf(p) = run.wave THEN "running" ELSE agent[p]
  BY DEF Dispatch, Inv, TypeOK, AgentStates
<1> HIDE DEF a
<1>3. run' \in Run
  BY <1>1 DEF Run, PCs
<1>4. /\ run'.pc = "agents" /\ run'.n = run.n /\ run'.wave = run.wave
      /\ run'.todo = run.todo /\ run'.managed = run.managed
      /\ run'.completed = run.completed /\ run'.failed = run.failed
      /\ run'.skipped = run.skipped /\ run'.aborted = run.aborted
      /\ run'.outcome = run.outcome /\ run'.kept = run.kept
  BY <1>1 DEF Run
<1>5. run.wave \in Nat /\ \A p \in Plans : waveOf(p) \in Nat
  BY <1>1, WaveType DEF Run
<1>6. \A p \in Plans : /\ waveOf(p) < run.wave => agent[p] \in {"ok", "failed"}
                       /\ waveOf(p) >= run.wave => agent[p] = "none"
  BY <1>1, <1>5 DEF Inv, Agents, inWave, unpicked
<1>7. TypeOK'
  BY <1>1, <1>2, <1>3 DEF Inv, TypeOK
<1>8. Past' /\ Forked' /\ Managed'
  BY <1>1, <1>4 DEF Inv, Past, Forked, Managed
<1>9. Landed'
  <2>1. \A i \in DOMAIN main : main[i].run = run.n => waveOf(main[i].plan) < run.wave
    BY <1>1 DEF Inv, Landed, unpicked
  <2>2. \A i \in DOMAIN main : main[i].run = run.n => a[main[i].plan] = agent[main[i].plan]
    <3>1. \A i \in DOMAIN main : main[i].plan \in Plans
      BY Contents DEF Inv
    <3> QED BY <1>2, <1>5, <2>1, <3>1
  <2> QED BY <1>1, <1>2, <1>4, <2>1, <2>2 DEF Inv, Landed
<1>10. Todo' /\ Housed'
  <2>1. ToSet(run.todo) = {}
    BY <1>1, EmptyElements
  <2>2. \A q \in plansOf(run.wave) : Own(q)
    BY <1>1, <2>1 DEF Inv, Housed
  <2> QED BY <1>1, <1>4, <2>2 DEF Todo, Housed, Own, plansOf
<1>11. Agents'
  <2>1. \A p \in Plans : a[p] = "running" => waveOf(p) = run.wave
    BY <1>2, <1>5, <1>6
  <2>2. \A p \in Plans : /\ waveOf(p) < run.wave => a[p] \in {"ok", "failed"}
                         /\ waveOf(p) > run.wave => a[p] = "none"
                         /\ waveOf(p) = run.wave => a[p] # "none"
    BY <1>2, <1>5, <1>6
  <2> QED BY <1>2, <1>4, <2>1, <2>2 DEF Agents
<1>12. Counts'
  <2>1. okCounted' = okCounted
    <3>1. \A p \in Plans : (a[p] = "ok" /\ waveOf(p) < run.wave) <=> agent[p] = "ok"
      BY <1>2, <1>5, <1>6
    <3> QED BY <1>1, <1>2, <1>4, <3>1 DEF okCounted
  <2>2. failedCounted' = failedCounted
    <3>1. \A p \in Plans : (a[p] = "failed" /\ waveOf(p) < run.wave) <=>
                              (agent[p] = "failed" /\ waveOf(p) < run.wave)
      BY <1>2, <1>5, <1>6
    <3> QED BY <1>2, <1>4, <3>1 DEF failedCounted
  <2>3. run'.pc \in inWave /\ run.pc \in inWave
    BY <1>1, <1>4 DEF inWave, unpicked
  <2> QED BY <1>1, <1>4, <2>1, <2>2, <2>3 DEF Inv, Counts, TotalsCountSkippedTwice
<1> QED BY <1>7, <1>8, <1>9, <1>10, <1>11, <1>12 DEF Inv

\* The agent's worktree is the only one of its plan, and of this run.
LEMMA TheWorktree ==
    ASSUME Inv, NEW p \in Plans, Own(p)
    PROVE  /\ worktreeOf(p) \in worktrees
           /\ worktreeOf(p).plan = p /\ worktreeOf(p).run = run.n
           /\ \A w \in worktrees : w.plan = p => w = worktreeOf(p)
<1>1. PICK w \in worktrees : w.plan = p /\ w.run = run.n
  BY DEF Own
<1>2. \A v \in worktrees : v.plan = p => v = w
  BY <1>1 DEF Inv, Past
<1>3. worktreeOf(p) \in worktrees /\ worktreeOf(p).plan = p
  BY <1>1 DEF worktreeOf
<1> QED BY <1>1, <1>2, <1>3

\* A commit changes how many the worktree has, and nothing else.
LEMMA AgentCommitsInv ==
    ASSUME Inv, NEW p \in Plans, AgentCommits(p)
    PROVE  Inv'
<1> DEFINE w == worktreeOf(p)
           v == [w EXCEPT !.commits = @ + 1]
<1>1. /\ agent[p] = "running"
      /\ worktrees' = (worktrees \ {w}) \cup {v}
      /\ UNCHANGED <<main, stuck, agent, run, crashes>>
  BY DEF AgentCommits, repo
<1>2. run.pc = "agents" /\ waveOf(p) = run.wave
  BY <1>1 DEF Inv, Agents
<1>3. Own(p)
  BY <1>2 DEF Inv, Housed, plansOf
<1>4. w \in worktrees /\ w.plan = p /\ w.run = run.n
  BY <1>3, TheWorktree
<1>5. w \in Worktree
  BY <1>4 DEF Inv, TypeOK
<1>6. v \in Worktree /\ v.plan = w.plan /\ v.run = w.run /\ v.fork = w.fork
  BY <1>5 DEF Worktree
<1> HIDE DEF v, w
<1>7. \A u \in worktrees' : \E x \in worktrees : /\ x.plan = u.plan /\ x.run = u.run /\ x.fork = u.fork
                                                 /\ u = v \/ u = x
                                                 /\ u = v => x = w
  BY <1>1, <1>4, <1>6
<1>8. TypeOK'
  BY <1>1, <1>6 DEF Inv, TypeOK
<1>9. Past'
  <2>1. \A x, y \in worktrees' : x.plan = y.plan => x = y
    <3>1. \A x, y \in worktrees : x.plan = y.plan => x = y
      BY DEF Inv, Past
    <3>2. \A x \in worktrees' : x.plan = w.plan => x = v
      BY <1>1, <1>4, <1>6, <3>1
    <3> QED BY <1>1, <1>6, <3>1, <3>2
  <2>2. \A u \in worktrees' : u.run <= run.n /\ u.fork <= Len(main)
    BY <1>7 DEF Inv, Past
  <2> QED BY <1>1, <1>2, <2>1, <2>2 DEF Inv, Past
<1>10. Landed' /\ Agents' /\ Todo'
  BY <1>1, <1>2 DEF Inv, Landed, Agents, Todo
<1>11. Forked' /\ Managed'
  BY <1>1, <1>7 DEF Inv, Forked, Managed
<1>12. Housed'
  <2>1. \A q \in plansOf(run.wave) : \E u \in worktrees : u.plan = q /\ u.run = run.n
    BY <1>2 DEF Inv, Housed, Own
  <2>2. \A u \in worktrees : \E x \in worktrees' : x.plan = u.plan /\ x.run = u.run
    BY <1>1, <1>6
  <2>3. \A q \in plansOf(run.wave) : \E x \in worktrees' : x.plan = q /\ x.run = run.n
    BY <2>1, <2>2
  <2> QED BY <1>1, <1>2, <2>3 DEF Housed, Own, plansOf
<1>13. Counts'
  BY <1>1 DEF Inv, Counts, okCounted, failedCounted, TotalsCountSkippedTwice
<1> QED BY <1>8, <1>9, <1>10, <1>11, <1>12, <1>13 DEF Inv

\* An agent that ends has landed nothing yet, and is not yet counted.
LEMMA AgentEndsInv ==
    ASSUME Inv, NEW p \in Plans, AgentEnds(p)
    PROVE  Inv'
<1>1. /\ agent[p] = "running"
      /\ UNCHANGED <<main, stuck, worktrees, run, crashes>>
      /\ agent \in [Plans -> AgentStates]
  BY DEF AgentEnds, repo, Inv, TypeOK
<1>2. PICK e \in {"ok", "failed"} : agent' = [agent EXCEPT ![p] = e]
  BY DEF AgentEnds
<1>3. run.pc = "agents" /\ waveOf(p) = run.wave /\ run.wave \in Nat
  BY <1>1 DEF Inv, Agents, TypeOK, Run
<1>4. /\ agent' \in [Plans -> AgentStates] /\ agent'[p] = e
      /\ \A q \in Plans : q # p => agent'[q] = agent[q]
  BY <1>1, <1>2 DEF AgentStates
<1>5. TypeOK'
  BY <1>1, <1>4 DEF Inv, TypeOK
<1>6. Past' /\ Forked' /\ Managed'
  BY <1>1 DEF Inv, Past, Forked, Managed
<1>7. Landed'
  <2>1. \A i \in DOMAIN main : main[i].plan \in Plans
    BY Contents DEF Inv
  <2>2. \A i \in DOMAIN main : main[i].run = run.n => agent'[main[i].plan] = "ok"
    BY <1>1, <1>4, <2>1 DEF Inv, Landed
  <2> QED BY <1>1, <2>2 DEF Inv, Landed
<1>8. Todo' /\ Housed'
  BY <1>1, <1>3 DEF Inv, Todo, Housed, Own
<1>9. Agents'
  BY <1>1, <1>2, <1>3, <1>4 DEF Inv, Agents, inWave, unpicked
<1>10. Counts'
  <2>1. okCounted' = okCounted
    BY <1>1, <1>3, <1>4 DEF okCounted
  <2>2. failedCounted' = failedCounted
    BY <1>1, <1>3, <1>4 DEF failedCounted
  <2>3. run.outcome = "none" /\ run.pc \in inWave
    BY <1>3 DEF Inv, Counts, inWave, unpicked
  <2> QED BY <1>1, <1>3, <2>1, <2>2, <2>3 DEF Inv, Counts, TotalsCountSkippedTwice
<1> QED BY <1>5, <1>6, <1>7, <1>8, <1>9, <1>10 DEF Inv

\* What is picked are the worktrees of those that succeeded.
LEMMA AllEndedInv ==
    ASSUME Inv, AllEnded
    PROVE  Inv'
<1> DEFINE t == succeeded(run.wave)
<1>1. /\ run \in Run /\ run.pc = "agents"
      /\ \A p \in Plans : agent[p] # "running"
      /\ run' = [run EXCEPT !.pc = "pick", !.todo = t]
      /\ UNCHANGED <<main, stuck, worktrees, agent, crashes>>
  BY DEF AllEnded, Inv, TypeOK, repo
<1>2. /\ t \in Seq(Plans)
      /\ ToSet(t) = {p \in plansOf(run.wave) : agent[p] = "ok"}
      /\ Distinct(t)
  BY Succeeded
<1> HIDE DEF t
<1>3. run' \in Run
  BY <1>1, <1>2 DEF Run, PCs
<1>4. /\ run'.pc = "pick" /\ run'.n = run.n /\ run'.wave = run.wave
      /\ run'.todo = t /\ run'.managed = run.managed
      /\ run'.completed = run.completed /\ run'.failed = run.failed
      /\ run'.skipped = run.skipped /\ run'.aborted = run.aborted
      /\ run'.outcome = run.outcome /\ run'.kept = run.kept
  BY <1>1 DEF Run
<1>5. TypeOK'
  BY <1>1, <1>3 DEF Inv, TypeOK
<1>6. Past' /\ Landed' /\ Forked' /\ Managed'
  BY <1>1, <1>4 DEF Inv, Past, Landed, Forked, Managed, unpicked
<1>7. Todo'
  BY <1>1, <1>2, <1>4 DEF Todo, plansOf
<1>8. Housed'
  BY <1>1, <1>4 DEF Inv, Housed, Own, plansOf
<1>9. Agents'
  BY <1>1, <1>4 DEF Inv, Agents, inWave, unpicked
<1>10. Counts'
  <2>1. okCounted' = okCounted
    <3>1. run.wave \in Nat /\ \A p \in Plans : waveOf(p) \in Nat
      BY <1>1, WaveType DEF Run
    <3>2. \A p \in Plans : agent[p] = "ok" => ~(waveOf(p) > run.wave)
      BY <1>1 DEF Inv, Agents, inWave, unpicked
    <3>3. \A p \in Plans : agent[p] = "ok" => (waveOf(p) < run.wave <=> p \notin ToSet(t))
      BY <1>2, <3>1, <3>2 DEF plansOf
    <3> QED BY <1>1, <1>4, <3>3 DEF okCounted
  <2>2. failedCounted' = failedCounted
    BY <1>1, <1>4 DEF failedCounted
  <2>3. run'.pc \in inWave /\ run.pc \in inWave
    BY <1>1, <1>4 DEF inWave, unpicked, picked
  <2> QED BY <1>1, <1>4, <2>1, <2>2, <2>3 DEF Inv, Counts, TotalsCountSkippedTwice
<1> QED BY <1>5, <1>6, <1>7, <1>8, <1>9, <1>10 DEF Inv

\* A reversed sequence has the elements of the sequence.
LEMMA ReverseElements ==
    ASSUME NEW S, NEW s \in Seq(S)
    PROVE  Reverse(s) \in Seq(S) /\ \A e \in ToSet(Reverse(s)) : e \in ToSet(s)
<1> DEFINE t == Reverse(s)
<1>1. /\ Len(s) \in Nat /\ DOMAIN s = 1..Len(s)
      /\ \A i \in 1..Len(s) : s[i] \in S
  OBVIOUS
<1>2. \A i \in 1..Len(s) : (Len(s) - i) + 1 \in 1..Len(s)
  BY <1>1
<1>3. /\ DOMAIN t = 1..Len(s)
      /\ \A i \in 1..Len(s) : t[i] = s[(Len(s) - i) + 1]
      /\ t = [i \in 1..Len(s) |-> s[(Len(s) - i) + 1]]
  BY DEF Reverse
<1>4. t \in [1..Len(s) -> S]
  BY <1>1, <1>2, <1>3
<1> HIDE DEF t
<1>5. t \in Seq(S)
  BY <1>1, <1>4
<1>6. \A e \in ToSet(t) : e \in ToSet(s)
  BY <1>1, <1>2, <1>3 DEF ToSet
<1> QED BY <1>5, <1>6 DEF t

\* What git log lists is on the branch, or is the worktree's own work.
LEMMA GitLog ==
    ASSUME TypeOK, NEW w \in worktrees, w.fork <= Len(main)
    PROVE  /\ gitLog(w) \in Seq(Commit)
           /\ \A c \in ToSet(gitLog(w)) : onMain(c) \/ (c.run = w.run /\ c.plan = w.plan)
<1> DEFINE ours == [k \in 1..w.commits |-> [run |-> w.run, plan |-> w.plan, k |-> k]]
           theirs == IF Symmetric THEN SubSeq(main, w.fork + 1, Len(main)) ELSE <<>>
           a == Reverse(theirs)
           b == Reverse(ours)
<1>1. gitLog(w) = a \o b
  BY DEF gitLog
<1>2. /\ w \in Worktree /\ w.plan \in Plans /\ w.run \in Nat /\ w.fork \in Nat
      /\ Len(main) \in Nat /\ DOMAIN main = 1..Len(main) /\ main \in Seq(Commit)
  BY Contents DEF TypeOK
<1>3. w.commits \in Nat
  BY <1>2 DEF Worktree
<1>4. ours \in Seq(Commit) /\ \A c \in ToSet(ours) : c.run = w.run /\ c.plan = w.plan
  <2>1. \A k \in 1..w.commits : [run |-> w.run, plan |-> w.plan, k |-> k] \in Commit
    BY <1>2, <1>3 DEF Commit
  <2>2. ours \in [1..w.commits -> Commit]
    BY <2>1
  <2>3. ours \in Seq(Commit)
    <3> HIDE DEF ours
    <3> QED BY <1>3, <2>2
  <2> QED BY <2>3 DEF ToSet
<1>5. theirs \in Seq(Commit) /\ \A c \in ToSet(theirs) : onMain(c)
  <2>1. CASE Symmetric
    <3> DEFINE t == SubSeq(main, w.fork + 1, Len(main))
    <3>1. /\ t \in Seq(Commit)
          /\ \A i \in DOMAIN t : w.fork + i \in DOMAIN main /\ t[i] = main[w.fork + i]
      <4> DEFINE f == w.fork + 1
                 n == Len(main)
      <4>1. f \in Nat /\ n \in Nat /\ main \in Seq(Commit) /\ f >= 1
        BY <1>2
      <4>2. t = SubSeq(main, f, n)
        OBVIOUS
      <4> HIDE DEF t, f, n
      <4>3. t = [i \in 1..((n - f) + 1) |-> main[(f - 1) + i]]
        BY <4>1, <4>2
      <4>4. DOMAIN t = 1..((n - f) + 1) /\ \A i \in DOMAIN t : t[i] = main[(f - 1) + i]
        BY <4>3
      <4>5. \A i \in 1..((n - f) + 1) : (f - 1) + i \in 1..n /\ w.fork + i = (f - 1) + i
        <5>1. f = w.fork + 1 /\ w.fork \in Nat /\ f \in Nat /\ n \in Nat
          BY <1>2, <4>1 DEF f
        <5>2. (f - 1) = w.fork
          BY <5>1
        <5>3. \A i \in 1..((n - f) + 1) : (f - 1) + i \in 1..n
          <6>1. f \in Nat \ {0} /\ n \in Nat
            BY <4>1
          <6> QED BY <6>1
        <5> QED BY <5>2, <5>3
      <4>6. \A i \in 1..n : main[i] \in Commit
        BY <1>2 DEF n
      <4>7. t \in [1..((n - f) + 1) -> Commit] /\ (n - f) + 1 \in Nat
        BY <1>2, <4>1, <4>3, <4>5, <4>6 DEF f, n
      <4>8. t \in Seq(Commit)
        BY <4>7
      <4>9. \A i \in DOMAIN t : w.fork + i \in 1..n /\ t[i] = main[w.fork + i]
        BY <4>4, <4>5
      <4> QED BY <1>2, <4>8, <4>9 DEF n
    <3> HIDE DEF t
    <3>2. \A c \in ToSet(t) : onMain(c)
      BY <3>1 DEF ToSet, onMain
    <3> QED BY <2>1, <3>1, <3>2 DEF t
  <2>2. CASE ~Symmetric
    BY <2>2, EmptyElements
  <2> QED BY <2>1, <2>2
<1> HIDE DEF ours, theirs
<1>6. /\ a \in Seq(Commit) /\ b \in Seq(Commit)
      /\ \A c \in ToSet(a) : c \in ToSet(theirs)
      /\ \A c \in ToSet(b) : c \in ToSet(ours)
  BY <1>4, <1>5, ReverseElements
<1> HIDE DEF a, b
<1>7. /\ a \o b \in Seq(Commit)
      /\ \A c \in ToSet(a \o b) : c \in ToSet(a) \/ c \in ToSet(b)
  <2>1. /\ a \o b \in Seq(Commit) /\ Len(a) \in Nat /\ Len(b) \in Nat
        /\ DOMAIN a = 1..Len(a) /\ DOMAIN b = 1..Len(b)
        /\ DOMAIN (a \o b) = 1..(Len(a) + Len(b))
        /\ \A i \in 1..(Len(a) + Len(b)) :
              (a \o b)[i] = IF i <= Len(a) THEN a[i] ELSE b[i - Len(a)]
    BY <1>6
  <2>2. \A i \in 1..(Len(a) + Len(b)) : i \in 1..Len(a) \/ (~(i <= Len(a)) /\ i - Len(a) \in 1..Len(b))
    BY <2>1
  <2>3. \A i \in 1..Len(a) : i <= Len(a)
    BY <2>1
  <2> DEFINE ab == a \o b
  <2>4. \A i \in DOMAIN ab : (\E j \in DOMAIN a : ab[i] = a[j]) \/ (\E j \in DOMAIN b : ab[i] = b[j])
    BY <2>1, <2>2, <2>3
  <2> HIDE DEF ab
  <2>5. \A c \in ToSet(ab) : c \in ToSet(a) \/ c \in ToSet(b)
    BY <2>4 DEF ToSet
  <2> QED BY <2>1, <2>5 DEF ab
<1> QED BY <1>1, <1>4, <1>5, <1>6, <1>7

\* The list is taken while the worktree is there.
LEMMA BeginPickInv ==
    ASSUME Inv, BeginPick
    PROVE  Inv'
<1> DEFINE p == Head(run.todo)
           w == worktreeOf(p)
           l == gitLog(w)
<1>1. /\ run \in Run /\ run.pc = "pick" /\ run.todo # <<>>
      /\ run' = [run EXCEPT !.pc = "picking", !.picks = l]
      /\ UNCHANGED <<main, stuck, worktrees, agent, crashes>>
  BY DEF BeginPick, Inv, TypeOK, repo
<1>2. run.todo \in Seq(Plans)
  BY <1>1 DEF Run
<1>3. p \in Plans /\ p \in ToSet(run.todo)
  BY <1>1, <1>2, TailElements
<1>4. waveOf(p) = run.wave
  BY <1>1, <1>3 DEF Inv, Todo
<1>5. Own(p)
  BY <1>1, <1>3, <1>4 DEF Inv, Housed, plansOf
<1> HIDE DEF p
<1>6. w \in worktrees /\ w.plan = p /\ w.run = run.n
  BY <1>3, <1>5, TheWorktree
<1>7. w.fork <= Len(main)
  BY <1>6 DEF Inv, Past
<1> HIDE DEF w
<1>8. l \in Seq(Commit) /\ \A c \in ToSet(l) : onMain(c) \/ (c.run = run.n /\ c.plan = p)
  BY <1>6, <1>7, GitLog DEF Inv
<1> HIDE DEF l
<1>9. run' \in Run
  BY <1>1, <1>8 DEF Run, PCs
<1>10. /\ run'.pc = "picking" /\ run'.n = run.n /\ run'.wave = run.wave /\ run'.picks = l
       /\ run'.todo = run.todo /\ run'.managed = run.managed
       /\ run'.completed = run.completed /\ run'.failed = run.failed
       /\ run'.skipped = run.skipped /\ run'.aborted = run.aborted
       /\ run'.outcome = run.outcome /\ run'.kept = run.kept
  BY <1>1 DEF Run
<1>11. TypeOK'
  BY <1>1, <1>9 DEF Inv, TypeOK
<1>12. Past' /\ Landed' /\ Forked' /\ Managed'
  BY <1>1, <1>10 DEF Inv, Past, Landed, Forked, Managed, unpicked
<1>13. Todo'
  <2>1. \A c \in ToSet(l) : onMain(c) \/ (c.run = run.n /\ c.plan = Head(run.todo))
    BY <1>8 DEF p
  <2> QED BY <1>1, <1>10, <2>1 DEF Inv, Todo, onMain
<1>14. Housed' /\ Agents'
  BY <1>1, <1>10 DEF Inv, Housed, Own, plansOf, Agents, inWave, unpicked, picked
<1>15. Counts'
  <2>1. okCounted' = okCounted /\ failedCounted' = failedCounted
    BY <1>1, <1>10 DEF okCounted, failedCounted
  <2>2. run'.pc \in inWave /\ run.pc \in inWave
    BY <1>1, <1>10 DEF inWave, picked
  <2> QED BY <1>1, <1>10, <2>1, <2>2 DEF Inv, Counts, TotalsCountSkippedTwice
<1> QED BY <1>11, <1>12, <1>13, <1>14, <1>15 DEF Inv

\* What lands is new, and comes from the plan at the head of the list.
LEMMA PickCommitInv ==
    ASSUME Inv, PickCommit
    PROVE  Inv'
<1> DEFINE c == Head(run.picks)
           t == Tail(run.picks)
           p == Head(run.todo)
           l == Append(main, c)
<1>1. /\ run \in Run /\ run.pc = "picking" /\ run.picks # <<>> /\ ~onMain(c)
      /\ main' = l /\ stuck' = "no"
      /\ run' = [run EXCEPT !.picks = t]
      /\ UNCHANGED <<worktrees, agent, crashes>>
  BY DEF PickCommit, Inv, TypeOK
<1>2. /\ run.picks \in Seq(Commit) /\ run.todo \in Seq(Plans) /\ run.n \in Nat /\ run.wave \in Nat
      /\ main \in Seq(Commit)
  BY <1>1 DEF Run, Inv, TypeOK
<1>3. t \in Seq(Commit) /\ c \in Commit /\ ToSet(run.picks) = ToSet(t) \cup {c}
  BY <1>1, <1>2, TailElements
<1>4. run.todo # <<>> /\ c.run = run.n /\ c.plan = p
  BY <1>1, <1>3 DEF Inv, Todo
<1>5. p \in Plans /\ p \in ToSet(run.todo)
  BY <1>2, <1>4, TailElements
<1>6. agent[p] = "ok" /\ waveOf(p) = run.wave
  BY <1>1, <1>5 DEF Inv, Todo
<1>7. Distinct(main) /\ c \notin ToSet(main)
  BY <1>1 DEF onMain, Inv, Landed
<1>8. /\ l \in Seq(Commit) /\ ToSet(l) = ToSet(main) \cup {c} /\ Distinct(l)
  BY <1>2, <1>3, <1>7, AppendElements
<1>9. /\ Len(main) \in Nat /\ DOMAIN main = 1..Len(main) /\ Len(l) = Len(main) + 1
      /\ DOMAIN l = 1..(Len(main) + 1)
      /\ \A i \in 1..Len(main) : l[i] = main[i]
      /\ l[Len(main) + 1] = c
  BY <1>2, <1>3
<1>10. run' \in Run
  BY <1>1, <1>3 DEF Run
<1> HIDE DEF c, t, p, l
<1>11. /\ run'.pc = "picking" /\ run'.n = run.n /\ run'.wave = run.wave /\ run'.picks = t
       /\ run'.todo = run.todo /\ run'.managed = run.managed
       /\ run'.completed = run.completed /\ run'.failed = run.failed
       /\ run'.skipped = run.skipped /\ run'.aborted = run.aborted
       /\ run'.outcome = run.outcome /\ run'.kept = run.kept
  BY <1>1 DEF Run
<1>12. \A i \in DOMAIN l : (i \in DOMAIN main /\ l[i] = main[i] /\ i <= Len(main))
                           \/ (i = Len(main) + 1 /\ l[i] = c)
  BY <1>9
<1>13. \A i \in DOMAIN main : main[i].run = run.n =>
          agent[main[i].plan] = "ok" /\ waveOf(main[i].plan) <= run.wave
  BY DEF Inv, Landed
<1>14. TypeOK'
  BY <1>1, <1>8, <1>10 DEF Inv, TypeOK
<1>15. Past'
  <2>1. \A w \in worktrees : w.run <= run.n /\ w.fork <= Len(main) /\ w.fork \in Nat
    BY Contents DEF Inv, Past
  <2>2. \A w \in worktrees : w.fork <= Len(l)
    BY <1>9, <2>1
  <2>3. \A i \in DOMAIN l : l[i].run <= run.n
    BY <1>2, <1>4, <1>12 DEF Inv, Past
  <2> QED BY <1>1, <1>11, <2>1, <2>2, <2>3 DEF Inv, Past
<1>16. Landed'
  <2>1. \A i \in DOMAIN l : l[i].run = run.n =>
           agent[l[i].plan] = "ok" /\ waveOf(l[i].plan) <= run.wave
    BY <1>2, <1>4, <1>6, <1>12, <1>13
  <2>2. ASSUME NEW i \in DOMAIN l, NEW j \in DOMAIN l, i < j, l[i].run = l[j].run
        PROVE  waveOf(l[i].plan) <= waveOf(l[j].plan)
    <3>1. i \in DOMAIN main /\ l[i] = main[i]
      BY <1>9, <1>12, <2>2
    <3>2. CASE j \in DOMAIN main /\ l[j] = main[j]
      BY <2>2, <3>1, <3>2 DEF Inv, Landed
    <3>3. CASE j = Len(main) + 1 /\ l[j] = c
      <4>1. main[i].run = run.n /\ waveOf(l[j].plan) = run.wave
        BY <1>4, <1>6, <2>2, <3>1, <3>3
      <4> QED BY <1>13, <3>1, <4>1
    <3> QED BY <1>12, <3>2, <3>3
  <2> QED BY <1>1, <1>8, <1>11, <2>1, <2>2 DEF Landed, unpicked
<1>17. Forked'
  <2>1. ASSUME NEW w \in worktrees, w.run = run.n, NEW i \in DOMAIN l, l[i].run = run.n
        PROVE  i <= w.fork <=> waveOf(l[i].plan) < waveOf(w.plan)
    <3>1. /\ waveOf(w.plan) <= run.wave
          /\ \A j \in DOMAIN main : main[j].run = run.n =>
                (j <= w.fork <=> waveOf(main[j].plan) < waveOf(w.plan))
      BY <2>1 DEF Inv, Forked
    <3>2. w.fork \in Nat /\ w.fork <= Len(main) /\ waveOf(w.plan) \in Nat
      BY Contents, WaveType DEF Inv, Past
    <3>3. CASE i \in DOMAIN main /\ l[i] = main[i]
      BY <2>1, <3>1, <3>3
    <3>4. CASE i = Len(main) + 1 /\ l[i] = c
      <4>1. ~(i <= w.fork)
        BY <1>9, <3>2, <3>4
      <4>2. waveOf(l[i].plan) = run.wave
        BY <1>4, <1>6, <3>4
      <4> QED BY <1>2, <3>1, <3>2, <4>1, <4>2
    <3> QED BY <1>12, <3>3, <3>4
  <2>2. \A w \in worktrees : w.run = run.n => waveOf(w.plan) <= run.wave
    BY DEF Inv, Forked
  <2> QED BY <1>1, <1>11, <2>1, <2>2 DEF Forked
<1>18. Managed' /\ Housed' /\ Agents'
  BY <1>1, <1>11 DEF Inv, Managed, Housed, Own, plansOf, Agents
<1>19. Todo'
  <2>1. \A d \in ToSet(t) : d \in ToSet(l) \/ (d.run = run.n /\ d.plan = Head(run.todo))
    BY <1>1, <1>3, <1>8 DEF Inv, Todo, onMain
  <2> QED BY <1>1, <1>4, <1>11, <2>1 DEF Inv, Todo, onMain
<1>20. Counts'
  <2>1. okCounted' = okCounted /\ failedCounted' = failedCounted
    BY <1>1, <1>11 DEF okCounted, failedCounted
  <2> QED BY <1>1, <1>11, <2>1 DEF Inv, Counts, TotalsCountSkippedTwice
<1> QED BY <1>14, <1>15, <1>16, <1>17, <1>18, <1>19, <1>20 DEF Inv

\* A plan whose commits were picked, or given up on, is counted.
LEMMA PlanPicked ==
    ASSUME Inv, run.pc = "picking", run' = planPicked(run), UNCHANGED <<main, worktrees, agent, crashes>>,
           stuck' \in {"no", "empty", "conflict"}
    PROVE  Inv'
<1> DEFINE p == Head(run.todo)
           t == Tail(run.todo)
<1>1. run \in Run /\ run.todo \in Seq(Plans) /\ run.todo # <<>> /\ run.completed \in Nat
  BY DEF Inv, TypeOK, Run, Todo
<1>2. /\ t \in Seq(Plans) /\ p \in Plans
      /\ ToSet(run.todo) = ToSet(t) \cup {p}
      /\ Distinct(run.todo) => Distinct(t) /\ p \notin ToSet(t)
  BY <1>1, TailElements
<1>3. run' = [run EXCEPT !.pc = "pick", !.picks = <<>>, !.todo = t, !.completed = run.completed + 1]
  BY DEF planPicked
<1> HIDE DEF p, t
<1>4. Distinct(t) /\ p \notin ToSet(t) /\ agent[p] = "ok" /\ waveOf(p) = run.wave
  BY <1>2 DEF Inv, Todo
<1>5. run' \in Run
  <2>1. <<>> \in Seq(Commit) /\ "pick" \in PCs /\ run.completed + 1 \in Nat
    BY <1>1, EmptyElements DEF PCs
  <2> QED BY <1>1, <1>2, <1>3, <2>1 DEF Run
<1>6. /\ run'.pc = "pick" /\ run'.n = run.n /\ run'.wave = run.wave
      /\ run'.todo = t /\ run'.managed = run.managed
      /\ run'.completed = run.completed + 1 /\ run'.failed = run.failed
      /\ run'.skipped = run.skipped /\ run'.aborted = run.aborted
      /\ run'.outcome = run.outcome /\ run'.kept = run.kept
  BY <1>1, <1>3 DEF Run
<1>7. TypeOK'
  BY <1>5 DEF Inv, TypeOK
<1>8. Past' /\ Landed' /\ Forked' /\ Managed'
  BY <1>6 DEF Inv, Past, Landed, Forked, Managed, unpicked
<1>9. Todo'
  BY <1>2, <1>4, <1>6 DEF Inv, Todo
<1>10. Housed' /\ Agents'
  BY <1>6 DEF Inv, Housed, Own, plansOf, Agents, inWave, unpicked, picked
<1>11. Counts'
  <2>1. okCounted' = okCounted \cup {p} /\ p \notin okCounted
    BY <1>2, <1>4, <1>6 DEF okCounted
  <2>2. failedCounted' = failedCounted
    BY <1>6 DEF failedCounted
  <2>3. okCounted \in SUBSET Plans
    BY DEF okCounted
  <2>4. IsFiniteSet(okCounted) /\ Cardinality(okCounted) \in Nat
    BY <2>3, PlansAreFinite, FS_Subset, FS_CardinalityType
  <2>5. Cardinality(okCounted \cup {p}) = Cardinality(okCounted) + 1
    BY <2>1, <2>4, FS_AddElement
  <2>6. run'.pc \in inWave /\ run.pc \in inWave
    BY <1>6 DEF inWave, picked
  <2>7. run'.completed = Cardinality(okCounted')
    BY <1>6, <2>1, <2>5, <2>6 DEF Inv, Counts
  <2> QED BY <1>6, <2>2, <2>6, <2>7 DEF Inv, Counts, TotalsCountSkippedTwice
<1> QED BY <1>7, <1>8, <1>9, <1>10, <1>11 DEF Inv

\* A failed pick stops at the plan.
LEMMA PickFailsInv ==
    ASSUME Inv, PickFails
    PROVE  Inv'
<1>1. /\ run.pc = "picking" /\ run' = planPicked(run) /\ UNCHANGED <<main, worktrees, agent, crashes>>
      /\ stuck' \in {"no", "empty", "conflict"}
  BY DEF PickFails, Inv, TypeOK
<1> QED BY <1>1, PlanPicked

\* So does the end of its list.
LEMMA PickEndsInv ==
    ASSUME Inv, PickEnds
    PROVE  Inv'
<1>1. /\ run.pc = "picking" /\ run' = planPicked(run) /\ UNCHANGED <<main, worktrees, agent, crashes>>
      /\ stuck' \in {"no", "empty", "conflict"}
  BY DEF PickEnds, repo, Inv, TypeOK
<1> QED BY <1>1, PlanPicked

\* What is counted when nothing of the wave is left to pick.
LEMMA CountedAtWaveEnd ==
    ASSUME Inv, \/ run.pc = "pick" /\ run.todo = <<>>
                \/ run.pc = "failures"
    PROVE  /\ ~run.aborted
           /\ run.completed = Cardinality({p \in Plans : agent[p] = "ok"})
           /\ run.failed + Cardinality(failedPlans(run.wave))
                = Cardinality({p \in Plans : agent[p] = "failed"}) + Cardinality(run.skipped)
           /\ Cardinality(failedPlans(run.wave)) \in Nat
<1> DEFINE F == failedPlans(run.wave)
           G == {p \in Plans : agent[p] = "failed"}
<1>1. run.pc \in inWave /\ run.pc \in picked
  BY DEF inWave, picked
<1>2. /\ ~run.aborted
      /\ run.completed = Cardinality(okCounted)
      /\ run.failed = Cardinality(failedCounted) + Cardinality(run.skipped)
  BY <1>1 DEF Inv, Counts
<1>3. okCounted = {p \in Plans : agent[p] = "ok"}
  <2>1. run.pc = "pick" => ToSet(run.todo) = {}
    BY EmptyElements
  <2> QED BY <2>1 DEF okCounted
<1>4. run.wave \in Nat /\ \A p \in Plans : waveOf(p) \in Nat
  BY WaveType DEF Inv, TypeOK, Run
<1>5. \A p \in Plans : waveOf(p) > run.wave => agent[p] = "none"
  BY <1>1 DEF Inv, Agents
<1>6. failedCounted \cup F = G /\ failedCounted \cap F = {}
  <2>1. \A p \in Plans : agent[p] = "failed" => waveOf(p) < run.wave \/ waveOf(p) = run.wave
    BY <1>4, <1>5
  <2>2. \A p \in Plans : ~(waveOf(p) < run.wave /\ waveOf(p) = run.wave)
    BY <1>4
  <2> QED BY <2>1, <2>2 DEF failedCounted, failedPlans, plansOf
<1>7. failedCounted \in SUBSET Plans /\ F \in SUBSET Plans /\ run.skipped \in SUBSET Plans
  BY DEF failedCounted, failedPlans, plansOf, Inv, TypeOK, Run
<1> HIDE DEF F, G
<1>8. /\ IsFiniteSet(failedCounted) /\ IsFiniteSet(F) /\ IsFiniteSet(run.skipped)
  BY <1>7, PlansAreFinite, FS_Subset
<1>9. /\ Cardinality(failedCounted) \in Nat /\ Cardinality(F) \in Nat
      /\ Cardinality(run.skipped) \in Nat
  BY <1>8, FS_CardinalityType
<1>10. Cardinality(G) = Cardinality(failedCounted) + Cardinality(F) - Cardinality({})
  BY <1>6, <1>8, FS_Union
<1>11. Cardinality({}) = 0
  BY FS_EmptySet
<1>12. run.failed + Cardinality(F) = Cardinality(G) + Cardinality(run.skipped)
  BY <1>2, <1>9, <1>10, <1>11
<1> QED BY <1>2, <1>3, <1>9, <1>12 DEF F, G

\* A wave whose agents all succeeded is over; otherwise the user is asked.
LEMMA WavePickedInv ==
    ASSUME Inv, WavePicked
    PROVE  Inv'
<1>1. /\ run \in Run /\ run.pc = "pick" /\ run.todo = <<>>
      /\ UNCHANGED <<main, stuck, worktrees, agent, crashes>>
  BY DEF WavePicked, Inv, TypeOK, repo
<1>2. CASE failedPlans(run.wave) = {} /\ run' = nextWave(run)
  <2>1. Cardinality(failedPlans(run.wave)) = 0
    BY <1>2, FS_EmptySet
  <2>2. run.failed \in Nat
    BY <1>1 DEF Run
  <2>3. /\ run.completed = Cardinality({p \in Plans : agent[p] = "ok"})
        /\ run.failed = Cardinality({p \in Plans : agent[p] = "failed"})
                          + Cardinality(run.skipped)
    BY <1>1, <2>1, <2>2, CountedAtWaveEnd
  <2>4. WaveOver(run, agent)
    BY <1>1, <2>3, AtWaveEnd
  <2> QED BY <1>1, <1>2, <2>4, EntersWave
<1>3. CASE run' = [run EXCEPT !.pc = "failures"]
  <2>1. run' \in Run
    BY <1>1, <1>3 DEF Run, PCs
  <2>2. /\ run'.pc = "failures" /\ run'.n = run.n /\ run'.wave = run.wave
        /\ run'.todo = run.todo /\ run'.managed = run.managed
        /\ run'.completed = run.completed /\ run'.failed = run.failed
        /\ run'.skipped = run.skipped /\ run'.aborted = run.aborted
        /\ run'.outcome = run.outcome /\ run'.kept = run.kept
    BY <1>1, <1>3 DEF Run
  <2>3. TypeOK'
    BY <1>1, <2>1 DEF Inv, TypeOK
  <2>4. Past' /\ Landed' /\ Forked' /\ Managed'
    BY <1>1, <2>2 DEF Inv, Past, Landed, Forked, Managed, unpicked
  <2>5. Todo' /\ Housed'
    BY <2>2 DEF Todo, Housed
  <2>6. Agents'
    BY <1>1, <2>2 DEF Inv, Agents, inWave, unpicked, picked
  <2>7. Counts'
    <3>1. ToSet(run.todo) = {}
      BY <1>1, EmptyElements
    <3>2. okCounted' = okCounted /\ failedCounted' = failedCounted
      BY <1>1, <2>2, <3>1 DEF okCounted, failedCounted
    <3>3. run'.pc \in inWave /\ run.pc \in inWave
      BY <1>1, <2>2 DEF inWave, picked
    <3> QED BY <1>1, <2>2, <3>2, <3>3 DEF Inv, Counts, TotalsCountSkippedTwice
  <2> QED BY <2>3, <2>4, <2>5, <2>6, <2>7 DEF Inv
<1> QED BY <1>2, <1>3 DEF WavePicked

\* The failures are counted before the next wave.
LEMMA AskFailuresInv ==
    ASSUME Inv, AskFailures
    PROVE  Inv'
<1> DEFINE n == Cardinality(failedPlans(run.wave))
           aborts == [run EXCEPT !.aborted = TRUE]
           counts == [run EXCEPT !.failed = @ + n]
<1>1. /\ run \in Run /\ run.pc = "failures"
      /\ UNCHANGED <<main, stuck, worktrees, agent, crashes>>
  BY DEF AskFailures, Inv, TypeOK, repo
<1>2. run' = nextWave(aborts) \/ run' = nextWave(counts)
  BY DEF AskFailures
<1>3. /\ ~run.aborted
      /\ run.completed = Cardinality({p \in Plans : agent[p] = "ok"})
      /\ run.failed + n = Cardinality({p \in Plans : agent[p] = "failed"}) + Cardinality(run.skipped)
      /\ n \in Nat
  BY <1>1, CountedAtWaveEnd
<1> HIDE DEF n
<1>4. CASE run' = nextWave(aborts)
  <2>1. aborts \in Run
    BY <1>1 DEF Run
  <2>2. /\ aborts.n = run.n /\ aborts.wave = run.wave /\ aborts.managed = run.managed
        /\ aborts.kept = run.kept /\ aborts.aborted = TRUE /\ aborts.outcome = run.outcome
    BY <1>1 DEF Run
  <2> HIDE DEF aborts
  <2>3. WaveOver(aborts, agent)
    BY <1>1, <2>1, <2>2, AtWaveEnd
  <2> QED BY <1>1, <1>4, <2>3, EntersWave
<1>5. CASE run' = nextWave(counts)
  <2>1. counts \in Run
    <3>1. run.failed + n \in Nat
      BY <1>1, <1>3 DEF Run
    <3> QED BY <1>1, <3>1 DEF Run
  <2>2. /\ counts.n = run.n /\ counts.wave = run.wave /\ counts.managed = run.managed
        /\ counts.kept = run.kept /\ counts.outcome = run.outcome
        /\ counts.skipped = run.skipped /\ counts.completed = run.completed
        /\ counts.failed = run.failed + n
    BY <1>1 DEF Run
  <2> HIDE DEF counts
  <2>3. WaveOver(counts, agent)
    BY <1>1, <1>3, <2>1, <2>2, AtWaveEnd
  <2> QED BY <1>1, <1>5, <2>3, EntersWave
<1> QED BY <1>2, <1>4, <1>5

\* The cleanup goes through what the manager knows.
LEMMA RemoveWorktreeInv ==
    ASSUME Inv, RemoveWorktree
    PROVE  Inv'
<1> DEFINE p == Head(run.managed)
           t == Tail(run.managed)
           gone == [run EXCEPT !.managed = t]
           stays == [run EXCEPT !.managed = t, !.kept = run.kept \cup {p}]
<1>1. /\ run \in Run /\ run.pc = "cleanup" /\ run.managed # <<>>
      /\ UNCHANGED <<main, stuck, agent, crashes>>
      /\ \/ worktrees' = {w \in worktrees : w.plan # p} /\ run' = gone
         \/ UNCHANGED worktrees /\ run' = stays
  BY DEF RemoveWorktree, Inv, TypeOK, repo
<1>2. run.managed \in Seq(Plans) /\ run.kept \in SUBSET Plans
  BY <1>1 DEF Run
<1>3. /\ t \in Seq(Plans) /\ p \in Plans
      /\ ToSet(run.managed) = ToSet(t) \cup {p}
  BY <1>1, <1>2, TailElements
<1> HIDE DEF p, t
<1>4. gone \in Run /\ stays \in Run
  <2>1. run.kept \cup {p} \in SUBSET Plans
    BY <1>2, <1>3
  <2> QED BY <1>1, <1>3, <2>1 DEF Run
<1>5. /\ run' \in Run /\ run'.pc = "cleanup" /\ run'.n = run.n /\ run'.wave = run.wave
      /\ run'.managed = t
      /\ run'.completed = run.completed /\ run'.failed = run.failed
      /\ run'.skipped = run.skipped /\ run'.aborted = run.aborted
      /\ run'.outcome = run.outcome
  <2>1. CASE run' = gone
    BY <1>1, <1>4, <2>1 DEF Run
  <2>2. CASE run' = stays
    BY <1>1, <1>4, <2>2 DEF Run
  <2> QED BY <1>1, <2>1, <2>2
<1>6. /\ \A w \in worktrees' : w \in worktrees
      /\ \A w \in worktrees' : w.plan = p => p \in run'.kept
      /\ \A q \in run.kept : q \in run'.kept
  <2>1. CASE run' = gone /\ worktrees' = {w \in worktrees : w.plan # p}
    <3>1. run'.kept = run.kept
      BY <1>1, <2>1 DEF Run
    <3> QED BY <2>1, <3>1
  <2>2. CASE run' = stays /\ UNCHANGED worktrees
    <3>1. run'.kept = run.kept \cup {p}
      BY <1>1, <2>2 DEF Run
    <3> QED BY <2>2, <3>1
  <2> QED BY <1>1, <2>1, <2>2
<1> HIDE DEF gone, stays
<1>7. TypeOK'
  BY <1>1, <1>5, <1>6 DEF Inv, TypeOK
<1>8. Past' /\ Landed' /\ Forked'
  BY <1>1, <1>5, <1>6 DEF Inv, Past, Landed, Forked
<1>9. Managed'
  BY <1>1, <1>3, <1>5, <1>6 DEF Inv, Managed
<1>10. Todo' /\ Housed'
  BY <1>5 DEF Todo, Housed
<1>11. Agents'
  BY <1>1, <1>5 DEF Inv, Agents
<1>12. Counts'
  BY <1>1, <1>5 DEF Inv, Counts, TotalsCountSkippedTwice, inWave, unpicked, picked
<1> QED BY <1>7, <1>8, <1>9, <1>10, <1>11, <1>12 DEF Inv

\* What is left when the manager knows nothing more was kept.
LEMMA EndInv ==
    ASSUME Inv, End
    PROVE  Inv'
<1>1. /\ run \in Run /\ run.pc = "cleanup" /\ run.managed = <<>>
      /\ run' = [run EXCEPT !.pc = "ended"]
      /\ UNCHANGED <<main, stuck, worktrees, agent, crashes>>
  BY DEF End, Inv, TypeOK, repo
<1>2. run' \in Run
  BY <1>1 DEF Run, PCs
<1>3. /\ run'.pc = "ended" /\ run'.n = run.n /\ run'.wave = run.wave
      /\ run'.completed = run.completed /\ run'.failed = run.failed
      /\ run'.skipped = run.skipped /\ run'.aborted = run.aborted
      /\ run'.outcome = run.outcome /\ run'.kept = run.kept
  BY <1>1 DEF Run
<1>4. TypeOK'
  BY <1>1, <1>2 DEF Inv, TypeOK
<1>5. Past' /\ Landed' /\ Forked'
  BY <1>1, <1>3 DEF Inv, Past, Landed, Forked, unpicked
<1>6. Managed'
  <2>1. ToSet(run.managed) = {}
    BY <1>1, EmptyElements
  <2> QED BY <1>1, <1>3, <2>1 DEF Inv, Managed
<1>7. Todo' /\ Housed'
  BY <1>3 DEF Todo, Housed
<1>8. Agents'
  BY <1>1, <1>3 DEF Inv, Agents, inWave, unpicked, picked
<1>9. Counts'
  BY <1>1, <1>3 DEF Inv, Counts, TotalsCountSkippedTwice, inWave, unpicked, picked
<1> QED BY <1>4, <1>5, <1>6, <1>7, <1>8, <1>9 DEF Inv

\* A run that dies takes its agents with it, and promises nothing else.
LEMMA CrashInv ==
    ASSUME Inv, Crash
    PROVE  Inv'
<1> DEFINE a == [p \in Plans |-> IF agent[p] = "running" THEN "failed" ELSE agent[p]]
<1>1. /\ run \in Run /\ agent' = a /\ crashes' = crashes + 1 /\ crashes < MaxCrashes
      /\ run' = [run EXCEPT !.pc = "ended", !.outcome = "crashed", !.todo = <<>>, !.picks = <<>>]
      /\ UNCHANGED <<main, stuck, worktrees>>
  BY DEF Crash, Inv, TypeOK, repo
<1>2. /\ a \in [Plans -> AgentStates]
      /\ \A p \in Plans : a[p] # "running" /\ (agent[p] = "ok" => a[p] = "ok")
  BY DEF AgentStates, Inv, TypeOK
<1>3. crashes' \in 0..MaxCrashes
  <2>1. MaxCrashes \in Nat /\ crashes \in 0..MaxCrashes
    BY ExecuteAssumption DEF Inv, TypeOK
  <2> QED BY <1>1, <2>1
<1> HIDE DEF a
<1>4. run' \in Run
  BY <1>1, EmptyElements DEF Run, PCs, Outcomes
<1>5. /\ run'.pc = "ended" /\ run'.outcome = "crashed" /\ run'.n = run.n /\ run'.wave = run.wave
  BY <1>1 DEF Run
<1>6. TypeOK'
  BY <1>1, <1>2, <1>3, <1>4 DEF Inv, TypeOK
<1>7. Past' /\ Forked'
  BY <1>1, <1>5 DEF Inv, Past, Forked
<1>8. Landed'
  <2>1. \A i \in DOMAIN main : main[i].plan \in Plans
    BY Contents DEF Inv
  <2> QED BY <1>1, <1>2, <1>5, <2>1 DEF Inv, Landed, unpicked
<1>9. Managed' /\ Todo' /\ Housed'
  BY <1>5 DEF Managed, Todo, Housed
<1>10. Agents'
  BY <1>1, <1>2, <1>5 DEF Agents, inWave, unpicked, picked
<1>11. Counts'
  BY <1>5 DEF Counts, TotalsCountSkippedTwice, inWave, unpicked, picked
<1> QED BY <1>6, <1>7, <1>8, <1>9, <1>10, <1>11 DEF Inv

\* The user clears worktrees of runs that have ended.
LEMMA CleanUpByHandInv ==
    ASSUME Inv, CleanUpByHand
    PROVE  Inv'
<1>1. /\ run.pc = "ended" /\ UNCHANGED <<main, agent, run, crashes>>
      /\ \A w \in worktrees' : w \in worktrees
      /\ stuck' \in {"no", "empty", "conflict"}
  BY DEF CleanUpByHand, Inv, TypeOK
<1>2. TypeOK'
  BY <1>1 DEF Inv, TypeOK
<1>3. Past' /\ Landed' /\ Forked' /\ Managed'
  BY <1>1 DEF Inv, Past, Landed, Forked, Managed
<1>4. Todo' /\ Housed'
  BY <1>1 DEF Todo, Housed
<1>5. Agents' /\ Counts'
  BY <1>1 DEF Inv, Agents, Counts, TotalsCountSkippedTwice, inWave, unpicked, picked
<1> QED BY <1>2, <1>3, <1>4, <1>5 DEF Inv

-----------------------------------------------------------------------------
(* The theorems *)

\* At first there is nothing.
LEMMA InitInv ==
    ASSUME Init
    PROVE  Inv
<1>1. /\ main = <<>> /\ stuck = "no" /\ worktrees = {} /\ crashes = 0
      /\ run = NoRun /\ agent = [p \in Plans |-> "none"]
  BY DEF Init
<1>2. NoRun \in Run
  BY EmptyElements DEF NoRun, Run, PCs, Outcomes
<1>3. NoRun.pc = "idle" /\ NoRun.outcome = "none"
  BY DEF NoRun
<1>4. main \in Seq(Commit) /\ DOMAIN main = {}
  BY <1>1, EmptyElements
<1>5. agent \in [Plans -> AgentStates] /\ \A p \in Plans : agent[p] = "none"
  BY <1>1 DEF AgentStates
<1>6. crashes \in 0..MaxCrashes
  BY <1>1, ExecuteAssumption
<1> HIDE DEF NoRun
<1>7. TypeOK
  BY <1>1, <1>2, <1>4, <1>5, <1>6 DEF TypeOK
<1>8. Past /\ Landed /\ Forked /\ Managed
  BY <1>1, <1>4 DEF Past, Landed, Forked, Managed, Distinct
<1>9. Todo /\ Housed
  BY <1>1, <1>3 DEF Todo, Housed
<1>10. Agents /\ Counts
  BY <1>1, <1>3, <1>5 DEF Agents, Counts, TotalsCountSkippedTwice, inWave, unpicked, picked
<1> QED BY <1>7, <1>8, <1>9, <1>10 DEF Inv

\* Every step keeps the invariant.
LEMMA NextInv ==
    ASSUME Inv, [Next]_vars
    PROVE  Inv'
<1>1. CASE Start
  BY <1>1, StartInv
<1>2. CASE RunStep
  BY <1>2, CheckpointInv, CheckpointsDoneInv, CreateWorktreeInv, CreateFailsInv, DispatchInv,
     AllEndedInv, BeginPickInv, PickCommitInv, PickFailsInv, PickEndsInv, WavePickedInv,
     AskFailuresInv, RemoveWorktreeInv, EndInv DEF RunStep
<1>3. CASE Crash
  BY <1>3, CrashInv
<1>4. CASE CleanUpByHand
  BY <1>4, CleanUpByHandInv
<1>5. CASE \E p \in Plans : AgentCommits(p) \/ AgentEnds(p)
  BY <1>5, AgentCommitsInv, AgentEndsInv
<1>6. CASE UNCHANGED vars
  <2>1. UNCHANGED <<main, stuck, worktrees, agent, run, crashes>>
    BY <1>6 DEF vars
  <2>2. TypeOK' /\ Past' /\ Landed' /\ Forked' /\ Managed'
    BY <2>1 DEF Inv, TypeOK, Past, Landed, Forked, Managed
  <2>3. Todo' /\ Housed' /\ Agents'
    BY <2>1 DEF Inv, Todo, onMain, Housed, Own, plansOf, Agents
  <2>4. Counts'
    BY <2>1 DEF Inv, Counts, okCounted, failedCounted, TotalsCountSkippedTwice
  <2> QED BY <2>2, <2>3, <2>4 DEF Inv
<1> QED BY <1>1, <1>2, <1>3, <1>4, <1>5, <1>6 DEF Next

\* The invariant holds of every run of a phase, however often it is executed.
THEOREM InvHolds == Spec => []Inv
<1>1. Init => Inv
  BY InitInv
<1>2. Inv /\ [Next]_vars => Inv'
  BY NextInv
<1> QED BY <1>1, <1>2, PTL DEF Spec

\* The variables have their types.
THEOREM TypeCorrect == Spec => []TypeOK
<1>1. Inv => TypeOK
  BY DEF Inv
<1> QED BY <1>1, InvHolds, PTL

\* A running agent works in the one worktree of its plan, one of its own run,
\* and only while execute waits for the agents of the wave: nothing removes it.
THEOREM AgentsAreHoused == Spec => []AgentsKeepTheirWorktree
<1>1. ASSUME Inv PROVE AgentsKeepTheirWorktree
  <2>1. ASSUME NEW p \in Plans, agent[p] = "running"
        PROVE  /\ run.pc = "agents"
               /\ Cardinality({w \in worktrees : w.plan = p}) = 1
               /\ \A w \in worktrees : w.plan = p => w.run = run.n
    <3>1. run.pc = "agents" /\ waveOf(p) = run.wave
      BY <1>1, <2>1 DEF Inv, Agents
    <3>2. Own(p)
      BY <1>1, <3>1 DEF Inv, Housed, plansOf
    <3>3. /\ worktreeOf(p) \in worktrees
          /\ worktreeOf(p).plan = p /\ worktreeOf(p).run = run.n
          /\ \A w \in worktrees : w.plan = p => w = worktreeOf(p)
      BY <1>1, <3>2, TheWorktree
    <3>4. {w \in worktrees : w.plan = p} = {worktreeOf(p)}
      BY <3>3
    <3>5. Cardinality({worktreeOf(p)}) = 1
      BY FS_Singleton
    <3> QED BY <3>1, <3>3, <3>4, <3>5
  <2> QED BY <2>1 DEF AgentsKeepTheirWorktree
<1> QED BY <1>1, InvHolds, PTL

\* A plan's worktree starts from all that earlier waves of its run have landed,
\* and from nothing its own wave lands.
THEOREM EarlierWavesAreSeen == Spec => []PlansStartFromEarlierWaves
<1>1. Inv => PlansStartFromEarlierWaves
  BY DEF Inv, Forked, PlansStartFromEarlierWaves
<1> QED BY <1>1, InvHolds, PTL

\* No commit lands twice, none of a failed agent lands, and waves land in order.
THEOREM SuccessLandsOnce == Spec => []OnlySuccessLandsOnce
<1>1. Inv => OnlySuccessLandsOnce
  BY DEF Inv, Landed, Distinct, OnlySuccessLandsOnce
<1> QED BY <1>1, InvHolds, PTL

\* A run that ends without a crash leaves no worktree but what git kept.
THEOREM WorktreesAreRemoved == Spec => []EndedRunsLeaveNoWorktree
<1>1. Inv => EndedRunsLeaveNoWorktree
  BY DEF Inv, Past, Managed, EndedRunsLeaveNoWorktree
<1> QED BY <1>1, InvHolds, PTL

\* The totals of a finished run exceed the plans by those the user skipped.
THEOREM SkippedAreCountedTwice == Spec => []TotalsCountSkippedTwice
<1>1. Inv => TotalsCountSkippedTwice
  BY DEF Inv, Counts
<1> QED BY <1>1, InvHolds, PTL

=============================================================================
