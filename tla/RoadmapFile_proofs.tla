------------------------- MODULE RoadmapFile_proofs -------------------------
(***************************************************************************)
(* Lemmas about the operators of RoadmapFile, for every roadmap.           *)
(***************************************************************************)
EXTENDS RoadmapFile, SequenceTheorems, Extrema

-----------------------------------------------------------------------------
(* Phase numbers *)

\* The integer part a new phase gets is a number above every other.
LEMMA NextMajorIsNew ==
    ASSUME NEW phases \in Seq(Phase)
    PROVE  NextMajor(phases) \in Nat /\ \A n \in Majors(phases) : n < NextMajor(phases)
<1> DEFINE s == [i \in 1..Len(phases) |-> phases[i].major]
           T == {0} \cup Majors(phases)
<1>1. Len(phases) \in Nat /\ s \in [1..Len(phases) -> Nat]
  <2>1. \A i \in 1..Len(phases) : phases[i] \in Phase
    OBVIOUS
  <2> QED BY <2>1 DEF Phase
<1>2. Majors(phases) = {s[i] : i \in 1..Len(phases)}
  BY DEF Majors, ToSet
<1>3. PICK b \in Nat : \A i \in 1..Len(phases) : s[i] <= b
  BY <1>1, FiniteBound
<1>4. T \in SUBSET Nat /\ T # {} /\ \A x \in T : x <= b
  BY <1>1, <1>2, <1>3
<1>5. Max(T) \in T /\ \A y \in T : Max(T) >= y
  BY <1>4, MaxIsGreatest
<1>6. Max(T) \in Nat
  BY <1>4, <1>5
<1>7. \A n \in Majors(phases) : n \in Nat /\ n <= Max(T)
  BY <1>4, <1>5
<1>8. NextMajor(phases) = Max(T) + 1
  BY DEF NextMajor
<1> HIDE DEF T
<1> QED BY <1>6, <1>7, <1>8

\* ... and so is the decimal an inserted phase gets among its siblings.
LEMMA NextMinorIsNew ==
    ASSUME NEW phases \in Seq(Phase), NEW after \in Nat
    PROVE  /\ NextMinor(phases, after) \in Nat \ {0}
           /\ \A n \in Minors(phases, after) : n < NextMinor(phases, after)
<1> DEFINE s == [i \in 1..Len(phases) |-> phases[i].minor]
           T == {0} \cup Minors(phases, after)
<1>1. Len(phases) \in Nat /\ s \in [1..Len(phases) -> Nat]
  <2>1. \A i \in 1..Len(phases) : phases[i] \in Phase
    OBVIOUS
  <2> QED BY <2>1 DEF Phase
<1>2. Minors(phases, after) \subseteq {s[i] : i \in 1..Len(phases)}
  BY DEF Minors, ToSet
<1>3. PICK b \in Nat : \A i \in 1..Len(phases) : s[i] <= b
  BY <1>1, FiniteBound
<1>4. T \in SUBSET Nat /\ T # {} /\ \A x \in T : x <= b
  BY <1>1, <1>2, <1>3
<1>5. Max(T) \in T /\ \A y \in T : Max(T) >= y
  BY <1>4, MaxIsGreatest
<1>6. Max(T) \in Nat
  BY <1>4, <1>5
<1>7. \A n \in Minors(phases, after) : n \in Nat /\ n <= Max(T)
  BY <1>4, <1>5
<1>8. NextMinor(phases, after) = Max(T) + 1
  BY DEF NextMinor
<1> HIDE DEF T
<1> QED BY <1>6, <1>7, <1>8

\* A new phase is an entry of the roadmap.
LEMMA NewPhaseType ==
    ASSUME NEW id \in Nat, NEW major \in Nat, NEW minor \in Nat
    PROVE  NewPhase(id, major, minor) \in Phase
BY DEF NewPhase, Phase

\* Adding a phase gives a roadmap.
LEMMA AddType ==
    ASSUME NEW phases \in Seq(Phase), NEW id \in Nat
    PROVE  addPhase(phases, id) \in Seq(Phase)
BY NextMajorIsNew, NewPhaseType DEF addPhase

\* Inserting one too.
LEMMA InsertType ==
    ASSUME NEW phases \in Seq(Phase), NEW id \in Nat, NEW after \in Nat
    PROVE  insertPhase(phases, id, after) \in Seq(Phase)
<1> DEFINE I == {i \in 1..Len(phases) : phases[i].major = after}
           new == NewPhase(id, after, NextMinor(phases, after))
           last == IF I # {} THEN Max(I) ELSE 0
<1>1. new \in Phase
  BY NextMinorIsNew, NewPhaseType
<1>2. last \in 0..Len(phases)
  <2>1. CASE I = {}
    BY <2>1
  <2>2. CASE I # {}
    <3>1. I \in SUBSET Nat /\ Len(phases) \in Nat /\ \A x \in I : x <= Len(phases)
      OBVIOUS
    <3>2. Max(I) \in I
      <4> HIDE DEF I
      <4> QED BY <2>2, <3>1, MaxIsGreatest
    <3> QED BY <2>2, <3>2
  <2> QED BY <2>1, <2>2
<1>3. insertPhase(phases, id, after)
        = IF last = 0 THEN phases ELSE InsertAt(phases, last + 1, new)
  BY DEF insertPhase, SelectLastInSeq
<1> HIDE DEF new, last
<1>4. ASSUME last # 0 PROVE InsertAt(phases, last + 1, new) \in Seq(Phase)
  <2>1. SubSeq(phases, 1, last) \in Seq(Phase)
    BY <1>2
  <2>2. SubSeq(phases, last + 1, Len(phases)) \in Seq(Phase)
    BY <1>2
  <2>3. (last + 1) - 1 = last
    BY <1>2
  <2> QED BY <1>1, <2>1, <2>2, <2>3 DEF InsertAt
<1> QED BY <1>3, <1>4

\* The numbers auto has left to run are numbers.
LEMMA RemainingType ==
    ASSUME NEW phases \in Seq(Phase), NEW from \in Nat
    PROVE  /\ remainingFrom(phases, from) \in SUBSET Nat
           /\ \A n \in remainingFrom(phases, from) : n >= from
<1>1. \A p \in ToSet(phases) : p \in Phase
  BY DEF ToSet
<1>2. \A p \in Phase : NumberOf(p) \in Nat
  BY DEF Phase, NumberOf
<1> QED BY <1>1, <1>2 DEF remainingFrom


-----------------------------------------------------------------------------
(* The writers, entry by entry *)

\* The lines with one put in at k, and with the k-th taken out.
lineIn(s, k, e) ==
    [i \in 1..(Len(s) + 1) |-> IF i < k THEN s[i] ELSE IF i = k THEN e ELSE s[i - 1]]
lineOut(s, k) == [i \in 1..(Len(s) - 1) |-> IF i < k THEN s[i] ELSE s[i + 1]]

\* The number a phase has once phase p is removed.
moved(q, p) ==
    IF p.minor = 0 /\ q.minor = 0 /\ q.major > p.major
    THEN [q EXCEPT !.major = @ - 1] ELSE q

\* A line put in: those before it stay, those after it move down.
LEMMA InsertAtIs ==
    ASSUME NEW S, NEW s \in Seq(S), NEW e \in S, NEW k \in 1..(Len(s) + 1)
    PROVE  InsertAt(s, k, e) = lineIn(s, k, e)
<1> DEFINE a == SubSeq(s, 1, k - 1)
           b == SubSeq(s, k, Len(s))
           c == a \o <<e>>
           t == c \o b
<1>1. Len(s) \in Nat /\ \A i \in 1..Len(s) : s[i] \in S
  OBVIOUS
<1>2. a \in Seq(S) /\ Len(a) = k - 1 /\ \A i \in 1..(k - 1) : a[i] = s[i]
  <2>1. 1 \in Int /\ k - 1 \in Int /\ \A i \in 1..(k - 1) : s[i] \in S
    BY <1>1
  <2>2. /\ a \in Seq(S) /\ Len(a) = IF 1 <= k - 1 THEN (k - 1) - 1 + 1 ELSE 0
        /\ \A i \in 1..((k - 1) - 1 + 1) : a[i] = s[1 + i - 1]
    BY <2>1, SubSeqProperties
  <2> HIDE DEF a
  <2> QED BY <2>2
<1>3. /\ b \in Seq(S) /\ Len(b) = Len(s) - k + 1
      /\ \A i \in 1..(Len(s) - k + 1) : b[i] = s[k + i - 1]
  <2>1. k \in Int /\ Len(s) \in Int /\ \A i \in k..Len(s) : s[i] \in S
    BY <1>1
  <2>2. /\ b \in Seq(S) /\ Len(b) = IF k <= Len(s) THEN Len(s) - k + 1 ELSE 0
        /\ \A i \in 1..(Len(s) - k + 1) : b[i] = s[k + i - 1]
    BY <2>1, SubSeqProperties
  <2> HIDE DEF b
  <2> QED BY <1>1, <2>2
<1>4. InsertAt(s, k, e) = t
  BY DEF InsertAt
<1> HIDE DEF a, b
<1>5. /\ c \in Seq(S) /\ Len(c) = k
      /\ \A i \in 1..k : c[i] = IF i < k THEN s[i] ELSE e
  BY <1>2
<1> HIDE DEF c
<1>6. /\ t \in Seq(S) /\ Len(t) = Len(s) + 1
      /\ \A i \in 1..(Len(s) + 1) :
            t[i] = IF i <= k THEN c[i] ELSE b[i - k]
  <2>1. /\ c \o b \in Seq(S) /\ Len(c \o b) = Len(c) + Len(b)
        /\ \A i \in 1..(Len(c) + Len(b)) :
              (c \o b)[i] = IF i <= Len(c) THEN c[i] ELSE b[i - Len(c)]
    BY <1>3, <1>5, ConcatProperties
  <2>2. Len(c) + Len(b) = Len(s) + 1
    BY <1>1, <1>3, <1>5
  <2> QED BY <1>5, <2>1, <2>2
<1> HIDE DEF t
<1>7. ASSUME NEW i \in 1..(Len(s) + 1) PROVE t[i] = lineIn(s, k, e)[i]
  <2>1. CASE i <= k
    BY <1>1, <1>5, <1>6, <2>1 DEF lineIn
  <2>2. CASE i > k
    <3>1. i - k \in 1..(Len(s) - k + 1) /\ k + (i - k) - 1 = i - 1 /\ ~ i <= k
      BY <1>1, <2>2
    <3>2. t[i] = s[i - 1]
      BY <1>3, <1>6, <3>1
    <3> QED BY <1>1, <2>2, <3>2 DEF lineIn
  <2> QED BY <2>1, <2>2
<1>8. DOMAIN t = 1..(Len(s) + 1) /\ t = [i \in DOMAIN t |-> t[i]]
  BY <1>1, <1>6
<1> QED BY <1>4, <1>7, <1>8 DEF lineIn

\* A line taken out: those after it move up.
LEMMA RemoveAtIs ==
    ASSUME NEW S, NEW s \in Seq(S), NEW k \in 1..Len(s)
    PROVE  RemoveAt(s, k) = lineOut(s, k)
<1> DEFINE a == SubSeq(s, 1, k - 1)
           b == SubSeq(s, k + 1, Len(s))
           t == a \o b
<1>1. Len(s) \in Nat /\ \A i \in 1..Len(s) : s[i] \in S
  OBVIOUS
<1>2. a \in Seq(S) /\ Len(a) = k - 1 /\ \A i \in 1..(k - 1) : a[i] = s[i]
  <2>1. 1 \in Int /\ k - 1 \in Int /\ \A i \in 1..(k - 1) : s[i] \in S
    BY <1>1
  <2>2. /\ a \in Seq(S) /\ Len(a) = IF 1 <= k - 1 THEN (k - 1) - 1 + 1 ELSE 0
        /\ \A i \in 1..((k - 1) - 1 + 1) : a[i] = s[1 + i - 1]
    BY <2>1, SubSeqProperties
  <2> HIDE DEF a
  <2> QED BY <2>2
<1>3. /\ b \in Seq(S) /\ Len(b) = Len(s) - k
      /\ \A i \in 1..(Len(s) - k) : b[i] = s[k + i]
  <2>1. k + 1 \in Int /\ Len(s) \in Int /\ \A i \in (k + 1)..Len(s) : s[i] \in S
    BY <1>1
  <2>2. /\ b \in Seq(S) /\ Len(b) = IF k + 1 <= Len(s) THEN Len(s) - (k + 1) + 1 ELSE 0
        /\ \A i \in 1..(Len(s) - (k + 1) + 1) : b[i] = s[(k + 1) + i - 1]
    BY <2>1, SubSeqProperties
  <2> HIDE DEF b
  <2>3. Len(s) - (k + 1) + 1 = Len(s) - k
    BY <1>1
  <2>4. Len(b) = Len(s) - k
    BY <1>1, <2>2
  <2>5. ASSUME NEW i \in 1..(Len(s) - k) PROVE b[i] = s[k + i]
    <3>1. (k + 1) + i - 1 = k + i
      OBVIOUS
    <3>2. b[i] = s[(k + 1) + i - 1]
      BY <2>2, <2>3
    <3> QED BY <3>1, <3>2
  <2> QED BY <2>2, <2>4, <2>5
<1>4. RemoveAt(s, k) = t
  BY DEF RemoveAt
<1> HIDE DEF a, b
<1>5. /\ t \in Seq(S) /\ Len(t) = Len(s) - 1
      /\ \A i \in 1..(Len(s) - 1) :
            t[i] = IF i <= k - 1 THEN a[i] ELSE b[i - (k - 1)]
  <2>1. /\ t \in Seq(S) /\ Len(t) = Len(a) + Len(b)
        /\ \A i \in 1..(Len(a) + Len(b)) :
              t[i] = IF i <= Len(a) THEN a[i] ELSE b[i - Len(a)]
    BY <1>2, <1>3, ConcatProperties
  <2>2. Len(a) + Len(b) = Len(s) - 1
    BY <1>1, <1>2, <1>3
  <2> HIDE DEF t
  <2> QED BY <1>2, <2>1, <2>2
<1> HIDE DEF t
<1>6. ASSUME NEW i \in 1..(Len(s) - 1) PROVE t[i] = lineOut(s, k)[i]
  <2>1. CASE i < k
    BY <1>1, <1>2, <1>5, <2>1 DEF lineOut
  <2>2. CASE ~ i < k
    <3>1. i - (k - 1) \in 1..(Len(s) - k) /\ k + (i - (k - 1)) = i + 1 /\ ~ i <= k - 1
      BY <1>1, <2>2
    <3>2. t[i] = s[i + 1]
      BY <1>3, <1>5, <3>1
    <3> QED BY <1>1, <2>2, <3>2 DEF lineOut
  <2> QED BY <2>1, <2>2
<1>7. DOMAIN t = 1..(Len(s) - 1) /\ t = [i \in DOMAIN t |-> t[i]]
  BY <1>1, <1>5
<1> QED BY <1>4, <1>6, <1>7 DEF lineOut

\* insertPhase puts one line somewhere, if the roadmap has a phase to come after.
LEMMA InsertIs ==
    ASSUME NEW phases \in Seq(Phase), NEW id \in Nat, NEW after \in Nat
    PROVE  \/ insertPhase(phases, id, after) = phases
           \/ \E k \in 1..(Len(phases) + 1) :
                 insertPhase(phases, id, after) =
                   lineIn(phases, k, NewPhase(id, after, NextMinor(phases, after)))
<1> DEFINE I == {i \in 1..Len(phases) : phases[i].major = after}
           new == NewPhase(id, after, NextMinor(phases, after))
           last == IF I # {} THEN Max(I) ELSE 0
<1>1. new \in Phase
  BY NextMinorIsNew, NewPhaseType
<1>2. last \in 0..Len(phases)
  <2>1. CASE I = {}
    BY <2>1
  <2>2. CASE I # {}
    <3>1. I \in SUBSET Nat /\ Len(phases) \in Nat /\ \A x \in I : x <= Len(phases)
      OBVIOUS
    <3>2. Max(I) \in I
      <4> HIDE DEF I
      <4> QED BY <2>2, <3>1, MaxIsGreatest
    <3> QED BY <2>2, <3>2
  <2> QED BY <2>1, <2>2
<1>3. insertPhase(phases, id, after)
        = IF last = 0 THEN phases ELSE InsertAt(phases, last + 1, new)
  BY DEF insertPhase, SelectLastInSeq
<1> HIDE DEF new, last
<1>4. ASSUME last # 0
      PROVE  /\ last + 1 \in 1..(Len(phases) + 1)
             /\ InsertAt(phases, last + 1, new) = lineIn(phases, last + 1, new)
  <2>1. last + 1 \in 1..(Len(phases) + 1)
    BY <1>2, <1>4
  <2> QED BY <1>1, <2>1, InsertAtIs
<1> QED BY <1>3, <1>4 DEF new

\* addPhase appends one line to a roadmap that has one.
LEMMA AddIs ==
    ASSUME NEW phases \in Seq(Phase), NEW id \in Nat
    PROVE  \/ addPhase(phases, id) = phases
           \/ addPhase(phases, id) =
                lineIn(phases, Len(phases) + 1, NewPhase(id, NextMajor(phases), 0))
<1> DEFINE new == NewPhase(id, NextMajor(phases), 0)
           t == Append(phases, new)
<1>1. new \in Phase
  BY NextMajorIsNew, NewPhaseType
<1>2. addPhase(phases, id) = IF phases = <<>> THEN phases ELSE t
  BY DEF addPhase
<1> HIDE DEF new
<1>3. /\ t \in Seq(Phase) /\ Len(t) = Len(phases) + 1
      /\ \A i \in 1..Len(phases) : t[i] = phases[i]
      /\ t[Len(phases) + 1] = new
  BY <1>1, AppendProperties
<1> HIDE DEF t
<1>4. Len(phases) \in Nat
  OBVIOUS
<1>5. ASSUME NEW i \in 1..(Len(phases) + 1)
      PROVE  t[i] = lineIn(phases, Len(phases) + 1, new)[i]
  <2>1. CASE i = Len(phases) + 1
    BY <1>3, <1>4, <2>1 DEF lineIn
  <2>2. CASE i # Len(phases) + 1
    <3>1. i \in 1..Len(phases) /\ i < Len(phases) + 1
      BY <1>4, <2>2
    <3> QED BY <1>3, <3>1 DEF lineIn
  <2> QED BY <2>1, <2>2
<1>6. DOMAIN t = 1..(Len(phases) + 1) /\ t = [i \in DOMAIN t |-> t[i]]
  BY <1>3, <1>4
<1>7. t = lineIn(phases, Len(phases) + 1, new)
  BY <1>5, <1>6 DEF lineIn
<1> QED BY <1>2, <1>7 DEF new

\* removePhase takes the phase's line out and, if its number is an integer,
\* moves the integers above it down by one.
LEMMA RemoveIs ==
    ASSUME NEW phases \in Seq(Phase), NEW p \in ToSet(phases)
    PROVE  \E k \in 1..Len(phases) :
              /\ phases[k] = p
              /\ removePhase(phases, p) =
                   [i \in 1..(Len(phases) - 1) |-> moved(lineOut(phases, k)[i], p)]
<1> DEFINE I == {i \in 1..Len(phases) : phases[i] = p}
           k == IF I # {} THEN Min(I) ELSE 0
           rest == lineOut(phases, k)
<1>1. I # {}
  BY DEF ToSet
<1>2. k \in 1..Len(phases) /\ phases[k] = p
  <2>1. I \in SUBSET Nat
    OBVIOUS
  <2>2. Min(I) \in I
    <3> HIDE DEF I
    <3> QED BY <1>1, <2>1, MinIsLeast
  <2> QED BY <1>1, <2>2
<1>3. RemoveFirst(phases, p) = RemoveAt(phases, k)
  BY <1>1 DEF RemoveFirst, SelectInSeq
<1>4. RemoveFirst(phases, p) = rest
  <2> HIDE DEF k
  <2> QED BY <1>2, <1>3, RemoveAtIs
<1>5. DOMAIN rest = 1..(Len(phases) - 1) /\ rest = [i \in DOMAIN rest |-> rest[i]]
  BY DEF lineOut
<1> HIDE DEF k, rest
<1>6. CASE p.minor = 0
  <2>1. removePhase(phases, p) = renumberPhases(rest, p.major)
    BY <1>4, <1>6 DEF removePhase
  <2>2. \A i \in DOMAIN rest :
          moved(rest[i], p) = IF rest[i].minor = 0 /\ rest[i].major > p.major
                              THEN [rest[i] EXCEPT !.major = @ - 1] ELSE rest[i]
    BY <1>6 DEF moved
  <2>3. renumberPhases(rest, p.major) = [i \in DOMAIN rest |-> moved(rest[i], p)]
    BY <2>2 DEF renumberPhases
  <2> QED BY <1>2, <1>5, <2>1, <2>3 DEF rest
<1>7. CASE p.minor # 0
  <2>1. removePhase(phases, p) = rest
    BY <1>4, <1>7 DEF removePhase
  <2>2. \A i \in DOMAIN rest : moved(rest[i], p) = rest[i]
    BY <1>7 DEF moved
  <2>3. rest = [i \in DOMAIN rest |-> moved(rest[i], p)]
    BY <1>5, <2>2
  <2> QED BY <1>2, <1>5, <2>1, <2>3 DEF rest
<1> QED BY <1>6, <1>7

=============================================================================
