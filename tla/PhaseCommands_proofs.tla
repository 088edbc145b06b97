------------------------ MODULE PhaseCommands_proofs ------------------------
(***************************************************************************)
(* Theorems about sunco phase add | insert | remove, proved for every      *)
(* number of commands at a time, every roadmap to begin with and every     *)
(* bound.                                                                  *)
(***************************************************************************)
EXTENDS PhaseCommands, RoadmapFile_proofs

-----------------------------------------------------------------------------
(* The invariant                                                           *)

\* No two phases are written with the same number.  Nothing in
\* roadmap-parser.ts keeps a hand-written roadmap from it, so that it has to
\* hold of the one the commands start from.
distinctNumbers(phases) ==
    \A i, j \in DOMAIN phases :
        (phases[i].major = phases[j].major /\ phases[i].minor = phases[j].minor) => i = j

DistinctStart == distinctNumbers(InitialRoadmap)

distinctIds(phases) == \A i, j \in DOMAIN phases : phases[i].id = phases[j].id => i = j

\* What every version of ROADMAP.md is, read, written or to be written.
Sound(phases, next) ==
    /\ phases \in Roadmaps
    /\ \A i \in DOMAIN phases : phases[i].id \in 1..(next - 1)
    /\ distinctIds(phases)
    /\ DistinctStart => distinctNumbers(phases)

\* The phases of a roadmap, with their numbers.
names(phases) == {[id |-> p.id, major |-> p.major, minor |-> p.minor] : p \in ToSet(phases)}

\* The edit a command is about to write: the roadmap it has read with a phase
\* more, or with one less.
Pending(c) ==
    edit[c].step = "write" =>
        /\ Sound(edit[c].read, nextId)
        /\ \/ /\ edit[c].kind \in {"add", "insert"}
              /\ names(edit[c].read) \subseteq names(edit[c].written)
           \/ /\ edit[c].kind = "remove"
              /\ \E p \in ToSet(edit[c].read) : edit[c].written = removePhase(edit[c].read, p)

\* The phase a command makes a directory for is on the roadmap.
Promised(c) ==
    (edit[c].step = "mkdir" /\ ~ removed /\ ~ overwrote) =>
        \A p \in ToSet(edit[c].written) : p.id = edit[c].id =>
            [id |-> p.id, major |-> p.major, minor |-> p.minor] \in names(roadmap)

\* Every directory is that of a phase on the roadmap.
Housed ==
    (~ removed /\ ~ overwrote) =>
        \A d \in dirs : \E q \in ToSet(roadmap) :
            d = [prefix |-> madePrefix(q), id |-> q.id]

\* What holds of a command's edit.
Prepared(c) == Sound(edit[c].written, nextId) /\ Pending(c) /\ Promised(c)

\* Every version of the roadmap is sound, whatever overwrites what; the
\* directories are those of its phases until something is removed or lost.
PInv ==
    /\ TypeOK
    /\ Sound(roadmap, nextId)
    /\ \A c \in Commands : Prepared(c)
    /\ Housed

-----------------------------------------------------------------------------
(* What an edit does to a roadmap                                          *)

\* A sound roadmap stays one when more ids are given out.
LEMMA SoundLasts ==
    ASSUME NEW phases, NEW next \in Nat, NEW later \in Nat, next <= later,
           Sound(phases, next)
    PROVE  Sound(phases, later)
BY DEF Sound

\* A line with a fresh id and a number nobody has.
LEMMA OneMore ==
    ASSUME NEW next \in Nat \ {0}, NEW phases, Sound(phases, next),
           NEW k \in 1..(Len(phases) + 1), NEW e \in Phase, e.id = next,
           \A i \in DOMAIN phases : ~ (phases[i].major = e.major /\ phases[i].minor = e.minor)
    PROVE  /\ Sound(lineIn(phases, k, e), next + 1)
           /\ names(phases) \subseteq names(lineIn(phases, k, e))
<1> DEFINE w == lineIn(phases, k, e)
           n == Len(phases)
<1>1. n \in Nat /\ DOMAIN phases = 1..n /\ \A i \in 1..n : phases[i] \in Phase
  BY DEF Sound, Roadmaps
<1>2. /\ DOMAIN w = 1..(n + 1)
      /\ \A i \in 1..(n + 1) :
            w[i] = IF i < k THEN phases[i] ELSE IF i = k THEN e ELSE phases[i - 1]
  BY DEF lineIn
<1>3. \A i \in 1..n : phases[i].id \in 1..(next - 1)
  BY <1>1 DEF Sound
<1>4. w = [i \in DOMAIN w |-> w[i]]
  BY DEF lineIn
<1> HIDE DEF w
<1>5. \A i \in 1..(n + 1) : \/ (i = k /\ w[i] = e)
                           \/ (i < k /\ i \in 1..n /\ w[i] = phases[i])
                           \/ (i > k /\ i - 1 \in 1..n /\ w[i] = phases[i - 1])
  BY <1>1, <1>2
<1> DEFINE at == [i \in 1..(n + 1) |-> IF i < k THEN i ELSE i - 1]
<1>6. \A i \in (1..(n + 1)) \ {k} : at[i] \in 1..n /\ w[i] = phases[at[i]]
  BY <1>1, <1>2
<1>7. \A i, j \in (1..(n + 1)) \ {k} : at[i] = at[j] => i = j
  BY <1>1
<1>8. w[k] = e
  BY <1>1, <1>2
<1> HIDE DEF at
<1>9. w \in Roadmaps
  <2>1. \A i \in 1..(n + 1) : w[i] \in Phase
    BY <1>1, <1>5
  <2> QED BY <1>1, <1>2, <1>4, <2>1 DEF Roadmaps
<1>10. \A i \in 1..(n + 1) : w[i].id \in 1..((next + 1) - 1)
  <2>1. 1..(next - 1) \subseteq 1..((next + 1) - 1) /\ next \in 1..((next + 1) - 1)
    OBVIOUS
  <2> QED BY <1>3, <1>5, <2>1
<1>11. distinctIds(w)
  <2> SUFFICES ASSUME NEW i \in 1..(n + 1), NEW j \in 1..(n + 1), w[i].id = w[j].id
               PROVE  i = j
    BY <1>2 DEF distinctIds
  <2>1. \A a, b \in 1..n : phases[a].id = phases[b].id => a = b
    BY <1>1 DEF Sound, distinctIds
  <2>2. \A a \in 1..n : phases[a].id # e.id
    BY <1>3
  <2>3. CASE i # k /\ j # k
    <3>1. /\ at[i] \in 1..n /\ w[i] = phases[at[i]]
          /\ at[j] \in 1..n /\ w[j] = phases[at[j]]
      BY <1>6, <2>3
    <3>2. at[i] = at[j]
      BY <2>1, <3>1
    <3> QED BY <1>7, <2>3, <3>2
  <2>4. CASE i = k /\ j # k
    <3>1. at[j] \in 1..n /\ w[j] = phases[at[j]]
      BY <1>6, <2>4
    <3> QED BY <1>8, <2>2, <2>4, <3>1
  <2>5. CASE i # k /\ j = k
    <3>1. at[i] \in 1..n /\ w[i] = phases[at[i]]
      BY <1>6, <2>5
    <3> QED BY <1>8, <2>2, <2>5, <3>1
  <2> QED BY <2>3, <2>4, <2>5
<1>12. ASSUME DistinctStart PROVE distinctNumbers(w)
  <2> SUFFICES ASSUME NEW i \in 1..(n + 1), NEW j \in 1..(n + 1),
                      w[i].major = w[j].major, w[i].minor = w[j].minor
               PROVE  i = j
    BY <1>2 DEF distinctNumbers
  <2>1. \A a, b \in 1..n :
          (phases[a].major = phases[b].major /\ phases[a].minor = phases[b].minor) => a = b
    BY <1>1, <1>12 DEF Sound, distinctNumbers
  <2>2. \A a \in 1..n : ~ (phases[a].major = e.major /\ phases[a].minor = e.minor)
    BY <1>1
  <2>3. CASE i # k /\ j # k
    <3>1. /\ at[i] \in 1..n /\ w[i] = phases[at[i]]
          /\ at[j] \in 1..n /\ w[j] = phases[at[j]]
      BY <1>6, <2>3
    <3>2. at[i] = at[j]
      BY <2>1, <3>1
    <3> QED BY <1>7, <2>3, <3>2
  <2>4. CASE i = k /\ j # k
    <3>1. at[j] \in 1..n /\ w[j] = phases[at[j]]
      BY <1>6, <2>4
    <3> QED BY <1>8, <2>2, <2>4, <3>1
  <2>5. CASE i # k /\ j = k
    <3>1. at[i] \in 1..n /\ w[i] = phases[at[i]]
      BY <1>6, <2>5
    <3> QED BY <1>8, <2>2, <2>5, <3>1
  <2> QED BY <2>3, <2>4, <2>5
<1>13. ToSet(phases) \subseteq ToSet(w)
  <2> SUFFICES ASSUME NEW i \in 1..n PROVE \E j \in 1..(n + 1) : w[j] = phases[i]
    BY <1>1, <1>2 DEF ToSet
  <2>1. CASE i < k
    BY <1>1, <1>2, <2>1
  <2>2. CASE ~ i < k
    <3>1. i + 1 \in 1..(n + 1) /\ ~ i + 1 < k /\ i + 1 # k /\ (i + 1) - 1 = i
      BY <1>1, <2>2
    <3> QED BY <1>2, <3>1
  <2> QED BY <2>1, <2>2
<1>14. Sound(w, next + 1)
  BY <1>2, <1>9, <1>10, <1>11, <1>12 DEF Sound
<1>15. names(phases) \subseteq names(w)
  BY <1>13 DEF names
<1> QED BY <1>14, <1>15 DEF w

\* addPhase keeps a roadmap sound, and the phases on it.
LEMMA AddSound ==
    ASSUME NEW next \in Nat \ {0}, NEW phases, Sound(phases, next)
    PROVE  /\ Sound(addPhase(phases, next), next + 1)
           /\ names(phases) \subseteq names(addPhase(phases, next))
<1> DEFINE e == NewPhase(next, NextMajor(phases), 0)
<1>1. phases \in Seq(Phase)
  BY DEF Sound, Roadmaps
<1>2. NextMajor(phases) \in Nat /\ \A n \in Majors(phases) : n < NextMajor(phases)
  BY <1>1, NextMajorIsNew
<1>3. e \in Phase /\ e.id = next /\ e.major = NextMajor(phases)
  BY <1>2, NewPhaseType DEF NewPhase
<1>4. ASSUME NEW i \in DOMAIN phases PROVE phases[i].major # e.major
  <2>1. phases[i].major \in Majors(phases)
    BY DEF Majors, ToSet
  <2>2. phases[i].major \in Nat
    <3>1. phases[i] \in Phase
      BY <1>1
    <3> QED BY <3>1 DEF Phase
  <2> QED BY <1>2, <1>3, <2>1, <2>2
<1>5. CASE addPhase(phases, next) = phases
  BY <1>5, SoundLasts
<1>6. CASE addPhase(phases, next) = lineIn(phases, Len(phases) + 1, e)
  <2>1. Len(phases) + 1 \in 1..(Len(phases) + 1)
    BY <1>1
  <2> HIDE DEF e
  <2> QED BY <1>3, <1>4, <1>6, <2>1, OneMore
<1> QED BY <1>1, <1>5, <1>6, AddIs

\* insertPhase too.
LEMMA InsertSound ==
    ASSUME NEW next \in Nat \ {0}, NEW phases, Sound(phases, next), NEW after \in Nat
    PROVE  /\ Sound(insertPhase(phases, next, after), next + 1)
           /\ names(phases) \subseteq names(insertPhase(phases, next, after))
<1> DEFINE e == NewPhase(next, after, NextMinor(phases, after))
<1>1. phases \in Seq(Phase)
  BY DEF Sound, Roadmaps
<1>2. /\ NextMinor(phases, after) \in Nat
      /\ \A n \in Minors(phases, after) : n < NextMinor(phases, after)
  BY <1>1, NextMinorIsNew
<1>3. /\ e \in Phase /\ e.id = next
      /\ e.major = after /\ e.minor = NextMinor(phases, after)
  BY <1>2, NewPhaseType DEF NewPhase
<1>4. ASSUME NEW i \in DOMAIN phases
      PROVE  ~ (phases[i].major = e.major /\ phases[i].minor = e.minor)
  <2>1. phases[i].minor \in Nat
    <3>1. phases[i] \in Phase
      BY <1>1
    <3> QED BY <3>1 DEF Phase
  <2>2. phases[i].major = after => phases[i].minor \in Minors(phases, after)
    BY DEF Minors, ToSet
  <2> QED BY <1>2, <1>3, <2>1, <2>2
<1>5. CASE insertPhase(phases, next, after) = phases
  BY <1>5, SoundLasts
<1>6. ASSUME NEW k \in 1..(Len(phases) + 1),
             insertPhase(phases, next, after) = lineIn(phases, k, e)
      PROVE  /\ Sound(insertPhase(phases, next, after), next + 1)
             /\ names(phases) \subseteq names(insertPhase(phases, next, after))
  <2> HIDE DEF e
  <2> QED BY <1>3, <1>4, <1>6, OneMore
<1> QED BY <1>1, <1>5, <1>6, InsertIs

\* The phases left by removePhase are those that were there but the removed
\* one, the integers above it one lower.
LEMMA RemoveLeaves ==
    ASSUME NEW next \in Nat \ {0}, NEW phases, Sound(phases, next), NEW r \in ToSet(phases)
    PROVE  /\ \A p \in ToSet(phases) : p.id # r.id => moved(p, r) \in ToSet(removePhase(phases, r))
           /\ \A q \in ToSet(removePhase(phases, r)) :
                 \E p \in ToSet(phases) : p.id # r.id /\ q = moved(p, r)
           /\ Sound(removePhase(phases, r), next)
<1> DEFINE n == Len(phases)
           w == removePhase(phases, r)
<1>1. n \in Nat /\ DOMAIN phases = 1..n /\ \A i \in 1..n : phases[i] \in Phase
  BY DEF Sound, Roadmaps
<1>2. PICK k \in 1..n :
         /\ phases[k] = r
         /\ w = [i \in 1..(n - 1) |-> moved(lineOut(phases, k)[i], r)]
  BY RemoveIs DEF Sound, Roadmaps
<1>3. DOMAIN w = 1..(n - 1) /\ w = [i \in DOMAIN w |-> w[i]]
  BY <1>2
<1> DEFINE at == [i \in 1..(n - 1) |-> IF i < k THEN i ELSE i + 1]
<1>4. \A i \in 1..(n - 1) : /\ at[i] \in 1..n /\ at[i] # k
                            /\ \A j \in 1..(n - 1) : at[i] = at[j] => i = j
  BY <1>1
<1>5. \A i \in 1..(n - 1) : w[i] = moved(phases[at[i]], r)
  BY <1>2 DEF lineOut
<1>6. \A m \in 1..n : m # k => \E i \in 1..(n - 1) : at[i] = m
  <2> SUFFICES ASSUME NEW m \in 1..n, m # k PROVE \E i \in 1..(n - 1) : at[i] = m
    OBVIOUS
  <2>1. CASE m < k
    <3>1. m \in 1..(n - 1) /\ at[m] = m
      BY <1>1, <2>1
    <3> QED BY <3>1
  <2>2. CASE ~ m < k
    <3>1. m - 1 \in 1..(n - 1) /\ at[m - 1] = m
      BY <1>1, <2>2
    <3> QED BY <3>1
  <2> QED BY <2>1, <2>2
<1> HIDE DEF w, at
<1>7. \A a, b \in 1..n : phases[a].id = phases[b].id => a = b
  BY <1>1 DEF Sound, distinctIds
<1>8. r \in Phase
  BY <1>1, <1>2
<1>9. ASSUME NEW p \in Phase
      PROVE  /\ moved(p, r) \in Phase
             /\ moved(p, r).id = p.id /\ moved(p, r).minor = p.minor
             /\ moved(p, r).major =
                  IF r.minor = 0 /\ p.minor = 0 /\ p.major > r.major THEN p.major - 1 ELSE p.major
  BY <1>8 DEF moved, Phase
<1>10. ASSUME NEW p \in ToSet(phases), p.id # r.id PROVE moved(p, r) \in ToSet(w)
  <2>1. PICK m \in 1..n : phases[m] = p
    BY <1>1 DEF ToSet
  <2>2. m # k
    BY <1>2, <1>10, <2>1
  <2>3. PICK i \in 1..(n - 1) : at[i] = m
    BY <1>6, <2>2
  <2>4. w[i] = moved(p, r)
    BY <1>5, <2>1, <2>3
  <2> QED BY <1>3, <2>4 DEF ToSet
<1>11. ASSUME NEW q \in ToSet(w) PROVE \E p \in ToSet(phases) : p.id # r.id /\ q = moved(p, r)
  <2>1. PICK i \in 1..(n - 1) : w[i] = q
    BY <1>3 DEF ToSet
  <2>2. phases[at[i]] \in ToSet(phases)
    BY <1>1, <1>4 DEF ToSet
  <2>3. phases[at[i]].id # r.id
    BY <1>2, <1>4, <1>7
  <2> QED BY <1>5, <2>1, <2>2, <2>3
<1>12. \A i \in 1..(n - 1) : w[i] \in Phase
  BY <1>1, <1>4, <1>5, <1>9
<1>13. w \in Roadmaps
  <2>1. n - 1 \in Nat
    BY <1>1
  <2> QED BY <1>3, <1>12, <2>1 DEF Roadmaps
<1>14. \A i \in 1..(n - 1) : w[i].id = phases[at[i]].id /\ w[i].minor = phases[at[i]].minor
  BY <1>1, <1>4, <1>5, <1>9
<1>15. \A i \in 1..(n - 1) : w[i].id \in 1..(next - 1)
  BY <1>1, <1>4, <1>14 DEF Sound
<1>16. distinctIds(w)
  BY <1>3, <1>4, <1>7, <1>14 DEF distinctIds
<1>17. ASSUME DistinctStart PROVE distinctNumbers(w)
  <2> SUFFICES ASSUME NEW i \in 1..(n - 1), NEW j \in 1..(n - 1),
                      w[i].major = w[j].major, w[i].minor = w[j].minor
               PROVE  i = j
    BY <1>3 DEF distinctNumbers
  <2> DEFINE a == phases[at[i]]
             b == phases[at[j]]
  <2>1. \A x, y \in 1..n :
          (phases[x].major = phases[y].major /\ phases[x].minor = phases[y].minor) => x = y
    BY <1>1, <1>17 DEF Sound, distinctNumbers
  <2>2. /\ a \in Phase /\ b \in Phase /\ a.minor = b.minor
        /\ w[i] = moved(a, r) /\ w[j] = moved(b, r)
    BY <1>1, <1>4, <1>5, <1>14
  <2>3. /\ ~ (a.major = r.major /\ a.minor = r.minor)
        /\ ~ (b.major = r.major /\ b.minor = r.minor)
    BY <1>2, <1>4, <2>1
  <2>4. ~ (a.major = b.major /\ a.minor = b.minor) \/ i = j
    BY <1>4, <2>1
  <2> HIDE DEF a, b
  <2>5. /\ w[i].major = IF r.minor = 0 /\ a.minor = 0 /\ a.major > r.major
                        THEN a.major - 1 ELSE a.major
        /\ w[j].major = IF r.minor = 0 /\ b.minor = 0 /\ b.major > r.major
                        THEN b.major - 1 ELSE b.major
    BY <1>9, <2>2
  <2>6. a.major \in Nat /\ b.major \in Nat /\ r.major \in Nat
    BY <1>8, <2>2 DEF Phase
  <2>7. a.major = b.major
    BY <2>2, <2>3, <2>5, <2>6
  <2> QED BY <2>2, <2>4, <2>7
<1> QED BY <1>3, <1>10, <1>11, <1>13, <1>15, <1>16, <1>17 DEF Sound, w

\* A phase of a roadmap is found by its id.
LEMMA FoundById ==
    ASSUME NEW next \in Nat \ {0}, NEW phases, Sound(phases, next), NEW p \in ToSet(phases)
    PROVE  PhaseById(phases, p.id) # 0 /\ phases[PhaseById(phases, p.id)] = p
<1> DEFINE I == {i \in 1..Len(phases) : phases[i].id = p.id}
<1>1. Len(phases) \in Nat /\ DOMAIN phases = 1..Len(phases)
  BY DEF Sound, Roadmaps
<1>2. PICK k \in 1..Len(phases) : phases[k] = p
  BY <1>1 DEF ToSet
<1>3. I \in SUBSET Nat /\ I # {}
  BY <1>1, <1>2
<1>4. PhaseById(phases, p.id) = Min(I)
  BY <1>3 DEF PhaseById, SelectInSeq
<1>5. Min(I) \in I
  <2> HIDE DEF I
  <2> QED BY <1>3, MinIsLeast
<1>6. Min(I) = k
  BY <1>1, <1>2, <1>5 DEF Sound, distinctIds
<1> QED BY <1>2, <1>4, <1>6

\* What is listed is on the roadmap.
LEMMA ListedIsThere ==
    ASSUME NEW next \in Nat \ {0}, NEW phases, Sound(phases, next), NEW id, Listed(phases, id)
    PROVE  \E p \in ToSet(phases) : p.id = id
<1> DEFINE I == {i \in 1..Len(phases) : phases[i].id = id}
<1>1. DOMAIN phases = 1..Len(phases)
  BY DEF Sound, Roadmaps
<1>2. I # {}
  BY DEF Listed, PhaseById, SelectInSeq
<1> QED BY <1>1, <1>2 DEF ToSet

\* A roadmap whose phases keep their ids and numbers.
LEMMA SameNames ==
    ASSUME NEW next \in Nat \ {0}, NEW phases, Sound(phases, next), NEW w \in Roadmaps,
           DOMAIN w = DOMAIN phases,
           \A i \in DOMAIN phases : /\ w[i].id = phases[i].id
                                    /\ w[i].major = phases[i].major
                                    /\ w[i].minor = phases[i].minor
    PROVE  Sound(w, next) /\ names(phases) \subseteq names(w)
<1>1. Sound(w, next)
  BY DEF Sound, distinctIds, distinctNumbers
<1>2. ASSUME NEW p \in ToSet(phases)
      PROVE  \E q \in ToSet(w) : q.id = p.id /\ q.major = p.major /\ q.minor = p.minor
  <2>1. /\ DOMAIN phases = 1..Len(phases) /\ DOMAIN w = 1..Len(w)
    BY DEF Sound, Roadmaps
  <2>2. PICK i \in DOMAIN phases : phases[i] = p
    BY <2>1 DEF ToSet
  <2>3. w[i] \in ToSet(w)
    BY <2>1 DEF ToSet
  <2> QED BY <2>2, <2>3
<1> QED BY <1>1, <1>2 DEF names

-----------------------------------------------------------------------------
(* Every step keeps the invariant                                          *)

\* The types the steps need.
LEMMA Bounds ==
    ASSUME PInv
    PROVE  /\ nextId \in Nat \ {0} /\ MaxPhases \in Nat /\ nextId <= MaxPhases + 1
           /\ roadmap \in Seq(Phase)
           /\ \A p \in ToSet(roadmap) : p \in Phase /\ p.id \in Nat
<1>1. /\ nextId \in Nat \ {0} /\ MaxPhases \in Nat /\ nextId <= MaxPhases + 1
      /\ roadmap \in Seq(Phase)
  BY PhaseCommandsAssumption DEF PInv, TypeOK, Roadmaps
<1>2. \A p \in ToSet(roadmap) : p \in Phase
  BY <1>1 DEF ToSet
<1> QED BY <1>1, <1>2 DEF Phase

\* It holds of the roadmap sunco new left.
LEMMA InitPInv == ASSUME Init PROVE PInv
<1> DEFINE n == Len(InitialRoadmap)
<1>1. /\ n \in Nat /\ n <= MaxPhases /\ MaxPhases \in Nat
      /\ InitialRoadmap \in Seq(Phase) /\ DOMAIN InitialRoadmap = 1..n
      /\ \A i \in 1..n : InitialRoadmap[i] \in Phase /\ InitialRoadmap[i].id = i
  BY PhaseCommandsAssumption
<1>2. roadmap = InitialRoadmap /\ nextId = n + 1
  BY DEF Init
<1>3. Sound(roadmap, nextId)
  <2>1. \A i \in 1..n : i \in 1..((n + 1) - 1)
    BY <1>1
  <2> QED BY <1>1, <1>2, <2>1 DEF Sound, Roadmaps, distinctIds, DistinctStart
<1>4. \A c : c \in Commands => edit[c] = NoEdit
  BY DEF Init
<1>5. \A c \in Commands : Prepared(c)
  <2>1. \A c \in Commands :
          edit[c].step = "none" /\ edit[c].written = <<>>
    BY <1>4 DEF NoEdit
  <2>2. Sound(<<>>, nextId)
    BY DEF Sound, Roadmaps, distinctIds, distinctNumbers
  <2> QED BY <2>1, <2>2 DEF Prepared, Pending, Promised
<1>6. dirs = {[prefix |-> madePrefix(p), id |-> p.id] : p \in ToSet(roadmap)}
  BY DEF Init
<1>7. Housed
  BY <1>6 DEF Housed
<1>8. ASSUME NEW d \in dirs PROVE d \in [prefix : Prefix, id : 1..MaxPhases]
  <2>1. PICK p \in ToSet(roadmap) : d = [prefix |-> madePrefix(p), id |-> p.id]
    BY <1>6
  <2>2. p \in Phase /\ p.id \in 1..MaxPhases
    BY <1>1, <1>2 DEF ToSet
  <2>3. madePrefix(p) \in Prefix
    BY <2>2 DEF Phase, madePrefix, Prefix
  <2> QED BY <2>1, <2>2, <2>3
<1>9. edit \in [Commands -> Edit]
  <2>1. NoEdit \in Edit
    BY DEF NoEdit, Edit, Steps, Roadmaps
  <2> QED BY <2>1 DEF Init
<1>10. TypeOK
  <2>1. nextId \in 1..(MaxPhases + 1)
    BY <1>1, <1>2
  <2> QED BY <1>1, <1>2, <1>8, <1>9, <2>1 DEF TypeOK, Init, Roadmaps
<1> QED BY <1>3, <1>5, <1>7, <1>10 DEF PInv

\* A step of another command, and of the world.
LEMMA Frame ==
    ASSUME PInv, nextId' \in Nat, nextId <= nextId',
           NEW c \in Commands, edit'[c] = edit[c],
           (~ removed' /\ ~ overwrote') =>
              /\ ~ removed /\ ~ overwrote
              /\ names(roadmap) \subseteq names(roadmap')
    PROVE  Prepared(c)'
<1>1. Prepared(c) /\ nextId \in Nat
  BY Bounds DEF PInv
<1>2. Sound(edit[c].written, nextId')
  BY <1>1, SoundLasts DEF Prepared
<1>3. edit[c].step = "write" => Sound(edit[c].read, nextId')
  BY <1>1, SoundLasts DEF Prepared, Pending
<1>4. Pending(c)'
  BY <1>1, <1>3 DEF Prepared, Pending
<1>5. Promised(c)'
  <2> SUFFICES ASSUME edit'[c].step = "mkdir", ~ removed', ~ overwrote',
                      NEW p \in ToSet(edit'[c].written), p.id = edit'[c].id
               PROVE  [id |-> p.id, major |-> p.major, minor |-> p.minor] \in names(roadmap')
    BY DEF Promised
  <2>1. [id |-> p.id, major |-> p.major, minor |-> p.minor] \in names(roadmap)
    BY <1>1 DEF Prepared, Promised
  <2> QED BY <2>1
<1> QED BY <1>2, <1>4, <1>5 DEF Prepared

\* Directories of phases that stay, under their number.
LEMMA StillHoused ==
    ASSUME PInv, dirs' = dirs,
           (~ removed' /\ ~ overwrote') =>
              /\ ~ removed /\ ~ overwrote
              /\ names(roadmap) \subseteq names(roadmap')
    PROVE  Housed'
<1> SUFFICES ASSUME ~ removed', ~ overwrote', NEW d \in dirs
             PROVE  \E q \in ToSet(roadmap') : d = [prefix |-> madePrefix(q), id |-> q.id]
  BY DEF Housed
<1>1. PICK p \in ToSet(roadmap) : d = [prefix |-> madePrefix(p), id |-> p.id]
  BY DEF PInv, Housed
<1>2. [id |-> p.id, major |-> p.major, minor |-> p.minor] \in names(roadmap')
  BY DEF names
<1>3. PICK q \in ToSet(roadmap') : /\ [id |-> p.id, major |-> p.major, minor |-> p.minor]
                                       = [id |-> q.id, major |-> q.major, minor |-> q.minor]
  BY <1>2 DEF names
<1>4. q.id = p.id /\ q.major = p.major /\ q.minor = p.minor
  BY <1>3
<1> QED BY <1>1, <1>4 DEF madePrefix

\* A command that has computed its edit from the roadmap it has just read.
LEMMA BeginPInv ==
    ASSUME PInv, NEW c \in Commands, NEW kind \in {"add", "insert", "remove"},
           NEW id \in Nat, NEW written, Begin(c, kind, id, written),
           nextId' \in 1..(MaxPhases + 1), nextId <= nextId',
           Sound(written, nextId'),
           \/ kind \in {"add", "insert"} /\ names(roadmap) \subseteq names(written)
           \/ kind = "remove" /\ \E p \in ToSet(roadmap) : written = removePhase(roadmap, p)
    PROVE  PInv'
<1> DEFINE new == [step |-> "write", kind |-> kind, id |-> id, read |-> roadmap,
                   written |-> written]
<1>1. /\ edit' = [edit EXCEPT ![c] = new]
      /\ roadmap' = roadmap /\ dirs' = dirs /\ removed' = removed /\ overwrote' = overwrote
  BY DEF Begin
<1>2. edit \in [Commands -> Edit] /\ nextId \in Nat \ {0} /\ nextId' \in Nat
  BY Bounds DEF PInv, TypeOK
<1>3. new \in Edit
  BY Bounds DEF Edit, Steps, Sound, Roadmaps
<1>4. /\ new.step = "write" /\ new.kind = kind /\ new.read = roadmap /\ new.written = written
  OBVIOUS
<1> HIDE DEF new
<1>5. edit'[c] = new /\ \A d \in Commands \ {c} : edit'[d] = edit[d]
  BY <1>1, <1>2
<1>6. TypeOK'
  BY <1>1, <1>2, <1>3 DEF PInv, TypeOK
<1>7. Sound(roadmap, nextId')
  BY <1>2, SoundLasts DEF PInv
<1>8. names(roadmap) \subseteq names(roadmap')
  BY <1>1
<1>9. Prepared(c)'
  BY <1>4, <1>5, <1>7 DEF Prepared, Pending, Promised
<1>10. \A d \in Commands \ {c} : Prepared(d)'
  BY <1>1, <1>2, <1>5, <1>8, Frame
<1>11. Housed'
  BY <1>1, <1>8, StillHoused
<1> QED BY <1>1, <1>6, <1>7, <1>9, <1>10, <1>11 DEF PInv

\* phase add keeps the invariant,
LEMMA ReadToAddPInv ==
    ASSUME PInv, NEW c \in Commands, ReadToAdd(c)
    PROVE  PInv'
<1>1. /\ nextId <= MaxPhases /\ nextId' = nextId + 1
      /\ Begin(c, "add", nextId, addPhase(roadmap, nextId))
  BY DEF ReadToAdd
<1>2. nextId' \in 1..(MaxPhases + 1) /\ nextId <= nextId' /\ nextId \in Nat \ {0}
  BY <1>1, Bounds
<1>3. /\ Sound(addPhase(roadmap, nextId), nextId')
      /\ names(roadmap) \subseteq names(addPhase(roadmap, nextId))
  BY <1>1, <1>2, AddSound DEF PInv
<1> QED BY <1>1, <1>2, <1>3, BeginPInv

\* and so does phase insert,
LEMMA ReadToInsertPInv ==
    ASSUME PInv, NEW c \in Commands, ReadToInsert(c)
    PROVE  PInv'
<1>1. PICK after \in Majors(roadmap) \cup {NextMajor(roadmap)} :
         Begin(c, "insert", nextId, insertPhase(roadmap, nextId, after))
  BY DEF ReadToInsert
<1>2. nextId <= MaxPhases /\ nextId' = nextId + 1
  BY DEF ReadToInsert
<1>3. nextId' \in 1..(MaxPhases + 1) /\ nextId <= nextId' /\ nextId \in Nat \ {0}
  BY <1>2, Bounds
<1>4. after \in Nat
  <2>1. NextMajor(roadmap) \in Nat
    BY Bounds, NextMajorIsNew
  <2>2. Majors(roadmap) \subseteq Nat
    BY Bounds DEF Majors, Phase
  <2> QED BY <2>1, <2>2
<1>5. /\ Sound(insertPhase(roadmap, nextId, after), nextId')
      /\ names(roadmap) \subseteq names(insertPhase(roadmap, nextId, after))
  BY <1>2, <1>3, <1>4, InsertSound DEF PInv
<1> QED BY <1>1, <1>3, <1>5, BeginPInv

\* and phase remove,
LEMMA ReadToRemovePInv ==
    ASSUME PInv, NEW c \in Commands, ReadToRemove(c)
    PROVE  PInv'
<1>1. PICK p \in ToSet(roadmap) : Begin(c, "remove", p.id, removePhase(roadmap, p))
  BY DEF ReadToRemove
<1>2. nextId' = nextId /\ p.id \in Nat
  BY Bounds DEF ReadToRemove
<1>3. nextId' \in 1..(MaxPhases + 1) /\ nextId <= nextId' /\ nextId \in Nat \ {0}
  BY <1>2, Bounds
<1>4. Sound(removePhase(roadmap, p), nextId')
  BY <1>2, <1>3, RemoveLeaves DEF PInv
<1> QED BY <1>1, <1>2, <1>3, <1>4, BeginPInv

\* A command that writes ROADMAP.md over the one it has read has kept every
\* phase, unless it removes one.
LEMMA WriteKeepsNames ==
    ASSUME PInv, NEW c \in Commands, WriteRoadmap(c), ~ removed', ~ overwrote'
    PROVE  /\ ~ removed /\ ~ overwrote
           /\ names(roadmap) \subseteq names(roadmap')
<1>1. /\ edit[c].step = "write" /\ roadmap' = edit[c].written
      /\ removed' = (removed \/ edit[c].kind = "remove")
      /\ overwrote' = (overwrote \/ roadmap # edit[c].read)
  BY DEF WriteRoadmap
<1>2. edit[c].kind # "remove" /\ roadmap = edit[c].read /\ ~ removed /\ ~ overwrote
  BY <1>1
<1>3. Pending(c)
  BY DEF PInv, Prepared
<1> QED BY <1>1, <1>2, <1>3 DEF Pending

\* and the writing of ROADMAP.md,
LEMMA WritePInv ==
    ASSUME PInv, NEW c \in Commands, WriteRoadmap(c)
    PROVE  PInv'
<1> DEFINE new == IF edit[c].kind = "remove" THEN NoEdit
                  ELSE [edit[c] EXCEPT !.step = "mkdir", !.read = <<>>]
<1>1. /\ roadmap' = edit[c].written /\ edit' = [edit EXCEPT ![c] = new]
      /\ dirs' = dirs /\ nextId' = nextId
      /\ removed' = (removed \/ edit[c].kind = "remove")
      /\ overwrote' = (overwrote \/ roadmap # edit[c].read)
  BY DEF WriteRoadmap
<1>2. edit \in [Commands -> Edit] /\ edit[c] \in Edit /\ nextId \in Nat \ {0}
  BY Bounds DEF PInv, TypeOK
<1>3. /\ new \in Edit
      /\ \/ new.step = "none" /\ new.written = <<>>
         \/ new.step = "mkdir" /\ new.written = edit[c].written
  <2>1. NoEdit \in Edit /\ NoEdit.step = "none" /\ NoEdit.written = <<>>
    BY DEF NoEdit, Edit, Steps, Roadmaps
  <2>2. <<>> \in Roadmaps
    BY DEF Roadmaps
  <2> QED BY <1>2, <2>1, <2>2 DEF Edit, Steps
<1> HIDE DEF new
<1>4. edit'[c] = new /\ \A d \in Commands \ {c} : edit'[d] = edit[d]
  BY <1>1, <1>2
<1>5. Sound(edit[c].written, nextId)
  BY DEF PInv, Prepared
<1>6. TypeOK'
  <2>1. roadmap' \in Roadmaps
    BY <1>1, <1>5 DEF Sound
  <2>2. edit' \in [Commands -> Edit]
    BY <1>1, <1>2, <1>3
  <2>3. removed' \in BOOLEAN /\ overwrote' \in BOOLEAN
    BY <1>1 DEF PInv, TypeOK
  <2> QED BY <1>1, <2>1, <2>2, <2>3 DEF PInv, TypeOK
<1>7. Prepared(c)'
  <2>1. Sound(<<>>, nextId)
    BY DEF Sound, Roadmaps, distinctIds, distinctNumbers
  <2>2. Sound(new.written, nextId)
    BY <1>3, <1>5, <2>1
  <2>3. Promised(c)'
    <3>1. new.step = "mkdir" => new.written = roadmap'
      BY <1>1, <1>3
    <3> QED BY <1>4, <3>1 DEF Promised, names
  <2>4. Pending(c)'
    BY <1>3, <1>4 DEF Pending
  <2> QED BY <1>1, <1>4, <2>2, <2>3, <2>4 DEF Prepared
<1>8. (~ removed' /\ ~ overwrote') =>
         /\ ~ removed /\ ~ overwrote
         /\ names(roadmap) \subseteq names(roadmap')
  BY WriteKeepsNames
<1>9. \A d \in Commands \ {c} : Prepared(d)'
  <2>1. nextId' \in Nat /\ nextId <= nextId'
    BY <1>1, <1>2
  <2> QED BY <1>4, <1>8, <2>1, Frame
<1>10. Housed'
  BY <1>1, <1>8, StillHoused
<1> QED BY <1>1, <1>5, <1>6, <1>7, <1>9, <1>10 DEF PInv

\* and the making of the directory,
LEMMA MakeDirectoryPInv ==
    ASSUME PInv, NEW c \in Commands, MakeDirectory(c)
    PROVE  PInv'
<1> DEFINE listed == {p \in ToSet(edit[c].written) : p.id = edit[c].id}
<1>1. /\ edit[c].step = "mkdir"
      /\ dirs' = dirs \cup {[prefix |-> madePrefix(p), id |-> p.id] : p \in listed}
      /\ edit' = [edit EXCEPT ![c] = NoEdit]
      /\ roadmap' = roadmap /\ nextId' = nextId /\ removed' = removed /\ overwrote' = overwrote
  BY DEF MakeDirectory
<1>2. edit \in [Commands -> Edit] /\ edit[c] \in Edit /\ nextId \in Nat \ {0}
  BY Bounds DEF PInv, TypeOK
<1>3. NoEdit \in Edit /\ NoEdit.step = "none" /\ NoEdit.written = <<>>
  BY DEF NoEdit, Edit, Steps, Roadmaps
<1>4. edit'[c] = NoEdit /\ \A d \in Commands \ {c} : edit'[d] = edit[d]
  BY <1>1, <1>2
<1>5. Prepared(c)
  BY DEF PInv
<1>6. ASSUME NEW d \in dirs' PROVE d \in [prefix : Prefix, id : 1..MaxPhases]
  <2>1. CASE d \in dirs
    BY <2>1 DEF PInv, TypeOK
  <2>2. ASSUME NEW p \in listed, d = [prefix |-> madePrefix(p), id |-> p.id]
        PROVE  d \in [prefix : Prefix, id : 1..MaxPhases]
    <3>1. Sound(edit[c].written, nextId)
      BY <1>5 DEF Prepared
    <3>2. PICK i \in DOMAIN edit[c].written : edit[c].written[i] = p
      BY <3>1 DEF ToSet, Sound, Roadmaps
    <3>3. p \in Phase /\ p.id \in 1..(nextId - 1)
      BY <3>1, <3>2 DEF Sound, Roadmaps
    <3>4. p.id \in 1..MaxPhases
      BY <3>3, Bounds
    <3>5. madePrefix(p) \in Prefix
      BY <3>3 DEF Phase, madePrefix, Prefix
    <3> QED BY <2>2, <3>4, <3>5
  <2> QED BY <1>1, <2>1, <2>2
<1>7. TypeOK'
  BY <1>1, <1>2, <1>3, <1>6 DEF PInv, TypeOK
<1>8. Prepared(c)'
  <2>1. Sound(<<>>, nextId)
    BY DEF Sound, Roadmaps, distinctIds, distinctNumbers
  <2> QED BY <1>1, <1>3, <1>4, <2>1 DEF Prepared, Pending, Promised
<1>9. \A d \in Commands \ {c} : Prepared(d)'
  <2>1. nextId' \in Nat /\ nextId <= nextId'
    BY <1>1, <1>2
  <2> QED BY <1>1, <1>4, <2>1, Frame
<1>10. Housed'
  <2> SUFFICES ASSUME ~ removed, ~ overwrote, NEW d \in dirs'
               PROVE  \E q \in ToSet(roadmap) : d = [prefix |-> madePrefix(q), id |-> q.id]
    BY <1>1 DEF Housed
  <2>1. CASE d \in dirs
    BY <2>1 DEF PInv, Housed
  <2>2. ASSUME NEW p \in listed, d = [prefix |-> madePrefix(p), id |-> p.id]
        PROVE  \E q \in ToSet(roadmap) : d = [prefix |-> madePrefix(q), id |-> q.id]
    <3>1. [id |-> p.id, major |-> p.major, minor |-> p.minor] \in names(roadmap)
      BY <1>1, <1>5 DEF Prepared, Promised
    <3>2. PICK q \in ToSet(roadmap) : /\ [id |-> p.id, major |-> p.major, minor |-> p.minor]
                                           = [id |-> q.id, major |-> q.major, minor |-> q.minor]
      BY <3>1 DEF names
    <3>3. q.id = p.id /\ q.major = p.major /\ q.minor = p.minor
      BY <3>2
    <3> QED BY <2>2, <3>3 DEF madePrefix
  <2> QED BY <1>1, <2>1, <2>2
<1> QED BY <1>1, <1>7, <1>8, <1>9, <1>10 DEF PInv

\* Ticking a phase off changes no number.
LEMMA ProgressKeepsNames ==
    ASSUME PInv, Progress
    PROVE  Sound(roadmap', nextId) /\ names(roadmap) \subseteq names(roadmap')
<1>1. PICK i \in DOMAIN roadmap :
         \/ roadmap' = [roadmap EXCEPT ![i].begun = TRUE]
         \/ roadmap' = [roadmap EXCEPT ![i].done = TRUE]
  BY DEF Progress
<1>2. roadmap \in Seq(Phase)
  BY Bounds
<1> DEFINE n == Len(roadmap)
           e == roadmap'[i]
<1>3. n \in Nat /\ DOMAIN roadmap = 1..n /\ roadmap[i] \in Phase
  BY <1>2
<1>4. roadmap' = [roadmap EXCEPT ![i] = e]
  BY <1>1, <1>3
<1>5. /\ e \in Phase
      /\ e.id = roadmap[i].id /\ e.major = roadmap[i].major /\ e.minor = roadmap[i].minor
  <2>1. \/ e = [roadmap[i] EXCEPT !.begun = TRUE]
        \/ e = [roadmap[i] EXCEPT !.done = TRUE]
    BY <1>1, <1>3
  <2> HIDE DEF e
  <2> QED BY <1>3, <2>1 DEF Phase
<1> HIDE DEF e
<1>6. /\ DOMAIN roadmap' = DOMAIN roadmap
      /\ \A j \in 1..n : roadmap'[j] = IF j = i THEN e ELSE roadmap[j]
  BY <1>3, <1>4
<1>7. roadmap' \in Roadmaps
  <2>1. \A j \in 1..n : roadmap'[j] \in Phase
    BY <1>2, <1>5, <1>6
  <2>2. roadmap' = [j \in 1..n |-> roadmap'[j]]
    BY <1>3, <1>4
  <2> HIDE DEF n
  <2> QED BY <1>3, <2>1, <2>2 DEF Roadmaps
<1>8. \A j \in DOMAIN roadmap : /\ roadmap'[j].id = roadmap[j].id
                                /\ roadmap'[j].major = roadmap[j].major
                                /\ roadmap'[j].minor = roadmap[j].minor
  BY <1>3, <1>5, <1>6
<1> QED BY <1>6, <1>7, <1>8, SameNames, Bounds DEF PInv

\* and so does work on a phase.
LEMMA ProgressPInv ==
    ASSUME PInv, Progress
    PROVE  PInv'
<1>1. /\ dirs' = dirs /\ edit' = edit /\ nextId' = nextId
      /\ removed' = removed /\ overwrote' = overwrote
  BY DEF Progress
<1>2. Sound(roadmap', nextId) /\ names(roadmap) \subseteq names(roadmap')
  BY ProgressKeepsNames
<1>3. TypeOK'
  BY <1>1, <1>2 DEF PInv, TypeOK, Sound
<1>4. \A d \in Commands : Prepared(d)'
  <2>1. nextId' \in Nat /\ nextId <= nextId'
    BY <1>1, Bounds
  <2> QED BY <1>1, <1>2, <2>1, Frame
<1>5. Housed'
  BY <1>1, <1>2, StillHoused
<1> QED BY <1>1, <1>2, <1>3, <1>4, <1>5 DEF PInv

\* One step per action.
LEMMA NextPInv == ASSUME PInv, [Next]_vars PROVE PInv'
<1>1. CASE UNCHANGED vars
  BY <1>1 DEF vars, PInv, TypeOK, Prepared, Pending, Promised, Housed, Sound, names
<1>2. ASSUME NEW c \in Commands, ReadToAdd(c) PROVE PInv'
  BY <1>2, ReadToAddPInv
<1>3. ASSUME NEW c \in Commands, ReadToInsert(c) PROVE PInv'
  BY <1>3, ReadToInsertPInv
<1>4. ASSUME NEW c \in Commands, ReadToRemove(c) PROVE PInv'
  BY <1>4, ReadToRemovePInv
<1>5. ASSUME NEW c \in Commands, WriteRoadmap(c) PROVE PInv'
  BY <1>5, WritePInv
<1>6. ASSUME NEW c \in Commands, MakeDirectory(c) PROVE PInv'
  BY <1>6, MakeDirectoryPInv
<1>7. CASE Progress
  BY <1>7, ProgressPInv
<1> QED BY <1>1, <1>2, <1>3, <1>4, <1>5, <1>6, <1>7 DEF Next

\* The invariant holds of every run.
LEMMA AlwaysPInv == Spec => []PInv
<1>1. Init => PInv
  BY InitPInv
<1>2. PInv /\ [Next]_vars => PInv'
  BY NextPInv
<1> QED BY <1>1, <1>2, PTL DEF Spec

-----------------------------------------------------------------------------
(* Theorems                                                                *)

\* ROADMAP.md stays a list of phases and the directories stay those of phases
\* the commands know, whatever the commands overwrite.
THEOREM TypeCorrect == Spec => []TypeOK
<1>1. PInv => TypeOK
  BY DEF PInv
<1> QED BY <1>1, AlwaysPInv, PTL

\* Minor numbers of one digit: "3.1" and "3.10" have the same value.
shortMinors == \A p \in ToSet(roadmap) : p.minor < 10

\* Two numbers below ten at the end are told apart.
LEMMA TwoDigits ==
    ASSUME NEW a \in Nat, NEW b \in Nat, NEW m \in Nat, NEW n \in Nat, m < 10, n < 10,
           100 * a + 10 * m = 100 * b + 10 * n
    PROVE  a = b /\ m = n
<1>1. 10 * a + m = 10 * b + n
  OBVIOUS
<1>2. ~ a < b
  <2>1. a < b => 10 * a + 10 <= 10 * b
    OBVIOUS
  <2> QED BY <1>1, <2>1
<1>3. ~ b < a
  <2>1. b < a => 10 * b + 10 <= 10 * a
    OBVIOUS
  <2> QED BY <1>1, <2>1
<1> QED BY <1>1, <1>2, <1>3

\* With one digit behind the point the value of a number is the number.
LEMMA ShortNumberIsPair ==
    ASSUME NEW p \in Phase, NEW q \in Phase, p.minor < 10, q.minor < 10,
           NumberOf(p) = NumberOf(q)
    PROVE  p.major = q.major /\ p.minor = q.minor
<1>1. /\ p.major \in Nat /\ q.major \in Nat /\ p.minor \in Nat /\ q.minor \in Nat
  BY DEF Phase
<1>2. 100 * p.major + 10 * p.minor = 100 * q.major + 10 * q.minor
  BY DEF NumberOf
<1> DEFINE a == p.major
           b == q.major
           m == p.minor
           n == q.minor
<1>3. /\ a \in Nat /\ b \in Nat /\ m \in Nat /\ n \in Nat /\ m < 10 /\ n < 10
      /\ 100 * a + 10 * m = 100 * b + 10 * n
  BY <1>1, <1>2
<1> HIDE DEF a, b, m, n
<1>4. a = b /\ m = n
  BY <1>3, TwoDigits
<1> QED BY <1>4 DEF a, b, m, n

\* Whatever the commands overwrite, a number stays that of one phase
\* (roadmap-writer.ts), if the roadmap they start from has no number twice.
THEOREM NumbersStayDistinct ==
    ASSUME DistinctStart
    PROVE  Spec => [](shortMinors => NumbersIdentify)
<1>1. ASSUME PInv, shortMinors PROVE NumbersIdentify
  <2> SUFFICES ASSUME NEW i \in DOMAIN roadmap, NEW j \in DOMAIN roadmap,
                      NumberOf(roadmap[i]) = NumberOf(roadmap[j])
               PROVE  i = j
    BY DEF NumbersIdentify
  <2> DEFINE p == roadmap[i]
             q == roadmap[j]
  <2>1. p \in Phase /\ q \in Phase /\ p \in ToSet(roadmap) /\ q \in ToSet(roadmap)
    BY <1>1, Bounds DEF ToSet
  <2>2. p.minor < 10 /\ q.minor < 10
    BY <1>1, <2>1 DEF shortMinors
  <2>3. NumberOf(p) = NumberOf(q)
    OBVIOUS
  <2>4. distinctNumbers(roadmap)
    BY <1>1 DEF PInv, Sound
  <2>5. p.major = q.major /\ p.minor = q.minor
    BY <2>1, <2>2, <2>3, ShortNumberIsPair
  <2> QED BY <2>4, <2>5 DEF distinctNumbers
<1>2. PInv => (shortMinors => NumbersIdentify)
  BY <1>1
<1> QED BY <1>2, AlwaysPInv, PTL

\* An integer phase is found in its own directory by resolvePhaseDir
\* (phase-reader.ts), as long as nothing was removed or overwritten.
THEOREM FoundInItsDirectory ==
    ASSUME DistinctStart
    PROVE  Spec => []IntegerPhasesFindTheirDirectory
<1>1. ASSUME PInv PROVE IntegerPhasesFindTheirDirectory
  <2> SUFFICES ASSUME ~ removed, ~ overwrote, NEW p \in ToSet(roadmap), p.minor = 0,
                      NEW d \in resolvePhaseDir(p)
               PROVE  d.id = p.id
    BY DEF IntegerPhasesFindTheirDirectory
  <2>1. d \in dirs /\ d.prefix = soughtPrefix(p)
    BY DEF resolvePhaseDir
  <2>2. PICK q \in ToSet(roadmap) : d = [prefix |-> madePrefix(q), id |-> q.id]
    BY <1>1, <2>1 DEF PInv, Housed
  <2>3. q.major = p.major /\ q.minor = p.minor
    <3>1. madePrefix(q) = soughtPrefix(p)
      BY <2>1, <2>2
    <3> QED BY <3>1 DEF madePrefix, soughtPrefix
  <2>4. distinctNumbers(roadmap) /\ DOMAIN roadmap = 1..Len(roadmap)
    BY <1>1, Bounds DEF PInv, Sound
  <2>5. q = p
    BY <2>3, <2>4 DEF distinctNumbers, ToSet
  <2> QED BY <2>2, <2>5
<1>2. PInv => IntegerPhasesFindTheirDirectory
  BY <1>1
<1> QED BY <1>2, AlwaysPInv, PTL

-----------------------------------------------------------------------------
(* The order of the phases                                                 *)

\* EditsKeepOrder, for two phases.
inOrder(p, q) ==
    (/\ ~ overwrote'
     /\ NumberOf(p) < NumberOf(q)
     /\ Listed(roadmap', p.id) /\ Listed(roadmap', q.id)
     /\ \/ p.minor = 0 /\ q.minor = 0
        \/ \A r \in ToSet(roadmap) : r.minor = 0 => Listed(roadmap', r.id))
      => NumberOf(roadmap'[PhaseById(roadmap', p.id)])
           < NumberOf(roadmap'[PhaseById(roadmap', q.id)])

\* A phase that keeps its name has its number in the new roadmap.
LEMMA NameKeepsNumber ==
    ASSUME NEW next \in Nat \ {0}, NEW later \in Nat \ {0},
           NEW phases, Sound(phases, next), NEW w, Sound(w, later),
           names(phases) \subseteq names(w), NEW p \in ToSet(phases)
    PROVE  NumberOf(w[PhaseById(w, p.id)]) = NumberOf(p)
<1>1. [id |-> p.id, major |-> p.major, minor |-> p.minor] \in names(w)
  BY DEF names
<1>2. PICK q \in ToSet(w) : /\ [id |-> p.id, major |-> p.major, minor |-> p.minor]
                                 = [id |-> q.id, major |-> q.major, minor |-> q.minor]
  BY <1>1 DEF names
<1>3. q.id = p.id /\ q.major = p.major /\ q.minor = p.minor
  BY <1>2
<1>4. w[PhaseById(w, q.id)] = q
  BY FoundById
<1> QED BY <1>3, <1>4 DEF NumberOf

\* With all names kept, so is the order.
LEMMA NamesKeepOrder ==
    ASSUME PInv, PInv', names(roadmap) \subseteq names(roadmap'),
           NEW p \in ToSet(roadmap), NEW q \in ToSet(roadmap)
    PROVE  inOrder(p, q)
<1>1. /\ Sound(roadmap, nextId) /\ nextId \in Nat \ {0}
      /\ Sound(roadmap', nextId') /\ nextId' \in Nat \ {0}
  <2>1. PhaseCommandsAssumption
    BY PhaseCommandsAssumption
  <2> QED BY <2>1, Bounds DEF PInv, TypeOK
<1>2. /\ NumberOf(roadmap'[PhaseById(roadmap', p.id)]) = NumberOf(p)
      /\ NumberOf(roadmap'[PhaseById(roadmap', q.id)]) = NumberOf(q)
  BY <1>1, NameKeepsNumber
<1> QED BY <1>2 DEF inOrder

\* removePhase keeps the integer phases in order, and a decimal's removal all.
LEMMA RemoveKeepsOrder ==
    ASSUME DistinctStart, PInv, NEW r \in ToSet(roadmap),
           roadmap' = removePhase(roadmap, r), nextId' = nextId,
           NEW p \in ToSet(roadmap), NEW q \in ToSet(roadmap)
    PROVE  inOrder(p, q)
<1> SUFFICES ASSUME NumberOf(p) < NumberOf(q),
                    Listed(roadmap', p.id), Listed(roadmap', q.id),
                    \/ p.minor = 0 /\ q.minor = 0
                    \/ \A s \in ToSet(roadmap) : s.minor = 0 => Listed(roadmap', s.id)
             PROVE  NumberOf(roadmap'[PhaseById(roadmap', p.id)])
                      < NumberOf(roadmap'[PhaseById(roadmap', q.id)])
  BY DEF inOrder
<1>1. Sound(roadmap, nextId) /\ nextId \in Nat \ {0}
  BY Bounds DEF PInv
<1>2. /\ \A s \in ToSet(roadmap) : s.id # r.id => moved(s, r) \in ToSet(roadmap')
      /\ \A t \in ToSet(roadmap') : \E s \in ToSet(roadmap) : s.id # r.id /\ t = moved(s, r)
      /\ Sound(roadmap', nextId)
  BY <1>1, RemoveLeaves
<1>3. \A s \in ToSet(roadmap) : moved(s, r).id = s.id
  BY Bounds DEF moved, Phase
<1>4. ~ Listed(roadmap', r.id)
  <2>1. SUFFICES ASSUME Listed(roadmap', r.id) PROVE FALSE
    OBVIOUS
  <2>2. PICK t \in ToSet(roadmap') : t.id = r.id
    BY <1>1, <1>2, <2>1, ListedIsThere
  <2> QED BY <1>2, <1>3, <2>2
<1>5. p.id # r.id /\ q.id # r.id
  BY <1>4
<1>6. ASSUME NEW s \in ToSet(roadmap), s.id # r.id
      PROVE  roadmap'[PhaseById(roadmap', s.id)] = moved(s, r)
  BY <1>1, <1>2, <1>3, <1>6, FoundById
<1>7. SUFFICES NumberOf(moved(p, r)) < NumberOf(moved(q, r))
  BY <1>5, <1>6
<1>8. p \in Phase /\ q \in Phase /\ r \in Phase
  BY Bounds
<1>9. CASE r.minor # 0
  BY <1>9 DEF moved
<1>10. CASE r.minor = 0
  <2>1. p.minor = 0 /\ q.minor = 0
    BY <1>4, <1>10
  <2>2. p.major \in Nat /\ q.major \in Nat /\ r.major \in Nat
    BY <1>8 DEF Phase
  <2>3. p.major # r.major /\ q.major # r.major
    <3>1. distinctNumbers(roadmap) /\ DOMAIN roadmap = 1..Len(roadmap)
      BY <1>1, Bounds DEF Sound
    <3> QED BY <1>5, <1>10, <2>1, <3>1 DEF distinctNumbers, ToSet
  <2>4. \A s \in Phase : s.minor = 0 =>
           /\ moved(s, r).minor = 0
           /\ moved(s, r).major = IF s.major > r.major THEN s.major - 1 ELSE s.major
    BY <1>10 DEF moved, Phase
  <2>5. NumberOf(p) = 100 * p.major /\ NumberOf(q) = 100 * q.major
    BY <2>1, <2>2 DEF NumberOf
  <2>6. p.major < q.major
    BY <2>2, <2>5
  <2>7. /\ moved(p, r).minor = 0
        /\ moved(p, r).major = IF p.major > r.major THEN p.major - 1 ELSE p.major
        /\ moved(q, r).minor = 0
        /\ moved(q, r).major = IF q.major > r.major THEN q.major - 1 ELSE q.major
    BY <1>8, <2>1, <2>4
  <2>8. moved(p, r).major \in Nat /\ moved(q, r).major \in Nat
    BY <2>2, <2>7
  <2>9. moved(p, r).major < moved(q, r).major
    BY <2>2, <2>3, <2>6, <2>7
  <2>10. /\ NumberOf(moved(p, r)) = 100 * moved(p, r).major
         /\ NumberOf(moved(q, r)) = 100 * moved(q, r).major
    BY <2>7, <2>8 DEF NumberOf
  <2> QED BY <2>8, <2>9, <2>10
<1> QED BY <1>9, <1>10

\* The edits of roadmap-writer.ts keep the order the phases run in.
THEOREM OrderIsKept ==
    ASSUME DistinctStart
    PROVE  Spec => EditsKeepOrder
<1> DEFINE Order == \A p, q \in ToSet(roadmap) : inOrder(p, q)
<1>1. ASSUME PInv, PInv', [Next]_vars, NEW p \in ToSet(roadmap), NEW q \in ToSet(roadmap)
      PROVE  inOrder(p, q)
  <2>1. ASSUME names(roadmap) \subseteq names(roadmap') PROVE inOrder(p, q)
    BY <1>1, <2>1, NamesKeepOrder
  <2>2. CASE roadmap' = roadmap
    BY <2>1, <2>2
  <2>3. CASE Progress
    BY <1>1, <2>1, <2>3, ProgressKeepsNames
  <2>4. ASSUME NEW c \in Commands, WriteRoadmap(c) PROVE inOrder(p, q)
    <3>1. /\ edit[c].step = "write" /\ roadmap' = edit[c].written /\ nextId' = nextId
          /\ overwrote' = (overwrote \/ roadmap # edit[c].read)
      BY <2>4 DEF WriteRoadmap
    <3>2. Pending(c)
      BY <1>1 DEF PInv, Prepared
    <3>3. CASE overwrote'
      BY <3>3 DEF inOrder
    <3>4. CASE ~ overwrote'
      <4>1. roadmap = edit[c].read
        BY <3>1, <3>4
      <4>2. CASE edit[c].kind \in {"add", "insert"}
        BY <2>1, <3>1, <3>2, <4>1, <4>2 DEF Pending
      <4>3. CASE edit[c].kind = "remove"
        <5>1. PICK r \in ToSet(roadmap) : roadmap' = removePhase(roadmap, r)
          BY <3>1, <3>2, <4>1, <4>3 DEF Pending
        <5> QED BY <1>1, <3>1, <5>1, RemoveKeepsOrder
      <4> QED BY <3>1, <3>2, <4>2, <4>3 DEF Pending
    <3> QED BY <3>3, <3>4
  <2> QED BY <1>1, <2>2, <2>3, <2>4
       DEF Next, vars, ReadToAdd, ReadToInsert, ReadToRemove, Begin, MakeDirectory
<1>2. PInv /\ PInv' /\ [Next]_vars => [Order]_vars
  BY <1>1
<1>3. EditsKeepOrder <=> [][Order]_vars
  BY DEF EditsKeepOrder, inOrder
<1> QED BY <1>2, <1>3, AlwaysPInv, PTL DEF Spec

=============================================================================
