---------------------------- MODULE RoadmapFile ----------------------------
(***************************************************************************)
(* ROADMAP.md as its readers and writers see it                            *)
(* (packages/skills-workflow/src/shared/roadmap-parser.ts and              *)
(* roadmap-writer.ts): the phase lines in file order.  `minor` is 0 for an *)
(* integer phase; `done` is the ticked box; `begun` is a progress row with *)
(* completed plans.                                                        *)
(*                                                                         *)
(* A phase line, its detail section and its progress row are one entry:    *)
(* the writers look each of them up by the same number.  `id` stands for   *)
(* the phase's name and text, which no command changes.                    *)
(*                                                                         *)
(* removePhase looks a progress row up by a number and a dot, which the    *)
(* row of a decimal phase has too: for phase 1 it may find the row of 1.1, *)
(* refuse on its plans or remove it.  That is left out.                    *)
(***************************************************************************)
EXTENDS Naturals, Sequences, SequencesExt, FiniteSets

Phase == [id : Nat, major : Nat, minor : Nat, done : BOOLEAN, begun : BOOLEAN]

NewPhase(id, major, minor) ==
    [id |-> id, major |-> major, minor |-> minor, done |-> FALSE, begun |-> FALSE]

\* The numeric value auto compares, in hundredths: "3.1" and "3.10" are the
\* same number.
NumberOf(p) ==
    100 * p.major + (IF p.minor < 10 THEN 10 * p.minor ELSE p.minor)

Majors(phases) == {p.major : p \in ToSet(phases)}

\* New integer phases count from the highest integer part in the list, that
\* of a decimal phase included.
NextMajor(phases) == Max({0} \cup Majors(phases)) + 1

\* With no phase line to come after, nothing is inserted into the list.
addPhase(phases, id) ==
    IF phases = <<>> THEN phases
    ELSE Append(phases, NewPhase(id, NextMajor(phases), 0))

Minors(phases, after) ==
    {p.minor : p \in {q \in ToSet(phases) : q.major = after}}

\* Mutant: the siblings are counted.
NextMinor_countsSiblings(phases, after) == Cardinality(Minors(phases, after))

NextMinor(phases, after) == Max({0} \cup Minors(phases, after)) + 1

\* The new line goes after the last line of phase `after` or of its decimals.
insertPhase(phases, id, after) ==
    LET last == SelectLastInSeq(phases, LAMBDA p : p.major = after)
    IN  IF last = 0 THEN phases
        ELSE InsertAt(phases, last + 1, NewPhase(id, after, NextMinor(phases, after)))

\* Decimal phases keep their number whatever is removed below them.
renumberPhases(phases, removed) ==
    [i \in DOMAIN phases |->
        IF phases[i].minor = 0 /\ phases[i].major > removed
        THEN [phases[i] EXCEPT !.major = @ - 1]
        ELSE phases[i]]

removable(p) == ~p.done /\ ~p.begun

\* Mutant: removing a decimal phase renumbers the integer ones too.
removePhase_alwaysRenumbers(phases, p) == renumberPhases(RemoveFirst(phases, p), p.major)

removePhase(phases, p) ==
    LET rest == RemoveFirst(phases, p)
    IN  IF p.minor = 0 THEN renumberPhases(rest, p.major) ELSE rest

\* Mutant: the first phase is left out.
remainingFrom_after(phases, from) ==
    {NumberOf(p) : p \in {q \in ToSet(phases) : ~q.done /\ NumberOf(q) > from}}

\* The numbers auto has left to run from `from` on.
remainingFrom(phases, from) ==
    {NumberOf(p) : p \in {q \in ToSet(phases) : ~q.done /\ NumberOf(q) >= from}}

=============================================================================
