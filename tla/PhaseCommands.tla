--------------------------- MODULE PhaseCommands ---------------------------
(***************************************************************************)
(* sunco phase add | insert | remove                                       *)
(* (packages/skills-workflow/src/phase.skill.ts) over ROADMAP.md and       *)
(* .planning/phases, and how the workflow skills find a phase's directory  *)
(* again (shared/phase-reader.ts).                                         *)
(*                                                                         *)
(* A command reads ROADMAP.md, rewrites it whole and then makes the        *)
(* directory; nothing excludes a second command in between.                *)
(*                                                                         *)
(* Abstractions:                                                           *)
(*  - A directory's name is its number prefix and the phase it was made    *)
(*    for; names of distinct phases have distinct slugs.                   *)
(*  - Usage errors (no name, no --after, not a number) touch nothing and   *)
(*    are left out.                                                        *)
(*  - Phase numbers stay below 10, the minor ones too.                     *)
(*  - ROADMAP.md is written at once; writeFile empties it and fills it in  *)
(*    place, and a command that reads in between sees a part of it.        *)
(***************************************************************************)
EXTENDS RoadmapFile

CONSTANTS
    Commands,       \* sunco phase processes
    InitialRoadmap, \* the roadmap sunco new left
    MaxPhases       \* bound on the ids ever given to a phase

ASSUME PhaseCommandsAssumption ==
    /\ InitialRoadmap \in Seq(Phase)
    /\ \A i \in DOMAIN InitialRoadmap : InitialRoadmap[i].id = i
    /\ MaxPhases \in Nat /\ Len(InitialRoadmap) <= MaxPhases

VARIABLES
    roadmap,    \* ROADMAP.md
    dirs,       \* .planning/phases
    edit,       \* per command process: the edit it is making, or NoEdit
    nextId,     \* the next fresh phase id
    removed,    \* a phase was removed
    overwrote   \* a command wrote over an edit made after it had read

vars == <<roadmap, dirs, edit, nextId, removed, overwrote>>

Roadmaps == Seq(Phase)
Prefix == [major : Nat, minor : Nat, padded : BOOLEAN]
Steps == {"none", "write", "mkdir"}
Edit == [step : Steps, kind : {"none", "add", "insert", "remove"}, id : Nat,
         read : Roadmaps, written : Roadmaps]
NoEdit == [step |-> "none", kind |-> "none", id |-> 0, read |-> <<>>, written |-> <<>>]

(***************************************************************************)
(* phase.skill.ts pads the integer part, phase-reader.ts the whole number: *)
(* "03.1-fix" is made and "3.1-" is looked for.                            *)
(***************************************************************************)
madePrefix(p) == [major |-> p.major, minor |-> p.minor, padded |-> p.major < 10]
soughtPrefix(p) ==
    [major |-> p.major, minor |-> p.minor, padded |-> p.minor = 0 /\ p.major < 10]

\* Mutant: the directory's prefix is compared without its end.
resolvePhaseDir_prefix(p) == {d \in dirs : d.prefix.major = p.major}

\* readdir's order decides among several directories with the prefix.
resolvePhaseDir(p) == {d \in dirs : d.prefix = soughtPrefix(p)}

PhaseById(phases, id) == SelectInSeq(phases, LAMBDA p : p.id = id)
Listed(phases, id) == PhaseById(phases, id) # 0

-----------------------------------------------------------------------------
Init ==
    /\ roadmap = InitialRoadmap
    /\ dirs = {[prefix |-> madePrefix(p), id |-> p.id] : p \in ToSet(InitialRoadmap)}
    /\ edit = [c \in Commands |-> NoEdit]
    /\ nextId = Len(InitialRoadmap) + 1
    /\ removed = FALSE
    /\ overwrote = FALSE

\* Each command computes the new file from the one it has just read.
Begin(c, kind, id, written) ==
    /\ edit[c].step = "none"
    /\ edit' = [edit EXCEPT ![c] =
                [step |-> "write", kind |-> kind, id |-> id, read |-> roadmap,
                 written |-> written]]
    /\ UNCHANGED <<roadmap, dirs, removed, overwrote>>

ReadToAdd(c) ==
    /\ nextId <= MaxPhases
    /\ Begin(c, "add", nextId, addPhase(roadmap, nextId))
    /\ nextId' = nextId + 1

\* A phase number that is not on the roadmap is accepted, and lists nothing.
ReadToInsert(c) ==
    /\ nextId <= MaxPhases
    /\ \E after \in Majors(roadmap) \cup {NextMajor(roadmap)} :
          Begin(c, "insert", nextId, insertPhase(roadmap, nextId, after))
    /\ nextId' = nextId + 1

\* A ticked phase, or one with completed plans, is refused: nothing is written.
ReadToRemove(c) ==
    /\ \E p \in ToSet(roadmap) :
          /\ removable(p)
          /\ Begin(c, "remove", p.id, removePhase(roadmap, p))
    /\ UNCHANGED nextId

\* The directory of a removed phase stays, and so do those of the renumbered.
WriteRoadmap(c) ==
    /\ edit[c].step = "write"
    /\ roadmap' = edit[c].written
    /\ edit' = [edit EXCEPT ![c] =
                IF edit[c].kind = "remove" THEN NoEdit
                ELSE [edit[c] EXCEPT !.step = "mkdir", !.read = <<>>]]
    /\ removed' = (removed \/ edit[c].kind = "remove")
    /\ overwrote' = (overwrote \/ roadmap # edit[c].read)
    /\ UNCHANGED <<dirs, nextId>>

\* Mutant: the directory is named for the next phase.
MakeDirectory_next(c) ==
    /\ edit[c].step = "mkdir"
    /\ LET listed == {p \in ToSet(edit[c].written) : p.id = edit[c].id}
       IN  dirs' = dirs \cup {[prefix |-> madePrefix(p), id |-> nextId] : p \in listed}
    /\ edit' = [edit EXCEPT ![c] = NoEdit]
    /\ UNCHANGED <<roadmap, nextId, removed, overwrote>>

\* The phase that was asked for but not listed gets no directory of interest.
MakeDirectory(c) ==
    /\ edit[c].step = "mkdir"
    /\ LET written == edit[c].written
           listed  == {p \in ToSet(written) : p.id = edit[c].id}
       IN  dirs' = dirs \cup {[prefix |-> madePrefix(p), id |-> p.id] : p \in listed}
    /\ edit' = [edit EXCEPT ![c] = NoEdit]
    /\ UNCHANGED <<roadmap, nextId, removed, overwrote>>

\* Work on a phase, ticked off in ROADMAP.md by hand or by an agent.
Progress ==
    /\ \E i \in DOMAIN roadmap :
          \/ /\ ~roadmap[i].begun
             /\ roadmap' = [roadmap EXCEPT ![i].begun = TRUE]
          \/ /\ roadmap[i].begun
             /\ ~roadmap[i].done
             /\ roadmap' = [roadmap EXCEPT ![i].done = TRUE]
    /\ UNCHANGED <<dirs, edit, nextId, removed, overwrote>>

Next ==
    \/ \E c \in Commands :
          \/ ReadToAdd(c) \/ ReadToInsert(c) \/ ReadToRemove(c)
          \/ WriteRoadmap(c) \/ MakeDirectory(c)
    \/ Progress

Spec == Init /\ [][Next]_vars

-----------------------------------------------------------------------------
TypeOK ==
    /\ roadmap \in Roadmaps
    /\ \A d \in dirs : d \in [prefix : Prefix, id : 1..MaxPhases]
    /\ edit \in [Commands -> Edit]
    /\ nextId \in 1..(MaxPhases + 1)
    /\ removed \in BOOLEAN
    /\ overwrote \in BOOLEAN

(***************************************************************************)
(* A number names one phase: auto, discuss and execute look a phase up by  *)
(* the value of its number and take the first they find (discuss.skill.ts, *)
(* auto.skill.ts).  Commands that overwrite each other do not break it.    *)
(***************************************************************************)
NumbersIdentify ==
    \A i, j \in DOMAIN roadmap :
        NumberOf(roadmap[i]) = NumberOf(roadmap[j]) => i = j

(***************************************************************************)
(* The order the phases run in is the order of their numbers.  An edit     *)
(* keeps it for the phases it keeps: always among integer phases, and      *)
(* among all of them when no integer phase went (removing one moves the    *)
(* integers below the decimals that were inserted before them).  A command *)
(* that writes over a newer edit takes the file back, order and all.       *)
(***************************************************************************)
EditsKeepOrder ==
    [][\A p, q \in ToSet(roadmap) :
         (/\ ~overwrote'
          /\ NumberOf(p) < NumberOf(q)
          /\ Listed(roadmap', p.id) /\ Listed(roadmap', q.id)
          /\ \/ p.minor = 0 /\ q.minor = 0
             \/ \A r \in ToSet(roadmap) : r.minor = 0 => Listed(roadmap', r.id))
           => NumberOf(roadmap'[PhaseById(roadmap', p.id)])
                < NumberOf(roadmap'[PhaseById(roadmap', q.id)])]_vars

(***************************************************************************)
(* As long as nothing was removed and no command overwrote another, an     *)
(* integer phase with a directory is found in its own: what discuss and    *)
(* plan wrote for it is what auto and execute read.                        *)
(***************************************************************************)
IntegerPhasesFindTheirDirectory ==
    ~removed /\ ~overwrote =>
        \A p \in ToSet(roadmap) :
            p.minor = 0 => \A d \in resolvePhaseDir(p) : d.id = p.id

=============================================================================
