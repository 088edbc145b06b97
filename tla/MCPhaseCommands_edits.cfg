SPECIFICATION Spec
CONSTANTS
    Commands = {c1, c2}
    InitialRoadmap <- MCRoadmap
    MaxPhases = 4
INVARIANTS
    TypeOK
    NumbersIdentify
    IntegerPhasesFindTheirDirectory
PROPERTIES
    EditsKeepOrder
SYMMETRY Symmetry
CHECK_DEADLOCK FALSE
