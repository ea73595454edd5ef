CONSTANTS
    Output = {o1, o2}
    MaxStreams = 1
    MaxToggles = 2
    MaxRefreshes = 0
SPECIFICATION Spec
SYMMETRY Receivers
INVARIANTS
    TypeOK
    SelectionApplied
    LabelNamesSessions
