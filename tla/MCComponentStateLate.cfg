CONSTANTS
    Output = {o1}
    MaxStreams = 1
    MaxToggles = 1
    MaxRefreshes = 1
SPECIFICATION Spec
INVARIANT LateSelectionReconciled
