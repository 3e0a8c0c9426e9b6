CONSTANTS
    drc = drc
    erc = erc
    board = board
    m1 = m1
    m2 = m2
    v1 = v1
    v2 = v2
    d1 = d1
    d2 = d2
    None = None
    Artifacts = {board}
    Contents = {m1, m2}
    Dependencies <- Installable
    Versions = {v1, v2}
    Digests = {d1}
    Checks = {drc, erc}
    Uses <- UsedBy
    Policies <- Asked
    Forms = {"both"}
    MaxEdits = 1
    MaxUpdates = 1
    MaxRuns = 2
    MaxApprovals = 1
SPECIFICATION Spec
INVARIANTS ReleaseIsBacked GatesAgree
CHECK_DEADLOCK FALSE
SYMMETRY Symmetry
