CONSTANTS
    th1 = th1
    th2 = th2
    t1 = t1
    t2 = t2
    s1 = s1
    s2 = s2
    f1 = f1
    f2 = f2
    Threads = {th1, th2}
    Tokens = {t1, t2}
    Subjects = {s1, s2}
    Files = {f1}
    Targets <- Pairs
    TOKEN_TTL = 40
    SAFETY_TTL = 60
    Loads <- Race
SPECIFICATION Spec
INVARIANT UploadsSurvive
CHECK_DEADLOCK FALSE
SYMMETRY Symmetry
