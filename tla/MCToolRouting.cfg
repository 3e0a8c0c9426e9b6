CONSTANTS
    c1 = c1
    c2 = c2
    c3 = c3
    build = build
    render = render
    emit = emit
    f1 = f1
    f2 = f2
    Calls = {c1, c2, c3}
    Tools = {build, render, emit}
    Groups = {"ee"}
    LongTools = {build}
    Files = {f1, f2}
    Malformed = {c2}
    tool <- ToolOf
    group <- GroupOfTool
    Outputs <- OutputsOf
    MaxQueue = 3
    MaxCrashes = 1
SPECIFICATION Spec
INVARIANTS AnsweredIsSettled ReadyIsOwn
CONSTRAINT OneTrouble
PROPERTY SoundCallsAreAnswered
CHECK_DEADLOCK FALSE
