---------------------------- MODULE MCToolRouting ----------------------------
EXTENDS ToolRouting, TLC

CONSTANTS c1, c2, c3, build, render, emit, f1, f2

\* two calls of the electronics worker over one file, and one of the core over another
ToolOf == [c \in Calls |-> CASE c = c1 -> build [] c = c2 -> render [] OTHER -> emit]
GroupOfTool == [x \in Tools |-> IF x = emit THEN "core" ELSE "ee"]
OutputsOf == [x \in Tools |-> IF x = build THEN {f1, f2} ELSE {f1}]

\* either tools are slow or a call is malformed, to keep the run short (both never change)
OneTrouble == slow => broken = {}

=============================================================================
