----------------------------- MODULE MCTerminal -----------------------------
(***************************************************************************)
(* The terminal's three components for model checking: the bytes from the  *)
(* shell to the output store, a viewer's screen, and the agent's terminal  *)
(* tools.  Each behaviour is one of one component, named by `part`; the    *)
(* others rest in an initial state.                                        *)
(***************************************************************************)
EXTENDS TerminalOutput, TerminalView, TerminalTools

VARIABLE part

terminalVars == <<part, outputVars, viewVars, toolVars>>

TerminalInit ==
    /\ part \in {"output", "view", "tools"}
    /\ OutputInit /\ ViewInit /\ ToolInit
    /\ part # "tools" => shell.genuine /\ toolUpsets = 0

OutputSteps == part = "output" /\ OutputNext /\ UNCHANGED <<part, viewVars, toolVars>>
ViewSteps == part = "view" /\ ViewNext /\ UNCHANGED <<part, outputVars, toolVars>>
ToolSteps == part = "tools" /\ ToolNext /\ UNCHANGED <<part, outputVars, viewVars>>
TerminalNext == OutputSteps \/ ViewSteps \/ ToolSteps

TerminalFairSpec ==
    /\ TerminalInit /\ [][TerminalNext]_terminalVars
    /\ WF_outputVars(part = "output" /\ OutputProgress)

\* The types of the three components; the store never keeps more than its cap
\* (WithinRetention); a view always has its next step ahead of it and never
\* claims to be current without its snapshot (NeverStranded, NoStaleView); a call
\* reports only its own command as finished, and the output of a finished command
\* is stored before its result (FinishedIsOwn, OutputKept).
TerminalInvariant ==
    /\ OutputTypeOK /\ ViewTypeOK /\ ToolsTypeOK
    /\ WithinRetention /\ NeverStranded /\ NoStaleView /\ FinishedIsOwn /\ OutputKept
=============================================================================
