----------------------------- MODULE MCControl ------------------------------
(***************************************************************************)
(* The link between a Bud and the service for model checking: the          *)
(* connections and their clean-up, the frames on the wire, and the control *)
(* of a managed browser.  Each behaviour is one of one component, named by *)
(* `part`; the others rest in an initial state.                            *)
(***************************************************************************)
EXTENDS DaemonSession, Wire, BrowserControl

VARIABLE part

linkVars == <<part, svars, wireVars, controlVars>>

LinkInit ==
    /\ part \in {"session", "wire", "browser"}
    /\ SessionInit /\ WireInit /\ Init
    /\ part # "wire" => transport = "grpc"

SessionSteps == part = "session" /\ SessionNext /\ UNCHANGED <<part, wireVars, controlVars>>
WireSteps == part = "wire" /\ WireNext /\ UNCHANGED <<part, svars, controlVars>>
BrowserSteps == part = "browser" /\ Next /\ UNCHANGED <<part, svars, wireVars>>
LinkNext == SessionSteps \/ WireSteps \/ BrowserSteps

LinkFairSpec ==
    /\ LinkInit /\ [][LinkNext]_linkVars
    /\ WF_svars(part = "session" /\ SessionProgress)

\* The types of the three components; a registered connection that is the
\* current one has its heartbeat timer, or its handshake is still running
\* (TimerGuards); no frame is lost but those the README lists (NothingElseLost).
LinkInvariant ==
    SessionTypeOK /\ WireTypeOK /\ BrowserTypeOK /\ TimerGuards /\ NothingElseLost

\* Reconnects, of the behaviours in which the connections run: when the faults
\* stop, the daemon stays in a session whose tracker is the current one
\* (main.rs, bud-connection.ts, control-gateway.ts).
SessionReturns == part = "session" => Reconnects
=============================================================================
