--------------------------- MODULE MCConversation ---------------------------
(***************************************************************************)
(* The conversation for model checking: the rows a turn leaves and what    *)
(* the next load replays of them, the control of a running turn, and the   *)
(* browser's feed of it.  Each behaviour is one of one component, named by *)
(* `part`; the others rest in an initial state.                            *)
(***************************************************************************)
EXTENDS ConversationReplay, TurnControl, AgentFeed

VARIABLE part

conversationVars == <<part, replayVars, turnVars, feedVars>>

ConversationInit ==
    /\ part \in {"replay", "turn", "feed"}
    /\ ReplayInit /\ TurnInit /\ FeedInit
    /\ part # "feed" => shape = CHOOSE s \in Shapes : TRUE

ReplaySteps == part = "replay" /\ ReplayNext /\ UNCHANGED <<part, turnVars, feedVars>>
TurnSteps == part = "turn" /\ TurnNext /\ UNCHANGED <<part, replayVars, feedVars>>
FeedSteps == part = "feed" /\ FeedNext /\ UNCHANGED <<part, replayVars, turnVars>>
ConversationNext == ReplaySteps \/ TurnSteps \/ FeedSteps

ConversationSpec == ConversationInit /\ [][ConversationNext]_conversationVars

\* The types of the three components; no row a model could read is left out of a
\* load (NothingForgotten); a stop leaves no question open (StopLeavesNoQuestion);
\* a browser without a stream has its next step ahead of it, or shows the user
\* why it stopped (NeverLeftBehind).
ConversationInvariant ==
    /\ ReplayTypeOK /\ TurnTypeOK /\ FeedTypeOK
    /\ NothingForgotten /\ StopLeavesNoQuestion /\ NeverLeftBehind
=============================================================================
