--------------------------- MODULE ResponseChannel ---------------------------
(***************************************************************************)
(* What a browser may rely on when it asks for a resource behind a Bud: it *)
(* is refused, or it is sent a response whose body of length len arrives   *)
(* in order, and which either ends after its last chunk or is cut off.     *)
(***************************************************************************)
EXTENDS Naturals

VARIABLES len,   \* chunks of the resource
          seen,  \* chunks the browser has read
          fate   \* waiting, refused, streaming, complete, cut

channelVars == <<len, seen, fate>>

ChannelInit == len \in Nat /\ seen = 0 /\ fate = "waiting"

Refuse == fate = "waiting" /\ fate' = "refused" /\ UNCHANGED <<len, seen>>

\* The headers are sent; a response without a body is over with them.
Start == fate = "waiting" /\ fate' \in {"streaming", "cut"} /\ UNCHANGED <<len, seen>>
StartEmpty == fate = "waiting" /\ len = 0 /\ fate' = "complete" /\ UNCHANGED <<len, seen>>

Deliver == fate = "streaming" /\ seen < len /\ seen' = seen + 1 /\ UNCHANGED <<len, fate>>

Complete == fate = "streaming" /\ seen = len /\ fate' = "complete" /\ UNCHANGED <<len, seen>>

Cut == fate = "streaming" /\ fate' = "cut" /\ UNCHANGED <<len, seen>>

ChannelNext == Refuse \/ Start \/ StartEmpty \/ Deliver \/ Complete \/ Cut

ChannelSpec == ChannelInit /\ [][ChannelNext]_channelVars
=============================================================================
