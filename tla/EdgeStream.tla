----------------------------- MODULE EdgeStream -----------------------------
(***************************************************************************)
(* One browser request served through a Bud: the HTTP edge of the service  *)
(* (proxy-edge.ts, file-edge.ts), its runtime stream (proxy-runtime.ts,    *)
(* file-runtime.ts), the carrier-neutral stream router                     *)
(* (data-plane-router.ts), the daemon's stream task (proxy/mod.rs,         *)
(* files/mod.rs), and the carrier between them.                            *)
(*                                                                         *)
(* The service runs on one event loop, so what a handler does between two  *)
(* awaits is one step.  The effects it still has to await, in order, are   *)
(* its script, todo[t]; the scripts of the five handlers interleave:       *)
(*   edge    the request handler       frame  the per-stream frame queue   *)
(*   limit   the idle and TTL timers   client the browser going away       *)
(*   final   finalization of a carrier other  frames of a newer carrier    *)
(* Bodies are sequences of unit chunks, so an offset counts chunks.        *)
(***************************************************************************)
EXTENDS Naturals, Sequences, FiniteSets

CONSTANTS
  Requests,    \* the requests considered: kind, carrier, HEAD or not, and the
               \* chunks of the response, of the request body and of the largest
               \* response the session allows
  MaxFaults,   \* connections lost, browsers gone, opens refused or failed
  InitCredit,  \* initial receive credit of a stream
  HighWater    \* chunks a PassThrough takes before write() returns false

ASSUME StreamBounds ==
  /\ Requests \subseteq [kind : {"proxy", "file"}, carrier : {"websocket", "h2"},
                          head : BOOLEAN, len : Nat, body : Nat, max : Nat]
  /\ \A r \in Requests : (r.kind = "file" => r.body = 0) /\ (r.head => r.len = 0 /\ r.body = 0)
  /\ MaxFaults \in Nat /\ InitCredit \in Nat \ {0} /\ HighWater \in Nat \ {0}

VARIABLES
  req,     \* the request: kind, carrier, head?, len, body
  edge,    \* where the request handler is
  todo,    \* the script each handler has still to run
  op, row, \* bud_operation.state and bud_stream.state ("none": no row)
  active,  \* the session row's activeStreamId is this stream
  rt,      \* ProxyRuntimeStream / FileRuntimeStream
  rs,      \* DataPlaneRuntimeStream
  busy,    \* the frame handler: idle, awaiting drain, or never resumed
  down, up,\* frames on their way to the daemon and to the service, by lane
  dm,      \* the daemon's stream task
  link,    \* the daemon's connection: the one the stream was offered on, ...
  trk,     \* the captured data-plane tracker: up, or down (finalized)
  reply,   \* what the browser was answered
  client,  \* the browser: here or gone
  faults   \* faults so far

streamVars == <<req, edge, todo, op, row, active, rt, rs, busy, down, up, dm,
                link, trk, reply, client, faults>>

Fault == faults < MaxFaults /\ faults' = faults + 1

Handlers == {"edge", "frame", "limit", "client", "final", "other"}
Lanes == {"control", "data", "new"}  \* new: everything on a later connection

\* A websocket carries control and stream frames in one order; over HTTP/2
\* they travel on two streams.
Lane(class) == IF req.carrier = "websocket" THEN "control" ELSE class

\* A timer fires when nothing more can arrive; one that fires while the answer
\* is still on its way is a fault.
TimerFires ==
  \/ /\ link # "old" \/ busy = "stuck" \/ (dm.st = "done" /\ \A l \in Lanes : up[l] = <<>> /\ down[l] = <<>>)
     /\ UNCHANGED faults
  \/ Fault

-----------------------------------------------------------------------------
(* Durable state: daemon-state.ts *)

OperationMoves ==
  [s \in {"offered", "accepted", "running", "unknown"} |->
     CASE s = "offered"  -> {"accepted", "rejected", "canceled", "expired", "unknown"}
       [] s = "accepted" -> {"running", "succeeded", "failed", "canceled", "unknown", "expired"}
       [] s = "running"  -> {"succeeded", "failed", "canceled", "unknown", "expired"}
       [] s = "unknown"  -> {"offered", "accepted", "running", "failed", "canceled", "expired"}]

\* transitionOperation throws before it touches the row when any of the
\* states listed in from may not move to the target; every caller here
\* swallows the error.
Transitioned(from, to) ==
  IF (\A s \in from : to \in OperationMoves[s]) /\ op \in from THEN to ELSE op

\* Every stream transition the callers ask for is in ALLOWED_STREAM_TRANSITIONS.
StreamTransitioned(from, to) == IF row \in from THEN to ELSE row

LiveOp == {"offered", "accepted", "running"}
LiveRow == {"opening", "open", "half_closed_local", "half_closed_remote"}

\* The items of a script.
Op(from, to) == <<"op", from, to>>
Row(from, to) == <<"row", from, to>>
Answer(code) == <<"reply", code>>
Say == <<"say">>            \* resetRemote: a stream_reset, its failure ignored
SayOrStop == <<"sayOrStop">>  \* sendStreamReset: throws out of the handler
Respond == <<"respond">>    \* reply.send with the accepted result
RtReset == <<"rtReset">>    \* runtime.handleReset
ClearMap == <<"clear">>     \* tracker.runtimeStreams.clear()

-----------------------------------------------------------------------------
(* Scripts: what each handler awaits after its synchronous part *)

ProxyRefusedScript ==
  <<Row({"opening"}, "reset"), Op({"offered"}, "rejected"), Answer("424")>>

ProxyBodyFailedScript ==
  <<Say, Row(LiveRow, "reset"), Op(LiveOp, "failed"), Answer("424")>>

ProxyOpenFailedScript ==
  <<Say, Row({"opening"}, "reset"), Op({"offered"}, "rejected"), Answer("504")>>

ProxyRejectedScript ==
  <<Row({"opening"}, "reset"), Op({"offered"}, "rejected"), Answer("denied")>>

ProxyAcceptedScript ==
  <<Op({"offered"}, "accepted"), Op({"accepted"}, "running"),
    Row({"opening"}, "open"), Respond>>

FileRefusedScript == ProxyRefusedScript
FileOpenFailedScript == ProxyOpenFailedScript
FileRejectedScript == ProxyRejectedScript
FileAcceptedScript == ProxyAcceptedScript

ProxyLimitScript ==
  <<Say, RtReset, Row(LiveRow, "reset"), Op(LiveOp, "failed")>>
FileLimitScript == ProxyLimitScript

ProxyClientScript == <<Row(LiveRow, "reset"), Op(LiveOp, "canceled")>>
FileClientScript == ProxyClientScript

ProxyOnResetScript(reason) ==
  IF reason = "canceled"
  THEN <<Op(LiveOp, "canceled")>>
  ELSE <<Op({"offered"}, "rejected"), Op({"accepted", "running"}, "failed")>>
FileOnResetScript(reason) == ProxyOnResetScript(reason)

ProxyOnCloseScript ==
  <<Op({"offered"}, "accepted"), Op({"accepted"}, "running"), Op({"running"}, "succeeded")>>
FileOnCloseScript == ProxyOnCloseScript

ProxyConsumerFailedScript == <<Op(LiveOp, "failed")>>
FileConsumerFailedScript == ProxyConsumerFailedScript

ByKind(proxy, file) == IF req.kind = "proxy" THEN proxy ELSE file
OpenFailed == ByKind(ProxyOpenFailedScript, FileOpenFailedScript)
OnResetScript(reason) == ByKind(ProxyOnResetScript(reason), FileOnResetScript(reason))
OnCloseScript == ByKind(ProxyOnCloseScript, FileOnCloseScript)

\* What handleStreamData adds when the consumer threw.
DataFailedScript ==
  ByKind(ProxyConsumerFailedScript, FileConsumerFailedScript)
    \o <<SayOrStop, Row(LiveRow, "reset")>>

\* What handleStreamClose does to the row after the close callback.
RowClosedScript ==
  <<Row({"opening"}, "open"),
    Row({"open", "half_closed_local", "half_closed_remote"}, "closed")>>

-----------------------------------------------------------------------------
(* The carrier *)

\* The captured tracker's connection; what it takes after the link is gone is lost.
Push(lane, frame) == IF link = "old" THEN [down EXCEPT ![lane] = Append(@, frame)] ELSE down
ResetFrame == [t |-> "reset", reason |-> "service"]
SendReset == IF trk = "up" THEN Push(Lane("data"), ResetFrame) ELSE down

Pop(lanes, lane) == [lanes EXCEPT ![lane] = Tail(@)]
HeadIs(lanes, lane, types) == lanes[lane] # <<>> /\ Head(lanes[lane]).t \in types
UpLane(class) == IF link = "new" THEN "new" ELSE Lane(class)
UpAppend(class, frame) == [up EXCEPT ![UpLane(class)] = Append(@, frame)]

-----------------------------------------------------------------------------
(* The runtime stream *)

\* runtime.handleReset called by handler t, whose script is then s: unless the
\* stream is complete already it destroys the body, cleans up (timers, both
\* registrations, activeStreamId) and rejects a pending wait for the open
\* result, which sends the edge handler down its timeout path.
HandleReset(t, s, router) ==
  LET now == ~rt.done
      woken == now /\ edge = "waiting" IN
  /\ rt' = IF now THEN [rt EXCEPT !.done = TRUE, !.flow = "destroyed", !.live = FALSE] ELSE rt
  /\ rs' = [router EXCEPT !.live = @ /\ ~now]
  /\ active' = (active /\ ~now)
  /\ edge' = IF woken THEN "answering" ELSE edge
  /\ todo' = [todo EXCEPT ![t] = s, !["edge"] = IF woken THEN OpenFailed ELSE @]

\* body.end(), which a destroyed body ignores.
Ended == IF rt.flow = "destroyed" THEN "destroyed" ELSE "ended"

ProxyHandleClose ==
  /\ rt' = IF rt.done THEN rt ELSE [rt EXCEPT !.done = TRUE, !.flow = Ended, !.live = FALSE]
  /\ active' = (active /\ rt.done)

FileHandleClose ==
  /\ rt' = CASE rt.done -> rt
             [] ~rt.done /\ rt.open = "none" -> [rt EXCEPT !.early = TRUE, !.flow = Ended]
             [] OTHER -> [rt EXCEPT !.done = TRUE, !.flow = Ended, !.live = FALSE]
  /\ active' = (active /\ (rt.done \/ rt.open = "none"))

HandleClose ==
  /\ \/ req.kind = "proxy" /\ ProxyHandleClose
     \/ req.kind = "file" /\ FileHandleClose
  /\ rs' = [rs EXCEPT !.closed = TRUE, !.live = @ /\ rt'.live]

\* The edge handler, resumed with the open result r.
Resumed(r) ==
  IF r = "accepted" THEN ByKind(ProxyAcceptedScript, FileAcceptedScript)
                    ELSE ByKind(ProxyRejectedScript, FileRejectedScript)

ProxyKeepsResult == ~rt.done
FileKeepsResult == ~rt.done \/ rt.early

\* proxy_open_result / file_open_result: looked up in the registry, kept unless
\* the stream is complete.  A rejected result makes the edge clean up; a file
\* stream that was closed early is completed and cleaned up by its result.
OpenResultArrives(lane) ==
  /\ HeadIs(up, lane, {"opened"})
  /\ LET r == Head(up[lane]).result
         kept == rt.live /\ IF req.kind = "proxy" THEN ProxyKeepsResult ELSE FileKeepsResult
         woken == kept /\ edge = "waiting"
         drop == (kept /\ rt.early) \/ (woken /\ r = "rejected") IN
     /\ up' = Pop(up, lane)
     /\ rt' = IF kept THEN [rt EXCEPT !.open = r, !.done = @ \/ rt.early, !.live = ~drop] ELSE rt
     /\ rs' = [rs EXCEPT !.live = @ /\ ~drop]
     /\ active' = (active /\ ~drop)
     /\ edge' = IF woken THEN "answering" ELSE edge
     /\ todo' = IF woken THEN [todo EXCEPT !["edge"] = Resumed(r)] ELSE todo
  /\ UNCHANGED <<req, op, row, busy, down, dm, link, trk, reply, client, faults>>

-----------------------------------------------------------------------------
(* The edge handler *)

\* createOperation, after the synchronous checks: the tracker must be there.
Admit ==
  /\ edge = "new"
  /\ \/ trk = "down" /\ edge' = "done" /\ reply' = "424" /\ UNCHANGED op
     \/ trk = "up" /\ edge' = "offered" /\ op' = "offered" /\ UNCHANGED reply
  /\ UNCHANGED <<req, todo, row, active, rt, rs, busy, down, up, dm, link, trk, client, faults>>

ProxyAdmits == req.kind = "proxy" /\ Admit
FileAdmits == req.kind = "file" /\ Admit

\* createStream, then the session's activeStreamId.
CreateStream ==
  /\ edge = "offered"
  /\ edge' = "stored" /\ row' = "opening" /\ active' = TRUE
  /\ UNCHANGED <<req, todo, op, rt, rs, busy, down, up, dm, link, trk, reply, client, faults>>

\* Timers armed, runtime and router streams registered on the captured tracker,
\* the open frame sent through the Bud's current control connection.
OpenSent ==
  /\ edge = "stored"
  /\ trk = "up" \/ link = "new"
  /\ rt' = [rt EXCEPT !.live = TRUE]
  /\ rs' = [rs EXCEPT !.live = TRUE, !.credit = InitCredit]
  /\ down' = IF link = "none" THEN down
             ELSE [down EXCEPT !["control"] = Append(@, [t |-> "open"])]
  /\ edge' = IF req.body > 0 THEN "body" ELSE "waiting"
  /\ UNCHANGED <<req, todo, op, row, active, busy, up, dm, link, trk, reply, client, faults>>

ProxyOffers == req.kind = "proxy" /\ OpenSent
FileOffers == req.kind = "file" /\ OpenSent

\* The control router had no connection, was draining or was backpressured.
OpenRefused ==
  /\ edge = "stored"
  /\ \/ trk = "down" /\ link = "none" /\ UNCHANGED faults
     \/ Fault
  /\ edge' = "answering" /\ active' = FALSE
  /\ todo' = [todo EXCEPT !["edge"] = ByKind(ProxyRefusedScript, FileRefusedScript)]
  /\ UNCHANGED <<req, op, row, rt, rs, busy, down, up, dm, link, trk, reply, client>>

\* sendDataPlaneStreamData of one request-body chunk.
SendRequestBody ==
  /\ edge = "body" /\ rs.live /\ ~rs.reset /\ trk = "up"
  /\ LET last == rs.sendOff + 1 = req.body
         settled == last /\ (rt.open # "none" \/ rt.done)
         drop == settled /\ rt.open # "accepted" IN
     /\ down' = Push(Lane("data"), [t |-> "data", off |-> rs.sendOff, last |-> last])
     /\ rs' = [rs EXCEPT !.sendOff = @ + 1, !.live = ~drop]
     /\ rt' = [rt EXCEPT !.live = @ /\ ~drop]
     /\ active' = (active /\ ~drop)
     /\ edge' = CASE settled -> "answering" [] last /\ ~settled -> "waiting" [] OTHER -> "body"
     /\ todo' = IF settled
                THEN [todo EXCEPT !["edge"] = IF rt.open = "none" THEN OpenFailed ELSE Resumed(rt.open)]
                ELSE todo
  /\ UNCHANGED <<req, op, row, busy, up, dm, link, trk, reply, client, faults>>

RequestBodyFails ==
  /\ edge = "body" /\ ~(rs.live /\ ~rs.reset /\ trk = "up")
  /\ edge' = "answering" /\ active' = FALSE
  /\ rt' = [rt EXCEPT !.live = FALSE] /\ rs' = [rs EXCEPT !.live = FALSE]
  /\ todo' = [todo EXCEPT !["edge"] = ProxyBodyFailedScript]
  /\ UNCHANGED <<req, op, row, busy, down, up, dm, link, trk, reply, client, faults>>

\* Mutant: the close of the stream disarms the open timer.
MutTimerDisarmed ==
  /\ TimerFires
  /\ edge = "waiting" /\ ~rt.done
  /\ edge' = "answering" /\ active' = FALSE
  /\ rt' = [rt EXCEPT !.live = FALSE] /\ rs' = [rs EXCEPT !.live = FALSE]
  /\ todo' = [todo EXCEPT !["edge"] = OpenFailed]
  /\ UNCHANGED <<req, op, row, busy, down, up, dm, link, trk, reply, client>>

\* waitForOpen's timer: cleanup, then the timeout path.
OpenTimesOut ==
  /\ TimerFires
  /\ edge = "waiting"
  /\ edge' = "answering" /\ active' = FALSE
  /\ rt' = [rt EXCEPT !.live = FALSE] /\ rs' = [rs EXCEPT !.live = FALSE]
  /\ todo' = [todo EXCEPT !["edge"] = OpenFailed]
  /\ UNCHANGED <<req, op, row, busy, down, up, dm, link, trk, reply, client>>

-----------------------------------------------------------------------------
(* Running a script: one awaited effect per step *)

Next1(t, kind) == todo[t] # <<>> /\ Head(todo[t])[1] = kind
Rest(t) == [todo EXCEPT ![t] = Tail(@)]

RunOperation(t) ==
  /\ Next1(t, "op") /\ todo' = Rest(t)
  /\ op' = Transitioned(Head(todo[t])[2], Head(todo[t])[3])
  /\ UNCHANGED <<req, edge, row, active, rt, rs, busy, down, up, dm, link, trk, reply, client, faults>>

RunRow(t) ==
  /\ Next1(t, "row") /\ todo' = Rest(t)
  /\ row' = StreamTransitioned(Head(todo[t])[2], Head(todo[t])[3])
  /\ UNCHANGED <<req, edge, op, active, rt, rs, busy, down, up, dm, link, trk, reply, client, faults>>

RunSay(t) ==
  /\ \/ Next1(t, "say") /\ todo' = Rest(t)
     \/ Next1(t, "sayOrStop") /\ todo' = IF trk = "up" THEN Rest(t) ELSE [todo EXCEPT ![t] = <<>>]
  /\ down' = SendReset
  /\ UNCHANGED <<req, edge, op, row, active, rt, rs, busy, up, dm, link, trk, reply, client, faults>>

RunRtReset(t) ==
  /\ Next1(t, "rtReset")
  /\ HandleReset(t, Tail(todo[t]), rs)
  /\ UNCHANGED <<req, op, row, busy, down, up, dm, link, trk, reply, client, faults>>

RunClear(t) ==
  /\ Next1(t, "clear") /\ todo' = Rest(t)
  /\ rs' = [rs EXCEPT !.live = FALSE]
  /\ UNCHANGED <<req, edge, op, row, active, rt, busy, down, up, dm, link, trk, reply, client, faults>>

RunReply(t) ==
  /\ Next1(t, "reply") /\ todo' = Rest(t)
  /\ reply' = Head(todo[t])[2] /\ edge' = "done"
  /\ UNCHANGED <<req, op, row, active, rt, rs, busy, down, up, dm, link, trk, client, faults>>

\* Mutant: a stream that is done already is answered without its body.
MutSkipsDoneBody(t) ==
  /\ Next1(t, "respond") /\ todo' = Rest(t)
  /\ reply' = "200" /\ edge' = "done"
  /\ rt' = [rt EXCEPT !.complete = req.head \/ rt.done,
                      !.flow = IF ~req.head /\ client = "gone" THEN "destroyed" ELSE @]
  /\ UNCHANGED <<req, op, row, active, rs, busy, down, up, dm, link, trk, client, faults>>

\* The accepted result is answered.  A HEAD has no body; otherwise the body is
\* piped to the browser, and Fastify destroys it when the browser has gone.
RunRespond(t) ==
  /\ Next1(t, "respond") /\ todo' = Rest(t)
  /\ reply' = "200" /\ edge' = "done"
  /\ rt' = [rt EXCEPT !.complete = req.head,
                      !.flow = IF ~req.head /\ client = "gone" THEN "destroyed" ELSE @]
  /\ UNCHANGED <<req, op, row, active, rs, busy, down, up, dm, link, trk, client, faults>>

\* Fastify's pipe and the browser (external): one chunk, or the end.
BrowserReads ==
  /\ reply = "200" /\ ~req.head /\ client = "here" /\ rt.flow # "destroyed" /\ ~rt.complete
  /\ \/ rt.buf > 0 /\ rt' = [rt EXCEPT !.buf = @ - 1, !.read = @ + 1]
     \/ rt.buf = 0 /\ rt.flow = "ended" /\ rt' = [rt EXCEPT !.complete = TRUE]
  /\ UNCHANGED <<req, edge, todo, op, row, active, rs, busy, down, up, dm, link, trk, reply, client, faults>>

-----------------------------------------------------------------------------
(* Timers, the browser, the carrier *)

\* resetFromServiceLimit of the idle or the TTL timer; cleanup disarms both.
LimitFires ==
  /\ TimerFires
  /\ rt.live /\ ~rt.limited
  /\ ~rt.done /\ ~rt.complete
  /\ rt' = [rt EXCEPT !.limited = TRUE]
  /\ todo' = [todo EXCEPT !["limit"] = ByKind(ProxyLimitScript, FileLimitScript)]
  /\ UNCHANGED <<req, edge, op, row, active, rs, busy, down, up, dm, link, trk, reply, client>>

\* onClientClosed, which runs on the request's abort and, once the body is
\* piped, on the response's close.
ClientClosed ==
  /\ Fault /\ client = "here" /\ client' = "gone"
  /\ rt.live /\ ~rt.done /\ ~rt.complete
  /\ down' = SendReset
  /\ HandleReset("client", ByKind(ProxyClientScript, FileClientScript), rs)
  /\ UNCHANGED <<req, op, row, busy, up, dm, link, trk, reply>>

\* The browser goes away and no listener hears it: before the stream is
\* registered, after it is complete, or while it opens (a request whose body
\* was read to the end emits no abort).
ClientVanishes ==
  /\ Fault /\ client = "here" /\ client' = "gone"
  /\ ~rt.live \/ rt.complete \/ reply = "none"
  /\ rt' = [rt EXCEPT !.flow = IF reply = "200" /\ ~req.head /\ ~rt.complete THEN "destroyed" ELSE @]
  /\ UNCHANGED <<req, edge, todo, op, row, active, rs, busy, down, up, dm, link, trk, reply>>

\* The connection drops: the service keeps what it has read, the rest is
\* lost, and the daemon aborts its streams.
CarrierLost ==
  /\ Fault /\ link = "old" /\ link' = "none"
  /\ down' = [l \in Lanes |-> <<>>]
  /\ \E c \in 0..Len(up["control"]), d \in 0..Len(up["data"]) :
       up' = [up EXCEPT !["control"] = SubSeq(@, 1, c), !["data"] = SubSeq(@, 1, d)]
  /\ dm' = [dm EXCEPT !.st = IF @ = "none" THEN "none" ELSE "done"]
  /\ UNCHANGED <<req, edge, todo, op, row, active, rt, rs, busy, trk, reply, client>>

Reconnect ==
  /\ link = "none" /\ link' = "new"
  /\ UNCHANGED <<req, edge, todo, op, row, active, rt, rs, busy, down, up, dm, trk, reply, client, faults>>

\* closeTransportSession marks what the connection leaves behind, unless a newer
\* connection superseded it.  The stream row names the data transport, which
\* over HTTP/2 is closed without marking.
MarkUnknownScript ==
  CASE link = "new" -> <<>>
    [] link # "new" /\ req.carrier = "h2" -> <<Op(LiveOp, "unknown")>>
    [] OTHER -> <<Op(LiveOp, "unknown"), Row(LiveRow, "unknown")>>

\* The service notices: finalizeDataPlaneSessionTracker resets the streams of
\* the tracker that are neither closed nor reset, then clears its map.
Finalize ==
  /\ trk = "up" /\ link # "old" /\ trk' = "down"
  /\ LET closing == <<ClearMap>> \o MarkUnknownScript IN
     IF rs.live /\ ~rs.closed /\ ~rs.reset
     THEN HandleReset("final", OnResetScript("transport_lost") \o <<Row(LiveRow, "reset")>> \o closing,
                      [rs EXCEPT !.reset = TRUE])
     ELSE /\ todo' = [todo EXCEPT !["final"] = closing]
          /\ UNCHANGED <<edge, active, rt, rs>>
  /\ UNCHANGED <<req, op, row, busy, down, up, dm, link, reply, client, faults>>

-----------------------------------------------------------------------------
(* The per-stream frame queue of the router: one frame at a time *)

FrameReady(type) ==
  busy = "idle" /\ todo["frame"] = <<>> /\ HeadIs(up, Lane("data"), {type})
Arriving == Head(up[Lane("data")])
Taken == up' = Pop(up, Lane("data"))

\* recordDataPlaneInboundChunk refuses the chunk.
ChunkRefused(f) == rs.reset \/ rs.closed \/ f.off # rs.off \/ rs.credit = 0

\* handleStreamData up to its refusals: the peer is told, the stream is left.
StreamDataRefused ==
  /\ FrameReady("data") /\ (~rs.live \/ ChunkRefused(Arriving)) /\ Taken
  /\ down' = SendReset
  /\ rs' = [rs EXCEPT !.refused = @ \/ rs.live]
  /\ UNCHANGED <<req, edge, todo, op, row, active, rt, busy, dm, link, trk, reply, client, faults>>

\* grantDataPlaneReceiveCredit and the stream_credit frame.
CreditSent == IF trk = "up" THEN Push(Lane("data"), [t |-> "credit"]) ELSE down

\* The chunk is accepted and written to the body: credit goes back at once, or
\* after the body drains, or never (write() on a destroyed body).
StreamDataWritten ==
  /\ FrameReady("data") /\ rs.live /\ ~ChunkRefused(Arriving) /\ Taken
  /\ ~rt.done /\ rt.got < req.max
  /\ rt' = [rt EXCEPT !.got = @ + 1, !.buf = @ + 1]
  /\ \/ /\ rt.flow # "destroyed" /\ rt.buf + 1 < HighWater
        /\ rs' = [rs EXCEPT !.off = @ + 1] /\ down' = CreditSent /\ UNCHANGED busy
     \/ /\ rt.flow = "destroyed" \/ rt.buf + 1 >= HighWater
        /\ rs' = [rs EXCEPT !.off = @ + 1, !.credit = @ - 1] /\ UNCHANGED down
        /\ busy' = IF rt.flow = "destroyed" THEN "stuck" ELSE "drain"
  /\ UNCHANGED <<req, edge, todo, op, row, active, dm, link, trk, reply, client, faults>>

StreamDataDrained ==
  /\ busy = "drain" /\ rt.buf = 0 /\ rt.flow # "destroyed"
  /\ busy' = "idle" /\ rs' = [rs EXCEPT !.credit = @ + 1] /\ down' = CreditSent
  /\ UNCHANGED <<req, edge, todo, op, row, active, rt, up, dm, link, trk, reply, client, faults>>

\* The body errors or closes under a writer that waits for it to drain.
StreamDataFails ==
  /\ busy = "drain" /\ rt.flow = "destroyed"
  /\ busy' = "idle" /\ todo' = [todo EXCEPT !["frame"] = DataFailedScript]
  /\ UNCHANGED <<req, edge, op, row, active, rt, rs, down, up, dm, link, trk, reply, client, faults>>

\* The response is larger than the session allows: completed, the body
\* destroyed, cleaned up, and the error thrown to handleStreamData.
ResponseTooLarge ==
  /\ FrameReady("data") /\ rs.live /\ ~ChunkRefused(Arriving) /\ Taken
  /\ ~rt.done /\ rt.got >= req.max
  /\ HandleReset("frame", DataFailedScript, [rs EXCEPT !.off = @ + 1, !.credit = @ - 1])
  /\ UNCHANGED <<req, op, row, busy, down, dm, link, trk, reply, client, faults>>

StreamResetArrives ==
  /\ FrameReady("reset") /\ Taken
  /\ IF rs.live
     THEN HandleReset("frame", OnResetScript(Arriving.reason) \o <<Row(LiveRow, "reset")>>,
                      [rs EXCEPT !.reset = TRUE])
     ELSE /\ todo' = [todo EXCEPT !["frame"] = <<Row(LiveRow, "reset")>>]
          /\ UNCHANGED <<edge, active, rt, rs>>
  /\ UNCHANGED <<req, op, row, busy, down, dm, link, trk, reply, client, faults>>

StreamCloseArrives ==
  /\ FrameReady("close") /\ Taken
  /\ \/ /\ rs.live /\ Arriving.final # rs.off
        /\ HandleReset("frame", OnResetScript("protocol_error") \o <<Say, Row(LiveRow, "reset")>>,
                       [rs EXCEPT !.reset = TRUE, !.refused = TRUE])
     \/ /\ rs.live /\ Arriving.final = rs.off
        /\ HandleClose
        /\ todo' = [todo EXCEPT !["frame"] = OnCloseScript \o RowClosedScript]
        /\ UNCHANGED edge
     \/ /\ ~rs.live
        /\ todo' = [todo EXCEPT !["frame"] = RowClosedScript]
        /\ UNCHANGED <<edge, active, rt, rs>>
  /\ UNCHANGED <<req, op, row, busy, down, dm, link, trk, reply, client, faults>>

\* Frames of a later connection reach a tracker that does not know the stream.
OtherTracker ==
  /\ todo["other"] = <<>> /\ HeadIs(up, "new", {"data", "reset", "close"})
  /\ up' = Pop(up, "new")
  /\ LET f == Head(up["new"]) IN
     /\ down' = IF f.t = "data" THEN [down EXCEPT ![Lane("data")] = Append(@, ResetFrame)] ELSE down
     /\ todo' = [todo EXCEPT !["other"] =
                   CASE f.t = "data" -> <<>>
                     [] f.t = "reset" -> <<Row(LiveRow, "reset")>>
                     [] f.t = "close" -> RowClosedScript]
  /\ UNCHANGED <<req, edge, op, row, active, rt, rs, busy, dm, link, trk, reply, client, faults>>

-----------------------------------------------------------------------------
(* The daemon *)

DaemonMoves(next, sent) ==
  /\ dm' = next /\ up' = sent
  /\ UNCHANGED <<req, edge, todo, op, row, active, rt, rs, busy, link, trk, reply, client>>
Daemon(next, sent) == DaemonMoves(next, sent) /\ UNCHANGED faults
DaemonFails(sent) == DaemonMoves([dm EXCEPT !.st = "done"], sent) /\ Fault

\* proxy_open registers the stream before its task runs; file_open only spawns.
DaemonOpens ==
  /\ HeadIs(down, "control", {"open"}) /\ down' = Pop(down, "control")
  /\ Daemon([dm EXCEPT !.credit = InitCredit,
                       !.st = CASE req.kind = "file" -> "spawned"
                                [] req.kind = "proxy" /\ req.body > 0 -> "body"
                                [] OTHER -> "local"], up)

FileRegisters ==
  dm.st = "spawned" /\ Daemon([dm EXCEPT !.st = "local"], up) /\ UNCHANGED down

Registered == dm.st \in {"body", "local", "stream"} /\ ~dm.reset

\* A request-body chunk: unknown streams are reset, bad offsets rejected.
DaemonGetsData ==
  /\ HeadIs(down, Lane("data"), {"data"}) /\ down' = Pop(down, Lane("data"))
  /\ LET f == Head(down[Lane("data")]) IN
     \/ ~Registered /\ Daemon(dm, UpAppend("data", [t |-> "reset", reason |-> "protocol_error"]))
     \/ /\ Registered /\ dm.st = "body" /\ f.off = dm.body
        /\ Daemon([dm EXCEPT !.body = @ + 1, !.st = IF f.last THEN "local" ELSE @], up)
     \/ /\ Registered /\ dm.st = "body" /\ f.off # dm.body
        /\ Daemon([dm EXCEPT !.st = "done"], UpAppend("control", [t |-> "opened", result |-> "rejected"]))

DaemonGetsCredit ==
  /\ HeadIs(down, Lane("data"), {"credit"}) /\ down' = Pop(down, Lane("data"))
  /\ Daemon(IF Registered THEN [dm EXCEPT !.credit = @ + 1] ELSE dm, up)

DaemonGetsReset ==
  /\ HeadIs(down, Lane("data"), {"reset"}) /\ down' = Pop(down, Lane("data"))
  /\ Daemon(IF Registered THEN [dm EXCEPT !.reset = TRUE] ELSE dm, up)

\* The task sees the reset: while it reads the request body it still answers.
\* A file task only looks when it is out of credit.
DaemonStops ==
  /\ dm.reset
  /\ \/ dm.st = "body" /\ Daemon([dm EXCEPT !.st = "done"],
                                 UpAppend("control", [t |-> "opened", result |-> "rejected"]))
     \/ /\ dm.st = "local" \/ (dm.st = "stream" /\ ~req.head)
        /\ req.kind = "proxy" \/ (dm.st = "stream" /\ dm.off < req.len /\ dm.credit = 0)
        /\ Daemon([dm EXCEPT !.st = "done"], up)
  /\ UNCHANGED down

\* The policy, the target or the file refuses.
DaemonRejects ==
  /\ dm.st \in {"body", "local"}
  /\ DaemonFails(UpAppend("control", [t |-> "opened", result |-> "rejected"]))
  /\ UNCHANGED down

DaemonAccepts ==
  /\ dm.st = "local"
  /\ Daemon([dm EXCEPT !.st = "stream"], UpAppend("control", [t |-> "opened", result |-> "accepted"]))
  /\ UNCHANGED down

\* Mutant: the reader does not wait for credit.
MutNoCredit ==
  /\ dm.st = "stream" /\ dm.off < req.len
  /\ req.kind = "file" \/ ~dm.reset
  /\ Daemon([dm EXCEPT !.off = @ + 1], UpAppend("data", [t |-> "data", off |-> dm.off]))
  /\ UNCHANGED down

\* A chunk is read and sent once there is credit for it.
DaemonSends ==
  /\ dm.st = "stream" /\ dm.off < req.len /\ dm.credit > 0
  /\ req.kind = "file" \/ ~dm.reset
  /\ Daemon([dm EXCEPT !.off = @ + 1, !.credit = @ - 1], UpAppend("data", [t |-> "data", off |-> dm.off]))
  /\ UNCHANGED down

\* Mutant: running out of credit ends the reader's loop.
MutCloseEarly ==
  /\ dm.st = "stream"
  /\ dm.off = req.len \/ (dm.off > 0 /\ dm.credit = 0)
  /\ Daemon([dm EXCEPT !.st = "done"], UpAppend("data", [t |-> "close", final |-> dm.off]))
  /\ UNCHANGED down

\* The end of the body: stream_close with the final offset.
DaemonCloses ==
  /\ dm.st = "stream" /\ dm.off = req.len
  /\ Daemon([dm EXCEPT !.st = "done"], UpAppend("data", [t |-> "close", final |-> dm.off]))
  /\ UNCHANGED down

\* response.chunk() fails under a proxied response.
DaemonReadFails ==
  /\ dm.st = "stream" /\ req.kind = "proxy" /\ ~req.head
  /\ DaemonFails(UpAppend("data", [t |-> "reset", reason |-> "remote_error"]))
  /\ UNCHANGED down

-----------------------------------------------------------------------------
(* The system *)

StreamInit ==
  /\ req \in Requests
  /\ edge = "new" /\ todo = [t \in Handlers |-> <<>>]
  /\ op = "none" /\ row = "none" /\ active = FALSE
  /\ rt = [open |-> "none", done |-> FALSE, early |-> FALSE, live |-> FALSE, flow |-> "open",
           got |-> 0, buf |-> 0, read |-> 0, complete |-> FALSE, limited |-> FALSE]
  /\ rs = [live |-> FALSE, off |-> 0, credit |-> 0, sendOff |-> 0, closed |-> FALSE,
           reset |-> FALSE, refused |-> FALSE]
  /\ busy = "idle"
  /\ down = [l \in Lanes |-> <<>>] /\ up = [l \in Lanes |-> <<>>]
  /\ dm = [st |-> "none", off |-> 0, credit |-> 0, body |-> 0, reset |-> FALSE]
  /\ link = "old" /\ trk = "up" /\ reply = "none" /\ client = "here" /\ faults = 0

RunScript(t) ==
  \/ RunOperation(t) \/ RunRow(t) \/ RunSay(t)
  \/ RunRtReset(t) \/ RunClear(t) \/ RunReply(t) \/ RunRespond(t)

EdgeStep ==
  \/ ProxyAdmits \/ FileAdmits \/ CreateStream \/ ProxyOffers \/ FileOffers
  \/ OpenRefused \/ SendRequestBody \/ RequestBodyFails
FrameStep ==
  \/ StreamDataRefused \/ StreamDataWritten \/ StreamDataDrained \/ StreamDataFails
  \/ ResponseTooLarge \/ StreamResetArrives \/ StreamCloseArrives \/ OtherTracker
DaemonStep ==
  \/ DaemonOpens \/ FileRegisters \/ DaemonGetsData \/ DaemonGetsCredit \/ DaemonGetsReset
  \/ DaemonStops \/ DaemonRejects \/ DaemonAccepts \/ DaemonSends \/ DaemonCloses \/ DaemonReadFails

StreamNext ==
  \/ EdgeStep \/ FrameStep \/ DaemonStep
  \/ \E t \in Handlers : RunScript(t)
  \/ \E lane \in {"control", "new"} : OpenResultArrives(lane)
  \/ OpenTimesOut \/ LimitFires \/ BrowserReads
  \/ ClientClosed \/ ClientVanishes \/ CarrierLost \/ Reconnect \/ Finalize

StreamSpec == StreamInit /\ [][StreamNext]_streamVars

\* Handlers that are resumed run on, timers fire, frames are read, the daemon's
\* tasks are polled and a browser that stays reads; nothing makes a connection
\* drop, come back or a browser leave.
StreamFairness ==
  /\ WF_streamVars(EdgeStep) /\ WF_streamVars(FrameStep) /\ WF_streamVars(DaemonStep)
  /\ \A t \in Handlers : WF_streamVars(RunScript(t))
  /\ \A lane \in {"control", "new"} : WF_streamVars(OpenResultArrives(lane))
  /\ WF_streamVars(OpenTimesOut) /\ WF_streamVars(LimitFires)
  /\ WF_streamVars(BrowserReads) /\ WF_streamVars(Finalize)

StreamFairSpec == StreamSpec /\ StreamFairness

-----------------------------------------------------------------------------
(* Properties *)

\* The states of the handler, the rows, the body and the credit: the service
\* never believes the daemon has more credit than it was first given.
StreamTypeOK ==
  /\ req \in Requests
  /\ edge \in {"new", "offered", "stored", "body", "waiting", "answering", "done"}
  /\ op \in {"none", "unknown", "rejected", "succeeded", "failed", "canceled"} \cup LiveOp
  /\ row \in {"none", "unknown", "closed", "reset"} \cup LiveRow
  /\ rt.flow \in {"open", "ended", "destroyed"} /\ rt.got \in 0..req.max
  /\ rt.got = rt.buf + rt.read
  /\ rs.off \in 0..req.len /\ rs.credit \in 0..InitCredit
  /\ busy \in {"idle", "drain", "stuck"}
  /\ link \in {"old", "none", "new"} /\ trk \in {"up", "down"}

\* A response body ends without an error, and an operation is recorded as
\* succeeded, only when every chunk the daemon read has reached the service.
WholeBodies ==
  /\ rt.flow = "ended" => rt.got = req.len
  /\ op = "succeeded" => rt.got = req.len

\* Offsets and credit of the two ends agree whatever is reset, closed or lost
\* in between: no chunk and no close of a stream the router still knows is
\* ever out of place or over credit.
NeverRefused == ~rs.refused

\* Flow control bounds what the service holds of one response.
Held == Cardinality({p \in Lanes \X (1..(req.len + 2)) :
                       p[2] <= Len(up[p[1]]) /\ up[p[1]][p[2]].t = "data"}) + rt.buf
BufferBounded == Held <= InitCredit + HighWater

\* Every handler has finished, every frame was read and the stream is forgotten.
Quiet ==
  /\ edge = "done" /\ ~rt.live /\ ~rs.live
  /\ \A t \in Handlers : todo[t] = <<>>
  /\ \A l \in Lanes : up[l] = <<>> /\ down[l] = <<>>

\* When all is over the session no longer names the stream, and unless the
\* carrier was lost the stream's row has reached a final state.  (After a loss
\* handleStreamData's sendStreamReset throws out of its catch block and the row
\* is left as it was.)
RowSettled == Quiet => ~active /\ (trk = "up" => row \notin LiveRow)

\* The types, whole bodies, the bound on what is held, and settled rows.
StreamInvariant == StreamTypeOK /\ WholeBodies /\ BufferBounded /\ RowSettled

\* proxy.spec.md: the edge "maps daemon open rejection, timeout, transport loss,
\* and client close to typed HTTP/durable states": when all is over the
\* operation has left its live states.
OperationSettled == Quiet => op \notin LiveOp

\* A request answered with "Bud did not accept the stream before the timeout"
\* is not recorded as succeeded.
TimeoutsRecorded == reply = "504" => op # "succeeded"

\* Every request is answered: the open timeout, the reset paths and the
\* refusals leave no handler waiting, whatever is lost.
Answered == <>(reply # "none")
\* Both registrations and the session's activeStreamId are released for good,
\* so that abandoned requests do not use up the Bud's stream limit.  The
\* exception is real: a HEAD whose open travelled on a newer connection is
\* closed towards a tracker that does not know it, and no timer is left.
Released == <>[]((~rt.live /\ ~rs.live /\ ~active) \/ (req.head /\ link = "new"))

-----------------------------------------------------------------------------
(* Refinement *)

\* The response as the browser sees it.
Fate ==
  CASE reply = "none" -> "waiting"
    [] reply \notin {"none", "200"} -> "refused"
    [] reply = "200" /\ rt.complete -> "complete"
    [] reply = "200" /\ ~rt.complete /\ rt.flow = "destroyed" -> "cut"
    [] OTHER -> "streaming"

Channel == INSTANCE ResponseChannel WITH
  len <- req.len, seen <- rt.read, fate <- Fate

\* Edge, router, daemon and carrier together implement the channel: whatever
\* is reset, lost, late or too large, the browser never sees a body out of
\* order, and never a clean end before the last chunk.
RefinesChannel == Channel!ChannelSpec
=============================================================================
