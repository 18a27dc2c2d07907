----------------------------- MODULE AgentFeed -----------------------------
(***************************************************************************)
(* How a browser keeps showing what one thread's agent is doing.  The      *)
(* service holds a runtime snapshot and a bounded buffer of events with    *)
(* cursors (agent-runtime-state.ts); committed message rows come back as   *)
(* database notifications and are published from there                     *)
(* (transcript-events.ts), invocation rows likewise (invocation-events.ts).*)
(* The browser follows GET /agent/stream from its cursor, and when the     *)
(* stream cannot tell it what it missed it reads GET /open, merges, checks *)
(* the rows it holds and attaches again (use-agent-stream.ts,              *)
(* use-thread-messages.ts, thread-message-state.ts, $threadId.tsx).        *)
(*                                                                         *)
(* One thread, one turn, one browser.  A cursor is an index of the log of  *)
(* everything ever appended to the buffer; the buffer is the log from      *)
(* `floor` on.  What a listener was sent and the browser has not handled   *)
(* yet is the log after `pos`.                                             *)
(***************************************************************************)
EXTENDS Naturals, Sequences, FiniteSets

CONSTANTS MaxDeltas,      \* pieces the model streams its answer in
          BufferLimit,    \* AgentRuntimeStateManager.bufferLimit
          Shapes,         \* what the turn does: answer, call a tool, reason
          MaxEvents       \* things the user does and things that fail

Ids == {"user", "reasoning", "tool", "answer"}
Drafted == {"reasoning", "answer"}
Silent == <<0>>                    \* no draft: a text is a sequence of pieces
WholeText == [n \in 1..MaxDeltas |-> n]

VARIABLES log, floor,              \* the buffer and its cursors
          shape,                   \* the kind of turn this is
          snapshot,                \* the runtime snapshot
          turn,                    \* how far the turn has come
          rows,                    \* message rows: 0 none, 1 inserted, 2 rewritten
          invocation,              \* the invocation row's status
          listening,               \* ThreadChangeListener.client
          hints                    \* TranscriptEvents.pending

serverVars == <<log, floor, shape, snapshot, turn, rows, invocation, listening, hints>>

VARIABLES source,                  \* eventSourceRef.current
          pos, after,              \* what it has delivered; what it asks for
          cursor,                  \* cursorRef.current, 0 for null
          checking,                \* the error handler waits for checkUnauthorized
          recovering,              \* recoveryInFlightRef
          reconnectTimer, recoveryTimer,
          accessLost,              \* the user was told to reload: the last recovery was refused
          authRedirectPending,     \* a 401 was answered: the page is leaving for /login
          requests,                \* the browser's reads in flight
          view, protected, removed, \* useThreadMessages
          post                     \* the user's POST /messages

accessVars == <<accessLost, authRedirectPending>>
streamVars == <<source, pos, after, cursor, checking, recovering, reconnectTimer, recoveryTimer, accessVars>>
viewVars == <<view, protected, removed>>
clientVars == <<streamVars, requests, viewVars, post>>

VARIABLES events,                  \* how many of MaxEvents there have been
          astray                   \* the cursor passed what was never read

feedVars == <<serverVars, clientVars, events, astray>>

----------------------------------------------------------------------------
(* Events, rows of the transcript, and the messages of the view.           *)

BufferEntry ==
  [event : {"checkpoint", "start", "delta", "done", "message", "reasoning_done", "tool_call",
            "tool_result", "row",
            "invalidated", "final", "resync"},
   id : Ids \cup {"none"}, arg : 0..MaxDeltas + 2]
Entry(event, id, arg) == [event |-> event, id |-> id, arg |-> arg]
Checkpoint == Entry("checkpoint", "none", 0)

Kinds == {"absent", "optimistic", "draft", "pending", "settled", "row"}
Message(kind, text, version) == [kind |-> kind, text |-> text, version |-> version]
Absent == Message("absent", <<>>, 0)
RowMessage(version) == Message("row", <<>>, version)

IsAgentSyntheticMessage(m) == m.kind \in {"draft", "pending"}
IsSyntheticMessage(m) == m.kind = "optimistic" \/ IsAgentSyntheticMessage(m)
IsCanonicalMessage(m) == m.kind = "row"

(* What the turn does, in the order of the agent flow.                     *)
Turn ==
  <<"claim">> \o
    (CASE shape = "answer" -> <<"message_start">> \o [n \in 1..MaxDeltas |-> "message_delta"]
                                \o <<"message_done", "message_row", "message">>
       [] shape = "tool" -> <<"tool_call", "tool_row", "tool_result", "stop">>
       [] shape = "reasoning" -> <<"reasoning", "reasoning_row", "reasoning_done", "stop">>)
Step == IF turn \in 1..Len(Turn) THEN Turn[turn] ELSE "none"
NextDelta == Cardinality({n \in 1..turn : Turn[n] = "message_delta"})
Happens == events < MaxEvents /\ events' = events + 1

----------------------------------------------------------------------------
(* AgentRuntimeStateManager.                                               *)

Idle == [active |-> FALSE, draft |-> [d \in Drafted |-> Silent], tool |-> FALSE]

(* An entry the browser may still be sent; the others are blanked.         *)
Wanted(i) ==
  \/ source = "open" /\ i > pos
  \/ source \in {"connecting", "retrying"} /\ i > after
  \/ cursor # 0 /\ i > cursor
  \/ \E q \in requests : q.boundary # 0 /\ i > q.boundary

(* appendBuffer and pruneBuffer: the oldest entries leave at the limit.    *)
AppendBuffer(entries) ==
  /\ LET first == Len(log) + Len(entries) + 1 IN
     floor' = IF first > BufferLimit + floor THEN first - BufferLimit ELSE floor
  /\ log' = [i \in 1..Len(log) + Len(entries) |->
               IF i > Len(log) THEN entries[i - Len(log)]
               ELSE IF Wanted(i) THEN log[i] ELSE Checkpoint]

PushCheckpoint == AppendBuffer(<<Checkpoint>>)
Emit(event, id, arg) == AppendBuffer(<<Entry(event, id, arg)>>)

(* Entries older than bufferTtlMs leave when the buffer is next touched.   *)
BufferExpires ==
  /\ Happens
  /\ floor <= Len(log)
  /\ floor' = Len(log) + 1
  /\ UNCHANGED <<log, shape, snapshot, turn, rows, invocation, listening, hints, clientVars, astray>>

(* invalidateReplay: nothing buffered can be resumed from any more.        *)
InvalidateReplay ==
  /\ log' = Append(log, Entry("resync", "none", 0))
  /\ floor' = Len(log) + 1

StartTurn ==
  /\ snapshot' = [Idle EXCEPT !.active = TRUE]
  /\ PushCheckpoint

SetDraft(d, text) == snapshot' = [snapshot EXCEPT !.draft[d] = text, !.tool = FALSE]
SetDraftAssistant(text) == SetDraft("answer", text)
SetDraftReasoning(text) == SetDraft("reasoning", text)
ClearDraftAssistant == snapshot' = [snapshot EXCEPT !.draft["answer"] = Silent]
ClearDraftReasoning == snapshot' = [snapshot EXCEPT !.draft["reasoning"] = Silent]
SetPendingTool == snapshot' = [snapshot EXCEPT !.tool = TRUE, !.draft["answer"] = Silent]
MarkThinking == snapshot' = [snapshot EXCEPT !.tool = FALSE]

(* finishTurn after the flow's last events, and the worker's finish: only  *)
(* the row of the invocation tells the two apart, and neither is running.  *)
FinishTurn(last) ==
  /\ AppendBuffer(last \o <<Entry("final", "none", 0), Checkpoint>>)
  /\ snapshot' = Idle
  /\ invocation' = "ended"

MutAnyPast(c) == c <= Len(log)

(* prepareAttachment: whether a cursor can be resumed from.                *)
Resumable(c) == c \in floor..Len(log)

----------------------------------------------------------------------------
(* Committed rows, the notifications they raise, and their publication.    *)

(* A row's trigger notifies once it is committed; what is notified while   *)
(* the LISTEN connection is down is lost.                                  *)
Notify(id, kind) ==
  hints' = IF listening /\ hints[id] # "transcript" THEN [hints EXCEPT ![id] = kind] ELSE hints

InsertRow(id) == rows' = [rows EXCEPT ![id] = 1] /\ Notify(id, "message")

(* The drain takes a hint: a mutation is announced as such, an insertion   *)
(* with the row as it is when it is loaded.                                *)
Drain ==
  /\ \E id \in Ids :
       /\ hints[id] # "none"
       /\ hints' = [hints EXCEPT ![id] = "none"]
       /\ IF hints[id] = "transcript" THEN Emit("invalidated", id, 0) ELSE Emit("row", id, rows[id])
  /\ UNCHANGED <<shape, snapshot, turn, rows, invocation, listening, clientVars, events, astray>>

(* lost(): a new generation, no pending hints, and replay is over; when a  *)
(* row cannot be loaded, and when the LISTEN connection fails, which only  *)
(* the next GET /open brings back.                                         *)
Lost ==
  /\ Happens
  /\ \/ (\E id \in Ids : hints[id] = "message") /\ UNCHANGED listening
     \/ listening /\ listening' = FALSE
  /\ hints' = [id \in Ids |-> "none"]
  /\ InvalidateReplay
  /\ UNCHANGED <<shape, snapshot, turn, rows, invocation, clientVars, astray>>

----------------------------------------------------------------------------
(* The turn: what the worker and the agent flow commit and emit.           *)

Does(step) == Step = step /\ turn' = turn + 1
Elsewhere == UNCHANGED <<shape, rows, hints, listening, clientVars, events, astray>>
Emits == Elsewhere /\ UNCHANGED invocation
Commits == UNCHANGED <<log, floor, shape, snapshot, invocation, listening, clientVars, events, astray>>

(* Claiming the work rewrites the input row (when the model first saw it), *)
(* and the flow starts the turn.                                           *)
Claim ==
  /\ Does("claim")
  /\ rows' = [rows EXCEPT !["user"] = 2]
  /\ Notify("user", "transcript")
  /\ invocation' = "running"
  /\ StartTurn
  /\ UNCHANGED <<shape, listening, clientVars, events, astray>>

(* ensureReasoningDraft and the delta that made it.                        *)
EmitReasoningDelta ==
  /\ Does("reasoning")
  /\ AppendBuffer(<<Entry("start", "reasoning", 0), Entry("delta", "reasoning", 1)>>)
  /\ SetDraftReasoning(<<1>>)
  /\ Emits
ReasoningRow == Does("reasoning_row") /\ InsertRow("reasoning") /\ Commits
ReasoningDone ==
  Does("reasoning_done") /\ Emit("reasoning_done", "reasoning", 1) /\ ClearDraftReasoning /\ Emits

EmitToolCall == Does("tool_call") /\ Emit("tool_call", "tool", 0) /\ SetPendingTool /\ Emits
ToolRow == Does("tool_row") /\ InsertRow("tool") /\ Commits
ToolResult == Does("tool_result") /\ Emit("tool_result", "tool", 1) /\ MarkThinking /\ Emits

EmitAssistantDraftStart ==
  Does("message_start") /\ Emit("start", "answer", 0) /\ SetDraftAssistant(<<>>) /\ Emits
EmitAssistantDraftDelta ==
  /\ Does("message_delta")
  /\ Emit("delta", "answer", NextDelta)
  /\ SetDraftAssistant(Append(snapshot.draft["answer"], NextDelta))
  /\ Emits
CompleteAssistantDraft ==
  Does("message_done") /\ Emit("done", "answer", 0) /\ SetDraftAssistant(WholeText) /\ Emits
MessageRow == Does("message_row") /\ InsertRow("answer") /\ Commits

(* recordFinalAssistant's two events, then the turn's end.                 *)
FinalAssistant == Does("message") /\ FinishTurn(<<Entry("message", "answer", 1)>>) /\ Elsewhere

(* A turn that ends without an answer.                                     *)
Stop == Does("stop") /\ FinishTurn(<<>>) /\ Elsewhere

(* The flow throws: the turn ends as failed, a draft it had is not stored. *)
FlowThrows ==
  /\ Happens
  /\ snapshot.active
  /\ FinishTurn(<<>>)
  /\ turn' = Len(Turn) + 1
  /\ UNCHANGED <<shape, rows, hints, listening, clientVars, astray>>

----------------------------------------------------------------------------
(* thread-message-state.ts: the view's messages.                           *)

UpsertMessage(messages, id, next) ==
  IF IsCanonicalMessage(messages[id]) /\ IsSyntheticMessage(next)
    THEN messages ELSE [messages EXCEPT ![id] = next]
InsertStreamMessage(messages, id, next) ==
  IF IsCanonicalMessage(messages[id]) THEN messages ELSE UpsertMessage(messages, id, next)
UpsertDraftMessage(messages, id, next) ==
  IF IsCanonicalMessage(messages[id]) THEN messages ELSE UpsertMessage(messages, id, next)

Draft(text) == Message("draft", text, 0)
Settled(text) == Message("settled", text, 0)
Pending == Message("pending", <<1>>, 0)

(* finalizeTurnMessages: synthetic messages with nothing in them leave.    *)
FinalizeTurnMessages(messages) ==
  [id \in Ids |->
     IF ~IsAgentSyntheticMessage(messages[id]) THEN messages[id]
     ELSE IF messages[id].text = <<>> THEN Absent ELSE Settled(messages[id].text)]

(* invocationAllowsLiveActivity: the row overrules the process.            *)
LiveActivity(q) == q.live.active /\ q.status = "running"

(* applyAgentStateOverlay: drafts and pending tools are the snapshot's.    *)
ApplyAgentStateOverlay(messages, q) ==
  LET kept == [id \in Ids |-> IF IsAgentSyntheticMessage(messages[id]) THEN Absent ELSE messages[id]] IN
  [id \in Ids |->
     IF id \in Drafted /\ LiveActivity(q)
       THEN IF q.live.draft[id] # Silent /\ ~IsCanonicalMessage(kept[id])
              THEN Draft(q.live.draft[id]) ELSE kept[id]
     ELSE IF id = "tool" /\ LiveActivity(q) /\ q.live.tool /\ kept[id] = Absent THEN Pending
     ELSE kept[id]]

(* Whether a row's content is the message's: a rewrite keeps what the user *)
(* typed and adds to what an automation sent.                              *)
SameContent(id, m, version) ==
  CASE m.kind = "row" -> m.version = version \/ (id = "user" /\ post # "none")
    [] m.kind = "optimistic" -> TRUE
    [] m.kind \in {"draft", "settled"} /\ id = "answer" -> m.text = WholeText
    [] m.kind \in {"draft", "settled"} /\ id = "reasoning" -> m.text = <<1>>
    [] OTHER -> FALSE
IsPrefixOfRow(id, m) ==
  LET whole == IF id = "answer" THEN WholeText ELSE <<1>> IN
  Len(m.text) <= Len(whole) /\ m.text = SubSeq(whole, 1, Len(m.text))
Acknowledged(id, m, version) ==
  /\ version # 0
  /\ \/ SameContent(id, m, version)
     \/ m.kind = "pending"
     \/ m.kind = "draft" /\ IsPrefixOfRow(id, m)

(* mergeLatestBootstrapState: rows of the page, rows held from before, the *)
(* overlay, and over them whatever the browser changed itself.             *)
MergeLatestBootstrapState(messages, q) ==
  LET incoming == [id \in Ids |-> IF id \in removed THEN 0 ELSE q.page[id]]
      canonical ==
        [id \in Ids |-> IF incoming[id] # 0 THEN RowMessage(incoming[id])
                        ELSE IF IsSyntheticMessage(messages[id]) THEN Absent ELSE messages[id]]
      overlaid == ApplyAgentStateOverlay(canonical, q)
      Local(id) == id \in protected \ removed /\ messages[id] # Absent
  IN [id \in Ids |->
        IF id \in removed THEN Absent
        ELSE IF ~Local(id) THEN overlaid[id]
        ELSE IF Acknowledged(id, messages[id], incoming[id]) THEN RowMessage(incoming[id])
        ELSE UpsertMessage(overlaid, id, messages[id])[id]]

(* applyAgentState merges a page made of the unprotected messages.         *)
ApplyAgentState(q) ==
  LET held == [id \in Ids |-> IF id \in protected \/ ~IsCanonicalMessage(view[id])
                                THEN 0 ELSE view[id].version]
  IN MergeLatestBootstrapState(view, [q EXCEPT !.page = held])

(* use-thread-messages.ts: what each event makes of the view.              *)
ApplyAssistantMessageStart == UpsertDraftMessage(view, "answer", Draft(view["answer"].text))
ApplyAssistantMessageDelta(n) ==
  UpsertDraftMessage(view, "answer", Draft(Append(view["answer"].text, n)))
ApplyAssistantMessageDone == UpsertDraftMessage(view, "answer", Settled(WholeText))
ApplyAssistantMessageEvent(version) == InsertStreamMessage(view, "answer", RowMessage(version))
ApplyReasoningStart == UpsertDraftMessage(view, "reasoning", Draft(view["reasoning"].text))
ApplyReasoningDelta(n) ==
  UpsertDraftMessage(view, "reasoning", Draft(Append(view["reasoning"].text, n)))
ApplyReasoningDone(version) == InsertStreamMessage(view, "reasoning", RowMessage(version))
ApplyToolCall == UpsertMessage(view, "tool", Pending)
ApplyToolResultMessage(id, version) == InsertStreamMessage(view, id, RowMessage(version))

(* setMessages: what changed is protected, what left stays away.           *)
SetMessages(next) ==
  LET changed == {id \in Ids : next[id] # view[id] /\ next[id] # Absent}
      gone == {id \in Ids : view[id] # Absent /\ next[id] = Absent}
  IN /\ view' = next
     /\ protected' = (protected \cup changed) \ gone
     /\ removed' = (removed \cup gone) \ changed

----------------------------------------------------------------------------
(* The browser's reads.  `applies`: no later read was sent (refreshSequence)*)
(* and no event handled (outputActivityRevision) since it was sent, so that *)
(* its answer will be merged; of other answers nothing is kept.  `asked`    *)
(* are the rows reconcileLoadedMessages asked about and nothing has         *)
(* replaced since.                                                          *)

Unread == [live |-> Idle, page |-> [id \in Ids |-> 0], status |-> "none"]
Request(kind) ==
  [kind |-> kind, stage |-> "sent", applies |-> TRUE, boundary |-> 0, answer |-> Unread, asked |-> {}]
Stale(others) == {[q EXCEPT !.applies = q.stage = "merged", !.answer = Unread] : q \in others}
Sending(kind, others) == Stale(others) \cup {Request(kind)}
Keeps(q, answer) == IF q.applies THEN answer ELSE Unread

(* ThreadChangeListener.ready, loadMessagePage, loadThreadAgentState.       *)
ListenerReady == listening' = TRUE
LoadMessagePage == rows
LoadThreadAgentState == invocation

(* GET /open: LISTEN is up again, then the boundary and the snapshot are   *)
(* taken together, and only then the rows are read.                        *)
OpenBoundary ==
  /\ \E q \in requests :
       /\ q.kind \in {"recovery", "bootstrap"} /\ q.stage = "sent"
       /\ requests' = (requests \ {q}) \cup
            {[q EXCEPT !.stage = "bound", !.boundary = Len(log) + 1,
                       !.answer = Keeps(q, [@ EXCEPT !.live = snapshot])]}
  /\ ListenerReady
  /\ PushCheckpoint
  /\ UNCHANGED <<shape, snapshot, turn, rows, invocation, hints,
                 streamVars, viewVars, post, events, astray>>

OpenReads ==
  /\ \E q \in requests :
       /\ q.stage = "bound"
       /\ requests' = (requests \ {q}) \cup
            {[q EXCEPT !.stage = "read",
                       !.answer = Keeps(q, [@ EXCEPT !.page = LoadMessagePage, !.status = LoadThreadAgentState])]}
  /\ UNCHANGED <<serverVars, streamVars, viewVars, post, events, astray>>

(* GET /agent/state: the snapshot, then the invocations.                   *)
StateReads ==
  /\ \E q \in requests :
       /\ q.kind = "state" /\ q.stage = "sent"
       /\ requests' = (requests \ {q}) \cup
            {[q EXCEPT !.stage = "read",
                       !.answer = Keeps(q, [@ EXCEPT !.live = snapshot, !.status = LoadThreadAgentState])]}
  /\ UNCHANGED <<serverVars, streamVars, viewVars, post, events, astray>>

(* connectAgentStream, at the cursor held.                                 *)
Connect(c) ==
  /\ source' = "connecting"
  /\ after' = c
  /\ accessLost' = FALSE
  /\ astray' = (astray \/ c = 0)
  /\ UNCHANGED <<pos, checking, authRedirectPending>>

(* The recovery's own continuation: attach at the boundary it was told,    *)
(* unless the page is leaving.                                             *)
RecoveryDone(q) ==
  IF q.kind = "recovery"
    THEN /\ recovering' = FALSE /\ cursor' = q.boundary
         /\ IF authRedirectPending THEN UNCHANGED <<source, after>>
            ELSE source' = "connecting" /\ after' = q.boundary
         /\ UNCHANGED <<pos, checking, reconnectTimer, recoveryTimer, accessVars>>
    ELSE UNCHANGED <<source, pos, after, checking, recovering, reconnectTimer, recoveryTimer, accessVars>>

(* refreshAgentState and refreshAgentBootstrap have their answer.  One     *)
(* that was overtaken is not applied; a recovery attaches all the same.    *)
Replies ==
  /\ \E q \in requests :
       /\ q.stage = "read"
       /\ IF q.applies /\ ~authRedirectPending
            THEN /\ IF q.kind = "state"
                      THEN /\ view' = ApplyAgentState(q.answer)
                           /\ requests' = requests \ {q}
                      ELSE /\ view' = MergeLatestBootstrapState(view, q.answer)
                           /\ requests' = (requests \ {q}) \cup
                                {[q EXCEPT !.stage = "merged", !.answer = Unread,
                                           !.asked = {id \in Ids : IsCanonicalMessage(view'[id])}]}
                 /\ UNCHANGED <<streamVars, astray>>
            ELSE /\ requests' = requests \ {q}
                 /\ RecoveryDone(q)
                 /\ IF q.kind = "recovery" THEN TRUE ELSE UNCHANGED cursor
                 /\ astray' = (astray \/ (q.kind = "recovery" /\ ~authRedirectPending))
                 /\ UNCHANGED view
  /\ UNCHANGED <<serverVars, protected, removed, post, events>>

(* reconcileLoadedMessages: the rows asked about are the server's again.   *)
ReconcileLoadedMessages(asked) ==
  /\ view' = [id \in Ids |-> IF id \in asked THEN RowMessage(rows[id]) ELSE view[id]]
  /\ protected' = protected \ asked
  /\ removed' = removed \ asked

Reconciled ==
  /\ \E q \in requests :
       /\ q.stage = "merged"
       /\ requests' = requests \ {q}
       /\ ReconcileLoadedMessages(q.asked)
       /\ RecoveryDone(q)
       /\ IF q.kind = "recovery" THEN TRUE ELSE cursor' = q.boundary
  /\ UNCHANGED <<serverVars, post, events, astray>>

(* How a read fails: no answer came, the service was busy or broken (408,  *)
(* 429, 5xx), it refused (any other status), or the session had expired.   *)
Failures == {"unanswered", "unavailable", "refused", "unauthorized"}

MutOnlyUnanswered(failure) == failure = "unanswered"

(* recoveryFailure: whether trying again may help.                         *)
Retryable(failure) == failure \in {"unanswered", "unavailable"}

(* A 401 sends the page to /login.  Otherwise a recovery tries again after *)
(* a delay, or asks the user to reload; other reads give up.               *)
FetchFails ==
  /\ Happens
  /\ \E q \in requests, failure \in Failures :
       /\ requests' = requests \ {q}
       /\ authRedirectPending' = (authRedirectPending \/ failure = "unauthorized")
       /\ LET caught == q.kind = "recovery" /\ ~authRedirectPending' IN
          /\ recovering' = (recovering /\ q.kind # "recovery")
          /\ recoveryTimer' = (recoveryTimer \/ (caught /\ Retryable(failure)))
          /\ accessLost' = (accessLost \/ (caught /\ failure = "refused"))
  /\ UNCHANGED <<serverVars, source, pos, after, cursor, checking, reconnectTimer, viewVars,
                 post, astray>>

CleanupAgent == source' = "none" /\ checking' = FALSE /\ pos' = 0 /\ after' = 0

(* recoverBootstrap: drop the stream and the cursor, and read everything.  *)
RecoverBootstrap ==
  /\ CleanupAgent
  /\ UNCHANGED accessVars
  /\ IF authRedirectPending THEN UNCHANGED <<cursor, recovering, reconnectTimer, recoveryTimer, requests>>
     ELSE /\ cursor' = 0
          /\ recovering' = TRUE
          /\ reconnectTimer' = FALSE /\ recoveryTimer' = FALSE
          /\ requests' = Sending("recovery", requests)

RecoveryTimerFires ==
  /\ recoveryTimer
  /\ IF authRedirectPending
       THEN recoveryTimer' = FALSE /\ UNCHANGED <<source, pos, after, cursor, checking, recovering,
                                                 reconnectTimer, accessVars, requests>>
       ELSE RecoverBootstrap
  /\ UNCHANGED <<serverVars, viewVars, post, events, astray>>

(* scheduleReconnect: the same cursor, after a delay.                      *)
ScheduleReconnect ==
  /\ CleanupAgent
  /\ IF authRedirectPending THEN UNCHANGED <<reconnectTimer, recoveryTimer>>
     ELSE reconnectTimer' = TRUE /\ recoveryTimer' = FALSE
  /\ UNCHANGED <<cursor, recovering, accessVars>>

ReconnectTimerFires ==
  /\ reconnectTimer
  /\ reconnectTimer' = FALSE
  /\ IF authRedirectPending THEN UNCHANGED <<source, after, pos, checking, accessVars, astray>> ELSE Connect(cursor)
  /\ UNCHANGED <<serverVars, cursor, recovering, recoveryTimer, requests, viewVars, post, events>>

----------------------------------------------------------------------------
(* The stream.                                                             *)

(* GET /agent/stream: the listener is added and the buffer after the       *)
(* cursor replayed in one go; an unknown cursor is answered with           *)
(* agent.resync_required, no cursor with nothing of the past.              *)
Attach ==
  /\ source \in {"connecting", "retrying"}
  /\ source' = IF after = 0 \/ Resumable(after) THEN "open" ELSE "refused"
  /\ pos' = IF after = 0 THEN Len(log) ELSE IF after < floor THEN floor - 1 ELSE after
  /\ UNCHANGED <<serverVars, after, cursor, checking, recovering, reconnectTimer, recoveryTimer,
                 accessVars, requests, viewVars, post, events, astray>>

Refused ==
  /\ source = "refused"
  /\ RecoverBootstrap
  /\ UNCHANGED <<serverVars, viewVars, post, events, astray>>

Undelivered == {i \in pos + 1..Len(log) : log[i].event # "checkpoint"}
NextEvent == CHOOSE i \in Undelivered : \A j \in Undelivered : i <= j
Receiving(expected) == source = "open" /\ Undelivered # {} /\ log[NextEvent].event \in expected

(* The handlers of the events that change the view.                        *)
Handles(e, event, id) == e.event = event /\ e.id = id
OnMessageStart(e) == Handles(e, "start", "answer") /\ SetMessages(ApplyAssistantMessageStart)
OnMessageDelta(e) == Handles(e, "delta", "answer") /\ SetMessages(ApplyAssistantMessageDelta(e.arg))
OnMessageDone(e) == Handles(e, "done", "answer") /\ SetMessages(ApplyAssistantMessageDone)
OnMessage(e) == e.event = "message" /\ SetMessages(ApplyAssistantMessageEvent(e.arg))
OnReasoningStart(e) == Handles(e, "start", "reasoning") /\ SetMessages(ApplyReasoningStart)
OnReasoningDelta(e) == Handles(e, "delta", "reasoning") /\ SetMessages(ApplyReasoningDelta(e.arg))
OnReasoningDone(e) == e.event = "reasoning_done" /\ SetMessages(ApplyReasoningDone(e.arg))
OnToolCall(e) == e.event = "tool_call" /\ SetMessages(ApplyToolCall)
OnToolResult(e) == e.event = "tool_result" /\ SetMessages(ApplyToolResultMessage("tool", e.arg))
OnTranscriptMessage(e) == e.event = "row" /\ SetMessages(ApplyToolResultMessage(e.id, e.arg))

(* Every handler notes the cursor, and that a read in flight is now old.   *)
Noted(i) ==
  /\ pos' = i /\ after' = i /\ cursor' = i
  /\ UNCHANGED <<source, checking, recovering, recoveryTimer, accessVars>>

ReceiveMessage ==
  /\ Receiving({"start", "delta", "done", "message", "reasoning_done", "tool_call", "tool_result", "row"})
  /\ LET e == log[NextEvent] IN
     /\ \/ OnMessageStart(e) \/ OnMessageDelta(e) \/ OnMessageDone(e) \/ OnMessage(e)
        \/ OnReasoningStart(e) \/ OnReasoningDelta(e) \/ OnReasoningDone(e)
        \/ OnToolCall(e) \/ OnToolResult(e) \/ OnTranscriptMessage(e)
     /\ requests' = {[q EXCEPT !.asked = IF view'[e.id] # view[e.id] THEN @ \ {e.id} ELSE @] :
                       q \in Stale(requests)}
  /\ Noted(NextEvent)
  /\ UNCHANGED <<serverVars, reconnectTimer, post, events, astray>>

(* final: what the turn left unfinished is settled, and the state reread.  *)
ReceiveFinal ==
  /\ Receiving({"final"})
  /\ SetMessages(FinalizeTurnMessages(view))
  /\ requests' = Sending("state", requests)
  /\ Noted(NextEvent)
  /\ reconnectTimer' = FALSE
  /\ UNCHANGED <<serverVars, post, events, astray>>

ReceiveRecovery ==
  /\ Receiving({"invalidated", "resync"})
  /\ RecoverBootstrap
  /\ UNCHANGED <<serverVars, viewVars, post, events, astray>>

(* The connection breaks, and EventSource tries again by itself, or the    *)
(* service answers with an error, and it does not.                         *)
Breaks ==
  /\ Happens
  /\ \/ source \in {"connecting", "open", "refused"} /\ source' = "retrying"
     \/ source \in {"connecting", "retrying"} /\ source' = "closed"
  /\ checking' = TRUE
  /\ UNCHANGED <<serverVars, pos, after, cursor, recovering, reconnectTimer, recoveryTimer,
                 accessVars, requests, viewVars, post, astray>>

(* GET /api/me, asked only about a closed source, may answer 401, which    *)
(* sends the page to /login.                                               *)
CheckUnauthorized == source = "closed" /\ ~authRedirectPending

(* getAgentStreamErrorRecoveryAction, once checkUnauthorized has answered. *)
ErrorChecked ==
  /\ checking
  /\ \/ /\ authRedirectPending \/ CheckUnauthorized
        /\ authRedirectPending' = TRUE
        /\ CleanupAgent
        /\ UNCHANGED <<cursor, recovering, reconnectTimer, recoveryTimer, accessLost, requests>>
     \/ /\ ~authRedirectPending /\ source = "retrying" /\ cursor # 0
        /\ RecoverBootstrap
     \/ /\ ~authRedirectPending /\ source = "closed"
        /\ ScheduleReconnect
        /\ UNCHANGED requests
     \/ /\ ~authRedirectPending /\ ~(source = "retrying" /\ cursor # 0) /\ source # "closed"
        /\ checking' = FALSE
        /\ UNCHANGED <<source, pos, after, cursor, recovering, reconnectTimer, recoveryTimer, accessVars,
                       requests>>
  /\ UNCHANGED <<serverVars, viewVars, post, events, astray>>

(* The heartbeat check finds an open stream silent.                        *)
HeartbeatMissed ==
  /\ Happens
  /\ source = "open"
  /\ ScheduleReconnect
  /\ UNCHANGED <<serverVars, requests, viewVars, post, astray>>

----------------------------------------------------------------------------
(* The user.                                                               *)

AddOptimisticUserMessage == UpsertMessage(view, "user", Message("optimistic", <<>>, 0))
RemoveMessage == [view EXCEPT !["user"] = Absent]
ReconcilePersistedUserMessage == [view EXCEPT !["user"] = RowMessage(1)]

Submit ==
  /\ turn = 0 /\ post = "none"
  /\ Happens
  /\ post' = "sent"
  /\ SetMessages(AddOptimisticUserMessage)
  /\ requests' = Stale(requests)
  /\ UNCHANGED <<serverVars, streamVars, astray>>

(* admit: the message and its invocation, in one transaction.              *)
Admit ==
  /\ turn = 0
  /\ turn' = 1
  /\ InsertRow("user")
  /\ invocation' = "queued"
  /\ UNCHANGED <<log, floor, shape, snapshot, listening>>

PostStored ==
  /\ post = "sent" /\ post' = "stored"
  /\ Admit
  /\ UNCHANGED <<streamVars, requests, viewVars, events, astray>>

ArrivesElsewhere ==
  /\ post = "none" /\ Admit
  /\ UNCHANGED <<clientVars, events, astray>>

(* reconcilePersistedUserMessage, then refreshAgentState.                  *)
PostReplies ==
  /\ post = "stored" /\ post' = "replied"
  /\ SetMessages(ReconcilePersistedUserMessage)
  /\ requests' = Sending("state", {[q EXCEPT !.asked = @ \ {"user"}] : q \in requests})
  /\ UNCHANGED <<serverVars, streamVars, events, astray>>

(* The POST, or its answer, is lost, or it finds the session expired: the  *)
(* message is taken back unless the page is leaving.                       *)
PostFails ==
  /\ Happens
  /\ post \in {"sent", "stored"} /\ post' = "failed"
  /\ \E unauthorized \in {FALSE, post = "sent"} :
       authRedirectPending' = (authRedirectPending \/ unauthorized)
  /\ IF authRedirectPending' THEN UNCHANGED viewVars ELSE SetMessages(RemoveMessage)
  /\ UNCHANGED <<serverVars, source, pos, after, cursor, checking, recovering, reconnectTimer,
                 recoveryTimer, accessLost, requests, astray>>

(* ensureConnected, after the state was reread.                            *)
EnsureConnected ==
  /\ post = "replied" /\ post' = "done"
  /\ \A q \in requests : q.kind # "state"
  /\ IF source \in {"none", "closed"}
       THEN /\ Connect(cursor)
            /\ recovering' = FALSE /\ reconnectTimer' = FALSE /\ recoveryTimer' = FALSE
            /\ requests' = {[q EXCEPT !.kind = IF @ = "recovery" THEN "bootstrap" ELSE @] : q \in requests}
            /\ UNCHANGED cursor
       ELSE UNCHANGED <<streamVars, requests, astray>>
  /\ UNCHANGED <<serverVars, viewVars, events>>

(* performCancel: once Stop was answered the state is read again.          *)
PerformCancel ==
  /\ Happens
  /\ snapshot.active
  /\ requests' = Sending("state", requests)
  /\ UNCHANGED <<serverVars, streamVars, viewVars, post, astray>>

----------------------------------------------------------------------------
FeedInit ==
  /\ shape \in Shapes
  /\ log = <<Checkpoint>> /\ floor = 1
  /\ snapshot = Idle /\ turn = 0
  /\ rows = [id \in Ids |-> 0] /\ invocation = "none"
  /\ listening = TRUE
  /\ hints = [id \in Ids |-> "none"]
  /\ source = "connecting" /\ pos = 0 /\ after = 1 /\ cursor = 1
  /\ checking = FALSE /\ recovering = FALSE
  /\ reconnectTimer = FALSE /\ recoveryTimer = FALSE
  /\ accessLost = FALSE /\ authRedirectPending = FALSE
  /\ requests = {}
  /\ view = [id \in Ids |-> Absent] /\ protected = {} /\ removed = {}
  /\ post = "none"
  /\ events = 0 /\ astray = FALSE

TurnStep ==
  \/ Claim
  \/ EmitReasoningDelta \/ ReasoningRow \/ ReasoningDone
  \/ EmitToolCall \/ ToolRow \/ ToolResult
  \/ EmitAssistantDraftStart \/ EmitAssistantDraftDelta \/ CompleteAssistantDraft
  \/ MessageRow \/ FinalAssistant \/ Stop

FeedProgress ==
  \/ TurnStep
  \/ Drain
  \/ OpenBoundary \/ OpenReads \/ StateReads \/ Replies \/ Reconciled
  \/ RecoveryTimerFires \/ ReconnectTimerFires
  \/ Attach \/ Refused
  \/ ReceiveMessage \/ ReceiveFinal \/ ReceiveRecovery
  \/ ErrorChecked
  \/ PostStored \/ PostReplies \/ EnsureConnected

FeedNext ==
  \/ FeedProgress
  \/ Submit \/ ArrivesElsewhere \/ PerformCancel
  \/ BufferExpires \/ Lost \/ FlowThrows
  \/ FetchFails \/ Breaks \/ HeartbeatMissed \/ PostFails

FeedSpec == FeedInit /\ [][FeedNext]_feedVars
FeedFairSpec == FeedSpec /\ WF_feedVars(FeedProgress)

----------------------------------------------------------------------------
(* Types, and: the buffer keeps its limit, at most one recovery is in      *)
(* flight (recoveryInFlightRef), no stream is open during it, and a        *)
(* message is not both protected and removed (setMessages).                *)
FeedTypeOK ==
  /\ \A i \in 1..Len(log) : log[i] \in BufferEntry
  /\ floor \in 1..Len(log) + 1 /\ Len(log) + 1 - floor <= BufferLimit
  /\ rows \in [Ids -> 0..2]
  /\ cursor \in 0..Len(log) /\ after \in 0..Len(log) /\ pos \in 0..Len(log)
  /\ \A id \in Ids : view[id].kind \in Kinds
  /\ protected \cap removed = {}
  /\ recovering = (\E q \in requests : q.kind = "recovery")
  /\ Cardinality({q \in requests : q.kind = "recovery"}) <= 1
  /\ recovering => source = "none"

Shown(id) == rows[id] = 0 \/ (view[id].kind = "row" /\ SameContent(id, view[id], rows[id]))
CaughtUp == source = "open" /\ Undelivered = {} /\ \A id \in Ids : hints[id] = "none"

(* A browser that has handled everything its stream was sent, with no      *)
(* notification waiting on the service, shows every committed row as it    *)
(* is: whatever was pruned, expired, lost on the LISTEN connection, broken *)
(* off or rewritten meanwhile was made good by the replay or the recovery  *)
(* (prepareAttachment, invalidateReplay, GET /open's boundary before its   *)
(* rows, reconcileLoadedMessages).  Excepted: a browser whose recovery was *)
(* overtaken (astray), a message it took back, and a card its own turn's   *)
(* end settled, which protects itself from the row.                        *)
NothingSkipped ==
  CaughtUp /\ ~astray =>
    \A id \in Ids : Shown(id) \/ id \in removed \/ view[id].kind = "settled"

(* A browser without a stream has the next step ahead of it: a recovery in *)
(* flight, the timer that repeats a failed one, the timer that reconnects, *)
(* or the check of its session.  The exceptions are the two the code makes *)
(* on purpose: a recovery that was refused for good, whose message asks    *)
(* the user to reload, and a page that is leaving for /login (recovery-    *)
(* Failure, recoverBootstrap, scheduleReconnect, auth_stop,                *)
(* ensureConnected).                                                       *)
NeverLeftBehind ==
  /\ source \in {"none", "closed"} /\ ~authRedirectPending /\ ~accessLost =>
       recovering \/ recoveryTimer \/ reconnectTimer \/ checking
  /\ ~(recovering /\ recoveryTimer)
  /\ accessLost => source = "none" /\ ~recovering /\ ~recoveryTimer /\ ~reconnectTimer

(* The browser ends up showing every committed row.                        *)
ViewConverges ==
  <>[](astray \/ accessLost \/ authRedirectPending \/ post = "failed" \/ \A id \in Ids : Shown(id) \/ view[id].kind = "settled")
=============================================================================
