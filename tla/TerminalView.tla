----------------------------- MODULE TerminalView -----------------------------
(***************************************************************************)
(* One browser visit to a thread's terminal, in its byte renderer:         *)
(*                                                                         *)
(*   - the recovery loop of the React hook (ensure, snapshot or resume,    *)
(*     attach, retry), which one timer, one running flag and one pending   *)
(*     wake keep single                                                    *)
(*     (web/src/features/threads/use-terminal-session.ts);                 *)
(*   - the service's snapshot and event-stream routes, which replay stored *)
(*     output from the viewer's byte cursor and then forward live events   *)
(*     (service/src/routes/threads/terminal.ts, runtime/event-bus.ts).     *)
(*                                                                         *)
(* The daemon and the ingest of its output are the subject of              *)
(* TerminalOutput; here they are reduced to watermarks.  A byte is its     *)
(* offset, a chunk is one byte, and a page of the durable replay is one    *)
(* chunk.                                                                  *)
(***************************************************************************)
EXTENDS Integers, Sequences, FiniteSets

LOCAL INSTANCE SequencesExt

CONSTANTS
  MaxOut,      \* bytes the shell prints
  BufferLimit, \* events the bus keeps for replay
  MaxUpsets    \* disconnections, failed requests, gaps and prunings together

ASSUME ViewBounds == MaxOut \in Nat \ {0} /\ BufferLimit \in Nat \ {0} /\ MaxUpsets \in Nat

VARIABLES
  painted,     \* bytes the daemon's emulator has drawn
  evicted,     \* bytes the daemon's ring no longer holds
  noted,       \* ring_next_offset in the session's facts
  pumped,      \* the next byte the pump takes from the session's events
  uplink,      \* output and gap frames on their way to the service
  stored,      \* offsets with a row
  up,          \* the daemon is connected
  attached,    \* the daemon's session has a pump for this connection
  ready,       \* terminal_session.state is ready
  asked,       \* resume offsets of the terminal_ensure frames on their way
  buffered,    \* the event bus's replay buffer for this session
  serving,     \* the stream route's side of the viewer's connection
  pipe,        \* server-sent events on their way to the viewer
  source,      \* terminalEventSourceRef
  visit,       \* the closure of the recovery effect
  conn,        \* terminalConnection
  applied,     \* appliedOffsetRef
  needSnapshot,\* snapshotRequiredRef
  screen,      \* what the viewer's terminal shows
  upsets

ptyVars  == <<painted, evicted, noted, pumped, uplink, stored, up, attached, ready, asked>>
routeVars   == <<buffered, serving, pipe>>
visitVars   == <<source, visit, conn, applied, needSnapshot, screen>>
viewVars    == <<ptyVars, routeVars, visitVars, upsets>>

-----------------------------------------------------------------------------
NoOffset == -1

(* Frames of the uplink that are not an output chunk.                      *)
GapNotice == -1
ReadyStatus == -2

Out(o) == [type |-> "output", at |-> o]
Sign(t) == [type |-> t, at |-> NoOffset]
ViewEvents == {Out(o) : o \in 0..MaxOut-1} \cup {Sign(t) : t \in {"gap", "offline", "online"}}

(* max(stored end offset); the rows are single bytes.                      *)
RowsEnd == IF stored = {} THEN 0 ELSE 1 + CHOOSE o \in stored : \A p \in stored : p <= o

(* readRange: the stored chunks from an offset on, in order.               *)
RowsFrom(cursor) == {o \in stored : o >= cursor}

NoStream == [phase |-> "none", cursor |-> NoOffset, fwd |-> NoOffset, queue |-> << >>,
             failed |-> FALSE]

(* The visit's recovery is idle, or waits for one of its requests.         *)
Steps == {"idle", "open", "ensure", "creating", "observe", "snapshot", "history"}

ViewInit ==
  /\ painted = 0 /\ evicted = 0 /\ noted = 0 /\ pumped = 0 /\ uplink = << >> /\ stored = {}
  /\ up = TRUE /\ attached = FALSE /\ ready = FALSE /\ asked = << >>
  /\ buffered = << >> /\ serving = NoStream /\ pipe = << >>
  /\ source = "none"
  /\ visit = [step |-> "open", timer |-> FALSE, wake |-> FALSE, ready |-> FALSE,
              moved |-> FALSE, tried |-> FALSE, session |-> FALSE, stopped |-> FALSE,
              reply |-> [shown |-> 0, at |-> 0]]
  /\ conn = "disconnected" /\ applied = NoOffset /\ needSnapshot = TRUE
  /\ screen = [shown |-> 0, base |-> [shown |-> 0, at |-> 0], flaws |-> {}]
  /\ upsets = 0

Running == visit.step # "idle"

-----------------------------------------------------------------------------
(* The service's side.                                                     *)

(* sendEvent of the stream route: an output chunk that starts below what   *)
(* was forwarded is dropped, anything else goes to the viewer.             *)
SendEvent(s, evt) ==
  IF evt.type = "output" /\ s.fwd # NoOffset
  THEN IF evt.at < s.fwd THEN <<s.fwd, << >>>> ELSE <<evt.at + 1, <<evt>>>>
  ELSE <<s.fwd, <<evt>>>>

(* The end of the durable replay: the queued live events, each deduplicated.*)
FlushQueue(s, evts) ==
  FoldLeft(LAMBDA sent, evt : LET one == SendEvent([s EXCEPT !.fwd = sent[1]], evt)
                              IN  <<one[1], sent[2] \o one[2]>>,
           <<s.fwd, << >>>>, evts)

(* A listener of the bus: it queues the event while the route replays.     *)
Deliver(evt) ==
  CASE serving.phase = "reading" ->
         /\ serving' = [serving EXCEPT !.queue = Append(@, evt)]
         /\ UNCHANGED pipe
    [] serving.phase = "live" ->
         /\ serving' = [serving EXCEPT !.fwd = SendEvent(serving, evt)[1]]
         /\ pipe' = pipe \o SendEvent(serving, evt)[2]
    [] OTHER -> UNCHANGED <<serving, pipe>>

(* emit() of the bus: keep the event for replay, the oldest one makes      *)
(* room, then call the listener.                                           *)
Emit(evt) ==
  /\ buffered' = IF Len(buffered) < BufferLimit THEN Append(buffered, evt)
                 ELSE Append(Tail(buffered), evt)
  /\ Deliver(evt)

(* The daemon's event loop feeds one byte of output to its emulator.       *)
Paint ==
  /\ painted < MaxOut
  /\ painted' = painted + 1
  /\ UNCHANGED <<evicted, noted, pumped, uplink, stored, up, attached, ready, asked, routeVars,
                 visitVars, upsets>>

(* run_pump takes the next output event: the facts learn its end, the      *)
(* frame goes out.                                                         *)
PumpByte ==
  /\ attached /\ pumped < painted
  /\ noted' = IF pumped + 1 > noted THEN pumped + 1 ELSE noted
  /\ pumped' = pumped + 1
  /\ uplink' = Append(uplink, pumped)
  /\ UNCHANGED <<painted, evicted, stored, up, attached, ready, asked, routeVars, visitVars, upsets>>

(* The ingest writes a ready status to the session's row and publishes an  *)
(* output_gap event as it comes; a chunk is stored once and published when *)
(* it was new.                                                             *)
StoreAndEmit ==
  /\ uplink # << >>
  /\ uplink' = Tail(uplink)
  /\ LET o == Head(uplink) IN
       CASE o = ReadyStatus -> ready' = TRUE /\ UNCHANGED <<stored, routeVars>>
         [] o = GapNotice -> Emit(Sign("gap")) /\ UNCHANGED <<ready, stored>>
         [] o \in stored -> UNCHANGED <<ready, stored, routeVars>>
         [] OTHER -> stored' = stored \cup {o} /\ Emit(Out(o)) /\ UNCHANGED ready
  /\ UNCHANGED <<painted, evicted, noted, pumped, up, attached, asked, visitVars, upsets>>

(* The ring drops its oldest byte; it is never emptied.                    *)
RingEvicts ==
  /\ upsets < MaxUpsets /\ upsets' = upsets + 1
  /\ evicted + 1 < painted
  /\ evicted' = evicted + 1
  /\ UNCHANGED <<painted, noted, pumped, uplink, stored, up, attached, ready, asked, routeVars,
                 visitVars>>

(* Retention deletes the oldest row.  It keeps megabytes, so the row is    *)
(* never the newest one and nothing in flight repeats it.                  *)
PruneOldest ==
  /\ upsets < MaxUpsets /\ upsets' = upsets + 1
  /\ Cardinality(stored) > 1
  /\ LET o == CHOOSE x \in stored : \A p \in stored : x <= p IN
       /\ pumped > o /\ \A i \in DOMAIN asked : asked[i] > o
       /\ \A i \in DOMAIN uplink : uplink[i] > o \/ uplink[i] < 0
       /\ stored' = stored \ {o}
  /\ UNCHANGED <<painted, evicted, noted, pumped, uplink, up, attached, ready, asked, routeVars,
                 visitVars>>

(* The daemon's connection ends: its pump stops, the replay buffers of its *)
(* sessions are cleared, the sessions suspended and viewers told.          *)
BudLeaves ==
  /\ upsets < MaxUpsets /\ upsets' = upsets + 1
  /\ up
  /\ up' = FALSE /\ attached' = FALSE /\ uplink' = << >> /\ ready' = FALSE /\ asked' = << >>
  /\ buffered' = << >>
  /\ Deliver(Sign("offline"))
  /\ UNCHANGED <<painted, evicted, noted, pumped, stored, visitVars>>

(* A daemon connection is established, after a loss or in place of the     *)
(* previous one; in the second case nobody was told of an absence and      *)
(* nothing was suspended.                                                  *)
BudArrives ==
  /\ \/ ~up /\ UNCHANGED upsets
     \/ up /\ upsets < MaxUpsets /\ upsets' = upsets + 1
  /\ up' = TRUE /\ attached' = FALSE /\ uplink' = << >> /\ asked' = << >>
  /\ Deliver(Sign("online"))
  /\ UNCHANGED <<painted, evicted, noted, pumped, stored, ready, buffered, visitVars>>

(* The stream route finds the session and registers its listener: with no  *)
(* cursor it replays the bus's buffer, with one it starts the durable      *)
(* replay while live events queue.                                         *)
StreamAccepted ==
  /\ serving.phase = "asked"
  /\ IF serving.cursor = NoOffset
     THEN /\ serving' = [serving EXCEPT !.phase = "live"]
          /\ pipe' = buffered
     ELSE /\ serving' = [serving EXCEPT !.phase = "reading", !.fwd = serving.cursor]
          /\ UNCHANGED pipe
  /\ UNCHANGED <<ptyVars, buffered, visitVars, upsets>>

(* Mutant: the queue is flushed without looking at the forwarded end.      *)
MutNoDedupe ==
  /\ serving.phase = "reading"
  /\ LET ahead == RowsFrom(serving.cursor)
         o     == CHOOSE x \in ahead : \A p \in ahead : x <= p
         read  == IF ahead = {} THEN serving
                  ELSE [serving EXCEPT !.cursor = o + 1,
                                       !.fwd = IF o + 1 > @ THEN o + 1 ELSE @]
         page  == IF ahead = {} THEN << >> ELSE <<Out(o)>>
         rest  == FlushQueue(read, read.queue)
     IN  IF Cardinality(ahead) > 1
         THEN serving' = read /\ pipe' = pipe \o page
         ELSE /\ serving' = [read EXCEPT !.phase = "live", !.fwd = rest[1], !.queue = << >>]
              /\ pipe' = pipe \o page \o serving.queue
  /\ UNCHANGED <<ptyVars, buffered, visitVars, upsets>>

(* One page of the durable replay.  The page that leaves nothing behind    *)
(* ends the replay and flushes the queue in the same turn.                 *)
ReadPage ==
  /\ serving.phase = "reading"
  /\ LET ahead == RowsFrom(serving.cursor)
         o     == CHOOSE x \in ahead : \A p \in ahead : x <= p
         read  == IF ahead = {} THEN serving
                  ELSE [serving EXCEPT !.cursor = o + 1,
                                       !.fwd = IF o + 1 > @ THEN o + 1 ELSE @]
         page  == IF ahead = {} THEN << >> ELSE <<Out(o)>>
         rest  == FlushQueue(read, read.queue)
     IN  IF Cardinality(ahead) > 1
         THEN serving' = read /\ pipe' = pipe \o page
         ELSE /\ serving' = [read EXCEPT !.phase = "live", !.fwd = rest[1], !.queue = << >>]
              /\ pipe' = pipe \o page \o rest[2]
  /\ UNCHANGED <<ptyVars, buffered, visitVars, upsets>>

(* The read fails: the route logs it and flushes the queue all the same.   *)
ReadFails ==
  /\ upsets < MaxUpsets /\ upsets' = upsets + 1
  /\ serving.phase = "reading"
  /\ LET rest == FlushQueue(serving, serving.queue) IN
       /\ serving' = [serving EXCEPT !.phase = "live", !.fwd = rest[1], !.queue = << >>,
                                 !.failed = TRUE]
       /\ pipe' = pipe \o rest[2]
  /\ UNCHANGED <<ptyVars, buffered, visitVars>>

-----------------------------------------------------------------------------
(* The viewer's side.  The operators below give the next value of the      *)
(* visit's closure; an action applies them in the order of the code.       *)

(* schedule(): a wake that finds the loop running is remembered, otherwise *)
(* the one timer is armed (an earlier one is kept).                        *)
Schedule(v) ==
  IF v.step # "idle" THEN [v EXCEPT !.wake = TRUE] ELSE [v EXCEPT !.timer = TRUE]

(* The end of runRecovery: a wake received meanwhile wins over the retry   *)
(* delay, and is dropped when the run succeeded.                           *)
EndRun(v, succeeded, retry) ==
  [v EXCEPT !.step = "idle", !.wake = FALSE,
            !.timer = @ \/ (v.wake /\ ~succeeded) \/ retry]

(* attachStream(): open an event source at the applied offset.             *)
AttachStream(cursor) ==
  /\ source' = "connecting"
  /\ serving' = [NoStream EXCEPT !.phase = "asked", !.cursor = cursor]
  /\ pipe' = << >>

CloseSource ==
  /\ source' = "none"
  /\ serving' = NoStream
  /\ pipe' = << >>

KeepSource == UNCHANGED <<source, serving, pipe>>

(* attachStream() after a failure: only with a session and no source.      *)
AttachIfNone(v, cursor) ==
  IF v.session /\ source = "none" THEN AttachStream(cursor) ELSE KeepSource

(* stop(): the visit ends and its state is reset.                          *)
StopVisit ==
  /\ visit' = [visit EXCEPT !.stopped = TRUE, !.step = "idle", !.timer = FALSE,
                            !.wake = FALSE, !.ready = FALSE, !.session = FALSE]
  /\ CloseSource
  /\ conn' = "disconnected"
  /\ UNCHANGED <<applied, needSnapshot, screen>>

(* scheduleReconnect(): the view is no longer trusted, the source closes,  *)
(* and the loop is woken.                                                  *)
ScheduleReconnect ==
  /\ visit' = Schedule([visit EXCEPT !.ready = FALSE, !.moved = TRUE])
  /\ conn' = "reconnecting"
  /\ CloseSource

(* The timer fires: runRecovery() starts unless a source is connecting.    *)
RunRecovery ==
  /\ visit.timer /\ ~Running
  /\ visit' = IF source = "connecting" THEN [visit EXCEPT !.timer = FALSE]
              ELSE [visit EXCEPT !.timer = FALSE, !.wake = FALSE, !.tried = FALSE,
                                 !.moved = FALSE,
                                 !.step = IF visit.session THEN "ensure" ELSE "open"]
  /\ UNCHANGED <<ptyVars, routeVars, source, conn, applied, needSnapshot, screen, upsets>>

(* A request of the loop failed with a retryable error; code tells the     *)
(* daemon's absence from any other failure.                                *)
RecoveryFails(code) ==
  LET v == [visit EXCEPT !.ready = FALSE] IN
  /\ conn' = "reconnecting"
  /\ needSnapshot' = (needSnapshot \/ code = "bud_offline")
  /\ IF applied = NoOffset /\ source = "none" /\ (code = "bud_offline" \/ visit.tried)
     THEN visit' = [v EXCEPT !.step = "history"] /\ KeepSource
     ELSE visit' = EndRun(v, FALSE, TRUE) /\ AttachIfNone(v, applied)
  /\ UNCHANGED <<applied, screen>>

(* connect() passed its last request: a view whose baseline moved during   *)
(* the run is refused; otherwise it is ready, and a new baseline replaces  *)
(* the stream.                                                             *)
FinishConnect(fresh, cursor) ==
  IF visit.moved
  THEN /\ needSnapshot' = TRUE
       /\ visit' = EndRun(visit, FALSE, TRUE)
       /\ KeepSource /\ UNCHANGED conn
  ELSE /\ needSnapshot' = (needSnapshot /\ ~fresh)
       /\ visit' = EndRun([visit EXCEPT !.ready = TRUE], TRUE, FALSE)
       /\ IF fresh \/ source = "none" THEN AttachStream(cursor) ELSE KeepSource
       /\ conn' = IF ~fresh /\ source = "open" THEN "connected" ELSE conn

(* POST /terminal answers: the session record exists, or the request       *)
(* failed, or the thread is gone.                                          *)
OpenAnswered ==
  /\ visit.step = "open"
  /\ \/ /\ visit' = [visit EXCEPT !.session = TRUE, !.step = "ensure", !.moved = FALSE]
        /\ UNCHANGED <<source, serving, pipe, conn, applied, needSnapshot, screen, upsets>>
     \/ upsets < MaxUpsets /\ upsets' = upsets + 1 /\ (RecoveryFails("error") \/ StopVisit)
  /\ UNCHANGED <<ptyVars, buffered>>

(* planTerminalConnect: a snapshot is taken when one is required or there  *)
(* is no offset to resume from.                                            *)
PlansSnapshot == needSnapshot \/ applied = NoOffset

(* handle_observe: the screen is read from the emulator, ring_next_offset  *)
(* from the facts the pump maintains.                                      *)
Observation(facts) == [shown |-> painted, at |-> facts]

(* POST /terminal/ensure for a session that is not ready: terminal_ensure  *)
(* goes out with the stored end.                                           *)
EnsureSent ==
  /\ visit.step = "ensure" /\ up /\ ~ready
  /\ asked' = Append(asked, RowsEnd)
  /\ visit' = [visit EXCEPT !.step = "creating"]
  /\ UNCHANGED <<painted, evicted, noted, pumped, uplink, stored, up, attached, ready, routeVars,
                 source, conn, applied, needSnapshot, screen, upsets>>

(* handle_ensure: the daemon attaches the session again from the offset it *)
(* is given, says so, and reports a gap when its ring starts later.        *)
SessionAttaches ==
  /\ asked # << >>
  /\ asked' = Tail(asked)
  /\ attached' = TRUE /\ noted' = painted
  /\ pumped' = IF Head(asked) < evicted THEN evicted ELSE Head(asked)
  /\ uplink' = uplink \o <<ReadyStatus>>
                      \o (IF Head(asked) < evicted THEN <<GapNotice>> ELSE << >>)
  /\ UNCHANGED <<painted, evicted, stored, up, ready, routeVars, visitVars, upsets>>

(* The answer of POST /terminal/ensure: at once for a ready session, after *)
(* its row says creating for another, refused while the daemon is away.    *)
(* It decides between a snapshot and a resume (planTerminalConnect).       *)
EnsureAnswered ==
  /\ ready' = (ready /\ visit.step # "creating")
  /\ \/ /\ visit.step = "creating" \/ (visit.step = "ensure" /\ up /\ ready)
        /\ IF PlansSnapshot
           THEN /\ visit' = [visit EXCEPT !.step = "observe", !.tried = TRUE]
                /\ UNCHANGED <<source, serving, pipe, conn, needSnapshot>>
           ELSE FinishConnect(FALSE, applied)
        /\ UNCHANGED <<applied, screen, upsets>>
     \/ visit.step = "ensure" /\ ~up /\ RecoveryFails("bud_offline") /\ UNCHANGED upsets
     \/ /\ visit.step \in {"ensure", "creating"}
        /\ upsets < MaxUpsets /\ upsets' = upsets + 1
        /\ RecoveryFails("error") \/ StopVisit
  /\ UNCHANGED <<painted, evicted, noted, pumped, uplink, stored, up, attached, asked, buffered>>

(* GET /terminal/snapshot reaches the daemon: the screen is the emulator's *)
(* and the offset is the facts'.  A session without a pump is attached at  *)
(* the end of its ring.                                                    *)
ObserveScreen ==
  /\ visit.step = "observe"
  /\ \/ /\ up
        /\ attached' = TRUE
        /\ IF attached THEN UNCHANGED <<noted, pumped>> ELSE noted' = painted /\ pumped' = painted
        /\ visit' = [visit EXCEPT !.step = "snapshot",
                                  !.reply = Observation(noted')]
        /\ UNCHANGED <<painted, evicted, uplink, stored, up, ready, asked, source, serving, pipe,
                       conn, applied, needSnapshot, screen, upsets>>
     \/ ~up /\ RecoveryFails("bud_offline") /\ UNCHANGED <<ptyVars, upsets>>
     \/ /\ upsets < MaxUpsets /\ upsets' = upsets + 1
        /\ RecoveryFails("error") \/ StopVisit
        /\ UNCHANGED ptyVars
  /\ UNCHANGED buffered

(* The snapshot arrives: the terminal is reset to it, the cursor follows   *)
(* it, and the run finishes.  A renderer that is not mounted yet fails the *)
(* run.                                                                    *)
SnapshotArrives ==
  /\ visit.step = "snapshot"
  /\ \/ /\ screen' = [shown |-> visit.reply.shown, base |-> visit.reply, flaws |-> {}]
        /\ applied' = visit.reply.at
        /\ FinishConnect(TRUE, visit.reply.at)
        /\ UNCHANGED upsets
     \/ /\ upsets < MaxUpsets /\ upsets' = upsets + 1
        /\ visit' = EndRun(visit, FALSE, TRUE)
        /\ UNCHANGED <<source, serving, pipe, conn, applied, needSnapshot, screen>>
  /\ UNCHANGED <<ptyVars, buffered>>

(* The byte tail seeds an empty view; it carries no cursor.                *)
HistoryArrives ==
  /\ visit.step = "history"
  /\ \/ /\ screen' = [shown |-> RowsEnd, base |-> [shown |-> RowsEnd, at |-> RowsEnd],
                      flaws |-> {}]
        /\ applied' = NoOffset
        /\ AttachIfNone(visit, NoOffset)
        /\ visit' = EndRun(visit, FALSE, TRUE)
        /\ UNCHANGED <<conn, needSnapshot, upsets>>
     \/ /\ upsets < MaxUpsets /\ upsets' = upsets + 1
        /\ \/ /\ visit' = EndRun(visit, FALSE, TRUE)
              /\ AttachIfNone(visit, applied)
              /\ UNCHANGED <<conn, applied, needSnapshot, screen>>
           \/ StopVisit
  /\ UNCHANGED <<ptyVars, buffered>>

(* The first event of the response opens the source: a ready view is       *)
(* connected, any other one schedules a run.                               *)
SourceOpens ==
  /\ source = "connecting" /\ serving.phase \in {"reading", "live"}
  /\ source' = "open"
  /\ IF visit.ready THEN conn' = "connected" /\ UNCHANGED visit
     ELSE visit' = Schedule(visit) /\ UNCHANGED conn
  /\ UNCHANGED <<ptyVars, routeVars, applied, needSnapshot, screen, upsets>>

(* Why a byte that is written out of turn is out of turn: it was already   *)
(* in the snapshot's screen, or bytes before it were lost by a gap, pruned *)
(* or not read; anything else is a flaw of the handoff.                    *)
FlawOf(o) ==
  IF o = screen.shown THEN {}
  ELSE IF o < screen.shown
  THEN IF o >= screen.base.at /\ o < screen.base.shown THEN {"overlap"} ELSE {"twice"}
  ELSE IF \E b \in screen.shown..o-1 : b \in stored THEN
         IF serving.failed THEN {"unread"} ELSE {"hole"}
  ELSE {"lost"}

(* The end offset of an applied chunk; the cursor only moves forward.      *)
AdvanceApplied(o) == IF o + 1 > applied THEN o + 1 ELSE applied

(* The handlers of the source's events.                                    *)
HandleOutput(o) ==
  /\ screen' = [screen EXCEPT !.shown = IF o + 1 > @ THEN o + 1 ELSE @,
                              !.flaws = @ \cup FlawOf(o)]
  /\ applied' = AdvanceApplied(o)
  /\ UNCHANGED <<source, serving, visit, conn, needSnapshot>>
  /\ pipe' = Tail(pipe)

HandleGap ==
  /\ needSnapshot' = TRUE
  /\ ScheduleReconnect
  /\ UNCHANGED <<applied, screen>>

HandleBudOffline ==
  /\ visit' = Schedule([visit EXCEPT !.moved = TRUE, !.ready = FALSE])
  /\ needSnapshot' = TRUE
  /\ conn' = "reconnecting"
  /\ pipe' = Tail(pipe)
  /\ UNCHANGED <<source, serving, applied, screen>>

HandleBudOnline ==
  /\ needSnapshot' = TRUE
  /\ conn' = "reconnecting"
  /\ visit' = Schedule(visit)
  /\ pipe' = Tail(pipe)
  /\ UNCHANGED <<source, serving, applied, screen>>

SourceReceives ==
  /\ source = "open" /\ pipe # << >>
  /\ LET evt == Head(pipe) IN
       \/ evt.type = "output"  /\ HandleOutput(evt.at)
       \/ evt.type = "gap"     /\ HandleGap
       \/ evt.type = "offline" /\ HandleBudOffline
       \/ evt.type = "online"  /\ HandleBudOnline
  /\ UNCHANGED <<ptyVars, buffered, upsets>>

(* The source reports an error, no heartbeat arrived in time, or an input  *)
(* request failed: requestReconnect.                                       *)
ConnectionFails ==
  /\ upsets < MaxUpsets /\ upsets' = upsets + 1
  /\ ~visit.stopped /\ source # "none"
  /\ ScheduleReconnect
  /\ UNCHANGED <<ptyVars, buffered, applied, needSnapshot, screen>>

(* Thirty seconds of reconnecting are shown as offline.                    *)
ShowOffline ==
  /\ conn = "reconnecting"
  /\ conn' = "offline"
  /\ UNCHANGED <<ptyVars, routeVars, source, visit, applied, needSnapshot, screen, upsets>>

-----------------------------------------------------------------------------
ViewProgress ==
  \/ PumpByte \/ StoreAndEmit \/ BudArrives
  \/ StreamAccepted \/ ReadPage
  \/ RunRecovery \/ OpenAnswered \/ EnsureSent \/ SessionAttaches \/ EnsureAnswered
  \/ ObserveScreen \/ SnapshotArrives
  \/ HistoryArrives \/ SourceOpens \/ SourceReceives

ViewNext ==
  \/ ViewProgress
  \/ Paint \/ RingEvicts \/ PruneOldest \/ BudLeaves \/ ReadFails
  \/ ConnectionFails \/ ShowOffline

ViewSpec == ViewInit /\ [][ViewNext]_viewVars

(* The recovery loop's timers and requests, the routes and the pump all    *)
(* run to their next step, and the viewer's requests do not keep the pump  *)
(* from running; only failures and output are up to the world.             *)
ViewFairSpec == ViewSpec /\ WF_viewVars(ViewProgress) /\ WF_viewVars(PumpByte)

-----------------------------------------------------------------------------
ViewTypeOK ==
  /\ painted \in 0..MaxOut /\ noted \in 0..painted /\ pumped \in 0..painted
  /\ stored \subseteq 0..painted-1
  /\ up \in BOOLEAN /\ attached \in BOOLEAN /\ (attached => up)
  /\ ready \in BOOLEAN /\ \A i \in DOMAIN asked : asked[i] \in 0..painted
  /\ source \in {"none", "connecting", "open"}
  /\ serving.phase \in {"none", "asked", "reading", "live"}
  /\ (source = "none") = (serving.phase = "none")
  /\ (serving.phase # "reading" => serving.queue = << >>)
  /\ visit.step \in Steps
  /\ conn \in {"disconnected", "connected", "reconnecting", "offline"}
  /\ applied \in {NoOffset} \cup 0..painted
  /\ screen.shown \in 0..painted

(* A connected view was handed over without a seam: no byte that the       *)
(* service stored is missing from it and none is shown twice, save the     *)
(* bytes the snapshot's screen was ahead of its offset.                    *)
ViewExact ==
  conn = "connected" => screen.flaws \cap {"twice", "hole"} = {}

(* While the visit lasts, something will wake the loop: it runs, its timer *)
(* is armed, a source is connecting, or the view is connected.             *)
NeverStranded ==
  \/ visit.stopped
  \/ Running \/ visit.timer \/ source = "connecting"
  \/ source = "open" /\ visit.ready /\ conn = "connected"

(* A view that claims to be connected is not waiting for a new snapshot.   *)
NoStaleView == conn = "connected" => ~needSnapshot

(* docs/proto.md: open the stream with ring_next_offset for a              *)
(* duplication-free, gap-free handoff.                                     *)
HandoffIsExact == conn = "connected" => screen.flaws = {}

(* Once failures end, a viewer whose daemon is pumping, and whose replay   *)
(* could be read, is connected and sees everything that was printed.       *)
ViewCatchesUp ==
  <>[](\/ visit.stopped \/ ~attached \/ serving.failed
       \/ conn = "connected" /\ screen.shown = painted)
=============================================================================
