--------------------------- MODULE TerminalOutput ---------------------------
\* The way of one terminal session's output from the shell to the service's
\* durable store: the holder's ring, the daemon's attachment to it (stat, ring
\* replay, subscription, pump), the transport, the service's per-session ingest
\* queue and the output table with its retention cap; and terminal_ensure, with
\* which the service asks for the bytes it has not stored.
\*
\* A byte is its absolute offset.  A chunk is the record [from, to] of the bytes
\* from .. to - 1.
EXTENDS Integers, Sequences, FiniteSets, FiniteSetsExt

CONSTANTS
    Ensurers,     \* callers of POST /terminal/ensure: browser tabs, the agent
    RingCap,      \* bytes the holder's ring keeps
    ReadMax,      \* bytes one ring_read returns
    ChunkMax,     \* bytes one terminal_output frame carries
    SoftCap,      \* bytes the service keeps of a session
    MaxBytes,     \* bound: bytes the shell writes
    MaxTurns      \* bound: losses of the transport, gestures that find no
                  \* attachment, ensure calls for a session that is not suspended

\* The ring keeps something, a read and a frame carry something, and the
\* retention cap holds two full frames.
ASSUME OutputBounds ==
    /\ RingCap \in Nat \ {0} /\ ReadMax \in Nat \ {0} /\ ChunkMax \in Nat \ {0}
    /\ SoftCap \in Nat /\ SoftCap >= 2 * ChunkMax
    /\ {MaxBytes, MaxTurns} \subseteq Nat

VARIABLES
    held,       \* the session has a holder process
    next,       \* the ring's next offset
    sender,     \* the daemon's transport: its number, and whether it is up
    online,     \* the service has a registered connection of the daemon
    inbox,      \* terminal_ensure frames on their way, or waiting for the attach lock
    attaching,  \* the attachment being made by the holder of the attach lock
    entry,      \* the installed attachment
    wire,       \* frames sent by the pump and not yet ingested
    ingest,     \* the frame being ingested, with the next await of its handler
    rows,       \* the rows of terminal_session_output
    retained,   \* retainedBytes: the cached size of the rows, -1 when not cached
    state,      \* terminal_session.state
    asking,     \* per ensurer: where its ensureSession call is
    turns,      \* what is left of MaxTurns
    fate        \* history: what became of the bytes that are not in a row

outputVars == <<held, next, sender, online, inbox, attaching, entry, wire, ingest, rows,
                retained, state, asking, turns, fate>>

Absent == [conn |-> 0]
Chunk(a, b) == [from |-> a, to |-> b]
BytesOf(c) == c.from .. c.to - 1
Length(c) == c.to - c.from
Larger(a, b) == IF a < b THEN b ELSE a
Smaller(a, b) == IF a < b THEN a ELSE b
----------------------------------------------------------------------------
\* The holder's ring.

\* RingFile::oldest_offset.
OldestOffset == IF next > RingCap THEN next - RingCap ELSE 0

\* run_pump's split of an output event into frames that keep absolute offsets.
OutputFrames(a, b) ==
    [i \in 1 .. (b - a + ChunkMax - 1) \div ChunkMax |->
        [type |-> "output", chunk |-> Chunk(a + (i - 1) * ChunkMax, Smaller(b, a + i * ChunkMax))]]

GapFrame(a, b) == [type |-> "gap", chunk |-> Chunk(a, b)]
GapUpTo(a, b) == IF a < b THEN <<GapFrame(a, b)>> ELSE <<>>

MutForgetsSubscribers ==
    /\ held /\ next < MaxBytes
    /\ next' = next + 1
    /\ UNCHANGED <<held, sender, online, inbox, attaching, entry, wire, ingest, rows, retained,
                   state, asking, turns, fate>>

\* pty_pump: the shell's output is appended to the ring and pushed to the
\* subscribers under one lock.
PtyPump ==
    /\ held /\ next < MaxBytes
    /\ next' = next + 1
    /\ entry' = IF entry # Absent /\ entry.live
                THEN [entry EXCEPT !.fifo = @ \o OutputFrames(next, next + 1)] ELSE entry
    /\ UNCHANGED <<held, sender, online, inbox, attaching, wire, ingest, rows, retained, state,
                   asking, turns, fate>>
----------------------------------------------------------------------------
\* The daemon's attachment.

\* Session::attach: stat the ring, and report the bytes below the oldest one.
Attach(conn, resume, announce) ==
    [conn |-> conn, resume |-> resume, announce |-> announce, cursor |-> OldestOffset,
     upto |-> next, events |-> GapUpTo(resume, OldestOffset)]

\* handle_ensure, up to the attachment: under the attach lock the old attachment
\* is dropped, a holder spawned if there is none (registry.ensure), and a new
\* attachment made from the offset the frame carries.
HandleEnsure ==
    /\ inbox # <<>> /\ attaching = Absent
    /\ inbox' = Tail(inbox)
    /\ held' = TRUE
    /\ entry' = Absent
    /\ attaching' = Attach(Head(inbox).conn, Head(inbox).resume, TRUE)
    /\ UNCHANGED <<next, sender, online, wire, ingest, rows, retained, state, asking,
                   turns, fate>>

\* entry_or_attach: a send, observe, input, resize or grid watch finds no
\* attachment and makes one, with the current end of the ring as its offset.
EntryOrAttach ==
    /\ turns > 0 /\ sender.up /\ online /\ held
    /\ entry = Absent /\ attaching = Absent /\ inbox = <<>>
    /\ attaching' = Attach(sender.n, next, FALSE)
    /\ turns' = turns - 1
    /\ fate' = [fate EXCEPT !.skipped = @ \cup (0 .. next - 1)]
    /\ UNCHANGED <<held, next, sender, online, inbox, entry, wire, ingest, rows, retained,
                   state, asking>>

MutReplaysFromCursor ==
    LET start == Larger(attaching.cursor, OldestOffset)
        end == Smaller(attaching.upto, start + ReadMax)
        shown == Larger(start, attaching.resume + 1) IN
    /\ attaching # Absent /\ attaching.cursor < attaching.upto
    /\ attaching' = IF start >= end
                    THEN [attaching EXCEPT !.upto = attaching.cursor]
                    ELSE [attaching EXCEPT !.cursor = end,
                             !.events = IF shown < end THEN @ \o OutputFrames(shown, end) ELSE @]
    /\ fate' = IF start < end
               THEN [fate EXCEPT !.evicted = @ \cup (attaching.cursor .. start - 1)] ELSE fate
    /\ UNCHANGED <<held, next, sender, online, inbox, entry, wire, ingest, rows, retained, state,
                   asking, turns>>

\* One ring_read of event_loop's replay.  What was evicted since the stat is
\* skipped; bytes below the resume offset feed the emulator only.
RingRead ==
    LET start == Larger(attaching.cursor, OldestOffset)
        end == Smaller(attaching.upto, start + ReadMax)
        shown == Larger(start, attaching.resume) IN
    /\ attaching # Absent /\ attaching.cursor < attaching.upto
    /\ attaching' = IF start >= end
                    THEN [attaching EXCEPT !.upto = attaching.cursor]
                    ELSE [attaching EXCEPT !.cursor = end,
                             !.events = IF shown < end THEN @ \o OutputFrames(shown, end) ELSE @]
    /\ fate' = IF start < end
               THEN [fate EXCEPT !.evicted = @ \cup (attaching.cursor .. start - 1)] ELSE fate
    /\ UNCHANGED <<held, next, sender, online, inbox, entry, wire, ingest, rows, retained, state,
                   asking, turns>>

\* The rest of handle_ensure and entry_or_attach: the entry is installed, and
\* handle_ensure reports the session ready when its transport still stands.
InstallEntry ==
    /\ attaching # Absent /\ attaching.cursor >= attaching.upto
    /\ entry' = [conn |-> attaching.conn, live |-> FALSE, cursor |-> attaching.cursor,
                 fifo |-> attaching.events]
    /\ wire' = IF attaching.announce /\ sender.up /\ attaching.conn = sender.n
               THEN Append(wire, [type |-> "ready"]) ELSE wire
    /\ attaching' = Absent
    /\ UNCHANGED <<held, next, sender, online, inbox, ingest, rows, retained, state, asking,
                   turns, fate>>

\* serve_subscription from the end of the replay: under the ring's lock the
\* backlog is read and the subscriber registered, a truncation reported first.
Subscribe ==
    LET start == Larger(entry.cursor, OldestOffset) IN
    /\ entry # Absent /\ ~entry.live
    /\ entry' = [entry EXCEPT !.live = TRUE,
                    !.fifo = @ \o GapUpTo(entry.cursor, OldestOffset) \o OutputFrames(start, next)]
    /\ UNCHANGED <<held, next, sender, online, inbox, attaching, wire, ingest, rows, retained,
                   state, asking, turns, fate>>

\* run_pump sends a frame; on a dead transport it stops, and its entry is
\* removed (remove_entry_if_current).
RunPump ==
    /\ entry # Absent /\ entry.fifo # <<>>
    /\ IF sender.up /\ entry.conn = sender.n
       THEN /\ wire' = Append(wire, Head(entry.fifo))
            /\ entry' = [entry EXCEPT !.fifo = Tail(@)]
       ELSE entry' = Absent /\ UNCHANGED wire
    /\ UNCHANGED <<held, next, sender, online, inbox, attaching, ingest, rows, retained, state,
                   asking, turns, fate>>
----------------------------------------------------------------------------
\* The transport.

\* The transport breaks: clear_sender drops the attachments, and the frames not
\* yet received by the other side are lost.
ClearSender ==
    /\ sender.up /\ turns > 0
    /\ sender' = [sender EXCEPT !.up = FALSE]
    /\ entry' = Absent
    /\ \E i \in 0 .. Len(wire), j \in 0 .. Len(inbox) :
          wire' = SubSeq(wire, 1, i) /\ inbox' = SubSeq(inbox, 1, j)
    /\ turns' = turns - 1
    /\ UNCHANGED <<held, next, online, attaching, ingest, rows, retained, state, asking, fate>>

\* The service's process ends, in the middle of a frame or of a call, and starts
\* again: its sockets break, its queue, its calls and the cached size are gone,
\* the tables stay as they are.
ServiceRestarts ==
    /\ sender.up /\ turns > 0
    /\ sender' = [sender EXCEPT !.up = FALSE]
    /\ online' = FALSE
    /\ entry' = Absent
    /\ \E j \in 0 .. Len(inbox) : inbox' = SubSeq(inbox, 1, j)
    /\ wire' = <<>> /\ ingest' = Absent /\ retained' = -1
    /\ asking' = [e \in Ensurers |-> [at |-> "idle", end |-> 0]]
    /\ turns' = turns - 1
    /\ UNCHANGED <<held, next, attaching, rows, state, fate>>

\* handleClose of the current connection, and with it suspendSessionsForBud.
SuspendSessions ==
    /\ online /\ ~sender.up
    /\ online' = FALSE
    /\ state' = IF state \in {"ready", "creating"} THEN "pending" ELSE state
    /\ UNCHANGED <<held, next, sender, inbox, attaching, entry, wire, ingest, rows, retained,
                   asking, turns, fate>>

\* set_sender after the reconnect.  When the service has not seen the old socket
\* close, the new connection supersedes it and nothing is suspended.
SetSender ==
    /\ ~sender.up
    /\ sender' = [n |-> sender.n + 1, up |-> TRUE]
    /\ online' = TRUE
    /\ UNCHANGED <<held, next, inbox, attaching, entry, wire, ingest, rows, retained, state,
                   asking, turns, fate>>
----------------------------------------------------------------------------
\* The service: the ingest queue and the output store.

TotalLength(set) == MapThenSumSet(Length, set)
RowBytes == UNION {BytesOf(r) : r \in rows}
StoredEnd == IF rows = {} THEN 0 ELSE Max({r.to : r \in rows})

\* pruneOldestChunks: the shortest prefix of the rows that holds n bytes.
OldestRuns == {{r \in rows : r.from <= cut.from} : cut \in rows} \cup {{}}
OldestChunks(n) ==
    IF \E p \in OldestRuns : TotalLength(p) >= n
    THEN CHOOSE p \in OldestRuns :
            /\ TotalLength(p) >= n
            /\ \A q \in OldestRuns : TotalLength(q) >= n => Cardinality(p) <= Cardinality(q)
    ELSE rows

\* The head of the ingest queue.  An output frame is inserted unless a row begins
\* at its offset, in which case its handler ends (insertChunk, ON CONFLICT DO
\* NOTHING).  output_gap is passed on; a ready status is written to the row.
IngestFrame ==
    /\ ingest = Absent /\ wire # <<>>
    /\ wire' = Tail(wire)
    /\ LET frame == Head(wire) IN
       \/ /\ frame.type = "output"
          /\ IF \E r \in rows : r.from = frame.chunk.from
             THEN /\ fate' = [fate EXCEPT !.refused = @ \cup (BytesOf(frame.chunk) \ RowBytes)]
                  /\ UNCHANGED <<rows, ingest>>
             ELSE /\ rows' = rows \cup {frame.chunk}
                  /\ ingest' = [conn |-> 1, chunk |-> frame.chunk]
                  /\ UNCHANGED fate
          /\ UNCHANGED state
       \/ /\ frame.type = "gap"
          /\ fate' = [fate EXCEPT !.announced = @ \cup BytesOf(frame.chunk)]
          /\ UNCHANGED <<rows, ingest, state>>
       \/ /\ frame.type = "ready"
          /\ state' = "ready"
          /\ UNCHANGED <<rows, ingest, fate>>
    /\ UNCHANGED <<held, next, sender, online, inbox, attaching, entry, retained, asking, turns>>

\* The rest of handleTerminalOutput: the retention cap, the cached size (seeded
\* by a sum that already holds the new row) and the live event.
RetainAndEmit ==
    LET total == (IF retained < 0 THEN TotalLength(rows) ELSE retained) + Length(ingest.chunk)
        gone == IF total > SoftCap THEN OldestChunks(total - SoftCap) ELSE {} IN
    /\ ingest # Absent
    /\ rows' = rows \ gone
    /\ retained' = total - TotalLength(gone)
    /\ fate' = [fate EXCEPT !.pruned = @ \cup UNION {BytesOf(r) : r \in gone},
                            !.emitted = @ \cup BytesOf(ingest.chunk),
                            !.again = @ \cup (fate.emitted \cap BytesOf(ingest.chunk))]
    /\ ingest' = Absent
    /\ UNCHANGED <<held, next, sender, online, inbox, attaching, entry, wire, state, asking, turns>>
----------------------------------------------------------------------------
\* The service: ensureSession.

\* A caller asks; the first await reads the highest stored end offset.
ReadStoredEnd(e) ==
    /\ asking[e].at = "idle"
    /\ (turns > 0 /\ turns' = turns - 1)
          \/ (state = "pending" /\ online /\ UNCHANGED turns)
    /\ asking' = [asking EXCEPT ![e] = [at |-> "row", end |-> StoredEnd]]
    /\ UNCHANGED <<held, next, sender, online, inbox, attaching, entry, wire, ingest, rows,
                   retained, state, fate>>

\* The session row is read: a ready session is answered at once; otherwise
\* terminal_ensure goes out.  Without a connection the call ends with
\* bud_offline; on a connection that is already dead the frame is lost.
EnsureSession(e) ==
    /\ asking[e].at = "row"
    /\ IF state = "ready" \/ ~online
       THEN asking' = [asking EXCEPT ![e] = [at |-> "idle", end |-> 0]] /\ UNCHANGED inbox
       ELSE /\ asking' = [asking EXCEPT ![e].at = "mark"]
            /\ inbox' = IF ~sender.up THEN inbox
                        ELSE Append(inbox, [conn |-> sender.n, resume |-> asking[e].end])
    /\ UNCHANGED <<held, next, sender, online, attaching, entry, wire, ingest, rows, retained,
                   state, turns, fate>>

\* The last await of ensureSession: the row says creating, whatever it said.
MarkCreating(e) ==
    /\ asking[e].at = "mark"
    /\ state' = "creating"
    /\ asking' = [asking EXCEPT ![e] = [at |-> "idle", end |-> 0]]
    /\ UNCHANGED <<held, next, sender, online, inbox, attaching, entry, wire, ingest, rows,
                   retained, turns, fate>>
----------------------------------------------------------------------------
OutputInit ==
    /\ held = FALSE /\ next = 0
    /\ sender = [n |-> 1, up |-> TRUE] /\ online = TRUE
    /\ inbox = <<>> /\ attaching = Absent /\ entry = Absent
    /\ wire = <<>> /\ ingest = Absent
    /\ rows = {} /\ retained = -1 /\ state = "pending"
    /\ asking = [e \in Ensurers |-> [at |-> "idle", end |-> 0]]
    /\ turns = MaxTurns
    /\ fate = [announced |-> {}, skipped |-> {}, evicted |-> {}, refused |-> {},
               pruned |-> {}, emitted |-> {}, again |-> {}]

\* What the daemon and the service do by themselves once asked.
OutputProgress ==
    \/ HandleEnsure \/ RingRead \/ InstallEntry \/ Subscribe \/ RunPump
    \/ SuspendSessions \/ SetSender \/ IngestFrame \/ RetainAndEmit
    \/ \E e \in Ensurers : \/ EnsureSession(e) \/ MarkCreating(e)
                           \/ (state = "pending" /\ online /\ ReadStoredEnd(e))

OutputNext ==
    \/ PtyPump \/ HandleEnsure \/ EntryOrAttach \/ RingRead \/ InstallEntry \/ Subscribe
    \/ RunPump \/ ClearSender \/ ServiceRestarts \/ SuspendSessions \/ SetSender \/ IngestFrame \/ RetainAndEmit
    \/ \E e \in Ensurers : ReadStoredEnd(e) \/ EnsureSession(e) \/ MarkCreating(e)

OutputSpec == OutputInit /\ [][OutputNext]_outputVars

\* The daemon reconnects, its tasks and the service's handlers run, and a client
\* that finds the session suspended asks again (the recovery loop of the page).
OutputFairSpec == OutputSpec /\ WF_outputVars(OutputProgress)
----------------------------------------------------------------------------
Frames == [type : {"output", "gap"}, chunk : [from : Nat, to : Nat]] \cup [type : {"ready"}]

\* Type invariant: offsets stay in the bytes written, rows begin at distinct
\* offsets and are not empty, a frame is never empty or longer than a frame may
\* be (run_pump, insertChunk).
OutputTypeOK ==
    /\ held \in BOOLEAN /\ next \in 0 .. MaxBytes /\ sender \in [n : 1 .. MaxTurns + 1, up : BOOLEAN] /\ online \in BOOLEAN
    /\ state \in {"pending", "creating", "ready"}
    /\ \A i \in DOMAIN inbox : inbox[i].resume \in 0 .. next
    /\ \A i \in DOMAIN wire : wire[i] \in Frames
    /\ \A r \in rows : Length(r) \in 1 .. ChunkMax /\ r.to <= next
    /\ \A r, s \in rows : r.from = s.from => r = s
    /\ asking \in [Ensurers -> [at : {"idle", "row", "mark"}, end : 0 .. next]]

Lost == fate.skipped \cup fate.evicted \cup fate.refused

\* Every byte below the highest stored offset is in a row, was pruned, was
\* reported by an output_gap event, or was given up in one of three known places:
\* a reattachment at the end of the ring (entry_or_attach), an eviction that
\* overtakes the replay (event_loop), a redelivered chunk that starts where a
\* shorter row starts (insertChunk).  Losing frames with the transport, dropping
\* an attachment in the middle of its replay, and subscribing after the replay
\* lose nothing.
AccountedFor ==
    \A o \in 0 .. StoredEnd - 1 : o \in RowBytes \cup fate.pruned \cup fate.announced \cup Lost

\* Once a frame has been handled the rows of its session are within the retention
\* cap, after a restart of the service too, which forgets the counted size until the
\* next frame seeds it from rows that already hold that frame
\* (handleTerminalOutput, pruneOldestChunks).
WithinRetention == ingest = Absent /\ retained >= 0 => TotalLength(rows) <= SoftCap

\* The offset a later terminal_ensure resumes from never moves back: pruning takes
\* the oldest rows and leaves the newest (getStoredEndOffset, pruneOldestChunks).
ResumeNeverRegresses == [][StoredEnd' >= StoredEnd]_outputVars

\* Nothing will attach by itself: the connection stands, the row does not say that
\* the session is suspended, and no terminal_ensure is on its way.
Unattended ==
    /\ sender.up /\ state # "pending" /\ entry = Absent /\ attaching = Absent /\ inbox = <<>>
    /\ \A e \in Ensurers : asking[e].at = "idle"

\* Output written is eventually stored, or accounted for: after the last loss of
\* the transport a terminal_ensure or the live subscription brings the rest.  A
\* session left unattended, because a superseding connection suspended nothing or
\* because creating was written over pending, waits for the next gesture or ensure
\* call and is excepted.
CatchesUp ==
    []<>(\/ 0 .. next - 1 \subseteq RowBytes \cup fate.pruned \cup fate.announced \cup Lost
         \/ Unattended)

\* What docs/proto.md says of resume_from_offset: "the daemon backfills
\* ring-buffered output from exactly that offset before live output", with
\* output_gap for what the ring lost.  Below the highest stored offset nothing is
\* missing unannounced.
BackfillIsExact ==
    \A o \in 0 .. StoredEnd - 1 : o \in RowBytes \cup fate.pruned \cup fate.announced

\* What handleTerminalOutput says: "redelivered frames never double-count or
\* re-emit".  No byte is emitted to the viewers twice.
NeverReemitted == fate.again = {}
=============================================================================
