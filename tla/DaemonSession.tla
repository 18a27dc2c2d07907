--------------------------- MODULE DaemonSession ---------------------------
(***************************************************************************)
(* Presence of one Bud: the daemon's reconnect loop (bud/src/app.rs), the  *)
(* service's WebSocket and gRPC control connections (ws/bud-connection.ts, *)
(* grpc/control-gateway.ts) with the gRPC data attachment                  *)
(* (grpc/data-gateway.ts), the maps of current trackers, and the rows they *)
(* write (runtime/daemon-state.ts and bud.status).                         *)
(*                                                                         *)
(* The service is one event loop: an action is the code between two        *)
(* awaits.  A handler that awaits is a script, the sequence of its effects *)
(* still to run, and the scripts of different handlers interleave one item *)
(* at a time.  A connection is a number, used again once nothing is left   *)
(* of the connection that had it.                                          *)
(***************************************************************************)
EXTENDS Naturals, Sequences, FiniteSets

CONSTANTS
    MaxConn,        \* connections at a time, live or being cleaned up
    MaxLosses       \* breaks, spurious time-outs and restarts

ASSUME SessionBounds == MaxConn \in Nat \ {0} /\ MaxLosses \in Nat

VARIABLES
    daemon,         \* [at, conn]: where the reconnect loop is, the connection it holds
    kind,           \* the carrier of a connection
    link,           \* what the network does with the connection
    sock,           \* the service's end of it
    cstate,         \* ConnectionState of its handler
    sessions,       \* per carrier: the current tracker, 0 for none
    armed,          \* trackers whose heartbeat timer runs
    finalizing,     \* gRPC trackers whose durable close has begun
    script,         \* per handler: effects still to run
    dev, trn,       \* device_session and transport_session rows
    att, arow,      \* gRPC data attachment, and its transport_session row
    budRow, told,   \* bud.status; the last presence event sent to the viewers
    losses,         \* faults so far
    stale, lost     \* history: why presence may be wrong; rows a crash or a ghost left

svars == <<daemon, kind, link, sock, cstate, sessions, armed, finalizing, script,
           dev, trn, att, arow, budRow, told, losses, stale, lost>>

Conns == 1 .. MaxConn
Carriers == {"websocket", "h2_grpc"}
Roles == {"hello", "close", "timeout", "replaced", "attach", "detach"}
Tasks == Conns \X Roles
RowState == {"none", "active", "closed"}

----------------------------------------------------------------------------
(* Vocabulary *)

Used == {c \in Conns : link[c] # "none"}
Current(c) == sessions[kind[c]] = c

\* isBudOnline of the two routers: a current tracker on an open socket.
OnlineOn(k) == sessions[k] # 0 /\ sock[sessions[k]] \in (IF k = "websocket" THEN {"open"} ELSE {"open", "ending"})
Online == \E k \in Carriers : OnlineOn(k)

Item(op, c) == [op |-> op, c |-> c]
Items(ops, c) == [i \in 1 .. Len(ops) |-> Item(ops[i], c)]

\* Mutant: an offline transition that only tells the viewers.
MutTellsOnly(c) == Items(<<"tellOffline">>, c)

\* Rows of a connection, in the order each carrier closes them.
WsCloseRows(c) == Items(<<"closeTransport", "closeDevice">>, c)
GrpcCloseRows(c) == Items(<<"closeData", "closeDevice", "closeTransport">>, c)

\* The offline transition.  gRPC looks once, first, for another transport.
WsOffline(c) == Items(<<"tellOffline", "markOffline">>, c)
GrpcOffline(c) == Items(<<"unlessOnline", "tellOffline", "markOffline">>, c)

\* deleteSessionTrackerIfCurrent: out of the map, timer cleared.
DeleteIfCurrent(c) ==
    /\ sessions' = IF Current(c) THEN [sessions EXCEPT ![kind[c]] = 0] ELSE sessions
    /\ armed' = armed \ {c}

\* A connection has a tracker once registerSession has put it in the map.
Tracked(c) == trn[c] # "none"

----------------------------------------------------------------------------
(* The daemon *)

SessionInit ==
    /\ daemon = [at |-> "idle", conn |-> 0]
    /\ kind \in {[c \in Conns |-> "websocket"]}
    /\ link = [c \in Conns |-> "none"] /\ sock = [c \in Conns |-> "none"]
    /\ cstate = [c \in Conns |-> "none"]
    /\ sessions = [k \in Carriers |-> 0] /\ armed = {} /\ finalizing = {}
    /\ script = [t \in Tasks |-> <<>>]
    /\ dev = [c \in Conns |-> "none"] /\ trn = dev
    /\ att = [c \in Conns |-> "none"] /\ arow = dev
    /\ budRow = "offline" /\ told = "offline"
    /\ losses = 0 /\ stale = {} /\ lost = {}

\* Nothing of the connection is left but its rows: its name may be used again.
Retired(c) ==
    /\ sock[c] = "closed" /\ ~Current(c) /\ c \notin armed /\ daemon.conn # c
    /\ att[c] \in {"none", "closed"}
    /\ \A t \in Tasks : \A i \in DOMAIN script[t] : t[1] # c /\ script[t][i].c # c

\* A connection attempt reaches the service, which waits for its hello.
Dialed(k) ==
    /\ daemon.at = "idle"
    /\ \E c \in Conns :
          /\ link[c] = "none" \/ Retired(c)
          /\ \A d \in Conns : d < c => link[d] # "none" /\ ~Retired(d)
          /\ kind' = [kind EXCEPT ![c] = k]
          /\ daemon' = [at |-> "hello", conn |-> c]
          /\ link' = [link EXCEPT ![c] = "up"] /\ sock' = [sock EXCEPT ![c] = "open"]
          /\ cstate' = [cstate EXCEPT ![c] = "awaiting_hello"]
          /\ dev' = [dev EXCEPT ![c] = "none"] /\ trn' = [trn EXCEPT ![c] = "none"]
          /\ att' = [att EXCEPT ![c] = "none"] /\ arow' = [arow EXCEPT ![c] = "none"]
          /\ finalizing' = finalizing \ {c} /\ lost' = lost \ {c}
    /\ UNCHANGED <<sessions, armed, script, budRow, told, losses, stale>>

\* connect_once tries gRPC first, and the WebSocket when gRPC is unavailable.
ConnectOnceGrpc == Dialed("h2_grpc")
ConnectOnceWebSocket == Dialed("websocket")

\* A read or send error, or the end of the stream: the loop of the session returns,
\* its transport-bound tasks are cancelled, and the loop sleeps before it dials.
HangsUp(k, at) ==
    /\ daemon.at = at /\ kind[daemon.conn] = k /\ link[daemon.conn] = "down"
    /\ daemon' = [at |-> "idle", conn |-> 0]
    /\ att' = [att EXCEPT ![daemon.conn] = IF @ = "up" THEN "down" ELSE @]
    /\ UNCHANGED <<kind, link, sock, cstate, sessions, armed, finalizing, script, dev,
                   trn, arow, budRow, told, losses, stale, lost>>

RunSessionEnds == HangsUp("websocket", "session")
RunGrpcSessionEnds == HangsUp("h2_grpc", "session")
HandshakeFails == \E k \in Carriers : HangsUp(k, "hello")

\* The network breaks, or the authentication stage of the daemon times out.
Break(c) ==
    /\ link[c] = "up" /\ losses < MaxLosses
    /\ link' = [link EXCEPT ![c] = "down"] /\ losses' = losses + 1
    /\ UNCHANGED <<daemon, kind, sock, cstate, sessions, armed, finalizing, script, dev,
                   trn, att, arow, budRow, told, stale, lost>>

----------------------------------------------------------------------------
(* Handshake *)

\* handleHello and issueChallenge, on either carrier.
Challenged(c) ==
    /\ cstate[c] = "awaiting_hello" /\ sock[c] = "open"
    /\ cstate' = [cstate EXCEPT ![c] = "awaiting_proof"]
    /\ UNCHANGED <<daemon, kind, link, sock, sessions, armed, finalizing, script, dev,
                   trn, att, arow, budRow, told, losses, stale, lost>>

WsHello(c) == kind[c] = "websocket" /\ Challenged(c)
GrpcHello(c) == kind[c] = "h2_grpc" /\ Challenged(c)

\* handleHelloProof up to its first await; registerSession and the ack follow.
Proved(c) ==
    /\ cstate[c] = "awaiting_proof" /\ sock[c] = "open" /\ script[<<c, "hello">>] = <<>>
    /\ script' = [script EXCEPT ![<<c, "hello">>] =
           Items(<<"markOnline", "openDevice", "register">>, c)]
    /\ UNCHANGED <<daemon, kind, link, sock, cstate, sessions, armed, finalizing, dev,
                   trn, att, arow, budRow, told, losses, stale, lost>>

WsProof(c) == kind[c] = "websocket" /\ Proved(c)
GrpcProof(c) == kind[c] = "h2_grpc" /\ Proved(c)

\* registerSession once its rows exist: the new tracker is the current one.
Registered(c) ==
    LET prev == sessions[kind[c]]
    IN  /\ script[<<c, "hello">>] = <<Item("register", c)>>
        /\ trn' = [trn EXCEPT ![c] = "active"]
        /\ sessions' = [sessions EXCEPT ![kind[c]] = c]
        /\ lost' = IF prev # 0 /\ sock[prev] = "closed" THEN lost \cup {prev} ELSE lost
        /\ UNCHANGED <<daemon, kind, link, sock, cstate, dev, att, arow, budRow, told,
                       losses, stale>>

Greeting(c) == Items(<<"ack", "tellOnline">>, c)

\* The WebSocket handler clears the replaced tracker's timer; its own timer and the
\* end of the replaced socket come after another await.
WsRegister(c) ==
    LET prev == sessions[kind[c]]
    IN  /\ kind[c] = "websocket" /\ Registered(c)
        /\ armed' = armed \ {prev}
        /\ script' = [script EXCEPT ![<<c, "hello">>] = <<Item("schedule", prev)>> \o Greeting(c)]
        /\ UNCHANGED finalizing

\* gRPC starts its timer at once, and closes the replaced tracker before the ack.
GrpcRegister(c) ==
    LET prev == sessions[kind[c]]
        replaced == prev # 0 /\ sock[prev] # "closed"
    IN  /\ kind[c] = "h2_grpc" /\ Registered(c)
        /\ armed' = (armed \ {prev}) \cup {c}
        /\ finalizing' = IF replaced THEN finalizing \cup {prev} ELSE finalizing
        /\ script' = [script EXCEPT ![<<c, "hello">>] =
               (IF replaced THEN GrpcCloseRows(prev) \o <<Item("end", prev)>> ELSE <<>>)
               \o Greeting(c)]

\* The WebSocket registerSession after it finalized the replaced data tracker:
\* its timer starts, and the replaced socket is closed without waiting for its rows.
WsSchedule(c) ==
    LET task == <<c, "hello">>
        prev == Head(script[task]).c
        replaced == prev # 0 /\ sock[prev] = "open"
    IN  /\ script[task] # <<>> /\ Head(script[task]).op = "schedule"
        /\ armed' = armed \cup {c}
        /\ sock' = IF replaced THEN [sock EXCEPT ![prev] = "ending"] ELSE sock
        /\ script' = [script EXCEPT ![task] = Tail(@),
               ![<<IF replaced THEN prev ELSE c, "replaced">>] =
                   IF replaced THEN WsCloseRows(prev) ELSE @]
        /\ UNCHANGED <<daemon, kind, link, cstate, sessions, finalizing, dev, trn, att,
                       arow, budRow, told, losses, stale, lost>>

----------------------------------------------------------------------------
(* The end of a connection *)

\* The close event of a socket.  A tracker that is current leaves the map.
SocketCloses(c) ==
    /\ sock[c] = "open" => link[c] = "down"
    /\ sock[c] \in {"open", "ending"}
    /\ sock' = [sock EXCEPT ![c] = "closed"] /\ link' = [link EXCEPT ![c] = "down"]
    /\ cstate' = [cstate EXCEPT ![c] = "closed"]
    /\ IF Tracked(c) THEN DeleteIfCurrent(c) ELSE UNCHANGED <<sessions, armed>>
    /\ UNCHANGED <<daemon, kind, dev, trn, att, arow, budRow, told, losses, stale, lost>>

\* handleClose: the rows are closed, and the Bud goes offline if the tracker was the
\* current one.  Without a tracker there is nothing to close.
WsClose(c) ==
    /\ kind[c] = "websocket" /\ SocketCloses(c)
    /\ script' = [script EXCEPT ![<<c, "close">>] =
           IF ~Tracked(c) THEN <<>>
           ELSE WsCloseRows(c) \o (IF Current(c) THEN WsOffline(c) ELSE <<>>)]
    /\ UNCHANGED finalizing

\* The same over gRPC, unless a durable close of the tracker has already begun.
GrpcClose(c) ==
    /\ kind[c] = "h2_grpc" /\ SocketCloses(c)
    /\ script' = [script EXCEPT ![<<c, "close">>] =
           IF ~Tracked(c) \/ (~Current(c) /\ c \in finalizing) THEN <<>>
           ELSE GrpcCloseRows(c) \o (IF Current(c) THEN GrpcOffline(c) ELSE <<>>)]
    /\ finalizing' = IF Tracked(c) THEN finalizing \cup {c} ELSE finalizing

\* The daemon was silent for offlineGraceSec.  A timer on a live connection is a fault.
TimerFires(c) ==
    /\ c \in armed
    /\ link[c] = "up" => losses < MaxLosses
    /\ losses' = IF link[c] = "up" THEN losses + 1 ELSE losses
    /\ DeleteIfCurrent(c)
    /\ UNCHANGED <<daemon, kind, link, sock, cstate, dev, trn, att, arow, budRow, told,
                   stale, lost>>

\* handleTrackerTimeout: a tracker that is not the current one is ignored.
WsTimeout(c) ==
    /\ kind[c] = "websocket" /\ TimerFires(c)
    /\ script' = [script EXCEPT ![<<c, "timeout">>] =
           IF Current(c) THEN WsCloseRows(c) \o WsOffline(c) \o <<Item("end", c)>> ELSE @]
    /\ UNCHANGED finalizing

GrpcTimeout(c) ==
    /\ kind[c] = "h2_grpc" /\ TimerFires(c)
    /\ script' = [script EXCEPT ![<<c, "timeout">>] =
           IF Current(c) THEN GrpcCloseRows(c) \o GrpcOffline(c) \o <<Item("end", c)>> ELSE @]
    /\ finalizing' = IF Current(c) THEN finalizing \cup {c} ELSE finalizing

----------------------------------------------------------------------------
(* Effects the handlers await *)

\* Writes of one row each.
RunRow(t) ==
    LET item == Head(script[t])
        c == item.c
    IN  /\ script[t] # <<>>
        /\ item.op \in {"openDevice", "closeDevice", "closeTransport"}
        /\ script' = [script EXCEPT ![t] = Tail(@)]
        /\ dev' = CASE item.op = "openDevice"  -> [dev EXCEPT ![c] = "active"]
                    [] item.op = "closeDevice" -> [dev EXCEPT ![c] = "closed"]
                    [] OTHER -> dev
        /\ trn' = IF item.op = "closeTransport" THEN [trn EXCEPT ![c] = "closed"] ELSE trn
        /\ UNCHANGED <<daemon, kind, link, sock, cstate, sessions, armed, finalizing,
                       att, arow, budRow, told, losses, stale, lost>>

\* Some handler has yet to run an offline effect.
GoingOffline == \E t \in Tasks : \E i \in DOMAIN script[t] :
                    script[t][i].op \in {"tellOffline", "markOffline"}

\* bud.status, and the presence events of the terminal sessions.  stale remembers
\* an offline effect that ran while a tracker was current or registering.
RunPresence(t) ==
    LET item == Head(script[t])
        c == item.c
    IN  /\ script[t] # <<>>
        /\ item.op \in {"markOnline", "markOffline", "tellOnline", "tellOffline"}
        /\ script' = [script EXCEPT ![t] = Tail(@)]
        /\ budRow' = CASE item.op = "markOnline" -> "online"
                       [] item.op = "markOffline" -> "offline" [] OTHER -> budRow
        /\ told' = CASE item.op = "tellOnline" -> "online"
                     [] item.op = "tellOffline" -> "offline" [] OTHER -> told
        /\ cstate' = IF item.op = "markOnline" THEN [cstate EXCEPT ![c] = "connected"] ELSE cstate
        /\ stale' = IF item.op = "tellOnline" /\ budRow = "online" /\ ~GoingOffline THEN {}
                    ELSE IF /\ item.op \in {"markOffline", "tellOffline"}
                            /\ \E d \in Conns : script[<<d, "hello">>] # <<>> \/ Current(d)
                    THEN stale \cup {"overlap"} ELSE stale
        /\ UNCHANGED <<daemon, kind, link, sock, sessions, armed, finalizing, dev, trn,
                       att, arow, losses, lost>>

\* handleOfflineTransitionIfNoOtherTransport: looked at once, before its awaits.
RunCheck(t) ==
    /\ script[t] # <<>> /\ Head(script[t]).op = "unlessOnline"
    /\ script' = [script EXCEPT ![t] =
           IF Online THEN SelectSeq(@, LAMBDA i : i.op = "end") ELSE Tail(@)]
    /\ UNCHANGED <<daemon, kind, link, sock, cstate, sessions, armed, finalizing, dev,
                   trn, att, arow, budRow, told, losses, stale, lost>>

\* Mutant: the socket of a timed-out tracker is left open.
MutLeavesOpen(t) ==
    /\ script[t] # <<>> /\ Head(script[t]).op = "end"
    /\ script' = [script EXCEPT ![t] = Tail(@)]
    /\ UNCHANGED <<daemon, kind, link, sock, cstate, sessions, armed, finalizing, dev, trn,
                   att, arow, budRow, told, losses, stale, lost>>

\* socket.close() or call.end() on a socket the service still holds open.
RunEnd(t) ==
    LET c == Head(script[t]).c
    IN  /\ script[t] # <<>> /\ Head(script[t]).op = "end"
        /\ script' = [script EXCEPT ![t] = Tail(@)]
        /\ sock' = [sock EXCEPT ![c] = IF @ = "open" THEN "ending" ELSE @]
        /\ UNCHANGED <<daemon, kind, link, cstate, sessions, armed, finalizing, dev, trn,
                       att, arow, budRow, told, losses, stale, lost>>

\* hello_ack reaches a daemon that still waits for it.
Acked(t, k) ==
    LET c == Head(script[t]).c
        heard == sock[c] = "open" /\ link[c] = "up" /\ daemon = [at |-> "hello", conn |-> c]
    IN  /\ script[t] # <<>> /\ Head(script[t]).op = "ack" /\ kind[c] = k
        /\ script' = [script EXCEPT ![t] = Tail(@)]
        /\ daemon' = IF heard THEN [daemon EXCEPT !.at = "session"] ELSE daemon
        /\ UNCHANGED <<kind, link, sock, cstate, sessions, armed, finalizing, dev, trn,
                       arow, budRow, told, losses, stale, lost>>

WsAck(t) == Acked(t, "websocket") /\ UNCHANGED att

\* Over gRPC the daemon then attaches its data stream, or goes on without one.
GrpcAck(t) ==
    LET c == Head(script[t]).c
    IN  /\ Acked(t, "h2_grpc")
        /\ \/ UNCHANGED att
           \/ daemon' # daemon /\ att' = [att EXCEPT ![c] = "up"]

----------------------------------------------------------------------------
(* The gRPC data attachment *)

\* handleAttach: bound to the current control tracker when the frame arrives; its
\* row is awaited and the control tracker is not looked at again.
HandleAttach(c) ==
    /\ att[c] = "up" /\ arow[c] = "none" /\ script[<<c, "attach">>] = <<>>
    /\ IF Current(c) /\ sock[c] # "closed"
       THEN script' = [script EXCEPT ![<<c, "attach">>] = Items(<<"openData">>, c)] /\ UNCHANGED att
       ELSE att' = [att EXCEPT ![c] = "closed"] /\ UNCHANGED script
    /\ UNCHANGED <<daemon, kind, link, sock, cstate, sessions, armed, finalizing, dev,
                   trn, arow, budRow, told, losses, stale, lost>>

\* The data stream's handleClose, for a stream the daemon dropped, even while its
\* attach is still waiting for its row, or the service ended.
DataClose(c) ==
    /\ att[c] \in {"down", "ending"}
    /\ att' = [att EXCEPT ![c] = "closed"]
    /\ script' = [script EXCEPT ![<<c, "detach">>] =
           IF arow[c] = "none" THEN <<>> ELSE Items(<<"closeDataRow">>, c)]
    /\ UNCHANGED <<daemon, kind, link, sock, cstate, sessions, armed, finalizing, dev,
                   trn, arow, budRow, told, losses, stale, lost>>

\* Some handler has yet to finalize the attachments of c.
WillClose(c) == \E t \in Tasks : \E i \in DOMAIN script[t] : script[t][i] = Item("closeData", c)

\* registerTransportSession of the attachment; finalizeGrpcDataSessionsForControlTracker
\* ends the attachments registered by now; the durable close of an attachment.
RunData(t) ==
    LET item == Head(script[t])
        c == item.c
    IN  /\ script[t] # <<>> /\ item.op \in {"openData", "closeData", "closeDataRow"}
        /\ script' = [script EXCEPT ![t] = Tail(@)]
        /\ arow' = [arow EXCEPT ![c] =
               CASE item.op = "openData" -> "active"
                 [] item.op = "closeData" /\ @ = "none" -> "none"
                 [] OTHER -> "closed"]
        /\ att' = [att EXCEPT ![c] =
               IF item.op = "closeData" /\ arow[c] # "none" /\ @ = "up" THEN "ending" ELSE @]
        /\ lost' = IF item.op = "openData" /\ att[c] = "closed" /\ ~Current(c) /\ ~WillClose(c)
                   THEN lost \cup {c} ELSE lost
        /\ UNCHANGED <<daemon, kind, link, sock, cstate, sessions, armed, finalizing,
                       dev, trn, budRow, told, losses, stale>>

----------------------------------------------------------------------------
(* The service process *)

\* A crash: trackers, timers and handlers are gone, every socket is cut, and the
\* rows keep what they said.
Crash ==
    /\ losses < MaxLosses /\ losses' = losses + 1
    /\ \E c \in Used : sock[c] # "closed"
    /\ sessions' = [k \in Carriers |-> 0] /\ armed' = {} /\ finalizing' = {}
    /\ script' = [t \in Tasks |-> <<>>]
    /\ link' = [c \in Conns |-> IF c \in Used THEN "down" ELSE "none"]
    /\ sock' = [c \in Conns |-> IF c \in Used THEN "closed" ELSE "none"]
    /\ cstate' = [c \in Conns |-> IF c \in Used THEN "closed" ELSE "none"]
    /\ att' = [c \in Conns |-> IF att[c] = "none" THEN "none" ELSE "closed"]
    /\ lost' = lost \cup {c \in Used : {dev[c], trn[c], arow[c]} \cap {"active"} # {}}
    /\ stale' = IF "online" \in {budRow, told} THEN stale \cup {"crash"} ELSE stale
    /\ UNCHANGED <<daemon, kind, dev, trn, arow, budRow, told>>

RunItem(t) == RunRow(t) \/ RunPresence(t) \/ RunCheck(t) \/ RunEnd(t) \/ RunData(t)
              \/ WsAck(t) \/ GrpcAck(t)

Closes(c) == WsClose(c) \/ GrpcClose(c)
TimesOut(c) == WsTimeout(c) \/ GrpcTimeout(c)
Advances(c) ==
    \/ WsHello(c) \/ GrpcHello(c) \/ WsProof(c) \/ GrpcProof(c)
    \/ WsRegister(c) \/ GrpcRegister(c) \/ WsSchedule(c)
    \/ HandleAttach(c) \/ DataClose(c)
DaemonActs ==
    \/ ConnectOnceGrpc \/ ConnectOnceWebSocket
    \/ RunSessionEnds \/ RunGrpcSessionEnds \/ HandshakeFails

SessionNext ==
    \/ DaemonActs \/ Crash
    \/ \E c \in Conns : Advances(c) \/ Closes(c) \/ TimesOut(c) \/ Break(c)
    \/ \E t \in Tasks : RunItem(t)

\* What happens without a fault.  The event loop runs what is ready, a connection
\* the service ended closes, a silent one is timed out, and the daemon notices a
\* dead connection and dials again.  All of it is finite between two faults, so
\* weak fairness of the whole runs every part of it.
SessionProgress ==
    \/ DaemonActs
    \/ \E c \in Conns :
          \/ Advances(c)
          \/ sock[c] = "ending" /\ Closes(c)
          \/ link[c] = "down" /\ TimesOut(c)
    \/ \E t \in Tasks : RunItem(t)

SessionSpec == SessionInit /\ [][SessionNext]_svars
SessionFairSpec == SessionSpec /\ WF_svars(SessionProgress)

----------------------------------------------------------------------------
(* Properties *)

\* Types, and a tracker in the map is of that carrier and its transport row is open:
\* no clean-up closes the rows of a tracker that is still the current one.
SessionTypeOK ==
    /\ daemon \in [at : {"idle", "hello", "session"}, conn : 0 .. MaxConn]
    /\ kind \in [Conns -> Carriers] /\ sessions \in [Carriers -> 0 .. MaxConn]
    /\ link \in [Conns -> {"none", "up", "down"}]
    /\ sock \in [Conns -> {"none", "open", "ending", "closed"}]
    /\ cstate \in [Conns -> {"none", "awaiting_hello", "awaiting_proof", "connected", "closed"}]
    /\ armed \subseteq Conns /\ finalizing \subseteq Conns /\ lost \subseteq Conns
    /\ \A f \in {dev, trn, arow} : f \in [Conns -> RowState]
    /\ att \in [Conns -> {"none", "up", "down", "ending", "closed"}]
    /\ {budRow, told} \subseteq {"online", "offline"}
    /\ \A k \in Carriers : sessions[k] # 0 => kind[sessions[k]] = k /\ trn[sessions[k]] = "active"

\* Every current tracker has its heartbeat timer running, or its registration has
\* not finished: a tracker registered for a socket that closed meanwhile is found.
TimerGuards ==
    \A c \in Conns : Tracked(c) /\ Current(c) =>
        c \in armed \/ script[<<c, "hello">>] # <<>>

\* The device, transport and data rows of a closed connection are closed in the end,
\* except where the code leaves them: a crash, a tracker registered after its socket
\* closed and then replaced, an attachment that outlives both of its streams.
RowsClosed ==
    \A c \in Conns : sock[c] = "closed" ~>
        (c \in lost \/ "active" \notin {dev[c], trn[c], arow[c]})

\* No handler is running and no current tracker is on a dead connection.
CleanedUp ==
    /\ \A t \in Tasks : script[t] = <<>>
    /\ \A k \in Carriers : sessions[k] # 0 => link[sessions[k]] = "up"

\* When nothing runs, bud.status and the last presence event agree with the routers,
\* unless an offline transition overlapped a registration or the service crashed; and
\* however the clean-up of one connection overlaps the registration of another,
\* bud.status does not stay online for a Bud without a connection (handleOfflineTransition,
\* handleOfflineTransitionIfNoOtherTransport, markBudOffline).
PresenceHonest ==
    CleanedUp =>
        /\ stale = {} => (budRow = "online") = Online /\ (told = "online") = Online
        /\ "crash" \notin stale => (budRow = "online" => Online)

\* A tracker that is no longer current ends with its socket closed: only one live
\* session remains, however the registrations of two connections interleave.
ReplacedEnds ==
    \A c \in Conns : Tracked(c) /\ ~Current(c) ~> sock[c] = "closed"

\* When the faults stop, the daemon ends in a session whose tracker is the current
\* one, even after a late registration of a dead connection replaced it.
Reconnects == <>[](daemon.at = "session" /\ Current(daemon.conn))

\* The Bud is marked offline only when no transport of it is online: the clean-up of
\* an ended connection checks that it is the active one.
StaleCleanupIgnored ==
    [][budRow = "online" /\ budRow' = "offline" => ~Online]_svars
============================================================================
