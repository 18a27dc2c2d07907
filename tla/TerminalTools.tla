---------------------------- MODULE TerminalTools ----------------------------
(***************************************************************************)
(* The agent's terminal tools (terminal.send, terminal.observe and         *)
(* terminal.wait) from the service's executor through the request          *)
(* dispatcher to the daemon's handlers and back:                           *)
(*                                                                         *)
(*   TerminalToolExecutor      one tool call at a time, with the reads of  *)
(*                             terminal_command rows it makes on its way;  *)
(*   TerminalRequestDispatcher the pending requests, their timers, and the *)
(*                             calls that reject them all at once;         *)
(*   TerminalManager (daemon)  one task per request, which types the       *)
(*                             gesture and waits for what it asked for;    *)
(*   run_pump (daemon)         turns the session's events into facts,      *)
(*                             wakes the waiting tasks, and only then puts *)
(*                             the event's own frame on the wire;          *)
(*   TerminalSessionManager    ingests the session's frames one at a time. *)
(*                                                                         *)
(* The pump and the request tasks run on different threads, so a request's *)
(* result may leave before the frame of the event that resolved it.        *)
(* Screens, timings and text are left out: whether a program has painted   *)
(* and gone quiet is a choice.                                             *)
(***************************************************************************)
EXTENDS Naturals, Sequences

CONSTANTS
    MaxCommands,  \* bound: commands the shell starts in one behaviour
    EventCap,     \* bound: session events waiting for the pump
    MaxCalls,     \* bound: tool calls of one behaviour
    MaxToolUpsets     \* bound: interrupts, follow-ups, exits and disconnects

ASSUME ToolBounds ==
    /\ MaxCommands \in Nat \ {0} /\ EventCap \in Nat \ {0}
    /\ MaxCalls \in Nat \ {0} /\ MaxToolUpsets \in Nat \ {0}

VARIABLES
    shell,     \* the program side: what runs, and the input not yet read
    events,    \* session events the pump has not taken
    facts,     \* the pump's facts: open command, starts seen, closed
    lag,       \* frames of the event the pump is handling, still unsent
    tasks,     \* the daemon's task for each request, from the request's frame on
    upstream,        \* frames on their way to the service, in ingest order
    pending,   \* the dispatcher's pending requests
    got,       \* what the executor's request was settled with
    call,      \* the tool call being executed
    reply,     \* the result of the latest tool call
    followUp,  \* a follow-up message has seen the agent in terminal.wait
    session,   \* the service's view: "ready", "closed" or "offline"
    commands,  \* the terminal_command rows
    outputKept,    \* commands whose output the output store holds
    toolUpsets,    \* how many upsets have happened
    made       \* how many calls have been made

shellVars == <<shell, events>>
daemonVars == <<facts, lag, tasks>>
dbVars == <<commands, outputKept>>
executorVars == <<call, reply, made>>
toolVars == <<shellVars, daemonVars, upstream, pending, got, executorVars, followUp, session,
              dbVars, toolUpsets>>

Commands == 1 .. MaxCommands
None == 0
Requests == 1 .. 2
Tools == {"send_line", "send_key", "observe", "wait"}
Sends == {"send_line", "send_key"}

Ev(e, c) == [event |-> e, cmd |-> c, error |-> "", since |-> None]
Error(e) == [event |-> "error", cmd |-> None, error |-> e, since |-> None]
Nothing == Ev("nothing", None)

\* A terminal_command row, or its absence.
CommandRow == {"absent", "open", "finished"}

NoTask == [stage |-> "none"]
Frame(t, r, o) == [type |-> t, req |-> r, out |-> o]
NoReply == [kind |-> "none", cmd |-> None, since |-> None, missing |-> FALSE, whole |-> TRUE]
Idle == [tool |-> "none", stage |-> "idle", req |-> None, open |-> FALSE, cmd |-> None,
         since |-> None]

Fresh == {r \in Requests : /\ pending[r] = "none" /\ tasks[r] = NoTask
                           /\ \A i \in 1 .. Len(upstream) : upstream[i].req # r}
NewRequest == CHOOSE r \in Fresh : \A q \in Fresh : r <= q

-----------------------------------------------------------------------------
(* The dispatcher *)

\* sendInteraction and observeTerminal: the frame is handed to the transport
\* and the request becomes pending in the same tick.
SendInteraction(r, gesture, wait) ==
    /\ pending' = [pending EXCEPT ![r] = "send"]
    /\ tasks' = [tasks EXCEPT ![r] = [stage |-> "sent", of |-> "send", gesture |-> gesture,
                                      wait |-> wait]]

ObserveTerminal(r, wait) ==
    /\ pending' = [pending EXCEPT ![r] = "observe"]
    /\ tasks' = [tasks EXCEPT ![r] = [stage |-> "sent", of |-> "observe", wait |-> wait]]

Awaited(r) == call.req = r /\ pending[r] # "none"

\* Every pending request is rejected, except the one that was just registered;
\* only the executor's own request has someone waiting.
RejectPendingRequestsForSession(except, error) ==
    /\ pending' = [r \in Requests |-> IF r = except THEN "send" ELSE "none"]
    /\ got' = IF \E r \in Requests : Awaited(r) THEN Error(error) ELSE got

\* A pending request's timer fires.
SendTimesOut ==
    /\ \E r \in Requests :
          /\ pending[r] = "send"
          /\ pending' = [pending EXCEPT ![r] = "none"]
          /\ got' = IF Awaited(r) THEN Error("send_timeout") ELSE got
    /\ UNCHANGED <<shellVars, daemonVars, upstream, executorVars, followUp, session, dbVars, toolUpsets>>

ObserveTimesOut ==
    /\ \E r \in Requests :
          /\ pending[r] = "observe"
          /\ pending' = [pending EXCEPT ![r] = "none"]
          /\ got' = IF Awaited(r) THEN Error("observe_timeout") ELSE got
    /\ UNCHANGED <<shellVars, daemonVars, upstream, executorVars, followUp, session, dbVars, toolUpsets>>

\* Mutant: a result settles the request being awaited, whichever it names.
MutAnyResult(f) ==
    LET r == IF call.req = None THEN f.req ELSE call.req IN
    /\ pending' = [pending EXCEPT ![r] = "none"]
    /\ got' = IF Awaited(r) THEN f.out ELSE got

\* A result settles the request it names, and is dropped when that request is
\* no longer pending.
HandleSendResult(f) ==
    /\ pending' = [pending EXCEPT ![f.req] = "none"]
    /\ got' = IF Awaited(f.req) THEN f.out ELSE got

HandleObserveResult(f) ==
    /\ pending' = [pending EXCEPT ![f.req] = "none"]
    /\ got' = IF Awaited(f.req) THEN f.out ELSE got

-----------------------------------------------------------------------------
(* The session's ingest queue *)

RecordCommandStarted(c) ==
    commands' = [commands EXCEPT ![c] = IF @ = "absent" THEN "open" ELSE @]

RecordCommandFinished(c) == commands' = [commands EXCEPT ![c] = "finished"]

\* child_exited: the session closes on the service and every request ends.
MarkSessionClosedLocally ==
    /\ session' = "closed"
    /\ RejectPendingRequestsForSession(None, "session_closed")

HandleTerminalEvent(f) ==
    CASE f.out.event = "command_started" ->
            RecordCommandStarted(f.out.cmd) /\ UNCHANGED <<session, pending, got>>
      [] f.out.event = "command_finished" ->
            RecordCommandFinished(f.out.cmd) /\ UNCHANGED <<session, pending, got>>
      [] f.out.event = "child_exited" ->
            MarkSessionClosedLocally /\ UNCHANGED commands

HandleTerminalOutput(f) == outputKept' = outputKept \cup {f.out.cmd}

HandleFrame(f) ==
    \/ f.type = "output" /\ HandleTerminalOutput(f) /\ UNCHANGED <<session, pending, got, commands>>
    \/ f.type = "event" /\ HandleTerminalEvent(f) /\ UNCHANGED outputKept
    \/ f.type = "send_result" /\ HandleSendResult(f) /\ UNCHANGED <<session, dbVars>>
    \/ f.type = "observe_result" /\ HandleObserveResult(f) /\ UNCHANGED <<session, dbVars>>

\* enqueueSessionIngest: the session's frames are handled one after another.
Ingest ==
    /\ upstream # << >>
    /\ upstream' = Tail(upstream)
    /\ HandleFrame(Head(upstream))
    /\ UNCHANGED <<shellVars, daemonVars, executorVars, followUp, toolUpsets>>

-----------------------------------------------------------------------------
(* The program in the terminal.  It reads typed input, prints, finishes,   *)
(* and its session reports what the markers and the screen show.           *)

Room == Len(events) < EventCap
AtPrompt == shell.prog = "prompt"
Busy == shell.prog \in {"busy", "tui"}
Raise(es) == events' = events \o es
ShellOnly == UNCHANGED <<daemonVars, upstream, pending, got, executorVars, followUp, session,
                         dbVars, toolUpsets>>

Prompt == IF shell.genuine THEN <<Ev("prompt_ready", None)>> ELSE << >>

\* What the session reports when the running program ends: without OSC 133
\* markers, only the end of a line that carried the sentinel trailer.
Ends == (IF shell.prog = "tui" THEN <<Ev("mode_shell", None)>> ELSE << >>)
        \o (IF shell.marked THEN <<Ev("command_finished", shell.started)>> ELSE << >>)
        \o Prompt

\* At a prompt a line starts a command and anything else gives a new prompt.
PromptReads ==
    /\ shell.typed # << >> /\ AtPrompt /\ Room
    /\ LET g == Head(shell.typed)
           n == shell.started + 1
       IN  IF g \in {"line", "wrapped"} /\ n <= MaxCommands
           THEN /\ shell' = [shell EXCEPT !.prog = "busy", !.typed = Tail(@), !.started = n,
                                          !.marked = shell.genuine \/ g = "wrapped"]
                /\ Raise(IF shell.genuine THEN <<Ev("command_started", n)>> ELSE << >>)
           ELSE /\ shell' = [shell EXCEPT !.typed = Tail(@)]
                /\ Raise(Prompt)
    /\ ShellOnly

\* A program swallows what is typed at it; ctrl+c ends it.
ProgramReads ==
    /\ shell.typed # << >> /\ Busy /\ Room
    /\ IF Head(shell.typed) = "ctrl+c"
       THEN shell' = [shell EXCEPT !.prog = "prompt", !.typed = Tail(@)] /\ Raise(Ends)
       ELSE shell' = [shell EXCEPT !.typed = Tail(@)] /\ UNCHANGED events
    /\ ShellOnly

ProgramPrints ==
    /\ Busy /\ shell.started \notin shell.loud /\ Room
    /\ shell' = [shell EXCEPT !.loud = @ \cup {shell.started}]
    /\ Raise(<<Ev("output", shell.started)>>)
    /\ ShellOnly

ProgramEnds ==
    /\ Busy /\ shell.typed = << >> /\ Room
    /\ shell' = [shell EXCEPT !.prog = "prompt"]
    /\ Raise(Ends)
    /\ ShellOnly

\* The program takes the whole screen, or turns bracketed paste on.
ProgramGoesInteractive ==
    /\ shell.prog = "busy" /\ Room
    /\ shell' = [shell EXCEPT !.prog = "tui"]
    /\ Raise(<<Ev("mode_changed", None)>>)
    /\ ShellOnly

-----------------------------------------------------------------------------
(* The daemon's request tasks *)

TaskOnly == UNCHANGED <<shellVars, facts, lag, upstream, pending, got, executorVars, followUp,
                        session, dbVars, toolUpsets>>
Waiting(t) == t.stage = "await"

\* The task has its outcome; since names the first command that can be its own.
Answer(t, o) ==
    [t EXCEPT !.stage = "answer",
              !.out = [o EXCEPT !.since = IF t.kind = "command" THEN t.base + 1 ELSE None]]
Refused(of, error) ==
    [stage |-> "answer", of |-> of, kind |-> "none", out |-> Error(error)]

\* resolve_auto_await: a submitted line is a command only at a shell prompt.
ResolveAutoAwait(submit) ==
    IF submit /\ facts.open = None /\ ~facts.tui THEN "command" ELSE "settled"

\* handle_send up to the input gate: refuse, or choose what to wait for.
HandleSend ==
    /\ \E r \in Requests :
          LET t == tasks[r] IN
          /\ t.stage = "sent" /\ t.of = "send"
          /\ tasks' = [tasks EXCEPT ![r] =
                IF facts.closed THEN Refused("send", "session_not_found")
                ELSE [stage |-> "gate", of |-> "send", gesture |-> t.gesture,
                      kind |-> IF t.wait = "auto" THEN ResolveAutoAwait(t.gesture = "line")
                               ELSE t.wait]]
    /\ TaskOnly

\* The rest of handle_send up to the wait: the first-prompt grace and the
\* readiness gate are over (each is bounded), the waiter subscribes, and the
\* gesture is typed under the session lock; a command for a shell that shows no
\* markers carries the sentinel trailer.
TypeGesture ==
    /\ \E r \in Requests :
          LET t == tasks[r]
              command == t.gesture = "line" /\ t.kind = "command"
          IN  /\ t.stage = "gate"
              /\ \/ /\ shell.prog = "gone"
                    /\ tasks' = [tasks EXCEPT ![r] = Refused("send", "send_failed")]
                    /\ UNCHANGED shell
                 \/ /\ shell.prog # "gone" /\ Len(shell.typed) < 2
                    /\ shell' = [shell EXCEPT !.typed =
                           Append(@, IF command /\ ~facts.genuine THEN "wrapped" ELSE t.gesture)]
                    /\ tasks' = [tasks EXCEPT ![r] =
                           [stage |-> IF t.kind = "none" THEN "answer" ELSE "await",
                            of |-> "send", kind |-> t.kind, out |-> Ev("dispatched", None),
                            marker |-> command /\ facts.genuine, started |-> {},
                            absorbed |-> FALSE, held |-> FALSE, base |-> facts.seen]]
    /\ UNCHANGED <<events, facts, lag, upstream, pending, got, executorVars, followUp, session,
                   dbVars, toolUpsets>>

\* handle_observe: an unawaited look answers at once.
HandleObserve ==
    /\ \E r \in Requests :
          LET t == tasks[r] IN
          /\ t.stage = "sent" /\ t.of = "observe"
          /\ tasks' = [tasks EXCEPT ![r] =
                IF facts.closed THEN Refused("observe", "session_not_found")
                ELSE [stage |-> IF t.wait = "none" THEN "answer" ELSE "await", of |-> "observe",
                      kind |-> t.wait, out |-> Ev("observed", None)]]
    /\ TaskOnly

\* await_outcome: what one pump event does to a task awaiting its command.
AwaitOutcome(t, e, synthetic) ==
    CASE e.event = "command_started" ->
            [t EXCEPT !.started = @ \cup {e.cmd}, !.absorbed = FALSE]
      [] e.event = "command_finished" /\ (synthetic \/ e.cmd \in t.started) -> Answer(t, e)
      [] e.event = "settled" /\ t.held -> Answer(t, Ev("interactive_started", None))
      [] e.event \in {"settled", "prompt_ready"} /\ t.started = {}
         /\ (t.marker \/ shell.prog = "tui") -> [t EXCEPT !.absorbed = TRUE]
      [] e.event = "interactive" /\ ~t.held -> [t EXCEPT !.absorbed = FALSE, !.held = TRUE]
      [] e.event = "closed" -> Answer(t, Error("CANCELED"))
      [] OTHER -> t

\* await_send_settled: any boundary ends the wait.
AwaitSendSettled(t, e) ==
    CASE e.event \in {"command_finished", "prompt_ready"} -> Answer(t, e)
      [] e.event = "closed" -> Answer(t, Error("CANCELED"))
      [] OTHER -> t

\* await_observe_outcome: likewise, and a closed session is an outcome.
AwaitObserveOutcome(t, e) ==
    IF e.event \in {"command_finished", "prompt_ready", "closed"} THEN Answer(t, e) ELSE t

\* The pump's broadcast reaches every waiting task.
Broadcast(e, synthetic) ==
    tasks' = [r \in Requests |->
        LET t == tasks[r] IN
        IF ~Waiting(t) THEN t
        ELSE IF t.of = "observe" THEN AwaitObserveOutcome(t, e)
        ELSE IF t.kind = "command" THEN AwaitOutcome(t, e, synthetic)
        ELSE AwaitSendSettled(t, e)]

\* A running program goes quiet: the pump's settled event, which only a task
\* awaiting its command reads.
SettledEvent ==
    /\ Busy /\ events = << >> /\ lag = << >>
    /\ \E r \in Requests :
          /\ Waiting(tasks[r]) /\ tasks[r].kind = "command"
          /\ tasks' = [tasks EXCEPT ![r] = AwaitOutcome(@, Ev("settled", None), FALSE)]
    /\ TaskOnly

\* The waits that end by themselves: input absorbed after its grace, a program
\* that never got ready, a quiet screen, the safety cap.
AwaitTimers ==
    /\ \E r \in Requests :
          LET t == tasks[r]
              ends == {Error("TIMEOUT")}
                      \cup (IF t.kind = "settled" THEN {Ev("settled", None)} ELSE {})
                      \cup (IF t.kind = "command" /\ t.absorbed THEN {Ev("input_absorbed", None)} ELSE {})
                      \cup (IF t.kind = "command" /\ t.held THEN {Ev("interactive_started", None)} ELSE {})
          IN  /\ Waiting(t)
              /\ \E o \in ends : tasks' = [tasks EXCEPT ![r] = Answer(t, o)]
    /\ TaskOnly

\* The task puts its result on the wire.  An observe error carries none of the
\* fields the service requires, so the service drops that frame unread.
SendResultFrame ==
    /\ \E r \in Requests :
          LET t == tasks[r] IN
          /\ t.stage = "answer"
          /\ upstream' = IF t.of = "observe" /\ t.out.event = "error" THEN upstream
                   ELSE Append(upstream, Frame(IF t.of = "send" THEN "send_result" ELSE "observe_result",
                                         r, t.out))
          /\ tasks' = [tasks EXCEPT ![r] = NoTask]
    /\ UNCHANGED <<shellVars, facts, lag, pending, got, executorVars, followUp, session,
                   dbVars, toolUpsets>>

-----------------------------------------------------------------------------
(* The pump *)

\* What the pump notes for one event, ...
PumpFacts(e) ==
    CASE e.event = "prompt_ready" -> [facts EXCEPT !.open = None, !.tui = FALSE, !.genuine = TRUE]
      [] e.event = "command_started" ->
            [facts EXCEPT !.open = e.cmd, !.tui = FALSE, !.genuine = TRUE, !.seen = e.cmd]
      [] e.event = "command_finished" -> [facts EXCEPT !.open = None, !.tui = FALSE]
      [] e.event = "mode_changed" -> [facts EXCEPT !.tui = TRUE]
      [] e.event = "mode_shell" -> [facts EXCEPT !.tui = FALSE]
      [] e.event = "child_exited" -> [facts EXCEPT !.closed = TRUE, !.tui = FALSE]
      [] OTHER -> facts

\* ... what it tells the waiting tasks, ...
PumpNotice(e) ==
    CASE e.event = "mode_changed" /\ facts.open # None -> Ev("interactive", facts.open)
      [] e.event = "child_exited" -> Ev("closed", None)
      [] OTHER -> e

\* ... and the frame it sends, where the service does more than pass it on to
\* the browser.
PumpFrames(e) ==
    CASE e.event = "output" -> <<Frame("output", None, e)>>
      [] e.event \in {"command_started", "command_finished", "child_exited"} ->
            <<Frame("event", None, e)>>
      [] OTHER -> << >>

PumpTakes ==
    /\ events # << >> /\ lag = << >> /\ session # "offline"
    /\ LET e == Head(events) IN
          /\ facts' = PumpFacts(e)
          /\ lag' = PumpFrames(e)
          /\ Broadcast(PumpNotice(e), e.event = "command_finished" /\ facts.open # e.cmd)
    /\ events' = Tail(events)
    /\ UNCHANGED <<shell, upstream, pending, got, executorVars, followUp, session, dbVars, toolUpsets>>

PumpSends ==
    /\ lag # << >>
    /\ upstream' = Append(upstream, Head(lag))
    /\ lag' = Tail(lag)
    /\ UNCHANGED <<shellVars, facts, tasks, pending, got, executorVars, followUp, session,
                   dbVars, toolUpsets>>

-----------------------------------------------------------------------------
(* The executor *)

CallOnly == UNCHANGED <<shellVars, facts, lag, upstream, followUp, session, dbVars, toolUpsets>>

\* resolveOpenCommand: the latest row, when it has not finished.
OpenCommand ==
    LET rows == {c \in Commands : commands[c] # "absent"} IN
    \E c \in rows : commands[c] = "open" /\ \A d \in rows : d <= c

\* The call's result; the read of the open command that most results end with
\* changes nothing in them that is modelled.
Ended(kind) ==
    /\ reply' = [NoReply EXCEPT !.kind = kind]
    /\ call' = Idle

\* captureDeltaProof and its likes: a look at the screen, of which the result
\* takes what it gets.
CaptureDeltaProof(kind) == Ended(kind)

\* A send whose wait ran out: a line that opened a command is reported as still
\* running, anything else as delivered.
BuildStillRunningResult == CaptureDeltaProof("still_running")

BuildSendTimeoutResult ==
    IF call.tool = "send_line" /\ OpenCommand THEN BuildStillRunningResult
    ELSE CaptureDeltaProof("ack")

\* A superseded wait ends without the look, so that the new turn can start.
BuildWaitEndedResult(how) == IF how = "superseded" THEN Ended(how) ELSE CaptureDeltaProof(how)

\* execute, executeDirective: a call starts on the thread's session; a send
\* first reads the session's open command.
Execute ==
    /\ call = Idle /\ session = "ready" /\ made < MaxCalls
    /\ \E tool \in Tools :
          call' = [Idle EXCEPT !.tool = tool, !.stage = "dispatch",
                               !.open = tool \in Sends /\ OpenCommand]
    /\ made' = made + 1
    /\ reply' = NoReply
    /\ UNCHANGED <<pending, tasks, got>>
    /\ CallOnly

\* The request each tool makes; the transport refuses when the Bud is offline.
Dispatch ==
    /\ call.stage = "dispatch"
    /\ \/ /\ session = "offline"
          /\ Ended("failed")
          /\ UNCHANGED <<pending, tasks>>
       \/ /\ session # "offline" /\ Fresh # {}
          /\ \/ /\ call.tool \in Sends
                /\ SendInteraction(NewRequest, IF call.tool = "send_line" THEN "line" ELSE "key",
                                   IF call.open THEN "settled" ELSE "auto")
             \/ call.tool = "observe" /\ ObserveTerminal(NewRequest, "none")
             \/ call.tool = "wait" /\ ObserveTerminal(NewRequest, "settled")
          /\ call' = [call EXCEPT !.stage = "waiting", !.req = NewRequest,
                                  !.since = facts.seen + 1]
          /\ UNCHANGED reply
    /\ UNCHANGED <<got, made>>
    /\ CallOnly

\* normalizeAgentTransportError: the errors that become structured results.
TransportErrors == {"bud_offline", "session_not_found", "session_closed", "agent_canceled",
                    "TIMEOUT", "observe_timeout"}
BuildTransportFailureResult ==
    IF got.error \in TransportErrors THEN Ended("failed") ELSE Ended("thrown")

\* The first command that can be the call's own: its start was seen neither when
\* the request was made nor when the line was typed.
FirstOwn(typed) == IF typed = None \/ typed > call.since THEN typed ELSE call.since

\* executeSend, once its request is settled.
ExecuteSend ==
    /\ call.stage = "waiting" /\ call.tool \in Sends
    /\ CASE got.event = "command_finished" ->
              /\ call' = [call EXCEPT !.stage = "reading", !.req = None, !.cmd = got.cmd,
                                      !.since = FirstOwn(got.since)]
              /\ UNCHANGED reply
         [] got.event = "interactive_started" -> CaptureDeltaProof("interactive")
         [] got.event = "input_absorbed" -> CaptureDeltaProof("absorbed")
         [] got.event \in {"settled", "prompt_ready", "dispatched"} -> CaptureDeltaProof("ack")
         [] got.error = "interrupted" -> Ended("interrupted")
         [] got.error = "send_timeout" -> BuildSendTimeoutResult
         [] OTHER -> BuildTransportFailureResult

ExecuteObserve ==
    /\ call.stage = "waiting" /\ call.tool = "observe"
    /\ CASE got.event = "observed" -> Ended("observed")
         [] got.error = "interrupted" -> Ended("interrupted")
         [] OTHER -> BuildTransportFailureResult

ExecuteWait ==
    /\ call.stage = "waiting" /\ call.tool = "wait"
    /\ CASE got.event # "error" -> Ended("waited")
         [] got.error \in {"interrupted", "observe_timeout"} -> BuildWaitEndedResult("waited")
         [] got.error = "superseded_by_user_message" -> BuildWaitEndedResult("superseded")
         [] OTHER -> BuildTransportFailureResult

\* The continuation of the executor's await, in the microtask that follows the
\* promise's settlement.
Continue ==
    /\ got # Nothing
    /\ ExecuteSend \/ ExecuteObserve \/ ExecuteWait
    /\ got' = Nothing
    /\ UNCHANGED <<pending, tasks, made>>
    /\ CallOnly

\* buildFinishedCommandResult: the command's row gives the range of the output
\* store that is the command's output.
BuildFinishedCommandResult ==
    /\ call.stage = "reading"
    /\ reply' = [kind |-> "completed", cmd |-> call.cmd, since |-> call.since,
                 missing |-> commands[call.cmd] = "absent",
                 whole |-> call.cmd \in outputKept \/ call.cmd \notin shell.loud]
    /\ call' = Idle
    /\ UNCHANGED <<pending, tasks, got, made>>
    /\ CallOnly

-----------------------------------------------------------------------------
(* What else can end a request *)

Upset == toolUpsets < MaxToolUpsets /\ toolUpsets' = toolUpsets + 1

\* interruptThreadTerminal: ctrl+c goes out and everything else is rejected.
InterruptThreadTerminal ==
    /\ Upset /\ session # "offline" /\ Fresh # {}
    /\ RejectPendingRequestsForSession(NewRequest, "interrupted")
    /\ tasks' = [tasks EXCEPT ![NewRequest] =
           [stage |-> "sent", of |-> "send", gesture |-> "ctrl+c", wait |-> "none"]]
    /\ UNCHANGED <<shellVars, facts, lag, upstream, executorVars, followUp, session, dbVars>>

\* supersedePendingTerminalWaitForFollowUp: the phase is checked, then, after
\* a read of the session, the thread's requests are rejected.
FollowUpArrives ==
    /\ Upset /\ ~followUp /\ call.tool = "wait"
    /\ followUp' = TRUE
    /\ UNCHANGED <<shellVars, daemonVars, upstream, pending, got, executorVars, session, dbVars>>

SupersedePendingTerminalWait ==
    /\ followUp
    /\ RejectPendingRequestsForSession(None, "superseded_by_user_message")
    /\ followUp' = FALSE
    /\ UNCHANGED <<shellVars, daemonVars, upstream, executorVars, session, dbVars, toolUpsets>>

CancelThread ==
    /\ Upset
    /\ RejectPendingRequestsForSession(None, "agent_canceled")
    /\ UNCHANGED <<shellVars, daemonVars, upstream, executorVars, followUp, session, dbVars>>

\* The daemon's connection is lost: its tasks and frames go with it, and the
\* service rejects what the Bud's sessions were waiting for.
BudDisconnects ==
    /\ Upset /\ session = "ready"
    /\ session' = "offline"
    /\ RejectPendingRequestsForSession(None, "bud_offline")
    /\ upstream' = << >> /\ lag' = << >>
    /\ tasks' = [r \in Requests |-> NoTask]
    /\ UNCHANGED <<shellVars, facts, executorVars, followUp, dbVars>>

ShellExits ==
    /\ Upset /\ shell.prog # "gone" /\ Room
    /\ shell' = [shell EXCEPT !.prog = "gone", !.typed = << >>]
    /\ Raise(<<Ev("child_exited", None)>>)
    /\ UNCHANGED <<daemonVars, upstream, pending, got, executorVars, followUp, session, dbVars>>

-----------------------------------------------------------------------------

\* An earlier call may have been given up, by its timer or a rejection: before the
\* shell has read its line ("line"), or with its result still on the way ("result").
\* That counts as an upset.
ToolInit ==
    \E markers \in BOOLEAN, left \in {"nothing", "line", "result"} :
        LET ran == IF left = "result" THEN 1 ELSE 0
            finish == [Ev("command_finished", 1) EXCEPT !.since = 1] IN
        /\ shell = [genuine |-> markers, prog |-> "prompt", started |-> ran, marked |-> ran = 1,
                    typed |-> IF left # "line" THEN << >>
                              ELSE IF markers THEN <<"line">> ELSE <<"wrapped">>,
                    loud |-> {}]
        /\ facts = [open |-> None, tui |-> FALSE, genuine |-> markers,
                    seen |-> IF markers THEN ran ELSE 0, closed |-> FALSE]
        /\ upstream = IF ran = 1 THEN <<Frame("send_result", 1, finish)>> ELSE << >>
        /\ commands = [c \in Commands |-> IF c <= ran THEN "finished" ELSE "absent"]
        /\ events = << >> /\ lag = << >>
        /\ tasks = [r \in Requests |-> NoTask]
        /\ pending = [r \in Requests |-> "none"]
        /\ got = Nothing /\ call = Idle /\ reply = NoReply
        /\ followUp = FALSE /\ session = "ready"
        /\ outputKept = {} /\ made = 0
        /\ toolUpsets = IF left = "nothing" THEN 0 ELSE 1

\* Nothing is looked at after the last call's result.
Live == call # Idle \/ made < MaxCalls

ShellNext == PromptReads \/ ProgramReads \/ ProgramPrints \/ ProgramEnds \/ ProgramGoesInteractive
DaemonNext ==
    \/ HandleSend \/ TypeGesture \/ HandleObserve \/ SettledEvent \/ AwaitTimers
    \/ SendResultFrame \/ PumpTakes \/ PumpSends
ServiceNext ==
    \/ SendTimesOut \/ ObserveTimesOut \/ Ingest \/ Dispatch \/ BuildFinishedCommandResult
    \/ SupersedePendingTerminalWait
UpsetNext ==
    InterruptThreadTerminal \/ FollowUpArrives \/ CancelThread \/ BudDisconnects \/ ShellExits

ToolNext ==
    \/ Continue
    \/ got = Nothing /\ Live /\ (ShellNext \/ DaemonNext \/ ServiceNext \/ Execute \/ UpsetNext)

ToolSpec == ToolInit /\ [][ToolNext]_toolVars

\* The daemon's runtime and the service's event loop keep running; the shell,
\* the agent and the user promise nothing.
ToolFairSpec ==
    /\ ToolSpec
    /\ WF_toolVars(Continue \/ (got = Nothing /\ Live /\ ServiceNext))
    /\ WF_toolVars(got = Nothing /\ Live /\ DaemonNext)

-----------------------------------------------------------------------------
(* Properties *)

\* Every variable has its type, and a promise the executor waits on is never
\* orphaned: while it is unsettled, the dispatcher still holds its request, so
\* its timer or a rejection will settle it.
ToolsTypeOK ==
    /\ shell.prog \in {"prompt", "busy", "tui", "gone"} /\ shell.started \in 0 .. MaxCommands
    /\ facts.open \in 0 .. MaxCommands /\ facts.seen <= shell.started
    /\ Len(events) <= EventCap + 2 /\ Len(lag) <= 1
    /\ pending \in [Requests -> {"none", "send", "observe"}]
    /\ commands \in [Commands -> CommandRow]
    /\ outputKept \subseteq shell.loud
    /\ session \in {"ready", "closed", "offline"}
    /\ call.stage = "waiting" /\ got = Nothing => pending[call.req] # "none"

\* A completed command's result has all of the command's output: the pump sends
\* the output before it wakes the waiting task, and the session's ingest queue
\* handles the result after it (run_pump, enqueueSessionIngest,
\* buildFinishedCommandResult).
OutputKept == reply.kind = "completed" /\ ~reply.missing => reply.whole

\* A line that waited for its command never completes with a command whose
\* start the daemon had already seen when the call was made, or when its line
\* was typed: a command left running by an earlier call that timed out or was
\* interrupted does not lend its exit code to the next line (await_outcome's
\* started_after_dispatch), and the late result of an earlier call is not taken
\* for the answer to the next one (handleSendResult).
FinishedIsOwn == reply.kind = "completed" => reply.cmd >= reply.since

\* Every terminal tool call returns to the agent, whatever the program, the
\* daemon or the connection does (the dispatcher's timers and rejections).
CallSettles == (call # Idle) ~> (call = Idle)

\* A completed command's result comes with its output row (agent.spec.md: "the
\* executor awaits `command_finished`, then slices the command's output from
\* the durable store").
OutputFound == reply.kind = "completed" => ~reply.missing

\* A session problem is a structured result, never an exception that fails the
\* turn (agent.spec.md: "only transport/session problems become structured
\* errors").
NeverThrown == reply.kind # "thrown"

=============================================================================
