---------------------------- MODULE BrowserControl ----------------------------
(***************************************************************************)
(* Who may touch the Bud's shared browser: the agent, or a person who has  *)
(* taken it over in private.  Four places hold a part of the answer.       *)
(*                                                                         *)
(*   browser_resource   the durable intent: control state, private flag,   *)
(*                      epoch, and the exact override with its deadline;   *)
(*   BrowserControl     the service's coordinator: one exclusive operation *)
(*                      at a time, the acknowledged controller, and the    *)
(*                      sweep that gives an ended override back;           *)
(*   Authority          the daemon's fence, checked before and after every *)
(*                      page operation, which expires on its own clock;    *)
(*   BrowserBroker      the agent's cells and help requests.               *)
(*                                                                         *)
(* A request frame, the daemon's task for it and its reply are stages of   *)
(* one record.  Revisions and media fences are compared for equality only: *)
(* a holder keeps a flag that every later change clears.  The three lease  *)
(* clocks are independent, as the code says: each may run out at any time. *)
(* One workspace and one viewer; page contents, traces and media are left  *)
(* out, and every cell is a new invocation fence of the agent's.           *)
(***************************************************************************)
EXTENDS Naturals, FiniteSets

CONSTANTS
    MaxEvents      \* bound: takeovers, the agent's calls, stop or reset requests, and
                   \* failures (lost links, timeouts, restarts, Chrome exits), together

VARIABLES
    resource,    \* the browser_resource row
    sequence,    \* the browser_session row: sequence, control_epoch, boot and pending_until
    controller,  \* the acknowledged controller the coordinator caches
    busy,        \* the exclusive operation in progress
    ends,        \* endOverride calls issued and not yet committed
    candidate,   \* the sweep's row, read and not yet acted on
    requests,    \* commands from dispatch to reply; 0 is the daemon's sweep
    authority,   \* the daemon's Authority
    browser,     \* the daemon's entry, process, binding and receipts
    carrier,     \* the link, as each side sees it, and the boot the service knows
    agent,       \* the agent's call
    handoff,     \* the browser_handoff row of the agent's wait
    used         \* takeovers and events so far

serviceVars == <<controller, busy, ends, candidate>>
daemonVars == <<authority, browser>>
controlVars == <<resource, sequence, serviceVars, requests, daemonVars, carrier, agent,
                 handoff, used>>

None == 0
Sweep == 0
RequestSlots == 1 .. 4
Results == {"ok", "busy", "rejected", "interrupted", "unknown"}
Controls == {"pause", "acquire", "end", "renew"}

\* The browser_resource and browser_handoff rows.
ResourceRow == [state: {"agent", "paused", "human_private", "resume_pending"},
                private: BOOLEAN, epoch: Nat, override: Nat, ended: Nat,
                desired: {"open", "stop_pending", "reset_pending", "stopped"}]
HandoffRow == [status: {"none", "pending", "returned", "canceled"},
               kind: {"agent", "return_control"}, override: Nat]

Idle == [kind |-> "none", step |-> "", current |-> TRUE, id |-> None]
NoController == [id |-> None, conn |-> None, acted |-> FALSE]
NoRequest == [who |-> "none", cmd |-> "none", conn |-> None, epoch |-> 0,
              seq |-> [n |-> 0, control |-> 0], id |-> None, private |-> FALSE, paused |-> FALSE, current |-> TRUE,
              stage |-> "none", fresh |-> FALSE, out |-> "none"]

NoCall == [at |-> "idle", epoch |-> 0, control |-> 0, n |-> 0]
CallEnded == agent.at \in {"idle", "delivered", "stopped"}

Busy == busy.kind # "none"
Event == used.events < MaxEvents /\ used' = [used EXCEPT !.events = @ + 1]

-----------------------------------------------------------------------------
(* The transport: dispatchBrowser and receiveBrowserResult *)

Free == {r \in RequestSlots : requests[r].stage = "none"}
Slot == CHOOSE r \in Free : \A q \in Free : r <= q

\* A command carries the row's authority as it was when it was prepared.
Command(who, cmd, id, row, seq) ==
    [NoRequest EXCEPT !.who = who, !.cmd = cmd, !.conn = carrier.service, !.epoch = row.epoch,
                      !.seq = [n |-> seq.n, control |-> seq.control], !.id = id, !.private = row.private,
                      !.paused = row.state # "agent", !.stage = "sent"]

Dispatch(who, cmd, id, row, seq) ==
    /\ Free # {}
    /\ requests' = [requests EXCEPT ![Slot] = Command(who, cmd, id, row, seq)]

Awaiting(who) == {r \in RequestSlots : requests[r].who = who}

\* The frame, or the daemon's work for it, goes on without a reader.
Abandoned(q) == IF q.stage \in {"done", "lost"} THEN NoRequest ELSE [q EXCEPT !.who = "nobody"]

\* A dispatch settles once: with the reply, with "unknown" when its carrier is
\* no longer current, or with "unknown" when its deadline cancels it.
Settled(who, result) ==
    \E r \in Awaiting(who) :
        LET q == requests[r] IN
        \/ /\ q.stage = "done" /\ q.conn = carrier.service
           /\ result = q.out
           /\ requests' = [requests EXCEPT ![r] = NoRequest]
           /\ UNCHANGED used
        \/ /\ q.conn # carrier.service
           /\ result = "unknown"
           /\ requests' = [requests EXCEPT ![r] = Abandoned(@)]
           /\ UNCHANGED used
        \/ /\ q.conn = carrier.service /\ Event
           /\ result = "unknown"
           /\ requests' = [requests EXCEPT ![r] = Abandoned(@)]

-----------------------------------------------------------------------------
(* The browser_resource row *)

\* A new boot forgets the pending call.
Advanced(control) == [n |-> sequence.n + 1, control |-> sequence.control + control,
                      boot |-> carrier.boot,
                      pending |-> sequence.pending /\ sequence.boot = carrier.boot]

\* Every revision change makes the revisions that others captured stale.
Touched(row) ==
    /\ resource' = row
    /\ busy' = [busy EXCEPT !.current = FALSE]

\* Pending waits whose turn it is: every return_control wait, and a help
\* request associated with the override that ended.
ResolveHandoffs(override) ==
    handoff' = IF handoff.status = "pending"
                  /\ (handoff.kind # "agent" \/ handoff.override = override)
               THEN [handoff EXCEPT !.status = "returned"] ELSE handoff

Released(row, epochs) ==
    [row EXCEPT !.state = "agent", !.private = FALSE, !.override = None, !.epoch = @ + epochs]

\* endOverride: a late end finds another override and changes nothing.
EndedOverride(row, id) ==
    IF row.override = id /\ id # None
    THEN [row EXCEPT !.ended = id, !.override = None] ELSE row

FailControl(row) == [row EXCEPT !.state = "paused"]

EndOverride ==
    /\ \E id \in ends :
          /\ ends' = ends \ {id}
          /\ IF EndedOverride(resource, id) # resource
             THEN Touched(EndedOverride(resource, id))
             ELSE UNCHANGED <<resource, busy>>
    /\ UNCHANGED <<sequence, controller, candidate, requests, daemonVars, carrier, agent,
                   handoff, used>>

-----------------------------------------------------------------------------
(* Taking over: acquire, pause, acquireSession, transition *)

Live(c) == c.id # None /\ c.conn = carrier.service

MutMarksNothing(kind, cmd, state, id) ==
    LET row == [resource EXCEPT !.state = state, !.epoch = @ + 1]
    IN /\ resource' = row
       /\ sequence' = Advanced(1)
       /\ Dispatch("control", cmd, id, row, Advanced(1))
       /\ busy' = [kind |-> kind, step |-> cmd, current |-> TRUE, id |-> id]

\* repository.prepare for a control that advances the epoch, and its dispatch.
PrepareControl(kind, cmd, state, id) ==
    LET row == [resource EXCEPT !.state = state, !.private = @ \/ state = "human_private",
                                !.epoch = @ + 1]
    IN /\ resource' = row
       /\ sequence' = Advanced(1)
       /\ Dispatch("control", cmd, id, row, Advanced(1))
       /\ busy' = [kind |-> kind, step |-> cmd, current |-> TRUE, id |-> id]

\* acquire admits a viewer's revision; acquireSession drops the old controller.
Acquire ==
    /\ ~Busy /\ used.events < MaxEvents /\ resource.desired = "open"
    /\ resource.override = None /\ ~Live(controller) /\ carrier.service # None
    /\ used' = [used EXCEPT !.takeovers = @ + 1, !.events = @ + 1]
    /\ controller' = NoController
    /\ PrepareControl("acquire", "pause", "paused", used.takeovers + 1)
    /\ UNCHANGED <<ends, candidate, daemonVars, carrier, agent, handoff>>

\* transition's second half.  A failed control drops the controller and
\* pauses the row, unless a newer decision has been made.
ControlFailed ==
    /\ controller' = NoController
    /\ resource' = IF busy.current THEN FailControl(resource) ELSE resource

\* A daemon that was only busy is asked again under a newer epoch; an
\* acknowledged pause leads to the acquisition, if the row is still its own.
PauseSettled ==
    /\ busy.step = "pause"
    /\ \E result \in Results :
          /\ Settled("control", result)
          /\ busy' = CASE result = "ok" -> [busy EXCEPT !.step = "paused"]
                       [] result = "busy" -> [busy EXCEPT !.step = "again", !.current = TRUE]
                       [] OTHER -> Idle
          /\ IF result = "ok" THEN UNCHANGED <<controller, resource>> ELSE ControlFailed
    /\ UNCHANGED <<sequence, ends, candidate, daemonVars, carrier, agent, handoff>>

PrepareNext ==
    /\ busy.step \in {"paused", "again"}
    /\ IF \/ carrier.service = None \/ ~busy.current \/ resource.desired # "open"
          \/ busy.step = "paused" /\ (sequence.boot # carrier.boot \/ resource.state # "paused")
       THEN busy' = Idle /\ UNCHANGED <<resource, sequence, requests>>
       ELSE IF busy.step = "again"
       THEN PrepareControl("acquire", "pause", "paused", busy.id)
       ELSE PrepareControl("acquire", "acquire", "human_private", busy.id)
    /\ UNCHANGED <<controller, ends, candidate, daemonVars, carrier, agent, handoff, used>>

AcquireSettled ==
    /\ busy.step = "acquire"
    /\ \E result \in Results :
          /\ Settled("control", result)
          /\ busy' = IF result = "ok" THEN [busy EXCEPT !.step = "grant"] ELSE Idle
          /\ IF result = "ok" THEN UNCHANGED <<controller, resource>> ELSE ControlFailed
    /\ UNCHANGED <<sequence, ends, candidate, daemonVars, carrier, agent, handoff>>

\* grantOverride: the exact override is installed after the acknowledged
\* fence, and a pending help request becomes associated with it.  A lease that
\* has run out by then, or a moved row or boot, leaves the row without one.
GrantOverride ==
    /\ busy.step = "grant"
    /\ \/ /\ busy.current /\ resource.state = "human_private"
          /\ carrier.service # None /\ sequence.boot = carrier.boot
          /\ resource' = [resource EXCEPT !.override = busy.id, !.ended = None]
          /\ handoff' = IF handoff.status = "pending" /\ handoff.kind = "agent"
                           /\ handoff.override = None
                        THEN [handoff EXCEPT !.override = busy.id] ELSE handoff
          /\ busy' = [busy EXCEPT !.step = "granted"]
       \/ busy' = Idle /\ UNCHANGED <<resource, handoff>>
    /\ UNCHANGED <<sequence, controller, ends, candidate, requests, daemonVars, carrier, agent,
                   used>>

\* After the commit the controller is cached, unless the carrier is gone: then
\* only the persisted deadline ends the override.
CacheController ==
    /\ busy.step = "granted"
    /\ busy' = Idle
    /\ controller' = IF carrier.service # None /\ sequence.boot = carrier.boot
                     THEN [id |-> busy.id, conn |-> carrier.service, acted |-> FALSE]
                     ELSE controller
    /\ UNCHANGED <<resource, sequence, ends, candidate, requests, daemonVars, carrier, agent,
                   handoff, used>>

-----------------------------------------------------------------------------
(* Holding the override: input, renew, release and expiry *)

FailController(id) ==
    IF controller.id = id
    THEN controller' = NoController /\ ends' = ends \union {id}
    ELSE UNCHANGED <<controller, ends>>

\* One input, or one renewal, per takeover: more repeat the same steps.
Input ==
    /\ ~Busy /\ Live(controller) /\ ~controller.acted /\ resource.override = controller.id
    /\ resource.state = "human_private" /\ resource.desired = "open"
    /\ sequence.boot = carrier.boot
    /\ controller' = [controller EXCEPT !.acted = TRUE]
    /\ sequence' = Advanced(0)
    /\ Dispatch("control", "input", controller.id, resource, Advanced(0))
    /\ busy' = [kind |-> "input", step |-> "input", current |-> TRUE, id |-> controller.id]
    /\ UNCHANGED <<resource, ends, candidate, daemonVars, carrier, agent, handoff, used>>

InputSettled ==
    /\ busy.step = "input"
    /\ busy' = Idle
    /\ \E result \in Results :
          /\ Settled("control", result)
          /\ IF result \in {"unknown", "interrupted"} THEN FailController(busy.id)
             ELSE UNCHANGED <<controller, ends>>
    /\ UNCHANGED <<resource, sequence, candidate, daemonVars, carrier, agent, handoff>>

\* Renewal runs beside every other operation.  The leases themselves are a
\* choice of the clocks, so what a renewal changes is what its failure ends.
Renew ==
    /\ Live(controller) /\ ~controller.acted /\ resource.override = controller.id
    /\ Awaiting("renew") = {}
    /\ controller' = [controller EXCEPT !.acted = TRUE]
    /\ Dispatch("renew", "renew", controller.id, resource, sequence)
    /\ UNCHANGED <<resource, sequence, busy, ends, candidate, daemonVars, carrier, agent,
                   handoff, used>>

RenewSettled ==
    /\ \E result \in {"ok", "rejected", "interrupted", "unknown"}, r \in Awaiting("renew") :
          /\ Settled("renew", result)
          /\ \E late \in BOOLEAN :
                IF result # "ok" \/ late THEN FailController(requests[r].id)
                ELSE UNCHANGED <<controller, ends>>
    /\ UNCHANGED <<resource, sequence, busy, candidate, daemonVars, carrier, agent, handoff>>

Release ==
    /\ controller.id # None /\ resource.override = controller.id
    /\ controller' = NoController
    /\ ends' = ends \union {controller.id}
    /\ UNCHANGED <<resource, sequence, busy, candidate, requests, daemonVars, carrier, agent,
                   handoff, used>>

-----------------------------------------------------------------------------
(* Giving it back: the reconciliation sweep *)

\* The sweep's first loop retires a controller whose cached lease has run out
\* or whose connection is gone.
ReconcileController ==
    /\ controller.id # None
    /\ controller' = NoController
    /\ ends' = ends \union {controller.id}
    /\ UNCHANGED <<resource, sequence, busy, candidate, requests, daemonVars, carrier, agent,
                   handoff, used>>

\* Its second loop reads the rows without an override, or with one whose
\* persisted deadline has passed, whatever operation is in progress, and acts
\* on them later.  One sweep runs at a time.
\* While Chrome is dead every end fails the same way: one such try is kept.
ReconciliationCandidates ==
    /\ candidate = <<>> /\ busy.kind # "return"
    /\ resource.desired = "open" /\ resource.state # "agent" /\ carrier.service # None
    /\ browser.chrome = "dead" => ~used.futile
    /\ candidate' = <<resource.override>>
    /\ used' = [used EXCEPT !.futile = @ \/ browser.chrome = "dead"]
    /\ UNCHANGED <<resource, sequence, controller, busy, ends, requests, daemonVars, carrier,
                   agent, handoff>>

\* reconcile for one candidate: with the browser claimed, a persisted override
\* is retired first.
Reconcile ==
    /\ candidate # <<>>
    /\ candidate' = <<>>
    /\ IF Busy THEN UNCHANGED <<resource, busy>>
       ELSE /\ resource' = EndedOverride(resource, candidate[1])
            /\ busy' = [Idle EXCEPT !.kind = "return", !.step = "retired"]
    /\ UNCHANGED <<sequence, controller, ends, requests, daemonVars, carrier, agent, handoff,
                   used>>

\* prepareEnd: the end goes out under a newer epoch if the row is open and no
\* override is left.  The new boot is recorded; the pending call is kept.
PrepareEnd ==
    LET row == [resource EXCEPT !.state = "resume_pending", !.epoch = @ + 1]
        seq == [Advanced(1) EXCEPT !.pending = sequence.pending]
    IN
    /\ busy.step = "retired"
    /\ IF carrier.service # None /\ resource.desired = "open" /\ resource.override = None
       THEN /\ resource' = row
            /\ sequence' = seq
            /\ Dispatch("control", "end", None, row, seq)
            /\ busy' = [busy EXCEPT !.step = "end", !.current = TRUE]
       ELSE busy' = Idle /\ UNCHANGED <<resource, sequence, requests>>
    /\ UNCHANGED <<controller, ends, candidate, daemonVars, carrier, agent, handoff, used>>

\* acknowledgeEnd and failEnd: both only against the row that was prepared.
EndSettled ==
    /\ busy.step = "end"
    /\ busy' = Idle
    /\ \E result \in Results :
          /\ Settled("control", result)
          /\ IF ~busy.current THEN UNCHANGED <<resource, handoff>>
             ELSE IF result = "ok"
             THEN resource' = Released(resource, 0) /\ ResolveHandoffs(resource.ended)
             ELSE resource' = FailControl(resource) /\ UNCHANGED handoff
    /\ UNCHANGED <<sequence, controller, ends, candidate, daemonVars, carrier, agent>>

-----------------------------------------------------------------------------
(* The agent's calls *)

\* broker.executeInternal: the lease is checked, the browser is ensured, and
\* only then is the cell admitted.
\* A restarted daemon gets a new generation and sequence (prepareEnsure).
StartCell ==
    LET seq == IF sequence.boot = carrier.boot THEN sequence ELSE Advanced(1) IN
    /\ CallEnded /\ carrier.service # None /\ Event
    /\ IF resource.desired # "open" \/ Busy
       THEN /\ agent' = IF Busy THEN agent ELSE [NoCall EXCEPT !.at = "stopped"]
            /\ UNCHANGED <<sequence, requests, busy>>
       ELSE /\ agent' = [agent EXCEPT !.at = "ensuring"]
            /\ sequence' = seq
            /\ Dispatch("control", "ensure", None, resource, seq)
            /\ busy' = [kind |-> "ensure", step |-> "ensure", current |-> TRUE, id |-> None]
    /\ UNCHANGED <<resource, controller, ends, candidate, daemonVars, carrier, handoff>>

\* The daemon's word that the former runtime is gone releases the captured
\* authority (acknowledgeRecovery); a row that moved on keeps its own.
EnsureSettled ==
    /\ busy.step = "ensure"
    /\ busy' = Idle
    /\ \E result \in {"ok", "replaced", "busy", "rejected", "interrupted", "unknown"} :
          /\ Settled("control", result)
          /\ LET stale == result = "replaced" /\ ~(busy.current /\ resource.desired = "open") IN
             /\ agent' = [agent EXCEPT
                   !.at = IF result \in {"ok", "replaced"} /\ ~stale
                             /\ resource.desired = "open" THEN "prepare" ELSE "idle"]
             /\ IF result = "replaced" /\ ~stale
                THEN /\ resource' = Released(resource, 1)
                     /\ ResolveHandoffs(IF resource.override # None THEN resource.override
                                        ELSE resource.ended)
                     /\ controller' = NoController
                ELSE UNCHANGED <<resource, handoff, controller>>
    /\ UNCHANGED <<sequence, ends, candidate, daemonVars, carrier>>

\* A person has the browser: the call parks with a return_control wait.  An
\* invocation has one pending wait: the insert of a second fails.
ParkForReturn ==
    /\ IF handoff.status = "pending" THEN agent' = NoCall /\ UNCHANGED handoff
       ELSE /\ agent' = [agent EXCEPT !.at = "parked"]
            /\ handoff' = [status |-> "pending", kind |-> "return_control", override |-> None]
    /\ UNCHANGED <<sequence, requests>>

\* A call whose outcome was never recorded keeps the workspace until its
\* deadline, which a restarted daemon need not wait for.
DispatchExec ==
    \/ /\ sequence' = [Advanced(1) EXCEPT !.pending = TRUE]
       /\ Dispatch("cell", "exec", None, resource, Advanced(1))
       /\ agent' = [at |-> "running", epoch |-> resource.epoch,
                    control |-> sequence.control + 1, n |-> sequence.n + 1]
    \/ /\ sequence.pending /\ sequence.boot = carrier.boot
       /\ agent' = NoCall
       /\ UNCHANGED <<sequence, requests>>

\* repository.prepare: a stopped browser refuses the call; otherwise it parks
\* or is dispatched under the row's authority, in the same transaction.
PrepareExec ==
    /\ agent.at = "prepare"
    /\ IF resource.desired # "open" \/ carrier.service = None
       THEN agent' = NoCall /\ UNCHANGED <<sequence, requests, handoff>>
       ELSE IF resource.state = "agent" /\ ~resource.private
       THEN DispatchExec /\ UNCHANGED handoff
       ELSE ParkForReturn
    /\ UNCHANGED <<resource, serviceVars, daemonVars, carrier, used>>

EvidenceAllowed ==
    /\ resource.state = "agent" /\ ~resource.private /\ resource.desired = "open"
    /\ resource.epoch = agent.epoch /\ sequence.control = agent.control

\* complete and deliver: the call is no longer pending if no later command was
\* prepared, and its output is withheld once anything moved.
CellSettled ==
    /\ agent.at = "running"
    /\ \E result \in Results :
          /\ Settled("cell", result)
          /\ agent' = [NoCall EXCEPT !.at = IF result = "ok" /\ EvidenceAllowed
                                            THEN "delivered" ELSE "idle"]
    /\ sequence' = [sequence EXCEPT !.pending = @ /\ sequence.n # agent.n]
    /\ UNCHANGED <<resource, serviceVars, daemonVars, carrier, handoff>>

\* park: the help request is recorded first, and the coordinator asked after.
RequestAgent ==
    /\ CallEnded /\ Event
    /\ resource.desired = "open" /\ resource.state = "agent" /\ handoff.status # "pending"
    /\ handoff' = [status |-> "pending", kind |-> "agent", override |-> None]
    /\ agent' = [agent EXCEPT !.at = "asking"]
    /\ UNCHANGED <<resource, sequence, serviceVars, requests, daemonVars, carrier>>

Park ==
    /\ agent.at = "asking"
    /\ agent' = IF Busy THEN NoCall
                ELSE [agent EXCEPT !.at = "parked"]
    /\ UNCHANGED <<resource, sequence, serviceVars, requests, daemonVars, carrier, handoff, used>>

\* The invocation queue resumes a call whose wait is resolved.
Resume ==
    /\ agent.at = "parked" /\ handoff.status \in {"returned", "canceled"}
    /\ agent' = [agent EXCEPT !.at = "idle"]
    /\ handoff' = [handoff EXCEPT !.status = "none"]
    /\ UNCHANGED <<resource, sequence, serviceVars, requests, daemonVars, carrier, used>>

-----------------------------------------------------------------------------
(* Stop and reset *)

LifecyclePending == resource.desired \in {"stop_pending", "reset_pending"}

\* A stopped browser may be stopped again, or reset.
RequestLifecycle ==
    /\ ~LifecyclePending /\ Event
    /\ \E desired \in {"stop_pending", "reset_pending"} :
          Touched([resource EXCEPT !.desired = desired, !.state = "paused", !.epoch = @ + 1,
                                   !.override = None])
    /\ UNCHANGED <<sequence, controller, ends, candidate, requests, daemonVars, carrier, agent,
                   handoff>>

LifecycleReconcile ==
    /\ LifecyclePending /\ carrier.service # None /\ Awaiting("stop") = {}
    /\ Dispatch("stop", IF resource.desired = "reset_pending" THEN "reset" ELSE "stop", None,
                resource, sequence)
    /\ UNCHANGED <<resource, sequence, serviceVars, daemonVars, carrier, agent, handoff, used>>

\* Completion is recorded only for the exact acknowledged request.
LifecycleSettled ==
    /\ \E result \in {"ok", "rejected", "unknown"}, r \in Awaiting("stop") :
          /\ Settled("stop", result)
          /\ IF result = "ok" /\ LifecyclePending /\ requests[r].epoch = resource.epoch
             THEN /\ Touched([resource EXCEPT !.desired = "stopped", !.override = None,
                                 !.private = @ /\ resource.desired # "reset_pending"])
                  /\ handoff' = IF handoff.status = "pending"
                                THEN [handoff EXCEPT !.status = "canceled"] ELSE handoff
             ELSE UNCHANGED <<resource, busy, handoff>>
    /\ UNCHANGED <<sequence, controller, ends, candidate, daemonVars, carrier, agent>>

-----------------------------------------------------------------------------
(* The daemon's Authority: pure steps *)

Pause(a) == [a EXCEPT !.mode = "paused", !.end = @ \/ a.controller # None, !.controller = None]
RequestEnd(a) == [Pause(a) EXCEPT !.end = TRUE]
Restore(a, q) ==
    IF q.private \/ q.paused THEN RequestEnd([a EXCEPT !.private = q.private]) ELSE a
ResumeAfterStop(epoch) ==
    [mode |-> "agent", epoch |-> epoch, controller |-> None, private |-> FALSE, end |-> FALSE]

AgentAllowed(a, q) == a.mode = "agent" /\ q.epoch >= a.epoch
HumanAllowed(a, q) == a.mode = "human" /\ q.epoch = a.epoch /\ q.id = a.controller

\* transition: refused for a stale epoch, an acquisition that was not paused
\* first, or a renewal that is not the controller's.
Transits(a, q) ==
    CASE q.cmd = "renew" -> HumanAllowed(a, q)
      [] q.cmd = "acquire" -> q.epoch > a.epoch /\ a.mode = "paused"
      [] OTHER -> q.epoch > a.epoch

Transition(a, q) ==
    CASE q.cmd = "pause" -> [Pause(a) EXCEPT !.end = FALSE, !.epoch = q.epoch]
      [] q.cmd = "acquire" -> [a EXCEPT !.mode = "human", !.controller = q.id, !.private = TRUE,
                                        !.end = FALSE, !.epoch = q.epoch]
      [] q.cmd = "end" -> [RequestEnd(a) EXCEPT !.epoch = q.epoch]
      [] OTHER -> a

\* Every fence change makes the fences that tasks captured stale.
Fenced(rs) == [r \in DOMAIN rs |-> [rs[r] EXCEPT !.fresh = FALSE]]

-----------------------------------------------------------------------------
(* The daemon's tasks: BrowserManager::execute and execute_cell *)

Holders == {"working", "launched", "restored", "reading", "sweeping"}
PageFree == \A r \in DOMAIN requests : requests[r].stage \notin Holders
CellLive == \E r \in RequestSlots : requests[r].cmd = "exec"
                             /\ requests[r].stage \in {"waiting", "cell", "reading", "read"}

\* A reply reaches the service over the connection its request came from.
Finish(q, out) ==
    IF q.who = "nobody" THEN NoRequest
    ELSE [q EXCEPT !.stage = IF q.conn = carrier.daemon THEN "done" ELSE "lost", !.out = out]

\* Admission, before any lock.  The first request of a daemon's life restores
\* the durable pause; pause and end fence at once, whatever the page is doing.
Arrive(r) ==
    LET q == requests[r]
        bound == IF browser.bound THEN authority ELSE Restore(authority, q)
        rs == IF bound = authority THEN requests ELSE Fenced(requests)
        there == [browser EXCEPT !.bound = TRUE, !.entry = TRUE]
        Stays(stage) == [rs EXCEPT ![r] = [q EXCEPT !.stage = stage]]
        Replies(out) == [rs EXCEPT ![r] = Finish(q, out)]
    IN
    /\ q.stage = "sent"
    /\ IF q.conn # carrier.daemon
       THEN requests' = [requests EXCEPT ![r] = Finish(q, "rejected")] /\ UNCHANGED daemonVars
       ELSE IF q.cmd \in {"stop", "reset"}
       THEN IF q.epoch < bound.epoch \/ (q.epoch = bound.epoch /\ browser.receipt # q.epoch)
            THEN /\ requests' = Replies("unknown") /\ authority' = bound
                 /\ browser' = [browser EXCEPT !.bound = TRUE]
            ELSE /\ requests' = Fenced(Stays("stopping"))
                 /\ authority' = [Pause(bound) EXCEPT !.epoch = q.epoch]
                 /\ browser' = [browser EXCEPT !.bound = TRUE, !.recovery = None,
                                               !.receipt = q.epoch]
       ELSE IF ~browser.entry /\ q.cmd \notin {"ensure", "pause", "end"}
       THEN /\ requests' = Replies("interrupted") /\ authority' = bound
            /\ browser' = [browser EXCEPT !.bound = TRUE]
       ELSE IF q.cmd = "renew"
       THEN /\ requests' = Replies(IF Transits(bound, q) THEN "ok" ELSE "rejected")
            /\ authority' = bound /\ browser' = there
       ELSE IF q.cmd \in {"pause", "end"}
       THEN IF ~Transits(bound, q)
            THEN requests' = Replies("rejected") /\ authority' = bound /\ browser' = there
            ELSE /\ requests' = Fenced(Stays(IF q.cmd = "pause" THEN "draining" ELSE "waiting"))
                 /\ authority' = Transition(bound, q)
                 /\ browser' = [there EXCEPT !.recovery = None]
       ELSE /\ authority' = bound /\ browser' = there
            /\ requests' = IF \/ q.cmd = "input" /\ ~HumanAllowed(bound, q)
                              \/ q.cmd = "exec" /\ ~AgentAllowed(bound, q)
                           THEN Replies("rejected")
                           ELSE IF q.cmd = "exec" /\ CellLive THEN Replies("busy")
                           ELSE Stays(IF q.cmd = "acquire" THEN "draining" ELSE "waiting")
    /\ UNCHANGED <<resource, sequence, serviceVars, carrier, agent, handoff, used>>

\* drain_repl_cells: a takeover waits for the cells, and stops one that
\* outstays its two seconds; a worker that will not stop refuses the takeover.
Drained(r) ==
    LET q == requests[r] IN
    /\ q.stage = "draining"
    /\ IF ~CellLive
       THEN requests' = [requests EXCEPT ![r].stage = "waiting"] /\ UNCHANGED used
       ELSE Event /\ requests' = [requests EXCEPT ![r] = Finish(q, "unknown")]
    /\ UNCHANGED <<resource, sequence, serviceVars, daemonVars, carrier, agent, handoff>>

\* A page that stays taken for four seconds: nothing was done.
PageBusy(r) ==
    LET q == requests[r] IN
    /\ q.stage = "waiting" /\ ~PageFree /\ Event
    /\ requests' = [requests EXCEPT ![r] = Finish(q, "busy")]
    /\ UNCHANGED <<resource, sequence, serviceVars, daemonVars, carrier, agent, handoff>>

EnsureStale(q) ==
    \/ browser.receipt # None /\ q.epoch <= authority.epoch
    \/ /\ q.epoch < authority.epoch
       /\ ~(browser.recovery = q.epoch /\ authority.epoch = q.epoch + 1)
    \/ q.seq.control < browser.control

Stale(q) == q.seq.control < browser.control \/ q.seq.n <= browser.sequence

\* With the page lock: everything that was checked before is checked again.
TakePage(r) ==
    LET q == requests[r]
        refused == IF q.conn # carrier.daemon THEN "rejected"
                   ELSE IF q.cmd = "ensure"
                   THEN IF EnsureStale(q) \/ browser.closed THEN "rejected" ELSE "none"
                   ELSE IF \/ Stale(q) \/ (browser.closed /\ q.cmd # "end")
                           \/ q.cmd = "acquire" /\ ~Transits(authority, q)
                           \/ q.cmd = "input" /\ ~HumanAllowed(authority, q)
                           \/ q.cmd = "exec" /\ ~AgentAllowed(authority, q)
                   THEN "rejected" ELSE "none"
        taken == [q EXCEPT !.stage = IF q.cmd = "exec" THEN "cell" ELSE "working",
                           !.fresh = TRUE]
    IN
    /\ q.stage = "waiting" /\ PageFree
    /\ IF refused # "none"
       THEN requests' = [requests EXCEPT ![r] = Finish(q, refused)] /\ UNCHANGED daemonVars
       ELSE /\ requests' = [(IF q.cmd = "acquire" THEN Fenced(requests) ELSE requests)
                              EXCEPT ![r] = taken]
            /\ authority' = CASE q.cmd = "acquire" -> Transition(authority, q)
                              [] q.cmd = "exec" -> [authority EXCEPT !.epoch = q.epoch]
                              [] OTHER -> authority
            /\ browser' = IF q.cmd = "ensure"
                          THEN [browser EXCEPT !.control = IF @ = 0 THEN q.seq.control ELSE @]
                          ELSE [browser EXCEPT !.control = q.seq.control, !.sequence = q.seq.n,
                                   !.recovery = IF q.cmd = "exec" THEN None ELSE @]
    /\ UNCHANGED <<resource, sequence, serviceVars, carrier, agent, handoff, used>>

\* A cancel frame, a changed connection or a failed command channel ends the
\* work in the middle; a control that failed leaves the daemon paused.
Dropped(r) ==
    LET q == requests[r] IN
    /\ q.stage \in {"waiting", "draining", "working", "launched", "restored"}
    /\ IF q.who = "nobody" \/ q.conn # carrier.daemon THEN UNCHANGED used
       ELSE q.stage # "waiting" /\ q.stage # "draining" /\ Event
    /\ IF q.cmd \in Controls /\ q.stage = "working"
       THEN /\ authority' = Pause(authority)
            /\ requests' = [Fenced(requests) EXCEPT ![r] = Finish(q, "unknown")]
       ELSE /\ requests' = [requests EXCEPT ![r] = Finish(q, "unknown")]
            /\ UNCHANGED authority
    /\ UNCHANGED <<resource, sequence, serviceVars, browser, carrier, agent, handoff>>

\* perform for controls and input.  A dead Chrome refuses them all; an end is
\* confirmed only under the epoch it was admitted with.
Perform(r) ==
    LET q == requests[r]
        ok == browser.chrome = "up" \/ (q.cmd = "end" /\ browser.chrome = "none")
    IN
    /\ q.stage = "working" /\ q.cmd \in {"pause", "acquire", "end", "input"}
    /\ CASE q.cmd = "end" /\ ok /\ authority.epoch = q.epoch ->
              /\ authority' = ResumeAfterStop(q.epoch)
              /\ requests' = [Fenced(requests) EXCEPT ![r] = Finish(q, "ok")]
         [] q.cmd # "end" /\ ok ->
              /\ requests' = [requests EXCEPT ![r] = Finish(q, "ok")]
              /\ UNCHANGED authority
         [] q.cmd = "input" /\ ~ok ->
              /\ requests' = [requests EXCEPT ![r] = Finish(q, "interrupted")]
              /\ UNCHANGED authority
         [] OTHER ->
              /\ requests' = [Fenced(requests) EXCEPT ![r] = Finish(q,
                                CASE q.cmd = "pause" -> "rejected"
                                  [] q.cmd = "acquire" -> "interrupted"
                                  [] OTHER -> "unknown")]
              /\ authority' = Pause(authority)
    /\ UNCHANGED <<resource, sequence, serviceVars, browser, carrier, agent, handoff, used>>

\* perform for an ensure: an absent or exited Chrome is replaced, and a launch
\* that completes late does not override a newer pause or stop.
EnsureLaunches(r) ==
    LET q == requests[r] IN
    /\ q.stage = "working" /\ q.cmd = "ensure"
    /\ IF browser.chrome = "up"
       THEN requests' = [requests EXCEPT ![r].stage = "launched"] /\ UNCHANGED daemonVars
       ELSE IF authority.epoch > q.epoch
       THEN /\ browser' = [browser EXCEPT !.chrome = "up"]
            /\ requests' = [requests EXCEPT ![r] = Finish(q, "unknown")]
            /\ UNCHANGED authority
       ELSE /\ browser' = [browser EXCEPT !.chrome = "up", !.receipt = None,
                                          !.recovery = q.epoch]
            /\ authority' = ResumeAfterStop(q.epoch + 1)
            /\ requests' = [Fenced(requests) EXCEPT ![r].stage = "launched"]
    /\ UNCHANGED <<resource, sequence, serviceVars, carrier, agent, handoff, used>>

\* The proof of replacement is kept until public authority is confirmed.
EnsureRestores(r) ==
    LET q == requests[r]
        pending == browser.recovery # None /\ q.epoch >= authority.epoch
        again == pending /\ (q.private \/ q.paused)
        a == IF again THEN ResumeAfterStop(q.epoch + 1) ELSE authority
        b == IF again THEN [browser EXCEPT !.recovery = q.epoch]
             ELSE IF pending THEN [browser EXCEPT !.recovery = None] ELSE browser
        replaced == b.recovery = q.epoch /\ ~a.private /\ a.mode = "agent"
    IN
    /\ q.stage = "launched"
    /\ IF browser.chrome # "up"
       THEN requests' = [requests EXCEPT ![r] = Finish(q, "interrupted")] /\ UNCHANGED daemonVars
       ELSE /\ authority' = a /\ browser' = b
            /\ requests' = [(IF again THEN Fenced(requests) ELSE requests)
                 EXCEPT ![r].stage = "restored", ![r].out = IF replaced THEN "replaced" ELSE "ok"]
    /\ UNCHANGED <<resource, sequence, serviceVars, carrier, agent, handoff, used>>

\* After the work: a receipt, a fence or an epoch that moved leaves the
\* outcome unknown.
EnsureReplies(r) ==
    LET q == requests[r]
        moved == \/ browser.receipt # None
                 \/ q.out = "ok" /\ ~q.fresh
                 \/ /\ q.out = "replaced"
                    /\ authority.epoch # q.epoch + 1 \/ authority.mode # "agent"
    IN
    /\ q.stage = "restored"
    /\ requests' = [requests EXCEPT ![r] = Finish(q, IF moved THEN "unknown" ELSE q.out)]
    /\ UNCHANGED <<resource, sequence, serviceVars, daemonVars, carrier, agent, handoff, used>>

\* cell_authorized and cell_operation's checks.
CellAuthorized(q) ==
    q.conn = carrier.daemon /\ AgentAllowed(authority, q) /\ q.fresh
CellCurrent(q) ==
    ~browser.closed /\ browser.control = q.seq.control /\ browser.sequence = q.seq.n

\* Every page operation of a cell takes the page anew and is authorized anew.
\* One that opens a page starts an exited Chrome again.
CellReads(r) ==
    LET q == requests[r] IN
    /\ q.stage = "cell" /\ PageFree
    /\ IF CellAuthorized(q) /\ CellCurrent(q)
       THEN /\ requests' = [requests EXCEPT ![r].stage = "reading"]
            /\ \E opens \in BOOLEAN :
                  browser' = IF opens THEN [browser EXCEPT !.chrome = "up"] ELSE browser
       ELSE requests' = [requests EXCEPT ![r].stage = "read"] /\ UNCHANGED browser
    /\ UNCHANGED <<resource, sequence, serviceVars, authority, carrier, agent, handoff, used>>

CellReadEnds(r) ==
    /\ requests[r].stage = "reading"
    /\ requests' = [requests EXCEPT ![r].stage = "read"]
    /\ UNCHANGED <<resource, sequence, serviceVars, daemonVars, carrier, agent, handoff, used>>

\* The cell's result leaves the daemon only if nothing changed hands meanwhile.
CellEnds(r) ==
    LET q == requests[r] IN
    /\ q.stage \in {"cell", "read"}
    /\ requests' = [requests EXCEPT ![r] =
                       Finish(q, IF CellAuthorized(q) /\ CellCurrent(q) THEN "ok" ELSE "unknown")]
    /\ UNCHANGED <<resource, sequence, serviceVars, daemonVars, carrier, agent, handoff, used>>

\* A stop signal, a cancel or a lost connection ends it where it is.
CellStopped(r) ==
    LET q == requests[r] IN
    /\ q.stage \in {"cell", "reading", "read"}
    /\ \/ q.who = "nobody" \/ q.conn # carrier.daemon
       \/ \E d \in RequestSlots : requests[d].stage \in {"draining", "stopping"}
    /\ requests' = [requests EXCEPT ![r] = Finish(q, "unknown")]
    /\ UNCHANGED <<resource, sequence, serviceVars, daemonVars, carrier, agent, handoff, used>>

MutPageNotAwaited(r) ==
    LET q == requests[r] IN
    /\ q.stage = "stopping" /\ ~CellLive
    /\ IF authority.epoch # q.epoch
       THEN requests' = [requests EXCEPT ![r] = Finish(q, "unknown")] /\ UNCHANGED browser
       ELSE /\ requests' = [requests EXCEPT ![r] = Finish(q, "ok")]
            /\ browser' = [browser EXCEPT !.chrome = "none", !.closed = browser.entry]
    /\ UNCHANGED <<resource, sequence, serviceVars, authority, carrier, agent, handoff, used>>

\* lifecycle: with the cells stopped and the page held, Chrome is closed for
\* good under the epoch that asked for it.
LifecycleCloses(r) ==
    LET q == requests[r] IN
    /\ q.stage = "stopping" /\ ~CellLive /\ PageFree
    /\ IF authority.epoch # q.epoch
       THEN requests' = [requests EXCEPT ![r] = Finish(q, "unknown")] /\ UNCHANGED browser
       ELSE /\ requests' = [requests EXCEPT ![r] = Finish(q, "ok")]
            /\ browser' = [browser EXCEPT !.chrome = "none", !.closed = browser.entry]
    /\ UNCHANGED <<resource, sequence, serviceVars, authority, carrier, agent, handoff, used>>

\* A worker that will not stop, a page not free for twenty seconds or a Chrome
\* that will not close leaves the request unconfirmed; so does a profile that
\* cannot be reset, with Chrome closed by then.
LifecycleFails(r) ==
    LET q == requests[r] IN
    /\ q.stage = "stopping" /\ Event
    /\ requests' = [requests EXCEPT ![r] = Finish(q, "unknown")]
    /\ \/ UNCHANGED browser
       \/ /\ ~CellLive /\ PageFree /\ authority.epoch = q.epoch
          /\ \/ /\ browser.chrome = "up"
                /\ browser' = [browser EXCEPT !.chrome = "dead"]
             \/ /\ q.cmd = "reset"
                /\ browser' = [browser EXCEPT !.chrome = "none", !.closed = browser.entry]
    /\ UNCHANGED <<resource, sequence, serviceVars, authority, carrier, agent, handoff>>

-----------------------------------------------------------------------------
(* The daemon's own sweep (idle.rs) and its lease clock *)

Expire ==
    /\ authority.controller # None
    /\ authority' = RequestEnd(authority)
    /\ requests' = Fenced(requests)
    /\ UNCHANGED <<resource, sequence, serviceVars, browser, carrier, agent, handoff, used>>

EndOverrideBegins ==
    /\ authority.end /\ PageFree /\ browser.chrome # "dead"
    /\ requests' = [requests EXCEPT ![Sweep] = [NoRequest EXCEPT !.stage = "sweeping",
                                                                 !.fresh = TRUE]]
    /\ UNCHANGED <<resource, sequence, serviceVars, daemonVars, carrier, agent, handoff, used>>

\* The daemon gives control back by itself, unless the fence has moved.
EndOverrideCompletes ==
    /\ requests[Sweep].stage = "sweeping"
    /\ IF authority.end /\ requests[Sweep].fresh /\ browser.chrome # "dead"
       THEN /\ authority' = ResumeAfterStop(authority.epoch)
            /\ requests' = [Fenced(requests) EXCEPT ![Sweep] = NoRequest]
       ELSE requests' = [requests EXCEPT ![Sweep] = NoRequest] /\ UNCHANGED authority
    /\ UNCHANGED <<resource, sequence, serviceVars, browser, carrier, agent, handoff, used>>

-----------------------------------------------------------------------------
(* Links, restarts and Chrome *)

\* manager.disconnect: whoever is not the agent loses control at once.
Disconnected(a) == IF browser.entry /\ a.mode # "agent" THEN RequestEnd(a) ELSE a

DaemonDisconnects ==
    /\ carrier.daemon # None
    /\ IF carrier.service # carrier.daemon THEN UNCHANGED used ELSE Event
    /\ carrier' = [carrier EXCEPT !.daemon = None]
    /\ authority' = Disconnected(authority)
    /\ requests' = IF Disconnected(authority) = authority THEN requests ELSE Fenced(requests)
    /\ UNCHANGED <<resource, sequence, serviceVars, browser, agent, handoff>>

ServiceDisconnects ==
    /\ carrier.service # None /\ Event
    /\ carrier' = [carrier EXCEPT !.service = None]
    /\ UNCHANGED <<resource, sequence, serviceVars, requests, daemonVars, agent, handoff>>

Reconnect ==
    /\ carrier.daemon = None
    /\ carrier' = [carrier EXCEPT !.last = @ + 1, !.daemon = carrier.last + 1,
                                  !.service = carrier.last + 1,
                                  !.boot = IF carrier.restarted THEN @ + 1 ELSE @,
                                  !.restarted = FALSE]
    /\ UNCHANGED <<resource, sequence, serviceVars, requests, daemonVars, agent, handoff, used>>

FreshAuthority == ResumeAfterStop(0)
FreshBrowser == [entry |-> FALSE, control |-> 0, sequence |-> 0, closed |-> FALSE,
                 chrome |-> "none", bound |-> FALSE, recovery |-> None, receipt |-> None]

DaemonRestarts ==
    /\ Event
    /\ carrier' = [carrier EXCEPT !.daemon = None, !.restarted = TRUE]
    /\ authority' = FreshAuthority /\ browser' = FreshBrowser
    /\ requests' = [r \in DOMAIN requests |->
                       IF requests[r].stage \in {"none", "sent", "done"} THEN requests[r]
                       ELSE IF requests[r].who \in {"none", "nobody"} THEN NoRequest
                       ELSE [requests[r] EXCEPT !.stage = "lost"]]
    /\ UNCHANGED <<resource, sequence, serviceVars, agent, handoff>>

\* recover: old overrides are retired under a newer epoch; what was private
\* stays private.
ServiceRestarts ==
    /\ Event
    /\ controller' = NoController /\ busy' = Idle /\ ends' = {} /\ candidate' = <<>>
    /\ carrier' = [carrier EXCEPT !.service = None]
    /\ requests' = [r \in DOMAIN requests |-> IF requests[r].who = "none" THEN requests[r]
                                              ELSE Abandoned(requests[r])]
    /\ resource' = IF resource.desired = "open" /\ resource.state # "agent"
                   THEN [resource EXCEPT !.state = "paused", !.epoch = @ + 1, !.override = None,
                            !.ended = IF resource.override # None THEN resource.override ELSE @]
                   ELSE resource
    /\ agent' = IF agent.at = "parked" THEN agent
                ELSE NoCall
    /\ UNCHANGED <<sequence, daemonVars, handoff>>

ChromeExits ==
    /\ browser.chrome = "up" /\ Event
    /\ browser' = [browser EXCEPT !.chrome = "dead"]
    /\ UNCHANGED <<resource, sequence, serviceVars, requests, authority, carrier, agent, handoff>>

-----------------------------------------------------------------------------
\* A connected Bud whose browser has been opened, with the agent in control.
Init ==
    /\ resource = [state |-> "agent", private |-> FALSE, epoch |-> 1, override |-> None,
                   ended |-> None, desired |-> "open"]
    /\ sequence = [n |-> 1, control |-> 1, boot |-> 1, pending |-> FALSE]
    /\ controller = NoController /\ busy = Idle /\ ends = {} /\ candidate = <<>>
    /\ requests = [r \in {Sweep} \union RequestSlots |-> NoRequest]
    /\ authority = FreshAuthority
    /\ browser = [FreshBrowser EXCEPT !.entry = TRUE, !.control = 1, !.chrome = "up",
                                      !.bound = TRUE]
    /\ carrier = [service |-> 1, daemon |-> 1, last |-> 1, boot |-> 1, restarted |-> FALSE]
    /\ agent = NoCall
    /\ handoff = [status |-> "none", kind |-> "agent", override |-> None]
    /\ used = [takeovers |-> 0, events |-> 0, futile |-> FALSE]

ServiceStep ==
    \/ EndOverride \/ PauseSettled \/ PrepareNext \/ AcquireSettled \/ GrantOverride
    \/ CacheController \/ InputSettled \/ RenewSettled \/ ReconcileController \/ PrepareEnd \/ EndSettled
    \/ EnsureSettled \/ PrepareExec \/ CellSettled \/ Park \/ Resume \/ LifecycleSettled

SweepStep == ReconciliationCandidates \/ Reconcile \/ LifecycleReconcile

DaemonStep ==
    \E r \in RequestSlots :
        \/ Arrive(r) \/ Drained(r) \/ PageBusy(r) \/ TakePage(r) \/ Dropped(r) \/ Perform(r)
        \/ EnsureLaunches(r) \/ EnsureRestores(r) \/ EnsureReplies(r) \/ CellReads(r)
        \/ CellReadEnds(r) \/ CellEnds(r) \/ CellStopped(r) \/ LifecycleCloses(r)
        \/ LifecycleFails(r)

LinkStep == Reconnect \/ DaemonDisconnects

Next ==
    \/ ServiceStep \/ SweepStep \/ DaemonStep \/ LinkStep
    \/ Acquire \/ Input \/ Renew \/ Release \/ Expire
    \/ StartCell \/ RequestAgent \/ RequestLifecycle
    \/ EndOverrideBegins \/ EndOverrideCompletes
    \/ ServiceDisconnects \/ DaemonRestarts \/ ServiceRestarts \/ ChromeExits

BrowserSpec == Init /\ [][Next]_controlVars

\* Timers and message handlers run; nobody is obliged to take over, to call,
\* to stop or to fail.
BrowserFairSpec ==
    /\ BrowserSpec
    /\ WF_controlVars(ServiceStep) /\ WF_controlVars(SweepStep) /\ WF_controlVars(DaemonStep)
    /\ WF_controlVars(LinkStep)
    /\ WF_controlVars(EndOverrideCompletes)

-----------------------------------------------------------------------------
\* The states of the row, the coordinator and the daemon.
BrowserTypeOK ==
    /\ resource \in ResourceRow /\ handoff \in HandoffRow
    /\ authority.mode \in {"agent", "paused", "human"}
    /\ authority.mode = "human" <=> authority.controller # None
    /\ Cardinality({r \in DOMAIN requests : requests[r].stage \in Holders}) <= 1
    /\ resource.override # None => resource.state = "human_private" /\ resource.private

\* No page operation of the agent's runs while the durable row calls the
\* content private, and a person has the daemon only while the row says so:
\* the two sides never disagree about who may look, whatever is in flight.
PrivacyAgreed ==
    /\ \A r \in RequestSlots : requests[r].stage = "reading" => ~resource.private
    /\ authority.mode = "human" => resource.private

\* Once a stop or reset is recorded as done, no late request starts Chrome.
StopHolds == resource.desired = "stopped" => browser.chrome # "up"

\* An ended takeover gives the browser back, and every call that waited for
\* it goes on, as long as Chrome itself lives.
Returned ==
    [](resource.desired = "open" /\ resource.state # "agent"
       => <>(resource.state = "agent" \/ resource.desired # "open" \/ browser.chrome # "up"))

\* An acknowledged end resolves the help request the takeover was for: none is
\* left pending once the agent is back in control.
TakenOverIsAnswered ==
    resource.state = "agent" /\ handoff.status = "pending" => handoff.override = None

\* A stopped browser opens again when the agent is asked to use it.
StoppedReopens == agent.at = "stopped" => resource.desired # "stopped"

====
