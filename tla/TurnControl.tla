---------------------------- MODULE TurnControl ----------------------------
(***************************************************************************)
(* The life of a thread's turns inside the service process: the executor   *)
(* enters startUserMessage, the agent flow walks from checkpoint to        *)
(* checkpoint, and the user stops it, answers its question or returns its  *)
(* browser.  What the flows share is not transactional: one abort          *)
(* controller per thread (cancellation-registry.ts), one runtime snapshot  *)
(* per thread (agent-runtime-state.ts) and one chain of promises that      *)
(* orders "thread transitions" (agent-service.ts).  A step below is what   *)
(* runs between two awaits; the invocation row's own life is               *)
(* InvocationQueue's, and appears here as far as the flows and the stop    *)
(* route read it.                                                          *)
(*                                                                         *)
(* The worker has several slots.  The rows let one invocation of a thread  *)
(* hold a lease at a time, but a flow outlives its lease: the reply to its *)
(* park may be outstanding, or its lease may have lapsed, when the same or *)
(* the next turn is claimed and runs beside it.                            *)
(***************************************************************************)
EXTENDS Naturals, Sequences

CONSTANTS TurnCount,   \* turns already admitted to the thread
          SlotCount,   \* config.agentInvocationConcurrency, as far as one thread uses it
          MaxSteps,    \* config.agentMaxSteps
          MaxTroubles  \* stops, parks, lapsed leases and failed renewals, together

TurnIds == 1..TurnCount
NoTurn == 0
Slots == 1..SlotCount
NoSlot == 0

VARIABLES job,          \* agent_invocation rows
          question,     \* the turn's agent_question_request row, if it may still matter
          turnFlow,     \* the flow in each slot of the worker
          registry,     \* AgentCancellationRegistry: whose controller is set
          runtime,      \* the turn the thread's runtime snapshot shows
          transitions,  \* withThreadTransition's chain, the head running
          stopper,      \* the request of POST /cancel in progress
          mistaken,     \* a stop of a waiting invocation aborted another one
          troubles      \* how many stops, parks, lapses and failed renewals there were

turnVars == <<job, question, turnFlow, registry, runtime, transitions, stopper, mistaken, troubles>>
stopVars == <<stopper, mistaken>>

InvocationRow ==
  [status : {"pending", "leased", "running", "waiting", "succeeded", "failed", "canceled", "needs_review"},
   cancel : BOOLEAN, wait : {"none", "question", "browser", "returned"},
   lease : Slots \cup {NoSlot}]
AgentQuestionRequestRow == {"none", "pending", "answered"}

\* Where a flow is: before its start transition, between start and clear, and after.
Unstarted == {"claimed", "entering", "queued"}
Controlled == {"opening", "dropping", "step", "streaming", "deciding", "asking",
               "ready", "noted", "running", "recording", "parking", "parked", "finishing", "writing"}
Cleared == {"catching", "ended"}
Places == {"idle"} \cup Unstarted \cup Controlled \cup Cleared
ModelReplies == {"none", "final", "tool", "question", "handoff"}
Outcomes == {"none", "succeeded", "failed", "canceled", "threw", "turned_away"}

\* A flow's controller is aborted by cancelThread ("stop") or by the worker's
\* signal, whose renewals then stay rejected ("lease").
Aborts == {"no", "stop", "lease"}

NoFlow == [turn |-> NoTurn, pc |-> "idle", aborted |-> "no", reply |-> "none",
           open |-> FALSE, steps |-> 0, outcome |-> "none"]
NoStop == [pc |-> "idle", target |-> NoTurn, chosen |-> NoTurn, waited |-> FALSE]
Admitted == [status |-> "pending", cancel |-> FALSE, wait |-> "none", lease |-> NoSlot]

TurnInit ==
  /\ job = [t \in TurnIds |-> Admitted]
  /\ question = [t \in TurnIds |-> "none"]
  /\ turnFlow = [f \in Slots |-> NoFlow]
  /\ registry = NoSlot
  /\ runtime = NoTurn
  /\ transitions = << >>
  /\ stopper = NoStop /\ mistaken = FALSE /\ troubles = 0

Reserves(t) ==
  \/ job[t].status \in {"leased", "running", "needs_review"}
  \/ job[t].status = "waiting" /\ job[t].wait = "question"
ResumableTurn(t) ==
  /\ job[t].status = "waiting"
  /\ \/ job[t].wait = "question" /\ question[t] = "answered"
     \/ job[t].wait = "returned"

\* A transition that reaches the head of the chain runs its first, synchronous
\* part in the same turn of the event loop: nothing else happens before it.
Running(kind) == transitions # << >> /\ Head(transitions).kind = kind
WithThreadTransition ==
  Running("start") \/ Running("drop") \/ (Running("cancel") /\ stopper.pc = "queued")
Awaited == ~WithThreadTransition

At(f, pc) == Awaited /\ turnFlow[f].pc = pc
\* One of the events the model bounds.
Troubled == troubles < MaxTroubles /\ troubles' = troubles + 1
RowOf(f) == job[turnFlow[f].turn]
Leased(f) == RowOf(f).lease = f
Goes(f, pc) == turnFlow' = [turnFlow EXCEPT ![f].pc = pc]
\* A flow that ends has its outcome to record, if it still has its lease.
Ends(f, o) ==
  turnFlow' = [turnFlow EXCEPT ![f] =
    IF Leased(f) THEN [@ EXCEPT !.pc = "ended", !.outcome = o, !.reply = "none", !.steps = 0] ELSE NoFlow]
Sets(f, row) == job' = [job EXCEPT ![turnFlow[f].turn] = row]

---------------------------------------------------------------------------
(* The worker claims a turn no other row of the thread blocks into a free  *)
(* slot.  Preflight may put it back; start makes it run, and closes the    *)
(* call a continuation was waiting with.                                   *)

ClaimTurn(t, f) ==
  /\ At(f, "idle") /\ \A g \in Slots : g < f => turnFlow[g].pc # "idle"
  /\ \/ job[t].status = "pending" /\ \A u \in TurnIds : u < t => job[u].status # "pending"
     \/ ResumableTurn(t)
  /\ \A u \in TurnIds \ {t} : ~Reserves(u)
  /\ job' = [job EXCEPT ![t].status = "leased", ![t].lease = f]
  /\ turnFlow' = [turnFlow EXCEPT ![f] = [NoFlow EXCEPT !.turn = t, !.pc = "claimed"]]
  /\ UNCHANGED <<question, registry, runtime, transitions, stopVars, troubles>>

Unleased(row) == [row EXCEPT !.status = IF row.wait = "none" THEN "pending" ELSE "waiting", !.lease = NoSlot]

\* A renewal, which every checkpoint awaits, succeeds.
Renews(f) == Leased(f) /\ ~RowOf(f).cancel /\ turnFlow[f].aborted # "lease"

StartInvocation(f) ==
  /\ At(f, "claimed") /\ Renews(f)
  /\ Sets(f, [RowOf(f) EXCEPT !.status = "running", !.wait = "none"])
  /\ question' = [question EXCEPT ![turnFlow[f].turn] = "none"]
  /\ Goes(f, "entering")
  /\ UNCHANGED <<registry, runtime, transitions, stopVars, troubles>>

Defer(f) ==
  /\ At(f, "claimed") /\ Renews(f)
  /\ Sets(f, Unleased(RowOf(f)))
  /\ turnFlow' = [turnFlow EXCEPT ![f] = NoFlow]
  /\ UNCHANGED <<question, registry, runtime, transitions, stopVars, troubles>>

Execute(f) ==
  /\ At(f, "entering") /\ Renews(f)
  /\ Goes(f, "queued") /\ transitions' = Append(transitions, [kind |-> "start", who |-> f])
  /\ UNCHANGED <<job, question, registry, runtime, stopVars, troubles>>

ExecuteThrows(f) ==
  /\ \E pc \in {"claimed", "entering"} : At(f, pc)
  /\ Ends(f, "threw")
  /\ UNCHANGED <<job, question, registry, runtime, transitions, stopVars, troubles>>

\* The timer's renewal fails: it finds the stop or the loss of the lease, or
\* the database failed it.
Heartbeat(f) ==
  /\ Awaited /\ turnFlow[f].turn # NoTurn /\ turnFlow[f].aborted # "lease"
  /\ IF Renews(f) THEN Troubled ELSE UNCHANGED troubles
  /\ turnFlow' = [turnFlow EXCEPT ![f].aborted = "lease"]
  /\ UNCHANGED <<job, question, registry, runtime, transitions, stopVars>>

\* A process stalls for the length of a lease, and recovery takes the row.
RecoverExpired(t) ==
  /\ Awaited /\ job[t].lease # NoSlot /\ Troubled
  /\ job' = [job EXCEPT ![t] =
       IF @.cancel THEN [@ EXCEPT !.status = "canceled", !.lease = NoSlot]
       ELSE IF @.status = "leased" THEN Unleased(@)
       ELSE [@ EXCEPT !.status = "needs_review", !.lease = NoSlot]]
  /\ UNCHANGED <<question, turnFlow, registry, runtime, transitions, stopVars>>

---------------------------------------------------------------------------
(* startUserMessage: the controller and the snapshot are set in a thread   *)
(* transition; a failure before the flow exists is undone in another.      *)

StartTransition ==
  /\ Running("start")
  /\ transitions' = Tail(transitions)
  /\ LET f == Head(transitions).who IN
     IF registry # NoSlot
       THEN Ends(f, "turned_away") /\ UNCHANGED <<registry, runtime>>
       ELSE /\ runtime' = turnFlow[f].turn
            /\ registry' = f
            /\ Goes(f, "opening")
  /\ UNCHANGED <<job, question, stopVars, troubles>>

OpenSession(f) ==
  /\ At(f, "opening")
  /\ \/ Renews(f) /\ turnFlow[f].aborted = "no" /\ Goes(f, "step") /\ UNCHANGED transitions
     \/ Goes(f, "dropping") /\ transitions' = Append(transitions, [kind |-> "drop", who |-> f])
  /\ UNCHANGED <<job, question, registry, runtime, stopVars, troubles>>

DropTransition ==
  /\ Running("drop")
  /\ transitions' = Tail(transitions)
  /\ LET f == Head(transitions).who IN
     /\ registry' = IF registry = f THEN NoSlot ELSE registry
     /\ runtime' = IF runtime = turnFlow[f].turn THEN NoTurn ELSE runtime
     /\ Ends(f, "threw")
  /\ UNCHANGED <<job, question, stopVars, troubles>>

---------------------------------------------------------------------------
(* runAgentFlow.  A throw anywhere in it reaches the catch block, whose    *)
(* synchronous part decides whether the turn was canceled and clears the   *)
(* thread's controller, whoever set it.                                    *)

Throws(f) ==
  /\ turnFlow' = [turnFlow EXCEPT ![f] = [@ EXCEPT !.pc = "catching", !.reply = "none", !.steps = 0,
                                           !.outcome = IF turnFlow[f].aborted = "no" THEN "failed" ELSE "canceled"]]
  /\ registry' = NoSlot

\* A park commits under the lease and releases it; the row waits from here on.
Waits(row, w) == [row EXCEPT !.status = "waiting", !.wait = w, !.lease = NoSlot]
ParkCommits(f, w, r) ==
  /\ Renews(f) /\ Troubled /\ Sets(f, Waits(RowOf(f), w))
  /\ turnFlow' = [turnFlow EXCEPT ![f].pc = "parked", ![f].reply = r, ![f].open = FALSE]
  /\ UNCHANGED <<question, registry, runtime, transitions, stopVars>>

\* The user took the browser: the flow parks before its next step or call,
\* without looking at its controller.
ParkForUserBrowser(f) ==
  /\ At(f, "step") \/ At(f, "deciding")
  /\ ParkCommits(f, "browser", "tool")

NextStep(f) ==
  /\ At(f, "step") /\ turnFlow[f].aborted = "no" /\ turnFlow[f].steps < MaxSteps
  /\ Goes(f, "streaming")
  /\ UNCHANGED <<job, question, registry, runtime, transitions, stopVars, troubles>>

\* The model answers (a context-window error is retried in place).
InvokeModel(f) ==
  /\ At(f, "streaming") /\ Renews(f) /\ turnFlow[f].aborted = "no"
  /\ \E r \in ModelReplies \ {"none"} :
       turnFlow' = [turnFlow EXCEPT ![f].pc = IF r = "final" THEN "finishing" ELSE "deciding", ![f].reply = r]
  /\ UNCHANGED <<job, question, registry, runtime, transitions, stopVars, troubles>>

\* The checkpoint before a call is the worker's: it does not look at the
\* controller that cancelThread aborts.
CheckpointPasses(f) ==
  /\ At(f, "deciding") /\ Renews(f)
  /\ Goes(f, IF turnFlow[f].reply = "question" THEN "asking" ELSE "ready")
  /\ UNCHANGED <<job, question, registry, runtime, transitions, stopVars, troubles>>

CreateQuestion(f) ==
  /\ At(f, "asking")
  /\ question' = [question EXCEPT ![turnFlow[f].turn] = "pending"]
  /\ Goes(f, "ready")
  /\ UNCHANGED <<job, registry, runtime, transitions, stopVars, troubles>>

BeforeTool(f) ==
  /\ At(f, "ready") /\ Renews(f)
  /\ turnFlow' = [turnFlow EXCEPT ![f].pc = "noted", ![f].open = TRUE]
  /\ UNCHANGED <<job, question, registry, runtime, transitions, stopVars, troubles>>

\* The abort test follows the reply of beforeTool, and the tool's call or the
\* park's first await follows the test, with no await in between.
MutNoAbortTest(f) ==
  /\ At(f, "noted")
  /\ Goes(f, IF turnFlow[f].reply = "tool" THEN "running" ELSE "parking")
  /\ UNCHANGED <<job, question, registry, runtime, transitions, stopVars, troubles>>
Dispatch(f) ==
  /\ At(f, "noted") /\ turnFlow[f].aborted = "no"
  /\ Goes(f, IF turnFlow[f].reply = "tool" THEN "running" ELSE "parking")
  /\ UNCHANGED <<job, question, registry, runtime, transitions, stopVars, troubles>>

ParkQuestion(f) ==
  /\ At(f, "parking") /\ turnFlow[f].reply = "question"
  /\ question[turnFlow[f].turn] \in {"pending", "answered"}
  /\ ParkCommits(f, "question", "question")

\* A handoff the model asked for, or a tool that found the browser taken.
ParkHandoff(f) ==
  /\ (At(f, "parking") /\ turnFlow[f].reply = "handoff") \/ At(f, "running")
  /\ ParkCommits(f, "browser", turnFlow[f].reply)

\* The reply to the park reaches the flow: its card is shown and the thread's
\* controller cleared.  A handoff the model asked for looks at its controller
\* once more.
MutKeepsController(f) ==
  /\ At(f, "parked")
  /\ turnFlow' = [turnFlow EXCEPT ![f] = NoFlow]
  /\ UNCHANGED <<job, question, registry, runtime, transitions, stopVars, troubles>>
ParkReplies(f) ==
  /\ At(f, "parked") /\ (turnFlow[f].reply = "handoff" => turnFlow[f].aborted = "no")
  /\ registry' = NoSlot
  /\ turnFlow' = [turnFlow EXCEPT ![f] = NoFlow]
  /\ UNCHANGED <<job, question, runtime, transitions, stopVars, troubles>>

ToolReturns(f) ==
  /\ At(f, "running") /\ Renews(f) /\ turnFlow[f].aborted = "no" /\ Goes(f, "recording")
  /\ UNCHANGED <<job, question, registry, runtime, transitions, stopVars, troubles>>

ToolResultRecorded(f) ==
  /\ At(f, "recording") /\ Renews(f)
  /\ turnFlow' = [turnFlow EXCEPT ![f] = [@ EXCEPT !.pc = "step", !.steps = @ + 1, !.reply = "none", !.open = FALSE]]
  /\ UNCHANGED <<job, question, registry, runtime, transitions, stopVars, troubles>>

FinalCheckpoint(f) ==
  /\ At(f, "finishing") /\ Renews(f) /\ Goes(f, "writing")
  /\ UNCHANGED <<job, question, registry, runtime, transitions, stopVars, troubles>>

FinalRecorded(f) ==
  /\ At(f, "writing")
  /\ runtime' = NoTurn
  /\ registry' = NoSlot
  /\ Ends(f, "succeeded")
  /\ UNCHANGED <<job, question, transitions, stopVars, troubles>>

\* Any await may throw instead: a checkpoint that notices the stop or the loss
\* of the Bud, a refused transaction, a tool's error, the reply to a commit that
\* is lost.  The call after a question's row is a renewal: it throws for a
\* stopped or recovered turn by aborting the controller.
TurnThrows(f) ==
  /\ \E pc \in Controlled \ {"opening", "dropping"} : At(f, pc)
  /\ turnFlow[f].pc = "ready" /\ ~Renews(f) => turnFlow[f].aborted # "no"
  /\ Throws(f)
  /\ UNCHANGED <<job, question, runtime, transitions, stopVars, troubles>>

\* The rest of the catch block: a canceled turn's questions are canceled, the
\* outcome is told and the thread's snapshot is released.
Swept(q) == IF q = "pending" THEN "none" ELSE q
CatchFlow(f) ==
  /\ At(f, "catching")
  /\ question' = IF turnFlow[f].outcome = "canceled"
                   THEN [question EXCEPT ![turnFlow[f].turn] = Swept(@)] ELSE question
  /\ runtime' = NoTurn
  /\ Ends(f, turnFlow[f].outcome)
  /\ UNCHANGED <<job, registry, transitions, stopVars, troubles>>

\* The worker records the outcome if it still has the lease: a requested stop
\* wins, an open call and an abort nobody requested are left for review.
FinishStatus(f) ==
  IF RowOf(f).cancel THEN "canceled"
  ELSE IF turnFlow[f].open \/ turnFlow[f].outcome = "canceled" \/ turnFlow[f].aborted = "lease" THEN "needs_review"
  ELSE IF turnFlow[f].outcome = "succeeded" THEN "succeeded" ELSE "failed"

Settle(f) ==
  /\ At(f, "ended")
  /\ IF Leased(f) THEN Sets(f, [RowOf(f) EXCEPT !.status = FinishStatus(f), !.lease = NoSlot]) ELSE UNCHANGED job
  /\ turnFlow' = [turnFlow EXCEPT ![f] = NoFlow]
  /\ UNCHANGED <<question, registry, runtime, transitions, stopVars, troubles>>

---------------------------------------------------------------------------
(* The user: POST /cancel with or without an invocation, the answer to a   *)
(* question, and the return of the browser.                                *)

Open(t) == job[t].status \in {"pending", "leased", "running", "waiting", "needs_review"}

CurrentInvocation ==
  IF \E t \in TurnIds : Reserves(t) THEN CHOOSE t \in TurnIds : Reserves(t)
  ELSE IF \E t \in TurnIds : job[t].status \in {"pending", "waiting"}
    THEN CHOOSE t \in TurnIds : job[t].status \in {"pending", "waiting"}
                              /\ \A u \in TurnIds : u > t => job[u].status \notin {"pending", "waiting"}
  ELSE NoTurn

\* requestCancel: a running invocation is only marked, any other open one ends.
Canceling(row) ==
  IF row.status = "running" THEN [row EXCEPT !.cancel = TRUE]
  ELSE [row EXCEPT !.cancel = TRUE, !.status = "canceled", !.wait = "none", !.lease = NoSlot]

\* The route without an invocation looks up the current one, and cancels what
\* it found in a later transaction.
CancelRoute ==
  /\ Awaited /\ stopper.pc = "idle" /\ Troubled
  /\ stopper' = [pc |-> IF CurrentInvocation = NoTurn THEN "stamped" ELSE "chosen",
                 target |-> NoTurn, chosen |-> CurrentInvocation, waited |-> FALSE]
  /\ UNCHANGED <<job, question, turnFlow, registry, runtime, transitions, mistaken>>

RequestCancel(t, target) ==
  /\ Awaited
  /\ IF target = NoTurn THEN stopper.pc = "chosen" /\ stopper.chosen = t /\ UNCHANGED troubles
     ELSE stopper.pc = "idle" /\ Troubled
  /\ job' = IF Open(t) THEN [job EXCEPT ![t] = Canceling(@)] ELSE job
  /\ question' = IF Open(t) THEN [question EXCEPT ![t] = Swept(@)] ELSE question
  /\ stopper' = [pc |-> "stamped", target |-> target, chosen |-> t,
                 waited |-> target # NoTurn /\ job[t].status = "waiting"]
  /\ UNCHANGED <<turnFlow, registry, runtime, transitions, mistaken>>

CancelDecides ==
  /\ Awaited /\ stopper.pc = "stamped"
  /\ IF stopper.target # NoTurn /\ stopper.chosen # runtime
       THEN stopper' = NoStop /\ UNCHANGED transitions
       ELSE /\ stopper' = [stopper EXCEPT !.pc = "queued", !.chosen = NoTurn]
            /\ transitions' = Append(transitions, [kind |-> "cancel", who |-> NoTurn])
  /\ UNCHANGED <<job, question, turnFlow, registry, runtime, mistaken, troubles>>

\* cancelThread aborts whichever controller the thread has, then cancels
\* whichever of its questions are pending.
CancelThread ==
  /\ Running("cancel") /\ stopper.pc = "queued"
  /\ turnFlow' = [f \in Slots |-> IF f = registry /\ turnFlow[f].aborted = "no"
                                  THEN [turnFlow[f] EXCEPT !.aborted = "stop"] ELSE turnFlow[f]]
  /\ mistaken' = (mistaken \/ (/\ stopper.waited /\ registry # NoSlot
                               /\ turnFlow[registry].turn # stopper.target))
  /\ registry' = NoSlot
  /\ stopper' = [stopper EXCEPT !.pc = "marking"]
  /\ UNCHANGED <<job, question, runtime, transitions, troubles>>

MarkPendingAgentQuestionRequestsCanceled ==
  /\ Running("cancel") /\ stopper.pc = "marking"
  /\ question' = [t \in TurnIds |-> Swept(question[t])]
  /\ transitions' = Tail(transitions)
  /\ stopper' = NoStop
  /\ UNCHANGED <<job, turnFlow, registry, runtime, mistaken, troubles>>

SubmitQuestionResponse(t) ==
  /\ Awaited /\ question[t] = "pending"
  /\ \A i \in 1..Len(transitions) : transitions[i].kind # "answer"
  /\ transitions' = Append(transitions, [kind |-> "answer", who |-> t])
  /\ UNCHANGED <<job, question, turnFlow, registry, runtime, stopVars, troubles>>

AcceptAgentQuestionResponse ==
  /\ Running("answer")
  /\ LET t == Head(transitions).who IN
     question' = IF question[t] = "pending" THEN [question EXCEPT ![t] = "answered"] ELSE question
  /\ transitions' = Tail(transitions)
  /\ UNCHANGED <<job, turnFlow, registry, runtime, stopVars, troubles>>

BrowserReturned(t) ==
  /\ Awaited /\ job[t].status = "waiting" /\ job[t].wait = "browser"
  /\ job' = [job EXCEPT ![t].wait = "returned"]
  /\ UNCHANGED <<question, turnFlow, registry, runtime, transitions, stopVars, troubles>>

---------------------------------------------------------------------------

RunAgentFlow(f) ==
  \/ ParkForUserBrowser(f) \/ NextStep(f) \/ InvokeModel(f)
  \/ CheckpointPasses(f) \/ CreateQuestion(f) \/ BeforeTool(f)
  \/ Dispatch(f) \/ ParkQuestion(f) \/ ParkHandoff(f) \/ ParkReplies(f)
  \/ ToolReturns(f) \/ ToolResultRecorded(f) \/ FinalCheckpoint(f) \/ FinalRecorded(f)
  \/ TurnThrows(f) \/ CatchFlow(f)

ExecuteClaimed(f) ==
  \/ StartInvocation(f) \/ Defer(f) \/ Execute(f) \/ ExecuteThrows(f) \/ OpenSession(f)
  \/ RunAgentFlow(f) \/ Heartbeat(f) \/ Settle(f)

TurnNext ==
  \/ \E t \in TurnIds, f \in Slots : ClaimTurn(t, f)
  \/ \E f \in Slots : ExecuteClaimed(f)
  \/ \E t \in TurnIds : RecoverExpired(t) \/ SubmitQuestionResponse(t) \/ BrowserReturned(t)
  \/ \E t \in TurnIds, target \in TurnIds \cup {NoTurn} : target \in {t, NoTurn} /\ RequestCancel(t, target)
  \/ StartTransition \/ DropTransition
  \/ CancelRoute \/ CancelDecides \/ CancelThread
  \/ MarkPendingAgentQuestionRequestsCanceled \/ AcceptAgentQuestionResponse

TurnSpec == TurnInit /\ [][TurnNext]_turnVars

---------------------------------------------------------------------------
(* Properties.                                                             *)

TurnTypeOK ==
  /\ job \in [TurnIds -> InvocationRow] /\ question \in [TurnIds -> AgentQuestionRequestRow]
  /\ turnFlow \in [Slots -> [turn : TurnIds \cup {NoTurn}, pc : Places, aborted : Aborts, reply : ModelReplies,
                             open : BOOLEAN, steps : 0..MaxSteps, outcome : Outcomes]]
  /\ registry \in Slots \cup {NoSlot}
  /\ runtime \in TurnIds \cup {NoTurn}

\* A stop leaves no question behind: when the flows of a canceled invocation
\* have ended, none of its questions still asks for an answer, although one may
\* have been created after the stop was recorded.
StopLeavesNoQuestion ==
  \A t \in TurnIds :
    job[t].status = "canceled" /\ (\A f \in Slots : turnFlow[f].turn # t) => question[t] # "pending"

\* A thread is not blocked by a turn that is gone.  The thread's controller is
\* always one of a flow that has yet to clear it, on every path out of
\* startUserMessage and runAgentFlow, although every flow clears whatever
\* controller it finds.  And a turn that still owns its row is turned away with
\* "thread_already_active" only by a flow that no longer owns one: its park is
\* committed and the reply outstanding, or its lease was recovered.
ControllerReleased ==
  /\ registry # NoSlot => turnFlow[registry].pc \in Controlled
  /\ \A f \in Slots : turnFlow[f].pc = "queued" /\ Leased(f) /\ registry # NoSlot => ~Leased(registry)

\* Once its controller is aborted, by a stop or by the loss of its lease, a flow
\* starts no tool, begins no park for its own call, records no tool result and
\* asks the model nothing more.  What it may still do: commit a park it had
\* begun, park on a browser the user took, write a question's row (which
\* StopLeavesNoQuestion is about) and finish an answer it has.
StoppedDoesNothing ==
  [][\A f \in Slots :
       turnFlow[f].aborted # "no" /\ turnFlow'[f].turn = turnFlow[f].turn /\ turnFlow'[f].pc # turnFlow[f].pc =>
         turnFlow'[f].pc \notin {"streaming", "running", "parking", "recording"}]_turnVars

\* "Canceling an older waiting invocation does not stop a different active
\* runtime turn": cancelThread aborts only the invocation the stop was about.
StopsOnlyItsTurn == ~mistaken

\* An invocation parked on a question has a question that can be answered.
WaitAnswerable ==
  \A t \in TurnIds : job[t].status = "waiting" /\ job[t].wait = "question" =>
    question[t] \in {"pending", "answered"}
=============================================================================
