----------------------------- MODULE WorkerPump -----------------------------
(***************************************************************************)
(* The pump of one InvocationWorker (service/src/agent/                    *)
(* invocation-worker.ts): wake, drain, schedule, start and stop.           *)
(*                                                                         *)
(* The code between two awaits runs without interruption, so one action is *)
(* the code from a resumption to the next await.  What the database does   *)
(* for an awaited call is an action of its own, and so are the catch and   *)
(* the finally callbacks of the pump promise, which are later microtasks.  *)
(*                                                                         *)
(* An invocation is ready when claim would return it.  InvocationQueue     *)
(* models what makes it so; here each is admitted once.                    *)
(***************************************************************************)
EXTENDS Integers, FiniteSets

CONSTANTS Inv,           \* invocations
          Drain,         \* identities for calls of drain()
          Concurrency,   \* slots of the worker
          MaxStops,      \* bound on calls of stop()
          MaxFailures,   \* bound on rejected repository calls
          None

ASSUME PumpAssumption ==
  /\ IsFiniteSet(Inv)
  /\ Concurrency \in Nat \ {0}
  /\ MaxStops \in Nat /\ MaxFailures \in Nat
  /\ None \notin Inv /\ None \notin Drain

VARIABLES
  stopped,         \* this.stopped
  generation,      \* this.generation
  timer,           \* this.timer is set
  wakePending,     \* this.wakePending
  maintenanceDue,  \* this.maintenanceDue
  pump,            \* this.pump is set
  drain,           \* calls of drain(): what each awaits
  active,          \* this.active: the invocations whose tasks have not settled
  stopper,         \* the call of stop(): what it awaits
  inv,             \* the invocations, as the database has them
  hints,           \* committed changes whose callback has not run yet
  told,            \* history: ready invocations wake() was called for
  failures         \* rejected repository calls so far

fields == <<stopped, generation, timer, wakePending, maintenanceDue, pump>>
vars == <<fields, drain, active, stopper, inv, hints, told, failures>>

Awaiting == {"recover", "expire", "claim"}
DrainPC == {"none", "answered", "failed", "done"} \cup Awaiting

\* No call of drain() under this identity.
NoDrain == [pc |-> "none", gen |-> 0, got |-> None]

\* No call of stop() in progress.
NoStop == [pc |-> "none", on |-> None, tasks |-> {}]

TypeOK ==
  /\ stopped \in BOOLEAN /\ timer \in BOOLEAN /\ pump \in BOOLEAN
  /\ wakePending \in BOOLEAN /\ maintenanceDue \in BOOLEAN
  /\ generation \in Nat /\ failures \in Nat
  /\ drain \in [Drain -> [pc : DrainPC, gen : Nat, got : Inv \cup {None}]]
  /\ active \in SUBSET Inv
  /\ stopper \in [pc : {"none", "pump", "settle", "tasks"}, on : Drain \cup {None},
                  tasks : SUBSET Inv]
  /\ inv \in [Inv -> {"out", "ready", "leased", "lapsed", "running", "done"}]
  /\ hints \in SUBSET Inv /\ told \in SUBSET Inv

Init ==
  /\ stopped = TRUE /\ generation = 0 /\ timer = FALSE
  /\ wakePending = FALSE /\ maintenanceDue = FALSE /\ pump = FALSE
  /\ drain = [d \in Drain |-> NoDrain]
  /\ active = {} /\ stopper = NoStop
  /\ inv = [i \in Inv |-> "out"]
  /\ hints = {} /\ told = {} /\ failures = 0

-----------------------------------------------------------------------------
(* wake and drain                                                          *)

\* A slot is free for another task.
MutOneMore(running) == Cardinality(running) <= Concurrency
HasSlot(running) == Cardinality(running) < Concurrency

\* What a turn of drain's outer loop awaits first: maintenance when it is due,
\* else a claim while a slot is free.  With neither the loop ends, because the
\* turn has just cleared wakePending.
FirstAwait(due, running) ==
  CASE due -> "recover"
    [] ~due /\ HasSlot(running) -> "claim"
    [] OTHER -> "done"

\* wake(), called when the fields are off (stopped), set (pump), due
\* (maintenanceDue), and the tasks and drains are running and calls.  A set pump
\* only takes the hint; otherwise a new drain runs to its first await.
wake(off, set, due, running, calls) ==
  \/ /\ off
     /\ pump' = set /\ drain' = calls /\ maintenanceDue' = due
     /\ UNCHANGED wakePending
  \/ /\ ~off /\ set
     /\ wakePending' = TRUE /\ pump' = set /\ drain' = calls /\ maintenanceDue' = due
  \/ /\ ~off /\ ~set
     /\ pump' = TRUE /\ wakePending' = FALSE /\ maintenanceDue' = FALSE
     /\ \E d \in Drain :
          /\ calls[d].pc = "none"
          /\ drain' = [calls EXCEPT ![d] =
               [pc |-> FirstAwait(due, running), gen |-> generation, got |-> None]]

\* The worker still runs in the generation this drain was started in.
Current(d) == ~stopped /\ drain[d].gen = generation

\* The outer loop's condition, and the next turn or the end of drain.
nextTurn(d, running) ==
  \/ /\ Current(d) /\ wakePending
     /\ wakePending' = FALSE /\ maintenanceDue' = FALSE
     /\ drain' = [drain EXCEPT ![d] =
          [@ EXCEPT !.pc = FirstAwait(maintenanceDue, running), !.got = None]]
  \/ /\ ~(Current(d) /\ wakePending)
     /\ drain' = [drain EXCEPT ![d] = [@ EXCEPT !.pc = "done", !.got = None]]
     /\ UNCHANGED <<wakePending, maintenanceDue>>

\* The inner loop's condition: claim again or leave for the outer loop.
nextClaim(d, running) ==
  \/ /\ Current(d) /\ HasSlot(running)
     /\ drain' = [drain EXCEPT ![d] = [@ EXCEPT !.pc = "claim", !.got = None]]
     /\ UNCHANGED <<wakePending, maintenanceDue>>
  \/ /\ ~(Current(d) /\ HasSlot(running))
     /\ nextTurn(d, running)

\* recoverExpired returned: lapsed leases are ready again.  expireQueued is
\* called whatever happened to the worker meanwhile.
recovered(d) ==
  /\ drain[d].pc = "recover"
  /\ inv' = [i \in Inv |-> IF inv[i] = "lapsed" THEN "ready" ELSE inv[i]]
  /\ drain' = [drain EXCEPT ![d] = [@ EXCEPT !.pc = "expire"]]
  /\ UNCHANGED <<fields, active, stopper, hints, told, failures>>

\* expireQueued returned.
expired(d) ==
  /\ drain[d].pc = "expire"
  /\ nextClaim(d, active)
  /\ UNCHANGED <<stopped, generation, timer, pump, active, stopper, inv, hints, told, failures>>

\* The database answers claim: a lease on a ready invocation, or nothing.
claim(d) ==
  /\ drain[d].pc = "claim"
  /\ \/ \E i \in Inv :
          /\ inv[i] = "ready"
          /\ inv' = [inv EXCEPT ![i] = "leased"]
          /\ drain' = [drain EXCEPT ![d] = [@ EXCEPT !.pc = "answered", !.got = i]]
     \/ /\ \A i \in Inv : inv[i] # "ready"
        /\ drain' = [drain EXCEPT ![d] = [@ EXCEPT !.pc = "answered"]]
        /\ UNCHANGED inv
  /\ UNCHANGED <<fields, active, stopper, hints, told, failures>>

\* drain resumes after claim.  It launches the task, or breaks: on an empty
\* answer, or when a stop overtook the claim, which leaves the lease to lapse.
claimed(d) ==
  LET i == drain[d].got IN
  /\ drain[d].pc = "answered"
  /\ \/ /\ i # None /\ Current(d)
        /\ active' = active \cup {i}
        /\ inv' = [inv EXCEPT ![i] = "running"]
        /\ nextClaim(d, active')
     \/ /\ ~(i # None /\ Current(d))
        /\ nextTurn(d, active)
        /\ UNCHANGED <<active, inv>>
  /\ UNCHANGED <<stopped, generation, timer, pump, stopper, hints, told, failures>>

\* A repository call rejects and drain with it.  A claim may have committed.
rejected(d) ==
  /\ drain[d].pc \in Awaiting
  /\ failures < MaxFailures
  /\ failures' = failures + 1
  /\ \/ UNCHANGED inv
     \/ /\ drain[d].pc = "claim"
        /\ \E i \in Inv : inv[i] = "ready" /\ inv' = [inv EXCEPT ![i] = "leased"]
  /\ drain' = [drain EXCEPT ![d] = [@ EXCEPT !.pc = "failed"]]
  /\ UNCHANGED <<fields, active, stopper, hints, told>>

\* The catch callback drops the hint: a failing database is not hammered.
caught(d) ==
  /\ drain[d].pc = "failed"
  /\ wakePending' = FALSE /\ told' = {}
  /\ drain' = [drain EXCEPT ![d] = [@ EXCEPT !.pc = "done"]]
  /\ UNCHANGED <<stopped, generation, timer, maintenanceDue, pump, active, stopper, inv,
                 hints, failures>>

\* What awaits the pump promise of drain d goes on.
pumpSettled(d) ==
  IF stopper.pc = "pump" /\ stopper.on = d
  THEN [stopper EXCEPT !.pc = "settle", !.on = None]
  ELSE stopper

\* The finally callback clears the pump and starts another for a hint that came
\* too late for this one.
MutNoRewake(d) ==
  /\ drain[d].pc = "done"
  /\ stopper' = pumpSettled(d)
  /\ pump' = FALSE
  /\ drain' = [drain EXCEPT ![d] = NoDrain]
  /\ UNCHANGED <<stopped, generation, timer, wakePending, maintenanceDue, active, inv, hints,
                 told, failures>>
settled(d) ==
  /\ drain[d].pc = "done"
  /\ stopper' = pumpSettled(d)
  /\ \/ /\ wakePending /\ ~stopped
        /\ wake(stopped, FALSE, maintenanceDue, active, [drain EXCEPT ![d] = NoDrain])
     \/ /\ ~(wakePending /\ ~stopped)
        /\ pump' = FALSE
        /\ drain' = [drain EXCEPT ![d] = NoDrain]
        /\ UNCHANGED <<wakePending, maintenanceDue>>
  /\ UNCHANGED <<stopped, generation, timer, active, inv, hints, told, failures>>

-----------------------------------------------------------------------------
(* The callers of wake, and stop                                           *)

start ==
  /\ stopped
  /\ stopped' = FALSE /\ timer' = TRUE
  /\ wake(FALSE, pump, TRUE, active, drain)
  /\ UNCHANGED <<generation, active, stopper, inv, hints, told, failures>>

\* The timer of schedule(): maintenance is due, wake, and set it again.
MutTickOnce ==
  /\ timer
  /\ wake(stopped, pump, TRUE, active, drain)
  /\ timer' = FALSE
  /\ UNCHANGED <<stopped, generation, active, stopper, inv, hints, told, failures>>
tick ==
  /\ timer
  /\ wake(stopped, pump, TRUE, active, drain)
  /\ timer' = ~stopped
  /\ UNCHANGED <<stopped, generation, active, stopper, inv, hints, told, failures>>

\* The committed-change callback of the server wakes the worker.
committedInvocations(i) ==
  /\ i \in hints
  /\ hints' = hints \ {i}
  /\ told' = IF stopped THEN told ELSE told \cup {i}
  /\ wake(stopped, pump, maintenanceDue, active, drain)
  /\ UNCHANGED <<stopped, generation, timer, active, stopper, inv, failures>>

\* A task settles: it leaves active and wakes the worker.
taskSettled(i) ==
  /\ i \in active
  /\ active' = active \ {i}
  /\ inv' = [inv EXCEPT ![i] = "done"]
  /\ stopper' = [stopper EXCEPT !.tasks = @ \ {i}]
  /\ wake(stopped, pump, maintenanceDue, active', drain)
  /\ UNCHANGED <<stopped, generation, timer, hints, told, failures>>

\* stop() up to its first await.
MutStopTasksOnly ==
  /\ generation < MaxStops /\ stopper.pc = "none"
  /\ generation' = generation + 1
  /\ stopped' = TRUE /\ timer' = FALSE /\ wakePending' = FALSE /\ told' = {}
  /\ stopper' = [stopper EXCEPT !.pc = "settle"]
  /\ UNCHANGED <<maintenanceDue, pump, drain, active, inv, hints, failures>>
stop ==
  /\ generation < MaxStops /\ stopper.pc = "none"
  /\ generation' = generation + 1
  /\ stopped' = TRUE /\ timer' = FALSE /\ wakePending' = FALSE /\ told' = {}
  /\ \/ /\ ~pump
        /\ stopper' = [stopper EXCEPT !.pc = "settle"]
     \/ /\ pump
        /\ \E d \in Drain : /\ drain[d].pc # "none"
                            /\ stopper' = [stopper EXCEPT !.pc = "pump", !.on = d]
  /\ UNCHANGED <<maintenanceDue, pump, drain, active, inv, hints, failures>>

\* stop() goes on after the pump: it awaits the tasks active now.
stopTasks ==
  /\ stopper.pc = "settle"
  /\ stopper' = [stopper EXCEPT !.pc = "tasks", !.tasks = active]
  /\ UNCHANGED <<fields, drain, active, inv, hints, told, failures>>

\* stop() returns.
stopReturns ==
  /\ stopper.pc = "tasks" /\ stopper.tasks = {}
  /\ stopper' = NoStop
  /\ UNCHANGED <<fields, drain, active, inv, hints, told, failures>>

-----------------------------------------------------------------------------
(* The rest of the service                                                 *)

\* An invocation is admitted: by this process, whose callback will run, or by
\* another one.
admitted(i) ==
  /\ inv[i] = "out"
  /\ inv' = [inv EXCEPT ![i] = "ready"]
  /\ hints' \in {hints, hints \cup {i}}
  /\ UNCHANGED <<fields, drain, active, stopper, told, failures>>

\* Another process claims it.
claimedElsewhere(i) ==
  /\ inv[i] = "ready"
  /\ inv' = [inv EXCEPT ![i] = "done"]
  /\ UNCHANGED <<fields, drain, active, stopper, hints, told, failures>>

\* A lease nobody renews lapses.
leaseLapses(i) ==
  /\ inv[i] = "leased"
  /\ \A d \in Drain : drain[d].got # i
  /\ inv' = [inv EXCEPT ![i] = "lapsed"]
  /\ UNCHANGED <<fields, drain, active, stopper, hints, told, failures>>

Pump(d) ==
  recovered(d) \/ expired(d) \/ claim(d) \/ claimed(d) \/ rejected(d) \/ caught(d) \/ settled(d)

Next ==
  \/ \E d \in Drain : Pump(d)
  \/ start \/ tick \/ stop \/ stopTasks \/ stopReturns
  \/ \E i \in Inv : \/ committedInvocations(i) \/ taskSettled(i)
                    \/ admitted(i) \/ claimedElsewhere(i) \/ leaseLapses(i)

Spec == Init /\ [][Next]_vars

\* The event loop runs every callback, the database answers, timers fire, and an
\* executor's turn ends (its calls have deadlines).  Nothing promises a start or
\* a stop, an admission or a failure.
Fairness ==
  /\ \A d \in Drain : WF_vars(recovered(d) \/ expired(d) \/ claim(d) \/ claimed(d)
                              \/ caught(d) \/ settled(d))
  /\ WF_vars(tick) /\ WF_vars(stopTasks) /\ WF_vars(stopReturns)
  /\ \A i \in Inv : WF_vars(committedInvocations(i)) /\ WF_vars(taskSettled(i))
                     /\ WF_vars(leaseLapses(i))

FairSpec == Spec /\ Fairness

-----------------------------------------------------------------------------
(* Properties                                                              *)

\* wake never starts a second drain beside a running one, however hints, the
\* timer, settling tasks and a restart during a stop interleave: two drains
\* would both pass the concurrency test before either adds its task.
OneDrain ==
  /\ \A d, e \in Drain : drain[d].pc # "none" /\ drain[e].pc # "none" => d = e
  /\ pump <=> \E d \in Drain : drain[d].pc # "none"

\* The concurrency limit holds although drain tests it before the await of
\* claim and adds the task after it.
WithinConcurrency == Cardinality(active) <= Concurrency

\* Both at once: the second needs the first, since a drain keeps the slot it
\* tested for only while no other drain launches tasks.
DrainDiscipline == OneDrain /\ WithinConcurrency

\* "completion refills without another timer tick": once the pump rests, a ready
\* invocation that wake was called for is not left behind unless every slot is
\* taken, and then a settling task wakes the worker.  A rejected repository call
\* and a stop drop the hints they overtake.
NoLostWake ==
  ~pump /\ ~stopped /\ HasSlot(active) => \A i \in told : inv[i] # "ready"

\* When stop() has returned and nobody restarted the worker, no drain is running
\* and no task is active, so the database can be closed under it.
StopQuiesces ==
  stopped /\ stopper.pc = "none" => active = {} /\ \A d \in Drain : drain[d].pc = "none"

\* A claim that a stop overtook launches nothing, even when the worker has been
\* started again by the time the claim returns.
OvertakenClaimDropped ==
  [][\A i \in active' \ active :
       ~stopped /\ \E d \in Drain : drain[d].got = i /\ drain[d].gen = generation]_vars

\* Every ready or abandoned invocation is executed while the worker runs: lost
\* hints, rejected calls and dropped claims are made good by the timer and by
\* lease recovery.
EventuallyRuns ==
  \A i \in Inv : inv[i] \in {"ready", "leased", "lapsed"}
                   ~> inv[i] \in {"running", "done"} \/ stopped

\* stop() returns, also when the worker is started again while it waits.
StopReturns == stopper.pc # "none" ~> stopper.pc = "none"
=============================================================================
