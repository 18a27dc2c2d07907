-------------------------- MODULE InvocationQueue --------------------------
(***************************************************************************)
(* The durable agent invocation queue of the Bud service: the rows that    *)
(* agent/invocation-repository.ts keeps in PostgreSQL and the executor     *)
(* tasks of agent/invocation-worker.ts that claim, run, park and finish    *)
(* them.  Several service processes share the tables.                      *)
(*                                                                         *)
(* A repository call that locks its invocation row first is one            *)
(* transaction and one action.  claim is the exception: it locks the       *)
(* THREAD row, reads the invocation without a row lock and writes it in a  *)
(* later statement, so at READ COMMITTED other transactions commit between *)
(* its statements.  Each of its statements is an action.                   *)
(*                                                                         *)
(* Time is abstract: a lease may lapse, a retry delay end and a deadline   *)
(* pass at any moment.  A heartbeat only keeps a lease from lapsing.       *)
(***************************************************************************)
EXTENDS Naturals, FiniteSets

CONSTANTS
  Thread,       \* conversation threads
  Bud,          \* machines
  BudOf,        \* the Bud a thread belongs to
  Slot,         \* executor tasks, of all service processes
  Worker,       \* service processes (worker ids)
  WorkerOf,     \* the process a task runs in
  Call,         \* provider call ids an executor may present
  Kinds,        \* the kinds of tool call an executor may make
  Origins,      \* the origins of admitted input
  Browsers,     \* threads that have a browser workspace
  Deletable,    \* threads the owner may delete
  Delays,       \* the unavailabilities preflight may find
  Deadlines,    \* whether admitted input has a latest start time
  Cap,          \* automationConcurrencyPerBud
  MaxInv,       \* bound: admitted invocations
  MaxAttempt    \* bound: claims of one invocation

None == "none"
Inv == 1..MaxInv    \* in order of (created_at, id)
BrowserKinds == {"handoff", "return"}
AllKinds == {"tool", "question", "review"} \cup BrowserKinds

ASSUME ConstantsAssumption ==
  /\ MaxInv \in Nat /\ MaxAttempt \in Nat /\ Cap \in Nat \ {0}
  /\ Thread # {} /\ BudOf \in [Thread -> Bud]
  /\ WorkerOf \in [Slot -> Worker]
  /\ None \notin Worker /\ None \notin Thread /\ None \notin Call
  /\ Kinds \subseteq AllKinds \ {"return"}
  /\ Origins \subseteq {"human", "automation"}
  /\ Deadlines \subseteq {"none", "ahead"}
  /\ Delays \subseteq {"waiting_for_bud", "waiting_for_model", "retry_wait"}
  /\ Browsers \subseteq Thread /\ Deletable \subseteq Thread

VARIABLES
  row,      \* agent_invocation
  act,      \* agent_invocation_action, by invocation and call id
  wait,     \* the question, request, proposal or handoff row of a call
  ctl,      \* per Bud: None, or the thread whose viewer controls the browser
  closed,   \* threads whose browser workspace is closed
  gone,     \* threads that were deleted
  task,     \* what each executor task is doing
  sent      \* history: how often each call was dispatched

vars == <<row, act, wait, ctl, closed, gone, task, sent>>

Waits == {"waiting_for_bud", "waiting_for_model", "retry_wait"}
Queued == {"pending"} \cup Waits
Claimable == Queued \cup {"waiting_for_user"}
Held == {"leased", "running"}
Terminal == {"succeeded", "failed", "canceled", "expired"}
Status == {"absent", "needs_review"} \cup Claimable \cup Held \cup Terminal

\* The claim holds the thread row lock; at "grant" also the Bud's advisory lock.
LockPC == {"count", "expire", "lease", "grant"}
ClaimPC == {"scan"} \cup LockPC
ExecPC == {"preflight", "prepare", "execute", "recorded", "dispatched"}

Row == [status : Status, thread : Thread, origin : {"human", "automation"},
        reserves : BOOLEAN, fence : Nat, attempt : Nat,
        holder : Worker \cup {None}, live : BOOLEAN, cancel : BOOLEAN,
        due : BOOLEAN, deadline : {"none", "ahead", "elapsed"}]
Act == [st : {"none", "intent", "waiting", "completed"},
        kind : AllKinds, fence : Nat]
Decision == {None, "pending", "resolved", "canceled"}
Task ==
  {k \in [pc : {"idle"} \cup ClaimPC \cup ExecPC, inv : Inv \cup {0},
          fence : Nat, cands : SUBSET Inv, call : Call \cup {None}] :
     /\ k.pc \in LockPC \cup ExecPC => k.inv \in Inv
     /\ k.pc \in {"recorded", "dispatched"} => k.call \in Call}

NoRow == [status |-> "absent", thread |-> CHOOSE t \in Thread : TRUE,
          origin |-> "human", reserves |-> FALSE, fence |-> 0, attempt |-> 0,
          holder |-> None, live |-> FALSE, cancel |-> FALSE, due |-> TRUE,
          deadline |-> "none"]
NoAct == [st |-> "none", kind |-> "tool", fence |-> 0]
Idle == [pc |-> "idle", inv |-> 0, fence |-> 0, cands |-> {},
         call |-> None]

----------------------------------------------------------------------------
(* What the queries ask of the tables.                                     *)

Waiting(i) == \E c \in Call : act[i][c].st = "waiting"
hasBrowserWait(i) ==
  \E c \in Call : act[i][c].st = "waiting" /\ act[i][c].kind \in BrowserKinds
MutParkedOnly(i) == Waiting(i)
Unresolved(i) == \E c \in Call : act[i][c].st \in {"intent", "waiting"}

\* A parked continuation keeps its thread, unless it waits for a browser.
MutKeepForBrowser(i) == Waiting(i)
KeepsThread(i) == Waiting(i) /\ ~hasBrowserWait(i)

\* The latest start time has passed and nothing was started yet.
MutStartedToo(i) == row[i].deadline = "elapsed"
Overdue(i) == row[i].deadline = "elapsed" /\ ~Waiting(i)

\* The decision a waiting call needs is there: a question must be answered and
\* a handoff returned; a request or proposal may also have been refused.
MutUndecided(i, c) == TRUE
MutReviewsOnly(i, c) ==
  act[i][c].kind = "review" /\ wait[i][c] \in {"resolved", "canceled"}
DecidedCall(i, c) ==
  IF act[i][c].kind = "review" THEN wait[i][c] \in {"resolved", "canceled"}
                               ELSE wait[i][c] = "resolved"

Decided(i) ==
  \E c \in Call :
    /\ act[i][c].st = "waiting" /\ DecidedCall(i, c)
    /\ act[i][c].kind \in BrowserKinds =>
         ctl[BudOf[row[i].thread]] = None /\ row[i].thread \notin closed

Reserving(b) ==
  {j \in Inv : /\ row[j].origin = "automation" /\ row[j].reserves
               /\ BudOf[row[j].thread] = b}

MutIgnoreOthers(i) == FALSE
OtherReserves(i) ==
  \E j \in Inv \ {i} : row[j].thread = row[i].thread /\ row[j].reserves

Eligible(i) ==
  /\ \/ row[i].status \in Queued
     \/ row[i].status = "waiting_for_user" /\ Decided(i)
  /\ row[i].due /\ ~row[i].cancel /\ row[i].thread \notin gone
  /\ \/ row[i].origin = "human"
     \/ row[i].reserves
     \/ Cardinality(Reserving(BudOf[row[i].thread])) < Cap
  /\ ~OtherReserves(i)
  /\ row[i].attempt < MaxAttempt

\* Human input first, then the order of admission.
Before(i, j) ==
  \/ row[i].origin = "human" /\ row[j].origin = "automation"
  \/ row[i].origin = row[j].origin /\ i < j

MutNoThreadLock(t) == FALSE
ThreadLocked(t) ==
  \E s \in Slot : task[s].pc \in LockPC /\ row[task[s].inv].thread = t

\* The claims that hold the Bud's advisory lock.
MutNoAdvisoryLock(b) == {}
Granting(b) ==
  {s \in Slot : task[s].pc = "grant" /\ BudOf[row[task[s].inv].thread] = b}

CancelPending(w) ==
  [c \in Call |-> IF w[c] = "pending" THEN "canceled" ELSE w[c]]

\* Only the handoffs of an invocation, not its questions or requests.
CancelHandoffs(i) ==
  [c \in Call |-> IF wait[i][c] = "pending" /\ act[i][c].kind \in BrowserKinds
                  THEN "canceled" ELSE wait[i][c]]

----------------------------------------------------------------------------
(* What the update statements set.                                         *)

Admitted(r, t, o, d) ==
  [r EXCEPT !.status = "pending", !.thread = t, !.origin = o, !.deadline = d]

CancelAsked(r) == [r EXCEPT !.cancel = TRUE]

MutMisspelled(r) ==
  [r EXCEPT !.status = "cancelled", !.reserves = FALSE, !.holder = None,
            !.live = FALSE, !.fence = @ + 1, !.cancel = TRUE]
Canceled(r) ==
  [r EXCEPT !.status = "canceled", !.reserves = FALSE, !.holder = None,
            !.live = FALSE, !.fence = @ + 1, !.cancel = TRUE]

\* recoverExpired cancels without the owner having asked for it.
Ended(r) == [Canceled(r) EXCEPT !.cancel = r.cancel]

Expired(r) == [r EXCEPT !.status = "expired", !.reserves = FALSE]

Leased(r, w) ==
  [r EXCEPT !.status = "leased", !.reserves = TRUE, !.holder = w,
            !.live = TRUE, !.fence = @ + 1, !.attempt = @ + 1]

Started(r) == [r EXCEPT !.status = "running"]

\* The lease is given back, with the status and the reservation it leaves.
Released(r, st, keep) ==
  [r EXCEPT !.status = st, !.reserves = keep, !.holder = None, !.live = FALSE]

Deferred(r, w, keep) == [Released(r, w, keep) EXCEPT !.due = FALSE]

Parked(r, keep) ==
  [Released(r, "waiting_for_user", keep) EXCEPT !.fence = @ + 1]

\* Preflight may be retried; execution may not.
MutRetryRunning(r) == IF r.cancel THEN "canceled" ELSE "retry_wait"
MutForgetCancel(r) == IF r.status = "running" THEN "needs_review" ELSE "retry_wait"
RecoveredStatus(r) ==
  IF r.cancel THEN "canceled"
  ELSE IF r.status = "running" THEN "needs_review" ELSE "retry_wait"

Recovered(r, keep) ==
  [Released(r, RecoveredStatus(r), keep) EXCEPT !.fence = @ + 1, !.due = TRUE]

----------------------------------------------------------------------------
Init ==
  /\ row = [i \in Inv |-> NoRow]
  /\ act = [i \in Inv |-> [c \in Call |-> NoAct]]
  /\ wait = [i \in Inv |-> [c \in Call |-> None]]
  /\ ctl = [b \in Bud |-> None]
  /\ closed = {}
  /\ gone = {}
  /\ task = [s \in Slot |-> Idle]
  /\ sent = [i \in Inv |-> [c \in Call |-> 0]]

----------------------------------------------------------------------------
(* What the owner does: messages, stop, review, answers, browser control.  *)

\* A new human message supersedes the thread's unanswered handoff requests.
Superseded(t) ==
  {j \in Inv : /\ row[j].thread = t /\ row[j].status = "waiting_for_user"
               /\ \E c \in Call : /\ act[j][c].kind = "handoff"
                                  /\ wait[j][c] = "pending"}

admit(i, t, o, d) ==
  /\ row[i].status = "absent"
  /\ \A j \in Inv : j < i => row[j].status # "absent"
  /\ t \notin gone /\ ~ThreadLocked(t)
  /\ LET sup == IF o = "human" THEN Superseded(t) ELSE {} IN
       /\ row' = [j \in Inv |->
                    IF j = i THEN Admitted(row[j], t, o, d)
                    ELSE IF j \in sup THEN Canceled(row[j]) ELSE row[j]]
       /\ wait' = [j \in Inv |-> IF j \in sup THEN CancelPending(wait[j])
                                 ELSE wait[j]]
  /\ UNCHANGED <<act, ctl, closed, gone, task, sent>>

MutCancelAlways(i) ==
  /\ row[i].status # "absent"
  /\ row' = [row EXCEPT ![i] = Canceled(@)]
  /\ wait' = [wait EXCEPT ![i] = CancelPending(@)]
  /\ UNCHANGED <<act, ctl, closed, gone, task, sent>>

\* A running worker must acknowledge; anything else is canceled at once.
requestCancel(i) ==
  /\ row[i].status \notin Terminal \cup {"absent"}
  /\ row' = [row EXCEPT ![i] =
               IF @.status = "running" THEN CancelAsked(@) ELSE Canceled(@)]
  /\ wait' = [wait EXCEPT ![i] = CancelPending(@)]
  /\ UNCHANGED <<act, ctl, closed, gone, task, sent>>

\* The audit action it inserts has a call id of its own and is left out.
abandonReviewed(i) ==
  /\ row[i].status = "needs_review"
  /\ row[i].thread \notin gone /\ ~ThreadLocked(row[i].thread)
  /\ row' = [row EXCEPT ![i] = Canceled(@)]
  /\ wait' = [wait EXCEPT ![i] = CancelPending(@)]
  /\ UNCHANGED <<act, ctl, closed, gone, task, sent>>

\* The owner answers a question, or decides a request or proposal.
decide(i, c) ==
  /\ wait[i][c] = "pending" /\ act[i][c].kind \in {"question", "review"}
  /\ wait' = [wait EXCEPT ![i][c] = "resolved"]
  /\ UNCHANGED <<row, act, ctl, closed, gone, task, sent>>

takeControl(t) ==
  /\ ctl[BudOf[t]] = None /\ t \in Browsers \ (closed \cup gone) /\ ~ThreadLocked(t)
  /\ ctl' = [ctl EXCEPT ![BudOf[t]] = t]
  /\ UNCHANGED <<row, act, wait, closed, gone, task, sent>>

\* Ending human control resolves every pending request to return it, and the
\* handoff requests of the workspace that was taken over.
releaseAuthority(b) ==
  /\ ctl[b] # None
  /\ \A t \in Thread : BudOf[t] = b => ~ThreadLocked(t)
  /\ ctl' = [ctl EXCEPT ![b] = None]
  /\ wait' = [i \in Inv |-> [c \in Call |->
       IF /\ wait[i][c] = "pending" /\ BudOf[row[i].thread] = b
          /\ \/ act[i][c].kind = "return"
             \/ act[i][c].kind = "handoff" /\ row[i].thread = ctl[b]
       THEN IF /\ ~row[i].cancel
               /\ row[i].status \in {"running", "waiting_for_user"}
               /\ row[i].thread \notin gone \cup closed
            THEN "resolved" ELSE "canceled"
       ELSE wait[i][c]]]
  /\ UNCHANGED <<row, act, closed, gone, task, sent>>

\* Closing a workspace leaves its handoffs to recoverExpired.
requestClose(t) ==
  /\ t \in Browsers \ (closed \cup gone) /\ ~ThreadLocked(t)
  /\ closed' = closed \cup {t}
  /\ UNCHANGED <<row, act, wait, ctl, gone, task, sent>>

deleteThread(t) ==
  /\ t \in Deletable \ gone /\ ~ThreadLocked(t)
  /\ gone' = gone \cup {t}
  /\ UNCHANGED <<row, act, wait, ctl, closed, task, sent>>

----------------------------------------------------------------------------
(* claim, statement by statement.  One process claims sequentially.        *)

\* The candidate query: a snapshot, taken before any lock.
claimScan(s) ==
  /\ task[s].pc = "idle"
  /\ \A s2 \in Slot : WorkerOf[s2] = WorkerOf[s] => task[s2].pc \notin ClaimPC
  /\ \E i \in Inv : Eligible(i)
  /\ task' = [task EXCEPT ![s] = [Idle EXCEPT !.pc = "scan",
                                    !.cands = {i \in Inv : Eligible(i)}]]
  /\ UNCHANGED <<row, act, wait, ctl, closed, gone, sent>>

\* Its FOR UPDATE SKIP LOCKED clause locks the first candidate's thread; then
\* the invocation and the thread's other reservations are read again.
claimLock(s) ==
  /\ task[s].pc = "scan"
  /\ LET free == {i \in task[s].cands : /\ row[i].thread \notin gone
                                        /\ ~ThreadLocked(row[i].thread)}
     IN \/ /\ free = {}
           /\ task' = [task EXCEPT ![s] = Idle]
        \/ \E i \in free :
             /\ \A j \in free \ {i} : Before(i, j)
             /\ task' = [task EXCEPT ![s] =
                  IF \/ row[i].cancel \/ row[i].status \notin Claimable
                     \/ OtherReserves(i)
                  THEN Idle
                  ELSE [Idle EXCEPT !.inv = i, !.pc =
                    IF Overdue(i) /\ row[i].status # "waiting_for_user"
                      THEN "expire"
                    ELSE IF row[i].origin = "automation" /\ ~row[i].reserves
                      THEN "count" ELSE "lease"]]
  /\ UNCHANGED <<row, act, wait, ctl, closed, gone, sent>>

claimExpire(s) ==
  /\ task[s].pc = "expire"
  /\ row' = [row EXCEPT ![task[s].inv] = Expired(@)]
  /\ task' = [task EXCEPT ![s] = Idle]
  /\ UNCHANGED <<act, wait, ctl, closed, gone, sent>>

\* A new automation reservation: try the Bud's advisory lock, count again.
claimCount(s) ==
  /\ task[s].pc = "count"
  /\ LET b == BudOf[row[task[s].inv].thread]
     IN task' = [task EXCEPT ![s] =
                   IF Granting(b) = {} /\ Cardinality(Reserving(b)) < Cap
                   THEN [@ EXCEPT !.pc = "grant"] ELSE Idle]
  /\ UNCHANGED <<row, act, wait, ctl, closed, gone, sent>>

\* The update names the row only, whatever its status is by now.
claimLease(s) ==
  /\ task[s].pc \in {"lease", "grant"}
  /\ LET i == task[s].inv IN
       /\ row' = [row EXCEPT ![i] = Leased(@, WorkerOf[s])]
       /\ act' = [act EXCEPT ![i] = [c \in Call |->
                    IF @[c].st = "waiting"
                    THEN [@[c] EXCEPT !.fence = row[i].fence + 1] ELSE @[c]]]
       /\ task' = [task EXCEPT ![s] = [@ EXCEPT !.pc = "preflight",
                                               !.fence = row[i].fence + 1]]
  /\ UNCHANGED <<wait, ctl, closed, gone, sent>>

----------------------------------------------------------------------------
(* executeClaimed: what a task does with the lease it was given.           *)

\* lockedLease, without its check for a requested cancellation.
HoldsLease(s) ==
  LET r == row[task[s].inv] IN
  /\ r.fence = task[s].fence /\ r.holder = WorkerOf[s] /\ r.live
  /\ r.status \in Held /\ r.thread \notin gone

lockedLease(s, st) ==
  /\ HoldsLease(s)
  /\ row[task[s].inv].status = st /\ ~row[task[s].inv].cancel

\* Preflight finds the Bud, the model or the automation unavailable, or start
\* finds the automation paused.
defer(s, w) ==
  /\ task[s].pc = "preflight" /\ lockedLease(s, "leased")
  /\ LET i == task[s].inv IN
       /\ w # "waiting_for_model" => row[i].origin = "automation"
       /\ row' = [row EXCEPT ![i] = Deferred(@, w, KeepsThread(i))]
  /\ task' = [task EXCEPT ![s] = Idle]
  /\ UNCHANGED <<act, wait, ctl, closed, gone, sent>>

\* preflight says ready, the renewal after it holds, and the turn starts.
start(s) ==
  /\ task[s].pc = "preflight" /\ lockedLease(s, "leased")
  /\ ~Overdue(task[s].inv)
  /\ row' = [row EXCEPT ![task[s].inv] = Started(@)]
  /\ task' = [task EXCEPT ![s].pc = "prepare"]
  /\ UNCHANGED <<act, wait, ctl, closed, gone, sent>>

\* Every waiting call must have its decision; all are completed together.
prepareQuestionContinuation(s) ==
  /\ task[s].pc = "prepare" /\ lockedLease(s, "running")
  /\ LET i == task[s].inv IN
       /\ \A c \in Call : act[i][c].st = "waiting" => DecidedCall(i, c)
       /\ act' = [act EXCEPT ![i] = [c \in Call |->
                    IF @[c].st = "waiting"
                    THEN [@[c] EXCEPT !.st = "completed"] ELSE @[c]]]
  /\ task' = [task EXCEPT ![s].pc = "execute"]
  /\ UNCHANGED <<row, wait, ctl, closed, gone, sent>>

MutRecordAgain(s, c, k) ==
  /\ task[s].pc = "execute" /\ lockedLease(s, "running")
  /\ act' = [act EXCEPT ![task[s].inv][c] =
               [st |-> "intent", kind |-> k, fence |-> task[s].fence]]
  /\ wait' = IF k = "question" THEN [wait EXCEPT ![task[s].inv][c] = "pending"]
             ELSE wait
  /\ task' = [task EXCEPT ![s] = [@ EXCEPT !.pc = "recorded", !.call = c]]
  /\ UNCHANGED <<row, ctl, closed, gone, sent>>

\* beforeTool.  A question row exists before its action is recorded.
recordAction(s, c, k) ==
  /\ task[s].pc = "execute" /\ lockedLease(s, "running")
  /\ LET i == task[s].inv IN
       /\ act[i][c].st = "none"
       /\ act' = [act EXCEPT ![i][c] =
                    [st |-> "intent", kind |-> k, fence |-> row[i].fence]]
       /\ wait' = IF k = "question" THEN [wait EXCEPT ![i][c] = "pending"]
                  ELSE wait
  /\ task' = [task EXCEPT ![s] = [@ EXCEPT !.pc = "recorded", !.call = c]]
  /\ UNCHANGED <<row, ctl, closed, gone, sent>>

OwnIntent(s) ==
  LET a == act[task[s].inv][task[s].call] IN
  a.st = "intent" /\ a.fence = task[s].fence

\* The tool runs: its effect leaves the service, whatever the lease is by now.
dispatch(s) ==
  /\ task[s].pc = "recorded" /\ act[task[s].inv][task[s].call].kind = "tool"
  /\ sent' = [sent EXCEPT ![task[s].inv][task[s].call] = @ + 1]
  /\ task' = [task EXCEPT ![s].pc = "dispatched"]
  /\ UNCHANGED <<row, act, wait, ctl, closed, gone>>

\* The tool of a wait reports an error, or that there is nothing to decide.
reportUnavailable(s) ==
  /\ task[s].pc = "recorded"
  /\ act[task[s].inv][task[s].call].kind \in {"review", "handoff"}
  /\ wait[task[s].inv][task[s].call] = None
  /\ task' = [task EXCEPT ![s].pc = "dispatched"]
  /\ UNCHANGED <<row, act, wait, ctl, closed, gone, sent>>

\* afterTool
completeAction(s) ==
  /\ task[s].pc = "dispatched" /\ lockedLease(s, "running")
  /\ LET a == act[task[s].inv][task[s].call]
     IN a.st \in {"intent", "waiting"} /\ a.fence = task[s].fence
  /\ act' = [act EXCEPT ![task[s].inv][task[s].call].st = "completed"]
  /\ task' = [task EXCEPT ![s] = [@ EXCEPT !.pc = "execute", !.call = None]]
  /\ UNCHANGED <<row, wait, ctl, closed, gone, sent>>

\* The request for human help, made before the call is parked.
requestAgent(s) ==
  /\ task[s].pc = "recorded" /\ lockedLease(s, "running") /\ OwnIntent(s)
  /\ LET i == task[s].inv IN
       /\ act[i][task[s].call].kind = "handoff"
       /\ wait[i][task[s].call] = None
       /\ ctl[BudOf[row[i].thread]] = None
       /\ row[i].thread \in Browsers \ closed /\ ~ThreadLocked(row[i].thread)
       /\ wait' = [wait EXCEPT ![i][task[s].call] = "pending"]
  /\ UNCHANGED <<row, act, ctl, closed, gone, task, sent>>

\* A parked call is settled by its decision, under a later lease.
park(s, kind, fence, decision, keep) ==
  LET i == task[s].inv
      c == task[s].call
  IN /\ row' = [row EXCEPT ![i] = Parked(@, keep)]
     /\ act' = [act EXCEPT ![i][c] =
                  [st |-> "waiting", kind |-> kind, fence |-> fence]]
     /\ wait' = [wait EXCEPT ![i][c] = decision]
     /\ task' = [task EXCEPT ![s] = Idle]
     /\ UNCHANGED <<ctl, closed, gone, sent>>

parkQuestion(s) ==
  /\ task[s].pc = "recorded" /\ lockedLease(s, "running") /\ OwnIntent(s)
  /\ act[task[s].inv][task[s].call].kind = "question"
  /\ wait[task[s].inv][task[s].call] \in {"pending", "resolved"}
  /\ park(s, "question", task[s].fence,
          wait[task[s].inv][task[s].call], TRUE)

\* parkAppDataRequest, parkAutomationProposal and parkBootstrapProposal create
\* what is to be decided in the transaction that parks the call.
parkReview(s) ==
  /\ task[s].pc = "recorded" /\ lockedLease(s, "running") /\ OwnIntent(s)
  /\ act[task[s].inv][task[s].call].kind = "review"
  /\ park(s, "review", task[s].fence, "pending", TRUE)

parkBrowserHandoff(s) ==
  /\ task[s].pc = "recorded" /\ lockedLease(s, "running") /\ OwnIntent(s)
  /\ act[task[s].inv][task[s].call].kind = "handoff"
  /\ wait[task[s].inv][task[s].call] \in {"pending", "resolved"}
  /\ park(s, "handoff", task[s].fence + 1,
          wait[task[s].inv][task[s].call], FALSE)

\* A browser tool finds the browser under human control and waits for it.
parkReturnControl(s) ==
  /\ task[s].pc = "recorded" /\ lockedLease(s, "running") /\ OwnIntent(s)
  /\ act[task[s].inv][task[s].call].kind = "tool"
  /\ LET t == row[task[s].inv].thread IN
       ctl[BudOf[t]] # None /\ t \in Browsers \ closed /\ ~ThreadLocked(t)
  /\ park(s, "return", task[s].fence + 1, "pending", FALSE)

\* A requested cancellation wins over an unresolved call, that over the outcome.
MutReviewBeforeCancel(i, o) ==
  IF Unresolved(i) THEN "needs_review" ELSE IF row[i].cancel THEN "canceled" ELSE o
FinishStatus(i, o) ==
  IF row[i].cancel THEN "canceled"
  ELSE IF Unresolved(i) THEN "needs_review" ELSE o

\* The turn ended, with the outcome the agent reports (a turn canceled locally
\* is left for review); or a step threw (failed), a renewal failed or the
\* worker is stopping (needs_review).
finish(s, o) ==
  /\ task[s].pc \in ExecPC /\ HoldsLease(s)
  /\ o = "succeeded" => task[s].pc = "execute"
  /\ LET i == task[s].inv
         status == FinishStatus(i, o)
     IN /\ row' = [row EXCEPT ![i] =
                     Released(@, status, status = "needs_review")]
        /\ wait' = IF row[i].cancel \/ ~Unresolved(i)
                   THEN [wait EXCEPT ![i] = CancelHandoffs(i)] ELSE wait
  /\ task' = [task EXCEPT ![s] = Idle]
  /\ UNCHANGED <<act, ctl, closed, gone, sent>>

\* The process dies, a stop meets a claim that has just been granted, or the
\* outcome of a lost lease is not committed.
crash(s) ==
  /\ task[s].pc # "idle"
  /\ task' = [task EXCEPT ![s] = Idle]
  /\ UNCHANGED <<row, act, wait, ctl, closed, gone, sent>>

----------------------------------------------------------------------------
(* Maintenance, run by any process, and the passing of time.  The rows of  *)
(* a batch are independent, and SKIP LOCKED may leave any of them for the  *)
(* next pass: a batch is the sequence of its rows.                         *)

expireQueued(i) ==
  /\ row[i].status \in Queued /\ Overdue(i)
  /\ row' = [row EXCEPT ![i] = Expired(@)]
  /\ UNCHANGED <<act, wait, ctl, closed, gone, task, sent>>

MutCanceledOnly(i) ==
  /\ row[i].status \in Waits \cup {"waiting_for_user"} /\ hasBrowserWait(i)
  /\ \E c \in Call : act[i][c].kind \in BrowserKinds /\ wait[i][c] = "canceled"

\* Any handoff of the invocation may be the one that ended.
BrowserEnded(i) ==
  /\ row[i].status \in Waits \cup {"waiting_for_user"}
  /\ hasBrowserWait(i)
  /\ \E c \in Call :
       /\ act[i][c].kind \in BrowserKinds
       /\ \/ wait[i][c] = "canceled"
          \/ /\ wait[i][c] \in {"pending", "resolved"}
             /\ row[i].thread \in closed \cup gone

recoverEnded(i) ==
  /\ BrowserEnded(i)
  /\ row' = [row EXCEPT ![i] = Ended(@)]
  /\ wait' = [wait EXCEPT ![i] = CancelHandoffs(i)]
  /\ UNCHANGED <<act, ctl, closed, gone, task, sent>>

LeaseExpired(r) == r.status \in Held /\ ~r.live

recoverLease(i) ==
  /\ LeaseExpired(row[i])
  /\ LET running == row[i].status = "running"
         cancel == row[i].cancel
     IN /\ row' = [row EXCEPT ![i] =
             Recovered(@, ~cancel /\ (running \/ KeepsThread(i)))]
        /\ wait' = IF cancel \/ running
                   THEN [wait EXCEPT ![i] = CancelHandoffs(i)] ELSE wait
  /\ UNCHANGED <<act, ctl, closed, gone, task, sent>>

leaseLapses(i) ==
  /\ row[i].live
  /\ row' = [row EXCEPT ![i].live = FALSE]
  /\ UNCHANGED <<act, wait, ctl, closed, gone, task, sent>>

retryDue(i) ==
  /\ ~row[i].due
  /\ row' = [row EXCEPT ![i].due = TRUE]
  /\ UNCHANGED <<act, wait, ctl, closed, gone, task, sent>>

deadlinePasses(i) ==
  /\ row[i].deadline = "ahead"
  /\ row' = [row EXCEPT ![i].deadline = "elapsed"]
  /\ UNCHANGED <<act, wait, ctl, closed, gone, task, sent>>

----------------------------------------------------------------------------
Owner ==
  \/ \E i \in Inv, t \in Thread, o \in Origins, d \in Deadlines : admit(i, t, o, d)
  \/ \E i \in Inv : requestCancel(i) \/ abandonReviewed(i)
  \/ \E i \in Inv, c \in Call : decide(i, c)
  \/ \E t \in Thread : takeControl(t) \/ requestClose(t) \/ deleteThread(t)
  \/ \E b \in Bud : releaseAuthority(b)

Claim(s) ==
  \/ claimScan(s) \/ claimLock(s) \/ claimExpire(s)
  \/ claimCount(s) \/ claimLease(s)

Parks(s) ==
  \/ parkQuestion(s) \/ parkReview(s)
  \/ parkBrowserHandoff(s) \/ parkReturnControl(s)

Execute(s) ==
  \/ start(s) \/ prepareQuestionContinuation(s)
  \/ \E w \in Delays : defer(s, w)
  \/ \E c \in Call, k \in Kinds : recordAction(s, c, k)
  \/ dispatch(s) \/ reportUnavailable(s) \/ completeAction(s)
  \/ requestAgent(s) \/ Parks(s)
  \/ \E o \in {"succeeded", "failed", "needs_review"} : finish(s, o)

Maintain(i) == expireQueued(i) \/ recoverEnded(i) \/ recoverLease(i)

Time(i) == leaseLapses(i) \/ retryDue(i) \/ deadlinePasses(i)

Next ==
  \/ Owner
  \/ \E s \in Slot : Claim(s) \/ Execute(s) \/ crash(s)
  \/ \E i \in Inv : Maintain(i) \/ Time(i)

Spec == Init /\ [][Next]_vars

----------------------------------------------------------------------------
\* The columns keep their types: a status is one of the schema's, a fence and
\* an attempt are counters, and every task works on an admitted invocation.
TypeOK ==
  /\ row \in [Inv -> Row]
  /\ act \in [Inv -> [Call -> Act]]
  /\ wait \in [Inv -> [Call -> Decision]]
  /\ ctl \in [Bud -> Thread \cup {None}]
  /\ closed \subseteq Thread /\ gone \subseteq Thread
  /\ task \in [Slot -> Task]
  /\ sent \in [Inv -> [Call -> Nat]]

\* The unique index on agent_invocation(thread_id) where reserves_thread never
\* has to reject a write: no two invocations reserve one thread, although claim
\* decides on a candidate snapshot taken before it holds any lock.
ThreadExclusive ==
  \A i, j \in Inv : i # j /\ row[i].reserves /\ row[j].reserves
                      => row[i].thread # row[j].thread

\* One conversation is never driven by two executors: of all tasks of all
\* processes, at most one passes lockedLease for a given thread, whatever
\* crashed, was recovered and was claimed again.
SingleExecutor ==
  \A s, s2 \in Slot :
    /\ s # s2 /\ {task[s].pc, task[s2].pc} \subseteq ExecPC
    /\ HoldsLease(s) /\ HoldsLease(s2)
    => row[task[s].inv].thread # row[task[s2].inv].thread

\* The table's lease check: a worker and a lease are recorded exactly while the
\* invocation is leased or running, and such an invocation, like one left for
\* review, holds its thread.
LeaseCheck ==
  \A i \in Inv :
    /\ row[i].status \in Held <=> row[i].holder # None
    /\ row[i].live => row[i].status \in Held
    /\ row[i].status \in Held \cup {"needs_review"} => row[i].reserves

\* An invocation that can be claimed keeps its thread exactly when it waits for
\* an answer or a decision; one that waits for a browser has given it up, also
\* after the resumed lease was deferred or expired (defer, recoverExpired).
ReservationFollowsWait ==
  \A i \in Inv : row[i].status \in Claimable =>
    (row[i].reserves <=>
       /\ \E c \in Call : act[i][c].st = "waiting"
       /\ \A c \in Call : act[i][c].st = "waiting" =>
            act[i][c].kind \in {"question", "review"})

\* "Retrying an existing intent never authorizes a second dispatch"
\* (recordAction): through crashes, recovery and continuations, no call of an
\* invocation leaves the service twice.
DispatchedOnce == \A i \in Inv, c \in Call : sent[i][c] <= 1

\* A call that may have been dispatched and has no recorded result is never
\* behind an invocation that can be claimed or is being preflighted: ambiguous
\* work waits for its executor, for review, or is canceled.
NoBlindRetry ==
  \A i \in Inv, c \in Call : act[i][c].st = "intent" =>
    row[i].status \in {"running", "needs_review", "canceled"}

\* Success or failure is only recorded when no call of the turn is open.
HonestOutcome ==
  \A i \in Inv : row[i].status \in {"succeeded", "failed"} =>
    \A c \in Call : act[i][c].st \in {"none", "completed"}

\* A parked call is completed only by its decision: a question by its answer, a
\* handoff by the return of control, a request by any decision; the exceptions
\* are calls that reported that there was nothing to wait for.
ResumedByDecision ==
  \A i \in Inv, c \in Call :
    act[i][c].st = "completed" /\ act[i][c].kind # "tool" =>
      \/ wait[i][c] = "resolved"
      \/ act[i][c].kind = "review" /\ wait[i][c] = "canceled"
      \/ act[i][c].kind \in {"review", "handoff"} /\ wait[i][c] = None

\* "First-start deadlines no longer expire an already-started continuation":
\* an expired invocation never made a call, also when its continuation was
\* deferred or its resumed lease expired after the deadline.
ExpiredNeverRan ==
  \A i \in Inv : row[i].status = "expired" =>
    \A c \in Call : act[i][c].st = "none" /\ sent[i][c] = 0

\* Once the owner has asked to cancel, the invocation is not recorded as a
\* success, a failure or a review, and never returns to the queue.
CancelDecides ==
  \A i \in Inv : row[i].cancel =>
    row[i].status \in {"running", "leased", "canceled", "expired"}

\* The automations that reserve a thread of a Bud and are not being canceled
\* stay within automationConcurrencyPerBud, although candidates are chosen and
\* counted in different snapshots.
CapacityHeld ==
  \A b \in Bud : Cardinality({j \in Reserving(b) : ~row[j].cancel}) <= Cap

\* A recorded success or failure is final: no late executor, no cancellation
\* and no recovery changes it.
CompletedIsFinal ==
  [][\A i \in Inv : row[i].status \in {"succeeded", "failed"} =>
       row'[i].status = row[i].status]_vars

\* A task whose fence is not the row's any more, because the invocation was
\* parked, recovered or claimed again, changes nothing in the tables.
FencedOut ==
  [][\A s \in Slot :
       /\ task[s].pc \in ExecPC /\ task[s].fence # row[task[s].inv].fence
       /\ task'[s] # task[s]
       => UNCHANGED <<row, act, wait>>]_vars

----------------------------------------------------------------------------
(* What the schedule guarantees.  Claims are polled and a claim is not     *)
(* interrupted for ever; maintenance runs every second; a lease that is    *)
(* not renewed lapses; a task notices at its next renewal that its lease   *)
(* is lost.  Nothing is assumed of the owner, the model or the tools.      *)

Unrenewed(i) ==
  /\ row[i].status \in Held
  /\ \/ row[i].cancel \/ row[i].thread \in gone
     \/ \A s \in Slot : ~(task[s].pc \in ExecPC /\ task[s].inv = i
                          /\ task[s].fence = row[i].fence)

Fairness ==
  /\ WF_vars(\E s \in Slot : claimScan(s))
  /\ SF_vars(\E s \in Slot : claimLock(s))
  /\ SF_vars(\E s \in Slot : claimExpire(s) \/ claimLease(s))
  /\ SF_vars(\E s \in Slot : claimCount(s))
  /\ WF_vars(\E s \in Slot : task[s].pc \in ExecPC /\ ~HoldsLease(s) /\ crash(s))
  /\ \A i \in Inv :
       /\ WF_vars(Maintain(i)) /\ WF_vars(retryDue(i))
       /\ WF_vars(Unrenewed(i) /\ leaseLapses(i))

FairSpec == Spec /\ Fairness

\* A requested cancellation is always settled, also when the executor that
\* should acknowledge it is gone: its lease is not renewed and recovery decides.
CancelSettles ==
  \A i \in Inv : row[i].cancel ~> [](row[i].status \in {"canceled", "expired"})

\* No lease outlives the task that could renew it.
LeaseEnds == \A i \in Inv : Unrenewed(i) ~> ~Unrenewed(i)

\* An answered question is picked up again without anyone waking the worker.
AnsweredResumes ==
  \A i \in Inv, c \in Call :
    (/\ row[i].status = "waiting_for_user" /\ row[i].attempt < MaxAttempt
     /\ act[i][c].st = "waiting" /\ act[i][c].kind = "question"
     /\ wait[i][c] = "resolved")
    ~> (row[i].status # "waiting_for_user" \/ row[i].thread \in gone)

\* "Deadlines advance behind busy threads": an invocation whose latest start
\* has passed leaves the queue, whoever holds its thread and for how long.
OverdueLeaves ==
  \A i \in Inv : (row[i].status \in Queued /\ Overdue(i))
                   ~> (row[i].status \notin Queued)

\* A wait for a browser workspace that was closed or deleted is ended.
ClosedWorkspaceEnds ==
  \A i \in Inv :
    (hasBrowserWait(i) /\ row[i].thread \in closed \cup gone)
    ~> (row[i].status \notin Claimable \/ ~hasBrowserWait(i))

----------------------------------------------------------------------------
(* What documents say of the program, and the code does not do.            *)

\* "Visible terminal outcome; no automatic replay": a canceled or expired
\* invocation stays so.
TerminalIsFinal ==
  [][\A i \in Inv : row[i].status \in Terminal =>
       row'[i].status = row[i].status]_vars

\* "A per-Bud transaction advisory try-lock serializes new automation
\* reservations, followed by a fresh capacity count": the reservations of
\* automations never exceed the limit.
CapacityLimit == \A b \in Bud : Cardinality(Reserving(b)) <= Cap

\* A lease in preflight "may become running, durable wait, canceled or expired".
LeasedBecomes ==
  [][\A i \in Inv : row[i].status = "leased" =>
       row'[i].status \in {"leased", "running", "canceled", "expired"}
                            \cup Claimable]_vars
=============================================================================
