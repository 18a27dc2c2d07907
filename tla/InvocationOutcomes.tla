------------------------- MODULE InvocationOutcomes -------------------------
(***************************************************************************)
(* What the queue does with the calls of a turn, for every value of the    *)
(* constants: ambiguous work is never retried (NoBlindRetry), an outcome   *)
(* is honest (HonestOutcome), a call leaves the service once               *)
(* (DispatchedOnce) and is resumed by its decision (ResumedByDecision), a  *)
(* parked invocation has exactly the reservation its wait needs            *)
(* (ReservationFollowsWait), and what expired never ran (ExpiredNeverRan). *)
(*                                                                         *)
(* The six need each other, and three facts the code nowhere states: a     *)
(* queued invocation has no call or waits for one (RowActs), the executor  *)
(* with the current token has no open call but the one it is making        *)
(* (ExecutorActs), and a call belongs to one task for ever (CallOwned),    *)
(* although a task that lost its lease may still dispatch what it recorded.*)
(***************************************************************************)
EXTENDS InvocationSafety

CallPC == {"recorded", "dispatched"}

Awaits(a) == \E c \in Call : a[c].st = "waiting"
Untouched(a) == \A c \in Call : a[c].st = "none"
NoIntent(a) == \A c \in Call : a[c].st # "intent"
Settled(a) == \A c \in Call : a[c].st \in {"none", "completed"}
BrowserWait(a) == \E c \in Call : a[c].st = "waiting" /\ a[c].kind \in BrowserKinds

\* What the calls a of an invocation have to do with its row r.
RowActs(r, a) ==
  /\ r.status \notin {"running", "needs_review", "canceled"} => NoIntent(a)
  /\ r.status \in {"succeeded", "failed"} => Settled(a)
  /\ r.status \in Claimable \cup {"leased"} => Awaits(a) \/ Untouched(a)
  /\ r.status \in {"absent", "expired"} => Untouched(a)
  /\ r.status \in Claimable => (r.reserves <=> Awaits(a) /\ ~BrowserWait(a))

\* A call a, its decision w and the number n of its dispatches.
CallOK(a, w, n) ==
  /\ n <= 1 /\ (n > 0 => a.st # "none")
  /\ a.st = "waiting" => a.kind # "tool"
  /\ a.st = "completed" /\ a.kind # "tool" =>
       \/ w = "resolved"
       \/ a.kind = "review" /\ w = "canceled"
       \/ a.kind \in {"review", "handoff"} /\ w = None

\* A claim that holds the thread's lock has the calls of a queued invocation,
\* whatever became of the row since.
LockedActs ==
  \A s \in Slot : task[s].pc \in LockPC =>
    LET a == act[task[s].inv] IN
    /\ NoIntent(a) /\ (Awaits(a) \/ Untouched(a))
    /\ task[s].pc = "expire" => Untouched(a)

\* The task whose token is current.
Current(s) ==
  /\ task[s].pc \in ExecPC /\ row[task[s].inv].fence = task[s].fence
  /\ row[task[s].inv].status \in Held

ExecutorActs ==
  \A s \in Slot : Current(s) => \A c \in Call :
    LET a == act[task[s].inv][c] IN
    /\ a.st = "intent" => task[s].pc \in CallPC /\ c = task[s].call
    /\ task[s].pc \in {"execute"} \cup CallPC => a.st # "waiting"

\* The call a task has recorded or dispatched, current or not.
CallOwned ==
  \A s \in Slot : task[s].pc \in CallPC =>
    LET i == task[s].inv
        c == task[s].call
    IN /\ act[i][c].st # "none"
       /\ task[s].pc = "recorded" => sent[i][c] = 0
       /\ task[s].pc = "dispatched" =>
            \/ act[i][c].kind = "tool"
            \/ act[i][c].kind \in {"review", "handoff"} /\ wait[i][c] = None
       /\ \A s2 \in Slot \ {s} :
            task[s2].pc \in CallPC => task[s2].inv # i \/ task[s2].call # c

OInv ==
  /\ \A i \in Inv : RowActs(row[i], act[i])
  /\ \A i \in Inv, c \in Call : CallOK(act[i][c], wait[i][c], sent[i][c])
  /\ LockedActs /\ ExecutorActs /\ CallOwned

----------------------------------------------------------------------------
(* Rows and calls, one at a time.                                          *)

\* Calls that differ in their fences only.
SameCalls(a, b) == \A c \in Call : b[c].st = a[c].st /\ b[c].kind = a[c].kind

\* What a step does to a row whose calls a it leaves alone.
RowStep(r, q, a) ==
  \/ q.status = r.status /\ q.reserves = r.reserves
  \/ r.status = "absent" /\ q.status = "pending" /\ ~q.reserves
  \/ q.status \in {"running", "needs_review", "canceled"}
  \/ q.status = "leased" /\ NoIntent(a) /\ (Awaits(a) \/ Untouched(a))
  \/ /\ r.status = "leased" /\ q.status \in Claimable
     /\ q.reserves <=> Awaits(a) /\ ~BrowserWait(a)
  \/ q.status \in {"succeeded", "failed"} /\ Settled(a)
  \/ q.status = "expired" /\ Untouched(a)

LEMMA RowStepKeeps ==
  ASSUME NEW r, NEW q, NEW a, RowActs(r, a), RowStep(r, q, a)
  PROVE  RowActs(q, a)
<1>0. /\ Settled(a) => NoIntent(a)
      /\ Untouched(a) => NoIntent(a) /\ ~Awaits(a)
  BY DEF Settled, NoIntent, Untouched, Awaits
<1>s. /\ Claimable \cap {"running", "needs_review", "canceled", "leased", "succeeded", "failed",
                         "expired", "absent"} = {}
      /\ "pending" \in Claimable
  BY DEF Claimable, Queued, Waits
<1> HIDE DEF Settled, NoIntent, Untouched, Awaits, BrowserWait, Claimable
<1> QED BY <1>0, <1>s DEF RowActs, RowStep

LEMMA SameCallsKeep ==
  ASSUME NEW r, NEW a, NEW b, SameCalls(a, b)
  PROVE  /\ RowActs(r, a) => RowActs(r, b)
         /\ Awaits(a) => Awaits(b)
         /\ Untouched(a) => Untouched(b)
         /\ NoIntent(a) => NoIntent(b)
<1>1. /\ Awaits(b) <=> Awaits(a)
      /\ Untouched(b) <=> Untouched(a)
      /\ NoIntent(b) <=> NoIntent(a)
      /\ Settled(b) <=> Settled(a)
      /\ BrowserWait(b) <=> BrowserWait(a)
  BY DEF SameCalls, Awaits, Untouched, NoIntent, Settled, BrowserWait
<1> HIDE DEF Settled, NoIntent, Untouched, Awaits, BrowserWait
<1> QED BY <1>1 DEF RowActs

\* A decision is taken once.
WaitStep(w, v) == v = w \/ (w = "pending" /\ v \in {"resolved", "canceled"})

LEMMA WaitStepKeeps ==
  ASSUME NEW a, NEW b, NEW w, NEW v, NEW n, CallOK(a, w, n), WaitStep(w, v),
         b.st = a.st, b.kind = a.kind
  PROVE  CallOK(b, v, n)
BY DEF CallOK, WaitStep, None

----------------------------------------------------------------------------
(* Steps that leave every call alone.                                      *)

\* A task goes on before its first call, or gives up.
TaskCalm(k, q) ==
  \/ q = k
  \/ /\ q.pc \notin {"execute"} \cup CallPC
     /\ q.pc \in ExecPC => k.pc = "preflight" /\ q.inv = k.inv /\ q.fence = k.fence

Calm ==
  /\ act' = act /\ sent' = sent
  /\ \A i \in Inv : RowStep(row[i], row'[i], act[i])
  /\ \A i \in Inv, c \in Call : WaitStep(wait[i][c], wait'[i][c])
  /\ \A i \in Inv : row'[i].status \in Held =>
       row[i].status \in Held /\ row'[i].fence = row[i].fence
  /\ \A s \in Slot : TaskCalm(task[s], task'[s])

LEMMA CalmKeeps == ASSUME TypeOK, OInv, Calm, LockedActs'  PROVE OInv'
<1>1. ASSUME NEW i \in Inv  PROVE RowActs(row'[i], act'[i])
  BY RowStepKeeps DEF OInv, Calm
<1>2. ASSUME NEW i \in Inv, NEW c \in Call  PROVE CallOK(act'[i][c], wait'[i][c], sent'[i][c])
  BY WaitStepKeeps, ZenonT(60) DEF OInv, Calm
<1>3. ExecutorActs'
  <2> SUFFICES ASSUME NEW s \in Slot, Current(s)', NEW c \in Call
               PROVE  LET a == act'[task'[s].inv][c] IN
                      /\ a.st = "intent" => task'[s].pc \in CallPC /\ c = task'[s].call
                      /\ task'[s].pc \in {"execute"} \cup CallPC => a.st # "waiting"
    BY DEF ExecutorActs
  <2>1. /\ task[s].pc \in ExecPC /\ task'[s].inv = task[s].inv /\ task'[s].fence = task[s].fence
        /\ task'[s] = task[s] \/ (task[s].pc = "preflight" /\ task'[s].pc \notin {"execute"} \cup CallPC)
    BY DEF Calm, TaskCalm, Current, ExecPC
  <2>2. task[s].inv \in Inv
    BY <2>1, LockedInv
  <2>3. Current(s)
    BY <2>1, <2>2 DEF Calm, Current
  <2>4. act'[task'[s].inv][c] = act[task[s].inv][c]
    BY <2>1 DEF Calm
  <2>5. CASE task'[s] = task[s]
    BY <2>3, <2>4, <2>5 DEF OInv, ExecutorActs
  <2>6. CASE task[s].pc = "preflight" /\ task'[s].pc \notin {"execute"} \cup CallPC
    BY <2>3, <2>4, <2>6 DEF OInv, ExecutorActs, CallPC
  <2> QED BY <2>1, <2>5, <2>6
<1>4. CallOwned'
  <2>1. \A s \in Slot : task'[s].pc \in CallPC => task'[s] = task[s]
    BY DEF Calm, TaskCalm
  <2> SUFFICES ASSUME NEW s \in Slot, task'[s].pc \in CallPC
               PROVE  LET i == task'[s].inv
                          c == task'[s].call
                      IN /\ act'[i][c].st # "none"
                         /\ task'[s].pc = "recorded" => sent'[i][c] = 0
                         /\ task'[s].pc = "dispatched" =>
                              \/ act'[i][c].kind = "tool"
                              \/ act'[i][c].kind \in {"review", "handoff"} /\ wait'[i][c] = None
                         /\ \A s2 \in Slot \ {s} :
                              task'[s2].pc \in CallPC => task'[s2].inv # i \/ task'[s2].call # c
    BY DEF CallOwned
  <2>2. task[s].inv \in Inv /\ task[s].call \in Call
    BY <2>1, TaskUpdates DEF TypeOK, CallPC, ExecPC
  <2>3. wait[task[s].inv][task[s].call] = None =>
          wait'[task[s].inv][task[s].call] = None
    BY <2>2 DEF Calm, WaitStep, None
  <2> QED BY <2>1, <2>3, SMTT(60) DEF OInv, CallOwned, Calm
<1> QED BY <1>1, <1>2, <1>3, <1>4 DEF OInv

\* A row that a quiet step leaves leased or running was so before, under this fence.
LEMMA QuietHeld ==
  ASSUME Quiet, NEW i \in Inv, row'[i].status \in Held
  PROVE  row[i].status \in Held /\ row'[i].fence = row[i].fence
<1>1. RowChange(row[i], row'[i])
  BY DEF Quiet
<1> QED BY <1>1
        DEF RowChange, RowKept, RowAsked, SameLease, RowAdmitted, RowStarted, RowCanceled,
            RowExpired, RowReleased, Held, Claimable, Queued, Waits

LEMMA WaitSteps ==
  ASSUME TypeOK, NEW i \in Inv, NEW c \in Call
  PROVE  /\ WaitStep(wait[i][c], wait[i][c])
         /\ WaitStep(wait[i][c], CancelPending(wait[i])[c])
         /\ WaitStep(wait[i][c], CancelHandoffs(i)[c])
BY DEF WaitStep, CancelPending, CancelHandoffs

\* A statement that writes the decisions of one invocation.
LEMMA OneWait ==
  ASSUME TypeOK, NEW i \in Inv, NEW w, wait' = [wait EXCEPT ![i] = w],
         \A c \in Call : WaitStep(wait[i][c], w[c])
  PROVE  \A j \in Inv, c \in Call : WaitStep(wait[j][c], wait'[j][c])
<1>1. \A j \in Inv : wait'[j] = IF j = i THEN w ELSE wait[j]
  BY DEF TypeOK
<1> QED BY <1>1 DEF WaitStep

\* A statement that writes one row.
LEMMA OneRowStep ==
  ASSUME TypeOK, NEW i \in Inv, NEW r, row' = [row EXCEPT ![i] = r], RowStep(row[i], r, act[i])
  PROVE  \A j \in Inv : RowStep(row[j], row'[j], act[j])
<1>1. \A j \in Inv : row'[j] = IF j = i THEN r ELSE row[j]
  BY DEF TypeOK
<1> QED BY <1>1 DEF RowStep

\* The owner's transactions.
LEMMA OwnerCalm == ASSUME IInv, OInv, Owner  PROVE Calm /\ task' = task
<1>0. TypeOK /\ row \in [Inv -> Row] /\ wait \in [Inv -> [Call -> Decision]]
  BY DEF IInv, TypeOK
<1>q. \A i \in Inv : row'[i].status \in Held =>
        row[i].status \in Held /\ row'[i].fence = row[i].fence
  BY <1>0, OwnerQuiet, QuietHeld
<1>c. ASSUME act' = act, sent' = sent, task' = task,
             \A i \in Inv : RowStep(row[i], row'[i], act[i]),
             \A i \in Inv, c \in Call : WaitStep(wait[i][c], wait'[i][c])
      PROVE  Calm /\ task' = task
  BY <1>q, <1>c DEF Calm, TaskCalm
<1>r. ASSUME row' = row  PROVE \A i \in Inv : RowStep(row[i], row'[i], act[i])
  BY <1>r DEF RowStep
<1>1. ASSUME NEW i \in Inv, NEW t \in Thread, NEW o \in Origins, NEW d \in Deadlines,
             admit(i, t, o, d)
      PROVE  Calm /\ task' = task
  <2>1. row[i].status = "absent" /\ act' = act /\ sent' = sent /\ task' = task
    BY <1>1 DEF admit
  <2>2. ASSUME NEW j \in Inv  PROVE RowStep(row[j], row'[j], act[j])
    <3>1. \/ row'[j] = row[j]
          \/ j = i /\ row'[j] = Admitted(row[j], t, o, d)
          \/ row'[j] = Canceled(row[j])
      BY <1>1 DEF admit
    <3>2. Canceled(row[j]).status = "canceled"
      BY <1>0 DEF Canceled, Row
    <3>3. j = i => /\ Admitted(row[j], t, o, d).status = "pending"
                   /\ ~Admitted(row[j], t, o, d).reserves
      BY <1>0, <2>1 DEF Admitted, Row, IInv, AbsentFree
    <3> QED BY <2>1, <3>1, <3>2, <3>3 DEF RowStep
  <2>3. ASSUME NEW j \in Inv, NEW c \in Call  PROVE WaitStep(wait[j][c], wait'[j][c])
    <3>1. wait'[j] = wait[j] \/ wait'[j] = CancelPending(wait[j])
      BY <1>1 DEF admit
    <3> QED BY <1>0, <3>1, WaitSteps
  <2> QED BY <1>c, <2>1, <2>2, <2>3
<1>2. ASSUME NEW i \in Inv, requestCancel(i) \/ abandonReviewed(i)  PROVE Calm /\ task' = task
  <2>1. act' = act /\ sent' = sent /\ task' = task /\ wait' = [wait EXCEPT ![i] = CancelPending(wait[i])]
    BY <1>2 DEF requestCancel, abandonReviewed
  <2>2. \/ row' = [row EXCEPT ![i] = Canceled(row[i])]
        \/ row[i].status = "running" /\ row' = [row EXCEPT ![i] = CancelAsked(row[i])]
    BY <1>2 DEF requestCancel, abandonReviewed
  <2>3. /\ RowStep(row[i], Canceled(row[i]), act[i])
        /\ RowStep(row[i], CancelAsked(row[i]), act[i])
    BY <1>0 DEF RowStep, Canceled, CancelAsked, Row
  <2>4. \A j \in Inv : RowStep(row[j], row'[j], act[j])
    BY <1>0, <2>2, <2>3, OneRowStep
  <2>5. \A j \in Inv, c \in Call : WaitStep(wait[j][c], wait'[j][c])
    BY <1>0, <2>1, WaitSteps, OneWait
  <2> QED BY <1>c, <2>1, <2>4, <2>5
<1>3. ASSUME NEW i \in Inv, NEW c \in Call, decide(i, c)  PROVE Calm /\ task' = task
  <2>1. /\ row' = row /\ act' = act /\ sent' = sent /\ task' = task /\ wait[i][c] = "pending"
        /\ wait' = [wait EXCEPT ![i] = [wait[i] EXCEPT ![c] = "resolved"]]
    BY <1>3 DEF decide
  <2>2. \A d \in Call : WaitStep(wait[i][d], [wait[i] EXCEPT ![c] = "resolved"][d])
    BY <1>0, <2>1 DEF WaitStep
  <2>3. \A j \in Inv, d \in Call : WaitStep(wait[j][d], wait'[j][d])
    BY <1>0, <2>1, <2>2, OneWait
  <2> QED BY <1>c, <1>r, <2>1, <2>3
<1>4. ASSUME NEW t \in Thread, takeControl(t) \/ requestClose(t) \/ deleteThread(t)
      PROVE  Calm /\ task' = task
  <2>1. UNCHANGED <<row, act, wait, task, sent>>
    BY <1>4 DEF takeControl, requestClose, deleteThread
  <2> QED BY <1>c, <1>r, <2>1 DEF WaitStep
<1>5. ASSUME NEW b \in Bud, releaseAuthority(b)  PROVE Calm /\ task' = task
  <2>1. row' = row /\ act' = act /\ sent' = sent /\ task' = task
    BY <1>5 DEF releaseAuthority
  <2>2. \A j \in Inv, c \in Call : WaitStep(wait[j][c], wait'[j][c])
    BY <1>5 DEF releaseAuthority, WaitStep
  <2> QED BY <1>c, <1>r, <2>1, <2>2
<1> QED BY <1>1, <1>2, <1>3, <1>4, <1>5 DEF Owner

\* Maintenance and time.
LEMMA MaintainCalm ==
  ASSUME IInv, OInv, NEW i \in Inv, Maintain(i) \/ Time(i)
  PROVE  Calm /\ task' = task
<1>0. TypeOK /\ row \in [Inv -> Row] /\ row[i] \in Row /\ act[i] \in [Call -> Act]
      /\ RowActs(row[i], act[i])
  BY DEF IInv, TypeOK, OInv
<1>q. \A j \in Inv : row'[j].status \in Held =>
        row[j].status \in Held /\ row'[j].fence = row[j].fence
  BY <1>0, MaintainQuiet, QuietHeld
<1>1. act' = act /\ sent' = sent /\ task' = task
  BY DEF Maintain, Time, expireQueued, recoverEnded, recoverLease, leaseLapses, retryDue,
         deadlinePasses
<1>2. wait' = wait \/ wait' = [wait EXCEPT ![i] = CancelHandoffs(i)]
  BY DEF Maintain, Time, expireQueued, recoverEnded, recoverLease, leaseLapses, retryDue,
         deadlinePasses
<1>3. \A j \in Inv, c \in Call : WaitStep(wait[j][c], wait'[j][c])
  BY <1>0, <1>2, WaitSteps, OneWait
<1>4. \E r : row' = [row EXCEPT ![i] = r] /\ RowStep(row[i], r, act[i])
  <2>1. CASE expireQueued(i)
    <3>1. /\ row' = [row EXCEPT ![i] = Expired(row[i])]
          /\ Expired(row[i]).status = "expired"
      BY <1>0, <2>1 DEF expireQueued, Expired, Row
    <3>2. row[i].status \in Claimable /\ ~Awaits(act[i])
      BY <2>1 DEF expireQueued, Overdue, Waiting, Awaits, Claimable
    <3>3. Untouched(act[i])
      BY <1>0, <3>2 DEF RowActs
    <3> QED BY <3>1, <3>3 DEF RowStep
  <2>2. CASE recoverEnded(i)
    <3>1. row' = [row EXCEPT ![i] = Ended(row[i])] /\ Ended(row[i]).status = "canceled"
      BY <1>0, <2>2 DEF recoverEnded, Ended, Canceled, Row
    <3> QED BY <3>1 DEF RowStep
  <2>3. CASE recoverLease(i)
    <3> DEFINE k == ~row[i].cancel /\ (row[i].status = "running" \/ KeepsThread(i))
               q == Recovered(row[i], k)
    <3>1. row' = [row EXCEPT ![i] = q] /\ row[i].status \in Held
      BY <2>3 DEF recoverLease, LeaseExpired
    <3>2. KeepsThread(i) <=> Awaits(act[i]) /\ ~BrowserWait(act[i])
      BY DEF KeepsThread, Waiting, hasBrowserWait, Awaits, BrowserWait
    <3>3. q.status = RecoveredStatus(row[i]) /\ q.reserves = k
      BY <1>0 DEF Recovered, Released, Row
    <3>4. \/ q.status \in {"canceled", "needs_review"}
          \/ row[i].status = "leased" /\ q.status = "retry_wait" /\ ~row[i].cancel
      BY <3>1, <3>3 DEF RecoveredStatus, Held
    <3>5. "retry_wait" \in Claimable
      BY DEF Claimable, Queued, Waits
    <3>6. RowStep(row[i], q, act[i])
      BY <3>2, <3>3, <3>4, <3>5 DEF RowStep
    <3> QED BY <3>1, <3>6
  <2>4. CASE Time(i)
    <3>1. /\ RowStep(row[i], [row[i] EXCEPT !.live = FALSE], act[i])
          /\ RowStep(row[i], [row[i] EXCEPT !.due = TRUE], act[i])
          /\ RowStep(row[i], [row[i] EXCEPT !.deadline = "elapsed"], act[i])
      BY <1>0 DEF RowStep, Row
    <3> QED BY <2>4, <3>1 DEF Time, leaseLapses, retryDue, deadlinePasses
  <2> QED BY <2>1, <2>2, <2>3, <2>4 DEF Maintain
<1>5. \A j \in Inv : RowStep(row[j], row'[j], act[j])
  BY <1>0, <1>4, OneRowStep
<1> QED BY <1>q, <1>1, <1>3, <1>5 DEF Calm, TaskCalm

\* The locks that are not taken in this step keep what they know.
LEMMA LocksKept ==
  ASSUME OInv, act' = act,
         \A s \in Slot : task'[s].pc \in LockPC =>
           /\ task[s].pc \in LockPC /\ task'[s].inv = task[s].inv
           /\ task'[s].pc = "expire" => task[s].pc = "expire"
  PROVE  LockedActs'
BY DEF OInv, LockedActs

\* One task goes back to idle, or on to a scan or the start of its turn.
LEMMA OneTaskCalm ==
  ASSUME TypeOK, NEW s \in Slot, NEW k, task' = [task EXCEPT ![s] = k], TaskCalm(task[s], k)
  PROVE  \A s2 \in Slot : TaskCalm(task[s2], task'[s2])
<1>1. \A s2 \in Slot : task'[s2] = IF s2 = s THEN k ELSE task[s2]
  BY DEF TypeOK
<1> QED BY <1>1 DEF TaskCalm

\* The statements of claim before its update, and the death of a task.
LEMMA ClaimCalm ==
  ASSUME IInv, OInv, NEW s \in Slot,
         claimScan(s) \/ claimLock(s) \/ claimExpire(s) \/ claimCount(s) \/ crash(s)
  PROVE  Calm /\ LockedActs'
<1>0. TypeOK /\ task \in [Slot -> Task] /\ task[s] \in Task /\ row \in [Inv -> Row]
  BY DEF IInv, TypeOK
<1>1. act' = act /\ sent' = sent /\ wait' = wait
  BY DEF claimScan, claimLock, claimExpire, claimCount, crash
<1>i. Idle.pc = "idle" /\ TaskCalm(task[s], Idle)
  BY DEF Idle, TaskCalm, CallPC, ExecPC
<1>2. CASE claimExpire(s)
  <2> DEFINE i == task[s].inv
  <2>1. /\ row' = [row EXCEPT ![i] = Expired(row[i])] /\ task' = [task EXCEPT ![s] = Idle]
        /\ task[s].pc = "expire" /\ i \in Inv
    BY <1>0, <1>2, TaskUpdates DEF claimExpire, LockPC
  <2>2. Untouched(act[i]) /\ Expired(row[i]).status = "expired"
    BY <1>0, <2>1 DEF OInv, LockedActs, LockPC, Expired, Row
  <2>3. \A j \in Inv : RowStep(row[j], row'[j], act[j])
    BY <1>0, <2>1, <2>2, OneRowStep DEF RowStep
  <2>4. \A j \in Inv : row'[j].status \in Held =>
          row[j].status \in Held /\ row'[j].fence = row[j].fence
    BY <1>0, <2>1, <2>2 DEF Held
  <2>5. \A s2 \in Slot : TaskCalm(task[s2], task'[s2])
    BY <1>0, <1>i, <2>1, OneTaskCalm
  <2>6. LockedActs'
    BY <1>0, <1>1, <1>i, <2>1, LocksKept DEF LockPC
  <2> QED BY <1>1, <2>3, <2>4, <2>5, <2>6 DEF Calm, WaitStep
<1>3. ASSUME row' = row, NEW k, task' = [task EXCEPT ![s] = k],
             k.pc \notin {"execute"} \cup CallPC \cup ExecPC
      PROVE  Calm
  <2>1. \A s2 \in Slot : TaskCalm(task[s2], task'[s2])
    BY <1>0, <1>3, OneTaskCalm DEF TaskCalm
  <2> QED BY <1>1, <1>3, <2>1 DEF Calm, WaitStep, RowStep
<1>4. CASE claimScan(s) \/ claimCount(s) \/ crash(s)
  <2>1. row' = row
    BY <1>4 DEF claimScan, claimCount, crash
  <2>2. PICK k : /\ task' = [task EXCEPT ![s] = k]
                 /\ k.pc \in {"idle", "scan"} \/ (k.pc = "grant" /\ task[s].pc = "count" /\ k.inv = task[s].inv)
    <3>1. CASE claimScan(s)
      <4> DEFINE k == [Idle EXCEPT !.pc = "scan", !.cands = {i \in Inv : Eligible(i)}]
      <4>1. k.pc = "scan"
        BY DEF Idle
      <4>2. task' = [task EXCEPT ![s] = k]
        BY <3>1, Zenon DEF claimScan
      <4> QED BY <4>1, <4>2
    <3>2. CASE claimCount(s)
      <4> DEFINE k == [task[s] EXCEPT !.pc = "grant"]
      <4>1. k.pc = "grant" /\ k.inv = task[s].inv
        BY <1>0 DEF Task
      <4>2. task[s].pc = "count" /\ task' \in {[task EXCEPT ![s] = k], [task EXCEPT ![s] = Idle]}
        BY <3>2 DEF claimCount
      <4> HIDE DEF k
      <4> QED BY <1>i, <4>1, <4>2
    <3>3. CASE crash(s)
      BY <1>i, <3>3 DEF crash
    <3> QED BY <1>4, <3>1, <3>2, <3>3
  <2>3. Calm
    BY <1>3, <2>1, <2>2 DEF CallPC, ExecPC
  <2>4. LockedActs'
    BY <1>0, <1>1, <2>2, LocksKept DEF LockPC
  <2> QED BY <2>3, <2>4
<1>5. CASE claimLock(s)
  <2>1. row' = row
    BY <1>5 DEF claimLock
  <2>2. CASE task' = [task EXCEPT ![s] = Idle]
    <3>1. Calm
      BY <1>3, <1>i, <2>1, <2>2 DEF CallPC, ExecPC
    <3>2. LockedActs'
      BY <1>0, <1>1, <1>i, <2>2, LocksKept DEF LockPC
    <3> QED BY <3>1, <3>2
  <2>3. ASSUME NEW i \in task[s].cands, NEW p \in {"expire", "count", "lease"},
               row[i].status \in Claimable,
               p = "expire" => Overdue(i) /\ row[i].status # "waiting_for_user",
               task' = [task EXCEPT ![s] = [Idle EXCEPT !.inv = i, !.pc = p]]
        PROVE  Calm /\ LockedActs'
    <3> DEFINE k == [Idle EXCEPT !.inv = i, !.pc = p]
    <3>1. i \in Inv /\ k.pc = p /\ k.inv = i
      BY <1>0, TaskUpdates DEF Idle
    <3>2. Calm
      BY <1>3, <2>1, <2>3, <3>1 DEF CallPC, ExecPC
    <3>3. NoIntent(act[i]) /\ (Awaits(act[i]) \/ Untouched(act[i]))
      BY <2>3, <3>1 DEF OInv, RowActs, Claimable, Queued, Waits
    <3>4. p = "expire" => Untouched(act[i])
      BY <2>3, <3>3 DEF Overdue, Waiting, Awaits
    <3>5. \A s2 \in Slot : task'[s2] = IF s2 = s THEN k ELSE task[s2]
      BY <1>0, <2>3
    <3> HIDE DEF k
    <3>6. LockedActs'
      BY <1>1, <3>1, <3>3, <3>4, <3>5 DEF OInv, LockedActs
    <3> QED BY <3>2, <3>6
  <2> QED BY <1>5, <2>2, <2>3, ZenonT(60) DEF claimLock
<1> QED BY <1>2, <1>4, <1>5

\* The executor's steps that make no call.
LEMMA TurnCalm ==
  ASSUME IInv, OInv, NEW s \in Slot,
         \/ start(s) \/ \E w \in Delays : defer(s, w)
         \/ \E o \in {"succeeded", "failed", "needs_review"} : finish(s, o)
  PROVE  Calm /\ LockedActs'
<1> DEFINE i == task[s].inv
<1>0. TypeOK /\ task \in [Slot -> Task] /\ task[s] \in Task /\ row \in [Inv -> Row]
  BY DEF IInv, TypeOK
<1>e. Execute(s) /\ task[s].pc \in ExecPC /\ i \in Inv
  <2>1. Execute(s)
    BY DEF Execute
  <2>2. task[s].pc \in ExecPC
    BY DEF start, defer, finish, ExecPC
  <2> QED BY <1>0, <2>1, <2>2, LockedInv
<1>t. /\ row[i] \in Row /\ act[i] \in [Call -> Act] /\ RowActs(row[i], act[i])
  BY <1>0, <1>e DEF TypeOK, OInv
<1>q. \A j \in Inv : row'[j].status \in Held =>
        row[j].status \in Held /\ row'[j].fence = row[j].fence
  BY <1>0, <1>e, ExecuteQuiet, QuietHeld
<1>i. Idle.pc = "idle" /\ TaskCalm(task[s], Idle)
  BY DEF Idle, TaskCalm, CallPC, ExecPC
<1>1. act' = act /\ sent' = sent
  BY DEF start, defer, finish
<1>2. wait' = wait \/ wait' = [wait EXCEPT ![i] = CancelHandoffs(i)]
  BY DEF start, defer, finish
<1>3. \A j \in Inv, c \in Call : WaitStep(wait[j][c], wait'[j][c])
  BY <1>0, <1>e, <1>2, WaitSteps, OneWait
<1>4. \E k : /\ task' = [task EXCEPT ![s] = k] /\ TaskCalm(task[s], k)
             /\ k.pc \notin LockPC
  <2>1. CASE start(s)
    <3> DEFINE k == [task[s] EXCEPT !.pc = "prepare"]
    <3>1. task' = [task EXCEPT ![s] = k] /\ task[s].pc = "preflight"
      BY <2>1 DEF start
    <3>2. k.pc = "prepare" /\ k.inv = i /\ k.fence = task[s].fence
      BY <1>0 DEF Task
    <3> HIDE DEF k
    <3>3. TaskCalm(task[s], k) /\ k.pc \notin LockPC
      BY <3>1, <3>2 DEF TaskCalm, CallPC, LockPC
    <3> QED BY <3>1, <3>3
  <2>2. CASE ~start(s)
    <3>1. task' = [task EXCEPT ![s] = Idle]
      BY <2>2 DEF defer, finish
    <3> QED BY <1>i, <3>1 DEF LockPC
  <2> QED BY <2>1, <2>2
<1>5. \E r : row' = [row EXCEPT ![i] = r] /\ RowStep(row[i], r, act[i])
  <2>1. CASE start(s)
    <3>1. row' = [row EXCEPT ![i] = Started(row[i])] /\ Started(row[i]).status = "running"
      BY <1>t, <2>1 DEF start, Started, Row
    <3> QED BY <3>1 DEF RowStep
  <2>2. ASSUME NEW w \in Delays, defer(s, w)
        PROVE  \E r : row' = [row EXCEPT ![i] = r] /\ RowStep(row[i], r, act[i])
    <3> DEFINE q == Deferred(row[i], w, KeepsThread(i))
    <3>1. row' = [row EXCEPT ![i] = q] /\ row[i].status = "leased"
      BY <2>2 DEF defer, lockedLease
    <3>2. q.status = w /\ q.reserves = KeepsThread(i) /\ w \in Claimable
      BY <1>t, ConstantsAssumption DEF Deferred, Released, Row, Claimable, Queued, Waits
    <3>3. KeepsThread(i) <=> Awaits(act[i]) /\ ~BrowserWait(act[i])
      BY DEF KeepsThread, Waiting, hasBrowserWait, Awaits, BrowserWait
    <3> HIDE DEF q
    <3>4. RowStep(row[i], q, act[i])
      BY <3>1, <3>2, <3>3 DEF RowStep
    <3> QED BY <3>1, <3>4
  <2>3. ASSUME NEW o \in {"succeeded", "failed", "needs_review"}, finish(s, o)
        PROVE  \E r : row' = [row EXCEPT ![i] = r] /\ RowStep(row[i], r, act[i])
    <3> DEFINE st == FinishStatus(i, o)
               q == Released(row[i], st, st = "needs_review")
    <3>1. row' = [row EXCEPT ![i] = q]
      BY <2>3 DEF finish
    <3>2. q.status = st
      BY <1>t DEF Released, Row
    <3>3. \/ st \in {"canceled", "needs_review"}
          \/ st \in {"succeeded", "failed"} /\ ~Unresolved(i)
      BY DEF FinishStatus
    <3>4. ~Unresolved(i) => Settled(act[i])
      BY <1>t DEF Unresolved, Settled, Act
    <3> HIDE DEF q, st
    <3>5. RowStep(row[i], q, act[i])
      BY <3>2, <3>3, <3>4 DEF RowStep
    <3> QED BY <3>1, <3>5
  <2> QED BY <2>1, <2>2, <2>3
<1>6. \A j \in Inv : RowStep(row[j], row'[j], act[j])
  BY <1>0, <1>e, <1>5, OneRowStep
<1>7. \A s2 \in Slot : TaskCalm(task[s2], task'[s2])
  BY <1>0, <1>4, OneTaskCalm
<1>8. LockedActs'
  BY <1>0, <1>1, <1>4, LocksKept
<1> QED BY <1>q, <1>1, <1>3, <1>6, <1>7, <1>8 DEF Calm

----------------------------------------------------------------------------
(* Steps that make, settle or park a call.                                 *)

\* The calls of the task with the current token, in its state k.
TurnActs(k, a) ==
  \A c \in Call :
    /\ a[c].st = "intent" => k.pc \in CallPC /\ c = k.call
    /\ k.pc \in {"execute"} \cup CallPC => a[c].st # "waiting"

\* The call of a task in its state k, with its decision and its dispatches.
OwnCall(k, a, w, n) ==
  /\ a.st # "none"
  /\ k.pc = "recorded" => n = 0
  /\ k.pc = "dispatched" =>
       \/ a.kind = "tool"
       \/ a.kind \in {"review", "handoff"} /\ w = None

\* A step of the executor s with the current token, in the invocation i = task[s].inv.
CallStep(s, i) ==
  /\ Current(s) /\ row[i].status = "running" /\ i = task[s].inv
  /\ \A j \in Inv \ {i} : row'[j] = row[j] /\ act'[j] = act[j] /\ wait'[j] = wait[j]
  /\ sent' = sent /\ \A s2 \in Slot \ {s} : task'[s2] = task[s2]
  /\ row'[i].status \in Held => row'[i].fence = row[i].fence
  /\ RowActs(row'[i], act'[i])
  /\ \A c \in Call : CallOK(act'[i][c], wait'[i][c], sent[i][c])
  /\ \A c \in Call : act[i][c].st # "none" /\ (task[s].pc \in CallPC => c # task[s].call) =>
       act'[i][c].st # "none" /\ act'[i][c].kind = act[i][c].kind /\ wait'[i][c] = wait[i][c]
  /\ task'[s].pc \notin LockPC
  /\ task'[s].pc \in ExecPC => task'[s].inv = i /\ TurnActs(task'[s], act'[i])
  /\ task'[s].pc \in CallPC =>
       LET c == task'[s].call IN
       /\ OwnCall(task'[s], act'[i][c], wait'[i][c], sent[i][c])
       /\ act[i][c].st = "none" \/ (task[s].pc \in CallPC /\ c = task[s].call)

LEMMA CallStepKeeps == ASSUME IInv, OInv, NEW s \in Slot, NEW i, CallStep(s, i)  PROVE OInv'
<1>0. /\ TypeOK /\ i \in Inv /\ task[s].pc \in ExecPC
      /\ \A s2 \in Slot : task[s2].pc \in LockPC \cup ExecPC => task[s2].inv \in Inv
      /\ \A s2 \in Slot : task[s2].pc \in CallPC => task[s2].call \in Call
  BY LockedInv, TaskUpdates DEF IInv, TypeOK, CallStep, Current, CallPC
<1>p. CallPC \subseteq ExecPC /\ LockPC \cap ExecPC = {}
  BY DEF CallPC, ExecPC, LockPC
<1>1. ASSUME NEW j \in Inv  PROVE RowActs(row'[j], act'[j])
  BY DEF OInv, CallStep
<1>2. ASSUME NEW j \in Inv, NEW c \in Call  PROVE CallOK(act'[j][c], wait'[j][c], sent'[j][c])
  <2>1. CASE j = i
    BY <2>1 DEF CallStep
  <2>2. CASE j # i
    BY <2>2 DEF OInv, CallStep
  <2> QED BY <2>1, <2>2
<1>3. LockedActs'
  <2>1. \A s2 \in Slot : task'[s2].pc \in LockPC =>
          /\ s2 # s /\ task'[s2] = task[s2]
          /\ task[s2].inv \in Inv \ {i} /\ act'[task[s2].inv] = act[task[s2].inv]
    <3> SUFFICES ASSUME NEW s2 \in Slot, task'[s2].pc \in LockPC
                 PROVE  /\ s2 # s /\ task'[s2] = task[s2]
                        /\ task[s2].inv \in Inv \ {i} /\ act'[task[s2].inv] = act[task[s2].inv]
      OBVIOUS
    <3>1. s2 # s /\ task'[s2] = task[s2] /\ task[s2].inv \in Inv
      BY <1>0 DEF CallStep
    <3>2. row[task[s2].inv].status # "running"
      BY <3>1 DEF IInv, LockedStatus, Claimable, Queued, Waits
    <3> QED BY <3>1, <3>2 DEF CallStep
  <2> QED BY <2>1 DEF OInv, LockedActs
<1>4. ExecutorActs'
  <2> SUFFICES ASSUME NEW s2 \in Slot, Current(s2)', NEW c \in Call
               PROVE  LET a == act'[task'[s2].inv][c] IN
                      /\ a.st = "intent" => task'[s2].pc \in CallPC /\ c = task'[s2].call
                      /\ task'[s2].pc \in {"execute"} \cup CallPC => a.st # "waiting"
    BY DEF ExecutorActs
  <2>1. CASE s2 = s
    BY <2>1 DEF Current, CallStep, TurnActs
  <2>2. CASE s2 # s
    <3>1. task'[s2] = task[s2] /\ task[s2].pc \in ExecPC /\ task[s2].inv \in Inv
      BY <1>0, <2>2 DEF CallStep, Current
    <3>2. task[s2].inv # i
      <4> SUFFICES ASSUME task[s2].inv = i  PROVE FALSE
        OBVIOUS
      <4>1. row'[i].status \in Held /\ row'[i].fence = task[s2].fence
        BY <3>1 DEF Current
      <4>2. row'[i].fence = row[i].fence /\ row[i].fence = task[s].fence /\ i = task[s].inv
        BY <4>1 DEF CallStep, Current
      <4>3. TokenUnique
        BY DEF IInv
      <4> QED BY <1>0, <2>2, <3>1, <4>1, <4>2, <4>3 DEF TokenUnique
    <3>3. row'[task[s2].inv] = row[task[s2].inv] /\ act'[task[s2].inv] = act[task[s2].inv]
      BY <3>1, <3>2 DEF CallStep
    <3>4. Current(s2)
      BY <3>1, <3>3 DEF Current
    <3> QED BY <3>1, <3>3, <3>4 DEF OInv, ExecutorActs
  <2> QED BY <2>1, <2>2
<1>5. CallOwned'
  <2>1. ASSUME NEW s2 \in Slot \ {s}, task'[s2].pc \in CallPC
        PROVE  /\ task'[s2] = task[s2]
               /\ OwnCall(task[s2], act'[task[s2].inv][task[s2].call],
                          wait'[task[s2].inv][task[s2].call], sent'[task[s2].inv][task[s2].call])
               /\ task'[s].pc \in CallPC => \/ task'[s].inv # task[s2].inv
                                            \/ task'[s].call # task[s2].call
    <3> DEFINE j == task[s2].inv
               c == task[s2].call
    <3>1. task'[s2] = task[s2] /\ task[s2].pc \in CallPC /\ j \in Inv /\ c \in Call /\ sent' = sent
      BY <1>0, <1>p, <2>1 DEF CallStep
    <3>2. /\ OwnCall(task[s2], act[j][c], wait[j][c], sent[j][c]) /\ act[j][c].st # "none"
          /\ task[s].pc \in CallPC => task[s].inv # j \/ task[s].call # c
      BY <3>1 DEF OInv, CallOwned, OwnCall
    <3>3. CASE j # i
      <4>1. act'[j] = act[j] /\ wait'[j] = wait[j]
        BY <3>1, <3>3 DEF CallStep
      <4> QED BY <1>p, <3>1, <3>2, <3>3, <4>1 DEF CallStep
    <3>4. CASE j = i
      <4>1. task[s].pc \in CallPC => c # task[s].call
        BY <3>2, <3>4 DEF CallStep
      <4>2. /\ act'[i][c].st # "none" /\ act'[i][c].kind = act[i][c].kind
            /\ wait'[i][c] = wait[i][c]
        BY <3>1, <3>2, <3>4, <4>1 DEF CallStep
      <4>3. OwnCall(task[s2], act'[j][c], wait'[j][c], sent'[j][c])
        BY <3>1, <3>2, <3>4, <4>2 DEF OwnCall
      <4>4. task'[s].pc \in CallPC => task'[s].call # c
        BY <3>2, <3>4, <4>1 DEF CallStep
      <4> QED BY <3>1, <4>3, <4>4
    <3> QED BY <3>3, <3>4
  <2>2. task'[s].pc \in CallPC =>
          /\ task'[s].inv = i
          /\ OwnCall(task'[s], act'[i][task'[s].call], wait'[i][task'[s].call],
                     sent'[i][task'[s].call])
    BY <1>p DEF CallStep
  <2>3. \A s1 \in Slot \ {s}, s2 \in Slot \ {s} :
          s1 # s2 /\ task'[s1].pc \in CallPC /\ task'[s2].pc \in CallPC =>
            task'[s2].inv # task'[s1].inv \/ task'[s2].call # task'[s1].call
    <3>1. \A s1 \in Slot \ {s} : task'[s1] = task[s1]
      BY DEF CallStep
    <3>2. \A s1 \in Slot : task[s1].pc \in CallPC => \A s2 \in Slot \ {s1} :
            task[s2].pc \in CallPC => task[s2].inv # task[s1].inv \/ task[s2].call # task[s1].call
      BY DEF OInv, CallOwned
    <3> QED BY <3>1, <3>2
  <2> SUFFICES ASSUME NEW s1 \in Slot, task'[s1].pc \in CallPC
               PROVE  LET j == task'[s1].inv
                          c == task'[s1].call
                      IN /\ OwnCall(task'[s1], act'[j][c], wait'[j][c], sent'[j][c])
                         /\ \A s2 \in Slot \ {s1} :
                              task'[s2].pc \in CallPC => task'[s2].inv # j \/ task'[s2].call # c
    BY DEF CallOwned, OwnCall
  <2>4. CASE s1 = s
    BY <2>1, <2>2, <2>4
  <2>5. CASE s1 # s
    BY <2>1, <2>3, <2>5
  <2> QED BY <2>4, <2>5
<1> QED BY <1>1, <1>2, <1>3, <1>4, <1>5 DEF OInv

\* The lease: the calls keep their state, and no executor has the new token but s.
LEMMA LeaseKeepsCalls ==
  ASSUME IInv, OInv, NEW s \in Slot, claimLease(s)  PROVE OInv'
<1> DEFINE i == task[s].inv
<1>0. /\ TypeOK /\ task \in [Slot -> Task] /\ task[s] \in Task /\ row \in [Inv -> Row]
      /\ task[s].pc \in LockPC /\ i \in Inv /\ row[i] \in Row /\ row[i].fence \in Nat
      /\ act \in [Inv -> [Call -> Act]]
  <2>1. /\ TypeOK /\ task \in [Slot -> Task] /\ task[s] \in Task /\ row \in [Inv -> Row]
        /\ act \in [Inv -> [Call -> Act]] /\ task[s].pc \in LockPC
    BY DEF IInv, TypeOK, claimLease, LockPC
  <2>2. i \in Inv
    BY <2>1, LockedInv
  <2>3. row[i] \in Row
    BY <2>1, <2>2
  <2> QED BY <2>1, <2>2, <2>3 DEF Row
<1>1. /\ wait' = wait /\ sent' = sent
      /\ \A j \in Inv \ {i} : row'[j] = row[j] /\ act'[j] = act[j]
      /\ \A s2 \in Slot \ {s} : task'[s2] = task[s2]
      /\ task'[s].pc = "preflight" /\ task'[s].inv = i
      /\ row'[i].status = "leased" /\ row'[i].fence = row[i].fence + 1
  BY <1>0 DEF claimLease, Leased, Row, Task
<1>2. SameCalls(act[i], act'[i])
  <2>1. \A c \in Call : act'[i][c] =
          IF act[i][c].st = "waiting" THEN [act[i][c] EXCEPT !.fence = row[i].fence + 1]
                                      ELSE act[i][c]
    BY <1>0 DEF claimLease
  <2>2. \A c \in Call : act[i][c] \in Act
    BY <1>0
  <2> QED BY <2>1, <2>2 DEF SameCalls, Act
<1>3. NoIntent(act[i]) /\ (Awaits(act[i]) \/ Untouched(act[i]))
  BY <1>0 DEF OInv, LockedActs
<1>4. ASSUME NEW j \in Inv  PROVE RowActs(row'[j], act'[j])
  <2>1. CASE j = i
    <3>1. RowStep(row[i], row'[i], act[i])
      BY <1>1, <1>3 DEF RowStep
    <3>2. RowActs(row'[i], act[i])
      BY <1>0, <3>1, RowStepKeeps DEF OInv
    <3> QED BY <1>2, <2>1, <3>2, SameCallsKeep
  <2>2. CASE j # i
    BY <1>1, <2>2 DEF OInv
  <2> QED BY <2>1, <2>2
<1>c. \A j \in Inv, c \in Call : act'[j][c].st = act[j][c].st /\ act'[j][c].kind = act[j][c].kind
  BY <1>1, <1>2 DEF SameCalls
<1>5. ASSUME NEW j \in Inv, NEW c \in Call  PROVE CallOK(act'[j][c], wait'[j][c], sent'[j][c])
  BY <1>1, <1>c, WaitStepKeeps DEF OInv, WaitStep
<1>t. \A s2 \in Slot : task[s2].pc \in LockPC \cup ExecPC => task[s2].inv \in Inv
  BY <1>0, LockedInv
<1>6. LockedActs'
  <2> SUFFICES ASSUME NEW s2 \in Slot, task'[s2].pc \in LockPC
               PROVE  LET a == act'[task'[s2].inv] IN
                      /\ NoIntent(a) /\ (Awaits(a) \/ Untouched(a))
                      /\ task'[s2].pc = "expire" => Untouched(a)
    BY DEF LockedActs
  <2>1. s2 # s /\ task'[s2] = task[s2] /\ task[s2].inv \in Inv
    BY <1>1, <1>t DEF LockPC
  <2>2. SameCalls(act[task[s2].inv], act'[task[s2].inv])
    BY <1>c, <2>1 DEF SameCalls
  <2>3. /\ NoIntent(act[task[s2].inv])
        /\ Awaits(act[task[s2].inv]) \/ Untouched(act[task[s2].inv])
        /\ task[s2].pc = "expire" => Untouched(act[task[s2].inv])
    BY <2>1 DEF OInv, LockedActs
  <2> QED BY <2>1, <2>2, <2>3, SameCallsKeep
<1>7. ExecutorActs'
  <2> SUFFICES ASSUME NEW s2 \in Slot, Current(s2)', NEW c \in Call
               PROVE  LET a == act'[task'[s2].inv][c] IN
                      /\ a.st = "intent" => task'[s2].pc \in CallPC /\ c = task'[s2].call
                      /\ task'[s2].pc \in {"execute"} \cup CallPC => a.st # "waiting"
    BY DEF ExecutorActs
  <2>1. CASE s2 = s
    BY <1>0, <1>1, <1>3, <1>c, <2>1 DEF NoIntent, CallPC
  <2>2. CASE s2 # s
    <3>1. task'[s2] = task[s2] /\ task[s2].pc \in ExecPC /\ task[s2].inv \in Inv
      BY <1>1, <1>t, <2>2 DEF Current
    <3>2. task[s2].inv # i
      <4> SUFFICES ASSUME task[s2].inv = i  PROVE FALSE
        OBVIOUS
      <4>1. task[s2].fence = row[i].fence + 1
        BY <1>1, <3>1 DEF Current
      <4>2. task[s2].fence <= row[i].fence
        BY <3>1 DEF IInv, TokenBound
      <4> QED BY <1>0, <4>1, <4>2
    <3>3. row'[task[s2].inv] = row[task[s2].inv]
      BY <1>1, <3>1, <3>2
    <3>4. Current(s2)
      BY <3>1, <3>3 DEF Current
    <3>5. /\ act[task[s2].inv][c].st = "intent" => task[s2].pc \in CallPC /\ c = task[s2].call
          /\ task[s2].pc \in {"execute"} \cup CallPC => act[task[s2].inv][c].st # "waiting"
      BY <3>4 DEF OInv, ExecutorActs
    <3>6. act'[task[s2].inv][c].st = act[task[s2].inv][c].st
      BY <1>c, <3>1
    <3> QED BY <3>1, <3>5, <3>6
  <2> QED BY <2>1, <2>2
<1>8. CallOwned'
  <2>1. \A s2 \in Slot : task'[s2].pc \in CallPC => /\ task'[s2] = task[s2] /\ task[s2].inv \in Inv
                                                    /\ task[s2].call \in Call
    BY <1>0, <1>1, <1>t, TaskUpdates DEF CallPC, ExecPC
  <2> SUFFICES ASSUME NEW s1 \in Slot, task'[s1].pc \in CallPC
               PROVE  LET j == task'[s1].inv
                          c == task'[s1].call
                      IN /\ OwnCall(task'[s1], act'[j][c], wait'[j][c], sent'[j][c])
                         /\ \A s2 \in Slot \ {s1} :
                              task'[s2].pc \in CallPC => task'[s2].inv # j \/ task'[s2].call # c
    BY DEF CallOwned, OwnCall
  <2>2. LET j == task[s1].inv
            c == task[s1].call
        IN /\ OwnCall(task[s1], act[j][c], wait[j][c], sent[j][c])
           /\ \A s2 \in Slot \ {s1} :
                task[s2].pc \in CallPC => task[s2].inv # j \/ task[s2].call # c
    BY <2>1 DEF OInv, CallOwned, OwnCall
  <2> DEFINE j == task[s1].inv
             c == task[s1].call
  <2>3. j \in Inv /\ c \in Call /\ task'[s1] = task[s1]
    BY <2>1
  <2>4. /\ act'[j][c].st = act[j][c].st /\ act'[j][c].kind = act[j][c].kind
        /\ wait'[j][c] = wait[j][c] /\ sent'[j][c] = sent[j][c]
    BY <1>1, <1>c, <2>3
  <2>5. OwnCall(task[s1], act'[j][c], wait'[j][c], sent'[j][c])
    BY <2>2, <2>4 DEF OwnCall
  <2> QED BY <2>1, <2>2, <2>3, <2>5
<1> QED BY <1>4, <1>5, <1>6, <1>7, <1>8 DEF OInv

\* The tool of a recorded call runs or reports, whether or not the lease is still held.
LEMMA DispatchKeeps ==
  ASSUME IInv, OInv, NEW s \in Slot, dispatch(s) \/ reportUnavailable(s)  PROVE OInv'
<1> DEFINE i == task[s].inv
           c == task[s].call
<1>0. /\ TypeOK /\ task \in [Slot -> Task] /\ task[s] \in Task /\ task[s].pc = "recorded"
      /\ i \in Inv /\ c \in Call /\ sent \in [Inv -> [Call -> Nat]]
  <2>1. /\ TypeOK /\ task \in [Slot -> Task] /\ task[s] \in Task /\ task[s].pc = "recorded"
        /\ sent \in [Inv -> [Call -> Nat]]
    BY DEF IInv, TypeOK, dispatch, reportUnavailable
  <2> QED BY <2>1, TaskUpdates DEF ExecPC
<1>1. /\ row' = row /\ act' = act /\ wait' = wait
      /\ task' = [task EXCEPT ![s].pc = "dispatched"]
  BY DEF dispatch, reportUnavailable
<1>2. /\ \A s2 \in Slot \ {s} : task'[s2] = task[s2]
      /\ task'[s].pc = "dispatched" /\ task'[s].inv = i /\ task'[s].call = c
      /\ task'[s].fence = task[s].fence
  BY <1>0, <1>1 DEF Task
<1>3. act[i][c].st # "none" /\ sent[i][c] = 0
  BY <1>0 DEF OInv, CallOwned, CallPC
<1>4. /\ \A j \in Inv, d \in Call : j # i \/ d # c => sent'[j][d] = sent[j][d]
      /\ sent'[i][c] <= 1
  <2>1. CASE sent' = sent
    BY <1>3, <2>1
  <2>2. CASE sent' = [sent EXCEPT ![i][c] = sent[i][c] + 1]
    BY <1>0, <1>3, <2>2
  <2> QED BY <2>1, <2>2 DEF dispatch, reportUnavailable
<1>5. ASSUME NEW j \in Inv, NEW d \in Call  PROVE CallOK(act'[j][d], wait'[j][d], sent'[j][d])
  <2>1. CASE j = i /\ d = c
    BY <1>1, <1>3, <1>4, <2>1 DEF OInv, CallOK
  <2>2. CASE j # i \/ d # c
    BY <1>1, <1>4, <2>2 DEF OInv
  <2> QED BY <2>1, <2>2
<1>6. LockedActs'
  BY <1>1, <1>2 DEF OInv, LockedActs, LockPC
<1>7. ExecutorActs'
  <2>1. \A s2 \in Slot : /\ task'[s2].inv = task[s2].inv /\ task'[s2].fence = task[s2].fence
                         /\ task'[s2].call = task[s2].call
                         /\ task'[s2].pc \in ExecPC <=> task[s2].pc \in ExecPC
                         /\ task'[s2].pc \in CallPC <=> task[s2].pc \in CallPC
                         /\ task'[s2].pc = "execute" <=> task[s2].pc = "execute"
    BY <1>0, <1>2 DEF ExecPC, CallPC
  <2>2. \A s2 \in Slot : Current(s2)' => Current(s2)
    BY <1>1, <2>1 DEF Current
  <2> QED BY <1>1, <2>1, <2>2, SMTT(60) DEF OInv, ExecutorActs
<1>8. CallOwned'
  <2>1. \A s2 \in Slot : /\ task'[s2].inv = task[s2].inv /\ task'[s2].call = task[s2].call
                         /\ task'[s2].pc \in CallPC <=> task[s2].pc \in CallPC
    BY <1>0, <1>2 DEF CallPC
  <2>2. ASSUME NEW s1 \in Slot, task'[s1].pc \in CallPC
        PROVE  OwnCall(task'[s1], act[task[s1].inv][task[s1].call],
                       wait[task[s1].inv][task[s1].call], sent'[task[s1].inv][task[s1].call])
    <3>1. CASE s1 = s
      BY <1>2, <1>3, <3>1 DEF OwnCall, dispatch, reportUnavailable
    <3>2. CASE s1 # s
      <4> DEFINE j == task[s1].inv
                 d == task[s1].call
      <4>1. task'[s1] = task[s1] /\ task[s1].pc \in CallPC /\ j \in Inv /\ d \in Call
        BY <1>0, <1>2, <2>2, <3>2, TaskUpdates DEF CallPC, ExecPC
      <4>2. OwnCall(task[s1], act[j][d], wait[j][d], sent[j][d]) /\ (j # i \/ d # c)
        BY <1>0, <3>2, <4>1 DEF OInv, CallOwned, OwnCall, CallPC
      <4>3. sent'[j][d] = sent[j][d]
        BY <1>4, <4>1, <4>2
      <4> QED BY <4>1, <4>2, <4>3
    <3> QED BY <3>1, <3>2
  <2>3. \A s1 \in Slot : task[s1].pc \in CallPC => \A s2 \in Slot \ {s1} :
          task[s2].pc \in CallPC => task[s2].inv # task[s1].inv \/ task[s2].call # task[s1].call
    BY DEF OInv, CallOwned
  <2> SUFFICES ASSUME NEW s1 \in Slot, task'[s1].pc \in CallPC
               PROVE  LET j == task'[s1].inv
                          d == task'[s1].call
                      IN /\ OwnCall(task'[s1], act'[j][d], wait'[j][d], sent'[j][d])
                         /\ \A s2 \in Slot \ {s1} :
                              task'[s2].pc \in CallPC => task'[s2].inv # j \/ task'[s2].call # d
    BY DEF CallOwned, OwnCall
  <2>4. OwnCall(task'[s1], act'[task'[s1].inv][task'[s1].call],
                wait'[task'[s1].inv][task'[s1].call], sent'[task'[s1].inv][task'[s1].call])
    BY <1>1, <2>1, <2>2
  <2> QED BY <2>1, <2>3, <2>4
<1> QED BY <1>1, <1>5, <1>6, <1>7, <1>8 DEF OInv

\* What lockedLease gives a task: the current token, and the calls of its turn.
LEMMA RunningTurn ==
  ASSUME IInv, OInv, NEW s \in Slot, task[s].pc \in ExecPC, lockedLease(s, "running")
  PROVE  LET i == task[s].inv IN
         /\ i \in Inv /\ Current(s) /\ row[i] \in Row /\ row[i].status = "running"
         /\ act[i] \in [Call -> Act] /\ wait[i] \in [Call -> Decision]
         /\ sent[i] \in [Call -> Nat] /\ task[s] \in Task
         /\ TurnActs(task[s], act[i])
         /\ \A c \in Call : CallOK(act[i][c], wait[i][c], sent[i][c])
         /\ task[s].pc \in CallPC =>
              LET c == task[s].call IN
              c \in Call /\ OwnCall(task[s], act[i][c], wait[i][c], sent[i][c])
<1> DEFINE i == task[s].inv
<1>1. TypeOK /\ i \in Inv
  BY LockedInv DEF IInv
<1>2. /\ row[i] \in Row /\ act[i] \in [Call -> Act] /\ wait[i] \in [Call -> Decision]
      /\ sent[i] \in [Call -> Nat] /\ task[s] \in Task
  BY <1>1 DEF TypeOK
<1>3. Current(s) /\ row[i].status = "running"
  BY DEF lockedLease, HoldsLease, Current
<1>4. TurnActs(task[s], act[i])
  BY <1>3 DEF OInv, ExecutorActs, TurnActs
<1>5. task[s].pc \in CallPC =>
        LET c == task[s].call IN
        c \in Call /\ OwnCall(task[s], act[i][c], wait[i][c], sent[i][c])
  BY <1>2, TaskUpdates DEF OInv, CallOwned, OwnCall, CallPC
<1> QED BY <1>1, <1>2, <1>3, <1>4, <1>5 DEF OInv

\* A statement of a turn that goes on: the row stays as it is, the calls of i = task[s].inv
\* become a, their decisions w, and the task k.
TurnMove(s, i, a, w, k) ==
  /\ task[s].pc \in ExecPC /\ lockedLease(s, "running") /\ i = task[s].inv
  /\ row' = row /\ sent' = sent
  /\ act' = [act EXCEPT ![i] = a] /\ wait' = [wait EXCEPT ![i] = w]
  /\ task' = [task EXCEPT ![s] = k]
  /\ \A c \in Call : CallOK(a[c], w[c], sent[i][c])
  /\ \A c \in Call : act[i][c].st # "none" /\ (task[s].pc \in CallPC => c # task[s].call) =>
       a[c].st # "none" /\ a[c].kind = act[i][c].kind /\ w[c] = wait[i][c]
  /\ k.pc \in ExecPC /\ k.inv = i /\ TurnActs(k, a)
  /\ k.pc \in CallPC =>
       /\ OwnCall(k, a[k.call], w[k.call], sent[i][k.call])
       /\ act[i][k.call].st = "none" \/ (task[s].pc \in CallPC /\ k.call = task[s].call)

LEMMA TurnStep ==
  ASSUME IInv, OInv, NEW s \in Slot, NEW i, NEW a, NEW w, NEW k, TurnMove(s, i, a, w, k)
  PROVE  OInv'
<1>1. i \in Inv /\ Current(s) /\ row[i].status = "running" /\ i = task[s].inv
  BY RunningTurn DEF TurnMove
<1>2. /\ act \in [Inv -> [Call -> Act]] /\ wait \in [Inv -> [Call -> Decision]]
      /\ task \in [Slot -> Task]
  BY DEF IInv, TypeOK
<1>3. /\ act'[i] = a /\ wait'[i] = w /\ task'[s] = k
      /\ \A j \in Inv \ {i} : act'[j] = act[j] /\ wait'[j] = wait[j]
      /\ \A s2 \in Slot \ {s} : task'[s2] = task[s2]
  BY <1>1, <1>2 DEF TurnMove
<1>4. RowActs(row[i], a) /\ k.pc \notin LockPC
  BY <1>1 DEF TurnMove, RowActs, Claimable, Queued, Waits, LockPC, ExecPC
<1>5. CallStep(s, i)
  BY <1>1, <1>3, <1>4 DEF TurnMove, CallStep
<1> QED BY <1>5, CallStepKeeps

\* Every waiting call is completed, by its decision.
LEMMA PrepareKeeps ==
  ASSUME IInv, OInv, NEW s \in Slot, prepareQuestionContinuation(s)  PROVE OInv'
<1> DEFINE i == task[s].inv
           a == [c \in Call |-> IF act[i][c].st = "waiting"
                                THEN [act[i][c] EXCEPT !.st = "completed"] ELSE act[i][c]]
           k == [task[s] EXCEPT !.pc = "execute"]
<1>1. task[s].pc = "prepare" /\ task[s].pc \in ExecPC /\ lockedLease(s, "running")
  BY DEF prepareQuestionContinuation, ExecPC
<1>2. /\ i \in Inv /\ act[i] \in [Call -> Act] /\ task[s] \in Task /\ TurnActs(task[s], act[i])
      /\ \A c \in Call : CallOK(act[i][c], wait[i][c], sent[i][c])
  BY <1>1, RunningTurn
<1>3. /\ row' = row /\ sent' = sent /\ act' = [act EXCEPT ![i] = a]
      /\ wait' = [wait EXCEPT ![i] = wait[i]] /\ task' = [task EXCEPT ![s] = k]
  BY <1>2 DEF prepareQuestionContinuation, IInv, TypeOK
<1>4. \A c \in Call :
        /\ act[i][c].st = "waiting" => a[c].st = "completed" /\ DecidedCall(i, c)
        /\ act[i][c].st # "waiting" => a[c].st = act[i][c].st
        /\ a[c].kind = act[i][c].kind
  BY <1>2 DEF prepareQuestionContinuation, Act
<1>5. k.pc = "execute" /\ k.inv = i
  BY <1>2 DEF Task
<1> HIDE DEF a, k
<1>6. \A c \in Call : CallOK(a[c], wait[i][c], sent[i][c])
  <2> SUFFICES ASSUME NEW c \in Call  PROVE CallOK(a[c], wait[i][c], sent[i][c])
    OBVIOUS
  <2>1. CallOK(act[i][c], wait[i][c], sent[i][c]) /\ a[c].kind = act[i][c].kind
    BY <1>2, <1>4
  <2>2. CASE act[i][c].st = "waiting"
    <3>1. a[c].st = "completed" /\ DecidedCall(i, c)
      BY <1>4, <2>2
    <3> QED BY <2>1, <2>2, <3>1 DEF CallOK, DecidedCall
  <2>3. CASE act[i][c].st # "waiting"
    <3>1. a[c].st = act[i][c].st
      BY <1>4, <2>3
    <3> QED BY <2>1, <3>1 DEF CallOK
  <2> QED BY <2>2, <2>3
<1>7. TurnActs(k, a)
  BY <1>1, <1>2, <1>4, <1>5 DEF TurnActs, CallPC
<1>8. k.pc \in ExecPC /\ k.pc \notin CallPC
  BY <1>5 DEF ExecPC, CallPC
<1>9. TurnMove(s, i, a, wait[i], k)
  BY <1>1, <1>3, <1>4, <1>5, <1>6, <1>7, <1>8 DEF TurnMove
<1> QED BY <1>9, TurnStep

\* A call is recorded before it is made; its id was never used.
LEMMA RecordKeeps ==
  ASSUME IInv, OInv, NEW s \in Slot, NEW c \in Call, NEW kind \in Kinds, recordAction(s, c, kind)
  PROVE  OInv'
<1> DEFINE i == task[s].inv
           v == IF kind = "question" THEN "pending" ELSE wait[i][c]
           a == [act[i] EXCEPT ![c] = [st |-> "intent", kind |-> kind, fence |-> row[i].fence]]
           w == [wait[i] EXCEPT ![c] = v]
           k == [task[s] EXCEPT !.pc = "recorded", !.call = c]
<1>1. task[s].pc = "execute" /\ task[s].pc \in ExecPC /\ lockedLease(s, "running")
  BY DEF recordAction, ExecPC
<1>2. /\ i \in Inv /\ act[i] \in [Call -> Act] /\ wait[i] \in [Call -> Decision]
      /\ sent[i] \in [Call -> Nat] /\ task[s] \in Task /\ TurnActs(task[s], act[i])
      /\ \A d \in Call : CallOK(act[i][d], wait[i][d], sent[i][d])
  BY <1>1, RunningTurn
<1>3. /\ row' = row /\ sent' = sent /\ act[i][c].st = "none"
      /\ act' = [act EXCEPT ![i] = a] /\ task' = [task EXCEPT ![s] = k]
  BY DEF recordAction
<1>w. wait' = [wait EXCEPT ![i] = w]
  <2>1. CASE kind = "question"
    BY <2>1 DEF recordAction
  <2>2. CASE kind # "question"
    <3>1. wait' = wait /\ w = wait[i]
      BY <1>2, <2>2 DEF recordAction
    <3> HIDE DEF w
    <3> QED BY <1>2, <3>1 DEF IInv, TypeOK
  <2> QED BY <2>1, <2>2
<1>4. /\ a[c].st = "intent" /\ a[c].kind = kind /\ w[c] = v
      /\ \A d \in Call \ {c} : a[d] = act[i][d] /\ w[d] = wait[i][d]
  BY <1>2
<1>5. k.pc = "recorded" /\ k.inv = i /\ k.call = c
  BY <1>2 DEF Task
<1>s. sent[i][c] = 0
  <2>1. CallOK(act[i][c], wait[i][c], sent[i][c]) /\ sent[i][c] \in Nat
    BY <1>2
  <2> QED BY <1>3, <2>1 DEF CallOK
<1> HIDE DEF a, w, k, v
<1>6. ASSUME NEW d \in Call  PROVE CallOK(a[d], w[d], sent[i][d])
  <2>1. CASE d = c
    BY <1>4, <1>s, <2>1 DEF CallOK
  <2>2. CASE d # c
    BY <1>2, <1>4, <2>2
  <2> QED BY <2>1, <2>2
<1>7. TurnActs(k, a)
  BY <1>1, <1>2, <1>4, <1>5 DEF TurnActs, CallPC
<1>8. k.pc \in CallPC =>
        /\ OwnCall(k, a[k.call], w[k.call], sent[i][k.call])
        /\ act[i][k.call].st = "none" \/ (task[s].pc \in CallPC /\ k.call = task[s].call)
  BY <1>3, <1>4, <1>5, <1>s DEF OwnCall
<1>9. \A d \in Call : act[i][d].st # "none" /\ (task[s].pc \in CallPC => d # task[s].call) =>
        a[d].st # "none" /\ a[d].kind = act[i][d].kind /\ w[d] = wait[i][d]
  BY <1>3, <1>4
<1>10. k.pc \in ExecPC /\ k.inv = i
  BY <1>5 DEF ExecPC
<1>11. TurnMove(s, i, a, w, k)
  BY <1>1, <1>3, <1>w, <1>6, <1>7, <1>8, <1>9, <1>10 DEF TurnMove
<1> QED BY <1>11, TurnStep

\* A call is completed by its result, or with a report that nothing was asked.
LEMMA CompleteKeeps ==
  ASSUME IInv, OInv, NEW s \in Slot, completeAction(s)  PROVE OInv'
<1> DEFINE i == task[s].inv
           c == task[s].call
           a == [act[i] EXCEPT ![c].st = "completed"]
           k == [task[s] EXCEPT !.pc = "execute", !.call = None]
<1>1. /\ task[s].pc = "dispatched" /\ task[s].pc \in ExecPC /\ task[s].pc \in CallPC
      /\ lockedLease(s, "running")
  BY DEF completeAction, ExecPC, CallPC
<1>2. /\ i \in Inv /\ act[i] \in [Call -> Act] /\ task[s] \in Task /\ TurnActs(task[s], act[i])
      /\ \A d \in Call : CallOK(act[i][d], wait[i][d], sent[i][d])
      /\ c \in Call /\ OwnCall(task[s], act[i][c], wait[i][c], sent[i][c])
  BY <1>1, RunningTurn
<1>3. /\ row' = row /\ sent' = sent /\ act' = [act EXCEPT ![i] = a]
      /\ task' = [task EXCEPT ![s] = k]
  BY DEF completeAction
<1>w. wait' = [wait EXCEPT ![i] = wait[i]]
  BY <1>2 DEF completeAction, IInv, TypeOK
<1>4. /\ a[c].st = "completed" /\ a[c].kind = act[i][c].kind
      /\ \A d \in Call \ {c} : a[d] = act[i][d]
  BY <1>2 DEF Act
<1>5. k.pc = "execute" /\ k.inv = i
  BY <1>2 DEF Task
<1> HIDE DEF a, k
<1>6. ASSUME NEW d \in Call  PROVE CallOK(a[d], wait[i][d], sent[i][d])
  <2>1. CASE d = c
    <3>1. CallOK(act[i][c], wait[i][c], sent[i][c])
      BY <1>2
    <3> QED BY <1>1, <1>2, <1>4, <2>1, <3>1 DEF CallOK, OwnCall
  <2>2. CASE d # c
    BY <1>2, <1>4, <2>2
  <2> QED BY <2>1, <2>2
<1>7. TurnActs(k, a)
  BY <1>1, <1>2, <1>4, <1>5 DEF TurnActs, CallPC
<1>8. k.pc \in ExecPC /\ k.pc \notin CallPC
  BY <1>5 DEF ExecPC, CallPC
<1>9. \A d \in Call : act[i][d].st # "none" /\ (task[s].pc \in CallPC => d # c) =>
        a[d].st # "none" /\ a[d].kind = act[i][d].kind
  BY <1>1, <1>4
<1>10. TurnMove(s, i, a, wait[i], k)
  BY <1>1, <1>3, <1>w, <1>5, <1>6, <1>7, <1>8, <1>9 DEF TurnMove
<1> QED BY <1>10, TurnStep

\* The request for help is there before its call waits for it.
LEMMA RequestKeeps ==
  ASSUME IInv, OInv, NEW s \in Slot, requestAgent(s)  PROVE OInv'
<1> DEFINE i == task[s].inv
           c == task[s].call
           w == [wait[i] EXCEPT ![c] = "pending"]
<1>1. /\ task[s].pc = "recorded" /\ task[s].pc \in ExecPC /\ task[s].pc \in CallPC
      /\ lockedLease(s, "running")
  BY DEF requestAgent, ExecPC, CallPC
<1>2. /\ i \in Inv /\ wait[i] \in [Call -> Decision] /\ TurnActs(task[s], act[i])
      /\ \A d \in Call : CallOK(act[i][d], wait[i][d], sent[i][d])
      /\ c \in Call /\ OwnCall(task[s], act[i][c], wait[i][c], sent[i][c])
  BY <1>1, RunningTurn
<1>3. /\ row' = row /\ sent' = sent /\ act[i][c].st = "intent" /\ wait' = [wait EXCEPT ![i] = w]
  BY DEF requestAgent, OwnIntent
<1>w. act' = [act EXCEPT ![i] = act[i]] /\ task' = [task EXCEPT ![s] = task[s]]
  BY <1>2 DEF requestAgent, IInv, TypeOK
<1>4. w[c] = "pending" /\ \A d \in Call \ {c} : w[d] = wait[i][d]
  BY <1>2
<1> HIDE DEF w
<1>6. ASSUME NEW d \in Call  PROVE CallOK(act[i][d], w[d], sent[i][d])
  <2>1. CASE d = c
    <3>1. CallOK(act[i][c], wait[i][c], sent[i][c])
      BY <1>2
    <3> QED BY <1>3, <2>1, <3>1 DEF CallOK
  <2>2. CASE d # c
    BY <1>2, <1>4, <2>2
  <2> QED BY <2>1, <2>2
<1>8. task[s].pc \in CallPC =>
        /\ OwnCall(task[s], act[i][c], w[c], sent[i][c])
        /\ act[i][c].st = "none" \/ (task[s].pc \in CallPC /\ c = task[s].call)
  BY <1>1, <1>2 DEF OwnCall
<1>9. \A d \in Call : act[i][d].st # "none" /\ (task[s].pc \in CallPC => d # task[s].call) =>
        act[i][d].st # "none" /\ act[i][d].kind = act[i][d].kind /\ w[d] = wait[i][d]
  BY <1>1, <1>4
<1>10. TurnMove(s, i, act[i], w, task[s])
  BY <1>1, <1>2, <1>3, <1>w, <1>6, <1>8, <1>9 DEF TurnMove
<1> QED BY <1>10, TurnStep

\* A call is parked: it is the only one that waits, and it decides what is kept.
LEMMA ParkKeeps ==
  ASSUME IInv, OInv, NEW s \in Slot, task[s].pc = "recorded", lockedLease(s, "running"),
         NEW kind \in AllKinds \ {"tool"}, NEW fence, NEW decision,
         park(s, kind, fence, decision, kind \notin BrowserKinds)
  PROVE  OInv'
<1> DEFINE i == task[s].inv
           c == task[s].call
           q == Parked(row[i], kind \notin BrowserKinds)
           a == [act[i] EXCEPT ![c] = [st |-> "waiting", kind |-> kind, fence |-> fence]]
           w == [wait[i] EXCEPT ![c] = decision]
<1>1. task[s].pc \in ExecPC /\ task[s].pc \in CallPC
  BY DEF ExecPC, CallPC
<1>2. /\ i \in Inv /\ Current(s) /\ row[i] \in Row /\ row[i].status = "running"
      /\ act[i] \in [Call -> Act] /\ wait[i] \in [Call -> Decision] /\ TurnActs(task[s], act[i])
      /\ \A d \in Call : CallOK(act[i][d], wait[i][d], sent[i][d])
      /\ c \in Call /\ OwnCall(task[s], act[i][c], wait[i][c], sent[i][c])
  BY <1>1, RunningTurn
<1>3. /\ row' = [row EXCEPT ![i] = q] /\ act' = [act EXCEPT ![i] = a]
      /\ wait' = [wait EXCEPT ![i] = w] /\ task' = [task EXCEPT ![s] = Idle] /\ sent' = sent
  BY DEF park
<1>4. /\ a[c].st = "waiting" /\ a[c].kind = kind
      /\ \A d \in Call \ {c} : a[d] = act[i][d] /\ w[d] = wait[i][d]
      /\ q.status = "waiting_for_user" /\ q.reserves = (kind \notin BrowserKinds)
      /\ Idle.pc = "idle"
  BY <1>2 DEF Parked, Released, Row, Idle
<1> HIDE DEF a, w, q
<1>5. \A d \in Call \ {c} : a[d].st \notin {"intent", "waiting"}
  BY <1>1, <1>2, <1>4 DEF TurnActs
<1>6. RowActs(q, a)
  <2>1. NoIntent(a) /\ Awaits(a) /\ (BrowserWait(a) <=> kind \in BrowserKinds)
    BY <1>2, <1>4, <1>5 DEF NoIntent, Awaits, BrowserWait
  <2> HIDE DEF NoIntent, Awaits, BrowserWait
  <2> QED BY <1>4, <2>1 DEF RowActs, Claimable
<1>7. ASSUME NEW d \in Call  PROVE CallOK(a[d], w[d], sent[i][d])
  <2>1. CASE d = c
    <3>1. CallOK(act[i][c], wait[i][c], sent[i][c])
      BY <1>2
    <3> QED BY <1>4, <2>1, <3>1 DEF CallOK
  <2>2. CASE d # c
    BY <1>2, <1>4, <2>2
  <2> QED BY <2>1, <2>2
<1>8. /\ row'[i] = q /\ act'[i] = a /\ wait'[i] = w /\ task'[s] = Idle
      /\ \A j \in Inv \ {i} : row'[j] = row[j] /\ act'[j] = act[j] /\ wait'[j] = wait[j]
      /\ \A s2 \in Slot \ {s} : task'[s2] = task[s2]
  BY <1>2, <1>3 DEF IInv, TypeOK
<1>9. /\ row'[i].status \notin Held
      /\ task'[s].pc \notin LockPC \cup ExecPC \cup CallPC
  BY <1>4, <1>8 DEF Held, LockPC, ExecPC, CallPC
<1>10. \A d \in Call : act[i][d].st # "none" /\ (task[s].pc \in CallPC => d # task[s].call) =>
         a[d].st # "none" /\ a[d].kind = act[i][d].kind /\ w[d] = wait[i][d]
  BY <1>1, <1>4
<1>11. CallStep(s, i)
  BY <1>2, <1>3, <1>6, <1>7, <1>8, <1>9, <1>10 DEF CallStep
<1> QED BY <1>11, CallStepKeeps

LEMMA ParksKeep == ASSUME IInv, OInv, NEW s \in Slot, Parks(s)  PROVE OInv'
<1>1. task[s].pc = "recorded" /\ lockedLease(s, "running")
  BY DEF Parks, parkQuestion, parkReview, parkBrowserHandoff, parkReturnControl
<1>2. \E kind \in AllKinds \ {"tool"} : \E fence, decision :
        park(s, kind, fence, decision, kind \notin BrowserKinds)
  <2>k. /\ {"question", "review", "handoff", "return"} \subseteq AllKinds \ {"tool"}
        /\ ("question" \notin BrowserKinds) = TRUE /\ ("review" \notin BrowserKinds) = TRUE
        /\ ("handoff" \notin BrowserKinds) = FALSE /\ ("return" \notin BrowserKinds) = FALSE
    BY DEF AllKinds, BrowserKinds
  <2>1. CASE parkQuestion(s)
    BY <2>k, <2>1 DEF parkQuestion
  <2>2. CASE parkReview(s)
    BY <2>k, <2>2 DEF parkReview
  <2>3. CASE parkBrowserHandoff(s)
    BY <2>k, <2>3 DEF parkBrowserHandoff
  <2>4. CASE parkReturnControl(s)
    BY <2>k, <2>4 DEF parkReturnControl
  <2> QED BY <2>1, <2>2, <2>3, <2>4 DEF Parks
<1> QED BY <1>1, <1>2, ParkKeeps

----------------------------------------------------------------------------
(* The invariant and what follows.                                         *)

LEMMA InitOInv == Init => OInv
<1> SUFFICES ASSUME Init  PROVE OInv
  OBVIOUS
<1>1. /\ \A i \in Inv : row[i].status = "absent"
      /\ \A i \in Inv, c \in Call : /\ act[i][c].st = "none" /\ wait[i][c] = None
                                    /\ sent[i][c] = 0
  BY DEF Init, NoRow, NoAct
<1>2. \A s \in Slot : task[s].pc = "idle"
  BY DEF Init, Idle
<1>3. \A i \in Inv : Untouched(act[i]) /\ NoIntent(act[i])
  BY <1>1 DEF Untouched, NoIntent
<1>4. \A i \in Inv : RowActs(row[i], act[i])
  BY <1>1, <1>3 DEF RowActs, Claimable, Queued, Waits
<1>5. \A i \in Inv, c \in Call : CallOK(act[i][c], wait[i][c], sent[i][c])
  BY <1>1 DEF CallOK
<1>6. LockedActs /\ ExecutorActs /\ CallOwned
  BY <1>2 DEF LockedActs, ExecutorActs, CallOwned, Current, LockPC, ExecPC, CallPC
<1> QED BY <1>4, <1>5, <1>6 DEF OInv

LEMMA OutcomeStep == ASSUME IInv, OInv, [Next]_vars  PROVE OInv'
<1>0. TypeOK
  BY DEF IInv
<1>1. ASSUME Calm, task' = task  PROVE OInv'
  <2>1. LockedActs'
    BY <1>1, LocksKept DEF Calm
  <2> QED BY <1>0, <1>1, <2>1, CalmKeeps
<1>2. CASE Owner
  BY <1>1, <1>2, OwnerCalm
<1>3. ASSUME NEW i \in Inv, Maintain(i) \/ Time(i)  PROVE OInv'
  BY <1>1, <1>3, MaintainCalm
<1>4. ASSUME NEW s \in Slot, Claim(s) \/ crash(s)  PROVE OInv'
  BY <1>0, <1>4, ClaimCalm, CalmKeeps, LeaseKeepsCalls DEF Claim
<1>5. ASSUME NEW s \in Slot, Execute(s)  PROVE OInv'
  BY <1>0, <1>5, TurnCalm, CalmKeeps, PrepareKeeps, RecordKeeps, DispatchKeeps, CompleteKeeps,
     RequestKeeps, ParksKeep DEF Execute
<1>6. CASE UNCHANGED vars
  BY <1>6 DEF vars, OInv, LockedActs, ExecutorActs, CallOwned, Current
<1> QED BY <1>2, <1>3, <1>4, <1>5, <1>6 DEF Next

\* What the calls of an invocation have to do with its row, its tasks and its
\* decisions (OInv), in every state of the queue.
THEOREM OutcomeInvariant == Spec => []OInv
<1>1. IInv /\ OInv /\ [Next]_vars => OInv'
  BY OutcomeStep
<1> QED BY <1>1, InitOInv, InvariantHolds, PTL DEF Spec

\* A call that may have been dispatched and has no result is never behind an
\* invocation that can be claimed or is being preflighted: whatever crashed and
\* was recovered, finish and recoverExpired leave it for review.
THEOREM AmbiguousWorkWaits == Spec => []NoBlindRetry
<1>1. TypeOK /\ OInv => NoBlindRetry
  BY DEF OInv, RowActs, NoIntent, NoBlindRetry
<1> QED BY <1>1, OutcomeInvariant, TypeCorrect, PTL

\* finish records success or failure only when no call of the turn is open.
THEOREM OutcomeIsHonest == Spec => []HonestOutcome
<1>1. OInv => HonestOutcome
  BY DEF OInv, RowActs, Settled, HonestOutcome
<1> QED BY <1>1, OutcomeInvariant, PTL

\* A parked call is completed only by its decision, for any number of calls
\* that wait together (prepareQuestionContinuation).
THEOREM DecisionResumes == Spec => []ResumedByDecision
<1>1. OInv => ResumedByDecision
  BY DEF OInv, CallOK, ResumedByDecision
<1> QED BY <1>1, OutcomeInvariant, PTL

\* No call of an invocation leaves the service twice, although the task that
\* makes it may have lost its lease to another (recordAction, beforeTool).
THEOREM SentOnce == Spec => []DispatchedOnce
<1>1. OInv => DispatchedOnce
  BY DEF OInv, CallOK, DispatchedOnce
<1> QED BY <1>1, OutcomeInvariant, PTL

\* An invocation that can be claimed has its thread exactly when it waits for
\* an answer or a review, whichever of park, defer and recoverExpired left it so.
THEOREM ReservationMatchesWait == Spec => []ReservationFollowsWait
<1>1. TypeOK /\ OInv => ReservationFollowsWait
  <2> SUFFICES ASSUME TypeOK, OInv, NEW i \in Inv, row[i].status \in Claimable
               PROVE  row[i].reserves <=>
                        /\ Awaits(act[i])
                        /\ \A c \in Call : act[i][c].st = "waiting" =>
                             act[i][c].kind \in {"question", "review"}
    BY DEF ReservationFollowsWait, Awaits
  <2>1. row[i].reserves <=> Awaits(act[i]) /\ ~BrowserWait(act[i])
    BY DEF OInv, RowActs
  <2>2. \A c \in Call : act[i][c].st = "waiting" =>
          act[i][c].kind \in {"question", "review"} \cup BrowserKinds
    BY DEF OInv, CallOK, TypeOK, Act, AllKinds
  <2>3. BrowserKinds \cap {"question", "review"} = {}
    BY DEF BrowserKinds
  <2> QED BY <2>1, <2>2, <2>3 DEF BrowserWait
<1> QED BY <1>1, OutcomeInvariant, TypeCorrect, PTL

\* What expired never made a call: a deadline that passes during a continuation,
\* also one that was deferred or recovered, does not end it (expireQueued, claim).
THEOREM ExpiryBeforeStart == Spec => []ExpiredNeverRan
<1>1. TypeOK /\ OInv => ExpiredNeverRan
  <2> SUFFICES ASSUME TypeOK, OInv, NEW i \in Inv, row[i].status = "expired", NEW c \in Call
               PROVE  act[i][c].st = "none" /\ sent[i][c] = 0
    BY DEF ExpiredNeverRan
  <2>1. act[i][c].st = "none"
    BY DEF OInv, RowActs, Untouched
  <2>2. sent[i][c] \in Nat /\ ~(sent[i][c] > 0)
    BY <2>1 DEF OInv, CallOK, TypeOK
  <2> QED BY <2>1, <2>2
<1> QED BY <1>1, OutcomeInvariant, TypeCorrect, PTL

\* A statement of one task, and its death, leave the other tasks alone.
LEMMA OthersKept ==
  ASSUME TypeOK, NEW s \in Slot, Claim(s) \/ Execute(s) \/ crash(s)
  PROVE  \A s2 \in Slot \ {s} : task'[s2] = task[s2]
<1>0. ASSUME NEW k, task' = [task EXCEPT ![s] = k]
      PROVE  \A s2 \in Slot \ {s} : task'[s2] = task[s2]
  BY <1>0 DEF TypeOK
<1>1. CASE Claim(s)
  <2>1. CASE claimScan(s)
    BY <1>0, <2>1 DEF claimScan
  <2>2. CASE claimLock(s)
    BY <1>0, <2>2 DEF claimLock
  <2>3. CASE claimExpire(s) \/ claimCount(s) \/ claimLease(s)
    BY <1>0, <2>3 DEF claimExpire, claimCount, claimLease
  <2> QED BY <1>1, <2>1, <2>2, <2>3 DEF Claim
<1>2. CASE Execute(s)
  <2>1. CASE \/ start(s) \/ prepareQuestionContinuation(s) \/ dispatch(s)
             \/ reportUnavailable(s) \/ completeAction(s)
    BY <1>0, <2>1 DEF start, prepareQuestionContinuation, dispatch, reportUnavailable,
       completeAction
  <2>2. CASE requestAgent(s) \/ Parks(s)
    BY <1>0, <2>2 DEF requestAgent, Parks, parkQuestion, parkReview, parkBrowserHandoff,
       parkReturnControl, park
  <2>3. ASSUME NEW w \in Delays, defer(s, w)
        PROVE  \A s2 \in Slot \ {s} : task'[s2] = task[s2]
    BY <1>0, <2>3 DEF defer
  <2>4. ASSUME NEW c \in Call, NEW kind \in Kinds, recordAction(s, c, kind)
        PROVE  \A s2 \in Slot \ {s} : task'[s2] = task[s2]
    BY <1>0, <2>4 DEF recordAction
  <2>5. ASSUME NEW o, finish(s, o)
        PROVE  \A s2 \in Slot \ {s} : task'[s2] = task[s2]
    BY <1>0, <2>5 DEF finish
  <2> QED BY <1>2, <2>1, <2>2, <2>3, <2>4, <2>5 DEF Execute
<1>3. CASE crash(s)
  BY <1>0, <1>3 DEF crash
<1> QED BY <1>1, <1>2, <1>3

\* A task whose token is old changes no table, in any of the statements of its
\* turn: lockedLease is the first thing each of them does.
THEOREM OldTokenFenced == Spec => FencedOut
<1>1. TypeOK /\ [Next]_vars =>
        [\A s \in Slot : /\ task[s].pc \in ExecPC /\ task[s].fence # row[task[s].inv].fence
                         /\ task'[s] # task[s]
                         => UNCHANGED <<row, act, wait>>]_vars
  <2> SUFFICES ASSUME TypeOK, Next, NEW s \in Slot, task[s].pc \in ExecPC,
                      task[s].fence # row[task[s].inv].fence, task'[s] # task[s]
               PROVE  UNCHANGED <<row, act, wait>>
    OBVIOUS
  <2>1. ~Owner /\ \A i \in Inv : ~Maintain(i) /\ ~Time(i)
    BY DEF Owner, admit, requestCancel, abandonReviewed, decide, takeControl, requestClose,
           deleteThread, releaseAuthority, Maintain, Time, expireQueued, recoverEnded, recoverLease,
           leaseLapses, retryDue, deadlinePasses
  <2>2. PICK s2 \in Slot : Claim(s2) \/ Execute(s2) \/ crash(s2)
    BY <2>1 DEF Next
  <2>3. s2 = s
    BY <2>2, OthersKept
  <2>4. ~Claim(s)
    BY DEF Claim, claimScan, claimLock, claimExpire, claimCount, claimLease, ExecPC
  <2>5. ~HoldsLease(s) /\ \A st : ~lockedLease(s, st)
    BY DEF lockedLease, HoldsLease
  <2>6. dispatch(s) \/ reportUnavailable(s) \/ crash(s)
    BY <2>2, <2>3, <2>4, <2>5 DEF Execute, Parks, start, prepareQuestionContinuation, defer,
       recordAction, completeAction, requestAgent, parkQuestion, parkReview,
       parkBrowserHandoff, parkReturnControl, finish
  <2> QED BY <2>6 DEF dispatch, reportUnavailable, crash
<1> QED BY <1>1, TypeCorrect, PTL DEF Spec, FencedOut
=============================================================================
