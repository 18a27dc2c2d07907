----------------------- MODULE InvocationQueueProofs -----------------------
(***************************************************************************)
(* Machine-checked proofs about InvocationQueue, for any number of         *)
(* threads, Buds, processes, tasks, calls and invocations.                 *)
(***************************************************************************)
EXTENDS InvocationQueue, TLAPS

\* The initial row is a row.
LEMMA NoRowType == NoRow \in Row
BY ConstantsAssumption DEF NoRow, Row, Status, Claimable, Queued, Waits, Held, Terminal, None

\* The statuses that the actions write.
LEMMA StatusType ==
  /\ Claimable \subseteq Status /\ Queued \subseteq Claimable /\ Waits \subseteq Queued
  /\ {"pending", "retry_wait", "waiting_for_user"} \subseteq Claimable
  /\ {"leased", "running", "needs_review"} \subseteq Status
  /\ {"succeeded", "failed", "canceled", "expired"} \subseteq Status
BY DEF Status, Claimable, Queued, Waits, Held, Terminal

\* Every update statement writes a row.
LEMMA RowUpdates ==
  ASSUME NEW r \in Row
  PROVE  /\ CancelAsked(r) \in Row /\ Canceled(r) \in Row /\ Ended(r) \in Row
         /\ Expired(r) \in Row /\ Started(r) \in Row
         /\ \A w \in Worker : Leased(r, w) \in Row
         /\ \A k \in BOOLEAN : Parked(r, k) \in Row /\ Recovered(r, k) \in Row
         /\ \A st \in Status, k \in BOOLEAN :
              Released(r, st, k) \in Row /\ Deferred(r, st, k) \in Row
<1>1. r.fence + 1 \in Nat /\ r.attempt + 1 \in Nat
  BY DEF Row
<1>2. CancelAsked(r) \in Row /\ Canceled(r) \in Row /\ Ended(r) \in Row
  BY <1>1, StatusType DEF CancelAsked, Canceled, Ended, Row
<1>3. Expired(r) \in Row /\ Started(r) \in Row
  BY StatusType DEF Expired, Started, Row
<1>4. \A w \in Worker : Leased(r, w) \in Row
  BY <1>1, StatusType DEF Leased, Row
<1>5. ASSUME NEW st \in Status, NEW k \in BOOLEAN
      PROVE  Released(r, st, k) \in Row /\ Deferred(r, st, k) \in Row
  BY <1>1 DEF Released, Deferred, Row
<1>6. ASSUME NEW k \in BOOLEAN
      PROVE  Parked(r, k) \in Row
  BY <1>1, StatusType DEF Released, Parked, Row
<1>7. ASSUME NEW k \in BOOLEAN
      PROVE  Recovered(r, k) \in Row
  <2>1. RecoveredStatus(r) \in Status
    BY StatusType DEF RecoveredStatus
  <2> QED BY <1>1, <2>1 DEF Released, Recovered, Row
<1> QED BY <1>2, <1>3, <1>4, <1>5, <1>6, <1>7

\* The passing of time leaves a row.
LEMMA TimeUpdates ==
  ASSUME NEW r \in Row
  PROVE  /\ [r EXCEPT !.live = FALSE] \in Row
         /\ [r EXCEPT !.due = TRUE] \in Row
         /\ [r EXCEPT !.deadline = "elapsed"] \in Row
BY DEF Row

\* An admitted row is a row.
LEMMA AdmittedType ==
  ASSUME NEW r \in Row, NEW t \in Thread, NEW o \in Origins, NEW d \in Deadlines
  PROVE  Admitted(r, t, o, d) \in Row
<1>1. /\ "pending" \in Status /\ o \in {"human", "automation"}
      /\ d \in {"none", "ahead", "elapsed"}
  BY ConstantsAssumption, StatusType
<1> QED BY <1>1, ZenonT(60) DEF Admitted, Row

\* Pending decisions that are canceled stay decisions.
LEMMA CancelPendingType ==
  ASSUME NEW w \in [Call -> Decision] PROVE CancelPending(w) \in [Call -> Decision]
BY DEF CancelPending, Decision

\* Every step of a task leaves a task.
LEMMA IdleType == Idle \in Task
BY DEF Idle, Task, LockPC, ExecPC

\* The updates the steps make to a task that has a claim, and what its pc tells of it.
LEMMA TaskUpdates ==
  ASSUME NEW k \in Task
  PROVE  /\ \A s \in SUBSET Inv : [Idle EXCEPT !.pc = "scan", !.cands = s] \in Task
         /\ \A i \in Inv, p \in LockPC : [Idle EXCEPT !.inv = i, !.pc = p] \in Task
         /\ k.pc \in LockPC => /\ [k EXCEPT !.pc = "grant"] \in Task
                               /\ \A n \in Nat :
                                    [k EXCEPT !.pc = "preflight", !.fence = n] \in Task
         /\ k.pc \in ExecPC =>
              /\ [k EXCEPT !.pc = "prepare"] \in Task
              /\ [k EXCEPT !.pc = "execute"] \in Task
              /\ [k EXCEPT !.pc = "execute", !.call = None] \in Task
              /\ \A c \in Call : [k EXCEPT !.pc = "recorded", !.call = c] \in Task
         /\ k.pc = "recorded" => [k EXCEPT !.pc = "dispatched"] \in Task
         /\ k.pc \in LockPC \cup ExecPC => k.inv \in Inv
         /\ k.pc \in {"recorded", "dispatched"} => k.call \in Call
         /\ k.cands \subseteq Inv /\ k.fence \in Nat
<1> USE DEF Task, LockPC, ExecPC, ClaimPC
<1>1. \A s \in SUBSET Inv : [Idle EXCEPT !.pc = "scan", !.cands = s] \in Task
  BY DEF Idle
<1>2. \A i \in Inv, p \in LockPC : [Idle EXCEPT !.inv = i, !.pc = p] \in Task
  BY ZenonT(60) DEF Idle
<1>3. k.pc \in LockPC => /\ [k EXCEPT !.pc = "grant"] \in Task
                         /\ \A n \in Nat :
                              [k EXCEPT !.pc = "preflight", !.fence = n] \in Task
  BY ZenonT(60)
<1>4. k.pc \in ExecPC =>
        /\ [k EXCEPT !.pc = "prepare"] \in Task
        /\ [k EXCEPT !.pc = "execute"] \in Task
        /\ [k EXCEPT !.pc = "execute", !.call = None] \in Task
        /\ \A c \in Call : [k EXCEPT !.pc = "recorded", !.call = c] \in Task
  OBVIOUS
<1>5. k.pc = "recorded" => [k EXCEPT !.pc = "dispatched"] \in Task
  OBVIOUS
<1>6. /\ k.pc \in LockPC \cup ExecPC => k.inv \in Inv
      /\ k.pc \in {"recorded", "dispatched"} => k.call \in Call
      /\ k.cands \subseteq Inv /\ k.fence \in Nat
  OBVIOUS
<1> QED BY <1>1, <1>2, <1>3, <1>4, <1>5, <1>6

\* Every write of an action leaves an action.
LEMMA ActUpdates ==
  ASSUME NEW a \in Act
  PROVE  /\ [a EXCEPT !.st = "completed"] \in Act
         /\ \A n \in Nat : [a EXCEPT !.fence = n] \in Act
         /\ \A st \in {"intent", "waiting"}, k \in AllKinds, n \in Nat :
              [st |-> st, kind |-> k, fence |-> n] \in Act
BY DEF Act

\* The initial state has the types.
LEMMA InitType == Init => TypeOK
BY NoRowType, IdleType, ConstantsAssumption
DEF Init, TypeOK, Act, NoAct, AllKinds, Decision

\* Every step of the owner keeps the types.
LEMMA OwnerType == TypeOK /\ Owner => TypeOK'
<1> SUFFICES ASSUME TypeOK, Owner PROVE TypeOK'
  OBVIOUS
<1> USE DEF TypeOK
<1>1. ASSUME NEW i \in Inv, NEW t \in Thread, NEW o \in Origins, NEW d \in Deadlines,
             admit(i, t, o, d)
      PROVE  TypeOK'
  <2>1. row' \in [Inv -> Row]
    BY <1>1, RowUpdates, AdmittedType DEF admit
  <2>2. wait' \in [Inv -> [Call -> Decision]]
    BY <1>1, CancelPendingType DEF admit
  <2> QED BY <1>1, <2>1, <2>2 DEF admit
<1>2. ASSUME NEW i \in Inv, requestCancel(i) \/ abandonReviewed(i) PROVE TypeOK'
  <2>0. \/ row' = [row EXCEPT ![i] = Canceled(row[i])]
        \/ row' = [row EXCEPT ![i] = CancelAsked(row[i])]
    BY <1>2 DEF requestCancel, abandonReviewed
  <2>a. Canceled(row[i]) \in Row /\ CancelAsked(row[i]) \in Row
    BY RowUpdates
  <2>1. row' \in [Inv -> Row]
    BY <2>0, <2>a, SMTT(60)
  <2>2. wait' \in [Inv -> [Call -> Decision]]
    BY <1>2, CancelPendingType DEF requestCancel, abandonReviewed
  <2> QED BY <1>2, <2>1, <2>2 DEF requestCancel, abandonReviewed
<1>3. ASSUME NEW i \in Inv, NEW c \in Call, decide(i, c) PROVE TypeOK'
  <2>1. [wait[i] EXCEPT ![c] = "resolved"] \in [Call -> Decision]
    BY DEF Decision
  <2> QED BY <1>3, <2>1 DEF decide
<1>4. ASSUME NEW t \in Thread, takeControl(t) \/ requestClose(t) \/ deleteThread(t)
      PROVE  TypeOK'
  BY <1>4, ConstantsAssumption DEF takeControl, requestClose, deleteThread
<1>5. ASSUME NEW b \in Bud, releaseAuthority(b) PROVE TypeOK'
  <2>1. wait' \in [Inv -> [Call -> Decision]]
    BY <1>5 DEF releaseAuthority, Decision
  <2> QED BY <1>5, <2>1 DEF releaseAuthority
<1> QED BY <1>1, <1>2, <1>3, <1>4, <1>5 DEF Owner

\* Every statement of claim keeps the types.
LEMMA ClaimType == ASSUME TypeOK, NEW s \in Slot, Claim(s) PROVE TypeOK'
<1> USE DEF TypeOK
<1>0. task[s] \in Task
  BY SMTT(60)
<1>1. CASE claimScan(s)
  BY <1>0, <1>1, TaskUpdates DEF claimScan
<1>2. CASE claimLock(s)
  <2>1. \E k \in Task : task' = [task EXCEPT ![s] = k]
    <3>1. CASE task' = [task EXCEPT ![s] = Idle]
      BY <3>1, IdleType, ZenonT(60)
    <3>2. ASSUME NEW i \in task[s].cands, NEW p \in {"expire", "count", "lease"},
                 task' = [task EXCEPT ![s] = [Idle EXCEPT !.inv = i, !.pc = p]]
          PROVE  \E k \in Task : task' = [task EXCEPT ![s] = k]
      BY <1>0, <3>2, TaskUpdates DEF LockPC
    <3> QED BY <1>2, <3>1, <3>2 DEF claimLock
  <2> QED BY <1>2, <2>1, ZenonT(60) DEF claimLock
<1>3. CASE claimExpire(s)
  <2>1. task[s].inv \in Inv
    BY <1>0, <1>3, TaskUpdates DEF claimExpire, LockPC
  <2> QED BY <1>3, <2>1, IdleType, RowUpdates, SMTT(60) DEF claimExpire
<1>4. CASE claimCount(s)
  <2>1. [task[s] EXCEPT !.pc = "grant"] \in Task
    BY <1>0, <1>4, TaskUpdates DEF claimCount, LockPC
  <2> QED BY <1>4, <2>1, IdleType, SMTT(60) DEF claimCount
<1>5. CASE claimLease(s)
  <2> DEFINE i == task[s].inv
             n == row[i].fence + 1
  <2>1. task[s].pc \in LockPC /\ i \in Inv
    BY <1>0, <1>5, TaskUpdates DEF claimLease, LockPC
  <2>2. n \in Nat
    BY <2>1 DEF Row
  <2>3. row' \in [Inv -> Row]
    BY <1>5, <2>1, RowUpdates, ConstantsAssumption, ZenonT(60) DEF claimLease
  <2>4. act' \in [Inv -> [Call -> Act]]
    BY <1>5, <2>1, <2>2, ActUpdates, ZenonT(60) DEF claimLease
  <2>5. task' \in [Slot -> Task]
    BY <1>0, <1>5, <2>1, <2>2, TaskUpdates DEF claimLease
  <2> QED BY <1>5, <2>3, <2>4, <2>5, SMTT(60) DEF claimLease
<1> QED BY <1>1, <1>2, <1>3, <1>4, <1>5 DEF Claim

\* Parking a call keeps the types.
LEMMA ParkType ==
  ASSUME TypeOK, NEW s \in Slot, task[s].pc = "recorded",
         NEW k \in AllKinds, NEW n \in Nat, NEW d \in Decision, NEW keep \in BOOLEAN,
         park(s, k, n, d, keep)
  PROVE  TypeOK'
<1> USE DEF TypeOK
<1> DEFINE i == task[s].inv
           c == task[s].call
<1>1. i \in Inv /\ c \in Call
  BY TaskUpdates DEF ExecPC
<1>2. row' \in [Inv -> Row]
  BY <1>1, RowUpdates DEF park
<1>3. [act[i] EXCEPT ![c] = [st |-> "waiting", kind |-> k, fence |-> n]] \in [Call -> Act]
  BY <1>1, ActUpdates
<1>4. [wait[i] EXCEPT ![c] = d] \in [Call -> Decision]
  BY <1>1
<1> QED BY <1>1, <1>2, <1>3, <1>4, IdleType, SMTT(60) DEF park

\* Every step of an executor keeps the types.
LEMMA ExecuteType == ASSUME TypeOK, NEW s \in Slot, Execute(s) PROVE TypeOK'
<1> USE DEF TypeOK
<1> DEFINE i == task[s].inv
           c == task[s].call
<1>0. task[s] \in Task /\ (task[s].pc \in ExecPC => i \in Inv)
      /\ (task[s].pc \in {"recorded", "dispatched"} => i \in Inv /\ c \in Call)
  BY TaskUpdates DEF ExecPC
<1>1. CASE start(s)
  <2>1. task[s].pc \in ExecPC /\ i \in Inv
    BY <1>0, <1>1, SMTT(60) DEF start, ExecPC
  <2>2. [task[s] EXCEPT !.pc = "prepare"] \in Task
    BY <1>0, <2>1, TaskUpdates
  <2> QED BY <1>1, <2>1, <2>2, RowUpdates DEF start
<1>2. CASE prepareQuestionContinuation(s)
  <2>1. task[s].pc \in ExecPC /\ i \in Inv
    BY <1>0, <1>2, SMTT(60) DEF prepareQuestionContinuation, ExecPC
  <2>2. [task[s] EXCEPT !.pc = "execute"] \in Task
    BY <1>0, <2>1, TaskUpdates
  <2>3. act' \in [Inv -> [Call -> Act]]
    BY <1>2, <2>1, ActUpdates DEF prepareQuestionContinuation
  <2> QED BY <1>2, <2>2, <2>3 DEF prepareQuestionContinuation
<1>3. ASSUME NEW w \in Delays, defer(s, w) PROVE TypeOK'
  <2>1. i \in Inv /\ w \in Status /\ KeepsThread(i) \in BOOLEAN
    BY <1>0, <1>3, StatusType, ConstantsAssumption
    DEF defer, ExecPC, KeepsThread, Status, Claimable, Queued, Waits
  <2> QED BY <1>3, <2>1, RowUpdates, IdleType DEF defer
<1>4. ASSUME NEW d \in Call, NEW k \in Kinds, recordAction(s, d, k) PROVE TypeOK'
  <2>1. task[s].pc \in ExecPC /\ i \in Inv /\ k \in AllKinds
    BY <1>0, <1>4, ConstantsAssumption DEF recordAction, ExecPC
  <2>2. row[i].fence \in Nat
    BY <2>1 DEF Row
  <2>3. [act[i] EXCEPT ![d] = [st |-> "intent", kind |-> k, fence |-> row[i].fence]]
          \in [Call -> Act]
    BY <2>1, <2>2, ActUpdates
  <2>4. [wait[i] EXCEPT ![d] = "pending"] \in [Call -> Decision]
    BY <2>1 DEF Decision
  <2>5. [task[s] EXCEPT !.pc = "recorded", !.call = d] \in Task
    BY <1>0, <2>1, TaskUpdates
  <2>6. act' \in [Inv -> [Call -> Act]]
    BY <1>4, <2>1, <2>3 DEF recordAction
  <2>7. wait' \in [Inv -> [Call -> Decision]]
    BY <1>4, <2>1, <2>4 DEF recordAction
  <2>8. task' \in [Slot -> Task]
    BY <1>4, <2>5 DEF recordAction
  <2> QED BY <1>4, <2>6, <2>7, <2>8 DEF recordAction
<1>5. CASE dispatch(s) \/ reportUnavailable(s)
  <2>1. i \in Inv /\ c \in Call /\ [task[s] EXCEPT !.pc = "dispatched"] \in Task
    BY <1>0, <1>5, TaskUpdates DEF dispatch, reportUnavailable
  <2>2. [sent[i] EXCEPT ![c] = @ + 1] \in [Call -> Nat]
    BY <2>1, SMTT(60)
  <2>3. sent' \in [Inv -> [Call -> Nat]]
    BY <1>5, <2>1, <2>2 DEF dispatch, reportUnavailable
  <2>4. task' \in [Slot -> Task]
    BY <1>5, <2>1 DEF dispatch, reportUnavailable
  <2> QED BY <1>5, <2>3, <2>4, SMTT(60) DEF dispatch, reportUnavailable
<1>6. CASE completeAction(s)
  <2>1. i \in Inv /\ c \in Call /\ task[s].pc \in ExecPC
    BY <1>0, <1>6, SMTT(60) DEF completeAction, ExecPC
  <2>2. [task[s] EXCEPT !.pc = "execute", !.call = None] \in Task
    BY <1>0, <2>1, TaskUpdates
  <2>3. [act[i][c] EXCEPT !.st = "completed"] \in Act
    BY <2>1, ActUpdates, SMTT(60)
  <2>4. act' \in [Inv -> [Call -> Act]]
    BY <1>6, <2>1, <2>3, SMTT(60) DEF completeAction
  <2> QED BY <1>6, <2>2, <2>4 DEF completeAction
<1>7. CASE requestAgent(s)
  <2>1. i \in Inv /\ c \in Call
    BY <1>0, <1>7 DEF requestAgent
  <2>2. [wait[i] EXCEPT ![c] = "pending"] \in [Call -> Decision]
    BY <2>1 DEF Decision
  <2> QED BY <1>7, <2>1, <2>2, SMTT(60) DEF requestAgent
<1>8. CASE Parks(s)
  <2>1. task[s].pc = "recorded" /\ i \in Inv /\ c \in Call
    BY <1>0, <1>8 DEF Parks, parkQuestion, parkReview, parkBrowserHandoff, parkReturnControl
  <2>a. task[s].fence \in Nat
    BY <1>0, TaskUpdates
  <2>b. task[s].fence + 1 \in Nat
    BY <2>a
  <2>c. /\ {"question", "review", "handoff", "return"} \subseteq AllKinds
        /\ "pending" \in Decision
    BY DEF AllKinds, BrowserKinds, Decision
  <2>2. wait[i][c] \in Decision
    BY <2>1, SMTT(60)
  <2>3. CASE parkQuestion(s)
    BY <2>a, <2>b, <2>c, <2>1, <2>2, <2>3, ParkType DEF parkQuestion
  <2>4. CASE parkReview(s)
    BY <2>a, <2>b, <2>c, <2>1, <2>2, <2>4, ParkType DEF parkReview
  <2>5. CASE parkBrowserHandoff(s)
    BY <2>a, <2>b, <2>c, <2>1, <2>2, <2>5, ParkType DEF parkBrowserHandoff
  <2>6. CASE parkReturnControl(s)
    BY <2>a, <2>b, <2>c, <2>1, <2>2, <2>6, ParkType DEF parkReturnControl
  <2> QED BY <1>8, <2>3, <2>4, <2>5, <2>6, SMTT(60) DEF Parks
<1>9. ASSUME NEW o \in {"succeeded", "failed", "needs_review"}, finish(s, o) PROVE TypeOK'
  <2>1. i \in Inv /\ FinishStatus(i, o) \in Status
    BY <1>0, <1>9, StatusType DEF finish, FinishStatus
  <2>2. row' \in [Inv -> Row]
    BY <1>9, <2>1, RowUpdates DEF finish
  <2>3. CancelHandoffs(i) \in [Call -> Decision]
    BY <2>1 DEF CancelHandoffs, Decision
  <2>4. wait' \in [Inv -> [Call -> Decision]]
    BY <1>9, <2>1, <2>3 DEF finish
  <2> QED BY <1>9, <2>2, <2>4, IdleType DEF finish
<1> QED BY <1>1, <1>2, <1>3, <1>4, <1>5, <1>6, <1>7, <1>8, <1>9, SMTT(60) DEF Execute

\* Maintenance and the passing of time keep the types.
LEMMA MaintainType == ASSUME TypeOK, NEW i \in Inv, Maintain(i) \/ Time(i) PROVE TypeOK'
<1> USE DEF TypeOK
<1>1. CancelHandoffs(i) \in [Call -> Decision]
  BY DEF CancelHandoffs, Decision
<1>2. CASE expireQueued(i)
  BY <1>2, RowUpdates DEF expireQueued
<1>3. CASE recoverEnded(i)
  BY <1>1, <1>3, RowUpdates DEF recoverEnded
<1>4. CASE recoverLease(i)
  <2> DEFINE k == ~row[i].cancel /\ (row[i].status = "running" \/ KeepsThread(i))
  <2>1. row' \in [Inv -> Row]
    <3>1. row' = [row EXCEPT ![i] = Recovered(row[i], k)] /\ k \in BOOLEAN
      BY <1>4 DEF recoverLease
    <3> HIDE DEF k
    <3> QED BY <3>1, RowUpdates
  <2> QED BY <1>1, <1>4, <2>1 DEF recoverLease
<1>5. CASE leaseLapses(i)
  BY <1>5, TimeUpdates DEF leaseLapses
<1>6. CASE retryDue(i)
  BY <1>6, TimeUpdates DEF retryDue
<1>7. CASE deadlinePasses(i)
  BY <1>7, TimeUpdates DEF deadlinePasses
<1> QED BY <1>2, <1>3, <1>4, <1>5, <1>6, <1>7 DEF Maintain, Time

\* The columns keep their types in every reachable state of the queue.
THEOREM TypeCorrect == Spec => []TypeOK
<1>1. TypeOK /\ [Next]_vars => TypeOK'
  <2> SUFFICES ASSUME TypeOK, [Next]_vars PROVE TypeOK'
    OBVIOUS
  <2>1. CASE Owner
    BY <2>1, OwnerType
  <2>2. ASSUME NEW s \in Slot, Claim(s) \/ Execute(s) \/ crash(s) PROVE TypeOK'
    BY <2>2, ClaimType, ExecuteType, IdleType, SMTT(60) DEF crash, TypeOK
  <2>3. ASSUME NEW i \in Inv, Maintain(i) \/ Time(i) PROVE TypeOK'
    BY <2>3, MaintainType
  <2>4. CASE UNCHANGED vars
    BY <2>4 DEF vars, TypeOK
  <2> QED BY <2>1, <2>2, <2>3, <2>4 DEF Next
<1> QED BY <1>1, InitType, PTL DEF Spec
=============================================================================
