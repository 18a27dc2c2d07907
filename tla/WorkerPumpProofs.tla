-------------------------- MODULE WorkerPumpProofs --------------------------
(***************************************************************************)
(* Proofs about WorkerPump for any set of invocations, any concurrency and *)
(* any number of stops and failures: the type invariant, one drain at a    *)
(* time, and the concurrency limit.                                        *)
(*                                                                         *)
(* The limit is not inductive.  What makes it so is that a drain between   *)
(* its test and the launch, that is awaiting claim or holding its answer,  *)
(* still has the slot it tested for (Slots), and that argument needs a     *)
(* single drain.                                                           *)
(***************************************************************************)
EXTENDS WorkerPump, FiniteSetTheorems, TLAPS

Call == [pc : DrainPC, gen : Nat, got : Inv \cup {None}]

\* At most one of the calls runs, and set says whether one does.
Single(set, calls) ==
  /\ \A d, e \in Drain : calls[d].pc # "none" /\ calls[e].pc # "none" => d = e
  /\ set <=> \E d \in Drain : calls[d].pc # "none"

\* A drain that tested for a slot and has not used it still has it.
Slots(calls, running) ==
  \A d \in Drain : calls[d].pc \in {"claim", "answered"} => HasSlot(running)

\* The inductive invariant.
IInv == /\ TypeOK /\ Single(pump, drain) /\ Slots(drain, active) /\ WithinConcurrency

-----------------------------------------------------------------------------
\* The first await of a turn is a state of drain, and a claim only with a slot.
LEMMA FirstAwaitType ==
  ASSUME NEW due \in BOOLEAN, NEW running
  PROVE  /\ FirstAwait(due, running) \in DrainPC \ {"none", "answered"}
         /\ FirstAwait(due, running) = "claim" => HasSlot(running)
<1> HIDE DEF HasSlot
<1>1. CASE due
  BY <1>1 DEF FirstAwait, DrainPC, Awaiting
<1>2. CASE ~due /\ HasSlot(running)
  BY <1>2 DEF FirstAwait, DrainPC, Awaiting
<1>3. CASE ~due /\ ~HasSlot(running)
  BY <1>3 DEF FirstAwait, DrainPC, Awaiting
<1> QED BY <1>1, <1>2, <1>3

\* Tasks that settle free slots; a launch uses up the slot it was tested for.
LEMMA SlotCount ==
  ASSUME NEW running \in SUBSET Inv, NEW i \in Inv
  PROVE  /\ Cardinality(running) \in Nat
         /\ HasSlot(running) => HasSlot(running \ {i})
         /\ Cardinality(running) <= Concurrency => Cardinality(running \ {i}) <= Concurrency
         /\ HasSlot(running) => Cardinality(running \cup {i}) <= Concurrency
<1>1. IsFiniteSet(running)
  BY FS_Subset, PumpAssumption
<1>2. Cardinality(running) \in Nat
  BY <1>1, FS_CardinalityType
<1>3. Cardinality(running \ {i}) \in Nat /\ Cardinality(running \ {i}) <= Cardinality(running)
  <2>1. running \ {i} \subseteq running
    OBVIOUS
  <2> QED BY <1>1, <2>1, FS_Subset, FS_CardinalityType
<1>4. /\ Cardinality(running \cup {i}) \in Nat
      /\ Cardinality(running \cup {i}) <= Cardinality(running) + 1
  <2>1. Cardinality(running \cup {i}) =
          IF i \in running THEN Cardinality(running) ELSE Cardinality(running) + 1
    BY <1>1, FS_AddElement
  <2> QED BY <1>2, <2>1
<1>5. Concurrency \in Nat
  BY PumpAssumption
<1> QED BY <1>2, <1>3, <1>4, <1>5 DEF HasSlot

\* One call changes its state: there is still at most one.
LEMMA OneCall ==
  ASSUME NEW calls \in [Drain -> Call], NEW set \in BOOLEAN, Single(set, calls),
         NEW d \in Drain, calls[d].pc # "none", NEW c \in Call,
         NEW running, c.pc \in {"claim", "answered"} => HasSlot(running)
  PROVE  /\ [calls EXCEPT ![d] = c] \in [Drain -> Call]
         /\ c.pc # "none" => Single(set, [calls EXCEPT ![d] = c])
         /\ c.pc = "none" => Single(FALSE, [calls EXCEPT ![d] = c])
         /\ Slots([calls EXCEPT ![d] = c], running)
<1> DEFINE new == [calls EXCEPT ![d] = c]
<1>1. new \in [Drain -> Call] /\ new[d] = c /\ \A e \in Drain \ {d} : new[e] = calls[e]
  OBVIOUS
<1>2. \A e \in Drain \ {d} : calls[e].pc = "none"
  BY DEF Single
<1>3. set
  BY DEF Single
<1> HIDE DEF new
<1>4. Slots(new, running)
  BY <1>1, <1>2 DEF Slots
<1>5. c.pc # "none" => Single(set, new)
  BY <1>1, <1>2, <1>3 DEF Single
<1>6. c.pc = "none" => Single(FALSE, new)
  BY <1>1, <1>2 DEF Single
<1> QED BY <1>1, <1>4, <1>5, <1>6 DEF new

\* wake starts a drain only when none runs.
LEMMA WakeKeeps ==
  ASSUME NEW off \in BOOLEAN, NEW set \in BOOLEAN, NEW due \in BOOLEAN, NEW running,
         NEW calls \in [Drain -> Call], Single(set, calls), Slots(calls, running),
         generation \in Nat, wakePending \in BOOLEAN, wake(off, set, due, running, calls)
  PROVE  /\ pump' \in BOOLEAN /\ wakePending' \in BOOLEAN /\ maintenanceDue' \in BOOLEAN
         /\ drain' \in [Drain -> Call]
         /\ Single(pump', drain') /\ Slots(drain', running)
<1>1. CASE off \/ set
  BY <1>1 DEF wake
<1>2. CASE ~off /\ ~set
  <2>1. PICK d \in Drain :
          /\ calls[d].pc = "none"
          /\ drain' = [calls EXCEPT ![d] =
               [pc |-> FirstAwait(due, running), gen |-> generation, got |-> None]]
    BY <1>2 DEF wake
  <2> DEFINE c == [pc |-> FirstAwait(due, running), gen |-> generation, got |-> None]
  <2>2. pump' = TRUE /\ wakePending' = FALSE /\ maintenanceDue' = FALSE
    BY <1>2 DEF wake
  <2>3. c \in Call /\ c.pc # "none" /\ (c.pc \in {"claim", "answered"} => HasSlot(running))
    BY FirstAwaitType DEF Call
  <2> HIDE DEF c
  <2>4. \A e \in Drain : calls[e].pc = "none"
    BY <1>2 DEF Single
  <2>5. drain' \in [Drain -> Call] /\ drain'[d] = c /\ \A e \in Drain \ {d} : drain'[e] = calls[e]
    BY <2>1, <2>3 DEF c
  <2>6. Single(TRUE, drain')
    BY <2>3, <2>4, <2>5 DEF Single
  <2>7. Slots(drain', running)
    BY <2>3, <2>4, <2>5 DEF Slots
  <2> QED BY <2>2, <2>5, <2>6, <2>7
<1> QED BY <1>1, <1>2

\* The loops of drain keep the one call there is, and claim only with a slot.
LEMMA LoopKeeps ==
  ASSUME IInv, NEW d \in Drain, drain[d].pc # "none", NEW running,
         nextTurn(d, running) \/ nextClaim(d, running)
  PROVE  /\ wakePending' \in BOOLEAN /\ maintenanceDue' \in BOOLEAN
         /\ drain' \in [Drain -> Call]
         /\ Single(pump, drain') /\ Slots(drain', running)
<1>0. /\ drain \in [Drain -> Call] /\ drain[d] \in Call /\ Single(pump, drain)
      /\ pump \in BOOLEAN /\ maintenanceDue \in BOOLEAN /\ wakePending \in BOOLEAN
  BY DEF IInv, TypeOK, Call
<1> DEFINE to(p) == [drain[d] EXCEPT !.pc = p, !.got = None]
<1>1. \A p \in DrainPC : to(p) \in Call /\ to(p).pc = p
  BY <1>0 DEF Call
<1>2. ASSUME NEW p \in DrainPC \ {"none", "answered"}, p = "claim" => HasSlot(running),
             drain' = [drain EXCEPT ![d] = to(p)]
      PROVE  /\ drain' \in [Drain -> Call]
             /\ Single(pump, drain') /\ Slots(drain', running)
  <2> HIDE DEF to
  <2> QED BY <1>0, <1>1, <1>2, OneCall, ZenonT(60)
<1>3. "claim" \in DrainPC \ {"none", "answered"} /\ "done" \in DrainPC \ {"none", "answered"}
  BY DEF DrainPC, Awaiting
<1>4. CASE nextTurn(d, running)
  <2>1. CASE Current(d) /\ wakePending
    <3>1. /\ wakePending' = FALSE /\ maintenanceDue' = FALSE
          /\ drain' = [drain EXCEPT ![d] = to(FirstAwait(maintenanceDue, running))]
      BY <1>4, <2>1 DEF nextTurn
    <3> HIDE DEF to
    <3> QED BY <1>0, <1>2, <3>1, FirstAwaitType
  <2>2. CASE ~(Current(d) /\ wakePending)
    <3>1. /\ UNCHANGED <<wakePending, maintenanceDue>>
          /\ drain' = [drain EXCEPT ![d] = to("done")]
      BY <1>4, <2>2 DEF nextTurn
    <3>2. drain' \in [Drain -> Call] /\ Single(pump, drain') /\ Slots(drain', running)
      <4> HIDE DEF to
      <4> QED BY <1>2, <1>3, <3>1
    <3> QED BY <1>0, <3>1, <3>2
  <2> QED BY <2>1, <2>2
<1>5. CASE Current(d) /\ HasSlot(running) /\ nextClaim(d, running)
  <2>1. /\ UNCHANGED <<wakePending, maintenanceDue>>
        /\ drain' = [drain EXCEPT ![d] = to("claim")]
    BY <1>5 DEF nextClaim
  <2>2. drain' \in [Drain -> Call] /\ Single(pump, drain') /\ Slots(drain', running)
    <3> HIDE DEF to
    <3> QED BY <1>2, <1>3, <1>5, <2>1
  <2> QED BY <1>0, <2>1, <2>2
<1> QED BY <1>4, <1>5 DEF nextClaim
-----------------------------------------------------------------------------
(* Every step keeps the invariant                                          *)

\* A call of drain that only changes what it awaits, with no new claim.
LEMMA CallKeeps ==
  ASSUME IInv, NEW d \in Drain, drain[d].pc # "none",
         NEW p \in DrainPC \ {"none"}, NEW g \in Inv \cup {None},
         p \in {"claim", "answered"} => drain[d].pc \in {"claim", "answered"},
         drain' = [drain EXCEPT ![d] = [@ EXCEPT !.pc = p, !.got = g]]
  PROVE  drain' \in [Drain -> Call] /\ Single(pump, drain') /\ Slots(drain', active)
<1> DEFINE c == [drain[d] EXCEPT !.pc = p, !.got = g]
<1>1. /\ drain \in [Drain -> Call] /\ drain[d] \in Call /\ pump \in BOOLEAN
      /\ Single(pump, drain) /\ Slots(drain, active)
  BY DEF IInv, TypeOK, Call
<1>2. c \in Call /\ c.pc = p
  BY <1>1 DEF Call
<1>3. drain' = [drain EXCEPT ![d] = c]
  OBVIOUS
<1>4. p \in {"claim", "answered"} => HasSlot(active)
  BY <1>1 DEF Slots
<1> HIDE DEF c
<1>5. c.pc # "none" /\ (c.pc \in {"claim", "answered"} => HasSlot(active))
  BY <1>2, <1>4
<1>6. /\ [drain EXCEPT ![d] = c] \in [Drain -> Call]
      /\ Single(pump, [drain EXCEPT ![d] = c])
      /\ Slots([drain EXCEPT ![d] = c], active)
  BY <1>1, <1>2, <1>5, OneCall
<1> QED BY <1>3, <1>6

\* The database's answers, and rejections, while drain awaits.
LEMMA AwaitKeeps ==
  ASSUME IInv, NEW d \in Drain, recovered(d) \/ claim(d) \/ rejected(d) \/ caught(d)
  PROVE  IInv'
<1> DEFINE Rest ==
      /\ UNCHANGED <<stopped, timer, pump, generation, active, stopper, maintenanceDue>>
      /\ hints' \in SUBSET Inv /\ told' \in SUBSET Inv /\ failures' \in Nat
      /\ wakePending' \in BOOLEAN
<1>0. drain \in [Drain -> Call] /\ drain[d] \in Call
  BY DEF IInv, TypeOK, Call
<1>g. drain[d].got \in Inv \cup {None}
  BY <1>0 DEF Call
<1>e. \A p : [drain EXCEPT ![d] = [@ EXCEPT !.pc = p]]
               = [drain EXCEPT ![d] = [@ EXCEPT !.pc = p, !.got = drain[d].got]]
  <2>1. \A p : [drain[d] EXCEPT !.pc = p] = [drain[d] EXCEPT !.pc = p, !.got = drain[d].got]
    BY <1>0 DEF Call
  <2> QED BY <2>1
<1>p. {"expire", "answered", "failed", "done"} \subseteq DrainPC \ {"none"}
  BY DEF DrainPC, Awaiting
<1>1. ASSUME drain' \in [Drain -> Call] /\ Single(pump, drain') /\ Slots(drain', active),
             Rest,
             inv' \in [Inv -> {"out", "ready", "leased", "lapsed", "running", "done"}]
      PROVE  IInv'
  <2>1. TypeOK'
    BY <1>1 DEF IInv, TypeOK, Call
  <2>2. Single(pump', drain') /\ Slots(drain', active') /\ WithinConcurrency'
    BY <1>1 DEF IInv, WithinConcurrency
  <2> QED BY <2>1, <2>2 DEF IInv
<1> HIDE DEF Rest
<1>2. CASE recovered(d)
  <2>1. /\ drain[d].pc # "none"
        /\ drain' = [drain EXCEPT ![d] = [@ EXCEPT !.pc = "expire", !.got = drain[d].got]]
    <3>1. drain[d].pc # "none"
      BY <1>2 DEF recovered
    <3>2. drain' = [drain EXCEPT ![d] = [@ EXCEPT !.pc = "expire"]]
      BY <1>2, ZenonT(60) DEF recovered
    <3> QED BY <1>e, <3>1, <3>2, Zenon
  <2>2. drain' \in [Drain -> Call] /\ Single(pump, drain') /\ Slots(drain', active)
    BY <1>p, <1>g, <2>1, CallKeeps
  <2>3. inv' \in [Inv -> {"out", "ready", "leased", "lapsed", "running", "done"}]
    BY <1>2 DEF recovered, IInv, TypeOK
  <2>4. Rest
    BY <1>2 DEF Rest, recovered, fields, IInv, TypeOK
  <2> QED BY <1>1, <2>2, <2>3, <2>4
<1>3. CASE claim(d)
  <2>1. PICK g \in Inv \cup {None} :
          drain' = [drain EXCEPT ![d] = [@ EXCEPT !.pc = "answered", !.got = g]]
    BY <1>3, <1>g, <1>e, Zenon DEF claim
  <2>2. drain' \in [Drain -> Call] /\ Single(pump, drain') /\ Slots(drain', active)
    BY <1>3, <1>p, <2>1, CallKeeps, Zenon DEF claim
  <2>3. inv' \in [Inv -> {"out", "ready", "leased", "lapsed", "running", "done"}]
    BY <1>3, Zenon DEF claim, IInv, TypeOK
  <2>4. Rest
    BY <1>3, Zenon DEF Rest, claim, fields, IInv, TypeOK
  <2> QED BY <1>1, <2>2, <2>3, <2>4
<1>4. CASE rejected(d)
  <2>1. /\ drain[d].pc # "none"
        /\ drain' = [drain EXCEPT ![d] = [@ EXCEPT !.pc = "failed", !.got = drain[d].got]]
    <3>1. drain[d].pc # "none"
      BY <1>4 DEF rejected, Awaiting
    <3>2. drain' = [drain EXCEPT ![d] = [@ EXCEPT !.pc = "failed"]]
      BY <1>4, ZenonT(60) DEF rejected
    <3> QED BY <1>e, <3>1, <3>2, Zenon
  <2>2. drain' \in [Drain -> Call] /\ Single(pump, drain') /\ Slots(drain', active)
    BY <1>p, <1>g, <2>1, CallKeeps
  <2>3. inv' \in [Inv -> {"out", "ready", "leased", "lapsed", "running", "done"}]
    BY <1>4 DEF rejected, IInv, TypeOK
  <2>4. Rest
    BY <1>4 DEF Rest, rejected, fields, IInv, TypeOK
  <2> QED BY <1>1, <2>2, <2>3, <2>4
<1>5. CASE caught(d)
  <2>1. /\ drain[d].pc # "none"
        /\ drain' = [drain EXCEPT ![d] = [@ EXCEPT !.pc = "done", !.got = drain[d].got]]
    <3>1. drain[d].pc # "none"
      BY <1>5 DEF caught
    <3>2. drain' = [drain EXCEPT ![d] = [@ EXCEPT !.pc = "done"]]
      BY <1>5, ZenonT(60) DEF caught
    <3> QED BY <1>e, <3>1, <3>2, Zenon
  <2>2. drain' \in [Drain -> Call] /\ Single(pump, drain') /\ Slots(drain', active)
    BY <1>p, <1>g, <2>1, CallKeeps
  <2>3. Rest /\ inv' \in [Inv -> {"out", "ready", "leased", "lapsed", "running", "done"}]
    BY <1>5 DEF Rest, caught, IInv, TypeOK
  <2> QED BY <1>1, <2>2, <2>3
<1> QED BY <1>2, <1>3, <1>4, <1>5

\* drain resumes: the task it launches takes the slot that was tested for before
\* the claim, and the next claim needs another one.
LEMMA ResumeKeeps ==
  ASSUME IInv, NEW d \in Drain, expired(d) \/ claimed(d)
  PROVE  IInv'
<1>0. drain[d].pc # "none" /\ drain[d] \in Call
  BY DEF IInv, TypeOK, Call, expired, claimed
<1>1. UNCHANGED <<stopped, generation, timer, pump, stopper, hints, told, failures>>
  BY DEF expired, claimed
<1>2. ASSUME nextTurn(d, active') \/ nextClaim(d, active'),
             active' \in SUBSET Inv, Cardinality(active') <= Concurrency,
             inv' \in [Inv -> {"out", "ready", "leased", "lapsed", "running", "done"}]
      PROVE  IInv'
  <2>1. /\ wakePending' \in BOOLEAN /\ maintenanceDue' \in BOOLEAN
        /\ drain' \in [Drain -> Call]
        /\ Single(pump, drain') /\ Slots(drain', active')
    BY <1>0, <1>2, LoopKeeps
  <2>2. TypeOK'
    BY <1>1, <1>2, <2>1 DEF IInv, TypeOK, Call
  <2> QED BY <1>1, <1>2, <2>1, <2>2 DEF IInv, WithinConcurrency
<1>3. CASE UNCHANGED <<active, inv>> /\ (nextTurn(d, active) \/ nextClaim(d, active))
  BY <1>2, <1>3 DEF IInv, TypeOK, WithinConcurrency
<1>4. CASE /\ claimed(d) /\ drain[d].got # None
           /\ active' = active \cup {drain[d].got}
           /\ inv' = [inv EXCEPT ![drain[d].got] = "running"]
           /\ nextClaim(d, active')
  <2>1. drain[d].got \in Inv
    BY <1>0, <1>4 DEF Call
  <2>2. HasSlot(active) /\ active \in SUBSET Inv
    BY <1>4 DEF claimed, IInv, Slots, TypeOK
  <2>3. active' \in SUBSET Inv /\ Cardinality(active') <= Concurrency
    BY <1>4, <2>1, <2>2, SlotCount
  <2>4. inv' \in [Inv -> {"out", "ready", "leased", "lapsed", "running", "done"}]
    BY <1>4, <2>1 DEF IInv, TypeOK
  <2> QED BY <1>2, <1>4, <2>3, <2>4
<1> QED BY <1>3, <1>4 DEF expired, claimed

\* The callers of wake: the pump's finally, start, the timer, a committed change
\* and a task that settles.
LEMMA CallerKeeps ==
  ASSUME IInv,
         \/ \E d \in Drain : settled(d)
         \/ start \/ tick
         \/ \E i \in Inv : committedInvocations(i) \/ taskSettled(i)
  PROVE  IInv'
<1>0. /\ drain \in [Drain -> Call] /\ pump \in BOOLEAN /\ stopped \in BOOLEAN
      /\ maintenanceDue \in BOOLEAN /\ wakePending \in BOOLEAN /\ generation \in Nat
      /\ Single(pump, drain) /\ Slots(drain, active) /\ active \in SUBSET Inv
  BY DEF IInv, TypeOK, Call
<1>1. ASSUME pump' \in BOOLEAN /\ wakePending' \in BOOLEAN /\ maintenanceDue' \in BOOLEAN,
             drain' \in [Drain -> Call] /\ Single(pump', drain') /\ Slots(drain', active'),
             active' \in SUBSET Inv /\ Cardinality(active') <= Concurrency,
             stopped' \in BOOLEAN /\ timer' \in BOOLEAN, UNCHANGED <<generation, failures>>,
             stopper' \in [pc : {"none", "pump", "settle", "tasks"}, on : Drain \cup {None},
                            tasks : SUBSET Inv],
             inv' \in [Inv -> {"out", "ready", "leased", "lapsed", "running", "done"}],
             hints' \in SUBSET Inv /\ told' \in SUBSET Inv
      PROVE  IInv'
  BY <1>1 DEF IInv, TypeOK, Call, WithinConcurrency
<1>2. ASSUME NEW d \in Drain, settled(d)  PROVE IInv'
  <2> DEFINE calls == [drain EXCEPT ![d] = NoDrain]
  <2>1. calls \in [Drain -> Call] /\ Single(FALSE, calls) /\ Slots(calls, active)
    <3>1. NoDrain \in Call /\ NoDrain.pc = "none"
      BY DEF NoDrain, Call, DrainPC
    <3>2. drain[d].pc # "none"
      BY <1>2 DEF settled
    <3> HIDE DEF NoDrain
    <3> QED BY <1>0, <3>1, <3>2, OneCall
  <2> HIDE DEF calls
  <2>2. \/ wake(stopped, FALSE, maintenanceDue, active, calls)
        \/ pump' = FALSE /\ drain' = calls /\ UNCHANGED <<wakePending, maintenanceDue>>
    BY <1>2 DEF settled, calls
  <2>3. /\ pump' \in BOOLEAN /\ wakePending' \in BOOLEAN /\ maintenanceDue' \in BOOLEAN
        /\ drain' \in [Drain -> Call] /\ Single(pump', drain') /\ Slots(drain', active)
    BY <1>0, <2>1, <2>2, WakeKeeps
  <2>4. stopper' \in [pc : {"none", "pump", "settle", "tasks"}, on : Drain \cup {None},
                      tasks : SUBSET Inv]
    BY <1>2 DEF settled, pumpSettled, IInv, TypeOK
  <2> QED BY <1>1, <1>2, <2>3, <2>4 DEF settled, IInv, TypeOK, WithinConcurrency
<1>3. CASE start
  <2>1. /\ pump' \in BOOLEAN /\ wakePending' \in BOOLEAN /\ maintenanceDue' \in BOOLEAN
        /\ drain' \in [Drain -> Call] /\ Single(pump', drain') /\ Slots(drain', active)
    BY <1>0, <1>3, WakeKeeps DEF start
  <2> QED BY <1>1, <1>3, <2>1 DEF start, IInv, TypeOK, WithinConcurrency
<1>4. CASE tick
  <2>1. /\ pump' \in BOOLEAN /\ wakePending' \in BOOLEAN /\ maintenanceDue' \in BOOLEAN
        /\ drain' \in [Drain -> Call] /\ Single(pump', drain') /\ Slots(drain', active)
    BY <1>0, <1>4, WakeKeeps DEF tick
  <2>2. timer' \in BOOLEAN
    BY <1>0, <1>4 DEF tick
  <2> QED BY <1>1, <1>4, <2>1, <2>2 DEF tick, IInv, TypeOK, WithinConcurrency
<1>5. ASSUME NEW i \in Inv, committedInvocations(i)  PROVE IInv'
  <2>1. /\ pump' \in BOOLEAN /\ wakePending' \in BOOLEAN /\ maintenanceDue' \in BOOLEAN
        /\ drain' \in [Drain -> Call] /\ Single(pump', drain') /\ Slots(drain', active)
    BY <1>0, <1>5, WakeKeeps DEF committedInvocations
  <2>2. hints' \in SUBSET Inv /\ told' \in SUBSET Inv
    BY <1>5 DEF committedInvocations, IInv, TypeOK
  <2> QED BY <1>1, <1>5, <2>1, <2>2 DEF committedInvocations, IInv, TypeOK, WithinConcurrency
<1>6. ASSUME NEW i \in Inv, taskSettled(i)  PROVE IInv'
  <2>1. active' \in SUBSET Inv /\ Cardinality(active') <= Concurrency
    BY <1>0, <1>6, SlotCount DEF taskSettled, IInv, WithinConcurrency
  <2>2. Slots(drain, active')
    BY <1>0, <1>6, SlotCount DEF taskSettled, Slots
  <2>3. /\ pump' \in BOOLEAN /\ wakePending' \in BOOLEAN /\ maintenanceDue' \in BOOLEAN
        /\ drain' \in [Drain -> Call] /\ Single(pump', drain') /\ Slots(drain', active')
    BY <1>0, <1>6, <2>2, WakeKeeps DEF taskSettled
  <2>4. /\ stopper' \in [pc : {"none", "pump", "settle", "tasks"}, on : Drain \cup {None},
                          tasks : SUBSET Inv]
        /\ inv' \in [Inv -> {"out", "ready", "leased", "lapsed", "running", "done"}]
    BY <1>6 DEF taskSettled, IInv, TypeOK
  <2> QED BY <1>1, <1>6, <2>1, <2>3, <2>4 DEF taskSettled, IInv, TypeOK
<1> QED BY <1>2, <1>3, <1>4, <1>5, <1>6

\* Every step keeps the invariant: the remaining ones leave the drains and the
\* tasks alone.
LEMMA StepKeeps == IInv /\ [Next]_vars => IInv'
<1> SUFFICES ASSUME IInv, [Next]_vars  PROVE IInv'
  OBVIOUS
<1>1. ASSUME UNCHANGED <<pump, drain, active>>, TypeOK'  PROVE IInv'
  BY <1>1 DEF IInv, WithinConcurrency
<1>2. CASE UNCHANGED vars
  <2>1. TypeOK'
    BY <1>2 DEF IInv, TypeOK, vars, fields
  <2> QED BY <1>1, <1>2, <2>1 DEF vars, fields
<1>3. ASSUME NEW d \in Drain, Pump(d)  PROVE IInv'
  BY <1>3, AwaitKeeps, ResumeKeeps, CallerKeeps, Zenon DEF Pump
<1>4. CASE start \/ tick
  BY <1>4, CallerKeeps, Zenon
<1>5. CASE stop
  <2>1. /\ generation' = generation + 1
        /\ stopped' = TRUE /\ timer' = FALSE /\ wakePending' = FALSE /\ told' = {}
        /\ UNCHANGED <<maintenanceDue, pump, drain, active, inv, hints, failures>>
    BY <1>5, Zenon DEF stop
  <2>2. \/ stopper' = [stopper EXCEPT !.pc = "settle"]
        \/ \E d \in Drain : stopper' = [stopper EXCEPT !.pc = "pump", !.on = d]
    BY <1>5, Zenon DEF stop
  <2>3. generation \in Nat
    BY DEF IInv, TypeOK
  <2>4. generation' \in Nat
    BY <2>1, <2>3, SMTT(60)
  <2>5. stopper' \in [pc : {"none", "pump", "settle", "tasks"}, on : Drain \cup {None},
                      tasks : SUBSET Inv]
    BY <2>2 DEF IInv, TypeOK
  <2>6. TypeOK'
    BY <2>1, <2>4, <2>5 DEF IInv, TypeOK
  <2> QED BY <1>1, <2>1, <2>6
<1>6. CASE stopTasks
  <2>1. TypeOK'
    BY <1>6 DEF stopTasks, fields, IInv, TypeOK
  <2> QED BY <1>1, <1>6, <2>1 DEF stopTasks, fields
<1>7. CASE stopReturns
  <2>1. TypeOK'
    BY <1>7 DEF stopReturns, NoStop, fields, IInv, TypeOK
  <2> QED BY <1>1, <1>7, <2>1 DEF stopReturns, fields
<1>8. ASSUME NEW i \in Inv, committedInvocations(i) \/ taskSettled(i)  PROVE IInv'
  BY <1>8, CallerKeeps
<1>9. ASSUME NEW i \in Inv, admitted(i) \/ claimedElsewhere(i) \/ leaseLapses(i)  PROVE IInv'
  <2>1. TypeOK'
    BY <1>9 DEF admitted, claimedElsewhere, leaseLapses, fields, IInv, TypeOK
  <2>2. UNCHANGED <<pump, drain, active>>
    BY <1>9 DEF admitted, claimedElsewhere, leaseLapses, fields
  <2> QED BY <1>1, <2>1, <2>2
<1> QED BY <1>2, <1>3, <1>4, <1>5, <1>6, <1>7, <1>8, <1>9, Zenon DEF Next

\* The worker is constructed with nothing running.
LEMMA InitHolds == Init => IInv
<1> SUFFICES ASSUME Init  PROVE IInv
  OBVIOUS
<1>1. TypeOK
  BY DEF Init, TypeOK, NoDrain, NoStop, DrainPC
<1>2. \A d \in Drain : drain[d].pc = "none"
  BY DEF Init, NoDrain
<1>3. Single(pump, drain) /\ Slots(drain, active)
  BY <1>2 DEF Init, Single, Slots
<1>4. WithinConcurrency
  BY FS_EmptySet, PumpAssumption DEF Init, WithinConcurrency
<1> QED BY <1>1, <1>3, <1>4 DEF IInv

\* The inductive invariant of the pump: what a drain holds across its awaits.
THEOREM PumpInvariant == Spec => []IInv
<1> QED BY InitHolds, StepKeeps, PTL DEF Spec

\* The pump's fields, drains, tasks and callbacks keep their types.
THEOREM PumpTypes == Spec => []TypeOK
<1>1. IInv => TypeOK
  BY DEF IInv
<1> QED BY <1>1, PumpInvariant, PTL

\* For any number of hints, restarts and failures, this.pump is set exactly while
\* one call of drain() runs, and a second never runs beside it.
THEOREM SingleDrain == Spec => []OneDrain
<1>1. IInv => OneDrain
  BY DEF IInv, Single, OneDrain
<1> QED BY <1>1, PumpInvariant, PTL

\* For any concurrency, drain never has more tasks active than slots, although
\* it tests active.size before the await of claim and adds the task after it.
THEOREM ConcurrencyLimit == Spec => []WithinConcurrency
<1>1. IInv => WithinConcurrency
  BY DEF IInv
<1> QED BY <1>1, PumpInvariant, PTL
=============================================================================
