--------------------------- MODULE WorkerPumpWakes ---------------------------
(***************************************************************************)
(* Proofs about WorkerPump, on top of its basic invariant: no hint is lost *)
(* (NoLostWake), a stop that returned left nothing behind (StopQuiesces),  *)
(* and a claim that a stop overtook launches nothing.                      *)
(*                                                                         *)
(* None of the three is inductive.  For the hints one has to say where the *)
(* obligation to claim again is kept while the pump runs (Owed): in        *)
(* wakePending, in a drain of this generation that will claim before it    *)
(* ends, or in a failure that will drop the hint.  A drain of an older     *)
(* generation ends without looking, so while one runs wakePending must be  *)
(* set (OldDrainOwes).  For stop() it is what it has already waited for    *)
(* (StopWaits).                                                            *)
(***************************************************************************)
EXTENDS WorkerPumpProofs

\* The drain will ask for a claim before it ends, slots permitting.
ClaimsAgain(call, gen) ==
  /\ call.gen = gen
  /\ call.pc \in Awaiting \/ (call.pc = "answered" /\ call.got # None)

\* Somebody still has to look for ready invocations.
Owed(calls, pending, gen, running) ==
  \/ ~HasSlot(running)
  \/ \E d \in Drain :
       /\ calls[d].pc # "none"
       /\ pending \/ calls[d].pc = "failed" \/ ClaimsAgain(calls[d], gen)

\* A hinted invocation that is ready is not forgotten.
HintsKept ==
  ~stopped /\ (\E i \in told : inv[i] = "ready") => Owed(drain, wakePending, generation, active)

\* A drain of an older generation leaves a pending hint to its successor.
OldDrainOwes ==
  \A d \in Drain :
    ~stopped /\ drain[d].pc \in Awaiting \cup {"answered"} /\ drain[d].gen # generation
      => wakePending

\* Hints are about admitted invocations.
HintsAdmitted == \A i \in hints \cup told : inv[i] # "out"

\* What a stop() that no start has overtaken knows at each of its awaits.
StopWaits ==
  stopped =>
    /\ stopper.pc = "none" => active = {} /\ ~pump
    /\ stopper.pc = "pump" => \E d \in Drain : stopper.on = d /\ drain[d].pc # "none"
    /\ stopper.pc \in {"settle", "tasks"} => ~pump
    /\ stopper.pc = "tasks" => active \subseteq stopper.tasks

WInv == IInv /\ HintsKept /\ OldDrainOwes /\ HintsAdmitted /\ StopWaits
-----------------------------------------------------------------------------
(* The operators                                                           *)

\* A turn's first await is one that claims later, or there is no slot.
LEMMA FirstAwaitClaims ==
  ASSUME NEW due \in BOOLEAN, NEW running
  PROVE  /\ FirstAwait(due, running) \in Awaiting \cup {"done"}
         /\ FirstAwait(due, running) = "done" => ~HasSlot(running)
<1> HIDE DEF HasSlot
<1>1. CASE due
  BY <1>1 DEF FirstAwait, Awaiting
<1>2. CASE ~due /\ HasSlot(running)
  BY <1>2 DEF FirstAwait, Awaiting
<1>3. CASE ~due /\ ~HasSlot(running)
  BY <1>3 DEF FirstAwait, Awaiting
<1> QED BY <1>1, <1>2, <1>3

\* A drain that runs is the only one, and the pump is set.
LEMMA OnlyOne ==
  ASSUME IInv, NEW d \in Drain, drain[d].pc # "none"
  PROVE  pump /\ \A e \in Drain \ {d} : drain[e].pc = "none"
BY DEF IInv, Single

\* A wake that is not refused leaves a hint, or a new drain of this generation
\* beside no other; either way somebody looks.
LEMMA WakeOwes ==
  ASSUME NEW set \in BOOLEAN, NEW due \in BOOLEAN, NEW running,
         NEW calls \in [Drain -> Call], Single(set, calls),
         wake(FALSE, set, due, running, calls)
  PROVE  /\ Owed(drain', wakePending', generation, running)
         /\ wakePending' \/ \A d \in Drain : drain'[d].pc # "none" => drain'[d].gen = generation
<1>1. CASE set
  <2>1. wakePending' = TRUE /\ drain' = calls
    BY <1>1 DEF wake
  <2>2. \E d \in Drain : calls[d].pc # "none"
    BY <1>1 DEF Single
  <2> QED BY <2>1, <2>2 DEF Owed
<1>2. CASE ~set
  <2> DEFINE c == [pc |-> FirstAwait(due, running), gen |-> generation, got |-> None]
  <2>1. PICK d \in Drain : calls[d].pc = "none" /\ drain' = [calls EXCEPT ![d] = c]
    BY <1>2 DEF wake
  <2>2. c.pc \in Awaiting \cup {"done"} /\ (c.pc = "done" => ~HasSlot(running))
        /\ c.gen = generation
    BY FirstAwaitClaims
  <2>3. \A e \in Drain : calls[e].pc = "none"
    BY <1>2 DEF Single
  <2> HIDE DEF c
  <2>4. drain'[d] = c /\ \A e \in Drain \ {d} : drain'[e] = calls[e]
    BY <2>1
  <2>5. \A e \in Drain : drain'[e].pc # "none" => drain'[e].gen = generation
    BY <2>2, <2>3, <2>4
  <2>6. CASE c.pc = "done"
    BY <2>2, <2>5, <2>6 DEF Owed
  <2>7. CASE c.pc \in Awaiting
    <3>1. ClaimsAgain(drain'[d], generation) /\ drain'[d].pc # "none"
      BY <2>2, <2>4, <2>7 DEF ClaimsAgain, Awaiting
    <3> QED BY <2>5, <3>1 DEF Owed
  <2> QED BY <2>2, <2>6, <2>7
<1> QED BY <1>1, <1>2

\* What the loops of drain d do: it claims again only in its own generation, and
\* it drops a hint only to look again or because there is no slot.
LEMMA LoopEffect ==
  ASSUME IInv, NEW d \in Drain, drain[d].pc # "none", NEW running,
         nextTurn(d, running) \/ nextClaim(d, running)
  PROVE  /\ \A e \in Drain \ {d} : drain'[e] = drain[e]
         /\ drain'[d].gen = drain[d].gen
         /\ drain'[d].pc \in Awaiting \cup {"done"}
         /\ drain'[d].pc \in Awaiting => Current(d)
         /\ wakePending =>
              wakePending' \/ (Current(d) /\ (drain'[d].pc \in Awaiting \/ ~HasSlot(running)))
         /\ nextClaim(d, running) /\ Current(d) =>
              drain'[d].pc \in Awaiting \/ ~HasSlot(running)
<1>0. drain \in [Drain -> Call] /\ drain[d] \in Call /\ maintenanceDue \in BOOLEAN
  BY DEF IInv, TypeOK, Call
<1> DEFINE to(p) == [drain[d] EXCEPT !.pc = p, !.got = None]
<1>1. \A p : to(p).pc = p /\ to(p).gen = drain[d].gen
  BY <1>0 DEF Call
<1>2. ASSUME NEW p, drain' = [drain EXCEPT ![d] = to(p)]
      PROVE  /\ \A e \in Drain \ {d} : drain'[e] = drain[e]
             /\ drain'[d].gen = drain[d].gen /\ drain'[d].pc = p
  <2>1. drain'[d] = to(p) /\ \A e \in Drain \ {d} : drain'[e] = drain[e]
    BY <1>0, <1>2
  <2> QED BY <1>1, <2>1
<1>3. CASE nextTurn(d, running) /\ Current(d) /\ wakePending
  <2>1. drain' = [drain EXCEPT ![d] = to(FirstAwait(maintenanceDue, running))]
    BY <1>3 DEF nextTurn
  <2> HIDE DEF to, HasSlot, FirstAwait, Current
  <2> QED BY <1>0, <1>2, <1>3, <2>1, FirstAwaitClaims
<1>4. CASE nextTurn(d, running) /\ ~(Current(d) /\ wakePending)
  <2>1. drain' = [drain EXCEPT ![d] = to("done")] /\ UNCHANGED wakePending
    BY <1>4 DEF nextTurn
  <2>2. drain'[d].pc = "done" /\ "done" \notin Awaiting
    BY <1>2, <2>1 DEF Awaiting
  <2>3. nextClaim(d, running) /\ Current(d) => ~HasSlot(running)
    <3>1. SUFFICES ASSUME nextClaim(d, running), Current(d), HasSlot(running)  PROVE FALSE
      OBVIOUS
    <3>2. drain' = [drain EXCEPT ![d] = to("claim")]
      BY <3>1 DEF nextClaim
    <3> QED BY <1>2, <2>2, <3>2
  <2> HIDE DEF to, HasSlot, Current
  <2> QED BY <1>2, <1>4, <2>1, <2>2, <2>3
<1>5. CASE nextClaim(d, running) /\ Current(d) /\ HasSlot(running)
  <2>1. drain' = [drain EXCEPT ![d] = to("claim")] /\ UNCHANGED wakePending
    BY <1>5 DEF nextClaim
  <2>2. "claim" \in Awaiting
    BY DEF Awaiting
  <2> HIDE DEF to, HasSlot, Current
  <2> QED BY <1>2, <1>5, <2>1, <2>2
<1> QED BY <1>3, <1>4, <1>5 DEF nextClaim
-----------------------------------------------------------------------------
(* What every step keeps of the hints                                      *)

\* After a claim loop of the running drain somebody still looks.
LEMMA ClaimLoopOwes ==
  ASSUME IInv, OldDrainOwes, ~stopped, NEW d \in Drain,
         drain[d].pc \in Awaiting \cup {"answered"}, NEW running, nextClaim(d, running)
  PROVE  Owed(drain', wakePending', generation, running)
<1>1. drain[d].pc # "none"
  BY DEF Awaiting
<1>2. /\ drain'[d].gen = drain[d].gen /\ drain'[d].pc \in Awaiting \cup {"done"}
      /\ drain'[d].pc \in Awaiting => Current(d)
      /\ wakePending =>
           wakePending' \/ (Current(d) /\ (drain'[d].pc \in Awaiting \/ ~HasSlot(running)))
      /\ Current(d) => drain'[d].pc \in Awaiting \/ ~HasSlot(running)
  BY <1>1, LoopEffect
<1>3. drain'[d].pc # "none"
  BY <1>2 DEF Awaiting
<1>4. CASE drain'[d].pc \in Awaiting
  <2>1. ClaimsAgain(drain'[d], generation)
    BY <1>2, <1>4 DEF ClaimsAgain, Current
  <2> QED BY <1>3, <2>1 DEF Owed
<1>5. CASE ~HasSlot(running)
  BY <1>5 DEF Owed
<1>6. CASE ~Current(d)
  <2>1. wakePending
    BY <1>6 DEF OldDrainOwes, Current
  <2> QED BY <1>2, <1>3, <1>6, <2>1 DEF Owed
<1> QED BY <1>2, <1>4, <1>5, <1>6

\* The steps of a drain keep what is owed.
LEMMA DrainHints ==
  ASSUME WInv, NEW d \in Drain,
         recovered(d) \/ expired(d) \/ claim(d) \/ claimed(d) \/ rejected(d) \/ caught(d)
  PROVE  HintsKept'
<1> SUFFICES ASSUME ~stopped', \E i \in told' : inv'[i] = "ready"
             PROVE  Owed(drain', wakePending', generation', active')
  BY DEF HintsKept
<1>0. /\ IInv /\ OldDrainOwes /\ ~stopped /\ UNCHANGED <<generation, stopped>>
      /\ drain \in [Drain -> Call] /\ drain[d] \in Call
  BY DEF WInv, IInv, TypeOK, Call, recovered, expired, claim, claimed, rejected, caught, fields
<1>1. drain[d].pc # "none"
  BY DEF recovered, expired, claim, claimed, rejected, caught, Awaiting
<1>2. \A e \in Drain \ {d} : drain[e].pc = "none"
  BY <1>0, <1>1, OnlyOne
<1>3. ASSUME NEW p, NEW g, drain' = [drain EXCEPT ![d] = [@ EXCEPT !.pc = p, !.got = g]]
      PROVE  drain'[d].pc = p /\ drain'[d].got = g /\ drain'[d].gen = drain[d].gen
  BY <1>0, <1>3 DEF Call
<1>e. \A p : [drain EXCEPT ![d] = [@ EXCEPT !.pc = p]]
               = [drain EXCEPT ![d] = [@ EXCEPT !.pc = p, !.got = drain[d].got]]
  <2>1. \A p : [drain[d] EXCEPT !.pc = p] = [drain[d] EXCEPT !.pc = p, !.got = drain[d].got]
    BY <1>0 DEF Call
  <2> QED BY <2>1
<1>4. CASE recovered(d)
  <2>1. drain' = [drain EXCEPT ![d] = [@ EXCEPT !.pc = "expire"]] /\ UNCHANGED wakePending
    BY <1>4, ZenonT(60) DEF recovered, fields
  <2>2. drain'[d].pc = "expire" /\ drain'[d].gen = drain[d].gen
    BY <1>3, <1>e, <2>1
  <2>3. drain[d].pc = "recover"
    BY <1>4 DEF recovered
  <2>4. CASE drain[d].gen = generation
    <3>1. ClaimsAgain(drain'[d], generation') /\ drain'[d].pc # "none"
      BY <1>0, <2>2, <2>4 DEF ClaimsAgain, Awaiting
    <3> QED BY <3>1 DEF Owed
  <2>5. CASE drain[d].gen # generation
    <3>1. wakePending' /\ drain'[d].pc # "none"
      BY <1>0, <2>1, <2>2, <2>3, <2>5 DEF OldDrainOwes, Awaiting
    <3> QED BY <3>1 DEF Owed
  <2> QED BY <2>4, <2>5
<1>5. CASE expired(d)
  <2>1. drain[d].pc \in Awaiting \cup {"answered"} /\ nextClaim(d, active) /\ UNCHANGED active
    BY <1>5 DEF expired, Awaiting
  <2> QED BY <1>0, <2>1, ClaimLoopOwes
<1>6. CASE claim(d)
  <2>0. /\ drain[d].pc = "claim" /\ UNCHANGED <<active, told, wakePending>>
    BY <1>6 DEF claim, fields
  <2>1. PICK i \in Inv : /\ inv[i] = "ready" /\ inv' = [inv EXCEPT ![i] = "leased"]
                         /\ drain' = [drain EXCEPT ![d] = [@ EXCEPT !.pc = "answered", !.got = i]]
    <3>1. inv' = inv => \E i \in Inv : inv[i] = "ready"
      BY <2>0 DEF WInv, IInv, TypeOK
    <3> QED BY <1>6, <3>1 DEF claim
  <2>2. drain'[d].pc = "answered" /\ drain'[d].got = i /\ drain'[d].gen = drain[d].gen
    BY <1>3, <2>1
  <2>3. i # None
    BY PumpAssumption
  <2>4. \E j \in told : inv[j] = "ready"
    BY <2>0, <2>1 DEF WInv, IInv, TypeOK
  <2>5. Owed(drain, wakePending, generation, active)
    BY <1>0, <2>4 DEF WInv, HintsKept
  <2>6. CASE ~HasSlot(active)
    BY <2>0, <2>6 DEF Owed
  <2>7. CASE HasSlot(active)
    <3>1. wakePending \/ drain[d].gen = generation
      BY <1>2, <2>0, <2>5, <2>7 DEF Owed, ClaimsAgain
    <3>2. wakePending' \/ ClaimsAgain(drain'[d], generation')
      BY <1>0, <2>0, <2>2, <2>3, <3>1 DEF ClaimsAgain
    <3> QED BY <2>2, <3>2 DEF Owed
  <2> QED BY <2>6, <2>7
<1>7. CASE claimed(d)
  <2>0. drain[d].pc = "answered" /\ drain[d].pc \in Awaiting \cup {"answered"}
    BY <1>7 DEF claimed
  <2>1. CASE nextClaim(d, active')
    BY <1>0, <2>0, <2>1, ClaimLoopOwes
  <2>2. CASE /\ ~(drain[d].got # None /\ Current(d)) /\ nextTurn(d, active)
             /\ UNCHANGED <<active, inv>>
    <3>1. Owed(drain, wakePending, generation, active)
      BY <1>0, <1>7, <2>2 DEF WInv, HintsKept, claimed
    <3>2. CASE ~HasSlot(active)
      BY <2>2, <3>2 DEF Owed
    <3>3. CASE HasSlot(active)
      <4>1. wakePending
        BY <1>0, <1>2, <2>0, <2>2, <3>1, <3>3 DEF Owed, ClaimsAgain, Current, Awaiting
      <4>2. /\ drain'[d].gen = drain[d].gen /\ drain'[d].pc \in Awaiting \cup {"done"}
            /\ wakePending' \/ (Current(d) /\ drain'[d].pc \in Awaiting)
        BY <1>0, <1>1, <2>2, <3>3, <4>1, LoopEffect
      <4>3. drain'[d].pc # "none" /\ (wakePending' \/ ClaimsAgain(drain'[d], generation'))
        BY <1>0, <4>2 DEF ClaimsAgain, Current, Awaiting
      <4> QED BY <4>3 DEF Owed
    <3> QED BY <3>2, <3>3
  <2> QED BY <1>7, <2>1, <2>2 DEF claimed
<1>8. CASE rejected(d)
  <2>1. drain' = [drain EXCEPT ![d] = [@ EXCEPT !.pc = "failed"]]
    BY <1>8, ZenonT(60) DEF rejected
  <2>2. drain'[d].pc = "failed"
    BY <1>3, <1>e, <2>1
  <2> QED BY <2>2 DEF Owed
<1>9. CASE caught(d)
  BY <1>9 DEF caught
<1> QED BY <1>4, <1>5, <1>6, <1>7, <1>8, <1>9

\* The callers of wake keep what is owed, and start drains of this generation.
LEMMA CallerHints ==
  ASSUME WInv,
         \/ \E d \in Drain : settled(d)
         \/ start \/ tick
         \/ \E i \in Inv : committedInvocations(i) \/ taskSettled(i)
  PROVE  HintsKept' /\ OldDrainOwes'
<1>0. /\ drain \in [Drain -> Call] /\ pump \in BOOLEAN /\ stopped \in BOOLEAN
      /\ maintenanceDue \in BOOLEAN /\ Single(pump, drain) /\ IInv
  BY DEF WInv, IInv, TypeOK, Call
<1>1. UNCHANGED generation
  BY DEF settled, start, tick, committedInvocations, taskSettled
<1>2. ASSUME Owed(drain', wakePending', generation, active'),
             \/ wakePending'
             \/ \A d \in Drain : drain'[d].pc # "none" => drain'[d].gen = generation
      PROVE  HintsKept' /\ OldDrainOwes'
  <2>1. HintsKept'
    BY <1>1, <1>2 DEF HintsKept
  <2>2. OldDrainOwes'
    BY <1>1, <1>2 DEF OldDrainOwes, Awaiting
  <2> QED BY <2>1, <2>2
<1>3. ASSUME stopped'  PROVE HintsKept' /\ OldDrainOwes'
  BY <1>3 DEF HintsKept, OldDrainOwes
<1>4. ASSUME NEW d \in Drain, settled(d)  PROVE HintsKept' /\ OldDrainOwes'
  <2> DEFINE calls == [drain EXCEPT ![d] = NoDrain]
  <2>0. drain[d].pc = "done" /\ UNCHANGED <<stopped, active, inv, told>>
    BY <1>4 DEF settled
  <2>1. \A e \in Drain \ {d} : drain[e].pc = "none"
    BY <1>0, <2>0, OnlyOne
  <2>2. calls \in [Drain -> Call] /\ \A e \in Drain : calls[e].pc = "none"
    BY <1>0, <2>1 DEF NoDrain, Call, DrainPC
  <2>3. Single(FALSE, calls)
    BY <2>2 DEF Single
  <2> HIDE DEF calls
  <2>4. CASE ~stopped /\ wake(stopped, FALSE, maintenanceDue, active, calls)
    <3>1. wake(FALSE, FALSE, maintenanceDue, active, calls)
      BY <1>0, <2>4
    <3> QED BY <1>0, <1>2, <2>0, <2>2, <2>3, <3>1, WakeOwes
  <2>5. CASE ~wakePending /\ drain' = calls /\ UNCHANGED wakePending
    <3>1. OldDrainOwes'
      BY <2>2, <2>5 DEF OldDrainOwes, Awaiting
    <3>2. ASSUME ~stopped', \E i \in told' : inv'[i] = "ready"
          PROVE  ~HasSlot(active)
      <4>1. Owed(drain, wakePending, generation, active)
        BY <2>0, <3>2 DEF WInv, HintsKept
      <4> QED BY <2>0, <2>1, <2>5, <4>1 DEF Owed, ClaimsAgain, Awaiting
    <3>3. HintsKept'
      BY <2>0, <3>2 DEF HintsKept, Owed
    <3> QED BY <3>1, <3>3
  <2>6. CASE stopped
    BY <1>3, <2>0, <2>6
  <2> QED BY <1>4, <2>4, <2>5, <2>6 DEF settled, calls
<1>5. CASE start
  <2>1. wake(FALSE, pump, TRUE, active, drain) /\ UNCHANGED active
    BY <1>5 DEF start
  <2> QED BY <1>0, <1>2, <2>1, WakeOwes
<1>6. CASE tick
  <2>1. wake(stopped, pump, TRUE, active, drain) /\ UNCHANGED <<stopped, active>>
    BY <1>6 DEF tick
  <2>2. CASE ~stopped
    BY <1>0, <1>2, <2>1, <2>2, WakeOwes
  <2> QED BY <1>3, <2>1, <2>2
<1>7. ASSUME NEW i \in Inv, committedInvocations(i)  PROVE HintsKept' /\ OldDrainOwes'
  <2>1. wake(stopped, pump, maintenanceDue, active, drain) /\ UNCHANGED <<stopped, active>>
    BY <1>7 DEF committedInvocations
  <2>2. CASE ~stopped
    BY <1>0, <1>2, <2>1, <2>2, WakeOwes
  <2> QED BY <1>3, <2>1, <2>2
<1>8. ASSUME NEW i \in Inv, taskSettled(i)  PROVE HintsKept' /\ OldDrainOwes'
  <2>1. wake(stopped, pump, maintenanceDue, active', drain) /\ UNCHANGED stopped
    BY <1>8 DEF taskSettled
  <2>2. CASE ~stopped
    BY <1>0, <1>2, <2>1, <2>2, WakeOwes
  <2> QED BY <1>3, <2>1, <2>2
<1> QED BY <1>4, <1>5, <1>6, <1>7, <1>8

\* A drain of an older generation ends at its next test.
LEMMA DrainGenerations ==
  ASSUME WInv, NEW d \in Drain,
         recovered(d) \/ expired(d) \/ claim(d) \/ claimed(d) \/ rejected(d) \/ caught(d)
  PROVE  OldDrainOwes'
<1>0. /\ IInv /\ OldDrainOwes /\ UNCHANGED <<generation, stopped>>
      /\ drain \in [Drain -> Call] /\ drain[d] \in Call
  BY DEF WInv, IInv, TypeOK, Call, recovered, expired, claim, claimed, rejected, caught, fields
<1>1. drain[d].pc # "none"
  BY DEF recovered, expired, claim, claimed, rejected, caught, Awaiting
<1>2. \A e \in Drain \ {d} : drain[e].pc = "none"
  BY <1>0, <1>1, OnlyOne
<1>3. CASE recovered(d) \/ claim(d)
  <2>1. UNCHANGED wakePending /\ drain[d].pc \in Awaiting
    BY <1>3 DEF recovered, claim, fields, Awaiting
  <2>2. /\ drain'[d].gen = drain[d].gen
        /\ \A e \in Drain \ {d} : drain'[e] = drain[e]
    <3>1. CASE recovered(d)
      <4>1. drain' = [drain EXCEPT ![d] = [@ EXCEPT !.pc = "expire"]]
        BY <3>1, ZenonT(60) DEF recovered
      <4> QED BY <1>0, <4>1 DEF Call
    <3>2. CASE claim(d)
      <4>1. \/ drain' = [drain EXCEPT ![d] = [@ EXCEPT !.pc = "answered"]]
            \/ \E i \in Inv : drain' = [drain EXCEPT ![d] = [@ EXCEPT !.pc = "answered", !.got = i]]
        BY <3>2, ZenonT(60) DEF claim
      <4>2. CASE drain' = [drain EXCEPT ![d] = [@ EXCEPT !.pc = "answered"]]
        BY <1>0, <4>2 DEF Call
      <4>3. ASSUME NEW i \in Inv, drain' = [drain EXCEPT ![d] = [@ EXCEPT !.pc = "answered", !.got = i]]
            PROVE  /\ drain'[d].gen = drain[d].gen
                   /\ \A e \in Drain \ {d} : drain'[e] = drain[e]
        BY <1>0, <4>3 DEF Call
      <4> QED BY <4>1, <4>2, <4>3
    <3> QED BY <1>3, <3>1, <3>2
  <2> QED BY <1>0, <1>2, <2>1, <2>2 DEF OldDrainOwes, Awaiting
<1>4. CASE expired(d) \/ claimed(d)
  <2>1. nextTurn(d, active') \/ nextClaim(d, active')
    BY <1>4 DEF expired, claimed
  <2>2. /\ \A e \in Drain \ {d} : drain'[e] = drain[e]
        /\ drain'[d].gen = drain[d].gen
        /\ drain'[d].pc \in Awaiting \cup {"done"}
        /\ drain'[d].pc \in Awaiting => Current(d)
    BY <1>0, <1>1, <2>1, LoopEffect
  <2> QED BY <1>0, <1>2, <2>2 DEF OldDrainOwes, Awaiting, Current
<1>5. CASE rejected(d) \/ caught(d)
  <2>1. \E p \in {"failed", "done"} : drain' = [drain EXCEPT ![d] = [@ EXCEPT !.pc = p]]
    BY <1>5, ZenonT(60) DEF rejected, caught
  <2>2. drain'[d].pc \in {"failed", "done"} /\ \A e \in Drain \ {d} : drain'[e] = drain[e]
    BY <1>0, <2>1 DEF Call
  <2> QED BY <1>2, <2>2 DEF OldDrainOwes, Awaiting
<1> QED BY <1>3, <1>4, <1>5

-----------------------------------------------------------------------------
(* What every step keeps of a stop                                         *)

\* The drain d of a stopped worker goes on to another state of its loop.
LEMMA DrainStop ==
  ASSUME WInv, NEW d \in Drain,
         recovered(d) \/ expired(d) \/ claim(d) \/ claimed(d) \/ rejected(d) \/ caught(d)
  PROVE  StopWaits'
<1> SUFFICES ASSUME stopped'  PROVE StopWaits'
  BY DEF StopWaits
<1>0. /\ IInv /\ StopWaits /\ stopped /\ UNCHANGED <<stopped, pump, stopper>>
      /\ drain \in [Drain -> Call] /\ drain[d] \in Call
  BY DEF WInv, IInv, TypeOK, Call, recovered, expired, claim, claimed, rejected, caught, fields
<1>1. drain[d].pc # "none"
  BY DEF recovered, expired, claim, claimed, rejected, caught, Awaiting
<1>2. active' = active
  BY <1>0 DEF recovered, expired, claim, claimed, rejected, caught, Current
<1>3. \A e \in Drain : drain[e].pc # "none" => drain'[e].pc # "none"
  <2>1. CASE expired(d) \/ claimed(d)
    <3>1. nextTurn(d, active') \/ nextClaim(d, active')
      BY <2>1 DEF expired, claimed
    <3>2. /\ \A e \in Drain \ {d} : drain'[e] = drain[e]
          /\ drain'[d].pc \in Awaiting \cup {"done"}
      BY <1>0, <1>1, <3>1, LoopEffect
    <3> QED BY <3>2 DEF Awaiting
  <2>2. CASE recovered(d) \/ claim(d) \/ rejected(d) \/ caught(d)
    <3>1. \/ \E p \in {"expire", "answered", "failed", "done"} :
               drain' = [drain EXCEPT ![d] = [@ EXCEPT !.pc = p]]
          \/ \E i \in Inv : drain' = [drain EXCEPT ![d] = [@ EXCEPT !.pc = "answered", !.got = i]]
      BY <2>2, ZenonT(60) DEF recovered, claim, rejected, caught
    <3>2. CASE \E p \in {"expire", "answered", "failed", "done"} :
                 drain' = [drain EXCEPT ![d] = [@ EXCEPT !.pc = p]]
      BY <1>0, <3>2 DEF Call
    <3>3. CASE \E i \in Inv : drain' = [drain EXCEPT ![d] = [@ EXCEPT !.pc = "answered", !.got = i]]
      BY <1>0, <3>3 DEF Call
    <3> QED BY <3>1, <3>2, <3>3
  <2> QED BY <2>1, <2>2
<1> QED BY <1>0, <1>2, <1>3 DEF StopWaits

\* Nothing but a start wakes a stopped worker: its pump can only end.
LEMMA CallerStop ==
  ASSUME WInv,
         \/ \E d \in Drain : settled(d)
         \/ start \/ tick
         \/ \E i \in Inv : committedInvocations(i) \/ taskSettled(i)
  PROVE  StopWaits'
<1> SUFFICES ASSUME stopped'  PROVE StopWaits'
  BY DEF StopWaits
<1>0. /\ IInv /\ StopWaits /\ Single(pump, drain) /\ stopped \in BOOLEAN
      /\ stopper \in [pc : {"none", "pump", "settle", "tasks"}, on : Drain \cup {None},
                       tasks : SUBSET Inv]
  BY DEF WInv, IInv, TypeOK
<1>1. ~start
  BY DEF start
<1>2. stopped
  BY <1>1 DEF settled, tick, committedInvocations, taskSettled
<1>3. ASSUME NEW d \in Drain, settled(d)  PROVE StopWaits'
  <2>1. pump' = FALSE /\ stopper' = pumpSettled(d) /\ UNCHANGED active /\ drain[d].pc # "none"
    BY <1>2, <1>3 DEF settled
  <2>2. pump /\ \A e \in Drain \ {d} : drain[e].pc = "none"
    BY <1>0, <2>1, OnlyOne
  <2>3. stopper.pc = "pump" /\ stopper.on = d
    BY <1>0, <1>2, <2>2 DEF StopWaits
  <2>4. stopper'.pc = "settle"
    BY <1>0, <2>1, <2>3 DEF pumpSettled
  <2> QED BY <2>1, <2>4 DEF StopWaits
<1>4. CASE tick
  <2>1. UNCHANGED <<pump, drain, active, stopper>>
    BY <1>2, <1>4 DEF tick, wake
  <2> QED BY <1>0, <1>2, <2>1 DEF StopWaits
<1>5. ASSUME NEW i \in Inv, committedInvocations(i)  PROVE StopWaits'
  <2>1. UNCHANGED <<pump, drain, active, stopper>>
    BY <1>2, <1>5 DEF committedInvocations, wake
  <2> QED BY <1>0, <1>2, <2>1 DEF StopWaits
<1>6. ASSUME NEW i \in Inv, taskSettled(i)  PROVE StopWaits'
  <2>1. UNCHANGED <<pump, drain>> /\ active' = active \ {i}
    BY <1>2, <1>6 DEF taskSettled, wake
  <2>2. /\ stopper'.pc = stopper.pc /\ stopper'.on = stopper.on
        /\ stopper'.tasks = stopper.tasks \ {i}
    BY <1>0, <1>6 DEF taskSettled
  <2> QED BY <1>0, <1>2, <2>1, <2>2 DEF StopWaits
<1> QED BY <1>1, <1>3, <1>4, <1>5, <1>6

-----------------------------------------------------------------------------
\* Hints are given for admitted invocations, and admission is not undone.
LEMMA AdmittedKeeps == WInv /\ Next => HintsAdmitted'
<1> SUFFICES ASSUME WInv, Next  PROVE HintsAdmitted'
  OBVIOUS
<1>0. /\ HintsAdmitted /\ inv \in [Inv -> {"out", "ready", "leased", "lapsed", "running", "done"}]
      /\ hints \subseteq Inv /\ told \subseteq Inv /\ drain \in [Drain -> Call]
  BY DEF WInv, IInv, TypeOK, Call
<1>1. ASSUME hints' \cup told' \subseteq hints \cup told,
             \A i \in Inv : inv[i] # "out" => inv'[i] # "out"
      PROVE  HintsAdmitted'
  BY <1>0, <1>1 DEF HintsAdmitted
<1>2. ASSUME NEW d \in Drain, Pump(d)  PROVE HintsAdmitted'
  <2>1. hints' \cup told' \subseteq hints \cup told
    BY <1>2 DEF Pump, recovered, expired, claim, claimed, rejected, caught, settled
  <2>2. CASE recovered(d)
    BY <1>0, <1>1, <2>1, <2>2 DEF recovered
  <2>3. CASE claim(d)
    <3>1. inv' = inv \/ \E i \in Inv : inv' = [inv EXCEPT ![i] = "leased"]
      BY <2>3 DEF claim
    <3> QED BY <1>0, <1>1, <2>1, <3>1
  <2>4. CASE rejected(d)
    <3>1. inv' = inv \/ \E i \in Inv : inv' = [inv EXCEPT ![i] = "leased"]
      BY <2>4 DEF rejected
    <3> QED BY <1>0, <1>1, <2>1, <3>1
  <2>5. CASE claimed(d)
    <3>1. drain[d].got \in Inv \cup {None}
      BY <1>0 DEF Call
    <3>2. inv' = inv \/ (drain[d].got # None /\ inv' = [inv EXCEPT ![drain[d].got] = "running"])
      BY <2>5 DEF claimed
    <3> QED BY <1>0, <1>1, <2>1, <3>1, <3>2
  <2>6. CASE expired(d) \/ caught(d) \/ settled(d)
    BY <1>1, <2>1, <2>6 DEF expired, caught, settled
  <2> QED BY <1>2, <2>2, <2>3, <2>4, <2>5, <2>6 DEF Pump
<1>3. CASE start \/ tick \/ stop \/ stopTasks \/ stopReturns
  BY <1>1, <1>3 DEF start, tick, stop, stopTasks, stopReturns
<1>4. ASSUME NEW i \in Inv, committedInvocations(i)  PROVE HintsAdmitted'
  BY <1>1, <1>4 DEF committedInvocations
<1>5. ASSUME NEW i \in Inv, taskSettled(i) \/ claimedElsewhere(i) \/ leaseLapses(i)
      PROVE  HintsAdmitted'
  <2>1. UNCHANGED <<hints, told>> /\ \E s \in {"done", "lapsed"} : inv' = [inv EXCEPT ![i] = s]
    BY <1>5 DEF taskSettled, claimedElsewhere, leaseLapses
  <2> QED BY <1>0, <1>1, <2>1
<1>6. ASSUME NEW i \in Inv, admitted(i)  PROVE HintsAdmitted'
  <2>1. inv' = [inv EXCEPT ![i] = "ready"] /\ hints' \cup told' \subseteq hints \cup told \cup {i}
    BY <1>6 DEF admitted
  <2> QED BY <1>0, <2>1 DEF HintsAdmitted
<1> QED BY <1>2, <1>3, <1>4, <1>5, <1>6 DEF Next

-----------------------------------------------------------------------------
(* The invariant                                                           *)

\* The steps that touch neither the drains nor the hints given.
LEMMA OtherKeeps ==
  ASSUME WInv,
         \/ UNCHANGED vars \/ stop \/ stopTasks \/ stopReturns
         \/ \E i \in Inv : admitted(i) \/ claimedElsewhere(i) \/ leaseLapses(i)
  PROVE  HintsKept' /\ OldDrainOwes' /\ StopWaits'
<1>0. /\ HintsKept /\ OldDrainOwes /\ HintsAdmitted /\ StopWaits /\ stopped \in BOOLEAN
      /\ inv \in [Inv -> {"out", "ready", "leased", "lapsed", "running", "done"}]
      /\ told \subseteq Inv /\ Single(pump, drain)
      /\ stopper \in [pc : {"none", "pump", "settle", "tasks"}, on : Drain \cup {None},
                       tasks : SUBSET Inv]
  BY DEF WInv, IInv, TypeOK
<1>1. CASE stop
  <2>1. /\ stopped' = TRUE /\ UNCHANGED <<pump, drain, active>>
        /\ \/ /\ ~pump
              /\ stopper' = [stopper EXCEPT !.pc = "settle"]
           \/ \E d \in Drain : /\ drain[d].pc # "none"
                               /\ stopper' = [stopper EXCEPT !.pc = "pump", !.on = d]
    BY <1>1 DEF stop
  <2>2. HintsKept' /\ OldDrainOwes'
    BY <2>1 DEF HintsKept, OldDrainOwes
  <2>3. CASE ~pump /\ stopper' = [stopper EXCEPT !.pc = "settle"]
    BY <1>0, <2>1, <2>2, <2>3 DEF StopWaits
  <2>4. ASSUME NEW d \in Drain, drain[d].pc # "none",
               stopper' = [stopper EXCEPT !.pc = "pump", !.on = d]
        PROVE  StopWaits'
    BY <1>0, <2>1, <2>4 DEF StopWaits
  <2> QED BY <2>1, <2>2, <2>3, <2>4
<1>2. CASE \/ UNCHANGED vars \/ stopTasks \/ stopReturns
           \/ \E i \in Inv : admitted(i) \/ claimedElsewhere(i) \/ leaseLapses(i)
  <2>1. UNCHANGED <<stopped, generation, wakePending, pump, drain, active, told>>
    BY <1>2 DEF vars, fields, stopTasks, stopReturns, admitted, claimedElsewhere, leaseLapses
  <2>2. \A i \in told : inv'[i] = "ready" => inv[i] = "ready"
    <3>1. CASE inv' = inv
      BY <3>1
    <3>2. ASSUME NEW i \in Inv, admitted(i) \/ claimedElsewhere(i) \/ leaseLapses(i)
          PROVE  \A j \in told : inv'[j] = "ready" => inv[j] = "ready"
      <4>1. CASE admitted(i)
        <5>1. i \notin told /\ inv' = [inv EXCEPT ![i] = "ready"]
          BY <1>0, <4>1 DEF admitted, HintsAdmitted
        <5> QED BY <1>0, <5>1
      <4>2. CASE claimedElsewhere(i) \/ leaseLapses(i)
        <5>1. \E s \in {"done", "lapsed"} : inv' = [inv EXCEPT ![i] = s]
          BY <4>2 DEF claimedElsewhere, leaseLapses
        <5> QED BY <1>0, <5>1
      <4> QED BY <3>2, <4>1, <4>2
    <3> QED BY <1>2, <3>1, <3>2 DEF vars, stopTasks, stopReturns
  <2>3. HintsKept' /\ OldDrainOwes'
    <3>1. OldDrainOwes'
      BY <1>0, <2>1 DEF OldDrainOwes
    <3>2. HintsKept'
      BY <1>0, <2>1, <2>2 DEF HintsKept, Owed
    <3> QED BY <3>1, <3>2
  <2>4. CASE stopper' = stopper
    BY <1>0, <2>1, <2>3, <2>4 DEF StopWaits
  <2>5. CASE stopTasks
    <3>1. stopper.pc = "settle" /\ stopper' = [stopper EXCEPT !.pc = "tasks", !.tasks = active]
      BY <2>5 DEF stopTasks
    <3> QED BY <1>0, <2>1, <2>3, <3>1 DEF StopWaits
  <2>6. CASE stopReturns
    <3>1. stopper.pc = "tasks" /\ stopper.tasks = {} /\ stopper'.pc = "none"
      BY <2>6 DEF stopReturns, NoStop
    <3> QED BY <1>0, <2>1, <2>3, <3>1 DEF StopWaits
  <2> QED BY <1>2, <2>3, <2>4, <2>5, <2>6
        DEF vars, admitted, claimedElsewhere, leaseLapses
<1> QED BY <1>1, <1>2

LEMMA WakeStep == WInv /\ [Next]_vars => WInv'
<1> SUFFICES ASSUME WInv, [Next]_vars  PROVE WInv'
  OBVIOUS
<1>1. IInv'
  BY StepKeeps DEF WInv
<1>2. HintsAdmitted'
  <2>1. CASE Next
    BY <2>1, AdmittedKeeps
  <2>2. CASE UNCHANGED vars
    BY <2>2 DEF WInv, HintsAdmitted, vars
  <2> QED BY <2>1, <2>2
<1>3. HintsKept' /\ OldDrainOwes' /\ StopWaits'
  <2>1. ASSUME NEW d \in Drain,
               recovered(d) \/ expired(d) \/ claim(d) \/ claimed(d) \/ rejected(d) \/ caught(d)
        PROVE  HintsKept' /\ OldDrainOwes' /\ StopWaits'
    BY <2>1, DrainHints, DrainGenerations, DrainStop, Zenon
  <2>2. CASE \/ \E d \in Drain : settled(d)
             \/ start \/ tick
             \/ \E i \in Inv : committedInvocations(i) \/ taskSettled(i)
    BY <2>2, CallerHints, CallerStop, Zenon
  <2>3. CASE \/ UNCHANGED vars \/ stop \/ stopTasks \/ stopReturns
             \/ \E i \in Inv : admitted(i) \/ claimedElsewhere(i) \/ leaseLapses(i)
    BY <2>3, OtherKeeps, Zenon
  <2> QED BY <2>1, <2>2, <2>3, Zenon DEF Next, Pump
<1> QED BY <1>1, <1>2, <1>3 DEF WInv

LEMMA WakeInit == Init => WInv
<1> SUFFICES ASSUME Init  PROVE WInv
  OBVIOUS
<1>1. IInv
  BY InitHolds
<1>2. HintsKept /\ OldDrainOwes
  BY DEF Init, HintsKept, OldDrainOwes
<1>3. HintsAdmitted
  BY DEF Init, HintsAdmitted
<1>4. StopWaits
  BY DEF Init, NoStop, StopWaits
<1> QED BY <1>1, <1>2, <1>3, <1>4 DEF WInv

\* The inductive invariant of hints and stops.
THEOREM WakeInvariant == Spec => []WInv
<1> QED BY WakeInit, WakeStep, PTL DEF Spec

\* For any number of invocations, slots, restarts and failed calls: when the pump
\* rests with a slot free, every ready invocation that wake() was called for has
\* been looked for, whatever drain was awaiting when the hint came.
THEOREM WakesKept == Spec => []NoLostWake
<1>1. WInv => NoLostWake
  <2> SUFFICES ASSUME WInv, ~pump, ~stopped, HasSlot(active)
               PROVE  \A i \in told : inv[i] # "ready"
    BY DEF NoLostWake
  <2>1. \A d \in Drain : drain[d].pc = "none"
    BY DEF WInv, IInv, Single
  <2>2. ~Owed(drain, wakePending, generation, active)
    BY <2>1 DEF Owed
  <2> QED BY <2>2 DEF WInv, HintsKept
<1> QED BY <1>1, WakeInvariant, PTL

\* For any interleaving of stop(), start(), drains and settling tasks: once stop()
\* has returned and nobody started the worker again, no drain and no task runs.
THEOREM StopLeavesNothing == Spec => []StopQuiesces
<1>1. WInv => StopQuiesces
  BY DEF WInv, IInv, Single, StopWaits, StopQuiesces
<1> QED BY <1>1, WakeInvariant, PTL

\* One drain at a time, and never more tasks than slots.
THEOREM DrainDisciplineHolds == Spec => []DrainDiscipline
<1>1. IInv => DrainDiscipline
  BY DEF IInv, Single, OneDrain, DrainDiscipline
<1> QED BY <1>1, PumpInvariant, PTL

\* drain launches a claimed invocation only in the generation that asked for it:
\* a claim overtaken by stop() is dropped even after the next start().
THEOREM OvertakenClaim == Spec => OvertakenClaimDropped
<1> DEFINE A == \A i \in active' \ active :
                  ~stopped /\ \E d \in Drain : drain[d].got = i /\ drain[d].gen = generation
<1>1. Next => A
  <2> SUFFICES ASSUME Next, NEW i \in active' \ active
               PROVE  ~stopped /\ \E d \in Drain : drain[d].got = i /\ drain[d].gen = generation
    OBVIOUS
  <2>1. PICK d \in Drain : claimed(d)
    BY DEF Next, Pump, recovered, expired, claim, rejected, caught, settled, start, tick, stop,
           stopTasks, stopReturns, committedInvocations, taskSettled, admitted,
           claimedElsewhere, leaseLapses
  <2>2. Current(d) /\ active' = active \cup {drain[d].got}
    BY <2>1 DEF claimed
  <2> QED BY <2>2 DEF Current
<1>2. [Next]_vars => [A]_vars
  BY <1>1
<1> QED BY <1>2, PTL DEF Spec, OvertakenClaimDropped
=============================================================================
