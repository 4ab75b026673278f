-------------------------- MODULE SchedulingProofs --------------------------
(***************************************************************************)
(* Proofs about Scheduling: its invariant is inductive, and from it follow  *)
(* one call at a time, the frequency cap, and no call after an opt-out.    *)
(***************************************************************************)
EXTENDS Scheduling, FiniteSetTheorems, TLAPS

USE CallersAssumption, NoneAssumption, CapAssumption, BoundsAssumption, FiniteAssumption,
    PlacingAssumption

-----------------------------------------------------------------------------
(* A loop or a request with nothing in hand, and a loop done with an action. *)
LEMMA IdleFacts == Idle \in Positions /\ Idle.step = "idle" /\ Idle.batch = {}
<1>1. [a \in Actions |-> Unseen] \in [Actions -> [retry : Nat, voice : BOOLEAN]]
  BY DEF Unseen
<1>2. QED
  BY <1>1 DEF Idle, Positions

LEMMA RestFacts ==
    ASSUME TypeOK, NEW s \in Callers, NEW a
    PROVE  /\ Rest(s, a) \in Positions /\ Rest(s, a).step = "idle"
           /\ Rest(s, a).batch = caller[s].batch \ {a}
<1>1. caller[s].seen \in [Actions -> [retry : Nat, voice : BOOLEAN]]
      /\ caller[s].batch \ {a} \in SUBSET Actions
  BY DEF TypeOK, Positions
<1>2. [caller[s].seen EXCEPT ![a] = Unseen] \in [Actions -> [retry : Nat, voice : BOOLEAN]]
  BY <1>1 DEF Unseen
<1>3. QED
  BY <1>1, <1>2 DEF Rest, Idle, Positions

(* What the helpers on scheduled_actions rows do.                          *)
LEMMA SetFacts ==
    ASSUME NEW acts \in [Actions -> ActionRows], NEW a \in Actions,
           NEW status \in {"PENDING", "DONE", "CANCELED", "FAILED"}
    PROVE  /\ Set(acts, a, status) \in [Actions -> ActionRows]
           /\ Set(acts, a, status)[a].status = status
           /\ Set(acts, a, status)[a].wf = acts[a].wf
           /\ Set(acts, a, status)[a].retry = acts[a].retry
           /\ Set(acts, a, status)[a].due = FALSE
BY ZenonT(30) DEF Set, ActionRows

LEMMA SetOther ==
    ASSUME NEW acts \in [Actions -> ActionRows], NEW a \in Actions,
           NEW status \in {"PENDING", "DONE", "CANCELED", "FAILED"}, NEW b \in Actions \ {a}
    PROVE  Set(acts, a, status)[b] = acts[b]
BY DEF Set, ActionRows

(* What cancelPending writes to a row.                                     *)
LEMMA RowCanceled ==
    ASSUME NEW row \in ActionRows
    PROVE  LET canceled == [row EXCEPT !.status = "CANCELED", !.due = FALSE]
           IN  /\ canceled \in ActionRows /\ canceled.status = "CANCELED"
               /\ canceled.wf = row.wf /\ canceled.due = FALSE
BY DEF ActionRows

LEMMA NewFacts ==
    ASSUME NEW acts \in [Actions -> ActionRows], NEW a \in Actions, NEW k \in CallIds,
           calls \in [CallIds -> CallRows],
           NEW type \in Types, NEW due \in BOOLEAN
    PROVE  /\ New(acts, a, k, type, due) \in [Actions -> ActionRows]
           /\ New(acts, a, k, type, due)[a].status = "PENDING"
           /\ New(acts, a, k, type, due)[a].wf = calls[k].wf
           /\ \A b \in Actions : b # a => New(acts, a, k, type, due)[b] = acts[b]
<1>1. calls[k].wf \in Workflows \cup {None} /\ Voice(calls[k].origin) \in BOOLEAN
  BY DEF CallRows, Voice
<1>2. QED
  BY <1>1 DEF New, ActionRows

-----------------------------------------------------------------------------
(* What keeps each part of the invariant.                                  *)
LEMMA CallFrame ==
    ASSUME CallInv, UNCHANGED <<calls, workflow>>
    PROVE  CallInv'
<1>1. Attempts' = Attempts
  BY DEF Attempts
<1>2. QED
  BY <1>1 DEF CallInv, CallsPlaced, OneCallAtATime, CapRespected, OpenCallsRun, Open

(* A loop or a request that is not between the statements of startCall      *)
(* moves, and does not get between them.                                   *)
LEMMA StartFrame ==
    ASSUME TypeOK, StartInv, UNCHANGED <<borrower, lock, calls>>, NEW c \in Callers,
           ~Between(c), NEW pos, caller' = [caller EXCEPT ![c] = pos],
           pos.step \notin {"locked", "read", "checked"}
    PROVE  StartInv'
<1>1. Attempts' = Attempts
  BY DEF Attempts
<1>2. \A d \in Callers : d # c => caller'[d] = caller[d]
  BY DEF TypeOK
<1>3. caller'[c] = pos
  BY DEF TypeOK
<1>4. LockHeld'
  BY <1>2, <1>3 DEF StartInv, LockHeld, Between
<1>5. ReadsHold'
  BY <1>1, <1>2, <1>3 DEF StartInv, ReadsHold, Between, At, Active, AtCap, Open
<1>6. QED
  BY <1>4, <1>5 DEF StartInv

(* A loop has settled one action of its batch and written nothing else.     *)
LEMMA RowSettled ==
    ASSUME TypeOK, RowInv, NEW s \in Servers, NEW a \in caller[s].batch,
           actions' \in [Actions -> ActionRows],
           actions'[a].status # "ABSENT", actions'[a].wf = actions[a].wf, ~actions'[a].due,
           \A b \in Actions : b # a => actions'[b] = actions[b],
           caller' = [caller EXCEPT ![s] = Rest(s, a)],
           faults' = 0 => faults = 0
    PROVE  RowInv' /\ caller' \in [Callers -> Positions]
<1>1. s \in Callers /\ s \notin Clients /\ a \in Actions
  BY DEF Callers, TypeOK, Positions
<1>2. caller'[s] = Rest(s, a)
  BY <1>1 DEF TypeOK
<1>3. \A c \in Callers : c # s => caller'[c] = caller[c]
  BY DEF TypeOK
<1>4. caller' \in [Callers -> Positions]
  BY <1>1, RestFacts DEF TypeOK
<1>5. RowsPlaced'
  BY <1>1 DEF RowInv, RowsPlaced, InBatch
<1>6. caller'[s].batch = caller[s].batch \ {a} /\ caller'[s].step = "idle"
  BY <1>1, <1>2, RestFacts
<1>7. \A r \in Servers : caller'[r].batch \subseteq caller[r].batch /\ caller[r].batch \subseteq Actions
  BY <1>3, <1>6 DEF Callers, TypeOK, Positions
<1>8. InBatch'
  BY <1>1, <1>3, <1>6, <1>7 DEF RowInv, InBatch, Callers
<1>9. ClaimsHold'
  <2>1. SUFFICES ASSUME faults = 0, NEW r \in Servers, NEW b \in caller'[r].batch
                 PROVE  /\ actions'[b].status = "CLAIMED" /\ ~actions'[b].due
                        /\ \A q \in Servers \ {r} : b \notin caller'[q].batch
    BY DEF ClaimsHold
  <2>2. b \in caller[r].batch /\ b # a
    BY <1>1, <1>3, <1>6, <1>7, <2>1 DEF RowInv, ClaimsHold, Callers
  <2>3. QED
    BY <1>7, <2>1, <2>2 DEF RowInv, ClaimsHold
<1>10. QED
  BY <1>4, <1>5, <1>8, <1>9 DEF RowInv

(* Rows are created, canceled or moved, none of them in a loop's hands.     *)
LEMMA RowsWritten ==
    ASSUME TypeOK, RowInv, faults' = 0 => faults = 0,
           \A s \in Servers : caller'[s] = caller[s],
           \A c \in Clients : \/ caller'[c] = caller[c]
                              \/ caller'[c].step \notin {"failing", "dispatch"}
                              \/ caller'[c].step = "dispatch" /\ caller'[c].call \in CallIds,
           actions' \in [Actions -> ActionRows],
           \A a \in Actions :
              \/ actions'[a] = actions[a]
              \/ /\ actions[a].status \notin {"CLAIMED"}
                 /\ actions'[a].status # "ABSENT" /\ actions'[a].wf \in Workflows
                 /\ actions'[a].due => actions'[a].status = "PENDING"
    PROVE  RowInv'
<1>1. \A s \in Servers : caller[s].batch \subseteq Actions
  BY DEF TypeOK, Callers, Positions
<1>2. RowsPlaced'
  BY DEF RowInv, RowsPlaced
<1>3. InBatch'
  BY <1>1 DEF RowInv, InBatch
<1>4. ClaimsHold'
  BY <1>1 DEF RowInv, ClaimsHold
<1>5. QED
  BY <1>2, <1>3, <1>4 DEF RowInv

(* The position of a loop changes, but not what it has in hand.             *)
LEMMA RowFrame ==
    ASSUME TypeOK, RowInv, UNCHANGED <<actions, faults>>, NEW c \in Callers, NEW pos \in Positions,
           caller' = [caller EXCEPT ![c] = pos],
           c \in Servers => /\ pos.batch = caller[c].batch
                            /\ pos.step # "idle" => pos.action \in pos.batch,
           c \in Clients => pos.step \notin {"failing", "dispatch"}
    PROVE  RowInv' /\ caller' \in [Callers -> Positions]
<1>1. caller'[c] = pos /\ \A d \in Callers : d # c => caller'[d] = caller[d]
  BY DEF TypeOK
<1>2. \A s \in Servers : caller'[s].batch = caller[s].batch
  BY <1>1 DEF Callers
<1>3. InBatch'
  BY <1>1, <1>2 DEF RowInv, InBatch, Callers
<1>4. RowsPlaced' /\ ClaimsHold'
  BY <1>2 DEF RowInv, RowsPlaced, ClaimsHold
<1>5. QED
  BY <1>3, <1>4 DEF RowInv, TypeOK

(* The borrower row is given back.                                         *)
LEMMA StartFreed ==
    ASSUME TypeOK, StartInv, NEW c \in Callers, lock \in {c, None}, lock' = None, NEW pos,
           caller' = [caller EXCEPT ![c] = pos],
           pos.step \notin {"locked", "read", "checked"}
    PROVE  StartInv'
<1>1. caller'[c] = pos /\ \A d \in Callers : d # c => caller'[d] = caller[d]
  BY DEF TypeOK
<1>2. \A d \in Callers : ~Between(d)'
  BY <1>1 DEF StartInv, LockHeld, Between
<1>3. \A d \in Callers : lock' # d
  OBVIOUS
<1>4. LockHeld'
  BY <1>2, <1>3 DEF LockHeld
<1>5. ReadsHold'
  BY <1>2 DEF ReadsHold, Between, At
<1>6. QED
  BY <1>4, <1>5 DEF StartInv

(* Nobody gets between the statements of startCall or leaves them, and      *)
(* nothing they read gets worse.                                           *)
LEMMA StartKept ==
    ASSUME TypeOK, StartInv, lock' = lock,
           \A c \in Callers : caller'[c] = caller[c] \/ (~Between(c) /\ ~Between(c)'),
           Attempts' = Attempts, Active' => Active,
           borrower'.optedOut => borrower.optedOut \/ lock = None
    PROVE  StartInv'
<1>1. LockHeld'
  BY DEF StartInv, LockHeld, Between
<1>2. ReadsHold'
  <2>1. ASSUME NEW c \in Callers
        PROVE  Between(c) /\ borrower'.optedOut => "BORROWER_OPT_OUT" \in caller[c].failures
    BY DEF StartInv, LockHeld, ReadsHold
  <2>2. QED
    BY <2>1 DEF StartInv, ReadsHold, Between, At, AtCap
<1>3. QED
  BY <1>1, <1>2 DEF StartInv

-----------------------------------------------------------------------------
(* The end of a call, and the start of one.                                *)
LEMMA EndFacts ==
    ASSUME TypeOK, CallInv, NEW k \in CallIds, NEW o, Overrides(k, o)
    PROVE  /\ calls' \in [CallIds -> CallRows]
           /\ workflow' \in [Workflows -> {"ABSENT", "RUNNING", "COMPLETED"}]
           /\ lock' = lock /\ faults' \in Nat /\ (faults' = 0 => faults = 0)
           /\ calls[k].wf \in Workflows
           /\ CallInv' /\ Attempts' = Attempts
           /\ Active' => Active
<1>1. /\ calls[k].status # "ABSENT"
      /\ workflow' = [workflow EXCEPT ![calls[k].wf] = workflowStatusFor(o)]
      /\ lock' = lock /\ faults' \in Nat /\ (faults' = 0 => faults = 0)
  <2>1. CASE Ends(k, o)
    <3>1. PICK late \in BOOLEAN : faults' = IF late THEN faults + 1 ELSE faults
      BY <2>1 DEF Ends
    <3>2. QED
      BY <2>1, <3>1 DEF Ends, Open, TypeOK
  <2>2. CASE EndsAgain(k, o)
    BY <2>2 DEF EndsAgain, TypeOK
  <2>3. QED
    BY <2>1, <2>2 DEF Overrides
<1>2. workflow' \in [Workflows -> {"ABSENT", "RUNNING", "COMPLETED"}]
  BY <1>1 DEF TypeOK, workflowStatusFor
<1>3. /\ calls' \in [CallIds -> CallRows]
      /\ \A l \in CallIds :
            /\ calls'[l].status = "ABSENT" <=> calls[l].status = "ABSENT"
            /\ calls'[l].wf = calls[l].wf
            /\ Open(l)' => /\ Open(l)
                           /\ \/ calls'[l].status = "OVERRULED"
                              \/ calls'[l] = calls[l] /\ calls[l].wf # calls[k].wf
  <2>1. CASE Ends(k, o)
    <3>1. PICK left \in {"HUNG_UP", "ENDED"} :
             calls' = [calls EXCEPT ![k].status = left, ![k].origin = "sip"]
      BY <2>1 DEF Ends
    <3>2. calls' \in [CallIds -> CallRows]
      BY <3>1, ZenonT(30) DEF TypeOK, CallRows, Origins
    <3>3. /\ calls'[k].status = left /\ calls'[k].wf = calls[k].wf
          /\ \A l \in CallIds : l # k => calls'[l] = calls[l]
      BY <3>1 DEF TypeOK, CallRows
    <3>4. \A l \in CallIds : ~Open(l)'
      BY <2>1, <3>3 DEF Ends, CallInv, OneCallAtATime, Open
    <3>5. QED
      BY <1>1, <3>2, <3>3, <3>4
  <2>2. CASE EndsAgain(k, o)
    <3>1. calls[k].status = "HUNG_UP" /\ calls \in [CallIds -> CallRows]
      BY <2>2 DEF EndsAgain, TypeOK
    <3>2. \A l \in CallIds : calls'[l] =
             IF l = k THEN [calls[l] EXCEPT !.status = "ENDED"]
             ELSE IF Open(l) /\ calls[l].wf = calls[k].wf
                  THEN [calls[l] EXCEPT !.status = "OVERRULED"]
                  ELSE calls[l]
      BY <2>2 DEF EndsAgain
    <3>3. \A row \in CallRows : \A status \in {"ENDED", "OVERRULED"} :
             /\ [row EXCEPT !.status = status] \in CallRows
             /\ [row EXCEPT !.status = status].status = status
             /\ [row EXCEPT !.status = status].wf = row.wf
      BY DEF CallRows
    <3>4. calls' \in [CallIds -> CallRows]
      <4>1. ASSUME NEW l \in CallIds PROVE calls'[l] \in CallRows
        <5>1. /\ calls[l] \in CallRows
              /\ [calls[l] EXCEPT !.status = "ENDED"] \in CallRows
              /\ [calls[l] EXCEPT !.status = "OVERRULED"] \in CallRows
          BY <3>1, <3>3
        <5>2. QED
          BY <3>2, <5>1, Zenon
      <4>2. calls' = [l \in CallIds |-> calls'[l]]
        BY <2>2, Zenon DEF EndsAgain
      <4>3. QED
        BY <4>1, <4>2
    <3>5. ASSUME NEW l \in CallIds
          PROVE  /\ calls'[l].status = "ABSENT" <=> calls[l].status = "ABSENT"
                 /\ calls'[l].wf = calls[l].wf
                 /\ Open(l)' => /\ Open(l)
                                /\ \/ calls'[l].status = "OVERRULED"
                                   \/ calls'[l] = calls[l] /\ calls[l].wf # calls[k].wf
      BY <3>1, <3>2, <3>3 DEF Open
    <3>6. QED
      BY <3>4, <3>5
  <2>3. QED
    BY <2>1, <2>2 DEF Overrides
<1>4. Attempts' = Attempts
  BY <1>3 DEF Attempts
<1>5. calls[k].wf \in Workflows
  BY <1>1 DEF CallInv, CallsPlaced
<1>6. OpenCallsRun'
  BY <1>1, <1>2, <1>3 DEF CallInv, CallsPlaced, OpenCallsRun, Open, TypeOK
<1>7. CallInv'
  BY <1>3, <1>4, <1>6 DEF CallInv, CallsPlaced, OneCallAtATime, CapRespected
<1>8. Active' => Active
  BY <1>3 DEF Active
<1>9. QED
  BY <1>1, <1>2, <1>3, <1>4, <1>5, <1>7, <1>8

LEMMA InsertFacts ==
    ASSUME TypeOK, StartInv, CallInv, NEW c \in Callers, NEW k \in CallIds, NEW origin \in Origins,
           NEW w \in Workflows, Passed(c), Insert(c, k, origin, w)
    PROVE  /\ calls' \in [CallIds -> CallRows]
           /\ workflow' \in [Workflows -> {"ABSENT", "RUNNING", "COMPLETED"}]
           /\ lock = c /\ ~borrower.optedOut
           /\ CallInv'
<1>1. /\ calls[k].status = "ABSENT"
      /\ calls' = [calls EXCEPT ![k] = [status |-> "OPEN", origin |-> origin, wf |-> w]]
      /\ workflow' = [workflow EXCEPT ![w] = "RUNNING"]
  BY DEF Insert, Unused
<1>2. calls' \in [CallIds -> CallRows]
  BY <1>1 DEF TypeOK, CallRows
<1>3. workflow' \in [Workflows -> {"ABSENT", "RUNNING", "COMPLETED"}] /\ workflow'[w] = "RUNNING"
  BY <1>1 DEF TypeOK
<1>4. At(c, "checked") /\ caller[c].failures = {} /\ Between(c)
  BY DEF Passed, At, Between
<1>5. lock = c /\ ~borrower.optedOut /\ ~Active /\ ~AtCap
  BY <1>4 DEF StartInv, LockHeld, ReadsHold
<1>6. /\ calls'[k].status = "OPEN" /\ calls'[k].wf = w
      /\ \A l \in CallIds : l # k => calls'[l] = calls[l]
  BY <1>1 DEF TypeOK
<1>7. \A l \in CallIds : Open(l)' => l = k
  BY <1>5, <1>6 DEF Active, Open
<1>8. Attempts' = Attempts \cup {k} /\ k \notin Attempts
  BY <1>1, <1>6 DEF Attempts
<1>9. IsFiniteSet(Attempts)
  BY FS_Subset DEF Attempts
<1>10. Cardinality(Attempts') = Cardinality(Attempts) + 1 /\ Cardinality(Attempts) \in Nat
  BY <1>8, <1>9, FS_AddElement, FS_CardinalityType
<1>11. CapRespected'
  BY <1>5, <1>10 DEF AtCap, CapRespected
<1>12. CallInv'
  BY <1>3, <1>6, <1>7, <1>11 DEF CallInv, CallsPlaced, OneCallAtATime, OpenCallsRun
<1>13. QED
  BY <1>2, <1>3, <1>5, <1>12
-----------------------------------------------------------------------------
(* Each action preserves the invariant.                                    *)
LEMMA Initially == Init => SchedulingInv
<1> SUFFICES ASSUME Init PROVE SchedulingInv
  OBVIOUS
<1> USE DEF Init
<1>1. TypeOK
  BY IdleFacts DEF TypeOK, BorrowerRows, CallRows, ActionRows, Origins, Types
<1>2. StartInv
  BY DEF StartInv, LockHeld, ReadsHold, Between, At, Idle
<1>3. Attempts = {} /\ Cardinality(Attempts) = 0
  BY FS_EmptySet DEF Attempts
<1>4. CallInv
  BY <1>3 DEF CallInv, CallsPlaced, OneCallAtATime, CapRespected, OpenCallsRun, Open
<1>5. RowInv
  BY DEF RowInv, RowsPlaced, InBatch, ClaimsHold, Idle, Callers
<1>6. QED
  BY <1>1, <1>2, <1>4, <1>5 DEF SchedulingInv

LEMMA TimePasses ==
    ASSUME SchedulingInv, NEW a \in Actions, TimeComes(a) \/ LeaseOver(a)
    PROVE  SchedulingInv'
<1> USE DEF SchedulingInv
<1>1. /\ actions' = [actions EXCEPT ![a].due = TRUE] /\ ~actions[a].due
      /\ actions[a].status \in {"PENDING", "CLAIMED"}
      /\ UNCHANGED <<borrower, lock, calls, workflow, caller>>
  BY DEF TimeComes, LeaseOver, Leased
<1>2. faults' \in Nat /\ (faults' = 0 => UNCHANGED faults)
      /\ (faults' = 0 /\ actions[a].status = "CLAIMED" => ~InHand(a))
  BY DEF TimeComes, LeaseOver, TypeOK
<1>3. actions' \in [Actions -> ActionRows]
  <2>1. actions \in [Actions -> ActionRows]
    BY DEF TypeOK
  <2>2. QED
    BY <1>1, <2>1, ZenonT(30) DEF ActionRows
<1>4. TypeOK'
  BY <1>1, <1>2, <1>3 DEF TypeOK
<1>5. Attempts' = Attempts /\ (Active' => Active)
  BY <1>1 DEF Attempts, Active, Open
<1>6. StartInv'
  BY <1>1, <1>5, StartKept
<1>7. CallInv'
  BY <1>1, CallFrame
<1>8. /\ actions'[a].status = actions[a].status /\ actions'[a].wf = actions[a].wf
      /\ \A b \in Actions : b # a => actions'[b] = actions[b]
  BY <1>1 DEF TypeOK, ActionRows
<1>9. RowsPlaced'
  BY <1>1, <1>8 DEF RowInv, RowsPlaced
<1>10. \A s \in Servers : caller[s].batch \subseteq Actions
  BY DEF TypeOK, Callers, Positions
<1>11. InBatch'
  BY <1>1, <1>8, <1>10 DEF RowInv, InBatch
<1>12. ClaimsHold'
  <2>1. SUFFICES ASSUME faults' = 0
                 PROVE  ClaimsHold'
    BY DEF ClaimsHold
  <2>2. \A s \in Servers : a \notin caller[s].batch
    BY <1>1, <1>2, <2>1 DEF RowInv, ClaimsHold, InHand
  <2>3. QED
    BY <1>1, <1>2, <1>8, <1>10, <2>1, <2>2 DEF RowInv, ClaimsHold
<1>13. QED
  BY <1>4, <1>6, <1>7, <1>9, <1>11, <1>12 DEF RowInv

LEMMA Claims ==
    ASSUME SchedulingInv, NEW s \in Servers, NEW batch \in SUBSET Actions, ClaimDue(s, batch)
    PROVE  SchedulingInv'
<1> USE DEF SchedulingInv
<1> DEFINE seen == [a \in Actions |->
                      IF a \in batch THEN [retry |-> actions'[a].retry, voice |-> actions[a].voice]
                      ELSE Unseen]
           pos == [caller[s] EXCEPT !.batch = batch, !.seen = seen]
<1>1. /\ UNCHANGED <<borrower, lock, calls, workflow, faults>>
      /\ caller' = [caller EXCEPT ![s].batch = batch, ![s].seen = seen] /\ caller[s] = Idle
  BY DEF ClaimDue
<1>2. s \in Callers
  BY DEF Callers
<1>3. caller' = [caller EXCEPT ![s] = pos]
  BY <1>1, <1>2 DEF TypeOK
<1>4. \A a \in Actions :
        IF a \in batch
        THEN /\ actions[a].due /\ actions'[a] \in ActionRows
             /\ actions'[a].status = "CLAIMED" /\ ~actions'[a].due
             /\ actions'[a].wf = actions[a].wf
        ELSE actions'[a] = actions[a]
  <2>2. ASSUME NEW a \in batch
        PROVE  /\ actions[a].due /\ actions'[a] \in ActionRows
               /\ actions'[a].status = "CLAIMED" /\ ~actions'[a].due
               /\ actions'[a].wf = actions[a].wf
    <3> DEFINE row == actions[a]
               retry == IF row.status = "CLAIMED" THEN Bump(row.retry) ELSE row.retry
    <3>1. row \in ActionRows /\ actions[a].due
      BY DEF ClaimDue, TypeOK
    <3>2. retry \in Nat
      BY <3>1 DEF ActionRows, Bump
    <3>3. actions'[a] = [row EXCEPT !.status = "CLAIMED", !.due = FALSE, !.retry = retry]
      BY DEF ClaimDue
    <3> HIDE DEF row, retry
    <3>4. /\ actions'[a] \in ActionRows /\ actions'[a].status = "CLAIMED" /\ ~actions'[a].due
          /\ actions'[a].wf = row.wf
      BY <3>1, <3>2, <3>3 DEF ActionRows
    <3>5. QED
      BY <3>1, <3>4 DEF row
  <2>3. \A a \in Actions \ batch : actions'[a] = actions[a]
    BY DEF ClaimDue
  <2>4. QED
    BY <2>2, <2>3
<1>5. actions' \in [Actions -> ActionRows]
  BY <1>4 DEF ClaimDue, TypeOK
<1>6. seen \in [Actions -> [retry : Nat, voice : BOOLEAN]]
  <2>1. \A a \in Actions : actions[a].voice \in BOOLEAN /\ actions'[a].retry \in Nat
    BY <1>5 DEF TypeOK, ActionRows
  <2>2. QED
    BY <2>1 DEF Unseen
<1> HIDE DEF seen
<1>7. pos \in Positions /\ pos.step = "idle" /\ pos.batch = batch
  BY <1>1, <1>6, IdleFacts DEF Positions
<1> HIDE DEF pos
<1>8. /\ caller' \in [Callers -> Positions] /\ caller'[s] = pos
       /\ \A c \in Callers : c # s => caller'[c] = caller[c]
  BY <1>2, <1>3, <1>7 DEF TypeOK
<1>9. TypeOK'
  BY <1>1, <1>5, <1>8 DEF TypeOK
<1>10. pos.step = "idle" /\ ~Between(s)
      /\ caller'[s].batch = batch /\ caller'[s].step = "idle"
  BY <1>1, <1>7, <1>8, IdleFacts DEF Between
<1>11. StartInv'
  BY <1>1, <1>2, <1>3, <1>10, StartFrame
<1>12. CallInv'
  BY <1>1, CallFrame
<1>13. RowsPlaced'
  BY <1>4 DEF RowInv, RowsPlaced
<1>14. \A r \in Servers : r # s => caller'[r] = caller[r] /\ caller[r].batch \subseteq Actions
  BY <1>8 DEF TypeOK, Callers, Positions
<1>15. InBatch'
  <2>1. \A r \in Servers : \A a \in caller'[r].batch : actions'[a].status # "ABSENT"
    BY <1>4, <1>10, <1>14 DEF RowInv, InBatch
  <2>2. \A c \in Clients : caller'[c] = caller[c]
    BY <1>8 DEF Callers
  <2>3. QED
    BY <1>10, <1>14, <2>1, <2>2 DEF RowInv, InBatch
<1>16. ClaimsHold'
  <2>1. SUFFICES ASSUME faults = 0
                 PROVE  ClaimsHold'
    BY <1>1 DEF ClaimsHold
  <2>2. \A r \in Servers \ {s} : \A a \in caller[r].batch : a \notin batch
    BY <1>4, <1>14, <2>1 DEF RowInv, ClaimsHold
  <2>3. QED
    BY <1>4, <1>10, <1>14, <2>1, <2>2 DEF RowInv, ClaimsHold
<1>17. QED
  BY <1>9, <1>11, <1>12, <1>13, <1>15, <1>16 DEF RowInv

(* What the steps that settle an action have in common.                    *)
LEMMA SettleFacts ==
    ASSUME TypeOK, RowInv, NEW s \in Servers, NEW a \in Actions, a \in caller[s].batch,
           NEW status \in {"PENDING", "DONE", "CANCELED", "FAILED"},
           Settle(s, a, status) \/ SettleRefused(s, a, status),
           faults' = 0 => faults = 0
    PROVE  /\ actions' \in [Actions -> ActionRows]
           /\ caller' \in [Callers -> Positions]
           /\ caller' = [caller EXCEPT ![s] = Rest(s, a)]
           /\ RowInv'
<1>1. actions \in [Actions -> ActionRows]
  BY DEF TypeOK
<1> DEFINE acts == Set(actions, a, status)
           retry == Bump(caller[s].seen[a].retry)
<1>2. retry \in Nat
  <2>1. s \in Callers
    BY DEF Callers
  <2>2. caller[s].seen[a].retry \in Nat
    BY <2>1 DEF TypeOK, Positions
  <2>3. QED
    BY <2>2 DEF Bump
<1>3. /\ acts \in [Actions -> ActionRows]
      /\ acts[a].status = status /\ acts[a].wf = actions[a].wf /\ acts[a].due = FALSE
      /\ \A b \in Actions : b # a => acts[b] = actions[b]
  <2>1. \A b \in Actions : b # a => acts[b] = actions[b]
    BY <1>1, SetOther
  <2>2. /\ acts \in [Actions -> ActionRows]
        /\ acts[a].status = status /\ acts[a].wf = actions[a].wf /\ acts[a].due = FALSE
    <3>1. acts \in [Actions -> ActionRows]
      BY <1>1, SetFacts
    <3>2. acts[a].status = status
      BY <1>1, SetFacts, ZenonT(30)
    <3>3. acts[a].wf = actions[a].wf
      BY <1>1 DEF Set, ActionRows
    <3>4. acts[a].due = FALSE
      BY <1>1, SetFacts, ZenonT(30)
    <3>5. QED
      BY <3>1, <3>2, <3>3, <3>4
  <2>3. QED
    BY <2>1, <2>2
<1>4. actions' = acts \/ actions' = [acts EXCEPT ![a].retry = retry]
  BY DEF Settle, SettleRefused
<1> HIDE DEF acts, retry
<1>5. /\ actions' \in [Actions -> ActionRows]
      /\ actions'[a].status = status /\ actions'[a].wf = actions[a].wf /\ ~actions'[a].due
      /\ \A b \in Actions : b # a => actions'[b] = actions[b]
  <2>1. CASE actions' = acts
    BY <1>1, <1>3, <2>1
  <2>2. CASE actions' = [acts EXCEPT ![a].retry = retry]
    <3>1. actions'[a] = [acts[a] EXCEPT !.retry = retry]
          /\ \A b \in Actions : b # a => actions'[b] = acts[b]
      BY <1>1, <1>3, <2>2
    <3>2. acts[a] \in ActionRows
      BY <1>1, <1>3
    <3>3. /\ actions'[a] \in ActionRows /\ actions'[a].status = acts[a].status
          /\ actions'[a].wf = acts[a].wf /\ actions'[a].due = acts[a].due
      BY <1>2, <3>1, <3>2 DEF ActionRows
    <3>4. QED
      BY <1>1, <1>3, <2>2, <3>1, <3>3
  <2>3. QED
    BY <1>4, <2>1, <2>2
<1>6. caller' = [caller EXCEPT ![s] = Rest(s, a)]
  BY DEF Settle, SettleRefused
<1>7. actions'[a].status # "ABSENT"
  BY <1>5
<1>8. QED
  BY <1>5, <1>6, <1>7, RowSettled

LEMMA LoopSettles ==
    ASSUME SchedulingInv, NEW s \in Servers,
           \/ \E a \in Actions : Followup(s, a) \/ Unplaceable(s, a)
           \/ \E ok \in BOOLEAN : ActionDispatched(s, ok)
           \/ Reschedule(s)
    PROVE  SchedulingInv'
<1> USE DEF SchedulingInv
<1>1. PICK a \in Actions, status \in {"PENDING", "DONE", "FAILED"} :
        /\ a \in caller[s].batch /\ Settle(s, a, status)
        /\ UNCHANGED <<borrower, lock, calls, faults>>
        /\ UNCHANGED workflow \/ workflow' = [workflow EXCEPT ![actions[a].wf] = "RUNNING"]
  BY DEF Followup, Unplaceable, ActionDispatched, Reschedule, Turn, At, TypeOK, RowInv, InBatch,
         Callers, Positions
<1>2. s \in Callers /\ ~Between(s)
  BY DEF Followup, Unplaceable, ActionDispatched, Reschedule, Turn, At, Between, Callers
<1>3. /\ actions' \in [Actions -> ActionRows] /\ caller' \in [Callers -> Positions] /\ RowInv'
      /\ caller' = [caller EXCEPT ![s] = Rest(s, a)]
  BY <1>1, SettleFacts
<1>4. TypeOK'
  BY <1>1, <1>3 DEF TypeOK
<1>5. StartInv'
  BY <1>1, <1>2, <1>3, RestFacts, StartFrame
<1>6. CallInv'
  <2>1. Attempts' = Attempts
    BY <1>1 DEF Attempts
  <2>2. \A w \in Workflows : workflow[w] = "RUNNING" => workflow'[w] = "RUNNING"
    BY <1>1 DEF TypeOK
  <2>3. QED
    BY <1>1, <2>1, <2>2 DEF CallInv, CallsPlaced, OneCallAtATime, CapRespected, OpenCallsRun, Open
<1>7. QED
  BY <1>3, <1>4, <1>5, <1>6

LEMMA Refusals ==
    ASSUME SchedulingInv, NEW s \in Servers, RefuseAction(s) \/ StartFails(s)
    PROVE  SchedulingInv'
<1> USE DEF SchedulingInv
<1>1. s \in Callers /\ lock = s /\ caller[s].step # "idle"
  BY DEF RefuseAction, StartFails, At, StartInv, LockHeld, Between, Callers
<1>2. caller[s].action \in caller[s].batch /\ caller[s].action \in Actions
  BY <1>1 DEF RowInv, InBatch, TypeOK, Positions
<1>3. PICK status \in {"PENDING", "CANCELED"} : SettleRefused(s, caller[s].action, status)
  BY DEF RefuseAction, StartFails
<1>4. /\ UNCHANGED <<borrower, calls, workflow>> /\ lock' = None
      /\ faults' \in Nat /\ (faults' = 0 => faults = 0)
  BY DEF RefuseAction, StartFails, TypeOK
<1>5. /\ actions' \in [Actions -> ActionRows] /\ caller' \in [Callers -> Positions] /\ RowInv'
      /\ caller' = [caller EXCEPT ![s] = Rest(s, caller[s].action)]
  BY <1>2, <1>3, <1>4, SettleFacts
<1>6. TypeOK'
  BY <1>4, <1>5 DEF TypeOK
<1>7. StartInv'
  BY <1>1, <1>4, <1>5, RestFacts, StartFreed
<1>8. CallInv'
  BY <1>4, CallFrame
<1>9. QED
  BY <1>5, <1>6, <1>7, <1>8

(* The statements of startCall up to its answer.                           *)
LEMMA Locks ==
    ASSUME SchedulingInv, NEW c \in Callers, NEW a \in Actions \cup {None}, StartLock(c, a)
    PROVE  SchedulingInv'
<1> USE DEF SchedulingInv
<1> DEFINE failures == IF borrower.optedOut THEN {"BORROWER_OPT_OUT"} ELSE {}
           pos == [caller[c] EXCEPT !.step = "locked", !.action = a, !.failures = failures]
<1>1. /\ UNCHANGED <<borrower, calls, actions, workflow, faults>> /\ lock = None /\ lock' = c
      /\ c \in Servers => a \in caller[c].batch
  BY DEF StartLock, Unlocked, Turn
<1>2. caller' = [caller EXCEPT ![c] = pos] /\ caller[c] \in Positions
  BY DEF StartLock, TypeOK
<1>3. failures \in SUBSET Failures /\ (borrower.optedOut => "BORROWER_OPT_OUT" \in failures)
  BY DEF Failures
<1> HIDE DEF failures
<1>4. pos \in Positions /\ pos.step = "locked" /\ pos.failures = failures
      /\ pos.action = a /\ pos.batch = caller[c].batch
  BY <1>2, <1>3 DEF Positions
<1> HIDE DEF pos
<1>5. RowInv' /\ caller' \in [Callers -> Positions]
  BY <1>1, <1>2, <1>4, RowFrame
<1>6. TypeOK'
  BY <1>1, <1>5 DEF TypeOK
<1>7. caller'[c] = pos /\ \A d \in Callers : d # c => caller'[d] = caller[d] /\ ~Between(d)
  BY <1>1, <1>2 DEF TypeOK, StartInv, LockHeld
<1>8. LockHeld'
  BY <1>1, <1>4, <1>7 DEF LockHeld, Between
<1>9. ReadsHold'
  BY <1>1, <1>3, <1>4, <1>7 DEF ReadsHold, Between, At
<1>10. CallInv'
  BY <1>1, CallFrame
<1>11. QED
  BY <1>5, <1>6, <1>8, <1>9, <1>10 DEF StartInv

LEMMA Reads ==
    ASSUME SchedulingInv, NEW c \in Callers, StartRead(c) \/ StartCheck(c)
    PROVE  SchedulingInv'
<1> USE DEF SchedulingInv
<1>1. PICK step \in {"read", "checked"}, failures \in SUBSET Failures :
        /\ caller' = [caller EXCEPT ![c] = [caller[c] EXCEPT !.step = step, !.failures = failures]]
        /\ caller[c].failures \subseteq failures
        /\ step = "checked" => /\ AtCap => "FREQUENCY_CAP" \in failures
                               /\ Active => "ACTIVE_CONVERSATION" \in failures
  <2>1. caller[c].failures \in SUBSET Failures
    BY DEF TypeOK, Positions
  <2>2. CASE StartRead(c)
    <3> DEFINE failures == caller[c].failures \cup
                 IF borrower.valid THEN {} ELSE {"CONTACT_POINT_INVALID_OR_OPTED_OUT"}
    <3>1. caller' = [caller EXCEPT ![c] = [caller[c] EXCEPT !.step = "read", !.failures = failures]]
      BY <2>2 DEF StartRead, TypeOK
    <3>2. failures \in SUBSET Failures
      BY <2>1 DEF Failures
    <3>3. QED
      BY <3>1, <3>2
  <2>3. CASE StartCheck(c)
    <3>1. PICK outside \in SUBSET {"TCPA_TIME_WINDOW"} :
            caller' = [caller EXCEPT ![c].step = "checked",
              ![c].failures = @ \cup outside
                \cup (IF AtCap THEN {"FREQUENCY_CAP"} ELSE {})
                \cup (IF Active THEN {"ACTIVE_CONVERSATION"} ELSE {})
                \cup (IF c \in Clients /\ Conflict THEN {"SCHEDULED_ACTION_CONFLICT"} ELSE {})]
      BY <2>3 DEF StartCheck
    <3> DEFINE failures == caller[c].failures \cup outside
                \cup (IF AtCap THEN {"FREQUENCY_CAP"} ELSE {})
                \cup (IF Active THEN {"ACTIVE_CONVERSATION"} ELSE {})
                \cup (IF c \in Clients /\ Conflict THEN {"SCHEDULED_ACTION_CONFLICT"} ELSE {})
    <3>2. caller' = [caller EXCEPT ![c] = [caller[c] EXCEPT !.step = "checked", !.failures = failures]]
      BY <3>1 DEF TypeOK
    <3>3. failures \in SUBSET Failures
      BY <2>1 DEF Failures
    <3>4. QED
      BY <3>2, <3>3
  <2>4. QED
    BY <2>2, <2>3
<1>2. UNCHANGED <<borrower, lock, calls, actions, workflow, faults>> /\ Between(c)
  BY DEF StartRead, StartCheck, Between, At
<1> DEFINE pos == [caller[c] EXCEPT !.step = step, !.failures = failures]
<1>3. caller[c] \in Positions
  BY DEF TypeOK
<1>4. pos \in Positions /\ pos.step = step /\ pos.failures = failures
      /\ pos.action = caller[c].action /\ pos.batch = caller[c].batch
  BY <1>3 DEF Positions
<1>5. caller' = [caller EXCEPT ![c] = pos]
  BY <1>1
<1> HIDE DEF pos
<1>6. c \in Servers => pos.action \in pos.batch
  BY <1>2, <1>4 DEF RowInv, InBatch, Between
<1>7. RowInv' /\ caller' \in [Callers -> Positions]
  BY <1>2, <1>4, <1>5, <1>6, RowFrame
<1>8. TypeOK'
  BY <1>2, <1>7 DEF TypeOK
<1>9. caller'[c] = pos /\ \A d \in Callers : d # c => caller'[d] = caller[d]
  BY <1>5 DEF TypeOK
<1>10. LockHeld'
  BY <1>2, <1>4, <1>9 DEF StartInv, LockHeld, Between
<1>11. Attempts' = Attempts /\ Active' = Active
  BY <1>2 DEF Attempts, Active, Open
<1>12. \A d \in Callers : d # c => ~Between(d)
  BY <1>2 DEF StartInv, LockHeld
<1>13. ReadsHold'
  BY <1>1, <1>2, <1>4, <1>9, <1>11, <1>12 DEF StartInv, ReadsHold, Between, At, AtCap
<1>14. CallInv'
  BY <1>2, CallFrame
<1>15. QED
  BY <1>7, <1>8, <1>10, <1>13, <1>14 DEF StartInv
LEMMA StartsByHand ==
    ASSUME SchedulingInv, NEW c \in Clients, NEW k \in CallIds, NEW origin \in Origins,
           NEW w \in Workflows, NEW dispatched \in BOOLEAN, StartByHand(c, k, origin, w, dispatched)
    PROVE  SchedulingInv' /\ ~borrower.optedOut
<1> USE DEF SchedulingInv
<1>1. c \in Callers /\ Passed(c) /\ Insert(c, k, origin, w)
  BY DEF StartByHand, Callers
<1>2. /\ calls' \in [CallIds -> CallRows]
      /\ workflow' \in [Workflows -> {"ABSENT", "RUNNING", "COMPLETED"}]
      /\ lock = c /\ ~borrower.optedOut /\ CallInv'
  BY <1>1, InsertFacts
<1> DEFINE pos == IF dispatched THEN [Idle EXCEPT !.step = "dispatch", !.call = k] ELSE Idle
<1>3. caller' = [caller EXCEPT ![c] = pos]
  BY DEF StartByHand
<1>4. pos \in Positions /\ pos.step \in {"idle", "dispatch"}
      /\ (pos.step = "dispatch" => pos.call \in CallIds)
  BY IdleFacts DEF Positions
<1> HIDE DEF pos
<1>5. caller' \in [Callers -> Positions] /\ caller'[c] = pos
      /\ \A d \in Callers : d # c => caller'[d] = caller[d]
  BY <1>1, <1>3, <1>4 DEF TypeOK
<1>6. lock' = None /\ UNCHANGED <<borrower, faults>>
      /\ actions' = Cancel(actions, Workflows, {"RETRY_CALL"})
  BY <1>1 DEF StartByHand, Insert
<1>7. /\ actions' \in [Actions -> ActionRows]
      /\ \A a \in Actions :
            \/ actions'[a] = actions[a]
            \/ /\ actions[a].status = "PENDING" /\ actions'[a].status = "CANCELED"
               /\ actions'[a].wf \in Workflows /\ actions'[a].due = FALSE
  <2>1. \A a \in Actions : actions[a] \in ActionRows
    BY DEF TypeOK
  <2>2. QED
    BY <1>6, <2>1, RowCanceled DEF Cancel, RowInv, RowsPlaced
<1>8. TypeOK'
  BY <1>2, <1>5, <1>6, <1>7 DEF TypeOK
<1>9. StartInv'
  BY <1>1, <1>2, <1>3, <1>4, <1>6, StartFreed
<1>10. (\A s \in Servers : caller'[s] = caller[s]) /\ (\A d \in Clients :
                          \/ caller'[d] = caller[d]
                          \/ caller'[d].step \notin {"failing", "dispatch"}
                          \/ caller'[d].step = "dispatch" /\ caller'[d].call \in CallIds)
  BY <1>4, <1>5 DEF Callers
<1>12. RowInv'
  BY <1>6, <1>7, <1>10, RowsWritten
<1>13. QED
  BY <1>2, <1>8, <1>9, <1>12

LEMMA StartsByAction ==
    ASSUME SchedulingInv, NEW s \in Servers, NEW k \in CallIds, StartByAction(s, k)
    PROVE  SchedulingInv' /\ ~borrower.optedOut
<1> USE DEF SchedulingInv
<1> DEFINE a == caller[s].action
           voice == caller[s].seen[a].voice
           origin == IF voice THEN "sip" ELSE "simulated"
           w == actions[a].wf
<1>1. s \in Callers /\ Passed(s) /\ Insert(s, k, origin, w)
  BY DEF StartByAction, Callers
<1>2. a \in caller[s].batch /\ a \in Actions
  BY <1>1 DEF Passed, At, RowInv, InBatch, TypeOK, Positions
<1>3. w \in Workflows /\ origin \in Origins
  BY <1>2 DEF RowInv, InBatch, RowsPlaced, Origins
<1>4. /\ calls' \in [CallIds -> CallRows]
      /\ workflow' \in [Workflows -> {"ABSENT", "RUNNING", "COMPLETED"}]
      /\ lock = s /\ ~borrower.optedOut /\ CallInv'
  BY <1>1, <1>3, InsertFacts
<1>5. lock' = None /\ UNCHANGED <<borrower, faults>>
  BY <1>1 DEF Insert
<1>6. CASE voice
  <2> DEFINE pos == [caller[s] EXCEPT !.step = "dispatch", !.call = k]
  <2>1. caller' = [caller EXCEPT ![s] = pos] /\ UNCHANGED actions
    BY <1>1, <1>6 DEF StartByAction, TypeOK
  <2>2. caller[s] \in Positions
    BY <1>1 DEF TypeOK
  <2>3. pos \in Positions /\ pos.step = "dispatch" /\ pos.action = a /\ pos.batch = caller[s].batch
    BY <2>2 DEF Positions
  <2> HIDE DEF pos
  <2>4. s \notin Clients
    OBVIOUS
  <2>5. RowInv' /\ caller' \in [Callers -> Positions]
    BY <1>1, <1>2, <1>5, <2>1, <2>3, <2>4, RowFrame
  <2>6. StartInv'
    BY <1>1, <1>4, <1>5, <2>1, <2>3, StartFreed
  <2>7. TypeOK'
    BY <1>4, <1>5, <2>1, <2>5 DEF TypeOK
  <2>8. QED
    BY <1>4, <2>5, <2>6, <2>7
<1>7. CASE ~voice
  <2>1. Settle(s, a, "DONE")
    BY <1>7 DEF StartByAction
  <2>2. /\ actions' \in [Actions -> ActionRows] /\ caller' \in [Callers -> Positions] /\ RowInv'
        /\ caller' = [caller EXCEPT ![s] = Rest(s, a)]
    BY <1>2, <1>5, <2>1, SettleFacts
  <2>3. StartInv'
    BY <1>1, <1>4, <1>5, <2>2, RestFacts, StartFreed
  <2>4. TypeOK'
    BY <1>4, <1>5, <2>2 DEF TypeOK
  <2>5. QED
    BY <1>4, <2>2, <2>3, <2>4
<1>8. QED
  BY <1>6, <1>7

LEMMA RefusalsByHand ==
    ASSUME SchedulingInv, NEW c \in Clients, RefuseByHand(c) \/ SessionDispatched(c)
    PROVE  SchedulingInv'
<1> USE DEF SchedulingInv
<1>1. /\ caller' = [caller EXCEPT ![c] = Idle] /\ c \in Callers /\ c \notin Servers
      /\ UNCHANGED <<borrower, calls, actions, workflow, faults>>
  BY DEF RefuseByHand, SessionDispatched, Callers
<1>2. Idle \in Positions /\ Idle.step = "idle"
  BY IdleFacts
<1>3. RowInv' /\ caller' \in [Callers -> Positions]
  BY <1>1, <1>2, RowFrame
<1>4. lock' \in Callers \cup {None} /\ CallInv'
  BY <1>1, CallFrame DEF RefuseByHand, SessionDispatched, TypeOK
<1>5. CASE RefuseByHand(c)
  <2>1. lock = c /\ lock' = None
    BY <1>1, <1>5 DEF RefuseByHand, At, StartInv, LockHeld, Between
  <2>2. QED
    BY <1>1, <1>2, <1>3, <1>4, <2>1, StartFreed DEF TypeOK
<1>6. CASE SessionDispatched(c)
  <2>1. ~Between(c) /\ lock' = lock
    BY <1>6 DEF SessionDispatched, At, Between
  <2>2. QED
    BY <1>1, <1>2, <1>3, <1>4, <2>1, StartFrame DEF TypeOK
<1>7. QED
  BY <1>5, <1>6

(* A call ends, and what it writes to the rows is in no loop's hands.       *)
LEMMA CallEnds ==
    ASSUME SchedulingInv, NEW k \in CallIds, NEW o, Overrides(k, o),
           borrower' \in BorrowerRows,
           borrower'.optedOut => borrower.optedOut \/ lock = None,
           caller' \in [Callers -> Positions],
           \A s \in Servers : caller'[s] = caller[s],
           \A c \in Clients : \/ caller'[c] = caller[c]
                              \/ ~Between(c) /\ caller'[c].step = "idle",
           actions' \in [Actions -> ActionRows],
           \A a \in Actions :
              \/ actions'[a] = actions[a]
              \/ /\ actions[a].status \notin {"CLAIMED"}
                 /\ actions'[a].status # "ABSENT" /\ actions'[a].wf \in Workflows
                 /\ actions'[a].due => actions'[a].status = "PENDING"
    PROVE  SchedulingInv'
<1> USE DEF SchedulingInv
<1>1. lock' = lock /\ faults' \in Nat /\ (faults' = 0 => faults = 0)
  BY EndFacts
<1>2. /\ calls' \in [CallIds -> CallRows]
      /\ workflow' \in [Workflows -> {"ABSENT", "RUNNING", "COMPLETED"}]
      /\ CallInv' /\ Attempts' = Attempts /\ (Active' => Active)
  BY EndFacts
<1>3. TypeOK'
  BY <1>1, <1>2 DEF TypeOK
<1>4. \A c \in Callers : caller'[c] = caller[c] \/ (~Between(c) /\ ~Between(c)')
  BY DEF Callers, Between
<1>5. StartInv'
  BY <1>1, <1>2, <1>4, StartKept
<1>6. RowInv'
  BY <1>1, RowsWritten
<1>7. QED
  BY <1>2, <1>3, <1>5, <1>6

LEMMA Restrictions ==
    ASSUME SchedulingInv, NEW k \in CallIds, OptOut(k) \/ OptOutNumber(k) \/ WrongNumber(k)
    PROVE  SchedulingInv'
<1> USE DEF SchedulingInv
<1>1. PICK o \in {"OPT_OUT", "WRONG_NUMBER"}, types \in SUBSET Types :
         Overrides(k, o) /\ actions' = Cancel(actions, {calls[k].wf}, types) /\ UNCHANGED caller
  BY DEF OptOut, OptOutNumber, WrongNumber, Types, Overrides
<1>2. borrower' \in BorrowerRows /\ (borrower'.optedOut => borrower.optedOut \/ lock = None)
  BY DEF OptOut, OptOutNumber, WrongNumber, Unlocked, TypeOK, BorrowerRows
<1>3. \A a \in Actions : actions[a] \in ActionRows
  BY DEF TypeOK
<1>4. /\ actions' \in [Actions -> ActionRows]
      /\ \A a \in Actions :
            \/ actions'[a] = actions[a]
            \/ /\ actions[a].status = "PENDING" /\ actions'[a].status = "CANCELED"
               /\ actions'[a].wf \in Workflows /\ actions'[a].due = FALSE
  BY <1>1, <1>3, RowCanceled DEF Cancel, RowInv, RowsPlaced
<1>5. QED
  BY <1>1, <1>2, <1>4, CallEnds DEF TypeOK

(* A row is made that no loop can have in hand yet.                        *)
LEMMA RowCreated ==
    ASSUME TypeOK, NEW k \in CallIds, NEW a \in Actions, calls[k].wf \in Workflows,
           NEW type \in Types, NEW due \in BOOLEAN,
           actions[a].status = "ABSENT", actions' = New(actions, a, k, type, due)
    PROVE  /\ actions' \in [Actions -> ActionRows]
           /\ \A b \in Actions :
                 \/ actions'[b] = actions[b]
                 \/ /\ actions[b].status \notin {"CLAIMED"}
                    /\ actions'[b].status # "ABSENT" /\ actions'[b].wf \in Workflows
                    /\ actions'[b].due => actions'[b].status = "PENDING"
<1>1. actions \in [Actions -> ActionRows] /\ Voice(calls[k].origin) \in BOOLEAN
  BY DEF TypeOK, Voice
<1> DEFINE row == [status |-> "PENDING", type |-> type, wf |-> calls[k].wf, retry |-> 0,
                   voice |-> Voice(calls[k].origin), due |-> due]
<1>2. row \in ActionRows /\ row.status = "PENDING" /\ row.wf \in Workflows
  BY <1>1 DEF ActionRows
<1>3. actions' = [actions EXCEPT ![a] = row]
  BY DEF New
<1> HIDE DEF row
<1>4. QED
  BY <1>1, <1>2, <1>3

LEMMA RetryFacts ==
    ASSUME TypeOK, NEW k \in CallIds, NEW a \in Actions, calls[k].wf \in Workflows, Retry(k, a)
    PROVE  /\ actions' \in [Actions -> ActionRows]
           /\ \A b \in Actions :
                 \/ actions'[b] = actions[b]
                 \/ /\ actions[b].status \notin {"CLAIMED"}
                    /\ actions'[b].status # "ABSENT" /\ actions'[b].wf \in Workflows
                    /\ actions'[b].due => actions'[b].status = "PENDING"
<1>1. CASE calls[k].origin = "browser"
  BY <1>1 DEF Retry, TypeOK
<1>2. CASE calls[k].origin # "browser"
  <2>1. /\ actions[a].status = "ABSENT" /\ actions' = New(actions, a, k, "RETRY_CALL", FALSE)
        /\ "RETRY_CALL" \in Types
    BY <1>2 DEF Retry, Unused, Types
  <2>2. QED
    BY <2>1, RowCreated
<1>3. QED
  BY <1>1, <1>2

LEMMA CallsFollowed ==
    ASSUME SchedulingInv, NEW k \in CallIds, NEW o, NEW a \in Actions,
           Redial(k, o, a) \/ ToHuman(k, o, a)
    PROVE  SchedulingInv'
<1> USE DEF SchedulingInv
<1>1. Overrides(k, o) /\ UNCHANGED <<borrower, caller>>
  BY DEF Redial, ToHuman, Overrides
<1>2. calls[k].wf \in Workflows
  BY <1>1, EndFacts
<1>3. /\ actions' \in [Actions -> ActionRows]
      /\ \A b \in Actions :
            \/ actions'[b] = actions[b]
            \/ /\ actions[b].status \notin {"CLAIMED"}
               /\ actions'[b].status # "ABSENT" /\ actions'[b].wf \in Workflows
               /\ actions'[b].due => actions'[b].status = "PENDING"
  <2>1. CASE Redial(k, o, a)
    BY <1>2, <2>1, RetryFacts DEF Redial
  <2>2. CASE ToHuman(k, o, a)
    <3>1. /\ actions[a].status = "ABSENT" /\ actions' = New(actions, a, k, "HUMAN_FOLLOWUP", TRUE)
          /\ "HUMAN_FOLLOWUP" \in Types
      BY <2>2 DEF ToHuman, Unused, Types
    <3>2. QED
      BY <1>2, <3>1, RowCreated
  <2>3. QED
    BY <2>1, <2>2
<1>4. borrower' \in BorrowerRows /\ (borrower'.optedOut => borrower.optedOut)
      /\ caller' \in [Callers -> Positions]
  BY <1>1 DEF TypeOK
<1>5. QED
  BY <1>1, <1>3, <1>4, CallEnds

LEMMA CallsSettle ==
    ASSUME SchedulingInv, NEW k \in CallIds, NEW o, Settled(k, o)
    PROVE  SchedulingInv'
<1>1. Overrides(k, o) /\ UNCHANGED <<borrower, actions, caller>>
  BY DEF Settled, Overrides
<1>2. QED
  BY <1>1, CallEnds DEF SchedulingInv, TypeOK

LEMMA SessionsFail ==
    ASSUME SchedulingInv, NEW c \in Clients, NEW a \in Actions, SessionFails(c, a)
    PROVE  SchedulingInv'
<1> USE DEF SchedulingInv
<1> DEFINE k == caller[c].call
<1>1. /\ UNCHANGED borrower /\ caller' = [caller EXCEPT ![c] = Idle] /\ ~Between(c)
      /\ c \in Callers /\ c \notin Servers
  BY DEF SessionFails, At, Between, Callers
<1>2. Idle \in Positions /\ Idle.step = "idle"
  BY IdleFacts
<1>3. caller' \in [Callers -> Positions] /\ caller'[c].step = "idle"
      /\ \A d \in Callers : d # c => caller'[d] = caller[d]
  BY <1>1, <1>2 DEF TypeOK
<1>4. CASE Open(k)
  <2>1. Overrides(k, "NO_ANSWER") /\ Retry(k, a)
    BY <1>4 DEF SessionFails, Overrides
  <2>2. k \in CallIds
    BY <1>1 DEF SessionFails, At, RowInv, InBatch
  <2>3. /\ actions' \in [Actions -> ActionRows]
        /\ \A b \in Actions :
              \/ actions'[b] = actions[b]
              \/ /\ actions[b].status \notin {"CLAIMED"}
                 /\ actions'[b].status # "ABSENT" /\ actions'[b].wf \in Workflows
                 /\ actions'[b].due => actions'[b].status = "PENDING"
    <3>1. calls[k].wf \in Workflows
      BY <2>1, <2>2, EndFacts
    <3>2. QED
      BY <2>1, <2>2, <3>1, RetryFacts
  <2>4. /\ \A s \in Servers : caller'[s] = caller[s]
        /\ \A d \in Clients : \/ caller'[d] = caller[d]
                              \/ ~Between(d) /\ caller'[d].step = "idle"
    BY <1>1, <1>3 DEF Callers
  <2>5. borrower' \in BorrowerRows /\ (borrower'.optedOut => borrower.optedOut)
    BY <1>1 DEF TypeOK
  <2> HIDE DEF k
  <2>6. QED
    BY <1>3, <2>1, <2>2, <2>3, <2>4, <2>5, CallEnds
<1>5. CASE ~Open(k)
  <2>1. UNCHANGED <<lock, calls, actions, workflow, faults>>
    BY <1>5 DEF SessionFails
  <2>2. RowInv'
    BY <1>1, <1>2, <2>1, RowFrame
  <2>3. StartInv'
    BY <1>1, <1>2, <2>1, StartFrame
  <2>4. CallInv'
    BY <2>1, CallFrame
  <2>5. QED
    BY <1>1, <1>3, <2>1, <2>2, <2>3, <2>4 DEF TypeOK
<1>6. QED
  BY <1>4, <1>5

LEMMA CallbacksScheduled ==
    ASSUME SchedulingInv, NEW k \in CallIds, NEW a \in Actions, CallbackScheduled(k, a)
    PROVE  SchedulingInv'
<1> USE DEF SchedulingInv
<1> DEFINE rest == Cancel(actions, {calls[k].wf}, {"RETRY_CALL"})
<1>1. Overrides(k, "CALLBACK_SCHEDULED") /\ UNCHANGED <<borrower, caller>>
  BY DEF CallbackScheduled, Overrides
<1>2. calls[k].wf \in Workflows
  BY <1>1, EndFacts
<1>3. /\ actions \in [Actions -> ActionRows]
      /\ Voice(calls[k].origin) \in BOOLEAN
  BY DEF TypeOK, Voice
<1>4. /\ rest \in [Actions -> ActionRows]
      /\ \A b \in Actions :
            \/ rest[b] = actions[b]
            \/ /\ actions[b].status = "PENDING" /\ rest[b].status = "CANCELED"
               /\ rest[b].wf \in Workflows /\ rest[b].due = FALSE
  BY <1>3, RowCanceled DEF Cancel, RowInv, RowsPlaced
<1>5. \/ /\ actions[a].status = "PENDING" /\ actions[a].wf \in Workflows
         /\ actions' = [Set(rest, a, "PENDING") EXCEPT ![a].voice = Voice(calls[k].origin)]
      \/ actions[a].status = "ABSENT" /\ actions' = New(rest, a, k, "CALLBACK", FALSE)
  BY <1>2 DEF CallbackScheduled, Pending, Unused
<1>6. PICK row \in ActionRows :
        /\ actions' = [rest EXCEPT ![a] = row]
        /\ actions[a].status # "CLAIMED"
        /\ row.status = "PENDING" /\ row.wf \in Workflows /\ row.due = FALSE
  <2> DEFINE voice == Voice(calls[k].origin)
             moved == [rest[a] EXCEPT !.status = "PENDING", !.due = FALSE, !.voice = voice]
             made == [status |-> "PENDING", type |-> "CALLBACK", wf |-> calls[k].wf, retry |-> 0,
                      voice |-> voice, due |-> FALSE]
  <2> HIDE DEF rest
  <2>1. CASE actions[a].status = "PENDING"
    <3>1. moved \in ActionRows /\ moved.status = "PENDING" /\ moved.wf = rest[a].wf /\ moved.due = FALSE
      BY <1>3, <1>4, ZenonT(30) DEF ActionRows
    <3>2. actions' = [Set(rest, a, "PENDING") EXCEPT ![a].voice = voice]
      BY <1>5, <2>1
    <3>3. actions' = [rest EXCEPT ![a] = moved]
      BY <1>4, <3>2 DEF Set
    <3>4. rest[a].wf \in Workflows
      BY <1>4, <2>1 DEF RowInv, RowsPlaced
    <3>5. QED
      BY <2>1, <3>1, <3>3, <3>4
  <2>2. CASE actions[a].status # "PENDING"
    <3>1. made \in ActionRows /\ made.status = "PENDING" /\ made.wf \in Workflows /\ made.due = FALSE
      BY <1>2, <1>3 DEF ActionRows, Types
    <3>2. actions' = [rest EXCEPT ![a] = made]
      BY <1>5, <2>2 DEF New
    <3>3. QED
      BY <1>5, <2>2, <3>1, <3>2
  <2>3. QED
    BY <2>1, <2>2
<1> HIDE DEF rest
<1>7. actions'[a] = row /\ \A b \in Actions : b # a => actions'[b] = rest[b]
  BY <1>4, <1>6
<1>8. /\ actions' \in [Actions -> ActionRows]
      /\ \A b \in Actions :
            \/ actions'[b] = actions[b]
            \/ /\ actions[b].status \notin {"CLAIMED"}
               /\ actions'[b].status # "ABSENT" /\ actions'[b].wf \in Workflows
               /\ actions'[b].due => actions'[b].status = "PENDING"
  BY <1>4, <1>6, <1>7
<1>9. borrower' \in BorrowerRows /\ (borrower'.optedOut => borrower.optedOut)
      /\ caller' \in [Callers -> Positions]
  BY <1>1 DEF TypeOK
<1>10. QED
  BY <1>1, <1>8, <1>9, CallEnds

LEMMA Faults ==
    ASSUME SchedulingInv, NEW c \in Callers, Crash(c) \/ \E a \in Actions : Fails(c, a)
    PROVE  SchedulingInv'
<1> USE DEF SchedulingInv
<1>1. PICK pos \in Positions :
        /\ caller' = [caller EXCEPT ![c] = pos]
        /\ pos.step \in {"idle", "failing"} /\ pos.batch \subseteq caller[c].batch
        /\ pos.step = "failing" => c \in Servers /\ pos.action \in pos.batch
  <2>1. CASE Crash(c)
    <3>1. Idle \in Positions /\ Idle.step = "idle" /\ Idle.batch = {}
      BY IdleFacts
    <3>2. QED
      BY <2>1, <3>1 DEF Crash
  <2>2. ASSUME NEW a \in Actions, Fails(c, a)
        PROVE  \E pos \in Positions :
                  /\ caller' = [caller EXCEPT ![c] = pos]
                  /\ pos.step \in {"idle", "failing"} /\ pos.batch \subseteq caller[c].batch
                  /\ pos.step = "failing" => c \in Servers /\ pos.action \in pos.batch
    <3> DEFINE pos == [caller[c] EXCEPT !.step = "failing", !.action = a]
    <3>1. caller[c] \in Positions
      BY DEF TypeOK
    <3>2. c \in Servers /\ caller' = [caller EXCEPT ![c] = pos]
      BY <2>2, <3>1 DEF Fails, TypeOK
    <3>3. pos \in Positions /\ pos.step = "failing" /\ pos.action = a /\ pos.batch = caller[c].batch
      BY <3>1 DEF Positions
    <3>4. a \in caller[c].batch
      BY <2>2, <3>1 DEF Fails, Turn, At, RowInv, InBatch, Positions
    <3>5. QED
      BY <3>2, <3>3, <3>4
  <2>3. QED
    BY <2>1, <2>2
<1>2. /\ UNCHANGED <<borrower, calls, actions, workflow>> /\ faults' \in Nat /\ faults' # 0
      /\ lock' = IF lock = c THEN None ELSE lock
  BY DEF Crash, Fails, Unlock, TypeOK
<1>3. caller'[c] = pos /\ \A d \in Callers : d # c => caller'[d] = caller[d]
  BY <1>1 DEF TypeOK
<1>4. TypeOK'
  BY <1>1, <1>2 DEF TypeOK
<1>5. StartInv'
  <2>1. CASE lock = c
    BY <1>1, <1>2, <2>1, StartFreed
  <2>2. CASE lock # c
    BY <1>1, <1>2, <2>2, StartFrame DEF StartInv, LockHeld
  <2>3. QED
    BY <2>1, <2>2
<1>6. CallInv'
  BY <1>2, CallFrame
<1>7. RowInv'
  <2>1. \A s \in Servers : caller'[s].batch \subseteq caller[s].batch
    BY <1>1, <1>3 DEF Callers
  <2>2. InBatch'
    BY <1>1, <1>2, <1>3, <2>1 DEF RowInv, InBatch, Callers
  <2>3. RowsPlaced' /\ ClaimsHold'
    BY <1>2 DEF RowInv, RowsPlaced, ClaimsHold
  <2>4. QED
    BY <2>2, <2>3 DEF RowInv
<1>8. QED
  BY <1>4, <1>5, <1>6, <1>7

(* How a step is justified by the lemma about its action.                  *)
LEMMA LoopSteps ==
    ASSUME SchedulingInv, NEW s \in Servers, Loop(s)
    PROVE  SchedulingInv'
<1>1. s \in Callers
  BY DEF Callers
<1>2. CASE \E a \in Actions : Followup(s, a) \/ Unplaceable(s, a)
  BY <1>2, LoopSettles
<1>3. CASE \E a \in Actions : StartLock(s, a)
  BY <1>1, <1>3, Locks
<1>4. CASE StartRead(s) \/ StartCheck(s)
  BY <1>1, <1>4, Reads
<1>5. CASE RefuseAction(s)
  BY <1>5, Refusals
<1>6. CASE Reschedule(s)
  BY <1>6, LoopSettles
<1>7. CASE \E k \in CallIds : StartByAction(s, k)
  BY <1>7, StartsByAction
<1>8. CASE \E ok \in BOOLEAN : ActionDispatched(s, ok)
  BY <1>8, LoopSettles
<1>9. QED
  BY <1>2, <1>3, <1>4, <1>5, <1>6, <1>7, <1>8 DEF Loop

LEMMA RequestSteps ==
    ASSUME SchedulingInv, NEW c \in Clients, StartLock(c, None) \/ Request(c)
    PROVE  SchedulingInv'
<1>1. c \in Callers
  BY DEF Callers
<1>2. CASE StartLock(c, None)
  BY <1>1, <1>2, Locks
<1>3. CASE StartRead(c) \/ StartCheck(c)
  BY <1>1, <1>3, Reads
<1>4. CASE RefuseByHand(c) \/ SessionDispatched(c)
  BY <1>4, RefusalsByHand
<1>5. CASE \E k \in CallIds, origin \in Origins, w \in Workflows, dispatched \in BOOLEAN :
              StartByHand(c, k, origin, w, dispatched)
  BY <1>5, StartsByHand
<1>6. CASE \E a \in Actions : SessionFails(c, a)
  BY <1>6, SessionsFail
<1>7. QED
  BY <1>2, <1>3, <1>4, <1>5, <1>6 DEF Request

LEMMA CallSteps ==
    ASSUME SchedulingInv, NEW k \in CallIds, Call(k)
    PROVE  SchedulingInv'
<1>1. CASE OptOut(k) \/ OptOutNumber(k) \/ WrongNumber(k)
  BY <1>1, Restrictions
<1>2. CASE \E a \in Actions : CallbackScheduled(k, a)
  BY <1>2, CallbacksScheduled
<1>3. CASE \E o \in Redialled, a \in Actions : Redial(k, o, a)
  BY <1>3, CallsFollowed
<1>4. CASE \E o \in {"DISPUTED", "ESCALATED"}, a \in Actions : ToHuman(k, o, a)
  BY <1>4, CallsFollowed
<1>5. CASE \E o \in {"PROMISE_TO_PAY", "NO_DISPOSITION", "VOICEMAIL_LEFT"} : Settled(k, o)
  BY <1>5, CallsSettle
<1>6. QED
  BY <1>1, <1>2, <1>3, <1>4, <1>5 DEF Call

LEMMA Steps == SchedulingInv /\ [Next]_vars => SchedulingInv'
<1> SUFFICES ASSUME SchedulingInv, [Next]_vars PROVE SchedulingInv'
  OBVIOUS
<1>1. CASE Clock
  BY <1>1, TimePasses DEF Clock
<1>2. CASE Tick
  BY <1>2, Claims DEF Tick
<1>3. CASE \E k \in CallIds : Call(k)
  BY <1>3, CallSteps
<1>4. CASE \E s \in Servers : Loop(s)
  BY <1>4, LoopSteps
<1>5. CASE \E c \in Clients : StartLock(c, None) \/ Request(c)
  BY <1>5, RequestSteps
<1>6. CASE \E c \in Callers : Fault(c)
  <2>1. ASSUME NEW c \in Callers, StartFails(c) PROVE SchedulingInv'
    BY <2>1, Refusals DEF StartFails
  <2>2. ASSUME NEW c \in Callers, Crash(c) \/ \E a \in Actions : Fails(c, a) PROVE SchedulingInv'
    BY <2>2, Faults
  <2>3. QED
    BY <1>6, <2>1, <2>2 DEF Fault
<1>7. CASE UNCHANGED vars
  <2>1. Attempts' = Attempts
    BY <1>7 DEF vars, Attempts
  <2>2. TypeOK' /\ RowInv'
    BY <1>7 DEF vars, SchedulingInv, TypeOK, RowInv, RowsPlaced, InBatch, ClaimsHold
  <2>3. StartInv'
    BY <1>7, <2>1 DEF vars, SchedulingInv, StartInv, LockHeld, ReadsHold, Between, At, Active,
                      AtCap, Open
  <2>4. CallInv'
    BY <1>7, CallFrame DEF vars, SchedulingInv
  <2>5. QED
    BY <2>2, <2>3, <2>4 DEF SchedulingInv
<1>8. QED
  BY <1>1, <1>2, <1>3, <1>4, <1>5, <1>6, <1>7 DEF Next

-----------------------------------------------------------------------------
(* However loops, requests, ends of calls, crashes and failing transactions *)
(* interleave: whoever starts a call holds the borrower row, what it read   *)
(* there still holds when it inserts, and what a loop has claimed is its    *)
(* own until a fault or a lease outlived.                                  *)
THEOREM SchedulingInvariance == Spec => []SchedulingInv
<1>1. QED
  BY Initially, Steps, PTL DEF Spec

(* A borrower is never in two calls at once, whoever starts the calls        *)
(* (startCall, the borrower lock).                                         *)
THEOREM OneCallAtOnce == Spec => []OneCallAtATime
<1>1. SchedulingInv => OneCallAtATime
  BY DEF SchedulingInv, CallInv
<1>2. QED
  BY <1>1, SchedulingInvariance, PTL

(* A borrower is never called more often than the cap allows, however loops  *)
(* and requests race for the last attempt of the window (preCall).          *)
THEOREM CapHolds == Spec => []CapRespected
<1>1. SchedulingInv => CapRespected
  BY DEF SchedulingInv, CallInv
<1>2. QED
  BY <1>1, SchedulingInvariance, PTL

(* A call is placed only by the last step of startCall.                    *)
LEMMA PlacedByStart ==
    ASSUME SchedulingInv, Next, Placed
    PROVE  \/ \E s \in Servers, k \in CallIds : StartByAction(s, k)
           \/ \E c \in Clients, k \in CallIds, origin \in Origins, w \in Workflows,
                 dispatched \in BOOLEAN : StartByHand(c, k, origin, w, dispatched)
<1>1. PICK k \in CallIds : calls[k].status = "ABSENT" /\ calls'[k].status # "ABSENT"
  BY DEF Placed
<1>2. calls \in [CallIds -> CallRows]
  BY DEF SchedulingInv, TypeOK
<1>3. \A o : \A l \in CallIds : ~Overrides(l, o)
  <2>1. SUFFICES ASSUME NEW o, NEW l \in CallIds, Overrides(l, o)
                 PROVE  FALSE
    OBVIOUS
  <2>2. Attempts' = Attempts
    BY <2>1, EndFacts DEF SchedulingInv
  <2>3. QED
    BY <1>1, <2>2 DEF Attempts
<1>4. ~(\E l \in CallIds : Call(l))
  BY <1>3 DEF Call, OptOut, OptOutNumber, WrongNumber, CallbackScheduled, Redial, ToHuman, Settled,
              Overrides
<1>5. calls' # calls
  BY <1>1
<1>6. ~Clock /\ ~Tick
  BY <1>5 DEF Clock, TimeComes, LeaseOver, Tick, ClaimDue
<1>7. ~(\E c \in Callers : Fault(c))
  BY <1>5 DEF Fault, StartFails, Fails, Crash
<1>8. \A a : \A c \in Callers : ~StartLock(c, a) /\ ~StartRead(c) /\ ~StartCheck(c)
  BY <1>5 DEF StartLock, StartRead, StartCheck
<1>9. CASE \E s \in Servers : Loop(s)
  <2>1. PICK s \in Servers : Loop(s)
    BY <1>9
  <2>2. s \in Callers
    BY DEF Callers
  <2>3. \E l \in CallIds : StartByAction(s, l)
    BY <1>5, <1>8, <2>1, <2>2 DEF Loop, Followup, Unplaceable, RefuseAction, Reschedule,
                                  ActionDispatched
  <2>4. QED
    BY <2>3
<1>10. CASE \E c \in Clients : StartLock(c, None) \/ Request(c)
  <2>1. PICK c \in Clients : StartLock(c, None) \/ Request(c)
    BY <1>10
  <2>2. c \in Callers
    BY DEF Callers
  <2>3. \A a \in Actions : ~SessionFails(c, a)
    <3>1. SUFFICES ASSUME NEW a \in Actions, SessionFails(c, a), Open(caller[c].call)
                   PROVE  FALSE
      BY <1>5 DEF SessionFails
    <3>2. caller[c].call \in CallIds
      BY <3>1 DEF SessionFails, At, SchedulingInv, RowInv, InBatch
    <3>3. QED
      BY <1>3, <3>1, <3>2 DEF SessionFails, Overrides
  <2>4. QED
    BY <1>5, <1>8, <2>1, <2>2, <2>3 DEF Request, RefuseByHand, SessionDispatched
<1>11. QED
  BY <1>4, <1>6, <1>7, <1>9, <1>10 DEF Next

(* record_opt_out against startCall: a borrower who opted out is not called *)
(* again, also not by a start that was under way when she did.             *)
THEOREM OptOutsHold == Spec => NoCallAfterOptOut
<1>1. SchedulingInv /\ [Next]_vars => [Placed => ~borrower.optedOut]_vars
  <2>1. SUFFICES ASSUME SchedulingInv, Next, Placed
                 PROVE  ~borrower.optedOut
    OBVIOUS
  <2>2. QED
    BY <2>1, PlacedByStart, StartsByAction, StartsByHand
<1>2. QED
  BY <1>1, SchedulingInvariance, PTL DEF Spec, NoCallAfterOptOut
=============================================================================
