----------------------------- MODULE Scheduling -----------------------------
(***************************************************************************)
(* The calls of one borrower on one contact point: who may start one        *)
(* (Workflow.ts startCall, preCall.ts), the scheduled actions that dial     *)
(* again (Scheduling.ts, the scheduled_actions half of repos/scheduling.ts) *)
(* and the operators who start one by hand (VoiceSessions.ts).  startCall   *)
(* is a transaction, but not one step: it locks the borrower row, then      *)
(* reads the other tables one statement at a time, each of which sees what  *)
(* has been committed by then.                                             *)
(***************************************************************************)
EXTENDS StateMachine, Naturals, FiniteSets

CONSTANTS
    Actions,    \* scheduled_actions rows
    CallIds,    \* conversations, each with its attempt
    Workflows,  \* workflow_executions rows
    Kinds,      \* their sets: those for one loan and of one type
    Servers,    \* scheduler loops; a restarted one is the same loop with nothing in hand
    Clients,    \* requests that start a call by hand, each any number of times
    Placing,    \* the loops whose deployment has a media plane and a trunk to dial out on
    Cap,        \* POLICY.frequencyCapAttempts
    Patience,   \* how often a call outside the contact window is put off
    MaxFaults,  \* bound: crashes, failed transactions, leases run out, turns late to commit
    None        \* nobody, nothing, SQL NULL

Callers == Servers \cup Clients
ASSUME CallersAssumption == Servers \cap Clients = {} /\ None \notin Callers
ASSUME PlacingAssumption == Placing \subseteq Servers
ASSUME KindsAssumption == Kinds \subseteq SUBSET Workflows
ASSUME FiniteAssumption == IsFiniteSet(CallIds)
ASSUME NoneAssumption == None \notin Actions \cup CallIds \cup Workflows
ASSUME CapAssumption == Cap \in Nat
ASSUME BoundsAssumption == Patience \in Nat /\ MaxFaults \in Nat

VARIABLES
    borrower,  \* its status, and whether its number is valid and consented to
    lock,      \* who holds the borrower row
    calls,     \* conversations: status, origin, workflow
    actions,   \* scheduled_actions: status, type, workflow, retry_count, channel, time come
    workflow,  \* workflow statuses
    caller,    \* where a loop or a request is
    faults

vars == <<borrower, lock, calls, actions, workflow, caller, faults>>

Origins == {"browser", "sip", "simulated"}
Voice(origin) == origin # "simulated"
Unseen == [retry |-> 0, voice |-> TRUE]
Idle == [step |-> "idle", action |-> None, failures |-> {}, call |-> None, batch |-> {},
         seen |-> [a \in Actions |-> Unseen]]

Init ==
    /\ borrower = [optedOut |-> FALSE, valid |-> TRUE]
    /\ lock = None
    /\ calls = [k \in CallIds |-> [status |-> "ABSENT", origin |-> "sip", wf |-> None]]
    /\ actions = [a \in Actions |-> [status |-> "ABSENT", type |-> "RETRY_CALL", wf |-> None,
                                     retry |-> 0, voice |-> TRUE, due |-> FALSE]]
    /\ workflow = [w \in Workflows |-> "ABSENT"]
    /\ caller = [c \in Callers |-> Idle]
    /\ faults = 0

(* A new row has the next unused id; which one that is makes no difference. *)
Unused(table, id) ==
    /\ table[id].status = "ABSENT"
    /\ id = CHOOSE i \in DOMAIN table : table[i].status = "ABSENT"
(* OVERRULED: an open call whose workflow an earlier call of it has ended.  *)
Open(k) == calls[k].status \in {"OPEN", "OVERRULED"}
At(c, step) == caller[c].step = step

-----------------------------------------------------------------------------
(* Time.                                                                   *)
TimeComes(a) ==
    /\ actions[a].status = "PENDING" /\ ~actions[a].due
    /\ actions' = [actions EXCEPT ![a].due = TRUE]
    /\ UNCHANGED <<borrower, lock, calls, workflow, caller, faults>>

InHand(a) == \E s \in Servers : a \in caller[s].batch \/ caller[s].action = a
LeasedNever(a) == FALSE   \* mutant: CLAIMED is read by nothing
Leased(a) == actions[a].status = "CLAIMED"

(* The claim of a dead loop runs out; so may that of a live one, because a  *)
(* batch is claimed at once and its calls are dispatched one by one.       *)
LeaseOver(a) ==
    /\ Leased(a) /\ ~actions[a].due
    /\ InHand(a) => faults < MaxFaults
    /\ faults' = IF InHand(a) THEN faults + 1 ELSE faults
    /\ actions' = [actions EXCEPT ![a].due = TRUE]
    /\ UNCHANGED <<borrower, lock, calls, workflow, caller>>

-----------------------------------------------------------------------------
(* claimDue, and the loop over what it returned, which is not read again.   *)
(* Nothing tells retry counts beyond Patience apart.                       *)
Bump(n) == IF n < Patience THEN n + 1 ELSE n

ClaimDue(s, batch) ==
    /\ caller[s] = Idle
    /\ batch # {} /\ \A a \in batch : actions[a].due
    /\ actions' = [a \in Actions |->
          IF a \in batch
          THEN [actions[a] EXCEPT !.status = "CLAIMED", !.due = FALSE,
                                  !.retry = IF actions[a].status = "CLAIMED" THEN Bump(@) ELSE @]
          ELSE actions[a]]
    /\ caller' = [caller EXCEPT ![s].batch = batch,
          ![s].seen = [a \in Actions |->
              IF a \in batch THEN [retry |-> actions'[a].retry, voice |-> actions[a].voice]
              ELSE Unseen]]
    /\ UNCHANGED <<borrower, lock, calls, workflow, faults>>

(* setActionStatus writes by id, whatever the row has become.              *)
Set(acts, a, status) == [acts EXCEPT ![a].status = status, ![a].due = FALSE]
Rest(s, a) == [Idle EXCEPT !.batch = caller[s].batch \ {a},
                           !.seen = [caller[s].seen EXCEPT ![a] = Unseen]]
Settle(s, a, status) ==
    /\ actions' = Set(actions, a, status)
    /\ caller' = [caller EXCEPT ![s] = Rest(s, a)]
SettleRefused(s, a, status) ==
    /\ actions' = [Set(actions, a, status) EXCEPT ![a].retry = Bump(caller[s].seen[a].retry)]
    /\ caller' = [caller EXCEPT ![s] = Rest(s, a)]

Turn(s, a) == At(s, "idle") /\ a \in caller[s].batch

Followup(s, a) ==
    /\ Turn(s, a) /\ actions[a].type = "HUMAN_FOLLOWUP"
    /\ Settle(s, a, "DONE")
    /\ workflow' = [workflow EXCEPT ![actions[a].wf] = "RUNNING"]
    /\ UNCHANGED <<borrower, lock, calls, faults>>

(* Checked before anything is written.                                     *)
Unplaceable(s, a) ==
    /\ s \notin Placing
    /\ Turn(s, a) /\ actions[a].type # "HUMAN_FOLLOWUP" /\ caller[s].seen[a].voice
    /\ Settle(s, a, "FAILED")
    /\ UNCHANGED <<borrower, lock, calls, workflow, faults>>

-----------------------------------------------------------------------------
(* startCall. First the borrower row is locked: nobody else is between     *)
(* these statements, and nobody changes the borrower's status.             *)
UnlockedAlways == TRUE   \* mutant: findBorrower in place of lockBorrower
Unlocked == lock = None

StartLock(c, a) ==
    /\ IF c \in Servers THEN /\ Turn(c, a) /\ actions[a].type # "HUMAN_FOLLOWUP"
                             /\ caller[c].seen[a].voice => c \in Placing
                        ELSE At(c, "idle") /\ a = None
    /\ Unlocked
    /\ lock' = c
    /\ caller' = [caller EXCEPT ![c].step = "locked", ![c].action = a,
                     ![c].failures = IF borrower.optedOut THEN {"BORROWER_OPT_OUT"} ELSE {}]
    /\ UNCHANGED <<borrower, calls, actions, workflow, faults>>

(* findContactPoint, which locks nothing.                                  *)
StartRead(c) ==
    /\ At(c, "locked")
    /\ caller' = [caller EXCEPT ![c].step = "read",
                     ![c].failures = @ \cup IF borrower.valid THEN {}
                                            ELSE {"CONTACT_POINT_INVALID_OR_OPTED_OUT"}]
    /\ UNCHANGED <<borrower, lock, calls, actions, workflow, faults>>

(* The attempts of the window (bound: a behaviour spans one), the open      *)
(* conversations, the callbacks pending, the local time; the answer of      *)
(* evaluatePreCall. These reads are one step, because only the end of a     *)
(* call can fall between them: an open call refuses this one whatever the   *)
(* others say, and one that ends again changes only what one of them reads. *)
Attempts == {k \in CallIds : calls[k].status # "ABSENT"}
AtCapOneLate == Cardinality(Attempts) > Cap   \* mutant: one attempt too many
AtCap == Cardinality(Attempts) >= Cap
ActiveVoice == \E k \in CallIds : Open(k) /\ Voice(calls[k].origin)   \* mutant: half the calls
Active == \E k \in CallIds : Open(k)
Conflict == \E a \in Actions : actions[a].status = "PENDING" /\ actions[a].type = "CALLBACK"

StartCheck(c) ==
    /\ At(c, "read")
    /\ \E outside \in SUBSET {"TCPA_TIME_WINDOW"} :
        caller' = [caller EXCEPT ![c].step = "checked",
            ![c].failures = @ \cup outside
                \cup (IF AtCap THEN {"FREQUENCY_CAP"} ELSE {})
                \cup (IF Active THEN {"ACTIVE_CONVERSATION"} ELSE {})
                \cup (IF c \in Clients /\ Conflict THEN {"SCHEDULED_ACTION_CONFLICT"} ELSE {})]
    /\ UNCHANGED <<borrower, lock, calls, actions, workflow, faults>>

(* cancelPending: only what is still PENDING; what a loop has claimed stays. *)
Types == {"RETRY_CALL", "CALLBACK", "HUMAN_FOLLOWUP"}
Cancel(acts, W, types) ==
    [a \in Actions |-> IF acts[a].status = "PENDING" /\ acts[a].wf \in W /\ acts[a].type \in types
                       THEN [acts[a] EXCEPT !.status = "CANCELED", !.due = FALSE] ELSE acts[a]]

(* The rest of startCall inserts the attempt and the conversation. A call   *)
(* by hand cancels the retries it takes the place of, and continues the     *)
(* open workflow of its loan and type or opens one. A voice session then    *)
(* asks for an agent; the other route to startCall does not.               *)
Passed(c) == At(c, "checked") /\ caller[c].failures = {}

InsertUnstarted(c, k, origin, w) ==   \* mutant: the workflow's status is not written
    /\ Unused(calls, k)
    /\ calls' = [calls EXCEPT ![k] = [status |-> "OPEN", origin |-> origin, wf |-> w]]
    /\ lock' = None
    /\ UNCHANGED <<borrower, faults, workflow>>
Insert(c, k, origin, w) ==
    /\ Unused(calls, k)
    /\ calls' = [calls EXCEPT ![k] = [status |-> "OPEN", origin |-> origin, wf |-> w]]
    /\ workflow' = [workflow EXCEPT ![w] = "RUNNING"]
    /\ lock' = None
    /\ UNCHANGED <<borrower, faults>>

Opened(w) ==
    /\ workflow[w] = "ABSENT"
    /\ \E kind \in Kinds :
          /\ w \in kind /\ \A v \in kind : workflow[v] # "RUNNING"
          /\ w = CHOOSE v \in kind : workflow[v] = "ABSENT"

StartByHand(c, k, origin, w, dispatched) ==
    /\ c \in Clients /\ Passed(c)
    /\ workflow[w] = "RUNNING" \/ Opened(w)
    /\ dispatched => Voice(origin)
    /\ Insert(c, k, origin, w)
    /\ actions' = Cancel(actions, Workflows, {"RETRY_CALL"})
    /\ caller' = [caller EXCEPT ![c] = IF dispatched
                                       THEN [Idle EXCEPT !.step = "dispatch", !.call = k] ELSE Idle]

(* A scheduled call re-enters its workflow. The rest of prepare settles the *)
(* action of a simulated call; that of a voice call stays CLAIMED.         *)
StartByAction(s, k) ==
    /\ s \in Servers /\ Passed(s)
    /\ LET a == caller[s].action
           voice == caller[s].seen[a].voice
       IN  /\ Insert(s, k, IF voice THEN "sip" ELSE "simulated", actions[a].wf)
           /\ IF voice
              THEN /\ caller' = [caller EXCEPT ![s].step = "dispatch", ![s].call = k]
                   /\ UNCHANGED actions
              ELSE Settle(s, a, "DONE")

RefuseByHand(c) ==
    /\ c \in Clients /\ At(c, "checked") /\ caller[c].failures # {}
    /\ lock' = None
    /\ caller' = [caller EXCEPT ![c] = Idle]
    /\ UNCHANGED <<borrower, calls, actions, workflow, faults>>

(* Outside the contact window, whatever else is wrong, the action is put    *)
(* off to the next morning, Patience times; else it is canceled.           *)
RefuseAction(s) ==
    /\ s \in Servers /\ At(s, "checked") /\ caller[s].failures # {}
    /\ lock' = None
    /\ LET a == caller[s].action
           putOff == "TCPA_TIME_WINDOW" \in caller[s].failures
                     /\ caller[s].seen[a].retry < Patience
       IN  SettleRefused(s, a, IF putOff THEN "PENDING" ELSE "CANCELED")
    /\ UNCHANGED <<borrower, calls, workflow, faults>>

(* A statement of startCall fails on the database. prepare takes the error  *)
(* for a refusal: its own transaction goes on from the savepoint.          *)
StartFails(s) ==
    /\ s \in Servers /\ lock = s /\ faults < MaxFaults
    /\ lock' = None
    /\ SettleRefused(s, caller[s].action, "CANCELED")
    /\ faults' = faults + 1
    /\ UNCHANGED <<borrower, calls, workflow>>

-----------------------------------------------------------------------------
(* What the end of a call means to the borrower's actions: one transaction  *)
(* of the orchestrator, with the finalizer's part of it. Nothing reads the  *)
(* origin of an ended call, which is forgotten. A call that ends by a signal *)
(* may leave a turn behind, claimed before and late to commit.              *)
BySignal == {"NO_ANSWER", "FAILED", "VOICEMAIL_LEFT"}
Ends(k, o) ==
    /\ Open(k)
    /\ \E late \in BOOLEAN :
          /\ late => o \in BySignal /\ faults < MaxFaults
          /\ faults' = IF late THEN faults + 1 ELSE faults
          /\ calls' = [calls EXCEPT ![k].status = IF late THEN "HUNG_UP" ELSE "ENDED",
                                    ![k].origin = "sip"]
    /\ workflow' = [workflow EXCEPT ![calls[k].wf] = workflowStatusFor(o)]
    /\ UNCHANGED lock

(* T2 and the finalizer ask only whether the turn has its claim: a word that *)
(* overrides everything, said before the call ended, ends it again, and the  *)
(* workflow with it, also one that has since been dialled again.            *)
EndsAgain(k, o) ==
    /\ calls[k].status = "HUNG_UP"
    /\ calls' = [l \in CallIds |->
          IF l = k THEN [calls[l] EXCEPT !.status = "ENDED"]
          ELSE IF Open(l) /\ calls[l].wf = calls[k].wf THEN [calls[l] EXCEPT !.status = "OVERRULED"]
          ELSE calls[l]]
    /\ workflow' = [workflow EXCEPT ![calls[k].wf] = workflowStatusFor(o)]
    /\ UNCHANGED <<lock, faults>>
Overrides(k, o) == Ends(k, o) \/ EndsAgain(k, o)

New(acts, a, k, type, due) ==
    [acts EXCEPT ![a] = [status |-> "PENDING", type |-> type, wf |-> calls[k].wf, retry |-> 0,
                         voice |-> Voice(calls[k].origin), due |-> due]]

(* A restriction of the borrower writes the row startCall locks; one of the *)
(* number does not.                                                        *)
OptOut(k) ==
    /\ Overrides(k, "OPT_OUT")
    /\ Unlocked
    /\ borrower' = [borrower EXCEPT !.optedOut = TRUE]
    /\ actions' = Cancel(actions, {calls[k].wf}, Types)
    /\ UNCHANGED caller

OptOutNumber(k) ==
    /\ Ends(k, "OPT_OUT")
    /\ borrower' = [borrower EXCEPT !.valid = FALSE]
    /\ actions' = Cancel(actions, {calls[k].wf}, Types)
    /\ UNCHANGED caller

WrongNumber(k) ==
    /\ Overrides(k, "WRONG_NUMBER")
    /\ borrower' = [borrower EXCEPT !.valid = FALSE]
    /\ actions' = Cancel(actions, {calls[k].wf}, {"CALLBACK", "RETRY_CALL"})
    /\ UNCHANGED caller

(* A callback already pending in the workflow is moved, else one is made.   *)
Pending(k) == {a \in Actions : actions[a].status = "PENDING" /\ actions[a].type = "CALLBACK"
                                /\ actions[a].wf = calls[k].wf}
CallbackScheduled(k, a) ==
    /\ Ends(k, "CALLBACK_SCHEDULED")
    /\ LET rest == Cancel(actions, {calls[k].wf}, {"RETRY_CALL"})
       IN  IF Pending(k) # {}
           THEN /\ a \in Pending(k)
                /\ actions' = [Set(rest, a, "PENDING") EXCEPT ![a].voice = Voice(calls[k].origin)]
           ELSE Unused(actions, a) /\ actions' = New(rest, a, k, "CALLBACK", FALSE)
    /\ UNCHANGED <<borrower, caller>>

(* createRetry, unless the call was a browser tab.                         *)
Retry(k, a) ==
    IF calls[k].origin = "browser"
    THEN UNCHANGED actions
    ELSE Unused(actions, a) /\ actions' = New(actions, a, k, "RETRY_CALL", FALSE)

Redial(k, o, a) ==
    /\ o \in Redialled /\ Ends(k, o)
    /\ Retry(k, a)
    /\ UNCHANGED <<borrower, caller>>

(* A dispute, hardship, or the wish for a human.                           *)
ToHuman(k, o, a) ==
    /\ Overrides(k, o)
    /\ Unused(actions, a)
    /\ actions' = New(actions, a, k, "HUMAN_FOLLOWUP", TRUE)
    /\ UNCHANGED <<borrower, caller>>

Settled(k, o) ==
    /\ Ends(k, o)
    /\ UNCHANGED <<borrower, actions, caller>>

-----------------------------------------------------------------------------
(* The dispatch, outside any transaction, and what is done about it.       *)
ActionDispatched(s, ok) ==
    /\ s \in Servers /\ At(s, "dispatch")
    /\ Settle(s, caller[s].action, IF ok THEN "DONE" ELSE "FAILED")
    /\ UNCHANGED <<borrower, lock, calls, workflow, faults>>

SessionDispatched(c) ==
    /\ c \in Clients /\ At(c, "dispatch")
    /\ caller' = [caller EXCEPT ![c] = Idle]
    /\ UNCHANGED <<borrower, lock, calls, actions, workflow, faults>>

(* A session nobody will serve is hung up, unless the call has ended.      *)
SessionFails(c, a) ==
    /\ c \in Clients /\ At(c, "dispatch")
    /\ IF Open(caller[c].call)
       THEN Ends(caller[c].call, "NO_ANSWER") /\ Retry(caller[c].call, a)
       ELSE UNCHANGED <<lock, calls, actions, workflow, faults>>
    /\ caller' = [caller EXCEPT ![c] = Idle]
    /\ UNCHANGED borrower

-----------------------------------------------------------------------------
(* A transaction of the loop fails. runOnce puts the action off, by id.     *)
Unlock(c) == IF lock = c THEN None ELSE lock

Fails(s, a) ==
    /\ s \in Servers /\ faults < MaxFaults
    /\ \/ Turn(s, a)
       \/ ~At(s, "idle") /\ a = caller[s].action
    /\ caller[s].step # "failing"
    /\ faults' = faults + 1
    /\ lock' = Unlock(s)
    /\ caller' = [caller EXCEPT ![s].step = "failing", ![s].action = a]
    /\ UNCHANGED <<borrower, calls, actions, workflow>>

Reschedule(s) ==
    /\ At(s, "failing")
    /\ Settle(s, caller[s].action, "PENDING")
    /\ UNCHANGED <<borrower, lock, calls, workflow, faults>>

(* A server or a request is gone, with all it had in hand.                 *)
Crash(c) ==
    /\ caller[c] # Idle /\ faults < MaxFaults
    /\ faults' = faults + 1
    /\ lock' = Unlock(c)
    /\ caller' = [caller EXCEPT ![c] = Idle]
    /\ UNCHANGED <<borrower, calls, actions, workflow>>

-----------------------------------------------------------------------------
Loop(s) ==
    \/ \E a \in Actions :
        \/ Followup(s, a) \/ Unplaceable(s, a) \/ StartLock(s, a)
    \/ StartRead(s) \/ StartCheck(s) \/ RefuseAction(s) \/ Reschedule(s)
    \/ \E k \in CallIds : StartByAction(s, k)
    \/ \E ok \in BOOLEAN : ActionDispatched(s, ok)

Request(c) ==
    \/ StartRead(c) \/ StartCheck(c) \/ RefuseByHand(c) \/ SessionDispatched(c)
    \/ \E k \in CallIds, origin \in Origins, w \in Workflows, dispatched \in BOOLEAN :
          StartByHand(c, k, origin, w, dispatched)
    \/ \E a \in Actions : SessionFails(c, a)

Call(k) ==
    \/ OptOut(k) \/ OptOutNumber(k) \/ WrongNumber(k)
    \/ \E a \in Actions : CallbackScheduled(k, a)
    \/ \E o \in Redialled, a \in Actions : Redial(k, o, a)
    \/ \E o \in {"DISPUTED", "ESCALATED"}, a \in Actions : ToHuman(k, o, a)
    \/ \E o \in {"PROMISE_TO_PAY", "NO_DISPOSITION", "VOICEMAIL_LEFT"} : Settled(k, o)

Fault(c) ==
    \/ StartFails(c)
    \/ \E a \in Actions : Fails(c, a)
    \/ Crash(c)

Clock == \E a \in Actions : TimeComes(a) \/ LeaseOver(a)
Tick == \E s \in Servers, batch \in SUBSET Actions : ClaimDue(s, batch)

Next ==
    \/ Clock \/ Tick
    \/ \E k \in CallIds : Call(k)
    \/ \E s \in Servers : Loop(s)
    \/ \E c \in Clients : StartLock(c, None) \/ Request(c)
    \/ \E c \in Callers : Fault(c)

Spec == Init /\ [][Next]_vars

(* Time passes, the loops keep ticking and go through what they claimed,    *)
(* whoever waits for the borrower row gets it in its turn, and a request    *)
(* gets to its end.                                                        *)
Fairness ==
    /\ WF_vars(Clock) /\ WF_vars(Tick)
    /\ \A s \in Servers : SF_vars(Loop(s))
    /\ \A c \in Clients : WF_vars(Request(c))

FairSpec == Spec /\ Fairness

-----------------------------------------------------------------------------
(* Every row and every loop keeps its type.                                *)
Failures == {"BORROWER_OPT_OUT", "CONTACT_POINT_INVALID_OR_OPTED_OUT", "TCPA_TIME_WINDOW",
             "FREQUENCY_CAP", "ACTIVE_CONVERSATION", "SCHEDULED_ACTION_CONFLICT"}
BorrowerRows == [optedOut : BOOLEAN, valid : BOOLEAN]
CallRows == [status : {"ABSENT", "OPEN", "OVERRULED", "HUNG_UP", "ENDED"}, origin : Origins,
             wf : Workflows \cup {None}]
ActionRows ==
    [status : {"ABSENT", "PENDING", "CLAIMED", "DONE", "CANCELED", "FAILED"}, type : Types,
     wf : Workflows \cup {None}, retry : Nat, voice : BOOLEAN, due : BOOLEAN]
Positions ==
    [step : {"idle", "locked", "read", "checked", "dispatch", "failing"},
     action : Actions \cup {None}, failures : SUBSET Failures,
     call : CallIds \cup {None}, batch : SUBSET Actions,
     seen : [Actions -> [retry : Nat, voice : BOOLEAN]]]
TypeOK ==
    /\ borrower \in BorrowerRows
    /\ lock \in Callers \cup {None}
    /\ calls \in [CallIds -> CallRows]
    /\ actions \in [Actions -> ActionRows]
    /\ workflow \in [Workflows -> {"ABSENT", "RUNNING", "COMPLETED"}]
    /\ caller \in [Callers -> Positions]
    /\ faults \in Nat

(* hasActiveConversation and the borrower lock: a borrower is never in two   *)
(* calls at once, whoever starts them.                                     *)
OneCallAtATime == \A k, l \in CallIds : Open(k) /\ Open(l) => k = l

(* frequencyCapAttempts: the attempts within the window never exceed the    *)
(* cap, however loops and requests race.                                   *)
CapRespected == Cardinality(Attempts) <= Cap

(* setWorkflowStatus against incrementAttemptNo: the workflow of an open    *)
(* call is RUNNING, whatever ends or follows up beside it, with the one      *)
(* exception the code allows: since the call began, a turn that outlived an  *)
(* earlier call of the workflow has ended that one again (Orchestrator.ts:344,*)
(* CallFinalizer.ts:51).                                                    *)
OpenCallsRun ==
    \A k \in CallIds : Open(k) =>
        workflow[calls[k].wf] = "RUNNING" \/ calls[k].status = "OVERRULED"

(* lockBorrower: whoever is between the statements of startCall holds the   *)
(* row, and a call made has its workflow.                                  *)
Between(c) == caller[c].step \in {"locked", "read", "checked"}
LockHeld == \A c \in Callers : Between(c) <=> lock = c
CallsPlaced == \A k \in CallIds : calls[k].status # "ABSENT" => calls[k].wf \in Workflows

(* startCall: what it read of the borrower and of her calls is still so      *)
(* when it inserts the new one.                                            *)
ReadsHold ==
    \A c \in Callers :
        /\ Between(c) /\ borrower.optedOut => "BORROWER_OPT_OUT" \in caller[c].failures
        /\ At(c, "checked") /\ Active => "ACTIVE_CONVERSATION" \in caller[c].failures
        /\ At(c, "checked") /\ AtCap => "FREQUENCY_CAP" \in caller[c].failures

(* claimDue: a row has a workflow. The action a loop works on is one of its  *)
(* batch, and until something goes wrong nobody else has it: it is CLAIMED. *)
RowsPlaced == \A a \in Actions :
    /\ actions[a].status # "ABSENT" => actions[a].wf \in Workflows
    /\ actions[a].due => actions[a].status \in {"PENDING", "CLAIMED"}
InBatch ==
    /\ \A s \in Servers :
          /\ caller[s].step # "idle" => caller[s].action \in caller[s].batch
          /\ \A a \in caller[s].batch : actions[a].status # "ABSENT"
    /\ \A c \in Clients :
          /\ caller[c].step # "failing"
          /\ caller[c].step = "dispatch" => caller[c].call \in CallIds
ClaimsHold ==
    faults = 0 =>
        \A s \in Servers : \A a \in caller[s].batch :
            /\ actions[a].status = "CLAIMED" /\ ~actions[a].due
            /\ \A r \in Servers \ {s} : a \notin caller[r].batch

(* What startCall relies on, what the calls promise, what the loops rely on. *)
StartInv == LockHeld /\ ReadsHold
CallInv == CallsPlaced /\ OneCallAtATime /\ CapRespected /\ OpenCallsRun
RowInv == RowsPlaced /\ InBatch /\ ClaimsHold
SchedulingInv == TypeOK /\ StartInv /\ CallInv /\ RowInv

(* A call is placed.                                                       *)
Placed == \E k \in CallIds : calls[k].status = "ABSENT" /\ calls'[k].status # "ABSENT"

(* record_opt_out: a borrower who opted out is never called again, also not *)
(* by a start that was under way.                                          *)
NoCallAfterOptOut == [][Placed => ~borrower.optedOut]_vars

(* "opt-out and wrong number block inappropriate future attempts"           *)
(* (SPEC.md:1329): no call is placed to a number known to be wrong, or one  *)
(* whose consent is withdrawn.                                             *)
NoCallToBlockedNumber == [][Placed => borrower.valid]_vars

(* claimDue, its lease and runOnce: no scheduled action stays open for ever, *)
(* also none whose loop died with it in hand.                              *)
ActionsSettle ==
    \A a \in Actions : []<>(actions[a].status \notin {"PENDING", "CLAIMED"})
=============================================================================
