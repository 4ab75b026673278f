----------------------------- MODULE WorkerProofs -----------------------------
(***************************************************************************)
(* Proofs about the voice worker. Fleet: the ceiling of a worker, who may   *)
(* be hung up by a sweeper, and that a call is closed once, for any calls,  *)
(* servers, ceiling, windows and losses. VoiceCall: what is reported of a   *)
(* call's lines is true and complete, and a quiet call has a deadline, for  *)
(* any number of turns, probes and interruptions, and any answers.          *)
(***************************************************************************)
EXTENDS Fleet, VoiceCall, Integers, SequenceTheorems, FiniteSetTheorems, TLAPS

-----------------------------------------------------------------------------
(* Fleet: who takes a call, and who notices that it died.                   *)

USE FleetAssumptions

Jobs == {"none", "awaited", "launching", "active", "gone"}
Candidates == [call : Calls, stale : Nat]
Outcomes == {"none", "open", "ended", "swept", "revised"}

(* What the worker holds: a job it waits for is counted until the poll has   *)
(* seen it or given it up.                                                  *)
WorkerInv ==
  /\ job \in [Calls -> Jobs] /\ admitting \subseteq Calls
  /\ \A c \in Calls : job[c] = "awaited" => c \in admitting
  /\ Prompt => /\ \A c \in Calls : job[c] # "launching"
               /\ Cardinality(Active \cup admitting) <= MaxJobs

(* What a sweeper holds: the call it is at is in its batch, and one it was   *)
(* told is absent has not had its agent in the room ever since.             *)
SweeperInv ==
  /\ call \in [Calls -> Outcomes]
  /\ age \in [Calls -> Nat] /\ seen \in [Calls -> Nat]
  /\ batch \in [Servers -> SUBSET Candidates]
  /\ asked = [s \in Servers |-> asked[s]]
  /\ attended \in [Servers -> SUBSET Active]
  /\ \A s \in Servers : asked[s] # Nobody =>
       /\ asked[s].row \in batch[s]
       /\ asked[s].answer \in {"present", "absent", "unknown"}
       /\ asked[s].answer = "absent" => asked[s].row.call \notin attended[s]

FleetInv == WorkerInv /\ SweeperInv

LEMMA FleetInitially == FleetInit => FleetInv
<1> SUFFICES ASSUME FleetInit PROVE FleetInv
  OBVIOUS
<1>1. Active = {} /\ admitting = {}
  BY DEF FleetInit, Active
<1>2. Cardinality(Active \cup admitting) <= MaxJobs
  BY <1>1, FS_EmptySet
<1>3. WorkerInv
  BY <1>2 DEF FleetInit, WorkerInv, Jobs
<1>4. SweeperInv
  BY <1>1 DEF FleetInit, SweeperInv, None, Outcomes
<1>5. QED
  BY <1>3, <1>4 DEF FleetInv

-----------------------------------------------------------------------------
(* The ceiling.                                                            *)

LEMMA FewerFit ==
    ASSUME NEW S, NEW T \in SUBSET Calls, S \subseteq T, Cardinality(T) <= MaxJobs
    PROVE  Cardinality(S) <= MaxJobs
<1>1. IsFiniteSet(T)
  BY FS_Subset
<1>2. IsFiniteSet(S) /\ Cardinality(S) <= Cardinality(T)
  BY <1>1, FS_Subset
<1>3. QED
  BY <1>1, <1>2, FS_CardinalityType

(* The union of ids counts every job once.                                  *)
LEMMA InFlightCounts ==
    ASSUME FleetInv
    PROVE  /\ IsFiniteSet(Active \cup admitting)
           /\ inFlight = Cardinality(Active \cup admitting)
<1>1. Active \subseteq Calls /\ admitting \subseteq Calls
  BY DEF Active, FleetInv, WorkerInv
<1>2. /\ IsFiniteSet(Active) /\ IsFiniteSet(admitting \ Active)
      /\ IsFiniteSet(Active \cup admitting)
  BY <1>1, FS_Subset
<1>3. Active \cap (admitting \ Active) = {} /\ Active \cup (admitting \ Active) = Active \cup admitting
  OBVIOUS
<1>4. /\ Cardinality(Active \cup (admitting \ Active)) =
           Cardinality(Active) + Cardinality(admitting \ Active) - Cardinality(Active \cap (admitting \ Active))
  BY <1>2, FS_Union
<1>5. Cardinality(Active) \in Nat /\ Cardinality(admitting \ Active) \in Nat
  BY <1>2, FS_CardinalityType
<1>6. Cardinality(Active \cap (admitting \ Active)) = 0
  BY <1>3, FS_EmptySet
<1>7. Cardinality(Active \cup admitting) = Cardinality(Active) + Cardinality(admitting \ Active)
  <2>1. Cardinality(Active \cup (admitting \ Active)) = Cardinality(Active) + Cardinality(admitting \ Active)
    <3>1. ASSUME NEW a \in Nat, NEW b \in Nat, NEW z, z = 0
          PROVE  a + b - z = a + b
      BY <3>1
    <3>2. QED
      BY <1>4, <1>5, <1>6, <3>1
  <2>2. QED
    BY <1>3, <2>1
<1>8. QED
  BY <1>2, <1>7 DEF inFlight

LEMMA WorkerSame ==
    ASSUME FleetInv, UNCHANGED <<job, admitting>>
    PROVE  WorkerInv' /\ Active' = Active
BY DEF FleetInv, WorkerInv, Active

(* A step of the worker that counts no job it did not count.                *)
LEMMA WorkerKeeps ==
    ASSUME FleetInv, NEW c \in Calls, NEW to \in Jobs, job' = [job EXCEPT ![c] = to],
           admitting' \subseteq admitting,
           \A d \in Calls \ {c} : job[d] = "awaited" => d \in admitting',
           to = "awaited" => c \in admitting',
           to = "active" => job[c] = "active" \/ c \in admitting \/ ~Prompt,
           to = "launching" => ~Prompt
    PROVE  WorkerInv'
<1>1. job'[c] = to /\ \A d \in Calls \ {c} : job'[d] = job[d]
  BY DEF FleetInv, WorkerInv
<1>2. job' \in [Calls -> Jobs] /\ admitting' \subseteq Calls
  BY DEF FleetInv, WorkerInv
<1>3. \A d \in Calls : job'[d] = "awaited" => d \in admitting'
  BY <1>1
<1>4. ASSUME Prompt
      PROVE  Cardinality((Active \cup admitting)') <= MaxJobs
  <2>1. (Active \cup admitting)' \subseteq Active \cup admitting
    BY <1>1, <1>4 DEF Active
  <2>2. Active \cup admitting \in SUBSET Calls /\ Cardinality(Active \cup admitting) <= MaxJobs
    BY <1>4 DEF FleetInv, WorkerInv, Active
  <2>3. QED
    BY <2>1, <2>2, FewerFit
<1>5. Prompt => \A d \in Calls : job'[d] # "launching"
  BY <1>1 DEF FleetInv, WorkerInv
<1>6. QED
  BY <1>2, <1>3, <1>4, <1>5 DEF WorkerInv

(* A job is accepted only below the ceiling.                                *)
LEMMA AcceptKeeps ==
    ASSUME FleetInv, NEW c \in Calls, Accept(c)
    PROVE  WorkerInv'
<1>1. /\ job[c] = "none" /\ inFlight < MaxJobs
      /\ admitting' = admitting \cup {c} /\ job' = [job EXCEPT ![c] = "awaited"]
  BY DEF Accept
<1>2. job'[c] = "awaited" /\ \A d \in Calls \ {c} : job'[d] = job[d]
  BY <1>1 DEF FleetInv, WorkerInv
<1>3. job' \in [Calls -> Jobs] /\ admitting' \subseteq Calls
  BY <1>1 DEF FleetInv, WorkerInv, Jobs
<1>4. (Active \cup admitting)' = (Active \cup admitting) \cup {c}
  BY <1>1, <1>2 DEF Active
<1>5. Cardinality((Active \cup admitting)') <= MaxJobs
  <2>1. /\ IsFiniteSet(Active \cup admitting) /\ Cardinality(Active \cup admitting) < MaxJobs
        /\ Cardinality(Active \cup admitting) \in Nat
    BY <1>1, InFlightCounts, FS_CardinalityType
  <2>2. \/ Cardinality((Active \cup admitting) \cup {c}) = Cardinality(Active \cup admitting)
        \/ Cardinality((Active \cup admitting) \cup {c}) = Cardinality(Active \cup admitting) + 1
    BY <2>1, FS_AddElement
  <2>3. Cardinality((Active \cup admitting) \cup {c}) <= MaxJobs
    BY <2>1, <2>2
  <2>4. QED
    BY <1>4, <2>3
<1>6. QED
  BY <1>1, <1>2, <1>3, <1>5 DEF FleetInv, WorkerInv

-----------------------------------------------------------------------------
(* The sweepers.                                                           *)

(* A step of somebody else: no agent joins the watch of a sweeper.          *)
LEMMA SweeperSpared ==
    ASSUME FleetInv, UNCHANGED <<batch, asked>>,
           call' \in [Calls -> Outcomes],
           age' \in [Calls -> Nat], seen' \in [Calls -> Nat],
           attended' = [s \in Servers |-> attended'[s]],
           \A s \in Servers : attended'[s] \subseteq attended[s] /\ attended'[s] \subseteq Active'
    PROVE  SweeperInv'
<1>1. attended' \in [Servers -> SUBSET Active']
  OBVIOUS
<1>2. QED
  BY <1>1 DEF FleetInv, SweeperInv

LEMMA ClosesTypes ==
    ASSUME FleetInv, NEW c \in Calls, NEW how \in {"ended", "swept"}, ClosesCall(c, how)
    PROVE  /\ call' \in [Calls -> Outcomes]
           /\ age' \in [Calls -> Nat] /\ seen' \in [Calls -> Nat]
           /\ call'[c] = how /\ \A d \in Calls \ {c} : call'[d] = call[d]
           /\ claimed' = claimed
BY DEF ClosesCall, FleetInv, SweeperInv, None, Outcomes

LEMMA CommitTypes ==
    ASSUME FleetInv, NEW c \in Calls, NEW settles \in BOOLEAN, TurnCommits(c, settles)
    PROVE  /\ call' \in [Calls -> Outcomes]
           /\ age' \in [Calls -> Nat] /\ seen' \in [Calls -> Nat]
           /\ call'[c] \in {call[c], "ended", "revised"}
           /\ call[c] \in {"ended", "swept", "revised"} => call'[c] \in {call[c], "revised"}
           /\ \A d \in Calls \ {c} : call'[d] = call[d]
           /\ c \in claimed /\ claimed' = claimed \ {c}
BY DEF TurnCommits, FleetInv, SweeperInv, None, Outcomes

LEMMA WorkerSteps ==
    ASSUME FleetInv, NEW c \in Calls,
           \/ Accept(c) \/ (\E lost \in BOOLEAN : Launch(c, lost)) \/ PollDone(c) \/ GiveUp(c)
           \/ CallEnds(c) \/ Crash(c)
    PROVE  FleetInv'
<1> USE DEF FleetInv
<1>1. CASE Accept(c)
  <2>1. Active' = Active /\ UNCHANGED <<rows, sweeper>>
    BY <1>1 DEF Accept, Active, WorkerInv
  <2>2. SweeperInv'
    BY <2>1 DEF SweeperInv, rows, sweeper
  <2>3. QED
    BY <1>1, <2>2, AcceptKeeps
<1>2. ASSUME NEW lost \in BOOLEAN, Launch(c, lost)
      PROVE  FleetInv'
  <2>1. /\ job' = [job EXCEPT ![c] = "active"] /\ admitting' = admitting /\ Active \subseteq Active'
        /\ job[c] \in {"awaited", "launching"} /\ UNCHANGED <<call, age, batch, asked, attended>>
        /\ seen' \in [Calls -> Nat]
    BY <1>2 DEF Launch, Active, WorkerInv, SweeperInv, sweeper
  <2>2. WorkerInv'
    BY <2>1, WorkerKeeps DEF WorkerInv, Jobs
  <2>3. SweeperInv'
    BY <2>1 DEF SweeperInv
  <2>4. QED
    BY <2>2, <2>3
<1>3. CASE PollDone(c)
  <2>1. /\ admitting' = admitting \ {c} /\ job[c] # "awaited" /\ job' = job /\ Active' = Active
        /\ UNCHANGED <<rows, sweeper>>
    BY <1>3 DEF PollDone, Active
  <2>2. job' = [job EXCEPT ![c] = job[c]] /\ job[c] \in Jobs
    BY <2>1 DEF WorkerInv
  <2>3. WorkerInv'
    BY <2>1, <2>2, WorkerKeeps DEF WorkerInv
  <2>4. SweeperInv'
    BY <2>1 DEF SweeperInv, rows, sweeper
  <2>5. QED
    BY <2>3, <2>4
<1>4. CASE GiveUp(c)
  <2>1. /\ admitting' = admitting \ {c} /\ job[c] = "awaited" /\ UNCHANGED <<rows, sweeper>>
        /\ job' = [job EXCEPT ![c] = IF Prompt THEN "none" ELSE "launching"]
    BY <1>4 DEF GiveUp
  <2>2. Active' = Active
    BY <2>1 DEF Active, WorkerInv
  <2>3. WorkerInv'
    BY <2>1, WorkerKeeps DEF WorkerInv, Jobs
  <2>4. SweeperInv'
    BY <2>1, <2>2 DEF SweeperInv, rows, sweeper
  <2>5. QED
    BY <2>3, <2>4
<1>5. CASE CallEnds(c) \/ Crash(c)
  <2>1. /\ job' = [job EXCEPT ![c] = "gone"] /\ admitting' = admitting /\ UNCHANGED <<batch, asked>>
        /\ Leaves(c)
    BY <1>5 DEF CallEnds, Crash
  <2>2. WorkerInv'
    BY <2>1, WorkerKeeps DEF WorkerInv, Jobs
  <2>3. Active' = Active \ {c}
    BY <2>1 DEF Active, WorkerInv
  <2>4. /\ call' \in [Calls -> Outcomes]
        /\ age' \in [Calls -> Nat] /\ seen' \in [Calls -> Nat]
    <3>1. CASE UNCHANGED rows
      BY <3>1 DEF rows, SweeperInv
    <3>2. CASE ~UNCHANGED rows
      <4>1. ClosesCall(c, "ended")
        BY <1>5, <3>2 DEF CallEnds, Crash
      <4>2. QED
        BY <4>1, ClosesTypes
    <3>3. QED
      BY <3>1, <3>2
  <2>5. \A s \in Servers : attended'[s] = attended[s] \ {c}
    BY <2>1 DEF Leaves
  <2>6. SweeperInv'
    <3>1. attended' = [s \in Servers |-> attended'[s]]
      BY <2>1 DEF Leaves
    <3>2. \A s \in Servers : attended[s] \subseteq Active
      BY DEF SweeperInv
    <3>3. QED
      BY <2>1, <2>3, <2>4, <2>5, <3>1, <3>2, SweeperSpared
  <2>7. QED
    BY <2>2, <2>6
<1>6. QED
  BY <1>1, <1>2, <1>3, <1>4, <1>5

(* What happens to the calls, and time: neither touches a sweeper.          *)
LEMMA RowSteps ==
    ASSUME FleetInv, \/ \E c \in Calls : \/ Start(c) \/ Closed(c) \/ TurnClaims(c)
                                           \/ \E settles \in BOOLEAN : TurnCommits(c, settles)
                     \/ Shutdown \/ (\E lost \in SUBSET Active : Tick(lost))
    PROVE  FleetInv'
<1> USE DEF FleetInv
<1>1. UNCHANGED <<job, admitting, batch, asked, attended>>
  BY DEF Start, Closed, TurnClaims, TurnCommits, Shutdown, Tick, worker, sweeper
<1>2. WorkerInv' /\ Active' = Active
  BY <1>1, WorkerSame
<1>3. /\ call' \in [Calls -> Outcomes]
      /\ age' \in [Calls -> Nat] /\ seen' \in [Calls -> Nat]
  <2>1. CASE \E c \in Calls : Start(c)
    BY <2>1 DEF Start, SweeperInv, Outcomes
  <2>2. CASE \E c \in Calls : Closed(c)
    BY <2>2, ClosesTypes DEF Closed
  <2>3. CASE Shutdown
    BY <2>3 DEF Shutdown, rows, SweeperInv
  <2>4. CASE \E lost \in SUBSET Active : Tick(lost)
    <3>1. \A n \in Nat : Capped(n) \in Nat
      BY DEF Capped
    <3>2. QED
      BY <2>4, <3>1 DEF Tick, SweeperInv, None
  <2>5. CASE \E c \in Calls : TurnClaims(c) \/ \E settles \in BOOLEAN : TurnCommits(c, settles)
    BY <2>5, CommitTypes DEF TurnClaims, SweeperInv
  <2>6. QED
    BY <2>1, <2>2, <2>3, <2>4, <2>5
<1>4. SweeperInv'
  BY <1>1, <1>2, <1>3 DEF SweeperInv
<1>5. QED
  BY <1>2, <1>4

LEMMA SweeperSteps ==
    ASSUME FleetInv, NEW s \in Servers, Sweeps(s)
    PROVE  FleetInv'
<1> USE DEF FleetInv
<1>1. UNCHANGED <<job, admitting>> /\ WorkerInv' /\ Active' = Active
  <2>1. UNCHANGED <<job, admitting>>
    BY DEF Sweeps, Query, Defer, Sweep, Ask, worker
  <2>2. QED
    BY <2>1, WorkerSame
<1>2. CASE Query(s)
  <2>1. PICK q \in Oldest : batch' = [batch EXCEPT ![s] = {[call |-> c, stale |-> Unseen(c)] : c \in q}]
    BY <1>2 DEF Query
  <2>2. q \subseteq Calls
    BY DEF Oldest, Stale
  <2>3. \A c \in Calls : Unseen(c) \in Nat
    BY DEF Unseen, SweeperInv
  <2>4. batch' \in [Servers -> SUBSET Candidates]
    BY <2>1, <2>2, <2>3 DEF SweeperInv, Candidates
  <2>5. asked[s] = Nobody /\ batch[s] = {}
    BY <1>2 DEF Query, SweeperInv
  <2>6. attended' \in [Servers -> SUBSET Active]
    BY <1>2 DEF Query, SweeperInv
  <2>7. \A r \in Servers \ {s} : attended'[r] = attended[r] /\ batch'[r] = batch[r]
    BY <1>2, <2>1 DEF Query, SweeperInv
  <2>8. SweeperInv'
    BY <1>1, <1>2, <2>4, <2>5, <2>6, <2>7 DEF Query, SweeperInv, rows
  <2>9. QED
    BY <1>1, <2>8
<1>3. ASSUME NEW r \in batch[s], NEW answered \in BOOLEAN, Ask(s, r, answered)
      PROVE  FleetInv'
  <2>1. asked'[s] = [row |-> r, answer |-> Present(r.call, answered)]
        /\ \A q \in Servers \ {s} : asked'[q] = asked[q]
    BY <1>3 DEF Ask, SweeperInv
  <2>2. Present(r.call, answered) = "absent" => r.call \notin attended[s]
    BY DEF Present, SweeperInv
  <2>3. SweeperInv'
    BY <1>1, <1>3, <2>1, <2>2 DEF Ask, SweeperInv, Present, rows
  <2>4. QED
    BY <1>1, <2>3
<1>4. CASE Defer(s) \/ Sweep(s)
  <2>1. Forward(s) /\ asked[s] # Nobody
    BY <1>4 DEF Defer, Sweep
  <2>2. asked[s].row.call \in Calls
    BY <2>1 DEF SweeperInv, Candidates
  <2>3. /\ call' \in [Calls -> Outcomes]
        /\ age' \in [Calls -> Nat] /\ seen' \in [Calls -> Nat]
    <3>1. CASE UNCHANGED rows
      BY <3>1 DEF rows, SweeperInv
    <3>2. CASE ~UNCHANGED rows
      <4>1. ClosesCall(asked[s].row.call, "swept")
        BY <1>4, <3>2 DEF Defer, Sweep
      <4>2. QED
        BY <2>2, <4>1, ClosesTypes
    <3>3. QED
      BY <3>1, <3>2
  <2>4. /\ asked'[s] = Nobody /\ \A q \in Servers \ {s} : asked'[q] = asked[q] /\ batch'[q] = batch[q]
        /\ \A q \in Servers \ {s} : attended'[q] = attended[q]
        /\ batch' \in [Servers -> SUBSET Candidates] /\ attended' \in [Servers -> SUBSET Active]
        /\ asked' = [q \in Servers |-> asked'[q]]
    BY <2>1 DEF Forward, SweeperInv
  <2>5. SweeperInv'
    BY <1>1, <2>3, <2>4 DEF SweeperInv
  <2>6. QED
    BY <1>1, <2>5
<1>5. QED
  BY <1>2, <1>3, <1>4 DEF Sweeps

LEMMA StepKeeps == FleetInv /\ [FleetNext]_fleetVars => FleetInv'
<1> SUFFICES ASSUME FleetInv, [FleetNext]_fleetVars PROVE FleetInv'
  OBVIOUS
<1>1. CASE UNCHANGED fleetVars
  BY <1>1 DEF fleetVars, worker, rows, sweeper, FleetInv, WorkerInv, SweeperInv, Active
<1>2. QED
  BY <1>1, WorkerSteps, RowSteps, SweeperSteps DEF FleetNext

-----------------------------------------------------------------------------
(* A worker never runs more jobs than its ceiling, counting the ones it has *)
(* accepted and not yet launched, as long as no job is launched after the    *)
(* worker gave up waiting for it (admission.ts).                            *)
THEOREM CeilingNeverPassed == FleetSpec => []CeilingHeld
<1>1. FleetInv => CeilingHeld
  <2>1. SUFFICES ASSUME FleetInv, Prompt
                 PROVE  Cardinality({c \in Calls : job[c] \in {"awaited", "active"}}) <= MaxJobs
    BY DEF CeilingHeld
  <2>2. {c \in Calls : job[c] \in {"awaited", "active"}} \subseteq Active \cup admitting
    BY <2>1 DEF FleetInv, WorkerInv, Active
  <2>3. Active \cup admitting \in SUBSET Calls /\ Cardinality(Active \cup admitting) <= MaxJobs
    BY <2>1 DEF FleetInv, WorkerInv, Active
  <2>4. QED
    BY <2>2, <2>3, FewerFit
<1>2. QED
  BY FleetInitially, StepKeeps, <1>1, PTL DEF FleetSpec

(* A step that hangs a call up as swept is the sweeper's that was at it.    *)
LEMMA WhoSweeps ==
    ASSUME FleetInv, FleetNext, NEW c \in Calls, call[c] = "open", call'[c] = "swept"
    PROVE  \E s \in Servers : Sweep(s) /\ asked[s].row.call = c
<1> USE DEF FleetInv
<1>1. ASSUME NEW d \in Calls, NEW how \in {"ended", "swept"}, ClosesCall(d, how)
      PROVE  d = c /\ how = "swept"
  BY <1>1, ClosesTypes
<1>2. ~\E d \in Calls : \/ Start(d) \/ Closed(d) \/ CallEnds(d) \/ TurnClaims(d)
                        \/ \E settles \in BOOLEAN : TurnCommits(d, settles)
  <2>1. ~\E d \in Calls : Start(d) \/ Closed(d) \/ CallEnds(d) \/ TurnClaims(d)
    BY <1>1 DEF Start, Closed, CallEnds, TurnClaims, rows, SweeperInv
  <2>2. ~\E d \in Calls : \E settles \in BOOLEAN : TurnCommits(d, settles)
    BY CommitTypes
  <2>3. QED
    BY <2>1, <2>2
<1>3. ~\E d \in Calls : \/ Accept(d) \/ PollDone(d) \/ GiveUp(d) \/ Crash(d)
                        \/ \E lost \in BOOLEAN : Launch(d, lost)
  BY DEF Accept, PollDone, GiveUp, Crash, Launch, rows
<1>4. ~Shutdown /\ ~\E lost \in SUBSET Active : Tick(lost)
  BY DEF Shutdown, Tick, rows
<1>5. PICK s \in Servers : Sweeps(s)
  BY <1>2, <1>3, <1>4 DEF FleetNext
<1>6. Sweep(s)
  BY <1>5 DEF Sweeps, Query, Defer, Ask, rows
<1>7. asked[s].row.call \in Calls
  BY <1>6 DEF Sweep, SweeperInv, Candidates
<1>8. QED
  BY <1>1, <1>6, <1>7 DEF Sweep, rows

(* A call whose agent was in the room from the moment a sweeper read it is   *)
(* hung up by that sweeper only after the long window without a sight of it, *)
(* however the media plane fails to answer (Sweeper.ts, MediaPlane.ts).     *)
THEOREM ServedCallsKept == FleetSpec => ServedCallKept
<1>1. ASSUME FleetInv, [FleetNext]_fleetVars, NEW c \in Calls, NEW s \in Servers,
             call[c] = "open", call'[c] = "swept", asked[s] # asked'[s], c \in attended[s]
      PROVE  asked[s].row.stale >= Unconfirmed
  <2>1. FleetNext
    BY <1>1 DEF fleetVars, rows
  <2>2. PICK r \in Servers : Sweep(r) /\ asked[r].row.call = c
    BY <1>1, <2>1, WhoSweeps
  <2>3. r = s
    BY <1>1, <2>2 DEF Sweep, Forward, FleetInv, SweeperInv
  <2>4. asked[s].answer = "unknown"
    BY <1>1, <2>2, <2>3 DEF Sweep, Deferred, FleetInv, SweeperInv
  <2>5. asked[s].row.stale \in Nat
    BY <2>2, <2>3, <1>1 DEF Sweep, FleetInv, SweeperInv, Candidates
  <2>6. ~(asked[s].row.stale < Unconfirmed)
    BY <2>2, <2>3, <2>4 DEF Sweep, Deferred
  <2>7. QED
    BY <2>5, <2>6
<1>2. ASSUME FleetInv, [FleetNext]_fleetVars
      PROVE  \A c \in Calls, s \in Servers :
               call[c] = "open" /\ call'[c] = "swept" /\ asked[s] # asked'[s] /\ c \in attended[s]
                  => asked[s].row.stale >= Unconfirmed
  BY <1>1, <1>2
<1>3. QED
  BY FleetInitially, StepKeeps, <1>2, PTL DEF FleetSpec, ServedCallKept

(* A closed call never opens again and no sweeper replaces its outcome; only *)
(* the turn claimed before it closed may, and once that turn is through the  *)
(* outcome stays (Sweeper.ts, Orchestrator.ts).                             *)
THEOREM ClosedForGood == FleetSpec => ClosedOnce
<1>1. ASSUME FleetInv, [FleetNext]_fleetVars, NEW c \in Calls, call[c] \in {"ended", "swept", "revised"}
      PROVE  /\ call'[c] \in {call[c], "revised"}
             /\ c \notin claimed => call'[c] = call[c] /\ c \notin claimed'
  <2> USE <1>1 DEF FleetInv
  <2>1. ASSUME NEW d \in Calls, NEW how \in {"ended", "swept"}, ClosesCall(d, how), call[d] = "open"
        PROVE  call'[c] = call[c] /\ claimed' = claimed
    BY <2>1, ClosesTypes
  <2>2. CASE \E d \in Calls : Start(d) \/ Closed(d) \/ CallEnds(d)
    BY <2>1, <2>2 DEF Start, Closed, CallEnds, rows, SweeperInv
  <2>3. CASE \E d \in Calls : \/ Accept(d) \/ PollDone(d) \/ GiveUp(d) \/ Crash(d)
                              \/ \E lost \in BOOLEAN : Launch(d, lost)
    BY <2>3 DEF Accept, PollDone, GiveUp, Crash, Launch, rows
  <2>4. CASE Shutdown \/ \E lost \in SUBSET Active : Tick(lost)
    BY <2>4 DEF Shutdown, Tick, rows
  <2>5. ASSUME NEW s \in Servers, Sweeps(s)
        PROVE  call'[c] = call[c] /\ claimed' = claimed
    <3>1. CASE Sweep(s)
      <4>1. asked[s].row.call \in Calls
        BY <3>1 DEF Sweep, SweeperInv, Candidates
      <4>2. QED
        BY <2>1, <3>1, <4>1 DEF Sweep, StillOpen, rows
    <3>2. CASE ~Sweep(s)
      BY <2>5, <3>2 DEF Sweeps, Query, Defer, Ask, rows
    <3>3. QED
      BY <3>1, <3>2
  <2>6. CASE UNCHANGED fleetVars
    BY <2>6 DEF fleetVars, rows
  <2>7. CASE \E d \in Calls : TurnClaims(d)
    BY <2>7 DEF TurnClaims
  <2>8. CASE \E d \in Calls : \E settles \in BOOLEAN : TurnCommits(d, settles)
    <3>1. PICK d \in Calls : \E settles \in BOOLEAN : TurnCommits(d, settles)
      BY <2>8
    <3>2. QED
      BY <3>1, CommitTypes
  <2>9. QED
    BY <2>2, <2>3, <2>4, <2>5, <2>6, <2>7, <2>8 DEF FleetNext
<1>2. ASSUME FleetInv, [FleetNext]_fleetVars
      PROVE  \A c \in Calls : call[c] \in {"ended", "swept", "revised"} =>
               /\ call'[c] \in {call[c], "revised"}
               /\ c \notin claimed => call'[c] = call[c] /\ c \notin claimed'
  BY <1>1, <1>2
<1>3. QED
  BY FleetInitially, StepKeeps, <1>2, PTL DEF FleetSpec, ClosedOnce

HIDE FleetAssumptions

-----------------------------------------------------------------------------
(* VoiceCall: one call.                                                     *)

USE Assumptions, AnswersAssumption

Kinds == {"opening", "voicemail", "nudge", "last", "reply", "say", "fallback"}
OfTurns == {"reply", "say", "fallback"}
Lines == [kind : Kinds, turn : TurnIds \cup {0}, soft : BOOLEAN,
          st : {"queued", "speaking", "over"},
          heard : {"none", "full", "stalled", "cut", "dropped"}]
TurnNotes == [open : BOOLEAN, audio : BOOLEAN, cut : BOOLEAN]
StreamRows == [attached : BOOLEAN, rest : Seq(Frames \cup {"superseded"}), text : BOOLEAN,
               answered : BOOLEAN, late : BOOLEAN, reply : Nat]

TypeOK ==
  /\ phase \in {"dialing", "talking", "voicemail", "closed"}
  /\ speech \in Seq(Lines)
  /\ open \in Seq(Nat)
  /\ turns \in [TurnIds -> TurnNotes]
  /\ streams \in [TurnIds -> StreamRows]
  /\ agentListening \in BOOLEAN /\ userListening \in BOOLEAN /\ armed \in BOOLEAN
  /\ probes \in Nat /\ over \in BOOLEAN
  /\ endRequested \in BOOLEAN /\ drained \in BOOLEAN
  /\ reports \in Seq([segment : Nat, full : BOOLEAN])
  /\ metered \in [TurnIds -> Nat]

(* A turn has one reply, turns begin one after another, and nothing is noted  *)
(* of one that has not begun.                                              *)
LinesOfTurns ==
  /\ \A i \in Speeches : speech[i].kind \in OfTurns => speech[i].turn \in Begun
  /\ \A i \in Speeches : speech[i].kind = "reply" => streams[speech[i].turn].reply = i
  /\ \A t \in Begun : LET i == streams[t].reply
                      IN  i \in Speeches /\ speech[i].kind = "reply" /\ speech[i].turn = t
  /\ \E n \in Nat : Begun = 1..n
  /\ \A t \in TurnIds \ Begun : ~turns[t].open /\ metered[t] = 0

(* What was heard of a line is known once it is over, and only a line with    *)
(* words is heard.                                                         *)
SpokenHasText ==
  \A i \in Speeches :
     /\ speech[i].heard # "none" => speech[i].st = "over"
     /\ speech[i].st = "speaking" \/ speech[i].heard = "full" => HasText(i)

(* A segment is open, and then not played to its end, or reported once.      *)
ReportsOnce ==
  /\ \A a, b \in DOMAIN open : open[a] = open[b] => a = b
  /\ \A k \in DOMAIN open : open[k] \in Segments /\ speech[open[k]].heard # "full"
  /\ \A k \in DOMAIN reports : reports[k].segment \in Segments /\ ~IsOpen(reports[k].segment)
  /\ \A i \in Segments : ~IsOpen(i) => \E k \in DOMAIN reports : reports[k].segment = i
  /\ \A k, l \in DOMAIN reports : reports[k].segment = reports[l].segment => k = l

(* A line that was played to its end and is reported unheard, or is reported  *)
(* before it is over, is one the end of the call did not wait for.          *)
ReportsWaited ==
  /\ drained => endRequested
  /\ endRequested => waiting \subseteq Speeches
  /\ drained => \A i \in waiting : speech[i].st = "over"
  /\ \A k \in DOMAIN reports :
       LET i == reports[k].segment
       IN  speech[i].st # "over" \/ (speech[i].heard = "full" /\ ~reports[k].full)
             => drained /\ i \notin waiting

MeteredOnce == \A t \in TurnIds : metered[t] <= 1 /\ (turns[t].open => metered[t] = 0)

(* When the last line is over the agent listens, and while both listen and    *)
(* nothing is asked the clock runs.                                        *)
AllOver == \A i \in Speeches : speech[i].st = "over"
ClockRuns ==
  /\ phase = "talking" /\ AllOver => agentListening
  /\ phase = "talking" /\ AllOver /\ ~endRequested /\ probes = 0 /\ userListening => armed

VoiceInv ==
  /\ TypeOK /\ LinesOfTurns /\ SpokenHasText /\ ReportsOnce /\ HeardIsTrue /\ ReportsWaited
  /\ MeteredOnce /\ ClockRuns

LEMMA Initially == Init => VoiceInv
<1> SUFFICES ASSUME Init PROVE VoiceInv
  OBVIOUS
<1>0. <<>> \in Seq(Frames \cup {"superseded"})
  OBVIOUS
<1>1. TypeOK
  <2>1. turns \in [TurnIds -> TurnNotes]
    BY DEF Init, NoTurn, TurnNotes
  <2>2. streams \in [TurnIds -> StreamRows]
    BY <1>0 DEF Init, NoStream, StreamRows
  <2>3. metered \in [TurnIds -> Nat]
    BY DEF Init
  <2>4. speech \in Seq(Lines) /\ open \in Seq(Nat) /\ reports \in Seq([segment : Nat, full : BOOLEAN])
    BY DEF Init
  <2>5. QED
    BY <2>1, <2>2, <2>3, <2>4 DEF Init, TypeOK
<1>2. Begun = {} /\ Speeches = {} /\ Segments = {}
  BY DEF Init, Begun, Speeches, Segments, NoStream
<1>3. Begun = 1..0
  BY <1>2
<1>4. LinesOfTurns
  BY <1>2, <1>3 DEF Init, LinesOfTurns, NoTurn
<1>5. QED
  BY <1>1, <1>2, <1>4 DEF Init, VoiceInv, SpokenHasText, ReportsOnce, HeardIsTrue, ReportsWaited,
                          MeteredOnce, ClockRuns, AllOver, NoTurn

-----------------------------------------------------------------------------
(* Types.                                                                  *)

LEMMA LineChanged ==
    ASSUME TypeOK, NEW i \in Speeches, NEW x \in Lines, speech' = [speech EXCEPT ![i] = x]
    PROVE  /\ speech' \in Seq(Lines) /\ Speeches' = Speeches
           /\ speech'[i] = x
           /\ \A j \in Speeches \ {i} : speech'[j] = speech[j]
<1>1. speech \in Seq(Lines) /\ i \in 1..Len(speech) /\ speech[i] \in Lines
  BY DEF TypeOK, Speeches
<1>2. [speech EXCEPT ![i] = x] \in Seq(Lines)
  BY <1>1, ExceptSeq
<1>3. DOMAIN speech' = DOMAIN speech /\ \A j \in DOMAIN speech : speech'[j] = IF j = i THEN x ELSE speech[j]
  OBVIOUS
<1>4. QED
  BY <1>1, <1>2, <1>3 DEF Speeches

LEMMA Said ==
    ASSUME TypeOK, NEW kind \in Kinds, NEW t \in TurnIds \cup {0}, NEW soft \in BOOLEAN,
           Say(kind, t, soft)
    PROVE  /\ speech' \in Seq(Lines)
           /\ Len(speech) \in Nat
           /\ Speeches = 1..Len(speech) /\ Speeches' = 1..(Len(speech) + 1)
           /\ \A i \in Speeches : speech'[i] = speech[i]
           /\ speech'[Len(speech) + 1] = Line(kind, t, soft)
<1>1. Line(kind, t, soft) \in Lines
  BY DEF Line, Lines
<1>2. speech \in Seq(Lines) /\ speech' = Append(speech, Line(kind, t, soft))
  BY DEF TypeOK, Say
<1> HIDE DEF Line
<1>3. QED
  BY <1>1, <1>2, AppendProperties DEF Speeches

LEMMA ClosedTyped ==
    ASSUME NEW ts \in [TurnIds -> TurnNotes], NEW set, metered \in [TurnIds -> Nat], CloseTurns(ts, set)
    PROVE  /\ turns' \in [TurnIds -> TurnNotes]
           /\ metered' \in [TurnIds -> Nat]
           /\ \A t \in TurnIds : turns'[t].open => ts[t].open
           /\ \A t \in TurnIds : \/ metered'[t] = metered[t]
                                 \/ metered'[t] = metered[t] + 1 /\ ts[t].open /\ ~turns'[t].open
BY DEF CloseTurns, NoTurn, TurnNotes

(* Map.delete: the rest stays, in its order.                                *)
LEMMA WithoutFacts ==
    ASSUME TypeOK, NEW i, IsOpen(i),
           \A a, b \in DOMAIN open : open[a] = open[b] => a = b
    PROVE  LET less == Without(i)
           IN  /\ less \in Seq(Nat)
               /\ \A a, b \in DOMAIN less : less[a] = less[b] => a = b
               /\ \A a \in DOMAIN less : less[a] # i /\ \E b \in DOMAIN open : less[a] = open[b]
               /\ \A b \in DOMAIN open : open[b] # i => \E a \in DOMAIN less : less[a] = open[b]
<1> DEFINE less == Without(i)
           k == Place(i)
           n == Len(open)
<1>1. open \in Seq(Nat) /\ n \in Nat /\ DOMAIN open = 1..n /\ \A a \in 1..n : open[a] \in Nat
  BY DEF TypeOK
<1>2. k \in 1..n /\ open[k] = i
  BY <1>1 DEF Place, IsOpen
<1>3. n - 1 \in Nat /\ k \in Nat /\ \A a \in 1..(n - 1) : a \in 1..n /\ a + 1 \in 1..n
  BY <1>1, <1>2
<1>4. less = [a \in 1..(n - 1) |-> IF a < k THEN open[a] ELSE open[a + 1]]
  BY DEF Without
<1> HIDE DEF less, k, n
<1>5. less \in Seq(Nat) /\ DOMAIN less = 1..(n - 1)
  <2>1. less \in [1..(n - 1) -> Nat]
    BY <1>1, <1>3, <1>4
  <2>2. QED
    BY <1>3, <2>1
<1> DEFINE at(a) == IF a < k THEN a ELSE a + 1
<1>a. ASSUME NEW a \in DOMAIN less
      PROVE  at(a) \in 1..n /\ at(a) # k /\ less[a] = open[at(a)]
  BY <1>2, <1>3, <1>4, <1>5, <1>a
<1>b. \A a, b \in DOMAIN less : at(a) = at(b) => a = b
  BY <1>3, <1>5
<1>c. ASSUME NEW b \in 1..n, b # k PROVE \E a \in DOMAIN less : at(a) = b
  <2>1. CASE b < k
    <3>1. b \in DOMAIN less /\ at(b) = b
      BY <1>1, <1>2, <1>3, <1>5, <2>1
    <3>2. QED
      BY <3>1
  <2>2. CASE b > k
    <3>1. b - 1 \in DOMAIN less /\ at(b - 1) = b
      BY <1>1, <1>2, <1>3, <1>5, <2>2
    <3>2. QED
      BY <3>1
  <2>3. QED
    BY <1>1, <1>2, <1>3, <1>c, <2>1, <2>2
<1> HIDE DEF at
<1>6. ASSUME NEW a \in DOMAIN less, NEW b \in DOMAIN less, less[a] = less[b] PROVE a = b
  BY <1>1, <1>a, <1>b, <1>6
<1>7. ASSUME NEW a \in DOMAIN less PROVE less[a] # i /\ \E b \in DOMAIN open : less[a] = open[b]
  BY <1>1, <1>2, <1>a, <1>7
<1>8. ASSUME NEW b \in DOMAIN open, open[b] # i PROVE \E a \in DOMAIN less : less[a] = open[b]
  BY <1>1, <1>2, <1>a, <1>c, <1>8
<1>9. QED
  BY <1>5, <1>6, <1>7, <1>8 DEF less

-----------------------------------------------------------------------------
(* What a step does to the types, part by part.                             *)

LEMMA NoteTyped ==
    ASSUME TypeOK, NEW agent \in BOOLEAN, NEW user \in BOOLEAN, Note(agent, user)
    PROVE  agentListening' \in BOOLEAN /\ userListening' \in BOOLEAN /\ armed' \in BOOLEAN
BY DEF TypeOK, Note, Armed

LEMMA DeliverTyped ==
    ASSUME TypeOK, ReportsOnce, NEW i \in Speeches, NEW interrupted \in BOOLEAN, Deliver(i, interrupted)
    PROVE  /\ open' \in Seq(Nat)
           /\ turns' \in [TurnIds -> TurnNotes] /\ metered' = metered
           /\ \A t \in TurnIds : turns'[t].open = turns[t].open
           /\ reports' \in Seq([segment : Nat, full : BOOLEAN])
<1>1. i \in Nat /\ speech[i] \in Lines
  BY DEF TypeOK, Speeches
<1>2. CASE IsOpen(i)
  <2> DEFINE full == Heard(i, interrupted)
  <2>1. /\ open' = Without(i) /\ turns' = Closing(turns, i, full)
        /\ reports' = Append(reports, Report(i, full)) /\ metered' = metered
    BY <1>2 DEF Deliver, IsOpen
  <2>2. full \in BOOLEAN
    BY DEF Heard
  <2> HIDE DEF full
  <2>3. open' \in Seq(Nat)
    BY <1>2, <2>1, WithoutFacts DEF ReportsOnce
  <2>4. /\ turns' \in [TurnIds -> TurnNotes] 
        /\ \A t \in TurnIds : turns'[t].open = turns[t].open
    BY <1>1, <2>1, ZenonT(30) DEF Closing, TypeOK, TurnNotes, Lines
  <2>5. reports' \in Seq([segment : Nat, full : BOOLEAN])
    BY <1>1, <2>1, <2>2 DEF Report, TypeOK
  <2>6. QED
    BY <2>1, <2>3, <2>4, <2>5
<1>3. CASE ~IsOpen(i)
  BY <1>3 DEF Deliver, IsOpen, ledger, TypeOK
<1>4. QED
  BY <1>2, <1>3

LEMMA SynthesisedTyped ==
    ASSUME TypeOK, NEW i \in Speeches, Synthesised(i)
    PROVE  /\ turns' \in [TurnIds -> TurnNotes]
           /\ \A t \in TurnIds : turns'[t].open = turns[t].open
<1>1. speech[i] \in Lines
  BY DEF TypeOK, Speeches
<1>2. QED
  BY <1>1, ZenonT(30) DEF Lines, Synthesised, TypeOK, TurnNotes

LEMMA DrainTyped ==
    ASSUME TypeOK, Drain
    PROVE  /\ open' = <<>>
           /\ turns' \in [TurnIds -> TurnNotes] /\ metered' \in [TurnIds -> Nat]
           /\ \A t \in TurnIds : turns'[t].open => turns[t].open
           /\ \A t \in TurnIds : \/ metered'[t] = metered[t]
                                 \/ metered'[t] = metered[t] + 1 /\ turns[t].open /\ ~turns'[t].open
           /\ reports' \in Seq([segment : Nat, full : BOOLEAN])
           /\ Len(reports') = Len(reports) + Len(open)
           /\ \A k \in 1..Len(reports) : reports'[k] = reports[k]
           /\ \A k \in 1..Len(open) : reports'[Len(reports) + k] = Report(open[k], FALSE)
<1> DEFINE mute == [t \in TurnIds |->
                 IF turns[t].open /\ \E k \in DOMAIN open : speech[open[k]].turn = t
                   THEN [turns[t] EXCEPT !.cut = TRUE] ELSE turns[t]]
           last == [k \in DOMAIN open |-> Report(open[k], FALSE)]
           R == [segment : Nat, full : BOOLEAN]
<1>1. open' = <<>> /\ reports' = reports \o last /\ CloseTurns(mute, TurnIds)
  BY DEF Drain
<1>2. mute \in [TurnIds -> TurnNotes] /\ \A t \in TurnIds : mute[t].open = turns[t].open
  BY DEF TypeOK, TurnNotes
<1>3. last \in Seq(R) /\ Len(last) = Len(open) /\ \A k \in 1..Len(open) : last[k] = Report(open[k], FALSE)
  <2>1. open \in Seq(Nat) /\ DOMAIN open = 1..Len(open) /\ Len(open) \in Nat
    BY DEF TypeOK
  <2>2. last \in [1..Len(open) -> R]
    BY <2>1 DEF Report
  <2>3. \A k \in 1..Len(open) : last[k] = Report(open[k], FALSE)
    BY <2>1
  <2> HIDE DEF last, R
  <2>4. last \in Seq(R) /\ Len(last) = Len(open)
    BY <2>1, <2>2
  <2>5. QED
    BY <2>3, <2>4
<1>4. reports \in Seq(R) /\ open \in Seq(Nat) /\ metered \in [TurnIds -> Nat]
  BY DEF TypeOK
<1> HIDE DEF mute, last, R
<1>5. /\ turns' \in [TurnIds -> TurnNotes] /\ metered' \in [TurnIds -> Nat]
      /\ \A t \in TurnIds : turns'[t].open => turns[t].open
      /\ \A t \in TurnIds : \/ metered'[t] = metered[t]
                            \/ metered'[t] = metered[t] + 1 /\ turns[t].open /\ ~turns'[t].open
  BY <1>1, <1>2, <1>4, ClosedTyped
<1>6. /\ reports' \in Seq(R) /\ Len(reports') = Len(reports) + Len(last)
      /\ \A k \in 1..Len(reports) + Len(last) :
           reports'[k] = IF k <= Len(reports) THEN reports[k] ELSE last[k - Len(reports)]
  BY <1>1, <1>3, <1>4, ConcatProperties, ZenonT(30)
<1>7. Len(reports) \in Nat /\ Len(open) \in Nat
  BY <1>4
<1>8. \A k \in 1..Len(reports) : reports'[k] = reports[k]
  BY <1>3, <1>6, <1>7
<1>9. ASSUME NEW k \in 1..Len(open) PROVE reports'[Len(reports) + k] = Report(open[k], FALSE)
  <2>1. /\ Len(reports) + k \in 1..Len(reports) + Len(last) /\ ~(Len(reports) + k <= Len(reports))
        /\ (Len(reports) + k) - Len(reports) = k
    BY <1>3, <1>7
  <2>2. QED
    BY <1>3, <1>6, <2>1
<1>10. QED
  BY <1>1, <1>3, <1>5, <1>6, <1>8, <1>9 DEF R

LEMMA StreamsTyped ==
    ASSUME TypeOK, NEW t \in TurnIds, NEW attached \in BOOLEAN, NEW text \in BOOLEAN,
           NEW answered \in BOOLEAN, NEW rest \in Seq(Frames \cup {"superseded"}),
           streams' = [streams EXCEPT ![t] = [streams[t] EXCEPT !.attached = attached, !.text = text,
                                                !.answered = answered, !.rest = rest]]
    PROVE  /\ streams' \in [TurnIds -> StreamRows]
           /\ \A u \in TurnIds : streams'[u].reply = streams[u].reply
           /\ \A u \in TurnIds : u # t => streams'[u].text = streams[u].text
           /\ streams'[t].text = text
BY ZenonT(30) DEF TypeOK, StreamRows

LEMMA TailTyped ==
    ASSUME TypeOK, NEW t \in TurnIds, Take(t)
    PROVE  /\ streams' \in [TurnIds -> StreamRows]
           /\ \A u \in TurnIds : streams'[u].reply = streams[u].reply /\ streams'[u].text = streams[u].text
<1> DEFINE rest == Tail(streams[t].rest)
           attached == rest # <<>>
<1>1. streams[t] \in StreamRows
  BY DEF TypeOK
<1>2. rest \in Seq(Frames \cup {"superseded"}) /\ attached \in BOOLEAN
  BY <1>1 DEF Take, StreamRows
<1>3. streams' = [streams EXCEPT ![t].rest = rest, ![t].attached = attached]
  BY DEF Take
<1> HIDE DEF rest, attached
<1>4. QED
  BY <1>1, <1>2, <1>3 DEF TypeOK, StreamRows

LEMMA AnswerTyped ==
    ASSUME TypeOK, NEW t \in TurnIds, NEW fs \in Answers, ServerAnswers(t, fs)
    PROVE  /\ streams' \in [TurnIds -> StreamRows]
           /\ \A u \in TurnIds : streams'[u].reply = streams[u].reply /\ streams'[u].text = streams[u].text
<1>1. streams[t].rest \in Seq(Frames \cup {"superseded"}) /\ fs \in Seq(Frames \cup {"superseded"})
  BY DEF TypeOK, StreamRows
<1>2. Reads(t, fs) \in Seq(Frames \cup {"superseded"})
  BY <1>1 DEF Reads
<1>3. streams' = [streams EXCEPT ![t].answered = TRUE, ![t].rest = Reads(t, fs)]
  BY DEF ServerAnswers
<1>4. QED
  BY <1>2, <1>3, ZenonT(30) DEF TypeOK, StreamRows

LEMMA CancelTyped ==
    ASSUME TypeOK, NEW t \in TurnIds, streams' = Cancelled(t)
    PROVE  /\ streams' \in [TurnIds -> StreamRows]
           /\ \A u \in TurnIds : streams'[u].reply = streams[u].reply /\ streams'[u].text = streams[u].text
<1>1. <<>> \in Seq(Frames \cup {"superseded"})
  OBVIOUS
<1>2. QED
  BY <1>1, ZenonT(30) DEF TypeOK, StreamRows, Cancelled

LEMMA TurnTyped ==
    ASSUME TypeOK, NEW t \in TurnIds, Turn(t)
    PROVE  /\ streams' \in [TurnIds -> StreamRows]
           /\ \A u \in TurnIds \ {t} : streams'[u].reply = streams[u].reply /\ streams'[u].text = streams[u].text
           /\ streams'[t].reply = Len(speech) + 1 /\ streams'[t].text = FALSE
           /\ turns' \in [TurnIds -> TurnNotes] /\ metered' \in [TurnIds -> Nat]
           /\ \A u \in TurnIds \ {t} : turns'[u].open => turns[u].open
           /\ \A u \in TurnIds \ {t} : \/ metered'[u] = metered[u]
                                       \/ metered'[u] = metered[u] + 1 /\ turns[u].open /\ ~turns'[u].open
           /\ metered'[t] = metered[t]
<1> DEFINE row(u) == IF u = t THEN [NoStream EXCEPT !.attached = TRUE, !.late = over, !.reply = Len(speech) + 1]
       ELSE IF u \in Begun /\ ~streams[u].answered /\ ~over
         THEN [streams[u] EXCEPT !.answered = TRUE,
                 !.rest = IF streams[u].attached THEN streams[u].rest \o <<"superseded">> ELSE streams[u].rest]
       ELSE streams[u]
<1>1. streams' = [u \in TurnIds |-> row(u)] /\ BeginTurn(t)
  BY DEF Turn
<1>2. Len(speech) + 1 \in Nat /\ over \in BOOLEAN
  BY DEF TypeOK
<1>3. ASSUME NEW u \in TurnIds PROVE row(u) \in StreamRows
  <2>1. streams[u] \in StreamRows /\ <<>> \in Seq(Frames \cup {"superseded"})
        /\ <<"superseded">> \in Seq(Frames \cup {"superseded"})
    BY DEF TypeOK
  <2>2. streams[u].rest \o <<"superseded">> \in Seq(Frames \cup {"superseded"})
    BY <2>1 DEF StreamRows
  <2>3. QED
    BY <1>2, <2>1, <2>2 DEF StreamRows, NoStream
<1>4. ASSUME NEW u \in TurnIds \ {t} PROVE row(u).reply = streams[u].reply /\ row(u).text = streams[u].text
  BY DEF TypeOK, StreamRows
<1>5. row(t).reply = Len(speech) + 1 /\ row(t).text = FALSE
  BY DEF NoStream
<1> HIDE DEF row
<1>6. /\ streams' \in [TurnIds -> StreamRows]
      /\ \A u \in TurnIds : streams'[u] = row(u)
  BY <1>1, <1>3
<1> DEFINE fresh == [turns EXCEPT ![t] = [NoTurn EXCEPT !.open = TRUE]]
<1>7. fresh \in [TurnIds -> TurnNotes] /\ \A u \in TurnIds \ {t} : fresh[u] = turns[u]
  BY DEF TypeOK, TurnNotes, NoTurn
<1>8. CloseTurns(fresh, TurnIds \ {t}) /\ metered \in [TurnIds -> Nat]
  BY <1>1 DEF BeginTurn, TypeOK
<1> HIDE DEF fresh
<1>9. /\ turns' \in [TurnIds -> TurnNotes] /\ metered' \in [TurnIds -> Nat]
      /\ \A u \in TurnIds \ {t} : turns'[u].open => turns[u].open
      /\ \A u \in TurnIds \ {t} : \/ metered'[u] = metered[u]
                                  \/ metered'[u] = metered[u] + 1 /\ turns[u].open /\ ~turns'[u].open
  BY <1>7, <1>8, ClosedTyped
<1>10. metered'[t] = metered[t]
  BY <1>8 DEF CloseTurns
<1>11. QED
  BY <1>4, <1>5, <1>6, <1>9, <1>10

-----------------------------------------------------------------------------
(* Steps that give the framework no new line: what they leave as it is.      *)

(* A line keeps its kind and its turn, and one that is over keeps all.       *)
LinesStay ==
  /\ speech' \in Seq(Lines) /\ Speeches' = Speeches
  /\ \A i \in Speeches :
       /\ speech'[i].kind = speech[i].kind /\ speech'[i].turn = speech[i].turn
       /\ speech[i].st = "over" => speech'[i] = speech[i]
       /\ speech'[i].heard # "none" => speech'[i].st = "over"
       /\ speech'[i].st = "speaking" \/ speech'[i].heard = "full" => HasText(i)

(* The words of a stream that have come stay.                              *)
StreamsStay ==
  /\ streams' \in [TurnIds -> StreamRows]
  /\ \A t \in TurnIds : streams'[t].reply = streams[t].reply /\ streams'[t].text = streams[t].text

(* The notes of a turn may be closed, and then its numbers go out.           *)
NotesStay ==
  /\ turns' \in [TurnIds -> TurnNotes] /\ metered' \in [TurnIds -> Nat]
  /\ \A t \in TurnIds : turns'[t].open => turns[t].open
  /\ \A t \in TurnIds : \/ metered'[t] = metered[t]
                        \/ metered'[t] = metered[t] + 1 /\ turns[t].open /\ ~turns'[t].open

LEMMA LinesUnchanged ==
    ASSUME TypeOK, SpokenHasText, UNCHANGED speech
    PROVE  LinesStay
BY DEF TypeOK, SpokenHasText, LinesStay, Speeches

LEMMA StreamsUnchanged == ASSUME TypeOK, UNCHANGED streams PROVE StreamsStay
BY DEF TypeOK, StreamsStay

LEMMA NotesUnchanged == ASSUME TypeOK, UNCHANGED <<turns, metered>> PROVE NotesStay
BY DEF TypeOK, NotesStay

LEMMA LineMoves ==
    ASSUME TypeOK, SpokenHasText, NEW i \in Speeches, speech[i].st # "over",
           NEW st \in {"queued", "speaking", "over"},
           NEW heard \in {"none", "full", "stalled", "cut", "dropped"},
           speech' = [speech EXCEPT ![i] = [speech[i] EXCEPT !.st = st, !.heard = heard]],
           heard # "none" => st = "over",
           st = "speaking" \/ heard = "full" => HasText(i)
    PROVE  /\ LinesStay
           /\ speech'[i] = [speech[i] EXCEPT !.st = st, !.heard = heard]
           /\ \A j \in Speeches \ {i} : speech'[j] = speech[j]
<1> DEFINE x == [speech[i] EXCEPT !.st = st, !.heard = heard]
<1>1. speech[i] \in Lines
  BY DEF TypeOK, Speeches
<1>2. /\ x \in Lines /\ x.kind = speech[i].kind /\ x.turn = speech[i].turn
      /\ x.st = st /\ x.heard = heard
  BY <1>1 DEF Lines
<1> HIDE DEF x
<1>3. /\ speech' \in Seq(Lines) /\ Speeches' = Speeches /\ speech'[i] = x
      /\ \A j \in Speeches \ {i} : speech'[j] = speech[j]
  BY <1>2, LineChanged DEF x
<1>4. LinesStay
  BY <1>2, <1>3 DEF LinesStay, SpokenHasText
<1>5. QED
  BY <1>3, <1>4 DEF x

LEMMA SpeechStartsKeeps ==
    ASSUME VoiceInv, NEW i \in Speeches, NEW voiced \in BOOLEAN, SpeechStarts(i, voiced)
    PROVE  /\ LinesStay /\ StreamsStay /\ NotesStay /\ ~AllOver' /\ UNCHANGED <<open, reports>>
           /\ \A j \in Speeches : speech'[j].heard = speech[j].heard
<1>1. TypeOK /\ SpokenHasText
  BY DEF VoiceInv
<1>2. speech[i] \in Lines /\ speech[i].heard = "none" /\ speech[i].st = "queued" /\ HasText(i)
  BY <1>1 DEF SpeechStarts, TypeOK, SpokenHasText, Speeches
<1>3. speech' = [speech EXCEPT ![i] = [speech[i] EXCEPT !.st = "speaking", !.heard = "none"]]
  BY <1>2 DEF SpeechStarts, Lines
<1>4. /\ LinesStay
      /\ speech'[i] = [speech[i] EXCEPT !.st = "speaking", !.heard = "none"]
      /\ \A j \in Speeches \ {i} : speech'[j] = speech[j]
  BY <1>1, <1>2, <1>3, LineMoves
<1>5. NotesStay
  <2>1. CASE voiced
    BY <1>1, <2>1, SynthesisedTyped DEF SpeechStarts, NotesStay, TypeOK
  <2>2. CASE ~voiced
    BY <1>1, <2>2 DEF SpeechStarts, NotesStay, TypeOK
  <2>3. QED
    BY <2>1, <2>2
<1>6. ~AllOver' /\ \A j \in Speeches : speech'[j].heard = speech[j].heard
  BY <1>2, <1>4 DEF AllOver, LinesStay, Lines
<1>7. QED
  BY <1>1, <1>4, <1>5, <1>6, StreamsUnchanged DEF SpeechStarts

LEMMA ReplySynthesisedKeeps ==
    ASSUME VoiceInv, NEW i \in Speeches, ReplySynthesised(i)
    PROVE  LinesStay /\ StreamsStay /\ NotesStay
<1>1. TypeOK /\ SpokenHasText
  BY DEF VoiceInv
<1>2. NotesStay
  BY <1>1, SynthesisedTyped DEF ReplySynthesised, NotesStay, TypeOK
<1>3. QED
  BY <1>1, <1>2, LinesUnchanged, StreamsUnchanged DEF ReplySynthesised

LEMMA DeliverKeeps ==
    ASSUME VoiceInv, NEW i \in Speeches, NEW interrupted \in BOOLEAN, Deliver(i, interrupted)
    PROVE  NotesStay
<1>1. TypeOK /\ ReportsOnce
  BY DEF VoiceInv
<1>2. QED
  BY <1>1, DeliverTyped DEF NotesStay, TypeOK

LEMMA OverKeeps ==
    ASSUME VoiceInv, NEW i \in Speeches, speech[i].st # "over",
           NEW heard \in {"none", "full", "stalled", "cut"}, Over(i, heard),
           heard = "full" => HasText(i)
    PROVE  /\ LinesStay
           /\ speech'[i].st = "over" /\ speech'[i].heard = heard
           /\ \A j \in Speeches \ {i} : speech'[j] = speech[j]
           /\ AllOver' => agentListening'
           /\ userListening' = userListening
           /\ armed' = Armed(endRequested, agentListening', userListening)
<1>1. TypeOK /\ SpokenHasText
  BY DEF VoiceInv
<1>2. speech[i] \in Lines
  BY <1>1 DEF TypeOK, Speeches
<1>3. speech' = [speech EXCEPT ![i] = [speech[i] EXCEPT !.st = "over", !.heard = heard]]
  BY <1>2 DEF Over, Lines
<1>4. /\ LinesStay
      /\ speech'[i] = [speech[i] EXCEPT !.st = "over", !.heard = heard]
      /\ \A j \in Speeches \ {i} : speech'[j] = speech[j]
  BY <1>1, <1>2, <1>3, LineMoves
<1>5. speech'[i].st = "over" /\ speech'[i].heard = heard
  BY <1>2, <1>4 DEF Lines
<1>6. AllOver' => \A j \in Speeches \ {i} : speech[j].st = "over"
  BY <1>4 DEF AllOver, LinesStay
<1>7. QED
  BY <1>4, <1>5, <1>6 DEF Over, Note

LEMMA DrainKeeps ==
    ASSUME VoiceInv, Drain
    PROVE  NotesStay
BY DrainTyped DEF VoiceInv, NotesStay

LEMMA SessionClosesKeeps ==
    ASSUME VoiceInv, SessionCloses
    PROVE  /\ LinesStay /\ StreamsStay /\ NotesStay /\ UNCHANGED <<open, reports>>
           /\ \A i \in Speeches : speech'[i].heard = "full" <=> speech[i].heard = "full"
<1>1. TypeOK /\ SpokenHasText
  BY DEF VoiceInv
<1> DEFINE row(i) == IF speech[i].st = "over" THEN speech[i]
                     ELSE [speech[i] EXCEPT !.st = "over", !.heard = "dropped"]
<1>2. ASSUME NEW i \in Speeches
      PROVE  /\ row(i) \in Lines /\ row(i).kind = speech[i].kind /\ row(i).turn = speech[i].turn
             /\ row(i).st = "over" /\ (speech[i].st = "over" => row(i) = speech[i])
             /\ (row(i).heard = "full" => HasText(i))
             /\ (row(i).heard = "full" <=> speech[i].heard = "full")
  <2>1. speech[i] \in Lines
    BY <1>1 DEF TypeOK, Speeches
  <2>2. QED
    BY <1>1, <2>1 DEF Lines, SpokenHasText
<1>3. speech' = [i \in Speeches |-> row(i)]
  BY DEF SessionCloses
<1> HIDE DEF row
<1>4. LinesStay /\ \A i \in Speeches : speech'[i] = row(i)
  <2>1. Speeches = 1..Len(speech) /\ Len(speech) \in Nat
    BY <1>1 DEF TypeOK, Speeches
  <2>2. speech' \in [1..Len(speech) -> Lines]
    BY <1>2, <1>3, <2>1
  <2>3. speech' \in Seq(Lines) /\ Speeches' = Speeches
    BY <2>1, <2>2 DEF Speeches
  <2>4. QED
    BY <1>2, <1>3, <2>3 DEF LinesStay
<1>5. StreamsStay
  <2>1. <<>> \in Seq(Frames \cup {"superseded"})
    OBVIOUS
  <2>2. streams' = [t \in TurnIds |-> [streams[t] EXCEPT !.attached = FALSE, !.rest = <<>>]]
    BY DEF SessionCloses
  <2>3. QED
    BY <1>1, <2>1, <2>2 DEF StreamsStay, TypeOK, StreamRows
<1>6. NotesStay /\ UNCHANGED <<open, reports>>
  <2>1. CASE endRequested \/ room # "open"
    BY <1>1, <2>1, NotesUnchanged DEF SessionCloses, ledger
  <2>2. CASE ~(endRequested \/ room # "open")
    BY <1>1, <2>2, ClosedTyped DEF SessionCloses, NotesStay, TypeOK
  <2>3. QED
    BY <2>1, <2>2
<1>7. QED
  BY <1>2, <1>4, <1>5, <1>6

(* What these steps leave of the invariant.                                *)
LEMMA TextStays ==
    ASSUME LinesStay, StreamsStay, LinesOfTurns
    PROVE  /\ Begun' = Begun /\ Segments' = Segments
           /\ \A i \in Speeches : HasText(i)' = HasText(i)
<1>1. Begun' = Begun
  BY DEF StreamsStay, Begun
<1>2. ASSUME NEW i \in Speeches PROVE HasText(i)' = HasText(i)
  <2>1. CASE speech[i].kind = "reply"
    <3>1. speech[i].turn \in TurnIds
      BY <2>1 DEF LinesOfTurns, Begun, OfTurns
    <3>2. QED
      BY <2>1, <3>1 DEF HasText, LinesStay, StreamsStay
  <2>2. CASE speech[i].kind # "reply"
    BY <2>2 DEF HasText, LinesStay
  <2>3. QED
    BY <2>1, <2>2
<1>3. Speeches' = Speeches /\ \A i \in Speeches : speech'[i].kind = speech[i].kind
  BY DEF LinesStay
<1>4. Segments' = Segments
  BY <1>2, <1>3 DEF Segments
<1>5. QED
  BY <1>1, <1>2, <1>4

LEMMA LinesKeep ==
    ASSUME VoiceInv, LinesStay, StreamsStay, NotesStay
    PROVE  LinesOfTurns' /\ SpokenHasText' /\ MeteredOnce'
<1>0. TypeOK /\ LinesOfTurns /\ SpokenHasText /\ MeteredOnce
  BY DEF VoiceInv
<1>1. Begun' = Begun /\ Speeches' = Speeches /\ \A i \in Speeches : HasText(i)' = HasText(i)
  BY <1>0, TextStays DEF LinesStay
<1>2. \A t \in Begun : streams[t].reply = streams'[t].reply
  BY DEF StreamsStay, Begun
<1>3. LinesOfTurns'
  <2>1. \A i \in Speeches' : speech'[i].kind \in OfTurns => speech'[i].turn \in Begun'
    BY <1>0, <1>1 DEF LinesOfTurns, LinesStay
  <2>2. \A i \in Speeches' : speech'[i].kind = "reply" => streams'[speech'[i].turn].reply = i
    BY <1>0, <1>1, <1>2 DEF LinesOfTurns, LinesStay, OfTurns
  <2>3. ASSUME NEW t \in Begun'
        PROVE  streams'[t].reply \in Speeches' /\ speech'[streams'[t].reply].kind = "reply"
                 /\ speech'[streams'[t].reply].turn = t
    BY <1>0, <1>1, <1>2 DEF LinesOfTurns, LinesStay
  <2>4. \A t \in TurnIds \ Begun' : ~turns'[t].open /\ metered'[t] = 0
    BY <1>0, <1>1 DEF LinesOfTurns, NotesStay
  <2>5. \E n \in Nat : Begun' = 1..n
    BY <1>0, <1>1 DEF LinesOfTurns
  <2>6. QED
    BY <2>1, <2>2, <2>3, <2>4, <2>5 DEF LinesOfTurns
<1>4. SpokenHasText'
  BY <1>1 DEF LinesStay, SpokenHasText
<1>5. MeteredOnce'
  BY <1>0 DEF MeteredOnce, NotesStay, TypeOK
<1>6. QED
  BY <1>3, <1>4, <1>5

-----------------------------------------------------------------------------
(* The four things a step does to the ledger: nothing, open a segment, report *)
(* one, and report all that are open.                                      *)

LEMMA LedgerStays ==
    ASSUME VoiceInv, Segments' = Segments, UNCHANGED <<open, reports>>,
           \A i \in Segments : speech[i].heard = "full" => speech'[i].heard = "full",
           \A i \in Segments : IsOpen(i) => speech'[i].heard # "full"
    PROVE  ReportsOnce' /\ HeardIsTrue'
<1>1. ReportsOnce /\ HeardIsTrue
  BY DEF VoiceInv
<1>2. HeardIsTrue'
  BY <1>1 DEF ReportsOnce, HeardIsTrue
<1>3. \A i : IsOpen(i)' <=> IsOpen(i)
  BY DEF IsOpen
<1>4. \A k \in DOMAIN open' : open'[k] \in Segments' /\ speech'[open'[k]].heard # "full"
  BY <1>1 DEF ReportsOnce, IsOpen
<1>5. ReportsOnce'
  BY <1>1, <1>3, <1>4 DEF ReportsOnce
<1>6. QED
  BY <1>2, <1>5

LEMMA LedgerOpens ==
    ASSUME VoiceInv, NEW i \in Nat, i \notin Segments, Segments' = Segments \cup {i}, Opened(i),
           \A j \in Segments : speech'[j].heard = speech[j].heard,
           speech'[i].heard # "full"
    PROVE  ReportsOnce' /\ HeardIsTrue'
<1>1. ReportsOnce /\ HeardIsTrue /\ TypeOK
  BY DEF VoiceInv
<1>2. reports' = reports /\ open' = Append(open, i)
  BY DEF Opened
<1>3. HeardIsTrue'
  BY <1>1, <1>2 DEF ReportsOnce, HeardIsTrue
<1>4. /\ Len(open) \in Nat /\ DOMAIN open = 1..Len(open) /\ DOMAIN open' = 1..(Len(open) + 1)
      /\ \A k \in 1..Len(open) : open'[k] = open[k]
      /\ open'[Len(open) + 1] = i
  BY <1>1, <1>2, AppendProperties DEF TypeOK
<1>5. \A j : IsOpen(j)' <=> IsOpen(j) \/ j = i
  BY <1>4 DEF IsOpen
<1>6. \A a, b \in DOMAIN open' : open'[a] = open'[b] => a = b
  BY <1>1, <1>4 DEF ReportsOnce
<1>7. \A k \in DOMAIN open' : open'[k] \in Segments' /\ speech'[open'[k]].heard # "full"
  BY <1>1, <1>4 DEF ReportsOnce
<1>8. \A k \in DOMAIN reports' : reports'[k].segment \in Segments' /\ ~IsOpen(reports[k].segment)'
  BY <1>1, <1>2, <1>5 DEF ReportsOnce
<1>9. \A j \in Segments' : ~IsOpen(j)' => \E k \in DOMAIN reports' : reports'[k].segment = j
  BY <1>1, <1>2, <1>5 DEF ReportsOnce
<1>10. \A k, l \in DOMAIN reports' : reports'[k].segment = reports'[l].segment => k = l
  BY <1>1, <1>2 DEF ReportsOnce
<1>11. ReportsOnce'
  BY <1>6, <1>7, <1>8, <1>9, <1>10 DEF ReportsOnce
<1>12. QED
  BY <1>3, <1>11

LEMMA LedgerReports ==
    ASSUME VoiceInv, Segments' = Segments, NEW i \in Speeches, NEW interrupted \in BOOLEAN,
           Deliver(i, interrupted), speech[i].st # "over",
           Heard(i, interrupted) => speech'[i].heard = "full",
           \A j \in Speeches \ {i} : speech'[j] = speech[j]
    PROVE  ReportsOnce' /\ HeardIsTrue'
<1>1. ReportsOnce /\ HeardIsTrue /\ TypeOK
  BY DEF VoiceInv
<1>2. speech[i].heard # "full" /\ Segments \subseteq Speeches
  BY DEF VoiceInv, SpokenHasText, Segments
<1>3. CASE ~IsOpen(i)
  <2>1. UNCHANGED <<open, reports>>
    BY <1>3 DEF Deliver, IsOpen, ledger
  <2>2. /\ \A j \in Segments : speech[j].heard = "full" => speech'[j].heard = "full"
        /\ \A j \in Segments : IsOpen(j) => speech'[j].heard # "full"
    BY <1>1, <1>2, <1>3 DEF ReportsOnce, IsOpen
  <2>3. QED
    BY <2>1, <2>2, LedgerStays
<1>4. CASE IsOpen(i)
  <2> DEFINE full == Heard(i, interrupted)
             n == Len(reports)
  <2>1. open' = Without(i) /\ reports' = Append(reports, Report(i, full))
    BY <1>4 DEF Deliver, IsOpen
  <2>2. full \in BOOLEAN /\ (full => speech'[i].heard = "full") /\ i \in Nat
    BY <1>1 DEF Heard, Speeches, TypeOK
  <2> HIDE DEF full
  <2>3. Report(i, full) \in [segment : Nat, full : BOOLEAN]
    BY <2>2 DEF Report
  <2>4. /\ n \in Nat /\ DOMAIN reports = 1..n /\ DOMAIN reports' = 1..(n + 1)
        /\ \A k \in 1..n : reports'[k] = reports[k]
        /\ reports'[n + 1].segment = i /\ reports'[n + 1].full = full
    BY <1>1, <2>1, <2>3, AppendProperties DEF TypeOK, Report
  <2> HIDE DEF n
  <2>5. /\ \A a, b \in DOMAIN open' : open'[a] = open'[b] => a = b
        /\ \A a \in DOMAIN open' : open'[a] # i /\ \E b \in DOMAIN open : open'[a] = open[b]
        /\ \A b \in DOMAIN open : open[b] # i => \E a \in DOMAIN open' : open'[a] = open[b]
    BY <1>1, <1>4, <2>1, WithoutFacts DEF ReportsOnce
  <2>6. \A j : IsOpen(j)' <=> IsOpen(j) /\ j # i
    BY <2>5 DEF IsOpen
  <2>7. HeardIsTrue'
    <3>1. SUFFICES ASSUME NEW k \in 1..(n + 1), reports'[k].full
                   PROVE  speech'[reports'[k].segment].heard = "full"
      BY <2>4 DEF HeardIsTrue
    <3>2. CASE k = n + 1
      BY <2>2, <2>4, <3>1, <3>2
    <3>3. CASE k \in 1..n
      BY <1>1, <1>2, <2>4, <3>1, <3>3 DEF HeardIsTrue, ReportsOnce
    <3>4. QED
      BY <2>4, <3>2, <3>3
  <2>8. \A k \in DOMAIN open' : open'[k] \in Segments' /\ speech'[open'[k]].heard # "full"
    BY <1>1, <1>2, <2>5 DEF ReportsOnce
  <2>9. i \in Segments /\ \A k \in 1..n : reports[k].segment # i
    BY <1>1, <1>4, <2>4 DEF ReportsOnce, IsOpen
  <2>10. \A k \in DOMAIN reports' : reports'[k].segment \in Segments' /\ ~IsOpen(reports[k].segment)'
    <3>1. SUFFICES ASSUME NEW k \in 1..(n + 1)
                   PROVE  reports'[k].segment \in Segments' /\ ~IsOpen(reports[k].segment)'
      BY <2>4
    <3>2. CASE k = n + 1
      BY <2>4, <2>6, <2>9, <3>2
    <3>3. CASE k \in 1..n
      BY <1>1, <2>4, <2>6, <3>3 DEF ReportsOnce
    <3>4. QED
      BY <2>4, <3>2, <3>3
  <2>11. ASSUME NEW j \in Segments, ~IsOpen(j)' PROVE \E k \in DOMAIN reports' : reports'[k].segment = j
    <3>1. CASE j = i
      <4>1. n + 1 \in DOMAIN reports'
        BY <2>4
      <4>2. QED
        BY <2>4, <3>1, <4>1
    <3>2. CASE j # i
      <4>1. PICK k \in 1..n : reports[k].segment = j
        BY <1>1, <2>4, <2>6, <2>11, <3>2 DEF ReportsOnce
      <4>2. k \in DOMAIN reports' /\ reports'[k].segment = j
        BY <2>4, <4>1
      <4>3. QED
        BY <4>2
    <3>3. QED
      BY <3>1, <3>2
  <2>12. ASSUME NEW k \in 1..(n + 1), NEW l \in 1..(n + 1), reports'[k].segment = reports'[l].segment
         PROVE  k = l
    <3>1. CASE k \in 1..n /\ l \in 1..n
      BY <1>1, <2>4, <2>12, <3>1 DEF ReportsOnce
    <3>2. CASE k = n + 1 \/ l = n + 1
      BY <2>4, <2>9, <2>12, <3>2
    <3>3. QED
      BY <2>4, <3>1, <3>2
  <2>13. ReportsOnce'
    BY <2>4, <2>5, <2>8, <2>10, <2>11, <2>12 DEF ReportsOnce
  <2>14. QED
    BY <2>7, <2>13
<1>5. QED
  BY <1>3, <1>4

LEMMA LedgerDrains ==
    ASSUME VoiceInv, Segments' = Segments, UNCHANGED speech, Drain
    PROVE  ReportsOnce' /\ HeardIsTrue'
<1> DEFINE n == Len(reports)
           m == Len(open)
<1>1. ReportsOnce /\ HeardIsTrue /\ TypeOK
  BY DEF VoiceInv
<1>2. n \in Nat /\ m \in Nat /\ DOMAIN reports = 1..n /\ DOMAIN open = 1..m
  BY <1>1 DEF TypeOK
<1>3. /\ open' = <<>> /\ DOMAIN reports' = 1..(n + m)
      /\ \A k \in 1..n : reports'[k] = reports[k]
      /\ \A k \in 1..m : reports'[n + k] = Report(open[k], FALSE)
  <2>1. reports' \in Seq([segment : Nat, full : BOOLEAN]) /\ Len(reports') = n + m
    BY <1>1, DrainTyped
  <2>2. DOMAIN reports' = 1..(n + m)
    BY <2>1
  <2>3. QED
    BY <1>1, <2>2, DrainTyped
<1> HIDE DEF n, m
<1>4. ASSUME NEW k \in 1..m
      PROVE  n + k \in 1..(n + m) /\ reports'[n + k].segment = open[k] /\ ~reports'[n + k].full
  <2>1. n + k \in 1..(n + m)
    BY <1>2
  <2>2. reports'[n + k] = [segment |-> open[k], full |-> FALSE]
    BY <1>3 DEF Report
  <2>3. QED
    BY <2>1, <2>2
<1>5. \A k \in 1..n : k \in 1..(n + m)
  BY <1>2
<1>6. ASSUME NEW k \in 1..(n + m)
      PROVE  \/ k \in 1..n /\ reports'[k] = reports[k]
             \/ \E a \in 1..m : k = n + a /\ reports'[k].segment = open[a] /\ ~reports'[k].full
  <2>1. CASE k > n
    <3>1. k - n \in 1..m /\ k = n + (k - n)
      BY <1>2, <2>1
    <3>2. QED
      BY <1>4, <3>1
  <2>2. CASE ~(k > n)
    BY <1>2, <1>3, <2>2
  <2>3. QED
    BY <2>1, <2>2
<1>7. HeardIsTrue'
  BY <1>1, <1>2, <1>3, <1>6 DEF HeardIsTrue
<1>8. \A j : ~IsOpen(j)'
  BY <1>3 DEF IsOpen
<1>9. ASSUME NEW k \in 1..(n + m) PROVE reports'[k].segment \in Segments
  BY <1>1, <1>2, <1>6 DEF ReportsOnce
<1>10. ASSUME NEW j \in Segments PROVE \E k \in DOMAIN reports' : reports'[k].segment = j
  <2>1. CASE IsOpen(j)
    BY <1>2, <1>3, <1>4, <2>1 DEF IsOpen
  <2>2. CASE ~IsOpen(j)
    BY <1>1, <1>2, <1>3, <1>5, <2>2 DEF ReportsOnce
  <2>3. QED
    BY <2>1, <2>2
<1>11. ASSUME NEW k \in 1..(n + m), NEW l \in 1..(n + m), reports'[k].segment = reports'[l].segment
       PROVE  k = l
  <2>1. CASE k \in 1..n /\ l \in 1..n
    BY <1>1, <1>2, <1>3, <1>11, <2>1 DEF ReportsOnce
  <2>2. ASSUME NEW a \in 1..m, NEW b \in 1..n PROVE open[a] # reports[b].segment
    BY <1>1, <1>2 DEF ReportsOnce, IsOpen
  <2>3. ASSUME NEW a \in 1..m, k = n + a, reports'[k].segment = open[a]
        PROVE  k = l
    <3>1. CASE l \in 1..n /\ reports'[l] = reports[l]
      BY <1>11, <2>2, <2>3, <3>1
    <3>2. ASSUME NEW b \in 1..m, l = n + b, reports'[l].segment = open[b] PROVE k = l
      <4>1. a = b
        BY <1>1, <1>2, <1>11, <2>3, <3>2 DEF ReportsOnce
      <4>2. QED
        BY <2>3, <3>2, <4>1
    <3>3. QED
      BY <1>6, <3>1, <3>2
  <2>4. ASSUME NEW b \in 1..m, l = n + b, reports'[l].segment = open[b], k \in 1..n, reports'[k] = reports[k]
        PROVE  FALSE
    BY <1>11, <2>2, <2>4
  <2>5. QED
    BY <1>6, <2>1, <2>3, <2>4
<1>12. ReportsOnce'
  BY <1>3, <1>8, <1>9, <1>10, <1>11 DEF ReportsOnce
<1>13. QED
  BY <1>7, <1>12

-----------------------------------------------------------------------------
(* The lines the end of the call waits for.                                *)

(* A line that is over stays as it was.                                    *)
OverStays == \A i \in Speeches : i \in Speeches' /\ (speech[i].st = "over" => speech'[i] = speech[i])

LEMMA WaitsFor ==
    ASSUME ReportsWaited, OverStays, UNCHANGED <<endRequested, waiting, drained>>
    PROVE  /\ drained' => endRequested'
           /\ endRequested' => waiting' \subseteq Speeches'
           /\ drained' => \A i \in waiting' : speech'[i].st = "over"
BY DEF ReportsWaited, OverStays

(* A report that was true of its line stays so.                            *)
LEMMA ReportStays ==
    ASSUME VoiceInv, OverStays, UNCHANGED <<waiting, drained>>,
           NEW k \in DOMAIN reports, NEW r, r = reports[k],
           speech'[r.segment].st # "over" \/ (speech'[r.segment].heard = "full" /\ ~r.full)
    PROVE  drained' /\ r.segment \notin waiting'
<1>1. ReportsWaited /\ r.segment \in Speeches
  BY DEF VoiceInv, ReportsOnce, Segments
<1>2. speech[r.segment].st = "over" => speech'[r.segment] = speech[r.segment]
  BY <1>1 DEF OverStays
<1>3. QED
  BY <1>1, <1>2 DEF ReportsWaited

LEMMA WaitedStays ==
    ASSUME VoiceInv, OverStays, UNCHANGED <<reports, endRequested, waiting, drained>>
    PROVE  ReportsWaited'
<1>1. ReportsWaited
  BY DEF VoiceInv
<1>2. ASSUME NEW k \in DOMAIN reports',
             speech'[reports'[k].segment].st # "over"
               \/ (speech'[reports'[k].segment].heard = "full" /\ ~reports'[k].full)
      PROVE  drained' /\ reports'[k].segment \notin waiting'
  BY <1>2, ReportStays
<1>3. QED
  BY <1>1, <1>2, WaitsFor DEF ReportsWaited

LEMMA WaitedReports ==
    ASSUME VoiceInv, OverStays, UNCHANGED <<endRequested, waiting, drained>>,
           NEW i \in Speeches, NEW interrupted \in BOOLEAN, Deliver(i, interrupted),
           speech'[i].st = "over", speech'[i].heard = "full" => Heard(i, interrupted)
    PROVE  ReportsWaited'
<1>1. CASE ~IsOpen(i)
  BY <1>1, WaitedStays DEF Deliver, IsOpen, ledger
<1>2. CASE IsOpen(i)
  <2> DEFINE full == Heard(i, interrupted)
             n == Len(reports)
  <2>1. reports' = Append(reports, Report(i, full))
    BY <1>2 DEF Deliver, IsOpen
  <2>2. full \in BOOLEAN /\ (speech'[i].heard = "full" => full) /\ i \in Nat /\ TypeOK /\ ReportsWaited
    BY DEF Heard, Speeches, TypeOK, VoiceInv
  <2> HIDE DEF full
  <2>3. Report(i, full) \in [segment : Nat, full : BOOLEAN]
    BY <2>2 DEF Report
  <2>4. /\ n \in Nat /\ DOMAIN reports = 1..n /\ DOMAIN reports' = 1..(n + 1)
        /\ \A k \in 1..n : reports'[k] = reports[k]
        /\ reports'[n + 1].segment = i /\ reports'[n + 1].full = full
    BY <2>1, <2>2, <2>3, AppendProperties DEF TypeOK, Report
  <2> HIDE DEF n
  <2>5. ASSUME NEW k \in 1..(n + 1),
               speech'[reports'[k].segment].st # "over"
                 \/ (speech'[reports'[k].segment].heard = "full" /\ ~reports'[k].full)
        PROVE  drained' /\ reports'[k].segment \notin waiting'
    <3>1. k # n + 1
      BY <2>2, <2>4, <2>5
    <3>2. k \in DOMAIN reports /\ reports'[k] = reports[k]
      BY <2>4, <3>1
    <3>3. QED
      BY <2>5, <3>2, ReportStays
  <2>6. QED
    BY <2>2, <2>4, <2>5, WaitsFor DEF ReportsWaited
<1>3. QED
  BY <1>1, <1>2

LEMMA WaitedDrains ==
    ASSUME VoiceInv, EndDrains
    PROVE  ReportsWaited'
<1> DEFINE n == Len(reports)
           m == Len(open)
<1>1. ReportsOnce /\ ReportsWaited /\ TypeOK
  BY DEF VoiceInv
<1>2. /\ UNCHANGED <<speech, endRequested, waiting>> /\ Drain
      /\ ~drained /\ drained' /\ endRequested /\ \A i \in waiting : speech[i].st = "over"
  BY DEF EndDrains, Settled
<1>3. n \in Nat /\ m \in Nat /\ DOMAIN reports = 1..n /\ DOMAIN open = 1..m
  BY <1>1 DEF TypeOK
<1>4. /\ reports' \in Seq([segment : Nat, full : BOOLEAN]) /\ Len(reports') = n + m
      /\ \A k \in 1..n : reports'[k] = reports[k]
      /\ \A k \in 1..m : reports'[n + k] = Report(open[k], FALSE)
  BY <1>1, <1>2, DrainTyped
<1>5. DOMAIN reports' = 1..(n + m)
  BY <1>4
<1> HIDE DEF n, m
<1>6. ASSUME NEW k \in 1..(n + m),
             speech[reports'[k].segment].st # "over"
               \/ (speech[reports'[k].segment].heard = "full" /\ ~reports'[k].full)
      PROVE  reports'[k].segment \notin waiting
  <2>1. CASE k > n
    <3>1. k - n \in 1..m /\ k = n + (k - n)
      BY <1>3, <2>1
    <3>2. PICK a \in 1..m : k = n + a
      BY <3>1
    <3>3. reports'[k] = Report(open[a], FALSE)
      BY <1>4, <3>2
    <3>4. reports'[k].segment = open[a] /\ speech[open[a]].heard # "full"
      BY <1>1, <1>3, <3>3 DEF ReportsOnce, Report
    <3>5. QED
      BY <1>2, <1>6, <3>4
  <2>2. CASE ~(k > n)
    <3>1. k \in 1..n
      BY <1>3, <2>2
    <3>2. QED
      BY <1>1, <1>2, <1>3, <1>4, <1>6, <3>1 DEF ReportsWaited
  <2>3. QED
    BY <2>1, <2>2
<1>7. QED
  BY <1>1, <1>2, <1>5, <1>6 DEF ReportsWaited, Speeches

LEMMA WaitedEnds ==
    ASSUME VoiceInv, UNCHANGED <<speech, reports, drained>>,
           \/ endRequested /\ endRequested' /\ waiting' = waiting
           \/ ~endRequested /\ endRequested' /\ waiting' = Tracked
    PROVE  ReportsWaited'
<1>1. ReportsWaited
  BY DEF VoiceInv
<1>2. CASE endRequested
  BY <1>1, <1>2 DEF ReportsWaited, Speeches
<1>3. CASE ~endRequested
  BY <1>1, <1>3 DEF ReportsWaited, Speeches, Tracked
<1>4. QED
  BY <1>2, <1>3

-----------------------------------------------------------------------------
(* What the steps keep, by the part of the call they belong to.             *)

(* The lines, their streams and their reports.                             *)
Lined ==
  /\ speech \in Seq(Lines) /\ open \in Seq(Nat)
  /\ turns \in [TurnIds -> TurnNotes] /\ streams \in [TurnIds -> StreamRows]
  /\ reports \in Seq([segment : Nat, full : BOOLEAN]) /\ metered \in [TurnIds -> Nat]
  /\ LinesOfTurns /\ SpokenHasText /\ ReportsOnce /\ HeardIsTrue /\ MeteredOnce

(* The clock, the phase and the end of the call.                            *)
Scalars ==
  /\ phase \in {"dialing", "talking", "voicemail", "closed"}
  /\ agentListening \in BOOLEAN /\ userListening \in BOOLEAN /\ armed \in BOOLEAN
  /\ probes \in Nat /\ over \in BOOLEAN
  /\ endRequested \in BOOLEAN /\ drained \in BOOLEAN

LEMMA Whole == ASSUME Lined', Scalars', ReportsWaited', ClockRuns' PROVE VoiceInv'
BY DEF VoiceInv, TypeOK, Lined, Scalars

LEMMA OversStay == LinesStay => OverStays
BY DEF LinesStay, OverStays

(* Of a line played to its end nothing changes, and an open one was not.      *)
LEMMA FullStays ==
    ASSUME VoiceInv, LinesStay, NEW i \in Segments, speech[i].heard = "full"
    PROVE  speech'[i].heard = "full"
BY DEF VoiceInv, SpokenHasText, LinesStay, Segments

LEMMA LinedStays ==
    ASSUME VoiceInv, LinesStay, StreamsStay, NotesStay, UNCHANGED <<open, reports>>,
           \A i \in Segments : IsOpen(i) => speech'[i].heard # "full"
    PROVE  Lined'
<1>1. Segments' = Segments
  BY TextStays DEF VoiceInv
<1>2. ReportsOnce' /\ HeardIsTrue'
  BY <1>1, FullStays, LedgerStays
<1>3. LinesOfTurns' /\ SpokenHasText' /\ MeteredOnce'
  BY LinesKeep
<1>4. open' \in Seq(Nat) /\ reports' \in Seq([segment : Nat, full : BOOLEAN])
  BY DEF VoiceInv, TypeOK
<1>5. QED
  BY <1>2, <1>3, <1>4 DEF Lined, LinesStay, StreamsStay, NotesStay

LEMMA LinedQuiet ==
    ASSUME VoiceInv, UNCHANGED <<speech, ledger>>, StreamsStay
    PROVE  Lined' /\ OverStays
<1>1. TypeOK /\ SpokenHasText /\ ReportsOnce
  BY DEF VoiceInv
<1>2. LinesStay /\ NotesStay /\ UNCHANGED <<open, reports>>
  BY <1>1, LinesUnchanged, NotesUnchanged DEF ledger
<1>3. \A i \in Segments : IsOpen(i) => speech'[i].heard # "full"
  BY <1>1 DEF ReportsOnce, IsOpen
<1>4. QED
  BY <1>2, <1>3, LinedStays, OversStay

LEMMA LinedReports ==
    ASSUME VoiceInv, LinesStay, StreamsStay, NEW i \in Speeches, NEW interrupted \in BOOLEAN,
           Deliver(i, interrupted), speech[i].st # "over",
           Heard(i, interrupted) => speech'[i].heard = "full",
           \A j \in Speeches \ {i} : speech'[j] = speech[j]
    PROVE  Lined'
<1>1. TypeOK /\ ReportsOnce /\ LinesOfTurns
  BY DEF VoiceInv
<1>2. Segments' = Segments
  BY <1>1, TextStays
<1>3. ReportsOnce' /\ HeardIsTrue'
  BY <1>2, LedgerReports
<1>4. NotesStay /\ open' \in Seq(Nat) /\ reports' \in Seq([segment : Nat, full : BOOLEAN])
  BY <1>1, DeliverKeeps, DeliverTyped
<1>5. LinesOfTurns' /\ SpokenHasText' /\ MeteredOnce'
  BY <1>4, LinesKeep
<1>6. QED
  BY <1>3, <1>4, <1>5 DEF Lined, LinesStay, StreamsStay, NotesStay

-----------------------------------------------------------------------------
(* The steps, one by one.  First those that speak no line.                  *)

LEMMA ServerAnswersStep ==
    ASSUME VoiceInv, NEW t \in TurnIds, NEW fs \in Answers, ServerAnswers(t, fs)
    PROVE  VoiceInv'
<1>1. StreamsStay
  BY AnswerTyped DEF VoiceInv, StreamsStay
<1>2. Lined' /\ OverStays
  BY <1>1, LinedQuiet DEF ServerAnswers
<1>3. ReportsWaited'
  BY <1>2, WaitedStays DEF ServerAnswers, ledger, ending
<1>4. Scalars' /\ ClockRuns'
  BY DEF VoiceInv, TypeOK, ServerAnswers, Closes, Scalars, ClockRuns, AllOver, Speeches, silence, ending
<1>5. QED
  BY <1>2, <1>3, <1>4, Whole

LEMMA TakeRefusalStep ==
    ASSUME VoiceInv, NEW t \in TurnIds, TakeRefusal(t)
    PROVE  VoiceInv'
<1>1. StreamsStay
  BY TailTyped DEF VoiceInv, StreamsStay, TakeRefusal
<1>2. Lined' /\ OverStays
  BY <1>1, LinedQuiet DEF TakeRefusal
<1>3. ReportsWaited'
  BY <1>2, WaitedStays DEF TakeRefusal, ledger, ending
<1>4. Scalars' /\ ClockRuns'
  BY DEF VoiceInv, TypeOK, TakeRefusal, Scalars, ClockRuns, AllOver, Speeches, silence, ending
<1>5. QED
  BY <1>2, <1>3, <1>4, Whole

LEMMA TakeEndStep ==
    ASSUME VoiceInv, NEW t \in TurnIds, TakeEnd(t)
    PROVE  VoiceInv'
<1>1. StreamsStay
  BY TailTyped DEF VoiceInv, StreamsStay, TakeEnd
<1>2. Lined' /\ OverStays
  BY <1>1, LinedQuiet DEF TakeEnd
<1>3. ReportsWaited'
  BY <1>2, WaitedStays DEF TakeEnd, ledger, ending, silence
<1>4. Scalars' /\ ClockRuns'
  BY DEF VoiceInv, TypeOK, TakeEnd, Scalars, ClockRuns, AllOver, Speeches, silence, ending, Note, Armed
<1>5. QED
  BY <1>2, <1>3, <1>4, Whole

LEMMA TakeHangUpStep ==
    ASSUME VoiceInv, NEW t \in TurnIds, TakeHangUp(t)
    PROVE  VoiceInv'
<1>1. StreamsStay
  BY TailTyped DEF VoiceInv, StreamsStay, TakeHangUp
<1>2. Lined' /\ OverStays
  BY <1>1, LinedQuiet DEF TakeHangUp
<1>3. ReportsWaited'
  BY WaitedEnds DEF VoiceInv, TypeOK, TakeHangUp, EndCall, ledger
<1>4. Scalars' /\ ClockRuns'
  BY DEF VoiceInv, TypeOK, TakeHangUp, Scalars, ClockRuns, AllOver, Speeches, silence, ending, EndCall
<1>5. QED
  BY <1>2, <1>3, <1>4, Whole

LEMMA LastLinePlayedStep ==
    ASSUME VoiceInv, NEW i \in Speeches, LastLinePlayed(i)
    PROVE  VoiceInv'
<1>1. StreamsStay
  BY StreamsUnchanged DEF VoiceInv, LastLinePlayed
<1>2. Lined' /\ OverStays
  BY <1>1, LinedQuiet DEF LastLinePlayed
<1>3. ReportsWaited'
  BY WaitedEnds DEF LastLinePlayed, EndCall, ledger
<1>4. Scalars' /\ ClockRuns'
  BY DEF VoiceInv, TypeOK, LastLinePlayed, Scalars, ClockRuns, AllOver, Speeches, silence, ending, EndCall
<1>5. QED
  BY <1>2, <1>3, <1>4, Whole

LEMMA EndHangsUpStep ==
    ASSUME VoiceInv, EndHangsUp
    PROVE  VoiceInv'
<1>1. StreamsStay
  BY StreamsUnchanged DEF VoiceInv, EndHangsUp
<1>2. Lined' /\ OverStays
  BY <1>1, LinedQuiet DEF EndHangsUp
<1>3. ReportsWaited'
  BY <1>2, WaitedStays DEF EndHangsUp, ledger, ending, silence
<1>4. Scalars' /\ ClockRuns'
  BY DEF VoiceInv, TypeOK, EndHangsUp, Scalars, ClockRuns, AllOver, Speeches, silence, ending, HangUp
<1>5. QED
  BY <1>2, <1>3, <1>4, Whole

LEMMA DialFailsStep ==
    ASSUME VoiceInv, DialFails
    PROVE  VoiceInv'
<1>1. StreamsStay
  BY StreamsUnchanged DEF VoiceInv, DialFails
<1>2. Lined' /\ OverStays
  BY <1>1, LinedQuiet DEF DialFails
<1>3. ReportsWaited'
  BY <1>2, WaitedStays DEF DialFails, ledger, ending, silence
<1>4. Scalars' /\ ClockRuns'
  BY DEF VoiceInv, TypeOK, DialFails, Scalars, ClockRuns, AllOver, Speeches, silence, ending, HangUp
<1>5. QED
  BY <1>2, <1>3, <1>4, Whole

LEMMA VoicemailLeftStep ==
    ASSUME VoiceInv, VoicemailLeft
    PROVE  VoiceInv'
<1>1. StreamsStay
  BY StreamsUnchanged DEF VoiceInv, VoicemailLeft
<1>2. Lined' /\ OverStays
  BY <1>1, LinedQuiet DEF VoicemailLeft
<1>3. ReportsWaited'
  BY <1>2, WaitedStays DEF VoicemailLeft, ledger, ending, silence
<1>4. Scalars' /\ ClockRuns'
  BY DEF VoiceInv, TypeOK, VoicemailLeft, Scalars, ClockRuns, AllOver, Speeches, silence, ending, HangUp
<1>5. QED
  BY <1>2, <1>3, <1>4, Whole

LEMMA UserSpeaksStep ==
    ASSUME VoiceInv, UserSpeaks
    PROVE  VoiceInv'
<1>1. StreamsStay
  BY StreamsUnchanged DEF VoiceInv, UserSpeaks
<1>2. Lined' /\ OverStays
  BY <1>1, LinedQuiet DEF UserSpeaks
<1>3. ReportsWaited'
  BY <1>2, WaitedStays DEF UserSpeaks, ledger, ending, silence
<1>4. Scalars' /\ ClockRuns'
  BY DEF VoiceInv, TypeOK, UserSpeaks, Scalars, ClockRuns, AllOver, Speeches, silence, ending, Note, Armed
<1>5. QED
  BY <1>2, <1>3, <1>4, Whole

LEMMA UserMumblesStep ==
    ASSUME VoiceInv, UserMumbles
    PROVE  VoiceInv'
<1>1. StreamsStay
  BY StreamsUnchanged DEF VoiceInv, UserMumbles
<1>2. Lined' /\ OverStays
  BY <1>1, LinedQuiet DEF UserMumbles
<1>3. ReportsWaited'
  BY <1>2, WaitedStays DEF UserMumbles, ledger, ending, silence
<1>4. Scalars' /\ ClockRuns'
  BY DEF VoiceInv, TypeOK, UserMumbles, Scalars, ClockRuns, AllOver, Speeches, silence, ending, Note, Armed
<1>5. QED
  BY <1>2, <1>3, <1>4, Whole

LEMMA ClockFiresStep ==
    ASSUME VoiceInv, ClockFires
    PROVE  VoiceInv'
<1>1. StreamsStay
  BY StreamsUnchanged DEF VoiceInv, ClockFires
<1>2. Lined' /\ OverStays
  BY <1>1, LinedQuiet DEF ClockFires
<1>3. ReportsWaited'
  BY <1>2, WaitedStays DEF ClockFires, ledger, ending, silence
<1>4. Scalars' /\ ClockRuns'
  <2>1. probes' \in Nat /\ probes' # 0
    BY DEF VoiceInv, TypeOK, ClockFires
  <2>2. QED
    BY <2>1 DEF VoiceInv, TypeOK, ClockFires, Scalars, ClockRuns, AllOver, Speeches, silence, ending
<1>5. QED
  BY <1>2, <1>3, <1>4, Whole

LEMMA ProbeFailsStep ==
    ASSUME VoiceInv, ProbeFails
    PROVE  VoiceInv'
<1>1. StreamsStay
  BY StreamsUnchanged DEF VoiceInv, ProbeFails
<1>2. Lined' /\ OverStays
  BY <1>1, LinedQuiet DEF ProbeFails
<1>3. ReportsWaited'
  BY <1>2, WaitedStays DEF ProbeFails, ledger, ending, silence
<1>4. Scalars' /\ ClockRuns'
  BY DEF VoiceInv, TypeOK, ProbeFails, Scalars, ClockRuns, AllOver, Speeches, silence, ending, Armed
<1>5. QED
  BY <1>2, <1>3, <1>4, Whole

(* The steps that play a line.                                             *)

LEMMA SpeechStartsStep ==
    ASSUME VoiceInv, NEW i \in Speeches, NEW voiced \in BOOLEAN, SpeechStarts(i, voiced)
    PROVE  VoiceInv'
<1>1. /\ LinesStay /\ StreamsStay /\ NotesStay /\ ~AllOver' /\ UNCHANGED <<open, reports>>
      /\ \A j \in Speeches : speech'[j].heard = speech[j].heard
  BY SpeechStartsKeeps
<1>2. \A j \in Segments : IsOpen(j) => speech'[j].heard # "full"
  BY <1>1 DEF VoiceInv, ReportsOnce, IsOpen, Segments
<1>3. Lined' /\ OverStays
  BY <1>1, <1>2, LinedStays, OversStay
<1>4. ReportsWaited'
  BY <1>1, <1>3, WaitedStays DEF SpeechStarts, ending
<1>5. Scalars' /\ ClockRuns'
  BY <1>1 DEF VoiceInv, TypeOK, SpeechStarts, Note, Armed, Scalars, ClockRuns, ending
<1>6. QED
  BY <1>3, <1>4, <1>5, Whole

LEMMA ReplySynthesisedStep ==
    ASSUME VoiceInv, NEW i \in Speeches, ReplySynthesised(i)
    PROVE  VoiceInv'
<1>1. LinesStay /\ StreamsStay /\ NotesStay /\ UNCHANGED <<open, reports, speech>>
  BY ReplySynthesisedKeeps DEF ReplySynthesised
<1>2. \A j \in Segments : IsOpen(j) => speech'[j].heard # "full"
  BY <1>1 DEF VoiceInv, ReportsOnce, IsOpen
<1>3. Lined' /\ OverStays
  BY <1>1, <1>2, LinedStays, OversStay
<1>4. ReportsWaited'
  BY <1>1, <1>3, WaitedStays DEF ReplySynthesised, ending
<1>5. Scalars' /\ ClockRuns'
  BY DEF VoiceInv, TypeOK, ReplySynthesised, Scalars, ClockRuns, AllOver, Speeches, silence, ending
<1>6. QED
  BY <1>3, <1>4, <1>5, Whole

(* A line that is over lets the agent listen when it was the last.           *)
LEMMA OverClock ==
    ASSUME VoiceInv, AllOver' => agentListening', agentListening' \in BOOLEAN,
           userListening' = userListening,
           armed' = Armed(endRequested, agentListening', userListening),
           UNCHANGED <<phase, probes, ending, over>>
    PROVE  Scalars' /\ ClockRuns'
BY DEF VoiceInv, TypeOK, Armed, Scalars, ClockRuns, ending

LEMMA SpeechPlayedStep ==
    ASSUME VoiceInv, NEW i \in Speeches, SpeechPlayed(i)
    PROVE  VoiceInv'
<1> DEFINE heard == IF i \in audio THEN "full" ELSE "stalled"
<1>1. /\ Over(i, heard) /\ Deliver(i, FALSE) /\ speech[i].st = "speaking"
      /\ UNCHANGED <<streams, phase, probes, ending, over>>
  BY DEF SpeechPlayed
<1>2. HasText(i) /\ heard \in {"none", "full", "stalled", "cut"} /\ speech[i].st # "over"
  BY <1>1 DEF VoiceInv, SpokenHasText
<1>3. heard = "full" <=> Heard(i, FALSE)
  BY DEF Heard
<1> HIDE DEF heard
<1>4. /\ LinesStay
      /\ speech'[i].st = "over" /\ speech'[i].heard = heard
      /\ \A j \in Speeches \ {i} : speech'[j] = speech[j]
      /\ AllOver' => agentListening'
      /\ userListening' = userListening
      /\ armed' = Armed(endRequested, agentListening', userListening)
  BY <1>1, <1>2, OverKeeps
<1>5. StreamsStay
  BY <1>1, StreamsUnchanged DEF VoiceInv
<1>6. Lined'
  BY <1>1, <1>2, <1>3, <1>4, <1>5, LinedReports
<1>7. ReportsWaited'
  BY <1>1, <1>3, <1>4, WaitedReports, OversStay DEF ending
<1>8. agentListening' \in BOOLEAN
  BY <1>1 DEF Over, Note
<1>9. Scalars' /\ ClockRuns'
  BY <1>1, <1>4, <1>8, OverClock
<1>10. QED
  BY <1>6, <1>7, <1>9, Whole

LEMMA ReplyEmptyStep ==
    ASSUME VoiceInv, NEW i \in Speeches, ReplyEmpty(i)
    PROVE  VoiceInv'
<1>1. /\ Over(i, "none") /\ speech[i].st # "over"
      /\ UNCHANGED <<streams, phase, probes, ending, over, ledger>>
  BY DEF ReplyEmpty
<1>2. /\ LinesStay
      /\ speech'[i].st = "over" /\ speech'[i].heard = "none"
      /\ \A j \in Speeches \ {i} : speech'[j] = speech[j]
      /\ AllOver' => agentListening'
      /\ userListening' = userListening
      /\ armed' = Armed(endRequested, agentListening', userListening)
  BY <1>1, OverKeeps
<1>3. StreamsStay /\ NotesStay /\ UNCHANGED <<open, reports>>
  BY <1>1, StreamsUnchanged, NotesUnchanged DEF VoiceInv, ledger
<1>4. \A j \in Segments : IsOpen(j) => speech'[j].heard # "full"
  BY <1>2 DEF VoiceInv, ReportsOnce, IsOpen, Segments
<1>5. Lined' /\ OverStays
  BY <1>2, <1>3, <1>4, LinedStays, OversStay
<1>6. ReportsWaited'
  BY <1>1, <1>3, <1>5, WaitedStays DEF ending
<1>7. agentListening' \in BOOLEAN
  BY <1>1 DEF Over, Note
<1>8. Scalars' /\ ClockRuns'
  BY <1>1, <1>2, <1>7, OverClock
<1>9. QED
  BY <1>5, <1>6, <1>8, Whole

LEMMA BargeInStep ==
    ASSUME VoiceInv, NEW i \in Speeches, NEW item \in BOOLEAN, BargeIn(i, item)
    PROVE  VoiceInv'
<1>1. /\ Over(i, "cut") /\ speech[i].st # "over" /\ UNCHANGED <<phase, probes, ending, over>>
  BY DEF BargeIn
<1>2. /\ LinesStay
      /\ speech'[i].st = "over" /\ speech'[i].heard = "cut"
      /\ \A j \in Speeches \ {i} : speech'[j] = speech[j]
      /\ AllOver' => agentListening'
      /\ userListening' = userListening
      /\ armed' = Armed(endRequested, agentListening', userListening)
  BY <1>1, OverKeeps
<1>3. StreamsStay
  <2>1. CASE speech[i].kind = "reply"
    <3>1. speech[i].turn \in TurnIds /\ streams' = Cancelled(speech[i].turn)
      BY <2>1 DEF BargeIn, VoiceInv, LinesOfTurns, OfTurns, Begun
    <3>2. QED
      BY <3>1, CancelTyped DEF VoiceInv, StreamsStay
  <2>2. CASE speech[i].kind # "reply"
    BY <2>2, StreamsUnchanged DEF BargeIn, VoiceInv
  <2>3. QED
    BY <2>1, <2>2
<1>4. Lined' /\ ReportsWaited'
  <2>1. CASE item
    <3>1. Deliver(i, TRUE) /\ ~Heard(i, TRUE)
      BY <2>1 DEF BargeIn, Heard
    <3>2. Lined'
      BY <1>1, <1>2, <1>3, <3>1, LinedReports
    <3>3. ReportsWaited'
      BY <1>1, <1>2, <3>1, WaitedReports, OversStay DEF ending
    <3>4. QED
      BY <3>2, <3>3
  <2>2. CASE ~item
    <3>1. NotesStay /\ UNCHANGED <<open, reports>>
      BY <2>2, NotesUnchanged DEF BargeIn, ledger, VoiceInv
    <3>2. \A j \in Segments : IsOpen(j) => speech'[j].heard # "full"
      BY <1>2 DEF VoiceInv, ReportsOnce, IsOpen, Segments
    <3>3. Lined' /\ OverStays
      BY <1>2, <1>3, <3>1, <3>2, LinedStays, OversStay
    <3>4. QED
      BY <1>1, <3>1, <3>3, WaitedStays DEF ending
  <2>3. QED
    BY <2>1, <2>2
<1>5. agentListening' \in BOOLEAN
  BY <1>1 DEF Over, Note
<1>6. Scalars' /\ ClockRuns'
  BY <1>1, <1>2, <1>5, OverClock
<1>7. QED
  BY <1>4, <1>6, Whole

LEMMA EndDrainsStep ==
    ASSUME VoiceInv, EndDrains
    PROVE  VoiceInv'
<1>1. TypeOK /\ SpokenHasText /\ LinesOfTurns /\ Drain /\ UNCHANGED <<speech, streams>>
  BY DEF VoiceInv, EndDrains
<1>2. LinesStay /\ StreamsStay /\ NotesStay
  BY <1>1, LinesUnchanged, StreamsUnchanged, DrainKeeps
<1>3. ReportsOnce' /\ HeardIsTrue'
  BY <1>1, <1>2, TextStays, LedgerDrains
<1>4. open' \in Seq(Nat) /\ reports' \in Seq([segment : Nat, full : BOOLEAN])
  BY <1>1, DrainTyped
<1>5. Lined'
  BY <1>2, <1>3, <1>4, LinesKeep DEF Lined, LinesStay, StreamsStay, NotesStay
<1>6. ReportsWaited'
  BY WaitedDrains
<1>7. Scalars' /\ ClockRuns'
  BY DEF VoiceInv, TypeOK, EndDrains, Scalars, ClockRuns, AllOver, Speeches, silence
<1>8. QED
  BY <1>5, <1>6, <1>7, Whole

LEMMA SessionClosesStep ==
    ASSUME VoiceInv, SessionCloses
    PROVE  VoiceInv'
<1>1. /\ LinesStay /\ StreamsStay /\ NotesStay /\ UNCHANGED <<open, reports>>
      /\ \A i \in Speeches : speech'[i].heard = "full" <=> speech[i].heard = "full"
  BY SessionClosesKeeps
<1>2. \A j \in Segments : IsOpen(j) => speech'[j].heard # "full"
  BY <1>1 DEF VoiceInv, ReportsOnce, IsOpen, Segments
<1>3. Lined' /\ OverStays
  BY <1>1, <1>2, LinedStays, OversStay
<1>4. ReportsWaited'
  BY <1>1, <1>3, WaitedStays DEF SessionCloses
<1>5. Scalars' /\ ClockRuns'
  BY DEF VoiceInv, TypeOK, SessionCloses, Scalars, ClockRuns
<1>6. QED
  BY <1>3, <1>4, <1>5, Whole

(* The steps that give the framework a new line: what is known of the others *)
(* stays, and the call is not quiet.                                       *)

LEMMA SaidKeeps ==
    ASSUME VoiceInv, NEW kind \in Kinds, NEW t \in TurnIds \cup {0}, NEW soft \in BOOLEAN,
           Say(kind, t, soft)
    PROVE  LET i == Len(speech) + 1
           IN  /\ i \in Nat /\ i \notin Speeches /\ Speeches' = Speeches \cup {i}
               /\ \A j \in Speeches : speech'[j] = speech[j]
               /\ speech'[i].kind = kind /\ speech'[i].turn = t /\ speech'[i].st = "queued"
               /\ speech'[i].heard = "none"
               /\ speech' \in Seq(Lines) /\ OverStays /\ ~AllOver'
<1> DEFINE i == Len(speech) + 1
<1>1. /\ speech' \in Seq(Lines) /\ Len(speech) \in Nat
      /\ Speeches = 1..Len(speech) /\ Speeches' = 1..i
      /\ \A j \in Speeches : speech'[j] = speech[j]
      /\ speech'[i] = Line(kind, t, soft)
  BY Said DEF VoiceInv
<1>2. i \in Nat /\ i \notin Speeches /\ Speeches' = Speeches \cup {i}
  BY <1>1
<1>3. speech'[i].kind = kind /\ speech'[i].turn = t /\ speech'[i].st = "queued" /\ speech'[i].heard = "none"
  BY <1>1 DEF Line
<1> HIDE DEF i
<1>4. OverStays /\ ~AllOver'
  BY <1>1, <1>2, <1>3 DEF OverStays, AllOver
<1>5. QED
  BY <1>1, <1>2, <1>3, <1>4 DEF i

(* A line that is no reply of a turn.                                       *)
LEMMA SaidLined ==
    ASSUME VoiceInv, NEW kind \in Kinds \ {"reply"}, NEW t \in TurnIds \cup {0}, NEW soft \in BOOLEAN,
           Say(kind, t, soft), kind \in OfTurns => t \in Begun,
           StreamsStay, UNCHANGED <<turns, metered>>
    PROVE  /\ LinesOfTurns' /\ SpokenHasText' /\ MeteredOnce'
           /\ Segments' = Segments \cup (IF kind \in OfTurns THEN {Len(speech) + 1} ELSE {})
<1>0. PICK i : i = Len(speech) + 1
  OBVIOUS
<1>1. /\ i \in Nat /\ i \notin Speeches /\ Speeches' = Speeches \cup {i}
      /\ \A j \in Speeches : speech'[j] = speech[j]
      /\ speech'[i].kind = kind /\ speech'[i].turn = t /\ speech'[i].st = "queued"
      /\ speech'[i].heard = "none"
  BY <1>0, SaidKeeps
<1>2. LinesOfTurns /\ SpokenHasText /\ MeteredOnce
  BY DEF VoiceInv
<1>3. Begun' = Begun
  BY DEF StreamsStay, Begun
<1>4. \A u \in Begun : streams'[u].reply = streams[u].reply /\ streams'[u].text = streams[u].text
  BY DEF StreamsStay, Begun
<1>5. ASSUME NEW j \in Speeches PROVE HasText(j)' = HasText(j)
  <2>1. speech[j].kind = "reply" => speech[j].turn \in Begun
    BY <1>2 DEF LinesOfTurns, OfTurns
  <2>2. QED
    BY <1>1, <1>4, <2>1 DEF HasText
<1>6. HasText(i)'
  BY <1>1 DEF HasText
<1>7. LinesOfTurns'
  <2>1. ASSUME NEW j \in Speeches', speech'[j].kind \in OfTurns PROVE speech'[j].turn \in Begun'
    BY <1>1, <1>2, <1>3, <2>1 DEF LinesOfTurns
  <2>2. ASSUME NEW j \in Speeches', speech'[j].kind = "reply" PROVE streams'[speech'[j].turn].reply = j
    BY <1>1, <1>2, <1>4, <2>2 DEF LinesOfTurns, OfTurns
  <2>3. ASSUME NEW u \in Begun'
        PROVE  streams'[u].reply \in Speeches' /\ speech'[streams'[u].reply].kind = "reply"
                 /\ speech'[streams'[u].reply].turn = u
    BY <1>1, <1>2, <1>3, <1>4 DEF LinesOfTurns
  <2>4. \A u \in TurnIds \ Begun' : ~turns'[u].open /\ metered'[u] = 0
    BY <1>2, <1>3 DEF LinesOfTurns
  <2>5. \E n \in Nat : Begun' = 1..n
    BY <1>2, <1>3 DEF LinesOfTurns
  <2>6. QED
    BY <2>1, <2>2, <2>3, <2>4, <2>5 DEF LinesOfTurns
<1>8. SpokenHasText'
  BY <1>1, <1>2, <1>5, <1>6 DEF SpokenHasText
<1>9. MeteredOnce'
  BY <1>2 DEF MeteredOnce
<1>10. Segments' = Segments \cup (IF kind \in OfTurns THEN {i} ELSE {})
  BY <1>1, <1>5, <1>6 DEF Segments, OfTurns
<1>11. QED
  BY <1>0, <1>7, <1>8, <1>9, <1>10

LEMMA AnsweredStep ==
    ASSUME VoiceInv, NEW machine \in BOOLEAN, Answered(machine)
    PROVE  VoiceInv'
<1>1. PICK kind \in {"voicemail", "opening"} : Say(kind, 0, FALSE)
  BY DEF Answered
<1>2. kind \in Kinds \ {"reply"} /\ kind \notin OfTurns
  BY DEF Kinds, OfTurns
<1>3. StreamsStay /\ UNCHANGED <<turns, metered, open, reports, endRequested, waiting, drained>>
  BY StreamsUnchanged DEF Answered, VoiceInv, ledger, ending
<1>4. LinesOfTurns' /\ SpokenHasText' /\ MeteredOnce' /\ Segments' = Segments
  BY <1>1, <1>2, <1>3, SaidLined
<1>5. /\ \A j \in Speeches : speech'[j] = speech[j]
      /\ speech' \in Seq(Lines) /\ OverStays /\ ~AllOver'
  BY <1>1, <1>2, SaidKeeps
<1>6. ReportsOnce' /\ HeardIsTrue'
  BY <1>3, <1>4, <1>5, LedgerStays DEF VoiceInv, ReportsOnce, IsOpen, Segments
<1>7. Lined'
  BY <1>3, <1>4, <1>5, <1>6 DEF Lined, VoiceInv, TypeOK, StreamsStay
<1>8. ReportsWaited'
  BY <1>3, <1>5, WaitedStays
<1>9. Scalars' /\ ClockRuns'
  BY <1>5 DEF VoiceInv, TypeOK, Answered, Scalars, ClockRuns, silence, ending
<1>10. QED
  BY <1>7, <1>8, <1>9, Whole

LEMMA ProbeAnsweredStep ==
    ASSUME VoiceInv, NEW closes \in BOOLEAN, ProbeAnswered(closes)
    PROVE  VoiceInv'
<1>1. PICK kind \in {"last", "nudge"}, soft \in BOOLEAN : Say(kind, 0, soft)
  BY DEF ProbeAnswered
<1>2. kind \in Kinds \ {"reply"} /\ kind \notin OfTurns
  BY DEF Kinds, OfTurns
<1>3. StreamsStay /\ UNCHANGED <<turns, metered, open, reports, endRequested, waiting, drained>>
  BY StreamsUnchanged DEF ProbeAnswered, VoiceInv, ledger, ending
<1>4. LinesOfTurns' /\ SpokenHasText' /\ MeteredOnce' /\ Segments' = Segments
  BY <1>1, <1>2, <1>3, SaidLined
<1>5. /\ \A j \in Speeches : speech'[j] = speech[j]
      /\ speech' \in Seq(Lines) /\ OverStays /\ ~AllOver'
  BY <1>1, <1>2, SaidKeeps
<1>6. ReportsOnce' /\ HeardIsTrue'
  BY <1>3, <1>4, <1>5, LedgerStays DEF VoiceInv, ReportsOnce, IsOpen, Segments
<1>7. Lined'
  BY <1>3, <1>4, <1>5, <1>6 DEF Lined, VoiceInv, TypeOK, StreamsStay
<1>8. ReportsWaited'
  BY <1>3, <1>5, WaitedStays
<1>9. probes' \in Nat
  BY DEF VoiceInv, TypeOK, ProbeAnswered
<1>10. Scalars' /\ ClockRuns'
  BY <1>5, <1>9 DEF VoiceInv, TypeOK, ProbeAnswered, Scalars, ClockRuns, ending
<1>11. QED
  BY <1>7, <1>8, <1>10, Whole

LEMMA OpenedTyped ==
    ASSUME TypeOK, NEW i \in Nat, Opened(i)
    PROVE  open' \in Seq(Nat)
BY AppendProperties DEF TypeOK, Opened

LEMMA TakeSayStep ==
    ASSUME VoiceInv, NEW t \in TurnIds, TakeSay(t)
    PROVE  VoiceInv'
<1>1. PICK kind \in {"say", "fallback"}, soft \in BOOLEAN : Say(kind, t, soft)
  BY DEF TakeSay
<1>2. kind \in Kinds \ {"reply"} /\ kind \in OfTurns /\ t \in Begun
  BY DEF Kinds, OfTurns, TakeSay, Take
<1>3. StreamsStay
  BY TailTyped DEF VoiceInv, StreamsStay, TakeSay
<1>4. UNCHANGED <<turns, metered, reports, endRequested, waiting, drained>>
  BY DEF TakeSay, Opened, ending
<1>0. PICK i : i = Len(speech) + 1
  OBVIOUS
<1>5. /\ i \in Nat /\ i \notin Speeches /\ \A j \in Speeches : speech'[j] = speech[j]
      /\ speech'[i].heard = "none"
      /\ speech' \in Seq(Lines) /\ OverStays /\ ~AllOver'
  BY <1>0, <1>1, <1>2, SaidKeeps
<1>6. LinesOfTurns' /\ SpokenHasText' /\ MeteredOnce' /\ Segments' = Segments \cup {i} /\ Opened(i)
  BY <1>0, <1>1, <1>2, <1>3, <1>4, SaidLined DEF TakeSay
<1>7. i \notin Segments /\ \A j \in Segments : speech'[j].heard = speech[j].heard
  BY <1>5 DEF Segments
<1>8. ReportsOnce' /\ HeardIsTrue'
  BY <1>5, <1>6, <1>7, LedgerOpens
<1>9. open' \in Seq(Nat)
  BY <1>5, <1>6, OpenedTyped DEF VoiceInv
<1>10. Lined'
  BY <1>3, <1>4, <1>5, <1>6, <1>8, <1>9 DEF Lined, VoiceInv, TypeOK, StreamsStay
<1>11. ReportsWaited'
  BY <1>4, <1>5, WaitedStays
<1>12. Scalars' /\ ClockRuns'
  BY <1>5 DEF VoiceInv, TypeOK, TakeSay, Scalars, ClockRuns, silence, ending
<1>13. QED
  BY <1>8, <1>10, <1>11, <1>12, Whole

(* The first words of a reply: its segment opens.                           *)
LEMMA TakeDeltaStep ==
    ASSUME VoiceInv, NEW t \in TurnIds, TakeDelta(t)
    PROVE  VoiceInv'
<1>0. PICK i : i = streams[t].reply
  OBVIOUS
<1>1. /\ t \in Begun /\ ~streams[t].text /\ streams' = [streams EXCEPT ![t].text = TRUE] /\ Opened(i)
      /\ UNCHANGED <<phase, speech, silence, ending, over, turns, reports, metered>>
  BY <1>0 DEF TakeDelta, Opened
<1>2. TypeOK /\ LinesOfTurns /\ SpokenHasText /\ MeteredOnce /\ ReportsOnce
  BY DEF VoiceInv
<1>3. /\ streams' \in [TurnIds -> StreamRows]
      /\ \A u \in TurnIds : streams'[u].reply = streams[u].reply
      /\ \A u \in TurnIds \ {t} : streams'[u].text = streams[u].text
      /\ streams'[t].text
  BY <1>1, <1>2 DEF TypeOK, StreamRows
<1>4. i \in Speeches /\ speech[i].kind = "reply" /\ speech[i].turn = t
  BY <1>0, <1>1, <1>2 DEF LinesOfTurns
<1>5. \A j \in Speeches : speech[j].kind = "reply" /\ speech[j].turn = t => j = i
  BY <1>0, <1>2 DEF LinesOfTurns
<1>6. ~HasText(i) /\ HasText(i)' /\ i \in Nat
  BY <1>1, <1>2, <1>3, <1>4 DEF HasText, TypeOK, Speeches
<1>7. ASSUME NEW j \in Speeches \ {i} PROVE HasText(j)' = HasText(j)
  <2>1. speech[j].kind = "reply" => speech[j].turn \in TurnIds \ {t}
    BY <1>2, <1>5 DEF LinesOfTurns, OfTurns, Begun
  <2>2. QED
    BY <1>1, <1>3, <2>1 DEF HasText
<1>8. Begun' = Begun /\ Speeches' = Speeches
  BY <1>1, <1>3 DEF Begun, Speeches
<1>9. LinesOfTurns'
  <2>1. \A j \in Speeches : speech[j].kind = "reply" => speech[j].turn \in TurnIds
    BY <1>2 DEF LinesOfTurns, OfTurns, Begun
  <2>2. \A u \in Begun : u \in TurnIds
    BY DEF Begun
  <2>3. QED
    BY <1>1, <1>2, <1>3, <1>8, <2>1, <2>2 DEF LinesOfTurns
<1>10. SpokenHasText'
  BY <1>1, <1>2, <1>6, <1>7, <1>8 DEF SpokenHasText
<1>11. MeteredOnce'
  BY <1>1, <1>2 DEF MeteredOnce
<1>12. Segments' = Segments \cup {i} /\ i \notin Segments
  BY <1>1, <1>4, <1>6, <1>7, <1>8 DEF Segments
<1>13. speech'[i].heard # "full" /\ \A j \in Segments : speech'[j].heard = speech[j].heard
  BY <1>1, <1>2, <1>4, <1>6 DEF SpokenHasText
<1>14. ReportsOnce' /\ HeardIsTrue'
  BY <1>1, <1>6, <1>12, <1>13, LedgerOpens
<1>15. open' \in Seq(Nat)
  BY <1>1, <1>2, <1>6, OpenedTyped
<1>16. Lined'
  BY <1>1, <1>2, <1>3, <1>9, <1>10, <1>11, <1>14, <1>15 DEF Lined, TypeOK
<1>17. ReportsWaited'
  BY <1>1, <1>8, WaitedStays DEF OverStays, ending
<1>18. Scalars' /\ ClockRuns'
  BY <1>1, <1>8 DEF VoiceInv, TypeOK, Scalars, ClockRuns, AllOver, silence, ending
<1>19. QED
  BY <1>16, <1>17, <1>18, Whole

LEMMA NextTurnIsNew ==
    ASSUME LinesOfTurns, NEW t \in TurnIds, t = NextTurn
    PROVE  t \notin Begun /\ \E n \in Nat : Begun \cup {t} = 1..n
<1>1. PICK n \in Nat : Begun = 1..n
  BY DEF LinesOfTurns
<1>2. Cardinality(1..n) = n
  BY FS_Interval
<1>3. t = n + 1
  BY <1>1, <1>2 DEF NextTurn
<1>4. n + 1 \in Nat /\ 1..n \cup {n + 1} = 1..(n + 1) /\ n + 1 \notin 1..n
  OBVIOUS
<1>5. QED
  BY <1>1, <1>3, <1>4

LEMMA TurnStep ==
    ASSUME VoiceInv, NEW t \in TurnIds, Turn(t)
    PROVE  VoiceInv'
<1>0. PICK i : i = Len(speech) + 1
  OBVIOUS
<1>1. TypeOK /\ LinesOfTurns /\ SpokenHasText /\ MeteredOnce
  BY DEF VoiceInv
<1>2. t \notin Begun /\ \E n \in Nat : Begun \cup {t} = 1..n
  BY <1>1, NextTurnIsNew DEF Turn
<1>3. /\ i \in Nat /\ i \notin Speeches /\ Speeches' = Speeches \cup {i}
      /\ \A j \in Speeches : speech'[j] = speech[j]
      /\ speech'[i].kind = "reply" /\ speech'[i].turn = t /\ speech'[i].st = "queued"
      /\ speech'[i].heard = "none"
      /\ speech' \in Seq(Lines) /\ OverStays /\ ~AllOver'
  BY <1>0, SaidKeeps DEF Turn, Kinds
<1>4. /\ streams' \in [TurnIds -> StreamRows]
      /\ \A u \in TurnIds \ {t} : streams'[u].reply = streams[u].reply /\ streams'[u].text = streams[u].text
      /\ streams'[t].reply = i /\ streams'[t].text = FALSE
      /\ turns' \in [TurnIds -> TurnNotes] /\ metered' \in [TurnIds -> Nat]
      /\ \A u \in TurnIds \ {t} : turns'[u].open => turns[u].open
      /\ \A u \in TurnIds \ {t} : \/ metered'[u] = metered[u]
                                  \/ metered'[u] = metered[u] + 1 /\ turns[u].open /\ ~turns'[u].open
      /\ metered'[t] = metered[t]
  BY <1>0, <1>1, TurnTyped
<1>5. i # 0
  BY <1>0, <1>1 DEF TypeOK
<1>6. Begun' = Begun \cup {t}
  BY <1>4, <1>5 DEF Begun
<1>7. \A j \in Speeches : speech[j].kind = "reply" => speech[j].turn \in TurnIds \ {t}
  BY <1>1, <1>2 DEF LinesOfTurns, OfTurns, Begun
<1>8. ASSUME NEW j \in Speeches PROVE HasText(j)' = HasText(j)
  <2>1. speech'[j] = speech[j]
    BY <1>3
  <2>2. CASE speech[j].kind = "reply"
    <3>1. speech[j].turn \in TurnIds \ {t}
      BY <1>7, <2>2
    <3>2. streams'[speech[j].turn].text = streams[speech[j].turn].text
      BY <1>4, <3>1
    <3>3. QED
      BY <2>1, <2>2, <3>2 DEF HasText
  <2>3. CASE speech[j].kind # "reply"
    BY <2>1, <2>3 DEF HasText
  <2>4. QED
    BY <2>2, <2>3
<1>9. ~HasText(i)'
  BY <1>3, <1>4 DEF HasText
<1>10. LinesOfTurns'
  <2>1. ASSUME NEW j \in Speeches', speech'[j].kind \in OfTurns PROVE speech'[j].turn \in Begun'
    BY <1>1, <1>3, <1>6, <2>1 DEF LinesOfTurns
  <2>2. ASSUME NEW j \in Speeches', speech'[j].kind = "reply" PROVE streams'[speech'[j].turn].reply = j
    <3>1. CASE j = i
      BY <1>3, <1>4, <3>1
    <3>2. CASE j # i
      <4>1. j \in Speeches /\ speech'[j] = speech[j] /\ speech[j].kind = "reply"
        BY <1>3, <2>2, <3>2
      <4>2. speech[j].turn \in TurnIds \ {t} /\ streams[speech[j].turn].reply = j
        BY <1>1, <1>7, <4>1 DEF LinesOfTurns
      <4>3. streams'[speech[j].turn].reply = streams[speech[j].turn].reply
        BY <1>4, <4>2
      <4>4. QED
        BY <4>1, <4>2, <4>3
    <3>3. QED
      BY <3>1, <3>2
  <2>3. ASSUME NEW u \in Begun'
        PROVE  streams'[u].reply \in Speeches' /\ speech'[streams'[u].reply].kind = "reply"
                 /\ speech'[streams'[u].reply].turn = u
    <3>1. CASE u = t
      BY <1>3, <1>4, <3>1
    <3>2. CASE u # t
      <4>1. u \in Begun /\ u \in TurnIds \ {t}
        BY <1>6, <2>3, <3>2 DEF Begun
      <4>2. QED
        BY <1>1, <1>3, <1>4, <4>1 DEF LinesOfTurns
    <3>3. QED
      BY <3>1, <3>2
  <2>4. \A u \in TurnIds \ Begun' : ~turns'[u].open /\ metered'[u] = 0
    BY <1>1, <1>4, <1>6 DEF LinesOfTurns
  <2>5. \E n \in Nat : Begun' = 1..n
    BY <1>2, <1>6
  <2>6. QED
    BY <2>1, <2>2, <2>3, <2>4, <2>5 DEF LinesOfTurns
<1>11. SpokenHasText'
  BY <1>1, <1>3, <1>8 DEF SpokenHasText
<1>12. MeteredOnce'
  <2>1. metered[t] = 0
    BY <1>1, <1>2 DEF LinesOfTurns
  <2>2. ASSUME NEW u \in TurnIds \ {t} PROVE metered'[u] <= 1 /\ (turns'[u].open => metered'[u] = 0)
    <3>1. metered[u] \in Nat /\ metered[u] <= 1 /\ (turns[u].open => metered[u] = 0)
      BY <1>1 DEF MeteredOnce, TypeOK
    <3>2. QED
      BY <1>4, <3>1
  <2>3. QED
    BY <1>4, <2>1, <2>2 DEF MeteredOnce
<1>13. Segments' = Segments
  BY <1>3, <1>8, <1>9 DEF Segments
<1>14. UNCHANGED <<open, reports, endRequested, waiting, drained>>
  BY DEF Turn, BeginTurn, ending
<1>15. ReportsOnce' /\ HeardIsTrue'
  BY <1>3, <1>13, <1>14, LedgerStays DEF VoiceInv, ReportsOnce, IsOpen, Segments
<1>16. Lined'
  BY <1>1, <1>3, <1>4, <1>10, <1>11, <1>12, <1>14, <1>15 DEF Lined, TypeOK
<1>17. ReportsWaited'
  BY <1>3, <1>14, WaitedStays
<1>18. Scalars' /\ ClockRuns'
  BY <1>3 DEF VoiceInv, TypeOK, Turn, Note, Armed, Scalars, ClockRuns, ending
<1>19. QED
  BY <1>16, <1>17, <1>18, Whole

-----------------------------------------------------------------------------
(* The invariant, and what follows from it.                                 *)

LEMMA InCallStep == ASSUME VoiceInv, InCall PROVE VoiceInv'
<1>1. ASSUME Plays PROVE VoiceInv'
  BY <1>1, SpeechStartsStep, ReplySynthesisedStep, SpeechPlayedStep, ReplyEmptyStep DEF Plays
<1>2. ASSUME Streams PROVE VoiceInv'
  BY <1>2, ServerAnswersStep, TakeSayStep, TakeRefusalStep, TakeEndStep, TakeHangUpStep DEF Streams
<1>3. ASSUME Ends PROVE VoiceInv'
  BY <1>3, EndDrainsStep, EndHangsUpStep, LastLinePlayedStep DEF Ends
<1>4. ASSUME Asks PROVE VoiceInv'
  BY <1>4, ClockFiresStep, ProbeFailsStep, ProbeAnsweredStep DEF Asks
<1>5. ASSUME NEW i \in Speeches, NEW item \in BOOLEAN, BargeIn(i, item) PROVE VoiceInv'
  BY <1>5, BargeInStep
<1>6. ASSUME NEW t \in TurnIds, Turn(t) \/ TakeDelta(t) PROVE VoiceInv'
  BY <1>6, TurnStep, TakeDeltaStep
<1>7. QED
  BY <1>1, <1>2, <1>3, <1>4, <1>5, <1>6, AnsweredStep, DialFailsStep, VoicemailLeftStep,
     UserSpeaksStep, UserMumblesStep, SessionClosesStep DEF InCall

LEMMA Idle == ASSUME VoiceInv, UNCHANGED vars PROVE VoiceInv'
<1>1. StreamsStay /\ UNCHANGED <<speech, ledger>>
  BY StreamsUnchanged DEF VoiceInv, vars, ledger
<1>2. Lined' /\ OverStays
  BY <1>1, LinedQuiet
<1>3. ReportsWaited'
  BY <1>2, WaitedStays DEF vars, ledger, ending
<1>4. Scalars' /\ ClockRuns'
  BY DEF VoiceInv, TypeOK, vars, Scalars, ClockRuns, AllOver, Speeches, silence, ending
<1>5. QED
  BY <1>2, <1>3, <1>4, Whole

(* Every reachable state of a call satisfies VoiceInv: what is open, reported  *)
(* and noted of the lines agrees with what became of them.                  *)
THEOREM VoiceInvariance == Spec => []VoiceInv
<1>1. VoiceInv /\ [Next]_vars => VoiceInv'
  BY InCallStep, Idle DEF Next
<1>2. QED
  BY Initially, <1>1, PTL DEF Spec

(* No report says a line was heard in full that was cut, stalled or never      *)
(* spoken, whatever the order of items, barge-ins and the call's end.        *)
THEOREM ReportsAreTrue == Spec => []HeardIsTrue
<1>1. VoiceInv => HeardIsTrue
  BY DEF VoiceInv
<1>2. QED
  BY <1>1, VoiceInvariance, PTL

LEMMA Accounted == ASSUME VoiceInv PROVE SegmentsAccounted
<1>1. ReportsOnce /\ ReportsWaited /\ MeteredOnce
  BY DEF VoiceInv
<1>2. ASSUME NEW i \in Segments, IsOpen(i) PROVE Cardinality(ReportsOf(i)) = 0
  <2>1. ReportsOf(i) = {}
    BY <1>1, <1>2 DEF ReportsOnce, ReportsOf
  <2>2. QED
    BY <2>1, FS_EmptySet
<1>3. ASSUME NEW i \in Segments, ~IsOpen(i) PROVE Cardinality(ReportsOf(i)) = 1
  <2>1. PICK k \in DOMAIN reports : reports[k].segment = i
    BY <1>1, <1>3 DEF ReportsOnce
  <2>2. ReportsOf(i) = {k}
    BY <1>1, <2>1 DEF ReportsOnce, ReportsOf
  <2>3. QED
    BY <2>2, FS_Singleton
<1>4. ASSUME drained, NEW i \in waiting \cap Segments, NEW k \in DOMAIN reports,
             reports[k].segment = i, speech[i].heard = "full"
      PROVE  reports[k].full
  BY <1>1, <1>4 DEF ReportsWaited
<1>5. QED
  BY <1>1, <1>2, <1>3, <1>4 DEF SegmentsAccounted, MeteredOnce

(* No report is lost or made twice, the lines the end waited for are reported  *)
(* as they were heard, and the numbers of a turn go out once.                *)
THEOREM NothingUnreported == Spec => []SegmentsAccounted
BY Accounted, VoiceInvariance, PTL

(* A quiet call has a deadline, after any number of nudges, failed probes,     *)
(* barge-ins and turns that said nothing.                                  *)
THEOREM QuietCallTimed == Spec => []DeadlineAlways
<1>1. VoiceInv => DeadlineAlways
  BY DEF VoiceInv, ClockRuns, AllOver, DeadlineAlways, Quiet
<1>2. QED
  BY <1>1, VoiceInvariance, PTL
=============================================================================
