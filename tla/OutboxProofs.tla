---------------------------- MODULE OutboxProofs ----------------------------
(***************************************************************************)
(* For any jobs, servers, budgets and losses: while no live server holds a  *)
(* job longer than its lease, a job is in one server's hands at a time, its *)
(* results are written once, and it costs at most its retries.              *)
(***************************************************************************)
EXTENDS Outbox, TLAPS

USE DEF InHand, Working, None

(* What every step of a batch about one of its jobs may rely on.            *)
LEMMA InHandFacts ==
    ASSUME OutboxInv, NEW s \in Servers, NEW j \in Jobs, InHand(s, j)
    PROVE  /\ job[j].status = "CLAIMED" /\ ~job[j].due /\ job[j].retry \in Nat
           /\ job[j].retry = work[s][j].seen
           /\ \A other \in Servers \ {s} : ~InHand(other, j)
           /\ ~Abandoned(j) /\ processed[j] = 0 /\ starts[j] \in Nat
  <1>1. job[j].status = "CLAIMED" /\ ~job[j].due /\ job[j].retry = work[s][j].seen
        /\ \A other \in Servers \ {s} : ~InHand(other, j)
    BY DEF OutboxInv, OneOwner
  <1>2. ~Abandoned(j)
    BY DEF Abandoned
  <1>3. processed[j] = 0
    BY <1>1 DEF OutboxInv, DoneOnce
  <1>4. job[j].retry \in Nat /\ starts[j] \in Nat
    BY DEF OutboxInv, TypeOK
  <1> QED
    BY <1>1, <1>2, <1>3, <1>4

(* A batch may write what it likes about a job in its hands: the invariant  *)
(* asks only for the row it leaves and the attempts begun on it.            *)
LEMMA WrittenKeeps ==
    ASSUME OutboxInv, NEW s \in Servers, NEW j \in Jobs, InHand(s, j),
           NEW status \in {"PENDING", "DONE", "FAILED"}, NEW retry \in Nat,
           Written(s, j, status, retry),
           starts' = starts, losses' = losses,
           processed' = [processed EXCEPT ![j] = IF status = "DONE" THEN 1 ELSE 0],
           status = "PENDING" => retry < Retries /\ starts[j] <= retry,
           status = "DONE" => retry < Retries /\ starts[j] <= retry + 1,
           status = "FAILED" => retry >= Retries
    PROVE  OutboxInv'
  <1> USE RetriesAssumption
  <1>1. TypeOK /\ TypeOK'
    BY DEF OutboxInv, TypeOK, Written
  <1>2. /\ job' = [job EXCEPT ![j] = [status |-> status, retry |-> retry, due |-> FALSE]]
        /\ work' = [work EXCEPT ![s][j] = None]
    BY DEF Written
  <1>3. \A other \in Servers : ~InHand(other, j)'
    BY <1>1, <1>2, InHandFacts DEF TypeOK
  <1>4. \A k \in Jobs \ {j} : /\ job'[k] = job[k] /\ starts'[k] = starts[k]
                              /\ processed'[k] = processed[k]
                              /\ \A other \in Servers : work'[other][k] = work[other][k]
    BY <1>1, <1>2 DEF TypeOK
  <1>5. job'[j] = [status |-> status, retry |-> retry, due |-> FALSE]
    BY <1>1, <1>2 DEF TypeOK
  <1>6. OneOwner'
    BY <1>3, <1>4 DEF OutboxInv, OneOwner
  <1>7. DoneOnce'
    BY <1>1, <1>4, <1>5 DEF OutboxInv, DoneOnce, TypeOK
  <1>8. AttemptsBounded'
    BY <1>4, <1>5 DEF OutboxInv, AttemptsBounded
  <1>9. ChargedForEach'
    <2> SUFFICES ASSUME NEW k \in Jobs
                 PROVE  /\ starts'[k] <= job'[k].retry
                                + (IF InProgress(k)' \/ Abandoned(k)' \/ job'[k].status = "DONE"
                                   THEN 1 ELSE 0)
                        /\ InProgress(k)' \/ job'[k].status \in {"ABSENT", "PENDING"} => job'[k].retry < Retries
      BY DEF ChargedForEach
    <2>1. CASE k = j
      <3>1. ~InProgress(k)' /\ ~Abandoned(k)'
        BY <1>3, <1>5, <2>1 DEF InProgress, Abandoned
      <3>2. CASE status = "FAILED"
        BY <3>1, <3>2, <2>1, <1>1, <1>5 DEF OutboxInv, AttemptsBounded, TypeOK
      <3>3. CASE status # "FAILED"
        BY <3>1, <3>3, <2>1, <1>5
      <3> QED
        BY <3>2, <3>3
    <2>2. CASE k # j
      <3>1. (InProgress(k)' <=> InProgress(k)) /\ (Abandoned(k)' <=> Abandoned(k))
        BY <1>4, <2>2 DEF InProgress, Abandoned
      <3> QED
        BY <3>1, <1>4, <2>2 DEF OutboxInv, ChargedForEach
    <2> QED
      BY <2>1, <2>2
  <1>10. DueIsOpen'
    BY <1>4, <1>5 DEF OutboxInv, DueIsOpen
  <1> QED
    BY <1>1, <1>6, <1>7, <1>8, <1>9, <1>10 DEF OutboxInv

-----------------------------------------------------------------------------
(* The actions.                                                            *)

LEMMA InitKeeps == Init => OutboxInv
  <1> USE RetriesAssumption DEF Init
  <1> SUFFICES ASSUME Init PROVE OutboxInv
    OBVIOUS
  <1>1. TypeOK
    BY DEF TypeOK
  <1>2. OneOwner /\ DoneOnce /\ AttemptsBounded /\ DueIsOpen
    BY DEF OneOwner, DoneOnce, AttemptsBounded, DueIsOpen
  <1>3. ChargedForEach
    BY DEF ChargedForEach, InProgress, Abandoned
  <1> QED
    BY <1>1, <1>2, <1>3 DEF OutboxInv

(* The row of a job no server holds becomes due, or is first inserted: its  *)
(* attempts stay as they are.                                              *)
LEMMA RowStepKeeps ==
    ASSUME OutboxInv, NEW j \in Jobs, ~HeldLive(j),
           NEW status \in {"PENDING", "CLAIMED"},
           job' = [job EXCEPT ![j].status = status, ![j].due = TRUE],
           status = job[j].status \/ (status = "PENDING" /\ job[j].status = "ABSENT"),
           UNCHANGED <<work, starts, processed, losses>>
    PROVE  OutboxInv'
  <1> USE RetriesAssumption
  <1>1. TypeOK /\ TypeOK'
    BY DEF OutboxInv, TypeOK
  <1>2. /\ job'[j].status = status /\ job'[j].retry = job[j].retry /\ job'[j].due
        /\ \A k \in Jobs \ {j} : job'[k] = job[k]
        /\ \A k \in Jobs : InProgress(k)' <=> InProgress(k)
        /\ work' = work
    BY <1>1 DEF TypeOK, InProgress
  <1>3. OneOwner'
    <2> SUFFICES ASSUME NEW s \in Servers, NEW k \in Jobs, InHand(s, k)'
                 PROVE  /\ job'[k].status = "CLAIMED" /\ ~job'[k].due
                        /\ job'[k].retry = work'[s][k].seen
                        /\ \A other \in Servers \ {s} : ~InHand(other, k)'
      BY DEF OneOwner
    <2>1. InHand(s, k) /\ k # j
      BY <1>2 DEF HeldLive
    <2>2. /\ job[k].status = "CLAIMED" /\ ~job[k].due /\ job[k].retry = work[s][k].seen
          /\ \A other \in Servers \ {s} : ~InHand(other, k)
      BY <2>1, InHandFacts
    <2>3. job'[k] = job[k]
      BY <1>2, <2>1
    <2> QED
      BY <1>2, <2>2, <2>3
  <1>4. DoneOnce' /\ AttemptsBounded' /\ DueIsOpen'
    BY <1>1, <1>2 DEF OutboxInv, DoneOnce, AttemptsBounded, DueIsOpen, TypeOK
  <1>5. ~InProgress(j)
    BY DEF InProgress, HeldLive
  <1>6. Abandoned(j) => Abandoned(j)'
    BY <1>2 DEF Abandoned
  <1>7. starts[j] \in Nat /\ job[j].retry \in Nat
    BY <1>1 DEF TypeOK
  <1>8. ChargedForEach'
    <2> SUFFICES ASSUME NEW k \in Jobs
                 PROVE  /\ starts[k] <= job'[k].retry
                                + (IF InProgress(k)' \/ Abandoned(k)' \/ job'[k].status = "DONE"
                                   THEN 1 ELSE 0)
                        /\ InProgress(k)' \/ job'[k].status \in {"ABSENT", "PENDING"} => job'[k].retry < Retries
      BY DEF ChargedForEach
    <2>1. CASE k = j
      <3>1. starts[j] <= job[j].retry + (IF Abandoned(j) THEN 1 ELSE 0)
        BY <1>2, <1>5 DEF OutboxInv, ChargedForEach, DueIsOpen
      <3>2. job'[j].status = "PENDING" => job[j].retry < Retries
        BY <1>2 DEF OutboxInv, ChargedForEach
      <3> QED
        BY <3>1, <3>2, <2>1, <1>2, <1>5, <1>6, <1>7
    <2>2. CASE k # j
      <3>1. Abandoned(k)' <=> Abandoned(k)
        BY <1>2, <2>2 DEF Abandoned
      <3> QED
        BY <3>1, <1>2, <2>2 DEF OutboxInv, ChargedForEach
    <2> QED
      BY <2>1, <2>2
  <1> QED
    BY <1>1, <1>3, <1>4, <1>8 DEF OutboxInv

(* A server holds only what is CLAIMED.                                    *)
LEMMA NotClaimedFree == ASSUME OutboxInv, NEW j \in Jobs, job[j].status # "CLAIMED" PROVE ~HeldLive(j)
BY DEF OutboxInv, OneOwner, HeldLive

LEMMA EnqueueKeeps == ASSUME OutboxInv, NEW j \in Jobs, Enqueue(j) PROVE OutboxInv'
BY RowStepKeeps, NotClaimedFree DEF Enqueue

LEMMA BackoffOverKeeps == ASSUME OutboxInv, NEW j \in Jobs, BackoffOver(j) PROVE OutboxInv'
  <1>1. job' = [job EXCEPT ![j].status = job[j].status, ![j].due = TRUE]
    BY DEF BackoffOver, OutboxInv, TypeOK
  <1> QED
    BY <1>1, RowStepKeeps, NotClaimedFree DEF BackoffOver

(* The one step that needs the timely server: a lease ends in nobody's hands. *)
LEMMA LeaseOverKeeps ==
    ASSUME Timely, OutboxInv, NEW j \in Jobs, LeaseOver(j) PROVE OutboxInv'
  <1>1. job' = [job EXCEPT ![j].status = job[j].status, ![j].due = TRUE]
    BY DEF LeaseOver, OutboxInv, TypeOK
  <1> QED
    BY <1>1, RowStepKeeps DEF LeaseOver, LeaseAlive, Leased

LEMMA GiveUpKeeps ==
    ASSUME OutboxInv, NEW s \in Servers, NEW j \in Jobs, GiveUp(s, j) PROVE OutboxInv'
  <1>1. InHand(s, j)
    BY DEF GiveUp
  <1>2. job[j].retry >= Retries
    BY <1>1, InHandFacts DEF GiveUp, Spent
  <1>3. processed' = [processed EXCEPT ![j] = 0]
    BY <1>1, InHandFacts DEF GiveUp, OutboxInv, TypeOK
  <1> QED
    BY <1>1, <1>2, <1>3, InHandFacts, WrittenKeeps DEF GiveUp

(* A job that is being worked on has an attempt to spare.                   *)
LEMMA InProgressFacts ==
    ASSUME OutboxInv, NEW s \in Servers, NEW j \in Jobs,
           work[s][j].at \in {"working", "failed"}
    PROVE  job[j].retry < Retries /\ starts[j] <= job[j].retry + 1
  <1>1. InProgress(j)
    BY DEF InProgress
  <1> QED
    BY <1>1 DEF OutboxInv, ChargedForEach

LEMMA FinishKeeps ==
    ASSUME OutboxInv, NEW s \in Servers, NEW j \in Jobs, Finish(s, j) PROVE OutboxInv'
  <1>1. InHand(s, j) /\ work[s][j].at = "working"
    BY DEF Finish
  <1>2. processed' = [processed EXCEPT ![j] = 1]
    <2>1. processed[j] = 0
      BY <1>1, InHandFacts
    <2>2. processed' = [processed EXCEPT ![j] = processed[j] + 1]
      BY DEF Finish
    <2> QED
      BY <2>1, <2>2
  <1> QED
    BY <1>1, <1>2, InHandFacts, InProgressFacts, WrittenKeeps DEF Finish

LEMMA RescheduleKeeps ==
    ASSUME OutboxInv, NEW s \in Servers, NEW j \in Jobs, Reschedule(s, j) PROVE OutboxInv'
  <1> DEFINE retry == work[s][j].seen + 1
             status == IF Spent(retry) THEN "FAILED" ELSE "PENDING"
  <1>1. InHand(s, j) /\ work[s][j].at = "failed"
    BY DEF Reschedule
  <1>2. processed' = [processed EXCEPT ![j] = 0]
    BY <1>1, InHandFacts DEF Reschedule, OutboxInv, TypeOK
  <1>3. retry \in Nat /\ starts[j] <= retry
    BY <1>1, InHandFacts, InProgressFacts
  <1>4. /\ status \in {"PENDING", "FAILED"}
        /\ status = "FAILED" => retry >= Retries
        /\ status = "PENDING" => retry < Retries
    BY <1>3, RetriesAssumption DEF Spent
  <1>5. Written(s, j, status, retry) /\ starts' = starts /\ losses' = losses
    BY DEF Reschedule
  <1> HIDE DEF retry, status
  <1> QED
    BY <1>1, <1>2, <1>3, <1>4, <1>5, WrittenKeeps

(* Begin and Fail move a job along in the hands that hold it.               *)
LEMMA AlongKeeps ==
    ASSUME OutboxInv, NEW s \in Servers, NEW j \in Jobs, InHand(s, j),
           NEW step \in {"working", "failed"}, work' = [work EXCEPT ![s][j].at = step],
           NEW begun \in Nat, starts' = [starts EXCEPT ![j] = begun],
           job[j].retry < Retries, begun <= job[j].retry + 1,
           UNCHANGED <<job, processed, losses>>
    PROVE  OutboxInv'
  <1> USE RetriesAssumption
  <1>1. TypeOK /\ TypeOK'
    BY DEF OutboxInv, TypeOK
  <1>2. /\ \A other \in Servers, k \in Jobs : /\ InHand(other, k)' <=> InHand(other, k)
                                             /\ work'[other][k].seen = work[other][k].seen
        /\ \A other \in Servers, k \in Jobs \ {j} : work'[other][k] = work[other][k]
        /\ work'[s][j].at \in {"working", "failed"}
    BY <1>1 DEF TypeOK
  <1>3. /\ starts'[j] = begun /\ job[j].retry \in Nat
        /\ \A k \in Jobs \ {j} : starts'[k] = starts[k]
    BY <1>1 DEF TypeOK
  <1>4. OneOwner'
    BY <1>2 DEF OutboxInv, OneOwner
  <1>5. DoneOnce' /\ DueIsOpen'
    BY DEF OutboxInv, DoneOnce, DueIsOpen
  <1>6. AttemptsBounded'
    BY <1>3 DEF OutboxInv, AttemptsBounded
  <1>7. ChargedForEach'
    <2> SUFFICES ASSUME NEW k \in Jobs
                 PROVE  /\ starts'[k] <= job[k].retry
                                + (IF InProgress(k)' \/ Abandoned(k)' \/ job[k].status = "DONE"
                                   THEN 1 ELSE 0)
                        /\ InProgress(k)' \/ job[k].status \in {"ABSENT", "PENDING"}
                               => job[k].retry < Retries
      BY DEF ChargedForEach
    <2>1. CASE k = j
      <3>1. InProgress(j)'
        BY <1>2 DEF InProgress
      <3> QED
        BY <3>1, <2>1, <1>3
    <2>2. CASE k # j
      <3>1. (InProgress(k)' <=> InProgress(k)) /\ (Abandoned(k)' <=> Abandoned(k))
        BY <1>2, <2>2 DEF InProgress, Abandoned
      <3> QED
        BY <3>1, <1>3, <2>2 DEF OutboxInv, ChargedForEach
    <2> QED
      BY <2>1, <2>2
  <1> QED
    BY <1>1, <1>4, <1>5, <1>6, <1>7 DEF OutboxInv

LEMMA BeginKeeps ==
    ASSUME OutboxInv, NEW s \in Servers, NEW j \in Jobs, Begin(s, j) PROVE OutboxInv'
  <1>1. InHand(s, j) /\ work[s][j].at = "queued"
    BY DEF Begin
  <1>2. job[j].retry < Retries
    BY <1>1, InHandFacts, RetriesAssumption DEF Begin, Spent
  <1>3. ~InProgress(j)
    BY <1>1, InHandFacts DEF InProgress
  <1>4. starts[j] <= job[j].retry
    BY <1>1, <1>3, InHandFacts DEF OutboxInv, ChargedForEach
  <1>5. starts' = [starts EXCEPT ![j] = starts[j] + 1]
    BY DEF Begin
  <1>6. starts[j] + 1 \in Nat /\ starts[j] + 1 <= job[j].retry + 1
    BY <1>1, <1>4, InHandFacts
  <1>7. work' = [work EXCEPT ![s][j].at = "working"] /\ UNCHANGED <<job, processed, losses>>
    BY DEF Begin
  <1> QED
    BY <1>1, <1>2, <1>5, <1>6, <1>7, AlongKeeps

LEMMA FailKeeps ==
    ASSUME OutboxInv, NEW s \in Servers, NEW j \in Jobs, Fail(s, j) PROVE OutboxInv'
  <1>1. InHand(s, j) /\ work[s][j].at = "working"
    BY DEF Fail
  <1>2. starts' = [starts EXCEPT ![j] = starts[j]]
    BY DEF Fail, OutboxInv, TypeOK
  <1>3. job[j].retry < Retries /\ starts[j] <= job[j].retry + 1 /\ starts[j] \in Nat
    BY <1>1, InHandFacts, InProgressFacts
  <1>4. work' = [work EXCEPT ![s][j].at = "failed"] /\ UNCHANGED <<job, processed, losses>>
    BY DEF Fail
  <1> QED
    BY <1>1, <1>2, <1>3, <1>4, AlongKeeps

(* A lost batch leaves its jobs CLAIMED and abandoned, one charge short.    *)
LEMMA LoseKeeps ==
    ASSUME OutboxInv, NEW s \in Servers, Lose(s), UNCHANGED <<job, starts, processed>>,
           losses' \in Nat
    PROVE  OutboxInv'
  <1> USE RetriesAssumption
  <1>1. TypeOK /\ TypeOK'
    BY DEF OutboxInv, TypeOK, Lose
  <1>2. /\ \A k \in Jobs : ~InHand(s, k)'
        /\ \A other \in Servers \ {s}, k \in Jobs : work'[other][k] = work[other][k]
    BY <1>1 DEF TypeOK, Lose
  <1>3. OneOwner'
    BY <1>2 DEF OutboxInv, OneOwner
  <1>4. DoneOnce' /\ DueIsOpen' /\ AttemptsBounded'
    BY DEF OutboxInv, DoneOnce, DueIsOpen, AttemptsBounded
  <1>5. ChargedForEach'
    <2> SUFFICES ASSUME NEW k \in Jobs
                 PROVE  /\ starts[k] <= job[k].retry
                                + (IF InProgress(k)' \/ Abandoned(k)' \/ job[k].status = "DONE"
                                   THEN 1 ELSE 0)
                        /\ InProgress(k)' \/ job[k].status \in {"ABSENT", "PENDING"}
                               => job[k].retry < Retries
      BY DEF ChargedForEach
    <2>1. InProgress(k)' => InProgress(k)
      BY <1>2 DEF InProgress
    <2>2. InProgress(k) \/ Abandoned(k) => InProgress(k)' \/ Abandoned(k)'
      <3>1. CASE InProgress(k)
        <4>1. PICK w \in Servers : work[w][k].at \in {"working", "failed"}
          BY <3>1 DEF InProgress
        <4>2. CASE w = s
          <5>1. job[k].status = "CLAIMED" /\ \A other \in Servers \ {s} : ~InHand(other, k)
            BY <4>1, <4>2, InHandFacts
          <5> QED
            BY <5>1, <1>2 DEF Abandoned
        <4>3. CASE w # s
          BY <4>1, <4>3, <1>2 DEF InProgress
        <4> QED
          BY <4>2, <4>3
      <3>2. CASE Abandoned(k)
        BY <3>2, <1>2 DEF Abandoned
      <3> QED
        BY <3>1, <3>2
    <2>3. starts[k] \in Nat /\ job[k].retry \in Nat
      BY <1>1 DEF TypeOK
    <2> QED
      BY <2>1, <2>2, <2>3 DEF OutboxInv, ChargedForEach
  <1> QED
    BY <1>1, <1>3, <1>4, <1>5 DEF OutboxInv

(* A claim takes due jobs only, which nobody holds; a reclaimed one pays    *)
(* for the attempt its last server abandoned.                              *)
LEMMA ClaimKeeps ==
    ASSUME OutboxInv, NEW s \in Servers, NEW batch \in SUBSET Jobs, Claim(s, batch)
    PROVE  OutboxInv'
  <1> USE RetriesAssumption
  <1>1. \A j \in batch : /\ job[j].due /\ job[j].status \in {"PENDING", "CLAIMED"}
                         /\ \A other \in Servers : ~InHand(other, j)
    BY DEF Claim, OutboxInv, OneOwner, DueIsOpen
  <1>2. \A j \in Jobs : job[j].retry \in Nat /\ starts[j] \in Nat /\ Charged(j) \in Nat
    BY DEF OutboxInv, TypeOK, Charged
  <1>3. \A j \in batch : starts[j] <= Charged(j) /\ starts[j] <= Retries
    <2> SUFFICES ASSUME NEW j \in batch
                 PROVE  starts[j] <= Charged(j) /\ starts[j] <= Retries
      OBVIOUS
    <2>1. ~InProgress(j) /\ (Abandoned(j) <=> job[j].status = "CLAIMED")
      BY <1>1 DEF InProgress, Abandoned
    <2>2. starts[j] <= job[j].retry + (IF job[j].status = "CLAIMED" THEN 1 ELSE 0)
      BY <1>1, <2>1 DEF OutboxInv, ChargedForEach
    <2> QED
      BY <2>2 DEF Charged, OutboxInv, AttemptsBounded
  <1>4. TypeOK'
    <2>1. job' \in [Jobs -> [status : {"ABSENT", "PENDING", "CLAIMED", "DONE", "FAILED"},
                             retry : Nat, due : BOOLEAN]]
      BY <1>2 DEF Claim, OutboxInv, TypeOK, ExpiredAtClaim
    <2>2. [j \in Jobs |-> IF j \in batch THEN [at |-> "queued", seen |-> Charged(j)]
                                          ELSE work[s][j]]
             \in [Jobs -> [at : {"none", "queued", "working", "failed"}, seen : Nat]]
      BY <1>2 DEF OutboxInv, TypeOK
    <2>3. work' \in [Servers -> [Jobs -> [at : {"none", "queued", "working", "failed"}, seen : Nat]]]
      BY <2>2 DEF Claim, OutboxInv, TypeOK
    <2> QED
      BY <2>1, <2>3 DEF Claim, OutboxInv, TypeOK
  <1>5. /\ \A j \in batch : /\ job'[j].status = "CLAIMED" /\ ~job'[j].due
                            /\ job'[j].retry = Charged(j)
        /\ \A j \in Jobs \ batch : job'[j] = job[j]
    BY DEF Claim, ExpiredAtClaim
  <1>6. /\ \A j \in batch : work'[s][j].at = "queued" /\ work'[s][j].seen = Charged(j)
        /\ \A j \in Jobs \ batch : work'[s][j] = work[s][j]
        /\ \A other \in Servers \ {s} : work'[other] = work[other]
    BY DEF Claim, OutboxInv, TypeOK
  <1>7. \A j \in Jobs : ~InHand(s, j)
    BY DEF Claim
  <1>8. UNCHANGED <<starts, processed, losses>>
    BY DEF Claim
  <1>9. OneOwner'
    <2> SUFFICES ASSUME NEW w \in Servers, NEW j \in Jobs, InHand(w, j)'
                 PROVE  /\ job'[j].status = "CLAIMED" /\ ~job'[j].due
                        /\ job'[j].retry = work'[w][j].seen
                        /\ \A other \in Servers \ {w} : ~InHand(other, j)'
      BY DEF OneOwner
    <2>1. CASE j \in batch
      <3>1. w = s
        BY <2>1, <1>1, <1>6
      <3> QED
        BY <3>1, <2>1, <1>1, <1>5, <1>6
    <2>2. CASE j \notin batch
      <3>1. InHand(w, j) /\ w # s
        BY <2>2, <1>6, <1>7
      <3>2. /\ job[j].status = "CLAIMED" /\ ~job[j].due /\ job[j].retry = work[w][j].seen
            /\ \A other \in Servers \ {w} : ~InHand(other, j)
        BY <3>1, InHandFacts
      <3> QED
        BY <3>1, <3>2, <2>2, <1>5, <1>6
    <2> QED
      BY <2>1, <2>2
  <1>10. DoneOnce' /\ DueIsOpen'
    <2> SUFFICES ASSUME NEW j \in Jobs
                 PROVE  /\ processed[j] = IF job'[j].status = "DONE" THEN 1 ELSE 0
                        /\ job'[j].due => job'[j].status \in {"PENDING", "CLAIMED"}
      BY <1>8 DEF DoneOnce, DueIsOpen
    <2>1. CASE j \in batch
      BY <2>1, <1>1, <1>5 DEF OutboxInv, DoneOnce
    <2>2. CASE j \notin batch
      BY <2>2, <1>5 DEF OutboxInv, DoneOnce, DueIsOpen
    <2> QED
      BY <2>1, <2>2
  <1>11. AttemptsBounded'
    <2> SUFFICES ASSUME NEW j \in Jobs
                 PROVE  starts[j] <= Retries /\ (job'[j].status = "FAILED" => job'[j].retry >= Retries)
      BY <1>8 DEF AttemptsBounded
    <2>1. CASE j \in batch
      BY <2>1, <1>3, <1>5
    <2>2. CASE j \notin batch
      BY <2>2, <1>5 DEF OutboxInv, AttemptsBounded
    <2> QED
      BY <2>1, <2>2
  <1>12. ChargedForEach'
    <2> SUFFICES ASSUME NEW j \in Jobs
                 PROVE  /\ starts[j] <= job'[j].retry
                                + (IF InProgress(j)' \/ Abandoned(j)' \/ job'[j].status = "DONE"
                                   THEN 1 ELSE 0)
                        /\ InProgress(j)' \/ job'[j].status \in {"ABSENT", "PENDING"}
                               => job'[j].retry < Retries
      BY <1>8 DEF ChargedForEach
    <2>1. CASE j \in batch
      <3>1. ~InProgress(j)'
        BY <2>1, <1>1, <1>6 DEF InProgress
      <3> QED
        BY <3>1, <2>1, <1>2, <1>3, <1>5
    <2>2. CASE j \notin batch
      <3>1. (InProgress(j)' <=> InProgress(j)) /\ (Abandoned(j)' <=> Abandoned(j))
        BY <2>2, <1>5, <1>6 DEF InProgress, Abandoned
      <3> QED
        BY <3>1, <2>2, <1>5 DEF OutboxInv, ChargedForEach
    <2> QED
      BY <2>1, <2>2
  <1> QED
    BY <1>4, <1>9, <1>10, <1>11, <1>12 DEF OutboxInv

LEMMA NextKeeps == ASSUME Timely, OutboxInv, [Next]_vars PROVE OutboxInv'
  <1>1. ASSUME NEW j \in Jobs, Enqueue(j) \/ BackoffOver(j) \/ LeaseOver(j) PROVE OutboxInv'
    BY <1>1, EnqueueKeeps, BackoffOverKeeps, LeaseOverKeeps
  <1>2. ASSUME NEW s \in Servers, NEW batch \in SUBSET Jobs, Claim(s, batch) PROVE OutboxInv'
    BY <1>2, ClaimKeeps
  <1>3. ASSUME NEW s \in Servers, NEW j \in Jobs, JobStep(s, j) PROVE OutboxInv'
    BY <1>3, GiveUpKeeps, BeginKeeps, FinishKeeps, FailKeeps, RescheduleKeeps DEF JobStep
  <1>4. ASSUME NEW s \in Servers, Poisoned(s) \/ Lost(s) PROVE OutboxInv'
    <2>1. losses' \in Nat
      BY <1>4 DEF Poisoned, Lost, OutboxInv, TypeOK
    <2> QED
      BY <1>4, <2>1, LoseKeeps DEF Poisoned, Lost
  <1>5. CASE UNCHANGED vars
    <2>1. UNCHANGED <<job, work, starts, processed, losses>>
      BY <1>5 DEF vars
    <2> QED
      BY <2>1 DEF OutboxInv, TypeOK, OneOwner, DoneOnce, AttemptsBounded, ChargedForEach,
                  DueIsOpen, InProgress, Abandoned
  <1> QED
    BY <1>1, <1>2, <1>3, <1>4, <1>5 DEF Next

-----------------------------------------------------------------------------
(* The results.                                                            *)

(* The inductive invariant of the outbox, for servers that keep their lease. *)
THEOREM OutboxInvariance == ASSUME Timely PROVE Spec => []OutboxInv
  <1>1. Init => OutboxInv
    BY InitKeeps
  <1>2. OutboxInv /\ [Next]_vars => OutboxInv'
    BY NextKeeps
  <1> QED
    BY <1>1, <1>2, PTL DEF Spec

(* A claimed job is in one server's hands, and what that server knows of    *)
(* its budget is what the row says (claimDueJobs).                         *)
THEOREM LeaseIsALock == ASSUME Timely PROVE Spec => []OneOwner
  <1>1. OutboxInv => OneOwner
    BY DEF OutboxInv
  <1> QED
    BY <1>1, OutboxInvariance, PTL

(* However often servers are lost, a job's results are written at most once  *)
(* (processJobTx), and exactly if it is DONE.                               *)
THEOREM ResultsOnce == ASSUME Timely PROVE Spec => []DoneOnce
  <1>1. OutboxInv => DoneOnce
    BY DEF OutboxInv
  <1> QED
    BY <1>1, OutboxInvariance, PTL

(* A job costs at most retriesFor attempts, those that killed their server  *)
(* included, and is not given up before (runOnce, bumpRetryOnReclaim).      *)
THEOREM BudgetHolds == ASSUME Timely PROVE Spec => []AttemptsBounded
  <1>1. OutboxInv => AttemptsBounded
    BY DEF OutboxInv
  <1> QED
    BY <1>1, OutboxInvariance, PTL
-----------------------------------------------------------------------------
(* The refinement.                                                          *)

(* Who works on a job has begun a try of it.                                *)
Begun == \A s \in Servers, j \in Jobs : work[s][j].at \in {"working", "failed"} => starts[j] > 0

LEMMA BegunKeeps == ASSUME OutboxInv, Begun, [Next]_vars PROVE Begun'
  <1> USE DEF Begun
  <1>1. TypeOK
    BY DEF OutboxInv
  <1>2. ASSUME NEW j \in Jobs, Enqueue(j) \/ BackoffOver(j) \/ LeaseOver(j) PROVE Begun'
    BY <1>2 DEF Enqueue, BackoffOver, LeaseOver
  <1>3. ASSUME NEW s \in Servers, NEW batch \in SUBSET Jobs, Claim(s, batch) PROVE Begun'
    <2> SUFFICES ASSUME NEW w \in Servers, NEW j \in Jobs, work'[w][j].at \in {"working", "failed"}
                 PROVE  starts[j] > 0
      BY <1>3 DEF Claim
    <2>1. work[w][j].at \in {"working", "failed"}
      BY <1>1, <1>3 DEF Claim, TypeOK
    <2> QED
      BY <2>1
  <1>4. ASSUME NEW s \in Servers, NEW j \in Jobs, Begin(s, j) PROVE Begun'
    <2> SUFFICES ASSUME NEW w \in Servers, NEW k \in Jobs, work'[w][k].at \in {"working", "failed"}
                 PROVE  starts'[k] > 0
      OBVIOUS
    <2>1. CASE k = j
      BY <2>1, <1>1, <1>4 DEF Begin, TypeOK
    <2>2. CASE k # j
      BY <2>2, <1>1, <1>4 DEF Begin, TypeOK
    <2> QED
      BY <2>1, <2>2
  <1>5. ASSUME NEW s \in Servers, NEW j \in Jobs, Fail(s, j) PROVE Begun'
    BY <1>1, <1>5 DEF Fail, TypeOK
  <1>6. ASSUME NEW s \in Servers, NEW j \in Jobs, GiveUp(s, j) \/ Finish(s, j) \/ Reschedule(s, j)
        PROVE  Begun'
    <2>1. work' = [work EXCEPT ![s][j] = None] /\ starts' = starts
      BY <1>6 DEF GiveUp, Finish, Reschedule, Written
    <2> QED
      BY <2>1, <1>1 DEF TypeOK
  <1>7. ASSUME NEW s \in Servers, Poisoned(s) \/ Lost(s) PROVE Begun'
    <2>1. ASSUME NEW w \in Servers, NEW j \in Jobs
          PROVE  work'[w][j] = work[w][j] \/ work'[w][j] = None
      <3>1. PICK gone \in [Jobs -> {None}] : work' = [work EXCEPT ![s] = gone]
        BY <1>7 DEF Poisoned, Lost, Lose
      <3>2. CASE w = s
        BY <3>1, <3>2, <1>1 DEF TypeOK
      <3>3. CASE w # s
        BY <3>1, <3>3, <1>1 DEF TypeOK
      <3> QED
        BY <3>2, <3>3
    <2>2. starts' = starts
      BY <1>7 DEF Poisoned, Lost
    <2> QED
      BY <2>1, <2>2
  <1>8. CASE UNCHANGED vars
    BY <1>8 DEF vars
  <1> QED
    BY <1>2, <1>3, <1>4, <1>5, <1>6, <1>7, <1>8 DEF Next, JobStep

THEOREM BegunInvariance == ASSUME Timely PROVE Spec => [](OutboxInv /\ Begun)
  <1>1. Init => OutboxInv /\ Begun
    BY InitKeeps DEF Init, Begun
  <1>2. OutboxInv /\ Begun /\ [Next]_vars => (OutboxInv /\ Begun)'
    BY NextKeeps, BegunKeeps
  <1> QED
    BY <1>1, <1>2, PTL DEF Spec

(* A row whose status does not leave its class is at the same stage.        *)
LEMMA StageStays ==
    ASSUME \A j \in Jobs : \/ job'[j].status = job[j].status
                           \/ {job[j].status, job'[j].status} \subseteq {"PENDING", "CLAIMED"}
    PROVE  stageBar' = stageBar
  <1>1. \A j \in Jobs :
            (CASE job'[j].status = "ABSENT" -> "absent" [] job'[j].status = "DONE" -> "done"
               [] job'[j].status = "FAILED" -> "failed" [] OTHER -> "open")
          = (CASE job[j].status = "ABSENT" -> "absent" [] job[j].status = "DONE" -> "done"
               [] job[j].status = "FAILED" -> "failed" [] OTHER -> "open")
    OBVIOUS
  <1> QED
    BY <1>1 DEF stageBar

(* A write of the row of j sets the stage of j and no other.                *)
LEMMA StageSet ==
    ASSUME TypeOK, NEW j \in Jobs, NEW row, job' = [job EXCEPT ![j] = row]
    PROVE  /\ row.status = "PENDING" => stageBar' = [stageBar EXCEPT ![j] = "open"]
           /\ row.status = "DONE" => stageBar' = [stageBar EXCEPT ![j] = "done"]
           /\ row.status = "FAILED" => stageBar' = [stageBar EXCEPT ![j] = "failed"]
  <1> DEFINE Bar(status) == CASE status = "ABSENT" -> "absent" [] status = "DONE" -> "done"
                              [] status = "FAILED" -> "failed" [] OTHER -> "open"
  <1>1. stageBar = [k \in Jobs |-> Bar(job[k].status)]
    BY DEF stageBar
  <1>2. stageBar' = [k \in Jobs |-> Bar(job'[k].status)]
    BY DEF stageBar
  <1>3. Bar("PENDING") = "open" /\ Bar("DONE") = "done" /\ Bar("FAILED") = "failed"
    OBVIOUS
  <1> HIDE DEF Bar
  <1>4. \A k \in Jobs : job'[k] = IF k = j THEN row ELSE job[k]
    BY DEF TypeOK
  <1>5. ASSUME NEW to, Bar(row.status) = to PROVE stageBar' = [stageBar EXCEPT ![j] = to]
    <2>1. \A k \in Jobs : Bar(job'[k].status) = IF k = j THEN to ELSE Bar(job[k].status)
      BY <1>4, <1>5
    <2> QED
      BY <2>1, <1>1, <1>2
  <1> QED
    BY <1>3, <1>5

(* What runOnce writes about a job settles it, or leaves it open.           *)
LEMMA StageWritten ==
    ASSUME OutboxInv, NEW s \in Servers, NEW j \in Jobs, NEW status, NEW retry,
           Written(s, j, status, retry)
    PROVE  /\ status = "PENDING" => stageBar' = [stageBar EXCEPT ![j] = "open"]
           /\ status = "DONE" => stageBar' = [stageBar EXCEPT ![j] = "done"]
           /\ status = "FAILED" => stageBar' = [stageBar EXCEPT ![j] = "failed"]
  <1> DEFINE row == [status |-> status, retry |-> retry, due |-> FALSE]
  <1>1. job' = [job EXCEPT ![j] = row]
    BY DEF Written
  <1>2. row.status = status
    OBVIOUS
  <1>3. TypeOK
    BY DEF OutboxInv
  <1> HIDE DEF row
  <1> QED
    BY <1>1, <1>2, <1>3, StageSet

LEMMA StageOf ==
    ASSUME NEW j \in Jobs
    PROVE  /\ job[j].status = "ABSENT" => stageBar[j] = "absent"
           /\ job[j].status \in {"PENDING", "CLAIMED"} => stageBar[j] = "open"
  BY DEF stageBar

LEMMA EnqueueRefines == ASSUME OutboxInv, NEW j \in Jobs, Enqueue(j) PROVE Ledger!Enqueue(j)
  <1>1. stageBar[j] = "absent"
    BY StageOf DEF Enqueue
  <1>2. TypeOK
    BY DEF OutboxInv
  <1>3. job' = [job EXCEPT ![j] = [job[j] EXCEPT !.status = "PENDING", !.due = TRUE]]
    BY DEF Enqueue
  <1>4. [job[j] EXCEPT !.status = "PENDING", !.due = TRUE].status = "PENDING"
    BY <1>2 DEF TypeOK
  <1>5. stageBar' = [stageBar EXCEPT ![j] = "open"]
    <2> DEFINE row == [job[j] EXCEPT !.status = "PENDING", !.due = TRUE]
    <2>1. job' = [job EXCEPT ![j] = row] /\ row.status = "PENDING"
      BY <1>3, <1>4
    <2> HIDE DEF row
    <2> QED
      BY <2>1, <1>2, StageSet
  <1> QED
    BY <1>1, <1>5 DEF Enqueue, Ledger!Enqueue

LEMMA BeginRefines ==
    ASSUME OutboxInv, NEW s \in Servers, NEW j \in Jobs, Begin(s, j) PROVE Ledger!Try(j)
  <1>1. InHand(s, j) /\ job' = job /\ processed' = processed
    BY DEF Begin
  <1>2. stageBar[j] = "open"
    BY <1>1, InHandFacts, StageOf
  <1>3. job[j].retry < Retries /\ job[j].retry \in Nat
    BY <1>1, InHandFacts, RetriesAssumption DEF Begin, Spent
  <1>4. ~InProgress(j)
    BY <1>1, InHandFacts DEF InProgress, Begin
  <1>5. starts[j] <= job[j].retry
    BY <1>1, <1>4, InHandFacts DEF OutboxInv, ChargedForEach
  <1>6. starts[j] < Retries
    BY <1>1, <1>3, <1>5, InHandFacts, RetriesAssumption
  <1>7. stageBar' = stageBar
    BY <1>1, StageStays
  <1> QED
    BY <1>1, <1>2, <1>6, <1>7 DEF Begin, Ledger!Try

LEMMA FinishRefines ==
    ASSUME OutboxInv, Begun, NEW s \in Servers, NEW j \in Jobs, Finish(s, j)
    PROVE  Ledger!Succeed(j)
  <1>1. InHand(s, j) /\ starts[j] > 0 /\ starts' = starts
    BY DEF Finish, Begun
  <1>2. stageBar[j] = "open" /\ processed[j] = 0
    BY <1>1, InHandFacts, StageOf
  <1>3. processed' = [processed EXCEPT ![j] = 1]
    <2>1. processed' = [processed EXCEPT ![j] = processed[j] + 1]
      BY DEF Finish
    <2> QED
      BY <2>1, <1>2
  <1>4. stageBar' = [stageBar EXCEPT ![j] = "done"]
    BY StageWritten DEF Finish
  <1> QED
    BY <1>1, <1>2, <1>3, <1>4 DEF Ledger!Succeed

LEMMA GivenUpRefines ==
    ASSUME OutboxInv, NEW s \in Servers, NEW j \in Jobs, InHand(s, j), NEW retry,
           Written(s, j, "FAILED", retry), UNCHANGED <<starts, processed>>
    PROVE  Ledger!GiveUp(j)
  <1>1. stageBar[j] = "open"
    BY InHandFacts, StageOf
  <1>2. stageBar' = [stageBar EXCEPT ![j] = "failed"]
    BY StageWritten
  <1> QED
    BY <1>1, <1>2 DEF Ledger!GiveUp

LEMMA RescheduleRefines ==
    ASSUME OutboxInv, NEW s \in Servers, NEW j \in Jobs, Reschedule(s, j)
    PROVE  Ledger!GiveUp(j) \/ UNCHANGED Ledger!ledger
  <1> DEFINE retry == work[s][j].seen + 1
  <1>1. InHand(s, j) /\ UNCHANGED <<starts, processed>>
    BY DEF Reschedule
  <1>2. Written(s, j, IF Spent(retry) THEN "FAILED" ELSE "PENDING", retry)
    BY DEF Reschedule
  <1> HIDE DEF retry
  <1>3. CASE Spent(retry)
    BY <1>1, <1>2, <1>3, GivenUpRefines
  <1>4. CASE ~Spent(retry)
    <2>1. stageBar' = [stageBar EXCEPT ![j] = "open"]
      BY <1>2, <1>4, StageWritten
    <2>2. stageBar[j] = "open"
      BY <1>1, InHandFacts, StageOf
    <2>3. stageBar' = stageBar
      BY <2>1, <2>2 DEF stageBar
    <2> QED
      BY <1>1, <2>3 DEF Ledger!ledger
  <1> QED
    BY <1>3, <1>4

LEMMA StepRefines ==
    ASSUME OutboxInv, Begun, [Next]_vars PROVE [Ledger!Next]_Ledger!ledger
  <1> USE DEF Ledger!ledger
  <1>0. TypeOK
    BY DEF OutboxInv
  <1>1. ASSUME NEW j \in Jobs, Enqueue(j) PROVE Ledger!Next
    BY <1>1, EnqueueRefines DEF Ledger!Next
  <1>2. ASSUME NEW j \in Jobs, BackoffOver(j) \/ LeaseOver(j) PROVE UNCHANGED Ledger!ledger
    <2>1. \A k \in Jobs : job'[k].status = job[k].status
      BY <1>0, <1>2 DEF BackoffOver, LeaseOver, TypeOK
    <2> QED
      BY <2>1, <1>2, StageStays DEF BackoffOver, LeaseOver
  <1>3. ASSUME NEW s \in Servers, NEW batch \in SUBSET Jobs, Claim(s, batch)
        PROVE  UNCHANGED Ledger!ledger
    <2>1. \A k \in Jobs : \/ job'[k].status = job[k].status
                          \/ {job[k].status, job'[k].status} \subseteq {"PENDING", "CLAIMED"}
      BY <1>3 DEF Claim, OutboxInv, DueIsOpen
    <2> QED
      BY <2>1, <1>3, StageStays DEF Claim
  <1>4. ASSUME NEW s \in Servers, NEW j \in Jobs, GiveUp(s, j) PROVE Ledger!Next
    <2>1. Ledger!GiveUp(j)
      BY <1>4, GivenUpRefines DEF GiveUp
    <2> QED
      BY <2>1 DEF Ledger!Next
  <1>5. ASSUME NEW s \in Servers, NEW j \in Jobs, Begin(s, j) PROVE Ledger!Next
    BY <1>5, BeginRefines DEF Ledger!Next
  <1>6. ASSUME NEW s \in Servers, NEW j \in Jobs, Finish(s, j) PROVE Ledger!Next
    BY <1>6, FinishRefines DEF Ledger!Next
  <1>7. ASSUME NEW s \in Servers, NEW j \in Jobs, Reschedule(s, j)
        PROVE  Ledger!Next \/ UNCHANGED Ledger!ledger
    BY <1>7, RescheduleRefines DEF Ledger!Next
  <1>8. ASSUME UNCHANGED job, UNCHANGED <<starts, processed>> PROVE UNCHANGED Ledger!ledger
    BY <1>8, StageStays
  <1>9. ASSUME NEW s \in Servers,
               Poisoned(s) \/ Lost(s) \/ (\E j \in Jobs : Fail(s, j)) \/ UNCHANGED vars
        PROVE  UNCHANGED Ledger!ledger
    BY <1>8, <1>9 DEF Poisoned, Lost, Fail, vars
  <1>10. CASE UNCHANGED vars
    BY <1>8, <1>10 DEF vars
  <1> QED
    BY <1>1, <1>2, <1>3, <1>4, <1>5, <1>6, <1>7, <1>9, <1>10 DEF Next, JobStep

(* The outbox implements the ledger of jobs: with timely servers, every step *)
(* of claims, leases, lost servers and retries is a step of the ledger or   *)
(* none (claimDueJobs, runOnce, processJobTx).                              *)
THEOREM ImplementsLedger == ASSUME Timely PROVE Spec => Implements
  <1>1. Init => Ledger!Init
    BY DEF Init, Ledger!Init, stageBar
  <1>2. OutboxInv /\ Begun /\ [Next]_vars => [Ledger!Next]_Ledger!ledger
    BY StepRefines
  <1> QED
    BY <1>1, <1>2, BegunInvariance, PTL DEF Spec, Implements, Ledger!Spec
=============================================================================
