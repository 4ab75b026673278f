---------------------------- MODULE TelemetryProofs ----------------------------
(***************************************************************************)
(* Proofs about Telemetry: a turn is exported once, and no committed score  *)
(* is lost without a trace. For any turns, recorders and scores, any room   *)
(* in the map of half-known turns, and any number of runs and restarts.    *)
(***************************************************************************)
EXTENDS Telemetry, TLAPS

-----------------------------------------------------------------------------
(* Spans.                                                                  *)

Slots == [ahead : SUBSET Turns, said : BOOLEAN, superseded : BOOLEAN,
          generation : BOOLEAN, latency : BOOLEAN]

SpanTypes ==
  /\ voice \in BOOLEAN
  /\ stage \in [Turns -> {"new", "deciding", "recorded", "failed"}]
  /\ spans \in [Turns -> Nat]
  /\ DOMAIN pending \subseteq Turns
  /\ \A t \in DOMAIN pending : pending[t] \in Slots

(* Only a turn that was recorded can be lost with the memory.               *)
LostRecorded == \A t \in Turns \cap lostTurns : stage[t] = "recorded"

SpanInv == SpanTypes /\ LostRecorded /\ SpansOnce

(* What a turn was exported and what of it waits to be.                     *)
Accounted(t) == spans[t] + (IF t \in Waiting THEN 1 ELSE 0)

(* Slots that leave the map become spans if they have a turn; the others    *)
(* wait as before. About emit.                                             *)
LEMMA EmitCounts ==
  ASSUME spans \in [Turns -> Nat],
         NEW slots, DOMAIN slots \subseteq Turns, \A u \in DOMAIN slots : slots[u] \in Slots,
         NEW T, Emit(slots, T)
  PROVE  /\ spans' \in [Turns -> Nat]
         /\ DOMAIN pending' = DOMAIN slots \ T
         /\ \A u \in DOMAIN pending' :
               /\ pending'[u] \in Slots
               /\ pending'[u].said = slots[u].said
               /\ pending'[u].latency = slots[u].latency
               /\ pending'[u].superseded = slots[u].superseded
         /\ \A u \in Turns :
               spans'[u] = IF u \in T \cap DOMAIN slots /\ slots[u].said THEN spans[u] + 1 ELSE spans[u]
<1>1. pending' = [u \in DOMAIN slots \ T |-> [slots[u] EXCEPT !.ahead = @ \ T]]
  BY DEF Emit, Without
<1>2. ASSUME NEW u \in DOMAIN slots \ T
      PROVE  /\ pending'[u] \in Slots
             /\ pending'[u].said = slots[u].said
             /\ pending'[u].latency = slots[u].latency
             /\ pending'[u].superseded = slots[u].superseded
  <2>1. pending'[u] = [slots[u] EXCEPT !.ahead = @ \ T]
    BY <1>1
  <2>2. slots[u] \in Slots
    OBVIOUS
  <2> QED
    BY <2>1, <2>2 DEF Slots
<1>3. spans' = [u \in Turns |->
          IF u \in T \cap DOMAIN slots /\ slots[u].said THEN spans[u] + 1 ELSE spans[u]]
  BY DEF Emit
<1>4. spans' \in [Turns -> Nat]
  <2>1. \A u \in Turns : spans[u] \in Nat /\ spans[u] + 1 \in Nat
    OBVIOUS
  <2> QED
    BY <1>3, <2>1
<1> QED
  BY <1>1, <1>2, <1>3, <1>4

(* A turn's slot has the type of slots, whether it was there or is made.    *)
LEMMA SlotType ==
  ASSUME SpanTypes, NEW t \in Turns
  PROVE  /\ Slot(t) \in Slots
         /\ Slot(t).said <=> t \in Waiting
         /\ t \in DOMAIN pending => Slot(t) = pending[t]
         /\ t \notin DOMAIN pending => ~Slot(t).latency /\ ~Slot(t).superseded
<1>1. CASE t \in DOMAIN pending
  BY <1>1 DEF SpanTypes, Slot, Waiting
<1>2. CASE t \notin DOMAIN pending
  <2>1. Slot(t) = [ahead |-> DOMAIN pending,
          said |-> FALSE, superseded |-> FALSE, generation |-> FALSE, latency |-> FALSE]
    BY <1>2 DEF Slot
  <2> QED
    BY <1>2, <2>1 DEF SpanTypes, Slots, Waiting
<1> QED
  BY <1>1, <1>2

(* Writing a slot, with what is evicted for it, disturbs no account but that *)
(* of its turn, whose slot waits as written or goes out.                    *)
LEMMA PutCounts ==
  ASSUME SpanTypes, NEW t \in Turns, NEW slot \in Slots, NEW T, Put(t, slot, T)
  PROVE  /\ spans' \in [Turns -> Nat]
         /\ DOMAIN pending' \subseteq Turns
         /\ \A u \in DOMAIN pending' : pending'[u] \in Slots
         /\ \A u \in Turns \ {t} :
               /\ Accounted(u)' = Accounted(u)
               /\ u \in Waiting' =>
                     /\ u \in Waiting
                     /\ pending'[u].latency = pending[u].latency
                     /\ pending'[u].superseded = pending[u].superseded
         /\ IF t \in T
            THEN t \notin Waiting' /\ spans'[t] = IF slot.said THEN spans[t] + 1 ELSE spans[t]
            ELSE /\ spans'[t] = spans[t]
                 /\ t \in Waiting' <=> slot.said
                 /\ t \in DOMAIN pending'
                 /\ pending'[t].latency = slot.latency
                 /\ pending'[t].superseded = slot.superseded
<1> DEFINE slots == [u \in DOMAIN pending \cup {t} |-> IF u = t THEN slot ELSE pending[u]]
           out == Evicted(t) \cup T
<1>1. Emit(slots, out)
  BY DEF Put
<1>2. /\ DOMAIN slots = DOMAIN pending \cup {t}
      /\ slots[t] = slot
      /\ \A u \in DOMAIN pending \ {t} : slots[u] = pending[u]
  OBVIOUS
<1>3. DOMAIN slots \subseteq Turns /\ \A u \in DOMAIN slots : slots[u] \in Slots
  BY <1>2 DEF SpanTypes
<1>4. spans \in [Turns -> Nat]
  BY DEF SpanTypes
<1>5. t \notin Evicted(t)
  BY DEF Evicted
<1> HIDE DEF slots, out
<1>6. /\ spans' \in [Turns -> Nat]
      /\ DOMAIN pending' = DOMAIN slots \ out
      /\ \A u \in DOMAIN pending' :
            /\ pending'[u] \in Slots
            /\ pending'[u].said = slots[u].said
            /\ pending'[u].latency = slots[u].latency
            /\ pending'[u].superseded = slots[u].superseded
      /\ \A u \in Turns :
            spans'[u] = IF u \in out \cap DOMAIN slots /\ slots[u].said THEN spans[u] + 1 ELSE spans[u]
  BY <1>1, <1>3, <1>4, EmitCounts
<1>7. t \in out <=> t \in T
  BY <1>5 DEF out
<1>8. ASSUME NEW u \in Turns \ {t}
      PROVE  /\ Accounted(u)' = Accounted(u)
             /\ u \in Waiting' =>
                   /\ u \in Waiting
                   /\ pending'[u].latency = pending[u].latency
                   /\ pending'[u].superseded = pending[u].superseded
  <2>1. CASE u \notin DOMAIN pending
    <3>1. u \notin Waiting /\ u \notin Waiting'
      BY <2>1, <1>2, <1>6 DEF Waiting
    <3>2. spans'[u] = spans[u]
      BY <2>1, <1>2, <1>6
    <3> QED
      BY <3>1, <3>2 DEF Accounted
  <2>2. CASE u \in DOMAIN pending /\ u \in out
    <3>1. u \notin Waiting'
      BY <2>2, <1>6 DEF Waiting
    <3>2. u \in Waiting <=> pending[u].said
      BY <2>2 DEF Waiting
    <3>3. spans'[u] = IF pending[u].said THEN spans[u] + 1 ELSE spans[u]
      BY <2>2, <1>2, <1>6
    <3>4. spans[u] \in Nat
      BY <1>4
    <3> QED
      BY <3>1, <3>2, <3>3, <3>4 DEF Accounted
  <2>3. CASE u \in DOMAIN pending /\ u \notin out
    <3>1. u \in DOMAIN pending' /\ slots[u] = pending[u]
      BY <2>3, <1>2, <1>6
    <3>2. /\ pending'[u].said = pending[u].said
          /\ pending'[u].latency = pending[u].latency
          /\ pending'[u].superseded = pending[u].superseded
      BY <3>1, <1>6
    <3>3. u \in Waiting <=> u \in Waiting'
      BY <2>3, <3>1, <3>2 DEF Waiting
    <3>4. spans'[u] = spans[u]
      BY <2>3, <1>6
    <3> QED
      BY <3>2, <3>3, <3>4 DEF Accounted
  <2> QED
    BY <2>1, <2>2, <2>3
<1>9. IF t \in T
      THEN t \notin Waiting' /\ spans'[t] = IF slot.said THEN spans[t] + 1 ELSE spans[t]
      ELSE /\ spans'[t] = spans[t]
           /\ t \in Waiting' <=> slot.said
           /\ t \in DOMAIN pending'
           /\ pending'[t].latency = slot.latency
           /\ pending'[t].superseded = slot.superseded
  <2>1. CASE t \in T
    <3>1. t \in out \cap DOMAIN slots /\ t \notin DOMAIN pending'
      BY <2>1, <1>2, <1>6, <1>7
    <3>2. t \notin Waiting'
      BY <3>1 DEF Waiting
    <3> QED
      BY <2>1, <3>1, <3>2, <1>2, <1>6
  <2>2. CASE t \notin T
    <3>1. t \in DOMAIN pending' /\ t \notin out
      BY <2>2, <1>2, <1>6, <1>7
    <3> QED
      BY <2>2, <3>1, <1>2, <1>6 DEF Waiting
  <2> QED
    BY <2>1, <2>2
<1>10. DOMAIN pending' \subseteq Turns
  BY <1>3, <1>6
<1> QED
  BY <1>6, <1>8, <1>9, <1>10

LEMMA SpansAtStart ==
  ASSUME Init  PROVE SpanInv
<1>1. DOMAIN pending = {}
  BY DEF Init, NoSlots
<1> QED
  BY <1>1 DEF Init, SpanInv, SpanTypes, LostRecorded, SpansOnce, Waiting

(* A part of a turn comes: its slot is written, and released when whole.    *)
LEMMA PartKeepsSpans ==
  ASSUME SpanInv, NEW t \in Turns, TurnStep, Generation(t) \/ TurnLatency(t)
  PROVE  SpanInv'
<1> USE DEF SpanInv
<1>1. PICK slot \in Slots, T \in SUBSET Turns :
        /\ Put(t, slot, T)
        /\ slot.said = Slot(t).said /\ slot.superseded = Slot(t).superseded
        /\ IF Generation(t) THEN T = {} /\ slot.latency = Slot(t).latency
           ELSE slot.said => t \in T
        /\ t \in T => slot.said
  <2>1. Slot(t) \in Slots
    BY SlotType
  <2>2. CASE Generation(t)
    <3>1. [Slot(t) EXCEPT !.generation = TRUE] \in Slots
      BY <2>1 DEF Slots
    <3> QED
      BY <2>1, <2>2, <3>1 DEF Generation, Slots
  <2>3. CASE TurnLatency(t) /\ ~Generation(t)
    <3>1. [Slot(t) EXCEPT !.latency = TRUE] \in Slots
      BY <2>1 DEF Slots
    <3>2. (IF Slot(t).said THEN {t} ELSE {}) \in SUBSET Turns
      OBVIOUS
    <3> QED
      BY <2>1, <2>3, <3>1, <3>2 DEF TurnLatency, Slots
  <2> QED
    BY <2>2, <2>3
<1>2. UNCHANGED <<voice, stage, lostTurns>>
  BY DEF Generation, TurnLatency, TurnStep
<1>3. SpanTypes'
  BY <1>1, <1>2, PutCounts DEF SpanTypes
<1>4. LostRecorded'
  BY <1>2 DEF LostRecorded
<1>5. Accounted(t)' = Accounted(t)
  <2>1. Slot(t).said <=> t \in Waiting
    BY SlotType
  <2>2. spans[t] \in Nat
    BY DEF SpanTypes
  <2> QED
    BY <1>1, <2>1, <2>2, PutCounts DEF Accounted
<1>6. t \in Waiting' => t \in Waiting /\ ~pending'[t].latency /\ ~pending'[t].superseded
  <2> SUFFICES ASSUME t \in Waiting'
               PROVE  t \in Waiting /\ ~pending'[t].latency /\ ~pending'[t].superseded
    OBVIOUS
  <2>1. t \notin T /\ slot.said
    BY <1>1, PutCounts
  <2>2. t \in Waiting /\ Slot(t) = pending[t]
    BY <2>1, <1>1, SlotType DEF Waiting
  <2>3. slot.latency = Slot(t).latency
    BY <2>1, <1>1
  <2>4. ~pending[t].latency /\ ~pending[t].superseded
    BY <2>2 DEF SpansOnce
  <2> QED
    BY <2>1, <2>2, <2>3, <2>4, <1>1, PutCounts
<1>7. ASSUME NEW u \in Turns
      PROVE  /\ Accounted(u)' = Accounted(u)
             /\ u \in Waiting' => u \in Waiting /\ ~pending'[u].latency /\ ~pending'[u].superseded
  <2>1. CASE u = t
    BY <2>1, <1>5, <1>6
  <2>2. CASE u # t
    BY <2>2, <1>1, PutCounts DEF SpansOnce
  <2> QED
    BY <2>1, <2>2
<1>8. SpansOnce'
  <2> SUFFICES ASSUME NEW u \in Turns
      PROVE  /\ stage[u] = "recorded" => Accounted(u)' = IF u \in lostTurns THEN 0 ELSE 1
             /\ stage[u] # "recorded" => spans'[u] = 0 /\ u \notin Waiting'
             /\ u \in Waiting' => ~pending'[u].latency /\ ~pending'[u].superseded
    BY <1>2 DEF SpansOnce, Accounted
  <2>1. spans[u] \in Nat /\ spans'[u] \in Nat
    BY <1>3 DEF SpanTypes
  <2> QED
    BY <1>7, <2>1 DEF SpansOnce, Accounted
<1> QED
  BY <1>3, <1>4, <1>8

(* The record of a turn: from now on it is accounted for once.              *)
LEMMA RecordKeepsSpans ==
  ASSUME SpanInv, NEW t \in Turns, TurnStep,
         NEW superseded \in BOOLEAN, NEW ends \in BOOLEAN, Recorded(t, superseded, ends)
  PROVE  SpanInv'
<1> USE DEF SpanInv
<1>1. stage[t] = "deciding" /\ stage' = [stage EXCEPT ![t] = "recorded"]
  BY DEF Recorded
<1>2. UNCHANGED <<voice, lostTurns>>
  BY DEF TurnStep
<1> DEFINE slot == [Slot(t) EXCEPT !.said = TRUE, !.superseded = superseded]
           T == IF ends /\ ~voice THEN Turns ELSE IF superseded \/ Slot(t).latency THEN {t} ELSE {}
<1>3. Put(t, slot, T)
  BY DEF Recorded
<1>4. /\ slot \in Slots /\ slot.said
      /\ slot.superseded = superseded /\ slot.latency = Slot(t).latency
  <2>1. Slot(t) \in Slots
    BY SlotType
  <2> QED
    BY <2>1 DEF Slots
<1>5. t \in T \/ (~slot.latency /\ ~slot.superseded)
  BY <1>4
<1>6. spans[t] = 0 /\ t \notin Waiting /\ t \notin lostTurns
  BY <1>1 DEF SpansOnce, LostRecorded
<1> HIDE DEF slot, T
<1>7. SpanTypes'
  <2>1. stage' \in [Turns -> {"new", "deciding", "recorded", "failed"}]
    BY <1>1 DEF SpanTypes
  <2> QED
    BY <2>1, <1>2, <1>3, <1>4, PutCounts DEF SpanTypes
<1>8. LostRecorded'
  BY <1>1, <1>2 DEF LostRecorded, SpanTypes
<1>9. SpansOnce'
  <2> SUFFICES ASSUME NEW u \in Turns
      PROVE  /\ stage'[u] = "recorded" => Accounted(u)' = IF u \in lostTurns THEN 0 ELSE 1
             /\ stage'[u] # "recorded" => spans'[u] = 0 /\ u \notin Waiting'
             /\ u \in Waiting' => ~pending'[u].latency /\ ~pending'[u].superseded
    BY <1>2 DEF SpansOnce, Accounted
  <2>1. spans[u] \in Nat /\ spans'[u] \in Nat
    BY <1>7 DEF SpanTypes
  <2>2. CASE u = t
    <3>1. stage'[t] = "recorded"
      BY <1>1 DEF SpanTypes
    <3>2. Accounted(t)' = 1
      BY <1>3, <1>4, <1>6, PutCounts DEF Accounted
    <3>3. t \in Waiting' => ~pending'[t].latency /\ ~pending'[t].superseded
      BY <1>3, <1>4, <1>5, PutCounts
    <3> QED
      BY <2>2, <3>1, <3>2, <3>3, <1>6
  <2>3. CASE u # t
    <3>1. stage'[u] = stage[u]
      BY <2>3, <1>1 DEF SpanTypes
    <3>2. /\ Accounted(u)' = Accounted(u)
          /\ u \in Waiting' => /\ u \in Waiting
                               /\ pending'[u].latency = pending[u].latency
                               /\ pending'[u].superseded = pending[u].superseded
      BY <2>3, <1>3, <1>4, PutCounts
    <3> QED
      BY <2>1, <3>1, <3>2 DEF SpansOnce, Accounted
  <2> QED
    BY <2>2, <2>3
<1> QED
  BY <1>7, <1>8, <1>9

(* The end of a call, or a clean stop, exports what waits; a crash loses it. *)
LEMMA ReleaseKeepsSpans ==
  ASSUME SpanInv, (SignalEnds /\ TurnStep) \/ \E clean \in BOOLEAN : Restart(clean)
  PROVE  SpanInv'
<1> USE DEF SpanInv
<1>1. PICK crash \in BOOLEAN :
        /\ Emit(IF crash THEN NoSlots ELSE pending, Turns)
        /\ lostTurns' = lostTurns \cup (IF crash THEN Waiting ELSE {})
        /\ stage' \in [Turns -> {"new", "deciding", "recorded", "failed"}]
        /\ \A t \in Turns : stage'[t] = "recorded" <=> stage[t] = "recorded"
        /\ voice' = voice
  <2>1. CASE SignalEnds /\ TurnStep
    BY <2>1 DEF SignalEnds, TurnStep, SpanTypes
  <2>2. ASSUME NEW clean \in BOOLEAN, Restart(clean)
        PROVE  \E crash \in BOOLEAN :
                 /\ Emit(IF crash THEN NoSlots ELSE pending, Turns)
                 /\ lostTurns' = lostTurns \cup (IF crash THEN Waiting ELSE {})
                 /\ stage' \in [Turns -> {"new", "deciding", "recorded", "failed"}]
                 /\ \A t \in Turns : stage'[t] = "recorded" <=> stage[t] = "recorded"
                 /\ voice' = voice
    <3>1. Emit(IF ~clean THEN NoSlots ELSE pending, Turns)
      BY <2>2 DEF Restart
    <3>2. stage' = [t \in Turns |-> IF stage[t] = "deciding" THEN "failed" ELSE stage[t]]
      BY <2>2 DEF Restart
    <3>3. /\ stage' \in [Turns -> {"new", "deciding", "recorded", "failed"}]
          /\ \A t \in Turns : stage'[t] = "recorded" <=> stage[t] = "recorded"
      BY <3>2 DEF SpanTypes
    <3>4. lostTurns' = lostTurns \cup (IF ~clean THEN Waiting ELSE {}) /\ voice' = voice
      BY <2>2 DEF Restart
    <3> QED
      BY <3>1, <3>3, <3>4
  <2> QED
    BY <2>1, <2>2
<1> DEFINE slots == IF crash THEN NoSlots ELSE pending
<1>2. /\ DOMAIN slots \subseteq Turns
      /\ \A u \in DOMAIN slots : slots[u] \in Slots
      /\ \A u \in Turns : u \in DOMAIN slots /\ slots[u].said <=> ~crash /\ u \in Waiting
  <2>1. CASE crash
    <3>1. DOMAIN slots = {}
      BY <2>1 DEF NoSlots
    <3> QED
      BY <2>1, <3>1
  <2>2. CASE ~crash
    BY <2>2 DEF SpanTypes, Waiting
  <2> QED
    BY <2>1, <2>2
<1>3. Emit(slots, Turns)
  BY <1>1
<1> HIDE DEF slots
<1>4. /\ spans' \in [Turns -> Nat]
      /\ DOMAIN pending' = {}
      /\ \A u \in Turns : spans'[u] = IF ~crash /\ u \in Waiting THEN spans[u] + 1 ELSE spans[u]
  <2>1. /\ spans' \in [Turns -> Nat]
        /\ DOMAIN pending' = DOMAIN slots \ Turns
        /\ \A u \in Turns : spans'[u] =
              IF u \in Turns \cap DOMAIN slots /\ slots[u].said THEN spans[u] + 1 ELSE spans[u]
    BY <1>2, <1>3, EmitCounts DEF SpanTypes
  <2> QED
    BY <2>1, <1>2
<1>5. Waiting' = {}
  BY <1>4 DEF Waiting
<1>6. SpanTypes'
  BY <1>1, <1>4 DEF SpanTypes
<1>7. LostRecorded'
  BY <1>1 DEF LostRecorded, SpansOnce
<1>8. SpansOnce'
  <2> SUFFICES ASSUME NEW u \in Turns
      PROVE  /\ stage'[u] = "recorded" => spans'[u] = IF u \in lostTurns' THEN 0 ELSE 1
             /\ stage'[u] # "recorded" => spans'[u] = 0
    BY <1>4, <1>5 DEF SpansOnce, SpanTypes
  <2>1. spans[u] \in Nat
    BY DEF SpanTypes
  <2>2. /\ stage[u] = "recorded" =>
             spans[u] + (IF u \in Waiting THEN 1 ELSE 0) = IF u \in lostTurns THEN 0 ELSE 1
        /\ stage[u] # "recorded" => spans[u] = 0 /\ u \notin Waiting
    BY DEF SpansOnce
  <2> QED
    BY <2>1, <2>2, <1>1, <1>4
<1> QED
  BY <1>6, <1>7, <1>8

LEMMA SpansKept ==
  ASSUME SpanInv, [Next]_vars  PROVE SpanInv'
<1> USE DEF SpanInv
<1>1. ASSUME UNCHANGED <<voice, spans, pending, lostTurns>>,
             stage' \in [Turns -> {"new", "deciding", "recorded", "failed"}],
             \A t \in Turns : stage'[t] = "recorded" <=> stage[t] = "recorded"
      PROVE  SpanInv'
  BY <1>1 DEF SpanTypes, LostRecorded, SpansOnce, Waiting
<1>2. CASE TurnStep
  <2>1. ASSUME NEW t \in Turns, BeginTurn(t) \/ TurnFails(t)
        PROVE  SpanInv'
    BY <2>1, <1>1, <1>2 DEF BeginTurn, TurnFails, TurnStep, SpanTypes
  <2>2. ASSUME NEW t \in Turns, Generation(t) \/ TurnLatency(t)
        PROVE  SpanInv'
    BY <2>2, <1>2, PartKeepsSpans
  <2>3. ASSUME NEW t \in Turns, NEW superseded \in BOOLEAN, NEW ends \in BOOLEAN,
               Recorded(t, superseded, ends)
        PROVE  SpanInv'
    BY <2>3, <1>2, RecordKeepsSpans
  <2>4. CASE SignalEnds
    BY <2>4, <1>2, ReleaseKeepsSpans
  <2> QED
    BY <1>2, <2>1, <2>2, <2>3, <2>4 DEF TurnStep
<1>3. CASE ScoreStep
  BY <1>1, <1>3 DEF ScoreStep, turnVars, SpanTypes
<1>4. CASE \E clean \in BOOLEAN : Restart(clean)
  BY <1>4, ReleaseKeepsSpans
<1>5. CASE UNCHANGED vars
  BY <1>1, <1>5 DEF vars, turnVars, SpanTypes
<1> QED
  BY <1>2, <1>3, <1>4, <1>5 DEF Next

(* Every decided turn is exported once or waits for it, in whatever order its *)
(* parts come and whatever evicts or releases it; only a crash loses one.   *)
THEOREM SpansExportedOnce == Spec => []SpansOnce
<1>1. Init => SpanInv
  BY SpansAtStart
<1>2. SpanInv /\ [Next]_vars => SpanInv'
  BY SpansKept
<1>3. SpanInv => SpansOnce
  BY DEF SpanInv
<1> QED
  BY <1>1, <1>2, <1>3, PTL DEF Spec

-----------------------------------------------------------------------------
(* Scores.                                                                 *)

ScoreNames == UNION {ToSet(Names[r]) : r \in Recorders}

ScoreTypes ==
  /\ DOMAIN recorder = Recorders
  /\ \A r \in Recorders :
        recorder[r] \in [at : {"idle", "writing", "sending", "flushed"},
                         left : Seq(ScoreNames), run : Nat]
  /\ rows \in [Score -> Nat]
  /\ DOMAIN batch = Recorders

(* Where a score can be that was taken over by the mirror.                  *)
Kept == mirror \cup reports \cup lostScores \cup InMemory

(* Of the names of a recorder at work, those that are not left to write have *)
(* been taken over with this run's value.                                   *)
WrittenKept ==
  \A r \in Recorders : recorder[r].at # "idle" =>
     \A n \in ToSet(Names[r]) \ ToSet(recorder[r].left) : <<<<r, n>>, recorder[r].run>> \in Kept

(* Who sends has nothing left to write, and only who sends has a request out. *)
SendersDone ==
  \A r \in Recorders :
     /\ recorder[r].at # "writing" => recorder[r].left = <<>>
     /\ recorder[r].at # "sending" => batch[r] = {}

ScoreInv == ScoreTypes /\ WrittenKept /\ SendersDone /\ ScoresAccounted

LEMMA NamesTyped ==
  ASSUME NEW r \in Recorders
  PROVE  Names[r] \in Seq(ScoreNames)
<1>1. ToSet(Names[r]) \subseteq ScoreNames
  BY DEF ScoreNames
<1>2. Names[r] \in Seq(ToSet(Names[r]))
  BY ShapeAssumption
<1> QED
  BY <1>1, <1>2

LEMMA ScoreIs ==
  /\ \A k \in Score : \E r \in Recorders : \E n \in ToSet(Names[r]) : k = <<r, n>>
  /\ \A r \in Recorders : \A n \in ToSet(Names[r]) : <<r, n>> \in Score
<1>1. ASSUME NEW k \in Score
      PROVE  \E r \in Recorders : \E n \in ToSet(Names[r]) : k = <<r, n>>
  <2>1. PICK r \in Recorders : k \in {r} \X ToSet(Names[r])
    BY DEF Score
  <2> QED
    BY <2>1
<1>2. ASSUME NEW r \in Recorders, NEW n \in ToSet(Names[r])
      PROVE  <<r, n>> \in Score
  <2>1. <<r, n>> \in {r} \X ToSet(Names[r])
    OBVIOUS
  <2> QED
    BY <2>1 DEF Score
<1> QED
  BY <1>1, <1>2

(* What is not left after a name has been taken is that name, or was not     *)
(* left before.                                                            *)
LEMMA NotLeft ==
  ASSUME NEW S, NEW s \in Seq(S), s # <<>>, NEW n, n \notin ToSet(Tail(s))
  PROVE  n = Head(s) \/ n \notin ToSet(s)
<1> SUFFICES ASSUME n \in ToSet(s), n # Head(s)
             PROVE  n \in ToSet(Tail(s))
  OBVIOUS
<1>1. PICK i \in DOMAIN s : s[i] = n
  BY DEF ToSet
<1>2. i \in 2..Len(s)
  BY <1>1
<1>3. i - 1 \in DOMAIN Tail(s) /\ Tail(s)[i - 1] = s[i]
  BY <1>2
<1> QED
  BY <1>1, <1>3 DEF ToSet

LEMMA NothingLeft ==
  ToSet(<<>>) = {}
BY DEF ToSet

LEMMA EmptyTyped ==
  <<>> \in Seq(ScoreNames)
OBVIOUS

LEMMA ScoresAtStart ==
  ASSUME Init  PROVE ScoreInv
<1>1. \A r \in Recorders : recorder[r] = [at |-> "idle", left |-> <<>>, run |-> 0]
  BY DEF Init, Idle
<1>2. ScoreTypes
  <2>1. \A r \in Recorders : recorder[r] \in
           [at : {"idle", "writing", "sending", "flushed"}, left : Seq(ScoreNames), run : Nat]
    <3> TAKE r \in Recorders
    <3>1. recorder[r] = [at |-> "idle", left |-> <<>>, run |-> 0]
      BY <1>1
    <3>2. "idle" \in {"idle", "writing", "sending", "flushed"} /\ <<>> \in Seq(ScoreNames) /\ 0 \in Nat
      BY EmptyTyped
    <3> QED
      BY <3>1, <3>2
  <2>2. rows \in [Score -> Nat] /\ DOMAIN recorder = Recorders /\ DOMAIN batch = Recorders
    BY DEF Init
  <2> QED
    BY <2>1, <2>2 DEF ScoreTypes
<1> QED
  BY <1>1, <1>2 DEF Init, ScoreInv, WrittenKept, SendersDone, ScoresAccounted

(* No step loses a score: it moves from the buffer to a request, from there  *)
(* to Langfuse or to the problems, or is lost with the memory of a server.  *)
LEMMA KeptStays ==
  ASSUME ScoreInv, [Next]_vars  PROVE Kept \subseteq Kept'
<1> USE DEF ScoreInv
<1>1. CASE UNCHANGED <<buffer, batch, mirror, reports, lostScores>>
  BY <1>1 DEF Kept, InMemory
<1>2. CASE ScoreStep
  <2>1. lostScores' = lostScores
    BY <1>2 DEF ScoreStep
  <2>2. ASSUME NEW r \in Recorders, Start(r) \/ UpsertFails(r) \/ Return(r)
        PROVE  Kept \subseteq Kept'
    BY <2>1, <2>2, <1>1 DEF Start, UpsertFails, Return
  <2>3. ASSUME NEW r \in Recorders, Upsert(r)
        PROVE  Kept \subseteq Kept'
    BY <2>1, <2>3 DEF Upsert, Kept, InMemory
  <2>4. ASSUME NEW r \in Recorders, FlushScores(r)
        PROVE  Kept \subseteq Kept'
    <3>1. batch[r] = {}
      BY <2>4 DEF FlushScores, SendersDone
    <3>2. batch'[r] = buffer /\ \A q \in Recorders \ {r} : batch'[q] = batch[q]
      BY <2>4 DEF FlushScores, ScoreTypes
    <3>3. UNCHANGED <<mirror, reports>>
      BY <2>4 DEF FlushScores
    <3>4. InMemory \subseteq InMemory'
      BY <3>1, <3>2 DEF InMemory
    <3> QED
      BY <2>1, <3>3, <3>4 DEF Kept
  <2>5. ASSUME NEW r \in Recorders, Answer(r)
        PROVE  Kept \subseteq Kept'
    <3>1. PICK taken \in SUBSET batch[r] :
            mirror' = mirror \cup taken /\ reports' = reports \cup Problems(batch[r], taken)
      BY <2>5 DEF Answer
    <3>2. batch[r] \subseteq mirror' \cup reports'
      BY <3>1 DEF Problems
    <3>3. buffer' = buffer /\ \A q \in Recorders \ {r} : batch'[q] = batch[q]
      BY <2>5 DEF Answer, ScoreTypes
    <3>4. InMemory \subseteq InMemory' \cup batch[r]
      BY <3>3 DEF InMemory
    <3> QED
      BY <2>1, <3>1, <3>2, <3>4 DEF Kept
  <2> QED
    BY <1>2, <2>2, <2>3, <2>4, <2>5 DEF ScoreStep
<1>3. CASE \E clean \in BOOLEAN : Restart(clean)
  <2>1. lostScores' = lostScores \cup InMemory /\ reports' = reports
    BY <1>3 DEF Restart
  <2>2. mirror \subseteq mirror'
    BY <1>3 DEF Restart
  <2> QED
    BY <2>1, <2>2 DEF Kept
<1>4. CASE TurnStep
  BY <1>1, <1>4 DEF TurnStep, scoreVars
<1>5. CASE UNCHANGED vars
  BY <1>1, <1>5 DEF vars, scoreVars
<1> QED
  BY <1>2, <1>3, <1>4, <1>5 DEF Next

(* What the invariant says of one recorder, and of its committed rows.      *)
Sound(r) ==
  /\ recorder[r] \in [at : {"idle", "writing", "sending", "flushed"},
                      left : Seq(ScoreNames), run : Nat]
  /\ recorder[r].at # "idle" =>
        \A n \in ToSet(Names[r]) \ ToSet(recorder[r].left) : <<<<r, n>>, recorder[r].run>> \in Kept
  /\ recorder[r].at # "writing" => recorder[r].left = <<>>
  /\ recorder[r].at # "sending" => batch[r] = {}
  /\ \A n \in ToSet(Names[r]) : rows[<<r, n>>] # 0 => <<<<r, n>>, rows[<<r, n>>]>> \in Kept

LEMMA InvIsSound ==
  ScoreInv => \A r \in Recorders : Sound(r)
<1>1. ASSUME ScoreInv, NEW r \in Recorders
      PROVE  Sound(r)
  <2>1. \A n \in ToSet(Names[r]) : rows[<<r, n>>] # 0 => <<<<r, n>>, rows[<<r, n>>]>> \in Kept
    BY <1>1, ScoreIs DEF ScoreInv, ScoresAccounted, Kept
  <2> QED
    BY <1>1, <2>1 DEF ScoreInv, ScoreTypes, WrittenKept, SendersDone, Sound
<1> QED
  BY <1>1

LEMMA InvIsSoundNext ==
  ASSUME DOMAIN recorder' = Recorders, DOMAIN batch' = Recorders, rows' \in [Score -> Nat],
         \A r \in Recorders : Sound(r)'
  PROVE  ScoreInv'
BY ScoreIs DEF ScoreInv, ScoreTypes, WrittenKept, SendersDone, ScoresAccounted, Sound, Kept

LEMMA OthersStaySound ==
  ASSUME ScoreInv, [Next]_vars, NEW q \in Recorders,
         UNCHANGED <<recorder[q], batch[q]>>,
         \A n \in ToSet(Names[q]) : rows'[<<q, n>>] = rows[<<q, n>>]
  PROVE  Sound(q)'
<1>1. Sound(q)
  BY InvIsSound
<1>2. Kept \subseteq Kept'
  BY KeptStays
<1> QED
  BY <1>1, <1>2 DEF Sound

(* A recorder's own step keeps it sound.                                    *)
LEMMA RecorderStaysSound ==
  ASSUME ScoreInv, [Next]_vars, ScoreStep, NEW r \in Recorders,
         Start(r) \/ Upsert(r) \/ UpsertFails(r) \/ FlushScores(r) \/ Answer(r) \/ Return(r)
  PROVE  Sound(r)'
<1> DEFINE rec == recorder[r]
<1>1. Sound(r) /\ Kept \subseteq Kept'
  BY InvIsSound, KeptStays
<1>2. DOMAIN recorder = Recorders /\ DOMAIN batch = Recorders /\ rows \in [Score -> Nat]
  BY DEF ScoreInv, ScoreTypes
<1>3. \A n \in ToSet(Names[r]) : <<r, n>> \in Score
  BY ScoreIs
<1>4. CASE Start(r)
  <2>1. recorder'[r] = [at |-> "writing", left |-> Names[r], run |-> recorder[r].run + 1]
    BY <1>2, <1>4 DEF Start
  <2>2. UNCHANGED <<rows, batch>> /\ recorder[r].at = "idle"
    BY <1>4 DEF Start
  <2>3. Names[r] \in Seq(ScoreNames) /\ recorder[r].run \in Nat
    BY <1>1, NamesTyped DEF Sound
  <2> QED
    BY <1>1, <2>1, <2>2, <2>3 DEF Sound
<1>5. CASE Upsert(r)
  <2>1. /\ recorder[r].at = "writing" /\ recorder[r].left # <<>>
        /\ recorder'[r] = [recorder[r] EXCEPT !.left = Tail(recorder[r].left)]
        /\ UNCHANGED batch
    BY <1>2, <1>5 DEF Upsert
  <2>2. recorder[r] \in [at : {"idle", "writing", "sending", "flushed"},
                         left : Seq(ScoreNames), run : Nat]
    BY <1>1 DEF Sound
  <2>3. /\ recorder'[r] \in [at : {"idle", "writing", "sending", "flushed"},
                             left : Seq(ScoreNames), run : Nat]
        /\ recorder'[r].at = "writing" /\ recorder'[r].run = recorder[r].run
        /\ recorder'[r].left = Tail(recorder[r].left)
    BY <2>1, <2>2, SMTT(20)
  <2> DEFINE name == Head(recorder[r].left)
  <2>4. <<<<r, name>>, recorder[r].run>> \in Kept'
    <3>1. <<<<r, name>>, recorder[r].run>> \in buffer'
      BY <1>5 DEF Upsert
    <3> QED
      BY <3>1 DEF Kept, InMemory
  <2>5. ASSUME NEW n \in ToSet(Names[r]) \ ToSet(recorder'[r].left)
        PROVE  <<<<r, n>>, recorder'[r].run>> \in Kept'
    <3>1. n = name \/ n \notin ToSet(recorder[r].left)
      BY <2>1, <2>2, <2>3, NotLeft
    <3>2. CASE n = name
      BY <3>2, <2>3, <2>4
    <3>3. CASE n \notin ToSet(recorder[r].left)
      BY <3>3, <1>1, <2>1, <2>3 DEF Sound
    <3> QED
      BY <3>1, <3>2, <3>3
  <2>6. ASSUME NEW n \in ToSet(Names[r]), rows'[<<r, n>>] # 0
        PROVE  <<<<r, n>>, rows'[<<r, n>>]>> \in Kept'
    <3>1. rows' = rows \/ rows' = [rows EXCEPT ![<<r, name>>] = recorder[r].run]
      BY <1>5 DEF Upsert
    <3>2. CASE rows'[<<r, n>>] = rows[<<r, n>>]
      BY <3>2, <2>6, <1>1 DEF Sound
    <3>3. CASE rows'[<<r, n>>] # rows[<<r, n>>]
      <4>1. n = name /\ rows'[<<r, n>>] = recorder[r].run
        BY <3>1, <3>3, <1>2, <1>3
      <4> QED
        BY <4>1, <2>4
    <3> QED
      BY <3>2, <3>3
  <2>7. recorder'[r].at # "sending" => batch'[r] = {}
    BY <1>1, <2>1 DEF Sound
  <2> HIDE DEF name
  <2> QED
    BY <2>3, <2>5, <2>6, <2>7 DEF Sound
<1>6. CASE UpsertFails(r)
  <2>1. /\ recorder[r].at = "writing" /\ UNCHANGED <<rows, batch>>
        /\ recorder'[r] = [recorder[r] EXCEPT !.at = "idle", !.left = <<>>]
    BY <1>2, <1>6 DEF UpsertFails
  <2>2. /\ recorder'[r] = [at |-> "idle", left |-> <<>>, run |-> recorder[r].run]
        /\ recorder'[r] \in [at : {"idle", "writing", "sending", "flushed"},
                             left : Seq(ScoreNames), run : Nat]
    BY <1>1, <2>1, EmptyTyped DEF Sound
  <2>3. \A n \in ToSet(Names[r]) : rows'[<<r, n>>] # 0 => <<<<r, n>>, rows'[<<r, n>>]>> \in Kept'
    BY <1>1, <2>1 DEF Sound
  <2>4. recorder'[r].at = "idle" /\ recorder'[r].left = <<>> /\ batch'[r] = {}
    BY <1>1, <2>1, <2>2 DEF Sound
  <2> QED
    BY <2>2, <2>3, <2>4 DEF Sound
<1>7. CASE FlushScores(r)
  <2>1. /\ recorder[r].at = "writing" /\ recorder[r].left = <<>> /\ rows' = rows
        /\ recorder'[r] = [recorder[r] EXCEPT !.at = IF buffer = {} THEN "flushed" ELSE "sending"]
        /\ batch'[r] = buffer
    BY <1>2, <1>7 DEF FlushScores
  <2>2. recorder'[r] = [at |-> IF buffer = {} THEN "flushed" ELSE "sending",
                        left |-> <<>>, run |-> recorder[r].run]
    BY <1>1, <2>1 DEF Sound
  <2> QED
    BY <1>1, <2>1, <2>2 DEF Sound
<1>8. CASE Answer(r)
  <2>1. /\ recorder[r].at = "sending" /\ rows' = rows /\ batch'[r] = {}
        /\ recorder'[r] = [recorder[r] EXCEPT !.at = "flushed"]
    BY <1>2, <1>8 DEF Answer
  <2>2. recorder'[r] = [at |-> "flushed", left |-> <<>>, run |-> recorder[r].run]
    BY <1>1, <2>1 DEF Sound
  <2>3. recorder[r].left = <<>>
    BY <1>1, <2>1 DEF Sound
  <2> QED
    BY <1>1, <2>1, <2>2, <2>3 DEF Sound
<1>9. CASE Return(r)
  <2>1. /\ recorder[r].at = "flushed" /\ batch' = batch
        /\ recorder'[r] = [recorder[r] EXCEPT !.at = "idle"]
    BY <1>2, <1>9 DEF Return
  <2>2. recorder'[r] = [at |-> "idle", left |-> <<>>, run |-> recorder[r].run]
    BY <1>1, <2>1 DEF Sound
  <2>3. \A n \in ToSet(Names[r]) : <<<<r, n>>, recorder[r].run>> \in Kept
    BY <1>1, <2>1, NothingLeft DEF Sound
  <2>4. ASSUME NEW n \in ToSet(Names[r])
        PROVE  rows'[<<r, n>>] \in {recorder[r].run, rows[<<r, n>>]}
    BY <1>3, <1>9 DEF Return
  <2> QED
    BY <1>1, <2>1, <2>2, <2>3, <2>4 DEF Sound
<1> QED
  BY <1>4, <1>5, <1>6, <1>7, <1>8, <1>9

(* What a recorder's step leaves to the others, and the types.              *)
LEMMA RecorderStaysApart ==
  ASSUME ScoreInv, ScoreStep, NEW r \in Recorders,
         Start(r) \/ Upsert(r) \/ UpsertFails(r) \/ FlushScores(r) \/ Answer(r) \/ Return(r)
  PROVE  /\ DOMAIN recorder' = Recorders /\ DOMAIN batch' = Recorders /\ rows' \in [Score -> Nat]
         /\ \A q \in Recorders \ {r} :
               /\ UNCHANGED <<recorder[q], batch[q]>>
               /\ \A n \in ToSet(Names[q]) : rows'[<<q, n>>] = rows[<<q, n>>]
<1>1. DOMAIN recorder = Recorders /\ DOMAIN batch = Recorders /\ rows \in [Score -> Nat]
  BY DEF ScoreInv, ScoreTypes
<1>2. recorder[r].run \in Nat
  BY DEF ScoreInv, ScoreTypes
<1>3. /\ DOMAIN recorder' = Recorders /\ DOMAIN batch' = Recorders
      /\ \A q \in Recorders \ {r} : UNCHANGED <<recorder[q], batch[q]>>
  BY <1>1 DEF Start, Upsert, UpsertFails, FlushScores, Answer, Return
<1>4. /\ rows' \in [Score -> Nat]
      /\ \A q \in Recorders \ {r} : \A n \in ToSet(Names[q]) : rows'[<<q, n>>] = rows[<<q, n>>]
  <2>1. CASE rows' = rows
    BY <2>1, <1>1
  <2>2. CASE Upsert(r) /\ rows' = [rows EXCEPT ![<<r, Head(recorder[r].left)>>] = recorder[r].run]
    BY <2>2, <1>1, <1>2, ScoreIs
  <2>3. CASE Return(r) /\ rows' = [k \in Score |-> IF k[1] = r THEN recorder[r].run ELSE rows[k]]
    <3>1. rows' \in [Score -> Nat]
      BY <2>3, <1>1, <1>2
    <3>2. ASSUME NEW q \in Recorders \ {r}, NEW n \in ToSet(Names[q])
          PROVE  rows'[<<q, n>>] = rows[<<q, n>>]
      <4>1. <<q, n>> \in Score /\ <<q, n>>[1] # r
        BY ScoreIs
      <4> QED
        BY <2>3, <4>1
    <3> QED
      BY <3>1, <3>2
  <2> QED
    BY <2>1, <2>2, <2>3 DEF Start, Upsert, UpsertFails, FlushScores, Answer, Return
<1> QED
  BY <1>1, <1>3, <1>4

LEMMA ScoresKept ==
  ASSUME ScoreInv, [Next]_vars  PROVE ScoreInv'
<1>1. DOMAIN recorder = Recorders /\ DOMAIN batch = Recorders /\ rows \in [Score -> Nat]
  BY DEF ScoreInv, ScoreTypes
<1>2. CASE ScoreStep
  <2>1. PICK r \in Recorders :
          Start(r) \/ Upsert(r) \/ UpsertFails(r) \/ FlushScores(r) \/ Answer(r) \/ Return(r)
    BY <1>2 DEF ScoreStep
  <2>2. Sound(r)'
    BY <1>2, <2>1, RecorderStaysSound
  <2>3. ASSUME NEW q \in Recorders \ {r}
        PROVE  Sound(q)'
    BY <1>2, <2>1, RecorderStaysApart, OthersStaySound
  <2> QED
    BY <1>2, <2>1, <2>2, <2>3, RecorderStaysApart, InvIsSoundNext
<1>3. CASE \E clean \in BOOLEAN : Restart(clean)
  <2>1. /\ recorder' = [r \in Recorders |-> [recorder[r] EXCEPT !.at = "idle", !.left = <<>>]]
        /\ batch' = [r \in Recorders |-> {}] /\ rows' = rows
    BY <1>3 DEF Restart
  <2>2. ASSUME NEW r \in Recorders
        PROVE  Sound(r)'
    <3>1. Sound(r) /\ Kept \subseteq Kept'
      BY InvIsSound, KeptStays
    <3>2. /\ recorder'[r] = [at |-> "idle", left |-> <<>>, run |-> recorder[r].run]
          /\ recorder'[r] \in [at : {"idle", "writing", "sending", "flushed"},
                               left : Seq(ScoreNames), run : Nat]
      BY <2>1, <3>1, EmptyTyped DEF Sound
    <3>3. \A n \in ToSet(Names[r]) : rows'[<<r, n>>] # 0 => <<<<r, n>>, rows'[<<r, n>>]>> \in Kept'
      BY <2>1, <3>1 DEF Sound
    <3>4. recorder'[r].at = "idle" /\ recorder'[r].left = <<>> /\ batch'[r] = {}
      BY <2>1, <3>2
    <3> QED
      BY <3>2, <3>3, <3>4 DEF Sound
  <2> QED
    BY <1>1, <2>1, <2>2, InvIsSoundNext
<1>4. CASE UNCHANGED scoreVars
  <2>1. \A r \in Recorders : Sound(r)'
    BY <1>4, OthersStaySound DEF scoreVars
  <2> QED
    BY <1>1, <1>4, <2>1, InvIsSoundNext DEF scoreVars
<1> QED
  BY <1>2, <1>3, <1>4 DEF Next, TurnStep, vars

(* A committed score was told to Langfuse, is about to be, was counted as a  *)
(* problem, or was in the memory of a server that stopped.                  *)
THEOREM ScoresNeverLost == Spec => []ScoresAccounted
<1>1. Init => ScoreInv
  BY ScoresAtStart
<1>2. ScoreInv /\ [Next]_vars => ScoreInv'
  BY ScoresKept
<1>3. ScoreInv => ScoresAccounted
  BY DEF ScoreInv
<1> QED
  BY <1>1, <1>2, <1>3, PTL DEF Spec

================================================================================
