--------------------------- MODULE TurnRunnerProofs ---------------------------
(***************************************************************************)
(* Proofs about TurnRunner: what keeps its index, buffers and subscribers    *)
(* exact is inductive, and from it a client reads its turn's frames once    *)
(* and in order, and a shutdown gives the slot back. For any requests,      *)
(* turns, deltas and faults.                                                *)
(***************************************************************************)
EXTENDS TurnRunner, TLAPS

USE Assumptions

StreamInv == RunnerInv /\ StreamFaithful /\ ShutdownFreesSlot
ClientView == IndexExact /\ BufferExact /\ SubscribersExact /\ StreamFaithful

LEMMA Names == None \notin Requests /\ None \notin TurnIds
BY DEF Requests, TurnIds

LEMMA Initially == Init => StreamInv
<1> SUFFICES ASSUME Init PROVE StreamInv
  OBVIOUS
<1>2. <<>> \in Seq(Frames)
  OBVIOUS
<1>3. TypeOK
  BY <1>2, Names DEF Init, TypeOK, Running, Finished
<1>4. IndexExact /\ SubscribersExact
  BY DEF Init, IndexExact, SubscribersExact, Running
<1>5. BufferExact
  BY DEF Init, BufferExact
<1>6. SlotOwned /\ StreamFaithful /\ ShutdownFreesSlot
  BY DEF Init, SlotOwned, StreamFaithful, ShutdownFreesSlot, Running
<1>7. QED
  BY <1>3, <1>4, <1>5, <1>6 DEF StreamInv, RunnerInv

-----------------------------------------------------------------------------
(* What a fibre tells its clients leaves every client with all of it.       *)

LEMMA Others ==
    ASSUME TypeOK, NEW e \in Requests, NEW p, Enters(e, p)
    PROVE  fibre'[e] = p /\ \A q \in Requests \ {e} : fibre'[q] = fibre[q]
BY DEF TypeOK, Enters

LEMMA Heard ==
    ASSUME StreamInv, NEW e \in Requests, fibre[e] \in Running, NEW fs \in Seq(Frames),
           Broadcast(e, fs)
    PROVE  /\ said'[e] = said[e] \o fs /\ \A q \in Requests \ {e} : said'[q] = said[q]
           /\ \A r \in Requests : client[r] = "reading" => inbox'[r] = said'[attached[r]]
           /\ \A r \in Requests : client[r] = "ended" =>
                 /\ attached[r] \in Requests \ {e}
                 /\ inbox'[r] = inbox[r] /\ said'[attached[r]] = said[attached[r]]
           /\ inbox' = [r \in Requests |-> inbox'[r]] /\ said' \in [Requests -> Seq(Frames)]
<1> USE DEF StreamInv, RunnerInv
<1>1. said \in [Requests -> Seq(Frames)] /\ said[e] \o fs \in Seq(Frames)
  BY DEF TypeOK
<1>2. /\ said'[e] = said[e] \o fs /\ \A q \in Requests \ {e} : said'[q] = said[q]
      /\ said' \in [Requests -> Seq(Frames)]
  BY <1>1 DEF Broadcast
<1>3. ASSUME NEW r \in Requests, client[r] = "reading"
      PROVE  inbox'[r] = said'[attached[r]]
  <2>1. attached[r] \in Requests /\ inbox[r] = said[attached[r]]
    BY <1>3, Names DEF TypeOK, SubscribersExact, StreamFaithful
  <2>2. r \in subscribers[e] <=> attached[r] = e
    BY <1>3 DEF SubscribersExact
  <2>3. inbox'[r] = IF r \in subscribers[e] THEN inbox[r] \o fs ELSE inbox[r]
    BY DEF Broadcast
  <2>4. QED
    BY <1>2, <2>1, <2>2, <2>3
<1>4. ASSUME NEW r \in Requests, client[r] = "ended"
      PROVE  /\ attached[r] \in Requests \ {e}
             /\ inbox'[r] = inbox[r] /\ said'[attached[r]] = said[attached[r]]
  <2>1. attached[r] \in Requests /\ fibre[attached[r]] \in {"finished", "failed", "refused"}
    BY <1>4, Names DEF TypeOK, SubscribersExact
  <2>2. attached[r] # e /\ r \notin subscribers[e]
    BY <1>4, <2>1 DEF Running, SubscribersExact
  <2>3. QED
    BY <1>2, <2>1, <2>2 DEF Broadcast
<1>5. inbox' = [r \in Requests |-> inbox'[r]]
  BY DEF Broadcast
<1>6. QED
  BY <1>2, <1>3, <1>4, <1>5

LEMMA EmitTells ==
    ASSUME StreamInv, NEW e \in Requests, fibre[e] \in Running, NEW fs \in Seq(Frames),
           NEW p \in Running, Enters(e, p), Emit(e, fs)
    PROVE  ClientView'
<1> USE DEF StreamInv, RunnerInv
<1>1. fibre'[e] = p /\ \A q \in Requests \ {e} : fibre'[q] = fibre[q]
  BY Others
<1>2. Broadcast(e, fs)
  BY DEF Emit
<1>3. IndexExact'
  BY <1>1 DEF Emit, IndexExact, Running, TypeOK
<1>4. BufferExact'
  <2>1. ASSUME NEW q \in Requests
        PROVE  /\ done'[q] <=> fibre'[q] \in {"finished", "failed"}
               /\ started'[q] = "failed" <=> fibre'[q] = "refused"
               /\ fibre'[q] # "refused" => frames'[q] = IF done'[q] THEN Lasting(said'[q]) ELSE said'[q]
    <3>1. CASE q = e
      <4>1. ~done[e] /\ started[e] # "failed" /\ frames[e] = said[e]
        BY DEF BufferExact, Running
      <4>2. frames'[e] = said'[e]
        <5>1. frames'[e] = frames[e] \o fs
          BY DEF Emit, Buffered, TypeOK
        <5>2. QED
          BY <4>1, <5>1, <1>2, Heard
      <4>3. done'[e] = done[e] /\ started'[e] # "failed"
        BY <4>1 DEF Emit, TypeOK
      <4>4. QED
        BY <3>1, <4>1, <4>2, <4>3, <1>1 DEF Running
    <3>2. CASE q # e
      <4>1. fibre'[q] = fibre[q] /\ done'[q] = done[q] /\ started'[q] = started[q]
            /\ frames'[q] = frames[q] /\ said'[q] = said[q]
        BY <3>2, <1>1, <1>2, Heard DEF Emit, TypeOK
      <4>2. QED
        BY <4>1 DEF BufferExact
    <3>3. QED
      BY <3>1, <3>2
  <2>2. QED
    BY <2>1 DEF BufferExact
<1>5. SubscribersExact'
  <2>1. UNCHANGED <<key, subscribers, client, attached>>
    BY DEF Emit
  <2>2. \A q \in Requests : /\ fibre[q] \in Running \cup {"stopped"} => fibre'[q] \in Running \cup {"stopped"}
                            /\ fibre[q] \in {"finished", "failed", "refused"} => fibre'[q] = fibre[q]
    BY <1>1 DEF Running
  <2>3. \A r \in Requests : client[r] = "ended" => attached[r] \in Requests
    BY Names DEF SubscribersExact, TypeOK
  <2>4. QED
    BY <2>1, <2>2, <2>3 DEF SubscribersExact
<1>6. StreamFaithful'
  BY <1>2, Heard DEF Emit, StreamFaithful
<1>7. QED
  BY <1>3, <1>4, <1>5, <1>6 DEF ClientView

LEMMA FinishTells ==
    ASSUME StreamInv, NEW e \in Requests, fibre[e] \in Running, NEW fs \in Seq(Frames),
           NEW p \in {"finished", "failed"}, Enters(e, p), Finish(e, fs)
    PROVE  ClientView'
<1> USE DEF StreamInv, RunnerInv
<1>1. fibre'[e] = p /\ \A q \in Requests \ {e} : fibre'[q] = fibre[q]
  BY Others
<1>2. Broadcast(e, fs)
  BY DEF Finish
<1>3. IndexExact'
  <2>1. key[e] \in TurnIds /\ claimed[key[e]] = e
    BY DEF IndexExact, TypeOK, Running
  <2>2. \A q \in Requests \ {e} : fibre[q] \in Running => key[q] # key[e]
    BY <2>1 DEF IndexExact
  <2>3. QED
    BY <1>1, <2>1, <2>2 DEF Finish, IndexExact, Running, TypeOK
<1>4. BufferExact'
  <2>1. ASSUME NEW q \in Requests
        PROVE  /\ done'[q] <=> fibre'[q] \in {"finished", "failed"}
               /\ started'[q] = "failed" <=> fibre'[q] = "refused"
               /\ fibre'[q] # "refused" => frames'[q] = IF done'[q] THEN Lasting(said'[q]) ELSE said'[q]
    <3>1. CASE q = e
      <4>1. ~done[e] /\ frames[e] = said[e]
        BY DEF BufferExact, Running
      <4>2. frames'[e] = Lasting(said'[e])
        <5>1. frames'[e] = Lasting(frames[e] \o fs)
          BY DEF Finish, Buffered, TypeOK
        <5>2. said'[e] = frames[e] \o fs
          BY <4>1, <1>2, Heard
        <5>3. QED
          BY <5>1, <5>2
      <4>3. done'[e] /\ started'[e] # "failed"
        BY DEF Finish, TypeOK
      <4>4. QED
        BY <3>1, <4>2, <4>3, <1>1
    <3>2. CASE q # e
      <4>1. fibre'[q] = fibre[q] /\ done'[q] = done[q] /\ started'[q] = started[q]
            /\ frames'[q] = frames[q] /\ said'[q] = said[q]
        BY <3>2, <1>1, <1>2, Heard DEF Finish, TypeOK
      <4>2. QED
        BY <4>1 DEF BufferExact
    <3>3. QED
      BY <3>1, <3>2
  <2>2. QED
    BY <2>1 DEF BufferExact
<1>5. SubscribersExact'
  <2>1. \A r \in Requests : client'[r] = IF r \in subscribers[e] THEN "ended" ELSE client[r]
    BY DEF Finish, Ends
  <2>2. /\ attached' = attached /\ key' = key
        /\ subscribers'[e] = {} /\ \A q \in Requests \ {e} : subscribers'[q] = subscribers[q]
    BY DEF Finish, TypeOK
  <2>3. \A r \in Requests : client[r] \in {"ended", "reading"} => attached[r] \in Requests
    BY Names DEF SubscribersExact, TypeOK
  <2>4. ASSUME NEW r \in Requests, NEW q \in Requests
        PROVE  /\ r \in subscribers'[q] <=> client'[r] = "reading" /\ attached'[r] = q
               /\ r \in subscribers'[q] => fibre'[q] \in Running \cup {"stopped"}
    BY <1>1, <2>1, <2>2 DEF SubscribersExact
  <2>5. ASSUME NEW r \in Requests
        PROVE  /\ client'[r] \in {"reading", "ended"} => attached'[r] # None
               /\ client'[r] = "ended" => fibre'[attached'[r]] \in {"finished", "failed", "refused"}
               /\ client'[r] = "idle" => key'[r] = None
               /\ client'[r] = "waiting" => key'[r] # None
    BY <1>1, <2>1, <2>2, <2>3 DEF SubscribersExact, Running
  <2>6. QED
    BY <2>4, <2>5 DEF SubscribersExact
<1>6. StreamFaithful'
  <2>1. ASSUME NEW r \in Requests
        PROVE  /\ client'[r] = "reading" => client[r] = "reading"
               /\ client'[r] = "ended" => client[r] = "ended" \/ client[r] = "reading"
               /\ attached'[r] = attached[r]
    BY DEF Finish, Ends, SubscribersExact
  <2>2. QED
    BY <2>1, <1>2, Heard DEF StreamFaithful
<1>7. QED
  BY <1>3, <1>4, <1>5, <1>6 DEF ClientView

LEMMA RefuseTells ==
    ASSUME StreamInv, NEW e \in Requests, fibre[e] = "t1", Enters(e, "refused"), Refuse(e)
    PROVE  ClientView'
<1> USE DEF StreamInv, RunnerInv
<1>1. fibre'[e] = "refused" /\ \A q \in Requests \ {e} : fibre'[q] = fibre[q]
  BY Others
<1>2. Broadcast(e, <<"error">>) /\ <<"error">> \in Seq(Frames) /\ fibre[e] \in Running
  BY DEF Refuse, Frames, Running
<1>3. IndexExact'
  <2>1. key[e] \in TurnIds /\ live[key[e]] = e /\ claimed[key[e]] = e
    BY <1>2 DEF IndexExact, TypeOK, Running
  <2>2. \A q \in Requests \ {e} : fibre[q] \in Running => key[q] # key[e]
    BY <2>1 DEF IndexExact
  <2>3. \A k \in TurnIds : live'[k] # None => live'[k] = live[k] /\ live[k] # e
    BY <2>1, Names DEF Refuse, IndexExact, TypeOK
  <2>4. QED
    BY <1>1, <2>1, <2>2, <2>3, Names DEF Refuse, IndexExact, Running, TypeOK
<1>4. BufferExact'
  <2>1. ~done'[e] /\ started'[e] = "failed"
    BY DEF BufferExact, Refuse, TypeOK
  <2>2. ASSUME NEW q \in Requests \ {e}
        PROVE  started'[q] = started[q] /\ said'[q] = said[q]
    <3>1. said'[q] = said[q]
      BY <1>2, Heard
    <3>2. started'[q] = started[q]
      BY DEF Refuse, TypeOK
    <3>3. QED
      BY <3>1, <3>2
  <2>3. frames' = frames /\ done' = done
    BY DEF Refuse
  <2>4. QED
    BY <1>1, <2>1, <2>2, <2>3 DEF BufferExact
<1>5. SubscribersExact'
  <2>1. \A r \in Requests : client'[r] = IF r \in subscribers[e] THEN "ended" ELSE client[r]
    BY DEF Refuse, Ends
  <2>2. /\ attached' = attached /\ key' = key
        /\ subscribers'[e] = {} /\ \A q \in Requests \ {e} : subscribers'[q] = subscribers[q]
    BY DEF Refuse, TypeOK
  <2>3. \A r \in Requests : client[r] \in {"ended", "reading"} => attached[r] \in Requests
    BY Names DEF SubscribersExact, TypeOK
  <2>4. ASSUME NEW r \in Requests, NEW q \in Requests
        PROVE  /\ r \in subscribers'[q] <=> client'[r] = "reading" /\ attached'[r] = q
               /\ r \in subscribers'[q] => fibre'[q] \in Running \cup {"stopped"}
    BY <1>1, <2>1, <2>2 DEF SubscribersExact
  <2>5. ASSUME NEW r \in Requests
        PROVE  /\ client'[r] \in {"reading", "ended"} => attached'[r] # None
               /\ client'[r] = "ended" => fibre'[attached'[r]] \in {"finished", "failed", "refused"}
               /\ client'[r] = "idle" => key'[r] = None
               /\ client'[r] = "waiting" => key'[r] # None
    BY <1>1, <2>1, <2>2, <2>3 DEF SubscribersExact, Running
  <2>6. QED
    BY <2>4, <2>5 DEF SubscribersExact
<1>6. StreamFaithful'
  <2>1. ASSUME NEW r \in Requests
        PROVE  /\ client'[r] = "reading" => client[r] = "reading"
               /\ client'[r] = "ended" => client[r] = "ended" \/ client[r] = "reading"
               /\ attached'[r] = attached[r]
    BY DEF Refuse, Ends, SubscribersExact
  <2>2. QED
    BY <2>1, <1>2, Heard, ZenonT(30) DEF StreamFaithful
<1>7. QED
  BY <1>3, <1>4, <1>5, <1>6 DEF ClientView

(* Whoever subscribes is given what was said, as the entry still has it.    *)
LEMMA SubscribeReads ==
    ASSUME StreamInv, NEW r \in Requests, NEW e \in Requests, client[r] \in {"idle", "waiting"},
           client[r] = "idle" => key[r] = None,
           fibre[e] \in Running \cup {"finished", "failed", "stopped"}, Subscribe(r, e),
           UNCHANGED <<key, live, claimed, fibre, frames, done, started, said>>
    PROVE  ClientView'
<1> USE DEF StreamInv, RunnerInv
<1>1. IndexExact' /\ BufferExact'
  BY DEF IndexExact, BufferExact
<1>2. /\ attached'[r] = e /\ client'[r] = (IF done[e] THEN "ended" ELSE "reading") /\ inbox'[r] = frames[e]
      /\ \A q \in Requests \ {r} : attached'[q] = attached[q] /\ client'[q] = client[q] /\ inbox'[q] = inbox[q]
  BY DEF Subscribe, Replay, TypeOK
<1>3. done[e] <=> fibre[e] \in {"finished", "failed"}
  BY DEF BufferExact
<1>4. \A q \in Requests : r \notin subscribers[q]
  BY DEF SubscribersExact
<1>5. /\ \A q \in Requests : q # e => subscribers'[q] = subscribers[q]
      /\ subscribers'[e] = IF done[e] THEN subscribers[e] ELSE subscribers[e] \cup {r}
  BY DEF Subscribe, TypeOK
<1>6. SubscribersExact'
  BY <1>2, <1>3, <1>4, <1>5, Names DEF SubscribersExact, Running
<1>7. StreamFaithful'
  <2>1. frames[e] = IF done[e] THEN Lasting(said[e]) ELSE said[e]
    BY DEF BufferExact, Running
  <2>2. QED
    BY <1>2, <2>1 DEF StreamFaithful
<1>8. QED
  BY <1>1, <1>6, <1>7 DEF ClientView

-----------------------------------------------------------------------------
(* The database side: who owns the slot.                                   *)

LEMMA SlotKept ==
    ASSUME StreamInv, NEW e \in Requests, server # "stopped", ServerSame, UNCHANGED key,
           fibre[e] \in Running, NEW p \in Running \cup {"finished", "failed", "refused"}, Enters(e, p),
           slot' \in {slot, None} \/ (p = "streaming" /\ slot' = key[e]),
           slot' = key[e] => p \in {"streaming", "failed"} \/ fibre[e] # "streaming"
    PROVE  SlotOwned' /\ ShutdownFreesSlot'
<1> USE DEF StreamInv, RunnerInv
<1>1. fibre'[e] = p /\ \A q \in Requests \ {e} : fibre'[q] = fibre[q]
  BY Others
<1>2. server' = server /\ outstanding' = outstanding /\ key' = key
  BY DEF ServerSame
<1>3. ASSUME slot' # None
      PROVE  \E q \in Requests : key[q] = slot' /\ fibre'[q] \in {"streaming", "failed", "stopped"}
  <2>1. CASE slot' = slot
    <3>1. PICK q \in Requests : key[q] = slot /\ fibre[q] \in {"streaming", "failed", "stopped"}
      BY <1>3, <2>1 DEF SlotOwned
    <3>2. CASE q = e
      BY <1>1, <2>1, <3>1, <3>2 DEF Running
    <3>3. CASE q # e
      BY <1>1, <2>1, <3>1, <3>3
    <3>4. QED
      BY <3>2, <3>3
  <2>2. CASE p = "streaming" /\ slot' = key[e]
    BY <1>1, <2>2
  <2>3. QED
    BY <1>3, <2>1, <2>2
<1>4. SlotOwned'
  BY <1>1, <1>2, <1>3 DEF SlotOwned, Running
<1>5. QED
  BY <1>2, <1>4 DEF ShutdownFreesSlot

-----------------------------------------------------------------------------
(* Each step keeps the invariant.                                          *)

LEMMA Parts ==
    TypeOK' /\ ClientView' /\ SlotOwned' /\ ShutdownFreesSlot' => StreamInv'
BY DEF ClientView, StreamInv, RunnerInv

(* While the server is up, no fibre has been interrupted.                   *)
LEMMA UpAndRunning ==
    ASSUME StreamInv, server = "up"
    PROVE  outstanding = {} /\ \A e \in Requests : fibre[e] # "stopped"
BY DEF StreamInv, RunnerInv, SlotOwned

(* The index leads from a turn id to its entry.                             *)
LEMMA Indexed ==
    ASSUME StreamInv, NEW k \in TurnIds, live[k] # None
    PROVE  live[k] \in Requests /\ fibre[live[k]] \notin {"none", "refused"}
BY Names DEF StreamInv, RunnerInv, TypeOK, IndexExact

LEMMA ClientsKeep ==
    ASSUME StreamInv, NEW r \in Requests,
           (\E k \in TurnIds : Attach(r, k)) \/ CreatorReads(r) \/ CreatorRefused(r) \/ Disconnect(r)
    PROVE  StreamInv'
<1> USE DEF StreamInv, RunnerInv
<1>1. UNCHANGED <<key, fibre, slot, server, outstanding>>
  BY DEF Attach, CreatorReads, CreatorRefused, Disconnect, database, runner, ServerSame
<1>2. SlotOwned' /\ ShutdownFreesSlot'
  BY <1>1 DEF SlotOwned, ShutdownFreesSlot
<1>3. ASSUME NEW k \in TurnIds, Attach(r, k)
      PROVE  StreamInv'
  <2>1. live[k] \in Requests /\ fibre[live[k]] \in Running \cup {"finished", "failed"}
    BY <1>3, Indexed, UpAndRunning DEF Attach, Arrives, TypeOK, Finished
  <2>2. client[r] = "idle" /\ key[r] = None
    BY <1>3 DEF Attach, Arrives, SubscribersExact
  <2>3. ClientView'
    BY <1>3, <2>1, <2>2, SubscribeReads DEF Attach
  <2>4. TypeOK'
    BY <1>3, <2>1 DEF Attach, Subscribe, ServerSame, database, TypeOK
  <2>5. QED
    BY <1>2, <2>3, <2>4, Parts
<1>4. CASE CreatorReads(r)
  <2>1. client[r] = "waiting" /\ key[r] # None
    BY <1>4 DEF CreatorReads, SubscribersExact
  <2>2. fibre[r] \in Running \cup {"finished", "failed", "stopped"}
    BY <1>4, <2>1 DEF CreatorReads, IndexExact, BufferExact, TypeOK, Finished
  <2>3. ClientView'
    BY <1>4, <2>1, <2>2, SubscribeReads DEF CreatorReads
  <2>4. TypeOK'
    BY <1>4 DEF CreatorReads, Subscribe, ServerSame, database, TypeOK
  <2>5. QED
    BY <1>2, <2>3, <2>4, Parts
<1>5. CASE CreatorRefused(r)
  <2>1. /\ client[r] = "waiting" /\ client'[r] = "conflict"
        /\ \A q \in Requests \ {r} : client'[q] = client[q]
    BY <1>5 DEF CreatorRefused, TypeOK
  <2>2. UNCHANGED <<key, live, claimed, fibre, frames, subscribers, done, started, attached, inbox, said>>
    BY <1>5, <1>1 DEF CreatorRefused, runner
  <2>3. ClientView'
    BY <2>1, <2>2 DEF ClientView, IndexExact, BufferExact, SubscribersExact, StreamFaithful
  <2>4. TypeOK'
    BY <1>5, <2>2 DEF CreatorRefused, ServerSame, database, TypeOK
  <2>5. QED
    BY <1>2, <2>3, <2>4, Parts
<1>6. CASE Disconnect(r)
  <2>1. /\ client[r] = "reading" /\ client'[r] = "gone" /\ \A e \in Requests : subscribers'[e] = subscribers[e] \ {r}
        /\ \A q \in Requests \ {r} : client'[q] = client[q] /\ attached'[q] = attached[q] /\ inbox'[q] = inbox[q]
    BY <1>6 DEF Disconnect, TypeOK
  <2>2. UNCHANGED <<key, live, claimed, fibre, frames, done, started, said>>
    BY <1>6 DEF Disconnect
  <2>3. IndexExact' /\ BufferExact'
    BY <2>2 DEF IndexExact, BufferExact
  <2>4. SubscribersExact'
    BY <2>1, <2>2 DEF SubscribersExact
  <2>5. StreamFaithful'
    BY <2>1, <2>2 DEF StreamFaithful
  <2>6. TypeOK'
    BY <1>6, <2>2 DEF Disconnect, ServerSame, database, TypeOK
  <2>7. QED
    BY <1>2, <2>3, <2>4, <2>5, <2>6, Parts DEF ClientView
<1>7. QED
  BY <1>3, <1>4, <1>5, <1>6

LEMMA CreateKeeps ==
    ASSUME StreamInv, NEW r \in Requests, NEW k \in TurnIds, Create(r, k)
    PROVE  StreamInv'
<1> USE DEF StreamInv, RunnerInv
<1>1. /\ server = "up" /\ client[r] = "idle" /\ key[r] = None /\ fibre[r] = "none" /\ live[k] = None
      /\ key' = [key EXCEPT ![r] = k] /\ live' = [live EXCEPT ![k] = r]
      /\ claimed' = [claimed EXCEPT ![k] = r] /\ client' = [client EXCEPT ![r] = "waiting"]
      /\ UNCHANGED <<frames, subscribers, done, started, attached, inbox, said, row, slot, over, server, outstanding>>
  BY DEF Create, Arrives, Claim, SubscribersExact, IndexExact, database, ServerSame
<1>2. fibre'[r] = "t1" /\ fibre' = [fibre EXCEPT ![r] = "t1"] /\ \A e \in Requests \ {r} : fibre'[e] = fibre[e]
  BY DEF Create, Enters, TypeOK
<1>3. /\ key'[r] = k /\ client'[r] = "waiting" /\ live'[k] = r /\ claimed'[k] = r
      /\ \A e \in Requests \ {r} : key'[e] = key[e] /\ client'[e] = client[e]
      /\ \A j \in TurnIds \ {k} : live'[j] = live[j] /\ claimed'[j] = claimed[j]
  BY <1>1 DEF TypeOK
<1>4. TypeOK'
  BY <1>1, <1>2 DEF TypeOK, Running
<1>5. IndexExact'
  <2>1. \A e \in Requests : fibre[e] \in Running => key[e] # k /\ key[e] \in TurnIds
    BY <1>1, Names DEF IndexExact, TypeOK, Running
  <2>2. \A j \in TurnIds : live[j] # None => live[j] \in Requests /\ live[j] # r
    BY <1>1, Names DEF IndexExact, TypeOK
  <2>3. QED
    BY <1>2, <1>3, <2>1, <2>2, Names DEF IndexExact, Running
<1>6. BufferExact'
  <2>1. ~done[r] /\ started[r] # "failed" /\ frames[r] = said[r]
    BY <1>1 DEF BufferExact
  <2>2. QED
    BY <1>1, <1>2, <2>1 DEF BufferExact
<1>7. SubscribersExact'
  <2>1. \A q \in Requests : fibre[q] # "none" => q # r
    BY <1>1
  <2>2. \A q \in Requests : client[q] = "ended" => attached[q] \in Requests
    BY Names DEF SubscribersExact, TypeOK
  <2>3. QED
    BY <1>1, <1>2, <1>3, <2>1, <2>2, Names DEF SubscribersExact, Running
<1>8. StreamFaithful'
  BY <1>1, <1>3 DEF StreamFaithful
<1>9. SlotOwned'
  BY <1>1, <1>2, <1>3, Names DEF SlotOwned, TypeOK, Running
<1>10. ShutdownFreesSlot'
  BY <1>1 DEF ShutdownFreesSlot
<1>11. QED
  BY <1>4, <1>5, <1>6, <1>7, <1>8, <1>9, <1>10, Parts DEF ClientView

LEMMA DatabaseSame ==
    ASSUME UNCHANGED database /\ ServerSame
    PROVE  UNCHANGED <<row, slot, over, server, outstanding>>
BY DEF database, ServerSame

(* What a frame and an end leave of the other variables' types.             *)
LEMMA EmitTypes ==
    ASSUME StreamInv, NEW e \in Requests, fibre[e] \in Running, NEW fs \in Seq(Frames),
           NEW p \in Running \cup Finished, Enters(e, p), Emit(e, fs) \/ Finish(e, fs), ServerSame,
           row' \in [TurnIds -> {"absent", "RUNNING", "DONE", "SUPERSEDED"}],
           slot' \in TurnIds \cup {None}, over' \in BOOLEAN
    PROVE  TypeOK'
<1> USE DEF StreamInv, RunnerInv
<1>1. Broadcast(e, fs)
  BY DEF Emit, Finish
<1>2. inbox' = [r \in Requests |-> inbox'[r]] /\ said' \in [Requests -> Seq(Frames)]
  BY <1>1, Heard
<1>3. frames' = [q \in Requests |-> frames'[q]]
  BY DEF Emit, Finish, TypeOK
<1>4. /\ done' \in [Requests -> BOOLEAN]
      /\ started' \in [Requests -> {"pending", "ok", "failed"}]
      /\ claimed' \in [TurnIds -> Requests \cup {None}]
      /\ subscribers' \in [Requests -> SUBSET Requests]
  <2>1. CASE Emit(e, fs)
    BY <2>1 DEF Emit, TypeOK
  <2>2. CASE Finish(e, fs)
    BY <2>2 DEF Finish, TypeOK
  <2>3. QED
    BY <2>1, <2>2
<1>5. client' \in [Requests -> {"idle", "waiting", "reading", "ended", "conflict", "gone"}]
  BY DEF Emit, Finish, Ends, TypeOK
<1>6. fibre' \in [Requests -> {"none"} \cup Running \cup Finished]
  BY DEF Enters, TypeOK
<1>7. UNCHANGED <<key, live, attached, server, outstanding>>
  BY DEF Emit, Finish, ServerSame
<1>8. QED
  BY <1>2, <1>3, <1>4, <1>5, <1>6, <1>7 DEF TypeOK

LEMMA FibreKeeps ==
    ASSUME StreamInv, NEW e \in Requests, FibreStep(e)
    PROVE  StreamInv'
<1> USE DEF StreamInv, RunnerInv
<1>1. server # "stopped" /\ fibre[e] \in {"t1", "streaming", "ending"} /\ fibre[e] \in Running
  BY DEF FibreStep, T1Replay, T1Refuse, T1Claim, Delta, T2Commit, T2Superseded, TurnEnd, Fault, At, Running
<1>2. key[e] \in TurnIds /\ key[e] # None
  BY <1>1, Names DEF IndexExact, TypeOK, Running
<1>3. /\ <<"error">> \in Seq(Frames) /\ <<"turn_start">> \in Seq(Frames) /\ <<"turn_end">> \in Seq(Frames)
      /\ <<"delta">> \in Seq(Frames) /\ <<"say">> \in Seq(Frames) /\ <<"turn_start", "turn_end">> \in Seq(Frames)
  BY DEF Frames
<1>4. CASE T1Replay(e)
  <2>1. Enters(e, "finished") /\ Finish(e, <<"turn_start", "turn_end">>) /\ fibre[e] = "t1"
        /\ ServerSame /\ UNCHANGED <<row, slot, over, key>>
    BY <1>4 DEF T1Replay, At, database, Finish
  <2>2. ClientView'
    BY <1>1, <1>3, <2>1, FinishTells
  <2>3. SlotOwned' /\ ShutdownFreesSlot'
    BY <1>1, <2>1, SlotKept DEF Running
  <2>4. TypeOK'
    BY <1>1, <1>3, <2>1, EmitTypes DEF TypeOK, Finished
  <2>5. QED
    BY <2>2, <2>3, <2>4, Parts
<1>5. CASE T1Refuse(e)
  <2>1. Enters(e, "refused") /\ Refuse(e) /\ fibre[e] = "t1" /\ ServerSame
        /\ UNCHANGED <<row, slot, over, key, frames, done, attached, server, outstanding>>
    BY <1>5 DEF T1Refuse, At, database, Refuse, ServerSame
  <2>2. ClientView'
    BY <2>1, RefuseTells
  <2>3. SlotOwned' /\ ShutdownFreesSlot'
    BY <1>1, <2>1, SlotKept DEF Running
  <2>4. inbox' = [r \in Requests |-> inbox'[r]] /\ said' \in [Requests -> Seq(Frames)]
    BY <1>1, <1>3, <2>1, Heard DEF Refuse
  <2>5. fibre' \in [Requests -> {"none"} \cup Running \cup Finished]
    BY <2>1 DEF Enters, TypeOK, Finished
  <2>6. /\ live' \in [TurnIds -> Requests \cup {None}]
        /\ claimed' \in [TurnIds -> Requests \cup {None}]
        /\ subscribers' \in [Requests -> SUBSET Requests]
        /\ started' \in [Requests -> {"pending", "ok", "failed"}]
        /\ client' \in [Requests -> {"idle", "waiting", "reading", "ended", "conflict", "gone"}]
    BY <2>1 DEF Refuse, Ends, TypeOK
  <2>7. TypeOK'
    BY <2>1, <2>4, <2>5, <2>6 DEF TypeOK
  <2>8. QED
    BY <2>2, <2>3, <2>7, Parts
<1>6. CASE T1Claim(e)
  <2>1. Enters(e, "streaming") /\ Emit(e, <<"turn_start">>) /\ ServerSame /\ slot' = key[e] /\ over' = over
        /\ fibre[e] = "t1" /\ key' = key
    BY <1>6 DEF T1Claim, At, Emit
  <2>2. ClientView'
    BY <1>1, <1>3, <2>1, EmitTells DEF Running
  <2>3. SlotOwned' /\ ShutdownFreesSlot'
    BY <1>1, <2>1, SlotKept DEF Running
  <2>4. row' \in [TurnIds -> {"absent", "RUNNING", "DONE", "SUPERSEDED"}]
    BY <1>6 DEF T1Claim, TypeOK
  <2>5. TypeOK'
    BY <1>1, <1>2, <1>3, <2>1, <2>4, EmitTypes DEF TypeOK, Running
  <2>6. QED
    BY <2>2, <2>3, <2>5, Parts
<1>7. CASE Delta(e)
  <2>1. Emit(e, <<"delta">>) /\ ServerSame /\ UNCHANGED <<row, slot, over, key>> /\ fibre[e] = "streaming" /\ fibre' = fibre
    BY <1>7 DEF Delta, At, database, Emit
  <2>2. Enters(e, "streaming")
    BY <2>1 DEF Enters, TypeOK
  <2>3. ClientView'
    BY <1>1, <1>3, <2>1, <2>2, EmitTells DEF Running
  <2>4. SlotOwned' /\ ShutdownFreesSlot'
    BY <1>1, <2>1, <2>2, SlotKept DEF Running
  <2>5. TypeOK'
    BY <1>1, <1>3, <2>1, <2>2, EmitTypes DEF TypeOK, Running
  <2>6. QED
    BY <2>3, <2>4, <2>5, Parts
<1>8. CASE T2Commit(e)
  <2>1. Enters(e, "ending") /\ Emit(e, <<"say">>) /\ ServerSame /\ slot' = None /\ key' = key
    BY <1>8 DEF T2Commit, Emit
  <2>2. ClientView'
    BY <1>1, <1>3, <2>1, EmitTells DEF Running
  <2>3. SlotOwned' /\ ShutdownFreesSlot'
    BY <1>1, <1>2, <2>1, SlotKept DEF Running
  <2>4. row' \in [TurnIds -> {"absent", "RUNNING", "DONE", "SUPERSEDED"}] /\ over' \in BOOLEAN
    BY <1>8 DEF T2Commit, TypeOK
  <2>5. TypeOK'
    BY <1>1, <1>3, <2>1, <2>4, EmitTypes DEF Running
  <2>6. QED
    BY <2>2, <2>3, <2>5, Parts
<1>9. CASE T2Superseded(e)
  <2>1. Enters(e, "finished") /\ Finish(e, <<"error">>) /\ ServerSame /\ slot # key[e] /\ UNCHANGED <<slot, over, key>>
    BY <1>9 DEF T2Superseded, Finish
  <2>2. ClientView'
    BY <1>1, <1>3, <2>1, FinishTells
  <2>3. SlotOwned' /\ ShutdownFreesSlot'
    BY <1>1, <2>1, SlotKept DEF Running
  <2>4. row' \in [TurnIds -> {"absent", "RUNNING", "DONE", "SUPERSEDED"}]
    BY <1>9 DEF T2Superseded, TypeOK
  <2>5. TypeOK'
    BY <1>1, <1>3, <2>1, <2>4, EmitTypes DEF TypeOK, Finished
  <2>6. QED
    BY <2>2, <2>3, <2>5, Parts
<1>10. CASE TurnEnd(e)
  <2>1. Enters(e, "finished") /\ Finish(e, <<"turn_end">>) /\ ServerSame /\ fibre[e] = "ending"
        /\ UNCHANGED <<row, slot, over, key>>
    BY <1>10 DEF TurnEnd, At, database, Finish
  <2>2. ClientView'
    BY <1>1, <1>3, <2>1, FinishTells
  <2>3. SlotOwned' /\ ShutdownFreesSlot'
    BY <1>1, <2>1, SlotKept DEF Running
  <2>4. TypeOK'
    BY <1>1, <1>3, <2>1, EmitTypes DEF TypeOK, Finished
  <2>5. QED
    BY <2>2, <2>3, <2>4, Parts
<1>11. CASE Fault(e)
  <2>1. Enters(e, "failed") /\ Finish(e, <<"error">>) /\ ServerSame /\ UNCHANGED <<row, slot, over, key>>
    BY <1>11 DEF Fault, database, Finish
  <2>2. ClientView'
    BY <1>1, <1>3, <2>1, FinishTells
  <2>3. SlotOwned' /\ ShutdownFreesSlot'
    BY <1>1, <2>1, SlotKept DEF Running
  <2>4. TypeOK'
    BY <1>1, <1>3, <2>1, EmitTypes DEF TypeOK, Finished
  <2>5. QED
    BY <2>2, <2>3, <2>4, Parts
<1>12. QED
  BY <1>4, <1>5, <1>6, <1>7, <1>8, <1>9, <1>10, <1>11 DEF FibreStep

LEMMA EvictKeeps ==
    ASSUME StreamInv, NEW k \in TurnIds, Evict(k)
    PROVE  StreamInv'
<1> USE DEF StreamInv, RunnerInv
<1>1. /\ live[k] \in Requests /\ done[live[k]] /\ live' = [live EXCEPT ![k] = None]
      /\ UNCHANGED <<key, claimed, fibre, frames, subscribers, done, started, client, attached, inbox, said>>
      /\ UNCHANGED <<row, slot, over, server, outstanding>>
  BY DEF Evict, TypeOK, clients, database, ServerSame
<1>2. TypeOK'
  BY <1>1 DEF TypeOK
<1>3. IndexExact'
  <2>1. ASSUME NEW e \in Requests, fibre[e] \in Running
        PROVE  key[e] # k /\ key[e] \in TurnIds
    <3>1. live[key[e]] = e /\ key[e] \in TurnIds
      BY <2>1 DEF IndexExact, TypeOK, Running
    <3>2. ~done[e]
      BY <2>1 DEF BufferExact, Running
    <3>3. QED
      BY <1>1, <3>1, <3>2
  <2>2. QED
    BY <1>1, <2>1 DEF IndexExact, TypeOK, Running
<1>4. BufferExact' /\ SubscribersExact' /\ StreamFaithful'
  BY <1>1 DEF BufferExact, SubscribersExact, StreamFaithful
<1>5. SlotOwned' /\ ShutdownFreesSlot'
  BY <1>1 DEF SlotOwned, ShutdownFreesSlot
<1>6. QED
  BY <1>2, <1>3, <1>4, <1>5, Parts DEF ClientView

(* Every fibre that runs is claimed, so a shutdown finds it; what it leaves *)
(* of the slot is a failed turn's.                                         *)
LEMMA ShutdownKeeps ==
    ASSUME StreamInv, ShutdownBegins \/ ShutdownReleases \/ \E e \in Requests : Interrupt(e)
    PROVE  StreamInv'
<1> USE DEF StreamInv, RunnerInv
<1>1. CASE ShutdownBegins
  <2>1. /\ server = "up" /\ server' = "stopping" /\ outstanding' = {claimed[k] : k \in TurnIds} \ {None}
        /\ UNCHANGED <<key, live, claimed, fibre, frames, subscribers, done, started, client, attached, inbox, said>>
        /\ UNCHANGED <<row, slot, over>>
    BY <1>1 DEF ShutdownBegins, runner, clients, database
  <2>2. ASSUME NEW e \in Requests, fibre[e] \in Running
        PROVE  e \in outstanding'
    <3>1. claimed[key[e]] = e /\ key[e] \in TurnIds
      BY <2>2 DEF IndexExact, TypeOK, Running
    <3>2. QED
      BY <2>1, <3>1, Names
  <2>3. SlotOwned'
    BY <2>1, <2>2 DEF SlotOwned
  <2>4. ClientView'
    BY <2>1 DEF ClientView, IndexExact, BufferExact, SubscribersExact, StreamFaithful
  <2>5. TypeOK' /\ ShutdownFreesSlot'
    BY <2>1 DEF TypeOK, ShutdownFreesSlot
  <2>6. QED
    BY <2>3, <2>4, <2>5, Parts
<1>2. CASE ShutdownReleases
  <2>1. /\ server = "stopping" /\ server' = "stopped" /\ outstanding' = {}
        /\ \A e \in outstanding : fibre[e] \notin Running
        /\ slot' = IF slot \in {key[e] : e \in outstanding} THEN None ELSE slot
        /\ UNCHANGED <<key, live, claimed, fibre, frames, subscribers, done, started, client, attached, inbox, said>>
        /\ UNCHANGED <<row, over>>
    BY <1>2 DEF ShutdownReleases, runner, clients
  <2>2. \A e \in Requests : fibre[e] \notin Running
    BY <2>1 DEF SlotOwned
  <2>3. slot' # None => \E e \in Requests : key[e] = slot' /\ fibre[e] = "failed"
    <3>1. SUFFICES ASSUME slot' # None PROVE \E e \in Requests : key[e] = slot' /\ fibre[e] = "failed"
      OBVIOUS
    <3>2. slot' = slot /\ \A e \in outstanding : key[e] # slot
      BY <2>1, <3>1
    <3>3. PICK e \in Requests : key[e] = slot /\ fibre[e] \in {"streaming", "failed", "stopped"}
      BY <3>1, <3>2 DEF SlotOwned
    <3>4. fibre[e] = "failed"
      BY <2>1, <2>2, <3>2, <3>3 DEF SlotOwned, Running
    <3>5. QED
      BY <3>2, <3>3, <3>4
  <2>4. SlotOwned'
    BY <2>1, <2>2, <2>3 DEF SlotOwned
  <2>5. ClientView'
    BY <2>1 DEF ClientView, IndexExact, BufferExact, SubscribersExact, StreamFaithful
  <2>6. TypeOK'
    BY <2>1 DEF TypeOK
  <2>7. ShutdownFreesSlot'
    BY <2>1, <2>3 DEF ShutdownFreesSlot
  <2>8. QED
    BY <2>4, <2>5, <2>6, <2>7, Parts
<1>3. ASSUME NEW e \in Requests, Interrupt(e)
      PROVE  StreamInv'
  <2>1. /\ server = "stopping" /\ e \in outstanding /\ fibre[e] \in Running
        /\ UNCHANGED <<key, live, claimed, frames, subscribers, done, started, client, attached, inbox, said>>
        /\ UNCHANGED <<row, slot, over, server, outstanding>>
    BY <1>3 DEF Interrupt, clients, database, ServerSame
  <2>2. fibre'[e] = "stopped" /\ \A q \in Requests \ {e} : fibre'[q] = fibre[q]
    BY <1>3, Others DEF Interrupt
  <2>3. fibre' \in [Requests -> {"none"} \cup Running \cup Finished]
    BY <1>3 DEF Interrupt, Enters, TypeOK, Finished
  <2>4. TypeOK'
    BY <2>1, <2>3 DEF TypeOK
  <2>5. IndexExact'
    <3>1. \A k \in TurnIds : live[k] # None => live[k] \in Requests
      BY DEF TypeOK
    <3>2. QED
      BY <2>1, <2>2, <3>1 DEF IndexExact, Running
  <2>6. BufferExact'
    BY <2>1, <2>2 DEF BufferExact, Running
  <2>7. SubscribersExact'
    <3>1. ASSUME NEW r \in Requests, client[r] = "ended"
          PROVE  attached[r] \in Requests \ {e}
      <4>1. attached[r] \in Requests /\ fibre[attached[r]] \in {"finished", "failed", "refused"}
        BY <3>1, Names DEF SubscribersExact, TypeOK
      <4>2. QED
        BY <2>1, <4>1 DEF Running
    <3>2. QED
      BY <2>1, <2>2, <3>1 DEF SubscribersExact, Running
  <2>8. StreamFaithful' /\ ShutdownFreesSlot'
    BY <2>1 DEF StreamFaithful, ShutdownFreesSlot
  <2>9. SlotOwned'
    <3>1. slot # None => \E q \in Requests : key[q] = slot /\ fibre'[q] \in {"streaming", "failed", "stopped"}
      BY <2>2 DEF SlotOwned
    <3>2. QED
      BY <2>1, <2>2, <3>1 DEF SlotOwned, Running
  <2>10. QED
    BY <2>4, <2>5, <2>6, <2>7, <2>8, <2>9, Parts DEF ClientView
<1>4. QED
  BY <1>1, <1>2, <1>3

LEMMA Stuttering ==
    ASSUME StreamInv, UNCHANGED vars
    PROVE  StreamInv'
<1>1. /\ UNCHANGED <<key, live, claimed, fibre, frames, subscribers, done, started, client, attached, inbox, said>>
      /\ UNCHANGED <<row, slot, over, server, outstanding>>
  BY DEF vars, runner, clients, database
<1>2. TypeOK' /\ IndexExact' /\ BufferExact' /\ SubscribersExact' /\ SlotOwned'
  BY <1>1 DEF StreamInv, RunnerInv, TypeOK, IndexExact, BufferExact, SubscribersExact, SlotOwned
<1>3. StreamFaithful' /\ ShutdownFreesSlot'
  BY <1>1 DEF StreamInv, StreamFaithful, ShutdownFreesSlot
<1>4. QED
  BY <1>2, <1>3 DEF StreamInv, RunnerInv

LEMMA StepKeeps == StreamInv /\ [Next]_vars => StreamInv'
<1> SUFFICES ASSUME StreamInv, [Next]_vars PROVE StreamInv'
  OBVIOUS
<1>1. ASSUME NEW r \in Requests, NEW k \in TurnIds, Attach(r, k) \/ Create(r, k)
      PROVE  StreamInv'
  BY <1>1, ClientsKeep, CreateKeeps
<1>2. ASSUME NEW r \in Requests, ClientStep(r) \/ Disconnect(r)
      PROVE  StreamInv'
  BY <1>2, ClientsKeep DEF ClientStep
<1>3. ASSUME NEW r \in Requests, FibreStep(r)
      PROVE  StreamInv'
  BY <1>3, FibreKeeps
<1>4. ASSUME NEW k \in TurnIds, Evict(k)
      PROVE  StreamInv'
  BY <1>4, EvictKeeps
<1>5. CASE ShutdownBegins \/ ShutdownReleases \/ \E e \in Requests : Interrupt(e)
  BY <1>5, ShutdownKeeps
<1>6. CASE UNCHANGED vars
  BY <1>6, Stuttering
<1>7. QED
  BY <1>1, <1>2, <1>3, <1>4, <1>5, <1>6 DEF Next

-----------------------------------------------------------------------------
(* The index, the buffers, the subscribers and the owner of the slot stay    *)
(* exact in every reachable state, so the type invariant holds too.         *)
THEOREM StreamInvariance == Spec => []RunnerInv
<1>1. StreamInv => RunnerInv
  BY DEF StreamInv
<1>2. QED
  BY Initially, StepKeeps, <1>1, PTL DEF Spec

(* A client is given every frame of its turn once and in order, whenever it  *)
(* attaches; only one that attaches after the end goes without the deltas.  *)
THEOREM StreamsStayFaithful == Spec => []StreamFaithful
<1>1. StreamInv => StreamFaithful
  BY DEF StreamInv
<1>2. QED
  BY Initially, StepKeeps, <1>1, PTL DEF Spec

(* A shutdown leaves the slot free, unless a turn failed on the database      *)
(* after it had claimed.                                                   *)
THEOREM ShutdownReleasesSlot == Spec => []ShutdownFreesSlot
<1>1. StreamInv => ShutdownFreesSlot
  BY DEF StreamInv
<1>2. QED
  BY Initially, StepKeeps, <1>1, PTL DEF Spec

=============================================================================
