------------------------------ MODULE TurnRunner ------------------------------
(***************************************************************************)
(* The turn runner: the one process-wide index of running turns behind     *)
(* POST /api/conversations/:id/turn.  A request either attaches to the      *)
(* entry its turn id already has, and reads the frames so far followed by   *)
(* the live ones, or creates an entry and a daemon fibre that runs the turn *)
(* whether or not anybody is still connected.                               *)
(*                                                                         *)
(* One conversation is modelled.  The entry and the fibre that a request    *)
(* creates are named by that request.  What the turn does to the database   *)
(* is kept to what the runner depends on: the row of each turn id, the slot *)
(* active_turn_id, and whether the call is over; Conversation has the rest. *)
(* Frames carry their type only.                                            *)
(***************************************************************************)
EXTENDS Naturals, Sequences, FiniteSets

CONSTANTS
  MaxRequests,\* a bound on the requests sent, each with one client reading
  MaxTurns,   \* a bound on the turn ids of the conversation
  MaxDeltas,  \* a bound on the delta frames of one turn
  MaxFaults,  \* a bound on the turns that fail on the database
  None

ASSUME Assumptions ==
  /\ MaxRequests \in Nat
  /\ MaxTurns \in Nat
  /\ None \notin Nat
  /\ MaxDeltas \in Nat
  /\ MaxFaults \in Nat

Requests == 1..MaxRequests   \* numbered as they arrive,
TurnIds  == 1..MaxTurns      \* and so are the turn ids they name

VARIABLES
  key,        \* the turn id of the entry a request created
  live,       \* turn id -> the entry in the index
  claimed,    \* turn id -> the fibre a shutdown would interrupt
  fibre,      \* what the fibre of an entry is doing
  frames,     \* an entry's buffer, replayed to who attaches
  subscribers,\* the clients an entry broadcasts to
  done,       \* an entry that has finished
  started,    \* the Deferred its creator waits on
  client,     \* what the client of a request is doing
  attached,   \* the entry a client reads
  inbox,      \* every frame put into a client's queue
  said,       \* history: every frame an entry ever broadcast
  row,        \* turn id -> status of its conversation_turns row
  slot,       \* conversations.active_turn_id
  over,       \* the call has an outcome
  server,     \* "up", "stopping" or "stopped"
  outstanding \* the fibres a shutdown found claimed

runner   == <<key, live, claimed, fibre, frames, subscribers, done, started>>
clients  == <<client, attached, inbox, said>>
database == <<row, slot, over>>
vars == <<runner, clients, database, server, outstanding>>

Frames    == {"turn_start", "delta", "say", "turn_end", "error"}
Running   == {"t1", "streaming", "ending"}
Finished  == {"finished", "failed", "refused", "stopped"}
NotDelta(f) == f # "delta"
Lasting(fs) == SelectSeq(fs, NotDelta)

Init ==
  /\ key = [r \in Requests |-> None]
  /\ live = [k \in TurnIds |-> None]
  /\ claimed = [k \in TurnIds |-> None]
  /\ fibre = [r \in Requests |-> "none"]
  /\ frames = [r \in Requests |-> <<>>]
  /\ subscribers = [r \in Requests |-> {}]
  /\ done = [r \in Requests |-> FALSE]
  /\ started = [r \in Requests |-> "pending"]
  /\ client = [r \in Requests |-> "idle"]
  /\ attached = [r \in Requests |-> None]
  /\ inbox = [r \in Requests |-> <<>>]
  /\ said = [r \in Requests |-> <<>>]
  /\ row = [k \in TurnIds |-> "absent"]
  /\ slot = None
  /\ over = FALSE
  /\ server = "up"
  /\ outstanding = {}

-----------------------------------------------------------------------------
(* What a fibre tells its clients.                                         *)

(* Frames fs are put into the queue of every subscriber of entry e.        *)
Broadcast(e, fs) ==
  /\ inbox' = [r \in Requests |-> IF r \in subscribers[e] THEN inbox[r] \o fs ELSE inbox[r]]
  /\ said' = [said EXCEPT ![e] = @ \o fs]

BufferedLast(e, fs) == fs   \* mutant: a frame replaces those before it
Buffered(e, fs) == frames[e] \o fs

(* The end of the stream, for whoever subscribes to entry e.               *)
EndsUnheard(e) == client   \* mutant: the subscribers are dropped without END
Ends(e) == [r \in Requests |-> IF r \in subscribers[e] THEN "ended" ELSE client[r]]

(* emit: buffered, the creator released by turn_start, then broadcast.     *)
Emit(e, fs) ==
  /\ frames' = [frames EXCEPT ![e] = Buffered(e, fs)]
  /\ started' = IF \E i \in DOMAIN fs : fs[i] = "turn_start"
                THEN [started EXCEPT ![e] = "ok"] ELSE started
  /\ Broadcast(e, fs)
  /\ UNCHANGED <<key, live, claimed, subscribers, done, client, attached>>

(* The last frames fs, then the end of the stream: the deltas leave the     *)
(* buffer, the claim is forgotten and the subscribers read END.            *)
Finish(e, fs) ==
  /\ frames' = [frames EXCEPT ![e] = Lasting(Buffered(e, fs))]
  /\ Broadcast(e, fs)
  /\ started' = [started EXCEPT ![e] = "ok"]
  /\ done' = [done EXCEPT ![e] = TRUE]
  /\ claimed' = [claimed EXCEPT ![key[e]] = None]
  /\ client' = Ends(e)
  /\ subscribers' = [subscribers EXCEPT ![e] = {}]
  /\ UNCHANGED <<key, live, attached>>

(* The refusal of a turn that never started: an error and END to whoever    *)
(* attached meanwhile, the entry dropped, and a 409 to its creator.        *)
Refuse(e) ==
  /\ Broadcast(e, <<"error">>)
  /\ client' = Ends(e)
  /\ subscribers' = [subscribers EXCEPT ![e] = {}]
  /\ live' = [live EXCEPT ![key[e]] = None]
  /\ claimed' = [claimed EXCEPT ![key[e]] = None]
  /\ started' = [started EXCEPT ![e] = "failed"]
  /\ UNCHANGED <<key, frames, done, attached>>

Enters(e, phase) == fibre' = [fibre EXCEPT ![e] = phase]
At(e, phase) == server # "stopped" /\ fibre[e] = phase
ServerSame == UNCHANGED <<server, outstanding>>

-----------------------------------------------------------------------------
(* Clients.                                                                *)

ReplayNothing(e) == <<>>   \* mutant: the live frames only
Replay(e) == frames[e]

(* subscribe: the buffer is replayed; an entry that is done ends at once.   *)
Subscribe(r, e) ==
  /\ attached' = [attached EXCEPT ![r] = e]
  /\ inbox' = [inbox EXCEPT ![r] = Replay(e)]
  /\ client' = [client EXCEPT ![r] = IF done[e] THEN "ended" ELSE "reading"]
  /\ subscribers' = IF done[e] THEN subscribers
                    ELSE [subscribers EXCEPT ![e] = @ \cup {r}]

Arrives(r) ==
  server = "up" /\ client[r] = "idle" /\ \A q \in 1..(r - 1) : client[q] # "idle"

(* A request whose turn id is in the index attaches to that entry.          *)
Attach(r, k) ==
  /\ Arrives(r) /\ live[k] # None
  /\ Subscribe(r, live[k])
  /\ UNCHANGED <<key, live, claimed, fibre, frames, done, started, said, database>>
  /\ ServerSame

NoClaim(r, k) == claimed   \* mutant: a shutdown knows nothing of the fibre
Claim(r, k) == [claimed EXCEPT ![k] = r]

(* Any other request creates the entry and forks the fibre, which first     *)
(* waits for a segment that must be heard, if one is outstanding: it is at  *)
(* T1 from here until that wait, and the poll for a turn running elsewhere, *)
(* are over.                                                               *)
Create(r, k) ==
  /\ Arrives(r) /\ live[k] = None
  /\ \A j \in 1..(k - 1) : \E e \in Requests : key[e] = j
  /\ key' = [key EXCEPT ![r] = k]
  /\ live' = [live EXCEPT ![k] = r]
  /\ claimed' = Claim(r, k)
  /\ Enters(r, "t1")
  /\ client' = [client EXCEPT ![r] = "waiting"]
  /\ UNCHANGED <<frames, subscribers, done, started, attached, inbox, said, database>>
  /\ ServerSame

(* The creator subscribes when its turn has started: by then other frames,  *)
(* or the end, may have gone by.                                           *)
CreatorReads(r) ==
  /\ server # "stopped" /\ client[r] = "waiting" /\ started[r] = "ok"
  /\ Subscribe(r, r)
  /\ UNCHANGED <<key, live, claimed, fibre, frames, done, started, said, database>>
  /\ ServerSame

CreatorRefused(r) ==
  /\ server # "stopped" /\ client[r] = "waiting" /\ started[r] = "failed"
  /\ client' = [client EXCEPT ![r] = "conflict"]
  /\ UNCHANGED <<runner, attached, inbox, said, database>>
  /\ ServerSame

(* A client that disconnects leaves the subscribers; the turn runs on.  One  *)
(* that leaves before its stream begins leaves nothing behind.             *)
Disconnect(r) ==
  /\ server # "stopped" /\ client[r] = "reading"
  /\ client' = [client EXCEPT ![r] = "gone"]
  /\ subscribers' = [e \in Requests |-> subscribers[e] \ {r}]
  /\ inbox' = [inbox EXCEPT ![r] = <<>>]
  /\ attached' = [attached EXCEPT ![r] = None]
  /\ UNCHANGED <<key, live, claimed, fibre, frames, done, started, said, database>>
  /\ ServerSame

-----------------------------------------------------------------------------
(* The fibre of entry e.                                                   *)

Recorded(k) == row[k] = "DONE"
Attaches(k) == row[k] = "RUNNING" /\ slot = k
MayClaim(k) == ~Recorded(k) /\ row[k] # "SUPERSEDED" /\ ~Attaches(k) /\ ~over

(* T1 of a recorded turn replays its start and its end.                     *)
T1Replay(e) ==
  /\ At(e, "t1") /\ Recorded(key[e])
  /\ Enters(e, "finished")
  /\ Finish(e, <<"turn_start", "turn_end">>)
  /\ UNCHANGED database /\ ServerSame

(* T1 refuses a superseded turn, a call that is over, a slot another turn   *)
(* holds, and its own turn that is still running elsewhere when the poll    *)
(* for its answer has run out.                                             *)
T1Refuse(e) ==
  /\ At(e, "t1") /\ ~Recorded(key[e])
  /\ \/ row[key[e]] = "SUPERSEDED"
     \/ Attaches(key[e])
     \/ ~Attaches(key[e]) /\ over
     \/ slot \notin {None, key[e]}
  /\ Enters(e, "refused")
  /\ Refuse(e)
  /\ UNCHANGED database /\ ServerSame

(* T1 claims the slot; a request that supersedes takes it from its holder.  *)
T1Claim(e) ==
  LET k == key[e] IN
  /\ At(e, "t1") /\ MayClaim(k)
  /\ row' = IF slot \in {None, k} THEN [row EXCEPT ![k] = "RUNNING"]
            ELSE [row EXCEPT ![k] = "RUNNING", ![slot] = "SUPERSEDED"]
  /\ slot' = k
  /\ Enters(e, "streaming")
  /\ Emit(e, <<"turn_start">>)
  /\ UNCHANGED over /\ ServerSame

Delta(e) ==
  /\ At(e, "streaming")
  /\ Len(SelectSeq(frames[e], LAMBDA f : f = "delta")) < MaxDeltas
  /\ Emit(e, <<"delta">>)
  /\ UNCHANGED <<fibre, database>> /\ ServerSame

(* T2 commits the turn and says its segments; the end of the turn follows   *)
(* once its traces are flushed.                                            *)
T2Commit(e) ==
  /\ At(e, "streaming") /\ slot = key[e]
  /\ row' = [row EXCEPT ![key[e]] = "DONE"]
  /\ slot' = None
  /\ over' \in {over, TRUE}
  /\ Enters(e, "ending")
  /\ Emit(e, <<"say">>)
  /\ ServerSame

T2Superseded(e) ==
  /\ At(e, "streaming") /\ slot # key[e]
  /\ row' = [row EXCEPT ![key[e]] = "SUPERSEDED"]
  /\ Enters(e, "finished")
  /\ Finish(e, <<"error">>)
  /\ UNCHANGED <<slot, over>> /\ ServerSame

TurnEnd(e) ==
  /\ At(e, "ending")
  /\ Enters(e, "finished")
  /\ Finish(e, <<"turn_end">>)
  /\ UNCHANGED database /\ ServerSame

(* Any failure that is not a refusal, before or after the start, is one     *)
(* error frame and the end; the transaction it happened in is undone.      *)
Fault(e) ==
  /\ Cardinality({f \in Requests : fibre[f] = "failed"}) < MaxFaults
  /\ \E phase \in {"t1", "streaming"} : At(e, phase)
  /\ Enters(e, "failed")
  /\ Finish(e, <<"error">>)
  /\ UNCHANGED database /\ ServerSame

-----------------------------------------------------------------------------
(* Housekeeping.                                                           *)

(* gc drops an entry a minute after it finished.                           *)
Evict(k) ==
  /\ server = "up" /\ live[k] # None /\ done[live[k]]
  /\ live' = [live EXCEPT ![k] = None]
  /\ UNCHANGED <<key, claimed, fibre, frames, subscribers, done, started, clients, database>>
  /\ ServerSame

(* releaseClaimedAtShutdown: every claimed fibre is interrupted, one after  *)
(* the other, and only then is the slot of each released.  An interrupted   *)
(* fibre tells nobody anything more.                                       *)
ShutdownBegins ==
  /\ server = "up"
  /\ server' = "stopping"
  /\ outstanding' = {claimed[k] : k \in TurnIds} \ {None}
  /\ UNCHANGED <<runner, clients, database>>

Interrupt(e) ==
  /\ server = "stopping" /\ e \in outstanding /\ fibre[e] \in Running
  /\ Enters(e, "stopped")
  /\ UNCHANGED <<key, live, claimed, frames, subscribers, done, started, clients, database>>
  /\ ServerSame

ShutdownReleases ==
  /\ server = "stopping"
  /\ \A e \in outstanding : fibre[e] \notin Running
  /\ slot' = IF slot \in {key[e] : e \in outstanding} THEN None ELSE slot
  /\ server' = "stopped"
  /\ outstanding' = {}
  /\ UNCHANGED <<runner, clients, row, over>>

-----------------------------------------------------------------------------
FibreStep(e) ==
  \/ T1Replay(e) \/ T1Refuse(e) \/ T1Claim(e)
  \/ Delta(e)
  \/ T2Commit(e) \/ T2Superseded(e)
  \/ TurnEnd(e)
  \/ Fault(e)

ClientStep(r) == CreatorReads(r) \/ CreatorRefused(r)

Next ==
  \/ \E r \in Requests, k \in TurnIds : Attach(r, k) \/ Create(r, k)
  \/ \E r \in Requests : ClientStep(r) \/ Disconnect(r) \/ FibreStep(r) \/ Interrupt(r)
  \/ \E k \in TurnIds : Evict(k)
  \/ ShutdownBegins
  \/ ShutdownReleases

Spec == Init /\ [][Next]_vars

(* The runtime goes on scheduling every fibre and every waiting request.    *)
Fairness == \A r \in Requests : WF_vars(FibreStep(r)) /\ WF_vars(ClientStep(r))

FairSpec == Spec /\ Fairness

-----------------------------------------------------------------------------
(* Properties.                                                             *)

(* Every variable keeps its type. What a buffer and a queue hold is pinned   *)
(* down by BufferExact and StreamFaithful.                                 *)
TypeOK ==
  /\ key \in [Requests -> TurnIds \cup {None}]
  /\ live \in [TurnIds -> Requests \cup {None}]
  /\ claimed \in [TurnIds -> Requests \cup {None}]
  /\ fibre \in [Requests -> {"none"} \cup Running \cup Finished]
  /\ frames = [e \in Requests |-> frames[e]]
  /\ inbox = [r \in Requests |-> inbox[r]]
  /\ subscribers \in [Requests -> SUBSET Requests]
  /\ done \in [Requests -> BOOLEAN]
  /\ started \in [Requests -> {"pending", "ok", "failed"}]
  /\ client \in [Requests -> {"idle", "waiting", "reading", "ended", "conflict", "gone"}]
  /\ attached \in [Requests -> Requests \cup {None}]
  /\ said \in [Requests -> Seq(Frames)]
  /\ row \in [TurnIds -> {"absent", "RUNNING", "DONE", "SUPERSEDED"}]
  /\ slot \in TurnIds \cup {None}
  /\ over \in BOOLEAN
  /\ server \in {"up", "stopping", "stopped"}
  /\ outstanding \subseteq Requests

(* Whenever a client attaches (before the turn starts, between two frames,  *)
(* after the end), it is given every frame of its turn once and in order;   *)
(* only one that attaches after the end goes without the deltas.            *)
StreamFaithful ==
  \A r \in Requests :
    /\ client[r] = "reading" => inbox[r] = said[attached[r]]
    /\ client[r] = "ended" =>
         inbox[r] \in {said[attached[r]], Lasting(said[attached[r]])}

(* After a shutdown the slot is free, unless a turn failed on the database  *)
(* after it had claimed: its claim is forgotten with its entry.            *)
ShutdownFreesSlot ==
  server = "stopped" /\ slot # None =>
    \E e \in Requests : key[e] = slot /\ fibre[e] = "failed"

(* What keeps them so.  The index holds entries under their turn id, and a   *)
(* running fibre is in the index and claimed.                              *)
IndexExact ==
  /\ \A e \in Requests : key[e] = None <=> fibre[e] = "none"
  /\ \A k \in TurnIds : live[k] # None =>
        key[live[k]] = k /\ fibre[live[k]] # "refused"
  /\ \A e \in Requests : fibre[e] \in Running =>
        live[key[e]] = e /\ claimed[key[e]] = e

(* The buffer is what was said until the turn ends, and what lasts of it     *)
(* afterwards.                                                             *)
BufferExact ==
  \A e \in Requests :
    /\ done[e] <=> fibre[e] \in {"finished", "failed"}
    /\ started[e] = "failed" <=> fibre[e] = "refused"
    /\ fibre[e] # "refused" =>
         frames[e] = IF done[e] THEN Lasting(said[e]) ELSE said[e]

(* The subscribers of an entry are the clients that read it, and one that     *)
(* has ended has none; a client has read the end of nothing but such a one. *)
SubscribersExact ==
  /\ \A r, e \in Requests :
       /\ r \in subscribers[e] <=> client[r] = "reading" /\ attached[r] = e
       /\ r \in subscribers[e] => fibre[e] \in Running \cup {"stopped"}
  /\ \A r \in Requests :
       /\ client[r] \in {"reading", "ended"} => attached[r] # None
       /\ client[r] = "ended" => fibre[attached[r]] \in {"finished", "failed", "refused"}
       /\ client[r] = "idle" => key[r] = None
       /\ client[r] = "waiting" => key[r] # None

(* The slot belongs to a turn that is being decided, to one that failed, or  *)
(* to one a shutdown has interrupted and is about to release; a shutdown    *)
(* knows every fibre that runs.                                            *)
SlotOwned ==
  /\ slot # None => \E e \in Requests :
       /\ key[e] = slot
       /\ fibre[e] \in {"streaming", "failed", "stopped"}
  /\ \A e \in Requests :
       /\ fibre[e] \in Running => server = "up" \/ e \in outstanding
       /\ fibre[e] = "stopped" => server = "stopped" \/ e \in outstanding
  /\ server # "stopping" => outstanding = {}

RunnerInv == TypeOK /\ IndexExact /\ BufferExact /\ SubscribersExact /\ SlotOwned

(* No request is left waiting or reading for good: its stream ends or it is   *)
(* told of the conflict, unless its client leaves or the server goes down.  *)
EveryRequestAnswered ==
  \A r \in Requests : []<>(client[r] \in {"waiting", "reading"} => server # "up")
===============================================================================
