-------------------------------- MODULE Fleet --------------------------------
(***************************************************************************)
(* Who takes a call, and who notices that it died.  The admission control   *)
(* of a voice worker (admission.ts) accepts or refuses the jobs the media   *)
(* server offers; a job in a call heartbeats it; and the orphan sweepers of *)
(* the servers (Sweeper.ts) hang up calls that nobody has been seen to      *)
(* serve, after asking the media plane.                                    *)
(*                                                                         *)
(* One worker, one job for each call.  Time is counted in heartbeat         *)
(* intervals.  The media server, crashes and lost beats are environment.    *)
(***************************************************************************)
EXTENDS Naturals, FiniteSets

CONSTANTS
  Calls,       \* the calls, each with the job of its room
  Servers,     \* the server processes, each with a sweeper
  MaxJobs,     \* WORKER_MAX_JOBS
  Staleness,   \* orphanMissedHeartbeats, in beats
  Unconfirmed, \* orphanUnconfirmedMs, in beats
  Limit,       \* the candidates of one sweep
  MaxCrashes,  \* a bound on the jobs lost without a word
  MaxClaims,   \* a bound on the calls with a turn under way
  Prompt       \* the media server never launches a job the worker gave up on

ASSUME FleetAssumptions ==
  /\ IsFiniteSet(Calls) /\ MaxJobs \in Nat /\ Staleness \in Nat \ {0}
  /\ Unconfirmed \in Nat /\ Unconfirmed >= Staleness
  /\ {Limit, MaxCrashes, MaxClaims} \subseteq Nat /\ Prompt \in BOOLEAN

VARIABLES
  call,       \* conversation: "none", "open", "ended", "swept" or "revised"
  claimed,    \* the calls with a turn between its claim and its commit
  age,        \* beats since it started, as far as they matter
  seen,       \* beats since conversation_liveness.last_seen_at, or None
  job,        \* "none", "awaited", "launching", "active", "gone"
  admitting,  \* admittingIds
  abandoned,  \* the worker is shutting down
  batch,      \* the candidates a sweeper has left, with what it read of them
  asked,      \* the one it is at, and what the media plane said of it
  crashes,
  attended    \* history: the calls with an agent in the room ever since the
              \* sweeper read its candidates

worker  == <<job, admitting, abandoned>>
rows    == <<call, claimed, age, seen>>
sweeper == <<batch, asked, attended>>
fleetVars == <<worker, rows, sweeper, crashes>>

Nobody == [answer |-> "none"]
None   == Unconfirmed + 2   \* last_seen_at IS NULL
Capped(n) == IF n > Unconfirmed THEN Unconfirmed + 1 ELSE n
Active == {c \in Calls : job[c] = "active"}

FleetInit ==
  /\ call = [c \in Calls |-> "none"] /\ claimed = {}
  /\ age = [c \in Calls |-> 0] /\ seen = [c \in Calls |-> None]
  /\ job = [c \in Calls |-> "none"] /\ admitting = {} /\ abandoned = FALSE
  /\ crashes = 0
  /\ batch = [s \in Servers |-> {}] /\ asked = [s \in Servers |-> Nobody]
  /\ attended = [s \in Servers |-> {}]

-----------------------------------------------------------------------------
(* The worker. *)

InFlightActive == Cardinality(Active)   \* mutant of inFlight
\* A union of ids: an admitted job is in activeJobs before the poll sees it.
inFlight == Cardinality(Active) + Cardinality(admitting \ Active)

\* A closed call is no candidate: what was seen of it no longer matters.
ClosesCall(c, how) == /\ call' = [call EXCEPT ![c] = how]
                      /\ age' = [age EXCEPT ![c] = 0]
                      /\ seen' = [seen EXCEPT ![c] = None]
                      /\ UNCHANGED claimed

Leaves(c) == attended' = [s \in Servers |-> attended[s] \ {c}]

Start(c) ==
  /\ call[c] = "none"
  /\ call' = [call EXCEPT ![c] = "open"]
  /\ UNCHANGED <<worker, claimed, age, seen, sweeper, crashes>>

\* requestFunc: looked up and added without an await between.  A refused job
\* leaves no trace, and is offered again.
Accept(c) ==
  /\ call[c] = "open" /\ job[c] = "none" /\ ~abandoned /\ inFlight < MaxJobs
  /\ admitting' = admitting \cup {c}
  /\ job' = [job EXCEPT ![c] = "awaited"]
  /\ UNCHANGED <<abandoned, rows, sweeper, crashes>>

\* launchJob: the job beats at once.  A beat may be lost.
Launch(c, lost) ==
  /\ job[c] \in {"awaited", "launching"}
  /\ job' = [job EXCEPT ![c] = "active"]
  /\ seen' = IF lost \/ call[c] # "open" THEN seen ELSE [seen EXCEPT ![c] = 0]
  /\ UNCHANGED <<admitting, abandoned, call, claimed, age, sweeper, crashes>>

\* The poll: the job is there, or the wait is given up at the timeout or at a
\* shutdown.  What becomes of a job given up is for the media server to say.
PollDone(c) ==
  /\ c \in admitting /\ job[c] # "awaited"
  /\ admitting' = admitting \ {c}
  /\ UNCHANGED <<job, abandoned, rows, sweeper, crashes>>

GiveUp(c) ==
  /\ c \in admitting /\ job[c] = "awaited"
  /\ admitting' = admitting \ {c}
  /\ job' = [job EXCEPT ![c] = IF Prompt THEN "none" ELSE "launching"]
  /\ UNCHANGED <<abandoned, rows, sweeper, crashes>>

Shutdown ==   \* abandonWaits
  /\ ~abandoned /\ abandoned' = TRUE
  /\ UNCHANGED <<job, admitting, rows, sweeper, crashes>>

CallEnds(c) ==   \* the call ends as calls do
  /\ c \in Active
  /\ job' = [job EXCEPT ![c] = "gone"]
  /\ IF call[c] = "open" THEN ClosesCall(c, "ended") ELSE UNCHANGED rows
  /\ Leaves(c)
  /\ UNCHANGED <<admitting, abandoned, batch, asked, crashes>>

Closed(c) ==   \* by a signal, or another server's sweeper
  /\ call[c] = "open"
  /\ ClosesCall(c, "ended")
  /\ UNCHANGED <<worker, sweeper, crashes>>

\* T1: a turn of the call is claimed, as its job sends it. A closed call admits none.
TurnClaims(c) ==
  /\ call[c] = "open" /\ c \in Active \ claimed /\ Cardinality(claimed) < MaxClaims
  /\ claimed' = claimed \cup {c}
  /\ UNCHANGED <<worker, call, age, seen, sweeper, crashes>>

\* T2: the turn is answered, is discarded, or settles the call.  Nothing looks at
\* whether the call has been closed meanwhile: an override finalizes it again.
TurnCommits(c, settles) ==
  /\ c \in claimed
  /\ claimed' = claimed \ {c}
  /\ call' = IF ~settles THEN call
             ELSE [call EXCEPT ![c] = IF @ = "open" THEN "ended" ELSE "revised"]
  /\ age' = [age EXCEPT ![c] = IF settles THEN 0 ELSE @]
  /\ seen' = [seen EXCEPT ![c] = IF settles THEN None ELSE @]
  /\ UNCHANGED <<worker, sweeper, crashes>>

Crash(c) ==   \* the job process is killed, or never comes up
  /\ crashes < MaxCrashes /\ job[c] \in {"awaited", "launching", "active"}
  /\ crashes' = crashes + 1
  /\ job' = [job EXCEPT ![c] = "gone"]
  /\ Leaves(c)
  /\ UNCHANGED <<admitting, abandoned, rows, batch, asked>>

-----------------------------------------------------------------------------
(* Time. *)

\* An interval passes: every job in a call beats, save those whose beat is lost
\* or whose process is blocked.
Tick(lost) ==
  /\ age'  = [c \in Calls |-> IF call[c] = "open" THEN Capped(age[c] + 1) ELSE age[c]]
  /\ seen' = [c \in Calls |->
                IF call[c] # "open" THEN seen[c]
                ELSE IF c \in Active \ lost THEN 0
                ELSE IF seen[c] = None THEN None
                ELSE Capped(seen[c] + 1)]
  /\ UNCHANGED <<worker, call, claimed, sweeper, crashes>>

-----------------------------------------------------------------------------
(* The sweeper. *)

Unseen(c) == IF seen[c] = None THEN age[c] ELSE seen[c]

\* staleConversations: a call just started has its grace.
Stale == {c \in Calls : /\ call[c] = "open" /\ age[c] > Staleness
                        /\ seen[c] = None \/ seen[c] > Staleness}

\* The oldest of them, as they were read; a batch is worked on one at a time.
Oldest == {q \in SUBSET Stale :
             /\ Cardinality(q) = (IF Cardinality(Stale) < Limit THEN Cardinality(Stale) ELSE Limit)
             /\ \A c \in q, d \in Stale \ q : age[c] >= age[d]}

Query(s) ==
  /\ batch[s] = {} /\ Stale # {}
  /\ \E q \in Oldest : batch' = [batch EXCEPT ![s] =
                                 {[call |-> c, stale |-> Unseen(c)] : c \in q}]
  /\ attended' = [attended EXCEPT ![s] = Active \cap Stale]
  /\ UNCHANGED <<worker, rows, asked, crashes>>

PresentOrAbsent(c, answered) ==   \* mutant of Present
  IF answered /\ c \in Active THEN "present" ELSE "absent"

\* agentPresent: an error or a timeout is no answer, which is not "no agent".
Present(c, answered) ==
  IF ~answered THEN "unknown" ELSE IF c \in Active THEN "present" ELSE "absent"

Ask(s, r, answered) ==
  /\ asked[s] = Nobody
  /\ asked' = [asked EXCEPT ![s] = [row |-> r, answer |-> Present(r.call, answered)]]
  /\ UNCHANGED <<worker, rows, batch, attended, crashes>>

DeferredUnlessAbsent(q) == q.answer # "absent"   \* mutant of Deferred
Deferred(q) == \/ q.answer = "present"
               \/ (q.answer = "unknown" /\ q.row.stale < Unconfirmed)

Forward(s) == /\ batch' = [batch EXCEPT ![s] = @ \ {asked[s].row}]
              /\ attended' = [attended EXCEPT ![s] = @ \ {asked[s].row.call}]
              /\ asked' = [asked EXCEPT ![s] = Nobody]

Defer(s) ==
  /\ asked[s] # Nobody /\ Deferred(asked[s])
  /\ Forward(s)
  /\ UNCHANGED <<worker, rows, crashes>>

StillOpenAssumed(c) == TRUE   \* mutant of StillOpen
StillOpen(c) == call[c] = "open"

\* The swept hang-up: the orchestrator refuses a call already closed.
Sweep(s) ==
  /\ asked[s] # Nobody /\ ~Deferred(asked[s])
  /\ IF StillOpen(asked[s].row.call) THEN ClosesCall(asked[s].row.call, "swept")
                                     ELSE UNCHANGED rows
  /\ Forward(s)
  /\ UNCHANGED <<worker, crashes>>

Sweeps(s) == Query(s) \/ Defer(s) \/ Sweep(s)
             \/ \E r \in batch[s], answered \in BOOLEAN : Ask(s, r, answered)

FleetNext ==
  \/ \E c \in Calls : \/ Start(c) \/ Accept(c)
                      \/ \E lost \in BOOLEAN : Launch(c, lost)
                      \/ PollDone(c) \/ GiveUp(c) \/ Closed(c) \/ CallEnds(c) \/ Crash(c)
                      \/ TurnClaims(c) \/ \E settles \in BOOLEAN : TurnCommits(c, settles)
  \/ Shutdown
  \/ \E lost \in SUBSET Active : Tick(lost)
  \/ \E s \in Servers : Sweeps(s)

FleetSpec == FleetInit /\ [][FleetNext]_fleetVars

\* Time passes, and the loops of the servers run; the media plane may stay away.
FleetFairSpec == /\ FleetSpec
                 /\ WF_fleetVars(\E lost \in SUBSET Active : Tick(lost))
                 /\ \A s \in Servers : WF_fleetVars(Sweeps(s))

-----------------------------------------------------------------------------
(* Properties. *)

\* A worker never runs more jobs than its ceiling, counting the ones it has
\* accepted and not yet launched, as long as no job is launched after the worker
\* gave up waiting for it (admission.ts).
CeilingHeld ==
  Prompt => Cardinality({c \in Calls : job[c] \in {"awaited", "active"}}) <= MaxJobs

\* A call with its agent in the room from the moment the sweeper read it is hung
\* up only if it had not been seen for the long window: no outage of the media
\* plane and no lost beat ends a call that is being served (MediaPlane.ts:13).
ServedCallKept ==
  [][\A c \in Calls, s \in Servers :
       call[c] = "open" /\ call'[c] = "swept" /\ asked[s] # asked'[s] /\ c \in attended[s]
          => asked[s].row.stale >= Unconfirmed]_fleetVars

\* A sweeper, another server, a signal and a turn race to close a call: it never
\* opens again, no sweeper replaces an outcome (Sweeper.ts:60), and none is replaced
\* at all, except by the turn that was claimed before the call closed, if one was
\* and it overrides: once it is through, the outcome stays (Orchestrator.ts:344).
ClosedOnce ==
  [][\A c \in Calls : call[c] \in {"ended", "swept", "revised"} =>
       /\ call'[c] \in {call[c], "revised"}
       /\ c \notin claimed => call'[c] = call[c] /\ c \notin claimed']_fleetVars

\* A call whose job is gone, or never came, does not stay open for ever, even if
\* the media plane never answers again.
Dead(c) == call[c] = "open" /\ job[c] = "gone"
DeadCallSwept == (\E c \in Calls : Dead(c)) ~> (\A c \in Calls : ~Dead(c))

=============================================================================
