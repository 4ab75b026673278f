------------------------------- MODULE LoadRun -------------------------------
(****************************************************************************)
(* A load run: tier 1 (load-test/src/tier1.ts, typed turns, closed loop or  *)
(* soak) or tier 2 (tracer/fake-borrower-fleet.ts, voice calls placed by a  *)
(* forked child).  It refuses a server it should not measure, mints         *)
(* borrowers, waits for the backlog, drives the calls with the sampler on,  *)
(* and then compares every call's ledger with a reference call's.           *)
(****************************************************************************)
EXTENDS Sampler

CONSTANTS
    Modes,       \* of {"closed", "soak", "fleet"}
    Plans,       \* how many calls the run is asked for
    Turns,       \* lines of the script
    MintBatch,   \* borrowers minted per request
    MaxInFlight, \* a soak's cap
    Scored,      \* how many lines of a voice call may come back with a word error rate:
                 \* one of each line begun, whether or not it became a turn
    MaxLost,     \* bound: how many of them lie over the gate (MAX_WER)
    MaxBacklog   \* bound: outbox jobs of an earlier run

ASSUME RunAssumptions ==
    /\ Plans \subseteq Nat /\ Turns \in Nat /\ None # 0 /\ None # "correct"
    /\ Scored \subseteq Nat /\ MaxLost \in Nat

\* How a served voice call was heard: its scored lines, how many of them lost words,
\* and whether one lost an amount.
Hearings == {h \in [lines : Scored, lost : 0..MaxLost, amount : BOOLEAN] : h.lost <= h.lines}

VARIABLES
    mode, plan,  \* what kind of run, and of how many calls
    phase,
    minted,      \* borrowers minted so far
    jobs,        \* outbox jobs of an earlier run: [pending, claimed]
    refPassed,   \* the reference call passed its own assertions
    client,      \* per call: waiting, posted, answered, done
    turn,        \* per call: turns the client has posted
    ledger,      \* per call: None, or [turns, right]: what the server committed
    deciding,    \* calls with a turn at the server
    known,       \* calls whose conversation id the client has
    heard,       \* per voice call: None while it runs or if no agent was heard, or a hearing
    closed,      \* a soak's arrivals are over
    child,       \* the borrower process: None, working, gone
    verdict,     \* per call: None, correct, incorrect
    exit         \* exit code

rvars == <<mode, plan, phase, minted, jobs, refPassed, client, turn, ledger, deciding,
           known, heard, closed, child, verdict, exit>>
vars == <<svars, rvars>>

Fleet == mode = "fleet"
Calls == 1..plan   \* in the order they start
Exits(code) == exit' = code /\ phase' = "over"
Phase(from, to) == phase = from /\ phase' = to

Init ==
    /\ SInit
    /\ mode \in Modes /\ plan \in Plans /\ (plan = 0 => mode = "closed")
    /\ phase = "boot"
    /\ minted = 0 /\ refPassed = FALSE
    /\ jobs \in [pending : 0..MaxBacklog, claimed : {0}]
    /\ client = [c \in Calls |-> "waiting"] /\ turn = [c \in Calls |-> 0]
    /\ ledger = [c \in Calls |-> None] /\ deciding = {} /\ known = {}
    /\ heard = [c \in Calls |-> None]
    /\ closed = FALSE /\ child = None
    /\ verdict = [c \in Calls |-> None] /\ exit = None

------------------------------------------------------------------------------
(* Before the load.                                                         *)

\* awaitFirstSample gives up after five ticks' time.
Boot ==
    /\ Phase("boot", "gate")
    /\ UNCHANGED <<svars, mode, plan, minted, jobs, refPassed, client, turn, ledger, deciding,
                   known, heard, closed, child, verdict, exit>>

\* What the server and its worker say of themselves, and what the caller allows.
Refused(status, allowed) ==
    IF Fleet
    THEN \/ status.production # TRUE /\ "dev" \notin allowed
         \/ status.simulation /\ "no-shedding" \notin allowed
         \/ plan > status.admitted /\ "shed" \notin allowed
    ELSE status.judge # "off" /\ "judge" \notin allowed

Gate(status, allowed) ==
    /\ phase = "gate"
    /\ IF Refused(status, allowed) THEN Exits(IF Fleet THEN 1 ELSE 2)
       ELSE phase' = (IF Fleet THEN "mint" ELSE "reference") /\ exit' = exit
    /\ UNCHANGED <<svars, mode, plan, minted, jobs, refPassed, client, turn, ledger, deciding,
                   known, heard, closed, child, verdict>>

\* The reference call. Tier 1 stops when it does not pass; tier 2 goes on, and
\* holds it against every call.
Reference(answered, passed) ==
    /\ phase = "reference"
    /\ refPassed' = passed
    /\ IF ~answered \/ (~passed /\ ~Fleet) THEN Exits(1)
       ELSE phase' = (IF Fleet THEN "load" ELSE "mint") /\ exit' = exit
    /\ IF phase' = "load" THEN Mark /\ child' = "working" ELSE UNCHANGED <<svars, child>>
    /\ UNCHANGED <<mode, plan, minted, jobs, client, turn, ledger, deciding, known, heard, closed, verdict>>

Mint(answered) ==
    /\ phase = "mint"
    /\ IF ~answered THEN Exits(1) /\ minted' = minted
       ELSE /\ minted' = IF Fleet THEN plan ELSE Min({plan, minted + MintBatch})
            /\ phase' = (IF minted' < plan THEN "mint" ELSE IF Fleet THEN "reference" ELSE "drain")
            /\ exit' = exit
    /\ UNCHANGED <<svars, mode, plan, jobs, refPassed, client, turn, ledger, deciding, known,
                   heard, closed, child, verdict>>

\* Tier 1 polls the backlog until no job is PENDING, or three minutes have passed.
Drained(timedOut) ==
    /\ Phase("drain", "load")
    /\ jobs.pending = 0 \/ timedOut
    /\ Mark
    /\ UNCHANGED <<mode, plan, minted, jobs, refPassed, client, turn, ledger, deciding, known,
                   heard, closed, child, verdict, exit>>

OutboxClaims ==
    /\ jobs.pending > 0 /\ exit = None
    /\ jobs' = [pending |-> 0, claimed |-> jobs.claimed + jobs.pending]
    /\ UNCHANGED <<svars, mode, plan, phase, minted, refPassed, client, turn, ledger, deciding,
                   known, heard, closed, child, verdict, exit>>

OutboxFinishes ==
    /\ jobs.claimed > 0 /\ exit = None
    /\ jobs' = [jobs EXCEPT !.claimed = 0]
    /\ UNCHANGED <<svars, mode, plan, phase, minted, refPassed, client, turn, ledger, deciding,
                   known, heard, closed, child, verdict, exit>>

------------------------------------------------------------------------------
(* The load.                                                                *)

InFlight == {c \in Calls : client[c] \in {"posted", "answered"}}
Launched == {c \in Calls : client[c] # "waiting"}

\* The call's conversation is opened; the client may never learn of it.
Start(c, answered) ==
    /\ phase = "load" /\ child # "gone"
    /\ client[c] = "waiting" /\ Launched = 1..(c - 1)
    /\ mode = "soak" => ~closed /\ Cardinality(InFlight) < MaxInFlight
    /\ client' = [client EXCEPT ![c] = IF answered THEN "answered" ELSE "done"]
    /\ known' = IF answered THEN known \cup {c} ELSE known
    /\ ledger' = [ledger EXCEPT ![c] = [turns |-> 0, right |-> TRUE]]
    /\ UNCHANGED <<svars, mode, plan, phase, minted, jobs, refPassed, turn, deciding, heard,
                   closed, child, verdict, exit>>

\* A soak's time is up: who has not started will not.
Deadline ==
    /\ phase = "load" /\ mode = "soak" /\ ~closed
    /\ closed' = TRUE
    /\ UNCHANGED <<svars, mode, plan, phase, minted, jobs, refPassed, client, turn, ledger,
                   deciding, known, heard, child, verdict, exit>>

RunTurn(c) ==
    /\ phase = "load" /\ child # "gone"
    /\ client[c] = "answered" /\ turn[c] < Turns
    /\ client' = [client EXCEPT ![c] = "posted"]
    /\ turn' = [turn EXCEPT ![c] = @ + 1]
    /\ deciding' = deciding \cup {c}
    /\ UNCHANGED <<svars, mode, plan, phase, minted, jobs, refPassed, ledger, known, heard,
                   closed, child, verdict, exit>>

\* The server commits the turn, also when nobody waits for it any more.
Commit(c, right) ==
    /\ c \in deciding /\ exit = None
    /\ deciding' = deciding \ {c}
    /\ ledger' = [ledger EXCEPT ![c] = [turns |-> @.turns + 1, right |-> @.right /\ right]]
    /\ UNCHANGED <<svars, mode, plan, phase, minted, jobs, refPassed, client, turn, known, heard,
                   closed, child, verdict, exit>>

\* turn_end arrives: a server that has gone wrong may end the call early with it.
TurnEnds(c, endCall) ==
    /\ phase = "load" /\ client[c] = "posted" /\ c \notin deciding
    /\ endCall => ~ledger[c].right \/ turn[c] = Turns
    /\ client' = [client EXCEPT ![c] = IF ~Fleet /\ (endCall \/ turn[c] = Turns) THEN "done" ELSE "answered"]
    /\ UNCHANGED <<svars, mode, plan, phase, minted, jobs, refPassed, turn, ledger, deciding,
                   known, heard, closed, child, verdict, exit>>

\* The stream ends without turn_end, or was refused: the caller gives up on the call.
TurnLost(c) ==
    /\ phase = "load" /\ ~Fleet /\ client[c] = "posted"
    /\ client' = [client EXCEPT ![c] = "done"]
    /\ UNCHANGED <<svars, mode, plan, phase, minted, jobs, refPassed, turn, ledger, deciding,
                   known, heard, closed, child, verdict, exit>>

\* The connection breaks while frames are read: nothing catches that, the run dies.
StreamBreaks(c) ==
    /\ phase = "load" /\ ~Fleet /\ client[c] = "posted"
    /\ Exits(1)
    /\ UNCHANGED <<svars, mode, plan, minted, jobs, refPassed, client, turn, ledger, deciding,
                   known, heard, closed, child, verdict>>

\* A voice call is over, hung up by the agent or by its own time limit; or no agent
\* was ever heard on it.
CallOver(c, how) ==
    /\ phase = "load" /\ Fleet /\ child = "working"
    /\ client[c] \in {"answered", "posted"}
    /\ client' = [client EXCEPT ![c] = "done"]
    /\ heard' = [heard EXCEPT ![c] = how]
    /\ UNCHANGED <<svars, mode, plan, phase, minted, jobs, refPassed, turn, ledger, deciding,
                   known, closed, child, verdict, exit>>

\* The child reports a failure, or exits with an error code: the run stops.
ChildFails ==
    /\ phase = "load" /\ child = "working"
    /\ child' = "gone" /\ Exits(1)
    /\ UNCHANGED <<svars, mode, plan, minted, jobs, refPassed, client, turn, ledger, deciding,
                   known, heard, closed, verdict>>

\* It dies of a signal, or ends without a word: its exit handler lets that pass.
ChildVanishes ==
    /\ phase = "load" /\ child = "working"
    /\ child' = "gone"
    /\ UNCHANGED <<svars, mode, plan, phase, minted, jobs, refPassed, client, turn, ledger,
                   deciding, known, heard, closed, verdict, exit>>

\* mutant of AllDone: a soak waits for calls that will never start
AllDoneWaiting == \A c \in Calls : client[c] = "done"

AllDone == \A c \in Calls : client[c] = "done" \/ (client[c] = "waiting" /\ closed)

LoadOver ==
    /\ phase = "load" /\ child # "gone"
    /\ AllDone
    /\ phase' = "check"
    /\ StopSampler
    /\ UNCHANGED <<mode, plan, minted, jobs, refPassed, client, turn, ledger, deciding, known,
                   heard, closed, child, verdict, exit>>

SamplerReports ==
    /\ WriteReport
    /\ UNCHANGED rvars

------------------------------------------------------------------------------
(* The verdict.                                                             *)

MatchesTurns(c) == ledger[c].turns = Turns   \* mutant of Matches: only the turns are counted

Matches(c) == ledger[c].turns = Turns /\ ledger[c].right

\* The detail of a call as the server answers it: read, refused, or not reached.
Verdict(c, detail) ==
    /\ phase = "check" /\ report # None
    /\ c \in Launched /\ verdict[c] = None
    /\ c \notin known => detail = "read"
    /\ IF detail = "unreached" /\ ~Fleet THEN Exits(1) /\ UNCHANGED verdict
       ELSE /\ verdict' = [verdict EXCEPT ![c] =
                 IF c \in known /\ detail = "read" /\ Matches(c) /\ (Fleet => refPassed)
                 THEN "correct" ELSE "incorrect"]
            /\ UNCHANGED <<phase, exit>>
    /\ UNCHANGED <<svars, mode, plan, minted, jobs, refPassed, client, turn, ledger, deciding,
                   known, heard, closed, child>>

\* percentile: nearest rank, over all scored lines of the calls somebody served.
Rank(n, p) == (p * n + 99) \div 100
Served == {c \in Launched : heard[c] # None}
ServedLines == UNION {{c} \X (1..heard[c].lines) : c \in Served}
LostLines == UNION {{c} \X (1..heard[c].lost) : c \in Served}
WerBreached == Cardinality(ServedLines \ LostLines) < Rank(Cardinality(ServedLines), 95)
AmountsBreached == \E c \in Served : heard[c].amount

Budget ==
    PerCoreBudget(report, IF Fleet THEN WorkerRoles ELSE ServerRoles, Watched)

Finish ==
    /\ phase = "check" /\ report # None
    /\ \A c \in Launched : verdict[c] # None
    /\ Exits(IF /\ ValidateReport(report, Budget) = {}
                /\ \A c \in Launched : verdict[c] = "correct"
                /\ IF Fleet THEN Launched = Calls /\ ~WerBreached /\ ~AmountsBreached
                   ELSE Launched # {}
             THEN 0 ELSE 1)
    /\ UNCHANGED <<svars, mode, plan, minted, jobs, refPassed, client, turn, ledger, deciding,
                   known, heard, closed, child, verdict>>

------------------------------------------------------------------------------
Before ==
    \/ Boot
    \/ \E status \in [judge : {"off", "on", "silent"}, production : {TRUE, FALSE, None},
                      simulation : BOOLEAN, admitted : {0, plan}],
          allowed \in {{}, {"judge", "dev", "no-shedding", "shed"}} : Gate(status, allowed)
    \/ \E answered, passed \in BOOLEAN : Reference(answered, passed)
    \/ \E answered \in BOOLEAN : Mint(answered)
    \/ \E timedOut \in BOOLEAN : Drained(timedOut)

Server ==
    \/ OutboxClaims \/ OutboxFinishes
    \/ \E c \in Calls, right \in BOOLEAN : Commit(c, right)

Drive(c) ==
    \/ \E answered \in BOOLEAN : Start(c, answered)
    \/ RunTurn(c)
    \/ \E endCall \in BOOLEAN : TurnEnds(c, endCall)
    \/ TurnLost(c) \/ StreamBreaks(c)
    \/ \E how \in {None} \cup Hearings : CallOver(c, how)
    \/ \E detail \in {"read", "refused", "unreached"} : Verdict(c, detail)

Load == (\E c \in Calls : Drive(c)) \/ Deadline \/ ChildFails \/ ChildVanishes \/ LoadOver

Next ==
    \/ Before \/ Server \/ Load \/ SamplerReports \/ Finish
    \/ exit = None /\ Measured /\ UNCHANGED rvars

\* The harness runs on, the server decides every turn, and a voice call has a limit.
Fairness ==
    /\ WF_vars(Before) /\ WF_vars(Server) /\ WF_vars(Deadline) /\ WF_vars(LoadOver)
    /\ WF_vars(SamplerReports) /\ WF_vars(Finish)
    /\ \A c \in 1..Max(Plans) : WF_vars(c \in Calls /\ Drive(c))

Spec == Init /\ [][Next]_vars /\ Fairness

------------------------------------------------------------------------------
\* A run that exits 0 has measured what it claims: every call it placed did what
\* the reference did, none is missing, no served voice call lost an amount, at most
\* one scored line in twenty lost words over the gate (of all lines together: the
\* lost ones may be those of one call), and the load took its CPU from a finished
\* report.
PassIsTrue ==
    exit = 0 =>
        /\ Launched # {} /\ (Fleet => Launched = Calls /\ refPassed)
        /\ \A c \in Launched : ledger[c] = [turns |-> Turns, right |-> TRUE]
        /\ \A c \in Served : ~heard[c].amount
        /\ 20 * Cardinality(LostLines) <= Cardinality(ServedLines)
        /\ report # None

\* Every run comes to an exit code, unless its child died without a word: no call,
\* backlog or turn holds it for ever.  (Then it does hang: nothing else looks.)
ChildIsHeard == [](child = "gone" => exit # None)
RunEnds == ChildIsHeard => <>(exit # None)
==============================================================================
