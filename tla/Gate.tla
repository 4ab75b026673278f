--------------------------------- MODULE Gate ---------------------------------
(***************************************************************************)
(* What stands before the HTTP handlers (http/app.ts, http/rateLimit.ts)    *)
(* and what the readiness probe answers (http/handlers.ts,                  *)
(* services/ProcessMetrics.ts).                                             *)
(* A process handles one request after another here: the limiter and the    *)
(* day's budget are read and written without an await between.              *)
(***************************************************************************)
EXTENDS Integers, FiniteSets, Sequences, SequencesExt

CONSTANTS WINDOW_MS, MAX_BUCKETS

-----------------------------------------------------------------------------
(* The limiter: its buckets in the order of the map they are kept in, where  *)
(* a bucket that is set again keeps its place.                              *)
STALE_AFTER_MS == WINDOW_MS * 2
NewLimiter == [buckets |-> <<>>, lastSweptAt |-> 0]

At(buckets, key) == {i \in DOMAIN buckets : buckets[i].key = key}
SetBucket(buckets, b) ==
    IF At(buckets, b.key) = {} THEN Append(buckets, b)
    ELSE [i \in DOMAIN buckets |-> IF i \in At(buckets, b.key) THEN b ELSE buckets[i]]

sweep(l, now) ==
    IF now - l.lastSweptAt < WINDOW_MS THEN l
    ELSE [buckets |-> SelectSeq(l.buckets, LAMBDA b : now - b.start <= STALE_AFTER_MS), lastSweptAt |-> now]

(* At the ceiling the buckets that were set first go, a tenth of them.       *)
evictOldest(l, now) ==
    LET swept == sweep([l EXCEPT !.lastSweptAt = 0], now)
        excess == Len(swept.buckets) - ((MAX_BUCKETS * 9) \div 10)
    IN  IF Len(swept.buckets) < MAX_BUCKETS THEN swept
        ELSE [swept EXCEPT !.buckets = SubSeq(@, excess + 1, Len(@))]

(* A window's first request passes whatever the limit; one that is refused   *)
(* is counted, and does not put the window off.                             *)
check(l, key, perMinute, now) ==
    LET mine == {i \in At(l.buckets, key) : now - l.buckets[i].start <= WINDOW_MS}
        i == CHOOSE i \in mine : TRUE
        swept == IF Len(l.buckets) > 1 THEN sweep(l, now) ELSE l
        room == IF Len(swept.buckets) >= MAX_BUCKETS THEN evictOldest(swept, now) ELSE swept
    IN  IF mine = {}
        THEN [limiter |-> [room EXCEPT !.buckets = SetBucket(@, [key |-> key, count |-> 1, start |-> now])], ok |-> TRUE]
        ELSE [limiter |-> [l EXCEPT !.buckets[i].count = @ + 1], ok |-> l.buckets[i].count + 1 <= perMinute]

-----------------------------------------------------------------------------
(* Requests, by what they ask for: to start a call or a session, to take a   *)
(* turn, to send a signal, a heartbeat, or to read.                         *)
Kinds == {"start", "turn", "signal", "heartbeat", "read"}
Open(kind) == kind = "read"
RateLimited(kind) == kind \in {"start", "turn", "signal"}
isTurnPath(kind) == kind = "turn"

NewGate == [limiter |-> NewLimiter, day |-> 0, count |-> 0]

(* The day's budget is taken by every turn that reaches it, also a refused   *)
(* one.                                                                     *)
dailyTurnBudget(g, today) == [g EXCEPT !.day = today, !.count = IF g.day = today THEN @ + 1 ELSE 1]

(* cfg: the bearer token or "" for none, the bypass token likewise, the two  *)
(* limits. A request carries what it presents.                              *)
securityMiddleware(g, r, cfg) ==
    LET limited == check(g.limiter, r.ip, cfg.perMinute, r.now)
        past == [g EXCEPT !.limiter = limited.limiter]
        spent == dailyTurnBudget(past, r.day)
    IN  CASE ~Open(r.kind) /\ cfg.bearer # "" /\ r.auth # cfg.bearer -> [gate |-> g, answer |-> "unauthorized"]
          [] ~RateLimited(r.kind) /\ (Open(r.kind) \/ cfg.bearer \in {"", r.auth}) -> [gate |-> g, answer |-> "app"]
          [] OTHER ->
               CASE cfg.bypass # "" /\ r.bypass = cfg.bypass -> [gate |-> g, answer |-> "app"]
                 [] ~(cfg.bypass # "" /\ r.bypass = cfg.bypass) /\ ~limited.ok ->
                        [gate |-> past, answer |-> IF isTurnPath(r.kind) THEN "rate_limited_turn" ELSE "rate_limited_start"]
                 [] OTHER ->
                      IF ~isTurnPath(r.kind) THEN [gate |-> past, answer |-> "app"]
                      ELSE [gate |-> spent, answer |-> IF spent.count <= cfg.dailyTurnCap THEN "app"
                                                       ELSE "rate_limited_daily_cap"]

-----------------------------------------------------------------------------
(* The background loops of the process, each a row from its registration on. *)
STALE_TICKS == 3
Never == -1
rowFor(ticks, loop, interval, now) ==
    IF \E i \in DOMAIN ticks : ticks[i].loop = loop
    THEN [i \in DOMAIN ticks |-> IF ticks[i].loop = loop THEN [ticks[i] EXCEPT !.interval = interval] ELSE ticks[i]]
    ELSE Append(ticks, [loop |-> loop, at |-> Never, since |-> now, interval |-> interval, failures |-> 0])
Ticked(ticks, loop, interval, now) ==
    LET rows == rowFor(ticks, loop, interval, now)
    IN  [i \in DOMAIN rows |-> IF rows[i].loop = loop THEN [rows[i] EXCEPT !.at = now, !.failures = 0] ELSE rows[i]]
TickFailed(ticks, loop, interval, now) ==
    LET rows == rowFor(ticks, loop, interval, now)
    IN  [i \in DOMAIN rows |-> IF rows[i].loop = loop THEN [rows[i] EXCEPT !.failures = @ + 1] ELSE rows[i]]

Stale(row, now) ==
    IF row.at = Never THEN now - row.since > row.interval ELSE now - row.at > row.interval * STALE_TICKS
missingLoops(expected, ticks) == expected \ {ticks[i].loop : i \in DOMAIN ticks}
staleLoops(ticks, now) == {ticks[i].loop : i \in {j \in DOMAIN ticks : Stale(ticks[j], now)}}

(* The database answers, refuses, or keeps the probe waiting until it gives  *)
(* up; the reason it gives then is replaced by the one of a refusal.        *)
probe(database) == IF database = "answers" THEN "ok" ELSE "not_reachable"
readyz(database, expected, ticks, now) ==
    LET late == staleLoops(ticks, now)
        never == missingLoops(expected, ticks)
        problems == <<<<probe(database) # "ok", "not_reachable">>, <<never # {}, "never_started">>, <<late # {}, "not_ticking">>>>
        found == SelectSeq(problems, LAMBDA p : p[1])
    IN  IF found = <<>> THEN "ready" ELSE found[1][2]
==============================================================================
