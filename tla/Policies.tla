------------------------------- MODULE Policies -------------------------------
(***************************************************************************)
(* The rules of time and place that the other components ask: who may be     *)
(* called when (preCall.ts, time.ts), how long a turn is held and a silence  *)
(* waited out (holdPolicy.ts, waitPolicy.ts), and what an environment        *)
(* configures (config.ts, voiceDispatch.ts).                                *)
(* Times of day are half hours, instants half hours on a line; audio is in   *)
(* milliseconds.                                                            *)
(***************************************************************************)
EXTENDS Integers, Sequences, SequencesExt

-----------------------------------------------------------------------------
(* Zones, by their offset: one offset before an instant and another after.   *)
(* A name that is no zone's is Unknown, at an offset that none has.          *)
Unknown == [shift |-> 0, before |-> 100, after |-> 100]
Day == 48
OffsetAt(zone, utc) == IF utc < zone.shift THEN zone.before ELSE zone.after
localParts(utc, zone) == utc + OffsetAt(zone, utc)
TimeOfDay(local) == local % Day
Hour(local) == TimeOfDay(local) \div 2

POLICY == [contactWindowStartHour |-> 8, contactWindowEndHour |-> 21, frequencyCapAttempts |-> 7]
isWithinContactWindow(utc, zone) ==
    Hour(localParts(utc, zone)) \in POLICY.contactWindowStartHour .. POLICY.contactWindowEndHour - 1

(* The instant of a local time; where the clocks skip it, the one that       *)
(* follows, where they repeat it, the first.                                *)
InstantOf(local, zone) ==
    IF local - zone.before < zone.shift \/ local - zone.after < zone.shift THEN local - zone.before
    ELSE local - zone.after
setHour(local, hour) == local - TimeOfDay(local) + 2 * hour
nextLocalHour(utc, zone, hour) ==
    IF zone = Unknown THEN utc + Day
    ELSE LET today == InstantOf(setHour(localParts(utc, zone), hour), zone)
             tomorrow == InstantOf(localParts(today, zone) + Day, zone)
             candidate == IF today > utc THEN today ELSE tomorrow
         IN  InstantOf(setHour(localParts(candidate, zone), hour), zone)

(* Every reason is given, in this order.                                    *)
evaluatePreCall(c) ==
    LET zone == IF c.timezoneOverride # Unknown THEN c.timezoneOverride ELSE c.timezone
        found == <<<<c.status = "OPT_OUT", "BORROWER_OPT_OUT">>,
                   <<c.status = "DECEASED", "BORROWER_DECEASED">>,
                   <<~c.linked, "CONTACT_POINT_NOT_ASSOCIATED">>,
                   <<c.consent = "OPTED_OUT" \/ ~c.valid, "CONTACT_POINT_INVALID_OR_OPTED_OUT">>,
                   <<zone = Unknown, "UNKNOWN_TIMEZONE">>,
                   <<zone # Unknown /\ ~isWithinContactWindow(c.now, zone), "TCPA_TIME_WINDOW">>,
                   <<c.attempts >= POLICY.frequencyCapAttempts, "FREQUENCY_CAP">>,
                   <<c.active, "ACTIVE_CONVERSATION">>,
                   <<c.callbacks > 0, "SCHEDULED_ACTION_CONFLICT">>>>
        met == SelectSeq(found, LAMBDA f : f[1])
    IN  [i \in DOMAIN met |-> met[i][2]]

-----------------------------------------------------------------------------
HOLD_MARGIN_MS == 400
HOLD_MAX_MS == 12000
HOLD_DEFAULT_MS == 9000
NotKnown == -1
holdBudgetMs(audio, since, channel) ==
    LET remaining == (IF audio = NotKnown THEN HOLD_DEFAULT_MS ELSE audio) - (IF since < 0 THEN 0 ELSE since)
        wanted == remaining + HOLD_MARGIN_MS
    IN  IF channel # "voice" \/ remaining <= 0 THEN 0
        ELSE IF wanted < HOLD_MAX_MS THEN wanted ELSE HOLD_MAX_MS

(* The hold polls, and ends at the first poll that finds the segment          *)
(* reported, or at the first past the budget. reportAt counts from the start  *)
(* of the hold.                                                             *)
HOLD_POLL_MS == 150
holdForPlayout(audio, since, channel, reportAt) ==
    LET budget == holdBudgetMs(audio, since, channel)
        polls == {n \in 1 .. (HOLD_MAX_MS \div HOLD_POLL_MS) + 1 :
                     n * HOLD_POLL_MS >= budget \/ n * HOLD_POLL_MS >= reportAt}
    IN  IF budget = 0 \/ reportAt <= 0 THEN 0
        ELSE HOLD_POLL_MS * CHOOSE n \in polls : \A m \in polls : n <= m

SILENCE_WINDOW_MS == 12000
WAIT_WINDOW_BARE_MS == 5000
WAIT_WINDOW_ERRAND_MS == 15000
NUDGE_WINDOW_MS == 15000
waitWindowMs(kind) == IF kind = "errand" THEN WAIT_WINDOW_ERRAND_MS ELSE WAIT_WINDOW_BARE_MS

-----------------------------------------------------------------------------
(* An environment gives each option a text, which may be blank, or is        *)
(* without it.                                                              *)
Absent == "absent"
Blank == ""
Given(env, option) == env[option] # Absent
NonBlank(value) == IF value = Blank THEN Absent ELSE value

LivekitOptions == {"LIVEKIT_URL", "LIVEKIT_API_KEY", "LIVEKIT_API_SECRET"}
LangfuseOptions == {"LANGFUSE_PUBLIC_KEY", "LANGFUSE_SECRET_KEY"}
appConfig(env) ==
    [livekit |-> \A o \in LivekitOptions : Given(env, o),
     sipOutboundTrunkId |-> NonBlank(env["LIVEKIT_SIP_OUTBOUND_TRUNK_ID"]),
     langfuse |-> \A o \in LangfuseOptions : Given(env, o),
     apiBearerToken |-> NonBlank(env["API_BEARER_TOKEN"]),
     rateLimitBypassToken |-> NonBlank(env["RATE_LIMIT_BYPASS_TOKEN"])]
hasMediaPlane(cfg) == cfg.livekit
canDialOut(cfg) == cfg.livekit /\ cfg.sipOutboundTrunkId # Absent

(* The model a state is decided with: the complex one where terms are         *)
(* discussed and confirmed.                                                 *)
llmModelByState(state, simple, complex) ==
    IF state \in {"DISCUSSING_PAYMENT", "CONFIRMING_OUTCOME"} THEN complex ELSE simple
==============================================================================
