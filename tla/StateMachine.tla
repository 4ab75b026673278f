---------------------------- MODULE StateMachine ----------------------------
(***************************************************************************)
(* The collections state machine and the tool eligibility matrix: the pure  *)
(* tables of packages/domain/src/stateMachine.ts and tools.ts, and the two  *)
(* deciders whose suggestions they judge.                                   *)
(***************************************************************************)

States == {"GREETING", "VERIFYING_IDENTITY", "DISCUSSING_PAYMENT", "CONFIRMING_OUTCOME",
           "VOICEMAIL", "THIRD_PARTY_OR_WRONG_PARTY", "WARM_TRANSFER_PENDING", "OPT_OUT",
           "WRONG_NUMBER", "ESCALATED", "ENDING", "COMPLETED"}

Outcomes == {"PROMISE_TO_PAY", "CALLBACK_SCHEDULED", "OPT_OUT", "WRONG_NUMBER",
             "THIRD_PARTY_CONTACT", "DISPUTED", "ESCALATED", "NO_DISPOSITION",
             "NO_ANSWER", "VOICEMAIL_LEFT", "FAILED"}

TOOL_NAMES == {"lookup_contact_profile", "get_account_context", "confirm_right_party",
               "propose_promise_to_pay", "record_promise_to_pay", "schedule_callback",
               "record_opt_out", "record_wrong_party_contact"}

(* The edges a decider may suggest. *)
ADJACENCY(from) ==
    CASE from = "GREETING"           -> {"VOICEMAIL", "VERIFYING_IDENTITY"}
      [] from = "VERIFYING_IDENTITY" -> {"THIRD_PARTY_OR_WRONG_PARTY", "DISCUSSING_PAYMENT"}
      [] from = "DISCUSSING_PAYMENT" -> {"CONFIRMING_OUTCOME", "WARM_TRANSFER_PENDING",
                                         "WRONG_NUMBER", "OPT_OUT"}
      [] from = "CONFIRMING_OUTCOME" -> {"ENDING", "DISCUSSING_PAYMENT"}
      [] from = "ENDING"             -> {"COMPLETED"}
      [] from = "COMPLETED"          -> {}
      [] OTHER                       -> {"ENDING"}

OVERRIDE_TARGETS == {"OPT_OUT", "WRONG_NUMBER", "ESCALATED"}
FORCED_TARGETS == {"ENDING", "VOICEMAIL"}

(* The only states in which protected account data may be spoken. *)
PROTECTED_CONTEXT_STATES == {"DISCUSSING_PAYMENT", "CONFIRMING_OUTCOME"}

isTerminal(s) == s = "COMPLETED"

(* transition, overrideTransition and forcedTransition answer Left or      *)
(* Right; each predicate holds where the answer is Right.                  *)
TransitionAllowed(from, to) ==
    to = from \/ (~isTerminal(from) /\ to \in ADJACENCY(from))
OverrideAllowed(from, to) == ~isTerminal(from) /\ to \in OVERRIDE_TARGETS
ForcedAllowed(from, to) == ~isTerminal(from) /\ to \in FORCED_TARGETS

(* The trigger stamped on a move a decider asked for. *)
triggerFor(from, to) ==
    CASE from = "VERIFYING_IDENTITY" /\ to = "DISCUSSING_PAYMENT" -> "RIGHT_PARTY_CONFIRMED"
      [] from = "DISCUSSING_PAYMENT" /\ to = "CONFIRMING_OUTCOME" -> "PROPOSAL"
      [] from = "CONFIRMING_OUTCOME" /\ to = "DISCUSSING_PAYMENT" -> "USER_DECLINED"
      [] OTHER                                                    -> "LLM_INTENT"

TOOL_STATE_MATRIX(tool) ==
    CASE tool \in {"lookup_contact_profile", "confirm_right_party"} ->
             {"GREETING", "VERIFYING_IDENTITY"}
      [] tool \in {"get_account_context", "schedule_callback"} ->
             {"DISCUSSING_PAYMENT", "CONFIRMING_OUTCOME"}
      [] tool = "propose_promise_to_pay" -> {"DISCUSSING_PAYMENT"}
      [] tool = "record_promise_to_pay" -> {"CONFIRMING_OUTCOME"}
      [] tool = "record_opt_out" -> {"OPT_OUT"}
      [] tool = "record_wrong_party_contact" ->
             {"GREETING", "VERIFYING_IDENTITY", "THIRD_PARTY_OR_WRONG_PARTY", "WRONG_NUMBER"}

ToolAllowedAnywhere(tool, s) == tool \in TOOL_NAMES /\ s \in States   \* mutant: no matrix
toolAllowed(tool, s) == s \in TOOL_STATE_MATRIX(tool)

-----------------------------------------------------------------------------
(* What the end of a call means to its workflow: its status, and whether   *)
(* the call is tried again.                                                *)
workflowStatusFor(o) ==
    IF o \in {"CALLBACK_SCHEDULED", "NO_ANSWER", "VOICEMAIL_LEFT", "THIRD_PARTY_CONTACT", "FAILED"}
    THEN "RUNNING" ELSE "COMPLETED"

Redialled == {"NO_ANSWER", "THIRD_PARTY_CONTACT", "FAILED"}

-----------------------------------------------------------------------------
(* What the two deciders can answer when asked in state s: a tool to call, *)
(* or a next state to move to (s itself means stay). The scripted decider  *)
(* keeps to its table; the model may name any tool in any state, and its   *)
(* three pseudo tools are honoured in any state too.                       *)
Deciders == {"scripted", "openai"}

CanCall(decider, s, tool) ==
    IF decider = "openai"
    THEN tool \in TOOL_NAMES
    ELSE tool \in CASE s \in {"GREETING", "VERIFYING_IDENTITY"} ->
                           {"confirm_right_party", "record_wrong_party_contact"}
                    [] s = "DISCUSSING_PAYMENT" -> {"schedule_callback", "propose_promise_to_pay"}
                    [] s = "CONFIRMING_OUTCOME" -> {"schedule_callback", "record_promise_to_pay"}
                    [] OTHER -> {}

CanSuggest(decider, s, next) ==
    IF decider = "openai"
    THEN next \in {s, "ENDING", "WARM_TRANSFER_PENDING", "DISCUSSING_PAYMENT"}
    ELSE next \in CASE s \in {"GREETING", "VERIFYING_IDENTITY"} -> {"VERIFYING_IDENTITY"}
                    [] s = "DISCUSSING_PAYMENT" -> {"DISCUSSING_PAYMENT"}
                    [] s = "CONFIRMING_OUTCOME" -> {"CONFIRMING_OUTCOME", "DISCUSSING_PAYMENT"}
                    [] OTHER -> {"ENDING"}
=============================================================================
