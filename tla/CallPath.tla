------------------------------ MODULE CallPath ------------------------------
(***************************************************************************)
(* What a conversation promises to whoever reads its row, with no turn,     *)
(* claim, server or event in sight: a call goes from one state to the next  *)
(* along the state machine's edges, the account is unlocked once and before *)
(* it is spoken of, a promise is the amount on the table, and the call ends *)
(* once. Only words that override everything may put another outcome in     *)
(* the place of one that no turn settled. Conversation implements this.     *)
(***************************************************************************)
EXTENDS StateMachine

CONSTANTS Amounts, None

VARIABLES
    state,      \* current_state
    unlocked,   \* protected_context_unlocked
    proposal,   \* the amount read back and not yet confirmed
    outcome,    \* final_outcome
    promised    \* the amount of the promise recorded

path == <<state, unlocked, proposal, outcome, promised>>

(* Before and after the right party confirmed; a call rests in no other     *)
(* state, and the closing ones are passed through in a single commit.       *)
Unidentified == {"GREETING", "VERIFYING_IDENTITY"}

Init ==
    /\ state = "GREETING" /\ unlocked = FALSE
    /\ proposal = None /\ outcome = None /\ promised = None

-----------------------------------------------------------------------------
Verify ==
    /\ state = "GREETING" /\ outcome = None
    /\ state' = "VERIFYING_IDENTITY"
    /\ UNCHANGED <<unlocked, proposal, outcome, promised>>

Identify ==
    /\ state \in Unidentified /\ outcome = None
    /\ state' = "DISCUSSING_PAYMENT" /\ unlocked' = TRUE
    /\ UNCHANGED <<proposal, outcome, promised>>

Propose(a) ==
    /\ state = "DISCUSSING_PAYMENT" /\ outcome = None
    /\ state' = "CONFIRMING_OUTCOME" /\ proposal' = a
    /\ UNCHANGED <<unlocked, outcome, promised>>

Decline ==
    /\ state = "CONFIRMING_OUTCOME" /\ outcome = None
    /\ state' = "DISCUSSING_PAYMENT" /\ proposal' = None
    /\ UNCHANGED <<unlocked, outcome, promised>>

-----------------------------------------------------------------------------
Promise ==
    /\ state = "CONFIRMING_OUTCOME" /\ outcome = None /\ proposal # None
    /\ state' = "COMPLETED" /\ outcome' = "PROMISE_TO_PAY"
    /\ promised' = proposal /\ proposal' = None
    /\ UNCHANGED unlocked

(* A callback is agreed with the right party; somebody else is met before;  *)
(* a goodbye that settles nothing follows a read-back. Overrides, transfers *)
(* and signals end a call wherever it is.                                   *)
End(o) ==
    /\ outcome = None /\ o # "PROMISE_TO_PAY"
    /\ o = "CALLBACK_SCHEDULED" => state \in PROTECTED_CONTEXT_STATES
    /\ o = "THIRD_PARTY_CONTACT" => state \in Unidentified
    /\ o = "NO_DISPOSITION" => state = "CONFIRMING_OUTCOME"
    /\ state' = "COMPLETED" /\ outcome' = o
    /\ UNCHANGED <<unlocked, proposal, promised>>

(* A turn that was being decided when a signal ended the call: its override *)
(* replaces what the signal left, and nothing replaces that.                *)
Unsettled == {"NO_ANSWER", "VOICEMAIL_LEFT", "FAILED"}
Overriding == {"OPT_OUT", "WRONG_NUMBER", "DISPUTED", "ESCALATED"}

Amend(o) ==
    /\ outcome \in Unsettled /\ o \in Overriding
    /\ outcome' = o
    /\ UNCHANGED <<state, unlocked, proposal, promised>>

Next ==
    \/ Verify \/ Identify \/ Decline \/ Promise
    \/ \E a \in Amounts : Propose(a)
    \/ \E o \in Outcomes : End(o) \/ Amend(o)

Spec == Init /\ [][Next]_path
=============================================================================
