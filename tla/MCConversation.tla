---------------------------- MODULE MCConversation ----------------------------
(***************************************************************************)
(* Small instances of Conversation for TLC.                                *)
(***************************************************************************)
EXTENDS Conversation, TLC

(* A dialled call served by the model, one served by the scripted decider,  *)
(* a browser call and the console's simulated call.                        *)
SipModel      == [channel |-> "voice", origin |-> "sip", decider |-> "openai"]
SipScripted   == [channel |-> "voice", origin |-> "sip", decider |-> "scripted"]
BrowserModel  == [channel |-> "voice", origin |-> "browser", decider |-> "openai"]
Simulated     == [channel |-> "simulated", origin |-> "simulated", decider |-> "scripted"]

AllCalls == {SipModel, SipScripted, BrowserModel, Simulated}
VoiceAndSimulated == {SipModel, Simulated}
OnlySip == {SipModel}
OnlySimulated == {Simulated}

(* Turn ids and amounts are interchangeable; so are server lifetimes.      *)
Symmetry == Permutations(Turns) \cup Permutations(Procs) \cup Permutations(Amounts)
===============================================================================
