----------------------------- MODULE MCVoiceCall -----------------------------
(* One call, small enough to be explored whole.  An interruptible line that    *)
(* belongs to a turn is also what the fallback after an error is.              *)
EXTENDS VoiceCall
MCAnswers  == {<<"turn_end">>, <<"hang_up">>, <<"firm", "turn_end">>, <<"refused">>,
               <<"firm", "hang_up">>, <<"error">>}
AllAnswers == MCAnswers \cup {<<"soft", "turn_end">>}
=============================================================================
