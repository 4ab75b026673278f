----------------------------- MODULE Utterances -----------------------------
(***************************************************************************)
(* What a borrower's words are taken for before any decider is asked: an    *)
(* override (overrides.ts), a request to wait (holdRequest.ts), a listening *)
(* noise (backchannel.ts). A text is a sequence of lower-case words and     *)
(* marks of punctuation; a contraction is one word.                         *)
(***************************************************************************)
EXTENDS Integers, FiniteSets, Sequences, SequencesExt

Marks == {",", ".", "?", "!", "$"}
Words(text) == SelectSeq(text, LAMBDA w : w \notin Marks)

(* Each contraction, without its apostrophe, split at it, and expanded.     *)
Contractions ==
    LET C(word, bare, split, expanded) ==
            [word |-> word, bare |-> bare, split |-> split, expanded |-> expanded]
    IN  {C("can't", "cant", <<"can", "t">>, <<"cannot">>),
         C("won't", "wont", <<"won", "t">>, <<"will", "not">>),
         C("don't", "dont", <<"don", "t">>, <<"do", "not">>),
         C("doesn't", "doesnt", <<"doesn", "t">>, <<"does", "not">>),
         C("didn't", "didnt", <<"didn", "t">>, <<"did", "not">>),
         C("isn't", "isnt", <<"isn", "t">>, <<"is", "not">>),
         C("wasn't", "wasnt", <<"wasn", "t">>, <<"was", "not">>),
         C("haven't", "havent", <<"haven", "t">>, <<"have", "not">>),
         C("aren't", "arent", <<"aren", "t">>, <<"are", "not">>),
         C("weren't", "werent", <<"weren", "t">>, <<"were", "not">>),
         C("hasn't", "hasnt", <<"hasn", "t">>, <<"has", "not">>),
         C("couldn't", "couldnt", <<"couldn", "t">>, <<"could", "not">>),
         C("wouldn't", "wouldnt", <<"wouldn", "t">>, <<"would", "not">>),
         C("shouldn't", "shouldnt", <<"shouldn", "t">>, <<"should", "not">>),
         C("ain't", "aint", <<"ain", "t">>, <<"is", "not">>),
         C("i'm", "im", <<"i", "m">>, <<"i", "am">>),
         C("i've", "ive", <<"i", "ve">>, <<"i", "have">>),
         C("you've", "youve", <<"you", "ve">>, <<"you", "have">>),
         C("that's", "thats", <<"that", "s">>, <<"that", "is">>),
         C("it's", "its", <<"it", "s">>, <<"it", "is">>),
         C("he's", "hes", <<"he", "s">>, <<"he", "is">>),
         C("she's", "shes", <<"she", "s">>, <<"she", "is">>),
         C("there's", "theres", <<"there", "s">>, <<"there", "is">>),
         C("who's", "whos", <<"who", "s">>, <<"who", "is">>)}

Expanded(word) ==
    IF \E c \in Contractions : word \in {c.word, c.bare}
    THEN (CHOOSE c \in Contractions : word \in {c.word, c.bare}).expanded ELSE <<word>>
Split(word) ==
    IF \E c \in Contractions : c.word = word
    THEN (CHOOSE c \in Contractions : c.word = word).split ELSE <<word>>
Unquoted(word) ==
    IF \E c \in Contractions : c.word = word
    THEN (CHOOSE c \in Contractions : c.word = word).bare ELSE word

Each(Op(_), words) == FlattenSeq([i \in DOMAIN words |-> Op(words[i])])
HasAt(text, phrase, i) == SubSeq(text, i, i + Len(phrase) - 1) = phrase
Occurs(phrase, text) == \E i \in 1 .. Len(text) - Len(phrase) + 1 : HasAt(text, phrase, i)
StartsWith(text, phrase) == Len(phrase) <= Len(text) /\ HasAt(text, phrase, 1)

-----------------------------------------------------------------------------
(* Overrides. "can not" is one word before the other contractions expand.   *)
normalizeUtterance(text) ==
    FoldLeft(LAMBDA out, w : IF w = "not" /\ out # <<>> /\ Last(out) = "can"
                             THEN Append(Front(out), "cannot") ELSE Append(out, w),
             <<>>, Each(Expanded, Words(text)))

OPT_OUT_PHRASES ==
    {<<"stop", "calling">>, <<"stop", "contacting">>, <<"do", "not", "call">>,
     <<"do", "not", "contact">>, <<"never", "call">>, <<"quit", "calling">>,
     <<"no", "more", "calls">>, <<"remove", "my", "number">>, <<"remove", "me", "from">>,
     <<"take", "me", "off">>, <<"cease", "contact">>, <<"cease", "and", "desist">>,
     <<"leave", "me", "alone">>, <<"unsubscribe">>, <<"opt", "out">>, <<"harassment">>,
     <<"harassing", "me">>}
        \cup {<<"stop", doing>> : doing \in {"calling", "phoning", "texting", "contacting", "bothering"}}
        \cup {<<call, "me">> \o again : call \in {"call", "calling"},
                                         again \in {<<"again">>, <<"anymore">>, <<"any", "more">>}}

DISPUTE_PHRASES ==
    {<<"dispute">>, <<"not", "my", "debt">>, <<"not", "my", "loan">>, <<"not", "my", "account">>,
     <<"do", "not", "owe">>, <<"did", "not", "owe">>, <<"never", "owed">>, <<"owe", "nothing">>,
     <<"owe", "you", "nothing">>, <<"prove", "i", "owe">>, <<"prove", "that", "i", "owe">>,
     <<"prove", "it">>, <<"already", "paid">>, <<"paid", "this", "off">>, <<"paid", "in", "full">>,
     <<"paid", "it", "off">>, <<"my", "lawyer">>, <<"my", "attorney">>,
     <<"talk", "to", "my", "lawyer">>, <<"identity", "theft">>, <<"fraud">>,
     <<"validate", "the", "debt">>, <<"verify", "the", "debt">>, <<"in", "writing">>}

HARDSHIP_PHRASES ==
    {<<"lost", "my", "job">>, <<"laid", "off">>, <<"unemployed">>, <<"out", "of", "work">>,
     <<"cannot", "afford">>, <<"no", "money">>, <<"no", "income">>, <<"cannot", "pay", "anything">>,
     <<"bankruptcy">>, <<"bankrupt">>, <<"chapter", "7">>, <<"chapter", "13">>, <<"hospital">>,
     <<"medical">>, <<"surgery">>, <<"disability">>, <<"disabled">>, <<"passed", "away">>,
     <<"died">>, <<"deceased">>, <<"funeral">>, <<"eviction">>, <<"evicted">>, <<"homeless">>,
     <<"hardship">>, <<"struggling">>, <<"kill", "myself">>, <<"end", "my", "life">>,
     <<"hurt", "myself">>, <<"suicide">>, <<"suicidal">>}

WRONG_NUMBER_PHRASES ==
    {<<"wrong", "number">>, <<"wrong", "person">>, <<"wrong", "guy">>, <<"wrong", "girl">>,
     <<"no", "one", "by", "that", "name">>, <<"nobody", "by", "that", "name">>,
     <<"no", "one", "here", "by", "that">>, <<"nobody", "here", "by", "that">>,
     <<"never", "heard", "of">>, <<"you", "have", "the", "wrong">>, <<"you", "got", "the", "wrong">>,
     <<"got", "the", "wrong">>, <<"this", "is", "not", "his", "number">>,
     <<"this", "is", "not", "her", "number">>, <<"this", "is", "not", "their", "number">>,
     <<"not", "his", "number">>, <<"not", "her", "number">>, <<"new", "number">>,
     <<"this", "number", "belongs", "to">>, <<"does", "not", "live", "here">>, <<"moved", "out">>,
     <<"moved", "away">>, <<"no", "longer", "at", "this", "number">>, <<"not", "at", "this", "number">>}

nameRules(name) ==
    {<<"i", "am", "not", name>>, <<"this", "is", "not", name>>, <<"not", name>>,
     <<name, "does", "not", "live", "here">>, <<name, "moved">>, <<"no", name, "here">>,
     <<"there", "is", "no", name>>}

OVERRIDE_PRECEDENCE == <<"OPT_OUT", "DISPUTE", "HARDSHIP", "WRONG_NUMBER">>
RULES(name) == [OPT_OUT |-> OPT_OUT_PHRASES, DISPUTE |-> DISPUTE_PHRASES,
                HARDSHIP |-> HARDSHIP_PHRASES, WRONG_NUMBER |-> WRONG_NUMBER_PHRASES \cup nameRules(name)]
OverrideTarget == [OPT_OUT |-> "OPT_OUT", DISPUTE |-> "ESCALATED",
                   HARDSHIP |-> "ESCALATED", WRONG_NUMBER |-> "WRONG_NUMBER"]

matchOverride(text, name) ==
    LET said == normalizeUtterance(text)
        fired == SelectSeq(OVERRIDE_PRECEDENCE, LAMBDA r : \E p \in RULES(name)[r] : Occurs(p, said))
    IN  IF fired = <<>> THEN "none" ELSE fired[1]

-----------------------------------------------------------------------------
(* Requests to wait.                                                       *)
HOLD_PHRASES ==
    {<<"hold", "on">>, <<"hold", "up">>, <<"one", "second">>, <<"one", "sec">>, <<"a", "second">>,
     <<"a", "sec">>, <<"hang", "on">>, <<"let", "me", "check">>, <<"let", "me", "look">>,
     <<"let", "me", "get">>, <<"let", "me", "go", "get">>, <<"let", "me", "grab">>,
     <<"let", "me", "find">>, <<"give", "me", "a", "minute">>, <<"give", "me", "a", "moment">>,
     <<"give", "me", "a", "second">>, <<"just", "a", "minute">>, <<"just", "a", "moment">>,
     <<"just", "a", "second">>, <<"wait">>, <<"bear", "with", "me">>}

FILLER ==
    {"a", "an", "the", "my", "me", "i", "just", "please", "ok", "okay", "um", "uh", "er", "well",
     "so", "actually", "oh", "hmm", "right", "and", "second", "seconds", "sec", "moment", "minute",
     "minutes", "bit", "one", "two", "here", "there", "card", "wallet", "purse", "phone", "glasses",
     "pen", "paper", "calendar", "it", "them", "that", "for", "to", "go", "get", "grab", "find",
     "check", "look", "on", "up", "let"}

ERRAND == {"go", "get", "grab", "find", "check", "look", "card", "wallet", "purse", "phone",
           "glasses", "pen", "paper", "calendar", "minute", "minutes"}

(* The leading filler is skipped until a phrase begins, letter by letter: a  *)
(* longer word that begins with the phrase's last one stops it too.         *)
Lengthens(word) ==
    {word} \cup CASE word = "sec" -> {"second", "seconds"} [] word = "second" -> {"seconds"}
                  [] word = "minute" -> {"minutes"} [] word = "on" -> {"one"} [] OTHER -> {}
BeginsLike(words, phrase) ==
    /\ Len(phrase) <= Len(words)
    /\ SubSeq(words, 1, Len(phrase) - 1) = Front(phrase)
    /\ words[Len(phrase)] \in Lengthens(Last(phrase))

From(words, i) == SubSeq(words, i, Len(words))
AfterFiller(words) ==
    LET stops(i) == i > Len(words) \/ words[i] \notin FILLER
                    \/ \E p \in HOLD_PHRASES : BeginsLike(From(words, i), p)
    IN  From(words, CHOOSE i \in 1 .. Len(words) + 1 : stops(i) /\ \A j \in 1 .. i - 1 : ~stops(j))

(* Nothing but filler may follow the phrase.                               *)
holdRequest(text) ==
    LET rest == AfterFiller(Each(Split, Words(text)))
    IN  IF \E p \in HOLD_PHRASES : StartsWith(rest, p) /\ ToSet(From(rest, Len(p) + 1)) \subseteq FILLER
        THEN IF ToSet(rest) \cap ERRAND # {} THEN "errand" ELSE "bare"
        ELSE "none"

-----------------------------------------------------------------------------
(* Listening noises.                                                       *)
TOKENS == {"yeah", "yea", "yep", "yup", "okay", "ok", "k", "right", "mmhm", "mhm", "mhmm", "mmhmm",
           "mhmmm", "uhhmm", "mm", "mmm", "hm", "hmm", "uhhuh", "uhuh", "aha", "ah", "oh", "sure",
           "gotcha", "got", "it", "i", "see", "alright", "true"}
MAX_WORDS == 3

backchannel(text) ==
    LET words == [i \in DOMAIN Words(text) |-> Unquoted(Words(text)[i])]
    IN  Len(words) \in 1 .. MAX_WORDS /\ ToSet(words) \subseteq TOKENS

(* Whether the agent's paused speech goes on. The seam is the SDK's timer.   *)
shouldResume(text, seam, paused) ==
    CASE ~seam              -> "no-seam"
      [] ~paused            -> "not-paused"
      [] ~backchannel(text) -> "not-a-backchannel"
      [] OTHER              -> "resumed"
==============================================================================
