------------------------- MODULE ConversationProofs -------------------------
(***************************************************************************)
(* What holds of Conversation for any set of turns, server processes,      *)
(* amounts and kinds of call, with or without overlapping processes and    *)
(* crashes.  All of it follows from one inductive invariant, Inv; what needs *)
(* processes that do not overlap from a second one, TurnInv, on top of it.  *)
(***************************************************************************)
EXTENDS Conversation, TLAPS

-----------------------------------------------------------------------------
(* The record operators.                                                   *)

(* Releasing a claim changes no other column (repos/conversation.ts).       *)
LEMMA ReleaseFacts ==
    ASSUME NEW rw \in Rows, NEW t
    PROVE  /\ releaseTurn(rw, t) \in Rows
           /\ releaseTurn(rw, t).state = rw.state
           /\ releaseTurn(rw, t).outcome = rw.outcome
           /\ releaseTurn(rw, t).unlocked = rw.unlocked
           /\ releaseTurn(rw, t).proposal = rw.proposal
           /\ releaseTurn(rw, t).readBackTurn = rw.readBackTurn
           /\ releaseTurn(rw, t).noInput = rw.noInput
           /\ releaseTurn(rw, t).active = IF rw.active = t THEN None ELSE rw.active
BY DEF releaseTurn, Rows

(* finalize closes the row: COMPLETED with the outcome it was given.        *)
LEMMA FinalRowFacts ==
    ASSUME NEW rw \in Rows, NEW o \in Outcomes
    PROVE  /\ FinalRow(rw, o) \in Rows
           /\ FinalRow(rw, o).state = "COMPLETED"
           /\ FinalRow(rw, o).outcome = o
           /\ FinalRow(rw, o).active = rw.active
           /\ FinalRow(rw, o).unlocked = rw.unlocked
           /\ FinalRow(rw, o).proposal = rw.proposal
           /\ FinalRow(rw, o).readBackTurn = rw.readBackTurn
           /\ FinalRow(rw, o).noInput = rw.noInput
BY DEF FinalRow, Rows, States

(* finalize appends the closing path: the replayed state is COMPLETED from  *)
(* wherever the call was, and nothing else of the replay moves.             *)
LEMMA FinalLedgerFacts ==
    ASSUME NEW lg \in Ledgers, NEW current, NEW o \in Outcomes,
           current = lg.state
    PROVE  /\ FinalLedger(lg, current, o) \in Ledgers
           /\ FinalLedger(lg, current, o).state = "COMPLETED"
           /\ FinalLedger(lg, current, o).outcome = o
           /\ FinalLedger(lg, current, o).unlocked = lg.unlocked
           /\ FinalLedger(lg, current, o).noInput = lg.noInput
           /\ FinalLedger(lg, current, o).proposal = lg.proposal
BY DEF FinalLedger, CallEnded, closingPath, Moved, Ledgers, States

(* finalize settles the attempt, the workflow and the post-call jobs from   *)
(* the outcome alone, and may add one retry.                                *)
LEMMA FinalBooksFacts ==
    ASSUME NEW books \in Books, NEW o \in Outcomes
    PROVE  /\ FinalBooks(books, o) \in Books
           /\ FinalBooks(books, o).attempt = attemptStatusFor(o)
           /\ FinalBooks(books, o).workflow = workflowStatusFor(o)
           /\ FinalBooks(books, o).jobs = TRUE
           /\ FinalBooks(books, o).optedOut = books.optedOut
           /\ FinalBooks(books, o).validNumber = books.validNumber
           /\ FinalBooks(books, o).promised = books.promised
           /\ o \notin {"NO_ANSWER", "THIRD_PARTY_CONTACT", "FAILED"}
                  => FinalBooks(books, o).pending = books.pending
BY DEF FinalBooks, Books, attemptStatusFor, workflowStatusFor, Redialled

-----------------------------------------------------------------------------
(* The steps that many actions share.                                      *)
RunRows == [Runs -> [pc : Steps, seen : States]]

(* Moving one run along changes what no decider was asked.                  *)
LEMMA GotoFacts ==
    ASSUME NEW t \in Turns, NEW p \in Procs, NEW step \in Steps, run \in RunRows, Goto(t, p, step)
    PROVE  /\ run' \in RunRows
           /\ \A r \in Runs : run'[r].seen = run[r].seen
BY DEF Goto, RunRows, Runs

(* finishTurn writes one row of conversation_turns.                         *)
LEMMA FinishTurnFacts ==
    ASSUME NEW tbl \in [Turns -> TurnRows], NEW t \in Turns,
           NEW status \in {"RUNNING", "DONE", "SUPERSEDED"},
           NEW disp \in {"none", "wait", "respond"}
    PROVE  finishTurn(tbl, t, status, disp) \in [Turns -> TurnRows]
BY DEF finishTurn, TurnRows

(* A step that leaves the conversation, its ledger, the books and the       *)
(* questions put to the deciders alone keeps the invariant.                 *)
LEMMA QuietKeeps ==
    ASSUME Inv, TypeOK',
           UNCHANGED <<call, row, ledger, speech, crm>>,
           \A r \in Runs : run'[r].seen = run[r].seen
    PROVE  Inv'
<1>1. /\ call' = call /\ row' = row /\ ledger' = ledger /\ crm' = crm
      /\ readBack' = readBack /\ lastRead' = lastRead
  BY DEF speech
<1>2. RowMatchesLedger' /\ ProtectedStatesUnlocked' /\ RestsOpenOrEnded' /\ BooksMatchOutcome'
  BY <1>1 DEF Inv, RowMatchesLedger, ProtectedStatesUnlocked, RestsOpenOrEnded, BooksMatchOutcome
<1>3. StrikesLeft' /\ OnlyScriptedVerifies' /\ UnlockedForGood' /\ SettledReleased'
      /\ ReadBackIsLast' /\ NothingPendingYet'
  BY <1>1 DEF Inv, StrikesLeft, OnlyScriptedVerifies, UnlockedForGood, SettledReleased,
              ReadBackIsLast, NothingPendingYet
<1>4. AskedWhileOpen'
  BY <1>1 DEF Inv, AskedWhileOpen
<1>. QED
  BY <1>2, <1>3, <1>4 DEF Inv

(* Giving a claim back, too.                                               *)
LEMMA ReleaseKeeps ==
    ASSUME Inv, TypeOK', NEW t \in Turns,
           row' = releaseTurn(row, t),
           UNCHANGED <<call, ledger, speech, crm>>,
           \A r \in Runs : run'[r].seen = run[r].seen
    PROVE  Inv'
<1>1. /\ call' = call /\ ledger' = ledger /\ crm' = crm
      /\ readBack' = readBack /\ lastRead' = lastRead
  BY DEF speech
<1>2. /\ row'.state = row.state /\ row'.outcome = row.outcome /\ row'.unlocked = row.unlocked
      /\ row'.proposal = row.proposal /\ row'.readBackTurn = row.readBackTurn
      /\ row'.noInput = row.noInput /\ row'.active \in {row.active, None}
  BY ReleaseFacts DEF Inv, TypeOK
<1>3. RowMatchesLedger' /\ ProtectedStatesUnlocked' /\ RestsOpenOrEnded'
  BY <1>1, <1>2 DEF Inv, RowMatchesLedger, ProtectedStatesUnlocked, RestsOpenOrEnded
<1>4. BooksMatchOutcome' /\ NothingPendingYet'
  BY <1>1, <1>2 DEF Inv, BooksMatchOutcome, NothingPendingYet
<1>5. StrikesLeft' /\ OnlyScriptedVerifies' /\ UnlockedForGood' /\ SettledReleased' /\ ReadBackIsLast'
  BY <1>1, <1>2 DEF Inv, StrikesLeft, OnlyScriptedVerifies, UnlockedForGood, SettledReleased,
                    ReadBackIsLast
<1>6. AskedWhileOpen'
  BY <1>1, <1>2 DEF Inv, AskedWhileOpen
<1>. QED
  BY <1>3, <1>4, <1>5, <1>6 DEF Inv

(* T2's commit keeps every type, whatever row and ledger it writes.         *)
LEMMA CommitTypes ==
    ASSUME TypeOK, NEW t \in Turns, NEW p \in Procs, NEW rw \in Rows, NEW lg \in Ledgers,
           NEW read \in Amounts \cup {None}, Commit(t, p, rw, lg, read), crm' \in Books
    PROVE  /\ TypeOK'
           /\ \A r \in Runs : run'[r].seen = run[r].seen
<1>1. row' \in Rows /\ ledger' \in Ledgers
  BY ReleaseFacts DEF Commit
<1>2. turn' \in [Turns -> TurnRows]
  BY FinishTurnFacts DEF Commit, TypeOK
<1>3. run' \in RunRows /\ \A r \in Runs : run'[r].seen = run[r].seen
  BY GotoFacts DEF Commit, TypeOK, RunRows, Steps
<1>4. /\ replies' \in [Turns -> Nat]
      /\ readBack' \in [Turns -> Amounts \cup {None}]
      /\ lastRead' \in Turns \cup {None}
  BY DEF Commit, TypeOK
<1>5. UNCHANGED <<call, order, lines, superseded, playout, proc>>
  BY DEF Commit, history
<1>. QED
  BY <1>1, <1>2, <1>3, <1>4, <1>5 DEF TypeOK, RunRows

(* A reply that does not end the call keeps the invariant, if it wrote the  *)
(* same thing to the row and to the ledger, left the call in an open state  *)
(* it may be in, and any proposal it leaves behind was just read back.      *)
LEMMA ReplyKeeps ==
    ASSUME Inv, NEW t \in Turns, NEW p \in Procs, Owner(t, p),
           NEW rw \in Rows, NEW lg \in Ledgers, NEW read \in Amounts \cup {None},
           Commit(t, p, rw, lg, read), crm' = crm,
           rw.outcome = row.outcome, rw.active = row.active, rw.noInput = row.noInput,
           lg.state = rw.state, lg.unlocked = rw.unlocked, lg.outcome = rw.outcome,
           lg.noInput = rw.noInput, lg.proposal = rw.proposal,
           rw.state \in OpenStates \cup {"COMPLETED"},
           rw.state = "COMPLETED" <=> rw.outcome # None,
           rw.state \in PROTECTED_CONTEXT_STATES => rw.unlocked,
           rw.unlocked => rw.state \notin {"GREETING", "VERIFYING_IDENTITY"},
           row.unlocked => rw.unlocked,
           call.decider = "openai" => rw.state # "VERIFYING_IDENTITY",
           rw.proposal # None /\ read # None => rw.readBackTurn = t /\ rw.proposal = read,
           rw.proposal # None /\ read = None
               => rw.proposal = row.proposal /\ rw.readBackTurn = row.readBackTurn
    PROVE  Inv'
<1>1. TypeOK' /\ \A r \in Runs : run'[r].seen = run[r].seen
  BY CommitTypes DEF Inv, TypeOK
<1>2. /\ row'.state = rw.state /\ row'.outcome = rw.outcome /\ row'.unlocked = rw.unlocked
      /\ row'.proposal = rw.proposal /\ row'.readBackTurn = rw.readBackTurn
      /\ row'.noInput = rw.noInput /\ row'.active = None
  BY ReleaseFacts DEF Commit, Owner
<1>3. call' = call /\ ledger' = lg
  BY DEF Commit
<1>4. RowMatchesLedger' /\ ProtectedStatesUnlocked' /\ RestsOpenOrEnded'
  BY <1>2, <1>3 DEF RowMatchesLedger, ProtectedStatesUnlocked, RestsOpenOrEnded
<1>5. BooksMatchOutcome' /\ NothingPendingYet'
  BY <1>2 DEF Inv, BooksMatchOutcome, NothingPendingYet
<1>6. StrikesLeft' /\ OnlyScriptedVerifies' /\ UnlockedForGood' /\ SettledReleased'
  BY <1>2, <1>3 DEF Inv, StrikesLeft, OnlyScriptedVerifies, UnlockedForGood, SettledReleased
<1>7. AskedWhileOpen'
  BY <1>1, <1>2, <1>3 DEF Inv, AskedWhileOpen
<1>8. ReadBackIsLast'
  <2>1. CASE read = None
    <3>1. readBack' = readBack /\ lastRead' = lastRead
      BY <2>1 DEF Commit, Inv, TypeOK
    <3>. QED
      BY <2>1, <3>1, <1>2 DEF Inv, ReadBackIsLast
  <2>2. CASE read # None
    <3>1. lastRead' = t /\ readBack'[t] = read
      BY <2>2 DEF Commit, Inv, TypeOK
    <3>2. t # None
      BY NoneAssumption
    <3>. QED
      BY <2>2, <3>1, <3>2, <1>2 DEF ReadBackIsLast
  <2>. QED
    BY <2>1, <2>2
<1>. QED
  BY <1>1, <1>4, <1>5, <1>6, <1>7, <1>8 DEF Inv

(* A turn that ends the call keeps the invariant, if the outcome's own      *)
(* bookkeeping was done before finalize.                                   *)
LEMMA EndCallKeeps ==
    ASSUME Inv, NEW t \in Turns, NEW p \in Procs, Owner(t, p),
           NEW rw \in Rows, NEW lg \in Ledgers, NEW books \in Books, NEW o \in SettledByTurn,
           EndCall(t, p, rw, lg, books, o),
           rw.active = row.active, rw.noInput = row.noInput, rw.unlocked = row.unlocked,
           lg.state = rw.state, lg.unlocked = rw.unlocked,
           lg.noInput = rw.noInput, lg.proposal = rw.proposal,
           rw.proposal # None => rw.proposal = row.proposal /\ rw.readBackTurn = row.readBackTurn,
           o = "OPT_OUT" => books.optedOut /\ books.pending = {},
           o = "WRONG_NUMBER"
               => ~books.validNumber /\ books.pending \cap {"CALLBACK", "RETRY_CALL"} = {},
           o = "CALLBACK_SCHEDULED" => books.pending = {"CALLBACK"}
    PROVE  Inv'
<1> DEFINE frw == FinalRow(rw, o)
           flg == FinalLedger(lg, rw.state, o)
<1>0. o \in Outcomes /\ o # None
  BY NoneAssumption DEF SettledByTurn, Outcomes
<1>1. /\ frw \in Rows
      /\ frw.state = "COMPLETED" /\ frw.outcome = o /\ frw.active = rw.active
      /\ frw.unlocked = rw.unlocked /\ frw.proposal = rw.proposal
      /\ frw.readBackTurn = rw.readBackTurn /\ frw.noInput = rw.noInput
  BY <1>0, FinalRowFacts
<1>2. /\ flg \in Ledgers
      /\ flg.state = "COMPLETED" /\ flg.outcome = o /\ flg.unlocked = lg.unlocked
      /\ flg.noInput = lg.noInput /\ flg.proposal = lg.proposal
  BY <1>0, FinalLedgerFacts
<1>3. /\ crm' = FinalBooks(books, o) /\ crm' \in Books
      /\ crm'.attempt = attemptStatusFor(o) /\ crm'.workflow = workflowStatusFor(o)
      /\ crm'.jobs = TRUE /\ crm'.optedOut = books.optedOut /\ crm'.validNumber = books.validNumber
      /\ o # "THIRD_PARTY_CONTACT" => crm'.pending = books.pending
  BY <1>0, FinalBooksFacts DEF EndCall, SettledByTurn
<1>. Commit(t, p, frw, flg, None)
  BY DEF EndCall
<1>. HIDE DEF frw, flg
<1>4. TypeOK' /\ \A r \in Runs : run'[r].seen = run[r].seen
  BY <1>1, <1>2, <1>3, CommitTypes DEF Inv
<1>5. /\ row'.state = "COMPLETED" /\ row'.outcome = o /\ row'.unlocked = row.unlocked
      /\ row'.proposal = rw.proposal /\ row'.readBackTurn = rw.readBackTurn
      /\ row'.noInput = row.noInput /\ row'.active = None
  BY <1>1, ReleaseFacts DEF Commit, Owner
<1>6. call' = call /\ ledger' = flg /\ readBack' = readBack /\ lastRead' = lastRead
  BY DEF Commit, Inv, TypeOK
<1>7. RowMatchesLedger' /\ ProtectedStatesUnlocked' /\ RestsOpenOrEnded'
  BY <1>0, <1>1, <1>2, <1>5, <1>6
     DEF RowMatchesLedger, ProtectedStatesUnlocked, RestsOpenOrEnded, PROTECTED_CONTEXT_STATES
<1>8. BooksMatchOutcome' /\ NothingPendingYet'
  BY <1>0, <1>3, <1>5 DEF BooksMatchOutcome, NothingPendingYet
<1>9. StrikesLeft' /\ OnlyScriptedVerifies' /\ UnlockedForGood' /\ SettledReleased'
  BY <1>0, <1>5 DEF StrikesLeft, OnlyScriptedVerifies, UnlockedForGood, SettledReleased
<1>10. AskedWhileOpen'
  BY <1>4, <1>5, <1>6 DEF Inv, AskedWhileOpen
<1>11. ReadBackIsLast'
  BY <1>5, <1>6 DEF Inv, ReadBackIsLast
<1>. QED
  BY <1>4, <1>7, <1>8, <1>9, <1>10, <1>11 DEF Inv

(* A signal that ends an open call keeps the invariant: only NO_ANSWER,     *)
(* VOICEMAIL_LEFT and FAILED are decided by a signal.                       *)
LEMMA SignalEndsKeeps ==
    ASSUME Inv, CallOpen, NEW rw \in Rows, NEW lg \in Ledgers,
           NEW o \in {"NO_ANSWER", "VOICEMAIL_LEFT", "FAILED"}, SignalEnds(rw, lg, o),
           rw.unlocked = row.unlocked, rw.proposal = row.proposal,
           rw.readBackTurn = row.readBackTurn,
           lg.state = rw.state, lg.unlocked = rw.unlocked,
           lg.noInput = rw.noInput, lg.proposal = rw.proposal
    PROVE  Inv'
<1>0. o \in Outcomes /\ o # None /\ o \notin SettledByTurn
  BY NoneAssumption DEF SettledByTurn, Outcomes
<1>1. /\ row' \in Rows
      /\ row'.state = "COMPLETED" /\ row'.outcome = o
      /\ row'.unlocked = row.unlocked /\ row'.proposal = row.proposal
      /\ row'.readBackTurn = row.readBackTurn /\ row'.noInput = rw.noInput
  BY <1>0, FinalRowFacts DEF SignalEnds
<1>2. /\ ledger' \in Ledgers
      /\ ledger'.state = "COMPLETED" /\ ledger'.outcome = o /\ ledger'.unlocked = lg.unlocked
      /\ ledger'.noInput = lg.noInput /\ ledger'.proposal = lg.proposal
  BY <1>0, FinalLedgerFacts DEF SignalEnds
<1>3. /\ crm' \in Books
      /\ crm'.attempt = attemptStatusFor(o) /\ crm'.workflow = workflowStatusFor(o)
      /\ crm'.jobs = TRUE
  BY <1>0, FinalBooksFacts DEF SignalEnds, Inv, TypeOK
<1>4. UNCHANGED <<call, turn, order, lines, superseded, replies, readBack, lastRead,
                  playout, proc, run>>
  BY DEF SignalEnds, history, speech
<1>5. TypeOK'
  BY <1>1, <1>2, <1>3, <1>4 DEF Inv, TypeOK
<1>6. RowMatchesLedger' /\ ProtectedStatesUnlocked' /\ RestsOpenOrEnded'
  BY <1>0, <1>1, <1>2
     DEF RowMatchesLedger, ProtectedStatesUnlocked, RestsOpenOrEnded, PROTECTED_CONTEXT_STATES
<1>7. BooksMatchOutcome' /\ NothingPendingYet'
  BY <1>0, <1>1, <1>3 DEF BooksMatchOutcome, NothingPendingYet
<1>8. StrikesLeft' /\ OnlyScriptedVerifies' /\ UnlockedForGood' /\ SettledReleased'
  BY <1>0, <1>1 DEF StrikesLeft, OnlyScriptedVerifies, UnlockedForGood, SettledReleased
<1>9. AskedWhileOpen' /\ ReadBackIsLast'
  BY <1>1, <1>4 DEF Inv, AskedWhileOpen, ReadBackIsLast
<1>. QED
  BY <1>5, <1>6, <1>7, <1>8, <1>9 DEF Inv

-----------------------------------------------------------------------------
(* The actions, one lemma for each group of handlers.                      *)

(* T1: replay or refusal, attaching, the ten-second limit, the claim.       *)
LEMMA T1Keeps ==
    ASSUME Inv, NEW t \in Turns, NEW p \in Procs,
           \/ T1Answered(t, p) \/ T1Attach(t, p) \/ AttachTimeout(t, p) \/ T1Claim(t, p)
    PROVE  Inv'
<1>1. CASE T1Answered(t, p) \/ T1Attach(t, p) \/ AttachTimeout(t, p)
  <2>1. PICK step \in Steps : Goto(t, p, step)
    BY <1>1 DEF T1Answered, T1Attach, AttachTimeout, Steps
  <2>2. run' \in RunRows /\ \A r \in Runs : run'[r].seen = run[r].seen
    BY <2>1, GotoFacts DEF Inv, TypeOK, RunRows
  <2>3. UNCHANGED <<call, row, turn, ledger, history, speech, playout, crm, proc>>
    BY <1>1 DEF T1Answered, T1Attach, AttachTimeout
  <2>4. TypeOK'
    BY <2>2, <2>3 DEF Inv, TypeOK, RunRows, history, speech
  <2>. QED
    BY <2>2, <2>3, <2>4, QuietKeeps
<1>2. CASE T1Claim(t, p)
  <2>1. PICK text \in Says :
            /\ turn' = ClaimedTable(t, text)
            /\ run' = [run EXCEPT ![<<t, p>>] =
                         [pc |-> IF text = "hold" THEN "claimed" ELSE "deciding", seen |-> row.state]]
    BY <1>2 DEF T1Claim
  <2>2. /\ row' = [row EXCEPT !.active = t, !.noInput = 0] /\ ledger' = UserSpoke(ledger)
        /\ UNCHANGED <<call, replies, readBack, lastRead, crm, proc>>
        /\ ~Over
    BY <1>2 DEF T1Claim, speech
  <2>3. /\ row' \in Rows /\ row'.state = row.state /\ row'.outcome = row.outcome
        /\ row'.unlocked = row.unlocked /\ row'.proposal = row.proposal
        /\ row'.readBackTurn = row.readBackTurn /\ row'.noInput = 0
    <3>1. row \in Rows /\ 0 \in 0..NO_INPUT_STRIKES
      BY DEF Inv, TypeOK, NO_INPUT_STRIKES
    <3>. QED
      BY <2>2, <3>1 DEF Rows
  <2>4. /\ ledger' \in Ledgers /\ ledger'.state = ledger.state /\ ledger'.outcome = ledger.outcome
        /\ ledger'.unlocked = ledger.unlocked /\ ledger'.proposal = ledger.proposal
        /\ ledger'.noInput = 0
    <3>1. ledger \in Ledgers /\ 0 \in 0..NO_INPUT_STRIKES
      BY DEF Inv, TypeOK, NO_INPUT_STRIKES
    <3>. QED
      BY <2>2, <3>1 DEF Ledgers, UserSpoke
  <2>5. row.outcome = None /\ row.state \in OpenStates
    BY <2>2 DEF Over, Inv, RestsOpenOrEnded, isTerminal
  <2>6. turn' \in [Turns -> TurnRows]
    <3>1. row.active # None => row.active \in Turns
      BY DEF Inv, TypeOK, Rows
    <3> DEFINE settled == IF row.active = None THEN turn
                          ELSE finishTurn(turn, row.active, "SUPERSEDED", "none")
    <3>2. settled \in [Turns -> TurnRows]
      BY <3>1, FinishTurnFacts DEF Inv, TypeOK
    <3>3. turn' = IF turn[t].status = "ABSENT"
                  THEN [settled EXCEPT ![t] = [text |-> text, status |-> "RUNNING", disp |-> "null"]]
                  ELSE settled
      BY <2>1 DEF ClaimedTable
    <3>4. [text |-> text, status |-> "RUNNING", disp |-> "null"] \in TurnRows
      BY SaysAssumption DEF TurnRows
    <3>. HIDE DEF settled
    <3>. QED
      BY <3>2, <3>3, <3>4
  <2>7. /\ run' \in [Runs -> [pc : Steps, seen : States]]
        /\ \A r \in Runs : run'[r].seen = run[r].seen \/ run'[r].seen = row.state
    BY <2>1 DEF Inv, TypeOK, Rows, Steps, Runs
  <2>8. /\ order' \in Seq(Turns) /\ lines' \in [Turns -> Nat] /\ superseded' \in SUBSET Turns
    BY <1>2 DEF T1Claim, Inv, TypeOK, Rows
  <2>9. playout' \in [Turns -> SUBSET {"heard", "cut"}]
    <3>1. playout \in [Turns -> SUBSET {"heard", "cut"}]
      BY DEF Inv, TypeOK
    <3>2. CASE UNCHANGED playout
      BY <3>1, <3>2
    <3>3. CASE \E u \in Turns, how \in {"heard", "cut"} : PlayoutReport(u, how)
      BY <3>1, <3>3 DEF PlayoutReport
    <3>. QED
      BY <1>2, <3>2, <3>3 DEF T1Claim
  <2>10. TypeOK'
    BY <2>2, <2>3, <2>4, <2>6, <2>7, <2>8, <2>9 DEF Inv, TypeOK
  <2>11. RowMatchesLedger' /\ ProtectedStatesUnlocked' /\ RestsOpenOrEnded'
    BY <2>3, <2>4 DEF Inv, RowMatchesLedger, ProtectedStatesUnlocked, RestsOpenOrEnded
  <2>12. BooksMatchOutcome' /\ NothingPendingYet'
    BY <2>2, <2>3 DEF Inv, BooksMatchOutcome, NothingPendingYet
  <2>13. StrikesLeft' /\ OnlyScriptedVerifies' /\ UnlockedForGood' /\ SettledReleased'
    BY <2>2, <2>3, <2>5, NoneAssumption
       DEF Inv, StrikesLeft, OnlyScriptedVerifies, UnlockedForGood, SettledReleased,
           SettledByTurn, Outcomes, NO_INPUT_STRIKES
  <2>14. AskedWhileOpen'
    BY <2>2, <2>3, <2>5, <2>7
       DEF Inv, AskedWhileOpen, ProtectedStatesUnlocked, OnlyScriptedVerifies
  <2>15. ReadBackIsLast'
    BY <2>2, <2>3 DEF Inv, ReadBackIsLast
  <2>. QED
    BY <2>10, <2>11, <2>12, <2>13, <2>14, <2>15 DEF Inv
<1>. QED
  BY <1>1, <1>2

(* A hold request: the disposition is read, the turn finished, the claim    *)
(* given back, each in a statement of its own.                             *)
LEMMA HoldKeeps ==
    ASSUME Inv, NEW t \in Turns, NEW p \in Procs,
           ReadDisposition(t, p) \/ FinishWait(t, p) \/ ReleaseWait(t, p)
    PROVE  Inv'
<1>1. PICK step \in Steps : Goto(t, p, step)
  BY DEF ReadDisposition, FinishWait, ReleaseWait, Steps
<1>2. run' \in RunRows /\ \A r \in Runs : run'[r].seen = run[r].seen
  BY <1>1, GotoFacts DEF Inv, TypeOK, RunRows
<1>3. UNCHANGED <<call, ledger, history, speech, playout, crm, proc>>
  BY DEF ReadDisposition, FinishWait, ReleaseWait
<1>4. CASE ReadDisposition(t, p) \/ FinishWait(t, p)
  <2>1. row' = row
    BY <1>4 DEF ReadDisposition, FinishWait
  <2>2. turn' \in [Turns -> TurnRows]
    <3>1. turn \in [Turns -> TurnRows]
      BY DEF Inv, TypeOK
    <3>2. finishTurn(turn, t, "DONE", "wait") \in [Turns -> TurnRows]
      BY <3>1, FinishTurnFacts
    <3>. QED
      BY <1>4, <3>1, <3>2 DEF ReadDisposition, FinishWait
  <2>3. TypeOK'
    BY <1>2, <1>3, <2>1, <2>2 DEF Inv, TypeOK, RunRows, history, speech
  <2>. QED
    BY <1>2, <1>3, <2>1, <2>3, QuietKeeps
<1>5. CASE ReleaseWait(t, p)
  <2>1. row' = releaseTurn(row, t) /\ row' \in Rows /\ turn' = turn
    BY <1>5, ReleaseFacts DEF ReleaseWait, Inv, TypeOK
  <2>2. TypeOK'
    BY <1>2, <1>3, <2>1 DEF Inv, TypeOK, RunRows, history, speech
  <2>. QED
    BY <1>2, <1>3, <2>1, <2>2, ReleaseKeeps
<1>. QED
  BY <1>4, <1>5

(* What T2 finds on the row and in the ledger when it still holds the claim. *)
LEMMA T2Finds ==
    ASSUME Inv
    PROVE  /\ row \in Rows /\ ledger \in Ledgers /\ crm \in Books
           /\ ledger.state = row.state /\ ledger.unlocked = row.unlocked
           /\ ledger.outcome = row.outcome /\ ledger.noInput = row.noInput
           /\ ledger.proposal = row.proposal
           /\ row.state \in OpenStates \cup {"COMPLETED"}
           /\ row.state = "COMPLETED" <=> row.outcome # None
           /\ row.state \in PROTECTED_CONTEXT_STATES => row.unlocked
           /\ row.unlocked => row.state \notin {"GREETING", "VERIFYING_IDENTITY"}
           /\ call.decider = "openai" => row.state # "VERIFYING_IDENTITY"
           /\ row.unlocked \in BOOLEAN
           /\ row.state # "COMPLETED" => crm.pending = {}
BY DEF Inv, TypeOK, RowMatchesLedger, RestsOpenOrEnded, ProtectedStatesUnlocked, UnlockedForGood,
       OnlyScriptedVerifies, NothingPendingYet, Rows

(* A reply that changes no state: a degraded turn, a rejected or duplicate  *)
(* tool, a refused move, staying, a tool that only reads.                   *)
LEMMA SameStateKeeps ==
    ASSUME Inv, NEW t \in Turns, NEW p \in Procs, Owner(t, p),
           NEW lg \in {ledger, ToolCalled(ledger, t)}, Reply(t, p, row, lg)
    PROVE  Inv'
<1>1. /\ lg \in Ledgers /\ lg.state = row.state /\ lg.unlocked = row.unlocked
      /\ lg.outcome = row.outcome /\ lg.noInput = row.noInput /\ lg.proposal = row.proposal
  BY T2Finds DEF ToolCalled, Ledgers
<1>2. Commit(t, p, row, lg, None) /\ crm' = crm
  BY DEF Reply
<1>. QED
  BY <1>1, <1>2, T2Finds, ReplyKeeps

(* An override moves the row and the ledger alike, or neither.              *)
LEMMA OverrideFacts ==
    ASSUME Inv, NEW to \in OVERRIDE_TARGETS
    PROVE  /\ OverrideRow(to) \in Rows /\ OverrideLedger(to) \in Ledgers
           /\ OverrideLedger(to).state = OverrideRow(to).state
           /\ OverrideRow(to).active = row.active /\ OverrideRow(to).unlocked = row.unlocked
           /\ OverrideRow(to).proposal = row.proposal
           /\ OverrideRow(to).readBackTurn = row.readBackTurn
           /\ OverrideRow(to).noInput = row.noInput
           /\ OverrideLedger(to).unlocked = row.unlocked
           /\ OverrideLedger(to).proposal = row.proposal
           /\ OverrideLedger(to).noInput = row.noInput
<1>1. to \in States /\ to # "DISCUSSING_PAYMENT"
  BY DEF OVERRIDE_TARGETS, States
<1>2. /\ OverrideRow(to) \in Rows
      /\ OverrideRow(to).state = IF isTerminal(row.state) THEN row.state ELSE to
      /\ OverrideRow(to).active = row.active /\ OverrideRow(to).unlocked = row.unlocked
      /\ OverrideRow(to).proposal = row.proposal
      /\ OverrideRow(to).readBackTurn = row.readBackTurn
      /\ OverrideRow(to).noInput = row.noInput
  BY <1>1, T2Finds DEF OverrideRow, OverrideAllowed, Rows
<1>3. CASE OverrideAllowed(row.state, to) /\ to # row.state
  BY <1>1, <1>2, <1>3, T2Finds DEF OverrideLedger, OverrideAllowed, Moved, Ledgers
<1>4. CASE ~(OverrideAllowed(row.state, to) /\ to # row.state)
  BY <1>1, <1>2, <1>4, T2Finds DEF OverrideLedger, OverrideAllowed, isTerminal
<1>. QED
  BY <1>2, <1>3, <1>4

(* TOOL_CALLED adds a tool_call_id and nothing else.                        *)
LEMMA ToolCalledFacts ==
    ASSUME NEW lg \in Ledgers, NEW t \in Turns
    PROVE  /\ ToolCalled(lg, t) \in Ledgers
           /\ ToolCalled(lg, t).state = lg.state /\ ToolCalled(lg, t).unlocked = lg.unlocked
           /\ ToolCalled(lg, t).outcome = lg.outcome /\ ToolCalled(lg, t).noInput = lg.noInput
           /\ ToolCalled(lg, t).proposal = lg.proposal
BY DEF ToolCalled, Ledgers

(* The deterministic rules on the borrower's words keep the invariant, on   *)
(* an open call and on one that has ended.                                 *)
LEMMA OverrideKeeps ==
    ASSUME Inv, NEW t \in Turns, NEW p \in Procs,
           T2OverrideOptOut(t, p) \/ T2OverrideWrongNumber(t, p) \/ T2OverrideTransfer(t, p)
    PROVE  Inv'
<1>0. Owner(t, p) /\ crm \in Books
  BY T2Finds DEF T2OverrideOptOut, T2OverrideWrongNumber, T2OverrideTransfer
<1>1. CASE T2OverrideOptOut(t, p)
  <2> DEFINE rw == OverrideRow("OPT_OUT")
             lg == ToolCalled(OverrideLedger("OPT_OUT"), t)
  <2>1. /\ rw \in Rows /\ lg \in Ledgers /\ lg.state = rw.state
        /\ rw.active = row.active /\ rw.unlocked = row.unlocked /\ rw.noInput = row.noInput
        /\ rw.proposal = row.proposal /\ rw.readBackTurn = row.readBackTurn
        /\ lg.unlocked = rw.unlocked /\ lg.noInput = rw.noInput /\ lg.proposal = rw.proposal
    BY OverrideFacts, ToolCalledFacts DEF OVERRIDE_TARGETS
  <2>2. /\ OptedOut(crm) \in Books /\ OptedOut(crm).optedOut = TRUE /\ OptedOut(crm).pending = {}
    BY <1>0 DEF OptedOut, Books
  <2>3. EndCall(t, p, rw, lg, OptedOut(crm), "OPT_OUT") /\ "OPT_OUT" \in SettledByTurn
    BY <1>1 DEF T2OverrideOptOut, SettledByTurn
  <2>. HIDE DEF rw, lg
  <2>. QED
    BY <1>0, <2>1, <2>2, <2>3, EndCallKeeps
<1>2. CASE T2OverrideWrongNumber(t, p)
  <2> DEFINE rw == OverrideRow("WRONG_NUMBER")
             lg == ToolCalled(OverrideLedger("WRONG_NUMBER"), t)
  <2>1. /\ rw \in Rows /\ lg \in Ledgers /\ lg.state = rw.state
        /\ rw.active = row.active /\ rw.unlocked = row.unlocked /\ rw.noInput = row.noInput
        /\ rw.proposal = row.proposal /\ rw.readBackTurn = row.readBackTurn
        /\ lg.unlocked = rw.unlocked /\ lg.noInput = rw.noInput /\ lg.proposal = rw.proposal
    BY OverrideFacts, ToolCalledFacts DEF OVERRIDE_TARGETS
  <2>2. /\ NumberInvalid(crm) \in Books /\ NumberInvalid(crm).validNumber = FALSE
        /\ NumberInvalid(crm).pending \cap {"CALLBACK", "RETRY_CALL"} = {}
    BY <1>0 DEF NumberInvalid, Books
  <2>3. EndCall(t, p, rw, lg, NumberInvalid(crm), "WRONG_NUMBER") /\ "WRONG_NUMBER" \in SettledByTurn
    BY <1>2 DEF T2OverrideWrongNumber, SettledByTurn
  <2>. HIDE DEF rw, lg
  <2>. QED
    BY <1>0, <2>1, <2>2, <2>3, EndCallKeeps
<1>3. CASE T2OverrideTransfer(t, p)
  <2> DEFINE rw == OverrideRow("ESCALATED")
             lg == OverrideLedger("ESCALATED")
  <2>1. /\ rw \in Rows /\ lg \in Ledgers /\ lg.state = rw.state
        /\ rw.active = row.active /\ rw.unlocked = row.unlocked /\ rw.noInput = row.noInput
        /\ rw.proposal = row.proposal /\ rw.readBackTurn = row.readBackTurn
        /\ lg.unlocked = rw.unlocked /\ lg.noInput = rw.noInput /\ lg.proposal = rw.proposal
    BY OverrideFacts DEF OVERRIDE_TARGETS
  <2>2. HumanFollowup(crm) \in Books
    BY <1>0 DEF HumanFollowup, Books
  <2>3. PICK o \in {"DISPUTED", "ESCALATED"} : EndCall(t, p, rw, lg, HumanFollowup(crm), o)
    BY <1>3 DEF T2OverrideTransfer
  <2>4. o \in SettledByTurn
    BY <2>3 DEF SettledByTurn
  <2>. HIDE DEF rw, lg
  <2>. QED
    BY <1>0, <2>1, <2>2, <2>3, <2>4, EndCallKeeps
<1>. QED
  BY <1>1, <1>2, <1>3

(* A tool executed by T2 finds the call open, in a state its matrix admits. *)
LEMMA ExecutesFacts ==
    ASSUME Inv, NEW t \in Turns, NEW p \in Procs, NEW tool, Executes(t, p, tool)
    PROVE  /\ Owner(t, p)
           /\ row.state \in TOOL_STATE_MATRIX(tool)
BY DEF Executes, Calling, Asked, toolAllowed

(* Identity tools: the right party, a third party, a wrong number.          *)
LEMMA IdentityToolKeeps ==
    ASSUME Inv, NEW t \in Turns, NEW p \in Procs,
           T2ConfirmRightParty(t, p) \/ T2ThirdParty(t, p) \/ T2WrongNumberTool(t, p)
    PROVE  Inv'
<1>1. CASE T2ConfirmRightParty(t, p)
  <2> DEFINE rw == [row EXCEPT !.state = "DISCUSSING_PAYMENT", !.unlocked = TRUE]
             to == ViaVerifying(ledger, row.state, "DISCUSSING_PAYMENT")
             lg == ToolCalled(to, t)
  <2>1. Owner(t, p) /\ row.state \in {"GREETING", "VERIFYING_IDENTITY"}
    BY <1>1, ExecutesFacts DEF T2ConfirmRightParty, TOOL_STATE_MATRIX
  <2>2. Commit(t, p, rw, lg, None) /\ crm' = crm
    BY <1>1 DEF T2ConfirmRightParty, Reply
  <2>3. /\ rw \in Rows /\ rw.state = "DISCUSSING_PAYMENT" /\ rw.unlocked = TRUE
        /\ rw.outcome = row.outcome /\ rw.active = row.active /\ rw.noInput = row.noInput
        /\ rw.proposal = row.proposal /\ rw.readBackTurn = row.readBackTurn
    BY T2Finds DEF Rows, States
  <2>4. /\ to \in Ledgers /\ to.state = "DISCUSSING_PAYMENT" /\ to.unlocked = TRUE
        /\ to.outcome = ledger.outcome /\ to.noInput = ledger.noInput
        /\ to.proposal = ledger.proposal
    BY <2>1, T2Finds DEF ViaVerifying, Moved, triggerFor, Ledgers, States
  <2>5. /\ lg \in Ledgers /\ lg.state = "DISCUSSING_PAYMENT" /\ lg.unlocked = TRUE
        /\ lg.outcome = row.outcome /\ lg.noInput = row.noInput /\ lg.proposal = row.proposal
    <3>. HIDE DEF to
    <3>. QED
      BY <2>4, ToolCalledFacts, T2Finds
  <2>6. row.outcome = None /\ rw.state \in OpenStates
    BY <2>1, <2>3, T2Finds DEF OpenStates
  <2>. HIDE DEF rw, lg, to
  <2>. QED
    BY <2>1, <2>2, <2>3, <2>5, <2>6, ReplyKeeps DEF OpenStates
<1>2. CASE T2ThirdParty(t, p)
  <2> DEFINE rw == [row EXCEPT !.state = "THIRD_PARTY_OR_WRONG_PARTY"]
             to == ViaVerifying(ledger, row.state, "THIRD_PARTY_OR_WRONG_PARTY")
             lg == ToolCalled(to, t)
  <2>1. Owner(t, p) /\ row.state \in {"GREETING", "VERIFYING_IDENTITY"}
    <3>1. Owner(t, p) /\ row.state \in {"GREETING", "VERIFYING_IDENTITY",
                                        "THIRD_PARTY_OR_WRONG_PARTY", "WRONG_NUMBER"}
      BY <1>2, ExecutesFacts DEF T2ThirdParty, TOOL_STATE_MATRIX
    <3>. QED
      BY <3>1, T2Finds DEF OpenStates
  <2>2. EndCall(t, p, rw, lg, crm, "THIRD_PARTY_CONTACT")
    BY <1>2 DEF T2ThirdParty
  <2>3. /\ rw \in Rows /\ rw.state = "THIRD_PARTY_OR_WRONG_PARTY" /\ rw.unlocked = row.unlocked
        /\ rw.active = row.active /\ rw.noInput = row.noInput
        /\ rw.proposal = row.proposal /\ rw.readBackTurn = row.readBackTurn
    BY T2Finds DEF Rows, States
  <2>4. /\ to \in Ledgers /\ to.state = "THIRD_PARTY_OR_WRONG_PARTY" /\ to.unlocked = ledger.unlocked
        /\ to.noInput = ledger.noInput /\ to.proposal = ledger.proposal
    BY <2>1, T2Finds DEF ViaVerifying, Moved, triggerFor, Ledgers, States
  <2>5. /\ lg \in Ledgers /\ lg.state = rw.state /\ lg.unlocked = rw.unlocked
        /\ lg.noInput = rw.noInput /\ lg.proposal = rw.proposal
    <3>. HIDE DEF to, rw
    <3>. QED
      BY <2>3, <2>4, ToolCalledFacts, T2Finds
  <2>. HIDE DEF rw, lg, to
  <2>. QED
    BY <2>1, <2>2, <2>3, <2>5, T2Finds, EndCallKeeps DEF SettledByTurn
<1>3. CASE T2WrongNumberTool(t, p)
  <2> DEFINE rw == [row EXCEPT !.state = "WRONG_NUMBER"]
             to == Moved(ledger, row.state, "WRONG_NUMBER", "LLM_INTENT")
             lg == ToolCalled(to, t)
  <2>1. Owner(t, p)
    BY <1>3, ExecutesFacts DEF T2WrongNumberTool
  <2>2. EndCall(t, p, rw, lg, NumberInvalid(crm), "WRONG_NUMBER")
    BY <1>3 DEF T2WrongNumberTool
  <2>3. /\ rw \in Rows /\ rw.state = "WRONG_NUMBER" /\ rw.unlocked = row.unlocked
        /\ rw.active = row.active /\ rw.noInput = row.noInput
        /\ rw.proposal = row.proposal /\ rw.readBackTurn = row.readBackTurn
    BY T2Finds DEF Rows, States
  <2>4. /\ to \in Ledgers /\ to.state = "WRONG_NUMBER" /\ to.unlocked = ledger.unlocked
        /\ to.noInput = ledger.noInput /\ to.proposal = ledger.proposal
    BY <2>1, T2Finds DEF Moved, Ledgers, States
  <2>5. /\ lg \in Ledgers /\ lg.state = rw.state /\ lg.unlocked = rw.unlocked
        /\ lg.noInput = rw.noInput /\ lg.proposal = rw.proposal
    <3>. HIDE DEF to, rw
    <3>. QED
      BY <2>3, <2>4, ToolCalledFacts, T2Finds
  <2>6. /\ NumberInvalid(crm) \in Books /\ NumberInvalid(crm).validNumber = FALSE
        /\ NumberInvalid(crm).pending \cap {"CALLBACK", "RETRY_CALL"} = {}
    BY T2Finds DEF NumberInvalid, Books
  <2>. HIDE DEF rw, lg, to
  <2>. QED
    BY <2>1, <2>2, <2>3, <2>5, <2>6, EndCallKeeps DEF SettledByTurn
<1>. QED
  BY <1>1, <1>2, <1>3

(* Proposing a promise reads it back; refusing to record one repeats the    *)
(* read-back, or returns to the discussion with nothing on the table.       *)
LEMMA ProposalKeeps ==
    ASSUME Inv, NEW t \in Turns, NEW p \in Procs,
           T2Propose(t, p) \/ T2RefusePromise(t, p)
    PROVE  Inv'
<1>1. CASE T2Propose(t, p)
  <2>1. PICK a \in Amounts :
            Commit(t, p, [row EXCEPT !.state = "CONFIRMING_OUTCOME", !.proposal = a, !.readBackTurn = t],
               Proposed(ToolCalled(Moved(ledger, row.state, "CONFIRMING_OUTCOME", "PROPOSAL"), t), a), a)
    BY <1>1 DEF T2Propose
  <2> DEFINE rw == [row EXCEPT !.state = "CONFIRMING_OUTCOME", !.proposal = a, !.readBackTurn = t]
             to == Moved(ledger, row.state, "CONFIRMING_OUTCOME", "PROPOSAL")
             called == ToolCalled(to, t)
             lg == Proposed(called, a)
  <2>2. Owner(t, p) /\ row.state = "DISCUSSING_PAYMENT" /\ crm' = crm
    BY <1>1, ExecutesFacts DEF T2Propose, TOOL_STATE_MATRIX
  <2>3. /\ rw \in Rows /\ rw.state = "CONFIRMING_OUTCOME" /\ rw.unlocked = row.unlocked
        /\ rw.outcome = row.outcome /\ rw.active = row.active /\ rw.noInput = row.noInput
        /\ rw.proposal = a /\ rw.readBackTurn = t
    BY T2Finds DEF Rows, States
  <2>4. /\ to \in Ledgers /\ to.state = "CONFIRMING_OUTCOME" /\ to.unlocked = ledger.unlocked
        /\ to.outcome = ledger.outcome /\ to.noInput = ledger.noInput
    BY T2Finds DEF Moved, Ledgers, States
  <2>5. /\ called \in Ledgers /\ called.state = "CONFIRMING_OUTCOME"
        /\ called.unlocked = ledger.unlocked
        /\ called.outcome = ledger.outcome /\ called.noInput = ledger.noInput
    <3>. HIDE DEF to
    <3>. QED
      BY <2>4, ToolCalledFacts
  <2>6. /\ lg \in Ledgers /\ lg.state = "CONFIRMING_OUTCOME" /\ lg.unlocked = row.unlocked
        /\ lg.outcome = row.outcome /\ lg.noInput = row.noInput /\ lg.proposal = a
    <3>. HIDE DEF called
    <3>. QED
      BY <2>5, T2Finds DEF Proposed, Ledgers
  <2>7. row.outcome = None /\ row.unlocked /\ rw.state \in OpenStates /\ a # None
    BY <2>2, <2>3, T2Finds, NoneAssumption DEF OpenStates, PROTECTED_CONTEXT_STATES
  <2>8. Commit(t, p, rw, lg, a)
    BY <2>1
  <2>. HIDE DEF rw, lg, called, to
  <2>. QED
    BY <2>2, <2>3, <2>6, <2>7, <2>8, ReplyKeeps DEF OpenStates
<1>2. CASE T2RefusePromise(t, p) /\ row.proposal # None
  <2> DEFINE rw == [row EXCEPT !.readBackTurn = t]
             lg == ToolCalled(ledger, t)
  <2>1. Owner(t, p) /\ Commit(t, p, rw, lg, row.proposal) /\ crm' = crm
    BY <1>2, ExecutesFacts DEF T2RefusePromise
  <2>2. /\ rw \in Rows /\ rw.state = row.state /\ rw.unlocked = row.unlocked
        /\ rw.outcome = row.outcome /\ rw.active = row.active /\ rw.noInput = row.noInput
        /\ rw.proposal = row.proposal /\ rw.readBackTurn = t
    BY T2Finds DEF Rows
  <2>3. /\ lg \in Ledgers /\ lg.state = row.state /\ lg.unlocked = row.unlocked
        /\ lg.outcome = row.outcome /\ lg.noInput = row.noInput /\ lg.proposal = row.proposal
    BY T2Finds, ToolCalledFacts
  <2>4. row.proposal \in Amounts \cup {None}
    BY T2Finds DEF Rows
  <2>. HIDE DEF rw, lg
  <2>. QED
    BY <1>2, <2>1, <2>2, <2>3, <2>4, T2Finds, ReplyKeeps
<1>3. CASE T2RefusePromise(t, p) /\ row.proposal = None
  <2> DEFINE rw == [row EXCEPT !.state = "DISCUSSING_PAYMENT"]
             called == ToolCalled(ledger, t)
             lg == Moved(called, row.state, "DISCUSSING_PAYMENT", "USER_DECLINED")
  <2>1. Owner(t, p) /\ Commit(t, p, rw, lg, None) /\ crm' = crm /\ row.state = "CONFIRMING_OUTCOME"
    BY <1>3, ExecutesFacts DEF T2RefusePromise, TOOL_STATE_MATRIX
  <2>2. /\ rw \in Rows /\ rw.state = "DISCUSSING_PAYMENT" /\ rw.unlocked = row.unlocked
        /\ rw.outcome = row.outcome /\ rw.active = row.active /\ rw.noInput = row.noInput
        /\ rw.proposal = None /\ rw.readBackTurn = row.readBackTurn
    BY <1>3, T2Finds DEF Rows, States
  <2>3. /\ called \in Ledgers /\ called.unlocked = row.unlocked
        /\ called.outcome = row.outcome /\ called.noInput = row.noInput /\ called.proposal = None
    BY <1>3, T2Finds, ToolCalledFacts
  <2>4. /\ lg \in Ledgers /\ lg.state = "DISCUSSING_PAYMENT" /\ lg.unlocked = row.unlocked
        /\ lg.outcome = row.outcome /\ lg.noInput = row.noInput /\ lg.proposal = None
    <3>. HIDE DEF called
    <3>1. /\ lg \in Ledgers /\ lg.state = "DISCUSSING_PAYMENT" /\ lg.unlocked = called.unlocked
          /\ lg.outcome = called.outcome /\ lg.noInput = called.noInput
      BY <2>3 DEF Moved, Ledgers, States
    <3>2. lg.proposal = None
      BY <2>3 DEF Moved, Ledgers
    <3>. QED
      BY <2>3, <3>1, <3>2
  <2>5. row.outcome = None /\ row.unlocked /\ rw.state \in OpenStates
    BY <2>1, <2>2, T2Finds DEF OpenStates, PROTECTED_CONTEXT_STATES
  <2>. HIDE DEF rw, lg, called
  <2>. QED
    BY <2>1, <2>2, <2>4, <2>5, ReplyKeeps DEF OpenStates
<1>. QED
  BY <1>1, <1>2, <1>3

(* Recording the promise and scheduling the callback end the call.          *)
LEMMA OutcomeToolKeeps ==
    ASSUME Inv, NEW t \in Turns, NEW p \in Procs,
           T2RecordPromise(t, p) \/ T2ScheduleCallback(t, p)
    PROVE  Inv'
<1>1. CASE T2RecordPromise(t, p)
  <2> DEFINE rw == [row EXCEPT !.proposal = None, !.readBackTurn = None]
             called == ToolCalled(ledger, t)
             lg == PromiseRecorded(called)
             books == [crm EXCEPT !.promised = row.proposal]
  <2>1. Owner(t, p) /\ EndCall(t, p, rw, lg, books, "PROMISE_TO_PAY")
    BY <1>1, ExecutesFacts DEF T2RecordPromise
  <2>2. /\ rw \in Rows /\ rw.state = row.state /\ rw.unlocked = row.unlocked
        /\ rw.active = row.active /\ rw.noInput = row.noInput /\ rw.proposal = None
    BY T2Finds DEF Rows
  <2>3. /\ called \in Ledgers /\ called.state = row.state /\ called.unlocked = row.unlocked
        /\ called.noInput = row.noInput
    BY T2Finds, ToolCalledFacts
  <2>4. /\ lg \in Ledgers /\ lg.state = row.state /\ lg.unlocked = row.unlocked
        /\ lg.noInput = row.noInput /\ lg.proposal = None
    <3>. HIDE DEF called
    <3>. QED
      BY <2>3 DEF PromiseRecorded, Ledgers
  <2>5. books \in Books
    BY T2Finds DEF Books, Rows
  <2>. HIDE DEF rw, lg, called, books
  <2>. QED
    BY <2>1, <2>2, <2>4, <2>5, EndCallKeeps DEF SettledByTurn
<1>2. CASE T2ScheduleCallback(t, p)
  <2> DEFINE lg == ToolCalled(ledger, t)
             books == [crm EXCEPT !.pending = (@ \ {"RETRY_CALL"}) \cup {"CALLBACK"}]
  <2>1. /\ Owner(t, p) /\ EndCall(t, p, row, lg, books, "CALLBACK_SCHEDULED")
        /\ row.state # "COMPLETED"
    BY <1>2, ExecutesFacts DEF T2ScheduleCallback, TOOL_STATE_MATRIX
  <2>2. /\ lg \in Ledgers /\ lg.state = row.state /\ lg.unlocked = row.unlocked
        /\ lg.noInput = row.noInput /\ lg.proposal = row.proposal
    BY T2Finds, ToolCalledFacts
  <2>3. books \in Books /\ books.pending = {"CALLBACK"}
    BY <2>1, T2Finds DEF Books
  <2>. HIDE DEF lg, books
  <2>. QED
    BY <2>1, <2>2, <2>3, T2Finds, EndCallKeeps DEF SettledByTurn
<1>. QED
  BY <1>1, <1>2

(* A suggested move lands only in a state the call may rest in, and never   *)
(* unlocks: only the scripted decider is ever in VERIFYING_IDENTITY, and it *)
(* asks for the discussion only from the discussion or the read-back.       *)
LEMMA MoveTargets ==
    ASSUME Inv, NEW t \in Turns, NEW p \in Procs, NEW next \in States, T2Move(t, p, next)
    PROVE  \/ row.state = "GREETING" /\ next = "VERIFYING_IDENTITY" /\ call.decider = "scripted"
           \/ row.state = "DISCUSSING_PAYMENT" /\ next = "CONFIRMING_OUTCOME"
           \/ row.state = "CONFIRMING_OUTCOME" /\ next = "DISCUSSING_PAYMENT"
<1> DEFINE seen == run[<<t, p>>].seen
<1>1. /\ CanSuggest(call.decider, seen, next)
      /\ next # row.state /\ next \in ADJACENCY(row.state)
      /\ next \notin {"WARM_TRANSFER_PENDING", "ENDING"}
  BY DEF T2Move, Moves, Suggests, TransitionAllowed
<1>2. /\ seen \in OpenStates
      /\ seen \in PROTECTED_CONTEXT_STATES => row.unlocked
      /\ call.decider = "openai" => seen # "VERIFYING_IDENTITY"
  BY DEF Inv, AskedWhileOpen, Runs
<1>3. call.decider \in {"scripted", "openai"}
  BY CallsAssumption DEF Inv, TypeOK, Deciders
<1>. HIDE DEF seen
<1>4. CASE call.decider = "openai"
  BY <1>1, <1>2, <1>4, T2Finds
     DEF CanSuggest, ADJACENCY, OpenStates, PROTECTED_CONTEXT_STATES
<1>5. CASE call.decider = "scripted"
  BY <1>1, <1>2, <1>5, T2Finds
     DEF CanSuggest, ADJACENCY, OpenStates, PROTECTED_CONTEXT_STATES
<1>. QED
  BY <1>3, <1>4, <1>5

(* Suggested moves: the hand-over to a person, the goodbye, any other.      *)
LEMMA MoveKeeps ==
    ASSUME Inv, NEW t \in Turns, NEW p \in Procs,
           \/ T2WarmTransfer(t, p) \/ T2Goodbye(t, p)
           \/ \E next \in States : T2Move(t, p, next)
    PROVE  Inv'
<1>1. CASE T2WarmTransfer(t, p)
  <2> DEFINE rw == [row EXCEPT !.state = "WARM_TRANSFER_PENDING"]
             lg == Moved(ledger, row.state, "WARM_TRANSFER_PENDING", "LLM_INTENT")
  <2>1. Owner(t, p) /\ EndCall(t, p, rw, lg, HumanFollowup(crm), "ESCALATED")
    BY <1>1 DEF T2WarmTransfer, Moves, Suggests, Asked
  <2>2. /\ rw \in Rows /\ rw.state = "WARM_TRANSFER_PENDING" /\ rw.unlocked = row.unlocked
        /\ rw.active = row.active /\ rw.noInput = row.noInput
        /\ rw.proposal = row.proposal /\ rw.readBackTurn = row.readBackTurn
    BY T2Finds DEF Rows, States
  <2>3. /\ lg \in Ledgers /\ lg.state = "WARM_TRANSFER_PENDING" /\ lg.unlocked = row.unlocked
        /\ lg.noInput = row.noInput /\ lg.proposal = row.proposal
    BY T2Finds DEF Moved, Ledgers, States
  <2>4. HumanFollowup(crm) \in Books
    BY T2Finds DEF HumanFollowup, Books
  <2>. HIDE DEF rw, lg
  <2>. QED
    BY <2>1, <2>2, <2>3, <2>4, EndCallKeeps DEF SettledByTurn
<1>2. CASE T2Goodbye(t, p)
  <2> DEFINE rw == [row EXCEPT !.state = "ENDING"]
             lg == Moved(ledger, row.state, "ENDING", triggerFor(row.state, "ENDING"))
  <2>1. Owner(t, p) /\ EndCall(t, p, rw, lg, crm, "NO_DISPOSITION")
    BY <1>2 DEF T2Goodbye, Moves, Suggests, Asked
  <2>2. /\ rw \in Rows /\ rw.state = "ENDING" /\ rw.unlocked = row.unlocked
        /\ rw.active = row.active /\ rw.noInput = row.noInput
        /\ rw.proposal = row.proposal /\ rw.readBackTurn = row.readBackTurn
    BY T2Finds DEF Rows, States
  <2>3. /\ lg \in Ledgers /\ lg.state = "ENDING" /\ lg.unlocked = row.unlocked
        /\ lg.noInput = row.noInput /\ lg.proposal = row.proposal
    BY T2Finds DEF Moved, triggerFor, Ledgers, States
  <2>. HIDE DEF rw, lg
  <2>. QED
    BY <2>1, <2>2, <2>3, T2Finds, EndCallKeeps DEF SettledByTurn
<1>3. ASSUME NEW next \in States, T2Move(t, p, next)
      PROVE  Inv'
  <2> DEFINE declined == row.state = "CONFIRMING_OUTCOME" /\ next = "DISCUSSING_PAYMENT"
             rw == IF declined
                   THEN [row EXCEPT !.state = next, !.proposal = None, !.readBackTurn = None]
                   ELSE [row EXCEPT !.state = next]
             lg == Moved(ledger, row.state, next, triggerFor(row.state, next))
  <2>1. Owner(t, p) /\ Commit(t, p, rw, lg, None) /\ crm' = crm
    BY <1>3 DEF T2Move, Moves, Suggests, Asked, Reply
  <2>2. \/ row.state = "GREETING" /\ next = "VERIFYING_IDENTITY" /\ call.decider = "scripted"
        \/ row.state = "DISCUSSING_PAYMENT" /\ next = "CONFIRMING_OUTCOME"
        \/ row.state = "CONFIRMING_OUTCOME" /\ next = "DISCUSSING_PAYMENT"
    BY <1>3, MoveTargets
  <2>3. /\ rw \in Rows /\ rw.state = next /\ rw.unlocked = row.unlocked
        /\ rw.outcome = row.outcome /\ rw.active = row.active /\ rw.noInput = row.noInput
        /\ rw.proposal = IF declined THEN None ELSE row.proposal
        /\ declined \/ rw.readBackTurn = row.readBackTurn
    BY T2Finds DEF Rows
  <2>4. /\ lg \in Ledgers /\ lg.state = next /\ lg.outcome = row.outcome
        /\ lg.noInput = row.noInput
        /\ lg.proposal = IF declined THEN None ELSE row.proposal
    BY T2Finds DEF Moved, Ledgers
  <2>5. lg.unlocked = row.unlocked
    BY <2>2, T2Finds DEF Moved, Ledgers, triggerFor
  <2>6. /\ row.outcome = None /\ next \in OpenStates
        /\ next \in PROTECTED_CONTEXT_STATES => row.unlocked
        /\ row.unlocked => next \notin {"GREETING", "VERIFYING_IDENTITY"}
        /\ call.decider = "openai" => next # "VERIFYING_IDENTITY"
    BY <2>2, T2Finds DEF OpenStates, PROTECTED_CONTEXT_STATES
  <2>. HIDE DEF rw, lg, declined
  <2>. QED
    BY <2>1, <2>3, <2>4, <2>5, <2>6, ReplyKeeps DEF OpenStates
<1>. QED
  BY <1>1, <1>2, <1>3

(* The whole of T2.                                                        *)
LEMMA T2Keeps ==
    ASSUME Inv, NEW t \in Turns, NEW p \in Procs, T2(t, p)
    PROVE  Inv'
<1>1. CASE T2Lost(t, p)
  <2>1. Goto(t, p, "idle") /\ UNCHANGED <<call, row, ledger, history, speech, playout, crm, proc>>
    BY <1>1 DEF T2Lost
  <2>2. run' \in RunRows /\ \A r \in Runs : run'[r].seen = run[r].seen
    BY <2>1, GotoFacts DEF Inv, TypeOK, RunRows, Steps
  <2>3. turn' \in [Turns -> TurnRows]
    BY <1>1, FinishTurnFacts DEF T2Lost, Inv, TypeOK
  <2>4. TypeOK'
    BY <2>1, <2>2, <2>3 DEF Inv, TypeOK, RunRows, history, speech
  <2>. QED
    BY <2>1, <2>2, <2>4, QuietKeeps
<1>2. CASE T2OverrideOptOut(t, p) \/ T2OverrideWrongNumber(t, p) \/ T2OverrideTransfer(t, p)
  BY <1>2, OverrideKeeps
<1>3. CASE \/ T2Degraded(t, p) \/ T2DuplicateTool(t, p) \/ T2Stay(t, p)
           \/ \E tool \in TOOL_NAMES : T2RejectTool(t, p, tool)
           \/ \E next \in States : T2InvalidTransition(t, p, next)
  <2>1. Owner(t, p) /\ Reply(t, p, row, ledger)
    BY <1>3 DEF T2Degraded, T2DuplicateTool, T2Stay, T2RejectTool, T2InvalidTransition,
                Asked, Calling, Suggests
  <2>. QED
    BY <2>1, SameStateKeeps
<1>4. CASE T2ReadOnlyTool(t, p)
  <2>1. Owner(t, p) /\ Reply(t, p, row, ToolCalled(ledger, t))
    BY <1>4 DEF T2ReadOnlyTool, Executes, Calling, Asked
  <2>. QED
    BY <2>1, SameStateKeeps
<1>5. CASE T2ConfirmRightParty(t, p) \/ T2ThirdParty(t, p) \/ T2WrongNumberTool(t, p)
  BY <1>5, IdentityToolKeeps
<1>6. CASE T2Propose(t, p) \/ T2RefusePromise(t, p)
  BY <1>6, ProposalKeeps
<1>7. CASE T2RecordPromise(t, p) \/ T2ScheduleCallback(t, p)
  BY <1>7, OutcomeToolKeeps
<1>8. CASE T2WarmTransfer(t, p) \/ T2Goodbye(t, p) \/ \E next \in States : T2Move(t, p, next)
  BY <1>8, MoveKeeps
<1>. QED
  BY <1>1, <1>2, <1>3, <1>4, <1>5, <1>6, <1>7, <1>8 DEF T2

(* Silence, answering machines, hang-ups, playout and latency reports.      *)
LEMMA SignalKeeps ==
    ASSUME Inv, Signal
    PROVE  Inv'
<1>1. CASE NoInput
  <2> DEFINE strike == row.noInput + 1
             struck == [row EXCEPT !.noInput = strike]
             lg == Struck(ledger, strike)
  <2>1. CallOpen /\ row.outcome = None
    BY <1>1 DEF NoInput, CallOpen
  <2>2. strike \in 0..NO_INPUT_STRIKES
    BY <2>1 DEF Inv, TypeOK, Rows, StrikesLeft, NO_INPUT_STRIKES
  <2>. HIDE DEF strike
  <2>3. /\ struck \in Rows /\ struck.state = row.state /\ struck.outcome = row.outcome
        /\ struck.active = row.active /\ struck.unlocked = row.unlocked
        /\ struck.proposal = row.proposal /\ struck.readBackTurn = row.readBackTurn
        /\ struck.noInput = strike
    BY <2>2, T2Finds DEF Rows
  <2>4. /\ lg \in Ledgers /\ lg.state = row.state /\ lg.outcome = row.outcome
        /\ lg.unlocked = row.unlocked /\ lg.proposal = row.proposal /\ lg.noInput = strike
    BY <2>2, T2Finds DEF Struck, Ledgers
  <2>5. CASE StrikesOut(strike)
    <3>1. SignalEnds(struck, lg, "NO_ANSWER")
      BY <1>1, <2>5 DEF NoInput, strike
    <3>. HIDE DEF struck, lg
    <3>. QED
      BY <2>1, <2>3, <2>4, <3>1, SignalEndsKeeps
  <2>6. CASE ~StrikesOut(strike)
    <3>1. /\ row' = struck /\ ledger' = lg
          /\ UNCHANGED <<call, turn, order, lines, superseded, replies, readBack, lastRead,
                         playout, crm, proc, run>>
      BY <1>1, <2>6 DEF NoInput, strike, history, speech
    <3>2. strike < NO_INPUT_STRIKES
      BY <2>2, <2>6 DEF StrikesOut, NO_INPUT_STRIKES
    <3>. HIDE DEF struck, lg
    <3>3. TypeOK'
      BY <2>3, <2>4, <3>1 DEF Inv, TypeOK
    <3>4. RowMatchesLedger' /\ ProtectedStatesUnlocked' /\ RestsOpenOrEnded'
      BY <2>3, <2>4, <3>1 DEF Inv, RowMatchesLedger, ProtectedStatesUnlocked, RestsOpenOrEnded
    <3>5. BooksMatchOutcome' /\ NothingPendingYet'
      BY <2>3, <3>1 DEF Inv, BooksMatchOutcome, NothingPendingYet
    <3>6. StrikesLeft' /\ OnlyScriptedVerifies' /\ UnlockedForGood' /\ SettledReleased'
      BY <2>3, <3>1, <3>2 DEF Inv, StrikesLeft, OnlyScriptedVerifies, UnlockedForGood, SettledReleased
    <3>7. AskedWhileOpen' /\ ReadBackIsLast'
      BY <2>3, <3>1 DEF Inv, AskedWhileOpen, ReadBackIsLast
    <3>. QED
      BY <3>3, <3>4, <3>5, <3>6, <3>7 DEF Inv
  <2>. QED
    BY <2>5, <2>6
<1>2. CASE AmdMachine
  <2> DEFINE rw == [row EXCEPT !.state = "VOICEMAIL"]
             lg == IF ForcedAllowed(row.state, "VOICEMAIL") /\ row.state # "VOICEMAIL"
                   THEN Moved(ledger, row.state, "VOICEMAIL", "AMD") ELSE ledger
  <2>1. CallOpen /\ SignalEnds(rw, lg, "VOICEMAIL_LEFT")
    BY <1>2 DEF AmdMachine
  <2>2. ForcedAllowed(row.state, "VOICEMAIL") /\ row.state # "VOICEMAIL"
    BY <2>1, T2Finds DEF CallOpen, ForcedAllowed, FORCED_TARGETS, isTerminal, OpenStates
  <2>3. /\ rw \in Rows /\ rw.state = "VOICEMAIL" /\ rw.unlocked = row.unlocked
        /\ rw.proposal = row.proposal /\ rw.readBackTurn = row.readBackTurn
        /\ rw.noInput = row.noInput
    BY T2Finds DEF Rows, States
  <2>4. /\ lg \in Ledgers /\ lg.state = "VOICEMAIL" /\ lg.unlocked = row.unlocked
        /\ lg.noInput = row.noInput /\ lg.proposal = row.proposal
    BY <2>2, T2Finds DEF Moved, Ledgers, States
  <2>. HIDE DEF rw, lg
  <2>. QED
    BY <2>1, <2>3, <2>4, SignalEndsKeeps
<1>3. CASE AmdHuman
  <2>1. /\ CallOpen /\ crm' = [crm EXCEPT !.attempt = "ANSWERED"]
        /\ UNCHANGED <<call, row, turn, ledger, order, lines, superseded, replies, readBack,
                       lastRead, playout, proc, run>>
    BY <1>3 DEF AmdHuman, history, speech
  <2>2. /\ crm' \in Books /\ crm'.jobs = crm.jobs /\ crm'.pending = crm.pending
    BY <2>1, T2Finds DEF Books
  <2>3. TypeOK'
    BY <2>1, <2>2 DEF Inv, TypeOK
  <2>4. BooksMatchOutcome' /\ NothingPendingYet'
    BY <2>1, <2>2, NoneAssumption
       DEF Inv, CallOpen, BooksMatchOutcome, NothingPendingYet, Outcomes
  <2>5. RowMatchesLedger' /\ ProtectedStatesUnlocked' /\ RestsOpenOrEnded'
    BY <2>1 DEF Inv, RowMatchesLedger, ProtectedStatesUnlocked, RestsOpenOrEnded
  <2>6. StrikesLeft' /\ OnlyScriptedVerifies' /\ UnlockedForGood' /\ SettledReleased'
        /\ AskedWhileOpen' /\ ReadBackIsLast'
    BY <2>1 DEF Inv, StrikesLeft, OnlyScriptedVerifies, UnlockedForGood, SettledReleased,
                AskedWhileOpen, ReadBackIsLast
  <2>. QED
    BY <2>3, <2>4, <2>5, <2>6 DEF Inv
<1>4. CASE NoAnswer
  BY <1>4, T2Finds, SignalEndsKeeps DEF NoAnswer
<1>5. CASE \E swept \in BOOLEAN : Hangup(swept)
  <2>1. PICK o \in {"FAILED", "NO_ANSWER"} : SignalEnds(row, ledger, o)
    BY <1>5 DEF Hangup
  <2>2. CallOpen
    BY <1>5 DEF Hangup
  <2>. QED
    BY <2>1, <2>2, T2Finds, SignalEndsKeeps
<1>6. CASE \E u \in Turns, how \in {"heard", "cut"} : Playout(u, how)
  <2>1. /\ UNCHANGED <<call, row, turn, ledger, history, speech, crm, proc, run>>
        /\ \E u \in Turns, how \in {"heard", "cut"} : playout' = [playout EXCEPT ![u] = @ \cup {how}]
    BY <1>6 DEF Playout, PlayoutReport
  <2>2. playout' \in [Turns -> SUBSET {"heard", "cut"}]
    BY <2>1 DEF Inv, TypeOK
  <2>3. TypeOK'
    BY <2>1, <2>2 DEF Inv, TypeOK, history, speech
  <2>. QED
    BY <2>1, <2>3, QuietKeeps
<1>7. CASE \E t \in Turns : TurnMetrics(t)
  <2>1. /\ UNCHANGED <<call, row, ledger, history, speech, playout, crm, proc, run>>
        /\ \E t \in Turns : turn' = [turn EXCEPT ![t].disp = "none"]
    BY <1>7 DEF TurnMetrics
  <2>2. turn' \in [Turns -> TurnRows]
    <3>1. turn \in [Turns -> TurnRows]
      BY DEF Inv, TypeOK
    <3>2. PICK t \in Turns : turn' = [turn EXCEPT ![t].disp = "none"]
      BY <2>1
    <3>3. [turn[t] EXCEPT !.disp = "none"] \in TurnRows
      BY <3>1 DEF TurnRows
    <3>. QED
      BY <3>1, <3>2, <3>3
  <2>3. TypeOK'
    BY <2>1, <2>2 DEF Inv, TypeOK, history, speech
  <2>. QED
    BY <2>1, <2>3, QuietKeeps
<1>. QED
  BY <1>1, <1>2, <1>3, <1>4, <1>5, <1>6, <1>7 DEF Signal

(* A server process boots, is shut down, gives back what its runs hold,     *)
(* exits or is killed; a run fails on the database.                        *)
LEMMA ProcessKeeps ==
    ASSUME Inv, NEW p \in Procs,
           Process(p) \/ \E t \in Turns : RunFails(t, p) \/ ReleaseStranded(t, p)
    PROVE  Inv'
<1>1. CASE Process(p)
  <2>1. /\ UNCHANGED <<call, row, turn, ledger, history, speech, playout, crm>>
        /\ proc' \in [Procs -> {"next", "up", "stopping", "down"}]
    BY <1>1 DEF Process, Boot, Shutdown, Exit, Kill, Inv, TypeOK
  <2>2. /\ run' \in RunRows
        /\ \A r \in Runs : run'[r].seen = run[r].seen
    <3>1. run \in RunRows
      BY DEF Inv, TypeOK, RunRows
    <3>2. CASE run' = run
      BY <3>1, <3>2
    <3>3. CASE run' = Interrupted(p)
      BY <3>1, <3>3 DEF Interrupted, RunRows, Steps
    <3>4. CASE run' = Dropped(p)
      BY <3>1, <3>4 DEF Dropped, RunRows, Steps
    <3>. QED
      BY <1>1, <3>2, <3>3, <3>4 DEF Process, Boot, Shutdown, Exit, Kill
  <2>3. TypeOK'
    BY <2>1, <2>2 DEF Inv, TypeOK, RunRows, history, speech
  <2>. QED
    BY <2>1, <2>2, <2>3, QuietKeeps
<1>2. ASSUME NEW t \in Turns, RunFails(t, p) \/ ReleaseStranded(t, p)
      PROVE  Inv'
  <2>1. Goto(t, p, "idle") /\ UNCHANGED <<call, turn, ledger, history, speech, playout, crm, proc>>
    BY <1>2 DEF RunFails, ReleaseStranded
  <2>2. run' \in RunRows /\ \A r \in Runs : run'[r].seen = run[r].seen
    BY <2>1, GotoFacts DEF Inv, TypeOK, RunRows, Steps
  <2>3. CASE RunFails(t, p)
    <3>1. row' = row
      BY <2>3 DEF RunFails
    <3>2. TypeOK'
      BY <2>1, <2>2, <3>1 DEF Inv, TypeOK, RunRows, history, speech
    <3>. QED
      BY <2>1, <2>2, <3>1, <3>2, QuietKeeps
  <2>4. CASE ReleaseStranded(t, p)
    <3>1. row' = releaseTurn(row, t) /\ row' \in Rows
      BY <2>4, ReleaseFacts DEF ReleaseStranded, Inv, TypeOK
    <3>2. TypeOK'
      BY <2>1, <2>2, <3>1 DEF Inv, TypeOK, RunRows, history, speech
    <3>. QED
      BY <2>1, <2>2, <3>1, <3>2, ReleaseKeeps
  <2>. QED
    BY <1>2, <2>3, <2>4
<1>. QED
  BY <1>1, <1>2

-----------------------------------------------------------------------------
(* The inductive invariant.                                                *)

(* A conversation row as startCall inserts it satisfies the invariant.      *)
LEMMA InitKeeps == Init => Inv
<1>. SUFFICES ASSUME Init PROVE Inv
  OBVIOUS
<1>1. row \in Rows
  BY DEF Init, Rows, States, NO_INPUT_STRIKES
<1>2. ledger \in Ledgers
  BY DEF Init, Ledgers, States, NO_INPUT_STRIKES
<1>3. crm \in Books
  BY DEF Init, Books
<1>4. turn \in [Turns -> TurnRows]
  BY DEF Init, TurnRows, Texts
<1>5. run \in [Runs -> [pc : Steps, seen : States]]
  BY DEF Init, Steps, States
<1>6. TypeOK
  BY <1>1, <1>2, <1>3, <1>4, <1>5 DEF Init, TypeOK
<1>7. RowMatchesLedger /\ ProtectedStatesUnlocked /\ RestsOpenOrEnded
  BY DEF Init, RowMatchesLedger, ProtectedStatesUnlocked, RestsOpenOrEnded,
         PROTECTED_CONTEXT_STATES, OpenStates
<1>8. BooksMatchOutcome /\ NothingPendingYet
  BY NoneAssumption DEF Init, BooksMatchOutcome, NothingPendingYet, Outcomes
<1>9. StrikesLeft /\ OnlyScriptedVerifies /\ UnlockedForGood /\ SettledReleased /\ ReadBackIsLast
  BY NoneAssumption DEF Init, StrikesLeft, OnlyScriptedVerifies, UnlockedForGood, SettledReleased,
                        ReadBackIsLast, SettledByTurn, Outcomes, NO_INPUT_STRIKES
<1>10. AskedWhileOpen
  BY DEF Init, AskedWhileOpen, OpenStates, PROTECTED_CONTEXT_STATES
<1>. QED
  BY <1>6, <1>7, <1>8, <1>9, <1>10 DEF Inv

(* Every step keeps it: one case for each action.                           *)
LEMMA NextKeeps == Inv /\ [Next]_vars => Inv'
<1>. SUFFICES ASSUME Inv, [Next]_vars PROVE Inv'
  OBVIOUS
<1>1. ASSUME NEW t \in Turns, NEW p \in Procs, RunStep(t, p)
      PROVE  Inv'
  <2>1. CASE T1Answered(t, p) \/ T1Attach(t, p) \/ AttachTimeout(t, p) \/ T1Claim(t, p)
    BY <2>1, T1Keeps
  <2>2. CASE ReadDisposition(t, p) \/ FinishWait(t, p) \/ ReleaseWait(t, p)
    BY <2>2, HoldKeeps
  <2>3. CASE T2(t, p)
    BY <2>3, T2Keeps
  <2>4. CASE RunFails(t, p) \/ ReleaseStranded(t, p)
    BY <2>4, ProcessKeeps
  <2>. QED
    BY <1>1, <2>1, <2>2, <2>3, <2>4 DEF RunStep
<1>2. CASE Signal
  BY <1>2, SignalKeeps
<1>3. ASSUME NEW p \in Procs, Process(p)
      PROVE  Inv'
  BY <1>3, ProcessKeeps
<1>4. CASE UNCHANGED vars
  <2>1. UNCHANGED <<call, row, turn, ledger, order, lines, superseded, replies, readBack,
                    lastRead, playout, crm, proc, run>>
    BY <1>4 DEF vars, history, speech
  <2>2. TypeOK'
    BY <2>1 DEF Inv, TypeOK
  <2>. QED
    BY <2>1, <2>2, QuietKeeps DEF speech
<1>. QED
  BY <1>1, <1>2, <1>3, <1>4 DEF Next

(* The invariant holds in every reachable state.                            *)
THEOREM Invariance == Spec => []Inv
BY InitKeeps, NextKeeps, PTL DEF Spec

(* Every column keeps its type, the strike counter its bound: a nudge after *)
(* the last strike would need a call that is still open.                    *)
THEOREM TypeCorrect == Spec => []TypeOK
<1>1. Inv => TypeOK
  BY DEF Inv
<1>. QED
  BY <1>1, Invariance, PTL

(* Replaying the event log gives the row, for any number of turns, servers  *)
(* and crashes: the two hand-written copies of the call never drift apart.  *)
THEOREM LedgerIsTruth == Spec => []RowMatchesLedger
<1>1. Inv => RowMatchesLedger
  BY DEF Inv
<1>. QED
  BY <1>1, Invariance, PTL

(* The account is only ever open after the right party confirmed.           *)
THEOREM NoDisclosure == Spec => []ProtectedStatesUnlocked
<1>1. Inv => ProtectedStatesUnlocked
  BY DEF Inv
<1>. QED
  BY <1>1, Invariance, PTL

(* Between transactions a call is open or it is over with its outcome.      *)
THEOREM NeverHalfClosed == Spec => []RestsOpenOrEnded
<1>1. Inv => RestsOpenOrEnded
  BY DEF Inv
<1>. QED
  BY <1>1, Invariance, PTL

(* Attempt, workflow, jobs and scheduled actions agree with the outcome,    *)
(* also after a second finalize.                                           *)
THEOREM BooksAgree == Spec => []BooksMatchOutcome
<1>1. Inv => BooksMatchOutcome
  BY DEF Inv
<1>. QED
  BY <1>1, Invariance, PTL

-----------------------------------------------------------------------------
(* What a step may never do.                                               *)

(* Past its check of the claim, T2 runs for the turn that holds it.         *)
LEMMA T2Owns ==
    ASSUME NEW t \in Turns, NEW p \in Procs, T2(t, p), ~T2Lost(t, p)
    PROVE  Owner(t, p) /\ row.active = t
<1>1. Owner(t, p)
  <2>1. CASE \/ T2OverrideOptOut(t, p) \/ T2OverrideWrongNumber(t, p) \/ T2OverrideTransfer(t, p)
             \/ T2Degraded(t, p) \/ T2DuplicateTool(t, p) \/ T2Stay(t, p)
    BY <2>1 DEF T2OverrideOptOut, T2OverrideWrongNumber, T2OverrideTransfer, T2Degraded,
                T2DuplicateTool, T2Stay, Asked, Suggests
  <2>2. CASE \/ T2ReadOnlyTool(t, p) \/ T2ConfirmRightParty(t, p) \/ T2ThirdParty(t, p)
             \/ T2WrongNumberTool(t, p) \/ \E tool \in TOOL_NAMES : T2RejectTool(t, p, tool)
    BY <2>2 DEF T2ReadOnlyTool, T2ConfirmRightParty, T2ThirdParty, T2WrongNumberTool,
                T2RejectTool, Asked, Calling, Executes
  <2>3. CASE \/ T2Propose(t, p) \/ T2RecordPromise(t, p) \/ T2RefusePromise(t, p)
             \/ T2ScheduleCallback(t, p)
    BY <2>3 DEF T2Propose, T2RecordPromise, T2RefusePromise, T2ScheduleCallback,
                Asked, Calling, Executes
  <2>4. CASE \/ \E next \in States : T2InvalidTransition(t, p, next) \/ T2Move(t, p, next)
             \/ T2WarmTransfer(t, p) \/ T2Goodbye(t, p)
    BY <2>4 DEF T2InvalidTransition, T2Move, T2WarmTransfer, T2Goodbye, Moves, Asked, Suggests
  <2>. QED
    BY <2>1, <2>2, <2>3, <2>4 DEF T2
<1>. QED
  BY <1>1 DEF Owner

(* Nothing ever replaces the outcome of a committed turn: its claim was     *)
(* given back with the commit, no turn can claim a call that is over, and   *)
(* every signal that ends a call asks first whether it is still open.       *)
THEOREM SettledForGood == Spec => TurnOutcomeFinal
<1>1. ASSUME Inv, [Next]_vars, row.outcome \in SettledByTurn
      PROVE  row'.outcome = row.outcome
  <2>1. row.outcome # None /\ row.active = None /\ None \notin Turns
    BY <1>1, NoneAssumption DEF Inv, SettledReleased, SettledByTurn, Outcomes
  <2>2. row \in Rows
    BY <1>1 DEF Inv, TypeOK
  <2>3. ASSUME NEW t \in Turns, NEW p \in Procs, RunStep(t, p)
        PROVE  row'.outcome = row.outcome
    <3>1. CASE T1Answered(t, p) \/ T1Attach(t, p) \/ AttachTimeout(t, p)
      BY <3>1 DEF T1Answered, T1Attach, AttachTimeout
    <3>2. CASE T1Claim(t, p)
      BY <2>1, <3>2 DEF T1Claim, Over
    <3>3. CASE ReadDisposition(t, p) \/ FinishWait(t, p) \/ RunFails(t, p)
      BY <3>3 DEF ReadDisposition, FinishWait, RunFails
    <3>4. CASE ReleaseWait(t, p) \/ ReleaseStranded(t, p)
      BY <2>2, <3>4, ReleaseFacts DEF ReleaseWait, ReleaseStranded
    <3>5. CASE T2(t, p)
      BY <2>1, <3>5, T2Owns DEF T2Lost
    <3>. QED
      BY <2>3, <3>1, <3>2, <3>3, <3>4, <3>5 DEF RunStep
  <2>4. CASE Signal
    <3>1. ~CallOpen
      BY <2>1 DEF CallOpen
    <3>. QED
      BY <2>4, <3>1 DEF Signal, NoInput, AmdMachine, AmdHuman, NoAnswer, Hangup, Playout, TurnMetrics
  <2>5. ASSUME NEW p \in Procs, Process(p)
        PROVE  row' = row
    BY <2>5 DEF Process, Boot, Shutdown, Exit, Kill
  <2>6. CASE UNCHANGED vars
    BY <2>6 DEF vars
  <2>. QED
    BY <1>1, <2>3, <2>4, <2>5, <2>6 DEF Next
<1>. QED
  BY <1>1, Invariance, PTL DEF Spec, TurnOutcomeFinal

(* Every way to end a call but one leaves the recorded promise as it was.   *)
LEMMA OnlyOneRecords ==
    ASSUME Inv, NEW t \in Turns, NEW p \in Procs, T2(t, p), ~T2RecordPromise(t, p)
    PROVE  crm'.promised = crm.promised
<1>1. ASSUME NEW rw, NEW lg, NEW books \in Books, NEW o \in Outcomes,
             EndCall(t, p, rw, lg, books, o), books.promised = crm.promised
      PROVE  crm'.promised = crm.promised
  BY <1>1, FinalBooksFacts DEF EndCall
<1>2. crm \in Books
  BY DEF Inv, TypeOK
<1>3. /\ OptedOut(crm) \in Books /\ OptedOut(crm).promised = crm.promised
      /\ NumberInvalid(crm) \in Books /\ NumberInvalid(crm).promised = crm.promised
      /\ HumanFollowup(crm) \in Books /\ HumanFollowup(crm).promised = crm.promised
  BY <1>2 DEF OptedOut, NumberInvalid, HumanFollowup, Books
<1>4. CASE T2OverrideOptOut(t, p) \/ T2OverrideWrongNumber(t, p) \/ T2WrongNumberTool(t, p)
  BY <1>1, <1>3, <1>4 DEF T2OverrideOptOut, T2OverrideWrongNumber, T2WrongNumberTool, Outcomes
<1>5. CASE T2OverrideTransfer(t, p) \/ T2WarmTransfer(t, p)
  BY <1>1, <1>3, <1>5 DEF T2OverrideTransfer, T2WarmTransfer, Outcomes
<1>6. CASE T2ThirdParty(t, p) \/ T2Goodbye(t, p)
  BY <1>1, <1>2, <1>6 DEF T2ThirdParty, T2Goodbye, Outcomes
<1>7. CASE T2ScheduleCallback(t, p)
  <2> DEFINE books == [crm EXCEPT !.pending = (@ \ {"RETRY_CALL"}) \cup {"CALLBACK"}]
  <2>1. books \in Books /\ books.promised = crm.promised
    BY <1>2 DEF Books
  <2>2. EndCall(t, p, row, ToolCalled(ledger, t), books, "CALLBACK_SCHEDULED")
    BY <1>7 DEF T2ScheduleCallback
  <2>. HIDE DEF books
  <2>. QED
    BY <1>1, <2>1, <2>2 DEF Outcomes
<1>8. CASE \/ T2Lost(t, p) \/ T2Degraded(t, p) \/ T2DuplicateTool(t, p) \/ T2Stay(t, p)
           \/ \E tool \in TOOL_NAMES : T2RejectTool(t, p, tool)
           \/ T2ReadOnlyTool(t, p) \/ T2ConfirmRightParty(t, p)
           \/ T2Propose(t, p) \/ T2RefusePromise(t, p)
           \/ \E next \in States : T2InvalidTransition(t, p, next) \/ T2Move(t, p, next)
  <2>1. crm' = crm
    BY <1>8 DEF T2Lost, T2Degraded, T2DuplicateTool, T2Stay, T2RejectTool, T2ReadOnlyTool,
                T2ConfirmRightParty, T2Propose, T2RefusePromise, T2InvalidTransition, T2Move, Reply
  <2>. QED
    BY <2>1
<1>. QED
  BY <1>4, <1>5, <1>6, <1>7, <1>8 DEF T2

(* A promise is recorded only for the amount last read to the borrower, and *)
(* on a voice call only if that reading was reported heard and never cut.   *)
THEOREM PromisesAreHeard == Spec => PromiseWasHeard
<1>1. ASSUME Inv, [Next]_vars, crm'.promised # crm.promised
      PROVE  /\ lastRead # None
             /\ crm'.promised = readBack[lastRead]
             /\ "cut" \notin playout[lastRead]
             /\ call.channel = "voice" => "heard" \in playout[lastRead]
  <2>0. crm \in Books
    BY <1>1 DEF Inv, TypeOK
  <2>1. PICK t \in Turns, p \in Procs : T2(t, p)
    <3>1. ASSUME NEW t \in Turns, NEW p \in Procs, RunStep(t, p)
          PROVE  T2(t, p)
      BY <1>1, <3>1 DEF RunStep, T1Answered, T1Attach, AttachTimeout, T1Claim, ReadDisposition,
                        FinishWait, ReleaseWait, RunFails, ReleaseStranded
    <3>2. ~Signal
      <4>1. ASSUME NEW rw, NEW lg, NEW o \in Outcomes, SignalEnds(rw, lg, o)
            PROVE  FALSE
        BY <1>1, <2>0, <4>1, FinalBooksFacts DEF SignalEnds
      <4>2. ~NoInput /\ ~AmdMachine /\ ~NoAnswer /\ ~\E swept \in BOOLEAN : Hangup(swept)
        BY <1>1, <4>1 DEF NoInput, AmdMachine, NoAnswer, Hangup, Outcomes
      <4>3. ~AmdHuman
        BY <1>1, <2>0 DEF AmdHuman, Books
      <4>. QED
        BY <1>1, <4>2, <4>3 DEF Signal, Playout, TurnMetrics
    <3>3. ~\E p \in Procs : Process(p)
      BY <1>1 DEF Process, Boot, Shutdown, Exit, Kill
    <3>4. ~UNCHANGED vars
      BY <1>1 DEF vars
    <3>. QED
      BY <1>1, <3>1, <3>2, <3>3, <3>4 DEF Next
  <2>2. T2RecordPromise(t, p)
    BY <1>1, <2>1, OnlyOneRecords
  <2>3. lastRead # None /\ row.readBackTurn = lastRead /\ readBack[lastRead] = row.proposal
    BY <1>1, <2>2 DEF T2RecordPromise, Inv, ReadBackIsLast
  <2>4. "cut" \notin playout[lastRead] /\ (call.channel = "voice" => "heard" \in playout[lastRead])
    <3>1. readBackVerdict = "heard"
      BY <2>2 DEF T2RecordPromise
    <3>2. "cut" \notin playout[row.readBackTurn]
      BY <3>1 DEF readBackVerdict
    <3>3. "heard" \in playout[row.readBackTurn] \/ call.channel # "voice"
      BY <3>1, <3>2 DEF readBackVerdict
    <3>. QED
      BY <2>3, <3>2, <3>3
  <2>5. crm'.promised = row.proposal
    <3> DEFINE books == [crm EXCEPT !.promised = row.proposal]
    <3>1. row \in Rows /\ books \in Books /\ books.promised = row.proposal
      BY <1>1, <2>0 DEF Books, Rows, Inv, TypeOK
    <3>2. crm' = FinalBooks(books, "PROMISE_TO_PAY")
      BY <2>2 DEF T2RecordPromise, EndCall
    <3>. HIDE DEF books
    <3>. QED
      BY <3>1, <3>2, FinalBooksFacts DEF Outcomes
  <2>. QED
    BY <2>3, <2>4, <2>5
<1>. QED
  BY <1>1, Invariance, PTL DEF Spec, PromiseWasHeard

-----------------------------------------------------------------------------
(* One server process at a time.                                           *)

Live(p) == proc[p] \in {"up", "stopping"}
InHand(t, p) == run[<<t, p>>].pc \in {"claimed", "waiting", "deciding"}
OneServer == \A p, q \in Procs : Live(p) /\ Live(q) => p = q
RunsAreServed ==
    \A t \in Turns, p \in Procs : run[<<t, p>>].pc \notin {"idle", "stranded"} => proc[p] = "up"
HeldOrSuperseded ==
    \A t \in Turns, p \in Procs : InHand(t, p) => row.active = t \/ t \in superseded
HolderUnanswered ==
    \A t \in Turns : row.active = t =>
        turn[t].status # "ABSENT" /\ replies[t] = 0 /\ t \notin superseded
SupersededSettled == \A t \in superseded : Settled(t)
AskedInState ==
    \A t \in Turns, p \in Procs :
        run[<<t, p>>].pc \in {"claimed", "deciding"} /\ row.active = t
            => row.state \in {run[<<t, p>>].seen, "COMPLETED"}

(* What keeps the turns apart when server processes do not overlap: a run   *)
(* that has claimed its turn holds it or the ledger calls it superseded.    *)
TurnInv ==
    /\ OneServer /\ RunsAreServed /\ HeldOrSuperseded /\ HolderUnanswered
    /\ SupersededSettled /\ AskedInState /\ OneTruthPerTurn

LEMMA TurnInitKeeps == Init => TurnInv
<1>. SUFFICES ASSUME Init PROVE TurnInv
  OBVIOUS
<1>1. \A t \in Turns, p \in Procs : <<t, p>> \in Runs /\ run[<<t, p>>].pc = "idle"
  BY DEF Init, Runs
<1>2. None \notin Turns
  BY NoneAssumption
<1>3. OneServer /\ RunsAreServed
  BY <1>1 DEF Init, OneServer, RunsAreServed, Live
<1>4. HeldOrSuperseded /\ AskedInState
  BY <1>1 DEF HeldOrSuperseded, InHand, AskedInState
<1>5. HolderUnanswered /\ SupersededSettled /\ OneTruthPerTurn
  BY <1>2 DEF Init, HolderUnanswered, SupersededSettled, OneTruthPerTurn
<1>. QED
  BY <1>3, <1>4, <1>5 DEF TurnInv

(* Past its check of the claim, T2 answers the turn and gives the claim back. *)
Answers(t, p) ==
    /\ AtT2(t, p) /\ row.active = t /\ row'.active = None
    /\ turn' = finishTurn(turn, t, "DONE", "respond")
    /\ replies' = [replies EXCEPT ![t] = @ + 1]
    /\ Goto(t, p, "idle") /\ UNCHANGED <<history, proc>>

LEMMA CommitAnswers ==
    ASSUME Inv, NEW t \in Turns, NEW p \in Procs, NEW rw \in Rows, NEW lg, NEW read,
           Commit(t, p, rw, lg, read), Owner(t, p), rw.active = row.active
    PROVE  Answers(t, p)
<1>1. releaseTurn(rw, t).active = None
  BY ReleaseFacts DEF Owner
<1>. QED
  BY <1>1 DEF Commit, Answers, Owner

LEMMA T2Answers ==
    ASSUME Inv, NEW t \in Turns, NEW p \in Procs, T2(t, p), ~T2Lost(t, p)
    PROVE  Answers(t, p)
<1>1. row \in Rows /\ Owner(t, p)
  BY T2Owns, T2Finds
<1>2. ASSUME NEW to \in States
      PROVE  [row EXCEPT !.state = to] \in Rows /\ [row EXCEPT !.state = to].active = row.active
  BY <1>1 DEF Rows
<1>3. ASSUME NEW rw \in Rows, NEW lg, NEW read, rw.active = row.active, Commit(t, p, rw, lg, read)
      PROVE  Answers(t, p)
  BY <1>1, <1>3, CommitAnswers
<1>4. ASSUME NEW rw \in Rows, NEW lg, NEW books, NEW o \in Outcomes, rw.active = row.active,
             EndCall(t, p, rw, lg, books, o)
      PROVE  Answers(t, p)
  <2>1. FinalRow(rw, o) \in Rows /\ FinalRow(rw, o).active = row.active
    BY <1>4, FinalRowFacts
  <2>. QED
    BY <1>3, <1>4, <2>1 DEF EndCall
<1>5. CASE T2OverrideOptOut(t, p) \/ T2OverrideWrongNumber(t, p) \/ T2OverrideTransfer(t, p)
  <2>1. ASSUME NEW to \in States
        PROVE  OverrideRow(to) \in Rows /\ OverrideRow(to).active = row.active
    BY <1>1, <1>2 DEF OverrideRow
  <2>. QED
    BY <1>4, <1>5, <2>1 DEF T2OverrideOptOut, T2OverrideWrongNumber, T2OverrideTransfer, States, Outcomes
<1>6. CASE \/ T2Degraded(t, p) \/ T2DuplicateTool(t, p) \/ T2Stay(t, p) \/ T2ReadOnlyTool(t, p)
           \/ \E tool \in TOOL_NAMES : T2RejectTool(t, p, tool)
           \/ \E next \in States : T2InvalidTransition(t, p, next)
  BY <1>1, <1>3, <1>6 DEF T2Degraded, T2DuplicateTool, T2Stay, T2RejectTool, T2InvalidTransition,
                         T2ReadOnlyTool, Reply
<1>7. CASE T2ConfirmRightParty(t, p)
  <2>1. [row EXCEPT !.state = "DISCUSSING_PAYMENT", !.unlocked = TRUE] \in Rows
        /\ [row EXCEPT !.state = "DISCUSSING_PAYMENT", !.unlocked = TRUE].active = row.active
    BY <1>1 DEF Rows, States
  <2>. QED
    BY <1>3, <1>7, <2>1 DEF T2ConfirmRightParty, Reply
<1>8. CASE T2ThirdParty(t, p) \/ T2WrongNumberTool(t, p)
  BY <1>2, <1>4, <1>8 DEF T2ThirdParty, T2WrongNumberTool, States, Outcomes
<1>9. CASE T2Propose(t, p)
  <2>1. PICK a \in Amounts :
          Commit(t, p, [row EXCEPT !.state = "CONFIRMING_OUTCOME", !.proposal = a, !.readBackTurn = t],
                 Proposed(ToolCalled(Moved(ledger, row.state, "CONFIRMING_OUTCOME", "PROPOSAL"), t), a), a)
    BY <1>9 DEF T2Propose
  <2>2. [row EXCEPT !.state = "CONFIRMING_OUTCOME", !.proposal = a, !.readBackTurn = t] \in Rows
        /\ [row EXCEPT !.state = "CONFIRMING_OUTCOME", !.proposal = a, !.readBackTurn = t].active = row.active
    BY <1>1 DEF Rows, States
  <2>. QED
    BY <1>3, <2>1, <2>2
<1>10. CASE T2RecordPromise(t, p)
  <2>1. [row EXCEPT !.proposal = None, !.readBackTurn = None] \in Rows
        /\ [row EXCEPT !.proposal = None, !.readBackTurn = None].active = row.active
    BY <1>1 DEF Rows
  <2>. QED
    BY <1>4, <1>10, <2>1 DEF T2RecordPromise, Outcomes
<1>11. CASE T2RefusePromise(t, p)
  <2>1. [row EXCEPT !.readBackTurn = t] \in Rows /\ [row EXCEPT !.readBackTurn = t].active = row.active
    BY <1>1 DEF Rows
  <2>. QED
    BY <1>2, <1>3, <1>11, <2>1 DEF T2RefusePromise, States
<1>12. CASE T2ScheduleCallback(t, p)
  BY <1>1, <1>4, <1>12 DEF T2ScheduleCallback, Outcomes
<1>13. CASE T2WarmTransfer(t, p) \/ T2Goodbye(t, p)
  BY <1>2, <1>4, <1>13 DEF T2WarmTransfer, T2Goodbye, States, Outcomes
<1>14. ASSUME NEW next \in States, T2Move(t, p, next)
       PROVE  Answers(t, p)
  <2>1. [row EXCEPT !.state = next, !.proposal = None, !.readBackTurn = None] \in Rows
        /\ [row EXCEPT !.state = next, !.proposal = None, !.readBackTurn = None].active = row.active
    BY <1>1 DEF Rows
  <2>2. CASE row.state = "CONFIRMING_OUTCOME" /\ next = "DISCUSSING_PAYMENT"
    BY <1>3, <1>14, <2>1, <2>2 DEF T2Move, Reply
  <2>3. CASE ~(row.state = "CONFIRMING_OUTCOME" /\ next = "DISCUSSING_PAYMENT")
    BY <1>2, <1>3, <1>14, <2>3 DEF T2Move, Reply
  <2>. QED
    BY <2>2, <2>3
<1>. QED
  BY <1>5, <1>6, <1>7, <1>8, <1>9, <1>10, <1>11, <1>12, <1>13, <1>14 DEF T2

-----------------------------------------------------------------------------
(* Each step keeps what a run relies on.                                    *)

LEMMA RunMoves ==
    ASSUME Inv, NEW t \in Turns, NEW p \in Procs, NEW step, Goto(t, p, step)
    PROVE  /\ run'[<<t, p>>].pc = step /\ run'[<<t, p>>].seen = run[<<t, p>>].seen
           /\ \A u \in Turns, q \in Procs : <<u, q>> # <<t, p>> => run'[<<u, q>>] = run[<<u, q>>]
BY DEF Inv, TypeOK, Goto, Runs

(* A run that steps back, aside or out of the way, and the claim it may give *)
(* back: nobody but itself was served.                                      *)
LEMMA AsideKeeps ==
    ASSUME Inv, TurnInv, NEW t \in Turns, NEW p \in Procs,
           NEW step \in {"idle", "attached"}, Goto(t, p, step),
           step = "attached" => proc[p] = "up",
           UNCHANGED <<turn, superseded, replies, proc>>,
           \/ row' = row
           \/ row' = releaseTurn(row, t) /\ Live(p) /\ ~InHand(t, p)
    PROVE  TurnInv'
<1>. USE DEF TurnInv
<1>1. /\ run'[<<t, p>>].pc = step /\ ~InHand(t, p)'
      /\ \A u \in Turns, q \in Procs : <<u, q>> # <<t, p>> => run'[<<u, q>>] = run[<<u, q>>]
  BY RunMoves DEF InHand
<1>2. /\ row'.state = row.state /\ row'.active \in {row.active, None}
      /\ row'.active # row.active => row.active = t /\ Live(p)
  BY ReleaseFacts DEF Inv, TypeOK, Rows
<1>3. None \notin Turns
  BY NoneAssumption
<1>4. OneServer' /\ RunsAreServed'
  BY <1>1 DEF OneServer, RunsAreServed, Live
<1>5. ASSUME NEW u \in Turns, NEW q \in Procs, InHand(u, q)'
      PROVE  row'.active = u \/ u \in superseded'
  <2>1. <<u, q>> # <<t, p>> /\ InHand(u, q)
    BY <1>1, <1>5 DEF InHand
  <2>2. CASE row'.active = row.active
    BY <2>1, <2>2 DEF HeldOrSuperseded
  <2>3. CASE row'.active # row.active
    <3>1. row.active = t /\ Live(p) /\ Live(q)
      BY <1>2, <2>1, <2>3 DEF RunsAreServed, InHand, Live
    <3>2. p = q
      BY <3>1 DEF OneServer
    <3>. QED
      BY <2>1, <3>1, <3>2 DEF HeldOrSuperseded
  <2>. QED
    BY <2>2, <2>3
<1>6. HeldOrSuperseded'
  BY <1>5 DEF HeldOrSuperseded
<1>7. HolderUnanswered' /\ SupersededSettled'
  BY <1>2, <1>3 DEF HolderUnanswered, SupersededSettled, Settled
<1>8. AskedInState'
  BY <1>1, <1>2, <1>3 DEF AskedInState
<1>9. OneTruthPerTurn'
  BY DEF OneTruthPerTurn
<1>. QED
  BY <1>4, <1>6, <1>7, <1>8, <1>9

(* T1 claims: nobody else serves the call, and the turn was not over.       *)
LEMMA ClaimKeeps ==
    ASSUME Inv, TurnInv, NEW t \in Turns, NEW p \in Procs, T1Claim(t, p)
    PROVE  TurnInv'
<1>. USE DEF TurnInv
<1>1. /\ proc[p] = "up" /\ run[<<t, p>>].pc \in {"idle", "attached"}
      /\ ~Settled(t) /\ ~SameTurnRunning(t) /\ proc' = proc /\ replies' = replies
      /\ row.state = row'.state /\ row'.active = t
      /\ superseded' = IF row.active = None THEN superseded ELSE superseded \cup {row.active}
  BY DEF T1Claim, AtT1, speech, Inv, TypeOK, Rows
<1>2. PICK text \in Says :
        /\ turn' = ClaimedTable(t, text)
        /\ run' = [run EXCEPT ![<<t, p>>] =
                     [pc |-> IF text = "hold" THEN "claimed" ELSE "deciding", seen |-> row.state]]
  BY DEF T1Claim
<1>3. /\ run'[<<t, p>>].pc \in {"claimed", "deciding"} /\ run'[<<t, p>>].seen = row.state
      /\ \A u \in Turns, q \in Procs : <<u, q>> # <<t, p>> => run'[<<u, q>>] = run[<<u, q>>]
  BY <1>2 DEF Inv, TypeOK, Runs
<1>4. turn[t].status \in {"ABSENT", "RUNNING"} /\ t \notin superseded /\ replies[t] = 0
  <2>1. turn[t].status \in {"ABSENT", "RUNNING"}
    BY <1>1 DEF Settled, Inv, TypeOK, TurnRows
  <2>. QED
    BY <1>1, <2>1 DEF SupersededSettled, OneTruthPerTurn
<1>5. row.active # t
  BY <1>1, <1>4 DEF SameTurnRunning, HolderUnanswered
<1>6. row.active \in Turns \cup {None} /\ None \notin Turns
  BY NoneAssumption DEF Inv, TypeOK, Rows
<1>7. /\ turn'[t].status = "RUNNING"
      /\ \A u \in Turns \ {t} : u # row.active => turn'[u] = turn[u]
      /\ row.active # None => turn'[row.active].status = "SUPERSEDED"
  BY <1>2, <1>4, <1>5, <1>6 DEF ClaimedTable, finishTurn, Inv, TypeOK, TurnRows
<1>8. OneServer' /\ RunsAreServed'
  BY <1>1, <1>3 DEF OneServer, RunsAreServed, Live
<1>9. HeldOrSuperseded'
  <2>1. ASSUME NEW u \in Turns, NEW q \in Procs, InHand(u, q)', <<u, q>> # <<t, p>>
        PROVE  u \in superseded' \/ u = t
    <3>1. row.active = u \/ u \in superseded
      BY <1>3, <2>1 DEF HeldOrSuperseded, InHand
    <3>. QED
      BY <1>1, <1>6, <3>1
  <2>. QED
    BY <1>1, <2>1 DEF HeldOrSuperseded
<1>10. HolderUnanswered'
  BY <1>1, <1>4, <1>5, <1>7 DEF HolderUnanswered
<1>11. SupersededSettled'
  <2>1. ASSUME NEW u \in superseded'
        PROVE  turn'[u].status \in {"DONE", "SUPERSEDED"}
    <3>1. CASE u = row.active
      BY <1>1, <1>6, <1>7, <2>1, <3>1 DEF Inv, TypeOK
    <3>2. CASE u # row.active
      BY <1>1, <1>4, <1>7, <2>1, <3>2 DEF SupersededSettled, Settled, Inv, TypeOK
    <3>. QED
      BY <3>1, <3>2
  <2>. QED
    BY <2>1 DEF SupersededSettled, Settled
<1>12. AskedInState'
  <2>1. ASSUME NEW q \in Procs, run'[<<t, q>>].pc \in {"claimed", "deciding"}
        PROVE  q = p
    <3>1. CASE q # p
      <4>1. proc[q] = "up"
        BY <1>3, <2>1, <3>1 DEF RunsAreServed
      <4>. QED
        BY <1>1, <4>1 DEF OneServer, Live
    <3>. QED
      BY <3>1
  <2>. QED
    BY <1>1, <1>3, <2>1 DEF AskedInState
<1>13. OneTruthPerTurn'
  <2>1. ASSUME NEW u \in Turns
        PROVE  /\ replies'[u] = IF turn'[u].status = "DONE" /\ turn'[u].disp = "respond" THEN 1 ELSE 0
               /\ turn'[u].status = "SUPERSEDED" => u \in superseded'
               /\ u \in superseded' => replies'[u] = 0
    <3>1. CASE u = t
      BY <1>1, <1>4, <1>5, <1>7, <3>1
    <3>2. CASE u = row.active
      BY <1>1, <1>6, <1>7, <3>2 DEF HolderUnanswered
    <3>3. CASE u # t /\ u # row.active
      BY <1>1, <1>7, <3>3 DEF OneTruthPerTurn
    <3>. QED
      BY <3>1, <3>2, <3>3
  <2>. QED
    BY <2>1 DEF OneTruthPerTurn
<1>. QED
  BY <1>8, <1>9, <1>10, <1>11, <1>12, <1>13

(* A hold is looked up, answered with silence, and T2 comes too late: the    *)
(* turn was not answered.                                                   *)
LEMMA UnansweredKeeps ==
    ASSUME Inv, TurnInv, NEW t \in Turns, NEW p \in Procs,
           ReadDisposition(t, p) \/ FinishWait(t, p) \/ T2Lost(t, p)
    PROVE  TurnInv'
<1>. USE DEF TurnInv
<1>1. /\ proc[p] = "up" /\ InHand(t, p) /\ proc' = proc /\ row' = row
      /\ superseded' = superseded /\ replies' = replies
  BY DEF ReadDisposition, FinishWait, T2Lost, AtT2, InHand, history, speech
<1>2. replies[t] = 0 /\ (row.active = t \/ t \in superseded)
  BY <1>1 DEF HeldOrSuperseded, HolderUnanswered, OneTruthPerTurn
<1>3. PICK step \in {"deciding", "waiting", "waited", "idle"} :
        /\ Goto(t, p, step)
        /\ step = "deciding" => run[<<t, p>>].pc = "claimed"
  BY DEF ReadDisposition, FinishWait, T2Lost
<1>4. /\ run'[<<t, p>>].pc = step /\ run'[<<t, p>>].seen = run[<<t, p>>].seen
      /\ \A u \in Turns, q \in Procs : <<u, q>> # <<t, p>> => run'[<<u, q>>] = run[<<u, q>>]
  BY <1>3, RunMoves
<1>5. OneServer' /\ RunsAreServed'
  BY <1>1, <1>4 DEF OneServer, RunsAreServed, Live
<1>6. HeldOrSuperseded'
  BY <1>1, <1>2, <1>4 DEF HeldOrSuperseded, InHand
<1>7. AskedInState'
  BY <1>1, <1>3, <1>4 DEF AskedInState
<1>8. /\ \A u \in Turns \ {t} : turn'[u] = turn[u]
      /\ \/ turn'[t] = turn[t]
         \/ turn'[t].status = "DONE" /\ turn'[t].disp = "wait"
         \/ turn'[t].status = "SUPERSEDED" /\ t \in superseded
  BY <1>2 DEF ReadDisposition, FinishWait, T2Lost, finishTurn, Inv, TypeOK, TurnRows
<1>9. HolderUnanswered' /\ SupersededSettled'
  BY <1>1, <1>8 DEF HolderUnanswered, SupersededSettled, Settled, Inv, TypeOK
<1>10. OneTruthPerTurn'
  BY <1>1, <1>2, <1>8 DEF OneTruthPerTurn
<1>. QED
  BY <1>5, <1>6, <1>7, <1>9, <1>10

(* T2 answers a turn that nobody has answered and gives its claim back.     *)
LEMMA AnswerKeeps ==
    ASSUME Inv, TurnInv, NEW t \in Turns, NEW p \in Procs, Answers(t, p)
    PROVE  TurnInv'
<1>. USE DEF TurnInv
<1>1. /\ proc[p] = "up" /\ row.active = t /\ row'.active = None /\ None \notin Turns
      /\ proc' = proc /\ superseded' = superseded
  BY NoneAssumption DEF Answers, AtT2, history
<1>2. replies[t] = 0 /\ t \notin superseded
  BY <1>1 DEF HolderUnanswered
<1>3. /\ run'[<<t, p>>].pc = "idle"
      /\ \A u \in Turns, q \in Procs : <<u, q>> # <<t, p>> => run'[<<u, q>>] = run[<<u, q>>]
  BY RunMoves DEF Answers
<1>4. /\ turn'[t].status = "DONE" /\ turn'[t].disp = "respond"
      /\ \A u \in Turns \ {t} : turn'[u] = turn[u]
      /\ replies'[t] = 1 /\ \A u \in Turns \ {t} : replies'[u] = replies[u]
  BY <1>2 DEF Answers, finishTurn, Inv, TypeOK, TurnRows
<1>5. OneServer' /\ RunsAreServed'
  BY <1>1, <1>3 DEF OneServer, RunsAreServed, Live
<1>6. HeldOrSuperseded'
  <2>1. ASSUME NEW u \in Turns, NEW q \in Procs, InHand(u, q)'
        PROVE  u \in superseded
    <3>1. <<u, q>> # <<t, p>> /\ InHand(u, q) /\ proc[q] = "up"
      BY <1>3, <2>1 DEF InHand, RunsAreServed
    <3>2. q = p
      BY <1>1, <3>1 DEF OneServer, Live
    <3>. QED
      BY <1>1, <3>1, <3>2 DEF HeldOrSuperseded
  <2>. QED
    BY <1>1, <2>1 DEF HeldOrSuperseded
<1>7. HolderUnanswered' /\ AskedInState'
  BY <1>1 DEF HolderUnanswered, AskedInState
<1>8. SupersededSettled'
  BY <1>1, <1>4 DEF SupersededSettled, Settled, Inv, TypeOK
<1>9. OneTruthPerTurn'
  BY <1>1, <1>2, <1>4 DEF OneTruthPerTurn
<1>. QED
  BY <1>5, <1>6, <1>7, <1>8, <1>9

(* A signal moves the state only to COMPLETED, and takes no claim.          *)
LEMMA SignalSpares ==
    ASSUME Inv, TurnInv, Signal
    PROVE  TurnInv'
<1>. USE DEF TurnInv
<1>1. row \in Rows
  BY DEF Inv, TypeOK
<1>2. ASSUME NEW rw \in Rows, rw.active = row.active, NEW o \in Outcomes, row' = FinalRow(rw, o)
      PROVE  row'.active = row.active /\ row'.state = "COMPLETED"
  BY <1>2, FinalRowFacts
<1>3. row'.active = row.active /\ row'.state \in {row.state, "COMPLETED"}
  <2>1. CASE NoInput
    <3>1. row.noInput + 1 \in 0..NO_INPUT_STRIKES
      BY <1>1, <2>1 DEF NoInput, CallOpen, Inv, StrikesLeft, Rows, NO_INPUT_STRIKES
    <3>2. [row EXCEPT !.noInput = row.noInput + 1] \in Rows
          /\ [row EXCEPT !.noInput = row.noInput + 1].active = row.active
          /\ [row EXCEPT !.noInput = row.noInput + 1].state = row.state
      BY <1>1, <3>1 DEF Rows
    <3>. QED
      BY <1>2, <2>1, <3>2 DEF NoInput, SignalEnds, Outcomes
  <2>2. CASE AmdMachine
    <3>1. [row EXCEPT !.state = "VOICEMAIL"] \in Rows /\ [row EXCEPT !.state = "VOICEMAIL"].active = row.active
      BY <1>1 DEF Rows, States
    <3>. QED
      BY <1>2, <2>2, <3>1 DEF AmdMachine, SignalEnds, Outcomes
  <2>3. CASE NoAnswer \/ \E swept \in BOOLEAN : Hangup(swept)
    BY <1>1, <1>2, <2>3 DEF NoAnswer, Hangup, SignalEnds, Outcomes
  <2>4. CASE \/ AmdHuman
             \/ \E u \in Turns, how \in {"heard", "cut"} : Playout(u, how)
             \/ \E t \in Turns : TurnMetrics(t)
    BY <2>4 DEF AmdHuman, Playout, TurnMetrics
  <2>. QED
    BY <2>1, <2>2, <2>3, <2>4 DEF Signal
<1>4. /\ UNCHANGED <<superseded, replies, proc, run>>
      /\ \A u \in Turns : /\ turn'[u].status = turn[u].status
                          /\ turn'[u].disp = turn[u].disp \/ turn[u].status = "RUNNING"
  <2>1. UNCHANGED <<superseded, replies, proc, run>>
    BY DEF Signal, NoInput, AmdMachine, AmdHuman, NoAnswer, Hangup, Playout, TurnMetrics, SignalEnds,
           history, speech
  <2>2. CASE \E t \in Turns : TurnMetrics(t)
    BY <2>1, <2>2 DEF TurnMetrics, Inv, TypeOK, TurnRows
  <2>3. CASE ~\E t \in Turns : TurnMetrics(t)
    BY <2>1, <2>3 DEF Signal, NoInput, AmdMachine, AmdHuman, NoAnswer, Hangup, Playout, SignalEnds
  <2>. QED
    BY <2>1, <2>2, <2>3
<1>5. OneServer' /\ RunsAreServed' /\ HeldOrSuperseded'
  BY <1>3, <1>4 DEF OneServer, RunsAreServed, HeldOrSuperseded, Live, InHand
<1>6. AskedInState'
  BY <1>3, <1>4 DEF AskedInState
<1>7. HolderUnanswered' /\ SupersededSettled'
  BY <1>3, <1>4 DEF HolderUnanswered, SupersededSettled, Settled, Inv, TypeOK
<1>8. OneTruthPerTurn'
  BY <1>4 DEF OneTruthPerTurn
<1>. QED
  BY <1>5, <1>6, <1>7, <1>8

(* A process that boots is alone; one that goes down drops its runs.        *)
LEMMA ProcessSpares ==
    ASSUME Inv, TurnInv, ~Replicated, NEW p \in Procs, Process(p)
    PROVE  TurnInv'
<1>. USE DEF TurnInv
<1>1. /\ UNCHANGED <<row, turn, superseded, replies>>
      /\ \E how \in {"up", "stopping", "down"} : proc' = [proc EXCEPT ![p] = how]
      /\ proc \in [Procs -> {"next", "up", "stopping", "down"}]
  BY DEF Process, Boot, Shutdown, Exit, Kill, history, speech, Inv, TypeOK
<1>2. OneServer'
  <2>1. CASE Boot(p)
    BY <1>1, <2>1 DEF Boot, OneServer, Live
  <2>2. CASE ~Boot(p)
    BY <1>1, <2>2 DEF Process, Shutdown, Exit, Kill, OneServer, Live
  <2>. QED
    BY <2>1, <2>2
<1>3. \A u \in Turns, q \in Procs :
        /\ run'[<<u, q>>] = run[<<u, q>>] \/ run'[<<u, q>>].pc \in {"idle", "stranded"}
        /\ q = p => proc'[p] = "up" \/ run'[<<u, q>>].pc \in {"idle", "stranded"}
  <2>1. CASE Boot(p)
    BY <1>1, <2>1 DEF Boot
  <2>2. CASE Exit(p)
    BY <2>2 DEF Exit
  <2>3. CASE Shutdown(p)
    BY <2>3 DEF Shutdown, Interrupted, Runs, Inv, TypeOK
  <2>4. CASE Kill(p)
    BY <2>4 DEF Kill, Dropped, Runs, Inv, TypeOK
  <2>. QED
    BY <2>1, <2>2, <2>3, <2>4 DEF Process
<1>4. RunsAreServed'
  BY <1>1, <1>3 DEF RunsAreServed
<1>5. HeldOrSuperseded' /\ AskedInState'
  BY <1>1, <1>3 DEF HeldOrSuperseded, InHand, AskedInState
<1>6. HolderUnanswered' /\ SupersededSettled' /\ OneTruthPerTurn'
  BY <1>1 DEF HolderUnanswered, SupersededSettled, Settled, OneTruthPerTurn
<1>. QED
  BY <1>2, <1>4, <1>5, <1>6

LEMMA TurnNextKeeps ==
    ASSUME ~Replicated, Inv, TurnInv, [Next]_vars
    PROVE  TurnInv'
<1>1. ASSUME NEW t \in Turns, NEW p \in Procs, RunStep(t, p)
      PROVE  TurnInv'
  <2>1. CASE T1Answered(t, p) \/ T1Attach(t, p) \/ AttachTimeout(t, p) \/ RunFails(t, p)
    <3>1. /\ \E step \in {"idle", "attached"} : Goto(t, p, step) /\ (step = "attached" => proc[p] = "up")
          /\ row' = row /\ UNCHANGED <<turn, superseded, replies, proc>>
      BY <2>1 DEF T1Answered, T1Attach, AttachTimeout, RunFails, AtT1, history, speech
    <3>. QED
      BY <3>1, AsideKeeps
  <2>2. CASE T1Claim(t, p)
    BY <2>2, ClaimKeeps
  <2>3. CASE ReadDisposition(t, p) \/ FinishWait(t, p) \/ T2Lost(t, p)
    BY <2>3, UnansweredKeeps
  <2>4. CASE ReleaseWait(t, p) \/ ReleaseStranded(t, p)
    <3>1. /\ Goto(t, p, "idle") /\ row' = releaseTurn(row, t) /\ Live(p) /\ ~InHand(t, p)
          /\ UNCHANGED <<turn, superseded, replies, proc>>
      BY <2>4 DEF ReleaseWait, ReleaseStranded, Live, InHand, history, speech
    <3>. QED
      BY <3>1, AsideKeeps
  <2>5. CASE T2(t, p) /\ ~T2Lost(t, p)
    BY <2>5, T2Answers, AnswerKeeps
  <2>. QED
    BY <1>1, <2>1, <2>2, <2>3, <2>4, <2>5 DEF RunStep
<1>2. CASE UNCHANGED vars
  <2>1. UNCHANGED <<row, turn, superseded, replies, proc, run>>
    BY <1>2 DEF vars, history, speech
  <2>. QED
    BY <2>1 DEF TurnInv, OneServer, RunsAreServed, HeldOrSuperseded, HolderUnanswered, SupersededSettled,
                AskedInState, OneTruthPerTurn, Live, InHand, Settled
<1>. QED
  BY <1>1, <1>2, SignalSpares, ProcessSpares DEF Next

(* A turn is answered at most once, exactly if it is DONE with a reply, and  *)
(* never after it was superseded, as long as server processes do not overlap *)
(* (T2's check of active_turn_id, and finishTurn beside the events).        *)
THEOREM AnsweredOnce == ASSUME ~Replicated PROVE Spec => []OneTruthPerTurn
<1>1. TurnInv => OneTruthPerTurn
  BY DEF TurnInv
<1>2. Init => TurnInv
  BY TurnInitKeeps
<1>3. Inv /\ TurnInv /\ [Next]_vars => TurnInv'
  BY TurnNextKeeps
<1>. QED
  BY <1>1, <1>2, <1>3, Invariance, PTL DEF Spec

(* The state is moved under a decider that holds the claim only to end the   *)
(* call, as long as server processes do not overlap: T2 judges the answer   *)
(* in the state it was asked in.                                            *)
THEOREM AskedAndJudgedAlike == ASSUME ~Replicated PROVE Spec => []StateStableWhileDeciding
<1>1. TurnInv => StateStableWhileDeciding
  BY DEF TurnInv, AskedInState, StateStableWhileDeciding
<1>2. Init => TurnInv
  BY TurnInitKeeps
<1>3. Inv /\ TurnInv /\ [Next]_vars => TurnInv'
  BY TurnNextKeeps
<1>. QED
  BY <1>1, <1>2, <1>3, Invariance, PTL DEF Spec

-----------------------------------------------------------------------------
(* The call, as CallPath has it.                                           *)

LEMMA PathStarts == Init => Path!Init
BY DEF Init, Path!Init

(* A step that leaves these columns alone is no step of the call.           *)
LEMMA PathRests ==
    ASSUME row'.state = row.state, row'.unlocked = row.unlocked, row'.proposal = row.proposal,
           row'.outcome = row.outcome, crm'.promised = crm.promised
    PROVE  [Path!Next]_Path!path
BY DEF Path!path

(* What a reply, the end of a call by a turn, and by a signal, leave on the *)
(* row and in the books.                                                    *)
LEMMA CommitLeaves ==
    ASSUME NEW t \in Turns, NEW p \in Procs, NEW rw \in Rows, NEW lg, NEW read,
           Commit(t, p, rw, lg, read)
    PROVE  /\ row'.state = rw.state /\ row'.unlocked = rw.unlocked
           /\ row'.proposal = rw.proposal /\ row'.outcome = rw.outcome
BY ReleaseFacts DEF Commit

LEMMA FinalBooksPromise ==
    ASSUME NEW books \in Books, NEW o \in Outcomes
    PROVE  FinalBooks(books, o).promised = books.promised
BY DEF FinalBooks, Books

LEMMA EndCallLeaves ==
    ASSUME NEW t \in Turns, NEW p \in Procs, NEW rw \in Rows, NEW lg, NEW books \in Books,
           NEW o \in Outcomes, EndCall(t, p, rw, lg, books, o)
    PROVE  /\ row'.state = "COMPLETED" /\ row'.outcome = o /\ row'.unlocked = rw.unlocked
           /\ row'.proposal = rw.proposal /\ crm'.promised = books.promised
<1>1. /\ FinalRow(rw, o) \in Rows
      /\ Commit(t, p, FinalRow(rw, o), FinalLedger(lg, rw.state, o), None)
      /\ crm' = FinalBooks(books, o)
  BY FinalRowFacts DEF EndCall
<1>2. /\ row'.state = FinalRow(rw, o).state /\ row'.unlocked = FinalRow(rw, o).unlocked
      /\ row'.proposal = FinalRow(rw, o).proposal /\ row'.outcome = FinalRow(rw, o).outcome
  BY <1>1, CommitLeaves
<1>. QED
  BY <1>1, <1>2, FinalRowFacts, FinalBooksPromise

LEMMA SignalEndsLeaves ==
    ASSUME NEW rw \in Rows, NEW lg, NEW o \in Outcomes, crm \in Books, SignalEnds(rw, lg, o)
    PROVE  /\ row'.state = "COMPLETED" /\ row'.outcome = o /\ row'.unlocked = rw.unlocked
           /\ row'.proposal = rw.proposal /\ crm'.promised = crm.promised
BY FinalRowFacts, FinalBooksPromise DEF SignalEnds

(* An open call ends as CallPath allows, wherever the outcome needs no more *)
(* than that; one that a signal has ended is amended.                       *)
LEMMA EndsOnPath ==
    ASSUME Inv, NEW o \in Outcomes,
           \/ /\ row.outcome = None /\ o # "PROMISE_TO_PAY"
              /\ o = "CALLBACK_SCHEDULED" => row.state \in PROTECTED_CONTEXT_STATES
              /\ o = "THIRD_PARTY_CONTACT" => row.state \in {"GREETING", "VERIFYING_IDENTITY"}
              /\ o = "NO_DISPOSITION" => row.state = "CONFIRMING_OUTCOME"
           \/ /\ row.outcome \notin SettledByTurn /\ row.outcome # None
              /\ o \in {"OPT_OUT", "WRONG_NUMBER", "DISPUTED", "ESCALATED"},
           row'.state = "COMPLETED", row'.outcome = o, row'.unlocked = row.unlocked,
           row'.proposal = row.proposal, crm'.promised = crm.promised
    PROVE  Path!Next
<1>1. o \in Path!Outcomes
  BY DEF Outcomes, Path!Outcomes
<1>2. CASE row.outcome = None
  <2>1. Path!End(o)
    BY <1>2, NoneAssumption DEF Path!End, Path!Unidentified, Path!PROTECTED_CONTEXT_STATES, PROTECTED_CONTEXT_STATES
  <2>. QED
    BY <1>1, <2>1 DEF Path!Next
<1>3. CASE row.outcome # None
  <2>1. row.state = "COMPLETED" /\ row.outcome \in Outcomes \ SettledByTurn
    BY <1>3, T2Finds DEF Rows
  <2>2. Path!Amend(o)
    BY <1>3, <2>1 DEF Path!Amend, Path!Unsettled, Path!Overriding, Outcomes, SettledByTurn
  <2>. QED
    BY <1>1, <2>2 DEF Path!Next
<1>. QED
  BY <1>2, <1>3

(* Whoever owns the claim finds the call open, or ended by a signal alone.  *)
LEMMA OwnerFinds ==
    ASSUME Inv, NEW t \in Turns, NEW p \in Procs, Owner(t, p)
    PROVE  row.outcome \notin SettledByTurn
BY NoneAssumption DEF Owner, Inv, SettledReleased

(* An override ends the call, or amends the end a signal gave it.           *)
LEMMA OverrideOnPath ==
    ASSUME Inv, NEW t \in Turns, NEW p \in Procs,
           T2OverrideOptOut(t, p) \/ T2OverrideWrongNumber(t, p) \/ T2OverrideTransfer(t, p)
    PROVE  Path!Next
<1>1. PICK to \in OVERRIDE_TARGETS, books \in Books,
           o \in {"OPT_OUT", "WRONG_NUMBER", "DISPUTED", "ESCALATED"} :
        books.promised = crm.promised /\ \E lg : EndCall(t, p, OverrideRow(to), lg, books, o)
  <2>1. /\ OptedOut(crm) \in Books /\ OptedOut(crm).promised = crm.promised
        /\ NumberInvalid(crm) \in Books /\ NumberInvalid(crm).promised = crm.promised
        /\ HumanFollowup(crm) \in Books /\ HumanFollowup(crm).promised = crm.promised
    BY T2Finds DEF OptedOut, NumberInvalid, HumanFollowup, Books
  <2>2. CASE T2OverrideOptOut(t, p)
    BY <2>1, <2>2 DEF T2OverrideOptOut, OVERRIDE_TARGETS
  <2>3. CASE T2OverrideWrongNumber(t, p)
    BY <2>1, <2>3 DEF T2OverrideWrongNumber, OVERRIDE_TARGETS
  <2>4. CASE T2OverrideTransfer(t, p)
    BY <2>1, <2>4 DEF T2OverrideTransfer, OVERRIDE_TARGETS
  <2>. QED
    BY <2>2, <2>3, <2>4
<1>2. o \in Outcomes
  BY DEF Outcomes
<1>3. /\ OverrideRow(to) \in Rows /\ OverrideRow(to).unlocked = row.unlocked
      /\ OverrideRow(to).proposal = row.proposal
  BY OverrideFacts
<1>4. /\ row'.state = "COMPLETED" /\ row'.outcome = o /\ row'.unlocked = row.unlocked
      /\ row'.proposal = row.proposal /\ crm'.promised = crm.promised
  BY <1>1, <1>2, <1>3, EndCallLeaves
<1>5. row.outcome \notin SettledByTurn
  BY OwnerFinds DEF T2OverrideOptOut, T2OverrideWrongNumber, T2OverrideTransfer
<1>. QED
  BY <1>2, <1>4, <1>5, EndsOnPath

(* The tools: each is one step of the call, or a refusal that is none.      *)
LEMMA ToolsOnPath ==
    ASSUME Inv, NEW t \in Turns, NEW p \in Procs,
           \/ T2ConfirmRightParty(t, p) \/ T2ThirdParty(t, p) \/ T2WrongNumberTool(t, p)
           \/ T2Propose(t, p) \/ T2RefusePromise(t, p)
           \/ T2RecordPromise(t, p) \/ T2ScheduleCallback(t, p)
    PROVE  [Path!Next]_Path!path
<1>1. CASE T2ConfirmRightParty(t, p)
  <2> DEFINE rw == [row EXCEPT !.state = "DISCUSSING_PAYMENT", !.unlocked = TRUE]
  <2>1. row.state \in {"GREETING", "VERIFYING_IDENTITY"} /\ row.outcome = None
    BY <1>1, ExecutesFacts, T2Finds DEF T2ConfirmRightParty, TOOL_STATE_MATRIX
  <2>2. /\ rw \in Rows /\ rw.state = "DISCUSSING_PAYMENT" /\ rw.unlocked = TRUE
        /\ rw.proposal = row.proposal /\ rw.outcome = row.outcome
    BY T2Finds DEF Rows, States
  <2>3. \E lg : Commit(t, p, rw, lg, None) /\ crm' = crm
    BY <1>1 DEF T2ConfirmRightParty, Reply
  <2>. HIDE DEF rw
  <2>4. Path!Identify
    BY <2>1, <2>2, <2>3, CommitLeaves DEF Path!Identify, Path!Unidentified
  <2>. QED
    BY <2>4 DEF Path!Next
<1>2. CASE T2ThirdParty(t, p)
  <2> DEFINE rw == [row EXCEPT !.state = "THIRD_PARTY_OR_WRONG_PARTY"]
  <2>1. row.state \in {"GREETING", "VERIFYING_IDENTITY"} /\ row.outcome = None
    <3>1. row.state \in {"GREETING", "VERIFYING_IDENTITY",
                         "THIRD_PARTY_OR_WRONG_PARTY", "WRONG_NUMBER"}
      BY <1>2, ExecutesFacts DEF T2ThirdParty, TOOL_STATE_MATRIX
    <3>. QED
      BY <3>1, T2Finds DEF OpenStates
  <2>2. rw \in Rows /\ rw.unlocked = row.unlocked /\ rw.proposal = row.proposal
    BY T2Finds DEF Rows, States
  <2>3. \E lg : EndCall(t, p, rw, lg, crm, "THIRD_PARTY_CONTACT")
    BY <1>2 DEF T2ThirdParty
  <2>. HIDE DEF rw
  <2>4. "THIRD_PARTY_CONTACT" \in Outcomes /\ crm \in Books
    BY T2Finds DEF Outcomes
  <2>5. /\ row'.state = "COMPLETED" /\ row'.outcome = "THIRD_PARTY_CONTACT"
        /\ row'.unlocked = row.unlocked /\ row'.proposal = row.proposal
        /\ crm'.promised = crm.promised
    BY <2>2, <2>3, <2>4, EndCallLeaves
  <2>. QED
    BY <2>1, <2>4, <2>5, EndsOnPath
<1>3. CASE T2WrongNumberTool(t, p)
  <2> DEFINE rw == [row EXCEPT !.state = "WRONG_NUMBER"]
  <2>1. row.outcome \notin SettledByTurn
    BY <1>3, ExecutesFacts, OwnerFinds DEF T2WrongNumberTool
  <2>2. rw \in Rows /\ rw.unlocked = row.unlocked /\ rw.proposal = row.proposal
    BY T2Finds DEF Rows, States
  <2>3. \E lg : EndCall(t, p, rw, lg, NumberInvalid(crm), "WRONG_NUMBER")
    BY <1>3 DEF T2WrongNumberTool
  <2>. HIDE DEF rw
  <2>4. /\ "WRONG_NUMBER" \in Outcomes
        /\ NumberInvalid(crm) \in Books /\ NumberInvalid(crm).promised = crm.promised
    BY T2Finds DEF Outcomes, NumberInvalid, Books
  <2>5. /\ row'.state = "COMPLETED" /\ row'.outcome = "WRONG_NUMBER"
        /\ row'.unlocked = row.unlocked /\ row'.proposal = row.proposal
        /\ crm'.promised = crm.promised
    BY <2>2, <2>3, <2>4, EndCallLeaves
  <2>. QED
    BY <2>1, <2>4, <2>5, EndsOnPath
<1>4. CASE T2Propose(t, p)
  <2>1. PICK a \in Amounts : \E lg :
            Commit(t, p, [row EXCEPT !.state = "CONFIRMING_OUTCOME", !.proposal = a, !.readBackTurn = t],
                   lg, a)
    BY <1>4 DEF T2Propose
  <2> DEFINE rw == [row EXCEPT !.state = "CONFIRMING_OUTCOME", !.proposal = a, !.readBackTurn = t]
  <2>2. row.state = "DISCUSSING_PAYMENT" /\ row.outcome = None /\ crm' = crm
    BY <1>4, ExecutesFacts, T2Finds DEF T2Propose, TOOL_STATE_MATRIX
  <2>3. /\ rw \in Rows /\ rw.state = "CONFIRMING_OUTCOME" /\ rw.unlocked = row.unlocked
        /\ rw.proposal = a /\ rw.outcome = row.outcome
    BY T2Finds DEF Rows, States
  <2>4. \E lg : Commit(t, p, rw, lg, a)
    BY <2>1
  <2>. HIDE DEF rw
  <2>5. Path!Propose(a)
    BY <2>2, <2>3, <2>4, CommitLeaves DEF Path!Propose
  <2>. QED
    BY <2>5 DEF Path!Next
<1>5. CASE T2RefusePromise(t, p) /\ row.proposal # None
  <2> DEFINE rw == [row EXCEPT !.readBackTurn = t]
  <2>1. crm' = crm /\ \E lg : Commit(t, p, rw, lg, row.proposal)
    BY <1>5 DEF T2RefusePromise
  <2>2. /\ rw \in Rows /\ rw.state = row.state /\ rw.unlocked = row.unlocked
        /\ rw.outcome = row.outcome /\ rw.proposal = row.proposal
    BY T2Finds DEF Rows
  <2>. HIDE DEF rw
  <2>. QED
    BY <2>1, <2>2, CommitLeaves, PathRests
<1>6. CASE T2RefusePromise(t, p) /\ row.proposal = None
  <2> DEFINE rw == [row EXCEPT !.state = "DISCUSSING_PAYMENT"]
  <2>1. /\ crm' = crm /\ \E lg : Commit(t, p, rw, lg, None)
        /\ row.state = "CONFIRMING_OUTCOME" /\ row.outcome = None
    BY <1>6, ExecutesFacts, T2Finds DEF T2RefusePromise, TOOL_STATE_MATRIX
  <2>2. /\ rw \in Rows /\ rw.state = "DISCUSSING_PAYMENT" /\ rw.unlocked = row.unlocked
        /\ rw.outcome = row.outcome /\ rw.proposal = None
    BY <1>6, T2Finds DEF Rows, States
  <2>. HIDE DEF rw
  <2>3. Path!Decline
    BY <2>1, <2>2, CommitLeaves DEF Path!Decline
  <2>. QED
    BY <2>3 DEF Path!Next
<1>7. CASE T2RecordPromise(t, p)
  <2> DEFINE rw == [row EXCEPT !.proposal = None, !.readBackTurn = None]
             books == [crm EXCEPT !.promised = row.proposal]
  <2>1. /\ \E lg : EndCall(t, p, rw, lg, books, "PROMISE_TO_PAY")
        /\ row.state = "CONFIRMING_OUTCOME" /\ row.outcome = None /\ row.proposal # None
    BY <1>7, ExecutesFacts, T2Finds DEF T2RecordPromise, TOOL_STATE_MATRIX
  <2>2. rw \in Rows /\ rw.unlocked = row.unlocked /\ rw.proposal = None
    BY T2Finds DEF Rows
  <2>3. books \in Books /\ books.promised = row.proposal /\ "PROMISE_TO_PAY" \in Outcomes
    BY T2Finds DEF Books, Rows, Outcomes
  <2>. HIDE DEF rw, books
  <2>4. /\ row'.state = "COMPLETED" /\ row'.outcome = "PROMISE_TO_PAY"
        /\ row'.unlocked = row.unlocked /\ row'.proposal = None
        /\ crm'.promised = row.proposal
    BY <2>1, <2>2, <2>3, EndCallLeaves
  <2>5. Path!Promise
    BY <2>1, <2>4 DEF Path!Promise
  <2>. QED
    BY <2>5 DEF Path!Next
<1>8. CASE T2ScheduleCallback(t, p)
  <2> DEFINE books == [crm EXCEPT !.pending = (@ \ {"RETRY_CALL"}) \cup {"CALLBACK"}]
  <2>1. /\ \E lg : EndCall(t, p, row, lg, books, "CALLBACK_SCHEDULED")
        /\ row.state \in PROTECTED_CONTEXT_STATES /\ row.outcome = None
    BY <1>8, ExecutesFacts, T2Finds
       DEF T2ScheduleCallback, TOOL_STATE_MATRIX, PROTECTED_CONTEXT_STATES
  <2>2. /\ row \in Rows /\ books \in Books /\ books.promised = crm.promised
        /\ "CALLBACK_SCHEDULED" \in Outcomes
    BY T2Finds DEF Books, Outcomes
  <2>. HIDE DEF books
  <2>3. /\ row'.state = "COMPLETED" /\ row'.outcome = "CALLBACK_SCHEDULED"
        /\ row'.unlocked = row.unlocked /\ row'.proposal = row.proposal
        /\ crm'.promised = crm.promised
    BY <2>1, <2>2, EndCallLeaves
  <2>. QED
    BY <2>1, <2>2, <2>3, EndsOnPath
<1>. QED
  BY <1>1, <1>2, <1>3, <1>4, <1>5, <1>6, <1>7, <1>8

(* The moves. Only servers that do not overlap keep the read-back state from *)
(* being entered without a proposal: elsewhere a model asked in it may be    *)
(* heard when a turn of another server has left it (AskedInState).          *)
LEMMA MovesOnPath ==
    ASSUME Inv, AskedInState, NEW t \in Turns, NEW p \in Procs,
           \/ T2WarmTransfer(t, p) \/ T2Goodbye(t, p)
           \/ \E next \in States : T2Move(t, p, next)
    PROVE  Path!Next
<1>1. CASE T2WarmTransfer(t, p)
  <2> DEFINE rw == [row EXCEPT !.state = "WARM_TRANSFER_PENDING"]
  <2>1. \E lg : EndCall(t, p, rw, lg, HumanFollowup(crm), "ESCALATED")
    BY <1>1 DEF T2WarmTransfer
  <2>2. row.outcome \notin SettledByTurn
    BY <1>1, OwnerFinds DEF T2WarmTransfer, Moves, Suggests, Asked
  <2>3. /\ rw \in Rows /\ rw.unlocked = row.unlocked /\ rw.proposal = row.proposal
    BY T2Finds DEF Rows, States
  <2>4. /\ HumanFollowup(crm) \in Books /\ HumanFollowup(crm).promised = crm.promised
        /\ "ESCALATED" \in Outcomes
    BY T2Finds DEF HumanFollowup, Books, Outcomes
  <2>. HIDE DEF rw
  <2>5. /\ row'.state = "COMPLETED" /\ row'.outcome = "ESCALATED" /\ row'.unlocked = row.unlocked
        /\ row'.proposal = row.proposal /\ crm'.promised = crm.promised
    BY <2>1, <2>3, <2>4, EndCallLeaves
  <2>. QED
    BY <2>2, <2>4, <2>5, EndsOnPath
<1>2. CASE T2Goodbye(t, p)
  <2> DEFINE rw == [row EXCEPT !.state = "ENDING"]
  <2>1. \E lg : EndCall(t, p, rw, lg, crm, "NO_DISPOSITION")
    BY <1>2 DEF T2Goodbye
  <2>2. row.state = "CONFIRMING_OUTCOME" /\ row.outcome = None
    <3>1. "ENDING" \in ADJACENCY(row.state) /\ row.state # "COMPLETED"
      BY <1>2 DEF T2Goodbye, Moves, TransitionAllowed, isTerminal
    <3>. QED
      BY <3>1, T2Finds DEF ADJACENCY, OpenStates
  <2>3. /\ rw \in Rows /\ rw.unlocked = row.unlocked /\ rw.proposal = row.proposal
        /\ crm \in Books /\ "NO_DISPOSITION" \in Outcomes
    BY T2Finds DEF Rows, States, Outcomes
  <2>. HIDE DEF rw
  <2>4. /\ row'.state = "COMPLETED" /\ row'.outcome = "NO_DISPOSITION"
        /\ row'.unlocked = row.unlocked
        /\ row'.proposal = row.proposal /\ crm'.promised = crm.promised
    BY <2>1, <2>3, EndCallLeaves
  <2>. QED
    BY <2>2, <2>3, <2>4, EndsOnPath
<1>3. ASSUME NEW next \in States, T2Move(t, p, next)
      PROVE  Path!Next
  <2> DEFINE declined == row.state = "CONFIRMING_OUTCOME" /\ next = "DISCUSSING_PAYMENT"
             rw == IF declined
                   THEN [row EXCEPT !.state = next, !.proposal = None, !.readBackTurn = None]
                   ELSE [row EXCEPT !.state = next]
  <2>1. crm' = crm /\ \E lg : Commit(t, p, rw, lg, None)
    BY <1>3 DEF T2Move, Reply
  <2>2. row.state \in {run[<<t, p>>].seen, "COMPLETED"}
    BY <1>3 DEF T2Move, Moves, Suggests, Asked, Owner, AtT2, AskedInState
  <2>3. \/ row.state = "GREETING" /\ next = "VERIFYING_IDENTITY"
        \/ row.state = "CONFIRMING_OUTCOME" /\ next = "DISCUSSING_PAYMENT"
    <3>1. \/ row.state = "GREETING" /\ next = "VERIFYING_IDENTITY"
          \/ row.state = "DISCUSSING_PAYMENT" /\ next = "CONFIRMING_OUTCOME"
          \/ row.state = "CONFIRMING_OUTCOME" /\ next = "DISCUSSING_PAYMENT"
      BY <1>3, MoveTargets
    <3>2. CanSuggest(call.decider, run[<<t, p>>].seen, next)
      BY <1>3 DEF T2Move, Moves, Suggests
    <3>3. ~CanSuggest(call.decider, "DISCUSSING_PAYMENT", "CONFIRMING_OUTCOME")
      BY DEF CanSuggest
    <3>. QED
      BY <2>2, <3>1, <3>2, <3>3
  <2>4. /\ rw \in Rows /\ rw.state = next /\ rw.unlocked = row.unlocked
        /\ rw.outcome = row.outcome
        /\ rw.proposal = IF declined THEN None ELSE row.proposal
    BY T2Finds DEF Rows
  <2>5. row.outcome = None
    BY <2>3, T2Finds
  <2>. HIDE DEF rw
  <2>6. /\ row'.state = next /\ row'.unlocked = row.unlocked /\ row'.outcome = row.outcome
        /\ row'.proposal = IF declined THEN None ELSE row.proposal
        /\ crm'.promised = crm.promised
    BY <2>1, <2>4, CommitLeaves
  <2>7. Path!Verify \/ Path!Decline
    BY <2>3, <2>5, <2>6 DEF Path!Verify, Path!Decline
  <2>. QED
    BY <2>7 DEF Path!Next
<1>. QED
  BY <1>1, <1>2, <1>3

(* The signals end an open call, or are no step of it.                      *)
LEMMA SignalOnPath ==
    ASSUME Inv, Signal
    PROVE  [Path!Next]_Path!path
<1>0. row \in Rows /\ crm \in Books
  BY T2Finds
<1>1. ASSUME CallOpen, NEW rw \in Rows, NEW lg, NEW o \in {"NO_ANSWER", "VOICEMAIL_LEFT", "FAILED"},
             rw.unlocked = row.unlocked, rw.proposal = row.proposal, SignalEnds(rw, lg, o)
      PROVE  Path!Next
  <2>1. o \in Outcomes /\ row.outcome = None
    BY <1>1 DEF Outcomes, CallOpen
  <2>2. /\ row'.state = "COMPLETED" /\ row'.outcome = o /\ row'.unlocked = row.unlocked
        /\ row'.proposal = row.proposal /\ crm'.promised = crm.promised
    BY <1>0, <1>1, <2>1, SignalEndsLeaves
  <2>. QED
    BY <1>1, <2>1, <2>2, EndsOnPath
<1>2. CASE NoInput
  <2> DEFINE strike == row.noInput + 1
             struck == [row EXCEPT !.noInput = strike]
  <2>1. strike \in 0..NO_INPUT_STRIKES /\ CallOpen
    BY <1>2 DEF NoInput, CallOpen, Inv, TypeOK, Rows, StrikesLeft, NO_INPUT_STRIKES
  <2>. HIDE DEF strike
  <2>2. /\ struck \in Rows /\ struck.state = row.state /\ struck.unlocked = row.unlocked
        /\ struck.proposal = row.proposal /\ struck.outcome = row.outcome
    BY <1>0, <2>1 DEF Rows
  <2>3. CASE StrikesOut(strike)
    <3>1. SignalEnds(struck, Struck(ledger, strike), "NO_ANSWER")
      BY <1>2, <2>3 DEF NoInput, strike
    <3>. HIDE DEF struck
    <3>. QED
      BY <1>1, <2>1, <2>2, <3>1
  <2>4. CASE ~StrikesOut(strike)
    <3>1. row' = struck /\ crm' = crm
      BY <1>2, <2>4 DEF NoInput, strike
    <3>. QED
      BY <2>2, <3>1, PathRests
  <2>. QED
    BY <2>3, <2>4
<1>3. CASE AmdMachine
  <2> DEFINE rw == [row EXCEPT !.state = "VOICEMAIL"]
  <2>1. CallOpen /\ \E lg : SignalEnds(rw, lg, "VOICEMAIL_LEFT")
    BY <1>3 DEF AmdMachine
  <2>2. rw \in Rows /\ rw.unlocked = row.unlocked /\ rw.proposal = row.proposal
    BY <1>0 DEF Rows, States
  <2>. HIDE DEF rw
  <2>. QED
    BY <1>1, <2>1, <2>2
<1>4. CASE AmdHuman
  <2>1. row' = row /\ crm'.promised = crm.promised
    BY <1>0, <1>4 DEF AmdHuman, Books
  <2>. QED
    BY <2>1, PathRests
<1>5. CASE NoAnswer
  BY <1>0, <1>1, <1>5 DEF NoAnswer
<1>6. CASE \E swept \in BOOLEAN : Hangup(swept)
  <2>1. CallOpen /\ \E o \in {"FAILED", "NO_ANSWER"} : SignalEnds(row, ledger, o)
    BY <1>6 DEF Hangup
  <2>. QED
    BY <1>0, <1>1, <2>1
<1>7. CASE \/ \E u \in Turns, how \in {"heard", "cut"} : Playout(u, how)
           \/ \E t \in Turns : TurnMetrics(t)
  <2>1. row' = row /\ crm' = crm
    BY <1>7 DEF Playout, TurnMetrics
  <2>. QED
    BY <2>1, PathRests
<1>. QED
  BY <1>2, <1>3, <1>4, <1>5, <1>6, <1>7 DEF Signal

(* Every step of a conversation is a step of the call or none.              *)
LEMMA StepOnPath == Inv /\ AskedInState /\ [Next]_vars => [Path!Next]_Path!path
<1>. SUFFICES ASSUME Inv, AskedInState, [Next]_vars PROVE [Path!Next]_Path!path
  OBVIOUS
<1>0. row \in Rows
  BY T2Finds
<1>1. ASSUME NEW t \in Turns, NEW p \in Procs, RunStep(t, p)
      PROVE  [Path!Next]_Path!path
  <2>1. CASE \/ T1Answered(t, p) \/ T1Attach(t, p) \/ AttachTimeout(t, p) \/ ReadDisposition(t, p)
             \/ FinishWait(t, p) \/ RunFails(t, p) \/ T2Lost(t, p)
    <3>1. row' = row /\ crm' = crm
      BY <2>1 DEF T1Answered, T1Attach, AttachTimeout, ReadDisposition, FinishWait, RunFails, T2Lost
    <3>. QED
      BY <3>1, PathRests
  <2>2. CASE T1Claim(t, p)
    <3>1. row' = [row EXCEPT !.active = t, !.noInput = 0] /\ crm' = crm
      BY <2>2 DEF T1Claim
    <3>2. /\ row'.state = row.state /\ row'.unlocked = row.unlocked
          /\ row'.proposal = row.proposal /\ row'.outcome = row.outcome
      BY <1>0, <3>1 DEF Rows
    <3>. QED
      BY <3>1, <3>2, PathRests
  <2>3. CASE ReleaseWait(t, p) \/ ReleaseStranded(t, p)
    <3>1. row' = releaseTurn(row, t) /\ crm' = crm
      BY <2>3 DEF ReleaseWait, ReleaseStranded
    <3>. QED
      BY <1>0, <3>1, ReleaseFacts, PathRests
  <2>4. CASE \/ T2Degraded(t, p) \/ T2DuplicateTool(t, p) \/ T2Stay(t, p) \/ T2ReadOnlyTool(t, p)
             \/ \E tool \in TOOL_NAMES : T2RejectTool(t, p, tool)
             \/ \E next \in States : T2InvalidTransition(t, p, next)
    <3>1. crm' = crm /\ \E lg : Commit(t, p, row, lg, None)
      BY <2>4 DEF T2Degraded, T2DuplicateTool, T2Stay, T2ReadOnlyTool, T2RejectTool,
                  T2InvalidTransition, Reply
    <3>. QED
      BY <1>0, <3>1, CommitLeaves, PathRests
  <2>5. CASE T2OverrideOptOut(t, p) \/ T2OverrideWrongNumber(t, p) \/ T2OverrideTransfer(t, p)
    BY <2>5, OverrideOnPath
  <2>6. CASE \/ T2ConfirmRightParty(t, p) \/ T2ThirdParty(t, p) \/ T2WrongNumberTool(t, p)
             \/ T2Propose(t, p) \/ T2RefusePromise(t, p)
             \/ T2RecordPromise(t, p) \/ T2ScheduleCallback(t, p)
    BY <2>6, ToolsOnPath
  <2>7. CASE T2WarmTransfer(t, p) \/ T2Goodbye(t, p) \/ \E next \in States : T2Move(t, p, next)
    BY <2>7, MovesOnPath
  <2>. QED
    BY <1>1, <2>1, <2>2, <2>3, <2>4, <2>5, <2>6, <2>7 DEF RunStep, T2
<1>2. CASE Signal
  BY <1>2, SignalOnPath
<1>3. CASE UNCHANGED vars \/ \E p \in Procs : Process(p)
  <2>1. row' = row /\ crm' = crm
    BY <1>3 DEF vars, Process, Boot, Shutdown, Exit, Kill
  <2>. QED
    BY <2>1, PathRests
<1>. QED
  BY <1>1, <1>2, <1>3 DEF Next

(* Of server processes that do not overlap, a conversation implements the    *)
(* call of CallPath: whatever is superseded, decided late, sent again, rolled *)
(* back or lost, whoever reads the row sees the call go its way step by step. *)
THEOREM ImplementsCallPath == ASSUME ~Replicated PROVE Spec => ImplementsPath
<1>1. TurnInv => AskedInState
  BY DEF TurnInv
<1>2. Init => TurnInv
  BY TurnInitKeeps
<1>3. Inv /\ TurnInv /\ [Next]_vars => TurnInv'
  BY TurnNextKeeps
<1>4. Init => Path!Init
  BY PathStarts
<1>5. Inv /\ AskedInState /\ [Next]_vars => [Path!Next]_Path!path
  BY StepOnPath
<1>. QED
  BY <1>1, <1>2, <1>3, <1>4, <1>5, Invariance, PTL DEF Spec, ImplementsPath, Path!Spec

=============================================================================
