----------------------------- MODULE ServicesProofs -----------------------------
(***************************************************************************)
(* Proofs about MCServices: what TrustProofs and VerdictProofs show of a   *)
(* service holds in the behaviours that focus on it.  The steps of an        *)
(* instance there are those of an instance of the proofs here.               *)
(***************************************************************************)
EXTENDS MCServices, SequenceTheorems, TLAPS

TrustP == INSTANCE TrustProofs WITH
    Contents <- {"c"}, NoContent <- "none", Parsable <- {"c"}, Requests <- Anchorings, MaxMishaps <- 1,
    Loop <- "loop", Thread <- "thread", Good <- {50, 90, 100}, Bad <- {0, 60}, RegistryScores <- {0, 8000},
    MaxTasks <- 3, MaxSyncs <- 2, MaxFaults <- 1, rows <- ratings, faults <- upsets,
    Agents <- {1, 2}, NoAgent <- 0, Offline <- {}, Available <- {2}, Chatable <- {1, 2}, Capable <- {1, 2},
    Uses <- {"u"}, Chats <- {"c"}, Registrations <- {},
    NoUaid <- "none", Uaid <- "uaid", MaxHits <- 2, MaxFailures <- 1

LocalP == INSTANCE TrustProofs WITH
    Contents <- {"c"}, NoContent <- "none", Parsable <- {"c"}, Requests <- Anchorings, MaxMishaps <- 1,
    Loop <- "loop", Thread <- "thread", Good <- {50, 90, 100}, Bad <- {0, 60}, RegistryScores <- {0, 8000},
    MaxTasks <- 3, MaxSyncs <- 2, MaxFaults <- 1, rows <- ratings, faults <- upsets,
    Agents <- {}, NoAgent <- 0, Offline <- {}, Available <- {}, Chatable <- {}, Capable <- {},
    Uses <- {}, Chats <- {}, Registrations <- {"r1", "r2", "r3"},
    NoUaid <- "none", Uaid <- "uaid", MaxHits <- 0, MaxFailures <- 2

VerdictP == INSTANCE VerdictProofs WITH
    Keys <- {"k"}, Reconcilers <- {"p", "q"}, MaxSettlements <- 2, MaxFaults <- 1, MaxReconciliations <- 1,
    faults <- slips,
    Citations <- {"S1", "S2"}, Results <- TaskResults, Criteria <- TaskCriteria, Texts <- TaskTexts, Replies <- RelayReplies,
    Agents <- 1..5, Card <- Cards, Default <- [planning |-> 1, evidence |-> 2, synthesis |-> 3],
    Markets <- {[a \in 1..5 |-> Steady], [a \in 1..5 |-> [Steady EXCEPT !.active = a # 4]],
                [a \in 1..5 |-> [Steady EXCEPT !.verified = a # 4]]},
    AskedLimits <- {0, 2, 9}, MinReputation <- 7, MaxChanges <- 1, MaxSetbacks <- 2,
    Pages <- {Page("a", "primary", FALSE, "old", 3), Page("b", "news", TRUE, "hidden", 2),
              Page("b", "news", TRUE, "new", 4), Page("c", "analysis", TRUE, "new", 1)},
    Needs <- {[total |-> 2, primary |-> 1, fresh |-> 1, live |-> TRUE],
              [total |-> 2, primary |-> 0, fresh |-> 0, live |-> FALSE]},
    Ids <- <<"S1", "S2", "S3">>, Unknown <- "S9", MaxSearches <- 5, Fanout <- 4, MaxRounds <- 2,
    Readers <- {"r"}, Confidences <- {"high"},
    Critiques <- {[high |-> FALSE, doubt |-> FALSE], [high |-> TRUE, doubt |-> TRUE]},
    MaxQueries <- 2, MaxClaims <- 2, MaxReads <- 1, MaxCompletions <- 2

-----------------------------------------------------------------------------
(* The vault *)

\* The same data vault
LEMMA SameVaultData ==
    /\ Vault!Stored = TrustP!Stored /\ Vault!Stopped = TrustP!Stopped
    /\ \A d, c, f : Vault!Report(d, c, f) = TrustP!Report(d, c, f)
    /\ \A d : Vault!Checked(d) = TrustP!Checked(d)
    /\ \A r, t : Vault!Answer(r, t) = TrustP!Answer(r, t)
    /\ \A r, d, t, f : Vault!Anchoring(r, d, t, f) = TrustP!Anchoring(r, d, t, f)
<1>1. Vault!Stopped = TrustP!Stopped
  BY DEF Vault!Stopped, TrustP!Stopped, Vault!Idle, TrustP!Idle, Vault!Over, TrustP!Over, Vault!Pending, TrustP!Pending
<1>2. Vault!Stored = TrustP!Stored
  BY DEF Vault!Stored, TrustP!Stored
<1>3. \A d, c, f : Vault!Report(d, c, f) = TrustP!Report(d, c, f)
  BY <1>2 DEF Vault!Report, TrustP!Report, Vault!Duplicates, TrustP!Duplicates
<1>4. \A d : Vault!Checked(d) = TrustP!Checked(d)
  BY <1>3 DEF Vault!Checked, TrustP!Checked
<1>5. \A r, t : Vault!Answer(r, t) = TrustP!Answer(r, t)
  BY DEF Vault!Answer, TrustP!Answer, Vault!Over, TrustP!Over, Vault!Idle, TrustP!Idle, Vault!Pending, TrustP!Pending
<1>6. \A r, d, t, f : Vault!Anchoring(r, d, t, f) = TrustP!Anchoring(r, d, t, f)
  BY DEF Vault!Anchoring, TrustP!Anchoring
<1> QED BY <1>1, <1>2, <1>3, <1>4, <1>5, <1>6

LEMMA SameVault ==
    /\ Vault!VaultInit => TrustP!VaultInit
    /\ Vault!VaultNext => TrustP!VaultNext
<1>1. Vault!VaultInit => TrustP!VaultInit
  BY DEF Vault!VaultInit, TrustP!VaultInit, Vault!Pending, TrustP!Pending, Vault!Idle, TrustP!Idle
<1>2. \A d, c, r : Vault!Upload(d, c, r) => TrustP!Upload(d, c, r)
  <2> TAKE d, c, r
  <2> DEFINE t == [Vault!Pending EXCEPT !.verified = Vault!Report(d, c, "intact")]
             tP == [TrustP!Pending EXCEPT !.verified = TrustP!Report(d, c, "intact")]
  <2>1. t = tP
    BY SameVaultData DEF Vault!Pending, TrustP!Pending
  <2>2. Vault!Anchoring(r, d, t, TRUE) = TrustP!Anchoring(r, d, tP, TRUE)
    BY <2>1, SameVaultData
  <2>3. Vault!Stopped = TrustP!Stopped
    BY SameVaultData
  <2> QED BY <2>1, <2>2, <2>3 DEF Vault!Upload, TrustP!Upload
<1>3. \A d : Vault!Verify(d) \/ Vault!Reuse(d) => TrustP!Verify(d) \/ TrustP!Reuse(d)
  BY SameVaultData DEF Vault!Verify, TrustP!Verify, Vault!Reuse, TrustP!Reuse
<1>4. \A r, d : Vault!Anchor(r, d) => TrustP!Anchor(r, d)
  BY SameVaultData DEF Vault!Anchor, TrustP!Anchor
<1>5. \A r, d : Vault!UseBegin(r, d) => TrustP!UseBegin(r, d)
  BY SameVaultData DEF Vault!UseBegin, TrustP!UseBegin
<1>6. \A r : Vault!Pin(r) => TrustP!Pin(r)
  BY SameVaultData DEF Vault!Pin, TrustP!Pin
<1>7. \A r : Vault!Submit(r) => TrustP!Submit(r)
  BY SameVaultData DEF Vault!Submit, TrustP!Submit, Vault!ManifestOf, TrustP!ManifestOf, Vault!Pinned, TrustP!Pinned
<1>8. \A r : Vault!AnswerFails(r) => TrustP!AnswerFails(r)
  BY DEF Vault!AnswerFails, TrustP!AnswerFails, Vault!Over, TrustP!Over, Vault!Idle, TrustP!Idle,
       Vault!Pending, TrustP!Pending
<1>9. \A r : Vault!UseEnd(r) => TrustP!UseEnd(r)
  BY SameVaultData DEF Vault!UseEnd, TrustP!UseEnd, Vault!Over, TrustP!Over, Vault!Idle, TrustP!Idle,
       Vault!Pending, TrustP!Pending
<1>10. Vault!Mishap => TrustP!Mishap
  BY SameVaultData DEF Vault!Mishap, TrustP!Mishap
<1>11. Vault!VaultNext => TrustP!VaultNext
  BY <1>2, <1>3, <1>4, <1>5, <1>6, <1>7, <1>8, <1>9, <1>10 DEF Vault!VaultNext, TrustP!VaultNext
<1> QED BY <1>1, <1>11

\* The rows of the data agent's table stay true in the vault's behaviours: at most one
\* dataset of a content passes verification, and an anchored one is on the topic.
THEOREM TrustHolds == Spec => []TrustIsEarned
<1> DEFINE I == focus = "vault" => TrustP!IInv
<1>1. "none" \notin {"c"}
  OBVIOUS
<1>2. Init => I
  BY SameVault, TrustP!InitInv DEF Init
<1>3. I /\ [Next]_vars => I'
  <2> SUFFICES ASSUME I, [Next]_vars, focus' = "vault" PROVE TrustP!IInv'
    OBVIOUS
  <2>1. focus = "vault" /\ (Vault!VaultNext \/ UNCHANGED vaultVars)
    BY DEF Next, vars
  <2>2. [TrustP!VaultNext]_TrustP!vaultVars
    BY <2>1, SameVault DEF vaultVars, TrustP!vaultVars
  <2> QED BY <1>1, <2>1, <2>2, TrustP!NextInv
<1>4. I => TrustIsEarned
  BY DEF TrustIsEarned, TrustP!IInv, TrustP!PassInv, TrustP!Passed, TrustP!AnchorInv, TrustP!Stored,
         Vault!OnePassedPerContent, Vault!AnchoredIsOnTopic, Vault!Stored
<1> QED BY <1>2, <1>3, <1>4, PTL DEF Spec

-----------------------------------------------------------------------------
(* The broker *)

\* The same answers of the broker
LEMMA SameAnswers ==
    /\ Hol!SessionAnswers = TrustP!SessionAnswers /\ Hol!MessageAnswers = TrustP!MessageAnswers
    /\ \A e : Hol!Fallback(e) = TrustP!Fallback(e)
    /\ \A a, e : Hol!AfterFailure(a, e) = TrustP!AfterFailure(a, e)
    /\ \A a : Hol!AfterSuccess(a) = TrustP!AfterSuccess(a)
<1>1. Hol!Errors = TrustP!Errors
  BY Zenon DEF Hol!Errors, TrustP!Errors
<1>2. Hol!FailedCalls = TrustP!FailedCalls
  BY <1>1, Zenon DEF Hol!FailedCalls, TrustP!FailedCalls
<1>3. Hol!SessionAnswers = TrustP!SessionAnswers /\ Hol!MessageAnswers = TrustP!MessageAnswers
  BY <1>1, <1>2, Zenon DEF Hol!SessionAnswers, TrustP!SessionAnswers, Hol!MessageAnswers, TrustP!MessageAnswers
<1>4. \A e : Hol!Fallback(e) = TrustP!Fallback(e)
  BY Zenon DEF Hol!Fallback, TrustP!Fallback
<1>5. \A a, e : Hol!AfterFailure(a, e) = TrustP!AfterFailure(a, e)
  BY Zenon DEF Hol!AfterFailure, TrustP!AfterFailure
<1>6. \A a : Hol!AfterSuccess(a) = TrustP!AfterSuccess(a)
  BY Zenon DEF Hol!AfterSuccess, TrustP!AfterSuccess
<1> QED BY <1>3, <1>4, <1>5, <1>6

\* The same searches
LEMMA SameSearches ==
    /\ Hol!Hits = TrustP!Hits
    /\ \A hits : Hol!Discovered(hits) = TrustP!Discovered(hits) /\ Hol!Candidates(hits) = TrustP!Candidates(hits)
<1>1. Hol!Hits = TrustP!Hits
  BY Zenon DEF Hol!Hits, TrustP!Hits
<1>2. \A list, rank : Hol!Arranged(list, rank) = TrustP!Arranged(list, rank)
  BY Zenon DEF Hol!Arranged, TrustP!Arranged, Hol!Cardinality, TrustP!Cardinality
<1>3. \A a : Hol!Tier(a) = TrustP!Tier(a)
  BY Zenon DEF Hol!Tier, TrustP!Tier
<1>4. \A a : Hol!Place(a) = TrustP!Place(a)
  BY <1>3, Zenon DEF Hol!Place, TrustP!Place
<1>5. \A hits : Hol!Discovered(hits) = TrustP!Discovered(hits)
  BY <1>2, Zenon DEF Hol!Discovered, TrustP!Discovered
<1>6. \A hits : Hol!Candidates(hits) = TrustP!Candidates(hits)
  BY <1>2, <1>4, Zenon DEF Hol!Candidates, TrustP!Candidates
<1> QED BY <1>1, <1>5, <1>6

\* The same contacts
LEMMA SameBroker ==
    /\ Hol!HolInit => TrustP!HolInit
    /\ Hol!HolNext => TrustP!HolNext
<1>1. Hol!HolInit => TrustP!HolInit
  BY Zenon DEF Hol!HolInit, TrustP!HolInit, Hol!IdleUse, TrustP!IdleUse, Hol!NoChat, TrustP!NoChat,
         Hol!Unregistered, TrustP!Unregistered, Hol!IdleReg, TrustP!IdleReg
<1>2. \A u : Hol!Skipped(u) = TrustP!Skipped(u)
  BY Zenon DEF Hol!Skipped, TrustP!Skipped
<1>4. \A a : Hol!Expire(a) => TrustP!Expire(a)
  BY DEF Hol!Expire, TrustP!Expire, Hol!contactVars, TrustP!contactVars, Hol!localVars, TrustP!localVars
<1>5. \A r : Hol!UseSearch(r) => TrustP!UseSearch(r)
  <2> SUFFICES ASSUME NEW r, Hol!UseSearch(r) PROVE TrustP!UseSearch(r)
    BY Zenon
  <2>1. PICK first \in Hol!Hits, second \in Hol!Hits :
          \E some \in Hol!Discovered(first \o second) : \E cands \in Hol!Candidates(some) :
            use' = [use EXCEPT ![r] = [pc |-> Hol!Refused(cands), todo |-> cands, told |-> << >>]]
    BY Zenon DEF Hol!UseSearch
  <2>2. \A cands : Hol!Refused(cands) = TrustP!Refused(cands)
    BY DEF Hol!Refused, TrustP!Refused
  <2>3. \E some \in TrustP!Discovered(first \o second) : \E cands \in TrustP!Candidates(some) :
          use' = [use EXCEPT ![r] = [pc |-> TrustP!Refused(cands), todo |-> cands, told |-> << >>]]
    BY <2>1, <2>2, SameSearches
  <2>4. first \in TrustP!Hits /\ second \in TrustP!Hits
    BY <2>1, SameSearches
  <2>5. use[r].pc = "idle" /\ UNCHANGED <<contacts, traces, chat, meta, reg, issued, failures>>
    BY DEF Hol!UseSearch, Hol!localVars
  <2> QED BY <2>3, <2>4, <2>5 DEF TrustP!UseSearch, TrustP!localVars
<1>6. \A r, a : Hol!UseNamed(r, a) => TrustP!UseNamed(r, a)
  BY DEF Hol!UseNamed, TrustP!UseNamed, Hol!contactVars, TrustP!contactVars, Hol!localVars, TrustP!localVars
<1>7. \A r : Hol!UseSession(r) => TrustP!UseSession(r)
  BY <1>2, SameAnswers DEF Hol!UseSession, TrustP!UseSession, Hol!contactVars, TrustP!contactVars,
       Hol!localVars, TrustP!localVars
<1>8. \A r : Hol!UseSend(r) => TrustP!UseSend(r)
  BY <1>2, SameAnswers DEF Hol!UseSend, TrustP!UseSend, Hol!contactVars, TrustP!contactVars, Hol!localVars, TrustP!localVars
<1>9. \A r : Hol!UseRecord(r) => TrustP!UseRecord(r)
  BY SameAnswers DEF Hol!UseRecord, TrustP!UseRecord, Hol!contactVars, TrustP!contactVars, Hol!localVars, TrustP!localVars
<1>10. \A c, a : Hol!ChatOpen(c, a) => TrustP!ChatOpen(c, a)
  BY SameAnswers DEF Hol!ChatOpen, TrustP!ChatOpen, Hol!NoChat, TrustP!NoChat, Hol!contactVars,
       TrustP!contactVars, Hol!localVars, TrustP!localVars
<1>11. \A c : Hol!ChatSay(c) => TrustP!ChatSay(c)
  BY SameAnswers DEF Hol!ChatSay, TrustP!ChatSay, Hol!contactVars, TrustP!contactVars, Hol!localVars, TrustP!localVars
<1>12. Hol!HolRestart => TrustP!HolRestart
  BY Zenon DEF Hol!HolRestart, TrustP!HolRestart, Hol!IdleReg, TrustP!IdleReg, Hol!Unregistered,
       TrustP!Unregistered, Hol!contactVars, TrustP!contactVars, Hol!localVars, TrustP!localVars
<1>13. Hol!HolNext => TrustP!HolNext
  BY <1>4, <1>5, <1>6, <1>7, <1>8, <1>9, <1>10, <1>11, <1>12, Zenon DEF Hol!HolNext, TrustP!HolNext
<1> QED BY <1>1, <1>13

\* The same registrations
LEMMA SameRegistrations ==
    /\ Local!HolInit => LocalP!HolInit
    /\ Local!HolNext => LocalP!HolNext
<1>1. Local!Unregistered = LocalP!Unregistered /\ Local!IdleReg = LocalP!IdleReg
  BY Zenon DEF Local!Unregistered, LocalP!Unregistered, Local!IdleReg, LocalP!IdleReg
<1>2. Local!HolInit => LocalP!HolInit
  BY <1>1, Zenon DEF Local!HolInit, LocalP!HolInit, Local!IdleUse, LocalP!IdleUse, Local!NoChat, LocalP!NoChat
<1>4. \A column : Local!Prepared(column) = LocalP!Prepared(column)
  BY Zenon DEF Local!Prepared, LocalP!Prepared
<1>5. Local!RegisterAnswers = LocalP!RegisterAnswers
  <2>1. Local!FailedCalls = LocalP!FailedCalls
    BY Zenon DEF Local!FailedCalls, LocalP!FailedCalls, Local!Errors, LocalP!Errors
  <2> QED BY <2>1, Zenon DEF Local!RegisterAnswers, LocalP!RegisterAnswers
<1>6. \A previous, e : Local!ErrorStatus(previous, e) = LocalP!ErrorStatus(previous, e)
  BY Zenon DEF Local!ErrorStatus, LocalP!ErrorStatus, Local!Fallback, LocalP!Fallback
<1>7. \A r : Local!RegLoad(r) => LocalP!RegLoad(r)
  BY DEF Local!RegLoad, LocalP!RegLoad, Local!contactVars, LocalP!contactVars
<1>8. \A r : Local!RegRefused(r) => LocalP!RegRefused(r)
  BY <1>1 DEF Local!RegRefused, LocalP!RegRefused, Local!contactVars, LocalP!contactVars
<1>9. \A r : Local!RegQuote(r) => LocalP!RegQuote(r)
  BY <1>1, <1>4 DEF Local!RegQuote, LocalP!RegQuote, Local!contactVars, LocalP!contactVars
<1>10. \A r : Local!RegCall(r) => LocalP!RegCall(r)
  BY <1>1, <1>4, <1>5, <1>6 DEF Local!RegCall, LocalP!RegCall, Local!contactVars, LocalP!contactVars
<1>11. Local!HolRestart => LocalP!HolRestart
  BY <1>1, <1>4, Zenon DEF Local!HolRestart, LocalP!HolRestart
<1>12. Local!HolNext => LocalP!HolNext
  BY <1>7, <1>8, <1>9, <1>10, <1>11, Zenon DEF Local!HolNext, LocalP!HolNext
<1> QED BY <1>2, <1>12

\* No agent gets a message twice, and a registered agent has its UAID, in the behaviours
\* of the services about contacts and about registrations.
THEOREM BrokerHolds == Spec => []BrokerIsTrue
<1> DEFINE I == /\ focus = "broker" => TrustP!BrokerInv
                /\ focus = "registration" => LocalP!BrokerInv
<1>1. Init => I
  <2> SUFFICES ASSUME Init PROVE I
    OBVIOUS
  <2>1. (focus = "broker" => Hol!HolInit) /\ (focus = "registration" => Local!HolInit)
    BY DEF Init
  <2> QED BY <2>1, SameBroker, SameRegistrations, TrustP!BrokerInit, LocalP!BrokerInit
<1>2. I /\ [Next]_vars => I'
  <2> SUFFICES ASSUME I, [Next]_vars PROVE I'
    OBVIOUS
  <2>1. focus' = focus
    BY DEF Next, vars
  <2>2. ASSUME focus = "broker" PROVE TrustP!BrokerInv'
    <3>1. Hol!HolNext \/ UNCHANGED holVars
      BY <2>2 DEF Next, vars
    <3>2. [TrustP!HolNext]_TrustP!holVars
      BY <3>1, SameBroker DEF holVars, TrustP!holVars
    <3> QED BY <2>2, <3>2, TrustP!BrokerNext
  <2>3. ASSUME focus = "registration" PROVE LocalP!BrokerInv'
    <3>1. Local!HolNext \/ UNCHANGED holVars
      BY <2>3 DEF Next, vars
    <3>2. [LocalP!HolNext]_LocalP!holVars
      BY <3>1, SameRegistrations DEF holVars, LocalP!holVars
    <3> QED BY <2>3, <3>2, LocalP!BrokerNext
  <2> QED BY <2>1, <2>2, <2>3
<1>3. I => BrokerIsTrue
  <2>1. TrustP!BrokerInv => Hol!AskedOnce
    <3>1. TrustP!BrokerInv => TrustP!AskedOnce
      BY DEF TrustP!BrokerInv, TrustP!UseInv, TrustP!UseOK, TrustP!AskedOnce
    <3> QED BY <3>1, Zenon DEF Hol!AskedOnce, TrustP!AskedOnce, Hol!IsInjective, TrustP!IsInjective
  <2>2. LocalP!BrokerInv => Local!RegisteredHasUaid
    BY DEF LocalP!BrokerInv, LocalP!RegInv, LocalP!ColumnOK, Local!RegisteredHasUaid
  <2> QED BY <2>1, <2>2 DEF BrokerIsTrue
<1> QED BY <1>1, <1>2, <1>3, PTL DEF Spec

-----------------------------------------------------------------------------
(* Reputation *)

\* The same rows of ratings
LEMMA SameRating ==
    /\ Rating!ReputationInit => TrustP!ReputationInit
    /\ Rating!ReputationNext => TrustP!ReputationNext
<1>1. \A score : Rating!NewRow(score) = TrustP!NewRow(score)
  BY DEF Rating!NewRow, TrustP!NewRow
<1>2. Rating!Resting = TrustP!Resting
  BY <1>1, ZenonT(40) DEF Rating!Resting, TrustP!Resting
<1>3. \A doing, at, row, read : Rating!Updating(doing, at, row, read) = TrustP!Updating(doing, at, row, read)
  BY DEF Rating!Updating, TrustP!Updating
<1>4. \A row, success, grade :
        /\ Rating!Executed(row, success, grade) = TrustP!Executed(row, success, grade)
        /\ Rating!Graded(row, success, grade) = TrustP!Graded(row, success, grade)
  BY DEF Rating!Executed, TrustP!Executed, Rating!Graded, TrustP!Graded, Rating!Counted, TrustP!Counted,
         Rating!VerifierScore, TrustP!VerifierScore, Rating!AgentScore, TrustP!AgentScore,
         Rating!Multiplier, TrustP!Multiplier
<1>5. \A s, state : Rating!Now(s, state) = TrustP!Now(s, state)
  BY DEF Rating!Now, TrustP!Now
<1>6. \A s : Rating!AtRest(s) = TrustP!AtRest(s) /\ Rating!Write(s) = TrustP!Write(s)
  BY DEF Rating!AtRest, TrustP!AtRest, Rating!Write, TrustP!Write
<1>7. \A success : Rating!Record(success) = TrustP!Record(success)
  BY DEF Rating!Record, TrustP!Record
<1>8. Rating!FirstOrNew = TrustP!FirstOrNew /\ Rating!Numbers = TrustP!Numbers
  <2>1. Rating!Rows = TrustP!Rows
    BY Zenon DEF Rating!Rows, TrustP!Rows
  <2>2. Rating!FirstOrNew = TrustP!FirstOrNew
    <3>1. Rating!NewRow(5000) = TrustP!NewRow(5000)
      BY <1>1
    <3>2. CASE ratings = << >>
      <4>1. Rating!FirstOrNew = {[at |-> 0, row |-> Rating!NewRow(5000)]}
        BY <3>2 DEF Rating!FirstOrNew
      <4>2. TrustP!FirstOrNew = {[at |-> 0, row |-> TrustP!NewRow(5000)]}
        BY <3>2 DEF TrustP!FirstOrNew
      <4>3. [at |-> 0, row |-> Rating!NewRow(5000)] = [at |-> 0, row |-> TrustP!NewRow(5000)]
        BY <3>1
      <4>4. \A x, y : x = y => {x} = {y}
        OBVIOUS
      <4>5. {[at |-> 0, row |-> Rating!NewRow(5000)]} = {[at |-> 0, row |-> TrustP!NewRow(5000)]}
        BY <4>3, <4>4
      <4> QED BY <4>1, <4>2, <4>5
    <3>3. CASE ratings # << >>
      <4>1. Rating!FirstOrNew = Rating!Rows
        BY <3>3 DEF Rating!FirstOrNew
      <4>2. TrustP!FirstOrNew = TrustP!Rows
        BY <3>3 DEF TrustP!FirstOrNew
      <4> QED BY <2>1, <4>1, <4>2, Zenon
    <3> QED BY <3>2, <3>3
  <2> QED BY <2>2 DEF Rating!Numbers, TrustP!Numbers
<1>9. Rating!Register => TrustP!Register
  BY <1>2, <1>5, <1>6 DEF Rating!Register, TrustP!Register
<1>10. Rating!Registered => TrustP!Registered
  BY <1>1, <1>2, <1>5 DEF Rating!Registered, TrustP!Registered
<1>11. Rating!Execute => TrustP!Execute
  BY <1>3, <1>4, <1>5, <1>6 DEF Rating!Execute, TrustP!Execute
<1>12. Rating!ExecutedCommit => TrustP!ExecutedCommit
  BY <1>2, <1>3, <1>4, <1>5, <1>6, <1>7 DEF Rating!ExecutedCommit, TrustP!ExecutedCommit
<1>13. Rating!Increase => TrustP!Increase
  BY <1>3, <1>4, <1>5, <1>6, <1>8, ZenonT(40) DEF Rating!Increase, TrustP!Increase
<1>14. Rating!Decrease => TrustP!Decrease
  BY <1>3, <1>4, <1>5, <1>6, <1>8, ZenonT(40) DEF Rating!Decrease, TrustP!Decrease
<1>15. Rating!GradeCommit => TrustP!GradeCommit
  BY <1>2, <1>5, <1>6, <1>7 DEF Rating!GradeCommit, TrustP!GradeCommit
<1>16. Rating!VoteUp => TrustP!VoteUp
  BY <1>2, <1>5, <1>8 DEF Rating!VoteUp, TrustP!VoteUp
<1>17. Rating!VoteDown => TrustP!VoteDown
  BY <1>2, <1>5, <1>8 DEF Rating!VoteDown, TrustP!VoteDown
<1>18. Rating!Sync => TrustP!Sync
  BY <1>1, <1>5, <1>6 DEF Rating!Sync, TrustP!Sync
<1>19. Rating!SyncCommit => TrustP!SyncCommit
  BY <1>1, <1>2, <1>5 DEF Rating!SyncCommit, TrustP!SyncCommit, Rating!Synced, TrustP!Synced
<1>20. Rating!ReputationNext => TrustP!ReputationNext
  BY <1>9, <1>10, <1>11, <1>12, <1>13, <1>14, <1>15, <1>16, <1>17, <1>18, <1>19
     DEF Rating!ReputationNext, TrustP!ReputationNext
<1>21. Rating!ReputationInit => TrustP!ReputationInit
  BY <1>2 DEF Rating!ReputationInit, TrustP!ReputationInit
<1> QED BY <1>20, <1>21

\* An agent's reputation is earned in its behaviours: its rows count every recorded outcome
\* once, whatever fails to commit and whatever the sync writes in between, and no bonus
\* goes to an agent that mostly fails.
THEOREM ReputationHolds == Spec => []ReputationIsEarned
<1> DEFINE I == focus = "rating" => TrustP!RatingInv
<1>1. TrustP!GradesOK /\ TrustP!Worst = 85
  <2>1. {0, 60} \subseteq 0..85
    OBVIOUS
  <2> QED BY <2>1 DEF TrustP!GradesOK, TrustP!Worst
<1>2. Init => I
  BY <1>1, SameRating, TrustP!RatingInit DEF Init
<1>3. I /\ [Next]_vars => I'
  <2> SUFFICES ASSUME I, [Next]_vars, focus' = "rating" PROVE TrustP!RatingInv'
    OBVIOUS
  <2>1. focus = "rating" /\ (Rating!ReputationNext \/ UNCHANGED ratingVars)
    BY DEF Next, vars
  <2>2. [TrustP!ReputationNext]_TrustP!reputationVars
    BY <2>1, SameRating DEF ratingVars, TrustP!reputationVars
  <2> QED BY <1>1, <2>1, <2>2, TrustP!RatingNext
<1>4. I => ReputationIsEarned
  <2>1. \A k : Rating!OkIn(k) = TrustP!OkIn(k) /\ Rating!BadIn(k) = TrustP!BadIn(k)
    BY DEF Rating!OkIn, TrustP!OkIn, Rating!BadIn, TrustP!BadIn
  <2>2. TrustP!ReputationIsEarned => Rating!ReputationIsEarned
    <3>1. \A row : TrustP!Fair(row) => Rating!Fair(row)
      <4> SUFFICES ASSUME NEW row, TrustP!Fair(row) PROVE Rating!Fair(row)
        OBVIOUS
      <4>1. row.total = row.ok + row.bad /\ row.score \in TrustP!Fractions
        BY DEF TrustP!Fair
      <4>2. row.multiplier = 12 => 2 * row.ok > row.total
        BY DEF TrustP!Fair
      <4>3. Rating!Fractions = TrustP!Fractions
        BY DEF Rating!Fractions, TrustP!Fractions
      <4> QED BY <4>1, <4>2, <4>3 DEF Rating!Fair
    <3> QED BY <2>1, <3>1, Zenon DEF Rating!ReputationIsEarned, TrustP!ReputationIsEarned
  <2> QED BY <1>1, <2>2, TrustP!RatingLemma, Zenon DEF ReputationIsEarned
<1> QED BY <1>2, <1>3, <1>4, PTL DEF Spec

-----------------------------------------------------------------------------
(* Reconciliation *)

\* The same Cardinality
LEMMA SameCardinality ==
    \A S : Notice!Cardinality(S) = VerdictP!Cardinality(S) /\ Verify!Cardinality(S) = VerdictP!Cardinality(S)
  BY DEF Notice!Cardinality, VerdictP!Cardinality, Verify!Cardinality

\* The same tables, as its instances read them
LEMMA SameNotices ==
    /\ Notice!ReconciliationInit => VerdictP!ReconciliationInit
    /\ Notice!ReconciliationNext => VerdictP!ReconciliationNext
<1> USE DEF Notice!Final, VerdictP!Final, Notice!Recipients, VerdictP!Recipients
<1>1. Notice!ReconciliationInit => VerdictP!ReconciliationInit
  BY DEF Notice!ReconciliationInit, VerdictP!ReconciliationInit, Notice!Resting, VerdictP!Resting
<1>2. Notice!Settle => VerdictP!Settle
  BY DEF Notice!Settle, VerdictP!Settle, Notice!Messages, VerdictP!Messages, Notice!Stored, VerdictP!Stored
<1>3. Notice!LateFailure \/ Notice!LoseNotice => VerdictP!LateFailure \/ VerdictP!LoseNotice
  BY DEF Notice!LateFailure, VerdictP!LateFailure, Notice!LoseNotice, VerdictP!LoseNotice
<1>4. \A r, from, state : Notice!Reads(r, from, state) = VerdictP!Reads(r, from, state)
  BY DEF Notice!Reads, VerdictP!Reads
<1>5. Notice!UnchangedTables = VerdictP!UnchangedTables
  BY DEF Notice!UnchangedTables, VerdictP!UnchangedTables
<1>6. \A seen : Notice!Expected(seen) = VerdictP!Expected(seen)
  BY DEF Notice!Expected, VerdictP!Expected
<1>7. \A r : Notice!ReadPayment(r) => VerdictP!ReadPayment(r)
  BY <1>4, <1>5, SameCardinality DEF Notice!ReadPayment, VerdictP!ReadPayment, Notice!Resting, VerdictP!Resting
<1>8. \A r : Notice!ReadEvents(r) => VerdictP!ReadEvents(r)
  BY <1>4, <1>5 DEF Notice!ReadEvents, VerdictP!ReadEvents
<1>9. \A r : Notice!ReadTransitions(r) => VerdictP!ReadTransitions(r)
  BY <1>4, <1>5, <1>6 DEF Notice!ReadTransitions, VerdictP!ReadTransitions
<1>10. \A r : Notice!ReadNotices(r) => VerdictP!ReadNotices(r)
  BY <1>4, <1>5 DEF Notice!ReadNotices, VerdictP!ReadNotices
<1>11. ASSUME NEW r, Notice!ReconcileCommit(r) PROVE VerdictP!ReconcileCommit(r)
  <2> DEFINE k == reconciler[r]
             missing == {m \in [type : Notice!Expected(k.seen), to : Notice!Recipients] :
                            ~Notice!Notified(k.notices, m.type, m.to)}
             repairable == {m \in missing : k.repair /\ Notice!Rebuildable(k.events, m.type, m.to) # {}}
             rebuilt == {Notice!Earliest(Notice!Rebuildable(k.events, m.type, m.to)) : m \in repairable}
             missingP == {m \in [type : VerdictP!Expected(k.seen), to : VerdictP!Recipients] :
                            ~VerdictP!Notified(k.notices, m.type, m.to)}
             repairableP == {m \in missingP : k.repair /\ VerdictP!Rebuildable(k.events, m.type, m.to) # {}}
             rebuiltP == {VerdictP!Earliest(VerdictP!Rebuildable(k.events, m.type, m.to)) : m \in repairableP}
  <2>1. missing = missingP
    BY <1>6 DEF Notice!Notified, VerdictP!Notified
  <2>2. \A stored, a, p : Notice!Rebuildable(stored, a, p) = VerdictP!Rebuildable(stored, a, p)
    BY DEF Notice!Rebuildable, VerdictP!Rebuildable
  <2>3. \A stored : Notice!Earliest(stored) = VerdictP!Earliest(stored)
    BY DEF Notice!Earliest, VerdictP!Earliest
  <2>4. repairable = repairableP
    BY <2>1, <2>2
  <2>5. rebuilt = rebuiltP
    BY <2>2, <2>3, <2>4
  <2>6. \A i, n : Notice!Verdict(i, n) = VerdictP!Verdict(i, n)
    BY DEF Notice!Verdict, VerdictP!Verdict
  <2>7. Notice!Resting = VerdictP!Resting
    BY DEF Notice!Resting, VerdictP!Resting
  <2> QED BY <1>4, <1>6, <1>11, <2>1, <2>4, <2>5, <2>6, <2>7, SameCardinality
             DEF Notice!ReconcileCommit, VerdictP!ReconcileCommit
<1>12. Notice!ReconciliationNext => VerdictP!ReconciliationNext
  BY <1>2, <1>3, <1>7, <1>8, <1>9, <1>10, <1>11 DEF Notice!ReconciliationNext, VerdictP!ReconciliationNext
<1> QED BY <1>1, <1>12

\* A payment's reconciliation is right in its behaviours: what it calls matched or repaired
\* is, whatever is settled, lost or repaired between its reads.
THEOREM NoticesReconcile == Spec => []ReconciliationIsTrue
<1> DEFINE I == focus = "notices" => VerdictP!ReconcileInv
<1>1. Init => I
  BY SameNotices, VerdictP!ReconcileInitInv DEF Init
<1>2. I /\ [Next]_vars => I'
  <2> SUFFICES ASSUME I, [Next]_vars, focus' = "notices" PROVE VerdictP!ReconcileInv'
    OBVIOUS
  <2>1. focus = "notices" /\ (Notice!ReconciliationNext \/ UNCHANGED noticeVars)
    BY DEF Next, vars
  <2>2. [VerdictP!ReconciliationNext]_VerdictP!reconciliationVars
    BY <2>1, SameNotices DEF noticeVars, VerdictP!reconciliationVars
  <2> QED BY <2>1, <2>2, VerdictP!ReconcileNextInv
<1>3. I => ReconciliationIsTrue
  BY DEF ReconciliationIsTrue, VerdictP!ReconcileInv, VerdictP!ReconciliationIsTrue, Notice!ReconciliationIsTrue,
         VerdictP!Recipients, Notice!Recipients
<1> QED BY <1>1, <1>2, <1>3, PTL DEF Spec

-----------------------------------------------------------------------------
(* Verification *)

\* The same contract
LEMMA SameContract ==
    /\ \A r, c : Verify!Issues(r, c) = VerdictP!Issues(r, c)
    /\ \A r, c : Verify!Finalized(r, c) = VerdictP!Finalized(r, c)
    /\ \A r, c, overall, ethics, base :
         Verify!Passes(r, c, overall, ethics, base) = VerdictP!Passes(r, c, overall, ethics, base)
<1>1. \A r : Verify!Uncovered(r) = VerdictP!Uncovered(r)
  BY DEF Verify!Uncovered, VerdictP!Uncovered, Verify!Covers, VerdictP!Covers, Verify!SupportOf, VerdictP!SupportOf
<1>2. \A r : Verify!CoveredCount(r) = VerdictP!CoveredCount(r)
  BY <1>1, SameCardinality DEF Verify!CoveredCount, VerdictP!CoveredCount
<1>3. \A r, c : Verify!Issues(r, c) = VerdictP!Issues(r, c)
  BY <1>1, <1>2 DEF Verify!Issues, VerdictP!Issues
<1>4. \A r : Verify!RoundedCoverage(r) = VerdictP!RoundedCoverage(r)
  BY <1>2 DEF Verify!RoundedCoverage, VerdictP!RoundedCoverage
<1>5. \A r, c : Verify!Summary(r, c) = VerdictP!Summary(r, c)
  BY <1>1, <1>3, <1>4 DEF Verify!Summary, VerdictP!Summary
<1>6. \A r, c : Verify!Finalized(r, c) = VerdictP!Finalized(r, c)
  BY <1>5 DEF Verify!Finalized, VerdictP!Finalized
<1>7. \A r : Verify!SourceCount(r) = VerdictP!SourceCount(r)
  BY SameCardinality DEF Verify!SourceCount, VerdictP!SourceCount
<1>8. \A r, c, a : Verify!Votes(r, c, a) = VerdictP!Votes(r, c, a)
  <2> TAKE r, c, a
  <2>1. Verify!SourceCount(r) = VerdictP!SourceCount(r)
    BY <1>7
  <2>2. Verify!NoCoverage = VerdictP!NoCoverage
    BY DEF Verify!NoCoverage, VerdictP!NoCoverage
  <2>3. Verify!If(r.citations # {}, 1000) = VerdictP!If(r.citations # {}, 1000)
    BY DEF Verify!If, VerdictP!If
  <2> DEFINE Vote(relevant, approved) == IF relevant THEN <<approved>> ELSE << >>
             coverage == IF r.summary.coverage # Verify!NoCoverage THEN r.summary.coverage ELSE Verify!If(r.citations # {}, 1000)
             coverageP == IF r.summary.coverage # VerdictP!NoCoverage THEN r.summary.coverage ELSE VerdictP!If(r.citations # {}, 1000)
             covered == Vote(c.strategy \in {"curate_sources", "revise_final_answer"} \/ r.citations # {}
                               \/ r.summary.coverage # Verify!NoCoverage, coverage >= c.minCoverage)
             coveredP == Vote(c.strategy \in {"curate_sources", "revise_final_answer"} \/ r.citations # {}
                                \/ r.summary.coverage # VerdictP!NoCoverage, coverageP >= c.minCoverage)
             sourced == Vote(c.strategy \in {"gather_evidence", "curate_sources"} \/ Verify!SourceCount(r) > 0
                               \/ r.sourceSummary \/ r.freshness, Verify!SourceCount(r) >= c.minSources)
             sourcedP == Vote(c.strategy \in {"gather_evidence", "curate_sources"} \/ VerdictP!SourceCount(r) > 0
                                \/ r.sourceSummary \/ r.freshness, VerdictP!SourceCount(r) >= c.minSources)
             recent == Vote(r.freshness \/ (c.strategy \in {"gather_evidence", "curate_sources", "revise_final_answer"}
                                             /\ c.minFresh > 0), r.fresh >= c.minFresh)
             checked == Vote(c.strategy \in {"critique_and_fact_check", "revise_final_answer"} \/ r.findings > 0
                               \/ r.summary.uncovered # {}, r.highFindings = 0 /\ r.summary.uncovered = {})
  <2>4. covered = coveredP
    BY <2>2, <2>3
  <2>5. sourced = sourcedP
    BY <2>1
  <2>6. Verify!Votes(r, c, a) = <<a>> \o covered \o sourced \o recent \o checked
    BY DEF Verify!Votes
  <2>7. VerdictP!Votes(r, c, a) = <<a>> \o coveredP \o sourcedP \o recent \o checked
    BY DEF VerdictP!Votes
  <2> HIDE DEF covered, coveredP, sourced, sourcedP, recent, checked
  <2> QED BY <2>4, <2>5, <2>6, <2>7
<1>9. \A p, n : Verify!RequiredApprovals(p, n) = VerdictP!RequiredApprovals(p, n)
  BY DEF Verify!RequiredApprovals, VerdictP!RequiredApprovals, Verify!Min, VerdictP!Min
<1>10. \A r, c, a : Verify!Quorum(r, c, a) = VerdictP!Quorum(r, c, a)
  <2> TAKE r, c, a
  <2>1. \A S : Verify!Min(S) = VerdictP!Min(S)
    BY DEF Verify!Min, VerdictP!Min
  <2>2. Verify!Votes(r, c, a) = VerdictP!Votes(r, c, a)
    BY <1>8
  <2> QED BY <1>9, <2>1, <2>2, SameCardinality DEF Verify!Quorum, VerdictP!Quorum
<1>11. \A r, c, overall, ethics, base :
         Verify!Passes(r, c, overall, ethics, base) = VerdictP!Passes(r, c, overall, ethics, base)
  BY <1>3, <1>6, <1>10 DEF Verify!Passes, VerdictP!Passes
<1> QED BY <1>3, <1>6, <1>11

\* The same scores
LEMMA SameScores ==
    /\ \A t : Verify!ChecksOf(t) = VerdictP!ChecksOf(t)
    /\ \A t : Verify!Overall(t) = VerdictP!Overall(t)
    /\ \A t : Verify!Ethics(t) = VerdictP!Ethics(t)
    /\ \A t : Verify!Decision(t) = VerdictP!Decision(t)
<1>1. \A x : Verify!Clamp(x) = VerdictP!Clamp(x)
  BY DEF Verify!Clamp, VerdictP!Clamp, Verify!Min, VerdictP!Min, Verify!Max, VerdictP!Max
<1>2. \A c, p : Verify!If(c, p) = VerdictP!If(c, p)
  BY DEF Verify!If, VerdictP!If
<1>3. \A m, e, o : Verify!Check(m, e, o) = VerdictP!Check(m, e, o)
  BY DEF Verify!Check, VerdictP!Check
<1>4. Verify!Checks = VerdictP!Checks
  BY <1>3 DEF Verify!Checks, VerdictP!Checks, Verify!IdeationChecks, VerdictP!IdeationChecks,
              Verify!KnowledgeChecks, VerdictP!KnowledgeChecks, Verify!ExperimentationChecks, VerdictP!ExperimentationChecks,
              Verify!InterpretationChecks, VerdictP!InterpretationChecks, Verify!PublicationChecks,
              VerdictP!PublicationChecks
<1>5. \A t : Verify!ChecksOf(t) = VerdictP!ChecksOf(t)
  BY <1>3, <1>4 DEF Verify!ChecksOf, VerdictP!ChecksOf
<1>6. \A t : Verify!Completeness(t) = VerdictP!Completeness(t)
  BY <1>1, <1>5, SameCardinality DEF Verify!Completeness, VerdictP!Completeness, Verify!If, VerdictP!If
<1>7. \A t : Verify!Correctness(t) = VerdictP!Correctness(t)
  BY <1>1 DEF Verify!Correctness, VerdictP!Correctness, Verify!If, VerdictP!If
<1>8. \A t : Verify!Rigor(t) = VerdictP!Rigor(t)
  BY <1>1 DEF Verify!Rigor, VerdictP!Rigor, Verify!If, VerdictP!If, Verify!Says, VerdictP!Says
<1>9. \A t : Verify!Clarity(t) = VerdictP!Clarity(t)
  BY <1>1, SameCardinality DEF Verify!Clarity, VerdictP!Clarity, Verify!If, VerdictP!If
<1>10. \A t : Verify!Innovation(t) = VerdictP!Innovation(t)
  BY <1>1 DEF Verify!Innovation, VerdictP!Innovation, Verify!If, VerdictP!If, Verify!Says, VerdictP!Says
<1>11. \A t : Verify!Ethics(t) = VerdictP!Ethics(t)
  BY <1>1, <1>5 DEF Verify!Ethics, VerdictP!Ethics, Verify!If, VerdictP!If, Verify!Says, VerdictP!Says
<1>12. \A t : Verify!Overall(t) = VerdictP!Overall(t)
  BY <1>6, <1>7, <1>8, <1>9, <1>10, <1>11 DEF Verify!Overall, VerdictP!Overall
<1>13. \A t : Verify!MakeDecision(t) = VerdictP!MakeDecision(t)
  BY <1>6, <1>7, <1>8, <1>9, <1>10, <1>11, <1>12
     DEF Verify!MakeDecision, VerdictP!MakeDecision, Verify!AllThresholdsMet, VerdictP!AllThresholdsMet
<1>14. \A t : Verify!Decision(t) = VerdictP!Decision(t)
  BY <1>13 DEF Verify!Decision, VerdictP!Decision
<1> QED BY <1>5, <1>11, <1>12, <1>14

LEMMA SameVerification ==
    /\ Verify!VerificationInit => VerdictP!VerificationInit
    /\ Verify!VerificationNext => VerdictP!VerificationNext
<1>1. \A reply : Verify!Extracted(reply) = VerdictP!Extracted(reply)
  BY DEF Verify!Extracted, VerdictP!Extracted
<1>2. \A passes : Verify!VerdictOf(passes) = VerdictP!VerdictOf(passes)
  BY DEF Verify!VerdictOf, VerdictP!VerdictOf
<1>3. Verify!Relay => VerdictP!Relay
  BY <1>1, SameContract DEF Verify!Relay, VerdictP!Relay, Verify!VerdictOf, VerdictP!VerdictOf
<1>4. Verify!Score => VerdictP!Score
  <2>1. \A score : Verify!BasePasses(score) = VerdictP!BasePasses(score)
    BY DEF Verify!BasePasses, VerdictP!BasePasses
  <2> QED BY <1>2, <2>1, SameContract, SameScores DEF Verify!Score, VerdictP!Score
<1>5. Verify!VerificationInit => VerdictP!VerificationInit
  BY DEF Verify!VerificationInit, VerdictP!VerificationInit
<1> QED BY <1>3, <1>4, <1>5 DEF Verify!VerificationNext, VerdictP!VerificationNext

\* The inputs of the instance are inputs of a verification.
LEMMA TaskInputs == VerdictP!Inputs
<1> DEFINE Claims == [ids : SUBSET {"S1", "S2"}, titles : SUBSET {"S1", "S2"}]
           Lists == UNION {[1..n -> ClaimShapes] : n \in 0..2}
<1>1. ClaimShapes \subseteq Claims
  BY DEF ClaimShapes
<1>2. Lists \subseteq Seq(Claims)
  <2>1. ASSUME NEW n \in 0..2, NEW list \in [1..n -> ClaimShapes] PROVE list \in Seq(Claims)
    <3>1. n \in Nat /\ list \in [1..n -> Claims]
      BY <1>1
    <3> HIDE DEF Claims
    <3> QED BY <3>1, SeqDef
  <2> QED BY <2>1
<1>3. ASSUME NEW r \in TaskResults PROVE VerdictP!ResultOK(r)
  <2>1. PICK list \in Lists, cited \in {{}, {"S1"}, {"S1", "S2"}} :
          {"claims", "citations", "summary"} \subseteq DOMAIN r /\ r.claims = list /\ r.citations = cited
    BY DEF TaskResults
  <2>2. cited \in SUBSET {"S1", "S2"}
    OBVIOUS
  <2> HIDE DEF Lists
  <2> QED BY <1>2, <2>1, <2>2 DEF VerdictP!ResultOK, VerdictP!Claims
<1>4. \A c \in TaskCriteria : c.minClaims \in Nat
  BY DEF TaskCriteria
<1>5. \A t \in TaskTexts : t.placeholders \in Nat
  <2> DEFINE twoMissing == [GoodText EXCEPT !.issues = {"methods", "results"}]
             unfinished == [GoodText EXCEPT !.errors = 4, !.placeholders = 5, !.length = "short", !.words = {}]
             unreviewed == [GoodText EXCEPT !.phase = "interpretation", !.role = "compliance_checker", !.issues = {"review"}]
  <2>1. "placeholders" \in DOMAIN GoodText /\ GoodText.placeholders = 0
    BY DEF GoodText
  <2>2. twoMissing.placeholders = 0 /\ unfinished.placeholders = 5 /\ unreviewed.placeholders = 0
    BY <2>1
  <2>3. TaskTexts = {GoodText, twoMissing, unfinished, unreviewed}
    BY DEF TaskTexts
  <2> HIDE DEF twoMissing, unfinished, unreviewed
  <2> QED BY <2>1, <2>2, <2>3
<1> QED BY <1>3, <1>4, <1>5 DEF VerdictP!Inputs

\* The verdict on a microtask is earned in its behaviours: an answer that is approved is
\* cited claim by claim, and no accepted output lacks what its role needs.
THEOREM VerdictsHold == Spec => []VerdictIsEarned
<1> DEFINE I == focus = "verification" => VerdictP!VerifyInv
<1>1. Init => I
  BY SameVerification, TaskInputs, VerdictP!VerifyInitInv DEF Init
<1>2. I /\ [Next]_vars => I'
  <2> SUFFICES ASSUME I, [Next]_vars, focus' = "verification" PROVE VerdictP!VerifyInv'
    OBVIOUS
  <2>1. focus = "verification" /\ (Verify!VerificationNext \/ UNCHANGED verificationVars)
    BY DEF Next, vars
  <2>2. [VerdictP!VerificationNext]_VerdictP!verificationVars
    BY <2>1, SameVerification DEF verificationVars, VerdictP!verificationVars
  <2> QED BY <2>1, <2>2, VerdictP!VerifyNextInv
<1>3. I => VerdictIsEarned
  <2> SUFFICES ASSUME VerdictP!VerifyInv PROVE Verify!ApprovedAnswerIsCited /\ Verify!AcceptedIsSound
    BY DEF VerdictIsEarned
  <2>1. Verify!ApprovedAnswerIsCited
    BY DEF VerdictP!VerifyInv, VerdictP!ApprovedAnswerIsCited, Verify!ApprovedAnswerIsCited
  <2>2. text.placeholders \in Nat
    BY DEF VerdictP!VerifyInv
  <2>3. Verify!AcceptedIsSound
    BY <2>2, VerdictP!AcceptedLemma, SameScores, SameCardinality DEF Verify!AcceptedIsSound
  <2> QED BY <2>1, <2>3
<1> QED BY <1>1, <1>2, <1>3, PTL DEF Spec

-----------------------------------------------------------------------------
(* Attempts *)

\* The same plan and the same ranking of agents
LEMMA SameRanking ==
    /\ Attempt!Plan = VerdictP!Plan
    /\ \A S : Attempt!Cardinality(S) = VerdictP!Cardinality(S)
    /\ \A S : Attempt!Min(S) = VerdictP!Min(S)
    /\ \A S : Attempt!Max(S) = VerdictP!Max(S)
    /\ \A some, score : Attempt!First(some, score) = VerdictP!First(some, score)
    /\ \A step, preferred, excluded : Attempt!Selected(step, preferred, excluded) = VerdictP!Selected(step, preferred, excluded)
    /\ \A step : Attempt!NewNode(step) = VerdictP!NewNode(step)
<1>1. Attempt!Plan = VerdictP!Plan
  BY Zenon DEF Attempt!Plan, VerdictP!Plan, Attempt!Step, VerdictP!Step
<1>2. \A S : Attempt!Cardinality(S) = VerdictP!Cardinality(S)
  BY Zenon DEF Attempt!Cardinality, VerdictP!Cardinality
<1>3. \A S : Attempt!Min(S) = VerdictP!Min(S)
  BY Zenon DEF Attempt!Min, VerdictP!Min
<1>4. \A S : Attempt!Max(S) = VerdictP!Max(S)
  BY Zenon DEF Attempt!Max, VerdictP!Max
<1>5. \A a : Attempt!Listed(a) = VerdictP!Listed(a)
  BY Zenon DEF Attempt!Listed, VerdictP!Listed
<1>6. \A a : Attempt!ListedReputation(a) = VerdictP!ListedReputation(a)
  BY Zenon DEF Attempt!ListedReputation, VerdictP!ListedReputation
<1>7. \A a, step : Attempt!HasContract(a, step) = VerdictP!HasContract(a, step)
  BY Zenon DEF Attempt!HasContract, VerdictP!HasContract
<1>8. \A a, step : Attempt!Fits(a, step) = VerdictP!Fits(a, step)
  BY <1>5, <1>7, Zenon DEF Attempt!Fits, VerdictP!Fits
<1>9. \A a, preferred : Attempt!MatchScore(a, preferred) = VerdictP!MatchScore(a, preferred)
  BY <1>6, Zenon DEF Attempt!MatchScore, VerdictP!MatchScore
<1>10. \A preferred : Attempt!MatchScores(preferred) = VerdictP!MatchScores(preferred)
  BY <1>9, Zenon DEF Attempt!MatchScores, VerdictP!MatchScores
<1>11. \A step, excluded : Attempt!Ranked(step, excluded) = VerdictP!Ranked(step, excluded)
  BY <1>8, Zenon DEF Attempt!Ranked, VerdictP!Ranked
<1>12. \A some, score : Attempt!Foremost(some, score) = VerdictP!Foremost(some, score)
  BY Zenon DEF Attempt!Foremost, VerdictP!Foremost
<1>13. \A step : Attempt!Best(step) = VerdictP!Best(step)
  BY <1>11, <1>12, <1>10, Zenon DEF Attempt!Best, VerdictP!Best
<1>14. \A step, preferred, excluded : Attempt!Selected(step, preferred, excluded) = VerdictP!Selected(step, preferred, excluded)
  BY <1>11, <1>12, <1>10, <1>13, Zenon DEF Attempt!Selected, VerdictP!Selected
<1>15. \A some, score : Attempt!First(some, score) = VerdictP!First(some, score)
  BY DEF Attempt!First, VerdictP!First, Attempt!Foremost, VerdictP!Foremost
<1>16. ASSUME NEW step
       PROVE  Attempt!NewNode(step) = VerdictP!NewNode(step)
  <2>1. \A preferred : [a \in Attempt!Ranked(step, {}) |-> Attempt!MatchScore(a, preferred)]
                      = [a \in VerdictP!Ranked(step, {}) |-> VerdictP!MatchScore(a, preferred)]
    BY <1>11, <1>9
  <2> QED BY <2>1, <1>15, Zenon DEF Attempt!NewNode, VerdictP!NewNode
<1> QED BY <1>1, <1>2, <1>3, <1>4, <1>14, <1>15, <1>16

\* The same attempts
LEMMA SameAttempts ==
    /\ Attempt!AttemptsInit => VerdictP!AttemptsInit
    /\ Attempt!AttemptsNext => VerdictP!AttemptsNext
    /\ \A list : Attempt!Unresolved(list) = VerdictP!Unresolved(list)
<1>1. \A i : Attempt!Tries(i) = VerdictP!Tries(i)
  BY Zenon DEF Attempt!Tries, VerdictP!Tries
<1>2. Attempt!Current = VerdictP!Current
  BY Zenon DEF Attempt!Current, VerdictP!Current
<1>3. \A i : Attempt!Earlier(i) = VerdictP!Earlier(i)
  BY <1>1, Zenon DEF Attempt!Earlier, VerdictP!Earlier
<1>4. Attempt!Remaining = VerdictP!Remaining
  BY SameRanking, Zenon DEF Attempt!Remaining, VerdictP!Remaining
<1>5. \A n, how, res : Attempt!Settled(n, how, res) = VerdictP!Settled(n, how, res)
  BY Zenon DEF Attempt!Settled, VerdictP!Settled
<1>6. \A list : Attempt!Unresolved(list) = VerdictP!Unresolved(list)
  BY SameRanking, Zenon DEF Attempt!Unresolved, VerdictP!Unresolved
<1>7. \A success, cancelled, retry : Attempt!DecisionOf(success, cancelled, retry) = VerdictP!DecisionOf(success, cancelled, retry)
  BY Zenon DEF Attempt!DecisionOf, VerdictP!DecisionOf
<1>8. \A i, agent : Attempt!Handoffs(i, agent) = VerdictP!Handoffs(i, agent)
  BY SameRanking, Zenon DEF Attempt!Handoffs, VerdictP!Handoffs
<1>9. \A list : Attempt!TraceSummary(list) = VerdictP!TraceSummary(list)
  BY <1>6, SameRanking, Zenon DEF Attempt!TraceSummary, VerdictP!TraceSummary
<1>10. ASSUME NEW success, NEW cancelled, NEW retry, NEW agent
       PROVE  Attempt!Traced(success, cancelled, retry, agent) = VerdictP!Traced(success, cancelled, retry, agent)
  <2>1. Attempt!DecisionOf(success, cancelled, retry) = VerdictP!DecisionOf(success, cancelled, retry)
    BY <1>7, Zenon
  <2>2. Attempt!Handoffs(Attempt!Current.node, agent) = VerdictP!Handoffs(VerdictP!Current.node, agent)
    BY <1>2, <1>8, Zenon
  <2>3. Attempt!TraceSummary(trace) = VerdictP!TraceSummary(trace)
    BY <1>9, Zenon
  <2> QED BY <1>2, <2>1, <2>2, <2>3, Zenon DEF Attempt!Traced, VerdictP!Traced
<1>11. \A how, asked, agent : Attempt!Ended(how, asked, agent) = VerdictP!Ended(how, asked, agent)
  BY Zenon DEF Attempt!Ended, VerdictP!Ended
<1>12. Attempt!Running = VerdictP!Running
  BY <1>2, Zenon DEF Attempt!Running, VerdictP!Running
<1>13. Attempt!Asked = VerdictP!Asked
  BY <1>2, <1>3, SameRanking, Zenon DEF Attempt!Asked, VerdictP!Asked
<1>14. ASSUME NEW i, NEW used
       PROVE  Attempt!Rerouted(i, used) = VerdictP!Rerouted(i, used)
  <2>1. Attempt!Reroutes <=> VerdictP!Reroutes
    BY DEF Attempt!Reroutes, VerdictP!Reroutes
  <2>2. \A some, score : Attempt!First(some, score) = VerdictP!First(some, score)
    BY SameRanking
  <2> QED BY <2>1, <2>2, Zenon DEF Attempt!Rerouted, VerdictP!Rerouted
<1>15. Attempt!Failures = VerdictP!Failures /\ Attempt!Cancellations = VerdictP!Cancellations
  BY <1>2, <1>13 DEF Attempt!Failures, VerdictP!Failures, Attempt!Cancellations, VerdictP!Cancellations
<1>16. Attempt!AttemptsInit => VerdictP!AttemptsInit
  BY SameRanking, Zenon DEF Attempt!AttemptsInit, VerdictP!AttemptsInit
<1>17. Attempt!Begin => VerdictP!Begin
  BY <1>1, <1>4, <1>5, SameRanking, Zenon DEF Attempt!Begin, VerdictP!Begin
<1>18. Attempt!Succeed => VerdictP!Succeed
  BY <1>2, <1>12, <1>13, <1>11, <1>10, <1>5, SameRanking, Zenon DEF Attempt!Succeed, VerdictP!Succeed
<1>19. Attempt!Cancelled => VerdictP!Cancelled
  BY <1>2, <1>12, <1>15, <1>11, <1>10, <1>5, SameRanking, Zenon DEF Attempt!Cancelled, VerdictP!Cancelled
<1>20. Attempt!Fail => VerdictP!Fail
  <2>1. SUFFICES ASSUME Attempt!Fail PROVE VerdictP!Fail
    OBVIOUS
  <2> DEFINE i == Attempt!Current.node
  <2>2. PICK f \in Attempt!Failures, retry \in BOOLEAN :
          /\ retry => f.asked # 0 /\ f.agent = f.asked
          /\ Attempt!Ended("failed", f.asked, f.agent)
          /\ Attempt!Traced(FALSE, FALSE, retry, f.agent)
          /\ IF Attempt!Cardinality(Attempt!Tries(i)) < limit
             THEN /\ node' = [node EXCEPT ![i] = [candidates |-> @.candidates, status |-> "pending", result |-> FALSE,
                                  assigned |-> Attempt!Rerouted(i, Attempt!Earlier(i) \cup {f.agent})]]
                  /\ UNCHANGED run
             ELSE /\ node' = [j \in DOMAIN Attempt!Plan |->
                                IF j = i THEN Attempt!Settled(node[j], "failed", node[j].result)
                                ELSE IF j > i THEN Attempt!Settled(node[j], "blocked", node[j].result) ELSE node[j]]
                  /\ run' = "failed"
    BY <2>1, Zenon DEF Attempt!Fail
  <2>3. Attempt!Rerouted(i, Attempt!Earlier(i) \cup {f.agent}) = VerdictP!Rerouted(i, Attempt!Earlier(i) \cup {f.agent})
    BY <1>14
  <2>4. Attempt!Earlier(i) = VerdictP!Earlier(i) /\ i = VerdictP!Current.node
    BY <1>2, <1>3, Zenon
  <2>5. VerdictP!Ended("failed", f.asked, f.agent) /\ VerdictP!Traced(FALSE, FALSE, retry, f.agent)
    BY <2>2, <1>11, <1>10, Zenon
  <2>6. f \in VerdictP!Failures
    BY <2>2, <1>15, Zenon
  <2>7. /\ VerdictP!Running /\ setbacks < 2 /\ setbacks' = setbacks + 1
        /\ UNCHANGED <<market, limit, changes>>
    BY <2>1, <1>12, Zenon DEF Attempt!Fail
  <2>8. Attempt!Cardinality(Attempt!Tries(i)) = VerdictP!Cardinality(VerdictP!Tries(i))
    BY <1>1, SameRanking, Zenon
  <2>9. CASE Attempt!Cardinality(Attempt!Tries(i)) < limit
    BY <2>2, <2>3, <2>4, <2>5, <2>6, <2>7, <2>8, <2>9, Zenon DEF VerdictP!Fail
  <2>10. CASE ~(Attempt!Cardinality(Attempt!Tries(i)) < limit)
    <3>1. [j \in DOMAIN Attempt!Plan |->
             IF j = i THEN Attempt!Settled(node[j], "failed", node[j].result)
             ELSE IF j > i THEN Attempt!Settled(node[j], "blocked", node[j].result) ELSE node[j]]
          = [j \in DOMAIN VerdictP!Plan |->
             IF j = i THEN VerdictP!Settled(node[j], "failed", node[j].result)
             ELSE IF j > i THEN VerdictP!Settled(node[j], "blocked", node[j].result) ELSE node[j]]
      BY <1>5, SameRanking
    <3>2. /\ node' = [j \in DOMAIN Attempt!Plan |->
                       IF j = i THEN Attempt!Settled(node[j], "failed", node[j].result)
                       ELSE IF j > i THEN Attempt!Settled(node[j], "blocked", node[j].result) ELSE node[j]]
          /\ run' = "failed"
      BY <2>2, <2>10, Zenon
    <3> HIDE DEF i
    <3>3. /\ node' = [j \in DOMAIN VerdictP!Plan |->
                       IF j = i THEN VerdictP!Settled(node[j], "failed", node[j].result)
                       ELSE IF j > i THEN VerdictP!Settled(node[j], "blocked", node[j].result) ELSE node[j]]
          /\ ~(VerdictP!Cardinality(VerdictP!Tries(i)) < limit)
      BY <2>8, <2>10, <3>1, <3>2, Zenon
    <3> QED BY <2>2, <2>4, <2>5, <2>6, <2>7, <3>2, <3>3, Zenon DEF VerdictP!Fail
  <2> QED BY <2>9, <2>10
<1>21. Attempt!Change => VerdictP!Change
  BY Zenon DEF Attempt!Change, VerdictP!Change
<1>22. Attempt!AttemptsNext => VerdictP!AttemptsNext
  BY <1>17, <1>18, <1>19, <1>20, <1>21, Zenon DEF Attempt!AttemptsNext, VerdictP!AttemptsNext
<1> QED BY <1>16, <1>22, <1>6

\* Through retries, rerouting and a changing market, every attempt that ended has its one
\* decision, nobody is asked again before everybody was named, and no node works without
\* its inputs, in the behaviours about a run's attempts.
THEOREM AttemptsHold == Spec => []AttemptsAreTrue
<1> DEFINE I == focus = "attempts" => VerdictP!AttemptInv
<1>1. VerdictP!AttemptsAssumption
  BY DEF VerdictP!AttemptsAssumption
<1>2. Init => I
  BY <1>1, SameAttempts, VerdictP!AttemptsStart DEF Init
<1>3. I /\ [Next]_vars => I'
  <2> SUFFICES ASSUME I, [Next]_vars, focus' = "attempts" PROVE VerdictP!AttemptInv'
    OBVIOUS
  <2>1. focus = "attempts" /\ (Attempt!AttemptsNext \/ UNCHANGED attemptVars)
    BY DEF Next, vars
  <2>2. [VerdictP!AttemptsNext]_VerdictP!attemptVars
    BY <2>1, SameAttempts DEF attemptVars, VerdictP!attemptVars
  <2> QED BY <2>1, <2>2, VerdictP!AttemptsNextInv
<1>4. I => AttemptsAreTrue
  <2> SUFFICES ASSUME VerdictP!AttemptInv
               PROVE  Attempt!AttemptsAreTraced /\ Attempt!NobodyAskedAgain /\ Attempt!InputsAreThere
    BY DEF AttemptsAreTrue
  <2>1. Attempt!AttemptsAreTraced
    BY VerdictP!TraceIsRight, SameAttempts, SameRanking, Zenon
       DEF Attempt!AttemptsAreTraced, VerdictP!AttemptsAreTraced, Attempt!Range, VerdictP!Range
  <2>2. Attempt!NobodyAskedAgain
    BY VerdictP!AskedIsRight, SameRanking, Zenon
       DEF Attempt!NobodyAskedAgain, VerdictP!NobodyAskedAgain, Attempt!Fits, VerdictP!Fits, Attempt!Listed, VerdictP!Listed,
           Attempt!HasContract, VerdictP!HasContract
  <2>3. Attempt!InputsAreThere
    BY VerdictP!InputsAreRight, SameRanking, Zenon
       DEF Attempt!InputsAreThere, VerdictP!InputsAreThere, Attempt!Range, VerdictP!Range
  <2> QED BY <2>1, <2>2, <2>3
<1> QED BY <1>2, <1>3, <1>4, PTL DEF Spec

-----------------------------------------------------------------------------
(* Evidence *)

\* The steps of a run's evidence are the same.
LEMMA SameRunSteps ==
    /\ Graph!EvidenceInit => VerdictP!EvidenceInit
    /\ Graph!Round => VerdictP!Round
    /\ Graph!Deepen => VerdictP!Deepen
    /\ Graph!Gathered => VerdictP!Gathered
    /\ Graph!Curate => VerdictP!Curate
    /\ Graph!Answer => VerdictP!Answer
    /\ Graph!Complete => VerdictP!Complete
<1>1. Graph!EvidenceInit => VerdictP!EvidenceInit
  BY Zenon
  DEF Graph!EvidenceInit, VerdictP!EvidenceInit, Graph!NoAnswer, VerdictP!NoAnswer, Graph!NoRead, VerdictP!NoRead
<1>2. Graph!Round => VerdictP!Round
  BY Zenon
  DEF Graph!Round, VerdictP!Round, Graph!Min, VerdictP!Min
<1>3. Graph!Deepen => VerdictP!Deepen
  BY Zenon
  DEF Graph!Deepen, VerdictP!Deepen, Graph!RoundsOver, VerdictP!RoundsOver, Graph!Met, VerdictP!Met, Graph!Strong,
      VerdictP!Strong, Graph!Fresh, VerdictP!Fresh, Graph!Cardinality, VerdictP!Cardinality
<1>4. Graph!Gathered => VerdictP!Gathered
  BY Zenon
  DEF Graph!Gathered, VerdictP!Gathered, Graph!Enriched, VerdictP!Enriched, Graph!Sorted, VerdictP!Sorted,
      Graph!Precedes, VerdictP!Precedes, Graph!Bijection, VerdictP!Bijection, Graph!Injection, VerdictP!Injection,
      Graph!Surjection, VerdictP!Surjection, Graph!IsInjective, VerdictP!IsInjective, Graph!Cardinality,
      VerdictP!Cardinality, Graph!Upserted, VerdictP!Upserted, Graph!Upsert, VerdictP!Upsert, Graph!Matches,
      VerdictP!Matches, Graph!ByKey, VerdictP!ByKey, Graph!ByUrl, VerdictP!ByUrl, Graph!NewArtifact,
      VerdictP!NewArtifact, Graph!Updated, VerdictP!Updated, Graph!Rank, VerdictP!Rank, Graph!Source,
      VerdictP!Source, Graph!NoId, VerdictP!NoId, Graph!Min, VerdictP!Min, Graph!KeysAreUnique,
      VerdictP!KeysAreUnique
<1>5. Graph!Curate => VerdictP!Curate
  BY Zenon
  DEF Graph!Curate, VerdictP!Curate, Graph!Sieved, VerdictP!Sieved, Graph!Prioritized, VerdictP!Prioritized,
      Graph!Better, VerdictP!Better, Graph!Refilled, VerdictP!Refilled, Graph!Sorted, VerdictP!Sorted,
      Graph!Precedes, VerdictP!Precedes, Graph!Persisted, VerdictP!Persisted, Graph!Curation, VerdictP!Curation,
      Graph!Met, VerdictP!Met, Graph!Strong, VerdictP!Strong, Graph!Fresh, VerdictP!Fresh, Graph!Bijection,
      VerdictP!Bijection, Graph!Injection, VerdictP!Injection, Graph!Surjection, VerdictP!Surjection,
      Graph!IsInjective, VerdictP!IsInjective, Graph!Cardinality, VerdictP!Cardinality, Graph!Upserted,
      VerdictP!Upserted, Graph!Upsert, VerdictP!Upsert, Graph!Matches, VerdictP!Matches, Graph!ByKey, VerdictP!ByKey,
      Graph!ByUrl, VerdictP!ByUrl, Graph!NewArtifact, VerdictP!NewArtifact, Graph!Updated, VerdictP!Updated,
      Graph!Rank, VerdictP!Rank, Graph!Source, VerdictP!Source, Graph!NoId, VerdictP!NoId, Graph!Min, VerdictP!Min,
      Graph!KeysAreUnique, VerdictP!KeysAreUnique
<1>6. Graph!Answer => VerdictP!Answer
  BY Zenon
  DEF Graph!Answer, VerdictP!Answer, Graph!NoAnswer, VerdictP!NoAnswer, Graph!CatalogIds, VerdictP!CatalogIds
<1>7. Graph!Complete => VerdictP!Complete
  BY Zenon
  DEF Graph!Complete, VerdictP!Complete, Graph!Placeholder, VerdictP!Placeholder, Graph!ClaimId, VerdictP!ClaimId,
      Graph!NoAnswer, VerdictP!NoAnswer, Graph!NoScore, VerdictP!NoScore, Graph!Range, VerdictP!Range,
      Graph!Bijection, VerdictP!Bijection, Graph!Injection, VerdictP!Injection, Graph!Surjection,
      VerdictP!Surjection, Graph!IsInjective, VerdictP!IsInjective, Graph!Cardinality, VerdictP!Cardinality,
      Graph!Upserted, VerdictP!Upserted, Graph!Upsert, VerdictP!Upsert, Graph!Matches, VerdictP!Matches, Graph!ByKey,
      VerdictP!ByKey, Graph!ByUrl, VerdictP!ByUrl, Graph!NewArtifact, VerdictP!NewArtifact, Graph!Updated,
      VerdictP!Updated, Graph!Rank, VerdictP!Rank, Graph!Source, VerdictP!Source, Graph!NoId, VerdictP!NoId,
      Graph!Min, VerdictP!Min, Graph!KeysAreUnique, VerdictP!KeysAreUnique
<1> QED BY <1>1, <1>2, <1>3, <1>4, <1>5, <1>6, <1>7

\* The steps of readers are the same.
LEMMA SameReaderSteps ==
    ASSUME NEW r
    PROVE  /\ Graph!ReadRecord(r) => VerdictP!ReadRecord(r)
           /\ Graph!ReadArtifacts(r) => VerdictP!ReadArtifacts(r)
           /\ Graph!ReadClaims(r) => VerdictP!ReadClaims(r)
           /\ Graph!ScoreClaims(r) => VerdictP!ScoreClaims(r)
<1>1. Graph!ReadRecord(r) => VerdictP!ReadRecord(r)
  BY Zenon
  DEF Graph!ReadRecord, VerdictP!ReadRecord, Graph!runVars, VerdictP!runVars, Graph!NoAnswer, VerdictP!NoAnswer,
      Graph!NoRead, VerdictP!NoRead
<1>2. Graph!ReadArtifacts(r) => VerdictP!ReadArtifacts(r)
  BY Zenon
  DEF Graph!ReadArtifacts, VerdictP!ReadArtifacts, Graph!runVars, VerdictP!runVars
<1>3. Graph!ReadClaims(r) => VerdictP!ReadClaims(r)
  BY Zenon
  DEF Graph!ReadClaims, VerdictP!ReadClaims, Graph!runVars, VerdictP!runVars
<1>4. Graph!ScoreClaims(r) => VerdictP!ScoreClaims(r)
  BY Zenon
  DEF Graph!ScoreClaims, VerdictP!ScoreClaims, Graph!Scored, VerdictP!Scored, Graph!ClaimScore, VerdictP!ClaimScore,
      Graph!Gap, VerdictP!Gap, Graph!UncoveredClaims, VerdictP!UncoveredClaims, Graph!CatalogIds,
      VerdictP!CatalogIds, Graph!NoRead, VerdictP!NoRead, Graph!NoAnswer, VerdictP!NoAnswer, Graph!NoScore,
      VerdictP!NoScore, Graph!Range, VerdictP!Range, Graph!Max, VerdictP!Max, Graph!Min, VerdictP!Min, Graph!Strong,
      VerdictP!Strong, Graph!Cardinality, VerdictP!Cardinality, Graph!runVars, VerdictP!runVars
<1> QED BY <1>1, <1>2, <1>3, <1>4

\* So are all steps.
LEMMA SameEvidence == /\ Graph!EvidenceInit => VerdictP!EvidenceInit
                      /\ Graph!EvidenceNext => VerdictP!EvidenceNext
<1>1. ASSUME NEW r \in {"r"}, Graph!ReadRecord(r) \/ Graph!ReadArtifacts(r) \/ Graph!ReadClaims(r) \/ Graph!ScoreClaims(r)
      PROVE  VerdictP!EvidenceNext
  BY <1>1, SameReaderSteps DEF VerdictP!EvidenceNext
<1> QED BY <1>1, SameRunSteps DEF Graph!EvidenceNext, VerdictP!EvidenceNext

\* The pages, needs and ids of the instance are as the proofs assume them to be.
LEMMA PagesOK == VerdictP!EvidenceAssumption
<1> DEFINE P == {Page("a", "primary", FALSE, "old", 3), Page("b", "news", TRUE, "hidden", 2),
                 Page("b", "news", TRUE, "new", 4), Page("c", "analysis", TRUE, "new", 1)}
           N == {[total |-> 2, primary |-> 1, fresh |-> 1, live |-> TRUE], [total |-> 2, primary |-> 0, fresh |-> 0, live |-> FALSE]}
           ids == <<"S1", "S2", "S3">>
<1>1. ASSUME NEW name, NEW kind, NEW weak, NEW date, NEW score
      PROVE  VerdictP!PageShape(Page(name, kind, weak, date, score)) /\ Page(name, kind, weak, date, score).norm = name
  <2>1. PICK doubt : doubt = (name = "c")
    OBVIOUS
  <2>2. PICK page : page = Page(name, kind, weak, date, score)
    OBVIOUS
  <2>3. page = [norm |-> name, kind |-> kind, weak |-> weak, date |-> date, score |-> score, publisher |-> name, doubt |-> doubt]
    BY <2>1, <2>2, Zenon DEF Page
  <2>4. VerdictP!PageShape(page) /\ page.norm = name
    BY <2>3 DEF VerdictP!PageShape
  <2> QED BY <2>2, <2>4
<1>2. \A p \in P : VerdictP!PageShape(p) /\ p.norm \in {"a", "b", "c"}
  <2>0. PICK yes, no : yes = TRUE /\ no = FALSE
    OBVIOUS
  <2>1. PICK a, b, c, d :
          /\ P = {a, b, c, d}
          /\ a = Page("a", "primary", no, "old", 3) /\ b = Page("b", "news", yes, "hidden", 2)
          /\ c = Page("b", "news", yes, "new", 4) /\ d = Page("c", "analysis", yes, "new", 1)
    BY <2>0, Zenon
  <2> HIDE DEF P
  <2>2. VerdictP!PageShape(a) /\ a.norm = "a"
    <3>1. VerdictP!PageShape(Page("a", "primary", no, "old", 3)) /\ Page("a", "primary", no, "old", 3).norm = "a"
      BY <1>1, SMT
    <3>2. a = Page("a", "primary", no, "old", 3)
      BY <2>1
    <3> QED BY <3>1, <3>2, Zenon
  <2>3. VerdictP!PageShape(b) /\ b.norm = "b"
    <3>1. VerdictP!PageShape(Page("b", "news", yes, "hidden", 2)) /\ Page("b", "news", yes, "hidden", 2).norm = "b"
      BY <1>1, SMT
    <3>2. b = Page("b", "news", yes, "hidden", 2)
      BY <2>1
    <3> QED BY <3>1, <3>2, Zenon
  <2>4. VerdictP!PageShape(c) /\ c.norm = "b"
    <3>1. VerdictP!PageShape(Page("b", "news", yes, "new", 4)) /\ Page("b", "news", yes, "new", 4).norm = "b"
      BY <1>1, SMT
    <3>2. c = Page("b", "news", yes, "new", 4)
      BY <2>1
    <3> QED BY <3>1, <3>2, Zenon
  <2>5. VerdictP!PageShape(d) /\ d.norm = "c"
    <3>1. VerdictP!PageShape(Page("c", "analysis", yes, "new", 1)) /\ Page("c", "analysis", yes, "new", 1).norm = "c"
      BY <1>1, SMT
    <3>2. d = Page("c", "analysis", yes, "new", 1)
      BY <2>1
    <3> QED BY <3>1, <3>2, Zenon
  <2>6. P = {a, b, c, d}
    BY <2>1, Zenon
  <2> QED BY <2>2, <2>3, <2>4, <2>5, <2>6
<1>3. VerdictP!IsFiniteSet(P) /\ P # {}
  <2>1. PICK a, b, c, d : P = {a, b, c, d}
    BY Zenon
  <2> HIDE DEF P
  <2>2. P = ((({} \cup {a}) \cup {b}) \cup {c}) \cup {d}
    BY <2>1
  <2>3. VerdictP!IsFiniteSet({} \cup {a})
    BY VerdictP!FS_EmptySet, VerdictP!FS_AddElement
  <2>4. VerdictP!IsFiniteSet(({} \cup {a}) \cup {b})
    BY <2>3, VerdictP!FS_AddElement
  <2>5. VerdictP!IsFiniteSet((({} \cup {a}) \cup {b}) \cup {c})
    BY <2>4, VerdictP!FS_AddElement
  <2>6. VerdictP!IsFiniteSet(P)
    BY <2>2, <2>5, VerdictP!FS_AddElement
  <2> QED BY <2>1, <2>6
<1>4. N \subseteq VerdictP!NeedType /\ \A n \in N : n.total = 2
  <2>1. PICK yes, no : yes = TRUE /\ no = FALSE
    OBVIOUS
  <2>2. N = {[total |-> 2, primary |-> 1, fresh |-> 1, live |-> yes], [total |-> 2, primary |-> 0, fresh |-> 0, live |-> no]}
    BY <2>1, Zenon
  <2>3. yes \in BOOLEAN /\ no \in BOOLEAN
    BY <2>1
  <2> HIDE DEF N
  <2> QED BY <2>2, <2>3 DEF VerdictP!NeedType
<1>5. /\ Len(ids) = 3 /\ DOMAIN ids = 1..3
      /\ ids[1] = "S1" /\ ids[2] = "S2" /\ ids[3] = "S3"
  OBVIOUS
<1>6. ids \in Seq(VerdictP!IdSet)
  <2>1. ids \in Seq({"S1", "S2", "S3"})
    OBVIOUS
  <2>2. \A i \in DOMAIN ids : ids[i] \in VerdictP!IdSet
    BY Zenon DEF VerdictP!IdSet
  <2>3. {"S1", "S2", "S3"} \subseteq VerdictP!IdSet
    BY <1>5, <2>2
  <2> HIDE DEF ids
  <2> QED BY <2>1, <2>3
<1> HIDE DEF ids
<1>7. \A i \in DOMAIN ids : i \in {1, 2, 3} /\ ids[i] \in {"S1", "S2", "S3"}
  <2>1. \A i \in DOMAIN ids : i \in {1, 2, 3}
    BY <1>5
  <2> QED BY <1>5, <2>1
<1>8. ASSUME NEW i \in DOMAIN ids, NEW j \in DOMAIN ids, ids[i] = ids[j] PROVE i = j
  BY <1>5, <1>7, <1>8
<1>9. /\ \A n \in N : n.total <= Len(ids)
      /\ \A i \in DOMAIN ids : ids[i] \notin {"none", "S9"}
      /\ \A p \in P : p.norm \notin {"", "S9"} /\ \A i \in DOMAIN ids : p.norm # ids[i]
  <2> HIDE DEF P, N
  <2>1. \A n \in N : n.total <= Len(ids)
    BY <1>4, <1>5
  <2> QED BY <1>2, <1>7, <2>1
<1> HIDE DEF P, N
<1>10. 5 \in Nat /\ 2 \in Nat /\ 4 \in Nat \ {0} /\ "S9" # "none"
  OBVIOUS
<1> QED BY <1>2, <1>3, <1>4, <1>6, <1>8, <1>9, <1>10, Zenon DEF VerdictP!EvidenceAssumption, VerdictP!NoId, P, N, ids

\* The evidence stays what it is where another service is at work.
LEMMA EvidenceKept ==
    (focus = "evidence" => VerdictP!EvidenceInv) /\ [Next]_vars => (focus = "evidence" => VerdictP!EvidenceInv)'
<1> SUFFICES ASSUME focus = "evidence" => VerdictP!EvidenceInv, [Next]_vars, focus' = "evidence" PROVE VerdictP!EvidenceInv'
  OBVIOUS
<1>1. focus = "evidence" /\ (Graph!EvidenceNext \/ UNCHANGED evidenceVars)
  BY DEF Next, vars
<1>2. [VerdictP!EvidenceNext]_VerdictP!evidenceVars
  BY <1>1, SameEvidence DEF evidenceVars, VerdictP!evidenceVars
<1> QED BY <1>1, <1>2, PagesOK, VerdictP!EvidenceNextInv

\* Searches stay within their budget, every curated source has one artifact, cited under the
\* answer's id, and every link of a claim leads to one, in the behaviours about evidence.
THEOREM EvidenceHolds == Spec => []EvidenceIsTraceable
<1> DEFINE I == focus = "evidence" => VerdictP!EvidenceInv
<1>1. Init => I
  BY PagesOK, SameEvidence, VerdictP!EvidenceInitInv DEF Init
<1>2. I /\ [Next]_vars => I'
  BY EvidenceKept
<1>3. I => EvidenceIsTraceable
  <2> SUFFICES ASSUME VerdictP!EvidenceInv PROVE Graph!SearchBudget /\ Graph!EvidenceIsTraceable
    BY DEF EvidenceIsTraceable
  <2>1. VerdictP!SearchBudget /\ VerdictP!EvidenceIsTraceable
    BY PagesOK, VerdictP!BudgetIsKept, VerdictP!TracesAreThere
  <2>2. Graph!SearchBudget
    BY <2>1, Zenon DEF Graph!SearchBudget, VerdictP!SearchBudget
  <2>3. Graph!EvidenceIsTraceable
    BY <2>1, Zenon DEF Graph!EvidenceIsTraceable, VerdictP!EvidenceIsTraceable, Graph!Range, VerdictP!Range,
                       Graph!Cardinality, VerdictP!Cardinality
  <2> QED BY <2>2, <2>3
<1> QED BY <1>1, <1>2, <1>3, PTL DEF Spec

\* A claim with a score without a gap cites only curated sources, whatever its reader had
\* queried before the run was completed, in the behaviours about evidence.
THEOREM ScoresHold == Spec => []ScoresAreEarned
<1> DEFINE I == focus = "evidence" => VerdictP!EvidenceInv
<1>1. Init => I
  BY PagesOK, SameEvidence, VerdictP!EvidenceInitInv DEF Init
<1>2. I /\ [Next]_vars => I'
  BY EvidenceKept
<1>3. I => ScoresAreEarned
  <2> SUFFICES ASSUME VerdictP!EvidenceInv PROVE Graph!ScoresAreEarned
    BY DEF ScoresAreEarned
  <2>1. VerdictP!ScoresAreEarned
    BY VerdictP!ScoresAreRight
  <2> QED BY <2>1, Zenon DEF Graph!ScoresAreEarned, VerdictP!ScoresAreEarned, Graph!Range, VerdictP!Range,
                             Graph!CatalogIds, VerdictP!CatalogIds
<1> QED BY <1>1, <1>2, <1>3, PTL DEF Spec
=============================================================================
