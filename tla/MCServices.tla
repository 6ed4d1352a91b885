------------------------------ MODULE MCServices ------------------------------
(***************************************************************************)
(* The services that keep state of their own and share none: a behaviour    *)
(* takes the steps of the one it focuses on, while the others rest.          *)
(***************************************************************************)
EXTENDS Integers, Sequences, FiniteSets

CONSTANTS Datasets, NoDataset, NoManifest, Anchorings

VARIABLES focus,
    contacts, use, traces, chat, meta, reg, issued, failures,                          \* HolBroker
    content, file, trust, topic, request, auto, mishaps,                           \* DataVault
    pc, criteria, text, result, verdict,                                           \* Verification
    need, stage, hunt, found, catalog, artifacts, answer, claims, links, reader, reads, \* Evidence
    market, limit, node, attempts, trace, summary, run, changes, setbacks,         \* RunAttempts
    known, ratings, session, vote, history, tasks, syncs, upsets,                 \* Reputation
    status, by, completed, events, notices, sent, reconciler, verdicts, settlements, losses, slips \* Reconciliation

-----------------------------------------------------------------------------
(* Instances *)

Hol == INSTANCE HolBroker WITH
    Agents <- {1, 2}, NoAgent <- 0, Offline <- {}, Available <- {2}, Chatable <- {1, 2}, Capable <- {1, 2},
    Uses <- {"u"}, Chats <- {"c"}, Registrations <- {},
    NoUaid <- "none", Uaid <- "uaid", MaxHits <- 2, MaxFailures <- 1

\* The local agent's registrations share nothing with the contacts above but a restart.
Local == INSTANCE HolBroker WITH
    Agents <- {}, NoAgent <- 0, Offline <- {}, Available <- {}, Chatable <- {}, Capable <- {},
    Uses <- {}, Chats <- {}, Registrations <- {"r1", "r2", "r3"},
    NoUaid <- "none", Uaid <- "uaid", MaxHits <- 0, MaxFailures <- 2

Vault == INSTANCE DataVault WITH
    Contents <- {"c"}, NoContent <- "none", Parsable <- {"c"},
    Requests <- Anchorings, MaxMishaps <- 1

\* A claim without ids, one with a title, one and two ids; two citations or fewer; no
\* finding of the critic, a minor one, a severe one.
ClaimShapes ==
    {[ids |-> {}, titles |-> {}], [ids |-> {}, titles |-> {"S2"}],
     [ids |-> {"S1"}, titles |-> {}], [ids |-> {"S1", "S2"}, titles |-> {}]}
TaskResults ==
    {[claims |-> list, citations |-> cited, sources |-> 2, fresh |-> 0,
      sourceSummary |-> FALSE, freshness |-> FALSE, findings |-> critic[1], highFindings |-> critic[2],
      wellFormed |-> TRUE, summary |-> earlier] :
        list \in UNION {[1..n -> ClaimShapes] : n \in 0..2}, cited \in {{}, {"S1"}, {"S1", "S2"}},
        critic \in {<<0, 0>>, <<1, 0>>, <<1, 1>>},
        earlier \in {[coverage |-> -1, uncovered |-> {}, notes |-> {}],
                     [coverage |-> 1000, uncovered |-> {}, notes |-> {"earlier"}]}}
TaskCriteria ==
    {[strategy |-> s, strict |-> TRUE, policy |-> p, minCoverage |-> c, minClaims |-> 1, minSources |-> 2, minFresh |-> 0] :
        s \in {"gather_evidence", "revise_final_answer"}, c \in {500, 1000},
        p \in {"single_verifier", "two_of_three", "three_of_five", "unanimous"}}
GoodText ==
    [role |-> "paper_writer", phase |-> "publication", issues |-> {}, length |-> "long", keys |-> 3, placeholders |-> 0,
     errors |-> 0, badCitations |-> 0, compiles |-> TRUE, pValue |-> "valid", interval |-> TRUE,
     words |-> {"data", "research", "limitation", "privacy"}, innovative |-> 0, generic |-> 0, capitals |-> FALSE, lists |-> FALSE]
TaskTexts ==
    {GoodText, [GoodText EXCEPT !.issues = {"methods", "results"}],
     [GoodText EXCEPT !.errors = 4, !.placeholders = 5, !.length = "short", !.words = {}],
     [GoodText EXCEPT !.phase = "interpretation", !.role = "compliance_checker", !.issues = {"review"}]}

\* Verdicts on either side of each threshold; a draft in fences, an object that is none, and a refusal.
Reply(fenced, envelope, success, overall, ethics, base) ==
    [fenced |-> fenced, envelope |-> envelope, success |-> success, overall |-> overall, ethics |-> ethics, base |-> base]
RelayReplies ==
    {<<Reply(FALSE, TRUE, TRUE, overall, ethics, base)>> : overall \in {4900, 8000}, ethics \in {49, 90}, base \in BOOLEAN}
    \cup {<< >>, <<Reply(FALSE, TRUE, FALSE, 0, 0, FALSE)>>,
          <<Reply(TRUE, TRUE, TRUE, 8000, 90, TRUE), Reply(FALSE, FALSE, TRUE, 0, 100, FALSE)>>}

Verify == INSTANCE Verification WITH
    Citations <- {"S1", "S2"}, Results <- TaskResults, Criteria <- TaskCriteria, Texts <- TaskTexts, Replies <- RelayReplies

\* "b" has two URLs that are one when normalised; "c" speaks of disagreement.
Page(name, kind, weak, date, score) ==
    [norm |-> name, kind |-> kind, weak |-> weak, date |-> date, score |-> score, publisher |-> name, doubt |-> name = "c"]

Graph == INSTANCE Evidence WITH
    Pages <- {Page("a", "primary", FALSE, "old", 3), Page("b", "news", TRUE, "hidden", 2),
              Page("b", "news", TRUE, "new", 4), Page("c", "analysis", TRUE, "new", 1)},
    Needs <- {[total |-> 2, primary |-> 1, fresh |-> 1, live |-> TRUE],
              [total |-> 2, primary |-> 0, fresh |-> 0, live |-> FALSE]},
    Ids <- <<"S1", "S2", "S3">>, Unknown <- "S9", MaxSearches <- 5, Fanout <- 4, MaxRounds <- 2,
    Readers <- {"r"}, Confidences <- {"high"},
    Critiques <- {[high |-> FALSE, doubt |-> FALSE], [high |-> TRUE, doubt |-> TRUE]},
    MaxQueries <- 2, MaxClaims <- 2, MaxReads <- 1, MaxCompletions <- 2

\* The built-in agents of three families, and two submitted ones: "4" precedes the built-in
\* agent of its family, "5" works on one node of it and on another family.
Steady == [active |-> TRUE, supported |-> TRUE, reputation |-> 8, verified |-> TRUE]
Cards == <<
    [builtin |-> TRUE, families |-> {"planning"}, contract |-> TRUE, strategies |-> {}, points |-> 50],
    [builtin |-> TRUE, families |-> {"evidence"}, contract |-> TRUE, strategies |-> {}, points |-> 50],
    [builtin |-> TRUE, families |-> {"synthesis"}, contract |-> TRUE, strategies |-> {}, points |-> 50],
    [builtin |-> FALSE, families |-> {"evidence"}, contract |-> TRUE, strategies |-> {}, points |-> 60],
    [builtin |-> FALSE, families |-> {"evidence", "synthesis"}, contract |-> TRUE,
     strategies |-> {"curate_sources", "synthesis"}, points |-> 40]>>

Attempt == INSTANCE RunAttempts WITH
    Agents <- 1..5, Card <- Cards, Default <- [planning |-> 1, evidence |-> 2, synthesis |-> 3],
    Markets <- {[a \in 1..5 |-> Steady], [a \in 1..5 |-> [Steady EXCEPT !.active = a # 4]],
                [a \in 1..5 |-> [Steady EXCEPT !.verified = a # 4]]},
    AskedLimits <- {0, 2, 9}, MinReputation <- 7, MaxChanges <- 1, MaxSetbacks <- 2

Rating == INSTANCE Reputation WITH
    Loop <- "loop", Thread <- "thread", Good <- {50, 90, 100}, Bad <- {0, 60}, RegistryScores <- {0, 8000},
    MaxTasks <- 3, MaxSyncs <- 2, MaxFaults <- 1, rows <- ratings, faults <- upsets

Notice == INSTANCE Reconciliation WITH
    Keys <- {"k"}, Reconcilers <- {"p", "q"}, MaxSettlements <- 2, MaxFaults <- 1, MaxReconciliations <- 1,
    faults <- slips

-----------------------------------------------------------------------------
(* One service at a time *)

holVars == <<contacts, use, traces, chat, meta, reg, issued, failures>>
vaultVars == <<content, file, trust, topic, request, auto, mishaps>>
verificationVars == <<pc, criteria, text, result, verdict>>
evidenceVars == <<need, stage, hunt, found, catalog, artifacts, answer, claims, links, reader, reads>>
attemptVars == <<market, limit, node, attempts, trace, summary, run, changes, setbacks>>
ratingVars == <<known, ratings, session, vote, history, tasks, syncs, upsets>>
noticeVars == <<status, by, completed, events, notices, sent, reconciler, verdicts, settlements, losses, slips>>
vars == <<focus, holVars, vaultVars, verificationVars, evidenceVars, attemptVars, ratingVars, noticeVars>>

Init ==
    /\ focus \in {"broker", "registration", "vault", "verification", "evidence", "attempts", "rating", "notices"}
    /\ IF focus = "broker" THEN Hol!HolInit ELSE IF focus = "registration" THEN Local!HolInit ELSE
        /\ contacts = "resting" /\ use = "resting" /\ traces = "resting" /\ chat = "resting"
        /\ meta = "resting" /\ reg = "resting" /\ issued = "resting" /\ failures = "resting"
    /\ IF focus = "vault" THEN Vault!VaultInit ELSE
        /\ content = "resting" /\ file = "resting" /\ trust = "resting" /\ topic = "resting"
        /\ request = "resting" /\ auto = "resting" /\ mishaps = "resting"
    /\ IF focus = "verification" THEN Verify!VerificationInit ELSE
        /\ pc = "resting" /\ criteria = "resting" /\ text = "resting" /\ result = "resting" /\ verdict = "resting"
    /\ IF focus = "evidence" THEN Graph!EvidenceInit ELSE
        /\ need = "resting" /\ stage = "resting" /\ hunt = "resting" /\ found = "resting" /\ catalog = "resting"
        /\ artifacts = "resting" /\ answer = "resting" /\ claims = "resting" /\ links = "resting"
        /\ reader = "resting" /\ reads = "resting"
    /\ IF focus = "attempts" THEN Attempt!AttemptsInit ELSE
        /\ market = "resting" /\ limit = "resting" /\ node = "resting" /\ attempts = "resting" /\ trace = "resting"
        /\ summary = "resting" /\ run = "resting" /\ changes = "resting" /\ setbacks = "resting"
    /\ IF focus = "rating" THEN Rating!ReputationInit ELSE
        /\ known = "resting" /\ ratings = "resting" /\ session = "resting" /\ vote = "resting"
        /\ history = "resting" /\ tasks = "resting" /\ syncs = "resting" /\ upsets = "resting"
    /\ IF focus = "notices" THEN Notice!ReconciliationInit ELSE
        /\ status = "resting" /\ by = "resting" /\ completed = "resting" /\ events = "resting"
        /\ notices = "resting" /\ sent = "resting" /\ reconciler = "resting" /\ verdicts = "resting"
        /\ settlements = "resting" /\ losses = "resting" /\ slips = "resting"

Next ==
    \/ focus = "broker" /\ Hol!HolNext
       /\ UNCHANGED <<focus, vaultVars, verificationVars, evidenceVars, attemptVars, ratingVars, noticeVars>>
    \/ focus = "registration" /\ Local!HolNext
       /\ UNCHANGED <<focus, vaultVars, verificationVars, evidenceVars, attemptVars, ratingVars, noticeVars>>
    \/ focus = "vault" /\ Vault!VaultNext
       /\ UNCHANGED <<focus, holVars, verificationVars, evidenceVars, attemptVars, ratingVars, noticeVars>>
    \/ focus = "verification" /\ Verify!VerificationNext
       /\ UNCHANGED <<focus, holVars, vaultVars, evidenceVars, attemptVars, ratingVars, noticeVars>>
    \/ focus = "evidence" /\ Graph!EvidenceNext
       /\ UNCHANGED <<focus, holVars, vaultVars, verificationVars, attemptVars, ratingVars, noticeVars>>
    \/ focus = "attempts" /\ Attempt!AttemptsNext
       /\ UNCHANGED <<focus, holVars, vaultVars, verificationVars, evidenceVars, ratingVars, noticeVars>>
    \/ focus = "rating" /\ Rating!ReputationNext
       /\ UNCHANGED <<focus, holVars, vaultVars, verificationVars, evidenceVars, attemptVars, noticeVars>>
    \/ focus = "notices" /\ Notice!ReconciliationNext
       /\ UNCHANGED <<focus, holVars, vaultVars, verificationVars, evidenceVars, attemptVars, ratingVars>>

Spec == Init /\ [][Next]_vars

-----------------------------------------------------------------------------
(* Properties: those of the services, where they are at work *)

\* What the broker is told and what it answers is kept: however searches overlap, sessions
\* time out and a request falls back to direct messages, no agent gets its message twice;
\* and a local agent recorded as registered has the UAID the broker gave it, whatever the
\* registrations that overlapped, were interrupted or failed have written.
BrokerIsTrue ==
    /\ focus = "broker" => Hol!AskedOnce
    /\ focus = "registration" => Local!RegisteredHasUaid

\* What a dataset's row says of it was earned: at most one dataset of a content has
\* passed verification, and one that is anchored has its manifest on the topic, although
\* requests write back a column they read before they waited.
TrustIsEarned == focus = "vault" => Vault!OnePassedPerContent /\ Vault!AnchoredIsOnTopic

\* No guard of the quorum and no earlier summary makes up for a claim of a final answer
\* without known citations; and no output with an ethical issue, or without two fields its
\* role needs, is accepted by its score.
VerdictIsEarned == focus = "verification" => Verify!ApprovedAnswerIsCited /\ Verify!AcceptedIsSound

\* Every curated source has exactly one artifact, cited under the id the answer uses, and
\* every link of a claim leads to an artifact, whatever keys and lists a source was in.
EvidenceIsTraceable == focus = "evidence" => Graph!SearchBudget /\ Graph!EvidenceIsTraceable

\* A claim whose score reports no gap cites sources, all of them curated, even if it
\* was scored from what a reader had queried before the run was completed.
ScoresAreEarned == focus = "evidence" => Graph!ScoresAreEarned

\* Through retries, rerouting and a market that changes: every attempt that ended has the
\* one decision that fits it, no agent is asked again before every other one was named,
\* and no node works without the results it is bound to.
AttemptsAreTrue ==
    focus = "attempts" => Attempt!AttemptsAreTraced /\ Attempt!NobodyAskedAgain /\ Attempt!InputsAreThere

\* The reputation rows count every recorded outcome once, although commits fail and the
\* sync overwrites a row that changes meanwhile, and no bonus goes to an agent that mostly
\* fails, as long as its failures are graded low, as here: the code takes any grade up to 1.
ReputationIsEarned == focus = "rating" => Rating!ReputationIsEarned

\* A reconciliation that calls a settled payment matched or repaired is right, although
\* settlements, lost notices and another repair come between its reads.
ReconciliationIsTrue == focus = "notices" => Notice!ReconciliationIsTrue
=============================================================================
