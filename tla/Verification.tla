------------------------------ MODULE Verification ------------------------------
(***************************************************************************)
(* The verdict on the result of one microtask: the quality score of            *)
(* research_verification_tools.py, the research contract and the strict quorum *)
(* of agent_tools.py, and the relayed verifier that falls back to the           *)
(* deterministic one.  A text is what the checks find in it.                    *)
(***************************************************************************)
EXTENDS Integers, Sequences, FiniteSets, FiniteSetsExt, Functions

CONSTANTS Citations,  \* citation ids a claim may name
          Results,    \* task results: see ResultType
          Criteria,   \* verification criteria: see CriteriaType
          Texts,      \* what the scores read in a result: see TextType
          Replies     \* replies of the relayed verifier: see ReplyType

Strategies == {"plan_query", "gather_evidence", "curate_sources",
               "critique_and_fact_check", "revise_final_answer"}
Policies == {"single_verifier", "two_of_three", "three_of_five", "unanimous"}
NoCoverage == -1
NoSummary == [coverage |-> NoCoverage, uncovered |-> {}, notes |-> {}]

\* The claims name ids, or titles that are looked up; coverage is in thousandths.
ResultType ==
    [claims : Seq([ids : SUBSET Citations, titles : SUBSET Citations]), citations : SUBSET Citations,
     sources : Nat, fresh : Nat, \* fresh sources, by either summary
     sourceSummary : BOOLEAN, freshness : BOOLEAN, \* whether the result brings these summaries
     findings : Nat, highFindings : Nat, \* of the critic: all, and those of high severity
     wellFormed : BOOLEAN, \* fields, sections, inline ids, dates and wording are as required
     summary : [coverage : {NoCoverage} \cup 0..1000, uncovered : SUBSET Nat, notes : SUBSET STRING]]
CriteriaType ==
    [strategy : Strategies, strict : BOOLEAN, policy : Policies,
     minCoverage : 0..1000, minClaims : Nat, minSources : Nat, minFresh : Nat]
TextType ==
    [role : STRING, phase : STRING, issues : SUBSET STRING, length : {"short", "medium", "long"},
     keys : Nat, placeholders : 0..5, errors : 0..4, badCitations : 0..100, compiles : BOOLEAN,
     pValue : {"absent", "valid", "outside", "unreadable"}, interval : BOOLEAN, words : SUBSET STRING,
     innovative : 0..8, generic : 0..5, capitals : BOOLEAN, lists : BOOLEAN]
\* The JSON objects in a reply, in order: within fences or not, with the keys of a verdict or not.
ReplyType ==
    Seq([fenced : BOOLEAN, envelope : BOOLEAN, success : BOOLEAN, overall : 0..10000, ethics : 0..100, base : BOOLEAN])

VARIABLES
    pc,       \* "start", "relayed" or "done"
    criteria,
    text,
    result,   \* the result of the executor; verifications leave a quality summary in it
    verdict   \* the last verdict

verificationVars == <<pc, criteria, text, result, verdict>>

-----------------------------------------------------------------------------
(* Quality scores, in hundredths of a point where they are weighted *)

Clamp(x) == Max({0, Min({100, x})})
If(condition, points) == IF condition THEN points ELSE 0
Says(t, words) == t.words \cap words # {}

\* What the validators of the phases ask of each role.  The scores tell issues apart
\* by their wording: one that says "missing" or "not provided", one on ethics, any other.
Check(missing, ethic, other) == [missing |-> missing, ethic |-> ethic, other |-> other]
IdeationChecks ==
    [problem_framer |-> Check({"question", "objectives"}, {}, {"scope", "no_objectives", "keywords"}),
     feasibility_analyst |-> Check({"timeline", "data"}, {}, {"resources", "risks", "alternatives"}),
     goal_planner |-> Check({"objectives"}, {}, {"milestones", "deliverables", "success"})]
KnowledgeChecks ==
    [literature_miner |-> Check({"identifiers"}, {}, {"papers", "recency", "diversity"}),
     knowledge_synthesizer |-> Check({"summary"}, {}, {"gaps", "conflicts", "trends", "connection"})]
ExperimentationChecks ==
    [hypothesis_designer |-> Check({}, {}, {"null", "alternative", "independent", "dependent", "outcomes", "tests"}),
     code_generator |-> Check({"code"}, {}, {"syntax", "comments", "dependencies", "errors"}),
     experiment_runner |-> Check({"results", "visuals"}, {}, {"tests", "intervals", "sample"})]
InterpretationChecks ==
    [insight_generator |-> Check({}, {}, {"insights", "support", "implications", "limitations", "future"}),
     bias_detector |-> Check({}, {}, {"scan", "mitigation", "limitations", "interpretations"}),
     compliance_checker |-> Check({"conflict"}, {"review", "violations"}, {"privacy", "irb"})]
PublicationChecks ==
    [paper_writer |-> Check({"abstract", "introduction", "methods", "results", "discussion"}, {}, {"citations", "short"}),
     peer_reviewer |-> Check({"feedback"}, {}, {"separation", "suggestions", "recommendation"})]
Checks ==
    [ideation |-> IdeationChecks, knowledge |-> KnowledgeChecks, experimentation |-> ExperimentationChecks,
     interpretation |-> InterpretationChecks, publication |-> PublicationChecks]

\* _validate_by_phase: another phase or role has no validator.
ChecksOf(t) ==
    IF t.phase \in DOMAIN Checks /\ t.role \in DOMAIN Checks[t.phase] THEN Checks[t.phase][t.role] ELSE Check({}, {}, {})

Completeness(t) ==
    Clamp(100 - 15 * Cardinality(t.issues \cap ChecksOf(t).missing) - 10 * t.placeholders
              - If(t.length = "short", 20) - If(t.length = "medium", 10))

Correctness(t) ==
    Clamp(100 - If(t.role = "literature_miner", (30 * t.badCitations) \div 100)
              - If(t.role = "code_generator" /\ ~t.compiles, 40)
              - If(t.role = "experiment_runner", If(t.pValue = "outside", 30) + If(t.pValue = "unreadable", 20))
              - 15 * t.errors)

Rigor(t) ==
    Clamp(100 - If(t.phase = "experimentation",
                   If(~Says(t, {"hypothesis"}), 20)
                   + If(~Says(t, {"control"}) /\ t.role \in {"hypothesis_designer", "experiment_runner"}, 15))
              - If(t.role = "experiment_runner", If(t.pValue = "absent", 25) + If(~t.interval, 15))
              + If(Says(t, {"evidence"}), 5) + (IF Says(t, {"reproducib"}) THEN 5 ELSE -10))

Clarity(t) ==
    IF t.keys = 0 THEN 0
    ELSE Clamp(100 - If(t.keys < 3, 15) - If(t.capitals, 10)
                   - If(Cardinality(t.words \cap {"hypothesis", "data", "research"}) < 2, 15) + If(t.lists, 5))

Innovation(t) ==
    Clamp(70 + 5 * t.innovative - 3 * t.generic + If(Says(t, {"alternative"}), 10)
             + If(t.phase = "ideation" /\ Says(t, {"interdisciplinary"}), 10)
             + If(t.phase = "experimentation" /\ Says(t, {"new method"}), 15))

Ethics(t) ==
    IF t.issues \cap ChecksOf(t).ethic # {} THEN 0
    ELSE Clamp(100 - If(~Says(t, {"bias", "limitation"}), 15) - If(~Says(t, {"limitation", "assumption"}), 10)
                   - If(Says(t, {"data"}) /\ ~Says(t, {"privacy"}), 10) + If(Says(t, {"conflict"}), 5))

\* The weighted score, in hundredths
Overall(t) ==
    20 * Completeness(t) + 25 * Correctness(t) + 20 * Rigor(t) + 15 * Clarity(t) + 10 * Innovation(t) + 10 * Ethics(t)

AllThresholdsMet(t) ==
    /\ Completeness(t) >= 80 /\ Correctness(t) >= 85 /\ Rigor(t) >= 50
    /\ Clarity(t) >= 70 /\ Innovation(t) >= 60 /\ Ethics(t) >= 90

\* _make_decision
MakeDecision(t) ==
    IF Ethics(t) < 90 THEN "reject"
    ELSE IF Overall(t) >= 5000 /\ AllThresholdsMet(t) THEN "accept"
    ELSE IF Overall(t) >= 3500 THEN "revision" ELSE "reject"

\* verify_research_output: an empty output is not scored.
Decision(t) == IF t.keys = 0 THEN "reject" ELSE MakeDecision(t)

-----------------------------------------------------------------------------
(* The research contract *)

\* The ids a claim names, or else those of the titles it names.
SupportOf(claim, r) == IF claim.ids # {} THEN claim.ids ELSE claim.titles \cap r.citations

\* Mutant: one known citation is enough.
CoversAny(claim, r) == SupportOf(claim, r) \cap r.citations # {}

\* A claim is covered by citations that are all known.
Covers(claim, r) == SupportOf(claim, r) # {} /\ SupportOf(claim, r) \subseteq r.citations

Uncovered(r) == {i \in DOMAIN r.claims : ~Covers(r.claims[i], r)}
CoveredCount(r) == Cardinality(DOMAIN r.claims \ Uncovered(r))

\* round(coverage, 3)
RoundedCoverage(r) ==
    IF r.claims = << >> THEN 0 ELSE (2000 * CoveredCount(r) + Len(r.claims)) \div (2 * Len(r.claims))

\* _evaluate_research_quality_contract, its issues
Issues(r, c) ==
    LET final == c.strategy = "revise_final_answer" IN
    {issue \in {"form", "uncovered", "claims", "coverage"} :
        \/ issue = "form" /\ ~r.wellFormed
        \/ issue = "uncovered" /\ final /\ Uncovered(r) # {}
        \/ issue = "claims" /\ final /\ Len(r.claims) < c.minClaims
        \/ issue = "coverage" /\ final /\ 1000 * CoveredCount(r) < c.minCoverage * Len(r.claims)}

\* ... and the quality summary: only that of a final answer is computed.
Summary(r, c) ==
    LET notes == r.summary.notes \cup Issues(r, c) IN
    IF c.strategy # "revise_final_answer" THEN [r.summary EXCEPT !.notes = notes]
    ELSE [coverage |-> RoundedCoverage(r), uncovered |-> Uncovered(r), notes |-> notes]

-----------------------------------------------------------------------------
(* The strict quorum: _build_strict_quorum_result *)

\* _quorum_required_approvals
RequiredApprovals(policy, votes) ==
    CASE policy = "two_of_three" -> Min({2, votes})
      [] policy = "three_of_five" -> Min({3, votes})
      [] policy = "unanimous" -> votes
      [] OTHER -> 1

\* The sources, or the citations in their place
SourceCount(r) == IF r.sources > 0 THEN r.sources ELSE Cardinality(r.citations)

\* The votes in their order: that of the verifier, and those of the guards that are relevant.
Votes(r, c, accepted) ==
    LET coverage == IF r.summary.coverage # NoCoverage THEN r.summary.coverage ELSE If(r.citations # {}, 1000)
        Vote(relevant, approved) == IF relevant THEN <<approved>> ELSE << >> IN
    <<accepted>>
    \o Vote(c.strategy \in {"curate_sources", "revise_final_answer"} \/ r.citations # {} \/ r.summary.coverage # NoCoverage,
            coverage >= c.minCoverage)
    \o Vote(c.strategy \in {"gather_evidence", "curate_sources"} \/ SourceCount(r) > 0 \/ r.sourceSummary \/ r.freshness,
            SourceCount(r) >= c.minSources)
    \o Vote(r.freshness \/ (c.strategy \in {"gather_evidence", "curate_sources", "revise_final_answer"} /\ c.minFresh > 0),
            r.fresh >= c.minFresh)
    \o Vote(c.strategy \in {"critique_and_fact_check", "revise_final_answer"} \/ r.findings > 0 \/ r.summary.uncovered # {},
            r.highFindings = 0 /\ r.summary.uncovered = {})

\* Only the first votes count: one, three or five, by the policy.
Quorum(r, c, accepted) ==
    LET votes == Votes(r, c, accepted)
        size == CASE c.policy = "single_verifier" -> 1 [] c.policy = "two_of_three" -> 3 [] OTHER -> 5
        active == SubSeq(votes, 1, Min({size, Len(votes)})) IN
    Cardinality({i \in DOMAIN active : active[i]}) >= RequiredApprovals(c.policy, Len(active))

\* _finalize_verification_payload: the summary is written into the result first.
Finalized(r, c) == [r EXCEPT !.summary = Summary(r, c)]

\* The verification passes: base, score and ethics, contract, and the quorum if there is one.
Passes(r, c, overall, ethics, base) ==
    LET accepted == base /\ overall >= 5000 /\ ethics >= 50 /\ Issues(r, c) = {} IN
    accepted /\ ((~c.strict /\ c.policy = "single_verifier") \/ Quorum(Finalized(r, c), c, accepted))

-----------------------------------------------------------------------------
(* Verifications of one result *)

VerificationInit ==
    /\ pc = "start" /\ verdict = "none"
    /\ criteria \in Criteria /\ text \in Texts
    /\ result \in Results

VerdictOf(passes) == IF passes THEN "auto_approve" ELSE "review_required"

\* _extract_json_object: fenced objects are read a second time, after the whole text; the
\* last verdict counts, or else the last object.
Extracted(reply) ==
    LET objects == reply \o SelectSeq(reply, LAMBDA o : o.fenced)
        verdicts == SelectSeq(objects, LAMBDA o : o.envelope) IN
    IF verdicts # << >> THEN verdicts[Len(verdicts)] ELSE objects[Len(objects)]

\* _run_strands_verifier_step: a language model scores the result.  Where the step
\* fails, before or after its verdict, the deterministic verifier follows.
Relay ==
    /\ pc = "start"
    /\ \E reply \in Replies :
         LET o == Extracted(reply) IN
         IF reply = << >> \/ ~o.success THEN pc' = "relayed" /\ UNCHANGED <<result, verdict>>
         ELSE /\ pc' \in {"relayed", "done"}
              /\ result' = Finalized(result, criteria)
              /\ verdict' = VerdictOf(Passes(result, criteria, o.overall, o.ethics, o.base))
    /\ UNCHANGED <<criteria, text>>

\* base_passed of verifier_agent
BasePasses(score) == score.overall >= 5000 /\ score.ethics >= 50

\* verifier_agent; a score that cannot be computed is 45, with 85 for ethics.
Score ==
    /\ pc \in {"start", "relayed"}
    /\ pc' = "done"
    /\ result' = Finalized(result, criteria)
    /\ \E score \in {[overall |-> Overall(text), ethics |-> Ethics(text)], [overall |-> 4500, ethics |-> 85]} :
         verdict' = VerdictOf(Passes(result, criteria, score.overall, score.ethics, BasePasses(score)))
    /\ UNCHANGED <<criteria, text>>

\* _verify_selected_agent_result: the relay, if it is enabled, and what it falls back to
VerificationNext == Relay \/ Score

VerificationSpec == VerificationInit /\ [][VerificationNext]_verificationVars

-----------------------------------------------------------------------------
(* Properties *)

\* A final answer is approved automatically only if every claim names citations it
\* has, and there are as many claims as required: no guard of the quorum, no
\* threshold on the coverage and no earlier summary makes up for one that is not.
ApprovedAnswerIsCited ==
    verdict = "auto_approve" /\ criteria.strategy = "revise_final_answer" =>
        /\ Len(result.claims) >= criteria.minClaims
        /\ \A i \in DOMAIN result.claims :
             LET claim == result.claims[i] IN
             /\ claim.ids \subseteq result.citations
             /\ claim.ids \cup claim.titles # {}

\* An output with an ethical issue, or without two fields its role needs, is not accepted.
AcceptedIsSound ==
    Decision(text) = "accept" =>
        /\ text.issues \cap ChecksOf(text).ethic = {}
        /\ Cardinality(text.issues \cap ChecksOf(text).missing) < 2
=============================================================================
