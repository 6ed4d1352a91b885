------------------------------- MODULE Evidence -------------------------------
(***************************************************************************)
(* The evidence of one research run: the literature miner searches in rounds *)
(* within a budget, curates what it found and cites it; an answer is drafted, *)
(* criticised and revised; the executor persists artifacts, claims and links  *)
(* in one transaction each, and readers of the evidence graph score claims    *)
(* when they first meet them.                                                 *)
(***************************************************************************)
EXTENDS Integers, Sequences, FiniteSets, Functions, FiniteSetsExt

CONSTANTS Pages,        \* what searches may return: see PageType
          Needs,        \* source requirements of a run: see NeedType
          Ids, Unknown, \* citation ids in their order, and an id that is in no catalog
          MaxSearches, Fanout, MaxRounds,
          Readers,
          Confidences,  \* what a model says of its claims
          Critiques,    \* findings of the critics: of high severity, and on disagreement
          MaxQueries,   \* bound: web queries, and academic keyword sets, of a round
          MaxClaims,    \* bound: claims of an answer
          MaxReads,     \* bound: reads of the evidence graph
          MaxCompletions\* bound: completions, the first and those after a resume

\* A page has one URL; "norm" is that URL as the executor normalises it.
PageType == [norm : STRING, kind : {"primary", "academic", "news", "analysis"}, weak : BOOLEAN,
             date : {"none", "hidden", "old", "new"}, score : Nat, publisher : STRING, doubt : BOOLEAN]
NeedType == [total : Nat, primary : Nat, fresh : Nat, live : BOOLEAN]

VARIABLES
    need,     \* the requirements of this run
    stage,    \* the node that is next
    hunt,     \* searches of the miner: round, and how many were made
    found,    \* pages found so far; sources with one URL are one
    catalog,  \* curated sources in their order: the i-th has the i-th citation id
    artifacts,\* evidence_artifacts, in the order of their ids
    answer,   \* claims of the final answer and findings of its critics
    claims,   \* claims table: which completion wrote it, and the claims with their scores
    links,    \* claim_links
    reader,   \* what a reader has queried
    reads

evidenceVars == <<need, stage, hunt, found, catalog, artifacts, answer, claims, links, reader, reads>>
runVars == <<need, stage, hunt, found, catalog, artifacts, answer>>

NoAnswer == [claims |-> << >>, critique |-> [high |-> FALSE, doubt |-> FALSE], published |-> FALSE]
NoRead == [pc |-> "idle", answer |-> NoAnswer, rows |-> << >>, version |-> 0, list |-> << >>]
NoScore == [status |-> "none yet", confidence |-> 0]

EvidenceInit ==
    /\ need \in Needs
    /\ stage = "gather" /\ hunt = [round |-> 0, searches |-> 0]
    /\ found = {} /\ catalog = << >> /\ artifacts = << >> /\ answer = NoAnswer
    /\ claims = [version |-> 0, list |-> << >>] /\ links = {}
    /\ reader = [r \in Readers |-> NoRead] /\ reads = 0

-----------------------------------------------------------------------------
(* Requirements: is_fresh_source, build_source_summary, validate_source_requirements *)

Fresh(pages) == {p \in pages : p.date = "new" /\ need.fresh > 0}
Strong(pages) == {p \in pages : p.kind \in {"primary", "academic"}}
Met(pages) ==
    /\ Cardinality(pages) >= need.total
    /\ Cardinality(Strong(pages)) >= need.primary
    /\ Cardinality(Fresh(pages)) >= need.fresh

-----------------------------------------------------------------------------
(* Gathering *)

\* _execute_gather_evidence, one round: web searches while the budget lasts, then
\* academic searches, each of which counts for all its sources.  Searches may fail.
Round ==
    /\ stage = "gather" /\ hunt.round < MaxRounds /\ hunt.searches < MaxSearches
    /\ \E web, sets \in 0..MaxQueries, pages \in SUBSET Pages :
         LET afterWeb == hunt.searches + Min({web, MaxSearches - hunt.searches})
             academic == Min({sets, (MaxSearches - afterWeb) \div Fanout}) IN
         /\ hunt' = [round |-> hunt.round + 1, searches |-> afterWeb + Fanout * academic]
         /\ found' = found \cup pages
         /\ hunt'.searches = hunt.searches => pages = {}
    /\ UNCHANGED <<need, stage, catalog, artifacts, answer, claims, links, reader, reads>>

\* The rounds end early where the second or a later one meets the requirements, from
\* three publishers, for every claim target; the targets are matched by their words.
RoundsOver ==
    \/ hunt.round = MaxRounds \/ hunt.searches >= MaxSearches
    \/ hunt.round > 0 /\ Met(found) /\ Cardinality({p.publisher : p \in found}) >= 3

\* enrich_source_cards: a page may tell a date that its search result did not.
Enriched(pages, seen) == {IF p \in seen /\ p.date = "hidden" THEN [p EXCEPT !.date = "new"] ELSE p : p \in pages}

-----------------------------------------------------------------------------
(* Artifacts: _upsert_evidence_artifact *)

NoId == "none"
Rank(status) == CASE status = "cited" -> 2 [] status \in {"selected", "filtered"} -> 1 [] OTHER -> 0
Source(page, id, status) == [page |-> page, id |-> id, status |-> status]

\* Mutant: the session flushes before it queries, so keys of this transaction are seen.
ByKeyFlushed(stored, pending, key) == {i \in DOMAIN pending : pending[i].key = key}

\* The session does not flush before a query: rows are found by the keys they had when
\* the transaction began, and new rows are not found.
ByKey(stored, pending, key) == {i \in DOMAIN stored : stored[i].key = key}
ByUrl(stored, url) == {i \in DOMAIN stored : stored[i].url = url}

\* By citation id, then by URL key; a cited source then by its URL.
Matches(stored, pending, s) ==
    LET cited == IF s.id = NoId THEN {} ELSE ByKey(stored, pending, s.id)
        keyed == ByKey(stored, pending, s.page.norm) IN
    IF cited # {} THEN cited ELSE IF keyed # {} THEN keyed
    ELSE IF s.id = NoId THEN {} ELSE ByUrl(stored, s.page.norm)

NewArtifact(s) ==
    [key |-> IF s.id = NoId THEN s.page.norm ELSE s.id, url |-> s.page.norm, status |-> s.status,
     page |-> s.page, meta |-> {}]

Updated(row, s) ==
    [row EXCEPT !.key = IF s.id = NoId THEN @ ELSE s.id, !.url = s.page.norm, !.page = s.page,
                !.status = IF Rank(s.status) >= Rank(@) THEN s.status ELSE @]

Upsert(stored, pending, s) ==
    LET at == Matches(stored, pending, s) IN
    IF at = {} THEN Append(pending, NewArtifact(s)) ELSE [pending EXCEPT ![Min(at)] = Updated(@, s)]

Upserted(stored, sources) ==
    LET table[n \in 0..Len(sources)] ==
          IF n = 0 THEN stored ELSE Upsert(stored, table[n - 1], sources[n]) IN
    table[Len(sources)]

\* uq_evidence_artifacts_key
KeysAreUnique(table) == \A i, j \in DOMAIN table : table[i].key = table[j].key => i = j

-----------------------------------------------------------------------------
(* The nodes of the run *)

\* sort_sources: kind, then whether there is a date, then relevance; equal ones in any order.
Precedes(p, q) ==
    LET Kind(x) == CHOOSE k \in 1..4 : <<"primary", "academic", "news", "analysis">>[k] = x.kind
        Dated(x) == x.date \in {"old", "new"} IN
    \/ Kind(p) < Kind(q)
    \/ Kind(p) = Kind(q) /\ Dated(p) /\ ~Dated(q)
    \/ Kind(p) = Kind(q) /\ Dated(p) = Dated(q) /\ p.score > q.score
Sorted(pages) ==
    {order \in Bijection(1..Cardinality(pages), pages) :
        \A i, j \in DOMAIN order : i < j => ~Precedes(order[j], order[i])}

\* _iterative_deepen: what is left of the budget goes to searches derived from the best sources.
Deepen ==
    /\ stage = "gather" /\ RoundsOver
    /\ stage' = "enrich"
    /\ \E deeper \in 0..(MaxSearches - hunt.searches), pages \in SUBSET Pages :
         /\ deeper = 0 => pages = {}
         /\ hunt' = [hunt EXCEPT !.searches = @ + deeper]
         /\ found' = found \cup pages
    /\ UNCHANGED <<need, catalog, artifacts, answer, claims, links, reader, reads>>

\* The sources are enriched, and persisted with the node; the counts were the miner's
\* own.  Two sources whose URLs only normalisation tells to be equal break the unique
\* key, and with it the node.
Gathered ==
    /\ stage = "enrich"
    /\ \E seen \in SUBSET {p \in found : p.date = "hidden"} : \E order \in Sorted(Enriched(found, seen)) :
         LET pages == Enriched(found, seen)
             table == Upserted(artifacts, [i \in DOMAIN order |-> Source(order[i], NoId, "gathered")]) IN
         /\ found' = pages
         /\ IF pages = {} \/ ~KeysAreUnique(table)
            THEN stage' = "failed" /\ UNCHANGED artifacts
            ELSE stage' = "curate" /\ artifacts' = table
    /\ hunt' = [round |-> 0, searches |-> 0]
    /\ UNCHANGED <<need, catalog, answer, claims, links, reader, reads>>

\* filter_sources_for_curation: weak sources of a live analysis are kept only while the
\* requirements could not be met without them ...
Better(p, q) ==
    LET Signal(x) == IF x.kind = "analysis" THEN 1 ELSE 0 IN
    \/ ~p.weak /\ q.weak
    \/ p.weak = q.weak /\ Signal(p) < Signal(q)
    \/ p.weak = q.weak /\ Signal(p) = Signal(q) /\ p.score > q.score
Prioritized(pages) ==
    {order \in Bijection(1..Cardinality(pages), pages) :
        \A i, j \in DOMAIN order : i < j => ~Better(order[j], order[i])}

Sieved(pages) ==
    {selected \in SUBSET pages : \E order \in Prioritized(pages) : \A i \in DOMAIN order :
        LET before == selected \cap {order[j] : j \in 1..i - 1}
            left == {order[j] : j \in i + 1..Cardinality(pages)}
            canDoWithout ==
                /\ Cardinality(before) + Cardinality(left) >= need.total
                /\ Cardinality(Fresh(before)) + Cardinality(Fresh(left)) >= need.fresh
            wanted == Cardinality(before) < need.total \/ Cardinality(Fresh(before)) < need.fresh IN
        order[i] \in selected <=> ~order[i].weak \/ (wanted /\ ~canDoWithout)}

\* ... and are taken back, without leaving the filtered ones, while they are not met.
Refilled(selected, filtered) ==
    LET With(n) == selected \cup {filtered[j] : j \in 1..n}
        enough == {n \in 0..Len(filtered) : n = Len(filtered) \/ Met(With(n))} IN
    With(Min(enough))

\* _persist_phase2_evidence_artifacts: citations, the sources that carry their ids, and
\* the filtered sources, which have none.
Curation(curated, filtered) ==
    LET As(status) == [i \in DOMAIN curated |-> Source(curated[i], Ids[i], status)] IN
    As("cited") \o As("selected") \o [i \in DOMAIN filtered |-> Source(filtered[i], NoId, "filtered")]
Persisted(curated, filtered) == Upserted(artifacts, Curation(curated, filtered))

\* _execute_curate_sources
Curate ==
    /\ stage = "curate"
    /\ \E selected \in (IF need.live THEN Sieved(found) ELSE {found}) :
       \E filtered \in Prioritized(found \ selected) : \E chosen \in Sorted(Refilled(selected, filtered)) :
         LET curated == SubSeq(chosen, 1, Min({Len(chosen), need.total}))
             table == Persisted(curated, filtered) IN
         /\ catalog' = curated
         /\ IF KeysAreUnique(table) THEN artifacts' = table /\ stage' = "answer"
            ELSE stage' = "failed" /\ UNCHANGED artifacts
    /\ UNCHANGED <<need, hunt, found, answer, claims, links, reader, reads>>

CatalogIds == {Ids[i] : i \in DOMAIN catalog}

\* draft_synthesis, critique_and_fact_check, revise_final_answer: claims as the model
\* words them, names and ids included; only its citations are those of the catalog.
Answer ==
    /\ stage = "answer" /\ answer = NoAnswer
    /\ \E n \in 0..MaxClaims, critique \in Critiques :
         \E list \in [1..n -> [name : {"C1", "C2"}, ids : SUBSET (CatalogIds \cup {Unknown}), confidence : Confidences]] :
           answer' = [claims |-> list, critique |-> critique, published |-> FALSE]
    /\ UNCHANGED <<need, stage, hunt, found, catalog, artifacts, claims, links, reader, reads>>

\* _build_quality_summary, its uncovered claims
UncoveredClaims(a, ids) == {c.name : c \in {d \in Range(a.claims) : d.ids = {} \/ ~(d.ids \subseteq ids)}}

\* A claim's id is its name, with a suffix where an earlier claim has the name.
ClaimId(list, i) == <<list[i].name, Cardinality({j \in 1..i : list[j].name = list[i].name})>>

Placeholder(id) == [key |-> id, url |-> "", status |-> "cited", page |-> CHOOSE p \in Pages : TRUE,
                    meta |-> {"placeholder"}]

\* _mark_completed: the citations are upserted, claims and links are written anew, an id
\* that no artifact has gets a placeholder.  Its scoring meets none of these claims,
\* because they are not flushed.  A resumed run is completed again.
Complete ==
    LET cited == Upserted(artifacts, [i \in DOMAIN catalog |-> Source(catalog[i], Ids[i], "cited")])
        list == answer.claims
        missing == (UNION {c.ids : c \in Range(list)}) \ {r.key : r \in Range(cited)} IN
    /\ stage \in {"answer", "completed"} /\ answer # NoAnswer
    /\ claims.version < MaxCompletions
    /\ stage' = "completed"
    /\ answer' = [answer EXCEPT !.published = TRUE]
    /\ \E added \in Bijection(1..Cardinality(missing), missing) :
         artifacts' = cited \o [i \in DOMAIN added |-> Placeholder(added[i])]
    /\ claims' = [version |-> claims.version + 1,
                  list |-> [i \in DOMAIN list |->
                              [id |-> ClaimId(list, i), ids |-> list[i].ids, confidence |-> list[i].confidence,
                               score |-> NoScore]]]
    /\ links' = UNION {{[claim |-> ClaimId(list, i), key |-> id] : id \in list[i].ids} : i \in DOMAIN list}
    /\ UNCHANGED <<need, hunt, found, catalog, reader, reads>>

-----------------------------------------------------------------------------
(* Readers of the evidence graph: _load_phase2_graph_records *)

\* The record and the artifacts are queried first, the claims and links later, and each
\* query sees what was committed by then.
ReadRecord(r) ==
    /\ reader[r].pc = "idle" /\ reads < MaxReads /\ reads' = reads + 1
    /\ reader' = [reader EXCEPT ![r] = [NoRead EXCEPT !.pc = "artifacts",
                                                      !.answer = IF answer.published THEN answer ELSE NoAnswer]]
    /\ UNCHANGED <<runVars, claims, links>>

ReadArtifacts(r) ==
    /\ reader[r].pc = "artifacts"
    /\ reader' = [reader EXCEPT ![r].pc = "claims", ![r].rows = artifacts]
    /\ UNCHANGED <<runVars, claims, links, reads>>

ReadClaims(r) ==
    /\ reader[r].pc = "claims"
    /\ reader' = [reader EXCEPT ![r].pc = "score", ![r].version = claims.version, ![r].list = claims.list]
    /\ UNCHANGED <<runVars, claims, links, reads>>

\* Mutant: a placeholder counts as evidence.
GapPlaceholders(claim, support, a) == Cardinality(support) < Cardinality(claim.ids) \/ support = {}

\* has_unresolved_citation_gap
Gap(claim, support, a) ==
    \/ support = {} \/ Cardinality(support) < Cardinality(claim.ids)
    \/ \E row \in support : "placeholder" \in row.meta
    \/ claim.id[2] = 1 /\ claim.id[1] \in UncoveredClaims(a, CatalogIds)

\* _compute_phase2_claim_scoring, in hundredths
ClaimScore(claim, support, a) ==
    LET real == {row \in support : "placeholder" \notin row.meta}
        strong == Strong({row.page : row \in real}) # {} \/ Cardinality({row.page.publisher : row \in real}) >= 2
        stale == need.fresh > 0 /\ \E row \in real : row.page.date = "old"
        base == CASE claim.confidence = "high" -> 85 [] claim.confidence = "medium" -> 65
                  [] claim.confidence = "low" -> 40 [] OTHER -> 50
        points == base
                  + (IF Cardinality(support) >= 2 THEN 5 ELSE -15) + (IF strong THEN 5 ELSE 0)
                  - (IF stale THEN 15 ELSE 0) - (IF a.critique.high THEN 10 ELSE 0) IN
    [confidence |-> Max({0, Min({100, points})}),
     status |-> IF Gap(claim, support, a) THEN "insufficient"
                ELSE IF a.critique.doubt \/ \E row \in real : row.page.doubt THEN "mixed" ELSE "none"]

\* _apply_phase2_claim_scoring: claims without a score get one, from the artifacts read.
Scored(seen) ==
    LET Support(c) == {row \in Range(seen.rows) : [claim |-> c.id, key |-> row.key] \in links} IN
    [i \in DOMAIN seen.list |->
        IF seen.list[i].score # NoScore THEN seen.list[i]
        ELSE [seen.list[i] EXCEPT !.score = ClaimScore(seen.list[i], Support(seen.list[i]), seen.answer)]]

\* The scores are committed; if the claims have been deleted meanwhile, the update
\* matches no row and the request fails.
ScoreClaims(r) ==
    /\ reader[r].pc = "score"
    /\ reader' = [reader EXCEPT ![r] = NoRead]
    /\ claims' = IF reader[r].version = claims.version THEN [claims EXCEPT !.list = Scored(reader[r])] ELSE claims
    /\ UNCHANGED <<runVars, links, reads>>

EvidenceNext ==
    \/ Round \/ Deepen \/ Gathered \/ Curate \/ Answer \/ Complete
    \/ \E r \in Readers : ReadRecord(r) \/ ReadArtifacts(r) \/ ReadClaims(r) \/ ScoreClaims(r)

EvidenceSpec == EvidenceInit /\ [][EvidenceNext]_evidenceVars

-----------------------------------------------------------------------------
(* Properties *)

\* The miner never makes more searches than its budget, whatever rounds, fan-out and
\* deepening ask for.
SearchBudget == hunt.searches <= MaxSearches

\* Every curated source has exactly one artifact, cited under the id the answer uses,
\* although it was gathered, selected and perhaps filtered under other keys; and every
\* link of a claim leads to an artifact.
EvidenceIsTraceable ==
    /\ stage \in {"answer", "completed"} =>
         \A i \in DOMAIN catalog :
           LET same == {r \in Range(artifacts) : r.url = catalog[i].norm} IN
           /\ Cardinality({j \in DOMAIN artifacts : artifacts[j].url = catalog[i].norm}) = 1
           /\ \A r \in same : r.key = Ids[i] /\ r.status = "cited" /\ "placeholder" \notin r.meta
    /\ \A l \in links : \E r \in Range(artifacts) : r.key = l.key

\* A claim whose score reports no gap cites sources, all of them curated, even if it
\* was scored from what a reader had queried before the run was completed.
ScoresAreEarned ==
    \A c \in Range(claims.list) :
        c.score.status \in {"none", "mixed"} => c.ids # {} /\ c.ids \subseteq CatalogIds
=============================================================================
