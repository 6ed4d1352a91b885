------------------------------ MODULE Marketplace ------------------------------
(***************************************************************************)
(* The agents a task can hire: rows synchronised from the identity registry *)
(* on chain (registry_sync.py), by a periodic task and by requests that find *)
(* the table stale, in several processes; agents submitted by their owners   *)
(* and registered in the background (routes/agents.py, registrar.py); their  *)
(* payment profiles (payments/runtime.py); and the negotiator that pays the   *)
(* account it finds there.                                                  *)
(***************************************************************************)
EXTENDS Naturals, FiniteSets

CONSTANTS Ids,          \* agent ids; an agent's domain in the registry is an id
          Supported,    \* the supported built-in agents
          Hired,        \* bound: those considered for hire, and whose profiles are verified by hand
          NoId, Accounts, NoAccount,
          Given,        \* bound: the accounts, if any, that a verification by hand names
          Valid,        \* the accounts of a well-formed Hedera format
          Uris, NoUri,
          Document,     \* the metadata at a URI: agent and account
          Deployed,     \* what is registered on chain when the system starts
          Catalog,      \* the account of a built-in agent in the inventory
          Syncers,      \* threads that synchronise
          Periodic,     \* the one of the refresh task of the API process
          Process,      \* the process of a syncer
          MaxOutages,   \* bound: failures of the chain, a gateway or the database
          MaxChanges    \* bound: registrations from elsewhere, submissions, restarts, other syncs

ASSUME MarketAssumption ==
    /\ Supported \subseteq Ids /\ Hired \subseteq Supported /\ Valid \subseteq Accounts
    /\ Given \subseteq Accounts \cup {NoAccount}
    /\ NoId \notin Ids /\ NoAccount \notin Accounts /\ NoUri \notin Uris
    /\ Document \in [Uris -> [agent : Ids, account : Accounts \cup {NoAccount}]]
    /\ Deployed \in [Ids -> Uris \cup {NoUri}] /\ Catalog \in [Supported -> Valid]
    /\ Periodic \in Syncers /\ DOMAIN Process = Syncers

VARIABLES
    chain,    \* the identity registry: the metadata URI of a domain, or NoUri
    rows,     \* agents
    profile,  \* agent_payment_profiles
    sync,     \* agent_registry_sync_state: status and whether its age is below the TTL
    thread,   \* what each syncer is doing
    alive,    \* the refresh task has not ended with an exception
    job,      \* background registration of an agent
    check,    \* what a verification of a payment profile has read
    payee,    \* what a negotiation has read of its candidate, and whether it proposed its payment
    verified, \* history: accounts a verified profile of an agent had
    outages, changes

syncVars == <<sync, thread, alive>>
historyVars == <<verified>>
vars == <<chain, rows, profile, syncVars, job, check, payee, historyVars, outages, changes>>

NoRow == [status |-> "none", managed |-> FALSE, uri |-> NoUri, doc |-> NoUri,
          account |-> NoAccount, reputable |-> FALSE, reg |-> "none"]
NoProfile == [status |-> "none", account |-> NoAccount]
IdleThread == [pc |-> "idle", snaps |-> {}]
NoJob == [pc |-> "none", uri |-> NoUri, managed |-> FALSE, doc |-> NoUri]
NoCheck == [id |-> NoId, account |-> NoAccount, status |-> "none"]
NoCandidate == [id |-> NoId, account |-> NoAccount, proposed |-> FALSE]

\* Rows a sync or the catalog writes with a valid account get a verified profile.
Verify(p, ids, r) ==
    [i \in Ids |-> IF i \in ids /\ r[i].account \in Valid
                   THEN [status |-> "verified", account |-> r[i].account] ELSE p[i]]
Remember(p) == verified' = [i \in Ids |-> verified[i] \cup
                              {a \in Accounts : i \in Hired /\ p[i] = [status |-> "verified", account |-> a]}]

-----------------------------------------------------------------------------
(* Startup *)

\* _upsert_supported_research_agents: the inventory overrides what is in the rows.
CatalogRows(r) ==
    [i \in Ids |-> IF i \in Supported
                   THEN [r[i] EXCEPT !.status = "active", !.account = Catalog[i], !.reputable = TRUE]
                   ELSE r[i]]

Init ==
    /\ chain = Deployed
    /\ rows = CatalogRows([i \in Ids |-> NoRow])
    /\ profile = Verify([i \in Ids |-> NoProfile], Supported, rows)
    /\ sync = [status |-> "never", fresh |-> FALSE]
    /\ thread = [s \in Syncers |-> IdleThread]
    /\ alive = TRUE
    /\ job = [i \in Ids |-> NoJob]
    /\ check = NoCheck
    /\ payee = NoCandidate
    /\ verified = [i \in Ids |-> IF i \in Hired THEN {Catalog[i]} ELSE {}]
    /\ outages = 0 /\ changes = 0

\* The API process restarts: its threads, jobs and requests are gone, and the
\* catalog is written again.
Restart ==
    /\ changes < MaxChanges /\ changes' = changes + 1
    /\ rows' = CatalogRows(rows)
    /\ profile' = Verify(profile, Supported, rows') /\ Remember(profile')
    /\ thread' = [s \in Syncers |-> IF Process[s] = Process[Periodic] THEN IdleThread ELSE thread[s]]
    /\ alive' = TRUE
    /\ job' = [i \in Ids |-> IF job[i].pc = "none" THEN NoJob ELSE [NoJob EXCEPT !.pc = "lost"]]
    /\ check' = NoCheck /\ payee' = NoCandidate
    /\ UNCHANGED <<chain, sync, outages>>

-----------------------------------------------------------------------------
(* Synchronisation *)

\* The TTL of the last successful synchronisation expires.
Expire ==
    /\ sync.fresh
    /\ sync' = [sync EXCEPT !.fresh = FALSE]
    /\ UNCHANGED <<chain, rows, profile, thread, alive, job, check, payee, historyVars,
                   outages, changes>>

\* _SYNC_LOCK, of one process
LockFree(s) == \A t \in Syncers : Process[t] = Process[s] => thread[t].pc = "idle"

\* ensure_registry_cache: a stale table, and the lock is free.
Begin(s) ==
    /\ ~sync.fresh /\ thread[s].pc = "idle" /\ LockFree(s)
    /\ IF s = Periodic THEN alive /\ UNCHANGED changes
                       ELSE changes < MaxChanges /\ changes' = changes + 1
    /\ thread' = [thread EXCEPT ![s].pc = "fetch"]
    /\ sync' = [sync EXCEPT !.status = "running"]
    /\ UNCHANGED <<chain, rows, profile, alive, job, check, payee, historyVars, outages>>

Registered == {d \in Ids : chain[d] # NoUri}

\* Documents earlier synchronisations stored in the rows, by URI.
Cached == {u \in Uris : \E i \in Ids : rows[i].uri = u /\ rows[i].doc = u}

\* What _fetch_metadata_batch may get from the gateways for these domains.
Served(D) == SUBSET ({chain[d] : d \in D} \ Cached)

\* The snapshot of a domain, with the documents at hand; an unreachable one is left out.
SnapshotOf(d, docs) ==
    [domain |-> d, uri |-> chain[d], doc |-> IF chain[d] \in docs THEN chain[d] ELSE NoUri]

\* _fetch_registry_snapshots: domains that do not resolve are skipped, and an
\* unreachable registry looks like an empty one.
Fetch(s) ==
    /\ thread[s].pc = "fetch"
    /\ \E D \in SUBSET Registered : \E U \in Served(D) :
         LET docs == U \cup Cached
             whole == D = Registered /\ {chain[d] : d \in D} \subseteq docs IN
         /\ whole \/ outages < MaxOutages
         /\ outages' = IF whole THEN outages ELSE outages + 1
         /\ thread' = [thread EXCEPT ![s] = [pc |-> "apply", snaps |-> {SnapshotOf(d, docs) : d \in D}]]
    /\ UNCHANGED <<chain, rows, profile, sync, alive, job, check, payee, historyVars, changes>>

\* The registry is not configured, or the fetch raised: the state says so, and the
\* caller sees the exception; the refresh task survives only a RegistrySyncError.
FetchFails(s) ==
    /\ thread[s].pc = "fetch" /\ outages < MaxOutages
    /\ outages' = outages + 1
    /\ sync' = [sync EXCEPT !.status = "error"]
    /\ thread' = [thread EXCEPT ![s] = IdleThread]
    /\ alive' \in (IF s = Periodic THEN {TRUE, FALSE} ELSE {alive})
    /\ UNCHANGED <<chain, rows, profile, job, check, payee, historyVars, changes>>

\* The agent a snapshot is of: without its document, the one named like the domain.
AgentOf(x) == IF x.doc = NoUri THEN x.domain ELSE Document[x.doc].agent

\* The row a snapshot writes; a missing document empties its fields.
Merged(x, r, reputable) ==
    [r EXCEPT !.status = "active", !.managed = TRUE, !.uri = x.uri, !.doc = x.doc,
              !.account = IF x.doc = NoUri THEN NoAccount ELSE Document[x.doc].account,
              !.reputable = reputable]

\* Agents whose reputation may be below the negotiator's minimum: supported ones have a floor.
Disreputable(ids) == SUBSET (ids \ Supported)

\* Mutant: an agent seen again stays inactive.
AppliedOnce(old, last, good) ==
    [i \in Ids |-> IF i \in DOMAIN last /\ old[i].status # "inactive"
                   THEN Merged(last[i], old[i], i \in good)
                   ELSE IF DOMAIN last # {} /\ old[i].managed THEN [old[i] EXCEPT !.status = "inactive"]
                   ELSE old[i]]

\* The rows after a synchronisation that saw something: managed rows it did not
\* see become inactive.
Applied(old, last, good) ==
    [i \in Ids |-> IF i \in DOMAIN last THEN Merged(last[i], old[i], i \in good)
                   ELSE IF DOMAIN last # {} /\ old[i].managed THEN [old[i] EXCEPT !.status = "inactive"]
                   ELSE old[i]]

\* _apply_snapshots: one transaction; of two snapshots of one agent the later
\* one stays.  Reputation comes from the chain, with a floor for supported agents.
Apply(s) ==
    LET snaps == thread[s].snaps
        seen == {AgentOf(x) : x \in snaps} IN
    /\ thread[s].pc = "apply"
    /\ \E last \in [seen -> snaps], low \in Disreputable(seen) :
         /\ \A i \in seen : AgentOf(last[i]) = i
         /\ rows' = Applied(rows, last, seen \ low)
         /\ profile' = Verify(profile, seen, rows')
    /\ Remember(profile')
    /\ thread' = [thread EXCEPT ![s].pc = "finish"]
    /\ UNCHANGED <<chain, sync, alive, job, check, payee, outages, changes>>

\* The state of the synchronisation has a commit of its own.
Finish(s) ==
    /\ thread[s].pc = "finish"
    /\ sync' = [status |-> "ok", fresh |-> TRUE]
    /\ thread' = [thread EXCEPT ![s] = IdleThread]
    /\ UNCHANGED <<chain, rows, profile, alive, job, check, payee, historyVars, outages, changes>>

\* A commit raises: what was committed stays, and the state still says running.
CommitFails(s) ==
    /\ thread[s].pc \in {"apply", "finish"} /\ outages < MaxOutages
    /\ outages' = outages + 1
    /\ thread' = [thread EXCEPT ![s] = IdleThread]
    /\ alive' = (alive /\ s # Periodic)
    /\ UNCHANGED <<chain, rows, profile, sync, job, check, payee, historyVars, changes>>

Sync(s) == Begin(s) \/ Fetch(s) \/ FetchFails(s) \/ Apply(s) \/ Finish(s) \/ CommitFails(s)

-----------------------------------------------------------------------------
(* Registration *)

\* Somebody else registers a domain, or changes its document.
RegisterElsewhere(d, u) ==
    /\ changes < MaxChanges /\ changes' = changes + 1
    /\ chain[d] # u /\ chain' = [chain EXCEPT ![d] = u]
    /\ UNCHANGED <<rows, profile, syncVars, job, check, payee, historyVars, outages>>

\* register_agent: a new id, whose document is published before the commit; a
\* failed upload rolls everything back.
Submit(i, u) ==
    /\ changes < MaxChanges /\ changes' = changes + 1
    /\ rows[i].status = "none" /\ Document[u].agent = i
    /\ rows' = [rows EXCEPT ![i] = [NoRow EXCEPT !.status = "active", !.uri = u, !.reputable = TRUE,
                                    !.account = Document[u].account, !.reg = "pending"]]
    /\ job' = [job EXCEPT ![i].pc = "queued"]
    /\ UNCHANGED <<chain, profile, syncVars, check, payee, historyVars, outages>>

\* _trigger_registry_registration reads the row and calls the registrar.
JobLoad(i) ==
    /\ job[i].pc = "queued"
    /\ job' = [job EXCEPT ![i] = [pc |-> "call", uri |-> rows[i].uri, managed |-> rows[i].managed, doc |-> rows[i].doc]]
    /\ UNCHANGED <<chain, rows, profile, syncVars, check, payee, historyVars, outages, changes>>

\* Mutant: the receipt's status is not looked at.
OutcomeUnchecked(after, u) == {"registered"}

\* What _register_locked may return: "failed" also when its transaction was sent
\* and the receipt did not come in time.
OutcomeOf(after, u) == IF after = u THEN {"registered", "failed"} ELSE {"failed"}

\* register_agent of the registrar, under its lock: registered already, or a
\* transaction that is mined or not.
JobCall(i) ==
    /\ job[i].pc = "call"
    /\ chain' \in {chain, [chain EXCEPT ![i] = job[i].uri]}
    /\ \E o \in OutcomeOf(chain'[i], job[i].uri) : job' = [job EXCEPT ![i].pc = o]
    /\ UNCHANGED <<rows, profile, syncVars, check, payee, historyVars, outages, changes>>

\* _set_registry_status writes back the whole meta column it had read: what a
\* synchronisation wrote there meanwhile is gone.
JobRecord(i) ==
    /\ job[i].pc \in {"registered", "failed"}
    /\ rows' = [rows EXCEPT ![i].reg = job[i].pc, ![i].managed = job[i].managed, ![i].doc = job[i].doc]
    /\ job' = [job EXCEPT ![i] = [NoJob EXCEPT !.pc = "done"]]
    /\ UNCHANGED <<chain, profile, syncVars, check, payee, historyVars, outages, changes>>

Job(i) == JobLoad(i) \/ JobCall(i) \/ JobRecord(i)

-----------------------------------------------------------------------------
(* Payment profiles and hiring *)

\* verify_agent_payment_profile reads the agent's account and compares it with the
\* given one, or with itself; the profile gets the registered account, if the given
\* one is well-formed.
VerifyRead(i, given) ==
    LET registered == rows[i].account
        candidate == IF given = NoAccount THEN registered ELSE given IN
    /\ check = NoCheck /\ rows[i].status # "none"
    /\ check' = [id |-> i,
                 account |-> IF candidate \in Valid /\ registered # NoAccount THEN registered ELSE candidate,
                 status |-> IF candidate \in Valid /\ candidate = registered THEN "verified" ELSE "failed"]
    /\ UNCHANGED <<chain, rows, profile, syncVars, job, payee, historyVars, outages, changes>>

VerifyWrite ==
    /\ check # NoCheck
    /\ profile' = [profile EXCEPT ![check.id] = [status |-> check.status, account |-> check.account]]
    /\ Remember(profile')
    /\ check' = NoCheck
    /\ UNCHANGED <<chain, rows, syncVars, job, payee, outages, changes>>

\* negotiator_agent reads a candidate: _load_marketplace_agent
Consider(i) ==
    /\ payee = NoCandidate \/ payee.proposed
    /\ rows[i].status # "none" /\ rows[i].reputable
    /\ payee' = [id |-> i, account |-> rows[i].account, proposed |-> FALSE]
    /\ UNCHANGED <<chain, rows, profile, syncVars, job, check, historyVars, outages, changes>>

\* Mutant: any verified profile will do.
ProfileVerified(c) == profile[c.id].status = "verified"

\* require_verified_payment_profile: without an account it compares nothing.
ProfileMatches(c) ==
    /\ profile[c.id].status = "verified"
    /\ c.account # NoAccount => profile[c.id].account = c.account

\* create_payment_request refuses an empty account.
PayeeGiven(c) == c.account # NoAccount

\* The candidate is checked and its payment proposed, or it is passed over.
Propose ==
    /\ payee # NoCandidate /\ ~payee.proposed
    /\ payee' = IF ProfileMatches(payee) /\ PayeeGiven(payee)
                THEN [payee EXCEPT !.proposed = TRUE] ELSE NoCandidate
    /\ UNCHANGED <<chain, rows, profile, syncVars, job, check, historyVars, outages, changes>>

Next ==
    \/ Restart \/ Expire \/ VerifyWrite \/ Propose
    \/ \E s \in Syncers : Sync(s)
    \/ \E i \in Ids :
        \/ Job(i)
        \/ \E u \in Uris : RegisterElsewhere(i, u) \/ Submit(i, u)
    \/ \E i \in Hired : Consider(i) \/ \E a \in Given : VerifyRead(i, a)

Spec == Init /\ [][Next]_vars

\* Time passes, the refresh task runs; who else synchronises finishes what it began.
FairSpec ==
    /\ Spec
    /\ WF_vars(Expire) /\ WF_vars(Sync(Periodic))
    /\ \A s \in Syncers \ {Periodic} : WF_vars(thread[s].pc # "idle" /\ Sync(s))

-----------------------------------------------------------------------------
(* Properties *)

\* Every payment proposed goes to an account that was verified for the agent it
\* hires, although rows and profiles are written by synchronisations,
\* verifications and restarts between the reads of the negotiator.
PayeeIsVerified == payee.proposed => payee.account \in verified[payee.id]

\* An agent recorded as registered is on chain.
RegisteredIsOnChain == \A i \in Ids : rows[i].reg = "registered" => chain[i] # NoUri

Mirrored(d) ==
    LET i == Document[chain[d]].agent IN
    rows[i].managed /\ rows[i].status = "active" /\ \E e \in Registered : rows[i].uri = chain[e]

\* Whatever outages, restarts, lost writes and racing synchronisations there were,
\* the agents on chain become active in the table again, as long as the refresh
\* task lives.
RegistryIsMirrored == []<>(~alive \/ \A d \in Registered : Mirrored(d))
=============================================================================
