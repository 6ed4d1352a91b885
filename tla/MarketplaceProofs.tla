---------------------------- MODULE MarketplaceProofs ----------------------------
(***************************************************************************)
(* Proofs about Marketplace, for every set of agents, documents, accounts   *)
(* and syncers, and any number of outages, restarts and changes.            *)
(***************************************************************************)
EXTENDS Marketplace, TLAPS

Links == Uris \cup {NoUri}
Payable == Accounts \cup {NoAccount}

Rows == [status : {"none", "active", "inactive"}, managed : BOOLEAN, uri : Links, doc : Links,
         account : Payable, reputable : BOOLEAN, reg : {"none", "pending", "registered", "failed"}]
Profiles == [status : {"none", "verified", "failed"}, account : Payable]
Snapshots == [domain : Ids, uri : Uris, doc : Links]
Threads == [pc : {"idle", "fetch", "apply", "finish"}, snaps : SUBSET Snapshots]
Jobs == [pc : {"none", "lost", "queued", "call", "registered", "failed", "done"},
         uri : Links, managed : BOOLEAN, doc : Links]
Checks == [id : Ids \cup {NoId}, account : Payable, status : {"none", "verified", "failed"}]
Candidates == [id : Hired \cup {NoId}, account : Payable, proposed : BOOLEAN]

\* The values of the variables the proofs look at; what a synchronisation holds is
\* always of a registered domain.
Types ==
    /\ chain \in [Ids -> Links]
    /\ rows \in [Ids -> Rows]
    /\ profile \in [Ids -> Profiles]
    /\ thread \in [Syncers -> Threads]
    /\ job \in [Ids -> Jobs]
    /\ check \in Checks
    /\ payee \in Candidates
    /\ verified \in [Ids -> SUBSET Accounts]

\* The account of a verified profile was remembered when it was written.
ProfileInv == \A i \in Hired :
    profile[i].status = "verified" /\ profile[i].account \in Accounts => profile[i].account \in verified[i]

\* A candidate is an agent, and what has been proposed goes to an account verified for it.
PayeeInv ==
    /\ payee.id = NoId => payee = NoCandidate
    /\ PayeeIsVerified

\* A registration in the background has a document to register, and one that
\* succeeded, or that the row records, is on chain.
JobInv == \A i \in Ids :
    /\ job[i].pc = "queued" => rows[i].uri \in Uris
    /\ job[i].pc = "call" => job[i].uri \in Uris
    /\ job[i].pc = "registered" => chain[i] \in Uris
    /\ rows[i].reg = "registered" => chain[i] \in Uris

IInv == Types /\ ProfileInv /\ PayeeInv /\ JobInv

-----------------------------------------------------------------------------
(* Lemmas *)

LEMMA Sets == /\ Hired \subseteq Ids /\ Supported \subseteq Ids /\ Valid \subseteq Accounts
              /\ NoUri \notin Uris /\ NoId \notin Ids /\ NoAccount \notin Accounts
  BY MarketAssumption

\* Whatever profiles are written, remembering them keeps what was remembered.
LEMMA Remembered ==
    ASSUME Types, profile' \in [Ids -> Profiles], Remember(profile')
    PROVE  /\ verified' \in [Ids -> SUBSET Accounts]
           /\ \A i \in Ids : verified[i] \subseteq verified'[i]
           /\ ProfileInv'
<1>1. verified' = [i \in Ids |-> verified[i] \cup
                     {a \in Accounts : i \in Hired /\ profile'[i] = [status |-> "verified", account |-> a]}]
  BY DEF Remember
<1>2. verified \in [Ids -> SUBSET Accounts]
  BY DEF Types
<1>3. ASSUME NEW i \in Hired, profile'[i].status = "verified", profile'[i].account \in Accounts
      PROVE  profile'[i].account \in verified'[i]
  <2>1. i \in Ids /\ profile'[i] \in Profiles
    BY Sets
  <2>2. profile'[i] = [status |-> "verified", account |-> profile'[i].account]
    BY <1>3, <2>1 DEF Profiles
  <2> QED BY <1>1, <1>3, <2>1, <2>2
<1> QED BY <1>1, <1>2, <1>3 DEF ProfileInv

\* The profiles a synchronisation or the catalog leaves.
LEMMA Verifies ==
    ASSUME NEW p \in [Ids -> Profiles], NEW ids, NEW r \in [Ids -> Rows]
    PROVE  Verify(p, ids, r) \in [Ids -> Profiles]
  BY Sets DEF Verify, Profiles, Payable

\* The inventory changes neither the documents nor the registration of an agent.
LEMMA Catalogued ==
    ASSUME NEW r \in [Ids -> Rows]
    PROVE  /\ CatalogRows(r) \in [Ids -> Rows]
           /\ \A i \in Ids : CatalogRows(r)[i].uri = r[i].uri /\ CatalogRows(r)[i].reg = r[i].reg
<1>1. \A i \in Supported : Catalog[i] \in Payable
  BY MarketAssumption DEF Payable
<1>2. ASSUME NEW i \in Ids
      PROVE  /\ CatalogRows(r)[i] \in Rows
             /\ CatalogRows(r)[i].uri = r[i].uri /\ CatalogRows(r)[i].reg = r[i].reg
  <2>1. r[i] \in Rows
    OBVIOUS
  <2> QED BY <1>1, <2>1 DEF CatalogRows, Rows
<1> QED BY <1>2 DEF CatalogRows

\* The payee of a proposal stays verified while the accounts remembered only grow.
LEMMA PayeeKept ==
    ASSUME IInv, UNCHANGED payee, \A i \in Ids : verified[i] \subseteq verified'[i]
    PROVE  PayeeInv'
<1>1. payee.proposed => payee.id \in Ids /\ payee.account \in verified[payee.id]
  BY Sets DEF IInv, Types, Candidates, PayeeInv, PayeeIsVerified, NoCandidate
<1> QED BY <1>1 DEF IInv, PayeeInv, PayeeIsVerified

\* Steps of a synchronisation that write no row.
LEMMA SyncStep ==
    ASSUME IInv, UNCHANGED <<chain, rows, profile, job, check, payee, verified>>,
           thread' \in [Syncers -> Threads]
    PROVE  IInv'
<1>1. Types'
  BY DEF IInv, Types
<1>2. ProfileInv' /\ PayeeInv' /\ JobInv'
  BY DEF IInv, ProfileInv, PayeeInv, PayeeIsVerified, JobInv
<1> QED BY <1>1, <1>2 DEF IInv

-----------------------------------------------------------------------------
(* The invariant *)

LEMMA InitIInv == Init => IInv
<1> SUFFICES ASSUME Init PROVE IInv
  OBVIOUS
<1> DEFINE empty == [i \in Ids |-> NoRow]
<1>1. empty \in [Ids -> Rows]
  BY DEF NoRow, Rows, Links, Payable
<1>2. rows = CatalogRows(empty)
  BY DEF Init
<1> HIDE DEF empty
<1>3. rows \in [Ids -> Rows]
  BY <1>1, <1>2, Catalogued
<1>4. profile \in [Ids -> Profiles]
  <2>1. [i \in Ids |-> NoProfile] \in [Ids -> Profiles]
    BY DEF NoProfile, Profiles, Payable
  <2> QED BY <1>3, <2>1, Verifies DEF Init
<1>5. Types
  <2>1. chain \in [Ids -> Links]
    BY MarketAssumption DEF Init, Links
  <2>2. thread \in [Syncers -> Threads]
    BY DEF Init, IdleThread, Threads
  <2>3. job \in [Ids -> Jobs] /\ check \in Checks /\ payee \in Candidates
    BY DEF Init, NoJob, Jobs, NoCheck, Checks, NoCandidate, Candidates, Links, Payable
  <2>4. verified \in [Ids -> SUBSET Accounts]
    BY MarketAssumption DEF Init
  <2> QED BY <1>3, <1>4, <2>1, <2>2, <2>3, <2>4 DEF Types
<1>6. ProfileInv
  <2> SUFFICES ASSUME NEW i \in Hired, profile[i].account \in Accounts
               PROVE  profile[i].account \in verified[i]
    BY DEF ProfileInv
  <2>1. i \in Ids /\ i \in Supported /\ Catalog[i] \in Valid
    BY MarketAssumption
  <2>2. rows[i].account = Catalog[i]
    BY <1>1, <1>2, <2>1 DEF CatalogRows, Rows
  <2>3. profile[i] = [status |-> "verified", account |-> Catalog[i]]
    BY <2>1, <2>2 DEF Init, Verify
  <2> QED BY <2>1, <2>3 DEF Init
<1>7. PayeeInv
  BY DEF Init, PayeeInv, PayeeIsVerified, NoCandidate
<1>8. JobInv
  <2>1. \A i \in Ids : empty[i].reg = "none"
    BY DEF empty, NoRow
  <2>2. \A i \in Ids : rows[i].reg = "none" /\ job[i].pc = "none"
    BY <1>1, <1>2, <2>1, Catalogued DEF Init, NoJob
  <2> QED BY <2>2 DEF JobInv
<1> QED BY <1>5, <1>6, <1>7, <1>8 DEF IInv

LEMMA RestartStep == IInv /\ Restart => IInv'
<1> SUFFICES ASSUME IInv, Restart PROVE IInv'
  OBVIOUS
<1>1. /\ rows' = CatalogRows(rows) /\ profile' = Verify(profile, Supported, rows') /\ Remember(profile')
      /\ check' = NoCheck /\ payee' = NoCandidate /\ chain' = chain
      /\ thread' = [s \in Syncers |-> IF Process[s] = Process[Periodic] THEN IdleThread ELSE thread[s]]
      /\ job' = [i \in Ids |-> IF job[i].pc = "none" THEN NoJob ELSE [NoJob EXCEPT !.pc = "lost"]]
  BY DEF Restart
<1>2. rows' \in [Ids -> Rows] /\ \A i \in Ids : rows'[i].reg = rows[i].reg
  BY <1>1, Catalogued DEF IInv, Types
<1>3. profile' \in [Ids -> Profiles]
  BY <1>1, <1>2, Verifies DEF IInv, Types
<1>4. verified' \in [Ids -> SUBSET Accounts] /\ ProfileInv'
  BY <1>1, <1>3, Remembered DEF IInv
<1>5. /\ job' \in [Ids -> Jobs] /\ check' \in Checks /\ payee' \in Candidates
      /\ \A i \in Ids : job'[i].pc \in {"none", "lost"}
  BY <1>1 DEF NoJob, Jobs, NoCheck, Checks, NoCandidate, Candidates, Links, Payable
<1>6. thread' \in [Syncers -> Threads]
  BY <1>1 DEF IInv, Types, IdleThread, Threads
<1>7. Types'
  BY <1>1, <1>2, <1>3, <1>4, <1>5, <1>6 DEF IInv, Types
<1>8. PayeeInv'
  BY <1>1 DEF PayeeInv, PayeeIsVerified, NoCandidate
<1>9. JobInv'
  BY <1>1, <1>2, <1>5 DEF IInv, JobInv
<1> QED BY <1>4, <1>7, <1>8, <1>9 DEF IInv

\* The snapshots fetched are of registered domains, each with its own URI.
LEMMA FetchStep == ASSUME NEW s \in Syncers PROVE IInv /\ Fetch(s) => IInv'
<1> SUFFICES ASSUME IInv, Fetch(s) PROVE IInv'
  OBVIOUS
<1>1. UNCHANGED <<chain, rows, profile, job, check, payee, verified>>
  BY DEF Fetch, historyVars
<1>2. PICK D \in SUBSET Registered : \E docs :
        thread' = [thread EXCEPT ![s] = [pc |-> "apply", snaps |-> {SnapshotOf(d, docs) : d \in D}]]
  BY ZenonT(30) DEF Fetch
<1>3. PICK docs :
        thread' = [thread EXCEPT ![s] = [pc |-> "apply", snaps |-> {SnapshotOf(d, docs) : d \in D}]]
  BY <1>2
<1>4. \A d \in Registered : SnapshotOf(d, docs) \in Snapshots
  BY DEF Registered, SnapshotOf, Snapshots, Links, IInv, Types
<1>5. {SnapshotOf(d, docs) : d \in D} \in SUBSET Snapshots
  BY <1>4
<1>6. thread' \in [Syncers -> Threads]
  BY <1>3, <1>5 DEF IInv, Types, Threads
<1> QED BY <1>1, <1>6, SyncStep

LEMMA ThreadStep ==
    ASSUME NEW s \in Syncers
    PROVE  IInv /\ (Begin(s) \/ FetchFails(s) \/ Finish(s) \/ CommitFails(s)) => IInv'
<1> SUFFICES ASSUME IInv, Begin(s) \/ FetchFails(s) \/ Finish(s) \/ CommitFails(s) PROVE IInv'
  OBVIOUS
<1>1. UNCHANGED <<chain, rows, profile, job, check, payee, verified>>
  BY DEF Begin, FetchFails, Finish, CommitFails, historyVars
<1>2. thread' = [thread EXCEPT ![s].pc = "fetch"] \/ thread' = [thread EXCEPT ![s] = IdleThread]
  BY DEF Begin, FetchFails, Finish, CommitFails
<1>3. thread' \in [Syncers -> Threads]
  BY <1>2 DEF IInv, Types, IdleThread, Threads
<1> QED BY <1>1, <1>3, SyncStep

LEMMA ExpireStep == IInv /\ Expire => IInv'
<1> SUFFICES ASSUME IInv, Expire PROVE IInv'
  OBVIOUS
<1>1. UNCHANGED <<chain, rows, profile, thread, job, check, payee, verified>>
  BY DEF Expire, historyVars
<1> QED BY <1>1, SyncStep DEF IInv, Types

\* The rows a synchronisation writes keep their registration, and have a URI if they
\* had one.
LEMMA AppliedRows ==
    ASSUME Types, NEW s \in Syncers, NEW seen, NEW last \in [seen -> thread[s].snaps], NEW good
    PROVE  /\ Applied(rows, last, good) \in [Ids -> Rows]
           /\ \A i \in Ids : /\ Applied(rows, last, good)[i].reg = rows[i].reg
                             /\ rows[i].uri \in Uris => Applied(rows, last, good)[i].uri \in Uris
<1>1. \A x \in Snapshots : x.uri \in Uris /\ (x.doc = NoUri \/ Document[x.doc].account \in Payable)
  BY MarketAssumption DEF Snapshots, Links, Payable
<1>2. \A i \in seen : last[i] \in Snapshots
  BY DEF Types, Threads
<1>3. ASSUME NEW i \in Ids, NEW x \in Snapshots, NEW b \in BOOLEAN
      PROVE  /\ Merged(x, rows[i], b) \in Rows
             /\ Merged(x, rows[i], b).reg = rows[i].reg
             /\ Merged(x, rows[i], b).uri \in Uris
  <2> DEFINE account == IF x.doc = NoUri THEN NoAccount ELSE Document[x.doc].account
  <2>1. rows[i] \in Rows /\ x.uri \in Uris /\ x.doc \in Links
    BY DEF Types, Snapshots
  <2>2. account \in Payable
    BY <1>1 DEF Payable
  <2>3. Merged(x, rows[i], b) =
          [rows[i] EXCEPT !.status = "active", !.managed = TRUE, !.uri = x.uri, !.doc = x.doc,
                          !.account = account, !.reputable = b]
    BY DEF Merged
  <2> HIDE DEF account
  <2> QED BY <2>1, <2>2, <2>3 DEF Rows, Links
<1>4. ASSUME NEW i \in Ids
      PROVE  LET inactive == [rows[i] EXCEPT !.status = "inactive"] IN
             inactive \in Rows /\ inactive.reg = rows[i].reg /\ inactive.uri = rows[i].uri
  BY DEF Types, Rows
<1>5. DOMAIN last = seen
  OBVIOUS
<1>6. ASSUME NEW i \in Ids
      PROVE  LET new == Applied(rows, last, good)[i] IN
             new \in Rows /\ new.reg = rows[i].reg /\ (rows[i].uri \in Uris => new.uri \in Uris)
  <2>1. Applied(rows, last, good)[i] \in {rows[i], [rows[i] EXCEPT !.status = "inactive"]}
        \/ (i \in seen /\ Applied(rows, last, good)[i] = Merged(last[i], rows[i], i \in good))
    BY <1>5 DEF Applied
  <2>2. rows[i] \in Rows
    BY DEF Types
  <2> DEFINE new == Applied(rows, last, good)[i]
             seenWell == i \in good
  <2>3. CASE new = rows[i]
    BY <2>2, <2>3
  <2>4. CASE new = [rows[i] EXCEPT !.status = "inactive"]
    BY <1>4, <2>4
  <2>5. CASE i \in seen /\ new = Merged(last[i], rows[i], i \in good)
    <3>1. last[i] \in Snapshots
      BY <1>2, <2>5
    <3>2. seenWell \in BOOLEAN /\ new = Merged(last[i], rows[i], seenWell)
      BY <2>5
    <3> HIDE DEF new, seenWell
    <3>3. new \in Rows /\ new.reg = rows[i].reg /\ new.uri \in Uris
      BY <1>3, <3>1, <3>2
    <3> QED BY <3>3 DEF new
  <2> QED BY <2>1, <2>3, <2>4, <2>5
<1> QED BY <1>6 DEF Applied

LEMMA ApplyStep == ASSUME NEW s \in Syncers PROVE IInv /\ Apply(s) => IInv'
<1> SUFFICES ASSUME IInv, Apply(s) PROVE IInv'
  OBVIOUS
<1> DEFINE seen == {AgentOf(x) : x \in thread[s].snaps}
<1>1. \E last \in [seen -> thread[s].snaps] : \E good :
        rows' = Applied(rows, last, good) /\ profile' = Verify(profile, seen, rows')
  BY DEF Apply
<1>2. /\ UNCHANGED <<chain, job, check, payee>> /\ Remember(profile')
      /\ thread' = [thread EXCEPT ![s].pc = "finish"]
  BY DEF Apply
<1>3. /\ rows' \in [Ids -> Rows]
      /\ \A i \in Ids : rows'[i].reg = rows[i].reg /\ (rows[i].uri \in Uris => rows'[i].uri \in Uris)
  <2>1. PICK last \in [seen -> thread[s].snaps] : \E good : rows' = Applied(rows, last, good)
    BY <1>1
  <2>2. PICK good : rows' = Applied(rows, last, good)
    BY <2>1
  <2> QED BY <2>2, AppliedRows DEF IInv
<1>4. profile' \in [Ids -> Profiles]
  BY <1>1, <1>3, Verifies DEF IInv, Types
<1>5. /\ verified' \in [Ids -> SUBSET Accounts] /\ ProfileInv'
      /\ \A i \in Ids : verified[i] \subseteq verified'[i]
  BY <1>2, <1>4, Remembered DEF IInv
<1>6. thread' \in [Syncers -> Threads]
  BY <1>2 DEF IInv, Types, Threads
<1>7. Types'
  BY <1>2, <1>3, <1>4, <1>5, <1>6 DEF IInv, Types
<1>8. PayeeInv'
  BY <1>2, <1>5, PayeeKept
<1>9. JobInv'
  BY <1>2, <1>3 DEF IInv, JobInv
<1> QED BY <1>5, <1>7, <1>8, <1>9 DEF IInv

LEMMA RegisterElsewhereStep ==
    ASSUME NEW d \in Ids, NEW u \in Uris PROVE IInv /\ RegisterElsewhere(d, u) => IInv'
<1> SUFFICES ASSUME IInv, RegisterElsewhere(d, u) PROVE IInv'
  OBVIOUS
<1>1. UNCHANGED <<rows, profile, thread, job, check, payee, verified>> /\ chain' = [chain EXCEPT ![d] = u]
  BY DEF RegisterElsewhere, syncVars, historyVars
<1>2. chain' \in [Ids -> Links] /\ \A i \in Ids : chain'[i] = chain[i] \/ chain'[i] \in Uris
  BY <1>1 DEF IInv, Types, Links
<1>3. Types'
  BY <1>1, <1>2 DEF IInv, Types
<1>4. ProfileInv' /\ PayeeInv'
  BY <1>1 DEF IInv, ProfileInv, PayeeInv, PayeeIsVerified
<1>5. JobInv'
  BY <1>1, <1>2 DEF IInv, JobInv
<1> QED BY <1>3, <1>4, <1>5 DEF IInv

LEMMA SubmitStep == ASSUME NEW i \in Ids, NEW u \in Uris PROVE IInv /\ Submit(i, u) => IInv'
<1> SUFFICES ASSUME IInv, Submit(i, u) PROVE IInv'
  OBVIOUS
<1> DEFINE row == [NoRow EXCEPT !.status = "active", !.uri = u, !.reputable = TRUE,
                                !.account = Document[u].account, !.reg = "pending"]
<1>1. /\ UNCHANGED <<chain, profile, thread, check, payee, verified>>
      /\ rows' = [rows EXCEPT ![i] = row] /\ job' = [job EXCEPT ![i].pc = "queued"]
  BY DEF Submit, syncVars, historyVars
<1>2. Document[u].account \in Payable
  BY MarketAssumption DEF Payable
<1>3. row \in Rows /\ row.uri = u /\ row.reg = "pending"
  BY <1>2 DEF NoRow, Rows, Links, Payable
<1> HIDE DEF row
<1>4. /\ rows' \in [Ids -> Rows] /\ rows'[i] = row /\ \A j \in Ids : j # i => rows'[j] = rows[j]
      /\ job' \in [Ids -> Jobs] /\ job'[i].pc = "queued" /\ \A j \in Ids : j # i => job'[j] = job[j]
  BY <1>1, <1>3 DEF IInv, Types, Jobs
<1>5. Types'
  BY <1>1, <1>4 DEF IInv, Types
<1>6. ProfileInv' /\ PayeeInv'
  BY <1>1 DEF IInv, ProfileInv, PayeeInv, PayeeIsVerified
<1>7. JobInv'
  BY <1>1, <1>3, <1>4 DEF IInv, JobInv
<1> QED BY <1>5, <1>6, <1>7 DEF IInv

LEMMA JobLoadStep == ASSUME NEW i \in Ids PROVE IInv /\ JobLoad(i) => IInv'
<1> SUFFICES ASSUME IInv, JobLoad(i) PROVE IInv'
  OBVIOUS
<1> DEFINE new == [pc |-> "call", uri |-> rows[i].uri, managed |-> rows[i].managed, doc |-> rows[i].doc]
<1>1. /\ UNCHANGED <<chain, rows, profile, thread, check, payee, verified>>
      /\ job[i].pc = "queued" /\ job' = [job EXCEPT ![i] = new]
  BY DEF JobLoad, syncVars, historyVars
<1>2. new \in Jobs /\ new.pc = "call" /\ new.uri \in Uris
  BY <1>1 DEF IInv, Types, JobInv, Rows, Jobs
<1> HIDE DEF new
<1>3. job' \in [Ids -> Jobs] /\ job'[i] = new /\ \A j \in Ids : j # i => job'[j] = job[j]
  BY <1>1, <1>2 DEF IInv, Types
<1>4. Types'
  BY <1>1, <1>3 DEF IInv, Types
<1>5. ProfileInv' /\ PayeeInv'
  BY <1>1 DEF IInv, ProfileInv, PayeeInv, PayeeIsVerified
<1>6. JobInv'
  BY <1>1, <1>2, <1>3 DEF IInv, JobInv
<1> QED BY <1>4, <1>5, <1>6 DEF IInv

\* The registrar says registered only of a document it finds on chain afterwards.
LEMMA JobCallStep == ASSUME NEW i \in Ids PROVE IInv /\ JobCall(i) => IInv'
<1> SUFFICES ASSUME IInv, JobCall(i) PROVE IInv'
  OBVIOUS
<1>1. /\ UNCHANGED <<rows, profile, thread, check, payee, verified>>
      /\ job[i].pc = "call" /\ chain' \in {chain, [chain EXCEPT ![i] = job[i].uri]}
  BY DEF JobCall, syncVars, historyVars
<1>2. PICK o \in OutcomeOf(chain'[i], job[i].uri) : job' = [job EXCEPT ![i].pc = o]
  BY DEF JobCall
<1>3. job[i].uri \in Uris
  BY <1>1 DEF IInv, JobInv
<1>4. chain' \in [Ids -> Links] /\ \A j \in Ids : chain[j] \in Uris => chain'[j] \in Uris
  BY <1>1, <1>3 DEF IInv, Types, Links
<1>5. o \in {"registered", "failed"} /\ (o = "registered" => chain'[i] \in Uris)
  BY <1>3 DEF OutcomeOf
<1>6. job' \in [Ids -> Jobs] /\ job'[i].pc = o /\ \A j \in Ids : j # i => job'[j] = job[j]
  BY <1>2, <1>5 DEF IInv, Types, Jobs
<1>7. Types'
  BY <1>1, <1>4, <1>6 DEF IInv, Types
<1>8. ProfileInv' /\ PayeeInv'
  BY <1>1 DEF IInv, ProfileInv, PayeeInv, PayeeIsVerified
<1>9. JobInv'
  BY <1>1, <1>4, <1>5, <1>6 DEF IInv, JobInv
<1> QED BY <1>7, <1>8, <1>9 DEF IInv

LEMMA JobRecordStep == ASSUME NEW i \in Ids PROVE IInv /\ JobRecord(i) => IInv'
<1> SUFFICES ASSUME IInv, JobRecord(i) PROVE IInv'
  OBVIOUS
<1>1. /\ UNCHANGED <<chain, profile, thread, check, payee, verified>>
      /\ job[i].pc \in {"registered", "failed"}
      /\ rows' = [rows EXCEPT ![i] = [@ EXCEPT !.reg = job[i].pc, !.managed = job[i].managed,
                                               !.doc = job[i].doc]]
      /\ job' = [job EXCEPT ![i] = [NoJob EXCEPT !.pc = "done"]]
  BY DEF JobRecord, syncVars, historyVars
<1>2. job[i] \in Jobs /\ rows[i] \in Rows
  BY DEF IInv, Types
<1>3. /\ rows' \in [Ids -> Rows] /\ rows'[i].reg = job[i].pc /\ \A j \in Ids : j # i => rows'[j] = rows[j]
  BY <1>1, <1>2 DEF IInv, Types, Rows, Jobs
<1>4. /\ job' \in [Ids -> Jobs] /\ job'[i].pc = "done" /\ \A j \in Ids : j # i => job'[j] = job[j]
  BY <1>1 DEF IInv, Types, Jobs, NoJob, Links
<1>5. Types'
  BY <1>1, <1>3, <1>4 DEF IInv, Types
<1>6. ProfileInv' /\ PayeeInv'
  BY <1>1 DEF IInv, ProfileInv, PayeeInv, PayeeIsVerified
<1>7. JobInv'
  BY <1>1, <1>3, <1>4 DEF IInv, JobInv
<1> QED BY <1>5, <1>6, <1>7 DEF IInv

LEMMA VerifyReadStep ==
    ASSUME NEW i \in Hired, NEW given \in Given PROVE IInv /\ VerifyRead(i, given) => IInv'
<1> SUFFICES ASSUME IInv, VerifyRead(i, given) PROVE IInv'
  OBVIOUS
<1>1. UNCHANGED <<chain, rows, profile, thread, job, payee, verified>>
  BY DEF VerifyRead, syncVars, historyVars
<1>2. rows[i].account \in Payable /\ given \in Payable
  BY MarketAssumption, Sets DEF IInv, Types, Rows, Payable
<1>3. check' \in Checks
  BY <1>2, Sets DEF VerifyRead, Checks
<1> QED BY <1>1, <1>3 DEF IInv, Types, ProfileInv, PayeeInv, PayeeIsVerified, JobInv

LEMMA VerifyWriteStep == IInv /\ VerifyWrite => IInv'
<1> SUFFICES ASSUME IInv, VerifyWrite PROVE IInv'
  OBVIOUS
<1>1. /\ UNCHANGED <<chain, rows, thread, job, payee>> /\ check' = NoCheck /\ Remember(profile')
      /\ profile' = [profile EXCEPT ![check.id] = [status |-> check.status, account |-> check.account]]
  BY DEF VerifyWrite, syncVars
<1>2. profile' \in [Ids -> Profiles]
  BY <1>1 DEF IInv, Types, Checks, Profiles
<1>3. /\ verified' \in [Ids -> SUBSET Accounts] /\ ProfileInv'
      /\ \A j \in Ids : verified[j] \subseteq verified'[j]
  BY <1>1, <1>2, Remembered DEF IInv
<1>4. check' \in Checks
  BY <1>1 DEF NoCheck, Checks, Payable
<1>5. Types'
  BY <1>1, <1>2, <1>3, <1>4 DEF IInv, Types
<1>6. PayeeInv' /\ JobInv'
  BY <1>1, <1>3, PayeeKept DEF IInv, JobInv
<1> QED BY <1>3, <1>5, <1>6 DEF IInv

LEMMA ConsiderStep == ASSUME NEW i \in Hired PROVE IInv /\ Consider(i) => IInv'
<1> SUFFICES ASSUME IInv, Consider(i) PROVE IInv'
  OBVIOUS
<1>1. /\ UNCHANGED <<chain, rows, profile, thread, job, check, verified>>
      /\ payee' = [id |-> i, account |-> rows[i].account, proposed |-> FALSE]
  BY DEF Consider, syncVars, historyVars
<1>2. payee' \in Candidates /\ ~payee'.proposed /\ payee'.id # NoId
  BY <1>1, Sets DEF IInv, Types, Rows, Candidates
<1> QED BY <1>1, <1>2 DEF IInv, Types, ProfileInv, PayeeInv, PayeeIsVerified, JobInv

\* A payment is proposed to the account the profile was verified for, which was
\* remembered when the profile was written.
LEMMA ProposeStep == IInv /\ Propose => IInv'
<1> SUFFICES ASSUME IInv, Propose PROVE IInv'
  OBVIOUS
<1>1. /\ UNCHANGED <<chain, rows, profile, thread, job, check, verified>> /\ payee # NoCandidate
      /\ \/ payee' = NoCandidate
         \/ /\ payee' = [payee EXCEPT !.proposed = TRUE]
            /\ profile[payee.id].status = "verified" /\ payee.account # NoAccount
            /\ profile[payee.id].account = payee.account
  BY DEF Propose, ProfileMatches, PayeeGiven, syncVars, historyVars
<1>2. payee \in Candidates /\ payee.id \in Hired /\ payee.id # NoId
  BY <1>1, Sets DEF IInv, Types, Candidates, PayeeInv
<1>3. CASE payee' = NoCandidate
  BY <1>1, <1>3 DEF IInv, Types, ProfileInv, PayeeInv, PayeeIsVerified, JobInv, NoCandidate, Candidates, Payable
<1>4. CASE payee' # NoCandidate
  <2>1. payee.account \in Accounts
    BY <1>1, <1>2, <1>4 DEF Candidates, Payable
  <2>2. payee.account \in verified[payee.id]
    BY <1>1, <1>2, <1>4, <2>1 DEF IInv, ProfileInv
  <2>3. payee' \in Candidates /\ payee'.id = payee.id /\ payee'.account = payee.account
    BY <1>1, <1>2, <1>4 DEF Candidates
  <2> QED BY <1>1, <1>2, <2>2, <2>3 DEF IInv, Types, ProfileInv, PayeeInv, PayeeIsVerified, JobInv
<1> QED BY <1>3, <1>4

LEMMA NextIInv == IInv /\ [Next]_vars => IInv'
<1> SUFFICES ASSUME IInv, [Next]_vars PROVE IInv'
  OBVIOUS
<1>1. CASE Restart \/ Expire \/ Propose
  BY <1>1, RestartStep, ExpireStep, ProposeStep
<1>2. CASE \E s \in Syncers : Sync(s)
  BY <1>2, FetchStep, ThreadStep, ApplyStep DEF Sync
<1>3. CASE \E i \in Ids : Job(i) \/ \E u \in Uris : RegisterElsewhere(i, u) \/ Submit(i, u)
  BY <1>3, JobLoadStep, JobCallStep, JobRecordStep, RegisterElsewhereStep, SubmitStep DEF Job
<1>4. CASE \E i \in Hired : Consider(i) \/ \E a \in Given : VerifyRead(i, a)
  BY <1>4, ConsiderStep, VerifyReadStep
<1>5. CASE VerifyWrite
  BY <1>5, VerifyWriteStep
<1>6. CASE UNCHANGED vars
  BY <1>6 DEF vars, syncVars, historyVars, IInv, Types, ProfileInv, PayeeInv, PayeeIsVerified, JobInv
<1> QED BY <1>1, <1>2, <1>3, <1>4, <1>5, <1>6 DEF Next

LEMMA Invariance == Spec => []IInv
  BY InitIInv, NextIInv, PTL DEF Spec

\* A proposed payment goes to an account that was verified for the agent it hires,
\* whatever synchronisations, verifications and restarts came between.
THEOREM PaysTheVerified == Spec => []PayeeIsVerified
<1>1. IInv => PayeeIsVerified
  BY DEF IInv, PayeeInv
<1> QED BY <1>1, Invariance, PTL

\* An agent is recorded as registered only when it is on chain, although the record
\* is written by a job that can be outrun by a restart or another registration.
THEOREM RegisteredStaysOnChain == Spec => []RegisteredIsOnChain
<1>1. IInv => RegisteredIsOnChain
  BY Sets DEF IInv, JobInv, RegisteredIsOnChain
<1> QED BY <1>1, Invariance, PTL

=============================================================================
