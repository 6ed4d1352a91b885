------------------------------- MODULE TrustProofs -------------------------------
(***************************************************************************)
(* Proofs about the tables that say whom and what to trust: DataVault, for   *)
(* every set of datasets, contents and requests and any number of mishaps,    *)
(* Reputation, for any number of executions, grades, syncs and faults, and    *)
(* HolBroker, for every set of agents, requests, chats and registrations.     *)
(* They share no state; each has its part of this module.                     *)
(***************************************************************************)
EXTENDS DataVault, Reputation, HolBroker, FiniteSetTheorems, TLAPS

-----------------------------------------------------------------------------
(* DataVault: the inductive invariant *)

Manifests == [dataset : Datasets, verified : {"pending", "passed", "failed"}]

Columns == [verified : {"pending", "passed", "failed"},
            proof : {"unanchored", "failed", "manifest_pinned", "anchored"},
            manifest : Manifests \cup {NoManifest}, used : BOOLEAN]

Active == {"pin", "submit", "use"}

Awaiting == [pc : Active \cup {"idle", "over"}, dataset : Datasets \cup {NoDataset}, seen : Columns,
             fresh : BOOLEAN]

\* Every variable has the type of its column, file, topic or local.
Types ==
    /\ content \in [Datasets -> Contents \cup {NoContent}]
    /\ file \in [Datasets -> {"none", "intact", "altered"}]
    /\ trust \in [Datasets -> Columns]
    /\ topic \in SUBSET Manifests
    /\ request \in [Requests -> Awaiting]

\* A dataset passed verification, or did when a request that will write it back read it.
Passed(d) ==
    \/ trust[d].verified = "passed"
    \/ \E r \in Requests : request[r].pc \in Active /\ request[r].dataset = d /\ request[r].seen.verified = "passed"

\* A request works on a stored dataset.
RequestInv == \A r \in Requests : request[r].pc \in Active => request[r].dataset \in Stored

\* The columns in the table and those that requests have read.
PassInv == \A d, e \in Stored : content[d] = content[e] /\ Passed(d) /\ Passed(e) => d = e

AnchorInv ==
    /\ \A d \in Datasets : trust[d].proof = "anchored" => trust[d].manifest \in topic
    /\ \A r \in Requests : request[r].pc \in Active /\ request[r].seen.proof = "anchored" =>
                              request[r].seen.manifest \in topic

IInv == Types /\ RequestInv /\ PassInv /\ AnchorInv

\* What a column may say of dataset d: that it passed, if it did before or has no
\* duplicate; that it is anchored, if its manifest is on the topic.
Sound(d, t) ==
    /\ t.verified = "passed" => Passed(d) \/ Duplicates(d, content[d]) = {}
    /\ t.proof = "anchored" => t.manifest \in topic'

-----------------------------------------------------------------------------
(* DataVault: lemmas *)

\* A step that writes and reads sound columns only.
LEMMA SoundStep ==
    ASSUME IInv, Types', content' = content, topic \subseteq topic',
           \A d \in Datasets : (trust'[d] = trust[d] \/ Sound(d, trust'[d])),
           \A r \in Requests :
              \/ request'[r] = request[r]
              \/ request'[r].pc \notin Active
              \/ request'[r].dataset \in Stored /\ Sound(request'[r].dataset, request'[r].seen)
    PROVE  IInv'
<1>1. Stored' = Stored
  BY DEF Stored
<1>2. RequestInv'
  BY <1>1 DEF IInv, RequestInv
<1>3. AnchorInv'
  BY DEF IInv, AnchorInv, Sound
<1>4. ASSUME NEW d \in Stored, Passed(d)' PROVE Passed(d) \/ Duplicates(d, content[d]) = {}
  <2>1. d \in Datasets
    BY DEF Stored
  <2>2. CASE trust'[d].verified = "passed"
    BY <2>1, <2>2 DEF Sound, Passed
  <2>3. CASE \E r \in Requests : request'[r].pc \in Active /\ request'[r].dataset = d
                                  /\ request'[r].seen.verified = "passed"
    BY <2>3 DEF Sound, Passed
  <2> QED BY <1>4, <2>2, <2>3 DEF Passed
<1>5. PassInv'
  <2> SUFFICES ASSUME NEW d \in Stored, NEW e \in Stored, content[d] = content[e], Passed(d)', Passed(e)'
               PROVE  d = e
    BY <1>1 DEF PassInv
  <2>1. CASE Duplicates(d, content[d]) = {} \/ Duplicates(e, content[e]) = {}
    BY <2>1 DEF Duplicates
  <2>2. CASE Passed(d) /\ Passed(e)
    BY <2>2 DEF IInv, PassInv
  <2> QED BY <1>4, <2>1, <2>2
<1> QED BY <1>2, <1>3, <1>5 DEF IInv

\* A verification reports what is sound.
LEMMA CheckedSound ==
    ASSUME IInv, topic' = topic, NEW d \in Stored
    PROVE  Checked(d) \in Columns /\ Sound(d, Checked(d)) /\ Sound(d, trust[d]) /\ d \in Datasets
<1>1. d \in Datasets /\ trust[d] \in Columns
  BY DEF Stored, IInv, Types
<1>2. /\ Checked(d) \in Columns /\ Checked(d).proof = trust[d].proof /\ Checked(d).manifest = trust[d].manifest
      /\ Checked(d).verified = Report(d, content[d], file[d])
  BY <1>1 DEF Checked, Columns, Report
<1>3. Report(d, content[d], file[d]) = "passed" => Duplicates(d, content[d]) = {}
  BY DEF Report
<1> QED BY <1>1, <1>2, <1>3 DEF Sound, IInv, AnchorInv, Passed

\* What a request has read is sound, whatever has been put on the topic since.
LEMMA SeenSound ==
    ASSUME IInv, topic \subseteq topic', NEW r \in Requests, request[r].pc \in Active
    PROVE  /\ request[r].dataset \in Stored /\ request[r].dataset \in Datasets
           /\ request[r].seen \in Columns /\ Sound(request[r].dataset, request[r].seen)
  BY DEF IInv, Types, Awaiting, RequestInv, AnchorInv, Sound, Passed, Stored

LEMMA RestTypes ==
    /\ Idle \in Awaiting /\ Over \in Awaiting /\ Pending \in Columns
    /\ Idle.pc \notin Active /\ Over.pc \notin Active
    /\ Pending.verified = "pending" /\ Pending.proof = "unanchored"
  BY DEF Idle, Over, Pending, Awaiting, Columns, Active

\* A request ends with a sound column.
LEMMA AnswerStep ==
    ASSUME IInv, NEW r \in Requests, request[r].pc \in Active, NEW t \in Columns, Answer(r, t),
           Sound(request[r].dataset, t), UNCHANGED <<content, file>>, topic \subseteq topic',
           topic' \in SUBSET Manifests
    PROVE  IInv'
<1>1. request[r].dataset \in Datasets
  BY SeenSound
<1>2. /\ trust' = [trust EXCEPT ![request[r].dataset] = t]
      /\ request' = [request EXCEPT ![r] = Over]
  BY DEF Answer
<1>3. Types'
  BY <1>1, <1>2, RestTypes DEF IInv, Types
<1>4. \A d \in Datasets : trust'[d] = trust[d] \/ Sound(d, trust'[d])
  BY <1>1, <1>2 DEF IInv, Types
<1>5. \A q \in Requests : request'[q] = request[q] \/ request'[q].pc \notin Active
  BY <1>2, RestTypes DEF IInv, Types
<1> QED BY <1>3, <1>4, <1>5, SoundStep

\* A step that writes no column and reads none.
LEMMA StopStep ==
    ASSUME IInv, UNCHANGED <<content, trust, topic>>, file' \in [Datasets -> {"none", "intact", "altered"}],
           request' \in [Requests -> Awaiting],
           \A r \in Requests : request'[r] = request[r] \/ request'[r].pc \notin Active
    PROVE  IInv'
<1>1. Types'
  BY DEF IInv, Types
<1> QED BY <1>1, SoundStep

LEMMA StoppedTypes == Stopped \in [Requests -> Awaiting] /\ \A r \in Requests : Stopped[r].pc \notin Active
  BY RestTypes DEF Stopped

\* A request begins with a sound column.
LEMMA BeginStep ==
    ASSUME IInv, NEW r \in Requests, NEW d \in Stored, NEW t \in Columns, NEW pc \in Active,
           request' = [request EXCEPT ![r] = [pc |-> pc, dataset |-> d, seen |-> t, fresh |-> FALSE]],
           UNCHANGED <<content, file, topic>>, Sound(d, t),
           trust' = trust \/ trust' = [trust EXCEPT ![d] = t]
    PROVE  IInv'
<1> DEFINE q == [pc |-> pc, dataset |-> d, seen |-> t, fresh |-> FALSE]
<1>1. d \in Datasets
  BY DEF Stored
<1>2. q \in Awaiting /\ q.dataset = d /\ q.seen = t
  BY <1>1 DEF Awaiting
<1>3. request' = [request EXCEPT ![r] = q]
  OBVIOUS
<1> HIDE DEF q
<1>4. Types'
  <2>1. request' \in [Requests -> Awaiting]
    BY <1>2, <1>3 DEF IInv, Types
  <2>2. trust' \in [Datasets -> Columns]
    BY <1>1 DEF IInv, Types
  <2> QED BY <2>1, <2>2 DEF IInv, Types
<1>5. \A e \in Datasets : trust'[e] = trust[e] \/ Sound(e, trust'[e])
  BY <1>1 DEF IInv, Types
<1>6. \A p \in Requests : request'[p] = request[p] \/ (request'[p].dataset \in Stored
                                                     /\ Sound(request'[p].dataset, request'[p].seen))
  BY <1>2, <1>3 DEF IInv, Types
<1> QED BY <1>4, <1>5, <1>6, SoundStep

-----------------------------------------------------------------------------
(* DataVault: steps *)

\* The first row of a content is the only one that can pass.
LEMMA UploadStep ==
    ASSUME NoContent \notin Contents, IInv, NEW d \in Datasets, NEW c \in Contents, NEW r \in Requests,
           Upload(d, c, r)
    PROVE  IInv'
<1>1. content[d] = NoContent /\ file[d] = "none" /\ UNCHANGED <<topic, auto>>
  BY DEF Upload
<1>2. CASE file' = [file EXCEPT ![d] = "intact"] /\ request' = Stopped /\ UNCHANGED <<content, trust>>
  <2>1. file' \in [Datasets -> {"none", "intact", "altered"}]
    BY <1>2 DEF IInv, Types
  <2> QED BY <1>1, <1>2, <2>1, StoppedTypes, StopStep
<1> DEFINE t == [Pending EXCEPT !.verified = Report(d, c, "intact")]
           k == [pc |-> "pin", dataset |-> d, seen |-> t, fresh |-> TRUE]
<1>3. CASE /\ content' = [content EXCEPT ![d] = c] /\ file' = [file EXCEPT ![d] = "intact"]
           /\ trust' = [trust EXCEPT ![d] = t]
           /\ (request' = request \/ request' = [request EXCEPT ![r] = k])
  <2>1. /\ t \in Columns /\ t.proof = "unanchored" /\ t.verified = Report(d, c, "intact")
        /\ k \in Awaiting /\ k.pc \in Active /\ k.dataset = d /\ k.seen = t
    BY DEF Pending, Columns, Report, Awaiting, Active
  <2> HIDE DEF t, k
  <2>2. Types'
    BY <1>1, <1>3, <2>1 DEF IInv, Types
  <2>3. Stored' = Stored \cup {d} /\ d \notin Stored /\ content'[d] = c
        /\ \A e \in Stored : content'[e] = content[e] /\ trust'[e] = trust[e] /\ e \in Datasets
    BY <1>1, <1>3 DEF Stored, IInv, Types
  <2>4. \A p \in Requests : request'[p] = request[p] \/ request'[p] = k
    BY <1>3 DEF IInv, Types
  <2>5. RequestInv'
    BY <2>1, <2>3, <2>4 DEF IInv, RequestInv
  <2>6. AnchorInv'
    <3>1. \A e \in Datasets : trust'[e] = trust[e] \/ trust'[e].proof # "anchored"
      BY <1>3, <2>1 DEF IInv, Types
    <3> QED BY <1>1, <2>1, <2>4, <3>1 DEF IInv, AnchorInv
  <2>7. \A e \in Stored : Passed(e)' => Passed(e)
    BY <2>1, <2>3, <2>4 DEF Passed
  <2>8. Passed(d)' => Duplicates(d, c) = {}
    <3>1. trust'[d] = t
      BY <1>3 DEF IInv, Types
    <3>2. \A p \in Requests : request[p].pc \in Active => request[p].dataset # d
      BY <2>3 DEF IInv, RequestInv
    <3>3. Passed(d)' => Report(d, c, "intact") = "passed"
      BY <2>1, <2>4, <3>1, <3>2 DEF Passed
    <3> QED BY <3>3 DEF Report
  <2>9. PassInv'
    <3> SUFFICES ASSUME NEW e \in Stored', NEW f \in Stored', content'[e] = content'[f], Passed(e)', Passed(f)'
                 PROVE  e = f
      BY DEF PassInv
    <3>1. CASE e \in Stored /\ f \in Stored
      BY <2>3, <2>7, <3>1 DEF IInv, PassInv
    <3>2. CASE e = d \/ f = d
      BY <2>3, <2>8, <3>2 DEF Duplicates
    <3> QED BY <2>3, <3>1, <3>2
  <2> QED BY <2>2, <2>5, <2>6, <2>9 DEF IInv
<1> QED BY <1>2, <1>3 DEF Upload, Anchoring

LEMMA VerifyStep == ASSUME IInv, NEW d \in Datasets, Verify(d) PROVE IInv'
<1>1. d \in Stored /\ trust' = [trust EXCEPT ![d] = Checked(d)] /\ UNCHANGED <<content, file, topic, request>>
  BY DEF Verify
<1>2. Checked(d) \in Columns /\ Sound(d, Checked(d))
  BY <1>1, CheckedSound
<1>3. Types' /\ \A e \in Datasets : trust'[e] = trust[e] \/ Sound(e, trust'[e])
  BY <1>1, <1>2 DEF IInv, Types
<1> QED BY <1>1, <1>3, SoundStep

LEMMA AnchorStep == ASSUME IInv, NEW r \in Requests, NEW d \in Datasets, Anchor(r, d) PROVE IInv'
<1>1. /\ d \in Stored /\ trust' = [trust EXCEPT ![d] = Checked(d)] /\ UNCHANGED <<content, file, topic>>
      /\ request' = [request EXCEPT ![r] = [pc |-> "pin", dataset |-> d, seen |-> Checked(d), fresh |-> FALSE]]
  BY DEF Anchor, Anchoring
<1>2. Checked(d) \in Columns /\ Sound(d, Checked(d)) /\ "pin" \in Active
  BY <1>1, CheckedSound DEF Active
<1> QED BY <1>1, <1>2, BeginStep

LEMMA UseBeginStep == ASSUME IInv, NEW r \in Requests, NEW d \in Datasets, UseBegin(r, d) PROVE IInv'
<1>1. /\ d \in Stored /\ UNCHANGED <<content, file, topic, trust>>
      /\ request' = [request EXCEPT ![r] = [pc |-> "use", dataset |-> d, seen |-> trust[d], fresh |-> FALSE]]
  BY DEF UseBegin
<1>2. trust[d] \in Columns /\ Sound(d, trust[d]) /\ "use" \in Active
  BY <1>1, CheckedSound DEF Active, IInv, Types
<1> QED BY <1>1, <1>2, BeginStep

LEMMA PinStep == ASSUME IInv, NEW r \in Requests, Pin(r) PROVE IInv'
<1>1. request[r].pc \in Active /\ UNCHANGED <<content, file, topic>>
  BY DEF Pin, Active
<1>2. CASE request' = [request EXCEPT ![r].pc = "submit"] /\ UNCHANGED trust
  <2> DEFINE q == [request[r] EXCEPT !.pc = "submit"]
  <2>1. q \in Awaiting /\ q.dataset = request[r].dataset /\ q.seen = request[r].seen
    BY DEF IInv, Types, Awaiting, Active
  <2>2. request' = [request EXCEPT ![r] = q]
    BY <1>2
  <2> HIDE DEF q
  <2>3. Types'
    BY <1>1, <1>2, <2>1, <2>2 DEF IInv, Types
  <2>4. \A p \in Requests : request'[p] = request[p] \/ (request'[p].dataset \in Stored
                                                       /\ Sound(request'[p].dataset, request'[p].seen))
    BY <1>1, <2>1, <2>2, SeenSound DEF IInv, Types
  <2> QED BY <1>1, <1>2, <2>3, <2>4, SoundStep
<1>3. CASE Answer(r, [request[r].seen EXCEPT !.proof = "failed"])
  <2> DEFINE t == [request[r].seen EXCEPT !.proof = "failed"]
  <2>1. request[r].seen \in Columns /\ Sound(request[r].dataset, request[r].seen)
    BY <1>1, SeenSound
  <2>2. t \in Columns /\ t.proof # "anchored" /\ t.verified = request[r].seen.verified
    BY <2>1 DEF Columns
  <2>3. Sound(request[r].dataset, t)
    BY <2>1, <2>2 DEF Sound
  <2> HIDE DEF t
  <2>4. Answer(r, t)
    BY <1>3 DEF t
  <2> QED BY <1>1, <2>2, <2>3, <2>4, AnswerStep DEF IInv, Types
<1> QED BY <1>2, <1>3 DEF Pin

LEMMA SubmitStep == ASSUME IInv, NEW r \in Requests, Submit(r) PROVE IInv'
<1> DEFINE seen == request[r].seen
           m == ManifestOf(request[r].dataset, seen)
           t1 == [seen EXCEPT !.proof = "anchored", !.manifest = m]
           t2 == Pinned(seen, m)
<1>1. /\ request[r].pc \in Active /\ UNCHANGED <<content, file>> /\ topic' \in {topic, topic \cup {m}}
      /\ \/ topic' = topic \cup {m} /\ Answer(r, t1)
         \/ Answer(r, t2)
  BY DEF Submit, Active
<1>2. topic \subseteq topic'
  BY <1>1
<1>3. seen \in Columns /\ Sound(request[r].dataset, seen) /\ request[r].dataset \in Datasets
  BY <1>1, <1>2, SeenSound
<1>4. m \in Manifests
  BY <1>3 DEF ManifestOf, Manifests, Columns
<1>5. topic' \in SUBSET Manifests
  BY <1>1, <1>4 DEF IInv, Types
<1> HIDE DEF m
<1>6. /\ t1 \in Columns /\ t1.manifest = m /\ t1.verified = seen.verified
      /\ t2 \in Columns /\ t2.proof # "anchored" /\ t2.verified = seen.verified
  BY <1>3, <1>4 DEF Columns, Pinned
<1> HIDE DEF t1, t2, seen
<1>7. CASE topic' = topic \cup {m} /\ Answer(r, t1)
  <2>1. Sound(request[r].dataset, t1)
    BY <1>3, <1>6, <1>7 DEF Sound
  <2> QED BY <1>1, <1>2, <1>5, <1>6, <1>7, <2>1, AnswerStep
<1>8. CASE Answer(r, t2)
  <2>1. Sound(request[r].dataset, t2)
    BY <1>3, <1>6 DEF Sound
  <2> QED BY <1>1, <1>2, <1>5, <1>6, <1>8, <2>1, AnswerStep
<1> QED BY <1>1, <1>7, <1>8

LEMMA UseEndStep == ASSUME IInv, NEW r \in Requests, UseEnd(r) PROVE IInv'
<1>1. request[r].pc \in Active /\ UNCHANGED <<content, file, topic>>
  BY DEF UseEnd, Active
<1>2. CASE request' = [request EXCEPT ![r] = Over] /\ UNCHANGED trust
  <2>1. request' \in [Requests -> Awaiting] /\ \A p \in Requests : request'[p] = request[p] \/ request'[p].pc \notin Active
    BY <1>2, RestTypes DEF IInv, Types
  <2> QED BY <1>1, <1>2, <2>1, StopStep DEF IInv, Types
<1>3. CASE Answer(r, [request[r].seen EXCEPT !.used = TRUE])
  <2> DEFINE t == [request[r].seen EXCEPT !.used = TRUE]
  <2>1. request[r].seen \in Columns /\ Sound(request[r].dataset, request[r].seen)
    BY <1>1, SeenSound
  <2>2. /\ t \in Columns /\ t.proof = request[r].seen.proof /\ t.verified = request[r].seen.verified
        /\ t.manifest = request[r].seen.manifest
    BY <2>1 DEF Columns
  <2>3. Sound(request[r].dataset, t)
    BY <2>1, <2>2 DEF Sound
  <2> HIDE DEF t
  <2>4. Answer(r, t)
    BY <1>3 DEF t
  <2> QED BY <1>1, <2>2, <2>3, <2>4, AnswerStep DEF IInv, Types
<1> QED BY <1>2, <1>3 DEF UseEnd

LEMMA ReuseStep == ASSUME IInv, NEW d \in Datasets, Reuse(d) PROVE IInv'
<1> DEFINE t == [trust[d] EXCEPT !.used = TRUE]
<1>1. d \in Stored /\ trust' = [trust EXCEPT ![d] = t] /\ UNCHANGED <<content, file, topic, request>>
  BY DEF Reuse
<1>2. trust[d] \in Columns /\ Sound(d, trust[d])
  BY <1>1, CheckedSound DEF IInv, Types
<1>3. /\ t \in Columns /\ t.proof = trust[d].proof /\ t.verified = trust[d].verified
      /\ t.manifest = trust[d].manifest
  BY <1>2 DEF Columns
<1>4. Sound(d, t)
  BY <1>2, <1>3 DEF Sound
<1> HIDE DEF t
<1>5. Types' /\ \A e \in Datasets : trust'[e] = trust[e] \/ Sound(e, trust'[e])
  BY <1>1, <1>3, <1>4 DEF IInv, Types
<1> QED BY <1>1, <1>5, SoundStep

LEMMA AnswerFailsStep == ASSUME IInv, NEW r \in Requests, AnswerFails(r) PROVE IInv'
<1>1. /\ request' = [request EXCEPT ![r] = Over] /\ UNCHANGED <<content, trust, topic>>
      /\ (file' = file \/ file' = [file EXCEPT ![request[r].dataset] = "none"])
  BY DEF AnswerFails
<1>2. file' \in [Datasets -> {"none", "intact", "altered"}]
  BY <1>1 DEF IInv, Types
<1>3. request' \in [Requests -> Awaiting] /\ \A p \in Requests : request'[p] = request[p] \/ request'[p].pc \notin Active
  BY <1>1, RestTypes DEF IInv, Types
<1> QED BY <1>1, <1>2, <1>3, StopStep

LEMMA MishapStep == ASSUME IInv, Mishap PROVE IInv'
<1>1. /\ UNCHANGED <<content, trust, topic>>
      /\ (request' = request \/ request' = Stopped)
      /\ file' = file \/ \E d \in Stored, f \in {"none", "altered"} : file' = [file EXCEPT ![d] = f]
  BY DEF Mishap
<1>2. file' \in [Datasets -> {"none", "intact", "altered"}]
  BY <1>1 DEF IInv, Types, Stored
<1>3. request' \in [Requests -> Awaiting] /\ \A p \in Requests : request'[p] = request[p] \/ request'[p].pc \notin Active
  BY <1>1, StoppedTypes DEF IInv, Types
<1> QED BY <1>1, <1>2, <1>3, StopStep

LEMMA InitInv == VaultInit => IInv
<1> SUFFICES ASSUME VaultInit PROVE IInv
  OBVIOUS
<1>1. Types
  BY RestTypes DEF VaultInit, Types
<1>2. /\ \A d \in Datasets : trust[d] = Pending
      /\ \A r \in Requests : request[r].pc \notin Active
      /\ Stored = {}
  BY RestTypes DEF VaultInit, Stored
<1>3. RequestInv /\ PassInv /\ AnchorInv
  BY <1>2, RestTypes DEF RequestInv, PassInv, AnchorInv
<1> QED BY <1>1, <1>3 DEF IInv

LEMMA NextInv == NoContent \notin Contents /\ IInv /\ [VaultNext]_vaultVars => IInv'
<1> SUFFICES ASSUME NoContent \notin Contents, IInv, [VaultNext]_vaultVars PROVE IInv'
  OBVIOUS
<1>1. CASE UNCHANGED vaultVars
  <2>1. UNCHANGED <<content, trust, topic, request, file>>
    BY <1>1 DEF vaultVars
  <2> QED BY <2>1, StopStep DEF IInv, Types
<1>2. ASSUME NEW d \in Datasets, Verify(d) \/ Reuse(d) PROVE IInv'
  BY <1>2, VerifyStep, ReuseStep
<1>3. ASSUME NEW r \in Requests, Pin(r) \/ Submit(r) \/ AnswerFails(r) \/ UseEnd(r) PROVE IInv'
  BY <1>3, PinStep, SubmitStep, AnswerFailsStep, UseEndStep
<1>4. ASSUME NEW r \in Requests, NEW d \in Datasets, NEW c \in Contents, Upload(d, c, r) PROVE IInv'
  BY <1>4, UploadStep
<1>5. ASSUME NEW r \in Requests, NEW d \in Datasets, Anchor(r, d) \/ UseBegin(r, d) PROVE IInv'
  BY <1>5, AnchorStep, UseBeginStep
<1> QED BY <1>1, <1>2, <1>3, <1>4, <1>5, MishapStep DEF VaultNext

LEMMA Invariance == NoContent \notin Contents => (VaultSpec => []IInv)
<1> SUFFICES ASSUME NoContent \notin Contents PROVE VaultSpec => []IInv
  OBVIOUS
<1>1. IInv /\ [VaultNext]_vaultVars => IInv'
  BY NextInv
<1> QED BY <1>1, InitInv, PTL DEF VaultSpec

-----------------------------------------------------------------------------
(* DataVault: theorems *)

\* Of the datasets of one content at most one passes verification, although anchorings
\* and uses write back a column they read before they waited: a verdict of "passed"
\* stays true, since a duplicate uploaded later fails and no row is ever removed.
THEOREM OnePasses == NoContent \notin Contents => (VaultSpec => []OnePassedPerContent)
<1> SUFFICES ASSUME NoContent \notin Contents PROVE VaultSpec => []OnePassedPerContent
  OBVIOUS
<1>1. IInv => OnePassedPerContent
  BY DEF IInv, PassInv, Passed, OnePassedPerContent
<1> QED BY <1>1, Invariance, PTL

\* A dataset shown as anchored names a manifest that is on the provenance topic,
\* over anchorings that fail half-way, overlap or are written back late.
THEOREM AnchorsHold == NoContent \notin Contents => (VaultSpec => []AnchoredIsOnTopic)
<1> SUFFICES ASSUME NoContent \notin Contents PROVE VaultSpec => []AnchoredIsOnTopic
  OBVIOUS
<1>1. IInv => AnchoredIsOnTopic
  BY DEF IInv, AnchorInv, AnchoredIsOnTopic, Stored
<1> QED BY <1>1, Invariance, PTL

-----------------------------------------------------------------------------
(* Reputation: the inductive invariant *)

\* The values a row and a session take
Multipliers == {8, 9, 10, 12}
RowTypes == [total : Nat, ok : Nat, bad : Nat, quality : Nat, score : Fractions, multiplier : Multipliers]
Updates == {"executed", "failed", "increase", "decrease"}
Sessions == [pc : Updates \cup {"idle", "register", "up", "down", "sync"}, at : 0..2, row : RowTypes,
             read : Fractions, known : BOOLEAN]

\* Grades and scores are fractions; sessions are two.
GradesOK == Good \subseteq 0..100 /\ Bad \subseteq 0..100 /\ RegistryScores \subseteq 0..10000 /\ Loop # Thread

\* What a failure is graded at the most
Worst == IF Bad \subseteq 0..85 THEN 85 ELSE 100

RatingTypes ==
    /\ known \in {"none", "local", "synced"} /\ vote \in {"none", "up", "down"}
    /\ rows \in Seq(RowTypes) /\ Len(rows) <= 2
    /\ session \in [{Loop, Thread} -> Sessions]
    /\ history \in [ok : Nat, bad : Nat]

\* What is true of a row whenever it is written.
RowOK(r) ==
    /\ r.total = r.ok + r.bad
    /\ r.quality <= 100 * r.ok + Worst * r.bad
    /\ r.multiplier = 12 => 4 * r.ok > r.total /\ (Worst = 85 => 2 * r.ok > r.total)

RowsInv == \A k \in DOMAIN rows : RowOK(rows[k])

CountInv == history.ok = OkIn(1) + OkIn(2) /\ history.bad = BadIn(1) + BadIn(2)

VoteInv ==
    /\ vote = "up" \/ session[Loop].pc = "up" => history.ok > 0
    /\ vote = "down" \/ session[Loop].pc = "down" => history.bad > 0

\* Every known agent has a row, and one that is not known has one at the most.
KnownInv == (known # "none" => rows # << >>) /\ (known = "none" => Len(rows) <= 1)

Succeeds(pc) == pc \in {"executed", "increase"}

\* The update of the loop counts one outcome more than the row it will write has, or than none;
\* a new row stays the first or comes beside the one the sync has added.
LoopInv ==
    LET s == session[Loop] IN
    /\ s.pc # "sync"
    /\ s.pc \in Updates =>
         /\ RowOK(s.row) /\ s.at <= Len(rows)
         /\ s.row.ok = OkIn(s.at) + (IF Succeeds(s.pc) THEN 1 ELSE 0)
         /\ s.row.bad = BadIn(s.at) + (IF Succeeds(s.pc) THEN 0 ELSE 1)
         /\ s.at = 0 => s.pc \in {"increase", "decrease"} /\ (rows = << >> \/ (Len(rows) = 1 /\ known = "synced"))

\* The sync has read the only row, or that there was none and so no agent.
ThreadInv ==
    LET s == session[Thread] IN
    /\ s.pc \in {"idle", "sync"}
    /\ s.pc = "sync" => s.at <= Len(rows) /\ (s.at = 0 => ~s.known)

RatingInv == RatingTypes /\ RowsInv /\ CountInv /\ VoteInv /\ KnownInv /\ LoopInv /\ ThreadInv

\* What remains of the property when failures may have any grade
RowsAgree ==
    /\ Len(rows) <= 2 /\ CountInv
    /\ \A k \in DOMAIN rows :
         /\ rows[k].total = rows[k].ok + rows[k].bad /\ rows[k].score \in Fractions
         /\ rows[k].multiplier = 12 => 4 * rows[k].ok > rows[k].total
    /\ (vote = "up" => history.ok > 0) /\ (vote = "down" => history.bad > 0)

-----------------------------------------------------------------------------
(* Reputation: lemmas *)

\* A quotient between two bounds
LEMMA QuotientLemma ==
    ASSUME NEW a \in Nat, NEW b \in Nat \ {0}, NEW c \in Nat
    PROVE  /\ a \div b \in Nat
           /\ a < b * (c + 1) => a \div b <= c
           /\ a \div b >= c => a >= b * c
<1> DEFINE q == a \div b
           r == a % b
<1>1. q \in Int /\ r \in Int /\ 0 <= r /\ r < b /\ a = b * q + r
  OBVIOUS
<1> HIDE DEF q, r
<1>2. q >= 0
  <2>1. q <= -1 => b * q <= -b
    BY <1>1
  <2> QED BY <1>1, <2>1
<1>3. ASSUME a < b * (c + 1) PROVE q <= c
  <2>1. q >= c + 1 => b * q >= b * (c + 1)
    BY <1>1
  <2> QED BY <1>1, <1>3, <2>1
<1>4. ASSUME q >= c PROVE a >= b * c
  <2>1. b * q >= b * c
    BY <1>1, <1>4
  <2>2. b * q \in Int /\ b * c \in Int
    BY <1>1
  <2> QED BY <1>1, <2>1, <2>2
<1> QED BY <1>1, <1>2, <1>3, <1>4 DEF q

\* One of two bounds
LEMMA WorstLemma == Worst \in {85, 100}
  BY DEF Worst

\* The row with another score
Rescored(row, s, m) == [row EXCEPT !.score = s, !.multiplier = m]

\* What it is
LEMMA RowLemma ==
    ASSUME NEW row \in RowTypes, NEW s \in Fractions, NEW m \in Multipliers
    PROVE  LET new == Rescored(row, s, m) IN
           /\ new \in RowTypes /\ new.score = s /\ new.multiplier = m
           /\ new.total = row.total /\ new.ok = row.ok /\ new.bad = row.bad /\ new.quality = row.quality
<1> DEFINE new == [row EXCEPT !.score = s, !.multiplier = m]
           half == [row EXCEPT !.score = s]
<1>1. new = [half EXCEPT !.multiplier = m]
  BY DEF RowTypes
<1>2. /\ half \in RowTypes /\ half.score = s
      /\ half.total = row.total /\ half.ok = row.ok /\ half.bad = row.bad /\ half.quality = row.quality
  BY DEF RowTypes
<1> HIDE DEF new, half
<1>3. /\ new.multiplier = m /\ new.score = half.score
      /\ new.total = half.total /\ new.ok = half.ok /\ new.bad = half.bad /\ new.quality = half.quality
  BY <1>1, <1>2 DEF RowTypes
<1>4. new \in RowTypes
  BY <1>1, <1>2 DEF RowTypes
<1> QED BY <1>2, <1>3, <1>4 DEF new, Rescored

\* A counted outcome
LEMMA CountedLemma ==
    ASSUME NEW row \in RowTypes, RowOK(row), NEW success \in BOOLEAN, NEW grade \in 0..100,
           ~success => grade <= Worst
    PROVE  LET c == Counted(row, success, grade) IN
           /\ c \in RowTypes /\ c.total > 0 /\ c.total = c.ok + c.bad
           /\ c.quality <= 100 * c.ok + Worst * c.bad
           /\ c.ok = row.ok + (IF success THEN 1 ELSE 0) /\ c.bad = row.bad + (IF success THEN 0 ELSE 1)
<1> DEFINE c == Counted(row, success, grade)
<1>1. /\ row.total \in Nat /\ row.ok \in Nat /\ row.bad \in Nat /\ row.quality \in Nat
      /\ row.score \in Fractions /\ row.multiplier \in Multipliers
  BY DEF RowTypes
<1>2. row.total = row.ok + row.bad /\ row.quality <= 100 * row.ok + Worst * row.bad
  BY DEF RowOK
<1>3. /\ c.total = row.total + 1 /\ c.quality = row.quality + grade
      /\ c.ok = row.ok + (IF success THEN 1 ELSE 0) /\ c.bad = row.bad + (IF success THEN 0 ELSE 1)
  BY <1>1 DEF Counted
<1>4. c \in RowTypes
  BY <1>1 DEF Counted, RowTypes
<1> HIDE DEF c
<1>5. c.quality <= 100 * c.ok + Worst * c.bad
  <2>1. CASE Worst = 85
    BY <2>1, <1>1, <1>2, <1>3
  <2>2. CASE Worst = 100
    BY <2>2, <1>1, <1>2, <1>3
  <2> QED BY <2>1, <2>2, WorstLemma
<1> QED BY <1>1, <1>2, <1>3, <1>4, <1>5 DEF c

\* What a score of 0.8 tells of the counts
LEMMA BonusLemma ==
    ASSUME NEW total \in Nat \ {0}, NEW ok \in Nat, NEW bad \in Nat, NEW quality \in Nat, total = ok + bad,
           NEW worst \in {85, 100}, quality <= 100 * ok + worst * bad,
           \/ 2 * (70 * quality + 3000 * ok) + total >= 2 * total * 8000
           \/ 6000 * ok + 40 * quality >= total * 8000
    PROVE  4 * ok > total /\ (worst = 85 => 2 * ok > total)
<1>1. CASE worst = 85
  BY <1>1
<1>2. CASE worst = 100
  BY <1>2
<1> QED BY <1>1, <1>2

\* A row with a new score and its multiplier
LEMMA ScoreLemma ==
    ASSUME NEW c \in RowTypes, c.total > 0, c.total = c.ok + c.bad,
           c.quality <= 100 * c.ok + Worst * c.bad,
           NEW score, score = VerifierScore(c) \/ score = AgentScore(c)
    PROVE  LET new == Rescored(c, score, Multiplier(score)) IN
           /\ new \in RowTypes /\ RowOK(new) /\ new.ok = c.ok /\ new.bad = c.bad
<1> DEFINE total == c.total
           ok == c.ok
           bad == c.bad
           quality == c.quality
<1>1. total \in Nat \ {0} /\ ok \in Nat /\ bad \in Nat /\ quality \in Nat
  BY DEF RowTypes
<1>2. /\ total = ok + bad /\ quality <= 100 * ok + Worst * bad /\ Worst \in {85, 100}
  BY WorstLemma
<1> HIDE DEF total, ok, bad, quality
<1>a. quality <= 100 * total
  <2>1. CASE Worst = 85
    BY <2>1, <1>1, <1>2
  <2>2. CASE Worst = 100
    BY <2>2, <1>1, <1>2
  <2> QED BY <1>2, <2>1, <2>2
<1>3. score \in 0..10000 /\ (score >= 8000 => 4 * ok > total /\ (Worst = 85 => 2 * ok > total))
  <2>1. CASE score = VerifierScore(c)
    <3> DEFINE a == 2 * (70 * quality + 3000 * ok) + total
               b == 2 * total
    <3>1. score = a \div b
      BY <2>1 DEF VerifierScore, total, ok, quality
    <3>2. a \in Nat /\ b \in Nat \ {0} /\ a < b * (10000 + 1)
      BY <1>1, <1>2, <1>a
    <3> HIDE DEF a, b
    <3>3. score \in Nat /\ score <= 10000 /\ (score >= 8000 => a >= b * 8000)
      BY <3>1, <3>2, QuotientLemma
    <3>4. ASSUME score >= 8000 PROVE 4 * ok > total /\ (Worst = 85 => 2 * ok > total)
      <4>1. 2 * (70 * quality + 3000 * ok) + total >= 2 * total * 8000
        BY <3>3, <3>4, <1>1 DEF a, b
      <4> QED BY <4>1, <1>1, <1>2, BonusLemma
    <3> QED BY <3>3, <3>4
  <2>2. CASE score = AgentScore(c)
    <3> DEFINE a == 6000 * ok + 40 * quality
    <3>1. score = a \div total
      BY <2>2 DEF AgentScore, total, ok, quality
    <3>2. a \in Nat /\ a < total * (10000 + 1)
      BY <1>1, <1>2, <1>a
    <3> HIDE DEF a
    <3>3. score \in Nat /\ score <= 10000 /\ (score >= 8000 => a >= total * 8000)
      BY <1>1, <3>1, <3>2, QuotientLemma
    <3>4. ASSUME score >= 8000 PROVE 4 * ok > total /\ (Worst = 85 => 2 * ok > total)
      <4>1. 6000 * ok + 40 * quality >= total * 8000
        BY <3>3, <3>4 DEF a
      <4> QED BY <4>1, <1>1, <1>2, BonusLemma
    <3> QED BY <3>3, <3>4
  <2> QED BY <2>1, <2>2
<1>4. Multiplier(score) \in {8, 9, 10, 12} /\ (Multiplier(score) = 12 => score >= 8000)
  BY <1>3 DEF Multiplier
<1> DEFINE new == Rescored(c, score, Multiplier(score))
<1>5. /\ new.total = c.total /\ new.ok = c.ok /\ new.bad = c.bad /\ new.quality = c.quality
      /\ new.score = score /\ new.multiplier = Multiplier(score) /\ new \in RowTypes
  <2>1. Multiplier(score) \in Multipliers /\ score \in Fractions
    BY <1>3, <1>4 DEF Multipliers, Fractions
  <2> QED BY <2>1, RowLemma
<1> HIDE DEF new
<1>6. RowOK(new)
  BY <1>1, <1>2, <1>3, <1>4, <1>5 DEF RowOK, total, ok, bad, quality
<1> QED BY <1>5, <1>6 DEF new

\* What an update makes of a row
LEMMA UpdateLemma ==
    ASSUME GradesOK, NEW row \in RowTypes, RowOK(row), NEW success \in BOOLEAN, NEW grade \in 0..100,
           ~success => grade <= Worst, NEW new,
           new = Graded(row, success, grade) \/ new = Executed(row, success, grade)
    PROVE  /\ new \in RowTypes /\ RowOK(new)
           /\ new.ok = row.ok + (IF success THEN 1 ELSE 0) /\ new.bad = row.bad + (IF success THEN 0 ELSE 1)
<1> DEFINE c == Counted(row, success, grade)
<1>1. /\ c \in RowTypes /\ c.total > 0 /\ c.total = c.ok + c.bad
      /\ c.quality <= 100 * c.ok + Worst * c.bad
      /\ c.ok = row.ok + (IF success THEN 1 ELSE 0) /\ c.bad = row.bad + (IF success THEN 0 ELSE 1)
  BY CountedLemma
<1> HIDE DEF c
<1>2. PICK score : (score = VerifierScore(c) \/ score = AgentScore(c)) /\ new = Rescored(c, score, Multiplier(score))
  BY DEF Graded, Executed, Rescored, c
<1>3. /\ new \in RowTypes /\ RowOK(new) /\ new.ok = c.ok /\ new.bad = c.bad
  BY <1>1, <1>2, ScoreLemma
<1> QED BY <1>1, <1>3

\* A row that counts nothing yet
LEMMA NewRowLemma ==
    ASSUME NEW score \in Fractions
    PROVE  NewRow(score) \in RowTypes /\ RowOK(NewRow(score)) /\ NewRow(score).ok = 0 /\ NewRow(score).bad = 0
           /\ NewRow(score).score = score
<1>1. Worst * 0 = 0
  BY WorstLemma
<1> QED BY <1>1 DEF NewRow, RowTypes, RowOK, Multipliers

\* Another score in a row
LEMMA ScoredLemma ==
    ASSUME NEW row \in RowTypes, NEW s \in Fractions
    PROVE  LET new == [row EXCEPT !.score = s] IN
           /\ new \in RowTypes /\ (RowOK(row) => RowOK(new)) /\ new.ok = row.ok /\ new.bad = row.bad
  BY DEF RowTypes, RowOK

\* Counts are numbers.
LEMMA CountTypes ==
    ASSUME rows \in Seq(RowTypes)
    PROVE  \A m : OkIn(m) \in Nat /\ BadIn(m) \in Nat
<1> TAKE m
<1>1. CASE m \in DOMAIN rows
  <2>1. rows[m] \in RowTypes
    BY <1>1
  <2>2. rows[m].ok \in Nat /\ rows[m].bad \in Nat
    BY <2>1 DEF RowTypes
  <2> QED BY <1>1, <2>2 DEF OkIn, BadIn
<1>2. CASE m \notin DOMAIN rows
  BY <1>2 DEF OkIn, BadIn
<1> QED BY <1>1, <1>2

\* The counts in the rows when one is written or added
LEMMA WrittenLemma ==
    ASSUME NEW k \in 1..Len(rows), NEW new \in RowTypes, rows \in Seq(RowTypes), rows' = [rows EXCEPT ![k] = new]
    PROVE  /\ rows' \in Seq(RowTypes) /\ Len(rows') = Len(rows) /\ rows'[k] = new
           /\ \A m \in 1..Len(rows) : m # k => rows'[m] = rows[m]
           /\ \A m : m # k => OkIn(m)' = OkIn(m) /\ BadIn(m)' = BadIn(m)
           /\ OkIn(k)' = new.ok /\ BadIn(k)' = new.bad
           /\ OkIn(k) = rows[k].ok /\ BadIn(k) = rows[k].bad
  BY DEF OkIn, BadIn

\* The counts in the rows when one is added
LEMMA AddedLemma ==
    ASSUME NEW new \in RowTypes, rows \in Seq(RowTypes), rows' = Append(rows, new), NEW n \in Nat, n = Len(rows) + 1
    PROVE  /\ rows' \in Seq(RowTypes) /\ Len(rows') = n /\ rows'[n] = new
           /\ \A m \in 1..Len(rows) : rows'[m] = rows[m]
           /\ \A m : m # n => OkIn(m)' = OkIn(m) /\ BadIn(m)' = BadIn(m)
           /\ OkIn(n)' = new.ok /\ BadIn(n)' = new.bad
           /\ OkIn(n) = 0 /\ BadIn(n) = 0
<1>1. rows' \in Seq(RowTypes) /\ Len(rows') = n /\ rows'[n] = new /\ \A m \in 1..Len(rows) : rows'[m] = rows[m]
  OBVIOUS
<1>2. DOMAIN rows = 1..Len(rows) /\ DOMAIN rows' = 1..n /\ Len(rows) \in Nat
  BY <1>1
<1>3. n \in 1..n /\ n \notin 1..Len(rows) /\ 1..n = (1..Len(rows)) \cup {n}
  BY <1>2
<1>4. OkIn(n)' = new.ok /\ BadIn(n)' = new.bad
  BY <1>1, <1>2, <1>3 DEF OkIn, BadIn
<1>5. OkIn(n) = 0 /\ BadIn(n) = 0
  BY <1>2, <1>3 DEF OkIn, BadIn
<1>6. \A m : m # n => OkIn(m)' = OkIn(m) /\ BadIn(m)' = BadIn(m)
  BY <1>1, <1>2, <1>3 DEF OkIn, BadIn
<1> QED BY <1>1, <1>4, <1>5, <1>6

-----------------------------------------------------------------------------
(* Reputation: steps *)

\* Init
LEMMA RatingInit == GradesOK /\ ReputationInit => RatingInv
<1> SUFFICES ASSUME GradesOK, ReputationInit PROVE RatingInv
  OBVIOUS
<1>0. 5000 \in Fractions
  BY DEF Fractions
<1>1. NewRow(5000) \in RowTypes
  BY <1>0, NewRowLemma
<1>2. Resting \in Sessions /\ Resting.pc = "idle"
  BY <1>0, <1>1 DEF Resting, Sessions
<1> QED BY <1>2 DEF ReputationInit, RatingInv, RatingTypes, RowsInv, CountInv, OkIn, BadIn, VoteInv, KnownInv, LoopInv,
                    ThreadInv, Updates

\* A session's step leaves the other's alone.
LEMMA NowLemma ==
    ASSUME GradesOK, RatingInv, NEW s \in {Loop, Thread}, NEW state \in Sessions, Now(s, state)
    PROVE  /\ session' \in [{Loop, Thread} -> Sessions] /\ session'[s] = state
           /\ \A o \in {Loop, Thread} : o # s => session'[o] = session[o]
  BY DEF Now, RatingInv, RatingTypes

\* The states of a session that updates nothing
LEMMA RestingLemma == /\ Resting \in Sessions /\ Resting.pc = "idle"
                      /\ \A pc \in {"register", "up", "down"} :
                            [Resting EXCEPT !.pc = pc] \in Sessions /\ [Resting EXCEPT !.pc = pc].pc = pc
<1>0. 5000 \in Fractions
  BY DEF Fractions
<1>1. NewRow(5000) \in RowTypes
  BY <1>0, NewRowLemma
<1>2. Resting \in Sessions /\ Resting.pc = "idle"
  BY <1>0, <1>1 DEF Resting, Sessions
<1>3. ASSUME NEW pc \in {"register", "up", "down"}
      PROVE  [Resting EXCEPT !.pc = pc] \in Sessions /\ [Resting EXCEPT !.pc = pc].pc = pc
  BY <1>2 DEF Sessions
<1> QED BY <1>2, <1>3

\* The loop rests or waits; the tables stay.
LEMMA LoopRests ==
    ASSUME GradesOK, RatingInv, NEW state \in Sessions, Now(Loop, state), state.pc \in {"idle", "register"},
           UNCHANGED <<known, rows, history>>,
           \/ vote' = vote
           \/ vote' = "up" /\ session[Loop].pc = "up"
           \/ vote' = "down" /\ session[Loop].pc = "down"
    PROVE  RatingInv'
<1>1. /\ session' \in [{Loop, Thread} -> Sessions] /\ session'[Loop] = state /\ session'[Thread] = session[Thread]
  BY NowLemma DEF GradesOK
<1>2. RatingTypes' /\ VoteInv'
  BY <1>1 DEF RatingInv, RatingTypes, VoteInv
<1>3. RowsInv' /\ CountInv' /\ KnownInv'
  BY DEF RatingInv, RowsInv, CountInv, OkIn, BadIn, KnownInv
<1>4. LoopInv' /\ ThreadInv'
  BY <1>1 DEF RatingInv, LoopInv, ThreadInv, Updates
<1> QED BY <1>2, <1>3, <1>4 DEF RatingInv

\* The loop begins an update.
LEMMA LoopUpdates ==
    ASSUME GradesOK, RatingInv, NEW pc \in Updates, NEW at \in 0..Len(rows), NEW row \in RowTypes, NEW read \in Fractions,
           Now(Loop, Updating(pc, at, row, read)), RowOK(row), UNCHANGED <<known, rows, history, vote>>,
           row.ok = OkIn(at) + (IF Succeeds(pc) THEN 1 ELSE 0),
           row.bad = BadIn(at) + (IF Succeeds(pc) THEN 0 ELSE 1),
           at = 0 => pc \in {"increase", "decrease"} /\ rows = << >>
    PROVE  RatingInv'
<1> DEFINE state == Updating(pc, at, row, read)
<1>0. /\ state.pc = pc /\ state.at = at /\ state.row = row
      /\ state \in Sessions /\ Now(Loop, state)
  BY DEF Updating, Sessions, RatingInv, RatingTypes
<1> HIDE DEF state
<1>1. /\ session' \in [{Loop, Thread} -> Sessions] /\ session'[Loop] = state /\ session'[Thread] = session[Thread]
  BY <1>0, SMTT(30) DEF Now, GradesOK, RatingInv, RatingTypes
<1>2. RatingTypes' /\ VoteInv'
  BY <1>0, <1>1 DEF RatingInv, RatingTypes, VoteInv, Updates
<1>3. RowsInv' /\ CountInv' /\ KnownInv' /\ (\A m : OkIn(m)' = OkIn(m) /\ BadIn(m)' = BadIn(m))
  BY DEF RatingInv, RowsInv, CountInv, OkIn, BadIn, KnownInv
<1>4. ThreadInv'
  BY <1>1 DEF RatingInv, ThreadInv
<1>5. LoopInv'
  <2>1. pc # "sync" /\ at <= Len(rows)
    BY DEF Updates, RatingInv, RatingTypes
  <2>2. /\ RowOK(state.row) /\ state.at <= Len(rows')
        /\ state.row.ok = OkIn(state.at)' + (IF Succeeds(state.pc) THEN 1 ELSE 0)
        /\ state.row.bad = BadIn(state.at)' + (IF Succeeds(state.pc) THEN 0 ELSE 1)
        /\ state.at = 0 => state.pc \in {"increase", "decrease"} /\ rows' = << >>
    BY <1>0, <1>3, <2>1
  <2> QED BY <1>0, <1>1, <2>1, <2>2 DEF LoopInv
<1> QED BY <1>2, <1>3, <1>4, <1>5 DEF RatingInv

\* A row is added, with the outcomes it brings.
LEMMA RowAdded ==
    ASSUME GradesOK, RatingInv, NEW new \in RowTypes, RowOK(new), rows' = Append(rows, new), Len(rows) <= 1,
           history' = [ok |-> history.ok + new.ok, bad |-> history.bad + new.bad]
    PROVE  /\ rows' \in Seq(RowTypes) /\ Len(rows') = Len(rows) + 1 /\ Len(rows') <= 2
           /\ history' \in [ok : Nat, bad : Nat]
           /\ RowsInv' /\ CountInv'
           /\ \A m \in 0..Len(rows) : OkIn(m)' = OkIn(m) /\ BadIn(m)' = BadIn(m)
<1>1. rows \in Seq(RowTypes) /\ history \in [ok : Nat, bad : Nat] /\ Len(rows) \in Nat
  BY DEF RatingInv, RatingTypes
<1>2. PICK n \in Nat : n = Len(rows) + 1
  BY <1>1
<1>3. /\ rows' \in Seq(RowTypes) /\ Len(rows') = n /\ rows'[n] = new
      /\ \A m \in 1..Len(rows) : rows'[m] = rows[m]
      /\ \A m : m # n => OkIn(m)' = OkIn(m) /\ BadIn(m)' = BadIn(m)
      /\ OkIn(n)' = new.ok /\ BadIn(n)' = new.bad
      /\ OkIn(n) = 0 /\ BadIn(n) = 0
  BY <1>1, <1>2, AddedLemma
<1>4. new.ok \in Nat /\ new.bad \in Nat /\ history.ok \in Nat /\ history.bad \in Nat
  BY <1>1 DEF RowTypes
<1>5. history' \in [ok : Nat, bad : Nat] /\ history'.ok = history.ok + new.ok /\ history'.bad = history.bad + new.bad
  BY <1>4, SMTT(30)
<1>6. RowsInv'
  <2> SUFFICES ASSUME NEW k \in 1..n PROVE RowOK(rows'[k])
    BY <1>3 DEF RowsInv
  <2>1. k = n \/ k \in DOMAIN rows
    BY <1>1, <1>2
  <2> QED BY <1>1, <1>2, <1>3, <2>1 DEF RatingInv, RowsInv
<1>7. CountInv'
  <2>1. /\ history.ok = OkIn(1) + OkIn(2) /\ history.bad = BadIn(1) + BadIn(2)
    BY DEF RatingInv, CountInv
  <2>2. CASE n = 1
    <3>1. OkIn(2)' = OkIn(2) /\ BadIn(2)' = BadIn(2)
      BY <1>3, <2>2
    <3>2. OkIn(2) = 0 /\ BadIn(2) = 0
      BY <1>1, <1>2, <2>2 DEF OkIn, BadIn
    <3>3. OkIn(1)' = new.ok /\ BadIn(1)' = new.bad /\ OkIn(1) = 0 /\ BadIn(1) = 0
      BY <1>3, <2>2
    <3>4. OkIn(2)' = 0 /\ BadIn(2)' = 0 /\ history.ok = 0 /\ history.bad = 0
      BY <2>1, <3>1, <3>2, <3>3
    <3>5. history'.ok = OkIn(1)' + OkIn(2)' /\ history'.bad = BadIn(1)' + BadIn(2)'
      BY <1>4, <1>5, <3>3, <3>4
    <3> QED BY <3>5 DEF CountInv
  <2>3. CASE n = 2
    <3>1. OkIn(1)' = OkIn(1) /\ BadIn(1)' = BadIn(1)
      BY <1>3, <2>3
    <3>2. OkIn(1) \in Nat /\ BadIn(1) \in Nat
      BY <1>1, CountTypes
    <3> QED BY <1>3, <1>4, <1>5, <2>1, <2>3, <3>1, <3>2 DEF CountInv
  <2> QED BY <1>1, <1>2, <2>2, <2>3
<1> QED BY <1>1, <1>2, <1>3, <1>5, <1>6, <1>7

\* A row is written over, with the outcomes that it counts more than it did.
LEMMA RowWritten ==
    ASSUME GradesOK, RatingInv, NEW k \in 1..Len(rows), NEW new \in RowTypes, RowOK(new), rows' = [rows EXCEPT ![k] = new],
           NEW more \in Nat, NEW less \in Nat, new.ok = OkIn(k) + more, new.bad = BadIn(k) + less,
           history' = [ok |-> history.ok + more, bad |-> history.bad + less]
    PROVE  /\ rows' \in Seq(RowTypes) /\ Len(rows') = Len(rows)
           /\ history' \in [ok : Nat, bad : Nat]
           /\ RowsInv' /\ CountInv'
           /\ more = 0 /\ less = 0 => \A m \in 0..Len(rows) :
                OkIn(m)' = OkIn(m) /\ BadIn(m)' = BadIn(m)
<1>1. rows \in Seq(RowTypes) /\ history \in [ok : Nat, bad : Nat] /\ Len(rows) <= 2
  BY DEF RatingInv, RatingTypes
<1>2. Len(rows) \in Nat /\ k \in {1, 2}
  BY <1>1
<1>3. /\ rows' \in Seq(RowTypes) /\ Len(rows') = Len(rows) /\ rows'[k] = new
      /\ \A m \in 1..Len(rows) : m # k => rows'[m] = rows[m]
      /\ \A m : m # k => OkIn(m)' = OkIn(m) /\ BadIn(m)' = BadIn(m)
      /\ OkIn(k)' = new.ok /\ BadIn(k)' = new.bad
      /\ OkIn(k) = rows[k].ok /\ BadIn(k) = rows[k].bad
  BY <1>1, WrittenLemma
<1>4. /\ history.ok \in Nat /\ history.bad \in Nat
      /\ OkIn(k) \in Nat /\ BadIn(k) \in Nat
  BY <1>1, CountTypes
<1>5. history' \in [ok : Nat, bad : Nat] /\ history'.ok = history.ok + more /\ history'.bad = history.bad + less
  BY <1>4, SMTT(30)
<1>6. RowsInv'
  BY <1>1, <1>3 DEF RatingInv, RowsInv
<1>7. CountInv'
  <2>1. /\ history.ok = OkIn(1) + OkIn(2) /\ history.bad = BadIn(1) + BadIn(2)
    BY DEF RatingInv, CountInv
  <2>2. OkIn(1) \in Nat /\ BadIn(1) \in Nat /\ OkIn(2) \in Nat /\ BadIn(2) \in Nat
    BY <1>1, CountTypes
  <2>3. CASE k = 1
    <3>1. OkIn(2)' = OkIn(2) /\ BadIn(2)' = BadIn(2)
      BY <1>3, <2>3
    <3>2. OkIn(1)' = OkIn(1) + more /\ BadIn(1)' = BadIn(1) + less
      BY <1>3, <2>3
    <3>3. history'.ok = OkIn(1)' + OkIn(2)'
      BY <1>5, <2>1, <2>2, <3>1, <3>2
    <3>4. history'.bad = BadIn(1)' + BadIn(2)'
      BY <1>5, <2>1, <2>2, <3>1, <3>2
    <3> QED BY <3>3, <3>4 DEF CountInv
  <2>4. CASE k = 2
    <3>1. OkIn(1)' = OkIn(1) /\ BadIn(1)' = BadIn(1)
      BY <1>3, <2>4
    <3>2. OkIn(2)' = OkIn(2) + more /\ BadIn(2)' = BadIn(2) + less
      BY <1>3, <2>4
    <3>3. history'.ok = OkIn(1)' + OkIn(2)'
      BY <1>5, <2>1, <2>2, <3>1, <3>2
    <3>4. history'.bad = BadIn(1)' + BadIn(2)'
      BY <1>5, <2>1, <2>2, <3>1, <3>2
    <3> QED BY <3>3, <3>4 DEF CountInv
  <2> QED BY <1>2, <2>3, <2>4
<1>8. ASSUME more = 0, less = 0, NEW m \in 0..Len(rows)
      PROVE  OkIn(m)' = OkIn(m) /\ BadIn(m)' = BadIn(m)
  BY <1>3, <1>4, <1>8
<1> QED BY <1>3, <1>5, <1>6, <1>7, <1>8

\* The update of the loop commits.
LEMMA LoopWrites ==
    ASSUME GradesOK, RatingInv, session[Loop].pc \in Updates, rows' = Write(Loop), Record(Succeeds(session[Loop].pc)),
           NEW state \in Sessions, Now(Loop, state), UNCHANGED <<known, vote>>,
           \/ state.pc = "idle"
           \/ state.pc = "up" /\ Succeeds(session[Loop].pc)
           \/ state.pc = "down" /\ ~Succeeds(session[Loop].pc)
    PROVE  RatingInv'
<1> DEFINE s == session[Loop]
           more == IF Succeeds(s.pc) THEN 1 ELSE 0
           less == IF Succeeds(s.pc) THEN 0 ELSE 1
<1>1. /\ rows \in Seq(RowTypes) /\ Len(rows) \in Nat /\ Len(rows) <= 2 /\ history \in [ok : Nat, bad : Nat]
      /\ s \in Sessions /\ known \in {"none", "local", "synced"}
  BY DEF RatingInv, RatingTypes
<1>2. /\ RowOK(s.row) /\ s.at <= Len(rows)
      /\ s.row.ok = OkIn(s.at) + more /\ s.row.bad = BadIn(s.at) + less
      /\ s.at = 0 => rows = << >> \/ (Len(rows) = 1 /\ known = "synced")
  BY DEF RatingInv, LoopInv
<1>3. s.at \in 0..2 /\ s.row \in RowTypes /\ s.read \in Fractions
  BY <1>1 DEF Sessions
<1>4. more \in Nat /\ less \in Nat /\ history' = [ok |-> history.ok + more, bad |-> history.bad + less]
  <2>1. history = [ok |-> history.ok, bad |-> history.bad] /\ history.ok \in Nat /\ history.bad \in Nat
    BY <1>1
  <2>2. CASE Succeeds(s.pc)
    BY <2>1, <2>2 DEF Record
  <2>3. CASE ~Succeeds(s.pc)
    BY <2>1, <2>3 DEF Record
  <2> QED BY <2>2, <2>3
<1>5. /\ session' \in [{Loop, Thread} -> Sessions] /\ session'[Loop] = state /\ session'[Thread] = session[Thread]
  BY DEF Now, GradesOK, RatingInv, RatingTypes
<1>6. Succeeds(s.pc) => more = 1
  OBVIOUS
<1>7. ~Succeeds(s.pc) => less = 1
  OBVIOUS
<1>8. rows' = IF s.at = 0 THEN Append(rows, s.row)
              ELSE [rows EXCEPT ![s.at] = [s.row EXCEPT !.score = IF @ = s.read THEN rows[s.at].score ELSE @]]
  BY DEF Write
<1> HIDE DEF s, more, less
<1>9. /\ rows' \in Seq(RowTypes) /\ Len(rows') <= 2 /\ Len(rows) <= Len(rows') /\ rows' # << >>
      /\ history' \in [ok : Nat, bad : Nat] /\ RowsInv' /\ CountInv'
      /\ known = "none" => Len(rows') <= 1
  <2>1. CASE s.at = 0
    <3>1. OkIn(0) = 0 /\ BadIn(0) = 0
      BY <1>1 DEF OkIn, BadIn
    <3>2. s.row.ok = more /\ s.row.bad = less /\ Len(rows) <= 1 /\ (known = "none" => Len(rows) = 0)
      <4>1. s.row.ok = OkIn(0) + more /\ s.row.bad = BadIn(0) + less
        BY <1>2, <2>1
      <4>2. rows = << >> \/ (Len(rows) = 1 /\ known = "synced")
        BY <1>2, <2>1
      <4>3. Len(<< >>) = 0
        OBVIOUS
      <4>4. s.row.ok = more /\ s.row.bad = less
        BY <1>4, <3>1, <4>1
      <4>5. Len(rows) <= 1 /\ (known = "none" => Len(rows) = 0)
        <5>1. CASE rows = << >>
          BY <5>1
        <5>2. CASE Len(rows) = 1 /\ known = "synced"
          BY <5>2
        <5> QED BY <4>2, <5>1, <5>2
      <4> QED BY <4>4, <4>5
    <3>3. rows' = Append(rows, s.row) /\ history' = [ok |-> history.ok + s.row.ok, bad |-> history.bad + s.row.bad]
      BY <1>4, <1>8, <2>1, <3>2
    <3>4. /\ rows' \in Seq(RowTypes) /\ Len(rows') = Len(rows) + 1 /\ Len(rows') <= 2
          /\ history' \in [ok : Nat, bad : Nat] /\ RowsInv' /\ CountInv'
      BY <1>2, <1>3, <3>2, <3>3, RowAdded
    <3> QED BY <1>1, <3>2, <3>4
  <2>2. CASE s.at # 0
    <3> DEFINE k == s.at
               score == IF s.row.score = s.read THEN rows[k].score ELSE s.row.score
               new == [s.row EXCEPT !.score = score]
    <3>1. k \in 1..Len(rows) /\ k \in DOMAIN rows
      BY <1>1, <1>2, <1>3, <2>2
    <3>2. score \in Fractions
      <4>1. rows[k] \in RowTypes /\ s.row \in RowTypes
        BY <1>1, <1>3, <3>1
      <4>2. rows[k].score \in Fractions /\ s.row.score \in Fractions
        BY <4>1 DEF RowTypes
      <4> QED BY <4>2
    <3>3. rows' = [rows EXCEPT ![k] = new]
      BY <1>8, <2>2
    <3> HIDE DEF score
    <3>4. new \in RowTypes /\ RowOK(new) /\ new.ok = s.row.ok /\ new.bad = s.row.bad
      BY <1>2, <1>3, <3>2, ScoredLemma
    <3> HIDE DEF new, k
    <3>5. new.ok = OkIn(k) + more /\ new.bad = BadIn(k) + less
      BY <1>2, <3>4 DEF k
    <3>6. /\ rows' \in Seq(RowTypes) /\ Len(rows') = Len(rows)
          /\ history' \in [ok : Nat, bad : Nat] /\ RowsInv' /\ CountInv'
      BY <1>4, <3>1, <3>3, <3>4, <3>5, RowWritten, ZenonT(40)
    <3>7. known = "none" => Len(rows) <= 1
      BY DEF RatingInv, KnownInv
    <3>8. Len(rows) > 0
      BY <1>1, <3>1
    <3> QED BY <1>1, <3>6, <3>7, <3>8
  <2> QED BY <2>1, <2>2
<1>10. VoteInv'
  <2>1. history.ok \in Nat /\ history.bad \in Nat /\ history'.ok = history.ok + more /\ history'.bad = history.bad + less
    BY <1>1, <1>4
  <2>2. (vote = "up" => history.ok > 0) /\ (vote = "down" => history.bad > 0)
    BY DEF RatingInv, VoteInv
  <2>3. (state.pc = "up" => more = 1) /\ (state.pc = "down" => less = 1)
    BY <1>6, <1>7 DEF s
  <2>4. vote = "up" \/ state.pc = "up" => history'.ok > 0
    BY <1>4, <2>1, <2>2, <2>3
  <2>5. vote = "down" \/ state.pc = "down" => history'.bad > 0
    BY <1>4, <2>1, <2>2, <2>3
  <2> QED BY <1>5, <2>4, <2>5 DEF VoteInv
<1>11. RatingTypes' /\ KnownInv'
  BY <1>5, <1>9 DEF RatingInv, RatingTypes, KnownInv
<1>12. LoopInv'
  BY <1>5 DEF LoopInv, Updates
<1>13. ThreadInv'
  <2>1. session[Thread].at \in 0..2
    BY DEF RatingInv, RatingTypes, Sessions
  <2>2. Len(rows') \in Nat
    BY <1>9
  <2> QED BY <1>1, <1>5, <1>9, <2>1, <2>2 DEF RatingInv, ThreadInv
<1> QED BY <1>9, <1>10, <1>11, <1>12, <1>13 DEF RatingInv

\* The agent's own registration
LEMMA RegisteredStep == ASSUME GradesOK, RatingInv, Registered PROVE RatingInv'
<1>1. CASE known # "none"
  <2>1. UNCHANGED <<known, rows, history, vote>> /\ Now(Loop, Resting)
    BY <1>1 DEF Registered
  <2> QED BY <2>1, RestingLemma, LoopRests
<1>2. CASE known = "none"
  <2> DEFINE new == NewRow(5000)
  <2>1. known' = "local" /\ rows' = Append(rows, new) /\ UNCHANGED <<vote, history>> /\ Now(Loop, Resting)
    BY <1>2 DEF Registered
  <2>2. 5000 \in Fractions
    BY DEF Fractions
  <2>3. new \in RowTypes /\ RowOK(new) /\ new.ok = 0 /\ new.bad = 0
    BY <2>2, NewRowLemma
  <2> HIDE DEF new
  <2>4. /\ rows \in Seq(RowTypes) /\ Len(rows) \in Nat /\ Len(rows) <= 1 /\ history \in [ok : Nat, bad : Nat]
    BY <1>2 DEF RatingInv, RatingTypes, KnownInv
  <2>5. history' = [ok |-> history.ok + new.ok, bad |-> history.bad + new.bad]
    BY <2>1, <2>3, <2>4
  <2>6. /\ rows' \in Seq(RowTypes) /\ Len(rows') = Len(rows) + 1 /\ Len(rows') <= 2
        /\ history' \in [ok : Nat, bad : Nat] /\ RowsInv' /\ CountInv'
    BY <2>1, <2>3, <2>4, <2>5, RowAdded
  <2>7. /\ session' \in [{Loop, Thread} -> Sessions] /\ session'[Loop] = Resting /\ session'[Thread] = session[Thread]
    BY <2>1, RestingLemma DEF Now, GradesOK, RatingInv, RatingTypes
  <2>8. RatingTypes' /\ KnownInv' /\ VoteInv'
    BY <2>1, <2>4, <2>6, <2>7, RestingLemma DEF RatingInv, RatingTypes, KnownInv, VoteInv
  <2>9. LoopInv'
    BY <2>7, RestingLemma DEF LoopInv, Updates
  <2>10. ThreadInv'
    <3>1. session[Thread].at \in 0..2
      BY DEF RatingInv, RatingTypes, Sessions
    <3> QED BY <2>4, <2>6, <2>7, <3>1 DEF RatingInv, ThreadInv
  <2> QED BY <2>6, <2>8, <2>9, <2>10 DEF RatingInv
<1> QED BY <1>1, <1>2

\* The sync reads.
LEMMA SyncStep == ASSUME GradesOK, RatingInv, Sync PROVE RatingInv'
<1> DEFINE seen == IF rows = << >> THEN NewRow(5000) ELSE rows[1]
           is == known # "none"
           state == [pc |-> "sync", at |-> Len(rows), row |-> seen, read |-> 5000, known |-> is]
<1>1. Len(rows) <= 1 /\ Now(Thread, state) /\ UNCHANGED <<known, rows, vote, history>>
  BY DEF Sync
<1>2. rows \in Seq(RowTypes) /\ Len(rows) \in Nat
  BY DEF RatingInv, RatingTypes
<1>3. Len(rows) \in 0..2 /\ (Len(rows) = 0 => rows = << >>)
  <2>1. Len(rows) = 0 => rows = << >>
    BY <1>2
  <2>2. Len(rows) <= 1
    BY <1>1
  <2>3. Len(rows) \in Nat
    BY <1>2
  <2>4. \A n \in Nat : n <= 1 => n \in 0..2
    OBVIOUS
  <2> QED BY <2>1, <2>2, <2>3, <2>4, Zenon
<1>4. 5000 \in Fractions
  BY DEF Fractions
<1>5. seen \in RowTypes
  <2>1. NewRow(5000) \in RowTypes
    BY <1>4, NewRowLemma
  <2>2. rows # << >> => rows[1] \in RowTypes
    BY <1>2
  <2> QED BY <2>1, <2>2
<1> HIDE DEF seen
<1>6. state \in Sessions /\ state.pc = "sync" /\ state.at = Len(rows) /\ (known = "none" => ~state.known)
  <2>1. is \in BOOLEAN /\ (known = "none" => ~is)
    OBVIOUS
  <2> HIDE DEF is
  <2> QED BY <1>3, <1>4, <1>5, <2>1 DEF Sessions
<1> HIDE DEF state
<1>7. /\ session' \in [{Loop, Thread} -> Sessions] /\ session'[Thread] = state /\ session'[Loop] = session[Loop]
  BY <1>1, <1>6 DEF Now, GradesOK, RatingInv, RatingTypes
<1>8. RatingTypes' /\ RowsInv' /\ CountInv' /\ VoteInv' /\ KnownInv'
  BY <1>1, <1>7 DEF RatingInv, RatingTypes, RowsInv, CountInv, OkIn, BadIn, VoteInv, KnownInv
<1>9. ThreadInv'
  <2>1. Len(rows) = 0 => known = "none"
    BY <1>3 DEF RatingInv, KnownInv
  <2> QED BY <1>1, <1>2, <1>6, <1>7, <2>1 DEF ThreadInv
<1>10. LoopInv'
  BY <1>1, <1>7 DEF RatingInv, LoopInv, OkIn, BadIn
<1> QED BY <1>8, <1>9, <1>10 DEF RatingInv

\* The sync commits.
LEMMA SyncCommitStep == ASSUME GradesOK, RatingInv, SyncCommit PROVE RatingInv'
<1> DEFINE s == session[Loop]
           u == session[Thread]
<1>1. u.pc = "sync" /\ Now(Thread, Resting) /\ UNCHANGED <<vote, history>>
  BY DEF SyncCommit
<1>2. /\ rows \in Seq(RowTypes) /\ Len(rows) \in Nat /\ Len(rows) <= 2 /\ history \in [ok : Nat, bad : Nat]
      /\ u.at \in 0..2 /\ u.at <= Len(rows) /\ (u.at = 0 => ~u.known)
      /\ known \in {"none", "local", "synced"}
  BY <1>1 DEF RatingInv, RatingTypes, Sessions, ThreadInv
<1>3. /\ session' \in [{Loop, Thread} -> Sessions] /\ session'[Thread] = Resting /\ session'[Loop] = s
  BY <1>1, RestingLemma DEF Now, GradesOK, RatingInv, RatingTypes
<1>4. VoteInv' /\ ThreadInv'
  BY <1>1, <1>3, RestingLemma DEF RatingInv, VoteInv, ThreadInv
<1>5. CASE UNCHANGED <<known, rows>>
  <2>1. RatingTypes' /\ RowsInv' /\ CountInv' /\ KnownInv'
    BY <1>1, <1>3, <1>5 DEF RatingInv, RatingTypes, RowsInv, CountInv, OkIn, BadIn, KnownInv
  <2>2. LoopInv'
    BY <1>3, <1>5 DEF RatingInv, LoopInv, OkIn, BadIn
  <2> QED BY <1>4, <2>1, <2>2 DEF RatingInv
<1>6. CASE (u.known \/ known = "none") /\ known' = "synced"
           /\ \E score \in RegistryScores :
                 rows' = IF u.at = 0 THEN Append(rows, NewRow(score))
                         ELSE [rows EXCEPT ![u.at] = Synced(@, u.row, score)]
  <2>1. PICK score \in RegistryScores :
            rows' = IF u.at = 0 THEN Append(rows, NewRow(score)) ELSE [rows EXCEPT ![u.at] = Synced(@, u.row, score)]
    BY <1>6
  <2>2. score \in Fractions
    BY DEF GradesOK, Fractions
  <2>3. history = [ok |-> history.ok + 0, bad |-> history.bad + 0]
    BY <1>2
  <2> HIDE DEF u, s
  <2>4. /\ rows' \in Seq(RowTypes) /\ Len(rows') <= 2 /\ Len(rows) <= Len(rows') /\ Len(rows') \in Nat \ {0}
        /\ RowsInv' /\ CountInv'
        /\ \A m \in 0..Len(rows) : OkIn(m)' = OkIn(m) /\ BadIn(m)' = BadIn(m)
        /\ rows = << >> => Len(rows') = 1
        /\ Len(rows') = Len(rows) \/ known = "none"
    <3>1. CASE u.at = 0
      <4> DEFINE new == NewRow(score)
      <4>1. new \in RowTypes /\ RowOK(new) /\ new.ok = 0 /\ new.bad = 0
        BY <2>2, NewRowLemma
      <4>2. rows' = Append(rows, new)
        BY <2>1, <3>1
      <4> HIDE DEF new
      <4>3. known = "none" /\ Len(rows) <= 1
        BY <1>2, <1>6, <3>1 DEF RatingInv, KnownInv
      <4>4. history' = [ok |-> history.ok + new.ok, bad |-> history.bad + new.bad]
        BY <1>1, <2>3, <4>1
      <4>5. /\ rows' \in Seq(RowTypes) /\ Len(rows') = Len(rows) + 1 /\ Len(rows') <= 2 /\ RowsInv' /\ CountInv'
            /\ \A m \in 0..Len(rows) : OkIn(m)' = OkIn(m) /\ BadIn(m)' = BadIn(m)
        BY <4>1, <4>2, <4>3, <4>4, RowAdded
      <4> QED BY <1>2, <4>3, <4>5
    <3>2. CASE u.at # 0
      <4> DEFINE k == u.at
                 value == IF score = u.row.score THEN rows[k].score ELSE score
                 new == [rows[k] EXCEPT !.score = value]
      <4>1. k \in 1..Len(rows) /\ k \in DOMAIN rows
        BY <1>2, <3>2
      <4>2. rows[k] \in RowTypes /\ RowOK(rows[k])
        BY <1>2, <4>1 DEF RatingInv, RowsInv
      <4>3. value \in Fractions
        <5>1. rows[k].score \in Fractions
          BY <4>2 DEF RowTypes
        <5> QED BY <2>2, <5>1
      <4>4. rows' = [rows EXCEPT ![k] = new]
        BY <2>1, <3>2, <4>1 DEF Synced
      <4> HIDE DEF value
      <4>5. new \in RowTypes /\ RowOK(new) /\ new.ok = rows[k].ok /\ new.bad = rows[k].bad
        BY <4>2, <4>3, ScoredLemma
      <4> HIDE DEF new, k
      <4>6. new.ok = OkIn(k) + 0 /\ new.bad = BadIn(k) + 0
        <5>1. OkIn(k) = rows[k].ok /\ BadIn(k) = rows[k].bad
          BY <4>1 DEF OkIn, BadIn
        <5>2. OkIn(k) \in Nat /\ BadIn(k) \in Nat
          BY <1>2, CountTypes
        <5> QED BY <4>5, <5>1, <5>2
      <4>7. history' = [ok |-> history.ok + 0, bad |-> history.bad + 0]
        BY <1>1, <2>3
      <4>8. /\ rows' \in Seq(RowTypes) /\ Len(rows') = Len(rows) /\ RowsInv' /\ CountInv'
            /\ \A m \in 0..Len(rows) : OkIn(m)' = OkIn(m) /\ BadIn(m)' = BadIn(m)
        BY <4>1, <4>4, <4>5, <4>6, <4>7, RowWritten
      <4>9. Len(rows) > 0 /\ rows # << >>
        BY <1>2, <4>1
      <4> QED BY <1>2, <4>8, <4>9
    <3> QED BY <3>1, <3>2
  <2>5. RatingTypes' /\ KnownInv'
    BY <1>1, <1>3, <1>6, <2>4 DEF RatingInv, RatingTypes, KnownInv
  <2>6. LoopInv'
    <3>1. SUFFICES ASSUME s.pc \in Updates
                   PROVE  /\ RowOK(s.row) /\ s.at <= Len(rows')
                          /\ s.row.ok = OkIn(s.at)' + (IF Succeeds(s.pc) THEN 1 ELSE 0)
                          /\ s.row.bad = BadIn(s.at)' + (IF Succeeds(s.pc) THEN 0 ELSE 1)
                          /\ s.at = 0 => s.pc \in {"increase", "decrease"}
                                         /\ (rows' = << >> \/ (Len(rows') = 1 /\ known' = "synced"))
      BY <1>3 DEF RatingInv, LoopInv, s
    <3>2. /\ RowOK(s.row) /\ s.at <= Len(rows)
          /\ s.row.ok = OkIn(s.at) + (IF Succeeds(s.pc) THEN 1 ELSE 0)
          /\ s.row.bad = BadIn(s.at) + (IF Succeeds(s.pc) THEN 0 ELSE 1)
          /\ s.at = 0 => s.pc \in {"increase", "decrease"} /\ (rows = << >> \/ (Len(rows) = 1 /\ known = "synced"))
      BY <3>1 DEF RatingInv, LoopInv, s
    <3>3. s.at \in 0..2
      BY DEF RatingInv, RatingTypes, Sessions, s
    <3>4. s.at \in 0..Len(rows)
      BY <1>2, <3>2, <3>3
    <3>5. PICK k \in 0..Len(rows) : k = s.at
      BY <3>4
    <3>6. OkIn(k)' = OkIn(k) /\ BadIn(k)' = BadIn(k)
      BY <2>4
    <3>7. s' = s
      BY <1>3 DEF s
    <3>8. OkIn(s.at)' = OkIn(s.at) /\ BadIn(s.at)' = BadIn(s.at)
      BY <3>5, <3>6, <3>7
    <3>9. RowOK(s.row) /\ s.at <= Len(rows')
      BY <1>2, <2>4, <3>2, <3>3
    <3>10. s.at = 0 => rows' = << >> \/ (Len(rows') = 1 /\ known' = "synced")
      BY <1>6, <2>4, <3>2
    <3> QED BY <3>2, <3>8, <3>9, <3>10
  <2> QED BY <1>4, <2>4, <2>5, <2>6 DEF RatingInv
<1> QED BY <1>2, <1>5, <1>6 DEF SyncCommit

\* The loop begins an update of the k-th row, or of a new one.
LEMMA BeginsUpdate ==
    ASSUME GradesOK, RatingInv, NEW first \in FirstOrNew, NEW success \in BOOLEAN, NEW grade \in 0..100,
           ~success => grade <= Worst, NEW pc \in Updates, Succeeds(pc) <=> success, NEW new,
           new = Graded(first.row, success, grade) \/ (first.at # 0 /\ new = Executed(first.row, success, grade)),
           first.at = 0 => pc \in {"increase", "decrease"},
           Now(Loop, Updating(pc, first.at, new, first.row.score)), UNCHANGED <<known, rows, history, vote>>
    PROVE  RatingInv'
<1>1. rows \in Seq(RowTypes) /\ Len(rows) \in Nat
  BY DEF RatingInv, RatingTypes
<1>2. /\ first.at \in 0..Len(rows) /\ first.row \in RowTypes /\ RowOK(first.row)
      /\ first.row.ok = OkIn(first.at) /\ first.row.bad = BadIn(first.at)
      /\ first.at = 0 => rows = << >>
  <2>1. CASE rows = << >>
    <3>1. first = [at |-> 0, row |-> NewRow(5000)]
      BY <2>1 DEF FirstOrNew
    <3>2. 5000 \in Fractions
      BY DEF Fractions
    <3>3. OkIn(0) = 0 /\ BadIn(0) = 0
      BY <2>1 DEF OkIn, BadIn
    <3> QED BY <1>1, <2>1, <3>1, <3>2, <3>3, NewRowLemma
  <2>2. CASE rows # << >>
    <3>1. PICK k \in DOMAIN rows : first = [at |-> k, row |-> rows[k]]
      BY <2>2 DEF FirstOrNew, Rows
    <3>2. k \in 1..Len(rows) /\ rows[k] \in RowTypes /\ RowOK(rows[k])
      BY <1>1 DEF RatingInv, RowsInv
    <3>3. OkIn(k) = rows[k].ok /\ BadIn(k) = rows[k].bad
      BY DEF OkIn, BadIn
    <3> QED BY <1>1, <3>1, <3>2, <3>3
  <2> QED BY <2>1, <2>2
<1>3. /\ new \in RowTypes /\ RowOK(new)
      /\ new.ok = first.row.ok + (IF success THEN 1 ELSE 0) /\ new.bad = first.row.bad + (IF success THEN 0 ELSE 1)
  <2>1. new = Graded(first.row, success, grade) \/ new = Executed(first.row, success, grade)
    OBVIOUS
  <2>2. first.row \in RowTypes /\ RowOK(first.row)
    BY <1>2
  <2> QED BY <2>1, <2>2, UpdateLemma, ZenonT(40)
<1>4. first.row.score \in Fractions
  BY <1>2 DEF RowTypes
<1>5. new.ok = OkIn(first.at) + (IF Succeeds(pc) THEN 1 ELSE 0) /\ new.bad = BadIn(first.at) + (IF Succeeds(pc) THEN 0 ELSE 1)
  BY <1>2, <1>3
<1> QED BY <1>2, <1>3, <1>4, <1>5, LoopUpdates

\* What a failure is graded
LEMMA GradeLemma ==
    ASSUME GradesOK, NEW g \in Bad
    PROVE  g \in 0..100 /\ g <= Worst
<1>1. g \in 0..100
  BY DEF GradesOK
<1>2. CASE Bad \subseteq 0..85
  <2>1. Worst = 85
    BY <1>2 DEF Worst
  <2>2. g \in 0..85
    BY <1>2
  <2> QED BY <1>1, <2>1, <2>2
<1>3. CASE ~(Bad \subseteq 0..85)
  <2>1. Worst = 100
    BY <1>3 DEF Worst
  <2> QED BY <1>1, <2>1
<1> QED BY <1>2, <1>3

\* The agent's own execution
LEMMA ExecuteStep == ASSUME GradesOK, RatingInv, Execute PROVE RatingInv'
<1>1. PICK success \in BOOLEAN, k \in DOMAIN rows :
         Now(Loop, Updating(IF success THEN "executed" ELSE "failed", k,
                            Executed(rows[k], success, IF success THEN 80 ELSE 0), rows[k].score))
  BY DEF Execute
<1> DEFINE first == [at |-> k, row |-> rows[k]]
           grade == IF success THEN 80 ELSE 0
           pc == IF success THEN "executed" ELSE "failed"
           new == Executed(rows[k], success, grade)
<1>2. rows # << >> /\ UNCHANGED <<known, rows, history, vote>>
  BY DEF Execute
<1>3. first \in FirstOrNew /\ first.at = k /\ first.row = rows[k] /\ k # 0
  BY <1>2 DEF FirstOrNew, Rows, RatingInv, RatingTypes
<1>4. grade \in 0..100 /\ (~success => grade <= Worst)
  BY WorstLemma
<1>5. pc \in Updates /\ (Succeeds(pc) <=> success)
  BY DEF Updates, Succeeds
<1>6. Now(Loop, Updating(pc, first.at, new, first.row.score)) /\ new = Executed(first.row, success, grade)
  BY <1>1, <1>3
<1> HIDE DEF first, grade, pc, new
<1> QED BY <1>2, <1>3, <1>4, <1>5, <1>6, BeginsUpdate

\* Its update commits, or is tried again as a failure.
LEMMA ExecutedCommitStep == ASSUME GradesOK, RatingInv, ExecutedCommit PROVE RatingInv'
<1>1. session[Loop].pc \in {"executed", "failed"} /\ UNCHANGED <<known, vote>>
  BY DEF ExecutedCommit
<1>2. CASE rows' = Write(Loop) /\ Record(session[Loop].pc = "executed") /\ Now(Loop, Resting)
  <2>1. Record(Succeeds(session[Loop].pc))
    BY <1>1, <1>2 DEF Succeeds, Record
  <2> QED BY <1>1, <1>2, <2>1, RestingLemma, LoopWrites DEF Updates
<1>3. CASE UNCHANGED <<rows, history>> /\ Now(Loop, Resting)
  BY <1>1, <1>3, RestingLemma, LoopRests
<1>4. CASE /\ UNCHANGED <<rows, history>>
           /\ \E k \in DOMAIN rows : Now(Loop, Updating("failed", k, Executed(rows[k], FALSE, 0), rows[k].score))
  <2>1. PICK k \in DOMAIN rows : Now(Loop, Updating("failed", k, Executed(rows[k], FALSE, 0), rows[k].score))
    BY <1>4
  <2> DEFINE first == [at |-> k, row |-> rows[k]]
             new == Executed(rows[k], FALSE, 0)
  <2>2. first \in FirstOrNew /\ first.at = k /\ first.row = rows[k] /\ k # 0
    BY DEF FirstOrNew, Rows, RatingInv, RatingTypes
  <2>3. 0 \in 0..100 /\ 0 <= Worst
    BY WorstLemma
  <2>4. "failed" \in Updates /\ ~Succeeds("failed")
    BY DEF Updates, Succeeds
  <2>5. Now(Loop, Updating("failed", first.at, new, first.row.score)) /\ new = Executed(first.row, FALSE, 0)
    BY <2>1, <2>2
  <2> HIDE DEF first, new
  <2> QED BY <1>1, <1>4, <2>2, <2>3, <2>4, <2>5, BeginsUpdate
<1> QED BY <1>2, <1>3, <1>4 DEF ExecutedCommit

\* The verifier's grade
LEMMA GradeStep == ASSUME GradesOK, RatingInv, Increase \/ Decrease PROVE RatingInv'
<1>1. UNCHANGED <<known, rows, history, vote>>
  BY DEF Increase, Decrease
<1>2. CASE Increase
  <2>1. PICK grade \in Good, first \in FirstOrNew :
            Now(Loop, Updating("increase", first.at, Graded(first.row, TRUE, grade), first.row.score))
    BY <1>2 DEF Increase
  <2>2. grade \in 0..100
    BY DEF GradesOK
  <2>3. "increase" \in Updates /\ Succeeds("increase")
    BY DEF Updates, Succeeds
  <2> QED BY <1>1, <2>1, <2>2, <2>3, BeginsUpdate
<1>3. CASE Decrease
  <2>1. PICK grade \in Bad, first \in FirstOrNew :
            Now(Loop, Updating("decrease", first.at, Graded(first.row, FALSE, grade), first.row.score))
    BY <1>3 DEF Decrease
  <2>2. grade \in 0..100 /\ grade <= Worst
    BY GradeLemma
  <2>3. "decrease" \in Updates /\ ~Succeeds("decrease")
    BY DEF Updates, Succeeds
  <2> QED BY <1>1, <2>1, <2>2, <2>3, BeginsUpdate
<1> QED BY <1>2, <1>3

\* Its first commit
LEMMA GradeCommitStep == ASSUME GradesOK, RatingInv, GradeCommit PROVE RatingInv'
<1>1. session[Loop].pc \in {"increase", "decrease"} /\ UNCHANGED <<known, vote>>
  BY DEF GradeCommit
<1>2. CASE UNCHANGED <<rows, history>> /\ Now(Loop, Resting)
  BY <1>1, <1>2, RestingLemma, LoopRests
<1>3. CASE /\ rows' = Write(Loop) /\ Record(session[Loop].pc = "increase")
           /\ Now(Loop, [Resting EXCEPT !.pc = IF session[Loop].pc = "increase" THEN "up" ELSE "down"])
  <2>1. Record(Succeeds(session[Loop].pc)) /\ session[Loop].pc \in Updates
    BY <1>1, <1>3 DEF Succeeds, Record, Updates
  <2>2. CASE session[Loop].pc = "increase"
    <3>1. Now(Loop, [Resting EXCEPT !.pc = "up"]) /\ Succeeds(session[Loop].pc)
      BY <1>3, <2>2 DEF Succeeds
    <3>2. [Resting EXCEPT !.pc = "up"] \in Sessions /\ [Resting EXCEPT !.pc = "up"].pc = "up"
      BY RestingLemma
    <3> QED BY <1>1, <1>3, <2>1, <3>1, <3>2, LoopWrites
  <2>3. CASE session[Loop].pc = "decrease"
    <3>1. Now(Loop, [Resting EXCEPT !.pc = "down"]) /\ ~Succeeds(session[Loop].pc)
      BY <1>3, <2>3 DEF Succeeds
    <3>2. [Resting EXCEPT !.pc = "down"] \in Sessions /\ [Resting EXCEPT !.pc = "down"].pc = "down"
      BY RestingLemma
    <3> QED BY <1>1, <1>3, <2>1, <3>1, <3>2, LoopWrites
  <2> QED BY <1>1, <2>2, <2>3
<1> QED BY <1>2, <1>3 DEF GradeCommit

\* The votes, and the query of a registration
LEMMA VoteStep == ASSUME GradesOK, RatingInv, VoteUp \/ VoteDown \/ Register PROVE RatingInv'
<1>1. UNCHANGED <<known, rows, history>>
  BY DEF VoteUp, VoteDown, Register
<1>2. CASE VoteUp
  <2>1. session[Loop].pc = "up" /\ (vote' = vote \/ vote' = "up") /\ Now(Loop, Resting)
    BY <1>2 DEF VoteUp
  <2> QED BY <1>1, <2>1, RestingLemma, LoopRests
<1>3. CASE VoteDown
  <2>1. session[Loop].pc = "down" /\ (vote' = vote \/ vote' = "down") /\ Now(Loop, Resting)
    BY <1>3 DEF VoteDown
  <2> QED BY <1>1, <2>1, RestingLemma, LoopRests
<1>4. CASE Register
  <2>1. Now(Loop, [Resting EXCEPT !.pc = "register"]) /\ vote' = vote
    BY <1>4 DEF Register
  <2>2. [Resting EXCEPT !.pc = "register"] \in Sessions /\ [Resting EXCEPT !.pc = "register"].pc = "register"
    BY RestingLemma
  <2> QED BY <1>1, <2>1, <2>2, LoopRests
<1> QED BY <1>2, <1>3, <1>4

\* Next
LEMMA RatingNext == GradesOK /\ RatingInv /\ [ReputationNext]_reputationVars => RatingInv'
<1> SUFFICES ASSUME GradesOK, RatingInv, [ReputationNext]_reputationVars PROVE RatingInv'
  OBVIOUS
<1>1. CASE UNCHANGED reputationVars
  <2>1. UNCHANGED <<known, rows, session, vote, history>>
    BY <1>1 DEF reputationVars
  <2> QED BY <2>1 DEF RatingInv, RatingTypes, RowsInv, CountInv, OkIn, BadIn, VoteInv, KnownInv, LoopInv, ThreadInv
<1> QED BY <1>1, VoteStep, RegisteredStep, ExecuteStep, ExecutedCommitStep, GradeStep, GradeCommitStep, SyncStep,
           SyncCommitStep DEF ReputationNext

\* The invariant holds.
LEMMA RatingInvariance == GradesOK => (ReputationSpec => []RatingInv)
<1> SUFFICES ASSUME GradesOK PROVE ReputationSpec => []RatingInv
  OBVIOUS
<1>1. ReputationInit => RatingInv
  BY RatingInit
<1>2. RatingInv /\ [ReputationNext]_reputationVars => RatingInv'
  BY RatingNext
<1> QED BY <1>1, <1>2, PTL DEF ReputationSpec

\* What the invariant says where failures are graded low
LEMMA RatingLemma == RatingInv /\ Worst = 85 => ReputationIsEarned
<1> SUFFICES ASSUME RatingInv, Worst = 85 PROVE ReputationIsEarned
  OBVIOUS
<1>1. ASSUME NEW row \in RowTypes, RowOK(row) PROVE Fair(row)
  <2>1. row.score \in Fractions
    BY <1>1 DEF RowTypes
  <2>2. row.total = row.ok + row.bad /\ (row.multiplier = 12 => 2 * row.ok > row.total)
    BY <1>1 DEF RowOK
  <2> QED BY <2>1, <2>2 DEF Fair
<1>2. \A k \in DOMAIN rows : rows[k] \in RowTypes /\ RowOK(rows[k])
  BY DEF RatingInv, RatingTypes, RowsInv
<1>3. \A k \in DOMAIN rows : Fair(rows[k])
  BY <1>1, <1>2, Zenon
<1>4. Len(rows) <= 2 /\ CountInv /\ VoteInv
  BY DEF RatingInv, RatingTypes
<1>5. history.ok = OkIn(1) + OkIn(2) /\ history.bad = BadIn(1) + BadIn(2)
  BY <1>4 DEF CountInv
<1>6. (vote = "up" => history.ok > 0) /\ (vote = "down" => history.bad > 0)
  BY <1>4 DEF VoteInv
<1> QED BY <1>3, <1>4, <1>5, <1>6, Zenon DEF ReputationIsEarned

-----------------------------------------------------------------------------
(* Reputation: theorems *)

\* Where failures are graded 0.85 at the most, the rows of an agent, two at the most, count every
\* recorded outcome once, scores are fractions, the bonus goes only to an agent most of
\* whose tasks succeeded, and a vote has a recorded task of its kind: whatever fails to
\* commit and whatever the sync writes in between.
THEOREM RatingsAreEarned == GradesOK /\ Bad \subseteq 0..85 => (ReputationSpec => []ReputationIsEarned)
<1> SUFFICES ASSUME GradesOK, Bad \subseteq 0..85 PROVE ReputationSpec => []ReputationIsEarned
  OBVIOUS
<1>1. Worst = 85
  BY DEF Worst
<1>2. RatingInv => ReputationIsEarned
  BY <1>1, RatingLemma
<1> QED BY <1>2, RatingInvariance, PTL

\* Whatever failures are graded, all of this still holds but the last of a row: the bonus is then
\* only kept from an agent three quarters of whose tasks failed.
THEOREM RowsAgreeAlways == GradesOK => (ReputationSpec => []RowsAgree)
<1> SUFFICES ASSUME GradesOK PROVE ReputationSpec => []RowsAgree
  OBVIOUS
<1>1. RatingInv => RowsAgree
  <2> SUFFICES ASSUME RatingInv PROVE RowsAgree
    OBVIOUS
  <2> DEFINE Agrees(k) == /\ rows[k].total = rows[k].ok + rows[k].bad /\ rows[k].score \in Fractions
                          /\ rows[k].multiplier = 12 => 4 * rows[k].ok > rows[k].total
  <2>1. ASSUME NEW k \in DOMAIN rows PROVE Agrees(k)
    <3>1. rows[k] \in RowTypes /\ RowOK(rows[k])
      BY DEF RatingInv, RatingTypes, RowsInv
    <3>2. rows[k].score \in Fractions
      BY <3>1 DEF RowTypes
    <3>3. rows[k].total = rows[k].ok + rows[k].bad /\ (rows[k].multiplier = 12 => 4 * rows[k].ok > rows[k].total)
      BY <3>1 DEF RowOK
    <3> QED BY <3>2, <3>3
  <2>2. Len(rows) <= 2 /\ CountInv /\ VoteInv
    BY DEF RatingInv, RatingTypes
  <2>3. (vote = "up" => history.ok > 0) /\ (vote = "down" => history.bad > 0)
    BY <2>2 DEF VoteInv
  <2> QED BY <2>1, <2>2, <2>3, Zenon DEF RowsAgree
<1> QED BY <1>1, RatingInvariance, PTL

-----------------------------------------------------------------------------
(* HolBroker: the inductive invariant *)

Doings == {"idle", "session", "send", "direct", "record", "done", "failed"}
Pursuits == [pc : Doings, todo : Seq(Agents), told : Seq(Agents)]

\* A request has told each agent at most once, and none of the candidates that are left.
UseOK(u) ==
    /\ u \in Pursuits /\ IsInjective(u.told)
    /\ u.pc = "idle" => u.told = << >>
    /\ u.pc \in {"session", "send", "direct"} =>
         /\ u.todo # << >> /\ IsInjective(u.todo)
         /\ \A m \in DOMAIN u.told, n \in DOMAIN u.todo : u.told[m] # u.todo[n]

UseInv == use \in [Uses -> Pursuits] /\ \A r \in Uses : UseOK(use[r])

\* What a column says of the registration
HolStates == {"unregistered", "registered", "pending", "error"}
HolColumns == [status : HolStates, uaid : {NoUaid, Uaid}, published : BOOLEAN]
ColumnOK(column) == column \in HolColumns /\ (column.status = "registered" => column.uaid = Uaid /\ issued)

\* A request that loaded the column of a registered agent writes it back as it was.
RegInv ==
    /\ issued \in BOOLEAN /\ ColumnOK(meta)
    /\ reg \in [Registrations -> [pc : {"idle", "prepare"}, seen : HolColumns]]
    /\ \A r \in Registrations : ColumnOK(reg[r].seen)

BrokerInv == UseInv /\ RegInv

-----------------------------------------------------------------------------
(* HolBroker: lemmas *)

\* What is arranged comes from different places that were kept.
LEMMA ArrangedLemma ==
    ASSUME NEW S, NEW s \in Seq(S), NEW rank \in [DOMAIN s -> Nat], NEW t \in Arranged(s, rank)
    PROVE  /\ t \in Seq(S)
           /\ (\A i, j \in DOMAIN s : rank[i] # 0 /\ rank[j] # 0 /\ s[i] = s[j] => i = j) => IsInjective(t)
<1> DEFINE kept == {i \in DOMAIN s : rank[i] # 0}
           Before(i, j) == rank[i] < rank[j] \/ (rank[i] = rank[j] /\ i < j)
<1>1. PICK place \in [1..Cardinality(kept) -> kept] :
        /\ \A m, n \in DOMAIN place : m < n => Before(place[m], place[n])
        /\ t = [n \in DOMAIN place |-> s[place[n]]]
  BY DEF Arranged
<1>2. DOMAIN s = 1..Len(s) /\ Len(s) \in Nat
  OBVIOUS
<1>3. Cardinality(kept) \in Nat
  <2>1. IsFiniteSet(1..Len(s))
    BY <1>2, FS_Interval
  <2>2. kept \subseteq 1..Len(s)
    BY <1>2
  <2> QED BY <2>1, <2>2, FS_Subset, FS_CardinalityType
<1> DEFINE c == Cardinality(kept)
<1>4. c \in Nat /\ place \in [1..c -> kept]
  BY <1>1, <1>3
<1>5. t \in [1..c -> S]
  BY <1>1, <1>2, <1>4
<1>6. \A m, n \in 1..c : m # n => place[m] # place[n]
  <2> SUFFICES ASSUME NEW m \in 1..c, NEW n \in 1..c, m # n, place[m] = place[n] PROVE FALSE
    OBVIOUS
  <2>0. m < n \/ n < m
    BY <1>4
  <2>1. Before(place[m], place[n]) \/ Before(place[n], place[m])
    <3> HIDE DEF Before
    <3> QED BY <1>1, <1>4, <2>0
  <2>2. place[m] \in 1..Len(s) /\ rank[place[m]] \in Nat
    BY <1>2, <1>4
  <2> QED BY <2>1, <2>2, <1>2
<1>7. t \in Seq(S)
  <2> HIDE DEF c
  <2> QED BY <1>4, <1>5
<1>8. ASSUME \A i, j \in DOMAIN s : rank[i] # 0 /\ rank[j] # 0 /\ s[i] = s[j] => i = j
      PROVE  IsInjective(t)
  <2> SUFFICES ASSUME NEW m \in 1..c, NEW n \in 1..c, t[m] = t[n] PROVE m = n
    BY <1>5 DEF IsInjective
  <2>1. s[place[m]] = s[place[n]]
    BY <1>1, <1>4
  <2>2. place[m] \in kept /\ place[n] \in kept
    BY <1>4
  <2> QED BY <2>1, <2>2, <1>6, <1>8
<1> QED BY <1>7, <1>8

\* What is found has no agent twice,
LEMMA DiscoveredLemma ==
    ASSUME NEW hits \in Seq(Agents), NEW found \in Discovered(hits)
    PROVE  found \in Seq(Agents) /\ IsInjective(found)
<1> DEFINE rank == [i \in DOMAIN hits |-> IF \E j \in 1..i - 1 : hits[j] = hits[i] THEN 0 ELSE 1]
<1>1. rank \in [DOMAIN hits -> Nat]
  OBVIOUS
<1>2. found \in Arranged(hits, rank)
  BY DEF Discovered
<1>3. ASSUME NEW i \in DOMAIN hits, NEW j \in DOMAIN hits, rank[i] # 0, rank[j] # 0, hits[i] = hits[j]
      PROVE  i = j
  <2>1. i \in Nat /\ j \in Nat /\ i >= 1 /\ j >= 1
    OBVIOUS
  <2>2. ~(j \in 1..i - 1) /\ ~(i \in 1..j - 1)
    BY <1>3
  <2> QED BY <2>1, <2>2
<1> HIDE DEF rank
<1> QED BY <1>1, <1>2, <1>3, ArrangedLemma

\* nor have the candidates.
LEMMA CandidatesLemma ==
    ASSUME NEW found \in Seq(Agents), IsInjective(found), NEW cands \in Candidates(found)
    PROVE  cands \in Seq(Agents) /\ IsInjective(cands)
<1> DEFINE rank == [i \in DOMAIN found |-> Place(found[i])]
<1>1. rank \in [DOMAIN found -> Nat]
  BY DEF Place
<1>2. cands \in Arranged(found, rank)
  BY DEF Candidates
<1> HIDE DEF rank
<1>3. \A i, j \in DOMAIN found : found[i] = found[j] => i = j
  BY DEF IsInjective
<1> QED BY <1>1, <1>2, <1>3, ArrangedLemma

\* What is left of a sequence without its head
LEMMA TailLemma ==
    ASSUME NEW S, NEW s \in Seq(S), s # << >>, IsInjective(s)
    PROVE  /\ Tail(s) \in Seq(S) /\ IsInjective(Tail(s)) /\ (Len(s) # 1 => Tail(s) # << >>)
           /\ \A j \in DOMAIN Tail(s) : Tail(s)[j] # Head(s) /\ \E i \in DOMAIN s : Tail(s)[j] = s[i]
<1> DEFINE n == Len(s)
<1>1. n \in Nat /\ n >= 1 /\ DOMAIN s = 1..n
  OBVIOUS
<1>2. PICK rest : rest = Tail(s)
  OBVIOUS
<1>3. rest \in Seq(S) /\ DOMAIN rest = 1..n - 1 /\ Len(rest) = n - 1 /\ \A j \in 1..n - 1 : rest[j] = s[j + 1]
  BY <1>1, <1>2
<1>4. \A i, j \in 1..n : s[i] = s[j] => i = j
  BY <1>1 DEF IsInjective
<1> HIDE DEF n
<1>5. IsInjective(rest)
  <2> SUFFICES ASSUME NEW i \in 1..n - 1, NEW j \in 1..n - 1, rest[i] = rest[j] PROVE i = j
    BY <1>3 DEF IsInjective
  <2>1. i + 1 \in 1..n /\ j + 1 \in 1..n /\ s[i + 1] = s[j + 1]
    BY <1>1, <1>3
  <2>2. i + 1 = j + 1
    BY <2>1, <1>4
  <2> QED BY <2>2, <1>1
<1>6. ASSUME NEW j \in DOMAIN rest PROVE rest[j] # s[1] /\ \E i \in DOMAIN s : rest[j] = s[i]
  <2>1. j + 1 \in 1..n /\ 1 \in 1..n /\ j + 1 # 1 /\ rest[j] = s[j + 1]
    BY <1>1, <1>3
  <2> QED BY <2>1, <1>1, <1>4
<1>7. n # 1 => rest # << >>
  BY <1>1, <1>3
<1> QED BY <1>2, <1>3, <1>5, <1>6, <1>7 DEF n

\* One more is told.
LEMMA ToldLemma ==
    ASSUME NEW S, NEW s \in Seq(S), IsInjective(s), NEW a \in S, \A i \in DOMAIN s : s[i] # a
    PROVE  /\ Append(s, a) \in Seq(S) /\ IsInjective(Append(s, a))
           /\ \A i \in DOMAIN Append(s, a) : Append(s, a)[i] = a \/ \E j \in DOMAIN s : Append(s, a)[i] = s[j]
<1> DEFINE n == Len(s)
<1>1. n \in Nat /\ DOMAIN s = 1..n
  OBVIOUS
<1>2. PICK more : more = Append(s, a)
  OBVIOUS
<1>3. more \in Seq(S) /\ DOMAIN more = 1..n + 1 /\ more[n + 1] = a /\ \A j \in 1..n : more[j] = s[j]
  BY <1>1, <1>2
<1>4. \A i, j \in 1..n : s[i] = s[j] => i = j
  BY <1>1 DEF IsInjective
<1> HIDE DEF n
<1>5. \A i \in 1..n + 1 : i \in 1..n \/ i = n + 1
  BY <1>1
<1>6. IsInjective(more)
  <2> SUFFICES ASSUME NEW i \in 1..n + 1, NEW j \in 1..n + 1, more[i] = more[j] PROVE i = j
    BY <1>3 DEF IsInjective
  <2>1. CASE i \in 1..n /\ j \in 1..n
    BY <2>1, <1>3, <1>4
  <2>2. CASE i = n + 1 /\ j = n + 1
    BY <2>2
  <2>3. CASE i \in 1..n /\ j = n + 1
    BY <2>3, <1>1, <1>3
  <2>4. CASE i = n + 1 /\ j \in 1..n
    BY <2>4, <1>1, <1>3
  <2> QED BY <1>5, <2>1, <2>2, <2>3, <2>4
<1>7. ASSUME NEW i \in DOMAIN more PROVE more[i] = a \/ \E j \in DOMAIN s : more[i] = s[j]
  BY <1>1, <1>3, <1>5
<1> QED BY <1>2, <1>3, <1>6, <1>7

\* A request that goes on with its next candidate
LEMMA SkippedLemma ==
    ASSUME NEW u \in Pursuits, u.todo \in Seq(Agents), u.todo # << >>, IsInjective(u.todo),
           u.told \in Seq(Agents), IsInjective(u.told),
           \A m \in DOMAIN u.told, n \in DOMAIN Tail(u.todo) : u.told[m] # Tail(u.todo)[n]
    PROVE  UseOK(Skipped(u))
<1> DEFINE pc == IF Len(u.todo) = 1 THEN "failed" ELSE "session"
<1>1. PICK rest : rest = Tail(u.todo)
  OBVIOUS
<1>2. rest \in Seq(Agents) /\ IsInjective(rest) /\ (Len(u.todo) # 1 => rest # << >>)
  BY <1>1, TailLemma
<1>3. PICK told : told = u.told
  OBVIOUS
<1>4. pc \in {"failed", "session"} /\ (pc = "session" => rest # << >>)
  BY <1>2
<1>5. Skipped(u) = [pc |-> pc, todo |-> rest, told |-> told]
  BY <1>1, <1>3 DEF Skipped
<1> HIDE DEF pc
<1>6. [pc |-> pc, todo |-> rest, told |-> told] \in Pursuits
  BY <1>2, <1>3, <1>4 DEF Pursuits, Doings
<1>7. UseOK([pc |-> pc, todo |-> rest, told |-> told])
  BY <1>1, <1>2, <1>3, <1>4, <1>6 DEF UseOK
<1> QED BY <1>5, <1>7

-----------------------------------------------------------------------------
(* HolBroker: steps *)

\* A request that goes on keeps the rest as it is.
LEMMA UseStep ==
    ASSUME BrokerInv, NEW r \in Uses, NEW u, UseOK(u), use' = [use EXCEPT ![r] = u],
           UNCHANGED localVars
    PROVE  BrokerInv'
<1>1. use' \in [Uses -> Pursuits] /\ \A q \in Uses : UseOK(use'[q])
  BY DEF BrokerInv, UseInv, UseOK
<1>2. UseInv'
  BY <1>1 DEF UseInv
<1>3. RegInv'
  BY DEF BrokerInv, RegInv, ColumnOK, localVars
<1> QED BY <1>2, <1>3 DEF BrokerInv

\* A change of the program counter that needs no more of the candidates
LEMMA UseRests ==
    ASSUME NEW u, UseOK(u), NEW pc \in {"record", "done", "failed"}
    PROVE  UseOK([u EXCEPT !.pc = pc])
<1>1. [u EXCEPT !.pc = pc] = [pc |-> pc, todo |-> u.todo, told |-> u.told]
  BY DEF UseOK, Pursuits
<1>2. u.todo \in Seq(Agents) /\ u.told \in Seq(Agents) /\ IsInjective(u.told)
  BY DEF UseOK, Pursuits
<1>3. [pc |-> pc, todo |-> u.todo, told |-> u.told] \in Pursuits
  BY <1>2 DEF Pursuits, Doings
<1> QED BY <1>1, <1>2, <1>3 DEF UseOK

\* UseSearch
LEMMA UseSearchStep == ASSUME BrokerInv, NEW r \in Uses, UseSearch(r) PROVE BrokerInv'
<1>1. PICK first \in Hits, second \in Hits : \E found \in Discovered(first \o second) : \E cands \in Candidates(found) :
        use' = [use EXCEPT ![r] = [pc |-> Refused(cands), todo |-> cands, told |-> << >>]]
  BY DEF UseSearch
<1>2. first \o second \in Seq(Agents)
  <2>1. first \in Seq(Agents) /\ second \in Seq(Agents)
    BY DEF Hits
  <2> QED BY <2>1
<1>3. PICK found \in Discovered(first \o second) : \E cands \in Candidates(found) :
        use' = [use EXCEPT ![r] = [pc |-> Refused(cands), todo |-> cands, told |-> << >>]]
  BY <1>1
<1>4. found \in Seq(Agents) /\ IsInjective(found)
  BY <1>2, DiscoveredLemma
<1>5. PICK cands \in Candidates(found) :
        use' = [use EXCEPT ![r] = [pc |-> Refused(cands), todo |-> cands, told |-> << >>]]
  BY <1>3
<1>6. cands \in Seq(Agents) /\ IsInjective(cands)
  BY <1>4, CandidatesLemma
<1> DEFINE u == [pc |-> Refused(cands), todo |-> cands, told |-> << >>]
<1>7. u \in Pursuits
  BY <1>6 DEF Pursuits, Doings, Refused
<1>8. UseOK(u)
  BY <1>6, <1>7 DEF UseOK, Refused, IsInjective
<1>9. UNCHANGED localVars
  BY DEF UseSearch
<1> QED BY <1>5, <1>8, <1>9, UseStep

\* UseNamed
LEMMA UseNamedStep == ASSUME BrokerInv, NEW r \in Uses, NEW a \in Agents, UseNamed(r, a) PROVE BrokerInv'
<1> DEFINE u == [pc |-> "session", todo |-> <<a>>, told |-> << >>]
<1>1. u \in Pursuits
  BY DEF Pursuits, Doings
<1>2. UseOK(u)
  BY <1>1 DEF UseOK, IsInjective
<1> QED BY <1>2, UseStep DEF UseNamed

\* What a request that is under way has
LEMMA UnderWay ==
    ASSUME BrokerInv, NEW r \in Uses, use[r].pc \in {"session", "send", "direct"}
    PROVE  LET u == use[r] IN
           /\ u \in Pursuits /\ UseOK(u) /\ u.todo \in Seq(Agents) /\ u.todo # << >> /\ IsInjective(u.todo)
           /\ u.told \in Seq(Agents) /\ IsInjective(u.told) /\ Head(u.todo) \in Agents
           /\ \A m \in DOMAIN u.told : u.told[m] # Head(u.todo)
           /\ UseOK(Skipped(u))
<1> DEFINE u == use[r]
<1>1. u \in Pursuits /\ UseOK(u)
  BY DEF BrokerInv, UseInv
<1>2. /\ u.todo \in Seq(Agents) /\ u.todo # << >> /\ IsInjective(u.todo)
      /\ u.told \in Seq(Agents) /\ IsInjective(u.told)
      /\ \A m \in DOMAIN u.told, n \in DOMAIN u.todo : u.told[m] # u.todo[n]
  BY <1>1 DEF UseOK, Pursuits
<1> HIDE DEF u
<1>3. 1 \in DOMAIN u.todo /\ Head(u.todo) = u.todo[1] /\ Head(u.todo) \in Agents
  BY <1>2
<1>4. \A m \in DOMAIN u.told, n \in DOMAIN Tail(u.todo) : u.told[m] # Tail(u.todo)[n]
  BY <1>2, TailLemma
<1>5. UseOK(Skipped(u))
  BY <1>1, <1>2, <1>4, SkippedLemma
<1> QED BY <1>1, <1>2, <1>3, <1>5 DEF u

\* UseSession
LEMMA UseSessionStep == ASSUME BrokerInv, NEW r \in Uses, UseSession(r) PROVE BrokerInv'
<1> DEFINE u == use[r]
<1>1. u.pc = "session" /\ UNCHANGED localVars
  BY DEF UseSession
<1>2. UseOK(u) /\ UseOK(Skipped(u))
  BY <1>1, UnderWay
<1>3. ASSUME NEW pc \in {"send", "direct"} PROVE UseOK([u EXCEPT !.pc = pc])
  <2>1. [u EXCEPT !.pc = pc] = [pc |-> pc, todo |-> u.todo, told |-> u.told]
    BY <1>2 DEF UseOK, Pursuits
  <2>2. u.todo \in Seq(Agents) /\ u.told \in Seq(Agents) /\ IsInjective(u.told) /\ u.todo # << >> /\ IsInjective(u.todo)
        /\ \A m \in DOMAIN u.told, n \in DOMAIN u.todo : u.told[m] # u.todo[n]
    BY <1>1, <1>2 DEF UseOK, Pursuits
  <2>3. [pc |-> pc, todo |-> u.todo, told |-> u.told] \in Pursuits
    BY <2>2 DEF Pursuits, Doings
  <2> QED BY <2>1, <2>2, <2>3 DEF UseOK
<1>4. \/ use' = [use EXCEPT ![r] = [u EXCEPT !.pc = "send"]]
      \/ use' = [use EXCEPT ![r] = [u EXCEPT !.pc = "direct"]]
      \/ use' = [use EXCEPT ![r] = Skipped(u)]
  BY DEF UseSession
<1> HIDE DEF u
<1> QED BY <1>1, <1>2, <1>3, <1>4, UseStep

\* UseSend
LEMMA UseSendStep == ASSUME BrokerInv, NEW r \in Uses, UseSend(r) PROVE BrokerInv'
<1> DEFINE u == use[r]  a == Head(u.todo)  told == [u EXCEPT !.told = Append(@, a)]
<1>1. u.pc \in {"send", "direct"} /\ UNCHANGED localVars
  BY DEF UseSend
<1>2. /\ u \in Pursuits /\ UseOK(u) /\ UseOK(Skipped(u))
      /\ u.todo \in Seq(Agents) /\ u.todo # << >> /\ IsInjective(u.todo) /\ a \in Agents
      /\ u.told \in Seq(Agents) /\ IsInjective(u.told) /\ \A m \in DOMAIN u.told : u.told[m] # a
      /\ \A m \in DOMAIN u.told, n \in DOMAIN u.todo : u.told[m] # u.todo[n]
  <2>1. \A m \in DOMAIN u.told, n \in DOMAIN u.todo : u.told[m] # u.todo[n]
    BY <1>1 DEF BrokerInv, UseInv, UseOK
  <2> QED BY <1>1, <2>1, UnderWay
<1>3. PICK todo, more : todo = u.todo /\ more = Append(u.told, a)
  OBVIOUS
<1>4. /\ more \in Seq(Agents) /\ IsInjective(more)
      /\ \A m \in DOMAIN more : more[m] = a \/ \E k \in DOMAIN u.told : more[m] = u.told[k]
  BY <1>2, <1>3, ToldLemma
<1>5. told = [pc |-> u.pc, todo |-> todo, told |-> more]
  <2> HIDE DEF u
  <2>1. \A v \in Pursuits : [v EXCEPT !.told = more] = [pc |-> v.pc, todo |-> v.todo, told |-> more]
    BY DEF Pursuits
  <2>2. told = [u EXCEPT !.told = more]
    BY <1>3
  <2> QED BY <1>2, <1>3, <2>1, <2>2
<1>6. \A m \in DOMAIN more, n \in DOMAIN Tail(todo) : more[m] # Tail(todo)[n]
  <2> SUFFICES ASSUME NEW m \in DOMAIN more, NEW n \in DOMAIN Tail(todo) PROVE more[m] # Tail(todo)[n]
    OBVIOUS
  <2>1. Tail(todo)[n] # a /\ \E i \in DOMAIN todo : Tail(todo)[n] = todo[i]
    BY <1>2, <1>3, TailLemma
  <2> QED BY <2>1, <1>2, <1>3, <1>4
<1>7. told \in Pursuits /\ told.todo = todo /\ told.told = more
  BY <1>2, <1>3, <1>4, <1>5 DEF Pursuits
<1>8. UseOK(Skipped(told))
  <2> HIDE DEF told
  <2>1. told.todo \in Seq(Agents) /\ told.todo # << >> /\ IsInjective(told.todo) /\ told.told \in Seq(Agents) /\ IsInjective(told.told)
    BY <1>2, <1>3, <1>4, <1>7
  <2>2. \A m \in DOMAIN told.told, n \in DOMAIN Tail(told.todo) : told.told[m] # Tail(told.todo)[n]
    BY <1>6, <1>7
  <2> QED BY <1>7, <2>1, <2>2, SkippedLemma
<1>9. ASSUME NEW x \in {u, told} PROVE UseOK([x EXCEPT !.pc = "record"])
  <2>1. x \in Pursuits /\ IsInjective(x.told)
    BY <1>2, <1>4, <1>7
  <2>2. x.todo \in Seq(Agents) /\ x.told \in Seq(Agents)
    BY <2>1 DEF Pursuits
  <2>3. [x EXCEPT !.pc = "record"] = [pc |-> "record", todo |-> x.todo, told |-> x.told]
    BY <2>1 DEF Pursuits
  <2>4. [pc |-> "record", todo |-> x.todo, told |-> x.told] \in Pursuits
    BY <2>2 DEF Pursuits, Doings
  <2> QED BY <2>1, <2>3, <2>4 DEF UseOK
<1>10. \E x \in {u, told} : use' = [use EXCEPT ![r] = [x EXCEPT !.pc = "record"]] \/ use' = [use EXCEPT ![r] = Skipped(x)]
  BY DEF UseSend
<1> HIDE DEF told, u
<1>11. \A x \in {u, told} : UseOK(Skipped(x)) /\ UseOK([x EXCEPT !.pc = "record"])
  BY <1>2, <1>8, <1>9
<1> QED BY <1>1, <1>10, <1>11, UseStep

\* UseRecord
LEMMA UseRecordStep == ASSUME BrokerInv, NEW r \in Uses, UseRecord(r) PROVE BrokerInv'
<1>1. UNCHANGED localVars /\ (use' = [use EXCEPT ![r].pc = "done"] \/ use' = [use EXCEPT ![r].pc = "failed"])
  BY DEF UseRecord
<1>2. UseOK(use[r])
  BY DEF BrokerInv, UseInv
<1>3. UseOK([use[r] EXCEPT !.pc = "done"]) /\ UseOK([use[r] EXCEPT !.pc = "failed"])
  BY <1>2, UseRests
<1> QED BY <1>1, <1>3, UseStep

\* A step that neither a request for a dataset nor a registration takes
LEMMA OtherStep == ASSUME BrokerInv, UNCHANGED <<use, localVars>> PROVE BrokerInv'
BY DEF BrokerInv, UseInv, RegInv, ColumnOK, localVars

\* The registrations
LEMMA RegStep ==
    ASSUME BrokerInv, NEW r \in Registrations, RegLoad(r) \/ RegRefused(r) \/ RegQuote(r) \/ RegCall(r)
    PROVE  BrokerInv'
<1>1. UNCHANGED use
  BY DEF RegLoad, RegRefused, RegQuote, RegCall, contactVars
<1>2. UseInv'
  BY <1>1 DEF BrokerInv, UseInv
<1> DEFINE seen == reg[r].seen  current == Prepared(seen)
<1>3. ColumnOK(meta) /\ ColumnOK(seen) /\ issued \in BOOLEAN
  BY DEF BrokerInv, RegInv
<1>4. ColumnOK(current)
  <2>1. ColumnOK([seen EXCEPT !.published = TRUE])
    BY <1>3 DEF ColumnOK, HolColumns, HolStates
  <2> QED BY <1>3, <2>1 DEF Prepared
<1>5. ColumnOK(Unregistered)
  BY DEF ColumnOK, HolColumns, HolStates, Unregistered
<1>6. ASSUME NEW p \in {"idle", "prepare"}, NEW column, ColumnOK(column), ColumnOK(meta)', issued => issued', issued' \in BOOLEAN,
             reg' = [reg EXCEPT ![r] = [pc |-> p, seen |-> column]]
      PROVE  RegInv'
  <2>1. \A x : ColumnOK(x) => x \in HolColumns /\ (x.status = "registered" => x.uaid = Uaid /\ issued')
    BY <1>6 DEF ColumnOK
  <2>2. reg' \in [Registrations -> [pc : {"idle", "prepare"}, seen : HolColumns]]
    BY <1>6 DEF BrokerInv, RegInv, ColumnOK
  <2>3. \A q \in Registrations : ColumnOK(reg'[q].seen)
    BY <1>6 DEF BrokerInv, RegInv
  <2> QED BY <1>6, <2>1, <2>2, <2>3 DEF RegInv, ColumnOK
<1>7. CASE RegLoad(r)
  <2>1. ColumnOK(meta)'
    BY <1>3, <1>7 DEF RegLoad, ColumnOK
  <2> QED BY <1>2, <1>3, <1>6, <1>7, <2>1 DEF RegLoad, BrokerInv
<1>8. CASE RegRefused(r)
  <2>1. ColumnOK(meta)'
    BY <1>3, <1>8 DEF RegRefused, ColumnOK
  <2> QED BY <1>2, <1>3, <1>5, <1>6, <1>8, <2>1 DEF RegRefused, BrokerInv, IdleReg
<1>9. CASE RegQuote(r)
  <2>1. ColumnOK(meta)'
    BY <1>4, <1>9 DEF RegQuote, ColumnOK
  <2> QED BY <1>2, <1>3, <1>5, <1>6, <1>9, <2>1 DEF RegQuote, BrokerInv, IdleReg
<1>10. CASE RegCall(r)
  <2>1. PICK m \in RegisterAnswers :
          /\ meta' = IF ~m.ok THEN [current EXCEPT !.status = ErrorStatus(current.status, m.error)]
                     ELSE IF m.uaid THEN [current EXCEPT !.status = "registered", !.uaid = Uaid]
                     ELSE [current EXCEPT !.status = "pending"]
          /\ issued' = (issued \/ m.got)
    BY <1>10 DEF RegCall
  <2>2. m.ok => m.got
    <3>1. CASE m \in [ok : {TRUE}, error : {{}}, got : {TRUE}, uaid : BOOLEAN]
      <4>1. m.got = TRUE
        BY <3>1, Zenon
      <4> QED BY <4>1, Zenon
    <3>2. ASSUME NEW x \in FailedCalls, m = [ok |-> FALSE, error |-> x.error, got |-> x.got, uaid |-> FALSE] PROVE ~m.ok
      BY <3>2, Zenon
    <3> QED BY <3>1, <3>2, Zenon DEF RegisterAnswers
  <2>3. issued' \in BOOLEAN /\ (issued => issued')
    BY <2>1, <1>3
  <2>4. current \in HolColumns /\ (current.status = "registered" => current.uaid = Uaid /\ issued')
    BY <1>4, <2>3 DEF ColumnOK
  <2> HIDE DEF current
  <2>5. ASSUME NEW st \in HolStates, st = "registered" => current.status = "registered"
        PROVE  LET x == [current EXCEPT !.status = st] IN x \in HolColumns /\ (x.status = "registered" => x.uaid = Uaid /\ issued')
    BY <2>4, <2>5 DEF HolColumns, HolStates
  <2>6. meta' \in HolColumns /\ (meta'.status = "registered" => meta'.uaid = Uaid /\ issued')
    <3>1. CASE ~m.ok
      <4>1. PICK st : st = ErrorStatus(current.status, m.error)
        OBVIOUS
      <4>2. st \in HolStates /\ (st = "registered" => current.status = "registered")
        BY <4>1 DEF ErrorStatus, HolStates
      <4> QED BY <4>1, <4>2, <2>1, <2>5, <3>1
    <3>2. CASE m.ok /\ m.uaid
      <4>1. meta' = [current EXCEPT !.status = "registered", !.uaid = Uaid]
        BY <2>1, <3>2
      <4>2. meta' = [status |-> "registered", uaid |-> Uaid, published |-> current.published]
        BY <4>1, <2>4 DEF HolColumns, HolStates
      <4>3. issued'
        BY <2>1, <2>2, <3>2
      <4> QED BY <4>2, <4>3, <2>4 DEF HolColumns, HolStates
    <3>3. CASE m.ok /\ ~m.uaid
      <4>1. meta' = [current EXCEPT !.status = "pending"]
        BY <2>1, <3>3
      <4>2. "pending" \in HolStates /\ "pending" # "registered"
        BY DEF HolStates
      <4> QED BY <4>1, <4>2, <2>5
    <3> QED BY <3>1, <3>2, <3>3
  <2>7. ColumnOK(meta)'
    BY <2>6 DEF ColumnOK
  <2> QED BY <1>2, <1>5, <1>6, <1>10, <2>3, <2>7 DEF RegCall, BrokerInv, IdleReg
<1> QED BY <1>7, <1>8, <1>9, <1>10

\* HolRestart
LEMMA RestartStep == ASSUME BrokerInv, HolRestart PROVE BrokerInv'
<1>1. UseInv'
  <2> DEFINE Next(u) == IF u.pc \in {"idle", "done"} THEN u ELSE [u EXCEPT !.pc = "failed"]
  <2>1. use' = [r \in Uses |-> Next(use[r])]
    BY DEF HolRestart
  <2>2. ASSUME NEW r \in Uses PROVE UseOK(Next(use[r])) /\ Next(use[r]) \in Pursuits
    <3>1. UseOK(use[r])
      BY DEF BrokerInv, UseInv
    <3>2. UseOK([use[r] EXCEPT !.pc = "failed"])
      BY <3>1, UseRests
    <3> QED BY <3>1, <3>2 DEF UseOK
  <2> HIDE DEF Next
  <2> QED BY <2>1, <2>2 DEF UseInv
<1>2. issued' \in BOOLEAN /\ (issued => issued')
  <2>1. issued' = issued \/ issued' = TRUE
    BY Zenon DEF HolRestart
  <2>2. issued \in BOOLEAN
    BY DEF BrokerInv, RegInv
  <2>3. CASE issued' = issued
    BY <2>2, <2>3, Zenon
  <2>4. CASE issued' = TRUE
    BY <2>4
  <2> QED BY <2>1, <2>3, <2>4
<1>3. ColumnOK(meta)'
  <2>1. CASE UNCHANGED <<meta, issued>>
    BY <2>1 DEF BrokerInv, RegInv, ColumnOK
  <2>2. CASE ~UNCHANGED <<meta, issued>>
    <3>1. PICK r \in Registrations : meta' = [Prepared(reg[r].seen) EXCEPT !.status = "pending"]
      BY <2>2 DEF HolRestart
    <3>2. reg[r].seen \in HolColumns /\ meta \in HolColumns
      BY DEF BrokerInv, RegInv, ColumnOK
    <3>3. Prepared(reg[r].seen) \in HolColumns
      BY <3>2 DEF Prepared, HolColumns, HolStates
    <3>4. meta' \in HolColumns /\ meta'.status = "pending"
      BY <3>1, <3>3 DEF HolColumns, HolStates
    <3> QED BY <3>4 DEF ColumnOK, HolColumns, HolStates
  <2> QED BY <2>1, <2>2
<1>4. reg' = [r \in Registrations |-> IdleReg]
  BY DEF HolRestart
<1>5. Unregistered \in HolColumns /\ Unregistered.status = "unregistered"
  BY DEF Unregistered, HolColumns, HolStates
<1>6. RegInv'
  BY <1>2, <1>3, <1>4, <1>5 DEF RegInv, ColumnOK, IdleReg, HolColumns, HolStates
<1> QED BY <1>1, <1>6 DEF BrokerInv

\* Init
LEMMA BrokerInit == HolInit => BrokerInv
<1> SUFFICES ASSUME HolInit PROVE BrokerInv
  OBVIOUS
<1>1. IdleUse \in Pursuits /\ IdleUse.told = << >> /\ IdleUse.pc = "idle"
  BY DEF IdleUse, Pursuits, Doings
<1>2. UseOK(IdleUse)
  BY <1>1 DEF UseOK, IsInjective
<1>3. Unregistered \in HolColumns /\ Unregistered.status = "unregistered"
  BY DEF Unregistered, HolColumns, HolStates
<1>4. ColumnOK(Unregistered)
  BY <1>3 DEF ColumnOK
<1>5. UseInv
  BY <1>1, <1>2 DEF UseInv, HolInit
<1>6. RegInv
  BY <1>3, <1>4 DEF RegInv, HolInit, IdleReg
<1> QED BY <1>5, <1>6 DEF BrokerInv

\* Next
LEMMA BrokerNext == BrokerInv /\ [HolNext]_holVars => BrokerInv'
<1> SUFFICES ASSUME BrokerInv, [HolNext]_holVars PROVE BrokerInv'
  OBVIOUS
<1>1. CASE UNCHANGED holVars
  BY <1>1, OtherStep DEF holVars, localVars
<1>2. ASSUME NEW a \in Agents, Expire(a) PROVE BrokerInv'
  BY <1>2, OtherStep DEF Expire, contactVars
<1>3. ASSUME NEW c \in Chats, ChatSay(c) PROVE BrokerInv'
  BY <1>3, OtherStep DEF ChatSay, contactVars
<1>4. ASSUME NEW c \in Chats, NEW a \in Agents, ChatOpen(c, a) PROVE BrokerInv'
  BY <1>4, OtherStep DEF ChatOpen
<1> QED BY <1>1, <1>2, <1>3, <1>4, RestartStep, RegStep, UseSearchStep, UseNamedStep, UseSessionStep, UseSendStep,
           UseRecordStep DEF HolNext

\* The invariant holds.
LEMMA BrokerInvariance == HolSpec => []BrokerInv
<1> QED BY BrokerInit, BrokerNext, PTL DEF HolSpec

-----------------------------------------------------------------------------
(* HolBroker: theorems *)

\* A request never gives an agent its message twice, for any agents and searches that find them,
\* in any order, more than once and in several searches.
THEOREM EachToldOnce == HolSpec => []AskedOnce
<1>1. BrokerInv => AskedOnce
  BY DEF BrokerInv, UseInv, UseOK, AskedOnce
<1> QED BY <1>1, BrokerInvariance, PTL

\* An agent recorded as registered has the UAID the broker issued, for any number of
\* registrations that overlap, fail or are interrupted.
THEOREM RegistrationsAreTrue == HolSpec => []RegisteredHasUaid
<1>1. BrokerInv => RegisteredHasUaid
  BY DEF BrokerInv, RegInv, ColumnOK, RegisteredHasUaid
<1> QED BY <1>1, BrokerInvariance, PTL
=============================================================================
