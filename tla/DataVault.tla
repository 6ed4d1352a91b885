------------------------------- MODULE DataVault -------------------------------
(***************************************************************************)
(* Datasets of the data agent (api/routes/data_agent.py): upload with its    *)
(* checks, verification, anchoring of a manifest with two awaits, reuse and   *)
(* HOL traces.  The trust and proof state of a dataset is one JSON column,    *)
(* which a request writes back as it had read it.                            *)
(***************************************************************************)
EXTENDS Naturals, FiniteSets

CONSTANTS Datasets, NoDataset,
          Contents, NoContent,
          Parsable,     \* contents that match their file's extension
          Requests,     \* requests that await something: an anchoring or a HOL use each
          NoManifest,
          MaxMishaps    \* bound: restarts, altered files and database errors

VARIABLES
    content,  \* the content whose hash a dataset's row has, or NoContent
    file,     \* its stored file
    trust,    \* the JSON column: verification, proof and reuse
    topic,    \* manifests in messages of the provenance topic
    request,  \* what a request awaits, and the column as it read it
    auto,     \* DATA_AGENT_AUTO_ANCHOR
    mishaps

vaultVars == <<content, file, trust, topic, request, auto, mishaps>>

\* _default_meta
Pending == [verified |-> "pending", proof |-> "unanchored", manifest |-> NoManifest, used |-> FALSE]
Idle == [pc |-> "idle", dataset |-> NoDataset, seen |-> Pending, fresh |-> FALSE]
Over == [Idle EXCEPT !.pc = "over"]

VaultInit ==
    /\ content = [d \in Datasets |-> NoContent]
    /\ file = [d \in Datasets |-> "none"]
    /\ trust = [d \in Datasets |-> Pending]
    /\ topic = {}
    /\ request = [r \in Requests |-> Idle]
    /\ auto \in BOOLEAN
    /\ mishaps = 0

\* A restart: what was under way is lost.
Stopped == [r \in Requests |-> IF request[r].pc = "idle" THEN Idle ELSE Over]

Stored == {d \in Datasets : content[d] # NoContent}

\* Mutant: only datasets that passed count as duplicates.
DuplicatesPassed(d, c) == {e \in Stored \ {d} : content[e] = c /\ trust[e].verified = "passed"}

\* The other rows with the same hash.
Duplicates(d, c) == {e \in Stored \ {d} : content[e] = c}

\* _build_verification_report: checksum, type, and no duplicate; an upload is never empty.
Report(d, c, stored) ==
    IF stored = "intact" /\ c \in Parsable /\ Duplicates(d, c) = {} THEN "passed" ELSE "failed"

\* The manifest of a dataset says how its verification stood.
ManifestOf(d, t) == [dataset |-> d, verified |-> t.verified]

\* _anchor_dataset_internal begins: the column is read, the manifest built.
Anchoring(r, d, t, fresh) == [request EXCEPT ![r] = [pc |-> "pin", dataset |-> d, seen |-> t, fresh |-> fresh]]

\* upload_dataset: file, row and checks are committed before the first await; the
\* file of a failed commit is removed, that of a crash stays behind.
Upload(d, c, r) ==
    LET t == [Pending EXCEPT !.verified = Report(d, c, "intact")] IN
    /\ content[d] = NoContent /\ file[d] = "none"
    /\ \/ /\ content' = [content EXCEPT ![d] = c]
          /\ file' = [file EXCEPT ![d] = "intact"]
          /\ trust' = [trust EXCEPT ![d] = t]
          /\ IF auto THEN request[r].pc = "idle" /\ request' = Anchoring(r, d, t, TRUE)
                     ELSE UNCHANGED request
          /\ UNCHANGED mishaps
       \/ /\ mishaps < MaxMishaps /\ mishaps' = mishaps + 1
          /\ file' = [file EXCEPT ![d] = "intact"]
          /\ request' = Stopped
          /\ UNCHANGED <<content, trust>>
    /\ UNCHANGED <<topic, auto>>

\* The column after _apply_verification
Checked(d) == [trust[d] EXCEPT !.verified = Report(d, content[d], file[d])]

\* verify_dataset; without its file, the request is refused.
Verify(d) ==
    /\ d \in Stored /\ file[d] # "none"
    /\ trust' = [trust EXCEPT ![d] = Checked(d)]
    /\ UNCHANGED <<content, file, topic, request, auto, mishaps>>

\* anchor_dataset verifies first, and commits that.
Anchor(r, d) ==
    /\ d \in Stored /\ file[d] # "none" /\ request[r].pc = "idle"
    /\ trust' = [trust EXCEPT ![d] = Checked(d)]
    /\ request' = Anchoring(r, d, Checked(d), FALSE)
    /\ UNCHANGED <<content, file, topic, auto, mishaps>>

\* Writes the column and ends the request.
Answer(r, t) ==
    /\ trust' = [trust EXCEPT ![request[r].dataset] = t]
    /\ request' = [request EXCEPT ![r] = Over]

\* _pin_manifest_to_pinata
Pin(r) ==
    /\ request[r].pc = "pin"
    /\ \/ /\ request' = [request EXCEPT ![r].pc = "submit"]
          /\ UNCHANGED trust
       \/ Answer(r, [request[r].seen EXCEPT !.proof = "failed"])
    /\ UNCHANGED <<content, file, topic, auto, mishaps>>

\* Mutant: the proof of an earlier anchoring stays in force when the new message fails.
PinnedAnchored(t, m) == [t EXCEPT !.manifest = m]

\* The column of a manifest that is pinned and not anchored
Pinned(t, m) == [t EXCEPT !.proof = "manifest_pinned", !.manifest = m]

\* _submit_anchor_message; its message may be on the topic although it failed.
Submit(r) ==
    LET seen == request[r].seen
        m == ManifestOf(request[r].dataset, seen) IN
    /\ request[r].pc = "submit"
    /\ \/ /\ topic' = topic \cup {m}
          /\ Answer(r, [seen EXCEPT !.proof = "anchored", !.manifest = m])
       \/ /\ topic' \in {topic, topic \cup {m}}
          /\ Answer(r, Pinned(seen, m))
    /\ UNCHANGED <<content, file, auto, mishaps>>

\* The commit of an anchoring raises: an upload then removes the file of its row.
AnswerFails(r) ==
    /\ request[r].pc \in {"pin", "submit"} /\ mishaps < MaxMishaps
    /\ mishaps' = mishaps + 1
    /\ file' = IF request[r].fresh THEN [file EXCEPT ![request[r].dataset] = "none"] ELSE file
    /\ request' = [request EXCEPT ![r] = Over]
    /\ UNCHANGED <<content, trust, topic, auto>>

\* record_dataset_reuse
Reuse(d) ==
    /\ d \in Stored
    /\ trust' = [trust EXCEPT ![d].used = TRUE]
    /\ UNCHANGED <<content, file, topic, request, auto, mishaps>>

\* use_hol_data_agent loads the row, awaits its agents, and appends a trace to the
\* column it had loaded; at most 20 are kept.
UseBegin(r, d) ==
    /\ d \in Stored /\ request[r].pc = "idle"
    /\ request' = [request EXCEPT ![r] = [pc |-> "use", dataset |-> d, seen |-> trust[d], fresh |-> FALSE]]
    /\ UNCHANGED <<content, file, trust, topic, auto, mishaps>>

UseEnd(r) ==
    /\ request[r].pc = "use"
    /\ \/ Answer(r, [request[r].seen EXCEPT !.used = TRUE])
       \/ /\ request' = [request EXCEPT ![r] = Over]
          /\ UNCHANGED trust
    /\ UNCHANGED <<content, file, topic, auto, mishaps>>

\* The storage loses or alters a file, or the process restarts.
Mishap ==
    /\ mishaps < MaxMishaps /\ mishaps' = mishaps + 1
    /\ \/ \E d \in Stored, f \in {"none", "altered"} : file' = [file EXCEPT ![d] = f] /\ UNCHANGED request
       \/ request' = Stopped /\ UNCHANGED file
    /\ UNCHANGED <<content, trust, topic, auto>>

VaultNext ==
    \/ Mishap
    \/ \E d \in Datasets : Verify(d) \/ Reuse(d)
    \/ \E r \in Requests :
        \/ Pin(r) \/ Submit(r) \/ AnswerFails(r) \/ UseEnd(r)
        \/ \E d \in Datasets : Anchor(r, d) \/ UseBegin(r, d) \/ \E c \in Contents : Upload(d, c, r)

VaultSpec == VaultInit /\ [][VaultNext]_vaultVars

-----------------------------------------------------------------------------
(* Properties *)

\* Of datasets with the same content at most one has passed verification, although
\* requests write back verdicts that are out of date.
OnePassedPerContent ==
    \A d, e \in Stored :
        content[d] = content[e] /\ trust[d].verified = "passed" /\ trust[e].verified = "passed" => d = e

\* A dataset that says it is anchored has the message of its manifest on the topic.
AnchoredIsOnTopic ==
    \A d \in Stored : trust[d].proof = "anchored" => trust[d].manifest \in topic
=============================================================================
