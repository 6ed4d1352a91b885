------------------------------- MODULE HolBroker -------------------------------
(***************************************************************************)
(* External agents reached through the HOL broker: what past contacts say of *)
(* an agent (hol_agent_usability.py), a dataset put to the best candidates    *)
(* (data_agent.py), chats with a direct fallback, and the registration of a   *)
(* local agent at the broker (main.py).  All calls go through hol_client.py.  *)
(***************************************************************************)
EXTENDS Naturals, Sequences, FiniteSets, Functions

CONSTANTS Agents, NoAgent,
          Offline,      \* agents the broker reports as offline, inactive or in error
          Available,    \* agents it marks available
          Chatable,     \* agents with an HTTP transport or a source URL
          Capable,      \* agents that match the required capabilities
          Uses,         \* requests that put a dataset to an agent
          Chats,        \* chat sessions
          Registrations,\* requests that register the local agent
          NoUaid, Uaid, \* the UAID the broker issues for it
          MaxHits,      \* bound: agents a search returns
          MaxFailures     \* bound: crashes, and writes that fail

VARIABLES
    contacts, \* hol_agent_verifications: the last outcome that was recorded
    use,      \* what a request for a dataset does: candidates left, and who got the message
    traces,   \* hol_sessions of the dataset
    chat,     \* sessions known to clients, and whether the process still knows their agent
    meta,     \* the local agent's HOL fields, one JSON column
    reg,      \* what a registration does: the column as it was loaded
    issued,   \* the broker has issued a UAID to the local agent
    failures

holVars == <<contacts, use, traces, chat, meta, reg, issued, failures>>
contactVars == <<use, traces, chat>>
localVars == <<meta, reg, issued>>

IdleUse == [pc |-> "idle", todo |-> << >>, told |-> << >>]
NoChat == [mode |-> "none", agent |-> NoAgent, known |-> FALSE]
Unregistered == [status |-> "unregistered", uaid |-> NoUaid, published |-> FALSE]
IdleReg == [pc |-> "idle", seen |-> Unregistered]

HolInit ==
    /\ contacts = [a \in Agents |-> "none"]
    /\ use = [r \in Uses |-> IdleUse] /\ traces = << >>
    /\ chat = [c \in Chats |-> NoChat]
    /\ meta = Unregistered
    /\ reg = [r \in Registrations |-> IdleReg]
    /\ issued = FALSE /\ failures = 0

-----------------------------------------------------------------------------
(* Errors and their consequences *)

\* What an error may look like: both texts at once, a configuration error, or neither.
Errors == (SUBSET {"transient", "hard"}) \cup {{"configuration"}}

\* What the client makes of a call.  create_session repeats timeouts and gateway
\* errors itself, and its caller sees one answer.
SessionAnswers == [ok : {TRUE}, error : {{}}] \cup [ok : {FALSE}, error : Errors]

\* Nothing reached the broker if no connection was made; after any other error it
\* may have acted all the same.
FailedCalls == {m \in [ok : {FALSE}, error : Errors, got : BOOLEAN] : m.error = {"configuration"} => ~m.got}

\* send_message is sent once, and not repeated.
MessageAnswers == FailedCalls \cup [ok : {TRUE}, error : {{}}, got : {TRUE}]

\* register_agent is sent once; its answer may lack the UAID.
RegisterAnswers ==
    {[ok |-> FALSE, error |-> m.error, got |-> m.got, uaid |-> FALSE] : m \in FailedCalls}
        \cup [ok : {TRUE}, error : {{}}, got : {TRUE}, uaid : BOOLEAN]

\* should_use_direct_chat_fallback
Fallback(e) == "transient" \in e

\* is_hol_hard_availability_failure, and record_hol_agent_hard_failure
AfterFailure(a, e) == IF "hard" \in e THEN [contacts EXCEPT ![a] = "failure"] ELSE contacts

\* record_hol_agent_success
AfterSuccess(a) == [contacts EXCEPT ![a] = "success"]

\* A success older than 24 hours no longer verifies.
Expire(a) ==
    /\ contacts[a] = "success"
    /\ contacts' = [contacts EXCEPT ![a] = "expired"]
    /\ UNCHANGED <<contactVars, localVars, failures>>

\* compute_hol_agent_usability_fields
Tier(a) ==
    CASE contacts[a] = "failure" \/ a \in Offline -> "blocked"
      [] contacts[a] = "success" /\ a \notin Offline -> "verified"
      [] OTHER -> IF a \in Available THEN "broker_available" ELSE "exploratory"

-----------------------------------------------------------------------------
(* A dataset and its candidates: use_hol_data_agent *)

\* What a filter and a stable sort leave of a sequence: the places whose rank is not 0,
\* by rank, and in their order where the rank is the same.
Arranged(s, rank) ==
    LET kept == {i \in DOMAIN s : rank[i] # 0}
        Before(i, j) == rank[i] < rank[j] \/ (rank[i] = rank[j] /\ i < j) IN
    {[n \in DOMAIN place |-> s[place[n]]] :
        place \in {q \in [1..Cardinality(kept) -> kept] : \A m, n \in DOMAIN q : m < n => Before(q[m], q[n])}}

\* The agents of one search, in the broker's order; none, if the search failed.
Hits == UNION {[1..n -> Agents] : n \in 0..MaxHits}

\* Mutant: an agent that is found twice is a candidate twice.
DiscoveredTwice(hits) == {hits}

\* What the searches found in turn; an agent found again is left out.
Discovered(hits) == Arranged(hits, [i \in DOMAIN hits |-> IF \E j \in 1..i - 1 : hits[j] = hits[i] THEN 0 ELSE 1])

\* Filtered by capability and reachability, and sorted by tier.
Place(a) ==
    CASE a \notin Capable \cap Chatable \/ Tier(a) = "blocked" -> 0
      [] Tier(a) = "verified" -> 1 [] Tier(a) = "broker_available" -> 2 [] OTHER -> 3
Candidates(found) == Arranged(found, [i \in DOMAIN found |-> Place(found[i])])

Refused(cands) == IF cands = << >> THEN "failed" ELSE "session"

\* Without a UAID: two searches, whose tiers are looked up once.
UseSearch(r) ==
    /\ use[r].pc = "idle"
    /\ \E first, second \in Hits : \E found \in Discovered(first \o second) : \E cands \in Candidates(found) :
         use' = [use EXCEPT ![r] = [pc |-> Refused(cands), todo |-> cands, told |-> << >>]]
    /\ UNCHANGED <<contacts, traces, chat, localVars, failures>>

\* With a UAID: that agent, whatever its tier.
UseNamed(r, a) ==
    /\ use[r].pc = "idle"
    /\ use' = [use EXCEPT ![r] = [pc |-> "session", todo |-> <<a>>, told |-> << >>]]
    /\ UNCHANGED <<contacts, traces, chat, localVars, failures>>

\* The next candidate, or the end.
Skipped(u) == [pc |-> IF Len(u.todo) = 1 THEN "failed" ELSE "session", todo |-> Tail(u.todo), told |-> u.told]

\* A session with the first candidate; a transient error leads to a direct message.
UseSession(r) ==
    LET a == Head(use[r].todo) IN
    /\ use[r].pc = "session"
    /\ \E m \in SessionAnswers :
         /\ contacts' = IF m.ok THEN contacts ELSE AfterFailure(a, m.error)
         /\ use' = [use EXCEPT ![r] = IF m.ok THEN [@ EXCEPT !.pc = "send"]
                                      ELSE IF Fallback(m.error) THEN [@ EXCEPT !.pc = "direct"] ELSE Skipped(@)]
    /\ UNCHANGED <<traces, chat, localVars, failures>>

\* The message, into the session or directly to the agent.
UseSend(r) ==
    LET a == Head(use[r].todo) IN
    /\ use[r].pc \in {"send", "direct"}
    /\ \E m \in MessageAnswers :
         LET u == IF m.got THEN [use[r] EXCEPT !.told = Append(@, a)] ELSE use[r] IN
         /\ contacts' = IF m.ok THEN contacts ELSE AfterFailure(a, m.error)
         /\ use' = [use EXCEPT ![r] = IF m.ok THEN [u EXCEPT !.pc = "record"] ELSE Skipped(u)]
    /\ UNCHANGED <<traces, chat, localVars, failures>>

\* The success is recorded, then the session is added to the dataset's traces.  Two
\* requests that insert the row of one agent at once fail, and leave no trace.
UseRecord(r) ==
    LET a == Head(use[r].todo) IN
    /\ use[r].pc = "record"
    /\ \/ /\ contacts' = AfterSuccess(a) /\ traces' = Append(traces, a)
          /\ use' = [use EXCEPT ![r].pc = "done"]
          /\ UNCHANGED failures
       \/ /\ contacts[a] # "none" /\ failures < MaxFailures /\ failures' = failures + 1
          /\ use' = [use EXCEPT ![r].pc = "failed"]
          /\ UNCHANGED <<contacts, traces>>
    /\ UNCHANGED <<chat, localVars>>

-----------------------------------------------------------------------------
(* Chats *)

\* hol_chat_create_session: a broker session, a direct one after a transient error,
\* or none.
ChatOpen(c, a) ==
    /\ chat[c] = NoChat
    /\ \E m \in SessionAnswers :
         /\ contacts' = IF m.ok THEN contacts ELSE AfterFailure(a, m.error)
         /\ chat' = IF m.ok \/ Fallback(m.error)
                    THEN [chat EXCEPT ![c] = [mode |-> IF m.ok THEN "session" ELSE "direct", agent |-> a, known |-> TRUE]]
                    ELSE chat
    /\ UNCHANGED <<use, traces, localVars, failures>>

\* hol_chat_send_message: the outcome is recorded, unless a restart has lost the
\* agent of the session; a direct session is then not found at all.
ChatSay(c) ==
    /\ chat[c].mode # "none" /\ chat[c].known
    /\ \E m \in MessageAnswers :
         contacts' = IF m.ok THEN AfterSuccess(chat[c].agent) ELSE AfterFailure(chat[c].agent, m.error)
    /\ UNCHANGED <<contactVars, localVars, failures>>

-----------------------------------------------------------------------------
(* Registration of the local agent: hol_register_local_agent *)

\* The row is loaded before the health check and the upload are awaited.
RegLoad(r) ==
    /\ reg[r].pc = "idle"
    /\ reg' = [reg EXCEPT ![r] = [pc |-> "prepare", seen |-> meta]]
    /\ UNCHANGED <<contacts, contactVars, meta, issued, failures>>

\* The payload is prepared: metadata that is not published for the present
\* endpoints is uploaded first, and the whole column written as it was loaded.
Prepared(seen) == IF seen.published THEN meta ELSE [seen EXCEPT !.published = TRUE]

\* The sidecar, the upload or the endpoint is refused: nothing is written.
RegRefused(r) ==
    /\ reg[r].pc = "prepare"
    /\ reg' = [reg EXCEPT ![r] = IdleReg]
    /\ UNCHANGED <<contacts, contactVars, meta, issued, failures>>

\* _resolve_hol_error_status
ErrorStatus(previous, e) ==
    IF Fallback(e) THEN (IF previous = "registered" THEN "registered" ELSE "unregistered") ELSE "error"

\* From the upload to the answer nothing is awaited: the column is "pending" only
\* where the process stops, or where the answer has no UAID.  An error may hide a
\* registration that was made.
RegCall(r) ==
    LET current == Prepared(reg[r].seen) IN
    /\ reg[r].pc = "prepare"
    /\ \E m \in RegisterAnswers :
         /\ meta' = IF ~m.ok THEN [current EXCEPT !.status = ErrorStatus(current.status, m.error)]
                    ELSE IF m.uaid THEN [current EXCEPT !.status = "registered", !.uaid = Uaid]
                    ELSE [current EXCEPT !.status = "pending"]
         /\ issued' = (issued \/ m.got)
    /\ reg' = [reg EXCEPT ![r] = IdleReg]
    /\ UNCHANGED <<contacts, contactVars, failures>>

\* A quote: the prepared metadata is written, and nothing asked for.
RegQuote(r) ==
    /\ reg[r].pc = "prepare"
    /\ meta' = Prepared(reg[r].seen)
    /\ reg' = [reg EXCEPT ![r] = IdleReg]
    /\ UNCHANGED <<contacts, contactVars, issued, failures>>

\* The process stops, perhaps in the middle of a registration: its requests and
\* what it knew of sessions are gone.
HolRestart ==
    /\ failures < MaxFailures /\ failures' = failures + 1
    /\ \/ UNCHANGED <<meta, issued>>
       \/ \E r \in Registrations :
            /\ reg[r].pc = "prepare"
            /\ meta' = [Prepared(reg[r].seen) EXCEPT !.status = "pending"]
            /\ issued' \in {issued, TRUE}
    /\ use' = [r \in Uses |-> IF use[r].pc \in {"idle", "done"} THEN use[r] ELSE [use[r] EXCEPT !.pc = "failed"]]
    /\ chat' = [c \in Chats |-> [chat[c] EXCEPT !.known = FALSE]]
    /\ reg' = [r \in Registrations |-> IdleReg]
    /\ UNCHANGED <<contacts, traces>>

HolNext ==
    \/ HolRestart
    \/ \E a \in Agents : Expire(a)
    \/ \E r \in Uses :
        \/ UseSearch(r) \/ UseSession(r) \/ UseSend(r) \/ UseRecord(r)
        \/ \E a \in Agents : UseNamed(r, a)
    \/ \E c \in Chats : ChatSay(c) \/ \E a \in Agents : ChatOpen(c, a)
    \/ \E r \in Registrations : RegLoad(r) \/ RegRefused(r) \/ RegQuote(r) \/ RegCall(r)

HolSpec == HolInit /\ [][HolNext]_holVars

-----------------------------------------------------------------------------
(* Properties *)

\* However its searches overlap, its sessions time out and it falls back to direct
\* messages, a request never gives an agent the same message twice.
AskedOnce == \A r \in Uses : IsInjective(use[r].told)

\* An agent recorded as registered has the UAID the broker gave it, whatever the
\* registrations that overlapped, were interrupted or failed have written.
RegisteredHasUaid == meta.status = "registered" => meta.uaid = Uaid /\ issued
=============================================================================
