\* The services that share no state, one per behaviour.
SPECIFICATION Spec
\* Every service stops: requests are bounded, a verification and a run end.
CHECK_DEADLOCK FALSE

CONSTANTS
    Datasets = {d1, d2}
    NoDataset = NoDataset
    NoManifest = NoManifest
    Anchorings = {q1, q2}

INVARIANT BrokerIsTrue
INVARIANT TrustIsEarned
INVARIANT VerdictIsEarned
INVARIANT EvidenceIsTraceable
INVARIANT ScoresAreEarned
INVARIANT AttemptsAreTrue
INVARIANT ReputationIsEarned
INVARIANT ReconciliationIsTrue
