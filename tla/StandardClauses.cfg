\* Two requests, two first clauses, one proposal.
CONSTANTS
    Proc = {p1, p2}
    Nobody = Nobody
    Text <- MCText
    NoText = NoText
    MaxSeq = 4
    MaxAt = 2
    MaxJobs = 3
    Proposal = {k1}
    NoProposal = NoProposal
    Draft <- MCDraft
    FirstBody <- MCFirstBody
SYMMETRY Symmetry
SPECIFICATION Spec
INVARIANTS
    TypeOK
    PlacesDistinct
PROPERTIES
    KeepsHandlesAndOrder
    AppliesWhatWasReviewed
    ContentHeals
\* A fixed number of requests.
CHECK_DEADLOCK FALSE
