\* Two calls interleave while handlers come and go; every port may fail and
\* every call may be dropped.
SPECIFICATION FairSpec
CONSTANTS
    None = None
    Types = {t1}
    Handlers = {h1, h2}
    Calls = {c1, c2}
    TypeOf <- OneType
    MaxDrafts = 2
INVARIANTS
    ApprovedByItsMaker
    AnswerTellsOutcome
PROPERTIES
    StoredBeforePublished
    CallsEnd
