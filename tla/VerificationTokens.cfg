SPECIFICATION FairSpec
CONSTANTS
    MaxToken = 3
    Request = {r1, r2}
    Operation = {"register", "resend", "forgot", "verify", "reset", "expire", "abort"}
    None = None
CHECK_DEADLOCK FALSE
INVARIANTS
    TypeOK
    UsedMeansDone
    LinkSurvives
PROPERTIES
    ImplementsOneTime
    SupersededNeverAccepted
    RequestsFinish
