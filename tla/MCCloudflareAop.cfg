SPECIFICATION Spec
CONSTANTS
    MaxTrouble = 1
    MaxUploads = 1
    Replies = {"ok", "lost", "rejected", "broken"}
    None = None
INVARIANTS
    CertificateIsAccounted
CHECK_DEADLOCK FALSE
