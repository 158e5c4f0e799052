CONSTANTS
    Nobody = Nobody
    Users = {u1, u2}
    Senders = {s1, s2}
    MaxVersion = 2
    LostAnswers = TRUE
SPECIFICATION Spec
CONSTRAINT OneTrouble
SYMMETRY Symmetry
INVARIANTS
    TypeOK
    SentMeansReceived
    AtMostOnce
PROPERTIES
    KeepsHandout
