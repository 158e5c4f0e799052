CONSTANTS
    Nobody = Nobody
    Users = {u1, u2}
    Senders = {s1}
    MaxVersion = 1
    LostAnswers = FALSE
SPECIFICATION Spec
SYMMETRY Symmetry
INVARIANTS
    NeverTwice
