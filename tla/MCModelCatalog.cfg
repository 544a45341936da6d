CONSTANTS
    a = a
    b = b
    h = h
    NumBackends = 2
    Words = {a, b}
    Blank = Blank
    Names <- MCNames
    Hosts = {h}
    DefaultOwner = DefaultOwner
    NoTime = NoTime
    Answers <- MCAnswers
    NoRecord = NoRecord
    MaxTime = 3
SPECIFICATION Spec
INVARIANTS
    TypeOK
    CatalogueIsRouted
    ListedOnce
