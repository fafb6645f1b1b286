SPECIFICATION Spec
CONSTANTS
    c1 = c1
    c2 = c2
    Client = {c1, c2}
    Base = 16
    MaxNesting = 2
    Menu <- TwoUsers
    Texts <- TwoTexts
    Nums <- OneNumber
    Chunks = {9, 128}
CHECK_DEADLOCK FALSE
INVARIANTS
    TypeOK
    DocumentsFit
    PromptClean
    WireFaithful
PROPERTY ImplementsCatalog
