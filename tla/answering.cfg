SPECIFICATION Spec
CONSTANTS
    r1 = r1
    r2 = r2
    alpha = alpha
    beta = beta
    NoBody = NoBody
    Models <- MCModels
    Chain <- MCChain
    HardWords = {"prove"}
    EasyWords = {"copy"}
    Numbers = {}
    And = "and"
    Texts <- MCTexts
    WordsOf <- MCWordsOf
    Stopwords = {"the"}
    Bucket <- MCBucket
    Sign <- MCSign
    Ttl = 2
    MaxNow = 2
    MaxEntries = 3
    Requests = {r1, r2}
    Keys = {alpha, beta}
    TenantOf <- MCTenantOf
    Allowed <- MCAllowed
    Bodies <- MCBodies
SYMMETRY Symmetry
INVARIANTS
    TypeOK
    NoPileUp
    TrapsHold
PROPERTIES
    AnswerIsStable
