CONSTANTS
    l = l
    h1 = h1
    b = b
    u = u
    pA = pA
    pB = pB
    none = none
    Voters <- MCVoters
    Byzantine = {b}
    Local = l
    Known <- MCKnown
    RankOf <- MCRankOf
    Payees <- MCPayees
    NoPayee = none
    VoteHeights <- MCVoteHeights
    SigRequired = 2
    SigTotal = 2
    EnabledCount = 3
    RegistrySize = 1
    FutureWindow = 1
    HashDepth = 3
    CleanMinDepth = 1
    Spork8Active = TRUE
    InitTip = 4
    MaxTip = 6
    MaxMsgs = 3
    Enabled <- MCPayees
    InputOld <- MCPayees
    Young <- MCYoung
    ScoreOf <- MCScoreOf
    PayOffset <- MCPayOffset
    TieHash <- MCTieHash
    BlockSpacing = 45
    GenesisTime = 2592000
    Month = 2592000
    LookAhead = 8
SPECIFICATION Spec
INVARIANT OneVotePerHeight
