CONSTANTS
    MAX_SESSIONS = 2
    Local = {l1}
    Remote = {r1, r2, r3}
    Depth = 2
    DeleteDepth = 2
    FinDepth = 1
SPECIFICATION FairSpec
INVARIANTS TypeOK IdsConserved DirectoriesAgree CountExact
PROPERTIES OneDirectory LookupsAnswered IdsReturn
