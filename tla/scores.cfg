CONSTANTS
    s1 = s1
    s2 = s2
    s3 = s3
    NoData = NoData
    Players <- TwoPlayers
    Sessions <- MCSessions
    Account <- MCAccount
    Scores = {1, 2}
    Stamps = {1, 2}
    Configs <- MCConfigs
    Readers = {s3}
    Plays <- MCPlays
    MaxFiles = 2
    IntMax = 3
    MaxBusy = 2
SYMMETRY Twins
SPECIFICATION Spec
INVARIANTS TypeOK RankingSound CacheShowsRows BoardIsTop DataIsOwn
