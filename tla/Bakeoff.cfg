SPECIFICATION BakeoffSpec
CONSTANTS
    None = None
    Torn = Torn
    small = small
    large = large
    unsized = unsized
    p1 = p1
    p2 = p2
    a1 = a1
    donor = donor
    other = other
    shard = shard
    config = config
    site = site
    x = x
    y = y
    z = z
    t1 = t1
    stranger = stranger
    TestPaths = {t1}
    ORACLE_BUDGET_CHARS = 4
    MAX_BYTES_PER_CHARACTER = 4
    BAND_MAX_NON_TEST_FILES = 1
    BAND_MAX_HUNKS = 2
    BAND_MAX_CHANGED_LINES = 2
    STRATUM_SCHEMA = "whetstone-stratum/1"
    MODEL_CONFIG = config
    Recorded <- MCRecorded
    Disks <- MCDisks
    Candidates <- MCCandidates
    Size <- MCSize
    PrivateCorpus <- MCPrivate
    PublicCorpus <- MCPublic
    Fact <- MCFact
    Bands <- MCBands
    Corpora <- MCCorpora
    Strata <- MCStrata
    DevSubsets <- MCDevSubsets
    Onlys <- MCOnlys
    Probes <- MCProbes
    Pools <- MCPools
    Answers <- MCAnswers
    Funnels <- MCFunnels
    RecordedOns <- MCRecordedOns
    MaxStarts = 2
    MaxMishaps = 1
PROPERTIES
    CountsAreOfTheContract
    SelectionIsEarned
INVARIANT
    StratumIsTheRules
\* An operator may stop starting bake-offs.
CHECK_DEADLOCK FALSE
