SPECIFICATION Spec
CONSTANTS
    t1 = t1
    t2 = t2
    t3 = t3
    s1 = s1
    s2 = s2
    a = a
    b = b
    v = v
    l = l
    m = m
    p = p
    k1 = k1
    k2 = k2
    Store = {s1, s2}
    StoreOf <- OneThreadEach
    Name = {a, b}
    Value = {v}
    Label = {l, m}
    PredicateOf <- OnePredicate
    ScopeFilter <- Filters
    TIMELINE_LIMIT = 2
    Kind = {k1, k2}
    Confidence = {50, 100}
    FullConfidence = 100
    None = None
    Absent = Absent
    MaxTime = 1
    Thread = {t1, t3}
    Request <- AllCalls
    MaxFact = 3
SYMMETRY Swapped
INVARIANTS
    OneOpenHead
    ChainsNeverFork
PROPERTIES
    SupersedeAtomic
    HistoryKept
    HistoriesAgree
    EachFactOnce
    StatsCoverEntities
