SPECIFICATION FairSpec
CONSTANTS
    Object = {o1, o2}
    Index = {i1}
    Store = store
    Reader = {r1}
    Writer = {w1}
    NoWriter = noWriter
    NoObject = noObject
    MaxVersion = 6
    Ops = {"update", "retainAll"}
    ReAdd = TRUE
    MayFail = TRUE
INVARIANTS MutatorInv ReadsBounded CurrentVersionUncontended QuiescentCollection NothingHiddenWhenIdle ReturnValueTruthful
PROPERTIES ViewsStable WriterReturns
