SPECIFICATION Spec
CONSTANTS
    Object = {"o1", "o2", "o3", "o4"}
    Attribute = {"A", "B", "M"}
    Kind <- MCKind
    Values <- MCValues
    Iteration <- MCIteration
    Quantum = 5
    Batches <- MCBatches
    Catalogue <- MCCatalogue
    MaxIndexes = 2
    Requests <- MCRequests
INVARIANTS
    TypeOK
    Answers
    ContainsAgrees
    NoDuplicates
    Ordered
