SPECIFICATION Spec
SYMMETRY Symmetry
CONSTANTS
    Object = {o1, o2}
    NoObject = noObject
    store = store
    i1 = i1
    i2 = i2
    d1 = d1
    d2 = d2
    Table = {store, i1, i2}
    Store = store
    Database = {d1, d2}
    DatabaseOf <- MCDatabaseOf
    Locking = {d2}
    Volatile = {d2}
    Thread = {t1, t2}
    NoThread = noThread
    MayFail = TRUE
INVARIANTS TypeOK TablesOfADatabaseAgree DatabasesAgreeBetweenCommits CommittedInOrder NothingLeftOpen RemovalsLast IndInv
