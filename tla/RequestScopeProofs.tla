-------------------------- MODULE RequestScopeProofs --------------------------
(***************************************************************************)
(* What RequestScope promises holds for any tables, databases, threads and *)
(* objects, with failures and crashes.  The inductive invariant is IndInv; *)
(* its preservation is one lemma per action.  Facts about sequences come   *)
(* first: they turn the order of connections into sets.                    *)
(***************************************************************************)
EXTENDS RequestScope, SequenceTheorems, TLAPS

USE TableAssumption, ThreadAssumption DEF requestVars, historyVars

\* An empty sequence has no elements.
LEMMA EmptyToSet == ToSet(<<>>) = {}
BY DEF ToSet

\* A longer sequence has one element more.
LEMMA AppendToSet ==
    ASSUME NEW S, NEW s \in Seq(S), NEW e \in S
    PROVE  ToSet(Append(s, e)) = ToSet(s) \cup {e}
BY SMTT(30) DEF ToSet

\* The elements of a sequence are the first one and those of the rest.
LEMMA HeadTailToSet ==
    ASSUME NEW S, NEW s \in Seq(S), s # <<>>
    PROVE  ToSet(s) = {Head(s)} \cup ToSet(Tail(s))
<1>1. DOMAIN s = 1 .. Len(s) /\ DOMAIN Tail(s) = 1 .. Len(s) - 1 /\ Len(s) \in Nat \ {0}
  OBVIOUS
<1>2. \A i \in DOMAIN Tail(s) : Tail(s)[i] = s[i + 1]
  OBVIOUS
<1>3. Head(s) = s[1]
  OBVIOUS
<1>4. ASSUME NEW x \in ToSet(s) PROVE x \in {Head(s)} \cup ToSet(Tail(s))
  <2>1. PICK i \in DOMAIN s : x = s[i]
    BY DEF ToSet
  <2>2. CASE i = 1
    BY <2>1, <2>2, <1>3
  <2>3. CASE i # 1
    <3>1. i - 1 \in DOMAIN Tail(s) /\ Tail(s)[i - 1] = s[i]
      BY <2>1, <2>3, <1>1, <1>2
    <3> QED BY <3>1, <2>1 DEF ToSet
  <2> QED BY <2>2, <2>3
<1>5. ASSUME NEW x \in {Head(s)} \cup ToSet(Tail(s)) PROVE x \in ToSet(s)
  <2>1. CASE x = Head(s)
    BY <1>1, <1>3, <2>1 DEF ToSet
  <2>2. CASE x \in ToSet(Tail(s))
    <3>1. PICK i \in DOMAIN Tail(s) : x = Tail(s)[i]
      BY <2>2 DEF ToSet
    <3>2. i + 1 \in DOMAIN s /\ x = s[i + 1]
      BY <3>1, <1>1, <1>2
    <3> QED BY <3>2 DEF ToSet
  <2> QED BY <2>1, <2>2
<1> QED BY <1>4, <1>5
\* The elements of a part of a sequence.
LEMMA SubSeqToSet ==
    ASSUME NEW S, NEW s \in Seq(S), NEW m \in 1 .. Len(s) + 1, NEW n \in 0 .. Len(s)
    PROVE  ToSet(SubSeq(s, m, n)) = {s[i] : i \in m .. n}
<1> DEFINE r == SubSeq(s, m, n)
<1>1. \A i \in m .. n : s[i] \in S
  BY ElementOfSeq
<1>2. /\ r \in Seq(S)
      /\ Len(r) = IF m <= n THEN n - m + 1 ELSE 0
      /\ \A i \in 1 .. n - m + 1 : r[i] = s[m + i - 1]
  BY <1>1, SubSeqProperties
<1>3. DOMAIN r = 1 .. n - m + 1
  BY <1>2, LenProperties
<1> HIDE DEF r
<1>4. ASSUME NEW i \in m .. n PROVE s[i] \in ToSet(r)
  <2>1. i - m + 1 \in 1 .. n - m + 1 /\ r[i - m + 1] = s[i]
    BY <1>2
  <2> QED BY <2>1, <1>3 DEF ToSet
<1>5. ASSUME NEW i \in 1 .. n - m + 1 PROVE r[i] \in {s[j] : j \in m .. n}
  <2>1. m + i - 1 \in m .. n /\ r[i] = s[m + i - 1]
    BY <1>2
  <2> QED BY <2>1
<1>6. ToSet(r) = {s[i] : i \in m .. n}
  BY <1>3, <1>4, <1>5 DEF ToSet
<1> QED BY <1>6 DEF r

\* What is left of the connections after the first m of them.
LEMMA Suffix ==
    ASSUME NEW S, NEW s \in Seq(S), NEW m \in 0 .. Len(s)
    PROVE  LET r == SubSeq(s, m + 1, Len(s)) IN
           /\ r \in Seq(S)
           /\ r = <<>> <=> m = Len(s)
           /\ ToSet(r) = {s[i] : i \in m + 1 .. Len(s)}
           /\ ToSet(r) \subseteq ToSet(s)
           /\ r # <<>> => Head(r) = s[m + 1] /\ Tail(r) = SubSeq(s, m + 2, Len(s))
<1> DEFINE r == SubSeq(s, m + 1, Len(s))
<1>0. Len(s) \in Nat /\ m + 1 \in 1 .. Len(s) + 1 /\ Len(s) \in 0 .. Len(s)
  OBVIOUS
<1>1. \A i \in m + 1 .. Len(s) : s[i] \in S
  BY ElementOfSeq
<1>2. /\ r \in Seq(S)
      /\ Len(r) = IF m + 1 <= Len(s) THEN Len(s) - (m + 1) + 1 ELSE 0
  BY <1>0, <1>1, SubSeqProperties
<1>3. r = <<>> <=> m = Len(s)
  <2>1. r = <<>> <=> Len(r) = 0
    BY <1>2, EmptySeq, r # <<>> => Len(r) \in Nat \ {0}
  <2> QED BY <1>0, <1>2, <2>1
<1>4. ToSet(r) = {s[i] : i \in m + 1 .. Len(s)}
  BY <1>0, SubSeqToSet
<1>5. ToSet(r) \subseteq ToSet(s)
  BY <1>4 DEF ToSet
<1>6. ASSUME r # <<>> PROVE Head(r) = s[m + 1] /\ Tail(r) = SubSeq(s, m + 2, Len(s))
  <2>1. m + 1 \in 1 .. Len(s) /\ Len(s) \in m + 1 .. Len(s)
    BY <1>3, <1>6
  <2>2. (m + 1) + 1 = m + 2
    OBVIOUS
  <2> QED BY <2>1, <2>2, HeadTailOfSubSeq
<1> QED BY <1>2, <1>3, <1>4, <1>5, <1>6

\* The connections that a thread still has to end.
LEMMA Remaining ==
    ASSUME IndInv, NEW t \in Thread, pc[t] \in {"committing", "closing"}
    PROVE  /\ ToSet(remaining[t]) \subseteq Connections(t)
           /\ commitRemaining[t] => landed[t] \cap ToSet(remaining[t]) = {}
           /\ remaining[t] # <<>> =>
                 /\ Head(remaining[t]) \in Database
                 /\ Head(remaining[t]) \in Connections(t)
                 /\ ToSet(remaining[t]) = {Head(remaining[t])} \cup ToSet(Tail(remaining[t]))
                 /\ Head(remaining[t]) \notin ToSet(Tail(remaining[t]))
<1> DEFINE s == openConnections[t]
           r == remaining[t]
<1>1. s \in Seq(Database) /\ r \in Seq(Database)
  BY DEF IndInv, TypeOK
<1>2. \A i, j \in 1 .. Len(s) : s[i] = s[j] => i = j
  BY DEF IndInv, ConnectionInv
<1>3. PICK m, n \in 0 .. Len(s) :
                  /\ r = SubSeq(s, m + 1, Len(s))
                  /\ landed[t] = ToSet(SubSeq(s, 1, n))
                  /\ commitRemaining[t] => m = n
  BY DEF IndInv, ConnectionInv
<1> HIDE DEF s, r
<1>4. /\ r = <<>> <=> m = Len(s)
      /\ ToSet(r) = {s[i] : i \in m + 1 .. Len(s)}
      /\ ToSet(r) \subseteq ToSet(s)
      /\ r # <<>> => Head(r) = s[m + 1] /\ Tail(r) = SubSeq(s, m + 2, Len(s))
  BY <1>1, <1>3, Suffix
<1>5. landed[t] = {s[i] : i \in 1 .. n}
  <2>1. 1 \in 1 .. Len(s) + 1
    BY <1>1
  <2> QED BY <1>1, <1>3, <2>1, SubSeqToSet
<1>6. Len(s) \in Nat
  BY <1>1
<1>7. ASSUME commitRemaining[t] PROVE landed[t] \cap ToSet(r) = {}
  <2>1. m = n
    BY <1>3, <1>7
  <2> SUFFICES ASSUME NEW d \in landed[t] \cap ToSet(r) PROVE FALSE
    OBVIOUS
  <2>2. PICK i \in 1 .. m : d = s[i]
    BY <1>5, <2>1
  <2>3. PICK j \in m + 1 .. Len(s) : d = s[j]
    BY <1>4
  <2>4. i \in 1 .. Len(s) /\ j \in 1 .. Len(s) /\ i # j
    BY <1>6
  <2> QED BY <2>2, <2>3, <2>4, <1>2
<1>8. ASSUME r # <<>>
      PROVE  /\ Head(r) \in Database
             /\ ToSet(r) = {Head(r)} \cup ToSet(Tail(r))
             /\ Head(r) \notin ToSet(Tail(r))
  <2>1. Head(r) \in Database /\ ToSet(r) = {Head(r)} \cup ToSet(Tail(r))
    BY <1>1, <1>8, HeadTailToSet
  <2>2. m + 2 \in 1 .. Len(s) + 1 /\ Len(s) \in 0 .. Len(s) /\ m + 1 \in 1 .. Len(s)
    BY <1>4, <1>6, <1>8
  <2>3. ToSet(Tail(r)) = {s[i] : i \in m + 2 .. Len(s)}
    BY <1>1, <1>4, <1>8, <2>2, SubSeqToSet
  <2>4. ASSUME NEW i \in m + 2 .. Len(s) PROVE s[i] # Head(r)
    BY <2>2, <1>2, <1>4, <1>6, <1>8
  <2> QED BY <2>1, <2>3, <2>4
<1> QED BY <1>4, <1>7, <1>8, HeadTailToSet DEF Connections, s, r

\* The frame of AgreementInv: what is committed stays, and so does what a thread that is
\* in the middle of its commits has got.
LEMMA AgreementKept ==
    ASSUME AgreementInv, database' = database, ~partial' => ~partial,
           ~partial' => \A u \in Thread : Commits(u) /\ landed[u] # {} /\ remaining[u] # <<>> =>
              Commits(u)' /\ landed'[u] = landed[u] /\ remaining'[u] = remaining[u],
           \A u \in Thread : Commits(u)' /\ landed'[u] # {} =>
              /\ Commits(u)
              /\ landed'[u] = landed[u] /\ remaining'[u] = remaining[u]
              /\ op'[u] = op[u] /\ object'[u] = object[u]
    PROVE  AgreementInv'
<1> SUFFICES ASSUME ~partial' PROVE AgreementInv'
  BY DEF AgreementInv
<1>0. ~partial
  OBVIOUS
<1>1. ASSUME NEW t \in Thread, NEW p \in Table, NEW q \in Table,
             Commits(t)', DatabaseOf[p] \in landed'[t], DatabaseOf[q] \in ToSet(remaining'[t])
      PROVE  database'[p] = Changed(t, database[q])'
  <2>1. landed'[t] # {}
    BY <1>1
  <2>2. /\ Commits(t)
        /\ landed'[t] = landed[t] /\ remaining'[t] = remaining[t]
        /\ op'[t] = op[t] /\ object'[t] = object[t]
    BY <1>1, <2>1
  <2>3. database[p] = Changed(t, database[q])
    BY <1>0, <1>1, <2>2 DEF AgreementInv
  <2> QED BY <2>2, <2>3 DEF Changed
<1>2. ASSUME NEW p \in Table, NEW q \in Table, database'[p] # database'[q]
      PROVE  \E t \in Thread :
                  /\ Commits(t)'
                  /\ \/ DatabaseOf[p] \in landed'[t] /\ DatabaseOf[q] \in ToSet(remaining'[t])
                     \/ DatabaseOf[q] \in landed'[t] /\ DatabaseOf[p] \in ToSet(remaining'[t])
  <2>1. PICK t \in Thread :
                  /\ Commits(t)
                  /\ \/ DatabaseOf[p] \in landed[t] /\ DatabaseOf[q] \in ToSet(remaining[t])
                     \/ DatabaseOf[q] \in landed[t] /\ DatabaseOf[p] \in ToSet(remaining[t])
    BY <1>0, <1>2 DEF AgreementInv
  <2>2. landed[t] # {} /\ remaining[t] # <<>>
    BY <2>1, EmptyToSet
  <2> QED BY <2>1, <2>2
<1> QED BY <1>1, <1>2 DEF AgreementInv

\* The frame of CommitInv: nobody begins to commit, and a thread that commits remains the
\* writer of what it is the writer of.
LEMMA CommitKept ==
    ASSUME CommitInv, database' = database,
           \A u \in Thread : Commits(u)' =>
              /\ Commits(u)
              /\ landed'[u] = landed[u] /\ remaining'[u] = remaining[u]
              /\ op'[u] = op[u] /\ object'[u] = object[u],
           \A u \in Thread : Commits(u)' =>
              \A d \in ToSet(remaining[u]) : writing[d] = u => writing'[d] = u
    PROVE  CommitInv'
<1>1. ASSUME NEW t \in Thread, Commits(t)'
      PROVE  /\ \A p \in Table : DatabaseOf[p] \in landed'[t] \cup ToSet(remaining'[t])
             /\ \A d \in ToSet(remaining'[t]) : writing'[d] = t
             /\ (op'[t] = "remove" /\ remaining'[t] # <<>>) =>
                   \A p \in Table : DatabaseOf[p] \in landed'[t] => object'[t] \notin database'[p]
  BY <1>1 DEF CommitInv
<1>2. ASSUME NEW t \in Thread, NEW u \in Thread, Commits(t)', Commits(u)', t # u
      PROVE  remaining'[t] = <<>> \/ remaining'[u] = <<>>
  BY <1>2 DEF CommitInv
<1> QED BY <1>1, <1>2 DEF CommitInv

\* A call opens a request scope: size(), contains(), retrieve(), add(), remove(), iterator().
LEMMA IndBegin ==
    ASSUME IndInv, NEW t \in Thread,
           NEW f \in {"READ_REQUEST", "WRITE_REQUEST", "none"},
           NEW what \in {"read", "add", "remove"}, NEW o \in Object \cup {NoObject},
           NEW tables \in SUBSET Table,
           f = "READ_REQUEST" => what = "read", f = "WRITE_REQUEST" => what # "read",
           what = "add" => f = "WRITE_REQUEST",
           what # "read" => o \in Object /\ tables = Table,
           Begin(t, f, what, o, tables)
    PROVE  IndInv'
<1> USE DEF Begin
<1>1. TypeOK'
  BY DEF IndInv, TypeOK
<1>2. PhaseInv'
  BY DEF IndInv, TypeOK, PhaseInv
<1>3. Connections(t) = {}
  BY EmptyToSet DEF IndInv, PhaseInv, Connections
<1>4. ConnectionInv'
  BY DEF IndInv, TypeOK, ConnectionInv, Connections
<1>5. WriterInv'
  BY <1>3 DEF IndInv, TypeOK, WriterInv, Connections
<1>6. CommitInv'
  BY DEF IndInv, TypeOK, CommitInv, Commits
<1>7. SnapshotInv'
  BY <1>3 DEF IndInv, TypeOK, SnapshotInv, Connections
<1>8. WriteViewInv'
  <2> SUFFICES ASSUME NEW u \in Thread, NEW p \in Table, writing[DatabaseOf[p]] = u,
                      (pc[u] = "working" \/ Commits(u))'
               PROVE  (view[u][p] = IF p \in todo[u] THEN database[p] ELSE Changed(u, database[p]))'
    BY DEF WriteViewInv
  <2>1. u # t
    BY DEF IndInv, WriterInv
  <2> QED BY <2>1 DEF IndInv, TypeOK, WriteViewInv, Commits, Changed
<1>9. AgreementInv'
  <2>1. \A u \in Thread : Commits(u)' = Commits(u)
    BY DEF IndInv, TypeOK, Commits
  <2> QED BY <2>1, AgreementKept DEF IndInv, TypeOK, Commits
<1>10. TablesOfADatabaseAgree' /\ RemovalsLast'
  BY DEF IndInv, TablesOfADatabaseAgree, RemovalsLast
<1> QED BY <1>1, <1>2, <1>4, <1>5, <1>6, <1>7, <1>8, <1>9, <1>10 DEF IndInv
\* Iterator.remove() begins: the iterator has written nothing since its last commit.
LEMMA IndIteratorRemove ==
    ASSUME IndInv, NEW t \in Thread, NEW o \in Object, IteratorRemove(t, o)
    PROVE  IndInv'
<1> USE DEF IteratorRemove
<1>1. TypeOK'
  BY DEF IndInv, TypeOK
<1>2. PhaseInv'
  BY DEF IndInv, TypeOK, PhaseInv
<1>3. op[t] = "read" /\ flag[t] = "none" /\ \A d \in Database : writing[d] # t
  BY DEF IndInv, PhaseInv, WriterInv
<1>4. ConnectionInv'
  BY DEF IndInv, TypeOK, ConnectionInv, Connections
<1>5. WriterInv'
  BY <1>3 DEF IndInv, TypeOK, WriterInv, Connections
<1>6. \A u \in Thread : /\ Commits(u)' = Commits(u)
                        /\ Commits(u) => op'[u] = op[u] /\ object'[u] = object[u]
  BY DEF IndInv, TypeOK, Commits
<1>7. CommitInv'
  BY <1>6, CommitKept DEF IndInv
<1>8. SnapshotInv'
  BY DEF IndInv, TypeOK, SnapshotInv, Connections
<1>9. WriteViewInv'
  <2> SUFFICES ASSUME NEW u \in Thread, NEW p \in Table, writing[DatabaseOf[p]] = u,
                      (pc[u] = "working" \/ Commits(u))'
               PROVE  (view[u][p] = IF p \in todo[u] THEN database[p] ELSE Changed(u, database[p]))'
    BY DEF WriteViewInv
  <2>1. u # t
    BY <1>3
  <2> QED BY <2>1 DEF IndInv, TypeOK, WriteViewInv, Commits, Changed
<1>10. AgreementInv'
  BY <1>6, AgreementKept DEF IndInv
<1>11. TablesOfADatabaseAgree' /\ RemovalsLast'
  BY DEF IndInv, TablesOfADatabaseAgree, RemovalsLast
<1> QED BY <1>1, <1>2, <1>4, <1>5, <1>7, <1>8, <1>9, <1>10, <1>11 DEF IndInv

\* A table is read.
LEMMA IndReadTable ==
    ASSUME IndInv, NEW t \in Thread, NEW p \in Table, ReadTable(t, p)
    PROVE  IndInv'
<1> USE DEF ReadTable
<1>1. TypeOK'
  BY DEF IndInv, TypeOK
<1>2. PhaseInv'
  BY DEF IndInv, TypeOK, PhaseInv
<1>3. \A d \in Database : writing[d] # t
  BY DEF IndInv, WriterInv
<1>4. ConnectionInv'
  BY DEF IndInv, TypeOK, ConnectionInv, Connections
<1>5. WriterInv'
  BY <1>3 DEF IndInv, TypeOK, WriterInv, Connections
<1>6. \A u \in Thread : Commits(u)' = Commits(u)
  BY DEF IndInv, TypeOK, Commits
<1>7. CommitInv'
  BY <1>6, CommitKept DEF IndInv
<1>8. SnapshotInv'
  BY DEF IndInv, TypeOK, SnapshotInv, Connections
<1>9. WriteViewInv'
  <2> SUFFICES ASSUME NEW u \in Thread, NEW q \in Table, writing[DatabaseOf[q]] = u,
                      (pc[u] = "working" \/ Commits(u))'
               PROVE  (view[u][q] = IF q \in todo[u] THEN database[q] ELSE Changed(u, database[q]))'
    BY DEF WriteViewInv
  <2>1. u # t
    BY <1>3
  <2> QED BY <2>1 DEF IndInv, TypeOK, WriteViewInv, Commits, Changed
<1>10. AgreementInv'
  BY <1>6, AgreementKept DEF IndInv
<1>11. TablesOfADatabaseAgree' /\ RemovalsLast'
  BY DEF IndInv, TablesOfADatabaseAgree, RemovalsLast
<1> QED BY <1>1, <1>2, <1>4, <1>5, <1>7, <1>8, <1>9, <1>10, <1>11 DEF IndInv

\* A thread that has changed every table is the only one that can be committing.
LEMMA AllWritten ==
    ASSUME IndInv, NEW t \in Thread, pc[t] = "working", op[t] # "read", todo[t] = {}
    PROVE  /\ landed[t] = {}
           /\ \A p \in Table : writing[DatabaseOf[p]] = t /\ DatabaseOf[p] \in Connections(t)
           /\ \A d \in Connections(t) : writing[d] = t
           /\ \A u \in Thread \ {t} : Commits(u) => remaining[u] = <<>>
<1>1. landed[t] = {}
  BY DEF IndInv, PhaseInv
<1>2. \A p \in Table : writing[DatabaseOf[p]] = t /\ DatabaseOf[p] \in Connections(t)
  BY DEF IndInv, WriterInv
<1>3. \A d \in Connections(t) : writing[d] = t
  BY <1>2 DEF IndInv, ConnectionInv
<1>4. ASSUME NEW u \in Thread \ {t}, Commits(u), remaining[u] # <<>> PROVE FALSE
  <2>1. Head(remaining[u]) \in ToSet(remaining[u]) /\ Head(remaining[u]) \in Connections(u)
    BY <1>4, Remaining DEF Commits
  <2>2. PICK p \in Table : Head(remaining[u]) = DatabaseOf[p]
    BY <2>1 DEF IndInv, ConnectionInv
  <2> QED BY <1>2, <1>4, <2>1, <2>2 DEF IndInv, CommitInv
<1> QED BY <1>1, <1>2, <1>3, <1>4

\* CommitInv and AgreementInv when t turns to its connections.
LEMMA CommitBegins ==
    ASSUME IndInv, NEW t \in Thread,
           UNCHANGED <<database, writing, op, object, landed, partial>>,
           \A u \in Thread \ {t} : Commits(u)' = Commits(u) /\ remaining'[u] = remaining[u],
           Commits(t) => remaining[t] = <<>>,
           Commits(t)' => /\ remaining'[t] = openConnections[t]
                          /\ pc[t] = "working" /\ todo[t] = {}
    PROVE  CommitInv' /\ AgreementInv'
<1>1. CASE Commits(t)'
  <2>1. op[t] # "read" /\ ToSet(remaining'[t]) = Connections(t)
    BY <1>1 DEF Commits, Connections
  <2>2. /\ landed[t] = {}
        /\ \A p \in Table : writing[DatabaseOf[p]] = t /\ DatabaseOf[p] \in Connections(t)
        /\ \A d \in Connections(t) : writing[d] = t
        /\ \A u \in Thread \ {t} : Commits(u) => remaining[u] = <<>>
    BY <1>1, <2>1, AllWritten
  <2>3. CommitInv'
    BY <1>1, <2>1, <2>2 DEF IndInv, CommitInv
  <2> QED BY <2>2, <2>3, AgreementKept DEF IndInv
<1>2. CASE ~Commits(t)'
  <2>1. CommitInv'
    BY <1>2, CommitKept DEF IndInv
  <2> QED BY <1>2, <2>1, AgreementKept DEF IndInv
<1> QED BY <1>1, <1>2

\* The end of a request: commit, or after an exception rollback.  A request whose
\* changes are going to be committed has completed them.
LEMMA IndCloseScope ==
    ASSUME IndInv, NEW t \in Thread, NEW commit \in BOOLEAN, NEW throw \in BOOLEAN,
           CloseScope(t, commit, throw), commit \/ throw,
           \/ pc[t] = "working" /\ (commit => todo[t] = {})
           \/ pc[t] = "between"
           \/ pc[t] = "committing" /\ remaining[t] = <<>> /\ ~commit
    PROVE  IndInv'
<1> USE DEF CloseScope
<1>1. TypeOK'
  BY DEF IndInv, TypeOK
<1>2. PhaseInv'
  BY DEF IndInv, TypeOK, PhaseInv
<1>3. ToSet(remaining'[t]) = Connections(t) /\ Connections(t)' = Connections(t)
  BY DEF IndInv, TypeOK, Connections
<1>4. ConnectionInv'
  <2> SUFFICES ASSUME NEW u \in Thread, pc'[u] \in {"committing", "closing"}
               PROVE  \E m, n \in 0 .. Len(openConnections[u]) :
                        /\ remaining'[u] = SubSeq(openConnections[u], m + 1, Len(openConnections[u]))
                        /\ landed[u] = ToSet(SubSeq(openConnections[u], 1, n))
                        /\ commitRemaining'[u] => m = n
                        /\ ~failed'[u] => commitRemaining'[u]
    BY ZenonT(30) DEF IndInv, TypeOK, ConnectionInv, Connections
  <2>1. CASE u # t
    BY <2>1 DEF IndInv, TypeOK, ConnectionInv
  <2>2. CASE u = t
    <3> DEFINE s == openConnections[t]
    <3>1. s \in Seq(Database) /\ Len(s) \in Nat
      BY DEF IndInv, TypeOK
    <3>2. remaining'[t] = SubSeq(s, 0 + 1, Len(s))
      BY <3>1, SubSeqFull DEF IndInv, TypeOK
    <3>3. commitRemaining'[t] = commit /\ failed'[t] = throw
      BY DEF IndInv, TypeOK
    <3>4. CASE pc[t] = "committing"
      <4>1. PICK n \in 0 .. Len(s) : landed[t] = ToSet(SubSeq(s, 1, n))
        BY <3>4 DEF IndInv, ConnectionInv
      <4> QED BY <2>2, <3>1, <3>2, <3>3, <3>4, <4>1
    <3>5. CASE pc[t] # "committing"
      <4>0. SubSeq(s, 1, 0) = <<>>
        BY SubSeqEmpty
      <4>1. landed[t] = ToSet(SubSeq(s, 1, 0))
        BY <3>5, <4>0, EmptyToSet DEF IndInv, PhaseInv
      <4> QED BY <2>2, <3>1, <3>2, <3>3, <3>5, <4>1
    <3> QED BY <3>4, <3>5
  <2> QED BY <2>1, <2>2
<1>5. WriterInv'
  BY <1>3, EmptyToSet DEF IndInv, TypeOK, PhaseInv, WriterInv, Connections
<1>6. Commits(t)' => pc[t] = "working" /\ todo[t] = {}
  BY DEF IndInv, TypeOK, PhaseInv, Commits
<1>7. /\ \A u \in Thread \ {t} : Commits(u)' = Commits(u) /\ remaining'[u] = remaining[u]
      /\ remaining'[t] = openConnections[t]
      /\ Commits(t) => remaining[t] = <<>>
  BY DEF IndInv, TypeOK, Commits
<1>8. CommitInv' /\ AgreementInv'
  BY <1>6, <1>7, CommitBegins
<1>9. SnapshotInv'
  BY DEF IndInv, TypeOK, SnapshotInv, Connections
<1>10. WriteViewInv'
  <2> SUFFICES ASSUME NEW u \in Thread, NEW q \in Table, writing[DatabaseOf[q]] = u,
                      (pc[u] = "working" \/ Commits(u))'
               PROVE  (view[u][q] = IF q \in todo[u] THEN database[q] ELSE Changed(u, database[q]))'
    BY DEF WriteViewInv
  <2>1. CASE u = t
    BY <1>6, <2>1 DEF IndInv, TypeOK, WriteViewInv, Changed
  <2>2. CASE u # t
    BY <1>7, <2>2, ZenonT(30) DEF IndInv, TypeOK, WriteViewInv, Changed
  <2> QED BY <2>1, <2>2
<1>11. TablesOfADatabaseAgree' /\ RemovalsLast'
  BY DEF IndInv, TablesOfADatabaseAgree, RemovalsLast
<1> QED BY <1>1, <1>2, <1>4, <1>5, <1>8, <1>9, <1>10, <1>11 DEF IndInv

\* The work of a request is done; of Iterator.remove(), the commits begin.
LEMMA IndRequestSucceeds ==
    ASSUME IndInv, NEW t \in Thread, RequestSucceeds(t)
    PROVE  IndInv'
<1>1. CASE flag[t] # "none"
  <2>1. CloseScope(t, TRUE, FALSE) /\ pc[t] = "working" /\ todo[t] = {}
    BY <1>1 DEF RequestSucceeds
  <2> QED BY <2>1, IndCloseScope
<1>2. CASE flag[t] = "none"
  <2> DEFINE reads == op[t] = "read"
  <2>0. /\ pc[t] = "working" /\ todo[t] = {}
        /\ pc' = [pc EXCEPT ![t] = IF reads THEN "between" ELSE "committing"]
        /\ remaining' = [remaining EXCEPT ![t] = IF reads THEN <<>> ELSE openConnections[t]]
        /\ commitRemaining' = [commitRemaining EXCEPT ![t] = op[t] # "read"]
        /\ UNCHANGED <<database, writing, flag, op, object, todo, openConnections, view,
                       stale, failed, landed, confirmed, partial>>
    BY <1>2 DEF RequestSucceeds
  <2>1. TypeOK'
    <3>1. (op[t] # "read") \in BOOLEAN
      OBVIOUS
    <3>2. commitRemaining' \in [Thread -> BOOLEAN]
      BY <2>0, <3>1 DEF IndInv, TypeOK
    <3> QED BY <2>0, <3>2 DEF IndInv, TypeOK
  <2>2. PhaseInv'
    BY <1>2, <2>0 DEF IndInv, TypeOK, PhaseInv
  <2>3. Connections(t)' = Connections(t)
        /\ (~reads => ToSet(remaining'[t]) = Connections(t) /\ commitRemaining'[t])
    BY <2>0 DEF IndInv, TypeOK, Connections
  <2>4. ConnectionInv'
    <3> SUFFICES ASSUME NEW u \in Thread, pc'[u] \in {"committing", "closing"}
                 PROVE  \E m, n \in 0 .. Len(openConnections[u]) :
                          /\ remaining'[u] = SubSeq(openConnections[u], m + 1, Len(openConnections[u]))
                          /\ landed[u] = ToSet(SubSeq(openConnections[u], 1, n))
                          /\ commitRemaining'[u] => m = n
                          /\ ~failed'[u] => commitRemaining'[u]
      BY <2>0 DEF IndInv, TypeOK, ConnectionInv, Connections
    <3>1. CASE u # t
      BY <2>0, <3>1 DEF IndInv, TypeOK, ConnectionInv
    <3>2. CASE u = t
      <4> DEFINE s == openConnections[t]
      <4>1. s \in Seq(Database) /\ Len(s) \in Nat /\ ~reads
        BY <2>0, <3>2 DEF IndInv, TypeOK
      <4>2. remaining'[t] = SubSeq(s, 0 + 1, Len(s))
        BY <2>0, <4>1, SubSeqFull DEF IndInv, TypeOK
      <4>3. SubSeq(s, 1, 0) = <<>>
        BY SubSeqEmpty
      <4>4. landed[t] = ToSet(SubSeq(s, 1, 0))
        BY <2>0, <4>3, EmptyToSet DEF IndInv, PhaseInv
      <4> QED BY <2>3, <3>2, <4>1, <4>2, <4>4
    <3> QED BY <3>1, <3>2
  <2>5. WriterInv'
    BY <2>0, <2>3 DEF IndInv, TypeOK, PhaseInv, WriterInv, Connections
  <2>6. /\ \A u \in Thread \ {t} : Commits(u)' = Commits(u) /\ remaining'[u] = remaining[u]
        /\ Commits(t)' => remaining'[t] = openConnections[t]
        /\ ~Commits(t)
    BY <2>0 DEF IndInv, TypeOK, Commits
  <2>7. CommitInv' /\ AgreementInv'
    BY <2>0, <2>6, CommitBegins
  <2>8. SnapshotInv'
    BY <2>0 DEF IndInv, TypeOK, SnapshotInv, Connections
  <2>9. WriteViewInv'
    <3> SUFFICES ASSUME NEW u \in Thread, NEW q \in Table, writing[DatabaseOf[q]] = u,
                        (pc[u] = "working" \/ Commits(u))'
                 PROVE  (view[u][q] = IF q \in todo[u] THEN database[q] ELSE Changed(u, database[q]))'
      BY <2>0 DEF WriteViewInv
    <3>1. CASE u = t
      BY <2>0, <3>1 DEF IndInv, TypeOK, WriteViewInv, Changed
    <3>2. CASE u # t
      BY <2>0, <2>6, <3>2, ZenonT(30) DEF IndInv, TypeOK, WriteViewInv, Changed
    <3> QED BY <3>1, <3>2
  <2>10. TablesOfADatabaseAgree' /\ RemovalsLast'
    BY <2>0 DEF IndInv, TablesOfADatabaseAgree, RemovalsLast
  <2> QED BY <2>1, <2>2, <2>4, <2>5, <2>7, <2>8, <2>9, <2>10 DEF IndInv
<1> QED BY <1>1, <1>2

\* Iterator.remove() returns and leaves the iterator open, or fails and closes it.
LEMMA IndRemoveReturns ==
    ASSUME IndInv, NEW t \in Thread, RemoveReturns(t)
    PROVE  IndInv'
<1>0. pc[t] = "committing" /\ remaining[t] = <<>>
  BY DEF RemoveReturns
<1>1. CASE failed[t]
  BY <1>0, <1>1, IndCloseScope DEF RemoveReturns
<1>2. CASE ~failed[t]
  <2>0. /\ pc' = [pc EXCEPT ![t] = "between"]
        /\ op' = [op EXCEPT ![t] = "read"]
        /\ object' = [object EXCEPT ![t] = NoObject]
        /\ landed' = [landed EXCEPT ![t] = {}]
        /\ UNCHANGED <<database, writing, flag, todo, openConnections, view, stale,
                       remaining, commitRemaining, failed, confirmed, partial>>
    BY <1>2 DEF RemoveReturns
  <2>1. TypeOK'
    BY <2>0 DEF IndInv, TypeOK
  <2>2. PhaseInv'
    BY <1>0, <1>2, <2>0 DEF IndInv, TypeOK, PhaseInv
  <2>3. \A d \in Database : writing[d] # t
    BY <1>0, EmptyToSet DEF IndInv, WriterInv
  <2>4. ConnectionInv'
    BY <2>0 DEF IndInv, TypeOK, ConnectionInv, Connections
  <2>5. WriterInv'
    BY <2>0, <2>3 DEF IndInv, TypeOK, WriterInv, Connections
  <2>6. /\ ~Commits(t)'
        /\ \A u \in Thread \ {t} : /\ Commits(u)' = Commits(u) /\ landed'[u] = landed[u]
                                    /\ op'[u] = op[u] /\ object'[u] = object[u]
    BY <2>0 DEF IndInv, TypeOK, Commits
  <2>7. CommitInv'
    BY <2>0, <2>6, CommitKept DEF IndInv
  <2>8. SnapshotInv'
    BY <1>0, <2>0 DEF IndInv, TypeOK, SnapshotInv, Connections
  <2>9. WriteViewInv'
    <3> SUFFICES ASSUME NEW u \in Thread, NEW q \in Table, writing[DatabaseOf[q]] = u,
                        (pc[u] = "working" \/ Commits(u))'
                 PROVE  (view[u][q] = IF q \in todo[u] THEN database[q] ELSE Changed(u, database[q]))'
      BY <2>0 DEF WriteViewInv
    <3>1. u # t
      BY <2>3
    <3>2. pc[u] = "working" \/ Commits(u)
      BY <2>0, <2>6, <3>1 DEF IndInv, TypeOK
    <3>3. view[u][q] = IF q \in todo[u] THEN database[q] ELSE Changed(u, database[q])
      BY <3>2 DEF IndInv, WriteViewInv
    <3> QED BY <2>0, <2>6, <3>1, <3>3 DEF Changed
  <2>10. AgreementInv'
    BY <1>0, <2>0, <2>6, AgreementKept DEF IndInv
  <2>11. TablesOfADatabaseAgree' /\ RemovalsLast'
    BY <2>0 DEF IndInv, TablesOfADatabaseAgree, RemovalsLast
  <2> QED BY <2>1, <2>2, <2>4, <2>5, <2>7, <2>8, <2>9, <2>10, <2>11 DEF IndInv
<1> QED BY <1>1, <1>2

\* The call is over; its connections are closed.
LEMMA IndReturn ==
    ASSUME IndInv, NEW t \in Thread, Return(t)
    PROVE  IndInv'
<1> USE DEF Return
<1>1. TypeOK'
  BY DEF IndInv, TypeOK
<1>2. PhaseInv'
  BY DEF IndInv, TypeOK, PhaseInv
<1>3. \A d \in Database : writing[d] # t
  BY EmptyToSet DEF IndInv, WriterInv
<1>4. ConnectionInv'
  BY EmptyToSet DEF IndInv, TypeOK, ConnectionInv, Connections
<1>5. WriterInv'
  BY <1>3 DEF IndInv, TypeOK, WriterInv, Connections
<1>6. /\ ~Commits(t)'
      /\ \A u \in Thread \ {t} : /\ Commits(u)' = Commits(u) /\ landed'[u] = landed[u]
                                  /\ op'[u] = op[u] /\ object'[u] = object[u]
  BY DEF IndInv, TypeOK, Commits
<1>7. CommitInv'
  BY <1>6, CommitKept DEF IndInv
<1>8. SnapshotInv'
  BY DEF IndInv, TypeOK, SnapshotInv, Connections
<1>9. WriteViewInv'
  <2> SUFFICES ASSUME NEW u \in Thread, NEW q \in Table, writing[DatabaseOf[q]] = u,
                      (pc[u] = "working" \/ Commits(u))'
               PROVE  (view[u][q] = IF q \in todo[u] THEN database[q] ELSE Changed(u, database[q]))'
    BY DEF WriteViewInv
  <2>1. u # t
    BY <1>3
  <2>2. pc[u] = "working" \/ Commits(u)
    BY <1>6, <2>1 DEF IndInv, TypeOK
  <2>3. view[u][q] = IF q \in todo[u] THEN database[q] ELSE Changed(u, database[q])
    BY <2>2 DEF IndInv, WriteViewInv
  <2> QED BY <1>6, <2>1, <2>3 DEF IndInv, TypeOK, Changed
<1>10. AgreementInv'
  BY <1>6, AgreementKept DEF IndInv
<1>11. TablesOfADatabaseAgree' /\ RemovalsLast'
  BY DEF IndInv, TypeOK, TablesOfADatabaseAgree, RemovalsLast
<1> QED BY <1>1, <1>2, <1>4, <1>5, <1>7, <1>8, <1>9, <1>10, <1>11 DEF IndInv
\* A connection is opened: the transaction of a write request sees what is committed,
\* and excludes other writers.
LEMMA IndOpenConnection ==
    ASSUME IndInv, NEW t \in Thread, NEW p \in Table, OpenConnection(t, p)
    PROVE  IndInv'
<1> DEFINE d == DatabaseOf[p]
           immediate == flag[t] = "WRITE_REQUEST"
<1>0. /\ d \in Database /\ d \notin Connections(t) /\ pc[t] = "working"
      /\ immediate => writing[d] = NoThread
      /\ writing' = IF immediate THEN [writing EXCEPT ![d] = t] ELSE writing
      /\ openConnections' = [openConnections EXCEPT ![t] = Append(@, d)]
      /\ view' = IF flag[t] = "READ_REQUEST" THEN view ELSE [view EXCEPT ![t] = Refreshed(t, d)]
      /\ UNCHANGED <<database, pc, flag, op, object, todo, stale, remaining, commitRemaining,
                     failed, landed, confirmed, partial>>
  BY DEF OpenConnection
<1> HIDE DEF d
<1>1. TypeOK'
  <2>1. Refreshed(t, d) \in [Table -> SUBSET Object]
    BY DEF IndInv, TypeOK, Refreshed
  <2>2. Append(openConnections[t], d) \in Seq(Database)
    BY <1>0 DEF IndInv, TypeOK
  <2> QED BY <1>0, <2>1, <2>2 DEF IndInv, TypeOK
<1>2. PhaseInv'
  BY <1>0 DEF IndInv, TypeOK, PhaseInv
<1>3. /\ openConnections'[t] = Append(openConnections[t], d)
      /\ Connections(t)' = Connections(t) \cup {d}
      /\ \A u \in Thread \ {t} : Connections(u)' = Connections(u)
  BY <1>0, AppendToSet DEF IndInv, TypeOK, Connections
<1>4. ConnectionInv'
  <2>1. ASSUME NEW i \in 1 .. Len(openConnections'[t]), NEW j \in 1 .. Len(openConnections'[t]),
               openConnections'[t][i] = openConnections'[t][j]
        PROVE  i = j
    <3> DEFINE s == openConnections[t]
    <3>1. s \in Seq(Database) /\ \A k \in 1 .. Len(s) : s[k] # d
      BY <1>0 DEF IndInv, TypeOK, Connections, ToSet
    <3>2. \A k, l \in 1 .. Len(s) : s[k] = s[l] => k = l
      BY DEF IndInv, ConnectionInv
    <3> HIDE DEF s
    <3>3. openConnections'[t] = Append(s, d)
      BY <1>3 DEF s
    <3> QED BY <1>0, <2>1, <3>1, <3>2, <3>3
  <2>2. \A u \in Thread \ {t} : openConnections'[u] = openConnections[u]
    BY <1>0 DEF IndInv, TypeOK
  <2>3. \A u \in Thread : \A e \in Connections(u)' : \E q \in Table : e = DatabaseOf[q]
    BY <1>3 DEF IndInv, ConnectionInv, d
  <2>4. ASSUME NEW u \in Thread, pc[u] \in {"committing", "closing"} PROVE u # t
    BY <1>0, <2>4
  <2> QED BY <1>0, <2>1, <2>2, <2>3, <2>4 DEF IndInv, ConnectionInv
<1>5. writing[d] # t
  BY <1>0 DEF IndInv, WriterInv
<1>6. WriterInv'
  <2> SUFFICES ASSUME NEW u \in Thread, NEW e \in Database
               PROVE  /\ writing'[e] = u =>
                          /\ op[u] # "read"
                          /\ pc[u] \in {"working", "committing", "closing"}
                          /\ e \in IF pc[u] = "working" THEN Connections(u)' ELSE ToSet(remaining[u])
                      /\ (pc[u] = "working" /\ flag[u] = "WRITE_REQUEST" /\ e \in Connections(u)') =>
                          writing'[e] = u
                      /\ (pc[u] = "working" /\ op[u] # "read" /\ writing'[e] # u) =>
                          \A q \in Table : DatabaseOf[q] = e => q \in todo[u]
    BY <1>0 DEF WriterInv
  <2>1. CASE u = t /\ e = d
    BY <1>0, <1>3, <1>5, <2>1 DEF IndInv, TypeOK, PhaseInv, WriterInv
  <2>2. CASE u # t \/ e # d
    <3>1. writing'[e] = u <=> writing[e] = u
      BY <1>0, <2>2 DEF IndInv, TypeOK
    <3>2. e \in Connections(u)' <=> e \in Connections(u)
      BY <1>3, <2>2
    <3> QED BY <3>1, <3>2 DEF IndInv, WriterInv
  <2> QED BY <2>1, <2>2
<1>7. \A u \in Thread : Commits(u)' <=> Commits(u)
  BY <1>0 DEF Commits
<1>8. \A u \in Thread, e \in Database : writing[e] = u => writing'[e] = u
  BY <1>0 DEF IndInv, TypeOK
<1>9. CommitInv'
  <2>1. ASSUME NEW u \in Thread, Commits(u) PROVE ToSet(remaining[u]) \subseteq Database
    BY DEF IndInv, TypeOK, ToSet
  <2> QED BY <1>0, <1>7, <1>8, <2>1, CommitKept DEF IndInv
<1>10. ASSUME NEW u \in Thread, NEW q \in Table, u # t \/ DatabaseOf[q] # d
       PROVE  view'[u][q] = view[u][q] /\ (writing'[DatabaseOf[q]] = u <=> writing[DatabaseOf[q]] = u)
  BY <1>0, <1>10 DEF IndInv, TypeOK, Refreshed
<1>11. ASSUME NEW q \in Table, DatabaseOf[q] = d, flag[t] # "READ_REQUEST"
       PROVE  view'[t][q] = database[q]
  BY <1>0, <1>11 DEF IndInv, TypeOK, Refreshed
<1>12. SnapshotInv'
  <2> SUFFICES ASSUME NEW u \in Thread, NEW q \in Table, flag[u] = "none",
                      pc[u] \in {"working", "between", "committing"},
                      DatabaseOf[q] \in Connections(u)' \ stale[u],
                      writing'[DatabaseOf[q]] # u
               PROVE  view'[u][q] = database[q]
    BY <1>0 DEF SnapshotInv
  <2>1. CASE u = t /\ DatabaseOf[q] = d
    BY <1>11, <2>1
  <2>2. CASE u # t \/ DatabaseOf[q] # d
    BY <1>3, <1>10, <2>2 DEF IndInv, SnapshotInv
  <2> QED BY <2>1, <2>2
<1>13. WriteViewInv'
  <2> SUFFICES ASSUME NEW u \in Thread, NEW q \in Table, writing'[DatabaseOf[q]] = u,
                      (pc[u] = "working" \/ Commits(u))'
               PROVE  (view[u][q] = IF q \in todo[u] THEN database[q] ELSE Changed(u, database[q]))'
    BY DEF WriteViewInv
  <2>0. pc[u] = "working" \/ Commits(u)
    BY <1>0, <1>7
  <2> SUFFICES view'[u][q] = IF q \in todo[u] THEN database[q] ELSE Changed(u, database[q])
    BY <1>0 DEF Changed
  <2>1. CASE u = t /\ DatabaseOf[q] = d
    <3>1. immediate
      BY <1>0, <1>5, <2>1
    <3>2. q \in todo[t]
      BY <1>0, <1>5, <2>1, <3>1 DEF IndInv, PhaseInv, WriterInv
    <3> QED BY <1>11, <2>1, <3>1, <3>2
  <2>2. CASE u # t \/ DatabaseOf[q] # d
    BY <1>10, <2>0, <2>2 DEF IndInv, WriteViewInv
  <2> QED BY <2>1, <2>2
<1>14. AgreementInv'
  BY <1>0, <1>7, AgreementKept DEF IndInv
<1>15. TablesOfADatabaseAgree' /\ RemovalsLast'
  BY <1>0 DEF IndInv, TablesOfADatabaseAgree, RemovalsLast
<1> QED BY <1>1, <1>2, <1>4, <1>6, <1>9, <1>12, <1>13, <1>14, <1>15 DEF IndInv

\* A table is changed: the first time on top of what is committed, later on top of the
\* own changes.
LEMMA IndChangeTable ==
    ASSUME IndInv, NEW t \in Thread, NEW p \in Table, ChangeTable(t, p)
    PROVE  IndInv'
<1> DEFINE d == DatabaseOf[p]
           seen == IF ReadsAnew(t, d) THEN Refreshed(t, d) ELSE view[t]
<1>0. /\ d \in Database /\ d \in Connections(t) /\ pc[t] = "working" /\ op[t] # "read"
      /\ p \in todo[t]
      /\ MayWrite(t, d)
      /\ writing' = [writing EXCEPT ![d] = t]
      /\ view' = [view EXCEPT ![t] = [seen EXCEPT ![p] = Changed(t, @)]]
      /\ stale' = [stale EXCEPT ![t] = @ \ {d}]
      /\ todo' = [todo EXCEPT ![t] = @ \ {p}]
      /\ UNCHANGED <<database, pc, flag, op, object, openConnections, remaining,
                     commitRemaining, failed, landed, confirmed, partial>>
  BY DEF ChangeTable, ChangeView, MayAccess
<1>1. seen \in [Table -> SUBSET Object]
  BY DEF IndInv, TypeOK, Refreshed
<1>2. \A q \in Table : DatabaseOf[q] # d => seen[q] = view[t][q]
  BY DEF Refreshed
<1>3. ASSUME NEW q \in Table, DatabaseOf[q] = d
      PROVE  seen[q] = IF q \in todo[t] THEN database[q] ELSE Changed(t, database[q])
  <2>1. CASE writing[d] = t
    BY <1>0, <1>3, <2>1 DEF IndInv, WriteViewInv, ReadsAnew
  <2>2. CASE writing[d] # t
    <3>1. q \in todo[t]
      BY <1>0, <1>3, <2>2 DEF IndInv, WriterInv
    <3>2. CASE ReadsAnew(t, d)
      BY <1>3, <3>1, <3>2 DEF Refreshed
    <3>3. CASE ~ReadsAnew(t, d)
      <4>1. d \notin stale[t]
        BY <1>0, <2>2, <3>3 DEF MayWrite
      <4>2. flag[t] = "none"
        BY <1>0, <2>2 DEF IndInv, TypeOK, PhaseInv, WriterInv
      <4>3. view[t][q] = database[q]
        BY <1>0, <1>3, <2>2, <4>1, <4>2 DEF IndInv, SnapshotInv
      <4> QED BY <3>1, <3>3, <4>3
    <3> QED BY <3>2, <3>3
  <2> QED BY <2>1, <2>2
<1> HIDE DEF d, seen
<1>4. TypeOK'
  <2>1. Changed(t, seen[p]) \in SUBSET Object
    BY <1>0, <1>1 DEF IndInv, PhaseInv, Changed
  <2>2. [seen EXCEPT ![p] = Changed(t, @)] \in [Table -> SUBSET Object]
    BY <1>1, <2>1
  <2> QED BY <1>0, <2>2 DEF IndInv, TypeOK
<1>5. PhaseInv'
  BY <1>0 DEF IndInv, TypeOK, PhaseInv
<1>6. ConnectionInv'
  BY <1>0 DEF IndInv, ConnectionInv, Connections
<1>7. writing[d] = t \/ writing[d] = NoThread
  BY <1>0 DEF MayWrite
<1>8. WriterInv'
  BY <1>0, <1>7 DEF IndInv, TypeOK, WriterInv, Connections, d
<1>9. \A u \in Thread : Commits(u)' <=> Commits(u)
  BY <1>0 DEF Commits
<1>10. \A u \in Thread, e \in Database : writing[e] = u => writing'[e] = u
  BY <1>0, <1>7 DEF IndInv, TypeOK
<1>11. CommitInv'
  <2>1. ASSUME NEW u \in Thread, Commits(u) PROVE ToSet(remaining[u]) \subseteq Database
    BY DEF IndInv, TypeOK, ToSet
  <2> QED BY <1>0, <1>9, <1>10, <2>1, CommitKept DEF IndInv
<1>12. ASSUME NEW u \in Thread, NEW q \in Table, u # t \/ DatabaseOf[q] # d
       PROVE  /\ view'[u][q] = view[u][q]
              /\ writing'[DatabaseOf[q]] = u <=> writing[DatabaseOf[q]] = u
              /\ DatabaseOf[q] \in stale'[u] <=> DatabaseOf[q] \in stale[u]
              /\ q \in todo'[u] <=> q \in todo[u]
  <2>1. CASE u # t
    BY <1>0, <1>7, <2>1 DEF IndInv, TypeOK
  <2>2. CASE u = t /\ DatabaseOf[q] # d
    <3>1. q # p
      BY <2>2 DEF d
    <3>2. view'[t][q] = view[t][q]
      BY <1>0, <1>1, <1>2, <2>2, <3>1 DEF IndInv, TypeOK
    <3> QED BY <1>0, <2>2, <3>1, <3>2 DEF IndInv, TypeOK
  <2> QED BY <1>12, <2>1, <2>2
<1>13. SnapshotInv'
  <2> SUFFICES ASSUME NEW u \in Thread, NEW q \in Table, flag[u] = "none",
                      pc[u] \in {"working", "between", "committing"},
                      DatabaseOf[q] \in Connections(u) \ stale'[u],
                      writing'[DatabaseOf[q]] # u
               PROVE  view'[u][q] = database[q]
    BY <1>0 DEF SnapshotInv, Connections
  <2>1. u # t \/ DatabaseOf[q] # d
    BY <1>0 DEF IndInv, TypeOK
  <2> QED BY <1>12, <2>1 DEF IndInv, SnapshotInv
<1>14. WriteViewInv'
  <2> SUFFICES ASSUME NEW u \in Thread, NEW q \in Table, writing'[DatabaseOf[q]] = u,
                      (pc[u] = "working" \/ Commits(u))'
               PROVE  (view[u][q] = IF q \in todo[u] THEN database[q] ELSE Changed(u, database[q]))'
    BY DEF WriteViewInv
  <2>0. pc[u] = "working" \/ Commits(u)
    BY <1>0, <1>9
  <2> SUFFICES view'[u][q] = IF q \in todo'[u] THEN database[q] ELSE Changed(u, database[q])
    BY <1>0 DEF Changed
  <2>1. CASE u = t /\ DatabaseOf[q] = d
    <3>1. view'[t][q] = IF q = p THEN Changed(t, seen[p]) ELSE seen[q]
      BY <1>0, <1>1 DEF IndInv, TypeOK
    <3>2. q \in todo'[t] <=> q \in todo[t] /\ q # p
      BY <1>0 DEF IndInv, TypeOK
    <3> QED BY <1>0, <1>3, <2>1, <3>1, <3>2
  <2>2. CASE u # t \/ DatabaseOf[q] # d
    BY <1>12, <2>0, <2>2 DEF IndInv, WriteViewInv
  <2> QED BY <2>1, <2>2
<1>15. AgreementInv'
  BY <1>0, <1>9, AgreementKept DEF IndInv
<1>16. TablesOfADatabaseAgree' /\ RemovalsLast'
  BY <1>0 DEF IndInv, TablesOfADatabaseAgree, RemovalsLast
<1> QED BY <1>4, <1>5, <1>6, <1>8, <1>11, <1>13, <1>14, <1>15, <1>16 DEF IndInv
\* A connection is ended, with a commit or not.
LEMMA ConnectionEnds ==
    ASSUME IndInv, NEW t \in Thread,
           pc[t] \in {"committing", "closing"}, remaining[t] # <<>>,
           UNCHANGED <<pc, openConnections>>,
           remaining' = [remaining EXCEPT ![t] = Tail(@)],
           \A u \in Thread \ {t} : /\ landed'[u] = landed[u]
                                   /\ commitRemaining'[u] <=> commitRemaining[u]
                                   /\ failed'[u] <=> failed[u],
           commitRemaining'[t] => commitRemaining[t],
           IF commitRemaining'[t] THEN landed'[t] = landed[t] \cup {Head(remaining[t])}
           ELSE landed'[t] = landed[t],
           ~failed'[t] => ~failed[t] /\ (commitRemaining[t] => commitRemaining'[t])
    PROVE  ConnectionInv'
<1>0. \A u \in Thread :
        /\ \A i, j \in 1 .. Len(openConnections'[u]) :
              openConnections'[u][i] = openConnections'[u][j] => i = j
        /\ \A e \in Connections(u)' : \E p \in Table : e = DatabaseOf[p]
  BY DEF IndInv, ConnectionInv, Connections
<1> SUFFICES ASSUME NEW u \in Thread, pc[u] \in {"committing", "closing"}
             PROVE  \E m, n \in 0 .. Len(openConnections[u]) :
                        /\ remaining'[u] = SubSeq(openConnections[u], m + 1, Len(openConnections[u]))
                        /\ landed'[u] = ToSet(SubSeq(openConnections[u], 1, n))
                        /\ commitRemaining'[u] => m = n
                        /\ ~failed'[u] => commitRemaining'[u]
  BY <1>0 DEF ConnectionInv
<1>1. CASE u # t
  BY <1>1, ZenonT(30) DEF IndInv, TypeOK, ConnectionInv
<1>2. CASE u = t
  <2> DEFINE s == openConnections[t]
  <2>1. s \in Seq(Database) /\ Len(s) \in Nat
    BY DEF IndInv, TypeOK
  <2>2. PICK m, n \in 0 .. Len(s) :
                  /\ remaining[t] = SubSeq(s, m + 1, Len(s))
                  /\ landed[t] = ToSet(SubSeq(s, 1, n))
                  /\ commitRemaining[t] => m = n
                  /\ ~failed[t] => commitRemaining[t]
    BY DEF IndInv, ConnectionInv
  <2>3. remaining'[t] = Tail(remaining[t])
    BY DEF IndInv, TypeOK
  <2> HIDE DEF s
  <2>4. m # Len(s) /\ Head(remaining[t]) = s[m + 1] /\ Tail(remaining[t]) = SubSeq(s, m + 2, Len(s))
    BY <2>1, <2>2, Suffix
  <2>5. m + 1 \in 0 .. Len(s) /\ (m + 1) + 1 = m + 2
    BY <2>1, <2>4
  <2>6. ~failed'[t] => commitRemaining'[t]
    BY <2>2
  <2>7. CASE commitRemaining'[t]
    <3>1. m = n /\ landed'[t] = landed[t] \cup {s[m + 1]}
      BY <2>2, <2>4, <2>7
    <3>2. landed[t] = {s[i] : i \in 1 .. m} /\ ToSet(SubSeq(s, 1, m + 1)) = {s[i] : i \in 1 .. m + 1}
      <4>1. 1 \in 1 .. Len(s) + 1
        BY <2>1
      <4> QED BY <2>1, <2>2, <2>5, <3>1, <4>1, SubSeqToSet
    <3>3. {s[i] : i \in 1 .. m} \cup {s[m + 1]} = {s[i] : i \in 1 .. m + 1}
      <4>1. 1 .. m + 1 = (1 .. m) \cup {m + 1}
        BY <2>1
      <4> QED BY <4>1
    <3>4. landed'[t] = ToSet(SubSeq(s, 1, m + 1))
      BY <3>1, <3>2, <3>3
    <3>5. /\ remaining'[t] = SubSeq(s, (m + 1) + 1, Len(s))
          /\ commitRemaining'[t] => m + 1 = m + 1
      BY <2>3, <2>4, <2>5
    <3> QED BY <1>2, <2>5, <2>6, <3>4, <3>5 DEF s
  <2>8. CASE ~commitRemaining'[t]
    <3>1. landed'[t] = ToSet(SubSeq(s, 1, n)) /\ remaining'[t] = SubSeq(s, (m + 1) + 1, Len(s))
      BY <2>2, <2>3, <2>4, <2>5, <2>8
    <3> QED BY <1>2, <2>5, <2>6, <2>8, <3>1 DEF s
  <2> QED BY <2>7, <2>8
<1> QED BY <1>1, <1>2

\* A connection is rolled back: what t has written is not seen by anybody, and t is not
\* going to commit any more.
LEMMA IndRollback ==
    ASSUME IndInv, NEW t \in Thread, NEW d, d = Head(remaining[t]),
           pc[t] \in {"committing", "closing"}, remaining[t] # <<>>,
           RollbackData(t, d),
           remaining' = [remaining EXCEPT ![t] = Tail(@)],
           commitRemaining' = [commitRemaining EXCEPT ![t] = FALSE],
           failed' \in [Thread -> BOOLEAN],
           \A u \in Thread \ {t} : failed'[u] <=> failed[u],
           failed'[t],
           partial' \in BOOLEAN,
           ~partial' => ~partial /\ (~commitRemaining[t] \/ landed[t] = {}),
           UNCHANGED <<pc, flag, op, object, todo, openConnections, landed>>
    PROVE  IndInv'
<1>0. /\ view' = IF flag[t] = "READ_REQUEST" THEN view
                 ELSE [view EXCEPT ![t] = Refreshed(t, d)]
      /\ writing' = IF writing[d] = t THEN [writing EXCEPT ![d] = NoThread] ELSE writing
      /\ UNCHANGED <<database, stale, confirmed>>
  BY DEF RollbackData
<1>1. /\ d \in Database
      /\ ToSet(remaining[t]) = {d} \cup ToSet(Tail(remaining[t]))
      /\ d \notin ToSet(Tail(remaining[t]))
  BY Remaining
<1>2. TypeOK'
  <2>1. Refreshed(t, d) \in [Table -> SUBSET Object]
    BY DEF IndInv, TypeOK, Refreshed
  <2>2. Tail(remaining[t]) \in Seq(Database)
    BY DEF IndInv, TypeOK
  <2> QED BY <1>0, <1>1, <2>1, <2>2 DEF IndInv, TypeOK
<1>3. PhaseInv'
  BY <1>0 DEF IndInv, TypeOK, PhaseInv
<1>4. /\ ~commitRemaining'[t] /\ remaining'[t] = Tail(remaining[t])
      /\ \A u \in Thread \ {t} : /\ commitRemaining'[u] <=> commitRemaining[u]
                                  /\ remaining'[u] = remaining[u]
  BY DEF IndInv, TypeOK
<1>5. ConnectionInv'
  <2>1. \A u \in Thread \ {t} : /\ landed'[u] = landed[u]
                                /\ commitRemaining'[u] <=> commitRemaining[u]
                                /\ failed'[u] <=> failed[u]
    BY <1>4
  <2>2. /\ commitRemaining'[t] => commitRemaining[t]
        /\ IF commitRemaining'[t] THEN landed'[t] = landed[t] \cup {Head(remaining[t])}
           ELSE landed'[t] = landed[t]
        /\ ~failed'[t] => ~failed[t] /\ (commitRemaining[t] => commitRemaining'[t])
    BY <1>4
  <2> QED BY <2>1, <2>2, ConnectionEnds
<1>6. /\ writing'[d] # t
      /\ \A u \in Thread, e \in Database : u # t \/ e # d => (writing'[e] = u <=> writing[e] = u)
  BY <1>0, <1>1 DEF IndInv, TypeOK
<1>7. WriterInv'
  <2> SUFFICES ASSUME NEW u \in Thread, NEW e \in Database
               PROVE  /\ writing'[e] = u =>
                          /\ op[u] # "read"
                          /\ pc[u] \in {"working", "committing", "closing"}
                          /\ e \in IF pc[u] = "working" THEN Connections(u) ELSE ToSet(remaining'[u])
                      /\ (pc[u] = "working" /\ flag[u] = "WRITE_REQUEST" /\ e \in Connections(u)) =>
                          writing'[e] = u
                      /\ (pc[u] = "working" /\ op[u] # "read" /\ writing'[e] # u) =>
                          \A q \in Table : DatabaseOf[q] = e => q \in todo[u]
    BY DEF WriterInv, Connections
  <2>1. CASE u = t
    BY <1>1, <1>4, <1>6, <2>1 DEF IndInv, WriterInv
  <2>2. CASE u # t
    BY <1>4, <1>6, <2>2 DEF IndInv, WriterInv
  <2> QED BY <2>1, <2>2
<1>8. ~Commits(t)' /\ \A u \in Thread \ {t} : Commits(u)' <=> Commits(u)
  BY <1>4 DEF Commits
<1>9. CommitInv'
  <2>1. ASSUME NEW u \in Thread, Commits(u) PROVE ToSet(remaining[u]) \subseteq Database
    BY DEF IndInv, TypeOK, ToSet
  <2> QED BY <1>0, <1>4, <1>6, <1>8, <2>1, CommitKept DEF IndInv
<1>10. ASSUME NEW u \in Thread, NEW q \in Table, u # t \/ DatabaseOf[q] # d
       PROVE  view'[u][q] = view[u][q]
  BY <1>0, <1>10 DEF IndInv, TypeOK, Refreshed
<1>11. ASSUME NEW q \in Table, DatabaseOf[q] = d, flag[t] # "READ_REQUEST"
       PROVE  view'[t][q] = database[q]
  BY <1>0, <1>11 DEF IndInv, TypeOK, Refreshed
<1>12. SnapshotInv'
  <2> SUFFICES ASSUME NEW u \in Thread, NEW q \in Table, flag[u] = "none",
                      pc[u] \in {"working", "between", "committing"},
                      DatabaseOf[q] \in Connections(u) \ stale[u],
                      writing'[DatabaseOf[q]] # u
               PROVE  view'[u][q] = database[q]
    BY <1>0 DEF SnapshotInv, Connections
  <2>1. CASE u = t /\ DatabaseOf[q] = d
    BY <1>11, <2>1
  <2>2. CASE u # t \/ DatabaseOf[q] # d
    BY <1>6, <1>10, <2>2 DEF IndInv, SnapshotInv
  <2> QED BY <2>1, <2>2
<1>13. WriteViewInv'
  <2> SUFFICES ASSUME NEW u \in Thread, NEW q \in Table, writing'[DatabaseOf[q]] = u,
                      (pc[u] = "working" \/ Commits(u))'
               PROVE  (view[u][q] = IF q \in todo[u] THEN database[q] ELSE Changed(u, database[q]))'
    BY DEF WriteViewInv
  <2>1. u # t
    BY <1>8
  <2>2. (pc[u] = "working" \/ Commits(u)) /\ writing[DatabaseOf[q]] = u
    BY <1>6, <1>8, <2>1
  <2>3. view'[u][q] = IF q \in todo[u] THEN database[q] ELSE Changed(u, database[q])
    BY <1>10, <2>1, <2>2 DEF IndInv, WriteViewInv
  <2> QED BY <1>0, <2>3 DEF Changed
<1>14. AgreementInv'
  <2>1. ~partial' => ~(Commits(t) /\ landed[t] # {})
    BY DEF Commits
  <2> QED BY <1>0, <1>4, <1>8, <2>1, AgreementKept DEF IndInv
<1>15. TablesOfADatabaseAgree' /\ RemovalsLast'
  BY <1>0 DEF IndInv, TablesOfADatabaseAgree, RemovalsLast
<1> QED BY <1>2, <1>3, <1>5, <1>7, <1>9, <1>12, <1>13, <1>14, <1>15 DEF IndInv

\* A commit fails: if it is not the first one, the databases may differ from now on.
LEMMA IndCommitFails ==
    ASSUME IndInv, NEW t \in Thread, CommitFails(t)
    PROVE  IndInv'
<1>1. partial' \in BOOLEAN /\ (~partial' => ~partial /\ landed[t] = {})
  BY DEF CommitFails
<1>2. failed' \in [Thread -> BOOLEAN] /\ failed'[t] /\ \A u \in Thread \ {t} : failed'[u] <=> failed[u]
  BY DEF CommitFails, IndInv, TypeOK
<1> QED BY <1>1, <1>2, IndRollback DEF CommitFails

\* The connections after one that failed are rolled back.
LEMMA IndRollBackNext ==
    ASSUME IndInv, NEW t \in Thread, RollBackNext(t)
    PROVE  IndInv'
<1>1. commitRemaining' = [commitRemaining EXCEPT ![t] = FALSE]
  BY DEF RollBackNext, IndInv, TypeOK
<1>2. failed'[t]
  BY DEF RollBackNext, IndInv, ConnectionInv
<1>3. failed' \in [Thread -> BOOLEAN] /\ partial' \in BOOLEAN
  BY DEF RollBackNext, IndInv, TypeOK
<1> QED BY <1>1, <1>2, <1>3, IndRollback DEF RollBackNext
\* A connection is committed through which nothing was written.
LEMMA IndCommitNothing ==
    ASSUME IndInv, NEW t \in Thread, CommitNext(t), writing[Head(remaining[t])] # t
    PROVE  IndInv'
<1> DEFINE d == Head(remaining[t])
<1>0. /\ pc[t] \in {"committing", "closing"} /\ remaining[t] # <<>> /\ commitRemaining[t]
      /\ landed' = [landed EXCEPT ![t] = @ \cup {d}]
      /\ remaining' = [remaining EXCEPT ![t] = Tail(@)]
      /\ UNCHANGED <<database, writing, pc, flag, op, object, todo, openConnections, view,
                     stale, commitRemaining, confirmed, partial>>
  BY DEF CommitNext, CommitData
<1>1. /\ failed' \in [Thread -> BOOLEAN]
      /\ failed[t] => failed'[t]
      /\ \A u \in Thread \ {t} : failed'[u] <=> failed[u]
  BY DEF CommitNext, IndInv, TypeOK
<1>2. d \in Database /\ ToSet(remaining[t]) = {d} \cup ToSet(Tail(remaining[t]))
  BY <1>0, Remaining
<1> HIDE DEF d
<1>3. TypeOK'
  <2>1. Tail(remaining[t]) \in Seq(Database)
    BY <1>0 DEF IndInv, TypeOK
  <2> QED BY <1>0, <1>1, <1>2, <2>1 DEF IndInv, TypeOK
<1>4. PhaseInv'
  <2>1. \A u \in Thread \ {t} : landed'[u] = landed[u]
    BY <1>0 DEF IndInv, TypeOK
  <2> QED BY <1>0, <1>1, <2>1 DEF IndInv, PhaseInv
<1>5. /\ remaining'[t] = Tail(remaining[t]) /\ landed'[t] = landed[t] \cup {d}
      /\ \A u \in Thread \ {t} : landed'[u] = landed[u] /\ remaining'[u] = remaining[u]
  BY <1>0 DEF IndInv, TypeOK
<1>6. ConnectionInv'
  <2>1. \A u \in Thread \ {t} : /\ landed'[u] = landed[u]
                                /\ commitRemaining'[u] <=> commitRemaining[u]
                                /\ failed'[u] <=> failed[u]
    BY <1>0, <1>1, <1>5
  <2>2. /\ commitRemaining'[t] => commitRemaining[t]
        /\ IF commitRemaining'[t] THEN landed'[t] = landed[t] \cup {Head(remaining[t])}
           ELSE landed'[t] = landed[t]
        /\ ~failed'[t] => ~failed[t] /\ (commitRemaining[t] => commitRemaining'[t])
    BY <1>0, <1>1, <1>5 DEF d
  <2> QED BY <1>0, <2>1, <2>2, ConnectionEnds
<1>7. ~Commits(t)
  BY <1>2 DEF IndInv, CommitInv, d
<1>8. op[t] = "read"
  BY <1>0, <1>7 DEF Commits
<1>9. WriterInv'
  BY <1>0, <1>5, <1>8 DEF IndInv, WriterInv, Connections
<1>10. \A u \in Thread : Commits(u)' <=> Commits(u)
  BY <1>0 DEF Commits
<1>11. CommitInv'
  BY <1>0, <1>5, <1>7, <1>10, CommitKept DEF IndInv
<1>12. SnapshotInv'
  BY <1>0 DEF IndInv, SnapshotInv, Connections
<1>13. WriteViewInv'
  <2>1. \A u \in Thread, q \in Table : Changed(u, database[q])' = Changed(u, database[q])
    BY <1>0 DEF Changed
  <2> QED BY <1>0, <1>10, <2>1 DEF IndInv, WriteViewInv
<1>14. AgreementInv'
  BY <1>0, <1>5, <1>7, <1>10, AgreementKept DEF IndInv
<1>15. TablesOfADatabaseAgree' /\ RemovalsLast'
  BY <1>0 DEF IndInv, TablesOfADatabaseAgree, RemovalsLast
<1> QED BY <1>3, <1>4, <1>6, <1>9, <1>11, <1>12, <1>13, <1>14, <1>15 DEF IndInv

\* A connection is committed through which t has written.
LEMMA IndCommitChanges ==
    ASSUME IndInv, NEW t \in Thread, CommitNext(t), writing[Head(remaining[t])] = t
    PROVE  IndInv'
<1> DEFINE d == Head(remaining[t])
           added == IF op[t] = "add" THEN {object[t]} ELSE {}
           removed == IF pc[t] = "committing" /\ Tail(remaining[t]) = <<>> THEN {object[t]} ELSE {}
<1>0. /\ pc[t] \in {"committing", "closing"} /\ remaining[t] # <<>> /\ commitRemaining[t]
      /\ writing[d] = t
      /\ database' = [q \in Table |-> IF DatabaseOf[q] = d THEN view[t][q] ELSE database[q]]
      /\ writing' = [writing EXCEPT ![d] = NoThread]
      /\ stale' = [u \in Thread |-> IF flag[u] = "none" /\ u # t /\ Holds(u, d)
                                    THEN stale[u] \cup {d} ELSE stale[u]]
      /\ confirmed' = [u \in Thread |-> IF u = t THEN (confirmed[u] \ added) \cup removed
                                        ELSE confirmed[u] \ added]
      /\ landed' = [landed EXCEPT ![t] = @ \cup {d}]
      /\ remaining' = [remaining EXCEPT ![t] = Tail(@)]
      /\ UNCHANGED <<view, pc, flag, op, object, todo, openConnections, commitRemaining, partial>>
  BY DEF CommitNext, CommitData
<1>1. /\ failed' \in [Thread -> BOOLEAN]
      /\ failed[t] => failed'[t]
      /\ \A u \in Thread \ {t} : failed'[u] <=> failed[u]
  BY DEF CommitNext, IndInv, TypeOK
<1>2. /\ d \in Database
      /\ ToSet(remaining[t]) = {d} \cup ToSet(Tail(remaining[t]))
      /\ d \notin ToSet(Tail(remaining[t]))
      /\ landed[t] \cap ToSet(remaining[t]) = {}
  BY <1>0, Remaining
<1> HIDE DEF d
<1>3. Commits(t) /\ op[t] # "read" /\ object[t] \in Object /\ todo[t] = {}
  BY <1>0, <1>2 DEF IndInv, WriterInv, PhaseInv, Commits
<1>4. \A q \in Table : database'[q] = IF DatabaseOf[q] = d THEN Changed(t, database[q]) ELSE database[q]
  BY <1>0, <1>3 DEF IndInv, WriteViewInv
<1>5. TypeOK'
  <2>1. Tail(remaining[t]) \in Seq(Database)
    BY <1>0 DEF IndInv, TypeOK
  <2>2. confirmed' \in [Thread -> SUBSET Object]
    BY <1>0, <1>3 DEF IndInv, TypeOK
  <2>3. database' \in [Table -> SUBSET Object] /\ stale' \in [Thread -> SUBSET Database]
    BY <1>0, <1>2 DEF IndInv, TypeOK
  <2>4. UNCHANGED <<view, pc, flag, op, object, todo, openConnections, commitRemaining, partial>>
    BY <1>0
  <2>5. remaining' \in [Thread -> Seq(Database)] /\ landed' \in [Thread -> SUBSET Database]
        /\ writing' \in [Database -> Thread \cup {NoThread}]
    BY <1>0, <1>2, <2>1 DEF IndInv, TypeOK
  <2> QED BY <1>1, <2>2, <2>3, <2>4, <2>5 DEF IndInv, TypeOK
<1>6. /\ remaining'[t] = Tail(remaining[t]) /\ landed'[t] = landed[t] \cup {d}
      /\ \A u \in Thread \ {t} : landed'[u] = landed[u] /\ remaining'[u] = remaining[u]
      /\ writing'[d] = NoThread
      /\ \A e \in Database \ {d} : writing'[e] = writing[e]
  BY <1>0, <1>2 DEF IndInv, TypeOK
<1>7. PhaseInv'
  BY <1>0, <1>1, <1>6 DEF IndInv, PhaseInv
<1>8. ConnectionInv'
  <2>1. \A u \in Thread \ {t} : /\ landed'[u] = landed[u]
                                /\ commitRemaining'[u] <=> commitRemaining[u]
                                /\ failed'[u] <=> failed[u]
    BY <1>0, <1>1, <1>6
  <2>2. /\ commitRemaining'[t] => commitRemaining[t]
        /\ IF commitRemaining'[t] THEN landed'[t] = landed[t] \cup {Head(remaining[t])}
           ELSE landed'[t] = landed[t]
        /\ ~failed'[t] => ~failed[t] /\ (commitRemaining[t] => commitRemaining'[t])
    BY <1>0, <1>1, <1>6 DEF d
  <2> QED BY <1>0, <2>1, <2>2, ConnectionEnds
<1>9. WriterInv'
  <2> SUFFICES ASSUME NEW u \in Thread, NEW e \in Database
               PROVE  /\ writing'[e] = u =>
                          /\ op[u] # "read"
                          /\ pc[u] \in {"working", "committing", "closing"}
                          /\ e \in IF pc[u] = "working" THEN Connections(u) ELSE ToSet(remaining'[u])
                      /\ (pc[u] = "working" /\ flag[u] = "WRITE_REQUEST" /\ e \in Connections(u)) =>
                          writing'[e] = u
                      /\ (pc[u] = "working" /\ op[u] # "read" /\ writing'[e] # u) =>
                          \A q \in Table : DatabaseOf[q] = e => q \in todo[u]
    BY <1>0 DEF WriterInv, Connections
  <2>1. CASE u = t
    BY <1>0, <1>2, <1>6, <2>1 DEF IndInv, WriterInv
  <2>2. CASE u # t
    <3>1. writing'[e] = u <=> writing[e] = u
      BY <1>0, <1>6, <2>2
    <3> QED BY <1>6, <2>2, <3>1 DEF IndInv, WriterInv
  <2> QED BY <2>1, <2>2
<1>10. \A u \in Thread : Commits(u)' <=> Commits(u)
  BY <1>0 DEF Commits
<1>11. \A u \in Thread \ {t} : Commits(u) => remaining[u] = <<>>
  BY <1>0, <1>3 DEF IndInv, CommitInv
<1>12. \A p \in Table : DatabaseOf[p] \in landed[t] \cup ToSet(remaining[t])
  BY <1>3 DEF IndInv, CommitInv
<1>13. CommitInv'
  <2>1. ASSUME NEW u \in Thread, Commits(u)
        PROVE  /\ \A p \in Table : DatabaseOf[p] \in landed'[u] \cup ToSet(remaining'[u])
               /\ \A e \in ToSet(remaining'[u]) : writing'[e] = u
               /\ (op[u] = "remove" /\ remaining'[u] # <<>>) =>
                     \A p \in Table : DatabaseOf[p] \in landed'[u] => object[u] \notin database'[p]
    <3>1. CASE u # t
      BY <1>6, <1>11, <2>1, <3>1, EmptyToSet DEF IndInv, CommitInv
    <3>2. CASE u = t
      <4>1. \A p \in Table : DatabaseOf[p] \in landed'[t] \cup ToSet(remaining'[t])
        BY <1>2, <1>6, <1>12
      <4>2. ToSet(remaining[t]) \subseteq Database
        BY DEF IndInv, TypeOK, ToSet
      <4>3. \A e \in ToSet(remaining'[t]) : writing'[e] = t
        BY <1>2, <1>3, <1>6, <4>2 DEF IndInv, CommitInv
      <4>4. ASSUME op[t] = "remove", NEW p \in Table, DatabaseOf[p] \in landed'[t]
            PROVE  object[t] \notin database'[p]
        <5>1. CASE DatabaseOf[p] = d
          BY <1>4, <4>4, <5>1 DEF Changed
        <5>2. CASE DatabaseOf[p] # d
          BY <1>0, <1>3, <1>4, <1>6, <4>4, <5>2 DEF IndInv, CommitInv
        <5> QED BY <5>1, <5>2
      <4> QED BY <3>2, <4>1, <4>3, <4>4
    <3> QED BY <3>1, <3>2
  <2>2. ASSUME NEW u \in Thread, NEW w \in Thread, Commits(u), Commits(w), u # w
        PROVE  remaining'[u] = <<>> \/ remaining'[w] = <<>>
    BY <1>6, <1>11, <2>2
  <2> QED BY <1>0, <1>10, <2>1, <2>2 DEF CommitInv
<1>14. SnapshotInv'
  <2> SUFFICES ASSUME NEW u \in Thread, NEW q \in Table, flag[u] = "none",
                      pc[u] \in {"working", "between", "committing"},
                      DatabaseOf[q] \in Connections(u) \ stale'[u],
                      writing'[DatabaseOf[q]] # u
               PROVE  view[u][q] = database'[q]
    BY <1>0 DEF SnapshotInv, Connections
  <2>1. CASE DatabaseOf[q] = d
    <3>1. Holds(u, d)
      BY <2>1 DEF Holds
    <3>2. u = t
      BY <1>0, <2>1, <3>1
    <3> QED BY <1>0, <2>1, <3>2
  <2>2. CASE DatabaseOf[q] # d
    <3>1. DatabaseOf[q] \in Database /\ DatabaseOf[q] \notin stale[u]
      BY <1>0
    <3>2. writing[DatabaseOf[q]] # u /\ database'[q] = database[q]
      BY <1>4, <1>6, <2>2, <3>1
    <3> QED BY <3>1, <3>2 DEF IndInv, SnapshotInv
  <2> QED BY <2>1, <2>2
<1>15. WriteViewInv'
  <2> SUFFICES ASSUME NEW u \in Thread, NEW q \in Table, writing'[DatabaseOf[q]] = u,
                      (pc[u] = "working" \/ Commits(u))'
               PROVE  (view[u][q] = IF q \in todo[u] THEN database[q] ELSE Changed(u, database[q]))'
    BY DEF WriteViewInv
  <2>1. DatabaseOf[q] # d /\ DatabaseOf[q] \in Database
    BY <1>6
  <2>2. (pc[u] = "working" \/ Commits(u)) /\ writing[DatabaseOf[q]] = u /\ database'[q] = database[q]
    BY <1>0, <1>4, <1>6, <1>10, <2>1
  <2>3. view[u][q] = IF q \in todo[u] THEN database[q] ELSE Changed(u, database[q])
    BY <2>2 DEF IndInv, WriteViewInv
  <2> QED BY <1>0, <2>2, <2>3 DEF Changed
<1>16. AgreementInv'
  <2> SUFFICES ASSUME ~partial PROVE AgreementInv'
    BY <1>0 DEF AgreementInv
  <2>1. ASSUME NEW p \in Table, NEW q \in Table,
               DatabaseOf[p] \in ToSet(remaining[t]), DatabaseOf[q] \in ToSet(remaining[t])
        PROVE  database[p] = database[q]
    <3> SUFFICES ASSUME database[p] # database[q] PROVE FALSE
      OBVIOUS
    <3>1. PICK u \in Thread :
             /\ Commits(u)
             /\ \/ DatabaseOf[p] \in landed[u] /\ DatabaseOf[q] \in ToSet(remaining[u])
                \/ DatabaseOf[q] \in landed[u] /\ DatabaseOf[p] \in ToSet(remaining[u])
      BY DEF IndInv, AgreementInv
    <3>2. u = t
      BY <1>11, <3>1, EmptyToSet
    <3> QED BY <1>2, <2>1, <3>1, <3>2
  <2>2. ASSUME NEW p \in Table, NEW q \in Table,
               DatabaseOf[p] \in landed'[t], DatabaseOf[q] \in ToSet(remaining'[t])
        PROVE  database'[p] = Changed(t, database'[q])
    <3>1. DatabaseOf[q] # d /\ DatabaseOf[q] \in ToSet(remaining[t]) /\ database'[q] = database[q]
      BY <1>2, <1>4, <1>6, <2>2
    <3>2. CASE DatabaseOf[p] = d
      <4>1. database[p] = database[q]
        BY <1>2, <2>1, <3>1, <3>2
      <4> QED BY <1>4, <3>1, <3>2, <4>1
    <3>3. CASE DatabaseOf[p] # d
      <4>1. DatabaseOf[p] \in landed[t] /\ database'[p] = database[p]
        BY <1>4, <1>6, <2>2, <3>3
      <4> QED BY <1>3, <3>1, <4>1 DEF IndInv, AgreementInv
    <3> QED BY <3>2, <3>3
  <2>3. ASSUME NEW p \in Table, NEW q \in Table, DatabaseOf[p] \in landed'[t], DatabaseOf[q] \in landed'[t]
        PROVE  database'[p] = database'[q]
    <3>0. ASSUME NEW x \in Table, NEW y \in Table, DatabaseOf[x] = d, DatabaseOf[y] \in landed[t]
          PROVE  database'[x] = database'[y]
      <4>1. DatabaseOf[y] # d /\ d \in ToSet(remaining[t])
        BY <1>2, <3>0
      <4>2. database[y] = Changed(t, database[x])
        BY <1>3, <3>0, <4>1 DEF IndInv, AgreementInv
      <4> QED BY <1>4, <3>0, <4>1, <4>2
    <3>1. CASE DatabaseOf[p] = d /\ DatabaseOf[q] = d
      BY <1>4, <3>1 DEF IndInv, TablesOfADatabaseAgree
    <3>2. CASE DatabaseOf[p] = d /\ DatabaseOf[q] # d
      BY <1>6, <2>3, <3>0, <3>2
    <3>3. CASE DatabaseOf[p] # d /\ DatabaseOf[q] = d
      <4>1. DatabaseOf[p] \in landed[t]
        BY <1>6, <2>3, <3>3
      <4>2. database'[q] = database'[p]
        BY <3>0, <3>3, <4>1
      <4> QED BY <4>2
    <3>4. CASE DatabaseOf[p] # d /\ DatabaseOf[q] # d
      <4>1. DatabaseOf[p] \in landed[t] /\ DatabaseOf[q] \in landed[t]
        BY <1>6, <2>3, <3>4
      <4>2. PICK x \in Table : d = DatabaseOf[x]
        BY <1>0, Remaining DEF IndInv, ConnectionInv, d
      <4> QED BY <3>0, <4>1, <4>2
    <3> QED BY <3>1, <3>2, <3>3, <3>4
  <2>4. ASSUME NEW p \in Table, NEW q \in Table, database'[p] # database'[q]
        PROVE  \/ DatabaseOf[p] \in landed'[t] /\ DatabaseOf[q] \in ToSet(remaining'[t])
               \/ DatabaseOf[q] \in landed'[t] /\ DatabaseOf[p] \in ToSet(remaining'[t])
    <3>1. ~(DatabaseOf[p] \in landed'[t] /\ DatabaseOf[q] \in landed'[t])
      BY <2>3, <2>4
    <3>2. \A x \in Table : DatabaseOf[x] \in landed'[t] \/ DatabaseOf[x] \in ToSet(remaining'[t])
      BY <1>2, <1>6, <1>12
    <3>3. ASSUME DatabaseOf[p] \in ToSet(remaining'[t]), DatabaseOf[q] \in ToSet(remaining'[t]) PROVE FALSE
      <4>1. /\ DatabaseOf[p] # d /\ DatabaseOf[q] # d
            /\ DatabaseOf[p] \in ToSet(remaining[t]) /\ DatabaseOf[q] \in ToSet(remaining[t])
        BY <1>2, <1>6, <3>3
      <4> QED BY <1>4, <2>1, <2>4, <4>1
    <3> QED BY <3>1, <3>2, <3>3
  <2>5. ASSUME NEW u \in Thread, NEW p \in Table, NEW q \in Table,
               Commits(u)', DatabaseOf[p] \in landed'[u], DatabaseOf[q] \in ToSet(remaining'[u])
        PROVE  (database[p] = Changed(u, database[q]))'
    <3>1. u = t
      BY <1>6, <1>10, <1>11, <2>5, EmptyToSet
    <3>2. database'[p] = Changed(t, database'[q])
      BY <2>2, <2>5, <3>1
    <3> QED BY <1>0, <3>1, <3>2 DEF Changed
  <2> QED BY <1>3, <1>10, <2>4, <2>5 DEF AgreementInv
<1>17. TablesOfADatabaseAgree'
  BY <1>4 DEF IndInv, TablesOfADatabaseAgree
<1>18. RemovalsLast'
  <2> SUFFICES ASSUME NEW u \in Thread, NEW o \in Object, o \in confirmed'[u], NEW p \in Table
               PROVE  o \notin database'[p]
    BY DEF RemovalsLast
  <2>1. CASE o \in confirmed[u] /\ o \notin added
    <3>1. o \notin database[p]
      BY <2>1 DEF IndInv, RemovalsLast
    <3> QED BY <1>4, <2>1, <3>1 DEF Changed
  <2>2. CASE ~(o \in confirmed[u] /\ o \notin added)
    <3>1. u = t /\ pc[t] = "committing" /\ Tail(remaining[t]) = <<>> /\ o = object[t]
      BY <1>0, <2>2 DEF IndInv, TypeOK
    <3>2. op[t] = "remove" /\ ToSet(remaining[t]) = {d}
      BY <1>2, <3>1, EmptyToSet DEF IndInv, PhaseInv
    <3>3. CASE DatabaseOf[p] = d
      BY <1>4, <3>1, <3>2, <3>3 DEF Changed
    <3>4. CASE DatabaseOf[p] # d
      <4>1. DatabaseOf[p] \in landed[t]
        BY <1>12, <3>2, <3>4
      <4> QED BY <1>0, <1>3, <1>4, <3>1, <3>2, <3>4, <4>1 DEF IndInv, CommitInv
    <3> QED BY <3>3, <3>4
  <2> QED BY <2>1, <2>2
<1> QED BY <1>5, <1>7, <1>8, <1>9, <1>13, <1>14, <1>15, <1>16, <1>17, <1>18 DEF IndInv
\* A connection is committed.
LEMMA IndCommitNext ==
    ASSUME IndInv, NEW t \in Thread, CommitNext(t)
    PROVE  IndInv'
BY IndCommitNothing, IndCommitChanges

\* Nobody is using the collection, and the databases are as they should be then.
AtRest ==
    /\ TypeOK
    /\ writing = [d \in Database |-> NoThread]
    /\ pc = [t \in Thread |-> "idle"]
    /\ flag = [t \in Thread |-> "none"]
    /\ op = [t \in Thread |-> "read"]
    /\ openConnections = [t \in Thread |-> <<>>]
    /\ failed = [t \in Thread |-> FALSE]
    /\ landed = [t \in Thread |-> {}]
    /\ TablesOfADatabaseAgree
    /\ RemovalsLast
    /\ ~partial => \A p, q \in Table : database[p] = database[q]

\* Nothing more than that has to hold between requests.
LEMMA IndAtRest == AtRest => IndInv
<1> SUFFICES ASSUME AtRest PROVE IndInv
  OBVIOUS
<1>1. PhaseInv
  BY DEF AtRest, PhaseInv
<1>2. \A t \in Thread : Connections(t) = {} /\ ~Commits(t)
  BY EmptyToSet DEF AtRest, Connections, Commits
<1>3. ConnectionInv
  BY <1>2 DEF AtRest, ConnectionInv
<1>4. WriterInv
  BY DEF AtRest, WriterInv
<1>5. CommitInv /\ SnapshotInv /\ WriteViewInv /\ AgreementInv
  BY <1>2 DEF AtRest, CommitInv, SnapshotInv, WriteViewInv, AgreementInv
<1> QED BY <1>1, <1>3, <1>4, <1>5 DEF AtRest, IndInv

\* The collection is opened.
LEMMA IndInit == Init => IndInv
<1> SUFFICES ASSUME Init PROVE IndInv
  OBVIOUS
<1>1. TypeOK
  <2>1. <<>> \in Seq(Database)
    OBVIOUS
  <2>2. database \in [Table -> SUBSET Object]
    BY DEF Init
  <2> QED BY <2>1, <2>2 DEF Init, TypeOK
<1>2. TablesOfADatabaseAgree /\ RemovalsLast
  BY DEF Init, TablesOfADatabaseAgree, RemovalsLast
<1>3. \A p, q \in Table : database[p] = database[q]
  BY DEF Init
<1>4. AtRest
  BY <1>1, <1>2, <1>3 DEF Init, AtRest
<1> QED BY <1>4, IndAtRest

\* A crash drops what is not committed, and the indexes in memory are filled from the
\* store again.
LEMMA AtRestAfterRestart ==
    ASSUME IndInv, Restart
    PROVE  AtRest'
<1>1. \A p \in Table : database'[p] = IF DatabaseOf[p] \in Volatile THEN database[Store] ELSE database[p]
  BY DEF Restart
<1>2. TypeOK'
  BY DEF Restart, IndInv, TypeOK
<1>3. TablesOfADatabaseAgree'
  BY <1>1 DEF IndInv, TablesOfADatabaseAgree
<1>4. RemovalsLast'
  BY <1>1 DEF Restart, IndInv, RemovalsLast
<1>5. ASSUME ~partial', NEW p \in Table PROVE database'[p] = database'[Store]
  <2>1. CASE DatabaseOf[p] \in Volatile
    BY <1>1, <2>1
  <2>2. CASE DatabaseOf[p] \notin Volatile
    <3>1. database'[p] = database[p] /\ database'[Store] = database[Store]
      BY <1>1, <2>2
    <3>2. CASE IndexesInMemory
      <4>1. DatabaseOf[p] = DatabaseOf[Store]
        BY <2>2, <3>2 DEF IndexesInMemory
      <4> QED BY <3>1, <4>1 DEF IndInv, TablesOfADatabaseAgree
    <3>3. CASE ~IndexesInMemory
      <4>1. ~partial /\ \A t \in Thread : landed[t] = {}
        BY <1>5, <3>3 DEF Restart
      <4> QED BY <3>1, <4>1 DEF IndInv, AgreementInv
    <3> QED BY <3>2, <3>3
  <2> QED BY <2>1, <2>2
<1>6. ~partial' => \A p, q \in Table : database'[p] = database'[q]
  BY <1>5
<1> QED BY <1>2, <1>3, <1>4, <1>6 DEF Restart, AtRest

\* The program crashes and is started again.
LEMMA IndRestart == IndInv /\ Restart => IndInv'
<1>1. IndInv /\ Restart => AtRest'
  BY AtRestAfterRestart
<1> QED BY <1>1, IndAtRest, PTL

\* Every call preserves the invariant.
LEMMA IndCall ==
    ASSUME IndInv, NEW t \in Thread, Call(t)
    PROVE  IndInv'
<1>1. ASSUME NEW tables \in SUBSET Table, Read(t, tables) PROVE IndInv'
  BY <1>1, IndBegin DEF Read
<1>2. ASSUME NEW what \in {"add", "remove"}, NEW o \in Object, Write(t, what, o) PROVE IndInv'
  BY <1>2, IndBegin DEF Write
<1>3. CASE OpenIterator(t)
  BY <1>3, IndBegin DEF OpenIterator
<1> QED BY <1>1, <1>2, <1>3, IndIteratorRemove DEF Call

\* Every step of a request preserves the invariant.
LEMMA IndStep ==
    ASSUME IndInv, NEW t \in Thread, Step(t)
    PROVE  IndInv'
<1>1. ASSUME NEW p \in Table, OpenConnectionFails(t, p) \/ ChangeTableFails(t, p) PROVE IndInv'
  BY <1>1, IndCloseScope DEF OpenConnectionFails, ChangeTableFails, Throw
<1>2. CASE CloseIterator(t)
  BY <1>2, IndCloseScope DEF CloseIterator
<1> QED
  BY <1>1, <1>2, IndOpenConnection, IndReadTable, IndChangeTable, IndRequestSucceeds,
     IndCommitNext, IndCommitFails, IndRollBackNext, IndRemoveReturns, IndReturn DEF Step

\* Every step of the system preserves the invariant.
LEMMA IndNext == IndInv /\ [Next]_vars => IndInv'
<1> SUFFICES ASSUME IndInv, [Next]_vars PROVE IndInv'
  OBVIOUS
<1>1. ASSUME NEW t \in Thread, RequestFails(t) PROVE IndInv'
  BY <1>1, IndCloseScope DEF RequestFails, Throw
<1>2. CASE UNCHANGED vars
  <2>1. TypeOK' /\ PhaseInv' /\ TablesOfADatabaseAgree' /\ RemovalsLast'
    BY <1>2 DEF vars, IndInv, TypeOK, PhaseInv, TablesOfADatabaseAgree, RemovalsLast
  <2>2. ConnectionInv' /\ WriterInv'
    BY <1>2 DEF vars, IndInv, ConnectionInv, WriterInv, Connections
  <2>3. \A u \in Thread : Commits(u)' <=> Commits(u)
    BY <1>2 DEF vars, Commits
  <2>4. CommitInv' /\ AgreementInv'
    BY <1>2, <2>3, CommitKept, AgreementKept DEF vars, IndInv
  <2>5. SnapshotInv'
    BY <1>2 DEF vars, IndInv, SnapshotInv, Connections
  <2>6. WriteViewInv'
    <3>1. \A u \in Thread, q \in Table : Changed(u, database[q])' = Changed(u, database[q])
      BY <1>2 DEF vars, Changed
    <3> QED BY <1>2, <2>3, <3>1 DEF vars, IndInv, WriteViewInv
  <2> QED BY <2>1, <2>2, <2>4, <2>5, <2>6 DEF IndInv
<1> QED BY <1>1, <1>2, IndCall, IndStep, IndRestart DEF Next

-----------------------------------------------------------------------------
\* All of the invariant holds in every reachable state, with failures and crashes.
THEOREM Inductive == Spec => []IndInv
<1> QED BY IndInit, IndNext, PTL DEF Spec

\* Every variable keeps to its type; in particular no request changes a table for an
\* object that it does not have.
THEOREM TypeCorrect == Spec => []TypeOK
<1>1. IndInv => TypeOK
  BY DEF IndInv
<1> QED BY <1>1, Inductive, PTL

\* The store and the indexes of one database never differ in what is committed,
\* whatever fails and whenever the program crashes.
THEOREM TablesAgree == Spec => []TablesOfADatabaseAgree
<1>1. IndInv => TablesOfADatabaseAgree
  BY DEF IndInv
<1> QED BY <1>1, Inductive, PTL

\* The databases of a composite only differ between the commits of one request, or after
\* a commit that failed half-way through them: requests and iterators of any number of
\* threads do not tear each other's changes apart.
THEOREM CompositesAgree == Spec => []DatabasesAgreeBetweenCommits
<1>1. IndInv => DatabasesAgreeBetweenCommits
  BY DEF IndInv, AgreementInv, DatabasesAgreeBetweenCommits
<1> QED BY <1>1, Inductive, PTL

\* RequestScopeConnectionManager commits connections in the order of opening; a call that
\* returns has committed all of them, one that throws a prefix.
THEOREM CommitsFollowOpening == Spec => []CommittedInOrder
<1>1. IndInv => CommittedInOrder
  <2> SUFFICES ASSUME IndInv, NEW t \in Thread,
                      pc[t] \in {"closing", "committing"}, remaining[t] = <<>>
               PROVE  \E n \in 0 .. Len(openConnections[t]) :
                        /\ landed[t] = ToSet(SubSeq(openConnections[t], 1, n))
                        /\ ~failed[t] => n = Len(openConnections[t])
    BY DEF CommittedInOrder
  <2> DEFINE s == openConnections[t]
  <2>1. s \in Seq(Database)
    BY DEF IndInv, TypeOK
  <2>2. PICK m, n \in 0 .. Len(s) :
                  /\ remaining[t] = SubSeq(s, m + 1, Len(s))
                  /\ landed[t] = ToSet(SubSeq(s, 1, n))
                  /\ commitRemaining[t] => m = n
                  /\ ~failed[t] => commitRemaining[t]
    BY DEF IndInv, ConnectionInv
  <2> HIDE DEF s
  <2>3. m = Len(s)
    BY <2>1, <2>2, Suffix
  <2> QED BY <2>2, <2>3 DEF s
<1> QED BY <1>1, Inductive, PTL

\* No transaction outlives its request: SQLite's writer of a database is a thread that
\* still has its connection open.
THEOREM TransactionsEnd == Spec => []NothingLeftOpen
<1>1. IndInv => NothingLeftOpen
  <2> SUFFICES ASSUME IndInv, NEW t \in Thread, NEW d \in Database, writing[d] = t
               PROVE  Holds(t, d)
    BY DEF NothingLeftOpen
  <2>1. pc[t] = "committing" => ToSet(remaining[t]) \subseteq Connections(t)
    BY Remaining
  <2> QED BY <2>1 DEF IndInv, WriterInv, Holds
<1> QED BY <1>1, Inductive, PTL

\* A removal that an iterator has committed stays, also after a later failure of the
\* iterator and after a crash.
THEOREM RemovalsAreDurable == Spec => []RemovalsLast
<1>1. IndInv => RemovalsLast
  BY DEF IndInv
<1> QED BY <1>1, Inductive, PTL
===============================================================================
