------------------------- MODULE SnapshotStoreProofs -------------------------
(***************************************************************************)
(* Proofs about SnapshotStore, for any number of indexers and readers, any  *)
(* history and any entities.  First loads that read table after table,      *)
(* against transactions that commit in between; what a pass computes stays  *)
(* opaque there.  Then the refinement of SnapshotRegister: what is laid out *)
(* in rows, by this release or an earlier one, is read back as it was.      *)
(* Last the activity: the timeline shows every change, and the change rows  *)
(* replay into the entities.                                                *)
(***************************************************************************)
EXTENDS SnapshotStore, SyncCoreProofs

\* A sequence is one over the elements it has.
LEMMA RangedSeq ==
  ASSUME NEW S, NEW q \in Seq(S)
  PROVE  q \in Seq(Range(q))
  <1> DEFINE n == Len(q)
  <1>1. n \in Nat /\ DOMAIN q = 1 .. n /\ q = [i \in 1 .. n |-> q[i]]
    OBVIOUS
  <1> HIDE DEF n
  <1>2. q \in [1 .. n -> Range(q)]
    BY <1>1 DEF Range
  <1>3. [i \in 1 .. n |-> q[i]] \in Seq(Range(q))
    BY <1>1, <1>2
  <1> QED
    BY <1>1, <1>3

Tables == DOMAIN EmptyTables

\* The locals of one process.
LocalsType(x) ==
    /\ DOMAIN x = DOMAIN Idle
    /\ x.pc \in {"idle", "load", "loaded"}
    /\ x.next \in Nat \ {0}
    /\ x.pc = "load" => x.next <= Len(Statements(x.kind))
    /\ x.reset \in BOOLEAN
    /\ DOMAIN x.got = Tables

StoreType ==
    /\ DOMAIN db = Tables
    /\ DOMAIN proc = Indexers \cup Readers
    /\ \A p \in Indexers \cup Readers : LocalsType(proc[p])
    /\ DOMAIN during = Readers

\* An indexer at work holds the lock.
LockHeld == \A i \in Indexers : proc[i].pc # "idle" => lock = i

\* What a full load has read so far is what the tables hold.
ReadSame(x) ==
    \/ x.reset /\ x.pc = "loaded"
    \/ /\ x.kind = "full"
       /\ x.next > 1 => x.got.row = db.row
       /\ x.next > 2 => x.got.history = db.history
       /\ x.next > 3 => x.got.versions = db.versions
       /\ x.next > 4 => x.got.entities = db.entities
       /\ x.next > 5 => x.got.sources = db.sources
       /\ x.next > 6 => x.got.cursors = db.cursors
       /\ x.pc = "loaded" => x.next > 6 \/ (x.next > 1 /\ ~db.row.found)

\* The tables stand still under an indexer's load.
LoadInv ==
    /\ StoreType
    /\ LockHeld
    /\ \A i \in Indexers : proc[i].pc # "idle" => db.migrated /\ ReadSame(proc[i])

(***************************************************************************)
(* Steps of a process.                                                      *)
(***************************************************************************)
\* Every list of statements begins with the deployment row, and only the full
\* one does not read the entities next.
LEMMA StatementLists ==
  ASSUME NEW kind
  PROVE  /\ Statements(kind) \in Seq(Tables)
         /\ Statements(kind)[1] = "row"
         /\ Len(Statements(kind)) \in Nat
         /\ kind = "full" =>
               Statements(kind) = <<"row", "history", "versions", "entities", "sources", "cursors">>
         /\ kind # "full" => /\ Len(Statements(kind)) >= 3
                             /\ Statements(kind)[2] = "entities"
                             /\ \A n \in 3 .. Len(Statements(kind)) :
                                   Statements(kind)[n] \notin {"row", "entities"}
  <1>1. {"row", "entities", "sources", "cursors", "history", "versions"} \subseteq Tables
    BY DEF Tables, EmptyTables
  <1>2. CASE kind = "full"
    <2> DEFINE todo == <<"row", "history", "versions", "entities", "sources", "cursors">>
    <2>1. Statements(kind) = todo
      BY <1>2 DEF Statements
    <2>2. todo \in Seq(Tables) /\ Len(todo) = 6 /\ todo[1] = "row"
      BY <1>1
    <2>3. Len(todo) \in Nat
      BY <2>2
    <2> HIDE DEF todo
    <2>4. Statements(kind) \in Seq(Tables) /\ Statements(kind)[1] = "row"
          /\ Len(Statements(kind)) \in Nat
      BY <2>1, <2>2, <2>3
    <2> QED
      BY <1>2, <2>1, <2>4 DEF todo
  <1>3. CASE kind = "current"
    <2> DEFINE todo == <<"row", "entities", "sources">>
    <2>1. Statements(kind) = todo
      BY <1>3 DEF Statements
    <2>2. todo \in Seq(Tables)
      BY <1>1
    <2>3. Len(todo) = 3 /\ todo[1] = "row" /\ todo[2] = "entities" /\ todo[3] = "sources"
      OBVIOUS
    <2> HIDE DEF todo
    <2>4. \A n \in 3 .. Len(todo) : todo[n] \notin {"row", "entities"}
      BY <2>3
    <2>5. kind # "full"
      BY <1>3
    <2> HIDE DEF Statements
    <2> QED
      BY <2>1, <2>2, <2>3, <2>4, <2>5
  <1>4. CASE kind # "full" /\ kind # "current"
    <2> DEFINE todo == <<"row", "entities", "sources", "history">>
    <2>1. Statements(kind) = todo
      BY <1>4 DEF Statements
    <2>2. todo \in Seq(Tables)
      BY <1>1
    <2>3. Len(todo) = 4 /\ todo[1] = "row" /\ todo[2] = "entities" /\ todo[3] = "sources"
          /\ todo[4] = "history"
      OBVIOUS
    <2> HIDE DEF todo
    <2>4. \A n \in 3 .. Len(todo) : todo[n] \notin {"row", "entities"}
      BY <2>3
    <2> QED
      BY <1>4, <2>1, <2>2, <2>3, <2>4
  <1> QED
    BY <1>2, <1>3, <1>4

\* Locals a process may begin with.
LEMMA FreshLocals ==
  ASSUME NEW z, NEW reset \in BOOLEAN, NEW kind,
         \/ z = Idle
         \/ z = [Idle EXCEPT !.pc = "load"]
         \/ z = [Idle EXCEPT !.pc = "loaded", !.reset = reset]
         \/ z = [Idle EXCEPT !.pc = "load", !.reset = reset]
         \/ z = [Idle EXCEPT !.pc = "load", !.kind = kind]
  PROVE  LocalsType(z) /\ z.next = 1 /\ DOMAIN z = DOMAIN Idle
  <1>1. Len(Statements(z.kind)) >= 1 /\ Tables = DOMAIN EmptyTables
    BY StatementLists DEF Tables
  <1> HIDE DEF Tables
  <1> DEFINE fresh == /\ DOMAIN z = DOMAIN Idle
                      /\ z.pc \in {"idle", "load", "loaded"} /\ z.next = 1
                      /\ z.reset \in BOOLEAN /\ z.got = EmptyTables
  <1>2. fresh
    <2>1. CASE z = Idle
      BY <2>1 DEF Idle
    <2>2. CASE z = [Idle EXCEPT !.pc = "load"]
      BY <2>2 DEF Idle
    <2>3. CASE z = [Idle EXCEPT !.pc = "loaded", !.reset = reset]
      BY <2>3 DEF Idle
    <2>4. CASE z = [Idle EXCEPT !.pc = "load", !.reset = reset]
      BY <2>4 DEF Idle
    <2>5. CASE z = [Idle EXCEPT !.pc = "load", !.kind = kind]
      BY <2>5 DEF Idle
    <2> QED
      BY <2>1, <2>2, <2>3, <2>4, <2>5
  <1> QED
    BY <1>1, <1>2 DEF LocalsType

\* What an indexer begins with has read nothing yet, or needs to read nothing.
LEMMA FreshLoad ==
  ASSUME NEW reset \in BOOLEAN, NEW z,
         z = [Idle EXCEPT !.pc = IF reset THEN "loaded" ELSE "load", !.reset = reset]
  PROVE  LocalsType(z) /\ ReadSame(z)
  <1>1. CASE reset
    <2>1. z = [Idle EXCEPT !.pc = "loaded", !.reset = reset]
      BY <1>1
    <2> QED
      BY <1>1, <2>1, FreshLocals DEF ReadSame, Idle
  <1>2. CASE ~reset
    <2>1. z = [Idle EXCEPT !.pc = "load", !.reset = reset]
      BY <1>2
    <2>2. LocalsType(z) /\ z.next = 1
      BY <2>1, FreshLocals
    <2>3. z.pc = "load" /\ z.kind = "full"
      BY <2>1 DEF Idle
    <2> QED
      BY <2>2, <2>3 DEF ReadSame
  <1> QED
    BY <1>1, <1>2

\* One process's locals are replaced.
LEMMA SetProcType ==
  ASSUME StoreType, NEW p \in Indexers \cup Readers, NEW z, LocalsType(z), SetProc(p, z),
         DOMAIN db' = Tables, DOMAIN during' = Readers
  PROVE  /\ StoreType'
         /\ proc'[p] = z
         /\ \A q \in Indexers \cup Readers : q # p => proc'[q] = proc[q]
  <1>1. /\ DOMAIN proc' = Indexers \cup Readers
        /\ proc'[p] = z
        /\ \A q \in Indexers \cup Readers : q # p => proc'[q] = proc[q]
    BY DEF StoreType, SetProc
  <1>2. \A q \in Indexers \cup Readers : LocalsType(proc'[q])
    BY <1>1 DEF StoreType
  <1> QED
    BY <1>1, <1>2 DEF StoreType, Tables, LocalsType

\* One statement of a load.
LEMMA StatementRead ==
  ASSUME StoreType, NEW p \in Indexers \cup Readers, ReadStatement(p),
         NEW x, NEW y, NEW todo, NEW table,
         x = proc[p], y = proc'[p], todo = Statements(x.kind), table = todo[x.next]
  PROVE  /\ x.next \in 1 .. Len(todo) /\ table \in Tables
         /\ y.kind = x.kind /\ y.reset = x.reset /\ y.next = x.next + 1
         /\ y.got[table] = db[table]
         /\ \A t \in Tables : t # table => y.got[t] = x.got[t]
         /\ y.pc = IF x.next = Len(todo) \/ (table = "row" /\ ~db.row.found)
                   THEN "loaded" ELSE "load"
         /\ StoreType'
         /\ \A q \in Indexers \cup Readers : q # p => proc'[q] = proc[q]
  <1>1. LocalsType(x) /\ x.pc = "load"
    BY DEF StoreType, ReadStatement
  <1>2. x.next \in 1 .. Len(todo) /\ table \in Tables /\ Len(todo) \in Nat /\ x.next \in Nat
    BY <1>1, StatementLists DEF LocalsType
  <1> DEFINE done == x.next = Len(todo) \/ (table = "row" /\ ~db.row.found)
             got == [x.got EXCEPT ![table] = db[table]]
             next == x.next + 1
             pc == IF done THEN "loaded" ELSE "load"
             z == [x EXCEPT !.got = got, !.next = next, !.pc = pc]
  <1>3. SetProc(p, [x EXCEPT !.got[table] = db[table], !.next = @ + 1, !.pc = pc])
    BY DEF ReadStatement
  <1>4. SetProc(p, z)
    BY <1>3
  <1>5. /\ DOMAIN got = Tables /\ got[table] = db[table]
        /\ \A t \in Tables : t # table => got[t] = x.got[t]
    BY <1>1, <1>2 DEF LocalsType
  <1>6. pc \in {"load", "loaded"} /\ (pc = "load" => x.next # Len(todo))
    OBVIOUS
  <1>7. next \in Nat \ {0} /\ (pc = "load" => next <= Len(todo))
    BY <1>2, <1>6
  <1> HIDE DEF got, next, pc
  <1>8. /\ DOMAIN z = DOMAIN Idle /\ z.got = got /\ z.next = next /\ z.pc = pc
        /\ z.kind = x.kind /\ z.reset = x.reset
    BY <1>1 DEF LocalsType, Idle
  <1> HIDE DEF z
  <1>9. LocalsType(z)
    BY <1>1, <1>5, <1>6, <1>7, <1>8 DEF LocalsType
  <1>10. /\ StoreType' /\ proc'[p] = z
         /\ \A q \in Indexers \cup Readers : q # p => proc'[q] = proc[q]
    BY <1>4, <1>9, SetProcType DEF ReadStatement, StoreType, Tables
  <1> QED
    BY <1>2, <1>5, <1>8, <1>10 DEF next, pc

(***************************************************************************)
(* The tables under an indexer's load.                                      *)
(***************************************************************************)
\* The next statement of a full load reads what the tables hold now.
LEMMA SameRead ==
  ASSUME LoadInv, NEW p \in Indexers, ReadStatement(p)
  PROVE  ReadSame(proc[p])'
  <1> DEFINE x == proc[p]
             y == proc'[p]
             todo == Statements(x.kind)
             table == todo[x.next]
  <1>0. StoreType /\ p \in Indexers \cup Readers /\ ReadSame(x) /\ x.pc = "load" /\ db' = db
    BY DEF LoadInv, ReadStatement
  <1>1. /\ x.next \in 1 .. Len(todo) /\ table \in Tables
        /\ y.kind = x.kind /\ y.reset = x.reset /\ y.next = x.next + 1
        /\ y.got[table] = db[table]
        /\ \A t \in Tables : t # table => y.got[t] = x.got[t]
        /\ y.pc = IF x.next = Len(todo) \/ (table = "row" /\ ~db.row.found)
                  THEN "loaded" ELSE "load"
    BY <1>0, StatementRead
  <1>2. /\ x.kind = "full"
        /\ todo = <<"row", "history", "versions", "entities", "sources", "cursors">>
    BY <1>0, StatementLists DEF ReadSame
  <1>3. x.next \in 1 .. 6 /\ Len(todo) = 6
    BY <1>1, <1>2
  <1>4. /\ x.next = 1 => table = "row"
        /\ x.next = 2 => table = "history"
        /\ x.next = 3 => table = "versions"
        /\ x.next = 4 => table = "entities"
        /\ x.next = 5 => table = "sources"
        /\ x.next = 6 => table = "cursors"
    BY <1>2
  <1>5. {"row", "entities", "sources", "cursors", "history", "versions"} \subseteq Tables
    BY DEF Tables, EmptyTables
  <1> HIDE DEF todo, table, x, y
  <1>6. ASSUME NEW t \in Tables, y.got[t] # db[t]
        PROVE  t # table /\ y.got[t] = x.got[t] /\ x.got[t] # db[t]
    BY <1>1, <1>6
  <1>7. /\ y.next > 1 => y.got["row"] = db["row"]
        /\ y.next > 2 => y.got["history"] = db["history"]
        /\ y.next > 3 => y.got["versions"] = db["versions"]
        /\ y.next > 4 => y.got["entities"] = db["entities"]
        /\ y.next > 5 => y.got["sources"] = db["sources"]
        /\ y.next > 6 => y.got["cursors"] = db["cursors"]
    <2>1. /\ x.next > 1 => x.got["row"] = db["row"]
          /\ x.next > 2 => x.got["history"] = db["history"]
          /\ x.next > 3 => x.got["versions"] = db["versions"]
          /\ x.next > 4 => x.got["entities"] = db["entities"]
          /\ x.next > 5 => x.got["sources"] = db["sources"]
      BY <1>0, <1>3 DEF ReadSame
    <2> QED
      BY <1>1, <1>3, <1>4, <1>5, <1>6, <2>1
  <1>8. y.pc = "loaded" => y.next > 6 \/ (y.next > 1 /\ ~db.row.found)
    BY <1>1, <1>3
  <1> QED
    BY <1>0, <1>1, <1>2, <1>7, <1>8 DEF ReadSame, y

\* A whole load is the snapshot in force.
LEMMA LoadedIsStored ==
  ASSUME LoadInv, NEW i \in Indexers, proc[i].pc = "loaded"
  PROVE  PassOutcomes(LoadPostgresSnapshot(proc[i].got), proc[i].reset)
           = PassOutcomes(LoadPostgresSnapshot(db), proc[i].reset)
  <1> DEFINE x == proc[i]
  <1>1. ReadSame(x) /\ x.pc = "loaded"
    BY DEF LoadInv
  <1>t. x.next \in Nat
    BY DEF LoadInv, StoreType, LocalsType
  <1> HIDE DEF x
  <1>2. CASE x.reset
    BY <1>2 DEF PassOutcomes, x
  <1>3. CASE ~x.reset
    <2>1. x.got.row = db.row
      BY <1>1, <1>3, <1>t DEF ReadSame
    <2>2. CASE ~db.row.found
      BY <2>1, <2>2 DEF LoadPostgresSnapshot, x
    <2>3. CASE db.row.found
      <3>1. /\ x.got.history = db.history /\ x.got.versions = db.versions
            /\ x.got.entities = db.entities /\ x.got.sources = db.sources
            /\ x.got.cursors = db.cursors
        <4>1. x.next > 6 /\ x.next \in Nat
          BY <1>1, <1>3, <1>t, <2>3 DEF ReadSame
        <4> QED
          BY <1>1, <1>3, <4>1 DEF ReadSame
      <3> QED
        BY <2>1, <3>1 DEF LoadPostgresSnapshot, x
    <2> QED
      BY <2>2, <2>3
  <1> QED
    BY <1>2, <1>3 DEF x

\* It holds at first ...
LEMMA LoadInit == Init => LoadInv
  <1> SUFFICES ASSUME Init PROVE LoadInv
    OBVIOUS
  <1>1. \A p \in Indexers \cup Readers : proc[p] = Idle /\ proc[p].pc = "idle"
    BY DEF Init, Idle
  <1>2. DOMAIN db = Tables
    BY DEF Init, LegacyTables, Tables, EmptyTables
  <1>3. \A p \in Indexers \cup Readers : LocalsType(proc[p])
    BY <1>1, FreshLocals
  <1> QED
    BY <1>1, <1>2, <1>3 DEF Init, LoadInv, StoreType, LockHeld

\* The steps that change the tables or hand the lock on.
LEMMA AcquireLoad ==
  ASSUME LoadInv, NEW i \in Indexers, AcquireIndexerLock(i)
  PROVE  LoadInv'
  <1>1. PICK reset \in ResetArgs :
          SetProc(i, [Idle EXCEPT !.pc = IF reset THEN "loaded" ELSE "load", !.reset = reset])
    BY DEF AcquireIndexerLock
  <1> DEFINE z == [Idle EXCEPT !.pc = IF reset THEN "loaded" ELSE "load", !.reset = reset]
  <1>2. reset \in BOOLEAN
    BY StoreConstants
  <1>3. LocalsType(z) /\ ReadSame(z)
    BY <1>2, FreshLoad
  <1>4. /\ StoreType /\ i \in Indexers \cup Readers /\ DOMAIN db' = Tables
        /\ DOMAIN during' = Readers /\ SetProc(i, z)
    BY <1>1 DEF LoadInv, StoreType, AcquireIndexerLock
  <1> HIDE DEF z
  <1>5. /\ StoreType' /\ proc'[i] = z
        /\ \A q \in Indexers \cup Readers : q # i => proc'[q] = proc[q]
    BY <1>3, <1>4, SetProcType
  <1>6. \A j \in Indexers : proc[j].pc = "idle"
    BY StoreConstants DEF LoadInv, LockHeld, AcquireIndexerLock
  <1>7. ReadSame(proc[i])'
    BY <1>3, <1>5 DEF ReadSame, AcquireIndexerLock
  <1> QED
    BY <1>5, <1>6, <1>7 DEF LoadInv, LockHeld, AcquireIndexerLock

\* A commit: only the writer was at work, and it begins a new load.
LEMMA WriteLoad ==
  ASSUME LoadInv, NEW i \in Indexers, WriteSnapshot(i)
  PROVE  LoadInv'
  <1>1. lock = i /\ lock' = lock /\ \A j \in Indexers : j # i => proc[j].pc = "idle"
    BY DEF LoadInv, LockHeld, WriteSnapshot
  <1>2. PICK o : db' = WriteTables(db, o, proc[i].reset)
    BY DEF WriteSnapshot
  <1>3. DOMAIN db' = DOMAIN db /\ db'.migrated = db.migrated
    BY <1>2 DEF WriteTables, LoadInv, StoreType, Tables, EmptyTables
  <1> DEFINE z == [Idle EXCEPT !.pc = "load"]
  <1>4. LocalsType(z) /\ z.next = 1 /\ z.kind = "full" /\ z.pc = "load"
    BY FreshLocals DEF Idle
  <1>5. /\ StoreType /\ i \in Indexers \cup Readers /\ DOMAIN db' = Tables
        /\ DOMAIN during' = Readers /\ SetProc(i, z)
    BY <1>3 DEF LoadInv, StoreType, WriteSnapshot
  <1> HIDE DEF z
  <1>6. /\ StoreType' /\ proc'[i] = z
        /\ \A q \in Indexers \cup Readers : q # i => proc'[q] = proc[q]
    BY <1>4, <1>5, SetProcType
  <1>7. ReadSame(proc[i])'
    BY <1>4, <1>6 DEF ReadSame
  <1>8. db'.migrated
    BY <1>3 DEF LoadInv, WriteSnapshot
  <1> QED
    BY <1>1, <1>6, <1>7, <1>8 DEF LoadInv, LockHeld

\* A process ends, fails or starts over.
LEMMA EndLoad ==
  ASSUME LoadInv, NEW p \in Indexers \cup Readers,
         Finish(p) \/ (p \in Indexers /\ Fail(p))
  PROVE  LoadInv'
  <1>1. PICK z : /\ z = Idle \/ (p \in Indexers /\ z = [Idle EXCEPT !.pc = "load"])
                 /\ SetProc(p, z)
                 /\ z # Idle => lock' = lock
                 /\ z = Idle => lock' = IF lock = p THEN NoOne ELSE lock
    <2>1. Idle # [Idle EXCEPT !.pc = "load"]
      BY DEF Idle
    <2> QED
      BY <2>1 DEF Finish, Fail
  <1>2. LocalsType(z) /\ z.next = 1 /\ z.kind = "full" /\ z.pc \in {"idle", "load"}
        /\ (z = Idle => z.pc = "idle")
    <2>1. CASE z = Idle
      <3>1. LocalsType(z) /\ z.next = 1
        BY <2>1, FreshLocals
      <3> QED
        BY <2>1, <3>1 DEF Idle
    <2>2. CASE z = [Idle EXCEPT !.pc = "load"]
      <3>1. LocalsType(z) /\ z.next = 1
        BY <2>2, FreshLocals
      <3>2. z.kind = "full" /\ z.pc = "load"
        BY <2>2 DEF Idle
      <3> QED
        BY <3>1, <3>2 DEF Idle
    <2> QED
      BY <1>1, <2>1, <2>2
  <1>3. /\ StoreType /\ DOMAIN db' = Tables /\ DOMAIN during' = Readers /\ db' = db
        /\ proc[p].pc # "idle"
    BY DEF LoadInv, StoreType, Finish, Fail
  <1>4. /\ StoreType' /\ proc'[p] = z
        /\ \A q \in Indexers \cup Readers : q # p => proc'[q] = proc[q]
    BY <1>1, <1>2, <1>3, SetProcType
  <1>5. ASSUME NEW i \in Indexers, proc'[i].pc # "idle"
        PROVE  lock' = i /\ db'.migrated /\ ReadSame(proc[i])'
    <2>1. CASE i = p
      <3>1. lock = i /\ db.migrated
        BY <1>3, <2>1 DEF LoadInv, LockHeld
      <3>2. z # Idle /\ lock' = lock
        BY <1>1, <1>2, <1>4, <1>5, <2>1
      <3>3. ReadSame(proc[i])'
        <4>1. proc'[i].next = 1 /\ proc'[i].kind = "full" /\ proc'[i].pc = "load"
          BY <1>2, <1>4, <1>5, <2>1
        <4> QED
          BY <4>1 DEF ReadSame
      <3> QED
        BY <1>3, <3>1, <3>2, <3>3
    <2>2. CASE i # p
      <3>1. proc'[i] = proc[i] /\ lock = i /\ db.migrated /\ ReadSame(proc[i])
        BY <1>4, <1>5, <2>2 DEF LoadInv, LockHeld
      <3> QED
        BY <1>1, <1>3, <2>2, <3>1 DEF ReadSame
    <2> QED
      BY <2>1, <2>2
  <1> QED
    BY <1>4, <1>5 DEF LoadInv, LockHeld

\* ... and every step keeps it.
LEMMA LoadStep == LoadInv /\ [Next]_vars => LoadInv'
  <1> SUFFICES ASSUME LoadInv, [Next]_vars PROVE LoadInv'
    OBVIOUS
  <1>1. CASE Migrate
    <2>1. \A i \in Indexers : proc[i].pc = "idle"
      BY <1>1 DEF LoadInv, Migrate
    <2>2. DOMAIN db' = Tables
      BY <1>1 DEF Migrate, LoadInv, StoreType
    <2>3. StoreType'
      BY <1>1, <2>2 DEF Migrate, LoadInv, StoreType, LocalsType, Tables
    <2> QED
      BY <1>1, <2>1, <2>3 DEF Migrate, LoadInv, LockHeld
  <1>2. ASSUME NEW i \in Indexers, AcquireIndexerLock(i) PROVE LoadInv'
    BY <1>2, AcquireLoad
  <1>3. ASSUME NEW i \in Indexers, WriteSnapshot(i) PROVE LoadInv'
    BY <1>3, WriteLoad
  <1>4. ASSUME NEW p \in Indexers \cup Readers, Finish(p) \/ (p \in Indexers /\ Fail(p))
        PROVE  LoadInv'
    BY <1>4, EndLoad
  <1>5. ASSUME NEW r \in Readers, StartRead(r) PROVE LoadInv'
    <2>1. PICK kind \in ReadKinds : SetProc(r, [Idle EXCEPT !.pc = "load", !.kind = kind])
      BY <1>5 DEF StartRead
    <2> DEFINE z == [Idle EXCEPT !.pc = "load", !.kind = kind]
    <2>2. LocalsType(z)
      BY FreshLocals
    <2>3. DOMAIN during' = Readers /\ DOMAIN db' = Tables /\ StoreType /\ SetProc(r, z)
      BY <1>5, <2>1 DEF StartRead, LoadInv, StoreType
    <2> HIDE DEF z
    <2>4. StoreType' /\ \A q \in Indexers \cup Readers : q # r => proc'[q] = proc[q]
      BY <2>2, <2>3, SetProcType
    <2>5. \A i \in Indexers : proc'[i] = proc[i]
      BY <2>4, StoreConstants
    <2> QED
      BY <1>5, <2>4, <2>5 DEF StartRead, LoadInv, LockHeld, ReadSame
  <1>6. ASSUME NEW p \in Indexers \cup Readers, ReadStatement(p) PROVE LoadInv'
    <2>1. StoreType' /\ \A q \in Indexers \cup Readers : q # p => proc'[q] = proc[q]
      BY <1>6, StatementRead DEF LoadInv
    <2>2. db' = db /\ lock' = lock /\ proc[p].pc # "idle"
      BY <1>6 DEF ReadStatement
    <2>3. ASSUME NEW i \in Indexers, proc'[i].pc # "idle"
          PROVE  lock' = i /\ db'.migrated /\ ReadSame(proc[i])'
      <3>1. CASE i = p
        BY <1>6, <2>2, <3>1, SameRead DEF LoadInv, LockHeld
      <3>2. CASE i # p
        <4>1. proc'[i] = proc[i] /\ lock = i /\ db.migrated /\ ReadSame(proc[i])
          BY <2>1, <2>3, <3>2 DEF LoadInv, LockHeld
        <4> QED
          BY <2>2, <4>1 DEF ReadSame
      <3> QED
        BY <3>1, <3>2
    <2> QED
      BY <2>1, <2>3 DEF LoadInv, LockHeld
  <1>7. CASE UNCHANGED vars
    BY <1>7 DEF vars, LoadInv, StoreType, LocalsType, Tables, LockHeld, ReadSame
  <1> QED
    BY <1>1, <1>2, <1>3, <1>4, <1>5, <1>6, <1>7 DEF Next

\* Under the lock no update is lost: every transaction commits a pass over the
\* snapshot the tables hold at that moment.
THEOREM NoLostUpdate == Spec => PassOverStored
  <1>1. LoadInv /\ [Next]_vars =>
          [writes' # writes =>
              \E reset \in BOOLEAN :
                  \E o \in PassOutcomes(LoadPostgresSnapshot(db), reset) :
                      db' = WriteTables(db, o, reset)]_vars
    <2> SUFFICES ASSUME LoadInv, Next, writes' # writes
                 PROVE  \E reset \in BOOLEAN :
                            \E o \in PassOutcomes(LoadPostgresSnapshot(db), reset) :
                                db' = WriteTables(db, o, reset)
      OBVIOUS
    <2>1. PICK i \in Indexers : WriteSnapshot(i)
      BY DEF Next, Migrate, AcquireIndexerLock, Fail, StartRead, ReadStatement, Finish
    <2>2. PICK o \in PassOutcomes(LoadPostgresSnapshot(proc[i].got), proc[i].reset) :
            db' = WriteTables(db, o, proc[i].reset)
      BY <2>1 DEF WriteSnapshot
    <2>3. o \in PassOutcomes(LoadPostgresSnapshot(db), proc[i].reset)
      BY <2>1, <2>2, LoadedIsStored DEF WriteSnapshot
    <2>4. proc[i].reset \in BOOLEAN
      BY DEF LoadInv, StoreType, LocalsType
    <2> QED
      BY <2>2, <2>3, <2>4
  <1> QED
    BY <1>1, LoadInit, LoadStep, PTL DEF Spec, PassOverStored

(***************************************************************************)
(* What a reader may put together.  The ghost `during' lists the snapshots  *)
(* in force since its load began; the last one is in the tables now.        *)
(***************************************************************************)
Versions(d) == d \in Seq(Range(d)) /\ d # <<>>

\* The checkpoint and the entities of the tables.
InForce(d) ==
    db.row.found => /\ d[Len(d)].ckpt = db.row.ckpt
                    /\ d[Len(d)].applied = db.entities

\* Some version had this checkpoint, and this or a later one these entities.
Seen(d, ckpt) == \E i \in DOMAIN d : d[i].ckpt = ckpt

SeenBefore(d, ckpt, entities) ==
    \E i, j \in DOMAIN d : i <= j /\ d[i].ckpt = ckpt /\ d[j].applied = entities

ReaderView(x, d) ==
    /\ x.pc = "idle" => d = <<>>
    /\ x.pc # "idle" =>
          /\ Versions(d)
          /\ InForce(d)
          /\ x.kind # "full" =>
                /\ x.next > 1 /\ x.got.row.found => db.row.found /\ Seen(d, x.got.row.ckpt)
                /\ x.next > 2 /\ x.got.row.found =>
                      SeenBefore(d, x.got.row.ckpt, x.got.entities)
                /\ x.next > 1 => x.pc = "loaded" \/ x.got.row.found
                /\ x.pc = "loaded" => x.next > 2 \/ ~x.got.row.found

ViewInv == StoreType /\ \A r \in Readers : ReaderView(proc[r], during[r])

\* The last version is one of them.
LEMMA LastVersion ==
  ASSUME NEW d, Versions(d)
  PROVE  /\ Len(d) \in DOMAIN d /\ DOMAIN d \subseteq Nat
         /\ \A i \in DOMAIN d : i <= Len(d)
  <1>1. d \in Seq(Range(d)) /\ d # <<>>
    BY DEF Versions
  <1>2. DOMAIN d = 1 .. Len(d) /\ Len(d) \in Nat /\ Len(d) # 0
    BY <1>1
  <1> QED
    BY <1>2

\* One more version in force.
OneLonger(e, d, s) == e = Append(d, s)

\* A snapshot that is committed while a reader loads is one more of its versions.
LEMMA OneMore ==
  ASSUME NEW d, NEW s, NEW e, Versions(d), OneLonger(e, d, s)
  PROVE  /\ Versions(e)
         /\ e[Len(e)] = s
         /\ \A i \in DOMAIN d : i \in DOMAIN e /\ e[i] = d[i]
  <1> DEFINE S == Range(d) \cup {s}
  <1>1. d \in Seq(S)
    <2>1. d \in Seq(Range(d)) /\ Range(d) \subseteq S
      BY DEF Versions
    <2> HIDE DEF S
    <2> QED
      BY <2>1
  <1>s. s \in S
    OBVIOUS
  <1> HIDE DEF S
  <1>2. /\ e \in Seq(S) /\ Len(e) = Len(d) + 1 /\ e[Len(d) + 1] = s
        /\ DOMAIN d = 1 .. Len(d) /\ DOMAIN e = 1 .. Len(e) /\ Len(d) \in Nat
        /\ \A i \in 1 .. Len(d) : e[i] = d[i]
    BY <1>1, <1>s DEF OneLonger
  <1>3. e \in Seq(Range(e))
    BY <1>2, RangedSeq
  <1>4. Len(d) # 0 /\ e # <<>>
    BY <1>1, <1>2 DEF Versions
  <1> QED
    BY <1>2, <1>3, <1>4 DEF Versions

\* The view of a reader while somebody else moves and the tables stay.
LEMMA ViewKept ==
  ASSUME NEW x, NEW d, ReaderView(x, d), db'.row = db.row, db'.entities = db.entities
  PROVE  ReaderView(x, d)'
  BY DEF ReaderView, InForce

\* A commit is one more version for everyone who is loading.
LEMMA ViewOfCommit ==
  ASSUME StoreType, NEW i \in Indexers, NEW r \in Readers, WriteSnapshot(i),
         ReaderView(proc[r], during[r]), proc'[r] = proc[r]
  PROVE  ReaderView(proc[r], during[r])'
  <1>x. PICK x, d : x = proc[r] /\ d = during[r]
    OBVIOUS
  <1>1. PICK o : /\ db' = WriteTables(db, o, proc[i].reset)
                 /\ during'[r] = IF d = <<>> THEN <<>> ELSE Append(d, o.snap)
    BY <1>x DEF WriteSnapshot
  <1> DEFINE e == Append(d, o.snap)
  <1>2. db'.row.found /\ db'.row.ckpt = o.snap.ckpt /\ db'.entities = o.snap.applied
    BY <1>1 DEF WriteTables, StoreType, Tables, EmptyTables
  <1>3. CASE x.pc = "idle"
    BY <1>x, <1>1, <1>3 DEF ReaderView
  <1>4. CASE x.pc # "idle"
    <2>1. Versions(d) /\ ReaderView(x, d)
      BY <1>x, <1>4 DEF ReaderView
    <2>2. during'[r] = e
      BY <1>1, <2>1 DEF Versions
    <2>s. PICK s : s = o.snap
      OBVIOUS
    <2>e. OneLonger(e, d, s)
      BY <2>s DEF OneLonger
    <2> HIDE DEF e
    <2>3. /\ Versions(e) /\ e[Len(e)] = s
          /\ \A n \in DOMAIN d : n \in DOMAIN e /\ e[n] = d[n]
      BY <2>1, <2>e, OneMore
    <2>4. \A ckpt : Seen(d, ckpt) => Seen(e, ckpt)
      BY <2>3 DEF Seen
    <2>5. \A ckpt, entities : SeenBefore(d, ckpt, entities) => SeenBefore(e, ckpt, entities)
      BY <2>3 DEF SeenBefore
    <2>6. ReaderView(x, e)'
      BY <1>2, <1>4, <2>1, <2>s, <2>3, <2>4, <2>5 DEF ReaderView, InForce
    <2>7. x = proc'[r] /\ e = during'[r]
      BY <1>x, <2>2
    <2> QED
      BY <2>6, <2>7
  <1> QED
    BY <1>3, <1>4

\* A reader's own statement.
LEMMA ViewOfRead ==
  ASSUME StoreType, NEW r \in Readers, ReadStatement(r), ReaderView(proc[r], during[r])
  PROVE  ReaderView(proc[r], during[r])'
  <1> DEFINE x == proc[r]
             y == proc'[r]
             d == during[r]
             todo == Statements(x.kind)
             table == todo[x.next]
  <1>0. x.pc = "load" /\ db' = db /\ during' = during /\ r \in Indexers \cup Readers
    BY DEF ReadStatement
  <1>1. /\ x.next \in 1 .. Len(todo) /\ table \in Tables
        /\ y.kind = x.kind /\ y.next = x.next + 1
        /\ y.got[table] = db[table]
        /\ \A t \in Tables : t # table => y.got[t] = x.got[t]
        /\ y.pc = IF x.next = Len(todo) \/ (table = "row" /\ ~db.row.found)
                  THEN "loaded" ELSE "load"
    BY <1>0, StatementRead
  <1>2. Versions(d) /\ InForce(d) /\ ReaderView(x, d)
    BY <1>0 DEF ReaderView
  <1>3. CASE x.kind = "full"
    BY <1>0, <1>1, <1>2, <1>3 DEF ReaderView, InForce
  <1>4. CASE x.kind # "full"
    <2>1. /\ todo[1] = "row" /\ todo[2] = "entities" /\ Len(todo) >= 3 /\ Len(todo) \in Nat
          /\ \A n \in 3 .. Len(todo) : todo[n] \notin {"row", "entities"}
      BY <1>4, StatementLists
    <2>2. "row" \in Tables /\ "entities" \in Tables
      BY DEF Tables, EmptyTables
    <2>3. Len(d) \in DOMAIN d /\ DOMAIN d \subseteq Nat /\ \A n \in DOMAIN d : n <= Len(d)
      BY <1>2, LastVersion
    <2> HIDE DEF x, y, d, todo
    <2>4. CASE x.next = 1
      <3>1. y.got.row = db.row /\ y.next = 2 /\ (y.pc = "loaded" <=> ~db.row.found)
            /\ y.pc \in {"load", "loaded"}
        BY <1>1, <2>1, <2>4
      <3>2. db.row.found => Seen(d, db.row.ckpt)
        BY <1>2, <2>3 DEF InForce, Seen
      <3> QED
        BY <1>0, <1>1, <1>2, <1>4, <3>1, <3>2 DEF ReaderView, InForce, x, y, d
    <2>5. CASE x.next = 2
      <3>1. /\ y.got.entities = db.entities /\ y.got.row = x.got.row /\ y.next = 3
            /\ y.pc = "load"
        BY <1>1, <2>1, <2>2, <2>5
      <3>2. x.got.row.found /\ db.row.found /\ Seen(d, x.got.row.ckpt)
        BY <1>0, <1>2, <1>4, <2>5 DEF ReaderView
      <3>3. SeenBefore(d, x.got.row.ckpt, db.entities)
        BY <1>2, <2>3, <3>2 DEF Seen, SeenBefore, InForce
      <3> QED
        BY <1>0, <1>1, <1>2, <1>4, <3>1, <3>2, <3>3 DEF ReaderView, InForce, x, y, d
    <2>6. CASE x.next > 2
      <3>1. x.next \in 3 .. Len(todo) /\ y.next \in Nat /\ y.next > 2
        BY <1>1, <2>1, <2>6
      <3>2. table # "row" /\ table # "entities"
        BY <2>1, <3>1
      <3>3. y.got.entities = x.got.entities /\ y.got.row = x.got.row /\ y.pc \in {"load", "loaded"}
        BY <1>1, <2>2, <3>2
      <3>4. x.got.row.found => /\ db.row.found /\ Seen(d, x.got.row.ckpt)
                               /\ SeenBefore(d, x.got.row.ckpt, x.got.entities)
        BY <1>0, <1>2, <1>4, <2>6, <3>1 DEF ReaderView
      <3>5. x.got.row.found
        BY <1>0, <1>2, <1>4, <2>6, <3>1 DEF ReaderView
      <3> QED
        BY <1>0, <1>1, <1>2, <1>4, <3>1, <3>3, <3>4, <3>5 DEF ReaderView, InForce, x, y, d
    <2>7. x.next = 1 \/ x.next = 2 \/ x.next > 2
      BY <1>1, <2>1
    <2> QED
      BY <2>4, <2>5, <2>6, <2>7
  <1> QED
    BY <1>3, <1>4

\* The readers' invariant holds at first ...
LEMMA ViewInit == Init => ViewInv
  <1> SUFFICES ASSUME Init PROVE ViewInv
    OBVIOUS
  <1>1. \A r \in Readers : proc[r].pc = "idle" /\ during[r] = <<>>
    BY DEF Init, Idle
  <1> QED
    BY <1>1, LoadInit DEF LoadInv, ViewInv, ReaderView

\* ... and every step keeps it.
LEMMA ViewStep == LoadInv /\ LoadInv' /\ ViewInv /\ [Next]_vars => ViewInv'
  <1> SUFFICES ASSUME LoadInv, LoadInv', ViewInv, [Next]_vars,
                      NEW r \in Readers
               PROVE  ReaderView(proc[r], during[r])'
    BY DEF LoadInv, ViewInv
  <1>0. StoreType /\ ReaderView(proc[r], during[r]) /\ r \in Indexers \cup Readers
        /\ r \notin Indexers
    BY StoreConstants DEF ViewInv
  <1>i. ASSUME NEW p \in Indexers \cup Readers, NEW z, SetProc(p, z)
        PROVE  /\ p = r => proc'[r] = z
               /\ p # r => proc'[r] = proc[r]
    BY <1>0, <1>i DEF SetProc, StoreType
  <1>k. ASSUME proc'[r] = proc[r], during'[r] = during[r],
               db'.row = db.row, db'.entities = db.entities
        PROVE  ReaderView(proc[r], during[r])'
    <2>1. PICK x, d : x = proc[r] /\ d = during[r]
      OBVIOUS
    <2>2. ReaderView(x, d)'
      BY <1>0, <1>k, <2>1, ViewKept
    <2>3. x = proc'[r] /\ d = during'[r]
      BY <1>k, <2>1
    <2> QED
      BY <2>2, <2>3
  <1>1. CASE Migrate
    <2>1. db'.row = db.row /\ db'.entities = db.entities
      BY <1>0, <1>1 DEF Migrate, StoreType, Tables, EmptyTables
    <2> QED
      BY <1>1, <1>k, <2>1 DEF Migrate
  <1>2. ASSUME NEW i \in Indexers, AcquireIndexerLock(i) \/ Fail(i)
        PROVE  ReaderView(proc[r], during[r])'
    <2>1. i # r /\ (\E z : SetProc(i, z)) /\ db' = db /\ during' = during
      BY <1>0, <1>2 DEF AcquireIndexerLock, Fail
    <2> QED
      BY <1>i, <1>k, <2>1
  <1>3. ASSUME NEW i \in Indexers, WriteSnapshot(i)
        PROVE  ReaderView(proc[r], during[r])'
    <2>1. i # r /\ (\E z : SetProc(i, z))
      BY <1>0, <1>3 DEF WriteSnapshot
    <2> QED
      BY <1>0, <1>3, <1>i, <2>1, ViewOfCommit
  <1>4. ASSUME NEW p \in Readers, StartRead(p)
        PROVE  ReaderView(proc[r], during[r])'
    <2>0. db' = db /\ during' = [during EXCEPT ![p] = <<LoadPostgresSnapshot(db)>>]
      BY <1>4 DEF StartRead
    <2>1. PICK kind : SetProc(p, [Idle EXCEPT !.pc = "load", !.kind = kind])
      BY <1>4 DEF StartRead
    <2>2. CASE p # r
      <3>1. during'[r] = during[r]
        BY <2>0, <2>2 DEF StoreType
      <3>2. proc'[r] = proc[r]
        BY <1>i, <2>1, <2>2
      <3> QED
        BY <1>k, <2>0, <3>1, <3>2
    <2>3. CASE p = r
      <3> DEFINE z == [Idle EXCEPT !.pc = "load", !.kind = kind]
                 s == LoadPostgresSnapshot(db)
                 d == <<s>>
      <3>1. proc'[r] = z
        BY <1>i, <2>1, <2>3
      <3>2. during'[r] = d
        BY <1>0, <2>0, <2>3 DEF StoreType
      <3>3. z.pc = "load" /\ z.next = 1
        BY DEF Idle
      <3>4. db.row.found => s.ckpt = db.row.ckpt /\ s.applied = db.entities
        BY DEF LoadPostgresSnapshot
      <3> HIDE DEF z, s
      <3>5. d \in Seq({s}) /\ d # <<>> /\ Len(d) = 1 /\ d[1] = s
        OBVIOUS
      <3>6. Versions(d)
        BY <3>5, RangedSeq DEF Versions
      <3> HIDE DEF d
      <3>7. d[Len(d)] = s
        BY <3>5
      <3> QED
        BY <2>0, <3>1, <3>2, <3>3, <3>4, <3>6, <3>7 DEF ReaderView, InForce, Versions
    <2> QED
      BY <2>2, <2>3
  <1>5. ASSUME NEW p \in Indexers \cup Readers, ReadStatement(p)
        PROVE  ReaderView(proc[r], during[r])'
    <2>1. CASE p = r
      BY <1>0, <1>5, <2>1, ViewOfRead
    <2>2. CASE p # r
      <3>1. db' = db /\ during' = during /\ \E z : SetProc(p, z)
        BY <1>5 DEF ReadStatement
      <3> QED
        BY <1>i, <1>k, <2>2, <3>1
    <2> QED
      BY <2>1, <2>2
  <1>6. ASSUME NEW p \in Indexers \cup Readers, Finish(p)
        PROVE  ReaderView(proc[r], during[r])'
    <2>1. SetProc(p, Idle) /\ db' = db /\ during'[r] = IF r = p THEN <<>> ELSE during[r]
      BY <1>6 DEF Finish
    <2>2. CASE p = r
      <3>1. proc'[r] = Idle /\ during'[r] = <<>> /\ Idle.pc = "idle"
        BY <1>i, <2>1, <2>2 DEF Idle
      <3> QED
        BY <3>1 DEF ReaderView
    <2>3. CASE p # r
      BY <1>i, <1>k, <2>1, <2>3
    <2> QED
      BY <2>2, <2>3
  <1>7. CASE UNCHANGED vars
    BY <1>7, <1>k DEF vars
  <1> QED
    BY <1>1, <1>2, <1>3, <1>4, <1>5, <1>6, <1>7 DEF Next

\* A current-state or status answer never shows entities older than the block
\* it names, however many transactions commit between its statements.
THEOREM AnswersAreNotOlder == Spec => []MetaIsLowerBound
  <1>1. ViewInv => MetaIsLowerBound
    <2> SUFFICES ASSUME ViewInv, NEW r \in Readers, Answered(r), proc[r].kind # "full"
                 PROVE  SeenBefore(during[r], proc[r].got.row.ckpt, proc[r].got.entities)
      BY DEF MetaIsLowerBound, SeenBefore
    <2>1. ReaderView(proc[r], during[r]) /\ proc[r].next \in Nat
      BY DEF ViewInv, StoreType, LocalsType
    <2> QED
      BY <2>1 DEF ReaderView, Answered
  <1> QED
    BY <1>1, LoadInit, LoadStep, ViewInit, ViewStep, PTL DEF Spec

(***************************************************************************)
(* Deltas.  The rows of one retained block turn the entities of the block   *)
(* before it into its own.                                                  *)
(***************************************************************************)
\* Removed keys are the ones that go, the other rows hold new values, and every
\* difference has a row.
Explains(rows, a, b) ==
    /\ \A v \in rows : v.removed => v.key \notin DOMAIN b
    /\ \A v \in rows : ~v.removed => v.key \in DOMAIN b /\ v.data = b[v.key]
    /\ \A k \in DOMAIN a : k \in DOMAIN b \/ \E v \in rows : v.removed /\ v.key = k
    /\ \A k \in DOMAIN b : \/ k \in DOMAIN a /\ a[k] = b[k]
                           \/ \E v \in rows : ~v.removed /\ v.key = k

\* What was written as a difference is read back as the entities.
LEMMA ApplyFacts ==
  ASSUME NEW a, NEW b, IsMap(b), NEW rows, Explains(rows, a, b)
  PROVE  ApplyVersions(a, rows) = b
  <1> DEFINE gone == {v.key : v \in {w \in rows : w.removed}}
             set  == {w \in rows : ~w.removed}
             dom  == (DOMAIN a \ gone) \cup {v.key : v \in set}
  <1>1. ApplyVersions(a, rows) =
          [k \in dom |-> IF \E v \in set : v.key = k THEN (CHOOSE v \in set : v.key = k).data
                         ELSE a[k]]
    BY DEF ApplyVersions
  <1>2. \A k : k \in gone => k \notin DOMAIN b
    BY DEF Explains
  <1>3. \A k \in DOMAIN a : k \in DOMAIN b \/ k \in gone
    BY DEF Explains
  <1>4. \A v \in set : v.key \in DOMAIN b /\ v.data = b[v.key]
    BY DEF Explains
  <1>5. \A k \in DOMAIN b : \/ k \in DOMAIN a /\ a[k] = b[k]
                            \/ \E v \in set : v.key = k
    BY DEF Explains
  <1>s. \A k : k \in {v.key : v \in set} <=> \E v \in set : v.key = k
    OBVIOUS
  <1> HIDE DEF gone, set
  <1>6. dom = DOMAIN b
    <2>1. \A k \in dom : k \in DOMAIN b
      BY <1>3, <1>4, <1>s, Zenon
    <2>2. \A k \in DOMAIN b : k \in dom
      BY <1>2, <1>5, <1>s, Zenon
    <2> HIDE DEF dom
    <2> QED
      BY <2>1, <2>2, Zenon
  <1>7. ASSUME NEW k \in DOMAIN b
        PROVE  (IF \E v \in set : v.key = k THEN (CHOOSE v \in set : v.key = k).data
                ELSE a[k]) = b[k]
    <2>1. CASE \E v \in set : v.key = k
      <3>1. (CHOOSE v \in set : v.key = k) \in set /\ (CHOOSE v \in set : v.key = k).key = k
        BY <2>1
      <3> QED
        BY <1>4, <2>1, <3>1
    <2>2. CASE ~\E v \in set : v.key = k
      BY <1>5, <1>7, <2>2
    <2> QED
      BY <2>1, <2>2
  <1> HIDE DEF dom
  <1> QED
    BY <1>1, <1>6, <1>7 DEF IsMap

\* changed_entity_versions explains the difference.
LEMMA ChangesExplain ==
  ASSUME NEW a, NEW b, NEW blk, NEW rows,
         rows = {[blk |-> blk, key |-> v.key, data |-> v.data, removed |-> v.removed] :
                    v \in ChangedEntityVersions(a, b)}
  PROVE  Explains(rows, a, b)
  <1> DEFINE kept == {k \in DOMAIN b : k \notin DOMAIN a \/ a[k] # b[k]}
             lost == DOMAIN a \ DOMAIN b
  <1>1. \A v \in ChangedEntityVersions(a, b) :
           \/ v.removed = FALSE /\ v.key \in kept /\ v.data = b[v.key]
           \/ v.removed = TRUE /\ v.key \in lost
    BY DEF ChangedEntityVersions
  <1>2. ASSUME NEW k \in kept
        PROVE  \E v \in ChangedEntityVersions(a, b) : v.removed = FALSE /\ v.key = k
    <2> DEFINE v == [key |-> k, data |-> b[k], removed |-> FALSE,
                     prev |-> IF k \in DOMAIN a THEN a[k] ELSE NoData]
    <2>1. v \in ChangedEntityVersions(a, b) /\ v.removed = FALSE /\ v.key = k
      BY DEF ChangedEntityVersions
    <2> QED
      BY <2>1, Zenon
  <1>3. ASSUME NEW k \in lost
        PROVE  \E v \in ChangedEntityVersions(a, b) : v.removed = TRUE /\ v.key = k
    <2> DEFINE v == [key |-> k, data |-> NoData, removed |-> TRUE, prev |-> a[k]]
    <2>1. v \in ChangedEntityVersions(a, b) /\ v.removed = TRUE /\ v.key = k
      BY DEF ChangedEntityVersions
    <2> QED
      BY <2>1, Zenon
  <1>4. \A v \in rows : \E w \in ChangedEntityVersions(a, b) :
           v.key = w.key /\ v.data = w.data /\ v.removed = w.removed
    OBVIOUS
  <1>5. ASSUME NEW w \in ChangedEntityVersions(a, b)
        PROVE  \E v \in rows : v.key = w.key /\ v.data = w.data /\ v.removed = w.removed
    <2> DEFINE v == [blk |-> blk, key |-> w.key, data |-> w.data, removed |-> w.removed]
    <2>1. v \in rows /\ v.key = w.key /\ v.data = w.data /\ v.removed = w.removed
      BY Zenon
    <2> QED
      BY <2>1, Zenon
  <1>6. /\ \A k : k \in kept <=> k \in DOMAIN b /\ (k \notin DOMAIN a \/ a[k] # b[k])
        /\ \A k : k \in lost <=> k \in DOMAIN a /\ k \notin DOMAIN b
    OBVIOUS
  <1> HIDE DEF kept, lost
  <1>7. \A v \in rows : \/ v.removed = FALSE /\ v.key \in kept /\ v.data = b[v.key]
                        \/ v.removed = TRUE /\ v.key \in lost
    BY <1>1, <1>4
  <1>8. ASSUME NEW k \in kept PROVE \E v \in rows : v.removed = FALSE /\ v.key = k
    <2>1. PICK w \in ChangedEntityVersions(a, b) : w.removed = FALSE /\ w.key = k
      BY <1>2, Zenon
    <2>2. PICK v \in rows : v.key = w.key /\ v.data = w.data /\ v.removed = w.removed
      BY <1>5, Zenon
    <2>3. v.removed = FALSE /\ v.key = k
      BY <2>1, <2>2, Zenon
    <2> QED
      BY <2>3, Zenon
  <1>9. ASSUME NEW k \in lost PROVE \E v \in rows : v.removed = TRUE /\ v.key = k
    <2>1. PICK w \in ChangedEntityVersions(a, b) : w.removed = TRUE /\ w.key = k
      BY <1>3, Zenon
    <2>2. PICK v \in rows : v.key = w.key /\ v.data = w.data /\ v.removed = w.removed
      BY <1>5, Zenon
    <2>3. v.removed = TRUE /\ v.key = k
      BY <2>1, <2>2, Zenon
    <2> QED
      BY <2>3, Zenon
  <1> QED
    BY <1>6, <1>7, <1>8, <1>9 DEF Explains

\* The entities of the retained block before.
BeforeBlock(h, i) == IF i = 1 THEN NoEntities ELSE h[i - 1].applied

RowsAt(versions, b) == {v \in versions : v.blk = b}

\* The rows of a history: its i-th block has the difference to the one before,
LEMMA DeltasOf ==
  ASSUME NEW h, IsHistory(h), NEW i \in DOMAIN h
  PROVE  Explains(RowsAt(VersionRows(h), h[i].ckpt.to), BeforeBlock(h, i), h[i].applied)
  <1> DEFINE rows(j) == {[blk |-> h[j].ckpt.to, key |-> v.key, data |-> v.data,
                          removed |-> v.removed] :
                            v \in ChangedEntityVersions(BeforeBlock(h, j), h[j].applied)}
  <1>1. VersionRows(h) = UNION {rows(j) : j \in DOMAIN h}
    BY DEF VersionRows, BeforeBlock
  <1>2. \A j \in DOMAIN h : \A v \in rows(j) : v.blk = h[j].ckpt.to
    OBVIOUS
  <1>3. \A j \in DOMAIN h : h[j].ckpt.to = h[i].ckpt.to => j = i
    <2> SUFFICES ASSUME NEW j \in DOMAIN h, h[j].ckpt.to = h[i].ckpt.to PROVE j = i
      OBVIOUS
    <2>1. j \in Int /\ i \in Int
      BY ListFacts DEF IsHistory
    <2>2. ~(h[j].ckpt.to < h[i].ckpt.to) /\ ~(h[i].ckpt.to < h[j].ckpt.to)
      BY DEF IsHistory, Numbered
    <2> QED
      BY <2>1, <2>2 DEF IsHistory, Ordered
  <1>4. \A v : v \in RowsAt(VersionRows(h), h[i].ckpt.to) <=> v \in rows(i)
    <2> HIDE DEF rows
    <2> QED
      BY <1>1, <1>2, <1>3 DEF RowsAt
  <1>5. RowsAt(VersionRows(h), h[i].ckpt.to) = rows(i)
    BY <1>4
  <1> QED
    BY <1>5, ChangesExplain

\* or, in an older layout, all of its entities.
LEMMA FullRowsOf ==
  ASSUME NEW h, IsHistory(h), NEW i \in DOMAIN h
  PROVE  Explains(RowsAt(FullRows(h), h[i].ckpt.to), NoEntities, h[i].applied)
  <1> DEFINE b == h[i].applied
             rows(j) == {[blk |-> h[j].ckpt.to, key |-> k, data |-> h[j].applied[k],
                          removed |-> FALSE] : k \in DOMAIN h[j].applied}
  <1>1. FullRows(h) = UNION {rows(j) : j \in DOMAIN h}
    BY DEF FullRows
  <1>2. \A j \in DOMAIN h : \A v \in rows(j) : v.blk = h[j].ckpt.to
    OBVIOUS
  <1>3. \A j \in DOMAIN h : h[j].ckpt.to = h[i].ckpt.to => j = i
    <2> SUFFICES ASSUME NEW j \in DOMAIN h, h[j].ckpt.to = h[i].ckpt.to PROVE j = i
      OBVIOUS
    <2>1. j \in Int /\ i \in Int
      BY ListFacts DEF IsHistory
    <2>2. ~(h[j].ckpt.to < h[i].ckpt.to) /\ ~(h[i].ckpt.to < h[j].ckpt.to)
      BY DEF IsHistory, Numbered
    <2> QED
      BY <2>1, <2>2 DEF IsHistory, Ordered
  <1>4. RowsAt(FullRows(h), h[i].ckpt.to) = rows(i)
    <2>1. \A v : v \in RowsAt(FullRows(h), h[i].ckpt.to) <=> v \in rows(i)
      <3> HIDE DEF rows
      <3> QED
        BY <1>1, <1>2, <1>3 DEF RowsAt
    <2> QED
      BY <2>1
  <1>5. /\ \A v \in rows(i) : v.removed = FALSE /\ v.key \in DOMAIN b /\ v.data = b[v.key]
        /\ \A k \in DOMAIN b : \E v \in rows(i) : v.removed = FALSE /\ v.key = k
    <2>1. \A v \in rows(i) : v.removed = FALSE /\ v.key \in DOMAIN b /\ v.data = b[v.key]
      OBVIOUS
    <2>2. ASSUME NEW k \in DOMAIN b PROVE \E v \in rows(i) : v.removed = FALSE /\ v.key = k
      <3> DEFINE v == [blk |-> h[i].ckpt.to, key |-> k, data |-> b[k], removed |-> FALSE]
      <3>1. v \in rows(i) /\ v.removed = FALSE /\ v.key = k
        OBVIOUS
      <3> QED
        BY <3>1, Zenon
    <2> QED
      BY <2>1, <2>2
  <1>6. DOMAIN NoEntities = {}
    BY DEF NoEntities
  <1> HIDE DEF rows
  <1> QED
    BY <1>4, <1>5, <1>6 DEF Explains

(***************************************************************************)
(* The order of rows.                                                       *)
(***************************************************************************)
\* A function that increases within 1 .. n leaves everything where it is.
LEMMA Increasing ==
  ASSUME NEW n \in Nat, NEW f \in [1 .. n -> 1 .. n],
         \A i, j \in 1 .. n : i < j => f[i] < f[j]
  PROVE  \A i \in 1 .. n : f[i] = i
  <1> DEFINE low  == {i \in 1 .. n : f[i] < i}
             high == {d \in 0 .. n : n - d \in 1 .. n /\ f[n - d] > n - d}
  <1>1. ASSUME low # {} PROVE FALSE
    <2>1. PICK m \in low : \A i \in low : m <= i
      <3>1. low \in SUBSET Nat
        OBVIOUS
      <3> HIDE DEF low
      <3> QED
        BY <1>1, <3>1, LeastElement
    <2>2. m \in 1 .. n /\ f[m] < m /\ f[m] \in 1 .. n
      OBVIOUS
    <2>3. m - 1 \in 1 .. n /\ m - 1 < m /\ ~(m <= m - 1)
      BY <2>2
    <2>4. ~(f[m - 1] < m - 1) /\ f[m - 1] < f[m] /\ f[m - 1] \in 1 .. n
      BY <2>1, <2>3
    <2> QED
      BY <2>2, <2>3, <2>4
  <1>2. ASSUME high # {} PROVE FALSE
    <2>1. PICK d \in high : \A e \in high : d <= e
      <3>1. high \in SUBSET Nat
        OBVIOUS
      <3> HIDE DEF high
      <3> QED
        BY <1>2, <3>1, LeastElement
    <2>2. d \in 0 .. n /\ n - d \in 1 .. n /\ f[n - d] > n - d /\ f[n - d] \in 1 .. n
      OBVIOUS
    <2>3. /\ d - 1 \in 0 .. n /\ ~(d <= d - 1)
          /\ n - (d - 1) = (n - d) + 1 /\ (n - d) + 1 \in 1 .. n
      BY <2>2
    <2>4. ~(f[(n - d) + 1] > (n - d) + 1)
      BY <2>1, <2>3
    <2>5. f[n - d] < f[(n - d) + 1] /\ f[(n - d) + 1] \in 1 .. n
      BY <2>2, <2>3
    <2> QED
      BY <2>2, <2>3, <2>4, <2>5
  <1>3. ASSUME NEW i \in 1 .. n PROVE f[i] = i
    <2>1. ~(f[i] < i) /\ f[i] \in Int /\ i \in Int
      BY <1>1
    <2>2. n - i \in 0 .. n /\ n - (n - i) = i
      OBVIOUS
    <2>3. ~(f[i] > i)
      BY <1>2, <2>2
    <2> QED
      BY <2>1, <2>3
  <1> QED
    BY <1>3

RowOf(h, i, mode) == [ckpt |-> h[i].ckpt, dyn |-> h[i].dyn, mode |-> mode]

\* The rows of a history in the order of their blocks are its entries in their order.
LEMMA RowsInOrder ==
  ASSUME NEW h, IsHistory(h), NEW mode
  PROVE  InBlockOrder(HistoryRows(h, mode)) = [i \in 1 .. Len(h) |-> RowOf(h, i, mode)]
  <1> DEFINE n == Len(h)
             R == HistoryRows(h, mode)
             t == [i \in 1 .. n |-> RowOf(h, i, mode)]
             Fits(s) == /\ s \in [1 .. n -> R]
                        /\ \A i, j \in DOMAIN s : i < j => s[i].ckpt.to < s[j].ckpt.to
             s == InBlockOrder(R)
  <1>1. n \in Nat /\ DOMAIN h = 1 .. n
    BY ListFacts DEF IsHistory
  <1>2. \A i, j \in 1 .. n : i < j => h[i].ckpt.to < h[j].ckpt.to
    BY <1>1 DEF IsHistory, Ordered
  <1>3. \A i \in 1 .. n : h[i].ckpt.to \in Int
    BY <1>1 DEF IsHistory, Numbered
  <1>4. R = {RowOf(h, i, mode) : i \in 1 .. n}
    BY <1>1 DEF HistoryRows, RowOf
  <1>5. \A i \in 1 .. n : RowOf(h, i, mode).ckpt = h[i].ckpt
    BY DEF RowOf
  <1> HIDE DEF n, R
  <1>6. t \in [1 .. n -> R] /\ \A r \in R : \E i \in 1 .. n : t[i] = r
    BY <1>4
  <1>7. \A i, j \in 1 .. n : t[i] = t[j] => i = j
    <2> SUFFICES ASSUME NEW i \in 1 .. n, NEW j \in 1 .. n, t[i] = t[j] PROVE i = j
      OBVIOUS
    <2>1. h[i].ckpt.to = h[j].ckpt.to
      BY <1>5
    <2>2. ~(i < j) /\ ~(j < i)
      BY <1>2, <1>3, <2>1
    <2> QED
      BY <1>1, <2>2
  <1>8. Cardinality(R) = n
    <2> HIDE DEF t
    <2> DEFINE S == 1 .. n
    <2>1. IsFiniteSet(S) /\ Cardinality(S) = n
      BY <1>1, FS_Interval
    <2>2. /\ t \in [S -> R] /\ \A i, j \in S : t[i] = t[j] => i = j
          /\ \A r \in R : \E i \in S : t[i] = r
      BY <1>6, <1>7
    <2> HIDE DEF S
    <2>3. t \in Injection(S, R) /\ t \in Surjection(S, R)
      BY <2>2, Fun_IsInj, Fun_IsSurj
    <2>4. ExistsBijection(S, R)
      BY <2>3 DEF ExistsBijection, Bijection
    <2> QED
      BY <2>1, <2>4, FS_Bijection
  <1>9. Fits(t)
    BY <1>2, <1>5, <1>6
  <1>10. Fits(s)
    <2>1. s = CHOOSE x \in [1 .. n -> R] :
                \A i, j \in DOMAIN x : i < j => x[i].ckpt.to < x[j].ckpt.to
      BY <1>8 DEF InBlockOrder
    <2> HIDE DEF t, s
    <2> QED
      BY <1>9, <2>1
  <1> DEFINE g == [i \in 1 .. n |-> CHOOSE j \in 1 .. n : s[i] = RowOf(h, j, mode)]
  <1> HIDE DEF s
  <1>11. \A i \in 1 .. n : g[i] \in 1 .. n /\ s[i] = RowOf(h, g[i], mode)
    <2> SUFFICES ASSUME NEW i \in 1 .. n
                 PROVE  g[i] \in 1 .. n /\ s[i] = RowOf(h, g[i], mode)
      OBVIOUS
    <2>1. \E j \in 1 .. n : s[i] = RowOf(h, j, mode)
      BY <1>4, <1>10
    <2> QED
      BY <2>1
  <1>12. g \in [1 .. n -> 1 .. n]
    BY <1>11
  <1>13. ASSUME NEW i \in 1 .. n, NEW j \in 1 .. n, i < j PROVE g[i] < g[j]
    <2> HIDE DEF g
    <2>1. g[i] \in 1 .. n /\ g[j] \in 1 .. n
      BY <1>12
    <2>2. h[g[i]].ckpt.to < h[g[j]].ckpt.to
      BY <1>5, <1>10, <1>11, <1>13, <2>1
    <2>3. ~(g[j] < g[i]) /\ g[i] # g[j]
      BY <1>2, <1>3, <2>1, <2>2
    <2> QED
      BY <1>1, <2>1, <2>3
  <1>14. \A i \in 1 .. n : g[i] = i
    <2> HIDE DEF g
    <2> QED
      BY <1>1, <1>12, <1>13, Increasing
  <1>15. s = t
    <2> HIDE DEF g
    <2>1. \A i \in 1 .. n : s[i] = t[i]
      BY <1>11, <1>14
    <2>2. s \in [1 .. n -> R]
      BY <1>10
    <2>3. s = [i \in 1 .. n |-> s[i]]
      BY <2>2
    <2> QED
      BY <2>1, <2>3
  <1> QED
    BY <1>15 DEF s, R, n

(***************************************************************************)
(* The history a load rebuilds, row by row.                                 *)
(***************************************************************************)
Start == [state |-> NoEntities, out |-> <<>>]

\* The function the fold over the rows is taken from,
Rebuilding(g, versions, rows, n) ==
    g = [s \in SUBSET (1 .. n) |->
            IF s = {} THEN Start
            ELSE Rebuilt(versions, g[s \ {Max(s)}], rows[Max(s)])]

\* which exists: else there were a least number of rows without one.
LEMMA RebuildingExists ==
  ASSUME NEW versions, NEW rows, NEW n \in Nat
  PROVE  \E g : Rebuilding(g, versions, rows, n)
  <1> DEFINE Missing == {m \in Nat : ~\E g : Rebuilding(g, versions, rows, m)}
  <1> SUFFICES ASSUME Missing # {} PROVE FALSE
    OBVIOUS
  <1>1. PICK m \in Missing : \A k \in Missing : m <= k
    BY LeastElement
  <1>2. CASE m = 0
    <2> DEFINE g == [s \in SUBSET (1 .. 0) |-> Start]
    <2>1. \A s \in SUBSET (1 .. 0) : s = {}
      OBVIOUS
    <2>2. Rebuilding(g, versions, rows, 0)
      BY <2>1 DEF Rebuilding
    <2> QED
      BY <1>2, <2>2
  <1>3. CASE m > 0
    <2>1. m - 1 \in Nat /\ m - 1 \notin Missing
      BY <1>1, <1>3
    <2>2. PICK g : Rebuilding(g, versions, rows, m - 1)
      BY <2>1
    <2> DEFINE h == [s \in SUBSET (1 .. m) |->
                       IF m \in s THEN Rebuilt(versions, g[s \ {m}], rows[m]) ELSE g[s]]
    <2>3. ASSUME NEW s \in SUBSET (1 .. m), m \notin s
          PROVE  s \in SUBSET (1 .. m - 1)
      BY <1>3, <2>3
    <2>4. ASSUME NEW s \in SUBSET (1 .. m)
          PROVE  h[s] = IF s = {} THEN Start
                        ELSE Rebuilt(versions, h[s \ {Max(s)}], rows[Max(s)])
      <3>1. CASE m \in s
        <4>1. Max(s) = m
          BY <3>1, MaxOfTop
        <4>2. s \ {m} \in SUBSET (1 .. m) /\ h[s \ {m}] = g[s \ {m}]
          OBVIOUS
        <4> QED
          BY <3>1, <4>1, <4>2
      <3>2. CASE m \notin s
        <4>1. s \in SUBSET (1 .. m - 1) /\ h[s] = g[s]
          BY <2>3, <3>2
        <4>2. g[s] = IF s = {} THEN Start
                     ELSE Rebuilt(versions, g[s \ {Max(s)}], rows[Max(s)])
          BY <2>2, <4>1 DEF Rebuilding
        <4>3. h[s \ {Max(s)}] = g[s \ {Max(s)}]
          BY <3>2
        <4> QED
          BY <4>1, <4>2, <4>3
      <3> QED
        BY <3>1, <3>2
    <2>5. Rebuilding(h, versions, rows, m)
      BY <2>4 DEF Rebuilding
    <2> QED
      BY <2>5
  <1> QED
    BY <1>1, <1>2, <1>3

\* What has been rebuilt after each row.
RebuildSteps(g, versions, rows) ==
    /\ g[0] = Start
    /\ \A k \in 1 .. Len(rows) : g[k] = Rebuilt(versions, g[k - 1], rows[k])

LEMMA LoadSteps ==
  ASSUME NEW versions, NEW table, NEW rows, rows = InBlockOrder(table), IsList(rows)
  PROVE  \E g : /\ RebuildSteps(g, versions, rows)
                /\ LoadPostgresHistory(table, versions) = g[Len(rows)].out
  <1> DEFINE n == Len(rows)
             iter == CHOOSE g : Rebuilding(g, versions, rows, n)
  <1>1. n \in Nat /\ DOMAIN rows = 1 .. n
    BY ListFacts
  <1>2. Rebuilding(iter, versions, rows, n)
    BY <1>1, RebuildingExists
  <1>3. LoadPostgresHistory(table, versions) = iter[1 .. n].out
    BY <1>1 DEF LoadPostgresHistory, FoldLeft, MapThenFoldSet, Rebuilding, Start
  <1> HIDE DEF iter, n
  <1> DEFINE g == [k \in 0 .. n |-> iter[1 .. k]]
  <1>4. iter[{}] = Start
    BY <1>2 DEF Rebuilding
  <1>5. g[0] = Start
    BY <1>1, <1>4
  <1>6. ASSUME NEW k \in 1 .. n
        PROVE  g[k] = Rebuilt(versions, g[k - 1], rows[k])
    <2>1. (1 .. k) \in SUBSET (1 .. n) /\ k \in 1 .. k /\ (1 .. k) \ {k} = 1 .. k - 1
      BY <1>1
    <2>2. Max(1 .. k) = k
      <3>1. k \in Int /\ (1 .. k) \in SUBSET (1 .. k)
        BY <1>1
      <3> QED
        BY <2>1, <3>1, MaxOfTop
    <2>3. iter[1 .. k] = Rebuilt(versions, iter[1 .. k - 1], rows[k])
      BY <1>2, <2>1, <2>2 DEF Rebuilding
    <2> QED
      BY <1>1, <2>3
  <1>7. RebuildSteps(g, versions, rows)
    BY <1>5, <1>6 DEF RebuildSteps, n
  <1>8. LoadPostgresHistory(table, versions) = g[n].out
    BY <1>1, <1>3
  <1> QED
    <2> HIDE DEF g
    <2> QED
      BY <1>7, <1>8 DEF n

\* One more element of a list.
LEMMA AppendNext ==
  ASSUME NEW E, NEW h \in Seq(E), NEW k \in 1 .. Len(h)
  PROVE  Append([j \in 1 .. k - 1 |-> h[j]], h[k]) = [j \in 1 .. k |-> h[j]]
  <1> DEFINE m == k - 1
             s == [j \in 1 .. m |-> h[j]]
  <1>1. m \in Nat /\ k = m + 1 /\ \A j \in 1 .. k : h[j] \in E
    OBVIOUS
  <1>2. s \in Seq(E) /\ Len(s) = m
    BY <1>1
  <1>3. \A j \in 1 .. m : s[j] = h[j]
    OBVIOUS
  <1> HIDE DEF s, m
  <1>4. /\ Append(s, h[k]) \in Seq(E) /\ Len(Append(s, h[k])) = k
        /\ Append(s, h[k])[k] = h[k] /\ \A j \in 1 .. m : Append(s, h[k])[j] = s[j]
    BY <1>1, <1>2
  <1> DEFINE a == Append(s, h[k])
  <1>5. a = [j \in 1 .. k |-> a[j]]
    <2> HIDE DEF a
    <2>1. a \in Seq(E) /\ Len(a) = k
      BY <1>4 DEF a
    <2> QED
      BY <2>1
  <1>6. \A j \in 1 .. k : a[j] = h[j]
    BY <1>1, <1>3, <1>4
  <1> HIDE DEF a
  <1>7. a = [j \in 1 .. k |-> h[j]]
    BY <1>5, <1>6
  <1> QED
    BY <1>7 DEF a, s, m

\* What is loaded is the history that was laid out in rows.
LEMMA LoadedHistory ==
  ASSUME NEW h, IsHistory(h), \A i \in DOMAIN h : IsEntry(h[i]),
         NEW mode, NEW versions,
         \A i \in DOMAIN h :
            Explains(RowsAt(versions, h[i].ckpt.to),
                     IF mode = "delta" THEN BeforeBlock(h, i) ELSE NoEntities, h[i].applied)
  PROVE  LoadPostgresHistory(HistoryRows(h, mode), versions) = h
  <1> DEFINE n == Len(h)
             rows == [i \in 1 .. n |-> RowOf(h, i, mode)]
  <1>1. n \in Nat /\ DOMAIN h = 1 .. n /\ h = [i \in 1 .. n |-> h[i]] /\ h \in Seq(Range(h))
    BY ListFacts DEF IsHistory, IsList
  <1>2. InBlockOrder(HistoryRows(h, mode)) = rows
    BY RowsInOrder
  <1>3. IsList(rows) /\ Len(rows) = n /\ \A i \in 1 .. n : rows[i] = RowOf(h, i, mode)
    <2>1. DOMAIN rows = 1 .. n /\ rows = [i \in 1 .. n |-> rows[i]]
      OBVIOUS
    <2> HIDE DEF rows
    <2>2. IsList(rows) /\ Len(rows) = n
      BY <1>1, <2>1, FunctionIsList
    <2> QED
      BY <2>2 DEF rows
  <1> HIDE DEF n, rows
  <1>4. PICK g : /\ RebuildSteps(g, versions, rows)
                 /\ LoadPostgresHistory(HistoryRows(h, mode), versions) = g[n].out
    BY <1>2, <1>3, LoadSteps
  <1> DEFINE Good(k) == /\ g[k].out = [j \in 1 .. k |-> h[j]]
                        /\ g[k].state = IF k = 0 THEN NoEntities ELSE h[k].applied
             Bad == {k \in 0 .. n : ~Good(k)}
  <1>5. Good(0)
    BY <1>4 DEF RebuildSteps, Start
  <1>6. ASSUME NEW k \in 1 .. n, Good(k - 1)
        PROVE  Good(k)
    <2> DEFINE acc == g[k - 1]
               e == h[k]
    <2>1. g[k] = Rebuilt(versions, acc, rows[k])
      BY <1>3, <1>4 DEF RebuildSteps
    <2>2. /\ rows[k].ckpt = e.ckpt /\ rows[k].dyn = e.dyn /\ rows[k].mode = mode
          /\ k \in DOMAIN h
      BY <1>1, <1>3 DEF RowOf
    <2>3. acc.state = BeforeBlock(h, k)
      BY <1>1, <1>6 DEF BeforeBlock
    <2>4. ApplyVersions(IF mode = "delta" THEN acc.state ELSE NoEntities,
                        RowsAt(versions, e.ckpt.to)) = e.applied
      <3>1. /\ IsMap(e.applied)
            /\ Explains(RowsAt(versions, e.ckpt.to),
                        IF mode = "delta" THEN acc.state ELSE NoEntities, e.applied)
        BY <2>2, <2>3 DEF IsEntry
      <3> QED
        BY <3>1, ApplyFacts
    <2>5. e = [ckpt |-> e.ckpt, applied |-> e.applied, dyn |-> e.dyn]
      BY <2>2 DEF IsEntry
    <2>6. acc.out = [j \in 1 .. k - 1 |-> h[j]]
      BY <1>6
    <2> HIDE DEF acc, e
    <2>7. g[k].state = e.applied /\ g[k].out = Append(acc.out, e)
      BY <2>1, <2>2, <2>4, <2>5 DEF Rebuilt, RowsAt
    <2>8. Append(acc.out, e) = [j \in 1 .. k |-> h[j]]
      <3>1. k \in 1 .. Len(h)
        BY DEF n
      <3> QED
        BY <1>1, <2>6, <3>1, AppendNext DEF e
    <2> QED
      BY <2>7, <2>8 DEF e
  <1>7. ASSUME Bad # {} PROVE FALSE
    <2>1. PICK k \in Bad : \A j \in Bad : k <= j
      <3>1. Bad \in SUBSET Nat
        OBVIOUS
      <3> HIDE DEF Bad
      <3> QED
        BY <1>7, <3>1, LeastElement
    <2>2. k \in 1 .. n /\ k - 1 \in 0 .. n /\ ~(k <= k - 1) /\ ~Good(k)
      BY <1>1, <1>5, <2>1
    <2> HIDE DEF Good
    <2>3. Good(k - 1)
      BY <2>1, <2>2
    <2> QED
      BY <1>6, <2>2, <2>3
  <1>8. Good(n)
    <2> HIDE DEF Good
    <2>1. n \in 0 .. n
      BY <1>1
    <2> QED
      BY <1>7, <2>1
  <1> QED
    BY <1>1, <1>4, <1>8

\* No rows, no history.
LEMMA NothingLoaded ==
  ASSUME NEW versions
  PROVE  LoadPostgresHistory({}, versions) = <<>>
  <1>1. IsHistory(<<>>) /\ \A i \in DOMAIN <<>> : FALSE
    BY DEF IsHistory, IsList, Numbered, Ordered, Range
  <1>2. HistoryRows(<<>>, "delta") = {}
    BY DEF HistoryRows
  <1> QED
    BY <1>1, <1>2, LoadedHistory

(***************************************************************************)
(* What a pass makes of a snapshot is one that tables can hold.              *)
(***************************************************************************)
WellFormed(s) ==
    /\ s = [found |-> s.found, ckpt |-> s.ckpt, applied |-> s.applied, dyn |-> s.dyn,
            done |-> s.done, history |-> s.history]
    /\ s.ckpt.from \in Int /\ s.ckpt.to \in Int
    /\ IsMap(s.applied)
    /\ IsHistory(s.history)
    /\ \A e \in Range(s.history) : IsEntry(e)

\* The empty list is a history.
LEMMA EmptyHistory == IsHistory(<<>>) /\ Range(<<>>) = {} /\ DOMAIN <<>> = {}
  <1>1. <<>> = [i \in 1 .. 0 |-> <<>>[i]] /\ DOMAIN <<>> = 1 .. 0
    OBVIOUS
  <1>2. IsList(<<>>)
    BY <1>1, FunctionIsList
  <1>3. Range(<<>>) = {} /\ DOMAIN <<>> = {}
    BY DEF Range
  <1> QED
    BY <1>2, <1>3 DEF IsHistory, Numbered, Ordered

\* What a pass hands to a transaction: a snapshot that tables can hold, and one
\* or several snapshots of the way there.
PassResult(o) ==
    /\ WellFormed(o.snap) /\ o.snap.found = TRUE
    /\ WellFormed(o.prev)
    /\ IsList(o.activity) /\ o.activity # <<>>
    /\ \A i \in DOMAIN o.activity : IsEntry(o.activity[i])

\* Nothing is a snapshot that tables can hold,
LEMMA NoSnapshotWell == WellFormed(NoSnapshot)
  <1>1. IsMap(NoEntities)
    <2>1. DOMAIN NoEntities = {} /\ NoEntities = [k \in DOMAIN NoEntities |-> NoEntities[k]]
      BY DEF NoEntities
    <2> QED
      BY <2>1, FS_EmptySet DEF IsMap
  <1> QED
    BY <1>1, EmptyHistory DEF WellFormed, NoSnapshot, Checkpoint, NoBlock

\* so is a retained one that a reorg rolls back to,
LEMMA RollbackWell ==
  ASSUME NEW s, WellFormed(s), NEW i \in DOMAIN s.history
  PROVE  WellFormed(RollbackToHistoricalSnapshot(s, s.history[i]))
  <1> DEFINE e == s.history[i]
             kept == UpToBlock(s.history, e.ckpt.to)
             r == RollbackToHistoricalSnapshot(s, e)
  <1>1. e \in Range(s.history) /\ IsEntry(e)
    BY DEF Range, WellFormed
  <1>2. e.ckpt.from \in Int /\ e.ckpt.to \in Int /\ IsMap(e.applied)
    BY <1>1 DEF IsEntry
  <1>3. IsHistory(kept) /\ Range(kept) \subseteq Range(s.history)
    BY <1>2, UpToBlockFacts DEF WellFormed
  <1>4. r = [found |-> s.found, ckpt |-> e.ckpt, applied |-> e.applied, dyn |-> e.dyn,
             done |-> {}, history |-> kept]
    <2>1. r = [s EXCEPT !.ckpt = e.ckpt, !.applied = e.applied, !.dyn = e.dyn,
                        !.done = {}, !.history = kept]
      BY DEF RollbackToHistoricalSnapshot
    <2>2. PICK c, a, d, f, h, x : s = [found |-> x, ckpt |-> c, applied |-> a, dyn |-> d,
                                       done |-> f, history |-> h]
      BY DEF WellFormed
    <2> HIDE DEF kept, r, e
    <2> QED
      BY <2>1, <2>2
  <1> HIDE DEF kept, r, e
  <1>5. /\ r.found = s.found /\ r.ckpt = e.ckpt /\ r.applied = e.applied /\ r.dyn = e.dyn
        /\ r.done = {} /\ r.history = kept
    BY <1>4
  <1> QED
    BY <1>2, <1>3, <1>4, <1>5 DEF WellFormed, r, e

\* and whatever apply_reorg_policy decides.
LEMMA PreviousWell ==
  ASSUME NEW s, WellFormed(s), NEW prev \in Previous(s)
  PROVE  WellFormed(prev)
  <1>1. \/ prev = s \/ prev = NoSnapshot
        \/ \E i \in DOMAIN s.history : prev = RollbackToHistoricalSnapshot(s, s.history[i])
    BY DEF Previous
  <1> QED
    BY <1>1, NoSnapshotWell, RollbackWell

\* The logs of a pass have block numbers.
LEMMA PendingFacts ==
  ASSUME NEW from \in Int, NEW to \in Int, NEW done
  PROVE  LET p == PendingLogs(from, to, done)
         IN  IsList(p) /\ \A i \in DOMAIN p : p[i][1] \in Int
  <1> DEFINE n == (to - from + 1) * LogsPerBlock
             all == [i \in 1 .. n |->
                       <<from + (i - 1) \div LogsPerBlock, (i - 1) % LogsPerBlock>>]
             p == PendingLogs(from, to, done)
  <1>1. LogsPerBlock \in Nat /\ n \in Int
    BY SnapshotConstants
  <1>2. \A i \in 1 .. n : all[i][1] \in Int
    <2> SUFFICES ASSUME NEW i \in 1 .. n PROVE all[i][1] \in Int
      OBVIOUS
    <2>1. LogsPerBlock # 0
      BY <1>1
    <2>2. (i - 1) \div LogsPerBlock \in Int
      BY <1>1, <2>1
    <2> QED
      BY <2>2
  <1>3. IsList(all)
    <2>1. PICK m \in Nat : 1 .. n = 1 .. m
      <3>1. CASE n \in Nat
        BY <3>1
      <3>2. CASE n \notin Nat
        <4>1. 1 .. n = {} /\ 1 .. 0 = {}
          BY <1>1, <3>2
        <4> QED
          BY <4>1
      <3> QED
        BY <3>1, <3>2
    <2>2. DOMAIN all = 1 .. m /\ all = [i \in 1 .. m |-> all[i]]
      BY <2>1
    <2> HIDE DEF all
    <2> QED
      BY <2>2, FunctionIsList
  <1>4. p = KeepOnly(all, Range(all) \ done)
    BY DEF PendingLogs
  <1>5. \A x \in Range(all) : x[1] \in Int
    BY <1>2 DEF Range
  <1> HIDE DEF all, p, n
  <1>6. IsList(p) /\ Range(p) \subseteq Range(all)
    BY <1>3, <1>4, KeepOnlyFacts
  <1>7. \A i \in DOMAIN p : p[i] \in Range(p)
    BY DEF Range
  <1> QED
    BY <1>5, <1>6, <1>7 DEF p

\* The entries of a pass are entries.
LEMMA RunFacts ==
  ASSUME NEW from \in Int, NEW pending, IsList(pending),
         \A i \in DOMAIN pending : pending[i][1] \in Int,
         NEW n \in 0 .. Len(pending), NEW after,
         DOMAIN after = 1 .. n, \A i \in 1 .. n : IsMap(after[i].applied)
  PROVE  LET run == RunHistory(from, pending, after)
         IN  /\ IsList(run) /\ \A i \in DOMAIN run : IsEntry(run[i])
             /\ \A i \in DOMAIN run : \E k \in 1 .. n : run[i].ckpt.to = pending[k][1]
  <1> DEFINE last == {i \in DOMAIN after : \/ i = Len(pending)
                                           \/ pending[i + 1][1] # pending[i][1]}
             entry(i) == [ckpt |-> Checkpoint(from, pending[i][1], FALSE),
                          applied |-> after[i].applied, dyn |-> after[i].dyn]
             all == [i \in DOMAIN after |-> i]
             steps == KeepOnly(all, last)
             run == RunHistory(from, pending, after)
  <1>1. Len(pending) \in Nat /\ DOMAIN pending = 1 .. Len(pending) /\ n \in Nat
    BY ListFacts
  <1>2. run = [j \in DOMAIN steps |-> entry(steps[j])]
    BY DEF RunHistory
  <1>3. IsList(all) /\ Range(all) \subseteq 1 .. n
    <2>1. DOMAIN all = 1 .. n /\ all = [i \in 1 .. n |-> all[i]] /\ \A i \in 1 .. n : all[i] = i
      OBVIOUS
    <2> HIDE DEF all
    <2>2. IsList(all)
      BY <1>1, <2>1, FunctionIsList
    <2> QED
      BY <2>1, <2>2 DEF Range
  <1> HIDE DEF last, all
  <1>4. IsList(steps) /\ Range(steps) \subseteq 1 .. n
    BY <1>3, KeepOnlyFacts
  <1>5. \A i \in 1 .. n : IsEntry(entry(i)) /\ entry(i).ckpt.to = pending[i][1]
    <2> SUFFICES ASSUME NEW i \in 1 .. n
                 PROVE  IsEntry(entry(i)) /\ entry(i).ckpt.to = pending[i][1]
      OBVIOUS
    <2>1. pending[i][1] \in Int /\ IsMap(after[i].applied)
      BY <1>1
    <2> QED
      BY <2>1 DEF IsEntry, Checkpoint
  <1> HIDE DEF entry, steps, run
  <1>6. Len(steps) \in Nat /\ DOMAIN steps = 1 .. Len(steps) /\ \A j \in DOMAIN steps : steps[j] \in 1 .. n
    BY <1>4, ListFacts
  <1>7. DOMAIN run = 1 .. Len(steps) /\ run = [j \in 1 .. Len(steps) |-> run[j]]
        /\ \A j \in DOMAIN run : run[j] = entry(steps[j])
    BY <1>2, <1>6
  <1>8. IsList(run)
    BY <1>6, <1>7, FunctionIsList
  <1>9. \A i \in DOMAIN run : \E k \in 1 .. n : run[i].ckpt.to = pending[k][1]
    BY <1>5, <1>6, <1>7
  <1> QED
    BY <1>5, <1>6, <1>7, <1>8, <1>9 DEF run

\* Executed logs leave entities and sources behind.
LEMMA EffectsFacts ==
  ASSUME NEW prev, NEW n \in Nat, NEW after \in Effects(prev, n)
  PROVE  DOMAIN after = 1 .. n /\ Len(after) = n /\ \A i \in 1 .. n : IsMap(after[i].applied)
  <1> DEFINE eff(maps, created) ==
               [i \in 1 .. n |->
                  [applied |-> maps[i],
                   dyn |-> prev.dyn \cup (IF i >= created THEN Sources ELSE {})]]
  <1>0. \A maps, created : /\ DOMAIN eff(maps, created) = 1 .. n
                           /\ eff(maps, created) = [i \in 1 .. n |-> eff(maps, created)[i]]
                           /\ \A i \in 1 .. n : eff(maps, created)[i].applied = maps[i]
    OBVIOUS
  <1>e. Effects(prev, n) = {eff(maps, created) : maps \in [1 .. n -> EntityMaps], created \in 1 .. n + 1}
    BY DEF Effects
  <1> HIDE DEF eff
  <1>1. PICK maps \in [1 .. n -> EntityMaps], created \in 1 .. n + 1 :
           after = eff(maps, created)
    BY <1>e
  <1>2. DOMAIN after = 1 .. n /\ \A i \in 1 .. n : after[i].applied = maps[i]
    BY <1>0, <1>1
  <1>3. \A i \in 1 .. n : IsMap(after[i].applied)
    BY <1>2, SnapshotConstants
  <1>4. after = [i \in 1 .. n |-> after[i]]
    BY <1>0, <1>1
  <1>5. Len(after) = n
    BY <1>2, <1>4, FunctionIsList
  <1> QED
    BY <1>2, <1>3, <1>5

\* A list followed by an element, and behind at most one other.
LEMMA BehindFacts ==
  ASSUME NEW E, NEW known \in Seq(E), NEW run \in Seq(E), NEW e \in E
  PROVE  LET all == known \o Append(run, e)
         IN  IsList(all) /\ Range(all) \subseteq E /\ Len(all) > 0 /\ all[Len(all)] = e
  <1> DEFINE all == known \o Append(run, e)
  <1>1. all \in Seq(E) /\ Len(all) > 0 /\ all[Len(all)] = e
    OBVIOUS
  <1> HIDE DEF all
  <1>2. all \in Seq(Range(all))
    BY <1>1, RangedSeq
  <1>3. Range(all) \subseteq E
    BY <1>1 DEF Range
  <1> QED
    BY <1>1, <1>2, <1>3 DEF IsList, all

\* What sync_once hands over is such a result,
LEMMA FinishedWell ==
  ASSUME NEW prev, WellFormed(prev), NEW from \in Int, NEW to \in Int,
         NEW pending, IsList(pending), \A i \in DOMAIN pending : pending[i][1] \in Int,
         NEW n \in 0 .. Len(pending), NEW after, DOMAIN after = 1 .. n, Len(after) = n,
         \A i \in 1 .. n : IsMap(after[i].applied)
  PROVE  PassResult(FinishedPass(prev, from, to, pending, after))
  <1> DEFINE complete == n = Len(pending)
             current  == [ckpt |-> Checkpoint(from, to, complete),
                          applied |-> IF n = 0 THEN prev.applied ELSE after[n].applied,
                          dyn |-> IF n = 0 THEN prev.dyn ELSE after[n].dyn]
             run      == RunHistory(from, pending, after)
             known    == IF prev.found THEN <<HistoryEntry(prev)>> ELSE <<>>
             news     == known \o Append(run, current)
             merged   == MergeHistory(prev.history, news, HistoryLimit)
             done     == IF complete THEN {} ELSE prev.done \cup {pending[i] : i \in 1 .. n}
             s        == FinishedPass(prev, from, to, pending, after).snap
             act      == FinishedPass(prev, from, to, pending, after).activity
             E        == {current} \cup {HistoryEntry(prev)} \cup Range(run)
  <1>1. /\ s = [found |-> TRUE, ckpt |-> current.ckpt, applied |-> current.applied,
                dyn |-> current.dyn, done |-> done, history |-> merged]
        /\ act = Append(run, current)
        /\ FinishedPass(prev, from, to, pending, after).prev = prev
    BY DEF FinishedPass
  <1>2. /\ current.ckpt.from \in Int /\ current.ckpt.to \in Int
        /\ IsMap(current.applied) /\ IsEntry(current)
    <2>1. IsMap(current.applied)
      <3>1. Len(pending) \in Nat
        BY ListFacts
      <3>2. CASE n = 0
        BY <3>2 DEF WellFormed
      <3>3. CASE n # 0
        <4>1. n \in 1 .. n
          BY <3>1, <3>3
        <4> QED
          BY <3>3, <4>1
      <3> QED
        BY <3>2, <3>3
    <2>2. current.ckpt.from = from /\ current.ckpt.to = to
      BY DEF Checkpoint
    <2> QED
      BY <2>1, <2>2 DEF IsEntry
  <1>3. IsEntry(HistoryEntry(prev))
    BY DEF WellFormed, HistoryEntry, IsEntry
  <1>4. IsList(run) /\ \A i \in DOMAIN run : IsEntry(run[i])
    BY RunFacts
  <1>5. \A e \in E : IsEntry(e)
    BY <1>2, <1>3, <1>4 DEF Range
  <1> HIDE DEF run, current, s, done, act
  <1>6. run \in Seq(E)
    <2>1. run \in Seq(Range(run)) /\ Range(run) \subseteq E
      BY <1>4 DEF IsList
    <2> HIDE DEF E
    <2> QED
      BY <2>1
  <1>7. known \in Seq(E) /\ current \in E
    <2>1. HistoryEntry(prev) \in E /\ current \in E
      OBVIOUS
    <2> HIDE DEF E
    <2>2. CASE prev.found
      BY <2>1, <2>2
    <2>3. CASE ~prev.found
      BY <2>1, <2>3
    <2> QED
      BY <2>1, <2>2, <2>3
  <1> HIDE DEF E, known
  <1>8. IsList(news) /\ Range(news) \subseteq E
    BY <1>6, <1>7, BehindFacts
  <1>9. Numbered(news)
    BY <1>5, <1>8 DEF Numbered, Range, IsEntry
  <1>10. HistoryLimit \in Nat /\ IsHistory(prev.history)
    BY SnapshotConstants DEF WellFormed
  <1> HIDE DEF news
  <1>11. IsHistory(merged) /\ Range(merged) \subseteq Range(prev.history) \cup Range(news)
    BY <1>8, <1>9, <1>10, MergeFacts
  <1> HIDE DEF merged
  <1>12. \A e \in Range(merged) : IsEntry(e)
    BY <1>5, <1>8, <1>11 DEF WellFormed
  <1>13. /\ s.found = TRUE /\ s.ckpt = current.ckpt /\ s.applied = current.applied
         /\ s.dyn = current.dyn /\ s.done = done /\ s.history = merged
    BY <1>1
  <1>14. WellFormed(s)
    BY <1>1, <1>2, <1>11, <1>12, <1>13 DEF WellFormed
  <1>15. IsList(act) /\ act # <<>> /\ \A i \in DOMAIN act : IsEntry(act[i])
    <2>1. act \in Seq(E) /\ act # <<>>
      BY <1>1, <1>6, <1>7
    <2>2. act \in Seq(Range(act))
      BY <2>1, RangedSeq
    <2>3. \A i \in DOMAIN act : act[i] \in E
      BY <2>1
    <2> QED
      BY <1>5, <2>1, <2>2, <2>3 DEF IsList
  <1> QED
    BY <1>1, <1>13, <1>14, <1>15 DEF PassResult, s, act

\* whatever the target and the executed logs are,
LEMMA PassWell ==
  ASSUME NEW prev, WellFormed(prev), NEW o \in PassesFrom(prev)
  PROVE  PassResult(o)
  <1> DEFINE from   == SyncStartBlock(0, prev.found, prev.ckpt)
             resume == [prev EXCEPT !.done = IF prev.ckpt.complete THEN {} ELSE @]
             pending(to) == PendingLogs(from, to, resume.done)
             afters(to) == UNION {Effects(prev, n) : n \in 0 .. Len(pending(to))}
             passes(to) == {FinishedPass(resume, from, to, pending(to), after) : after \in afters(to)}
             targets == {b \in Blocks : b \in from .. from + MaxSpan - 1}
  <1>1. PassesFrom(prev) = UNION {passes(to) : to \in targets}
    BY DEF PassesFrom
  <1>2. from \in Int
    BY DEF WellFormed, SyncStartBlock
  <1>3. targets \subseteq Int
    BY SnapshotConstants DEF Blocks
  <1>4. WellFormed(resume)
    <2>1. PICK c, a, d, f, h, x : prev = [found |-> x, ckpt |-> c, applied |-> a, dyn |-> d,
                                          done |-> f, history |-> h]
      BY DEF WellFormed
    <2> DEFINE f2 == IF prev.ckpt.complete THEN {} ELSE prev.done
    <2>2. resume = [prev EXCEPT !.done = f2]
      OBVIOUS
    <2> HIDE DEF f2, resume
    <2>3. resume = [found |-> x, ckpt |-> c, applied |-> a, dyn |-> d, done |-> f2, history |-> h]
      BY <2>1, <2>2
    <2>4. /\ resume.found = prev.found /\ resume.ckpt = prev.ckpt
          /\ resume.applied = prev.applied /\ resume.dyn = prev.dyn
          /\ resume.done = f2 /\ resume.history = prev.history
      BY <2>1, <2>3
    <2>5. resume = [found |-> resume.found, ckpt |-> resume.ckpt, applied |-> resume.applied,
                    dyn |-> resume.dyn, done |-> resume.done, history |-> resume.history]
      BY <2>3
    <2> QED
      BY <2>4, <2>5 DEF WellFormed
  <1> HIDE DEF from, resume, targets
  <1>5. \A to \in targets : IsList(pending(to)) /\ \A i \in DOMAIN pending(to) : pending(to)[i][1] \in Int
    BY <1>2, <1>3, PendingFacts
  <1> HIDE DEF pending
  <1>6. PICK to \in targets : o \in passes(to)
    <2> HIDE DEF passes
    <2> QED
      BY <1>1
  <1>7. PICK after \in afters(to) : o = FinishedPass(resume, from, to, pending(to), after)
    BY <1>6
  <1>8. PICK n \in 0 .. Len(pending(to)) : after \in Effects(prev, n)
    BY <1>7
  <1>9. n \in Nat
    <2>1. IsList(pending(to))
      BY <1>5
    <2>2. Len(pending(to)) \in Nat
      BY <2>1, ListFacts
    <2> QED
      BY <2>2
  <1>10. DOMAIN after = 1 .. n /\ Len(after) = n /\ \A i \in 1 .. n : IsMap(after[i].applied)
    BY <1>8, <1>9, EffectsFacts
  <1> DEFINE p == pending(to)
  <1>11. IsList(p) /\ (\A i \in DOMAIN p : p[i][1] \in Int) /\ n \in 0 .. Len(p) /\ to \in Int
    BY <1>3, <1>5
  <1>12. o = FinishedPass(resume, from, to, p, after)
    BY <1>7
  <1> HIDE DEF p
  <1> QED
    BY <1>2, <1>4, <1>10, <1>11, <1>12, FinishedWell

\* and so is what any pass over a snapshot that tables can hold computes.
LEMMA OutcomeWell ==
  ASSUME NEW s, WellFormed(s), NEW reset, NEW o \in PassOutcomes(s, reset)
  PROVE  PassResult(o)
  <1> DEFINE prevs == IF reset THEN {NoSnapshot} ELSE Previous(s)
  <1>1. PassOutcomes(s, reset) = UNION {PassesFrom(prev) : prev \in prevs}
    BY DEF PassOutcomes
  <1>2. \A prev \in prevs : WellFormed(prev)
    <2>1. CASE reset
      BY <2>1, NoSnapshotWell
    <2>2. CASE ~reset
      BY <2>2, PreviousWell
    <2> QED
      BY <2>1, <2>2
  <1> HIDE DEF prevs
  <1>3. PICK prev \in prevs : o \in PassesFrom(prev)
    BY <1>1
  <1> QED
    BY <1>2, <1>3, PassWell

(***************************************************************************)
(* What was written is loaded.                                              *)
(***************************************************************************)
\* The tables of one transaction hold the snapshot that it wrote.
LEMMA WrittenIsLoaded ==
  ASSUME NEW t, DOMAIN t = Tables, NEW o, WellFormed(o.snap), o.snap.found = TRUE, NEW reset
  PROVE  LoadPostgresSnapshot(WriteTables(t, o, reset)) = o.snap
  <1> DEFINE s == o.snap
             w == WriteTables(t, o, reset)
  <1>1. /\ w.row = [found |-> TRUE, ckpt |-> s.ckpt, legacy |-> s.history]
        /\ w.entities = s.applied /\ w.sources = s.dyn /\ w.cursors = s.done
        /\ w.history = HistoryRows(s.history, "delta") /\ w.versions = VersionRows(s.history)
    BY DEF WriteTables, Tables, EmptyTables
  <1>2. LoadPostgresHistory(w.history, w.versions) = s.history
    <2> DEFINE h == s.history
    <2>1. IsHistory(h) /\ \A i \in DOMAIN h : IsEntry(h[i])
      BY DEF WellFormed, Range
    <2> HIDE DEF h
    <2>2. \A i \in DOMAIN h : Explains(RowsAt(VersionRows(h), h[i].ckpt.to), BeforeBlock(h, i), h[i].applied)
      BY <2>1, DeltasOf
    <2>3. LoadPostgresHistory(HistoryRows(h, "delta"), VersionRows(h)) = h
      BY <2>1, <2>2, LoadedHistory
    <2> QED
      BY <1>1, <2>3 DEF h
  <1> HIDE DEF w
  <1>3. LoadPostgresSnapshot(w) =
          [found |-> TRUE, ckpt |-> s.ckpt, applied |-> s.applied, dyn |-> s.dyn,
           done |-> s.done, history |-> s.history]
    <2> DEFINE stored == LoadPostgresHistory(w.history, w.versions)
    <2>1. w.row.found /\ w.row.ckpt = s.ckpt /\ w.row.legacy = s.history
      BY <1>1
    <2>2. LoadPostgresSnapshot(w) =
            [found |-> TRUE, ckpt |-> w.row.ckpt, applied |-> w.entities, dyn |-> w.sources,
             done |-> w.cursors, history |-> IF stored = <<>> THEN w.row.legacy ELSE stored]
      BY <2>1, Zenon DEF LoadPostgresSnapshot
    <2> HIDE DEF stored, s
    <2>3. (IF stored = <<>> THEN w.row.legacy ELSE stored) = s.history
      BY <1>2, <2>1 DEF stored
    <2> QED
      BY <1>1, <2>1, <2>2, <2>3, Zenon
  <1> QED
    BY <1>3 DEF WellFormed, w

\* Tables without a deployment row hold nothing.
LEMMA EmptyIsLoaded == LoadPostgresSnapshot(EmptyTables) = NoSnapshot
  <1>1. ~EmptyTables.row.found
    BY DEF EmptyTables
  <1> QED
    BY <1>1, Zenon DEF LoadPostgresSnapshot

\* The history that an earlier release left is one.
LEMMA LegacyFacts ==
  LET h == LegacyHistory
  IN  /\ IsHistory(h) /\ \A i \in DOMAIN h : IsEntry(h[i])
      /\ Last(h) \in Range(h) /\ h # <<>>
  <1> DEFINE h == LegacyHistory
  <1>1. /\ h # <<>> /\ IsList(h) /\ \A i \in DOMAIN h : IsEntry(h[i])
        /\ \A i, j \in DOMAIN h : i < j => h[i].ckpt.to < h[j].ckpt.to
    BY StoreConstants DEF IsList
  <1>2. IsHistory(h)
    BY <1>1 DEF IsHistory, Numbered, Ordered, IsEntry
  <1> HIDE DEF h
  <1>3. Len(h) \in DOMAIN h
    <2>1. Len(h) \in Nat /\ DOMAIN h = 1 .. Len(h) /\ h = [i \in 1 .. Len(h) |-> h[i]]
      BY <1>1, ListFacts
    <2>2. Len(h) # 0
      BY <1>1 DEF IsList
    <2> QED
      BY <2>1, <2>2
  <1>4. Last(h) \in Range(h)
    BY <1>3 DEF Last, Range
  <1> QED
    BY <1>1, <1>2, <1>4 DEF h

\* Its three layouts hold one and the same snapshot.
LEMMA LegacyIsLoaded ==
  ASSUME NEW form \in {"json", "snapshot", "delta"}
  PROVE  LoadPostgresSnapshot(LegacyTables(form)) = LegacySnapshot
  <1> DEFINE h == LegacyHistory
             last == Last(h)
             w == LegacyTables(form)
  <1>1. /\ w.row = [found |-> TRUE, ckpt |-> last.ckpt, legacy |-> h]
        /\ w.entities = last.applied /\ w.sources = last.dyn /\ w.cursors = {}
        /\ w.history = IF form = "json" THEN {} ELSE HistoryRows(h, form)
        /\ w.versions = CASE form = "json" -> {} [] form = "snapshot" -> FullRows(h)
                          [] OTHER -> VersionRows(h)
    BY DEF LegacyTables, EmptyTables
  <1> DEFINE stored == LoadPostgresHistory(w.history, w.versions)
  <1>2. IsHistory(h) /\ \A i \in DOMAIN h : IsEntry(h[i])
    BY LegacyFacts
  <1> HIDE DEF w, h
  <1>3. stored = h \/ (stored = <<>> /\ form = "json")
    <2>1. CASE form = "json"
      BY <1>1, <2>1, NothingLoaded
    <2>2. CASE form = "snapshot"
      <3>1. \A i \in DOMAIN h : Explains(RowsAt(FullRows(h), h[i].ckpt.to), NoEntities, h[i].applied)
        BY <1>2, FullRowsOf
      <3>2. LoadPostgresHistory(HistoryRows(h, form), FullRows(h)) = h
        BY <1>2, <2>2, <3>1, LoadedHistory
      <3> QED
        BY <1>1, <2>2, <3>2
    <2>3. CASE form = "delta"
      <3>1. \A i \in DOMAIN h :
               Explains(RowsAt(VersionRows(h), h[i].ckpt.to), BeforeBlock(h, i), h[i].applied)
        BY <1>2, DeltasOf
      <3>2. LoadPostgresHistory(HistoryRows(h, form), VersionRows(h)) = h
        BY <1>2, <2>3, <3>1, LoadedHistory
      <3> QED
        BY <1>1, <2>3, <3>2
    <2> QED
      BY <2>1, <2>2, <2>3
  <1>4. w.row.found /\ w.row.ckpt = last.ckpt /\ w.row.legacy = h
    BY <1>1
  <1>5. LoadPostgresSnapshot(w) =
          [found |-> TRUE, ckpt |-> w.row.ckpt, applied |-> w.entities, dyn |-> w.sources,
           done |-> w.cursors, history |-> IF stored = <<>> THEN w.row.legacy ELSE stored]
    BY <1>4, Zenon DEF LoadPostgresSnapshot
  <1> HIDE DEF stored, last
  <1>6. (IF stored = <<>> THEN w.row.legacy ELSE stored) = h
    BY <1>3, <1>4
  <1>7. LoadPostgresSnapshot(w) =
          [found |-> TRUE, ckpt |-> last.ckpt, applied |-> last.applied, dyn |-> last.dyn,
           done |-> {}, history |-> h]
    BY <1>1, <1>4, <1>5, <1>6, Zenon
  <1> QED
    BY <1>7, Zenon DEF LegacySnapshot, h, last, w

\* The snapshot that an earlier release left can be held.
LEMMA LegacyWell == WellFormed(LegacySnapshot)
  <1> DEFINE h == LegacyHistory
             last == Last(h)
  <1>1. IsHistory(h) /\ (\A i \in DOMAIN h : IsEntry(h[i])) /\ last \in Range(h)
    BY LegacyFacts
  <1>2. \A e \in Range(h) : IsEntry(e)
    BY <1>1 DEF Range
  <1>3. last.ckpt.from \in Int /\ last.ckpt.to \in Int /\ IsMap(last.applied)
    BY <1>1, <1>2 DEF IsEntry
  <1>4. LegacySnapshot = [found |-> TRUE, ckpt |-> last.ckpt, applied |-> last.applied,
                          dyn |-> last.dyn, done |-> {}, history |-> h]
    BY Zenon DEF LegacySnapshot
  <1> HIDE DEF h, last
  <1> QED
    BY <1>1, <1>2, <1>3, <1>4 DEF WellFormed

(***************************************************************************)
(* The refinement.                                                          *)
(***************************************************************************)
HeldWell == WellFormed(LoadPostgresSnapshot(db))

\* The register begins with what the tables hold.
LEMMA RegisterInit == Init => HeldWell /\ Register!Init
  <1> SUFFICES ASSUME Init
               PROVE  WellFormed(LoadPostgresSnapshot(db))
                      /\ LoadPostgresSnapshot(db) \in {NoSnapshot, LegacySnapshot}
    BY DEF HeldWell, Register!Init
  <1>1. PICK form \in LegacyForms : db = IF form = "none" THEN EmptyTables ELSE LegacyTables(form)
    BY DEF Init
  <1>2. CASE form = "none"
    BY <1>1, <1>2, EmptyIsLoaded, NoSnapshotWell
  <1>3. CASE form # "none"
    <2>1. form \in {"json", "snapshot", "delta"}
      BY <1>3, StoreConstants
    <2> QED
      BY <1>1, <1>3, <2>1, LegacyIsLoaded, LegacyWell
  <1> QED
    BY <1>2, <1>3

\* Every step is a whole pass over the snapshot in force, or leaves it alone.
LEMMA RegisterStep ==
  LoadInv /\ HeldWell /\ [Next]_vars => HeldWell' /\ [Register!Pass]_(LoadPostgresSnapshot(db))
  <1> SUFFICES ASSUME LoadInv, HeldWell, [Next]_vars
               PROVE  HeldWell' /\ [Register!Pass]_(LoadPostgresSnapshot(db))
    OBVIOUS
  <1>1. CASE Migrate
    <2>1. /\ db'.row = db.row /\ db'.history = db.history /\ db'.versions = db.versions
          /\ db'.entities = db.entities /\ db'.sources = db.sources
          /\ db'.cursors = db.cursors
      BY <1>1 DEF Migrate, LoadInv, StoreType, Tables, EmptyTables
    <2>2. LoadPostgresSnapshot(db)' = LoadPostgresSnapshot(db)
      BY <2>1 DEF LoadPostgresSnapshot
    <2> QED
      BY <2>2 DEF HeldWell
  <1>2. ASSUME NEW i \in Indexers, WriteSnapshot(i)
        PROVE  HeldWell' /\ Register!Pass
    <2>1. PICK o \in PassOutcomes(LoadPostgresSnapshot(proc[i].got), proc[i].reset) :
             db' = WriteTables(db, o, proc[i].reset)
      BY <1>2 DEF WriteSnapshot
    <2>2. proc[i].pc = "loaded" /\ proc[i].reset \in BOOLEAN
      BY <1>2 DEF WriteSnapshot, LoadInv, StoreType, LocalsType
    <2>3. o \in PassOutcomes(LoadPostgresSnapshot(db), proc[i].reset)
      BY <2>1, <2>2, LoadedIsStored
    <2>4. WellFormed(o.snap) /\ o.snap.found = TRUE
      BY <2>3, OutcomeWell DEF HeldWell, PassResult
    <2>5. LoadPostgresSnapshot(db') = o.snap
      BY <2>1, <2>4, WrittenIsLoaded DEF LoadInv, StoreType
    <2> QED
      BY <2>2, <2>3, <2>4, <2>5 DEF HeldWell, Register!Pass
  <1>3. CASE UNCHANGED db
    BY <1>3 DEF HeldWell, LoadPostgresSnapshot
  <1> QED
    BY <1>1, <1>2, <1>3
       DEF Next, AcquireIndexerLock, Fail, StartRead, ReadStatement, Finish, vars

\* The tables implement the snapshot register: read and written row by row, with
\* deltas, tombstones and statement-wise loads, they hold one snapshot with its
\* history, and it changes by whole passes over itself.
THEOREM ImplementsSnapshotRegister == Spec => ImplementsRegister
  <1>1. Register!Init /\ [][Register!Pass]_(LoadPostgresSnapshot(db)) => ImplementsRegister
    BY DEF ImplementsRegister, Register!Spec
  <1>2. Init => LoadInv /\ HeldWell /\ Register!Init
    BY LoadInit, RegisterInit
  <1>3. LoadInv /\ HeldWell /\ [Next]_vars =>
           LoadInv' /\ HeldWell' /\ [Register!Pass]_(LoadPostgresSnapshot(db))
    BY LoadStep, RegisterStep
  <1> QED
    BY <1>1, <1>2, <1>3, PTL DEF Spec

(***************************************************************************)
(* The timeline.                                                            *)
(***************************************************************************)
\* A function takes finitely many arguments to finitely many values.
LEMMA FiniteImage ==
  ASSUME NEW f, IsFiniteSet(DOMAIN f)
  PROVE  LET T == {f[x] : x \in DOMAIN f}
         IN  IsFiniteSet(T) /\ Cardinality(T) <= Cardinality(DOMAIN f)
  <1> DEFINE S == DOMAIN f
             T == {f[x] : x \in S}
             g == [x \in S |-> f[x]]
  <1>1. g \in [S -> T] /\ \A y \in T : \E x \in S : g[x] = y
    OBVIOUS
  <1> HIDE DEF g, T
  <1>2. g \in Surjection(S, T)
    BY <1>1, Fun_IsSurj
  <1> HIDE DEF S
  <1>3. IsFiniteSet(S)
    BY DEF S
  <1>4. IsFiniteSet(T) /\ Cardinality(T) <= Cardinality(S)
    BY <1>2, <1>3, FS_Surjection
  <1> QED
    BY <1>4 DEF T, S

\* Two finite maps differ in finitely many keys.
LEMMA FiniteChanges ==
  ASSUME NEW a, NEW m, IsMap(a), IsMap(m)
  PROVE  IsFiniteSet(ChangedEntityVersions(a, m))
  <1> DEFINE set(k) == [key |-> k, data |-> m[k], removed |-> FALSE,
                        prev |-> IF k \in DOMAIN a THEN a[k] ELSE NoData]
             gone(k) == [key |-> k, data |-> NoData, removed |-> TRUE, prev |-> a[k]]
             kept == {j \in DOMAIN m : j \notin DOMAIN a \/ a[j] # m[j]}
             lost == DOMAIN a \ DOMAIN m
             f == [k \in kept |-> set(k)]
             g == [k \in lost |-> gone(k)]
  <1>1. ChangedEntityVersions(a, m) = {set(k) : k \in kept} \cup {gone(k) : k \in lost}
    BY DEF ChangedEntityVersions
  <1>2. IsFiniteSet(kept) /\ IsFiniteSet(lost)
    <2>1. IsFiniteSet(DOMAIN a) /\ IsFiniteSet(DOMAIN m)
      BY DEF IsMap
    <2>2. kept \subseteq DOMAIN m /\ lost \subseteq DOMAIN a
      OBVIOUS
    <2> HIDE DEF kept, lost
    <2> QED
      BY <2>1, <2>2, FS_Subset
  <1>3. DOMAIN f = kept /\ \A k \in kept : f[k] = set(k)
    OBVIOUS
  <1>4. DOMAIN g = lost /\ \A k \in lost : g[k] = gone(k)
    OBVIOUS
  <1> HIDE DEF set, gone, kept, lost, f, g
  <1>5. IsFiniteSet({f[k] : k \in kept}) /\ IsFiniteSet({g[k] : k \in lost})
    BY <1>2, <1>3, <1>4, FiniteImage
  <1>6. /\ {f[k] : k \in kept} = {set(k) : k \in kept}
        /\ {g[k] : k \in lost} = {gone(k) : k \in lost}
    BY <1>3, <1>4
  <1> DEFINE A == {set(k) : k \in kept}
             B == {gone(k) : k \in lost}
  <1>7. IsFiniteSet(A) /\ IsFiniteSet(B)
    BY <1>5, <1>6
  <1> HIDE DEF A, B
  <1>8. IsFiniteSet(A \cup B)
    BY <1>7, FS_Union
  <1> QED
    BY <1>1, <1>8 DEF A, B

\* The activity in block order: snapshots of the pass, one after the other.
LEMMA OrderedActivityFacts ==
  ASSUME NEW act, IsList(act), \A i \in DOMAIN act : IsEntry(act[i])
  PROVE  LET s == OrderedActivity(act)
         IN  \E n \in Nat : /\ DOMAIN s = 1 .. n
                            /\ \A i \in 1 .. n : \E j \in DOMAIN act : s[i] = act[j]
  <1> DEFINE last == {i \in DOMAIN act :
                        \A j \in DOMAIN act : act[j].ckpt.to = act[i].ckpt.to => j <= i}
             R == {act[i] : i \in last}
             n == Cardinality(last)
             key == [i \in last |-> act[i].ckpt.to]
             at == InOrder(last, key)
             t == [k \in 1 .. n |-> act[at[k]]]
             s == OrderedActivity(act)
             Fits(x) == \A i, j \in DOMAIN x : i < j => x[i].ckpt.to < x[j].ckpt.to
  <1>1. DOMAIN act = 1 .. Len(act) /\ Len(act) \in Nat /\ IsFiniteSet(DOMAIN act)
    BY ListFacts
  <1>2. last \in SUBSET Int /\ IsFiniteSet(last) /\ last \subseteq DOMAIN act
    <2>1. last \subseteq DOMAIN act
      OBVIOUS
    <2> HIDE DEF last
    <2> QED
      BY <1>1, <2>1, FS_Subset
  <1>3. \A i \in DOMAIN act : act[i].ckpt.to \in Int
    BY DEF IsEntry
  <1>4. \A i, j \in last : act[i].ckpt.to = act[j].ckpt.to => i = j
    <2> SUFFICES ASSUME NEW i \in last, NEW j \in last, act[i].ckpt.to = act[j].ckpt.to
                 PROVE  i = j
      OBVIOUS
    <2>1. i <= j /\ j <= i
      OBVIOUS
    <2> QED
      BY <1>1, <2>1
  <1>5. s = InBlockOrder(R)
    BY DEF OrderedActivity
  <1> HIDE DEF last, s
  <1>6. \A i \in last : key[i] \in Int /\ key[i] = act[i].ckpt.to
    BY <1>2, <1>3
  <1> HIDE DEF key
  <1>7. /\ n \in Nat /\ at \in [1 .. n -> last]
        /\ \A j \in last : \E k \in 1 .. n : at[k] = j
        /\ \A k, l \in 1 .. n : k < l => Precedes(key, at[k], at[l])
    BY <1>2, <1>6, InOrderFacts
  <1> HIDE DEF at, n
  <1>8. /\ t \in [1 .. n -> R]
        /\ \A r \in R : \E k \in 1 .. n : t[k] = r
    <2>1. \A k \in 1 .. n : t[k] \in R
      BY <1>7
    <2>2. ASSUME NEW i \in last PROVE \E k \in 1 .. n : t[k] = act[i]
      BY <1>7
    <2> QED
      BY <2>1, <2>2
  <1>9. \A k, l \in 1 .. n : k < l => act[at[k]].ckpt.to < act[at[l]].ckpt.to
    <2> SUFFICES ASSUME NEW k \in 1 .. n, NEW l \in 1 .. n, k < l
                 PROVE  act[at[k]].ckpt.to < act[at[l]].ckpt.to
      OBVIOUS
    <2> DEFINE i == at[k]
               j == at[l]
    <2>1. i \in last /\ j \in last /\ Precedes(key, i, j)
      BY <1>7
    <2>2. i \in Int /\ j \in Int
      BY <1>2, <2>1
    <2> HIDE DEF i, j
    <2>3. act[i].ckpt.to < act[j].ckpt.to
      <3>1. key[i] < key[j] \/ (key[i] = key[j] /\ i < j)
        BY <2>1 DEF Precedes
      <3>2. key[i] = key[j] => i = j
        BY <1>4, <1>6, <2>1
      <3>3. key[i] < key[j]
        BY <2>2, <3>1, <3>2
      <3> QED
        BY <1>6, <2>1, <3>3
    <2> QED
      BY <2>3 DEF i, j
  <1>10. Fits(t)
    BY <1>9
  <1>11. Cardinality(R) = n
    <2> DEFINE S == 1 .. n
    <2>1. \A k, l \in S : t[k] = t[l] => k = l
      <3> SUFFICES ASSUME NEW k \in S, NEW l \in S, t[k] = t[l] PROVE k = l
        OBVIOUS
      <3>1. act[at[k]] = act[at[l]] /\ at[k] \in last /\ at[l] \in last
        BY <1>7
      <3>2. act[at[k]].ckpt.to \in Int /\ act[at[k]].ckpt.to = act[at[l]].ckpt.to
        BY <1>2, <1>3, <3>1
      <3>3. ~(k < l) /\ ~(l < k)
        BY <1>9, <3>2
      <3> QED
        BY <1>7, <3>3
    <2>2. IsFiniteSet(S) /\ Cardinality(S) = n
      BY <1>7, FS_Interval
    <2>3. t \in [S -> R] /\ \A r \in R : \E k \in S : t[k] = r
      BY <1>8
    <2> HIDE DEF S, t, R
    <2>4. t \in Injection(S, R) /\ t \in Surjection(S, R)
      BY <2>1, <2>3, Fun_IsInj, Fun_IsSurj
    <2>5. ExistsBijection(S, R)
      BY <2>4 DEF ExistsBijection, Bijection
    <2> QED
      BY <2>2, <2>5, FS_Bijection
  <1>12. s = CHOOSE x \in [1 .. n -> R] : Fits(x)
    BY <1>5, <1>11 DEF InBlockOrder
  <1>13. s \in [1 .. n -> R]
    <2> HIDE DEF Fits, t, R
    <2> QED
      BY <1>8, <1>10, <1>12
  <1>14. DOMAIN s = 1 .. n /\ \A i \in 1 .. n : s[i] \in R
    BY <1>13
  <1>15. \A i \in 1 .. n : \E j \in DOMAIN act : s[i] = act[j]
    BY <1>2, <1>14
  <1> QED
    BY <1>7, <1>14, <1>15 DEF s
(***************************************************************************)
(* Pages.                                                                   *)
(***************************************************************************)
\* Finitely many rows, and a positive count for the block of every change.
Counted(points, changes) ==
    /\ IsFiniteSet(points)
    /\ \A p \in points : p.blk \in Int
    /\ \A c \in changes : \E p \in points : p.blk = c.blk /\ p.changes > 0

\* The place `rank' of `total' is on page n alone, and all pages before are full.
OnPage(rank, total, limit, n) ==
    /\ \A m \in Nat : rank \in (m - 1) * limit .. m * limit - 1 <=> m = n
    /\ \A m \in 1 .. n - 1 : total > m * limit

\* Every place is on a page.
LEMMA PageOf ==
  ASSUME NEW rank \in Nat, NEW total \in Nat, rank < total, NEW limit \in Nat, limit > 0
  PROVE  \E n \in 1 .. total : OnPage(rank, total, limit, n)
  <1> DEFINE S == {n \in Nat : rank < n * limit}
  <1>1. rank + 1 \in S
    <2>1. (rank + 1) * limit = rank * limit + limit
      OBVIOUS
    <2>2. rank * limit >= rank
      OBVIOUS
    <2> QED
      BY <2>1, <2>2
  <1>2. PICK n \in S : \A m \in S : n <= m
    <2>1. S \in SUBSET Nat /\ S # {}
      BY <1>1
    <2> HIDE DEF S
    <2> QED
      BY <2>1, LeastElement
  <1>3. n \in Nat /\ rank < n * limit /\ n <= rank + 1
    BY <1>1, <1>2
  <1>4. n >= 1
    <2>1. n # 0
      BY <1>3
    <2> QED
      BY <1>3, <2>1
  <1>5. \A m \in Nat : m < n => m * limit <= rank
    <2> SUFFICES ASSUME NEW m \in Nat, m < n PROVE m * limit <= rank
      OBVIOUS
    <2>1. m \notin S
      BY <1>2, <1>3
    <2> QED
      BY <2>1
  <1> HIDE DEF S
  <1>6. ASSUME NEW m \in Nat PROVE rank \in (m - 1) * limit .. m * limit - 1 <=> m = n
    <2>1. (n - 1) * limit <= rank
      BY <1>3, <1>4, <1>5
    <2>2. CASE m = n
      BY <1>3, <2>1, <2>2
    <2>3. CASE m < n
      <3>1. m * limit <= rank
        BY <1>5, <2>3
      <3> QED
        BY <2>3, <3>1, <1>3
    <2>4. CASE m > n
      <3>1. m - 1 - n \in Nat /\ n * limit \in Nat
        BY <1>3, <2>4
      <3>2. (m - 1 - n) * limit >= 0
        BY <3>1
      <3>3. (m - 1) * limit = n * limit + (m - 1 - n) * limit
        BY <1>3
      <3>4. (m - 1) * limit > rank
        BY <1>3, <3>1, <3>2, <3>3
      <3> QED
        BY <1>3, <2>4, <3>4
    <2> QED
      BY <1>3, <2>2, <2>3, <2>4
  <1>7. ASSUME NEW m \in 1 .. n - 1 PROVE total > m * limit
    <2>1. m \in Nat /\ m < n
      BY <1>3
    <2>2. m * limit <= rank /\ m * limit \in Nat
      BY <1>5, <2>1
    <2> QED
      BY <2>2
  <1>8. n \in 1 .. total
    BY <1>3, <1>4
  <1> QED
    BY <1>6, <1>7, <1>8 DEF OnPage

\* The blocks of the timeline, and how many of them are newer.
Shown(points) == {p.blk : p \in {q \in points : FALSE \/ q.changes > 0}}
Newer(points, b) == Cardinality({a \in Shown(points) : a > b})

\* A counted block has a place among the blocks of the timeline.
LEMMA RankOf ==
  ASSUME NEW points, NEW changes, Counted(points, changes), NEW c \in changes
  PROVE  /\ c.blk \in Shown(points)
         /\ Newer(points, c.blk) \in Nat
         /\ Cardinality(Shown(points)) \in Nat /\ Cardinality(points) \in Nat
         /\ Newer(points, c.blk) < Cardinality(Shown(points))
         /\ Cardinality(Shown(points)) <= Cardinality(points)
  <1> DEFINE some == {q \in points : FALSE \/ q.changes > 0}
             all  == {p.blk : p \in some}
             over == {a \in all : a > c.blk}
             f    == [p \in some |-> p.blk]
  <1>1. IsFiniteSet(some) /\ Cardinality(some) <= Cardinality(points)
        /\ Cardinality(some) \in Nat /\ Cardinality(points) \in Nat
    <2>1. some \in SUBSET points /\ IsFiniteSet(points)
      BY DEF Counted
    <2> HIDE DEF some
    <2> QED
      BY <2>1, FS_Subset, FS_CardinalityType
  <1>2. PICK p \in points : p.blk = c.blk /\ p.changes > 0
    BY DEF Counted
  <1>3. p \in some /\ c.blk \in all /\ c.blk \in Int
    <2>1. p \in some
      BY <1>2
    <2>2. p.blk \in all
      BY <2>1
    <2> QED
      BY <1>2, <2>1, <2>2 DEF Counted
  <1>4. DOMAIN f = some /\ \A x \in some : f[x] = x.blk
    OBVIOUS
  <1> HIDE DEF some, f
  <1>5. IsFiniteSet(all) /\ Cardinality(all) <= Cardinality(some)
    <2>1. {f[x] : x \in DOMAIN f} = all
      BY <1>4
    <2> HIDE DEF all
    <2> QED
      BY <1>1, <1>4, <2>1, FiniteImage
  <1>6. over \subseteq all /\ c.blk \notin over
    BY <1>3
  <1> HIDE DEF all, over
  <1>7. Cardinality(all) \in Nat
    BY <1>5, FS_CardinalityType
  <1>8. Cardinality(over) \in Nat /\ Cardinality(over) <= Cardinality(all)
        /\ Cardinality(over) # Cardinality(all)
    <2>1. IsFiniteSet(over) /\ Cardinality(over) <= Cardinality(all)
          /\ (Cardinality(all) = Cardinality(over) => all = over)
      BY <1>5, <1>6, FS_Subset
    <2> QED
      BY <1>3, <1>6, <2>1, FS_CardinalityType
  <1> QED
    BY <1>1, <1>3, <1>5, <1>7, <1>8 DEF some, all, over, Shown, Newer

\* Where every change is counted, paging finds its block, and finds it once.
LEMMA CountedIsShown ==
  ASSUME NEW t, Counted(t.points, t.changes), NEW c \in t.changes, NEW limit \in 1 .. 50
  PROVE  LET pages == 1 .. Cardinality(t.points)
         IN  \E n \in pages :
               /\ \A m \in pages : c.blk \in ActivityPage(t, m, limit, FALSE).blocks <=> m = n
               /\ \A m \in 1 .. n - 1 : ActivityPage(t, m, limit, FALSE).hasNext
  <1> DEFINE all   == Shown(t.points)
             r     == Newer(t.points, c.blk)
             total == Cardinality(all)
             pages == 1 .. Cardinality(t.points)
  <1>1. \A m : /\ ActivityPage(t, m, limit, FALSE).blocks =
                     {b \in all : Newer(t.points, b) \in (m - 1) * limit .. m * limit - 1}
               /\ ActivityPage(t, m, limit, FALSE).hasNext = (total > m * limit)
    BY DEF ActivityPage, Shown, Newer
  <1>2. /\ c.blk \in all /\ r \in Nat /\ total \in Nat /\ Cardinality(t.points) \in Nat
        /\ r < total /\ total <= Cardinality(t.points)
    BY RankOf
  <1> HIDE DEF all, total
  <1>3. \A m : c.blk \in ActivityPage(t, m, limit, FALSE).blocks
                 <=> r \in (m - 1) * limit .. m * limit - 1
    BY <1>1, <1>2
  <1> HIDE DEF r
  <1>4. PICK n \in 1 .. total : OnPage(r, total, limit, n)
    <2>1. limit \in Nat /\ limit > 0
      OBVIOUS
    <2> QED
      BY <1>2, <2>1, PageOf
  <1>5. n \in pages /\ pages \subseteq Nat
    BY <1>2
  <1>6. \A m \in pages : c.blk \in ActivityPage(t, m, limit, FALSE).blocks <=> m = n
    BY <1>3, <1>4, <1>5 DEF OnPage
  <1>7. \A m \in 1 .. n - 1 : ActivityPage(t, m, limit, FALSE).hasNext
    BY <1>1, <1>4 DEF OnPage
  <1> QED
    BY <1>5, <1>6, <1>7

\* A row of a block has its number.
LEMMA PointBlock == \A b, changes : PointRow(b, changes).blk = b
  BY DEF PointRow

\* Among finitely many changes, the row of a block that has one counts it.
LEMMA PointCounts ==
  ASSUME NEW changes, IsFiniteSet(changes), NEW c \in changes
  PROVE  PointRow(c.blk, changes).blk = c.blk /\ PointRow(c.blk, changes).changes > 0
  <1> DEFINE S == {e \in changes : e.blk = c.blk}
             n == Cardinality(S)
  <1>1. S \subseteq changes /\ c \in S
    OBVIOUS
  <1>2. PointRow(c.blk, changes).blk = c.blk /\ PointRow(c.blk, changes).changes = n
    BY DEF PointRow
  <1> HIDE DEF S
  <1>3. n \in Nat /\ n # 0
    <2>1. IsFiniteSet(S) /\ S # {}
      BY <1>1, FS_Subset
    <2> QED
      BY <2>1, FS_EmptySet, FS_CardinalityType
  <1> QED
    BY <1>2, <1>3

\* Rows of blocks that stay are counted as before.
LEMMA CountedKept ==
  ASSUME NEW points, NEW changes, Counted(points, changes), NEW first, NEW reset
  PROVE  Counted(KeptActivity(points, first, reset), KeptActivity(changes, first, reset))
  <1> DEFINE P == KeptActivity(points, first, reset)
             C == KeptActivity(changes, first, reset)
  <1>1. CASE reset
    <2>1. P = {} /\ C = {}
      BY <1>1 DEF KeptActivity
    <2> QED
      BY <2>1, FS_EmptySet DEF Counted
  <1>2. CASE ~reset
    <2>1. P = {x \in points : x.blk < first} /\ C = {x \in changes : x.blk < first}
      BY <1>2 DEF KeptActivity
    <2>2. P \subseteq points /\ C \subseteq changes
      BY <2>1
    <2>3. IsFiniteSet(P)
      BY <2>2, FS_Subset DEF Counted
    <2>4. ASSUME NEW c \in C PROVE \E p \in P : p.blk = c.blk /\ p.changes > 0
      <3>1. PICK p \in points : p.blk = c.blk /\ p.changes > 0
        BY <2>2 DEF Counted
      <3>2. p.blk < first
        BY <2>1, <3>1
      <3> QED
        BY <2>1, <3>1, <3>2
    <2> QED
      BY <2>2, <2>3, <2>4 DEF Counted
  <1> QED
    BY <1>1, <1>2

\* So are both sorts of rows together.
LEMMA CountedBoth ==
  ASSUME NEW P, NEW C, Counted(P, C), NEW Q, NEW D, Counted(Q, D)
  PROVE  Counted(P \cup Q, C \cup D)
  <1>1. IsFiniteSet(P \cup Q)
    BY FS_Union DEF Counted
  <1> QED
    BY <1>1 DEF Counted
\* No entities are a map of them.
LEMMA NoEntitiesIsMap == IsMap(NoEntities)
  BY NoSnapshotWell DEF WellFormed, NoSnapshot

\* What a transaction writes is counted.
LEMMA WrittenIsCounted ==
  ASSUME NEW t, Counted(t.points, t.changes), IsMap(t.entities),
         NEW o, PassResult(o), NEW reset
  PROVE  LET act == WriteActivity(t, o, reset)
         IN  Counted(act.points, act.changes)
  <1> DEFINE steps     == OrderedActivity(o.activity)
             before(i) == IF i = 1 THEN ActivityBaseline(t, o, reset) ELSE steps[i - 1].applied
             rows(i)   == {ChangeRow(steps[i].ckpt.to, v) :
                             v \in ChangedEntityVersions(before(i), steps[i].applied)}
             changes   == UNION {rows(i) : i \in DOMAIN steps}
             points    == {PointRow(steps[i].ckpt.to, changes) : i \in DOMAIN steps}
             first     == steps[1].ckpt.to
  <1>1. /\ WriteActivity(t, o, reset).changes = KeptActivity(t.changes, first, reset) \cup changes
        /\ WriteActivity(t, o, reset).points = KeptActivity(t.points, first, reset) \cup points
    BY DEF WriteActivity
  <1>2. PICK n \in Nat : /\ DOMAIN steps = 1 .. n
                         /\ \A i \in 1 .. n : \E j \in DOMAIN o.activity : steps[i] = o.activity[j]
    BY OrderedActivityFacts DEF PassResult
  <1> HIDE DEF steps
  <1>3. \A i \in 1 .. n : IsMap(steps[i].applied) /\ steps[i].ckpt.to \in Int
    <2>1. \A i \in 1 .. n : IsEntry(steps[i])
      BY <1>2 DEF PassResult
    <2> QED
      BY <2>1 DEF IsEntry
  <1>4. IsMap(ActivityBaseline(t, o, reset))
    BY NoEntitiesIsMap DEF ActivityBaseline, PassResult, WellFormed
  <1>5. \A i \in 1 .. n : IsMap(before(i))
    <2> SUFFICES ASSUME NEW i \in 1 .. n PROVE IsMap(before(i))
      OBVIOUS
    <2>1. CASE i = 1
      BY <1>4, <2>1
    <2>2. CASE i # 1
      <3>1. i - 1 \in 1 .. n
        BY <1>2, <2>2
      <3> QED
        BY <1>3, <2>2, <3>1
    <2> QED
      BY <2>1, <2>2
  <1>6. IsFiniteSet(DOMAIN steps)
    BY <1>2, FS_Interval
  <1> HIDE DEF before, changes
  <1>7. \A i \in 1 .. n : IsFiniteSet(rows(i)) /\ \A c \in rows(i) : c.blk = steps[i].ckpt.to
    <2> SUFFICES ASSUME NEW i \in 1 .. n
                 PROVE  IsFiniteSet(rows(i)) /\ \A c \in rows(i) : c.blk = steps[i].ckpt.to
      OBVIOUS
    <2> DEFINE V == ChangedEntityVersions(before(i), steps[i].applied)
               f == [v \in V |-> ChangeRow(steps[i].ckpt.to, v)]
    <2>1. IsFiniteSet(V)
      BY <1>3, <1>5, FiniteChanges
    <2>2. DOMAIN f = V /\ {f[v] : v \in V} = rows(i)
      OBVIOUS
    <2> HIDE DEF V, f
    <2>3. IsFiniteSet(rows(i))
      <3>1. IsFiniteSet({f[v] : v \in DOMAIN f})
        BY <2>1, <2>2, FiniteImage
      <3> HIDE DEF rows
      <3> QED
        BY <2>2, <3>1
    <2> QED
      BY <2>3 DEF ChangeRow
  <1> HIDE DEF rows
  <1>8. IsFiniteSet(changes)
    <2> DEFINE f == [i \in DOMAIN steps |-> rows(i)]
               T == {f[i] : i \in DOMAIN f}
    <2>1. DOMAIN f = DOMAIN steps /\ \A i \in DOMAIN steps : f[i] = rows(i)
      OBVIOUS
    <2> HIDE DEF f
    <2>2. T = {rows(i) : i \in DOMAIN steps} /\ \A S \in T : IsFiniteSet(S)
      BY <1>2, <1>7, <2>1
    <2>3. IsFiniteSet(T)
      BY <1>6, <2>1, FiniteImage
    <2> HIDE DEF T
    <2> QED
      BY <2>2, <2>3, FS_UNION DEF changes
  <1>9. \A c \in changes : \E i \in DOMAIN steps : c.blk = steps[i].ckpt.to
    BY <1>2, <1>7 DEF changes
  <1>10. IsFiniteSet(points)
    <2> DEFINE f == [i \in DOMAIN steps |-> PointRow(steps[i].ckpt.to, changes)]
    <2>1. DOMAIN f = DOMAIN steps /\ points = {f[i] : i \in DOMAIN f}
      OBVIOUS
    <2> HIDE DEF f, points
    <2> QED
      BY <1>6, <2>1, FiniteImage
  <1>11. \A p \in points : p.blk \in Int
    BY <1>2, <1>3, PointBlock
  <1>12. \A c \in changes : \E p \in points : p.blk = c.blk /\ p.changes > 0
    <2> SUFFICES ASSUME NEW c \in changes PROVE \E p \in points : p.blk = c.blk /\ p.changes > 0
      OBVIOUS
    <2>1. PointRow(c.blk, changes) \in points
      BY <1>9
    <2> QED
      BY <1>8, <2>1, PointCounts
  <1> HIDE DEF points, first
  <1>13. Counted(points, changes)
    BY <1>10, <1>11, <1>12 DEF Counted
  <1>14. Counted(KeptActivity(t.points, first, reset), KeptActivity(t.changes, first, reset))
    BY CountedKept
  <1> QED
    BY <1>1, <1>13, <1>14, CountedBoth

(***************************************************************************)
(* The backfill.                                                            *)
(***************************************************************************)
\* What the newest earlier version row of a key leaves,
PreviousData(versions, v) ==
    LET earlier   == {p \in versions : p.key = v.key /\ p.blk < v.blk}
        latest    == {p \in earlier : \A q \in earlier : q.blk <= p.blk}
        known     == {p \in latest : ~p.removed}
    IN  IF known = {} THEN NoData ELSE (CHOOSE p \in known : TRUE).data

\* whether a version row changes that, and the change then.
IsChange(versions, v) ==
    IF v.removed THEN PreviousData(versions, v) # NoData ELSE PreviousData(versions, v) # v.data

BackfilledRow(versions, v) ==
    ChangeRow(v.blk, [key |-> v.key, data |-> v.data, removed |-> v.removed,
                      prev |-> PreviousData(versions, v)])

\* ugraph_migration writes a row for each version row that changes something.
LEMMA BackfilledFacts ==
  ASSUME NEW V
  PROVE  BackfilledChanges(V) = {BackfilledRow(V, v) : v \in {w \in V : IsChange(V, w)}}
  <1> DEFINE row(v)  == [v |-> v, prev |-> PreviousData(V, v)]
             real(x) == IF x.v.removed THEN x.prev # NoData ELSE x.prev # x.v.data
             out(x)  == ChangeRow(x.v.blk, [key |-> x.v.key, data |-> x.v.data,
                                            removed |-> x.v.removed, prev |-> x.prev])
             kept    == {y \in {row(v) : v \in V} : real(y)}
  <1>1. BackfilledChanges(V) = {out(x) : x \in kept}
    BY DEF BackfilledChanges, PreviousData
  <1>2. \A v : real(row(v)) = IsChange(V, v) /\ out(row(v)) = BackfilledRow(V, v)
    BY DEF IsChange, BackfilledRow
  <1> HIDE DEF row, out, real
  <1>3. \A x : x \in kept <=> \E v \in V : x = row(v) /\ IsChange(V, v)
    BY <1>2
  <1> HIDE DEF kept
  <1>4. \A c : c \in BackfilledChanges(V)
               <=> c \in {BackfilledRow(V, v) : v \in {w \in V : IsChange(V, w)}}
    BY <1>1, <1>2, <1>3
  <1> QED
    BY <1>4

\* The rows that the backfill writes are counted.
LEMMA BackfilledIsCounted ==
  ASSUME NEW V, IsFiniteSet(V), NEW H, IsFiniteSet(H), \A g \in H : g.ckpt.to \in Int,
         \A v \in V : \E g \in H : g.ckpt.from <= g.ckpt.to /\ g.ckpt.to = v.blk
  PROVE  LET changes == BackfilledChanges(V)
             blocks  == {h.ckpt.to : h \in {g \in H : g.ckpt.from <= g.ckpt.to}}
         IN  Counted({PointRow(b, changes) : b \in blocks}, changes)
  <1> DEFINE changes == BackfilledChanges(V)
             real    == {w \in V : IsChange(V, w)}
             covered == {g \in H : g.ckpt.from <= g.ckpt.to}
             blocks  == {h.ckpt.to : h \in covered}
             points  == {PointRow(b, changes) : b \in blocks}
  <1>1. changes = {BackfilledRow(V, v) : v \in real}
    BY BackfilledFacts
  <1>2. IsFiniteSet(real) /\ IsFiniteSet(covered) /\ real \subseteq V /\ covered \subseteq H
    <2>1. real \subseteq V /\ covered \subseteq H
      OBVIOUS
    <2> HIDE DEF real, covered
    <2> QED
      BY <2>1, FS_Subset
  <1> HIDE DEF real
  <1>3. IsFiniteSet(changes)
    <2> DEFINE f == [v \in real |-> BackfilledRow(V, v)]
    <2>1. DOMAIN f = real /\ changes = {f[v] : v \in DOMAIN f}
      BY <1>1
    <2> HIDE DEF f, changes
    <2> QED
      BY <1>2, <2>1, FiniteImage
  <1>4. \A c \in changes : \E v \in real : c.blk = v.blk
    <2>1. \A v : BackfilledRow(V, v).blk = v.blk
      BY DEF BackfilledRow, ChangeRow
    <2> QED
      BY <1>1, <2>1
  <1> HIDE DEF changes
  <1>5. \A c \in changes : c.blk \in blocks
    <2> SUFFICES ASSUME NEW c \in changes PROVE c.blk \in blocks
      OBVIOUS
    <2>1. PICK v \in V : c.blk = v.blk
      BY <1>2, <1>4
    <2>2. PICK g \in H : g.ckpt.from <= g.ckpt.to /\ g.ckpt.to = v.blk
      OBVIOUS
    <2>3. g \in covered
      BY <2>2
    <2> QED
      BY <2>1, <2>2, <2>3
  <1>6. \A b \in blocks : b \in Int
    OBVIOUS
  <1>7. IsFiniteSet(blocks)
    <2> DEFINE f == [h \in covered |-> h.ckpt.to]
    <2>1. DOMAIN f = covered /\ blocks = {f[h] : h \in DOMAIN f}
      OBVIOUS
    <2> HIDE DEF f, blocks, covered
    <2> QED
      BY <1>2, <2>1, FiniteImage
  <1> HIDE DEF blocks
  <1>8. IsFiniteSet(points)
    <2> DEFINE f == [b \in blocks |-> PointRow(b, changes)]
    <2>1. DOMAIN f = blocks /\ points = {f[b] : b \in DOMAIN f}
      OBVIOUS
    <2> HIDE DEF f, points
    <2> QED
      BY <1>7, <2>1, FiniteImage
  <1>9. \A p \in points : p.blk \in Int
    BY <1>6, PointBlock
  <1>10. \A c \in changes : \E p \in points : p.blk = c.blk /\ p.changes > 0
    BY <1>3, <1>5, PointCounts
  <1> HIDE DEF points
  <1>11. Counted(points, changes)
    BY <1>8, <1>9, <1>10 DEF Counted
  <1> QED
    BY <1>11 DEF points, blocks, changes

\* Finitely many version rows, each of a block that a checkpoint covers.
Covered(versions, history) ==
    /\ IsFiniteSet(versions) /\ IsFiniteSet(history)
    /\ \A g \in history : g.ckpt.to \in Int
    /\ \A v \in versions :
          \E g \in history : g.ckpt.from <= g.ckpt.to /\ g.ckpt.to = v.blk

\* The rows that a function of the retained blocks gives them.
LEMMA RowsAreCovered ==
  ASSUME NEW h, IsHistory(h), \A i \in DOMAIN h : IsEntry(h[i]) /\ h[i].ckpt.from <= h[i].ckpt.to,
         NEW rows, \A i \in DOMAIN h : /\ IsFiniteSet(rows[i])
                                        /\ \A v \in rows[i] : v.blk = h[i].ckpt.to,
         DOMAIN rows = DOMAIN h, NEW mode
  PROVE  Covered(UNION {rows[i] : i \in DOMAIN rows}, HistoryRows(h, mode))
  <1> DEFINE T == {rows[i] : i \in DOMAIN rows}
             H == HistoryRows(h, mode)
             f == [i \in DOMAIN h |-> [ckpt |-> h[i].ckpt, dyn |-> h[i].dyn, mode |-> mode]]
  <1>1. IsFiniteSet(DOMAIN h)
    BY ListFacts DEF IsHistory
  <1>2. IsFiniteSet(UNION T)
    <2>1. IsFiniteSet(T) /\ \A S \in T : IsFiniteSet(S)
      BY <1>1, FiniteImage
    <2> HIDE DEF T
    <2> QED
      BY <2>1, FS_UNION
  <1>3. /\ DOMAIN f = DOMAIN h /\ H = {f[i] : i \in DOMAIN f}
        /\ \A i \in DOMAIN h : f[i] \in H /\ f[i].ckpt = h[i].ckpt
    BY DEF HistoryRows
  <1> HIDE DEF f, H
  <1>4. IsFiniteSet(H)
    BY <1>1, <1>3, FiniteImage
  <1>5. \A g \in H : g.ckpt.to \in Int
    BY <1>3 DEF IsEntry
  <1>6. ASSUME NEW v \in UNION T PROVE \E g \in H : g.ckpt.from <= g.ckpt.to /\ g.ckpt.to = v.blk
    <2>1. PICK i \in DOMAIN h : v \in rows[i]
      OBVIOUS
    <2>2. f[i] \in H /\ f[i].ckpt = h[i].ckpt
      BY <1>3
    <2> QED
      BY <2>1, <2>2
  <1> HIDE DEF T
  <1> QED
    BY <1>2, <1>4, <1>5, <1>6 DEF Covered, T, H

\* So they are in each layout that an earlier release left.
LEMMA LegacyIsCovered ==
  ASSUME NoEmptyRange, NEW form \in {"json", "snapshot", "delta"}
  PROVE  Covered(LegacyTables(form).versions, LegacyTables(form).history)
  <1> DEFINE h == LegacyHistory
             w == LegacyTables(form)
  <1>1. /\ w.history = IF form = "json" THEN {} ELSE HistoryRows(h, form)
        /\ w.versions = CASE form = "json" -> {} [] form = "snapshot" -> FullRows(h)
                          [] OTHER -> VersionRows(h)
    BY DEF LegacyTables, EmptyTables
  <1>2. IsHistory(h) /\ \A i \in DOMAIN h : IsEntry(h[i]) /\ h[i].ckpt.from <= h[i].ckpt.to
    BY LegacyFacts DEF NoEmptyRange
  <1>3. \A i \in DOMAIN h : IsMap(h[i].applied)
    BY <1>2 DEF IsEntry
  <1> HIDE DEF w, h
  <1>4. CASE form = "json"
    <2>1. w.history = {} /\ w.versions = {}
      BY <1>1, <1>4
    <2> QED
      BY <2>1, FS_EmptySet DEF Covered, w
  <1>5. CASE form = "snapshot"
    <2> DEFINE row(i, k) == [blk |-> h[i].ckpt.to, key |-> k, data |-> h[i].applied[k],
                             removed |-> FALSE]
               rows == [i \in DOMAIN h |-> {row(i, k) : k \in DOMAIN h[i].applied}]
    <2>1. w.history = HistoryRows(h, form) /\ w.versions = UNION {rows[i] : i \in DOMAIN rows}
      BY <1>1, <1>5 DEF FullRows
    <2>2. ASSUME NEW i \in DOMAIN h
          PROVE  IsFiniteSet(rows[i]) /\ \A v \in rows[i] : v.blk = h[i].ckpt.to
      <3> DEFINE f == [k \in DOMAIN h[i].applied |-> row(i, k)]
      <3>1. rows[i] = {f[k] : k \in DOMAIN f} /\ DOMAIN f = DOMAIN h[i].applied
        OBVIOUS
      <3>2. \A v \in rows[i] : v.blk = h[i].ckpt.to
        OBVIOUS
      <3>3. IsFiniteSet(DOMAIN h[i].applied)
        BY <1>3 DEF IsMap
      <3> HIDE DEF f, rows
      <3>4. IsFiniteSet({f[k] : k \in DOMAIN f})
        BY <3>1, <3>3, FiniteImage
      <3> QED
        BY <3>1, <3>2, <3>4
    <2>3. DOMAIN rows = DOMAIN h
      OBVIOUS
    <2> HIDE DEF rows
    <2> QED
      BY <1>2, <2>1, <2>2, <2>3, RowsAreCovered DEF w
  <1>6. CASE form = "delta"
    <2> DEFINE row(i, v) == [blk |-> h[i].ckpt.to, key |-> v.key, data |-> v.data,
                             removed |-> v.removed]
               diff(i) == ChangedEntityVersions(BeforeBlock(h, i), h[i].applied)
               rows == [i \in DOMAIN h |-> {row(i, v) : v \in diff(i)}]
    <2>1. w.history = HistoryRows(h, form) /\ w.versions = UNION {rows[i] : i \in DOMAIN rows}
      BY <1>1, <1>6 DEF VersionRows, BeforeBlock
    <2>2. ASSUME NEW i \in DOMAIN h
          PROVE  IsFiniteSet(rows[i]) /\ \A v \in rows[i] : v.blk = h[i].ckpt.to
      <3> DEFINE f == [v \in diff(i) |-> row(i, v)]
      <3>1. rows[i] = {f[v] : v \in DOMAIN f} /\ DOMAIN f = diff(i)
        OBVIOUS
      <3>2. \A v \in rows[i] : v.blk = h[i].ckpt.to
        OBVIOUS
      <3>3. IsMap(BeforeBlock(h, i))
        <4>1. CASE i = 1
          BY <4>1, NoEntitiesIsMap DEF BeforeBlock
        <4>2. CASE i # 1
          <5>1. i - 1 \in DOMAIN h
            BY <1>2, <4>2, ListFacts DEF IsHistory
          <5> QED
            BY <1>3, <4>2, <5>1 DEF BeforeBlock
        <4> QED
          BY <4>1, <4>2
      <3>4. IsFiniteSet(diff(i))
        BY <1>3, <3>3, FiniteChanges
      <3> HIDE DEF f, rows, diff
      <3>5. IsFiniteSet({f[v] : v \in DOMAIN f})
        BY <3>1, <3>4, FiniteImage
      <3> QED
        BY <3>1, <3>2, <3>5
    <2>3. DOMAIN rows = DOMAIN h
      OBVIOUS
    <2> HIDE DEF rows
    <2> QED
      BY <1>2, <2>1, <2>2, <2>3, RowsAreCovered DEF w
  <1> QED
    BY <1>4, <1>5, <1>6

\* Every change is counted, and will be when the version rows are read off.
PointInv ==
    /\ Counted(db.points, db.changes)
    /\ IsMap(db.entities)
    /\ ~db.migrated => Covered(db.versions, db.history)

\* Every database begins so,
LEMMA PointInit == NoEmptyRange /\ Init => PointInv
  <1> SUFFICES ASSUME NoEmptyRange, Init PROVE PointInv
    OBVIOUS
  <1>1. PICK form \in LegacyForms : db = IF form = "none" THEN EmptyTables ELSE LegacyTables(form)
    BY DEF Init
  <1>2. Counted({}, {}) /\ Covered({}, {})
    BY FS_EmptySet DEF Counted, Covered
  <1>3. CASE form = "none"
    <2>1. db.points = {} /\ db.changes = {} /\ db.versions = {} /\ db.history = {}
          /\ db.entities = NoEntities
      BY <1>1, <1>3 DEF EmptyTables
    <2> QED
      BY <1>2, <2>1, NoEntitiesIsMap DEF PointInv
  <1>4. CASE form # "none"
    <2>1. form \in {"json", "snapshot", "delta"}
      BY <1>4, StoreConstants
    <2>2. db = LegacyTables(form)
      BY <1>1, <1>4
    <2>3. db.points = {} /\ db.changes = {} /\ db.entities = Last(LegacyHistory).applied
      BY <2>2 DEF LegacyTables, EmptyTables
    <2>4. IsMap(db.entities)
      BY <2>3, LegacyWell DEF WellFormed, LegacySnapshot
    <2>5. Covered(db.versions, db.history)
      BY <2>1, <2>2, LegacyIsCovered
    <2> QED
      BY <1>2, <2>3, <2>4, <2>5 DEF PointInv
  <1> QED
    BY <1>3, <1>4

\* and every step leaves it so.
LEMMA PointStep == LoadInv /\ HeldWell /\ PointInv /\ [Next]_vars => PointInv'
  <1> SUFFICES ASSUME LoadInv, HeldWell, PointInv, [Next]_vars
               PROVE  PointInv'
    OBVIOUS
  <1>1. CASE Migrate
    <2> DEFINE changes == BackfilledChanges(db.versions)
               blocks  == {h.ckpt.to : h \in {g \in db.history : g.ckpt.from <= g.ckpt.to}}
               points  == {PointRow(b, changes) : b \in blocks}
    <2>1. ~db.migrated /\ db' = [db EXCEPT !.migrated = TRUE, !.changes = changes, !.points = points]
      BY <1>1 DEF Migrate
    <2> HIDE DEF changes, points
    <2>2. /\ db'.migrated /\ db'.changes = changes /\ db'.points = points
          /\ db'.entities = db.entities
      BY <2>1 DEF LoadInv, StoreType, Tables, EmptyTables
    <2>3. Covered(db.versions, db.history)
      BY <2>1 DEF PointInv
    <2>4. Counted(points, changes)
      BY <2>3, BackfilledIsCounted DEF Covered, points, changes
    <2> QED
      BY <2>2, <2>4 DEF PointInv
  <1>2. ASSUME NEW i \in Indexers, WriteSnapshot(i)
        PROVE  PointInv'
    <2>1. PICK o \in PassOutcomes(LoadPostgresSnapshot(proc[i].got), proc[i].reset) :
             db' = WriteTables(db, o, proc[i].reset)
      BY <1>2 DEF WriteSnapshot
    <2>2. proc[i].pc = "loaded" /\ db.migrated
      BY <1>2 DEF WriteSnapshot, LoadInv
    <2>3. o \in PassOutcomes(LoadPostgresSnapshot(db), proc[i].reset)
      BY <2>1, <2>2, LoadedIsStored
    <2>4. PassResult(o)
      BY <2>3, OutcomeWell DEF HeldWell
    <2> DEFINE act == WriteActivity(db, o, proc[i].reset)
    <2>5. /\ db'.migrated = db.migrated /\ db'.points = act.points /\ db'.changes = act.changes
          /\ db'.entities = o.snap.applied
      BY <2>1 DEF WriteTables, LoadInv, StoreType, Tables, EmptyTables
    <2>6. Counted(act.points, act.changes)
      BY <2>4, WrittenIsCounted DEF PointInv
    <2> HIDE DEF act
    <2>7. IsMap(db'.entities)
      BY <2>4, <2>5 DEF PassResult, WellFormed
    <2> QED
      BY <2>2, <2>5, <2>6, <2>7 DEF PointInv
  <1>3. CASE UNCHANGED db
    BY <1>3 DEF PointInv
  <1> QED
    BY <1>1, <1>2, <1>3
       DEF Next, AcquireIndexerLock, Fail, StartRead, ReadStatement, Finish, vars

\* Paging through the activity timeline shows the block of every change row, and
\* shows it once: recent_sync_activity leaves out blocks without changes, and
\* neither a rewritten block nor the backfill of an older database leaves a
\* change in a block whose row counts none.
THEOREM TimelineIsComplete ==
  ASSUME NoEmptyRange
  PROVE  Spec => []TimelineComplete
  <1>1. Init => LoadInv /\ HeldWell /\ PointInv
    BY LoadInit, RegisterInit, PointInit
  <1>2. LoadInv /\ HeldWell /\ PointInv /\ [Next]_vars => LoadInv' /\ HeldWell' /\ PointInv'
    BY LoadStep, RegisterStep, PointStep
  <1>3. PointInv => TimelineComplete
    BY CountedIsShown DEF PointInv, TimelineComplete
  <1> QED
    BY <1>1, <1>2, <1>3, PTL DEF Spec

(***************************************************************************)
(* The trail.  Rows with a key, a block and data (change rows, version rows) *)
(* recount entities when per key the newest row has what is there.           *)
(***************************************************************************)
InBlocks(rows) == \A c \in rows : c.blk \in Int

\* Before a block b the newest rows leave the entities m; a full trail has a row
\* of every entity.
Recounts(rows, full, b, m) ==
    /\ \A k : \A c \in Newest(Prior(Trail(rows, k), b)) : c.data = ValueOf(m, k)
    /\ full => \A k : Prior(Trail(rows, k), b) = {} => k \notin DOMAIN m

\* A block has one row of a key, which starts from what the one before it left;
\* in a full trail the first row of a key creates it.
Linked(rows, full) ==
    /\ InBlocks(rows)
    /\ \A c, e \in rows : c.key = e.key /\ c.blk = e.blk => c = e
    /\ \A c \in rows : \A e \in Newest(Prior(Trail(rows, c.key), c.blk)) : c.prev = e.data
    /\ full => \A c \in rows : Prior(Trail(rows, c.key), c.blk) = {} => c.action = "created"

\* The change from a to m at block b that one key makes.
ChangeOf(a, m, k) ==
    [key |-> k, data |-> ValueOf(m, k), removed |-> k \notin DOMAIN m, prev |-> ValueOf(a, k)]

RowOfKey(b, a, m, k) == ChangeRow(b, ChangeOf(a, m, k))

StepRows(b, a, m) == {ChangeRow(b, v) : v \in ChangedEntityVersions(a, m)}

\* No entity is empty.
Solid(m) == \A k \in DOMAIN m : m[k] # NoData

\* What does not exist has no value, and everything else has one.
LEMMA NoValue ==
  ASSUME NEW m, Solid(m), NEW k
  PROVE  ValueOf(m, k) = NoData <=> k \notin DOMAIN m
  BY DEF Solid, ValueOf

\* The fields of a change.
LEMMA RowFields ==
  ASSUME NEW b, NEW a, NEW m, NEW k, Solid(a), Solid(m)
  PROVE  LET c == RowOfKey(b, a, m, k)
         IN  /\ c.blk = b /\ c.key = k /\ c.data = ValueOf(m, k) /\ c.prev = ValueOf(a, k)
             /\ k \notin DOMAIN a /\ ValueOf(a, k) # ValueOf(m, k) => c.action = "created"
  <1> DEFINE v == ChangeOf(a, m, k)
             c == RowOfKey(b, a, m, k)
  <1>1. /\ v.key = k /\ v.data = ValueOf(m, k) /\ v.removed = (k \notin DOMAIN m)
        /\ v.prev = ValueOf(a, k)
    BY DEF ChangeOf
  <1>2. c = ChangeRow(b, v)
    BY DEF RowOfKey
  <1> HIDE DEF v
  <1>3. c.blk = b /\ c.key = v.key /\ c.data = v.data /\ c.prev = v.prev /\ c.action = ChangeAction(v)
    BY <1>2 DEF ChangeRow
  <1>4. ASSUME k \notin DOMAIN a, ValueOf(a, k) # ValueOf(m, k) PROVE ChangeAction(v) = "created"
    <2>1. ValueOf(a, k) = NoData /\ k \in DOMAIN m
      BY <1>4, NoValue
    <2> QED
      BY <1>1, <2>1 DEF ChangeAction
  <1> QED
    BY <1>1, <1>3, <1>4

\* changed_entity_versions has a change for each key whose value differs,
LEMMA ChangesFacts ==
  ASSUME NEW a, NEW m, Solid(a), Solid(m)
  PROVE  \A v : v \in ChangedEntityVersions(a, m) <=>
                   \E k : ValueOf(a, k) # ValueOf(m, k) /\ v = ChangeOf(a, m, k)
  <1> DEFINE kept == {j \in DOMAIN m : j \notin DOMAIN a \/ a[j] # m[j]}
             lost == DOMAIN a \ DOMAIN m
             set(k) == [key |-> k, data |-> m[k], removed |-> FALSE,
                        prev |-> IF k \in DOMAIN a THEN a[k] ELSE NoData]
             gone(k) == [key |-> k, data |-> NoData, removed |-> TRUE, prev |-> a[k]]
  <1>1. ChangedEntityVersions(a, m) = {set(k) : k \in kept} \cup {gone(k) : k \in lost}
    BY DEF ChangedEntityVersions
  <1>2. ASSUME NEW k \in kept PROVE set(k) = ChangeOf(a, m, k) /\ ValueOf(a, k) # ValueOf(m, k)
    <2>1. ValueOf(m, k) = m[k] /\ k \in DOMAIN m
      BY DEF ValueOf
    <2>2. ValueOf(a, k) = IF k \in DOMAIN a THEN a[k] ELSE NoData
      BY DEF ValueOf
    <2>3. ValueOf(a, k) # ValueOf(m, k)
      BY <2>1, <2>2 DEF Solid
    <2>4. (k \notin DOMAIN m) = FALSE
      BY <2>1
    <2> QED
      BY <2>1, <2>2, <2>3, <2>4 DEF ChangeOf
  <1>3. ASSUME NEW k \in lost PROVE gone(k) = ChangeOf(a, m, k) /\ ValueOf(a, k) # ValueOf(m, k)
    <2>1. ValueOf(m, k) = NoData /\ k \notin DOMAIN m /\ ValueOf(a, k) = a[k] /\ k \in DOMAIN a
      BY DEF ValueOf
    <2>2. (k \notin DOMAIN m) = TRUE
      BY <2>1
    <2> QED
      BY <2>1, <2>2 DEF Solid, ChangeOf
  <1>4. ASSUME NEW k, ValueOf(a, k) # ValueOf(m, k) PROVE k \in kept \cup lost
    BY <1>4 DEF ValueOf
  <1> HIDE DEF kept, lost, set, gone
  <1> QED
    BY <1>1, <1>2, <1>3, <1>4

\* and write_postgres_activity a row for each change.
LEMMA StepRowsFacts ==
  ASSUME NEW b, NEW a, NEW m, Solid(a), Solid(m)
  PROVE  /\ \A c \in StepRows(b, a, m) :
               ValueOf(a, c.key) # ValueOf(m, c.key) /\ c = RowOfKey(b, a, m, c.key)
         /\ \A k : ValueOf(a, k) # ValueOf(m, k) => RowOfKey(b, a, m, k) \in StepRows(b, a, m)
  <1>1. \A c : c \in StepRows(b, a, m) <=>
                 \E k : ValueOf(a, k) # ValueOf(m, k) /\ c = RowOfKey(b, a, m, k)
    BY ChangesFacts DEF StepRows, RowOfKey
  <1>2. \A k : RowOfKey(b, a, m, k).key = k
    BY RowFields
  <1> QED
    BY <1>1, <1>2

\* Rows from a block on do not count before it.
LEMMA SameEarlier ==
  ASSUME NEW C, NEW D, NEW b \in Int, InBlocks(C), InBlocks(D),
         \A c : c.blk < b => (c \in C <=> c \in D), NEW b2 \in Int, b2 <= b, NEW k
  PROVE  Prior(Trail(D, k), b2) = Prior(Trail(C, k), b2)
  <1>1. \A c \in C \cup D : c.blk < b2 => c.blk < b
    BY DEF InBlocks
  <1>2. \A c : c \in Prior(Trail(D, k), b2) <=> c \in D /\ c.key = k /\ c.blk < b2
    BY DEF Prior, Trail
  <1>3. \A c : c \in Prior(Trail(C, k), b2) <=> c \in C /\ c.key = k /\ c.blk < b2
    BY DEF Prior, Trail
  <1>4. \A c : c \in Prior(Trail(D, k), b2) <=> c \in Prior(Trail(C, k), b2)
    BY <1>1, <1>2, <1>3
  <1> QED
    BY <1>4

\* Nor do they change what is recounted there.
LEMMA SameRecount ==
  ASSUME NEW C, NEW D, NEW b \in Int, InBlocks(C), InBlocks(D),
         \A c : c.blk < b => (c \in C <=> c \in D), NEW b2 \in Int, b2 <= b,
         NEW full, NEW m, Recounts(C, full, b2, m)
  PROVE  Recounts(D, full, b2, m)
  <1>1. \A k : Prior(Trail(D, k), b2) = Prior(Trail(C, k), b2)
    BY SameEarlier
  <1> QED
    BY <1>1 DEF Recounts

\* The rows of rewritten blocks are dropped.
LEMMA TrailPruned ==
  ASSUME NEW C, NEW full, Linked(C, full), NEW b \in Int
  PROVE  LET D == {c \in C : c.blk < b}
         IN  /\ Linked(D, full)
             /\ \A b2 \in Int : \A m : b2 <= b /\ Recounts(C, full, b2, m) => Recounts(D, full, b2, m)
  <1> DEFINE D == {c \in C : c.blk < b}
  <1>1. InBlocks(C) /\ InBlocks(D) /\ \A c : c.blk < b => (c \in C <=> c \in D)
    BY DEF Linked, InBlocks
  <1>2. D \subseteq C /\ \A c \in D : c.blk \in Int /\ c.blk <= b
    BY DEF Linked, InBlocks
  <1> HIDE DEF D
  <1>3. \A c \in D : Prior(Trail(D, c.key), c.blk) = Prior(Trail(C, c.key), c.blk)
    BY <1>1, <1>2, SameEarlier
  <1>4. Linked(D, full)
    BY <1>1, <1>2, <1>3 DEF Linked
  <1>5. ASSUME NEW b2 \in Int, NEW m, b2 <= b, Recounts(C, full, b2, m)
        PROVE  Recounts(D, full, b2, m)
    BY <1>1, <1>5, SameRecount
  <1> QED
    BY <1>4, <1>5 DEF D

\* The members of a trail before a block.
LEMMA PriorRows == \A C, k, b, c : c \in Prior(Trail(C, k), b) <=> c \in C /\ c.key = k /\ c.blk < b
  BY DEF Prior, Trail

\* The rows D are C with block b, behind which they recount m; before it they
\* recount what C does.
Grown(C, D, full, b, m) ==
    /\ InBlocks(D) /\ \A c \in D : c.blk <= b
    /\ \A c : c.blk < b => (c \in C <=> c \in D)
    /\ Recounts(D, full, b + 1, m)
    /\ \A b2 \in Int : \A m2 : b2 <= b /\ Recounts(C, full, b2, m2) => Recounts(D, full, b2, m2)

\* Rows of a block are added, one for each key that changes: behind the block the
\* rows recount what is there.
LEMMA RecountsExtends ==
  ASSUME NEW C, NEW full, NEW b \in Int, \A c \in C : c.blk \in Int /\ c.blk < b,
         NEW a, NEW m, Solid(a), Solid(m), Recounts(C, full, b, a),
         NEW R, \A r \in R : r.blk = b /\ r.data = ValueOf(m, r.key),
         \A k : ValueOf(a, k) # ValueOf(m, k) => \E r \in R : r.key = k
  PROVE  Grown(C, C \cup R, full, b, m)
  <1> DEFINE D == C \cup R
             value(k) == ValueOf(m, k)
             old(k) == ValueOf(a, k)
  <1>1. \A c \in D : c.blk \in Int /\ c.blk <= b
    OBVIOUS
  <1>2. InBlocks(C) /\ InBlocks(D)
    BY DEF InBlocks
  <1>3. \A c : c.blk < b => (c \in C <=> c \in D)
    <2> SUFFICES ASSUME NEW c \in R PROVE ~(c.blk < b)
      OBVIOUS
    <2> QED
      OBVIOUS
  <1>4. \A k, c : c \in Prior(Trail(D, k), b + 1) <=> c \in D /\ c.key = k
    <2> HIDE DEF D
    <2>1. \A c \in D : c.blk < b + 1
      BY <1>1
    <2> QED
      BY <2>1, PriorRows
  <1>5. ASSUME NEW k
        PROVE  /\ \A c \in Newest(Prior(Trail(D, k), b + 1)) : c.data = value(k)
               /\ full /\ Prior(Trail(D, k), b + 1) = {} => k \notin DOMAIN m
    <2> DEFINE P == Prior(Trail(D, k), b + 1)
    <2>1. CASE \E r \in R : r.key = k
      <3>1. PICK r \in R : r.key = k
        BY <2>1
      <3>2. r \in P /\ r.blk = b
        BY <1>4, <3>1
      <3>3. ASSUME NEW c \in Newest(P) PROVE c.data = value(k)
        <4>1. c \in P /\ r.blk <= c.blk
          BY <3>2 DEF Newest
        <4>2. c \in D /\ c.key = k
          BY <1>4, <4>1
        <4>3. ~(c.blk < b)
          BY <1>1, <3>2, <4>1, <4>2
        <4>4. c \in R
          BY <4>2, <4>3
        <4> QED
          BY <4>2, <4>4
      <3> QED
        BY <3>2, <3>3
    <2>2. CASE ~\E r \in R : r.key = k
      <3>1. old(k) = value(k)
        BY <2>2
      <3>2. \A c : c \in P <=> c \in C /\ c.key = k
        BY <1>4, <2>2
      <3>3. \A c : c \in Prior(Trail(C, k), b) <=> c \in C /\ c.key = k
        BY PriorRows
      <3>4. P = Prior(Trail(C, k), b)
        <4> HIDE DEF P
        <4>1. \A c : c \in P <=> c \in Prior(Trail(C, k), b)
          BY <3>2, <3>3
        <4> QED
          BY <4>1
      <3>5. /\ \A c \in Newest(Prior(Trail(C, k), b)) : c.data = old(k)
            /\ full /\ Prior(Trail(C, k), b) = {} => k \notin DOMAIN a
        BY DEF Recounts
      <3>6. k \notin DOMAIN a => k \notin DOMAIN m
        BY <3>1, NoValue
      <3> QED
        BY <3>1, <3>4, <3>5, <3>6
    <2> QED
      BY <2>1, <2>2
  <1> HIDE DEF D
  <1>6. Recounts(D, full, b + 1, m)
    BY <1>5 DEF Recounts
  <1>7. ASSUME NEW b2 \in Int, NEW m2, b2 <= b, Recounts(C, full, b2, m2)
        PROVE  Recounts(D, full, b2, m2)
    BY <1>2, <1>3, <1>7, SameRecount
  <1> QED
    BY <1>1, <1>2, <1>3, <1>6, <1>7 DEF D, Grown

\* A block is added: the trail goes on, and recounts what is there behind it.
LEMMA TrailExtends ==
  ASSUME NEW C, NEW full, Linked(C, full), NEW b \in Int, \A c \in C : c.blk < b,
         NEW a, NEW m, Solid(a), Solid(m), Recounts(C, full, b, a)
  PROVE  LET D == C \cup StepRows(b, a, m)
         IN  Linked(D, full) /\ Grown(C, D, full, b, m)
  <1> DEFINE new == StepRows(b, a, m)
             D == C \cup new
             row(k) == RowOfKey(b, a, m, k)
             value(k) == ValueOf(m, k)
             old(k) == ValueOf(a, k)
  <1>1. /\ \A c \in new : old(c.key) # value(c.key) /\ c = row(c.key)
        /\ \A k : old(k) # value(k) => row(k) \in new
    BY StepRowsFacts
  <1>2. \A k : /\ row(k).blk = b /\ row(k).key = k
               /\ row(k).data = value(k) /\ row(k).prev = old(k)
               /\ k \notin DOMAIN a /\ old(k) # value(k) => row(k).action = "created"
    BY RowFields
  <1> HIDE DEF new, row, value, old
  <1>3. \A c \in new : c.blk = b
    BY <1>1, <1>2
  <1>4. InBlocks(C) /\ \A c \in C : c.blk \in Int
    BY DEF Linked, InBlocks
  <1>5. Grown(C, D, full, b, m)
    <2>1. \A c \in new : c.blk = b /\ c.data = ValueOf(m, c.key)
      BY <1>1, <1>2 DEF value
    <2>2. \A k : ValueOf(a, k) # ValueOf(m, k) => \E c \in new : c.key = k
      BY <1>1, <1>2 DEF value, old
    <2>3. \A c \in C : c.blk \in Int /\ c.blk < b
      BY <1>4
    <2> QED
      BY <2>1, <2>2, <2>3, RecountsExtends, Zenon
  <1>6. /\ InBlocks(D) /\ (\A c \in D : c.blk <= b)
        /\ \A c : c.blk < b => (c \in C <=> c \in D)
    BY <1>5 DEF Grown
  <1>8. ASSUME NEW c \in D, NEW e \in D, c.key = e.key, c.blk = e.blk PROVE c = e
    <2>1. CASE c \in C /\ e \in C
      BY <1>8, <2>1 DEF Linked
    <2>2. CASE c \in new /\ e \in new
      <3>1. c = row(c.key) /\ e = row(e.key)
        BY <1>1, <2>2
      <3> QED
        BY <1>8, <3>1
    <2>3. CASE c \in C /\ e \in new
      <3>1. c.blk < b /\ e.blk = b
        BY <1>3, <2>3
      <3> QED
        BY <1>8, <3>1
    <2>4. CASE c \in new /\ e \in C
      <3>1. e.blk < b /\ c.blk = b
        BY <1>3, <2>4
      <3> QED
        BY <1>8, <3>1
    <2> QED
      BY <2>1, <2>2, <2>3, <2>4
  <1>9. \A k : \A b2 \in Int : b2 <= b => Prior(Trail(D, k), b2) = Prior(Trail(C, k), b2)
    <2> HIDE DEF D
    <2> QED
      BY <1>4, <1>6, SameEarlier
  <1>10. ASSUME NEW c \in D
         PROVE  /\ \A e \in Newest(Prior(Trail(D, c.key), c.blk)) : c.prev = e.data
                /\ full /\ Prior(Trail(D, c.key), c.blk) = {} => c.action = "created"
    <2>1. Prior(Trail(D, c.key), c.blk) = Prior(Trail(C, c.key), c.blk)
      BY <1>6, <1>9 DEF InBlocks
    <2>2. CASE c \in C
      BY <2>1, <2>2 DEF Linked
    <2>3. CASE c \in new
      <3>1. /\ c.blk = b /\ c.prev = old(c.key) /\ old(c.key) # value(c.key)
            /\ (c.key \notin DOMAIN a => c.action = "created")
        <4>1. c = row(c.key) /\ old(c.key) # value(c.key)
          BY <1>1, <2>3
        <4> QED
          BY <1>2, <4>1
      <3>2. /\ \A e \in Newest(Prior(Trail(C, c.key), b)) : e.data = old(c.key)
            /\ full /\ Prior(Trail(C, c.key), b) = {} => c.key \notin DOMAIN a
        BY DEF Recounts, old
      <3> QED
        BY <2>1, <3>1, <3>2
    <2> QED
      BY <2>2, <2>3
  <1>11. Linked(D, full)
    <2> HIDE DEF D
    <2> QED
      BY <1>6, <1>8, <1>10 DEF Linked
  <1> HIDE DEF D
  <1> QED
    BY <1>5, <1>11 DEF new, D

(***************************************************************************)
(* A pass over one block.                                                   *)
(***************************************************************************)
\* It leaves m at block b, in its snapshot and in its activity; what it retains
\* besides was retained before or is what it began with.
OneBlock(o, prev, b, m) ==
    /\ o.prev.found = prev.found /\ o.prev.applied = prev.applied
    /\ o.snap.ckpt.from = b /\ o.snap.ckpt.to = b /\ o.snap.applied = m
    /\ o.snap.ckpt.complete \/ m = prev.applied
    /\ DOMAIN OrderedActivity(o.activity) = {1}
    /\ OrderedActivity(o.activity)[1].ckpt.to = b
    /\ OrderedActivity(o.activity)[1].applied = m
    /\ \A x \in Range(o.snap.history) :
          \/ x.ckpt = o.snap.ckpt /\ x.applied = m
          \/ /\ x.ckpt.to < b
             /\ x \in Range(prev.history) \/ (prev.found /\ x = HistoryEntry(prev))

\* Activity at one block counts by its last snapshot.
LEMMA OneActivity ==
  ASSUME NEW act, IsList(act), act # <<>>, NEW b, \A i \in DOMAIN act : act[i].ckpt.to = b
  PROVE  DOMAIN OrderedActivity(act) = {1} /\ OrderedActivity(act)[1] = act[Len(act)]
  <1> DEFINE n == Len(act)
             last == {i \in DOMAIN act :
                        \A j \in DOMAIN act : act[j].ckpt.to = act[i].ckpt.to => j <= i}
             R == {act[i] : i \in last}
             Fits(x) == \A i, j \in DOMAIN x : i < j => x[i].ckpt.to < x[j].ckpt.to
             s == OrderedActivity(act)
             t == [i \in 1 .. 1 |-> act[n]]
  <1>1. n \in Nat \ {0} /\ DOMAIN act = 1 .. n
    <2>1. n \in Nat /\ DOMAIN act = 1 .. n
      BY ListFacts
    <2>2. n # 0
      BY DEF IsList
    <2> QED
      BY <2>1, <2>2
  <1>2. last = {n}
    <2>1. n \in last
      BY <1>1
    <2>2. ASSUME NEW i \in last PROVE i = n
      BY <1>1
    <2> HIDE DEF last
    <2> QED
      BY <2>1, <2>2
  <1>3. s = InBlockOrder(R)
    BY DEF OrderedActivity
  <1> HIDE DEF last, s
  <1>4. R = {act[n]}
    BY <1>2
  <1> HIDE DEF R
  <1>5. Cardinality(R) = 1
    BY <1>4, FS_Singleton
  <1>6. s = CHOOSE x \in [1 .. 1 -> R] : Fits(x)
    BY <1>3, <1>5 DEF InBlockOrder
  <1>7. t \in [1 .. 1 -> R] /\ Fits(t)
    <2>1. t \in [1 .. 1 -> R]
      BY <1>4
    <2>2. \A i, j \in DOMAIN t : ~(i < j)
      OBVIOUS
    <2> HIDE DEF t
    <2> QED
      BY <2>1, <2>2
  <1> HIDE DEF Fits, t
  <1>8. s \in [1 .. 1 -> R]
    BY <1>6, <1>7
  <1> QED
    BY <1>4, <1>8 DEF s

\* sync_once over at most one log, of block b.
LEMMA FinishedOne ==
  ASSUME NEW prev, WellFormed(prev), Solid(prev.applied), NEW b \in Int,
         \A e \in Range(prev.history) : e.ckpt.to <= b,
         prev.found => prev.ckpt.to <= b,
         NEW pending, IsList(pending), Len(pending) <= 1, \A i \in DOMAIN pending : pending[i][1] = b,
         NEW n \in 0 .. Len(pending), NEW after, DOMAIN after = 1 .. n, Len(after) = n,
         \A i \in 1 .. n : IsMap(after[i].applied) /\ Solid(after[i].applied)
  PROVE  \E m : Solid(m) /\ OneBlock(FinishedPass(prev, b, b, pending, after), prev, b, m)
  <1> DEFINE complete == n = Len(pending)
             m        == IF n = 0 THEN prev.applied ELSE after[n].applied
             current  == [ckpt |-> Checkpoint(b, b, complete), applied |-> m,
                          dyn |-> IF n = 0 THEN prev.dyn ELSE after[n].dyn]
             run      == RunHistory(b, pending, after)
             known    == IF prev.found THEN <<HistoryEntry(prev)>> ELSE <<>>
             act      == Append(run, current)
             news     == known \o act
             merged   == MergeHistory(prev.history, news, HistoryLimit)
             o        == FinishedPass(prev, b, b, pending, after)
             old      == IF prev.found THEN {HistoryEntry(prev)} ELSE {}
             E        == {current} \cup old \cup Range(run)
  <1>1. /\ o.snap.ckpt = current.ckpt /\ o.snap.applied = m /\ o.snap.history = merged
        /\ o.activity = act /\ o.prev = prev
    BY DEF FinishedPass
  <1>2. Len(pending) \in Nat /\ DOMAIN pending = 1 .. Len(pending)
    BY ListFacts
  <1>3. Solid(m)
    <2>1. CASE n = 0
      BY <2>1
    <2>2. CASE n # 0
      <3>1. n \in 1 .. n
        BY <1>2, <2>2
      <3> QED
        BY <2>2, <3>1
    <2> QED
      BY <2>1, <2>2
  <1>4. /\ current.ckpt.from = b /\ current.ckpt.to = b /\ current.applied = m
        /\ current.ckpt.complete \/ m = prev.applied
    <2>1. current.ckpt.from = b /\ current.ckpt.to = b /\ current.ckpt.complete = complete
          /\ current.applied = m
      BY DEF Checkpoint
    <2>2. ~complete => n = 0
      BY <1>2
    <2> QED
      BY <2>1, <2>2
  <1>5. IsList(run) /\ (\A i \in DOMAIN run : IsEntry(run[i])) /\ \A i \in DOMAIN run : run[i].ckpt.to = b
    <2>1. \A i \in DOMAIN pending : pending[i][1] \in Int
      OBVIOUS
    <2>2. 1 .. n \subseteq DOMAIN pending
      BY <1>2
    <2> QED
      BY <2>1, <2>2, RunFacts
  <1> HIDE DEF run, current, m, o
  <1>6. /\ IsList(act) /\ act # <<>> /\ act[Len(act)] = current
        /\ \A i \in DOMAIN act : act[i].ckpt.to = b
    <2> DEFINE F == {current} \cup Range(run)
    <2>1. run \in Seq(F) /\ current \in F
      <3>1. run \in Seq(Range(run)) /\ Range(run) \subseteq F
        BY <1>5 DEF IsList
      <3> HIDE DEF F
      <3>2. run \in Seq(F)
        BY <3>1
      <3> QED
        BY <3>2 DEF F
    <2>2. \A e \in F : e.ckpt.to = b
      BY <1>4, <1>5 DEF Range
    <2> HIDE DEF F
    <2>3. act \in Seq(F) /\ act # <<>> /\ act[Len(act)] = current
      BY <2>1
    <2> HIDE DEF act
    <2>4. act \in Seq(Range(act)) /\ \A i \in DOMAIN act : act[i] \in F
      BY <2>3, RangedSeq
    <2> QED
      BY <2>2, <2>3, <2>4 DEF IsList
  <1>7. DOMAIN OrderedActivity(act) = {1} /\ OrderedActivity(act)[1] = current
    BY <1>6, OneActivity
  <1>8. /\ IsList(news) /\ Range(news) \subseteq E /\ Len(news) > 0 /\ news[Len(news)] = current
    <2>1. run \in Seq(E) /\ current \in E
      <3>1. run \in Seq(Range(run)) /\ Range(run) \subseteq E
        BY <1>5 DEF IsList
      <3> HIDE DEF E
      <3>2. run \in Seq(E)
        BY <3>1
      <3> QED
        BY <3>2 DEF E
    <2>2. known \in Seq(E)
      <3>1. CASE prev.found
        <4>1. HistoryEntry(prev) \in E
          BY <3>1
        <4> HIDE DEF E
        <4> QED
          BY <3>1, <4>1
      <3>2. CASE ~prev.found
        <4> HIDE DEF E
        <4> QED
          BY <3>2
      <3> QED
        BY <3>1, <3>2
    <2> HIDE DEF E, known
    <2> QED
      BY <2>1, <2>2, BehindFacts
  <1>9. /\ IsHistory(prev.history) /\ HistoryLimit \in Nat
        /\ HistoryEntry(prev).ckpt.to = prev.ckpt.to /\ prev.ckpt.to \in Int
    BY SnapshotConstants DEF WellFormed, HistoryEntry
  <1>10. \A x \in E : x.ckpt.to \in Int /\ x.ckpt.to <= b
    <2> SUFFICES ASSUME NEW x \in E PROVE x.ckpt.to \in Int /\ x.ckpt.to <= b
      OBVIOUS
    <2>1. CASE x = current
      BY <1>4, <2>1
    <2>2. CASE x \in old
      BY <1>9, <2>2
    <2>3. CASE x \in Range(run)
      BY <1>5, <2>3 DEF Range
    <2> QED
      BY <2>1, <2>2, <2>3
  <1>11. \A x \in E : x.ckpt.to < b => prev.found /\ x = HistoryEntry(prev)
    <2>1. \A x \in Range(run) : x.ckpt.to = b
      BY <1>5 DEF Range
    <2> QED
      BY <1>4, <2>1
  <1> HIDE DEF E, news, act
  <1>12. Numbered(news)
    BY <1>8, <1>10 DEF Numbered, Range
  <1>13. /\ IsHistory(merged) /\ Range(merged) \subseteq Range(prev.history) \cup Range(news)
         /\ Len(merged) > 0
         /\ (\A x \in Range(prev.history) \cup Range(news) : x.ckpt.to <= news[Len(news)].ckpt.to)
               => merged[Len(merged)] = news[Len(news)]
    BY <1>8, <1>9, <1>12, MergeFacts
  <1>14. merged[Len(merged)] = current
    <2>1. \A x \in Range(prev.history) \cup Range(news) : x.ckpt.to <= b
      BY <1>8, <1>10
    <2> QED
      BY <1>4, <1>8, <1>13, <2>1
  <1> HIDE DEF merged
  <1>15. \A x \in Range(merged) :
            \/ x = current
            \/ x.ckpt.to < b /\ (x \in Range(prev.history) \/ (prev.found /\ x = HistoryEntry(prev)))
    <2> SUFFICES ASSUME NEW i \in DOMAIN merged, merged[i] # current
                 PROVE  LET x == merged[i]
                        IN  /\ x.ckpt.to < b
                            /\ x \in Range(prev.history) \/ (prev.found /\ x = HistoryEntry(prev))
      BY DEF Range
    <2>1. Len(merged) \in Nat /\ DOMAIN merged = 1 .. Len(merged)
      BY <1>13, ListFacts DEF IsHistory
    <2>2. i < Len(merged) /\ Len(merged) \in DOMAIN merged
      BY <1>13, <1>14, <2>1
    <2>3. merged[i].ckpt.to < b
      BY <1>4, <1>13, <1>14, <2>2 DEF IsHistory, Ordered
    <2>4. merged[i] \in Range(prev.history) \/ merged[i] \in E
      BY <1>8, <1>13 DEF Range
    <2> QED
      BY <1>11, <2>3, <2>4
  <1>16. OneBlock(o, prev, b, m)
    BY <1>1, <1>4, <1>7, <1>15 DEF OneBlock
  <1> QED
    BY <1>3, <1>16 DEF o
\* Where indexing goes on behind a checkpoint.
Behind(ckpt) == IF ckpt.complete THEN ckpt.to + 1 ELSE ckpt.to

\* A checkpoint that is complete, or about one block.
Level(ckpt) == ckpt.to \in Int /\ (ckpt.complete \/ ckpt.from = ckpt.to)

\* With one log in a block at most one log is pending, of that block.
LEMMA PendingOne ==
  ASSUME LogsPerBlock = 1, NEW b \in Int, NEW done
  PROVE  LET p == PendingLogs(b, b, done)
         IN  IsList(p) /\ Len(p) <= 1 /\ \A i \in DOMAIN p : p[i][1] = b
  <1> DEFINE n == (b - b + 1) * LogsPerBlock
             all == [i \in 1 .. n |-> <<b + (i - 1) \div LogsPerBlock, (i - 1) % LogsPerBlock>>]
             p == PendingLogs(b, b, done)
  <1>1. n = 1
    OBVIOUS
  <1>2. p = KeepOnly(all, Range(all) \ done)
    BY DEF PendingLogs
  <1> HIDE DEF n, p
  <1>3. DOMAIN all = 1 .. 1 /\ all = [i \in 1 .. 1 |-> all[i]] /\ all[1][1] = b
    <2>1. (1 - 1) \div LogsPerBlock = 0
      OBVIOUS
    <2> QED
      BY <1>1, <2>1
  <1> HIDE DEF all
  <1>4. IsList(all) /\ Len(all) = 1
    BY <1>3, FunctionIsList
  <1>5. \A x \in Range(all) : x[1] = b
    BY <1>3 DEF Range
  <1>6. IsList(p) /\ Len(p) <= 1 /\ Range(p) \subseteq Range(all)
    BY <1>2, <1>4, KeepOnlyFacts
  <1>7. \A i \in DOMAIN p : p[i] \in Range(p)
    BY DEF Range
  <1> QED
    BY <1>5, <1>6, <1>7 DEF p

\* Executed logs leave what handlers may leave behind.
LEMMA EffectsAreSolid ==
  ASSUME WholeBlocks, NEW prev, NEW n \in Nat, NEW after \in Effects(prev, n)
  PROVE  /\ DOMAIN after = 1 .. n /\ Len(after) = n
         /\ \A i \in 1 .. n : IsMap(after[i].applied) /\ Solid(after[i].applied)
  <1> DEFINE eff(maps, created) ==
               [i \in 1 .. n |-> [applied |-> maps[i],
                                  dyn |-> prev.dyn \cup (IF i >= created THEN Sources ELSE {})]]
  <1>1. Effects(prev, n) = {eff(maps, created) : maps \in [1 .. n -> EntityMaps], created \in 1 .. n + 1}
    BY DEF Effects
  <1>2. \A maps, created : \A i \in 1 .. n : eff(maps, created)[i].applied = maps[i]
    OBVIOUS
  <1> HIDE DEF eff
  <1>3. PICK maps \in [1 .. n -> EntityMaps], created \in 1 .. n + 1 : after = eff(maps, created)
    BY <1>1
  <1>4. \A i \in 1 .. n : after[i].applied \in EntityMaps
    BY <1>2, <1>3
  <1>5. \A i \in 1 .. n : Solid(after[i].applied)
    BY <1>4 DEF WholeBlocks, Solid
  <1> QED
    BY <1>5, EffectsFacts

\* sync_once indexes the block behind its checkpoint.
LEMMA PassOne ==
  ASSUME WholeBlocks, NEW prev, WellFormed(prev), Solid(prev.applied),
         prev.found => /\ Level(prev.ckpt)
                       /\ \A e \in Range(prev.history) : e.ckpt.to <= prev.ckpt.to,
         ~prev.found => prev.history = <<>>,
         NEW o \in PassesFrom(prev)
  PROVE  LET b == IF prev.found THEN Behind(prev.ckpt) ELSE 0
         IN  b \in Int /\ \E m : Solid(m) /\ OneBlock(o, prev, b, m)
  <1> DEFINE b      == IF prev.found THEN Behind(prev.ckpt) ELSE 0
             from   == SyncStartBlock(0, prev.found, prev.ckpt)
             resume == [prev EXCEPT !.done = IF prev.ckpt.complete THEN {} ELSE @]
             pending(to) == PendingLogs(from, to, resume.done)
             afters(to) == UNION {Effects(prev, n) : n \in 0 .. Len(pending(to))}
             passes(to) == {FinishedPass(resume, from, to, pending(to), after) : after \in afters(to)}
             targets == {x \in Blocks : x \in from .. from + MaxSpan - 1}
  <1>1. PassesFrom(prev) = UNION {passes(to) : to \in targets}
    BY DEF PassesFrom
  <1>2. from = b /\ b \in Int
    BY DEF WellFormed, SyncStartBlock, Behind, Level
  <1>3. targets \subseteq {b}
    BY <1>2 DEF WholeBlocks
  <1>4. /\ WellFormed(resume) /\ resume.found = prev.found /\ resume.applied = prev.applied
        /\ resume.ckpt = prev.ckpt /\ resume.history = prev.history
        /\ HistoryEntry(resume) = HistoryEntry(prev)
    <2>1. PICK c, a, d, f, h, x : prev = [found |-> x, ckpt |-> c, applied |-> a, dyn |-> d,
                                          done |-> f, history |-> h]
      BY DEF WellFormed
    <2> DEFINE f2 == IF prev.ckpt.complete THEN {} ELSE prev.done
    <2>2. resume = [prev EXCEPT !.done = f2]
      OBVIOUS
    <2> HIDE DEF f2, resume
    <2>3. resume = [found |-> x, ckpt |-> c, applied |-> a, dyn |-> d, done |-> f2, history |-> h]
      BY <2>1, <2>2
    <2>4. /\ resume.found = prev.found /\ resume.ckpt = prev.ckpt
          /\ resume.applied = prev.applied /\ resume.dyn = prev.dyn
          /\ resume.done = f2 /\ resume.history = prev.history
      BY <2>1, <2>3
    <2>5. resume = [found |-> resume.found, ckpt |-> resume.ckpt, applied |-> resume.applied,
                    dyn |-> resume.dyn, done |-> resume.done, history |-> resume.history]
      BY <2>3
    <2> QED
      BY <2>4, <2>5 DEF WellFormed, HistoryEntry
  <1> HIDE DEF from, resume, targets, passes
  <1>5. PICK to \in targets : o \in passes(to)
    BY <1>1
  <1>6. to = b
    BY <1>3
  <1> DEFINE p == pending(b)
  <1>7. IsList(p) /\ Len(p) <= 1 /\ \A i \in DOMAIN p : p[i][1] = b
    BY <1>2, PendingOne DEF WholeBlocks
  <1>8. PICK after \in afters(b) : o = FinishedPass(resume, b, b, p, after)
    BY <1>2, <1>5, <1>6 DEF passes
  <1>9. PICK n \in 0 .. Len(p) : after \in Effects(prev, n)
    BY <1>8
  <1> HIDE DEF p
  <1>10. n \in Nat
    BY <1>7, ListFacts
  <1>11. /\ DOMAIN after = 1 .. n /\ Len(after) = n
         /\ \A i \in 1 .. n : IsMap(after[i].applied) /\ Solid(after[i].applied)
    BY <1>9, <1>10, EffectsAreSolid
  <1>12. /\ \A e \in Range(resume.history) : e.ckpt.to <= b
         /\ resume.found => resume.ckpt.to <= b
    <2>1. CASE prev.found
      <3>1. prev.ckpt.to \in Int /\ prev.ckpt.to <= b
        BY <2>1 DEF Level, Behind
      <3>2. \A e \in Range(prev.history) : e.ckpt.to \in Int /\ e.ckpt.to <= prev.ckpt.to
        BY <2>1 DEF WellFormed, IsEntry
      <3> QED
        BY <1>2, <1>4, <3>1, <3>2
    <2>2. CASE ~prev.found
      BY <1>4, <2>2, EmptyHistory
    <2> QED
      BY <2>1, <2>2
  <1> HIDE DEF b
  <1>13. PICK m : Solid(m) /\ OneBlock(o, resume, b, m)
    BY <1>2, <1>4, <1>7, <1>8, <1>11, <1>12, FinishedOne
  <1>14. OneBlock(o, prev, b, m)
    BY <1>4, <1>13 DEF OneBlock
  <1> QED
    BY <1>2, <1>13, <1>14 DEF b

\* An entry, or a snapshot, that the trail recounts.
Recorded(C, full, e) ==
    Level(e.ckpt) /\ Solid(e.applied) /\ Recounts(C, full, Behind(e.ckpt), e.applied)

\* What the trail says of the snapshot that the tables hold.
HeldTrail(s, C, full) ==
    /\ Linked(C, full)
    /\ ~s.found => s = NoSnapshot /\ C = {}
    /\ s.found =>
          /\ \A c \in C : c.blk <= s.ckpt.to
          /\ Recorded(C, full, s)
          /\ Recounts(C, full, s.ckpt.to + 1, s.applied)
          /\ \A e \in Range(s.history) : Recorded(C, full, e) /\ e.ckpt.to <= s.ckpt.to

\* A trail to pass over: it ends where the snapshot does that the pass begins with.
Ready(prev, K, full, b) ==
    /\ Linked(K, full) /\ \A c \in K : c.blk < b
    /\ Solid(prev.applied) /\ Recounts(K, full, b, prev.applied)
    /\ prev.found => Level(prev.ckpt)
    /\ ~prev.found => prev.history = <<>>
    /\ \A e \in Range(prev.history) : Level(e.ckpt) /\ e.ckpt.to <= prev.ckpt.to
    /\ \A e \in Range(prev.history) : e.ckpt.to < b => Recorded(K, full, e)

\* The pass leaves the trail, with its changes, in a state to go on from.
LEMMA TrailPass ==
  ASSUME WholeBlocks, NEW prev, WellFormed(prev), NEW K, NEW full,
         NEW b, b = (IF prev.found THEN Behind(prev.ckpt) ELSE 0),
         Ready(prev, K, full, b), NEW o \in PassesFrom(prev)
  PROVE  /\ o.prev.found = prev.found /\ o.prev.applied = prev.applied
         /\ DOMAIN OrderedActivity(o.activity) = {1}
         /\ OrderedActivity(o.activity)[1].ckpt.to = b
         /\ OrderedActivity(o.activity)[1].applied = o.snap.applied
         /\ HeldTrail(o.snap, K \cup StepRows(b, prev.applied, o.snap.applied), full)
  <1> DEFINE a == prev.applied
             m == o.snap.applied
             D == K \cup StepRows(b, a, m)
             s == o.snap
  <1>1. b \in Int /\ Solid(m) /\ OneBlock(o, prev, b, m)
    <2>1. b \in Int /\ \E x : Solid(x) /\ OneBlock(o, prev, b, x)
      BY PassOne DEF Ready
    <2>2. PICK x : Solid(x) /\ OneBlock(o, prev, b, x)
      BY <2>1
    <2>3. x = m
      BY <2>2 DEF OneBlock
    <2> QED
      BY <2>1, <2>2, <2>3
  <1>2. s.found = TRUE
    BY PassWell DEF PassResult
  <1> HIDE DEF m
  <1>3. /\ Linked(D, full) /\ \A c \in D : c.blk <= b
        /\ Recounts(D, full, b + 1, m)
        /\ \A b2 \in Int : \A m2 : b2 <= b /\ Recounts(K, full, b2, m2) => Recounts(D, full, b2, m2)
    <2>1. /\ Linked(K, full) /\ \A c \in K : c.blk < b
          /\ Solid(a) /\ Recounts(K, full, b, a)
      BY DEF Ready
    <2> HIDE DEF a
    <2>2. Linked(D, full) /\ Grown(K, D, full, b, m)
      BY <1>1, <2>1, TrailExtends, Zenon
    <2> HIDE DEF D
    <2> QED
      BY <2>2 DEF Grown
  <1> HIDE DEF D
  <1>4. Recounts(D, full, b, a)
    <2>1. Recounts(K, full, b, a) /\ b \in Int /\ b <= b
      BY <1>1 DEF Ready
    <2> QED
      BY <1>3, <2>1
  <1>5. /\ s.ckpt.to = b /\ s.ckpt.from = b /\ s.applied = m /\ (s.ckpt.complete \/ m = a)
    BY <1>1 DEF OneBlock
  <1>6. \A x : x.ckpt = s.ckpt /\ x.applied = m => Recorded(D, full, x)
    <2> SUFFICES ASSUME NEW x, x.ckpt = s.ckpt, x.applied = m PROVE Recorded(D, full, x)
      OBVIOUS
    <2>1. Level(s.ckpt)
      BY <1>1, <1>5 DEF Level
    <2>2. Recounts(D, full, Behind(s.ckpt), m)
      BY <1>3, <1>4, <1>5 DEF Behind
    <2> QED
      BY <1>1, <2>1, <2>2 DEF Recorded
  <1>7. \A x : x.ckpt.to < b /\ Recorded(K, full, x) => Recorded(D, full, x)
    <2> SUFFICES ASSUME NEW x, x.ckpt.to < b, Recorded(K, full, x) PROVE Recorded(D, full, x)
      OBVIOUS
    <2>1. Behind(x.ckpt) \in Int /\ Behind(x.ckpt) <= b
      BY <1>1 DEF Recorded, Level, Behind
    <2> QED
      BY <1>3, <2>1 DEF Recorded
  <1>8. prev.found /\ prev.ckpt.to < b => Recorded(K, full, HistoryEntry(prev))
    BY DEF Ready, Recorded, HistoryEntry
  <1>9. \A x \in Range(s.history) : Recorded(D, full, x) /\ x.ckpt.to <= s.ckpt.to
    <2> SUFFICES ASSUME NEW x \in Range(s.history)
                 PROVE  Recorded(D, full, x) /\ x.ckpt.to <= s.ckpt.to
      OBVIOUS
    <2>1. CASE x.ckpt = s.ckpt /\ x.applied = m
      BY <1>1, <1>5, <1>6, <2>1
    <2>2. CASE x.ckpt.to < b /\ (x \in Range(prev.history) \/ (prev.found /\ x = HistoryEntry(prev)))
      <3>1. Recorded(K, full, x)
        BY <1>8, <2>2 DEF Ready, HistoryEntry
      <3>2. x.ckpt.to \in Int
        BY <3>1 DEF Recorded, Level
      <3> QED
        BY <1>1, <1>5, <1>7, <2>2, <3>1, <3>2
    <2> QED
      BY <1>1, <2>1, <2>2 DEF OneBlock
  <1>10. Recorded(D, full, s)
    BY <1>5, <1>6
  <1>11. HeldTrail(s, D, full)
    BY <1>2, <1>3, <1>5, <1>9, <1>10 DEF HeldTrail
  <1> QED
    BY <1>1, <1>11 DEF OneBlock, D, m

\* What of the trail stays is one to pass over.
LEMMA TrailKept ==
  ASSUME WholeBlocks, NEW s, WellFormed(s), NEW C, NEW full \in BOOLEAN, HeldTrail(s, C, full),
         NEW reset \in BOOLEAN, NEW prev \in IF reset THEN {NoSnapshot} ELSE Previous(s)
  PROVE  LET b == IF prev.found THEN Behind(prev.ckpt) ELSE 0
         IN  /\ WellFormed(prev)
             /\ prev.found => ~reset /\ s.found
             /\ ~prev.found => prev = NoSnapshot /\ (reset \/ ~s.found)
             /\ Ready(prev, KeptActivity(C, b, reset), full \/ reset, b)
  <1> DEFINE b == IF prev.found THEN Behind(prev.ckpt) ELSE 0
             K == KeptActivity(C, b, reset)
  <1>1. WellFormed(prev)
    BY PreviousWell, NoSnapshotWell
  <1>2. CASE prev = NoSnapshot /\ (reset \/ ~s.found)
    <2>1. K = {}
      BY <1>2 DEF KeptActivity, HeldTrail
    <2>2. prev.found = FALSE /\ prev.applied = NoEntities /\ prev.history = <<>> /\ b = 0
      BY <1>2 DEF NoSnapshot
    <2>3. DOMAIN NoEntities = {}
      BY DEF NoEntities
    <2>4. \A k, x : Prior(Trail({}, k), x) = {} /\ Newest(Prior(Trail({}, k), x)) = {}
      BY DEF Prior, Trail, Newest
    <2>5. Linked({}, full \/ reset) /\ Recounts({}, full \/ reset, 0, NoEntities) /\ Solid(NoEntities)
      BY <2>3, <2>4 DEF Linked, InBlocks, Recounts, Solid
    <2> HIDE DEF K, b
    <2> QED
      BY <1>1, <1>2, <2>1, <2>2, <2>5, EmptyHistory DEF Ready, K, b
  <1>3. CASE ~reset /\ s.found /\ (prev = s \/ \E i \in DOMAIN s.history :
                                     prev = RollbackToHistoricalSnapshot(s, s.history[i]))
    <2> DEFINE Retained == /\ prev.found = s.found
                           /\ Recorded(C, full, prev)
                           /\ \A e \in Range(prev.history) :
                                 Recorded(C, full, e) /\ e.ckpt.to <= prev.ckpt.to
    <2>1. Retained
      <3>1. CASE prev = s
        BY <1>3, <3>1 DEF HeldTrail
      <3>2. ASSUME NEW i \in DOMAIN s.history, prev = RollbackToHistoricalSnapshot(s, s.history[i])
            PROVE  Retained
        <4> DEFINE e == s.history[i]
                   kept == UpToBlock(s.history, e.ckpt.to)
        <4>1. e \in Range(s.history) /\ Recorded(C, full, e) /\ e.ckpt.to \in Int
          BY <1>3 DEF HeldTrail, Range, Recorded, Level
        <4>2. Range(kept) = {x \in Range(s.history) : x.ckpt.to <= e.ckpt.to}
          BY <4>1, UpToBlockFacts DEF WellFormed
        <4>3. /\ prev.found = s.found /\ prev.ckpt = e.ckpt /\ prev.applied = e.applied
              /\ prev.history = kept
          <5>1. prev = [s EXCEPT !.ckpt = e.ckpt, !.applied = e.applied, !.dyn = e.dyn,
                                 !.done = {}, !.history = kept]
            BY <3>2 DEF RollbackToHistoricalSnapshot
          <5>2. PICK c, a, d, f, h, x : s = [found |-> x, ckpt |-> c, applied |-> a, dyn |-> d,
                                             done |-> f, history |-> h]
            BY DEF WellFormed
          <5> HIDE DEF kept, e
          <5> QED
            BY <5>1, <5>2
        <4> HIDE DEF e, kept
        <4>4. Recorded(C, full, prev)
          BY <4>1, <4>3 DEF Recorded
        <4>5. \A x \in Range(kept) : Recorded(C, full, x) /\ x.ckpt.to <= prev.ckpt.to
          BY <1>3, <4>2, <4>3 DEF HeldTrail
        <4> QED
          BY <4>3, <4>4, <4>5
      <3> HIDE DEF Retained
      <3> QED
        BY <1>3, <3>1, <3>2
    <2>2. prev.found /\ b = Behind(prev.ckpt) /\ b \in Int /\ prev.ckpt.to <= b
      BY <1>3, <2>1 DEF Recorded, Level, Behind
    <2>3. K = {c \in C : c.blk < b} /\ Linked(C, full)
      BY <1>3 DEF KeptActivity, HeldTrail
    <2> HIDE DEF K, b
    <2>4. /\ Linked(K, full)
          /\ \A b2 \in Int : \A m : b2 <= b /\ Recounts(C, full, b2, m) => Recounts(K, full, b2, m)
      BY <2>2, <2>3, TrailPruned
    <2>5. Recounts(K, full, b, prev.applied)
      BY <2>1, <2>2, <2>4 DEF Recorded
    <2>6. ASSUME NEW e \in Range(prev.history), e.ckpt.to < b PROVE Recorded(K, full, e)
      <3>1. Behind(e.ckpt) \in Int /\ Behind(e.ckpt) <= b
        BY <2>1, <2>2, <2>6 DEF Recorded, Level, Behind
      <3> QED
        BY <2>1, <2>4, <3>1 DEF Recorded
    <2>7. (full \/ reset) = full
      BY <1>3
    <2>8. Ready(prev, K, full, b)
      BY <2>1, <2>2, <2>3, <2>4, <2>5, <2>6 DEF Ready, Recorded
    <2> QED
      BY <1>1, <1>3, <2>2, <2>7, <2>8 DEF K, b
  <1>4. "reset" \notin Policies
    BY DEF WholeBlocks
  <1>5. prev = NoSnapshot \/ ~reset
    OBVIOUS
  <1>6. ~reset => \/ prev = s
                  \/ s.found /\ \E i \in DOMAIN s.history :
                                    prev = RollbackToHistoricalSnapshot(s, s.history[i])
    BY <1>4 DEF Previous
  <1>7. ~reset /\ ~s.found => prev = NoSnapshot
    BY <1>6 DEF HeldTrail
  <1> QED
    BY <1>2, <1>3, <1>5, <1>6, <1>7

\* A transaction leaves the trail in the state it needs.
LEMMA TrailWritten ==
  ASSUME WholeBlocks, NEW t, NEW s, WellFormed(s), NEW full \in BOOLEAN,
         HeldTrail(s, t.changes, full), ~s.found => t.entities = NoEntities,
         NEW reset \in BOOLEAN, NEW o \in PassOutcomes(s, reset)
  PROVE  HeldTrail(o.snap, WriteActivity(t, o, reset).changes, full \/ reset)
  <1> DEFINE prevs == IF reset THEN {NoSnapshot} ELSE Previous(s)
             steps == OrderedActivity(o.activity)
             before(i) == IF i = 1 THEN ActivityBaseline(t, o, reset) ELSE steps[i - 1].applied
             rows(i) == {ChangeRow(steps[i].ckpt.to, v) :
                           v \in ChangedEntityVersions(before(i), steps[i].applied)}
             K(b) == KeptActivity(t.changes, b, reset)
  <1>1. PICK prev \in prevs : o \in PassesFrom(prev)
    <2>1. PassOutcomes(s, reset) = UNION {PassesFrom(prev) : prev \in prevs}
      BY DEF PassOutcomes
    <2> HIDE DEF prevs
    <2> QED
      BY <2>1
  <1> DEFINE b == IF prev.found THEN Behind(prev.ckpt) ELSE 0
  <1>2. /\ WellFormed(prev)
        /\ prev.found => ~reset /\ s.found
        /\ ~prev.found => prev = NoSnapshot /\ (reset \/ ~s.found)
        /\ Ready(prev, K(b), full \/ reset, b)
    BY TrailKept
  <1>3. WriteActivity(t, o, reset).changes
          = KeptActivity(t.changes, steps[1].ckpt.to, reset) \cup UNION {rows(i) : i \in DOMAIN steps}
    BY DEF WriteActivity
  <1> HIDE DEF K, b, prevs
  <1>4. /\ o.prev.found = prev.found /\ o.prev.applied = prev.applied
        /\ DOMAIN steps = {1} /\ steps[1].ckpt.to = b /\ steps[1].applied = o.snap.applied
        /\ HeldTrail(o.snap, K(b) \cup StepRows(b, prev.applied, o.snap.applied), full \/ reset)
    <2>1. b = (IF prev.found THEN Behind(prev.ckpt) ELSE 0)
      BY DEF b
    <2> DEFINE kept == K(b)
    <2>2. Ready(prev, kept, full \/ reset, b)
      BY <1>2
    <2> HIDE DEF b, kept, steps
    <2>3. /\ o.prev.found = prev.found /\ o.prev.applied = prev.applied
          /\ DOMAIN OrderedActivity(o.activity) = {1}
          /\ OrderedActivity(o.activity)[1].ckpt.to = b
          /\ OrderedActivity(o.activity)[1].applied = o.snap.applied
          /\ HeldTrail(o.snap, kept \cup StepRows(b, prev.applied, o.snap.applied), full \/ reset)
      BY <1>1, <1>2, <2>1, <2>2, TrailPass
    <2> QED
      BY <2>3 DEF kept, steps
  <1>5. ActivityBaseline(t, o, reset) = prev.applied
    <2>1. CASE prev.found
      BY <1>2, <1>4, <2>1 DEF ActivityBaseline
    <2>2. CASE ~prev.found
      <3>1. prev.applied = NoEntities
        <4>1. NoSnapshot.applied = NoEntities
          BY DEF NoSnapshot
        <4>2. prev = NoSnapshot
          BY <1>2, <2>2, Zenon
        <4> QED
          BY <4>1, <4>2
      <3>2. ~o.prev.found /\ (reset \/ t.entities = NoEntities)
        BY <1>2, <1>4, <2>2
      <3> QED
        BY <3>1, <3>2 DEF ActivityBaseline
    <2> QED
      BY <2>1, <2>2
  <1>6. rows(1) = StepRows(b, prev.applied, o.snap.applied)
    <2> HIDE DEF steps, b
    <2>1. before(1) = prev.applied
      BY <1>5
    <2> HIDE DEF before
    <2>2. rows(1) = {ChangeRow(b, v) : v \in ChangedEntityVersions(prev.applied, o.snap.applied)}
      BY <1>4, <2>1
    <2> QED
      BY <2>2 DEF StepRows
  <1> HIDE DEF rows, steps
  <1>7. UNION {rows(i) : i \in DOMAIN steps} = rows(1)
    <2>1. \A c : c \in UNION {rows(i) : i \in DOMAIN steps} <=> c \in rows(1)
      BY <1>4
    <2> QED
      BY <2>1
  <1> QED
    BY <1>3, <1>4, <1>6, <1>7 DEF K

(***************************************************************************)
(* The trail of a retained history, and what the backfill makes of it.      *)
(***************************************************************************)
\* Retained blocks whose entities are never empty.
SolidHistory(h) == IsHistory(h) /\ \A i \in DOMAIN h : Solid(h[i].applied)

\* R[i] has rows of the i-th block, at least one for each key that it changes.
Retold(h, R) ==
    /\ DOMAIN R = DOMAIN h
    /\ \A i \in DOMAIN h : \A r \in R[i] : /\ r.blk = h[i].ckpt.to
                                          /\ r.data = ValueOf(h[i].applied, r.key)
    /\ \A i \in DOMAIN h : \A k : ValueOf(BeforeBlock(h, i), k) # ValueOf(h[i].applied, k)
                                    => \E r \in R[i] : r.key = k

\* Where the block of a history, and the one before it, can be found.
LEMMA HistoryFacts ==
  ASSUME NEW h, SolidHistory(h), NEW i \in DOMAIN h
  PROVE  /\ i \in Nat \ {0} /\ h[i].ckpt.to \in Int /\ Solid(h[i].applied)
         /\ Solid(BeforeBlock(h, i))
         /\ i = 1 => BeforeBlock(h, i) = NoEntities
         /\ i # 1 => /\ i - 1 \in DOMAIN h /\ BeforeBlock(h, i) = h[i - 1].applied
                     /\ h[i - 1].ckpt.to \in Int
                     /\ h[i - 1].ckpt.to < h[i].ckpt.to
         /\ \A j \in DOMAIN h : h[j].ckpt.to < h[i].ckpt.to <=> j < i
         /\ \A j \in DOMAIN h : h[j].ckpt.to = h[i].ckpt.to <=> j = i
  <1>1. IsList(h) /\ Numbered(h) /\ Ordered(h)
    BY DEF SolidHistory, IsHistory
  <1>2. Len(h) \in Nat /\ DOMAIN h = 1 .. Len(h)
    BY <1>1, ListFacts
  <1>3. i \in Nat \ {0} /\ h[i].ckpt.to \in Int
    BY <1>1, <1>2 DEF Numbered
  <1>4. ASSUME NEW j \in DOMAIN h
        PROVE  /\ h[j].ckpt.to < h[i].ckpt.to <=> j < i
               /\ h[j].ckpt.to = h[i].ckpt.to <=> j = i
    <2>1. /\ j \in Int /\ h[j].ckpt.to \in Int
          /\ j < i => h[j].ckpt.to < h[i].ckpt.to
          /\ i < j => h[i].ckpt.to < h[j].ckpt.to
      BY <1>1, <1>2 DEF Numbered, Ordered
    <2>2. CASE j < i
      BY <1>3, <2>1, <2>2
    <2>3. CASE i < j
      BY <1>3, <2>1, <2>3
    <2>4. CASE i = j
      BY <1>3, <2>1, <2>4
    <2> QED
      BY <1>3, <2>1, <2>2, <2>3, <2>4
  <1>5. Solid(NoEntities)
    BY DEF Solid, NoEntities
  <1>6. \A j \in DOMAIN h : Solid(h[j].applied)
    BY DEF SolidHistory
  <1>7. CASE i = 1
    BY <1>3, <1>4, <1>5, <1>6, <1>7 DEF BeforeBlock
  <1>8. CASE i # 1
    <2>1. i - 1 \in DOMAIN h /\ i - 1 < i
      BY <1>2, <1>8
    <2>2. h[i - 1].ckpt.to < h[i].ckpt.to /\ h[i - 1].ckpt.to \in Int
      BY <1>1, <1>4, <2>1 DEF Numbered
    <2> QED
      BY <1>3, <1>4, <1>6, <1>8, <2>1, <2>2 DEF BeforeBlock
  <1> QED
    BY <1>7, <1>8

\* The rows of all blocks recount each block, and the block before.
LEMMA HistoryRecounted ==
  ASSUME NEW h, SolidHistory(h), NEW R, Retold(h, R)
  PROVE  LET V == UNION {R[i] : i \in DOMAIN h}
         IN  \A i \in DOMAIN h : /\ Recounts(V, TRUE, h[i].ckpt.to, BeforeBlock(h, i))
                                 /\ Recounts(V, TRUE, h[i].ckpt.to + 1, h[i].applied)
  <1> DEFINE V == UNION {R[i] : i \in DOMAIN h}
             to(i) == h[i].ckpt.to
             Good(i) == /\ Recounts(V, TRUE, to(i), BeforeBlock(h, i))
                        /\ Recounts(V, TRUE, to(i) + 1, h[i].applied)
  <1>1. \A c : c \in V <=> \E i \in DOMAIN h : c \in R[i]
    OBVIOUS
  <1>2. \A i \in DOMAIN h : \A r \in R[i] : r.blk = to(i)
    BY DEF Retold
  <1>3. \A i \in DOMAIN h : i \in Nat \ {0} /\ to(i) \in Int
    BY HistoryFacts
  <1>4. \A c \in V : \E i \in DOMAIN h : c \in R[i] /\ c.blk = to(i)
    BY <1>1, <1>2
  <1>5. InBlocks(V)
    BY <1>3, <1>4 DEF InBlocks
  <1> HIDE DEF V, to
  <1>6. ASSUME NEW i \in DOMAIN h, Recounts(V, TRUE, to(i), BeforeBlock(h, i)) PROVE Good(i)
    <2> DEFINE C == {c \in V : c.blk < to(i)}
               D == C \cup R[i]
               a == BeforeBlock(h, i)
               m == h[i].applied
    <2>1. InBlocks(C) /\ (\A c \in C : c.blk \in Int /\ c.blk < to(i))
          /\ \A c : c.blk < to(i) => (c \in V <=> c \in C)
      BY <1>5 DEF InBlocks
    <2>2. Solid(a) /\ Solid(m) /\ to(i) \in Int
      BY <1>3, HistoryFacts
    <2>3. /\ \A r \in R[i] : r.blk = to(i) /\ r.data = ValueOf(m, r.key)
          /\ \A k : ValueOf(a, k) # ValueOf(m, k) => \E r \in R[i] : r.key = k
      BY DEF Retold, to
    <2>4. \A c : c.blk < to(i) + 1 => (c \in D <=> c \in V)
      <3> SUFFICES ASSUME NEW c, c.blk < to(i) + 1 PROVE c \in D <=> c \in V
        OBVIOUS
      <3>1. CASE c \in R[i]
        BY <1>1, <3>1
      <3>2. CASE c \in V /\ c \notin R[i]
        <4>1. PICK j \in DOMAIN h : c \in R[j] /\ c.blk = to(j)
          BY <1>4, <3>2
        <4>2. j # i /\ to(j) \in Int
          BY <1>3, <3>2, <4>1
        <4>3. to(j) # to(i)
          BY <4>2, HistoryFacts DEF to
        <4>4. c.blk < to(i)
          BY <2>2, <4>1, <4>2, <4>3
        <4> QED
          BY <3>2, <4>4
      <3>3. CASE c \notin V /\ c \notin R[i]
        BY <3>3
      <3> QED
        BY <3>1, <3>2, <3>3
    <2>5. InBlocks(D)
      BY <2>1, <2>2, <2>3 DEF InBlocks
    <2> HIDE DEF C, a, m
    <2>6. Recounts(C, TRUE, to(i), a)
      <3>1. Recounts(V, TRUE, to(i), a)
        BY <1>6 DEF a
      <3> HIDE DEF D
      <3>2. to(i) \in Int /\ to(i) <= to(i)
        BY <2>2
      <3> QED
        BY <1>5, <2>1, <3>1, <3>2, SameRecount
    <2>7. Grown(C, D, TRUE, to(i), m)
      BY <2>1, <2>2, <2>3, <2>6, RecountsExtends
    <2> HIDE DEF D
    <2>8. Recounts(D, TRUE, to(i) + 1, m)
      BY <2>7 DEF Grown
    <2>9. to(i) + 1 \in Int /\ to(i) + 1 <= to(i) + 1
      BY <2>2
    <2>10. Recounts(V, TRUE, to(i) + 1, m)
      BY <1>5, <2>4, <2>5, <2>8, <2>9, SameRecount
    <2> QED
      BY <1>6, <2>10 DEF m
  <1>7. ASSUME NEW i \in DOMAIN h, i = 1 PROVE Good(i)
    <2>1. \A k : Prior(Trail(V, k), to(i)) = {}
      <3> SUFFICES ASSUME NEW k, NEW c \in Prior(Trail(V, k), to(i)) PROVE FALSE
        OBVIOUS
      <3>1. c \in V /\ c.blk < to(i)
        BY PriorRows
      <3>2. PICK j \in DOMAIN h : c.blk = to(j)
        BY <1>4, <3>1
      <3>3. j < i
        BY <3>1, <3>2, HistoryFacts DEF to
      <3> QED
        BY <1>3, <1>7, <3>3
    <2>2. BeforeBlock(h, i) = NoEntities /\ DOMAIN NoEntities = {}
      BY <1>7, HistoryFacts DEF NoEntities
    <2>3. Recounts(V, TRUE, to(i), NoEntities)
      BY <2>1, <2>2 DEF Recounts, Newest
    <2> HIDE DEF Good
    <2> QED
      BY <1>6, <2>2, <2>3
  <1>8. ASSUME NEW i \in DOMAIN h, i # 1, Good(i - 1) PROVE Good(i)
    <2>1. /\ i - 1 \in DOMAIN h /\ BeforeBlock(h, i) = h[i - 1].applied
          /\ to(i - 1) \in Int /\ to(i - 1) < to(i) /\ to(i) \in Int
      BY <1>3, <1>8, HistoryFacts DEF to
    <2>2. \A k : Prior(Trail(V, k), to(i)) = Prior(Trail(V, k), to(i - 1) + 1)
      <3> SUFFICES ASSUME NEW k, NEW c
                   PROVE  c \in Prior(Trail(V, k), to(i)) <=> c \in Prior(Trail(V, k), to(i - 1) + 1)
        OBVIOUS
      <3>1. ASSUME c \in V PROVE c.blk < to(i) <=> c.blk < to(i - 1) + 1
        <4>1. PICK j \in DOMAIN h : c.blk = to(j)
          BY <1>4, <3>1
        <4>2. j \in Nat /\ i \in Nat /\ to(j) \in Int
          BY <1>3
        <4>3. (to(j) < to(i) <=> j < i) /\ (to(j) < to(i - 1) <=> j < i - 1)
              /\ (to(j) = to(i - 1) <=> j = i - 1)
          BY <2>1, HistoryFacts DEF to
        <4> QED
          BY <2>1, <4>1, <4>2, <4>3
      <3> QED
        BY <3>1, PriorRows
    <2>3. Recounts(V, TRUE, to(i - 1) + 1, h[i - 1].applied)
      BY <1>8
    <2>4. Recounts(V, TRUE, to(i), BeforeBlock(h, i))
      BY <2>1, <2>2, <2>3 DEF Recounts
    <2> QED
      BY <1>6, <2>4
  <1> HIDE DEF Good
  <1>9. \A i \in DOMAIN h : Good(i)
    <2> SUFFICES ASSUME NEW x \in DOMAIN h, ~Good(x) PROVE FALSE
      OBVIOUS
    <2> DEFINE bad == {i \in DOMAIN h : ~Good(i)}
    <2>1. bad \in SUBSET Nat /\ bad # {}
      BY <1>3
    <2>2. PICK i \in bad : \A j \in bad : i <= j
      BY <2>1, LeastElement
    <2>3. i \in DOMAIN h /\ ~Good(i) /\ i \in Nat
      BY <1>3
    <2>4. i # 1
      BY <1>7, <2>3
    <2>5. i - 1 \in DOMAIN h /\ ~(i <= i - 1)
      BY <2>3, <2>4, HistoryFacts
    <2>6. Good(i - 1)
      BY <2>2, <2>5
    <2> QED
      BY <1>8, <2>3, <2>4, <2>6
  <1> QED
    BY <1>9 DEF Good, V, to

\* A row is one of a removal when its key is not there behind its block.
MarkedRemoved(h, R) ==
    \A i \in DOMAIN h : \A r \in R[i] : r.removed = (r.key \notin DOMAIN h[i].applied)

\* Of the earlier rows of a key there is a newest one.
LEMMA NewestExists ==
  ASSUME NEW h, SolidHistory(h), NEW R, Retold(h, R), NEW i \in DOMAIN h, NEW k,
         Prior(Trail(UNION {R[j] : j \in DOMAIN h}, k), h[i].ckpt.to) # {}
  PROVE  Newest(Prior(Trail(UNION {R[j] : j \in DOMAIN h}, k), h[i].ckpt.to)) # {}
  <1> DEFINE V == UNION {R[j] : j \in DOMAIN h}
             P == Prior(Trail(V, k), h[i].ckpt.to)
             S == {j \in DOMAIN h : j < i /\ \E r \in R[j] : r.key = k}
             far == {i - j : j \in S}
  <1>1. \A c : c \in P <=> c \in V /\ c.key = k /\ c.blk < h[i].ckpt.to
    <2> HIDE DEF V
    <2> QED
      BY PriorRows
  <1>2. \A c \in V : \E j \in DOMAIN h : c \in R[j]
    OBVIOUS
  <1>3. \A j \in DOMAIN h : \A r \in R[j] : r.blk = h[j].ckpt.to
    BY DEF Retold
  <1>4. \A j \in DOMAIN h : /\ j \in Nat
                            /\ h[j].ckpt.to < h[i].ckpt.to <=> j < i
    BY HistoryFacts
  <1>5. \A c \in P : \E j \in S : c \in R[j]
    <2> HIDE DEF P, V
    <2> QED
      BY <1>1, <1>2, <1>3, <1>4
  <1>6. far \in SUBSET Nat /\ far # {}
    <2>1. S # {}
      <3> HIDE DEF S
      <3> QED
        BY <1>5
    <2>2. \A j \in S : i - j \in Nat
      BY <1>4
    <2> HIDE DEF S
    <2> QED
      BY <2>1, <2>2
  <1>7. PICK d \in far : \A e \in far : d <= e
    BY <1>6, LeastElement
  <1>8. PICK j \in S : d = i - j
    OBVIOUS
  <1>9. \A x \in S : x <= j
    <2> SUFFICES ASSUME NEW x \in S PROVE x <= j
      OBVIOUS
    <2>1. i - x \in far
      OBVIOUS
    <2>2. i - j <= i - x
      BY <1>7, <1>8, <2>1
    <2> HIDE DEF far
    <2> QED
      BY <1>4, <2>2
  <1>10. PICK r \in R[j] : r.key = k
    OBVIOUS
  <1>11. r \in V /\ r.blk = h[j].ckpt.to /\ j \in DOMAIN h /\ j < i
    BY <1>3, <1>10
  <1>12. r \in P
    <2> HIDE DEF P, V
    <2> QED
      BY <1>1, <1>4, <1>10, <1>11
  <1>13. \A c \in P : c.blk <= r.blk
    <2> SUFFICES ASSUME NEW c \in P PROVE c.blk <= r.blk
      OBVIOUS
    <2>1. PICK x \in S : c \in R[x]
      BY <1>5
    <2>2. x <= j /\ x \in DOMAIN h /\ x \in Nat /\ j \in Nat
      BY <1>4, <1>9, <2>1
    <2>3. c.blk = h[x].ckpt.to /\ h[x].ckpt.to \in Int /\ h[j].ckpt.to \in Int
      BY <1>3, <1>11, <2>1, <2>2, HistoryFacts
    <2>4. ~(h[j].ckpt.to < h[x].ckpt.to)
      BY <1>11, <2>2, HistoryFacts
    <2> QED
      BY <1>11, <2>3, <2>4
  <1> QED
    BY <1>12, <1>13 DEF Newest

\* What ugraph_migration takes for the previous value is the one there was.
LEMMA PreviousIsBefore ==
  ASSUME NEW h, SolidHistory(h), NEW R, Retold(h, R), MarkedRemoved(h, R),
         NEW i \in DOMAIN h, NEW v \in R[i]
  PROVE  PreviousData(UNION {R[j] : j \in DOMAIN h}, v) = ValueOf(BeforeBlock(h, i), v.key)
  <1> DEFINE V == UNION {R[j] : j \in DOMAIN h}
             P == Prior(Trail(V, v.key), h[i].ckpt.to)
             latest == Newest(P)
             known == {p \in latest : ~p.removed}
             old == ValueOf(BeforeBlock(h, i), v.key)
  <1>1. v.blk = h[i].ckpt.to
    BY DEF Retold
  <1>2. PreviousData(V, v) = IF known = {} THEN NoData ELSE (CHOOSE p \in known : TRUE).data
    <2> DEFINE earlier == {p \in V : p.key = v.key /\ p.blk < v.blk}
    <2>1. earlier = P
      <3> HIDE DEF V
      <3>1. \A c : c \in earlier <=> c \in P
        BY <1>1, PriorRows
      <3> HIDE DEF earlier, P
      <3> QED
        BY <3>1
    <2> DEFINE newest == {p \in earlier : \A q \in earlier : q.blk <= p.blk}
    <2>2. newest = latest
      BY <2>1 DEF Newest
    <2>3. PreviousData(V, v) = LET seen == {p \in newest : ~p.removed}
                               IN  IF seen = {} THEN NoData ELSE (CHOOSE p \in seen : TRUE).data
      BY DEF PreviousData
    <2> HIDE DEF newest, latest
    <2> QED
      BY <2>2, <2>3
  <1>3. Recounts(V, TRUE, h[i].ckpt.to, BeforeBlock(h, i))
    BY HistoryRecounted
  <1>4. /\ \A p \in latest : p.data = old
        /\ P = {} => v.key \notin DOMAIN BeforeBlock(h, i)
    <2> HIDE DEF V
    <2> QED
      BY <1>3 DEF Recounts
  <1>5. P # {} => latest # {}
    BY NewestExists
  <1>6. \A p \in V : p.removed => p.data = NoData
    <2> SUFFICES ASSUME NEW p \in V, p.removed PROVE p.data = NoData
      OBVIOUS
    <2>1. PICK j \in DOMAIN h : p \in R[j]
      OBVIOUS
    <2>2. p.data = ValueOf(h[j].applied, p.key) /\ p.removed = (p.key \notin DOMAIN h[j].applied)
      BY <2>1 DEF Retold, MarkedRemoved
    <2> QED
      BY <2>2 DEF ValueOf
  <1>7. \A p \in latest : p \in V
    <2> HIDE DEF V
    <2>1. \A p \in P : p \in V
      BY PriorRows
    <2> HIDE DEF P
    <2> QED
      BY <2>1 DEF Newest
  <1> HIDE DEF V, P
  <1>8. CASE known # {}
    <2>1. (CHOOSE p \in known : TRUE) \in known
      BY <1>8
    <2>2. (CHOOSE p \in known : TRUE).data = old
      <3> HIDE DEF old
      <3> QED
        BY <1>4, <2>1
    <2> HIDE DEF known, old
    <2> QED
      BY <1>2, <1>8, <2>2 DEF V, old
  <1>9. CASE known = {}
    <2>1. old = NoData
      <3>1. CASE P = {}
        BY <1>4, <3>1 DEF ValueOf
      <3>2. CASE P # {}
        <4>1. PICK p \in latest : TRUE
          BY <1>5, <3>2
        <4>2. p.removed
          BY <1>9, <4>1
        <4>3. p.data = NoData
          BY <1>6, <1>7, <4>1, <4>2
        <4> HIDE DEF old
        <4> QED
          BY <1>4, <4>1, <4>3
      <3> QED
        BY <3>1, <3>2
    <2> HIDE DEF known, old
    <2> QED
      BY <1>2, <1>9, <2>1 DEF V, old
  <1> QED
    BY <1>8, <1>9

\* The change rows of each block of a history.
HistorySteps(h) ==
    UNION {StepRows(h[i].ckpt.to, BeforeBlock(h, i), h[i].applied) : i \in DOMAIN h}

\* So it writes the change rows of each block.
LEMMA BackfilledSteps ==
  ASSUME NEW h, SolidHistory(h), NEW R, Retold(h, R), MarkedRemoved(h, R)
  PROVE  BackfilledChanges(UNION {R[j] : j \in DOMAIN h}) = HistorySteps(h)
  <1> DEFINE V == UNION {R[j] : j \in DOMAIN h}
             to(i) == h[i].ckpt.to
             a(i) == BeforeBlock(h, i)
             m(i) == h[i].applied
             row(i, k) == RowOfKey(to(i), a(i), m(i), k)
             changed(i, k) == ValueOf(a(i), k) # ValueOf(m(i), k)
             B == BackfilledChanges(V)
             D == HistorySteps(h)
  <1>1. \A c : c \in B <=> \E v \in V : IsChange(V, v) /\ c = BackfilledRow(V, v)
    <2> HIDE DEF V
    <2>1. B = {BackfilledRow(V, v) : v \in {w \in V : IsChange(V, w)}}
      BY BackfilledFacts
    <2> HIDE DEF B
    <2> QED
      BY <2>1
  <1>2. \A v : v \in V <=> \E i \in DOMAIN h : v \in R[i]
    OBVIOUS
  <1>3. \A i \in DOMAIN h : \A v \in R[i] :
           /\ PreviousData(V, v) = ValueOf(a(i), v.key) /\ v.blk = to(i)
           /\ v.data = ValueOf(m(i), v.key) /\ v.removed = (v.key \notin DOMAIN m(i))
    BY PreviousIsBefore DEF Retold, MarkedRemoved
  <1> HIDE DEF V
  <1>4. \A i \in DOMAIN h : \A v \in R[i] :
           IsChange(V, v) = changed(i, v.key) /\ BackfilledRow(V, v) = row(i, v.key)
    <2> SUFFICES ASSUME NEW i \in DOMAIN h, NEW v \in R[i]
                 PROVE  IsChange(V, v) = changed(i, v.key) /\ BackfilledRow(V, v) = row(i, v.key)
      OBVIOUS
    <2> DEFINE k == v.key
    <2>1. /\ PreviousData(V, v) = ValueOf(a(i), k) /\ v.blk = to(i)
          /\ v.data = ValueOf(m(i), k) /\ v.removed = (k \notin DOMAIN m(i))
      BY <1>3
    <2>2. BackfilledRow(V, v) = row(i, k)
      <3> DEFINE x == [key |-> k, data |-> v.data, removed |-> v.removed,
                       prev |-> PreviousData(V, v)]
      <3>1. x = ChangeOf(a(i), m(i), k)
        BY <2>1 DEF ChangeOf
      <3>2. BackfilledRow(V, v) = ChangeRow(v.blk, x)
        BY DEF BackfilledRow
      <3> HIDE DEF x
      <3> QED
        BY <2>1, <3>1, <3>2 DEF RowOfKey
    <2>3. IsChange(V, v) = changed(i, k)
      <3>1. v.removed => v.data = NoData
        BY <2>1 DEF ValueOf
      <3> HIDE DEF k
      <3>2. CASE v.removed
        BY <2>1, <3>1, <3>2 DEF IsChange
      <3>3. CASE ~v.removed
        BY <2>1, <3>3 DEF IsChange
      <3> QED
        BY <3>2, <3>3
    <2> QED
      BY <2>2, <2>3
  <1>5. \A i \in DOMAIN h : \A k : changed(i, k) => \E v \in R[i] : v.key = k
    BY DEF Retold
  <1>6. \A c : c \in B <=> \E i \in DOMAIN h : \E k : changed(i, k) /\ c = row(i, k)
    <2> HIDE DEF B, changed, row
    <2>1. ASSUME NEW c \in B PROVE \E i \in DOMAIN h : \E k : changed(i, k) /\ c = row(i, k)
      <3>1. PICK v \in V : IsChange(V, v) /\ c = BackfilledRow(V, v)
        BY <1>1
      <3>2. PICK i \in DOMAIN h : v \in R[i]
        BY <1>2
      <3> QED
        BY <1>4, <3>1, <3>2
    <2>2. ASSUME NEW c, NEW i \in DOMAIN h, NEW k, changed(i, k), c = row(i, k) PROVE c \in B
      <3>1. PICK v \in R[i] : v.key = k
        BY <1>5, <2>2
      <3>2. v \in V /\ IsChange(V, v) /\ c = BackfilledRow(V, v)
        BY <1>2, <1>4, <2>2, <3>1
      <3> QED
        BY <1>1, <3>2
    <2> QED
      BY <2>1, <2>2
  <1>7. \A c : c \in D <=> \E i \in DOMAIN h : \E k : changed(i, k) /\ c = row(i, k)
    <2> DEFINE S(i) == StepRows(to(i), a(i), m(i))
    <2>1. D = UNION {S(i) : i \in DOMAIN h}
      BY DEF HistorySteps
    <2>2. \A i \in DOMAIN h : Solid(a(i)) /\ Solid(m(i))
      BY HistoryFacts
    <2>3. ASSUME NEW i \in DOMAIN h
          PROVE  \A c : c \in S(i) <=> \E k : changed(i, k) /\ c = row(i, k)
      <3> DEFINE x == a(i)
                 y == m(i)
      <3> HIDE DEF x, y
      <3>1. Solid(x) /\ Solid(y)
        BY <2>2 DEF x, y
      <3>2. /\ \A c \in StepRows(to(i), x, y) :
                  ValueOf(x, c.key) # ValueOf(y, c.key) /\ c = RowOfKey(to(i), x, y, c.key)
            /\ \A k : ValueOf(x, k) # ValueOf(y, k)
                         => RowOfKey(to(i), x, y, k) \in StepRows(to(i), x, y)
        BY <3>1, StepRowsFacts
      <3> QED
        BY <3>2 DEF x, y
    <2> HIDE DEF S, D, changed, row
    <2> QED
      BY <2>1, <2>3
  <1> HIDE DEF B, D
  <1>8. \A c : c \in B <=> c \in D
    BY <1>6, <1>7
  <1> QED
    BY <1>8 DEF B, D, V

\* They make a trail that recounts every block.
LEMMA HistoryLinked ==
  ASSUME NEW h, SolidHistory(h)
  PROVE  /\ Linked(HistorySteps(h), TRUE)
         /\ \A c \in HistorySteps(h) : \E i \in DOMAIN h : c.blk = h[i].ckpt.to
         /\ \A i \in DOMAIN h : Recounts(HistorySteps(h), TRUE, h[i].ckpt.to + 1, h[i].applied)
  <1> DEFINE to(i) == h[i].ckpt.to
             a(i) == BeforeBlock(h, i)
             m(i) == h[i].applied
             row(i, k) == RowOfKey(to(i), a(i), m(i), k)
             changed(i, k) == ValueOf(a(i), k) # ValueOf(m(i), k)
             S == [i \in DOMAIN h |-> StepRows(to(i), a(i), m(i))]
             D == HistorySteps(h)
  <1>1. D = UNION {S[i] : i \in DOMAIN h} /\ DOMAIN S = DOMAIN h
    BY DEF HistorySteps
  <1>2. \A i \in DOMAIN h : Solid(a(i)) /\ Solid(m(i)) /\ to(i) \in Int
    BY HistoryFacts
  <1>3. ASSUME NEW i \in DOMAIN h
        PROVE  /\ \A c \in S[i] : changed(i, c.key) /\ c = row(i, c.key)
               /\ \A k : changed(i, k) => row(i, k) \in S[i]
    <2>1. S[i] = StepRows(to(i), a(i), m(i))
      OBVIOUS
    <2> HIDE DEF to, S
    <2>2. Solid(a(i)) /\ Solid(m(i))
      BY <1>2
    <2> HIDE DEF a, m
    <2> QED
      BY <2>1, <2>2, StepRowsFacts
  <1>4. ASSUME NEW i \in DOMAIN h, NEW k
        PROVE  /\ row(i, k).blk = to(i) /\ row(i, k).key = k
               /\ row(i, k).data = ValueOf(m(i), k) /\ row(i, k).prev = ValueOf(a(i), k)
               /\ k \notin DOMAIN a(i) /\ changed(i, k) => row(i, k).action = "created"
    <2>1. Solid(a(i)) /\ Solid(m(i))
      BY <1>2
    <2> HIDE DEF a, m, to
    <2> QED
      BY <2>1, RowFields
  <1> HIDE DEF S, row, D
  <1>5. \A i \in DOMAIN h : \A c \in S[i] : c.blk = to(i) /\ c.data = ValueOf(m(i), c.key)
    <2> SUFFICES ASSUME NEW i \in DOMAIN h, NEW c \in S[i]
                 PROVE  c.blk = to(i) /\ c.data = ValueOf(m(i), c.key)
      OBVIOUS
    <2>1. c = row(i, c.key)
      BY <1>3
    <2> HIDE DEF to, m
    <2> QED
      BY <1>4, <2>1
  <1>6. Retold(h, S)
    <2>1. \A i \in DOMAIN h : \A k : changed(i, k) => \E c \in S[i] : c.key = k
      <3> HIDE DEF changed
      <3> QED
        BY <1>3, <1>4
    <2> QED
      BY <1>1, <1>5, <2>1 DEF Retold
  <1>7. \A i \in DOMAIN h : Recounts(D, TRUE, to(i), a(i)) /\ Recounts(D, TRUE, to(i) + 1, m(i))
    <2> DEFINE V == UNION {S[i] : i \in DOMAIN h}
    <2>1. D = V
      BY <1>1
    <2>2. \A i \in DOMAIN h : /\ Recounts(V, TRUE, h[i].ckpt.to, BeforeBlock(h, i))
                              /\ Recounts(V, TRUE, h[i].ckpt.to + 1, h[i].applied)
      BY <1>6, HistoryRecounted
    <2> HIDE DEF V
    <2> QED
      BY <2>1, <2>2
  <1>8. \A c \in D : \E i \in DOMAIN h : c \in S[i] /\ c.blk = to(i)
    BY <1>1, <1>5
  <1>9. ASSUME NEW c \in D, NEW e \in D, c.key = e.key, c.blk = e.blk PROVE c = e
    <2>1. PICK i \in DOMAIN h : c \in S[i] /\ c.blk = to(i)
      BY <1>8
    <2>2. PICK j \in DOMAIN h : e \in S[j] /\ e.blk = to(j)
      BY <1>8
    <2>3. i = j
      <3>1. h[j].ckpt.to = h[i].ckpt.to
        BY <1>9, <2>1, <2>2
      <3>2. \A x \in DOMAIN h : h[x].ckpt.to = h[i].ckpt.to <=> x = i
        BY HistoryFacts
      <3> QED
        BY <3>1, <3>2
    <2>4. c = row(i, c.key) /\ e = row(i, e.key)
      BY <1>3, <2>1, <2>2, <2>3
    <2> QED
      BY <1>9, <2>4
  <1>10. ASSUME NEW c \in D
         PROVE  /\ \A e \in Newest(Prior(Trail(D, c.key), c.blk)) : c.prev = e.data
                /\ Prior(Trail(D, c.key), c.blk) = {} => c.action = "created"
    <2>1. PICK i \in DOMAIN h : c \in S[i] /\ c.blk = to(i)
      BY <1>8
    <2> DEFINE k == c.key
               P == Prior(Trail(D, k), to(i))
    <2>2. c = row(i, k) /\ changed(i, k)
      BY <1>3, <2>1
    <2>3. /\ c.prev = ValueOf(a(i), k)
          /\ k \notin DOMAIN a(i) => c.action = "created"
      <3> HIDE DEF k, changed, a
      <3> QED
        BY <1>4, <2>2
    <2>4. /\ \A e \in Newest(P) : e.data = ValueOf(a(i), k)
          /\ P = {} => k \notin DOMAIN a(i)
      BY <1>7 DEF Recounts
    <2>5. P = Prior(Trail(D, c.key), c.blk)
      BY <2>1
    <2> HIDE DEF P, a
    <2> QED
      BY <2>3, <2>4, <2>5
  <1>11. InBlocks(D)
    BY <1>2, <1>8 DEF InBlocks
  <1>12. Linked(D, TRUE)
    BY <1>9, <1>10, <1>11 DEF Linked
  <1> QED
    BY <1>7, <1>8, <1>12 DEF D

(***************************************************************************)
(* The trail of a database that an earlier release left.                    *)
(***************************************************************************)
\* The version rows of an earlier release, one set for each block, make a trail.
LEMMA RetoldTrail ==
  ASSUME WholeBlocks, SolidHistory(LegacyHistory), NEW R, Retold(LegacyHistory, R),
         MarkedRemoved(LegacyHistory, R)
  PROVE  HeldTrail(LegacySnapshot,
                   BackfilledChanges(UNION {R[i] : i \in DOMAIN LegacyHistory}), TRUE)
  <1> DEFINE h == LegacyHistory
             s == LegacySnapshot
             D == HistorySteps(h)
  <1>1. BackfilledChanges(UNION {R[i] : i \in DOMAIN h}) = D
    BY BackfilledSteps
  <1>2. /\ Linked(D, TRUE)
        /\ \A c \in D : \E i \in DOMAIN h : c.blk = h[i].ckpt.to
        /\ \A i \in DOMAIN h : Recounts(D, TRUE, h[i].ckpt.to + 1, h[i].applied)
    BY HistoryLinked
  <1>3. /\ s.found = TRUE /\ s.ckpt = Last(h).ckpt /\ s.applied = Last(h).applied /\ s.history = h
    BY DEF LegacySnapshot
  <1>4. PICK n \in DOMAIN h : Last(h) = h[n] /\ \A i \in DOMAIN h : i <= n
    <2>1. IsList(h) /\ h # <<>>
      BY LegacyFacts DEF IsHistory
    <2>2. Len(h) \in Nat /\ DOMAIN h = 1 .. Len(h) /\ Len(h) # 0
      BY <2>1, ListFacts DEF IsList
    <2> QED
      BY <2>2 DEF Last
  <1>5. \A i \in DOMAIN h : h[i].ckpt.complete
    BY DEF WholeBlocks
  <1> HIDE DEF D, s, h
  <1>6. \A i \in DOMAIN h : h[i].ckpt.to \in Int /\ Solid(h[i].applied)
    BY HistoryFacts DEF h
  <1>7. ASSUME NEW i \in DOMAIN h PROVE h[i].ckpt.to <= h[n].ckpt.to
    <2>1. /\ i <= n /\ i \in Nat /\ n \in Nat
          /\ h[n].ckpt.to < h[i].ckpt.to <=> n < i
      BY <1>4, HistoryFacts DEF h
    <2> QED
      BY <1>6, <2>1
  <1>8. ASSUME NEW x, NEW i \in DOMAIN h, x.ckpt = h[i].ckpt, x.applied = h[i].applied
        PROVE  Recorded(D, TRUE, x)
    <2>1. Level(x.ckpt) /\ Behind(x.ckpt) = h[i].ckpt.to + 1
      BY <1>5, <1>6, <1>8 DEF Level, Behind
    <2> QED
      BY <1>2, <1>6, <1>8, <2>1 DEF Recorded
  <1>9. Recorded(D, TRUE, s)
    BY <1>3, <1>4, <1>8
  <1>10. ASSUME NEW e \in Range(s.history) PROVE Recorded(D, TRUE, e) /\ e.ckpt.to <= s.ckpt.to
    <2>1. PICK i \in DOMAIN h : e = h[i]
      BY <1>3 DEF Range
    <2> QED
      BY <1>3, <1>4, <1>7, <1>8, <2>1
  <1>11. \A c \in D : c.blk <= s.ckpt.to
    BY <1>2, <1>3, <1>4, <1>7
  <1>12. Recounts(D, TRUE, s.ckpt.to + 1, s.applied)
    BY <1>2, <1>3, <1>4
  <1>13. HeldTrail(s, D, TRUE)
    BY <1>2, <1>3, <1>9, <1>10, <1>11, <1>12 DEF HeldTrail
  <1> QED
    BY <1>1, <1>13 DEF s, h

\* The delta rows of a history are of that kind,
LEMMA DeltasAreRetold ==
  ASSUME NEW h, SolidHistory(h)
  PROVE  \E R : Retold(h, R) /\ MarkedRemoved(h, R) /\ VersionRows(h) = UNION {R[i] : i \in DOMAIN h}
  <1> DEFINE row(i, v) == [blk |-> h[i].ckpt.to, key |-> v.key, data |-> v.data,
                           removed |-> v.removed]
             a(i) == BeforeBlock(h, i)
             m(i) == h[i].applied
             diff(i) == ChangedEntityVersions(a(i), m(i))
             R == [i \in DOMAIN h |-> {row(i, v) : v \in diff(i)}]
  <1>1. VersionRows(h) = UNION {R[i] : i \in DOMAIN h}
    BY DEF VersionRows, BeforeBlock
  <1>2. DOMAIN R = DOMAIN h /\ \A i \in DOMAIN h : R[i] = {row(i, v) : v \in diff(i)}
    OBVIOUS
  <1> HIDE DEF R
  <1>3. ASSUME NEW i \in DOMAIN h, NEW r \in R[i]
        PROVE  /\ r.blk = h[i].ckpt.to /\ r.data = ValueOf(m(i), r.key)
               /\ r.removed = (r.key \notin DOMAIN m(i))
    <2>1. PICK v \in diff(i) : r = row(i, v)
      BY <1>2
    <2>2. Solid(a(i)) /\ Solid(m(i))
      BY HistoryFacts
    <2> HIDE DEF a, m
    <2>3. PICK k : v = ChangeOf(a(i), m(i), k)
      BY <2>2, ChangesFacts
    <2>4. v.key = k /\ v.data = ValueOf(m(i), k) /\ v.removed = (k \notin DOMAIN m(i))
      BY <2>3 DEF ChangeOf
    <2>5. r.key = v.key /\ r.data = v.data /\ r.removed = v.removed /\ r.blk = h[i].ckpt.to
      BY <2>1
    <2> QED
      BY <2>4, <2>5
  <1>4. ASSUME NEW i \in DOMAIN h, NEW k, ValueOf(a(i), k) # ValueOf(m(i), k)
        PROVE  \E r \in R[i] : r.key = k
    <2>1. Solid(a(i)) /\ Solid(m(i))
      BY HistoryFacts
    <2> DEFINE v == ChangeOf(a(i), m(i), k)
    <2>2. v \in diff(i)
      <3> HIDE DEF a, m, v
      <3>1. \A x : x \in ChangedEntityVersions(a(i), m(i)) <=>
                     \E j : ValueOf(a(i), j) # ValueOf(m(i), j) /\ x = ChangeOf(a(i), m(i), j)
        BY <2>1, ChangesFacts
      <3>2. v = ChangeOf(a(i), m(i), k)
        BY DEF v
      <3> QED
        BY <1>4, <3>1, <3>2
    <2>3. v.key = k
      BY DEF ChangeOf
    <2>4. row(i, v) \in R[i] /\ row(i, v).key = v.key
      <3> HIDE DEF v, diff
      <3> QED
        BY <1>2, <2>2
    <2> HIDE DEF v, row
    <2> QED
      BY <2>3, <2>4
  <1>5. Retold(h, R)
    BY <1>2, <1>3, <1>4 DEF Retold
  <1>6. MarkedRemoved(h, R)
    BY <1>3 DEF MarkedRemoved
  <1> QED
    BY <1>1, <1>5, <1>6

\* and full rows when no block removes what the one before has.
LEMMA FullRowsAreRetold ==
  ASSUME NEW h, SolidHistory(h),
         \A i, j \in DOMAIN h : i < j => DOMAIN h[i].applied \subseteq DOMAIN h[j].applied
  PROVE  \E R : Retold(h, R) /\ MarkedRemoved(h, R) /\ FullRows(h) = UNION {R[i] : i \in DOMAIN h}
  <1> DEFINE m(i) == h[i].applied
             row(i, k) == [blk |-> h[i].ckpt.to, key |-> k, data |-> m(i)[k], removed |-> FALSE]
             R == [i \in DOMAIN h |-> {row(i, k) : k \in DOMAIN m(i)}]
  <1>1. FullRows(h) = UNION {R[i] : i \in DOMAIN h}
    BY DEF FullRows
  <1>2. DOMAIN R = DOMAIN h /\ \A i \in DOMAIN h : R[i] = {row(i, k) : k \in DOMAIN m(i)}
    OBVIOUS
  <1> HIDE DEF R
  <1>3. ASSUME NEW i \in DOMAIN h, NEW r \in R[i]
        PROVE  /\ r.blk = h[i].ckpt.to /\ r.data = ValueOf(m(i), r.key)
               /\ r.removed = (r.key \notin DOMAIN m(i))
    <2>1. PICK k \in DOMAIN m(i) : r = row(i, k)
      BY <1>2
    <2> HIDE DEF m
    <2>2. r.key = k /\ r.data = m(i)[k] /\ r.removed = FALSE /\ r.blk = h[i].ckpt.to
      BY <2>1
    <2> QED
      BY <2>1, <2>2 DEF ValueOf
  <1>4. ASSUME NEW i \in DOMAIN h, NEW k, ValueOf(BeforeBlock(h, i), k) # ValueOf(m(i), k)
        PROVE  \E r \in R[i] : r.key = k
    <2>1. DOMAIN BeforeBlock(h, i) \subseteq DOMAIN m(i)
      <3>1. CASE i = 1
        BY <3>1, HistoryFacts DEF NoEntities
      <3>2. CASE i # 1
        <4>1. i - 1 \in DOMAIN h /\ BeforeBlock(h, i) = h[i - 1].applied /\ i - 1 < i
          BY <3>2, HistoryFacts
        <4> QED
          BY <4>1
      <3> QED
        BY <3>1, <3>2
    <2>2. k \in DOMAIN m(i)
      BY <1>4, <2>1 DEF ValueOf
    <2>3. row(i, k) \in R[i] /\ row(i, k).key = k
      BY <1>2, <2>2
    <2> HIDE DEF row
    <2> QED
      BY <2>3
  <1>5. Retold(h, R)
    BY <1>2, <1>3, <1>4 DEF Retold
  <1>6. MarkedRemoved(h, R)
    BY <1>3 DEF MarkedRemoved
  <1> QED
    BY <1>1, <1>5, <1>6

\* Nothing makes a trail of nothing.
LEMMA EmptyTrail ==
  \A full \in BOOLEAN : HeldTrail(NoSnapshot, {}, full)
  <1>1. \A k, b : Newest(Prior(Trail({}, k), b)) = {}
    BY DEF Newest, Prior, Trail
  <1>2. \A full : Linked({}, full)
    BY DEF Linked, InBlocks
  <1>3. NoSnapshot.found = FALSE
    BY DEF NoSnapshot
  <1> QED
    BY <1>2, <1>3 DEF HeldTrail

\* What the migration reads off a database is a trail of what it holds.
LEMMA LegacyTrail ==
  ASSUME WholeBlocks, NEW form \in LegacyForms, form # "none"
  PROVE  HeldTrail(LegacySnapshot, BackfilledChanges(LegacyTables(form).versions), form # "json")
  <1> DEFINE h == LegacyHistory
             V == LegacyTables(form).versions
  <1>1. V = CASE form = "json" -> {} [] form = "snapshot" -> FullRows(h) [] OTHER -> VersionRows(h)
    BY DEF LegacyTables, EmptyTables
  <1>2. SolidHistory(h)
    BY LegacyFacts DEF WholeBlocks, SolidHistory, Solid
  <1>3. ASSUME form # "json",
               \E R : Retold(h, R) /\ MarkedRemoved(h, R) /\ V = UNION {R[i] : i \in DOMAIN h}
        PROVE  HeldTrail(LegacySnapshot, BackfilledChanges(V), form # "json")
    <2>1. PICK R : Retold(h, R) /\ MarkedRemoved(h, R) /\ V = UNION {R[i] : i \in DOMAIN h}
      BY <1>3
    <2> HIDE DEF V
    <2>2. HeldTrail(LegacySnapshot, BackfilledChanges(V), TRUE)
      BY <1>2, <2>1, RetoldTrail
    <2>3. (form # "json") = TRUE
      BY <1>3
    <2> QED
      BY <2>2, <2>3
  <1> HIDE DEF V
  <1>4. CASE form = "snapshot"
    <2>1. V = FullRows(h)
      BY <1>1, <1>4
    <2>2. \A i, j \in DOMAIN h : i < j => DOMAIN h[i].applied \subseteq DOMAIN h[j].applied
      BY <1>4 DEF WholeBlocks
    <2>3. form # "json"
      BY <1>4
    <2> HIDE DEF h
    <2> QED
      BY <1>2, <1>3, <2>1, <2>2, <2>3, FullRowsAreRetold DEF V
  <1>5. CASE form = "delta"
    <2>1. V = VersionRows(h) /\ form # "json"
      BY <1>1, <1>5
    <2> HIDE DEF h
    <2> QED
      BY <1>2, <1>3, <2>1, DeltasAreRetold DEF V
  <1>6. CASE form = "json"
    <2>1. V = {}
      BY <1>1, <1>6
    <2>2. BackfilledChanges({}) = {}
      <3>1. BackfilledChanges({}) = {BackfilledRow({}, v) : v \in {w \in {} : IsChange({}, w)}}
        BY BackfilledFacts
      <3> QED
        BY <3>1
    <2>3. (form # "json") = FALSE
      BY <1>6
    <2>4. \A k, b : Newest(Prior(Trail({}, k), b)) = {}
      BY DEF Newest, Prior, Trail
    <2>5. \A b, x : Recounts({}, FALSE, b, x)
      BY <2>4 DEF Recounts
    <2>6. Linked({}, FALSE)
      BY DEF Linked, InBlocks
    <2>7. ASSUME NEW e \in Range(h) PROVE Recorded({}, FALSE, e) /\ e.ckpt.to <= Last(h).ckpt.to
      <3>1. PICK i \in DOMAIN h : e = h[i]
        BY DEF Range
      <3>2. e.ckpt.to \in Int /\ Solid(e.applied) /\ e.ckpt.complete
        BY <1>2, <3>1, HistoryFacts DEF WholeBlocks
      <3>3. Level(e.ckpt)
        BY <3>2 DEF Level
      <3>4. Recorded({}, FALSE, e)
        BY <2>5, <3>2, <3>3 DEF Recorded
      <3>5. Len(h) \in Nat /\ DOMAIN h = 1 .. Len(h)
        BY <1>2, ListFacts DEF SolidHistory, IsHistory
      <3> DEFINE n == Len(h)
      <3>6. Last(h) = h[n]
        BY DEF Last
      <3>7. n \in DOMAIN h /\ i <= n /\ n \in Nat /\ i \in Nat
        BY <3>1, <3>5
      <3> HIDE DEF n, h
      <3>8. /\ h[n].ckpt.to < h[i].ckpt.to <=> n < i
            /\ h[n].ckpt.to \in Int /\ h[i].ckpt.to \in Int
        BY <1>2, <3>7, HistoryFacts
      <3>9. h[i].ckpt.to <= h[n].ckpt.to
        BY <3>7, <3>8
      <3> QED
        BY <3>1, <3>4, <3>6, <3>9
    <2>8. /\ LegacySnapshot.found = TRUE /\ LegacySnapshot.ckpt = Last(h).ckpt
          /\ LegacySnapshot.applied = Last(h).applied /\ LegacySnapshot.history = h
      BY DEF LegacySnapshot
    <2>9. Last(h) \in Range(h)
      BY LegacyFacts
    <2>10. Recorded({}, FALSE, LegacySnapshot)
      BY <2>7, <2>8, <2>9 DEF Recorded
    <2> HIDE DEF h
    <2>11. HeldTrail(LegacySnapshot, {}, FALSE)
      BY <2>5, <2>6, <2>7, <2>8, <2>10 DEF HeldTrail
    <2> QED
      BY <2>1, <2>2, <2>3, <2>11 DEF V
  <1> QED
    BY <1>4, <1>5, <1>6, StoreConstants DEF V

(***************************************************************************)
(* The trail of the tables.                                                 *)
(***************************************************************************)
\* The change rows recount the snapshot that the tables hold, and its history;
\* before the migration those it will write do.
TrailInv ==
    /\ tracked \in BOOLEAN
    /\ HeldTrail(LoadPostgresSnapshot(db),
                 IF db.migrated THEN db.changes ELSE BackfilledChanges(db.versions), tracked)
    /\ ~db.row.found => db.entities = NoEntities

\* Every database begins so,
LEMMA TrailInit == WholeBlocks /\ Init => TrailInv
  <1> SUFFICES ASSUME WholeBlocks, Init PROVE TrailInv
    OBVIOUS
  <1>1. PICK form \in LegacyForms : /\ db = IF form = "none" THEN EmptyTables ELSE LegacyTables(form)
                                    /\ tracked = (form # "json")
    BY DEF Init
  <1>2. CASE form = "none"
    <2>1. db = EmptyTables /\ tracked = TRUE
      BY <1>1, <1>2
    <2>2. /\ ~EmptyTables.migrated /\ EmptyTables.versions = {}
          /\ EmptyTables.entities = NoEntities
      BY DEF EmptyTables
    <2>3. BackfilledChanges({}) = {}
      <3>1. BackfilledChanges({}) = {BackfilledRow({}, v) : v \in {w \in {} : IsChange({}, w)}}
        BY BackfilledFacts
      <3> QED
        BY <3>1
    <2>4. HeldTrail(LoadPostgresSnapshot(db), BackfilledChanges(db.versions), TRUE)
      BY <2>1, <2>2, <2>3, EmptyIsLoaded, EmptyTrail
    <2> QED
      BY <2>1, <2>2, <2>4 DEF TrailInv
  <1>3. CASE form # "none"
    <2>1. db = LegacyTables(form) /\ form \in {"json", "snapshot", "delta"}
      BY <1>1, <1>3, StoreConstants
    <2>2. ~db.migrated /\ db.row.found
      BY <2>1 DEF LegacyTables, EmptyTables
    <2>3. HeldTrail(LoadPostgresSnapshot(db), BackfilledChanges(db.versions), tracked)
      BY <1>1, <1>3, <2>1, LegacyTrail, LegacyIsLoaded
    <2>4. tracked \in BOOLEAN
      BY <1>1
    <2> QED
      BY <2>2, <2>3, <2>4 DEF TrailInv
  <1> QED
    BY <1>2, <1>3

\* and every step leaves it so.
LEMMA TrailStep ==
  WholeBlocks /\ LoadInv /\ HeldWell /\ TrailInv /\ [Next]_vars => TrailInv'
  <1> SUFFICES ASSUME WholeBlocks, LoadInv, HeldWell, TrailInv, [Next]_vars
               PROVE  TrailInv'
    OBVIOUS
  <1>1. CASE Migrate
    <2>1. /\ ~db.migrated /\ db'.migrated /\ db'.changes = BackfilledChanges(db.versions)
          /\ db'.row = db.row /\ db'.history = db.history /\ db'.versions = db.versions
          /\ db'.entities = db.entities /\ db'.sources = db.sources
          /\ db'.cursors = db.cursors /\ tracked' = tracked
      BY <1>1 DEF Migrate, LoadInv, StoreType, Tables, EmptyTables
    <2>2. LoadPostgresSnapshot(db') = LoadPostgresSnapshot(db)
      BY <2>1 DEF LoadPostgresSnapshot
    <2> QED
      BY <2>1, <2>2 DEF TrailInv
  <1>2. ASSUME NEW i \in Indexers, WriteSnapshot(i)
        PROVE  TrailInv'
    <2> DEFINE reset == proc[i].reset
               s == LoadPostgresSnapshot(db)
    <2>1. PICK o \in PassOutcomes(LoadPostgresSnapshot(proc[i].got), reset) :
             db' = WriteTables(db, o, reset)
      BY <1>2 DEF WriteSnapshot
    <2>2. proc[i].pc = "loaded" /\ db.migrated /\ reset \in BOOLEAN
      BY <1>2 DEF WriteSnapshot, LoadInv, StoreType, LocalsType
    <2>3. tracked' = (tracked \/ reset)
      BY <1>2 DEF WriteSnapshot
    <2> HIDE DEF reset
    <2>4. o \in PassOutcomes(s, reset)
      BY <2>1, <2>2, LoadedIsStored DEF reset
    <2>5. WellFormed(s)
      BY DEF HeldWell
    <2>6. WellFormed(o.snap) /\ o.snap.found = TRUE
      BY <2>4, <2>5, OutcomeWell DEF PassResult
    <2>7. LoadPostgresSnapshot(db') = o.snap
      BY <2>1, <2>6, WrittenIsLoaded DEF LoadInv, StoreType
    <2>8. /\ db'.migrated = db.migrated /\ db'.changes = WriteActivity(db, o, reset).changes
          /\ db'.row.found = TRUE
      BY <2>1 DEF WriteTables, LoadInv, StoreType, Tables, EmptyTables
    <2>9. ~s.found => db.entities = NoEntities
      BY DEF TrailInv, LoadPostgresSnapshot
    <2>10. tracked \in BOOLEAN /\ HeldTrail(s, db.changes, tracked)
      BY <2>2 DEF TrailInv
    <2> HIDE DEF s
    <2>11. HeldTrail(o.snap, WriteActivity(db, o, reset).changes, tracked \/ reset)
      BY <2>2, <2>4, <2>5, <2>9, <2>10, TrailWritten
    <2> QED
      BY <2>2, <2>3, <2>7, <2>8, <2>10, <2>11 DEF TrailInv
  <1>3. CASE UNCHANGED <<db, tracked>>
    BY <1>3 DEF TrailInv, LoadPostgresSnapshot
  <1> QED
    BY <1>1, <1>2, <1>3
       DEF Next, AcquireIndexerLock, Fail, StartRead, ReadStatement, Finish, vars

\* What recounts the tables replays into them.
LEMMA TrailOfHeld == TrailInv => TrailReplays
  <1> SUFFICES ASSUME TrailInv, db.migrated, NEW k
               PROVE  LET trail == Trail(db.changes, k)
                      IN  /\ \A c, e \in trail : c.blk = e.blk => c = e
                          /\ \A c \in trail : \A e \in Newest(Prior(trail, c.blk)) : c.prev = e.data
                          /\ \A c \in Newest(trail) : c.data = ValueOf(db.entities, k)
                          /\ tracked => /\ trail = {} => k \notin DOMAIN db.entities
                                        /\ \A c \in trail :
                                              Prior(trail, c.blk) = {} => c.action = "created"
    BY DEF TrailReplays
  <1> DEFINE trail == Trail(db.changes, k)
             s == LoadPostgresSnapshot(db)
  <1>1. Linked(db.changes, tracked) /\ HeldTrail(s, db.changes, tracked)
    BY DEF TrailInv, HeldTrail
  <1>2. \A c : c \in trail <=> c \in db.changes /\ c.key = k
    BY DEF Trail
  <1>3. s.found => s.applied = db.entities
    BY DEF LoadPostgresSnapshot, NoSnapshot
  <1>4. ~s.found => db.entities = NoEntities
    BY DEF LoadPostgresSnapshot, TrailInv
  <1> HIDE DEF s
  <1>5. \A c, e \in trail : c.blk = e.blk => c = e
    BY <1>1, <1>2 DEF Linked
  <1>6. ASSUME NEW c \in trail
        PROVE  /\ \A e \in Newest(Prior(trail, c.blk)) : c.prev = e.data
               /\ tracked /\ Prior(trail, c.blk) = {} => c.action = "created"
    <2>1. c \in db.changes /\ c.key = k
      BY <1>2
    <2> QED
      BY <1>1, <2>1 DEF Linked
  <1>7. CASE s.found
    <2>1. Prior(trail, s.ckpt.to + 1) = trail
      <3>1. \A c \in trail : c.blk \in Int /\ c.blk <= s.ckpt.to
        BY <1>1, <1>2, <1>7 DEF HeldTrail, Linked, InBlocks
      <3>2. s.ckpt.to \in Int
        BY <1>1, <1>7 DEF HeldTrail, Recorded, Level
      <3> HIDE DEF trail
      <3>3. \A c \in trail : c.blk < s.ckpt.to + 1
        BY <3>1, <3>2
      <3> QED
        BY <3>3 DEF Prior
    <2>2. Recounts(db.changes, tracked, s.ckpt.to + 1, db.entities)
      BY <1>1, <1>3, <1>7 DEF HeldTrail
    <2>3. /\ \A c \in Newest(trail) : c.data = ValueOf(db.entities, k)
          /\ tracked /\ trail = {} => k \notin DOMAIN db.entities
      BY <2>1, <2>2 DEF Recounts
    <2> HIDE DEF trail
    <2> QED
      BY <1>5, <1>6, <2>3 DEF trail
  <1>8. CASE ~s.found
    <2>1. trail = {} /\ DOMAIN db.entities = {}
      BY <1>1, <1>2, <1>4, <1>8 DEF HeldTrail, NoEntities
    <2>2. Newest(trail) = {}
      BY <2>1 DEF Newest
    <2> HIDE DEF trail
    <2> QED
      BY <1>5, <1>6, <2>1, <2>2 DEF trail
  <1> QED
    BY <1>7, <1>8

\* The activity trail replays into the entities: passes, rewritten blocks,
\* rollbacks, resets, several indexers and the backfill of an older database
\* leave per entity a chain of changes that ends at what is stored.
THEOREM TrailIsReplayed ==
  ASSUME WholeBlocks
  PROVE  Spec => []TrailReplays
  <1>1. Init => LoadInv /\ HeldWell /\ TrailInv
    BY LoadInit, RegisterInit, TrailInit
  <1>2. LoadInv /\ HeldWell /\ TrailInv /\ [Next]_vars => LoadInv' /\ HeldWell' /\ TrailInv'
    BY LoadStep, RegisterStep, TrailStep
  <1>3. TrailInv => TrailReplays
    BY TrailOfHeld
  <1> QED
    BY <1>1, <1>2, <1>3, PTL DEF Spec
=============================================================================
