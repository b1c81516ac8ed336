----------------------------- MODULE HomeProofs -----------------------------
(***************************************************************************)
(* Proofs about HomeFiles, for any processes, keys, passphrases and        *)
(* columns, with crashes and failing writes.                               *)
(***************************************************************************)
EXTENDS HomeFiles, TLAPS

-----------------------------------------------------------------------------
(* Type correctness *)

\* What a set or a delete leaves is a set of items.
LEMMA EditedIsItems ==
  ASSUME TypeOK, NEW p \in Processes, command[p] \in Commands, NEW items \in Items
  PROVE  Edited(p, items) \in Items
<1>1. CASE command[p].name \in {"set", "delete"}
  <2>1. command[p] \in EditCommands
    BY <1>1 DEF Commands, StoreCommands, RunCommands
  <2>2. command[p].key \in Keys /\ command[p].value \in Values
    BY <2>1 DEF EditCommands
  <2> QED
    BY <2>2 DEF Edited, Items
<1>2. CASE command[p].name \notin {"set", "delete"}
  BY <1>2 DEF Edited
<1> QED
  BY <1>1, <1>2

\* A process that is somewhere has a command, and one that adds a column has
\* found one to add.
Busy ==
  \A p \in Processes :
    /\ pc[p] \notin {"idle", "dead"} => command[p] \in Commands
    /\ pc[p] = "alter" => at[p] \in 1..Len(Columns)

LEMMA ColumnsAreFinite == Len(Columns) \in Nat
  BY HomeAssumption

LEMMA FileItems == TypeOK => ItemsIn(file) \in Items
  BY DEF TypeOK, ItemsIn, Docs, Items, NoItems

LEMMA ForgetsType ==
  ASSUME TypeOK, NEW p \in Processes, Forget(p),
         NEW to \in {"idle", "dead"}, pc' = [pc EXCEPT ![p] = to], Busy
  PROVE  TypeOK' /\ Busy'
  BY DEF TypeOK, Busy, Forget, NoItems, Items

LEMMA TypeStep == TypeOK /\ Busy /\ [Next]_vars => TypeOK' /\ Busy'
<1> SUFFICES ASSUME TypeOK, Busy, [Next]_vars PROVE TypeOK' /\ Busy'
  OBVIOUS
<1> USE DEF storeVars, dbVars
<1>1. ASSUME NEW p \in Processes, Start(p) PROVE TypeOK' /\ Busy'
  <2> PICK c \in Commands : Goto(p, "idle", FirstStep(c.name)) /\ command' = [command EXCEPT ![p] = c]
    BY <1>1 DEF Start
  <2> FirstStep(c.name) \in {"open", "tables"}
    BY DEF FirstStep
  <2> QED
    BY <1>1 DEF Start, Goto, TypeOK, Busy
<1>2. ASSUME NEW p \in Processes, Retry(p) PROVE TypeOK' /\ Busy'
  <2> FirstStep(command[p].name) \in {"open", "tables"}
    BY DEF FirstStep
  <2> QED
    BY <1>2 DEF Retry, Goto, TypeOK, Busy
<1>3. ASSUME NEW p \in Processes, Crash(p) PROVE TypeOK' /\ Busy'
  BY <1>3, ForgetsType DEF Crash
<1>4. ASSUME NEW p \in Processes, NEW from, End(p, from) PROVE TypeOK' /\ Busy'
  BY <1>4, ForgetsType DEF End, Goto
<1>5. ASSUME NEW p \in Processes, NEW items \in Items, Reads(p, items) PROVE TypeOK' /\ Busy'
  <2>1. CASE /\ ~NothingToDelete(p, items)
             /\ Goto(p, "open", IF command[p].name = "init" THEN "stat" ELSE "write")
             /\ doc' = [doc EXCEPT ![p] = Edited(p, items)]
             /\ UNCHANGED <<command, file, since, dbVars>>
    <3>1. command[p] \in Commands
      BY <2>1 DEF Goto, Busy
    <3>2. Edited(p, items) \in Items
      BY <3>1, EditedIsItems
    <3>3. doc' \in [Processes -> Items]
      BY <2>1, <3>2 DEF TypeOK
    <3> QED
      BY <2>1, <3>3 DEF Goto, TypeOK, Busy
  <2>2. CASE Goto(p, "open", "tables") /\ UNCHANGED <<command, storeVars, dbVars>>
    BY <2>2 DEF Goto, TypeOK, Busy
  <2>3. CASE End(p, "open")
    BY <2>3, <1>4
  <2> QED
    BY <1>5, <2>1, <2>2, <2>3 DEF Reads
<1>6. ASSUME NEW p \in Processes, OpenStore(p) PROVE TypeOK' /\ Busy'
  <2>1. NoItems \in Items
    BY DEF NoItems, Items
  <2>2. CASE Reads(p, NoItems)
    BY <2>1, <2>2, <1>5
  <2>3. CASE SamePassphrase(p) /\ Reads(p, file.items)
    BY <2>3, <1>5 DEF SamePassphrase, Docs
  <2> QED
    BY <1>6, <2>2, <2>3 DEF OpenStore
<1>7. ASSUME NEW p \in Processes, OpenStoreFails(p) PROVE TypeOK' /\ Busy'
  BY <1>7, <1>4 DEF OpenStoreFails
<1>8. ASSUME NEW p \in Processes, SkipStore(p) PROVE TypeOK' /\ Busy'
  <2>1. CASE Goto(p, "open", "tables") /\ UNCHANGED <<command, storeVars, dbVars>>
    BY <2>1 DEF Goto, TypeOK, Busy
  <2> QED
    BY <1>8, <2>1, <1>4 DEF SkipStore
<1>9. ASSUME NEW p \in Processes, StatStore(p) PROVE TypeOK' /\ Busy'
  <2>1. CASE Goto(p, "stat", "write") /\ UNCHANGED <<command, storeVars, dbVars>>
    BY <2>1 DEF Goto, TypeOK, Busy
  <2> QED
    BY <1>9, <2>1, <1>4 DEF StatStore
<1>10. ASSUME NEW p \in Processes, WriteTemp(p) PROVE TypeOK' /\ Busy'
  BY <1>10 DEF WriteTemp, Goto, TypeOK, Busy
<1>11. ASSUME NEW p \in Processes, RenameTemp(p) PROVE TypeOK' /\ Busy'
  <2>1. command[p] \in Commands
    BY <1>11 DEF RenameTemp, Goto, Busy
  <2>2. command[p].pass \in Passphrases
    BY <2>1 DEF Commands, EditCommands
  <2>3. OwnKeys(p) \subseteq Keys
    <3>1. CASE command[p].name \in {"set", "delete"}
      <4>1. command[p] \in EditCommands
        BY <2>1, <3>1 DEF Commands, StoreCommands, RunCommands
      <4> QED
        BY <4>1 DEF EditCommands, OwnKeys
    <3>2. CASE command[p].name \notin {"set", "delete"}
      BY <3>2 DEF OwnKeys
    <3> QED
      BY <3>1, <3>2
  <2>4. Stored(p) \subseteq Keys \cup {ThePassphrase}
    BY <2>3 DEF Stored, TypeOK
  <2>5. since' \in [Processes -> SUBSET (Keys \cup {ThePassphrase})]
    <3>1. \A q \in Processes : since[q] \subseteq Keys \cup {ThePassphrase}
      BY DEF TypeOK
    <3> QED
      BY <1>11, <2>4, <3>1 DEF RenameTemp
  <2>6. file' \in Docs
    <3>1. doc[p] \in Items
      BY DEF TypeOK
    <3> QED
      BY <1>11, <2>2, <3>1 DEF RenameTemp, Docs
  <2> QED
    BY <1>11, <2>5, <2>6 DEF RenameTemp, Goto, TypeOK, Busy
<1>12. ASSUME NEW p \in Processes, ChmodStore(p) PROVE TypeOK' /\ Busy'
  BY <1>12, <1>4 DEF ChmodStore
<1>13. ASSUME NEW p \in Processes, SaveFails(p) PROVE TypeOK' /\ Busy'
  BY <1>13, <1>4 DEF SaveFails
<1>14. ASSUME NEW p \in Processes, CreateTables(p) PROVE TypeOK' /\ Busy'
  BY <1>14 DEF CreateTables, Goto, TypeOK, Busy
<1>15. ASSUME NEW p \in Processes, FindColumn(p) PROVE TypeOK' /\ Busy'
  <2>1. CASE at' = [at EXCEPT ![p] = @ + 1] /\ UNCHANGED pc
    <3>1. at[p] + 1 \in Nat \ {0}
      BY DEF TypeOK
    <3>2. at' \in [Processes -> Nat \ {0}]
      BY <2>1, <3>1 DEF TypeOK
    <3> QED
      BY <1>15, <2>1, <3>2 DEF FindColumn, TypeOK, Busy
  <2>2. CASE Goto(p, "check", "alter") /\ UNCHANGED at
    <3>1. at[p] \in 1..Len(Columns)
      BY <1>15, ColumnsAreFinite DEF FindColumn, TypeOK
    <3> QED
      BY <1>15, <2>2, <3>1 DEF FindColumn, Goto, TypeOK, Busy
  <2> QED
    BY <1>15, <2>1, <2>2 DEF FindColumn
<1>16. ASSUME NEW p \in Processes, AddColumn(p) PROVE TypeOK' /\ Busy'
  <2>1. at[p] \in 1..Len(Columns)
    BY <1>16 DEF AddColumn, Busy
  <2>2. CASE /\ Goto(p, "alter", "check")
             /\ columns' = columns \cup {Columns[at[p]]}
             /\ at' = [at EXCEPT ![p] = @ + 1]
    <3>1. at[p] + 1 \in Nat \ {0}
      BY DEF TypeOK
    <3>2. at' \in [Processes -> Nat \ {0}]
      BY <2>2, <3>1 DEF TypeOK
    <3>3. columns' \subseteq ColumnSet \cup Created
      BY <2>1, <2>2 DEF TypeOK, ColumnSet
    <3> QED
      BY <1>16, <2>2, <3>2, <3>3 DEF AddColumn, Goto, TypeOK, Busy
  <2>3. CASE Goto(p, "alter", "failed") /\ UNCHANGED <<columns, at>>
    BY <1>16, <2>3 DEF AddColumn, Goto, TypeOK, Busy
  <2> QED
    BY <1>16, <2>2, <2>3 DEF AddColumn
<1>17. ASSUME NEW p \in Processes, Opened(p) PROVE TypeOK' /\ Busy'
  BY <1>17 DEF Opened, Goto, TypeOK, Busy
<1>18. ASSUME NEW p \in Processes, Close(p) PROVE TypeOK' /\ Busy'
  <2>1. CASE Goto(p, "ready", "open") /\ UNCHANGED <<command, storeVars, dbVars>>
    BY <2>1 DEF Goto, TypeOK, Busy
  <2> QED
    BY <1>18, <2>1, <1>4 DEF Close
<1>19. CASE UNCHANGED vars
  BY <1>19 DEF vars, TypeOK, Busy
<1> QED
  BY <1>1, <1>2, <1>3, <1>6, <1>7, <1>8, <1>9, <1>10, <1>11, <1>12, <1>13, <1>14,
     <1>15, <1>16, <1>17, <1>18, <1>19 DEF Next, StoreStep, DatabaseStep

LEMMA TypeInvariant == Spec => [](TypeOK /\ Busy)
<1>1. ASSUME Init PROVE TypeOK /\ Busy
  <2>1. NoItems \in Items
    BY DEF NoItems, Items
  <2>2. doc \in [Processes -> Items]
    BY <1>1, <2>1 DEF Init
  <2>3. columns \subseteq ColumnSet \cup Created /\ tables \in BOOLEAN
    BY <1>1 DEF Init
  <2>4. at \in [Processes -> Nat \ {0}]
    BY <1>1 DEF Init
  <2>5. \A p \in Processes : pc[p] = "idle"
    BY <1>1 DEF Init
  <2> QED
    BY <1>1, <2>2, <2>3, <2>4, <2>5 DEF Init, TypeOK, Busy
<1> QED
  BY <1>1, TypeStep, PTL DEF Spec

-----------------------------------------------------------------------------

\* The variables keep their types, whatever the processes do at the same time
\* (EncryptedFileStore, Store.migrate).
THEOREM TypeCorrect == Spec => []TypeOK
  BY TypeInvariant, PTL

-----------------------------------------------------------------------------
(* The database *)

\* Where a process is at one of the columns of a database with tables.
Migrating(p) == pc[p] \in {"check", "alter", "ready"}

\* A process that migrates has tables, the columns it has passed are there, and
\* it is ready when it has passed them all.
PassedColumns ==
  \A p \in Processes :
    Migrating(p) =>
      /\ tables
      /\ \A i \in 1..Len(Columns) : i < at[p] => Columns[i] \in columns
      /\ pc[p] = "ready" => at[p] > Len(Columns)

\* Only these steps concern the database.
LEMMA OtherSteps ==
  ASSUME NEW p \in Processes, TypeOK,
         \/ Start(p) \/ Retry(p) \/ Crash(p) \/ StoreStep(p) \/ SaveFails(p) \/ Close(p)
  PROVE  /\ UNCHANGED <<tables, columns>>
         /\ \E to \in {"idle", "open", "stat", "write", "rename", "chmod", "tables", "dead"} :
              pc' = [pc EXCEPT ![p] = to]
         /\ \A q \in Processes \ {p} : at'[q] = at[q]
<1> USE DEF storeVars, dbVars
<1>1. ASSUME NEW from, NEW to \in {"idle", "open", "stat", "write", "rename", "chmod", "tables"},
             Goto(p, from, to), UNCHANGED dbVars
      PROVE  /\ UNCHANGED <<tables, columns>>
             /\ \E t \in {"idle", "open", "stat", "write", "rename", "chmod", "tables", "dead"} :
                  pc' = [pc EXCEPT ![p] = t]
             /\ \A q \in Processes \ {p} : at'[q] = at[q]
  BY <1>1 DEF Goto
<1>2. ASSUME NEW to \in {"idle", "dead"}, pc' = [pc EXCEPT ![p] = to], Forget(p)
      PROVE  /\ UNCHANGED <<tables, columns>>
             /\ \E t \in {"idle", "open", "stat", "write", "rename", "chmod", "tables", "dead"} :
                  pc' = [pc EXCEPT ![p] = t]
             /\ \A q \in Processes \ {p} : at'[q] = at[q]
  BY <1>2 DEF Forget, TypeOK
<1>3. ASSUME NEW from, End(p, from)
      PROVE  \E to \in {"idle", "dead"} : pc' = [pc EXCEPT ![p] = to] /\ Forget(p)
  BY <1>3 DEF End, Goto
<1>4. ASSUME NEW items, Reads(p, items)
      PROVE  \/ \E to \in {"stat", "write", "tables"} : Goto(p, "open", to) /\ UNCHANGED dbVars
             \/ End(p, "open")
  BY <1>4 DEF Reads
<1>5. \A name : FirstStep(name) \in {"open", "tables"}
  BY DEF FirstStep
<1>6. CASE Start(p)
  BY <1>6, <1>1, <1>5 DEF Start
<1>7. CASE Retry(p)
  BY <1>7, <1>1, <1>5 DEF Retry
<1>8. CASE Crash(p)
  BY <1>8, <1>2 DEF Crash
<1>9. CASE OpenStore(p)
  BY <1>9, <1>1, <1>2, <1>3, <1>4 DEF OpenStore
<1>10. CASE OpenStoreFails(p)
  BY <1>10, <1>2, <1>3 DEF OpenStoreFails
<1>11. CASE SkipStore(p)
  BY <1>11, <1>1, <1>2, <1>3 DEF SkipStore
<1>12. CASE StatStore(p)
  BY <1>12, <1>1, <1>2, <1>3 DEF StatStore
<1>13. CASE WriteTemp(p)
  BY <1>13, <1>1 DEF WriteTemp
<1>14. CASE RenameTemp(p)
  BY <1>14, <1>1 DEF RenameTemp
<1>15. CASE ChmodStore(p)
  BY <1>15, <1>2, <1>3 DEF ChmodStore
<1>16. CASE SaveFails(p)
  BY <1>16, <1>2, <1>3 DEF SaveFails
<1>17. CASE Close(p)
  BY <1>17, <1>1, <1>2, <1>3 DEF Close
<1> QED
  BY <1>6, <1>7, <1>8, <1>9, <1>10, <1>11, <1>12, <1>13, <1>14, <1>15, <1>16, <1>17
  DEF StoreStep

LEMMA PassedStep == TypeOK /\ Busy /\ PassedColumns /\ [Next]_vars => PassedColumns'
<1> SUFFICES ASSUME TypeOK, Busy, PassedColumns, [Next]_vars,
                    NEW q \in Processes, Migrating(q)'
             PROVE  /\ tables'
                    /\ \A i \in 1..Len(Columns) : i < at'[q] => Columns[i] \in columns'
                    /\ pc'[q] = "ready" => at'[q] > Len(Columns)
  BY DEF PassedColumns, Migrating
<1> USE DEF storeVars, dbVars
<1>1. ASSUME NEW p \in Processes,
             \/ Start(p) \/ Retry(p) \/ Crash(p) \/ StoreStep(p) \/ SaveFails(p) \/ Close(p)
      PROVE  /\ tables'
             /\ \A i \in 1..Len(Columns) : i < at'[q] => Columns[i] \in columns'
             /\ pc'[q] = "ready" => at'[q] > Len(Columns)
  <2>1. p # q /\ pc'[q] = pc[q] /\ at'[q] = at[q] /\ UNCHANGED <<tables, columns>>
    BY <1>1, OtherSteps DEF TypeOK, Migrating
  <2> QED
    BY <2>1 DEF PassedColumns, Migrating
<1>2. ASSUME NEW p \in Processes, CreateTables(p)
      PROVE  /\ tables'
             /\ \A i \in 1..Len(Columns) : i < at'[q] => Columns[i] \in columns'
             /\ pc'[q] = "ready" => at'[q] > Len(Columns)
  <2>1. CASE p = q
    BY <1>2, <2>1 DEF CreateTables, Goto, TypeOK
  <2>2. CASE p # q
    <3>1. pc'[q] = pc[q] /\ at'[q] = at[q]
      BY <1>2, <2>2 DEF CreateTables, Goto, TypeOK
    <3>2. tables /\ columns' = columns
      BY <1>2, <3>1 DEF CreateTables, PassedColumns, Migrating
    <3> QED
      BY <1>2, <3>1, <3>2 DEF PassedColumns, Migrating, CreateTables
  <2> QED
    BY <2>1, <2>2
<1>3. ASSUME NEW p \in Processes, FindColumn(p)
      PROVE  /\ tables'
             /\ \A i \in 1..Len(Columns) : i < at'[q] => Columns[i] \in columns'
             /\ pc'[q] = "ready" => at'[q] > Len(Columns)
  <2>1. UNCHANGED <<tables, columns>>
    BY <1>3 DEF FindColumn
  <2>2. pc[p] = "check"
    BY <1>3 DEF FindColumn, Goto
  <2>3. CASE p = q
    <3>1. /\ pc'[q] # "ready" /\ at[q] \in Nat
          /\ \/ at'[q] = at[q] + 1 /\ Columns[at[q]] \in columns
             \/ at'[q] = at[q]
      BY <1>3, <2>2, <2>3 DEF FindColumn, Goto, TypeOK
    <3> QED
      BY <2>1, <2>2, <2>3, <3>1 DEF PassedColumns, Migrating
  <2>4. CASE p # q
    <3>1. pc'[q] = pc[q] /\ at'[q] = at[q]
      BY <1>3, <2>4 DEF FindColumn, Goto, TypeOK
    <3> QED
      BY <2>1, <3>1 DEF PassedColumns, Migrating
  <2> QED
    BY <2>3, <2>4
<1>4. ASSUME NEW p \in Processes, AddColumn(p)
      PROVE  /\ tables'
             /\ \A i \in 1..Len(Columns) : i < at'[q] => Columns[i] \in columns'
             /\ pc'[q] = "ready" => at'[q] > Len(Columns)
  <2>1. UNCHANGED tables /\ columns \subseteq columns' /\ pc[p] = "alter"
    BY <1>4 DEF AddColumn
  <2>2. CASE p = q
    <3>1. /\ pc'[q] = "check" /\ at[q] \in Nat
          /\ at'[q] = at[q] + 1 /\ Columns[at[q]] \in columns'
      BY <1>4, <2>2 DEF AddColumn, Goto, TypeOK, Migrating
    <3> QED
      BY <2>1, <2>2, <3>1 DEF PassedColumns, Migrating
  <2>3. CASE p # q
    <3>1. pc'[q] = pc[q] /\ at'[q] = at[q]
      BY <1>4, <2>3 DEF AddColumn, Goto, TypeOK
    <3> QED
      BY <2>1, <3>1 DEF PassedColumns, Migrating
  <2> QED
    BY <2>2, <2>3
<1>5. ASSUME NEW p \in Processes, Opened(p)
      PROVE  /\ tables'
             /\ \A i \in 1..Len(Columns) : i < at'[q] => Columns[i] \in columns'
             /\ pc'[q] = "ready" => at'[q] > Len(Columns)
  <2>1. UNCHANGED dbVars /\ pc[p] = "check" /\ at[p] > Len(Columns)
    BY <1>5 DEF Opened, Goto
  <2>2. pc'[q] = pc[q] \/ p = q
    BY <1>5 DEF Opened, Goto, TypeOK
  <2> QED
    BY <2>1, <2>2 DEF PassedColumns, Migrating
<1>6. CASE UNCHANGED vars
  BY <1>6 DEF vars, PassedColumns, Migrating
<1> QED
  BY <1>1, <1>2, <1>3, <1>4, <1>5, <1>6 DEF Next, DatabaseStep

\* A database that anybody uses has every column (Store.migrate), for any
\* columns and any processes that open it.
THEOREM OpenedDatabaseIsComplete == Spec => []OpenedIsComplete
<1>1. Init => PassedColumns
  BY DEF Init, PassedColumns, Migrating
<1>2. TypeOK /\ PassedColumns => OpenedIsComplete
  <2> SUFFICES ASSUME TypeOK, PassedColumns, NEW p \in Processes, pc[p] = "ready",
                      NEW i \in 1..Len(Columns)
               PROVE  Columns[i] \in columns
    BY DEF OpenedIsComplete, ColumnSet
  <2>1. i < at[p]
    BY ColumnsAreFinite DEF PassedColumns, Migrating, TypeOK
  <2> QED
    BY <2>1 DEF PassedColumns, Migrating
<1> QED
  BY <1>1, <1>2, TypeInvariant, PassedStep, PTL DEF Spec

-----------------------------------------------------------------------------
(* The credentials store *)

\* The copy a process is about to save is what the file holds, but for its own
\* key and what others stored since.
CopyAgrees(p) ==
  /\ \A k \in Keys \ (OwnKeys(p) \cup since[p]) : doc[p][k] = ItemsIn(file)[k]
  /\ file \in Docs /\ ThePassphrase \notin since[p] => file.pass = command[p].pass

CopiesAgree == \A p \in Processes : HasCopy(p) => CopyAgrees(p)

\* The copy of a process stays as it is, and so does the file.
Stays(q) ==
  HasCopy(q)' =>
    /\ HasCopy(q)
    /\ doc'[q] = doc[q] /\ command'[q] = command[q] /\ since'[q] = since[q]

LEMMA StaysAgreed ==
  ASSUME CopiesAgree, file' = file, \A q \in Processes : Stays(q)
  PROVE  CopiesAgree'
  BY DEF CopiesAgree, CopyAgrees, Stays, HasCopy, OwnKeys, ItemsIn

\* What others leave alone.
LEMMA OnlyIts ==
  ASSUME TypeOK, NEW p \in Processes, NEW to, pc' = [pc EXCEPT ![p] = to],
         UNCHANGED <<command, doc, file, since>> \/ (Forget(p) /\ to \in {"idle", "dead"}),
         HasCopy(p) \/ to \notin {"stat", "write", "rename"}
  PROVE  file' = file /\ \A q \in Processes : Stays(q)
<1>1. file' = file
  BY DEF Forget
<1>2. ASSUME NEW q \in Processes, q # p PROVE Stays(q)
  BY <1>2 DEF TypeOK, Stays, HasCopy, Forget
<1>3. Stays(p)
  BY DEF TypeOK, Stays, HasCopy, Forget
<1> QED
  BY <1>1, <1>2, <1>3

\* A process that opens the store has a copy that agrees.
LEMMA ReadAgrees ==
  ASSUME TypeOK, Busy, CopiesAgree, NEW p \in Processes, Reads(p, ItemsIn(file)),
         file \in Docs => file.pass = command[p].pass
  PROVE  CopiesAgree'
<1> USE DEF storeVars, dbVars
<1> DEFINE items == ItemsIn(file)
<1>1. CASE /\ Goto(p, "open", IF command[p].name = "init" THEN "stat" ELSE "write")
           /\ doc' = [doc EXCEPT ![p] = Edited(p, items)]
           /\ UNCHANGED <<command, file, since, dbVars>>
  <2>1. ASSUME NEW q \in Processes, q # p PROVE Stays(q)
    BY <1>1, <2>1 DEF Goto, TypeOK, Stays, HasCopy
  <2>2. command[p] \in Commands /\ items \in Items
    BY <1>1, FileItems DEF Goto, Busy
  <2>3. \A k \in Keys \ OwnKeys(p) : Edited(p, items)[k] = items[k]
    BY <2>2 DEF Edited, OwnKeys, Items
  <2>4. doc'[p] = Edited(p, items)
    BY <1>1 DEF TypeOK
  <2>5. CopyAgrees(p)'
    BY <1>1, <2>3, <2>4 DEF CopyAgrees, OwnKeys, ItemsIn
  <2>6. ASSUME NEW q \in Processes, HasCopy(q)' PROVE CopyAgrees(q)'
    <3>1. CASE q = p
      BY <2>5, <3>1
    <3>2. CASE q # p
      BY <1>1, <2>1, <2>6, <3>2 DEF CopiesAgree, CopyAgrees, Stays, OwnKeys, ItemsIn
    <3> QED
      BY <3>1, <3>2
  <2> QED
    BY <2>6 DEF CopiesAgree
<1>2. CASE Goto(p, "open", "tables") /\ UNCHANGED <<command, storeVars, dbVars>>
  BY <1>2, OnlyIts, StaysAgreed DEF Goto
<1>3. CASE End(p, "open")
  BY <1>3, OnlyIts, StaysAgreed DEF End, Goto
<1> QED
  BY <1>1, <1>2, <1>3 DEF Reads

\* What a process stores is news to every other that has a copy.
LEMMA SavedAgrees ==
  ASSUME TypeOK, Busy, CopiesAgree, NEW p \in Processes, RenameTemp(p)
  PROVE  CopiesAgree'
<1>1. /\ pc[p] = "rename" /\ pc' = [pc EXCEPT ![p] = "chmod"] /\ HasCopy(p)
      /\ file' = [pass |-> command[p].pass, items |-> doc[p]]
      /\ UNCHANGED <<command, doc>>
  BY DEF RenameTemp, Goto, HasCopy
<1>2. file' \in Docs /\ ItemsIn(file)' = doc[p] /\ file'.pass = command[p].pass
  <2>1. command[p] \in Commands /\ doc[p] \in Items
    BY <1>1 DEF Busy, TypeOK
  <2>2. command[p].pass \in Passphrases
    BY <2>1 DEF Commands, EditCommands
  <2> QED
    BY <1>1, <2>1, <2>2 DEF Docs, ItemsIn
<1> SUFFICES ASSUME NEW q \in Processes, HasCopy(q)' PROVE CopyAgrees(q)'
  BY DEF CopiesAgree
<1>3. q # p /\ HasCopy(q)
  BY <1>1 DEF HasCopy, TypeOK
<1>4. since'[q] = since[q] \cup Stored(p)
  BY <1>3 DEF RenameTemp
<1>5. \A k \in Keys \ (OwnKeys(q) \cup since[q]) : doc[q][k] = ItemsIn(file)[k]
  BY <1>3 DEF CopiesAgree, CopyAgrees
<1>6. \A k \in Keys \ (OwnKeys(p) \cup since[p]) : doc[p][k] = ItemsIn(file)[k]
  BY <1>1 DEF CopiesAgree, CopyAgrees
<1>7. \A k \in Keys \ (OwnKeys(q)' \cup since'[q]) : doc'[q][k] = ItemsIn(file)'[k]
  BY <1>1, <1>2, <1>4, <1>5, <1>6 DEF OwnKeys, Stored
<1>8. ASSUME ThePassphrase \notin since'[q] PROVE file'.pass = command'[q].pass
  <2>1. SamePassphrase(p) /\ ThePassphrase \notin since[q]
    BY <1>4, <1>8 DEF Stored
  <2>2. file \in Docs /\ file.pass = command[p].pass /\ file.pass = command[q].pass
    BY <1>3, <2>1 DEF SamePassphrase, CopiesAgree, CopyAgrees
  <2> QED
    BY <1>1, <1>2, <2>2
<1> QED
  BY <1>7, <1>8 DEF CopyAgrees

LEMMA CopiesStep == TypeOK /\ Busy /\ CopiesAgree /\ [Next]_vars => CopiesAgree'
<1> SUFFICES ASSUME TypeOK, Busy, CopiesAgree, [Next]_vars PROVE CopiesAgree'
  OBVIOUS
<1> USE DEF storeVars, dbVars
<1>1. ASSUME NEW p \in Processes, NEW from, End(p, from) PROVE CopiesAgree'
  BY <1>1, OnlyIts, StaysAgreed DEF End, Goto
<1>2. ASSUME NEW p \in Processes, NEW from, NEW to, Goto(p, from, to),
             UNCHANGED <<command, doc, file, since>>,
             HasCopy(p) \/ to \notin {"stat", "write", "rename"}
      PROVE  CopiesAgree'
  BY <1>2, OnlyIts, StaysAgreed DEF Goto
<1>3. ASSUME NEW p \in Processes, Start(p) PROVE CopiesAgree'
  <2> PICK c \in Commands : Goto(p, "idle", FirstStep(c.name)) /\ command' = [command EXCEPT ![p] = c]
    BY <1>3 DEF Start
  <2>1. FirstStep(c.name) \in {"open", "tables"}
    BY DEF FirstStep
  <2>2. \A q \in Processes : Stays(q)
    BY <1>3, <2>1 DEF Start, Goto, TypeOK, Stays, HasCopy
  <2> QED
    BY <1>3, <2>2, StaysAgreed DEF Start
<1>4. ASSUME NEW p \in Processes, Retry(p) PROVE CopiesAgree'
  BY <1>4, <1>2 DEF Retry, FirstStep
<1>5. ASSUME NEW p \in Processes, Crash(p) PROVE CopiesAgree'
  BY <1>5, OnlyIts, StaysAgreed DEF Crash
<1>6. ASSUME NEW p \in Processes, OpenStore(p) PROVE CopiesAgree'
  <2>1. CASE file \in {NoFile, Empty} /\ Reads(p, NoItems)
    <3>1. file \notin Docs
      BY <2>1, HomeAssumption
    <3> QED
      BY <2>1, <3>1, ReadAgrees DEF ItemsIn
  <2>2. CASE SamePassphrase(p) /\ Reads(p, file.items)
    BY <2>2, ReadAgrees DEF SamePassphrase, ItemsIn
  <2> QED
    BY <1>6, <2>1, <2>2 DEF OpenStore
<1>7. ASSUME NEW p \in Processes, OpenStoreFails(p) PROVE CopiesAgree'
  BY <1>7, <1>1 DEF OpenStoreFails
<1>8. ASSUME NEW p \in Processes, SkipStore(p) PROVE CopiesAgree'
  BY <1>8, <1>1, <1>2 DEF SkipStore
<1>9. ASSUME NEW p \in Processes, StatStore(p) PROVE CopiesAgree'
  BY <1>9, <1>1, <1>2 DEF StatStore, HasCopy, Goto
<1>10. ASSUME NEW p \in Processes, WriteTemp(p) PROVE CopiesAgree'
  BY <1>10, <1>2 DEF WriteTemp, HasCopy, Goto
<1>11. ASSUME NEW p \in Processes, RenameTemp(p) PROVE CopiesAgree'
  BY <1>11, SavedAgrees
<1>12. ASSUME NEW p \in Processes, ChmodStore(p) PROVE CopiesAgree'
  BY <1>12, <1>1 DEF ChmodStore
<1>13. ASSUME NEW p \in Processes, SaveFails(p) PROVE CopiesAgree'
  BY <1>13, <1>1 DEF SaveFails
<1>14. ASSUME NEW p \in Processes, DatabaseStep(p) PROVE CopiesAgree'
  <2>1. CASE CreateTables(p)
    BY <2>1, <1>2 DEF CreateTables
  <2>2. CASE FindColumn(p)
    <3>1. CASE UNCHANGED pc
      BY <2>2, <3>1, StaysAgreed DEF FindColumn, Stays, HasCopy
    <3>2. CASE Goto(p, "check", "alter")
      BY <2>2, <3>2, <1>2 DEF FindColumn
    <3> QED
      BY <2>2, <3>1, <3>2 DEF FindColumn
  <2>3. CASE AddColumn(p)
    BY <2>3, <1>2 DEF AddColumn
  <2>4. CASE Opened(p)
    BY <2>4, <1>2 DEF Opened
  <2>5. CASE Close(p)
    BY <2>5, <1>1, <1>2 DEF Close
  <2> QED
    BY <1>14, <2>1, <2>2, <2>3, <2>4, <2>5 DEF DatabaseStep
<1>15. CASE UNCHANGED vars
  BY <1>15, StaysAgreed DEF vars, Stays, HasCopy
<1> QED
  BY <1>3, <1>4, <1>5, <1>6, <1>7, <1>8, <1>9, <1>10, <1>11, <1>12, <1>13, <1>14, <1>15
  DEF Next, StoreStep

\* What a save does to the file, in a step of p.
Saves(p) ==
  pc[p] = "rename" /\ pc'[p] = "chmod" =>
    /\ \A k \in Keys \ (OwnKeys(p) \cup since[p]) : file'.items[k] = ItemsIn(file)[k]
    /\ file \in Docs /\ ThePassphrase \notin since[p] => file'.pass = file.pass

\* No step but RenameTemp takes a process from "rename" to "chmod".
LEMMA OnlyRenameSaves ==
  ASSUME TypeOK, Next, NEW p \in Processes, pc[p] = "rename", pc'[p] = "chmod"
  PROVE  RenameTemp(p)
<1> PICK q \in Processes :
      Start(q) \/ Retry(q) \/ Crash(q) \/ StoreStep(q) \/ SaveFails(q) \/ DatabaseStep(q)
  BY DEF Next
<1>1. CASE Start(q) \/ Retry(q) \/ Crash(q) \/ SaveFails(q)
  BY <1>1 DEF Start, Retry, Crash, SaveFails, End, Goto, TypeOK, FirstStep
<1>2. CASE OpenStore(q)
  BY <1>2 DEF OpenStore, Reads, End, Goto, TypeOK
<1>3. CASE OpenStoreFails(q) \/ SkipStore(q) \/ StatStore(q) \/ WriteTemp(q) \/ ChmodStore(q)
  BY <1>3 DEF OpenStoreFails, SkipStore, StatStore, WriteTemp, ChmodStore, End, Goto, TypeOK
<1>4. CASE RenameTemp(q)
  BY <1>4 DEF RenameTemp, Goto, TypeOK
<1>5. CASE DatabaseStep(q)
  BY <1>5 DEF DatabaseStep, CreateTables, FindColumn, AddColumn, Opened, Close, End, Goto, TypeOK
<1> QED
  BY <1>1, <1>2, <1>3, <1>4, <1>5 DEF StoreStep

\* A save changes what its command is about and what other processes stored in
\* the meantime, and nothing else (EncryptedFileStore.Set, Delete, Init).
THEOREM SavesKeepTheRest == Spec => SaveKeepsTheRest
<1>1. Init => CopiesAgree
  BY DEF Init, CopiesAgree, HasCopy
<1>2. ASSUME TypeOK, CopiesAgree, [Next]_vars, NEW p \in Processes PROVE Saves(p)
  <2> SUFFICES ASSUME pc[p] = "rename", pc'[p] = "chmod"
               PROVE  /\ \A k \in Keys \ (OwnKeys(p) \cup since[p]) : file'.items[k] = ItemsIn(file)[k]
                      /\ file \in Docs /\ ThePassphrase \notin since[p] => file'.pass = file.pass
    BY DEF Saves
  <2>1. RenameTemp(p)
    BY <1>2, OnlyRenameSaves DEF vars
  <2>2. file'.items = doc[p] /\ file'.pass = command[p].pass
    BY <2>1 DEF RenameTemp
  <2>3. CopyAgrees(p)
    BY <1>2 DEF CopiesAgree, HasCopy
  <2> QED
    BY <2>2, <2>3 DEF CopyAgrees
<1>3. TypeOK /\ CopiesAgree /\ [Next]_vars => [\A p \in Processes : Saves(p)]_vars
  BY <1>2
<1>4. Spec => [](TypeOK /\ Busy /\ CopiesAgree)
  BY <1>1, TypeInvariant, CopiesStep, PTL DEF Spec
<1>5. Spec => [][\A p \in Processes : Saves(p)]_vars
  BY <1>3, <1>4, PTL DEF Spec
<1> QED
  BY <1>5 DEF SaveKeepsTheRest, Saves

=============================================================================
