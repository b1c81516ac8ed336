----------------------------- MODULE HomeFiles -----------------------------
(***************************************************************************)
(* The two files that all processes of one Switchboard home share: the     *)
(* encrypted credentials store, which a process reads whole when it opens  *)
(* it and rewrites whole when it changes a key, and the database, whose    *)
(* schema every process brings up to date, column by column, when it opens *)
(* it.  Neither takes a lock across its steps.                             *)
(***************************************************************************)
EXTENDS Naturals, Sequences

CONSTANTS
  Processes,    \* one user or job scheduler each, with one command at a time
  Keys, Values, \* of credentials
  Absent,       \* the value of a key that is not stored
  Passphrases,
  Columns,      \* the columns in the order migrate adds them
  Created,      \* those that CREATE TABLE has already
  NoFile, Empty,
  Faults        \* subset of {"io", "crash"}

StoreCommands == {"init", "force", "set", "delete", "read"}

\* Commands that open the database: train reads credentials before it, resume
\* and cleanup after it.
RunCommands == {"train", "cleanup"}

Items == [Keys -> Values \cup {Absent}]

Docs == [pass : Passphrases, items : Items]

ThePassphrase == "passphrase"

ColumnSet == {Columns[i] : i \in 1..Len(Columns)}

ASSUME HomeAssumption ==
  /\ Absent \notin Values
  /\ Columns \in Seq(ColumnSet)
  /\ \A i, j \in 1..Len(Columns) : Columns[i] = Columns[j] => i = j
  /\ NoFile \notin Docs /\ Empty \notin Docs
  /\ NoFile # Empty
  /\ ThePassphrase \notin Keys
  /\ Faults \subseteq {"io", "crash"}

VARIABLES
  pc,
  command,  \* of each process: what it runs, the key, the value, the passphrase
  file,     \* credentials.enc
  doc,      \* of each process: the items it would save
  tables,   \* the database has its tables
  columns,  \* and these of their columns
  at,       \* of each process: the column migrate is at
  since     \* history: what others stored since a process opened the file: keys,
            \* and the passphrase

storeVars == <<file, doc, since>>
dbVars    == <<tables, columns, at>>
vars == <<pc, command, storeVars, dbVars>>

NoItems == [k \in Keys |-> Absent]

\* Only set and delete name a key.
NoKey == "none"

EditCommands == [name : {"set", "delete"}, key : Keys, value : Values, pass : Passphrases]

Commands ==
  EditCommands \cup
  [name : (StoreCommands \cup RunCommands) \ {"set", "delete"},
   key : {NoKey}, value : {Absent}, pass : Passphrases]

NoCommand == [name |-> "none", key |-> NoKey, value |-> Absent, pass |-> NoKey]

\* No store or an empty file; a new database or one that an earlier version
\* has left with some of the columns.
Init ==
  /\ pc = [p \in Processes |-> "idle"]
  /\ command = [p \in Processes |-> NoCommand]
  /\ file \in {NoFile, Empty}
  /\ doc = [p \in Processes |-> NoItems]
  /\ \/ tables = FALSE /\ columns = {}
     \/ tables = TRUE /\ columns \in SUBSET ColumnSet
  /\ at = [p \in Processes |-> 1]
  /\ since = [p \in Processes |-> {}]

-----------------------------------------------------------------------------
(* Commands *)

Goto(p, from, to) == pc[p] = from /\ pc' = [pc EXCEPT ![p] = to]

FirstStep(name) == IF name = "cleanup" THEN "tables" ELSE "open"

Start(p) ==
  /\ \E c \in Commands :
       /\ Goto(p, "idle", FirstStep(c.name))
       /\ command' = [command EXCEPT ![p] = c]
  /\ UNCHANGED <<storeVars, dbVars>>

\* The memory of a process is gone; nobody reads the temporary file it may
\* leave behind.
Forget(p) ==
  /\ command' = [command EXCEPT ![p] = NoCommand]
  /\ doc' = [doc EXCEPT ![p] = NoItems]
  /\ since' = [since EXCEPT ![p] = {}]
  /\ at' = [at EXCEPT ![p] = 1]
  /\ UNCHANGED <<file, tables, columns>>

End(p, from) == Goto(p, from, "idle") /\ Forget(p)

\* The user repeats a command whose database could not be opened.
Retry(p) ==
  /\ Goto(p, "failed", FirstStep(command[p].name))
  /\ UNCHANGED <<command, storeVars, dbVars>>

Crash(p) ==
  /\ "crash" \in Faults
  /\ pc[p] \notin {"idle", "failed", "dead"}
  /\ pc' = [pc EXCEPT ![p] = "dead"]
  /\ Forget(p)

-----------------------------------------------------------------------------
(* The credentials store *)

\* Set and Delete change the copy of the process before they save it.
Edited(p, items) ==
  CASE command[p].name = "set" -> [items EXCEPT ![command[p].key] = command[p].value]
    [] command[p].name = "delete" -> [items EXCEPT ![command[p].key] = Absent]
    [] OTHER -> items

NothingToDelete(p, items) ==
  command[p].name = "delete" /\ items[command[p].key] = Absent

\* The process has its copy: it changes and saves it, or takes the secrets it
\* needs from it.
Reads(p, items) ==
  \/ /\ command[p].name \in {"init", "force", "set", "delete"}
     /\ ~NothingToDelete(p, items)
     /\ Goto(p, "open", IF command[p].name = "init" THEN "stat" ELSE "write")
     /\ doc' = [doc EXCEPT ![p] = Edited(p, items)]
     /\ UNCHANGED <<command, file, since, dbVars>>
  \/ /\ command[p].name = "train"
     /\ Goto(p, "open", "tables")
     /\ UNCHANGED <<command, storeVars, dbVars>>
  \/ /\ command[p].name \in {"read", "cleanup"} \/ NothingToDelete(p, items)
     /\ End(p, "open")

SamePassphrase(p) == file \in Docs /\ file.pass = command[p].pass

\* Mutant: a store that cannot be decrypted is taken for an empty one.
Mut_OpenStore(p) ==
  \/ file \in {NoFile, Empty} /\ Reads(p, NoItems)
  \/ SamePassphrase(p) /\ Reads(p, file.items)
  \/ file \in Docs /\ ~SamePassphrase(p) /\ Reads(p, NoItems)

\* OpenEncryptedFile
OpenStore(p) ==
  \/ file \in {NoFile, Empty} /\ Reads(p, NoItems)
  \/ SamePassphrase(p) /\ Reads(p, file.items)

OpenStoreFails(p) == file \in Docs /\ ~SamePassphrase(p) /\ End(p, "open")

\* optionalCredentialResolverAtHome: without a store and a passphrase in the
\* environment a run goes on without one; runs that need no secrets do not ask.
SkipStore(p) ==
  \/ /\ command[p].name = "train"
     /\ Goto(p, "open", "tables")
     /\ UNCHANGED <<command, storeVars, dbVars>>
  \/ command[p].name = "cleanup" /\ End(p, "open")

\* Init without --force
StatStore(p) ==
  \/ /\ file = NoFile
     /\ Goto(p, "stat", "write")
     /\ UNCHANGED <<command, storeVars, dbVars>>
  \/ file # NoFile /\ End(p, "stat")

\* save writes a temporary file, which nobody else reads, and renames it.
WriteTemp(p) ==
  /\ Goto(p, "write", "rename")
  /\ UNCHANGED <<command, storeVars, dbVars>>

SaveFails(p) == "io" \in Faults /\ (End(p, "write") \/ End(p, "rename"))

OwnKeys(p) == IF command[p].name \in {"set", "delete"} THEN {command[p].key} ELSE {}

\* Others now have an older copy than what is in the file.
Stored(p) ==
  OwnKeys(p) \cup since[p] \cup (IF SamePassphrase(p) THEN {} ELSE {ThePassphrase})

\* A process has a copy that it is going to save.
HasCopy(p) == pc[p] \in {"stat", "write", "rename"}

RenameTemp(p) ==
  /\ Goto(p, "rename", "chmod")
  /\ file' = [pass |-> command[p].pass, items |-> doc[p]]
  /\ since' = [q \in Processes |->
                 IF q # p /\ HasCopy(q) THEN since[q] \cup Stored(p) ELSE since[q]]
  /\ UNCHANGED <<command, doc, dbVars>>

\* Whether chmod succeeds decides what the command reports, and no more.
ChmodStore(p) == End(p, "chmod")

-----------------------------------------------------------------------------
(* The database *)

\* Mutant: CREATE TABLE fails when the tables exist.
Mut_CreateTables(p) ==
  /\ Goto(p, "tables", IF tables THEN "failed" ELSE "check")
  /\ tables' = TRUE
  /\ columns' = IF tables THEN columns ELSE Created
  /\ at' = [at EXCEPT ![p] = 1]
  /\ UNCHANGED <<command, storeVars>>

\* migrate: CREATE TABLE IF NOT EXISTS
CreateTables(p) ==
  /\ Goto(p, "tables", "check")
  /\ tables' = TRUE
  /\ columns' = IF tables THEN columns ELSE Created
  /\ at' = [at EXCEPT ![p] = 1]
  /\ UNCHANGED <<command, storeVars>>

\* Mutant: migrate takes a database that has one of the columns for complete.
Mut_FindColumn(p) ==
  /\ at[p] <= Len(Columns)
  /\ \/ /\ Columns[at[p]] \in columns
        /\ at' = [at EXCEPT ![p] = Len(Columns) + 1]
        /\ pc[p] = "check" /\ UNCHANGED pc
     \/ /\ Columns[at[p]] \notin columns
        /\ Goto(p, "check", "alter")
        /\ UNCHANGED at
  /\ UNCHANGED <<command, storeVars, tables, columns>>

\* addColumnIfMissing reads the columns of the table.
FindColumn(p) ==
  /\ at[p] <= Len(Columns)
  /\ \/ /\ Columns[at[p]] \in columns
        /\ at' = [at EXCEPT ![p] = @ + 1]
        /\ pc[p] = "check" /\ UNCHANGED pc
     \/ /\ Columns[at[p]] \notin columns
        /\ Goto(p, "check", "alter")
        /\ UNCHANGED at
  /\ UNCHANGED <<command, storeVars, tables, columns>>

\* ALTER TABLE fails if another process has added the column meanwhile.
AddColumn(p) ==
  /\ pc[p] = "alter"
  /\ \/ /\ Columns[at[p]] \notin columns
        /\ Goto(p, "alter", "check")
        /\ columns' = columns \cup {Columns[at[p]]}
        /\ at' = [at EXCEPT ![p] = @ + 1]
     \/ /\ Columns[at[p]] \in columns
        /\ Goto(p, "alter", "failed")
        /\ UNCHANGED <<columns, at>>
  /\ UNCHANGED <<command, storeVars, tables>>

Opened(p) ==
  /\ at[p] > Len(Columns)
  /\ Goto(p, "check", "ready")
  /\ UNCHANGED <<command, storeVars, dbVars>>

\* What a command does with the open database is in the other modules.
Close(p) ==
  \/ /\ command[p].name = "cleanup"
     /\ Goto(p, "ready", "open")
     /\ UNCHANGED <<command, storeVars, dbVars>>
  \/ command[p].name = "train" /\ End(p, "ready")

-----------------------------------------------------------------------------
(* Specification *)

StoreStep(p) ==
  \/ OpenStore(p) \/ OpenStoreFails(p) \/ SkipStore(p) \/ StatStore(p)
  \/ WriteTemp(p) \/ RenameTemp(p) \/ ChmodStore(p)

DatabaseStep(p) ==
  CreateTables(p) \/ FindColumn(p) \/ AddColumn(p) \/ Opened(p) \/ Close(p)

Next ==
  \E p \in Processes :
    Start(p) \/ Retry(p) \/ Crash(p) \/ StoreStep(p) \/ SaveFails(p) \/ DatabaseStep(p)

Spec == Init /\ [][Next]_vars

\* A process that runs goes on; a user who lost a race repeats the command.
FairSpec ==
  Spec /\ \A p \in Processes : WF_vars(StoreStep(p) \/ DatabaseStep(p) \/ Retry(p))

-----------------------------------------------------------------------------
(* Properties *)

TypeOK ==
  /\ pc \in [Processes -> {"idle", "open", "stat", "write", "rename", "chmod", "tables",
               "check", "alter", "ready", "failed", "dead"}]
  /\ command \in [Processes -> Commands \cup {NoCommand}]
  /\ file \in Docs \cup {NoFile, Empty}
  /\ doc \in [Processes -> Items]
  /\ tables \in BOOLEAN
  /\ columns \subseteq ColumnSet \cup Created
  /\ at \in [Processes -> Nat \ {0}]
  /\ since \in [Processes -> SUBSET (Keys \cup {ThePassphrase})]

ItemsIn(f) == IF f \in Docs THEN f.items ELSE NoItems

\* A save changes the key of its command and nothing else, not the passphrase
\* either, unless another process has stored that since this one opened the
\* file (OpenEncryptedFile, Set, Delete, Init).
SaveKeepsTheRest ==
  [][\A p \in Processes :
       pc[p] = "rename" /\ pc'[p] = "chmod" =>
         /\ \A k \in Keys \ (OwnKeys(p) \cup since[p]) : file'.items[k] = ItemsIn(file)[k]
         /\ file \in Docs /\ ThePassphrase \notin since[p] => file'.pass = file.pass]_vars

\* Whoever gets to use the database finds every column in it, whichever version
\* left it behind and whoever migrates it as well (Store.migrate).
OpenedIsComplete ==
  \A p \in Processes : pc[p] = "ready" => ColumnSet \subseteq columns

\* A lost race for a column is over when the command is repeated often enough;
\* a store it may not read ends it before that (addColumnIfMissing).
DatabaseOpens ==
  \A p \in Processes :
    pc[p] \in {"tables", "check", "alter", "failed"} ~> pc[p] \in {"ready", "idle", "dead"}

=============================================================================
