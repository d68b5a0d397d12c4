------------------------------ MODULE Database ------------------------------
(***************************************************************************)
(* The tables of a database (tsdb/db.go, container/string_cache.go): the   *)
(* list in memory, the open tables, the cache in front of them, the file   *)
(* table.json and the share of the log budget each table has.  CreateTable *)
(* takes no lock: the server calls it from its request handlers, the       *)
(* writers of the default table call it on first use, and only the plugin  *)
(* puts a mutex around it.  Tables are opened and closed as a whole here;  *)
(* what happens inside one is in Table.                                    *)
(***************************************************************************)
EXTENDS Integers, Sequences, FiniteSets, SequencesExt, FiniteSetsExt, Functions

CONSTANTS
  Names, Default,   \* table names; DefaultTableName
  Callers,          \* goroutines that create or write
  Slot,             \* the slot of the table cache a name hashes to
  budget,           \* WalConfig.MaxFileSize of the configuration
  MaxTables         \* bound: tables opened in one life of the process

ASSUME DatabaseAssumption ==
  Default \in Names /\ Slot \in [Names -> Nat] /\ {budget, MaxTables} \subseteq Nat \ {0}

VARIABLES
  up,          \* Open has returned a database and the process lives
  tableInfos,  \* the names, in the order of creation
  ssTables,    \* name -> open table; tables are numbered as they are opened
  tableCache,  \* slot -> the name and table last stored there
  share,       \* MaxFileSize of each open table's log
  opened,      \* number of tables opened
  file,        \* table.json: what it holds, and the names if it is whole
  caller,      \* what each caller is doing
  acked,       \* history: the tables whose creation was reported as done
  raced        \* history: two creations have overlapped

vars == <<up, tableInfos, ssTables, tableCache, share, opened, file, caller, acked, raced>>

absent == [state |-> "absent", names |-> <<>>]
truncated == [state |-> "empty", names |-> <<>>]
broken == [state |-> "broken", names |-> <<>>]
Whole(names) == [state |-> "whole", names |-> names]

\* infos: the list as the caller saw it, later the list it will write; obj: its table;
\* use: it came through getTable.
Idle == [pc |-> "idle", name |-> Default, use |-> FALSE, infos |-> <<>>, obj |-> 0, max |-> 0]
Creating == {c \in Callers : caller[c].pc \notin {"idle", "load", "cache"}}

Empty == [x \in {} |-> 0]
Set(f, x, v) == [y \in DOMAIN f \cup {x} |-> IF y = x THEN v ELSE f[y]]

Init ==
  /\ up = FALSE /\ file = absent /\ acked = {} /\ raced = FALSE
  /\ tableInfos = <<>> /\ ssTables = Empty /\ tableCache = Empty /\ share = Empty
  /\ opened = 0 /\ caller = [c \in Callers |-> Idle]

(***************************************************************************)
(* Open, BuildTable and the end of the process                             *)
(***************************************************************************)

\* Slip: a file that does not parse counts as one without tables.
readableAlways(f) == TRUE

\* An empty or broken file is an error of json.Unmarshal; a missing one is not.
readable(f) == f.state \in {"absent", "whole"}

\* Each table's part of the budget.
walShare(n) == IF n > 0 THEN budget \div n ELSE budget

\* A table that cannot be opened makes Open fail, and nothing changes here.  (The tables
\* opened before it stay open in the process: see the README.)
Open ==
  LET names == file.names
      last(n) == Max({i \in DOMAIN names : names[i] = n})
  IN /\ ~up /\ readable(file)
     /\ up' = TRUE
     /\ tableInfos' = names
     /\ ssTables' = [n \in Range(names) |-> last(n)]
     /\ share' = [i \in DOMAIN names |-> walShare(Len(names))]
     /\ opened' = Len(names)
     /\ UNCHANGED <<tableCache, file, caller, acked, raced>>

\* Close, or a crash in the middle of anything: what is left is the file.
Stop ==
  /\ up /\ up' = FALSE
  /\ tableInfos' = <<>> /\ ssTables' = Empty /\ tableCache' = Empty /\ share' = Empty
  /\ opened' = 0 /\ caller' = [c \in Callers |-> Idle]
  /\ UNCHANGED <<file, acked, raced>>

(***************************************************************************)
(* CreateTable                                                             *)
(***************************************************************************)

Do(c, step) == caller' = [caller EXCEPT ![c] = step]

\* The check of the name; a name that is listed is refused (ErrorTableExists), also when
\* its table is still being created or could not be opened.  (Bound: after two creations
\* have overlapped no other begins.)
Check(c, n, use) ==
  /\ up /\ ~raced /\ caller[c].pc = "idle" /\ n \notin Range(tableInfos)
  /\ Do(c, [Idle EXCEPT !.pc = "append", !.name = n, !.use = use, !.infos = tableInfos])
  /\ raced' = (Creating # {})
  /\ UNCHANGED <<up, tableInfos, ssTables, tableCache, share, opened, file, acked>>

\* The share is counted before the table is added.  The slice is read without a lock: when
\* another creation runs, what is read may be old, and its append is lost.
AppendInfo(c) ==
  /\ caller[c].pc = "append"
  /\ \E infos \in {caller[c].infos, tableInfos} :
       /\ tableInfos' = Append(infos, caller[c].name)
       /\ Do(c, [caller[c] EXCEPT !.pc = "open", !.max = walShare(Len(infos))])
  /\ UNCHANGED <<up, ssTables, tableCache, share, opened, file, acked, raced>>

\* mewSSTable; when it fails the name stays listed.
OpenTable(c) ==
  /\ caller[c].pc = "open"
  /\ \/ /\ opened < MaxTables
        /\ opened' = opened + 1
        /\ Do(c, [caller[c] EXCEPT !.pc = "store", !.obj = opened + 1])
     \/ /\ Do(c, Idle) /\ UNCHANGED opened
  /\ UNCHANGED <<up, tableInfos, ssTables, tableCache, share, file, acked, raced>>

\* Slip: only the new table gets the new share.
updateOne(f, tables, obj, max) == Set(f, obj, max)

\* updateWalConfig of every table in the map.
updateWalConfig(f, tables, obj, max) ==
  [x \in DOMAIN f \cup {obj} |-> IF x \in Range(tables) THEN max ELSE f[x]]

StoreTable(c) ==
  LET w == caller[c]
      tables == Set(ssTables, w.name, w.obj)
  IN /\ w.pc = "store"
     /\ ssTables' = tables
     /\ share' = updateWalConfig(share, tables, w.obj, w.max)
     /\ Do(c, [w EXCEPT !.pc = "create"])
     /\ UNCHANGED <<up, tableInfos, tableCache, opened, file, acked, raced>>

\* The list is encoded, then os.Create empties the file; its error ends the call.
CreateFile(c) ==
  /\ caller[c].pc = "create"
  /\ \/ /\ file' = truncated
        /\ Do(c, [caller[c] EXCEPT !.pc = "write", !.infos = tableInfos])
     \/ /\ Do(c, Idle) /\ UNCHANGED file
  /\ UNCHANGED <<up, tableInfos, ssTables, tableCache, share, opened, acked, raced>>

\* What a write from the start of the file leaves: the rest of a longer list that another
\* call wrote meanwhile stays behind it.
Overwritten(f, names) ==
  CASE f.state = "whole" /\ Len(f.names) > Len(names) -> {broken}
    [] f.state = "broken" -> {broken, Whole(names)}
    [] OTHER -> {Whole(names)}

\* One Write; when it fails the file may be empty or cut.
WriteFile(c) ==
  LET w == caller[c] IN
  /\ w.pc = "write"
  /\ \/ /\ file' \in Overwritten(file, w.infos)
        /\ acked' = acked \cup {w.name}
        /\ Do(c, IF w.use THEN [w EXCEPT !.pc = "load"] ELSE Idle)
     \/ /\ file' \in {file, broken}
        /\ Do(c, Idle) /\ UNCHANGED acked
  /\ UNCHANGED <<up, tableInfos, ssTables, tableCache, share, opened, raced>>

(***************************************************************************)
(* getTable                                                                *)
(***************************************************************************)

\* Lookup: the slot is the name's only if it holds the name.
Hit(n) == Slot[n] \in DOMAIN tableCache /\ tableCache[Slot[n]].key = n

\* A name that is not cached is loaded; the default table is created when it is missing.
GetTable(c, n) ==
  /\ up /\ caller[c].pc = "idle" /\ ~Hit(n) /\ n \in DOMAIN ssTables
  /\ Do(c, [Idle EXCEPT !.pc = "cache", !.name = n, !.obj = ssTables[n]])
  /\ UNCHANGED <<up, tableInfos, ssTables, tableCache, share, opened, file, acked, raced>>

EnsureDefaultTable(c) ==
  ~Hit(Default) /\ Default \notin DOMAIN ssTables /\ Check(c, Default, TRUE)

\* Loaded again after it was created.
LoadCreated(c) ==
  /\ caller[c].pc = "load"
  /\ Do(c, [caller[c] EXCEPT !.pc = "cache", !.obj = ssTables[caller[c].name]])
  /\ UNCHANGED <<up, tableInfos, ssTables, tableCache, share, opened, file, acked, raced>>

StoreCache(c) ==
  /\ caller[c].pc = "cache"
  /\ tableCache' = Set(tableCache, Slot[caller[c].name],
                       [key |-> caller[c].name, val |-> caller[c].obj])
  /\ Do(c, Idle)
  /\ UNCHANGED <<up, tableInfos, ssTables, share, opened, file, acked, raced>>

Next ==
  \/ Open \/ Stop
  \/ \E c \in Callers :
       \/ \E n \in Names : Check(c, n, FALSE) \/ GetTable(c, n)
       \/ AppendInfo(c) \/ OpenTable(c) \/ StoreTable(c) \/ CreateFile(c) \/ WriteFile(c)
       \/ EnsureDefaultTable(c) \/ LoadCreated(c) \/ StoreCache(c)

Spec == Init /\ [][Next]_vars

(***************************************************************************)
(* Properties.  They are stated for creations that do not overlap, which   *)
(* nothing but the plugin's mutex ensures: two that do may lose each       *)
(* other's append, open one directory twice and leave a broken file.       *)
(***************************************************************************)

\* Once the creation of a table was reported, by CreateTable or by the first write to the
\* default table, a database that opens serves it, whatever crashed or failed since: a
\* crash or a full disk between os.Create and Write, a table that could not be opened.
\* "Table mappings are permanent once created": the cache never answers with another table
\* than the map.
TablesServed ==
  up /\ ~raced =>
    /\ acked \subseteq DOMAIN ssTables
    /\ \A s \in DOMAIN tableCache : tableCache[s].val = ssTables[tableCache[s].key]

\* No table's log may take more than its part of twice the configured size, so that the
\* logs of all tables together take at most that, through creations, failures and restarts:
\* a new table's share is counted without it, but every table gets it.
WalShare ==
  up /\ ~raced =>
    \A n \in DOMAIN ssTables : share[ssTables[n]] * Cardinality(DOMAIN ssTables) <= 2 * budget
=============================================================================
