--------------------------------- MODULE Market ---------------------------------
(***************************************************************************)
(* The marketplace's catalogs (backend/autowright/marketplace.py): a table   *)
(* of rows on disk and in memory, a private copy of each catalog, catalogs   *)
(* written by this app into a folder with the archives they list.  What may  *)
(* block - reading a place, exporting - runs outside the table lock, the     *)
(* rest is one hold of it.  A catalog's contents are where it was read from, *)
(* its edition, and the archives it lists.                                    *)
(***************************************************************************)
EXTENDS Integers, FiniteSets

CONSTANTS Rows,          \* row ids
          Folders,       \* folders a catalog may be written to
          Workers,       \* request threads and the sweeper
          MaxJobs, MaxSlips, MaxChanges   \* bounds

\* No folder is one of the other places, and 0 is no row.
ASSUME MarketAssumption == {"nowhere", "own", "hub"} \cap Folders = {} /\ 0 \notin Rows

VARIABLES rows, table,   \* the rows in memory and in marketplaces.yaml
          copy,          \* row id -> the app's copy, Nothing for none
          place,         \* location -> the catalog there
          job,           \* worker -> what it is doing
          archives,      \* exported archives on disk
          lost,          \* ghost: archives taken back after a failed table write
          garbled,       \* marketplaces.yaml cannot be read
          readOnly,      \* it could not when this session loaded
          unsaved,       \* ghost: the save at load failed
          opened, halting, jobs, slips, changes

marketVars == <<rows, table, copy, place, job, archives, lost, garbled, readOnly,
                unsaved, opened, halting, jobs, slips, changes>>

Hub == "hub"                    \* BUILTIN_CATALOG_URL
Own == "own"                    \* a null location: the copy is the catalog
Places == {Hub} \cup Folders
Nothing == [src |-> "nowhere", edition |-> 0, lists |-> {}]
NoRow == [loc |-> "nowhere", fresh |-> "never", auto |-> FALSE, builtin |-> FALSE]
Resting == [op |-> "rest", row |-> 0, loc |-> "nowhere", todo |-> {}, got |-> {}, arch |-> {}]

Shown(t) == {i \in Rows : t[i] # NoRow}
TakenIn(t, loc, i) == \E k \in Shown(t) \ {i} : t[k].loc = loc
Changeable == opened /\ ~readOnly

MarketInit ==
  /\ rows = [i \in Rows |-> NoRow] /\ table = rows
  /\ copy = [i \in Rows |-> Nothing]
  /\ place = [p \in Places |-> IF p = Hub THEN [src |-> Hub, edition |-> 1, lists |-> {}] ELSE Nothing]
  /\ job = [w \in Workers |-> Resting] /\ archives = {} /\ lost = {}
  /\ garbled = FALSE /\ readOnly = FALSE /\ unsaved = FALSE /\ opened = FALSE /\ halting = FALSE
  /\ jobs = 0 /\ slips = 0 /\ changes = 0

(* The table write that ends every change: done, or failed and rolled back.  *)
Slip == slips < MaxSlips /\ slips' = slips + 1
NoRollback(t) == t
Undone(t) == rows
Saves(t) == rows' = t /\ table' = t /\ UNCHANGED slips
SaveFails(t) == rows' = Undone(t) /\ Slip /\ UNCHANGED table

Begins(w, j) == /\ Changeable /\ job[w] = Resting /\ jobs < MaxJobs
                /\ jobs' = jobs + 1 /\ job' = [job EXCEPT ![w] = j]
Becomes(w, j) == job' = [job EXCEPT ![w] = j]
Rest(w) == Becomes(w, Resting)
Clears(w, i) == Becomes(w, [Resting EXCEPT !.op = "clear", !.row = i])

(***************************************************************************)
(* Add: the catalog is read first, then row and copy land together.         *)
(***************************************************************************)
AddReads(w, loc) ==
  /\ place[loc] # Nothing
  /\ Begins(w, [Resting EXCEPT !.op = "add", !.loc = loc, !.got = {<<0, loc, place[loc]>>}])
  /\ UNCHANGED <<rows, table, copy, place, archives, lost, garbled, readOnly, unsaved,
                 opened, halting, slips, changes>>

AddCommits(w, i) ==
  /\ opened /\ job[w].op = "add" /\ i \notin Shown(rows) /\ copy[i] = Nothing
  /\ IF TakenIn(rows, job[w].loc, 0)
     THEN Rest(w) /\ UNCHANGED <<rows, table, copy, slips>>
     ELSE LET new == [rows EXCEPT ![i] = [NoRow EXCEPT !.loc = job[w].loc, !.fresh = "today"]]
          IN /\ \E g \in job[w].got : copy' = [copy EXCEPT ![i] = g[3]]
             /\ \/ Saves(new) /\ Rest(w)
                \/ SaveFails(new) /\ Clears(w, i)
  /\ UNCHANGED <<place, archives, lost, garbled, readOnly, unsaved, opened, halting, jobs, changes>>

(* The directory of a removed row, or of an add that failed, goes off the lock. *)
ClearEnds(w) ==
  /\ opened /\ job[w].op = "clear"
  /\ copy' = [copy EXCEPT ![job[w].row] = Nothing] /\ Rest(w)
  /\ UNCHANGED <<rows, table, place, archives, lost, garbled, readOnly, unsaved, opened,
                 halting, jobs, slips, changes>>

(***************************************************************************)
(* Refresh: one row, all of them, or the sweeper's due ones.                *)
(***************************************************************************)
Due(i) == rows[i].auto /\ rows[i].loc # Own /\ rows[i].fresh # "today"
Targets(op, i) == CASE op = "one" -> {i} \cap {k \in Shown(rows) : rows[k].loc # Own}
                    [] op = "all" -> {k \in Shown(rows) : rows[k].loc # Own}
                    [] op = "due" -> {k \in Shown(rows) : Due(k)}
RefreshBegins(w, op, i) ==
  /\ Targets(op, i) # {} /\ (op = "due" => ~halting)
  /\ Begins(w, [Resting EXCEPT !.op = op, !.todo = {<<k, rows[k].loc>> : k \in Targets(op, i)}])
  /\ UNCHANGED <<rows, table, copy, place, archives, lost, garbled, readOnly, unsaved, opened,
                 halting, slips, changes>>

(* A place that cannot be read, or that the deadline left out, adds nothing.  *)
FetchOne(w, x, read) ==
  /\ opened /\ x \in job[w].todo
  /\ Becomes(w, [job[w] EXCEPT !.todo = @ \ {x},
                               !.got = IF read /\ place[x[2]] # Nothing
                                       THEN @ \cup {<<x[1], x[2], place[x[2]]>>} ELSE @])
  /\ UNCHANGED <<rows, table, copy, place, archives, lost, garbled, readOnly, unsaved, opened,
                 halting, jobs, slips, changes>>

(* What was read lands only on a row still there and still at that place.    *)
AnyRowStill(g) == rows[g[1]] # NoRow
StillThere(g) == rows[g[1]] # NoRow /\ rows[g[1]].loc = g[2]
RefreshCommits(w) ==
  /\ opened /\ job[w].op \in {"one", "all", "due"} /\ job[w].todo = {}
  /\ LET land == IF job[w].op = "due" /\ halting THEN {} ELSE {g \in job[w].got : StillThere(g)}
         new == [i \in Rows |-> IF \E g \in land : g[1] = i
                                THEN [rows[i] EXCEPT !.fresh = "today"] ELSE rows[i]]
     IN /\ copy' = [i \in Rows |-> IF \E g \in land : g[1] = i
                                   THEN (CHOOSE g \in land : g[1] = i)[3] ELSE copy[i]]
        /\ IF land = {} THEN UNCHANGED <<rows, table, slips>> ELSE Saves(new) \/ SaveFails(new)
  /\ Rest(w)
  /\ UNCHANGED <<place, archives, lost, garbled, readOnly, unsaved, opened, halting, jobs, changes>>

(***************************************************************************)
(* Settings and removal, each one hold of the lock.                         *)
(***************************************************************************)
Moved(r, loc) == IF loc = r.loc THEN r
                 ELSE [r EXCEPT !.loc = loc, !.fresh = "never", !.auto = @ /\ loc # Own]
MaySettle(i, loc) ==
  /\ ~rows[i].builtin /\ (loc # Own => ~TakenIn(rows, loc, i))
  /\ loc = Own => copy[i] # Nothing
Settings(i, loc, auto) ==
  /\ Changeable /\ i \in Shown(rows) /\ changes < MaxChanges /\ changes' = changes + 1
  /\ loc # rows[i].loc => MaySettle(i, loc)
  /\ auto => loc # Own
  /\ LET new == [rows EXCEPT ![i] = [Moved(@, loc) EXCEPT !.auto = auto]]
     IN Saves(new) \/ SaveFails(new)
  /\ UNCHANGED <<copy, place, job, archives, lost, garbled, readOnly, unsaved, opened, halting, jobs>>

RemoveEntry(w, i) ==
  /\ opened /\ i \in Shown(rows) /\ ~rows[i].builtin
  /\ LET new == [rows EXCEPT ![i] = NoRow]
     IN \/ Begins(w, [Resting EXCEPT !.op = "clear", !.row = i]) /\ Saves(new)
        \/ Begins(w, Resting) /\ SaveFails(new)
  /\ UNCHANGED <<copy, place, archives, lost, garbled, readOnly, unsaved, opened, halting, changes>>

(***************************************************************************)
(* Authoring: the archive is exported and written, then the catalog that     *)
(* lists it, then the table.                                                  *)
(***************************************************************************)
Fresh == 1 + Cardinality(archives \cup lost)
Exports(w) ==
  /\ opened /\ job[w].op \in {"save", "create"} /\ job[w].arch = {}
  /\ Becomes(w, [job[w] EXCEPT !.arch = {Fresh}]) /\ archives' = archives \cup {Fresh}
  /\ UNCHANGED <<rows, table, copy, place, lost, garbled, readOnly, unsaved, opened, halting,
                 jobs, slips, changes>>

CatalogSaveBegins(w, i) ==
  /\ i \in Shown(rows) /\ rows[i].loc # Hub
  /\ Begins(w, [Resting EXCEPT !.op = "save", !.row = i, !.loc = rows[i].loc])
  /\ UNCHANGED <<rows, table, copy, place, archives, lost, garbled, readOnly, unsaved, opened,
                 halting, slips, changes>>

Written(w) == [src |-> job[w].loc, edition |-> Fresh, lists |-> job[w].arch]
Puts(w, i) ==
  /\ copy' = [copy EXCEPT ![i] = Written(w)]
  /\ place' = IF job[w].loc = Own THEN place ELSE [place EXCEPT ![job[w].loc] = Written(w)]

SaveCommits(w) ==
  /\ opened /\ job[w].op = "save" /\ job[w].arch # {}
  /\ LET i == job[w].row
         new == [rows EXCEPT ![i].fresh = IF rows[i].loc = Own THEN @ ELSE "today"]
     IN IF rows[i] # NoRow /\ rows[i].loc = job[w].loc
        THEN /\ Puts(w, i)
             /\ \/ Saves(new) /\ UNCHANGED <<archives, lost>>
                \/ /\ SaveFails(new)
                   /\ archives' = archives \ job[w].arch /\ lost' = lost \cup job[w].arch
        ELSE /\ archives' = archives \ job[w].arch
             /\ UNCHANGED <<rows, table, copy, place, lost, slips>>
  /\ Rest(w)
  /\ UNCHANGED <<garbled, readOnly, unsaved, opened, halting, jobs, changes>>

ChecksOnce(loc) == TRUE
FolderFree(loc) == loc # Own => (place[loc] = Nothing /\ ~TakenIn(rows, loc, 0))
CreateBegins(w, loc) ==
  /\ loc # Own => (place[loc] = Nothing /\ ~TakenIn(rows, loc, 0))
  /\ Begins(w, [Resting EXCEPT !.op = "create", !.loc = loc])
  /\ UNCHANGED <<rows, table, copy, place, archives, lost, garbled, readOnly, unsaved, opened,
                 halting, slips, changes>>

(* Refused under the lock, or undone whole: the catalog and its archive go.  *)
CreateCommits(w, i) ==
  /\ opened /\ job[w].op = "create" /\ job[w].arch # {}
  /\ i \notin Shown(rows) /\ copy[i] = Nothing
  /\ LET new == [rows EXCEPT ![i] = [NoRow EXCEPT !.loc = job[w].loc,
                                                  !.fresh = IF job[w].loc = Own THEN "never" ELSE "today"]]
         free == FolderFree(job[w].loc)
     IN \/ /\ free /\ Puts(w, i) /\ Saves(new) /\ Rest(w)
           /\ UNCHANGED archives
        \/ /\ free /\ SaveFails(new) /\ Rest(w)
           /\ archives' = archives \ job[w].arch /\ UNCHANGED <<copy, place>>
        \/ /\ ~free /\ Rest(w)
           /\ archives' = archives \ job[w].arch /\ UNCHANGED <<rows, table, copy, place, slips>>
  /\ UNCHANGED <<lost, garbled, readOnly, unsaved, opened, halting, jobs, changes>>

(***************************************************************************)
(* Load, shutdown, and what happens outside.                                *)
(***************************************************************************)
(* A clean load leaves one built-in row; a row at its link is promoted.      *)
Seeded(t) ==
  {IF \E i \in Shown(t) : t[i].builtin THEN t
   ELSE IF TakenIn(t, Hub, 0)
        THEN [i \in Rows |-> IF t[i].loc = Hub THEN [t[i] EXCEPT !.builtin = TRUE] ELSE t[i]]
        ELSE [t EXCEPT ![k] = [NoRow EXCEPT !.loc = Hub, !.auto = TRUE, !.builtin = TRUE]]
   : k \in {k \in Rows \ Shown(t) : copy[k] = Nothing}}
SweepsBlindly(t) == IF garbled THEN {} ELSE Shown(t)
CopiesSpared(t) == IF garbled THEN Rows ELSE Shown(t)
Loads(t) ==
  /\ ~opened /\ opened' = TRUE /\ halting' = FALSE /\ readOnly' = garbled
  /\ IF garbled THEN rows' = [i \in Rows |-> NoRow] /\ UNCHANGED <<table, unsaved, slips>>
     ELSE /\ t \in Seeded(table) /\ rows' = t
          /\ \/ table' = t /\ unsaved' = FALSE /\ UNCHANGED slips
             \/ t # table /\ Slip /\ unsaved' = TRUE /\ UNCHANGED table
  /\ copy' = [i \in Rows |-> IF i \in CopiesSpared(t) THEN copy[i] ELSE Nothing]
  /\ UNCHANGED <<place, job, archives, lost, garbled, jobs, changes>>

StopsSweeping == /\ opened /\ ~halting /\ halting' = TRUE
                 /\ UNCHANGED <<rows, table, copy, place, job, archives, lost, garbled, readOnly,
                                unsaved, opened, jobs, slips, changes>>
Crashes == /\ opened /\ Slip /\ opened' = FALSE
           /\ job' = [w \in Workers |-> Resting]
           /\ UNCHANGED <<rows, table, copy, place, archives, lost, garbled, readOnly, unsaved,
                          halting, jobs, changes>>
Garbles == /\ ~opened /\ changes < MaxChanges /\ changes' = changes + 1 /\ garbled' = ~garbled
           /\ UNCHANGED <<rows, table, copy, place, job, archives, lost, readOnly, unsaved, opened,
                          halting, jobs, slips>>
(* The dates grow old; those of a table nobody can read stay as they are.    *)
DayPasses == /\ \E i \in Shown(rows) : rows[i].fresh = "today"
             /\ ~unsaved /\ rows = table /\ ~garbled
             /\ rows' = [i \in Rows |-> IF rows[i].fresh = "today" THEN [rows[i] EXCEPT !.fresh = "old"]
                                        ELSE rows[i]]
             /\ table' = rows' /\ changes < MaxChanges /\ changes' = changes + 1
             /\ UNCHANGED <<copy, place, job, archives, lost, garbled, readOnly, unsaved, opened,
                            halting, jobs, slips>>

MarketNext ==
  \/ StopsSweeping \/ Crashes \/ Garbles \/ DayPasses
  \/ IF garbled THEN Loads(table) ELSE \E t \in Seeded(table) : Loads(t)
  \/ \E w \in Workers :
       \/ ClearEnds(w) \/ RefreshCommits(w) \/ Exports(w) \/ SaveCommits(w)
       \/ \E loc \in Places : AddReads(w, loc)
       \/ \E loc \in Folders \cup {Own} : CreateBegins(w, loc)
       \/ \E x \in job[w].todo, b \in BOOLEAN : FetchOne(w, x, b)
       \/ \E i \in Rows : \/ AddCommits(w, i) \/ RemoveEntry(w, i) \/ CatalogSaveBegins(w, i) \/ CreateCommits(w, i)
                          \/ \E op \in {"one", "all", "due"} : RefreshBegins(w, op, i)
  \/ \E i \in Rows, loc \in Places \cup {Own}, auto \in BOOLEAN : Settings(i, loc, auto)

MarketSpec == MarketInit /\ [][MarketNext]_marketVars

MarketTypeOK ==
  /\ \A i \in Rows : rows[i].loc \in Places \cup {Own, "nowhere"}
                     /\ rows[i].fresh \in {"never", "today", "old"}
  /\ \A i \in Rows : copy[i].src \in Places \cup {Own, "nowhere"}

(* A row said to have been read shows a copy of its own place, whatever was   *)
(* moved, removed or read meanwhile (marketplace.py:1270-1309).                *)
ReadMeansItsOwnPlace ==
  \A i \in Shown(rows) : rows[i].fresh # "never" => copy[i].src = rows[i].loc

(* The page never shows a table the next launch would not have, no two rows   *)
(* share a place, and one row is the built-in (marketplace.py:858-889,         *)
(* 1312-1388).                                                                 *)
TableIsShown ==
  opened /\ ~readOnly =>
    /\ ~unsaved => rows = table
    /\ \A i, k \in Shown(rows) : (rows[i].loc = rows[k].loc /\ rows[i].loc # Own) => i = k
    /\ Cardinality({i \in Shown(rows) : rows[i].builtin}) = 1

(* A table that cannot be read costs nothing: neither it nor a copy it names   *)
(* is written over or swept until somebody repairs it (marketplace.py:830-878). *)
GarbledLosesNothing ==
  garbled => table' = table /\ \A i \in Shown(table) : copy[i] # Nothing => copy'[i] = copy[i]

(* Nothing a save wrote survives its failure: a catalog lists only archives   *)
(* that are there (marketplace.py:1459-1469, 1613-1624).                       *)
ListedArchivesExist ==
  \A p \in Places : place[p].lists \subseteq archives
================================================================================
