------------------------------- MODULE Bigtable -------------------------------
(***************************************************************************)
(* Bigtable: BigtableBackend and the RPC handlers of                       *)
(* services/bigtable/emulator.py, run by the worker threads of the gRPC    *)
(* server without a lock, for one table name, from the creation of the     *)
(* backend by the first RPC.  Every mutation looks the table up again; a   *)
(* reader keeps the rows it found when it began.                           *)
(***************************************************************************)
EXTENDS Integers, Sequences, Functions

CONSTANTS
  BtWorkers, BtRows,
  BtColumns,      \* <<family, qualifier>>
  BtTimes,        \* timestamps of cells, the clock's among them
  BtVals,
  BtMaxMutations, \* bound: mutations of one MutateRow or MutateRows
  BtMaxCalls      \* bound: RPCs

ASSUME BigtableAssumption == BtTimes \subseteq Int

BtFamilies  == {c[1] : c \in BtColumns}
BtMutations ==
       [kind : {"set_cell"}, row : BtRows, col : BtColumns, ts : BtTimes, val : BtVals]
  \union [kind : {"delete_column", "delete_family", "delete_row"}, row : BtRows,
          col : BtColumns]

VARIABLES
  btBackend,      \* BackendDict has a backend for the project
  current,        \* backend.tables[name]: number of a table, or 0
  tables,         \* the tables anybody has created
  bw,             \* what each worker is doing
  btCalls,        \* RPCs so far
  btSerial,       \* ghost: row -> column -> timestamp -> value, by mutations
  btContested     \* ghost: rows two workers were at at one time

btVars == <<btBackend, current, tables, bw, btCalls, btSerial, btContested>>

BtNone == [x \in {} |-> 0]
(* A table that has just been created *)
BtTable == [families |-> {}, rows |-> BtNone]
BtIdle == [pc |-> "idle", left |-> 0, mut |-> BtNone, table |-> 0, todo |-> {},
           listed |-> {}, quiet |-> {}]

BtWith(f, x, v)  == [y \in DOMAIN f \union {x} |-> IF y = x THEN v ELSE f[y]]
BtDrop(f, S)     == [y \in DOMAIN f \ S |-> f[y]]
BtGet(f, x, dft) == IF x \in DOMAIN f THEN f[x] ELSE dft

BigtableInit ==
  /\ btBackend = FALSE /\ current = 0 /\ tables = <<>> /\ btCalls = 0
  /\ bw = [w \in BtWorkers |-> BtIdle]
  /\ btSerial = BtNone /\ btContested = {}

BtWriting(w) == bw[w].pc \in {"find", "change"}
BtWriters(r) == {w \in BtWorkers : BtWriting(w) /\ bw[w].mut.row = r}
BtCalm       == {r \in BtRows : BtWriters(r) = {}}

------------------------------------------------------------------------------
(* BackendDict.__getitem__, which every RPC calls first: check, create,    *)
(* assign.  "race" is a creation with another one at work.                 *)
BtCreators == {w \in BtWorkers : bw[w].pc \in {"first", "race"}}
BtCall(w) ==
  /\ ~btBackend /\ bw[w].pc = "idle"
  /\ btCalls < BtMaxCalls /\ btCalls' = btCalls + 1
  /\ bw' = [v \in BtWorkers |->
       IF v \in BtCreators \union {w}
       THEN [BtIdle EXCEPT !.pc = IF BtCreators = {} THEN "first" ELSE "race"] ELSE bw[v]]
  /\ UNCHANGED <<btBackend, current, tables, btSerial, btContested>>

(* A later creation takes everything from an earlier one: the table, and   *)
(* the backend that calls under way work on.                               *)
BtNewBackend(w) ==
  /\ w \in BtCreators /\ btBackend' = TRUE
  /\ current' = 0 /\ tables' = <<>>
  /\ bw' = [v \in BtWorkers |->
       IF v = w THEN [BtIdle EXCEPT !.pc = "ready"]
       ELSE IF bw[v].pc \in {"idle", "first", "race", "ready"} THEN bw[v]
       ELSE [BtIdle EXCEPT !.pc = "lost"]]
  /\ IF bw[w].pc = "race" THEN btSerial' = BtNone /\ btContested' = {}
                          ELSE UNCHANGED <<btSerial, btContested>>
  /\ UNCHANGED btCalls

(* The rest of a call on a backend nobody will find again *)
BtLost(w) ==
  /\ bw[w].pc = "lost" /\ bw' = [bw EXCEPT ![w] = BtIdle]
  /\ UNCHANGED <<btBackend, current, tables, btCalls, btSerial, btContested>>

BtBegin(w, now) ==
  /\ \/ bw[w].pc = "idle" /\ btBackend /\ btCalls < BtMaxCalls /\ btCalls' = btCalls + 1
     \/ bw[w].pc = "ready" /\ UNCHANGED btCalls
  /\ bw' = [bw EXCEPT ![w] = now]
  /\ UNCHANGED <<btBackend, current, tables, btSerial, btContested>>

BtGo(w, now) ==
  /\ bw' = [bw EXCEPT ![w] = now]
  /\ UNCHANGED <<btBackend, current, tables, btCalls, btSerial, btContested>>

------------------------------------------------------------------------------
(* create_table and delete_table check, then act: the name may have        *)
(* changed hands in between.                                               *)
BtCreate(w) == current = 0 /\ BtBegin(w, [BtIdle EXCEPT !.pc = "create"])
BtDelete(w) == current # 0 /\ BtBegin(w, [BtIdle EXCEPT !.pc = "delete"])

(* The rows are those of another table, or of none, from now on. *)
BtSwap(w, table) ==
  /\ current' = table
  /\ bw' = [v \in BtWorkers |-> IF v = w THEN BtIdle ELSE [bw[v] EXCEPT !.quiet = {}]]
  /\ btSerial' = BtNone
  /\ btContested' = btContested \union (BtRows \ BtCalm)
  /\ UNCHANGED <<btBackend, btCalls>>

BtCreated(w) ==
  /\ bw[w].pc = "create"
  /\ tables' = Append(tables, BtTable)
  /\ BtSwap(w, Len(tables'))

BtDeleted(w) ==
  /\ bw[w].pc = "delete" /\ current # 0
  /\ UNCHANGED tables
  /\ BtSwap(w, 0)

BtDeleteFails(w) == bw[w].pc = "delete" /\ current = 0 /\ BtGo(w, BtIdle)

(* modify_families: rows keep the cells of a family that is dropped, and   *)
(* set_cell never looks here.                                              *)
BtModify(w, add, drop) ==
  /\ current # 0
  /\ \/ bw[w].pc = "idle" /\ btCalls < BtMaxCalls /\ btCalls' = btCalls + 1
     \/ bw[w].pc = "ready" /\ UNCHANGED btCalls
  /\ bw' = [bw EXCEPT ![w] = BtIdle]
  /\ tables' = [tables EXCEPT ![current].families = (@ \union add) \ drop]
  /\ UNCHANGED <<btBackend, current, btSerial, btContested>>

------------------------------------------------------------------------------
(* _mutate_row, _mutate_rows: how many mutations there are in all *)
BtMutate(w) ==
  \E n \in 1..BtMaxMutations : BtBegin(w, [BtIdle EXCEPT !.pc = "next", !.left = n])

BtNext(w, m) ==
  /\ bw[w].pc = "next"
  /\ bw' = [v \in BtWorkers |->
              IF v = w THEN [bw[w] EXCEPT !.pc = "find", !.mut = m, !.left = @ - 1]
                       ELSE [bw[v] EXCEPT !.quiet = @ \ {m.row}]]
  /\ btContested' = btContested \union {r \in {m.row} : BtWriters(r) # {}}
  /\ UNCHANGED <<btBackend, current, tables, btCalls, btSerial>>

(* get_table; without one the RPC fails, and earlier mutations stay. *)
BtFind(w) ==
  /\ bw[w].pc = "find"
  /\ BtGo(w, IF current = 0 THEN BtIdle
             ELSE [bw[w] EXCEPT !.pc = "change", !.table = current])

(* set_cell: replace the cell at this timestamp, or insert one *)
BtUnsorted(column, ts, val) ==                       \* mutant
  IF \E i \in DOMAIN column : column[i][1] = ts
  THEN [i \in DOMAIN column |-> IF column[i][1] = ts THEN <<ts, val>> ELSE column[i]]
  ELSE <<<<ts, val>>>> \o column
(* list.sort(reverse=True); no two cells have one timestamp. *)
BtNewestFirst(cells) ==
  LET place == CHOOSE p \in Bijection(DOMAIN cells, DOMAIN cells) :
                 \A i, j \in DOMAIN cells : i < j => cells[p[i]][1] >= cells[p[j]][1]
  IN [i \in DOMAIN cells |-> cells[place[i]]]
BtSetCell(column, ts, val) ==
  IF \E i \in DOMAIN column : column[i][1] = ts
  THEN [i \in DOMAIN column |-> IF column[i][1] = ts THEN <<ts, val>> ELSE column[i]]
  ELSE BtNewestFirst(<<<<ts, val>>>> \o column)

(* delete_from_column, delete_from_family, delete_row: a row may be left   *)
(* without any column.                                                     *)
BtRemove(rows, m) ==
  LET gone == {c \in BtColumns : IF m.kind = "delete_column" THEN c = m.col
                                 ELSE c[1] = m.col[1]}
  IN IF m.kind = "delete_row" THEN BtDrop(rows, {m.row})
     ELSE [k \in DOMAIN rows |-> IF k = m.row THEN BtDrop(rows[k], gone) ELSE rows[k]]

(* What mutation m makes of the rows; set_cell makes cells of a column.   *)
BtApply(rows, m, cells) ==
  LET r == m.row
  IN IF m.kind = "set_cell"
       THEN BtWith(rows, r, BtWith(BtGet(rows, r, BtNone), m.col, cells))
       ELSE BtRemove(rows, m)
BtColumn(rows, m, none) == BtGet(BtGet(rows, m.row, BtNone), m.col, none)

BtChange(w) ==
  LET m == bw[w].mut
      t == bw[w].table
      column == BtColumn(tables[t].rows, m, <<>>)
      cells  == BtColumn(btSerial, m, BtNone)
  IN /\ bw[w].pc = "change"
     /\ tables' = [tables EXCEPT ![t].rows = BtApply(@, m, BtSetCell(column, m.ts, m.val))]
     /\ btSerial' = IF t = current THEN BtApply(btSerial, m, BtWith(cells, m.ts, m.val))
                                   ELSE btSerial
     /\ bw' = [bw EXCEPT ![w] = IF @.left = 0 THEN BtIdle
                                ELSE [BtIdle EXCEPT !.pc = "next", !.left = bw[w].left]]
     /\ UNCHANGED <<btBackend, current, btCalls, btContested>>

------------------------------------------------------------------------------
(* _read_rows: find the table, list the keys, look each up while streaming *)
BtRead(w) == current # 0
  /\ BtBegin(w, [BtIdle EXCEPT !.pc = "list", !.table = current, !.quiet = BtCalm])

(* _select_keys *)
BtList(w) ==
  /\ bw[w].pc = "list"
  /\ LET keys == DOMAIN tables[bw[w].table].rows
     IN \E some \in SUBSET BtRows :
          BtGo(w, IF keys \intersect some = {} THEN BtIdle
                  ELSE [bw[w] EXCEPT !.pc = "stream", !.todo = keys \intersect some,
                                     !.listed = keys, !.quiet = @ \intersect some])

BtStream(w, r) ==
  /\ bw[w].pc = "stream" /\ r \in bw[w].todo
  /\ r \in DOMAIN tables[bw[w].table].rows
  /\ BtGo(w, IF bw[w].todo = {r} THEN BtIdle ELSE [bw[w] EXCEPT !.todo = @ \ {r}])

(* KeyError for a row deleted since; RuntimeError for one that changes     *)
(* while it is gone through.                                               *)
BtStreamFails(w, r) ==
  /\ bw[w].pc = "stream" /\ r \in bw[w].todo
  /\ r \notin DOMAIN tables[bw[w].table].rows \/ BtWriters(r) # {}
  /\ BtGo(w, BtIdle)

BtWork(w) ==
  \/ BtCall(w) \/ BtNewBackend(w) \/ BtLost(w)
  \/ BtCreate(w) \/ BtCreated(w)
  \/ BtDelete(w) \/ BtDeleted(w) \/ BtDeleteFails(w)
  \/ \E f \in BtFamilies : BtModify(w, {f}, {}) \/ BtModify(w, {}, {f})
  \/ BtMutate(w) \/ BtFind(w) \/ BtChange(w)
  \/ \E m \in BtMutations : BtNext(w, m)
  \/ BtRead(w) \/ BtList(w)
  \/ \E r \in bw[w].todo : BtStream(w, r) \/ BtStreamFails(w, r)

BigtableNext == \E w \in BtWorkers : BtWork(w)

BigtableSpec == BigtableInit /\ [][BigtableNext]_btVars

------------------------------------------------------------------------------
BigtableTypeOK ==
  /\ current \in 0..Len(tables)
  /\ \A t \in DOMAIN tables :
       /\ tables[t].families \subseteq BtFamilies
       /\ DOMAIN tables[t].rows \subseteq BtRows
       /\ \A r \in DOMAIN tables[t].rows : DOMAIN tables[t].rows[r] \subseteq BtColumns
  /\ DOMAIN btSerial \subseteq BtRows /\ btContested \subseteq BtRows
  /\ \A w \in BtWorkers :
       /\ bw[w].pc \in {"idle", "first", "race", "ready", "lost", "create", "delete", "next",
                        "find", "change", "list", "stream"}
       /\ BtWriting(w) => bw[w].mut \in BtMutations
       /\ bw[w].pc \in {"change", "list", "stream"} => bw[w].table \in DOMAIN tables

(* A column as timestamps and values, if its cells are newest first.       *)
BtShows(column, cells) ==
  /\ \A i, j \in DOMAIN column : i < j => column[i][1] > column[j][1]
  /\ {column[i] : i \in DOMAIN column} = {<<ts, cells[ts]>> : ts \in DOMAIN cells}

BtSame(rows, r) ==
  /\ r \in DOMAIN rows <=> r \in DOMAIN btSerial
  /\ r \in DOMAIN rows =>
       /\ DOMAIN rows[r] = DOMAIN btSerial[r]
       /\ \A c \in DOMAIN rows[r] : BtShows(rows[r][c], btSerial[r][c])

(* As long as no two mutations meet at a row and the table is not swapped  *)
(* under one, a row holds what its mutations say, versions newest first    *)
(* and one per timestamp; and a reader lists and streams every row nobody  *)
(* has been at since it began, whatever happens to other rows.  A backend  *)
(* created while another was takes the place of the other with its tables: *)
(* the table is then swapped for none, and its rows are excused.           *)
BigtableIsolated ==
  /\ current # 0 => \A r \in BtCalm \ btContested : BtSame(tables[current].rows, r)
  /\ \A w \in BtWorkers : bw[w].pc = "stream" =>
       \A r \in bw[w].quiet \ btContested :
         /\ r \in bw[w].listed <=> r \in DOMAIN btSerial
         /\ r \in bw[w].todo => BtSame(tables[bw[w].table].rows, r)
==============================================================================
