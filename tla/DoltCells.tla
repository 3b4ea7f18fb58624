------------------------------ MODULE DoltCells ------------------------------
(***************************************************************************)
(* What the storage code relies on from Dolt, the versioned SQL engine     *)
(* that holds every table.  A write transaction reads the snapshot taken   *)
(* when it began; when it commits, its rows are merged, cell by cell, into *)
(* whatever has been committed in the meantime.  The commit is refused     *)
(* (MySQL 1213/1205, which isSerializationError recognises) only when some *)
(* cell was changed on both sides, to different values.  There are no row  *)
(* locks: SELECT ... FOR UPDATE is accepted and does nothing.              *)
(*                                                                         *)
(* Dolt itself is not part of the repository, so these operators are the   *)
(* external contract that internal/storage/issueops/lease.go and           *)
(* engdocs/design/dolt-concurrency.md state.  b is the value in the        *)
(* transaction's snapshot, o its own value at commit, t the committed one. *)
(***************************************************************************)

CONSTANT NoRow      \* the table holds no row under this key

CellConflict(b, o, t) == o # b /\ t # b /\ o # t

CellMerge(b, o, t) == IF o # b THEN o ELSE t

(***************************************************************************)
(* A row merges cell by cell while all three versions of it exist.  Once   *)
(* one side inserted or deleted it, the row is merged as a single cell:    *)
(* delete against modify, and two different inserts of one key, conflict.  *)
(***************************************************************************)
RowConflict(b, o, t) ==
    IF NoRow \in {b, o, t}
    THEN CellConflict(b, o, t)
    ELSE \E c \in DOMAIN b : CellConflict(b[c], o[c], t[c])

RowMerge(b, o, t) ==
    IF NoRow \in {b, o, t}
    THEN CellMerge(b, o, t)
    ELSE [c \in DOMAIN b |-> CellMerge(b[c], o[c], t[c])]

TableConflict(b, o, t) == \E k \in DOMAIN b : RowConflict(b[k], o[k], t[k])

TableMerge(b, o, t) == [k \in DOMAIN b |-> RowMerge(b[k], o[k], t[k])]

=============================================================================
