-------------------------- MODULE BlockedOpsProofs --------------------------
(***************************************************************************)
(* What marking, recomputing and merging do to the tables of Blocked.  The *)
(* first lemmas hold of all tables: a recomputation writes flags only, and *)
(* a merge brings a child or a close only where one side did.              *)
(*                                                                         *)
(* The others are about the flags, on the graphs Tidy describes: there two *)
(* passes flag what is due, and what a write takes away or adds can leave  *)
(* only a flag that the writer rechecks (Lessens), or none (Enlarges).     *)
(***************************************************************************)
EXTENDS BlockedOps, TLAPS

IsChildRow(r) == r # NoRow /\ r.type = "parent-child"

IsClosedRow(r) == r # NoRow /\ r.status = "closed"

(* Outside the coordination cells in stamps, ours adds no child and closes nothing. *)
NoNews(base, ours, stamps) ==
    \A p \in Issue : <<p, "children">> \notin stamps =>
        /\ \A c \in Issue : IsChildRow(ours.dependencies[<<c, p>>]) => IsChildRow(base.dependencies[<<c, p>>])
        /\ IsClosedRow(ours.issues[p]) => IsClosedRow(base.issues[p])

-----------------------------------------------------------------------------
(* Children and closed issues, row by row. *)
LEMMA ByRows ==
    ASSUME NEW d, NEW p \in Issue
    PROVE  /\ \A c : c \in Children(d, {p}) <=> c \in Issue /\ IsChildRow(d.dependencies[<<c, p>>])
           /\ p \in Closed(d) <=> IsClosedRow(d.issues[p])
  BY DEF Children, Sources, Has, Closed, Live, IsChildRow, IsClosedRow

(***************************************************************************)
(* A cell that ours did not bring to the value v has it after the merge    *)
(* only if it was committed with it.                                       *)
(***************************************************************************)
LEMMA MergedCell ==
    ASSUME NEW b, NEW o, NEW t, NEW f, NEW v, ~RowConflict(b, o, t),
           b # NoRow => f \in DOMAIN b,
           o # NoRow /\ o[f] = v => b # NoRow /\ b[f] = v,
           RowMerge(b, o, t) # NoRow, RowMerge(b, o, t)[f] = v
    PROVE  t # NoRow /\ t[f] = v
<1>1. CASE NoRow \in {b, o, t}
  <2>1. RowMerge(b, o, t) = (IF o # b THEN o ELSE t) /\ ~(o # b /\ t # b /\ o # t)
    BY <1>1 DEF RowMerge, RowConflict, CellMerge, CellConflict
  <2> QED BY <1>1, <2>1
<1>2. CASE NoRow \notin {b, o, t}
  <2>1. RowMerge(b, o, t)[f] = IF o[f] # b[f] THEN o[f] ELSE t[f]
    BY <1>2 DEF RowMerge, CellMerge
  <2> QED BY <1>2, <2>1
<1> QED BY <1>1, <1>2

(* Rows of a table merge to rows of it. *)
LEMMA MergedIssueType ==
    ASSUME NEW b \in IssueRow \cup {NoRow}, NEW o \in IssueRow \cup {NoRow},
           NEW t \in IssueRow \cup {NoRow}
    PROVE  RowMerge(b, o, t) \in IssueRow \cup {NoRow}
<1>1. CASE NoRow \in {b, o, t}
  BY <1>1 DEF RowMerge, CellMerge
<1>2. CASE NoRow \notin {b, o, t}
  <2>1. b \in IssueRow /\ o \in IssueRow /\ t \in IssueRow
    BY <1>2
  <2>2. RowMerge(b, o, t) = [c \in {"status", "is_blocked"} |-> CellMerge(b[c], o[c], t[c])]
    BY <1>2, <2>1 DEF RowMerge, IssueRow
  <2>3. /\ CellMerge(b["status"], o["status"], t["status"]) \in {"open", "closed", "pinned"}
        /\ CellMerge(b["is_blocked"], o["is_blocked"], t["is_blocked"]) \in BOOLEAN
    BY <2>1 DEF CellMerge, IssueRow
  <2> QED BY <2>2, <2>3 DEF IssueRow
<1> QED BY <1>1, <1>2

LEMMA MergedDepType ==
    ASSUME NEW b \in DepRow \cup {NoRow}, NEW o \in DepRow \cup {NoRow},
           NEW t \in DepRow \cup {NoRow}
    PROVE  RowMerge(b, o, t) \in DepRow \cup {NoRow}
<1>1. CASE NoRow \in {b, o, t}
  BY <1>1 DEF RowMerge, CellMerge
<1>2. CASE NoRow \notin {b, o, t}
  <2>1. b \in DepRow /\ o \in DepRow /\ t \in DepRow
    BY <1>2
  <2>2. RowMerge(b, o, t) = [c \in {"type", "any", "also_blocks"} |-> CellMerge(b[c], o[c], t[c])]
    BY <1>2, <2>1 DEF RowMerge, DepRow
  <2>3. /\ CellMerge(b["type"], o["type"], t["type"]) \in {"blocks", "parent-child", "waits-for"}
        /\ CellMerge(b["any"], o["any"], t["any"]) \in BOOLEAN
        /\ CellMerge(b["also_blocks"], o["also_blocks"], t["also_blocks"]) \in BOOLEAN
    BY <2>1 DEF CellMerge, DepRow
  <2> QED BY <2>2, <2>3 DEF DepRow
<1> QED BY <1>1, <1>2

(* Tables that merge without conflict keep their types. *)
LEMMA MergedDB ==
    ASSUME NEW base \in DB, NEW ours \in DB, NEW d \in DB, NEW m,
           m = [issues |-> TableMerge(base.issues, ours.issues, d.issues),
                dependencies |-> TableMerge(base.dependencies, ours.dependencies, d.dependencies)]
    PROVE  /\ m \in DB
           /\ \A i \in Issue : m.issues[i] = RowMerge(base.issues[i], ours.issues[i], d.issues[i])
           /\ \A i, j \in Issue : m.dependencies[<<i, j>>] =
                 RowMerge(base.dependencies[<<i, j>>], ours.dependencies[<<i, j>>], d.dependencies[<<i, j>>])
<1>1. /\ base.issues \in [Issue -> IssueRow \cup {NoRow}] /\ ours.issues \in [Issue -> IssueRow \cup {NoRow}]
      /\ d.issues \in [Issue -> IssueRow \cup {NoRow}]
      /\ base.dependencies \in [Issue \X Issue -> DepRow \cup {NoRow}]
      /\ ours.dependencies \in [Issue \X Issue -> DepRow \cup {NoRow}]
      /\ d.dependencies \in [Issue \X Issue -> DepRow \cup {NoRow}]
  BY DEF DB
<1>2. /\ m.issues = [i \in Issue |-> RowMerge(base.issues[i], ours.issues[i], d.issues[i])]
      /\ m.dependencies = [k \in Issue \X Issue |->
             RowMerge(base.dependencies[k], ours.dependencies[k], d.dependencies[k])]
  BY <1>1 DEF TableMerge
<1>3. m.issues \in [Issue -> IssueRow \cup {NoRow}]
  <2>1. \A i \in Issue : RowMerge(base.issues[i], ours.issues[i], d.issues[i]) \in IssueRow \cup {NoRow}
    BY <1>1, MergedIssueType, Zenon
  <2> QED BY ONLY <1>2, <2>1
<1>4. m.dependencies \in [Issue \X Issue -> DepRow \cup {NoRow}]
  <2>1. \A k \in Issue \X Issue :
          RowMerge(base.dependencies[k], ours.dependencies[k], d.dependencies[k]) \in DepRow \cup {NoRow}
    BY <1>1, MergedDepType, Zenon
  <2> QED BY ONLY <1>2, <2>1
<1>5. m \in DB
  BY <1>3, <1>4 DEF DB
<1>6. \A i \in Issue : m.issues[i] = RowMerge(base.issues[i], ours.issues[i], d.issues[i])
  BY <1>2
<1>7. ASSUME NEW i \in Issue, NEW j \in Issue
      PROVE  m.dependencies[<<i, j>>] =
               RowMerge(base.dependencies[<<i, j>>], ours.dependencies[<<i, j>>], d.dependencies[<<i, j>>])
  <2>1. <<i, j>> \in Issue \X Issue
    OBVIOUS
  <2> QED BY <1>2, <2>1
<1> QED BY <1>5, <1>6, <1>7

(* A merge without conflict gives p a child, or closes it, only if ours did. *)
LEMMA MergeBringsNoNews ==
    ASSUME NEW base \in DB, NEW ours \in DB, NEW d \in DB, NEW m, NEW stamps,
           m = [issues |-> TableMerge(base.issues, ours.issues, d.issues),
                dependencies |-> TableMerge(base.dependencies, ours.dependencies, d.dependencies)],
           ~TableConflict(base.issues, ours.issues, d.issues),
           ~TableConflict(base.dependencies, ours.dependencies, d.dependencies),
           NoNews(base, ours, stamps), NEW p \in Issue, <<p, "children">> \notin stamps
    PROVE  /\ Children(m, {p}) \subseteq Children(d, {p})
           /\ p \in Closed(m) => p \in Closed(d)
<1>1. /\ \A i \in Issue : m.issues[i] = RowMerge(base.issues[i], ours.issues[i], d.issues[i])
      /\ \A i, j \in Issue : m.dependencies[<<i, j>>] =
            RowMerge(base.dependencies[<<i, j>>], ours.dependencies[<<i, j>>], d.dependencies[<<i, j>>])
  BY MergedDB
<1>2. /\ DOMAIN base.issues = Issue /\ DOMAIN base.dependencies = Issue \X Issue
      /\ \A i \in Issue : base.issues[i] # NoRow => "status" \in DOMAIN base.issues[i]
      /\ \A i, j \in Issue : base.dependencies[<<i, j>>] # NoRow => "type" \in DOMAIN base.dependencies[<<i, j>>]
  <2>1. /\ base.issues \in [Issue -> IssueRow \cup {NoRow}]
        /\ base.dependencies \in [Issue \X Issue -> DepRow \cup {NoRow}]
    BY DEF DB
  <2>2. ASSUME NEW i \in Issue, NEW j \in Issue, base.dependencies[<<i, j>>] # NoRow
        PROVE  "type" \in DOMAIN base.dependencies[<<i, j>>]
    <3>1. base.dependencies[<<i, j>>] \in DepRow
      BY <2>1, <2>2
    <3> QED BY <3>1 DEF DepRow
  <2>3. ASSUME NEW i \in Issue, base.issues[i] # NoRow
        PROVE  "status" \in DOMAIN base.issues[i]
    <3>1. base.issues[i] \in IssueRow
      BY <2>1, <2>3
    <3> QED BY <3>1 DEF IssueRow
  <2> QED BY <2>1, <2>2, <2>3
<1>3. ASSUME NEW c \in Issue, IsChildRow(m.dependencies[<<c, p>>]) PROVE IsChildRow(d.dependencies[<<c, p>>])
  <2> DEFINE b == base.dependencies[<<c, p>>]
             o == ours.dependencies[<<c, p>>]
             t == d.dependencies[<<c, p>>]
  <2>1. ~RowConflict(b, o, t)
    BY <1>2 DEF TableConflict
  <2>2. b # NoRow => "type" \in DOMAIN b
    BY <1>2
  <2>3. o # NoRow /\ o["type"] = "parent-child" => b # NoRow /\ b["type"] = "parent-child"
    BY DEF NoNews, IsChildRow
  <2>4. RowMerge(b, o, t) # NoRow /\ RowMerge(b, o, t)["type"] = "parent-child"
    BY <1>1, <1>3 DEF IsChildRow
  <2> HIDE DEF b, o, t
  <2>5. t # NoRow /\ t["type"] = "parent-child"
    BY <2>1, <2>2, <2>3, <2>4, MergedCell
  <2> QED BY <2>5 DEF IsChildRow, t
<1>4. ASSUME IsClosedRow(m.issues[p]) PROVE IsClosedRow(d.issues[p])
  <2> DEFINE b == base.issues[p]
             o == ours.issues[p]
             t == d.issues[p]
  <2>1. ~RowConflict(b, o, t)
    BY <1>2 DEF TableConflict
  <2>2. b # NoRow => "status" \in DOMAIN b
    BY <1>2
  <2>3. o # NoRow /\ o["status"] = "closed" => b # NoRow /\ b["status"] = "closed"
    BY DEF NoNews, IsClosedRow
  <2>4. RowMerge(b, o, t) # NoRow /\ RowMerge(b, o, t)["status"] = "closed"
    BY <1>1, <1>4 DEF IsClosedRow
  <2> HIDE DEF b, o, t
  <2>5. t # NoRow /\ t["status"] = "closed"
    BY <2>1, <2>2, <2>3, <2>4, MergedCell
  <2> QED BY <2>5 DEF IsClosedRow, t
<1> QED BY <1>3, <1>4, ByRows, Zenon

-----------------------------------------------------------------------------
(* A flag can be written into any row. *)
LEMMA FlaggedRow ==
    ASSUME NEW r \in IssueRow, NEW b \in BOOLEAN
    PROVE  /\ [r EXCEPT !.is_blocked = b] \in IssueRow
           /\ [r EXCEPT !.is_blocked = b].status = r.status
  BY DEF IssueRow

(* A recomputation writes the flags and nothing else. *)
LEMMA FlagsOnly ==
    ASSUME NEW d \in DB, NEW X
    PROVE  /\ WithFlags(d, X) \in DB /\ WithFlags(d, X).dependencies = d.dependencies
           /\ \A i \in Issue : IsClosedRow(WithFlags(d, X).issues[i]) => IsClosedRow(d.issues[i])
<1> DEFINE flagged(i) == [d.issues[i] EXCEPT !.is_blocked = i \in X]
           table == [i \in Issue |-> IF d.issues[i] = NoRow THEN NoRow ELSE flagged(i)]
<1>1. /\ d.issues \in [Issue -> IssueRow \cup {NoRow}]
      /\ d.dependencies \in [Issue \X Issue -> DepRow \cup {NoRow}]
      /\ d = [issues |-> d.issues, dependencies |-> d.dependencies]
  BY DEF DB
<1>2. ASSUME NEW i \in Issue, d.issues[i] # NoRow
      PROVE  flagged(i) \in IssueRow /\ flagged(i).status = d.issues[i].status
  <2>1. d.issues[i] \in IssueRow
    BY <1>1, <1>2
  <2>2. PICK b \in BOOLEAN : flagged(i) = [d.issues[i] EXCEPT !.is_blocked = b]
    <3>1. (i \in X) = TRUE \/ (i \in X) = FALSE
      OBVIOUS
    <3>2. ASSUME NEW b \in BOOLEAN, (i \in X) = b PROVE flagged(i) = [d.issues[i] EXCEPT !.is_blocked = b]
      BY <3>2
    <3> QED BY <3>1, <3>2, Zenon
  <2> QED BY <2>1, <2>2, FlaggedRow
<1>3. WithFlags(d, X).issues = table /\ WithFlags(d, X).dependencies = d.dependencies
      /\ WithFlags(d, X) = [issues |-> table, dependencies |-> d.dependencies]
  BY <1>1 DEF WithFlags, DB
<1> HIDE DEF flagged
<1>4. table \in [Issue -> IssueRow \cup {NoRow}]
  BY <1>2
<1>5. \A i \in Issue : IsClosedRow(table[i]) => IsClosedRow(d.issues[i])
  BY <1>2 DEF IsClosedRow
<1> HIDE DEF table
<1>6. WithFlags(d, X) \in DB
  BY <1>1, <1>3, <1>4 DEF DB
<1> QED BY <1>3, <1>5, <1>6

LEMMA RecomputeFlagsOnly ==
    ASSUME NEW d \in DB, NEW ids
    PROVE  /\ RecomputeIsBlocked(d, ids) \in DB
           /\ RecomputeIsBlocked(d, ids).dependencies = d.dependencies
           /\ \A i \in Issue : IsClosedRow(RecomputeIsBlocked(d, ids).issues[i]) => IsClosedRow(d.issues[i])
  BY FlagsOnly DEF RecomputeIsBlocked

LEMMA MarkFlagsOnly ==
    ASSUME NEW d \in DB, NEW ids
    PROVE  /\ MarkIsBlocked(d, ids) \in DB
           /\ MarkIsBlocked(d, ids).dependencies = d.dependencies
           /\ \A i \in Issue : IsClosedRow(MarkIsBlocked(d, ids).issues[i]) => IsClosedRow(d.issues[i])
  BY FlagsOnly DEF MarkIsBlocked

LEMMA AffectedTypes ==
    ASSUME NEW d, NEW i, NEW j, NEW type
    PROVE  /\ AffectedByStatusChange(d, i) \subseteq Issue
           /\ AffectedByDepChange(d, i, j, type) \subseteq Issue
           /\ AffectedByDeletion(d, i) \subseteq Issue
<1>1. ASSUME NEW seed, NEW skip PROVE expandByParentChildDescendants(d, seed, skip) \subseteq Issue
  BY DEF expandByParentChildDescendants
<1> QED BY <1>1 DEF AffectedByStatusChange, AffectedByDepChange, AffectedByDeletion

-----------------------------------------------------------------------------
(* Every row that the dependencies table can hold in scenario z. *)
Declared(z) ==
    z.edges \cup {[from |-> p[1], to |-> p[2], row |-> z.db.dependencies[p]] :
                    p \in {q \in Issue \X Issue : z.db.dependencies[q] # NoRow}}

(* i may one day have a reason, or a parent. *)
HasRow(z, i) == \E e \in Declared(z) : e.from = i

IsChildEdge(e) == e.row.type = "parent-child"

(***************************************************************************)
(* Graphs on which the rechecks suffice.  No row points to its own issue,  *)
(* and none changes when it is added again.  Gates wait for all children.  *)
(* Parents have no parents.  A parent that can be blocked, and so has a    *)
(* row of its own, has the children it starts with: none is added, none    *)
(* has another row, and none is what the parent waits for.  No issue       *)
(* starts flagged that has no row.                                         *)
(***************************************************************************)
Tidy(z) ==
    /\ \A e, f \in Declared(z) : e.from = f.from /\ e.to = f.to => e.row = f.row
    /\ \A e \in Declared(z) : e.from # e.to /\ (e.row.type = "waits-for" => ~e.row.any)
    /\ \A e, f \in Declared(z) : IsChildEdge(e) /\ f.from = e.to =>
        /\ ~IsChildEdge(f) /\ f.to # e.from /\ e \notin z.edges
        /\ \A g \in Declared(z) : g.from = e.from => g.to = e.to
    /\ \A i \in Flags(z.db) : HasRow(z, i)

(* Tables of such a graph: no row but the declared ones, and no flag without one. *)
TidyDB(z, d) ==
    /\ d \in DB
    /\ \A i, j \in Issue : d.dependencies[<<i, j>>] # NoRow =>
            \E e \in Declared(z) : e.from = i /\ e.to = j /\ e.row = d.dependencies[<<i, j>>]
    /\ \A i \in Flags(d) : HasRow(z, i)

(* What a pass would flag, given the flags there are. *)
Due(d) == {i \in Active(d) : reasons(d, i) # {} \/ Parents(d, {i}) \cap Flags(d) # {}}

Rows(d) == {p \in Issue \X Issue : d.dependencies[p] # NoRow}

(* e came out of d by taking activity, rows and flags away. *)
Shrunk(d, e) == Rows(e) \subseteq Rows(d) /\ Active(e) \subseteq Active(d) /\ Flags(e) \subseteq Flags(d)

(* With a parent that can be blocked, ids holds its children. *)
Covers(z, ids, d) == \A p \in ids : HasRow(z, p) => Children(d, {p}) \subseteq ids

(* No child was added under such a parent. *)
SameFamilies(z, d, e) == \A p \in Issue : HasRow(z, p) => Children(e, {p}) \subseteq Children(d, {p})

(* A declared row from i to j, by its type; and a gate that also blocks. *)
Typed(z, i, j, type) == \E e \in Declared(z) : e.from = i /\ e.to = j /\ e.row.type = type

AlsoBlocks(z, i, j) == \E e \in Declared(z) : e.from = i /\ e.to = j /\ e.row.also_blocks

(* reasons, and Due, from the rows, the active issues and the flags alone. *)
Reason(z, R, A, i) ==
    \E j \in Issue : <<i, j>> \in R /\
        \/ Typed(z, i, j, "blocks") /\ j \in A
        \/ Typed(z, i, j, "waits-for") /\ AlsoBlocks(z, i, j) /\ j \in A
        \/ Typed(z, i, j, "waits-for") /\
           \E c \in Issue : <<c, j>> \in R /\ Typed(z, c, j, "parent-child") /\ c \in A

Inherited(z, R, F, i) == \E p \in Issue : <<i, p>> \in R /\ Typed(z, i, p, "parent-child") /\ p \in F

(* What Tidy says of the declared rows. *)
LEMMA TidyTypes ==
    ASSUME NEW z, Tidy(z), NEW i, NEW j, NEW type, Typed(z, i, j, type)
    PROVE  /\ HasRow(z, i) /\ i # j
           /\ \A t : Typed(z, i, j, t) => t = type
           /\ type = "parent-child" => \A k : ~Typed(z, j, k, "parent-child")
           /\ type = "parent-child" /\ HasRow(z, j) => \A k, t : Typed(z, i, k, t) => k = j /\ t = type
  BY DEF Tidy, Typed, HasRow, IsChildEdge

LEMMA NoRowToChild ==
    ASSUME NEW z, Tidy(z), NEW c, NEW p, NEW type, Typed(z, c, p, "parent-child"), Typed(z, p, c, type)
    PROVE  FALSE
  BY DEF Tidy, Typed, IsChildEdge

(* TidyDB, and Tidy's first clause, one row or flag at a time. *)
LEMMA RowIsDeclared ==
    ASSUME NEW z, NEW d, TidyDB(z, d), NEW i \in Issue, NEW j \in Issue, d.dependencies[<<i, j>>] # NoRow
    PROVE  \E e \in Declared(z) : e.from = i /\ e.to = j /\ e.row = d.dependencies[<<i, j>>]
  BY Zenon DEF TidyDB

LEMMA FlagHasRow ==
    ASSUME NEW z, NEW d, TidyDB(z, d), NEW i \in Flags(d)
    PROVE  HasRow(z, i)
  BY Zenon DEF TidyDB

(* Rows and flags that were there before. *)
LEMMA StaysTidy ==
    ASSUME NEW z, NEW b, TidyDB(z, b), NEW d \in DB, Flags(d) \subseteq Flags(b),
           \A i, j \in Issue : d.dependencies[<<i, j>>] \in {b.dependencies[<<i, j>>], NoRow}
    PROVE  TidyDB(z, d)
  BY RowIsDeclared, FlagHasRow DEF TidyDB

LEMMA OneRow ==
    ASSUME NEW z, Tidy(z), NEW d, TidyDB(z, d), NEW e, TidyDB(z, e), NEW i \in Issue, NEW j \in Issue,
           d.dependencies[<<i, j>>] # NoRow, e.dependencies[<<i, j>>] # NoRow
    PROVE  d.dependencies[<<i, j>>] = e.dependencies[<<i, j>>]
<1>1. PICK g \in Declared(z) : g.from = i /\ g.to = j /\ g.row = d.dependencies[<<i, j>>]
  BY RowIsDeclared
<1>2. PICK h \in Declared(z) : h.from = i /\ h.to = j /\ h.row = e.dependencies[<<i, j>>]
  BY RowIsDeclared
<1> QED BY <1>1, <1>2 DEF Tidy

(* A row of the tables is the declared one. *)
LEMMA RowByType ==
    ASSUME NEW z, Tidy(z), NEW d, TidyDB(z, d), NEW i \in Issue, NEW j \in Issue
    PROVE  /\ <<i, j>> \in Rows(d) <=> d.dependencies[<<i, j>>] # NoRow
           /\ \A type : Has(d, i, j, type) <=> <<i, j>> \in Rows(d) /\ Typed(z, i, j, type)
           /\ <<i, j>> \in Rows(d) => \E type : Typed(z, i, j, type)
           /\ <<i, j>> \in Rows(d) =>
                 (d.dependencies[<<i, j>>].also_blocks <=> AlsoBlocks(z, i, j))
           /\ Has(d, i, j, "waits-for") => ~d.dependencies[<<i, j>>].any
<1>1. <<i, j>> \in Rows(d) <=> d.dependencies[<<i, j>>] # NoRow
  BY DEF Rows
<1>2. CASE <<i, j>> \in Rows(d)
  <2>1. PICK e \in Declared(z) : e.from = i /\ e.to = j /\ e.row = d.dependencies[<<i, j>>]
    BY <1>1, <1>2, RowIsDeclared
  <2>2. \A f \in Declared(z) : f.from = i /\ f.to = j => f.row = e.row
    BY <2>1 DEF Tidy
  <2>3. e.row.type = "waits-for" => ~e.row.any
    BY <2>1 DEF Tidy
  <2> QED BY <1>1, <1>2, <2>1, <2>2, <2>3 DEF Has, Typed, AlsoBlocks
<1>3. CASE <<i, j>> \notin Rows(d)
  BY <1>1, <1>3 DEF Has
<1> QED BY <1>1, <1>2, <1>3

LEMMA ChildrenByType ==
    ASSUME NEW z, Tidy(z), NEW d, TidyDB(z, d), NEW i \in Issue
    PROVE  /\ \A c : c \in Children(d, {i}) <=> c \in Issue /\ <<c, i>> \in Rows(d) /\ Typed(z, c, i, "parent-child")
           /\ \A p : p \in Parents(d, {i}) <=> p \in Issue /\ <<i, p>> \in Rows(d) /\ Typed(z, i, p, "parent-child")
  BY RowByType DEF Children, Sources, Parents, Targets

LEMMA ReasonsByType ==
    ASSUME NEW z, Tidy(z), NEW d, TidyDB(z, d), NEW i \in Issue
    PROVE  reasons(d, i) # {} <=> Reason(z, Rows(d), Active(d), i)
<1>1. ASSUME NEW j \in Issue, Has(d, i, j, "waits-for")
      PROVE  waitsForGateBlocked(d, i, j) <=>
               \/ AlsoBlocks(z, i, j) /\ j \in Active(d)
               \/ \E c \in Issue : <<c, j>> \in Rows(d) /\ Typed(z, c, j, "parent-child") /\ c \in Active(d)
  <2>1. ~d.dependencies[<<i, j>>].any /\ (d.dependencies[<<i, j>>].also_blocks <=> AlsoBlocks(z, i, j))
    BY <1>1, RowByType
  <2>2. Children(d, {j}) \cap Active(d) # {} <=>
          \E c \in Issue : <<c, j>> \in Rows(d) /\ Typed(z, c, j, "parent-child") /\ c \in Active(d)
    BY ChildrenByType, Zenon
  <2> QED BY <2>1, <2>2, Zenon DEF waitsForGateBlocked
<1>2. reasons(d, i) # {} <=>
        \E j \in Issue : \/ Has(d, i, j, "blocks") /\ j \in Active(d)
                         \/ Has(d, i, j, "waits-for") /\ waitsForGateBlocked(d, i, j)
  BY DEF reasons, Targets
<1>3. \A j \in Issue : /\ Has(d, i, j, "blocks") <=> <<i, j>> \in Rows(d) /\ Typed(z, i, j, "blocks")
                       /\ Has(d, i, j, "waits-for") <=> <<i, j>> \in Rows(d) /\ Typed(z, i, j, "waits-for")
  BY RowByType
<1> QED BY <1>1, <1>2, <1>3, Zenon DEF Reason

LEMMA DueByType ==
    ASSUME NEW z, Tidy(z), NEW d, TidyDB(z, d), NEW i
    PROVE  i \in Due(d) <=>
             i \in Active(d) /\ (Reason(z, Rows(d), Active(d), i) \/ Inherited(z, Rows(d), Flags(d), i))
<1>1. i \in Active(d) => i \in Issue
  BY DEF Active, Live
<1>2. ASSUME i \in Issue
      PROVE  Parents(d, {i}) \cap Flags(d) # {} <=> Inherited(z, Rows(d), Flags(d), i)
  BY <1>2, ChildrenByType, Zenon DEF Inherited
<1> QED BY <1>1, <1>2, ReasonsByType, Zenon DEF Due

-----------------------------------------------------------------------------
(* A pass over ids: A are active, H have a reason, Q holds child and parent. *)
ToFlag(A, H, Q, f) == {i \in A : i \in H \/ \E p \in f : <<i, p>> \in Q}

MarkPass(A, H, Q, ids, f) == f \cup (ids \cap ToFlag(A, H, Q, f))

BothPasses(A, H, Q, ids, f) ==
    MarkPass(A, H, Q, ids, f) \ (ids \ ToFlag(A, H, Q, MarkPass(A, H, Q, ids, f)))

(* When parents have no parents, the second pass is the last that changes anything. *)
LEMMA TwoPasses ==
    ASSUME NEW A, NEW H, NEW Q, NEW ids, NEW f, \A i, p, q : <<i, p>> \in Q => <<p, q>> \notin Q,
           NEW g, g = BothPasses(A, H, Q, ids, BothPasses(A, H, Q, ids, f))
    PROVE  /\ BothPasses(A, H, Q, ids, g) = g
           /\ \A i : i \in g <=> IF i \in ids THEN i \in ToFlag(A, H, Q, g) ELSE i \in f
<1> DEFINE Sb(x) == ToFlag(A, H, Q, x)
           M(x) == MarkPass(A, H, Q, ids, x)
           B(x) == BothPasses(A, H, Q, ids, x)
           root(p) == \A q : <<p, q>> \notin Q
           f1 == B(f)
<1>1. ASSUME NEW x, NEW y, \A p : root(p) => (p \in x <=> p \in y)
      PROVE  Sb(x) = Sb(y)
  BY <1>1 DEF ToFlag
<1>2. ASSUME NEW x, NEW p, root(p)
      PROVE  /\ p \in Sb(x) <=> p \in A /\ p \in H
             /\ p \in M(x) <=> p \in x \/ (p \in ids /\ p \in A /\ p \in H)
             /\ p \in B(x) <=> IF p \in ids THEN p \in A /\ p \in H ELSE p \in x
  BY <1>2, Zenon DEF ToFlag, MarkPass, BothPasses
<1>3. \A p : root(p) => (p \in f1 <=> IF p \in ids THEN p \in A /\ p \in H ELSE p \in f)
  BY <1>2
<1>4. g = B(f1)
  OBVIOUS
<1> HIDE DEF f1
<1>5. \A p : root(p) => (p \in M(f1) <=> p \in f1) /\ (p \in g <=> p \in f1)
  BY <1>2, <1>3, <1>4
<1>6. Sb(M(f1)) = Sb(f1) /\ Sb(g) = Sb(f1)
  BY <1>1, <1>5
<1>7. \A i : i \notin ids => (i \in f1 <=> i \in f)
  BY DEF f1, BothPasses, MarkPass
<1>8. \A i : i \in g <=> IF i \in ids THEN i \in Sb(g) ELSE i \in f
  BY <1>4, <1>6, <1>7, Zenon DEF BothPasses, MarkPass
<1>9. M(g) = g
  BY <1>8 DEF MarkPass
<1>10. B(g) = g
  BY <1>8, <1>9, Zenon DEF BothPasses
<1> QED BY <1>8, <1>10

LEMMA TwoMarks ==
    ASSUME NEW A, NEW H, NEW Q, NEW ids, NEW f, \A i, p, q : <<i, p>> \in Q => <<p, q>> \notin Q,
           NEW g, g = MarkPass(A, H, Q, ids, MarkPass(A, H, Q, ids, f))
    PROVE  /\ MarkPass(A, H, Q, ids, g) = g
           /\ \A i : i \in g <=> i \in f \/ (i \in ids /\ i \in ToFlag(A, H, Q, g))
<1> DEFINE Sb(x) == ToFlag(A, H, Q, x)
           M(x) == MarkPass(A, H, Q, ids, x)
           root(p) == \A q : <<p, q>> \notin Q
           f1 == M(f)
<1>1. ASSUME NEW x, NEW y, \A p : root(p) => (p \in x <=> p \in y)
      PROVE  Sb(x) = Sb(y)
  BY <1>1 DEF ToFlag
<1>2. ASSUME NEW x, NEW p, root(p)
      PROVE  p \in M(x) <=> p \in x \/ (p \in ids /\ p \in A /\ p \in H)
  BY <1>2, Zenon DEF ToFlag, MarkPass
<1>3. g = M(f1)
  OBVIOUS
<1>4. \A p : root(p) => (p \in g <=> p \in f1)
  BY <1>2, <1>3
<1>5. Sb(g) = Sb(f1)
  BY <1>1, <1>4
<1>6. f \subseteq f1 /\ f1 \subseteq f \cup ids
  BY DEF MarkPass
<1>7. \A i : i \in f1 <=> i \in f \/ (i \in ids /\ i \in Sb(f))
  BY DEF MarkPass
<1>8. Sb(f) \subseteq Sb(f1)
  BY <1>6, Zenon DEF ToFlag
<1> HIDE DEF f1
<1>9. \A i : i \in g <=> i \in f \/ (i \in ids /\ i \in Sb(g))
  BY <1>3, <1>5, <1>7, <1>8 DEF MarkPass
<1>10. M(g) = g
  BY <1>9, Zenon DEF MarkPass
<1> QED BY <1>9, <1>10

-----------------------------------------------------------------------------
(* Parents have no parents, so what is under p within any depth is a child of p. *)
LEMMA UnderIsChild ==
    ASSUME NEW z, Tidy(z), NEW d, TidyDB(z, d), NEW p \in Issue, NEW t \in Issue, inSubtree(d, p, t)
    PROVE  Typed(z, t, p, "parent-child")
<1> DEFINE only == {c \in Issue : Parents(d, {c}) = {p}}
           Under(u) == u = [n \in 0 .. SubtreeWalkDepth |-> IF n = 0 THEN {}
                ELSE {c \in Issue : Parents(d, {c}) # {} /\ Parents(d, {c}) \subseteq {p} \cup u[n - 1]}]
           under == CHOOSE u : Under(u)
           known == [n \in 0 .. SubtreeWalkDepth |-> IF n = 0 THEN {} ELSE only]
<1>1. t \in under[SubtreeWalkDepth]
  BY DEF inSubtree
<1>2. \A c \in Issue : \A q \in Parents(d, {c}) : q \in Issue /\ Parents(d, {q}) = {}
  <2> SUFFICES ASSUME NEW c \in Issue, NEW q \in Parents(d, {c}) PROVE q \in Issue /\ Parents(d, {q}) = {}
    BY Zenon
  <2>1. q \in Issue /\ Typed(z, c, q, "parent-child")
    BY ChildrenByType, Zenon
  <2>2. \A k : ~Typed(z, q, k, "parent-child")
    BY <2>1, TidyTypes
  <2> QED BY <2>1, <2>2, ChildrenByType, Zenon
<1>3. \A S \in SUBSET only :
        {c \in Issue : Parents(d, {c}) # {} /\ Parents(d, {c}) \subseteq {p} \cup S} = only
  <2> SUFFICES ASSUME NEW S \in SUBSET only, NEW c \in Issue
               PROVE  Parents(d, {c}) # {} /\ Parents(d, {c}) \subseteq {p} \cup S <=> Parents(d, {c}) = {p}
    BY Zenon
  <2>1. \A q \in Parents(d, {c}) : q \notin S
    BY <1>2, Zenon
  <2> QED BY <2>1
<1> HIDE DEF only
<1>4. ASSUME NEW n \in 0 .. SubtreeWalkDepth, n # 0
      PROVE  n - 1 \in 0 .. SubtreeWalkDepth /\ known[n - 1] \in SUBSET only
  BY <1>4, DepthAssumption
<1>5. Under(known)
  <2> DEFINE val(n) == {c \in Issue : Parents(d, {c}) # {} /\ Parents(d, {c}) \subseteq {p} \cup known[n - 1]}
  <2>1. ASSUME NEW n \in 0 .. SubtreeWalkDepth, n # 0
        PROVE  val(n) = only
    <3> HIDE DEF known
    <3> QED BY <1>3, <1>4, <2>1
  <2> HIDE DEF val
  <2>2. known = [n \in 0 .. SubtreeWalkDepth |-> IF n = 0 THEN {} ELSE val(n)]
    BY <2>1
  <2> HIDE DEF known
  <2> QED BY <2>2, Zenon DEF val
<1>6. Under(under)
  <2> HIDE DEF Under, known
  <2> QED BY <1>5, Zenon
<1> HIDE DEF under
<1>7. ASSUME NEW n \in 0 .. SubtreeWalkDepth, NEW c \in under[n]
      PROVE  /\ n # 0 /\ Parents(d, {c}) # {}
             /\ Parents(d, {c}) \subseteq {p} \cup under[n - 1]
  <2>1. under[n] = IF n = 0 THEN {}
          ELSE {x \in Issue : Parents(d, {x}) # {} /\ Parents(d, {x}) \subseteq {p} \cup under[n - 1]}
    BY <1>6, Zenon
  <2> QED BY <1>7, <2>1, Zenon
<1>8. PICK n \in 0 .. SubtreeWalkDepth : t \in under[n]
  BY <1>1, DepthAssumption
<1>9. p \in Parents(d, {t})
  <2>1. n # 0 /\ Parents(d, {t}) # {} /\ Parents(d, {t}) \subseteq {p} \cup under[n - 1]
    BY <1>7, <1>8, Zenon
  <2>2. n - 1 \in 0 .. SubtreeWalkDepth
    BY <2>1, DepthAssumption
  <2>3. \A q \in Parents(d, {t}) : q \notin under[n - 1]
    BY <1>2, <1>7, <2>2, Zenon
  <2> QED BY <2>1, <2>3
<1> QED BY <1>9, ChildrenByType, Zenon

(* So no parent is flagged because of its own children. *)
LEMMA NoneExplained ==
    ASSUME NEW z, Tidy(z), NEW d, TidyDB(z, d), NEW flags \in SUBSET Issue
    PROVE  explainedParents(d, flags) = {}
<1>1. ASSUME NEW p \in Issue, NEW t \in reasons(d, p) PROVE ~inSubtree(d, p, t)
  <2>1. t \in Issue /\ (Has(d, p, t, "blocks") \/ Has(d, p, t, "waits-for"))
    BY DEF reasons, Targets
  <2>2. \E type : Typed(z, p, t, type)
    BY <2>1, RowByType, Zenon
  <2> QED BY <2>1, <2>2, UnderIsChild, NoRowToChild
<1> QED BY <1>1 DEF explainedParents

-----------------------------------------------------------------------------
(* Writing flags changes nothing else. *)
LEMMA FlagFacts ==
    ASSUME NEW d \in DB, NEW X
    PROVE  /\ WithFlags(d, X) \in DB /\ WithFlags(d, X).dependencies = d.dependencies
           /\ Live(WithFlags(d, X)) = Live(d) /\ Active(WithFlags(d, X)) = Active(d)
           /\ Closed(WithFlags(d, X)) = Closed(d)
           /\ Rows(WithFlags(d, X)) = Rows(d) /\ Flags(WithFlags(d, X)) = X \cap Live(d)
<1> DEFINE e == WithFlags(d, X)
<1>1. e \in DB /\ e.dependencies = d.dependencies
  BY FlagsOnly
<1>2. \A i \in Issue : e.issues[i] =
        IF d.issues[i] = NoRow THEN NoRow ELSE [d.issues[i] EXCEPT !.is_blocked = i \in X]
  BY DEF WithFlags, DB
<1>3. ASSUME NEW i \in Issue, d.issues[i] # NoRow
      PROVE  /\ e.issues[i] # NoRow /\ e.issues[i].status = d.issues[i].status
             /\ e.issues[i].is_blocked <=> i \in X
  <2>1. d.issues[i] \in IssueRow
    BY <1>3 DEF DB
  <2>2. PICK b \in BOOLEAN : (i \in X) = b
    <3>1. (i \in X) = TRUE \/ (i \in X) = FALSE
      OBVIOUS
    <3> QED BY <3>1, Zenon
  <2>3. e.issues[i] = [d.issues[i] EXCEPT !.is_blocked = b]
    BY <1>2, <1>3, <2>2, Zenon
  <2>4. /\ [d.issues[i] EXCEPT !.is_blocked = b] \in IssueRow
        /\ [d.issues[i] EXCEPT !.is_blocked = b].status = d.issues[i].status
        /\ [d.issues[i] EXCEPT !.is_blocked = b].is_blocked = b
    BY <2>1 DEF IssueRow
  <2> QED BY <2>2, <2>3, <2>4, NoRowAssumption
<1>4. \A i \in Issue : d.issues[i] = NoRow => e.issues[i] = NoRow
  BY <1>2, Zenon
<1> HIDE DEF e
<1>5. Live(e) = Live(d) /\ Active(e) = Active(d) /\ Flags(e) = X \cap Live(d) /\ Closed(e) = Closed(d)
  BY <1>3, <1>4 DEF Live, Active, Flags, Closed
<1>6. Rows(e) = Rows(d)
  BY <1>1 DEF Rows
<1> QED BY <1>1, <1>5, <1>6 DEF e

LEMMA TidyFlags ==
    ASSUME NEW z, Tidy(z), NEW d, TidyDB(z, d), NEW X, \A i \in X \cap Live(d) : HasRow(z, i)
    PROVE  TidyDB(z, WithFlags(d, X))
  BY FlagFacts DEF TidyDB

(* What a pass would flag has a row. *)
LEMMA ToFlagHasRow ==
    ASSUME NEW z, Tidy(z), NEW R, NEW A, NEW F, NEW i, Reason(z, R, A, i) \/ Inherited(z, R, F, i)
    PROVE  HasRow(z, i)
  BY Zenon DEF Reason, Inherited, Typed, HasRow

(* A pass in terms of sets. *)
WithReason(d) == {i \in Active(d) : reasons(d, i) # {}}

ChildPairs(d) == {q \in Issue \X Issue : Has(d, q[1], q[2], "parent-child")}

LEMMA PassBySets ==
    ASSUME NEW z, Tidy(z), NEW d, TidyDB(z, d), NEW flags \in SUBSET Issue
    PROVE  /\ shouldBeBlocked(d, flags, explainedParents(d, flags)) =
                 ToFlag(Active(d), WithReason(d), ChildPairs(d), flags)
           /\ \A ids : markUnmark(d, ids, flags) =
                 BothPasses(Active(d), WithReason(d), ChildPairs(d), ids, flags)
<1>1. explainedParents(d, flags) = {}
  BY NoneExplained
<1>2. ASSUME NEW f \in SUBSET Issue
      PROVE  shouldBeBlocked(d, f, {}) = ToFlag(Active(d), WithReason(d), ChildPairs(d), f)
  <2>1. Active(d) \subseteq Issue
    BY DEF Active, Live
  <2>2. ASSUME NEW i \in Issue
        PROVE  Parents(d, {i}) \cap (f \ {}) # {} <=> \E p \in f : <<i, p>> \in ChildPairs(d)
    BY Zenon DEF Parents, Targets, ChildPairs
  <2> QED BY <2>1, <2>2 DEF shouldBeBlocked, ToFlag, WithReason
<1>3. ASSUME NEW ids
      PROVE  markUnmark(d, ids, flags) = BothPasses(Active(d), WithReason(d), ChildPairs(d), ids, flags)
  <2> DEFINE marked == flags \cup (ids \cap shouldBeBlocked(d, flags, {}))
  <2>1. markUnmark(d, ids, flags) = marked \ (ids \ shouldBeBlocked(d, marked, {}))
    BY <1>1, Zenon DEF markUnmark
  <2>2. marked \in SUBSET Issue
    BY DEF shouldBeBlocked, Active, Live
  <2>3. marked = MarkPass(Active(d), WithReason(d), ChildPairs(d), ids, flags)
    BY <1>2, Zenon DEF MarkPass
  <2> HIDE DEF marked
  <2> QED BY <1>2, <2>1, <2>2, <2>3, Zenon DEF BothPasses
<1> QED BY <1>1, <1>2, <1>3, Zenon

LEMMA ParentsAreRoots ==
    ASSUME NEW z, Tidy(z), NEW d, TidyDB(z, d)
    PROVE  \A i, p, q : <<i, p>> \in ChildPairs(d) => <<p, q>> \notin ChildPairs(d)
<1> SUFFICES ASSUME NEW i \in Issue, NEW p \in Issue, NEW q \in Issue,
                    Has(d, i, p, "parent-child"), Has(d, p, q, "parent-child")
             PROVE  FALSE
  BY DEF ChildPairs
<1>1. Typed(z, i, p, "parent-child") /\ Typed(z, p, q, "parent-child")
  BY RowByType, Zenon
<1> QED BY <1>1, TidyTypes

(* e is d with other flags: those of ids are what is due, or what was up or is due. *)
Reflagged(z, d, e) ==
    /\ TidyDB(z, e) /\ e.dependencies = d.dependencies
    /\ Live(e) = Live(d) /\ Rows(e) = Rows(d) /\ Active(e) = Active(d)

Recomputed(z, d, ids, e) ==
    /\ Reflagged(z, d, e)
    /\ \A i : i \in Flags(e) <=> IF i \in ids THEN i \in Due(e) ELSE i \in Flags(d)

Marked(z, d, ids, e) ==
    /\ Reflagged(z, d, e)
    /\ \A i : i \in Flags(e) <=> i \in Flags(d) \/ (i \in ids /\ i \in Due(e))

(* Flags that are up, or that a pass would raise, give tables of the same kind. *)
LEMMA ReflaggedBy ==
    ASSUME NEW z, Tidy(z), NEW d, TidyDB(z, d), NEW g, NEW e, e = WithFlags(d, g),
           g \subseteq Flags(d) \cup ToFlag(Active(d), WithReason(d), ChildPairs(d), g)
    PROVE  /\ Reflagged(z, d, e) /\ Flags(e) = g
           /\ Due(e) = ToFlag(Active(d), WithReason(d), ChildPairs(d), g)
<1>1. d \in DB /\ Active(d) \subseteq Live(d) /\ Flags(d) \subseteq Live(d) /\ Live(d) \subseteq Issue
  BY Zenon DEF TidyDB, Active, Flags, Live
<1>2. g \subseteq Live(d)
  BY <1>1 DEF ToFlag
<1>3. /\ e.dependencies = d.dependencies /\ Live(e) = Live(d) /\ Active(e) = Active(d) /\ Closed(e) = Closed(d)
      /\ Rows(e) = Rows(d) /\ Flags(e) = g
  BY <1>1, <1>2, FlagFacts, Zenon
<1>4. ASSUME NEW i \in ToFlag(Active(d), WithReason(d), ChildPairs(d), g)
      PROVE  HasRow(z, i)
  <2>1. i \in Issue
    BY <1>1 DEF ToFlag
  <2>2. CASE reasons(d, i) # {}
    BY <2>1, <2>2, ReasonsByType, ToFlagHasRow
  <2>3. CASE \E p \in g : <<i, p>> \in ChildPairs(d)
    <3>1. PICK p \in Issue : Has(d, i, p, "parent-child")
      BY <2>3 DEF ChildPairs
    <3>2. Typed(z, i, p, "parent-child")
      BY <2>1, <3>1, RowByType, Zenon
    <3> QED BY <3>2, TidyTypes
  <2> QED BY <2>2, <2>3 DEF ToFlag, WithReason
<1>5. TidyDB(z, e)
  BY <1>4, TidyFlags DEF TidyDB
<1>6. ASSUME NEW i \in Issue
      PROVE  reasons(e, i) # {} <=> reasons(d, i) # {}
  BY <1>3, <1>5, ReasonsByType
<1>7. ASSUME NEW i \in Issue
      PROVE  Parents(e, {i}) \cap Flags(e) # {} <=> \E p \in g : <<i, p>> \in ChildPairs(d)
  <2>1. \A p \in Issue : Has(e, i, p, "parent-child") <=> <<i, p>> \in ChildPairs(d)
    BY <1>3, Zenon DEF Has, ChildPairs
  <2> QED BY <1>1, <1>2, <1>3, <2>1, Zenon DEF Parents, Targets
<1>8. Due(e) = ToFlag(Active(d), WithReason(d), ChildPairs(d), g)
  BY <1>1, <1>3, <1>6, <1>7 DEF Due, ToFlag, WithReason
<1> QED BY <1>3, <1>5, <1>8 DEF Reflagged

(* RecomputeIsBlocked reaches a state that a further pass over ids leaves alone. *)
LEMMA RecomputeTidy ==
    ASSUME NEW z, Tidy(z), NEW d, TidyDB(z, d), NEW ids
    PROVE  Recomputed(z, d, ids, RecomputeIsBlocked(d, ids))
<1> DEFINE B(f) == BothPasses(Active(d), WithReason(d), ChildPairs(d), ids, f)
           Runs(g) == g = [flags \in SUBSET Issue |->
                LET next == markUnmark(d, ids, flags) IN IF next = flags THEN flags ELSE g[next]]
           passes == CHOOSE g : Runs(g)
           known == [flags \in SUBSET Issue |-> B(B(flags))]
<1>1. RecomputeIsBlocked(d, ids) = WithFlags(d, passes[Flags(d)])
  BY DEF RecomputeIsBlocked
<1>2. ASSUME NEW f \in SUBSET Issue
      PROVE  /\ B(f) \in SUBSET Issue /\ markUnmark(d, ids, f) = B(f) /\ B(B(B(f))) = B(B(f))
             /\ \A i : i \in B(B(f)) <=>
                   IF i \in ids THEN i \in ToFlag(Active(d), WithReason(d), ChildPairs(d), B(B(f))) ELSE i \in f
  <2>1. markUnmark(d, ids, f) = B(f)
    BY PassBySets
  <2>2. B(f) \in SUBSET Issue
    BY DEF BothPasses, MarkPass, ToFlag, Active, Live
  <2>3. \A i, p, q : <<i, p>> \in ChildPairs(d) => <<p, q>> \notin ChildPairs(d)
    BY ParentsAreRoots, Zenon
  <2> DEFINE g == B(B(f))
  <2>4. g = BothPasses(Active(d), WithReason(d), ChildPairs(d), ids,
                       BothPasses(Active(d), WithReason(d), ChildPairs(d), ids, f))
    OBVIOUS
  <2> HIDE DEF g
  <2>5. /\ BothPasses(Active(d), WithReason(d), ChildPairs(d), ids, g) = g
        /\ \A i : i \in g <=>
              IF i \in ids THEN i \in ToFlag(Active(d), WithReason(d), ChildPairs(d), g) ELSE i \in f
    BY <2>3, <2>4, TwoPasses
  <2> QED BY <2>1, <2>2, <2>5 DEF g
<1> HIDE DEF B
<1>3. Runs(known)
  BY <1>2
<1>4. Runs(passes)
  <2> HIDE DEF Runs, known
  <2> QED BY <1>3, Zenon
<1> HIDE DEF passes
<1>5. \A f \in SUBSET Issue : passes[f] = IF B(f) = f THEN f ELSE passes[B(f)]
  BY <1>2, <1>4
<1>6. \A f \in SUBSET Issue : passes[f] = B(B(f))
  BY <1>2, <1>5
<1> DEFINE F == Flags(d)
           g == B(B(F))
           e == RecomputeIsBlocked(d, ids)
<1>7. F \in SUBSET Issue /\ e = WithFlags(d, g)
  BY <1>1, <1>6 DEF Flags, Live
<1>8. \A i : i \in g <=>
        IF i \in ids THEN i \in ToFlag(Active(d), WithReason(d), ChildPairs(d), g) ELSE i \in Flags(d)
  BY <1>2, <1>7
<1>9. g \subseteq Flags(d) \cup ToFlag(Active(d), WithReason(d), ChildPairs(d), g)
  BY <1>8
<1> HIDE DEF g, e
<1>10. /\ Reflagged(z, d, e) /\ Flags(e) = g
       /\ Due(e) = ToFlag(Active(d), WithReason(d), ChildPairs(d), g)
  BY <1>7, <1>9, ReflaggedBy
<1> QED BY <1>8, <1>10 DEF Recomputed, e

(* MarkIsBlocked raises what is due, until nothing more is. *)
LEMMA MarkTidy ==
    ASSUME NEW z, Tidy(z), NEW d, TidyDB(z, d), NEW ids
    PROVE  Marked(z, d, ids, MarkIsBlocked(d, ids))
<1> DEFINE M(f) == MarkPass(Active(d), WithReason(d), ChildPairs(d), ids, f)
           Runs(g) == g = [flags \in SUBSET Issue |->
                LET next == flags \cup (ids \cap shouldBeBlocked(d, flags, explainedParents(d, flags)))
                IN IF next = flags THEN flags ELSE g[next]]
           passes == CHOOSE g : Runs(g)
           known == [flags \in SUBSET Issue |-> M(M(flags))]
<1>1. MarkIsBlocked(d, ids) = WithFlags(d, passes[Flags(d)])
  BY DEF MarkIsBlocked
<1>2. ASSUME NEW f \in SUBSET Issue
      PROVE  /\ M(f) \in SUBSET Issue /\ M(M(M(f))) = M(M(f))
             /\ f \cup (ids \cap shouldBeBlocked(d, f, explainedParents(d, f))) = M(f)
             /\ \A i : i \in M(M(f)) <=>
                   i \in f \/ (i \in ids /\ i \in ToFlag(Active(d), WithReason(d), ChildPairs(d), M(M(f))))
  <2>1. f \cup (ids \cap shouldBeBlocked(d, f, explainedParents(d, f))) = M(f)
    <3>1. shouldBeBlocked(d, f, explainedParents(d, f)) = ToFlag(Active(d), WithReason(d), ChildPairs(d), f)
      BY PassBySets
    <3> QED BY <3>1, Zenon DEF MarkPass
  <2>2. M(f) \in SUBSET Issue
    BY DEF MarkPass, ToFlag, Active, Live
  <2>3. \A i, p, q : <<i, p>> \in ChildPairs(d) => <<p, q>> \notin ChildPairs(d)
    BY ParentsAreRoots, Zenon
  <2> DEFINE g == M(M(f))
  <2>4. g = MarkPass(Active(d), WithReason(d), ChildPairs(d), ids,
                     MarkPass(Active(d), WithReason(d), ChildPairs(d), ids, f))
    OBVIOUS
  <2> HIDE DEF g
  <2>5. /\ MarkPass(Active(d), WithReason(d), ChildPairs(d), ids, g) = g
        /\ \A i : i \in g <=>
              i \in f \/ (i \in ids /\ i \in ToFlag(Active(d), WithReason(d), ChildPairs(d), g))
    BY <2>3, <2>4, TwoMarks
  <2> QED BY <2>1, <2>2, <2>5 DEF g
<1> HIDE DEF M
<1>3. Runs(known)
  <2> DEFINE next(f) == f \cup (ids \cap shouldBeBlocked(d, f, explainedParents(d, f)))
  <2>1. \A f \in SUBSET Issue : next(f) = M(f)
    BY <1>2
  <2> HIDE DEF next
  <2>2. known = [flags \in SUBSET Issue |-> IF next(flags) = flags THEN flags ELSE known[next(flags)]]
    BY <1>2, <2>1
  <2> QED BY <2>2, Zenon DEF next
<1>4. Runs(passes)
  <2> HIDE DEF Runs, known
  <2> QED BY <1>3, Zenon
<1> HIDE DEF passes
<1>5. \A f \in SUBSET Issue : passes[f] = IF M(f) = f THEN f ELSE passes[M(f)]
  <2> DEFINE next(f) == f \cup (ids \cap shouldBeBlocked(d, f, explainedParents(d, f)))
  <2>1. passes = [flags \in SUBSET Issue |-> IF next(flags) = flags THEN flags ELSE passes[next(flags)]]
    BY <1>4, Zenon
  <2>2. \A f \in SUBSET Issue : next(f) = M(f)
    BY <1>2
  <2> HIDE DEF next
  <2> QED BY <2>1, <2>2
<1>6. \A f \in SUBSET Issue : passes[f] = M(M(f))
  BY <1>2, <1>5
<1> DEFINE F == Flags(d)
           g == M(M(F))
           e == MarkIsBlocked(d, ids)
<1>7. F \in SUBSET Issue /\ e = WithFlags(d, g)
  BY <1>1, <1>6 DEF Flags, Live
<1>8. \A i : i \in g <=>
        i \in Flags(d) \/ (i \in ids /\ i \in ToFlag(Active(d), WithReason(d), ChildPairs(d), g))
  BY <1>2, <1>7
<1>9. g \subseteq Flags(d) \cup ToFlag(Active(d), WithReason(d), ChildPairs(d), g)
  BY <1>8
<1> HIDE DEF g, e
<1>10. /\ Reflagged(z, d, e) /\ Flags(e) = g
       /\ Due(e) = ToFlag(Active(d), WithReason(d), ChildPairs(d), g)
  BY <1>7, <1>9, ReflaggedBy
<1> QED BY <1>8, <1>10 DEF Marked, e

(***************************************************************************)
(* What hangs below a seed are its children and nothing more.              *)
(***************************************************************************)
LEMMA ExpandTidy ==
    ASSUME NEW z, Tidy(z), NEW d, TidyDB(z, d), NEW seed \in SUBSET Issue, NEW skip
    PROVE  expandByParentChildDescendants(d, seed, skip) =
             (seed \ skip) \cup (Children(d, seed \ skip) \ skip)
<1> DEFINE more(S) == S \cup (Children(d, S) \ skip)
           Grows(g) == g = [S \in SUBSET Issue |-> IF more(S) = S THEN S ELSE g[more(S)]]
           grown == CHOOSE g : Grows(g)
           known == [S \in SUBSET Issue |-> more(S)]
<1>1. expandByParentChildDescendants(d, seed, skip) = Issue \cap grown[seed \ skip]
  BY DEF expandByParentChildDescendants
<1>2. ASSUME NEW S \in SUBSET Issue PROVE more(S) \in SUBSET Issue /\ more(more(S)) = more(S)
  <2>1. \A i, p \in Issue : Has(d, i, p, "parent-child") => \A q \in Issue : ~Has(d, p, q, "parent-child")
    BY ParentsAreRoots, Zenon DEF ChildPairs
  <2> QED BY <2>1 DEF Children, Sources
<1> HIDE DEF more
<1>3. Grows(known)
  BY <1>2
<1>4. Grows(grown)
  <2> HIDE DEF Grows, known
  <2> QED BY <1>3, Zenon
<1> HIDE DEF grown
<1>5. \A S \in SUBSET Issue : grown[S] = more(S)
  BY <1>2, <1>4
<1> QED BY <1>1, <1>2, <1>5, Zenon DEF more

LEMMA InDue ==
    ASSUME NEW d, NEW q
    PROVE  q \in Due(d) <=> q \in Active(d) /\ (reasons(d, q) # {} \/ Parents(d, {q}) \cap Flags(d) # {})
  BY DEF Due

(* Flags that are exactly what is due are what the contract derives from the graph. *)
LEMMA DueIsContract ==
    ASSUME NEW z, Tidy(z), NEW d, TidyDB(z, d), Flags(d) = Due(d)
    PROVE  Flags(d) = ContractFlags(d)
<1>0. \A q : q \in Flags(d) <=>
        q \in Active(d) /\ (reasons(d, q) # {} \/ Parents(d, {q}) \cap Flags(d) # {})
  BY InDue, Zenon
<1>1. ASSUME NEW i \in Issue, NEW p \in Parents(d, {i})
      PROVE  p \in Flags(d) <=> p \in Exogenous(d)
  <2>1. p \in Issue /\ Typed(z, i, p, "parent-child") /\ \A k : ~Typed(z, p, k, "parent-child")
    BY <1>1, ChildrenByType, TidyTypes, ZenonT(30)
  <2>2. Parents(d, {p}) = {} /\ \A c \in Children(d, {p}) : c \in Issue /\ Typed(z, c, p, "parent-child")
    BY <2>1, ChildrenByType, Zenon
  <2>3. Below(d, p) = Children(d, {p})
    <3>1. Children(d, {p}) \in SUBSET Issue
      BY DEF Children, Sources
    <3>2. Children(d, Children(d, {p})) = {}
      <4>1. \A c, k \in Issue : Has(d, c, p, "parent-child") => ~Has(d, k, c, "parent-child")
        BY <2>1, ParentsAreRoots, Zenon DEF ChildPairs
      <4> QED BY <4>1 DEF Children, Sources
    <3> DEFINE C == Children(d, {p})
    <3>3. Below(d, p) = (C \ {}) \cup (Children(d, C \ {}) \ {})
      <4> DEFINE none == {}
      <4>1. Below(d, p) = expandByParentChildDescendants(d, C, none) /\ C \in SUBSET Issue
        BY <3>1 DEF Below
      <4> HIDE DEF C, none
      <4>2. expandByParentChildDescendants(d, C, none) = (C \ none) \cup (Children(d, C \ none) \ none)
        BY <4>1, ExpandTidy
      <4> QED BY <4>1, <4>2, Zenon DEF none
    <3>4. C \ {} = C /\ \A X : X \ {} = X
      OBVIOUS
    <3> QED BY <3>2, <3>3, <3>4, Zenon
  <2>4. ASSUME NEW t \in reasons(d, p) PROVE t \notin Below(d, p)
    <3>1. t \in Issue /\ (Has(d, p, t, "blocks") \/ Has(d, p, t, "waits-for"))
      BY DEF reasons, Targets
    <3>2. \E type : Typed(z, p, t, type)
      BY <2>1, <3>1, RowByType, Zenon
    <3> QED BY <2>2, <2>3, <3>2, NoRowToChild
  <2>5. ASSUME p \in Flags(d) PROVE p \in Exogenous(d)
    <3>1. p \in Active(d) /\ reasons(d, p) \ Below(d, p) # {}
      BY <1>0, <2>2, <2>4, <2>5
    <3> QED BY <3>1, Zenon DEF Exogenous
  <2>6. ASSUME p \in Exogenous(d) PROVE p \in Flags(d)
    <3>1. Flags(d) \in SUBSET Active(d)
      BY <1>0, Zenon
    <3>2. \A q \in Active(d) :
            reasons(d, q) \ Below(d, q) # {} \/ Parents(d, {q}) \cap Flags(d) # {} => q \in Flags(d)
      BY <1>0
    <3> QED BY <2>6, <3>1, <3>2 DEF Exogenous
  <2> QED BY <2>5, <2>6
<1>2. \A i \in Issue : Parents(d, {i}) \cap Flags(d) # {} <=> Parents(d, {i}) \cap Exogenous(d) # {}
  BY <1>1
<1>3. Active(d) \subseteq Issue
  BY DEF Active, Live
<1>4. \A q : q \in ContractFlags(d) <=>
        q \in Active(d) /\ (reasons(d, q) # {} \/ Parents(d, {q}) \cap Exogenous(d) # {})
  BY Zenon DEF ContractFlags
<1> QED BY <1>0, <1>2, <1>3, <1>4, Zenon

-----------------------------------------------------------------------------
(* Rows of the dependencies table that can only be there or not. *)
LEMMA MergedDeclaredRow ==
    ASSUME NEW r \in DepRow, NEW b \in {r, NoRow}, NEW o \in {r, NoRow}, NEW t \in {r, NoRow}
    PROVE  RowMerge(b, o, t) = IF o # b THEN o ELSE t
<1>1. CASE NoRow \in {b, o, t}
  BY <1>1 DEF RowMerge, CellMerge
<1>2. CASE NoRow \notin {b, o, t}
  <2>1. b = r /\ o = r /\ t = r /\ RowMerge(b, o, t) = [c \in DOMAIN r |-> r[c]]
    BY <1>2 DEF RowMerge, CellMerge
  <2> QED BY <2>1 DEF DepRow
<1> QED BY <1>1, <1>2

IsActiveRow(r) == r # NoRow /\ r.status = "open"

IsFlaggedRow(r) == r # NoRow /\ r.is_blocked

(* Rows of the issues table. *)
MergedAs(b, o, t, m) ==
    /\ t = b => m = o
    /\ IsFlaggedRow(m) => IsFlaggedRow(o) \/ IsFlaggedRow(t)
    /\ (IsActiveRow(o) \/ IsActiveRow(t) => IsActiveRow(b)) =>
          (IsActiveRow(m) <=> IsActiveRow(o) /\ IsActiveRow(t))
    /\ (IsFlaggedRow(o) \/ IsFlaggedRow(t) => IsFlaggedRow(b)) =>
          (IsFlaggedRow(m) <=> IsFlaggedRow(o) /\ IsFlaggedRow(t))

LEMMA MergedIssueRow ==
    ASSUME NEW b \in IssueRow \cup {NoRow}, NEW o \in IssueRow \cup {NoRow}, NEW t \in IssueRow \cup {NoRow},
           ~RowConflict(b, o, t), NEW m, m = RowMerge(b, o, t)
    PROVE  MergedAs(b, o, t, m)
<1> USE DEF MergedAs
<1>1. CASE NoRow \in {b, o, t}
  <2>1. m = (IF o # b THEN o ELSE t) /\ ~(o # b /\ t # b /\ o # t)
    BY <1>1 DEF RowMerge, RowConflict, CellMerge, CellConflict
  <2> QED BY <1>1, <2>1 DEF IsActiveRow, IsFlaggedRow
<1>2. CASE NoRow \notin {b, o, t}
  <2>1. b \in IssueRow /\ o \in IssueRow /\ t \in IssueRow
    BY <1>2
  <2>2. m = [c \in {"status", "is_blocked"} |-> CellMerge(b[c], o[c], t[c])]
    BY <1>2, <2>1 DEF RowMerge, IssueRow
  <2>3. /\ m.status = (IF o.status # b.status THEN o.status ELSE t.status)
        /\ m.is_blocked = (IF o.is_blocked # b.is_blocked THEN o.is_blocked ELSE t.is_blocked)
    BY <2>2 DEF CellMerge
  <2>4. /\ b.is_blocked \in BOOLEAN /\ o.is_blocked \in BOOLEAN /\ t.is_blocked \in BOOLEAN
    BY <2>1 DEF IssueRow
  <2>5. m # NoRow
    <3>1. /\ CellMerge(b["status"], o["status"], t["status"]) \in {"open", "closed", "pinned"}
          /\ CellMerge(b["is_blocked"], o["is_blocked"], t["is_blocked"]) \in BOOLEAN
      BY <2>1 DEF CellMerge, IssueRow
    <3>2. m \in IssueRow
      BY <2>2, <3>1 DEF IssueRow
    <3> QED BY <3>2, NoRowAssumption
  <2>6. t = b => m = o
    <3> SUFFICES ASSUME t = b PROVE m = o
      OBVIOUS
    <3>1. m.status = o.status /\ m.is_blocked = o.is_blocked
      BY <2>3
    <3> QED BY <2>1, <2>2, <3>1 DEF IssueRow
  <2> QED BY <1>2, <2>3, <2>4, <2>5, <2>6 DEF IsActiveRow, IsFlaggedRow
<1> QED BY <1>1, <1>2

(* What a merge of tidy tables comes to. *)
MergedTidily(z, b, o, t, m) ==
    /\ TidyDB(z, m)
    /\ t = b => m = o
    /\ \A i, j \in Issue : <<i, j>> \in Rows(m) <=>
            IF <<i, j>> \in Rows(b) <=> <<i, j>> \in Rows(o) THEN <<i, j>> \in Rows(t) ELSE <<i, j>> \in Rows(o)
    /\ Shrunk(b, o) /\ Shrunk(b, t) =>
            /\ Rows(m) = Rows(o) \cap Rows(t)
            /\ Active(m) = Active(o) \cap Active(t)
            /\ Flags(m) = Flags(o) \cap Flags(t)

LEMMA TidyMerge ==
    ASSUME NEW z, Tidy(z), NEW b, NEW o, NEW t, TidyDB(z, b), TidyDB(z, o), TidyDB(z, t), NEW m,
           m = [issues |-> TableMerge(b.issues, o.issues, t.issues),
                dependencies |-> TableMerge(b.dependencies, o.dependencies, t.dependencies)],
           ~TableConflict(b.issues, o.issues, t.issues)
    PROVE  MergedTidily(z, b, o, t, m)
<1>1. b \in DB /\ o \in DB /\ t \in DB
  BY ZenonT(30) DEF TidyDB
<1>2. /\ m \in DB
      /\ \A i \in Issue : m.issues[i] = RowMerge(b.issues[i], o.issues[i], t.issues[i])
      /\ \A i, j \in Issue : m.dependencies[<<i, j>>] =
            RowMerge(b.dependencies[<<i, j>>], o.dependencies[<<i, j>>], t.dependencies[<<i, j>>])
  BY <1>1, MergedDB
<1>3. /\ \A i \in Issue : /\ b.issues[i] \in IssueRow \cup {NoRow} /\ o.issues[i] \in IssueRow \cup {NoRow}
                          /\ t.issues[i] \in IssueRow \cup {NoRow}
      /\ DOMAIN b.issues = Issue
  BY <1>1 DEF DB
<1>4. ASSUME NEW i \in Issue
      PROVE  ~RowConflict(b.issues[i], o.issues[i], t.issues[i])
  BY <1>3 DEF TableConflict
<1>5. ASSUME NEW i \in Issue, NEW j \in Issue
      PROVE  m.dependencies[<<i, j>>] =
               IF o.dependencies[<<i, j>>] # b.dependencies[<<i, j>>]
               THEN o.dependencies[<<i, j>>] ELSE t.dependencies[<<i, j>>]
  <2> DEFINE rb == b.dependencies[<<i, j>>]
             ro == o.dependencies[<<i, j>>]
             rt == t.dependencies[<<i, j>>]
  <2>1. /\ rb # NoRow /\ ro # NoRow => rb = ro
        /\ rb # NoRow /\ rt # NoRow => rb = rt
        /\ ro # NoRow /\ rt # NoRow => ro = rt
    BY OneRow
  <2>2. rb \in DepRow \cup {NoRow} /\ ro \in DepRow \cup {NoRow} /\ rt \in DepRow \cup {NoRow}
    BY <1>1 DEF DB
  <2>3. m.dependencies[<<i, j>>] = RowMerge(rb, ro, rt)
    BY <1>2
  <2> HIDE DEF rb, ro, rt
  <2>4. CASE rb = NoRow /\ ro = NoRow /\ rt = NoRow
    <3>1. RowMerge(rb, ro, rt) = rt
      BY <2>4 DEF RowMerge, CellMerge
    <3> QED BY <2>3, <2>4, <3>1 DEF rb, ro, rt
  <2>5. CASE ~(rb = NoRow /\ ro = NoRow /\ rt = NoRow)
    <3>1. PICK r \in DepRow : rb \in {r, NoRow} /\ ro \in {r, NoRow} /\ rt \in {r, NoRow}
      BY <2>1, <2>2, <2>5
    <3>2. RowMerge(rb, ro, rt) = IF ro # rb THEN ro ELSE rt
      BY <3>1, MergedDeclaredRow
    <3> QED BY <2>3, <3>2 DEF rb, ro, rt
  <2> QED BY <2>4, <2>5
<1>6. ASSUME NEW i \in Issue, NEW j \in Issue
      PROVE  /\ m.dependencies[<<i, j>>] # NoRow =>
                   m.dependencies[<<i, j>>] \in {o.dependencies[<<i, j>>], t.dependencies[<<i, j>>]}
             /\ <<i, j>> \in Rows(m) <=>
                   IF <<i, j>> \in Rows(b) <=> <<i, j>> \in Rows(o) THEN <<i, j>> \in Rows(t) ELSE <<i, j>> \in Rows(o)
  <2>1. b.dependencies[<<i, j>>] # NoRow /\ o.dependencies[<<i, j>>] # NoRow =>
           b.dependencies[<<i, j>>] = o.dependencies[<<i, j>>]
    BY OneRow
  <2>2. \A x : <<i, j>> \in Rows(x) <=> x.dependencies[<<i, j>>] # NoRow
    BY DEF Rows
  <2> DEFINE rb == b.dependencies[<<i, j>>]
             ro == o.dependencies[<<i, j>>]
             rt == t.dependencies[<<i, j>>]
             rm == m.dependencies[<<i, j>>]
  <2>3. rm = (IF ro # rb THEN ro ELSE rt) /\ (rb # NoRow /\ ro # NoRow => rb = ro)
    BY <1>5, <2>1
  <2> HIDE DEF rb, ro, rt, rm
  <2>4. /\ rm # NoRow => rm \in {ro, rt}
        /\ rm # NoRow <=> IF rb # NoRow <=> ro # NoRow THEN rt # NoRow ELSE ro # NoRow
    BY ONLY <2>3
  <2> QED BY <2>2, <2>4 DEF rb, ro, rt, rm
<1>7. \A x : Active(x) = {i \in Issue : IsActiveRow(x.issues[i])} /\ Flags(x) = {i \in Issue : IsFlaggedRow(x.issues[i])}
  BY DEF Active, Flags, Live, IsActiveRow, IsFlaggedRow
<1>8. ASSUME NEW i \in Issue
      PROVE  /\ t = b => m.issues[i] = o.issues[i]
             /\ i \in Flags(m) => i \in Flags(o) \/ i \in Flags(t)
             /\ (i \in Active(o) \/ i \in Active(t) => i \in Active(b)) =>
                   (i \in Active(m) <=> i \in Active(o) /\ i \in Active(t))
             /\ (i \in Flags(o) \/ i \in Flags(t) => i \in Flags(b)) =>
                   (i \in Flags(m) <=> i \in Flags(o) /\ i \in Flags(t))
  <2> DEFINE rb == b.issues[i]
             ro == o.issues[i]
             rt == t.issues[i]
             rm == m.issues[i]
  <2>1. /\ rb \in IssueRow \cup {NoRow} /\ ro \in IssueRow \cup {NoRow} /\ rt \in IssueRow \cup {NoRow}
        /\ ~RowConflict(rb, ro, rt) /\ rm = RowMerge(rb, ro, rt)
    BY <1>2, <1>3, <1>4, ZenonT(30)
  <2>2. t = b => rt = rb
    OBVIOUS
  <2> HIDE DEF rb, ro, rt, rm
  <2>3. /\ rt = rb => rm = ro
        /\ IsFlaggedRow(rm) => IsFlaggedRow(ro) \/ IsFlaggedRow(rt)
        /\ (IsActiveRow(ro) \/ IsActiveRow(rt) => IsActiveRow(rb)) =>
              (IsActiveRow(rm) <=> IsActiveRow(ro) /\ IsActiveRow(rt))
        /\ (IsFlaggedRow(ro) \/ IsFlaggedRow(rt) => IsFlaggedRow(rb)) =>
              (IsFlaggedRow(rm) <=> IsFlaggedRow(ro) /\ IsFlaggedRow(rt))
    <3>1. MergedAs(rb, ro, rt, rm)
      BY <2>1, MergedIssueRow, Zenon
    <3> QED BY <3>1, Zenon DEF MergedAs
  <2>4. \A x : (i \in Active(x) <=> IsActiveRow(x.issues[i])) /\ (i \in Flags(x) <=> IsFlaggedRow(x.issues[i]))
    BY <1>7
  <2> QED BY <2>2, <2>3, <2>4, Zenon DEF rb, ro, rt, rm
<1>9. TidyDB(z, m)
  <2>1. ASSUME NEW i \in Issue, NEW j \in Issue, m.dependencies[<<i, j>>] # NoRow
        PROVE  \E e \in Declared(z) : e.from = i /\ e.to = j /\ e.row = m.dependencies[<<i, j>>]
    <3>1. m.dependencies[<<i, j>>] = o.dependencies[<<i, j>>] \/ m.dependencies[<<i, j>>] = t.dependencies[<<i, j>>]
      BY <1>6, <2>1
    <3> QED BY <2>1, <3>1, RowIsDeclared
  <2>2. ASSUME NEW i \in Flags(m) PROVE HasRow(z, i)
    <3>1. i \in Issue
      BY ZenonT(30) DEF Flags, Live
    <3> QED BY <1>8, <3>1, FlagHasRow
  <2> QED BY <1>2, <2>1, <2>2, Zenon DEF TidyDB
<1>10. ASSUME t = b PROVE m = o
  <2>1. \A i \in Issue : m.issues[i] = o.issues[i]
    BY <1>8, <1>10
  <2>2. \A i, j \in Issue : m.dependencies[<<i, j>>] = o.dependencies[<<i, j>>]
    BY <1>5, <1>10, ZenonT(30)
  <2>3. \A k \in Issue \X Issue : m.dependencies[k] = o.dependencies[k]
    BY <2>2
  <2>4. m.issues = o.issues /\ m.dependencies = o.dependencies
    BY <1>1, <1>2, <2>1, <2>3 DEF DB
  <2> QED BY <1>1, <1>2, <2>4 DEF DB
<1>11. ASSUME Shrunk(b, o), Shrunk(b, t)
       PROVE  /\ Rows(m) = Rows(o) \cap Rows(t)
              /\ Active(m) = Active(o) \cap Active(t)
              /\ Flags(m) = Flags(o) \cap Flags(t)
  <2>1. \A x : Rows(x) \subseteq Issue \X Issue /\ Active(x) \subseteq Issue /\ Flags(x) \subseteq Issue
    BY DEF Rows, Active, Flags, Live
  <2>2. \A i, j \in Issue : <<i, j>> \in Rows(m) <=> <<i, j>> \in Rows(o) /\ <<i, j>> \in Rows(t)
    BY <1>6, <1>11, Zenon DEF Shrunk
  <2>3. Rows(m) = Rows(o) \cap Rows(t)
    BY <2>1, <2>2
  <2> QED BY <1>8, <1>11, <2>1, <2>3 DEF Shrunk
<1> QED BY <1>6, <1>9, <1>10, <1>11 DEF MergedTidily

-----------------------------------------------------------------------------
(* More rows, active issues and flags, more that is due. *)
LEMMA MoreIsMore ==
    ASSUME NEW z, NEW R, NEW A, NEW F, NEW R2, NEW A2, NEW F2, R \subseteq R2, A \subseteq A2, F \subseteq F2, NEW i
    PROVE  /\ Reason(z, R, A, i) => Reason(z, R2, A2, i)
           /\ Inherited(z, R, F, i) => Inherited(z, R2, F2, i)
  BY Zenon DEF Reason, Inherited

LEMMA DueGrows ==
    ASSUME NEW z, Tidy(z), NEW d, NEW e, TidyDB(z, d), TidyDB(z, e), Shrunk(d, e)
    PROVE  Due(e) \subseteq Due(d)
<1> SUFFICES ASSUME NEW i \in Due(e) PROVE i \in Due(d)
  OBVIOUS
<1>1. i \in Active(e) /\ (Reason(z, Rows(e), Active(e), i) \/ Inherited(z, Rows(e), Flags(e), i))
  BY DueByType
<1>2. Rows(e) \subseteq Rows(d) /\ Active(e) \subseteq Active(d) /\ Flags(e) \subseteq Flags(d)
  BY DEF Shrunk
<1>3. i \in Active(d) /\ (Reason(z, Rows(d), Active(d), i) \/ Inherited(z, Rows(d), Flags(d), i))
  BY <1>1, <1>2, MoreIsMore
<1> QED BY <1>3, DueByType

(***************************************************************************)
(* Going from the rows R and the active issues A to R2 and A2, something   *)
(* goes that may have been a reason for i: a row of i to other than a      *)
(* blocker that was inactive, the activity of its target, or a child of    *)
(* its target.                                                             *)
(***************************************************************************)
Touched(z, R, A, R2, A2, i) ==
    \E j \in Issue : <<i, j>> \in R /\
        \/ <<i, j>> \notin R2 /\ (Typed(z, i, j, "blocks") => j \in A)
        \/ j \in A \ A2 /\ ~Typed(z, i, j, "parent-child")
        \/ Typed(z, i, j, "waits-for") /\
           \E c \in Issue : <<c, j>> \in R /\ Typed(z, c, j, "parent-child") /\ (<<c, j>> \notin R2 \/ c \in A \ A2)

LEMMA ReasonLost ==
    ASSUME NEW z, Tidy(z), NEW R, NEW A, NEW R2, NEW A2, NEW i, Reason(z, R, A, i), ~Reason(z, R2, A2, i)
    PROVE  Touched(z, R, A, R2, A2, i)
<1>1. PICK j \in Issue : <<i, j>> \in R /\
        \/ Typed(z, i, j, "blocks") /\ j \in A
        \/ Typed(z, i, j, "waits-for") /\ AlsoBlocks(z, i, j) /\ j \in A
        \/ Typed(z, i, j, "waits-for") /\
           \E c \in Issue : <<c, j>> \in R /\ Typed(z, c, j, "parent-child") /\ c \in A
  BY DEF Reason
<1>2. /\ Typed(z, i, j, "blocks") \/ Typed(z, i, j, "waits-for") => ~Typed(z, i, j, "parent-child")
      /\ Typed(z, i, j, "waits-for") => ~Typed(z, i, j, "blocks")
  BY TidyTypes
<1> QED BY <1>1, <1>2 DEF Reason, Touched

(* o takes from b, and the flags it leaves up are right or in recheck. *)
Lessens(z, b, o, recheck) ==
    /\ Shrunk(b, o) /\ Due(o) \subseteq Flags(o) /\ Flags(o) \cap Active(b) \subseteq Active(o)
    /\ \A i \in Flags(o) \cap Active(o) :
            Touched(z, Rows(b), Active(b), Rows(o), Active(o), i) => i \in recheck
    /\ \A i, p \in Issue : <<i, p>> \in Rows(o) /\ Typed(z, i, p, "parent-child") /\ p \in Flags(b) \ Flags(o)
            => i \notin Flags(o)

(* The same after the merge with what others took away meanwhile. *)
LEMMA LessensMerged ==
    ASSUME NEW z, Tidy(z), NEW b, NEW o, NEW t, NEW m, NEW recheck,
           TidyDB(z, b), TidyDB(z, o), TidyDB(z, t), MergedTidily(z, b, o, t, m),
           Shrunk(b, t), Due(t) \subseteq Flags(t), Lessens(z, b, o, recheck)
    PROVE  /\ Shrunk(t, m) /\ Due(m) \subseteq Flags(m)
           /\ \A i \in Flags(m) \ Due(m) : i \in Flags(o) /\ (i \in recheck \/ i \in Flags(t) \ Due(t))
<1>1. /\ TidyDB(z, m) /\ Rows(m) = Rows(o) \cap Rows(t)
      /\ Active(m) = Active(o) \cap Active(t) /\ Flags(m) = Flags(o) \cap Flags(t)
  BY DEF MergedTidily, Lessens
<1>2. Shrunk(t, m) /\ Shrunk(o, m)
  BY <1>1 DEF Shrunk
<1>3. Due(m) \subseteq Due(t) /\ Due(m) \subseteq Due(o)
  BY <1>1, <1>2, DueGrows
<1>4. Due(m) \subseteq Flags(m)
  BY <1>1, <1>3 DEF Lessens
<1>5. ASSUME NEW i \in Flags(m) \ Due(m), i \in Due(t) PROVE i \in recheck
  <2>1. i \in Active(t) /\ (Reason(z, Rows(t), Active(t), i) \/ Inherited(z, Rows(t), Flags(t), i))
    BY <1>5, DueByType
  <2>2. i \in Flags(o) /\ i \in Active(o) /\ i \in Active(m)
    BY <1>1, <2>1 DEF Lessens, Shrunk
  <2>3. ~Reason(z, Rows(m), Active(m), i) /\ ~Inherited(z, Rows(m), Flags(m), i)
    BY <1>1, <1>5, <2>2, DueByType, ZenonT(30)
  <2>4. Touched(z, Rows(b), Active(b), Rows(o), Active(o), i) => i \in recheck
    BY <2>2 DEF Lessens
  <2>5. CASE Reason(z, Rows(t), Active(t), i)
    <3>1. Touched(z, Rows(t), Active(t), Rows(m), Active(m), i)
      BY <2>3, <2>5, ReasonLost
    <3>2. Touched(z, Rows(b), Active(b), Rows(o), Active(o), i)
      BY <1>1, <3>1 DEF Touched, Shrunk
    <3> QED BY <2>4, <3>2
  <2>6. CASE Inherited(z, Rows(t), Flags(t), i)
    <3>1. PICK p \in Issue : <<i, p>> \in Rows(t) /\ Typed(z, i, p, "parent-child") /\ p \in Flags(t)
      BY <2>6 DEF Inherited
    <3>2. <<i, p>> \notin Rows(m) \/ p \notin Flags(m)
      BY <2>3, <3>1 DEF Inherited
    <3>3. CASE <<i, p>> \notin Rows(o)
      <4>1. <<i, p>> \in Rows(b)
        BY <3>1 DEF Shrunk
      <4>2. ~Typed(z, i, p, "blocks")
        BY <3>1, TidyTypes
      <4>3. Touched(z, Rows(b), Active(b), Rows(o), Active(o), i)
        BY <3>1, <3>3, <4>1, <4>2 DEF Touched
      <4> QED BY <2>4, <4>3
    <3>4. CASE <<i, p>> \in Rows(o)
      <4>1. p \in Flags(b) \ Flags(o)
        BY <1>1, <3>1, <3>2, <3>4 DEF Shrunk
      <4>2. i \in Issue
        BY <2>1, Zenon DEF Active, Live
      <4> QED BY <2>2, <3>1, <3>4, <4>1, <4>2 DEF Lessens
    <3> QED BY <3>3, <3>4
  <2> QED BY <2>1, <2>5, <2>6
<1> QED BY <1>1, <1>2, <1>4, <1>5

(* A child with rows above it has no reason of its own. *)
LEMMA ChildHasNoReason ==
    ASSUME NEW z, Tidy(z), NEW R, NEW A, NEW i, NEW p, Typed(z, i, p, "parent-child"), HasRow(z, p)
    PROVE  /\ ~Reason(z, R, A, i)
           /\ \A F : Inherited(z, R, F, i) => p \in F
<1>1. \A k, t : Typed(z, i, k, t) => k = p /\ t = "parent-child"
  BY TidyTypes
<1>2. \A j : ~Typed(z, i, j, "blocks") /\ ~Typed(z, i, j, "waits-for")
  BY <1>1
<1>3. ~Reason(z, R, A, i)
  BY <1>2, Zenon DEF Reason
<1>4. ASSUME NEW F, Inherited(z, R, F, i) PROVE p \in F
  BY <1>1, <1>4 DEF Inherited
<1> QED BY <1>3, <1>4

(* A parent inherits nothing. *)
LEMMA ParentInheritsNothing ==
    ASSUME NEW z, Tidy(z), NEW R, NEW F, NEW i, NEW p, Typed(z, i, p, "parent-child")
    PROVE  ~Inherited(z, R, F, p)
  BY TidyTypes, ZenonT(30) DEF Inherited

(* What the rows taken from b to d may have unblocked is in ids. *)
Follows(z, b, d, ids, recheck) ==
    /\ TidyDB(z, d) /\ Rows(d) \subseteq Rows(b) /\ Active(d) \subseteq Active(b) /\ Flags(d) \subseteq Flags(b)
    /\ Covers(z, ids, d)
    /\ \A i \in Active(d) : i \in Flags(b) => i \in Flags(d)
    /\ \A i, p \in Issue : <<i, p>> \in Rows(d) /\ p \in Flags(b) => p \in Flags(d)
    /\ Flags(d) \cap Active(b) \subseteq Active(d) \cup ids
    /\ \A i \in Active(d) : Touched(z, Rows(b), Active(b), Rows(d), Active(d), i) => i \in recheck

LEMMA RecomputeLessens ==
    ASSUME NEW z, Tidy(z), NEW b, TidyDB(z, b), Due(b) \subseteq Flags(b), NEW d, NEW ids, NEW recheck,
           Follows(z, b, d, ids, recheck), NEW e, Recomputed(z, d, ids, e)
    PROVE  Lessens(z, b, e, recheck)
<1>1. /\ TidyDB(z, d) /\ TidyDB(z, e) /\ Rows(e) = Rows(d) /\ Active(e) = Active(d)
      /\ \A i : i \in Flags(e) <=> IF i \in ids THEN i \in Due(e) ELSE i \in Flags(d)
  BY DEF Follows, Recomputed, Reflagged
<1>2. \A i : i \in Due(e) <=>
        i \in Active(d) /\ (Reason(z, Rows(d), Active(d), i) \/ Inherited(z, Rows(d), Flags(e), i))
  BY <1>1, DueByType
<1>3. \A i : i \in Due(b) <=>
        i \in Active(b) /\ (Reason(z, Rows(b), Active(b), i) \/ Inherited(z, Rows(b), Flags(b), i))
  BY DueByType
<1>4. Rows(d) \subseteq Rows(b) /\ Active(d) \subseteq Active(b) /\ Flags(d) \subseteq Flags(b)
  BY DEF Follows
<1>5. \A i : Reason(z, Rows(d), Active(d), i) => Reason(z, Rows(b), Active(b), i)
  BY <1>4, MoreIsMore
<1>6. ASSUME NEW i, NEW p \in Issue, Typed(z, i, p, "parent-child"), p \in Flags(e) PROVE p \in Flags(b)
  <2>1. CASE p \in ids
    <3>1. p \in Active(d) /\ Reason(z, Rows(d), Active(d), p)
      BY <1>1, <1>2, <1>6, <2>1, ParentInheritsNothing
    <3>2. p \in Due(b)
      BY <1>3, <1>4, <1>5, <3>1
    <3> QED BY <3>2
  <2>2. CASE p \notin ids
    BY <1>1, <1>4, <1>6, <2>2
  <2> QED BY <2>1, <2>2
<1>7. ASSUME NEW i, i \in Due(e) PROVE i \in Flags(b)
  <2>1. Inherited(z, Rows(d), Flags(e), i) => Inherited(z, Rows(b), Flags(b), i)
    BY <1>4, <1>6 DEF Inherited
  <2>2. i \in Due(b)
    BY <1>2, <1>3, <1>4, <1>5, <1>7, <2>1
  <2> QED BY <2>2
<1>8. Shrunk(b, e)
  BY <1>1, <1>4, <1>7 DEF Shrunk
<1>9. Due(e) \subseteq Flags(e)
  <2> SUFFICES ASSUME NEW i \in Due(e) PROVE i \in Flags(e)
    OBVIOUS
  <2>1. i \in Active(d) /\ i \in Flags(b)
    BY <1>2, <1>7
  <2>2. i \in Flags(d)
    BY <2>1 DEF Follows
  <2> QED BY <1>1, <2>2
<1>10. Flags(e) \cap Active(b) \subseteq Active(e)
  <2>1. Flags(d) \cap Active(b) \subseteq Active(d) \cup ids
    BY DEF Follows
  <2> QED BY <1>1, <1>2, <2>1
<1>11. ASSUME NEW i \in Issue, NEW p \in Issue, <<i, p>> \in Rows(e), Typed(z, i, p, "parent-child"),
              p \in Flags(b), p \notin Flags(e)
       PROVE  i \notin Flags(e)
  <2>1. p \in Flags(d) /\ HasRow(z, p)
    BY <1>1, <1>11, ZenonT(30) DEF Follows, TidyDB
  <2>2. p \in ids
    BY <1>1, <1>11, <2>1
  <2>3. i \in Children(d, {p})
    BY <1>1, <1>11, ChildrenByType
  <2>4. i \in ids
    BY <2>1, <2>2, <2>3 DEF Follows, Covers
  <2>5. i \notin Due(e)
    BY <1>2, <1>11, <2>1, ChildHasNoReason, ZenonT(30)
  <2> QED BY <1>1, <2>4, <2>5
<1>12. \A i \in Active(e) : Touched(z, Rows(b), Active(b), Rows(e), Active(e), i) => i \in recheck
  BY <1>1 DEF Follows
<1> QED BY <1>8, <1>9, <1>10, <1>11, <1>12 DEF Lessens

-----------------------------------------------------------------------------
(* What the rows or the activity that d adds to b may have blocked is in ids. *)
Precedes(z, b, d, ids) ==
    /\ TidyDB(z, d) /\ Rows(b) \subseteq Rows(d) /\ Active(b) \subseteq Active(d) /\ Flags(b) = Flags(d)
    /\ Covers(z, ids, d)
    /\ \A i \in Active(d) : i \notin Active(b) \/ Touched(z, Rows(d), Active(d), Rows(b), Active(b), i)
            => i \in ids

(* o adds to b, leaves no issue unflagged that is due, and raises no wrong flag. *)
Enlarges(b, o) ==
    /\ Due(o) \subseteq Flags(o)
    /\ Flags(o) \ Due(o) \subseteq Flags(b) \ Due(b)

(***************************************************************************)
(* The recompute of ids, and the mark of ids that leaves the other flags   *)
(* up, both do: outside of ids the flags stay, and inside they are due.    *)
(***************************************************************************)
LEMMA ReflagEnlarges ==
    ASSUME NEW z, Tidy(z), NEW b, TidyDB(z, b), Due(b) \subseteq Flags(b), NEW d, NEW ids,
           Precedes(z, b, d, ids), NEW e, Reflagged(z, d, e),
           \A i : i \in Flags(e) => i \in Flags(d) \/ (i \in ids /\ i \in Due(e)),
           \A i : i \notin ids /\ i \in Flags(d) => i \in Flags(e),
           \A i \in ids : i \in Due(e) => i \in Flags(e),
           (\A i \in ids : i \in Flags(e) => i \in Due(e)) \/ Flags(d) \subseteq Flags(e)
    PROVE  Enlarges(b, e)
<1>1. /\ TidyDB(z, d) /\ TidyDB(z, e) /\ Rows(e) = Rows(d) /\ Active(e) = Active(d)
      /\ Rows(b) \subseteq Rows(d) /\ Active(b) \subseteq Active(d) /\ Flags(b) = Flags(d)
  BY DEF Precedes, Reflagged
<1>2. \A i : i \in Due(e) <=>
        i \in Active(d) /\ (Reason(z, Rows(d), Active(d), i) \/ Inherited(z, Rows(d), Flags(e), i))
  BY <1>1, DueByType
<1>3. \A i : i \in Due(b) <=>
        i \in Active(b) /\ (Reason(z, Rows(b), Active(b), i) \/ Inherited(z, Rows(b), Flags(b), i))
  BY DueByType
<1>4. ASSUME NEW i \in Issue, NEW p \in Issue, <<i, p>> \in Rows(d), Typed(z, i, p, "parent-child"),
             (p \in Flags(e)) # (p \in Flags(d)), p \in Flags(e) \/ p \in Flags(d)
      PROVE  i \in ids
  <2>1. p \in ids /\ HasRow(z, p)
    <3>1. p \in ids
      BY <1>4
    <3> QED BY <1>1, <1>4, <3>1, FlagHasRow, Zenon
  <2>2. i \in Children(d, {p})
    BY <1>1, <1>4, ChildrenByType, Zenon
  <2> QED BY <2>1, <2>2 DEF Precedes, Covers
<1>5. ASSUME NEW i \in Due(e), i \notin ids PROVE i \in Flags(e)
  <2>1. i \in Active(d) /\ i \in Issue
    BY <1>2, ZenonT(30) DEF Active, Live
  <2>2. i \in Active(b) /\ ~Touched(z, Rows(d), Active(d), Rows(b), Active(b), i)
    BY <1>5, <2>1 DEF Precedes
  <2>3. CASE Reason(z, Rows(d), Active(d), i)
    <3>1. Reason(z, Rows(b), Active(b), i)
      BY <2>2, <2>3, ReasonLost
    <3>2. i \in Due(b)
      BY <1>3, <2>2, <3>1
    <3> QED BY <1>1, <1>5, <3>2
  <2>4. CASE Inherited(z, Rows(d), Flags(e), i)
    <3>1. PICK p \in Issue : <<i, p>> \in Rows(d) /\ Typed(z, i, p, "parent-child") /\ p \in Flags(e)
      BY <2>4 DEF Inherited
    <3>2. <<i, p>> \in Rows(b)
      <4>1. ~Typed(z, i, p, "blocks")
        BY <3>1, TidyTypes
      <4> QED BY <2>2, <3>1, <4>1 DEF Touched
    <3>3. p \in Flags(b)
      BY <1>1, <1>4, <1>5, <2>1, <3>1
    <3>4. Inherited(z, Rows(b), Flags(b), i)
      BY <3>1, <3>2, <3>3 DEF Inherited
    <3>5. i \in Due(b)
      BY <1>3, <2>2, <3>4
    <3> QED BY <1>1, <1>5, <3>5
  <2> QED BY <1>2, <2>3, <2>4
<1>6. Due(e) \subseteq Flags(e)
  BY <1>5
<1>7. ASSUME NEW i, i \in Flags(e), i \notin Due(e) PROVE i \in Flags(b) /\ i \notin Due(b)
  <2>1. i \in Flags(b) /\ i \in Issue
    BY <1>1, <1>7 DEF Flags, Live
  <2>2. SUFFICES ASSUME i \in Due(b) PROVE FALSE
    BY <2>1
  <2>3. i \in Active(d) /\ (Reason(z, Rows(b), Active(b), i) \/ Inherited(z, Rows(b), Flags(b), i))
    BY <1>1, <1>3, <2>2
  <2>4. ~Reason(z, Rows(d), Active(d), i) /\ ~Inherited(z, Rows(d), Flags(e), i)
    BY <1>2, <1>7, <2>3
  <2>5. Reason(z, Rows(b), Active(b), i) => Reason(z, Rows(d), Active(d), i)
    BY <1>1, MoreIsMore
  <2>6. PICK p \in Issue : <<i, p>> \in Rows(b) /\ Typed(z, i, p, "parent-child") /\ p \in Flags(b)
    BY <2>3, <2>4, <2>5 DEF Inherited
  <2>7. <<i, p>> \in Rows(d) /\ p \in Flags(d) /\ p \notin Flags(e)
    BY <1>1, <2>4, <2>6 DEF Inherited
  <2>8. i \in ids
    BY <1>4, <2>1, <2>6, <2>7
  <2> QED BY <1>7, <2>7, <2>8
<1> QED BY <1>6, <1>7 DEF Enlarges

(* Every row has one of the three types. *)
LEMMA ThreeTypes ==
    ASSUME NEW z, Tidy(z), NEW d, TidyDB(z, d), NEW i \in Issue, NEW j \in Issue, <<i, j>> \in Rows(d)
    PROVE  Has(d, i, j, "blocks") \/ Has(d, i, j, "parent-child") \/ Has(d, i, j, "waits-for")
<1>1. d.dependencies[<<i, j>>] \in DepRow /\ d.dependencies[<<i, j>>] # NoRow
  <2>1. d.dependencies \in [Issue \X Issue -> DepRow \cup {NoRow}]
    BY DEF TidyDB, DB
  <2>2. d.dependencies[<<i, j>>] # NoRow
    BY RowByType, ZenonT(30)
  <2> QED BY <2>1, <2>2
<1>2. d.dependencies[<<i, j>>].type \in {"blocks", "parent-child", "waits-for"}
  BY <1>1 DEF DepRow
<1> QED BY <1>1, <1>2 DEF Has

(* What is grown downwards from a seed holds the seed and all its families. *)
Expanded(d, seed, skip, all) ==
    /\ seed \ skip \subseteq all
    /\ \A k \in all : k \in Issue /\ k \notin skip
    /\ \A p \in all, k \in Issue : Has(d, k, p, "parent-child") /\ k \notin skip => k \in all
    /\ \A k \in all : k \in seed \/ \E p \in Issue : Has(d, k, p, "parent-child")

LEMMA ExpandCovers ==
    ASSUME NEW z, Tidy(z), NEW d, TidyDB(z, d), NEW seed \in SUBSET Issue, NEW skip, NEW all,
           all = expandByParentChildDescendants(d, seed, skip)
    PROVE  Expanded(d, seed, skip, all)
<1>1. all = (seed \ skip) \cup (Children(d, seed \ skip) \ skip)
  BY ExpandTidy
<1>2. \A P \in SUBSET Issue : \A k : k \in Children(d, P) <=> k \in Issue /\ \E p \in P : Has(d, k, p, "parent-child")
  BY DEF Children, Sources
<1>3. \A k : k \in Children(d, seed \ skip) <=>
            k \in Issue /\ \E p \in seed \ skip : Has(d, k, p, "parent-child")
  BY <1>2
<1>4. ASSUME NEW p \in all, NEW k \in Issue, Has(d, k, p, "parent-child"), k \notin skip PROVE k \in all
  <2>1. CASE p \in seed \ skip
    BY <1>1, <1>3, <1>4, <2>1
  <2>2. CASE p \in Children(d, seed \ skip)
    <3>1. PICK q \in seed \ skip : Has(d, p, q, "parent-child")
      BY <1>3, <2>2
    <3>2. p \in Issue /\ q \in Issue
      BY <1>3, <2>2
    <3>3. Typed(z, p, q, "parent-child") /\ Typed(z, k, p, "parent-child")
      BY <1>4, <3>1, <3>2, RowByType, ZenonT(30)
    <3> QED BY <3>3, TidyTypes
  <2> QED BY <1>1, <2>1, <2>2
<1> QED BY <1>1, <1>3, <1>4, Zenon DEF Expanded

LEMMA CoversByRows ==
    ASSUME NEW z, Tidy(z), NEW d, TidyDB(z, d), NEW ids \in SUBSET Issue,
           \A p \in ids, k \in Issue : HasRow(z, p) /\ Has(d, k, p, "parent-child") => k \in ids
    PROVE  Covers(z, ids, d)
  BY DEF Covers, Children, Sources

(* What a change of the status of i may affect, with the families it heads. *)
AffectsAll(z, d, i, all) ==
    /\ i \in all /\ Covers(z, all, d) /\ Covers(z, all \ {i}, d) /\ all \in SUBSET Issue
    /\ \A k \in Issue : Has(d, k, i, "blocks") \/ Has(d, k, i, "waits-for") => k \in all
    /\ \A k, p \in Issue : Has(d, i, p, "parent-child") /\ Has(d, k, p, "waits-for") => k \in all

LEMMA StatusAffects ==
    ASSUME NEW z, Tidy(z), NEW d, TidyDB(z, d), NEW i \in Issue, NEW all, all = AffectedByStatusChange(d, i)
    PROVE  AffectsAll(z, d, i, all)
<1> DEFINE seed == {i} \cup Sources(d, {i}, "blocks") \cup Sources(d, Parents(d, {i}) \cup {i}, "waits-for")
<1>1. all = expandByParentChildDescendants(d, seed, {})
  BY DEF AffectedByStatusChange
<1>2. \A k : k \in seed <=> \/ k = i
                            \/ k \in Issue /\ (Has(d, k, i, "blocks") \/ Has(d, k, i, "waits-for"))
                            \/ k \in Issue /\ \E p \in Issue : Has(d, i, p, "parent-child") /\ Has(d, k, p, "waits-for")
  BY DEF Sources, Parents, Targets
<1>3. seed \in SUBSET Issue
  BY <1>2
<1> HIDE DEF seed
<1>4. /\ seed \subseteq all /\ all \in SUBSET Issue
      /\ \A p \in all, k \in Issue : Has(d, k, p, "parent-child") => k \in all
      /\ \A k \in all : k \in seed \/ \E p \in Issue : Has(d, k, p, "parent-child")
  <2>1. Expanded(d, seed, {}, all)
    BY <1>1, <1>3, ExpandCovers, Zenon
  <2> QED BY <2>1 DEF Expanded
<1>5. Covers(z, all, d)
  BY <1>4, CoversByRows
<1>6. ASSUME NEW p \in all, HasRow(z, p), Has(d, i, p, "parent-child") PROVE FALSE
  <2>1. p \in Issue /\ Typed(z, i, p, "parent-child")
    BY <1>4, <1>6, RowByType, ZenonT(30)
  <2>2. \A q \in Issue : ~Has(d, p, q, "parent-child")
    <3>1. \A q : ~Typed(z, p, q, "parent-child")
      BY <2>1, TidyTypes
    <3> QED BY <2>1, <3>1, RowByType, ZenonT(30)
  <2>3. p \in seed
    BY <1>4, <2>2
  <2>4. CASE p = i
    BY <2>1, <2>4, TidyTypes
  <2>5. CASE Has(d, p, i, "blocks") \/ Has(d, p, i, "waits-for")
    BY <2>1, <2>5, RowByType, NoRowToChild, ZenonT(30)
  <2>6. ASSUME NEW q \in Issue, Has(d, i, q, "parent-child"), Has(d, p, q, "waits-for") PROVE FALSE
    <3>1. Typed(z, i, q, "parent-child") /\ Typed(z, p, q, "waits-for")
      BY <2>1, <2>6, RowByType, ZenonT(30)
    <3>2. q = p
      BY <1>6, <2>1, <3>1, TidyTypes
    <3> QED BY <3>1, <3>2, TidyTypes
  <2> QED BY <1>2, <2>3, <2>4, <2>5, <2>6
<1>7. Covers(z, all \ {i}, d)
  BY <1>4, <1>6, CoversByRows
<1> QED BY <1>2, <1>4, <1>5, <1>7 DEF AffectsAll

-----------------------------------------------------------------------------
(* What a transaction that found the tables b and commits o does to the flags. *)
Works(z, b, o, adder, recheck) ==
    /\ TidyDB(z, o) /\ SameFamilies(z, b, o) /\ Covers(z, recheck, o)
    /\ Due(b) \subseteq Flags(b) => IF adder THEN Enlarges(b, o) ELSE Lessens(z, b, o, recheck)

LEMMA SameRowsSameFamilies ==
    ASSUME NEW z, Tidy(z), NEW b, TidyDB(z, b), NEW o, TidyDB(z, o), Rows(o) \subseteq Rows(b)
    PROVE  SameFamilies(z, b, o)
  BY ChildrenByType, Zenon DEF SameFamilies

LEMMA SameRowsCovered ==
    ASSUME NEW z, Tidy(z), NEW b, TidyDB(z, b), NEW o, TidyDB(z, o), Rows(o) \subseteq Rows(b),
           NEW ids \in SUBSET Issue, Covers(z, ids, b)
    PROVE  Covers(z, ids, o)
  BY SameRowsSameFamilies, Zenon DEF SameFamilies, Covers

(* A change that takes away and recomputes what that may touch. *)
LEMMA TakingWorks ==
    ASSUME NEW z, Tidy(z), NEW b, TidyDB(z, b), NEW d, NEW ids \in SUBSET Issue, NEW recheck \in SUBSET Issue,
           Follows(z, b, d, ids, recheck), Covers(z, recheck, d)
    PROVE  Works(z, b, RecomputeIsBlocked(d, ids), FALSE, recheck)
<1> DEFINE e == RecomputeIsBlocked(d, ids)
<1>1. TidyDB(z, d) /\ Rows(d) \subseteq Rows(b)
  BY DEF Follows
<1>2. Recomputed(z, d, ids, e)
  BY <1>1, RecomputeTidy
<1> HIDE DEF e
<1>3. TidyDB(z, e) /\ Rows(e) = Rows(d)
  BY <1>2 DEF Recomputed, Reflagged
<1>4. SameFamilies(z, b, e)
  BY <1>1, <1>3, SameRowsSameFamilies
<1>5. Covers(z, recheck, e)
  BY <1>1, <1>3, SameRowsCovered
<1>6. Due(b) \subseteq Flags(b) => Lessens(z, b, e, recheck)
  BY <1>2, RecomputeLessens
<1>7. Works(z, b, e, FALSE, recheck)
  BY <1>3, <1>4, <1>5, <1>6 DEF Works
<1> QED BY <1>7, Zenon DEF e

(* The flags of d, and of ids what is due besides. *)
MarkedOver(z, d, ids, e) ==
    /\ Reflagged(z, d, e) /\ Flags(d) \subseteq Flags(e)
    /\ \A i : i \in Flags(e) => i \in Flags(d) \/ (i \in ids /\ i \in Due(e))
    /\ \A i \in ids : i \in Due(e) => i \in Flags(e)

(* A change that adds and recomputes, or marks, what that may touch. *)
LEMMA AddingWorks ==
    ASSUME NEW z, Tidy(z), NEW b, TidyDB(z, b), NEW d, NEW ids \in SUBSET Issue,
           Precedes(z, b, d, ids), SameFamilies(z, b, d), NEW e,
           Recomputed(z, d, ids, e) \/ MarkedOver(z, d, ids, e)
    PROVE  Works(z, b, e, TRUE, {})
<1>1. TidyDB(z, d)
  BY DEF Precedes
<1>2. Reflagged(z, d, e)
  BY DEF Recomputed, MarkedOver
<1>3. TidyDB(z, e) /\ e.dependencies = d.dependencies
  BY <1>2 DEF Reflagged
<1>4. SameFamilies(z, b, e)
  BY <1>3, Zenon DEF SameFamilies, Children, Sources, Has
<1>5. Due(b) \subseteq Flags(b) => Enlarges(b, e)
  <2>1. CASE Recomputed(z, d, ids, e)
    BY <1>2, <2>1, ReflagEnlarges DEF Recomputed
  <2>2. CASE MarkedOver(z, d, ids, e)
    BY <1>2, <2>2, ReflagEnlarges DEF MarkedOver
  <2> QED BY <2>1, <2>2
<1> QED BY <1>3, <1>4, <1>5 DEF Works, Covers

(* A change of status affects the same issues before and after. *)
LEMMA StatusAffectsBoth ==
    ASSUME NEW z, Tidy(z), NEW b, TidyDB(z, b), NEW d, TidyDB(z, d), d.dependencies = b.dependencies,
           NEW i \in Issue, NEW all, all \in {AffectedByStatusChange(b, i), AffectedByStatusChange(d, i)}
    PROVE  AffectsAll(z, d, i, all)
<1>1. CASE all = AffectedByStatusChange(d, i)
  BY <1>1, StatusAffects, Zenon
<1>2. CASE all = AffectedByStatusChange(b, i)
  <2>1. AffectsAll(z, b, i, all)
    BY <1>2, StatusAffects, Zenon
  <2>2. \A k, p, type : Has(d, k, p, type) <=> Has(b, k, p, type)
    BY Zenon DEF Has
  <2>3. \A P : Children(d, P) = Children(b, P)
    BY <2>2 DEF Children, Sources
  <2>4. \A ids : Covers(z, ids, d) <=> Covers(z, ids, b)
    BY <2>3, Zenon DEF Covers
  <2> QED BY <2>1, <2>2, <2>4, Zenon DEF AffectsAll
<1> QED BY <1>1, <1>2

(* What the other changes of a snapshot are to its rows. *)
LEMMA SetStatusFacts ==
    ASSUME NEW d \in DB, NEW i \in Live(d), NEW status \in {"open", "closed", "pinned"}
    PROVE  /\ SetStatus(d, i, status) \in DB /\ SetStatus(d, i, status).dependencies = d.dependencies
           /\ \A p \in Issue : IsClosedRow(SetStatus(d, i, status).issues[p]) =>
                 IsClosedRow(d.issues[p]) \/ (p = i /\ status = "closed")
<1> DEFINE row == [d.issues[i] EXCEPT !.status = status]
           table == [d.issues EXCEPT ![i] = row]
<1>1. /\ d.issues \in [Issue -> IssueRow \cup {NoRow}] /\ i \in Issue
      /\ d.dependencies \in [Issue \X Issue -> DepRow \cup {NoRow}]
      /\ d = [issues |-> d.issues, dependencies |-> d.dependencies]
      /\ d.issues[i] \in IssueRow
  BY DEF DB, Live
<1>2. row \in IssueRow /\ row.status = status
  BY <1>1 DEF IssueRow
<1>3. SetStatus(d, i, status) = [issues |-> table, dependencies |-> d.dependencies]
  BY <1>1 DEF SetStatus
<1> HIDE DEF row
<1>4. /\ table \in [Issue -> IssueRow \cup {NoRow}] /\ table[i] = row
      /\ \A p \in Issue \ {i} : table[p] = d.issues[p]
  BY <1>1, <1>2
<1> HIDE DEF table
<1>5. \A p \in Issue : IsClosedRow(table[p]) => IsClosedRow(d.issues[p]) \/ (p = i /\ status = "closed")
  BY <1>2, <1>4 DEF IsClosedRow
<1> QED BY <1>1, <1>3, <1>4, <1>5 DEF DB

LEMMA SetRowFacts ==
    ASSUME NEW d \in DB, NEW i \in Issue, NEW j \in Issue, NEW row \in DepRow \cup {NoRow}
    PROVE  /\ SetRow(d, i, j, row) \in DB /\ SetRow(d, i, j, row).issues = d.issues
           /\ \A c, p \in Issue : SetRow(d, i, j, row).dependencies[<<c, p>>] =
                 IF c = i /\ p = j THEN row ELSE d.dependencies[<<c, p>>]
<1> DEFINE table == [d.dependencies EXCEPT ![<<i, j>>] = row]
<1>1. /\ d.issues \in [Issue -> IssueRow \cup {NoRow}]
      /\ d.dependencies \in [Issue \X Issue -> DepRow \cup {NoRow}]
      /\ d = [issues |-> d.issues, dependencies |-> d.dependencies]
  BY DEF DB
<1>2. SetRow(d, i, j, row) = [issues |-> d.issues, dependencies |-> table]
  <2>1. SetRow(d, i, j, row) = [d EXCEPT !.dependencies = table]
    BY Zenon DEF SetRow
  <2> HIDE DEF table
  <2> QED BY <1>1, <2>1
<1>3. table \in [Issue \X Issue -> DepRow \cup {NoRow}]
  BY <1>1
<1>4. ASSUME NEW c \in Issue, NEW p \in Issue
      PROVE  table[<<c, p>>] = IF c = i /\ p = j THEN row ELSE d.dependencies[<<c, p>>]
  <2>1. <<c, p>> \in Issue \X Issue /\ (<<c, p>> = <<i, j>> <=> c = i /\ p = j)
    OBVIOUS
  <2> QED BY <1>1, <2>1
<1> HIDE DEF table
<1> QED BY <1>1, <1>2, <1>3, <1>4 DEF DB

LEMMA WithoutFacts ==
    ASSUME NEW d \in DB, NEW i \in Issue
    PROVE  /\ Without(d, i) \in DB
           /\ \A p \in Issue : Without(d, i).issues[p] \in {d.issues[p], NoRow}
           /\ \A c, p \in Issue : Without(d, i).dependencies[<<c, p>>] \in {d.dependencies[<<c, p>>], NoRow}
<1> DEFINE issues == [d.issues EXCEPT ![i] = NoRow]
           deps == [p \in Issue \X Issue |-> IF i \in {p[1], p[2]} THEN NoRow ELSE d.dependencies[p]]
<1>1. /\ d.issues \in [Issue -> IssueRow \cup {NoRow}]
      /\ d.dependencies \in [Issue \X Issue -> DepRow \cup {NoRow}]
  BY DEF DB
<1>2. Without(d, i) = [issues |-> issues, dependencies |-> deps]
  BY DEF Without
<1>3. issues \in [Issue -> IssueRow \cup {NoRow}] /\ \A p \in Issue : issues[p] \in {d.issues[p], NoRow}
  BY <1>1
<1>4. deps \in [Issue \X Issue -> DepRow \cup {NoRow}]
  BY <1>1
<1>5. \A k \in Issue \X Issue : deps[k] \in {d.dependencies[k], NoRow}
  OBVIOUS
<1> HIDE DEF issues, deps
<1>6. \A c, p \in Issue : deps[<<c, p>>] \in {d.dependencies[<<c, p>>], NoRow}
  BY <1>5
<1> QED BY <1>2, <1>3, <1>4, <1>6 DEF DB

(* A recomputation of d, on top of which NoNews is asked only of d. *)
LEMMA RecomputeIsNoNews ==
    ASSUME NEW base, NEW d \in DB, NEW ids, NEW stamps, NoNews(base, d, stamps)
    PROVE  RecomputeIsBlocked(d, ids) \in DB /\ NoNews(base, RecomputeIsBlocked(d, ids), stamps)
<1>1. /\ RecomputeIsBlocked(d, ids) \in DB
      /\ RecomputeIsBlocked(d, ids).dependencies = d.dependencies
      /\ \A i \in Issue : IsClosedRow(RecomputeIsBlocked(d, ids).issues[i]) => IsClosedRow(d.issues[i])
  BY RecomputeFlagsOnly
<1> QED BY <1>1 DEF NoNews

LEMMA StatusIsNoNews ==
    ASSUME NEW d \in DB, NEW i \in Live(d), NEW status \in {"open", "closed", "pinned"}, NEW stamps,
           status = "closed" => <<i, "children">> \in stamps
    PROVE  SetStatus(d, i, status) \in DB /\ NoNews(d, SetStatus(d, i, status), stamps)
  BY SetStatusFacts DEF NoNews

-----------------------------------------------------------------------------
(* What the writes do to the tables. *)
StatusSet(z, b, d, i, status) ==
    /\ TidyDB(z, d) /\ d.dependencies = b.dependencies /\ Rows(d) = Rows(b)
    /\ Live(d) = Live(b) /\ Flags(d) = Flags(b) /\ i \in Issue
    /\ Active(d) = IF status = "open" THEN Active(b) \cup {i} ELSE Active(b) \ {i}

LEMMA StatusTidy ==
    ASSUME NEW z, Tidy(z), NEW b, TidyDB(z, b), NEW i \in Live(b), NEW status \in {"open", "closed", "pinned"},
           NEW d, d = SetStatus(b, i, status)
    PROVE  StatusSet(z, b, d, i, status)
<1>1. b \in DB
  BY DEF TidyDB
<1>2. d \in DB /\ d.dependencies = b.dependencies
  BY <1>1, SetStatusFacts
<1>3. i \in Issue /\ b.issues[i] # NoRow
  BY DEF Live
<1>4. b.issues \in [Issue -> IssueRow \cup {NoRow}] /\ b.issues[i] \in IssueRow
  BY <1>1, <1>3 DEF DB
<1>5. \A k \in Issue : d.issues[k] = IF k = i THEN [b.issues[i] EXCEPT !.status = status] ELSE b.issues[k]
  <2>1. d.issues = [b.issues EXCEPT ![i] = [b.issues[i] EXCEPT !.status = status]]
    BY <1>1 DEF SetStatus, DB
  <2> QED BY <1>4, <2>1
<1>6. /\ [b.issues[i] EXCEPT !.status = status] \in IssueRow
      /\ [b.issues[i] EXCEPT !.status = status].status = status
      /\ [b.issues[i] EXCEPT !.status = status].is_blocked = b.issues[i].is_blocked
  BY <1>4 DEF IssueRow
<1>7. /\ d.issues[i] # NoRow /\ d.issues[i].status = status /\ d.issues[i].is_blocked = b.issues[i].is_blocked
      /\ \A k \in Issue : k # i => d.issues[k] = b.issues[k]
  BY <1>3, <1>5, <1>6, NoRowAssumption, ZenonT(30)
<1>8. Live(d) = Live(b)
  BY <1>3, <1>7 DEF Live
<1>9. Flags(d) = Flags(b)
  BY <1>3, <1>7, <1>8 DEF Flags, Live
<1>10. Active(d) = IF status = "open" THEN Active(b) \cup {i} ELSE Active(b) \ {i}
  BY <1>3, <1>7, <1>8, ZenonT(30) DEF Active, Live
<1>11. Rows(d) = Rows(b)
  BY <1>2 DEF Rows
<1>12. TidyDB(z, d)
  <2>1. Flags(d) \subseteq Flags(b)
    BY <1>9
  <2>2. \A k, p \in Issue : d.dependencies[<<k, p>>] \in {b.dependencies[<<k, p>>], NoRow}
    BY <1>2
  <2> QED BY <1>2, <2>1, <2>2, StaysTidy, Zenon
<1> QED BY <1>2, <1>3, <1>8, <1>9, <1>10, <1>11, <1>12, Zenon DEF StatusSet

RowSet(z, b, d, i, j, row) ==
    /\ TidyDB(z, d) /\ Live(d) = Live(b) /\ Active(d) = Active(b) /\ Flags(d) = Flags(b)
    /\ Rows(d) = IF row = NoRow THEN Rows(b) \ {<<i, j>>} ELSE Rows(b) \cup {<<i, j>>}

LEMMA RowTidy ==
    ASSUME NEW z, Tidy(z), NEW b, TidyDB(z, b), NEW i \in Issue, NEW j \in Issue, NEW row \in DepRow \cup {NoRow},
           row = NoRow \/ \E e \in Declared(z) : e.from = i /\ e.to = j /\ e.row = row,
           NEW d, d = SetRow(b, i, j, row)
    PROVE  RowSet(z, b, d, i, j, row)
<1>1. b \in DB
  BY ZenonT(30) DEF TidyDB
<1>2. /\ d \in DB /\ d.issues = b.issues
      /\ \A c, p \in Issue : d.dependencies[<<c, p>>] = IF c = i /\ p = j THEN row ELSE b.dependencies[<<c, p>>]
  BY <1>1, SetRowFacts
<1>3. Live(d) = Live(b) /\ Active(d) = Active(b) /\ Flags(d) = Flags(b)
  BY <1>2, ZenonT(30) DEF Live, Active, Flags
<1>4. ASSUME NEW c \in Issue, NEW p \in Issue, d.dependencies[<<c, p>>] # NoRow
      PROVE  \E e \in Declared(z) : e.from = c /\ e.to = p /\ e.row = d.dependencies[<<c, p>>]
  <2>1. CASE c = i /\ p = j
    BY <1>2, <1>4, <2>1
  <2>2. CASE ~(c = i /\ p = j)
    BY <1>2, <1>4, <2>2, RowIsDeclared
  <2> QED BY <2>1, <2>2
<1>5. TidyDB(z, d)
  BY <1>2, <1>3, <1>4, FlagHasRow, Zenon DEF TidyDB
<1>6. ASSUME NEW c \in Issue, NEW p \in Issue
      PROVE  <<c, p>> \in Rows(d) <=>
                IF row = NoRow THEN <<c, p>> \in Rows(b) \ {<<i, j>>} ELSE <<c, p>> \in Rows(b) \cup {<<i, j>>}
  <2>1. (<<c, p>> \in Rows(d) <=> d.dependencies[<<c, p>>] # NoRow) /\ (<<c, p>> \in Rows(b) <=> b.dependencies[<<c, p>>] # NoRow)
    BY Zenon DEF Rows
  <2> QED BY <1>2, <2>1
<1>7. Rows(d) \subseteq Issue \X Issue /\ Rows(b) \subseteq Issue \X Issue /\ <<i, j>> \in Issue \X Issue
  BY DEF Rows
<1>8. Rows(d) = IF row = NoRow THEN Rows(b) \ {<<i, j>>} ELSE Rows(b) \cup {<<i, j>>}
  BY <1>6, <1>7
<1> QED BY <1>3, <1>5, <1>8, Zenon DEF RowSet

(* Tables without one issue. *)
RowsGone(z, b, d, i) ==
    /\ TidyDB(z, d) /\ Active(d) = Active(b) \ {i} /\ Flags(d) = Flags(b) \ {i}
    /\ Rows(d) \subseteq Issue \X Issue
    /\ \A c, p \in Issue : <<c, p>> \in Rows(d) <=> <<c, p>> \in Rows(b) /\ c # i /\ p # i

LEMMA GoneTidy ==
    ASSUME NEW z, Tidy(z), NEW b, TidyDB(z, b), NEW i \in Issue, NEW d, d = Without(b, i)
    PROVE  RowsGone(z, b, d, i)
<1>1. b \in DB
  BY DEF TidyDB
<1>2. d \in DB
  BY <1>1, WithoutFacts
<1>3. \A k \in Issue : d.issues[k] = IF k = i THEN NoRow ELSE b.issues[k]
  BY <1>1 DEF Without, DB
<1>4. \A c, p \in Issue : d.dependencies[<<c, p>>] = IF c = i \/ p = i THEN NoRow ELSE b.dependencies[<<c, p>>]
  BY <1>1 DEF Without, DB
<1>5. Active(d) = Active(b) \ {i} /\ Flags(d) = Flags(b) \ {i}
  BY <1>3 DEF Active, Flags, Live
<1>6. TidyDB(z, d)
  <2>1. \A c, p \in Issue : d.dependencies[<<c, p>>] \in {b.dependencies[<<c, p>>], NoRow}
    BY <1>4
  <2>2. Flags(d) \subseteq Flags(b)
    BY <1>5
  <2> QED BY <1>2, <2>1, <2>2, StaysTidy, Zenon
<1>7. \A c, p \in Issue : /\ <<c, p>> \in Rows(d) <=> d.dependencies[<<c, p>>] # NoRow
                          /\ <<c, p>> \in Rows(b) <=> b.dependencies[<<c, p>>] # NoRow
  BY DEF Rows
<1>8. Rows(d) \subseteq Issue \X Issue
  BY DEF Rows
<1>9. \A c, p \in Issue : <<c, p>> \in Rows(d) <=> <<c, p>> \in Rows(b) /\ c # i /\ p # i
  BY <1>4, <1>7, ZenonT(30)
<1> QED BY <1>5, <1>6, <1>8, <1>9, Zenon DEF RowsGone

(* A close, and an update that takes an issue out of the active ones. *)
LEMMA StopWorks ==
    ASSUME NEW z, Tidy(z), NEW b, TidyDB(z, b), NEW i \in Live(b), NEW status \in {"closed", "pinned"},
           NEW d, d = SetStatus(b, i, status),
           NEW all, all \in {AffectedByStatusChange(b, i), AffectedByStatusChange(d, i)}
    PROVE  Works(z, b, RecomputeIsBlocked(d, all), FALSE, all \ {i})
<1>1. /\ TidyDB(z, d) /\ d.dependencies = b.dependencies /\ Rows(d) = Rows(b) /\ Flags(d) = Flags(b)
      /\ Active(d) = Active(b) \ {i} /\ i \in Issue
  <2>1. status \in {"open", "closed", "pinned"} /\ status # "open"
    OBVIOUS
  <2>2. StatusSet(z, b, d, i, status)
    BY <2>1, StatusTidy, Zenon
  <2> QED BY <2>1, <2>2, Zenon DEF StatusSet
<1>2. /\ i \in all /\ Covers(z, all, d) /\ Covers(z, all \ {i}, d) /\ all \in SUBSET Issue
      /\ \A k \in Issue : Has(d, k, i, "blocks") \/ Has(d, k, i, "waits-for") => k \in all
      /\ \A k, p \in Issue : Has(d, i, p, "parent-child") /\ Has(d, k, p, "waits-for") => k \in all
  <2>1. TidyDB(z, d) /\ d.dependencies = b.dependencies /\ i \in Issue
    BY <1>1, Zenon
  <2>2. AffectsAll(z, d, i, all)
    BY <2>1, StatusAffectsBoth, ZenonT(60)
  <2> QED BY <2>2, Zenon DEF AffectsAll
<1>3. ASSUME NEW k \in Active(d), Touched(z, Rows(b), Active(b), Rows(d), Active(d), k) PROVE k \in all \ {i}
  <2>1. k \in Issue /\ k # i
    BY <1>1 DEF Active, Live
  <2>2. PICK j \in Issue : <<k, j>> \in Rows(d) /\
        \/ j = i /\ ~Typed(z, k, j, "parent-child")
        \/ Typed(z, k, j, "waits-for") /\ <<i, j>> \in Rows(d) /\ Typed(z, i, j, "parent-child")
    BY <1>1, <1>3, Zenon DEF Touched
  <2>3. CASE j = i /\ ~Typed(z, k, j, "parent-child")
    <3>1. Has(d, k, i, "blocks") \/ Has(d, k, i, "waits-for")
      BY <1>1, <2>1, <2>2, <2>3, ThreeTypes, RowByType, ZenonT(30)
    <3> QED BY <1>2, <2>1, <3>1
  <2>4. CASE Typed(z, k, j, "waits-for") /\ <<i, j>> \in Rows(d) /\ Typed(z, i, j, "parent-child")
    <3>1. Has(d, k, j, "waits-for") /\ Has(d, i, j, "parent-child")
      BY <1>1, <2>1, <2>2, <2>4, RowByType, ZenonT(30)
    <3> QED BY <1>2, <2>1, <3>1
  <2> QED BY <2>2, <2>3, <2>4
<1>4. Follows(z, b, d, all, all \ {i})
  BY <1>1, <1>2, <1>3 DEF Follows
<1> QED BY <1>2, <1>4, TakingWorks, Zenon

(* A reopen, and an update that makes an issue active. *)
LEMMA StartWorks ==
    ASSUME NEW z, Tidy(z), NEW b, TidyDB(z, b), NEW i \in Live(b), NEW d, d = SetStatus(b, i, "open"),
           NEW all, all \in {AffectedByStatusChange(b, i), AffectedByStatusChange(d, i)}
    PROVE  Works(z, b, RecomputeIsBlocked(d, all), TRUE, {})
<1>1. /\ TidyDB(z, d) /\ d.dependencies = b.dependencies /\ Rows(d) = Rows(b) /\ Flags(d) = Flags(b)
      /\ Active(d) = Active(b) \cup {i} /\ i \in Issue
  <2>1. "open" \in {"open", "closed", "pinned"}
    OBVIOUS
  <2>2. StatusSet(z, b, d, i, "open")
    BY <2>1, StatusTidy, Zenon
  <2> QED BY <2>1, <2>2, Zenon DEF StatusSet
<1>2. /\ i \in all /\ Covers(z, all, d) /\ Covers(z, all \ {i}, d) /\ all \in SUBSET Issue
      /\ \A k \in Issue : Has(d, k, i, "blocks") \/ Has(d, k, i, "waits-for") => k \in all
      /\ \A k, p \in Issue : Has(d, i, p, "parent-child") /\ Has(d, k, p, "waits-for") => k \in all
  <2>1. TidyDB(z, d) /\ d.dependencies = b.dependencies /\ i \in Issue
    BY <1>1, Zenon
  <2>2. AffectsAll(z, d, i, all)
    BY <2>1, StatusAffectsBoth, ZenonT(60)
  <2> QED BY <2>2, Zenon DEF AffectsAll
<1>3. ASSUME NEW k \in Active(d), Touched(z, Rows(d), Active(d), Rows(b), Active(b), k) PROVE k \in all
  <2>1. k \in Issue
    BY <1>1 DEF Active, Live
  <2>2. PICK j \in Issue : <<k, j>> \in Rows(d) /\
        \/ j = i /\ ~Typed(z, k, j, "parent-child")
        \/ Typed(z, k, j, "waits-for") /\ <<i, j>> \in Rows(d) /\ Typed(z, i, j, "parent-child")
    BY <1>1, <1>3, ZenonT(30) DEF Touched
  <2>3. CASE j = i /\ ~Typed(z, k, j, "parent-child")
    <3>1. Has(d, k, i, "blocks") \/ Has(d, k, i, "waits-for")
      BY <1>1, <2>1, <2>2, <2>3, ThreeTypes, RowByType, ZenonT(30)
    <3> QED BY <1>2, <2>1, <3>1
  <2>4. CASE Typed(z, k, j, "waits-for") /\ <<i, j>> \in Rows(d) /\ Typed(z, i, j, "parent-child")
    <3>1. Has(d, k, j, "waits-for") /\ Has(d, i, j, "parent-child")
      BY <1>1, <2>1, <2>2, <2>4, RowByType, ZenonT(30)
    <3> QED BY <1>2, <2>1, <3>1
  <2> QED BY <2>2, <2>3, <2>4
<1>4. Precedes(z, b, d, all)
  BY <1>1, <1>2, <1>3 DEF Precedes
<1>5. SameFamilies(z, b, d) /\ Recomputed(z, d, all, RecomputeIsBlocked(d, all))
  BY <1>1, SameRowsSameFamilies, RecomputeTidy
<1> QED BY <1>2, <1>4, <1>5, AddingWorks, Zenon

(* An update between two inactive statuses. *)
LEMMA StaysInactiveWorks ==
    ASSUME NEW z, Tidy(z), NEW b, TidyDB(z, b), NEW i \in Live(b), NEW status \in {"open", "closed", "pinned"},
           NEW d, d = SetStatus(b, i, status), (i \in Active(d)) = (i \in Active(b))
    PROVE  Works(z, b, d, FALSE, {})
<1>1. /\ TidyDB(z, d) /\ Rows(d) = Rows(b) /\ Flags(d) = Flags(b)
      /\ Active(d) = IF status = "open" THEN Active(b) \cup {i} ELSE Active(b) \ {i}
  BY StatusTidy DEF StatusSet
<1>2. Active(d) = Active(b)
  BY <1>1
<1>3. Shrunk(b, d) /\ Shrunk(d, b)
  BY <1>1, <1>2 DEF Shrunk
<1>4. Due(d) = Due(b)
  BY <1>1, <1>3, DueGrows
<1>5. \A k : ~Touched(z, Rows(b), Active(b), Rows(d), Active(d), k)
  BY <1>1, <1>2, Zenon DEF Touched
<1>6. Due(b) \subseteq Flags(b) => Lessens(z, b, d, {})
  BY <1>1, <1>2, <1>3, <1>4, <1>5 DEF Lessens
<1>7. SameFamilies(z, b, d)
  BY <1>1, SameRowsSameFamilies
<1> QED BY <1>1, <1>6, <1>7 DEF Works, Covers

(* The recheck of the recorded ids. *)
LEMMA RecheckWorks ==
    ASSUME NEW z, Tidy(z), NEW b, TidyDB(z, b), NEW ids \in SUBSET Issue, Covers(z, ids, b)
    PROVE  Works(z, b, RecomputeIsBlocked(b, ids), FALSE, {})
<1>1. \A k : ~Touched(z, Rows(b), Active(b), Rows(b), Active(b), k)
  BY Zenon DEF Touched
<1>2. Follows(z, b, b, ids, {})
  BY <1>1 DEF Follows
<1>3. Covers(z, {}, b)
  BY DEF Covers
<1> QED BY <1>2, <1>3, TakingWorks, Zenon

(* The removal of a row. *)
LEMMA RemoveWorks ==
    ASSUME NEW z, Tidy(z), NEW b, TidyDB(z, b), NEW i \in Issue, NEW j \in Issue, <<i, j>> \in Rows(b),
           NEW d, d = SetRow(b, i, j, NoRow),
           NEW all, all = AffectedByDepChange(d, i, j, b.dependencies[<<i, j>>].type)
    PROVE  Works(z, b, RecomputeIsBlocked(d, all), FALSE, all)
<1>1. /\ TidyDB(z, d) /\ Active(d) = Active(b) /\ Flags(d) = Flags(b)
      /\ Rows(d) = Rows(b) \ {<<i, j>>}
  <2>1. NoRow \in DepRow \cup {NoRow}
    OBVIOUS
  <2>2. RowSet(z, b, d, i, j, NoRow)
    BY <2>1, RowTidy, Zenon
  <2> QED BY <2>2, Zenon DEF RowSet
<1> DEFINE type == b.dependencies[<<i, j>>].type
           seed == IF type = "parent-child"
                   THEN {i} \cup Sources(d, {j}, "waits-for") \cup Children(d, ancestorChain(d, j))
                   ELSE {i}
<1>2. all = expandByParentChildDescendants(d, seed, {})
  BY DEF AffectedByDepChange
<1>3. /\ seed \in SUBSET Issue /\ i \in seed
      /\ type = "parent-child" => \A k \in Issue : Has(d, k, j, "waits-for") => k \in seed
  BY ZenonT(30) DEF Sources, Children
<1> HIDE DEF seed
<1>4. /\ seed \subseteq all /\ all \in SUBSET Issue
      /\ \A p \in all, k \in Issue : Has(d, k, p, "parent-child") => k \in all
  <2>1. Expanded(d, seed, {}, all)
    BY <1>1, <1>2, <1>3, ExpandCovers, Zenon
  <2> QED BY <2>1 DEF Expanded
<1>5. Covers(z, all, d)
  BY <1>1, <1>4, CoversByRows, ZenonT(30)
<1>6. ASSUME NEW k \in Active(d), Touched(z, Rows(b), Active(b), Rows(d), Active(d), k) PROVE k \in all
  <2>1. k \in Issue
    BY DEF Active, Live
  <2>2. SUFFICES ASSUME k # i PROVE k \in all
    BY <1>3, <1>4
  <2>3. PICK h \in Issue : /\ <<k, h>> \in Rows(b) /\ Typed(z, k, h, "waits-for")
                           /\ \E c \in Issue : /\ <<c, h>> \in Rows(b) /\ <<c, h>> \notin Rows(d)
                                               /\ Typed(z, c, h, "parent-child")
    BY <1>1, <1>6, <2>2, ZenonT(30) DEF Touched
  <2>4. h = j /\ Typed(z, i, j, "parent-child")
    BY <1>1, <2>3, Zenon
  <2>5. type = "parent-child"
    BY <2>4, RowByType, ZenonT(30) DEF Has
  <2>6. Has(d, k, j, "waits-for")
    BY <1>1, <2>1, <2>2, <2>3, <2>4, RowByType, ZenonT(30)
  <2> QED BY <1>3, <1>4, <2>1, <2>5, <2>6
<1>7. Follows(z, b, d, all, all)
  BY <1>1, <1>4, <1>5, <1>6, ZenonT(30) DEF Follows
<1> QED BY <1>4, <1>5, <1>7, TakingWorks, Zenon

(* The deletion of an issue. *)
LEMMA DeleteWorks ==
    ASSUME NEW z, Tidy(z), NEW b, TidyDB(z, b), NEW i \in Issue, NEW d, d = Without(b, i),
           NEW all, all = AffectedByDeletion(b, i)
    PROVE  Works(z, b, RecomputeIsBlocked(d, all), FALSE, all)
<1>1. /\ TidyDB(z, d) /\ Active(d) = Active(b) \ {i} /\ Flags(d) = Flags(b) \ {i}
      /\ Rows(d) \subseteq Issue \X Issue /\ Rows(b) \subseteq Issue \X Issue
      /\ \A c, p \in Issue : <<c, p>> \in Rows(d) <=> <<c, p>> \in Rows(b) /\ c # i /\ p # i
  <2>1. RowsGone(z, b, d, i)
    BY GoneTidy, Zenon
  <2>2. Rows(b) \subseteq Issue \X Issue
    BY DEF Rows
  <2> QED BY <2>1, <2>2, Zenon DEF RowsGone
<1> DEFINE seed == Sources(b, {i}, "blocks") \cup Sources(b, Parents(b, {i}) \cup {i}, "waits-for")
                    \cup Children(b, {i})
<1>2. all = expandByParentChildDescendants(b, seed, {i})
  BY DEF AffectedByDeletion
<1>3. /\ seed \in SUBSET Issue
      /\ \A k \in Issue : Has(b, k, i, "blocks") \/ Has(b, k, i, "parent-child") \/ Has(b, k, i, "waits-for")
            => k \in seed
      /\ \A k, p \in Issue : Has(b, i, p, "parent-child") /\ Has(b, k, p, "waits-for") => k \in seed
  BY DEF Sources, Children, Parents, Targets
<1> HIDE DEF seed
<1>4. /\ seed \ {i} \subseteq all /\ all \in SUBSET Issue
      /\ \A p \in all, k \in Issue : Has(b, k, p, "parent-child") /\ k # i => k \in all
  <2> DEFINE skip == {i}
  <2>1. all = expandByParentChildDescendants(b, seed, skip)
    BY <1>2
  <2> HIDE DEF skip
  <2>2. Expanded(b, seed, skip, all)
    BY <1>3, <2>1, ExpandCovers, Zenon
  <2> QED BY <2>2 DEF skip, Expanded
<1>5. Covers(z, all, d)
  <2>1. ASSUME NEW p \in all, NEW k \in Issue, Has(d, k, p, "parent-child") PROVE k \in all
    <3>1. <<k, p>> \in Rows(d) /\ Typed(z, k, p, "parent-child") /\ p \in Issue
      BY <1>1, <1>4, <2>1, RowByType, ZenonT(30)
    <3>2. k # i /\ <<k, p>> \in Rows(b)
      BY <1>1, <3>1
    <3>3. Has(b, k, p, "parent-child")
      BY <3>1, <3>2, RowByType, ZenonT(30)
    <3> QED BY <1>4, <3>2, <3>3
  <2> QED BY <1>1, <1>4, <2>1, CoversByRows
<1>6. ASSUME NEW k \in Active(d), Touched(z, Rows(b), Active(b), Rows(d), Active(d), k) PROVE k \in all
  <2>1. k \in Issue /\ k # i
    BY <1>1 DEF Active, Live
  <2>2. PICK h \in Issue : <<k, h>> \in Rows(b) /\
        \/ h = i
        \/ Typed(z, k, h, "waits-for") /\ <<i, h>> \in Rows(b) /\ Typed(z, i, h, "parent-child")
    BY <1>1, <1>6, <2>1, ZenonT(30) DEF Touched
  <2>3. CASE h = i
    BY <1>3, <1>4, <2>1, <2>2, <2>3, ThreeTypes
  <2>4. CASE Typed(z, k, h, "waits-for") /\ <<i, h>> \in Rows(b) /\ Typed(z, i, h, "parent-child")
    <3>1. Has(b, k, h, "waits-for") /\ Has(b, i, h, "parent-child")
      BY <2>1, <2>2, <2>4, RowByType, ZenonT(30)
    <3> QED BY <1>3, <1>4, <2>1, <3>1
  <2> QED BY <2>2, <2>3, <2>4
<1>7. Rows(d) \subseteq Rows(b)
  BY <1>1
<1>8. Follows(z, b, d, all, all)
  BY <1>1, <1>4, <1>5, <1>6, <1>7, ZenonT(30) DEF Follows
<1> QED BY <1>4, <1>5, <1>8, TakingWorks, Zenon

(* The flag of the source raised at once, and the rest marked. *)
LEMMA DirectMark ==
    ASSUME NEW z, Tidy(z), NEW d, TidyDB(z, d), NEW direct, NEW ids, NEW e,
           \A k \in direct : k \in Active(d) /\ HasRow(z, k) /\ Reason(z, Rows(d), Active(d), k),
           e = MarkIsBlocked(WithFlags(d, Flags(d) \cup direct), ids), NEW all, all = ids \cup direct
    PROVE  MarkedOver(z, d, all, e)
<1> DEFINE f == WithFlags(d, Flags(d) \cup direct)
<1>1. /\ TidyDB(z, f) /\ f.dependencies = d.dependencies /\ Live(f) = Live(d) /\ Active(f) = Active(d)
      /\ Rows(f) = Rows(d) /\ Flags(f) = (Flags(d) \cup direct) \cap Live(d)
  <2>1. \A k \in (Flags(d) \cup direct) \cap Live(d) : HasRow(z, k)
    BY ZenonT(30) DEF TidyDB
  <2>2. d \in DB
    BY Zenon DEF TidyDB
  <2> QED BY <2>1, <2>2, FlagFacts, TidyFlags
<1>2. e = MarkIsBlocked(f, ids)
  OBVIOUS
<1> HIDE DEF f
<1>3. Marked(z, f, ids, e)
  BY <1>1, <1>2, MarkTidy
<1>4. Reflagged(z, d, e)
  BY <1>1, <1>3 DEF Marked, Reflagged
<1>5. \A k : k \in Flags(e) <=> k \in Flags(f) \/ (k \in ids /\ k \in Due(e))
  BY <1>3 DEF Marked
<1>6. Flags(d) \subseteq Live(d) /\ direct \subseteq Live(d)
  BY Zenon DEF Flags, Active
<1>7. \A k \in direct : k \in Due(e)
  BY <1>4, DueByType DEF Reflagged
<1> QED BY <1>1, <1>4, <1>5, <1>6, <1>7 DEF MarkedOver

(* The add of a row, by type. *)
LEMMA AddWorks ==
    ASSUME NEW z, Tidy(z), NEW b, TidyDB(z, b), NEW i \in Issue, NEW j \in Issue, NEW row \in DepRow,
           NEW g \in z.edges, g.from = i, g.to = j, g.row = row, <<i, j>> \notin Rows(b)
    PROVE  Works(z, b, markAfterAdd(SetRow(b, i, j, row), i, j, row.type), TRUE, {})
<1> DEFINE d == SetRow(b, i, j, row)
           all == AffectedByDepChange(d, i, j, row.type)
           seed == IF row.type = "parent-child"
                   THEN {i} \cup Sources(d, {j}, "waits-for") \cup Children(d, ancestorChain(d, j))
                   ELSE {i}
<1>1. g \in Declared(z) /\ row # NoRow
  BY NoRowAssumption DEF Declared
<1>2. /\ TidyDB(z, d) /\ Active(d) = Active(b) /\ Flags(d) = Flags(b) /\ Rows(d) = Rows(b) \cup {<<i, j>>}
  <2>1. row \in DepRow \cup {NoRow} /\ \E e \in Declared(z) : e.from = i /\ e.to = j /\ e.row = row
    BY <1>1
  <2>2. RowSet(z, b, d, i, j, row)
    BY <2>1, RowTidy, Zenon
  <2> QED BY <1>1, <2>2, Zenon DEF RowSet
<1>3. Typed(z, i, j, row.type) /\ HasRow(z, i)
  BY <1>1 DEF Typed, HasRow
<1>4. all = expandByParentChildDescendants(d, seed, {})
  BY ZenonT(30) DEF AffectedByDepChange
<1>5. /\ seed \in SUBSET Issue /\ i \in seed
      /\ row.type = "parent-child" => \A k \in Issue : Has(d, k, j, "waits-for") => k \in seed
  BY ZenonT(30) DEF Sources, Children
<1>6. row.type \in {"blocks", "parent-child", "waits-for"}
  BY ZenonT(30) DEF DepRow
<1>7. row.type = "parent-child" => ~HasRow(z, j)
  BY <1>1, Zenon DEF Tidy, IsChildEdge, HasRow
<1>8. seed = {i} \/ row.type = "parent-child"
  BY ZenonT(30)
<1> HIDE DEF seed, d, all
<1>9. /\ seed \subseteq all /\ all \in SUBSET Issue
      /\ \A p \in all, k \in Issue : Has(d, k, p, "parent-child") => k \in all
      /\ \A k \in all : k \in seed \/ \E p \in Issue : Has(d, k, p, "parent-child")
  <2>1. Expanded(d, seed, {}, all)
    BY <1>2, <1>4, <1>5, ExpandCovers, Zenon
  <2> QED BY <2>1, Zenon DEF Expanded
<1>10. Covers(z, all, d)
  BY <1>2, <1>9, CoversByRows, Zenon
<1>11. SameFamilies(z, b, d)
  <2> SUFFICES ASSUME NEW p \in Issue, HasRow(z, p), NEW c \in Children(d, {p}) PROVE c \in Children(b, {p})
    BY DEF SameFamilies
  <2>1. c \in Issue /\ <<c, p>> \in Rows(d) /\ Typed(z, c, p, "parent-child")
    BY <1>2, ChildrenByType, ZenonT(30)
  <2>2. ASSUME c = i, p = j PROVE row.type = "parent-child"
    <3>1. Typed(z, i, j, "parent-child")
      BY <2>1, <2>2, Zenon
    <3>2. \A t : Typed(z, i, j, t) => t = row.type
      BY <1>3, TidyTypes, Zenon
    <3> QED BY <3>1, <3>2, Zenon
  <2>3. <<c, p>> \in Rows(b)
    BY <1>2, <1>7, <2>1, <2>2, Zenon
  <2> QED BY <2>1, <2>3, ChildrenByType, Zenon
<1>12. ASSUME NEW k \in Active(d), Touched(z, Rows(d), Active(d), Rows(b), Active(b), k)
       PROVE  k \in all /\ (row.type = "blocks" => k = i /\ j \in Active(d))
  <2>1. k \in Issue
    BY DEF Active, Live
  <2>2. PICK h \in Issue : <<k, h>> \in Rows(d) /\
          \/ k = i /\ h = j /\ (Typed(z, k, h, "blocks") => h \in Active(d))
          \/ h = j /\ Typed(z, k, h, "waits-for") /\ Typed(z, i, j, "parent-child")
    BY <1>2, <1>12, ZenonT(30) DEF Touched
  <2>3. CASE k = i /\ h = j /\ (Typed(z, k, h, "blocks") => h \in Active(d))
    BY <1>3, <1>5, <1>9, <2>3, ZenonT(30)
  <2>4. CASE h = j /\ Typed(z, k, h, "waits-for") /\ Typed(z, i, j, "parent-child")
    <3>1. row.type = "parent-child"
      BY <1>3, <2>4, TidyTypes, Zenon
    <3>2. Has(d, k, j, "waits-for")
      BY <1>2, <2>1, <2>2, <2>4, RowByType, ZenonT(30)
    <3> QED BY <1>5, <1>9, <2>1, <3>1, <3>2
  <2> QED BY <2>2, <2>3, <2>4, ZenonT(30)
<1>13. Precedes(z, b, d, all)
  BY <1>2, <1>10, <1>12, ZenonT(30) DEF Precedes
<1>14. CASE row.type = "parent-child"
  <2>1. markAfterAdd(d, i, j, row.type) = RecomputeIsBlocked(d, all)
    BY <1>14, ZenonT(30) DEF markAfterAdd, all
  <2>2. Recomputed(z, d, all, RecomputeIsBlocked(d, all))
    BY <1>2, RecomputeTidy, Zenon
  <2>3. Works(z, b, RecomputeIsBlocked(d, all), TRUE, {})
    BY <1>9, <1>11, <1>13, <2>2, AddingWorks, Zenon
  <2> QED BY <2>1, <2>3, ZenonT(30) DEF d
<1>15. CASE row.type = "waits-for"
  <2> DEFINE none == {}
             e == MarkIsBlocked(WithFlags(d, Flags(d) \cup none), all)
  <2>1. markAfterAdd(d, i, j, row.type) = e
    BY <1>15, ZenonT(30) DEF markAfterAdd, all
  <2>2. \A k \in none : k \in Active(d) /\ HasRow(z, k) /\ Reason(z, Rows(d), Active(d), k)
    OBVIOUS
  <2>3. all \cup none = all
    OBVIOUS
  <2> HIDE DEF none
  <2>4. MarkedOver(z, d, all, e)
    BY <1>2, <2>2, <2>3, DirectMark, ZenonT(30)
  <2> HIDE DEF e
  <2>5. Works(z, b, e, TRUE, {})
    BY <1>9, <1>11, <1>13, <2>4, AddingWorks, Zenon
  <2> QED BY <2>1, <2>5, Zenon DEF d
<1>16. CASE row.type = "blocks"
  <2> DEFINE direct == IF {i, j} \subseteq Active(d) THEN {i} ELSE {}
             ids == (all \ {i}) \cup direct
             e == MarkIsBlocked(WithFlags(d, Flags(d) \cup direct), all \ {i})
  <2>1. markAfterAdd(d, i, j, row.type) = e
    BY <1>16, ZenonT(30) DEF markAfterAdd, all
  <2>2. \A k \in direct : k \in Active(d) /\ HasRow(z, k) /\ Reason(z, Rows(d), Active(d), k)
    BY <1>2, <1>3, <1>16, ZenonT(30) DEF Reason
  <2>3. ids \in SUBSET Issue
    BY <1>9, ZenonT(30)
  <2>4. i \in Active(d) /\ j \in Active(d) => i \in ids
    OBVIOUS
  <2>5. \A k \in ids : k \in all
    BY <1>5, <1>9
  <2>6. \A k \in all : k # i => k \in ids
    OBVIOUS
  <2> HIDE DEF direct
  <2>7. MarkedOver(z, d, ids, e)
    BY <1>2, <2>2, DirectMark, ZenonT(30)
  <2> HIDE DEF e, ids
  <2>8. Covers(z, ids, d)
    <3>1. ASSUME NEW p \in ids, NEW k \in Issue, Has(d, k, p, "parent-child") PROVE k \in ids
      <4>1. k \in all
        BY <1>9, <2>5, <3>1
      <4>2. k # i
        <5> SUFFICES ASSUME k = i PROVE FALSE
          OBVIOUS
        <5>1. p \in Issue /\ Typed(z, i, p, "parent-child")
          BY <1>2, <2>3, <3>1, RowByType, ZenonT(30)
        <5>2. \A q : ~Typed(z, p, q, "parent-child")
          BY <5>1, TidyTypes, Zenon
        <5>3. \A q \in Issue : ~Has(d, p, q, "parent-child")
          BY <1>2, <5>1, <5>2, RowByType, ZenonT(30)
        <5>4. p = i
          BY <1>8, <1>9, <1>16, <2>5, <5>3, ZenonT(30)
        <5> QED BY <5>1, <5>4, TidyTypes
      <4> QED BY <2>6, <4>1, <4>2
    <3> QED BY <1>2, <2>3, <3>1, CoversByRows, ZenonT(30)
  <2>9. Precedes(z, b, d, ids)
    <3>1. \A k \in Active(d) : Touched(z, Rows(d), Active(d), Rows(b), Active(b), k) => k \in ids
      BY <1>12, <1>16, <2>4, ZenonT(30)
    <3> QED BY <1>2, <2>8, <3>1, ZenonT(30) DEF Precedes
  <2>10. Works(z, b, e, TRUE, {})
    BY <1>11, <2>3, <2>7, <2>9, AddingWorks, Zenon
  <2> QED BY <2>1, <2>10, Zenon DEF d
<1> QED BY <1>6, <1>14, <1>15, <1>16, Zenon

=============================================================================
