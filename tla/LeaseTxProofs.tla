---------------------------- MODULE LeaseTxProofs ----------------------------
(***************************************************************************)
(* The theorems about LeaseTx and LeaseTies.  First what a commit does to  *)
(* the rows of one issue, and with it every step of LeaseTx: a row the     *)
(* transaction left alone merges to the committed row; a row it rewrote    *)
(* commits only over the very row it read, because every rewrite stores a  *)
(* row_lock that no other row carries (RewriteStep).                       *)
(*                                                                         *)
(* IndInv is inductive because every commit is a SafeStep; with it every   *)
(* commit is one operation of the serial store, from which the action      *)
(* properties follow.  LeaseTies keeps less than IndInv: what the row_lock *)
(* alone guarantees is proved apart.                                       *)
(***************************************************************************)
EXTENDS LeaseTies, TLAPS

-----------------------------------------------------------------------------
(***************************************************************************)
(* Merging, and the steps that rewrite a row and drop or keep its lease.   *)
(***************************************************************************)

(* A step that only ends transactions, or opens them on the committed rows, keeps row versions. *)
LEMMA VersionsKept ==
    ASSUME RowVersionIdentifiesRow, db' = db,
           \A z \in Session : tx'[z] # NoTx => \/ tx[z] # NoTx /\ tx'[z] = tx[z]
                                             \/ tx'[z].snap = db
    PROVE  RowVersionIdentifiesRow'
  BY DEF RowVersionIdentifiesRow, Exists

(* A row that a transaction leaves as it read it merges to the committed row. *)
LEMMA UntouchedIssue ==
    ASSUME NEW b \in IssueRow \cup {NoRow}, NEW t \in IssueRow \cup {NoRow}
    PROVE  ~RowConflict(b, b, t) /\ RowMerge(b, b, t) = t
<1>1. CASE NoRow \in {b, t}
  BY <1>1 DEF RowConflict, RowMerge, CellConflict, CellMerge
<1>2. CASE NoRow \notin {b, t}
  <2>1. b \in IssueRow /\ t \in IssueRow
    BY <1>2
  <2>2. DOMAIN b = DOMAIN t /\ t = [c \in DOMAIN t |-> t[c]]
    BY <2>1 DEF IssueRow
  <2>3. \A c \in DOMAIN b : CellMerge(b[c], b[c], t[c]) = t[c] /\ ~CellConflict(b[c], b[c], t[c])
    BY DEF CellMerge, CellConflict
  <2> QED BY <1>2, <2>2, <2>3 DEF RowConflict, RowMerge
<1> QED BY <1>1, <1>2

(* A write that stores a fresh row_lock commits only over the row it read: RowLockClause. *)
LEMMA RewrittenIssue ==
    ASSUME NEW b \in IssueRow, NEW o \in IssueRow \cup {NoRow}, NEW t \in IssueRow \cup {NoRow},
           o # NoRow => o.row_lock # b.row_lock,
           o # NoRow /\ t # NoRow => o.row_lock # t.row_lock,
           t # NoRow /\ t.row_lock = b.row_lock => t = b,
           ~RowConflict(b, o, t)
    PROVE  /\ RowMerge(b, o, t) = o
           /\ t = b \/ (t = NoRow /\ o = NoRow)
<1>0. b # NoRow
  BY NoRowAssumption
<1>1. CASE t = NoRow
  BY <1>1, <1>0 DEF RowConflict, RowMerge, CellConflict, CellMerge
<1>2. CASE t # NoRow /\ o = NoRow
  BY <1>2, <1>0 DEF RowConflict, RowMerge, CellConflict, CellMerge
<1>3. CASE t # NoRow /\ o # NoRow
  <2>1. NoRow \notin {b, o, t} /\ o \in IssueRow /\ t \in IssueRow
    BY <1>3, <1>0
  <2>2. "row_lock" \in DOMAIN b
    BY DEF IssueRow
  <2>3. t.row_lock = b.row_lock
    BY <2>1, <2>2, <1>3 DEF RowConflict, CellConflict
  <2>4. t = b
    BY <2>3, <1>3
  <2>5. DOMAIN b = DOMAIN o /\ o = [c \in DOMAIN o |-> o[c]]
    BY <2>1 DEF IssueRow
  <2>6. \A c \in DOMAIN b : CellMerge(b[c], o[c], t[c]) = o[c]
    BY <2>4 DEF CellMerge
  <2> QED BY <2>1, <2>4, <2>5, <2>6 DEF RowMerge
<1> QED BY <1>1, <1>2, <1>3

-------------------------------------------------------------------------------
(* The same two facts for the lease table, whose rows carry no row_lock. *)

(* A lease row the transaction left alone keeps what others committed. *)
LEMMA UntouchedLease ==
    ASSUME NEW b \in LeaseRow \cup {NoRow}, NEW t \in LeaseRow \cup {NoRow}
    PROVE  ~RowConflict(b, b, t) /\ RowMerge(b, b, t) = t
<1>1. CASE NoRow \in {b, t}
  BY <1>1 DEF RowConflict, RowMerge, CellConflict, CellMerge
<1>2. CASE NoRow \notin {b, t}
  <2>1. b \in LeaseRow /\ t \in LeaseRow
    BY <1>2
  <2>2. DOMAIN b = DOMAIN t /\ t = [c \in DOMAIN t |-> t[c]]
    BY <2>1 DEF LeaseRow
  <2>3. \A c \in DOMAIN b : CellMerge(b[c], b[c], t[c]) = t[c] /\ ~CellConflict(b[c], b[c], t[c])
    BY DEF CellMerge, CellConflict
  <2> QED BY <1>2, <2>2, <2>3 DEF RowConflict, RowMerge
<1> QED BY <1>1, <1>2

(* A lease that the transaction deleted, or did not see, is gone. *)
LEMMA DroppedLease ==
    ASSUME NEW b \in LeaseRow \cup {NoRow}, NEW t \in LeaseRow \cup {NoRow},
           b = NoRow => t = NoRow, ~RowConflict(b, NoRow, t)
    PROVE  RowMerge(b, NoRow, t) = NoRow /\ (t = b \/ t = NoRow)
BY DEF RowConflict, RowMerge, CellConflict, CellMerge

(* A lease granted where there was none is the one granted. *)
LEMMA GrantedLease ==
    ASSUME NEW o \in LeaseRow
    PROVE  RowMerge(NoRow, o, NoRow) = o
BY NoRowAssumption DEF RowMerge, CellMerge

(* Two versions of one lease row merge to a lease row, cell by cell. *)
LEMMA MergedLease ==
    ASSUME NEW b \in LeaseRow, NEW o \in LeaseRow, NEW t \in LeaseRow
    PROVE  /\ RowMerge(b, o, t) \in LeaseRow
           /\ RowMerge(b, o, t).holder = CellMerge(b.holder, o.holder, t.holder)
           /\ RowMerge(b, o, t).expires = CellMerge(b.expires, o.expires, t.expires)
<1>1. NoRow \notin {b, o, t}
  BY NoRowAssumption
<1>2. RowMerge(b, o, t) = [c \in DOMAIN b |-> CellMerge(b[c], o[c], t[c])]
  BY <1>1 DEF RowMerge
<1>3. DOMAIN b = {"holder", "expires", "granted_node"}
  BY DEF LeaseRow
<1>4. RowMerge(b, o, t) = [holder |-> CellMerge(b.holder, o.holder, t.holder),
                           expires |-> CellMerge(b.expires, o.expires, t.expires),
                           granted_node |-> CellMerge(b.granted_node, o.granted_node, t.granted_node)]
  BY <1>2, <1>3
<1>5. /\ CellMerge(b.holder, o.holder, t.holder) \in Actor
      /\ CellMerge(b.expires, o.expires, t.expires) \in Nat
      /\ CellMerge(b.granted_node, o.granted_node, t.granted_node) \in Node \cup {NoNode}
  BY DEF CellMerge, LeaseRow
<1> QED BY <1>4, <1>5 DEF LeaseRow

(* actorMatches is an equivalence. *)
LEMMA MatchesIsEquivalence ==
    ASSUME NEW a, NEW b, NEW c, ActorMatches(a, b)
    PROVE  ActorMatches(b, a) /\ (ActorMatches(b, c) => ActorMatches(a, c))
BY DEF ActorMatches

(* Two live claims on one row are by one actor, up to the spelling. *)
LEMMA OneClaimant ==
    ASSUME NEW row, NEW a, NEW b, LiveClaim(row, a)
    PROVE  LiveClaim(row, b) <=> ActorMatches(a, b)
BY MatchesIsEquivalence, Zenon DEF LiveClaim

-------------------------------------------------------------------------------
(* Commits *)

(***************************************************************************)
(* A transaction that wrote the rows of one issue: everything else in its  *)
(* snapshot merges to the committed tables.                                *)
(***************************************************************************)
LEMMA CommitPut ==
    ASSUME TypeOK, NEW s \in Session, tx[s] # NoTx, NEW i \in Issue,
           NEW o \in IssueRow \cup {NoRow}, NEW l \in LeaseRow \cup {NoRow},
           Commit(s, Put(tx[s].snap, i, o, l))
    PROVE  LET b == tx[s].snap IN
           /\ ~RowConflict(b.issues[i], o, db.issues[i])
           /\ ~RowConflict(b.leases[i], l, db.leases[i])
           /\ db' = Put(db, i, RowMerge(b.issues[i], o, db.issues[i]),
                               RowMerge(b.leases[i], l, db.leases[i]))
<1> DEFINE b == tx[s].snap
           ours == Put(b, i, o, l)
<1>1. b \in DB /\ db \in DB
  BY DEF TypeOK, Transaction
<1>2. /\ b.issues \in [Issue -> IssueRow \cup {NoRow}] /\ b.leases \in [Issue -> LeaseRow \cup {NoRow}]
      /\ db.issues \in [Issue -> IssueRow \cup {NoRow}] /\ db.leases \in [Issue -> LeaseRow \cup {NoRow}]
      /\ db = [issues |-> db.issues, leases |-> db.leases]
  BY <1>1 DEF DB
<1>3. /\ ours.issues = [b.issues EXCEPT ![i] = o]
      /\ ours.leases = [b.leases EXCEPT ![i] = l]
  BY DEF Put
<1>4. /\ ~TableConflict(b.issues, ours.issues, db.issues)
      /\ ~TableConflict(b.leases, ours.leases, db.leases)
      /\ db' = [issues |-> TableMerge(b.issues, ours.issues, db.issues),
                leases |-> TableMerge(b.leases, ours.leases, db.leases)]
  BY DEF Commit, Conflict
<1> HIDE DEF b, ours
<1>5. ~RowConflict(b.issues[i], o, db.issues[i]) /\ ~RowConflict(b.leases[i], l, db.leases[i])
  BY <1>2, <1>3, <1>4 DEF TableConflict
<1>6. TableMerge(b.issues, ours.issues, db.issues)
        = [db.issues EXCEPT ![i] = RowMerge(b.issues[i], o, db.issues[i])]
  <2>0. \A k \in Issue : k # i => ours.issues[k] = b.issues[k]
    BY <1>2, <1>3
  <2>1. \A k \in Issue : k # i => RowMerge(b.issues[k], ours.issues[k], db.issues[k]) = db.issues[k]
    <3>1. \A k \in Issue : RowMerge(b.issues[k], b.issues[k], db.issues[k]) = db.issues[k]
      BY <1>2, UntouchedIssue, Zenon
    <3> QED BY <2>0, <3>1
  <2>2. RowMerge(b.issues[i], ours.issues[i], db.issues[i]) = RowMerge(b.issues[i], o, db.issues[i])
    BY <1>2, <1>3
  <2>3. DOMAIN b.issues = Issue
    BY <1>2
  <2> QED BY <1>2, <2>1, <2>2, <2>3 DEF TableMerge
<1>7. TableMerge(b.leases, ours.leases, db.leases)
        = [db.leases EXCEPT ![i] = RowMerge(b.leases[i], l, db.leases[i])]
  <2>0. \A k \in Issue : k # i => ours.leases[k] = b.leases[k]
    BY <1>2, <1>3
  <2>1. \A k \in Issue : k # i => RowMerge(b.leases[k], ours.leases[k], db.leases[k]) = db.leases[k]
    <3>1. \A k \in Issue : RowMerge(b.leases[k], b.leases[k], db.leases[k]) = db.leases[k]
      BY <1>2, UntouchedLease, Zenon
    <3> QED BY <2>0, <3>1
  <2>2. RowMerge(b.leases[i], ours.leases[i], db.leases[i]) = RowMerge(b.leases[i], l, db.leases[i])
    BY <1>2, <1>3
  <2>3. DOMAIN b.leases = Issue
    BY <1>2
  <2> QED BY <1>2, <2>1, <2>2, <2>3 DEF TableMerge
<1> QED BY <1>4, <1>5, <1>6, <1>7 DEF Put, b

(* A minted row_lock is one that no row, committed or in a snapshot, carries. *)
LEMMA FreshLock ==
    ASSUME NEW lk \in FreshLocks
    PROVE  /\ lk \in RowLock
           /\ \A i \in Issue : Exists(db, i) => db.issues[i].row_lock # lk
           /\ \A s \in Session, i \in Issue :
                  tx[s] # NoTx /\ Exists(tx[s].snap, i) => tx[s].snap.issues[i].row_lock # lk
<1>1. lk \in RowLock \ UsedLocks
  BY MintAssumption DEF FreshLocks
<1> QED BY <1>1 DEF UsedLocks, LocksOf

(***************************************************************************)
(* The heart of the argument.  A transaction that rewrites or deletes a    *)
(* row it read commits only if the row is still the one it read (or, for a *)
(* delete, is already gone): whoever changed it also changed row_lock, and *)
(* both minted values differ.                                              *)
(***************************************************************************)
LEMMA RewriteStep ==
    ASSUME IndInv, NEW s \in Session, tx[s] # NoTx, NEW i \in Issue, Exists(tx[s].snap, i),
           NEW o \in IssueRow \cup {NoRow}, NEW l \in LeaseRow \cup {NoRow},
           o # NoRow => o.row_lock \in FreshLocks,
           Commit(s, Put(tx[s].snap, i, o, l))
    PROVE  LET b == tx[s].snap IN
           /\ db' = Put(db, i, o, RowMerge(b.leases[i], l, db.leases[i]))
           /\ ~RowConflict(b.leases[i], l, db.leases[i])
           /\ b.leases[i] = NoRow => db.leases[i] = NoRow
           /\ \/ db.issues[i] = b.issues[i] /\ (db.leases[i] = NoRow => b.leases[i] = NoRow)
              \/ o = NoRow /\ db.issues[i] = NoRow
<1> DEFINE b == tx[s].snap
<1>1. TypeOK
  BY DEF IndInv
<1>2. /\ b.issues[i] \in IssueRow
      /\ db.issues[i] \in IssueRow \cup {NoRow}
  BY <1>1 DEF TypeOK, Transaction, DB, Exists
<1>3. /\ ~RowConflict(b.issues[i], o, db.issues[i])
      /\ ~RowConflict(b.leases[i], l, db.leases[i])
      /\ db' = Put(db, i, RowMerge(b.issues[i], o, db.issues[i]),
                         RowMerge(b.leases[i], l, db.leases[i]))
  BY <1>1, CommitPut
<1>4. o # NoRow => /\ o.row_lock # b.issues[i].row_lock
                   /\ db.issues[i] # NoRow => o.row_lock # db.issues[i].row_lock
  BY FreshLock DEF Exists
<1>5. db.issues[i] # NoRow /\ db.issues[i].row_lock = b.issues[i].row_lock
        => /\ db.issues[i] = b.issues[i]
           /\ (b.leases[i] = NoRow) <=> (db.leases[i] = NoRow)
  BY DEF IndInv, RowVersionIdentifiesRow, Exists
<1>6. /\ RowMerge(b.issues[i], o, db.issues[i]) = o
      /\ db.issues[i] = b.issues[i] \/ (db.issues[i] = NoRow /\ o = NoRow)
  <2> HIDE DEF b
  <2> QED BY <1>2, <1>3, <1>4, <1>5, RewrittenIssue
<1>7. db.issues[i] = NoRow => db.leases[i] = NoRow
  BY DEF IndInv, LeaseBacksLiveClaim, LeasesBacked, LiveClaim
<1>8. db.issues[i] = b.issues[i] => ((b.leases[i] = NoRow) <=> (db.leases[i] = NoRow))
  BY <1>5 DEF Exists
<1> HIDE DEF b
<1>9. /\ db' = Put(db, i, o, RowMerge(b.leases[i], l, db.leases[i]))
      /\ ~RowConflict(b.leases[i], l, db.leases[i])
      /\ b.leases[i] = NoRow => db.leases[i] = NoRow
      /\ \/ db.issues[i] = b.issues[i] /\ (db.leases[i] = NoRow => b.leases[i] = NoRow)
         \/ o = NoRow /\ db.issues[i] = NoRow
  BY <1>3, <1>6, <1>7, <1>8
<1> QED BY <1>9 DEF b

-------------------------------------------------------------------------------
(* Steps *)

(***************************************************************************)
(* Every issue the step touched got a new row_lock or is gone; where the   *)
(* row stayed, so did the fact that it has a lease.                        *)
(***************************************************************************)
Minted ==
    \A i \in Issue :
        \/ /\ db'.issues[i] = db.issues[i]
           /\ (db'.leases[i] = NoRow) <=> (db.leases[i] = NoRow)
        \/ db'.issues[i] = NoRow
        \/ db'.issues[i].row_lock \in FreshLocks

(* What every committing step is shown to do. *)
SafeStep == db' \in DB /\ LeasesBacked(db') /\ Minted

(* Rewriting one issue and its lease keeps the invariant when the lease is backed
   and the issue row is unchanged, gone or under a fresh row_lock. *)
LEMMA PutStep ==
    ASSUME db \in DB, LeasesBacked(db), NEW i \in Issue,
           NEW o \in IssueRow \cup {NoRow}, NEW l \in LeaseRow \cup {NoRow},
           db' = Put(db, i, o, l),
           l # NoRow => LiveClaim(o, l.holder),
           \/ o = db.issues[i] /\ ((l = NoRow) <=> (db.leases[i] = NoRow))
           \/ o = NoRow
           \/ o.row_lock \in FreshLocks
    PROVE  SafeStep
<1>1. /\ db.issues \in [Issue -> IssueRow \cup {NoRow}]
      /\ db.leases \in [Issue -> LeaseRow \cup {NoRow}]
  BY DEF DB
<1>2. /\ db'.issues = [db.issues EXCEPT ![i] = o]
      /\ db'.leases = [db.leases EXCEPT ![i] = l]
      /\ db' = [issues |-> db'.issues, leases |-> db'.leases]
  BY DEF Put
<1>3. db' \in DB
  BY <1>1, <1>2 DEF DB
<1>4. LeasesBacked(db')
  BY <1>1, <1>2 DEF LeasesBacked
<1>5. Minted
  BY <1>1, <1>2 DEF Minted
<1> QED BY <1>3, <1>4, <1>5 DEF SafeStep

(* The rows a transaction sees have their types. *)
LEMMA SnapshotTypes ==
    ASSUME TypeOK, NEW s \in Session, tx[s] # NoTx, NEW i \in Issue
    PROVE  /\ db \in DB /\ tx[s].snap \in DB
           /\ db.issues[i] \in IssueRow \cup {NoRow} /\ db.leases[i] \in LeaseRow \cup {NoRow}
           /\ tx[s].snap.issues[i] \in IssueRow \cup {NoRow}
           /\ tx[s].snap.leases[i] \in LeaseRow \cup {NoRow}
           /\ Instants(s) \subseteq 0..clock
           /\ clock \in Nat
BY TimeAssumption DEF TypeOK, Transaction, DB, Instants

(* An instant at which a transaction may read the clock, and when its lease ends. *)
LEMMA InstantTypes ==
    ASSUME TypeOK, NEW s \in Session, tx[s] # NoTx, NEW now \in Instants(s)
    PROVE  now \in Nat /\ now + TTL \in Nat
BY TimeAssumption DEF TypeOK, Transaction, Instants

(* The row that a release writes. *)
LEMMA ReleasedRow ==
    ASSUME NEW row \in IssueRow, NEW lk \in RowLock
    PROVE  Released(row, lk) \in IssueRow /\ Released(row, lk).row_lock = lk
BY ZenonT(30) DEF Released, IssueRow, Status, Builtin, Assignee

(* A rewritten row counts as reminted for the serial store. *)
LEMMA RemintedRow ==
    ASSUME db \in DB, NEW i \in Issue, NEW o \in IssueRow, NEW l,
           o.row_lock \in FreshLocks, db' = Put(db, i, o, l)
    PROVE  db'.issues[i] = o /\ db'.leases[i] = l /\ Serial!Remints(i)
<1>1. db'.issues[i] = o /\ db'.leases[i] = l
  BY DEF Put, DB
<1>2. Serial!Remints(i)
  BY <1>1, FreshLock
     DEF Serial!Remints, Serial!row, Serial!IssueRow, IssueRow, Serial!Exists, Exists,
         Serial!Status, Status, Serial!Assignee, Assignee, Serial!Builtin, Builtin
<1> QED BY <1>1, <1>2

(* Rewriting a row and deleting its lease: unclaim, close, reopen, most updates. *)
LEMMA RewriteAndDrop ==
    ASSUME IndInv, NEW s \in Session, tx[s] # NoTx, NEW i \in Issue, Exists(tx[s].snap, i),
           NEW o \in IssueRow, o.row_lock \in FreshLocks,
           Commit(s, Put(tx[s].snap, i, o, NoRow))
    PROVE  /\ db' = Put(db, i, o, NoRow)
           /\ db.issues[i] = tx[s].snap.issues[i]
           /\ SafeStep /\ db'.issues[i] = o /\ Serial!Remints(i)
<1> DEFINE b == tx[s].snap
<1>1. TypeOK /\ LeasesBacked(db) /\ o # NoRow
  BY NoRowAssumption DEF IndInv, LeaseBacksLiveClaim
<1>2. /\ db \in DB /\ db.leases[i] \in LeaseRow \cup {NoRow}
      /\ b.leases[i] \in LeaseRow \cup {NoRow}
  BY <1>1, SnapshotTypes
<1>3. /\ db' = Put(db, i, o, RowMerge(b.leases[i], NoRow, db.leases[i]))
      /\ ~RowConflict(b.leases[i], NoRow, db.leases[i])
      /\ b.leases[i] = NoRow => db.leases[i] = NoRow
      /\ db.issues[i] = b.issues[i]
  BY <1>1, RewriteStep
<1> HIDE DEF b
<1>4. db' = Put(db, i, o, NoRow)
  BY <1>2, <1>3, DroppedLease
<1>5. SafeStep
  BY <1>1, <1>2, <1>4, PutStep
<1> QED BY <1>2, <1>3, <1>4, <1>5, RemintedRow DEF b

(* The step stores o over the very row the session read, and the lease stays the committed one. *)
RewritesKeepingLease(s, i, o) ==
    /\ db' = Put(db, i, o, db.leases[i])
    /\ db.issues[i] = tx[s].snap.issues[i]
    /\ SafeStep /\ db'.issues[i] = o /\ Serial!Remints(i)

(* Rewriting a row, its claim unchanged, and leaving the lease table alone. *)
LEMMA RewriteAndKeep ==
    ASSUME IndInv, NEW s \in Session, tx[s] # NoTx, NEW i \in Issue, Exists(tx[s].snap, i),
           NEW o \in IssueRow, o.row_lock \in FreshLocks,
           \A a \in Actor : LiveClaim(tx[s].snap.issues[i], a) => LiveClaim(o, a),
           Commit(s, Put(tx[s].snap, i, o, tx[s].snap.leases[i]))
    PROVE  RewritesKeepingLease(s, i, o)
<1> DEFINE b == tx[s].snap
<1>1. TypeOK /\ LeasesBacked(db) /\ o # NoRow
  BY NoRowAssumption DEF IndInv, LeaseBacksLiveClaim
<1>2. /\ db \in DB /\ db.leases[i] \in LeaseRow \cup {NoRow}
      /\ b.leases[i] \in LeaseRow \cup {NoRow}
  BY <1>1, SnapshotTypes
<1>3. /\ db' = Put(db, i, o, RowMerge(b.leases[i], b.leases[i], db.leases[i]))
      /\ db.issues[i] = b.issues[i]
  BY <1>1, <1>2, RewriteStep, ZenonT(30)
<1>4. \A a \in Actor : LiveClaim(b.issues[i], a) => LiveClaim(o, a)
  OBVIOUS
<1> HIDE DEF b
<1>5. db' = Put(db, i, o, db.leases[i])
  BY <1>2, <1>3, UntouchedLease
<1>6. db.leases[i] # NoRow => LiveClaim(o, db.leases[i].holder)
  BY <1>1, <1>2, <1>3, <1>4 DEF LeasesBacked, LeaseRow
<1>7. SafeStep
  BY <1>1, <1>2, <1>5, <1>6, PutStep
<1> QED BY <1>2, <1>3, <1>5, <1>7, RemintedRow DEF b, RewritesKeepingLease

(* claimIssueInTx commits as a claim of an issue that is free when it commits. *)
LEMMA ClaimStep ==
    ASSUME IndInv, NEW s \in Session, TxClaim(s) \/ TxClaimReady(s)
    PROVE  /\ SafeStep /\ Serial!ClaimIssue
           /\ \A j \in Issue : db'.issues[j] # db.issues[j] => CanClaim(db, j, db'.issues[j].assignee)
<1> DEFINE b == tx[s].snap
<1>1. PICK i \in Issue, a \in Actor, node \in Node \cup {NoNode},
           now \in Instants(s), lk \in FreshLocks :
           CanClaim(b, i, a) /\ Commit(s, Claim(b, i, a, node, now, lk))
  BY DEF TxClaim, TxClaimReady, CanClaimReady
<1>2. tx[s] # NoTx /\ TypeOK /\ LeasesBacked(db) /\ LeasesBacked(b)
  BY DEF TxClaim, TxClaimReady, IndInv, LeaseBacksLiveClaim, SnapshotsBacked
<1>3. /\ b.issues[i] \in IssueRow /\ Exists(b, i)
      /\ now \in 0..clock /\ now \in Nat /\ lk \in RowLock
      /\ db.issues[i] \in IssueRow \cup {NoRow} /\ db.leases[i] \in LeaseRow \cup {NoRow}
      /\ db \in DB
  <2>1. lk \in RowLock
    BY FreshLock
  <2>2. Exists(b, i)
    BY <1>1 DEF CanClaim
  <2> QED BY <1>2, <2>1, <2>2, SnapshotTypes DEF Exists
<1> DEFINE o == [b.issues[i] EXCEPT !.status = "in_progress", !.assignee = a, !.row_lock = lk]
           l == UpsertLease(a, now, node)
<1>4. o \in IssueRow /\ o.row_lock = lk /\ o.status = "in_progress" /\ o.assignee = a
  BY <1>3, Zenon DEF IssueRow, Status, Builtin, Assignee
<1>5. l \in LeaseRow /\ l.holder = a /\ l # NoRow
  BY <1>3, TimeAssumption, NoRowAssumption DEF UpsertLease, LeaseRow
<1>6. b.leases[i] = NoRow
  BY <1>1, <1>2, StatusAssumption, Zenon
     DEF LeasesBacked, LiveClaim, CanClaim, Claimable, Builtin
<1>7. Commit(s, Put(b, i, o, l))
  BY <1>1 DEF Claim
<1> HIDE DEF b, o, l
<1>8. /\ db' = Put(db, i, o, l)
      /\ db.issues[i] = b.issues[i]
      /\ db.leases[i] = NoRow
  <2>1. o # NoRow
    BY <1>4, NoRowAssumption
  <2>2. /\ db' = Put(db, i, o, RowMerge(b.leases[i], l, db.leases[i]))
        /\ db.issues[i] = b.issues[i] /\ db.leases[i] = NoRow
    BY <1>2, <1>3, <1>4, <1>5, <1>6, <1>7, <2>1, RewriteStep DEF b
  <2> QED BY <1>5, <1>6, <2>2, GrantedLease
<1>9. SafeStep
  <2>1. LiveClaim(o, l.holder)
    BY <1>4, <1>5, NoRowAssumption DEF LiveClaim, ActorMatches
  <2> QED BY <1>2, <1>3, <1>4, <1>5, <1>8, <2>1, PutStep
<1>10. Serial!ClaimIssue
  <2>1. Serial!CanClaim(db, i, a)
    BY <1>1, <1>3, <1>8 DEF CanClaim, Serial!CanClaim, Exists, Serial!Exists, ActorMatches,
       Serial!ActorMatches, Claimable, Serial!Claimable
  <2>2. db'.issues[i] = o /\ Serial!Remints(i)
    BY <1>1, <1>3, <1>4, <1>8, RemintedRow
  <2>4. db' = Serial!Claim(db, i, a, node, now, lk)
    BY <1>8 DEF Serial!Claim, Serial!Put, Put, Serial!UpsertLease, UpsertLease, o, l, b
  <2> QED BY <2>1, <2>2, <2>4, <1>3, <1>4 DEF Serial!ClaimIssue, Serial!row, Serial!Instants
<1>11. \A j \in Issue : db'.issues[j] # db.issues[j] => CanClaim(db, j, db'.issues[j].assignee)
  <2>1. CanClaim(db, i, a)
    BY <1>1, <1>8 DEF CanClaim, Exists
  <2>2. \A j \in Issue : j # i => db'.issues[j] = db.issues[j]
    BY <1>3, <1>8 DEF Put, DB
  <2>3. db'.issues[i].assignee = a
    BY <1>3, <1>4, <1>8 DEF Put, DB
  <2> QED BY <2>1, <2>2, <2>3
<1> QED BY <1>9, <1>10, <1>11

(* Both releases: an unclaim, and one conditional on the expected assignee. *)
LEMMA UnclaimStep ==
    ASSUME IndInv, NEW s \in Session, TxUnclaim(s) \/ TxUnclaimIfAssignee(s)
    PROVE  SafeStep /\ Serial!UnclaimIssue
<1> DEFINE b == tx[s].snap
<1>1. PICK i \in Issue, a \in Actor, force \in BOOLEAN, lk \in FreshLocks :
           CanUnclaim(b, i, a, force) /\ Commit(s, Unclaim(b, i, lk))
  <2>1. CASE TxUnclaim(s)
    BY <2>1 DEF TxUnclaim
  <2>2. CASE TxUnclaimIfAssignee(s)
    <3>1. PICK i \in Issue, a \in Actor, lk \in FreshLocks :
              CanUnclaimIfAssignee(b, i, a) /\ Commit(s, Unclaim(b, i, lk))
      BY <2>2 DEF TxUnclaimIfAssignee
    <3>2. CanUnclaim(b, i, a, FALSE)
      BY <3>1, ActorAssumption, Zenon DEF CanUnclaim, CanUnclaimIfAssignee, ActorMatches
    <3> QED BY <3>1, <3>2, Zenon
  <2> QED BY <2>1, <2>2
<1>2. tx[s] # NoTx /\ TypeOK
  BY DEF TxUnclaim, TxUnclaimIfAssignee, IndInv
<1>3. Exists(b, i) /\ b.issues[i] \in IssueRow /\ lk \in RowLock
  BY <1>1, <1>2, SnapshotTypes, FreshLock, Zenon DEF CanUnclaim, Exists
<1> DEFINE o == Released(b.issues[i], lk)
<1>4. o \in IssueRow /\ o.row_lock = lk
  BY <1>3, ZenonT(30) DEF Released, IssueRow, Status, Builtin, Assignee
<1>5. Commit(s, Put(b, i, o, NoRow))
  BY <1>1 DEF Unclaim
<1> HIDE DEF o
<1>6. /\ db' = Put(db, i, o, NoRow) /\ db.issues[i] = b.issues[i]
      /\ SafeStep /\ db'.issues[i] = o /\ Serial!Remints(i)
  BY <1>1, <1>2, <1>3, <1>4, <1>5, RewriteAndDrop
<1>7. Serial!CanUnclaim(db, i, a, force) /\ db' = Serial!Unclaim(db, i, lk)
  BY <1>1, <1>6, Zenon DEF CanUnclaim, Serial!CanUnclaim, Exists, Serial!Exists, ActorMatches,
     Serial!ActorMatches, Serial!Unclaim, Serial!Put, Put, Serial!Released, Released, o
<1> QED BY <1>4, <1>6, <1>7 DEF Serial!UnclaimIssue, Serial!row

(* closeIssueInTx ends the claim together with its lease. *)
LEMMA CloseStep ==
    ASSUME IndInv, NEW s \in Session, TxClose(s)
    PROVE  SafeStep /\ Serial!CloseIssue
<1> DEFINE b == tx[s].snap
<1>1. PICK i \in Issue, a \in Actor, force \in BOOLEAN, lk \in FreshLocks :
           CanClose(b, i, a, force) /\ Commit(s, Close(b, i, lk))
  BY DEF TxClose
<1>2. tx[s] # NoTx /\ TypeOK
  BY DEF TxClose, IndInv
<1>3. Exists(b, i) /\ b.issues[i] \in IssueRow /\ lk \in RowLock
  BY <1>1, <1>2, SnapshotTypes, FreshLock, Zenon DEF CanClose, Exists
<1> DEFINE o == [b.issues[i] EXCEPT !.status = "closed", !.closed_at = TRUE, !.row_lock = lk]
<1>4. o \in IssueRow /\ o.row_lock = lk
  BY <1>3, Zenon DEF IssueRow, Status, Builtin
<1>5. Commit(s, Put(b, i, o, NoRow))
  BY <1>1 DEF Close
<1> HIDE DEF o
<1>6. /\ db' = Put(db, i, o, NoRow) /\ db.issues[i] = b.issues[i]
      /\ SafeStep /\ db'.issues[i] = o /\ Serial!Remints(i)
  BY <1>1, <1>2, <1>3, <1>4, <1>5, RewriteAndDrop
<1>7. Serial!CanClose(db, i, a, force) /\ db' = Serial!Close(db, i, lk)
  BY <1>1, <1>6, Zenon DEF CanClose, Serial!CanClose, Exists, Serial!Exists, ActorMatches,
     Serial!ActorMatches, Serial!Close, Serial!Put, Put, o
<1> QED BY <1>4, <1>6, <1>7 DEF Serial!CloseIssue, Serial!row

(* reopenIssueInTx clears closed_at and deletes the lease. *)
LEMMA ReopenStep ==
    ASSUME IndInv, NEW s \in Session, TxReopen(s)
    PROVE  SafeStep /\ Serial!ReopenIssue
<1> DEFINE b == tx[s].snap
<1>1. PICK i \in Issue, lk \in FreshLocks : CanReopen(b, i) /\ Commit(s, Reopen(b, i, lk))
  BY DEF TxReopen
<1>2. tx[s] # NoTx /\ TypeOK
  BY DEF TxReopen, IndInv
<1>3. Exists(b, i) /\ b.issues[i] \in IssueRow /\ lk \in RowLock
  BY <1>1, <1>2, SnapshotTypes, FreshLock DEF CanReopen, Exists
<1> DEFINE o == [b.issues[i] EXCEPT !.status = "open", !.closed_at = FALSE, !.row_lock = lk]
<1>4. o \in IssueRow /\ o.row_lock = lk
  BY <1>3, Zenon DEF IssueRow, Status, Builtin
<1>5. Commit(s, Put(b, i, o, NoRow))
  BY <1>1 DEF Reopen
<1> HIDE DEF o
<1>6. /\ db' = Put(db, i, o, NoRow) /\ db.issues[i] = b.issues[i]
      /\ SafeStep /\ db'.issues[i] = o /\ Serial!Remints(i)
  BY <1>1, <1>2, <1>3, <1>4, <1>5, RewriteAndDrop
<1>7. Serial!CanReopen(db, i) /\ db' = Serial!Reopen(db, i, lk)
  BY <1>1, <1>6 DEF CanReopen, Serial!CanReopen, Exists, Serial!Exists, DoneCategory,
     Serial!DoneCategory, Serial!Reopen, Serial!Put, Put, o
<1> QED BY <1>4, <1>6, <1>7 DEF Serial!ReopenIssue, Serial!row

(* updateIssueInTx keeps, drops or leaves the lease as ManageLeaseOnUpdate says. *)
LEMMA UpdateStep ==
    ASSUME IndInv, NEW s \in Session, TxUpdate(s)
    PROVE  SafeStep /\ Serial!UpdateIssue
<1> DEFINE b == tx[s].snap
<1>1. PICK i \in Issue, st \in Status, as \in Assignee, lk \in FreshLocks :
           Exists(b, i) /\ Commit(s, Update(b, i, st, as, lk))
  BY ZenonT(30) DEF TxUpdate
<1>2. tx[s] # NoTx /\ TypeOK
  BY DEF TxUpdate, IndInv
<1>3. b.issues[i] \in IssueRow /\ lk \in RowLock
  BY <1>1, <1>2, SnapshotTypes, FreshLock DEF Exists
<1> DEFINE o == [status |-> st, assignee |-> as, row_lock |-> lk,
                 closed_at |-> ClosedAtAfterUpdate(b.issues[i], st)]
           l == LeaseAfterUpdate(b, i, st, as)
<1>4. o \in IssueRow /\ o.row_lock = lk /\ o.status = st /\ o.assignee = as
  BY <1>3, Zenon DEF IssueRow, ClosedAtAfterUpdate
<1>5. Commit(s, Put(b, i, o, l))
  BY <1>1, ZenonT(30) DEF Update
<1>6. /\ db' = Put(db, i, o, Serial!LeaseAfterUpdate(db, i, st, as))
      /\ db.issues[i] = b.issues[i]
      /\ SafeStep /\ db'.issues[i] = o /\ Serial!Remints(i)
  <2>1. CASE st = b.issues[i].status /\ as = b.issues[i].assignee
    <3>1. l = b.leases[i]
      BY <2>1 DEF LeaseAfterUpdate
    <3>2. \A a \in Actor : LiveClaim(b.issues[i], a) => LiveClaim(o, a)
      BY <2>1, <1>4, NoRowAssumption, ZenonT(30) DEF LiveClaim
    <3> HIDE DEF o, l
    <3>3. /\ db' = Put(db, i, o, db.leases[i]) /\ db.issues[i] = b.issues[i]
          /\ SafeStep /\ db'.issues[i] = o /\ Serial!Remints(i)
      <4>1. Commit(s, Put(b, i, o, b.leases[i])) /\ o.row_lock \in FreshLocks /\ o \in IssueRow
        BY <1>4, <1>5, <3>1, Zenon
      <4>2. IndInv /\ s \in Session /\ tx[s] # NoTx /\ i \in Issue /\ Exists(b, i)
        BY <1>1, <1>2, Zenon
      <4>3. RewritesKeepingLease(s, i, o)
        BY <3>2, <4>1, <4>2, RewriteAndKeep, ZenonT(30)
      <4> QED BY <4>3, ZenonT(30) DEF RewritesKeepingLease
    <3> QED BY <2>1, <3>3 DEF Serial!LeaseAfterUpdate
  <2>2. CASE ~(st = b.issues[i].status /\ as = b.issues[i].assignee)
    <3>1. l = NoRow
      BY <2>2, ZenonT(30) DEF LeaseAfterUpdate
    <3> HIDE DEF o, l
    <3>2. /\ db' = Put(db, i, o, NoRow) /\ db.issues[i] = b.issues[i]
          /\ SafeStep /\ db'.issues[i] = o /\ Serial!Remints(i)
      BY <1>1, <1>2, <1>4, <1>5, <3>1, RewriteAndDrop
    <3> QED BY <2>2, <3>2, Zenon DEF Serial!LeaseAfterUpdate
  <2> QED BY <2>1, <2>2, Zenon
<1> HIDE DEF o
<1>7. Serial!Exists(db, i)
  BY <1>1, <1>6 DEF Serial!Exists, Exists
<1>8. db' = Serial!Update(db, i, st, as, lk)
  BY <1>6, ZenonT(30) DEF Serial!Update, Serial!Put, Put, Serial!ClosedAtAfterUpdate, ClosedAtAfterUpdate, o
<1> QED BY <1>4, <1>6, <1>7, <1>8, Zenon DEF Serial!UpdateIssue, Serial!row

-----------------------------------------------------------------------------
(***************************************************************************)
(* The steps that write a lease row, and the reclaim, which rewrites       *)
(* several issues in one transaction.  Each is safe and a step of the      *)
(* serial store.                                                           *)
(***************************************************************************)

(* The re-arm of RenewLeaseInTx touches the row, so no other claim slips under its lease. *)
LEMMA RearmStep ==
    ASSUME IndInv, NEW s \in Session, TxRearm(s)
    PROVE  SafeStep /\ Serial!RearmLease
<1> DEFINE b == tx[s].snap
<1>1. PICK i \in Issue, a \in Actor, node \in Node \cup {NoNode},
           now \in Instants(s), lk \in FreshLocks :
           CanRearm(b, i, a) /\ Commit(s, Rearm(b, i, a, node, now, lk))
  BY DEF TxRearm
<1>2. tx[s] # NoTx /\ TypeOK /\ LeasesBacked(db) /\ LeasesBacked(b)
  BY DEF TxRearm, IndInv, LeaseBacksLiveClaim, SnapshotsBacked
<1>3. /\ b.issues[i] \in IssueRow /\ Exists(b, i) /\ b.leases[i] \in LeaseRow \cup {NoRow}
      /\ now \in 0..clock /\ now \in Nat /\ lk \in RowLock /\ db \in DB
  <2>1. lk \in RowLock
    BY FreshLock
  <2>2. Exists(b, i)
    BY <1>1 DEF CanRearm, LiveClaim, Exists
  <2> QED BY <1>2, <2>1, <2>2, SnapshotTypes DEF Exists
<1> DEFINE o == [b.issues[i] EXCEPT !.row_lock = lk]
           l == UpsertLease(a, now, node)
<1>4. /\ o \in IssueRow /\ o.row_lock = lk /\ o # NoRow
      /\ o.status = b.issues[i].status /\ o.assignee = b.issues[i].assignee
  BY <1>3, NoRowAssumption DEF IssueRow
<1>5. l \in LeaseRow /\ l.holder = a /\ l # NoRow
  BY <1>3, TimeAssumption, NoRowAssumption DEF UpsertLease, LeaseRow
<1>6. b.leases[i] = NoRow
  <2> SUFFICES ASSUME b.leases[i] # NoRow PROVE FALSE
    OBVIOUS
  <2>1. LiveClaim(b.issues[i], b.leases[i].holder) /\ LiveClaim(b.issues[i], a)
    BY <1>1, <1>2 DEF LeasesBacked, CanRearm
  <2>2. ActorMatches(b.leases[i].holder, a)
    BY <2>1, OneClaimant, Zenon
  <2> QED BY <1>1, <2>2 DEF CanRearm, HoldsLease
<1>7. Commit(s, Put(b, i, o, l))
  BY <1>1 DEF Rearm
<1> HIDE DEF b, o, l
<1>8. db' = Put(db, i, o, l) /\ db.issues[i] = b.issues[i] /\ db.leases[i] = NoRow
  <2>1. /\ db' = Put(db, i, o, RowMerge(b.leases[i], l, db.leases[i]))
        /\ db.issues[i] = b.issues[i] /\ db.leases[i] = NoRow
    BY <1>1, <1>2, <1>3, <1>4, <1>5, <1>6, <1>7, RewriteStep, ZenonT(30) DEF b
  <2> QED BY <1>5, <1>6, <2>1, GrantedLease
<1>9. SafeStep
  <2>1. LiveClaim(o, l.holder)
    BY <1>1, <1>4, <1>5 DEF LiveClaim, CanRearm
  <2> QED BY <1>1, <1>2, <1>3, <1>4, <1>5, <1>8, <2>1, PutStep, ZenonT(30)
<1>10. Serial!CanRearm(db, i, a)
  BY <1>1, <1>8, ZenonT(30) DEF CanRearm, Serial!CanRearm, LiveClaim, Serial!LiveClaim, HoldsLease,
     Serial!HoldsLease, ActorMatches, Serial!ActorMatches
<1>11. db'.issues[i] = o /\ Serial!Remints(i)
  BY <1>1, <1>3, <1>4, <1>8, RemintedRow, Zenon
<1>12. db' = Serial!Rearm(db, i, a, node, now, lk)
  BY <1>8 DEF Serial!Rearm, Serial!Put, Put, Serial!UpsertLease, UpsertLease, o, l
<1> QED BY <1>3, <1>4, <1>9, <1>10, <1>11, <1>12 DEF Serial!RearmLease, Serial!row, Serial!Instants

(* While leases back claims there is no orphan for a refused heartbeat to drop. *)
LEMMA NoOrphans ==
    ASSUME IndInv, NEW s \in Session
    PROVE  ~TxDropOrphan(s)
<1> SUFFICES ASSUME TxDropOrphan(s) PROVE FALSE
  OBVIOUS
<1> DEFINE b == tx[s].snap
<1>1. PICK i \in Issue, a \in Actor : CanDropOrphan(b, i, a)
  BY DEF TxDropOrphan
<1>2. LiveClaim(b.issues[i], b.leases[i].holder) /\ ActorMatches(b.leases[i].holder, a)
  BY <1>1, ZenonT(30) DEF CanDropOrphan, HoldsLease, IndInv, SnapshotsBacked, LeasesBacked, TxDropOrphan
<1>3. LiveClaim(b.issues[i], a)
  BY <1>2, OneClaimant, Zenon
<1> QED BY <1>1, <1>3 DEF CanDropOrphan

(* Deleting an issue deletes its lease; two concurrent deletes are one. *)
LEMMA DeleteStep ==
    ASSUME IndInv, NEW s \in Session, TxDelete(s)
    PROVE  SafeStep /\ (Serial!DeleteIssue \/ db' = db)
<1> DEFINE b == tx[s].snap
<1>1. PICK i \in Issue : Exists(b, i) /\ Commit(s, Put(b, i, NoRow, NoRow))
  BY DEF TxDelete, Delete
<1>2. tx[s] # NoTx /\ TypeOK /\ LeasesBacked(db)
  BY DEF TxDelete, IndInv, LeaseBacksLiveClaim
<1>3. /\ db \in DB /\ db.leases[i] \in LeaseRow \cup {NoRow}
      /\ b.leases[i] \in LeaseRow \cup {NoRow}
  BY <1>2, SnapshotTypes
<1>4. /\ db' = Put(db, i, NoRow, RowMerge(b.leases[i], NoRow, db.leases[i]))
      /\ ~RowConflict(b.leases[i], NoRow, db.leases[i])
      /\ b.leases[i] = NoRow => db.leases[i] = NoRow
  <2>1. NoRow \in IssueRow \cup {NoRow} /\ NoRow \in LeaseRow \cup {NoRow}
    BY Zenon
  <2> QED BY <1>1, <1>2, <2>1, RewriteStep, ZenonT(30)
<1> HIDE DEF b
<1>5. db' = Put(db, i, NoRow, NoRow)
  BY <1>3, <1>4, DroppedLease
<1>6. SafeStep
  BY <1>2, <1>3, <1>5, PutStep
<1>7. CASE db.issues[i] = NoRow
  <2>1. db.leases[i] = NoRow
    BY <1>2, <1>7 DEF LeasesBacked, LiveClaim
  <2>2. db' = db
    BY <1>3, <1>5, <1>7, <2>1 DEF Put, DB
  <2> QED BY <1>6, <2>2
<1>8. CASE db.issues[i] # NoRow
  BY <1>5, <1>6, <1>8, ZenonT(30) DEF Serial!DeleteIssue, Serial!Delete, Serial!Put, Put, Serial!Exists
<1> QED BY <1>7, <1>8

(***************************************************************************)
(* A refresh writes only the lease row, so nothing about the issue row can *)
(* stop it: it is safe because whoever ends the claim deletes that lease.  *)
(***************************************************************************)
LEMMA RefreshStep ==
    ASSUME IndInv, NEW s \in Session, TxRefresh(s)
    PROVE  SafeStep /\ (Serial!RefreshLease \/ db' = db)
<1> DEFINE b == tx[s].snap
<1>1. PICK i \in Issue, a \in Actor, node \in Node \cup {NoNode}, now \in Instants(s) :
           CanRefresh(b, i, a) /\ Commit(s, Refresh(b, i, a, node, now))
  BY DEF TxRefresh
<1>2. tx[s] # NoTx /\ TypeOK /\ LeasesBacked(db)
  BY DEF TxRefresh, IndInv, LeaseBacksLiveClaim
<1>3. /\ b.issues[i] \in IssueRow \cup {NoRow} /\ b.leases[i] \in LeaseRow
      /\ db.issues[i] \in IssueRow \cup {NoRow} /\ db.leases[i] \in LeaseRow \cup {NoRow}
      /\ now \in 0..clock /\ now \in Nat /\ db \in DB
  <2>1. b.leases[i] # NoRow
    BY <1>1 DEF CanRefresh, HoldsLease
  <2> QED BY <1>2, <2>1, SnapshotTypes
<1> DEFINE l == [holder |-> a, expires |-> now + TTL,
                 granted_node |-> IF b.leases[i].granted_node = NoNode THEN node
                                  ELSE b.leases[i].granted_node]
<1>4. l \in LeaseRow /\ l.holder = a /\ l.expires = now + TTL
  <2>1. now + TTL \in Nat
    BY <1>3, TimeAssumption
  <2>2. l.granted_node \in Node \cup {NoNode}
    BY <1>3 DEF LeaseRow
  <2> QED BY <1>3, <2>1, <2>2, Zenon DEF LeaseRow
<1>5. Commit(s, Put(b, i, b.issues[i], l)) /\ ActorMatches(b.leases[i].holder, a)
  BY <1>1, ZenonT(30) DEF Refresh, CanRefresh, HoldsLease
<1> HIDE DEF l
<1>6. /\ db' = Put(db, i, db.issues[i], RowMerge(b.leases[i], l, db.leases[i]))
      /\ ~RowConflict(b.leases[i], l, db.leases[i])
  <2>1. /\ db' = Put(db, i, RowMerge(b.issues[i], b.issues[i], db.issues[i]),
                            RowMerge(b.leases[i], l, db.leases[i]))
        /\ ~RowConflict(b.leases[i], l, db.leases[i])
    BY <1>2, <1>3, <1>4, <1>5, CommitPut, ZenonT(30)
  <2>2. RowMerge(b.issues[i], b.issues[i], db.issues[i]) = db.issues[i]
    BY <1>3, UntouchedIssue
  <2> QED BY <2>1, <2>2, ZenonT(30)
<1> HIDE DEF b
<1>7. CASE db.leases[i] = NoRow
  <2>1. RowMerge(b.leases[i], l, db.leases[i]) = NoRow
    BY <1>3, <1>4, <1>6, <1>7, NoRowAssumption DEF RowConflict, RowMerge, CellConflict, CellMerge
  <2>2. db' = Put(db, i, db.issues[i], db.leases[i])
    BY <1>6, <1>7, <2>1
  <2>3. db' = db
    BY <1>3, <2>2 DEF Put, DB
  <2>4. SafeStep
    BY <1>2, <1>3, <1>7, <2>2, PutStep
  <2> QED BY <2>3, <2>4
<1>8. CASE db.leases[i] # NoRow
  <2> DEFINE m == RowMerge(b.leases[i], l, db.leases[i])
  <2>1. /\ m \in LeaseRow
        /\ m.holder = CellMerge(b.leases[i].holder, a, db.leases[i].holder)
        /\ m.expires = CellMerge(b.leases[i].expires, now + TTL, db.leases[i].expires)
    BY <1>3, <1>4, <1>8, MergedLease
  <2>2. \/ m.holder = db.leases[i].holder
        \/ m.holder = a /\ db.leases[i].holder = b.leases[i].holder
    <3>1. ~CellConflict(b.leases[i].holder, l.holder, db.leases[i].holder)
      <4>1. "holder" \in DOMAIN b.leases[i] /\ NoRow \notin {b.leases[i], l, db.leases[i]}
        BY <1>3, <1>4, <1>8, NoRowAssumption DEF LeaseRow
      <4> QED BY <1>6, <4>1 DEF RowConflict
    <3> HIDE DEF m
    <3> QED BY <2>1, <3>1, <1>4 DEF CellMerge, CellConflict
  <2>3. LiveClaim(db.issues[i], m.holder)
    <3>1. LiveClaim(db.issues[i], db.leases[i].holder)
      BY <1>2, <1>8 DEF LeasesBacked
    <3> HIDE DEF m
    <3> QED BY <1>5, <2>2, <3>1, MatchesIsEquivalence DEF LiveClaim
  <2>4. m.expires \in {db.leases[i].expires} \cup {n + TTL : n \in 0..clock}
    <3> HIDE DEF m
    <3> QED BY <1>3, <2>1 DEF CellMerge
  <2> HIDE DEF m
  <2>5. db' = Put(db, i, db.issues[i], m) /\ m # NoRow
    BY <1>6, <2>1, NoRowAssumption DEF m
  <2>6. SafeStep
    BY <1>2, <1>3, <1>8, <2>1, <2>3, <2>5, PutStep, ZenonT(30)
  <2>7. db'.leases[i] = m
    BY <1>3, <2>5 DEF Put, DB
  <2>8. Serial!RefreshLease
    BY <1>8, <2>1, <2>3, <2>4, <2>5, <2>7, ZenonT(30)
       DEF Serial!RefreshLease, Serial!Put, Put, Serial!LeaseRow, LeaseRow, Serial!LiveClaim,
           LiveClaim, Serial!ActorMatches, ActorMatches, Serial!Instants
  <2> QED BY <2>6, <2>8
<1> QED BY <1>7, <1>8

(* The lease an import leaves in its own transaction is backed by the imported row. *)
LEMMA RestoredLease ==
    ASSUME NEW r \in IssueRow, NEW lease \in LeaseRow \cup {NoRow}, NEW horizon \in Nat,
           NEW imported \in ImportedLease(r.status, horizon), NEW now, NEW isNew \in BOOLEAN,
           isNew => lease = NoRow
    PROVE  LET l == RestoreLease(r, lease, imported, now, isNew) IN
           l = NoRow \/ (l \in LeaseRow /\ r.status = "in_progress" /\ l.holder = r.assignee)
<1>1. imported # NoRow => imported \in [expires : Nat, granted_node : Node \cup {NoNode}]
  BY DEF ImportedLease
<1>2. r.assignee # Unassigned => r.assignee \in Actor
  BY DEF IssueRow, Assignee
<1> QED BY <1>1, <1>2, Zenon DEF RestoreLease, LeaseRow

(***************************************************************************)
(* An import may merge its lease with a heartbeat of the claim it replaces *)
(* cell by cell; the holder that results is still the imported assignee.   *)
(***************************************************************************)
LEMMA ImportStep ==
    ASSUME IndInv, NEW s \in Session, TxImport(s)
    PROVE  SafeStep /\ Serial!ImportIssue
<1> DEFINE b == tx[s].snap
           R(st, as, lk) == [status |-> st, assignee |-> as, closed_at |-> st = "closed",
                             row_lock |-> lk]
<1>0. PICK i \in Issue, st \in Status, as \in Assignee, now \in Instants(s), lk \in FreshLocks :
           \E imported \in ImportedLease(st, clock + TTL) :
               Commit(s, Import(b, i, R(st, as, lk), imported, now))
  BY ZenonT(30) DEF TxImport
<1>1. PICK imported \in ImportedLease(st, clock + TTL) :
           Commit(s, Import(b, i, R(st, as, lk), imported, now))
  BY <1>0
<1>2. tx[s] # NoTx /\ TypeOK /\ LeasesBacked(db) /\ LeasesBacked(b)
  BY DEF TxImport, IndInv, LeaseBacksLiveClaim, SnapshotsBacked
<1>3. /\ b.issues[i] \in IssueRow \cup {NoRow} /\ b.leases[i] \in LeaseRow \cup {NoRow}
      /\ db.issues[i] \in IssueRow \cup {NoRow} /\ db.leases[i] \in LeaseRow \cup {NoRow}
      /\ lk \in RowLock /\ db \in DB /\ clock + TTL \in Nat
  <2>1. lk \in RowLock
    BY FreshLock
  <2>2. clock + TTL \in Nat
    BY <1>2, TimeAssumption DEF TypeOK
  <2> QED BY <1>2, <2>1, <2>2, SnapshotTypes, Zenon
<1> DEFINE r == R(st, as, lk)
           isNew == ~Exists(b, i)
           l == RestoreLease(r, b.leases[i], imported, now, isNew)
<1>4. /\ r \in IssueRow /\ r # NoRow /\ r.row_lock = lk /\ r.status = st /\ r.assignee = as
      /\ Coherent(r)
  <2>1. (st = "closed") \in BOOLEAN
    OBVIOUS
  <2>2. r \in IssueRow /\ r.row_lock = lk /\ r.status = st /\ r.assignee = as
    BY <1>3, <2>1, Zenon DEF IssueRow
  <2>3. Coherent(r)
    BY Zenon DEF Coherent
  <2> QED BY <2>2, <2>3, NoRowAssumption, Zenon
<1>5. Commit(s, Put(b, i, r, l))
  BY <1>1, ZenonT(30) DEF Import
<1>6. isNew => b.leases[i] = NoRow
  BY <1>2, ZenonT(30) DEF LeasesBacked, LiveClaim, Exists
<1> HIDE DEF R, r
<1>7. l = NoRow \/ (l \in LeaseRow /\ r.status = "in_progress" /\ l.holder = r.assignee)
  <2>1. imported \in ImportedLease(r.status, clock + TTL)
    BY <1>1, <1>4
  <2>2. isNew \in BOOLEAN
    BY DEF Exists
  <2> HIDE DEF isNew
  <2> QED BY <1>3, <1>4, <1>6, <2>1, <2>2, RestoredLease, ZenonT(30)
<1> HIDE DEF l
<1> DEFINE m == RowMerge(b.leases[i], l, db.leases[i])
<1> DEFINE Imported == db' = Put(db, i, r, m) /\ (m = NoRow \/ (m \in LeaseRow /\ LiveClaim(r, m.holder)))
<1>8. Exists(b, i) => Imported
  <2> HAVE Exists(b, i)
  <2>1. /\ db' = Put(db, i, r, m) /\ ~RowConflict(b.leases[i], l, db.leases[i])
        /\ db.issues[i] = b.issues[i] /\ ((b.leases[i] = NoRow) <=> (db.leases[i] = NoRow))
    <3>1. r \in IssueRow \cup {NoRow} /\ l \in LeaseRow \cup {NoRow} /\ r.row_lock \in FreshLocks
      BY <1>0, <1>4, <1>7, ZenonT(30)
    <3> QED BY <1>2, <1>4, <1>5, <3>1, RewriteStep, ZenonT(30)
  <2>2. m = NoRow \/ (m \in LeaseRow /\ LiveClaim(r, m.holder))
    <3>1. CASE l = NoRow
      BY <1>3, <2>1, <3>1, DroppedLease, ZenonT(30)
    <3>2. CASE l # NoRow /\ b.leases[i] = NoRow
      <4>1. m = l
        BY <1>7, <2>1, <3>2, GrantedLease, Zenon
      <4> QED BY <1>4, <1>7, <3>2, <4>1, ZenonT(30) DEF LiveClaim, ActorMatches
    <3>3. CASE l # NoRow /\ b.leases[i] # NoRow
      <4>1. /\ m \in LeaseRow
            /\ m.holder = CellMerge(b.leases[i].holder, l.holder, db.leases[i].holder)
        BY <1>3, <1>7, <2>1, <3>3, MergedLease, ZenonT(30)
      <4>2. /\ LiveClaim(b.issues[i], b.leases[i].holder)
            /\ LiveClaim(b.issues[i], db.leases[i].holder)
        BY <1>2, <2>1, <3>3, ZenonT(30) DEF LeasesBacked
      <4>3. ActorMatches(b.leases[i].holder, db.leases[i].holder)
        BY <4>2, OneClaimant, Zenon
      <4>4. ActorMatches(r.assignee, m.holder)
        <5> HIDE DEF m, b
        <5>1. l.holder = r.assignee
          BY <1>7, <3>3
        <5>2. m.holder = l.holder \/ (l.holder = b.leases[i].holder /\ m.holder = db.leases[i].holder)
          BY <4>1 DEF CellMerge
        <5>3. CASE m.holder = l.holder
          BY <5>1, <5>3 DEF ActorMatches
        <5>4. CASE l.holder = b.leases[i].holder /\ m.holder = db.leases[i].holder
          BY <4>3, <5>1, <5>4
        <5> QED BY <5>2, <5>3, <5>4
      <4> HIDE DEF m
      <4> QED BY <1>4, <1>7, <3>3, <4>1, <4>4, Zenon DEF LiveClaim
    <3> QED BY <3>1, <3>2, <3>3, ZenonT(30)
  <2> HIDE DEF m
  <2> QED BY <2>1, <2>2, Zenon
<1>9. ~Exists(b, i) => Imported
  <2> HAVE ~Exists(b, i)
  <2>1. /\ ~RowConflict(b.issues[i], r, db.issues[i])
        /\ db' = Put(db, i, RowMerge(b.issues[i], r, db.issues[i]), m)
    BY <1>2, <1>4, <1>5, <1>7, CommitPut, ZenonT(30)
  <2>2. b.issues[i] = NoRow /\ b.leases[i] = NoRow
    BY <1>6 DEF Exists
  <2>3. db.issues[i] # r
    BY <1>1, <1>4, FreshLock, ZenonT(30) DEF Exists
  <2>4. db.issues[i] = NoRow /\ RowMerge(b.issues[i], r, db.issues[i]) = r
    BY <1>4, <2>1, <2>2, <2>3 DEF RowConflict, CellConflict, RowMerge, CellMerge
  <2>5. db.leases[i] = NoRow
    BY <1>2, <2>4, ZenonT(30) DEF LeasesBacked, LiveClaim
  <2>6. m = l
    BY <2>2, <2>5 DEF RowMerge, CellMerge
  <2>7. m = NoRow \/ (m \in LeaseRow /\ LiveClaim(r, m.holder))
    BY <1>4, <1>7, <2>6, ZenonT(30) DEF LiveClaim, ActorMatches
  <2> HIDE DEF m
  <2> QED BY <2>1, <2>4, <2>7
<1>10. Imported
  BY <1>8, <1>9, ZenonT(30)
<1> HIDE DEF m
<1>11. SafeStep
  BY <1>1, <1>2, <1>3, <1>4, <1>10, PutStep, ZenonT(30)
<1>12. db'.issues[i] = r /\ db'.leases[i] = m /\ Serial!Remints(i)
  BY <1>1, <1>3, <1>4, <1>10, RemintedRow, ZenonT(30)
<1>13. Serial!ImportIssue
  BY <1>4, <1>10, <1>12, ZenonT(30)
     DEF Serial!ImportIssue, Serial!row, Serial!Coherent, Coherent, Serial!Put, Put,
         Serial!LeaseRow, LeaseRow, Serial!LiveClaim, LiveClaim, Serial!ActorMatches, ActorMatches
<1> QED BY <1>11, <1>13

(***************************************************************************)
(* A reclaim reverts several issues in one transaction.  Each of them is   *)
(* as the reclaim saw it: its row by row_lock, its lease because a refresh *)
(* of a deleted lease row conflicts.                                       *)
(***************************************************************************)
LEMMA ReclaimedIssues ==
    ASSUME IndInv, NEW s \in Session, tx[s] # NoTx, NEW S \in SUBSET Issue,
           NEW locks \in [S -> FreshLocks],
           \A i \in S : Exists(tx[s].snap, i) /\ tx[s].snap.leases[i] # NoRow,
           Commit(s, Reclaim(tx[s].snap, S, locks))
    PROVE  /\ \A i \in S : /\ db.issues[i] = tx[s].snap.issues[i]
                           /\ db.leases[i] = tx[s].snap.leases[i]
                           /\ Released(db.issues[i], locks[i]) \in IssueRow
                           /\ Released(db.issues[i], locks[i]).row_lock = locks[i]
           /\ db' = Reclaim(db, S, locks)
<1> DEFINE b == tx[s].snap
           ours == Reclaim(b, S, locks)
<1>1. TypeOK
  BY DEF IndInv
<1>2. /\ b.issues \in [Issue -> IssueRow \cup {NoRow}] /\ b.leases \in [Issue -> LeaseRow \cup {NoRow}]
      /\ db.issues \in [Issue -> IssueRow \cup {NoRow}] /\ db.leases \in [Issue -> LeaseRow \cup {NoRow}]
  BY <1>1 DEF TypeOK, Transaction, DB
<1>3. /\ ours.issues = [i \in Issue |-> IF i \in S THEN Released(b.issues[i], locks[i]) ELSE b.issues[i]]
      /\ ours.leases = [i \in Issue |-> IF i \in S THEN NoRow ELSE b.leases[i]]
  BY Zenon DEF Reclaim
<1>4. /\ ~TableConflict(b.issues, ours.issues, db.issues)
      /\ ~TableConflict(b.leases, ours.leases, db.leases)
      /\ db' = [issues |-> TableMerge(b.issues, ours.issues, db.issues),
                leases |-> TableMerge(b.leases, ours.leases, db.leases)]
  BY ZenonT(30) DEF Commit, Conflict
<1>5. \A i \in Issue : /\ ~RowConflict(b.issues[i], ours.issues[i], db.issues[i])
                       /\ ~RowConflict(b.leases[i], ours.leases[i], db.leases[i])
  <2> HIDE DEF b, ours
  <2> QED BY <1>2, <1>4, ZenonT(30) DEF TableConflict
<1>6. ASSUME NEW i \in S
      PROVE  /\ db.issues[i] = b.issues[i] /\ db.leases[i] = b.leases[i]
             /\ Released(b.issues[i], locks[i]) \in IssueRow
             /\ Released(b.issues[i], locks[i]).row_lock = locks[i]
             /\ RowMerge(b.issues[i], ours.issues[i], db.issues[i]) = Released(db.issues[i], locks[i])
             /\ RowMerge(b.leases[i], ours.leases[i], db.leases[i]) = NoRow
  <2> DEFINE o == Released(b.issues[i], locks[i])
  <2>1. /\ i \in Issue /\ b.issues[i] \in IssueRow /\ b.leases[i] \in LeaseRow
        /\ db.issues[i] \in IssueRow \cup {NoRow} /\ db.leases[i] \in LeaseRow \cup {NoRow}
    BY <1>2, ZenonT(30) DEF Exists
  <2>2. locks[i] \in FreshLocks /\ locks[i] \in RowLock
    BY FreshLock
  <2>3. o \in IssueRow /\ o.row_lock = locks[i] /\ o # NoRow
    BY <2>1, <2>2, NoRowAssumption, ZenonT(30) DEF Released, IssueRow, Status, Builtin, Assignee
  <2>4. ours.issues[i] = o /\ ours.leases[i] = NoRow
    BY <1>3, <2>1, Zenon
  <2> HIDE DEF o, ours
  <2>5. /\ o.row_lock # b.issues[i].row_lock
        /\ db.issues[i] # NoRow => o.row_lock # db.issues[i].row_lock
    BY <2>1, <2>2, <2>3, FreshLock, Zenon DEF Exists
  <2>6. db.issues[i] # NoRow /\ db.issues[i].row_lock = b.issues[i].row_lock
          => /\ db.issues[i] = b.issues[i]
             /\ (b.leases[i] = NoRow) <=> (db.leases[i] = NoRow)
    BY <2>1, Zenon DEF IndInv, RowVersionIdentifiesRow, Exists
  <2> HIDE DEF b
  <2>7. RowMerge(b.issues[i], o, db.issues[i]) = o /\ db.issues[i] = b.issues[i]
    <3>1. ~RowConflict(b.issues[i], o, db.issues[i])
      BY <1>5, <2>1, <2>4, Zenon
    <3>2. /\ b.issues[i] \in IssueRow /\ o \in IssueRow \cup {NoRow}
          /\ db.issues[i] \in IssueRow \cup {NoRow}
      BY ONLY <2>1, <2>3, Zenon
    <3>3. /\ o # NoRow => o.row_lock # b.issues[i].row_lock
          /\ o # NoRow /\ db.issues[i] # NoRow => o.row_lock # db.issues[i].row_lock
      BY ONLY <2>5, Zenon
    <3>4. db.issues[i] # NoRow /\ db.issues[i].row_lock = b.issues[i].row_lock
            => db.issues[i] = b.issues[i]
      BY ONLY <2>6, Zenon
    <3>5. /\ RowMerge(b.issues[i], o, db.issues[i]) = o
          /\ db.issues[i] = b.issues[i] \/ (db.issues[i] = NoRow /\ o = NoRow)
      BY ONLY <3>1, <3>2, <3>3, <3>4, RewrittenIssue, Zenon
    <3> QED BY ONLY <2>3, <3>5, Zenon
  <2>8. RowMerge(b.leases[i], NoRow, db.leases[i]) = NoRow /\ db.leases[i] = b.leases[i]
    <3>1. b.leases[i] # NoRow /\ db.leases[i] # NoRow
      BY <2>1, <2>6, <2>7, NoRowAssumption, ZenonT(30)
    <3> QED BY <1>5, <2>1, <2>4, <3>1, DroppedLease, ZenonT(30)
  <2> QED BY <2>3, <2>4, <2>7, <2>8, ZenonT(30) DEF o
<1>7. ASSUME NEW i \in Issue \ S
      PROVE  /\ RowMerge(b.issues[i], ours.issues[i], db.issues[i]) = db.issues[i]
             /\ RowMerge(b.leases[i], ours.leases[i], db.leases[i]) = db.leases[i]
  <2>1. ours.issues[i] = b.issues[i] /\ ours.leases[i] = b.leases[i]
    BY <1>3, Zenon
  <2>2. /\ b.issues[i] \in IssueRow \cup {NoRow} /\ b.leases[i] \in LeaseRow \cup {NoRow}
        /\ db.issues[i] \in IssueRow \cup {NoRow} /\ db.leases[i] \in LeaseRow \cup {NoRow}
    BY <1>2, ZenonT(30)
  <2> HIDE DEF b, ours
  <2>3. RowMerge(b.issues[i], b.issues[i], db.issues[i]) = db.issues[i]
    BY <2>2, UntouchedIssue, ZenonT(30)
  <2>4. RowMerge(b.leases[i], b.leases[i], db.leases[i]) = db.leases[i]
    BY <2>2, UntouchedLease
  <2> QED BY <2>1, <2>3, <2>4, ZenonT(30)
<1> HIDE DEF b, ours
<1>8. TableMerge(b.issues, ours.issues, db.issues)
        = [i \in Issue |-> IF i \in S THEN Released(db.issues[i], locks[i]) ELSE db.issues[i]]
  <2>1. DOMAIN b.issues = Issue
    BY <1>2
  <2> QED BY <1>6, <1>7, <2>1, ZenonT(30) DEF TableMerge
<1>9. TableMerge(b.leases, ours.leases, db.leases)
        = [i \in Issue |-> IF i \in S THEN NoRow ELSE db.leases[i]]
  <2>1. DOMAIN b.leases = Issue
    BY <1>2
  <2> QED BY <1>6, <1>7, <2>1, ZenonT(30) DEF TableMerge
<1>10. db' = Reclaim(db, S, locks)
  BY <1>4, <1>8, <1>9, ZenonT(30) DEF Reclaim
<1> QED BY <1>6, <1>10, Zenon DEF b

(* ReclaimExpiredLeasesInTx releases only claims whose lease is expired when it commits. *)
LEMMA ReclaimStep ==
    ASSUME IndInv, NEW s \in Session, TxReclaim(s)
    PROVE  /\ SafeStep /\ Serial!ReclaimExpired
           /\ \A i \in Issue : db'.issues[i] # db.issues[i]
                  => db.leases[i] # NoRow /\ db.leases[i].expires + Grace < clock
<1> DEFINE b == tx[s].snap
<1>1. PICK now \in Instants(s), node \in Node \cup {NoNode}, any \in BOOLEAN :
           /\ now >= Grace
           /\ \E S \in SUBSET Stale(b, now - Grace, node, any) :
                  \E locks \in [S -> FreshLocks] : S # {} /\ Commit(s, Reclaim(b, S, locks))
  BY DEF TxReclaim
<1>2. PICK S \in SUBSET Stale(b, now - Grace, node, any) :
           \E locks \in [S -> FreshLocks] : S # {} /\ Commit(s, Reclaim(b, S, locks))
  BY <1>1
<1>3. PICK locks \in [S -> FreshLocks] : Commit(s, Reclaim(b, S, locks))
  BY <1>2
<1>4. tx[s] # NoTx /\ TypeOK /\ LeasesBacked(db)
  BY DEF TxReclaim, IndInv, LeaseBacksLiveClaim
<1>5. /\ db \in DB /\ now \in 0..clock /\ now \in Nat /\ clock \in Nat /\ Grace \in Nat
      /\ db.issues \in [Issue -> IssueRow \cup {NoRow}] /\ db.leases \in [Issue -> LeaseRow \cup {NoRow}]
  <2>1. db \in DB /\ clock \in 0..MaxClock /\ tx[s] \in Transaction /\ tx[s].began <= clock
    BY <1>4 DEF TypeOK
  <2>2. clock \in Nat /\ Grace \in Nat
    BY ONLY <2>1, TimeAssumption
  <2>3. tx[s].began \in Nat
    BY <2>1, TimeAssumption DEF Transaction
  <2>4. now \in 0..clock
    BY ONLY <1>1, <2>1, <2>2, <2>3 DEF Instants
  <2> QED BY <2>1, <2>2, <2>4 DEF DB
<1>6. S \in SUBSET Issue /\ \A i \in S : Exists(b, i) /\ b.leases[i] # NoRow
  BY <1>2 DEF Stale
<1>7. /\ \A i \in S : /\ db.issues[i] = b.issues[i] /\ db.leases[i] = b.leases[i]
                      /\ Released(db.issues[i], locks[i]) \in IssueRow
                      /\ Released(db.issues[i], locks[i]).row_lock = locks[i]
      /\ db' = Reclaim(db, S, locks)
  BY <1>3, <1>4, <1>6, ReclaimedIssues, ZenonT(30)
<1>8. /\ db'.issues = [i \in Issue |-> IF i \in S THEN Released(db.issues[i], locks[i]) ELSE db.issues[i]]
      /\ db'.leases = [i \in Issue |-> IF i \in S THEN NoRow ELSE db.leases[i]]
      /\ db' = [issues |-> db'.issues, leases |-> db'.leases]
  BY <1>7 DEF Reclaim
<1>9. SafeStep
  <2>1. db' \in DB
    BY <1>5, <1>6, <1>7, <1>8 DEF DB
  <2>2. LeasesBacked(db')
    BY <1>4, <1>6, <1>8 DEF LeasesBacked
  <2>3. Minted
    BY <1>3, <1>6, <1>7, <1>8 DEF Minted
  <2> QED BY <2>1, <2>2, <2>3 DEF SafeStep
<1>10. S \in SUBSET Stale(db, now - Grace, node, any)
  BY <1>2, <1>7, ZenonT(30) DEF Stale, Exists
<1>11. \A i \in S : Serial!Remints(i)
  <2> TAKE i \in S
  <2>1. locks[i] \in FreshLocks /\ i \in Issue
    BY <1>3, <1>6
  <2>2. db'.issues[i] = Released(db.issues[i], locks[i])
    BY <1>8, <2>1
  <2>3. db'.issues[i] \in IssueRow /\ db'.issues[i].row_lock = locks[i]
    BY <1>7, <2>2, Zenon
  <2> QED BY <2>1, <2>3, FreshLock, Zenon
     DEF Serial!Remints, Serial!row, Serial!IssueRow, IssueRow, Serial!Exists, Exists,
         Serial!Status, Status, Serial!Assignee, Assignee, Serial!Builtin, Builtin
<1>12. Serial!ReclaimExpired
  <2>1. S \in SUBSET Serial!Stale(db, now - Grace, node, any)
    BY <1>10, Zenon DEF Stale, Serial!Stale, Exists, Serial!Exists
  <2>2. \A i \in S : db'.issues[i].row_lock = locks[i]
    BY <1>6, <1>7, <1>8
  <2>3. [i \in S |-> db'.issues[i].row_lock] = locks
    BY <1>3, <2>2
  <2>4. db' = Serial!Reclaim(db, S, [i \in S |-> Serial!row(i).row_lock])
    BY <1>7, <2>3, ZenonT(30) DEF Reclaim, Serial!Reclaim, Released, Serial!Released, Serial!row
  <2>5. now \in Serial!Instants
    BY <1>5 DEF Serial!Instants
  <2> QED BY <1>1, <1>11, <2>1, <2>4, <2>5, ZenonT(30) DEF Serial!ReclaimExpired
<1>13. \A i \in Issue : db'.issues[i] # db.issues[i]
           => db.leases[i] # NoRow /\ db.leases[i].expires + Grace < clock
  <2> SUFFICES ASSUME NEW i \in S
               PROVE  db.leases[i] # NoRow /\ db.leases[i].expires + Grace < clock
    BY <1>8
  <2>1. db.leases[i] # NoRow /\ db.leases[i].expires < now - Grace
    BY <1>10, Zenon DEF Stale
  <2>2. db.leases[i] \in LeaseRow
    BY <1>5, <1>6, <2>1, ZenonT(30)
  <2>3. db.leases[i].expires \in Nat
    BY <2>2 DEF LeaseRow
  <2>4. now \in 0..clock /\ clock \in Nat /\ Grace \in Nat
    BY <1>5, ZenonT(30)
  <2>5. db.leases[i].expires + Grace < clock
    BY ONLY <2>1, <2>3, <2>4
  <2> QED BY <2>1, <2>5
<1> QED BY <1>9, <1>12, <1>13

-----------------------------------------------------------------------------
(***************************************************************************)
(* Waking rewrites several deferred issues in one transaction and leaves   *)
(* the lease table alone: each of them is as the transaction saw it.       *)
(***************************************************************************)
LEMMA WokenIssues ==
    ASSUME IndInv, NEW s \in Session, tx[s] # NoTx, NEW S \in SUBSET Issue,
           NEW locks \in [S -> FreshLocks],
           \A i \in S : Exists(tx[s].snap, i),
           Commit(s, Wake(tx[s].snap, S, locks))
    PROVE  /\ \A i \in S : /\ db.issues[i] = tx[s].snap.issues[i]
                           /\ Woken(db.issues[i], locks[i]) \in IssueRow
                           /\ Woken(db.issues[i], locks[i]).row_lock = locks[i]
           /\ db' = Wake(db, S, locks)
<1> DEFINE b == tx[s].snap
           ours == [i \in Issue |-> IF i \in S THEN Woken(b.issues[i], locks[i]) ELSE b.issues[i]]
<1>1. /\ b.issues \in [Issue -> IssueRow \cup {NoRow}] /\ b.leases \in [Issue -> LeaseRow \cup {NoRow}]
      /\ db.issues \in [Issue -> IssueRow \cup {NoRow}] /\ db.leases \in [Issue -> LeaseRow \cup {NoRow}]
  BY DEF IndInv, TypeOK, Transaction, DB
<1>2. /\ ~TableConflict(b.issues, ours, db.issues)
      /\ db' = [issues |-> TableMerge(b.issues, ours, db.issues),
                leases |-> TableMerge(b.leases, b.leases, db.leases)]
  BY ZenonT(30) DEF Commit, Conflict, Wake
<1>3. \A i \in Issue : ~RowConflict(b.issues[i], ours[i], db.issues[i])
  <2> HIDE DEF b, ours
  <2> QED BY <1>1, <1>2, ZenonT(30) DEF TableConflict
<1>4. ASSUME NEW i \in S
      PROVE  /\ db.issues[i] = b.issues[i]
             /\ Woken(b.issues[i], locks[i]) \in IssueRow
             /\ Woken(b.issues[i], locks[i]).row_lock = locks[i]
             /\ RowMerge(b.issues[i], ours[i], db.issues[i]) = Woken(db.issues[i], locks[i])
  <2> DEFINE o == Woken(b.issues[i], locks[i])
  <2>1. i \in Issue /\ b.issues[i] \in IssueRow /\ db.issues[i] \in IssueRow \cup {NoRow}
    BY <1>1, ZenonT(30) DEF Exists
  <2>2. locks[i] \in FreshLocks /\ locks[i] \in RowLock
    BY FreshLock
  <2>3. o \in IssueRow /\ o.row_lock = locks[i] /\ o # NoRow
    BY <2>1, <2>2, NoRowAssumption, Zenon DEF Woken, IssueRow, Status, Builtin
  <2>4. ours[i] = o
    BY <2>1
  <2> HIDE DEF o, ours
  <2>5. /\ o.row_lock # b.issues[i].row_lock
        /\ db.issues[i] # NoRow => o.row_lock # db.issues[i].row_lock
    BY <2>1, <2>2, <2>3, FreshLock, ZenonT(30) DEF Exists
  <2>6. db.issues[i] # NoRow /\ db.issues[i].row_lock = b.issues[i].row_lock
          => db.issues[i] = b.issues[i]
    BY <2>1, ZenonT(30) DEF IndInv, RowVersionIdentifiesRow, Exists
  <2> HIDE DEF b
  <2>7. ~RowConflict(b.issues[i], o, db.issues[i])
    BY <1>3, <2>4, Zenon
  <2>8. RowMerge(b.issues[i], o, db.issues[i]) = o /\ db.issues[i] = b.issues[i]
    BY ONLY <2>1, <2>3, <2>5, <2>6, <2>7, RewrittenIssue
  <2> QED BY <2>3, <2>4, <2>8, ZenonT(30) DEF o
<1>5. ASSUME NEW i \in Issue
      PROVE  /\ i \notin S => RowMerge(b.issues[i], ours[i], db.issues[i]) = db.issues[i]
             /\ RowMerge(b.leases[i], b.leases[i], db.leases[i]) = db.leases[i]
  <2>1. /\ b.issues[i] \in IssueRow \cup {NoRow} /\ b.leases[i] \in LeaseRow \cup {NoRow}
        /\ db.issues[i] \in IssueRow \cup {NoRow} /\ db.leases[i] \in LeaseRow \cup {NoRow}
    BY <1>1
  <2>2. i \notin S => ours[i] = b.issues[i]
    OBVIOUS
  <2> HIDE DEF b, ours
  <2>3. RowMerge(b.issues[i], b.issues[i], db.issues[i]) = db.issues[i]
    BY <2>1, UntouchedIssue, ZenonT(30)
  <2>4. RowMerge(b.leases[i], b.leases[i], db.leases[i]) = db.leases[i]
    BY <2>1, UntouchedLease, ZenonT(30)
  <2> QED BY <2>2, <2>3, <2>4, Zenon
<1> HIDE DEF b, ours
<1>6. TableMerge(b.issues, ours, db.issues)
        = [i \in Issue |-> IF i \in S THEN Woken(db.issues[i], locks[i]) ELSE db.issues[i]]
  <2>1. DOMAIN b.issues = Issue
    BY <1>1
  <2> QED BY <1>4, <1>5, <2>1, ZenonT(30) DEF TableMerge
<1>7. TableMerge(b.leases, b.leases, db.leases) = db.leases
  <2>1. DOMAIN b.leases = Issue /\ DOMAIN db.leases = Issue
    BY <1>1
  <2> QED BY <1>1, <1>5, <2>1, ZenonT(30) DEF TableMerge
<1>8. db' = Wake(db, S, locks)
  BY <1>2, <1>6, <1>7, Zenon DEF Wake
<1> QED BY <1>4, <1>8, ZenonT(30) DEF b

(* Waking deferred issues is one serial operation; a deferred issue has no lease. *)
LEMMA WakeStep ==
    ASSUME IndInv, NEW s \in Session, TxWake(s)
    PROVE  SafeStep /\ Serial!WakeDefer
<1> DEFINE b == tx[s].snap
<1>1. PICK S \in SUBSET Deferred(b) : \E locks \in [S -> FreshLocks] : Commit(s, Wake(b, S, locks))
  BY DEF TxWake
<1>2. PICK locks \in [S -> FreshLocks] : Commit(s, Wake(b, S, locks))
  BY <1>1
<1>3. /\ tx[s] # NoTx /\ LeasesBacked(db)
      /\ db.issues \in [Issue -> IssueRow \cup {NoRow}] /\ db.leases \in [Issue -> LeaseRow \cup {NoRow}]
  BY DEF TxWake, IndInv, LeaseBacksLiveClaim, TypeOK, DB
<1>4. S \in SUBSET Issue /\ \A i \in S : Exists(b, i) /\ b.issues[i].status = "deferred"
  BY <1>1, ZenonT(30) DEF Deferred
<1>5. /\ \A i \in S : /\ db.issues[i] = b.issues[i]
                      /\ Woken(db.issues[i], locks[i]) \in IssueRow
                      /\ Woken(db.issues[i], locks[i]).row_lock = locks[i]
      /\ db' = Wake(db, S, locks)
  BY <1>2, <1>3, <1>4, WokenIssues, ZenonT(30)
<1>6. /\ db'.issues = [i \in Issue |-> IF i \in S THEN Woken(db.issues[i], locks[i]) ELSE db.issues[i]]
      /\ db'.leases = db.leases
      /\ db' = [issues |-> db'.issues, leases |-> db'.leases]
  BY <1>5, Zenon DEF Wake
<1>7. \A i \in S : db.leases[i] = NoRow
  BY <1>3, <1>4, <1>5, Zenon DEF LeasesBacked, LiveClaim
<1>8. SafeStep
  <2>1. db' \in DB
    BY <1>3, <1>4, <1>5, <1>6 DEF DB
  <2>2. LeasesBacked(db')
    BY <1>3, <1>6, <1>7 DEF LeasesBacked
  <2>3. Minted
    BY <1>2, <1>4, <1>5, <1>6 DEF Minted
  <2> QED BY <2>1, <2>2, <2>3 DEF SafeStep
<1>9. \A i \in S : Serial!Remints(i)
  <2> TAKE i \in S
  <2>1. locks[i] \in FreshLocks /\ i \in Issue
    BY <1>2, <1>4
  <2>2. db'.issues[i] \in IssueRow /\ db'.issues[i].row_lock = locks[i]
    BY <1>5, <1>6, <2>1
  <2> QED BY <2>1, <2>2, FreshLock
     DEF Serial!Remints, Serial!row, Serial!IssueRow, IssueRow, Serial!Exists, Exists,
         Serial!Status, Status, Serial!Assignee, Assignee, Serial!Builtin, Builtin
<1>10. Serial!WakeDefer
  <2>1. S \in SUBSET Serial!Deferred(db)
    BY <1>4, <1>5 DEF Serial!Deferred, Exists, Serial!Exists
  <2>2. [i \in S |-> db'.issues[i].row_lock] = locks
    BY <1>2, <1>4, <1>5, <1>6
  <2>3. db' = Serial!Wake(db, S, [i \in S |-> Serial!row(i).row_lock])
    BY <1>5, <2>2, Zenon DEF Wake, Serial!Wake, Woken, Serial!Woken, Serial!row
  <2> QED BY <1>9, <2>1, <2>3, Zenon DEF Serial!WakeDefer
<1> QED BY <1>8, <1>10

-------------------------------------------------------------------------------
(* The theorems *)

(* A transaction that commits is over; the clock does not move with it. *)
LEMMA CommitEndsTx ==
    ASSUME NEW s \in Session, Writes(s)
    PROVE  tx[s] # NoTx /\ tx' = [tx EXCEPT ![s] = NoTx] /\ clock' = clock
<1>0. \A ours : Commit(s, ours) => tx' = [tx EXCEPT ![s] = NoTx] /\ clock' = clock
  BY DEF Commit
<1>1. CASE TxClaim(s)
  BY <1>1, <1>0 DEF TxClaim
<1>2. CASE TxClaimReady(s)
  BY <1>2, <1>0 DEF TxClaimReady
<1>3. CASE TxUnclaim(s)
  BY <1>3, <1>0 DEF TxUnclaim
<1>4. CASE TxUnclaimIfAssignee(s)
  BY <1>4, <1>0 DEF TxUnclaimIfAssignee
<1>5. CASE TxRefresh(s)
  BY <1>5, <1>0 DEF TxRefresh
<1>6. CASE TxRearm(s)
  BY <1>6, <1>0 DEF TxRearm
<1>7. CASE TxDropOrphan(s)
  BY <1>7, <1>0 DEF TxDropOrphan
<1>8. CASE TxReclaim(s)
  BY <1>8, <1>0 DEF TxReclaim
<1>9. CASE TxClose(s)
  BY <1>9, <1>0 DEF TxClose
<1>10. CASE TxReopen(s)
  BY <1>10, <1>0 DEF TxReopen
<1>11. CASE TxWake(s)
  BY <1>11, <1>0 DEF TxWake
<1>12. CASE TxUpdate(s)
  BY <1>12, <1>0, Zenon DEF TxUpdate
<1>13. CASE TxImport(s)
  BY <1>13, <1>0 DEF TxImport
<1>14. CASE TxDelete(s)
  BY <1>14, <1>0 DEF TxDelete
<1> QED BY <1>1, <1>2, <1>3, <1>4, <1>5, <1>6, <1>7, <1>8, <1>9, <1>10, <1>11, <1>12, <1>13, <1>14 DEF Writes

(* Every commit is safe and is one serial operation, or changes nothing. *)
LEMMA WriteStep ==
    ASSUME IndInv, NEW s \in Session, Writes(s)
    PROVE  SafeStep /\ (Serial!Operation \/ db' = db)
<1>1. CASE TxClaim(s) \/ TxClaimReady(s)
  BY <1>1, ClaimStep DEF Serial!Operation
<1>2. CASE TxUnclaim(s) \/ TxUnclaimIfAssignee(s)
  BY <1>2, UnclaimStep DEF Serial!Operation
<1>3. CASE TxRefresh(s)
  BY <1>3, RefreshStep DEF Serial!Operation
<1>4. CASE TxRearm(s)
  BY <1>4, RearmStep DEF Serial!Operation
<1>5. CASE TxReclaim(s)
  BY <1>5, ReclaimStep DEF Serial!Operation
<1>6. CASE TxClose(s)
  BY <1>6, CloseStep DEF Serial!Operation
<1>7. CASE TxReopen(s)
  BY <1>7, ReopenStep DEF Serial!Operation
<1>8. CASE TxWake(s)
  BY <1>8, WakeStep DEF Serial!Operation
<1>9. CASE TxUpdate(s)
  BY <1>9, UpdateStep DEF Serial!Operation
<1>10. CASE TxImport(s)
  BY <1>10, ImportStep DEF Serial!Operation
<1>11. CASE TxDelete(s)
  BY <1>11, DeleteStep DEF Serial!Operation
<1> QED BY <1>1, <1>2, <1>3, <1>4, <1>5, <1>6, <1>7, <1>8, <1>9, <1>10, <1>11, NoOrphans DEF Writes

(* An empty store satisfies the inductive invariant. *)
LEMMA Initial == Init => IndInv
<1> SUFFICES ASSUME Init PROVE IndInv
  OBVIOUS
<1>1. TypeOK
  BY TimeAssumption DEF Init, TypeOK, DB
<1>2. LeaseBacksLiveClaim
  BY DEF Init, LeaseBacksLiveClaim, LeasesBacked
<1>3. SnapshotsBacked /\ RowVersionIdentifiesRow
  BY DEF Init, SnapshotsBacked, RowVersionIdentifiesRow
<1> QED BY <1>1, <1>2, <1>3 DEF IndInv

(* Snapshots only ever are past states, so a safe step keeps what they say. *)
LEMMA SafeStepKeepsInvariant ==
    ASSUME IndInv, NEW s \in Session, tx[s] # NoTx,
           tx' = [tx EXCEPT ![s] = NoTx], clock' = clock, SafeStep
    PROVE  IndInv'
<1>1. TypeOK'
  BY DEF IndInv, TypeOK, SafeStep
<1>2. LeaseBacksLiveClaim'
  BY DEF SafeStep, LeaseBacksLiveClaim, LeasesBacked
<1>3. \A z \in Session : tx'[z] # NoTx => tx[z] # NoTx /\ tx'[z] = tx[z]
  BY DEF IndInv, TypeOK
<1>4. SnapshotsBacked'
  BY <1>3 DEF IndInv, SnapshotsBacked, LeasesBacked
<1>5. RowVersionIdentifiesRow'
  <2> SUFFICES ASSUME NEW z \in Session, NEW i \in Issue, tx'[z] # NoTx,
                      tx'[z].snap.issues[i] # NoRow, db'.issues[i] # NoRow,
                      db'.issues[i].row_lock = tx'[z].snap.issues[i].row_lock
               PROVE  /\ db'.issues[i] = tx'[z].snap.issues[i]
                      /\ (tx'[z].snap.leases[i] = NoRow) <=> (db'.leases[i] = NoRow)
    BY DEF RowVersionIdentifiesRow, Exists
  <2>1. tx[z] # NoTx /\ tx'[z] = tx[z]
    BY <1>3
  <2>2. db'.issues[i].row_lock \notin FreshLocks
    BY <2>1, FreshLock, ZenonT(30) DEF Exists
  <2>3. db'.issues[i] = db.issues[i] /\ ((db'.leases[i] = NoRow) <=> (db.leases[i] = NoRow))
    BY <2>2 DEF SafeStep, Minted
  <2> QED BY <2>1, <2>3, ZenonT(30) DEF IndInv, RowVersionIdentifiesRow, Exists
<1> QED BY <1>1, <1>2, <1>4, <1>5 DEF IndInv

(* Every step keeps the inductive invariant. *)
LEMMA Inductive == IndInv /\ [Next]_vars => IndInv'
<1> SUFFICES ASSUME IndInv, [Next]_vars PROVE IndInv'
  OBVIOUS
<1> USE DEF IndInv
<1>1. CASE Tick
  <2>1. TypeOK'
    BY <1>1, TimeAssumption DEF Tick, TypeOK, Transaction
  <2> QED BY <1>1, <2>1, ZenonT(30)
      DEF Tick, LeaseBacksLiveClaim, LeasesBacked, SnapshotsBacked, RowVersionIdentifiesRow, Exists
<1>2. ASSUME NEW s \in Session, Begin(s) PROVE IndInv'
  <2>1. TypeOK'
    BY <1>2, TimeAssumption DEF Begin, TypeOK, Transaction
  <2>2. \A z \in Session : tx'[z] # NoTx =>
            (z # s /\ tx'[z] = tx[z]) \/ (z = s /\ tx'[z].snap = db)
    BY <1>2 DEF Begin, TypeOK
  <2>3. db' = db /\ clock' = clock
    BY <1>2 DEF Begin
  <2>4. LeaseBacksLiveClaim'
    BY <2>3 DEF LeaseBacksLiveClaim, LeasesBacked
  <2>5. SnapshotsBacked'
    BY <2>2, <2>3 DEF LeaseBacksLiveClaim, LeasesBacked, SnapshotsBacked
  <2>6. RowVersionIdentifiesRow'
    BY <2>2, <2>3, VersionsKept, ZenonT(30)
  <2> QED BY <2>1, <2>4, <2>5, <2>6
<1>3. ASSUME NEW s \in Session, Rollback(s) PROVE IndInv'
  <2>1. TypeOK'
    BY <1>3 DEF Rollback, TypeOK
  <2>2. \A z \in Session : tx'[z] # NoTx => tx[z] # NoTx /\ tx'[z] = tx[z]
    BY <1>3 DEF Rollback, TypeOK
  <2>3. db' = db /\ clock' = clock
    BY <1>3 DEF Rollback
  <2>4. LeaseBacksLiveClaim'
    BY <2>3 DEF LeaseBacksLiveClaim, LeasesBacked
  <2>5. SnapshotsBacked'
    BY <2>2, ZenonT(30) DEF LeasesBacked, SnapshotsBacked
  <2>6. RowVersionIdentifiesRow'
    BY <2>2, <2>3, VersionsKept, ZenonT(30)
  <2> QED BY <2>1, <2>4, <2>5, <2>6
<1>4. ASSUME NEW s \in Session, Writes(s) PROVE IndInv'
  BY <1>4, CommitEndsTx, WriteStep, SafeStepKeepsInvariant
<1>5. CASE UNCHANGED vars
  BY <1>5, Zenon DEF vars, TypeOK, LeaseBacksLiveClaim, LeasesBacked, SnapshotsBacked,
     RowVersionIdentifiesRow, Exists, Transaction
<1> QED BY <1>1, <1>2, <1>3, <1>4, <1>5 DEF Next

(* The tables keep their types and every open transaction began in the past. *)
THEOREM TypeCorrect == Spec => []TypeOK
BY Initial, Inductive, PTL DEF Spec, IndInv

(***************************************************************************)
(* However operations interleave, no lease row outlives its claim: the     *)
(* "only if" half of the invariant stated above UpsertLeaseInTx.           *)
(***************************************************************************)
THEOREM LeasesNeverOutliveClaims == Spec => []LeaseBacksLiveClaim
BY Initial, Inductive, PTL DEF Spec, IndInv

(* RowVersion is a sound compare-and-set token for the row and for its lease. *)
THEOREM RowVersionIsSound == Spec => []RowVersionIdentifiesRow
BY Initial, Inductive, PTL DEF Spec, IndInv

(***************************************************************************)
(* Transactions that merge cell by cell implement the serial store: each   *)
(* commit is one operation on the tables as they are at that moment.       *)
(***************************************************************************)
THEOREM ImplementsSerialStore == Spec => SerialStore
<1>1. Init => Serial!Init
  BY DEF Init, Serial!Init
<1>2. IndInv /\ [Next]_vars => [Serial!Next]_(Serial!vars)
  <2> SUFFICES ASSUME IndInv, [Next]_vars PROVE Serial!Next \/ (db' = db /\ clock' = clock)
    BY DEF Serial!vars
  <2>1. CASE Tick
    BY <2>1 DEF Tick, Serial!Next, Serial!Tick
  <2>2. ASSUME NEW s \in Session, Begin(s) \/ Rollback(s) PROVE db' = db /\ clock' = clock
    BY <2>2 DEF Begin, Rollback
  <2>3. ASSUME NEW s \in Session, Writes(s) PROVE Serial!Next \/ (db' = db /\ clock' = clock)
    BY <2>3, CommitEndsTx, WriteStep DEF Serial!Next
  <2>4. CASE UNCHANGED vars
    BY <2>4 DEF vars
  <2> QED BY <2>1, <2>2, <2>3, <2>4 DEF Next
<1> QED BY <1>1, <1>2, Initial, Inductive, PTL DEF Spec, SerialStore, Serial!Spec

(* A heartbeat that commits before a reclaim does always rescues its claim. *)
THEOREM HeartbeatRescues == Spec => ReclaimSparesLiveLeases
<1>1. IndInv /\ [Next]_vars =>
        [\A s \in Session, i \in Issue :
             (db'.issues[i] # db.issues[i] /\ tx'[s] # tx[s] /\ TxReclaim(s))
                 => db.leases[i] # NoRow /\ db.leases[i].expires + Grace < clock]_vars
  BY ReclaimStep
<1> QED BY <1>1, Initial, Inductive, PTL DEF Spec, ReclaimSparesLiveLeases

(* A claim that commits found, at its commit, an issue that was free to take. *)
THEOREM ClaimsHaveOneWinner == Spec => ClaimTakesOnlyFreeIssues
<1>1. IndInv /\ [Next]_vars =>
        [\A s \in Session, i \in Issue :
             (db'.issues[i] # db.issues[i] /\ tx'[s] # tx[s] /\ (TxClaim(s) \/ TxClaimReady(s)))
                 => /\ db.issues[i].status \in Claimable
                    /\ \/ db.issues[i].assignee \in Pools \cup {Unassigned}
                       \/ ActorMatches(db.issues[i].assignee, db'.issues[i].assignee)]_vars
  BY ClaimStep, ZenonT(30) DEF CanClaim
<1> QED BY <1>1, Initial, Inductive, PTL DEF Spec, ClaimTakesOnlyFreeIssues

(***************************************************************************)
(* closed_at is coherent in the serial store, hence in this one: the proof *)
(* looks only at serial operations.                                        *)
(***************************************************************************)
LEMMA PutKeepsCoherence ==
    ASSUME db \in DB, ClosedAtCoherent, NEW i \in Issue, NEW o, NEW l,
           db' = Put(db, i, o, l), o # NoRow => Coherent(o)
    PROVE  ClosedAtCoherent'
<1>1. db'.issues = [db.issues EXCEPT ![i] = o] /\ db.issues \in [Issue -> IssueRow \cup {NoRow}]
  BY DEF Put, DB
<1>2. \A j \in Issue : db'.issues[j] # NoRow => Coherent(db'.issues[j])
  BY <1>1 DEF ClosedAtCoherent, Exists
<1> QED BY <1>2 DEF ClosedAtCoherent, Exists, Coherent

(* Each serial operation leaves closed_at set exactly on closed rows. *)
LEMMA OperationKeepsCoherence ==
    ASSUME db \in DB, ClosedAtCoherent, Serial!Operation
    PROVE  ClosedAtCoherent'
<1>0. \A i \in Issue : db.issues[i] # NoRow => db.issues[i] \in IssueRow /\ Coherent(db.issues[i])
  BY DEF DB, ClosedAtCoherent, Exists
<1>1. CASE Serial!ClaimIssue
  <2>1. PICK i, a, l, lk : i \in Issue /\ Serial!CanClaim(db, i, a) /\ db' =
            Put(db, i, [db.issues[i] EXCEPT !.status = "in_progress", !.assignee = a, !.row_lock = lk], l)
    BY <1>1, Zenon DEF Serial!ClaimIssue, Serial!Claim, Serial!Put, Put
  <2>2. db.issues[i] \in IssueRow /\ Coherent(db.issues[i]) /\ db.issues[i].status # "closed"
    BY <2>1, <1>0, StatusAssumption
       DEF Serial!CanClaim, Serial!Exists, Serial!Claimable, Builtin
  <2>3. Coherent([db.issues[i] EXCEPT !.status = "in_progress", !.assignee = a, !.row_lock = lk])
    BY <2>2 DEF IssueRow, Coherent
  <2> QED BY <2>1, <2>3, PutKeepsCoherence
<1>2. CASE Serial!UnclaimIssue
  <2>1. PICK i, a, force, lk : i \in Issue /\ Serial!CanUnclaim(db, i, a, force) /\ db' =
            Put(db, i, Released(db.issues[i], lk), NoRow)
    BY <1>2, Zenon DEF Serial!UnclaimIssue, Serial!Unclaim, Serial!Put, Put, Serial!Released, Released
  <2>2. db.issues[i] \in IssueRow /\ Coherent(db.issues[i]) /\ db.issues[i].status # "closed"
    BY <2>1, <1>0 DEF Serial!CanUnclaim, Serial!Exists
  <2>3. Coherent(Released(db.issues[i], lk))
    BY <2>2 DEF IssueRow, Coherent, Released
  <2> QED BY <2>1, <2>3, PutKeepsCoherence
<1>3. CASE Serial!RefreshLease
  <2>1. PICK i, l : i \in Issue /\ db' = Put(db, i, db.issues[i], l)
    BY <1>3 DEF Serial!RefreshLease, Serial!Put, Put
  <2> QED BY <2>1, <1>0, PutKeepsCoherence
<1>4. CASE Serial!RearmLease
  <2>1. PICK i, a, l, lk : i \in Issue /\ Serial!CanRearm(db, i, a) /\ db' =
            Put(db, i, [db.issues[i] EXCEPT !.row_lock = lk], l)
    BY <1>4, Zenon DEF Serial!RearmLease, Serial!Rearm, Serial!Put, Put
  <2>2. db.issues[i] \in IssueRow /\ Coherent(db.issues[i])
    BY <2>1, <1>0 DEF Serial!CanRearm, Serial!LiveClaim
  <2>3. Coherent([db.issues[i] EXCEPT !.row_lock = lk])
    BY <2>2 DEF IssueRow, Coherent
  <2> QED BY <2>1, <2>3, PutKeepsCoherence
<1>5. CASE Serial!ReclaimExpired
  <2>0. PICK now \in Serial!Instants, node \in Node \cup {NoNode}, any \in BOOLEAN :
            \E S \in SUBSET Serial!Stale(db, now - Grace, node, any) :
                db' = Serial!Reclaim(db, S, [i \in S |-> Serial!row(i).row_lock])
    BY <1>5, Zenon DEF Serial!ReclaimExpired
  <2> PICK S \in SUBSET Serial!Stale(db, now - Grace, node, any) :
                db' = Serial!Reclaim(db, S, [i \in S |-> Serial!row(i).row_lock])
    BY <2>0, Zenon
  <2> DEFINE locks == [i \in S |-> Serial!row(i).row_lock]
  <2>1. /\ \A i \in S : db.issues[i] # NoRow /\ db.issues[i].status = "in_progress"
        /\ db'.issues = [i \in Issue |-> IF i \in S THEN Released(db.issues[i], locks[i])
                                        ELSE db.issues[i]]
    BY ZenonT(30) DEF Serial!Stale, Serial!Exists, Serial!Reclaim, Serial!Released, Released
  <2> HIDE DEF locks
  <2>2. \A i \in Issue : i \in S => Coherent(Released(db.issues[i], locks[i]))
    BY <2>1, <1>0, ZenonT(30) DEF IssueRow, Coherent, Released
  <2>3. \A i \in Issue : db'.issues[i] # NoRow => Coherent(db'.issues[i])
    BY <2>1, <2>2, <1>0, Zenon
  <2> QED BY <2>3, Zenon DEF ClosedAtCoherent, Exists, Coherent
<1>6. CASE Serial!CloseIssue
  <2>1. PICK i, a, force, lk : i \in Issue /\ Serial!CanClose(db, i, a, force) /\ db' =
            Put(db, i, [db.issues[i] EXCEPT !.status = "closed", !.closed_at = TRUE, !.row_lock = lk], NoRow)
    BY <1>6, Zenon DEF Serial!CloseIssue, Serial!Close, Serial!Put, Put
  <2>2. db.issues[i] \in IssueRow
    BY <2>1, <1>0 DEF Serial!CanClose, Serial!Exists
  <2>3. Coherent([db.issues[i] EXCEPT !.status = "closed", !.closed_at = TRUE, !.row_lock = lk])
    BY <2>2 DEF IssueRow, Coherent
  <2> QED BY <2>1, <2>3, PutKeepsCoherence
<1>7. CASE Serial!ReopenIssue
  <2>1. PICK i, lk : i \in Issue /\ Serial!CanReopen(db, i) /\ db' =
            Put(db, i, [db.issues[i] EXCEPT !.status = "open", !.closed_at = FALSE, !.row_lock = lk], NoRow)
    BY <1>7, Zenon DEF Serial!ReopenIssue, Serial!Reopen, Serial!Put, Put
  <2>2. db.issues[i] \in IssueRow
    BY <2>1, <1>0 DEF Serial!CanReopen, Serial!Exists
  <2>3. Coherent([db.issues[i] EXCEPT !.status = "open", !.closed_at = FALSE, !.row_lock = lk])
    BY <2>2 DEF IssueRow, Coherent
  <2> QED BY <2>1, <2>3, PutKeepsCoherence
<1>8. CASE Serial!WakeDefer
  <2>0. PICK S \in SUBSET Serial!Deferred(db) :
            db' = Serial!Wake(db, S, [i \in S |-> Serial!row(i).row_lock])
    BY <1>8 DEF Serial!WakeDefer
  <2> DEFINE locks == [i \in S |-> Serial!row(i).row_lock]
  <2>1. /\ \A i \in S : db.issues[i] # NoRow /\ db.issues[i].status = "deferred"
        /\ db'.issues = [i \in Issue |-> IF i \in S THEN Woken(db.issues[i], locks[i])
                                        ELSE db.issues[i]]
    BY <2>0, ZenonT(30) DEF Serial!Deferred, Serial!Exists, Serial!Wake, Serial!Woken, Woken
  <2> HIDE DEF locks
  <2>2. \A i \in Issue : i \in S => Coherent(Woken(db.issues[i], locks[i]))
    BY <2>1, <1>0, ZenonT(30) DEF IssueRow, Coherent, Woken
  <2>3. \A i \in Issue : db'.issues[i] # NoRow => Coherent(db'.issues[i])
    BY <2>1, <2>2, <1>0
  <2> QED BY <2>3 DEF ClosedAtCoherent, Exists, Coherent
<1>9. CASE Serial!UpdateIssue
  <2>1. PICK i, st, as, l, lk : i \in Issue /\ Serial!Exists(db, i) /\ db' =
            Put(db, i, [status |-> st, assignee |-> as, row_lock |-> lk,
                        closed_at |-> ClosedAtAfterUpdate(db.issues[i], st)], l)
    BY <1>9, ZenonT(30) DEF Serial!UpdateIssue, Serial!Update, Serial!Put, Put, Serial!ClosedAtAfterUpdate,
       ClosedAtAfterUpdate
  <2>2. db.issues[i] \in IssueRow /\ Coherent(db.issues[i])
    BY <2>1, <1>0 DEF Serial!Exists
  <2>3. ClosedAtAfterUpdate(db.issues[i], st) <=> st = "closed"
    BY <2>2 DEF ClosedAtAfterUpdate, Coherent, IssueRow
  <2>4. Coherent([status |-> st, assignee |-> as, row_lock |-> lk,
                  closed_at |-> ClosedAtAfterUpdate(db.issues[i], st)])
    BY <2>3, Zenon DEF Coherent
  <2> QED BY <2>1, <2>4, PutKeepsCoherence, Zenon
<1>10. CASE Serial!ImportIssue
  <2>1. PICK i, o, l : i \in Issue /\ Coherent(o) /\ db' = Put(db, i, o, l)
    BY <1>10, Zenon DEF Serial!ImportIssue, Serial!Coherent, Coherent, Serial!Put, Put
  <2> QED BY <2>1, PutKeepsCoherence
<1>11. CASE Serial!DeleteIssue
  <2>1. PICK i \in Issue : db' = Put(db, i, NoRow, NoRow)
    BY <1>11, ZenonT(30) DEF Serial!DeleteIssue, Serial!Delete, Serial!Put, Put
  <2> QED BY <2>1, PutKeepsCoherence
<1> QED BY <1>1, <1>2, <1>3, <1>4, <1>5, <1>6, <1>7, <1>8, <1>9, <1>10, <1>11 DEF Serial!Operation

(* No merge of concurrent writes tears status and closed_at apart. *)
THEOREM ClosedAtStaysCoherent == Spec => []ClosedAtCoherent
<1>1. Init => ClosedAtCoherent
  BY DEF Init, ClosedAtCoherent, Exists
<1>2. IndInv /\ ClosedAtCoherent /\ [Next]_vars => ClosedAtCoherent'
  <2> SUFFICES ASSUME IndInv, ClosedAtCoherent, [Next]_vars PROVE ClosedAtCoherent'
    OBVIOUS
  <2>1. ASSUME db' = db PROVE ClosedAtCoherent'
    BY <2>1 DEF ClosedAtCoherent, Exists, Coherent
  <2>2. ASSUME NEW s \in Session, Writes(s) PROVE ClosedAtCoherent'
    BY <2>1, <2>2, WriteStep, OperationKeepsCoherence DEF IndInv, TypeOK
  <2> QED BY <2>1, <2>2 DEF Next, Tick, Begin, Rollback, vars
<1> QED BY <1>1, <1>2, Initial, Inductive, PTL DEF Spec

-----------------------------------------------------------------------------
(* What the restores of ties leave standing: types, and the row under a row_lock. *)
TiesInv == TypeOK /\ RowLockGuardsRow

(***************************************************************************)
(* Every write leaves an issue row alone, deletes it, or stores a minted   *)
(* row_lock in it; what it does to leases is not restricted.               *)
(***************************************************************************)
Disciplined(s, ours) ==
    /\ ours \in DB
    /\ \A i \in Issue : \/ ours.issues[i] = tx[s].snap.issues[i]
                        \/ ours.issues[i] = NoRow
                        \/ ours.issues[i].row_lock \in FreshLocks

(* A write to one issue is disciplined when its row is. *)
LEMMA DisciplinedPut ==
    ASSUME TypeOK, NEW s \in Session, tx[s] # NoTx, NEW i \in Issue,
           NEW o \in IssueRow \cup {NoRow}, NEW l \in LeaseRow \cup {NoRow},
           o = tx[s].snap.issues[i] \/ o = NoRow \/ o.row_lock \in FreshLocks
    PROVE  Disciplined(s, Put(tx[s].snap, i, o, l))
<1>1. tx[s].snap \in DB
  BY DEF TypeOK, Transaction
<1>2. /\ tx[s].snap.issues \in [Issue -> IssueRow \cup {NoRow}]
      /\ tx[s].snap.leases \in [Issue -> LeaseRow \cup {NoRow}]
  BY <1>1 DEF DB
<1>3. Put(tx[s].snap, i, o, l) \in DB
  BY <1>2 DEF Put, DB
<1>4. \A j \in Issue : \/ Put(tx[s].snap, i, o, l).issues[j] = tx[s].snap.issues[j]
                       \/ Put(tx[s].snap, i, o, l).issues[j] = NoRow
                       \/ Put(tx[s].snap, i, o, l).issues[j].row_lock \in FreshLocks
  BY <1>2, Zenon DEF Put
<1> QED BY <1>3, <1>4, Zenon DEF Disciplined

(* The lease a tie or an import leaves is a lease row. *)
LEMMA RestoredLeaseTyped ==
    ASSUME NEW row \in IssueRow, NEW lease \in LeaseRow \cup {NoRow}, NEW now, NEW isNew,
           NEW st, NEW horizon \in Nat, NEW imported \in ImportedLease(st, horizon)
    PROVE  RestoreLease(row, lease, imported, now, isNew) \in LeaseRow \cup {NoRow}
<1> DEFINE adopted == [holder |-> row.assignee, expires |-> imported.expires,
                       granted_node |-> imported.granted_node]
<1>1. ASSUME imported # NoRow, row.assignee # Unassigned PROVE adopted \in LeaseRow
  <2>1. imported \in [expires : 0..horizon, granted_node : Node \cup {NoNode}]
    BY <1>1 DEF ImportedLease
  <2>2. row.assignee \in Actor
    BY <1>1 DEF IssueRow, Assignee
  <2> QED BY <2>1, <2>2 DEF LeaseRow
<1> HIDE DEF adopted
<1>2. RestoreLease(row, lease, imported, now, isNew) \in {adopted, lease, NoRow}
  BY DEF RestoreLease, adopted
<1>3. CASE imported # NoRow /\ row.assignee # Unassigned
  BY <1>1, <1>2, <1>3
<1>4. CASE ~(imported # NoRow /\ row.assignee # Unassigned)
  BY <1>4 DEF RestoreLease
<1> QED BY <1>3, <1>4

(* Each operation that rewrites the row of one issue. *)
LEMMA RewritesDisciplined ==
    ASSUME TypeOK, NEW s \in Session, tx[s] # NoTx,
           \/ TxClaim(s) \/ TxClaimReady(s) \/ TxUnclaim(s) \/ TxUnclaimIfAssignee(s)
           \/ TxRearm(s) \/ TxClose(s) \/ TxReopen(s) \/ TxUpdate(s) \/ TxDelete(s)
    PROVE  \E ours : Disciplined(s, ours) /\ Commit(s, ours)
<1> DEFINE b == tx[s].snap
<1>0. \A i \in Issue : /\ Exists(b, i) => b.issues[i] \in IssueRow
                       /\ b.leases[i] \in LeaseRow \cup {NoRow}
  BY SnapshotTypes, Zenon DEF Exists
<1>a. \A lk \in FreshLocks : lk \in RowLock
  BY FreshLock
<1>b. \A now \in Instants(s) : now \in Nat /\ now + TTL \in Nat
  BY InstantTypes, Zenon
<1>1. CASE TxClaim(s) \/ TxClaimReady(s)
  <2>1. PICK i \in Issue, a \in Actor, node \in Node \cup {NoNode}, now \in Instants(s),
             lk \in FreshLocks :
             Exists(b, i) /\ Commit(s, Claim(b, i, a, node, now, lk))
    BY <1>1, ZenonT(30) DEF TxClaim, TxClaimReady, CanClaimReady, CanClaim
  <2> DEFINE o == [b.issues[i] EXCEPT !.status = "in_progress", !.assignee = a, !.row_lock = lk]
             l == UpsertLease(a, now, node)
  <2>2. o \in IssueRow /\ o.row_lock = lk
    BY <1>0, <1>a, <2>1, ZenonT(30) DEF IssueRow, Status, Builtin, Assignee
  <2>3. l \in LeaseRow
    BY <1>b DEF UpsertLease, LeaseRow
  <2>4. Commit(s, Put(b, i, o, l))
    BY <2>1 DEF Claim
  <2> HIDE DEF o, l
  <2> QED BY <2>2, <2>3, <2>4, DisciplinedPut
<1>2. CASE TxUnclaim(s) \/ TxUnclaimIfAssignee(s)
  <2>1. PICK i \in Issue, lk \in FreshLocks : Exists(b, i) /\ Commit(s, Unclaim(b, i, lk))
    BY <1>2, ZenonT(30) DEF TxUnclaim, TxUnclaimIfAssignee, CanUnclaim, CanUnclaimIfAssignee
  <2> DEFINE o == Released(b.issues[i], lk)
  <2>2. o \in IssueRow /\ o.row_lock = lk
    BY <1>0, <1>a, <2>1, Zenon DEF Released, IssueRow, Status, Builtin, Assignee
  <2>3. Commit(s, Put(b, i, o, NoRow))
    BY <2>1 DEF Unclaim
  <2> HIDE DEF o
  <2> QED BY <2>2, <2>3, DisciplinedPut
<1>3. CASE TxRearm(s)
  <2>1. PICK i \in Issue, a \in Actor, node \in Node \cup {NoNode}, now \in Instants(s),
             lk \in FreshLocks :
             Exists(b, i) /\ Commit(s, Rearm(b, i, a, node, now, lk))
    BY <1>3, ZenonT(30) DEF TxRearm, CanRearm, LiveClaim, Exists
  <2> DEFINE o == [b.issues[i] EXCEPT !.row_lock = lk]
             l == UpsertLease(a, now, node)
  <2>2. o \in IssueRow /\ o.row_lock = lk
    BY <1>0, <1>a, <2>1 DEF IssueRow
  <2>3. l \in LeaseRow
    BY <1>b DEF UpsertLease, LeaseRow
  <2>4. Commit(s, Put(b, i, o, l))
    BY <2>1 DEF Rearm
  <2> HIDE DEF o, l
  <2> QED BY <2>2, <2>3, <2>4, DisciplinedPut
<1>4. CASE TxClose(s)
  <2>1. PICK i \in Issue, lk \in FreshLocks : Exists(b, i) /\ Commit(s, Close(b, i, lk))
    BY <1>4, ZenonT(30) DEF TxClose, CanClose
  <2> DEFINE o == [b.issues[i] EXCEPT !.status = "closed", !.closed_at = TRUE, !.row_lock = lk]
  <2>2. o \in IssueRow /\ o.row_lock = lk
    BY <1>0, <1>a, <2>1, Zenon DEF IssueRow, Status, Builtin
  <2>3. Commit(s, Put(b, i, o, NoRow))
    BY <2>1 DEF Close
  <2> HIDE DEF o
  <2> QED BY <2>2, <2>3, DisciplinedPut
<1>5. CASE TxReopen(s)
  <2>1. PICK i \in Issue, lk \in FreshLocks : Exists(b, i) /\ Commit(s, Reopen(b, i, lk))
    BY <1>5 DEF TxReopen, CanReopen
  <2> DEFINE o == [b.issues[i] EXCEPT !.status = "open", !.closed_at = FALSE, !.row_lock = lk]
  <2>2. o \in IssueRow /\ o.row_lock = lk
    BY <1>0, <1>a, <2>1, Zenon DEF IssueRow, Status, Builtin
  <2>3. Commit(s, Put(b, i, o, NoRow))
    BY <2>1 DEF Reopen
  <2> HIDE DEF o
  <2> QED BY <2>2, <2>3, DisciplinedPut
<1>6. CASE TxUpdate(s)
  <2>1. PICK i \in Issue, st \in Status, as \in Assignee, lk \in FreshLocks :
             Exists(b, i) /\ Commit(s, Update(b, i, st, as, lk))
    BY <1>6, Zenon DEF TxUpdate
  <2> DEFINE o == [status |-> st, assignee |-> as, row_lock |-> lk,
                   closed_at |-> ClosedAtAfterUpdate(b.issues[i], st)]
             l == LeaseAfterUpdate(b, i, st, as)
  <2>2. o \in IssueRow /\ o.row_lock = lk
    BY <1>0, <1>a, <2>1, ZenonT(30) DEF IssueRow, ClosedAtAfterUpdate
  <2>3. l \in LeaseRow \cup {NoRow}
    BY <1>0, ZenonT(30) DEF LeaseAfterUpdate
  <2>4. Commit(s, Put(b, i, o, l))
    BY <2>1, ZenonT(30) DEF Update
  <2> HIDE DEF o, l
  <2> QED BY <2>2, <2>3, <2>4, DisciplinedPut
<1>7. CASE TxDelete(s)
  <2>1. PICK i \in Issue : Commit(s, Put(b, i, NoRow, NoRow))
    BY <1>7 DEF TxDelete, Delete
  <2> QED BY <2>1, DisciplinedPut
<1> QED BY <1>1, <1>2, <1>3, <1>4, <1>5, <1>6, <1>7

(* The operations that write a lease and keep the row, and the import of a newer row. *)
LEMMA LeaseWritesDisciplined ==
    ASSUME TypeOK, NEW s \in Session, tx[s] # NoTx,
           TxRefresh(s) \/ TxDropOrphan(s) \/ TxImport(s) \/ TxImportTie(s)
    PROVE  \E ours : Disciplined(s, ours) /\ Commit(s, ours)
<1> DEFINE b == tx[s].snap
<1>0. \A i \in Issue : /\ b.issues[i] \in IssueRow \cup {NoRow}
                       /\ b.leases[i] \in LeaseRow \cup {NoRow}
  BY SnapshotTypes, Zenon
<1>a. clock + TTL \in Nat
  BY TimeAssumption DEF TypeOK
<1>1. CASE TxRefresh(s)
  <2>1. PICK i \in Issue, a \in Actor, node \in Node \cup {NoNode}, now \in Instants(s) :
             CanRefresh(b, i, a) /\ Commit(s, Refresh(b, i, a, node, now))
    BY <1>1 DEF TxRefresh
  <2> DEFINE l == [holder |-> a, expires |-> now + TTL,
                   granted_node |-> IF b.leases[i].granted_node = NoNode THEN node
                                    ELSE b.leases[i].granted_node]
  <2>2. now + TTL \in Nat
    BY InstantTypes, Zenon
  <2>3. b.leases[i] \in LeaseRow
    BY <1>0, <2>1, ZenonT(30) DEF CanRefresh, HoldsLease
  <2>4. l \in LeaseRow
    BY <2>2, <2>3, Zenon DEF LeaseRow
  <2>5. Commit(s, Put(b, i, b.issues[i], l))
    BY <2>1, ZenonT(30) DEF Refresh
  <2> HIDE DEF l
  <2> QED BY <1>0, <2>4, <2>5, DisciplinedPut, ZenonT(30)
<1>2. CASE TxDropOrphan(s)
  <2>1. PICK i \in Issue : Commit(s, Put(b, i, b.issues[i], NoRow))
    BY <1>2 DEF TxDropOrphan, DropOrphan
  <2> QED BY <1>0, <2>1, DisciplinedPut, Zenon
<1>3. CASE TxImport(s)
  <2>1. PICK i \in Issue, st \in Status, as \in Assignee, now \in Instants(s), lk \in FreshLocks :
             \E imported \in ImportedLease(st, clock + TTL) :
                 Commit(s, Import(b, i, [status |-> st, assignee |-> as,
                                         closed_at |-> st = "closed", row_lock |-> lk],
                                  imported, now))
    BY <1>3, ZenonT(30) DEF TxImport
  <2> DEFINE o == [status |-> st, assignee |-> as, closed_at |-> st = "closed", row_lock |-> lk]
  <2>2. PICK imported \in ImportedLease(st, clock + TTL) : Commit(s, Import(b, i, o, imported, now))
    BY <2>1, Zenon
  <2>3. o \in IssueRow /\ o.row_lock = lk
    BY FreshLock, ZenonT(30) DEF IssueRow
  <2> DEFINE l == RestoreLease(o, b.leases[i], imported, now, ~Exists(b, i))
  <2>4. Commit(s, Put(b, i, o, l))
    BY <2>2, ZenonT(30) DEF Import
  <2>5. l \in LeaseRow \cup {NoRow}
    <3> HIDE DEF o
    <3> QED BY <1>0, <1>a, <2>3, RestoredLeaseTyped, ZenonT(30)
  <2> HIDE DEF o, l
  <2> QED BY <2>3, <2>4, <2>5, DisciplinedPut
<1>4. CASE TxImportTie(s)
  <2>1. PICK i \in Issue, now \in Instants(s) :
             /\ Exists(b, i)
             /\ \E imported \in ImportedLease(b.issues[i].status, clock + TTL) :
                    Commit(s, ImportTie(b, i, imported, now))
    BY <1>4 DEF TxImportTie
  <2>2. PICK imported \in ImportedLease(b.issues[i].status, clock + TTL) :
             Commit(s, ImportTie(b, i, imported, now))
    BY <2>1
  <2> DEFINE l == RestoreLease(b.issues[i], b.leases[i], imported, now, FALSE)
  <2>3. Commit(s, Put(b, i, b.issues[i], l))
    BY <2>2, ZenonT(30) DEF ImportTie
  <2>4. b.issues[i] \in IssueRow
    BY <1>0, <2>1, Zenon DEF Exists
  <2>5. l \in LeaseRow \cup {NoRow}
    BY <1>0, <1>a, <2>4, RestoredLeaseTyped, ZenonT(30)
  <2> HIDE DEF l
  <2> QED BY <1>0, <2>3, <2>5, DisciplinedPut, ZenonT(30)
<1> QED BY <1>1, <1>2, <1>3, <1>4

(* The two operations that rewrite several issues in one transaction. *)
LEMMA SweepsDisciplined ==
    ASSUME TypeOK, NEW s \in Session, tx[s] # NoTx, TxReclaim(s) \/ TxWake(s)
    PROVE  \E ours : Disciplined(s, ours) /\ Commit(s, ours)
<1> DEFINE b == tx[s].snap
<1>0. /\ b.issues \in [Issue -> IssueRow \cup {NoRow}]
      /\ b.leases \in [Issue -> LeaseRow \cup {NoRow}]
  BY DEF TypeOK, Transaction, DB
<1>a. \A lk \in FreshLocks : lk \in RowLock
  BY FreshLock
<1>1. CASE TxReclaim(s)
  <2>1. PICK S \in SUBSET Issue : \E locks \in [S -> FreshLocks] :
             /\ \A i \in S : Exists(b, i)
             /\ Commit(s, Reclaim(b, S, locks))
    BY <1>1, Zenon DEF TxReclaim, Stale
  <2>2. PICK locks \in [S -> FreshLocks] :
             (\A i \in S : Exists(b, i)) /\ Commit(s, Reclaim(b, S, locks))
    BY <2>1
  <2> DEFINE ours == Reclaim(b, S, locks)
  <2>3. \A i \in S : /\ Released(b.issues[i], locks[i]) \in IssueRow
                     /\ Released(b.issues[i], locks[i]).row_lock \in FreshLocks
    <3>1. \A i \in S : b.issues[i] \in IssueRow /\ locks[i] \in FreshLocks
      BY <1>0, <2>2, Zenon DEF Exists
    <3> QED BY <1>a, <3>1, ReleasedRow, Zenon
  <2>4. /\ ours = [issues |-> ours.issues, leases |-> ours.leases]
        /\ ours.issues = [i \in Issue |-> IF i \in S THEN Released(b.issues[i], locks[i])
                                          ELSE b.issues[i]]
        /\ ours.leases = [i \in Issue |-> IF i \in S THEN NoRow ELSE b.leases[i]]
    BY Zenon DEF Reclaim
  <2> HIDE DEF ours, b
  <2>5. ours.issues \in [Issue -> IssueRow \cup {NoRow}] /\ ours.leases \in [Issue -> LeaseRow \cup {NoRow}]
    BY <1>0, <2>3, <2>4
  <2>6. ours \in DB
    BY <2>4, <2>5 DEF DB
  <2>7. \A i \in Issue : ours.issues[i] = b.issues[i] \/ ours.issues[i].row_lock \in FreshLocks
    BY <2>3, <2>4
  <2>8. Commit(s, ours)
    BY <2>2 DEF ours
  <2> QED BY <2>6, <2>7, <2>8, Zenon DEF Disciplined, b
<1>2. CASE TxWake(s)
  <2>1. PICK S \in SUBSET Issue : \E locks \in [S -> FreshLocks] :
             /\ \A i \in S : Exists(b, i)
             /\ Commit(s, Wake(b, S, locks))
    BY <1>2, Zenon DEF TxWake, Deferred
  <2>2. PICK locks \in [S -> FreshLocks] :
             (\A i \in S : Exists(b, i)) /\ Commit(s, Wake(b, S, locks))
    BY <2>1
  <2> DEFINE ours == Wake(b, S, locks)
  <2>3. \A i \in S : /\ Woken(b.issues[i], locks[i]) \in IssueRow
                     /\ Woken(b.issues[i], locks[i]).row_lock \in FreshLocks
    BY <1>0, <1>a, <2>2, ZenonT(30) DEF Exists, Woken, IssueRow, Status, Builtin
  <2>4. /\ ours = [issues |-> ours.issues, leases |-> b.leases]
        /\ ours.issues = [i \in Issue |-> IF i \in S THEN Woken(b.issues[i], locks[i])
                                          ELSE b.issues[i]]
    BY DEF Wake
  <2> HIDE DEF ours, b
  <2>5. ours.issues \in [Issue -> IssueRow \cup {NoRow}]
    BY <1>0, <2>3, <2>4
  <2>6. ours \in DB
    BY <1>0, <2>4, <2>5 DEF DB
  <2>7. \A i \in Issue : ours.issues[i] = b.issues[i] \/ ours.issues[i].row_lock \in FreshLocks
    BY <2>3, <2>4
  <2>8. Commit(s, ours)
    BY <2>2 DEF ours
  <2> QED BY <2>6, <2>7, <2>8 DEF Disciplined, b
<1> QED BY <1>1, <1>2

-----------------------------------------------------------------------------
(* Merging well-typed rows gives well-typed rows, whatever they hold. *)
LEMMA IssueMergeTyped ==
    ASSUME NEW b \in IssueRow \cup {NoRow}, NEW o \in IssueRow \cup {NoRow},
           NEW t \in IssueRow \cup {NoRow}
    PROVE  RowMerge(b, o, t) \in IssueRow \cup {NoRow}
<1>1. CASE NoRow \in {b, o, t}
  BY <1>1 DEF RowMerge, CellMerge
<1>2. CASE NoRow \notin {b, o, t}
  <2>1. b \in IssueRow /\ o \in IssueRow /\ t \in IssueRow
    BY <1>2
  <2>2. RowMerge(b, o, t) = [c \in DOMAIN b |-> CellMerge(b[c], o[c], t[c])]
    BY <1>2 DEF RowMerge
  <2>3. DOMAIN b = {"status", "assignee", "closed_at", "row_lock"}
    BY <2>1 DEF IssueRow
  <2>4. RowMerge(b, o, t) = [status |-> CellMerge(b.status, o.status, t.status),
                             assignee |-> CellMerge(b.assignee, o.assignee, t.assignee),
                             closed_at |-> CellMerge(b.closed_at, o.closed_at, t.closed_at),
                             row_lock |-> CellMerge(b.row_lock, o.row_lock, t.row_lock)]
    BY <2>2, <2>3, ZenonT(30)
  <2>5. /\ CellMerge(b.status, o.status, t.status) \in Status
        /\ CellMerge(b.assignee, o.assignee, t.assignee) \in Assignee
        /\ CellMerge(b.closed_at, o.closed_at, t.closed_at) \in BOOLEAN
        /\ CellMerge(b.row_lock, o.row_lock, t.row_lock) \in RowLock
    BY <2>1 DEF CellMerge, IssueRow
  <2>6. ASSUME NEW st \in Status, NEW as \in Assignee, NEW cl \in BOOLEAN, NEW lk \in RowLock
        PROVE  [status |-> st, assignee |-> as, closed_at |-> cl, row_lock |-> lk] \in IssueRow
    BY Zenon DEF IssueRow
  <2> QED BY <2>4, <2>5, <2>6, Zenon
<1> QED BY <1>1, <1>2

(* The same for leases. *)
LEMMA LeaseMergeTyped ==
    ASSUME NEW b \in LeaseRow \cup {NoRow}, NEW o \in LeaseRow \cup {NoRow},
           NEW t \in LeaseRow \cup {NoRow}
    PROVE  RowMerge(b, o, t) \in LeaseRow \cup {NoRow}
<1>1. CASE NoRow \in {b, o, t}
  BY <1>1 DEF RowMerge, CellMerge
<1>2. CASE NoRow \notin {b, o, t}
  <2>1. b \in LeaseRow /\ o \in LeaseRow /\ t \in LeaseRow
    BY <1>2
  <2> QED BY <2>1, MergedLease
<1> QED BY <1>1, <1>2

(***************************************************************************)
(* A disciplined write of one row that does not conflict: the committed    *)
(* row stays, or it is replaced by exactly the row written, which is gone  *)
(* or was written over the very row the transaction read.                  *)
(***************************************************************************)
LEMMA DisciplinedMerge ==
    ASSUME NEW b \in IssueRow \cup {NoRow}, NEW o \in IssueRow \cup {NoRow},
           NEW t \in IssueRow \cup {NoRow},
           ~RowConflict(b, o, t),
           \/ o = b
           \/ o = NoRow
           \/ /\ b # NoRow => o.row_lock # b.row_lock
              /\ t # NoRow => o.row_lock # t.row_lock,
           b # NoRow /\ t # NoRow /\ t.row_lock = b.row_lock => t = b
    PROVE  \/ RowMerge(b, o, t) = t
           \/ RowMerge(b, o, t) = o /\ o # b /\ (o = NoRow \/ t = b)
<1>1. CASE o = b
  BY <1>1, UntouchedIssue
<1>2. CASE o # b /\ b = NoRow
  <2>1. RowMerge(b, o, t) = o /\ (t = b \/ t = o)
    BY <1>2 DEF RowConflict, RowMerge, CellConflict, CellMerge
  <2> QED BY <2>1
<1>3. CASE o # b /\ b # NoRow
  <2>1. o # NoRow => o.row_lock # b.row_lock
    BY <1>3
  <2>2. o # NoRow /\ t # NoRow => o.row_lock # t.row_lock
    BY <1>3
  <2> QED BY <1>3, <2>1, <2>2, RewrittenIssue
<1> QED BY <1>1, <1>2, <1>3

(* A committed issue row is the old one, or the writer's own: deleted, or
   written under a fresh lock over the row its snapshot read. *)
RowsKeptOrWritten(s, ours) ==
    \A i \in Issue :
        \/ db'.issues[i] = db.issues[i]
        \/ /\ db'.issues[i] = ours.issues[i] /\ ours.issues[i] # tx[s].snap.issues[i]
           /\ \/ ours.issues[i] = NoRow
              \/ /\ ours.issues[i].row_lock \in FreshLocks
                 /\ db.issues[i] = tx[s].snap.issues[i]

(* What any commit under ties does to the issues table. *)
LEMMA DisciplinedCommit ==
    ASSUME TiesInv, NEW s \in Session, tx[s] # NoTx, NEW ours, Disciplined(s, ours), Commit(s, ours)
    PROVE  db' \in DB /\ RowsKeptOrWritten(s, ours)
<1> DEFINE b == tx[s].snap
<1>1. b \in DB /\ db \in DB /\ ours \in DB
  BY DEF TiesInv, TypeOK, Transaction, Disciplined
<1>2. /\ b.issues \in [Issue -> IssueRow \cup {NoRow}] /\ b.leases \in [Issue -> LeaseRow \cup {NoRow}]
      /\ db.issues \in [Issue -> IssueRow \cup {NoRow}] /\ db.leases \in [Issue -> LeaseRow \cup {NoRow}]
      /\ ours.issues \in [Issue -> IssueRow \cup {NoRow}] /\ ours.leases \in [Issue -> LeaseRow \cup {NoRow}]
  BY <1>1, Zenon DEF DB
<1>3. /\ ~TableConflict(b.issues, ours.issues, db.issues)
      /\ db' = [issues |-> TableMerge(b.issues, ours.issues, db.issues),
                leases |-> TableMerge(b.leases, ours.leases, db.leases)]
  BY Zenon DEF Commit, Conflict
<1>4. \A i \in Issue : ours.issues[i] = b.issues[i] \/ ours.issues[i] = NoRow
                       \/ ours.issues[i].row_lock \in FreshLocks
  BY DEF Disciplined
<1>5. \A i \in Issue : b.issues[i] # NoRow /\ db.issues[i] # NoRow
                       /\ db.issues[i].row_lock = b.issues[i].row_lock => db.issues[i] = b.issues[i]
  BY ZenonT(30) DEF TiesInv, RowLockGuardsRow, Exists
<1>6. \A i \in Issue, lk \in FreshLocks :
          /\ b.issues[i] # NoRow => lk # b.issues[i].row_lock
          /\ db.issues[i] # NoRow => lk # db.issues[i].row_lock
  BY FreshLock, Zenon DEF Exists
<1> HIDE DEF b
<1>7. TableMerge(b.issues, ours.issues, db.issues)
          = [i \in Issue |-> RowMerge(b.issues[i], ours.issues[i], db.issues[i])]
  BY <1>2, ZenonT(30) DEF TableMerge
<1>8. TableMerge(b.leases, ours.leases, db.leases)
          = [i \in Issue |-> RowMerge(b.leases[i], ours.leases[i], db.leases[i])]
  BY <1>2, ZenonT(30) DEF TableMerge
<1>9. db' \in DB
  <2>1. \A i \in Issue : RowMerge(b.issues[i], ours.issues[i], db.issues[i]) \in IssueRow \cup {NoRow}
    BY <1>2, IssueMergeTyped, Zenon
  <2>2. \A i \in Issue : RowMerge(b.leases[i], ours.leases[i], db.leases[i]) \in LeaseRow \cup {NoRow}
    BY <1>2, LeaseMergeTyped, ZenonT(30)
  <2>3. /\ TableMerge(b.issues, ours.issues, db.issues) \in [Issue -> IssueRow \cup {NoRow}]
        /\ TableMerge(b.leases, ours.leases, db.leases) \in [Issue -> LeaseRow \cup {NoRow}]
    BY <1>7, <1>8, <2>1, <2>2, ZenonT(30)
  <2> QED BY <1>3, <2>3, Zenon DEF DB
<1>10. ASSUME NEW i \in Issue, db'.issues[i] # db.issues[i]
       PROVE  /\ db'.issues[i] = ours.issues[i] /\ ours.issues[i] # b.issues[i]
              /\ \/ ours.issues[i] = NoRow
                 \/ /\ ours.issues[i].row_lock \in FreshLocks
                    /\ db.issues[i] = b.issues[i]
  <2>1. ~RowConflict(b.issues[i], ours.issues[i], db.issues[i])
    BY <1>2, <1>3, ZenonT(30) DEF TableConflict
  <2>2. db'.issues[i] = RowMerge(b.issues[i], ours.issues[i], db.issues[i])
    BY <1>3, <1>7, ZenonT(30)
  <2>3. \/ ours.issues[i] = b.issues[i]
        \/ ours.issues[i] = NoRow
        \/ /\ b.issues[i] # NoRow => ours.issues[i].row_lock # b.issues[i].row_lock
           /\ db.issues[i] # NoRow => ours.issues[i].row_lock # db.issues[i].row_lock
    BY <1>4, <1>6, ZenonT(30)
  <2>4. /\ b.issues[i] \in IssueRow \cup {NoRow} /\ ours.issues[i] \in IssueRow \cup {NoRow}
        /\ db.issues[i] \in IssueRow \cup {NoRow}
    BY <1>2, ZenonT(30)
  <2>5. b.issues[i] # NoRow /\ db.issues[i] # NoRow
        /\ db.issues[i].row_lock = b.issues[i].row_lock => db.issues[i] = b.issues[i]
    BY <1>5, Zenon
  <2>6. \/ db'.issues[i] = db.issues[i]
        \/ /\ db'.issues[i] = ours.issues[i] /\ ours.issues[i] # b.issues[i]
           /\ ours.issues[i] = NoRow \/ db.issues[i] = b.issues[i]
    <3> DEFINE base == b.issues[i]
               mine == ours.issues[i]
               theirs == db.issues[i]
    <3>1. /\ base \in IssueRow \cup {NoRow} /\ mine \in IssueRow \cup {NoRow}
          /\ theirs \in IssueRow \cup {NoRow}
      BY ONLY <2>4
    <3>2. ~RowConflict(base, mine, theirs)
      BY ONLY <2>1
    <3>3. \/ mine = base
          \/ mine = NoRow
          \/ /\ base # NoRow => mine.row_lock # base.row_lock
             /\ theirs # NoRow => mine.row_lock # theirs.row_lock
      BY ONLY <2>3
    <3>4. base # NoRow /\ theirs # NoRow /\ theirs.row_lock = base.row_lock => theirs = base
      BY ONLY <2>5
    <3> HIDE DEF base, mine, theirs
    <3>5. \/ RowMerge(base, mine, theirs) = theirs
          \/ RowMerge(base, mine, theirs) = mine /\ mine # base /\ (mine = NoRow \/ theirs = base)
      BY ONLY <3>1, <3>2, <3>3, <3>4, DisciplinedMerge
    <3> QED BY ONLY <2>2, <3>5, ZenonT(30) DEF base, mine, theirs
  <2> QED BY <1>4, <1>10, <2>6, Zenon
<1> QED BY <1>9, <1>10 DEF b, RowsKeptOrWritten

(* Every write of LeaseTies, the restore of a tie included, is disciplined. *)
LEMMA WritesAreDisciplined ==
    ASSUME TypeOK, NEW s \in Session, Writes(s) \/ TxImportTie(s)
    PROVE  tx[s] # NoTx /\ \E ours : Disciplined(s, ours) /\ Commit(s, ours)
<1>1. tx[s] # NoTx
  BY Zenon DEF Writes, TxClaim, TxClaimReady, TxUnclaim, TxUnclaimIfAssignee, TxRefresh, TxRearm,
     TxDropOrphan, TxReclaim, TxClose, TxReopen, TxWake, TxUpdate, TxImport, TxDelete, TxImportTie
<1> QED BY <1>1, RewritesDisciplined, LeaseWritesDisciplined, SweepsDisciplined DEF Writes

(* No step of LeaseTies changes a row under an unchanged row_lock. *)
LEMMA TiesInductive == TiesInv /\ [NextTies]_vars => TiesInv'
<1> SUFFICES ASSUME TiesInv, [NextTies]_vars PROVE TiesInv'
  OBVIOUS
<1>0. TypeOK
  BY DEF TiesInv
<1>1. CASE Tick
  <2>1. TypeOK'
    BY <1>0, <1>1, TimeAssumption DEF TypeOK, Tick, Transaction
  <2> QED BY <1>1, <2>1, Zenon DEF TiesInv, RowLockGuardsRow, Tick, Exists
<1>2. CASE UNCHANGED vars
  BY <1>2, ZenonT(30) DEF vars, TiesInv, TypeOK, RowLockGuardsRow, Exists
<1>3. ASSUME NEW s \in Session, Begin(s) PROVE TiesInv'
  <2>1. TypeOK'
    BY <1>0, <1>3, NoTxAssumption DEF TypeOK, Begin, Transaction
  <2>2. \A z \in Session : \/ tx'[z] = tx[z]
                           \/ tx'[z].snap = db
    BY <1>0, <1>3 DEF TypeOK, Begin
  <2>3. db' = db
    BY <1>3 DEF Begin
  <2> QED BY <2>1, <2>2, <2>3, ZenonT(30) DEF TiesInv, RowLockGuardsRow, Exists
<1>4. ASSUME NEW s \in Session, Rollback(s) PROVE TiesInv'
  <2>1. TypeOK'
    BY <1>0, <1>4 DEF TypeOK, Rollback
  <2>2. \A z \in Session : tx'[z] = tx[z] \/ tx'[z] = NoTx
    BY <1>0, <1>4 DEF TypeOK, Rollback
  <2>3. db' = db
    BY <1>4 DEF Rollback
  <2> QED BY <2>1, <2>2, <2>3, ZenonT(30) DEF TiesInv, RowLockGuardsRow, Exists
<1>5. ASSUME NEW s \in Session, Writes(s) \/ TxImportTie(s) PROVE TiesInv'
  <2>1. tx[s] # NoTx
    BY <1>0, <1>5, WritesAreDisciplined
  <2>2. PICK ours : Disciplined(s, ours) /\ Commit(s, ours)
    BY <1>0, <1>5, WritesAreDisciplined
  <2>3. /\ db' \in DB
        /\ \A i \in Issue : \/ db'.issues[i] = db.issues[i]
                            \/ db'.issues[i] = NoRow
                            \/ db'.issues[i].row_lock \in FreshLocks
    <3>1. db' \in DB /\ RowsKeptOrWritten(s, ours)
      BY <2>1, <2>2, DisciplinedCommit, Zenon
    <3> QED BY <3>1, Zenon DEF RowsKeptOrWritten
  <2>4. tx' = [tx EXCEPT ![s] = NoTx] /\ clock' = clock
    BY <2>2, Zenon DEF Commit
  <2>5. \A z \in Session : tx'[z] = tx[z] \/ tx'[z] = NoTx
    BY <1>0, <2>4 DEF TypeOK
  <2>6. TypeOK'
    BY <1>0, <2>3, <2>4, <2>5 DEF TypeOK
  <2>7. ASSUME NEW z \in Session, NEW i \in Issue, tx'[z] # NoTx, Exists(tx'[z].snap, i),
               Exists(db', i), db'.issues[i].row_lock = tx'[z].snap.issues[i].row_lock
        PROVE  db'.issues[i] = tx'[z].snap.issues[i]
    <3>1. tx'[z] = tx[z] /\ Exists(tx[z].snap, i) /\ tx[z] # NoTx
      BY <2>5, <2>7, ZenonT(30)
    <3>2. db'.issues[i].row_lock \notin FreshLocks
      BY <2>7, <3>1, FreshLock, ZenonT(30)
    <3>3. db'.issues[i] = db.issues[i]
      BY <2>3, <2>7, <3>2, Zenon DEF Exists
    <3> QED BY <2>7, <3>1, <3>3, ZenonT(30) DEF TiesInv, RowLockGuardsRow, Exists
  <2> QED BY <2>6, <2>7, Zenon DEF TiesInv, RowLockGuardsRow, Exists
<1> QED BY <1>1, <1>2, <1>3, <1>4, <1>5 DEF NextTies, Next

(* The tables keep their types when ties are restored too. *)
LEMMA TiesInvariant == SpecTies => []TiesInv
<1>1. Init => TiesInv
  <2>1. Init => RowLockGuardsRow
    BY Zenon DEF Init, RowLockGuardsRow
  <2> QED BY <2>1, Initial, Zenon DEF IndInv, TiesInv
<1> QED BY <1>1, TiesInductive, PTL DEF SpecTies

(***************************************************************************)
(* With snapshots restored over ties, where a lease can outlive its claim, *)
(* an unchanged row_lock still means an unchanged issue row.               *)
(***************************************************************************)
THEOREM RowLockSurvivesTies == SpecTies => []RowLockGuardsRow
<1>1. TiesInv => RowLockGuardsRow
  BY DEF TiesInv
<1> QED BY <1>1, TiesInvariant, PTL

(* A claim that commits under ties takes an issue that is free when it commits. *)
LEMMA TiesClaimStep ==
    ASSUME TiesInv, NEW s \in Session, TxClaim(s) \/ TxClaimReady(s)
    PROVE  \A j \in Issue : db'.issues[j] # db.issues[j] => CanClaim(db, j, db'.issues[j].assignee)
<1> DEFINE b == tx[s].snap
<1>1. PICK i \in Issue, a \in Actor, node \in Node \cup {NoNode}, now \in Instants(s),
           lk \in FreshLocks :
           CanClaim(b, i, a) /\ Commit(s, Claim(b, i, a, node, now, lk))
  BY ZenonT(30) DEF TxClaim, TxClaimReady, CanClaimReady
<1>2. TypeOK /\ tx[s] # NoTx
  BY DEF TiesInv, TxClaim, TxClaimReady
<1> DEFINE o == [b.issues[i] EXCEPT !.status = "in_progress", !.assignee = a, !.row_lock = lk]
           l == UpsertLease(a, now, node)
<1>3. b.issues[i] \in IssueRow
  BY <1>1, <1>2, SnapshotTypes, ZenonT(30) DEF CanClaim, Exists
<1>4. o \in IssueRow /\ o.row_lock = lk /\ o.assignee = a /\ o # NoRow
  BY <1>3, FreshLock, NoRowAssumption, ZenonT(30) DEF IssueRow, Status, Builtin, Assignee
<1>5. now + TTL \in Nat
  BY <1>2, InstantTypes, Zenon
<1>6. l \in LeaseRow
  BY <1>5 DEF UpsertLease, LeaseRow
<1>7. Commit(s, Put(b, i, o, l))
  BY <1>1 DEF Claim
<1>8. b.issues \in [Issue -> IssueRow \cup {NoRow}]
  BY <1>2 DEF TypeOK, Transaction, DB
<1> HIDE DEF o, l
<1>9. Disciplined(s, Put(b, i, o, l))
  BY <1>2, <1>4, <1>6, DisciplinedPut
<1>10. Put(b, i, o, l).issues = [b.issues EXCEPT ![i] = o]
  BY ZenonT(30) DEF Put
<1>11. PICK ours : /\ ours.issues = [b.issues EXCEPT ![i] = o]
                   /\ Disciplined(s, ours) /\ Commit(s, ours)
  BY <1>7, <1>9, <1>10, Zenon
<1>12. \A j \in Issue : \/ db'.issues[j] = db.issues[j]
                        \/ /\ db'.issues[j] = ours.issues[j] /\ ours.issues[j] # b.issues[j]
                           /\ \/ ours.issues[j] = NoRow
                              \/ /\ ours.issues[j].row_lock \in FreshLocks
                                 /\ db.issues[j] = b.issues[j]
  <2>1. /\ TiesInv /\ tx[s] # NoTx
        /\ Disciplined(s, ours) /\ Commit(s, ours)
    BY <1>2, <1>11, Zenon
  <2>2. RowsKeptOrWritten(s, ours)
    BY ONLY <2>1, s \in Session, DisciplinedCommit, Zenon
  <2> QED BY <2>2, Zenon DEF RowsKeptOrWritten
<1> HIDE DEF b
<1>13. \A j \in Issue : j # i => ours.issues[j] = b.issues[j]
  BY <1>8, <1>11, ZenonT(30)
<1>14. ours.issues[i] = o
  BY <1>8, <1>11
<1>15. ASSUME NEW j \in Issue, db'.issues[j] # db.issues[j]
       PROVE  CanClaim(db, j, db'.issues[j].assignee)
  <2>1. CASE j = i
    <3>1. db'.issues[i] = o /\ db.issues[i] = b.issues[i]
      BY <1>4, <1>12, <1>14, <1>15, <2>1, ZenonT(30)
    <3> QED BY <1>1, <1>4, <2>1, <3>1, ZenonT(30) DEF CanClaim, Exists
  <2>2. CASE j # i
    BY <1>12, <1>13, <1>15, <2>2, Zenon
  <2> QED BY <2>1, <2>2
<1> QED BY <1>15, Zenon

(* Two racing claims have one winner also where ties are restored. *)
THEOREM ClaimsHaveOneWinnerUnderTies == SpecTies => ClaimTakesOnlyFreeIssues
<1>1. TiesInv /\ [NextTies]_vars
        => [\A s \in Session, i \in Issue :
               (db'.issues[i] # db.issues[i] /\ tx'[s] # tx[s] /\ (TxClaim(s) \/ TxClaimReady(s)))
                   => /\ db.issues[i].status \in Claimable
                      /\ \/ db.issues[i].assignee \in Pools \cup {Unassigned}
                         \/ ActorMatches(db.issues[i].assignee, db'.issues[i].assignee)]_vars
  BY TiesClaimStep, Zenon DEF CanClaim
<1> QED BY <1>1, TiesInvariant, PTL DEF SpecTies, ClaimTakesOnlyFreeIssues

=============================================================================
