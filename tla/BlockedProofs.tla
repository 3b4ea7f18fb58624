---------------------------- MODULE BlockedProofs ----------------------------
(***************************************************************************)
(* The theorems about Blocked.  Only an add under p gives p a child and    *)
(* only a close of p closes it, and both rewrite p's coordination cell; so *)
(* a transaction that nobody overtook on that cell has seen every child of *)
(* p, and whether p is closed.  What the recursive recomputation of the    *)
(* flags finds plays no part in that: it writes no other column.           *)
(*                                                                         *)
(* The second half is about the flags, on the graphs Tidy describes.       *)
(***************************************************************************)
EXTENDS Blocked, BlockedOpsProofs

(* What a transaction has seen of p while p's coordination cell is as it was. *)
SeenBy(t, d, p) ==
    <<p, "children">> \notin t.stamped =>
        /\ Children(d, {p}) \subseteq Children(t.snap, {p})
        /\ p \in Closed(d) => p \in Closed(t.snap)

IndInv == TypeOK /\ \A s \in Session, p \in Issue : tx[s] # NoTx => SeenBy(tx[s], db, p)

(* NoChildSlipsUnderClose, for one session and one issue. *)
SlipsNot(s, p) ==
    tx[s] # NoTx /\ tx'[s] = NoTx /\ db' # db =>
        /\ p \in Closed(db') /\ p \notin Closed(db) /\ pending[s] = {}
            => Children(db, {p}) \subseteq Children(Snap(s), {p})
        /\ Children(db', {p}) \ Children(db, {p}) # {}
            => (p \in Closed(db) => p \in Closed(Snap(s)))

-----------------------------------------------------------------------------
(* A commit that brings no news outside the cells it stamps. *)
LEMMA CommitStep ==
    ASSUME IndInv, NEW s \in Session, tx[s] # NoTx, NEW ours \in DB, NEW stamps \in SUBSET Stamp,
           NEW adder, Commit(s, ours, stamps, adder), NoNews(Snap(s), ours, stamps)
    PROVE  /\ db' \in DB /\ tx' \in [Session -> Transaction \cup {NoTx}]
           /\ \A z \in Session, p \in Issue : tx'[z] # NoTx => SeenBy(tx'[z], db', p)
           /\ \A z \in Session, p \in Issue : SlipsNot(z, p)
<1> DEFINE base == tx[s].snap
           merged == [issues |-> TableMerge(base.issues, ours.issues, db.issues),
                      dependencies |-> TableMerge(base.dependencies, ours.dependencies, db.dependencies)]
           bump(t) == [t EXCEPT !.stamped = @ \cup stamps, !.overtaken = TRUE, !.adder = @ \/ adder]
<1>1. /\ ~TableConflict(base.issues, ours.issues, db.issues)
      /\ ~TableConflict(base.dependencies, ours.dependencies, db.dependencies)
      /\ stamps \cap tx[s].stamped = {} /\ db' = merged
      /\ tx' = [z \in Session |-> IF z = s \/ tx[z] = NoTx THEN NoTx ELSE bump(tx[z])]
  BY Zenon DEF Commit
<1>2. /\ base \in DB /\ db \in DB
      /\ \A z \in Session : tx[z] # NoTx => tx[z] \in Transaction
  BY DEF IndInv, TypeOK, Transaction
<1>3. db' \in DB
  BY <1>1, <1>2, MergedDB, ZenonT(30)
<1>4. ASSUME NEW p \in Issue, <<p, "children">> \notin stamps
      PROVE  Children(db', {p}) \subseteq Children(db, {p}) /\ (p \in Closed(db') => p \in Closed(db))
  <2>1. NoNews(base, ours, stamps)
    BY DEF Snap
  <2>2. db' = [issues |-> TableMerge(base.issues, ours.issues, db.issues),
               dependencies |-> TableMerge(base.dependencies, ours.dependencies, db.dependencies)]
    BY <1>1, Zenon
  <2>3. ours \in DB
    OBVIOUS
  <2> HIDE DEF base, merged
  <2> QED BY ONLY <1>1, <1>2, <1>4, <2>1, <2>2, <2>3, MergeBringsNoNews, Zenon
<1> HIDE DEF merged
<1>5. ASSUME NEW t \in Transaction
      PROVE  /\ bump(t) \in Transaction /\ bump(t) # NoTx /\ bump(t).snap = t.snap
             /\ bump(t).stamped = t.stamped \cup stamps
  BY NoTxAssumption, ZenonT(30) DEF Transaction
<1> HIDE DEF bump
<1>6. tx' \in [Session -> Transaction \cup {NoTx}]
  BY <1>1, <1>2, <1>5
<1>7. ASSUME NEW z \in Session, NEW p \in Issue, tx'[z] # NoTx
      PROVE  SeenBy(tx'[z], db', p)
  <2>1. tx[z] \in Transaction /\ tx'[z] = bump(tx[z])
    BY <1>1, <1>2, <1>7
  <2>2. tx'[z].snap = tx[z].snap /\ tx'[z].stamped = tx[z].stamped \cup stamps
    BY <1>5, <2>1
  <2>3. SeenBy(tx[z], db, p)
    BY <2>1, NoTxAssumption DEF IndInv
  <2> QED BY <1>4, <2>2, <2>3 DEF SeenBy
<1>8. ASSUME NEW z \in Session, NEW p \in Issue
      PROVE  SlipsNot(z, p)
  <2> SUFFICES ASSUME tx[z] # NoTx, tx'[z] = NoTx
               PROVE  /\ p \in Closed(db') /\ p \notin Closed(db)
                            => Children(db, {p}) \subseteq Children(tx[z].snap, {p})
                      /\ Children(db', {p}) \ Children(db, {p}) # {}
                            => (p \in Closed(db) => p \in Closed(tx[z].snap))
    BY DEF SlipsNot, Snap
  <2>1. z = s
    BY <1>1, <1>2, <1>5
  <2>2. CASE <<p, "children">> \notin stamps
    BY <1>4, <2>2
  <2>3. CASE <<p, "children">> \in stamps
    <3>1. <<p, "children">> \notin tx[s].stamped
      BY <1>1, <2>3
    <3>2. SeenBy(tx[s], db, p)
      BY DEF IndInv
    <3> QED BY <2>1, <3>1, <3>2 DEF SeenBy
  <2> QED BY <2>2, <2>3
<1> QED BY <1>3, <1>6, <1>7, <1>8

-----------------------------------------------------------------------------
(* What is shown of every step. *)
StepIsGood == IndInv' /\ \A z \in Session, p \in Issue : SlipsNot(z, p)

LEMMA WriteStep ==
    ASSUME IndInv, NEW s \in Session, NEW ours \in DB, NEW stamps \in SUBSET Stamp, NEW adder,
           NEW recheck \in SUBSET Issue, Write(s, ours, stamps, adder, recheck),
           NoNews(Snap(s), ours, stamps)
    PROVE  StepIsGood
<1>1. /\ tx[s] # NoTx /\ writes < scenario.writes /\ Commit(s, ours, stamps, adder)
      /\ pending' = [pending EXCEPT ![s] = recheck] /\ writes' = writes + 1
      /\ residue' = (residue \/ Raced(s, adder)) /\ scenario' = scenario
  BY DEF Write
<1>2. /\ db' \in DB /\ tx' \in [Session -> Transaction \cup {NoTx}]
      /\ \A z \in Session, p \in Issue : tx'[z] # NoTx => SeenBy(tx'[z], db', p)
      /\ \A z \in Session, p \in Issue : SlipsNot(z, p)
  BY <1>1, CommitStep
<1>3. pending' \in [Session -> SUBSET Issue] /\ scenario' \in Scenarios
  BY <1>1 DEF IndInv, TypeOK
<1>4. writes' \in 0 .. scenario'.writes
  BY <1>1, ScenariosAssumption DEF IndInv, TypeOK
<1>5. residue' \in BOOLEAN
  BY <1>1
<1> QED BY <1>2, <1>3, <1>4, <1>5 DEF IndInv, TypeOK, StepIsGood

(* The snapshot of an open transaction, and the rows a status change affects. *)
LEMMA SnapType ==
    ASSUME IndInv, NEW s \in Session, tx[s] # NoTx
    PROVE  Snap(s) \in DB
  BY DEF IndInv, TypeOK, Transaction, Snap

(* A close stamps the coordination cell of the issue it closes. *)
LEMMA CloseStep ==
    ASSUME IndInv, NEW s \in Session, NEW i \in Issue, NEW force, CloseIssueChecked(s, i, force)
    PROVE  StepIsGood
<1> DEFINE affected == AffectedByStatusChange(Snap(s), i)
           d == SetStatus(Snap(s), i, "closed")
<1>1. /\ tx[s] # NoTx /\ i \in Live(Snap(s))
      /\ Write(s, RecomputeIsBlocked(d, affected), closeStamps(i), FALSE,
               noteStatusChange(Snap(s), affected, i))
  BY Zenon DEF CloseIssueChecked
<1>2. closeStamps(i) \in SUBSET Stamp /\ <<i, "children">> \in closeStamps(i)
  BY DEF closeStamps, Stamp
<1>3. Snap(s) \in DB
  BY <1>1, SnapType
<1>4. d \in DB /\ NoNews(Snap(s), d, closeStamps(i))
  BY <1>1, <1>2, <1>3, StatusIsNoNews
<1>5. noteStatusChange(Snap(s), affected, i) \in SUBSET Issue
  BY AffectedTypes DEF noteStatusChange
<1> HIDE DEF d, affected
<1>6. RecomputeIsBlocked(d, affected) \in DB /\ NoNews(Snap(s), RecomputeIsBlocked(d, affected), closeStamps(i))
  BY <1>4, RecomputeIsNoNews
<1> QED BY <1>1, <1>2, <1>5, <1>6, WriteStep, Zenon

(* So does an update that closes; any other status closes nothing. *)
LEMMA UpdateStep ==
    ASSUME IndInv, NEW s \in Session, NEW i \in Issue, NEW status \in {"open", "closed", "pinned"},
           NEW force, UpdateStatus(s, i, status, force)
    PROVE  StepIsGood
<1> DEFINE d == SetStatus(Snap(s), i, status)
           changed == (i \in Active(d)) # (i \in Active(Snap(s)))
           affected == AffectedByStatusChange(d, i)
           ours == IF changed THEN RecomputeIsBlocked(d, affected) ELSE d
           stamps == IF status = "closed" THEN closeStamps(i) ELSE {<<i, "row_lock">>}
           recheck == IF changed /\ i \notin Active(d) THEN noteStatusChange(d, affected, i) ELSE {}
<1>1. /\ tx[s] # NoTx /\ i \in Live(Snap(s))
      /\ Write(s, ours, stamps, changed /\ i \in Active(d), recheck)
  BY DEF UpdateStatus
<1>2. stamps \in SUBSET Stamp /\ (status = "closed" => <<i, "children">> \in stamps)
  BY DEF closeStamps, Stamp
<1>3. Snap(s) \in DB
  BY <1>1, SnapType
<1> HIDE DEF stamps
<1>4. d \in DB /\ NoNews(Snap(s), d, stamps)
  BY <1>1, <1>2, <1>3, StatusIsNoNews
<1>5. recheck \in SUBSET Issue
  BY AffectedTypes, Zenon DEF noteStatusChange
<1> HIDE DEF d, affected, recheck, changed
<1>6. ours \in DB /\ NoNews(Snap(s), ours, stamps)
  BY <1>4, RecomputeIsNoNews
<1> DEFINE adder == changed /\ i \in Active(d)
<1>7. Write(s, ours, stamps, adder, recheck)
  BY <1>1
<1> HIDE DEF ours, adder
<1> QED BY <1>2, <1>5, <1>6, <1>7, WriteStep

LEMMA ReopenStep ==
    ASSUME IndInv, NEW s \in Session, NEW i \in Issue, ReopenIssue(s, i)
    PROVE  StepIsGood
<1> DEFINE d == SetStatus(Snap(s), i, "open")
           affected == AffectedByStatusChange(Snap(s), i)
<1>1. /\ tx[s] # NoTx /\ i \in Live(Snap(s))
      /\ Write(s, RecomputeIsBlocked(d, affected), {<<i, "row_lock">>}, TRUE, {})
  BY Zenon DEF ReopenIssue, Closed
<1>2. {<<i, "row_lock">>} \in SUBSET Stamp
  BY DEF Stamp
<1>3. Snap(s) \in DB
  BY <1>1, SnapType
<1>4. d \in DB /\ NoNews(Snap(s), d, {<<i, "row_lock">>})
  BY <1>1, <1>3, StatusIsNoNews, Zenon
<1> HIDE DEF d, affected
<1>5. /\ RecomputeIsBlocked(d, affected) \in DB
      /\ NoNews(Snap(s), RecomputeIsBlocked(d, affected), {<<i, "row_lock">>})
  BY <1>4, RecomputeIsNoNews
<1>6. {} \in SUBSET Issue
  OBVIOUS
<1> QED BY <1>1, <1>2, <1>5, <1>6, WriteStep, Zenon

(* An add gives one issue a child, and stamps the cell of that issue. *)
LEMMA AddStep ==
    ASSUME IndInv, NEW s \in Session, NEW i \in Issue, NEW j \in Issue, NEW row \in DepRow,
           AddDependency(s, i, j, row)
    PROVE  StepIsGood
<1> DEFINE d == SetRow(Snap(s), i, j, row)
           ours == markAfterAdd(d, i, j, row.type)
           stamps == addStamps(j, row.type)
<1>1. tx[s] # NoTx /\ Write(s, ours, stamps, TRUE, {})
  BY Zenon DEF AddDependency
<1>2. stamps \in SUBSET Stamp /\ (row.type = "parent-child" => <<j, "children">> \in stamps)
  BY DEF addStamps, Stamp
<1>3. Snap(s) \in DB
  BY <1>1, SnapType
<1>4. /\ d \in DB /\ d.issues = Snap(s).issues
      /\ \A c, p \in Issue : d.dependencies[<<c, p>>] =
            IF c = i /\ p = j THEN row ELSE Snap(s).dependencies[<<c, p>>]
  BY <1>3, SetRowFacts
<1> HIDE DEF d, stamps
<1>5. NoNews(Snap(s), d, stamps)
  BY <1>2, <1>4 DEF NoNews, IsChildRow
<1>6. ours \in DB /\ ours.dependencies = d.dependencies
      /\ \A p \in Issue : IsClosedRow(ours.issues[p]) => IsClosedRow(d.issues[p])
  <2>1. CASE row.type = "parent-child"
    <3>1. \E ids : ours = RecomputeIsBlocked(d, ids)
      BY <2>1 DEF markAfterAdd
    <3> QED BY <1>4, <3>1, RecomputeFlagsOnly
  <2>2. CASE row.type # "parent-child"
    <3>1. PICK X, ids : ours = MarkIsBlocked(WithFlags(d, X), ids)
      BY <2>2 DEF markAfterAdd
    <3>2. /\ WithFlags(d, X) \in DB /\ WithFlags(d, X).dependencies = d.dependencies
          /\ \A p \in Issue : IsClosedRow(WithFlags(d, X).issues[p]) => IsClosedRow(d.issues[p])
      BY <1>4, FlagsOnly
    <3>3. /\ ours \in DB /\ ours.dependencies = WithFlags(d, X).dependencies
          /\ \A p \in Issue : IsClosedRow(ours.issues[p]) => IsClosedRow(WithFlags(d, X).issues[p])
      BY <3>1, <3>2, MarkFlagsOnly
    <3> QED BY <3>2, <3>3
  <2> QED BY <2>1, <2>2
<1> HIDE DEF ours
<1>7. NoNews(Snap(s), ours, stamps)
  BY <1>5, <1>6 DEF NoNews
<1>8. {} \in SUBSET Issue
  OBVIOUS
<1> QED BY <1>1, <1>2, <1>6, <1>7, <1>8, WriteStep, Zenon

(* Metadata is replaced in a row of the same type. *)
LEMMA ReAddStep ==
    ASSUME IndInv, NEW s \in Session, NEW i \in Issue, NEW j \in Issue, NEW row \in DepRow,
           ReAddDependency(s, i, j, row)
    PROVE  StepIsGood
<1> DEFINE d == SetRow(Snap(s), i, j, row)
<1>1. tx[s] # NoTx /\ Has(Snap(s), i, j, row.type) /\ Write(s, d, {}, TRUE, {})
  BY Zenon DEF ReAddDependency
<1>2. Snap(s) \in DB
  BY <1>1, SnapType
<1>3. /\ d \in DB /\ d.issues = Snap(s).issues
      /\ \A c, p \in Issue : d.dependencies[<<c, p>>] =
            IF c = i /\ p = j THEN row ELSE Snap(s).dependencies[<<c, p>>]
  BY <1>2, SetRowFacts
<1> HIDE DEF d
<1>4. NoNews(Snap(s), d, {})
  BY <1>1, <1>3 DEF NoNews, IsChildRow, Has
<1>5. {} \in SUBSET Issue /\ {} \in SUBSET Stamp
  OBVIOUS
<1> QED BY <1>1, <1>3, <1>4, <1>5, WriteStep, Zenon

(* Removing an edge, or an issue with its edges, brings no news. *)
LEMMA RemoveStep ==
    ASSUME IndInv, NEW s \in Session, NEW i \in Issue, NEW j \in Issue, RemoveDependency(s, i, j)
    PROVE  StepIsGood
<1> DEFINE d == SetRow(Snap(s), i, j, NoRow)
           affected == AffectedByDepChange(d, i, j, Snap(s).dependencies[<<i, j>>].type)
<1>1. tx[s] # NoTx /\ Write(s, RecomputeIsBlocked(d, affected), {}, FALSE, affected)
  BY Zenon DEF RemoveDependency
<1>2. Snap(s) \in DB
  BY <1>1, SnapType
<1>3. /\ d \in DB /\ d.issues = Snap(s).issues
      /\ \A c, p \in Issue : d.dependencies[<<c, p>>] =
            IF c = i /\ p = j THEN NoRow ELSE Snap(s).dependencies[<<c, p>>]
  BY <1>2, SetRowFacts
<1>4. affected \in SUBSET Issue /\ {} \in SUBSET Stamp
  BY AffectedTypes
<1> HIDE DEF d, affected
<1>5. NoNews(Snap(s), d, {})
  BY <1>3 DEF NoNews, IsChildRow
<1>6. RecomputeIsBlocked(d, affected) \in DB /\ NoNews(Snap(s), RecomputeIsBlocked(d, affected), {})
  BY <1>3, <1>5, RecomputeIsNoNews
<1> QED BY <1>1, <1>4, <1>6, WriteStep, Zenon

LEMMA DeleteStep ==
    ASSUME IndInv, NEW s \in Session, NEW i \in Issue, DeleteIssue(s, i)
    PROVE  StepIsGood
<1> DEFINE d == Without(Snap(s), i)
           affected == AffectedByDeletion(Snap(s), i)
<1>1. tx[s] # NoTx /\ Write(s, RecomputeIsBlocked(d, affected), {}, FALSE, affected)
  BY Zenon DEF DeleteIssue
<1>2. Snap(s) \in DB
  BY <1>1, SnapType
<1>3. /\ d \in DB /\ \A p \in Issue : d.issues[p] \in {Snap(s).issues[p], NoRow}
      /\ \A c, p \in Issue : d.dependencies[<<c, p>>] \in {Snap(s).dependencies[<<c, p>>], NoRow}
  BY <1>2, WithoutFacts
<1>4. affected \in SUBSET Issue /\ {} \in SUBSET Stamp
  BY AffectedTypes, Zenon
<1> HIDE DEF d, affected
<1>5. NoNews(Snap(s), d, {})
  BY <1>3 DEF NoNews, IsChildRow, IsClosedRow
<1>6. RecomputeIsBlocked(d, affected) \in DB /\ NoNews(Snap(s), RecomputeIsBlocked(d, affected), {})
  BY <1>3, <1>5, RecomputeIsNoNews
<1> QED BY <1>1, <1>4, <1>6, WriteStep, Zenon

(* The recheck behind a write, and bd recompute-blocked, write flags only. *)
LEMMA RecheckStep ==
    ASSUME IndInv, NEW s \in Session, RecheckBlocked(s) \/ Repair(s)
    PROVE  StepIsGood
<1>1. PICK ids, adder :
        /\ tx[s] # NoTx /\ Commit(s, RecomputeIsBlocked(Snap(s), ids), {}, adder)
        /\ pending' \in [Session -> SUBSET Issue] /\ residue' \in BOOLEAN
        /\ scenario' = scenario /\ writes' = writes
  <2>1. CASE RecheckBlocked(s)
    <3>1. /\ tx[s] # NoTx /\ Commit(s, RecomputeIsBlocked(Snap(s), pending[s]), {}, FALSE)
          /\ pending' = [pending EXCEPT ![s] = {}] /\ scenario' = scenario /\ writes' = writes
          /\ residue' \in BOOLEAN
      BY <2>1, Zenon DEF RecheckBlocked
    <3>2. pending' \in [Session -> SUBSET Issue]
      BY <3>1 DEF IndInv, TypeOK
    <3> QED BY <3>1, <3>2, Zenon
  <2>2. CASE Repair(s)
    <3>1. /\ tx[s] # NoTx /\ Commit(s, RecomputeIsBlocked(Snap(s), Live(Snap(s))), {}, TRUE)
          /\ residue' = tx[s].overtaken /\ scenario' = scenario /\ writes' = writes /\ pending' = pending
      BY <2>2, Zenon DEF Repair, RecomputeAllIsBlocked
    <3>2. tx[s].overtaken \in BOOLEAN /\ pending' \in [Session -> SUBSET Issue]
      BY <3>1 DEF IndInv, TypeOK, Transaction
    <3> QED BY <3>1, <3>2, Zenon
  <2> QED BY <2>1, <2>2
<1>2. Snap(s) \in DB
  BY <1>1, SnapType
<1>3. NoNews(Snap(s), Snap(s), {}) /\ {} \in SUBSET Stamp
  BY DEF NoNews
<1>4. RecomputeIsBlocked(Snap(s), ids) \in DB /\ NoNews(Snap(s), RecomputeIsBlocked(Snap(s), ids), {})
  BY <1>2, <1>3, RecomputeIsNoNews
<1>5. /\ db' \in DB /\ tx' \in [Session -> Transaction \cup {NoTx}]
      /\ \A z \in Session, p \in Issue : tx'[z] # NoTx => SeenBy(tx'[z], db', p)
      /\ \A z \in Session, p \in Issue : SlipsNot(z, p)
  BY <1>1, <1>3, <1>4, CommitStep
<1> QED BY <1>1, <1>5 DEF IndInv, TypeOK, StepIsGood

(* Steps that commit nothing. *)
LEMMA LocalStep ==
    ASSUME IndInv, NEW s \in Session, Begin(s) \/ Rollback(s) \/ AbandonRecheck(s)
    PROVE  StepIsGood
<1> DEFINE fresh == [snap |-> db, stamped |-> {}, overtaken |-> FALSE, adder |-> FALSE]
<1>1. db' = db /\ scenario' = scenario /\ writes' = writes
  BY DEF Begin, Rollback, AbandonRecheck
<1>2. fresh \in Transaction /\ \A p \in Issue : SeenBy(fresh, db, p)
  BY DEF IndInv, TypeOK, Transaction, SeenBy
<1> HIDE DEF fresh
<1>3. /\ tx' \in [Session -> Transaction \cup {NoTx}]
      /\ \A z \in Session : tx'[z] \in {tx[z], NoTx, fresh}
  <2>1. tx' = [tx EXCEPT ![s] = fresh] \/ tx' = [tx EXCEPT ![s] = NoTx] \/ tx' = tx
    BY DEF Begin, Rollback, AbandonRecheck, fresh
  <2>2. tx \in [Session -> Transaction \cup {NoTx}]
    BY DEF IndInv, TypeOK
  <2> QED BY <1>2, <2>1, <2>2
<1>4. \A z \in Session, p \in Issue : tx'[z] # NoTx => SeenBy(tx'[z], db', p)
  BY <1>1, <1>2, <1>3 DEF IndInv
<1>5. pending' \in [Session -> SUBSET Issue] /\ residue' \in BOOLEAN
  BY Zenon DEF Begin, Rollback, AbandonRecheck, IndInv, TypeOK
<1>6. TypeOK'
  BY <1>1, <1>3, <1>5 DEF IndInv, TypeOK
<1>7. \A z \in Session, p \in Issue : SlipsNot(z, p)
  BY <1>1 DEF SlipsNot
<1> QED BY <1>4, <1>6, <1>7 DEF IndInv, StepIsGood

-----------------------------------------------------------------------------
(* The invariant holds at the start. *)
LEMMA Initial == Init => IndInv
<1> SUFFICES ASSUME Init PROVE IndInv
  OBVIOUS
<1>1. /\ scenario \in Scenarios /\ scenario.db \in DB /\ scenario.writes \in Nat
      /\ tx = [s \in Session |-> NoTx] /\ pending = [s \in Session |-> {}]
      /\ writes = 0 /\ residue = FALSE
  BY ScenariosAssumption DEF Init
<1>2. db \in DB
  BY <1>1, RecomputeFlagsOnly DEF Init, RecomputeAllIsBlocked
<1>3. writes \in 0 .. scenario.writes /\ residue \in BOOLEAN
  <2>1. \A n \in Nat : 0 \in 0 .. n
    OBVIOUS
  <2> QED BY <1>1, <2>1, Zenon
<1>4. tx \in [Session -> Transaction \cup {NoTx}] /\ pending \in [Session -> SUBSET Issue]
      /\ \A s \in Session : tx[s] = NoTx
  BY <1>1
<1> QED BY <1>1, <1>2, <1>3, <1>4 DEF IndInv, TypeOK

(* Every step is good. *)
LEMMA Inductive == IndInv /\ [Next]_vars => StepIsGood
<1> SUFFICES ASSUME IndInv, [Next]_vars PROVE StepIsGood
  OBVIOUS
<1>1. CASE UNCHANGED vars
  BY <1>1 DEF vars, StepIsGood, IndInv, TypeOK, SlipsNot
<1>2. ASSUME NEW s \in Session,
             Begin(s) \/ Rollback(s) \/ RecheckBlocked(s) \/ AbandonRecheck(s) \/ Repair(s)
      PROVE  StepIsGood
  BY <1>2, LocalStep, RecheckStep
<1>3. ASSUME NEW s \in Session, NEW i \in Issue, NEW force \in BOOLEAN, CloseIssueChecked(s, i, force)
      PROVE  StepIsGood
  BY <1>3, CloseStep
<1>4. ASSUME NEW s \in Session, NEW i \in Issue, NEW force \in BOOLEAN,
             NEW status \in {"open", "closed", "pinned"}, UpdateStatus(s, i, status, force)
      PROVE  StepIsGood
  BY <1>4, UpdateStep
<1>5. ASSUME NEW s \in Session, NEW i \in Issue, ReopenIssue(s, i) \/ DeleteIssue(s, i)
      PROVE  StepIsGood
  BY <1>5, ReopenStep, DeleteStep
<1>6. ASSUME NEW s \in Session, NEW i \in Issue, NEW j \in Issue, RemoveDependency(s, i, j)
      PROVE  StepIsGood
  BY <1>6, RemoveStep
<1>7. ASSUME NEW s \in Session, NEW e \in scenario.edges,
             AddDependency(s, e.from, e.to, e.row) \/ ReAddDependency(s, e.from, e.to, e.row)
      PROVE  StepIsGood
  <2>1. e.from \in Issue /\ e.to \in Issue /\ e.row \in DepRow
    BY ScenariosAssumption DEF IndInv, TypeOK
  <2> QED BY <1>7, <2>1, AddStep, ReAddStep
<1> QED BY <1>1, <1>2, <1>3, <1>4, <1>5, <1>6, <1>7 DEF Next

(* The tables, the open transactions and the pending rechecks keep their types. *)
THEOREM TypeCorrect == Spec => []TypeOK
<1>1. IndInv /\ [Next]_vars => IndInv'
  BY Inductive DEF StepIsGood
<1>2. IndInv => TypeOK
  BY DEF IndInv
<1> QED BY <1>1, <1>2, Initial, PTL DEF Spec

(***************************************************************************)
(* On every graph and for any number of writers: a close that commits saw  *)
(* every child its issue has, and an edge that commits lands under no      *)
(* parent that was closed behind its back.                                 *)
(***************************************************************************)
THEOREM ClosesSeeTheirChildren == Spec => NoChildSlipsUnderClose
<1>1. IndInv /\ [Next]_vars => IndInv'
  BY Inductive DEF StepIsGood
<1>2. IndInv /\ [Next]_vars =>
        [\A s \in Session, p \in Issue : tx[s] # NoTx /\ tx'[s] = NoTx /\ db' # db =>
            /\ p \in Closed(db') /\ p \notin Closed(db) /\ pending[s] = {}
                => Children(db, {p}) \subseteq Children(Snap(s), {p})
            /\ Children(db', {p}) \ Children(db, {p}) # {}
                => (p \in Closed(db) => p \in Closed(Snap(s)))]_vars
  BY Inductive DEF StepIsGood, SlipsNot
<1> QED BY <1>1, <1>2, Initial, PTL DEF Spec, NoChildSlipsUnderClose

(* A flag that is up for no reason is one that somebody will take down. *)
Awaited(i) ==
    \E z \in Session : i \in pending[z] /\ (tx[z] = NoTx \/ i \notin Due(Snap(z)))

(* What an open transaction knows; the last part, if no adder overtook it. *)
TidyTx(s) ==
    /\ TidyDB(scenario, Snap(s)) /\ Covers(scenario, pending[s], Snap(s))
    /\ SameFamilies(scenario, Snap(s), db)
    /\ ~tx[s].overtaken => Snap(s) = db /\ ~tx[s].adder
    /\ ~residue /\ ~tx[s].adder => Shrunk(Snap(s), db) /\ Due(Snap(s)) \subseteq Flags(Snap(s))

TidyInv ==
    /\ TidyDB(scenario, db)
    /\ \A s \in Session : Covers(scenario, pending[s], db) /\ (tx[s] # NoTx => TidyTx(s))
    /\ ~residue =>
        /\ Due(db) \subseteq Flags(db)
        /\ \A i \in Flags(db) \ Due(db) : Awaited(i)

(* The commit of a transaction of s brings o; the others stay open. *)
LEMMA CommitShape ==
    ASSUME IndInv, NEW s \in Session, tx[s] # NoTx, NEW ours, NEW stamps, NEW adder \in BOOLEAN,
           Commit(s, ours, stamps, adder)
    PROVE  \A u \in Session :
             /\ u = s \/ tx[u] = NoTx => tx'[u] = NoTx
             /\ u # s /\ tx[u] # NoTx => /\ tx'[u].snap = tx[u].snap /\ tx'[u].overtaken
                                         /\ tx'[u].adder <=> tx[u].adder \/ adder
<1> SUFFICES ASSUME NEW u \in Session
             PROVE  /\ u = s \/ tx[u] = NoTx => tx'[u] = NoTx
                    /\ u # s /\ tx[u] # NoTx => /\ tx'[u].snap = tx[u].snap /\ tx'[u].overtaken
                                                /\ tx'[u].adder <=> tx[u].adder \/ adder
  OBVIOUS
<1>1. tx'[u] = IF u = s \/ tx[u] = NoTx THEN NoTx
               ELSE [tx[u] EXCEPT !.stamped = @ \cup stamps, !.overtaken = TRUE, !.adder = @ \/ adder]
  BY Zenon DEF Commit
<1>2. CASE u = s \/ tx[u] = NoTx
  BY <1>1, <1>2
<1>3. CASE u # s /\ tx[u] # NoTx
  <2>1. tx[u] \in Transaction
    BY <1>3 DEF IndInv, TypeOK
  <2>2. PICK S : S = tx[u].stamped \cup stamps
    BY Zenon
  <2>3. PICK a \in BOOLEAN : a = (tx[u].adder \/ adder)
    <3>1. tx[u].adder \in BOOLEAN
      BY <2>1 DEF Transaction
    <3>2. (tx[u].adder \/ adder) \in BOOLEAN
      BY <3>1
    <3> QED BY <3>2, Zenon
  <2>4. tx'[u] = [tx[u] EXCEPT !.stamped = S, !.overtaken = TRUE, !.adder = a]
    BY <1>1, <1>3, <2>2, <2>3, Zenon
  <2>5. /\ tx'[u].snap = tx[u].snap /\ tx'[u].overtaken /\ tx'[u].adder = a
    BY <2>1, <2>4 DEF Transaction
  <2> QED BY <1>3, <2>3, <2>5, Zenon
<1> QED BY <1>2, <1>3, ZenonT(30)

LEMMA CommitTables ==
    ASSUME IndInv, Tidy(scenario), TidyInv, NEW s \in Session, tx[s] # NoTx, NEW ours, NEW stamps, NEW adder,
           Commit(s, ours, stamps, adder), TidyDB(scenario, ours)
    PROVE  MergedTidily(scenario, Snap(s), ours, db, db')
<1> DEFINE m == [issues |-> TableMerge(Snap(s).issues, ours.issues, db.issues),
                 dependencies |-> TableMerge(Snap(s).dependencies, ours.dependencies, db.dependencies)]
<1>1. db' = m /\ ~TableConflict(Snap(s).issues, ours.issues, db.issues)
  BY ZenonT(30) DEF Commit, Snap
<1>2. TidyDB(scenario, Snap(s)) /\ TidyDB(scenario, db)
  BY Zenon DEF TidyInv, TidyTx
<1>3. MergedTidily(scenario, Snap(s), ours, db, m)
  BY <1>1, <1>2, TidyMerge, ZenonT(30)
<1> HIDE DEF m
<1> QED BY <1>1, <1>3

(* No child comes under a parent that can be blocked, and the recheck covers the merged families. *)
LEMMA MergedFamilies ==
    ASSUME NEW z, Tidy(z), NEW b, NEW o, NEW t, NEW m, TidyDB(z, b), TidyDB(z, o), TidyDB(z, t),
           MergedTidily(z, b, o, t, m), SameFamilies(z, b, o), SameFamilies(z, b, t),
           NEW ids \in SUBSET Issue, Covers(z, ids, o)
    PROVE  SameFamilies(z, t, m) /\ Covers(z, ids, m)
<1>1. TidyDB(z, m)
  BY DEF MergedTidily
<1>2. ASSUME NEW p \in Issue, HasRow(z, p), NEW c \in Children(m, {p})
      PROVE  c \in Children(t, {p}) /\ c \in Children(o, {p})
  <2>1. c \in Issue /\ <<c, p>> \in Rows(m) /\ Typed(z, c, p, "parent-child")
    BY <1>1, ChildrenByType, Zenon
  <2>2. IF <<c, p>> \in Rows(b) <=> <<c, p>> \in Rows(o) THEN <<c, p>> \in Rows(t) ELSE <<c, p>> \in Rows(o)
    BY <2>1 DEF MergedTidily
  <2>3. /\ c \in Children(b, {p}) <=> <<c, p>> \in Rows(b)
        /\ c \in Children(o, {p}) <=> <<c, p>> \in Rows(o)
        /\ c \in Children(t, {p}) <=> <<c, p>> \in Rows(t)
    BY <2>1, ChildrenByType
  <2>4. (c \in Children(o, {p}) => c \in Children(b, {p})) /\ (c \in Children(t, {p}) => c \in Children(b, {p}))
    BY <1>2 DEF SameFamilies
  <2> QED BY <2>2, <2>3, <2>4
<1>3. SameFamilies(z, t, m)
  BY <1>2, Zenon DEF SameFamilies
<1>4. Covers(z, ids, m)
  BY <1>2, ZenonT(30) DEF Covers
<1> QED BY <1>3, <1>4

(* The flags a commit leaves: none missing, and none wrong that nobody will take down. *)
LEMMA CommitKeeps ==
    ASSUME IndInv, Tidy(scenario), TidyInv, NEW s \in Session, tx[s] # NoTx, NEW ours, NEW stamps,
           NEW adder \in BOOLEAN, NEW recheck \in SUBSET Issue, Commit(s, ours, stamps, adder),
           scenario' = scenario, pending' = [pending EXCEPT ![s] = recheck],
           TidyDB(scenario, ours), SameFamilies(scenario, Snap(s), ours), Covers(scenario, recheck, ours),
           ~residue' =>
             /\ Due(db') \subseteq Flags(db') /\ (~adder => ~residue /\ Shrunk(db, db'))
             /\ \A i \in Flags(db') \ Due(db') :
                    i \in recheck \/ \E u \in Session \ {s} : i \in pending[u] /\ (tx[u] = NoTx \/ i \notin Due(Snap(u)))
    PROVE  TidyInv'
<1>1. TidyDB(scenario, Snap(s)) /\ TidyDB(scenario, db) /\ SameFamilies(scenario, Snap(s), db)
  BY Zenon DEF TidyInv, TidyTx
<1>2. MergedTidily(scenario, Snap(s), ours, db, db')
  BY CommitTables
<1>3. TidyDB(scenario, db')
  BY <1>2 DEF MergedTidily
<1>4. SameFamilies(scenario, db, db') /\ Covers(scenario, recheck, db')
  BY <1>1, <1>2, MergedFamilies
<1>5. pending \in [Session -> SUBSET Issue] /\ pending'[s] = recheck /\ \A u \in Session : u # s => pending'[u] = pending[u]
  BY DEF IndInv, TypeOK
<1>6. \A u \in Session :
         /\ u = s \/ tx[u] = NoTx => tx'[u] = NoTx
         /\ u # s /\ tx[u] # NoTx => /\ tx'[u].snap = tx[u].snap /\ tx'[u].overtaken
                                     /\ tx'[u].adder <=> tx[u].adder \/ adder
  BY CommitShape, ZenonT(30)
<1>7. ASSUME NEW u \in Session PROVE Covers(scenario, pending'[u], db')
  <2>1. CASE u = s
    BY <1>4, <1>5, <2>1
  <2>2. CASE u # s
    <3>1. Covers(scenario, pending[u], db) /\ pending[u] \in SUBSET Issue
      BY <1>5 DEF TidyInv
    <3>2. Covers(scenario, pending[u], db')
      BY <1>4, <3>1, ZenonT(30) DEF Covers, SameFamilies
    <3> QED BY <1>5, <2>2, <3>2
  <2> QED BY <2>1, <2>2
<1>8. ASSUME NEW u \in Session, tx'[u] # NoTx PROVE TidyTx(u)'
  <2>1. /\ u # s /\ tx[u] # NoTx /\ tx'[u].snap = tx[u].snap /\ tx'[u].overtaken
        /\ tx'[u].adder <=> tx[u].adder \/ adder
    BY <1>6, <1>8, ZenonT(30)
  <2>2. TidyTx(u)
    BY <2>1, ZenonT(30) DEF TidyInv
  <2>3. SameFamilies(scenario, Snap(u), db')
    BY <1>4, <2>2, ZenonT(30) DEF SameFamilies, TidyTx
  <2>4. ASSUME ~residue', ~tx'[u].adder
        PROVE  Shrunk(Snap(u), db') /\ Due(Snap(u)) \subseteq Flags(Snap(u))
    <3>1. ~adder /\ ~tx[u].adder /\ ~residue /\ Shrunk(db, db')
      BY <2>1, <2>4, ZenonT(30)
    <3>2. Shrunk(Snap(u), db) /\ Due(Snap(u)) \subseteq Flags(Snap(u))
      BY <2>2, <3>1 DEF TidyTx
    <3> QED BY <3>1, <3>2 DEF Shrunk
  <2> QED BY <1>5, <2>1, <2>2, <2>3, <2>4, Zenon DEF TidyTx, Snap
<1>9. ASSUME ~residue', NEW i \in Flags(db') \ Due(db') PROVE Awaited(i)'
  <2>1. CASE i \in recheck
    BY <1>5, <1>6, <2>1, ZenonT(30) DEF Awaited
  <2>2. ASSUME NEW u \in Session \ {s}, i \in pending[u], tx[u] = NoTx \/ i \notin Due(Snap(u)) PROVE Awaited(i)'
    <3>1. i \in pending'[u]
      BY <1>5, <2>2
    <3>2. tx'[u] = NoTx \/ i \notin Due(tx'[u].snap)
      BY <1>6, <2>2, ZenonT(30) DEF Snap
    <3> QED BY <3>1, <3>2, ZenonT(30) DEF Awaited, Snap
  <2> QED BY <1>9, <2>1, <2>2
<1> QED BY <1>3, <1>7, <1>8, <1>9, Zenon DEF TidyInv

LEMMA WorkKeeps ==
    ASSUME IndInv, Tidy(scenario), TidyInv, NEW s \in Session, tx[s] # NoTx, NEW ours, NEW stamps,
           NEW adder \in BOOLEAN, NEW recheck \in SUBSET Issue, Commit(s, ours, stamps, adder),
           scenario' = scenario, pending' = [pending EXCEPT ![s] = recheck],
           residue' = (residue \/ Raced(s, adder)), Works(scenario, Snap(s), ours, adder, recheck),
           \A i \in pending[s] : ~adder /\ i \in Flags(ours) => i \in Due(ours),
           adder => pending[s] = {}
    PROVE  TidyInv'
<1>1. TidyTx(s) /\ TidyDB(scenario, db)
  BY Zenon DEF TidyInv
<1>2. TidyDB(scenario, Snap(s)) /\ TidyDB(scenario, ours)
  BY <1>1 DEF TidyTx, Works
<1>3. MergedTidily(scenario, Snap(s), ours, db, db')
  BY <1>2, CommitTables
<1>4. tx[s] \in Transaction /\ residue \in BOOLEAN
  BY DEF IndInv, TypeOK
<1>5. ASSUME ~residue', adder
      PROVE  /\ Due(db') \subseteq Flags(db')
             /\ \A i \in Flags(db') \ Due(db') :
                  \E u \in Session \ {s} : i \in pending[u] /\ (tx[u] = NoTx \/ i \notin Due(Snap(u)))
  <2>1. ~residue /\ ~tx[s].overtaken
    BY <1>5, ZenonT(30) DEF Raced
  <2>2. Snap(s) = db
    BY <1>1, <2>1 DEF TidyTx
  <2>3. db' = ours
    BY <1>3, <2>2 DEF MergedTidily
  <2>4. Due(db) \subseteq Flags(db) /\ \A i \in Flags(db) \ Due(db) : Awaited(i)
    BY <2>1, ZenonT(30) DEF TidyInv
  <2>5. Enlarges(db, db')
    BY <1>5, <2>2, <2>3, <2>4 DEF Works
  <2> QED BY <1>5, <2>4, <2>5 DEF Enlarges, Awaited
<1>6. ASSUME ~residue', ~adder
      PROVE  /\ Due(db') \subseteq Flags(db') /\ ~residue /\ Shrunk(db, db')
             /\ \A i \in Flags(db') \ Due(db') :
                  i \in recheck \/ \E u \in Session \ {s} : i \in pending[u] /\ (tx[u] = NoTx \/ i \notin Due(Snap(u)))
  <2>1. ~residue /\ ~(tx[s].overtaken /\ tx[s].adder)
    BY <1>6, ZenonT(30) DEF Raced
  <2>2. ~tx[s].adder
    BY <1>1, <2>1 DEF TidyTx
  <2>3. Shrunk(Snap(s), db) /\ Due(Snap(s)) \subseteq Flags(Snap(s))
    BY <1>1, <2>1, <2>2 DEF TidyTx
  <2>4. Due(db) \subseteq Flags(db) /\ \A i \in Flags(db) \ Due(db) : Awaited(i)
    BY <2>1, ZenonT(30) DEF TidyInv
  <2>5. Lessens(scenario, Snap(s), ours, recheck)
    BY <1>6, <2>3 DEF Works
  <2>6. /\ Shrunk(db, db') /\ Due(db') \subseteq Flags(db')
        /\ \A i \in Flags(db') \ Due(db') : i \in Flags(ours) /\ (i \in recheck \/ i \in Flags(db) \ Due(db))
    BY <1>1, <1>2, <1>3, <2>3, <2>4, <2>5, LessensMerged
  <2>7. ASSUME NEW i \in Flags(db') \ Due(db'), i \notin recheck
        PROVE  \E u \in Session \ {s} : i \in pending[u] /\ (tx[u] = NoTx \/ i \notin Due(Snap(u)))
    <3>1. i \in Flags(ours) /\ Awaited(i)
      BY <2>4, <2>6, <2>7
    <3>2. PICK u \in Session : i \in pending[u] /\ (tx[u] = NoTx \/ i \notin Due(Snap(u)))
      BY <3>1 DEF Awaited
    <3>3. ASSUME u = s PROVE FALSE
      <4>1. i \in Due(ours)
        BY <1>6, <3>1, <3>2, <3>3
      <4>2. Shrunk(Snap(s), ours)
        BY <2>5 DEF Lessens
      <4>3. i \in Due(Snap(s))
        BY <1>2, <4>1, <4>2, DueGrows
      <4> QED BY <3>2, <3>3, <4>3
    <3> QED BY <3>2, <3>3
  <2> QED BY <2>1, <2>6, <2>7
<1>7. SameFamilies(scenario, Snap(s), ours) /\ Covers(scenario, recheck, ours)
  BY DEF Works
<1>8. ~residue' =>
         /\ Due(db') \subseteq Flags(db') /\ (~adder => ~residue /\ Shrunk(db, db'))
         /\ \A i \in Flags(db') \ Due(db') :
                i \in recheck \/ \E u \in Session \ {s} : i \in pending[u] /\ (tx[u] = NoTx \/ i \notin Due(Snap(u)))
  <2>1. CASE adder
    BY <1>5, <2>1
  <2>2. CASE ~adder
    BY <1>6, <2>2
  <2> QED BY <2>1, <2>2
<1> QED BY <1>2, <1>7, <1>8, CommitKeeps, ZenonT(30)

(* A user's write: it has nothing to recheck yet. *)
LEMMA WriteKeeps ==
    ASSUME IndInv, Tidy(scenario), TidyInv, NEW s \in Session, NEW ours, NEW stamps,
           NEW adder \in BOOLEAN, NEW recheck \in SUBSET Issue, Write(s, ours, stamps, adder, recheck),
           Works(scenario, Snap(s), ours, adder, recheck)
    PROVE  TidyInv'
<1>1. /\ tx[s] # NoTx /\ pending[s] = {} /\ Commit(s, ours, stamps, adder)
      /\ pending' = [pending EXCEPT ![s] = recheck]
      /\ residue' = (residue \/ Raced(s, adder)) /\ scenario' = scenario
  BY DEF Write
<1> QED BY <1>1, WorkKeeps, ZenonT(30)

LEMMA TidySnap ==
    ASSUME TidyInv, NEW s \in Session, tx[s] # NoTx
    PROVE  TidyDB(scenario, Snap(s)) /\ Covers(scenario, pending[s], Snap(s))
  BY DEF TidyInv, TidyTx

LEMMA CloseTidy ==
    ASSUME IndInv, Tidy(scenario), TidyInv, NEW s \in Session, NEW i \in Issue, NEW force, CloseIssueChecked(s, i, force)
    PROVE  TidyInv'
<1> DEFINE affected == AffectedByStatusChange(Snap(s), i)
           d == SetStatus(Snap(s), i, "closed")
<1>1. /\ tx[s] # NoTx /\ i \in Live(Snap(s))
      /\ Write(s, RecomputeIsBlocked(d, affected), closeStamps(i), FALSE, affected \ {i})
  BY Zenon DEF CloseIssueChecked, noteStatusChange
<1>2. TidyDB(scenario, Snap(s)) /\ affected \in SUBSET Issue
  BY <1>1, TidySnap, AffectedTypes, ZenonT(30)
<1> HIDE DEF affected
<1>3. affected \in {AffectedByStatusChange(Snap(s), i), AffectedByStatusChange(d, i)}
  BY DEF affected
<1>4. Works(scenario, Snap(s), RecomputeIsBlocked(d, affected), FALSE, affected \ {i})
  BY <1>1, <1>2, <1>3, StopWorks, ZenonT(30)
<1> QED BY <1>1, <1>2, <1>4, WriteKeeps, ZenonT(30)

LEMMA ReopenTidy ==
    ASSUME IndInv, Tidy(scenario), TidyInv, NEW s \in Session, NEW i \in Issue, ReopenIssue(s, i)
    PROVE  TidyInv'
<1> DEFINE affected == AffectedByStatusChange(Snap(s), i)
           d == SetStatus(Snap(s), i, "open")
<1>1. /\ tx[s] # NoTx /\ i \in Live(Snap(s))
      /\ Write(s, RecomputeIsBlocked(d, affected), {<<i, "row_lock">>}, TRUE, {})
  BY ZenonT(30) DEF ReopenIssue, Closed
<1>2. TidyDB(scenario, Snap(s)) /\ affected \in SUBSET Issue
  BY <1>1, TidySnap, AffectedTypes, ZenonT(30)
<1> HIDE DEF affected
<1>3. affected \in {AffectedByStatusChange(Snap(s), i), AffectedByStatusChange(d, i)}
  BY DEF affected
<1>4. Works(scenario, Snap(s), RecomputeIsBlocked(d, affected), TRUE, {})
  BY <1>1, <1>2, <1>3, StartWorks, ZenonT(30)
<1>5. TRUE \in BOOLEAN /\ {} \in SUBSET Issue
  OBVIOUS
<1> QED BY <1>1, <1>4, <1>5, WriteKeeps, Zenon

LEMMA UpdateTidy ==
    ASSUME IndInv, Tidy(scenario), TidyInv, NEW s \in Session, NEW i \in Issue,
           NEW status \in {"open", "closed", "pinned"}, NEW force, UpdateStatus(s, i, status, force)
    PROVE  TidyInv'
<1> DEFINE d == SetStatus(Snap(s), i, status)
           affected == AffectedByStatusChange(d, i)
           changed == (i \in Active(d)) # (i \in Active(Snap(s)))
           ours == IF changed THEN RecomputeIsBlocked(d, affected) ELSE d
           stamps == IF status = "closed" THEN closeStamps(i) ELSE {<<i, "row_lock">>}
           recheck == IF changed /\ i \notin Active(d) THEN affected \ {i} ELSE {}
<1>1. /\ tx[s] # NoTx /\ i \in Live(Snap(s))
      /\ Write(s, ours, stamps, changed /\ i \in Active(d), recheck)
  BY Zenon DEF UpdateStatus, noteStatusChange
<1>2. TidyDB(scenario, Snap(s)) /\ affected \in SUBSET Issue
  BY <1>1, TidySnap, AffectedTypes, ZenonT(30)
<1>3. Active(d) = IF status = "open" THEN Active(Snap(s)) \cup {i} ELSE Active(Snap(s)) \ {i}
  BY <1>1, <1>2, StatusTidy DEF StatusSet
<1> HIDE DEF d, affected, stamps
<1>4. affected \in {AffectedByStatusChange(Snap(s), i), AffectedByStatusChange(d, i)}
  BY DEF affected
<1>5. CASE ~changed
  <2>1. Write(s, d, stamps, FALSE, {})
    BY <1>1, <1>5, Zenon
  <2>2. (i \in Active(d)) = (i \in Active(Snap(s)))
    BY <1>5
  <2>3. Works(scenario, Snap(s), d, FALSE, {})
    BY <1>1, <1>2, <2>2, StaysInactiveWorks, ZenonT(30) DEF d
  <2>4. FALSE \in BOOLEAN /\ {} \in SUBSET Issue
    OBVIOUS
  <2> QED BY <2>1, <2>3, <2>4, WriteKeeps, Zenon
<1>6. CASE changed /\ i \in Active(d)
  <2>1. status = "open"
    BY <1>3, <1>6
  <2>2. Write(s, RecomputeIsBlocked(d, affected), stamps, TRUE, {})
    BY <1>1, <1>6, Zenon
  <2>3. Works(scenario, Snap(s), RecomputeIsBlocked(d, affected), TRUE, {})
    BY <1>1, <1>2, <1>4, <2>1, StartWorks, ZenonT(30) DEF d
  <2>4. TRUE \in BOOLEAN /\ {} \in SUBSET Issue
    OBVIOUS
  <2> QED BY <2>2, <2>3, <2>4, WriteKeeps, Zenon
<1>7. CASE changed /\ i \notin Active(d)
  <2>1. status \in {"closed", "pinned"}
    BY <1>3, <1>7
  <2>2. Write(s, RecomputeIsBlocked(d, affected), stamps, FALSE, affected \ {i})
    BY <1>1, <1>7, Zenon
  <2>3. Works(scenario, Snap(s), RecomputeIsBlocked(d, affected), FALSE, affected \ {i})
    BY <1>1, <1>2, <1>4, <2>1, StopWorks, ZenonT(30) DEF d
  <2>4. FALSE \in BOOLEAN /\ affected \ {i} \in SUBSET Issue
    BY <1>2
  <2> QED BY <2>2, <2>3, <2>4, WriteKeeps, Zenon
<1> QED BY <1>5, <1>6, <1>7

LEMMA RemoveTidy ==
    ASSUME IndInv, Tidy(scenario), TidyInv, NEW s \in Session, NEW i \in Issue, NEW j \in Issue, RemoveDependency(s, i, j)
    PROVE  TidyInv'
<1> DEFINE d == SetRow(Snap(s), i, j, NoRow)
           affected == AffectedByDepChange(d, i, j, Snap(s).dependencies[<<i, j>>].type)
<1>1. /\ tx[s] # NoTx /\ Snap(s).dependencies[<<i, j>>] # NoRow
      /\ Write(s, RecomputeIsBlocked(d, affected), {}, FALSE, affected)
  BY ZenonT(30) DEF RemoveDependency
<1>2. TidyDB(scenario, Snap(s)) /\ affected \in SUBSET Issue /\ <<i, j>> \in Rows(Snap(s))
  BY <1>1, TidySnap, AffectedTypes, ZenonT(30) DEF Rows
<1>3. Works(scenario, Snap(s), RecomputeIsBlocked(d, affected), FALSE, affected)
  BY <1>2, RemoveWorks, ZenonT(30)
<1> HIDE DEF d, affected
<1>4. FALSE \in BOOLEAN
  OBVIOUS
<1> QED BY <1>1, <1>2, <1>3, <1>4, WriteKeeps, Zenon

LEMMA DeleteTidy ==
    ASSUME IndInv, Tidy(scenario), TidyInv, NEW s \in Session, NEW i \in Issue, DeleteIssue(s, i)
    PROVE  TidyInv'
<1> DEFINE d == Without(Snap(s), i)
           affected == AffectedByDeletion(Snap(s), i)
<1>1. tx[s] # NoTx /\ Write(s, RecomputeIsBlocked(d, affected), {}, FALSE, affected)
  BY ZenonT(30) DEF DeleteIssue
<1>2. TidyDB(scenario, Snap(s)) /\ affected \in SUBSET Issue
  BY <1>1, TidySnap, AffectedTypes, ZenonT(30)
<1>3. Works(scenario, Snap(s), RecomputeIsBlocked(d, affected), FALSE, affected)
  BY <1>2, DeleteWorks, ZenonT(30)
<1> HIDE DEF d, affected
<1>4. FALSE \in BOOLEAN
  OBVIOUS
<1> QED BY <1>1, <1>2, <1>3, <1>4, WriteKeeps, Zenon

LEMMA AddTidy ==
    ASSUME IndInv, Tidy(scenario), TidyInv, NEW s \in Session, NEW e \in scenario.edges,
           AddDependency(s, e.from, e.to, e.row)
    PROVE  TidyInv'
<1> DEFINE i == e.from
           j == e.to
           row == e.row
           ours == markAfterAdd(SetRow(Snap(s), i, j, row), i, j, row.type)
<1>1. /\ tx[s] # NoTx /\ Snap(s).dependencies[<<i, j>>] = NoRow
      /\ Write(s, ours, addStamps(j, row.type), TRUE, {})
  BY ZenonT(30) DEF AddDependency
<1>2. i \in Issue /\ j \in Issue /\ row \in DepRow
  BY ScenariosAssumption, ZenonT(30) DEF IndInv, TypeOK
<1>3. TidyDB(scenario, Snap(s)) /\ <<i, j>> \notin Rows(Snap(s))
  BY <1>1, TidySnap, ZenonT(30) DEF Rows
<1>4. Works(scenario, Snap(s), ours, TRUE, {})
  BY <1>2, <1>3, AddWorks, ZenonT(30)
<1> HIDE DEF ours
<1>5. TRUE \in BOOLEAN /\ {} \in SUBSET Issue
  OBVIOUS
<1> QED BY <1>1, <1>4, <1>5, WriteKeeps, Zenon

(* A row cannot change: there is one for each pair. *)
LEMMA ReAddTidy ==
    ASSUME IndInv, Tidy(scenario), TidyInv, NEW s \in Session, NEW e \in scenario.edges,
           ReAddDependency(s, e.from, e.to, e.row)
    PROVE  FALSE
<1> DEFINE i == e.from
           j == e.to
<1>1. /\ tx[s] # NoTx /\ Snap(s).dependencies[<<i, j>>] # NoRow /\ Snap(s).dependencies[<<i, j>>] # e.row
  BY ZenonT(30) DEF ReAddDependency, Has
<1>2. i \in Issue /\ j \in Issue
  BY ScenariosAssumption, ZenonT(30) DEF IndInv, TypeOK
<1>3. PICK f \in Declared(scenario) : f.from = i /\ f.to = j /\ f.row = Snap(s).dependencies[<<i, j>>]
  <2>1. TidyDB(scenario, Snap(s))
    BY <1>1, TidySnap, Zenon
  <2> QED BY <1>1, <1>2, <2>1, RowIsDeclared
<1>4. e \in Declared(scenario)
  BY DEF Declared
<1>5. f.row = e.row
  BY <1>3, <1>4, ZenonT(30) DEF Tidy
<1> QED BY <1>1, <1>3, <1>5, ZenonT(30)

LEMMA RecheckTidy ==
    ASSUME IndInv, Tidy(scenario), TidyInv, NEW s \in Session, RecheckBlocked(s)
    PROVE  TidyInv'
<1> DEFINE ids == pending[s]
           ours == RecomputeIsBlocked(Snap(s), ids)
<1>1. /\ tx[s] # NoTx /\ Commit(s, ours, {}, FALSE) /\ pending' = [pending EXCEPT ![s] = {}]
      /\ residue' = (residue \/ Raced(s, FALSE)) /\ scenario' = scenario
  BY ZenonT(30) DEF RecheckBlocked
<1>2. TidyDB(scenario, Snap(s)) /\ Covers(scenario, ids, Snap(s)) /\ ids \in SUBSET Issue
  BY <1>1, TidySnap DEF IndInv, TypeOK
<1>3. Works(scenario, Snap(s), ours, FALSE, {})
  BY <1>2, RecheckWorks, Zenon
<1>4. Recomputed(scenario, Snap(s), ids, ours)
  BY <1>2, RecomputeTidy, ZenonT(30)
<1>5. \A i \in ids : i \in Flags(ours) => i \in Due(ours)
  BY <1>4, Zenon DEF Recomputed
<1> HIDE DEF ours
<1>6. FALSE \in BOOLEAN /\ {} \in SUBSET Issue
  OBVIOUS
<1> QED BY <1>1, <1>3, <1>5, <1>6, WorkKeeps, Zenon

(* A repair that nothing overtook leaves every flag as it is due. *)
LEMMA RecomputeAllTidy ==
    ASSUME NEW z, Tidy(z), NEW b, TidyDB(z, b), NEW o, o = RecomputeAllIsBlocked(b)
    PROVE  TidyDB(z, o) /\ Rows(o) = Rows(b) /\ Flags(o) = Due(o)
<1>1. Recomputed(z, b, Live(b), o)
  BY RecomputeTidy DEF RecomputeAllIsBlocked
<1>2. /\ TidyDB(z, o) /\ Rows(o) = Rows(b) /\ Live(o) = Live(b)
      /\ \A i : i \in Flags(o) <=> IF i \in Live(b) THEN i \in Due(o) ELSE i \in Flags(b)
  BY <1>1 DEF Recomputed, Reflagged
<1>3. Flags(o) \subseteq Live(b) /\ Due(o) \subseteq Live(b)
  BY <1>2, ZenonT(30) DEF Flags, Due, Active
<1> QED BY <1>2, <1>3

LEMMA RepairTidy ==
    ASSUME IndInv, Tidy(scenario), TidyInv, NEW s \in Session, Repair(s)
    PROVE  TidyInv'
<1> DEFINE ours == RecomputeAllIsBlocked(Snap(s))
           none == {}
<1>1. /\ tx[s] # NoTx /\ pending[s] = none /\ Commit(s, ours, {}, TRUE)
      /\ residue' = tx[s].overtaken /\ scenario' = scenario /\ pending' = pending
  BY ZenonT(30) DEF Repair
<1>2. TidyDB(scenario, Snap(s)) /\ (~tx[s].overtaken => Snap(s) = db)
  BY <1>1, Zenon DEF TidyInv, TidyTx
<1>3. TidyDB(scenario, ours) /\ Rows(ours) = Rows(Snap(s)) /\ Flags(ours) = Due(ours)
  BY <1>2, RecomputeAllTidy
<1>4. none \in SUBSET Issue /\ Covers(scenario, none, ours)
  BY DEF Covers
<1> HIDE DEF ours, none
<1>5. SameFamilies(scenario, Snap(s), ours)
  BY <1>2, <1>3, SameRowsSameFamilies
<1>6. pending' = [pending EXCEPT ![s] = none]
  BY <1>1 DEF IndInv, TypeOK
<1>7. MergedTidily(scenario, Snap(s), ours, db, db')
  BY <1>1, <1>3, CommitTables, ZenonT(30)
<1>8. ~residue' => db' = ours
  BY <1>1, <1>2, <1>7, ZenonT(30) DEF MergedTidily
<1>9. ~residue' => Due(db') \subseteq Flags(db') /\ Flags(db') \ Due(db') = {}
  BY <1>3, <1>8
<1>10. TRUE \in BOOLEAN
  OBVIOUS
<1> QED BY <1>1, <1>3, <1>4, <1>5, <1>6, <1>9, <1>10, CommitKeeps, Zenon

(* Begin, Rollback and AbandonRecheck leave the tables alone. *)
LEMMA BeginTidy ==
    ASSUME IndInv, Tidy(scenario), TidyInv, NEW s \in Session, Begin(s)
    PROVE  TidyInv'
<1>1. /\ tx[s] = NoTx /\ scenario' = scenario /\ db' = db /\ pending' = pending /\ residue' = residue
      /\ tx' = [tx EXCEPT ![s] = [snap |-> db, stamped |-> {}, overtaken |-> FALSE, adder |-> FALSE]]
  BY ZenonT(30) DEF Begin
<1>2. /\ tx'[s].snap = db /\ tx'[s].overtaken = FALSE /\ tx'[s].adder = FALSE
      /\ \A u \in Session : u # s => tx'[u] = tx[u]
  BY <1>1 DEF IndInv, TypeOK
<1>3. TidyDB(scenario, db) /\ \A u \in Session : Covers(scenario, pending[u], db)
  BY Zenon DEF TidyInv
<1>4. SameFamilies(scenario, db, db) /\ Shrunk(db, db)
  BY DEF SameFamilies, Shrunk
<1>5. TidyTx(s)'
  <2>1. ~residue => Due(db) \subseteq Flags(db)
    BY ZenonT(30) DEF TidyInv
  <2> QED BY <1>1, <1>2, <1>3, <1>4, <2>1 DEF TidyTx, Snap
<1>6. ASSUME NEW u \in Session, u # s, tx'[u] # NoTx PROVE TidyTx(u)'
  <2>1. TidyTx(u)
    BY <1>2, <1>6, ZenonT(30) DEF TidyInv
  <2> QED BY <1>1, <1>2, <1>6, <2>1, ZenonT(30) DEF TidyTx, Snap
<1>7. ASSUME ~residue, NEW i \in Flags(db) \ Due(db) PROVE Awaited(i)'
  <2>1. PICK u \in Session : i \in pending[u] /\ (tx[u] = NoTx \/ i \notin Due(Snap(u)))
    BY <1>7, Zenon DEF TidyInv, Awaited
  <2>2. i \in pending'[u] /\ (tx'[u] = NoTx \/ i \notin Due(tx'[u].snap))
    BY <1>1, <1>2, <1>7, <2>1, ZenonT(30) DEF Snap
  <2> QED BY <2>2, ZenonT(30) DEF Awaited, Snap
<1>8. ~residue => Due(db) \subseteq Flags(db)
  BY Zenon DEF TidyInv
<1> QED BY <1>1, <1>3, <1>5, <1>6, <1>7, <1>8 DEF TidyInv

LEMMA EndTidy ==
    ASSUME IndInv, Tidy(scenario), TidyInv, NEW s \in Session, Rollback(s) \/ AbandonRecheck(s)
    PROVE  TidyInv'
<1>1. scenario' = scenario /\ db' = db /\ (residue' = residue \/ residue')
  BY DEF Rollback, AbandonRecheck
<1>2. \A u \in Session :
         /\ tx'[u] = tx[u] \/ tx'[u] = NoTx
         /\ pending'[u] = pending[u] \/ (pending'[u] = {} /\ residue')
  BY ZenonT(30) DEF Rollback, AbandonRecheck, IndInv, TypeOK
<1>3. TidyDB(scenario, db) /\ \A u \in Session : Covers(scenario, pending'[u], db)
  BY <1>2 DEF TidyInv, Covers
<1>4. ASSUME NEW u \in Session, tx'[u] # NoTx PROVE TidyTx(u)'
  <2>1. TidyTx(u) /\ tx'[u] = tx[u]
    BY <1>2, <1>4, ZenonT(30) DEF TidyInv
  <2>2. Covers(scenario, pending'[u], Snap(u))
    BY <1>2, <2>1, ZenonT(30) DEF TidyTx, Covers
  <2>3. ~residue' => ~residue
    BY <1>1
  <2> QED BY <1>1, <2>1, <2>2, <2>3, ZenonT(30) DEF TidyTx, Snap
<1>5. ASSUME ~residue', NEW i \in Flags(db) \ Due(db) PROVE Awaited(i)'
  <2>1. PICK u \in Session : i \in pending[u] /\ (tx[u] = NoTx \/ i \notin Due(Snap(u)))
    BY <1>1, <1>5 DEF TidyInv, Awaited
  <2>2. i \in pending'[u] /\ (tx'[u] = NoTx \/ i \notin Due(tx'[u].snap))
    BY <1>2, <1>5, <2>1, ZenonT(30) DEF Snap
  <2> QED BY <2>2 DEF Awaited, Snap
<1>6. ~residue' => Due(db) \subseteq Flags(db)
  BY <1>1 DEF TidyInv
<1> QED BY <1>1, <1>3, <1>4, <1>5, <1>6, ZenonT(30) DEF TidyInv

-----------------------------------------------------------------------------
(* The first recomputation leaves every flag as it is due. *)
LEMMA InitTidy == Init /\ Tidy(scenario) => TidyInv
<1> SUFFICES ASSUME Init, Tidy(scenario) PROVE TidyInv
  OBVIOUS
<1>1. /\ scenario \in Scenarios /\ db = RecomputeAllIsBlocked(scenario.db)
      /\ \A s \in Session : tx[s] = NoTx /\ pending[s] = {}
  BY DEF Init
<1>2. scenario.db \in DB
  BY <1>1, ScenariosAssumption
<1>3. ASSUME NEW i \in Issue, NEW j \in Issue, scenario.db.dependencies[<<i, j>>] # NoRow
      PROVE  \E e \in Declared(scenario) : e.from = i /\ e.to = j /\ e.row = scenario.db.dependencies[<<i, j>>]
  <2> DEFINE e == [from |-> i, to |-> j, row |-> scenario.db.dependencies[<<i, j>>]]
  <2>1. e \in Declared(scenario)
    <3>1. <<i, j>> \in {q \in Issue \X Issue : scenario.db.dependencies[q] # NoRow}
      BY <1>3
    <3>2. <<i, j>>[1] = i /\ <<i, j>>[2] = j
      OBVIOUS
    <3> QED BY <3>1, <3>2 DEF Declared
  <2>2. e.from = i /\ e.to = j /\ e.row = scenario.db.dependencies[<<i, j>>]
    OBVIOUS
  <2> HIDE DEF e
  <2> QED BY <2>1, <2>2
<1>4. TidyDB(scenario, scenario.db)
  BY <1>2, <1>3, ZenonT(30) DEF TidyDB, Tidy
<1>5. TidyDB(scenario, db) /\ Flags(db) = Due(db)
  BY <1>1, <1>4, RecomputeAllTidy
<1> QED BY <1>1, <1>5 DEF TidyInv, Covers

LEMMA ScenarioStays == [Next]_vars => scenario' = scenario
<1> SUFFICES ASSUME Next PROVE scenario' = scenario
  BY DEF vars
<1>1. ASSUME NEW s \in Session,
             Begin(s) \/ Rollback(s) \/ RecheckBlocked(s) \/ AbandonRecheck(s) \/ Repair(s)
      PROVE  scenario' = scenario
  BY <1>1, ZenonT(30) DEF Begin, Rollback, RecheckBlocked, AbandonRecheck, Repair
<1>2. ASSUME NEW s, NEW ours, NEW stamps, NEW adder, NEW recheck, Write(s, ours, stamps, adder, recheck)
      PROVE  scenario' = scenario
  BY <1>2 DEF Write
<1>3. ASSUME NEW s \in Session, NEW i \in Issue, NEW force \in BOOLEAN,
             CloseIssueChecked(s, i, force) \/ \E status \in {"open", "closed", "pinned"} : UpdateStatus(s, i, status, force)
      PROVE  scenario' = scenario
  BY <1>2, <1>3, Zenon DEF CloseIssueChecked, UpdateStatus
<1>4. ASSUME NEW s \in Session, NEW i \in Issue, ReopenIssue(s, i) \/ DeleteIssue(s, i)
      PROVE  scenario' = scenario
  BY <1>2, <1>4, Zenon DEF ReopenIssue, DeleteIssue
<1>5. ASSUME NEW s \in Session, NEW i \in Issue, NEW j \in Issue, RemoveDependency(s, i, j)
      PROVE  scenario' = scenario
  BY <1>2, <1>5, Zenon DEF RemoveDependency
<1>6. ASSUME NEW s \in Session, NEW e \in scenario.edges,
             AddDependency(s, e.from, e.to, e.row) \/ ReAddDependency(s, e.from, e.to, e.row)
      PROVE  scenario' = scenario
  BY <1>2, <1>6, Zenon DEF AddDependency, ReAddDependency
<1> QED BY <1>1, <1>3, <1>4, <1>5, <1>6, ZenonT(30) DEF Next

LEMMA StepTidy == IndInv /\ Tidy(scenario) /\ TidyInv /\ [Next]_vars => TidyInv'
<1> SUFFICES ASSUME IndInv, Tidy(scenario), TidyInv, [Next]_vars PROVE TidyInv'
  OBVIOUS
<1>1. CASE UNCHANGED vars
  BY <1>1, ZenonT(30) DEF vars, TidyInv, TidyTx, Awaited, Snap
<1>2. ASSUME NEW s \in Session,
             Begin(s) \/ Rollback(s) \/ RecheckBlocked(s) \/ AbandonRecheck(s) \/ Repair(s)
      PROVE  TidyInv'
  BY <1>2, BeginTidy, EndTidy, RecheckTidy, RepairTidy
<1>3. ASSUME NEW s \in Session, NEW i \in Issue, NEW force \in BOOLEAN, CloseIssueChecked(s, i, force)
      PROVE  TidyInv'
  BY <1>3, CloseTidy
<1>4. ASSUME NEW s \in Session, NEW i \in Issue, NEW force \in BOOLEAN,
             NEW status \in {"open", "closed", "pinned"}, UpdateStatus(s, i, status, force)
      PROVE  TidyInv'
  BY <1>4, UpdateTidy
<1>5. ASSUME NEW s \in Session, NEW i \in Issue, ReopenIssue(s, i) \/ DeleteIssue(s, i)
      PROVE  TidyInv'
  BY <1>5, ReopenTidy, DeleteTidy
<1>6. ASSUME NEW s \in Session, NEW i \in Issue, NEW j \in Issue, RemoveDependency(s, i, j)
      PROVE  TidyInv'
  BY <1>6, RemoveTidy
<1>7. ASSUME NEW s \in Session, NEW e \in scenario.edges,
             AddDependency(s, e.from, e.to, e.row) \/ ReAddDependency(s, e.from, e.to, e.row)
      PROVE  TidyInv'
  BY <1>7, AddTidy, ReAddTidy
<1> QED BY <1>1, <1>2, <1>3, <1>4, <1>5, <1>6, <1>7, ZenonT(30) DEF Next

LEMMA TidyAlways == Spec => [](Tidy(scenario) => TidyInv)
<1> DEFINE Inv == IndInv /\ (Tidy(scenario) => TidyInv)
<1>1. Init => Inv
  BY Initial, InitTidy
<1>2. Inv /\ [Next]_vars => Inv'
  <2> SUFFICES ASSUME Inv, [Next]_vars PROVE Inv'
    OBVIOUS
  <2>1. IndInv'
    BY Inductive DEF StepIsGood
  <2>2. scenario' = scenario
    BY ScenarioStays
  <2>3. Tidy(scenario) => TidyInv'
    BY StepTidy
  <2> QED BY <2>1, <2>2, <2>3
<1>3. Inv => (Tidy(scenario) => TidyInv)
  OBVIOUS
<1> HIDE DEF Inv
<1> QED BY <1>1, <1>2, <1>3, PTL DEF Spec

(***************************************************************************)
(* On every tidy graph, for any number of issues, sessions and writes:     *)
(* once the rechecks have run, and unless a race with an adder or a        *)
(* given-up recheck is on record, the flags are those of the contract.     *)
(***************************************************************************)
THEOREM TidyFlagsSettle == Spec => [](Tidy(scenario) => FlagsSettle)
<1>1. Tidy(scenario) /\ TidyInv => FlagsSettle
  <2> SUFFICES ASSUME Tidy(scenario), TidyInv, Quiet, ~residue PROVE Flags(db) = ContractFlags(db)
    BY DEF FlagsSettle
  <2>1. \A i : ~Awaited(i)
    BY DEF Quiet, Awaited
  <2>2. Flags(db) = Due(db)
    BY <2>1 DEF TidyInv
  <2>3. TidyDB(scenario, db)
    BY DEF TidyInv
  <2> QED BY <2>2, <2>3, DueIsContract
<1>2. (Tidy(scenario) => TidyInv) => (Tidy(scenario) => FlagsSettle)
  BY <1>1
<1> QED BY <1>2, TidyAlways, PTL

(***************************************************************************)
(* On the same graphs, with rechecks pending or not: an open issue with a  *)
(* live reason of its own is flagged.                                      *)
(***************************************************************************)
THEOREM TidyReadyHasNoReason == Spec => [](Tidy(scenario) => ReadyHasNoReason)
<1>1. (Tidy(scenario) => TidyInv) => (Tidy(scenario) => ReadyHasNoReason)
  BY InDue, Zenon DEF TidyInv, ReadyHasNoReason
<1> QED BY <1>1, TidyAlways, PTL

=============================================================================
