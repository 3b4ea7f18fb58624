------------------------------- MODULE Blocked -------------------------------
(***************************************************************************)
(* The writes that move is_blocked, as concurrent Dolt transactions.  Each *)
(* recomputes the flags it can affect from its own snapshot, so two writes *)
(* can each leave a flag that is right for neither.  A write that takes a  *)
(* blocker away therefore records the rows it recomputed, and the store    *)
(* recomputes them once more in a second transaction after the commit      *)
(* (recheckBlockedAfterCommit).                                            *)
(*                                                                         *)
(* Cells that hold a fresh random value after every write (row_lock, and   *)
(* the coordination cell of a parent's children) are not stored: a         *)
(* transaction keeps the set of those cells that others have rewritten     *)
(* since its snapshot, which is all a commit asks of them.                 *)
(***************************************************************************)
EXTENDS BlockedOps

CONSTANTS
    Session,        \* connections that write
    NoTx,
    Scenarios       \* the graphs to start from, who does what to them, how often

Stamp == Issue \X {"row_lock", "children"}

Transaction ==
    [snap : DB, stamped : SUBSET Stamp, overtaken : BOOLEAN, adder : BOOLEAN]

ASSUME NoTxAssumption == NoTx \notin Transaction

ASSUME ScenariosAssumption ==
    \A z \in Scenarios :
        /\ z.db \in DB /\ z.writes \in Nat
        /\ \A e \in z.edges : {e.from, e.to} \subseteq Issue /\ e.row \in DepRow

VARIABLES
    scenario,
    db,             \* the committed issues and dependencies tables
    tx,             \* per session, its open transaction
    pending,        \* per session, what it has yet to recheck
    writes,
    residue         \* a flag may be stale, as BlockedRecheck's comment allows

vars == <<scenario, db, tx, pending, writes, residue>>

Init ==
    /\ scenario \in Scenarios
    /\ db = RecomputeAllIsBlocked(scenario.db)
    /\ tx = [s \in Session |-> NoTx]
    /\ pending = [s \in Session |-> {}]
    /\ writes = 0 /\ residue = FALSE

Begin(s) ==
    /\ s \in scenario.writers /\ tx[s] = NoTx
    /\ pending[s] # {} \/ writes < scenario.writes
    /\ tx' = [tx EXCEPT ![s] = [snap |-> db, stamped |-> {}, overtaken |-> FALSE, adder |-> FALSE]]
    /\ UNCHANGED <<scenario, db, pending, writes, residue>>

(* A refusal, a no-op, or a conflict, after which withRetryTx begins anew. *)
Rollback(s) ==
    /\ tx[s] # NoTx
    /\ tx' = [tx EXCEPT ![s] = NoTx]
    /\ UNCHANGED <<scenario, db, pending, writes, residue>>

(* The foreign keys: a commit may not leave a row that refers to none. *)
Dangling(d) ==
    \E i, j \in Issue : d.dependencies[<<i, j>>] # NoRow /\ ~({i, j} \subseteq Live(d))

(***************************************************************************)
(* tx.Commit of ours, which rewrote the cells in stamps: merged with what  *)
(* was committed since the snapshot, unless some cell conflicts.  adder    *)
(* says that the write may add a blocker and so records nothing.           *)
(***************************************************************************)
Commit(s, ours, stamps, adder) ==
    LET base == tx[s].snap
        merged == [issues |-> TableMerge(base.issues, ours.issues, db.issues),
                   dependencies |-> TableMerge(base.dependencies, ours.dependencies, db.dependencies)]
    IN  /\ ~TableConflict(base.issues, ours.issues, db.issues)
        /\ ~TableConflict(base.dependencies, ours.dependencies, db.dependencies)
        /\ stamps \cap tx[s].stamped = {}
        /\ ~Dangling(merged)
        /\ db' = merged
        /\ tx' = [z \in Session |->
                    IF z = s \/ tx[z] = NoTx THEN NoTx
                    ELSE [tx[z] EXCEPT !.stamped = @ \cup stamps, !.overtaken = TRUE,
                                       !.adder = @ \/ adder]]

(* Whether a blocker was added, or marked, while another write was open. *)
Raced(s, adder) == tx[s].overtaken /\ (adder \/ tx[s].adder)

(* A user's write: ours is its snapshot changed, recheck what it recorded. *)
Write(s, ours, stamps, adder, recheck) ==
    /\ tx[s] # NoTx /\ pending[s] = {} /\ writes < scenario.writes
    /\ Commit(s, ours, stamps, adder)
    /\ pending' = [pending EXCEPT ![s] = recheck]
    /\ writes' = writes + 1
    /\ residue' = (residue \/ Raced(s, adder))
    /\ UNCHANGED scenario

-----------------------------------------------------------------------------
Snap(s) == tx[s].snap

(***************************************************************************)
(* enforceClosePolicyForTargetInTx: force waives the open children and the *)
(* live blockers of a flagged issue, but not the rewrite of the            *)
(* coordination cell.                                                      *)
(***************************************************************************)
ClosePolicy(d, i, force) ==
    \/ force
    \/ /\ Children(d, {i}) \subseteq Closed(d)
       /\ i \in Flags(d) =>
            (Targets(d, {i}, "blocks") \cup Targets(d, {i}, "waits-for")) \cap Active(d) = {}

(* Mutant: the close rewrites the status in place of the coordination cell. *)
closeStamps_Status(i) == {<<i, "row_lock">>, <<i, "status">>}

(* Mutant: the coordination cell is left alone. *)
closeStamps_RowOnly(i) == {<<i, "row_lock">>}

closeStamps(i) == {<<i, "row_lock">>, <<i, "children">>}

(* Mutant: only the waiters are noted. *)
noteStatusChange_Waiters(d, affected, i) ==
    {z \in affected \ {i} : Targets(d, {z}, "waits-for") # {}}

(* NoteStatusChangeBlockedRecheck: all but the issue itself. *)
noteStatusChange(d, affected, i) == affected \ {i}

(* CloseIssueCheckedInTx; a pinned issue needs force. *)
CloseIssueChecked(s, i, force) ==
    /\ "close" \in scenario.ops /\ tx[s] # NoTx
    /\ i \in Live(Snap(s)) \ Closed(Snap(s)) /\ (i \in Active(Snap(s)) \/ force)
    /\ ClosePolicy(Snap(s), i, force)
    /\ LET affected == AffectedByStatusChange(Snap(s), i)
       IN Write(s, RecomputeIsBlocked(SetStatus(Snap(s), i, "closed"), affected),
                closeStamps(i), FALSE, noteStatusChange(Snap(s), affected, i))

(***************************************************************************)
(* UpdateIssueInTx with a status: closing answers to close policy, and the *)
(* flags follow when activity changes.                                     *)
(***************************************************************************)
UpdateStatus(s, i, status, force) ==
    /\ "update" \in scenario.ops /\ tx[s] # NoTx
    /\ i \in Live(Snap(s)) /\ Snap(s).issues[i].status # status
    /\ status = "closed" => ClosePolicy(Snap(s), i, force)
    /\ LET d == SetStatus(Snap(s), i, status)
           changed == (i \in Active(d)) # (i \in Active(Snap(s)))
           affected == AffectedByStatusChange(d, i)
       IN Write(s, IF changed THEN RecomputeIsBlocked(d, affected) ELSE d,
                IF status = "closed" THEN closeStamps(i) ELSE {<<i, "row_lock">>},
                changed /\ i \in Active(d),
                IF changed /\ i \notin Active(d) THEN noteStatusChange(d, affected, i) ELSE {})

ReopenIssue(s, i) ==
    /\ "reopen" \in scenario.ops /\ tx[s] # NoTx
    /\ i \in Closed(Snap(s))
    /\ Write(s, RecomputeIsBlocked(SetStatus(Snap(s), i, "open"), AffectedByStatusChange(Snap(s), i)),
             {<<i, "row_lock">>}, TRUE, {})

-----------------------------------------------------------------------------
(* CheckBlockingHierarchyInTx and CheckDependencyCycleInTx. *)
addRefused(d, i, j, type) ==
    \/ i = j
    \/ type = "blocks" /\ (j \in Reach(d, i, {"parent-child"}) \/ i \in Reach(d, j, {"parent-child"}))
    \/ type # "waits-for" /\ i \in Reach(d, j, {"blocks", "parent-child"})

(* Mutant: an add under a parent leaves the coordination cell alone. *)
addStamps_None(j, type) == {}

addStamps(j, type) == IF type = "parent-child" THEN {<<j, "children">>} ELSE {}

AddDependency(s, i, j, row) ==
    /\ "add" \in scenario.ops /\ tx[s] # NoTx
    /\ {i, j} \subseteq Live(Snap(s)) /\ Snap(s).dependencies[<<i, j>>] = NoRow
    /\ ~addRefused(Snap(s), i, j, row.type)
    /\ Write(s, markAfterAdd(SetRow(Snap(s), i, j, row), i, j, row.type),
             addStamps(j, row.type), TRUE, {})

(* The same add of an existing row replaces its metadata, and nothing else. *)
ReAddDependency(s, i, j, row) ==
    /\ "add" \in scenario.ops /\ tx[s] # NoTx
    /\ Has(Snap(s), i, j, row.type) /\ Snap(s).dependencies[<<i, j>>] # row
    /\ ~addRefused(Snap(s), i, j, row.type)
    /\ Write(s, SetRow(Snap(s), i, j, row), {}, TRUE, {})

RemoveDependency(s, i, j) ==
    /\ "remove" \in scenario.ops /\ tx[s] # NoTx
    /\ Snap(s).dependencies[<<i, j>>] # NoRow
    /\ LET d == SetRow(Snap(s), i, j, NoRow)
           affected == AffectedByDepChange(d, i, j, Snap(s).dependencies[<<i, j>>].type)
       IN Write(s, RecomputeIsBlocked(d, affected), {}, FALSE, affected)

DeleteIssue(s, i) ==
    /\ "delete" \in scenario.ops /\ tx[s] # NoTx
    /\ i \in Live(Snap(s))
    /\ LET affected == AffectedByDeletion(Snap(s), i)
       IN Write(s, RecomputeIsBlocked(Without(Snap(s), i), affected), {}, FALSE, affected)

-----------------------------------------------------------------------------
(* recheckBlockedAfterCommit: a transaction of its own, on a fresh snapshot. *)
RecheckBlocked(s) ==
    /\ tx[s] # NoTx /\ pending[s] # {}
    /\ Commit(s, RecomputeIsBlocked(Snap(s), pending[s]), {}, FALSE)
    /\ pending' = [pending EXCEPT ![s] = {}]
    /\ residue' = (residue \/ Raced(s, FALSE))
    /\ UNCHANGED <<scenario, writes>>

(* It gives up, or its process is gone: the failure is logged, not repaired. *)
AbandonRecheck(s) ==
    /\ "abandon" \in scenario.ops /\ tx[s] = NoTx /\ pending[s] # {}
    /\ pending' = [pending EXCEPT ![s] = {}]
    /\ residue' = TRUE
    /\ UNCHANGED <<scenario, db, tx, writes>>

(* bd recompute-blocked: RecomputeAllIsBlockedInTx, which may mark flags. *)
Repair(s) ==
    /\ tx[s] # NoTx /\ pending[s] = {} /\ residue
    /\ Commit(s, RecomputeAllIsBlocked(Snap(s)), {}, TRUE)
    /\ residue' = tx[s].overtaken
    /\ UNCHANGED <<scenario, pending, writes>>

Next ==
    \E s \in Session :
        \/ Begin(s) \/ Rollback(s) \/ RecheckBlocked(s) \/ AbandonRecheck(s) \/ Repair(s)
        \/ \E i \in Issue :
            \/ \E force \in BOOLEAN :
                \/ CloseIssueChecked(s, i, force)
                \/ \E status \in {"open", "closed", "pinned"} : UpdateStatus(s, i, status, force)
            \/ ReopenIssue(s, i) \/ DeleteIssue(s, i)
            \/ \E j \in Issue : RemoveDependency(s, i, j)
        \/ \E e \in scenario.edges :
            AddDependency(s, e.from, e.to, e.row) \/ ReAddDependency(s, e.from, e.to, e.row)

Spec == Init /\ [][Next]_vars

-----------------------------------------------------------------------------
(* Every variable has its type. *)
TypeOK ==
    /\ scenario \in Scenarios /\ db \in DB
    /\ tx \in [Session -> Transaction \cup {NoTx}]
    /\ pending \in [Session -> SUBSET Issue]
    /\ writes \in 0 .. scenario.writes /\ residue \in BOOLEAN

Quiet == \A s \in Session : pending[s] = {}

(***************************************************************************)
(* Once every recheck has run, each flag is what the contract derives from *)
(* the graph, however the writes interleaved, unless one that adds a       *)
(* blocker, or a repair, raced another, or a recheck was given up; and a   *)
(* repair that nothing overtook brings even those back.                    *)
(***************************************************************************)
FlagsSettle == Quiet /\ ~residue => Flags(db) = ContractFlags(db)

(***************************************************************************)
(* With rechecks still to run a flag errs one way only: an open issue that *)
(* has a live reason of its own is flagged, so bd ready never offers it,   *)
(* with the same exceptions.                                               *)
(***************************************************************************)
ReadyHasNoReason == ~residue => \A i \in Active(db) : reasons(db, i) # {} => i \in Flags(db)

(***************************************************************************)
(* A checked close counts children that no commit has added to since its   *)
(* snapshot, and an edge lands only under a parent that was not closed     *)
(* since: the two write one coordination cell, in either order.            *)
(***************************************************************************)
NoChildSlipsUnderClose ==
    [][\A s \in Session, p \in Issue : tx[s] # NoTx /\ tx'[s] = NoTx /\ db' # db =>
        /\ p \in Closed(db') /\ p \notin Closed(db) /\ pending[s] = {}
            => Children(db, {p}) \subseteq Children(Snap(s), {p})
        /\ Children(db', {p}) \ Children(db, {p}) # {}
            => (p \in Closed(db) => p \in Closed(Snap(s)))]_vars

=============================================================================
