------------------------------- MODULE LeaseOps -------------------------------
(***************************************************************************)
(* The operations on an issue's lifecycle and on its lease, each as the    *)
(* code of internal/storage/issueops runs it inside ONE transaction: from  *)
(* the rows the transaction sees to the rows it leaves.  Nothing here      *)
(* knows about concurrency; LeaseStore runs the operations one at a time,  *)
(* LeaseTx runs them in concurrent Dolt transactions.                      *)
(*                                                                         *)
(* An operation Op has a guard CanOp, the conditions under which the code  *)
(* writes anything, and a result Op, the tables after the write.  When the *)
(* guard fails the code returns a refusal or a no-op success and the       *)
(* transaction has written nothing.                                        *)
(***************************************************************************)
EXTENDS Naturals, DoltCells

CONSTANTS
    Issue,          \* issue ids
    Actor,          \* actor names, verbatim spellings
    Unassigned,     \* the empty (or NULL) assignee
    Canon,          \* canonicalActor: spelling -> identity
    Pools,          \* claim.pools: names whose issues anyone may claim
    ActiveCustom,   \* custom statuses of category "active"
    DoneCustom,     \* custom statuses of category "done"
    Node,           \* replica names that can be recorded in granted_node
    NoNode,         \* granted_node = ''
    RowLock,        \* values of the row_lock cell
    TTL,            \* lease duration
    Grace,          \* --older-than: how long past its expiry a lease is left alone
    MaxClock        \* bound on the clock

(***************************************************************************)
(* Actors and pool names are non-empty strings and Canon is defined on     *)
(* all of them; the empty assignee is none of them.                        *)
(***************************************************************************)
ASSUME ActorAssumption ==
    /\ Unassigned \notin Actor
    /\ Canon \in [Actor -> Actor]
    /\ Pools \subseteq Actor

ASSUME NodeAssumption == NoNode \notin Node

ASSUME TimeAssumption == TTL \in Nat \ {0} /\ Grace \in Nat /\ MaxClock \in Nat

Builtin == {"open", "in_progress", "closed", "deferred"}

(***************************************************************************)
(* "deferred" stands for every built-in status that is neither claimable   *)
(* nor done (deferred, blocked, pinned, hooked): the operations below      *)
(* treat those alike.                                                      *)
(***************************************************************************)
Status == Builtin \cup ActiveCustom \cup DoneCustom

ASSUME StatusAssumption ==
    /\ ActiveCustom \cap Builtin = {}
    /\ DoneCustom \cap Builtin = {}
    /\ ActiveCustom \cap DoneCustom = {}

Assignee == Actor \cup {Unassigned}

(***************************************************************************)
(* The lifecycle columns of the issues table, and the leases table.  A     *)
(* lease is keyed by its issue id and lives in a table of its own.         *)
(***************************************************************************)
IssueRow == [status : Status, assignee : Assignee, closed_at : BOOLEAN, row_lock : RowLock]

LeaseRow == [holder : Actor, expires : Nat, granted_node : Node \cup {NoNode}]

ASSUME NoRowAssumption == NoRow \notin IssueRow /\ NoRow \notin LeaseRow

DB == [issues : [Issue -> IssueRow \cup {NoRow}], leases : [Issue -> LeaseRow \cup {NoRow}]]

Exists(db, i) == db.issues[i] # NoRow

ActorMatches(a, b) == a = b \/ (a \in Actor /\ b \in Actor /\ Canon[a] = Canon[b])

(* A live claim by a: in_progress and assigned to a, up to spelling. *)
LiveClaim(row, a) == row # NoRow /\ row.status = "in_progress" /\ ActorMatches(row.assignee, a)

Put(db, i, row, lease) ==
    [issues |-> [db.issues EXCEPT ![i] = row], leases |-> [db.leases EXCEPT ![i] = lease]]

(* UpsertLeaseInTx: the whole row is rewritten, granting node included. *)
UpsertLease(holder, now, node) ==
    [holder |-> holder, expires |-> now + TTL, granted_node |-> node]

-------------------------------------------------------------------------------
(* Claiming *)

Claimable == {"open"} \cup ActiveCustom

(* Mutant: a claim that forgets to ask whose the issue is. *)
CanClaim_AnyAssignee(db, i, a) == Exists(db, i) /\ db.issues[i].status \in Claimable

CanClaim(db, i, a) ==
    /\ Exists(db, i)
    /\ db.issues[i].status \in Claimable
    /\ \/ db.issues[i].assignee = Unassigned
       \/ ActorMatches(db.issues[i].assignee, a)
       \/ db.issues[i].assignee \in Pools

(* Mutant: the lease goes to whoever the issue was assigned to before. *)
Claim_OldHolder(db, i, a, node, now, lk) ==
    Put(db, i,
        [db.issues[i] EXCEPT !.status = "in_progress", !.assignee = a, !.row_lock = lk],
        UpsertLease(db.issues[i].assignee, now, node))

Claim(db, i, a, node, now, lk) ==
    Put(db, i,
        [db.issues[i] EXCEPT !.status = "in_progress", !.assignee = a, !.row_lock = lk],
        UpsertLease(a, now, node))

(***************************************************************************)
(* bd ready --claim: only open, unassigned issues are candidates, and the  *)
(* first one that can be claimed is.                                       *)
(***************************************************************************)
CanClaimReady(db, i, a) ==
    CanClaim(db, i, a) /\ db.issues[i].status = "open" /\ db.issues[i].assignee = Unassigned

-------------------------------------------------------------------------------
(* Releasing *)

Released(row, lk) == [row EXCEPT !.status = "open", !.assignee = Unassigned, !.row_lock = lk]

CanUnclaim(db, i, a, force) ==
    /\ Exists(db, i)
    /\ db.issues[i].status \in {"open", "in_progress"}
    /\ db.issues[i].assignee # Unassigned
    /\ force \/ ActorMatches(db.issues[i].assignee, a)

Unclaim(db, i, lk) == Put(db, i, Released(db.issues[i], lk), NoRow)

(* The conditional release: expected is the holder the caller saw. *)
CanUnclaimIfAssignee(db, i, expected) ==
    /\ Exists(db, i)
    /\ db.issues[i].status \in {"open", "in_progress"}
    /\ ActorMatches(db.issues[i].assignee, expected)

-------------------------------------------------------------------------------
(* Heartbeats *)

HoldsLease(db, i, a) == db.leases[i] # NoRow /\ ActorMatches(db.leases[i].holder, a)

(***************************************************************************)
(* Both refresh paths: the caller's live claim has a lease row of its own. *)
(* Only the lease row is written; granted_node is filled in when empty.    *)
(***************************************************************************)
CanRefresh(db, i, a) == LiveClaim(db.issues[i], a) /\ HoldsLease(db, i, a)

Refresh(db, i, a, node, now) ==
    Put(db, i, db.issues[i],
        [holder |-> a, expires |-> now + TTL,
         granted_node |-> IF db.leases[i].granted_node = NoNode THEN node
                          ELSE db.leases[i].granted_node])

(* A live claim without a lease row of the caller's: one is granted. *)
CanRearm(db, i, a) == LiveClaim(db.issues[i], a) /\ ~HoldsLease(db, i, a)

(* Mutant: the re-arm writes the lease table only. *)
Rearm_LeaseOnly(db, i, a, node, now, lk) ==
    Put(db, i, db.issues[i], UpsertLease(a, now, node))

Rearm(db, i, a, node, now, lk) ==
    Put(db, i, [db.issues[i] EXCEPT !.row_lock = lk], UpsertLease(a, now, node))

(***************************************************************************)
(* The refused heartbeat deletes the caller's own orphaned lease row, and  *)
(* that transaction commits.  A missing issue is refused without commit.   *)
(***************************************************************************)
CanDropOrphan(db, i, a) == Exists(db, i) /\ ~LiveClaim(db.issues[i], a) /\ HoldsLease(db, i, a)

DropOrphan(db, i) == Put(db, i, db.issues[i], NoRow)

-------------------------------------------------------------------------------
(* Reclaiming abandoned claims *)

(***************************************************************************)
(* The leases a reclaim at cutoff may take: those expired before it, on an *)
(* in_progress issue.  Unless the guard is off (any: --any-replica, or the *)
(* local node has no name) only the local node's leases, or those that     *)
(* name no node, are eligible.                                             *)
(***************************************************************************)
Stale(db, cutoff, node, any) ==
    {i \in Issue :
        /\ Exists(db, i) /\ db.issues[i].status = "in_progress"
        /\ db.leases[i] # NoRow
        /\ db.leases[i].expires < cutoff
        /\ any \/ node = NoNode \/ db.leases[i].granted_node \in {NoNode, node}}

(* S is the part of the stale leases the caller's filter selects. *)
Reclaim(db, S, locks) ==
    [issues |-> [i \in Issue |-> IF i \in S THEN Released(db.issues[i], locks[i])
                                 ELSE db.issues[i]],
     leases |-> [i \in Issue |-> IF i \in S THEN NoRow ELSE db.leases[i]]]

-------------------------------------------------------------------------------
(* Closing, reopening, the generic update *)

DoneCategory == {"closed"} \cup DoneCustom

CanClose(db, i, a, force) ==
    /\ Exists(db, i)
    /\ db.issues[i].status # "closed"
    /\ force \/ db.issues[i].assignee = Unassigned \/ ActorMatches(db.issues[i].assignee, a)

Close(db, i, lk) ==
    Put(db, i,
        [db.issues[i] EXCEPT !.status = "closed", !.closed_at = TRUE, !.row_lock = lk],
        NoRow)

CanReopen(db, i) == Exists(db, i) /\ db.issues[i].status \in DoneCategory

(* Mutant: a reopen that keeps the row_lock of the closed row. *)
Reopen_KeepsLock(db, i, lk) ==
    Put(db, i, [db.issues[i] EXCEPT !.status = "open", !.closed_at = FALSE], NoRow)

Reopen(db, i, lk) ==
    Put(db, i,
        [db.issues[i] EXCEPT !.status = "open", !.closed_at = FALSE, !.row_lock = lk],
        NoRow)

(***************************************************************************)
(* wakeExpiredDefers reopens every issue whose defer date has passed, S of *)
(* the deferred ones, in one transaction; no lease is looked at.           *)
(***************************************************************************)
Deferred(db) == {i \in Issue : Exists(db, i) /\ db.issues[i].status = "deferred"}

Woken(row, lk) == [row EXCEPT !.status = "open", !.row_lock = lk]

Wake(db, S, locks) ==
    [issues |-> [i \in Issue |-> IF i \in S THEN Woken(db.issues[i], locks[i])
                                 ELSE db.issues[i]],
     leases |-> db.leases]

(* Mutant: only a change of status ends the claim. *)
LeaseAfterUpdate_StatusOnly(db, i, st, as) ==
    IF st = db.issues[i].status THEN db.leases[i] ELSE NoRow

(* ManageLeaseOnUpdate: an update that leaves the claim alone leaves its lease. *)
LeaseAfterUpdate(db, i, st, as) ==
    IF st = db.issues[i].status /\ as = db.issues[i].assignee THEN db.leases[i] ELSE NoRow

(* Mutant: leaving closed does not clear closed_at. *)
ClosedAtAfterUpdate_Sticky(row, st) == st = "closed" \/ row.closed_at

(* ManageClosedAt: set on close, cleared on leaving closed, else untouched. *)
ClosedAtAfterUpdate(row, st) ==
    IF st = "closed" THEN TRUE ELSE IF row.status = "closed" THEN FALSE ELSE row.closed_at

(***************************************************************************)
(* updateIssueInTx with status st and assignee as; an update of other      *)
(* columns only is the case where both are the stored ones.  An update     *)
(* with no effective column writes nothing and is not this operation.      *)
(***************************************************************************)
Update(db, i, st, as, lk) ==
    Put(db, i,
        [status |-> st, assignee |-> as, row_lock |-> lk,
         closed_at |-> ClosedAtAfterUpdate(db.issues[i], st)],
        LeaseAfterUpdate(db, i, st, as))

-------------------------------------------------------------------------------
(* Creating, importing, deleting *)

(***************************************************************************)
(* The lease a snapshot in status st carries: its expiry and granting      *)
(* node, or nothing.  The holder is not imported, it is the stored         *)
(* assignee; and only an in_progress row adopts one.                       *)
(***************************************************************************)
ImportedLease(st, horizon) ==
    {NoRow} \cup (IF st = "in_progress"
                 THEN [expires : 0..horizon, granted_node : Node \cup {NoNode}]
                 ELSE {})

(***************************************************************************)
(* RestoreLeaseOnImportInTx, given the row the import stored: the imported *)
(* lease is adopted by a live claim unless the local lease has not expired *)
(* yet; over an existing row, a lease the stored row does not back any     *)
(* more (the holder compared verbatim) is then dropped.                    *)
(***************************************************************************)
RestoreLease(row, lease, imported, now, isNew) ==
    LET adopts == /\ imported # NoRow
                  /\ row.status = "in_progress" /\ row.assignee # Unassigned
                  /\ lease = NoRow \/ lease.expires < now
        kept == IF adopts
                THEN [holder |-> row.assignee, expires |-> imported.expires,
                      granted_node |-> imported.granted_node]
                ELSE lease
        backed == kept # NoRow /\ row.status = "in_progress" /\ row.assignee = kept.holder
    IN  IF isNew \/ backed THEN kept ELSE NoRow

Coherent(row) == row.closed_at <=> row.status = "closed"

(* A new row, or a strictly newer snapshot written over the stored row. *)
Import(db, i, row, imported, now) ==
    Put(db, i, row, RestoreLease(row, db.leases[i], imported, now, ~Exists(db, i)))

(***************************************************************************)
(* A snapshot with the stored row's own timestamp: the stale guard keeps   *)
(* every stored column, row_lock included, and only the lease is restored. *)
(***************************************************************************)
ImportTie(db, i, imported, now) ==
    Put(db, i, db.issues[i], RestoreLease(db.issues[i], db.leases[i], imported, now, FALSE))

Delete(db, i) == Put(db, i, NoRow, NoRow)

=============================================================================
