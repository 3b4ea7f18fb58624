-------------------------------- MODULE LeaseTx --------------------------------
(***************************************************************************)
(* The operations of LeaseOps as the store really runs them: withRetryTx   *)
(* opens a Dolt transaction, the operation reads and writes that           *)
(* transaction's snapshot, and the commit merges its cells into whatever   *)
(* other sessions committed meanwhile (DoltCells).  Sessions are bd        *)
(* processes or pooled connections; nothing else keeps them apart, so what *)
(* protects a claim is which cells each operation writes.  In particular   *)
(* every operation that rewrites an issue row stores a value in row_lock   *)
(* that no other writer stores.                                            *)
(*                                                                         *)
(* What an operation does depends only on its snapshot, so a transaction   *)
(* is its snapshot and its start time, and the operation is chosen when it *)
(* commits.                                                                *)
(***************************************************************************)
EXTENDS LeaseOps

CONSTANTS
    Session,        \* concurrent connections
    NoTx,           \* a session outside any transaction
    Mintable(_)     \* the values freshRowLock may return, among unused ones

ASSUME MintAssumption == \A K \in SUBSET RowLock : Mintable(K) \subseteq K

VARIABLES
    db,             \* the committed issues and leases tables
    clock,          \* wall-clock time
    tx              \* per session, its open transaction

vars == <<db, clock, tx>>

Transaction == [snap : DB, began : Nat]

ASSUME NoTxAssumption == NoTx \notin Transaction

Init ==
    /\ db = [issues |-> [i \in Issue |-> NoRow], leases |-> [i \in Issue |-> NoRow]]
    /\ clock = 0
    /\ tx = [s \in Session |-> NoTx]

Tick == clock < MaxClock /\ clock' = clock + 1 /\ UNCHANGED <<db, tx>>

Begin(s) ==
    /\ tx[s] = NoTx
    /\ tx' = [tx EXCEPT ![s] = [snap |-> db, began |-> clock]]
    /\ UNCHANGED <<db, clock>>

(***************************************************************************)
(* The transaction ends without writing: a refusal, a no-op, an error, or  *)
(* a commit conflict, after which withRetryTx begins a new one.            *)
(***************************************************************************)
Rollback(s) ==
    /\ tx[s] # NoTx
    /\ tx' = [tx EXCEPT ![s] = NoTx]
    /\ UNCHANGED <<db, clock>>

(* Mutant: the lease table takes no part in conflict detection. *)
Conflict_IssuesOnly(base, ours) == TableConflict(base.issues, ours.issues, db.issues)

Conflict(base, ours) ==
    \/ TableConflict(base.issues, ours.issues, db.issues)
    \/ TableConflict(base.leases, ours.leases, db.leases)

Commit(s, ours) ==
    LET base == tx[s].snap IN
    /\ ~Conflict(base, ours)
    /\ db' = [issues |-> TableMerge(base.issues, ours.issues, db.issues),
              leases |-> TableMerge(base.leases, ours.leases, db.leases)]
    /\ tx' = [tx EXCEPT ![s] = NoTx]
    /\ UNCHANGED clock

(***************************************************************************)
(* freshRowLock: 63 random bits.  Two mints are taken never to coincide:   *)
(* the value is one that neither the tables nor any open snapshot holds.   *)
(***************************************************************************)
LocksOf(d) == {d.issues[i].row_lock : i \in {j \in Issue : Exists(d, j)}}

UsedLocks == LocksOf(db) \cup UNION {LocksOf(tx[s].snap) : s \in {z \in Session : tx[z] # NoTx}}

FreshLocks == Mintable(RowLock \ UsedLocks)

Instants(s) == tx[s].began..clock

-------------------------------------------------------------------------------
TxClaim(s) ==
    /\ tx[s] # NoTx
    /\ \E i \in Issue, a \in Actor, node \in Node \cup {NoNode},
          now \in Instants(s), lk \in FreshLocks :
           /\ CanClaim(tx[s].snap, i, a)
           /\ Commit(s, Claim(tx[s].snap, i, a, node, now, lk))

TxClaimReady(s) ==
    /\ tx[s] # NoTx
    /\ \E i \in Issue, a \in Actor, node \in Node \cup {NoNode},
          now \in Instants(s), lk \in FreshLocks :
           /\ CanClaimReady(tx[s].snap, i, a)
           /\ Commit(s, Claim(tx[s].snap, i, a, node, now, lk))

TxUnclaim(s) ==
    /\ tx[s] # NoTx
    /\ \E i \in Issue, a \in Actor, force \in BOOLEAN, lk \in FreshLocks :
           /\ CanUnclaim(tx[s].snap, i, a, force)
           /\ Commit(s, Unclaim(tx[s].snap, i, lk))

TxUnclaimIfAssignee(s) ==
    /\ tx[s] # NoTx
    /\ \E i \in Issue, expected \in Actor, lk \in FreshLocks :
           /\ CanUnclaimIfAssignee(tx[s].snap, i, expected)
           /\ Commit(s, Unclaim(tx[s].snap, i, lk))

TxRefresh(s) ==
    /\ tx[s] # NoTx
    /\ \E i \in Issue, a \in Actor, node \in Node \cup {NoNode}, now \in Instants(s) :
           /\ CanRefresh(tx[s].snap, i, a)
           /\ Commit(s, Refresh(tx[s].snap, i, a, node, now))

TxRearm(s) ==
    /\ tx[s] # NoTx
    /\ \E i \in Issue, a \in Actor, node \in Node \cup {NoNode},
          now \in Instants(s), lk \in FreshLocks :
           /\ CanRearm(tx[s].snap, i, a)
           /\ Commit(s, Rearm(tx[s].snap, i, a, node, now, lk))

TxDropOrphan(s) ==
    /\ tx[s] # NoTx
    /\ \E i \in Issue, a \in Actor :
           /\ CanDropOrphan(tx[s].snap, i, a)
           /\ Commit(s, DropOrphan(tx[s].snap, i))

(***************************************************************************)
(* One bd reclaim: a single transaction reverts every selected issue, so a *)
(* conflict on any of them replays them all.                               *)
(***************************************************************************)
TxReclaim(s) ==
    /\ tx[s] # NoTx
    /\ \E now \in Instants(s), node \in Node \cup {NoNode}, any \in BOOLEAN :
           /\ now >= Grace
           /\ \E S \in SUBSET Stale(tx[s].snap, now - Grace, node, any) :
                  \E locks \in [S -> FreshLocks] :
                      /\ S # {}
                      /\ Commit(s, Reclaim(tx[s].snap, S, locks))

TxClose(s) ==
    /\ tx[s] # NoTx
    /\ \E i \in Issue, a \in Actor, force \in BOOLEAN, lk \in FreshLocks :
           /\ CanClose(tx[s].snap, i, a, force)
           /\ Commit(s, Close(tx[s].snap, i, lk))

TxReopen(s) ==
    /\ tx[s] # NoTx
    /\ \E i \in Issue, lk \in FreshLocks :
           /\ CanReopen(tx[s].snap, i)
           /\ Commit(s, Reopen(tx[s].snap, i, lk))

TxWake(s) ==
    /\ tx[s] # NoTx
    /\ \E S \in SUBSET Deferred(tx[s].snap) :
           \E locks \in [S -> FreshLocks] :
               /\ S # {}
               /\ Commit(s, Wake(tx[s].snap, S, locks))

TxUpdate(s) ==
    /\ tx[s] # NoTx
    /\ \E i \in Issue, st \in Status, as \in Assignee, lk \in FreshLocks :
           /\ Exists(tx[s].snap, i)
           /\ Commit(s, Update(tx[s].snap, i, st, as, lk))

(***************************************************************************)
(* A created row, or a snapshot strictly newer than the stored row.        *)
(***************************************************************************)
TxImport(s) ==
    /\ tx[s] # NoTx
    /\ \E i \in Issue, st \in Status, as \in Assignee, now \in Instants(s), lk \in FreshLocks :
           \E imported \in ImportedLease(st, clock + TTL) :
               Commit(s, Import(tx[s].snap, i,
                                [status |-> st, assignee |-> as, closed_at |-> st = "closed",
                                 row_lock |-> lk],
                                imported, now))

TxDelete(s) ==
    /\ tx[s] # NoTx
    /\ \E i \in Issue : Exists(tx[s].snap, i) /\ Commit(s, Delete(tx[s].snap, i))

Writes(s) ==
    \/ TxClaim(s) \/ TxClaimReady(s) \/ TxUnclaim(s) \/ TxUnclaimIfAssignee(s)
    \/ TxRefresh(s) \/ TxRearm(s) \/ TxDropOrphan(s) \/ TxReclaim(s)
    \/ TxClose(s) \/ TxReopen(s) \/ TxWake(s) \/ TxUpdate(s) \/ TxImport(s) \/ TxDelete(s)

Next == Tick \/ \E s \in Session : Begin(s) \/ Rollback(s) \/ Writes(s)

Spec == Init /\ [][Next]_vars

-------------------------------------------------------------------------------
(* The tables hold rows of their types and every open snapshot is a past one. *)
TypeOK ==
    /\ db \in DB
    /\ clock \in 0..MaxClock
    /\ tx \in [Session -> Transaction \cup {NoTx}]
    /\ \A s \in Session : tx[s] # NoTx => tx[s].began <= clock

LeasesBacked(d) ==
    \A i \in Issue : d.leases[i] # NoRow => LiveClaim(d.issues[i], d.leases[i].holder)

(***************************************************************************)
(* The lease table never outlives a claim: a lease row exists only while   *)
(* its issue is in_progress and assigned to the row's holder (up to        *)
(* spelling).  No interleaving of a heartbeat with a close, unclaim,       *)
(* update, import, delete or reclaim may leave an orphan behind.           *)
(***************************************************************************)
LeaseBacksLiveClaim == LeasesBacked(db)

(***************************************************************************)
(* Cell merges never tear a row: closed_at is set exactly on closed rows,  *)
(* though it and status are cells that different sessions write.           *)
(***************************************************************************)
ClosedAtCoherent == \A i \in Issue : Exists(db, i) => Coherent(db.issues[i])

(***************************************************************************)
(* RowVersion is a CAS token: as long as the committed row_lock is the one *)
(* a transaction read, the row is the row it read, and the issue has a     *)
(* lease if and only if it had one.                                        *)
(***************************************************************************)
RowVersionIdentifiesRow ==
    \A s \in Session, i \in Issue :
        LET snap == tx[s].snap IN
        (/\ tx[s] # NoTx /\ Exists(snap, i) /\ Exists(db, i)
         /\ db.issues[i].row_lock = snap.issues[i].row_lock)
            => /\ db.issues[i] = snap.issues[i]
               /\ (snap.leases[i] = NoRow) <=> (db.leases[i] = NoRow)

(* The inductive invariant: the above, of the tables and of open snapshots. *)
SnapshotsBacked == \A s \in Session : tx[s] # NoTx => LeasesBacked(tx[s].snap)

IndInv == TypeOK /\ LeaseBacksLiveClaim /\ SnapshotsBacked /\ RowVersionIdentifiesRow

(***************************************************************************)
(* A heartbeat rescues its claim from a concurrent reclaim: whatever a     *)
(* reclaim decided on its snapshot, an issue it reverts has, at the commit *)
(* itself, a lease that is more than Grace past its expiry.                *)
(***************************************************************************)
ReclaimSparesLiveLeases ==
    [][\A s \in Session, i \in Issue :
           (db'.issues[i] # db.issues[i] /\ tx'[s] # tx[s] /\ TxReclaim(s))
               => db.leases[i] # NoRow /\ db.leases[i].expires + Grace < clock]_vars

(***************************************************************************)
(* Two racing claims have one winner: a claim commits only over a row that *)
(* is still claimable and still free for that actor when it commits.       *)
(***************************************************************************)
ClaimTakesOnlyFreeIssues ==
    [][\A s \in Session, i \in Issue :
           (db'.issues[i] # db.issues[i] /\ tx'[s] # tx[s] /\ (TxClaim(s) \/ TxClaimReady(s)))
               => /\ db.issues[i].status \in Claimable
                  /\ \/ db.issues[i].assignee \in Pools \cup {Unassigned}
                     \/ ActorMatches(db.issues[i].assignee, db'.issues[i].assignee)]_vars

(***************************************************************************)
(* Concurrent transactions implement the serial store: every commit is one *)
(* operation applied to the tables as they are at the commit.              *)
(***************************************************************************)
Serial == INSTANCE LeaseStore

SerialStore == Serial!Spec

=============================================================================
