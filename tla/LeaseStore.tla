------------------------------ MODULE LeaseStore ------------------------------
(***************************************************************************)
(* What the issue store promises its callers: every operation takes effect *)
(* at one instant, on the rows as they are at that instant.  This is the   *)
(* serial store; LeaseTx, where operations run in concurrent transactions  *)
(* on stale snapshots, is shown to implement it.                           *)
(*                                                                         *)
(* The actions are stated on the tables before and after: row(i) is the    *)
(* row the operation leaves, from which its free arguments can be read.    *)
(***************************************************************************)
EXTENDS LeaseOps

VARIABLES
    db,             \* the committed issues and leases tables
    clock           \* wall-clock time

vars == <<db, clock>>

Init ==
    /\ db = [issues |-> [i \in Issue |-> NoRow], leases |-> [i \in Issue |-> NoRow]]
    /\ clock = 0

(* An operation reads the clock while it runs: the instant has come. *)
Instants == 0..clock

row(i) == db'.issues[i]

(* The row is rewritten, under a row_lock it did not have. *)
Remints(i) ==
    /\ row(i) \in IssueRow
    /\ Exists(db, i) => row(i).row_lock # db.issues[i].row_lock

ClaimIssue ==
    \E i \in Issue, a \in Actor, node \in Node \cup {NoNode}, now \in Instants :
        /\ CanClaim(db, i, a)
        /\ Remints(i)
        /\ db' = Claim(db, i, a, node, now, row(i).row_lock)

UnclaimIssue ==
    \E i \in Issue, a \in Actor, force \in BOOLEAN :
        /\ CanUnclaim(db, i, a, force)
        /\ Remints(i)
        /\ db' = Unclaim(db, i, row(i).row_lock)

(***************************************************************************)
(* A heartbeat keeps the claim and its row: it may extend the lease, spell *)
(* the holder the caller's way and name the node.                          *)
(***************************************************************************)
RefreshLease ==
    \E i \in Issue :
        LET lease == db'.leases[i] IN
        /\ db.leases[i] # NoRow
        /\ db' = Put(db, i, db.issues[i], lease)
        /\ lease \in LeaseRow /\ LiveClaim(db.issues[i], lease.holder)
        /\ lease.expires \in {db.leases[i].expires} \cup {now + TTL : now \in Instants}

RearmLease ==
    \E i \in Issue, a \in Actor, node \in Node \cup {NoNode}, now \in Instants :
        /\ CanRearm(db, i, a)
        /\ Remints(i)
        /\ db' = Rearm(db, i, a, node, now, row(i).row_lock)

ReclaimExpired ==
    \E now \in Instants, node \in Node \cup {NoNode}, any \in BOOLEAN :
        /\ now >= Grace
        /\ \E S \in SUBSET Stale(db, now - Grace, node, any) :
               /\ \A i \in S : Remints(i)
               /\ db' = Reclaim(db, S, [i \in S |-> row(i).row_lock])

CloseIssue ==
    \E i \in Issue, a \in Actor, force \in BOOLEAN :
        /\ CanClose(db, i, a, force)
        /\ Remints(i)
        /\ db' = Close(db, i, row(i).row_lock)

ReopenIssue ==
    \E i \in Issue :
        /\ CanReopen(db, i)
        /\ Remints(i)
        /\ db' = Reopen(db, i, row(i).row_lock)

WakeDefer ==
    \E S \in SUBSET Deferred(db) :
        /\ \A i \in S : Remints(i)
        /\ db' = Wake(db, S, [i \in S |-> row(i).row_lock])

UpdateIssue ==
    \E i \in Issue :
        /\ Exists(db, i)
        /\ Remints(i)
        /\ db' = Update(db, i, row(i).status, row(i).assignee, row(i).row_lock)

(***************************************************************************)
(* An import may leave any coherent row.  Which lease it leaves depends on *)
(* the clock and on a race with heartbeats; the promise is that there is   *)
(* none, or one the imported row backs.                                    *)
(***************************************************************************)
ImportIssue ==
    \E i \in Issue :
        /\ Remints(i)
        /\ Coherent(row(i))
        /\ db' = Put(db, i, row(i), db'.leases[i])
        /\ \/ db'.leases[i] = NoRow
           \/ db'.leases[i] \in LeaseRow /\ LiveClaim(row(i), db'.leases[i].holder)

DeleteIssue == \E i \in Issue : Exists(db, i) /\ db' = Delete(db, i)

Operation ==
    \/ ClaimIssue \/ UnclaimIssue \/ RefreshLease \/ RearmLease \/ ReclaimExpired
    \/ CloseIssue \/ ReopenIssue \/ WakeDefer \/ UpdateIssue \/ ImportIssue \/ DeleteIssue

Tick == clock < MaxClock /\ clock' = clock + 1 /\ UNCHANGED db

Next == Tick \/ (Operation /\ UNCHANGED clock)

Spec == Init /\ [][Next]_vars

=============================================================================
