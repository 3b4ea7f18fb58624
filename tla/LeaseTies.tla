------------------------------ MODULE LeaseTies ------------------------------
(***************************************************************************)
(* LeaseTx with one more operation: the import of a snapshot whose         *)
(* timestamp equals the stored row's, or over an existing row with         *)
(* ConflictSkip.  Every stored column is kept, row_lock included, but the  *)
(* lease of the snapshot is still restored, so the transaction writes a    *)
(* lease row and no cell of the issue row.  Nothing makes it conflict with *)
(* a transaction that ends the claim and had no lease to delete.           *)
(***************************************************************************)
EXTENDS LeaseTx

TxImportTie(s) ==
    /\ tx[s] # NoTx
    /\ \E i \in Issue, now \in Instants(s) :
           /\ Exists(tx[s].snap, i)
           /\ \E imported \in ImportedLease(tx[s].snap.issues[i].status, clock + TTL) :
                  Commit(s, ImportTie(tx[s].snap, i, imported, now))

NextTies == Next \/ \E s \in Session : TxImportTie(s)

SpecTies == Init /\ [][NextTies]_vars

-------------------------------------------------------------------------------
(***************************************************************************)
(* What the row_lock still guarantees once lease rows can appear without a *)
(* row write: an unchanged row_lock means an unchanged issue row.          *)
(***************************************************************************)
RowLockGuardsRow ==
    \A s \in Session, i \in Issue :
        LET snap == tx[s].snap IN
        (/\ tx[s] # NoTx /\ Exists(snap, i) /\ Exists(db, i)
         /\ db.issues[i].row_lock = snap.issues[i].row_lock)
            => db.issues[i] = snap.issues[i]

=============================================================================
