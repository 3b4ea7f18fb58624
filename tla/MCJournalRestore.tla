-------------------------- MODULE MCJournalRestore ---------------------------
EXTENDS JournalRestore, TLC

\* Transactions differ only in name.
TxSymmetry == Permutations(Tx)

=============================================================================
