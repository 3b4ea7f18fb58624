----------------------------- MODULE MCJournal ------------------------------
EXTENDS Journal, TLC

\* Transactions differ only in name.
TxSymmetry == Permutations(Tx)

=============================================================================
