--------------------------- MODULE JournalRestore ---------------------------
(***************************************************************************)
(* The journal under the accident insertEventRow and nextEventSeq repair:  *)
(* the counter row disappears, or comes back from a backup, a copy or a    *)
(* hand edit with a value behind the journal.  That is done to a database  *)
(* at rest, never under an open transaction.                               *)
(***************************************************************************)
EXTENDS Journal

CONSTANT MaxFaults      \* bound: how often the counter is damaged

VARIABLE faults         \* how often it has been

varsRestore == <<vars, faults>>

Damage(c) ==
    /\ \A t \in Tx : tx[t].phase \in {"new", "done"}
    /\ faults < MaxFaults /\ faults' = faults + 1
    /\ counter' = c
    /\ UNCHANGED <<journal, now, tx, hist, tails>>

LoseCounter == counter # NoRow /\ Damage(NoRow)

(***************************************************************************)
(* The restored value is old, yet the seq after it is one of the newest    *)
(* RetainRows, which no prune removes before a writer runs into it.        *)
(***************************************************************************)
RestoreRecent ==
    \E r \in journal :
       /\ Cardinality({q \in journal : q.seq > r.seq}) < RetainRows
       /\ r.seq - 1 # counter
       /\ Damage(r.seq - 1)

\* The restored value may be any the counter once had.
RestoreOld == \E i \in DOMAIN hist : i - 1 # counter /\ Damage(i - 1)

InitRestore == Init /\ faults = 0

NextHealed ==
    \/ Next /\ UNCHANGED faults
    \/ LoseCounter
    \/ RestoreRecent

SpecHealed == InitRestore /\ [][NextHealed]_varsRestore

NextStale ==
    \/ Next /\ UNCHANGED faults
    \/ RestoreOld

SpecStale == InitRestore /\ [][NextStale]_varsRestore

=============================================================================
