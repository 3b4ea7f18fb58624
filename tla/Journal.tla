------------------------------- MODULE Journal -------------------------------
(***************************************************************************)
(* The events journal: transactions that record mutations, prunes, and     *)
(* consumers that tail the records behind a cursor.  Every transaction     *)
(* works on the snapshot it began with and is merged when it commits; the  *)
(* only thing that orders two writers is a conflict between what they      *)
(* wrote.                                                                  *)
(*                                                                         *)
(* Both tables are merged as Dolt merges them.  Journal rows are inserted  *)
(* and deleted but never updated.  Two transactions never write the same   *)
(* row: a row carries the state of the issue it is about.                  *)
(***************************************************************************)
EXTENDS JournalOps, Sequences

CONSTANTS Tx,           \* transactions, each used once; a retry is another one
          Consumer,     \* tailing consumers
          Limits,       \* values of --limit
          Befores,      \* values of --before
          MaxRecords,   \* bound: records per transaction
          MaxClock,     \* bound: the clock, in days
          Skew          \* how far a writer's clock is off, in days

ASSUME JournalAssumption ==
    /\ Limits \subseteq Nat /\ Befores \subseteq Nat
    /\ {MaxRecords, MaxClock, Skew} \subseteq Nat

VARIABLES journal,  \* bd_events_journal
          counter,  \* bd_events_seq.next_seq
          now,      \* the time, in days
          tx,       \* the state of each transaction
          hist,     \* history: every record in the order of its commit
          cursor,   \* per consumer, the last seq it has processed
          seen,     \* per consumer, the rows it was given
          lost      \* per consumer, the seqs it was told are gone

tables == <<journal, counter>>
tails == <<cursor, seen, lost>>
vars == <<tables, now, tx, hist, tails>>

Row == [seq : Nat, ts : Int, by : Tx]

(***************************************************************************)
(* rows0 and c0 are the tables as the transaction's snapshot shows them,   *)
(* rows and c as its own statements left them; log is what it recorded.    *)
(***************************************************************************)
TxState == [phase : {"new", "write", "prune", "done"},
            rows0 : SUBSET Row, c0 : Nat \cup {NoRow},
            rows : SUBSET Row, c : Nat \cup {NoRow}, log : Seq(Row)]

Closed(phase) == [phase |-> phase, rows0 |-> {}, c0 |-> NoRow,
                  rows |-> {}, c |-> NoRow, log |-> <<>>]

\* Migration 0064: an empty journal and a counter seeded at its high water.
Init ==
    /\ journal = {} /\ counter = 0
    /\ now = 0
    /\ tx = [t \in Tx |-> Closed("new")]
    /\ hist = <<>>
    /\ cursor = [k \in Consumer |-> 0]
    /\ seen = [k \in Consumer |-> {}]
    /\ lost = [k \in Consumer |-> {}]

Tick ==
    /\ now < MaxClock
    /\ now' = now + 1
    /\ UNCHANGED <<tables, tx, hist, tails>>

(***************************************************************************)
(* Writers.                                                                *)
(***************************************************************************)

BeginWrite(t) ==
    /\ tx[t].phase = "new"
    /\ tx' = [tx EXCEPT ![t] = [phase |-> "write", rows0 |-> journal, c0 |-> counter,
                                rows |-> journal, c |-> counter, log |-> <<>>]]
    /\ UNCHANGED <<tables, now, hist, tails>>

\* The ts comes from the writer's own clock.
Emit(t) ==
    /\ tx[t].phase = "write" /\ Len(tx[t].log) < MaxRecords
    /\ \E ts \in now - Skew .. now + Skew :
         LET q == EventSeq(tx[t].c, tx[t].rows)
             row == [seq |-> q, ts |-> ts, by |-> t]
         IN  tx' = [tx EXCEPT ![t].c = q, ![t].rows = @ \cup {row},
                              ![t].log = Append(@, row)]
    /\ UNCHANGED <<tables, now, hist, tails>>

(***************************************************************************)
(* bd events prune: the floors are resolved and the prefix deleted on the  *)
(* snapshot.                                                               *)
(***************************************************************************)
young == {r.seq : r \in {x \in journal : x.ts >= now - RetainDays}}

Prune(t, before) ==
    /\ tx[t].phase = "new"
    /\ tx' = [tx EXCEPT ![t] = [phase |-> "prune", rows0 |-> journal, c0 |-> counter,
                                rows |-> Kept(journal, young, before),
                                c |-> counter, log |-> <<>>]]
    /\ UNCHANGED <<tables, now, hist, tails>>

(***************************************************************************)
(* The commit of either.                                                   *)
(***************************************************************************)

Inserted(t) == tx[t].rows \ tx[t].rows0
Deleted(t) == tx[t].rows0 \ tx[t].rows

Conflict(t) ==
    \/ CellConflict(tx[t].c0, tx[t].c, counter)
    \/ \E r \in Inserted(t) \cup Deleted(t), q \in journal \ tx[t].rows0 :
          r.seq = q.seq /\ r # q

Commit(t) ==
    /\ tx[t].phase \in {"write", "prune"}
    /\ ~Conflict(t)
    /\ journal' = (journal \ Deleted(t)) \cup Inserted(t)
    /\ counter' = CellMerge(tx[t].c0, tx[t].c, counter)
    /\ hist' = hist \o tx[t].log
    /\ tx' = [tx EXCEPT ![t] = Closed("done")]
    /\ UNCHANGED <<now, tails>>

\* An error, a conflict, or a process that died before its commit.
Rollback(t) ==
    /\ tx[t].phase \in {"write", "prune"}
    /\ tx' = [tx EXCEPT ![t] = Closed("done")]
    /\ UNCHANGED <<tables, now, hist, tails>>

(***************************************************************************)
(* Consumers read in one transaction of their own.  What they do with a    *)
(* truncation error is what the error tells them: note the reported        *)
(* records as lost and resume from floor-1.                                *)
(***************************************************************************)

Read(k, limit) ==
    LET rows == readEventsRows(journal, cursor[k], limit)
        head == EventsHead(counter)
        floor == TruncationFloor(cursor[k], Seqs(rows), head)
        since == TruncationSince(cursor[k], Seqs(rows), head)
    IN
    /\ IF Contiguous(cursor[k], Seqs(rows), head)
       THEN /\ cursor' = [cursor EXCEPT ![k] = Greatest({@} \cup Seqs(rows))]
            /\ seen' = [seen EXCEPT ![k] = @ \cup rows]
            /\ UNCHANGED lost
       ELSE /\ cursor' = [cursor EXCEPT ![k] = floor - 1]
            /\ lost' = [lost EXCEPT ![k] = @ \cup since + 1 .. floor - 1]
            /\ UNCHANGED seen
    /\ UNCHANGED <<tables, now, tx, hist>>

Next ==
    \/ Tick
    \/ \E t \in Tx : \/ BeginWrite(t) \/ Emit(t) \/ Commit(t) \/ Rollback(t)
                     \/ \E before \in Befores : Prune(t, before)
    \/ \E k \in Consumer, limit \in Limits : Read(k, limit)

Spec == Init /\ [][Next]_vars

-----------------------------------------------------------------------------

\* Every variable has its type.
TypeOK ==
    /\ journal \subseteq Row
    /\ counter \in Nat \cup {NoRow}
    /\ now \in Nat
    /\ tx \in [Tx -> TxState]
    /\ hist \in Seq(Row)
    /\ cursor \in [Consumer -> Nat]
    /\ seen \in [Consumer -> SUBSET Row]
    /\ lost \in [Consumer -> SUBSET Nat]

(***************************************************************************)
(* The record contract of bd events tail: seqs are gapless, increase in    *)
(* commit order and are never used again, whatever the interleaving of     *)
(* writers, their rollbacks and the prunes.                                *)
(***************************************************************************)
SeqContract == \A i \in DOMAIN hist : hist[i].seq = i

(***************************************************************************)
(* Pruning only ever deletes a prefix: the table always holds exactly the  *)
(* newest records, also after the counter was damaged and healed.          *)
(***************************************************************************)
RetainedSuffix ==
    \E lo \in 1 .. Len(hist) + 1 : journal = {hist[i] : i \in lo .. Len(hist)}

(***************************************************************************)
(* A consumer that tails behind its cursor misses nothing in silence:      *)
(* every record committed up to its cursor was either given to it or named *)
(* in a truncation error.                                                  *)
(***************************************************************************)
NoSilentLoss ==
    \A k \in Consumer : \A i \in DOMAIN hist :
        hist[i].seq <= cursor[k] =>
            hist[i] \in seen[k] \/ hist[i].seq \in lost[k]

\* A truncation error names only records that were really pruned.
LossesAreReal ==
    \A k \in Consumer : \A r \in journal \cup seen[k] : r.seq \notin lost[k]

(***************************************************************************)
(* No commit removes one of the newest RetainRows rows, nor a row still    *)
(* younger than RetainDays, although the floors were resolved on an older  *)
(* snapshot and row timestamps need not increase with seq.                 *)
(***************************************************************************)
PruneSparesFloors ==
    [][\A r \in journal \ journal' :
         /\ Cardinality({q \in journal : q.seq > r.seq}) >= RetainRows
         /\ RetainDays > 0 => r.ts < now - RetainDays]_vars

(***************************************************************************)
(* The inductive invariant.  A row of the journal is the record committed  *)
(* under its seq, every later record is there too, and so is the newest: a *)
(* prune that keeps the newest row is what lets a writer with an outdated  *)
(* snapshot run into a conflict.                                           *)
(***************************************************************************)
RowsOf(rows, n) ==
    /\ \A r \in rows : r.seq \in 1 .. n /\ hist[r.seq] = r
    /\ \A r \in rows : \A j \in r.seq .. n : hist[j] \in rows
    /\ n > 0 => hist[n] \in rows

(***************************************************************************)
(* The counter is the head n, or damaged in a way that a writer notices:   *)
(* it is missing, or the seq after it is that of one of the newest         *)
(* RetainRows rows, which no prune may take away.                          *)
(***************************************************************************)
CounterOK(c, rows, n) ==
    c \notin {n, NoRow} => c \in 0 .. n - 1 /\ n - c <= RetainRows /\ hist[c + 1] \in rows

TablesOK ==
    /\ RowsOf(journal, Len(hist))
    /\ CounterOK(counter, journal, Len(hist))

(***************************************************************************)
(* An open transaction's snapshot was the journal at head h; what it has   *)
(* written is a continuation of it, or a suffix of it without any row that *)
(* a floor protects.  Nobody damages the counter under an open             *)
(* transaction, so once others have recorded something it is the head.     *)
(***************************************************************************)
SnapshotOK(t, h) ==
    /\ RowsOf(tx[t].rows0, h)
    /\ CounterOK(tx[t].c0, tx[t].rows0, h)
    /\ \A r \in journal : r.seq <= h => r \in tx[t].rows0
    /\ h = Len(hist) \/ counter = Len(hist)

WriteOK(t, h) ==
    /\ tx[t].c = IF tx[t].log = <<>> THEN tx[t].c0 ELSE h + Len(tx[t].log)
    /\ \A i \in DOMAIN tx[t].log :
          tx[t].log[i].seq = h + i /\ tx[t].log[i].by = t
    /\ tx[t].rows = tx[t].rows0 \cup {tx[t].log[i] : i \in DOMAIN tx[t].log}

PruneOK(t, h) ==
    /\ tx[t].c = tx[t].c0 /\ tx[t].log = <<>>
    /\ tx[t].rows \subseteq tx[t].rows0
    /\ RowsOf(tx[t].rows, h)
    /\ \A r \in tx[t].rows0 \ tx[t].rows :
          /\ r.seq + RetainRows <= h
          /\ RetainDays > 0 => r.ts < now - RetainDays

OpenOK(t, h) ==
    /\ SnapshotOK(t, h)
    /\ tx[t].phase = "write" => WriteOK(t, h)
    /\ tx[t].phase = "prune" => PruneOK(t, h)

TxOK ==
    \A t \in Tx :
        /\ tx[t].phase # "done" => \A i \in DOMAIN hist : hist[i].by # t
        /\ tx[t].phase \in {"write", "prune"} => \E h \in 0 .. Len(hist) : OpenOK(t, h)

TailOK ==
    \A k \in Consumer :
        /\ cursor[k] \in 0 .. Len(hist)
        /\ \A r \in seen[k] : r.seq <= cursor[k]
        /\ \A q \in lost[k] : q <= cursor[k]

IndInv ==
    TypeOK /\ SeqContract /\ TablesOK /\ TxOK /\ TailOK /\ NoSilentLoss /\ LossesAreReal

=============================================================================
