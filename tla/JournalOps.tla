----------------------------- MODULE JournalOps -----------------------------
(***************************************************************************)
(* The statements that issueops runs against the two tables of the events  *)
(* journal.  bd_events_journal is a set of rows, each with its primary key *)
(* seq; bd_events_seq is one cell, the last seq handed out, or NoRow when  *)
(* the counter row is missing.                                             *)
(***************************************************************************)
EXTENDS DoltCells, Integers, FiniteSets

CONSTANTS RetainDays,   \* events-journal-retain-days; 0 disables the floor
          RetainRows    \* events-journal-retain-rows; 0 disables the floor

ASSUME FloorsAreCounts == RetainDays \in Nat /\ RetainRows \in Nat

ASSUME NoRowIsNoNumber == NoRow \notin Int

Least(S) == CHOOSE x \in S : \A y \in S : x <= y
Greatest(S) == CHOOSE x \in S : \A y \in S : y <= x

Seqs(rows) == {r.seq : r \in rows}

(***************************************************************************)
(* Handing out a seq.                                                      *)
(***************************************************************************)

\* Mutant: the missing counter is seeded and not raised.
healEventSeqCounter_SeedOnly(c, rows) == IF c = NoRow THEN 0 ELSE c

\* INSERT IGNORE a zero counter, then raise it to the journal's MAX(seq).
healEventSeqCounter(c, rows) ==
    Greatest({IF c = NoRow THEN 0 ELSE c} \cup Seqs(rows))

\* The counter's value once it has been advanced, which is also the seq.
nextEventSeq(c, rows) ==
    1 + (IF c = NoRow THEN healEventSeqCounter(c, rows) ELSE c)

(***************************************************************************)
(* The seq insertEventRow files its row under.  A duplicate key says that  *)
(* the counter fell behind the journal: heal it and allocate once more.    *)
(***************************************************************************)
EventSeq(c, rows) ==
    LET q == nextEventSeq(c, rows)
    IN  IF q \in Seqs(rows)
        THEN nextEventSeq(healEventSeqCounter(q, rows), rows)
        ELSE q

\* readEventsHeadInTx: the counter, and 0 while its row is missing.
EventsHead(c) == IF c = NoRow THEN 0 ELSE c

(***************************************************************************)
(* Retention.  --before and both floors become one exclusive bound.        *)
(***************************************************************************)

\* The (RetainRows+1)-th newest seq; no element when there are fewer rows.
RowsCeil(seqs) ==
    {q \in seqs : Cardinality({p \in seqs : p > q}) = RetainRows}

\* Mutant: the floors are combined to the widest range.
EventsPruneBound_Widest(seqs, young, before) ==
    Greatest({before}
             \cup (IF RetainRows > 0 THEN {q + 1 : q \in RowsCeil(seqs)} ELSE {})
             \cup (IF RetainDays > 0 THEN young ELSE {}))

EventsPruneBound(seqs, young, before) ==
    Least({before}
          \cup (IF RetainRows > 0 THEN {q + 1 : q \in RowsCeil(seqs)} ELSE {})
          \cup (IF RetainDays > 0 THEN young ELSE {}))

EventsPruneSkips(seqs, young, before) ==
    \/ RetainRows > 0 /\ RowsCeil(seqs) = {}
    \/ EventsPruneBound(seqs, young, before) <= 1

\* Mutant: the age is a filter on each row instead of a bound.
Kept_AgeFilter(rows, young, before) ==
    IF RowsCeil(Seqs(rows)) = {}
    THEN rows
    ELSE {r \in rows : \/ r.seq \in young
                       \/ r.seq >= Least({before} \cup {q + 1 : q \in RowsCeil(Seqs(rows))})}

(***************************************************************************)
(* What PruneEventsInTx leaves of the rows; young holds the seqs whose ts  *)
(* is not older than the retain-days cutoff.                               *)
(***************************************************************************)
Kept(rows, young, before) ==
    IF EventsPruneSkips(Seqs(rows), young, before)
    THEN rows
    ELSE {r \in rows : r.seq >= EventsPruneBound(Seqs(rows), young, before)}

(***************************************************************************)
(* Reading.                                                                *)
(***************************************************************************)

\* WHERE seq > since ORDER BY seq LIMIT limit, where 0 means no limit.
readEventsRows(rows, since, limit) ==
    {r \in rows :
        /\ r.seq > since
        /\ \/ limit = 0
           \/ Cardinality({q \in Seqs(rows) : since < q /\ q <= r.seq}) <= limit}

\* The seqs that do not continue the checkpoint or the row before them.
Holes(since, seqs) == {q \in seqs : q - 1 \notin seqs \cup {since}}

\* Mutant: only the page itself is searched for a gap.
Contiguous_PageOnly(since, seqs, head) ==
    IF seqs = {} THEN since >= head ELSE Holes(Least(seqs) - 1, seqs) = {}

\* ComputeEventsTruncation returns nil.
Contiguous(since, seqs, head) ==
    IF seqs = {} THEN since >= head ELSE Holes(since, seqs) = {}

\* Mutant: the floor is the checkpoint itself.
TruncationFloor_Checkpoint(since, seqs, head) == since

\* The Floor and the Since of the error it returns otherwise.
TruncationFloor(since, seqs, head) ==
    IF seqs = {} THEN head + 1 ELSE Least(Holes(since, seqs))

\* Mutant: the loss is reported from the beginning of the journal.
TruncationSince_Start(since, seqs, head) == 0

TruncationSince(since, seqs, head) ==
    Greatest({since} \cup
             {q \in seqs : q < TruncationFloor(since, seqs, head)})

=============================================================================
