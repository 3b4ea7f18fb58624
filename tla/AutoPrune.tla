------------------------------ MODULE AutoPrune ------------------------------
(***************************************************************************)
(* Automatic retention of the events journal.  A pass is a series of       *)
(* transactions of its own: read the throttle, stamp the watermark,        *)
(* resolve the bound, delete below it a batch at a time.  Passes run in    *)
(* several processes at once, are interleaved with the writers, and may    *)
(* die between any two of their transactions.                              *)
(*                                                                         *)
(* Time is kept as ages, which saturate once they no longer matter, so     *)
(* that it can run for ever.  A pass is over within its 30 second budget:  *)
(* at most one tick falls inside it.                                       *)
(***************************************************************************)
EXTENDS JournalOps

CONSTANTS Maintainer,   \* processes that run passes
          Batch,        \* EventsAutoPruneBatchRows
          MaxBatches,   \* EventsAutoPruneMaxBatches
          Interval,     \* DefaultAutoPruneInterval, in ticks
          VolumeRows,   \* DefaultAutoPruneVolumeRows
          Tolerance,    \* autoPruneClockSkewTolerance, in ticks
          Skew,         \* how far clocks are off, in ticks
          NoMark,       \* local_metadata holds no usable watermark
          MaxSeq,       \* bound: records ever written
          MaxFails      \* bound: passes that fail or time out

ASSUME ThrottleAssumption ==
    /\ Batch \in Nat \ {0} /\ MaxBatches \in Nat \ {0}
    /\ Interval \in Nat \ (0 .. 2) /\ VolumeRows \in Nat \ {0}
    /\ {Tolerance, Skew, MaxSeq, MaxFails} \subseteq Nat
    /\ NoMark \notin [age : Int, head : Nat]

VARIABLES rows,     \* bd_events_journal: [seq, age]
          head,     \* bd_events_seq.next_seq
          mark,     \* the watermark: [age, head]
          pass,     \* per maintainer, the pass it runs
          fails     \* how many passes failed

vars == <<rows, head, mark, pass, fails>>

OldAge == RetainDays + 2                \* older than any cutoff
FarFuture == -(Tolerance + 2)           \* a time that will not come: a broken clock

NoPass == [step |-> "idle", head |-> 0, bound |-> 0, batches |-> 0, aged |-> FALSE]

Init ==
    /\ rows = {} /\ head = 0
    /\ mark \in {NoMark, [age |-> FarFuture, head |-> 0]}
    /\ pass = [p \in Maintainer |-> NoPass]
    /\ fails = 0

\* A journaled mutation commits; its ts comes from the writer's clock.
Append ==
    /\ head < MaxSeq
    /\ head' = head + 1
    /\ \E age \in -Skew .. Skew : rows' = rows \cup {[seq |-> head', age |-> age]}
    /\ UNCHANGED <<mark, pass, fails>>

Older(age, cap) == IF age < cap THEN age + 1 ELSE age

Tick ==
    /\ \A p \in Maintainer : ~pass[p].aged
    /\ rows' = {[r EXCEPT !.age = Older(@, OldAge)] : r \in rows}
    /\ mark' = IF mark \in {NoMark, [age |-> FarFuture, head |-> 0]}
               THEN mark
               ELSE [mark EXCEPT !.age = Older(@, Interval)]
    /\ pass' = [p \in Maintainer |-> [pass[p] EXCEPT !.aged = pass[p].step # "idle"]]
    /\ UNCHANGED <<head, fails>>

\* Mutant: a watermark in the far future is taken at its word.
autoPruneDue_TrustsClock ==
    mark # NoMark => mark.age >= Interval \/ head - mark.head >= VolumeRows

\* A missing or far-future watermark, the interval, or the volume.
autoPruneDue ==
    mark # NoMark => \/ mark.age \notin -Tolerance .. Interval - 1
                     \/ head - mark.head >= VolumeRows

\* Nothing is stored when no pass is due.
CheckDue(p) ==
    /\ pass[p].step = "idle"
    /\ RetainDays > 0 \/ RetainRows > 0
    /\ autoPruneDue /\ head > 0
    /\ pass' = [pass EXCEPT ![p] = [NoPass EXCEPT !.step = "stamp", !.head = head]]
    /\ UNCHANGED <<rows, head, mark, fails>>

\* Mutant: INSERT IGNORE, an existing watermark is kept.
Stamp_KeepsOld(p) ==
    /\ pass[p].step = "stamp"
    /\ mark' = IF mark = NoMark THEN [age |-> 0, head |-> pass[p].head] ELSE mark
    /\ pass' = [pass EXCEPT ![p].step = "bound"]
    /\ UNCHANGED <<rows, head, fails>>

\* The stamp carries the time and the head of the check.
Stamp(p) ==
    /\ pass[p].step = "stamp"
    /\ mark' = [age |-> IF pass[p].aged THEN 1 ELSE 0, head |-> pass[p].head]
    /\ pass' = [pass EXCEPT ![p].step = "bound"]
    /\ UNCHANGED <<rows, head, fails>>

\* Mutant: a row exactly at the cutoff counts as old.
young_OffByOne(p) ==
    {r.seq : r \in {x \in rows : x.age < RetainDays + (IF pass[p].aged THEN 1 ELSE 0)}}

\* The rows that are young at the time the pass took from the clock.
young(p) ==
    {r.seq : r \in {x \in rows : x.age <= RetainDays + (IF pass[p].aged THEN 1 ELSE 0)}}

ResolveBound(p) ==
    /\ pass[p].step = "bound"
    /\ pass' = [pass EXCEPT ![p] =
                  IF EventsPruneSkips(Seqs(rows), young(p), head + 1)
                  THEN NoPass
                  ELSE [@ EXCEPT !.step = "delete",
                                 !.bound = EventsPruneBound(Seqs(rows), young(p), head + 1)]]
    /\ UNCHANGED <<rows, head, mark, fails>>

\* Mutant: ORDER BY seq DESC.
BatchBelow_NewestFirst(bound) ==
    {r \in rows : /\ r.seq < bound
                  /\ Cardinality({x \in rows : r.seq < x.seq /\ x.seq < bound}) < Batch}

\* DELETE ... WHERE seq < bound ORDER BY seq ASC LIMIT Batch
BatchBelow(bound) ==
    {r \in rows : /\ r.seq < bound
                  /\ Cardinality({x \in rows : x.seq < r.seq}) < Batch}

\* Mutant: a pass goes on until a batch is short.
DeleteBatch_NoCap(p) ==
    LET gone == BatchBelow(pass[p].bound)
        more == Cardinality(gone) = Batch
    IN
    /\ pass[p].step = "delete"
    /\ rows' = rows \ gone
    /\ pass' = [pass EXCEPT ![p] = IF more THEN [pass[p] EXCEPT !.batches = @ + 1] ELSE NoPass]
    /\ UNCHANGED <<head, mark, fails>>

DeleteBatch(p) ==
    LET gone == BatchBelow(pass[p].bound)
        more == Cardinality(gone) = Batch /\ pass[p].batches + 1 < MaxBatches
    IN
    /\ pass[p].step = "delete"
    /\ rows' = rows \ gone
    /\ pass' = [pass EXCEPT ![p] = IF more THEN [pass[p] EXCEPT !.batches = @ + 1] ELSE NoPass]
    /\ UNCHANGED <<head, mark, fails>>

\* A lost race, an error, the timeout, or the end of the process.
Fail(p) ==
    /\ pass[p].step # "idle" /\ fails < MaxFails
    /\ fails' = fails + 1
    /\ pass' = [pass EXCEPT ![p] = NoPass]
    /\ UNCHANGED <<rows, head, mark>>

PassStep(p) == CheckDue(p) \/ Stamp(p) \/ ResolveBound(p) \/ DeleteBatch(p)

Next == Append \/ Tick \/ \E p \in Maintainer : PassStep(p) \/ Fail(p)

(***************************************************************************)
(* Time passes, and bd serve asks on every tick of its timer whether a     *)
(* pass is due; a pass that has begun goes on to its end or fails.         *)
(***************************************************************************)
Spec ==
    /\ Init /\ [][Next]_vars
    /\ WF_vars(Tick) /\ \A p \in Maintainer : WF_vars(PassStep(p))

-----------------------------------------------------------------------------

\* Every variable has its type.
TypeOK ==
    /\ rows \subseteq [seq : 1 .. MaxSeq, age : -Skew .. OldAge + Skew]
    /\ head \in 0 .. MaxSeq
    /\ mark \in [age : FarFuture .. Interval, head : 0 .. MaxSeq] \cup {NoMark}
    /\ pass \in [Maintainer -> [step : {"idle", "stamp", "bound", "delete"},
                                head : 0 .. MaxSeq, bound : 0 .. MaxSeq + 1,
                                batches : 0 .. MaxBatches - 1, aged : BOOLEAN]]
    /\ fails \in 0 .. MaxFails

(***************************************************************************)
(* However batches of several passes interleave, with each other and with  *)
(* writers, what is left is the newest records without a hole, and the     *)
(* newest of all is among them.                                            *)
(***************************************************************************)
SuffixLeft == \E lo \in 1 .. head + 1 : /\ Seqs(rows) = lo .. head
                                        /\ RetainRows > 0 /\ head > 0 => lo <= head

(***************************************************************************)
(* No batch deletes one of the newest RetainRows rows or a row younger     *)
(* than RetainDays, although the bound was resolved in an earlier          *)
(* transaction.                                                            *)
(***************************************************************************)
BatchSparesFloors ==
    [][\A r \in rows : r.seq \notin Seqs(rows') =>
         /\ Cardinality({x \in rows : x.seq > r.seq}) >= RetainRows
         /\ RetainDays > 0 => r.age > RetainDays]_vars

(***************************************************************************)
(* A pass works only behind a stamp that is already committed, so that     *)
(* wherever it dies the next command finds no pass due on account of time. *)
(***************************************************************************)
WorkIsStamped ==
    \A p \in Maintainer : pass[p].step \in {"bound", "delete"} =>
        mark # NoMark /\ mark.age \in -Tolerance .. Interval - 1

(***************************************************************************)
(* The journal does not stay outside its floors: again and again there is  *)
(* nothing left to prune, whatever watermark the first pass found and      *)
(* although passes are throttled, capped and may fail.                     *)
(***************************************************************************)
Protected == {r.seq : r \in {x \in rows : x.age <= RetainDays}}

RetentionCatchesUp == []<>(Kept(rows, Protected, head + 1) = rows)

=============================================================================
