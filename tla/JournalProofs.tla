--------------------------- MODULE JournalProofs ----------------------------
(***************************************************************************)
(* The theorems about Journal and JournalRestore, for any number of        *)
(* transactions, records, consumers and accidents to the counter, whenever *)
(* the retain-rows floor is not disabled: then the newest rows are never   *)
(* pruned, and a writer whose snapshot or counter is outdated meets one.   *)
(***************************************************************************)
EXTENDS JournalRestore, FiniteSetTheorems, FunctionTheorems, SequenceTheorems,
        WellFoundedInduction, TLAPS

-----------------------------------------------------------------------------
(***************************************************************************)
(* Least and greatest elements, and what a consumer's read makes of a      *)
(* journal that satisfies the invariant.                                   *)
(***************************************************************************)

\* A set of naturals that is not empty has a least element.
LEMMA LeastExists ==
  ASSUME NEW S \in SUBSET Nat, S # {}
  PROVE  Least(S) \in S /\ \A y \in S : Least(S) <= y
<1> DEFINE R == OpToRel(<, Nat)
<1>1. PICK x \in S : \A y \in S : ~(<<y, x>> \in R)
  BY NatLessThanWellFounded, WFMin, Zenon
<1>2. ASSUME NEW y \in S, y < x
      PROVE  <<y, x>> \in R
  <2>1. <<y, x>> \in Nat \X Nat
    OBVIOUS
  <2>2. <<y, x>>[1] < <<y, x>>[2]
    BY <1>2
  <2> QED BY <2>1, <2>2, Zenon DEF OpToRel
<1>3. \A y \in S : ~(y < x)
  BY <1>1, <1>2, Zenon
<1>4. \A y \in S : x <= y
  BY <1>3
<1> QED BY <1>4, Zenon DEF Least

\* One that is also bounded has a greatest.
LEMMA GreatestExists ==
  ASSUME NEW S \in SUBSET Nat, S # {}, NEW b \in Nat, \A y \in S : y <= b
  PROVE  Greatest(S) \in S /\ \A y \in S : y <= Greatest(S)
<1> DEFINE U == {n \in Nat : \A y \in S : y <= n}
<1>1. PICK m \in U : \A n \in U : m <= n
  BY LeastExists, Zenon
<1>2. PICK x \in S : TRUE
  BY Zenon
<1>3. m \in S
  <2>1. SUFFICES ASSUME m \notin S PROVE FALSE
    OBVIOUS
  <2>2. m > 0 /\ \A y \in S : y <= m - 1
    BY <1>2, <2>1
  <2>3. m - 1 \in U
    BY <2>2
  <2> QED BY <1>1, <2>2, <2>3
<1>4. \A y \in S : y <= m
  OBVIOUS
<1> QED BY <1>3, <1>4, Zenon DEF Greatest

\* A page holds every row between the cursor and the last row of the page.
LEMMA PageIsClosed ==
  ASSUME TypeOK, TablesOK, NEW since \in Nat, NEW limit \in Nat,
         NEW r \in readEventsRows(journal, since, limit),
         NEW p \in journal, p.seq > since, p.seq <= r.seq
  PROVE  p \in readEventsRows(journal, since, limit)
<1> DEFINE Upto(x) == {q \in Seqs(journal) : since < q /\ q <= x}
<1>1. Seqs(journal) \subseteq 1 .. Len(hist) /\ Len(hist) \in Nat
  BY LenProperties DEF TypeOK, TablesOK, RowsOf, Seqs
<1>2. r \in journal /\ r.seq \in Nat /\ p.seq \in Nat
  BY DEF readEventsRows, TypeOK, Row
<1>3. IsFiniteSet(Upto(r.seq))
  <2>1. Upto(r.seq) \subseteq 1 .. Len(hist)
    BY <1>1
  <2>2. IsFiniteSet(1 .. Len(hist))
    BY <1>1, FS_Interval
  <2> HIDE DEF Upto
  <2> QED BY <2>1, <2>2, FS_Subset
<1>4. Upto(p.seq) \subseteq Upto(r.seq)
  BY <1>1, <1>2
<1>5. /\ Cardinality(Upto(p.seq)) \in Nat
      /\ Cardinality(Upto(r.seq)) \in Nat
      /\ Cardinality(Upto(p.seq)) <= Cardinality(Upto(r.seq))
  <2> HIDE DEF Upto
  <2> QED BY <1>3, <1>4, FS_Subset, FS_CardinalityType
<1>6. limit = 0 \/ Cardinality(Upto(r.seq)) <= limit
  BY DEF readEventsRows
<1>7. limit = 0 \/ Cardinality(Upto(p.seq)) <= limit
  <2> HIDE DEF Upto
  <2> QED BY <1>5, <1>6
<1> QED BY <1>7 DEF readEventsRows

\* A page is empty only when no row is newer than the cursor.
LEMMA PageNotEmpty ==
  ASSUME TypeOK, TablesOK, NEW since \in Nat, NEW limit \in Nat,
         NEW r \in journal, r.seq > since
  PROVE  readEventsRows(journal, since, limit) # {}
<1> DEFINE New == {q \in Seqs(journal) : since < q}
<1>1. Seqs(journal) \subseteq Nat
  BY DEF TypeOK, Seqs, Row
<1>2. New \in SUBSET Nat /\ New # {}
  BY <1>1 DEF Seqs
<1>3. Least(New) \in New /\ \A y \in New : Least(New) <= y
  BY <1>2, LeastExists
<1>4. PICK m \in New : \A y \in New : m <= y
  BY <1>3
<1>5. {q \in Seqs(journal) : since < q /\ q <= m} = {m}
  BY <1>1, <1>4
<1>6. Cardinality({q \in Seqs(journal) : since < q /\ q <= m}) = 1
  BY <1>5, FS_Singleton, Zenon
<1>7. PICK x \in journal : x.seq = m
  BY DEF Seqs
<1> QED BY <1>6, <1>7 DEF readEventsRows

(***************************************************************************)
(* A page that passes the check of ComputeEventsTruncation starts right    *)
(* behind the cursor and has no hole.                                      *)
(***************************************************************************)
LEMMA ContiguousPage ==
  ASSUME IndInv, NEW k \in Consumer, NEW limit \in Nat,
         NEW rows, rows = readEventsRows(journal, cursor[k], limit),
         Contiguous(cursor[k], Seqs(rows), EventsHead(counter)),
         NEW g, g = Greatest({cursor[k]} \cup Seqs(rows))
  PROVE  /\ g \in cursor[k] .. Len(hist)
         /\ \A r \in rows : r \in journal /\ r.seq <= g
         /\ \A i \in cursor[k] + 1 .. g : hist[i] \in rows
<1> DEFINE n == Len(hist)
           c == cursor[k]
           S == {c} \cup Seqs(rows)
<1>1. n \in Nat /\ c \in Nat /\ c <= n
  BY LenProperties DEF IndInv, TypeOK, TailOK
<1>2. rows \subseteq journal /\ \A r \in rows : r.seq > c /\ r.seq \in 1 .. n
  BY DEF readEventsRows, IndInv, TablesOK, RowsOf
<1>3. S \in SUBSET Nat /\ S # {} /\ \A y \in S : y <= n
  BY <1>1, <1>2 DEF Seqs
<1>4. g \in S /\ \A y \in S : y <= g
  BY <1>1, <1>3, GreatestExists, Zenon
<1>5. g \in c .. n
  <2>1. c \in S
    OBVIOUS
  <2> HIDE DEF S, c, n
  <2> QED BY <1>1, <1>3, <1>4, <2>1
<1>6. \A r \in rows : r.seq <= g
  BY <1>4 DEF Seqs
<1>7. \A i \in c + 1 .. g : hist[i] \in rows
  <2>1. CASE Seqs(rows) = {}
    BY <1>1, <1>4, <2>1
  <2>2. CASE Seqs(rows) # {}
    <3>1. Seqs(rows) \in SUBSET Nat
      BY <1>2 DEF Seqs
    <3>2. PICK m \in Seqs(rows) : \A y \in Seqs(rows) : m <= y
      BY <2>2, <3>1, LeastExists
    <3>3. m - 1 \notin Seqs(rows)
      BY <3>1, <3>2
    <3>4. Holes(c, Seqs(rows)) = {}
      BY <2>2 DEF Contiguous
    <3>5. m - 1 = c
      BY <3>3, <3>4 DEF Holes
    <3>6. PICK x \in rows : x.seq = c + 1
      <4>1. m = c + 1
        BY <1>1, <3>1, <3>5
      <4>2. \E x \in rows : x.seq = m
        BY <3>2 DEF Seqs
      <4> QED BY <4>1, <4>2
    <3>7. PICK y \in rows : y.seq = g \/ g = c
      BY <1>4, <3>6, Zenon DEF Seqs
    <3>8. SUFFICES ASSUME NEW i \in c + 1 .. g PROVE hist[i] \in rows
      OBVIOUS
    <3>9. y.seq = g /\ i \in 1 .. n /\ i > c /\ i <= g
      BY <1>1, <1>5, <3>7
    <3>10. hist[i] \in journal
      BY <1>1, <1>2, <1>5, <3>6, <3>9 DEF IndInv, TablesOK, RowsOf
    <3>11. hist[i].seq = i
      BY <3>9 DEF IndInv, SeqContract, TypeOK
    <3> QED BY <1>1, <3>9, <3>10, <3>11, PageIsClosed DEF IndInv
  <2> QED BY <2>1, <2>2
<1> QED BY <1>2, <1>5, <1>6, <1>7, Zenon

(***************************************************************************)
(* Otherwise the cursor fell behind the retained suffix: the reported loss *)
(* begins right behind the cursor and ends before the oldest retained row. *)
(***************************************************************************)
LEMMA TruncatedPage ==
  ASSUME IndInv, NEW k \in Consumer, NEW limit \in Nat,
         NEW rows, rows = readEventsRows(journal, cursor[k], limit),
         NEW head, head = EventsHead(counter),
         ~Contiguous(cursor[k], Seqs(rows), head),
         NEW floor, floor = TruncationFloor(cursor[k], Seqs(rows), head)
  PROVE  /\ floor - 1 \in cursor[k] .. Len(hist)
         /\ \A r \in journal : r.seq >= floor
         /\ TruncationSince(cursor[k], Seqs(rows), head) = cursor[k]
<1> DEFINE n == Len(hist)
           c == cursor[k]
           H == Holes(c, Seqs(rows))
<1>1. n \in Nat /\ c \in Nat /\ c <= n /\ head \in Nat /\ head <= n
  BY LenProperties, NoRowIsNoNumber
     DEF IndInv, TypeOK, TailOK, TablesOK, CounterOK, EventsHead
<1>2. rows \subseteq journal /\ \A r \in rows : r.seq > c /\ r.seq \in 1 .. n
  BY DEF readEventsRows, IndInv, TablesOK, RowsOf
<1>3. Seqs(rows) # {}
  <2>1. SUFFICES ASSUME Seqs(rows) = {} PROVE FALSE
    OBVIOUS
  <2>2. c < n
    BY <1>1, <2>1 DEF Contiguous
  <2>3. hist[n] \in journal /\ hist[n].seq = n
    BY <1>1, <2>2 DEF IndInv, TablesOK, RowsOf, SeqContract, TypeOK
  <2>4. rows # {}
    BY <1>1, <2>2, <2>3, PageNotEmpty DEF IndInv
  <2> QED BY <2>1, <2>4 DEF Seqs
<1>4. H \in SUBSET Nat /\ H # {}
  <2>1. H # {}
    BY <1>3 DEF Contiguous
  <2>2. Seqs(rows) \subseteq Nat
    BY <1>2 DEF Seqs
  <2> QED BY <2>1, <2>2 DEF Holes
<1>5. floor \in H
  BY <1>3, <1>4, LeastExists DEF TruncationFloor
<1>6. PICK x \in rows : x.seq = floor
  BY <1>5 DEF Holes, Seqs
<1>7. floor \in Nat /\ floor > c /\ floor <= n /\ floor - 1 # c
  BY <1>1, <1>2, <1>5, <1>6 DEF Holes
<1>8. hist[floor - 1] \notin journal
  <2>1. SUFFICES ASSUME hist[floor - 1] \in journal PROVE FALSE
    OBVIOUS
  <2>2. hist[floor - 1].seq = floor - 1
    BY <1>1, <1>7 DEF IndInv, SeqContract, TypeOK
  <2>3. hist[floor - 1] \in rows
    BY <1>1, <1>6, <1>7, <2>1, <2>2, PageIsClosed DEF IndInv
  <2> QED BY <1>5, <2>2, <2>3, Zenon DEF Holes, Seqs
<1>9. ASSUME NEW r \in journal PROVE r.seq >= floor
  <2>1. r.seq \in 1 .. n /\ \A j \in r.seq .. n : hist[j] \in journal
    BY DEF IndInv, TablesOK, RowsOf
  <2> QED BY <1>1, <1>7, <1>8, <2>1
<1>10. TruncationSince(c, Seqs(rows), head) = c
  <2>1. {q \in Seqs(rows) : q < floor} = {}
    <3>1. \A q \in Seqs(rows) : q \in Nat /\ q >= floor
      BY <1>2, <1>9 DEF Seqs
    <3> QED BY <1>7, <3>1
  <2>2. TruncationSince(c, Seqs(rows), head) = Greatest({c})
    BY <2>1 DEF TruncationSince
  <2>3. Greatest({c}) \in {c}
    <3>1. {c} \in SUBSET Nat /\ {c} # {} /\ \A y \in {c} : y <= c
      BY <1>1
    <3> QED BY <1>1, <3>1, GreatestExists, Zenon
  <2> QED BY <2>2, <2>3
<1> QED BY <1>1, <1>7, <1>9, <1>10

-----------------------------------------------------------------------------
\* What is older than a cutoff is older than a later one.
LEMMA LaterCutoff ==
  ASSUME NEW x \in Int, NEW a \in Nat, NEW b \in Nat, NEW d \in Nat, a <= b, x < a - d
  PROVE  x < b - d
OBVIOUS

(***************************************************************************)
(* Steps that leave the tables, the transactions and the history alone     *)
(* leave alone what the invariant says about them.                         *)
(***************************************************************************)
LEMMA TablesFrame ==
  ASSUME TypeOK, SeqContract, TablesOK, TxOK, UNCHANGED <<tables, tx, hist>>,
         now' \in Nat, now <= now'
  PROVE  SeqContract' /\ TablesOK' /\ TxOK'
<1>1. journal' = journal /\ counter' = counter /\ tx' = tx /\ hist' = hist
  BY DEF tables
<1>2. SeqContract'
  BY <1>1, Zenon DEF SeqContract
<1>3. TablesOK'
  BY <1>1, Zenon DEF TablesOK, RowsOf, CounterOK
<1>4. ASSUME NEW u \in Tx, NEW h, OpenOK(u, h)
      PROVE  OpenOK(u, h)'
  <2>1. SnapshotOK(u, h)' = SnapshotOK(u, h)
    BY <1>1, Zenon DEF SnapshotOK, RowsOf, CounterOK
  <2>2. WriteOK(u, h)' = WriteOK(u, h)
    BY <1>1, Zenon DEF WriteOK
  <2>3. PruneOK(u, h) => PruneOK(u, h)'
    <3>1. \A r \in tx[u].rows0 : r.ts \in Int
      BY DEF TypeOK, TxState, Row
    <3>2. \A x \in Int : x < now - RetainDays => x < now' - RetainDays
      BY FloorsAreCounts, LaterCutoff DEF TypeOK
    <3>3. RowsOf(tx[u].rows, h)' = RowsOf(tx[u].rows, h)
      BY <1>1, Zenon DEF RowsOf
    <3> QED BY <1>1, <3>1, <3>2, <3>3 DEF PruneOK
  <2> QED BY <1>1, <1>4, <2>1, <2>2, <2>3 DEF OpenOK
<1>5. TxOK'
  BY <1>1, <1>4, Zenon DEF TxOK
<1> QED BY <1>2, <1>3, <1>5

\* A read moves the cursor, and hands out or reports what it passes.
LEMMA ReadStep ==
  ASSUME IndInv, NEW k \in Consumer, NEW limit \in Limits, Read(k, limit)
  PROVE  IndInv'
<1> DEFINE c == cursor[k]
           rows == readEventsRows(journal, c, limit)
           head == EventsHead(counter)
           g == Greatest({c} \cup Seqs(rows))
           floor == TruncationFloor(c, Seqs(rows), head)
           since == TruncationSince(c, Seqs(rows), head)
<1>1. limit \in Nat /\ UNCHANGED <<tables, now, tx, hist>>
  BY JournalAssumption DEF Read
<1>2. Len(hist) \in Nat /\ c \in 0 .. Len(hist) /\ DOMAIN hist = 1 .. Len(hist)
  BY LenProperties DEF IndInv, TypeOK, TailOK
<1>3. SeqContract' /\ TablesOK' /\ TxOK'
  <2>1. now' \in Nat /\ now <= now'
    BY <1>1 DEF IndInv, TypeOK
  <2> QED BY <1>1, <2>1, TablesFrame DEF IndInv
<1>4. \A i \in 1 .. Len(hist) : hist[i].seq = i
  BY <1>2 DEF IndInv, SeqContract
<1>5. CASE Contiguous(c, Seqs(rows), head)
  <2>1. /\ cursor' = [cursor EXCEPT ![k] = g] /\ seen' = [seen EXCEPT ![k] = @ \cup rows]
        /\ UNCHANGED lost
    BY <1>5 DEF Read
  <2>2. /\ g \in c .. Len(hist) /\ \A r \in rows : r \in journal /\ r.seq <= g
        /\ \A i \in c + 1 .. g : hist[i] \in rows
    BY <1>1, <1>5, ContiguousPage
  <2> HIDE DEF rows, g
  <2>3. TypeOK'
    BY <1>1, <1>2, <2>1, <2>2 DEF IndInv, TypeOK, tables
  <2>4. TailOK'
    BY <1>1, <1>2, <2>1, <2>2 DEF IndInv, TailOK, TypeOK, Row
  <2>5. LossesAreReal'
    BY <1>1, <2>1, <2>2 DEF IndInv, LossesAreReal, TypeOK, tables
  <2>6. NoSilentLoss'
    <3>1. SUFFICES ASSUME NEW x \in Consumer, NEW i \in 1 .. Len(hist), i <= cursor'[x]
                   PROVE  hist[i] \in seen'[x] \/ i \in lost[x]
      BY <1>1, <1>2, <1>4, <2>1 DEF NoSilentLoss
    <3>2. CASE x # k \/ i <= c
      BY <1>2, <1>4, <2>1, <3>1, <3>2 DEF IndInv, NoSilentLoss, TypeOK
    <3>3. CASE x = k /\ i > c
      BY <1>2, <2>1, <2>2, <3>1, <3>3 DEF IndInv, TypeOK
    <3> QED BY <1>2, <3>2, <3>3
  <2> QED BY <1>3, <2>3, <2>4, <2>5, <2>6 DEF IndInv
<1>6. CASE ~Contiguous(c, Seqs(rows), head)
  <2>1. /\ floor - 1 \in c .. Len(hist) /\ \A r \in journal : r.seq >= floor
        /\ since = c
    BY <1>1, <1>6, TruncatedPage
  <2>2. /\ cursor' = [cursor EXCEPT ![k] = floor - 1]
        /\ lost' = [lost EXCEPT ![k] = @ \cup c + 1 .. floor - 1]
        /\ UNCHANGED seen
    BY <1>6, <2>1 DEF Read
  <2> DEFINE f == floor - 1
  <2>3. f \in c .. Len(hist) /\ \A r \in journal : r.seq > f
    <3>1. \A r \in journal : r.seq \in Nat
      BY DEF IndInv, TypeOK, Row
    <3>2. floor \in Int
      <4>1. Seqs(rows) \subseteq Nat
        BY Zenon DEF readEventsRows, Seqs, IndInv, TypeOK, Row
      <4>2. head \in Nat
        BY DEF IndInv, TypeOK, EventsHead
      <4>3. CASE Seqs(rows) = {}
        BY <4>2, <4>3 DEF TruncationFloor
      <4>4. CASE Seqs(rows) # {}
        <5>1. Holes(c, Seqs(rows)) \in SUBSET Nat /\ Holes(c, Seqs(rows)) # {}
          BY <1>6, <4>1, <4>4 DEF Contiguous, Holes
        <5>2. floor = Least(Holes(c, Seqs(rows)))
          BY <4>4 DEF TruncationFloor
        <5> QED BY <5>1, <5>2, LeastExists
      <4> QED BY <4>3, <4>4
    <3> HIDE DEF floor
    <3> QED BY <2>1, <3>1, <3>2
  <2>4. cursor' = [cursor EXCEPT ![k] = f] /\ lost' = [lost EXCEPT ![k] = @ \cup c + 1 .. f]
    BY <2>2
  <2> HIDE DEF f
  <2>5. TypeOK'
    BY <1>1, <1>2, <2>2, <2>3, <2>4 DEF IndInv, TypeOK, tables
  <2>6. TailOK'
    <3>1. SUFFICES ASSUME NEW x \in Consumer
                   PROVE  /\ cursor'[x] \in 0 .. Len(hist)
                          /\ \A r \in seen[x] : r.seq <= cursor'[x]
                          /\ \A q \in lost'[x] : q <= cursor'[x]
      BY <1>1, <2>2 DEF TailOK
    <3>2. CASE x # k
      BY <2>4, <3>2 DEF IndInv, TailOK, TypeOK
    <3>3. CASE x = k
      <4>1. cursor'[x] = f /\ lost'[x] = lost[x] \cup c + 1 .. f
        BY <2>4, <3>3 DEF IndInv, TypeOK
      <4>2. \A r \in seen[x] : r.seq \in Nat /\ r.seq <= c
        BY <3>3 DEF IndInv, TailOK, TypeOK, Row
      <4>3. \A q \in lost[x] : q \in Nat /\ q <= c
        BY <3>3 DEF IndInv, TailOK, TypeOK
      <4> QED BY <1>2, <2>3, <4>1, <4>2, <4>3
    <3> QED BY <3>2, <3>3
  <2>7. LossesAreReal'
    <3>1. SUFFICES ASSUME NEW x \in Consumer, NEW r \in journal \cup seen[x]
                   PROVE  r.seq \notin lost'[x]
      BY <1>1, <2>2 DEF LossesAreReal, tables
    <3>2. r.seq \notin lost[x] /\ r.seq \in Nat
      BY DEF IndInv, LossesAreReal, TypeOK, Row
    <3>3. CASE x # k
      BY <2>4, <3>2, <3>3 DEF IndInv, TypeOK
    <3>4. CASE x = k
      <4>1. lost'[x] = lost[x] \cup c + 1 .. f
        BY <2>4, <3>4 DEF IndInv, TypeOK
      <4>2. r.seq > f \/ r.seq <= c
        BY <2>3, <3>4 DEF IndInv, TailOK
      <4> QED BY <1>2, <2>3, <3>2, <4>1, <4>2
    <3> QED BY <3>3, <3>4
  <2>8. NoSilentLoss'
    <3>1. SUFFICES ASSUME NEW x \in Consumer, NEW i \in 1 .. Len(hist), i <= cursor'[x]
                   PROVE  hist[i] \in seen[x] \/ i \in lost'[x]
      BY <1>1, <1>2, <1>4, <2>2 DEF NoSilentLoss
    <3>2. CASE x # k \/ i <= c
      BY <1>2, <1>4, <2>4, <3>1, <3>2 DEF IndInv, NoSilentLoss, TypeOK
    <3>3. CASE x = k /\ i > c
      BY <1>2, <2>3, <2>4, <3>1, <3>3 DEF IndInv, TypeOK
    <3> QED BY <1>2, <3>2, <3>3
  <2> QED BY <1>3, <2>5, <2>6, <2>7, <2>8 DEF IndInv
<1> QED BY <1>5, <1>6

-----------------------------------------------------------------------------
(***************************************************************************)
(* The seqs a writer takes, what a prune keeps, and the statements of a    *)
(* transaction before its commit.                                          *)
(***************************************************************************)

\* The seq of a writer whose counter and rows agree is the counter's next.
LEMMA NextSeq ==
  ASSUME NEW c \in Nat, NEW rows \in SUBSET Row, \A r \in rows : r.seq <= c
  PROVE  EventSeq(c, rows) = c + 1
<1>1. c # NoRow
  BY NoRowIsNoNumber
<1>2. nextEventSeq(c, rows) = c + 1
  BY <1>1 DEF nextEventSeq
<1>3. c + 1 \notin Seqs(rows)
  BY DEF Seqs, Row
<1> QED BY <1>2, <1>3 DEF EventSeq

\* healEventSeqCounter raises a counter that is behind to the newest seq.
LEMMA HealsToHead ==
  ASSUME NEW c, NEW rows \in SUBSET Row, NEW n \in Nat, \A r \in rows : r.seq <= n,
         n > 0 => n \in Seqs(rows), c = NoRow \/ c \in 0 .. n
  PROVE  healEventSeqCounter(c, rows) = n
<1> DEFINE x == IF c = NoRow THEN 0 ELSE c
           S == {x} \cup Seqs(rows)
<1>1. x \in 0 .. n
  BY NoRowIsNoNumber
<1>2. S \in SUBSET Nat /\ S # {} /\ \A y \in S : y <= n
  <2>1. \A y \in Seqs(rows) : y \in Nat /\ y <= n
    BY DEF Seqs, Row
  <2> HIDE DEF x
  <2> QED BY <1>1, <2>1
<1>3. n \in S
  <2>1. CASE n > 0
    BY <2>1
  <2>2. CASE n = 0
    <3> HIDE DEF x
    <3> QED BY <1>1, <2>2
  <2> QED BY <2>1, <2>2
<1>4. Greatest(S) \in S /\ \A y \in S : y <= Greatest(S)
  <2> HIDE DEF S
  <2> QED BY <1>2, GreatestExists
<1>5. healEventSeqCounter(c, rows) = Greatest(S)
  BY DEF healEventSeqCounter
<1> HIDE DEF S
<1>6. PICK m \in S : m = Greatest(S) /\ \A y \in S : y <= m
  BY <1>4
<1>7. m \in Nat /\ m <= n /\ n <= m
  BY <1>2, <1>3, <1>6
<1>8. m = n
  BY <1>7
<1> QED BY <1>5, <1>6, <1>8

(***************************************************************************)
(* The first seq of a writer that finds the counter damaged: the missing   *)
(* counter is healed at once, the one that fell behind when its next seq   *)
(* turns out to be taken.                                                  *)
(***************************************************************************)
LEMMA HealedSeq ==
  ASSUME NEW c, NEW rows \in SUBSET Row, NEW n \in Nat, \A r \in rows : r.seq <= n,
         n > 0 => n \in Seqs(rows),
         c = NoRow \/ (c \in 0 .. n - 1 /\ c + 1 \in Seqs(rows))
  PROVE  EventSeq(c, rows) = n + 1
<1>0. n + 1 \notin Seqs(rows)
  BY DEF Seqs, Row
<1>1. CASE c = NoRow
  <2>1. nextEventSeq(c, rows) = 1 + n
    BY <1>1, HealsToHead DEF nextEventSeq
  <2> QED BY <1>0, <2>1 DEF EventSeq
<1>2. CASE c # NoRow
  <2>1. c \in 0 .. n - 1 /\ c + 1 \in Seqs(rows) /\ c + 1 \in 0 .. n
    BY <1>2
  <2>2. nextEventSeq(c, rows) = c + 1
    BY <1>2, <2>1 DEF nextEventSeq
  <2>3. healEventSeqCounter(c + 1, rows) = n
    BY <2>1, HealsToHead
  <2>4. nextEventSeq(n, rows) = n + 1
    BY NoRowIsNoNumber DEF nextEventSeq
  <2> QED BY <2>1, <2>2, <2>3, <2>4 DEF EventSeq
<1> QED BY <1>1, <1>2

-----------------------------------------------------------------------------
\* How many numbers there are above a up to n.
LEMMA CountAbove ==
  ASSUME NEW a \in Nat, NEW n \in Nat, a <= n
  PROVE  IsFiniteSet(a + 1 .. n) /\ Cardinality(a + 1 .. n) = n - a
<1>1. a + 1 \in Int /\ n \in Int
  OBVIOUS
<1>2. IsFiniteSet(a + 1 .. n) /\ Cardinality(a + 1 .. n) = IF a + 1 > n THEN 0 ELSE n - (a + 1) + 1
  BY <1>1, FS_Interval
<1>3. (IF a + 1 > n THEN 0 ELSE n - (a + 1) + 1) = n - a
  OBVIOUS
<1> QED BY <1>2, <1>3

\* Above a row of the journal is every later seq up to the head, once.
LEMMA NewerSeqs ==
  ASSUME TypeOK, SeqContract, TablesOK, NEW q \in Seqs(journal)
  PROVE  /\ q \in 1 .. Len(hist)
         /\ Cardinality({p \in Seqs(journal) : p > q}) = Len(hist) - q
<1> DEFINE n == Len(hist)
<1>1. n \in Nat /\ \A i \in 1 .. n : hist[i].seq = i
  BY LenProperties DEF TypeOK, SeqContract
<1>2. PICK r \in journal : r.seq = q
  BY DEF Seqs
<1>3. q \in 1 .. n /\ \A j \in q .. n : hist[j] \in journal
  BY <1>2 DEF TablesOK, RowsOf
<1>4. \A p \in Seqs(journal) : p \in 1 .. n
  BY DEF TablesOK, RowsOf, Seqs
<1>5. \A j \in q + 1 .. n : j \in Seqs(journal)
  BY <1>1, <1>3 DEF Seqs
<1> HIDE DEF n
<1>6. {p \in Seqs(journal) : p > q} = q + 1 .. n
  <2>1. ASSUME NEW p \in Seqs(journal), p > q PROVE p \in q + 1 .. n
    BY <1>1, <1>3, <1>4, <2>1
  <2>2. \A j \in q + 1 .. n : j > q
    BY <1>1, <1>3
  <2> QED BY <1>5, <2>1, <2>2
<1>7. Cardinality(q + 1 .. n) = n - q
  BY <1>1, <1>3, CountAbove
<1> QED BY <1>3, <1>6, <1>7 DEF n

\* The same for the rows themselves.
LEMMA NewerRows ==
  ASSUME TypeOK, SeqContract, TablesOK, NEW r \in journal
  PROVE  /\ r.seq \in 1 .. Len(hist)
         /\ Cardinality({q \in journal : q.seq > r.seq}) = Len(hist) - r.seq
<1> DEFINE n == Len(hist)
           Above == {q \in journal : q.seq > r.seq}
           f == [j \in r.seq + 1 .. n |-> hist[j]]
<1>1. n \in Nat /\ \A i \in 1 .. n : hist[i].seq = i
  BY LenProperties DEF TypeOK, SeqContract
<1>2. r.seq \in 1 .. n /\ \A j \in r.seq .. n : hist[j] \in journal
  BY DEF TablesOK, RowsOf
<1>3. \A q \in journal : q.seq \in 1 .. n /\ hist[q.seq] = q
  BY DEF TablesOK, RowsOf
<1> HIDE DEF n
<1>4. \A j \in r.seq + 1 .. n : f[j] \in Above /\ f[j].seq = j
  BY <1>1, <1>2
<1>5. \A q \in Above : q.seq \in r.seq + 1 .. n /\ f[q.seq] = q
  BY <1>1, <1>2, <1>3
<1>6. f \in Bijection(r.seq + 1 .. n, Above)
  <2>1. f \in [r.seq + 1 .. n -> Above]
    BY <1>4
  <2> HIDE DEF f, Above
  <2>2. \A i, j \in r.seq + 1 .. n : f[i] = f[j] => i = j
    BY <1>4
  <2>3. \A q \in Above : \E j \in r.seq + 1 .. n : f[j] = q
    BY <1>5
  <2> QED BY <2>1, <2>2, <2>3, Fun_IsBij
<1> HIDE DEF f, Above
<1>7. IsFiniteSet(r.seq + 1 .. n) /\ Cardinality(r.seq + 1 .. n) = n - r.seq
  BY <1>1, <1>2, CountAbove
<1>8. Cardinality(Above) = n - r.seq
  <2>1. ExistsBijection(r.seq + 1 .. n, Above)
    BY <1>6 DEF ExistsBijection
  <2> QED BY <1>7, <2>1, FS_Bijection
<1> QED BY <1>2, <1>8 DEF Above, n

(***************************************************************************)
(* A prune keeps a suffix of the rows; what it deletes is older than the   *)
(* newest RetainRows and, if that floor is on, than RetainDays.            *)
(***************************************************************************)
LEMMA PruneKeepsSuffix ==
  ASSUME TypeOK, SeqContract, TablesOK, RetainRows > 0, NEW before \in Nat
  PROVE  /\ Kept(journal, young, before) \subseteq journal
         /\ RowsOf(Kept(journal, young, before), Len(hist))
         /\ \A r \in journal \ Kept(journal, young, before) :
               /\ r.seq + RetainRows <= Len(hist)
               /\ RetainDays > 0 => r.ts < now - RetainDays
<1> DEFINE n == Len(hist)
           seqs == Seqs(journal)
           b == EventsPruneBound(seqs, young, before)
<1>1. CASE EventsPruneSkips(seqs, young, before)
  BY <1>1 DEF Kept, TablesOK
<1>2. CASE ~EventsPruneSkips(seqs, young, before)
  <2>1. PICK q0 \in RowsCeil(seqs) : TRUE
    BY <1>2 DEF EventsPruneSkips
  <2>2. q0 \in 1 .. n /\ n \in Nat /\ n - q0 = RetainRows
    <3>1. q0 \in seqs /\ Cardinality({p \in seqs : p > q0}) = RetainRows
      BY <2>1 DEF RowsCeil
    <3>2. q0 \in 1 .. n /\ Cardinality({p \in seqs : p > q0}) = n - q0
      BY <3>1, NewerSeqs
    <3> QED BY <3>1, <3>2, LenProperties DEF TypeOK
  <2>3. seqs \subseteq 1 .. n
    BY DEF TablesOK, RowsOf, Seqs
  <2>6. /\ b \in Nat /\ b <= q0 + 1
        /\ RetainDays > 0 => \A y \in young : b <= y
    <3> DEFINE S == {before}
                    \cup (IF RetainRows > 0 THEN {q + 1 : q \in RowsCeil(seqs)} ELSE {})
                    \cup (IF RetainDays > 0 THEN young ELSE {})
    <3>1. S \in SUBSET Nat
      <4>1. young \subseteq Nat
        BY DEF young, TypeOK, Row
      <4>2. RowsCeil(seqs) \subseteq Nat
        BY <2>2, <2>3 DEF RowsCeil
      <4>3. {q + 1 : q \in RowsCeil(seqs)} \subseteq Nat
        BY <4>2
      <4> HIDE DEF seqs
      <4> QED BY <4>1, <4>3, Zenon
    <3>2. q0 + 1 \in S
      BY <2>1
    <3>3. b = Least(S)
      BY DEF EventsPruneBound
    <3>4. RetainDays > 0 => young \subseteq S
      OBVIOUS
    <3> HIDE DEF S, b
    <3>5. Least(S) \in S /\ \A y \in S : Least(S) <= y
      BY <3>1, <3>2, LeastExists, Zenon
    <3> QED BY <3>1, <3>2, <3>3, <3>4, <3>5, Zenon
  <2>7. Kept(journal, young, before) = {r \in journal : r.seq >= b}
    BY <1>2 DEF Kept
  <2> HIDE DEF b
  <2>8. \A j \in 1 .. n : hist[j].seq = j
    BY DEF SeqContract, TypeOK
  <2>9. RowsOf({r \in journal : r.seq >= b}, n)
    <3> DEFINE K == {r \in journal : r.seq >= b}
    <3>1. RowsOf(journal, n)
      BY DEF TablesOK
    <3> HIDE DEF n
    <3>2. \A r \in K : r.seq \in 1 .. n /\ hist[r.seq] = r
      BY <3>1 DEF RowsOf
    <3>3. ASSUME NEW r \in K, NEW j \in r.seq .. n
          PROVE  hist[j] \in K
      BY <2>2, <2>6, <2>8, <3>1, <3>2 DEF RowsOf
    <3>4. n > 0 => hist[n] \in K
      BY <2>2, <2>6, <2>8, <3>1, FloorsAreCounts DEF RowsOf
    <3> QED BY <3>2, <3>3, <3>4 DEF RowsOf
  <2>10. ASSUME NEW r \in journal, ~(r.seq >= b)
         PROVE  /\ r.seq + RetainRows <= n
                /\ RetainDays > 0 => r.ts < now - RetainDays
    <3>1. r.seq \in Nat /\ r.ts \in Int /\ now \in Nat
      BY DEF TypeOK, Row
    <3>2. r.seq < b
      BY <2>6, <2>10, <3>1
    <3>3. r.seq + RetainRows <= n
      BY <2>2, <2>6, <3>1, <3>2, FloorsAreCounts
    <3>4. ASSUME RetainDays > 0, r.ts >= now - RetainDays PROVE FALSE
      <4>1. r.seq \in young
        BY <3>4 DEF young
      <4> QED BY <2>6, <3>1, <3>2, <3>4, <4>1
    <3>5. now - RetainDays \in Int
      BY <3>1, FloorsAreCounts
    <3> QED BY <3>1, <3>3, <3>4, <3>5
  <2> QED BY <2>7, <2>9, <2>10
<1> QED BY <1>1, <1>2

-----------------------------------------------------------------------------
\* The invariant holds initially.
LEMMA Initial ==
  Init => IndInv
<1> SUFFICES ASSUME Init PROVE IndInv
  OBVIOUS
<1> USE DEF Init
<1>1. hist = <<>> /\ Len(hist) = 0 /\ DOMAIN hist = {} /\ hist \in Seq(Row)
  BY EmptySeq, SMT
<1>2. TypeOK
  BY <1>1 DEF TypeOK, TxState, Closed
<1>3. SeqContract /\ NoSilentLoss /\ LossesAreReal
  BY <1>1 DEF SeqContract, NoSilentLoss, LossesAreReal
<1>4. TablesOK
  BY <1>1 DEF TablesOK, RowsOf, CounterOK
<1>5. TxOK
  BY <1>1 DEF TxOK, Closed
<1>6. TailOK
  BY <1>1 DEF TailOK
<1> QED BY <1>2, <1>3, <1>4, <1>5, <1>6 DEF IndInv

(***************************************************************************)
(* A step of one transaction that leaves the tables and the consumers      *)
(* alone keeps the invariant when that transaction's own part holds.       *)
(***************************************************************************)
LEMMA OneTxStep ==
  ASSUME IndInv, NEW t \in Tx, tx' \in [Tx -> TxState],
         \A u \in Tx \ {t} : tx'[u] = tx[u],
         UNCHANGED <<tables, now, hist, tails>>,
         /\ tx'[t].phase # "done" => \A i \in DOMAIN hist : hist[i].by # t
         /\ tx'[t].phase \in {"write", "prune"} => \E h \in 0 .. Len(hist) : OpenOK(t, h)'
  PROVE  IndInv'
<1> USE DEF tables, tails
<1>0. journal' = journal /\ counter' = counter /\ hist' = hist /\ now' = now
  OBVIOUS
<1>1. ASSUME NEW u \in Tx \ {t}, NEW h, OpenOK(u, h)
      PROVE  OpenOK(u, h)'
  <2>1. tx'[u] = tx[u]
    OBVIOUS
  <2>2. SnapshotOK(u, h)' = SnapshotOK(u, h)
    BY <1>0, <2>1, Zenon DEF SnapshotOK, RowsOf, CounterOK
  <2>3. WriteOK(u, h) => WriteOK(u, h)'
    BY <2>1 DEF WriteOK
  <2>4. PruneOK(u, h)' = PruneOK(u, h)
    BY <1>0, <2>1, Zenon DEF PruneOK, RowsOf
  <2> QED BY <1>1, <2>1, <2>2, <2>3, <2>4 DEF OpenOK
<1>2. TxOK'
  <2>1. ASSUME NEW u \in Tx
        PROVE  /\ tx'[u].phase # "done" => \A i \in DOMAIN hist : hist[i].by # u
               /\ tx'[u].phase \in {"write", "prune"} => \E h \in 0 .. Len(hist) : OpenOK(u, h)'
    <3>1. CASE u = t
      BY <3>1
    <3>2. CASE u # t
      BY <1>1, <3>2 DEF IndInv, TxOK
    <3> QED BY <3>1, <3>2
  <2> QED BY <1>0, <2>1 DEF TxOK
<1>3. TypeOK'
  BY DEF IndInv, TypeOK
<1>4. TablesOK'
  BY <1>0, Zenon DEF IndInv, TablesOK, RowsOf, CounterOK
<1>5. SeqContract' /\ TailOK' /\ NoSilentLoss' /\ LossesAreReal'
  BY DEF IndInv, SeqContract, TailOK, NoSilentLoss, LossesAreReal
<1> QED BY <1>2, <1>3, <1>4, <1>5 DEF IndInv

\* A writer begins on the current tables.
LEMMA BeginStep ==
  ASSUME IndInv, NEW t \in Tx, BeginWrite(t)
  PROVE  IndInv'
<1> USE DEF tables, tails
<1> DEFINE o == [phase |-> "write", rows0 |-> journal, c0 |-> counter,
                 rows |-> journal, c |-> counter, log |-> <<>>]
           n == Len(hist)
<1>1. CounterOK(counter, journal, n) /\ RowsOf(journal, n) /\ n \in Nat
  BY LenProperties DEF IndInv, TablesOK, TypeOK
<1>2. tx' = [tx EXCEPT ![t] = o] /\ UNCHANGED <<tables, now, hist, tails>>
  BY DEF BeginWrite
<1>3. o \in TxState
  BY EmptySeq DEF IndInv, TypeOK, TxState
<1>4. tx'[t] = o /\ tx' \in [Tx -> TxState] /\ \A u \in Tx \ {t} : tx'[u] = tx[u]
  BY <1>2, <1>3 DEF IndInv, TypeOK
<1>5. \A i \in DOMAIN hist : hist[i].by # t
  BY DEF BeginWrite, IndInv, TxOK
<1>7. SnapshotOK(t, n)'
  BY <1>1, <1>2, <1>4 DEF SnapshotOK, RowsOf, CounterOK
<1>8. WriteOK(t, n)'
  <2>1. <<>> = tx'[t].log /\ Len(tx'[t].log) = 0 /\ DOMAIN tx'[t].log = {}
    BY <1>4, SMT
  <2> QED BY <1>1, <1>4, <2>1 DEF WriteOK
<1>9. n \in 0 .. Len(hist) /\ n' = n
  BY <1>1, <1>2
<1>10. OpenOK(t, n)'
  BY <1>4, <1>7, <1>8 DEF OpenOK
<1>11. \E h \in 0 .. Len(hist) : OpenOK(t, h)'
  BY <1>9, <1>10
<1> QED BY <1>2, <1>4, <1>5, <1>11, OneTxStep

\* A prune begins and deletes on its snapshot.
LEMMA PruneStep ==
  ASSUME IndInv, RetainRows > 0, NEW t \in Tx, NEW before \in Befores, Prune(t, before)
  PROVE  IndInv'
<1> USE DEF tables, tails
<1> DEFINE K == Kept(journal, young, before)
           o == [phase |-> "prune", rows0 |-> journal, c0 |-> counter,
                 rows |-> K, c |-> counter, log |-> <<>>]
           n == Len(hist)
<1>1. CounterOK(counter, journal, n) /\ RowsOf(journal, n) /\ n \in Nat
  BY LenProperties DEF IndInv, TablesOK, TypeOK
<1>2. tx' = [tx EXCEPT ![t] = o] /\ UNCHANGED <<tables, now, hist, tails>>
  BY DEF Prune
<1>3. /\ K \subseteq journal /\ RowsOf(K, n)
      /\ \A r \in journal \ K : /\ r.seq + RetainRows <= n
                                /\ RetainDays > 0 => r.ts < now - RetainDays
  BY PruneKeepsSuffix, JournalAssumption DEF IndInv
<1> HIDE DEF K
<1>4. o \in TxState
  BY <1>3, EmptySeq DEF IndInv, TypeOK, TxState
<1>5. tx'[t] = o /\ tx' \in [Tx -> TxState] /\ \A u \in Tx \ {t} : tx'[u] = tx[u]
  BY <1>2, <1>4 DEF IndInv, TypeOK
<1>6. \A i \in DOMAIN hist : hist[i].by # t
  BY DEF Prune, IndInv, TxOK
<1>7. SnapshotOK(t, n)'
  BY <1>1, <1>2, <1>5 DEF SnapshotOK, RowsOf, CounterOK
<1>8. PruneOK(t, n)'
  BY <1>2, <1>3, <1>5 DEF PruneOK, RowsOf
<1>9. n \in 0 .. Len(hist)
  BY <1>1
<1>10. OpenOK(t, n)'
  BY <1>5, <1>7, <1>8 DEF OpenOK
<1>11. \E h \in 0 .. Len(hist) : OpenOK(t, h)'
  BY <1>2, <1>9, <1>10
<1> QED BY <1>2, <1>5, <1>6, <1>11, OneTxStep

\* A writer appends one record to its own rows.
LEMMA EmitStep ==
  ASSUME IndInv, NEW t \in Tx, Emit(t)
  PROVE  IndInv'
<1> USE DEF tables, tails
<1> DEFINE c == tx[t].c
           c0 == tx[t].c0
           log == tx[t].log
<1>1. tx[t] \in TxState /\ tx[t].phase = "write" /\ Len(hist) \in Nat
  BY LenProperties DEF Emit, IndInv, TypeOK
<1>2. PICK h \in 0 .. Len(hist) : SnapshotOK(t, h) /\ WriteOK(t, h)
  BY <1>1 DEF IndInv, TxOK, OpenOK
<1>3. log \in Seq(Row) /\ Len(log) \in Nat /\ DOMAIN log = 1 .. Len(log) /\ h \in Nat
  BY <1>1, <1>2, LenProperties DEF TxState
<1> DEFINE q == h + Len(log) + 1
<1>4. /\ tx[t].rows \in SUBSET Row
      /\ \A r \in tx[t].rows0 : r.seq \in 1 .. h /\ r.seq <= h
      /\ \A r \in tx[t].rows : r.seq <= h + Len(log)
  <2>1. \A r \in tx[t].rows0 : r.seq \in 1 .. h
    BY <1>2 DEF SnapshotOK, RowsOf
  <2>2. \A i \in DOMAIN log : log[i].seq = h + i
    BY <1>2 DEF WriteOK
  <2>3. tx[t].rows = tx[t].rows0 \cup {log[i] : i \in DOMAIN log}
    BY <1>2 DEF WriteOK
  <2>4. tx[t].rows \in SUBSET Row
    BY <1>1 DEF TxState
  <2> HIDE DEF log
  <2> QED BY <1>3, <2>1, <2>2, <2>3, <2>4
<1>5. EventSeq(c, tx[t].rows) = q
  <2>1. CASE log = <<>>
    <3>1. Len(log) = 0 /\ DOMAIN log = {} /\ q = h + 1
      BY <1>3, <2>1
    <3>2. c = c0 /\ tx[t].rows = tx[t].rows0
      BY <1>2, <2>1, <3>1 DEF WriteOK
    <3>3. \A r \in tx[t].rows : r.seq <= h
      BY <1>4, <3>2
    <3>4. CASE c = h
      BY <1>3, <1>4, <3>1, <3>3, <3>4, NextSeq
    <3>5. CASE c # h
      <4>1. \A i \in 1 .. h : hist[i].seq = i
        BY <1>1 DEF IndInv, SeqContract, TypeOK
      <4>2. h > 0 => h \in Seqs(tx[t].rows)
        <5>1. h > 0 => hist[h] \in tx[t].rows
          BY <1>2, <3>2, Zenon DEF SnapshotOK, RowsOf
        <5>2. h > 0 => hist[h].seq = h
          BY <1>3, <4>1
        <5> QED BY <5>1, <5>2, Zenon DEF Seqs
      <4>3. c = NoRow \/ (c \in 0 .. h - 1 /\ hist[c + 1] \in tx[t].rows)
        BY <1>2, <3>2, <3>5, Zenon DEF SnapshotOK, CounterOK
      <4>4. c = NoRow \/ (c \in 0 .. h - 1 /\ c + 1 \in Seqs(tx[t].rows))
        BY <1>3, <4>1, <4>3 DEF Seqs
      <4>5. EventSeq(c, tx[t].rows) = h + 1
        <5> HIDE DEF c
        <5> QED BY <1>3, <1>4, <3>3, <4>2, <4>4, HealedSeq
      <4> QED BY <3>1, <4>5
    <3> QED BY <3>4, <3>5
  <2>2. CASE log # <<>>
    <3>1. c = h + Len(log) /\ h + Len(log) \in Nat
      BY <1>2, <1>3, <2>2 DEF WriteOK
    <3> HIDE DEF log, c
    <3> QED BY <1>4, <3>1, NextSeq
  <2> QED BY <2>1, <2>2
<1>6. PICK ts \in now - Skew .. now + Skew :
        LET row == [seq |-> q, ts |-> ts, by |-> t]
        IN  tx' = [tx EXCEPT ![t].c = q, ![t].rows = @ \cup {row},
                             ![t].log = Append(@, row)]
  BY <1>5, Zenon DEF Emit
<1> DEFINE row == [seq |-> q, ts |-> ts, by |-> t]
           o == [phase |-> tx[t].phase, rows0 |-> tx[t].rows0, c0 |-> c0,
                 rows |-> tx[t].rows \cup {row}, c |-> q, log |-> Append(log, row)]
<1>7. row \in Row
  <2>1. q \in Nat
    BY <1>3
  <2> HIDE DEF q
  <2> QED BY <2>1, JournalAssumption DEF Row, IndInv, TypeOK
<1>8. /\ Append(log, row) \in Seq(Row)
      /\ Len(Append(log, row)) = Len(log) + 1
      /\ Append(log, row)[Len(log) + 1] = row
      /\ \A i \in 1 .. Len(log) : Append(log, row)[i] = log[i]
      /\ DOMAIN Append(log, row) = 1 .. Len(log) + 1
  <2> HIDE DEF row, log
  <2> QED BY <1>3, <1>7, AppendProperties, LenProperties
<1>9. tx' = [tx EXCEPT ![t] = o]
  <2>1. tx' = [tx EXCEPT ![t] = [tx[t] EXCEPT !.c = q, !.rows = tx[t].rows \cup {row},
                                             !.log = Append(log, row)]]
    BY <1>6, Zenon DEF IndInv, TypeOK
  <2>2. [tx[t] EXCEPT !.c = q, !.rows = tx[t].rows \cup {row},
                      !.log = Append(log, row)] = o
    <3> DEFINE b == tx[t].rows \cup {row}
               d == Append(log, row)
               a == q
    <3>1. tx[t] \in TxState
      BY <1>1
    <3> HIDE DEF a, b, d
    <3> DEFINE e == [tx[t] EXCEPT !.c = a]
               f == [e EXCEPT !.rows = b]
    <3>2. e = [phase |-> tx[t].phase, rows0 |-> tx[t].rows0, c0 |-> tx[t].c0,
               rows |-> tx[t].rows, c |-> a, log |-> tx[t].log]
      BY <3>1 DEF TxState
    <3>3. [tx[t] EXCEPT !.c = a, !.rows = b, !.log = d] = [f EXCEPT !.log = d]
      OBVIOUS
    <3> HIDE DEF e
    <3>4. f = [phase |-> tx[t].phase, rows0 |-> tx[t].rows0, c0 |-> tx[t].c0,
               rows |-> b, c |-> a, log |-> tx[t].log]
      BY <3>2
    <3> HIDE DEF f
    <3>5. [f EXCEPT !.log = d]
            = [phase |-> tx[t].phase, rows0 |-> tx[t].rows0, c0 |-> tx[t].c0,
               rows |-> b, c |-> a, log |-> d]
      BY <3>4
    <3> QED BY <3>3, <3>5, Zenon DEF a, b, d
  <2> QED BY <2>1, <2>2, Zenon
<1>10. /\ tx'[t].phase = "write" /\ tx'[t].rows0 = tx[t].rows0 /\ tx'[t].c0 = c0
       /\ tx'[t].c = q /\ tx'[t].rows = tx[t].rows \cup {row}
       /\ tx'[t].log = Append(log, row)
  <2> HIDE DEF row
  <2> QED BY <1>1, <1>9 DEF IndInv, TypeOK
<1>11. tx' \in [Tx -> TxState] /\ \A u \in Tx \ {t} : tx'[u] = tx[u]
  <2> HIDE DEF row
  <2>1. o \in TxState
    <3>1. q \in Nat
      BY <1>3
    <3>2. tx[t].rows \cup {row} \in SUBSET Row
      BY <1>4, <1>7, Zenon
    <3>3. /\ tx[t].phase \in {"new", "write", "prune", "done"}
          /\ tx[t].rows0 \in SUBSET Row /\ c0 \in Nat \cup {NoRow}
      BY <1>1, Zenon DEF TxState
    <3> HIDE DEF q
    <3> QED BY <1>8, <3>1, <3>2, <3>3, Zenon DEF TxState
  <2> HIDE DEF o
  <2> QED BY <1>9, <2>1 DEF IndInv, TypeOK
<1>12. UNCHANGED <<tables, now, hist, tails>>
  BY DEF Emit
<1>13. SnapshotOK(t, h)'
  <2> HIDE DEF row
  <2> QED BY <1>2, <1>10, <1>12, Zenon DEF SnapshotOK, RowsOf, CounterOK
<1>14. WriteOK(t, h)'
  <2>1. row.seq = q /\ row.by = t /\ q = h + (Len(log) + 1)
    BY <1>3
  <2>2. /\ \A i \in 1 .. Len(log) : log[i].seq = h + i /\ log[i].by = t
        /\ tx[t].rows = tx[t].rows0 \cup {log[i] : i \in 1 .. Len(log)}
    BY <1>2, <1>3 DEF WriteOK
  <2> DEFINE newlog == Append(log, row)
  <2> HIDE DEF row, q, log, c, c0
  <2>3. ASSUME NEW i \in 1 .. Len(log) + 1
        PROVE  newlog[i].seq = h + i /\ newlog[i].by = t
    <3>1. CASE i = Len(log) + 1
      BY <1>8, <2>1, <3>1
    <3>2. CASE i \in 1 .. Len(log)
      BY <1>8, <2>2, <3>2
    <3> QED BY <1>3, <3>1, <3>2
  <2>4. {newlog[i] : i \in 1 .. Len(log) + 1} = {log[i] : i \in 1 .. Len(log)} \cup {row}
    BY <1>3, <1>8
  <2>5. tx[t].rows \cup {row} = tx[t].rows0 \cup {newlog[i] : i \in DOMAIN newlog}
    BY <1>8, <2>2, <2>4, Zenon
  <2>6. newlog # <<>> /\ q = h + Len(newlog)
    BY <1>3, <1>8, <2>1
  <2>7. tx'[t].log = newlog /\ DOMAIN newlog = 1 .. Len(log) + 1
    BY <1>8, <1>10
  <2> HIDE DEF newlog
  <2>8. tx'[t].c = IF tx'[t].log = <<>> THEN tx'[t].c0 ELSE h + Len(tx'[t].log)
    BY <1>10, <2>6, <2>7
  <2>9. \A i \in DOMAIN tx'[t].log : tx'[t].log[i].seq = h + i /\ tx'[t].log[i].by = t
    BY <2>3, <2>7
  <2>10. tx'[t].rows = tx'[t].rows0 \cup {tx'[t].log[i] : i \in DOMAIN tx'[t].log}
    BY <1>10, <2>5, <2>7, Zenon
  <2> QED BY <2>8, <2>9, <2>10 DEF WriteOK
<1>15. \A i \in DOMAIN hist : hist[i].by # t
  BY <1>1 DEF IndInv, TxOK
<1>16. \E x \in 0 .. Len(hist) : OpenOK(t, x)'
  <2>1. OpenOK(t, h)'
    BY <1>10, <1>13, <1>14 DEF OpenOK
  <2> QED BY <1>2, <2>1
<1> QED BY <1>11, <1>12, <1>15, <1>16, OneTxStep

\* A transaction that writes nothing leaves no trace.
LEMMA RollbackStep ==
  ASSUME IndInv, NEW t \in Tx, Rollback(t)
  PROVE  IndInv'
<1>1. Closed("done") \in TxState /\ Closed("done").phase = "done"
  BY EmptySeq DEF Closed, TxState
<1>2. /\ tx' \in [Tx -> TxState] /\ tx'[t].phase = "done"
      /\ \A u \in Tx \ {t} : tx'[u] = tx[u]
      /\ UNCHANGED <<tables, now, hist, tails>>
  BY <1>1 DEF Rollback, IndInv, TypeOK
<1> QED BY <1>2, OneTxStep

\* What a set of rows says about a history holds for one that begins with it.
LEMMA SameRecords ==
  ASSUME NEW f, NEW g, NEW h \in Nat, NEW R, \A i \in 1 .. h : g[i] = f[i],
         \A r \in R : r.seq \in 1 .. h /\ f[r.seq] = r,
         \A r \in R : \A j \in r.seq .. h : f[j] \in R,
         h > 0 => f[h] \in R
  PROVE  /\ \A r \in R : g[r.seq] = r
         /\ \A r \in R : \A j \in r.seq .. h : g[j] \in R
         /\ h > 0 => g[h] \in R
<1>1. \A r \in R : g[r.seq] = r
  OBVIOUS
<1>2. ASSUME NEW r \in R, NEW j \in r.seq .. h PROVE g[j] \in R
  <2>1. j \in 1 .. h
    OBVIOUS
  <2> QED BY <2>1
<1>3. h > 0 => g[h] \in R
  OBVIOUS
<1> QED BY <1>1, <1>2, <1>3

(***************************************************************************)
(* A commit that appends to the history, touches no row up to the old head *)
(* except by deleting, and moves the counter to the new head or not at     *)
(* all, keeps the other transactions' parts.                               *)
(***************************************************************************)
LEMMA OthersKeep ==
  ASSUME IndInv, NEW t \in Tx, tx' = [tx EXCEPT ![t] = Closed("done")],
         journal' \subseteq Row, Len(hist') \in Nat, Len(hist) <= Len(hist'),
         \A i \in 1 .. Len(hist) : hist'[i] = hist[i],
         DOMAIN hist' = 1 .. Len(hist'),
         \A i \in Len(hist) + 1 .. Len(hist') : hist'[i].by = t,
         \A r \in journal' : r \in journal \/ r.seq > Len(hist),
         now' = now,
         counter' = Len(hist') \/ (counter' = counter /\ Len(hist') = Len(hist))
  PROVE  TxOK'
<1> DEFINE n == Len(hist)
           m == Len(hist')
<1>0. /\ n \in Nat /\ m \in Nat /\ n <= m /\ DOMAIN hist = 1 .. n /\ DOMAIN hist' = 1 .. m
      /\ \A i \in 1 .. n : hist'[i] = hist[i]
      /\ \A i \in n + 1 .. m : hist'[i].by = t
      /\ \A r \in journal' : r.seq \in Nat /\ (r \in journal \/ r.seq > n)
      /\ counter' = m \/ (counter' = counter /\ m = n)
  BY LenProperties DEF IndInv, TypeOK, Row
<1> HIDE DEF n, m
<1>1. ASSUME NEW u \in Tx \ {t}, NEW h \in 0 .. n, OpenOK(u, h)
      PROVE  OpenOK(u, h)'
  <2>1. tx'[u] = tx[u]
    BY DEF IndInv, TypeOK
  <2>2. /\ RowsOf(tx[u].rows0, h) /\ CounterOK(tx[u].c0, tx[u].rows0, h)
        /\ \A r \in journal : r.seq <= h => r \in tx[u].rows0
        /\ h = n \/ counter = n
    BY <1>1 DEF OpenOK, SnapshotOK, n
  <2>3. h \in Nat /\ \A i \in 1 .. h : hist'[i] = hist[i]
    <3>1. n \in Nat
      BY <1>0
    <3>2. h \in Nat /\ \A i \in 1 .. h : i \in 1 .. n
      BY ONLY <3>1, h \in 0 .. n
    <3> QED BY <1>0, <3>2, Zenon
  <2>4. SnapshotOK(u, h)'
    <3>1. RowsOf(tx[u].rows0, h)'
      <4> DEFINE R == tx[u].rows0
      <4>1. /\ \A r \in R : r.seq \in 1 .. h /\ hist[r.seq] = r
            /\ \A r \in R : \A j \in r.seq .. h : hist[j] \in R
            /\ h > 0 => hist[h] \in R
        BY <2>2 DEF RowsOf
      <4> HIDE DEF R
      <4>2. /\ \A r \in R : hist'[r.seq] = r
            /\ \A r \in R : \A j \in r.seq .. h : hist'[j] \in R
            /\ h > 0 => hist'[h] \in R
        BY ONLY <2>3, <4>1, SameRecords
      <4> QED BY <2>1, <4>1, <4>2, Zenon DEF RowsOf, R
    <3>2. CounterOK(tx[u].c0, tx[u].rows0, h)'
      <4> DEFINE c0 == tx[u].c0
      <4>1. c0 \notin {h, NoRow} => /\ c0 \in 0 .. h - 1 /\ h - c0 <= RetainRows
                                    /\ hist[c0 + 1] \in tx[u].rows0
        BY <2>2, Zenon DEF CounterOK
      <4>2. c0 \in 0 .. h - 1 => c0 + 1 \in 1 .. h
        BY <2>3
      <4>3. c0 \notin {h, NoRow} => /\ c0 \in 0 .. h - 1 /\ h - c0 <= RetainRows
                                    /\ hist'[c0 + 1] \in tx[u].rows0
        BY <2>3, <4>1, <4>2, Zenon
      <4> QED BY <2>1, <4>3, Zenon DEF CounterOK
    <3>3. ASSUME NEW r \in journal', r.seq <= h PROVE r \in tx'[u].rows0
      <4>1. n \in Nat /\ r.seq \in Nat /\ (r \in journal \/ r.seq > n)
        BY <1>0
      <4>2. ~(r.seq > n)
        BY ONLY <3>3, <4>1, h \in 0 .. n
      <4> QED BY <2>1, <2>2, <3>3, <4>1, <4>2, Zenon
    <3>4. h = m \/ counter' = m
      BY <1>0, <2>2
    <3> QED BY <2>1, <3>1, <3>2, <3>3, <3>4 DEF SnapshotOK, m
  <2>5. WriteOK(u, h) => WriteOK(u, h)'
    BY <2>1 DEF WriteOK
  <2>6. ASSUME PruneOK(u, h) PROVE PruneOK(u, h)'
    <3>1. /\ tx[u].c = tx[u].c0 /\ tx[u].log = <<>> /\ tx[u].rows \subseteq tx[u].rows0
          /\ RowsOf(tx[u].rows, h)
          /\ \A r \in tx[u].rows0 \ tx[u].rows :
               /\ r.seq + RetainRows <= h
               /\ RetainDays > 0 => r.ts < now - RetainDays
      BY <2>6, Zenon DEF PruneOK
    <3>2. RowsOf(tx[u].rows, h)'
      <4> DEFINE R == tx[u].rows
      <4>1. /\ \A r \in R : r.seq \in 1 .. h /\ hist[r.seq] = r
            /\ \A r \in R : \A j \in r.seq .. h : hist[j] \in R
            /\ h > 0 => hist[h] \in R
        BY <3>1 DEF RowsOf
      <4> HIDE DEF R
      <4>2. /\ \A r \in R : hist'[r.seq] = r
            /\ \A r \in R : \A j \in r.seq .. h : hist'[j] \in R
            /\ h > 0 => hist'[h] \in R
        BY ONLY <2>3, <4>1, SameRecords
      <4> QED BY <2>1, <4>1, <4>2, Zenon DEF RowsOf, R
    <3> QED BY <2>1, <3>1, <3>2, Zenon DEF PruneOK
  <2> QED BY <1>1, <2>1, <2>4, <2>5, <2>6 DEF OpenOK
<1> SUFFICES ASSUME NEW u \in Tx
             PROVE  /\ tx'[u].phase # "done" => \A i \in 1 .. m : hist'[i].by # u
                    /\ tx'[u].phase \in {"write", "prune"} => \E h \in 0 .. m : OpenOK(u, h)'
  BY <1>0 DEF TxOK, m
<1>2. CASE u = t
  BY <1>2 DEF IndInv, TypeOK, Closed
<1>3. CASE u # t
  <2>1. tx'[u] = tx[u]
    BY <1>3 DEF IndInv, TypeOK
  <2>2. /\ tx[u].phase # "done" => \A i \in 1 .. n : hist[i].by # u
        /\ tx[u].phase \in {"write", "prune"} => \E h \in 0 .. n : OpenOK(u, h)
    BY <1>0 DEF IndInv, TxOK, n
  <2>3. ASSUME tx[u].phase # "done", NEW i \in 1 .. m PROVE hist'[i].by # u
    <3>1. n \in Nat /\ m \in Nat
      BY <1>0
    <3>2. i \in 1 .. n \/ i \in n + 1 .. m
      BY ONLY <3>1, i \in 1 .. m
    <3> QED BY <1>0, <1>3, <2>2, <2>3, <3>2
  <2>4. ASSUME tx[u].phase \in {"write", "prune"} PROVE \E h \in 0 .. m : OpenOK(u, h)'
    <3>1. PICK h \in 0 .. n : OpenOK(u, h)
      BY <2>2, <2>4
    <3>2. n \in Nat /\ m \in Nat /\ n <= m
      BY <1>0
    <3>3. h \in 0 .. m
      BY ONLY <3>2, h \in 0 .. n
    <3>4. OpenOK(u, h)'
      BY <1>1, <1>3, <3>1
    <3> QED BY <3>3, <3>4, Zenon
  <2> QED BY <2>1, <2>3, <2>4
<1> QED BY <1>2, <1>3

\* The commit of a prune leaves a suffix that still holds the newest row.
LEMMA CommitPruneStep ==
  ASSUME IndInv, RetainRows > 0, NEW t \in Tx, Commit(t), tx[t].phase = "prune"
  PROVE  IndInv'
<1> DEFINE n == Len(hist)
           Gone == tx[t].rows0 \ tx[t].rows
<1>1. PICK h \in 0 .. n : SnapshotOK(t, h) /\ PruneOK(t, h)
  BY DEF IndInv, TxOK, OpenOK
<1>2. hist' = hist
  BY <1>1, ConcatEmptySeq DEF Commit, PruneOK, IndInv, TypeOK
<1>3. counter' = counter /\ n \in Nat /\ h \in Nat /\ h <= n /\ DOMAIN hist = 1 .. n
  <2>1. counter' = counter
    BY <1>1, Zenon DEF Commit, CellMerge, PruneOK
  <2>2. n \in Nat /\ DOMAIN hist = 1 .. n
    BY LenProperties DEF IndInv, TypeOK
  <2>3. h \in Nat /\ h <= n
    BY ONLY <2>2, h \in 0 .. n
  <2> QED BY <2>1, <2>2, <2>3
<1>4. journal' = journal \ Gone
  BY <1>1 DEF Commit, Inserted, Deleted, PruneOK
<1>5. \A j \in 1 .. n : hist[j].seq = j
  BY <1>3 DEF IndInv, SeqContract
<1>6. /\ \A r \in tx[t].rows0 : r.seq <= h
      /\ \A r \in journal : r.seq <= h => r \in tx[t].rows0
      /\ \A r \in Gone : r.seq + RetainRows <= h
  <2>1. \A r \in tx[t].rows0 : r.seq \in 1 .. h
    BY <1>1 DEF SnapshotOK, RowsOf
  <2>2. \A r \in tx[t].rows0 : r.seq <= h
    BY <1>3, <2>1
  <2>3. \A r \in journal : r.seq <= h => r \in tx[t].rows0
    BY <1>1 DEF SnapshotOK
  <2>4. \A r \in Gone : r.seq + RetainRows <= h
    BY <1>1 DEF PruneOK
  <2> QED BY <2>2, <2>3, <2>4
<1>7. RowsOf(journal, n) /\ RowsOf(tx[t].rows, h) /\ CounterOK(counter, journal, n)
  BY <1>1 DEF IndInv, TablesOK, PruneOK
<1>8. RowsOf(journal', n)
  <2> HIDE DEF n
  <2>1. \A r \in journal' : r.seq \in 1 .. n /\ hist[r.seq] = r
    BY <1>4, <1>7 DEF RowsOf
  <2>2. ASSUME NEW r \in journal', NEW j \in r.seq .. n PROVE hist[j] \in journal'
    <3>1. r \in journal /\ hist[j] \in journal /\ hist[j].seq = j
      BY <1>3, <1>4, <1>5, <1>7, <2>1 DEF RowsOf
    <3>2. SUFFICES ASSUME hist[j] \in Gone PROVE FALSE
      BY <1>4, <3>1
    <3>3. j <= h /\ r.seq <= h
      BY <1>3, <1>6, <2>1, <3>1, <3>2
    <3>4. r \in tx[t].rows
      BY <1>4, <1>6, <3>1, <3>3
    <3>5. hist[j] \in tx[t].rows
      BY <1>3, <1>6, <1>7, <2>1, <3>3, <3>4 DEF RowsOf
    <3> QED BY <3>2, <3>5
  <2>3. ASSUME n > 0 PROVE hist[n] \in journal'
    <3>1. hist[n] \in journal /\ hist[n].seq = n
      BY <1>3, <1>5, <1>7, <2>3 DEF RowsOf
    <3>2. hist[n] \notin Gone
      BY <1>3, <1>6, <3>1, FloorsAreCounts
    <3> QED BY <1>4, <3>1, <3>2
  <2> QED BY <2>1, <2>2, <2>3 DEF RowsOf
<1>9. CounterOK(counter, journal', n)
  <2> HIDE DEF n
  <2>1. SUFFICES ASSUME counter \notin {n, NoRow} PROVE hist[counter + 1] \in journal'
    BY <1>7 DEF CounterOK
  <2>2. counter \in 0 .. n - 1 /\ n - counter <= RetainRows /\ hist[counter + 1] \in journal
    BY <1>7, <2>1 DEF CounterOK
  <2>3. hist[counter + 1].seq = counter + 1
    BY <1>3, <1>5, <2>2
  <2>4. hist[counter + 1] \notin Gone
    BY <1>3, <1>6, <2>2, <2>3, FloorsAreCounts
  <2> QED BY <1>4, <2>2, <2>4
<1>10. TablesOK'
  BY <1>2, <1>3, <1>8, <1>9 DEF TablesOK, RowsOf, CounterOK
<1>11. Closed("done") \in TxState
  BY EmptySeq DEF Closed, TxState
<1>12. TypeOK'
  BY <1>2, <1>3, <1>4, <1>11 DEF IndInv, TypeOK, Commit, tails
<1>13. TxOK'
  <2>1. \A i \in Len(hist) + 1 .. Len(hist') : hist'[i].by = t
    BY <1>2, <1>3
  <2>2. /\ journal' \subseteq Row /\ tx' = [tx EXCEPT ![t] = Closed("done")]
        /\ now' = now /\ counter' = counter /\ Len(hist') = Len(hist)
    BY <1>2, <1>3, <1>12 DEF TypeOK, Commit
  <2>3. /\ Len(hist') \in Nat /\ Len(hist) <= Len(hist')
        /\ \A i \in 1 .. Len(hist) : hist'[i] = hist[i]
        /\ DOMAIN hist' = 1 .. Len(hist')
        /\ \A r \in journal' : r \in journal \/ r.seq > Len(hist)
    <3>1. \A r \in journal' : r \in journal
      BY <1>4
    <3>2. Len(hist) \in Nat /\ Len(hist) <= Len(hist)
      BY <1>3
    <3> QED BY <1>2, <1>3, <3>1, <3>2, Zenon
  <2> QED BY <2>1, <2>2, <2>3, OthersKeep, Zenon
<1>14. SeqContract' /\ TailOK' /\ NoSilentLoss' /\ LossesAreReal'
  BY <1>2, <1>4 DEF IndInv, SeqContract, TailOK, NoSilentLoss, LossesAreReal, Commit, tails
<1> QED BY <1>10, <1>12, <1>13, <1>14 DEF IndInv

(***************************************************************************)
(* A writer that recorded something commits only onto the head h it began  *)
(* from: otherwise the counter cell differs, or the newest row of the      *)
(* journal has the key of one of its own rows.                             *)
(***************************************************************************)
LEMMA WriterCommitsOntoItsHead ==
  ASSUME IndInv, NEW t \in Tx, tx[t].phase = "write", tx[t].log # <<>>, ~Conflict(t),
         NEW h \in 0 .. Len(hist), SnapshotOK(t, h), WriteOK(t, h)
  PROVE  h = Len(hist)
<1> DEFINE n == Len(hist)
           log == tx[t].log
<1>1. tx[t] \in TxState /\ RowsOf(journal, n)
  BY DEF IndInv, TypeOK, TablesOK
<1>2. n \in Nat /\ h \in Nat /\ h <= n
  BY LenProperties DEF IndInv, TypeOK
<1>3. log \in Seq(Row) /\ Len(log) \in Nat /\ DOMAIN log = 1 .. Len(log) /\ Len(log) > 0
  BY <1>1, LenProperties, EmptySeq DEF TxState
<1>4. tx[t].c = h + Len(log) /\ log[Len(log)].seq = h + Len(log) /\ log[Len(log)].by = t
  BY <1>3 DEF WriteOK
<1>5. SUFFICES ASSUME h # n PROVE FALSE
  OBVIOUS
<1>6. n = h + Len(log)
  <2>1. ~CellConflict(tx[t].c0, tx[t].c, counter)
    BY DEF Conflict
  <2>2. counter = n
    BY <1>5 DEF SnapshotOK
  <2>3. tx[t].c0 = NoRow \/ (tx[t].c0 \in Nat /\ tx[t].c0 <= h)
    <3>1. tx[t].c0 = NoRow \/ tx[t].c0 = h \/ tx[t].c0 \in 0 .. h - 1
      BY Zenon DEF SnapshotOK, CounterOK
    <3> QED BY <1>2, <3>1
  <2>4. tx[t].c0 # n /\ tx[t].c0 # h + Len(log)
    <3> HIDE DEF n, log
    <3> QED BY <1>2, <1>3, <1>5, <2>3, NoRowIsNoNumber
  <2> QED BY <1>4, <2>1, <2>2, <2>4 DEF CellConflict
<1>7. hist[n] \in journal /\ hist[n].seq = n /\ hist[n].by # t
  <2>1. n \in 1 .. n /\ DOMAIN hist = 1 .. n
    BY <1>2, <1>5, LenProperties DEF IndInv, TypeOK
  <2>2. hist[n] \in journal
    BY <1>1, <2>1 DEF RowsOf
  <2>3. hist[n].seq = n
    BY <2>1, Zenon DEF IndInv, SeqContract
  <2>4. hist[n].by # t
    BY <2>1 DEF IndInv, TxOK
  <2> QED BY <2>2, <2>3, <2>4
<1>8. \A r \in tx[t].rows0 : r.seq <= h
  <2>1. \A r \in tx[t].rows0 : r.seq \in 1 .. h
    BY Zenon DEF SnapshotOK, RowsOf
  <2> QED BY <1>2, <2>1
<1>9. hist[n] \notin tx[t].rows0
  BY <1>2, <1>5, <1>7, <1>8
<1>10. log[Len(log)] \in Inserted(t)
  <2>1. log[Len(log)] \in tx[t].rows
    BY <1>3 DEF WriteOK
  <2>2. log[Len(log)] \notin tx[t].rows0
    <3> HIDE DEF n, log
    <3> QED BY <1>2, <1>3, <1>4, <1>8
  <2> QED BY <2>1, <2>2 DEF Inserted
<1> QED BY <1>4, <1>6, <1>7, <1>9, <1>10 DEF Conflict

-----------------------------------------------------------------------------
(***************************************************************************)
(* The commit of a writer, the clock, and accidents to the counter.        *)
(***************************************************************************)

\* A writer's commit appends its records to the tables and to the history.
LEMMA CommitWriteStep ==
  ASSUME IndInv, NEW t \in Tx, Commit(t), tx[t].phase = "write"
  PROVE  IndInv'
<1> DEFINE n == Len(hist)
           log == tx[t].log
           L == {log[i] : i \in 1 .. Len(log)}
<1>1. PICK h \in 0 .. n : SnapshotOK(t, h) /\ WriteOK(t, h)
  BY DEF IndInv, TxOK, OpenOK
<1>2. n \in Nat /\ hist \in Seq(Row) /\ DOMAIN hist = 1 .. n /\ tx[t] \in TxState
  BY LenProperties DEF IndInv, TypeOK
<1>3. log \in Seq(Row) /\ Len(log) \in Nat /\ DOMAIN log = 1 .. Len(log)
  BY <1>2, LenProperties DEF TxState
<1>4. hist' = hist \o log /\ tx' = [tx EXCEPT ![t] = Closed("done")]
  BY DEF Commit
<1>5. /\ hist' \in Seq(Row) /\ Len(hist') = n + Len(log) /\ DOMAIN hist' = 1 .. n + Len(log)
      /\ \A i \in 1 .. n : hist'[i] = hist[i]
      /\ \A i \in n + 1 .. n + Len(log) : hist'[i] = log[i - n]
  <2>1. /\ hist' \in Seq(Row) /\ Len(hist') = n + Len(log)
        /\ \A i \in 1 .. Len(hist') : hist'[i] = IF i <= n THEN hist[i] ELSE log[i - n]
    <3> HIDE DEF log
    <3> QED BY <1>2, <1>3, <1>4, ConcatProperties
  <2>2. DOMAIN hist' = 1 .. Len(hist')
    BY <2>1, LenProperties
  <2> HIDE DEF n, log
  <2> QED BY <1>2, <1>3, <2>1, <2>2
<1>6. (log = <<>> /\ Len(log) = 0) \/ (log # <<>> /\ Len(log) > 0 /\ h = n)
  <2>1. CASE log = <<>>
    BY <2>1, EmptySeq
  <2>2. CASE log # <<>>
    <3>1. Len(log) > 0
      BY <1>3, <2>2, EmptySeq
    <3>2. ~Conflict(t)
      BY DEF Commit
    <3>3. h = n
      BY <1>1, <2>2, <3>2, WriterCommitsOntoItsHead, Zenon
    <3> QED BY <2>2, <3>1, <3>3
  <2> QED BY <2>1, <2>2
<1>7. \A i \in 1 .. Len(log) : h = n /\ log[i].seq = n + i /\ log[i].by = t
  <2>1. \A i \in 1 .. Len(log) : log[i].seq = h + i /\ log[i].by = t
    BY <1>1, <1>3 DEF WriteOK
  <2>2. (\E i \in 1 .. Len(log) : TRUE) => h = n
    BY <1>3, <1>6
  <2> QED BY <2>1, <2>2
<1>8. \A r \in L : r.seq > n
  <2>1. \A i \in 1 .. Len(log) : n + i > n
    BY <1>2, <1>3
  <2> HIDE DEF n, log
  <2> QED BY <1>7, <2>1
<1>9. journal' = journal \cup L
  <2>1. tx[t].rows = tx[t].rows0 \cup L
    BY <1>1, <1>3 DEF WriteOK
  <2>2. Deleted(t) = {} /\ Inserted(t) = L \ tx[t].rows0
    BY <2>1 DEF Deleted, Inserted
  <2>3. L \cap tx[t].rows0 = {}
    <3>1. \A r \in tx[t].rows0 : r.seq \in 1 .. h
      BY <1>1 DEF SnapshotOK, RowsOf
    <3>2. \A r \in tx[t].rows0 : ~(r.seq > n)
      BY <1>1, <1>2, <3>1
    <3> HIDE DEF L
    <3> QED BY <1>8, <3>2
  <2> QED BY <2>2, <2>3 DEF Commit
<1>10. /\ Len(log) > 0 => counter' = n + Len(log)
       /\ Len(log) = 0 => counter' = counter
  <2>1. CASE Len(log) = 0
    <3>1. log = <<>>
      BY <1>6, <2>1
    <3>2. tx[t].c = tx[t].c0
      BY <1>1, <3>1, Zenon DEF WriteOK
    <3>3. counter' = counter
      BY <3>2, Zenon DEF Commit, CellMerge
    <3> QED BY <2>1, <3>3
  <2>2. CASE Len(log) > 0
    <3>1. log # <<>> /\ h = n
      BY <1>6, <2>2
    <3>2. tx[t].c = n + Len(log)
      BY <1>1, <3>1 DEF WriteOK
    <3>3. tx[t].c0 = NoRow \/ (tx[t].c0 \in Nat /\ tx[t].c0 <= n)
      <4>1. tx[t].c0 = NoRow \/ tx[t].c0 = h \/ tx[t].c0 \in 0 .. h - 1
        BY <1>1, Zenon DEF SnapshotOK, CounterOK
      <4> QED BY <1>2, <3>1, <4>1
    <3>4. tx[t].c # tx[t].c0
      <4> HIDE DEF n, log
      <4> QED BY <1>2, <1>3, <2>2, <3>2, <3>3, NoRowIsNoNumber
    <3>5. counter' = tx[t].c
      BY <3>4 DEF Commit, CellMerge
    <3> QED BY <2>2, <3>2, <3>5
  <2> QED BY <1>3, <2>1, <2>2
<1>11. SeqContract'
  <2>1. \A i \in 1 .. n : hist[i].seq = i
    BY <1>2 DEF IndInv, SeqContract
  <2>2. ASSUME NEW i \in 1 .. n + Len(log) PROVE hist'[i].seq = i
    <3>1. CASE i \in 1 .. n
      BY <1>5, <2>1, <3>1
    <3>2. CASE i \in n + 1 .. n + Len(log)
      <4>1. i - n \in 1 .. Len(log) /\ n + (i - n) = i
        BY <1>2, <1>3, <3>2
      <4> HIDE DEF n, log
      <4> QED BY <1>5, <1>7, <3>2, <4>1
    <3> QED BY <1>2, <1>3, <3>1, <3>2
  <2> QED BY <1>5, <2>2 DEF SeqContract
<1>12. TablesOK'
  <2> DEFINE m == n + Len(log)
  <2>1. RowsOf(journal, n)
    BY DEF IndInv, TablesOK
  <2>2. \A i \in n + 1 .. m : hist'[i] \in L
    <3>1. \A i \in n + 1 .. m : i - n \in 1 .. Len(log)
      BY <1>2, <1>3
    <3> QED BY <1>5, <3>1
  <2>3. \A r \in L : r.seq \in n + 1 .. m /\ hist'[r.seq] = r
    <3>1. SUFFICES ASSUME NEW i \in 1 .. Len(log)
                   PROVE  log[i].seq \in n + 1 .. m /\ hist'[log[i].seq] = log[i]
      OBVIOUS
    <3>2. n + i \in n + 1 .. m /\ (n + i) - n = i
      BY <1>2, <1>3
    <3> HIDE DEF n, log
    <3> QED BY <1>5, <1>7, <3>2
  <2> HIDE DEF n, log, L
  <2>4. \A r \in journal : r.seq \in 1 .. m /\ hist'[r.seq] = r
    BY <1>2, <1>3, <1>5, <2>1 DEF RowsOf
  <2>5. \A r \in journal' : r.seq \in 1 .. m /\ hist'[r.seq] = r
    BY <1>2, <1>3, <1>9, <2>3, <2>4
  <2>6. ASSUME NEW r \in journal', NEW j \in r.seq .. m PROVE hist'[j] \in journal'
    <3>1. CASE j > n
      BY <1>2, <1>3, <1>9, <2>2, <3>1
    <3>2. CASE j <= n
      <4>1. r \in journal /\ j \in r.seq .. n /\ j \in 1 .. n
        BY <1>2, <1>3, <1>9, <2>3, <2>5, <3>2
      <4> QED BY <1>5, <1>9, <2>1, <4>1 DEF RowsOf
    <3> QED BY <1>2, <1>3, <2>5, <3>1, <3>2
  <2>7. m > 0 => hist'[m] \in journal'
    <3>1. CASE Len(log) > 0
      BY <1>2, <1>3, <1>9, <2>2, <3>1
    <3>2. CASE Len(log) = 0
      BY <1>2, <1>5, <1>9, <2>1, <3>2 DEF RowsOf
    <3> QED BY <1>3, <3>1, <3>2
  <2>8. Len(hist') = m
    BY <1>5
  <2>9. counter' \notin {m, NoRow} => /\ counter' \in 0 .. m - 1 /\ m - counter' <= RetainRows
                                     /\ hist'[counter' + 1] \in journal'
    <3>1. CASE Len(log) > 0
      BY <1>10, <3>1, Zenon
    <3>2. CASE Len(log) = 0
      <4>1. m = n /\ counter' = counter
        BY <1>2, <1>10, <3>2
      <4>2. counter \in 0 .. n - 1 => counter + 1 \in 1 .. n
        BY <1>2
      <4>3. counter \notin {n, NoRow} => /\ counter \in 0 .. n - 1 /\ n - counter <= RetainRows
                                         /\ hist[counter + 1] \in journal
        BY Zenon DEF IndInv, TablesOK, CounterOK, n
      <4> HIDE DEF m
      <4> QED BY <1>5, <1>9, <4>1, <4>2, <4>3, Zenon
    <3> QED BY <1>3, <3>1, <3>2
  <2> HIDE DEF m
  <2> QED BY <2>5, <2>6, <2>7, <2>8, <2>9 DEF TablesOK, RowsOf, CounterOK
<1>13. TypeOK'
  <2>1. Closed("done") \in TxState
    BY EmptySeq DEF Closed, TxState
  <2>2. L \subseteq Row
    BY <1>3, ElementOfSeq
  <2>3. counter' \in Nat \cup {NoRow}
    <3>1. n + Len(log) \in Nat /\ counter \in Nat \cup {NoRow}
      BY <1>2, <1>3 DEF IndInv, TypeOK
    <3>2. CASE Len(log) > 0
      BY <1>10, <3>1, <3>2, Zenon
    <3>3. CASE Len(log) = 0
      BY <1>10, <3>1, <3>3, Zenon
    <3> QED BY <1>3, <3>2, <3>3
  <2> HIDE DEF n, log, L
  <2> QED BY <1>4, <1>5, <1>9, <2>1, <2>2, <2>3 DEF IndInv, TypeOK, Commit, tails
<1>14. TxOK'
  <2>1. ASSUME NEW i \in n + 1 .. n + Len(log) PROVE hist'[i].by = t
    <3>1. i - n \in 1 .. Len(log)
      BY <1>2, <1>3
    <3> HIDE DEF n, log
    <3> QED BY <1>5, <1>7, <3>1
  <2>2. /\ Len(hist') \in Nat /\ Len(hist) <= Len(hist')
        /\ \A i \in 1 .. Len(hist) : hist'[i] = hist[i]
        /\ DOMAIN hist' = 1 .. Len(hist')
        /\ \A i \in Len(hist) + 1 .. Len(hist') : hist'[i].by = t
    <3>1. n + Len(log) \in Nat /\ n <= n + Len(log)
      BY <1>2, <1>3
    <3> HIDE DEF log
    <3> QED BY <1>5, <2>1, <3>1, Zenon
  <2>3. journal' \subseteq Row /\ \A r \in journal' : r \in journal \/ r.seq > Len(hist)
    BY <1>9, <1>13, <1>8 DEF TypeOK
  <2>4. /\ now' = now
        /\ counter' = Len(hist') \/ (counter' = counter /\ Len(hist') = Len(hist))
    <3>1. now' = now
      BY DEF Commit
    <3>2. Len(hist') = n + Len(log) /\ (Len(log) = 0 => n + Len(log) = n)
      <4>1. Len(log) = 0 => n + Len(log) = n
        BY <1>2
      <4> QED BY <1>5, <4>1, Zenon
    <3>3. CASE Len(log) > 0
      BY <1>10, <3>1, <3>2, <3>3, Zenon
    <3>4. CASE Len(log) = 0
      BY <1>10, <3>1, <3>2, <3>4, Zenon
    <3> QED BY <1>3, <3>3, <3>4
  <2> QED BY <1>4, <2>2, <2>3, <2>4, OthersKeep, Zenon
<1>15. \A k \in Consumer : cursor[k] \in 0 .. n
  BY DEF IndInv, TailOK
<1> HIDE DEF n, log, L
<1>16. TailOK'
  <2>1. \A k \in Consumer : cursor[k] \in 0 .. n + Len(log)
    BY <1>2, <1>3, <1>15
  <2>2. cursor' = cursor /\ seen' = seen /\ lost' = lost
    BY DEF Commit, tails
  <2> QED BY <1>5, <2>1, <2>2, Zenon DEF IndInv, TailOK
<1>17. NoSilentLoss'
  <2>1. SUFFICES ASSUME NEW k \in Consumer, NEW i \in 1 .. n + Len(log),
                        hist'[i].seq <= cursor[k]
                 PROVE  hist'[i] \in seen[k] \/ hist'[i].seq \in lost[k]
    BY <1>5, Zenon DEF NoSilentLoss, Commit, tails
  <2>2. i \in 1 .. n
    <3>1. hist'[i].seq = i
      BY <1>5, <1>11 DEF SeqContract
    <3> QED BY <1>2, <1>3, <1>15, <2>1, <3>1
  <2> QED BY <1>2, <1>5, <2>1, <2>2, SMTT(30) DEF IndInv, NoSilentLoss
<1>18. LossesAreReal'
  <2>1. \A k \in Consumer : \A q \in lost[k] : q \in Nat /\ q <= n
    BY <1>2, <1>15 DEF IndInv, TailOK, TypeOK
  <2>2. \A k \in Consumer : \A r \in L : r.seq \notin lost[k]
    BY <1>2, <1>13, <1>8, <2>1, <1>9 DEF TypeOK, Row
  <2> QED BY <1>9, <2>2 DEF IndInv, LossesAreReal, Commit, tails
<1> QED BY <1>11, <1>12, <1>13, <1>14, <1>16, <1>17, <1>18 DEF IndInv

\* The clock, or nothing, moves.
LEMMA TickStep ==
  ASSUME IndInv, now' \in Nat, now <= now', UNCHANGED <<tables, tx, hist, tails>>
  PROVE  IndInv'
<1>1. /\ journal' = journal /\ counter' = counter /\ tx' = tx /\ hist' = hist
      /\ cursor' = cursor /\ seen' = seen /\ lost' = lost
  BY DEF tables, tails
<1>2. SeqContract' /\ TablesOK' /\ TxOK'
  BY TablesFrame DEF IndInv
<1>3. TypeOK'
  BY <1>1, Zenon DEF IndInv, TypeOK
<1>4. TailOK'
  BY <1>1, Zenon DEF IndInv, TailOK
<1>5. NoSilentLoss' /\ LossesAreReal'
  BY <1>1, Zenon DEF IndInv, NoSilentLoss, LossesAreReal
<1> QED BY <1>2, <1>3, <1>4, <1>5 DEF IndInv

\* Every step keeps the inductive invariant.
LEMMA Inductive ==
  ASSUME RetainRows > 0
  PROVE  IndInv /\ [Next]_vars => IndInv'
<1> SUFFICES ASSUME IndInv, [Next]_vars PROVE IndInv'
  OBVIOUS
<1>1. CASE Tick
  BY <1>1, TickStep DEF Tick, IndInv, TypeOK
<1>2. ASSUME NEW t \in Tx, BeginWrite(t) PROVE IndInv'
  BY <1>2, BeginStep
<1>3. ASSUME NEW t \in Tx, Emit(t) PROVE IndInv'
  BY <1>3, EmitStep
<1>4. ASSUME NEW t \in Tx, Commit(t) PROVE IndInv'
  BY <1>4, CommitWriteStep, CommitPruneStep, Zenon DEF Commit
<1>5. ASSUME NEW t \in Tx, Rollback(t) PROVE IndInv'
  BY <1>5, RollbackStep
<1>6. ASSUME NEW t \in Tx, NEW before \in Befores, Prune(t, before) PROVE IndInv'
  BY <1>6, PruneStep
<1>7. ASSUME NEW k \in Consumer, NEW limit \in Limits, Read(k, limit) PROVE IndInv'
  BY <1>7, ReadStep
<1>8. CASE UNCHANGED vars
  BY <1>8, TickStep DEF vars, IndInv, TypeOK
<1> QED BY <1>1, <1>2, <1>3, <1>4, <1>5, <1>6, <1>7, <1>8 DEF Next

(***************************************************************************)
(* A database at rest loses its counter, or gets one back that is behind   *)
(* by at most RetainRows: no transaction is open, and the next writer can  *)
(* tell.                                                                   *)
(***************************************************************************)
LEMMA DamageStep ==
  ASSUME IndInv, NEW c, Damage(c), c \in Nat \cup {NoRow}, CounterOK(c, journal, Len(hist))
  PROVE  IndInv'
<1>1. /\ journal' = journal /\ counter' = c /\ now' = now /\ tx' = tx /\ hist' = hist
      /\ cursor' = cursor /\ seen' = seen /\ lost' = lost
  BY DEF Damage, tails
<1>2. TypeOK'
  BY <1>1, Zenon DEF IndInv, TypeOK
<1>3. SeqContract' /\ TailOK' /\ NoSilentLoss' /\ LossesAreReal'
  BY <1>1, Zenon DEF IndInv, SeqContract, TailOK, NoSilentLoss, LossesAreReal
<1>4. TablesOK'
  <2>1. RowsOf(journal, Len(hist))
    BY DEF IndInv, TablesOK
  <2> QED BY <1>1, <2>1, Zenon DEF TablesOK, RowsOf, CounterOK
<1>5. TxOK'
  <2>1. \A t \in Tx : tx[t].phase # "write" /\ tx[t].phase # "prune"
    BY DEF Damage
  <2>2. \A t \in Tx : tx[t].phase # "done" => \A i \in DOMAIN hist : hist[i].by # t
    BY DEF IndInv, TxOK
  <2> QED BY <1>1, <2>1, <2>2 DEF TxOK
<1> QED BY <1>2, <1>3, <1>4, <1>5 DEF IndInv

\* The damage that LoseCounter and RestoreRecent do is of that kind.
LEMMA DamageIsNoticed ==
  ASSUME IndInv, LoseCounter \/ RestoreRecent
  PROVE  IndInv'
<1>1. CASE LoseCounter
  <2>1. Damage(NoRow) /\ CounterOK(NoRow, journal, Len(hist))
    BY <1>1 DEF LoseCounter, CounterOK
  <2> QED BY <2>1, DamageStep
<1>2. CASE RestoreRecent
  <2> DEFINE n == Len(hist)
  <2>1. PICK r \in journal : /\ Cardinality({q \in journal : q.seq > r.seq}) < RetainRows
                             /\ Damage(r.seq - 1)
    BY <1>2 DEF RestoreRecent
  <2>2. r.seq \in 1 .. n /\ n - r.seq < RetainRows /\ n \in Nat
    BY <2>1, NewerRows, LenProperties DEF IndInv, TypeOK
  <2>3. hist[r.seq] = r
    BY DEF IndInv, TablesOK, RowsOf
  <2> HIDE DEF n
  <2>4. /\ r.seq - 1 \in Nat /\ r.seq - 1 \in 0 .. n - 1 /\ (r.seq - 1) + 1 = r.seq
        /\ n - (r.seq - 1) <= RetainRows
    BY <2>2, FloorsAreCounts
  <2>5. CounterOK(r.seq - 1, journal, n)
    BY <2>3, <2>4 DEF CounterOK
  <2> QED BY <2>1, <2>4, <2>5, DamageStep DEF n
<1> QED BY <1>1, <1>2

\* Every step of the journal or of an accident keeps the inductive invariant.
LEMMA InductiveHealed ==
  ASSUME RetainRows > 0
  PROVE  IndInv /\ [NextHealed]_varsRestore => IndInv'
<1> SUFFICES ASSUME IndInv, [NextHealed]_varsRestore PROVE IndInv'
  OBVIOUS
<1>1. CASE [Next]_vars
  BY <1>1, Inductive
<1>2. CASE LoseCounter \/ RestoreRecent
  BY <1>2, DamageIsNoticed
<1> QED BY <1>1, <1>2 DEF NextHealed, varsRestore

\* What a step deletes from the journal lies below both floors.
LEMMA DeletesBelowFloors ==
  ASSUME IndInv, [NextHealed]_varsRestore, NEW r \in journal \ journal'
  PROVE  /\ Cardinality({q \in journal : q.seq > r.seq}) >= RetainRows
         /\ RetainDays > 0 => r.ts < now - RetainDays
<1> DEFINE n == Len(hist)
<1>1. PICK t \in Tx : Commit(t)
  BY DEF NextHealed, Next, Tick, BeginWrite, Emit, Rollback, Prune, Read, LoseCounter,
         RestoreRecent, Damage, varsRestore, vars, tables
<1>2. r \in Deleted(t) /\ tx[t].phase \in {"write", "prune"}
  BY <1>1 DEF Commit
<1>3. PICK h \in 0 .. n : OpenOK(t, h)
  BY <1>2 DEF IndInv, TxOK
<1>4. tx[t].phase = "prune"
  BY <1>2, <1>3 DEF OpenOK, WriteOK, Deleted
<1>5. r.seq + RetainRows <= h /\ (RetainDays > 0 => r.ts < now - RetainDays)
  BY <1>2, <1>3, <1>4 DEF OpenOK, PruneOK, Deleted
<1>6. /\ r.seq \in 1 .. n /\ n \in Nat
      /\ Cardinality({q \in journal : q.seq > r.seq}) = n - r.seq
  BY NewerRows, LenProperties DEF IndInv, TypeOK
<1> HIDE DEF n
<1>7. n - r.seq >= RetainRows
  BY <1>5, <1>6, FloorsAreCounts
<1> QED BY <1>5, <1>6, <1>7

-----------------------------------------------------------------------------
(***************************************************************************)
(* The theorems.  They are about SpecHealed, in which the counter may also *)
(* be lost or fall behind; its behaviours include those of Spec.           *)
(***************************************************************************)

\* The inductive invariant holds as long as nobody touches the counter.
THEOREM Invariance ==
  ASSUME RetainRows > 0
  PROVE  Spec => []IndInv
<1>1. IndInv /\ [Next]_vars => IndInv'
  BY Inductive
<1> QED BY Initial, <1>1, PTL DEF Spec

\* It also holds through losses of the counter and their repair.
THEOREM HealedInvariance ==
  ASSUME RetainRows > 0
  PROVE  SpecHealed => []IndInv
<1>1. InitRestore => IndInv
  BY Initial DEF InitRestore
<1>2. IndInv /\ [NextHealed]_varsRestore => IndInv'
  BY InductiveHealed
<1> QED BY <1>1, <1>2, PTL DEF SpecHealed

\* Transactions, prunes, reads and repairs keep every variable within its type.
THEOREM TypeCorrect ==
  ASSUME RetainRows > 0
  PROVE  SpecHealed => []TypeOK
<1>1. IndInv => TypeOK
  BY DEF IndInv
<1> QED BY HealedInvariance, <1>1, PTL

(***************************************************************************)
(* The seqs insertEventRow hands out are 1, 2, 3, ... in the order of the  *)
(* commits, however many writers and prunes run at once, and although the  *)
(* counter is lost or set back in between: healEventSeqCounter and the     *)
(* second attempt after a duplicate key find the head again.               *)
(***************************************************************************)
THEOREM SeqsAreGapless ==
  ASSUME RetainRows > 0
  PROVE  SpecHealed => []SeqContract
<1>1. IndInv => SeqContract
  BY DEF IndInv
<1> QED BY HealedInvariance, <1>1, PTL

\* PruneEventsInTx never leaves a hole: the journal is a suffix of history.
THEOREM PruningLeavesSuffix ==
  ASSUME RetainRows > 0
  PROVE  SpecHealed => []RetainedSuffix
<1>1. ASSUME IndInv PROVE RetainedSuffix
  <2> DEFINE n == Len(hist)
             P == {q \in 1 .. n + 1 : hist[q] \in journal \/ q = n + 1}
  <2>1. n \in Nat /\ RowsOf(journal, n) /\ \A i \in 1 .. n : hist[i].seq = i
    BY <1>1, LenProperties DEF IndInv, TypeOK, TablesOK, SeqContract
  <2>2. PICK lo \in P : \A q \in P : lo <= q
    <3>1. P \in SUBSET Nat /\ P # {}
      BY <2>1
    <3> HIDE DEF P
    <3> QED BY <3>1, LeastExists, Zenon
  <2>3. journal = {hist[i] : i \in lo .. n}
    <3>1. ASSUME NEW r \in journal PROVE r \in {hist[i] : i \in lo .. n}
      <4>1. r.seq \in 1 .. n /\ hist[r.seq] = r
        BY <2>1 DEF RowsOf
      <4>2. r.seq \in P
        BY <2>1, <4>1
      <4> QED BY <2>1, <2>2, <4>1, <4>2
    <3>2. ASSUME NEW i \in lo .. n PROVE hist[i] \in journal
      <4>1. lo \in 1 .. n /\ hist[lo] \in journal /\ hist[lo].seq = lo
        BY <2>1
      <4> QED BY <2>1, <4>1 DEF RowsOf
    <3> QED BY <3>1, <3>2
  <2> QED BY <2>1, <2>2, <2>3 DEF RetainedSuffix
<1> QED BY HealedInvariance, <1>1, PTL

\* A tailing consumer learns of every record or of its loss.
THEOREM TailsMissNothing ==
  ASSUME RetainRows > 0
  PROVE  SpecHealed => []NoSilentLoss
<1>1. IndInv => NoSilentLoss
  BY DEF IndInv
<1> QED BY HealedInvariance, <1>1, PTL

\* ComputeEventsTruncation reports no record that can still be read.
THEOREM TruncationIsHonest ==
  ASSUME RetainRows > 0
  PROVE  SpecHealed => []LossesAreReal
<1>1. IndInv => LossesAreReal
  BY DEF IndInv
<1> QED BY HealedInvariance, <1>1, PTL

(***************************************************************************)
(* A prune whose floors were resolved on an old snapshot still deletes no  *)
(* row that RetainRows or RetainDays protects when it commits: the head    *)
(* only moves away from what it decided to delete, and so does the clock.  *)
(***************************************************************************)
THEOREM PrunesSpareFloors ==
  ASSUME RetainRows > 0
  PROVE  SpecHealed => PruneSparesFloors
<1>1. IndInv /\ [NextHealed]_varsRestore =>
        [\A r \in journal \ journal' :
           /\ Cardinality({q \in journal : q.seq > r.seq}) >= RetainRows
           /\ RetainDays > 0 => r.ts < now - RetainDays]_vars
  BY DeletesBelowFloors
<1> QED BY <1>1, HealedInvariance, PTL DEF SpecHealed, PruneSparesFloors

=============================================================================
