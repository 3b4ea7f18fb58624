--------------------------- MODULE AutoPruneProofs ---------------------------
(***************************************************************************)
(* The theorems about AutoPrune.  A batch deletes the lowest rows, so the  *)
(* rows are always the newest without a hole; a bound that was resolved    *)
(* once stays safe, because the head only grows and rows only get older.   *)
(***************************************************************************)
EXTENDS AutoPrune, FiniteSetTheorems, FunctionTheorems, WellFoundedInduction, TLAPS

(* No two rows share a seq. *)
OneRowPerSeq == \A r, x \in rows : r.seq = x.seq => r = x

(* Whatever is below the bound of a pass is spared by neither floor. *)
BoundIsSafe(p) ==
    /\ pass[p].bound \in 1 .. head + 1 /\ pass[p].bound + RetainRows <= head + 1
    /\ RetainDays > 0 => \A r \in rows : r.seq < pass[p].bound => r.age > RetainDays

(* A stamp is never older than the pass that works behind it allows. *)
StampIsFresh(p) ==
    mark # NoMark /\ mark.age \in 0 .. (IF pass[p].aged THEN 2 ELSE 1)

IndInv ==
    /\ TypeOK /\ SuffixLeft /\ OneRowPerSeq
    /\ \A p \in Maintainer :
          /\ pass[p].step = "delete" => BoundIsSafe(p)
          /\ pass[p].step \in {"bound", "delete"} => StampIsFresh(p)

-----------------------------------------------------------------------------
(* A set of naturals that is not empty has a least element. *)
LEMMA LeastExists ==
    ASSUME NEW S \in SUBSET Nat, S # {}
    PROVE  Least(S) \in S /\ \A y \in S : Least(S) <= y
<1> DEFINE R == OpToRel(<, Nat)
<1>1. PICK x \in S : \A y \in S : ~(<<y, x>> \in R)
  BY NatLessThanWellFounded, WFMin, Zenon
<1>2. ASSUME NEW y \in S, y < x PROVE <<y, x>> \in R
  <2>1. <<y, x>> \in Nat \X Nat /\ <<y, x>>[1] < <<y, x>>[2]
    BY <1>2
  <2> QED BY <2>1, Zenon DEF OpToRel
<1>3. \A y \in S : ~(y < x)
  BY <1>1, <1>2, Zenon
<1>4. \A y \in S : x <= y
  BY <1>3
<1> QED BY <1>4, Zenon DEF Least

(* What TypeOK says of one row. *)
LEMMA RowTypes ==
    ASSUME TypeOK
    PROVE  /\ \A r \in rows : r.seq \in 1 .. MaxSeq /\ r.age \in -Skew .. OldAge + Skew
                              /\ r = [seq |-> r.seq, age |-> r.age]
           /\ head \in Nat /\ Skew \in Nat /\ MaxSeq \in Nat /\ OldAge \in Nat
           /\ RetainDays \in Nat /\ RetainRows \in Nat
  BY ThrottleAssumption, FloorsAreCounts DEF TypeOK, OldAge

(* Rows with different seqs below the head: there are finitely many. *)
LEMMA FiniteRows ==
    ASSUME IndInv
    PROVE  IsFiniteSet(rows)
<1> DEFINE f == [r \in rows |-> r.seq]
<1>1. \A r \in rows : r.seq \in 1 .. MaxSeq
  BY RowTypes DEF IndInv
<1>2. f \in [rows -> 1 .. MaxSeq]
  BY <1>1
<1>3. IsInjective(f)
  BY DEF IsInjective, IndInv, OneRowPerSeq
<1>4. MaxSeq \in Nat
  BY ThrottleAssumption
<1> HIDE DEF f
<1>5. f \in Injection(rows, 1 .. MaxSeq)
  BY <1>2, <1>3 DEF Injection
<1> QED BY <1>4, <1>5, FS_Interval, FS_Injection

(* With one row per seq, the rows behind a seq are as many as the head is away. *)
LEMMA RowsBehind ==
    ASSUME IndInv, NEW q \in Seqs(rows)
    PROVE  /\ IsFiniteSet({x \in rows : x.seq > q})
           /\ Cardinality({x \in rows : x.seq > q}) = head - q
<1> DEFINE Above == {x \in rows : x.seq > q}
           f == [n \in q + 1 .. head |-> CHOOSE x \in rows : x.seq = n]
<1>1. PICK lo \in 1 .. head + 1 : Seqs(rows) = lo .. head
  BY DEF IndInv, SuffixLeft
<1>2. q \in lo .. head /\ head \in Nat /\ q \in Nat
  BY <1>1, RowTypes DEF IndInv
<1>3. \A n \in q + 1 .. head : f[n] \in rows /\ f[n].seq = n
  <2> SUFFICES ASSUME NEW n \in q + 1 .. head PROVE f[n] \in rows /\ f[n].seq = n
    OBVIOUS
  <2>1. n \in Seqs(rows)
    BY <1>1, <1>2
  <2>2. \E x \in rows : x.seq = n
    BY <2>1 DEF Seqs
  <2> QED BY <2>2
<1>4. \A x \in Above : x.seq \in q + 1 .. head /\ f[x.seq] = x
  <2> SUFFICES ASSUME NEW x \in Above PROVE x.seq \in q + 1 .. head /\ f[x.seq] = x
    OBVIOUS
  <2>1. x.seq \in lo .. head /\ x.seq > q
    BY <1>1 DEF Seqs
  <2>2. x.seq \in q + 1 .. head
    BY <1>2, <2>1
  <2>3. f[x.seq] \in rows /\ f[x.seq].seq = x.seq
    BY <1>3, <2>2
  <2> QED BY <2>2, <2>3 DEF IndInv, OneRowPerSeq
<1>5. \A n \in q + 1 .. head : f[n] \in Above
  BY <1>2, <1>3
<1>6. f \in Bijection(q + 1 .. head, Above)
  <2>1. f \in [q + 1 .. head -> Above]
    BY <1>5
  <2>2. IsInjective(f)
    BY <1>3 DEF IsInjective
  <2>3. \A x \in Above : \E n \in q + 1 .. head : f[n] = x
    BY <1>4
  <2> HIDE DEF f, Above
  <2> QED BY <2>1, <2>2, <2>3 DEF Bijection, Injection, Surjection
<1> HIDE DEF f, Above
<1>7. IsFiniteSet(q + 1 .. head) /\ Cardinality(q + 1 .. head) = head - q
  BY <1>2, FS_Interval
<1>8. IsFiniteSet(Above) /\ Cardinality(Above) = head - q
  <2>1. ExistsBijection(q + 1 .. head, Above)
    BY <1>6 DEF ExistsBijection
  <2> QED BY <1>7, <2>1, FS_Bijection
<1> QED BY <1>8 DEF Above

(* A bound that is resolved spares both floors at that moment. *)
LEMMA ResolvedBound ==
    ASSUME IndInv, NEW p \in Maintainer,
           ~EventsPruneSkips(Seqs(rows), young(p), head + 1),
           NEW b, b = EventsPruneBound(Seqs(rows), young(p), head + 1)
    PROVE  /\ b \in 1 .. head + 1 /\ b + RetainRows <= head + 1
           /\ RetainDays > 0 => \A r \in rows : r.seq < b => r.age > RetainDays
<1> DEFINE ceil == IF RetainRows > 0 THEN {q + 1 : q \in RowsCeil(Seqs(rows))} ELSE {}
           fresh == IF RetainDays > 0 THEN young(p) ELSE {}
           B == {head + 1} \cup ceil \cup fresh
<1>1. TypeOK /\ head \in Nat /\ RetainDays \in Nat /\ RetainRows \in Nat
  BY RowTypes DEF IndInv
<1>2. Seqs(rows) \subseteq Nat /\ young(p) \subseteq Nat
  BY <1>1, RowTypes DEF Seqs, young
<1>3. B \in SUBSET Nat /\ B # {}
  <2>1. RowsCeil(Seqs(rows)) \subseteq Nat
    BY <1>2 DEF RowsCeil
  <2>2. ceil \subseteq Nat
    BY <2>1
  <2>3. fresh \subseteq Nat
    BY <1>2
  <2> HIDE DEF ceil, fresh
  <2> QED BY <1>1, <2>2, <2>3
<1>4. b = Least(B)
  BY DEF EventsPruneBound
<1> HIDE DEF B
<1>5. b \in B /\ (\A y \in B : b <= y) /\ b \in Nat
  <2>1. Least(B) \in B /\ \A y \in B : Least(B) <= y
    BY ONLY <1>3, LeastExists
  <2> QED BY <1>3, <1>4, <2>1
<1>6. b > 1 /\ b <= head + 1
  BY <1>1, <1>5 DEF EventsPruneSkips, B
<1>7. RetainRows > 0 => b + RetainRows <= head + 1
  <2> SUFFICES ASSUME RetainRows > 0 PROVE b + RetainRows <= head + 1
    OBVIOUS
  <2>1. PICK q \in Seqs(rows) : Cardinality({z \in Seqs(rows) : z > q}) = RetainRows
    BY DEF EventsPruneSkips, RowsCeil
  <2>2. PICK lo \in 1 .. head + 1 : Seqs(rows) = lo .. head
    BY DEF IndInv, SuffixLeft
  <2>3. {z \in Seqs(rows) : z > q} = q + 1 .. head
    BY <1>1, <2>1, <2>2
  <2>4. Cardinality(q + 1 .. head) = head - q
    BY <1>1, <2>1, <2>2, FS_Interval
  <2>5. head - q = RetainRows
    BY <2>1, <2>3, <2>4
  <2>6. q + 1 \in B
    BY <2>1 DEF B, RowsCeil
  <2> QED BY <1>1, <1>2, <1>5, <2>1, <2>5, <2>6
<1>8. RetainDays > 0 => \A r \in rows : r.seq < b => r.age > RetainDays
  <2> SUFFICES ASSUME RetainDays > 0, NEW r \in rows, r.seq < b PROVE r.age > RetainDays
    OBVIOUS
  <2>1. r.seq \in Nat /\ r.age \in Int
    BY <1>1, RowTypes
  <2>2. r.seq \notin B
    BY <1>5, <2>1
  <2>3. r.seq \notin young(p)
    BY <2>2 DEF B
  <2>4. ~(r.age <= RetainDays + (IF pass[p].aged THEN 1 ELSE 0))
    BY <2>3 DEF young
  <2> QED BY <1>1, <2>1, <2>4
<1> QED BY <1>1, <1>5, <1>6, <1>7, <1>8

(***************************************************************************)
(* What a batch deletes is a prefix: a row that stays has every later row  *)
(* beside it.                                                              *)
(***************************************************************************)
LEMMA BatchIsPrefix ==
    ASSUME IndInv, NEW b \in Nat, NEW r \in rows \ BatchBelow(b), NEW x \in rows, r.seq < x.seq
    PROVE  x \notin BatchBelow(b)
<1> DEFINE Under(q) == {z \in rows : z.seq < q}
<1>1. TypeOK /\ r.seq \in Nat /\ x.seq \in Nat /\ (\A z \in rows : z.seq \in Nat)
      /\ Batch \in Nat
  BY RowTypes, ThrottleAssumption DEF IndInv
<1>2. SUFFICES ASSUME x \in BatchBelow(b) PROVE FALSE
  OBVIOUS
<1>3. x.seq < b /\ Cardinality(Under(x.seq)) < Batch
  BY <1>2 DEF BatchBelow
<1>4. ~(Cardinality(Under(r.seq)) < Batch)
  <2>1. r.seq < b
    BY <1>1, <1>3
  <2> QED BY <2>1 DEF BatchBelow
<1>5. Under(r.seq) \subseteq Under(x.seq)
  BY <1>1
<1>6. IsFiniteSet(rows)
  BY FiniteRows
<1> HIDE DEF Under
<1>7. IsFiniteSet(Under(x.seq))
  BY <1>6, FS_Subset DEF Under
<1>8. /\ Cardinality(Under(r.seq)) \in Nat /\ Cardinality(Under(x.seq)) \in Nat
      /\ Cardinality(Under(r.seq)) <= Cardinality(Under(x.seq))
  BY <1>5, <1>7, FS_Subset, FS_CardinalityType
<1> QED BY <1>1, <1>3, <1>4, <1>8

-----------------------------------------------------------------------------
(* The empty journal satisfies the invariant. *)
LEMMA Initial == Init => IndInv
<1> SUFFICES ASSUME Init PROVE IndInv
  OBVIOUS
<1>1. TypeOK
  <2>1. mark \in [age : FarFuture .. Interval, head : 0 .. MaxSeq] \cup {NoMark}
    BY ThrottleAssumption DEF Init, FarFuture
  <2>2. NoPass \in [step : {"idle", "stamp", "bound", "delete"}, head : 0 .. MaxSeq,
                    bound : 0 .. MaxSeq + 1, batches : 0 .. MaxBatches - 1, aged : BOOLEAN]
    BY ThrottleAssumption DEF NoPass
  <2> QED BY <2>1, <2>2, ThrottleAssumption DEF Init, TypeOK
<1>2. SuffixLeft
  <2>1. Seqs(rows) = 1 .. head /\ 1 \in 1 .. head + 1 /\ head = 0
    BY DEF Init, Seqs
  <2> QED BY <2>1 DEF SuffixLeft
<1>3. OneRowPerSeq /\ \A p \in Maintainer : pass[p].step = "idle"
  BY DEF Init, OneRowPerSeq, NoPass
<1> QED BY <1>1, <1>2, <1>3 DEF IndInv

(* Steps that leave the table alone, and the bounds and stamps of others. *)
LEMMA PassStepKeeps ==
    ASSUME IndInv, NEW p \in Maintainer, UNCHANGED <<rows, head>>,
           TypeOK', \A z \in Maintainer \ {p} : pass'[z] = pass[z],
           mark' = mark \/ (mark'.age \in 0 .. 1 /\ mark' # NoMark),
           pass'[p].step = "delete" => BoundIsSafe(p)',
           pass'[p].step \in {"bound", "delete"} => StampIsFresh(p)'
    PROVE  IndInv'
<1>1. rows' = rows /\ head' = head
  OBVIOUS
<1>2. SuffixLeft' /\ OneRowPerSeq'
  BY <1>1 DEF IndInv, SuffixLeft, OneRowPerSeq, Seqs
<1>3. ASSUME NEW z \in Maintainer \ {p}
      PROVE  /\ pass'[z].step = "delete" => BoundIsSafe(z)'
             /\ pass'[z].step \in {"bound", "delete"} => StampIsFresh(z)'
  BY <1>1 DEF IndInv, BoundIsSafe, StampIsFresh
<1> QED BY <1>2, <1>3 DEF IndInv

(* A new record lies above every bound. *)
LEMMA AppendStep ==
    ASSUME IndInv, Append
    PROVE  IndInv'
<1>1. PICK age \in -Skew .. Skew : rows' = rows \cup {[seq |-> head + 1, age |-> age]}
  BY DEF Append
<1>2. /\ head < MaxSeq /\ head' = head + 1 /\ mark' = mark /\ pass' = pass /\ fails' = fails
      /\ head \in Nat /\ Skew \in Nat /\ MaxSeq \in Nat /\ OldAge \in Nat /\ TypeOK
  BY RowTypes DEF Append, IndInv
<1> DEFINE n == [seq |-> head + 1, age |-> age]
<1>3. TypeOK'
  <2>1. n \in [seq : 1 .. MaxSeq, age : -Skew .. OldAge + Skew] /\ head + 1 \in 0 .. MaxSeq
    BY <1>2
  <2> QED BY <1>1, <1>2, <2>1 DEF TypeOK
<1>4. PICK lo \in 1 .. head + 1 : Seqs(rows) = lo .. head
  BY DEF IndInv, SuffixLeft
<1>5. SuffixLeft'
  <2>1. Seqs(rows') = Seqs(rows) \cup {head + 1}
    <3>1. \A q : q \in Seqs(rows') <=> \E r \in rows \cup {n} : q = r.seq
      BY <1>1 DEF Seqs
    <3>2. \A q : q \in Seqs(rows) <=> \E r \in rows : q = r.seq
      BY DEF Seqs
    <3>3. n.seq = head + 1
      OBVIOUS
    <3> HIDE DEF n
    <3> QED BY <3>1, <3>2, <3>3
  <2>2. Seqs(rows') = lo .. head' /\ lo \in 1 .. head' + 1 /\ lo <= head'
    BY <1>2, <1>4, <2>1
  <2> QED BY <2>2 DEF SuffixLeft
<1>6. \A r \in rows : r.seq # head + 1
  BY <1>2, <1>4 DEF Seqs
<1>7. OneRowPerSeq'
  BY <1>1, <1>6 DEF IndInv, OneRowPerSeq
<1>8. ASSUME NEW p \in Maintainer
      PROVE  /\ pass'[p].step = "delete" => BoundIsSafe(p)'
             /\ pass'[p].step \in {"bound", "delete"} => StampIsFresh(p)'
  <2>1. pass[p].step = "delete" => BoundIsSafe(p)'
    <3> SUFFICES ASSUME BoundIsSafe(p) PROVE BoundIsSafe(p)'
      BY <1>2 DEF IndInv
    <3>1. pass[p].bound \in 1 .. head' + 1 /\ pass[p].bound + RetainRows <= head' + 1
      BY <1>2, FloorsAreCounts DEF BoundIsSafe
    <3>2. \A r \in rows' : r.seq < pass[p].bound => r \in rows
      BY <1>1, <1>2 DEF BoundIsSafe
    <3> QED BY <1>2, <3>1, <3>2 DEF BoundIsSafe
  <2>2. pass[p].step \in {"bound", "delete"} => StampIsFresh(p)'
    BY <1>2 DEF IndInv, StampIsFresh
  <2> QED BY <1>2, <2>1, <2>2
<1> QED BY <1>3, <1>5, <1>7, <1>8 DEF IndInv

(* Rows and the watermark get older together; a pass sees one tick at most. *)
LEMMA TickStep ==
    ASSUME IndInv, Tick
    PROVE  IndInv' /\ Seqs(rows') = Seqs(rows)
<1> DEFINE Aged(r) == [r EXCEPT !.age = Older(@, OldAge)]
<1>1. /\ \A p \in Maintainer : ~pass[p].aged
      /\ rows' = {Aged(r) : r \in rows} /\ head' = head /\ fails' = fails
      /\ pass' = [p \in Maintainer |-> [pass[p] EXCEPT !.aged = pass[p].step # "idle"]]
      /\ mark' = IF mark \in {NoMark, [age |-> FarFuture, head |-> 0]}
                 THEN mark ELSE [mark EXCEPT !.age = Older(@, Interval)]
  BY DEF Tick
<1>2. /\ TypeOK /\ head \in Nat /\ Skew \in Nat /\ MaxSeq \in Nat /\ OldAge \in Nat
      /\ Tolerance \in Nat /\ Interval \in Nat /\ Interval > 2 /\ FarFuture \in Int /\ FarFuture < 0
  BY RowTypes, ThrottleAssumption DEF IndInv, FarFuture
<1>3. \A r \in rows : /\ Aged(r) \in [seq : 1 .. MaxSeq, age : -Skew .. OldAge + Skew]
                      /\ Aged(r).seq = r.seq /\ Aged(r).age >= r.age
  BY <1>2, RowTypes DEF Older, TypeOK
<1> HIDE DEF Aged
<1>4. Seqs(rows') = Seqs(rows)
  BY <1>1, <1>3 DEF Seqs
<1>5. mark' \in [age : FarFuture .. Interval, head : 0 .. MaxSeq] \cup {NoMark}
  BY <1>1, <1>2 DEF TypeOK, Older
<1>6. pass' \in [Maintainer -> [step : {"idle", "stamp", "bound", "delete"}, head : 0 .. MaxSeq,
                                bound : 0 .. MaxSeq + 1, batches : 0 .. MaxBatches - 1, aged : BOOLEAN]]
  BY <1>1, <1>2 DEF TypeOK
<1>7. TypeOK'
  BY <1>1, <1>2, <1>3, <1>5, <1>6 DEF TypeOK
<1>8. SuffixLeft'
  BY <1>1, <1>4 DEF IndInv, SuffixLeft
<1>9. OneRowPerSeq'
  BY <1>1, <1>3 DEF IndInv, OneRowPerSeq
<1>10. ASSUME NEW p \in Maintainer
       PROVE  /\ pass'[p].step = "delete" => BoundIsSafe(p)'
              /\ pass'[p].step \in {"bound", "delete"} => StampIsFresh(p)'
  <2>1. /\ pass'[p].step = pass[p].step /\ pass'[p].bound = pass[p].bound
        /\ pass[p].step # "idle" => pass'[p].aged
    BY <1>1, <1>2 DEF TypeOK
  <2>2. pass[p].step = "delete" => BoundIsSafe(p)'
    <3> SUFFICES ASSUME BoundIsSafe(p) PROVE BoundIsSafe(p)'
      BY DEF IndInv
    <3>1. RetainDays > 0 => \A r \in rows' : r.seq < pass[p].bound => r.age > RetainDays
      BY <1>1, <1>2, <1>3, RowTypes DEF BoundIsSafe
    <3> QED BY <1>1, <2>1, <3>1 DEF BoundIsSafe
  <2>3. pass[p].step \in {"bound", "delete"} => StampIsFresh(p)'
    <3> SUFFICES ASSUME pass[p].step \in {"bound", "delete"} PROVE StampIsFresh(p)'
      OBVIOUS
    <3>1. mark # NoMark /\ mark.age \in 0 .. 1 /\ mark \in [age : FarFuture .. Interval, head : 0 .. MaxSeq]
      BY <1>1, <1>2 DEF IndInv, StampIsFresh, TypeOK
    <3>2. mark' = [mark EXCEPT !.age = mark.age + 1]
      BY <1>1, <1>2, <3>1 DEF Older
    <3>3. mark' \in [age : Int, head : Nat] /\ mark'.age \in 0 .. 2
      BY <1>2, <3>1, <3>2
    <3> QED BY <2>1, <3>3, ThrottleAssumption DEF StampIsFresh
  <2> QED BY <2>1, <2>2, <2>3
<1> QED BY <1>4, <1>7, <1>8, <1>9, <1>10 DEF IndInv

(* A pass begins. *)
LEMMA CheckDueStep ==
    ASSUME IndInv, NEW p \in Maintainer, CheckDue(p)
    PROVE  IndInv'
<1>1. /\ rows' = rows /\ head' = head /\ mark' = mark /\ fails' = fails /\ TypeOK
      /\ pass' = [pass EXCEPT ![p] = [NoPass EXCEPT !.step = "stamp", !.head = head]]
  BY DEF CheckDue, IndInv
<1>2. TypeOK'
  <2>1. /\ head \in 0 .. MaxSeq /\ 0 \in 0 .. MaxSeq + 1 /\ 0 \in 0 .. MaxBatches - 1
    BY <1>1, ThrottleAssumption DEF TypeOK
  <2>2. [NoPass EXCEPT !.step = "stamp", !.head = head] \in
            [step : {"idle", "stamp", "bound", "delete"}, head : 0 .. MaxSeq,
             bound : 0 .. MaxSeq + 1, batches : 0 .. MaxBatches - 1, aged : BOOLEAN]
    BY <2>1 DEF NoPass
  <2> QED BY <1>1, <2>2 DEF TypeOK
<1>3. pass'[p].step = "stamp" /\ \A z \in Maintainer \ {p} : pass'[z] = pass[z]
  BY <1>1 DEF TypeOK, NoPass
<1> QED BY <1>1, <1>2, <1>3, PassStepKeeps

(* The stamp is at most one tick old when it is written. *)
LEMMA StampStep ==
    ASSUME IndInv, NEW p \in Maintainer, Stamp(p)
    PROVE  IndInv'
<1>1. /\ rows' = rows /\ head' = head /\ fails' = fails /\ TypeOK
      /\ mark' = [age |-> IF pass[p].aged THEN 1 ELSE 0, head |-> pass[p].head]
      /\ pass' = [pass EXCEPT ![p].step = "bound"]
  BY DEF Stamp, IndInv
<1>2. pass[p].head \in 0 .. MaxSeq /\ MaxSeq \in Nat /\ pass[p] \in [step : {"idle", "stamp", "bound", "delete"},
                                head : 0 .. MaxSeq, bound : 0 .. MaxSeq + 1,
                                batches : 0 .. MaxBatches - 1, aged : BOOLEAN]
  BY <1>1, ThrottleAssumption DEF TypeOK
<1>3. mark'.age \in 0 .. 1 /\ mark' \in [age : Int, head : Nat] /\ mark' # NoMark
  BY <1>1, <1>2, ThrottleAssumption
<1>4. mark' \in [age : FarFuture .. Interval, head : 0 .. MaxSeq]
  BY <1>1, <1>2, ThrottleAssumption DEF FarFuture
<1>5. TypeOK'
  BY <1>1, <1>2, <1>4 DEF TypeOK
<1>6. pass'[p].step = "bound" /\ \A z \in Maintainer \ {p} : pass'[z] = pass[z]
  BY <1>1 DEF TypeOK
<1>7. StampIsFresh(p)'
  BY <1>3 DEF StampIsFresh
<1> QED BY <1>1, <1>3, <1>5, <1>6, <1>7, PassStepKeeps

(* A pass resolves its bound, or finds nothing to delete. *)
LEMMA ResolveBoundStep ==
    ASSUME IndInv, NEW p \in Maintainer, ResolveBound(p)
    PROVE  IndInv'
<1> DEFINE skip == EventsPruneSkips(Seqs(rows), young(p), head + 1)
           b == EventsPruneBound(Seqs(rows), young(p), head + 1)
           Pass == [step : {"idle", "stamp", "bound", "delete"}, head : 0 .. MaxSeq,
                    bound : 0 .. MaxSeq + 1, batches : 0 .. MaxBatches - 1, aged : BOOLEAN]
<1>1. /\ rows' = rows /\ head' = head /\ mark' = mark /\ fails' = fails /\ TypeOK
      /\ pass[p].step = "bound"
      /\ pass' = [pass EXCEPT ![p] = IF skip THEN NoPass
                                     ELSE [@ EXCEPT !.step = "delete", !.bound = b]]
  BY DEF ResolveBound, IndInv
<1>2. /\ \A z \in Maintainer \ {p} : pass'[z] = pass[z]
      /\ pass'[p] = IF skip THEN NoPass ELSE [pass[p] EXCEPT !.step = "delete", !.bound = b]
      /\ pass \in [Maintainer -> Pass]
  BY <1>1 DEF TypeOK
<1>3. CASE skip
  <2>1. pass'[p] = NoPass /\ NoPass \in Pass /\ NoPass.step = "idle"
    BY <1>2, <1>3, ThrottleAssumption DEF NoPass
  <2>2. pass' \in [Maintainer -> Pass]
    BY <1>1, <1>2, <1>3, <2>1
  <2>3. TypeOK'
    BY <1>1, <2>2 DEF TypeOK
  <2> QED BY <1>1, <1>2, <2>1, <2>3, PassStepKeeps
<1>4. CASE ~skip
  <2>1. /\ b \in 1 .. head + 1 /\ b + RetainRows <= head + 1
        /\ RetainDays > 0 => \A r \in rows : r.seq < b => r.age > RetainDays
    BY <1>4, ResolvedBound
  <2> HIDE DEF b, skip
  <2>2. b \in 0 .. MaxSeq + 1
    BY <1>1, <2>1, ThrottleAssumption DEF TypeOK
  <2>3. /\ pass'[p] = [pass[p] EXCEPT !.step = "delete", !.bound = b] /\ pass'[p] \in Pass
        /\ pass'[p].bound = b /\ pass'[p].aged = pass[p].aged
    BY <1>2, <1>4, <2>2
  <2>4. pass' \in [Maintainer -> Pass]
    BY <1>1, <1>2, <2>3
  <2>5. TypeOK'
    BY <1>1, <2>4 DEF TypeOK
  <2>6. BoundIsSafe(p)'
    BY <1>1, <2>1, <2>3 DEF BoundIsSafe
  <2>7. StampIsFresh(p)'
    BY <1>1, <2>3 DEF IndInv, StampIsFresh
  <2> QED BY <1>1, <1>2, <2>5, <2>6, <2>7, PassStepKeeps
<1> QED BY <1>3, <1>4

(* A pass that fails forgets its bound and leaves its stamp. *)
LEMMA FailStep ==
    ASSUME IndInv, NEW p \in Maintainer, Fail(p)
    PROVE  IndInv'
<1>1. /\ rows' = rows /\ head' = head /\ mark' = mark /\ TypeOK /\ fails < MaxFails
      /\ fails' = fails + 1 /\ pass' = [pass EXCEPT ![p] = NoPass]
  BY DEF Fail, IndInv
<1>2. TypeOK'
  BY <1>1, ThrottleAssumption DEF TypeOK, NoPass
<1>3. pass'[p].step = "idle" /\ \A z \in Maintainer \ {p} : pass'[z] = pass[z]
  BY <1>1 DEF TypeOK, NoPass
<1> QED BY <1>1, <1>2, <1>3, PassStepKeeps

(* A batch leaves a suffix, and the newest record with it when rows are kept. *)
LEMMA BatchLeavesSuffix ==
    ASSUME IndInv, NEW b \in 1 .. head + 1, b + RetainRows <= head + 1
    PROVE  \E lo \in 1 .. head + 1 : /\ Seqs(rows \ BatchBelow(b)) = lo .. head
                                     /\ RetainRows > 0 /\ head > 0 => lo <= head
<1> DEFINE left == rows \ BatchBelow(b)
           S == Seqs(left)
<1>1. /\ TypeOK /\ head \in Nat /\ RetainRows \in Nat /\ b \in Nat
      /\ \A r \in rows : r.seq \in Nat
  BY RowTypes DEF IndInv
<1>2. PICK lo \in 1 .. head + 1 :
        Seqs(rows) = lo .. head /\ (RetainRows > 0 /\ head > 0 => lo <= head)
  BY DEF IndInv, SuffixLeft
<1>3. S \subseteq lo .. head
  BY <1>2 DEF Seqs
<1>4. RetainRows > 0 /\ head > 0 => head \in S
  <2> SUFFICES ASSUME RetainRows > 0, head > 0 PROVE head \in S
    OBVIOUS
  <2>1. head \in Seqs(rows)
    BY <1>1, <1>2
  <2>2. PICK r \in rows : r.seq = head
    BY <2>1 DEF Seqs
  <2>3. ~(r.seq < b)
    BY <1>1, <2>2
  <2>4. r \in left
    BY <2>3 DEF BatchBelow
  <2> QED BY <2>2, <2>4 DEF Seqs
<1>5. \A q \in S : \A n \in q .. head : n \in S
  <2> SUFFICES ASSUME NEW q \in S, NEW n \in q .. head, n # q PROVE n \in S
    OBVIOUS
  <2>1. PICK r \in left : r.seq = q
    BY DEF Seqs
  <2>2. n \in Seqs(rows) /\ q < n
    <3>1. q \in lo .. head
      BY <1>3
    <3> QED BY <1>1, <1>2, <3>1
  <2>3. PICK x \in rows : x.seq = n
    BY <2>2 DEF Seqs
  <2>4. x \notin BatchBelow(b)
    BY <1>1, <2>1, <2>2, <2>3, BatchIsPrefix
  <2> QED BY <2>3, <2>4 DEF Seqs
<1> HIDE DEF S, left
<1>6. CASE S = {}
  <2>1. S = head + 1 .. head /\ head + 1 \in 1 .. head + 1
    BY <1>1, <1>6
  <2> QED BY <1>4, <1>6, <2>1 DEF S, left
<1>7. CASE S # {}
  <2>1. S \in SUBSET Nat
    BY <1>1, <1>3
  <2>2. PICK m \in S : \A y \in S : m <= y
    BY <1>7, <2>1, LeastExists
  <2>3. m \in 1 .. head + 1 /\ m <= head
    BY <1>1, <1>3, <2>2
  <2>4. S = m .. head
    <3>1. \A n \in S : n \in m .. head
      BY <1>1, <1>3, <2>2, <2>3
    <3>2. \A n \in m .. head : n \in S
      BY <1>5
    <3> QED BY <3>1, <3>2
  <2> QED BY <2>3, <2>4 DEF S, left
<1> QED BY <1>6, <1>7

(* A batch is deleted; the rows that are left keep their ages. *)
LEMMA DeleteBatchStep ==
    ASSUME IndInv, NEW p \in Maintainer, DeleteBatch(p)
    PROVE  IndInv'
<1> DEFINE more == Cardinality(BatchBelow(pass[p].bound)) = Batch /\ pass[p].batches + 1 < MaxBatches
           Pass == [step : {"idle", "stamp", "bound", "delete"}, head : 0 .. MaxSeq,
                    bound : 0 .. MaxSeq + 1, batches : 0 .. MaxBatches - 1, aged : BOOLEAN]
<1>1. /\ rows' = rows \ BatchBelow(pass[p].bound) /\ head' = head /\ mark' = mark /\ fails' = fails
      /\ TypeOK /\ pass[p].step = "delete"
      /\ pass' = [pass EXCEPT ![p] = IF more THEN [pass[p] EXCEPT !.batches = pass[p].batches + 1]
                                             ELSE NoPass]
  BY DEF DeleteBatch, IndInv
<1> HIDE DEF more
<1>2. BoundIsSafe(p)
  BY <1>1 DEF IndInv
<1>3. /\ \A z \in Maintainer \ {p} : pass'[z] = pass[z]
      /\ pass'[p] = IF more THEN [pass[p] EXCEPT !.batches = pass[p].batches + 1] ELSE NoPass
      /\ pass \in [Maintainer -> Pass]
  <2>1. pass \in [Maintainer -> Pass]
    BY <1>1 DEF TypeOK
  <2> HIDE DEF Pass
  <2> QED BY <1>1, <2>1
<1>4. /\ pass'[p] \in Pass
      /\ pass'[p].step = "delete" => pass'[p].bound = pass[p].bound /\ pass'[p].aged = pass[p].aged
      /\ pass'[p].step \in {"idle", "delete"}
  <2>1. CASE more
    BY <1>1, <1>3, <2>1, ThrottleAssumption DEF more
  <2>2. CASE ~more
    BY <1>3, <2>2, ThrottleAssumption DEF NoPass
  <2> QED BY <2>1, <2>2
<1>5. TypeOK'
  <2>1. pass' \in [Maintainer -> Pass]
    BY <1>1, <1>3, <1>4
  <2> QED BY <1>1, <2>1 DEF TypeOK
<1>6. SuffixLeft'
  <2>1. pass[p].bound \in 1 .. head + 1 /\ pass[p].bound + RetainRows <= head + 1
    BY <1>2 DEF BoundIsSafe
  <2> QED BY <1>1, <2>1, BatchLeavesSuffix DEF SuffixLeft
<1>7. rows' \subseteq rows /\ OneRowPerSeq'
  BY <1>1 DEF IndInv, OneRowPerSeq
<1>8. ASSUME NEW z \in Maintainer
      PROVE  /\ pass'[z].step = "delete" => BoundIsSafe(z)'
             /\ pass'[z].step \in {"bound", "delete"} => StampIsFresh(z)'
  <2>1. pass'[z].step \in {"bound", "delete"} =>
          pass[z].step = pass'[z].step /\ pass'[z].bound = pass[z].bound /\ pass'[z].aged = pass[z].aged
    BY <1>1, <1>3, <1>4
  <2>2. pass'[z].step = "delete" => BoundIsSafe(z)'
    BY <1>1, <1>7, <2>1 DEF IndInv, BoundIsSafe
  <2>3. pass'[z].step \in {"bound", "delete"} => StampIsFresh(z)'
    BY <1>1, <2>1 DEF IndInv, StampIsFresh
  <2> QED BY <2>2, <2>3
<1> QED BY <1>5, <1>6, <1>7, <1>8 DEF IndInv

(* Every step preserves the invariant. *)
LEMMA Inductive == IndInv /\ [Next]_vars => IndInv'
<1> SUFFICES ASSUME IndInv, [Next]_vars PROVE IndInv'
  OBVIOUS
<1>1. CASE Append
  BY <1>1, AppendStep
<1>2. CASE Tick
  BY <1>2, TickStep
<1>3. ASSUME NEW p \in Maintainer, PassStep(p) PROVE IndInv'
  BY <1>3, CheckDueStep, StampStep, ResolveBoundStep, DeleteBatchStep DEF PassStep
<1>4. ASSUME NEW p \in Maintainer, Fail(p) PROVE IndInv'
  BY <1>4, FailStep
<1>5. CASE UNCHANGED vars
  <2>1. rows' = rows /\ head' = head /\ mark' = mark /\ pass' = pass /\ fails' = fails
    BY <1>5 DEF vars
  <2> QED BY <2>1 DEF IndInv, TypeOK, SuffixLeft, OneRowPerSeq, BoundIsSafe, StampIsFresh, Seqs
<1> QED BY <1>1, <1>2, <1>3, <1>4, <1>5 DEF Next

LEMMA Invariance == Spec => []IndInv
  BY Initial, Inductive, PTL DEF Spec

(* A row that is gone was spared by neither floor. *)
LEMMA StepSparesFloors ==
    ASSUME IndInv, [Next]_vars, NEW r \in rows, r.seq \notin Seqs(rows')
    PROVE  /\ Cardinality({x \in rows : x.seq > r.seq}) >= RetainRows
           /\ RetainDays > 0 => r.age > RetainDays
<1>1. r.seq \in Seqs(rows)
  BY DEF Seqs
<1>2. rows' # rows
  BY <1>1
<1>3. ~Append
  BY DEF Append, Seqs
<1>4. ~Tick
  BY <1>1, TickStep
<1>5. PICK p \in Maintainer : DeleteBatch(p)
  BY <1>2, <1>3, <1>4 DEF Next, PassStep, vars, CheckDue, Stamp, ResolveBound, Fail
<1>6. r \in BatchBelow(pass[p].bound) /\ pass[p].step = "delete"
  BY <1>5 DEF DeleteBatch, Seqs
<1>7. r.seq < pass[p].bound /\ BoundIsSafe(p)
  BY <1>6 DEF BatchBelow, IndInv
<1>8. Cardinality({x \in rows : x.seq > r.seq}) = head - r.seq
  BY <1>1, RowsBehind
<1>9. head \in Nat /\ r.seq \in Nat /\ RetainRows \in Nat
  BY RowTypes DEF IndInv
<1> QED BY <1>7, <1>8, <1>9 DEF BoundIsSafe

-----------------------------------------------------------------------------
(* The throttle, the passes and the table keep their types. *)
THEOREM TypeCorrect == Spec => []TypeOK
<1>1. IndInv => TypeOK
  BY DEF IndInv
<1> QED BY <1>1, Invariance, PTL

(***************************************************************************)
(* Whatever batches of however many passes interleave, and wherever they   *)
(* die, the journal that is left is the newest records without a hole.     *)
(***************************************************************************)
THEOREM BatchesLeaveSuffix == Spec => []SuffixLeft
<1>1. IndInv => SuffixLeft
  BY DEF IndInv
<1> QED BY <1>1, Invariance, PTL

(* A pass resolves and deletes only behind a committed stamp still in force. *)
THEOREM PassesWorkStamped == Spec => []WorkIsStamped
<1>1. IndInv => WorkIsStamped
  BY ThrottleAssumption DEF IndInv, WorkIsStamped, StampIsFresh
<1> QED BY <1>1, Invariance, PTL

(***************************************************************************)
(* No batch deletes a row that either floor still protects, although its   *)
(* bound was resolved transactions earlier.                                *)
(***************************************************************************)
THEOREM FloorsAreSpared == Spec => BatchSparesFloors
<1>1. IndInv /\ [Next]_vars =>
        [\A r \in rows : r.seq \notin Seqs(rows') =>
             /\ Cardinality({x \in rows : x.seq > r.seq}) >= RetainRows
             /\ RetainDays > 0 => r.age > RetainDays]_vars
  BY StepSparesFloors
<1> QED BY <1>1, Invariance, PTL DEF Spec, BatchSparesFloors

=============================================================================
