-------------------------- MODULE EventsWatchProofs --------------------------
(***************************************************************************)
(* The theorems about EventsWatch.  Every handler step changes the record  *)
(* of one connection, so the counters follow from what that one record     *)
(* adds and takes away; what a client has received is what its connection  *)
(* has delivered, and no two clients share one.                            *)
(***************************************************************************)
EXTENDS EventsWatch, FiniteSetTheorems, TLAPS

Counted == Admitted \cup {"refused"}

(* The records a connection can have while the newest seq is n. *)
Handlers(n) == [pc : Admitted \cup {"off", "refused", "truncated"},
                since : 0 .. n, to : 0 .. n, got : 0 .. n,
                up : BOOLEAN, opened : BOOLEAN, full : BOOLEAN]

(* The wire never runs ahead of the cursor, nor the cursor of the page. *)
WireOK(r, f) ==
    /\ r.got <= r.since
    /\ r.pc = "write" => r.since <= r.to
    /\ r.pc = "truncated" => r.since + 1 < r.to /\ r.to <= f

(* What a connected client has is what its connection delivered. *)
Attached(c) == cur[c] # None => h[cur[c]].pc # "off" /\ h[cur[c]].got = lastId[c]

Alone == \A c, d \in Client : cur[c] = cur[d] /\ cur[c] # None => c = d

IndInv ==
    /\ TypeOK /\ CountsAreExact /\ Alone
    /\ floor = 1 \/ floor <= head
    /\ \A x \in Conn : WireOK(h[x], floor)
    /\ \A c \in Client : Attached(c)

-----------------------------------------------------------------------------
(* How many connections of g are at one of the points P. *)
Count(g, P) == Cardinality({x \in Conn : g[x].pc \in P})

Bit(pc, P) == IF pc \in P THEN 1 ELSE 0

(* Every such set is finite, and larger sets of points count more. *)
LEMMA CountFacts ==
    ASSUME NEW g, NEW P, NEW Q, P \subseteq Q
    PROVE  /\ Count(g, P) \in Nat /\ Count(g, Q) \in Nat /\ Cardinality(Conn) \in Nat
           /\ Count(g, P) <= Count(g, Q) /\ Count(g, Q) <= Cardinality(Conn)
<1> DEFINE A == {x \in Conn : g[x].pc \in P}
           B == {x \in Conn : g[x].pc \in Q}
<1>1. IsFiniteSet(Conn) /\ B \subseteq Conn /\ A \subseteq B
  BY WatchAssumption
<1> HIDE DEF A, B
<1>2. IsFiniteSet(B) /\ IsFiniteSet(A)
  BY <1>1, FS_Subset
<1>3. /\ Cardinality(A) \in Nat /\ Cardinality(B) \in Nat /\ Cardinality(Conn) \in Nat
      /\ Cardinality(A) <= Cardinality(B) /\ Cardinality(B) <= Cardinality(Conn)
  BY <1>1, <1>2, FS_Subset, FS_CardinalityType
<1> QED BY <1>3 DEF Count, A, B

(* One connection changes: the count moves by what it adds and takes away. *)
LEMMA CountMoves ==
    ASSUME NEW g, NEW k, NEW P, NEW x \in Conn,
           \A z \in Conn \ {x} : k[z] = g[z]
    PROVE  Count(k, P) = Count(g, P) + Bit(k[x].pc, P) - Bit(g[x].pc, P)
<1> DEFINE A == {z \in Conn : g[z].pc \in P}
           B == {z \in Conn : k[z].pc \in P}
<1>1. \A z \in Conn \ {x} : z \in A <=> z \in B
  OBVIOUS
<1>2. (x \in A <=> g[x].pc \in P) /\ (x \in B <=> k[x].pc \in P) /\ A \subseteq Conn /\ B \subseteq Conn
  OBVIOUS
<1>3. IsFiniteSet(A) /\ Cardinality(A) \in Nat
  BY WatchAssumption, FS_Subset, FS_CardinalityType
<1>4. Count(k, P) = Cardinality(B) /\ Count(g, P) = Cardinality(A)
  BY DEF Count
<1> HIDE DEF A, B
<1>5. CASE x \in A /\ x \in B
  <2>1. A = B
    BY <1>1, <1>2, <1>5
  <2>2. Bit(k[x].pc, P) = 1 /\ Bit(g[x].pc, P) = 1
    BY <1>2, <1>5 DEF Bit
  <2> QED BY <1>3, <1>4, <2>1, <2>2
<1>6. CASE x \notin A /\ x \notin B
  <2>1. A = B
    BY <1>1, <1>2, <1>6
  <2>2. Bit(k[x].pc, P) = 0 /\ Bit(g[x].pc, P) = 0
    BY <1>2, <1>6 DEF Bit
  <2> QED BY <1>3, <1>4, <2>1, <2>2
<1>7. CASE x \notin A /\ x \in B
  <2>1. B = A \cup {x}
    BY <1>1, <1>2, <1>7
  <2>2. Cardinality(B) = Cardinality(A) + 1
    BY <1>3, <1>7, <2>1, FS_AddElement
  <2>3. Bit(k[x].pc, P) = 1 /\ Bit(g[x].pc, P) = 0
    BY <1>2, <1>7 DEF Bit
  <2> QED BY <1>3, <1>4, <2>2, <2>3
<1>8. CASE x \in A /\ x \notin B
  <2>1. B = A \ {x}
    BY <1>1, <1>2, <1>8
  <2>2. Cardinality(B) = Cardinality(A) - 1
    BY <1>3, <1>8, <2>1, FS_RemoveElement
  <2>3. Bit(k[x].pc, P) = 0 /\ Bit(g[x].pc, P) = 1
    BY <1>2, <1>8 DEF Bit
  <2> QED BY <1>3, <1>4, <2>2, <2>3
<1> QED BY <1>5, <1>6, <1>7, <1>8

(* The same for the step of a handler. *)
LEMMA CountStep ==
    ASSUME NEW P, NEW x \in Conn, NEW r, h \in [Conn -> Handlers(head)], h' = [h EXCEPT ![x] = r]
    PROVE  Count(h', P) = Count(h, P) + Bit(r.pc, P) - Bit(h[x].pc, P)
<1>1. (\A z \in Conn \ {x} : h'[z] = h[z]) /\ h'[x] = r
  OBVIOUS
<1> SUFFICES Count(h', P) = Count(h, P) + Bit(h'[x].pc, P) - Bit(h[x].pc, P)
  BY <1>1
<1> QED BY ONLY <1>1, CountMoves

(***************************************************************************)
(* The counters stay exact when a connection's record becomes r and they   *)
(* move with it; a new stream is admitted only within the cap.             *)
(***************************************************************************)
LEMMA CountersStep ==
    ASSUME IndInv, NEW x \in Conn, NEW r, h' = [h EXCEPT ![x] = r],
           live' = live + Bit(r.pc, Counted) - Bit(h[x].pc, Counted),
           sem' = sem + Bit(r.pc, {"reading"}) - Bit(h[x].pc, {"reading"}),
           r.pc = "reading" => h[x].pc = "reading" \/ sem < Slots,
           r.pc \in Admitted => h[x].pc \in Admitted \/ live' <= MaxStreams
    PROVE  CountsAreExact' /\ live' \in 0 .. Cardinality(Conn) /\ sem' \in 0 .. Slots
<1>1. /\ Count(h, Admitted) <= MaxStreams /\ live = Count(h, Counted)
      /\ sem = Count(h, {"reading"}) /\ sem <= Slots
  BY DEF IndInv, CountsAreExact, In, Count, Counted
<1>2. /\ Count(h', Admitted) = Count(h, Admitted) + Bit(r.pc, Admitted) - Bit(h[x].pc, Admitted)
      /\ Count(h', Counted) = Count(h, Counted) + Bit(r.pc, Counted) - Bit(h[x].pc, Counted)
      /\ Count(h', {"reading"}) = Count(h, {"reading"}) + Bit(r.pc, {"reading"})
                                    - Bit(h[x].pc, {"reading"})
  <2>1. h \in [Conn -> Handlers(head)]
    BY DEF IndInv, TypeOK, Handlers
  <2> QED BY <2>1, CountStep
<1>3. /\ Count(h, Admitted) \in Nat /\ Count(h', Admitted) \in Nat /\ Count(h', Counted) \in Nat
      /\ Count(h', Admitted) <= Count(h', Counted) /\ Count(h', Counted) <= Cardinality(Conn)
      /\ Count(h', {"reading"}) \in Nat /\ Count(h, {"reading"}) \in Nat /\ Cardinality(Conn) \in Nat
  <2>1. Admitted \subseteq Counted /\ {"reading"} \subseteq Counted
    BY DEF Counted, Admitted
  <2> QED BY <2>1, CountFacts
<1>4. Slots \in Nat /\ MaxStreams \in Nat
  BY WatchAssumption
<1>5. live' = Count(h', Counted) /\ sem' = Count(h', {"reading"})
  BY <1>1, <1>2, <1>3 DEF Bit
<1>6. sem' <= Slots
  BY <1>1, <1>3, <1>4 DEF Bit
<1>7. Count(h', Admitted) <= MaxStreams
  BY <1>1, <1>2, <1>3, <1>4, <1>5 DEF Bit
<1>8. CountsAreExact'
  BY <1>5, <1>6, <1>7 DEF CountsAreExact, In, Count, Counted
<1> QED BY <1>3, <1>4, <1>5, <1>6, <1>8

(* A step at one connection, in the terms of its new record. *)
LEMMA ConnectionStep ==
    ASSUME IndInv, NEW x \in Conn, NEW r \in Handlers(head), h' = [h EXCEPT ![x] = r],
           floor' = floor, head' = head, closing' \in BOOLEAN, breaks' \in 0 .. MaxBreaks,
           WireOK(r, floor),
           live' = live + Bit(r.pc, Counted) - Bit(h[x].pc, Counted),
           sem' = sem + Bit(r.pc, {"reading"}) - Bit(h[x].pc, {"reading"}),
           r.pc = "reading" => h[x].pc = "reading" \/ sem < Slots,
           r.pc \in Admitted => h[x].pc \in Admitted \/ live' <= MaxStreams,
           cur' \in [Client -> Conn \cup {None}], lastId' \in [Client -> 0 .. head], Alone',
           \A c \in Client : cur'[c] # None =>
               \/ cur'[c] = x /\ r.pc # "off" /\ r.got = lastId'[c]
               \/ cur'[c] # x /\ cur'[c] = cur[c] /\ lastId'[c] = lastId[c]
    PROVE  IndInv'
<1>1. (\A z \in Conn \ {x} : h'[z] = h[z]) /\ h'[x] = r
  BY DEF IndInv, TypeOK
<1>2. CountsAreExact' /\ live' \in 0 .. Cardinality(Conn) /\ sem' \in 0 .. Slots
  BY CountersStep
<1>3. h' \in [Conn -> Handlers(head)]
  <2>1. h \in [Conn -> Handlers(head)]
    BY DEF IndInv, TypeOK, Handlers
  <2> QED BY <2>1
<1>4. TypeOK'
  BY <1>2, <1>3 DEF IndInv, TypeOK, Handlers
<1>5. \A z \in Conn : WireOK(h'[z], floor')
  BY <1>1 DEF IndInv
<1>6. \A c \in Client : Attached(c)'
  <2> SUFFICES ASSUME NEW c \in Client, cur'[c] # None
               PROVE  h'[cur'[c]].pc # "off" /\ h'[cur'[c]].got = lastId'[c]
    BY DEF Attached
  <2>1. CASE cur'[c] = x
    BY <1>1, <2>1
  <2>2. CASE cur'[c] # x
    <3>1. cur'[c] \in Conn \ {x} /\ cur'[c] = cur[c] /\ lastId'[c] = lastId[c]
      BY <2>2
    <3> QED BY <1>1, <3>1 DEF IndInv, Attached
  <2> QED BY <2>1, <2>2
<1> QED BY <1>2, <1>4, <1>5, <1>6 DEF IndInv

(* The fields of a connection's record. *)
LEMMA HandlerTypes ==
    ASSUME IndInv, NEW x \in Conn
    PROVE  /\ h[x] \in Handlers(head) /\ WireOK(h[x], floor)
           /\ h \in [Conn -> Handlers(head)] /\ head \in Nat /\ floor \in Nat
           /\ h[x].pc \in Admitted \cup {"off", "refused", "truncated"}
           /\ h[x].since \in 0 .. head /\ h[x].to \in 0 .. head /\ h[x].got \in 0 .. head
           /\ cur \in [Client -> Conn \cup {None}] /\ lastId \in [Client -> 0 .. head]
           /\ closing \in BOOLEAN /\ breaks \in 0 .. MaxBreaks
<1>1. h \in [Conn -> Handlers(head)]
  BY DEF IndInv, TypeOK, Handlers
<1>2. h[x] \in Handlers(head)
  BY <1>1
<1>3. head \in Nat /\ floor \in Nat
  BY WatchAssumption DEF IndInv, TypeOK
<1> QED BY <1>1, <1>2, <1>3 DEF IndInv, TypeOK, Handlers

-----------------------------------------------------------------------------
(* A handler step that leaves the clients alone and delivers nothing. *)
LEMMA HandlerStep ==
    ASSUME IndInv, NEW x \in Conn, NEW r \in Handlers(head), h' = [h EXCEPT ![x] = r],
           UNCHANGED <<floor, head, closing, cur, lastId, breaks>>, WireOK(r, floor),
           live' = live + Bit(r.pc, Counted) - Bit(h[x].pc, Counted),
           sem' = sem + Bit(r.pc, {"reading"}) - Bit(h[x].pc, {"reading"}),
           r.pc = "reading" => h[x].pc = "reading" \/ sem < Slots,
           r.pc \in Admitted => h[x].pc \in Admitted,
           r.pc # "off", r.got = h[x].got
    PROVE  IndInv'
<1>1. /\ floor' = floor /\ head' = head /\ closing' = closing /\ cur' = cur /\ lastId' = lastId
      /\ breaks' = breaks
  OBVIOUS
<1>2. /\ closing' \in BOOLEAN /\ breaks' \in 0 .. MaxBreaks
      /\ cur' \in [Client -> Conn \cup {None}] /\ lastId' \in [Client -> 0 .. head]
  BY <1>1, HandlerTypes
<1>3. Alone'
  BY <1>1 DEF IndInv, Alone
<1>4. \A c \in Client : cur'[c] # None =>
               \/ cur'[c] = x /\ r.pc # "off" /\ r.got = lastId'[c]
               \/ cur'[c] # x /\ cur'[c] = cur[c] /\ lastId'[c] = lastId[c]
  BY <1>1 DEF IndInv, Attached
<1> QED BY <1>1, <1>2, <1>3, <1>4, ConnectionStep

(* A handler ends: its record is cleared and its client is disconnected. *)
LEMMA LeaveStep ==
    ASSUME IndInv, NEW x \in Conn, Leave(x), h[x].pc \in Counted,
           UNCHANGED <<floor, head, closing, lastId>>, breaks' \in 0 .. MaxBreaks,
           sem' = IF h[x].pc = "reading" THEN sem - 1 ELSE sem
    PROVE  IndInv'
<1>1. /\ floor' = floor /\ head' = head /\ closing' = closing /\ lastId' = lastId
      /\ live' = live - 1 /\ h' = [h EXCEPT ![x] = Off]
      /\ cur' = [c \in Client |-> IF cur[c] = x THEN None ELSE cur[c]]
  BY DEF Leave, Hangup
<1>2. /\ closing \in BOOLEAN /\ cur \in [Client -> Conn \cup {None}]
      /\ lastId \in [Client -> 0 .. head] /\ head \in Nat
  BY HandlerTypes
<1>3. Off \in Handlers(head) /\ WireOK(Off, floor) /\ Off.pc = "off"
  BY <1>2 DEF Off, Handlers, WireOK
<1>4. "off" \notin Counted /\ "off" \notin Admitted
  BY DEF Counted, Admitted
<1>5. live \in Int /\ sem \in Int
  BY CountFacts DEF IndInv, TypeOK
<1>6. /\ live' = live + Bit(Off.pc, Counted) - Bit(h[x].pc, Counted)
      /\ sem' = sem + Bit(Off.pc, {"reading"}) - Bit(h[x].pc, {"reading"})
  BY <1>1, <1>3, <1>4, <1>5 DEF Bit
<1>7. cur' \in [Client -> Conn \cup {None}] /\ \A c \in Client : cur'[c] # x /\ (cur'[c] # None => cur'[c] = cur[c])
  BY <1>1, <1>2, WatchAssumption
<1>8. Alone'
  BY <1>7 DEF IndInv, Alone
<1>9. IndInv'
  BY <1>1, <1>2, <1>3, <1>4, <1>6, <1>7, <1>8, ConnectionStep
<1> QED BY <1>9

(* The steps of a handler before it reads. *)
LEMMA AcquireStep ==
    ASSUME IndInv, NEW x \in Conn, Acquire(x) \/ Refuse(x) \/ Busy(x)
    PROVE  IndInv'
<1> DEFINE H(pc) == [h[x] EXCEPT !.pc = pc]
<1>1. /\ h[x] \in Handlers(head) /\ WireOK(h[x], floor) /\ breaks \in 0 .. MaxBreaks
      /\ live \in Int /\ sem \in Int
  BY HandlerTypes, CountFacts DEF IndInv, TypeOK
<1>2. CASE Acquire(x)
  <2>1. /\ h[x].pc = "read" /\ sem < Slots /\ sem' = sem + 1 /\ live' = live
        /\ h' = [h EXCEPT ![x] = H("reading")]
        /\ UNCHANGED <<floor, head, closing, cur, lastId, breaks>>
    BY <1>2 DEF Acquire, journal, client
  <2>2. /\ H("reading") \in Handlers(head) /\ WireOK(H("reading"), floor) /\ H("reading").pc = "reading"
        /\ H("reading").got = h[x].got
    BY <1>1 DEF Handlers, WireOK, Admitted
  <2> HIDE DEF H
  <2>3. /\ live' = live + Bit(H("reading").pc, Counted) - Bit(h[x].pc, Counted)
        /\ sem' = sem + Bit(H("reading").pc, {"reading"}) - Bit(h[x].pc, {"reading"})
        /\ h[x].pc \in Admitted
    BY <1>1, <2>1, <2>2 DEF Bit, Counted, Admitted
  <2> QED BY <2>1, <2>2, <2>3, HandlerStep
<1>3. CASE Refuse(x)
  <2>1. h[x].pc = "refused" /\ h[x].pc \in Counted /\ h[x].pc # "reading"
    BY <1>3 DEF Refuse, Counted
  <2> QED BY <1>1, <1>3, <2>1, LeaveStep DEF Refuse, journal
<1>4. CASE Busy(x) /\ ~h[x].opened
  <2>1. h[x].pc = "read" /\ h[x].pc \in Counted /\ h[x].pc # "reading"
    BY <1>4 DEF Busy, Counted, Admitted
  <2> QED BY <1>1, <1>4, <2>1, LeaveStep DEF Busy, journal
<1>5. CASE Busy(x) /\ h[x].opened
  <2>1. /\ h[x].pc = "read" /\ sem' = sem /\ live' = live
        /\ h' = [h EXCEPT ![x] = H("wait")]
        /\ UNCHANGED <<floor, head, closing, cur, lastId, breaks>>
    BY <1>5 DEF Busy, journal
  <2>2. /\ H("wait") \in Handlers(head) /\ WireOK(H("wait"), floor) /\ H("wait").pc = "wait"
        /\ H("wait").got = h[x].got
    BY <1>1 DEF Handlers, WireOK, Admitted
  <2> HIDE DEF H
  <2>3. /\ live' = live + Bit(H("wait").pc, Counted) - Bit(h[x].pc, Counted)
        /\ sem' = sem + Bit(H("wait").pc, {"reading"}) - Bit(h[x].pc, {"reading"})
        /\ h[x].pc \in Admitted
    BY <1>1, <2>1, <2>2 DEF Bit, Counted, Admitted
  <2> QED BY <2>1, <2>2, <2>3, HandlerStep
<1> QED BY <1>2, <1>3, <1>4, <1>5

(* A read gives its slot back, with a page or with the truncation. *)
LEMMA ReadStep ==
    ASSUME IndInv, NEW x \in Conn, ReadPage(x) \/ ReadTruncated(x)
    PROVE  IndInv'
<1>1. /\ h[x] \in Handlers(head) /\ WireOK(h[x], floor) /\ live \in Int /\ sem \in Int
      /\ head \in Nat /\ floor \in Nat /\ Batch \in Nat \ {0} /\ h[x].since \in 0 .. head
      /\ h \in [Conn -> Handlers(head)]
  BY HandlerTypes, CountFacts, WatchAssumption DEF IndInv, TypeOK
<1>2. CASE ReadPage(x)
  <2> DEFINE r == [h[x] EXCEPT !.pc = "write", !.to = PageEnd(x), !.opened = TRUE,
                               !.full = (PageEnd(x) = h[x].since + Batch)]
  <2>1. /\ h[x].pc = "reading" /\ sem' = sem - 1 /\ live' = live
        /\ UNCHANGED <<floor, head, closing, cur, lastId, breaks>>
    BY <1>2 DEF ReadPage, journal, client
  <2>2. h' = [h EXCEPT ![x] = r]
    BY <1>1, <1>2 DEF ReadPage
  <2>3. PageEnd(x) \in 0 .. head /\ h[x].since <= PageEnd(x)
    BY <1>1 DEF PageEnd
  <2>4. /\ r \in Handlers(head) /\ r.pc = "write" /\ r.got = h[x].got
        /\ r.since = h[x].since /\ r.to = PageEnd(x)
    BY <1>1, <2>3 DEF Handlers, Admitted
  <2> HIDE DEF r
  <2>5. WireOK(r, floor)
    BY <1>1, <2>3, <2>4 DEF WireOK
  <2>6. /\ live' = live + Bit(r.pc, Counted) - Bit(h[x].pc, Counted)
        /\ sem' = sem + Bit(r.pc, {"reading"}) - Bit(h[x].pc, {"reading"})
        /\ h[x].pc \in Admitted
    BY <1>1, <2>1, <2>4 DEF Bit, Counted, Admitted
  <2> QED BY <2>1, <2>2, <2>4, <2>5, <2>6, HandlerStep
<1>3. CASE ReadTruncated(x)
  <2> DEFINE r == [h[x] EXCEPT !.pc = "truncated", !.to = floor]
  <2>1. /\ h[x].pc = "reading" /\ sem' = sem - 1 /\ live' = live - 1
        /\ UNCHANGED <<floor, head, closing, cur, lastId, breaks>> /\ h[x].since + 1 < floor
    BY <1>3 DEF ReadTruncated, Truncated, journal, client
  <2>2. h' = [h EXCEPT ![x] = r]
    BY <1>1, <1>3 DEF ReadTruncated
  <2>3. floor \in 0 .. head
    BY <1>1, <2>1 DEF IndInv
  <2>4. /\ r \in Handlers(head) /\ r.pc = "truncated" /\ r.got = h[x].got
        /\ r.since = h[x].since /\ r.to = floor
    BY <1>1, <2>3 DEF Handlers
  <2> HIDE DEF r
  <2>5. WireOK(r, floor)
    BY <1>1, <2>1, <2>4 DEF WireOK
  <2>6. /\ live' = live + Bit(r.pc, Counted) - Bit(h[x].pc, Counted)
        /\ sem' = sem + Bit(r.pc, {"reading"}) - Bit(h[x].pc, {"reading"})
        /\ r.pc \notin Admitted
    BY <1>1, <2>1, <2>4 DEF Bit, Counted, Admitted
  <2> QED BY <2>1, <2>2, <2>4, <2>5, <2>6, HandlerStep
<1> QED BY <1>2, <1>3

(* A handler writes a record, ends its page, or wakes up to read again. *)
LEMMA WriteStep ==
    ASSUME IndInv, NEW x \in Conn, WriteRecord(x) \/ PageDone(x) \/ Poll(x)
    PROVE  IndInv'
<1>1. /\ h[x] \in Handlers(head) /\ WireOK(h[x], floor) /\ live \in Int /\ sem \in Int
      /\ head \in Nat /\ h \in [Conn -> Handlers(head)]
      /\ h[x].since \in 0 .. head /\ h[x].to \in 0 .. head /\ h[x].got \in 0 .. head
  BY HandlerTypes, CountFacts DEF IndInv, TypeOK
<1>2. /\ h[x].pc \in {"write", "wait"} /\ sem' = sem /\ live' = live
      /\ UNCHANGED <<floor, head, closing, cur, lastId, breaks>>
  BY DEF WriteRecord, PageDone, Poll, journal, client
<1>3. PICK r \in Handlers(head) :
        /\ h' = [h EXCEPT ![x] = r] /\ r.got = h[x].got /\ WireOK(r, floor)
        /\ r.pc \in {"write", "read", "wait"}
  <2>1. CASE WriteRecord(x)
    <3> DEFINE r == [h[x] EXCEPT !.since = h[x].since + 1]
    <3>1. h[x].pc = "write" /\ h[x].since < h[x].to /\ h' = [h EXCEPT ![x] = r]
      BY <1>1, <2>1 DEF WriteRecord
    <3>2. h[x].since + 1 \in 0 .. head
      BY <1>1, <3>1
    <3>3. /\ r \in Handlers(head) /\ r.pc = "write" /\ r.got = h[x].got
          /\ r.since = h[x].since + 1 /\ r.to = h[x].to
      BY <1>1, <3>1, <3>2 DEF Handlers
    <3> HIDE DEF r
    <3>4. WireOK(r, floor)
      BY <1>1, <3>1, <3>3 DEF WireOK
    <3> QED BY <3>1, <3>3, <3>4
  <2>2. CASE PageDone(x) \/ Poll(x)
    <3>1. PICK pc \in {"read", "wait"} : h' = [h EXCEPT ![x] = [h[x] EXCEPT !.pc = pc]]
      BY <1>1, <2>2 DEF PageDone, Poll
    <3> DEFINE r == [h[x] EXCEPT !.pc = pc]
    <3>2. /\ r \in Handlers(head) /\ r.pc = pc /\ r.got = h[x].got /\ r.since = h[x].since
      BY <1>1, <3>1 DEF Handlers, Admitted
    <3> HIDE DEF r
    <3>3. WireOK(r, floor)
      BY <1>1, <3>1, <3>2 DEF WireOK
    <3> QED BY <3>1, <3>2, <3>3 DEF r
  <2> QED BY <2>1, <2>2
<1>4. /\ live' = live + Bit(r.pc, Counted) - Bit(h[x].pc, Counted)
      /\ sem' = sem + Bit(r.pc, {"reading"}) - Bit(h[x].pc, {"reading"})
      /\ h[x].pc \in Admitted /\ r.pc # "off" /\ r.pc # "reading"
  BY <1>1, <1>2, <1>3 DEF Bit, Counted, Admitted
<1> QED BY <1>2, <1>3, <1>4, HandlerStep

(* A handler notices that it is over, or its read fails. *)
LEMMA ExitStep ==
    ASSUME IndInv, NEW x \in Conn, Exit(x) \/ ReadFails(x)
    PROVE  IndInv'
<1>1. breaks \in 0 .. MaxBreaks /\ MaxBreaks \in Nat
  BY HandlerTypes, WatchAssumption
<1>2. /\ Leave(x) /\ UNCHANGED <<floor, head, closing, lastId>> /\ h[x].pc \in Counted
      /\ breaks' \in 0 .. MaxBreaks
      /\ sem' = IF h[x].pc = "reading" THEN sem - 1 ELSE sem
  BY <1>1 DEF Exit, ReadFails, journal, Counted, Admitted
<1> QED BY <1>2, LeaveStep

(* The record of a connection that was just opened. *)
LEMMA NewConnection ==
    ASSUME NEW n \in Nat, NEW pc \in {"refused", "read"}, NEW q \in 0 .. n
    PROVE  /\ Opened(pc, q) \in Handlers(n) /\ Opened(pc, q).pc = pc
           /\ Opened(pc, q).got = q /\ Opened(pc, q).since = q
<1>1. Off \in Handlers(n) /\ pc \in Admitted \cup {"off", "refused", "truncated"}
  BY DEF Off, Handlers, Admitted
<1> QED BY <1>1 DEF Handlers, Opened

(* A client connects with its last id; it is admitted within the cap. *)
LEMMA ConnectStep ==
    ASSUME IndInv, NEW c \in Client, NEW x \in Conn, Connect(c, x)
    PROVE  IndInv'
<1>1. /\ cur[c] = None /\ h[x].pc = "off" /\ cur' = [cur EXCEPT ![c] = x] /\ live' = live + 1
      /\ floor' = floor /\ head' = head /\ closing' = closing
      /\ lastId' = lastId /\ breaks' = breaks /\ sem' = sem
  BY DEF Connect, journal
<1>2. /\ live \in Int /\ sem \in Int /\ head \in Nat /\ closing \in BOOLEAN /\ breaks \in 0 .. MaxBreaks
      /\ cur \in [Client -> Conn \cup {None}] /\ lastId \in [Client -> 0 .. head] /\ MaxStreams \in Int
  BY HandlerTypes, CountFacts, WatchAssumption DEF IndInv, TypeOK
<1>3. PICK pc \in {"refused", "read"} :
        /\ pc = "read" => live' <= MaxStreams
        /\ h' = [h EXCEPT ![x] = Opened(pc, lastId[c])]
  <2>1. CASE live' > MaxStreams
    <3>1. h' = [h EXCEPT ![x] = Opened("refused", lastId[c])]
      BY <2>1 DEF Connect
    <3> QED BY <3>1
  <2>2. CASE ~(live' > MaxStreams)
    <3>1. h' = [h EXCEPT ![x] = Opened("read", lastId[c])] /\ live' <= MaxStreams
      BY <1>1, <1>2, <2>2 DEF Connect
    <3> QED BY <3>1
  <2> QED BY <2>1, <2>2
<1> DEFINE r == Opened(pc, lastId[c])
<1>4. r \in Handlers(head) /\ r.pc = pc /\ r.got = lastId[c] /\ r.since = lastId[c]
  <2>1. lastId[c] \in 0 .. head
    BY <1>2
  <2> QED BY <1>2, <2>1, NewConnection
<1> HIDE DEF r
<1>5. WireOK(r, floor)
  BY <1>2, <1>3, <1>4 DEF WireOK
<1>6. /\ live' = live + Bit(r.pc, Counted) - Bit(h[x].pc, Counted)
      /\ sem' = sem + Bit(r.pc, {"reading"}) - Bit(h[x].pc, {"reading"})
      /\ r.pc \in Admitted => live' <= MaxStreams
      /\ r.pc # "reading" /\ r.pc # "off"
  BY <1>1, <1>2, <1>3, <1>4 DEF Bit, Counted, Admitted
<1>7. \A d \in Client : cur[d] # x
  BY <1>1, WatchAssumption DEF IndInv, Attached
<1>8. cur' \in [Client -> Conn \cup {None}] /\ cur'[c] = x /\ \A d \in Client \ {c} : cur'[d] = cur[d]
  BY <1>1, <1>2
<1>9. Alone'
  BY <1>7, <1>8 DEF IndInv, Alone
<1>10. \A d \in Client : cur'[d] # None =>
               \/ cur'[d] = x /\ r.pc # "off" /\ r.got = lastId'[d]
               \/ cur'[d] # x /\ cur'[d] = cur[d] /\ lastId'[d] = lastId[d]
  BY <1>1, <1>4, <1>6, <1>7, <1>8
<1>11. closing' \in BOOLEAN /\ breaks' \in 0 .. MaxBreaks /\ lastId' \in [Client -> 0 .. head]
  BY <1>1, <1>2
<1>12. (r.pc = "reading" => h[x].pc = "reading" \/ sem < Slots)
       /\ (r.pc \in Admitted => h[x].pc \in Admitted \/ live' <= MaxStreams)
  BY <1>6
<1>13. h' = [h EXCEPT ![x] = r] /\ floor' = floor /\ head' = head
  BY <1>1, <1>3 DEF r
<1> QED BY <1>4, <1>5, <1>6, <1>8, <1>9, <1>10, <1>11, <1>12, <1>13, ConnectionStep

(* A client takes a record from the wire. *)
LEMMA ReceiveStep ==
    ASSUME IndInv, NEW c \in Client, Receive(c)
    PROVE  IndInv' /\ lastId'[c] = lastId[c] + 1 /\ lastId'[c] <= head
           /\ \A d \in Client \ {c} : lastId'[d] = lastId[d]
<1> DEFINE x == cur[c]
           r == [h[x] EXCEPT !.got = h[x].got + 1]
<1>1. cur \in [Client -> Conn \cup {None}] /\ lastId \in [Client -> 0 .. head]
  BY DEF IndInv, TypeOK
<1>2. x \in Conn /\ h[x].got < h[x].since
  BY <1>1 DEF Receive
<1>3. h[x].pc # "off" /\ h[x].got = lastId[c]
  BY <1>2, WatchAssumption DEF IndInv, Attached
<1>4. /\ h[x] \in Handlers(head) /\ WireOK(h[x], floor) /\ live \in Int /\ sem \in Int
      /\ head \in Nat /\ h \in [Conn -> Handlers(head)] /\ closing \in BOOLEAN /\ breaks \in 0 .. MaxBreaks
      /\ h[x].since \in 0 .. head /\ h[x].got \in 0 .. head
  BY <1>2, HandlerTypes, CountFacts DEF IndInv, TypeOK
<1>5. /\ h' = [h EXCEPT ![x] = r] /\ lastId' = [lastId EXCEPT ![c] = h[x].got + 1]
      /\ floor' = floor /\ head' = head /\ live' = live /\ sem' = sem /\ closing' = closing
      /\ cur' = cur /\ breaks' = breaks
  BY <1>2, <1>4 DEF Receive, journal
<1>6. h[x].got + 1 \in 0 .. head
  BY <1>2, <1>4
<1>7. /\ r \in Handlers(head) /\ r.pc = h[x].pc /\ r.got = h[x].got + 1 /\ r.since = h[x].since
      /\ r.to = h[x].to
  BY <1>4, <1>6 DEF Handlers
<1> HIDE DEF r
<1>8. WireOK(r, floor)
  BY <1>2, <1>4, <1>7 DEF WireOK
<1>9. /\ live' = live + Bit(r.pc, Counted) - Bit(h[x].pc, Counted)
      /\ sem' = sem + Bit(r.pc, {"reading"}) - Bit(h[x].pc, {"reading"})
  BY <1>4, <1>5, <1>7 DEF Bit
<1>10. /\ lastId' \in [Client -> 0 .. head] /\ lastId'[c] = h[x].got + 1
       /\ \A d \in Client \ {c} : lastId'[d] = lastId[d]
  BY <1>1, <1>5, <1>6
<1>11. Alone'
  BY <1>5 DEF IndInv, Alone
<1>12. \A d \in Client : cur'[d] # None =>
               \/ cur'[d] = x /\ r.pc # "off" /\ r.got = lastId'[d]
               \/ cur'[d] # x /\ cur'[d] = cur[d] /\ lastId'[d] = lastId[d]
  <2>1. \A d \in Client : cur[d] = x => d = c
    BY <1>2, WatchAssumption DEF IndInv, Alone
  <2> QED BY <1>3, <1>5, <1>7, <1>10, <2>1
<1>13. /\ h' = [h EXCEPT ![x] = r] /\ floor' = floor /\ head' = head
       /\ closing' \in BOOLEAN /\ breaks' \in 0 .. MaxBreaks /\ cur' \in [Client -> Conn \cup {None}]
  BY <1>1, <1>4, <1>5
<1> HIDE DEF x
<1>14. IndInv'
  <2>1. (r.pc = "reading" => h[x].pc = "reading" \/ sem < Slots)
        /\ (r.pc \in Admitted => h[x].pc \in Admitted \/ live' <= MaxStreams)
    BY <1>7
  <2> QED BY <1>2, <1>7, <1>8, <1>9, <1>10, <1>11, <1>12, <1>13, <2>1, ConnectionStep
<1>15. lastId'[c] = lastId[c] + 1 /\ lastId'[c] <= head
  BY <1>3, <1>4, <1>6, <1>10
<1> QED BY <1>10, <1>14, <1>15

(* A client is told that records are gone, and resumes behind them. *)
LEMMA ReceiveTruncatedStep ==
    ASSUME IndInv, NEW c \in Client, ReceiveTruncated(c)
    PROVE  IndInv' /\ lastId'[c] > lastId[c] /\ lastId'[c] < floor
           /\ \A d \in Client \ {c} : lastId'[d] = lastId[d]
<1> DEFINE x == cur[c]
<1>1. cur \in [Client -> Conn \cup {None}] /\ lastId \in [Client -> 0 .. head]
  BY DEF IndInv, TypeOK
<1>2. x \in Conn /\ h[x].got = h[x].since /\ h[x].pc = "truncated"
  BY <1>1 DEF ReceiveTruncated
<1>3. h[x].got = lastId[c]
  BY <1>2, WatchAssumption DEF IndInv, Attached
<1>4. /\ WireOK(h[x], floor) /\ live \in Int /\ sem \in Int /\ floor \in Nat
      /\ head \in Nat /\ closing \in BOOLEAN /\ breaks \in 0 .. MaxBreaks
      /\ h[x].since \in 0 .. head /\ h[x].to \in 0 .. head
  BY <1>2, HandlerTypes, CountFacts DEF IndInv, TypeOK
<1>5. /\ h' = [h EXCEPT ![x] = Off] /\ lastId' = [lastId EXCEPT ![c] = h[x].to - 1]
      /\ floor' = floor /\ head' = head /\ live' = live /\ sem' = sem /\ closing' = closing
      /\ cur' = [cur EXCEPT ![c] = None] /\ breaks' = breaks
  BY DEF ReceiveTruncated, journal
<1>6. /\ h[x].to - 1 \in 0 .. head /\ h[x].to - 1 > lastId[c] /\ h[x].to - 1 < floor
  BY <1>2, <1>3, <1>4 DEF WireOK
<1>7. Off \in Handlers(head) /\ WireOK(Off, floor) /\ Off.pc = "off"
  BY <1>4 DEF Off, Handlers, WireOK
<1>8. /\ live' = live + Bit(Off.pc, Counted) - Bit(h[x].pc, Counted)
      /\ sem' = sem + Bit(Off.pc, {"reading"}) - Bit(h[x].pc, {"reading"})
      /\ Off.pc \notin Admitted
  BY <1>2, <1>4, <1>5, <1>7 DEF Bit, Counted, Admitted
<1>9. /\ lastId' \in [Client -> 0 .. head] /\ lastId'[c] = h[x].to - 1
      /\ cur' \in [Client -> Conn \cup {None}] /\ cur'[c] = None
      /\ \A d \in Client \ {c} : lastId'[d] = lastId[d] /\ cur'[d] = cur[d]
  BY <1>1, <1>5, <1>6
<1>10. Alone'
  BY <1>9 DEF IndInv, Alone
<1>11. \A d \in Client : cur'[d] # None => cur'[d] # x /\ cur'[d] = cur[d] /\ lastId'[d] = lastId[d]
  <2>1. \A d \in Client : cur[d] = x => d = c
    BY <1>2, WatchAssumption DEF IndInv, Alone
  <2> QED BY <1>9, <2>1
<1>12. /\ h' = [h EXCEPT ![x] = Off] /\ floor' = floor /\ head' = head
       /\ closing' \in BOOLEAN /\ breaks' \in 0 .. MaxBreaks
  BY <1>4, <1>5
<1> HIDE DEF x
<1>13. IndInv'
  BY <1>2, <1>7, <1>8, <1>9, <1>10, <1>11, <1>12, ConnectionStep
<1> QED BY <1>6, <1>9, <1>13

(* A connection breaks: its client lets go of it, its handler does not know. *)
LEMMA BreakStep ==
    ASSUME IndInv, NEW x \in Conn, Break(x)
    PROVE  IndInv'
<1> DEFINE r == IF h[x].pc = "truncated" THEN Off ELSE [h[x] EXCEPT !.up = FALSE]
<1>1. /\ cur \in [Client -> Conn \cup {None}] /\ lastId \in [Client -> 0 .. head]
      /\ h[x] \in Handlers(head) /\ WireOK(h[x], floor) /\ live \in Int /\ sem \in Int
      /\ head \in Nat /\ h \in [Conn -> Handlers(head)] /\ closing \in BOOLEAN /\ breaks \in 0 .. MaxBreaks
      /\ MaxBreaks \in Nat
  BY HandlerTypes, CountFacts, WatchAssumption DEF IndInv, TypeOK
<1>2. /\ breaks' \in 0 .. MaxBreaks /\ floor' = floor /\ head' = head /\ live' = live /\ sem' = sem
      /\ closing' = closing /\ lastId' = lastId
      /\ cur' = [c \in Client |-> IF cur[c] = x THEN None ELSE cur[c]]
      /\ h' = [h EXCEPT ![x] = r]
  BY <1>1 DEF Break, Hangup, journal
<1>3. r \in Handlers(head) /\ WireOK(r, floor) /\ (r.pc = h[x].pc \/ (r.pc = "off" /\ h[x].pc = "truncated"))
  <2>1. CASE h[x].pc = "truncated"
    BY <1>1, <2>1 DEF Off, Handlers, WireOK
  <2>2. CASE h[x].pc # "truncated"
    <3>1. r = [h[x] EXCEPT !.up = FALSE]
      BY <2>2
    <3> HIDE DEF r
    <3>2. /\ r \in Handlers(head) /\ r.pc = h[x].pc /\ r.got = h[x].got
          /\ r.since = h[x].since /\ r.to = h[x].to
      BY <1>1, <3>1 DEF Handlers
    <3> QED BY <1>1, <3>2 DEF WireOK
  <2> QED BY <2>1, <2>2
<1> HIDE DEF r
<1>4. /\ live' = live + Bit(r.pc, Counted) - Bit(h[x].pc, Counted)
      /\ sem' = sem + Bit(r.pc, {"reading"}) - Bit(h[x].pc, {"reading"})
      /\ (r.pc \in Admitted => h[x].pc \in Admitted) /\ (r.pc = "reading" => h[x].pc = "reading")
  BY <1>1, <1>2, <1>3 DEF Bit, Counted, Admitted
<1>5. /\ cur' \in [Client -> Conn \cup {None}]
      /\ \A c \in Client : cur'[c] # x /\ (cur'[c] # None => cur'[c] = cur[c])
  BY <1>1, <1>2, WatchAssumption
<1>6. Alone'
  BY <1>5 DEF IndInv, Alone
<1>7. closing' \in BOOLEAN /\ lastId' \in [Client -> 0 .. head] /\ lastId' = lastId
  BY <1>1, <1>2
<1> QED BY <1>2, <1>3, <1>4, <1>5, <1>6, <1>7, ConnectionStep

(* The journal moves, or the server begins to close. *)
LEMMA JournalStep ==
    ASSUME IndInv, Record \/ Prune \/ Shutdown \/ UNCHANGED vars
    PROVE  IndInv'
<1>1. /\ live' = live /\ sem' = sem /\ h' = h /\ cur' = cur /\ lastId' = lastId /\ breaks' = breaks
      /\ closing' \in BOOLEAN
  BY DEF Record, Prune, Shutdown, vars, journal, client, IndInv, TypeOK
<1>2. /\ head \in 0 .. MaxSeq /\ floor \in 1 .. MaxSeq + 1 /\ (floor = 1 \/ floor <= head) /\ MaxSeq \in Nat
      /\ h \in [Conn -> Handlers(head)] /\ lastId \in [Client -> 0 .. head]
  BY WatchAssumption DEF IndInv, TypeOK, Handlers
<1>3. /\ head' \in 0 .. MaxSeq /\ floor' \in 1 .. MaxSeq + 1 /\ (floor' = 1 \/ floor' <= head')
      /\ head <= head' /\ floor <= floor'
  BY <1>2 DEF Record, Prune, Shutdown, vars, journal
<1>4. 0 .. head \subseteq 0 .. head'
  BY <1>2, <1>3
<1>5. h' \in [Conn -> Handlers(head')] /\ lastId' \in [Client -> 0 .. head']
  <2>1. Handlers(head) \subseteq Handlers(head')
    BY <1>4 DEF Handlers
  <2> QED BY <1>1, <1>2, <1>4, <2>1
<1>6. TypeOK'
  BY <1>1, <1>3, <1>5 DEF IndInv, TypeOK, Handlers
<1>7. CountsAreExact' /\ Alone' /\ \A c \in Client : Attached(c)'
  BY <1>1 DEF IndInv, CountsAreExact, In, Alone, Attached
<1>8. ASSUME NEW x \in Conn PROVE WireOK(h'[x], floor')
  <2>1. WireOK(h[x], floor) /\ h[x].to \in Int /\ floor \in Int /\ floor' \in Int
    BY <1>2, <1>3, HandlerTypes
  <2>2. h[x].to <= floor => h[x].to <= floor'
    BY ONLY <1>3, <2>1
  <2>3. h'[x] = h[x]
    BY <1>1
  <2> QED BY <2>1, <2>2, <2>3, Zenon DEF WireOK
<1> QED BY <1>3, <1>6, <1>7, <1>8 DEF IndInv

(* The invariant holds at the start. *)
LEMMA Initial == Init => IndInv
<1> SUFFICES ASSUME Init PROVE IndInv
  OBVIOUS
<1>1. /\ floor = 1 /\ head = 0 /\ live = 0 /\ sem = 0 /\ closing = FALSE /\ breaks = 0
      /\ h = [x \in Conn |-> Off]
      /\ cur = [c \in Client |-> None] /\ lastId = [c \in Client |-> 0]
  BY DEF Init
<1>2. Off \in Handlers(0) /\ WireOK(Off, 1) /\ Off.pc = "off"
  BY DEF Off, Handlers, WireOK
<1>3. TypeOK
  <2>1. h \in [Conn -> Handlers(head)]
    BY <1>1, <1>2
  <2>2. Cardinality(Conn) \in Nat
    BY CountFacts
  <2>3. /\ floor \in 1 .. MaxSeq + 1 /\ head \in 0 .. MaxSeq /\ breaks \in 0 .. MaxBreaks
        /\ live \in 0 .. Cardinality(Conn) /\ sem \in 0 .. Slots /\ 0 \in 0 .. head
    BY <1>1, <2>2, WatchAssumption
  <2>4. closing \in BOOLEAN /\ cur \in [Client -> Conn \cup {None}] /\ lastId \in [Client -> 0 .. head]
    BY <1>1, <2>3
  <2> QED BY <2>1, <2>3, <2>4 DEF TypeOK, Handlers
<1>4. CountsAreExact
  <2>1. In(Admitted) = {} /\ In(Admitted \cup {"refused"}) = {} /\ In({"reading"}) = {}
    BY <1>1, <1>2 DEF In, Admitted
  <2>2. Cardinality({}) = 0 /\ 0 <= MaxStreams /\ 0 <= Slots
    BY FS_EmptySet, WatchAssumption
  <2> QED BY <1>1, <2>1, <2>2 DEF CountsAreExact
<1> QED BY <1>1, <1>2, <1>3, <1>4 DEF IndInv, Alone, Attached

(* Every step preserves the invariant. *)
LEMMA Inductive == IndInv /\ [Next]_vars => IndInv'
<1> SUFFICES ASSUME IndInv, [Next]_vars PROVE IndInv'
  OBVIOUS
<1>1. CASE Record \/ Prune \/ Shutdown \/ UNCHANGED vars
  BY <1>1, JournalStep
<1>2. ASSUME NEW x \in Conn, Handler(x) \/ ReadFails(x) PROVE IndInv'
  BY <1>2, AcquireStep, ReadStep, WriteStep, ExitStep DEF Handler
<1>3. ASSUME NEW x \in Conn, Break(x) PROVE IndInv'
  BY <1>3, BreakStep
<1>4. ASSUME NEW c \in Client, Consume(c) PROVE IndInv'
  BY <1>4, ReceiveStep, ReceiveTruncatedStep, ConnectStep DEF Consume
<1> QED BY <1>1, <1>2, <1>3, <1>4 DEF Next

LEMMA Invariance == Spec => []IndInv
  BY Initial, Inductive, PTL DEF Spec

(* Only a delivery moves the last id of a client, and only that client's. *)
LEMMA DeliveryStep ==
    ASSUME IndInv, [Next]_vars, NEW c \in Client, lastId'[c] # lastId[c]
    PROVE  \/ lastId'[c] = lastId[c] + 1 /\ lastId'[c] <= head
           \/ lastId'[c] > lastId[c] /\ lastId'[c] < floor
<1>1. lastId' # lastId
  OBVIOUS
<1>2. ~UNCHANGED vars /\ ~Record /\ ~Prune /\ ~Shutdown
  BY <1>1 DEF vars, client, Record, Prune, Shutdown
<1>3. ASSUME NEW x \in Conn PROVE ~(Handler(x) \/ ReadFails(x) \/ Break(x))
  BY <1>1 DEF Handler, Refuse, Acquire, Busy, ReadPage, ReadTruncated, WriteRecord, PageDone, Poll,
              Exit, ReadFails, Break, client
<1>4. PICK d \in Client : Receive(d) \/ ReceiveTruncated(d)
  <2>1. PICK d \in Client : Consume(d)
    BY <1>2, <1>3 DEF Next
  <2>2. ASSUME NEW x \in Conn PROVE ~Connect(d, x)
    BY <1>1 DEF Connect
  <2> QED BY <2>1, <2>2 DEF Consume
<1>5. CASE Receive(d)
  BY <1>5, ReceiveStep
<1>6. CASE ReceiveTruncated(d)
  BY <1>6, ReceiveTruncatedStep
<1> QED BY <1>4, <1>5, <1>6

-----------------------------------------------------------------------------
(* The counters, handlers and clients keep their types; no page runs ahead. *)
THEOREM TypeCorrect == Spec => []TypeOK
<1>1. IndInv => TypeOK
  BY DEF IndInv
<1> QED BY <1>1, Invariance, PTL

(***************************************************************************)
(* However many connects race and however handlers end, the streams never  *)
(* exceed the cap, and s.watchStreams and the slots of s.sem are exact.    *)
(***************************************************************************)
THEOREM CapIsACap == Spec => []CountsAreExact
<1>1. IndInv => CountsAreExact
  BY DEF IndInv
<1> QED BY <1>1, Invariance, PTL

(***************************************************************************)
(* For any number of clients and connections: a client receives each       *)
(* record once and in order, and skips only what it was told is pruned.    *)
(***************************************************************************)
THEOREM DeliveryIsInOrder == Spec => InOrderOnce
<1>1. IndInv /\ [Next]_vars =>
        [\A c \in Client : lastId'[c] # lastId[c] =>
             \/ lastId'[c] = lastId[c] + 1 /\ lastId'[c] <= head
             \/ lastId'[c] > lastId[c] /\ lastId'[c] < floor]_vars
  BY DeliveryStep
<1> QED BY <1>1, Invariance, PTL DEF Spec, InOrderOnce

=============================================================================
