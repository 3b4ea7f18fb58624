----------------------------- MODULE EventsWatch -----------------------------
(***************************************************************************)
(* GET /v0/beads/events:watch, the journal as a stream.  A handler admits  *)
(* the connection under the stream cap, then alternates reads of the       *)
(* journal, each under a database slot, with writes to the connection.  It *)
(* remembers nothing about the client: after a broken connection the       *)
(* client reconnects with the last id it received, possibly while the old  *)
(* handler has not noticed the break.                                      *)
(*                                                                         *)
(* The journal appears as the seqs floor .. head, which is what Journal's  *)
(* RetainedSuffix shows it to be.                                          *)
(***************************************************************************)
EXTENDS Integers, FiniteSets

CONSTANTS Client, Conn,     \* consumers; connections, reused once closed
          None,             \* a client without a connection
          MaxStreams,       \* maxWatchStreams
          Slots,            \* maxInflight, the database slots
          Batch,            \* eventsWatchBatch
          MaxSeq,           \* bound: records ever written
          MaxBreaks         \* bound: broken connections and failed reads

ASSUME WatchAssumption ==
    /\ {MaxStreams, Slots, Batch} \subseteq Nat \ {0}
    /\ {MaxSeq, MaxBreaks} \subseteq Nat
    /\ None \notin Conn /\ IsFiniteSet(Conn)

VARIABLES floor, head,  \* the retained seqs
          live,         \* s.watchStreams
          sem,          \* how many slots of s.sem are taken
          closing,      \* graceful shutdown has begun
          h,            \* per connection, its handler and its wire
          cur, lastId,  \* per client, its connection and the last id received
          breaks        \* how many breaks there have been

vars == <<floor, head, live, sem, closing, h, cur, lastId, breaks>>
journal == <<floor, head>>
client == <<cur, lastId>>

(***************************************************************************)
(* since is the handler's cursor and to the end of the page it writes;     *)
(* got is how far the client has received, up whether it still listens,    *)
(* opened whether the 200 is on the wire, full whether the page is.        *)
(***************************************************************************)
Off == [pc |-> "off", since |-> 0, to |-> 0, got |-> 0, up |-> FALSE,
        opened |-> FALSE, full |-> FALSE]

Admitted == {"read", "reading", "write", "wait"}

Init ==
    /\ floor = 1 /\ head = 0 /\ live = 0 /\ sem = 0 /\ closing = FALSE
    /\ h = [x \in Conn |-> Off]
    /\ cur = [c \in Client |-> None] /\ lastId = [c \in Client |-> 0]
    /\ breaks = 0

Record ==
    /\ head < MaxSeq /\ head' = head + 1
    /\ UNCHANGED <<floor, live, sem, closing, h, client, breaks>>

Prune ==
    /\ floor < head /\ floor' = floor + 1
    /\ UNCHANGED <<head, live, sem, closing, h, client, breaks>>

\* A connection whose client has everything up to id.
Opened(pc, id) == [Off EXCEPT !.pc = pc, !.since = id, !.got = id, !.up = TRUE]

\* Mutant: the cap is tested on the count before this stream.
Connect_OffByOne(c, x) ==
    /\ cur[c] = None /\ h[x].pc = "off"
    /\ cur' = [cur EXCEPT ![c] = x]
    /\ live' = live + 1
    /\ h' = [h EXCEPT ![x] = Opened(IF live > MaxStreams THEN "refused" ELSE "read", lastId[c])]
    /\ UNCHANGED <<journal, sem, closing, lastId, breaks>>

\* Mutant: the since of the URL wins over Last-Event-ID.
Connect_QueryWins(c, x) ==
    /\ cur[c] = None /\ h[x].pc = "off"
    /\ cur' = [cur EXCEPT ![c] = x]
    /\ live' = live + 1
    /\ h' = [h EXCEPT ![x] = Opened(IF live' > MaxStreams THEN "refused" ELSE "read", 0)]
    /\ UNCHANGED <<journal, sem, closing, lastId, breaks>>

(***************************************************************************)
(* The client presents its last id; the handler counts itself in first.    *)
(* It does not look at closing, and the listener accepts a little longer   *)
(* than until then: here, for as long as it likes.                         *)
(***************************************************************************)
Connect(c, x) ==
    /\ cur[c] = None /\ h[x].pc = "off"
    /\ cur' = [cur EXCEPT ![c] = x]
    /\ live' = live + 1
    /\ h' = [h EXCEPT ![x] = Opened(IF live' > MaxStreams THEN "refused" ELSE "read", lastId[c])]
    /\ UNCHANGED <<journal, sem, closing, lastId, breaks>>

Hangup(x) == [c \in Client |-> IF cur[c] = x THEN None ELSE cur[c]]

\* Every exit of a handler takes the stream back out of the count.
Leave(x) ==
    /\ live' = live - 1
    /\ h' = [h EXCEPT ![x] = Off]
    /\ cur' = Hangup(x)

Refuse(x) ==
    /\ h[x].pc = "refused" /\ Leave(x)
    /\ UNCHANGED <<journal, sem, closing, lastId, breaks>>

Acquire(x) ==
    /\ h[x].pc = "read" /\ sem < Slots
    /\ sem' = sem + 1
    /\ h' = [h EXCEPT ![x].pc = "reading"]
    /\ UNCHANGED <<journal, live, closing, client, breaks>>

\* ErrBusy: a 503 before the stream opens, one more wait afterwards.
Busy(x) ==
    /\ h[x].pc = "read" /\ sem = Slots
    /\ IF h[x].opened
       THEN h' = [h EXCEPT ![x].pc = "wait"] /\ UNCHANGED <<live, cur>>
       ELSE Leave(x)
    /\ UNCHANGED <<journal, sem, closing, lastId, breaks>>

\* Mutant: the page's end is taken from its limit.
PageEnd_Limit(x) == h[x].since + Batch

\* A page of at most Batch records behind the cursor.
PageEnd(x) == IF head < h[x].since + Batch THEN head ELSE h[x].since + Batch

Truncated(x) == h[x].since + 1 < floor

ReadPage(x) ==
    /\ h[x].pc = "reading" /\ h[x].up /\ ~Truncated(x)
    /\ sem' = sem - 1
    /\ h' = [h EXCEPT ![x].pc = "write", ![x].to = PageEnd(x), ![x].opened = TRUE,
                    ![x].full = PageEnd(x) = h[x].since + Batch]
    /\ UNCHANGED <<journal, live, closing, client, breaks>>

(***************************************************************************)
(* The 410, or the truncated event behind what is still on the wire: the   *)
(* handler is done, the connection stays until the client has read it.     *)
(***************************************************************************)
ReadTruncated(x) ==
    /\ h[x].pc = "reading" /\ h[x].up /\ Truncated(x)
    /\ sem' = sem - 1 /\ live' = live - 1
    /\ h' = [h EXCEPT ![x].pc = "truncated", ![x].to = floor]
    /\ UNCHANGED <<journal, closing, client, breaks>>

\* The cursor moves only past a record that was written.
WriteRecord(x) ==
    /\ h[x].pc = "write" /\ h[x].since < h[x].to
    /\ h' = [h EXCEPT ![x].since = @ + 1]
    /\ UNCHANGED <<journal, live, sem, closing, client, breaks>>

\* A full page is followed by the next read at once, a short one by a wait.
PageDone(x) ==
    /\ h[x].pc = "write" /\ h[x].since = h[x].to
    /\ h' = [h EXCEPT ![x].pc = IF h[x].full THEN "read" ELSE "wait"]
    /\ h[x].full => h[x].up /\ ~closing
    /\ UNCHANGED <<journal, live, sem, closing, client, breaks>>

Poll(x) ==
    /\ h[x].pc = "wait" /\ h[x].up /\ ~closing
    /\ h' = [h EXCEPT ![x].pc = "read"]
    /\ UNCHANGED <<journal, live, sem, closing, client, breaks>>

\* Mutant: only the shutdown is noticed.
Exit_ClosingOnly(x) ==
    /\ closing /\ h[x].pc \in {"wait", "write"} /\ h[x].since >= h[x].to
    /\ Leave(x)
    /\ UNCHANGED <<journal, sem, closing, lastId, breaks>>

\* Mutant: only the client is noticed.
Exit_GoneOnly(x) ==
    /\ ~h[x].up /\ h[x].pc \in Admitted
    /\ sem' = IF h[x].pc = "reading" THEN sem - 1 ELSE sem
    /\ Leave(x)
    /\ UNCHANGED <<journal, closing, lastId, breaks>>

\* The handler notices that the client is gone or the server closes.
Exit(x) ==
    /\ \/ ~h[x].up /\ h[x].pc \in Admitted
       \/ closing /\ h[x].pc = "wait"
       \/ closing /\ h[x].pc = "write" /\ h[x].since = h[x].to
    /\ sem' = IF h[x].pc = "reading" THEN sem - 1 ELSE sem
    /\ Leave(x)
    /\ UNCHANGED <<journal, closing, lastId, breaks>>

\* The read deadline, or an error of the database.
ReadFails(x) ==
    /\ h[x].pc = "reading" /\ breaks < MaxBreaks
    /\ breaks' = breaks + 1
    /\ sem' = sem - 1 /\ Leave(x)
    /\ UNCHANGED <<journal, closing, lastId>>

Receive(c) ==
    /\ cur[c] # None /\ h[cur[c]].got < h[cur[c]].since
    /\ h' = [h EXCEPT ![cur[c]].got = @ + 1]
    /\ lastId' = [lastId EXCEPT ![c] = h[cur[c]].got + 1]
    /\ UNCHANGED <<journal, live, sem, closing, cur, breaks>>

\* The consumer accepts the gap and resumes from floor-1.
ReceiveTruncated(c) ==
    /\ cur[c] # None /\ h[cur[c]].pc = "truncated"
    /\ h[cur[c]].got = h[cur[c]].since
    /\ lastId' = [lastId EXCEPT ![c] = h[cur[c]].to - 1]
    /\ h' = [h EXCEPT ![cur[c]] = Off]
    /\ cur' = [cur EXCEPT ![c] = None]
    /\ UNCHANGED <<journal, live, sem, closing, breaks>>

\* The connection breaks; what was on the wire is lost.
Break(x) ==
    /\ h[x].up /\ breaks < MaxBreaks
    /\ breaks' = breaks + 1
    /\ h' = [h EXCEPT ![x] = IF @.pc = "truncated" THEN Off ELSE [@ EXCEPT !.up = FALSE]]
    /\ cur' = Hangup(x)
    /\ UNCHANGED <<journal, live, sem, closing, lastId>>

Shutdown ==
    /\ ~closing /\ closing' = TRUE
    /\ UNCHANGED <<journal, live, sem, h, client, breaks>>

Handler(x) ==
    \/ Refuse(x) \/ Acquire(x) \/ Busy(x) \/ ReadPage(x) \/ ReadTruncated(x)
    \/ WriteRecord(x) \/ PageDone(x) \/ Poll(x) \/ Exit(x)

Consume(c) == Receive(c) \/ ReceiveTruncated(c) \/ \E x \in Conn : Connect(c, x)

Next ==
    \/ Record \/ Prune \/ Shutdown
    \/ \E x \in Conn : Handler(x) \/ ReadFails(x) \/ Break(x)
    \/ \E c \in Client : Consume(c)

(***************************************************************************)
(* Goroutines run, clients read what arrives and reconnect, as EventSource *)
(* does.  A handler that wants a slot gets one now and then: every slot is *)
(* given back, and a channel serves its waiters in turn.  Once the server  *)
(* closes, no client has to get through to it.                             *)
(***************************************************************************)
Spec ==
    /\ Init /\ [][Next]_vars
    /\ \A x \in Conn : WF_vars(Handler(x)) /\ SF_vars(Acquire(x))
    /\ \A c \in Client : WF_vars((closing => cur[c] # None) /\ Consume(c))

-----------------------------------------------------------------------------

\* Every variable has its type; no page ends behind the newest record.
TypeOK ==
    /\ floor \in 1 .. MaxSeq + 1 /\ head \in 0 .. MaxSeq
    /\ live \in 0 .. Cardinality(Conn) /\ sem \in 0 .. Slots
    /\ closing \in BOOLEAN
    /\ h \in [Conn -> [pc : Admitted \cup {"off", "refused", "truncated"},
                       since : 0 .. head, to : 0 .. head, got : 0 .. head,
                       up : BOOLEAN, opened : BOOLEAN, full : BOOLEAN]]
    /\ cur \in [Client -> Conn \cup {None}] /\ lastId \in [Client -> 0 .. head]
    /\ breaks \in 0 .. MaxBreaks

In(pcs) == {x \in Conn : h[x].pc \in pcs}

(***************************************************************************)
(* The cap is a cap: connects that race each other are never admitted      *)
(* beyond it, and whichever way a handler ends, its place in the count and *)
(* its database slot are given back exactly once.                          *)
(***************************************************************************)
CountsAreExact ==
    /\ Cardinality(In(Admitted)) <= MaxStreams
    /\ live = Cardinality(In(Admitted \cup {"refused"}))
    /\ sem = Cardinality(In({"reading"})) /\ sem <= Slots

(***************************************************************************)
(* A client receives records one after the other, each once, across breaks *)
(* and reconnects; it skips records only after it was told that they are   *)
(* pruned.                                                                 *)
(***************************************************************************)
InOrderOnce ==
    [][\A c \in Client : lastId'[c] # lastId[c] =>
         \/ lastId'[c] = lastId[c] + 1 /\ lastId'[c] <= head
         \/ lastId'[c] > lastId[c] /\ lastId'[c] < floor]_vars

\* Every record reaches every client, or the client is told it is pruned.
EveryRecordArrives ==
    \A c \in Client, n \in 1 .. MaxSeq : head >= n ~> lastId[c] >= n \/ closing

(***************************************************************************)
(* A graceful shutdown ends every stream, also those admitted after it     *)
(* began; none holds the drain open.                                       *)
(***************************************************************************)
ShutdownDrains == closing ~> In(Admitted \cup {"refused"}) = {}

=============================================================================
