-------------------------- MODULE LargeApplyProofs --------------------------
(***************************************************************************)
(* The theorems about LargeApply, for any number of requests and slots and *)
(* any timeouts.  IndInv is proved in two halves that touch each other     *)
(* nowhere: SemInv counts the slots of s.sem, SlotInv is the large slot,   *)
(* its queue, its deadline and the drain.                                  *)
(***************************************************************************)
EXTENDS LargeApply, FiniteSetTheorems, TLAPS

SemInv == sem \in 0 .. MaxInflight /\ sem = Cardinality(Handlers(Admitted))

SlotTypes ==
    /\ pc \in [Request -> Admitted \cup {"idle", "acquire"}]
    /\ left \in [Request -> Nat]
    /\ largeApplySem \in BOOLEAN /\ largeApplyWaiting \in Request \cup {NoRequest}
    /\ largeApplyDeadline \in Nat
    /\ closing \in BOOLEAN /\ serve \in {"up", "budget", "drain", "done"} /\ drain \in Nat

SlotInv ==
    /\ SlotTypes
    /\ \A r, q \in Handlers(Holding) : r = q
    /\ largeApplySem <=> Handlers(Holding) # {}
    /\ \A r, q \in Handlers({"queued"}) : r = q
    /\ DrainCoversRun
    /\ DeadlineIsPublished

(* The two halves are the whole. *)
LEMMA Halves == IndInv <=> SemInv /\ SlotInv
  BY DEF IndInv, SemInv, SlotInv, SlotTypes, TypeOK, OneLargeApply

(* The same for the next state. *)
LEMMA HalvesNext == IndInv' <=> SemInv' /\ SlotInv'
  BY DEF IndInv, SemInv, SlotInv, SlotTypes, TypeOK, OneLargeApply

(* The server starts idle and up. *)
LEMMA Initial == Init => IndInv
<1> SUFFICES ASSUME Init PROVE SemInv /\ SlotInv
  BY Halves
<1>1. Handlers(Admitted) = {}
  BY DEF Init, Handlers, Admitted, Holding
<1>2. SemInv
  BY <1>1, FS_EmptySet, LargeApplyAssumption DEF Init, SemInv
<1>3. SlotInv
  BY DEF Init, SlotInv, SlotTypes, Handlers, Holding, Admitted, DrainCoversRun, DeadlineIsPublished
<1> QED BY <1>2, <1>3

-----------------------------------------------------------------------------
(* A handler that stays between acquire and Return keeps its slot of s.sem. *)
LEMMA KeepsPlace ==
    ASSUME SemInv, SlotTypes, NEW r \in Request, NEW to \in Admitted, pc[r] \in Admitted,
           Go(r, to), sem' = sem
    PROVE  SemInv'
<1>1. Handlers(Admitted)' = Handlers(Admitted)
  BY DEF Handlers, Go, SlotTypes
<1> QED BY <1>1 DEF SemInv

(* So does everybody else while a request outside moves outside. *)
LEMMA StaysOut ==
    ASSUME SemInv, SlotTypes, NEW r \in Request, pc[r] \in {"idle", "acquire"},
           NEW to \in {"idle", "acquire"}, Go(r, to), sem' = sem
    PROVE  SemInv'
<1>1. Handlers(Admitted)' = Handlers(Admitted)
  BY DEF Handlers, Go, SlotTypes, Admitted, Holding
<1> QED BY <1>1 DEF SemInv

(* Any set of handlers is finite. *)
LEMMA FiniteHandlers == ASSUME NEW pcs PROVE IsFiniteSet(Handlers(pcs))
  BY FS_Subset, LargeApplyAssumption DEF Handlers

(* acquire takes a slot of s.sem for one more handler. *)
LEMMA TakesPlace ==
    ASSUME SemInv, SlotTypes, NEW r \in Request, pc[r] \in {"idle", "acquire"},
           Go(r, "check"), sem < MaxInflight, sem' = sem + 1
    PROVE  SemInv'
<1>1. Handlers(Admitted)' = Handlers(Admitted) \cup {r}
  BY DEF Handlers, Go, SlotTypes, Admitted
<1>2. r \notin Handlers(Admitted)
  BY DEF Handlers, Admitted, Holding
<1>3. Cardinality(Handlers(Admitted) \cup {r}) = Cardinality(Handlers(Admitted)) + 1
  BY <1>2, FiniteHandlers, FS_AddElement
<1> QED BY <1>1, <1>3, LargeApplyAssumption DEF SemInv

(* Return gives it back, and there is one to give back. *)
LEMMA LeavesPlace ==
    ASSUME SemInv, SlotTypes, NEW r \in Request, pc[r] \in Admitted, Go(r, "idle"), sem' = sem - 1
    PROVE  SemInv'
<1>1. Handlers(Admitted)' = Handlers(Admitted) \ {r}
  BY DEF Handlers, Go, SlotTypes, Admitted, Holding
<1>2. r \in Handlers(Admitted)
  BY DEF Handlers
<1>3. /\ Cardinality(Handlers(Admitted) \ {r}) = Cardinality(Handlers(Admitted)) - 1
      /\ Cardinality(Handlers(Admitted)) \in Nat
      /\ Cardinality(Handlers(Admitted) \ {r}) \in Nat
  BY <1>2, FiniteHandlers, FS_RemoveElement, FS_CardinalityType
<1> QED BY <1>1, <1>3, LargeApplyAssumption DEF SemInv

(* s.sem counts the handlers past acquire, and never more than its width. *)
LEMMA SemStep == SemInv /\ SlotInv /\ [Next]_vars => SemInv'
<1> SUFFICES ASSUME SemInv, SlotInv, [Next]_vars PROVE SemInv'
  OBVIOUS
<1>0. SlotTypes
  BY DEF SlotInv
<1>1. CASE Tick \/ CloseStreams \/ StartDrain \/ StopServing \/ UNCHANGED vars
  <2>1. pc' = pc /\ sem' = sem
    BY <1>1 DEF Tick, CloseStreams, StartDrain, StopServing, vars, slots
  <2> QED BY <2>1 DEF SemInv, Handlers
<1>2. ASSUME NEW r \in Request, Arrive(r) PROVE SemInv'
  BY <1>0, <1>2, TakesPlace, StaysOut DEF Arrive
<1>3. ASSUME NEW r \in Request, Acquire(r) PROVE SemInv'
  BY <1>0, <1>3, TakesPlace DEF Acquire
<1>4. ASSUME NEW r \in Request, Shed(r) PROVE SemInv'
  BY <1>0, <1>4, StaysOut DEF Shed, slots
<1>5. ASSUME NEW r \in Request, Return(r) PROVE SemInv'
  BY <1>0, <1>5, LeavesPlace DEF Return, Admitted
<1>6. ASSUME NEW r \in Request, ClientGone(r) PROVE SemInv'
  BY <1>0, <1>6, StaysOut, KeepsPlace DEF ClientGone, slots, Admitted
<1>7. ASSUME NEW r \in Request,
             CheckClosing(r) \/ TrySlot(r) \/ Enqueue(r) \/ WinSlot(r) \/ GiveUp(r)
      PROVE SemInv'
  <2>1. /\ pc[r] \in Admitted /\ sem' = sem
        /\ \E to \in Admitted : Go(r, to)
    BY <1>7 DEF CheckClosing, TrySlot, Enqueue, WinSlot, GiveUp, slots, Admitted, Holding
  <2> QED BY <1>0, <2>1, KeepsPlace
<1>8. ASSUME NEW r \in Request, Stamp(r) \/ Admit(r) \/ Apply(r) \/ Release(r) PROVE SemInv'
  <2>1. /\ pc[r] \in Admitted /\ sem' = sem
        /\ \E to \in Admitted : Go(r, to)
    BY <1>8 DEF Stamp, Admit, Apply, Release, slots, Admitted, Holding
  <2> QED BY <1>0, <2>1, KeepsPlace
<1> QED BY <1>1, <1>2, <1>3, <1>4, <1>5, <1>6, <1>7, <1>8 DEF Next, Handler

-----------------------------------------------------------------------------
(* What a step of one handler leaves to the others: a frame for SlotInv. *)
LEMMA OutsideSlot ==
    ASSUME SlotInv, NEW r \in Request, pc[r] \notin Holding,
           NEW to \in (Admitted \cup {"idle", "acquire"}) \ Holding, Go(r, to),
           NEW t \in Nat, left' = [left EXCEPT ![r] = t],
           \/ to # "queued" /\ largeApplyWaiting' = largeApplyWaiting
           \/ to # "queued" /\ StopWaiting(r)
           \/ to = "queued" /\ largeApplyWaiting = NoRequest /\ largeApplyWaiting' = r,
           UNCHANGED <<largeApplySem, largeApplyDeadline, closing, serve, drain>>
    PROVE  SlotInv'
<1>1. SlotTypes'
  BY LargeApplyAssumption DEF SlotInv, SlotTypes, Go, StopWaiting
<1>2. Handlers(Holding)' = Handlers(Holding)
  BY DEF SlotInv, SlotTypes, Go, Handlers
<1>3. \A q \in Handlers({"queued"})' : largeApplyWaiting' = q
  BY LargeApplyAssumption DEF SlotInv, SlotTypes, DeadlineIsPublished, Go, Handlers, StopWaiting
<1>4. \A q \in Handlers({"admit", "run"})' : q \in Handlers({"admit", "run"}) /\ left'[q] = left[q]
  BY DEF SlotInv, SlotTypes, Go, Handlers, Holding
<1>5. \A q \in Handlers({"run"})' : q \in Handlers({"run"}) /\ left'[q] = left[q]
  BY DEF SlotInv, SlotTypes, Go, Handlers, Holding
<1>6. DrainCoversRun'
  BY <1>5 DEF SlotInv, DrainCoversRun
<1>7. DeadlineIsPublished'
  BY <1>3, <1>4 DEF SlotInv, DeadlineIsPublished
<1>8. \A p, q \in Handlers({"queued"})' : p = q
  BY <1>3
<1> QED BY <1>1, <1>2, <1>6, <1>7, <1>8 DEF SlotInv

(* Whoever finds the slot free is alone in it. *)
LEMMA EntersSlot ==
    ASSUME SlotInv, NEW r \in Request, pc[r] \notin Holding, ~largeApplySem, largeApplySem' = TRUE,
           Go(r, "stamp"), left' = left \/ SetTimer(r, 0),
           UNCHANGED <<largeApplyWaiting, largeApplyDeadline, closing, serve, drain>>
    PROVE  SlotInv'
<1>1. SlotTypes'
  BY DEF SlotInv, SlotTypes, Go, SetTimer, Admitted, Holding
<1>2. Handlers(Holding) = {}
  BY DEF SlotInv
<1>3. Handlers(Holding)' = {r}
  BY <1>2 DEF SlotInv, SlotTypes, Go, Handlers, Holding
<1>4. Handlers({"admit", "run"})' = {} /\ Handlers({"run"})' = {}
  BY <1>2 DEF SlotInv, SlotTypes, Go, Handlers, Holding
<1>5. Handlers({"queued"})' \subseteq Handlers({"queued"})
  BY DEF SlotInv, SlotTypes, Go, Handlers
<1>6. DrainCoversRun' /\ DeadlineIsPublished'
  BY <1>4, <1>5 DEF SlotInv, DrainCoversRun, DeadlineIsPublished
<1>7. \A p, q \in Handlers({"queued"})' : p = q
  BY <1>5 DEF SlotInv
<1> QED BY <1>1, <1>3, <1>6, <1>7 DEF SlotInv

(***************************************************************************)
(* The holder goes on inside the slot.  No deadline but its own can be     *)
(* published, and it comes to run only while Serve has not been stopped.   *)
(***************************************************************************)
LEMMA InsideSlot ==
    ASSUME SlotInv, NEW r \in Request, pc[r] \in Holding, NEW to \in Holding, Go(r, to),
           left' \in [Request -> Nat], \A q \in Request \ {r} : left'[q] = left[q],
           largeApplyWaiting' = largeApplyWaiting \/ StopWaiting(r),
           largeApplyDeadline' \in Nat,
           to \in {"admit", "run"} => largeApplyDeadline' = left'[r] /\ left'[r] <= Ceiling,
           to = "run" => serve = "up",
           UNCHANGED <<largeApplySem, closing, serve, drain>>
    PROVE  SlotInv'
<1>1. SlotTypes'
  BY DEF SlotInv, SlotTypes, Go, StopWaiting, Admitted
<1>2. Handlers(Holding) = {r} /\ Handlers(Holding)' = Handlers(Holding)
  BY DEF SlotInv, SlotTypes, Go, Handlers
<1>3. \A q \in Request : pc'[q] \in Holding => q = r /\ pc'[q] = to
  BY <1>2 DEF SlotInv, SlotTypes, Go, Handlers
<1>4. \A q \in Handlers({"admit", "run"})' : q = r /\ to \in {"admit", "run"}
  BY <1>3 DEF Handlers, Holding
<1>5. \A q \in Handlers({"run"})' : q = r /\ to = "run"
  BY <1>3 DEF Handlers, Holding
<1>6. \A q \in Handlers({"queued"})' : q \in Handlers({"queued"}) /\ q # r
  BY DEF SlotInv, SlotTypes, Go, Handlers, Holding
<1>7. \A q \in Handlers({"queued"})' : largeApplyWaiting' = q
  BY <1>6 DEF SlotInv, DeadlineIsPublished, StopWaiting
<1>8. DrainCoversRun'
  BY <1>5 DEF DrainCoversRun
<1>9. DeadlineIsPublished'
  BY <1>4, <1>7 DEF SlotInv, DeadlineIsPublished
<1> QED BY <1>1, <1>2, <1>7, <1>8, <1>9 DEF SlotInv

(* The holder leaves, and nobody is in the slot. *)
LEMMA LeavesSlot ==
    ASSUME SlotInv, NEW r \in Request, pc[r] = "free", Go(r, "return"), SetTimer(r, 0), FreeSlot,
           UNCHANGED <<largeApplyWaiting, closing, serve, drain>>
    PROVE  SlotInv'
<1>1. SlotTypes'
  BY DEF SlotInv, SlotTypes, Go, SetTimer, FreeSlot, Admitted
<1>2. Handlers(Holding) = {r}
  BY DEF SlotInv, Handlers, Holding
<1>3. \A q \in Request : pc'[q] \notin Holding
  BY <1>2 DEF SlotInv, SlotTypes, Go, Handlers, Holding
<1>4. Handlers(Holding)' = {} /\ Handlers({"admit", "run"})' = {} /\ Handlers({"run"})' = {}
  BY <1>3 DEF Handlers, Holding
<1>5. Handlers({"queued"})' \subseteq Handlers({"queued"})
  BY DEF SlotInv, SlotTypes, Go, Handlers
<1>6. DrainCoversRun' /\ DeadlineIsPublished'
  BY <1>4, <1>5 DEF SlotInv, DrainCoversRun, DeadlineIsPublished
<1>7. \A p, q \in Handlers({"queued"})' : p = q
  BY <1>5 DEF SlotInv
<1> QED BY <1>1, <1>4, <1>6, <1>7 DEF SlotInv, FreeSlot

(* Time passes for the run, its published deadline and the drain alike. *)
LEMMA TimePasses == ASSUME SlotInv, Tick PROVE SlotInv'
<1>1. \A n \in Nat : Less(n) \in Nat /\ Less(n) <= n
  BY DEF Less
<1>2. \A m, n \in Nat : m <= n => Less(m) <= Less(n)
  BY DEF Less
<1>3. SlotTypes'
  BY <1>1 DEF SlotInv, SlotTypes, Tick
<1>4. \A r \in Request : left[r] \in Nat /\ left'[r] = Less(left[r])
  BY DEF SlotInv, SlotTypes, Tick
<1>5. DrainCoversRun'
  BY <1>2, <1>4 DEF SlotInv, SlotTypes, DrainCoversRun, Tick, Handlers
<1>6. \A r \in Handlers({"admit", "run"}) : largeApplyDeadline' = left'[r] /\ left'[r] <= Ceiling
  BY <1>1, <1>4, LargeApplyAssumption DEF SlotInv, DeadlineIsPublished, Tick, Handlers
<1>7. DeadlineIsPublished'
  BY <1>6 DEF SlotInv, DeadlineIsPublished, Tick, Handlers
<1> QED BY <1>3, <1>5, <1>7 DEF SlotInv, Tick, Handlers

(* Serve closes s.closing, reads the deadline, and gives the drain that long. *)
LEMMA ServeStops == ASSUME SlotInv, CloseStreams \/ StartDrain \/ StopServing PROVE SlotInv'
<1>1. UNCHANGED <<pc, left, largeApplySem, largeApplyWaiting, largeApplyDeadline>>
  BY DEF CloseStreams, StartDrain, StopServing, slots
<1>2. SlotTypes'
  <2>1. drainBudget \in Nat
    BY LargeApplyAssumption DEF SlotInv, SlotTypes, drainBudget
  <2>2. /\ drain' \in Nat /\ closing' \in BOOLEAN
        /\ serve' \in {"up", "budget", "drain", "done"}
    BY <2>1 DEF SlotInv, SlotTypes, CloseStreams, StartDrain, StopServing
  <2> QED BY <1>1, <2>2 DEF SlotInv, SlotTypes
<1>3. DeadlineIsPublished'
  BY <1>1 DEF SlotInv, DeadlineIsPublished, Handlers, CloseStreams, StartDrain, StopServing
<1>4. largeApplyDeadline <= drainBudget
  BY LargeApplyAssumption DEF SlotInv, SlotTypes, drainBudget
<1>5. DrainCoversRun'
  BY <1>1, <1>4
  DEF SlotInv, SlotTypes, DrainCoversRun, DeadlineIsPublished, Handlers, CloseStreams, StartDrain, StopServing
<1> QED BY <1>1, <1>2, <1>3, <1>5 DEF SlotInv, Handlers

-----------------------------------------------------------------------------
(* SlotInv, one action at a time. *)
LEMMA SlotStep == SlotInv /\ [Next]_vars => SlotInv'
<1> SUFFICES ASSUME SlotInv, [Next]_vars PROVE SlotInv'
  OBVIOUS
<1>0. SlotTypes /\ SemTimeout \in Nat /\ Ceiling \in Nat /\ 0 \in Nat
  BY LargeApplyAssumption DEF SlotInv
<1>a. \A r \in Request : left[r] \in Nat /\ left = [left EXCEPT ![r] = left[r]]
  BY <1>0 DEF SlotTypes
<1>1. CASE UNCHANGED vars
  BY <1>1 DEF vars, SlotInv, SlotTypes, DrainCoversRun, DeadlineIsPublished, Handlers
<1>2. ASSUME NEW r \in Request, Arrive(r) \/ Acquire(r) \/ Shed(r) PROVE SlotInv'
  <2>1. pc[r] \notin Holding
    BY <1>2 DEF Arrive, Acquire, Shed, Holding
  <2>2. \E to \in (Admitted \cup {"idle", "acquire"}) \ Holding : Go(r, to) /\ to # "queued"
    BY <1>2 DEF Arrive, Acquire, Shed, Admitted, Holding
  <2>3. \E t \in Nat : left' = [left EXCEPT ![r] = t]
    BY <1>0, <1>a, <1>2 DEF Arrive, Acquire, Shed, SetTimer
  <2>4. UNCHANGED <<largeApplySem, largeApplyWaiting, largeApplyDeadline, closing, serve, drain>>
    BY <1>2 DEF Arrive, Acquire, Shed, slots, server
  <2> QED BY <2>1, <2>2, <2>3, <2>4, OutsideSlot
<1>3. ASSUME NEW r \in Request, Return(r) PROVE SlotInv'
  <2>1. pc[r] \notin Holding /\ "idle" \in (Admitted \cup {"idle", "acquire"}) \ Holding
    BY <1>3 DEF Return, Admitted, Holding
  <2>2. /\ Go(r, "idle") /\ StopWaiting(r) /\ left' = [left EXCEPT ![r] = left[r]]
        /\ UNCHANGED <<largeApplySem, largeApplyDeadline, closing, serve, drain>>
    BY <1>3, <1>a DEF Return, server
  <2> QED BY <1>a, <2>1, <2>2, OutsideSlot
<1>4. ASSUME NEW r \in Request, CheckClosing(r) \/ GiveUp(r) \/ ClientGone(r) PROVE SlotInv'
  <2>1. pc[r] \notin Holding
    BY <1>4 DEF CheckClosing, GiveUp, ClientGone, Holding
  <2>2. \E to \in (Admitted \cup {"idle", "acquire"}) \ Holding : Go(r, to) /\ to # "queued"
    BY <1>4 DEF CheckClosing, GiveUp, ClientGone, Admitted, Holding
  <2>3. \E t \in Nat : left' = [left EXCEPT ![r] = t]
    BY <1>0, <1>a, <1>4 DEF CheckClosing, GiveUp, ClientGone, SetTimer
  <2>4. UNCHANGED <<largeApplySem, largeApplyWaiting, largeApplyDeadline, closing, serve, drain>>
    BY <1>4 DEF CheckClosing, GiveUp, ClientGone, slots, server
  <2> QED BY <2>1, <2>2, <2>3, <2>4, OutsideSlot
<1>5. ASSUME NEW r \in Request, TrySlot(r) PROVE SlotInv'
  <2>1. /\ pc[r] \notin Holding /\ largeApplySem' = TRUE /\ left' = left
        /\ "enqueue" \in (Admitted \cup {"idle", "acquire"}) \ Holding
        /\ UNCHANGED <<largeApplyWaiting, largeApplyDeadline, closing, serve, drain>>
    BY <1>5 DEF TrySlot, server, Admitted, Holding
  <2>2. CASE largeApplySem
    <3>1. Go(r, "enqueue") /\ largeApplySem' = largeApplySem
      BY <1>0, <1>5, <2>1, <2>2 DEF TrySlot, SlotTypes
    <3> QED BY <1>a, <2>1, <3>1, OutsideSlot
  <2>3. CASE ~largeApplySem
    BY <1>5, <2>1, <2>3, EntersSlot DEF TrySlot
  <2> QED BY <2>2, <2>3
<1>6. ASSUME NEW r \in Request, WinSlot(r) PROVE SlotInv'
  BY <1>6, EntersSlot DEF WinSlot, server, Holding
<1>7. ASSUME NEW r \in Request, Enqueue(r) PROVE SlotInv'
  <2>1. /\ pc[r] \notin Holding
        /\ {"queued", "return"} \subseteq (Admitted \cup {"idle", "acquire"}) \ Holding
        /\ UNCHANGED <<largeApplySem, largeApplyDeadline, closing, serve, drain>>
    BY <1>7 DEF Enqueue, server, Admitted, Holding
  <2>2. CASE largeApplyWaiting = NoRequest
    BY <1>0, <1>7, <2>1, <2>2, OutsideSlot DEF Enqueue, SetTimer
  <2>3. CASE largeApplyWaiting # NoRequest
    <3>1. /\ Go(r, "return") /\ left' = [left EXCEPT ![r] = left[r]]
          /\ largeApplyWaiting' = largeApplyWaiting
      BY <1>7, <1>a, <2>3 DEF Enqueue
    <3> QED BY <1>a, <2>1, <3>1, OutsideSlot
  <2> QED BY <2>2, <2>3
<1>8. ASSUME NEW r \in Request, Stamp(r) PROVE SlotInv'
  <2>1. /\ left' \in [Request -> Nat] /\ left'[r] = Ceiling
        /\ \A q \in Request \ {r} : left'[q] = left[q]
    BY <1>0, <1>8 DEF Stamp, SetTimer, SlotTypes
  <2> QED BY <1>0, <1>8, <2>1, InsideSlot DEF Stamp, Holding, server
<1>9. ASSUME NEW r \in Request, Admit(r) PROVE SlotInv'
  <2>1. /\ largeApplyDeadline = left[r] /\ left[r] <= Ceiling
        /\ ~closing => serve = "up"
    BY <1>9 DEF Admit, SlotInv, DeadlineIsPublished, Handlers
  <2>2. left' = left /\ left' \in [Request -> Nat] /\ largeApplyDeadline' = largeApplyDeadline
    BY <1>0, <1>9 DEF Admit, SlotTypes
  <2> QED BY <1>0, <1>9, <2>1, <2>2, InsideSlot DEF Admit, Holding, server, SlotTypes
<1>10. ASSUME NEW r \in Request, Apply(r) PROVE SlotInv'
  BY <1>0, <1>10, InsideSlot DEF Apply, Holding, slots, server, SlotTypes
<1>11. ASSUME NEW r \in Request, Release(r) PROVE SlotInv'
  <2>1. CASE pc[r] = "release"
    <3>1. /\ left' \in [Request -> Nat] /\ \A q \in Request \ {r} : left'[q] = left[q]
      BY <1>0, <1>11 DEF Release, SetTimer, SlotTypes
    <3>2. /\ Go(r, "free") /\ largeApplyDeadline' = 0
          /\ UNCHANGED <<largeApplySem, largeApplyWaiting, closing, serve, drain>>
      BY <1>11, <2>1 DEF Release, Withdraw, server
    <3> QED BY <1>0, <2>1, <3>1, <3>2, InsideSlot DEF Holding
  <2>2. CASE pc[r] = "free"
    BY <1>11, <2>2, LeavesSlot DEF Release, server
  <2> QED BY <1>11, <2>1, <2>2 DEF Release
<1> QED
  BY <1>1, <1>2, <1>3, <1>4, <1>5, <1>6, <1>7, <1>8, <1>9, <1>10, <1>11, TimePasses, ServeStops
  DEF Next, Handler

(* IndInv is inductive. *)
LEMMA Inductive == IndInv /\ [Next]_vars => IndInv'
  BY Halves, HalvesNext, SemStep, SlotStep

-----------------------------------------------------------------------------
(* The slots, the queue, the timers and the drain keep their types. *)
THEOREM TypeCorrect == Spec => []TypeOK
<1>1. IndInv => TypeOK
  BY DEF IndInv
<1> QED BY <1>1, Initial, Inductive, PTL DEF Spec

(***************************************************************************)
(* Whatever the widths and timeouts, one handler holds the large slot, one *)
(* waits for it, and s.sem counts exactly the handlers past acquire.       *)
(***************************************************************************)
THEOREM SlotIsOneWide == Spec => []OneLargeApply
<1>1. IndInv => OneLargeApply
  BY DEF IndInv
<1> QED BY <1>1, Initial, Inductive, PTL DEF Spec

(***************************************************************************)
(* The budget that Serve reads once covers every large apply that still    *)
(* runs, for any ceiling, drain timeout and grace.                         *)
(***************************************************************************)
THEOREM DrainNeverCutsShort == Spec => []DrainCoversRun
<1>1. IndInv => DrainCoversRun
  BY DEF IndInv
<1> QED BY <1>1, Initial, Inductive, PTL DEF Spec

(* The deadline that Serve reads is that of the apply in flight. *)
THEOREM DeadlineIsTheRuns == Spec => []DeadlineIsPublished
<1>1. IndInv => DeadlineIsPublished
  BY DEF IndInv
<1> QED BY <1>1, Initial, Inductive, PTL DEF Spec

-----------------------------------------------------------------------------
(* Writer names the one handler that runs. *)
LEMMA WriterRuns ==
    ASSUME SlotInv, NEW r \in Handlers({"run"})
    PROVE  Writer = r
<1>1. \A q \in Request : pc[q] = "run" => q = r
  BY DEF SlotInv, Handlers, Holding
<1>2. r \in Request /\ pc[r] = "run"
  BY DEF Handlers
<1> QED BY <1>1, <1>2 DEF Writer, Handlers

(* The same in the next state. *)
LEMMA WriterRunsNext ==
    ASSUME SlotInv', NEW r \in Handlers({"run"})'
    PROVE  Writer' = r
<1>1. \A q \in Request : pc'[q] = "run" => q = r
  BY DEF SlotInv, Handlers, Holding
<1>2. r \in Request /\ pc'[r] = "run"
  BY DEF Handlers
<1> QED BY <1>1, <1>2 DEF Writer, Handlers

(* A step that leaves the run and Serve's phase alone is a stutter of the contract. *)
LEMMA SameRun ==
    ASSUME SlotInv, SlotInv', \A q \in Request : pc'[q] = "run" <=> pc[q] = "run",
           \A q \in Request : pc[q] = "run" => left'[q] = left[q]
    PROVE  Writer' = Writer /\ Owed' = Owed
<1>1. CASE Handlers({"run"}) = {}
  <2>1. Handlers({"run"})' = {}
    BY <1>1 DEF Handlers
  <2> QED BY <1>1, <2>1 DEF Writer, Owed
<1>2. CASE Handlers({"run"}) # {}
  <2>1. PICK r \in Handlers({"run"}) : TRUE
    BY <1>2
  <2>2. r \in Request /\ r \in Handlers({"run"})' /\ left'[r] = left[r] /\ r # NoRequest
    BY <2>1, LargeApplyAssumption DEF Handlers
  <2>3. Writer = r /\ Writer' = r
    BY <2>1, <2>2, WriterRuns, WriterRunsNext
  <2> QED BY <2>2, <2>3 DEF Owed
<1> QED BY <1>1, <1>2

(* Nothing runs, nothing is owed. *)
LEMMA NoRun == ASSUME Handlers({"run"}) = {} PROVE Writer = NoRequest /\ Owed = 0
  BY DEF Writer, Owed

(* The same in the next state. *)
LEMMA NoRunNext == ASSUME Handlers({"run"})' = {} PROVE Writer' = NoRequest /\ Owed' = 0
  BY DEF Writer, Owed

(* Whoever runs is owed the time it has left. *)
LEMMA RunIsOwed ==
    ASSUME SlotInv, NEW r \in Handlers({"run"})
    PROVE  Writer = r /\ Writer # NoRequest /\ Owed = left[r] /\ left[r] \in Nat
<1>1. r \in Request /\ r # NoRequest /\ left[r] \in Nat
  BY LargeApplyAssumption DEF Handlers, SlotInv, SlotTypes
<1> QED BY <1>1, WriterRuns DEF Owed

-----------------------------------------------------------------------------
(* Admission that succeeds is the contract's Begin, that fails a stutter. *)
LEMMA AdmitRefines ==
    ASSUME SlotInv, SlotInv', NEW r \in Request, Admit(r)
    PROVE  Contract!Begin(r) \/ UNCHANGED <<Writer, Owed, Phase>>
<1>1. Phase' = Phase /\ left' = left
  BY DEF Admit, server, Phase
<1>2. CASE closing
  <2>1. \A q \in Request : pc'[q] = "run" <=> pc[q] = "run"
    BY <1>2 DEF Admit, Go, SlotInv, SlotTypes
  <2> QED BY <1>1, <2>1, SameRun
<1>3. CASE ~closing
  <2>1. \A q \in Request : pc[q] # "run"
    BY DEF Admit, SlotInv, Handlers, Holding
  <2>2. Writer = NoRequest
    BY <2>1, NoRun DEF Handlers
  <2>3. r \in Handlers({"run"})'
    BY <1>3 DEF Admit, Go, Handlers, SlotInv, SlotTypes
  <2>4. Writer' = r /\ r # NoRequest
    BY <2>3, WriterRunsNext, LargeApplyAssumption
  <2>5. left[r] \in 0 .. Ceiling
    BY LargeApplyAssumption DEF Admit, SlotInv, SlotTypes, DeadlineIsPublished, Handlers
  <2>6. Owed' \in 0 .. Ceiling
    BY <1>1, <2>4, <2>5 DEF Owed
  <2>7. Phase = "serving"
    BY <1>3 DEF Phase, SlotInv, DeadlineIsPublished
  <2> QED BY <1>1, <2>2, <2>4, <2>6, <2>7 DEF Contract!Begin
<1> QED BY <1>2, <1>3

(* The end of an apply is the contract's End. *)
LEMMA ApplyRefines ==
    ASSUME SlotInv, NEW r \in Request, Apply(r)
    PROVE  Contract!End
<1>1. r \in Handlers({"run"})
  BY DEF Apply, Handlers
<1>2. Handlers({"run"})' = {}
  BY DEF Apply, Go, SlotInv, SlotTypes, Handlers, Holding
<1>3. Phase' = Phase
  BY DEF Apply, server, Phase
<1> QED BY <1>1, <1>2, <1>3, RunIsOwed, NoRunNext DEF Contract!End

(* A tick is the contract's Pass while the run has time left. *)
LEMMA TickRefines ==
    ASSUME SlotInv, SlotInv', Tick
    PROVE  Contract!Pass \/ UNCHANGED <<Writer, Owed, Phase>>
<1>1. Phase' = Phase /\ pc' = pc
  BY DEF Tick, Phase
<1>2. CASE Handlers({"run"}) = {}
  <2>1. Handlers({"run"})' = {}
    BY <1>1, <1>2 DEF Handlers
  <2> QED BY <1>1, <1>2, <2>1, NoRun, NoRunNext
<1>3. CASE Handlers({"run"}) # {}
  <2>1. PICK r \in Handlers({"run"}) : TRUE
    BY <1>3
  <2>2. r \in Handlers({"run"})' /\ r \in Request
    BY <1>1 DEF Handlers
  <2>3. /\ Writer = r /\ Owed = left[r] /\ left[r] \in Nat /\ Writer # NoRequest
        /\ Writer' = r
    BY <2>2, RunIsOwed, WriterRunsNext
  <2>4. Owed' = Less(left[r])
    BY <2>2, <2>3 DEF Owed, Tick
  <2> QED BY <1>1, <2>3, <2>4 DEF Contract!Pass, Less
<1> QED BY <1>2, <1>3

(* Serve exits only when the run has no time left: the contract's Stop. *)
LEMMA ServeRefines ==
    ASSUME SlotInv, SlotInv', CloseStreams \/ StartDrain \/ StopServing
    PROVE  Contract!Announce \/ Contract!Stop \/ UNCHANGED <<Writer, Owed, Phase>>
<1>1. pc' = pc /\ left' = left
  BY DEF CloseStreams, StartDrain, StopServing
<1>2. Writer' = Writer /\ Owed' = Owed
  BY <1>1, SameRun
<1>3. CASE CloseStreams
  BY <1>2, <1>3 DEF CloseStreams, Phase, Contract!Announce
<1>4. CASE StartDrain
  BY <1>2, <1>4 DEF StartDrain, Phase
<1>5. CASE StopServing
  <2>1. Phase = "stopping" /\ Phase' = "stopped"
    BY <1>5 DEF StopServing, Phase
  <2>2. CASE Handlers({"run"}) = {}
    BY <1>2, <2>1, <2>2, NoRun DEF Contract!Stop
  <2>3. CASE Handlers({"run"}) # {}
    <3>1. PICK r \in Handlers({"run"}) : TRUE
      BY <2>3
    <3>2. left[r] <= drain /\ drain = 0
      BY <1>5 DEF StopServing, SlotInv, DrainCoversRun, Handlers
    <3>3. Owed = 0
      BY <3>2, RunIsOwed
    <3> QED BY <1>2, <2>1, <3>3 DEF Contract!Stop
  <2> QED BY <2>2, <2>3
<1> QED BY <1>3, <1>4, <1>5

(* Every other step of a handler is outside the run. *)
LEMMA HandlerStutters ==
    ASSUME SlotInv, SlotInv', NEW r \in Request,
           \/ Arrive(r) \/ Acquire(r) \/ Shed(r) \/ Return(r) \/ CheckClosing(r) \/ TrySlot(r)
           \/ Enqueue(r) \/ WinSlot(r) \/ GiveUp(r) \/ ClientGone(r) \/ Stamp(r) \/ Release(r)
    PROVE  UNCHANGED <<Writer, Owed, Phase>>
<1>1. /\ pc[r] # "run" /\ serve' = serve
      /\ \E to : to # "run" /\ Go(r, to)
      /\ left' = left \/ \E t : SetTimer(r, t)
  <2>1. CASE Arrive(r) \/ Acquire(r) \/ Shed(r) \/ Return(r) \/ CheckClosing(r) \/ TrySlot(r)
    BY <2>1 DEF Arrive, Acquire, Shed, Return, CheckClosing, TrySlot, server
  <2>2. CASE Enqueue(r) \/ WinSlot(r) \/ GiveUp(r) \/ ClientGone(r) \/ Stamp(r) \/ Release(r)
    BY <2>2 DEF Enqueue, WinSlot, GiveUp, ClientGone, Stamp, Release, server
  <2> QED BY <2>1, <2>2
<1>2. \A q \in Request : pc'[q] = "run" <=> pc[q] = "run"
  BY <1>1 DEF Go, SlotInv, SlotTypes
<1>3. \A q \in Request : pc[q] = "run" => left'[q] = left[q]
  BY <1>1 DEF SetTimer, SlotInv, SlotTypes
<1> QED BY <1>1, <1>2, <1>3, SameRun DEF Phase

(***************************************************************************)
(* Every step of the handlers and of Serve is a step of GracefulStop or    *)
(* none: large applies run one at a time, none begins once the stop has    *)
(* been announced, and Serve does not exit while one has time left.        *)
(***************************************************************************)
THEOREM KeepsThePromise == Spec => StopsSafely
<1>1. Init => Contract!Init
  <2> SUFFICES ASSUME Init PROVE Contract!Init
    OBVIOUS
  <2>1. Handlers({"run"}) = {}
    BY DEF Init, Handlers
  <2> QED BY <2>1, NoRun DEF Init, Phase, Contract!Init
<1>2. IndInv /\ IndInv' /\ [Next]_vars => [Contract!Next]_(Contract!vars)
  <2> SUFFICES ASSUME IndInv, IndInv', [Next]_vars
               PROVE  Contract!Next \/ UNCHANGED <<Writer, Owed, Phase>>
    BY DEF Contract!vars
  <2>0. SlotInv /\ SlotInv'
    BY Halves, HalvesNext
  <2>1. CASE Tick
    BY <2>0, <2>1, TickRefines DEF Contract!Next
  <2>2. CASE CloseStreams \/ StartDrain \/ StopServing
    BY <2>0, <2>2, ServeRefines DEF Contract!Next
  <2>3. ASSUME NEW r \in Request, Admit(r) PROVE Contract!Next \/ UNCHANGED <<Writer, Owed, Phase>>
    BY <2>0, <2>3, AdmitRefines DEF Contract!Next
  <2>4. ASSUME NEW r \in Request, Apply(r) PROVE Contract!Next
    BY <2>0, <2>4, ApplyRefines DEF Contract!Next
  <2>5. CASE UNCHANGED vars
    BY <2>5 DEF vars, Writer, Owed, Phase, Handlers
  <2> QED BY <2>0, <2>1, <2>2, <2>3, <2>4, <2>5, HandlerStutters DEF Next, Handler
<1> QED BY <1>1, <1>2, Initial, Inductive, PTL DEF Spec, StopsSafely

=============================================================================
