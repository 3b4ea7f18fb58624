----------------------------- MODULE LargeApply -----------------------------
(***************************************************************************)
(* POST issues:batchApply over the item threshold, on a bd serve that may  *)
(* be told to stop at any moment.  A handler holds a slot of s.sem all     *)
(* along; a large one also needs the one-wide largeApplySem, for which at  *)
(* most one waits, and once it holds it runs under a deadline of its own,  *)
(* which it publishes in largeApplyDeadline.  Serve, when stopped, reads   *)
(* that deadline once to decide how long the drain may take.  Handlers and *)
(* Serve share nothing but these variables: every access is a step.        *)
(*                                                                         *)
(* Deadlines and timers are kept as the time they have left, so a passed   *)
(* deadline and a nil one are both 0; drainBudget treats them alike.       *)
(***************************************************************************)
EXTENDS Integers, FiniteSets

CONSTANTS Request,          \* requests in flight; a name is reused
          NoRequest,
          MaxInflight,      \* maxInflight, the width of s.sem
          SemTimeout,       \* semAcquireTimeout
          Ceiling,          \* largeApplyCeiling
          DrainTimeout,     \* drainTimeout
          DrainGrace        \* drainGrace

ASSUME LargeApplyAssumption ==
    /\ {MaxInflight, SemTimeout, Ceiling, DrainTimeout, DrainGrace} \subseteq Nat
    /\ NoRequest \notin Request /\ IsFiniteSet(Request)

VARIABLES
    pc,                     \* per request, where its handler is
    left,                   \* per request, the time left to its timer or run
    sem,                    \* how many slots of s.sem are taken
    largeApplySem,          \* whether the large slot is taken
    largeApplyWaiting,      \* the request that waits for it
    largeApplyDeadline,     \* the published deadline
    closing,                \* s.closing is closed
    serve,                  \* where Serve is
    drain                   \* the time left to the drain

vars == <<pc, left, sem, largeApplySem, largeApplyWaiting, largeApplyDeadline,
          closing, serve, drain>>
slots == <<sem, largeApplySem, largeApplyWaiting, largeApplyDeadline>>
server == <<closing, serve, drain>>

Init ==
    /\ pc = [r \in Request |-> "idle"]
    /\ left = [r \in Request |-> 0]
    /\ sem = 0
    /\ largeApplySem = FALSE /\ largeApplyWaiting = NoRequest /\ largeApplyDeadline = 0
    /\ closing = FALSE /\ serve = "up" /\ drain = 0

Running == serve # "done"

Less(t) == IF t = 0 THEN 0 ELSE t - 1

Tick ==
    /\ Running /\ (serve = "drain" => drain > 0)
    /\ left' = [r \in Request |-> Less(left[r])]
    /\ largeApplyDeadline' = Less(largeApplyDeadline)
    /\ drain' = Less(drain)
    /\ UNCHANGED <<pc, sem, largeApplySem, largeApplyWaiting, closing, serve>>

Go(r, to) == pc' = [pc EXCEPT ![r] = to]

SetTimer(r, t) == left' = [left EXCEPT ![r] = t]

-----------------------------------------------------------------------------
(***************************************************************************)
(* route and acquire: a slot of s.sem if one is free, else a wait for one. *)
(* After Shutdown is called the listener accepts no request.               *)
(***************************************************************************)
Arrive(r) ==
    /\ serve \in {"up", "budget"} /\ pc[r] = "idle"
    /\ IF sem < MaxInflight
       THEN sem' = sem + 1 /\ Go(r, "check") /\ UNCHANGED left
       ELSE SetTimer(r, SemTimeout) /\ Go(r, "acquire") /\ UNCHANGED sem
    /\ UNCHANGED <<largeApplySem, largeApplyWaiting, largeApplyDeadline, server>>

Acquire(r) ==
    /\ Running /\ pc[r] = "acquire" /\ sem < MaxInflight
    /\ sem' = sem + 1
    /\ SetTimer(r, 0) /\ Go(r, "check")
    /\ UNCHANGED <<largeApplySem, largeApplyWaiting, largeApplyDeadline, server>>

(* Mutant: the refused request gives back a slot it never held. *)
Shed_Release(r) ==
    /\ Running /\ pc[r] = "acquire" /\ left[r] = 0
    /\ sem' = sem - 1
    /\ Go(r, "idle")
    /\ UNCHANGED <<left, largeApplySem, largeApplyWaiting, largeApplyDeadline, server>>

(* ErrBusy, once the timer has fired. *)
Shed(r) ==
    /\ Running /\ pc[r] = "acquire" /\ left[r] = 0
    /\ Go(r, "idle")
    /\ UNCHANGED <<left, slots, server>>

(* The deferred reset of largeApplyWaiting, where it was set. *)
StopWaiting(r) ==
    largeApplyWaiting' = IF largeApplyWaiting = r THEN NoRequest ELSE largeApplyWaiting

(* The handler returns, with a response or ErrBusy, and gives s.sem back. *)
Return(r) ==
    /\ Running /\ pc[r] = "return"
    /\ sem' = sem - 1
    /\ StopWaiting(r) /\ Go(r, "idle")
    /\ UNCHANGED <<left, largeApplySem, largeApplyDeadline, server>>

CheckClosing(r) ==
    /\ Running /\ pc[r] = "check"
    /\ Go(r, IF closing THEN "return" ELSE "try")
    /\ UNCHANGED <<left, slots, server>>

TrySlot(r) ==
    /\ Running /\ pc[r] = "try"
    /\ largeApplySem' = TRUE
    /\ Go(r, IF largeApplySem THEN "enqueue" ELSE "stamp")
    /\ UNCHANGED <<left, sem, largeApplyWaiting, largeApplyDeadline, server>>

(* Mutant: nothing limits how many requests wait. *)
Enqueue_Ungated(r) ==
    /\ Running /\ pc[r] = "enqueue"
    /\ largeApplyWaiting' = r
    /\ Go(r, "queued") /\ SetTimer(r, SemTimeout)
    /\ UNCHANGED <<sem, largeApplySem, largeApplyDeadline, server>>

(* The compare-and-swap: a second waiter is refused at once. *)
Enqueue(r) ==
    /\ Running /\ pc[r] = "enqueue"
    /\ IF largeApplyWaiting = NoRequest
       THEN /\ Go(r, "queued") /\ SetTimer(r, SemTimeout)
            /\ largeApplyWaiting' = r
       ELSE Go(r, "return") /\ UNCHANGED <<left, largeApplyWaiting>>
    /\ UNCHANGED <<sem, largeApplySem, largeApplyDeadline, server>>

(* The select takes any of its ready cases: the slot, or a reason to stop. *)
WinSlot(r) ==
    /\ Running /\ pc[r] = "queued" /\ ~largeApplySem
    /\ largeApplySem' = TRUE
    /\ SetTimer(r, 0) /\ Go(r, "stamp")
    /\ UNCHANGED <<sem, largeApplyWaiting, largeApplyDeadline, server>>

(* Mutant: the wait has no timer. *)
GiveUp_NoTimer(r) ==
    /\ Running /\ pc[r] = "queued" /\ closing
    /\ SetTimer(r, 0) /\ Go(r, "return")
    /\ UNCHANGED <<slots, server>>

GiveUp(r) ==
    /\ Running /\ pc[r] = "queued" /\ (left[r] = 0 \/ closing)
    /\ SetTimer(r, 0) /\ Go(r, "return")
    /\ UNCHANGED <<slots, server>>

(* The context of a request that waits, in acquire or for the large slot, is done. *)
ClientGone(r) ==
    /\ Running /\ pc[r] \in {"acquire", "queued"}
    /\ SetTimer(r, 0) /\ Go(r, IF pc[r] = "acquire" THEN "idle" ELSE "return")
    /\ UNCHANGED <<slots, server>>

(* admitLargeApply: the deadline is published first, closing read second. *)
Stamp(r) ==
    /\ Running /\ pc[r] = "stamp"
    /\ SetTimer(r, Ceiling)
    /\ largeApplyDeadline' = Ceiling
    /\ Go(r, "admit")
    /\ UNCHANGED <<sem, largeApplySem, largeApplyWaiting, server>>

(* Mutant: the slot, once won, is enough. *)
Admit_NoRecheck(r) ==
    /\ Running /\ pc[r] = "admit"
    /\ Go(r, "run") /\ StopWaiting(r)
    /\ UNCHANGED <<left, sem, largeApplySem, largeApplyDeadline, server>>

Admit(r) ==
    /\ Running /\ pc[r] = "admit"
    /\ IF closing
       THEN Go(r, "release") /\ UNCHANGED largeApplyWaiting
       ELSE Go(r, "run") /\ StopWaiting(r)
    /\ UNCHANGED <<left, sem, largeApplySem, largeApplyDeadline, server>>

(***************************************************************************)
(* ApplyBatch returns, committed or not, and the response is written.  The *)
(* run context is detached: the client going away does not end it.         *)
(***************************************************************************)
Apply(r) ==
    /\ Running /\ pc[r] = "run"
    /\ Go(r, "release")
    /\ UNCHANGED <<left, slots, server>>

Withdraw == largeApplyDeadline' = 0 /\ UNCHANGED largeApplySem

FreeSlot == largeApplySem' = FALSE /\ UNCHANGED largeApplyDeadline

(* Mutant: the slot is freed before the deadline is withdrawn. *)
Release_SlotFirst(r) ==
    /\ Running
    /\ \/ pc[r] = "release" /\ FreeSlot /\ Go(r, "free")
       \/ pc[r] = "free" /\ Withdraw /\ Go(r, "return")
    /\ SetTimer(r, 0)
    /\ UNCHANGED <<sem, largeApplyWaiting, server>>

(* release cancels the run, withdraws the deadline, and then frees the slot. *)
Release(r) ==
    /\ Running
    /\ \/ pc[r] = "release" /\ Withdraw /\ Go(r, "free")
       \/ pc[r] = "free" /\ FreeSlot /\ Go(r, "return")
    /\ SetTimer(r, 0)
    /\ UNCHANGED <<sem, largeApplyWaiting, server>>

-----------------------------------------------------------------------------
(* The stop signal arrives: Serve closes s.closing before anything else. *)
CloseStreams ==
    /\ serve = "up" /\ serve' = "budget"
    /\ closing' = TRUE
    /\ UNCHANGED <<pc, left, slots, drain>>

(* Mutant: the drain is not extended. *)
drainBudget_BaseOnly == DrainTimeout

drainBudget ==
    IF largeApplyDeadline > DrainTimeout THEN largeApplyDeadline + DrainGrace ELSE DrainTimeout

StartDrain ==
    /\ serve = "budget" /\ serve' = "drain"
    /\ drain' = drainBudget
    /\ UNCHANGED <<pc, left, slots, closing>>

(* Shutdown returns when no connection is busy, or when the drain is over. *)
StopServing ==
    /\ serve = "drain" /\ serve' = "done"
    /\ drain = 0 \/ \A r \in Request : pc[r] = "idle"
    /\ UNCHANGED <<pc, left, slots, closing, drain>>

Handler(r) ==
    \/ Acquire(r) \/ Shed(r) \/ Return(r) \/ CheckClosing(r) \/ TrySlot(r) \/ Enqueue(r) \/ WinSlot(r)
    \/ GiveUp(r) \/ Stamp(r) \/ Admit(r) \/ Release(r)

Next ==
    \/ Tick \/ CloseStreams \/ StartDrain \/ StopServing
    \/ \E r \in Request : Arrive(r) \/ Handler(r) \/ ClientGone(r) \/ Apply(r)

(***************************************************************************)
(* Goroutines run and time passes.  Nothing says that an apply returns, a  *)
(* request arrives, a client hangs up or the server is stopped.            *)
(***************************************************************************)
Spec ==
    /\ Init /\ [][Next]_vars
    /\ WF_vars(Tick) /\ WF_vars(StartDrain) /\ WF_vars(StopServing)
    /\ \A r \in Request : WF_vars(Handler(r))

-----------------------------------------------------------------------------

Handlers(pcs) == {r \in Request : pc[r] \in pcs}

Holding == {"stamp", "admit", "run", "release", "free"}

Admitted == Holding \cup {"check", "try", "enqueue", "queued", "return"}

(* Every variable has its type. *)
TypeOK ==
    /\ pc \in [Request -> Admitted \cup {"idle", "acquire"}]
    /\ left \in [Request -> Nat]
    /\ sem \in 0 .. MaxInflight
    /\ largeApplySem \in BOOLEAN /\ largeApplyWaiting \in Request \cup {NoRequest}
    /\ largeApplyDeadline \in Nat
    /\ closing \in BOOLEAN /\ serve \in {"up", "budget", "drain", "done"} /\ drain \in Nat

(***************************************************************************)
(* The large slot is one wide whichever way a handler came by it, and is   *)
(* given back exactly once; a burst of large requests costs at most one    *)
(* slot of s.sem to waiting.                                               *)
(***************************************************************************)
OneLargeApply ==
    /\ \A r, q \in Handlers(Holding) : r = q
    /\ largeApplySem <=> Handlers(Holding) # {}
    /\ \A r, q \in Handlers({"queued"}) : r = q
    /\ sem = Cardinality(Handlers(Admitted))

(***************************************************************************)
(* The budget that Serve computes once, at the start of the drain, covers  *)
(* whatever large apply still runs: none slips in behind the snapshot, and *)
(* the deadline read was the running one's.                                *)
(***************************************************************************)
DrainCoversRun == \A r \in Handlers({"run"}) : serve \in {"drain", "done"} => left[r] <= drain

(***************************************************************************)
(* What this rests on: the published deadline is that of the handler that  *)
(* is admitted or runs, a handler that waits is the one largeApplyWaiting  *)
(* stands for, and s.closing is closed before Serve does anything else.    *)
(***************************************************************************)
DeadlineIsPublished ==
    /\ \A r \in Handlers({"admit", "run"}) : largeApplyDeadline = left[r] /\ left[r] <= Ceiling
    /\ \A r \in Handlers({"queued"}) : largeApplyWaiting = r
    /\ closing <=> serve # "up"

(* The inductive invariant: all of these at once. *)
IndInv == TypeOK /\ OneLargeApply /\ DrainCoversRun /\ DeadlineIsPublished

(***************************************************************************)
(* A request that waits for the large slot is answered, whatever the       *)
(* holder does, unless the server exits first.                             *)
(***************************************************************************)
WaitEnds == \A r \in Request : pc[r] = "queued" ~> pc[r] # "queued" \/ serve = "done"

(* What of this state GracefulStop speaks about. *)
Writer == IF Handlers({"run"}) = {} THEN NoRequest ELSE CHOOSE r \in Request : pc[r] = "run"

Owed == IF Writer = NoRequest THEN 0 ELSE left[Writer]

Phase == IF serve = "up" THEN "serving" ELSE IF serve = "done" THEN "stopped" ELSE "stopping"

Contract == INSTANCE GracefulStop WITH writer <- Writer, owed <- Owed, phase <- Phase

(***************************************************************************)
(* LargeApply keeps GracefulStop's promise: one large apply at a time,     *)
(* none begun after the stop, and no exit while one has time left; and a   *)
(* stopped server does exit.                                               *)
(***************************************************************************)
StopsGracefully == Contract!Spec

(* The steps alone: LargeApply takes none that GracefulStop does not allow. *)
StopsSafely == Contract!Init /\ [][Contract!Next]_(Contract!vars)

=============================================================================
