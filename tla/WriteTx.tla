------------------------------ MODULE WriteTx -------------------------------
(***************************************************************************)
(* One write of the Dolt store from the caller's side: admission by the    *)
(* circuit breaker, withRetryTx and its replays, a commit whose answer may *)
(* be lost, the Dolt commit that publishes it, and, for a guarded delete,  *)
(* the fence held around all of it.  Every session is a process of its own *)
(* writing through one server.                                             *)
(*                                                                         *)
(* What a write does is kept just rich enough to be seen happening twice,  *)
(* not at all, or being undone: a mutation adds one, modulo 3, to a cell   *)
(* of its session, and every delete is of one row that they share.         *)
(***************************************************************************)
EXTENDS Circuit

CONSTANTS
    Session,
    None,
    Scenarios       \* who writes what, under which settings, with how many faults

Scenario ==
    [ops : [Session -> SUBSET {"mutate", "delete", "guarded"}],
     deferred : BOOLEAN,        \* VersionCommitDeferred
     losses : BOOLEAN,          \* answers to commits may be lost
     breaker : BOOLEAN,
     faults : Nat]

ASSUME WriteTxAssumption ==
    Scenarios \subseteq Scenario /\ None \notin Session

VARIABLES
    scenario,
    up,             \* the server answers
    work,           \* the working set of the branch
    deleter,        \* whose running or last write removed the row
    lock,           \* who holds GET_LOCK of the row's fence
    file,           \* the breaker's file
    proc,           \* per session, the write it runs
    faults

vars == <<scenario, up, work, deleter, lock, file, proc, faults>>

Root == [cell : [Session -> 0 .. 2], row : BOOLEAN]

Step == {"idle", "fence", "admit", "allow", "begin", "open", "failure", "count", "state",
         "success", "publish"}

Process ==
    [pc : Step,
     op : {"mutate", "delete", "guarded"},
     phase : {"write", "publish"},      \* which of the two admissions is on
     conn : BOOLEAN,                    \* the connection lives
     snap : Root \cup {None},           \* the root at BEGIN, once there was one
     copy : CircuitState,               \* the breaker as last read
     then : {"retry", "ok", "failed", "unknown"},   \* what follows the accounting
     base : 0 .. 2,                     \* the session's cell when called
     outcome : {"none", "ok", "failed", "unknown"}]

Init ==
    /\ scenario \in Scenarios
    /\ up = TRUE /\ lock = None /\ deleter = None /\ faults = 0
    /\ work = [cell |-> [s \in Session |-> 0], row |-> TRUE]
    /\ file \in {ClosedCircuit} \cup (IF scenario.breaker THEN {Breaker("half-open", 0, 0)} ELSE {})
    /\ proc = [s \in Session |->
        [pc |-> "idle", op |-> "mutate", phase |-> "write", conn |-> FALSE, snap |-> None,
         copy |-> ClosedCircuit, then |-> "retry", base |-> 0, outcome |-> "none"]]

At(s, pc) == proc[s].pc = pc

Go(s, pc) == proc' = [proc EXCEPT ![s].pc = pc]

(* On to pc; the breaker as it was read matters no more. *)
Forget(s, pc) == proc' = [proc EXCEPT ![s] = [@ EXCEPT !.pc = pc, !.copy = ClosedCircuit]]

(* Mutant: the connection goes back to the pool with its lock. *)
Freed_Stranded(s) == lock

(* RELEASE_LOCK, or the end of the session that held the lock. *)
Freed(s) == IF lock = s THEN None ELSE lock

(* The write returns; what it no longer needs is forgotten. *)
Return(s, outcome) ==
    /\ proc' = [proc EXCEPT ![s] = [@ EXCEPT !.pc = "idle", !.outcome = outcome, !.snap = None,
                    !.conn = FALSE, !.copy = ClosedCircuit, !.phase = "write", !.then = "retry"]]
    /\ lock' = Freed(s)

(* Accounting of a failure or of a success, and what follows it. *)
Account(s, pc, then) == proc' = [proc EXCEPT ![s] = [@ EXCEPT !.pc = pc, !.then = then]]

-----------------------------------------------------------------------------
Call(s, op) ==
    /\ At(s, "idle") /\ op \in scenario.ops[s]
    /\ proc' = [proc EXCEPT ![s] = [@ EXCEPT !.pc = IF op = "guarded" THEN "fence" ELSE "admit",
                    !.op = op, !.conn = TRUE, !.base = work.cell[s], !.outcome = "none"]]
    /\ deleter' = IF deleter = s THEN None ELSE deleter
    /\ UNCHANGED <<scenario, up, work, lock, file, faults>>

(* Mutant: the lock is asked for and not waited for. *)
GetLock_NoWait(s) ==
    /\ At(s, "fence") /\ up /\ proc[s].conn
    /\ lock' = s
    /\ Go(s, "admit")
    /\ UNCHANGED <<scenario, up, work, deleter, file, faults>>

(* withDeleteFence: GET_LOCK on the connection that will also write. *)
GetLock(s) ==
    /\ At(s, "fence") /\ up /\ proc[s].conn /\ lock = None
    /\ lock' = s
    /\ Go(s, "admit")
    /\ UNCHANGED <<scenario, up, work, deleter, file, faults>>

(* ErrDeleteFenceUnavailable: the wait timed out, or the connection broke. *)
NoLock(s) ==
    /\ At(s, "fence") /\ (lock # None \/ ~up \/ ~proc[s].conn)
    /\ Return(s, "failed")
    /\ UNCHANGED <<scenario, up, work, deleter, file, faults>>

-----------------------------------------------------------------------------
(* Each change of the breaker's file is a read and, later, a write. *)
ReadBreaker(s, from, to) ==
    /\ At(s, from)
    /\ file' = readState(file)
    /\ proc' = [proc EXCEPT ![s] = [@ EXCEPT !.pc = to, !.copy = readState(file)]]
    /\ UNCHANGED <<scenario, up, work, deleter, lock, faults>>

(***************************************************************************)
(* writeState of c.  Its temporary file has one name for all processes: of *)
(* two that write at once, one may rename the other's half-written file,   *)
(* which readState takes for a closed circuit.                             *)
(***************************************************************************)
WriteBreaker(s, c) ==
    \/ file' = c
    \/ /\ c # proc[s].copy
       /\ \E z \in Session \ {s} : proc[z].pc \in {"allow", "count", "success"}
       /\ file' = ClosedCircuit

Allow(s) ==
    LET c == afterAllow(proc[s].copy, up) IN
    /\ At(s, "allow")
    /\ IF c = proc[s].copy THEN file' = file ELSE WriteBreaker(s, c)
    /\ IF c.state = "closed"
       THEN /\ Forget(s, IF proc[s].phase = "write" THEN "begin" ELSE "publish")
            /\ UNCHANGED lock
       ELSE Return(s, IF proc[s].phase = "write" THEN "failed" ELSE "ok")
    /\ UNCHANGED <<scenario, up, work, deleter, faults>>

RecordFailure(s) ==
    /\ At(s, "count")
    /\ IF scenario.breaker THEN WriteBreaker(s, afterFailure(proc[s].copy)) ELSE UNCHANGED file
    /\ IF proc[s].then = "retry" THEN Forget(s, "state") /\ UNCHANGED lock
       ELSE Return(s, proc[s].then)
    /\ UNCHANGED <<scenario, up, work, deleter, faults>>

(* A failure that finds the circuit open ends the retries. *)
CheckTripped(s) ==
    /\ At(s, "state")
    /\ IF readState(file).state = "open" THEN Return(s, "failed") ELSE Go(s, "begin") /\ UNCHANGED lock
    /\ file' = readState(file)
    /\ UNCHANGED <<scenario, up, work, deleter, faults>>

RecordSuccess(s) ==
    /\ At(s, "success")
    /\ WriteBreaker(s, ClosedCircuit)
    /\ IF proc[s].phase = "write" /\ proc[s].op = "mutate" /\ ~scenario.deferred
       THEN proc' = [proc EXCEPT ![s] = [@ EXCEPT !.pc = "admit", !.phase = "publish"]] /\ UNCHANGED lock
       ELSE Return(s, "ok")
    /\ UNCHANGED <<scenario, up, work, deleter, faults>>

-----------------------------------------------------------------------------
(* The transaction's root: its snapshot and its own change. *)
ownRoot(s, root) ==
    IF proc[s].op = "mutate"
    THEN [root EXCEPT !.cell[s] = (proc[s].snap.cell[s] + 1) % 3]
    ELSE [root EXCEPT !.row = FALSE]

(* The body of a delete publishes before its transaction has committed. *)
publishesInTx(s) == proc[s].op # "mutate" /\ ~scenario.deferred

(* Mutant: DOLT_ADD and DOLT_COMMIT inside the transaction. *)
landed_InTx(s) == ownRoot(s, proc[s].snap)

(***************************************************************************)
(* What a commit makes of the working set.  tx.Commit merges; a DOLT_COMMIT *)
(* inside the transaction writes the tables as the transaction sees them.  *)
(***************************************************************************)
landed(s) == ownRoot(s, IF publishesInTx(s) THEN proc[s].snap ELSE work)

Land(s) ==
    /\ work' = landed(s)
    /\ deleter' = IF proc[s].op # "mutate" /\ work.row THEN s ELSE deleter

(* BeginTx; the pool has a fresh connection, a fence has only its own. *)
Begin(s) ==
    /\ At(s, "begin") /\ up /\ (proc[s].conn \/ proc[s].op # "guarded")
    /\ proc' = [proc EXCEPT ![s] = [@ EXCEPT !.pc = "open", !.conn = TRUE, !.snap = work]]
    /\ UNCHANGED <<scenario, up, work, deleter, lock, file, faults>>

BeginFails(s) ==
    /\ At(s, "begin")
    /\ \/ ~up /\ Account(s, "failure", "retry")
       \/ ~proc[s].conn /\ proc[s].op = "guarded" /\ Account(s, "failure", "failed")
    /\ UNCHANGED <<scenario, up, work, deleter, lock, file, faults>>

(* The backoff's MaxElapsedTime is over. *)
GiveUp(s) ==
    /\ At(s, "begin") /\ (proc[s].snap # None \/ ~up)
    /\ Return(s, "failed")
    /\ UNCHANGED <<scenario, up, work, deleter, file, faults>>

NotFound(s) ==
    /\ At(s, "open") /\ proc[s].conn /\ proc[s].op # "mutate" /\ ~proc[s].snap.row
    /\ Return(s, "failed")
    /\ UNCHANGED <<scenario, up, work, deleter, file, faults>>

(* 1213, 1205 or the 1105 of a rollback: somebody committed since BEGIN. *)
Conflict(s) ==
    /\ At(s, "open") /\ proc[s].conn /\ work # proc[s].snap
    /\ Go(s, "begin")
    /\ UNCHANGED <<scenario, up, work, deleter, lock, file, faults>>

Writes(s) ==
    At(s, "open") /\ proc[s].conn /\ (proc[s].op = "mutate" \/ proc[s].snap.row)

Commit(s) ==
    /\ Writes(s) /\ Land(s)
    /\ Go(s, "success")
    /\ UNCHANGED <<scenario, up, lock, file, faults>>

(* Mutant: a lost answer to a commit is one more connection error. *)
answerLost_Retries(s) == {"retry"}

(***************************************************************************)
(* wrapSQLCommitError marks the lost answer of tx.Commit; the error of the *)
(* DOLT_COMMIT in the body of a delete is not marked.                      *)
(***************************************************************************)
answerLost(s) == {"unknown"} \cup (IF publishesInTx(s) THEN {"retry"} ELSE {})

CommitLost(s) ==
    /\ Writes(s) /\ faults < scenario.faults /\ scenario.losses
    /\ Land(s) \/ UNCHANGED <<work, deleter>>
    /\ \E then \in answerLost(s) :
        proc' = [proc EXCEPT ![s] = [@ EXCEPT !.pc = "failure", !.then = then, !.conn = FALSE]]
    /\ lock' = Freed(s)
    /\ faults' = faults + 1
    /\ UNCHANGED <<scenario, up, file>>

(***************************************************************************)
(* The caller cancels during the commit: indeterminate, and not accounted. *)
(* A delete that publishes itself hands back the error of the context,     *)
(* which tells the caller as little.                                       *)
(***************************************************************************)
CommitCanceled(s) ==
    /\ Writes(s) /\ scenario.losses
    /\ Land(s) \/ UNCHANGED <<work, deleter>>
    /\ Return(s, "unknown")
    /\ UNCHANGED <<scenario, up, file, faults>>

(* An error before the commit, once the connection is gone. *)
Broken(s) ==
    /\ At(s, "open") /\ ~proc[s].conn
    /\ Account(s, "failure", "retry")
    /\ UNCHANGED <<scenario, up, work, deleter, lock, file, faults>>

(* Mutant: a failed publication is the caller's error. *)
publishFailed_Surfaces(s) == "failed"

publishFailed(s) == "ok"

(* doltAddAndCommitPostTx stages the working set as it now is. *)
Publish(s) ==
    /\ At(s, "publish")
    /\ \/ up /\ Go(s, "success")
       \/ ~up /\ Account(s, "failure", publishFailed(s))
    /\ UNCHANGED <<scenario, up, work, deleter, lock, file, faults>>

-----------------------------------------------------------------------------
(* The server ends the session: its transaction and its lock are gone. *)
Disconnect(s) ==
    /\ At(s, "open") /\ proc[s].conn /\ faults < scenario.faults
    /\ proc' = [proc EXCEPT ![s].conn = FALSE]
    /\ lock' = Freed(s)
    /\ faults' = faults + 1
    /\ UNCHANGED <<scenario, up, work, deleter, file>>

Outage ==
    /\ up /\ faults < scenario.faults
    /\ up' = FALSE
    /\ proc' = [s \in Session |-> [proc[s] EXCEPT !.conn = FALSE]]
    /\ lock' = None
    /\ faults' = faults + 1
    /\ UNCHANGED <<scenario, work, deleter, file>>

Restart ==
    /\ ~up /\ up' = TRUE
    /\ UNCHANGED <<scenario, work, deleter, lock, file, proc, faults>>

(* A process dies; nobody is told how its write ended. *)
Die(s) ==
    /\ ~At(s, "idle") /\ faults < scenario.faults
    /\ Return(s, "unknown")
    /\ faults' = faults + 1
    /\ UNCHANGED <<scenario, up, work, deleter, file>>

Tick ==
    /\ file' = Older(file)
    /\ proc' = [s \in Session |-> [proc[s] EXCEPT !.copy = Older(@)]]
    /\ UNCHANGED <<scenario, up, work, deleter, lock, faults>>

Run(s) ==
    \/ GetLock(s) \/ NoLock(s)
    \/ ReadBreaker(s, "admit", "allow") \/ Allow(s)
    \/ ReadBreaker(s, "failure", "count") \/ RecordFailure(s) \/ CheckTripped(s) \/ RecordSuccess(s)
    \/ Begin(s) \/ BeginFails(s) \/ NotFound(s) \/ Conflict(s) \/ Commit(s) \/ Broken(s) \/ Publish(s)

Next ==
    \/ Outage \/ Restart \/ Tick
    \/ \E s \in Session :
        \/ \E op \in {"mutate", "delete", "guarded"} : Call(s, op)
        \/ Run(s) \/ GiveUp(s) \/ CommitLost(s) \/ CommitCanceled(s) \/ Disconnect(s) \/ Die(s)

(***************************************************************************)
(* Callers keep calling, a write that runs goes on, the backoff ends a     *)
(* retry loop (its budget is elapsed time), and time passes.               *)
(***************************************************************************)
Spec ==
    /\ Init /\ [][Next]_vars /\ WF_vars(Tick)
    /\ \A s \in Session :
        /\ WF_vars(\E op \in {"mutate", "delete", "guarded"} : Call(s, op))
        /\ WF_vars(Run(s)) /\ SF_vars(GiveUp(s))

-----------------------------------------------------------------------------
(* Every variable has its type. *)
TypeOK ==
    /\ scenario \in Scenarios /\ up \in BOOLEAN /\ work \in Root
    /\ {deleter, lock} \subseteq Session \cup {None}
    /\ file \in CircuitState /\ proc \in [Session -> Process] /\ faults \in 0 .. scenario.faults

(***************************************************************************)
(* What a caller is told is what happened: a write that returned ok has    *)
(* been applied exactly once and is still in place, one that failed has    *)
(* not been applied at all, and only an indeterminate one may be either.   *)
(* "Connection failures reaching this branch happened before commit"       *)
(* (withRetryTxOn).                                                        *)
(***************************************************************************)
OutcomeIsTruthful ==
    \A s \in Session : LET p == proc[s] IN
        /\ work.cell[s] - p.base \in {0, 1, -2}
        /\ p.outcome = "ok" =>
            IF p.op = "mutate" THEN work.cell[s] # p.base ELSE ~work.row
        /\ p.outcome = "failed" =>
            IF p.op = "mutate" THEN work.cell[s] = p.base ELSE deleter # s

(***************************************************************************)
(* Of the guarded deletes of one row at most one reports success, although *)
(* the merge sees nothing wrong with two.                                  *)
(***************************************************************************)
OneDeleteWins ==
    \A s \in Session : proc[s].op = "guarded" /\ proc[s].outcome = "ok" => deleter = s

(***************************************************************************)
(* A circuit that is open does not stay open: once the server is up for    *)
(* good, the file says closed for good, whatever the processes wrote over  *)
(* each other.                                                             *)
(***************************************************************************)
BreakerRecovers == <>[]up => <>[](file.state = "closed")

(* Whoever holds the fence lets go of it, up or down. *)
FenceIsFreed == \A s \in Session : lock = s ~> lock # s

=============================================================================
