---------------------------- MODULE WriteTxProofs ----------------------------
(***************************************************************************)
(* The theorems about WriteTx, for any number of processes and faults and  *)
(* any thresholds of the breaker.                                          *)
(***************************************************************************)
EXTENDS WriteTx, TLAPS

Others(s) == \A z \in Session \ {s} : proc'[z] = proc[z]

(* The steps that a write goes through. *)
LEMMA Steps ==
    /\ "idle" \in Step /\ "fence" \in Step /\ "admit" \in Step /\ "allow" \in Step
    /\ "begin" \in Step /\ "open" \in Step /\ "failure" \in Step /\ "count" \in Step
    /\ "state" \in Step /\ "success" \in Step /\ "publish" \in Step
BY DEF Step

(* The states the breaker is set to from outside are states of it. *)
LEMMA FixedStates ==
    /\ ClosedCircuit \in CircuitState /\ Tripped \in CircuitState
    /\ Breaker("half-open", 0, 0) \in CircuitState
BY CircuitAssumption DEF ClosedCircuit, Tripped, Breaker, CircuitState

(* What the breaker makes of its file is again a state of the breaker. *)
LEMMA BreakerTypes ==
    ASSUME NEW c \in CircuitState, NEW b \in BOOLEAN
    PROVE  /\ readState(c) \in CircuitState /\ afterFailure(c) \in CircuitState
           /\ afterAllow(c, b) \in CircuitState /\ Older(c) \in CircuitState
<1>1. readState(c) \in CircuitState /\ afterAllow(c, b) \in CircuitState
  BY FixedStates DEF readState, afterAllow
<1>2. afterFailure(c) \in CircuitState
  BY FixedStates, CircuitAssumption DEF afterFailure, Breaker, CircuitState
<1>3. Older(c) \in CircuitState
  BY CircuitAssumption DEF Older, CircuitState
<1> QED BY <1>1, <1>2, <1>3

(* A write that moves on changes its own record only. *)
LEMMA Replaces ==
    ASSUME proc \in [Session -> Process], NEW s \in Session, NEW p \in Process,
           proc' = [proc EXCEPT ![s] = p]
    PROVE  proc' \in [Session -> Process] /\ Others(s) /\ proc'[s] = p
BY DEF Others

(* The updates of a record that occur keep its type. *)
LEMMA Unplugged ==
    ASSUME NEW p \in Process
    PROVE  [p EXCEPT !.conn = FALSE] \in Process
BY Zenon DEF Process

(* Where it is, and what follows. *)
LEMMA UpdateThen ==
    ASSUME NEW p \in Process, NEW pc \in Step, NEW then \in {"retry", "ok", "failed", "unknown"}
    PROVE  [p EXCEPT !.pc = pc, !.then = then] \in Process
BY Zenon DEF Process

(* Where it is, and the breaker as read. *)
LEMMA UpdateCopy ==
    ASSUME NEW p \in Process, NEW pc \in Step, NEW c \in CircuitState
    PROVE  [p EXCEPT !.pc = pc, !.copy = c] \in Process
BY Zenon DEF Process

(* Where it is, and which admission is on. *)
LEMMA UpdatePhase ==
    ASSUME NEW p \in Process, NEW pc \in Step
    PROVE  [p EXCEPT !.pc = pc, !.phase = "publish"] \in Process
BY Zenon DEF Process

(* The beginning of a transaction. *)
LEMMA UpdateSnap ==
    ASSUME NEW p \in Process, NEW pc \in Step, NEW root \in Root
    PROVE  [p EXCEPT !.pc = pc, !.conn = TRUE, !.snap = root] \in Process
BY Zenon DEF Process

(* The loss of an answer. *)
LEMMA UpdateLost ==
    ASSUME NEW p \in Process, NEW pc \in Step, NEW then \in {"retry", "ok", "failed", "unknown"}
    PROVE  [p EXCEPT !.pc = pc, !.then = then, !.conn = FALSE] \in Process
BY Zenon DEF Process

(* Where it is, and what its caller was told. *)
LEMMA UpdateOutcome ==
    ASSUME NEW p \in Process, NEW pc \in Step, NEW outcome \in {"none", "ok", "failed", "unknown"}
    PROVE  [p EXCEPT !.pc = pc, !.outcome = outcome, !.snap = None] \in Process
BY Zenon DEF Process

(* What a write that returns forgets. *)
LEMMA UpdateReset ==
    ASSUME NEW p \in Process, NEW c \in CircuitState
    PROVE  [p EXCEPT !.conn = FALSE, !.copy = c, !.phase = "write", !.then = "retry"] \in Process
BY Zenon DEF Process

(* A write that only moves on. *)
LEMMA Goes ==
    ASSUME proc \in [Session -> Process], NEW s \in Session, NEW pc \in Step, Go(s, pc)
    PROVE  /\ proc' \in [Session -> Process] /\ Others(s)
           /\ proc'[s] = [proc[s] EXCEPT !.pc = pc]
<1>1. [proc[s] EXCEPT !.pc = pc] \in Process
  BY DEF Process
<1> QED BY <1>1, Replaces, Zenon DEF Go

(* One that goes to the accounting. *)
LEMMA Accounts ==
    ASSUME proc \in [Session -> Process], NEW s \in Session, NEW pc \in Step,
           NEW then \in {"retry", "ok", "failed", "unknown"}, Account(s, pc, then)
    PROVE  /\ proc' \in [Session -> Process] /\ Others(s)
           /\ proc'[s] = [proc[s] EXCEPT !.pc = pc, !.then = then]
<1>1. [proc[s] EXCEPT !.pc = pc, !.then = then] \in Process
  BY UpdateThen, Zenon
<1> QED BY <1>1, Replaces, Zenon DEF Account

(* One that has read the breaker. *)
LEMMA Reads ==
    ASSUME proc \in [Session -> Process], NEW s \in Session, NEW pc \in Step,
           NEW c \in CircuitState, proc' = [proc EXCEPT ![s] = [@ EXCEPT !.pc = pc, !.copy = c]]
    PROVE  /\ proc' \in [Session -> Process] /\ Others(s)
           /\ proc'[s] = [proc[s] EXCEPT !.pc = pc, !.copy = c]
<1>1. [proc[s] EXCEPT !.pc = pc, !.copy = c] \in Process
  BY UpdateCopy, Zenon
<1> QED BY <1>1, Replaces, Zenon

(* One that is through with the breaker. *)
LEMMA Forgets ==
    ASSUME proc \in [Session -> Process], NEW s \in Session, NEW pc \in Step, Forget(s, pc)
    PROVE  /\ proc' \in [Session -> Process] /\ Others(s)
           /\ proc'[s] = [proc[s] EXCEPT !.pc = pc, !.copy = ClosedCircuit]
<1>1. [proc[s] EXCEPT !.pc = pc, !.copy = ClosedCircuit] \in Process
  BY FixedStates, UpdateCopy, Zenon
<1> QED BY <1>1, Replaces, Zenon DEF Forget

(* One that returns to its caller. *)
LEMMA Returns ==
    ASSUME proc \in [Session -> Process], NEW s \in Session,
           NEW outcome \in {"none", "ok", "failed", "unknown"}, Return(s, outcome)
    PROVE  /\ proc' \in [Session -> Process] /\ Others(s)
           /\ proc'[s] = [proc[s] EXCEPT !.pc = "idle", !.outcome = outcome, !.snap = None,
                    !.conn = FALSE, !.copy = ClosedCircuit, !.phase = "write", !.then = "retry"]
           /\ lock' = Freed(s)
<1> DEFINE p == [proc[s] EXCEPT !.pc = "idle", !.outcome = outcome, !.snap = None]
           q == [p EXCEPT !.conn = FALSE, !.copy = ClosedCircuit, !.phase = "write", !.then = "retry"]
<1>1. p \in Process
  BY Steps, UpdateOutcome, Zenon
<1>2. q \in Process
  <2> HIDE DEF p
  <2> QED BY <1>1, FixedStates, UpdateReset, Zenon
<1>3. proc' = [proc EXCEPT ![s] = q]
  BY DEF Return
<1> QED BY <1>2, <1>3, Replaces, ZenonT(60) DEF Return

-----------------------------------------------------------------------------
(* Initially every variable has its type. *)
LEMMA InitialTypes == Init => TypeOK
<1> SUFFICES ASSUME Init PROVE TypeOK
  OBVIOUS
<1>1. scenario \in Scenarios /\ scenario \in Scenario
  BY WriteTxAssumption DEF Init
<1>2. proc \in [Session -> Process]
  BY Steps, FixedStates DEF Init, Process
<1>3. file \in CircuitState
  BY FixedStates DEF Init
<1>4. up \in BOOLEAN /\ work \in Root /\ {deleter, lock} \subseteq Session \cup {None}
  BY DEF Init, Root
<1>5. faults \in 0 .. scenario.faults
  BY <1>1 DEF Init, Scenario
<1> QED BY <1>1, <1>2, <1>3, <1>4, <1>5 DEF TypeOK

(* Whichever process writes the breaker's file, it holds a state of it. *)
LEMMA FileTypes ==
    ASSUME NEW s \in Session, NEW c \in CircuitState, WriteBreaker(s, c)
    PROVE  file' \in CircuitState
BY FixedStates DEF WriteBreaker

(* The steps of the accounting keep the types. *)
LEMMA AccountingTypes ==
    ASSUME TypeOK, NEW s \in Session,
           \/ ReadBreaker(s, "admit", "allow") \/ Allow(s)
           \/ ReadBreaker(s, "failure", "count") \/ RecordFailure(s)
           \/ CheckTripped(s) \/ RecordSuccess(s)
    PROVE  TypeOK'
<1> USE DEF TypeOK
<1>c. proc[s].copy \in CircuitState
  BY DEF Process
<1>l. Freed(s) \in Session \cup {None}
  BY DEF Freed
<1>1. CASE ReadBreaker(s, "admit", "allow") \/ ReadBreaker(s, "failure", "count")
  <2>1. readState(file) \in CircuitState
    BY BreakerTypes, SMTT(40)
  <2>2. proc' \in [Session -> Process]
    BY <1>1, <2>1, Steps, Reads, Zenon DEF ReadBreaker
  <2> QED BY <1>1, <2>1, <2>2 DEF ReadBreaker
<1>2. CASE Allow(s)
  <2>1. proc' \in [Session -> Process] /\ lock' \in Session \cup {None}
    BY <1>2, <1>l, Steps, Forgets, Returns, Zenon DEF Allow
  <2>2. file' \in CircuitState
    BY <1>2, <1>c, BreakerTypes, FileTypes, Zenon DEF Allow
  <2> QED BY <1>2, <2>1, <2>2, SMTT(40) DEF Allow
<1>3. CASE RecordFailure(s)
  <2>1. proc[s].then \in {"retry", "ok", "failed", "unknown"}
    BY DEF Process
  <2>2. proc' \in [Session -> Process] /\ lock' \in Session \cup {None}
    BY <1>3, <2>1, <1>l, Steps, Forgets, Returns, ZenonT(60) DEF RecordFailure
  <2>3. file' \in CircuitState
    BY <1>3, <1>c, BreakerTypes, FileTypes DEF RecordFailure
  <2> QED BY <1>3, <2>2, <2>3 DEF RecordFailure
<1>4. CASE CheckTripped(s)
  <2>1. proc' \in [Session -> Process] /\ lock' \in Session \cup {None}
    BY <1>4, <1>l, Steps, Goes, Returns, ZenonT(60) DEF CheckTripped
  <2> QED BY <1>4, <2>1, BreakerTypes DEF CheckTripped
<1>5. CASE RecordSuccess(s)
  <2>1. [proc[s] EXCEPT !.pc = "admit", !.phase = "publish"] \in Process
    BY Steps, UpdatePhase, ZenonT(60)
  <2>2. proc' \in [Session -> Process] /\ lock' \in Session \cup {None}
    BY <1>5, <2>1, <1>l, Replaces, Returns, Zenon DEF RecordSuccess
  <2>3. file' \in CircuitState
    BY <1>5, FixedStates, FileTypes DEF RecordSuccess
  <2> QED BY <1>5, <2>2, <2>3 DEF RecordSuccess
<1> QED BY <1>1, <1>2, <1>3, <1>4, <1>5

(* A fault within the bound leaves their number within it. *)
LEMMA OneMoreFault ==
    ASSUME TypeOK, faults < scenario.faults, faults' = faults + 1, scenario' = scenario
    PROVE  faults' \in 0 .. scenario'.faults
<1>1. scenario.faults \in Nat
  BY WriteTxAssumption DEF TypeOK, Scenario
<1> QED BY <1>1 DEF TypeOK

(* So does the landing of a commit. *)
LEMMA LandTypes ==
    ASSUME TypeOK, NEW s \in Session, proc[s].snap \in Root,
           Land(s) \/ UNCHANGED <<work, deleter>>
    PROVE  work' \in Root /\ deleter' \in Session \cup {None}
<1>1. \A root \in Root : ownRoot(s, root) \in Root
  <2> SUFFICES ASSUME NEW root \in Root PROVE ownRoot(s, root) \in Root
    OBVIOUS
  <2> DEFINE next == (proc[s].snap.cell[s] + 1) % 3
  <2>1. next \in 0 .. 2
    BY DEF Root
  <2> HIDE DEF next
  <2>2. [root EXCEPT !.cell[s] = next] \in Root /\ [root EXCEPT !.row = FALSE] \in Root
    BY <2>1, Zenon DEF Root
  <2> QED BY <2>2 DEF ownRoot, next
<1>2. landed(s) \in Root
  BY <1>1 DEF landed, TypeOK
<1> QED BY <1>2 DEF Land, TypeOK

(* A transaction that is open has its snapshot. *)
HasSnap == \A s \in Session : proc[s].pc = "open" => proc[s].snap \in Root

(* The steps of the transaction keep the types. *)
LEMMA TransactionTypes ==
    ASSUME TypeOK, HasSnap, NEW s \in Session,
           \/ Begin(s) \/ BeginFails(s) \/ GiveUp(s) \/ NotFound(s) \/ Conflict(s)
           \/ Commit(s) \/ CommitLost(s) \/ CommitCanceled(s) \/ Broken(s) \/ Publish(s)
    PROVE  TypeOK'
<1>p. proc \in [Session -> Process]
  BY DEF TypeOK
<1>l. Freed(s) \in Session \cup {None}
  BY DEF Freed, TypeOK
<1>1. CASE Begin(s)
  <2>1. [proc[s] EXCEPT !.pc = "open", !.conn = TRUE, !.snap = work] \in Process
    BY <1>p, Steps, UpdateSnap, Zenon DEF TypeOK
  <2> QED BY <1>1, <2>1, <1>p, Replaces DEF Begin, TypeOK
<1>2. CASE BeginFails(s) \/ Broken(s)
  <2>1. proc' \in [Session -> Process]
    BY <1>2, <1>p, Steps, Accounts, Zenon DEF BeginFails, Broken
  <2> QED BY <1>2, <2>1, SMTT(40) DEF BeginFails, Broken, TypeOK
<1>3. CASE GiveUp(s) \/ NotFound(s)
  <2>1. proc' \in [Session -> Process] /\ lock' = Freed(s)
    BY <1>3, <1>p, Returns, Zenon DEF GiveUp, NotFound
  <2> QED BY <1>3, <2>1, <1>l, SMTT(40) DEF GiveUp, NotFound, TypeOK
<1>4. CASE Conflict(s)
  <2>1. proc' \in [Session -> Process]
    BY <1>4, <1>p, Steps, Goes, Zenon DEF Conflict
  <2> QED BY <1>4, <2>1 DEF Conflict, TypeOK
<1>5. CASE Publish(s)
  <2>1. proc' \in [Session -> Process]
    BY <1>5, <1>p, Steps, Goes, Accounts, Zenon DEF Publish, publishFailed
  <2> QED BY <1>5, <2>1 DEF Publish, TypeOK
<1>6. CASE Commit(s)
  <2>1. work' \in Root /\ deleter' \in Session \cup {None}
    BY <1>6, LandTypes DEF Commit, Writes, At, HasSnap
  <2>2. proc' \in [Session -> Process]
    BY <1>6, <1>p, Steps, Goes, ZenonT(60) DEF Commit
  <2> QED BY <1>6, <2>1, <2>2 DEF Commit, TypeOK
<1>7. CASE CommitLost(s)
  <2>1. work' \in Root /\ deleter' \in Session \cup {None}
    BY <1>7, LandTypes DEF CommitLost, Writes, At, HasSnap
  <2>2. PICK then \in answerLost(s) :
            proc' = [proc EXCEPT ![s] = [@ EXCEPT !.pc = "failure", !.then = then, !.conn = FALSE]]
    BY <1>7 DEF CommitLost
  <2>3. [proc[s] EXCEPT !.pc = "failure", !.then = then, !.conn = FALSE] \in Process
    <3>1. then \in {"retry", "ok", "failed", "unknown"}
      BY DEF answerLost
    <3>2. proc[s] \in Process
      BY <1>p
    <3> QED BY <3>1, <3>2, Steps, UpdateLost, Zenon
  <2>4. proc' \in [Session -> Process]
    BY <1>p, <2>2, <2>3, Replaces, SMTT(40)
  <2>5. faults' \in 0 .. scenario'.faults
    BY <1>7, OneMoreFault, Zenon DEF CommitLost
  <2> QED BY <1>7, <1>l, <2>1, <2>4, <2>5 DEF CommitLost, TypeOK
<1>8. CASE CommitCanceled(s)
  <2>1. work' \in Root /\ deleter' \in Session \cup {None}
    BY <1>8, LandTypes, SMTT(40) DEF CommitCanceled, Writes, At, HasSnap
  <2>2. proc' \in [Session -> Process] /\ lock' = Freed(s)
    BY <1>8, <1>p, Returns, Zenon DEF CommitCanceled
  <2> QED BY <1>8, <1>l, <2>1, <2>2 DEF CommitCanceled, TypeOK
<1> QED BY <1>1, <1>2, <1>3, <1>4, <1>5, <1>6, <1>7, <1>8

(* And so do the calls, the fence, the faults and the clock. *)
LEMMA OtherTypes ==
    ASSUME TypeOK,
           \/ Outage \/ Restart \/ Tick
           \/ \E s \in Session :
                \/ \E op \in {"mutate", "delete", "guarded"} : Call(s, op)
                \/ GetLock(s) \/ NoLock(s) \/ Disconnect(s) \/ Die(s)
    PROVE  TypeOK'
<1>p. proc \in [Session -> Process]
  BY DEF TypeOK
<1>1. CASE Outage
  <2>1. \A s \in Session : [proc[s] EXCEPT !.conn = FALSE] \in Process
    BY <1>p, Unplugged
  <2>2. proc' \in [Session -> Process]
    BY <1>1, <2>1 DEF Outage
  <2> QED BY <1>1, <2>2, OneMoreFault, Zenon DEF Outage, TypeOK
<1>2. CASE Restart
  BY <1>2 DEF Restart, TypeOK
<1>3. CASE Tick
  <2>1. \A s \in Session : proc[s].copy \in CircuitState
    BY <1>p DEF Process
  <2>2. \A s \in Session : [proc[s] EXCEPT !.copy = Older(@)] \in Process
    <3> TAKE s \in Session
    <3>1. Older(proc[s].copy) \in CircuitState
      BY <2>1, BreakerTypes, Zenon
    <3> QED BY <1>p, <3>1 DEF Process
  <2>3. proc' \in [Session -> Process]
    BY <1>3, <2>2 DEF Tick
  <2> QED BY <1>3, <2>3, BreakerTypes DEF Tick, TypeOK
<1>4. ASSUME NEW s \in Session, NEW op \in {"mutate", "delete", "guarded"}, Call(s, op)
      PROVE  TypeOK'
  <2>1. work.cell[s] \in 0 .. 2
    BY DEF TypeOK, Root
  <2> DEFINE at == IF op = "guarded" THEN "fence" ELSE "admit"
             p == [proc[s] EXCEPT !.pc = at, !.op = op]
  <2>2. p \in Process
    <3>1. at \in Step /\ proc[s] \in Process
      BY <1>p, Steps
    <3> HIDE DEF at
    <3> QED BY <3>1, Zenon DEF Process
  <2>3. [p EXCEPT !.conn = TRUE, !.base = work.cell[s], !.outcome = "none"] \in Process
    <3> HIDE DEF p
    <3> QED BY <2>1, <2>2, Zenon DEF Process
  <2>4. proc' = [proc EXCEPT ![s] = [p EXCEPT !.conn = TRUE, !.base = work.cell[s],
                                        !.outcome = "none"]]
    BY <1>4, Zenon DEF Call
  <2>5. proc' \in [Session -> Process]
    BY <1>p, <2>3, <2>4, Replaces
  <2> QED BY <1>4, <2>5, Zenon DEF Call, TypeOK
<1>5. ASSUME NEW s \in Session, GetLock(s)
      PROVE  TypeOK'
  <2>1. proc' \in [Session -> Process]
    BY <1>5, <1>p, Steps, Goes, Zenon DEF GetLock
  <2> QED BY <1>5, <2>1 DEF GetLock, TypeOK
<1>6. ASSUME NEW s \in Session, NoLock(s) \/ Die(s)
      PROVE  TypeOK'
  <2>1. proc' \in [Session -> Process] /\ lock' \in Session \cup {None}
    BY <1>6, <1>p, Returns, Zenon DEF NoLock, Die, Freed, TypeOK
  <2>2. faults' \in 0 .. scenario'.faults
    BY <1>6, OneMoreFault DEF NoLock, Die, TypeOK
  <2> QED BY <1>6, <2>1, <2>2 DEF NoLock, Die, TypeOK
<1>7. ASSUME NEW s \in Session, Disconnect(s)
      PROVE  TypeOK'
  <2>1. [proc[s] EXCEPT !.conn = FALSE] \in Process
    BY <1>p, Unplugged
  <2>2. proc' \in [Session -> Process] /\ lock' \in Session \cup {None}
    BY <1>7, <1>p, <2>1, Replaces DEF Disconnect, Freed, TypeOK
  <2> QED BY <1>7, <2>2, OneMoreFault DEF Disconnect, TypeOK
<1> QED BY <1>1, <1>2, <1>3, <1>4, <1>5, <1>6, <1>7

-----------------------------------------------------------------------------
(* A write that has certainly not been applied. *)
Pending(p) ==
    \/ p.phase = "write" /\ p.pc \in {"fence", "admit", "allow", "begin", "open", "state"}
    \/ p.pc \in {"failure", "count"} /\ p.then \in {"retry", "failed"}

(* One that has. *)
Applied(p) == p.pc = "success" \/ p.phase = "publish"

(* What the place of a write says about the rest of its record. *)
Coherent(s) == LET p == proc[s] IN
    /\ p.op = "mutate" \/ p.op \in scenario.ops[s]
    /\ p.pc = "fence" => p.op = "guarded"
    /\ p.pc = "open" => p.snap \in Root
    /\ p.pc = "publish" => p.phase = "publish"
    /\ p.phase = "publish" =>
        /\ p.op = "mutate"
        /\ p.pc \in {"admit", "allow", "publish", "failure", "count", "success"}
    /\ p.pc \in {"failure", "count"} => (p.then = "ok" <=> p.phase = "publish")
    /\ p.pc # "idle" => p.outcome = "none"

(* What the steps of a write have in common that leave the database alone. *)
Quiet(s) == LET p == proc[s]
                q == proc'[s] IN
    /\ Others(s) /\ UNCHANGED <<scenario, work, deleter>>
    /\ q.op = p.op /\ q.base = p.base /\ p.pc # "idle"
    /\ Pending(q) => Pending(p)
    /\ Applied(q) \/ q.outcome = "ok" => Applied(p)
    /\ q.outcome = "failed" => Pending(p)
    /\ q.pc = "open" => \/ p.pc = "open" /\ q.snap = p.snap /\ (q.conn => p.conn)
                        \/ Pending(p) /\ q.snap = work
    /\ q.pc # "fence"
    /\ \/ lock' = Freed(s) /\ ~q.conn
       \/ /\ lock' = lock /\ p.pc # "fence" /\ q.pc # "idle"
          /\ q.conn = p.conn \/ p.op # "guarded"
       \/ lock = None /\ lock' = s /\ p.pc = "fence" /\ q.pc = "admit" /\ q.conn

(* A write that returns, and says what is true of it. *)
LEMMA QuietReturn ==
    ASSUME TypeOK, NEW s \in Session, Coherent(s), proc[s].pc # "idle",
           UNCHANGED <<scenario, work, deleter>>, NEW outcome, Return(s, outcome),
           \/ outcome = "unknown"
           \/ outcome = "failed" /\ Pending(proc[s])
           \/ outcome = "ok" /\ Applied(proc[s])
    PROVE  Coherent(s)' /\ Quiet(s)
<1>1. proc \in [Session -> Process] /\ proc[s] \in Process
  BY SMTT(40) DEF TypeOK
<1>2. /\ Others(s) /\ lock' = Freed(s)
      /\ proc'[s] = [proc[s] EXCEPT !.pc = "idle", !.outcome = outcome, !.snap = None,
                  !.conn = FALSE, !.copy = ClosedCircuit, !.phase = "write", !.then = "retry"]
  <2>1. outcome \in {"none", "ok", "failed", "unknown"}
    OBVIOUS
  <2> QED BY <1>1, <2>1, Returns, ZenonT(60)
<1>3. LET q == proc'[s] IN
        /\ q.op = proc[s].op /\ q.base = proc[s].base /\ q.pc = "idle" /\ ~q.conn
        /\ q.phase = "write" /\ q.outcome = outcome
  BY <1>1, <1>2 DEF Process
<1> QED BY <1>2, <1>3 DEF Coherent, Quiet, Pending, Applied

(* The steps of the fence. *)
LEMMA QuietFence ==
    ASSUME TypeOK, NEW s \in Session, Coherent(s), GetLock(s) \/ NoLock(s)
    PROVE  Coherent(s)' /\ Quiet(s)
<1>p. proc \in [Session -> Process] /\ proc[s] \in Process
  BY DEF TypeOK
<1>1. CASE GetLock(s)
  <2>1. Others(s) /\ proc'[s] = [proc[s] EXCEPT !.pc = "admit"]
    BY <1>1, <1>p, Steps, Goes DEF GetLock
  <2> QED BY <1>1, <1>p, <2>1 DEF GetLock, At, Coherent, Quiet, Pending, Applied, Process
<1>2. CASE NoLock(s)
  <2>1. proc[s].phase = "write"
    BY <1>2, <1>p DEF NoLock, At, Coherent, Process
  <2> QED BY <1>2, <2>1, QuietReturn DEF NoLock, At, Pending
<1> QED BY <1>1, <1>2

(* The steps of the breaker's accounting. *)
LEMMA QuietAccounting ==
    ASSUME TypeOK, NEW s \in Session, Coherent(s),
           \/ ReadBreaker(s, "admit", "allow") \/ Allow(s)
           \/ ReadBreaker(s, "failure", "count") \/ RecordFailure(s)
           \/ CheckTripped(s) \/ RecordSuccess(s)
    PROVE  Coherent(s)' /\ Quiet(s)
<1>p. proc \in [Session -> Process] /\ proc[s] \in Process
  BY DEF TypeOK
<1>1. ASSUME NEW from, NEW to, ReadBreaker(s, from, to),
             <<from, to>> \in {<<"admit", "allow">>, <<"failure", "count">>}
      PROVE  Coherent(s)' /\ Quiet(s)
  <2>1. readState(file) \in CircuitState
    BY BreakerTypes DEF TypeOK
  <2>2. Others(s) /\ proc'[s] = [proc[s] EXCEPT !.pc = to, !.copy = readState(file)]
    BY <1>1, <1>p, <2>1, Steps, Reads, Zenon DEF ReadBreaker
  <2> QED BY <1>1, <1>p, <2>2 DEF ReadBreaker, At, Coherent, Quiet, Pending, Applied, Process
<1>2. CASE Allow(s)
  <2> DEFINE to == IF proc[s].phase = "write" THEN "begin" ELSE "publish"
  <2>1. CASE Forget(s, to) /\ UNCHANGED lock
    <3>1. Others(s) /\ proc'[s] = [proc[s] EXCEPT !.pc = to, !.copy = ClosedCircuit]
      BY <2>1, <1>p, Steps, Forgets, Zenon
    <3> QED BY <1>2, <1>p, <2>1, <3>1, SMTT(40)
            DEF Allow, At, Coherent, Quiet, Pending, Applied, Process
  <2>2. CASE Return(s, IF proc[s].phase = "write" THEN "failed" ELSE "ok")
    <3>1. proc[s].phase \in {"write", "publish"}
      BY <1>p, SMTT(40) DEF Process
    <3> QED BY <1>2, <2>2, <3>1, QuietReturn DEF Allow, At, Pending, Applied
  <2> QED BY <1>2, <2>1, <2>2 DEF Allow
<1>3. CASE RecordFailure(s)
  <2>1. CASE Forget(s, "state") /\ UNCHANGED lock /\ proc[s].then = "retry"
    <3>1. Others(s) /\ proc'[s] = [proc[s] EXCEPT !.pc = "state", !.copy = ClosedCircuit]
      BY <2>1, <1>p, Steps, Forgets, ZenonT(60)
    <3> QED BY <1>3, <1>p, <2>1, <3>1, SMTT(40)
            DEF RecordFailure, At, Coherent, Quiet, Pending, Applied, Process
  <2>2. CASE Return(s, proc[s].then) /\ proc[s].then # "retry"
    <3>1. proc[s].then \in {"retry", "ok", "failed", "unknown"}
      BY <1>p DEF Process
    <3> QED BY <1>3, <2>2, <3>1, QuietReturn DEF RecordFailure, At, Coherent, Pending, Applied
  <2> QED BY <1>3, <2>1, <2>2 DEF RecordFailure
<1>4. CASE CheckTripped(s)
  <2>0. proc[s].phase = "write"
    BY <1>p, <1>4 DEF CheckTripped, At, Coherent, Process
  <2>1. CASE Go(s, "begin") /\ UNCHANGED lock
    <3>1. Others(s) /\ proc'[s] = [proc[s] EXCEPT !.pc = "begin"]
      BY <2>1, <1>p, Steps, Goes, SMTT(40)
    <3> QED BY <1>4, <1>p, <2>1, <3>1
            DEF CheckTripped, At, Coherent, Quiet, Pending, Applied, Process
  <2>2. CASE Return(s, "failed")
    BY <1>4, <2>0, <2>2, QuietReturn DEF CheckTripped, At, Pending
  <2> QED BY <1>4, <2>1, <2>2 DEF CheckTripped
<1>5. CASE RecordSuccess(s)
  <2>1. CASE /\ proc' = [proc EXCEPT ![s] = [@ EXCEPT !.pc = "admit", !.phase = "publish"]]
             /\ UNCHANGED lock /\ proc[s].op = "mutate"
    <3>1. [proc[s] EXCEPT !.pc = "admit", !.phase = "publish"] \in Process
      BY <1>p, Steps, UpdatePhase, Zenon
    <3>2. Others(s) /\ proc'[s] = [proc[s] EXCEPT !.pc = "admit", !.phase = "publish"]
      BY <2>1, <1>p, <3>1, Replaces, Zenon
    <3> QED BY <1>5, <1>p, <2>1, <3>2, SMTT(40)
            DEF RecordSuccess, At, Coherent, Quiet, Pending, Applied, Process
  <2>2. CASE Return(s, "ok")
    BY <1>5, <2>2, QuietReturn DEF RecordSuccess, At, Applied
  <2> QED BY <1>5, <2>1, <2>2 DEF RecordSuccess
<1>6. CASE ReadBreaker(s, "admit", "allow")
  BY <1>1, <1>6
<1>7. CASE ReadBreaker(s, "failure", "count")
  BY <1>1, <1>7
<1> QED BY <1>2, <1>3, <1>4, <1>5, <1>6, <1>7

(* The steps of the transaction but its commit, and the faults. *)
LEMMA QuietTransaction ==
    ASSUME TypeOK, NEW s \in Session, Coherent(s),
           \/ Begin(s) \/ BeginFails(s) \/ GiveUp(s) \/ NotFound(s) \/ Conflict(s)
           \/ Broken(s) \/ Publish(s) \/ Disconnect(s) \/ Die(s)
    PROVE  Coherent(s)' /\ Quiet(s)
<1>p. proc \in [Session -> Process] /\ proc[s] \in Process
  BY DEF TypeOK
<1>w. proc[s].pc \in {"begin", "open"} => proc[s].phase = "write"
  BY <1>p DEF Coherent, Process
<1>1. CASE Begin(s)
  <2>1. [proc[s] EXCEPT !.pc = "open", !.conn = TRUE, !.snap = work] \in Process
    BY <1>p, Steps, UpdateSnap, Zenon DEF TypeOK
  <2>2. /\ Others(s)
        /\ proc'[s] = [proc[s] EXCEPT !.pc = "open", !.conn = TRUE, !.snap = work]
    BY <1>1, <1>p, <2>1, Replaces, Zenon DEF Begin
  <2>3. proc[s].conn \in BOOLEAN /\ work \in Root
    BY <1>p, SMTT(40) DEF Process, TypeOK
  <2> QED BY <1>1, <1>p, <1>w, <2>2, <2>3, Zenon
          DEF Begin, At, Coherent, Quiet, Pending, Applied, Process
<1>2. CASE BeginFails(s) \/ Broken(s)
  <2>1. CASE Account(s, "failure", "retry")
    <3>1. Others(s) /\ proc'[s] = [proc[s] EXCEPT !.pc = "failure", !.then = "retry"]
      BY <2>1, <1>p, Steps, Accounts, Zenon
    <3> QED BY <1>2, <1>p, <1>w, <3>1
            DEF BeginFails, Broken, At, Coherent, Quiet, Pending, Applied, Process
  <2>2. CASE Account(s, "failure", "failed")
    <3>1. Others(s) /\ proc'[s] = [proc[s] EXCEPT !.pc = "failure", !.then = "failed"]
      BY <2>2, <1>p, Steps, Accounts, ZenonT(60)
    <3> QED BY <1>2, <1>p, <1>w, <3>1, SMTT(40)
            DEF BeginFails, Broken, At, Coherent, Quiet, Pending, Applied, Process
  <2> QED BY <1>2, <2>1, <2>2 DEF BeginFails, Broken
<1>3. CASE GiveUp(s) \/ NotFound(s)
  BY <1>3, <1>w, QuietReturn DEF GiveUp, NotFound, At, Pending
<1>4. CASE Conflict(s)
  <2>1. Others(s) /\ proc'[s] = [proc[s] EXCEPT !.pc = "begin"]
    BY <1>4, <1>p, Steps, Goes DEF Conflict
  <2> QED BY <1>4, <1>p, <1>w, <2>1, Zenon
          DEF Conflict, At, Coherent, Quiet, Pending, Applied, Process
<1>5. CASE Publish(s)
  <2>1. CASE Go(s, "success")
    <3>1. Others(s) /\ proc'[s] = [proc[s] EXCEPT !.pc = "success"]
      BY <2>1, <1>p, Steps, Goes
    <3> QED BY <1>5, <1>p, <3>1 DEF Publish, At, Coherent, Quiet, Pending, Applied, Process
  <2>2. CASE Account(s, "failure", "ok")
    <3>1. Others(s) /\ proc'[s] = [proc[s] EXCEPT !.pc = "failure", !.then = "ok"]
      BY <2>2, <1>p, Steps, Accounts, Zenon
    <3> QED BY <1>5, <1>p, <3>1 DEF Publish, At, Coherent, Quiet, Pending, Applied, Process
  <2> QED BY <1>5, <2>1, <2>2 DEF Publish, publishFailed
<1>6. CASE Disconnect(s)
  <2>1. Others(s) /\ proc'[s] = [proc[s] EXCEPT !.conn = FALSE]
    BY <1>6, <1>p, Unplugged, Replaces, Zenon DEF Disconnect
  <2> QED BY <1>6, <1>p, <2>1 DEF Disconnect, At, Coherent, Quiet, Pending, Applied, Process
<1>7. CASE Die(s)
  BY <1>7, QuietReturn DEF Die, At
<1> QED BY <1>1, <1>2, <1>3, <1>4, <1>5, <1>6, <1>7

(* The end of a commit, with or without its answer. *)
Ends(s) == LET p == proc[s]
               q == proc'[s] IN
    /\ Writes(s) /\ Others(s) /\ UNCHANGED scenario
    /\ q.op = p.op /\ q.base = p.base /\ q.phase = "write"
    /\ \/ /\ Land(s) /\ lock' = lock
          /\ q.pc = "success" /\ q.outcome = "none" /\ q.conn
       \/ /\ Land(s) \/ UNCHANGED <<work, deleter>>
          /\ scenario.losses /\ lock' = Freed(s) /\ ~q.conn
          /\ \/ q.pc = "failure" /\ q.then \in answerLost(s) /\ q.outcome = "none"
             \/ q.pc = "idle" /\ q.outcome = "unknown"

(* The three ways a commit ends. *)
LEMMA EndOfCommit ==
    ASSUME TypeOK, NEW s \in Session, Coherent(s),
           Commit(s) \/ CommitLost(s) \/ CommitCanceled(s)
    PROVE  Coherent(s)' /\ Ends(s)
<1>p. proc \in [Session -> Process] /\ proc[s] \in Process
  BY DEF TypeOK
<1>w. proc[s].pc = "open" /\ proc[s].conn /\ proc[s].phase = "write" /\ proc[s].outcome = "none"
  BY <1>p, Zenon DEF Commit, CommitLost, CommitCanceled, Writes, At, Coherent, Process
<1>1. CASE Commit(s)
  <2>1. Others(s) /\ proc'[s] = [proc[s] EXCEPT !.pc = "success"]
    BY <1>1, <1>p, Steps, Goes, SMTT(40) DEF Commit
  <2> QED BY <1>1, <1>p, <1>w, <2>1 DEF Commit, Coherent, Ends, Process
<1>2. CASE CommitLost(s)
  <2>1. PICK then \in answerLost(s) :
            proc' = [proc EXCEPT ![s] = [@ EXCEPT !.pc = "failure", !.then = then, !.conn = FALSE]]
    BY <1>2, Zenon DEF CommitLost
  <2>2. then \in {"retry", "unknown"}
    BY SMTT(40) DEF answerLost
  <2>3. [proc[s] EXCEPT !.pc = "failure", !.then = then, !.conn = FALSE] \in Process
    BY <1>p, <2>2, Steps, UpdateLost, Zenon
  <2>4. /\ Others(s)
        /\ proc'[s] = [proc[s] EXCEPT !.pc = "failure", !.then = then, !.conn = FALSE]
    BY <1>p, <2>1, <2>3, Replaces, Zenon
  <2> QED BY <1>2, <1>p, <1>w, <2>2, <2>4, ZenonT(60) DEF CommitLost, Coherent, Ends, Process
<1>3. CASE CommitCanceled(s)
  <2>1. /\ Others(s) /\ lock' = Freed(s)
        /\ proc'[s] = [proc[s] EXCEPT !.pc = "idle", !.outcome = "unknown", !.snap = None,
                  !.conn = FALSE, !.copy = ClosedCircuit, !.phase = "write", !.then = "retry"]
    BY <1>3, <1>p, Returns, Zenon DEF CommitCanceled
  <2> QED BY <1>3, <1>p, <1>w, <2>1 DEF CommitCanceled, Coherent, Ends, Process
<1> QED BY <1>1, <1>2, <1>3

(* A call. *)
Begins(s) == LET q == proc'[s] IN
    /\ Others(s) /\ UNCHANGED <<scenario, work, lock>> /\ proc[s].pc = "idle"
    /\ deleter' = IF deleter = s THEN None ELSE deleter
    /\ q.base = work.cell[s] /\ q.outcome = "none" /\ q.phase = "write" /\ q.op \in scenario.ops[s]
    /\ q.pc = IF q.op = "guarded" THEN "fence" ELSE "admit"

(* Every call begins a write that has done nothing yet. *)
LEMMA BeginsCall ==
    ASSUME TypeOK, NEW s \in Session, Coherent(s),
           NEW op \in {"mutate", "delete", "guarded"}, Call(s, op)
    PROVE  Coherent(s)' /\ Begins(s)
<1>1. proc \in [Session -> Process] /\ proc[s] \in Process
  BY DEF TypeOK
<1>2. proc[s].phase = "write" /\ proc[s].pc = "idle"
  BY <1>1 DEF Coherent, Call, At, Process
<1>3. Others(s)
  BY <1>1 DEF Call, Others
<1>4. proc'[s] = [proc[s] EXCEPT !.pc = IF op = "guarded" THEN "fence" ELSE "admit",
                    !.op = op, !.conn = TRUE, !.base = work.cell[s], !.outcome = "none"]
  BY <1>1 DEF Call
<1>5. LET q == proc'[s] IN
        /\ q.op = op /\ q.base = work.cell[s] /\ q.outcome = "none" /\ q.phase = "write"
        /\ q.pc = IF op = "guarded" THEN "fence" ELSE "admit"
  BY <1>1, <1>2, <1>4 DEF Process
<1> QED BY <1>2, <1>3, <1>5 DEF Call, Coherent, Begins

(* The faults and the clock that touch every process. *)
Ambient ==
    /\ UNCHANGED <<scenario, work, deleter>>
    /\ \A s \in Session : LET p == proc[s]
                              q == proc'[s] IN
        /\ q.pc = p.pc /\ q.op = p.op /\ q.phase = p.phase /\ q.snap = p.snap
        /\ q.then = p.then /\ q.base = p.base /\ q.outcome = p.outcome
    /\ \/ lock' = None /\ \A s \in Session : ~proc'[s].conn
       \/ lock' = lock /\ \A s \in Session : proc'[s].conn = proc[s].conn

(* Each of them has that shape. *)
LEMMA AmbientStep ==
    ASSUME TypeOK, Outage \/ Restart \/ Tick
    PROVE  Ambient
<1>1. proc \in [Session -> Process]
  BY DEF TypeOK
<1>2. CASE Outage
  BY <1>1, <1>2 DEF Outage, Ambient, Process
<1>3. CASE Restart
  BY <1>3 DEF Restart, Ambient
<1>4. CASE Tick
  BY <1>1, <1>4 DEF Tick, Ambient, Process
<1> QED BY <1>2, <1>3, <1>4

-----------------------------------------------------------------------------
(* Every step is one of these four. *)
Shape ==
    \/ Ambient
    \/ \E s \in Session : Coherent(s)' /\ (Begins(s) \/ Quiet(s) \/ Ends(s))

AllCoherent == \A s \in Session : Coherent(s)

(* Each action has one of the shapes. *)
LEMMA StepShape ==
    ASSUME TypeOK, AllCoherent, Next
    PROVE  Shape
<1>1. CASE Outage \/ Restart \/ Tick
  BY <1>1, AmbientStep DEF Shape
<1>2. ASSUME NEW s \in Session, NEW op \in {"mutate", "delete", "guarded"}, Call(s, op)
      PROVE  Shape
  BY <1>2, BeginsCall DEF Shape, AllCoherent
<1>3. ASSUME NEW s \in Session, Run(s) \/ GiveUp(s) \/ Disconnect(s) \/ Die(s)
      PROVE  Shape
  <2>1. CASE GetLock(s) \/ NoLock(s)
    BY <2>1, QuietFence DEF Shape, AllCoherent
  <2>2. CASE \/ ReadBreaker(s, "admit", "allow") \/ Allow(s)
             \/ ReadBreaker(s, "failure", "count") \/ RecordFailure(s)
             \/ CheckTripped(s) \/ RecordSuccess(s)
    BY <2>2, QuietAccounting DEF Shape, AllCoherent
  <2>3. CASE \/ Begin(s) \/ BeginFails(s) \/ GiveUp(s) \/ NotFound(s) \/ Conflict(s)
             \/ Broken(s) \/ Publish(s) \/ Disconnect(s) \/ Die(s)
    BY <2>3, QuietTransaction DEF Shape, AllCoherent
  <2>4. CASE Commit(s)
    BY <2>4, EndOfCommit DEF Shape, AllCoherent
  <2> QED BY <1>3, <2>1, <2>2, <2>3, <2>4 DEF Run
<1>4. ASSUME NEW s \in Session, CommitLost(s) \/ CommitCanceled(s)
      PROVE  Shape
  BY <1>4, EndOfCommit DEF Shape, AllCoherent
<1> QED BY <1>1, <1>2, <1>3, <1>4 DEF Next

(* The types and the coherence of the records hold together. *)
Sane == TypeOK /\ AllCoherent

(* It holds initially. *)
LEMMA SaneInitially == Init => Sane
<1> SUFFICES ASSUME Init PROVE Sane
  OBVIOUS
<1>1. AllCoherent
  BY DEF Init, AllCoherent, Coherent
<1> QED BY <1>1, InitialTypes DEF Sane

(* Every step keeps it. *)
LEMMA SaneStep ==
    ASSUME Sane, [Next]_vars
    PROVE  Sane'
<1>1. CASE UNCHANGED vars
  BY <1>1 DEF Sane, TypeOK, AllCoherent, Coherent, vars
<1>2. CASE Next
  <2>1. TypeOK'
    <3>1. HasSnap
      BY SMTT(40) DEF Sane, AllCoherent, Coherent, HasSnap
    <3> QED BY <1>2, <3>1, OtherTypes, AccountingTypes, TransactionTypes DEF Sane, Next, Run
  <2>2. ASSUME Ambient, NEW s \in Session
        PROVE  Coherent(s)'
    <3>1. Coherent(s)
      BY DEF Sane, AllCoherent
    <3>2. LET p == proc[s]
              q == proc'[s] IN
            /\ q.pc = p.pc /\ q.op = p.op /\ q.phase = p.phase /\ q.snap = p.snap
            /\ q.then = p.then /\ q.outcome = p.outcome /\ scenario' = scenario
      BY <2>2 DEF Ambient
    <3> QED BY <3>1, <3>2 DEF Coherent
  <2>3. ASSUME NEW s \in Session, Coherent(s)', Begins(s) \/ Quiet(s) \/ Ends(s)
        PROVE  AllCoherent'
    <3>1. Others(s) /\ scenario' = scenario
      BY <2>3 DEF Begins, Quiet, Ends
    <3>2. ASSUME NEW z \in Session \ {s}
          PROVE  Coherent(z)'
      <4>1. Coherent(z)
        BY DEF Sane, AllCoherent
      <4>2. proc'[z] = proc[z]
        BY <3>1 DEF Others
      <4> QED BY <3>1, <4>1, <4>2 DEF Coherent
    <3> QED BY <2>3, <3>2, SMTT(40) DEF AllCoherent
  <2> QED BY <1>2, <2>1, <2>2, <2>3, StepShape DEF Sane, Shape, AllCoherent
<1> QED BY <1>1, <1>2

(***************************************************************************)
(* Every variable of the write path keeps its type, whatever number of     *)
(* processes write and whatever fails.                                     *)
(***************************************************************************)
THEOREM TypeCorrect == Spec => []TypeOK
<1>1. Spec => []Sane
  BY SaneInitially, SaneStep, PTL DEF Spec
<1>2. Sane => TypeOK
  BY DEF Sane
<1> QED BY <1>1, <1>2, PTL

-----------------------------------------------------------------------------
NoMutations(c) == \A s \in Session : "mutate" \notin c.ops[s]

(***************************************************************************)
(* What publishes inside its transaction meets neither a mutation, whose   *)
(* change the tables of its snapshot would undo, nor a lost answer, which  *)
(* it would take for a failure to retry.  Mutations publish afterwards,    *)
(* and deletes not at all when that is deferred.                           *)
(***************************************************************************)
PublishesSafely ==
    \A c \in Scenarios : \/ c.deferred
                         \/ \A s \in Session : c.ops[s] \subseteq {"mutate"}
                         \/ NoMutations(c) /\ ~c.losses

(* The cell of a session after one more mutation. *)
Bumped(n) == (n + 1) % 3

(* What the place of a write says about the database. *)
Truth(s) == LET p == proc[s]
                applied == Applied(p) \/ p.outcome = "ok"
                pending == Pending(p) \/ p.outcome = "failed" IN
    /\ p.op = "mutate" =>
        /\ work.cell[s] \in {p.base, Bumped(p.base)}
        /\ applied => work.cell[s] = Bumped(p.base)
        /\ pending => work.cell[s] = p.base
        /\ p.pc = "open" => p.snap.cell[s] = p.base
    /\ p.op # "mutate" =>
        /\ work.cell[s] = p.base
        /\ applied => ~work.row
        /\ pending => deleter # s

(* Without mutations the cells stay what every snapshot found. *)
Still(s) == LET p == proc[s] IN
    /\ p.pc # "idle" => p.op \in scenario.ops[s]
    /\ NoMutations(scenario) /\ p.pc = "open" => p.snap.cell = work.cell

AllTrue == \A s \in Session : Truth(s) /\ Still(s)

(* A cell that was bumped once is told from one that was not. *)
LEMMA BumpedDiffers ==
    ASSUME NEW n \in 0 .. 2
    PROVE  Bumped(n) \in 0 .. 2 /\ Bumped(n) # n /\ Bumped(n) - n \in {1, -2}
BY DEF Bumped

(* A write that does publish there finds the cells as they were, and its answer is not lost. *)
LEMMA InTx ==
    ASSUME PublishesSafely, Sane, NEW s \in Session, Still(s), publishesInTx(s), proc[s].pc = "open"
    PROVE  /\ NoMutations(scenario) /\ ~scenario.losses
           /\ proc[s].op # "mutate" /\ proc[s].snap \in Root /\ proc[s].snap.cell = work.cell
<1>1. scenario \in Scenarios /\ Coherent(s)
  BY DEF Sane, TypeOK, AllCoherent
<1>2. proc[s].op # "mutate" /\ ~scenario.deferred /\ proc[s].op \in scenario.ops[s]
  BY DEF publishesInTx, Still
<1>3. NoMutations(scenario) /\ ~scenario.losses
  BY <1>1, <1>2 DEF PublishesSafely
<1> QED BY <1>1, <1>2, <1>3 DEF Still, Coherent

(* What one write does to the database leaves the others' truths alone. *)
LEMMA TruthOfOthers ==
    ASSUME NEW z \in Session, Truth(z), proc'[z] = proc[z], work'.cell[z] = work.cell[z],
           ~work.row => ~work'.row, deleter' = z => deleter = z
    PROVE  Truth(z)'
BY DEF Truth

LEMMA StillOfOthers ==
    ASSUME NEW z \in Session, Still(z), proc'[z] = proc[z], scenario' = scenario,
           NoMutations(scenario) => work'.cell = work.cell
    PROVE  Still(z)'
BY DEF Still

(* What a commit changes, published inside its transaction or not. *)
LEMMA LandsMerged ==
    ASSUME PublishesSafely, Sane, NEW s \in Session, Land(s), Still(s), proc[s].pc = "open"
    PROVE  /\ \A z \in Session \ {s} : work'.cell[z] = work.cell[z]
           /\ proc[s].op = "mutate" =>
                /\ work'.cell[s] = Bumped(proc[s].snap.cell[s]) /\ work'.row = work.row
                /\ deleter' = deleter
           /\ proc[s].op # "mutate" =>
                /\ work'.cell = work.cell /\ work'.row = FALSE
                /\ deleter' \in {s, deleter}
<1>1. work \in Root /\ work' = ownRoot(s, IF publishesInTx(s) THEN proc[s].snap ELSE work)
  BY DEF Sane, TypeOK, Land, landed
<1>2. CASE proc[s].op = "mutate"
  <2>1. work' = ownRoot(s, work)
    BY <1>1, <1>2 DEF publishesInTx
  <2> QED BY <1>1, <1>2, <2>1 DEF ownRoot, Root, Land, Bumped
<1>3. CASE proc[s].op # "mutate"
  <2>1. PICK root \in Root : root.cell = work.cell /\ work' = ownRoot(s, root)
    <3>1. CASE publishesInTx(s)
      BY <1>1, <3>1, InTx
    <3>2. CASE ~publishesInTx(s)
      BY <1>1, <3>2
    <3> QED BY <3>1, <3>2
  <2>2. work'.cell = root.cell /\ work'.row = FALSE
    BY <1>3, <2>1, ZenonT(60) DEF ownRoot, Root
  <2> QED BY <1>3, <2>1, <2>2, Zenon DEF Land
<1> QED BY <1>2, <1>3, Zenon

(* Every step keeps the truths of all writes. *)
LEMMA TruthStep ==
    ASSUME PublishesSafely, Sane, AllTrue, Shape, Sane'
    PROVE  AllTrue'
<1>0. /\ WriteTxAssumption
      /\ \A z \in Session : Truth(z) /\ Still(z) /\ work.cell[z] \in 0 .. 2 /\ proc[z].base \in 0 .. 2
      /\ \A z \in Session : deleter # z \/ z # None
  BY WriteTxAssumption, SMTT(40) DEF AllTrue, Sane, TypeOK, Root, Process
<1>1. CASE Ambient
  <2> SUFFICES ASSUME NEW z \in Session PROVE Truth(z)' /\ Still(z)'
    BY DEF AllTrue
  <2>1. Truth(z)'
    <3>1. LET p == proc[z]
              q == proc'[z] IN
            /\ q.pc = p.pc /\ q.op = p.op /\ q.phase = p.phase /\ q.snap = p.snap
            /\ q.then = p.then /\ q.base = p.base /\ q.outcome = p.outcome
            /\ UNCHANGED <<work, deleter>>
      BY <1>1, Zenon DEF Ambient
    <3> QED BY <1>0, <3>1, ZenonT(30) DEF Truth, Pending, Applied
  <2>2. Still(z)'
    BY <1>0, <1>1 DEF Still, Ambient
  <2> QED BY <2>1, <2>2
<1>2. ASSUME NEW s \in Session, Begins(s)
      PROVE  AllTrue'
  <2>1. ASSUME NEW z \in Session \ {s} PROVE Truth(z)' /\ Still(z)'
    BY <1>2, <1>0, TruthOfOthers, StillOfOthers, SMTT(40) DEF Begins, Others
  <2>2. Truth(s)'
    BY <1>2, <1>0, WriteTxAssumption, ZenonT(30) DEF Begins, Truth, Pending, Applied
  <2>3. Still(s)'
    BY <1>2, SMTT(40) DEF Begins, Still
  <2> QED BY <2>1, <2>2, <2>3 DEF AllTrue
<1>3. ASSUME NEW s \in Session, Quiet(s), Coherent(s)'
      PROVE  AllTrue'
  <2>1. ASSUME NEW z \in Session \ {s} PROVE Truth(z)' /\ Still(z)'
    BY <1>3, <1>0, TruthOfOthers, StillOfOthers, ZenonT(30) DEF Quiet, Others
  <2>2. Truth(s)'
    BY <1>3, <1>0 DEF Quiet, Truth
  <2>3. Still(s)'
    BY <1>3, <1>0 DEF Quiet, Still
  <2> QED BY <2>1, <2>2, <2>3 DEF AllTrue
<1>4. ASSUME NEW s \in Session, Ends(s), Coherent(s)'
      PROVE  AllTrue'
  <2>o. proc[s].pc = "open" /\ Still(s)
    BY <1>0, <1>4 DEF Ends, Writes, At
  <2>0. ~scenario.losses \/ answerLost(s) = {"unknown"}
    BY <2>o, InTx DEF answerLost
  <2>1. ASSUME NEW z \in Session \ {s} PROVE Truth(z)'
    <3>1. proc'[z] = proc[z]
      BY <1>4 DEF Ends, Others
    <3>2. CASE Land(s)
      BY <1>0, <2>o, <3>1, <3>2, LandsMerged, TruthOfOthers, Zenon
    <3>3. CASE UNCHANGED <<work, deleter>>
      BY <1>0, <3>1, <3>3, TruthOfOthers
    <3> QED BY <1>4, <3>2, <3>3 DEF Ends
  <2>s. ASSUME NEW z \in Session PROVE Still(z)'
    <3>1. scenario' = scenario /\ (NoMutations(scenario) => proc[s].op # "mutate")
      BY <1>4, <2>o DEF Ends, Still, NoMutations
    <3>2. NoMutations(scenario) => work'.cell = work.cell
      <4>1. CASE Land(s)
        BY <2>o, <3>1, <4>1, LandsMerged
      <4>2. CASE UNCHANGED <<work, deleter>>
        BY <4>2
      <4> QED BY <1>4, <4>1, <4>2 DEF Ends
    <3>3. CASE z = s
      <4>1. proc'[s].pc # "open" /\ proc'[s].op = proc[s].op
        BY <1>4, Zenon DEF Ends
      <4> QED BY <2>o, <3>1, <3>3, <4>1 DEF Still
    <3>4. CASE z # s
      BY <1>0, <1>4, <3>1, <3>2, <3>4, StillOfOthers DEF Ends, Others
    <3> QED BY <3>3, <3>4
  <2>2. Truth(s)'
    <3>1. proc[s].pc = "open" /\ proc[s].phase = "write"
      BY <1>4 DEF Ends, Writes, At, Sane, AllCoherent, Coherent, TypeOK, Process
    <3>2. Pending(proc[s])
      BY <3>1, SMTT(40) DEF Pending
    <3>3. ~Pending(proc'[s]) /\ proc'[s].outcome # "failed" /\ proc'[s].outcome # "ok"
      BY <1>4, <2>0, ZenonT(60) DEF Ends, Pending
    <3>4. Applied(proc'[s]) => Land(s)
      BY <1>4 DEF Ends, Applied
    <3>5. CASE Land(s)
      <4>0. Truth(s)
        BY <1>0
      <4>1. proc'[s].op = proc[s].op /\ proc'[s].base = proc[s].base
        BY <1>4, Zenon DEF Ends
      <4>4. proc'[s].pc # "open"
        BY <1>4, Zenon DEF Ends
      <4>2. CASE proc[s].op = "mutate"
        <5>1. proc[s].snap.cell[s] = proc[s].base
          BY <3>1, <4>0, <4>2, Zenon DEF Truth
        <5>3. work'.cell[s] = Bumped(proc[s].snap.cell[s])
          BY <2>o, <3>5, <4>2, LandsMerged, ZenonT(60)
        <5>2. work'.cell[s] = Bumped(proc'[s].base)
          BY <4>1, <5>1, <5>3, Zenon
        <5> QED BY <3>3, <4>1, <4>4, <4>2, <5>2, SMTT(40) DEF Truth
      <4>3. CASE proc[s].op # "mutate"
        <5>1. work'.cell[s] = proc'[s].base /\ ~work'.row
          BY <2>o, <3>5, <4>0, <4>1, <4>3, LandsMerged, Zenon DEF Truth
        <5> QED BY <3>3, <4>1, <4>4, <4>3, <5>1, SMTT(40) DEF Truth
      <4> QED BY <4>2, <4>3, SMTT(40)
    <3>6. CASE UNCHANGED <<work, deleter>> /\ ~Land(s)
      BY <1>0, <1>4, <3>3, <3>4, <3>6, Zenon DEF Ends, Truth
    <3> QED BY <1>4, <3>5, <3>6, ZenonT(30) DEF Ends
  <2> QED BY <2>1, <2>2, <2>s DEF AllTrue
<1> QED BY <1>1, <1>2, <1>3, <1>4 DEF Shape

(***************************************************************************)
(* As long as what publishes inside its transaction meets no mutation and  *)
(* no lost answer, a write that says ok has been applied exactly once and  *)
(* one that says failed not at all, for any number of processes, outages   *)
(* and deaths, and of lost answers where nothing publishes there.          *)
(***************************************************************************)
THEOREM CallersAreToldTheTruth == PublishesSafely /\ Spec => []OutcomeIsTruthful
<1> SUFFICES ASSUME PublishesSafely PROVE Spec => []OutcomeIsTruthful
  OBVIOUS
<1>1. ASSUME Init PROVE Sane /\ AllTrue
  <2>1. AllTrue
    BY <1>1, WriteTxAssumption, Zenon DEF Init, AllTrue, Truth, Still, Pending, Applied
  <2> QED BY <1>1, <2>1, SaneInitially, SMTT(40)
<1>2. ASSUME Sane /\ AllTrue, [Next]_vars PROVE (Sane /\ AllTrue)'
  <2>1. Sane'
    BY <1>2, SaneStep, SMTT(40)
  <2>2. CASE UNCHANGED vars
    BY <1>2, <2>1, <2>2 DEF AllTrue, Truth, Still, vars
  <2>3. CASE Next
    BY <1>2, <2>1, <2>3, StepShape, TruthStep, SMTT(40) DEF Sane
  <2> QED BY <1>2, <2>1, <2>2, <2>3
<1>3. Sane /\ AllTrue => OutcomeIsTruthful
  <2> SUFFICES ASSUME Sane, AllTrue, NEW s \in Session
               PROVE  LET p == proc[s] IN
        /\ work.cell[s] - p.base \in {0, 1, -2}
        /\ p.outcome = "ok" =>
            IF p.op = "mutate" THEN work.cell[s] # p.base ELSE ~work.row
        /\ p.outcome = "failed" =>
            IF p.op = "mutate" THEN work.cell[s] = p.base ELSE deleter # s
    BY DEF OutcomeIsTruthful
  <2>1. Truth(s) /\ proc[s].base \in 0 .. 2
    BY DEF Sane, AllTrue, TypeOK, Process
  <2> QED BY <2>1, BumpedDiffers DEF Truth
<1> QED BY <1>1, <1>2, <1>3, PTL DEF Spec

-----------------------------------------------------------------------------
(* The row is deleted through the fence only. *)
DeletesAreFenced ==
    \A c \in Scenarios, s \in Session : "delete" \notin c.ops[s]

(* Where a guarded delete is held against the fence and the row. *)
Fenced(s) == LET p == proc[s] IN
    /\ lock = s => p.op = "guarded" /\ p.conn /\ p.pc \notin {"idle", "fence"}
    /\ p.op = "guarded" =>
        /\ p.conn /\ p.pc \notin {"idle", "fence"} => lock = s
        /\ p.conn /\ p.pc = "open" /\ p.snap.row => work.row
        /\ Applied(p) \/ p.outcome = "ok" => deleter = s

AllFenced == (\A s \in Session : Fenced(s)) /\ (deleter # None => ~work.row)

(* Under that condition every write is a mutation or takes the fence. *)
LEMMA NoPlainDelete ==
    ASSUME DeletesAreFenced, Sane, NEW s \in Session
    PROVE  proc[s].op \in {"mutate", "guarded"}
<1>1. scenario \in Scenarios /\ Coherent(s) /\ proc[s].op \in {"mutate", "delete", "guarded"}
  BY DEF Sane, TypeOK, AllCoherent, Process
<1> QED BY <1>1 DEF DeletesAreFenced, Coherent

(* What any commit makes of the row. *)
LEMMA LandsOnRow ==
    ASSUME Sane, NEW s \in Session, Land(s), Writes(s)
    PROVE  /\ proc[s].op = "mutate" => work'.row = work.row /\ deleter' = deleter
           /\ proc[s].op # "mutate" =>
                /\ work'.row = FALSE
                /\ deleter' = IF work.row THEN s ELSE deleter
<1>1. work \in Root /\ proc[s].snap \in Root
  BY DEF Sane, TypeOK, AllCoherent, Coherent, Writes, At
<1>2. CASE proc[s].op = "mutate"
  BY <1>1, <1>2 DEF ownRoot, Root, Land, landed, publishesInTx
<1>3. CASE proc[s].op # "mutate"
  BY <1>1, <1>3, Zenon DEF ownRoot, Root, Land, landed
<1> QED BY <1>2, <1>3, Zenon

(* Every step keeps the fence around the guarded deletes. *)
LEMMA FencedStep ==
    ASSUME DeletesAreFenced, Sane, AllFenced, Shape, Sane'
    PROVE  AllFenced'
<1>0. /\ \A z \in Session : Fenced(z) /\ z # None
      /\ deleter # None => ~work.row
  BY WriteTxAssumption, SMTT(40) DEF AllFenced
<1>1. CASE Ambient
  <2>1. ASSUME NEW z \in Session PROVE Fenced(z)'
    <3>1. LET p == proc[z]
              q == proc'[z] IN
            /\ q.pc = p.pc /\ q.op = p.op /\ q.phase = p.phase /\ q.snap = p.snap
            /\ q.then = p.then /\ q.base = p.base /\ q.outcome = p.outcome
            /\ UNCHANGED <<work, deleter>>
      BY <1>1, Zenon DEF Ambient
    <3>2. \/ lock' = None /\ ~proc'[z].conn
          \/ lock' = lock /\ proc'[z].conn = proc[z].conn
      BY <1>1, Zenon DEF Ambient
    <3> QED BY <1>0, <3>1, <3>2, ZenonT(30) DEF Fenced, Applied
  <2> QED BY <1>0, <1>1, <2>1, Zenon DEF AllFenced, Ambient
<1>2. ASSUME NEW s \in Session, Begins(s)
      PROVE  AllFenced'
  <2>1. lock # s
    BY <1>0, <1>2, SMTT(40) DEF Fenced, Begins
  <2>2. ASSUME NEW z \in Session \ {s} PROVE Fenced(z)'
    BY <1>0, <1>2 DEF Begins, Others, Fenced
  <2>3. Fenced(s)'
    BY <1>2, <2>1, SMTT(40) DEF Begins, Fenced, Applied
  <2> QED BY <1>0, <1>2, <2>2, <2>3, SMTT(40) DEF AllFenced, Begins
<1>3. ASSUME NEW s \in Session, Quiet(s), Coherent(s)'
      PROVE  AllFenced'
  <2>1. ASSUME NEW z \in Session \ {s} PROVE Fenced(z)'
    <3>1. proc'[z] = proc[z] /\ work' = work /\ deleter' = deleter /\ Fenced(z)
      BY <1>0, <1>3, SMTT(40) DEF Quiet, Others
    <3>2. lock' = z <=> lock = z
      BY <1>0, <1>3, SMTT(40) DEF Quiet, Freed
    <3> QED BY <3>1, <3>2, ZenonT(30) DEF Fenced
  <2>2. Fenced(s)'
    <3>1. Fenced(s) /\ proc[s].pc # "idle"
      BY <1>0, <1>3, SMTT(40) DEF Quiet
    <3>2. proc'[s].op = proc[s].op /\ work' = work /\ deleter' = deleter
      BY <1>3, SMTT(40) DEF Quiet
    <3>3. lock' = s => proc[s].op = "guarded" /\ proc'[s].conn
                        /\ proc'[s].pc \notin {"idle", "fence"}
      BY <1>0, <1>3, <3>1, ZenonT(60) DEF Quiet, Fenced, Freed, Sane, AllCoherent, Coherent
    <3>4. /\ proc[s].op = "guarded" /\ proc'[s].conn /\ proc'[s].pc \notin {"idle", "fence"}
          => lock' = s
      BY <1>0, <1>3, <3>1, ZenonT(60) DEF Quiet, Fenced, Freed
    <3>5. /\ proc[s].op = "guarded" /\ proc'[s].conn /\ proc'[s].pc = "open"
          /\ proc'[s].snap.row
          => work.row
      BY <1>0, <1>3, <3>1, ZenonT(60) DEF Quiet, Fenced
    <3>6. Applied(proc'[s]) \/ proc'[s].outcome = "ok" => Applied(proc[s])
      BY <1>3 DEF Quiet
    <3> QED BY <3>1, <3>2, <3>3, <3>4, <3>5, <3>6, ZenonT(30) DEF Fenced
  <2> QED BY <1>0, <1>3, <2>1, <2>2, ZenonT(30) DEF AllFenced, Quiet
<1>4. ASSUME NEW s \in Session, Ends(s), Coherent(s)'
      PROVE  AllFenced'
  <2>0. /\ Writes(s) /\ proc[s].pc = "open" /\ proc[s].conn /\ Fenced(s)
        /\ proc[s].op \in {"mutate", "guarded"} /\ proc'[s].op = proc[s].op
    <3>1. Writes(s) /\ proc[s].pc = "open" /\ proc[s].conn
      BY <1>4, Zenon DEF Ends, Writes, At
    <3>2. proc'[s].op = proc[s].op
      BY <1>4, Zenon DEF Ends
    <3>3. proc[s].op \in {"mutate", "guarded"}
      BY <1>0, <3>1, NoPlainDelete, SMTT(40)
    <3> QED BY <1>0, <3>1, <3>2, <3>3, Zenon
  <2>1. proc[s].op = "guarded" => lock = s /\ work.row
    BY <2>0, SMTT(40) DEF Fenced, Writes
  <2>2. ASSUME NEW z \in Session \ {s} PROVE Fenced(z)'
    <3>1. proc'[z] = proc[z] /\ Fenced(z)
      BY <1>0, <1>4, ZenonT(30) DEF Ends, Others
    <3>2. lock' = z <=> lock = z
      BY <1>0, <1>4, SMTT(40) DEF Ends, Freed
    <3>3. CASE UNCHANGED <<work, deleter>>
      BY <3>1, <3>2, <3>3, SMTT(40) DEF Fenced
    <3>4. CASE Land(s) /\ proc[s].op = "mutate"
      BY <2>0, <3>1, <3>2, <3>4, LandsOnRow, Zenon DEF Fenced
    <3>5. CASE Land(s) /\ proc[s].op = "guarded"
      <4>1. lock = s /\ lock # z /\ deleter # z
        BY <1>0, <2>1, <3>5, SMTT(40)
      <4> QED BY <3>1, <3>2, <4>1 DEF Fenced
    <3> QED BY <1>4, <2>0, <3>3, <3>4, <3>5, ZenonT(30) DEF Ends
  <2>3. Fenced(s)'
    <3>1. CASE Land(s) /\ lock' = lock /\ proc'[s].pc = "success" /\ proc'[s].conn
      <4>1. proc[s].op = "guarded" => deleter' = s
        BY <2>0, <2>1, <3>1, LandsOnRow, Zenon
      <4>2. lock' = s => proc[s].op = "guarded"
        BY <2>0, <3>1, SMTT(40) DEF Fenced
      <4> QED BY <2>0, <2>1, <3>1, <4>1, <4>2 DEF Fenced
    <3>2. CASE /\ lock' = Freed(s) /\ ~proc'[s].conn /\ proc'[s].outcome # "ok"
               /\ ~Applied(proc'[s])
      BY <1>0, <2>0, <3>2, ZenonT(30) DEF Fenced, Freed
    <3> QED BY <1>4, <3>1, <3>2, ZenonT(30) DEF Ends, Applied
  <2>4. deleter' # None => ~work'.row
    <3>1. CASE UNCHANGED <<work, deleter>>
      BY <1>0, <3>1
    <3>2. CASE Land(s)
      BY <1>0, <2>0, <3>2, LandsOnRow, ZenonT(60)
    <3> QED BY <1>4, <3>1, <3>2 DEF Ends
  <2> QED BY <2>2, <2>3, <2>4, SMTT(40) DEF AllFenced
<1> QED BY <1>1, <1>2, <1>3, <1>4 DEF Shape

(***************************************************************************)
(* As long as every delete of the row takes the fence, at most one of them *)
(* reports that it deleted it, whether or not they publish inside their    *)
(* transactions, and whatever connections, processes and servers fail.     *)
(***************************************************************************)
THEOREM FenceElectsOne == DeletesAreFenced /\ Spec => []OneDeleteWins
<1> SUFFICES ASSUME DeletesAreFenced PROVE Spec => []OneDeleteWins
  OBVIOUS
<1>1. ASSUME Init PROVE Sane /\ AllFenced
  <2>1. AllFenced
    BY <1>1, WriteTxAssumption, SMTT(40) DEF Init, AllFenced, Fenced, Applied
  <2> QED BY <1>1, <2>1, SaneInitially, SMTT(40)
<1>2. ASSUME Sane /\ AllFenced, [Next]_vars PROVE (Sane /\ AllFenced)'
  <2>1. Sane'
    BY <1>2, SaneStep, SMTT(40)
  <2>2. CASE UNCHANGED vars
    BY <1>2, <2>1, <2>2 DEF AllFenced, Fenced, vars
  <2>3. CASE Next
    BY <1>2, <2>1, <2>3, StepShape, FencedStep, SMTT(40) DEF Sane
  <2> QED BY <1>2, <2>1, <2>2, <2>3
<1>3. Sane /\ AllFenced => OneDeleteWins
  BY DEF AllFenced, Fenced, OneDeleteWins
<1> QED BY <1>1, <1>2, <1>3, PTL DEF Spec

=============================================================================
