------------------------------ MODULE Circuit -------------------------------
(***************************************************************************)
(* The circuit breaker of circuit.go: a small file that every process      *)
(* using a Dolt server reads, changes and writes back.  The mutex around a *)
(* change is the process's own, so other processes change the file in      *)
(* between.                                                                *)
(*                                                                         *)
(* Times are kept as ages in ticks, which saturate: of TrippedAt while the *)
(* circuit is open, of FirstFailure while it counts.                       *)
(***************************************************************************)
EXTENDS Integers

CONSTANTS
    Threshold,      \* circuitFailureThreshold
    Window,         \* circuitFailureWindow
    Cooldown,       \* circuitCooldown
    StaleTTL        \* circuitStaleTTL

ASSUME CircuitAssumption ==
    /\ Threshold \in Nat \ {0} /\ {Window, Cooldown, StaleTTL} \subseteq Nat
    /\ Window <= StaleTTL /\ Cooldown <= StaleTTL

CircuitState ==
    [state : {"closed", "open", "half-open"}, failures : 0 .. Threshold - 1, age : 0 .. StaleTTL + 1]

Breaker(state, failures, age) == [state |-> state, failures |-> failures, age |-> age]

ClosedCircuit == Breaker("closed", 0, 0)

Tripped == Breaker("open", 0, 0)

Older(c) ==
    LET cap == IF c = ClosedCircuit THEN 0 ELSE IF c.state = "closed" THEN Window + 1 ELSE StaleTTL + 1
    IN IF c.age < cap THEN [c EXCEPT !.age = @ + 1] ELSE c

(* readState: what is left of an earlier session counts no more. *)
readState(c) ==
    IF c.state # "closed" /\ c.age > StaleTTL THEN ClosedCircuit ELSE c

(* Mutant: one failure more than the threshold trips the circuit. *)
afterFailure_OffByOne(c) ==
    IF c.state = "closed" /\ c.failures < Threshold
    THEN Breaker("closed", c.failures + 1, IF c.failures = 0 THEN 0 ELSE c.age)
    ELSE Tripped

(* RecordFailure, on the state that it read. *)
afterFailure(c) ==
    LET expired == c.failures = 0 \/ c.age > Window
        failures == IF expired THEN 1 ELSE c.failures + 1
    IN  CASE c.state = "open" -> c
          [] c.state = "half-open" -> Tripped
          [] OTHER -> IF failures >= Threshold THEN Tripped
                      ELSE Breaker("closed", failures, IF expired THEN 0 ELSE c.age)

(* Allow asks the server itself once the circuit has cooled down. *)
probes(c) == c.state = "half-open" \/ (c.state = "open" /\ c.age >= Cooldown)

(* Mutant: every refusal starts the cooldown anew. *)
afterAllow_Restarts(c, up) ==
    IF probes(c) /\ up THEN ClosedCircuit ELSE IF c.state = "closed" THEN c ELSE Tripped

afterAllow(c, up) ==
    IF ~probes(c) THEN c ELSE IF up THEN ClosedCircuit ELSE Tripped

=============================================================================
