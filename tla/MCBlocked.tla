------------------------------ MODULE MCBlocked ------------------------------
(***************************************************************************)
(* Blocked on small graphs, each with the writers and writes it is for.    *)
(***************************************************************************)
EXTENDS Blocked, FiniteSets

CONSTANTS a, b, c, x, s1, s2

MCIssue == {a, b, c, x}

MCSession == {s1, s2}

Row(type) == [type |-> type, any |-> FALSE, also_blocks |-> FALSE]

Edge(from, type, to) == [from |-> from, to |-> to, row |-> Row(type)]

Gate(from, to, any, also) ==
    [from |-> from, to |-> to, row |-> [type |-> "waits-for", any |-> any, also_blocks |-> also]]

Graph(edges) ==
    [issues |-> [i \in MCIssue |-> [status |-> "open", is_blocked |-> FALSE]],
     dependencies |-> [p \in MCIssue \X MCIssue |->
        IF \E e \in edges : <<e.from, e.to>> = p
        THEN (CHOOSE e \in edges : <<e.from, e.to>> = p).row ELSE NoRow]]

Scenario(start, extra, writers, ops, bound) ==
    [db |-> Graph(start), edges |-> extra, writers |-> writers, ops |-> ops, writes |-> bound]

Removing == {"close", "remove", "delete"}

AllOps == Removing \cup {"update", "reopen", "add"}

(* c has two blockers and a child: any two writes may take them away at once. *)
TwoBlockers ==
    Scenario({Edge(c, "blocks", a), Edge(c, "blocks", b), Edge(x, "parent-child", c)}, {},
             {s1, s2}, Removing \cup {"update", "abandon"}, 2)

(* x waits for all of a's children, and is blocked while a is open. *)
AllChildren(also) ==
    Scenario({Gate(x, a, FALSE, also), Edge(b, "parent-child", a), Edge(c, "parent-child", a)}, {},
             {s1, s2}, Removing, 2)

(* Children come and go under a while it is closed and reopened. *)
Epic ==
    Scenario({Edge(b, "parent-child", a)}, {Edge(c, "parent-child", a), Edge(a, "blocks", x)},
             {s1, s2}, {"close", "add", "reopen"}, 3)

(* One writer: a is gated on its own child b, and x waits for any child of a. *)
CloseGate ==
    Scenario({Edge(b, "parent-child", a), Edge(c, "parent-child", a), Gate(a, b, FALSE, TRUE)},
             {Edge(a, "blocks", x), Edge(x, "parent-child", c)}, {s1}, AllOps, 3)

AnyChildren ==
    Scenario({Gate(x, a, TRUE, FALSE), Edge(b, "parent-child", a)},
             {Edge(c, "parent-child", a), Edge(c, "parent-child", x)}, {s1}, AllOps \ {"update"}, 3)

(* x's gate is replaced while no child of a is closed. *)
ReGate ==
    Scenario({Gate(x, a, FALSE, FALSE), Edge(b, "parent-child", a)},
             {Gate(x, a, TRUE, FALSE), Edge(c, "parent-child", a)}, {s1}, {"add", "remove"}, 3)

(* Two writers edit everything at once: x waits for a, which has and gains children. *)
TwoEdits ==
    Scenario({Gate(x, a, FALSE, TRUE), Edge(b, "parent-child", a), Edge(c, "blocks", b)},
             {Edge(c, "parent-child", a), Edge(b, "blocks", x)}, {s1, s2}, AllOps, 2)

SafeScenarios == {TwoEdits, ReGate, TwoBlockers, AllChildren(FALSE), AllChildren(TRUE), Epic, CloseGate, AnyChildren}

-----------------------------------------------------------------------------
(* Graphs on which the code leaves a flag wrong, so that FlagsSettle fails. *)

ClosedFirst(s, i) == [s EXCEPT !.db.issues[i].status = "closed"]

(* The grandchild that a waits for loses the parent that tied it to a. *)
MiddleParent ==
    Scenario({Gate(a, c, FALSE, TRUE), Edge(b, "parent-child", a), Edge(c, "parent-child", b),
              Edge(x, "parent-child", a)}, {}, {s1}, {"delete"}, 1)

(* x waits for any child of a; the closed one is removed while x is closed. *)
Excluded ==
    ClosedFirst(Scenario({Gate(x, a, TRUE, FALSE), Edge(b, "parent-child", a),
                          Edge(c, "parent-child", a)}, {}, {s1, s2}, {"close", "remove"}, 2), b)

(* The closed child that opened x's gate is pinned. *)
PinnedChild ==
    ClosedFirst(Scenario({Gate(x, a, TRUE, FALSE), Edge(b, "parent-child", a),
                          Edge(c, "parent-child", a)}, {}, {s1}, {"update"}, 1), b)

(* x's gate for any child becomes one for all, with a child still open. *)
ReGated ==
    ClosedFirst(Scenario({Gate(x, a, TRUE, FALSE), Edge(b, "parent-child", a),
                          Edge(c, "parent-child", a)}, {Gate(x, a, FALSE, FALSE)}, {s1}, {"add"}, 1), b)

(* One recheck takes c's flag down while x has a reason, and one keeps x's for c's. *)
RecheckRace ==
    Scenario({Edge(c, "blocks", a), Edge(c, "blocks", b), Edge(x, "parent-child", c),
              Edge(x, "blocks", a)}, {}, {s1, s2}, {"close", "remove"}, 3)

(* x comes under c while c's stale flag awaits its recheck, and inherits it. *)
LateChild ==
    Scenario({Edge(c, "blocks", a), Edge(c, "blocks", b)}, {Edge(x, "parent-child", c)},
             {s1, s2}, {"close", "add"}, 3)

UnsettledScenarios == {MiddleParent, Excluded, PinnedChild, ReGated, RecheckRace, LateChild}

(* Two opposite edges, each checked for a cycle on a snapshot without the   *)
(* other: they touch different rows, so both commit and close a cycle.      *)
TwoAdds ==
    Scenario({}, {Edge(a, "blocks", b), Edge(b, "blocks", a)}, {s1, s2}, {"add"}, 2)

=============================================================================
