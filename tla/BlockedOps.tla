----------------------------- MODULE BlockedOps -----------------------------
(***************************************************************************)
(* issues.is_blocked: derived from the statuses and the dependency rows,   *)
(* stored beside them, and what bd ready reads.  Every write recomputes it *)
(* for the rows it can affect.  Here are that computation, the affected    *)
(* sets, and the contract both are meant to meet.                          *)
(*                                                                         *)
(* Issues and wisps, whose legs are the same SQL over two tables, are one  *)
(* set of ids, and blocks stands for conditional-blocks too.               *)
(***************************************************************************)
EXTENDS Integers, DoltCells

CONSTANTS Issue, SubtreeWalkDepth

ASSUME DepthAssumption == SubtreeWalkDepth \in Nat

IssueRow == [status : {"open", "closed", "pinned"}, is_blocked : BOOLEAN]

DepRow == [type : {"blocks", "parent-child", "waits-for"}, any : BOOLEAN, also_blocks : BOOLEAN]

ASSUME NoRowAssumption == NoRow \notin IssueRow \cup DepRow

DB == [issues : [Issue -> IssueRow \cup {NoRow}],
       dependencies : [Issue \X Issue -> DepRow \cup {NoRow}]]

Live(d) == {i \in Issue : d.issues[i] # NoRow}

Closed(d) == {i \in Live(d) : d.issues[i].status = "closed"}

Active(d) == {i \in Live(d) : d.issues[i].status = "open"}

Flags(d) == {i \in Live(d) : d.issues[i].is_blocked}

WithFlags(d, flags) ==
    [d EXCEPT !.issues = [i \in Issue |->
        IF d.issues[i] = NoRow THEN NoRow ELSE [d.issues[i] EXCEPT !.is_blocked = i \in flags]]]

SetStatus(d, i, status) == [d EXCEPT !.issues[i].status = status]

SetRow(d, i, j, row) == [d EXCEPT !.dependencies[<<i, j>>] = row]

(* deleteIssueRowInTx: the rows at both ends go with the issue. *)
Without(d, i) ==
    [issues |-> [d.issues EXCEPT ![i] = NoRow],
     dependencies |-> [p \in Issue \X Issue |-> IF i \in {p[1], p[2]} THEN NoRow ELSE d.dependencies[p]]]

Has(d, i, j, type) == d.dependencies[<<i, j>>] # NoRow /\ d.dependencies[<<i, j>>].type = type

Sources(d, J, type) == {i \in Issue : \E j \in J : Has(d, i, j, type)}

Targets(d, I, type) == {j \in Issue : \E i \in I : Has(d, i, j, type)}

Children(d, P) == Sources(d, P, "parent-child")

Parents(d, C) == Targets(d, C, "parent-child")

-----------------------------------------------------------------------------
(* waitsForGateBlockedSQL, for the row on which w waits for the spawner s. *)
waitsForGateBlocked(d, w, s) ==
    LET row == d.dependencies[<<w, s>>] IN
    \/ /\ Children(d, {s}) \cap Active(d) # {}
       /\ ~(row.any /\ Children(d, {s}) \cap Closed(d) # {})
    \/ row.also_blocks /\ s \in Active(d)

(* blockingReasonSQL: the targets that are, right now, reasons for i. *)
reasons(d, i) ==
    (Targets(d, {i}, "blocks") \cap Active(d)) \cup
    {s \in Targets(d, {i}, "waits-for") : waitsForGateBlocked(d, i, s)}

(* The pairs of joins: every way up from t meets p within the walk's depth. *)
inSubtree(d, p, t) ==
    LET under[n \in 0 .. SubtreeWalkDepth] ==
            IF n = 0 THEN {}
            ELSE {c \in Issue : Parents(d, {c}) # {} /\ Parents(d, {c}) \subseteq {p} \cup under[n - 1]}
    IN t \in under[SubtreeWalkDepth]

(***************************************************************************)
(* parentsExplainedBySubtreeSQL pruned by pruneExplainedByAncestryInTx: of *)
(* the flagged parents whose reasons all lie in their own subtree, those   *)
(* with nothing unexplained above them.  A flagged parent with no reason   *)
(* of its own is climbed through, and the greatest such set is kept.       *)
(***************************************************************************)
explainedParents(d, flags) ==
    LET own == {p \in flags : reasons(d, p) # {} /\ \A t \in reasons(d, p) : inSubtree(d, p, t)}
        transparent == {p \in flags : reasons(d, p) = {}}
        supported == {S \in SUBSET (own \cup transparent) :
                        \A p \in S : Parents(d, {p}) \cap flags \subseteq S}
    IN own \cap UNION supported

(* The five legs of shouldBeBlockedIDsUnionCoreSQL. *)
shouldBeBlocked(d, flags, explained) ==
    {i \in Active(d) : reasons(d, i) # {} \/ Parents(d, {i}) \cap (flags \ explained) # {}}

(* Both statements of a pass read the exogeneity set of the pass's start. *)
markUnmark(d, ids, flags) ==
    LET explained == explainedParents(d, flags)
        marked == flags \cup (ids \cap shouldBeBlocked(d, flags, explained))
    IN marked \ (ids \ shouldBeBlocked(d, marked, explained))

(* RecomputeIsBlockedInTxWithResult: passes until one changes nothing. *)
RecomputeIsBlocked(d, ids) ==
    LET passes[flags \in SUBSET Issue] ==
            LET next == markUnmark(d, ids, flags) IN IF next = flags THEN flags ELSE passes[next]
    IN WithFlags(d, passes[Flags(d)])

(* MarkIsBlockedInTx: the same loop without the unmark. *)
MarkIsBlocked(d, ids) ==
    LET passes[flags \in SUBSET Issue] ==
            LET next == flags \cup (ids \cap shouldBeBlocked(d, flags, explainedParents(d, flags)))
            IN IF next = flags THEN flags ELSE passes[next]
    IN WithFlags(d, passes[Flags(d)])

RecomputeAllIsBlocked(d) == RecomputeIsBlocked(d, Live(d))

-----------------------------------------------------------------------------
(* seed, and what hangs below it, never entering skip. *)
expandByParentChildDescendants(d, seed, skip) ==
    LET grown[S \in SUBSET Issue] ==
            LET more == S \cup (Children(d, S) \ skip) IN IF more = S THEN S ELSE grown[more]
    IN Issue \cap grown[seed \ skip]

AffectedByStatusChange(d, i) ==
    expandByParentChildDescendants(d,
        {i} \cup Sources(d, {i}, "blocks") \cup Sources(d, Parents(d, {i}) \cup {i}, "waits-for"), {})

(* Everything reachable from i along rows of the given types. *)
Reach(d, i, types) ==
    LET grown[S \in SUBSET Issue] ==
            LET more == S \cup UNION {Targets(d, S, t) : t \in types}
            IN IF more = S THEN S ELSE grown[more]
    IN grown[{i}]

(* Of i's ancestors, those with a row that is not parent-child; and i. *)
ancestorChain(d, i) ==
    {i} \cup {a \in Reach(d, i, {"parent-child"}) :
                Targets(d, {a}, "blocks") \cup Targets(d, {a}, "waits-for") # {}}

AffectedByDepChange(d, source, target, type) ==
    expandByParentChildDescendants(d,
        IF type = "parent-child"
        THEN {source} \cup Sources(d, {target}, "waits-for") \cup Children(d, ancestorChain(d, target))
        ELSE {source}, {})

AffectedByDeletion(d, i) ==
    expandByParentChildDescendants(d,
        Sources(d, {i}, "blocks") \cup Sources(d, Parents(d, {i}) \cup {i}, "waits-for")
            \cup Children(d, {i}), {i})

(* Mutant: the source, excluded from the rest, is not marked directly. *)
markAfterAdd_Rest(d, i, j, type) ==
    LET affected == AffectedByDepChange(d, i, j, type)
    IN IF type = "parent-child" THEN RecomputeIsBlocked(d, affected)
       ELSE MarkIsBlocked(d, IF type = "blocks" THEN affected \ {i} ELSE affected)

(* markDirectBlockingDependencySourceInTx, then the rest of the affected. *)
markAfterAdd(d, i, j, type) ==
    LET affected == AffectedByDepChange(d, i, j, type)
        direct == IF type = "blocks" /\ {i, j} \subseteq Active(d) THEN {i} ELSE {}
    IN IF type = "parent-child" THEN RecomputeIsBlocked(d, affected)
       ELSE MarkIsBlocked(WithFlags(d, Flags(d) \cup direct),
                          IF type = "blocks" THEN affected \ {i} ELSE affected)

-----------------------------------------------------------------------------
(***************************************************************************)
(* The contract that parentsExplainedBySubtreeSQL's comment states, read   *)
(* off the graph alone.  An issue is exogenously blocked if some reason    *)
(* lies outside its own subtree, or its parent is exogenously blocked: the *)
(* least set closed under these.  An issue is blocked by a reason of its   *)
(* own or by an exogenously blocked parent.                                *)
(***************************************************************************)
Below(d, p) == expandByParentChildDescendants(d, Children(d, {p}), {})

Exogenous(d) ==
    LET closedSets == {E \in SUBSET Active(d) : \A p \in Active(d) :
            reasons(d, p) \ Below(d, p) # {} \/ Parents(d, {p}) \cap E # {} => p \in E}
    IN {p \in Active(d) : \A E \in closedSets : p \in E}

ContractFlags(d) ==
    {i \in Active(d) : reasons(d, i) # {} \/ Parents(d, {i}) \cap Exogenous(d) # {}}

=============================================================================
