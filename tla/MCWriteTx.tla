------------------------------ MODULE MCWriteTx ------------------------------
EXTENDS WriteTx, TLC

CONSTANTS s1, s2

MCSession == {s1, s2}

Writers(first, second, deferred, losses, breaker, bound) ==
    [ops |-> (s1 :> first @@ s2 :> second), deferred |-> deferred, losses |-> losses,
     breaker |-> breaker, faults |-> bound]

(***************************************************************************)
(* Mutations that publish, without a breaker and with one; guarded deletes *)
(* that do not publish, beside mutations, and that do, where no answer is  *)
(* lost; and a plain delete beside mutations, with a breaker.              *)
(***************************************************************************)
SafeScenarios ==
    {Writers({"mutate"}, {"mutate"}, FALSE, TRUE, FALSE, 1),
     Writers({"mutate"}, {}, FALSE, TRUE, TRUE, 2),
     Writers({"guarded"}, {"guarded", "mutate"}, TRUE, TRUE, FALSE, 1),
     Writers({"guarded"}, {"guarded"}, FALSE, FALSE, FALSE, 2),
     Writers({"mutate"}, {"delete"}, TRUE, FALSE, TRUE, 1)}

(* One delete that publishes itself, and whose answer may be lost. *)
DeleteScenarios == {Writers({"delete"}, {}, FALSE, TRUE, TRUE, 1)}

=============================================================================
