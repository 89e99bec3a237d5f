----------------------------- MODULE ChainOrder -----------------------------
(***************************************************************************)
(* The insert order of one import batch (chainOrderForBatch in             *)
(* src/lnmpln.ts): legs are chained destination to departure when exactly  *)
(* one chain takes in all of them; on any doubt the upload order stays.    *)
(* A plan is [from, to, airports]; idents are already trimmed and in upper *)
(* case, and airports says that both ends are airports.                    *)
(***************************************************************************)
EXTENDS Naturals, Sequences, FiniteSets, Functions

UploadOrder(plans) == [i \in DOMAIN plans |-> i]

Unresolved(plans, reason) == [order |-> UploadOrder(plans), resolved |-> FALSE, reason |-> reason]

\* A head departs from where no leg of the batch arrives.
Heads(plans) == {i \in DOMAIN plans : \A j \in DOMAIN plans : plans[j].to # plans[i].from}

Successors(plans, walked) ==
  {i \in DOMAIN plans \ Range(walked) : plans[i].from = plans[walked[Len(walked)]].to}

\* The walk from the head, at most n legs long: it stops where it has no
\* successor or more than one.
Walk(plans, head) ==
  LET walk[n \in 1..Len(plans)] ==
        IF n = 1 THEN <<head>>
        ELSE LET next == Successors(plans, walk[n - 1])
             IN  IF Cardinality(next) = 1 /\ Len(walk[n - 1]) = n - 1
                 THEN Append(walk[n - 1], CHOOSE i \in next : TRUE)
                 ELSE walk[n - 1]
  IN  walk[Len(plans)]

ChainOrderForBatch(plans) ==
  LET heads == Heads(plans)
      walk  == Walk(plans, CHOOSE i \in heads : TRUE)
  IN  IF Len(plans) < 2
      THEN [order |-> UploadOrder(plans), resolved |-> TRUE, reason |-> "SINGLE_LEG"]
      ELSE IF \E i \in DOMAIN plans : ~plans[i].airports
      THEN Unresolved(plans, "SNIPPET_IN_BATCH")
      ELSE IF Cardinality(heads) # 1
      THEN Unresolved(plans, "NO_UNIQUE_HEAD")
      ELSE IF Len(walk) = Len(plans)
      THEN [order |-> walk, resolved |-> TRUE, reason |-> "CHAINED"]
      ELSE Unresolved(plans, IF Successors(plans, walk) = {} THEN "BROKEN_CHAIN"
                             ELSE "AMBIGUOUS_SUCCESSOR")

-----------------------------------------------------------------------------
(* What the order means, said without a walk. *)

EndToEnd(plans, order) ==
  \A n \in 1..(Len(order) - 1) : plans[order[n]].to = plans[order[n + 1]].from

Permutations1(n) == {p \in [1..n -> 1..n] : \A i, j \in 1..n : p[i] = p[j] => i = j}

\* The order of a batch is a permutation of it. A batch is reordered only if
\* the new order joins every leg to the next, starts where nothing arrives,
\* and is the only such order; and when the legs are airports that each have
\* one way to go on, the one order there is is found.
ChainOrderIsTheRoute(plans) ==
  LET n       == Len(plans)
      answer  == ChainOrderForBatch(plans)
      Starts(p) == \A j \in 1..n : plans[j].to # plans[p[1]].from
      routes  == {p \in Permutations1(n) : EndToEnd(plans, p) /\ Starts(p)}
  IN  /\ answer.order \in Permutations1(n)
      /\ answer.reason = "CHAINED" => routes = {answer.order}
      /\ ~answer.resolved => answer.order = UploadOrder(plans)
      /\ (/\ n >= 2
          /\ \A i \in 1..n : plans[i].airports
          /\ \A i, j \in 1..n : i # j => plans[i].from # plans[j].from
          /\ routes # {})
         => answer.reason = "CHAINED"
=============================================================================
