--------------------------- MODULE MCHybridSearch ---------------------------
(* Small instances of HybridSearch for TLC. *)
EXTENDS HybridSearch

CONSTANTS p1, p2, p3, p4

\* Two sources with a chunk_id in common; p1 and p2 are alike.
MCId == (p1 :> "x") @@ (p2 :> "y") @@ (p3 :> "z") @@ (p4 :> "x")
MCSource == (p1 :> "A") @@ (p2 :> "A") @@ (p3 :> "B") @@ (p4 :> "B")
MCRelevance == (p1 :> 9) @@ (p2 :> 8) @@ (p3 :> 6) @@ (p4 :> 2)
MCLikeness == [pair \in Points \X Points |->
                 IF pair[1] = pair[2] THEN 10
                 ELSE IF pair[1] \in {p1, p2} /\ pair[2] \in {p1, p2} THEN 9 ELSE 1]

\* p1 and p4, and later p2, may leave the store.
MCStores == {Points, {p2, p3}, {p3}}

Ui == [f \in FlagNames |-> "ui"]
MCPolicies == {[Ui EXCEPT !["hyde"] = "fast", !["bm25"] = "thinking"],
               [f \in FlagNames |-> IF f = "mmr" THEN "fast" ELSE "off"]}
MCFilters == {{}, {"A"}}
=============================================================================
