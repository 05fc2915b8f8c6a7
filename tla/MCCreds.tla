------------------------------ MODULE MCCreds ------------------------------
(* Groups of a stopping Core and of the Core that replaces it, on one      *)
(* cache, with two links or one; two groups of one Core; a group together  *)
(* with a worker that fails; and two workers that fail together.           *)
EXTENDS Creds, TLC

CONSTANTS old, new, s1, s2, A, B, coreA, coreB, k0, k1

MCSetups ==
    LET handover == [present |-> {old, new}, cacheOf |-> [x \in {old, new, s1, s2} |-> k0],
                     coreOf |-> old :> coreA @@ new :> coreB, linkOf |-> old :> A @@ new :> B,
                     current |-> coreB]
    IN  {handover,
         [handover EXCEPT !.linkOf[new] = A],
         [handover EXCEPT !.linkOf[new] = A, !.coreOf[old] = coreB, !.cacheOf[new] = k1],
         [handover EXCEPT !.present = {new, s1}],
         [handover EXCEPT !.present = {s1, s2}]}
=============================================================================
