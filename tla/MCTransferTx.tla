---------------------------- MODULE MCTransferTx ----------------------------
(***************************************************************************)
(* Three calls on two requests that move one citizen between neighbouring  *)
(* wards, r1 from h1 to h2 and r2 back, on a pool of three connections.      *)
(***************************************************************************)
EXTENDS TransferTx, TLC

CONSTANTS h1, h2, w1, w2, d1, p1, c1, r1, r2, k1, k2, k3

MCWard     == (h1 :> w1) @@ (h2 :> w2)
MCDistrict == (h1 :> d1) @@ (h2 :> d1)
MCProvince == (h1 :> p1) @@ (h2 :> p1)

Move(from, to) == [citizen |-> c1, from |-> from, to |-> to]
MCTransfer == (r1 :> Move(h1, h2)) @@ (r2 :> Move(h2, h1))

Asked(does, request, unit) == [does |-> does, request |-> request, unit |-> unit]

(* What the calls may be, in an order that makes their combinations few.    *)
Menu == <<Asked("approved", r1, w1), Asked("approved", r1, w2),
          Asked("rejected", r1, w2), Asked("pending", r1, w1),
          Asked("force", r1, NoUnit), Asked("force", r2, NoUnit),
          Asked("ticket", r1, w2)>>
MCScenarios ==
  {(k1 :> Menu[i]) @@ (k2 :> Menu[j]) @@ (k3 :> Menu[l]) :
     <<i, j, l>> \in {m \in (1 .. 7) \X (1 .. 7) \X (1 .. 7) :
                        m[1] <= m[2] /\ m[2] <= m[3] /\ m[2] < 7}}

(* The citizen lives in h1, in h2, or has been enrolled in both. *)
MCSeeds == {(h1 :> {c1}) @@ (h2 :> {}), (h1 :> {}) @@ (h2 :> {c1}),
            (h1 :> {c1}) @@ (h2 :> {c1})}
=============================================================================
