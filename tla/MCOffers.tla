------------------------------ MODULE MCOffers ------------------------------
(* Instances of Offers for TLC. *)
EXTENDS Offers, TLC

CONSTANTS c1, c2, u1, u2

\* One request in flight for each of two users.
OneEach == (c1 :> u1) @@ (c2 :> u2)

============================================================================
