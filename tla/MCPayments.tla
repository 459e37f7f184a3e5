---------------------------- MODULE MCPayments ----------------------------
(* Instances of Payments for TLC. *)
EXTENDS Payments, TLC

CONSTANTS r1, r2, u1, u2, k1

\* Two requests of one user, the second a retry of the first with its key.
SameUser == (r1 :> u1) @@ (r2 :> u1)
SameKey  == (r1 :> k1) @@ (r2 :> k1)

RequestSymmetry == Permutations(Requests)

\* Two requests of one user without a key.
NoKeys   == (r1 :> NoKey) @@ (r2 :> NoKey)

\* One request.
OneUser == r1 :> u1
OneKey  == r1 :> NoKey

============================================================================
