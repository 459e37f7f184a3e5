------------------------------- MODULE Escrow -------------------------------
(***************************************************************************)
(* What the payments of an offer promise, whoever writes the tables and in *)
(* whatever order: money is asked for only once it is booked on a bill,    *)
(* money taken stays taken and stays on its bill, a bill is settled only   *)
(* with money behind it, and only money that was taken is given back.      *)
(***************************************************************************)
EXTENDS Naturals

CONSTANTS
  Charges,   \* names of the charges, and of the bills they are booked on
  NoBill,
  Price,     \* what a charge takes
  Exact      \* whether the provider gives back no more than that

VARIABLES
  bill,    \* "none", "pending", "paid", "released" or "refunded"
  on,      \* the bill a charge is booked on, or NoBill
  money,   \* the charge itself: "none", "asked", "taken" or "void"
  back     \* how much of it has been given back

Init ==
  /\ bill = [i \in Charges |-> "none"]
  /\ on = [c \in Charges |-> NoBill]
  /\ money = [c \in Charges |-> "none"]
  /\ back = [c \in Charges |-> 0]

Bill(i) ==
  /\ bill[i] = "none"
  /\ bill' = [bill EXCEPT ![i] = "pending"]
  /\ UNCHANGED <<on, money, back>>

Book(c, i) ==
  /\ on[c] = NoBill /\ bill[i] # "none"
  /\ on' = [on EXCEPT ![c] = i]
  /\ UNCHANGED <<bill, money, back>>

Ask(c) ==
  /\ on[c] # NoBill /\ money[c] = "none"
  /\ money' = [money EXCEPT ![c] = "asked"]
  /\ UNCHANGED <<bill, on, back>>

\* At once, or after it was asked for.
Take(c) ==
  /\ on[c] # NoBill /\ money[c] \in {"none", "asked"}
  /\ money' = [money EXCEPT ![c] = "taken"]
  /\ UNCHANGED <<bill, on, back>>

Void(c) ==
  /\ money[c] = "asked"
  /\ money' = [money EXCEPT ![c] = "void"]
  /\ UNCHANGED <<bill, on, back>>

\* Paid or released: some money on the bill was taken.
Settle(i) ==
  /\ \E c \in Charges : on[c] = i /\ money[c] = "taken"
  /\ \E s \in {"paid", "released"} : bill' = [bill EXCEPT ![i] = s]
  /\ UNCHANGED <<on, money, back>>

\* A bill with a charge on it is marked refunded.
Reverse(i) ==
  /\ \E c \in Charges : on[c] = i
  /\ bill' = [bill EXCEPT ![i] = "refunded"]
  /\ UNCHANGED <<on, money, back>>

GiveBack(c, amount) ==
  /\ money[c] = "taken"
  /\ Exact => back[c] + amount <= Price
  /\ back' = [back EXCEPT ![c] = @ + amount]
  /\ UNCHANGED <<bill, on, money>>

Next ==
  \/ \E i \in Charges : Bill(i) \/ Settle(i) \/ Reverse(i)
  \/ \E c \in Charges : Ask(c) \/ Take(c) \/ Void(c)
  \/ \E c, i \in Charges : Book(c, i)
  \/ \E c \in Charges, amount \in 1 .. Price : GiveBack(c, amount)

Spec == Init /\ [][Next]_<<bill, on, money, back>>

============================================================================
