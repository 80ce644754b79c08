---------------------------- MODULE OrderEscrow ----------------------------
(***************************************************************************)
(* What the order book promises of every order, whatever placing, filling, *)
(* cancelling and closing an account do underneath.  Money is taken once,  *)
(* when the order opens; from then on it only leaves the escrow, to pay a  *)
(* counterparty or back to the owner; an order closes when all of it has   *)
(* left, and a closed order never opens or pays again.  One step may move  *)
(* several orders, since a trade draws on both of its sides.               *)
(***************************************************************************)
EXTENDS Integers

CONSTANTS
    Orders,     \* the orders users ask for
    Stake        \* what each order debits: [Orders -> Nat]

VARIABLES
    status,     \* "new", "open" or "closed"
    escrow      \* what the order still holds of the money debited for it

vars == <<status, escrow>>

Init ==
    /\ status = [o \in Orders |-> "new"]
    /\ escrow = [o \in Orders |-> 0]

Open(o) ==
    /\ status[o] = "new" /\ status'[o] = "open"
    /\ escrow'[o] = Stake[o]

Draw(o) ==
    /\ status[o] = "open" /\ status'[o] \in {"open", "closed"}
    /\ escrow'[o] \in 0..escrow[o]
    /\ status'[o] = "closed" => escrow'[o] = 0

Rest(o) == status'[o] = status[o] /\ escrow'[o] = escrow[o]

Next ==
    /\ status' = [o \in Orders |-> status'[o]]
    /\ escrow' = [o \in Orders |-> escrow'[o]]
    /\ \A o \in Orders : Open(o) \/ Draw(o) \/ Rest(o)

Spec == Init /\ [][Next]_vars

=============================================================================
