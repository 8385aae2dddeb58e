------------------------------- MODULE Wallet -------------------------------
(***************************************************************************)
(* What a customer is promised about credits: an operation holds at most   *)
(* once, never more than its disclosed maximum and never more than there   *)
(* is; it is closed at most once, at no more than it held; what it did not *)
(* cost is free again, and no other credit comes or goes.  CreditLedger    *)
(* implements it with grants, allocations and several processes.           *)
(***************************************************************************)
EXTENDS Naturals

CONSTANTS
  Ops,       \* operations, one per idempotency key
  Maximum,   \* Ops -> the maximum charge disclosed before the provider call
  Deposits   \* amounts that may be put into the wallet

VARIABLES
  free,      \* credits nobody holds
  state,     \* Ops -> "new", "held", "closed"
  spent      \* credits charged in total

walletVars == <<free, state, spent>>

Init == free = 0 /\ state = [o \in Ops |-> "new"] /\ spent = 0

Deposit(n) == free' = free + n /\ UNCHANGED <<state, spent>>

Hold(o) ==
  /\ state[o] = "new" /\ Maximum[o] <= free
  /\ free' = free - Maximum[o]
  /\ state' = [state EXCEPT ![o] = "held"]
  /\ UNCHANGED spent

Close(o, charge) ==
  /\ state[o] = "held"
  /\ free' = free + (Maximum[o] - charge)
  /\ spent' = spent + charge
  /\ state' = [state EXCEPT ![o] = "closed"]

Next ==
  \/ \E n \in Deposits : Deposit(n)
  \/ \E o \in Ops : Hold(o) \/ \E charge \in 0 .. Maximum[o] : Close(o, charge)

WalletSpec == Init /\ [][Next]_walletVars
=============================================================================
