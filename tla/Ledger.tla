------------------------------- MODULE Ledger -------------------------------
(***************************************************************************)
(* What the evidence store promises its users: a ledger per unit.  A       *)
(* transaction enters any number of entries for any number of units and    *)
(* moves units, all at once.  What was entered stays, where it was         *)
(* entered; scrapping is final and retires the uid.                        *)
(***************************************************************************)
EXTENDS Naturals, Sequences

CONSTANTS Units, Payloads, States, None

VARIABLES
  log,      \* the entries of each unit, in order
  state,    \* the state of each unit, None before its birth
  retired   \* the uids no part may carry again

vars == <<log, state, retired>>

Extends(long, short) ==
  /\ Len(short) <= Len(long)
  /\ \A i \in 1..Len(short) : long[i] = short[i]

Init ==
  /\ log = [u \in Units |-> <<>>]
  /\ state = [u \in Units |-> None]
  /\ retired = {}

Transact ==
  /\ log' \in [Units -> Seq(Payloads)]
  /\ state' \in [Units -> States]
  /\ \A u \in Units :
       /\ Extends(log'[u], log[u])
       /\ log'[u] # log[u] => state'[u] # None
       /\ state[u] # None => state'[u] # None
       /\ u \in retired => state'[u] = "SCRAPPED"
  /\ retired' = {u \in Units : state'[u] = "SCRAPPED"}

Spec == Init /\ [][Transact]_vars
=============================================================================
