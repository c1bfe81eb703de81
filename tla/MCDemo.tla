------------------------------- MODULE MCDemo -------------------------------
(* Instances of Demo for TLC: a custodian's institution and one on Stellar.   *)
EXTENDS Demo

CONSTANTS kestrel, harbor

Kinds == [i \in {kestrel, harbor} |-> IF i = kestrel THEN "attested" ELSE "onchain"]

Owes == [i \in {kestrel, harbor} |-> 18]

KestrelFirst == <<kestrel, "solvent">>

TwoAccounts == <<"anchor", "beacon">>

\* A mixture of the two, 15 + 3, just covers the 18 owed.
Balances == [solvent   |-> [anchor |-> 15, beacon |-> 8],
             insolvent |-> [anchor |-> 5, beacon |-> 3]]
=============================================================================
