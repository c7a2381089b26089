---------------------------- MODULE MC_DsegExchange ----------------------------
(* Model-checking instance of DsegExchange: two askers behind one address. *)
EXTENDS DsegExchange

CONSTANTS a1, a2, nat

\* Both askers reach the peer from the same public address.
MCAddrOf == [a \in {a1, a2} |-> nat]
=============================================================================
