----------------------------- MODULE MCClients ------------------------------
(* Clients with one instance that all torrents belong to. *)
EXTENDS Clients

CONSTANT i1

AllOnOne == [t \in Torrents |-> i1]
BackoffsMC == {<<1, 2>>}
=============================================================================
