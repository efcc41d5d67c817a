----------------------------- MODULE MCGateway -----------------------------
(***************************************************************************)
(* Gateway with small sets of connections, clients and documents.          *)
(***************************************************************************)
EXTENDS Gateway, TLC

SocketSymmetry == Permutations(Sockets) \cup Permutations(Clients)
=============================================================================
