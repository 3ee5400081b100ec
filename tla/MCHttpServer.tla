----------------------------- MODULE MCHttpServer -----------------------------
(* HttpServer with a few clients, alike until they ask, and descriptors that *)
(* are alike until they are open.                                            *)
EXTENDS HttpServer, TLC

Symmetry == Permutations(Clients) \cup Permutations(Fds)

==============================================================================
