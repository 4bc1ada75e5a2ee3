--------------------------- MODULE MCHttpHeaders ----------------------------
(* Chains over two URLs, through up to four redirects. *)
EXTENDS HttpHeaders
=============================================================================
