--------------------------- MODULE MCRequestQueue ---------------------------
(* RequestQueue on three request blocks and two handler threads.           *)
EXTENDS RequestQueue

CONSTANTS r1, r2, r3, h1, h2
=============================================================================
