---------------------------- MODULE MCHttpServer ----------------------------
(* HttpServer with two connections and every way a request can be cut.     *)
EXTENDS HttpServer, TLC

CONSTANTS c1, c2, p1, p2, p3, d1, d2, d3

Ask(method, resource, endPoint, body, chunked) ==
  [method |-> method, resource |-> resource, endPoint |-> endPoint, body |-> body, chunked |-> chunked]

Get(endPoint) == Ask("GET", TRUE, endPoint, << >>, FALSE)
Post(body) == Ask("POST", TRUE, NULL, body, FALSE)
PostChunked(body) == Ask("POST", TRUE, NULL, body, TRUE)

(* Requests whose body fits one packet.                                    *)
WholeAsks ==
  {Get(NULL), Get(1), Post(<<d1>>), Post(<<d2>>), Post(<< >>),
   Ask("POST", TRUE, 1, <<d3>>, FALSE), Ask("GET", FALSE, NULL, << >>, FALSE),
   Ask("PUT", TRUE, NULL, << >>, FALSE)}

(* Bodies that arrive in parts.                                            *)
PartAsks == {Get(NULL), Post(<<d1, d2>>), Post(<<d3>>), PostChunked(<<d1>>), Post(<< >>)}

Symmetry == Permutations(Conns) \cup Permutations(Posts)
=============================================================================
