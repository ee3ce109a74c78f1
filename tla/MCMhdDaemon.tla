---------------------------- MODULE MCMhdDaemon ----------------------------
(* MhdDaemon with a client that sends every kind of request and one that   *)
(* only connects, so that the two share the lists, the limit and the round.*)
EXTENDS MhdDaemon

CONSTANTS c1, c2  \* the clients

Bodyless(method, head) == [NoRequest EXCEPT !.method = method, !.version = "1.1", !.head = head, !.reply = 2]
Plain == <<"url", "header", "empty">>
Data(n) == [i \in 1 .. n |-> [kind |-> "data", n |-> 0]]
Chunk(n) == << [kind |-> "chunk", n |-> n] >> \o Data(n)
Trailer == << [kind |-> "chunk", n |-> 0], [kind |-> "header", n |-> 0], [kind |-> "empty", n |-> 0] >>
WithBody(a, n) == [a EXCEPT !.length = n, !.body = Data(n)]
Parts(n) == [i \in 1 .. n |-> "part"]

Get == Bodyless("GET", Plain)
Post == Bodyless("POST", <<"part", "url", "header", "empty">>)
PostChunked == [Post EXCEPT !.encoding = "chunked", !.body = Chunk(2) \o Chunk(1) \o Trailer]

(* What the pool has room for, and what it has not.                        *)
Small(a) == [a EXCEPT !.arguments = 1, !.cookie = 2, !.cookies = 1]
LongCookie(a) == [a EXCEPT !.cookie = PoolSize, !.cookies = 1]
ManyCookies(a) == [a EXCEPT !.cookie = 2, !.cookies = PoolSize]
ManyArguments(a) == [a EXCEPT !.arguments = PoolSize]

AllAsks == {
  Get, [Get EXCEPT !.version = "none"], [Get EXCEPT !.reply = 0],
  WithBody(Get, 1),
  Post, WithBody(Post, 2), WithBody([Post EXCEPT !.expect = TRUE], 1),
  [Post EXCEPT !.encoding = "other", !.body = Data(1)], [Post EXCEPT !.length = -1],
  WithBody([Post EXCEPT !.method = "PUT"], 1),
  Bodyless("GET", <<"bad">>), Bodyless("GET", <<"url", "bad", "empty">>),
  Bodyless("GET", <<"url", "header", "bad", "empty">>),
  Small(Bodyless("GET", <<"url", "header", "fold", "empty">>)),
  Bodyless("GET", <<"empty", "url", "empty">>),
  Bodyless("GET", Parts(12) \o <<"url">>),
  Bodyless("GET", <<"url", "header">> \o Parts(11) \o <<"header", "empty">>),
  Bodyless("GET", <<"url">> \o Parts(9) \o <<"header", "empty">>),
  LongCookie(WithBody(Get, 1)), LongCookie(WithBody(Post, 1)), ManyCookies(Get),
  ManyArguments(WithBody(Post, 1)), ManyArguments([Get EXCEPT !.version = "none"]),
  [PostChunked EXCEPT !.version = "none", !.body = Chunk(1) \o Trailer]}

Pairs == {
  <<[Get EXCEPT !.version = "1.0", !.connection = "keep-alive"], [Get EXCEPT !.connection = "close"]>>,
  <<WithBody(Post, 1), Get>>, <<PostChunked, Get>>}

MCScripts == (c1 :> ({<<a>> : a \in AllAsks} \cup Pairs) @@ c2 :> {<< >>})

(* Its clients keep to HTTP, as the theorems assume of a client.           *)
ASSUME MCFramed == Scripts = MCScripts => ClientsAreFramed

(* A request that expects to be told to go on although it has no body,     *)
(* with the next one behind it.                                            *)
ExpectScripts == (c1 :> {<< [Post EXCEPT !.expect = TRUE], Get >>} @@ c2 :> {<< >>})

(* A cookie for which there is no room, in a request with a body that is   *)
(* no upload.                                                              *)
CookieScripts == (c1 :> {<< LongCookie(WithBody(Get, 1)) >>} @@ c2 :> {<< >>})

(* Empty lines before a request, with more behind it than half a pool.     *)
ResetScripts ==
  (c1 :> {<< Bodyless("GET", <<"empty", "empty", "url", "empty">>), Get, Get, Get, Get, Get >>} @@ c2 :> {<< >>})
=============================================================================
