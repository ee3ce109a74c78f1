-------------------------- MODULE MhdCallbackProofs --------------------------
(***************************************************************************)
(* libmicrohttpd's thread keeps in step with clients that keep to HTTP,    *)
(* and keeps to the contract of MHD_AccessHandlerCallback, for any number  *)
(* of connections, any requests in any portions and any size of the pool.  *)
(*                                                                         *)
(* Both follow from where each connection is in what its client sends:     *)
(* what it has read ends inside the head, the body or the trailer of the   *)
(* request it works on as its state says, and what it has given to the     *)
(* application is the data in that part of the body.                       *)
(***************************************************************************)
EXTENDS MhdDaemonProofs

(* Where the request r of a client ends in what it sends.                  *)
EndOf(s, r) == Cardinality({i \in 1 .. Len(Stream(s)) : Stream(s)[i].id <= r})

(* The requests of a client lie one after the other,                       *)
LEMMA StreamEnds ==
  ASSUME NEW s \in Seq(Request)
  PROVE  /\ Len(s) \in Nat /\ Len(Stream(s)) \in Nat /\ Stream(s) \in Seq(Byte(Len(s)))
         /\ EndOf(s, 0) = 0 /\ EndOf(s, Len(s)) = Len(Stream(s))
         /\ \A r \in 0 .. Len(s) : /\ EndOf(s, r) \in 0 .. Len(Stream(s))
                                   /\ \A i \in 1 .. Len(Stream(s)) : Stream(s)[i].id <= r <=> i <= EndOf(s, r)
         /\ \A r \in 1 .. Len(s) : /\ EndOf(s, r) = EndOf(s, r - 1) + Len(Bytes(s[r], r))
                                   /\ \A j \in 1 .. Len(Bytes(s[r], r)) :
                                        Stream(s)[EndOf(s, r - 1) + j] = Bytes(s[r], r)[j]
  <1> DEFINE n == Len(s)
             b == [i \in 1 .. Len(s) |-> Bytes(s[i], i)]
             f == Stream(s)
  <1>1. n \in Nat /\ b \in Seq(Seq(Byte(n))) /\ Len(b) = n /\ f = FlattenSeq(b)
    BY StreamRow
  <1>2. f \in Seq(Byte(n)) /\ Len(f) \in Nat
    BY StreamType, LenProperties
  <1>3. PICK ends : AreEnds(ends, b, f)
    BY <1>1, FlattenEnds
  <1>4. \A r \in 1 .. n : b[r] = Bytes(s[r], r)
    OBVIOUS
  <1> HIDE DEF b
  <1>5. /\ ends \in [0 .. n -> Nat] /\ ends[0] = 0 /\ ends[n] = Len(f)
        /\ \A r \in 1 .. n : ends[r] = ends[r - 1] + Len(b[r]) /\ \A j \in 1 .. Len(b[r]) : f[ends[r - 1] + j] = b[r][j]
        /\ \A m \in 0 .. n : \A r \in 0 .. m : ends[r] <= ends[m]
        /\ \A i \in 1 .. Len(f) : \E r \in 1 .. n : ends[r - 1] < i /\ i <= ends[r]
    BY <1>1, <1>3 DEF AreEnds
  <1>0. \A r \in 0 .. n : ends[r] \in Nat
    BY <1>5
  <1>14. \A r \in 1 .. n : r - 1 \in 0 .. n /\ r \in 0 .. n
    BY <1>1
  <1>6. \A r \in 1 .. n : \A j \in 1 .. Len(b[r]) : b[r][j].id = r
    <2> SUFFICES ASSUME NEW r \in 1 .. n, NEW j \in 1 .. Len(b[r]) PROVE b[r][j].id = r
      OBVIOUS
    <2> DEFINE a == s[r]
               h == Len(a.head)
               d == Len(a.body)
    <2>1. a \in Request
      BY ElementOfSeq
    <2> HIDE DEF n, a
    <2>0. /\ h \in Nat /\ d \in Nat /\ Len(Bytes(a, r)) = h + d
          /\ \A k \in 1 .. h : Bytes(a, r)[k].id = r
          /\ \A k \in 1 .. d : Bytes(a, r)[h + k].id = r
      BY <1>1, <2>1, BytesOf, ZenonT(60)
    <2> HIDE DEF h, d
    <2>2. /\ h \in Nat /\ d \in Nat /\ Len(b[r]) = h + d
          /\ \A k \in 1 .. h : b[r][k].id = r
          /\ \A k \in 1 .. d : b[r][h + k].id = r
      BY <1>4, <2>0 DEF a
    <2>3. CASE j <= h
      BY <2>2, <2>3
    <2>4. CASE ~(j <= h)
      <3>1. j - h \in 1 .. d /\ h + (j - h) = j
        BY <2>2, <2>4
      <3>2. QED
        BY <2>2, <3>1
    <2>5. QED
      BY <2>3, <2>4
  <1>7. ASSUME NEW i \in 1 .. Len(f) PROVE \E r \in 1 .. n : f[i].id = r /\ ends[r - 1] < i /\ i <= ends[r]
    <2>1. PICK r \in 1 .. n : ends[r - 1] < i /\ i <= ends[r]
      BY <1>5
    <2>2. r - 1 \in 0 .. n /\ ends[r - 1] \in Nat
      BY <1>0, <1>14
    <2>3. ends[r] = ends[r - 1] + Len(b[r])
      BY <1>5
    <2> DEFINE j == i - ends[r - 1]
    <2>4. Len(b[r]) \in Nat
      BY <1>1, ElementOfSeq, LenProperties
    <2>5. j \in 1 .. Len(b[r]) /\ ends[r - 1] + j = i
      BY <1>2, <2>1, <2>2, <2>3, <2>4
    <2> HIDE DEF j
    <2>6. f[i] = b[r][j]
      BY <1>5, <2>5
    <2>7. QED
      BY <1>6, <2>1, <2>5, <2>6
  <1>8. ASSUME NEW r \in 0 .. n, NEW i \in 1 .. Len(f) PROVE f[i].id <= r <=> i <= ends[r]
    <2>1. PICK q \in 1 .. n : f[i].id = q /\ ends[q - 1] < i /\ i <= ends[q]
      BY <1>7
    <2>2. ends[q - 1] \in Nat /\ ends[q] \in Nat /\ ends[r] \in Nat
      BY <1>0, <1>14
    <2>3. CASE q <= r
      <3>1. ends[q] <= ends[r]
        BY <1>1, <1>5, <2>3
      <3>2. QED
        BY <1>2, <2>1, <2>2, <2>3, <3>1
    <2>4. CASE ~(q <= r)
      <3>1. q - 1 \in 0 .. n /\ r \in 0 .. q - 1
        BY <1>1, <2>4
      <3>2. ends[r] <= ends[q - 1]
        BY <1>5, <3>1
      <3>3. QED
        BY <1>1, <1>2, <2>1, <2>2, <2>4, <3>2
    <2>5. QED
      BY <2>3, <2>4
  <1>9. ASSUME NEW r \in 0 .. n PROVE EndOf(s, r) = ends[r] /\ ends[r] \in 0 .. Len(f)
    <2>1. ends[r] \in Nat /\ ends[r] <= Len(f)
      <3>1. n \in 0 .. n /\ r \in 0 .. n
        BY <1>1
      <3>2. ends[r] <= ends[n]
        BY <1>5, <3>1
      <3>3. QED
        BY <1>0, <1>5, <3>2
    <2>2. {i \in 1 .. Len(f) : f[i].id <= r} = 1 .. ends[r]
      <3>1. \A i : i \in 1 .. Len(f) /\ i <= ends[r] <=> i \in 1 .. ends[r]
        BY <1>2, <2>1
      <3>2. QED
        BY <1>8, <3>1
    <2>3. Cardinality(1 .. ends[r]) = ends[r]
      BY <2>1, FS_Interval, SMTT(60)
    <2>4. QED
      <3>1. EndOf(s, r) = ends[r]
        BY <2>2, <2>3 DEF EndOf
      <3>2. QED
        BY <1>2, <2>1, <3>1
  <1> HIDE DEF f
  <1>10. \A r \in 0 .. n : EndOf(s, r) \in 0 .. Len(f) /\ \A i \in 1 .. Len(f) : f[i].id <= r <=> i <= EndOf(s, r)
    BY <1>8, <1>9
  <1>11. \A r \in 1 .. n : EndOf(s, r) = ends[r] /\ EndOf(s, r - 1) = ends[r - 1]
    BY <1>1, <1>9
  <1>12. EndOf(s, 0) = 0 /\ EndOf(s, n) = Len(f)
    BY <1>1, <1>5, <1>9
  <1>13. QED
    BY <1>1, <1>2, <1>4, <1>5, <1>10, <1>11, <1>12, ZenonT(60) DEF f

(* each one its head before its body.                                      *)
LEMMA RequestAt ==
  ASSUME NEW s \in Seq(Request), NEW r \in 1 .. Len(s)
  PROVE  LET a == s[r]
             from == EndOf(s, r - 1)
             h == Len(a.head)
             d == Len(a.body)
         IN  /\ a \in Request /\ r \in Nat /\ from \in Nat /\ h \in Nat /\ d \in Nat
             /\ EndOf(s, r) = from + h + d /\ from + h + d <= Len(Stream(s)) /\ Len(Stream(s)) \in Nat
             /\ \A i \in 1 .. h : Stream(s)[from + i].kind = a.head[i] /\ Stream(s)[from + i].id = r
             /\ \A i \in 1 .. d : /\ Stream(s)[from + h + i].kind = a.body[i].kind
                                  /\ Stream(s)[from + h + i].n = a.body[i].n
                                  /\ Stream(s)[from + h + i].id = r
             /\ r = Len(s) => EndOf(s, r) = Len(Stream(s))
  <1> DEFINE a == s[r]
             b == Bytes(a, r)
             from == EndOf(s, r - 1)
             h == Len(a.head)
             d == Len(a.body)
             S == Stream(s)
  <1>1. a \in Request /\ Len(s) \in Nat
    BY ElementOfSeq, LenProperties
  <1>2. /\ h \in Nat /\ d \in Nat /\ Len(b) = h + d
        /\ \A j \in 1 .. h : b[j].kind = a.head[j] /\ b[j].id = r
        /\ \A j \in 1 .. d : b[h + j].kind = a.body[j].kind /\ b[h + j].n = a.body[j].n /\ b[h + j].id = r
    BY <1>1, BytesOf, ZenonT(60)
  <1>3. /\ EndOf(s, r) = from + Len(b) /\ \A j \in 1 .. Len(b) : S[from + j] = b[j]
        /\ EndOf(s, r) \in 0 .. Len(S) /\ from \in Nat /\ Len(S) \in Nat /\ EndOf(s, Len(s)) = Len(S)
    BY <1>1, StreamEnds, SMTT(60)
  <1> HIDE DEF a, b, from, h, d, S
  <1>4. EndOf(s, r) = from + h + d
    BY <1>2, <1>3
  <1>5. \A i \in 1 .. h : S[from + i].kind = a.head[i] /\ S[from + i].id = r
    BY <1>2, <1>3, SMTT(60)
  <1>6. ASSUME NEW i \in 1 .. d PROVE S[from + h + i].kind = a.body[i].kind /\ S[from + h + i].n = a.body[i].n
                                      /\ S[from + h + i].id = r
    <2>1. h + i \in 1 .. Len(b) /\ from + (h + i) = from + h + i
      BY <1>2, <1>3
    <2>2. S[from + h + i] = b[h + i]
      BY <1>3, <2>1
    <2>3. QED
      BY <1>2, <2>2
  <1>7. QED
    <2>1. from + h + d <= Len(S) /\ r \in Nat /\ (r = Len(s) => EndOf(s, r) = Len(S))
      BY <1>1, <1>3, <1>4
    <2>2. QED
      BY <1>1, <1>2, <1>3, <1>4, <1>5, <1>6, <2>1 DEF a, from, h, d, S

-----------------------------------------------------------------------------
(* What is in the read buffer, what is on the wire and what the client has *)
(* not sent yet follow each other in what it sends, after the first p      *)
(* bytes.                                                                  *)
Follows(buf, w, t, s, p) ==
  LET S == Stream(s)
      B == Byte(Len(s))
  IN  /\ buf \in Seq(B) /\ w \in Seq(B) /\ t \in Seq(B)
      /\ p \in Nat /\ p + Len(buf) + Len(w) + Len(t) = Len(S)
      /\ \A i \in 1 .. Len(buf) : buf[i] = S[p + i]
      /\ \A i \in 1 .. Len(w) : w[i] = S[p + Len(buf) + i]
      /\ \A i \in 1 .. Len(t) : t[i] = S[p + Len(buf) + Len(w) + i]

(* The first n elements of a sequence, and the others.                     *)
LEMMA Parted ==
  ASSUME NEW B, NEW q \in Seq(B), NEW n \in 0 .. Len(q)
  PROVE  /\ Len(q) \in Nat
         /\ SubSeq(q, 1, n) \in Seq(B) /\ Len(SubSeq(q, 1, n)) = n
         /\ \A i \in 1 .. n : SubSeq(q, 1, n)[i] = q[i]
         /\ SubSeq(q, n + 1, Len(q)) \in Seq(B) /\ Len(SubSeq(q, n + 1, Len(q))) = Len(q) - n
         /\ \A i \in 1 .. Len(q) - n : SubSeq(q, n + 1, Len(q))[i] = q[n + i]
  <1>1. Len(q) \in Nat /\ n \in Nat /\ \A i \in 1 .. Len(q) : q[i] \in B
    BY LenProperties, ElementOfSeq
  <1>2. \A i \in 1 .. n : q[i] \in B
    BY <1>1
  <1>3. \A i \in n + 1 .. Len(q) : q[i] \in B
    BY <1>1
  <1>4. /\ SubSeq(q, 1, n) \in Seq(B) /\ Len(SubSeq(q, 1, n)) = (IF 1 <= n THEN n - 1 + 1 ELSE 0)
        /\ \A i \in 1 .. n - 1 + 1 : SubSeq(q, 1, n)[i] = q[1 + i - 1]
    BY <1>1, <1>2, SubSeqProperties
  <1>5. /\ SubSeq(q, n + 1, Len(q)) \in Seq(B)
        /\ Len(SubSeq(q, n + 1, Len(q))) = (IF n + 1 <= Len(q) THEN Len(q) - (n + 1) + 1 ELSE 0)
        /\ \A i \in 1 .. Len(q) - (n + 1) + 1 : SubSeq(q, n + 1, Len(q))[i] = q[(n + 1) + i - 1]
    BY <1>1, <1>3, SubSeqProperties
  <1> DEFINE a == SubSeq(q, 1, n)
             b == SubSeq(q, n + 1, Len(q))
  <1> HIDE DEF a, b
  <1>6. a \in Seq(B) /\ Len(a) = n /\ \A i \in 1 .. n : a[i] = q[i]
    BY <1>1, <1>4 DEF a
  <1>7. b \in Seq(B) /\ Len(b) = Len(q) - n /\ \A i \in 1 .. Len(q) - n : b[i] = q[n + i]
    BY <1>1, <1>5 DEF b
  <1>8. QED
    BY <1>1, <1>6, <1>7 DEF a, b

(* The first n bytes of the read buffer are taken,                         *)
LEMMA FollowsDrop ==
  ASSUME NEW buf, NEW w, NEW t, NEW s, NEW p, Follows(buf, w, t, s, p), NEW n \in 0 .. Len(buf)
  PROVE  Follows(SubSeq(buf, n + 1, Len(buf)), w, t, s, p + n)
  <1> DEFINE S == Stream(s)
             B == Byte(Len(s))
             b == SubSeq(buf, n + 1, Len(buf))
             L == Len(buf)
             W == Len(w)
  <1>1. /\ buf \in Seq(B) /\ w \in Seq(B) /\ t \in Seq(B) /\ p \in Nat /\ p + L + W + Len(t) = Len(S)
        /\ \A i \in 1 .. L : buf[i] = S[p + i]
        /\ \A i \in 1 .. W : w[i] = S[p + L + i]
        /\ \A i \in 1 .. Len(t) : t[i] = S[p + L + W + i]
    BY DEF Follows
  <1>2. L \in Nat /\ n \in Nat /\ W \in Nat /\ Len(t) \in Nat
    BY <1>1, LenProperties
  <1>3. b \in Seq(B) /\ Len(b) = L - n /\ \A i \in 1 .. L - n : b[i] = buf[n + i]
    BY <1>1, Parted
  <1> HIDE DEF S, B, b, L, W
  <1>4. n <= L
    BY DEF L
  <1>5. ASSUME NEW i \in 1 .. Len(b) PROVE b[i] = S[p + n + i]
    <2>1. n + i \in 1 .. L /\ p + (n + i) = p + n + i /\ i \in 1 .. L - n
      BY <1>1, <1>2, <1>3, <1>4
    <2>2. QED
      BY <1>1, <1>3, <2>1
  <1>6. p + n + Len(b) = p + L /\ p + n \in Nat
    BY <1>1, <1>2, <1>3, <1>4, SMTT(60)
  <1>7. QED
    BY <1>1, <1>3, <1>5, <1>6 DEF Follows, S, B, b, W

(* or recv takes the first n bytes from the wire,                          *)
LEMMA FollowsRead ==
  ASSUME NEW buf, NEW w, NEW t, NEW s, NEW p, Follows(buf, w, t, s, p), NEW n \in 0 .. Len(w)
  PROVE  Follows(buf \o SubSeq(w, 1, n), SubSeq(w, n + 1, Len(w)), t, s, p)
  <1> DEFINE S == Stream(s)
             B == Byte(Len(s))
             a == SubSeq(w, 1, n)
             b == SubSeq(w, n + 1, Len(w))
             c == buf \o a
             L == Len(buf)
             W == Len(w)
  <1>1. /\ buf \in Seq(B) /\ w \in Seq(B) /\ t \in Seq(B) /\ p \in Nat /\ p + L + W + Len(t) = Len(S)
        /\ \A i \in 1 .. L : buf[i] = S[p + i]
        /\ \A i \in 1 .. W : w[i] = S[p + L + i]
        /\ \A i \in 1 .. Len(t) : t[i] = S[p + L + W + i]
    BY DEF Follows
  <1>2. L \in Nat /\ n \in Nat /\ W \in Nat /\ Len(t) \in Nat /\ n <= W
    BY <1>1, LenProperties
  <1>3. /\ a \in Seq(B) /\ Len(a) = n /\ \A i \in 1 .. n : a[i] = w[i]
        /\ b \in Seq(B) /\ Len(b) = W - n /\ \A i \in 1 .. W - n : b[i] = w[n + i]
    BY <1>1, Parted
  <1> HIDE DEF S, B, a, b, L, W
  <1>4. c \in Seq(B) /\ Len(c) = L + n /\ \A i \in 1 .. L + n : c[i] = IF i <= L THEN buf[i] ELSE a[i - L]
    BY <1>1, <1>3, ConcatProperties, SMTT(60) DEF L
  <1> HIDE DEF c
  <1>5. ASSUME NEW i \in 1 .. Len(c) PROVE c[i] = S[p + i]
    <2>1. CASE i <= L
      BY <1>1, <1>2, <1>4, <2>1, SMTT(60)
    <2>2. CASE ~(i <= L)
      <3>1. i - L \in 1 .. n /\ i - L \in 1 .. W /\ p + L + (i - L) = p + i /\ i \in 1 .. L + n
        BY <1>1, <1>2, <1>4, <2>2
      <3>2. c[i] = a[i - L]
        BY <1>4, <2>2, <3>1
      <3>3. a[i - L] = w[i - L] /\ w[i - L] = S[p + L + (i - L)]
        BY <1>1, <1>3, <3>1
      <3>4. QED
        BY <3>1, <3>2, <3>3
    <2>3. QED
      BY <2>1, <2>2
  <1>6. ASSUME NEW i \in 1 .. Len(b) PROVE b[i] = S[p + Len(c) + i]
    <2>0. i \in 1 .. W - n /\ p \in Nat
      BY <1>1, <1>3
    <2>1. n + i \in 1 .. W /\ p + L + (n + i) = p + (L + n) + i
      BY <1>2, <2>0
    <2>2. b[i] = w[n + i] /\ w[n + i] = S[p + L + (n + i)]
      BY <1>1, <1>3, <2>0, <2>1
    <2>3. QED
      BY <1>4, <2>1, <2>2
  <1>7. p + Len(c) + Len(b) = p + L + W
    BY <1>1, <1>2, <1>3, <1>4, SMTT(60)
  <1>8. QED
    BY <1>1, <1>3, <1>4, <1>5, <1>6, <1>7, ZenonT(60) DEF Follows, S, B, a, b, c

(* or the client sends the next n bytes.                                   *)
LEMMA FollowsSend ==
  ASSUME NEW buf, NEW w, NEW t, NEW s, NEW p, Follows(buf, w, t, s, p), NEW n \in 0 .. Len(t)
  PROVE  Follows(buf, w \o SubSeq(t, 1, n), SubSeq(t, n + 1, Len(t)), s, p)
  <1> DEFINE S == Stream(s)
             B == Byte(Len(s))
             a == SubSeq(t, 1, n)
             b == SubSeq(t, n + 1, Len(t))
             c == w \o a
             L == Len(buf)
             W == Len(w)
             T == Len(t)
  <1>1. /\ buf \in Seq(B) /\ w \in Seq(B) /\ t \in Seq(B) /\ p \in Nat /\ p + L + W + T = Len(S)
        /\ \A i \in 1 .. L : buf[i] = S[p + i]
        /\ \A i \in 1 .. W : w[i] = S[p + L + i]
        /\ \A i \in 1 .. T : t[i] = S[p + L + W + i]
    BY DEF Follows
  <1>2. L \in Nat /\ n \in Nat /\ W \in Nat /\ T \in Nat /\ n <= T
    BY <1>1, LenProperties
  <1>3. /\ a \in Seq(B) /\ Len(a) = n /\ \A i \in 1 .. n : a[i] = t[i]
        /\ b \in Seq(B) /\ Len(b) = T - n /\ \A i \in 1 .. T - n : b[i] = t[n + i]
    BY <1>1, Parted
  <1> HIDE DEF S, B, a, b, L, W, T
  <1>4. c \in Seq(B) /\ Len(c) = W + n /\ \A i \in 1 .. W + n : c[i] = IF i <= W THEN w[i] ELSE a[i - W]
    <2>0. w \in Seq(B) /\ a \in Seq(B)
      BY <1>1, <1>3
    <2>1. /\ w \o a \in Seq(B) /\ Len(w \o a) = Len(w) + Len(a)
          /\ \A i \in 1 .. Len(w) + Len(a) : (w \o a)[i] = IF i <= Len(w) THEN w[i] ELSE a[i - Len(w)]
      BY <2>0, ConcatProperties
    <2>2. QED
      BY <1>3, <2>1 DEF W
  <1> HIDE DEF c
  <1>5. ASSUME NEW i \in 1 .. Len(c) PROVE c[i] = S[p + L + i]
    <2>0. i \in 1 .. W + n
      BY <1>4
    <2>1. CASE i <= W
      <3>1. i \in 1 .. W
        BY <1>2, <2>0, <2>1
      <3>2. QED
        BY <1>1, <1>4, <2>0, <2>1, <3>1
    <2>2. CASE ~(i <= W)
      <3>1. i - W \in 1 .. n /\ i - W \in 1 .. T /\ p + L + W + (i - W) = p + L + i
        BY <1>1, <1>2, <2>0, <2>2
      <3>2. c[i] = a[i - W]
        BY <1>4, <2>0, <2>2
      <3>3. a[i - W] = t[i - W] /\ t[i - W] = S[p + L + W + (i - W)]
        BY <1>1, <1>3, <3>1
      <3>4. QED
        BY <3>1, <3>2, <3>3
    <2>3. QED
      BY <2>1, <2>2
  <1>6. ASSUME NEW i \in 1 .. Len(b) PROVE b[i] = S[p + L + Len(c) + i]
    <2>0. i \in 1 .. T - n /\ p \in Nat
      BY <1>1, <1>3
    <2>1. n + i \in 1 .. T /\ p + L + W + (n + i) = p + L + (W + n) + i
      BY <1>2, <2>0
    <2>2. b[i] = t[n + i] /\ t[n + i] = S[p + L + W + (n + i)]
      BY <1>1, <1>3, <2>0, <2>1
    <2>3. QED
      BY <1>4, <2>1, <2>2
  <1>7. p + L + Len(c) + Len(b) = p + L + W + T
    BY <1>1, <1>2, <1>3, <1>4, SMTT(60)
  <1>8. QED
    BY <1>1, <1>3, <1>4, <1>5, <1>6, <1>7 DEF Follows, S, B, a, b, c, L

(* Before anything is sent.                                                *)
LEMMA FollowsStart == ASSUME NEW s \in Seq(Request) PROVE Follows(<< >>, << >>, Stream(s), s, 0)
  <1>1. Stream(s) \in Seq(Byte(Len(s))) /\ Len(Stream(s)) \in Nat
    BY StreamType, LenProperties
  <1>2. << >> \in Seq(Byte(Len(s))) /\ Len(<< >>) = 0
    BY EmptySeq
  <1> DEFINE S == Stream(s)
             B == Byte(Len(s))
  <1> HIDE DEF S, B
  <1>3. \A i \in 1 .. Len(S) : S[i] = S[0 + 0 + 0 + i]
    BY <1>1 DEF S
  <1>4. QED
    BY <1>1, <1>2, <1>3 DEF Follows, S, B

(* What follows is all that is left.                                       *)
LEMMA FollowsRest ==
  ASSUME NEW buf, NEW w, NEW t, NEW s \in Seq(Request), NEW p, Follows(buf, w, t, s, p)
  PROVE  p \in 0 .. Len(Stream(s)) /\ buf \o w \o t = SubSeq(Stream(s), p + 1, Len(Stream(s)))
  <1> DEFINE S == Stream(s)
             B == Byte(Len(s))
             L == Len(buf)
             W == Len(w)
             T == Len(t)
             c == buf \o w
             d == c \o t
             r == SubSeq(S, p + 1, Len(S))
  <1>1. /\ buf \in Seq(B) /\ w \in Seq(B) /\ t \in Seq(B) /\ p \in Nat /\ p + L + W + T = Len(S)
        /\ \A i \in 1 .. L : buf[i] = S[p + i]
        /\ \A i \in 1 .. W : w[i] = S[p + L + i]
        /\ \A i \in 1 .. T : t[i] = S[p + L + W + i]
    BY DEF Follows
  <1>2. L \in Nat /\ W \in Nat /\ T \in Nat /\ S \in Seq(B) /\ Len(S) \in Nat
    BY <1>1, LenProperties, StreamType
  <1>3. c \in Seq(B) /\ Len(c) = L + W /\ \A i \in 1 .. L + W : c[i] = IF i <= L THEN buf[i] ELSE w[i - L]
    BY <1>1, ConcatProperties
  <1> HIDE DEF S, B, L, W, T, c
  <1>4. d \in Seq(B) /\ Len(d) = L + W + T /\ \A i \in 1 .. L + W + T : d[i] = IF i <= L + W THEN c[i] ELSE t[i - (L + W)]
    <2>1. /\ c \o t \in Seq(B) /\ Len(c \o t) = Len(c) + Len(t)
          /\ \A i \in 1 .. Len(c) + Len(t) : (c \o t)[i] = IF i <= Len(c) THEN c[i] ELSE t[i - Len(c)]
      BY <1>1, <1>3, ConcatProperties, SMTT(60)
    <2>2. QED
      BY <1>3, <2>1 DEF T
  <1>5. p \in 0 .. Len(S)
    BY <1>1, <1>2, SMTT(60)
  <1>6. r \in Seq(B) /\ Len(r) = Len(S) - p /\ \A i \in 1 .. Len(S) - p : r[i] = S[p + i]
    BY <1>2, <1>5, Parted
  <1> HIDE DEF d, r
  <1>7. ASSUME NEW i \in 1 .. Len(d) PROVE d[i] = r[i]
    <2>5. /\ p \in Nat /\ L \in Nat /\ W \in Nat /\ T \in Nat /\ Len(S) - p = L + W + T
          /\ i \in 1 .. L + W + T
      BY <1>1, <1>2, <1>4
    <2>0. i \in 1 .. Len(S) - p
      BY <2>5
    <2>1. CASE i <= L
      <3>1. i \in 1 .. L /\ i \in 1 .. L + W /\ i <= L + W
        BY <2>1, <2>5
      <3>2. d[i] = c[i] /\ c[i] = buf[i] /\ buf[i] = S[p + i]
        BY <1>1, <1>3, <1>4, <2>1, <2>5, <3>1
      <3>3. QED
        BY <1>6, <2>0, <3>2
    <2>2. CASE L < i /\ i <= L + W
      <3>1. i - L \in 1 .. W /\ p + L + (i - L) = p + i /\ i \in 1 .. L + W /\ ~(i <= L) /\ i \in 1 .. L + W + T
        BY <2>2, <2>5
      <3>2. d[i] = c[i]
        BY <1>4, <2>2, <3>1
      <3>4. c[i] = w[i - L]
        BY <1>3, <3>1
      <3>5. w[i - L] = S[p + i]
        BY <1>1, <3>1
      <3>3. QED
        BY <1>6, <2>0, <3>2, <3>4, <3>5
    <2>3. CASE L + W < i
      <3>1. i - (L + W) \in 1 .. T /\ p + L + W + (i - (L + W)) = p + i /\ ~(i <= L + W) /\ i \in 1 .. L + W + T
        BY <2>3, <2>5
      <3>2. d[i] = t[i - (L + W)] /\ t[i - (L + W)] = S[p + i]
        BY <1>1, <1>4, <3>1
      <3>3. QED
        BY <1>6, <2>0, <3>2
    <2>4. QED
      BY <1>2, <1>4, <2>1, <2>2, <2>3
  <1>8. Len(d) = Len(r)
    <2>1. p \in Nat /\ p + L + W + T = Len(S) /\ Len(d) = L + W + T /\ Len(r) = Len(S) - p
      BY <1>1, <1>4, <1>6
    <2>2. QED
      BY <1>2, <2>1
  <1>9. d = r
    BY <1>4, <1>6, <1>7, <1>8, SeqEqual
  <1>10. QED
    BY <1>5, <1>9 DEF S, c, d, r

-----------------------------------------------------------------------------
(* How much of the data of a request lies in the first m bytes of its      *)
(* body.                                                                   *)
DataIn(a, m) == Cardinality({i \in 1 .. m : a.body[i].kind = "data"})

(* It grows by the bytes that are data.                                    *)
LEMMA DataInGrows ==
  ASSUME NEW a, Len(a.body) \in Nat
  PROVE  /\ DataIn(a, 0) = 0 /\ DataIn(a, Len(a.body)) = BodySize(a)
         /\ \A m \in Nat : DataIn(a, m) \in Nat
         /\ \A m, n \in Nat : m <= n =>
              /\ DataIn(a, m) <= DataIn(a, n)
              /\ IsData(a, m + 1, n) => DataIn(a, n) = DataIn(a, m) + (n - m)
              /\ (\A i \in m + 1 .. n : a.body[i].kind # "data") => DataIn(a, n) = DataIn(a, m)
  <1> DEFINE D(m) == {i \in 1 .. m : a.body[i].kind = "data"}
             R(m, n) == {i \in m + 1 .. n : a.body[i].kind = "data"}
  <1>1. DataIn(a, 0) = 0
    <2>1. D(0) = {}
      OBVIOUS
    <2>2. QED
      BY <2>1, FS_EmptySet DEF DataIn
  <1>2. DataIn(a, Len(a.body)) = BodySize(a)
    BY DEF DataIn, BodySize
  <1>3. ASSUME NEW m \in Nat PROVE IsFiniteSet(D(m)) /\ DataIn(a, m) = Cardinality(D(m)) /\ DataIn(a, m) \in Nat
    <2>1. IsFiniteSet(1 .. m)
      BY FS_Interval
    <2>2. D(m) \in SUBSET (1 .. m)
      OBVIOUS
    <2>3. IsFiniteSet(D(m))
      BY <2>1, <2>2, FS_Subset
    <2>4. QED
      BY <2>3, FS_CardinalityType DEF DataIn
  <1>4. ASSUME NEW m \in Nat, NEW n \in Nat, m <= n
        PROVE  /\ DataIn(a, m) <= DataIn(a, n)
               /\ IsData(a, m + 1, n) => DataIn(a, n) = DataIn(a, m) + (n - m)
               /\ (\A i \in m + 1 .. n : a.body[i].kind # "data") => DataIn(a, n) = DataIn(a, m)
    <2>1. IsFiniteSet(m + 1 .. n) /\ Cardinality(m + 1 .. n) = n - m
      <3>1. /\ IsFiniteSet(m + 1 .. n)
            /\ Cardinality(m + 1 .. n) = IF m + 1 > n THEN 0 ELSE n - (m + 1) + 1
        BY FS_Interval, SMTT(60)
      <3>2. (IF m + 1 > n THEN 0 ELSE n - (m + 1) + 1) = n - m
        BY <1>4
      <3>3. QED
        BY <3>1, <3>2
    <2>2. R(m, n) \in SUBSET (m + 1 .. n)
      OBVIOUS
    <2>3. IsFiniteSet(R(m, n)) /\ Cardinality(R(m, n)) \in Nat
      <3>1. IsFiniteSet(R(m, n))
        BY <2>1, <2>2, FS_Subset
      <3>2. QED
        BY <3>1, FS_CardinalityType
    <2>4. D(n) = D(m) \cup R(m, n) /\ D(m) \cap R(m, n) = {}
      <3>1. \A i : i \in 1 .. n <=> i \in 1 .. m \/ i \in m + 1 .. n
        BY <1>4
      <3>2. \A i : ~(i \in 1 .. m /\ i \in m + 1 .. n)
        BY <1>4
      <3>3. QED
        BY <3>1, <3>2
    <2>5. Cardinality(D(n)) = Cardinality(D(m)) + Cardinality(R(m, n)) - Cardinality({})
      <3>1. IsFiniteSet(D(m)) /\ IsFiniteSet(R(m, n))
        BY <1>3, <2>3
      <3> HIDE DEF D, R
      <3>2. Cardinality(D(m) \cup R(m, n)) = Cardinality(D(m)) + Cardinality(R(m, n)) - Cardinality(D(m) \cap R(m, n))
        BY <3>1, FS_Union
      <3>3. QED
        BY <2>4, <3>2
    <2>6. DataIn(a, n) = DataIn(a, m) + Cardinality(R(m, n)) /\ DataIn(a, m) \in Nat /\ DataIn(a, n) \in Nat
      <3>1. /\ DataIn(a, n) = Cardinality(D(n)) /\ DataIn(a, m) = Cardinality(D(m))
            /\ DataIn(a, m) \in Nat /\ DataIn(a, n) \in Nat
        BY <1>3
      <3>2. Cardinality({}) = 0
        BY FS_EmptySet
      <3> HIDE DEF D, R
      <3>3. QED
        BY <2>3, <2>5, <3>1, <3>2
    <2>7. IsData(a, m + 1, n) => R(m, n) = m + 1 .. n
      BY DEF IsData
    <2>8. (\A i \in m + 1 .. n : a.body[i].kind # "data") => R(m, n) = {}
      OBVIOUS
    <2> HIDE DEF R
    <2>9. IsData(a, m + 1, n) => DataIn(a, n) = DataIn(a, m) + (n - m)
      BY <2>1, <2>6, <2>7
    <2>10. (\A i \in m + 1 .. n : a.body[i].kind # "data") => DataIn(a, n) = DataIn(a, m)
      <3>1. Cardinality({}) = 0
        BY FS_EmptySet
      <3>2. ASSUME R(m, n) = {} PROVE DataIn(a, n) = DataIn(a, m)
        BY <2>6, <3>1, <3>2
      <3>3. QED
        BY <2>8, <3>2
    <2>11. DataIn(a, m) <= DataIn(a, n)
      BY <2>3, <2>6
    <2>12. QED
      BY <2>9, <2>10, <2>11
  <1>5. \A m \in Nat : DataIn(a, m) \in Nat
    BY <1>3
  <1> HIDE DEF D, R
  <1>6. QED
    BY <1>1, <1>2, <1>4, <1>5

-----------------------------------------------------------------------------
(* Where a connection is in the request a, of which it has read m bytes or *)
(* n bytes of the body.  In the head, the request line has been read:      *)
AtHead(a, m) ==
  /\ m \in 0 .. Len(a.head) /\ HasBegun(a.head, m + 1)
  /\ m = Len(a.head) => ~Complete(a)

(* in the body it knows how much is left, of the current chunk at least,   *)
(* and has given what there was to the application.                        *)
AtBody(k, a, n) ==
  /\ n \in 0 .. Len(a.body) /\ k.given = DataIn(a, n)
  /\ k.chunked = (a.encoding = "chunked")
  /\ a.encoding = "none" => k.remaining = Len(a.body) - n
  /\ a.encoding = "chunked" =>
       \/ /\ k.remaining = UNKNOWN /\ k.chunk \in Nat
          /\ \E lines \in SUBSET (1 .. Len(a.body)) : AreChunks(a, lines) /\ n + k.chunk + 1 \in lines
          /\ IsData(a, n + 1, n + k.chunk)
       \/ k.remaining = 0 /\ IsTrailer(a, n + 1)
  /\ a.encoding \notin {"none", "chunked"} => k.remaining = UNKNOWN

(* Where the next line ends.                                               *)
NextEnd(s, p, q) ==
  /\ p \in Nat /\ q \in Nat /\ p < q /\ q <= Len(Stream(s)) /\ Stream(s)[q].kind \in LineEnds
  /\ \A i \in p + 1 .. q - 1 : Stream(s)[i].kind \notin LineEnds

(* get_next_header_line finds the first end of a line in the buffer.       *)
LEMMA LineIsNext ==
  ASSUME NEW k, "buf" \in DOMAIN k, NEW w, NEW t, NEW s, NEW p, Follows(k.buf, w, t, s, p), HasLine(k)
  PROVE  /\ NextEnd(s, p, p + LineLength(k)) /\ Line(k) = Stream(s)[p + LineLength(k)]
         /\ Follows(WithoutLine(k).buf, w, t, s, p + LineLength(k))
  <1> DEFINE I == {i \in 1 .. Len(k.buf) : k.buf[i].kind \in LineEnds}
             l == LineLength(k)
             S == Stream(s)
             L == Len(k.buf)
  <1>1. l = IF I # {} THEN Min(I) ELSE 0
    BY DEF LineLength, SelectInSeq
  <1>2. I \subseteq Nat /\ I # {}
    BY DEF HasLine
  <1>3. l \in I /\ \A i \in I : l <= i
    <2>1. \E x \in I : \A y \in I : x <= y
      BY <1>2, LeastOf
    <2> HIDE DEF I
    <2>2. QED
      BY <1>1, <1>2, <2>1 DEF Min
  <1>4. /\ p \in Nat /\ L \in Nat /\ Len(w) \in Nat /\ Len(t) \in Nat /\ p + L + Len(w) + Len(t) = Len(S)
        /\ \A i \in 1 .. L : k.buf[i] = S[p + i]
    BY LenProperties DEF Follows
  <1>5. l \in 1 .. L /\ k.buf[l].kind \in LineEnds /\ \A i \in 1 .. L : k.buf[i].kind \in LineEnds => l <= i
    BY <1>3
  <1> HIDE DEF I, l, S
  <1>6. l \in Nat /\ 1 <= l /\ l <= L /\ p + l <= Len(S)
    BY <1>4, <1>5
  <1>7. k.buf[l] = S[p + l]
    BY <1>4, <1>5
  <1>8. ASSUME NEW i \in p + 1 .. p + l - 1 PROVE S[i].kind \notin LineEnds
    <2>1. i - p \in 1 .. L /\ ~(l <= i - p) /\ p + (i - p) = i
      BY <1>4, <1>6
    <2>2. k.buf[i - p] = S[i]
      BY <1>4, <2>1
    <2>3. QED
      BY <1>5, <2>1, <2>2
  <1>9. NextEnd(s, p, p + l)
    BY <1>4, <1>5, <1>6, <1>7, <1>8 DEF NextEnd, S
  <1>10. Line(k) = S[p + l]
    BY <1>7 DEF Line, l
  <1>11. WithoutLine(k).buf = SubSeq(k.buf, l + 1, L)
    BY DEF WithoutLine, l
  <1>12. l \in 0 .. L
    BY <1>4, <1>6
  <1>13. Follows(SubSeq(k.buf, l + 1, L), w, t, s, p + l)
    BY <1>12, FollowsDrop
  <1>14. QED
    BY <1>9, <1>10, <1>11, <1>13 DEF l, S

(* A line that begins in the head of a request ends there.                 *)
LEMMA EndsInHead ==
  ASSUME NEW s \in Seq(Request), IsFramed(s), NEW r \in 1 .. Len(s), NEW m \in 0 .. Len(s[r].head), NEW q,
         m = Len(s[r].head) => ~Complete(s[r]), NextEnd(s, EndOf(s, r - 1) + m, q)
  PROVE  /\ q - EndOf(s, r - 1) \in m + 1 .. Len(s[r].head)
         /\ Stream(s)[q].kind = s[r].head[q - EndOf(s, r - 1)] /\ Stream(s)[q].id = r
  <1> DEFINE a == s[r]
             e == EndOf(s, r - 1)
             h == Len(a.head)
             d == Len(a.body)
             S == Stream(s)
  <1>1. /\ e \in Nat /\ h \in Nat /\ d \in Nat /\ EndOf(s, r) = e + h + d
        /\ \A i \in 1 .. h : S[e + i].kind = a.head[i] /\ S[e + i].id = r
        /\ (r = Len(s) => EndOf(s, r) = Len(S))
    BY RequestAt
  <1>2. ~Complete(a) => a.body = << >> /\ r = Len(s)
    BY DEF IsFramed
  <1>3. /\ q \in Nat /\ e + m < q /\ q <= Len(S)
        /\ \A i \in e + m + 1 .. q - 1 : S[i].kind \notin LineEnds
    BY DEF NextEnd
  <1>4. (Complete(a) => h # 0 /\ a.head[h] = "empty") /\ (m = h => ~Complete(a)) /\ m \in 0 .. h
    BY DEF Complete
  <1>5. a.body = << >> => d = 0
    BY EmptySeq
  <1> HIDE DEF a, e, h, d, S
  <1>6. q <= e + h
    <2>1. CASE ~Complete(a)
      BY <1>1, <1>2, <1>3, <1>5, <2>1
    <2>2. CASE Complete(a)
      <3>1. m < h /\ h \in 1 .. h
        BY <1>1, <1>4, <2>2, SMTT(60)
      <3>2. S[e + h].kind \in LineEnds
        BY <1>1, <1>4, <2>2, <3>1 DEF LineEnds
      <3>3. SUFFICES ASSUME ~(q <= e + h) PROVE FALSE
        OBVIOUS
      <3>4. m \in Nat
        BY <1>4
      <3>5. e + h \in e + m + 1 .. q - 1
        BY <1>1, <1>3, <3>1, <3>3, <3>4
      <3>6. QED
        BY <1>3, <3>2, <3>5
    <2>3. QED
      BY <2>1, <2>2
  <1>7. q - e \in m + 1 .. h /\ e + (q - e) = q /\ q - e \in 1 .. h
    <2>1. m \in Nat /\ m <= h
      BY <1>1, <1>4
    <2>2. QED
      BY <1>1, <1>3, <1>6, <2>1
  <1>8. S[q].kind = a.head[q - e] /\ S[q].id = r
    BY <1>1, <1>7
  <1>9. QED
    BY <1>7, <1>8 DEF a, e, h, S

(* A line after the request line: the head goes on or is over.             *)
LEMMA LineOfHead ==
  ASSUME NEW s \in Seq(Request), IsFramed(s), NEW r \in 1 .. Len(s), NEW m, AtHead(s[r], m), NEW q,
         NextEnd(s, EndOf(s, r - 1) + m, q)
  PROVE  /\ Stream(s)[q].kind = "empty" => Complete(s[r]) /\ q - EndOf(s, r - 1) - Len(s[r].head) = 0
         /\ Stream(s)[q].kind # "empty" => AtHead(s[r], q - EndOf(s, r - 1))
  <1> DEFINE a == s[r]
             e == EndOf(s, r - 1)
             h == Len(a.head)
             n == q - e
  <1>1. e \in Nat /\ h \in Nat
    BY RequestAt
  <1>2. m \in 0 .. h /\ HasBegun(a.head, m + 1) /\ (m = h => ~Complete(a))
    BY DEF AtHead
  <1>3. n \in m + 1 .. h /\ Stream(s)[q].kind = a.head[n]
    BY <1>2, EndsInHead
  <1>4. q \in Nat
    BY DEF NextEnd
  <1>5. \A i \in 1 .. h : a.head[i] = "empty" /\ HasBegun(a.head, i) => i = h
    BY DEF IsFramed, IsFramedHead
  <1>6. Complete(a) <=> h # 0 /\ a.head[h] = "empty" /\ HasBegun(a.head, h)
    BY DEF Complete
  <1> HIDE DEF a, e, h, n
  <1>7. n \in 1 .. h /\ n \in 0 .. h /\ m \in Nat /\ m < n
    BY <1>1, <1>2, <1>3
  <1>8. HasBegun(a.head, n) /\ HasBegun(a.head, n + 1)
    BY <1>1, <1>2, <1>7 DEF HasBegun
  <1>9. CASE Stream(s)[q].kind = "empty"
    <2>5. n = h /\ a.head[h] = "empty"
      BY <1>3, <1>5, <1>7, <1>8, <1>9
    <2>1. n = h /\ a.head[h] = "empty" /\ h # 0
      BY <1>1, <1>7, <2>5
    <2>2. Complete(a)
      BY <1>6, <1>8, <2>1
    <2>3. n - h = 0
      BY <1>1, <2>1
    <2>4. QED
      BY <1>9, <2>2, <2>3 DEF a, e, h, n
  <1>10. CASE Stream(s)[q].kind # "empty"
    <2>1. n = h => ~Complete(a)
      BY <1>3, <1>6, <1>10
    <2>2. AtHead(a, n)
      BY <1>7, <1>8, <2>1 DEF AtHead, h
    <2>3. QED
      BY <1>10, <2>2 DEF a, e, n
  <1>11. QED
    BY <1>9, <1>10

(* The first line of a request, before which there may be empty ones.      *)
LEMMA LineOfRequest ==
  ASSUME NEW s \in Seq(Request), IsFramed(s), NEW r \in 0 .. Len(s), NEW p \in Nat, EndOf(s, r) <= p,
         \A i \in EndOf(s, r) + 1 .. p : Stream(s)[i].kind = "empty", NEW q, NextEnd(s, p, q)
  PROVE  /\ r + 1 \in 1 .. Len(s) /\ Stream(s)[q].id = r + 1
         /\ Stream(s)[q].kind = "empty" => \A i \in EndOf(s, r) + 1 .. q : Stream(s)[i].kind = "empty"
         /\ Stream(s)[q].kind # "empty" => AtHead(s[r + 1], q - EndOf(s, r))
  <1> DEFINE S == Stream(s)
             e == EndOf(s, r)
             a == s[r + 1]
             h == Len(a.head)
             m == p - e
             n == q - e
  <1>1. Len(s) \in Nat /\ EndOf(s, Len(s)) = Len(S) /\ e \in 0 .. Len(S) /\ Len(S) \in Nat
    BY StreamEnds
  <1>2. q \in Nat /\ p < q /\ q <= Len(S) /\ S[q].kind \in LineEnds /\ \A i \in p + 1 .. q - 1 : S[i].kind \notin LineEnds
    BY DEF NextEnd
  <1>3. e <= p /\ \A i \in e + 1 .. p : S[i].kind = "empty"
    OBVIOUS
  <1>4. r + 1 \in 1 .. Len(s) /\ (r + 1) - 1 = r
    <2>1. r # Len(s)
      BY <1>1, <1>2, <1>3
    <2>2. QED
      BY <1>1, <2>1
  <1>5. /\ h \in Nat /\ Len(a.body) \in Nat /\ EndOf(s, r + 1) = e + h + Len(a.body)
        /\ \A i \in 1 .. h : S[e + i].kind = a.head[i]
        /\ (r + 1 = Len(s) => EndOf(s, r + 1) = Len(S))
    BY <1>4, RequestAt, SMTT(60)
  <1>6. ~Complete(a) => Len(a.body) = 0 /\ r + 1 = Len(s)
    BY <1>4, EmptySeq DEF IsFramed
  <1>7. Complete(a) => \E j \in 1 .. h - 1 : a.head[j] \in LineEnds \ {"empty"}
    BY DEF Complete, HasBegun
  <1>8. Complete(a) => h # 0 /\ a.head[h] = "empty"
    BY DEF Complete
  <1>16. \A i \in 1 .. h : a.head[i] = "empty" => i = 1 \/ a.head[i - 1] \in LineEnds
    BY <1>4 DEF IsFramed, IsFramedHead
  <1>17. e \in Nat /\ Len(S) \in Nat
    BY <1>1
  <1> HIDE DEF a, e, h, S
  <1>9. m \in Nat /\ e + m = p
    BY <1>3, <1>17
  <1>10. m <= h /\ (m = h => ~Complete(a))
    <2>1. CASE Complete(a)
      <3>1. PICK j \in 1 .. h - 1 : a.head[j] \in LineEnds \ {"empty"}
        BY <1>7, <2>1
      <3>2. j \in 1 .. h /\ j < h
        BY <1>5, <3>1
      <3>3. S[e + j].kind # "empty"
        BY <1>5, <3>1, <3>2
      <3>4. ~(e + j <= p)
        BY <1>3, <1>17, <3>2, <3>3
      <3>5. QED
        BY <1>5, <1>9, <1>17, <3>2, <3>4
    <2>2. CASE ~Complete(a)
      <3>1. e + h = Len(S)
        BY <1>5, <1>6, <1>17, <2>2
      <3>2. QED
        BY <1>2, <1>5, <1>9, <1>17, <2>2, <3>1, SMTT(60)
    <2>3. QED
      BY <2>1, <2>2
  <1>11. n \in m + 1 .. h /\ S[q].kind = a.head[n] /\ S[q].id = r + 1
    <2>1. m \in 0 .. Len(a.head) /\ (m = Len(a.head) => ~Complete(a))
      BY <1>5, <1>9, <1>10 DEF h
    <2>2. NextEnd(s, EndOf(s, (r + 1) - 1) + m, q)
      BY <1>4, <1>9 DEF e
    <2> HIDE DEF m
    <2>3. /\ q - EndOf(s, (r + 1) - 1) \in m + 1 .. Len(a.head)
          /\ S[q].kind = a.head[q - EndOf(s, (r + 1) - 1)] /\ S[q].id = r + 1
      BY <1>4, <2>1, <2>2, EndsInHead DEF a, S
    <2>4. QED
      BY <1>4, <2>3 DEF e, h
  <1> HIDE DEF m
  <1>12. n \in 1 .. h /\ n \in 0 .. h /\ n \in Nat /\ m < n /\ e + n = q
    BY <1>2, <1>5, <1>9, <1>11, <1>17
  <1>13. CASE S[q].kind = "empty"
    <2>1. n = m + 1
      <3>1. SUFFICES ASSUME n # m + 1 PROVE FALSE
        OBVIOUS
      <3>2. n # 1 /\ n - 1 \in 1 .. h /\ e + (n - 1) = q - 1 /\ q - 1 \in p + 1 .. q - 1
        BY <1>2, <1>5, <1>9, <1>12, <1>17, <3>1
      <3>3. a.head[n - 1] \in LineEnds
        BY <1>11, <1>12, <1>13, <1>16, <3>2
      <3>4. S[q - 1].kind = a.head[n - 1]
        BY <1>5, <3>2
      <3>5. QED
        BY <1>2, <3>2, <3>3, <3>4
    <2>2. q = p + 1
      <3>1. m \in Nat /\ e \in Nat /\ e + m = p /\ e + n = q
        BY <1>9, <1>12, <1>17
      <3> HIDE DEF n
      <3>2. QED
        BY <2>1, <3>1
    <2>3. \A i \in e + 1 .. q : S[i].kind = "empty"
      BY <1>3, <1>13, <1>17, <2>2
    <2>4. QED
      BY <1>4, <1>11, <1>13, <2>3 DEF e, S
  <1>14. CASE S[q].kind # "empty"
    <2>1. a.head[n] \in LineEnds \ {"empty"}
      BY <1>2, <1>11, <1>14
    <2>2. HasBegun(a.head, n + 1)
      <3>1. n \in 1 .. n + 1 - 1
        BY <1>12
      <3>2. QED
        BY <2>1, <3>1 DEF HasBegun
    <2>3. n = h => ~Complete(a)
      BY <1>8, <2>1
    <2>4. AtHead(a, n)
      BY <1>12, <2>2, <2>3 DEF AtHead, h
    <2>5. QED
      BY <1>4, <1>11, <1>14, <2>4 DEF a, e, S
  <1>15. QED
    BY <1>13, <1>14

(* A line of a trailer.                                                    *)
LEMMA LineOfTrailer ==
  ASSUME NEW s \in Seq(Request), NEW r \in 1 .. Len(s), NEW n \in Nat, IsTrailer(s[r], n + 1), NEW q,
         NextEnd(s, EndOf(s, r - 1) + Len(s[r].head) + n, q)
  PROVE  LET i == q - EndOf(s, r - 1) - Len(s[r].head)
         IN  /\ i \in Nat
             /\ Stream(s)[q].kind = "empty" => i = Len(s[r].body)
             /\ Stream(s)[q].kind # "empty" => IsTrailer(s[r], i + 1)
  <1> DEFINE S == Stream(s)
             e == EndOf(s, r - 1)
             a == s[r]
             h == Len(a.head)
             d == Len(a.body)
             i == q - e - h
  <1>1. /\ e \in Nat /\ h \in Nat /\ d \in Nat
        /\ \A j \in 1 .. d : S[e + h + j].kind = a.body[j].kind
    BY RequestAt
  <1>2. n + 1 <= d /\ \A j \in n + 1 .. d : a.body[j].kind # "data" /\ (a.body[j].kind = "empty" <=> j = d)
    BY DEF IsTrailer
  <1>3. q \in Nat /\ e + h + n < q /\ \A j \in e + h + n + 1 .. q - 1 : S[j].kind \notin LineEnds
    BY DEF NextEnd
  <1> HIDE DEF S, e, a, h, d, i
  <1>4. n + 1 \in 1 .. d /\ d \in n + 1 .. d /\ d \in 1 .. d
    BY <1>1, <1>2
  <1>5. S[e + h + d].kind = "empty"
    BY <1>1, <1>2, <1>4
  <1>6. q <= e + h + d
    <2>1. SUFFICES ASSUME ~(q <= e + h + d) PROVE FALSE
      OBVIOUS
    <2>2. e + h + d \in e + h + n + 1 .. q - 1
      BY <1>1, <1>2, <1>3, <2>1
    <2>3. QED
      BY <1>3, <1>5, <2>2 DEF LineEnds
  <1>7. i \in n + 1 .. d /\ i \in 1 .. d /\ i \in Nat /\ e + h + i = q
    BY <1>1, <1>3, <1>6 DEF i
  <1>8. S[q].kind = a.body[i].kind
    BY <1>1, <1>7
  <1>9. S[q].kind = "empty" <=> i = d
    BY <1>2, <1>7, <1>8
  <1>10. i # d => IsTrailer(a, i + 1)
    <2>1. i # d => i + 1 <= d /\ \A j \in i + 1 .. d : j \in n + 1 .. d
      BY <1>1, <1>7
    <2>2. QED
      BY <1>2, <2>1 DEF IsTrailer, d
  <1>11. QED
    BY <1>7, <1>9, <1>10 DEF S, e, a, h, d, i

-----------------------------------------------------------------------------
(* Where a connection is in what its client sends, when it has taken p     *)
(* bytes of it: among the empty lines before a request, or in the request  *)
(* its state says, with what it has given of the body.                     *)
Early == {"INIT", "URL_RECEIVED", "HEADER_PART_RECEIVED", "HEADERS_RECEIVED", "HEADERS_PROCESSED"}
Heads == {"URL_RECEIVED", "HEADER_PART_RECEIVED"}
OfBody == {"HEADERS_PROCESSED", "CONTINUE_SENDING", "CONTINUE_SENT"}

AtRequest(k, a, m) ==
  LET n == m - Len(a.head)
  IN  /\ k.state \in Heads => AtHead(a, m)
      /\ k.state \notin Heads => Complete(a)
      /\ k.state = "HEADERS_RECEIVED" => n = 0
      /\ k.state \in OfBody => AtBody(k, a, n)
      /\ k.state = "HEADERS_PROCESSED" /\ k.chunked => k.remaining = UNKNOWN
      /\ k.state = "HEADERS_PROCESSED" /\ a.expect => k.remaining # 0
      /\ k.state = "CONTINUE_SENDING" => k.remaining # 0
      /\ k.state \in Ending => n \in Nat /\ IsTrailer(a, n + 1) /\ k.given = BodySize(a)
      /\ k.state \notin Early \cup OfBody \cup Ending => n = Len(a.body) /\ k.given = BodySize(a)

Placed(k, s, p) ==
  /\ k.told \in Nat
  /\ k.state \in Early => k.given = 0 /\ k.context = NULL /\ k.chunk = 0
  /\ k.state = "INIT" =>
       /\ k.told \in 0 .. Len(s) /\ k.rq = NoRequest /\ EndOf(s, k.told) <= p
       /\ \A i \in EndOf(s, k.told) + 1 .. p : Stream(s)[i].kind = "empty"
  /\ k.state # "INIT" =>
       /\ k.told + 1 \in 1 .. Len(s) /\ k.rq = s[k.told + 1]
       /\ AtRequest(k, s[k.told + 1], p - EndOf(s, k.told))

(* A connection that has stopped reading is nowhere, but it has then its   *)
(* answer, and one that has an answer is beyond the head.                  *)
Whole(k) == {"state", "buf", "response", "readClosed", "shutWr", "told", "rq", "given", "context", "chunk", "chunked",
             "remaining"} \subseteq DOMAIN k

InItsPlace(k, w, t, s) ==
  /\ Whole(k) /\ ~IsOver(k)
  /\ k.readClosed \/ \E p : Follows(k.buf, w, t, s, p) /\ Placed(k, s, p)
  /\ k.state \in Reading => ~k.readClosed
  /\ k.state \in Early => k.response = NULL

(* A connection that is given up: it is closed, or was refused and has an  *)
(* error, or could not have one because the daemon is stopped.             *)
Refused(k, shut) ==
  /\ k.readClosed /\ k.state # "INIT"
  /\ k.shutWr \/ k.response = "error" \/ (k.response = NULL /\ shut)
GivenUp(k, shut) == Whole(k) /\ (k.state \in {"CLOSED", "CRASHED"} \/ Refused(k, shut))
Over(k) == GivenUp(k, shutdown)

(* What the application has seen, and how the contract allows that to go   *)
(* on.                                                                     *)
Seen(k) ==
  [calls |-> Calls(k), size |-> IF IsOver(k) THEN 0 ELSE BodySize(k.rq),
   given |-> IF Calls(k) = "none" THEN 0 ELSE k.given, context |-> IF IsOver(k) THEN NULL ELSE k.context]
Nothing == [calls |-> "none", size |-> 0, given |-> 0, context |-> NULL]

Begins(v, n) == v.calls = "none" /\ n.calls = "none" /\ n.size \in Nat /\ n.given = v.given /\ n.context = v.context
IsCalled(v, n) == n.calls \in {"started", "answered"} /\ n.size = v.size /\ n.given = v.given
CalledFirst(v, n) == v.calls = "none" /\ v.context = NULL /\ IsCalled(v, n)
IsGiven(v, n) == /\ v.calls = "started" /\ n.calls = "started" /\ n.size = v.size
                 /\ n.given \in v.given + 1 .. v.size
CalledLast(v, n) == v.calls = "started" /\ v.given = v.size /\ IsCalled(v, n)
Allowed(v, n) ==
  n = v \/ n = Nothing \/ Begins(v, n) \/ CalledFirst(v, n) \/ IsGiven(v, n) \/ CalledLast(v, n)

(* Nothing is seen of a connection that is given up.                       *)
LEMMA OverIsNothing == ASSUME NEW k, Over(k) PROVE IsOver(k) /\ Seen(k) = Nothing
  <1>1. IsOver(k)
    BY MCAssumption DEF Over, GivenUp, Refused, IsOver
  <1>2. QED
    BY <1>1 DEF Seen, Nothing, Calls

(* It is given up for good, whatever becomes of its buffers.               *)
Keeps(k, n) ==
  /\ DOMAIN n = DOMAIN k /\ (k.readClosed => n.readClosed) /\ (k.shutWr => n.shutWr)
  /\ k.shutWr \/ n.response = k.response
LEMMA OverAlike ==
  ASSUME NEW k, Over(k), k.state \notin {"CLOSED", "CRASHED"}, NEW n, Keeps(k, n), n.state # "INIT"
  PROVE  Over(n)
  BY DEF Over, GivenUp, Refused, Keeps, Whole

Denied(k) == Whole(k) /\ Refused(k, shutdown)
LEMMA DeniedAlike ==
  ASSUME NEW k, Denied(k)
  PROVE  Over(k) /\ \A n : Keeps(k, n) /\ n.state # "INIT" => Over(n) /\ Denied(n)
  BY DEF Over, GivenUp, Denied, Refused, Keeps, Whole

(* The helpers that leave what was read and answered alone,                *)
Retains(k, n) ==
  /\ DOMAIN n = DOMAIN k /\ n.buf = k.buf /\ n.response = k.response /\ n.readClosed = k.readClosed
  /\ n.shutWr = k.shutWr /\ n.told = k.told /\ n.rq = k.rq /\ n.given = k.given /\ n.context = k.context

(* and what is left of the body with it,                                   *)
Leaves(k, n) == Retains(k, n) /\ n.chunk = k.chunk /\ n.chunked = k.chunked /\ n.remaining = k.remaining

(* and the state.                                                          *)
Like(k, n) == Leaves(k, n) /\ n.state = k.state

(* Those leave the connection where it is.                                 *)
LEMMA LikeIsPlaced ==
  ASSUME NEW k, NEW n, Like(k, n), NEW w, NEW t, NEW s, InItsPlace(k, w, t, s)
  PROVE  InItsPlace(n, w, t, s) /\ Seen(n) = Seen(k)
  <1>1. /\ DOMAIN n = DOMAIN k /\ n.buf = k.buf /\ n.response = k.response /\ n.readClosed = k.readClosed
        /\ n.shutWr = k.shutWr /\ n.told = k.told /\ n.rq = k.rq /\ n.given = k.given /\ n.context = k.context
        /\ n.chunk = k.chunk /\ n.chunked = k.chunked /\ n.remaining = k.remaining /\ n.state = k.state
    BY DEF Like, Leaves, Retains
  <1>2. Seen(n) = Seen(k)
    BY <1>1 DEF Seen, Calls, IsOver
  <1>3. \A p : Placed(k, s, p) => Placed(n, s, p)
    <2>1. \A a, m : AtBody(k, a, m) <=> AtBody(n, a, m)
      BY <1>1 DEF AtBody
    <2>2. \A a, m : AtRequest(k, a, m) => AtRequest(n, a, m)
      BY <1>1, <2>1 DEF AtRequest
    <2>3. QED
      BY <1>1, <2>2 DEF Placed
  <1>4. InItsPlace(n, w, t, s)
    BY <1>1, <1>3 DEF InItsPlace, IsOver, Whole
  <1>5. QED
    BY <1>2, <1>4

(* MHD_connection_close_.                                                  *)
LEMMA CloseOver == ASSUME NEW k, Whole(k) PROVE Over(Close(k)) /\ Close(k).state = "CLOSED"
  <1> DEFINE d == DestroyResponse(k)
  <1>1. Whole(d)
    BY DEF Whole, DestroyResponse
  <1>2. Close(k) = [d EXCEPT !.state = "CLOSED", !.eli = "CLEANUP", !.shutWr = TRUE]
    BY DEF Close
  <1> HIDE DEF d
  <1>3. Whole(Close(k)) /\ Close(k).state = "CLOSED"
    BY <1>1, <1>2 DEF Whole
  <1>4. QED
    BY <1>3 DEF Over, GivenUp

(* try_grow_read_buffer.                                                   *)
LEMMA GrownLike == ASSUME NEW k, Whole(k) PROVE Like(k, Grown(k)) /\ Like(k, k)
  BY DEF Like, Leaves, Retains, Whole, Grown

(* build_header_response.                                                  *)
LEMMA BuildRetains ==
  ASSUME NEW k, Whole(k)
  PROVE  Retains(k, BuildHeader(k)) /\ BuildHeader(k).state = k.state
  <1> DEFINE final == k.state = "FOOTERS_RECEIVED"
             size == IF k.rq.version = "none" THEN 0 ELSE IF final THEN ReplyHeader ELSE 1
             b == IF k.rq.version = "none" THEN PoolAllocateFromEnd(k.pool, 0) ELSE PoolAllocate(k.pool, size + 1)
             h == [k EXCEPT !.pool = b.pool, !.wb = b.at,
                     !.wbSize = IF k.rq.version = "none" \/ b.at = NoBlock THEN 0 ELSE size + 1,
                     !.unsent = IF b.at = NoBlock THEN 0 ELSE size]
  <1>1. BuildHeader(k) = IF final /\ k.rq.version # "none" THEN [h EXCEPT !.keepalive = KeepaliveOf(k), !.chunked = FALSE]
                                                       ELSE h
    BY DEF BuildHeader
  <1> HIDE DEF b, size, final
  <1>2. Retains(k, h) /\ h.state = k.state
    BY DEF Whole, Retains
  <1> HIDE DEF h
  <1>3. QED
    BY <1>1, <1>2 DEF Retains, Whole

(* transmit_error_response, also if MHD_queue_response drops the response. *)
LEMMA TransmitOver ==
  ASSUME NEW k, Whole(k)
  PROVE  Over(TransmitError(k, shutdown)) /\ Denied(TransmitError(k, shutdown))
  <1> DEFINE d == DestroyResponse(k)
             e == [d EXCEPT !.state = "FOOTERS_RECEIVED", !.readClosed = TRUE]
             p == QueueResponse(e, "error", ErrorBody, shutdown)
             q == [p EXCEPT !.keepalive = "must_close"]
             h == BuildHeader(q)
             c == [q EXCEPT !.state = "CRASHED"]
             x == [h EXCEPT !.state = "HEADERS_SENDING"]
  <1>1. Whole(d) /\ d.response = NULL
    BY DEF Whole, DestroyResponse
  <1>2. TransmitError(k, shutdown) =
          IF q.response = NULL /\ q.rq.version # "none" THEN c ELSE IF Built(q) THEN x ELSE Close(h)
    BY DEF TransmitError
  <1> HIDE DEF d
  <1>3. Whole(e) /\ e.response = NULL /\ e.readClosed = TRUE /\ e.state = "FOOTERS_RECEIVED"
    BY <1>1 DEF Whole
  <1> HIDE DEF e
  <1>4. /\ Whole(p) /\ (p.response = "error" \/ (p.response = NULL /\ shutdown))
        /\ p.readClosed = TRUE /\ p.state = "FOOTERS_RECEIVED"
    BY <1>3 DEF QueueResponse, Whole, IsUpload
  <1> HIDE DEF p
  <1>5. Whole(q) /\ q.readClosed = TRUE /\ (q.response = "error" \/ (q.response = NULL /\ shutdown))
    BY <1>4 DEF Whole
  <1> HIDE DEF q
  <1>6. Whole(h) /\ h.readClosed = TRUE /\ (h.response = "error" \/ (h.response = NULL /\ shutdown))
    BY <1>5, BuildRetains DEF Retains, Whole
  <1> HIDE DEF h
  <1>7. Denied(c)
    BY <1>5 DEF Denied, Refused, Whole
  <1>8. Denied(x)
    BY <1>6 DEF Denied, Refused, Whole
  <1>9. Denied(Close(h))
    BY <1>6 DEF Denied, Refused, Whole, Close, DestroyResponse
  <1> HIDE DEF c, x
  <1>10. QED
    BY <1>2, <1>7, <1>8, <1>9, DeniedAlike

(* connection_add_header and parse_cookie_header, which refuse a request   *)
(* or leave all but the pool alone.                                        *)
LEMMA RecordedLike ==
  ASSUME NEW k, Whole(k), NEW n
  PROVE  Like(k, Recorded(k, n, shutdown)) \/ Denied(Recorded(k, n, shutdown))
  <1> DEFINE h == AddHeaders(k.pool, n)
             r == [k EXCEPT !.pool = h.pool]
  <1>1. Recorded(k, n, shutdown) = IF h.all THEN r ELSE TransmitError(r, shutdown)
    BY DEF Recorded
  <1> HIDE DEF h
  <1>2. Like(k, r) /\ Whole(r)
    BY DEF Like, Leaves, Retains, Whole
  <1> HIDE DEF r
  <1>3. QED
    BY <1>1, <1>2, TransmitOver

LEMMA CookieLike ==
  ASSUME NEW k, Whole(k)
  PROVE  Like(k, ParseCookie(k, shutdown)) \/ Denied(ParseCookie(k, shutdown))
  <1> DEFINE copy == PoolAllocateFromEnd(k.pool, k.rq.cookie)
             c == [k EXCEPT !.pool = copy.pool]
             m == k.rq.cookies
  <1>1. ParseCookie(k, shutdown) = IF copy.at = NoBlock THEN TransmitError(k, shutdown) ELSE Recorded(c, m, shutdown)
    BY DEF ParseCookie
  <1> HIDE DEF copy, m
  <1>2. Like(k, c) /\ Whole(c)
    BY DEF Like, Leaves, Retains, Whole
  <1> HIDE DEF c
  <1>3. Like(c, Recorded(c, m, shutdown)) \/ Denied(Recorded(c, m, shutdown))
    BY <1>2, RecordedLike
  <1>4. QED
    BY <1>1, <1>2, <1>3, TransmitOver DEF Like, Leaves, Retains

(* The end of a turn.                                                      *)
LEMMA SettledLike ==
  ASSUME NEW k, Whole(k)
  PROVE  Like(k, Settled(k, shutdown)) \/ Over(Settled(k, shutdown))
  <1> DEFINE n == Settle(k, shutdown)
  <1>1. Like(k, n) \/ Over(n)
    BY GrownLike, CloseOver, TransmitOver DEF Settle
  <1>2. Settled(k, shutdown) = [n EXCEPT !.eli = Eli(n)]
    BY DEF Settled
  <1> HIDE DEF n
  <1>3. CASE Like(k, n)
    BY <1>2, <1>3 DEF Like, Leaves, Retains, Whole
  <1>4. CASE Over(n)
    BY <1>2, <1>4 DEF Over, GivenUp, Refused, Whole
  <1>5. QED
    BY <1>1, <1>3, <1>4

(* get_next_header_line, for the first line and for a continued one.       *)
LEMMA LineTaken ==
  ASSUME NEW k, Whole(k), NEW m
  PROVE  /\ Whole(WithoutLine(k))
         /\ \A n \in {WithoutLine(k), Folded(k, m)} :
              /\ DOMAIN n = DOMAIN k /\ n.buf = WithoutLine(k).buf /\ n.response = k.response
              /\ n.readClosed = k.readClosed /\ n.shutWr = k.shutWr
              /\ n.told = k.told /\ n.rq = k.rq /\ n.given = k.given
              /\ n.context = k.context /\ n.chunk = k.chunk /\ n.chunked = k.chunked /\ n.remaining = k.remaining
              /\ n.state = k.state
  <1> DEFINE l == WithoutLine(k)
  <1>1. /\ DOMAIN l = DOMAIN k /\ l.response = k.response
        /\ l.readClosed = k.readClosed /\ l.shutWr = k.shutWr /\ l.told = k.told /\ l.rq = k.rq /\ l.given = k.given
        /\ l.context = k.context /\ l.chunk = k.chunk /\ l.chunked = k.chunked /\ l.remaining = k.remaining
        /\ l.state = k.state
    BY DEF Whole, WithoutLine
  <1> DEFINE size == k.last.size + m
             b == PoolReallocate(k.pool, k.last.at, k.last.size, size)
             f == [l EXCEPT !.pool = b.pool, !.last = [at |-> b.at, size |-> size]]
  <1>2. Folded(k, m) = f
    BY DEF Folded
  <1> HIDE DEF l, b, size
  <1>3. /\ DOMAIN f = DOMAIN l /\ f.buf = l.buf /\ f.response = l.response
        /\ f.readClosed = l.readClosed /\ f.shutWr = l.shutWr /\ f.told = l.told /\ f.rq = l.rq /\ f.given = l.given
        /\ f.context = l.context /\ f.chunk = l.chunk /\ f.chunked = l.chunked /\ f.remaining = l.remaining
        /\ f.state = l.state
    BY <1>1 DEF Whole
  <1> HIDE DEF f
  <1>4. QED
    BY <1>1, <1>2, <1>3 DEF Whole, l

(* A change of state that is no call changes nothing that is seen.         *)
LEMMA SeenAlike ==
  ASSUME NEW k, NEW n, n.response = k.response, n.readClosed = k.readClosed, n.shutWr <=> k.shutWr,
         n.rq = k.rq, n.given = k.given, n.context = k.context, {k.state, n.state} \cap {"CLOSED", "CRASHED"} = {},
         k.response = NULL => (k.state \in Asked <=> n.state \in Asked)
  PROVE  Seen(n) = Seen(k)
  <1>1. IsOver(n) <=> IsOver(k)
    BY DEF IsOver
  <1>2. Calls(n) = Calls(k)
    <2>1. CASE k.response = NULL
      BY <1>1, <2>1, MCAssumption DEF Calls
    <2>2. CASE k.response # NULL
      BY <1>1, <2>2 DEF Calls
    <2>3. QED
      BY <2>1, <2>2
  <1>3. QED
    BY <1>1, <1>2 DEF Seen

-----------------------------------------------------------------------------
(* What a step of the state machine makes of the connection at turn.       *)
Here(k) == Over(k) \/ InItsPlace(k, wire[Cur], todo[Cur], script[Cur])
Standing ==
  /\ InItsPlace(K, wire[Cur], todo[Cur], script[Cur]) /\ Counted(K) /\ Waits(K)
  /\ script[Cur] \in Seq(Request) /\ IsFramed(script[Cur])
Proper(k) == Here(k) /\ Allowed(Seen(K), Seen(k)) /\ (Go(k) \/ Break(k))

(* It may be given up at any time.                                         *)
LEMMA OverIsProper == ASSUME NEW k, Over(k), Go(k) \/ Break(k) PROVE Proper(k)
  BY OverIsNothing DEF Proper, Here, Allowed

(* While it reads, it is somewhere in what its client sends.               *)
LEMMA StandsSomewhere ==
  ASSUME Standing, K.state \in Reading
  PROVE  /\ Whole(K) /\ K.readClosed = FALSE /\ ~K.shutWr /\ ~IsOver(K) /\ K.state \notin {"CLOSED", "CRASHED"}
         /\ K.state \in Early => K.response = NULL
         /\ \E p : Follows(K.buf, wire[Cur], todo[Cur], script[Cur], p) /\ Placed(K, script[Cur], p)
  <1>1. Whole(K) /\ K.readClosed = FALSE /\ ~IsOver(K) /\ (K.state \in Early => K.response = NULL)
    BY DEF Standing, InItsPlace, Waits
  <1>2. K.state \notin {"CLOSED", "CRASHED"} /\ ~K.shutWr
    BY <1>1 DEF IsOver
  <1>3. QED
    BY <1>1, <1>2 DEF Standing, InItsPlace

(* get_next_header_line without a line.                                    *)
LEMMA NoLineProper == ASSUME Standing, NoLine PROVE \E k : Proper(k)
  <1> DEFINE g == IF K.buf # << >> /\ Full(K) THEN Grown(K) ELSE K
  <1>1. Go(TransmitError(K, shutdown)) \/ Go(Close(g)) \/ Break(g)
    BY DEF NoLine
  <1>2. Whole(K)
    BY DEF Standing, InItsPlace
  <1>3. Like(K, g)
    BY <1>2, GrownLike
  <1> HIDE DEF g
  <1>4. Whole(g) /\ Here(g) /\ Seen(g) = Seen(K)
    BY <1>2, <1>3, LikeIsPlaced DEF Like, Leaves, Retains, Whole, Standing, Here
  <1>5. Over(TransmitError(K, shutdown)) /\ Over(Close(g))
    BY <1>2, <1>4, TransmitOver, CloseOver
  <1>6. QED
    BY <1>1, <1>4, <1>5, OverIsProper DEF Proper, Allowed

(* parse_initial_message_line.                                             *)
LEMMA FirstLineProper == ASSUME Standing, FirstLine PROVE \E k : Proper(k)
  <1> DEFINE s == script[Cur]
             l == WithoutLine(K)
             z == [l EXCEPT !.rq = s[Line(K).id]]
             y == Recorded(z, z.rq.arguments, shutdown)
             u == [y EXCEPT !.state = "URL_RECEIVED"]
             r == K.told
  <1>1. K.state = "INIT" /\ HasLine(K)
    BY DEF FirstLine, AtLine
  <1>2. Whole(K) /\ K.readClosed = FALSE /\ ~K.shutWr /\ ~IsOver(K) /\ K.response = NULL
    BY <1>1, StandsSomewhere DEF Reading, Early
  <1>3. PICK p : Follows(K.buf, wire[Cur], todo[Cur], s, p) /\ Placed(K, s, p)
    BY <1>1, StandsSomewhere DEF Reading
  <1> DEFINE q == p + LineLength(K)
  <1>4. /\ NextEnd(s, p, q) /\ Line(K) = Stream(s)[q] /\ Follows(l.buf, wire[Cur], todo[Cur], s, q)
    BY <1>1, <1>2, <1>3, LineIsNext DEF Whole
  <1>5. /\ r \in 0 .. Len(s) /\ EndOf(s, r) <= p /\ r \in Nat /\ K.rq = NoRequest
        /\ \A i \in EndOf(s, r) + 1 .. p : Stream(s)[i].kind = "empty"
        /\ K.given = 0 /\ K.context = NULL /\ K.chunk = 0 /\ K.response = NULL
    BY <1>1, <1>2, <1>3 DEF Placed, Early
  <1>6. /\ Whole(l) /\ DOMAIN l = DOMAIN K /\ l.response = NULL /\ l.readClosed = FALSE /\ ~l.shutWr /\ l.told = r
        /\ l.rq = NoRequest /\ l.given = 0 /\ l.context = NULL /\ l.chunk = 0 /\ l.state = "INIT"
    BY <1>1, <1>2, <1>5, LineTaken
  <1>7. s \in Seq(Request) /\ IsFramed(s) /\ p \in Nat /\ q \in Nat /\ p < q
    BY <1>3, <1>4 DEF Standing, Follows, NextEnd
  <1>8. \/ Line(K).kind = "empty" /\ Break(l)
        \/ Line(K).kind = "url" /\ ((y.state = "CRASHED" /\ Go(y)) \/ (y.state # "CRASHED" /\ Go(u)))
        \/ Go(Close(l))
    <2>1. \/ Line(K).kind = "empty" /\ Break(l)
          \/ Line(K).kind = "url" /\ RequestLine(l)
          \/ Go(Close(l))
      BY <1>2, SMTT(60) DEF FirstLine
    <2> HIDE DEF l
    <2>2. RequestLine(l) => (y.state = "CRASHED" /\ Go(y)) \/ (y.state # "CRASHED" /\ Go(u))
      BY RequestLineGoes DEF s
    <2>3. QED
      BY <2>1, <2>2
  <1> HIDE DEF s, l, r, q
  <1>9. /\ r + 1 \in 1 .. Len(s) /\ Stream(s)[q].id = r + 1
        /\ Stream(s)[q].kind = "empty" => \A i \in EndOf(s, r) + 1 .. q : Stream(s)[i].kind = "empty"
        /\ Stream(s)[q].kind # "empty" => AtHead(s[r + 1], q - EndOf(s, r))
    BY <1>4, <1>5, <1>7, LineOfRequest
  <1>10. CASE Go(Close(l))
    BY <1>6, <1>10, CloseOver, OverIsProper
  <1>11. CASE Line(K).kind = "empty" /\ Break(l)
    <2>1. EndOf(s, r) <= q
      <3>1. EndOf(s, r) \in Nat
        BY <1>5, <1>7, StreamEnds
      <3>2. QED
        BY <1>5, <1>7, <3>1
    <2>2. Placed(l, s, q)
      BY <1>4, <1>5, <1>6, <1>9, <1>11, <2>1 DEF Placed
    <2>3. Here(l)
      BY <1>4, <1>6, <2>2 DEF Here, InItsPlace, IsOver, s
    <2>4. Seen(l) = Seen(K)
      BY <1>1, <1>2, <1>5, <1>6, SeenAlike
    <2>5. QED
      BY <1>11, <2>3, <2>4 DEF Proper, Allowed
  <1>12. Whole(z) /\ (Like(z, y) \/ Denied(y))
    <2>1. Whole(z)
      BY <1>6 DEF Whole
    <2> DEFINE m == z.rq.arguments
    <2> HIDE DEF z, m
    <2>2. Like(z, Recorded(z, m, shutdown)) \/ Denied(Recorded(z, m, shutdown))
      BY <2>1, RecordedLike
    <2>3. QED
      BY <2>1, <2>2 DEF m
  <1>13. CASE (Go(y) \/ Go(u)) /\ Denied(y)
    <2> HIDE DEF y
    <2>1. Keeps(y, u) /\ u.state = "URL_RECEIVED"
      BY <1>13 DEF Keeps, Denied, Whole
    <2>2. Over(y) /\ Over(u)
      BY <1>13, <2>1, DeniedAlike
    <2> HIDE DEF u
    <2>3. QED
      BY <1>13, <2>2, OverIsProper
  <1>14. CASE Line(K).kind = "url" /\ ((y.state = "CRASHED" /\ Go(y)) \/ (y.state # "CRASHED" /\ Go(u))) /\ Like(z, y)
    <2>1. /\ Whole(z) /\ z.response = NULL /\ z.readClosed = FALSE /\ ~z.shutWr /\ z.told = r /\ z.rq = s[r + 1]
          /\ z.given = 0 /\ z.context = NULL /\ z.chunk = 0 /\ z.state = "INIT" /\ z.buf = l.buf
      BY <1>4, <1>6, <1>9 DEF Whole
    <2> HIDE DEF z, y
    <2>2. /\ Whole(y) /\ y.response = NULL /\ y.readClosed = FALSE /\ ~y.shutWr /\ y.told = r /\ y.rq = s[r + 1]
          /\ y.given = 0 /\ y.context = NULL /\ y.chunk = 0 /\ y.state = "INIT" /\ y.buf = l.buf
      BY <1>14, <2>1 DEF Like, Leaves, Retains, Whole
    <2>3. /\ Whole(u) /\ u.response = NULL /\ u.readClosed = FALSE /\ ~u.shutWr /\ u.told = r /\ u.rq = s[r + 1]
          /\ u.given = 0 /\ u.context = NULL /\ u.chunk = 0 /\ u.state = "URL_RECEIVED" /\ u.buf = l.buf
      BY <2>2 DEF Whole
    <2>4. AtHead(s[r + 1], q - EndOf(s, r)) /\ Go(u)
      BY <1>4, <1>9, <1>14, <2>2
    <2> HIDE DEF u
    <2>5. Placed(u, s, q)
      BY <1>5, <1>9, <2>3, <2>4 DEF Placed, AtRequest, Heads, OfBody, Ending, Early
    <2>6. ~IsOver(u)
      BY <2>3 DEF IsOver
    <2>7. Here(u)
      BY <1>4, <2>3, <2>5, <2>6 DEF Here, InItsPlace, s
    <2>8. Begins(Seen(K), Seen(u))
      <3>1. Calls(K) = "none" /\ Calls(u) = "none"
        BY <1>1, <1>2, <2>3, <2>6, MCAssumption DEF Calls, Asked
      <3>2. BodySize(s[r + 1]) \in Nat
        <4>1. Len(s[r + 1].body) \in Nat
          <5>1. s[r + 1] \in Request
            BY <1>7, <1>9, ElementOfSeq
          <5>2. QED
            BY <5>1, LenProperties DEF Request
        <4>2. QED
          BY <4>1, DataInGrows
      <3>3. QED
        BY <1>2, <1>5, <2>3, <2>6, <3>1, <3>2 DEF Begins, Seen
    <2>9. QED
      BY <2>4, <2>7, <2>8 DEF Proper, Allowed
  <1> HIDE DEF z, y, u
  <1>15. QED
    BY <1>8, <1>10, <1>11, <1>12, <1>13, <1>14

(* What follows a line of a head or a trailer.                             *)
TakesLine(k, n) ==
  /\ DOMAIN n = DOMAIN k /\ n.buf = WithoutLine(k).buf /\ n.response = k.response
  /\ n.readClosed = k.readClosed /\ n.shutWr = k.shutWr /\ n.told = k.told /\ n.rq = k.rq /\ n.given = k.given
  /\ n.context = k.context /\ n.chunk = k.chunk /\ n.chunked = k.chunked /\ n.remaining = k.remaining

(* The head or the trailer goes on or is over.                             *)
LEMMA LineIsProper ==
  ASSUME Standing, K.state \in Heads \cup Ending, HasLine(K), NEW n, TakesLine(K, n),
         Line(K).kind = "empty" => n.state = IF InFooters THEN "FOOTERS_RECEIVED" ELSE "HEADERS_RECEIVED",
         Line(K).kind # "empty" => n.state = IF InFooters THEN "FOOTER_PART_RECEIVED" ELSE "HEADER_PART_RECEIVED",
         Go(n) \/ Break(n)
  PROVE  Proper(n)
  <1> DEFINE s == script[Cur]
             r == K.told
             a == s[r + 1]
             e == EndOf(s, r)
             h == Len(a.head)
  <1>1. K.state \in Reading /\ K.state \notin {"INIT", "CLOSED", "CRASHED"} /\ (InFooters <=> K.state \in Ending)
        /\ (K.state \in Heads => K.state \in Early)
    BY DEF Heads, Ending, Reading, InFooters, Early
  <1>2. Whole(K) /\ K.readClosed = FALSE /\ ~K.shutWr /\ (K.state \in Heads => K.response = NULL)
    BY <1>1, StandsSomewhere
  <1>3. PICK p : Follows(K.buf, wire[Cur], todo[Cur], s, p) /\ Placed(K, s, p)
    BY <1>1, StandsSomewhere
  <1> DEFINE q == p + LineLength(K)
  <1>4. NextEnd(s, p, q) /\ Line(K) = Stream(s)[q] /\ Follows(n.buf, wire[Cur], todo[Cur], s, q)
    BY <1>2, <1>3, LineIsNext DEF Whole, TakesLine
  <1>5. /\ r \in Nat /\ r + 1 \in 1 .. Len(s) /\ K.rq = a /\ AtRequest(K, a, p - e)
        /\ (K.state \in Early => K.given = 0 /\ K.context = NULL /\ K.chunk = 0)
    BY <1>1, <1>3 DEF Placed
  <1>6. s \in Seq(Request) /\ IsFramed(s) /\ p \in Nat /\ q \in Nat
    BY <1>3, <1>4 DEF Standing, Follows, NextEnd
  <1>7. (r + 1) - 1 = r
    BY <1>5
  <1>8. e \in Nat /\ h \in Nat
    BY <1>5, <1>6, <1>7, RequestAt
  <1>9. /\ Whole(n) /\ n.response = K.response /\ n.readClosed = FALSE /\ ~n.shutWr /\ n.told = r /\ n.rq = a
        /\ n.given = K.given /\ n.context = K.context /\ n.chunk = K.chunk /\ n.chunked = K.chunked
        /\ n.shutWr = K.shutWr
    BY <1>2, <1>5 DEF TakesLine, Whole
  <1> DEFINE empty == Stream(s)[q].kind = "empty"
  <1>10. /\ empty => n.state = IF K.state \in Ending THEN "FOOTERS_RECEIVED" ELSE "HEADERS_RECEIVED"
         /\ ~empty => n.state = IF K.state \in Ending THEN "FOOTER_PART_RECEIVED" ELSE "HEADER_PART_RECEIVED"
    BY <1>1, <1>4
  <1> HIDE DEF q, a, e, h, r, s, empty
  <1>11. CASE K.state \in Heads
    <2> DEFINE m == p - e
    <2>1. AtHead(a, m) /\ e + m = p
      BY <1>5, <1>6, <1>8, <1>11 DEF AtRequest
    <2>2. r + 1 \in 1 .. Len(s) /\ AtHead(s[r + 1], m) /\ NextEnd(s, EndOf(s, (r + 1) - 1) + m, q)
      BY <1>4, <1>5, <1>7, <2>1 DEF a, e
    <2> HIDE DEF m
    <2>3. /\ empty => Complete(a) /\ q - e - h = 0
          /\ ~empty => AtHead(a, q - e)
      BY <1>6, <1>7, <2>2, LineOfHead DEF a, e, h, empty
    <2>4. /\ empty => n.state = "HEADERS_RECEIVED"
          /\ ~empty => n.state = "HEADER_PART_RECEIVED"
      BY <1>10, <1>11 DEF Heads, Ending
    <2>5. AtRequest(n, a, q - e)
      BY <2>3, <2>4 DEF AtRequest, Heads, OfBody, Ending, Early, h
    <2>6. n.state \in Early \ {"INIT"}
      BY <2>4 DEF Early
    <2>7. Placed(n, s, q)
      BY <1>1, <1>5, <1>9, <1>11, <2>5, <2>6 DEF Placed, a, e
    <2>8. Here(n)
      BY <1>2, <1>4, <1>9, <1>11, <2>6, <2>7 DEF Here, InItsPlace, IsOver, Early, s
    <2>9. Seen(n) = Seen(K)
      <3>1. n.state \notin Asked \cup {"CLOSED", "CRASHED"} /\ K.state \notin Asked
        BY <1>11, <2>4 DEF Asked, Heads
      <3>2. QED
        BY <1>1, <1>2, <1>5, <1>9, <3>1, SeenAlike, ZenonT(60)
    <2>10. QED
      BY <2>8, <2>9 DEF Proper, Allowed
  <1>12. CASE K.state \in Ending
    <2> DEFINE m == p - e - h
    <2>1. m \in Nat /\ IsTrailer(a, m + 1) /\ K.given = BodySize(a) /\ Complete(a)
      BY <1>5, <1>12 DEF AtRequest, Heads, Ending, h
    <2>2. e + h + m = p
      BY <1>6, <1>8
    <2> HIDE DEF m
    <2>3. /\ r + 1 \in 1 .. Len(s) /\ IsTrailer(s[r + 1], m + 1)
          /\ NextEnd(s, EndOf(s, (r + 1) - 1) + Len(s[r + 1].head) + m, q)
      BY <1>4, <1>5, <1>7, <2>1, <2>2 DEF a, e, h
    <2> DEFINE i == q - e - h
    <2>4. /\ i \in Nat
          /\ empty => i = Len(a.body)
          /\ ~empty => IsTrailer(a, i + 1)
      <3>1. LET j == q - EndOf(s, (r + 1) - 1) - Len(s[r + 1].head)
            IN  /\ j \in Nat
                /\ Stream(s)[q].kind = "empty" => j = Len(s[r + 1].body)
                /\ Stream(s)[q].kind # "empty" => IsTrailer(s[r + 1], j + 1)
        BY <1>6, <2>1, <2>3, LineOfTrailer
      <3>2. QED
        BY <1>7, <3>1 DEF a, e, h, empty
    <2>5. /\ empty => n.state = "FOOTERS_RECEIVED"
          /\ ~empty => n.state = "FOOTER_PART_RECEIVED"
      BY <1>10, <1>12 DEF Ending
    <2>6. AtRequest(n, a, q - e)
      BY <1>9, <2>1, <2>4, <2>5 DEF AtRequest, Heads, OfBody, Ending, Early, h
    <2>7. Placed(n, s, q)
      BY <1>1, <1>5, <1>9, <1>12, <2>5, <2>6 DEF Placed, a, e, Early
    <2>8. Here(n)
      BY <1>4, <1>9, <2>5, <2>7 DEF Here, InItsPlace, IsOver, Early, s
    <2>9. Seen(n) = Seen(K)
      <3>1. n.state \in Asked /\ K.state \in Asked /\ n.state \notin {"CLOSED", "CRASHED"}
        BY <1>12, <2>5 DEF Asked, Ending
      <3>2. QED
        BY <1>1, <1>2, <1>5, <1>9, <3>1, SeenAlike, ZenonT(60)
    <2>10. QED
      BY <2>8, <2>9 DEF Proper, Allowed
  <1>13. QED
    BY <1>11, <1>12

(* The first line after the request line, or after the last chunk.         *)
LEMMA HeaderLineProper == ASSUME Standing, HeaderLine PROVE \E k : Proper(k)
  <1> DEFINE l == WithoutLine(K)
             e == [l EXCEPT !.state = IF InFooters THEN "FOOTERS_RECEIVED" ELSE "HEADERS_RECEIVED"]
             x(m) == [l EXCEPT !.state = IF InFooters THEN "FOOTER_PART_RECEIVED" ELSE "HEADER_PART_RECEIVED",
                               !.last = HeaderOf(K, m)]
             o == TransmitError(Close(l), shutdown)
  <1>1. K.state \in Heads \cup Ending /\ HasLine(K)
    BY DEF HeaderLine, AtLine, Heads, Ending
  <1>2. \/ Line(K).kind = "empty" /\ Go(e)
        \/ Line(K).kind # "empty" /\ \E m \in Lengths(K) : Go(x(m))
        \/ Break(o)
    BY DEF HeaderLine
  <1>3. Whole(K)
    BY DEF Standing, InItsPlace
  <1>4. Whole(l) /\ TakesLine(K, l)
    BY <1>3, LineTaken DEF TakesLine
  <1>5. Over(o)
    BY <1>4, CloseOver, TransmitOver DEF Over, GivenUp
  <1> HIDE DEF l, o
  <1>6. TakesLine(K, e) /\ e.state = IF InFooters THEN "FOOTERS_RECEIVED" ELSE "HEADERS_RECEIVED"
    BY <1>4 DEF TakesLine, Whole
  <1> HIDE DEF e
  <1>7. CASE Line(K).kind = "empty" /\ Go(e)
    BY <1>1, <1>6, <1>7, LineIsProper
  <1>8. ASSUME NEW m, Line(K).kind # "empty", Go(x(m))
        PROVE  \E k : Proper(k)
    <2> DEFINE n == x(m)
    <2>1. TakesLine(K, n) /\ n.state = IF InFooters THEN "FOOTER_PART_RECEIVED" ELSE "HEADER_PART_RECEIVED"
      BY <1>4 DEF TakesLine, Whole
    <2>2. Go(n)
      BY <1>8
    <2> HIDE DEF n
    <2>3. QED
      BY <1>1, <1>8, <2>1, <2>2, LineIsProper
  <1>9. QED
    BY <1>2, <1>5, <1>7, <1>8, OverIsProper

(* process_broken_line.                                                    *)
LEMMA HeaderPartProper == ASSUME Standing, HeaderPart PROVE \E k : Proper(k)
  <1> DEFINE l == WithoutLine(K)
             f(m) == Folded(K, m)
             n == [l EXCEPT !.pool = AddHeader(K).pool]
             e == [n EXCEPT !.state = IF InFooters THEN "FOOTERS_RECEIVED" ELSE "HEADERS_RECEIVED"]
             x(m) == [n EXCEPT !.last = HeaderOf(K, m)]
             o == TransmitError(l, shutdown)
             oo == TransmitError(o, shutdown)
             oc == TransmitError(Close(n), shutdown)
  <1>1. K.state \in Parts /\ HasLine(K)
    BY DEF HeaderPart, AtLine, Parts
  <1>2. \/ Line(K).kind = "fold" /\ \E m \in Lengths(K) : Go(f(m))
        \/ Go(o) \/ Go(oo)
        \/ Line(K).kind = "empty" /\ Go(e)
        \/ Line(K).kind = "header" /\ \E m \in Lengths(K) : Go(x(m))
        \/ Go(oc)
    BY DEF HeaderPart
  <1>3. Whole(K)
    BY DEF Standing, InItsPlace
  <1>4. /\ Whole(l) /\ TakesLine(K, l) /\ l.state = K.state
        /\ \A m : TakesLine(K, Folded(K, m)) /\ Folded(K, m).state = K.state
    BY <1>3, LineTaken DEF TakesLine
  <1> HIDE DEF l
  <1>5. Over(o)
    BY <1>4, TransmitOver
  <1> HIDE DEF o
  <1>6. Over(oo)
    BY <1>5, TransmitOver DEF Over, GivenUp
  <1>7. TakesLine(K, n) /\ Whole(n) /\ n.state = K.state
    BY <1>4 DEF TakesLine, Whole
  <1> HIDE DEF n
  <1>8. Over(oc)
    BY <1>7, CloseOver, TransmitOver DEF Over, GivenUp
  <1>9. TakesLine(K, e) /\ e.state = IF InFooters THEN "FOOTERS_RECEIVED" ELSE "HEADERS_RECEIVED"
    BY <1>7 DEF TakesLine, Whole
  <1> HIDE DEF e, oo, oc
  <1>10. K.state \in Heads \cup Ending /\ K.state = IF InFooters THEN "FOOTER_PART_RECEIVED" ELSE "HEADER_PART_RECEIVED"
    BY <1>1 DEF InFooters, Heads, Ending, Parts
  <1>11. ASSUME NEW m, Line(K).kind = "fold", Go(f(m))
         PROVE  \E k : Proper(k)
    <2> DEFINE i == Folded(K, m)
    <2>1. TakesLine(K, i) /\ i.state = K.state /\ Go(i)
      BY <1>4, <1>11
    <2> HIDE DEF i
    <2>2. QED
      BY <1>1, <1>10, <1>11, <2>1, LineIsProper, SMTT(60)
  <1>12. ASSUME NEW m, Line(K).kind = "header", Go(x(m))
         PROVE  \E k : Proper(k)
    <2> DEFINE i == x(m)
    <2>1. TakesLine(K, i) /\ i.state = K.state
      BY <1>7 DEF TakesLine, Whole
    <2>2. Go(i)
      BY <1>12
    <2> HIDE DEF i
    <2>3. QED
      BY <1>1, <1>10, <1>12, <2>1, <2>2, LineIsProper, SMTT(60)
  <1>13. CASE Line(K).kind = "empty" /\ Go(e)
    BY <1>1, <1>9, <1>10, <1>13, LineIsProper, SMTT(60)
  <1>14. QED
    BY <1>2, <1>5, <1>6, <1>8, <1>11, <1>12, <1>13, OverIsProper

-----------------------------------------------------------------------------
(* A connection in a request, at the place its state says.                 *)
LEMMA StandsInRequest ==
  ASSUME Standing, K.state \in Reading \ {"INIT"}
  PROVE  LET s == script[Cur]
             r == K.told
             a == s[r + 1]
         IN  \E p : /\ Follows(K.buf, wire[Cur], todo[Cur], s, p) /\ p \in Nat /\ r \in Nat /\ r + 1 \in 1 .. Len(s)
                    /\ (r + 1) - 1 = r /\ K.rq = a /\ AtRequest(K, a, p - EndOf(s, r))
                    /\ a \in Request /\ Len(a.body) \in Nat /\ EndOf(s, r) \in Nat /\ Len(a.head) \in Nat
                    /\ (K.state \in Early => K.given = 0 /\ K.context = NULL /\ K.chunk = 0 /\ K.response = NULL)
                    /\ (Complete(a) => IsFramedBody(a))
                    /\ (Complete(a) /\ a.encoding = "other" => r + 1 = Len(s))
                    /\ (Complete(a) /\ a.expect => a.body # << >>)
  <1> DEFINE s == script[Cur]
             r == K.told
             a == s[r + 1]
  <1>1. PICK p : Follows(K.buf, wire[Cur], todo[Cur], s, p) /\ Placed(K, s, p)
    BY StandsSomewhere
  <1>2. /\ r \in Nat /\ r + 1 \in 1 .. Len(s) /\ K.rq = a /\ AtRequest(K, a, p - EndOf(s, r))
        /\ (K.state \in Early => K.given = 0 /\ K.context = NULL /\ K.chunk = 0)
    BY <1>1 DEF Placed
  <1>3. s \in Seq(Request) /\ IsFramed(s) /\ (K.state \in Early => K.response = NULL) /\ p \in Nat
    BY <1>1, StandsSomewhere DEF Standing, Follows
  <1>4. (r + 1) - 1 = r
    BY <1>2
  <1> HIDE DEF s, r
  <1>5. a \in Request /\ Len(a.body) \in Nat /\ EndOf(s, (r + 1) - 1) \in Nat /\ Len(a.head) \in Nat
    BY <1>2, <1>3, RequestAt
  <1>6. /\ (Complete(a) => IsFramedBody(a)) /\ (Complete(a) /\ a.encoding = "other" => r + 1 = Len(s))
        /\ (Complete(a) /\ a.expect => a.body # << >>)
    BY <1>2, <1>3 DEF IsFramed
  <1> HIDE DEF a
  <1>7. QED
    BY <1>1, <1>2, <1>3, <1>4, <1>5, <1>6 DEF s, r, a

(* parse_connection_headers.                                               *)
LEMMA HeadersReceivedProper == ASSUME Standing, HeadersReceived PROVE \E k : Proper(k)
  <1> DEFINE s == script[Cur]
             r == K.told
             a == s[r + 1]
             e == EndOf(s, r)
             h == Len(a.head)
             y == ParseCookie(K, shutdown)
             b == [y EXCEPT !.remaining = IF K.rq.encoding # "none" THEN UNKNOWN ELSE K.rq.length,
                            !.chunked = (K.rq.encoding = "chunked")]
             n == [b EXCEPT !.state = "HEADERS_PROCESSED"]
             c == Close([y EXCEPT !.remaining = 0])
             invalid == K.rq.encoding = "none" /\ K.rq.length < 0
             x == ParseHeaders(K, shutdown)
  <1>1. /\ K.state = "HEADERS_RECEIVED"
        /\ Go(IF x.state \in {"CLOSED", "CRASHED"} THEN x ELSE [x EXCEPT !.state = "HEADERS_PROCESSED"])
    BY DEF HeadersReceived, Idle
  <1>2. K.state \in Reading \ {"INIT"} /\ K.state \in Early
    BY <1>1 DEF Reading, Early
  <1>3. x = IF y.state = "CRASHED" THEN y ELSE IF invalid THEN c ELSE b
    BY DEF ParseHeaders
  <1>4. Whole(K) /\ K.readClosed = FALSE /\ ~K.shutWr
    BY <1>2, StandsSomewhere
  <1>5. Whole(y) /\ (Like(K, y) \/ Denied(y))
    BY <1>4, CookieLike DEF Like, Leaves, Retains, Whole, Denied
  <1> HIDE DEF x, y
  <1>14. Whole([y EXCEPT !.remaining = 0])
    BY <1>5 DEF Whole
  <1>15. Over(c) /\ c.state = "CLOSED"
    BY <1>14, CloseOver
  <1> HIDE DEF c
  <1>9. Whole(b) /\ Keeps(y, b) /\ b.state = y.state /\ Keeps(y, n) /\ n.state = "HEADERS_PROCESSED"
    BY <1>5 DEF Keeps, Whole
  <1>10. CASE x = c
    BY <1>1, <1>10, <1>15, OverIsProper
  <1>11. CASE Denied(y) /\ x # c
    <2>1. Over(y) /\ Over(n) /\ (b.state # "INIT" => Over(b))
      BY <1>9, <1>11, DeniedAlike, ZenonT(60)
    <2>2. x \in {y, b}
      BY <1>3, <1>11
    <2>3. y.state # "INIT"
      BY <1>11 DEF Denied, Refused
    <2>4. Go(y) \/ Go(b) \/ Go(n)
      <3>1. CASE x = b
        BY <1>1, <3>1
      <3>2. CASE x = y /\ y.state = "CRASHED"
        BY <1>1, <3>2
      <3>3. x = b \/ (x = y /\ y.state = "CRASHED")
        BY <1>3, <1>11
      <3>4. QED
        BY <3>1, <3>2, <3>3
    <2>5. QED
      BY <1>9, <2>1, <2>3, <2>4, OverIsProper
  <1>7. CASE Like(K, y) /\ x # c
    <2>1. PICK p : /\ Follows(K.buf, wire[Cur], todo[Cur], s, p) /\ p \in Nat /\ r \in Nat /\ r + 1 \in 1 .. Len(s)
                   /\ K.rq = a /\ AtRequest(K, a, p - e)
                   /\ a \in Request /\ Len(a.body) \in Nat /\ e \in Nat /\ h \in Nat
                   /\ K.given = 0 /\ K.context = NULL /\ K.chunk = 0 /\ K.response = NULL
                   /\ (Complete(a) => IsFramedBody(a)) /\ (Complete(a) /\ a.expect => a.body # << >>)
      BY <1>2, StandsInRequest
    <2>20. /\ y.response = NULL /\ y.readClosed = FALSE /\ ~y.shutWr /\ y.told = r /\ y.rq = a /\ y.buf = K.buf
           /\ y.given = 0 /\ y.context = NULL /\ y.chunk = 0 /\ y.state = "HEADERS_RECEIVED"
      BY <1>1, <1>4, <1>7, <2>1 DEF Like, Leaves, Retains
    <2>21. x = b /\ ~invalid
      BY <1>3, <1>7, <2>20
    <2>2. Go(n)
      BY <1>1, <1>9, <2>20, <2>21
    <2>4. a.encoding = "none" => ~(a.length < 0)
      BY <2>1, <2>21
    <2>22. K.rq = a
      BY <2>1
    <2> HIDE DEF a, e, h, s, r
    <2>3. /\ Whole(n) /\ n.response = NULL /\ n.readClosed = FALSE /\ ~n.shutWr /\ n.told = r /\ n.rq = a
          /\ n.buf = K.buf
          /\ n.given = 0 /\ n.context = NULL /\ n.chunk = 0 /\ n.state = "HEADERS_PROCESSED"
          /\ n.chunked = (a.encoding = "chunked")
          /\ n.remaining = IF a.encoding # "none" THEN UNKNOWN ELSE a.length
      BY <1>5, <2>20, <2>22 DEF Whole
    <2> HIDE DEF n, b
    <2>5. p - e - h = 0 /\ Complete(a)
      BY <1>1, <2>1 DEF AtRequest, Heads, h
    <2>6. IsFramedBody(a)
      BY <2>1, <2>5
    <2>7. DataIn(a, 0) = 0
      BY <2>1, DataInGrows
    <2>8. a.encoding = "none" => a.length = Len(a.body) - 0
      <3>1. a.encoding = "none" => a.length = Len(a.body) \/ a.length < 0
        BY <2>6 DEF IsFramedBody
      <3>2. Len(a.body) - 0 = Len(a.body)
        BY <2>1
      <3>3. QED
        BY <2>4, <3>1, <3>2
    <2>9. a.encoding = "chunked" => \E lines \in SUBSET (1 .. Len(a.body)) : AreChunks(a, lines) /\ 0 + 0 + 1 \in lines
      <3>1. a.encoding = "chunked" => \E lines \in SUBSET (1 .. Len(a.body)) : AreChunks(a, lines)
        BY <2>6 DEF IsFramedBody
      <3>2. \A lines : AreChunks(a, lines) => 0 + 0 + 1 \in lines
        BY DEF AreChunks
      <3>3. QED
        BY <3>1, <3>2
    <2>10. IsData(a, 0 + 1, 0 + 0)
      BY DEF IsData
    <2>11. AtBody(n, a, 0)
      <3>1. 0 \in 0 .. Len(a.body)
        BY <2>1
      <3>2. 0 \in 0 .. Len(a.body) /\ n.given = DataIn(a, 0)
        BY <2>3, <2>7, <3>1
      <3>3. a.encoding = "none" => n.remaining = Len(a.body) - 0
        BY <2>3, <2>8
      <3>4. a.encoding = "chunked" =>
              /\ n.remaining = UNKNOWN /\ n.chunk \in Nat
              /\ \E lines \in SUBSET (1 .. Len(a.body)) : AreChunks(a, lines) /\ 0 + n.chunk + 1 \in lines
              /\ IsData(a, 0 + 1, 0 + n.chunk)
        BY <2>3, <2>9, <2>10
      <3>5. a.encoding \notin {"none", "chunked"} => n.remaining = UNKNOWN
        BY <2>3
      <3>6. QED
        BY <2>3, <3>2, <3>3, <3>4, <3>5 DEF AtBody
    <2>17. a.expect => n.remaining # 0
      <3>1. a.expect => Len(a.body) # 0
        <4>1. a.body \in Seq([kind : Kinds, n : Nat])
          BY <2>1 DEF Request
        <4>2. a.expect => a.body # << >>
          BY <2>1, <2>5
        <4>3. QED
          BY <4>1, <4>2, EmptySeq
      <3>2. a.encoding = "none" => n.remaining = Len(a.body)
        <4>1. a.encoding = "none" => n.remaining = a.length
          BY <2>3
        <4>2. Len(a.body) - 0 = Len(a.body)
          BY <2>1
        <4>3. QED
          BY <2>8, <4>1, <4>2
      <3>3. a.encoding # "none" => n.remaining = UNKNOWN
        BY <2>3
      <3>5. UNKNOWN # 0
        BY DEF UNKNOWN
      <3>4. QED
        BY <3>1, <3>2, <3>3, <3>5
    <2>12. AtRequest(n, a, p - e)
      BY <2>3, <2>5, <2>11, <2>17 DEF AtRequest, Heads, OfBody, Ending, Early, h
    <2>13. Placed(n, s, p)
      BY <2>1, <2>3, <2>12 DEF Placed, a, e
    <2>14. Here(n)
      BY <2>1, <2>3, <2>13 DEF Here, InItsPlace, IsOver, s
    <2>15. Seen(n) = Seen(K)
      <3>1. n.state \notin Asked \cup {"CLOSED", "CRASHED"} /\ K.state \notin Asked \cup {"CLOSED", "CRASHED"}
        BY <1>1, <2>3 DEF Asked
      <3>2. QED
        BY <1>4, <2>1, <2>3, <3>1, SeenAlike
    <2>16. QED
      BY <2>2, <2>14, <2>15 DEF Proper, Allowed
  <1>8. QED
    BY <1>5, <1>7, <1>10, <1>11

(* A first call is seen,                                                   *)
LEMMA CallIsSeen ==
  ASSUME Standing, K.state = "HEADERS_PROCESSED", NEW n, n.rq = K.rq, n.given = K.given, ~n.shutWr,
         n.response = "app" \/ (n.response = NULL /\ n.readClosed = FALSE /\ n.state \in Asked),
         n.state \notin {"CLOSED", "CRASHED"}
  PROVE  CalledFirst(Seen(K), Seen(n))
  <1>1. K.readClosed = FALSE /\ ~K.shutWr /\ K.given = 0 /\ K.context = NULL /\ K.response = NULL
    <2>1. K.state \in Reading \ {"INIT"} /\ K.state \in Early
      BY DEF Reading, Early
    <2>2. QED
      BY <2>1, StandsSomewhere, StandsInRequest
  <1>2. ~IsOver(K) /\ Calls(K) = "none"
    BY <1>1, MCAssumption DEF IsOver, Calls, Asked
  <1>3. ~IsOver(n)
    BY DEF IsOver
  <1>4. Calls(n) \in {"started", "answered"}
    BY <1>3, MCAssumption DEF Calls
  <1>5. QED
    BY <1>1, <1>2, <1>3, <1>4 DEF CalledFirst, IsCalled, Seen

(* and after it the body or its end is waited for, unless it was answered  *)
(* early.                                                                  *)
LEMMA CalledIsProper ==
  ASSUME Standing, K.state = "HEADERS_PROCESSED", NEW n, Whole(n), n.buf = K.buf, n.told = K.told, n.rq = K.rq,
         n.given = K.given, n.chunk = K.chunk, n.chunked = K.chunked, n.remaining = K.remaining,
         n.response \in {NULL, "app"}, n.readClosed = FALSE, ~n.shutWr,
         n.state \in {"CONTINUE_SENDING", "CONTINUE_SENT"} \/ (n.state = "FOOTERS_RECEIVED" /\ K.remaining = 0),
         n.state = "CONTINUE_SENDING" => K.rq.expect,
         Go(n) \/ Break(n)
  PROVE  Proper(n)
  <1> DEFINE s == script[Cur]
             r == K.told
             a == s[r + 1]
             e == EndOf(s, r)
             h == Len(a.head)
  <1>1. K.state \in Reading \ {"INIT"} /\ K.state \in Early
    BY DEF Reading, Early
  <1>2. PICK p : /\ Follows(K.buf, wire[Cur], todo[Cur], s, p) /\ p \in Nat /\ r \in Nat /\ r + 1 \in 1 .. Len(s)
                 /\ K.rq = a /\ AtRequest(K, a, p - e)
                 /\ a \in Request /\ Len(a.body) \in Nat /\ e \in Nat /\ h \in Nat
                 /\ K.given = 0 /\ K.context = NULL /\ K.chunk = 0 /\ K.response = NULL
    BY <1>1, StandsInRequest
  <1> DEFINE i == p - e - h
  <1> HIDE DEF a, e, h, s, r
  <1>3. AtBody(K, a, i) /\ Complete(a) /\ (K.chunked => K.remaining = UNKNOWN) /\ (a.expect => K.remaining # 0)
    BY <1>2 DEF AtRequest, OfBody, Heads, h
  <1>11. n.state = "CONTINUE_SENDING" => n.remaining # 0
    BY <1>2, <1>3
  <1> HIDE DEF i
  <1>4. AtBody(n, a, i)
    BY <1>3 DEF AtBody
  <1>5. n.state = "FOOTERS_RECEIVED" => i = Len(a.body) /\ n.given = BodySize(a)
    <2> SUFFICES ASSUME K.remaining = 0 PROVE i = Len(a.body) /\ n.given = BodySize(a)
      OBVIOUS
    <2>5. /\ i \in 0 .. Len(a.body) /\ K.chunked = (a.encoding = "chunked")
          /\ a.encoding = "none" => K.remaining = Len(a.body) - i
          /\ a.encoding \notin {"none", "chunked"} => K.remaining = UNKNOWN
      BY <1>3 DEF AtBody
    <2>6. UNKNOWN # 0
      BY DEF UNKNOWN
    <2>1. a.encoding = "none"
      BY <1>3, <2>5, <2>6
    <2>2. i = Len(a.body)
      <3>1. K.remaining = Len(a.body) - i /\ i \in 0 .. Len(a.body)
        BY <2>1, <2>5
      <3>2. QED
        BY <1>2, <3>1
    <2>3. QED
      BY <1>2, <1>4, <2>2, DataInGrows DEF AtBody
  <1>6. AtRequest(n, a, p - e)
    <2>1. CASE n.state = "FOOTERS_RECEIVED"
      BY <1>3, <1>5, <2>1 DEF AtRequest, Heads, OfBody, Ending, Early, h, i
    <2>2. CASE n.state \in {"CONTINUE_SENDING", "CONTINUE_SENT"}
      BY <1>3, <1>4, <1>11, <2>2 DEF AtRequest, Heads, OfBody, Ending, Early, h, i
    <2>3. QED
      BY <2>1, <2>2
  <1>7. Placed(n, s, p)
    BY <1>2, <1>6 DEF Placed, Early, a, e, r
  <1>8. Here(n)
    BY <1>2, <1>7 DEF Here, InItsPlace, IsOver, Early, s
  <1>9. CalledFirst(Seen(K), Seen(n))
    BY CallIsSeen DEF Asked
  <1>10. QED
    BY <1>8, <1>9 DEF Proper, Allowed

(* The application's first call.                                           *)
LEMMA FirstCallProper == ASSUME Standing, FirstCall PROVE \E k : Proper(k)
  <1> DEFINE c == [K EXCEPT !.context = App]
             q == [K EXCEPT !.response = "app", !.refs = @ + 1, !.left = K.rq.reply]
             u == [q EXCEPT !.readClosed = TRUE, !.state = "FOOTERS_RECEIVED"]
  <1>1. K.state = "HEADERS_PROCESSED"
    BY DEF FirstCall, Idle
  <1>2. PICK k \in FirstCalls(K) :
          CASE k.state = "CLOSED" -> Go(k)
            [] k.state # "CLOSED" /\ Need100Continue(k) -> Break([k EXCEPT !.state = "CONTINUE_SENDING"])
            [] OTHER -> Go(AfterFirstCall(k))
    BY DEF FirstCall
  <1>3. Whole(K) /\ K.readClosed = FALSE /\ ~K.shutWr
    BY <1>1, StandsSomewhere DEF Reading
  <1>4. K.response = NULL
    BY <1>1, StandsSomewhere DEF Reading, Early
  <1>5. k = Close(K) \/ k \in {K, c} \/ (k = q /\ ~IsUpload(K)) \/ (k = u /\ IsUpload(K))
    BY <1>1, <1>2, <1>4 DEF FirstCalls, Answer, QueueResponse
  <1>6. CASE k = Close(K)
    <2>1. Over(k) /\ k.state = "CLOSED"
      BY <1>3, <1>6, CloseOver
    <2>2. QED
      BY <1>2, <2>1, OverIsProper
  <1>7. CASE k = u /\ IsUpload(K)
    <2> DEFINE z == [k EXCEPT !.remaining = 0, !.readClosed = TRUE]
               n == [z EXCEPT !.state = IF z.remaining = 0 THEN "FOOTERS_RECEIVED" ELSE "CONTINUE_SENT"]
    <2>1. /\ Whole(k) /\ k.response = "app" /\ k.readClosed = TRUE /\ ~k.shutWr
          /\ k.state = "FOOTERS_RECEIVED" /\ k.rq = K.rq
          /\ k.given = K.given
      BY <1>3, <1>7 DEF Whole
    <2>2. k.response # NULL /\ IsUpload(k)
      BY <1>7, <2>1, MCAssumption DEF IsUpload
    <2>3. AfterFirstCall(k) = n
      BY <2>2 DEF AfterFirstCall
    <2>4. Go(n)
      BY <1>2, <2>1, <2>2, <2>3 DEF Need100Continue
    <2>5. /\ Whole(z) /\ z.response = "app" /\ z.readClosed = TRUE /\ ~z.shutWr /\ z.remaining = 0
          /\ z.rq = K.rq /\ z.given = K.given
      BY <2>1 DEF Whole
    <2> HIDE DEF z
    <2>6. /\ Whole(n) /\ n.response = "app" /\ n.readClosed = TRUE /\ ~n.shutWr
          /\ n.state = "FOOTERS_RECEIVED" /\ n.rq = K.rq
          /\ n.given = K.given
      BY <2>5 DEF Whole
    <2> HIDE DEF n
    <2>7. Here(n)
      BY <2>6, MCAssumption DEF Here, InItsPlace, IsOver, Reading, Early
    <2>8. CalledFirst(Seen(K), Seen(n))
      BY <1>1, <2>6, CallIsSeen
    <2>9. QED
      BY <2>4, <2>7, <2>8 DEF Proper, Allowed
  <1>8. CASE k \in {K, c} \/ (k = q /\ ~IsUpload(K))
    <2> DEFINE x == [k EXCEPT !.state = "CONTINUE_SENDING"]
               n == [k EXCEPT !.state = IF k.remaining = 0 THEN "FOOTERS_RECEIVED" ELSE "CONTINUE_SENT"]
    <2>1. /\ Whole(k) /\ k.response \in {NULL, "app"} /\ k.readClosed = FALSE /\ ~k.shutWr
          /\ k.state = "HEADERS_PROCESSED"
          /\ k.rq = K.rq /\ k.given = K.given /\ k.buf = K.buf /\ k.told = K.told /\ k.chunk = K.chunk
          /\ k.chunked = K.chunked /\ k.remaining = K.remaining
      BY <1>1, <1>3, <1>4, <1>8 DEF Whole
    <2>2. k.response # NULL => ~IsUpload(k)
      <3>1. c.response = NULL
        BY <1>3, <1>4 DEF Whole
      <3>2. k.response # NULL => ~IsUpload(K)
        BY <1>4, <1>8, <3>1
      <3>3. QED
        BY <2>1, <3>2 DEF IsUpload
    <2>3. AfterFirstCall(k) = n
      BY <2>2 DEF AfterFirstCall
    <2>4. (Break(x) /\ K.rq.expect) \/ Go(n)
      BY <1>2, <2>1, <2>3 DEF Need100Continue
    <2>5. /\ Whole(x) /\ x.response \in {NULL, "app"} /\ x.readClosed = FALSE /\ ~x.shutWr
          /\ x.state = "CONTINUE_SENDING"
          /\ x.rq = K.rq /\ x.given = K.given /\ x.buf = K.buf /\ x.told = K.told /\ x.chunk = K.chunk
          /\ x.chunked = K.chunked /\ x.remaining = K.remaining
      BY <2>1 DEF Whole
    <2>6. /\ Whole(n) /\ n.response \in {NULL, "app"} /\ n.readClosed = FALSE /\ ~n.shutWr
          /\ n.state = IF K.remaining = 0 THEN "FOOTERS_RECEIVED" ELSE "CONTINUE_SENT"
          /\ n.rq = K.rq /\ n.given = K.given /\ n.buf = K.buf /\ n.told = K.told /\ n.chunk = K.chunk
          /\ n.chunked = K.chunked /\ n.remaining = K.remaining
      BY <2>1 DEF Whole
    <2> HIDE DEF x, n
    <2>7. Break(x) /\ K.rq.expect => Proper(x)
      BY <1>1, <2>5, CalledIsProper
    <2>8. Go(n) => Proper(n)
      BY <1>1, <2>6, CalledIsProper
    <2>9. QED
      BY <2>4, <2>7, <2>8
  <1>9. QED
    BY <1>5, <1>6, <1>7, <1>8
-----------------------------------------------------------------------------
(* It may stay as it is.                                                   *)
LEMMA StaysProper == ASSUME Standing, Go(K) \/ Break(K) PROVE Proper(K)
  BY DEF Standing, Proper, Here, Allowed

(* A connection in the body of a request, of which it has read i bytes.    *)
LEMMA StandsInBody ==
  ASSUME Standing, K.state \in {"CONTINUE_SENDING", "CONTINUE_SENT"}
  PROVE  LET s == script[Cur]
             r == K.told
             a == s[r + 1]
             b == EndOf(s, r) + Len(a.head)
         IN  /\ Whole(K) /\ K.readClosed = FALSE /\ ~K.shutWr /\ s \in Seq(Request)
             /\ r \in Nat /\ r + 1 \in 1 .. Len(s) /\ (r + 1) - 1 = r /\ K.rq = a /\ a \in Request
             /\ Len(a.body) \in Nat /\ EndOf(s, r) \in Nat /\ Len(a.head) \in Nat
             /\ Complete(a) /\ IsFramedBody(a) /\ (a.encoding = "other" => r + 1 = Len(s))
             /\ \E i \in Nat : Follows(K.buf, wire[Cur], todo[Cur], s, b + i) /\ AtBody(K, a, i)
             /\ (K.state = "CONTINUE_SENDING" => K.remaining # 0)
  <1> DEFINE s == script[Cur]
             r == K.told
             a == s[r + 1]
             e == EndOf(s, r)
             h == Len(a.head)
  <1>1. K.state \in Reading \ {"INIT"} /\ K.state \in OfBody /\ K.state \notin Heads
    BY DEF Reading, OfBody, Heads
  <1>2. PICK p : /\ Follows(K.buf, wire[Cur], todo[Cur], s, p) /\ p \in Nat /\ r \in Nat /\ r + 1 \in 1 .. Len(s)
                 /\ (r + 1) - 1 = r /\ K.rq = a /\ AtRequest(K, a, p - e)
                 /\ a \in Request /\ Len(a.body) \in Nat /\ e \in Nat /\ h \in Nat
                 /\ (Complete(a) => IsFramedBody(a))
                 /\ (Complete(a) /\ a.encoding = "other" => r + 1 = Len(s))
    BY <1>1, StandsInRequest
  <1>3. Whole(K) /\ K.readClosed = FALSE /\ ~K.shutWr /\ s \in Seq(Request)
    BY <1>1, StandsSomewhere DEF Standing
  <1> DEFINE i == p - e - h
  <1> HIDE DEF s, r, a, e
  <1>4. AtBody(K, a, i) /\ Complete(a) /\ (K.state = "CONTINUE_SENDING" => K.remaining # 0)
    BY <1>1, <1>2 DEF AtRequest
  <1> HIDE DEF h
  <1>5. i \in Nat
    <2>1. i \in 0 .. Len(a.body)
      BY <1>4 DEF AtBody
    <2>2. QED
      BY <1>2, <2>1
  <1>6. (e + h) + i = p
    BY <1>2
  <1> HIDE DEF i
  <1>7. QED
    BY <1>2, <1>3, <1>4, <1>5, <1>6 DEF s, r, a, e, h

(* It stays in the body when the state changes to that of it, or more of   *)
(* it is read.                                                             *)
LEMMA InBodyIsHere ==
  ASSUME Standing, NEW n, Whole(n), n.state = "CONTINUE_SENT", n.readClosed = FALSE, ~n.shutWr, n.told = K.told,
         K.told \in Nat,
         K.told + 1 \in 1 .. Len(script[Cur]), n.rq = script[Cur][K.told + 1], NEW i \in Nat,
         EndOf(script[Cur], K.told) \in Nat, Len(script[Cur][K.told + 1].head) \in Nat,
         Complete(script[Cur][K.told + 1]), AtBody(n, script[Cur][K.told + 1], i),
         Follows(n.buf, wire[Cur], todo[Cur], script[Cur],
                 EndOf(script[Cur], K.told) + Len(script[Cur][K.told + 1].head) + i)
  PROVE  Here(n)
  <1> DEFINE s == script[Cur]
             r == K.told
             a == s[r + 1]
             e == EndOf(s, r)
             h == Len(a.head)
             p == e + h + i
  <1> HIDE DEF s, r, a, e, h
  <1>1. e \in Nat /\ h \in Nat
    BY DEF s, r, a, e, h
  <1>2. p - e - h = i
    BY <1>1
  <1> HIDE DEF p
  <1>3. AtBody(n, a, p - e - h) /\ Complete(a) /\ r \in Nat /\ r + 1 \in 1 .. Len(s) /\ n.told = r /\ n.rq = a
    BY <1>2 DEF s, r, a
  <1>4. AtRequest(n, a, p - e)
    BY <1>3 DEF AtRequest, Heads, OfBody, Ending, Early, h
  <1>5. Placed(n, s, p)
    BY <1>3, <1>4 DEF Placed, Early, a, e
  <1>6. Follows(n.buf, wire[Cur], todo[Cur], s, p)
    BY DEF s, r, a, e, h, p
  <1>7. QED
    BY <1>5, <1>6 DEF Here, InItsPlace, IsOver, Early, s

(* `100 Continue' is sent.                                                 *)
LEMMA ContinueProper == ASSUME Standing, ContinueSending PROVE \E k : Proper(k)
  <1> DEFINE n == [K EXCEPT !.state = "CONTINUE_SENT"]
  <1>0. K.state = "CONTINUE_SENDING" /\ K.remaining # 0
    BY StandsInBody DEF ContinueSending, Idle
  <1>1. K.state = "CONTINUE_SENDING" /\ (Go(n) \/ Break(K))
    BY <1>0 DEF ContinueSending
  <1>2. CASE Break(K)
    BY <1>2, StaysProper
  <1>3. CASE Go(n)
    <2>1. /\ Whole(K) /\ K.readClosed = FALSE /\ ~K.shutWr /\ K.told \in Nat /\ K.told + 1 \in 1 .. Len(script[Cur])
          /\ K.rq = script[Cur][K.told + 1] /\ Complete(script[Cur][K.told + 1])
          /\ EndOf(script[Cur], K.told) \in Nat /\ Len(script[Cur][K.told + 1].head) \in Nat
          /\ \E i \in Nat : /\ Follows(K.buf, wire[Cur], todo[Cur], script[Cur],
                                        EndOf(script[Cur], K.told) + Len(script[Cur][K.told + 1].head) + i)
                            /\ AtBody(K, script[Cur][K.told + 1], i)
      BY <1>1, StandsInBody
    <2>2. /\ Whole(n) /\ n.state = "CONTINUE_SENT" /\ n.told = K.told /\ n.rq = K.rq /\ n.buf = K.buf
          /\ n.response = K.response /\ n.readClosed = K.readClosed /\ n.shutWr = K.shutWr
          /\ n.given = K.given /\ n.context = K.context
          /\ n.chunk = K.chunk /\ n.chunked = K.chunked /\ n.remaining = K.remaining
      BY <2>1 DEF Whole
    <2>3. Seen(n) = Seen(K)
      BY <1>1, <2>2, SeenAlike DEF Asked
    <2> HIDE DEF n
    <2>4. \A a, i : AtBody(K, a, i) => AtBody(n, a, i)
      BY <2>2, ZenonT(60) DEF AtBody
    <2>5. Here(n)
      BY <2>1, <2>2, <2>4, InBodyIsHere
    <2>6. QED
      BY <1>3, <2>3, <2>5 DEF Proper, Allowed
  <1>4. QED
    BY <1>1, <1>2, <1>3
(* The body of a request in what its client sends.                         *)
LEMMA BodyAt ==
  ASSUME NEW s \in Seq(Request), NEW r \in Nat, r + 1 \in 1 .. Len(s)
  PROVE  LET a == s[r + 1]
             b == EndOf(s, r) + Len(a.head)
         IN  /\ \A j \in 1 .. Len(a.body) : Stream(s)[b + j].kind = a.body[j].kind /\ Stream(s)[b + j].n = a.body[j].n
             /\ EndOf(s, r + 1) = b + Len(a.body) /\ (r + 1 = Len(s) => EndOf(s, r + 1) = Len(Stream(s)))
  <1> DEFINE q == r + 1
  <1>1. q \in 1 .. Len(s) /\ q - 1 = r
    OBVIOUS
  <1> HIDE DEF q
  <1>2. LET a == s[q]
            from == EndOf(s, q - 1)
            h == Len(a.head)
            d == Len(a.body)
        IN  /\ a \in Request /\ q \in Nat /\ from \in Nat /\ h \in Nat /\ d \in Nat
            /\ EndOf(s, q) = from + h + d /\ from + h + d <= Len(Stream(s)) /\ Len(Stream(s)) \in Nat
            /\ \A i \in 1 .. h : Stream(s)[from + i].kind = a.head[i] /\ Stream(s)[from + i].id = q
            /\ \A i \in 1 .. d : /\ Stream(s)[from + h + i].kind = a.body[i].kind
                                 /\ Stream(s)[from + h + i].n = a.body[i].n
                                 /\ Stream(s)[from + h + i].id = q
            /\ q = Len(s) => EndOf(s, q) = Len(Stream(s))
    BY <1>1, RequestAt
  <1>3. QED
    BY <1>1, <1>2 DEF q

(* A line that says how much data follows, which may be none.              *)
LEMMA ChunkIsNext ==
  ASSUME NEW k, NEW a \in Request, NEW i \in Nat, Len(a.body) \in Nat, AtBody(k, a, i),
         k.chunked = TRUE, k.remaining = UNKNOWN,
         k.chunk = 0
  PROVE  LET m == a.body[i + 1].n
         IN  /\ i + 1 \in 1 .. Len(a.body) /\ a.body[i + 1].kind = "chunk" /\ m \in Nat
             /\ DataIn(a, i + 1) = DataIn(a, i)
             /\ m = 0 => IsTrailer(a, (i + 1) + 1)
             /\ m # 0 => /\ \E lines \in SUBSET (1 .. Len(a.body)) : AreChunks(a, lines) /\ (i + 1) + m + 1 \in lines
                         /\ IsData(a, (i + 1) + 1, (i + 1) + m)
  <1> DEFINE m == a.body[i + 1].n
  <1>1. a.encoding = "chunked" /\ UNKNOWN # 0
    <2>1. k.chunked = (a.encoding = "chunked")
      BY DEF AtBody
    <2>2. a.encoding = "chunked"
      BY <2>1
    <2>3. QED
      BY <2>2 DEF UNKNOWN
  <1>2. \E lines \in SUBSET (1 .. Len(a.body)) : AreChunks(a, lines) /\ i + 0 + 1 \in lines
    BY <1>1 DEF AtBody
  <1>3. PICK lines \in SUBSET (1 .. Len(a.body)) : AreChunks(a, lines) /\ i + 0 + 1 \in lines
    BY <1>2
  <1>4. i + 1 \in lines /\ i + 1 \in 1 .. Len(a.body)
    BY <1>3
  <1>5. /\ a.body[i + 1].kind = "chunk"
        /\ m = 0 => IsTrailer(a, (i + 1) + 1)
        /\ m # 0 => (i + 1) + m + 1 \in lines /\ IsData(a, (i + 1) + 1, (i + 1) + m)
    BY <1>3, <1>4 DEF AreChunks
  <1>6. m \in Nat
    <2>1. a.body \in Seq([kind : Kinds, n : Nat])
      BY DEF Request
    <2>2. a.body[i + 1] \in [kind : Kinds, n : Nat]
      BY <1>4, <2>1, ElementOfSeq
    <2>3. QED
      BY <2>2
  <1>7. DataIn(a, i + 1) = DataIn(a, i)
    <2>1. \A j \in i + 1 .. i + 1 : a.body[j].kind # "data"
      <3>1. \A j \in i + 1 .. i + 1 : j = i + 1
        OBVIOUS
      <3>2. QED
        BY <1>5, <3>1
    <2>2. i + 1 \in Nat /\ i <= i + 1
      OBVIOUS
    <2>3. \A x, y \in Nat : x <= y /\ (\A j \in x + 1 .. y : a.body[j].kind # "data") => DataIn(a, y) = DataIn(a, x)
      BY DataInGrows
    <2>4. QED
      BY <2>1, <2>2, <2>3
  <1> HIDE DEF m
  <1>8. m # 0 => \E l \in SUBSET (1 .. Len(a.body)) : AreChunks(a, l) /\ (i + 1) + m + 1 \in l
    BY <1>3, <1>5
  <1>9. QED
    BY <1>4, <1>5, <1>6, <1>7, <1>8 DEF m

(* process_request_body, at the line of a chunk.                           *)
LEMMA ChunkLineProper == ASSUME Standing, ReadChunkLine PROVE \E k : Proper(k)
  <1> DEFINE s == script[Cur]
             r == K.told
             a == s[r + 1]
             e == EndOf(s, r)
             h == Len(a.head)
             t == Head(K.buf)
             n == [K EXCEPT !.buf = Tail(K.buf), !.chunk = t.n, !.remaining = IF t.n = 0 THEN 0 ELSE UNKNOWN]
  <1>1. /\ K.state = "CONTINUE_SENT" /\ K.buf # << >> /\ K.response = NULL /\ K.chunked = TRUE /\ K.remaining = UNKNOWN
        /\ K.chunk = 0 /\ Go(ChunkLine(K))
    <2>1. K.chunked = TRUE
      <3>1. K.chunked \in BOOLEAN
        BY StandsInBody DEF AtBody, ReadChunkLine, Idle
      <3>2. QED
        BY <3>1 DEF ReadChunkLine, AtChunkLine, InChunks
    <2>2. QED
      BY <2>1 DEF ReadChunkLine, Idle, HasBody, AtChunkLine, InChunks
  <1>2. /\ Whole(K) /\ K.readClosed = FALSE /\ ~K.shutWr /\ s \in Seq(Request)
        /\ r \in Nat /\ r + 1 \in 1 .. Len(s) /\ (r + 1) - 1 = r /\ K.rq = a /\ a \in Request
        /\ Len(a.body) \in Nat /\ e \in Nat /\ h \in Nat /\ Complete(a)
        /\ \E i \in Nat : Follows(K.buf, wire[Cur], todo[Cur], s, e + h + i) /\ AtBody(K, a, i)
    BY <1>1, StandsInBody
  <1>3. ChunkLine(K) = IF t.kind # "chunk" THEN Close(K) ELSE n
    BY DEF ChunkLine
  <1>4. CASE t.kind # "chunk"
    <2>1. Go(Close(K)) /\ Over(Close(K))
      BY <1>1, <1>2, <1>3, <1>4, CloseOver
    <2>2. QED
      BY <2>1, OverIsProper
  <1>5. CASE t.kind = "chunk"
    <2>1. PICK i \in Nat : Follows(K.buf, wire[Cur], todo[Cur], s, e + h + i) /\ AtBody(K, a, i)
      BY <1>2
    <2> DEFINE m == a.body[i + 1].n
    <2>2. /\ i + 1 \in 1 .. Len(a.body) /\ m \in Nat
          /\ DataIn(a, i + 1) = DataIn(a, i)
          /\ m = 0 => IsTrailer(a, (i + 1) + 1)
          /\ m # 0 => /\ \E lines \in SUBSET (1 .. Len(a.body)) : AreChunks(a, lines) /\ (i + 1) + m + 1 \in lines
                      /\ IsData(a, (i + 1) + 1, (i + 1) + m)
      <3> HIDE DEF a
      <3>1. QED
        BY <1>1, <1>2, <2>1, ChunkIsNext, ZenonT(60)
    <2>3. /\ \A j \in 1 .. Len(a.body) : Stream(s)[e + h + j].n = a.body[j].n
      <3> HIDE DEF s, r
      <3>1. QED
        BY <1>2, BodyAt
    <2> DEFINE q == K.buf
               S == Byte(Len(s))
    <2>4. q \in Seq(S) /\ Len(q) \in Nat /\ q # << >> /\ \A j \in 1 .. Len(q) : q[j] = Stream(s)[e + h + i + j]
      BY <1>1, <2>1, LenProperties DEF Follows
    <2>5. Len(q) # 0 /\ Tail(q) = SubSeq(q, 1 + 1, Len(q)) /\ t = q[1]
      <3> HIDE DEF S, q
      <3>1. Len(q) # 0
        BY <2>4, EmptySeq
      <3>2. Tail(q) = SubSeq(q, 2, Len(q))
        BY <2>4, TailIsSubSeq
      <3>3. QED
        BY <2>4, <3>1, <3>2 DEF q
    <2> HIDE DEF e, h, s, r, a
    <2>6. t.n = m
      <3>1. 1 \in 1 .. Len(q) /\ e + h + i + 1 = e + h + (i + 1)
        BY <1>2, <2>4, <2>5
      <3>2. QED
        BY <2>2, <2>3, <2>4, <2>5, <3>1
    <2>7. Follows(Tail(q), wire[Cur], todo[Cur], s, e + h + (i + 1))
      <3>1. 1 \in 0 .. Len(q) /\ e + h + i + 1 = e + h + (i + 1)
        BY <1>2, <2>4, <2>5
      <3> HIDE DEF q
      <3>2. Follows(q, wire[Cur], todo[Cur], s, e + h + i)
        BY <2>1 DEF q
      <3>3. Follows(SubSeq(q, 1 + 1, Len(q)), wire[Cur], todo[Cur], s, e + h + i + 1)
        BY <3>1, <3>2, FollowsDrop
      <3>4. QED
        BY <2>5, <3>1, <3>3
    <2> HIDE DEF m, t
    <2>8. /\ Whole(n) /\ n.state = "CONTINUE_SENT" /\ n.told = r /\ n.rq = a /\ n.buf = Tail(q)
          /\ n.response = NULL /\ n.readClosed = FALSE /\ ~n.shutWr /\ n.shutWr = K.shutWr
          /\ n.given = K.given /\ n.context = K.context
          /\ n.chunk = m /\ n.chunked = K.chunked /\ n.remaining = IF m = 0 THEN 0 ELSE UNKNOWN
      BY <1>1, <1>2, <2>6 DEF Whole, r
    <2>9. Seen(n) = Seen(K)
      <3> HIDE DEF n
      <3>1. /\ n.rq = K.rq /\ n.state = K.state /\ n.response = K.response /\ n.readClosed = K.readClosed
            /\ n.shutWr = K.shutWr
        BY <1>1, <1>2, <2>8
      <3>2. QED
        BY <1>1, <2>8, <3>1, SeenAlike
    <2>10. Go(n)
      BY <1>1, <1>3, <1>5
    <2> HIDE DEF n
    <2>11. AtBody(n, a, i + 1)
      <3>1. K.given = DataIn(a, i) /\ K.chunked = (a.encoding = "chunked")
        BY <2>1 DEF AtBody
      <3>5. a.encoding = "chunked"
        BY <1>1, <3>1
      <3>2. i + 1 \in 0 .. Len(a.body) /\ a.encoding = "chunked"
        BY <1>2, <2>2, <3>5
      <3>3. \/ /\ n.remaining = UNKNOWN /\ n.chunk \in Nat
               /\ \E lines \in SUBSET (1 .. Len(a.body)) : AreChunks(a, lines) /\ (i + 1) + n.chunk + 1 \in lines
               /\ IsData(a, (i + 1) + 1, (i + 1) + n.chunk)
            \/ n.remaining = 0 /\ IsTrailer(a, (i + 1) + 1)
        BY <2>2, <2>8, SMTT(60)
      <3>4. QED
        BY <2>2, <2>8, <3>1, <3>2, <3>3 DEF AtBody
    <2>12. Here(n)
      <3>1. i + 1 \in Nat
        OBVIOUS
      <3>2. QED
        BY <1>2, <2>7, <2>8, <2>11, <3>1, InBodyIsHere DEF s, r, a, e, h
    <2>13. QED
      BY <2>9, <2>10, <2>12 DEF Proper, Allowed
  <1>6. QED
    BY <1>4, <1>5
(* What is given to the application is data of this request, and no more.  *)
LEMMA DataIsNext ==
  ASSUME NEW k, Whole(k), NEW a \in Request, IsFramedBody(a), NEW i \in Nat, Len(a.body) \in Nat, AtBody(k, a, i),
         Len(k.buf) \in Nat \ {0}, k.remaining # 0, ~AtChunkLine(k),
         a.encoding = "other" => i + Len(k.buf) <= Len(a.body)
  PROVE  LET n == ToBeProcessed(k)
         IN  /\ n \in 1 .. Len(k.buf) /\ i + n \in 0 .. Len(a.body) /\ DataIn(a, i + n) = DataIn(a, i) + n
             /\ a.encoding = "none" => k.remaining - n = Len(a.body) - (i + n) /\ k.remaining # UNKNOWN
             /\ a.encoding = "chunked" =>
                  /\ k.remaining = UNKNOWN /\ InChunks(k) /\ k.chunk - n \in Nat
                  /\ \E lines \in SUBSET (1 .. Len(a.body)) : AreChunks(a, lines) /\ (i + n) + (k.chunk - n) + 1 \in lines
                  /\ IsData(a, (i + n) + 1, (i + n) + (k.chunk - n))
             /\ a.encoding = "other" => k.remaining = UNKNOWN
  <1> DEFINE n == ToBeProcessed(k)
             L == Len(k.buf)
             d == Len(a.body)
  <1>1. /\ i \in 0 .. d /\ k.chunked = (a.encoding = "chunked")
        /\ a.encoding = "none" => k.remaining = d - i
        /\ a.encoding = "chunked" =>
             \/ /\ k.remaining = UNKNOWN /\ k.chunk \in Nat
                /\ \E lines \in SUBSET (1 .. d) : AreChunks(a, lines) /\ i + k.chunk + 1 \in lines
                /\ IsData(a, i + 1, i + k.chunk)
             \/ k.remaining = 0
        /\ a.encoding = "other" => k.remaining = UNKNOWN
    BY DEF AtBody
  <1>2. a.encoding \in {"none", "chunked", "other"}
    BY DEF Request
  <1>3. a.encoding # "chunked" => IsData(a, 1, d)
    BY DEF IsFramedBody
  <1>4. InChunks(k) <=> k.chunked /\ k.remaining = UNKNOWN
    BY DEF InChunks
  <1>5. L \in Nat /\ L # 0 /\ d \in Nat
    OBVIOUS
  <1>6. n = CASE InChunks(k) -> Smaller(k.chunk, L)
              [] ~InChunks(k) /\ k.remaining > 0 -> Smaller(k.remaining, L)
              [] OTHER -> L
    BY DEF ToBeProcessed
  <1> DEFINE IsNext == n \in 1 .. L /\ i + n \in 0 .. d /\ IsData(a, i + 1, i + n)
  <1> HIDE DEF n, L, d
  <1>7. ASSUME a.encoding = "none" PROVE IsNext /\ k.remaining - n = d - (i + n) /\ k.remaining # UNKNOWN
    <2>7. k.chunked = FALSE
      BY <1>1, <1>7
    <2>8. ~InChunks(k)
      BY <1>4, <2>7
    <2>9. k.remaining = d - i
      BY <1>1, <1>7
    <2>1. k.remaining = d - i /\ ~InChunks(k) /\ i \in Nat /\ i <= d
      <3>1. i \in 0 .. d
        BY <1>1
      <3>2. QED
        BY <1>5, <2>8, <2>9, <3>1
    <2>2. k.remaining \in Nat /\ k.remaining > 0 /\ k.remaining # UNKNOWN
      BY <1>5, <2>1 DEF UNKNOWN
    <2>3. n = Smaller(k.remaining, L)
      BY <1>6, <2>1, <2>2
    <2>4. n \in 1 .. L /\ i + n \in 0 .. d /\ k.remaining - n = d - (i + n)
      BY <1>5, <2>1, <2>2, <2>3 DEF Smaller
    <2>5. IsData(a, i + 1, i + n)
      <3>1. i + 1 .. i + n \subseteq 1 .. d
        BY <1>5, <2>1, <2>4
      <3>2. QED
        BY <1>3, <1>7, <3>1 DEF IsData
    <2>6. QED
      BY <2>2, <2>4, <2>5
  <1>8. ASSUME a.encoding = "chunked"
        PROVE  /\ IsNext /\ k.remaining = UNKNOWN /\ InChunks(k) /\ k.chunk - n \in Nat
               /\ \E lines \in SUBSET (1 .. d) : AreChunks(a, lines) /\ (i + n) + (k.chunk - n) + 1 \in lines
               /\ IsData(a, (i + n) + 1, (i + n) + (k.chunk - n))
    <2>1. /\ k.remaining = UNKNOWN /\ k.chunk \in Nat
          /\ \E lines \in SUBSET (1 .. d) : AreChunks(a, lines) /\ i + k.chunk + 1 \in lines
          /\ IsData(a, i + 1, i + k.chunk)
      BY <1>1, <1>8
    <2>2. InChunks(k)
      <3>1. k.chunked = TRUE
        BY <1>1, <1>8
      <3>2. QED
        BY <1>4, <2>1, <3>1
    <2>3. k.chunk # 0
      BY <2>2 DEF AtChunkLine
    <2>4. n = Smaller(k.chunk, L)
      BY <1>6, <2>1, <2>2
    <2>5. n \in 1 .. L /\ n <= k.chunk
      BY <1>5, <2>1, <2>3, <2>4 DEF Smaller
    <2>6. i + k.chunk + 1 \in 1 .. d
      BY <2>1
    <2>7. i + n \in 0 .. d /\ k.chunk - n \in Nat /\ (i + n) + (k.chunk - n) = i + k.chunk
      BY <1>5, <2>1, <2>5, <2>6, SMTT(60)
    <2>8. IsData(a, i + 1, i + n) /\ IsData(a, (i + n) + 1, (i + n) + (k.chunk - n))
      <3>1. i + 1 .. i + n \subseteq i + 1 .. i + k.chunk /\ (i + n) + 1 .. i + k.chunk \subseteq i + 1 .. i + k.chunk
        BY <1>5, <2>1, <2>5
      <3>2. IsData(a, i + 1, i + n) /\ IsData(a, (i + n) + 1, i + k.chunk)
        BY <2>1, <3>1 DEF IsData
      <3>3. QED
        BY <2>7, <3>2
    <2>9. \E lines \in SUBSET (1 .. d) : AreChunks(a, lines) /\ (i + n) + (k.chunk - n) + 1 \in lines
      BY <2>1, <2>7
    <2>10. QED
      BY <2>1, <2>2, <2>5, <2>7, <2>8, <2>9
  <1>9. ASSUME a.encoding = "other" PROVE IsNext /\ k.remaining = UNKNOWN
    <2>1. k.remaining = UNKNOWN /\ ~InChunks(k)
      BY <1>1, <1>4, <1>9
    <2>6. ~(k.remaining > 0)
      BY <2>1 DEF UNKNOWN
    <2>2. n = L /\ i + L <= d
      BY <1>6, <1>9, <2>1, <2>6 DEF L, d
    <2>3. n \in 1 .. L /\ i + n \in 0 .. d
      BY <1>5, <2>2
    <2>4. IsData(a, i + 1, i + n)
      <3>1. i + 1 .. i + n \subseteq 1 .. d
        BY <1>5, <2>2
      <3>2. QED
        BY <1>3, <1>9, <3>1 DEF IsData
    <2>5. QED
      BY <2>1, <2>3, <2>4
  <1>10. IsNext
    BY <1>2, <1>7, <1>8, <1>9
  <1>11. DataIn(a, i + n) = DataIn(a, i) + n
    <2>1. n \in Nat /\ i + n \in Nat /\ i <= i + n /\ (i + n) - i = n
      BY <1>5, <1>10
    <2>2. \A x, y \in Nat : x <= y /\ IsData(a, x + 1, y) => DataIn(a, y) = DataIn(a, x) + (y - x)
      BY DataInGrows, ZenonT(60)
    <2>3. DataIn(a, i + n) = DataIn(a, i) + ((i + n) - i)
      BY <1>10, <2>1, <2>2
    <2>4. QED
      BY <2>1, <2>3
  <1>12. QED
    BY <1>2, <1>7, <1>8, <1>9, <1>10, <1>11 DEF n, L, d
(* A piece of the body is seen.                                            *)
LEMMA PieceIsSeen ==
  ASSUME Standing, K.state = "CONTINUE_SENT", K.response = NULL, K.readClosed = FALSE, ~K.shutWr, K.given \in Nat,
         NEW n, n.rq = K.rq, n.response = NULL, n.readClosed = FALSE, ~n.shutWr, n.state = K.state, n.context = K.context,
         n.given \in K.given + 1 .. BodySize(K.rq)
  PROVE  IsGiven(Seen(K), Seen(n))
  <1>1. ~IsOver(K) /\ ~IsOver(n)
    BY DEF IsOver
  <1>2. Calls(K) = "started" /\ Calls(n) = "started"
    BY <1>1, MCAssumption DEF Calls, Asked
  <1>3. QED
    BY <1>1, <1>2 DEF IsGiven, Seen

(* process_request_body gives what there is of the body to the             *)
(* application.                                                            *)
LEMMA DataCallProper == ASSUME Standing, DataCall PROVE \E k : Proper(k)
  <1> DEFINE s == script[Cur]
             r == K.told
             a == s[r + 1]
             e == EndOf(s, r)
             h == Len(a.head)
             m == ToBeProcessed(K)
             L == Len(K.buf)
             n == Processed(K)
  <1>1. /\ K.state = "CONTINUE_SENT" /\ K.buf # << >> /\ K.response = NULL /\ K.remaining # 0 /\ ~AtChunkLine(K)
        /\ Go(n) \/ Go(Close(K))
    BY DEF DataCall, Idle, HasBody, BodyIsOver
  <1>2. /\ Whole(K) /\ K.readClosed = FALSE /\ ~K.shutWr /\ s \in Seq(Request)
        /\ r \in Nat /\ r + 1 \in 1 .. Len(s) /\ (r + 1) - 1 = r /\ K.rq = a /\ a \in Request
        /\ Len(a.body) \in Nat /\ e \in Nat /\ h \in Nat
        /\ Complete(a) /\ IsFramedBody(a) /\ (a.encoding = "other" => r + 1 = Len(s))
        /\ \E i \in Nat : Follows(K.buf, wire[Cur], todo[Cur], s, e + h + i) /\ AtBody(K, a, i)
    BY <1>1, StandsInBody
  <1>3. CASE Go(Close(K))
    <2>1. Over(Close(K))
      BY <1>2, CloseOver
    <2>2. QED
      BY <1>3, <2>1, OverIsProper
  <1>4. CASE Go(n)
    <2>1. PICK i \in Nat : Follows(K.buf, wire[Cur], todo[Cur], s, e + h + i) /\ AtBody(K, a, i)
      BY <1>2, SMTT(60)
    <2>2. /\ K.buf \in Seq(Byte(Len(s))) /\ L \in Nat \ {0}
          /\ e + h + i + L + Len(wire[Cur]) + Len(todo[Cur]) = Len(Stream(s))
          /\ Len(wire[Cur]) \in Nat /\ Len(todo[Cur]) \in Nat
      BY <1>1, <2>1, LenProperties, EmptySeq DEF Follows
    <2>3. EndOf(s, r + 1) = e + h + Len(a.body) /\ (r + 1 = Len(s) => EndOf(s, r + 1) = Len(Stream(s)))
      <3> HIDE DEF s, r
      <3>1. QED
        BY <1>2, BodyAt
    <2> HIDE DEF s, r, a, e, h, L
    <2>14. e \in Nat /\ h \in Nat /\ L \in Nat /\ i \in Nat /\ Len(a.body) \in Nat /\ L # 0
      BY <1>2, <2>2
    <2>4. a.encoding = "other" => i + L <= Len(a.body)
      <3>1. a.encoding = "other" => e + h + Len(a.body) = Len(Stream(s))
        BY <1>2, <2>3
      <3> DEFINE W == Len(wire[Cur])
                 T == Len(todo[Cur])
                 S == Len(Stream(s))
                 d == Len(a.body)
      <3>2. W \in Nat /\ T \in Nat /\ e + h + i + L + W + T = S /\ d \in Nat
        BY <2>2, <2>14
      <3> HIDE DEF W, T, S, d
      <3>3. e + h + d = S => i + L <= d
        BY <2>14, <3>2
      <3>4. QED
        BY <3>1, <3>3 DEF S, d
    <2>5. /\ m \in 1 .. L /\ i + m \in 0 .. Len(a.body) /\ DataIn(a, i + m) = DataIn(a, i) + m
          /\ a.encoding = "none" => K.remaining - m = Len(a.body) - (i + m) /\ K.remaining # UNKNOWN
          /\ a.encoding = "chunked" =>
               /\ K.remaining = UNKNOWN /\ InChunks(K) /\ K.chunk - m \in Nat
               /\ \E lines \in SUBSET (1 .. Len(a.body)) : AreChunks(a, lines) /\ (i + m) + (K.chunk - m) + 1 \in lines
               /\ IsData(a, (i + m) + 1, (i + m) + (K.chunk - m))
          /\ a.encoding = "other" => K.remaining = UNKNOWN
      BY <1>1, <1>2, <2>1, <2>2, <2>4, DataIsNext, ZenonT(60) DEF L
    <2> HIDE DEF m
    <2>6. /\ Whole(n) /\ n.state = "CONTINUE_SENT" /\ n.told = r /\ n.rq = a /\ n.buf = SubSeq(K.buf, m + 1, L)
          /\ n.response = NULL /\ n.readClosed = FALSE /\ ~n.shutWr /\ n.shutWr = K.shutWr
          /\ n.given = K.given + m /\ n.context = K.context
          /\ n.chunk = (IF InChunks(K) THEN K.chunk - m ELSE K.chunk) /\ n.chunked = K.chunked
          /\ n.remaining = IF K.remaining = UNKNOWN THEN UNKNOWN ELSE K.remaining - m
      BY <1>1, <1>2 DEF Whole, r, L, m, Processed
    <2> HIDE DEF n
    <2>7. K.given = DataIn(a, i) /\ K.chunked = (a.encoding = "chunked") /\ a.encoding \in {"none", "chunked", "other"}
      BY <1>2, <2>1 DEF AtBody, Request
    <2>8. AtBody(n, a, i + m)
      <3>1. n.given = DataIn(a, i + m) /\ n.chunked = (a.encoding = "chunked")
        BY <2>5, <2>6, <2>7
      <3>2. a.encoding = "none" => n.remaining = Len(a.body) - (i + m)
        BY <2>5, <2>6
      <3>3. a.encoding = "chunked" =>
               /\ n.remaining = UNKNOWN /\ n.chunk \in Nat
               /\ \E lines \in SUBSET (1 .. Len(a.body)) : AreChunks(a, lines) /\ (i + m) + n.chunk + 1 \in lines
               /\ IsData(a, (i + m) + 1, (i + m) + n.chunk)
        BY <2>5, <2>6
      <3>4. a.encoding \notin {"none", "chunked"} => n.remaining = UNKNOWN
        BY <2>5, <2>6, <2>7
      <3>5. QED
        BY <2>5, <3>1, <3>2, <3>3, <3>4 DEF AtBody
    <2>9. Follows(n.buf, wire[Cur], todo[Cur], s, e + h + (i + m))
      <3>1. m \in 0 .. L /\ e + h + i + m = e + h + (i + m)
        <4>1. m \in 1 .. L
          BY <2>5
        <4>2. QED
          BY <2>14, <4>1
      <3>2. Follows(SubSeq(K.buf, m + 1, L), wire[Cur], todo[Cur], s, e + h + i + m)
        BY <2>1, <3>1, FollowsDrop DEF L
      <3>3. QED
        BY <2>6, <3>1, <3>2
    <2>10. Here(n)
      <3>1. i + m \in Nat
        <4>1. m \in 1 .. L
          BY <2>5
        <4>2. QED
          BY <2>14, <4>1
      <3>2. QED
        BY <1>2, <2>6, <2>8, <2>9, <3>1, InBodyIsHere DEF s, r, a, e, h
    <2>11. K.given \in Nat /\ n.given \in K.given + 1 .. BodySize(a)
      <3>1. DataIn(a, i) \in Nat /\ DataIn(a, Len(a.body)) = BodySize(a)
        BY <1>2, DataInGrows
      <3>5. m \in 1 .. L /\ i + m \in 0 .. Len(a.body) /\ DataIn(a, i + m) = DataIn(a, i) + m
        BY <2>5
      <3>2. i + m \in Nat /\ i + m <= Len(a.body)
        BY <2>14, <3>5
      <3>3. DataIn(a, i + m) <= DataIn(a, Len(a.body)) /\ DataIn(a, Len(a.body)) \in Nat
        BY <1>2, <3>2, DataInGrows
      <3>4. QED
        <4>1. K.given = DataIn(a, i) /\ n.given = K.given + m
          BY <2>6, <2>7
        <4>2. QED
          BY <2>14, <3>1, <3>3, <3>5, <4>1
    <2>12. IsGiven(Seen(K), Seen(n))
      BY <1>1, <1>2, <2>6, <2>11, PieceIsSeen
    <2>13. QED
      BY <1>4, <2>10, <2>12 DEF Proper, Allowed
  <1>5. QED
    BY <1>1, <1>3, <1>4
(* Nothing of the body has arrived yet.                                    *)
LEMMA BodyWaitsProper == ASSUME Standing, BodyWaits PROVE \E k : Proper(k)
  BY StaysProper DEF BodyWaits

(* The body is over: the trailer of the chunks follows, or the final call. *)
LEMMA BodyEndsProper == ASSUME Standing, BodyEnds PROVE \E k : Proper(k)
  <1> DEFINE s == script[Cur]
             r == K.told
             a == s[r + 1]
             e == EndOf(s, r)
             h == Len(a.head)
             n == [K EXCEPT !.state = IF K.chunked /\ ~K.readClosed THEN "BODY_RECEIVED" ELSE "FOOTERS_RECEIVED"]
  <1>1. K.state = "CONTINUE_SENT" /\ BodyIsOver(K) /\ Go(n)
    BY DEF BodyEnds, Idle
  <1>2. /\ Whole(K) /\ K.readClosed = FALSE /\ ~K.shutWr
        /\ r \in Nat /\ r + 1 \in 1 .. Len(s) /\ K.rq = a /\ a \in Request
        /\ Len(a.body) \in Nat /\ e \in Nat /\ h \in Nat /\ Complete(a)
        /\ \E i \in Nat : Follows(K.buf, wire[Cur], todo[Cur], s, e + h + i) /\ AtBody(K, a, i)
    BY <1>1, StandsInBody
  <1>3. PICK i \in Nat : Follows(K.buf, wire[Cur], todo[Cur], s, e + h + i) /\ AtBody(K, a, i)
    BY <1>2
  <1>4. K.remaining = 0
    BY <1>1, <1>2 DEF BodyIsOver
  <1> HIDE DEF s, r, a, e, h
  <1>5. /\ i \in 0 .. Len(a.body) /\ K.given = DataIn(a, i) /\ K.chunked = (a.encoding = "chunked")
        /\ a.encoding = "none" => K.remaining = Len(a.body) - i
        /\ a.encoding = "chunked" => K.remaining = UNKNOWN \/ IsTrailer(a, i + 1)
        /\ a.encoding \notin {"none", "chunked"} => K.remaining = UNKNOWN
    BY <1>3 DEF AtBody
  <1>6. UNKNOWN # 0
    BY DEF UNKNOWN
  <1>7. /\ Whole(n) /\ n.told = r /\ n.rq = a /\ n.buf = K.buf
        /\ n.response = K.response /\ n.readClosed = FALSE /\ n.shutWr = K.shutWr /\ n.given = K.given
        /\ n.context = K.context
        /\ n.state = IF K.chunked /\ ~K.readClosed THEN "BODY_RECEIVED" ELSE "FOOTERS_RECEIVED"
    BY <1>2 DEF Whole, r
  <1> HIDE DEF n
  <1>8. Seen(n) = Seen(K)
    <2>1. /\ n.state \in Asked /\ K.state \in Asked
          /\ n.state \notin {"CLOSED", "CRASHED"} /\ K.state \notin {"CLOSED", "CRASHED"}
      BY <1>1, <1>7 DEF Asked
    <2>2. n.rq = K.rq /\ n.readClosed = K.readClosed /\ n.shutWr = K.shutWr
      BY <1>2, <1>7
    <2>3. QED
      BY <1>7, <2>1, <2>2, SeenAlike
  <1>9. (e + h + i) - e - h = i /\ e + h + i \in Nat
    BY <1>2, SMTT(60)
  <1>10. CASE a.encoding = "chunked"
    <2>1. IsTrailer(a, i + 1)
      BY <1>4, <1>5, <1>6, <1>10
    <2>2. K.given = BodySize(a)
      <3>1. i + 1 <= Len(a.body) /\ \A j \in i + 1 .. Len(a.body) : a.body[j].kind # "data"
        BY <2>1 DEF IsTrailer
      <3>2. i <= Len(a.body)
        BY <1>2, <3>1
      <3>7. \A x, y \in Nat : x <= y =>
              ((\A j \in x + 1 .. y : a.body[j].kind # "data") => DataIn(a, y) = DataIn(a, x))
        BY <1>2, DataInGrows
      <3>3. \A x, y \in Nat : x <= y /\ (\A j \in x + 1 .. y : a.body[j].kind # "data") => DataIn(a, y) = DataIn(a, x)
        BY <3>7
      <3>4. DataIn(a, Len(a.body)) = DataIn(a, i)
        BY <1>2, <3>1, <3>2, <3>3
      <3>5. DataIn(a, Len(a.body)) = BodySize(a)
        BY <1>2, DataInGrows
      <3>6. QED
        BY <1>5, <3>4, <3>5
    <2>3. n.state = "BODY_RECEIVED"
      <3>1. K.chunked = TRUE
        BY <1>5, <1>10
      <3>2. QED
        BY <1>2, <1>7, <3>1
    <2>4. AtRequest(n, a, (e + h + i) - e)
      BY <1>2, <1>7, <1>9, <2>1, <2>2, <2>3 DEF AtRequest, Heads, OfBody, Ending, Early, h
    <2>5. Placed(n, s, e + h + i)
      BY <1>2, <1>7, <2>3, <2>4 DEF Placed, Early, a, e
    <2>6. Here(n)
      BY <1>2, <1>3, <1>7, <2>3, <2>5 DEF Here, InItsPlace, IsOver, Early, s
    <2>7. QED
      BY <1>1, <1>8, <2>6 DEF Proper, Allowed
  <1>11. CASE a.encoding # "chunked"
    <2>1. a.encoding = "none"
      BY <1>4, <1>5, <1>6, <1>11
    <2>2. i = Len(a.body)
      <3>1. K.remaining = Len(a.body) - i
        BY <1>5, <2>1
      <3>2. QED
        BY <1>2, <1>4, <3>1
    <2>3. K.given = BodySize(a)
      <3>1. DataIn(a, Len(a.body)) = BodySize(a)
        BY <1>2, DataInGrows
      <3>2. QED
        BY <1>5, <2>2, <3>1
    <2>4. n.state = "FOOTERS_RECEIVED"
      <3>1. K.chunked = FALSE
        BY <1>5, <1>11
      <3>2. QED
        BY <1>7, <3>1
    <2>5. AtRequest(n, a, (e + h + i) - e)
      BY <1>2, <1>7, <1>9, <2>2, <2>3, <2>4 DEF AtRequest, Heads, OfBody, Ending, Early, h
    <2>6. Placed(n, s, e + h + i)
      BY <1>2, <1>7, <2>4, <2>5 DEF Placed, Early, a, e
    <2>7. Here(n)
      BY <1>2, <1>3, <1>7, <2>4, <2>6 DEF Here, InItsPlace, IsOver, Reading, Early, s
    <2>8. QED
      BY <1>1, <1>8, <2>7 DEF Proper, Allowed
  <1>12. QED
    BY <1>10, <1>11
-----------------------------------------------------------------------------
(* While a response is sent, all of the request has been read, or the      *)
(* connection has stopped reading.                                         *)
Late == {"HEADERS_SENDING", "HEADERS_SENT", "NORMAL_BODY_READY", "CHUNKED_BODY_READY", "BODY_SENT", "FOOTERS_SENT"}

(* The connection stays in its place from the final call on,               *)
LEMMA LateIsPlaced ==
  ASSUME NEW k, NEW w, NEW t, NEW s, InItsPlace(k, w, t, s), k.state \in Late \cup {"FOOTERS_RECEIVED"},
         NEW n, Whole(n), n.state \in Late, n.buf = k.buf, n.told = k.told, n.rq = k.rq, n.given = k.given,
         n.readClosed = k.readClosed, n.shutWr = k.shutWr, n.response \in {k.response, "app"}
  PROVE  InItsPlace(n, w, t, s)
  <1> DEFINE late(x) == x.state \notin {"INIT", "CLOSED", "CRASHED"} \cup Early \cup Heads \cup OfBody \cup Ending
                        /\ x.state # "HEADERS_RECEIVED"
  <1>1. late(k) /\ late(n) /\ n.state # "FOOTERS_RECEIVED"
    BY DEF Late, Early, Heads, OfBody, Ending
  <1>2. ~IsOver(n)
    BY <1>1 DEF InItsPlace, IsOver
  <1>3. \A a, m : AtRequest(k, a, m) => AtRequest(n, a, m)
    BY <1>1 DEF AtRequest, OfBody
  <1>4. \A p : Placed(k, s, p) => Placed(n, s, p)
    BY <1>1, <1>3 DEF Placed
  <1>5. QED
    <2>1. n.state \notin Reading \cup Early
      BY DEF Late, Reading, Early
    <2>2. QED
      BY <1>2, <1>4, <2>1 DEF InItsPlace

(* and while the response is sent the application sees nothing.            *)
LEMMA LateIsAlike ==
  ASSUME NEW k, NEW w, NEW t, NEW s, InItsPlace(k, w, t, s), k.state \in Late \cup {"FOOTERS_RECEIVED"},
         k.state = "FOOTERS_RECEIVED" => k.response # NULL,
         NEW n, Whole(n), n.state \in Late, n.buf = k.buf, n.told = k.told, n.rq = k.rq, n.given = k.given,
         n.readClosed = k.readClosed, n.shutWr = k.shutWr, n.response = k.response, n.context = k.context
  PROVE  InItsPlace(n, w, t, s) /\ Seen(n) = Seen(k)
  <1>1. {k.state, n.state} \cap {"CLOSED", "CRASHED"} = {}
    BY DEF Late
  <1>2. k.response = NULL => k.state \notin Asked /\ n.state \notin Asked
    BY DEF Late, Asked
  <1>3. Seen(n) = Seen(k)
    BY <1>1, <1>2, SeenAlike
  <1>4. QED
    BY <1>3, LateIsPlaced

(* Such a step is no call.                                                 *)
LEMMA LateProper ==
  ASSUME Standing, K.state \in Late \cup {"FOOTERS_RECEIVED"}, K.state = "FOOTERS_RECEIVED" => K.response # NULL,
         NEW n, Retains(K, n), n.state \in Late, Go(n) \/ Break(n)
  PROVE  Proper(n)
  <1>1. Whole(K)
    BY DEF Standing, InItsPlace
  <1>2. /\ Whole(n) /\ n.buf = K.buf /\ n.told = K.told /\ n.rq = K.rq /\ n.given = K.given
        /\ n.readClosed = K.readClosed /\ n.shutWr = K.shutWr /\ n.response = K.response /\ n.context = K.context
    BY <1>1 DEF Retains, Whole
  <1>3. Here(n) /\ Seen(n) = Seen(K)
    BY <1>1, <1>2, LateIsAlike DEF Standing, Here
  <1>4. QED
    BY <1>3 DEF Proper, Allowed

(* build_header_response, and the state in which its header is sent.       *)
LEMMA BuildsLate ==
  ASSUME NEW k, Whole(k), NEW state \in Late
  PROVE  LET n == [BuildHeader(k) EXCEPT !.state = state]
         IN  Retains(k, n) /\ Whole(n) /\ n.state = state /\ Over(Close(BuildHeader(k)))
  <1> DEFINE h == BuildHeader(k)
             n == [h EXCEPT !.state = state]
  <1>1. Retains(k, h)
    BY BuildRetains
  <1> HIDE DEF h
  <1>2. Whole(h)
    BY <1>1 DEF Retains, Whole
  <1>3. Over(Close(h))
    BY <1>2, CloseOver
  <1>4. Retains(k, n) /\ Whole(n) /\ n.state = state
    BY <1>1, <1>2 DEF Retains, Whole
  <1>5. QED
    BY <1>3, <1>4 DEF h

(* The final call, which the application answers,                          *)
LEMMA FinalIsSeen ==
  ASSUME Standing, K.state = "FOOTERS_RECEIVED", K.response = NULL,
         NEW n, n.rq = K.rq, n.given = K.given, n.response = "app", ~n.shutWr, n.state \in Late
  PROVE  CalledLast(Seen(K), Seen(n))
  <1>1. ~IsOver(K) /\ ~K.readClosed
    BY MCAssumption DEF Standing, InItsPlace, IsOver
  <1>2. PICK p : Placed(K, script[Cur], p)
    BY <1>1 DEF Standing, InItsPlace
  <1>3. K.given = BodySize(K.rq)
    BY <1>2 DEF Placed, AtRequest, Early, OfBody, Ending
  <1>4. ~IsOver(K) /\ ~IsOver(n)
    BY <1>1 DEF IsOver, Late
  <1>5. Calls(K) = "started" /\ Calls(n) = "answered"
    BY <1>4, MCAssumption DEF Calls, Asked
  <1>6. QED
    BY <1>3, <1>4, <1>5 DEF CalledLast, IsCalled, Seen

(* or not.                                                                 *)
LEMMA FinalCallProper == ASSUME Standing, FinalCall PROVE \E k : Proper(k)
  <1> DEFINE q == [K EXCEPT !.response = "app", !.refs = @ + 1, !.left = K.rq.reply]
             f(k) == [BuildHeader(k) EXCEPT !.state = "HEADERS_SENDING"]
  <1>1. K.state = "FOOTERS_RECEIVED"
    BY DEF FinalCall, Idle
  <1>2. PICK k \in (IF K.response # NULL THEN {K} ELSE {Answer(K), Close(K)}) :
          \/ k.state = "CLOSED" /\ Go(k)
          \/ k.state # "CLOSED" /\ k.response = NULL /\ Break(k)
          \/ k.response # NULL /\ Go(Close(BuildHeader(k)))
          \/ k.state # "CLOSED" /\ k.response # NULL /\ Break(f(k))
    BY DEF FinalCall
  <1>3. Whole(K) /\ ~K.shutWr
    BY DEF Standing, InItsPlace, IsOver
  <1>4. "HEADERS_SENDING" \in Late
    BY DEF Late
  <1>5. CASE k = Close(K)
    <2>1. Over(k) /\ k.state = "CLOSED" /\ Whole(k)
      BY <1>3, <1>5, CloseOver DEF Over, GivenUp
    <2>2. Over(Close(BuildHeader(k)))
      BY <1>4, <2>1, BuildsLate
    <2>4. QED
      BY <1>2, <2>1, <2>2, OverIsProper
  <1>6. CASE k = K
    <2>1. Retains(K, f(K)) /\ Over(Close(BuildHeader(K))) /\ f(K).state = "HEADERS_SENDING"
      BY <1>3, <1>4, BuildsLate
    <2> HIDE DEF f
    <2>2. Go(Close(BuildHeader(K))) => \E x : Proper(x)
      BY <2>1, OverIsProper
    <2>3. K.response # NULL /\ Break(f(K)) => Proper(f(K))
      BY <1>1, <1>4, <2>1, LateProper
    <2>4. Go(K) \/ Break(K) => Proper(K)
      BY StaysProper
    <2>5. QED
      BY <1>2, <1>6, <2>2, <2>3, <2>4
  <1>7. CASE k = q /\ K.response = NULL
    <2>1. /\ Whole(q) /\ q.response = "app" /\ q.state = "FOOTERS_RECEIVED" /\ q.buf = K.buf /\ q.told = K.told
          /\ q.rq = K.rq /\ q.given = K.given /\ q.readClosed = K.readClosed /\ q.shutWr = K.shutWr
          /\ q.context = K.context
      BY <1>1, <1>3 DEF Whole
    <2> HIDE DEF q
    <2>2. Retains(q, f(q)) /\ Whole(f(q)) /\ f(q).state = "HEADERS_SENDING" /\ Over(Close(BuildHeader(q)))
      BY <1>4, <2>1, BuildsLate
    <2> DEFINE n == f(q)
    <2> HIDE DEF f
    <2>3. Go(Close(BuildHeader(q))) \/ Break(n)
      BY <1>2, <1>7, <2>1, MCAssumption
    <2>4. Go(Close(BuildHeader(q))) => \E x : Proper(x)
      BY <2>2, OverIsProper
    <2>5. /\ Whole(n) /\ n.state \in Late /\ n.buf = K.buf /\ n.told = K.told /\ n.rq = K.rq /\ n.given = K.given
          /\ n.readClosed = K.readClosed /\ n.shutWr = K.shutWr /\ n.response = "app"
      BY <1>4, <2>1, <2>2 DEF Retains
    <2> HIDE DEF n
    <2>6. Here(n)
      BY <1>1, <2>5, LateIsPlaced DEF Standing, Here
    <2>7. CalledLast(Seen(K), Seen(n))
      BY <1>1, <1>3, <1>7, <2>5, FinalIsSeen
    <2>8. QED
      BY <2>3, <2>4, <2>6, <2>7 DEF Proper, Allowed
  <1>8. k \in {K, Close(K)} \/ (k = q /\ K.response = NULL)
    BY <1>1, <1>2 DEF Answer, QueueResponse
  <1>9. QED
    BY <1>5, <1>6, <1>7, <1>8
(* The states in which the response is sent.                               *)
LEMMA SendingProper ==
  ASSUME Standing, Sending \/ HeadersSent \/ BodySent
  PROVE  \E k : Proper(k)
  <1> DEFINE b == [K EXCEPT !.state = "BODY_SENT"]
             c == [K EXCEPT !.state = "CRASHED"]
             n == [K EXCEPT !.state = IF K.chunked THEN "CHUNKED_BODY_READY" ELSE "NORMAL_BODY_READY"]
             f == [BuildHeader(K) EXCEPT !.state = "FOOTERS_SENT"]
  <1>1. Break(K) \/ (K.state \in Late /\ (Go(c) \/ Go(b) \/ Break(n) \/ Go(f) \/ Go(Close(BuildHeader(K)))))
    <2>1. CASE Sending
      BY <2>1 DEF Sending
    <2>2. CASE HeadersSent
      BY <2>2 DEF HeadersSent, Idle, Late
    <2>3. CASE BodySent
      BY <2>3 DEF BodySent, Idle, Late
    <2>4. QED
      BY <2>1, <2>2, <2>3
  <1>2. Whole(K)
    BY DEF Standing, InItsPlace
  <1>3. Retains(K, b) /\ b.state \in Late /\ Retains(K, n) /\ n.state \in Late
    BY <1>2 DEF Whole, Retains, Late
  <1>7. Over(c)
    BY <1>2 DEF Over, GivenUp, Whole
  <1>4. Retains(K, f) /\ f.state \in Late /\ Over(Close(BuildHeader(K)))
    <2>1. "FOOTERS_SENT" \in Late
      BY DEF Late
    <2>2. QED
      BY <1>2, <2>1, BuildsLate
  <1> HIDE DEF b, c, n, f
  <1>5. "FOOTERS_RECEIVED" \notin Late
    BY DEF Late
  <1>6. QED
    BY <1>1, <1>3, <1>4, <1>5, <1>7, StaysProper, OverIsProper, LateProper

(* The state machine begins the next request, or the connection ends.      *)
LEMMA NextIsOver ==
  ASSUME NEW k, Whole(k)
  PROVE  LET n == NextRequest(k)
         IN  \/ Over(n)
             \/ /\ Whole(n) /\ n.state = "INIT" /\ n.buf = k.buf /\ n.response = NULL /\ n.readClosed = k.readClosed
                /\ n.told = k.told + 1 /\ n.rq = NoRequest /\ n.given = 0 /\ n.context = NULL /\ n.chunk = 0
                /\ ~k.readClosed /\ n.shutWr = k.shutWr
  <1> DEFINE d == DestroyResponse(k)
             b == PoolReset(k.pool, k.rb, PoolSize \div 2)
             c == [Close(d) EXCEPT !.rb = NoBlock, !.rbSize = 0, !.buf = << >>]
             i == [d EXCEPT !.state = "INIT", !.keepalive = "unknown", !.rq = NoRequest,
                            !.last = NewConnection.last, !.pool = b.pool, !.rb = b.at, !.rbSize = PoolSize \div 2]
             f(m) == [m EXCEPT !.context = NULL, !.given = 0, !.continued = 0, !.chunked = FALSE, !.chunk = 0,
                               !.left = 0, !.wb = NoBlock, !.wbSize = 0, !.unsent = 0, !.told = @ + 1]
  <1>1. NextRequest(k) = IF k.keepalive # "use" \/ k.readClosed THEN f(c) ELSE f(i)
    <2>1. NextRequest(k) = f(IF k.keepalive # "use" \/ k.readClosed THEN c ELSE i)
      BY DEF NextRequest
    <2> HIDE DEF c, i, f
    <2>2. QED
      BY <2>1
  <1>2. /\ Whole(d) /\ d.response = NULL /\ d.buf = k.buf /\ d.readClosed = k.readClosed
        /\ d.shutWr = k.shutWr /\ d.told = k.told
    BY DEF DestroyResponse, Whole
  <1> HIDE DEF b, d
  <1>3. Whole(c) /\ c.state = "CLOSED"
    <2>1. Whole(Close(d)) /\ Close(d).state = "CLOSED"
      BY <1>2, CloseOver DEF Over, GivenUp
    <2>2. QED
      BY <2>1 DEF Whole
  <1>4. /\ Whole(i) /\ i.state = "INIT" /\ i.buf = k.buf /\ i.response = NULL /\ i.readClosed = k.readClosed
        /\ i.shutWr = k.shutWr /\ i.told = k.told /\ i.rq = NoRequest
    BY <1>2 DEF Whole
  <1> HIDE DEF c, i
  <1>5. Over(f(c))
    <2>1. Whole(f(c)) /\ f(c).state = "CLOSED"
      BY <1>3 DEF Whole
    <2>2. QED
      BY <2>1 DEF Over, GivenUp
  <1>6. /\ Whole(f(i)) /\ f(i).state = "INIT" /\ f(i).buf = k.buf /\ f(i).response = NULL
        /\ f(i).readClosed = k.readClosed /\ f(i).shutWr = k.shutWr
        /\ f(i).told = k.told + 1 /\ f(i).rq = NoRequest /\ f(i).given = 0 /\ f(i).context = NULL /\ f(i).chunk = 0
    BY <1>4 DEF Whole
  <1> HIDE DEF f
  <1>7. QED
    BY <1>1, <1>5, <1>6

(* All of the request was read, and what follows is the next one's.        *)
LEMMA NextProper == ASSUME Standing, FootersSent PROVE \E k : Proper(k)
  <1> DEFINE s == script[Cur]
             r == K.told
             a == s[r + 1]
             e == EndOf(s, r)
             h == Len(a.head)
             n == NextRequest(K)
  <1>1. K.state = "FOOTERS_SENT" /\ Go(n)
    BY DEF FootersSent, Idle
  <1>2. Whole(K) /\ K.readClosed \in BOOLEAN /\ ~K.shutWr /\ s \in Seq(Request)
    BY DEF Standing, InItsPlace, IsOver, Waits
  <1>3. CASE Over(n)
    BY <1>1, <1>3, OverIsProper
  <1>4. CASE /\ Whole(n) /\ n.state = "INIT" /\ n.buf = K.buf /\ n.response = NULL /\ n.readClosed = K.readClosed
             /\ n.told = K.told + 1 /\ n.rq = NoRequest /\ n.given = 0 /\ n.context = NULL /\ n.chunk = 0
             /\ ~K.readClosed /\ n.shutWr = K.shutWr
    <2>1. PICK p : Follows(K.buf, wire[Cur], todo[Cur], s, p) /\ Placed(K, s, p)
      BY <1>1, <1>4 DEF Standing, InItsPlace
    <2>2. r \in Nat /\ r + 1 \in 1 .. Len(s) /\ AtRequest(K, a, p - e)
      BY <1>1, <2>1 DEF Placed
    <2>3. p \in Nat
      BY <2>1 DEF Follows
    <2>4. p - e - h = Len(a.body)
      BY <1>1, <2>2 DEF AtRequest, Early, OfBody, Ending
    <2>5. EndOf(s, r + 1) = e + h + Len(a.body) /\ e \in Nat /\ h \in Nat /\ Len(a.body) \in Nat /\ Len(s) \in Nat
      <3> HIDE DEF s, r
      <3>1. (r + 1) - 1 = r /\ r + 1 \in 1 .. Len(s)
        BY <2>2
      <3>2. e \in Nat /\ h \in Nat /\ Len(a.body) \in Nat
        BY <1>2, <3>1, RequestAt
      <3>3. EndOf(s, r + 1) = e + h + Len(a.body)
        BY <1>2, <2>2, BodyAt
      <3>4. QED
        BY <1>2, <3>2, <3>3, LenProperties
    <2> HIDE DEF s, r, a, e, h, n
    <2>6. EndOf(s, r + 1) = p
      <3> DEFINE d == Len(a.body)
      <3>1. d \in Nat /\ p - e - h = d /\ EndOf(s, r + 1) = e + h + d
        BY <2>4, <2>5
      <3> HIDE DEF d
      <3>2. QED
        BY <2>3, <2>5, <3>1
    <2>7. r + 1 \in 0 .. Len(s) /\ r + 1 \in Nat /\ n.told = r + 1
      BY <1>4, <2>2, <2>5 DEF r
    <2>8. Placed(n, s, p)
      BY <1>4, <2>3, <2>6, <2>7 DEF Placed
    <2>9. Here(n)
      BY <1>2, <1>4, <2>1, <2>8 DEF Here, InItsPlace, IsOver, s
    <2>10. Seen(n) = Nothing
      <3>1. ~IsOver(n)
        BY <1>2, <1>4 DEF IsOver
      <3>2. Calls(n) = "none"
        BY <1>4, <3>1, MCAssumption DEF Calls, Asked
      <3>3. BodySize(NoRequest) = 0
        <4>1. NoRequest.body = << >>
          BY DEF NoRequest
        <4>2. Len(NoRequest.body) = 0
          BY <4>1, EmptySeq
        <4>3. QED
          BY <4>2, DataInGrows
      <3>4. QED
        BY <1>4, <3>1, <3>2, <3>3 DEF Seen, Nothing
    <2>11. QED
      BY <1>1, <2>9, <2>10 DEF Proper, Allowed
  <1>5. QED
    BY <1>2, <1>3, <1>4, NextIsOver

(* Every case of MHD_connection_handle_idle but the last.                  *)
LEMMA IdleProper == ASSUME Standing, HandleIdle, ~Closed PROVE \E k : Proper(k)
  BY NoLineProper, FirstLineProper, HeaderLineProper, HeaderPartProper, HeadersReceivedProper, FirstCallProper,
     ContinueProper, ChunkLineProper, DataCallProper, BodyWaitsProper, BodyEndsProper, FinalCallProper,
     SendingProper, NextProper DEF HandleIdle
(* One that is given up goes through the same cases, and stays given up.    *)
Drops(n) == Over(n) /\ (Go(n) \/ Break(n))

LEMMA OverHeader ==
  ASSUME Denied(K), HeaderLine \/ HeaderPart
  PROVE  \E k : Drops(k)
  <1> DEFINE l == WithoutLine(K)
             n == [l EXCEPT !.pool = AddHeader(K).pool]
             e(k) == [k EXCEPT !.state = IF InFooters THEN "FOOTERS_RECEIVED" ELSE "HEADERS_RECEIVED"]
             x(m) == [l EXCEPT !.state = IF InFooters THEN "FOOTER_PART_RECEIVED" ELSE "HEADER_PART_RECEIVED",
                               !.last = HeaderOf(K, m)]
             y(m) == [n EXCEPT !.last = HeaderOf(K, m)]
             f(m) == Folded(K, m)
             o(k) == TransmitError(k, shutdown)
  <1>1. \/ Go(e(l)) \/ Go(e(n)) \/ Break(o(Close(l))) \/ Go(o(l)) \/ Go(o(o(l))) \/ Go(o(Close(n)))
        \/ \E m \in Lengths(K) : Go(x(m)) \/ Go(y(m)) \/ Go(f(m))
    <2>1. CASE HeaderLine
      BY <2>1, ZenonT(60) DEF HeaderLine
    <2>2. CASE HeaderPart
      BY <2>2 DEF HeaderPart
    <2>3. QED
      BY <2>1, <2>2, ZenonT(60)
  <1>2. Whole(K) /\ K.state # "INIT"
    BY DEF Denied, Refused
  <1>3. /\ Whole(l) /\ Keeps(K, l) /\ l.state = K.state
        /\ \A m : Keeps(K, f(m)) /\ f(m).state = K.state
    BY <1>2, LineTaken DEF Keeps
  <1> HIDE DEF l, f
  <1>4. Whole(n) /\ Keeps(K, n) /\ n.state = K.state
    BY <1>3 DEF Keeps, Whole
  <1> HIDE DEF n
  <1>5. \A k : Whole(k) => Over(o(k)) /\ Whole(o(k)) /\ Over(o(Close(k)))
    BY CloseOver, TransmitOver DEF Over, GivenUp
  <1> HIDE DEF o
  <1>6. \A k : Whole(k) /\ Keeps(K, k) => Keeps(K, e(k)) /\ e(k).state # "INIT"
    BY DEF Keeps, Whole
  <1>7. \A m : Keeps(K, x(m)) /\ x(m).state # "INIT" /\ Keeps(K, y(m)) /\ y(m).state # "INIT"
    BY <1>2, <1>3, <1>4 DEF Keeps, Whole
  <1> HIDE DEF e, x, y
  <1>8. \A k : Keeps(K, k) /\ k.state # "INIT" => Over(k)
    BY DeniedAlike
  <1>9. QED
    BY <1>1, <1>2, <1>3, <1>4, <1>5, <1>6, <1>7, <1>8 DEF Drops

LEMMA OverHeaders == ASSUME Denied(K), HeadersReceived PROVE \E k : Drops(k)
  <1> DEFINE y == ParseCookie(K, shutdown)
             b == [y EXCEPT !.remaining = IF K.rq.encoding # "none" THEN UNKNOWN ELSE K.rq.length,
                            !.chunked = (K.rq.encoding = "chunked")]
             z == [y EXCEPT !.remaining = 0]
             x == ParseHeaders(K, shutdown)
             n == [x EXCEPT !.state = "HEADERS_PROCESSED"]
  <1>1. Go(x) \/ Go(n)
    BY DEF HeadersReceived
  <1>2. x \in {y, Close(z), b}
    BY DEF ParseHeaders
  <1>3. Whole(K) /\ K.state # "INIT"
    BY DEF Denied, Refused
  <1>4. Denied(y)
    <2>1. Like(K, y) => Keeps(K, y) /\ y.state # "INIT"
      BY <1>3 DEF Like, Leaves, Retains, Keeps
    <2> HIDE DEF y
    <2>2. QED
      BY <1>3, <2>1, CookieLike, DeniedAlike DEF y
  <1> HIDE DEF x, y
  <1>5. Whole(y) /\ y.state # "INIT" /\ Keeps(y, y)
    BY <1>4 DEF Denied, Refused, Keeps
  <1>6. Keeps(y, b) /\ b.state = y.state /\ Whole(z) /\ z.readClosed = y.readClosed
    BY <1>5 DEF Keeps, Whole
  <1>7. Over(Close(z)) /\ Denied(Close(z))
    <2>1. y.readClosed
      BY <1>4 DEF Denied, Refused
    <2> HIDE DEF z
    <2>2. Over(Close(z))
      BY <1>6, CloseOver
    <2>3. Close(z).readClosed /\ Close(z).shutWr /\ Close(z).state = "CLOSED" /\ Whole(Close(z))
      BY <1>6, <2>1 DEF Close, DestroyResponse, Whole
    <2>4. QED
      BY <2>2, <2>3 DEF Denied, Refused
  <1>8. Denied(x)
    BY <1>2, <1>4, <1>5, <1>6, <1>7, DeniedAlike
  <1>9. Keeps(x, n) /\ n.state = "HEADERS_PROCESSED"
    BY <1>8 DEF Denied, Keeps, Whole
  <1>10. Over(x) /\ Over(n)
    BY <1>8, <1>9, DeniedAlike
  <1>11. QED
    BY <1>1, <1>10 DEF Drops

(* What the application is asked of it is of no use.                       *)
LEMMA AnswerKeeps ==
  ASSUME Denied(K), K.response = NULL
  PROVE  Keeps(K, Answer(K)) /\ Answer(K).state # "INIT"
  <1>1. Whole(K) /\ K.readClosed /\ K.state # "INIT" /\ (K.shutWr \/ shutdown)
    BY MCAssumption DEF Denied, Refused
  <1>2. CASE shutdown
    BY <1>1, <1>2 DEF Answer, QueueResponse, Keeps
  <1>3. CASE ~shutdown
    BY <1>1, <1>3 DEF Answer, QueueResponse, Keeps, Whole
  <1>4. QED
    BY <1>2, <1>3

LEMMA OverCalls == ASSUME Denied(K), FirstCall \/ FinalCall PROVE \E k : Drops(k)
  <1> DEFINE x(k) == [k EXCEPT !.state = "CONTINUE_SENDING"]
             r(k) == IF k.response # NULL /\ IsUpload(k) THEN [k EXCEPT !.remaining = 0, !.readClosed = TRUE] ELSE k
             f(k) == [BuildHeader(k) EXCEPT !.state = "HEADERS_SENDING"]
             c == [K EXCEPT !.context = App]
  <1>1. Whole(K) /\ K.state # "INIT" /\ K.readClosed
    BY DEF Denied, Refused
  <1>2. PICK k : /\ k \in {K, Close(K), c} \/ (k = Answer(K) /\ K.response = NULL)
                 /\ \/ Go(k) \/ Break(k) \/ Break(x(k)) \/ Go(AfterFirstCall(k))
                    \/ Go(Close(BuildHeader(k))) \/ Break(f(k))
    <2>1. CASE FirstCall
      BY <2>1 DEF FirstCall, FirstCalls
    <2>2. CASE FinalCall
      BY <2>2 DEF FinalCall
    <2>3. QED
      BY <2>1, <2>2
  <1>3. Denied(k)
    <2>1. Keeps(K, c) /\ c.state # "INIT"
      BY <1>1 DEF Keeps, Whole
    <2>2. Denied(Close(K))
      BY <1>1 DEF Denied, Refused, Close, DestroyResponse, Whole
    <2> HIDE DEF c
    <2>3. QED
      BY <1>2, <2>1, <2>2, DeniedAlike, AnswerKeeps
  <1> HIDE DEF c
  <1>4. Whole(k) /\ Over(k)
    BY <1>3, DeniedAlike DEF Denied
  <1>5. Keeps(k, x(k)) /\ x(k).state # "INIT"
    BY <1>4 DEF Keeps, Whole
  <1>6. Keeps(k, AfterFirstCall(k)) /\ AfterFirstCall(k).state # "INIT"
    <2>1. Keeps(k, r(k)) /\ Whole(r(k))
      BY <1>4 DEF Keeps, Whole
    <2>2. AfterFirstCall(k) = [r(k) EXCEPT !.state = IF r(k).remaining = 0 THEN "FOOTERS_RECEIVED" ELSE "CONTINUE_SENT"]
      BY DEF AfterFirstCall
    <2> HIDE DEF r
    <2>3. QED
      BY <2>1, <2>2 DEF Keeps, Whole
  <1>7. Keeps(k, f(k)) /\ f(k).state # "INIT" /\ Over(Close(BuildHeader(k)))
    <2>1. "HEADERS_SENDING" \in Late
      BY DEF Late
    <2>2. Retains(k, f(k)) /\ f(k).state = "HEADERS_SENDING" /\ Over(Close(BuildHeader(k)))
      BY <1>4, <2>1, BuildsLate
    <2> HIDE DEF f
    <2>3. QED
      BY <2>2 DEF Retains, Keeps
  <1> HIDE DEF x, f
  <1>8. Over(x(k)) /\ Over(AfterFirstCall(k)) /\ Over(f(k))
    BY <1>3, <1>5, <1>6, <1>7, DeniedAlike
  <1>9. QED
    BY <1>2, <1>4, <1>7, <1>8 DEF Drops

LEMMA OverBody ==
  ASSUME Denied(K), ContinueSending \/ ReadChunkLine \/ DataCall \/ BodyWaits \/ BodyEnds
  PROVE  \E k : Drops(k)
  <1> DEFINE c == [K EXCEPT !.state = "CONTINUE_SENT"]
             e == [K EXCEPT !.state = IF K.chunked /\ ~K.readClosed THEN "BODY_RECEIVED" ELSE "FOOTERS_RECEIVED"]
             t == Head(K.buf)
             l == [K EXCEPT !.buf = Tail(K.buf), !.chunk = t.n, !.remaining = IF t.n = 0 THEN 0 ELSE UNKNOWN]
             g(k) == [k EXCEPT !.buf = SubSeq(k.buf, ToBeProcessed(k) + 1, Len(k.buf)), !.given = @ + ToBeProcessed(k),
                               !.chunk = IF InChunks(k) THEN @ - ToBeProcessed(k) ELSE @,
                               !.remaining = IF @ = UNKNOWN THEN UNKNOWN ELSE @ - ToBeProcessed(k)]
  <1>1. Whole(K) /\ K.state # "INIT" /\ Over(K)
    BY DeniedAlike DEF Denied, Refused
  <1>2. ChunkLine(K) \in {Close(K), l} /\ \A k : Processed(k) = g(k)
    BY DEF ChunkLine, Processed
  <1>3. \E k \in {K, c, e, l, g(K), g(c), Close(K), Close(c)} : Go(k) \/ Break(k)
    <2>1. CASE ContinueSending
      BY <1>2, <2>1, ZenonT(60) DEF ContinueSending
    <2>2. CASE ReadChunkLine
      BY <1>2, <2>2 DEF ReadChunkLine
    <2>3. CASE DataCall
      BY <1>2, <2>3, ZenonT(60) DEF DataCall
    <2>4. CASE BodyWaits \/ BodyEnds
      BY <2>4 DEF BodyWaits, BodyEnds
    <2>5. QED
      BY <2>1, <2>2, <2>3, <2>4
  <1>4. Keeps(K, c) /\ c.state # "INIT" /\ Keeps(K, e) /\ e.state # "INIT" /\ Whole(c)
    BY <1>1 DEF Keeps, Whole
  <1>5. Keeps(K, l) /\ l.state = K.state
    BY <1>1 DEF Keeps, Whole
  <1>6. \A k : Whole(k) => Keeps(k, g(k)) /\ g(k).state = k.state
    BY DEF Keeps, Whole
  <1> HIDE DEF c, e, l, g
  <1>7. Denied(c) /\ Over(c) /\ Over(e) /\ Over(l)
    BY <1>1, <1>4, <1>5, DeniedAlike
  <1>8. Over(g(K)) /\ Over(g(c))
    BY <1>1, <1>4, <1>6, <1>7, DeniedAlike
  <1>9. Over(Close(K)) /\ Over(Close(c))
    BY <1>1, <1>4, CloseOver
  <1>10. QED
    BY <1>1, <1>3, <1>7, <1>8, <1>9 DEF Drops

LEMMA OverSends ==
  ASSUME Denied(K), NoLine \/ Sending \/ HeadersSent \/ BodySent \/ FootersSent
  PROVE  \E k : Drops(k)
  <1> DEFINE g == IF K.buf # << >> /\ Full(K) THEN Grown(K) ELSE K
             b(state) == [K EXCEPT !.state = state]
             f == [BuildHeader(K) EXCEPT !.state = "FOOTERS_SENT"]
  <1>1. Whole(K) /\ K.state # "INIT" /\ K.readClosed /\ Over(K)
    BY DeniedAlike DEF Denied, Refused
  <1>2. \/ \E k \in {K, g, Close(g), f, Close(BuildHeader(K)), TransmitError(K, shutdown), NextRequest(K)} :
             Go(k) \/ Break(k)
        \/ \E s \in {"CRASHED", "BODY_SENT", "CHUNKED_BODY_READY", "NORMAL_BODY_READY"} : Go(b(s)) \/ Break(b(s))
    <2>1. CASE NoLine
      BY <2>1 DEF NoLine
    <2>2. CASE HeadersSent
      BY <2>2 DEF HeadersSent
    <2>3. CASE Sending \/ BodySent \/ FootersSent
      BY <2>3 DEF Sending, BodySent, FootersSent
    <2>4. QED
      BY <2>1, <2>2, <2>3
  <1>3. Like(K, g) /\ Whole(g)
    BY <1>1, GrownLike DEF Like, Leaves, Retains, Whole
  <1> HIDE DEF g
  <1>4. Over(g) /\ Over(Close(g))
    BY <1>1, <1>3, DeniedAlike, CloseOver DEF Like, Leaves, Retains, Keeps
  <1>5. Over(f) /\ Over(Close(BuildHeader(K)))
    <2>1. "FOOTERS_SENT" \in Late
      BY DEF Late
    <2>2. Retains(K, f) /\ f.state = "FOOTERS_SENT" /\ Over(Close(BuildHeader(K)))
      BY <1>1, <2>1, BuildsLate
    <2> HIDE DEF f
    <2>3. QED
      BY <2>2, DeniedAlike DEF Retains, Keeps
  <1>6. \A s : Keeps(K, b(s)) /\ b(s).state = s
    BY <1>1 DEF Keeps, Whole
  <1> HIDE DEF f, b
  <1>7. \A s \in {"CRASHED", "BODY_SENT", "CHUNKED_BODY_READY", "NORMAL_BODY_READY"} : Over(b(s))
    BY <1>6, DeniedAlike
  <1>8. Over(TransmitError(K, shutdown)) /\ Over(NextRequest(K))
    BY <1>1, TransmitOver, NextIsOver
  <1>9. QED
    BY <1>1, <1>2, <1>4, <1>5, <1>7, <1>8 DEF Drops

LEMMA OverGoes == ASSUME Over(K), HandleIdle, ~Closed PROVE \E k : Proper(k)
  <1>1. K.state \notin {"CLOSED", "CRASHED"}
    BY DEF HandleIdle, NoLine, FirstLine, HeaderLine, HeaderPart, HeadersReceived, FirstCall, ContinueSending,
       ReadChunkLine, DataCall, BodyWaits, BodyEnds, FinalCall, Sending, HeadersSent, BodySent, FootersSent,
       Idle, AtLine, LineStates, BodyReady
  <1>2. Denied(K)
    BY <1>1 DEF Over, GivenUp, Denied
  <1>3. ~FirstLine
    BY <1>2 DEF Denied, Refused, FirstLine, AtLine
  <1>4. PICK k : Drops(k)
    BY <1>2, <1>3, OverHeader, OverHeaders, OverCalls, OverBody, OverSends DEF HandleIdle
  <1>5. QED
    BY <1>4, OverIsProper, SMTT(60) DEF Drops
-----------------------------------------------------------------------------
(* Where every connection is: one that the daemon does not hold is as new, *)
(* and nothing has been received of what its client sends.                 *)
InPlace(c) ==
  /\ phase[c] # "held" => con[c] = NewConnection
  /\ phase[c] = "new" => wire[c] = << >>
  /\ phase[c] = "backlog" => wire[c] = << >> /\ todo[c] = Stream(script[c]) /\ script[c] \in Scripts[c]
  /\ phase[c] = "held" =>
       script[c] \in Scripts[c] /\ (Over(con[c]) \/ InItsPlace(con[c], wire[c], todo[c], script[c]))

PlaceInv ==
  /\ script = [c \in Conns |-> script[c]] /\ todo = [c \in Conns |-> todo[c]] /\ wire = [c \in Conns |-> wire[c]]
  /\ \A c \in Conns : InPlace(c)

(* What the application sees of a step:  one connection goes on as the     *)
(* contract allows, or some are new or freed.                              *)
SeenStep ==
  \/ \E c \in Conns : Allowed(Seen(con[c]), Seen(con'[c])) /\ \A d \in Conns \ {c} : con'[d] = con[d]
  \/ \E conns \in SUBSET Conns : \A c \in Conns : con'[c] = IF c \in conns THEN NewConnection ELSE con[c]

(* A connection that is left alone.                                        *)
LEMMA StaysInPlace ==
  ASSUME NEW c \in Conns, InPlace(c), con'[c] = con[c], script'[c] = script[c], todo'[c] = todo[c],
         wire'[c] = wire[c], phase'[c] = phase[c], shutdown' = shutdown \/ shutdown' = TRUE
  PROVE  InPlace(c)'
  <1>1. Over(con[c]) => GivenUp(con'[c], shutdown')
    BY DEF Over, GivenUp, Refused
  <1>2. QED
    BY <1>1 DEF InPlace, Over

(* The connection at turn becomes k, and may have read from the wire.      *)
LEMMA BecameInPlace ==
  ASSUME DInv, PlaceInv, NEW k, NEW where, Became(k, where),
         dpc \in {"turn", "idle"} \/ (dpc = "done" /\ K.state # "CLOSED"),
         Over(k) \/ InItsPlace(k, wire'[Cur], todo[Cur], script[Cur]), Allowed(Seen(K), Seen(k)),
         UNCHANGED <<script, todo, phase, shutdown>>,
         wire' = [c \in Conns |-> wire'[c]], \A c \in Conns : c # Cur => wire'[c] = wire[c]
  PROVE  PlaceInv' /\ SeenStep
  <1>1. Cur \in Conns /\ phase[Cur] = "held"
    BY CurHeld
  <1>2. con' = [con EXCEPT ![Cur] = k] /\ con = [c \in Conns |-> con[c]]
    BY DEF Became, DInv, ListInv, Lists
  <1>3. con'[Cur] = k /\ \A c \in Conns \ {Cur} : con'[c] = con[c]
    BY <1>1, <1>2
  <1> DEFINE d == Cur
  <1>4. d \in Conns /\ phase[d] = "held" /\ con'[d] = k /\ con[d] = K /\ InPlace(d)
        /\ (GivenUp(k, shutdown') \/ InItsPlace(k, wire'[d], todo[d], script[d]))
    BY <1>1, <1>3 DEF PlaceInv, K, Over
  <1>5. \A c \in Conns \ {d} : con'[c] = con[c] /\ wire'[c] = wire[c]
    BY <1>3
  <1>6. Allowed(Seen(con[d]), Seen(con'[d]))
    BY <1>4
  <1> HIDE DEF d
  <1>7. ASSUME NEW c \in Conns, c = d PROVE InPlace(c)'
    <2>1. script'[c] \in Scripts[c] /\ phase'[c] = "held"
      BY <1>4, <1>7 DEF InPlace
    <2>2. GivenUp(con'[c], shutdown') \/ InItsPlace(con'[c], wire'[c], todo'[c], script'[c])
      BY <1>4, <1>7
    <2>3. QED
      BY <2>1, <2>2 DEF InPlace, Over
  <1>8. ASSUME NEW c \in Conns, c # d PROVE InPlace(c)'
    <2>1. InPlace(c)
      BY DEF PlaceInv
    <2>2. con'[c] = con[c] /\ wire'[c] = wire[c] /\ script'[c] = script[c] /\ todo'[c] = todo[c] /\ phase'[c] = phase[c]
      BY <1>5, <1>8
    <2>3. QED
      BY <2>1, <2>2, StaysInPlace
  <1>9. PlaceInv'
    BY <1>7, <1>8 DEF PlaceInv
  <1>10. SeenStep
    BY <1>4, <1>5, <1>6 DEF SeenStep
  <1>11. QED
    BY <1>9, <1>10

(* The connection at turn stands where its client's requests say, or it is *)
(* given up.                                                               *)
LEMMA StandingCur ==
  ASSUME ClientsAreFramed, DInv, WaitInv, PlaceInv,
         dpc \in {"turn", "idle"} \/ (dpc = "done" /\ K.state # "CLOSED")
  PROVE  (Over(K) \/ Standing) /\ Here(K) /\ Whole(K) /\ Waits(K)
  <1>1. Cur \in Conns /\ phase[Cur] = "held" /\ Counted(K)
    BY CurHeld, CurRef
  <1>2. Here(K) /\ script[Cur] \in Scripts[Cur]
    BY <1>1 DEF PlaceInv, InPlace, Here, K
  <1>3. script[Cur] \in Seq(Request) /\ IsFramed(script[Cur])
    BY <1>1, <1>2, MDAssumption DEF ClientsAreFramed
  <1>4. Waits(K)
    BY <1>1 DEF WaitInv, K
  <1>5. QED
    BY <1>1, <1>2, <1>3, <1>4 DEF Standing, Here, Over, GivenUp, InItsPlace

(* A step of the state machine,                                            *)
LEMMA ProperKeeps == ASSUME DInv, PlaceInv, dpc = "idle", NEW k, Proper(k) PROVE PlaceInv' /\ SeenStep
  <1>1. Here(k) /\ Allowed(Seen(K), Seen(k)) /\ Whole(k)
    BY DEF Proper, Here, InItsPlace, Over, GivenUp
  <1>2. wire = [c \in Conns |-> wire[c]]
    BY DEF PlaceInv
  <1>3. CASE Go(k)
    <2>1. Became(k, "idle") /\ UNCHANGED <<script, todo, wire, phase, shutdown>>
      BY <1>3 DEF Go, clientVars, listVars
    <2>2. Over(k) \/ InItsPlace(k, wire'[Cur], todo[Cur], script[Cur])
      BY <1>1, <2>1 DEF Here
    <2>3. QED
      BY <1>1, <1>2, <2>1, <2>2, BecameInPlace
  <1>4. CASE Break(k)
    <2> DEFINE n == Settled(k, shutdown)
    <2>1. Became(n, "done") /\ UNCHANGED <<script, todo, wire, phase, shutdown>>
      BY <1>4 DEF Break, Settled, clientVars, listVars
    <2>2. Like(k, n) \/ Over(n)
      BY <1>1, SettledLike
    <2> HIDE DEF n
    <2>7. Over(k) /\ Like(k, n) => Over(n)
      BY DEF Over, GivenUp, Refused, Like, Leaves, Retains, Whole
    <2>3. Here(n) /\ (Seen(n) = Seen(k) \/ Seen(n) = Nothing)
      BY <1>1, <2>2, <2>7, LikeIsPlaced, OverIsNothing DEF Here
    <2>4. Allowed(Seen(K), Seen(n))
      BY <1>1, <2>3 DEF Allowed
    <2>5. Over(n) \/ InItsPlace(n, wire'[Cur], todo[Cur], script[Cur])
      BY <2>1, <2>3 DEF Here
    <2>6. QED
      BY <1>2, <2>1, <2>4, <2>5, BecameInPlace
  <1>5. QED
    BY <1>3, <1>4 DEF Proper
-----------------------------------------------------------------------------
(* recv takes what fits of what has arrived, or the connection is given    *)
(* up.                                                                     *)
LEMMA ReceivedPlaced ==
  ASSUME NEW k, Whole(k), k.rbSize \in Int, NEW w, NEW t, NEW s, InItsPlace(k, w, t, s)
  PROVE  LET room == k.rbSize - Len(k.buf)
             n == IF room < 0 THEN Len(w) ELSE Smaller(Len(w), room)
             m == Received(k, SubSeq(w, 1, n))
             rest == SubSeq(w, n + 1, Len(w))
         IN  /\ Full(k) => InItsPlace(k, rest, t, s)
             /\ ~Full(k) => Over(m) \/ (InItsPlace(m, rest, t, s) /\ Seen(m) = Seen(k))
  <1> DEFINE room == k.rbSize - Len(k.buf)
             n == IF room < 0 THEN Len(w) ELSE Smaller(Len(w), room)
             bytes == SubSeq(w, 1, n)
             rest == SubSeq(w, n + 1, Len(w))
             r == [k EXCEPT !.buf = @ \o bytes]
             z == [k EXCEPT !.readClosed = TRUE]
             m == Received(k, bytes)
  <1>1. m = IF bytes = << >> THEN Close(z) ELSE IF k.readClosed THEN Close(r) ELSE r
    BY DEF Received
  <1>2. Over(Close(z)) /\ Over(Close(r))
    <2>1. Whole(z) /\ Whole(r)
      BY DEF Whole
    <2>2. QED
      BY <2>1, CloseOver
  <1>3. CASE k.readClosed
    <2>1. InItsPlace(k, rest, t, s)
      BY <1>3 DEF InItsPlace
    <2>2. Over(m)
      BY <1>1, <1>2, <1>3
    <2>3. QED
      BY <2>1, <2>2
  <1>4. CASE ~k.readClosed
    <2>1. PICK p : Follows(k.buf, w, t, s, p) /\ Placed(k, s, p)
      BY <1>4 DEF InItsPlace
    <2>2. w \in Seq(Byte(Len(s))) /\ k.buf \in Seq(Byte(Len(s))) /\ Len(w) \in Nat /\ Len(k.buf) \in Nat
      BY <2>1, LenProperties DEF Follows
    <2>3. ASSUME Full(k) PROVE InItsPlace(k, rest, t, s)
      <3>1. n = 0
        BY <2>2, <2>3 DEF Full, Smaller
      <3> HIDE DEF n
      <3>2. rest = w
        BY <2>2, <3>1, SubSeqFull
      <3>3. QED
        BY <3>2
    <2>4. ASSUME ~Full(k) PROVE Over(m) \/ (InItsPlace(m, rest, t, s) /\ Seen(m) = Seen(k))
      <3>0. n \in Int /\ n <= Len(w)
        BY <2>2 DEF Smaller
      <3> HIDE DEF n
      <3>1. CASE m = r /\ bytes # << >>
        <4>1. n \in 0 .. Len(w)
          <5>1. n < 1 => bytes = << >>
            BY <2>2, <3>0, SubSeqEmpty
          <5>2. QED
            BY <2>2, <3>0, <3>1, <5>1
        <4>2. Follows(k.buf \o bytes, rest, t, s, p)
          BY <2>1, <4>1, FollowsRead
        <4> HIDE DEF bytes, rest, m
        <4>3. Placed(r, s, p)
          <5>1. /\ r.state = k.state /\ r.told = k.told /\ r.rq = k.rq /\ r.given = k.given /\ r.context = k.context
                /\ r.chunk = k.chunk /\ r.chunked = k.chunked /\ r.remaining = k.remaining
            BY DEF Whole
          <5> HIDE DEF r
          <5>2. \A a, j : AtBody(k, a, j) <=> AtBody(r, a, j)
            BY <5>1 DEF AtBody
          <5>3. \A a, j : AtRequest(k, a, j) => AtRequest(r, a, j)
            BY <5>1, <5>2 DEF AtRequest
          <5>4. QED
            BY <2>1, <5>1, <5>3 DEF Placed
        <4>4. /\ Whole(r) /\ r.buf = k.buf \o bytes /\ r.state = k.state /\ r.readClosed = k.readClosed
              /\ r.response = k.response /\ r.shutWr = k.shutWr
          BY DEF Whole
        <4>5. InItsPlace(r, rest, t, s)
          BY <4>2, <4>3, <4>4 DEF InItsPlace, IsOver
        <4>6. Seen(r) = Seen(k)
          BY DEF Seen, Calls, IsOver, Whole
        <4>7. QED
          BY <3>1, <4>5, <4>6
      <3>2. CASE ~(m = r /\ bytes # << >>)
        BY <1>1, <1>2, <1>4, <3>2
      <3>3. QED
        BY <3>1, <3>2
    <2>5. QED
      BY <2>3, <2>4
  <1>5. QED
    BY <1>3, <1>4

(* One that is given up reads or writes in vain.                           *)
LEMMA ReceivedOver ==
  ASSUME NEW k, Over(k), NEW bytes
  PROVE  Over(Received(k, bytes))
  <1> DEFINE r == [k EXCEPT !.buf = @ \o bytes]
             z == [k EXCEPT !.readClosed = TRUE]
             m == Received(k, bytes)
  <1>1. m = IF bytes = << >> THEN Close(z) ELSE IF k.readClosed THEN Close(r) ELSE r
    BY DEF Received
  <1>2. Whole(k) /\ (k.readClosed \/ k.state \in {"CLOSED", "CRASHED"})
    BY DEF Over, GivenUp, Refused
  <1>3. Whole(z) /\ Whole(r) /\ r.state = k.state
    BY <1>2 DEF Whole
  <1> HIDE DEF r, z
  <1>4. Over(Close(z)) /\ Over(Close(r)) /\ (k.state \in {"CLOSED", "CRASHED"} => Over(r))
    BY <1>3, CloseOver DEF Over, GivenUp
  <1>5. QED
    BY <1>1, <1>2, <1>4

LEMMA WrittenOver == ASSUME Over(K), NEW k \in Written \cup {K} PROVE Over(k)
  <1>1. Whole(K)
    BY DEF Over, GivenUp
  <1>2. CASE k \in {K, Close(K)}
    BY <1>1, <1>2, CloseOver
  <1>3. ASSUME NEW n, k = HandleWrite(K, n) PROVE Over(k)
    <2> DEFINE u == [K EXCEPT !.unsent = @ - n]
               h == [u EXCEPT !.state = "HEADERS_SENT", !.pool = PoolReallocate(u.pool, u.wb, u.wbSize, 0).pool,
                              !.wb = NoBlock, !.wbSize = 0]
               b == [K EXCEPT !.left = @ - n, !.state = IF K.left = n THEN "FOOTERS_SENT" ELSE @]
               i == [K EXCEPT !.continued = @ + n]
    <2>1. k = K \/ (K.state \in {"CONTINUE_SENDING", "HEADERS_SENDING", "NORMAL_BODY_READY"} /\ k \in {i, u, h, b})
      BY <1>3 DEF HandleWrite, CheckWriteDone
    <2>2. Keeps(K, u) /\ u.state = K.state /\ Keeps(K, i) /\ i.state = K.state
      BY <1>1 DEF Keeps, Whole
    <2>3. Keeps(K, b) /\ b.state \in {K.state, "FOOTERS_SENT"}
      BY <1>1 DEF Keeps, Whole
    <2> HIDE DEF u, i, b
    <2>4. Keeps(K, h) /\ h.state = "HEADERS_SENT"
      BY <1>1, <2>2 DEF Keeps, Whole
    <2> HIDE DEF h
    <2>5. K.state \in {"CONTINUE_SENDING", "HEADERS_SENDING", "NORMAL_BODY_READY"} => Denied(K)
      BY DEF Over, GivenUp, Denied
    <2>6. QED
      BY <2>1, <2>2, <2>3, <2>4, <2>5, DeniedAlike
  <1>4. QED
    BY <1>2, <1>3 DEF Written

(* This is how a turn begins whose connection waits to read,               *)
LEMMA HandleReadPlaced ==
  ASSUME DInv, PlaceInv, Here(K), Whole(K), Waits(K), HandleRead
  PROVE  PlaceInv' /\ SeenStep
  <1> DEFINE r == ReadyToRead(K)
             w == wire[Cur]
             room == r.rbSize - Len(r.buf)
             n == IF room < 0 THEN Len(w) ELSE Smaller(Len(w), room)
             bytes == SubSeq(w, 1, n)
             rest == SubSeq(w, n + 1, Len(w))
             m == Received(r, bytes)
  <1>1. /\ dpc = "turn" /\ (IF Full(r) THEN Became(r, "idle") ELSE Became(m, "idle"))
        /\ wire' = [wire EXCEPT ![Cur] = rest]
        /\ UNCHANGED <<script, todo, phase, shutdown>>
    BY DEF HandleRead, listVars
  <1>3. Like(K, r)
    BY GrownLike DEF ReadyToRead
  <1>4. r.rbSize \in Int
    BY ReadWaits DEF Waits
  <1>5. Whole(r)
    BY <1>3 DEF Like, Leaves, Retains, Whole
  <1>7. Cur \in Conns /\ wire = [c \in Conns |-> wire[c]]
    BY <1>1, CurHeld DEF PlaceInv
  <1>8. wire' = [c \in Conns |-> wire'[c]] /\ wire'[Cur] = rest /\ \A c \in Conns : c # Cur => wire'[c] = wire[c]
    BY <1>1, <1>7
  <1> HIDE DEF r, w
  <1>9. \E k : /\ Became(k, "idle") /\ (Over(k) \/ InItsPlace(k, rest, todo[Cur], script[Cur]))
               /\ Seen(k) = Seen(K) \/ Seen(k) = Nothing
    <2>1. CASE Over(K)
      <3>1. Over(r)
        BY <1>3, <2>1 DEF Over, GivenUp, Refused, Like, Leaves, Retains, Whole
      <3>2. Over(m)
        BY <3>1, ReceivedOver
      <3> HIDE DEF m, rest
      <3>3. QED
        BY <1>1, <3>1, <3>2, OverIsNothing
    <2>2. CASE InItsPlace(K, wire[Cur], todo[Cur], script[Cur])
      <3>1. InItsPlace(r, w, todo[Cur], script[Cur]) /\ Seen(r) = Seen(K)
        BY <1>3, <2>2, LikeIsPlaced DEF w
      <3>2. /\ Full(r) => InItsPlace(r, rest, todo[Cur], script[Cur])
            /\ ~Full(r) => Over(m) \/ (InItsPlace(m, rest, todo[Cur], script[Cur]) /\ Seen(m) = Seen(r))
        BY <1>4, <1>5, <3>1, ReceivedPlaced
      <3> HIDE DEF m, rest
      <3>3. QED
        BY <1>1, <3>1, <3>2, OverIsNothing
    <2>3. QED
      BY <2>1, <2>2 DEF Here
  <1> HIDE DEF m, rest
  <1>10. PICK k : /\ Became(k, "idle") /\ (Over(k) \/ InItsPlace(k, rest, todo[Cur], script[Cur]))
                  /\ Seen(k) = Seen(K) \/ Seen(k) = Nothing
    BY <1>9
  <1>11. Allowed(Seen(K), Seen(k))
    BY <1>10 DEF Allowed
  <1>12. QED
    BY <1>1, <1>8, <1>10, <1>11, BecameInPlace

(* send takes a part of the response, or all of it, or fails.              *)
LEMMA WrittenPlaced ==
  ASSUME InItsPlace(K, wire[Cur], todo[Cur], script[Cur]), NEW k \in Written \cup {K}
  PROVE  Here(k) /\ (Seen(k) = Seen(K) \/ Seen(k) = Nothing)
  <1>1. Whole(K) /\ Here(K)
    BY DEF Here, InItsPlace
  <1>2. CASE k = K
    BY <1>1, <1>2
  <1>3. CASE k = Close(K)
    BY <1>1, <1>3, CloseOver, OverIsNothing DEF Here
  <1>4. ASSUME NEW n, k = HandleWrite(K, n) PROVE Here(k) /\ Seen(k) = Seen(K)
    <2> DEFINE u == [K EXCEPT !.unsent = @ - n]
               h == [u EXCEPT !.state = "HEADERS_SENT", !.pool = PoolReallocate(u.pool, u.wb, u.wbSize, 0).pool,
                              !.wb = NoBlock, !.wbSize = 0]
               b == [K EXCEPT !.left = @ - n, !.state = IF K.left = n THEN "FOOTERS_SENT" ELSE @]
               i == [K EXCEPT !.continued = @ + n]
    <2>1. \/ k = i \/ k = K
          \/ K.state = "HEADERS_SENDING" /\ (k = u \/ k = h)
          \/ K.state = "NORMAL_BODY_READY" /\ k = b
      BY <1>4 DEF HandleWrite, CheckWriteDone
    <2>2. CASE k = i \/ k = K
      <3>1. Like(K, k)
        BY <1>1, <2>2 DEF Like, Leaves, Retains, Whole
      <3>2. QED
        BY <1>1, <3>1, LikeIsPlaced DEF Here
    <2>3. CASE K.state = "HEADERS_SENDING" /\ (k = u \/ k = h)
      <3>1. Retains(K, u) /\ u.state = K.state
        BY <1>1 DEF Retains, Whole
      <3> HIDE DEF u
      <3>2. Retains(K, h) /\ h.state = "HEADERS_SENT"
        BY <1>1, <3>1 DEF Retains, Whole
      <3> HIDE DEF h
      <3>3. Retains(K, k) /\ k.state \in {"HEADERS_SENDING", "HEADERS_SENT"}
        BY <2>3, <3>1, <3>2
      <3>4. /\ Whole(k) /\ k.buf = K.buf /\ k.told = K.told /\ k.rq = K.rq /\ k.given = K.given
            /\ k.readClosed = K.readClosed /\ k.shutWr = K.shutWr /\ k.response = K.response /\ k.context = K.context
        BY <1>1, <3>3 DEF Retains, Whole
      <3>5. QED
        BY <1>1, <2>3, <3>3, <3>4, LateIsAlike DEF Here, Late
    <2>4. CASE K.state = "NORMAL_BODY_READY" /\ k = b
      <3>1. Retains(K, b) /\ b.state \in {"FOOTERS_SENT", "NORMAL_BODY_READY"}
        BY <1>1, <2>4 DEF Retains, Whole
      <3> HIDE DEF b
      <3>2. /\ Whole(k) /\ k.buf = K.buf /\ k.told = K.told /\ k.rq = K.rq /\ k.given = K.given
            /\ k.readClosed = K.readClosed /\ k.shutWr = K.shutWr /\ k.response = K.response /\ k.context = K.context
        BY <1>1, <2>4, <3>1 DEF Retains, Whole
      <3>3. QED
        BY <1>1, <2>4, <3>1, <3>2, LateIsAlike DEF Here, Late
    <2>5. QED
      BY <2>1, <2>2, <2>3, <2>4
  <1>5. QED
    BY <1>2, <1>3, <1>4 DEF Written

(* so a turn in which it writes keeps it in its place.                     *)
LEMMA WritePlaced ==
  ASSUME DInv, PlaceInv, Here(K), Write \/ NeitherReadNorWrite \/ FastWrite
  PROVE  PlaceInv' /\ SeenStep
  <1>1. dpc = "turn" \/ (dpc = "done" /\ K.state # "CLOSED")
    BY DEF Write, NeitherReadNorWrite, FastWrite, BodyReady
  <1>2. PICK k \in Written \cup {K} : Became(k, "idle")
    BY DEF Write, NeitherReadNorWrite, FastWrite
  <1>3. UNCHANGED <<script, todo, wire, phase, shutdown>>
    BY DEF Write, NeitherReadNorWrite, FastWrite, clientVars, listVars
  <1>4. Here(k) /\ Allowed(Seen(K), Seen(k))
    BY WrittenPlaced, WrittenOver, OverIsNothing DEF Allowed, Here
  <1>5. wire = [c \in Conns |-> wire[c]] /\ (Over(k) \/ InItsPlace(k, wire'[Cur], todo[Cur], script[Cur]))
    BY <1>3, <1>4 DEF PlaceInv, Here
  <1>6. QED
    BY <1>1, <1>2, <1>3, <1>4, <1>5, BecameInPlace
-----------------------------------------------------------------------------
(* The application sees nothing of a step that leaves connections alone.   *)
LEMMA UnseenStep == ASSUME con' = con PROVE SeenStep
  <1>1. {} \in SUBSET Conns /\ \A c \in Conns : con'[c] = IF c \in {} THEN NewConnection ELSE con[c]
    OBVIOUS
  <1>2. QED
    BY <1>1 DEF SeenStep

(* Steps that leave the connections and what their clients send alone,     *)
(* but may close one in the backlog.                                       *)
LEMMA AlonePlaced ==
  ASSUME DInv, PlaceInv,
         Select \/ AcceptFails \/ (\E c \in Conns : Reject(c) \/ Leave(c)) \/ EndTurn \/ Closed \/ Stop \/ UNCHANGED vars
  PROVE  PlaceInv' /\ SeenStep
  <1>1. /\ UNCHANGED <<con, script, todo, wire>> /\ (shutdown' = shutdown \/ shutdown' = TRUE)
        /\ phase' = phase \/ \E c \in Conns : phase[c] = "backlog" /\ phase' = [phase EXCEPT ![c] = "closed"]
    BY DEF Select, AcceptFails, Reject, Round, Leave, EndTurn, Closed, Stop, vars, clientVars, listVars, Backlog
  <1>2. \A c \in Conns : phase'[c] = phase[c] \/ (phase[c] = "backlog" /\ phase'[c] = "closed")
    BY <1>1 DEF DInv, ListInv, Lists
  <1>6. ASSUME NEW c \in Conns PROVE InPlace(c)'
    <2>1. CASE phase'[c] = phase[c]
      BY <1>1, <2>1, StaysInPlace DEF PlaceInv
    <2>2. CASE phase[c] = "backlog" /\ phase'[c] = "closed"
      BY <1>1, <2>2 DEF PlaceInv, InPlace
    <2>3. QED
      BY <1>2, <2>1, <2>2
  <1>3. PlaceInv'
    BY <1>1, <1>6 DEF PlaceInv
  <1>4. SeenStep
    BY <1>1, UnseenStep
  <1>5. QED
    BY <1>3, <1>4

(* A new connection is in its place before anything was sent.              *)
LEMMA NewIsPlaced ==
  ASSUME NEW s \in Seq(Request)
  PROVE  InItsPlace(NewConnection, << >>, Stream(s), s)
  <1>1. /\ NewConnection.buf = << >> /\ NewConnection.state = "INIT" /\ NewConnection.told = 0
        /\ NewConnection.rq = NoRequest /\ NewConnection.given = 0 /\ NewConnection.context = NULL
        /\ NewConnection.chunk = 0 /\ Whole(NewConnection) /\ NewConnection.readClosed = FALSE
        /\ NewConnection.shutWr = FALSE /\ NewConnection.response = NULL
    BY DEF NewConnection, Whole
  <1>2. Follows(<< >>, << >>, Stream(s), s, 0)
    BY FollowsStart
  <1>3. Len(s) \in Nat /\ EndOf(s, 0) = 0
    BY StreamEnds
  <1>4. Placed(NewConnection, s, 0)
    BY <1>1, <1>3 DEF Placed
  <1>5. QED
    BY <1>1, <1>2, <1>4 DEF InItsPlace, IsOver

(* A connection is accepted.                                               *)
LEMMA AcceptPlaced == ASSUME DInv, PlaceInv, NEW d \in Conns, Accept(d) PROVE PlaceInv' /\ SeenStep
  <1>1. /\ UNCHANGED <<script, todo, wire, shutdown>> /\ phase[d] = "backlog"
        /\ phase' = [phase EXCEPT ![d] = "held"] /\ con' = [con EXCEPT ![d] = NewConnection]
    BY DEF Accept, Round, clientVars, Backlog
  <1>2. \A c \in Conns : /\ phase'[c] = IF c = d THEN "held" ELSE phase[c]
                         /\ con'[c] = IF c = d THEN NewConnection ELSE con[c]
    BY <1>1 DEF DInv, ListInv, Lists
  <1>3. wire[d] = << >> /\ todo[d] = Stream(script[d]) /\ script[d] \in Scripts[d]
    BY <1>1 DEF PlaceInv, InPlace
  <1>4. InItsPlace(NewConnection, << >>, Stream(script[d]), script[d])
    BY <1>3, MDAssumption, NewIsPlaced
  <1>5. ASSUME NEW c \in Conns, c = d PROVE InPlace(c)'
    BY <1>1, <1>2, <1>3, <1>4, <1>5 DEF InPlace
  <1>6. ASSUME NEW c \in Conns, c # d PROVE InPlace(c)'
    BY <1>1, <1>2, <1>6, StaysInPlace DEF PlaceInv
  <1>7. PlaceInv'
    BY <1>1, <1>5, <1>6 DEF PlaceInv
  <1>8. \A c \in Conns : con'[c] = IF c \in {d} THEN NewConnection ELSE con[c]
    BY <1>2
  <1>9. QED
    BY <1>7, <1>8 DEF SeenStep

(* Connections are freed.                                                  *)
LEMMA FreedPlaced == ASSUME DInv, PlaceInv, CleanupConnections \/ LeaveLoop PROVE PlaceInv' /\ SeenStep
  <1>1. ToSet(open) \subseteq Conns /\ cleanup \subseteq Conns
    BY ToSetOf DEF DInv, ListInv, Lists
  <1>2. PICK conns \in SUBSET Conns : Freed(conns) /\ shutdown' = shutdown
    BY <1>1 DEF CleanupConnections, LeaveLoop
  <1>3. ASSUME NEW c \in Conns PROVE InPlace(c)'
    <2>1. CASE c \in conns
      <3>1. phase'[c] = "closed" /\ con'[c] = NewConnection
        BY <1>2, <2>1 DEF Freed
      <3>2. QED
        BY <3>1 DEF InPlace
    <2>2. CASE c \notin conns
      <3>1. /\ con'[c] = con[c] /\ script'[c] = script[c] /\ wire'[c] = wire[c] /\ todo'[c] = todo[c]
            /\ phase'[c] = phase[c]
        BY <1>2, <2>2 DEF Freed
      <3>2. QED
        BY <1>2, <3>1, StaysInPlace DEF PlaceInv
    <2>3. QED
      BY <2>1, <2>2
  <1>4. /\ script' = [c \in Conns |-> script'[c]] /\ todo' = [c \in Conns |-> todo'[c]]
        /\ wire' = [c \in Conns |-> wire'[c]]
    BY <1>2 DEF Freed
  <1>5. \A c \in Conns : con'[c] = IF c \in conns THEN NewConnection ELSE con[c]
    BY <1>2 DEF Freed
  <1>6. QED
    BY <1>3, <1>4, <1>5 DEF PlaceInv, SeenStep

(* A client connects,                                                      *)
LEMMA ConnectPlaced ==
  ASSUME DInv, PlaceInv, NEW d \in Conns, NEW s \in Scripts[d], Connect(d, s)
  PROVE  PlaceInv' /\ SeenStep
  <1>1. /\ phase[d] = "new" /\ phase' = [phase EXCEPT ![d] = "backlog"]
        /\ script' = [script EXCEPT ![d] = s] /\ todo' = [todo EXCEPT ![d] = Stream(s)]
        /\ UNCHANGED <<con, wire, shutdown>>
    BY DEF Connect
  <1>2. ASSUME NEW c \in Conns, c = d PROVE InPlace(c)'
    <2>1. con[c] = NewConnection /\ wire[c] = << >>
      BY <1>1, <1>2 DEF PlaceInv, InPlace
    <2>2. script'[c] = s /\ todo'[c] = Stream(s) /\ phase'[c] = "backlog"
      BY <1>1, <1>2 DEF PlaceInv, DInv, ListInv, Lists
    <2>3. QED
      BY <1>1, <1>2, <2>1, <2>2 DEF InPlace
  <1>3. ASSUME NEW c \in Conns, c # d PROVE InPlace(c)'
    <2>1. script'[c] = script[c] /\ todo'[c] = todo[c] /\ phase'[c] = phase[c]
      BY <1>1, <1>3 DEF PlaceInv, DInv, ListInv, Lists
    <2>2. QED
      BY <1>1, <2>1, StaysInPlace DEF PlaceInv
  <1>4. SeenStep
    BY <1>1, UnseenStep
  <1>5. \A x \in {script, todo, wire} : x = [c \in Conns |-> x[c]]
    BY DEF PlaceInv
  <1>6. /\ script' = [c \in Conns |-> script'[c]] /\ todo' = [c \in Conns |-> todo'[c]]
        /\ wire' = [c \in Conns |-> wire'[c]]
    BY <1>1, <1>5
  <1>7. PlaceInv'
    BY <1>2, <1>3, <1>6 DEF PlaceInv
  <1>8. QED
    BY <1>4, <1>7

(* and sends.                                                              *)
LEMMA SendPlaced == ASSUME DInv, PlaceInv, NEW d \in Conns, Send(d) PROVE PlaceInv' /\ SeenStep
  <1>1. PICK n \in 1 .. Len(todo[d]) :
          /\ phase[d] = "held" /\ UNCHANGED <<con, script, phase, shutdown>>
          /\ wire' = [wire EXCEPT ![d] = @ \o SubSeq(todo[d], 1, n)]
          /\ todo' = [todo EXCEPT ![d] = SubSeq(@, n + 1, Len(@))]
    BY DEF Send, listVars
  <1>2. ASSUME NEW c \in Conns, c = d PROVE InPlace(c)'
    <2> DEFINE w == wire[c] \o SubSeq(todo[c], 1, n)
               t == SubSeq(todo[c], n + 1, Len(todo[c]))
               k == con[c]
               s == script[c]
    <2>1. wire'[c] = w /\ todo'[c] = t
      BY <1>1, <1>2 DEF PlaceInv
    <2>2. s \in Scripts[c] /\ (GivenUp(k, shutdown') \/ InItsPlace(k, wire[c], todo[c], s))
      BY <1>1, <1>2 DEF PlaceInv, InPlace, Over
    <2>3. n \in 1 .. Len(todo[c])
      BY <1>2
    <2>4. \A p : Follows(k.buf, wire[c], todo[c], s, p) => Follows(k.buf, w, t, s, p)
      <3> SUFFICES ASSUME NEW p, Follows(k.buf, wire[c], todo[c], s, p) PROVE Follows(k.buf, w, t, s, p)
        OBVIOUS
      <3>1. Len(todo[c]) \in Nat
        BY LenProperties DEF Follows
      <3>2. n \in 0 .. Len(todo[c])
        BY <2>3, <3>1
      <3>3. QED
        BY <3>2, FollowsSend
    <2> HIDE DEF w, t
    <2>5. GivenUp(k, shutdown') \/ InItsPlace(k, w, t, s)
      BY <2>2, <2>4 DEF InItsPlace
    <2>6. QED
      BY <1>1, <1>2, <2>1, <2>2, <2>5 DEF InPlace, Over
  <1>3. ASSUME NEW c \in Conns, c # d PROVE InPlace(c)'
    <2>1. wire'[c] = wire[c] /\ todo'[c] = todo[c]
      BY <1>1, <1>3 DEF PlaceInv
    <2>2. QED
      BY <1>1, <2>1, StaysInPlace DEF PlaceInv
  <1>4. SeenStep
    BY <1>1, UnseenStep
  <1>5. \A x \in {script, todo, wire} : x = [c \in Conns |-> x[c]]
    BY DEF PlaceInv
  <1>6. /\ script' = [c \in Conns |-> script'[c]] /\ todo' = [c \in Conns |-> todo'[c]]
        /\ wire' = [c \in Conns |-> wire'[c]]
    BY <1>1, <1>5
  <1>7. PlaceInv'
    BY <1>2, <1>3, <1>6 DEF PlaceInv
  <1>8. QED
    BY <1>4, <1>7

(* Every step of the daemon and of its clients.                            *)
LEMMA PlaceStep ==
  ASSUME ClientsAreFramed, DInv, WaitInv, PlaceInv, [MhdNext]_vars
  PROVE  PlaceInv' /\ SeenStep
  <1>1. CASE HandleRead \/ Write \/ NeitherReadNorWrite \/ FastWrite
    <2>1. dpc = "turn" \/ (dpc = "done" /\ K.state # "CLOSED")
      BY <1>1 DEF HandleRead, Write, NeitherReadNorWrite, FastWrite, BodyReady
    <2>2. Here(K) /\ Whole(K) /\ Waits(K)
      BY <2>1, StandingCur
    <2>3. QED
      BY <1>1, <2>2, HandleReadPlaced, WritePlaced
  <1>2. CASE HandleIdle /\ ~Closed
    <2>1. dpc = "idle"
      BY <1>2 DEF HandleIdle, NoLine, FirstLine, HeaderLine, HeaderPart, HeadersReceived, FirstCall, 
         ContinueSending, ReadChunkLine, DataCall, BodyWaits, BodyEnds, FinalCall, Sending, HeadersSent,
         BodySent, FootersSent, Idle, AtLine
    <2>2. Over(K) \/ Standing
      BY <2>1, StandingCur
    <2>3. \E k : Proper(k)
      BY <1>2, <2>2, IdleProper, OverGoes
    <2>4. QED
      BY <2>1, <2>3, ProperKeeps, SMTT(60)
  <1>3. CASE \/ Select \/ AcceptFails \/ (\E c \in Conns : Reject(c) \/ Leave(c))
             \/ EndTurn \/ Closed \/ Stop \/ UNCHANGED vars
    BY <1>3, AlonePlaced
  <1>4. CASE (\E c \in Conns : Accept(c)) \/ CleanupConnections \/ LeaveLoop
    BY <1>4, AcceptPlaced, FreedPlaced
  <1>5. CASE \E c \in Conns : Send(c) \/ \E s \in Scripts[c] : Connect(c, s)
    BY <1>5, SendPlaced, ConnectPlaced
  <1>6. QED
    BY <1>1, <1>2, <1>3, <1>4, <1>5 DEF MhdNext, PollingThread, Client

(* The inductive invariant: every connection is in its place in what its   *)
(* client sends, when the clients keep to HTTP.                            *)
LEMMA PlaceInvariant == ASSUME ClientsAreFramed PROVE MhdSpec => [](DInv /\ WaitInv /\ PlaceInv)
  <1>1. MhdInit => PlaceInv
    BY DEF MhdInit, PlaceInv, InPlace
  <1>2. DInv /\ WaitInv /\ PlaceInv /\ [MhdNext]_vars => PlaceInv'
    BY PlaceStep
  <1>3. QED
    BY <1>1, <1>2, OnlyForgottenIsPending, PTL DEF MhdSpec
-----------------------------------------------------------------------------
(* InStep: between two requests a connection has read the requests it has  *)
(* answered and nothing of the next but empty lines before it, whatever    *)
(* the portions in which a client that keeps to HTTP sends them.           *)
THEOREM AlwaysInStep == ASSUME ClientsAreFramed PROVE MhdSpec => []InStep
  <1>1. WaitInv /\ PlaceInv => InStep
    <2> SUFFICES ASSUME WaitInv, PlaceInv, NEW c \in Conns, Held(c), con[c].state = "INIT"
                 PROVE  LET rest == con[c].buf \o wire[c] \o todo[c]
                            sent == Stream(script[c])
                        IN  \E n \in 0 .. Len(sent) :
                              /\ rest = SubSeq(sent, n + 1, Len(sent))
                              /\ \A i \in 1 .. n : sent[i].id <= con[c].told \/ sent[i].kind = "empty"
                              /\ \A i \in n + 1 .. Len(sent) : sent[i].id > con[c].told
      BY DEF InStep
    <2> DEFINE s == script[c]
               k == con[c]
               S == Stream(s)
               L == Len(S)
               e == EndOf(s, k.told)
    <2>1. s \in Seq(Request) /\ InItsPlace(k, wire[c], todo[c], s)
      <3>1. s \in Seq(Request) /\ (Over(k) \/ InItsPlace(k, wire[c], todo[c], s))
        BY MDAssumption DEF PlaceInv, InPlace, Held
      <3>2. ~Over(k)
        BY DEF Over, GivenUp, Refused
      <3>3. QED
        BY <3>1, <3>2
    <2>2. k.state = "INIT" /\ ~k.readClosed
      BY <2>1 DEF InItsPlace, Reading
    <2>3. PICK p : Follows(k.buf, wire[c], todo[c], s, p) /\ Placed(k, s, p)
      BY <2>1, <2>2 DEF InItsPlace
    <2>4. /\ k.told \in 0 .. Len(s) /\ e <= p
          /\ \A i \in e + 1 .. p : S[i].kind = "empty"
      BY <2>2, <2>3 DEF Placed
    <2>5. p \in 0 .. L /\ k.buf \o wire[c] \o todo[c] = SubSeq(S, p + 1, L)
      <3> DEFINE b == k.buf
                 w == wire[c]
                 t == todo[c]
      <3>1. s \in Seq(Request) /\ Follows(b, w, t, s, p)
        BY <2>1, <2>3
      <3> HIDE DEF s, b, w, t
      <3>2. p \in 0 .. Len(Stream(s)) /\ b \o w \o t = SubSeq(Stream(s), p + 1, Len(Stream(s)))
        BY <3>1, FollowsRest, ZenonT(60)
      <3>3. QED
        BY <3>2 DEF b, w, t
    <2>6. /\ e \in 0 .. L /\ L \in Nat /\ S \in Seq(Byte(Len(s))) /\ Len(s) \in Nat
          /\ \A i \in 1 .. L : S[i].id <= k.told <=> i <= e
      BY <2>1, <2>4, StreamEnds
    <2> HIDE DEF s, S, e
    <2>7. \A i \in 1 .. L : S[i].id \in Nat
      <3>1. \A i \in 1 .. L : S[i] \in Byte(Len(s))
        BY <2>6, ElementOfSeq
      <3>2. QED
        BY <2>6, <3>1 DEF Byte
    <2> HIDE DEF k, L
    <2>8. ASSUME NEW i \in 1 .. p PROVE S[i].id <= k.told \/ S[i].kind = "empty"
      <3>1. i \in 1 .. L /\ (i <= e \/ i \in e + 1 .. p)
        BY <2>4, <2>5, <2>6
      <3>2. QED
        BY <2>4, <2>6, <3>1
    <2>9. ASSUME NEW i \in p + 1 .. L PROVE S[i].id > k.told
      <3>1. i \in 1 .. L /\ ~(i <= e)
        BY <2>4, <2>5, <2>6
      <3>2. S[i].id \in Nat /\ k.told \in Nat /\ ~(S[i].id <= k.told)
        BY <2>4, <2>6, <2>7, <3>1
      <3>3. QED
        BY <3>2
    <2>10. QED
      BY <2>5, <2>8, <2>9 DEF k, s, S, L
  <1>2. QED
    BY <1>1, PlaceInvariant, PTL

-----------------------------------------------------------------------------
(* Nothing is seen of a new connection.                                    *)
LEMMA NewIsNothing == Seen(NewConnection) = Nothing
  <1>1. /\ NewConnection.state = "INIT" /\ NewConnection.response = NULL /\ NewConnection.readClosed = FALSE
        /\ NewConnection.rq = NoRequest /\ NewConnection.context = NULL /\ NewConnection.shutWr = FALSE
    BY DEF NewConnection
  <1>2. ~IsOver(NewConnection)
    BY <1>1 DEF IsOver
  <1>3. Calls(NewConnection) = "none"
    BY <1>1, <1>2, MCAssumption DEF Calls, Asked
  <1>4. BodySize(NoRequest) = 0
    <2>1. NoRequest.body = << >>
      BY DEF NoRequest
    <2>2. Len(NoRequest.body) = 0
      BY <2>1, EmptySeq
    <2>3. QED
      BY <2>2, DataInGrows
  <1>5. QED
    BY <1>1, <1>2, <1>3, <1>4 DEF Seen, Nothing

(* The contract's state, as the connections show it.                       *)
SizeSeen(k) == IF IsOver(k) THEN 0 ELSE BodySize(k.rq)
GivenSeen(k) == IF Calls(k) = "none" THEN 0 ELSE k.given
ContextSeen(k) == IF IsOver(k) THEN NULL ELSE k.context

(* It is what is seen of a connection, part by part.                       *)
LEMMA SeenIs ==
  ASSUME NEW k
  PROVE  Seen(k) = [calls |-> Calls(k), size |-> SizeSeen(k), given |-> GivenSeen(k), context |-> ContextSeen(k)]
  BY DEF Seen, SizeSeen, GivenSeen, ContextSeen

(* Connections that are freed end what was seen of them.                   *)
LEMMA EndSeen ==
  ASSUME NEW over \in SUBSET Conns,
         \A c \in Conns : Seen(con'[c]) = IF c \in over THEN Nothing ELSE Seen(con[c])
  PROVE  Callback!End(over)
  <1>1. \A c \in Conns : /\ Calls(con'[c]) = IF c \in over THEN "none" ELSE Calls(con[c])
                         /\ SizeSeen(con'[c]) = IF c \in over THEN 0 ELSE SizeSeen(con[c])
                         /\ GivenSeen(con'[c]) = IF c \in over THEN 0 ELSE GivenSeen(con[c])
                         /\ ContextSeen(con'[c]) = IF c \in over THEN NULL ELSE ContextSeen(con[c])
    BY SeenIs DEF Nothing
  <1>2. QED
    BY <1>1 DEF Callback!End, SizeSeen, GivenSeen, ContextSeen

(* What is seen of one connection goes on as the contract allows.          *)
LEMMA AllowedSeen ==
  ASSUME NEW c \in Conns, Allowed(Seen(con[c]), Seen(con'[c])), \A d \in Conns \ {c} : con'[d] = con[d]
  PROVE  Callback!NextCallback
  <1> DEFINE v == Seen(con[c])
             n == Seen(con'[c])
  <1>1. /\ v.calls = Calls(con[c]) /\ v.size = SizeSeen(con[c]) /\ v.given = GivenSeen(con[c])
        /\ v.context = ContextSeen(con[c])
        /\ n.calls = Calls(con'[c]) /\ n.size = SizeSeen(con'[c]) /\ n.given = GivenSeen(con'[c])
        /\ n.context = ContextSeen(con'[c])
    BY SeenIs
  <1>2. CASE n = v \/ n = Nothing
    <2>1. \E over \in SUBSET Conns : \A d \in Conns : Seen(con'[d]) = IF d \in over THEN Nothing ELSE Seen(con[d])
      <3>1. CASE n = v
        <4>1. {} \in SUBSET Conns /\ \A d \in Conns : Seen(con'[d]) = IF d \in {} THEN Nothing ELSE Seen(con[d])
          BY <3>1
        <4>2. QED
          BY <4>1
      <3>2. CASE n = Nothing
        <4>1. {c} \in SUBSET Conns /\ \A d \in Conns : Seen(con'[d]) = IF d \in {c} THEN Nothing ELSE Seen(con[d])
          BY <3>2
        <4>2. QED
          BY <4>1
      <3>3. QED
        BY <1>2, <3>1, <3>2
    <2>2. QED
      BY <2>1, EndSeen DEF Callback!NextCallback
  <1> HIDE DEF v, n
  <1>3. CASE Begins(v, n)
    <2>1. Callback!NewRequest(c)
      BY <1>1, <1>3 DEF Begins, Callback!NewRequest, SizeSeen, GivenSeen, ContextSeen
    <2>2. QED
      BY <2>1 DEF Callback!NextCallback
  <1>4. ASSUME IsCalled(v, n) PROVE Callback!Call(c) /\ \A d \in Conns : GivenSeen(con'[d]) = GivenSeen(con[d])
    BY <1>1, <1>4, ZenonT(60) DEF IsCalled, Callback!Call, SizeSeen, GivenSeen, ContextSeen
  <1>5. CASE CalledFirst(v, n)
    <2>1. Callback!FirstCall(c)
      BY <1>1, <1>4, <1>5 DEF CalledFirst, Callback!FirstCall, GivenSeen, ContextSeen
    <2>2. QED
      BY <2>1 DEF Callback!NextCallback
  <1>6. CASE IsGiven(v, n)
    <2>1. Callback!DataCall(c)
      BY <1>1, <1>6, ZenonT(60) DEF IsGiven, Callback!DataCall, SizeSeen, GivenSeen, ContextSeen
    <2>2. QED
      BY <2>1 DEF Callback!NextCallback
  <1>7. CASE CalledLast(v, n)
    <2>1. Callback!FinalCall(c)
      BY <1>1, <1>4, <1>7 DEF CalledLast, Callback!FinalCall, SizeSeen, GivenSeen
    <2>2. QED
      BY <2>1 DEF Callback!NextCallback
  <1>8. QED
    BY <1>2, <1>3, <1>5, <1>6, <1>7 DEF Allowed, v, n

(* The daemon keeps to the contract of MHD_AccessHandlerCallback towards   *)
(* the application: one first call for a request, then the data of its     *)
(* body, in order and not beyond its end, and the final call only when all *)
(* of it was given, and *con_cls is the request's own.  This holds for any *)
(* clients that keep to HTTP, any number of connections and any pool, also *)
(* when the pool is exhausted or the daemon is being stopped, until the    *)
(* connection is given up (IsOver).                                        *)
THEOREM KeepsToTheContract == ASSUME ClientsAreFramed PROVE MhdSpec => ImplementsCallback
  <1>1. MhdInit => Callback!InitCallback
    <2>1. /\ Calls(NewConnection) = "none" /\ SizeSeen(NewConnection) = 0
          /\ GivenSeen(NewConnection) = 0 /\ ContextSeen(NewConnection) = NULL
      BY NewIsNothing, SeenIs DEF Nothing
    <2>2. QED
      BY <2>1 DEF MhdInit, Callback!InitCallback, SizeSeen, GivenSeen, ContextSeen
  <1>2. DInv /\ WaitInv /\ PlaceInv /\ [MhdNext]_vars => [Callback!NextCallback]_(Callback!callbackVars)
    <2> SUFFICES ASSUME DInv, WaitInv, PlaceInv, [MhdNext]_vars PROVE Callback!NextCallback
      OBVIOUS
    <2>1. CASE \E c \in Conns : Allowed(Seen(con[c]), Seen(con'[c])) /\ \A d \in Conns \ {c} : con'[d] = con[d]
      BY <2>1, AllowedSeen
    <2>2. CASE \E conns \in SUBSET Conns : \A c \in Conns : con'[c] = IF c \in conns THEN NewConnection ELSE con[c]
      <3>1. PICK conns \in SUBSET Conns : \A c \in Conns : con'[c] = IF c \in conns THEN NewConnection ELSE con[c]
        BY <2>2
      <3>2. \A c \in Conns : Seen(con'[c]) = IF c \in conns THEN Nothing ELSE Seen(con[c])
        BY <3>1, NewIsNothing
      <3>3. Callback!End(conns)
        BY <3>2, EndSeen
      <3>4. QED
        BY <3>3 DEF Callback!NextCallback
    <2>3. QED
      BY <2>1, <2>2, PlaceStep DEF SeenStep
  <1>3. QED
    BY <1>1, <1>2, PlaceInvariant, PTL DEF MhdSpec, ImplementsCallback, Callback!SpecCallback

-----------------------------------------------------------------------------
(* What is seen of a connection as given never exceeds the body's size.    *)
Within(v) == v.size \in Nat /\ v.given \in 0 .. v.size /\ (v.calls = "none" => v.given = 0)
WithinInv == \A c \in Conns : Within(Seen(con[c]))

(* No step that the contract allows makes it exceed that size.             *)
LEMMA AllowedWithin ==
  ASSUME NEW v, NEW n, Within(v), Allowed(v, n)
  PROVE  Within(n)
  <1>1. CASE n = v
    BY <1>1
  <1>2. CASE n = Nothing
    BY <1>2 DEF Within, Nothing
  <1>3. CASE Begins(v, n)
    BY <1>3 DEF Within, Begins
  <1>4. ASSUME IsCalled(v, n) PROVE Within(n)
    BY <1>4 DEF Within, IsCalled
  <1>5. CASE IsGiven(v, n)
    BY <1>5 DEF Within, IsGiven
  <1>6. QED
    BY <1>1, <1>2, <1>3, <1>4, <1>5 DEF Allowed, CalledFirst, CalledLast

(* A connection that the application was told nothing of has given it      *)
(* nothing, or no more than the body whose answer it is sending.           *)
LEMMA PlacedWithin ==
  ASSUME NEW k, NEW s \in Seq(Request), NEW w, NEW t, InItsPlace(k, w, t, s), Within(Seen(k)), ~IsOver(k)
  PROVE  k.given <= BodySize(k.rq)
  <1>1. /\ Seen(k).size = BodySize(k.rq) /\ Seen(k).given = IF Calls(k) = "none" THEN 0 ELSE k.given
    BY DEF Seen
  <1>2. k.readClosed => Calls(k) # "none"
    <2> SUFFICES ASSUME k.readClosed PROVE Calls(k) # "none"
      OBVIOUS
    <2>1. k.response = "app"
      BY DEF IsOver
    <2>2. Calls(k) = "answered"
      BY <2>1, MCAssumption DEF Calls
    <2>3. QED
      BY <2>2
  <1>3. CASE Calls(k) # "none"
    BY <1>1, <1>3 DEF Within
  <1>4. CASE Calls(k) = "none" /\ k.state \in Early
    <2>1. ~k.readClosed
      BY <1>2, <1>4
    <2>2. k.given = 0
      BY <1>4, <2>1 DEF InItsPlace, Placed
    <2>3. QED
      BY <1>1, <2>2 DEF Within
  <1>5. CASE Calls(k) = "none" /\ k.state \notin Early
    <2>1. ~k.readClosed
      BY <1>2, <1>5
    <2>2. PICK p : Placed(k, s, p)
      BY <2>1 DEF InItsPlace
    <2> DEFINE a == s[k.told + 1]
               n == p - EndOf(s, k.told) - Len(a.head)
    <2>3. k.told + 1 \in 1 .. Len(s) /\ k.rq = a /\ AtRequest(k, a, p - EndOf(s, k.told))
      BY <1>5, <2>2 DEF Placed, Early
    <2>4. k.state \in OfBody => n \in 0 .. Len(a.body) /\ k.given = DataIn(a, n)
      BY <2>3 DEF AtRequest, AtBody
    <2>5. k.state \notin OfBody => k.given = BodySize(a)
      BY <1>5, <2>3 DEF AtRequest
    <2>6. a \in Request
      BY <2>3, ElementOfSeq
    <2> HIDE DEF a, n
    <2>7. Len(a.body) \in Nat
      BY <2>6, LenProperties DEF Request
    <2>8. \A m \in 0 .. Len(a.body) : DataIn(a, m) <= BodySize(a)
      <3> SUFFICES ASSUME NEW m \in 0 .. Len(a.body) PROVE DataIn(a, m) <= BodySize(a)
        OBVIOUS
      <3>1. /\ DataIn(a, Len(a.body)) = BodySize(a)
            /\ \A i, j \in Nat : i <= j => DataIn(a, i) <= DataIn(a, j)
        BY <2>7, DataInGrows
      <3>2. m \in Nat /\ m <= Len(a.body)
        BY <2>7
      <3>3. QED
        BY <2>7, <3>1, <3>2
    <2>9. BodySize(a) \in Nat
      BY <1>1, <2>3 DEF Within
    <2>10. QED
      BY <2>3, <2>4, <2>5, <2>8, <2>9
  <1>6. QED
    BY <1>3, <1>4, <1>5

(* The bytes given to the application as the data of a request are those   *)
(* of its body and none of what a client sends behind it, in any portions, *)
(* for any pool, and whatever the application answers; for clients that    *)
(* keep to HTTP and announce `100 Continue' only with a body.              *)
THEOREM NothingIsGivenBeyondBody == ASSUME ClientsAreFramed PROVE MhdSpec => []NothingBeyondBody
  <1>1. MhdInit => WithinInv
    <2> SUFFICES ASSUME MhdInit, NEW c \in Conns PROVE Within(Seen(con[c]))
      BY DEF WithinInv
    <2>1. Seen(con[c]) = Nothing
      BY NewIsNothing DEF MhdInit
    <2>2. QED
      BY <2>1 DEF Within, Nothing
  <1>2. DInv /\ WaitInv /\ PlaceInv /\ WithinInv /\ [MhdNext]_vars => WithinInv'
    <2> SUFFICES ASSUME DInv, WaitInv, PlaceInv, WithinInv, [MhdNext]_vars, NEW d \in Conns
                 PROVE  Within(Seen(con'[d]))
      BY DEF WithinInv, Seen, Calls, IsOver
    <2>1. Within(Seen(con[d]))
      BY DEF WithinInv
    <2>2. CASE \E c \in Conns : Allowed(Seen(con[c]), Seen(con'[c])) /\ \A e \in Conns \ {c} : con'[e] = con[e]
      <3>1. Allowed(Seen(con[d]), Seen(con'[d])) \/ con'[d] = con[d]
        BY <2>2
      <3>2. QED
        BY <2>1, <3>1, AllowedWithin
    <2>3. CASE \E conns \in SUBSET Conns : \A c \in Conns : con'[c] = IF c \in conns THEN NewConnection ELSE con[c]
      <3>1. con'[d] = NewConnection \/ con'[d] = con[d]
        BY <2>3
      <3>2. Seen(con'[d]) = Nothing \/ Seen(con'[d]) = Seen(con[d])
        BY <3>1, NewIsNothing
      <3>3. Within(Nothing)
        BY DEF Within, Nothing
      <3>4. QED
        BY <2>1, <3>2, <3>3
    <2>4. QED
      BY <2>2, <2>3, PlaceStep DEF SeenStep
  <1>3. PlaceInv /\ WithinInv => NothingBeyondBody
    <2> SUFFICES ASSUME PlaceInv, WithinInv, NEW c \in Conns, ~IsOver(con[c])
                 PROVE  con[c].given <= BodySize(con[c].rq)
      BY DEF NothingBeyondBody
    <2>1. Within(Seen(con[c])) /\ InPlace(c)
      BY DEF WithinInv, PlaceInv
    <2>2. CASE phase[c] = "held"
      <3>1. script[c] \in Seq(Request) /\ InItsPlace(con[c], wire[c], todo[c], script[c])
        BY <2>1, <2>2, MDAssumption, OverIsNothing DEF InPlace
      <3>2. QED
        BY <2>1, <3>1, PlacedWithin
    <2>3. CASE phase[c] # "held"
      <3>1. con[c] = NewConnection
        BY <2>1, <2>3 DEF InPlace
      <3>2. con[c].given = 0
        BY <3>1 DEF NewConnection
      <3>3. BodySize(con[c].rq) \in Nat
        BY <2>1 DEF Within, Seen
      <3>4. QED
        BY <3>2, <3>3
    <2>4. QED
      BY <2>2, <2>3
  <1>4. QED
    BY <1>1, <1>2, <1>3, PlaceInvariant, PTL DEF MhdSpec
=============================================================================
