------------------------ MODULE MhdConnectionProofs ------------------------
(***************************************************************************)
(* What memorypool.c and the helpers of connection.c promise the state     *)
(* machine that calls them, for a pool of any size and any alignment and a *)
(* connection in any state.                                                *)
(*                                                                         *)
(* The pool: a block that is returned lies in the pool, has the room that  *)
(* was asked for and overlaps no other.  The helpers: each keeps the count *)
(* of references in step with the response, tells a connection to stop     *)
(* reading only when it has left the states in which it reads, and keeps   *)
(* the buffers in the pool and apart.                                      *)
(***************************************************************************)
EXTENDS MhdConnection, SequenceTheorems, WellFoundedInduction, TLAPS

(* A set of natural numbers that is not empty has a least one.  What a     *)
(* recursive function computes is proved from it: there is no least number *)
(* for which it is wrong.                                                  *)
LEMMA LeastOf ==
  ASSUME NEW T, T \subseteq Nat, T # {}
  PROVE  \E x \in T : \A y \in T : x <= y
  <1>1. PICK x \in T : \A y \in T : ~ (<<y, x>> \in OpToRel(<, Nat))
    BY NatLessThanWellFounded, WFMin
  <1>2. \A y \in T : ~(y < x)
    BY <1>1 DEF OpToRel
  <1>3. QED
    BY <1>2

(* get_next_header_line: a line lies in the buffer.                        *)
LEMMA LineFacts ==
  ASSUME NEW k
  PROVE  /\ LineLength(k) \in Nat
         /\ HasLine(k) => LineLength(k) \in 1 .. Len(k.buf)
  <1> DEFINE I == {i \in 1 .. Len(k.buf) : k.buf[i].kind \in LineEnds}
  <1>1. LineLength(k) = IF I # {} THEN Min(I) ELSE 0
    BY DEF LineLength, SelectInSeq
  <1>2. I \subseteq Nat /\ I \subseteq 1 .. Len(k.buf)
    OBVIOUS
  <1>3. I # {} => Min(I) \in I
    <2>1. I # {} => \E x \in I : \A y \in I : x <= y
      BY <1>2, LeastOf
    <2>2. QED
      BY <2>1 DEF Min
  <1>4. HasLine(k) => I # {}
    BY DEF HasLine
  <1> HIDE DEF I
  <1>5. CASE I = {}
    BY <1>1, <1>4, <1>5
  <1>6. CASE I # {}
    <2>1. LineLength(k) \in I
      BY <1>1, <1>3, <1>6
    <2>2. QED
      BY <1>2, <2>1
  <1>7. QED
    BY <1>5, <1>6
(* What a recursive function computes of sequences in a row.                *)
LEMMA FlattenUnfolds ==
  ASSUME NEW S, NEW s \in Seq(Seq(S)), Len(s) # 0
  PROVE  \E g \in [1 .. Len(s) -> Seq(S)] :
           /\ \A i \in 1 .. Len(s) : g[i] = IF i = 1 THEN s[i] ELSE g[i - 1] \o s[i]
           /\ FlattenSeq(s) = g[Len(s)]
  <1> DEFINE n == Len(s)
             Unfold(m, g) == [i \in 1 .. m |-> IF i = 1 THEN s[i] ELSE g[i - 1] \o s[i]]
             Approx(m, g) == g = Unfold(m, g) /\ g \in [1 .. m -> Seq(S)]
             T == {m \in 1 .. n : ~\E g : Approx(m, g)}
             f == CHOOSE f : f = Unfold(n, f)
  <1>1. n \in Nat /\ n > 0 /\ \A i \in 1 .. n : s[i] \in Seq(S)
    BY LenProperties, ElementOfSeq
  <1>2. FlattenSeq(s) = f[n]
    BY DEF FlattenSeq
  <1> HIDE DEF n
  <1>3. \E g : Approx(1, g)
    <2> DEFINE g == [i \in 1 .. 1 |-> s[1]]
    <2>1. Approx(1, g)
      BY <1>1
    <2>2. QED
      BY <2>1
  <1>4. ASSUME NEW m \in 1 .. n, m # 1, NEW g, Approx(m - 1, g) PROVE \E h : Approx(m, h)
    <2> DEFINE h == [i \in 1 .. m |-> IF i = m THEN g[m - 1] \o s[m] ELSE g[i]]
    <2>1. m - 1 \in 1 .. m - 1 /\ g[m - 1] \in Seq(S) /\ s[m] \in Seq(S)
      BY <1>1, <1>4
    <2>2. g[m - 1] \o s[m] \in Seq(S)
      BY <2>1, ConcatProperties
    <2>3. h \in [1 .. m -> Seq(S)]
      <3>1. ASSUME NEW i \in 1 .. m, i # m PROVE g[i] \in Seq(S)
        <4>1. i \in 1 .. m - 1
          BY <1>1, <3>1
        <4>2. QED
          BY <1>4, <4>1
      <3>2. QED
        BY <2>2, <3>1
    <2>4. ASSUME NEW i \in 1 .. m PROVE h[i] = IF i = 1 THEN s[i] ELSE h[i - 1] \o s[i]
      <3>1. CASE i = m
        <4>1. h[i] = g[m - 1] \o s[m] /\ h[m - 1] = g[m - 1]
          <5>1. m \in 1 .. m /\ m - 1 \in 1 .. m /\ m - 1 # m
            BY <1>1, <1>4
          <5>2. QED
            BY <3>1, <5>1
        <4>2. QED
          BY <1>4, <3>1, <4>1
      <3>2. CASE i # m
        <4>1. i \in 1 .. m - 1 /\ h[i] = g[i]
          BY <1>1, <3>2
        <4>2. g[i] = IF i = 1 THEN s[i] ELSE g[i - 1] \o s[i]
          BY <1>4, <4>1
        <4>3. i # 1 => h[i - 1] = g[i - 1]
          BY <1>1, <4>1
        <4> HIDE DEF h
        <4>4. QED
          BY <4>1, <4>2, <4>3
      <3> HIDE DEF h
      <3>3. QED
        BY <3>1, <3>2, SMTT(60)
    <2> DEFINE u == Unfold(m, h)
    <2>5. h = u
      <3>1. DOMAIN h = 1 .. m /\ h = [i \in 1 .. m |-> h[i]]
        OBVIOUS
      <3> HIDE DEF h
      <3>2. QED
        BY <2>4, <3>1
    <2> HIDE DEF h
    <2>6. QED
      BY <2>3, <2>5
  <1>5. T = {}
    <2> SUFFICES ASSUME T # {} PROVE FALSE
      OBVIOUS
    <2>1. T \subseteq Nat
      <3>1. T \subseteq 1 .. n
        OBVIOUS
      <3> HIDE DEF T
      <3>2. QED
        BY <1>1, <3>1
    <2>2. PICK m \in T : \A y \in T : m <= y
      <3> HIDE DEF T
      <3>1. QED
        BY <2>1, LeastOf
    <2>3. m \in 1 .. n /\ ~\E g : Approx(m, g)
      OBVIOUS
    <2>4. m # 1
      BY <1>3, <2>3
    <2>5. m - 1 \in 1 .. n /\ m - 1 \notin T
      <3> HIDE DEF T, Approx
      <3>1. QED
        BY <1>1, <2>2, <2>3, <2>4
    <2>6. \E g : Approx(m - 1, g)
      BY <2>5
    <2> HIDE DEF Approx
    <2>7. QED
      BY <1>4, <2>3, <2>4, <2>6
  <1>6. PICK g : Approx(n, g)
    <2>1. n \in 1 .. n
      BY <1>1
    <2> HIDE DEF Approx
    <2>2. QED
      BY <1>5, <2>1
  <1>7. f = Unfold(n, f)
    <2>1. \E x : x = Unfold(n, x)
      BY <1>6
    <2> HIDE DEF Unfold
    <2>2. QED
      BY <2>1
  <1> DEFINE D == {i \in 1 .. n : f[i] # g[i]}
  <1> HIDE DEF f
  <1>8. D = {}
    <2> SUFFICES ASSUME D # {} PROVE FALSE
      OBVIOUS
    <2>1. D \subseteq Nat
      BY <1>1
    <2>2. PICK m \in D : \A y \in D : m <= y
      <3> HIDE DEF D
      <3>1. QED
        BY <2>1, LeastOf
    <2>3. m \in 1 .. n /\ f[m] # g[m]
      OBVIOUS
    <2>4. f[m] = (IF m = 1 THEN s[m] ELSE f[m - 1] \o s[m]) /\ g[m] = (IF m = 1 THEN s[m] ELSE g[m - 1] \o s[m])
      BY <1>6, <1>7, <2>3
    <2>5. m # 1
      BY <2>3, <2>4
    <2>6. m - 1 \in 1 .. n /\ m - 1 \notin D
      BY <1>1, <2>2, <2>3, <2>5
    <2>7. f[m - 1] = g[m - 1]
      BY <2>6
    <2>8. QED
      BY <2>3, <2>4, <2>7
  <1>9. f[n] = g[n] /\ g[n] \in Seq(S)
    <2>1. n \in 1 .. n
      BY <1>1
    <2>2. QED
      BY <1>6, <1>8, <2>1
  <1>10. g \in [1 .. n -> Seq(S)] /\ \A i \in 1 .. n : g[i] = IF i = 1 THEN s[i] ELSE g[i - 1] \o s[i]
    BY <1>6
  <1>11. FlattenSeq(s) = g[n]
    BY <1>2, <1>9
  <1>12. QED
    BY <1>10, <1>11 DEF n

(* Sequences of S in a row are a sequence of S.                            *)
LEMMA FlattenType == ASSUME NEW S, NEW s \in Seq(Seq(S)) PROVE FlattenSeq(s) \in Seq(S)
  <1>1. CASE Len(s) = 0
    <2>1. FlattenSeq(s) = s
      BY <1>1 DEF FlattenSeq
    <2>2. s = << >>
      BY <1>1, EmptySeq
    <2>3. QED
      BY <2>1, <2>2
  <1>2. CASE Len(s) # 0
    <2>1. PICK g \in [1 .. Len(s) -> Seq(S)] : FlattenSeq(s) = g[Len(s)]
      BY <1>2, FlattenUnfolds
    <2>2. Len(s) \in 1 .. Len(s)
      BY <1>2, LenProperties
    <2>3. QED
      BY <2>1, <2>2
  <1>3. QED
    BY <1>1, <1>2
(* Where each of the sequences b ends in f, all of them in a row.           *)
AreEnds(ends, b, f) ==
  /\ ends \in [0 .. Len(b) -> Nat] /\ ends[0] = 0 /\ ends[Len(b)] = Len(f)
  /\ \A r \in 1 .. Len(b) : ends[r] = ends[r - 1] + Len(b[r]) /\ \A j \in 1 .. Len(b[r]) : f[ends[r - 1] + j] = b[r][j]
  /\ \A m \in 0 .. Len(b) : \A r \in 0 .. m : ends[r] <= ends[m]
  /\ \A i \in 1 .. Len(f) : \E r \in 1 .. Len(b) : ends[r - 1] < i /\ i <= ends[r]

(* Sequences in a row are found where they are expected.                   *)
LEMMA FlattenEnds == ASSUME NEW S, NEW s \in Seq(Seq(S)) PROVE \E ends : AreEnds(ends, s, FlattenSeq(s))
  <1>1. CASE Len(s) = 0
    <2> DEFINE ends == [i \in 0 .. 0 |-> 0]
    <2>1. FlattenSeq(s) = s
      BY <1>1 DEF FlattenSeq
    <2>2. AreEnds(ends, s, s)
      BY <1>1 DEF AreEnds
    <2>3. QED
      BY <2>1, <2>2
  <1>2. CASE Len(s) # 0
    <2> DEFINE n == Len(s)
    <2>1. n \in Nat /\ n > 0 /\ \A i \in 1 .. n : s[i] \in Seq(S) /\ Len(s[i]) \in Nat
      BY <1>2, LenProperties, ElementOfSeq
    <2>2. PICK g \in [1 .. n -> Seq(S)] :
            /\ \A i \in 1 .. n : g[i] = IF i = 1 THEN s[i] ELSE g[i - 1] \o s[i]
            /\ FlattenSeq(s) = g[n]
      BY <1>2, FlattenUnfolds
    <2> DEFINE ends == [i \in 0 .. n |-> IF i = 0 THEN 0 ELSE Len(g[i])]
    <2> HIDE DEF n
    <2>3. \A i \in 1 .. n : g[i] \in Seq(S) /\ Len(g[i]) \in Nat /\ ends[i] = Len(g[i])
      BY <2>1, <2>2, LenProperties
    <2>4. ends \in [0 .. n -> Nat] /\ ends[0] = 0
      BY <2>1, <2>3
    <2> HIDE DEF ends
    <2>5. ASSUME NEW m \in 1 .. n, m # 1
          PROVE  /\ m - 1 \in 1 .. n /\ ends[m] = ends[m - 1] + Len(s[m])
                 /\ \A i \in 1 .. ends[m] : g[m][i] = IF i <= ends[m - 1] THEN g[m - 1][i] ELSE s[m][i - ends[m - 1]]
      <3>1. m - 1 \in 1 .. n
        BY <2>1, <2>5
      <3>2. g[m] = g[m - 1] \o s[m]
        BY <2>2, <2>5
      <3>3. g[m - 1] \in Seq(S) /\ s[m] \in Seq(S) /\ ends[m - 1] = Len(g[m - 1]) /\ ends[m] = Len(g[m])
        BY <2>1, <2>3, <3>1
      <3> DEFINE x == g[m - 1]
                 y == s[m]
      <3>4. Len(x \o y) = Len(x) + Len(y)
            /\ \A i \in 1 .. Len(x) + Len(y) : (x \o y)[i] = IF i <= Len(x) THEN x[i] ELSE y[i - Len(x)]
        <4> HIDE DEF x, y
        <4>1. x \in Seq(S) /\ y \in Seq(S)
          BY <3>3 DEF x, y
        <4>2. QED
          BY <4>1, ConcatProperties
      <3>5. ends[m] = ends[m - 1] + Len(s[m])
        BY <3>2, <3>3, <3>4
      <3>6. QED
        BY <3>1, <3>2, <3>3, <3>4, <3>5
    <2> DEFINE Has(m, r) == ends[r] <= ends[m] /\ \A j \in 1 .. Len(s[r]) : g[m][ends[r - 1] + j] = s[r][j]
               Good(m) == /\ \A r \in 1 .. m : ends[r] = ends[r - 1] + Len(s[r]) /\ Has(m, r)
                          /\ \A i \in 1 .. ends[m] : \E r \in 1 .. m : ends[r - 1] < i /\ i <= ends[r]
               T == {m \in 1 .. n : ~Good(m)}
    <2>6. Good(1)
      <3>0. 1 \in 1 .. n
        BY <2>1
      <3>1. 1 \in 1 .. n /\ g[1] = s[1] /\ ends[1] = Len(s[1]) /\ ends[0] = 0
        BY <2>2, <2>3, <2>4, <3>0
      <3>2. Len(s[1]) \in Nat
        BY <2>1
      <3>3. QED
        BY <3>1, <3>2
    <2>7. ASSUME NEW m \in 1 .. n, m # 1, Good(m - 1) PROVE Good(m)
      <3>1. m \in Nat /\ m - 1 \in 1 .. n /\ ends[m] \in Nat /\ ends[m - 1] \in Nat /\ Len(s[m]) \in Nat
        BY <2>1, <2>4, <2>5, <2>7, SMTT(60)
      <3>2. ASSUME NEW r \in 1 .. m PROVE ends[r] = ends[r - 1] + Len(s[r]) /\ Has(m, r)
        <4>0. r \in 1 .. n /\ r - 1 \in 0 .. n /\ r \in 0 .. n
          BY <2>1, <3>1, SMTT(60)
        <4>1. r \in 1 .. n /\ ends[r] \in Nat /\ ends[r - 1] \in Nat /\ Len(s[r]) \in Nat
          BY <2>1, <2>4, <4>0
        <4>2. CASE r = m
          <5>1. ends[r] = ends[r - 1] + Len(s[r])
            BY <2>5, <2>7, <4>2
          <5>2. ASSUME NEW j \in 1 .. Len(s[r]) PROVE g[m][ends[r - 1] + j] = s[r][j]
            <6> DEFINE i == ends[r - 1] + j
            <6>2. i \in 1 .. ends[m] /\ ~(i <= ends[m - 1]) /\ i - ends[m - 1] = j
              BY <4>1, <4>2, <5>1, SMTT(60)
            <6> HIDE DEF i
            <6>3. g[m][i] = s[m][i - ends[m - 1]]
              BY <2>5, <2>7, <6>2
            <6>4. QED
              BY <4>2, <6>2, <6>3 DEF i
          <5>3. QED
            BY <4>1, <4>2, <5>1, <5>2
        <4>3. CASE r # m
          <5>1. r \in 1 .. m - 1
            BY <3>1, <4>3
          <5>2. ends[r] = ends[r - 1] + Len(s[r]) /\ Has(m - 1, r)
            BY <2>7, <5>1
          <5>3. ends[r] <= ends[m - 1] /\ ends[m] = ends[m - 1] + Len(s[m])
            BY <2>5, <2>7, <5>2
          <5> HIDE DEF Has
          <5>4. ends[r] <= ends[m] /\ ends[m - 1] <= ends[m]
            BY <3>1, <4>1, <5>3, SMTT(60)
          <5>5. ASSUME NEW j \in 1 .. Len(s[r]) PROVE g[m][ends[r - 1] + j] = s[r][j]
            <6> DEFINE i == ends[r - 1] + j
            <6>1. i \in Nat /\ 1 <= i /\ i <= ends[r]
              BY <4>1, <5>2, SMTT(60)
            <6> HIDE DEF i
            <6>2. i \in 1 .. ends[m] /\ i <= ends[m - 1]
              BY <3>1, <4>1, <5>3, <5>4, <6>1, SMTT(60)
            <6>3. g[m][i] = g[m - 1][i]
              BY <2>5, <2>7, <6>2
            <6>4. g[m - 1][i] = s[r][j]
              BY <5>2 DEF Has, i
            <6>5. QED
              BY <6>3, <6>4 DEF i
          <5>6. QED
            BY <5>2, <5>4, <5>5 DEF Has
        <4>4. QED
          BY <4>2, <4>3
      <3>3. ASSUME NEW i \in 1 .. ends[m] PROVE \E r \in 1 .. m : ends[r - 1] < i /\ i <= ends[r]
        <4>1. CASE i <= ends[m - 1]
          <5>1. i \in 1 .. ends[m - 1]
            BY <3>1, <4>1
          <5>2. PICK r \in 1 .. m - 1 : ends[r - 1] < i /\ i <= ends[r]
            BY <2>7, <5>1
          <5>3. r \in 1 .. m
            BY <3>1
          <5>4. QED
            BY <5>2, <5>3
        <4>2. CASE ~(i <= ends[m - 1])
          <5>1. m \in 1 .. m /\ ends[m - 1] < i /\ i <= ends[m]
            BY <3>1, <4>2
          <5>2. QED
            BY <5>1
        <4>3. QED
          BY <4>1, <4>2
      <3> HIDE DEF Has
      <3>4. QED
        BY <3>2, <3>3
    <2>8. T = {}
      <3> HIDE DEF Good
      <3> SUFFICES ASSUME T # {} PROVE FALSE
        OBVIOUS
      <3>1. T \subseteq Nat
        BY <2>1
      <3>2. PICK m \in T : \A y \in T : m <= y
        <4> HIDE DEF T
        <4>1. QED
          BY <3>1, LeastOf
      <3>3. m \in 1 .. n /\ ~Good(m) /\ m # 1
        BY <2>6
      <3>4. m - 1 \in 1 .. n /\ m - 1 \notin T
        BY <2>1, <3>2, <3>3
      <3>5. QED
        BY <2>7, <3>3, <3>4
    <2>9. \A m \in 1 .. n : Good(m)
      <3> HIDE DEF Good
      <3>1. QED
        BY <2>8
    <2>10. AreEnds(ends, s, g[n])
      <3>1. n \in 1 .. n
        BY <2>1
      <3>2. \A r \in 1 .. n : ends[r] = ends[r - 1] + Len(s[r]) /\ \A j \in 1 .. Len(s[r]) : g[n][ends[r - 1] + j] = s[r][j]
        BY <2>9, <3>1
      <3>3. ASSUME NEW m \in 0 .. n, NEW r \in 0 .. m PROVE ends[r] <= ends[m]
        <4>1. CASE r = 0
          BY <2>4, <4>1
        <4>2. CASE r # 0
          <5>1. m \in 1 .. n /\ r \in 1 .. m
            BY <2>1, <4>2
          <5>2. QED
            BY <2>9, <5>1
        <4>3. QED
          BY <4>1, <4>2
      <3>4. ends[n] = Len(g[n])
        BY <2>3, <3>1
      <3>5. \A i \in 1 .. ends[n] : \E r \in 1 .. n : ends[r - 1] < i /\ i <= ends[r]
        BY <2>9, <3>1
      <3>6. QED
        BY <2>4, <3>2, <3>3, <3>4, <3>5 DEF AreEnds, n
    <2>11. QED
      BY <2>2, <2>10
  <1>3. QED
    BY <1>1, <1>2
-----------------------------------------------------------------------------
(* A pool keeps its two bounds in order.                                   *)
IsPool(pool) ==
  /\ pool = [pos |-> pool.pos, end |-> pool.end]
  /\ pool.pos \in Nat /\ pool.end \in Nat
  /\ pool.pos <= pool.end /\ pool.end <= PoolSize

(* A block at the start of the pool, one of the records at its end, and    *)
(* two that do not overlap.                                                *)
AtStart(pool, at, size) == at \in Nat /\ at + size <= pool.pos
AtEnd(pool, at, size) == at \in Nat /\ pool.end <= at /\ at + size <= PoolSize
Disjoint(at1, size1, at2, size2) == at1 + size1 <= at2 \/ at2 + size2 <= at1

(* ROUND_TO_ALIGN gives the room that is asked for, and less than a unit   *)
(* more.                                                                   *)
LEMMA RoundFacts ==
  ASSUME NEW n \in Nat
  PROVE  RoundToAlign(n) \in Nat /\ n <= RoundToAlign(n) /\ RoundToAlign(n) < n + Align
  <1> DEFINE m == n + Align - 1
             q == m \div Align
  <1>1. Align \in Nat /\ Align > 0 /\ m \in Nat
    BY MPAssumption
  <1>2. q \in Nat /\ q * Align <= m /\ m < q * Align + Align
    <2>1. q \in Int /\ q >= 0
      BY <1>1
    <2>2. q * Align <= m
      BY <1>1
    <2>3. m < q * Align + Align
      BY <1>1
    <2>4. QED
      BY <2>1, <2>2, <2>3
  <1>3. q * Align \in Nat
    BY <1>1, <1>2
  <1>4. RoundToAlign(n) = q * Align
    BY DEF RoundToAlign
  <1> HIDE DEF q
  <1>5. QED
    BY <1>1, <1>2, <1>3, <1>4

(* MHD_pool_create.                                                        *)
LEMMA PoolCreated == IsPool(PoolCreate) /\ PoolCreate.pos = 0
  BY MPAssumption DEF IsPool, PoolCreate

(* MHD_pool_allocate from the start: a new block lies behind all others.   *)
THEOREM AllocateIsApart ==
  ASSUME NEW pool, IsPool(pool), NEW size \in Nat
  PROVE  LET b == PoolAllocate(pool, size)
         IN  /\ IsPool(b.pool) /\ b.pool.end = pool.end /\ pool.pos <= b.pool.pos
             /\ \/ b.at = NoBlock /\ b.pool = pool
                \/ b.at = pool.pos /\ AtStart(b.pool, b.at, size)
  <1> DEFINE asize == RoundToAlign(size)
  <1>1. asize \in Nat /\ size <= asize
    BY RoundFacts
  <1> HIDE DEF asize
  <1>2. pool.pos \in Nat /\ pool.end \in Nat /\ pool.end <= PoolSize /\ PoolSize \in Nat
    BY MPAssumption DEF IsPool
  <1>3. CASE ~Fits(pool, asize)
    <2>1. PoolAllocate(pool, size) = [pool |-> pool, at |-> NoBlock]
      BY <1>3 DEF PoolAllocate, Block, asize
    <2>2. QED
      BY <1>2, <2>1
  <1>4. CASE Fits(pool, asize)
    <2> DEFINE new == [pos |-> pool.pos + asize, end |-> pool.end]
    <2>1. [pool EXCEPT !.pos = @ + asize] = new
      BY DEF IsPool
    <2>2. PoolAllocate(pool, size) = [pool |-> new, at |-> pool.pos]
      BY <1>4, <2>1 DEF PoolAllocate, Block, asize
    <2>3. IsPool(new)
      BY <1>1, <1>2, <1>4 DEF IsPool, Fits
    <2>4. QED
      BY <1>1, <1>2, <2>2, <2>3 DEF AtStart
  <1>5. QED
    BY <1>3, <1>4

(* MHD_pool_allocate from the end: a new record lies before all others and *)
(* behind every block at the start.                                        *)
THEOREM AllocateFromEndIsApart ==
  ASSUME NEW pool, IsPool(pool), NEW size \in Nat
  PROVE  LET b == PoolAllocateFromEnd(pool, size)
         IN  /\ IsPool(b.pool) /\ b.pool.pos = pool.pos /\ b.pool.end <= pool.end
             /\ \/ b.at = NoBlock /\ b.pool = pool
                \/ AtEnd(b.pool, b.at, size) /\ b.at + size <= pool.end /\ pool.pos <= b.at
  <1> DEFINE asize == RoundToAlign(size)
  <1>1. asize \in Nat /\ size <= asize
    BY RoundFacts
  <1> HIDE DEF asize
  <1>2. pool.pos \in Nat /\ pool.end \in Nat /\ pool.end <= PoolSize /\ PoolSize \in Nat
    BY MPAssumption DEF IsPool
  <1>3. CASE ~Fits(pool, asize)
    <2>1. PoolAllocateFromEnd(pool, size) = [pool |-> pool, at |-> NoBlock]
      BY <1>3 DEF PoolAllocateFromEnd, Block, asize
    <2>2. QED
      BY <1>2, <2>1
  <1>4. CASE Fits(pool, asize)
    <2> DEFINE new == [pos |-> pool.pos, end |-> pool.end - asize]
    <2>1. [pool EXCEPT !.end = @ - asize] = new
      BY DEF IsPool
    <2>2. PoolAllocateFromEnd(pool, size) = [pool |-> new, at |-> pool.end - asize]
      BY <1>4, <2>1 DEF PoolAllocateFromEnd, Block, asize
    <2>3. IsPool(new)
      BY <1>1, <1>2, <1>4 DEF IsPool, Fits
    <2>4. pool.end - asize \in Nat /\ pool.pos <= pool.end - asize
      BY <1>1, <1>2, <1>4 DEF Fits
    <2>5. QED
      BY <1>1, <1>2, <2>2, <2>3, <2>4 DEF AtEnd
  <1>5. QED
    BY <1>3, <1>4

(* MHD_pool_reallocate: the block it returns has the room that was asked   *)
(* for, and a block that is not empty, does not overlap the old one and    *)
(* lies in the pool still does, and does not overlap the new one: neither  *)
(* growing in place, nor moving, nor shrinking harms another block.        *)
THEOREM ReallocateIsApart ==
  ASSUME NEW pool, IsPool(pool), NEW old, NEW oldSize \in Nat, NEW newSize \in Nat,
         (old = NoBlock /\ oldSize = 0) \/ AtStart(pool, old, oldSize)
  PROVE  LET b == PoolReallocate(pool, old, oldSize, newSize)
         IN  /\ IsPool(b.pool) /\ b.pool.end = pool.end
             /\ b.at = NoBlock => b.pool = pool
             /\ b.at # NoBlock => AtStart(b.pool, b.at, newSize)
             /\ oldSize <= newSize => pool.pos <= b.pool.pos
             /\ \A at, size \in Nat :
                  AtStart(pool, at, size) /\ size > 0 /\ (old = NoBlock \/ Disjoint(old, oldSize, at, size)) =>
                    /\ AtStart(b.pool, at, size)
                    /\ b.at # NoBlock => Disjoint(b.at, newSize, at, size)
  <1> DEFINE asize == RoundToAlign(newSize)
             b == PoolReallocate(pool, old, oldSize, newSize)
             Other(at, size) == AtStart(pool, at, size) /\ size > 0 /\ (old = NoBlock \/ Disjoint(old, oldSize, at, size))
             Spared == \A at, size \in Nat : Other(at, size) =>
                         AtStart(b.pool, at, size) /\ (b.at # NoBlock => Disjoint(b.at, newSize, at, size))
             Goal == /\ IsPool(b.pool) /\ b.pool.end = pool.end
                     /\ b.at = NoBlock => b.pool = pool
                     /\ b.at # NoBlock => AtStart(b.pool, b.at, newSize)
                     /\ oldSize <= newSize => pool.pos <= b.pool.pos
                     /\ Spared
  <1> SUFFICES Goal
    OBVIOUS
  <1>1. asize \in Nat /\ newSize <= asize
    BY RoundFacts
  <1>2. pool.pos \in Nat /\ pool.end \in Nat /\ pool.pos <= pool.end /\ pool.end <= PoolSize
    BY DEF IsPool
  <1>3. CASE pool.end < oldSize \/ pool.end < asize
    <2>1. b = [pool |-> pool, at |-> NoBlock]
      BY <1>3 DEF PoolReallocate, Block
    <2>2. QED
      BY <1>2, <2>1
  <1>4. CASE ~(pool.end < oldSize \/ pool.end < asize) /\ IsLast(pool, old, oldSize)
    <2>0. old \in Nat /\ pool.pos = old + oldSize
      BY <1>2, <1>4 DEF IsLast, NoBlock, AtStart
    <2>1. CASE pool.pos + asize - oldSize <= pool.end
      <3> DEFINE new == [pos |-> old + asize, end |-> pool.end]
      <3>1. [pool EXCEPT !.pos = @ + asize - oldSize] = new
        BY <1>1, <1>2, <2>0 DEF IsPool
      <3>2. b = [pool |-> new, at |-> old]
        BY <1>4, <2>1, <3>1 DEF PoolReallocate, ResizeLast, Block
      <3>3. IsPool(new)
        BY <1>1, <1>2, <2>0, <2>1 DEF IsPool
      <3>4. AtStart(new, old, newSize)
        BY <1>1, <2>0 DEF AtStart
      <3>5. ASSUME NEW at \in Nat, NEW size \in Nat, AtStart(pool, at, size), size > 0,
                   old = NoBlock \/ Disjoint(old, oldSize, at, size)
            PROVE  AtStart(new, at, size) /\ Disjoint(old, newSize, at, size)
        BY <1>1, <2>0, <3>5 DEF AtStart, Disjoint, NoBlock
      <3>6. old # NoBlock /\ (oldSize <= newSize => pool.pos <= new.pos)
        BY <1>1, <2>0 DEF NoBlock
      <3> HIDE DEF new
      <3>7. b.pool = new /\ b.at = old /\ b.pool.end = pool.end
        BY <3>2 DEF new
      <3> HIDE DEF b
      <3>8. Spared
        BY <3>5, <3>7
      <3> HIDE DEF Spared
      <3>9. QED
        BY <3>3, <3>4, <3>6, <3>7, <3>8
    <2>2. CASE ~(pool.pos + asize - oldSize <= pool.end)
      <3>1. b = [pool |-> pool, at |-> NoBlock]
        BY <1>4, <2>2 DEF PoolReallocate, ResizeLast, Block
      <3>2. QED
        BY <1>2, <3>1
    <2>3. QED
      BY <2>1, <2>2
  <1>5. CASE ~(pool.end < oldSize \/ pool.end < asize) /\ ~IsLast(pool, old, oldSize) /\ asize <= oldSize
    <2>1. b = [pool |-> pool, at |-> old]
      BY <1>5 DEF PoolReallocate, Block
    <2>2. old # NoBlock => AtStart(pool, old, newSize)
      BY <1>1, <1>2, <1>5 DEF AtStart
    <2>3. ASSUME NEW at \in Nat, NEW size \in Nat, old # NoBlock, Disjoint(old, oldSize, at, size)
          PROVE  Disjoint(old, newSize, at, size)
      BY <1>1, <1>5, <2>2, <2>3 DEF AtStart, Disjoint
    <2>4. b.pool = pool /\ b.at = old
      BY <2>1
    <2> HIDE DEF b
    <2>5. Spared
      BY <2>3, <2>4
    <2> HIDE DEF Spared
    <2>6. QED
      BY <1>2, <2>2, <2>4, <2>5
  <1>6. CASE ~(pool.end < oldSize \/ pool.end < asize) /\ ~IsLast(pool, old, oldSize) /\ ~(asize <= oldSize)
    <2>1. b = PoolAllocate(pool, newSize)
      BY <1>6 DEF PoolReallocate
    <2> HIDE DEF b, asize
    <2>2. /\ IsPool(b.pool) /\ b.pool.end = pool.end /\ pool.pos <= b.pool.pos
          /\ \/ b.at = NoBlock /\ b.pool = pool
             \/ b.at = pool.pos /\ AtStart(b.pool, b.at, newSize)
      BY <2>1, AllocateIsApart
    <2>3. ASSUME NEW at \in Nat, NEW size \in Nat, AtStart(pool, at, size)
          PROVE  AtStart(b.pool, at, size) /\ Disjoint(pool.pos, newSize, at, size)
      BY <1>2, <2>2, <2>3 DEF AtStart, Disjoint, IsPool
    <2>4. pool.pos # NoBlock
      BY <1>2 DEF NoBlock
    <2>5. Spared
      BY <2>2, <2>3, <2>4
    <2> HIDE DEF Spared
    <2>6. QED
      BY <2>2, <2>4, <2>5
  <1>7. QED
    BY <1>3, <1>4, <1>5, <1>6

(* MHD_pool_reset: what is left is the block that is kept, at the start of *)
(* the pool and with the room that was asked for, provided the pool is     *)
(* large enough for that.                                                  *)
THEOREM ResetKeepsBlock ==
  ASSUME NEW pool, IsPool(pool), NEW keep \in Nat, NEW newSize \in Nat, RoundToAlign(newSize) <= PoolSize
  PROVE  LET b == PoolReset(pool, keep, newSize)
         IN  IsPool(b.pool) /\ AtStart(b.pool, b.at, newSize) /\ b.pool.end = PoolSize
  <1> DEFINE asize == RoundToAlign(newSize)
             new == [pos |-> asize, end |-> PoolSize]
  <1>1. asize \in Nat /\ newSize <= asize /\ PoolSize \in Nat
    BY RoundFacts, MPAssumption
  <1>2. PoolReset(pool, keep, newSize) = [pool |-> new, at |-> 0]
    BY DEF PoolReset, Block, NoBlock
  <1> HIDE DEF asize
  <1>3. IsPool(new) /\ AtStart(new, 0, newSize)
    BY <1>1 DEF IsPool, AtStart, asize
  <1> HIDE DEF new
  <1>4. new.end = PoolSize
    BY DEF new
  <1>5. QED
    BY <1>2, <1>3, <1>4
-----------------------------------------------------------------------------
(* The count of references is in step with the response.                   *)
Counted(k) == /\ {"state", "response", "refs"} \subseteq DOMAIN k
              /\ k.refs = IF k.response = NULL THEN 0 ELSE 1

(* The helpers that leave the response alone.                              *)
Alike(k, n) == DOMAIN n = DOMAIN k /\ n.response = k.response /\ n.refs = k.refs
Same(k, n) == Alike(k, n) /\ n.state = k.state

(* A helper that leaves the response alone leaves the count right.         *)
LEMMA AlikeCounted == ASSUME NEW k, NEW n, Counted(k), Alike(k, n) PROVE Counted(n)
  BY DEF Counted, Alike
LEMMA SameCounted == ASSUME NEW k, NEW n, Counted(k), Same(k, n) PROVE Counted(n)
  BY DEF Counted, Alike, Same

(* MHD_destroy_response leaves no reference to the response.               *)
LEMMA DestroyRef ==
  ASSUME NEW k, Counted(k)
  PROVE  Counted(DestroyResponse(k)) /\ DestroyResponse(k).response = NULL
         /\ DestroyResponse(k).state = k.state /\ DOMAIN DestroyResponse(k) = DOMAIN k
  BY DEF Counted, DestroyResponse

(* MHD_connection_close_ gives the reference up.                           *)
LEMMA CloseRef ==
  ASSUME NEW k, Counted(k)
  PROVE  Counted(Close(k)) /\ Close(k).state = "CLOSED"
  <1> DEFINE d == DestroyResponse(k)
  <1>1. Counted(d) /\ d.response = NULL
    BY DestroyRef
  <1>2. Close(k) = [d EXCEPT !.state = "CLOSED", !.eli = "CLEANUP", !.shutWr = TRUE]
    BY DEF Close
  <1> HIDE DEF d
  <1>3. QED
    BY <1>1, <1>2 DEF Counted

(* try_grow_read_buffer leaves the response alone.                         *)
LEMMA GrownSame == ASSUME NEW k, Counted(k) PROVE Same(k, Grown(k))
  BY DEF Counted, Same, Alike, Grown

(* So does build_header_response.                                          *)
LEMMA BuildHeaderSame == ASSUME NEW k, Counted(k) PROVE Same(k, BuildHeader(k))
  <1> DEFINE final == k.state = "FOOTERS_RECEIVED"
             size == IF k.rq.version = "none" THEN 0 ELSE IF final THEN ReplyHeader ELSE 1
             b == IF k.rq.version = "none" THEN PoolAllocateFromEnd(k.pool, 0) ELSE PoolAllocate(k.pool, size + 1)
             h == [k EXCEPT !.pool = b.pool, !.wb = b.at,
                     !.wbSize = IF k.rq.version = "none" \/ b.at = NoBlock THEN 0 ELSE size + 1,
                     !.unsent = IF b.at = NoBlock THEN 0 ELSE size]
  <1>1. BuildHeader(k) = IF final /\ k.rq.version # "none" THEN [h EXCEPT !.keepalive = KeepaliveOf(k), !.chunked = FALSE]
                                                       ELSE h
    BY DEF BuildHeader
  <1> HIDE DEF b, size, final
  <1>2. Same(k, h)
    BY DEF Counted, Same, Alike
  <1> HIDE DEF h
  <1>3. QED
    BY <1>1, <1>2 DEF Counted, Same, Alike

(* MHD_queue_response, for a connection without a response, takes one.     *)
LEMMA QueueRef ==
  ASSUME NEW k, NEW r, NEW size, NEW s, Counted(k), k.response = NULL, r # NULL
  PROVE  Counted(QueueResponse(k, r, size, s)) /\ QueueResponse(k, r, size, s).state \in {k.state, "FOOTERS_RECEIVED"}
  <1> DEFINE q == [k EXCEPT !.response = r, !.refs = @ + 1, !.left = size]
  <1>1. Counted(q) /\ q.state = k.state
    BY DEF Counted
  <1>2. Counted([q EXCEPT !.readClosed = TRUE, !.state = "FOOTERS_RECEIVED"])
        /\ [q EXCEPT !.readClosed = TRUE, !.state = "FOOTERS_RECEIVED"].state = "FOOTERS_RECEIVED"
    BY <1>1 DEF Counted
  <1>3. QED
    BY <1>1, <1>2 DEF QueueResponse

(* transmit_error_response gives the old reference up and takes one.       *)
LEMMA TransmitRef ==
  ASSUME NEW k, NEW s, Counted(k)
  PROVE  Counted(TransmitError(k, s))
  <1> DEFINE d == DestroyResponse(k)
             e == [d EXCEPT !.state = "FOOTERS_RECEIVED", !.readClosed = TRUE]
             p == QueueResponse(e, "error", ErrorBody, s)
             q == [p EXCEPT !.keepalive = "must_close"]
             h == BuildHeader(q)
  <1>1. Counted(d) /\ d.response = NULL
    BY DestroyRef
  <1> HIDE DEF d
  <1>2. Counted(e) /\ e.response = NULL
    BY <1>1 DEF Counted
  <1> HIDE DEF e
  <1>3. Counted(p)
    BY <1>2, QueueRef, MCAssumption
  <1> HIDE DEF p
  <1>4. Counted(q)
    BY <1>3 DEF Counted
  <1>5. TransmitError(k, s) = IF q.response = NULL /\ q.rq.version # "none" THEN [q EXCEPT !.state = "CRASHED"]
                              ELSE IF Built(q) THEN [h EXCEPT !.state = "HEADERS_SENDING"] ELSE Close(h)
    BY DEF TransmitError, d, e, p
  <1> HIDE DEF q
  <1>6. Counted(h)
    BY <1>4, BuildHeaderSame, AlikeCounted DEF Same
  <1> HIDE DEF h
  <1>7. Counted([q EXCEPT !.state = "CRASHED"])
    BY <1>4 DEF Counted
  <1>8. Counted([h EXCEPT !.state = "HEADERS_SENDING"])
    BY <1>6 DEF Counted
  <1>9. Counted(Close(h))
    BY <1>6, CloseRef
  <1>10. QED
    BY <1>5, <1>7, <1>8, <1>9

(* MHD_connection_update_event_loop_info keeps the count right.            *)
LEMMA SettleRef == ASSUME NEW k, NEW s, Counted(k) PROVE Counted(Settle(k, s))
  <1>1. Counted(Grown(k)) /\ Counted(TransmitError(k, s)) /\ Counted(Close(k))
    BY GrownSame, SameCounted, TransmitRef, CloseRef, SMTT(60)
  <1>2. QED
    BY <1>1 DEF Settle

(* The helpers that parse.                                                 *)
LEMMA LineSame ==
  ASSUME NEW k, Counted(k)
  PROVE  Same(k, WithoutLine(k)) /\ \A n : Same(k, Folded(k, n))
  <1>1. Same(k, WithoutLine(k))
    BY DEF Counted, Same, Alike, WithoutLine
  <1>2. \A a, b : Same(k, [WithoutLine(k) EXCEPT !.pool = a, !.last = b])
    BY <1>1 DEF Counted, Same, Alike
  <1>3. QED
    BY <1>1, <1>2 DEF Folded

(* What is recorded of a request, or refused.                              *)
LEMMA RecordedRef == ASSUME NEW k, NEW n, NEW s, Counted(k) PROVE Counted(Recorded(k, n, s))
  <1>1. \A p : Counted([k EXCEPT !.pool = p])
    BY DEF Counted
  <1>2. QED
    BY <1>1, TransmitRef DEF Recorded

(* parse_cookie_header.                                                    *)
LEMMA CookieRef == ASSUME NEW k, NEW s, Counted(k) PROVE Counted(ParseCookie(k, s))
  <1>1. \A p : Counted([k EXCEPT !.pool = p])
    BY DEF Counted
  <1>2. QED
    BY <1>1, RecordedRef, TransmitRef DEF ParseCookie

(* parse_connection_headers, which may close the connection.               *)
LEMMA ParseRef == ASSUME NEW k, NEW s, Counted(k) PROVE Counted(ParseHeaders(k, s))
  <1> DEFINE p == ParseCookie(k, s)
             z == [p EXCEPT !.remaining = 0]
             q == [p EXCEPT !.remaining = IF k.rq.encoding # "none" THEN UNKNOWN ELSE k.rq.length,
                            !.chunked = (k.rq.encoding = "chunked")]
  <1>1. Counted(p)
    BY CookieRef
  <1>2. ParseHeaders(k, s) \in {p, Close(z), q}
    BY DEF ParseHeaders
  <1> HIDE DEF p
  <1>3. Counted(z) /\ Counted(q)
    BY <1>1 DEF Counted
  <1>4. Counted(Close(z))
    BY <1>3, CloseRef
  <1> HIDE DEF z, q
  <1>5. QED
    BY <1>1, <1>2, <1>3, <1>4

(* What follows the first call.                                            *)
LEMMA AfterFirstCallRef == ASSUME NEW k, Counted(k) PROVE Counted(AfterFirstCall(k))
  <1> DEFINE r == IF k.response # NULL /\ IsUpload(k) THEN [k EXCEPT !.remaining = 0, !.readClosed = TRUE] ELSE k
  <1>1. Counted(r)
    BY DEF Counted
  <1>2. AfterFirstCall(k) = [r EXCEPT !.state = IF r.remaining = 0 THEN "FOOTERS_RECEIVED" ELSE "CONTINUE_SENT"]
    BY DEF AfterFirstCall
  <1> HIDE DEF r
  <1>3. QED
    BY <1>1, <1>2 DEF Counted

(* process_request_body, which may close the connection.                   *)
LEMMA BodyRef ==
  ASSUME NEW k, Counted(k)
  PROVE  Counted(ChunkLine(k)) /\ Counted(Processed(k))
  <1>1. Counted(Close(k))
    BY CloseRef
  <1>2. \A a, b, c : Counted([k EXCEPT !.buf = a, !.chunk = b, !.remaining = c])
    BY DEF Counted
  <1>3. Counted(ChunkLine(k))
    BY <1>1, <1>2 DEF ChunkLine
  <1>4. \A a, b, c, d : Counted([k EXCEPT !.buf = a, !.given = b, !.chunk = c, !.remaining = d])
    BY DEF Counted
  <1>5. Counted(Processed(k))
    BY <1>4 DEF Processed
  <1>6. QED
    BY <1>3, <1>5

(* The helpers that read and write.                                        *)
LEMMA ReadRef ==
  ASSUME NEW k, Counted(k), NEW bytes
  PROVE  Counted(ReadyToRead(k)) /\ Counted(Received(k, bytes))
  <1>1. Counted(ReadyToRead(k))
    BY GrownSame, SameCounted DEF ReadyToRead
  <1> DEFINE r == [k EXCEPT !.buf = @ \o bytes]
             z == [k EXCEPT !.readClosed = TRUE]
  <1>2. Counted(r) /\ Counted(z)
    BY DEF Counted
  <1>3. Counted(Close(r)) /\ Counted(Close(z))
    BY <1>2, CloseRef
  <1>4. Received(k, bytes) = IF bytes = << >> THEN Close(z) ELSE IF k.readClosed THEN Close(r) ELSE r
    BY DEF Received
  <1> HIDE DEF r, z
  <1>5. QED
    BY <1>1, <1>2, <1>3, <1>4

(* MHD_connection_handle_write.                                            *)
LEMMA WriteRef ==
  ASSUME NEW k, Counted(k), NEW n
  PROVE  Counted(HandleWrite(k, n))
  <1>1. \A a : Counted([k EXCEPT !.continued = a])
    BY DEF Counted
  <1> DEFINE u == [k EXCEPT !.unsent = @ - n]
  <1>2. Counted(u)
    BY DEF Counted
  <1>3. \A a, b, c : Counted([u EXCEPT !.state = "HEADERS_SENT", !.pool = a, !.wb = b, !.wbSize = c])
    <2> HIDE DEF u
    <2>1. QED
      BY <1>2 DEF Counted
  <1>4. Counted(CheckWriteDone(u))
    <2> HIDE DEF u
    <2>1. QED
      BY <1>2, <1>3 DEF CheckWriteDone
  <1>5. CASE k.state = "NORMAL_BODY_READY"
    <2>1. Counted([k EXCEPT !.left = @ - n, !.state = IF k.left = n THEN "FOOTERS_SENT" ELSE @])
      BY <1>5 DEF Counted
    <2>2. QED
      BY <1>5, <2>1 DEF HandleWrite
  <1>6. CASE k.state # "NORMAL_BODY_READY"
    BY <1>1, <1>4, <1>6 DEF HandleWrite
  <1>7. QED
    BY <1>5, <1>6

(* The end of a request gives its reference up.                            *)
LEMMA NextRef == ASSUME NEW k, Counted(k) PROVE Counted(NextRequest(k))
  <1> DEFINE d == DestroyResponse(k)
             b == PoolReset(k.pool, k.rb, PoolSize \div 2)
             c == [Close(d) EXCEPT !.rb = NoBlock, !.rbSize = 0, !.buf = << >>]
             i == [d EXCEPT !.state = "INIT", !.keepalive = "unknown", !.rq = NoRequest,
                          !.last = NewConnection.last, !.pool = b.pool, !.rb = b.at, !.rbSize = PoolSize \div 2]
             n == IF k.keepalive # "use" \/ k.readClosed THEN c ELSE i
  <1>1. Counted(d) /\ d.response = NULL
    BY DestroyRef
  <1>2. Counted(Close(d))
    BY <1>1, CloseRef
  <1>3. Counted(c)
    BY <1>2 DEF Counted
  <1>4. Counted(i)
    <2> HIDE DEF d, b
    <2>1. QED
      BY <1>1 DEF Counted
  <1>5. Counted(n)
    <2> HIDE DEF c, i
    <2>1. QED
      BY <1>3, <1>4
  <1>6. NextRequest(k) = [n EXCEPT !.context = NULL, !.given = 0, !.continued = 0, !.chunked = FALSE, !.chunk = 0,
                !.left = 0, !.wb = NoBlock, !.wbSize = 0, !.unsent = 0, !.told = @ + 1]
    BY DEF NextRequest
  <1> HIDE DEF n
  <1>7. QED
    BY <1>5, <1>6 DEF Counted

-----------------------------------------------------------------------------
(* The states in which there is more of a request to come.                 *)
Reading == {"INIT", "URL_RECEIVED", "HEADER_PART_RECEIVED", "HEADERS_RECEIVED", "HEADERS_PROCESSED",
            "CONTINUE_SENDING", "CONTINUE_SENT", "BODY_RECEIVED", "FOOTER_PART_RECEIVED"}

(* A connection has not been told to stop reading, or an error is on its   *)
(* way to the client, after which it ends.                                 *)
MayRead(k) == k.readClosed = FALSE \/ k.keepalive = "must_close"

(* So it is while a connection reads, and one that is closed does not keep *)
(* the thread from waiting.                                                *)
Waits(k) ==
  /\ {"state", "eli", "buf", "rbSize", "readClosed", "remaining", "keepalive"} \subseteq DOMAIN k
  /\ k.rbSize \in Int /\ k.readClosed \in BOOLEAN
  /\ k.state \in Reading => MayRead(k)
  /\ k.state = "CLOSED" => k.eli # "BLOCK"

(* The helpers that leave the state, the direction of waiting and the read *)
(* side alone, and do not forget that the connection must be closed.       *)
Idles(k, n) ==
  /\ DOMAIN n = DOMAIN k /\ n.rbSize \in Int
  /\ n.state = k.state /\ n.eli = k.eli /\ n.readClosed = k.readClosed
  /\ k.keepalive = "must_close" => n.keepalive = "must_close"

(* Such a helper keeps it so.                                              *)
LEMMA IdlesWaits == ASSUME NEW k, NEW n, Waits(k), Idles(k, n) PROVE Waits(n)
  BY DEF Waits, Idles, MayRead

(* So does a change of state, unless it goes back to reading after it was  *)
(* told to stop.                                                           *)
LEMMA WaitsAtState ==
  ASSUME NEW k, Waits(k), NEW state, state \notin Reading \/ MayRead(k), state # "CLOSED"
  PROVE  Waits([k EXCEPT !.state = state])
  BY DEF Waits, MayRead

(* MHD_connection_close_.                                                  *)
LEMMA DestroyWaits == ASSUME NEW k, Waits(k) PROVE Idles(k, DestroyResponse(k))
  BY DEF Waits, Idles, DestroyResponse

(* A connection that is closed waits for nothing.                          *)
LEMMA CloseWaits ==
  ASSUME NEW k, Waits(k)
  PROVE  /\ Waits(Close(k)) /\ Close(k).state = "CLOSED" /\ Close(k).readClosed = k.readClosed
         /\ k.keepalive = "must_close" => Close(k).keepalive = "must_close"
  <1> DEFINE d == DestroyResponse(k)
  <1>1. Waits(d) /\ Idles(k, d)
    BY DestroyWaits, IdlesWaits
  <1>2. Close(k) = [d EXCEPT !.state = "CLOSED", !.eli = "CLEANUP", !.shutWr = TRUE]
    BY DEF Close
  <1> HIDE DEF d
  <1>3. QED
    BY <1>1, <1>2 DEF Waits, Idles, Reading

(* try_grow_read_buffer: a full buffer that grows is not full.             *)
LEMMA GrownWaits ==
  ASSUME NEW k, Waits(k)
  PROVE  Idles(k, Grown(k)) /\ (Full(k) /\ CanGrow(k) => ~Full(Grown(k)))
  <1> DEFINE size == IF k.rbSize = 0 THEN PoolSize \div 2 ELSE k.rbSize + Inc
             b == PoolReallocate(k.pool, k.rb, k.rbSize, size)
             g == [k EXCEPT !.pool = b.pool, !.rb = b.at, !.rbSize = size]
  <1>1. size \in Int /\ size # k.rbSize
    <2>1. PoolSize \div 2 \in Int /\ PoolSize \div 2 > 0 /\ Inc \in Int /\ Inc > 0
      BY MPAssumption, MCAssumption
    <2>2. QED
      BY <2>1 DEF Waits
  <1>2. Grown(k) = IF b.at = NoBlock THEN k ELSE g
    BY DEF Grown
  <1> HIDE DEF b, size
  <1>3. Idles(k, k) /\ Idles(k, g)
    BY <1>1 DEF Waits, Idles
  <1>4. Full(k) => ~Full(g)
    BY <1>1 DEF Waits, Full
  <1>5. CanGrow(k) => Grown(k) = g
    BY <1>2 DEF CanGrow
  <1> HIDE DEF g
  <1>6. QED
    BY <1>2, <1>3, <1>4, <1>5

(* build_header_response.                                                  *)
LEMMA BuildHeaderWaits == ASSUME NEW k, Waits(k) PROVE Idles(k, BuildHeader(k))
  <1> DEFINE final == k.state = "FOOTERS_RECEIVED"
             size == IF k.rq.version = "none" THEN 0 ELSE IF final THEN ReplyHeader ELSE 1
             b == IF k.rq.version = "none" THEN PoolAllocateFromEnd(k.pool, 0) ELSE PoolAllocate(k.pool, size + 1)
             h == [k EXCEPT !.pool = b.pool, !.wb = b.at,
                     !.wbSize = IF k.rq.version = "none" \/ b.at = NoBlock THEN 0 ELSE size + 1,
                     !.unsent = IF b.at = NoBlock THEN 0 ELSE size]
  <1>1. BuildHeader(k) = IF final /\ k.rq.version # "none" THEN [h EXCEPT !.keepalive = KeepaliveOf(k), !.chunked = FALSE]
                                                       ELSE h
    BY DEF BuildHeader
  <1> HIDE DEF b, size, final
  <1>2. Idles(k, h)
    BY DEF Waits, Idles
  <1>3. k.keepalive = "must_close" => KeepaliveOf(k) = "must_close"
    BY DEF KeepaliveOf
  <1> HIDE DEF h
  <1>4. QED
    BY <1>1, <1>2, <1>3 DEF Waits, Idles

(* MHD_queue_response: a connection it tells to stop reading has left the  *)
(* states in which there is more to come.                                  *)
LEMMA QueueWaits ==
  ASSUME NEW k, Waits(k), NEW r, NEW size, NEW shut
  PROVE  Waits(QueueResponse(k, r, size, shut))
  <1> DEFINE q == [k EXCEPT !.response = r, !.refs = @ + 1, !.left = size]
  <1>1. Waits(q)
    BY DEF Waits, MayRead
  <1>2. Waits([q EXCEPT !.readClosed = TRUE, !.state = "FOOTERS_RECEIVED"])
    <2> HIDE DEF q
    <2>1. QED
      BY <1>1 DEF Waits, Reading
  <1>3. QED
    BY <1>1, <1>2 DEF QueueResponse

(* transmit_error_response.                                                *)
Failed == {"CRASHED", "HEADERS_SENDING", "CLOSED"}

(* The connection then waits for its socket to write, or is closed, or has *)
(* crashed.                                                                *)
LEMMA TransmitWaits ==
  ASSUME NEW k, Waits(k), NEW shut
  PROVE  Waits(TransmitError(k, shut)) /\ TransmitError(k, shut).state \in Failed
         /\ TransmitError(k, shut).keepalive = "must_close"
  <1> DEFINE d == DestroyResponse(k)
             e == [d EXCEPT !.state = "FOOTERS_RECEIVED", !.readClosed = TRUE]
             p == QueueResponse(e, "error", ErrorBody, shut)
             q == [p EXCEPT !.keepalive = "must_close"]
             h == BuildHeader(q)
             c == [q EXCEPT !.state = "CRASHED"]
             w == [h EXCEPT !.state = "HEADERS_SENDING"]
  <1>1. Waits(d)
    BY DestroyWaits, IdlesWaits
  <1>2. TransmitError(k, shut) = IF q.response = NULL /\ q.rq.version # "none" THEN c ELSE IF Built(q) THEN w ELSE Close(h)
    BY DEF TransmitError
  <1> HIDE DEF d
  <1>3. Waits(e)
    BY <1>1 DEF Waits, Reading
  <1> HIDE DEF e
  <1>4. Waits(p)
    BY <1>3, QueueWaits
  <1> HIDE DEF p
  <1>5. Waits(q) /\ q.keepalive = "must_close"
    BY <1>4 DEF Waits, MayRead
  <1> HIDE DEF q
  <1>6. Waits(h) /\ h.keepalive = "must_close"
    BY <1>5, BuildHeaderWaits, IdlesWaits DEF Idles
  <1> HIDE DEF h
  <1>7. Waits(c) /\ c.state = "CRASHED" /\ c.keepalive = "must_close"
    BY <1>5 DEF Waits, Reading
  <1>8. Waits(w) /\ w.state = "HEADERS_SENDING" /\ w.keepalive = "must_close"
    BY <1>6 DEF Waits, Reading
  <1>9. Waits(Close(h)) /\ Close(h).state = "CLOSED" /\ Close(h).keepalive = "must_close"
    BY <1>6, CloseWaits
  <1> HIDE DEF c, w
  <1>10. QED
    BY <1>2, <1>7, <1>8, <1>9 DEF Failed

(* MHD_connection_update_event_loop_info.                                  *)
Settled(k, shut) == [Settle(k, shut) EXCEPT !.eli = Eli(Settle(k, shut))]

(* At the end of a turn that does not leave a complete request unanswered  *)
(* unless s, and does not wait for a head it may not read, the connection  *)
(* waits for its socket, or its error is forgotten.                        *)
LEMMA SettleWaits ==
  ASSUME NEW k, Waits(k), NEW shut, NEW s, k.state = "FOOTERS_RECEIVED" => s,
         k.state \in {"INIT", "URL_RECEIVED", "HEADER_PART_RECEIVED"} => k.readClosed = FALSE
  PROVE  /\ Waits(Settled(k, shut))
         /\ Settled(k, shut).eli = "BLOCK" =>
              s \/ (Settled(k, shut).state = "CONTINUE_SENT" /\ Settled(k, shut).keepalive = "must_close")
  <1> DEFINE n == Settle(k, shut)
  <1>1. Idles(k, Grown(k)) /\ Waits(Grown(k)) /\ (Full(k) /\ CanGrow(k) => ~Full(Grown(k)))
    BY GrownWaits, IdlesWaits
  <1>2. Waits(TransmitError(k, shut)) /\ TransmitError(k, shut).state \in Failed
    BY TransmitWaits
  <1>3. Waits(Close(k)) /\ Close(k).state = "CLOSED"
    BY CloseWaits
  <1>4. /\ Waits(n)
        /\ \/ n.state = k.state /\ n.readClosed = k.readClosed /\ (k.state \in GrowingStates => ~Full(n))
           \/ n.state \in Failed
    <2>1. \/ n = Grown(k) /\ (k.state \in GrowingStates => ~Full(n))
          \/ n = TransmitError(k, shut) \/ n = Close(k)
          \/ n = k /\ (k.state \in GrowingStates => ~Full(n))
      BY <1>1 DEF Settle
    <2>2. Grown(k).state = k.state /\ Grown(k).readClosed = k.readClosed
      BY <1>1 DEF Idles
    <2>3. "CLOSED" \in Failed
      BY DEF Failed
    <2> HIDE DEF n
    <2>4. QED
      BY <1>1, <1>2, <1>3, <2>1, <2>2, <2>3
  <1> HIDE DEF n
  <1>5. Eli(n) = "BLOCK" => s \/ (n.state = "CONTINUE_SENT" /\ n.keepalive = "must_close")
    <2>1. CASE n.state \in Failed
      BY <2>1 DEF Eli, Failed
    <2>2. CASE n.state = k.state /\ n.readClosed = k.readClosed /\ (k.state \in GrowingStates => ~Full(n))
      <3>1. CASE k.state \in GrowingStates
        <4>1. ~Full(n) /\ n.readClosed \in BOOLEAN /\ MayRead(n)
          BY <1>4, <2>2, <3>1 DEF Waits, GrowingStates, Reading
        <4>2. QED
          BY <2>2, <3>1, <4>1 DEF Eli, GrowingStates, MayRead
      <3>2. CASE k.state \notin GrowingStates
        BY <2>2, <3>2 DEF Eli, GrowingStates
      <3>3. QED
        BY <3>1, <3>2
    <2>3. QED
      BY <1>4, <2>1, <2>2
  <1>6. Settled(k, shut) = [n EXCEPT !.eli = Eli(n)]
    BY DEF Settled, n
  <1>7. n.state = "CLOSED" => Eli(n) # "BLOCK"
    BY DEF Eli
  <1>8. QED
    BY <1>4, <1>5, <1>6, <1>7 DEF Waits, MayRead

(* The helpers that parse: they take lines from the read side, and do not  *)
(* end it.                                                                 *)
LEMMA LineWaits ==
  ASSUME NEW k, Waits(k)
  PROVE  Idles(k, WithoutLine(k)) /\ \A n : Idles(k, Folded(k, n))
  <1>1. LineLength(k) \in Int
    BY LineFacts
  <1>2. Idles(k, WithoutLine(k))
    <2>1. WithoutLine(k).rbSize = k.rbSize - LineLength(k)
      BY DEF Waits, WithoutLine
    <2>2. k.rbSize - LineLength(k) \in Int
      BY <1>1 DEF Waits
    <2>3. QED
      BY <2>1, <2>2 DEF Waits, Idles, WithoutLine
  <1>3. \A a, b : Idles(k, [WithoutLine(k) EXCEPT !.pool = a, !.last = b])
    BY <1>2 DEF Waits, Idles
  <1>4. QED
    BY <1>2, <1>3 DEF Folded

(* What is recorded of a request: if it is refused the connection must be  *)
(* closed.                                                                 *)
LEMMA RecordedWaits ==
  ASSUME NEW k, NEW n, NEW s, Waits(k), MayRead(k)
  PROVE  Waits(Recorded(k, n, s)) /\ MayRead(Recorded(k, n, s))
  <1> DEFINE r == [k EXCEPT !.pool = AddHeaders(k.pool, n).pool]
  <1>1. Waits(r) /\ MayRead(r)
    BY DEF Waits, MayRead
  <1>2. Recorded(k, n, s) \in {r, TransmitError(r, s)}
    BY DEF Recorded
  <1> HIDE DEF r
  <1>3. QED
    BY <1>1, <1>2, TransmitWaits DEF MayRead

(* parse_cookie_header.                                                    *)
LEMMA CookieWaits ==
  ASSUME NEW k, NEW s, Waits(k), MayRead(k)
  PROVE  Waits(ParseCookie(k, s)) /\ MayRead(ParseCookie(k, s))
  <1> DEFINE r == [k EXCEPT !.pool = PoolAllocateFromEnd(k.pool, k.rq.cookie).pool]
  <1>1. Waits(r) /\ MayRead(r)
    BY DEF Waits, MayRead
  <1>2. ParseCookie(k, s) \in {TransmitError(k, s), Recorded(r, k.rq.cookies, s)}
    BY DEF ParseCookie
  <1> HIDE DEF r
  <1>3. Waits(TransmitError(k, s)) /\ MayRead(TransmitError(k, s))
    BY TransmitWaits DEF MayRead
  <1>4. Waits(Recorded(r, k.rq.cookies, s)) /\ MayRead(Recorded(r, k.rq.cookies, s))
    BY <1>1, RecordedWaits
  <1>5. QED
    BY <1>2, <1>3, <1>4

(* parse_connection_headers.                                               *)
LEMMA ParseWaits ==
  ASSUME NEW k, NEW s, Waits(k), MayRead(k)
  PROVE  Waits(ParseHeaders(k, s)) /\ MayRead(ParseHeaders(k, s))
  <1> DEFINE p == ParseCookie(k, s)
             z == [p EXCEPT !.remaining = 0]
             q == [p EXCEPT !.remaining = IF k.rq.encoding # "none" THEN UNKNOWN ELSE k.rq.length,
                            !.chunked = (k.rq.encoding = "chunked")]
  <1>1. Waits(p) /\ MayRead(p)
    BY CookieWaits
  <1>2. ParseHeaders(k, s) \in {p, Close(z), q}
    BY DEF ParseHeaders
  <1> HIDE DEF p
  <1>3. Waits(z) /\ MayRead(z) /\ Waits(q) /\ MayRead(q)
    BY <1>1 DEF Waits, MayRead
  <1>4. Waits(Close(z)) /\ MayRead(Close(z))
    BY <1>3, CloseWaits DEF MayRead
  <1> HIDE DEF z, q
  <1>5. QED
    BY <1>1, <1>2, <1>3, <1>4

(* An answer to the first call stops the reading of an upload, whose body  *)
(* is then over.                                                           *)
LEMMA AfterFirstCallWaits ==
  ASSUME NEW k, Waits(k),
         MayRead(k) \/ (k.response # NULL /\ IsUpload(k))
  PROVE  Waits(AfterFirstCall(k))
  <1> DEFINE u == [k EXCEPT !.remaining = 0, !.readClosed = TRUE]
             r == IF k.response # NULL /\ IsUpload(k) THEN u ELSE k
             state == IF r.remaining = 0 THEN "FOOTERS_RECEIVED" ELSE "CONTINUE_SENT"
  <1>1. AfterFirstCall(k) = [r EXCEPT !.state = state]
    BY DEF AfterFirstCall
  <1>2. CASE k.response # NULL /\ IsUpload(k)
    <2>1. r = u /\ u.remaining = 0
      BY <1>2
    <2>2. state = "FOOTERS_RECEIVED"
      BY <2>1
    <2>3. Waits([u EXCEPT !.state = "FOOTERS_RECEIVED"])
      BY DEF Waits, Reading
    <2>4. QED
      BY <1>1, <2>1, <2>2, <2>3
  <1>3. CASE ~(k.response # NULL /\ IsUpload(k))
    <2>1. r = k /\ MayRead(k) /\ state # "CLOSED"
      BY <1>3
    <2> HIDE DEF state
    <2>2. Waits([k EXCEPT !.state = state])
      BY <2>1, WaitsAtState
    <2>3. QED
      BY <1>1, <2>1, <2>2
  <1>4. QED
    BY <1>2, <1>3

(* process_request_body.                                                   *)
LEMMA BodyWaitsToo ==
  ASSUME NEW k, Waits(k)
  PROVE  Waits(ChunkLine(k)) /\ Waits(Processed(k))
  <1>1. \A n : Idles(k, n) => Waits(n)
    BY IdlesWaits
  <1>2. \A a, b, c : Waits([k EXCEPT !.buf = a, !.chunk = b, !.remaining = c])
    <2>1. \A a, b, c : Idles(k, [k EXCEPT !.buf = a, !.chunk = b, !.remaining = c])
      BY DEF Waits, Idles
    <2>2. QED
      BY <1>1, <2>1
  <1>3. \A a, b, c, d : Waits([k EXCEPT !.buf = a, !.given = b, !.chunk = c, !.remaining = d])
    <2>1. \A a, b, c, d : Idles(k, [k EXCEPT !.buf = a, !.given = b, !.chunk = c, !.remaining = d])
      BY DEF Waits, Idles
    <2>2. QED
      BY <1>1, <2>1
  <1>4. Waits(ChunkLine(k))
    BY <1>2, CloseWaits DEF ChunkLine
  <1>5. Waits(Processed(k))
    BY <1>3 DEF Processed
  <1>6. QED
    BY <1>4, <1>5

(* MHD_connection_handle_read.                                             *)
LEMMA ReadWaits ==
  ASSUME NEW k, Waits(k), NEW bytes
  PROVE  Waits(ReadyToRead(k)) /\ Waits(Received(k, bytes))
  <1> DEFINE r == [k EXCEPT !.buf = @ \o bytes]
             z == [k EXCEPT !.readClosed = TRUE]
  <1>1. Waits(ReadyToRead(k))
    BY GrownWaits, IdlesWaits DEF ReadyToRead
  <1>2. Waits(r)
    BY DEF Waits, MayRead
  <1>3. Waits(Close(r))
    BY <1>2, CloseWaits
  <1>4. Waits(Close(z))
    <2> DEFINE d == DestroyResponse(z)
    <2>1. {"state", "eli", "buf", "rbSize", "remaining", "keepalive"} \subseteq DOMAIN d /\ d.rbSize \in Int
      BY DEF Waits, DestroyResponse
    <2>2. Close(z) = [d EXCEPT !.state = "CLOSED", !.eli = "CLEANUP", !.shutWr = TRUE]
      BY DEF Close
    <2>3. d.readClosed \in BOOLEAN /\ "readClosed" \in DOMAIN d
      BY DEF Waits, DestroyResponse
    <2> HIDE DEF d, z
    <2>4. QED
      BY <2>1, <2>2, <2>3 DEF Waits, Reading
  <1>5. Received(k, bytes) = IF bytes = << >> THEN Close(z) ELSE IF k.readClosed THEN Close(r) ELSE r
    BY DEF Received
  <1> HIDE DEF r, z
  <1>6. QED
    BY <1>1, <1>2, <1>3, <1>4, <1>5

(* MHD_connection_handle_write.                                            *)
LEMMA WriteWaits ==
  ASSUME NEW k, Waits(k), NEW n
  PROVE  Waits(HandleWrite(k, n))
  <1> DEFINE u == [k EXCEPT !.unsent = @ - n]
             b == [k EXCEPT !.left = @ - n, !.state = IF k.left = n THEN "FOOTERS_SENT" ELSE @]
  <1>1. \A a : Waits([k EXCEPT !.continued = a])
    BY DEF Waits, MayRead
  <1>2. Waits(u)
    BY DEF Waits, MayRead
  <1>3. Waits(CheckWriteDone(u))
    <2> HIDE DEF u
    <2>1. \A a, c, d : Waits([u EXCEPT !.state = "HEADERS_SENT", !.pool = a, !.wb = c, !.wbSize = d])
      BY <1>2 DEF Waits, Reading
    <2>2. QED
      BY <1>2, <2>1 DEF CheckWriteDone
  <1>4. CASE k.state = "NORMAL_BODY_READY"
    <2>1. Waits(b)
      BY <1>4 DEF Waits, Reading
    <2>2. QED
      BY <1>4, <2>1 DEF HandleWrite
  <1>5. CASE k.state # "NORMAL_BODY_READY"
    BY <1>1, <1>3, <1>5 DEF HandleWrite
  <1>6. QED
    BY <1>4, <1>5

(* The next request is only waited for by a connection that still reads.   *)
LEMMA NextWaits == ASSUME NEW k, Waits(k) PROVE Waits(NextRequest(k))
  <1> DEFINE d == DestroyResponse(k)
             b == PoolReset(k.pool, k.rb, PoolSize \div 2)
             c == [Close(d) EXCEPT !.rb = NoBlock, !.rbSize = 0, !.buf = << >>]
             i == [d EXCEPT !.state = "INIT", !.keepalive = "unknown", !.rq = NoRequest,
                          !.last = NewConnection.last, !.pool = b.pool, !.rb = b.at, !.rbSize = PoolSize \div 2]
             n == IF k.keepalive # "use" \/ k.readClosed THEN c ELSE i
  <1>1. Waits(d) /\ d.readClosed = k.readClosed
    BY DestroyWaits, IdlesWaits DEF Idles
  <1>2. Waits(Close(d))
    BY <1>1, CloseWaits
  <1>3. Waits(c)
    <2> DEFINE x == Close(d)
    <2> HIDE DEF x
    <2>1. Waits(x) /\ c = [x EXCEPT !.rb = NoBlock, !.rbSize = 0, !.buf = << >>]
      BY <1>2 DEF x
    <2> HIDE DEF c
    <2>2. /\ DOMAIN c = DOMAIN x /\ c.rbSize = 0 /\ c.state = x.state /\ c.eli = x.eli
          /\ c.readClosed = x.readClosed /\ c.keepalive = x.keepalive
      BY <2>1 DEF Waits
    <2>3. Idles(x, c)
      BY <2>2 DEF Idles
    <2>4. QED
      BY <2>1, <2>3, IdlesWaits
  <1>4. k.readClosed \in BOOLEAN /\ (k.readClosed = FALSE => Waits(i))
    <2> HIDE DEF d, b
    <2>1. PoolSize \div 2 \in Int
      BY MPAssumption
    <2>2. QED
      BY <1>1, <2>1 DEF Waits, MayRead
  <1>5. Waits(n)
    <2> HIDE DEF c, i
    <2>1. QED
      BY <1>3, <1>4
  <1>6. NextRequest(k) = [n EXCEPT !.context = NULL, !.given = 0, !.continued = 0, !.chunked = FALSE, !.chunk = 0,
                !.left = 0, !.wb = NoBlock, !.wbSize = 0, !.unsent = 0, !.told = @ + 1]
    BY DEF NextRequest
  <1> HIDE DEF n
  <1>7. QED
    BY <1>5, <1>6 DEF Waits, MayRead

(* A new connection waits for its first request.                           *)
LEMMA NewWaits == Waits(NewConnection)
  BY DEF Waits, MayRead, NewConnection

-----------------------------------------------------------------------------
(* The states in which the header line before may still be continued.      *)
Parts == {"HEADER_PART_RECEIVED", "FOOTER_PART_RECEIVED"}

(* A write buffer lies behind the read buffer, or before it if that had to *)
(* move, and is then not the last block of the pool.                       *)
WriteApart(k) ==
  /\ AtStart(k.pool, k.wb, k.wbSize)
  /\ k.rb + k.rbSize <= k.wb \/ (k.wb + k.wbSize <= k.rb /\ k.wb + k.wbSize < k.pool.pos)

(* The read buffer lies in the pool and holds what was read; a write       *)
(* buffer that is not empty lies there too.                                *)
Base(k, S) ==
  /\ {"state", "pool", "rb", "rbSize", "buf", "wb", "wbSize", "last", "keepalive"} \subseteq DOMAIN k
  /\ IsPool(k.pool)
  /\ k.rbSize \in Nat /\ ((k.rb = NoBlock /\ k.rbSize = 0) \/ AtStart(k.pool, k.rb, k.rbSize))
  /\ k.buf \in Seq(S) /\ Len(k.buf) <= k.rbSize
  /\ k.wb \in Int /\ k.wbSize \in Nat
  /\ k.wbSize = 0 \/ WriteApart(k)

LastApart(k) ==
  /\ k.last.at \in Nat /\ k.last.size \in Nat /\ k.last.size > 0
  /\ AtStart(k.pool, k.last.at, k.last.size) /\ Disjoint(k.rb, k.rbSize, k.last.at, k.last.size)

(* What that asks of a connection in its state: only one that has read     *)
(* nothing, or will be closed, has no read buffer.                         *)
Stage(k) ==
  /\ k.state \in Parts => LastApart(k)
  /\ k.rb = NoBlock => k.state \in {"INIT", "CLOSED", "CRASHED"} \/ k.keepalive = "must_close"

Memory(k, S) == Base(k, S) /\ Stage(k)

(* The helpers that leave the memory alone.                                *)
SameMemory(k, n) ==
  /\ DOMAIN n = DOMAIN k
  /\ n.pool = k.pool /\ n.rb = k.rb /\ n.rbSize = k.rbSize /\ n.buf = k.buf /\ n.wb = k.wb /\ n.wbSize = k.wbSize

(* The same memory lies as well.                                           *)
LEMMA SameMemoryBase == ASSUME NEW k, NEW n, NEW S, Base(k, S), SameMemory(k, n) PROVE Base(n, S)
  BY DEF Base, SameMemory, WriteApart

(* A buffer starts in the pool or is not there.                            *)
LEMMA BaseFacts ==
  ASSUME NEW k, NEW S, Base(k, S)
  PROVE  /\ k.pool.pos \in Nat /\ k.pool.end \in Nat /\ k.pool.pos <= k.pool.end /\ k.pool.end <= PoolSize
         /\ k.rb \in Int /\ k.rbSize \in Nat /\ k.rb + k.rbSize <= k.pool.pos /\ Len(k.buf) \in Nat
         /\ k.rbSize > 0 => k.rb \in Nat
         /\ k.wb \in Int /\ k.wbSize \in Nat
  <1>1. IsPool(k.pool) /\ Len(k.buf) \in Nat
    BY LenProperties DEF Base
  <1>2. QED
    BY <1>1 DEF Base, IsPool, AtStart, NoBlock

(* MHD_destroy_response and MHD_connection_close_.                         *)
LEMMA DestroyMemory == ASSUME NEW k, NEW S, Base(k, S)
                       PROVE SameMemory(k, DestroyResponse(k)) /\ DestroyResponse(k).state = k.state
                             /\ DestroyResponse(k).keepalive = k.keepalive /\ DestroyResponse(k).last = k.last
  BY DEF Base, SameMemory, DestroyResponse

(* A closed connection's memory stays where it is.                         *)
LEMMA CloseMemory ==
  ASSUME NEW k, NEW S, Base(k, S)
  PROVE  Memory(Close(k), S) /\ Close(k).state = "CLOSED" /\ Close(k).pool = k.pool /\ Close(k).keepalive = k.keepalive
  <1> DEFINE d == DestroyResponse(k)
             c == [d EXCEPT !.state = "CLOSED", !.eli = "CLEANUP", !.shutWr = TRUE]
  <1>1. Base(d, S) /\ d.pool = k.pool /\ d.keepalive = k.keepalive
    BY DestroyMemory, SameMemoryBase DEF SameMemory
  <1>2. Close(k) = c
    BY DEF Close
  <1> HIDE DEF d
  <1>3. SameMemory(d, c) /\ c.state = "CLOSED" /\ c.keepalive = d.keepalive
    BY <1>1 DEF Base, SameMemory
  <1>4. Base(c, S) /\ c.pool = d.pool
    BY <1>1, <1>3, SameMemoryBase DEF SameMemory
  <1> HIDE DEF c
  <1>5. Stage(c)
    BY <1>3 DEF Stage, Parts
  <1>6. QED
    BY <1>1, <1>2, <1>3, <1>4, <1>5 DEF Memory

(* try_grow_read_buffer: it grows in place or moves, and leaves the header *)
(* line and the write buffer alone.                                        *)
LEMMA GrownMemory ==
  ASSUME NEW k, NEW S, Memory(k, S)
  PROVE  Memory(Grown(k), S) /\ Grown(k).state = k.state /\ Grown(k).buf = k.buf
         /\ DOMAIN Grown(k) = DOMAIN k
  <1> DEFINE size == IF k.rbSize = 0 THEN PoolSize \div 2 ELSE k.rbSize + Inc
             b == PoolReallocate(k.pool, k.rb, k.rbSize, size)
             g == [k EXCEPT !.pool = b.pool, !.rb = b.at, !.rbSize = size]
  <1>1. size \in Nat /\ k.rbSize < size
    <2>1. PoolSize \div 2 \in Nat /\ PoolSize \div 2 > 0 /\ Inc \in Nat /\ Inc > 0
      BY MPAssumption, MCAssumption
    <2>2. QED
      BY <2>1 DEF Memory, Base
  <1>2. Grown(k) = IF b.at = NoBlock THEN k ELSE g
    BY DEF Grown
  <1> HIDE DEF size
  <1>3. /\ IsPool(b.pool)
        /\ b.at # NoBlock => AtStart(b.pool, b.at, size)
        /\ \A at, s \in Nat :
             AtStart(k.pool, at, s) /\ s > 0 /\ (k.rb = NoBlock \/ Disjoint(k.rb, k.rbSize, at, s)) =>
               AtStart(b.pool, at, s) /\ (b.at # NoBlock => Disjoint(b.at, size, at, s))
    BY <1>1, ReallocateIsApart DEF Memory, Base
  <1> HIDE DEF b
  <1>4. CASE b.at # NoBlock
    <2>1. /\ DOMAIN g = DOMAIN k /\ g.pool = b.pool /\ g.rb = b.at /\ g.rbSize = size /\ g.buf = k.buf
          /\ g.wb = k.wb /\ g.wbSize = k.wbSize /\ g.last = k.last /\ g.state = k.state /\ g.keepalive = k.keepalive
      BY DEF Memory, Base
    <2> HIDE DEF g
    <2>2. Len(k.buf) \in Nat
      BY BaseFacts DEF Memory
    <2>3. k.wbSize = 0 \/ WriteApart(g)
      <3> SUFFICES ASSUME k.wbSize # 0 PROVE WriteApart(g)
        OBVIOUS
      <3>1. k.wb \in Nat /\ k.wbSize \in Nat /\ k.wbSize > 0 /\ AtStart(k.pool, k.wb, k.wbSize)
            /\ Disjoint(k.rb, k.rbSize, k.wb, k.wbSize)
        BY DEF Memory, Base, WriteApart, AtStart, Disjoint
      <3>2. AtStart(b.pool, k.wb, k.wbSize) /\ Disjoint(b.at, size, k.wb, k.wbSize)
        BY <1>3, <1>4, <3>1
      <3>3. b.at \in Nat /\ b.at + size <= b.pool.pos /\ b.pool.pos \in Nat /\ size > 0
        <4>1. b.pool.pos \in Nat /\ AtStart(b.pool, b.at, size) /\ k.rbSize \in Nat
          BY <1>3, <1>4 DEF IsPool, Memory, Base
        <4>2. QED
          BY <1>1, <4>1 DEF AtStart
      <3>4. QED
        BY <1>1, <2>1, <3>1, <3>2, <3>3 DEF WriteApart, Disjoint
    <2>4. Base(g, S)
      <3>1. k.rbSize \in Nat /\ Len(k.buf) <= k.rbSize
        BY DEF Memory, Base
      <3>2. Len(k.buf) <= size
        BY <1>1, <2>2, <3>1
      <3>3. QED
        BY <1>1, <1>3, <1>4, <2>1, <2>3, <3>2 DEF Memory, Base
    <2>5. k.state \in Parts => LastApart(g)
      BY <1>3, <1>4, <2>1 DEF Memory, Stage, LastApart
    <2>6. Stage(g)
      BY <1>4, <2>1, <2>5 DEF Memory, Stage
    <2>7. QED
      BY <1>2, <1>4, <2>1, <2>4, <2>6 DEF Memory
  <1>5. CASE b.at = NoBlock
    BY <1>2, <1>5
  <1>6. QED
    BY <1>4, <1>5

(* ROUND_TO_ALIGN of nothing is nothing.                                   *)
LEMMA RoundZero == RoundToAlign(0) = 0
  <1>1. Align \in Nat /\ Align > 0
    BY MPAssumption
  <1>2. (0 + Align - 1) \div Align = 0
    BY <1>1
  <1>3. QED
    BY <1>1, <1>2 DEF RoundToAlign

(* The pool has no room for the header of a response.                      *)
NoRoom(pool) == ~Fits(pool, RoundToAlign(ReplyHeader + 1))

(* build_header_response puts the write buffer behind everything else, or  *)
(* an empty one anywhere.  It fails for want of room only.                 *)
LEMMA BuildHeaderMemory ==
  ASSUME NEW k, NEW S, Base(k, S)
  PROVE  /\ Base(BuildHeader(k), S) /\ BuildHeader(k).state = k.state /\ BuildHeader(k).rb = k.rb
         /\ k.keepalive = "must_close" => BuildHeader(k).keepalive = "must_close"
         /\ ~Built(k) /\ k.state = "FOOTERS_RECEIVED" => NoRoom(k.pool) /\ BuildHeader(k).pool = k.pool
  <1> DEFINE final == k.state = "FOOTERS_RECEIVED"
             bare == k.rq.version = "none"
             size == IF bare THEN 0 ELSE IF final THEN ReplyHeader ELSE 1
             b == IF bare THEN PoolAllocateFromEnd(k.pool, 0) ELSE PoolAllocate(k.pool, size + 1)
             wbSize == IF bare \/ b.at = NoBlock THEN 0 ELSE size + 1
             h == [k EXCEPT !.pool = b.pool, !.wb = b.at, !.wbSize = wbSize,
                     !.unsent = IF b.at = NoBlock THEN 0 ELSE size]
             f == [h EXCEPT !.keepalive = KeepaliveOf(k), !.chunked = FALSE]
  <1>1. BuildHeader(k) = IF final /\ ~bare THEN f ELSE h
    BY DEF BuildHeader
  <1>2. size \in Nat /\ (~bare /\ final => size = ReplyHeader)
    BY MCAssumption
  <1>3. /\ DOMAIN h = DOMAIN k /\ h.pool = b.pool /\ h.rb = k.rb /\ h.rbSize = k.rbSize /\ h.buf = k.buf
        /\ h.wb = b.at /\ h.wbSize = wbSize /\ h.state = k.state /\ h.keepalive = k.keepalive
    <2> HIDE DEF b, wbSize, size
    <2>1. QED
      BY DEF Base
  <1> HIDE DEF h
  <1>4. k.pool.pos \in Nat /\ k.pool.end \in Nat /\ k.pool.pos <= k.pool.end /\ k.rb \in Int /\ k.rbSize \in Nat
        /\ k.rb + k.rbSize <= k.pool.pos /\ IsPool(k.pool)
    BY BaseFacts DEF Base
  <1>5. /\ IsPool(b.pool) /\ k.pool.pos <= b.pool.pos /\ b.at \in Int /\ wbSize \in Nat
        /\ wbSize = 0 \/ (b.at = k.pool.pos /\ AtStart(b.pool, b.at, wbSize))
        /\ b.at = NoBlock => b.pool = k.pool /\ ~bare /\ ~Fits(k.pool, RoundToAlign(size + 1))
    <2>1. CASE bare
      <3> DEFINE new == [k.pool EXCEPT !.end = @ - 0]
      <3>1. new = k.pool
        BY <1>4 DEF IsPool
      <3>2. b = [pool |-> new, at |-> k.pool.end - 0]
        BY <1>4, <2>1, RoundZero DEF PoolAllocateFromEnd, Block, Fits
      <3> HIDE DEF new
      <3>3. b.pool = k.pool /\ b.at = k.pool.end /\ wbSize = 0
        BY <1>4, <2>1, <3>1, <3>2
      <3> HIDE DEF b, wbSize
      <3>4. QED
        BY <1>4, <2>1, <3>3 DEF NoBlock
    <2>2. CASE ~bare
      <3>1. b = PoolAllocate(k.pool, size + 1) /\ wbSize = IF b.at = NoBlock THEN 0 ELSE size + 1
        BY <2>2
      <3> HIDE DEF b, wbSize, size
      <3>2. size + 1 \in Nat
        BY <1>2
      <3>3. /\ IsPool(b.pool) /\ k.pool.pos <= b.pool.pos
            /\ \/ b.at = NoBlock /\ b.pool = k.pool
               \/ b.at = k.pool.pos /\ AtStart(b.pool, b.at, size + 1)
        BY <1>4, <3>1, <3>2, AllocateIsApart
      <3>4. k.pool.pos # NoBlock
        BY <1>4 DEF NoBlock
      <3>5. b.at = NoBlock => ~Fits(k.pool, RoundToAlign(size + 1))
        <4>1. b = IF Fits(k.pool, RoundToAlign(size + 1))
                  THEN [pool |-> [k.pool EXCEPT !.pos = @ + RoundToAlign(size + 1)], at |-> k.pool.pos]
                  ELSE [pool |-> k.pool, at |-> NoBlock]
          BY <3>1 DEF PoolAllocate, Block
        <4>2. QED
          BY <3>4, <4>1
      <3>6. CASE b.at = NoBlock
        <4>1. b.pool = k.pool
          BY <3>3, <3>4, <3>6
        <4>2. QED
          BY <1>4, <2>2, <3>1, <3>5, <3>6, <4>1 DEF NoBlock
      <3>7. CASE b.at # NoBlock
        BY <1>4, <3>1, <3>2, <3>3, <3>7
      <3>8. QED
        BY <3>6, <3>7
    <2>3. QED
      BY <2>1, <2>2
  <1> HIDE DEF b, wbSize
  <1>6. Base(h, S)
    <2>1. b.pool.pos \in Nat
      BY <1>5 DEF IsPool
    <2>2. (k.rb = NoBlock /\ k.rbSize = 0) \/ AtStart(b.pool, k.rb, k.rbSize)
      BY <1>4, <1>5, <2>1, SMTT(60) DEF Base, AtStart
    <2>3. wbSize = 0 \/ WriteApart(h)
      BY <1>3, <1>4, <1>5 DEF WriteApart
    <2>4. QED
      BY <1>3, <1>5, <2>2, <2>3 DEF Base
  <1>7. SameMemory(h, f) /\ f.state = h.state /\ f.keepalive = KeepaliveOf(k)
    BY <1>6 DEF Base, SameMemory
  <1> HIDE DEF f
  <1>8. Base(f, S) /\ f.rb = h.rb /\ f.wb = h.wb /\ f.pool = h.pool
    BY <1>6, <1>7, SameMemoryBase DEF SameMemory
  <1>9. k.keepalive = "must_close" => KeepaliveOf(k) = "must_close"
    BY DEF KeepaliveOf
  <1>10. b.at = NoBlock /\ final => NoRoom(k.pool)
    BY <1>2, <1>5 DEF NoRoom
  <1>11. Built(k) <=> b.at # NoBlock
    BY <1>1, <1>3, <1>8 DEF Built
  <1> HIDE DEF final, bare
  <1>12. QED
    BY <1>1, <1>3, <1>5, <1>6, <1>7, <1>8, <1>9, <1>10, <1>11 DEF final

(* MHD_queue_response.                                                     *)
LEMMA QueueMemory ==
  ASSUME NEW k, NEW S, Base(k, S), NEW r, NEW size, NEW shut
  PROVE  /\ SameMemory(k, QueueResponse(k, r, size, shut))
         /\ QueueResponse(k, r, size, shut).state \in {k.state, "FOOTERS_RECEIVED"}
         /\ QueueResponse(k, r, size, shut).keepalive = k.keepalive
         /\ QueueResponse(k, r, size, shut).last = k.last
  <1> DEFINE q == [k EXCEPT !.response = r, !.refs = @ + 1, !.left = size]
             u == [q EXCEPT !.readClosed = TRUE, !.state = "FOOTERS_RECEIVED"]
  <1>1. SameMemory(k, q) /\ q.state = k.state /\ q.keepalive = k.keepalive /\ q.last = k.last
    BY DEF SameMemory, Base
  <1>2. SameMemory(k, u) /\ u.state = "FOOTERS_RECEIVED" /\ u.keepalive = k.keepalive /\ u.last = k.last
    <2> HIDE DEF q
    <2>1. QED
      BY <1>1 DEF SameMemory, Base
  <1>3. SameMemory(k, k)
    BY DEF SameMemory
  <1> HIDE DEF q, u
  <1>4. QueueResponse(k, r, size, shut) \in {k, q, u}
    BY DEF QueueResponse, q, u
  <1>5. QED
    BY <1>1, <1>2, <1>3, <1>4

(* transmit_error_response: it closes the connection at once only if there *)
(* is no room for the response.                                            *)
LEMMA TransmitMemory ==
  ASSUME NEW k, NEW S, Base(k, S), NEW shut
  PROVE  Memory(TransmitError(k, shut), S) /\ TransmitError(k, shut).state \in Failed
         /\ (TransmitError(k, shut).state = "CLOSED" => NoRoom(TransmitError(k, shut).pool))
         /\ TransmitError(k, shut).keepalive = "must_close"
  <1> DEFINE d == DestroyResponse(k)
             e == [d EXCEPT !.state = "FOOTERS_RECEIVED", !.readClosed = TRUE]
             p == QueueResponse(e, "error", ErrorBody, shut)
             q == [p EXCEPT !.keepalive = "must_close"]
             h == BuildHeader(q)
             c == [q EXCEPT !.state = "CRASHED"]
             w == [h EXCEPT !.state = "HEADERS_SENDING"]
  <1>1. Base(d, S)
    BY DestroyMemory, SameMemoryBase
  <1>2. TransmitError(k, shut) = IF q.response = NULL /\ q.rq.version # "none" THEN c ELSE IF Built(q) THEN w ELSE Close(h)
    BY DEF TransmitError
  <1> HIDE DEF d
  <1>3. SameMemory(d, e) /\ e.state = "FOOTERS_RECEIVED"
    BY <1>1 DEF Base, SameMemory
  <1> HIDE DEF e
  <1>4. Base(e, S)
    BY <1>1, <1>3, SameMemoryBase
  <1>5. Base(p, S) /\ p.state = "FOOTERS_RECEIVED"
    BY <1>3, <1>4, QueueMemory, SameMemoryBase
  <1> HIDE DEF p
  <1>6. SameMemory(p, q) /\ q.state = "FOOTERS_RECEIVED" /\ q.keepalive = "must_close"
    BY <1>5 DEF Base, SameMemory
  <1> HIDE DEF q
  <1>7. Base(q, S)
    BY <1>5, <1>6, SameMemoryBase
  <1>8. /\ Base(h, S) /\ h.keepalive = "must_close"
        /\ ~Built(q) => NoRoom(q.pool) /\ h.pool = q.pool
    BY <1>6, <1>7, BuildHeaderMemory
  <1> HIDE DEF h
  <1>9. SameMemory(q, c) /\ c.state = "CRASHED" /\ c.keepalive = "must_close"
    BY <1>6, <1>7 DEF Base, SameMemory
  <1>10. SameMemory(h, w) /\ w.state = "HEADERS_SENDING" /\ w.keepalive = "must_close"
    BY <1>8 DEF Base, SameMemory
  <1> HIDE DEF c, w
  <1>11. Memory(c, S) /\ Memory(w, S)
    <2>1. Base(c, S) /\ Base(w, S)
      BY <1>7, <1>8, <1>9, <1>10, SameMemoryBase
    <2>2. Stage(c) /\ Stage(w)
      BY <1>9, <1>10 DEF Stage, Parts
    <2>3. QED
      BY <2>1, <2>2 DEF Memory
  <1>12. Memory(Close(h), S) /\ Close(h).pool = h.pool /\ Close(h).state = "CLOSED" /\ Close(h).keepalive = "must_close"
    BY <1>8, CloseMemory
  <1>13. QED
    BY <1>2, <1>8, <1>9, <1>10, <1>11, <1>12 DEF Failed

(* Where a turn may end: in a state that waits for the socket, or with a   *)
(* connection for whose response the pool has no room.                     *)
Ending == {"BODY_RECEIVED", "FOOTER_PART_RECEIVED"}
Resting == GrowingStates \cup Ending \cup
  {"CONTINUE_SENDING", "HEADERS_SENDING", "NORMAL_BODY_READY", "CHUNKED_BODY_READY", "FOOTERS_RECEIVED", "CRASHED"}
Rests(k) ==
  \/ k.state \in Resting /\ ~(k.state \in Ending /\ k.readClosed)
  \/ k.state = "CLOSED" /\ NoRoom(k.pool)

(* MHD_connection_update_event_loop_info.                                  *)
LEMMA SettleMemory ==
  ASSUME NEW k, NEW S, Memory(k, S), NEW shut, Rests(k)
  PROVE  /\ Memory(Settle(k, shut), S)
         /\ Settle(k, shut).state \in {k.state} \cup Failed
         /\ Settle(k, shut).state = "CLOSED" => NoRoom(Settle(k, shut).pool)
  <1>1. Base(k, S)
    BY DEF Memory
  <1>2. CASE k.state \in GrowingStates /\ Full(k)
    <2>1. Memory(Grown(k), S) /\ Grown(k).state = k.state
      BY GrownMemory
    <2>2. Memory(TransmitError(k, shut), S)
          /\ (TransmitError(k, shut).state = "CLOSED" => NoRoom(TransmitError(k, shut).pool))
      BY <1>1, TransmitMemory
    <2>3. TransmitError(k, shut).state \in Failed
      BY <1>1, TransmitMemory
    <2>4. Settle(k, shut) = IF CanGrow(k) THEN Grown(k) ELSE TransmitError(k, shut)
      BY <1>2 DEF Settle, GrowingStates
    <2>5. k.state # "CLOSED"
      BY <1>2 DEF GrowingStates
    <2>6. QED
      BY <2>1, <2>2, <2>3, <2>4, <2>5
  <1>3. CASE ~(k.state \in GrowingStates /\ Full(k))
    <2>1. ~(k.state \in {"BODY_RECEIVED", "FOOTER_PART_RECEIVED"} /\ k.readClosed)
      BY DEF Rests, Ending
    <2>2. Settle(k, shut) = k
      BY <1>3, <2>1 DEF Settle
    <2>3. k.state = "CLOSED" => NoRoom(k.pool)
      BY DEF Rests, Resting, GrowingStates, Ending
    <2>4. QED
      BY <2>2, <2>3
  <1>4. QED
    BY <1>2, <1>3

(* A line is taken from the start of the read buffer.                      *)
LEMMA LineMemory ==
  ASSUME NEW k, NEW S, Memory(k, S), HasLine(k)
  PROVE  /\ Memory(WithoutLine(k), S)
         /\ WithoutLine(k).state = k.state /\ WithoutLine(k).rb # NoBlock /\ WithoutLine(k).keepalive = k.keepalive
         /\ WithoutLine(k).pool = k.pool /\ WithoutLine(k).wb = k.wb
  <1> DEFINE n == LineLength(k)
             w == WithoutLine(k)
  <1>1. n \in 1 .. Len(k.buf) /\ n \in Nat
    BY LineFacts
  <1>2. Base(k, S) /\ Len(k.buf) \in Nat /\ k.rb \in Int /\ k.rbSize \in Nat /\ Len(k.buf) <= k.rbSize
    BY BaseFacts DEF Memory, Base
  <1>3. w = [k EXCEPT !.buf = SubSeq(k.buf, n + 1, Len(k.buf)), !.rb = @ + n, !.rbSize = @ - n]
    BY DEF WithoutLine
  <1> HIDE DEF n, w
  <1>4. /\ DOMAIN w = DOMAIN k /\ w.buf = SubSeq(k.buf, n + 1, Len(k.buf)) /\ w.rb = k.rb + n /\ w.rbSize = k.rbSize - n
        /\ w.pool = k.pool /\ w.wb = k.wb /\ w.wbSize = k.wbSize /\ w.state = k.state /\ w.last = k.last
        /\ w.keepalive = k.keepalive
    BY <1>2, <1>3 DEF Base
  <1>5. w.buf \in Seq(S) /\ Len(w.buf) = Len(k.buf) - n
    <2>1. \A i \in n + 1 .. Len(k.buf) : k.buf[i] \in S
      BY <1>1, <1>2, ElementOfSeq DEF Base
    <2>2. w.buf \in Seq(S) /\ Len(w.buf) = IF n + 1 <= Len(k.buf) THEN Len(k.buf) - (n + 1) + 1 ELSE 0
      BY <1>1, <1>2, <1>4, <2>1, SubSeqProperties
    <2>3. QED
      BY <1>1, <1>2, <2>2
  <1>6. AtStart(k.pool, k.rb, k.rbSize) /\ k.rbSize - n \in Nat /\ Len(w.buf) <= k.rbSize - n
    BY <1>1, <1>2, <1>5 DEF Base
  <1>7. AtStart(k.pool, k.rb + n, k.rbSize - n) /\ (k.rb + n) + (k.rbSize - n) = k.rb + k.rbSize /\ k.rb + n # NoBlock
    BY <1>1, <1>2, <1>6, SMTT(60) DEF AtStart, NoBlock
  <1>8. Base(w, S)
    <2>1. k.wbSize = 0 \/ WriteApart(w)
      BY <1>1, <1>2, <1>4, <1>7, SMTT(60) DEF Base, WriteApart, AtStart
    <2>2. QED
      BY <1>2, <1>4, <1>5, <1>6, <1>7, <2>1 DEF Base
  <1>9. k.state \in Parts => LastApart(w)
    <2> SUFFICES ASSUME k.state \in Parts PROVE LastApart(w)
      OBVIOUS
    <2>1. LastApart(k)
      BY DEF Memory, Stage
    <2>2. Disjoint(k.rb + n, k.rbSize - n, k.last.at, k.last.size)
      BY <1>1, <1>2, <1>7, <2>1 DEF LastApart, Disjoint
    <2>3. QED
      BY <1>4, <2>1, <2>2 DEF LastApart
  <1>10. Stage(w)
    BY <1>4, <1>7, <1>9 DEF Memory, Stage
  <1>11. QED
    BY <1>4, <1>7, <1>8, <1>10 DEF Memory, w

(* The line that is taken is apart from what is left of the buffer.        *)
LEMMA HeaderApart ==
  ASSUME NEW k, NEW S, Memory(k, S), HasLine(k),
         NEW n, \/ SameMemory(WithoutLine(k), n)
                \/ /\ Base(n, S) /\ n.rb = WithoutLine(k).rb /\ n.rbSize = WithoutLine(k).rbSize
                   /\ n.pool.pos = k.pool.pos,
         NEW m \in Lengths(k), n.last = HeaderOf(k, m)
  PROVE  LastApart(n)
  <1> DEFINE l == LineLength(k)
             w == WithoutLine(k)
  <1>1. l \in 1 .. Len(k.buf) /\ l \in Nat /\ m \in 1 .. l
    BY LineFacts DEF Lengths
  <1>2. Base(k, S) /\ Len(k.buf) \in Nat /\ k.rbSize \in Nat /\ Len(k.buf) <= k.rbSize
    BY BaseFacts DEF Memory, Base
  <1>3. AtStart(k.pool, k.rb, k.rbSize) /\ k.pool.pos \in Nat
    BY <1>1, <1>2, BaseFacts DEF Base
  <1>4. w = [k EXCEPT !.buf = SubSeq(k.buf, l + 1, Len(k.buf)), !.rb = @ + l, !.rbSize = @ - l]
    BY DEF WithoutLine
  <1>5. n.last = [at |-> k.rb, size |-> m]
    BY DEF HeaderOf
  <1> HIDE DEF l
  <1>6. w.rb = k.rb + l /\ w.rbSize = k.rbSize - l /\ w.pool = k.pool
    BY <1>2, <1>4 DEF Base
  <1> HIDE DEF w
  <1>7. n.rb = k.rb + l /\ n.rbSize = k.rbSize - l /\ n.pool.pos = k.pool.pos
    BY <1>6 DEF SameMemory, w
  <1>8. AtStart(n.pool, k.rb, m)
    BY <1>1, <1>2, <1>3, <1>7, SMTT(60) DEF AtStart
  <1>9. QED
    BY <1>1, <1>2, <1>3, <1>5, <1>7, <1>8, SMTT(60) DEF LastApart, AtStart, Disjoint

(* process_broken_line: the header line grows, in place or by moving, and  *)
(* stays apart from the read buffer.                                       *)
LEMMA FoldedMemory ==
  ASSUME NEW k, NEW S, Memory(k, S), HasLine(k), k.state \in Parts, NEW m \in Lengths(k),
         Folded(k, m).last.at # NoBlock
  PROVE  Memory(Folded(k, m), S)
  <1> DEFINE n == LineLength(k)
             w == WithoutLine(k)
             size == k.last.size + m
             b == PoolReallocate(k.pool, k.last.at, k.last.size, size)
             f == [w EXCEPT !.pool = b.pool, !.last = [at |-> b.at, size |-> size]]
  <1>1. n \in 1 .. Len(k.buf) /\ n \in Nat /\ m \in Nat /\ m > 0
    BY LineFacts DEF Lengths
  <1>2. Base(k, S) /\ Len(k.buf) \in Nat /\ k.rb \in Int /\ k.rbSize \in Nat /\ Len(k.buf) <= k.rbSize
    BY BaseFacts DEF Memory, Base
  <1>3. LastApart(k)
    BY DEF Memory, Stage
  <1>4. w = [k EXCEPT !.buf = SubSeq(k.buf, n + 1, Len(k.buf)), !.rb = @ + n, !.rbSize = @ - n]
    BY DEF WithoutLine
  <1>5. Folded(k, m) = f
    BY DEF Folded
  <1>6. Memory(w, S) /\ w.state = k.state /\ w.rb # NoBlock
    BY LineMemory
  <1> HIDE DEF w, n
  <1>7. w.rb = k.rb + n /\ w.rbSize = k.rbSize - n /\ w.pool = k.pool
    BY <1>2, <1>4 DEF Base
  <1>8. size \in Nat /\ size > 0 /\ k.last.size <= size
    BY <1>1, <1>3 DEF LastApart
  <1> HIDE DEF size
  <1>9. /\ IsPool(b.pool) /\ k.pool.pos <= b.pool.pos
        /\ b.at # NoBlock => AtStart(b.pool, b.at, size)
        /\ \A at, s \in Nat :
             AtStart(k.pool, at, s) /\ s > 0 /\ (k.last.at = NoBlock \/ Disjoint(k.last.at, k.last.size, at, s)) =>
               AtStart(b.pool, at, s) /\ (b.at # NoBlock => Disjoint(b.at, size, at, s))
    BY <1>3, <1>8, ReallocateIsApart DEF Memory, Base, LastApart
  <1> HIDE DEF b
  <1>10. k.rbSize > 0 /\ AtStart(k.pool, k.rb, k.rbSize)
    BY <1>1, <1>2 DEF Base
  <1>11. /\ DOMAIN f = DOMAIN w /\ f.buf = w.buf /\ f.rb = w.rb /\ f.rbSize = w.rbSize /\ f.pool = b.pool /\ f.wb = w.wb
         /\ f.wbSize = w.wbSize /\ f.state = w.state /\ f.last = [at |-> b.at, size |-> size]
         /\ f.keepalive = w.keepalive
    BY <1>6 DEF Memory, Base
  <1> HIDE DEF f
  <1>12. b.at # NoBlock
    BY <1>5, <1>11
  <1>13. AtStart(b.pool, k.rb, k.rbSize) /\ Disjoint(b.at, size, k.rb, k.rbSize)
    <2>1. Disjoint(k.last.at, k.last.size, k.rb, k.rbSize) /\ k.rb \in Nat
      BY <1>3, <1>10 DEF LastApart, Disjoint, AtStart
    <2>2. QED
      BY <1>2, <1>9, <1>10, <1>12, <2>1
  <1>14. AtStart(b.pool, w.rb, w.rbSize) /\ Disjoint(w.rb, w.rbSize, b.at, size)
    <2>1. b.at \in Nat /\ b.pool.pos \in Nat
      BY <1>9, <1>12 DEF AtStart, IsPool
    <2>2. QED
      BY <1>1, <1>2, <1>7, <1>8, <1>13, <2>1, SMTT(60) DEF AtStart, Disjoint
  <1>15. Base(f, S)
    <2>1. w.wbSize = 0 \/ WriteApart(f)
      <3>1. k.pool.pos \in Nat /\ b.pool.pos \in Nat /\ w.wb \in Int /\ w.wbSize \in Nat /\ w.rb \in Int /\ w.rbSize \in Nat
        BY <1>6, <1>9, BaseFacts DEF IsPool, Memory
      <3>2. w.wbSize = 0 \/ WriteApart(w)
        BY <1>6 DEF Memory, Base
      <3>3. QED
        BY <1>7, <1>9, <1>11, <3>1, <3>2 DEF WriteApart, AtStart
    <2>2. QED
      BY <1>6, <1>9, <1>11, <1>14, <2>1 DEF Memory, Base
  <1>16. LastApart(f)
    BY <1>8, <1>9, <1>11, <1>12, <1>14 DEF LastApart, AtStart
  <1>17. Stage(f)
    BY <1>3, <1>6, <1>7, <1>11, <1>16 DEF Stage
  <1>18. QED
    BY <1>5, <1>15, <1>17 DEF Memory

(* What is taken from the end of the pool leaves its start alone.          *)
LEMMA PoolMemory ==
  ASSUME NEW w, NEW S, Memory(w, S), NEW p, IsPool(p), p.pos = w.pool.pos
  PROVE  Memory([w EXCEPT !.pool = p], S)
  <1> DEFINE a == [w EXCEPT !.pool = p]
  <1>1. /\ DOMAIN a = DOMAIN w /\ a.pool = p /\ a.rb = w.rb /\ a.rbSize = w.rbSize /\ a.buf = w.buf /\ a.wb = w.wb
        /\ a.wbSize = w.wbSize /\ a.state = w.state /\ a.last = w.last /\ a.keepalive = w.keepalive
    BY DEF Memory, Base
  <1> HIDE DEF a
  <1>2. Base(a, S)
    BY <1>1 DEF Memory, Base, AtStart, WriteApart
  <1>3. Stage(a)
    BY <1>1 DEF Memory, Stage, LastApart, AtStart
  <1>4. QED
    BY <1>2, <1>3 DEF Memory, a

(* connection_add_header: its record lies behind all buffers.              *)
LEMMA AddHeaderMemory ==
  ASSUME NEW k, NEW S, Memory(k, S), NEW w, Memory(w, S), w.pool = k.pool
  PROVE  /\ Memory([w EXCEPT !.pool = AddHeader(k).pool], S)
         /\ AddHeader(k).pool.pos = k.pool.pos
  <1> DEFINE p == AddHeader(k).pool
  <1>1. IsPool(p) /\ p.pos = k.pool.pos
    BY MCAssumption, AllocateFromEndIsApart DEF AddHeader, Memory, Base
  <1> HIDE DEF p
  <1>2. Memory([w EXCEPT !.pool = p], S)
    BY <1>1, PoolMemory
  <1>3. QED
    BY <1>1, <1>2 DEF p

(* The records of arguments or cookies lie behind all buffers too, however *)
(* many there are.                                                         *)
LEMMA RecordsFit ==
  ASSUME NEW pool, IsPool(pool), NEW n \in Nat
  PROVE  IsPool(AddHeaders(pool, n).pool) /\ AddHeaders(pool, n).pool.pos = pool.pos
  <1> DEFINE each == RoundToAlign(HeaderRecord)
             room == pool.end - pool.pos
             fit == IF Fits(pool, n * each) THEN n ELSE room \div each
             new == [pool EXCEPT !.end = @ - fit * each]
  <1>1. each \in Nat
    BY RoundFacts, MCAssumption
  <1>2. room \in Nat /\ pool.pos \in Nat /\ pool.end \in Nat /\ pool.end <= PoolSize
    BY DEF IsPool
  <1>3. AddHeaders(pool, n).pool = new
    BY DEF AddHeaders
  <1> HIDE DEF each
  <1>4. fit * each \in Nat /\ fit * each <= room
    <2>1. CASE Fits(pool, n * each)
      <3>1. n * each \in Nat
        BY <1>1
      <3>2. fit = n
        BY <2>1
      <3> HIDE DEF fit
      <3>3. QED
        BY <1>2, <2>1, <3>1, <3>2 DEF Fits
    <2>2. CASE ~Fits(pool, n * each)
      <3>1. each # 0
        BY <1>2, <2>2 DEF Fits, IsPool
      <3>2. fit = room \div each
        BY <2>2
      <3> HIDE DEF room, fit
      <3>3. room \div each \in Nat /\ (room \div each) * each <= room
        BY <1>1, <1>2, <3>1
      <3>4. (room \div each) * each \in Nat
        BY <1>1, <3>3
      <3>5. QED
        BY <3>2, <3>3, <3>4
    <2>3. QED
      BY <2>1, <2>2
  <1> DEFINE used == fit * each
  <1>5. used \in Nat /\ used <= pool.end - pool.pos
    BY <1>4
  <1>6. new = [pos |-> pool.pos, end |-> pool.end - used]
    BY DEF IsPool
  <1> HIDE DEF used
  <1>7. IsPool([pos |-> pool.pos, end |-> pool.end - used])
    <2> DEFINE left == pool.end - used
    <2>1. left \in Nat /\ pool.pos <= left /\ left <= PoolSize /\ pool.pos \in Nat
      BY <1>2, <1>5, MPAssumption
    <2> HIDE DEF left
    <2>2. IsPool([pos |-> pool.pos, end |-> left])
      BY <2>1 DEF IsPool
    <2>3. QED
      BY <2>2 DEF left
  <1> HIDE DEF new
  <1>8. QED
    BY <1>3, <1>6, <1>7

(* A connection that goes on parsing has a read buffer, or an error is on  *)
(* its way.                                                                *)
MayParse(k) == k.rb # NoBlock \/ k.keepalive = "must_close"

(* What is recorded of a request, or refused.                              *)
LEMMA RecordedMemory ==
  ASSUME NEW k, NEW S, Memory(k, S), MayParse(k), NEW n \in Nat, NEW s
  PROVE  Memory(Recorded(k, n, s), S) /\ MayParse(Recorded(k, n, s)) /\ Recorded(k, n, s).state \in {k.state} \cup Failed
  <1> DEFINE p == AddHeaders(k.pool, n).pool
             r == [k EXCEPT !.pool = p]
             t == TransmitError(r, s)
  <1>1. IsPool(p) /\ p.pos = k.pool.pos
    BY RecordsFit DEF Memory, Base
  <1>2. Recorded(k, n, s) \in {r, t}
    BY DEF Recorded
  <1> HIDE DEF p
  <1>3. Memory(r, S)
    BY <1>1, PoolMemory
  <1>4. r.rb = k.rb /\ r.keepalive = k.keepalive /\ r.state = k.state
    BY DEF Memory, Base
  <1> HIDE DEF r
  <1>5. Memory(t, S) /\ t.state \in Failed /\ t.keepalive = "must_close"
    BY <1>3, TransmitMemory DEF Memory
  <1> HIDE DEF t
  <1>6. QED
    BY <1>2, <1>3, <1>4, <1>5 DEF MayParse

(* parse_cookie_header.                                                    *)
LEMMA CookieMemory ==
  ASSUME NEW k, NEW S, Memory(k, S), MayParse(k), k.rq.cookie \in Nat, k.rq.cookies \in Nat, NEW s
  PROVE  /\ Memory(ParseCookie(k, s), S) /\ MayParse(ParseCookie(k, s))
         /\ ParseCookie(k, s).state \in {k.state} \cup Failed
  <1> DEFINE p == PoolAllocateFromEnd(k.pool, k.rq.cookie).pool
             r == [k EXCEPT !.pool = p]
             t == TransmitError(k, s)
             d == Recorded(r, k.rq.cookies, s)
  <1>1. IsPool(p) /\ p.pos = k.pool.pos
    BY AllocateFromEndIsApart DEF Memory, Base
  <1>2. ParseCookie(k, s) \in {t, d}
    BY DEF ParseCookie
  <1> HIDE DEF p
  <1>3. Memory(r, S)
    BY <1>1, PoolMemory
  <1>4. r.rb = k.rb /\ r.keepalive = k.keepalive /\ r.state = k.state
    BY DEF Memory, Base
  <1> HIDE DEF r
  <1>5. Memory(t, S) /\ t.state \in Failed /\ t.keepalive = "must_close"
    BY TransmitMemory DEF Memory
  <1>6. Memory(d, S) /\ MayParse(d) /\ d.state \in {k.state} \cup Failed
    BY <1>3, <1>4, RecordedMemory DEF MayParse
  <1> HIDE DEF t, d
  <1>7. QED
    BY <1>2, <1>5, <1>6 DEF MayParse

(* Of the same memory and in the same stage of it.                         *)
LEMMA SameMemoryKept ==
  ASSUME NEW k, NEW n, NEW S, Memory(k, S), SameMemory(k, n), n.last = k.last, n.keepalive = k.keepalive,
         n.state = k.state \/ (n.state \notin Parts /\ (MayParse(k) \/ k.state \notin {"INIT", "CLOSED", "CRASHED"}))
  PROVE  Memory(n, S)
  <1>1. Base(n, S)
    BY SameMemoryBase DEF Memory
  <1>2. n.state \in Parts => LastApart(n)
    BY DEF Memory, Stage, LastApart, SameMemory
  <1>3. Stage(n)
    BY <1>2 DEF Memory, Stage, SameMemory, MayParse
  <1>4. QED
    BY <1>1, <1>3 DEF Memory

-----------------------------------------------------------------------------
(* The values of the other fields.                                         *)
AllStates == Reading \cup
  {"FOOTERS_RECEIVED", "HEADERS_SENDING", "HEADERS_SENT", "NORMAL_BODY_READY", "CHUNKED_BODY_READY", "BODY_SENT",
   "FOOTERS_SENT", "CLOSED", "CRASHED"}

Typed(k, C) ==
  /\ {"state", "eli", "rq", "remaining", "chunk", "unsent", "left", "response", "keepalive", "continued", "context"}
       \subseteq DOMAIN k
  /\ k.state \in AllStates /\ k.eli \in {"READ", "WRITE", "BLOCK", "CLEANUP"}
  /\ k.state = "CLOSED" => k.eli = "CLEANUP"
  /\ k.response \in {NULL, "app", "error"} /\ k.keepalive \in {"unknown", "use", "must_close"}
  /\ k.context \in C /\ k.rq \in Request /\ k.remaining \in Int
  /\ k.chunk \in Nat /\ k.unsent \in Nat /\ k.left \in Nat /\ k.continued \in 0 .. ContinueLength

(* Parsing takes no more than there is from the read buffer, and no more   *)
(* than the chunk has.                                                     *)
LEMMA ToBeProcessedFacts ==
  ASSUME NEW k, NEW S, Base(k, S), NEW C, Typed(k, C)
  PROVE  /\ ToBeProcessed(k) \in 0 .. Len(k.buf)
         /\ InChunks(k) => ToBeProcessed(k) <= k.chunk
  <1>1. Len(k.buf) \in Nat /\ k.chunk \in Nat /\ k.remaining \in Int
    BY BaseFacts DEF Typed
  <1>2. CASE InChunks(k)
    <2>1. ToBeProcessed(k) = Smaller(k.chunk, Len(k.buf))
      BY <1>2 DEF ToBeProcessed
    <2>2. QED
      BY <1>1, <2>1 DEF Smaller
  <1>3. CASE ~InChunks(k) /\ k.remaining > 0
    <2>1. ToBeProcessed(k) = Smaller(k.remaining, Len(k.buf))
      BY <1>3 DEF ToBeProcessed
    <2>2. QED
      BY <1>1, <1>3, <2>1 DEF Smaller
  <1>4. CASE ~InChunks(k) /\ ~(k.remaining > 0)
    <2>1. ToBeProcessed(k) = Len(k.buf)
      BY <1>4 DEF ToBeProcessed
    <2>2. QED
      BY <1>1, <1>4, <2>1
  <1>5. QED
    BY <1>2, <1>3, <1>4

(* A buffer from which the first bytes are taken.                          *)
LEMMA TakenMemory ==
  ASSUME NEW k, NEW S, Memory(k, S), NEW n, DOMAIN n = DOMAIN k, n.pool = k.pool, n.rb = k.rb, n.rbSize = k.rbSize,
         n.wb = k.wb, n.wbSize = k.wbSize, n.last = k.last, n.state = k.state, n.keepalive = k.keepalive,
         n.buf \in Seq(S), Len(n.buf) <= Len(k.buf)
  PROVE  Memory(n, S)
  <1>1. Len(n.buf) \in Nat /\ Len(k.buf) \in Nat
    BY LenProperties DEF Memory, Base
  <1>2. Base(n, S)
    BY <1>1 DEF Memory, Base, WriteApart
  <1>3. Stage(n)
    BY DEF Memory, Stage, LastApart
  <1>4. QED
    BY <1>2, <1>3 DEF Memory

(* process_request_body.                                                   *)
LEMMA ProcessedMemory ==
  ASSUME NEW k, NEW S, Memory(k, S), NEW C, Typed(k, C)
  PROVE  Memory(Processed(k), S) /\ Typed(Processed(k), C)
  <1> DEFINE n == ToBeProcessed(k)
             buf == SubSeq(k.buf, n + 1, Len(k.buf))
             chunk == IF InChunks(k) THEN k.chunk - n ELSE k.chunk
             remaining == IF k.remaining = UNKNOWN THEN UNKNOWN ELSE k.remaining - n
             p == [k EXCEPT !.buf = buf, !.given = @ + n, !.chunk = chunk, !.remaining = remaining]
  <1>1. /\ n \in 0 .. Len(k.buf) /\ Len(k.buf) \in Nat
        /\ InChunks(k) => n <= k.chunk
    BY ToBeProcessedFacts, BaseFacts DEF Memory
  <1>2. Processed(k) = p
    BY DEF Processed, Typed
  <1> HIDE DEF n
  <1>3. buf \in Seq(S) /\ Len(buf) <= Len(k.buf)
    <2>1. \A i \in n + 1 .. Len(k.buf) : k.buf[i] \in S
      BY <1>1, ElementOfSeq DEF Memory, Base
    <2>2. buf \in Seq(S) /\ Len(buf) = IF n + 1 <= Len(k.buf) THEN Len(k.buf) - (n + 1) + 1 ELSE 0
      BY <1>1, <2>1, SubSeqProperties
    <2>3. QED
      BY <1>1, <2>2
  <1> HIDE DEF buf
  <1>4. k.chunk \in Nat /\ k.remaining \in Int /\ n \in Nat
    <2>1. n \in Nat
      BY <1>1
    <2>2. k.chunk \in Nat
      BY Zenon DEF Typed
    <2>3. k.remaining \in Int
      BY Zenon DEF Typed
    <2>4. QED
      BY <2>1, <2>2, <2>3
  <1>5. chunk \in Nat
    <2>1. CASE InChunks(k)
      <3>1. chunk = k.chunk - n
        BY <2>1
      <3>2. QED
        BY <1>1, <1>4, <2>1, <3>1
    <2>2. CASE ~InChunks(k)
      BY <1>4, <2>2
    <2>3. QED
      BY <2>1, <2>2
  <1>6. remaining \in Int
    BY <1>4 DEF UNKNOWN
  <1> HIDE DEF buf, chunk, remaining
  <1>7. Memory(p, S)
    <2>1. /\ DOMAIN p = DOMAIN k /\ p.pool = k.pool /\ p.rb = k.rb /\ p.rbSize = k.rbSize
          /\ p.wb = k.wb /\ p.wbSize = k.wbSize /\ p.last = k.last /\ p.state = k.state /\ p.keepalive = k.keepalive
          /\ p.buf = buf
      BY DEF Memory, Base
    <2> HIDE DEF p
    <2>2. QED
      BY <1>3, <2>1, TakenMemory
  <1>8. Typed(p, C)
    BY <1>5, <1>6 DEF Typed
  <1> HIDE DEF p
  <1>9. QED
    BY <1>2, <1>7, <1>8

(* The line with the size of a chunk.                                      *)
LEMMA ChunkMemory ==
  ASSUME NEW k, NEW S, \A t \in S : t.n \in Nat, Memory(k, S), NEW C, Typed(k, C), k.buf # << >>
  PROVE  Head(k.buf).kind = "chunk" => Memory(ChunkLine(k), S) /\ Typed(ChunkLine(k), C)
  <1> DEFINE t == Head(k.buf)
             buf == Tail(k.buf)
             remaining == IF t.n = 0 THEN 0 ELSE UNKNOWN
             c == [k EXCEPT !.buf = buf, !.chunk = t.n, !.remaining = remaining]
  <1>1. t \in S /\ buf \in Seq(S) /\ Len(buf) = Len(k.buf) - 1 /\ Len(k.buf) \in Nat
    BY HeadTailProperties, LenProperties DEF Memory, Base
  <1>2. t.kind = "chunk" => ChunkLine(k) = c
    BY DEF ChunkLine
  <1>3. t.n \in Nat /\ remaining \in Int
    BY <1>1 DEF UNKNOWN
  <1> HIDE DEF t, buf, remaining
  <1>4. Memory(c, S)
    <2>1. /\ DOMAIN c = DOMAIN k /\ c.pool = k.pool /\ c.rb = k.rb /\ c.rbSize = k.rbSize
          /\ c.wb = k.wb /\ c.wbSize = k.wbSize /\ c.last = k.last /\ c.state = k.state /\ c.keepalive = k.keepalive
          /\ c.buf = buf
      BY DEF Memory, Base
    <2>2. Len(buf) <= Len(k.buf)
      BY <1>1
    <2> HIDE DEF c
    <2>3. QED
      BY <1>1, <2>1, <2>2, TakenMemory
  <1>5. Typed(c, C)
    BY <1>3 DEF Typed
  <1> HIDE DEF c
  <1>6. QED
    BY <1>2, <1>4, <1>5 DEF t

(* MHD_connection_handle_read: no more is received than fits.              *)
LEMMA ReadMemory ==
  ASSUME NEW k, NEW S, Memory(k, S)
  PROVE  Memory(ReadyToRead(k), S) /\ ReadyToRead(k).state = k.state
  BY GrownMemory DEF ReadyToRead

(* What was received is appended to what the read buffer holds.            *)
LEMMA ReceivedMemory ==
  ASSUME NEW k, NEW S, Memory(k, S), NEW bytes \in Seq(S), Len(k.buf) + Len(bytes) <= k.rbSize
  PROVE  Memory(Received(k, bytes), S)
  <1> DEFINE r == [k EXCEPT !.buf = @ \o bytes]
             z == [k EXCEPT !.readClosed = TRUE]
  <1>1. k.buf \o bytes \in Seq(S) /\ Len(k.buf \o bytes) = Len(k.buf) + Len(bytes)
    BY ConcatProperties DEF Memory, Base
  <1>2. /\ DOMAIN r = DOMAIN k /\ r.pool = k.pool /\ r.rb = k.rb /\ r.rbSize = k.rbSize /\ r.buf = k.buf \o bytes
        /\ r.wb = k.wb /\ r.wbSize = k.wbSize /\ r.last = k.last /\ r.state = k.state /\ r.keepalive = k.keepalive
    BY DEF Memory, Base
  <1>3. SameMemory(k, z)
    BY DEF SameMemory, Memory, Base
  <1>4. Received(k, bytes) = IF bytes = << >> THEN Close(z) ELSE IF k.readClosed THEN Close(r) ELSE r
    BY DEF Received
  <1> HIDE DEF r, z
  <1>5. Base(r, S) /\ Base(z, S)
    BY <1>1, <1>2, <1>3, SameMemoryBase DEF Memory, Base, WriteApart
  <1>6. Memory(r, S)
    BY <1>2, <1>5 DEF Memory, Stage, LastApart
  <1>7. Memory(Close(r), S) /\ Memory(Close(z), S)
    BY <1>5, CloseMemory
  <1>8. QED
    BY <1>4, <1>6, <1>7

(* check_write_done: shrinking the write buffer to nothing leaves what is  *)
(* before it alone.                                                        *)
LEMMA WriteDoneMemory ==
  ASSUME NEW k, NEW S, Base(k, S), k.state \notin {"INIT", "CLOSED", "CRASHED"}, Memory(k, S)
  PROVE  Memory(CheckWriteDone(k), S)
  <1> DEFINE b == PoolReallocate(k.pool, k.wb, k.wbSize, 0)
             w == [k EXCEPT !.state = "HEADERS_SENT", !.pool = b.pool, !.wb = NoBlock, !.wbSize = 0]
  <1>1. CheckWriteDone(k) = IF k.unsent # 0 THEN k ELSE w
    BY DEF CheckWriteDone
  <1>2. IsPool(b.pool)
    <2>1. CASE k.wbSize = 0
      <3>1. k.pool.pos \in Nat /\ k.wb \in Int /\ [k.pool EXCEPT !.pos = @ + 0 - 0] = k.pool
        BY DEF Base, IsPool
      <3>2. b.pool = k.pool
        BY <2>1, <3>1, RoundZero DEF PoolReallocate, ResizeLast, Block
      <3>3. QED
        BY <3>2 DEF Base
    <2>2. CASE k.wbSize # 0
      BY <2>2, ReallocateIsApart DEF Base, WriteApart
    <2>3. QED
      BY <2>1, <2>2
  <1>3. k.rb + k.rbSize <= b.pool.pos
    <2>1. /\ k.pool = [pos |-> k.pool.pos, end |-> k.pool.end] /\ k.pool.pos \in Nat /\ k.wbSize \in Nat /\ k.wb \in Int
          /\ k.rb + k.rbSize <= k.pool.pos /\ k.rb \in Int /\ k.rbSize \in Nat
      BY BaseFacts DEF Base, IsPool
    <2>2. RoundToAlign(0) = 0
      BY RoundZero
    <2>3. PoolAllocate(k.pool, 0).pool.pos = k.pool.pos
      <3>1. [k.pool EXCEPT !.pos = @ + 0].pos = k.pool.pos
        BY <2>1
      <3>2. QED
        BY <2>2, <3>1 DEF PoolAllocate, Block
    <2>4. CASE IsLast(k.pool, k.wb, k.wbSize)
      <3>1. k.pool.pos = k.wb + k.wbSize /\ k.wb \in Nat
        BY <2>1, <2>4 DEF IsLast
      <3>2. k.rb + k.rbSize <= k.wb
        <4>1. CASE k.wbSize = 0
          BY <2>1, <3>1, <4>1
        <4>2. CASE k.wbSize # 0
          BY <3>1, <4>2 DEF Base, WriteApart
        <4>3. QED
          BY <4>1, <4>2
      <3>3. [k.pool EXCEPT !.pos = @ + 0 - k.wbSize].pos = k.wb
        BY <2>1, <3>1
      <3>4. b.pool.pos \in {k.pool.pos, k.wb}
        BY <2>2, <2>4, <3>3 DEF PoolReallocate, ResizeLast, Block
      <3>5. QED
        BY <2>1, <3>2, <3>4
    <2>5. CASE ~IsLast(k.pool, k.wb, k.wbSize)
      <3>1. b.pool.pos = k.pool.pos
        BY <2>2, <2>3, <2>5 DEF PoolReallocate, Block
      <3>2. QED
        BY <2>1, <3>1
    <2>6. QED
      BY <2>4, <2>5
  <1> HIDE DEF b
  <1>4. /\ DOMAIN w = DOMAIN k /\ w.pool = b.pool /\ w.rb = k.rb /\ w.rbSize = k.rbSize /\ w.buf = k.buf
        /\ w.wb = NoBlock /\ w.wbSize = 0 /\ w.state = "HEADERS_SENT" /\ w.keepalive = k.keepalive
    BY DEF Base
  <1> HIDE DEF w
  <1>5. Base(w, S)
    BY <1>2, <1>3, <1>4 DEF Base, AtStart, NoBlock
  <1>6. Stage(w)
    BY <1>4 DEF Memory, Stage, Parts
  <1>7. QED
    BY <1>1, <1>5, <1>6 DEF Memory

(* MHD_connection_handle_write.                                            *)
LEMMA WriteMemory ==
  ASSUME NEW k, NEW S, Memory(k, S), NEW n
  PROVE  Memory(HandleWrite(k, n), S)
  <1> DEFINE u == [k EXCEPT !.unsent = @ - n]
             c == [k EXCEPT !.continued = @ + n]
             b == [k EXCEPT !.left = @ - n, !.state = IF k.left = n THEN "FOOTERS_SENT" ELSE @]
  <1>1. SameMemory(k, c) /\ c.last = k.last /\ c.keepalive = k.keepalive /\ c.state = k.state
    BY DEF SameMemory, Memory, Base
  <1>2. SameMemory(k, u) /\ u.last = k.last /\ u.keepalive = k.keepalive /\ u.state = k.state
    BY DEF SameMemory, Memory, Base
  <1>3. SameMemory(k, b) /\ b.last = k.last /\ b.keepalive = k.keepalive /\ b.state \in {k.state, "FOOTERS_SENT"}
    BY DEF SameMemory, Memory, Base
  <1>4. HandleWrite(k, n) = CASE k.state = "CONTINUE_SENDING" -> c
                              [] k.state = "HEADERS_SENDING" -> CheckWriteDone(u)
                              [] k.state = "NORMAL_BODY_READY" -> b
                              [] OTHER -> k
    BY DEF HandleWrite
  <1> HIDE DEF u, c, b
  <1>5. Memory(c, S) /\ Memory(u, S)
    BY <1>1, <1>2, SameMemoryKept
  <1>6. CASE k.state = "CONTINUE_SENDING"
    BY <1>4, <1>5, <1>6
  <1>7. CASE k.state = "HEADERS_SENDING"
    <2>1. Memory(CheckWriteDone(u), S)
      BY <1>2, <1>5, <1>7, WriteDoneMemory DEF Memory
    <2>2. QED
      BY <1>4, <1>7, <2>1
  <1>8. CASE k.state = "NORMAL_BODY_READY"
    <2>1. Memory(b, S)
      BY <1>3, <1>8, SameMemoryKept DEF Parts, Reading
    <2>2. QED
      BY <1>4, <1>8, <2>1
  <1>9. CASE k.state \notin {"CONTINUE_SENDING", "HEADERS_SENDING", "NORMAL_BODY_READY"}
    BY <1>4, <1>9
  <1>10. QED
    BY <1>6, <1>7, <1>8, <1>9

(* The next request starts with a read buffer of half the pool, if what is *)
(* left of the old one fits it.                                            *)
LEMMA NextMemory ==
  ASSUME NEW k, NEW S, Memory(k, S), k.state = "FOOTERS_SENT",
         k.keepalive = "use" => Len(k.buf) <= PoolSize \div 2
  PROVE  Memory(NextRequest(k), S)
  <1> DEFINE d == DestroyResponse(k)
             half == PoolSize \div 2
             b == PoolReset(k.pool, k.rb, half)
             x == Close(d)
             c == [x EXCEPT !.rb = NoBlock, !.rbSize = 0, !.buf = << >>]
             i == [d EXCEPT !.state = "INIT", !.keepalive = "unknown", !.rq = NoRequest,
                          !.last = NewConnection.last, !.pool = b.pool, !.rb = b.at, !.rbSize = half]
             Again(m) == [m EXCEPT !.context = NULL, !.given = 0, !.continued = 0, !.chunked = FALSE, !.chunk = 0,
                !.left = 0, !.wb = NoBlock, !.wbSize = 0, !.unsent = 0, !.told = @ + 1]
  <1>1. NextRequest(k) = Again(IF k.keepalive # "use" \/ k.readClosed THEN c ELSE i)
    BY DEF NextRequest
  <1>2. Base(d, S) /\ d.buf = k.buf
    BY DestroyMemory, SameMemoryBase DEF SameMemory, Memory
  <1>3. Base(x, S) /\ x.state = "CLOSED"
    BY <1>2, CloseMemory DEF Memory
  <1>4. half \in Nat /\ RoundToAlign(half) <= PoolSize
    <2>1. half \in Nat /\ half + half <= PoolSize /\ PoolSize \in Nat /\ Align \in Nat /\ Align <= half
      BY MPAssumption, MCAssumption
    <2>2. RoundToAlign(half) \in Nat /\ RoundToAlign(half) < half + Align
      BY <2>1, RoundFacts
    <2>3. QED
      BY <2>1, <2>2
  <1> HIDE DEF half, d, x
  <1>5. Memory(Again(c), S)
    <2>1. /\ DOMAIN c = DOMAIN x /\ c.pool = x.pool /\ c.rb = NoBlock /\ c.rbSize = 0 /\ c.buf = << >>
          /\ c.state = "CLOSED"
      BY <1>3 DEF Base
    <2> HIDE DEF c
    <2> DEFINE e == Again(c)
    <2>2. /\ DOMAIN e = DOMAIN c /\ e.pool = c.pool /\ e.rb = c.rb /\ e.rbSize = c.rbSize /\ e.buf = c.buf
          /\ e.state = c.state /\ e.wb = NoBlock /\ e.wbSize = 0
      BY <1>3, <2>1 DEF Base
    <2> HIDE DEF e
    <2>3. << >> \in Seq(S) /\ Len(<< >>) = 0
      BY EmptySeq
    <2>4. Base(e, S)
      BY <1>3, <2>1, <2>2, <2>3 DEF Base, NoBlock
    <2>5. Stage(e)
      BY <2>1, <2>2 DEF Stage, Parts, Reading
    <2>6. QED
      BY <2>4, <2>5 DEF Memory, e
  <1>6. k.keepalive = "use" => Memory(Again(i), S)
    <2> SUFFICES ASSUME k.keepalive = "use" PROVE Memory(Again(i), S)
      OBVIOUS
    <2>1. k.rb \in Nat
      BY DEF Memory, Base, Stage, AtStart
    <2>2. IsPool(b.pool) /\ AtStart(b.pool, b.at, half)
      BY <1>4, <2>1, ResetKeepsBlock DEF Memory, Base
    <2> HIDE DEF b
    <2>3. /\ DOMAIN i = DOMAIN d /\ i.pool = b.pool /\ i.rb = b.at /\ i.rbSize = half /\ i.buf = k.buf
          /\ i.state = "INIT"
      BY <1>2 DEF Base
    <2> HIDE DEF i
    <2> DEFINE e == Again(i)
    <2>4. /\ DOMAIN e = DOMAIN i /\ e.pool = i.pool /\ e.rb = i.rb /\ e.rbSize = i.rbSize /\ e.buf = i.buf
          /\ e.state = i.state /\ e.wb = NoBlock /\ e.wbSize = 0
      BY <1>2, <2>3 DEF Base
    <2> HIDE DEF e
    <2>5. Base(e, S)
      BY <1>2, <1>4, <2>2, <2>3, <2>4 DEF Base, half, NoBlock
    <2>6. Stage(e)
      BY <2>2, <2>3, <2>4 DEF Stage, Parts
    <2>7. QED
      BY <2>5, <2>6 DEF Memory, e
  <1> HIDE DEF c, i, Again
  <1>7. QED
    BY <1>1, <1>5, <1>6

-----------------------------------------------------------------------------
(* Both: every helper keeps the buffers apart and the values in their sets. *)
Sound(k, S, C) == Memory(k, S) /\ Typed(k, C)

(* The helpers that leave those fields alone.                              *)
SameValues(k, n) ==
  /\ DOMAIN n = DOMAIN k /\ n.state = k.state /\ n.eli = k.eli /\ n.rq = k.rq /\ n.remaining = k.remaining
  /\ n.chunk = k.chunk /\ n.unsent = k.unsent /\ n.left = k.left /\ n.response = k.response
  /\ n.keepalive = k.keepalive /\ n.continued = k.continued /\ n.context = k.context

(* The same values are in the same sets.                                   *)
LEMMA SameValuesTyped == ASSUME NEW k, NEW n, NEW C, Typed(k, C), SameValues(k, n) PROVE Typed(n, C)
  BY DEF Typed, SameValues

(* A typed connection in another state.                                    *)
LEMMA TypedAtState ==
  ASSUME NEW k, NEW C, Typed(k, C), NEW state \in AllStates, state # "CLOSED"
  PROVE  Typed([k EXCEPT !.state = state], C) /\ [k EXCEPT !.state = state].state = state
  BY DEF Typed

(* MHD_destroy_response and MHD_connection_close_.                         *)
LEMMA DestroyTyped ==
  ASSUME NEW k, NEW C, Typed(k, C)
  PROVE  Typed(DestroyResponse(k), C) /\ DestroyResponse(k).response = NULL /\ DestroyResponse(k).state = k.state
  BY DEF Typed, DestroyResponse

(* A closed connection is to be cleaned up.                                *)
LEMMA CloseTyped == ASSUME NEW k, NEW C, Typed(k, C) PROVE Typed(Close(k), C)
  <1> DEFINE d == DestroyResponse(k)
  <1>1. Typed(d, C)
    BY DestroyTyped
  <1>2. Close(k) = [d EXCEPT !.state = "CLOSED", !.eli = "CLEANUP", !.shutWr = TRUE]
    BY DEF Close
  <1> HIDE DEF d
  <1> DEFINE c == [d EXCEPT !.state = "CLOSED", !.eli = "CLEANUP", !.shutWr = TRUE]
  <1>3. /\ DOMAIN c = DOMAIN d /\ c.state = "CLOSED" /\ c.eli = "CLEANUP" /\ c.rq = d.rq /\ c.remaining = d.remaining
        /\ c.chunk = d.chunk /\ c.unsent = d.unsent /\ c.left = d.left /\ c.response = d.response
        /\ c.keepalive = d.keepalive /\ c.continued = d.continued /\ c.context = d.context
    BY <1>1 DEF Typed
  <1>4. "CLOSED" \in AllStates
    BY DEF AllStates
  <1>5. Close(k) = c
    BY <1>2
  <1> HIDE DEF c
  <1>6. QED
    BY <1>1, <1>3, <1>4, <1>5 DEF Typed

(* try_grow_read_buffer.                                                   *)
LEMMA GrownTyped == ASSUME NEW k, NEW C, Typed(k, C) PROVE Typed(Grown(k), C) /\ SameValues(k, Grown(k))
  <1>1. \A a, b, c : SameValues(k, [k EXCEPT !.pool = a, !.rb = b, !.rbSize = c])
    BY ZenonT(60) DEF Typed, SameValues
  <1>2. SameValues(k, Grown(k))
    BY <1>1 DEF Grown, SameValues
  <1>3. QED
    BY <1>2, SameValuesTyped

(* build_header_response.                                                  *)
LEMMA BuildHeaderTyped ==
  ASSUME NEW k, NEW C, Typed(k, C)
  PROVE  Typed(BuildHeader(k), C)
  <1> DEFINE final == k.state = "FOOTERS_RECEIVED"
             size == IF k.rq.version = "none" THEN 0 ELSE IF final THEN ReplyHeader ELSE 1
             b == IF k.rq.version = "none" THEN PoolAllocateFromEnd(k.pool, 0) ELSE PoolAllocate(k.pool, size + 1)
             wbSize == IF k.rq.version = "none" \/ b.at = NoBlock THEN 0 ELSE size + 1
             unsent == IF b.at = NoBlock THEN 0 ELSE size
             h == [k EXCEPT !.pool = b.pool, !.wb = b.at, !.wbSize = wbSize, !.unsent = unsent]
             f == [h EXCEPT !.keepalive = KeepaliveOf(k), !.chunked = FALSE]
  <1>1. BuildHeader(k) = IF final /\ k.rq.version # "none" THEN f ELSE h
    BY DEF BuildHeader
  <1>2. size \in Nat
    BY MCAssumption
  <1>3. unsent \in Nat
    <2> HIDE DEF size, b
    <2>1. QED
      BY <1>2
  <1>4. KeepaliveOf(k) \in {"unknown", "use", "must_close"}
    BY DEF KeepaliveOf, Typed
  <1> HIDE DEF b, size, final, unsent, wbSize
  <1>5. Typed(h, C)
    BY <1>3 DEF Typed
  <1> HIDE DEF h
  <1>6. Typed(f, C)
    BY <1>4, <1>5 DEF Typed
  <1> HIDE DEF f
  <1>7. QED
    BY <1>1, <1>5, <1>6

(* MHD_queue_response.                                                     *)
LEMMA QueueTyped ==
  ASSUME NEW k, NEW C, Typed(k, C), NEW r \in {"app", "error"}, NEW size \in Nat, NEW shut
  PROVE  Typed(QueueResponse(k, r, size, shut), C)
  <1> DEFINE q == [k EXCEPT !.response = r, !.refs = @ + 1, !.left = size]
  <1>1. Typed(q, C)
    BY DEF Typed
  <1>2. Typed([q EXCEPT !.readClosed = TRUE, !.state = "FOOTERS_RECEIVED"], C)
    <2> HIDE DEF q
    <2>1. QED
      BY <1>1 DEF Typed, AllStates
  <1>3. QED
    BY <1>1, <1>2 DEF QueueResponse

(* transmit_error_response.                                                *)
LEMMA TransmitTyped ==
  ASSUME NEW k, NEW C, Typed(k, C), NEW shut
  PROVE  Typed(TransmitError(k, shut), C)
  <1> DEFINE d == DestroyResponse(k)
             e == [d EXCEPT !.state = "FOOTERS_RECEIVED", !.readClosed = TRUE]
             p == QueueResponse(e, "error", ErrorBody, shut)
             q == [p EXCEPT !.keepalive = "must_close"]
             h == BuildHeader(q)
             c == [q EXCEPT !.state = "CRASHED"]
             w == [h EXCEPT !.state = "HEADERS_SENDING"]
  <1>1. Typed(d, C)
    BY DestroyTyped
  <1>2. TransmitError(k, shut) = IF q.response = NULL /\ q.rq.version # "none" THEN c ELSE IF Built(q) THEN w ELSE Close(h)
    BY DEF TransmitError
  <1> HIDE DEF d
  <1>3. Typed(e, C)
    BY <1>1 DEF Typed, AllStates
  <1> HIDE DEF e
  <1>4. Typed(p, C)
    BY <1>3, QueueTyped DEF ErrorBody
  <1> HIDE DEF p
  <1>5. Typed(q, C)
    BY <1>4 DEF Typed
  <1> HIDE DEF q
  <1>6. Typed(h, C)
    BY <1>5, BuildHeaderTyped
  <1> HIDE DEF h
  <1>7. Typed(c, C) /\ Typed(w, C)
    BY <1>5, <1>6, TypedAtState DEF AllStates
  <1>8. Typed(Close(h), C)
    BY <1>6, CloseTyped
  <1> HIDE DEF c, w
  <1>9. QED
    BY <1>2, <1>7, <1>8

(* MHD_connection_update_event_loop_info.                                  *)
LEMMA SettleTyped ==
  ASSUME NEW k, NEW C, Typed(k, C), NEW shut
  PROVE  Typed(Settled(k, shut), C) /\ Settled(k, shut).state = Settle(k, shut).state
         /\ Settled(k, shut).eli = Eli(Settle(k, shut))
  <1> DEFINE n == Settle(k, shut)
  <1>1. Typed(n, C)
    BY GrownTyped, TransmitTyped, CloseTyped DEF Settle
  <1>2. Settled(k, shut) = [n EXCEPT !.eli = Eli(n)]
    BY DEF Settled
  <1> HIDE DEF n
  <1>3. Eli(n) \in {"READ", "WRITE", "BLOCK", "CLEANUP"} /\ (n.state = "CLOSED" => Eli(n) = "CLEANUP")
    BY DEF Eli
  <1>4. Typed([n EXCEPT !.eli = Eli(n)], C) /\ [n EXCEPT !.eli = Eli(n)].state = n.state
        /\ [n EXCEPT !.eli = Eli(n)].eli = Eli(n)
    BY <1>1, <1>3 DEF Typed
  <1>5. QED
    BY <1>2, <1>4 DEF n

(* get_next_header_line and process_broken_line.                           *)
LEMMA LineTyped ==
  ASSUME NEW k, NEW C, Typed(k, C)
  PROVE  Typed(WithoutLine(k), C) /\ (\A m : Typed(Folded(k, m), C)) /\ WithoutLine(k).state = k.state
  <1>1. SameValues(k, WithoutLine(k))
    BY DEF Typed, SameValues, WithoutLine
  <1>2. \A a, b : SameValues(k, [WithoutLine(k) EXCEPT !.pool = a, !.last = b])
    BY <1>1 DEF Typed, SameValues
  <1>3. \A m : SameValues(k, Folded(k, m))
    BY <1>2 DEF Folded
  <1>4. QED
    BY <1>1, <1>3, SameValuesTyped DEF SameValues

(* What is recorded of a request, or refused.                              *)
LEMMA RecordedTyped ==
  ASSUME NEW k, NEW C, Typed(k, C), NEW p, NEW n, NEW s
  PROVE  Typed(Recorded([k EXCEPT !.pool = p], n, s), C) /\ [k EXCEPT !.pool = p].rq = k.rq
  <1> DEFINE r == [k EXCEPT !.pool = p]
             q == [r EXCEPT !.pool = AddHeaders(r.pool, n).pool]
  <1>1. SameValues(k, r)
    BY DEF Typed, SameValues
  <1> HIDE DEF r
  <1>2. SameValues(k, q)
    BY <1>1 DEF Typed, SameValues
  <1>3. Recorded(r, n, s) = IF AddHeaders(r.pool, n).all THEN q ELSE TransmitError(q, s)
    BY DEF Recorded
  <1> HIDE DEF q
  <1>4. Typed(q, C) /\ Typed(TransmitError(q, s), C)
    BY <1>2, SameValuesTyped, TransmitTyped
  <1>5. QED
    BY <1>1, <1>3, <1>4 DEF SameValues, r

(* parse_cookie_header.                                                    *)
LEMMA CookieTyped == ASSUME NEW k, NEW C, Typed(k, C), NEW s PROVE Typed(ParseCookie(k, s), C)
  BY RecordedTyped, TransmitTyped DEF ParseCookie

(* parse_connection_headers: the length of a body is a number or unknown.  *)
LEMMA ParseSound ==
  ASSUME NEW k, NEW S, NEW C, Sound(k, S, C), MayParse(k), NEW s
  PROVE  /\ Sound(ParseHeaders(k, s), S, C) /\ MayParse(ParseHeaders(k, s))
         /\ ParseHeaders(k, s).state \in {k.state} \cup Failed
  <1> DEFINE c == ParseCookie(k, s)
             invalid == k.rq.encoding = "none" /\ k.rq.length < 0
             remaining == IF k.rq.encoding # "none" THEN UNKNOWN ELSE k.rq.length
             chunked == (k.rq.encoding = "chunked")
             z == [c EXCEPT !.remaining = 0]
             p == [c EXCEPT !.remaining = remaining, !.chunked = chunked]
  <1>1. ParseHeaders(k, s) = IF c.state = "CRASHED" THEN c ELSE IF invalid THEN Close(z) ELSE p
    BY DEF ParseHeaders
  <1>2. k.rq.cookie \in Nat /\ k.rq.cookies \in Nat /\ k.rq.length \in Int
    BY DEF Sound, Typed, Request
  <1>3. remaining \in Int
    BY <1>2 DEF UNKNOWN
  <1>4. Memory(c, S) /\ MayParse(c) /\ c.state \in {k.state} \cup Failed /\ Typed(c, C)
    BY <1>2, CookieMemory, CookieTyped DEF Sound
  <1> HIDE DEF c, invalid, remaining, chunked
  <1>5. Typed(z, C)
    <2>1. \A m \in Int : Typed([c EXCEPT !.remaining = m], C)
      BY <1>4 DEF Typed
    <2>2. QED
      BY <2>1
  <1>6. Typed(p, C)
    BY <1>3, <1>4 DEF Typed
  <1>7. /\ SameMemory(c, z) /\ z.last = c.last /\ z.keepalive = c.keepalive /\ z.state = c.state
        /\ SameMemory(c, p) /\ p.last = c.last /\ p.keepalive = c.keepalive /\ p.state = c.state
    BY <1>4 DEF Memory, Base, SameMemory
  <1> HIDE DEF z, p
  <1>8. Sound(p, S, C) /\ MayParse(p)
    BY <1>4, <1>6, <1>7, SameMemoryKept DEF Sound, MayParse, SameMemory
  <1>9. Base(z, S)
    BY <1>4, <1>7, SameMemoryBase DEF Memory
  <1>10. Sound(Close(z), S, C) /\ Close(z).state = "CLOSED"
    BY <1>5, <1>9, CloseMemory, CloseTyped DEF Sound
  <1>11. MayParse(Close(z))
    <2>1. Close(z).keepalive = z.keepalive
      BY <1>9, CloseMemory
    <2>2. Close(z).rb = z.rb
      BY <1>9 DEF Close, DestroyResponse, Base
    <2>3. QED
      BY <1>4, <1>7, <2>1, <2>2 DEF MayParse, SameMemory
  <1>12. QED
    BY <1>1, <1>4, <1>7, <1>8, <1>10, <1>11 DEF Sound, Failed

(* A step to another state with the memory as it is.                       *)
LEMMA SoundAtState ==
  ASSUME NEW k, NEW S, NEW C, Sound(k, S, C), NEW state \in AllStates \ Parts, state # "CLOSED",
         MayParse(k) \/ k.state \notin {"INIT", "CLOSED", "CRASHED"}
  PROVE  Sound([k EXCEPT !.state = state], S, C) /\ [k EXCEPT !.state = state].state = state
  <1> DEFINE n == [k EXCEPT !.state = state]
  <1>1. Typed(n, C) /\ n.state = state
    BY TypedAtState DEF Sound
  <1>2. SameMemory(k, n) /\ n.last = k.last /\ n.keepalive = k.keepalive
    BY DEF Sound, Memory, Base, SameMemory
  <1> HIDE DEF n
  <1>3. Memory(n, S)
    BY <1>1, <1>2, SameMemoryKept DEF Sound
  <1>4. QED
    BY <1>1, <1>3 DEF Sound, n

(* MHD_connection_close_.                                                  *)
LEMMA CloseSound ==
  ASSUME NEW k, NEW S, NEW C, Base(k, S), Typed(k, C)
  PROVE  Sound(Close(k), S, C) /\ Close(k).state = "CLOSED" /\ Close(k).pool = k.pool
  BY CloseMemory, CloseTyped DEF Sound

(* What the state machine does after the first call.                       *)
LEMMA AfterFirstCallSound ==
  ASSUME NEW k, NEW S, NEW C, Sound(k, S, C), k.state \in {"HEADERS_PROCESSED", "FOOTERS_RECEIVED"}
  PROVE  Sound(AfterFirstCall(k), S, C)
  <1> DEFINE u == [k EXCEPT !.remaining = 0, !.readClosed = TRUE]
             r == IF k.response # NULL /\ IsUpload(k) THEN u ELSE k
             state == IF r.remaining = 0 THEN "FOOTERS_RECEIVED" ELSE "CONTINUE_SENT"
  <1>1. AfterFirstCall(k) = [r EXCEPT !.state = state]
    BY DEF AfterFirstCall
  <1>2. SameMemory(k, u) /\ u.last = k.last /\ u.keepalive = k.keepalive /\ u.state = k.state
    BY DEF Sound, Memory, Base, SameMemory
  <1>3. Typed(u, C)
    <2>1. ASSUME NEW m \in Int
          PROVE  Typed([k EXCEPT !.remaining = m, !.readClosed = TRUE], C)
      BY DEF Sound, Typed
    <2>2. 0 \in Int
      OBVIOUS
    <2>3. Typed([k EXCEPT !.remaining = 0, !.readClosed = TRUE], C)
      BY <2>1, <2>2
    <2>4. QED
      BY <2>3
  <1> HIDE DEF u
  <1>4. Memory(u, S)
    BY <1>2, SameMemoryKept DEF Sound
  <1>5. Sound(r, S, C) /\ r.state = k.state
    BY <1>2, <1>3, <1>4 DEF Sound
  <1>6. state \in {"FOOTERS_RECEIVED", "CONTINUE_SENT"}
    OBVIOUS
  <1> HIDE DEF r, state
  <1>7. state \in AllStates \ Parts /\ state # "CLOSED"
    BY <1>6 DEF AllStates, Parts, Reading
  <1>8. QED
    BY <1>1, <1>5, <1>7, SoundAtState

(* MHD_connection_handle_read.                                             *)
LEMMA ReadSound ==
  ASSUME NEW k, NEW S, NEW C, Sound(k, S, C)
  PROVE  Sound(ReadyToRead(k), S, C)
  BY ReadMemory, GrownTyped DEF ReadyToRead, Sound

(* What was received is appended, or the end of the stream is noted.       *)
LEMMA ReceivedSound ==
  ASSUME NEW k, NEW S, NEW C, Sound(k, S, C), NEW bytes \in Seq(S), Len(k.buf) + Len(bytes) <= k.rbSize
  PROVE  Sound(Received(k, bytes), S, C)
  <1> DEFINE r == [k EXCEPT !.buf = @ \o bytes]
             z == [k EXCEPT !.readClosed = TRUE]
  <1>1. Typed(r, C) /\ Typed(z, C)
    BY DEF Sound, Typed
  <1>2. Received(k, bytes) = IF bytes = << >> THEN Close(z) ELSE IF k.readClosed THEN Close(r) ELSE r
    BY DEF Received
  <1> HIDE DEF r, z
  <1>3. Typed(Received(k, bytes), C)
    BY <1>1, <1>2, CloseTyped
  <1>4. Memory(Received(k, bytes), S)
    BY ReceivedMemory DEF Sound
  <1>5. QED
    BY <1>3, <1>4 DEF Sound

(* MHD_connection_handle_write: no more is sent than there is.             *)
LEMMA WriteSound ==
  ASSUME NEW k, NEW S, NEW C, Sound(k, S, C), NEW n \in Sendable(k)
  PROVE  Sound(HandleWrite(k, n), S, C)
  <1> DEFINE c == [k EXCEPT !.continued = @ + n]
             u == [k EXCEPT !.unsent = @ - n]
             w == [u EXCEPT !.state = "HEADERS_SENT", !.pool = PoolReallocate(u.pool, u.wb, u.wbSize, 0).pool,
                            !.wb = NoBlock, !.wbSize = 0]
             b == [k EXCEPT !.left = @ - n, !.state = IF k.left = n THEN "FOOTERS_SENT" ELSE @]
  <1>1. k.unsent \in Nat /\ k.left \in Nat /\ k.continued \in 0 .. ContinueLength /\ ContinueLength \in Nat
    BY MCAssumption DEF Sound, Typed
  <1>3. CASE k.state = "HEADERS_SENDING"
    <2>1. k.unsent - n \in Nat
      BY <1>1, <1>3 DEF Sendable
    <2>2. Typed(u, C)
      BY <2>1 DEF Sound, Typed
    <2> HIDE DEF u
    <2>3. Typed(w, C)
      BY <2>2 DEF Typed, AllStates
    <2>4. HandleWrite(k, n) = IF u.unsent # 0 THEN u ELSE w
      BY <1>3 DEF HandleWrite, CheckWriteDone, u
    <2> HIDE DEF w
    <2>5. Typed(HandleWrite(k, n), C)
      BY <2>2, <2>3, <2>4
    <2>6. QED
      BY <2>5, WriteMemory DEF Sound
  <1>4. CASE k.state = "NORMAL_BODY_READY"
    <2>1. k.left - n \in Nat
      BY <1>1, <1>4 DEF Sendable
    <2> DEFINE state == IF k.left = n THEN "FOOTERS_SENT" ELSE k.state
    <2>2. state \in AllStates /\ state # "CLOSED" /\ b = [k EXCEPT !.left = @ - n, !.state = state]
      BY <1>4 DEF AllStates, Sound, Typed
    <2> HIDE DEF state
    <2>3. Typed([k EXCEPT !.left = @ - n, !.state = state], C)
      BY <2>1, <2>2 DEF Sound, Typed
    <2>4. HandleWrite(k, n) = b
      BY <1>4 DEF HandleWrite
    <2>5. QED
      BY <2>2, <2>3, <2>4, WriteMemory DEF Sound
  <1>5. CASE k.state = "CONTINUE_SENDING"
    <2>1. HandleWrite(k, n) = c
      BY <1>5 DEF HandleWrite
    <2>2. k.continued + n \in 0 .. ContinueLength
      BY <1>1, <1>5 DEF Sendable
    <2>3. Typed(c, C)
      BY <2>2 DEF Sound, Typed
    <2>4. QED
      BY <2>1, <2>3, WriteMemory DEF Sound
  <1>6. CASE k.state \notin {"CONTINUE_SENDING", "HEADERS_SENDING", "NORMAL_BODY_READY"}
    <2>1. HandleWrite(k, n) = k
      BY <1>6 DEF HandleWrite
    <2>2. QED
      BY <2>1
  <1>7. QED
    BY <1>3, <1>4, <1>5, <1>6

(* The state machine at FOOTERS_SENT, and a new connection.                *)
LEMMA EmptyRequest == NoRequest \in Request
  <1>1. << >> \in Seq(Kinds) /\ << >> \in Seq([kind : Kinds, n : Nat])
    BY EmptySeq
  <1>2. 0 \in Int /\ 0 \in Nat
    OBVIOUS
  <1>3. QED
    BY <1>1, <1>2, Zenon DEF NoRequest, Request

(* The next request of a connection begins with empty fields.              *)
LEMMA NextTyped ==
  ASSUME NEW k, NEW C, Typed(k, C), NULL \in C
  PROVE  Typed(NextRequest(k), C)
  <1> DEFINE d == DestroyResponse(k)
             b == PoolReset(k.pool, k.rb, PoolSize \div 2)
             x == Close(d)
             c == [x EXCEPT !.rb = NoBlock, !.rbSize = 0, !.buf = << >>]
             i == [d EXCEPT !.state = "INIT", !.keepalive = "unknown", !.rq = NoRequest,
                          !.last = NewConnection.last, !.pool = b.pool, !.rb = b.at, !.rbSize = PoolSize \div 2]
             n == IF k.keepalive # "use" \/ k.readClosed THEN c ELSE i
  <1>1. Typed(d, C) /\ Typed(x, C)
    BY DestroyTyped, CloseTyped
  <1>2. NextRequest(k) = [n EXCEPT !.context = NULL, !.given = 0, !.continued = 0, !.chunked = FALSE, !.chunk = 0,
                !.left = 0, !.wb = NoBlock, !.wbSize = 0, !.unsent = 0, !.told = @ + 1]
    BY DEF NextRequest
  <1> HIDE DEF d, x, b
  <1>3. Typed(c, C)
    BY <1>1 DEF Typed
  <1>4. Typed(i, C)
    <2>1. /\ DOMAIN i = DOMAIN d /\ i.state = "INIT" /\ i.eli = d.eli /\ i.rq = NoRequest /\ i.remaining = d.remaining
          /\ i.chunk = d.chunk /\ i.unsent = d.unsent /\ i.left = d.left /\ i.response = d.response
          /\ i.keepalive = "unknown" /\ i.continued = d.continued /\ i.context = d.context
      BY <1>1 DEF Typed
    <2>2. "INIT" \in AllStates
      BY DEF AllStates, Reading
    <2> HIDE DEF i
    <2>3. QED
      BY <1>1, <2>1, <2>2, EmptyRequest DEF Typed
  <1> HIDE DEF c, i
  <1>5. Typed(n, C)
    BY <1>3, <1>4
  <1> HIDE DEF n
  <1> DEFINE e == [n EXCEPT !.context = NULL, !.given = 0, !.continued = 0, !.chunked = FALSE, !.chunk = 0,
                !.left = 0, !.wb = NoBlock, !.wbSize = 0, !.unsent = 0, !.told = @ + 1]
  <1>6. /\ DOMAIN e = DOMAIN n /\ e.state = n.state /\ e.eli = n.eli /\ e.rq = n.rq /\ e.remaining = n.remaining
        /\ e.chunk = 0 /\ e.unsent = 0 /\ e.left = 0 /\ e.response = n.response
        /\ e.keepalive = n.keepalive /\ e.continued = 0 /\ e.context = NULL
    BY <1>5 DEF Typed
  <1>7. e = NextRequest(k)
    BY <1>2
  <1> HIDE DEF e
  <1>8. 0 \in Nat /\ 0 \in 0 .. ContinueLength
    BY MCAssumption
  <1>9. Typed(e, C)
    BY <1>5, <1>6, <1>8 DEF Typed
  <1>10. QED
    BY <1>7, <1>9

(* A new connection has no buffers and empty fields.                       *)
LEMMA NewSound == ASSUME NEW S, NEW C, NULL \in C PROVE Sound(NewConnection, S, C)
  <1>1. << >> \in Seq(S) /\ Len(<< >>) = 0
    BY EmptySeq
  <1>2. IsPool(PoolCreate)
    BY PoolCreated
  <1>3. Base(NewConnection, S)
    BY <1>1, <1>2 DEF Base, NewConnection, NoBlock
  <1>4. Stage(NewConnection)
    BY DEF Stage, Parts, NewConnection
  <1>5. Typed(NewConnection, C)
    BY EmptyRequest, MCAssumption DEF Typed, NewConnection, AllStates, Reading, UNKNOWN
  <1>6. QED
    BY <1>3, <1>4, <1>5 DEF Sound, Memory

(* The end of a turn: the connection then reads only if there is more to   *)
(* come, and is left to be cleaned up only if the pool has no room.        *)
LEMMA SettledSound ==
  ASSUME NEW k, NEW S, NEW C, Sound(k, S, C), NEW shut, Rests(k)
  PROVE  /\ Sound(Settled(k, shut), S, C)
         /\ Settled(k, shut).eli = "CLEANUP" => NoRoom(Settled(k, shut).pool) \/ Settled(k, shut).state = "CRASHED"
  <1> DEFINE n == Settle(k, shut)
             e == [n EXCEPT !.eli = Eli(n)]
  <1>1. /\ Memory(n, S) /\ n.state \in {k.state} \cup Failed
        /\ n.state = "CLOSED" => NoRoom(n.pool)
    BY SettleMemory DEF Sound
  <1>2. Settled(k, shut) = e
    BY DEF Settled
  <1>3. Typed(e, C) /\ e.state = n.state /\ e.eli = Eli(n)
    BY <1>2, SettleTyped DEF Sound
  <1> HIDE DEF n
  <1>4. SameMemory(n, e) /\ e.last = n.last /\ e.keepalive = n.keepalive
    BY <1>1 DEF Memory, Base, SameMemory
  <1> HIDE DEF e
  <1>5. Memory(e, S) /\ e.pool = n.pool
    BY <1>1, <1>3, <1>4, SameMemoryKept DEF SameMemory
  <1>6. Eli(n) = "CLEANUP" => n.state \in {"CLOSED", "CRASHED"}
    <2>1. n.state \in Resting \cup {"CLOSED", "CRASHED"}
      BY <1>1 DEF Rests, Resting, Failed
    <2>2. QED
      BY <2>1 DEF Eli, Resting, GrowingStates, Ending
  <1>7. QED
    BY <1>1, <1>2, <1>3, <1>5, <1>6 DEF Sound

(* The header of the response, or its footers, are ready.                  *)
LEMMA BuiltSound ==
  ASSUME NEW k, NEW S, NEW C, Sound(k, S, C), k.state \in {"FOOTERS_RECEIVED", "BODY_SENT"},
         NEW state \in {"HEADERS_SENDING", "FOOTERS_SENT"}
  PROVE  /\ Sound([BuildHeader(k) EXCEPT !.state = state], S, C) /\ [BuildHeader(k) EXCEPT !.state = state].state = state
         /\ Sound(Close(BuildHeader(k)), S, C)
  <1> DEFINE h == BuildHeader(k)
             n == [h EXCEPT !.state = state]
  <1>1. /\ Base(h, S) /\ h.state = k.state /\ h.rb = k.rb /\ Typed(h, C)
        /\ k.keepalive = "must_close" => h.keepalive = "must_close"
    BY BuildHeaderMemory, BuildHeaderTyped DEF Sound, Memory
  <1>2. Sound(Close(h), S, C)
    BY <1>1, CloseSound
  <1> HIDE DEF h
  <1>3. Typed(n, C) /\ n.state = state
    BY <1>1, TypedAtState DEF AllStates
  <1>4. SameMemory(h, n) /\ n.keepalive = h.keepalive
    BY <1>1 DEF Base, SameMemory
  <1> HIDE DEF n
  <1>5. Base(n, S)
    BY <1>1, <1>4, SameMemoryBase
  <1>6. k.rb = NoBlock => k.keepalive = "must_close"
    BY DEF Sound, Memory, Stage
  <1>7. Stage(n)
    BY <1>1, <1>3, <1>4, <1>6 DEF Stage, SameMemory, Parts, Reading
  <1>8. QED
    BY <1>2, <1>3, <1>5, <1>7 DEF Sound, Memory, n, h

(* A line is taken from the read buffer.                                   *)
LEMMA LineSound ==
  ASSUME NEW k, NEW S, NEW C, Sound(k, S, C), HasLine(k)
  PROVE  /\ Sound(WithoutLine(k), S, C) /\ WithoutLine(k).state = k.state /\ WithoutLine(k).rb # NoBlock
         /\ WithoutLine(k).pool = k.pool /\ Line(k) \in S
  <1>1. Line(k) \in S
    BY LineFacts, ElementOfSeq DEF Line, Sound, Memory, Base
  <1>2. QED
    BY <1>1, LineMemory, LineTyped DEF Sound

(* transmit_error_response leaves a connection with which a turn may end.  *)
LEMMA TransmitSound ==
  ASSUME NEW k, NEW S, NEW C, Base(k, S), Typed(k, C), NEW shut
  PROVE  Sound(TransmitError(k, shut), S, C) /\ Rests(TransmitError(k, shut))
  BY TransmitMemory, TransmitTyped DEF Sound, Rests, Failed, Resting, Ending

(* The header that may be continued is the line that was taken.            *)
LEMMA HeaderSound ==
  ASSUME NEW k, NEW S, NEW C, Sound(k, S, C), HasLine(k),
         NEW n, Sound(n, S, C), n.rb = WithoutLine(k).rb, n.rbSize = WithoutLine(k).rbSize,
         n.pool.pos = k.pool.pos, n.rb # NoBlock, NEW m \in Lengths(k),
         NEW part \in Parts
  PROVE  Sound([n EXCEPT !.state = part, !.last = HeaderOf(k, m)], S, C)
  <1> DEFINE h == [n EXCEPT !.state = part, !.last = HeaderOf(k, m)]
  <1>1. SameMemory(n, h) /\ h.state = part /\ h.last = HeaderOf(k, m)
    BY DEF Sound, Memory, Base, SameMemory
  <1>2. Typed(h, C)
    BY DEF Sound, Typed, Parts, AllStates, Reading
  <1> HIDE DEF h
  <1>3. Base(h, S)
    BY <1>1, SameMemoryBase DEF Sound, Memory
  <1>4. LastApart(h)
    BY <1>1, <1>3, HeaderApart DEF SameMemory, Sound
  <1>5. Stage(h)
    BY <1>1, <1>4 DEF Stage, SameMemory
  <1>6. QED
    BY <1>2, <1>3, <1>5 DEF Sound, Memory, h
=============================================================================
