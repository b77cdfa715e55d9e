------------------------- MODULE FlowControlProofs -------------------------
(***************************************************************************)
(* Theorems about FlowControl and Tunnel, for every window, packet size,   *)
(* stream and way it may end.  The first half counts bytes: what a channel *)
(* holds and what its window may be add up.  The second half follows the   *)
(* bytes: every queue between the two applications is cut into consecutive *)
(* parts of one stream, which is why they arrive in order.                 *)
(***************************************************************************)
EXTENDS Tunnel, WellFoundedInduction, TLAPS

-----------------------------------------------------------------------------
(* Folds by their prefixes. *)

LEMMA Least ==
    ASSUME NEW S, S \subseteq Nat, S # {}
    PROVE  \E n \in S : \A m \in S : n <= m
<1> DEFINE R == OpToRel(<, Nat)
<1>1. IsWellFoundedOn(R, Nat)
  BY NatLessThanWellFounded, Zenon
<1>2. \A x, y \in Nat : <<x, y>> \in R <=> x < y
  BY Zenon DEF OpToRel
<1> HIDE DEF R
<1>3. PICK x \in S : \A y \in S : ~ (<<y, x>> \in R)
  BY <1>1, WFMin
<1>4. \A y \in S : ~(y < x)
  BY <1>2, <1>3
<1> QED
  BY <1>4

(* What holds of 0, and of n if of n - 1, holds throughout. *)
LEMMA Upwards ==
    ASSUME NEW N \in Nat, NEW S, 0 \in S,
           \A n \in 1..N : n - 1 \in S => n \in S
    PROVE  \A n \in 0..N : n \in S
<1> DEFINE T == {n \in 0..N : n \notin S}
<1>1. SUFFICES ASSUME T # {} PROVE FALSE
  OBVIOUS
<1>2. PICK n \in T : \A m \in T : n <= m
  <2>1. T \subseteq Nat /\ T # {}
    BY <1>1
  <2> HIDE DEF T
  <2> QED
    BY <2>1, Least
<1>3. n \in 0..N /\ n \notin S
  OBVIOUS
<1>4. n # 0 /\ n - 1 \in 0..N /\ n - 1 \notin T
  BY <1>2, <1>3
<1> QED
  BY <1>3, <1>4

LEMMA MaxOfPrefix ==
    ASSUME NEW n \in Nat, NEW s \in SUBSET (1..n), n \in s
    PROVE  Max(s) = n
<1>1. \A x \in s : (\A y \in s : x >= y) => x = n
  OBVIOUS
<1>2. n \in s /\ \A y \in s : n >= y
  OBVIOUS
<1> QED
  BY <1>1, <1>2 DEF Max

LEMMA SumPrefixes ==
    ASSUME NEW q \in Seq(Nat)
    PROVE  \E F : /\ F = [k \in 0..Len(q) |-> F[k]]
                  /\ F[0] = 0 /\ F[Len(q)] = SumOf(q)
                  /\ \A k \in 1..Len(q) : F[k] = F[k - 1] + q[k]
<1> DEFINE Iter(n, g) ==
              g = [s \in SUBSET (1..n) |->
                     IF s = {} THEN 0 ELSE g[s \ {Max(s)}] + q[Max(s)]]
       Exists(n) == \E g : Iter(n, g)
<1>1. Len(q) \in Nat /\ DOMAIN q = 1..Len(q)
  OBVIOUS
<1>2. Exists(0)
  <2>1. \A s \in SUBSET (1..0) : s = {}
    OBVIOUS
  <2> WITNESS [s \in SUBSET (1..0) |-> 0]
  <2> QED
    BY <2>1
<1>3. ASSUME NEW n \in 1..Len(q), Exists(n - 1) PROVE Exists(n)
  <2>1. PICK h : Iter(n - 1, h)
    BY <1>3
  <2> DEFINE g == [s \in SUBSET (1..n) |-> IF n \in s THEN h[s \ {n}] + q[n] ELSE h[s]]
  <2>2. n \in Nat /\ n - 1 \in Nat
    OBVIOUS
  <2>3. ASSUME NEW s \in SUBSET (1..n)
        PROVE  g[s] = IF s = {} THEN 0 ELSE g[s \ {Max(s)}] + q[Max(s)]
    <3>1. CASE n \in s
      <4>1. Max(s) = n
        BY <2>2, <3>1, MaxOfPrefix
      <4>2. g[s \ {n}] = h[s \ {n}]
        OBVIOUS
      <4> QED
        BY <3>1, <4>1, <4>2
    <3>2. CASE n \notin s
      <4>1. s \in SUBSET (1..(n - 1))
        BY <2>2, <3>2
      <4>2. h[s] = IF s = {} THEN 0 ELSE h[s \ {Max(s)}] + q[Max(s)]
        BY <2>1, <4>1
      <4>3. g[s] = h[s] /\ g[s \ {Max(s)}] = h[s \ {Max(s)}]
        BY <3>2
      <4> QED
        BY <4>2, <4>3
    <3> QED
      BY <3>1, <3>2
  <2>4. g = [s \in SUBSET (1..n) |-> g[s]]
    OBVIOUS
  <2> HIDE DEF g
  <2> WITNESS g
  <2> QED
    BY <2>3, <2>4
<1>4. Exists(Len(q))
  <2> DEFINE S == {n \in 0..Len(q) : Exists(n)}
  <2> HIDE DEF Exists
  <2>1. 0 \in S /\ \A n \in 1..Len(q) : n - 1 \in S => n \in S
    BY <1>1, <1>2, <1>3
  <2> HIDE DEF S
  <2>2. \A n \in 0..Len(q) : n \in S
    BY <1>1, <2>1, Upwards
  <2> QED
    BY <1>1, <2>2 DEF S
<1> DEFINE it == CHOOSE g : Iter(Len(q), g)
<1>5. Iter(Len(q), it)
  <2> HIDE DEF Iter
  <2> QED
    BY <1>1, <1>4
<1>6. SumOf(q) = it[1..Len(q)]
  BY <1>1, Zenon DEF SumOf, FoldLeft, MapThenFoldSet
<1> HIDE DEF it
<1> DEFINE F == [k \in 0..Len(q) |-> it[1..k]]
<1>7. ASSUME NEW k \in 1..Len(q) PROVE it[1..k] = it[1..(k - 1)] + q[k]
  <2>1. /\ 1..k \in SUBSET (1..Len(q)) /\ k \in 1..k /\ 1..k \in SUBSET (1..k) /\ k \in Nat
        /\ (1..k) \ {k} = 1..(k - 1)
    BY <1>1
  <2>2. Max(1..k) = k
    BY <2>1, MaxOfPrefix
  <2> QED
    BY <1>5, <2>1, <2>2
<1>8. it[1..0] = 0
  <2>1. 1..0 = {} /\ {} \in SUBSET (1..Len(q))
    OBVIOUS
  <2> QED
    BY <1>5, <2>1
<1> WITNESS F
<1> QED
  BY <1>1, <1>6, <1>7, <1>8

(* Whatever grows with the sequence as the sum does is the sum. *)
LEMMA SumIs ==
    ASSUME NEW q \in Seq(Nat), NEW G, G[0] = 0,
           \A k \in 1..Len(q) : G[k] = G[k - 1] + q[k]
    PROVE  SumOf(q) = G[Len(q)]
<1>1. Len(q) \in Nat
  OBVIOUS
<1>2. PICK F : /\ F[0] = 0 /\ F[Len(q)] = SumOf(q)
               /\ \A k \in 1..Len(q) : F[k] = F[k - 1] + q[k]
  BY SumPrefixes
<1> DEFINE S == {n \in 0..Len(q) : F[n] = G[n]}
<1>3. 0 \in S /\ \A n \in 1..Len(q) : n - 1 \in S => n \in S
  BY <1>1, <1>2
<1> HIDE DEF S
<1>4. \A n \in 0..Len(q) : n \in S
  BY <1>1, <1>3, Upwards
<1> QED
  BY <1>1, <1>2, <1>4 DEF S

LEMMA SumGrows ==
    ASSUME NEW q \in Seq(Nat)
    PROVE  \E F \in [0..Len(q) -> Nat] :
              /\ F[0] = 0 /\ F[Len(q)] = SumOf(q)
              /\ \A k \in 1..Len(q) : F[k] = F[k - 1] + q[k]
<1>1. Len(q) \in Nat /\ \A k \in 1..Len(q) : q[k] \in Nat
  OBVIOUS
<1>2. PICK F : /\ F = [k \in 0..Len(q) |-> F[k]]
               /\ F[0] = 0 /\ F[Len(q)] = SumOf(q)
               /\ \A k \in 1..Len(q) : F[k] = F[k - 1] + q[k]
  BY SumPrefixes
<1> DEFINE S == {n \in 0..Len(q) : F[n] \in Nat}
<1>3. 0 \in S
  BY <1>1, <1>2
<1>4. ASSUME NEW n \in 1..Len(q), n - 1 \in S PROVE n \in S
  <2>1. F[n - 1] \in Nat /\ q[n] \in Nat /\ F[n] = F[n - 1] + q[n]
    BY <1>1, <1>2, <1>4
  <2> QED
    BY <1>1, <2>1
<1> HIDE DEF S
<1>5. \A n \in 0..Len(q) : n \in S
  BY <1>1, <1>3, <1>4, Upwards
<1>6. \A n \in 0..Len(q) : F[n] \in Nat
  BY <1>5 DEF S
<1>7. F \in [0..Len(q) -> Nat]
  BY <1>2, <1>6
<1> QED
  BY <1>2, <1>7

LEMMA SumType == ASSUME NEW q \in Seq(Nat) PROVE SumOf(q) \in Nat
<1>1. Len(q) \in 0..Len(q)
  OBVIOUS
<1> QED
  BY <1>1, SumGrows

LEMMA SumConcat ==
    ASSUME NEW p \in Seq(Nat), NEW q \in Seq(Nat)
    PROVE  SumOf(p \o q) = SumOf(p) + SumOf(q)
<1> DEFINE r == p \o q
<1>0. /\ \A k \in 1..Len(p) : r[k] = p[k]
      /\ \A k \in 1..Len(q) : r[Len(p) + k] = q[k]
      /\ r \in Seq(Nat)
  OBVIOUS
<1>1. Len(r) = Len(p) + Len(q) /\ Len(p) \in Nat /\ Len(q) \in Nat
  OBVIOUS
<1> HIDE DEF r
<1>2. PICK F \in [0..Len(p) -> Nat] :
               /\ F[0] = 0 /\ F[Len(p)] = SumOf(p)
               /\ \A k \in 1..Len(p) : F[k] = F[k - 1] + p[k]
  BY SumGrows
<1>3. PICK H \in [0..Len(q) -> Nat] :
               /\ H[0] = 0 /\ H[Len(q)] = SumOf(q)
               /\ \A k \in 1..Len(q) : H[k] = H[k - 1] + q[k]
  BY SumGrows
<1> DEFINE G == [k \in 0..Len(r) |-> IF k <= Len(p) THEN F[k] ELSE SumOf(p) + H[k - Len(p)]]
<1>4. SumOf(p) \in Nat /\ SumOf(q) \in Nat /\ \A k \in 1..Len(q) : q[k] \in Nat
  BY SumType
<1>5. ASSUME NEW k \in 0..Len(q) PROVE G[Len(p) + k] = SumOf(p) + H[k]
  <2>1. Len(p) + k \in 0..Len(r) /\ (Len(p) + k) - Len(p) = k /\ H[k] \in Nat
    BY <1>1, <1>3
  <2>2. CASE k = 0
    <3>1. Len(p) + k = Len(p) /\ Len(p) <= Len(p)
      BY <1>1, <2>2
    <3> QED
      BY <1>2, <1>3, <1>4, <2>1, <2>2, <3>1
  <2>3. CASE k > 0
    <3>1. ~(Len(p) + k <= Len(p))
      BY <1>1, <2>3
    <3> QED
      BY <2>1, <3>1
  <2> QED
    BY <2>2, <2>3
<1>6. ASSUME NEW k \in 1..Len(r) PROVE G[k] = G[k - 1] + r[k]
  <2>1. CASE k <= Len(p)
    <3>1. k \in 1..Len(p) /\ k - 1 \in 0..Len(r) /\ k \in 0..Len(r) /\ k - 1 <= Len(p)
      BY <1>1, <2>1
    <3> QED
      BY <1>0, <1>2, <2>1, <3>1
  <2>2. CASE k > Len(p)
    <3> DEFINE i == k - Len(p)
    <3>1. i \in 1..Len(q) /\ i \in 0..Len(q) /\ k = Len(p) + i /\ k - 1 = Len(p) + (i - 1)
          /\ i - 1 \in 0..Len(q)
      BY <1>1, <2>2
    <3> HIDE DEF G, i
    <3>2. G[Len(p) + i] = SumOf(p) + H[i] /\ G[Len(p) + (i - 1)] = SumOf(p) + H[i - 1]
      BY <1>5, <3>1
    <3>3. r[k] = q[i] /\ H[i] = H[i - 1] + q[i]
      BY <1>0, <1>3, <3>1
    <3>4. H[i - 1] \in Nat /\ q[i] \in Nat
      BY <1>3, <1>4, <3>1
    <3>5. G[k] = SumOf(p) + H[i] /\ G[k - 1] = SumOf(p) + H[i - 1]
      BY <3>1, <3>2
    <3>6. \A a, b, c \in Nat : a + (b + c) = (a + b) + c
      OBVIOUS
    <3>7. SumOf(p) + (H[i - 1] + q[i]) = (SumOf(p) + H[i - 1]) + q[i]
      BY <1>4, <3>4, <3>6
    <3> QED
      BY <3>3, <3>5, <3>7
  <2> QED
    BY <1>1, <2>1, <2>2
<1>7. G[0] = 0
  BY <1>1, <1>2
<1>8. G[Len(r)] = SumOf(p) + SumOf(q)
  <2>1. Len(q) \in 0..Len(q)
    BY <1>1
  <2>2. G[Len(p) + Len(q)] = SumOf(p) + H[Len(q)]
    BY <1>5, <2>1
  <2> HIDE DEF G
  <2> QED
    BY <1>1, <1>3, <2>2
<1> HIDE DEF G
<1>9. SumOf(r) = G[Len(r)]
  BY <1>0, <1>6, <1>7, SumIs
<1> QED
  BY <1>8, <1>9 DEF r

LEMMA SumOne == ASSUME NEW n \in Nat PROVE SumOf(<<n>>) = n
<1> DEFINE q == <<n>>
           G == [k \in 0..1 |-> IF k = 0 THEN 0 ELSE n]
<1>1. q \in Seq(Nat) /\ Len(q) = 1 /\ q[1] = n
  OBVIOUS
<1>2. G[0] = 0 /\ G[1] = n
  OBVIOUS
<1> HIDE DEF q, G
<1>3. \A k \in 1..Len(q) : G[k] = G[k - 1] + q[k]
  BY <1>1, <1>2
<1>4. SumOf(q) = G[Len(q)]
  BY <1>1, <1>2, <1>3, SumIs
<1> QED
  BY <1>1, <1>2, <1>4 DEF q

LEMMA SumNone == SumOf(<<>>) = 0
<1>1. <<>> \in Seq(Nat) /\ Len(<<>>) = 0
  OBVIOUS
<1> QED
  BY <1>1, SumPrefixes

LEMMA SeqIs == ASSUME NEW T, NEW s \in Seq(T) PROVE s = [i \in 1..Len(s) |-> s[i]]
OBVIOUS

LEMMA ConcatIs ==
    ASSUME NEW T, NEW p \in Seq(T), NEW q \in Seq(T)
    PROVE  /\ p \o q = [i \in 1..(Len(p) + Len(q)) |-> (p \o q)[i]]
           /\ \A i \in 1..(Len(p) + Len(q)) :
                 (p \o q)[i] = IF i <= Len(p) THEN p[i] ELSE q[i - Len(p)]
<1>1. /\ p \o q \in Seq(T) /\ Len(p \o q) = Len(p) + Len(q)
      /\ \A i \in 1..(Len(p) + Len(q)) :
            (p \o q)[i] = IF i <= Len(p) THEN p[i] ELSE q[i - Len(p)]
  OBVIOUS
<1> DEFINE r == p \o q
<1>2. r = [i \in 1..Len(r) |-> r[i]]
  <2>1. r \in Seq(T)
    BY <1>1
  <2> HIDE DEF r
  <2> QED
    BY <2>1, SeqIs
<1> QED
  BY <1>1, <1>2

LEMMA BytesConcat ==
    ASSUME NEW S, NEW p \in Seq(Seq(S)), NEW q \in Seq(Seq(S))
    PROVE  Bytes(p \o q) = Bytes(p) + Bytes(q) /\ Bytes(p) \in Nat
<1> DEFINE L(s) == [i \in DOMAIN s |-> Len(s[i])]
<1>1. L(p) \in Seq(Nat) /\ L(q) \in Seq(Nat)
  <2>1. ASSUME NEW s \in Seq(Seq(S)) PROVE L(s) \in Seq(Nat)
    <3>1. DOMAIN s = 1..Len(s) /\ Len(s) \in Nat /\ \A i \in 1..Len(s) : Len(s[i]) \in Nat
      OBVIOUS
    <3> QED
      BY <3>1
  <2> QED
    BY <2>1
<1>2. L(p \o q) = L(p) \o L(q)
  <2> DEFINE r == p \o q
  <2>1. /\ DOMAIN p = 1..Len(p) /\ DOMAIN q = 1..Len(q) /\ DOMAIN r = 1..(Len(p) + Len(q))
        /\ Len(p) \in Nat /\ Len(q) \in Nat
    OBVIOUS
  <2>2. \A i \in 1..(Len(p) + Len(q)) : r[i] = IF i <= Len(p) THEN p[i] ELSE q[i - Len(p)]
    OBVIOUS
  <2>3. Len(L(p)) = Len(p) /\ Len(L(q)) = Len(q)
    BY <1>1, <2>1
  <2> DEFINE LR == L(p) \o L(q)
             LP == L(p)
             LQ == L(q)
  <2>4. /\ LR = [i \in 1..(Len(p) + Len(q)) |-> LR[i]]
        /\ \A i \in 1..(Len(p) + Len(q)) :
              LR[i] = IF i <= Len(p) THEN LP[i] ELSE LQ[i - Len(p)]
    <3>1. LP \in Seq(Nat) /\ LQ \in Seq(Nat) /\ LR = LP \o LQ
          /\ Len(LP) = Len(p) /\ Len(LQ) = Len(q)
      BY <1>1, <2>3
    <3> HIDE DEF LP, LQ, LR
    <3>2. LP \o LQ = [i \in 1..(Len(LP) + Len(LQ)) |-> (LP \o LQ)[i]]
      BY <3>1, ConcatIs, Zenon
    <3>3. \A i \in 1..(Len(LP) + Len(LQ)) :
             (LP \o LQ)[i] = IF i <= Len(LP) THEN LP[i] ELSE LQ[i - Len(LP)]
      BY <3>1, ConcatIs, Zenon
    <3> QED
      BY <3>1, <3>2, <3>3, Zenon
  <2>5. ASSUME NEW i \in 1..(Len(p) + Len(q)) PROVE LR[i] = Len(r[i])
    <3>1. CASE i <= Len(p)
      <4>1. i \in DOMAIN p
        BY <2>1, <3>1
      <4>2. LP[i] = Len(p[i])
        BY <4>1
      <4> HIDE DEF LR, LP, LQ, r
      <4> QED
        BY <2>2, <2>4, <3>1, <4>2
    <3>2. CASE ~(i <= Len(p))
      <4>1. i - Len(p) \in DOMAIN q
        BY <2>1, <3>2
      <4>2. LQ[i - Len(p)] = Len(q[i - Len(p)])
        BY <4>1
      <4> HIDE DEF LR, LP, LQ, r
      <4> QED
        BY <2>2, <2>4, <3>2, <4>2
    <3> QED
      BY <3>1, <3>2
  <2> HIDE DEF LR, r
  <2>6. [i \in DOMAIN r |-> Len(r[i])] = LR
    BY <2>1, <2>4, <2>5
  <2> QED
    BY <2>6 DEF LR, r
<1>3. Bytes(p) = SumOf(L(p)) /\ Bytes(q) = SumOf(L(q)) /\ Bytes(p \o q) = SumOf(L(p \o q))
  BY DEF Bytes
<1> HIDE DEF L
<1> QED
  BY <1>1, <1>2, <1>3, SumConcat, SumType

LEMMA BytesOne ==
    ASSUME NEW S, NEW e \in Seq(S)
    PROVE  Bytes(<<e>>) = Len(e) /\ Bytes(<<>>) = 0
<1>1. [i \in DOMAIN <<e>> |-> Len(<<e>>[i])] = <<Len(e)>> /\ Len(e) \in Nat
  OBVIOUS
<1>2. [i \in DOMAIN <<>> |-> Len(<<>>[i])] = <<>>
  OBVIOUS
<1> QED
  BY <1>1, <1>2, SumOne, SumNone DEF Bytes

LEMMA BytesAppend ==
    ASSUME NEW S, NEW p \in Seq(Seq(S)), NEW e \in Seq(S)
    PROVE  Bytes(Append(p, e)) = Bytes(p) + Len(e)
<1>1. Append(p, e) = p \o <<e>> /\ <<e>> \in Seq(Seq(S))
  OBVIOUS
<1>2. Bytes(p \o <<e>>) = Bytes(p) + Bytes(<<e>>)
  BY <1>1, BytesConcat
<1> QED
  BY <1>1, <1>2, BytesOne

LEMMA BytesHead ==
    ASSUME NEW S, NEW p \in Seq(Seq(S)), p # <<>>
    PROVE  Bytes(p) = Len(Head(p)) + Bytes(Tail(p)) /\ Bytes(Tail(p)) \in Nat
<1> DEFINE e == Head(p)
           t == Tail(p)
           h == <<e>>
<1>1. p = h \o t /\ t \in Seq(Seq(S)) /\ e \in Seq(S)
  OBVIOUS
<1>2. h \in Seq(Seq(S)) /\ h = <<e>>
  BY <1>1
<1>3. Bytes(h) = Len(e)
  BY <1>1, BytesOne
<1> HIDE DEF h, t, e
<1>4. Bytes(h \o t) = Bytes(h) + Bytes(t) /\ Bytes(t) \in Nat
  BY <1>1, <1>2, BytesConcat
<1> QED
  BY <1>1, <1>3, <1>4 DEF t, e

Adjusting == [close : BOOLEAN, amount : Nat]

LEMMA AmountIs == \A a \in Adjusting : a.amount \in Nat
BY DEF Adjusting

LEMMA AmountConcat ==
    ASSUME NEW p \in Seq(Adjusting), NEW q \in Seq(Adjusting)
    PROVE  Amount(p \o q) = Amount(p) + Amount(q) /\ Amount(p) \in Nat
<1> DEFINE L(s) == [i \in DOMAIN s |-> s[i].amount]
<1>1. L(p) \in Seq(Nat) /\ L(q) \in Seq(Nat)
  <2>1. ASSUME NEW s \in Seq(Adjusting) PROVE L(s) \in Seq(Nat)
    <3>1. DOMAIN s = 1..Len(s) /\ Len(s) \in Nat /\ \A i \in 1..Len(s) : s[i].amount \in Nat
      BY AmountIs
    <3> QED
      BY <3>1
  <2> QED
    BY <2>1
<1>2. L(p \o q) = L(p) \o L(q)
  <2> DEFINE r == p \o q
  <2>1. /\ DOMAIN p = 1..Len(p) /\ DOMAIN q = 1..Len(q) /\ DOMAIN r = 1..(Len(p) + Len(q))
        /\ Len(p) \in Nat /\ Len(q) \in Nat
    OBVIOUS
  <2>2. \A i \in 1..(Len(p) + Len(q)) : r[i] = IF i <= Len(p) THEN p[i] ELSE q[i - Len(p)]
    OBVIOUS
  <2>3. Len(L(p)) = Len(p) /\ Len(L(q)) = Len(q)
    BY <1>1, <2>1
  <2> DEFINE LR == L(p) \o L(q)
             LP == L(p)
             LQ == L(q)
  <2>4. /\ LR = [i \in 1..(Len(p) + Len(q)) |-> LR[i]]
        /\ \A i \in 1..(Len(p) + Len(q)) :
              LR[i] = IF i <= Len(p) THEN LP[i] ELSE LQ[i - Len(p)]
    <3>1. LP \in Seq(Nat) /\ LQ \in Seq(Nat) /\ LR = LP \o LQ
          /\ Len(LP) = Len(p) /\ Len(LQ) = Len(q)
      BY <1>1, <2>3
    <3> HIDE DEF LP, LQ, LR
    <3>2. LP \o LQ = [i \in 1..(Len(LP) + Len(LQ)) |-> (LP \o LQ)[i]]
      BY <3>1, ConcatIs, Zenon
    <3>3. \A i \in 1..(Len(LP) + Len(LQ)) :
             (LP \o LQ)[i] = IF i <= Len(LP) THEN LP[i] ELSE LQ[i - Len(LP)]
      BY <3>1, ConcatIs, Zenon
    <3> QED
      BY <3>1, <3>2, <3>3, Zenon
  <2>5. ASSUME NEW i \in 1..(Len(p) + Len(q)) PROVE LR[i] = r[i].amount
    <3>1. CASE i <= Len(p)
      <4>1. i \in DOMAIN p
        BY <2>1, <3>1
      <4>2. LP[i] = p[i].amount
        BY <4>1
      <4> HIDE DEF LR, LP, LQ, r
      <4> QED
        BY <2>2, <2>4, <3>1, <4>2
    <3>2. CASE ~(i <= Len(p))
      <4>1. i - Len(p) \in DOMAIN q
        BY <2>1, <3>2
      <4>2. LQ[i - Len(p)] = q[i - Len(p)].amount
        BY <4>1
      <4> HIDE DEF LR, LP, LQ, r
      <4> QED
        BY <2>2, <2>4, <3>2, <4>2
    <3> QED
      BY <3>1, <3>2
  <2> HIDE DEF LR, r
  <2>6. [i \in DOMAIN r |-> r[i].amount] = LR
    BY <2>1, <2>4, <2>5
  <2> QED
    BY <2>6 DEF LR, r
<1>3. Amount(p) = SumOf(L(p)) /\ Amount(q) = SumOf(L(q)) /\ Amount(p \o q) = SumOf(L(p \o q))
  BY DEF Amount
<1> HIDE DEF L
<1> QED
  BY <1>1, <1>2, <1>3, SumConcat, SumType

LEMMA AmountOne ==
    ASSUME NEW e \in Adjusting
    PROVE  Amount(<<e>>) = e.amount /\ Amount(<<>>) = 0
<1>1. [i \in DOMAIN <<e>> |-> <<e>>[i].amount] = <<e.amount>> /\ e.amount \in Nat
  BY AmountIs
<1>2. [i \in DOMAIN <<>> |-> <<>>[i].amount] = <<>>
  OBVIOUS
<1> QED
  BY <1>1, <1>2, SumOne, SumNone DEF Amount

LEMMA AmountAppend ==
    ASSUME NEW p \in Seq(Adjusting), NEW e \in Adjusting
    PROVE  Amount(Append(p, e)) = Amount(p) + e.amount
<1>1. Append(p, e) = p \o <<e>> /\ <<e>> \in Seq(Adjusting)
  OBVIOUS
<1>2. Amount(p \o <<e>>) = Amount(p) + Amount(<<e>>)
  BY <1>1, AmountConcat
<1> QED
  BY <1>1, <1>2, AmountOne

LEMMA AmountHead ==
    ASSUME NEW p \in Seq(Adjusting), p # <<>>
    PROVE  Amount(p) = Head(p).amount + Amount(Tail(p)) /\ Amount(Tail(p)) \in Nat
<1> DEFINE e == Head(p)
           t == Tail(p)
           h == <<e>>
<1>1. p = h \o t /\ t \in Seq(Adjusting) /\ e \in Adjusting
  OBVIOUS
<1>2. h \in Seq(Adjusting) /\ h = <<e>>
  BY <1>1
<1>3. Amount(h) = e.amount
  BY <1>1, AmountOne
<1> HIDE DEF h, t, e
<1>4. Amount(h \o t) = Amount(h) + Amount(t) /\ Amount(t) \in Nat
  BY <1>1, <1>2, AmountConcat
<1> QED
  BY <1>1, <1>3, <1>4 DEF t, e

-----------------------------------------------------------------------------
(* Packets and slices. *)

LEMMA MinOfTwo ==
    ASSUME NEW a \in Int, NEW b \in Int
    PROVE  Min({a, b}) = IF a <= b THEN a ELSE b
<1> DEFINE m == IF a <= b THEN a ELSE b
<1>1. m \in {a, b} /\ \A y \in {a, b} : m <= y
  OBVIOUS
<1>2. \A x \in {a, b} : (\A y \in {a, b} : x <= y) => x = m
  OBVIOUS
<1> QED
  BY <1>1, <1>2 DEF Min

LEMMA LeastOf ==
    ASSUME NEW S \in SUBSET Nat, S # {}
    PROVE  Min(S) \in S /\ \A y \in S : Min(S) <= y
<1>1. \E x \in S : \A y \in S : x <= y
  BY Least
<1> QED
  BY <1>1, Zenon DEF Min

Kind(T) == BOOLEAN \X T

(* The number of packets is Len(bytes) divided by MaxPacket, rounded up. *)
LEMMA RoundedUp ==
    ASSUME NEW n \in Nat
    PROVE  /\ (n + MaxPacket - 1) \div MaxPacket \in Nat
           /\ n <= ((n + MaxPacket - 1) \div MaxPacket) * MaxPacket
           /\ \A k \in 1..((n + MaxPacket - 1) \div MaxPacket) :
                 (k - 1) * MaxPacket \in Nat /\ (k - 1) * MaxPacket < n
                 /\ k * MaxPacket = (k - 1) * MaxPacket + MaxPacket
<1> DEFINE M == MaxPacket
           K == (n + M - 1) \div M
<1>1. M \in Nat \ {0}
  BY FlowAssumption
<1> HIDE DEF M
<1>2. K \in Nat /\ n <= K * M /\ (K > 0 => (K - 1) * M < n)
  BY <1>1
<1>3. ASSUME NEW k \in 1..K
      PROVE  (k - 1) * M \in Nat /\ (k - 1) * M < n /\ k * M = (k - 1) * M + M
  BY <1>1, <1>2
<1> QED
  BY <1>2, <1>3 DEF M

LEMMA SliceIs ==
    ASSUME NEW S, NEW b \in Seq(S), NEW m \in Nat, NEW n \in Nat, m <= n, n <= Len(b)
    PROVE  /\ SubSeq(b, m + 1, n) \in Seq(S)
           /\ Len(SubSeq(b, m + 1, n)) = n - m
           /\ \A i \in 1..(n - m) : SubSeq(b, m + 1, n)[i] = b[m + i]
OBVIOUS

LEMMA PieceIs ==
    ASSUME NEW T, NEW bytes \in Seq(T),
           NEW k \in 1..((Len(bytes) + MaxPacket - 1) \div MaxPacket)
    PROVE  LET m == (k - 1) * MaxPacket
               n == Min({k * MaxPacket, Len(bytes)})
           IN  /\ m \in Nat /\ n \in Nat /\ m < n /\ n <= Len(bytes)
               /\ n = IF k * MaxPacket <= Len(bytes) THEN m + MaxPacket ELSE Len(bytes)
<1> DEFINE m == (k - 1) * MaxPacket
           n == Min({k * MaxPacket, Len(bytes)})
<1>1. /\ MaxPacket \in Nat \ {0} /\ Len(bytes) \in Nat
      /\ m \in Nat /\ m < Len(bytes) /\ k * MaxPacket = m + MaxPacket
  BY RoundedUp, FlowAssumption
<1>2. n = IF k * MaxPacket <= Len(bytes) THEN k * MaxPacket ELSE Len(bytes)
  BY <1>1, MinOfTwo
<1> HIDE DEF m, n
<1>3. n \in Nat /\ m < n /\ n <= Len(bytes)
  BY <1>1, <1>2
<1> QED
  BY <1>1, <1>2, <1>3 DEF m, n

LEMMA MarkedIs ==
    ASSUME NEW T, NEW b \in Seq(T), NEW ext \in BOOLEAN
    PROVE  LET marked == [i \in DOMAIN b |-> <<ext, b[i]>>] IN
           /\ marked \in Seq(Kind(T)) /\ Len(marked) = Len(b)
           /\ \A i \in 1..Len(b) : marked[i] = <<ext, b[i]>>
<1> DEFINE marked == [i \in DOMAIN b |-> <<ext, b[i]>>]
<1>1. DOMAIN b = 1..Len(b) /\ Len(b) \in Nat /\ \A i \in 1..Len(b) : b[i] \in T
  OBVIOUS
<1>2. ASSUME NEW i \in 1..Len(b) PROVE marked[i] = <<ext, b[i]>> /\ marked[i] \in Kind(T)
  <2>1. b[i] \in T
    BY <1>1
  <2> QED
    BY <1>1, <2>1 DEF Kind
<1>3. marked = [i \in 1..Len(b) |-> marked[i]]
  BY <1>1
<1> HIDE DEF marked
<1>4. marked \in Seq(Kind(T)) /\ Len(marked) = Len(b)
  BY <1>1, <1>2, <1>3
<1> QED
  BY <1>2, <1>4 DEF marked

LEMMA PacketIs ==
    ASSUME NEW T, NEW bytes \in Seq(T), NEW ext \in BOOLEAN,
           NEW k \in 1..((Len(bytes) + MaxPacket - 1) \div MaxPacket)
    PROVE  /\ Packets(bytes, ext)[k] \in Seq(Kind(T))
           /\ Len(Packets(bytes, ext)[k])
                = IF k * MaxPacket <= Len(bytes) THEN MaxPacket
                  ELSE Len(bytes) - (k - 1) * MaxPacket
           /\ \A i \in 1..Len(Packets(bytes, ext)[k]) :
                 Packets(bytes, ext)[k][i] = <<ext, bytes[(k - 1) * MaxPacket + i]>>
<1> DEFINE m == (k - 1) * MaxPacket
           n == Min({k * MaxPacket, Len(bytes)})
           piece == SubSeq(bytes, m + 1, n)
           packet == [i \in DOMAIN piece |-> <<ext, piece[i]>>]
<1>1. /\ m \in Nat /\ n \in Nat /\ m < n /\ n <= Len(bytes)
      /\ n = IF k * MaxPacket <= Len(bytes) THEN m + MaxPacket ELSE Len(bytes)
  BY PieceIs
<1>2. Packets(bytes, ext)[k] = packet
  BY DEF Packets
<1>3. MaxPacket \in Nat /\ Len(bytes) \in Nat
  BY FlowAssumption
<1> HIDE DEF m, n
<1>4. piece \in Seq(T) /\ Len(piece) = n - m
      /\ \A i \in 1..(n - m) : piece[i] = bytes[m + i]
  <2>1. m \in Nat /\ n \in Nat /\ m <= n /\ n <= Len(bytes)
    BY <1>1
  <2> QED
    BY <2>1, SliceIs, Zenon
<1> HIDE DEF piece
<1>5. packet \in Seq(Kind(T)) /\ Len(packet) = Len(piece)
      /\ \A i \in 1..Len(piece) : packet[i] = <<ext, piece[i]>>
  BY <1>4, MarkedIs
<1> HIDE DEF packet
<1>7. packet \in Seq(Kind(T)) /\ Len(packet) = n - m
      /\ \A i \in 1..(n - m) : packet[i] = <<ext, bytes[m + i]>>
  BY <1>4, <1>5
<1>8. n - m = IF k * MaxPacket <= Len(bytes) THEN MaxPacket ELSE Len(bytes) - m
  BY <1>1, <1>3
<1> QED
  BY <1>2, <1>7, <1>8 DEF m

LEMMA SeqFrom ==
    ASSUME NEW T, NEW n \in Nat, NEW s, s = [i \in 1..n |-> s[i]], \A i \in 1..n : s[i] \in T
    PROVE  s \in Seq(T) /\ DOMAIN s = 1..n /\ Len(s) = n
OBVIOUS

LEMMA PacketsAre ==
    ASSUME NEW T, NEW bytes \in Seq(T), NEW ext \in BOOLEAN
    PROVE  /\ Packets(bytes, ext) \in Seq(Seq(Kind(T)))
           /\ Bytes(Packets(bytes, ext)) = Len(bytes)
<1> DEFINE L == Len(bytes)
           M == MaxPacket
           K == (L + M - 1) \div M
           P == Packets(bytes, ext)
           q == [k \in DOMAIN P |-> Len(P[k])]
           G == [k \in 0..K |-> IF k * M <= L THEN k * M ELSE L]
<1>1. /\ K \in Nat /\ L \in Nat /\ M \in Nat /\ L <= K * M
      /\ \A k \in 1..K : (k - 1) * M \in Nat /\ (k - 1) * M < L /\ k * M = (k - 1) * M + M
  BY RoundedUp, FlowAssumption
<1>2. P = [k \in 1..K |-> P[k]]
  BY DEF Packets
<1>3. \A k \in 1..K : /\ P[k] \in Seq(Kind(T))
                      /\ Len(P[k]) = IF k * M <= L THEN M ELSE L - (k - 1) * M
  BY PacketIs
<1> HIDE DEF K, P, L, M
<1>4. P \in Seq(Seq(Kind(T))) /\ DOMAIN P = 1..K /\ Len(P) = K
  <2>1. K \in Nat /\ \A k \in 1..K : P[k] \in Seq(Kind(T))
    BY <1>1, <1>3
  <2> QED
    BY <1>2, <2>1, SeqFrom, Zenon
<1>5. q \in Seq(Nat) /\ Len(q) = K /\ \A k \in 1..K : q[k] = Len(P[k])
  <2>1. \A k \in 1..K : Len(P[k]) \in Nat
    BY <1>3
  <2> QED
    BY <1>1, <1>4, <2>1
<1> HIDE DEF q
<1>6. G[0] = 0
  BY <1>1
<1>7. ASSUME NEW k \in 1..K PROVE G[k] = G[k - 1] + q[k]
  <2>1. /\ (k - 1) * M \in Nat /\ (k - 1) * M < L /\ k * M = (k - 1) * M + M
        /\ q[k] = IF k * M <= L THEN M ELSE L - (k - 1) * M
    BY <1>1, <1>3, <1>5, Zenon
  <2>0. k - 1 \in 0..K /\ k \in 0..K
    <3>1. K \in Nat
      BY <1>1
    <3> QED
      BY <3>1
  <2>2. G[k] = IF k * M <= L THEN k * M ELSE L
    BY <2>0
  <2>3. G[k - 1] = IF (k - 1) * M <= L THEN (k - 1) * M ELSE L
    BY <2>0
  <2> HIDE DEF G
  <2> QED
    BY <1>1, <2>1, <2>2, <2>3
<1>8. G[K] = L
  <2>1. G[K] = IF K * M <= L THEN K * M ELSE L
    BY <1>1
  <2>2. K * M \in Nat
    BY <1>1
  <2> HIDE DEF G
  <2> QED
    BY <1>1, <2>1, <2>2
<1> HIDE DEF G
<1>9. SumOf(q) = G[Len(q)]
  BY <1>5, <1>6, <1>7, SumIs
<1>10. Bytes(P) = SumOf(q)
  BY DEF Bytes, q
<1> QED
  BY <1>4, <1>5, <1>8, <1>9, <1>10 DEF P, L

LEMMA FlushPrefixes ==
    ASSUME NEW T, chan.pending_data \in Seq(T), NEW w
    PROVE  \E F : /\ F = [k \in 0..Len(chan.pending_data) |-> F[k]]
                  /\ F[0] = Unflushed(w) /\ F[Len(chan.pending_data)] = Flush(w)
                  /\ \A k \in 1..Len(chan.pending_data) : F[k] = FlushOne(F[k - 1], chan.pending_data[k])
<1> DEFINE q == chan.pending_data
           Iter(n, g) ==
              g = [s \in SUBSET (1..n) |->
                     IF s = {} THEN Unflushed(w) ELSE FlushOne(g[s \ {Max(s)}], q[Max(s)])]
       Exists(n) == \E g : Iter(n, g)
<1>1. Len(q) \in Nat /\ DOMAIN q = 1..Len(q)
  OBVIOUS
<1>2. Exists(0)
  <2>1. \A s \in SUBSET (1..0) : s = {}
    OBVIOUS
  <2> WITNESS [s \in SUBSET (1..0) |-> Unflushed(w)]
  <2> QED
    BY <2>1
<1>3. ASSUME NEW n \in 1..Len(q), Exists(n - 1) PROVE Exists(n)
  <2>1. PICK h : Iter(n - 1, h)
    BY <1>3
  <2> DEFINE g == [s \in SUBSET (1..n) |-> IF n \in s THEN FlushOne(h[s \ {n}], q[n]) ELSE h[s]]
  <2>2. n \in Nat /\ n - 1 \in Nat
    OBVIOUS
  <2>3. ASSUME NEW s \in SUBSET (1..n)
        PROVE  g[s] = IF s = {} THEN Unflushed(w) ELSE FlushOne(g[s \ {Max(s)}], q[Max(s)])
    <3>1. CASE n \in s
      <4>1. Max(s) = n
        BY <2>2, <3>1, MaxOfPrefix
      <4>2. g[s \ {n}] = h[s \ {n}]
        OBVIOUS
      <4> QED
        BY <3>1, <4>1, <4>2
    <3>2. CASE n \notin s
      <4>1. s \in SUBSET (1..(n - 1))
        BY <2>2, <3>2
      <4>2. h[s] = IF s = {} THEN Unflushed(w) ELSE FlushOne(h[s \ {Max(s)}], q[Max(s)])
        BY <2>1, <4>1
      <4>3. g[s] = h[s] /\ g[s \ {Max(s)}] = h[s \ {Max(s)}]
        BY <3>2
      <4> QED
        BY <4>2, <4>3
    <3> QED
      BY <3>1, <3>2
  <2>4. g = [s \in SUBSET (1..n) |-> g[s]]
    OBVIOUS
  <2> HIDE DEF g
  <2> WITNESS g
  <2> QED
    BY <2>3, <2>4
<1>4. Exists(Len(q))
  <2> DEFINE S == {n \in 0..Len(q) : Exists(n)}
  <2> HIDE DEF Exists
  <2>1. 0 \in S /\ \A n \in 1..Len(q) : n - 1 \in S => n \in S
    BY <1>1, <1>2, <1>3
  <2> HIDE DEF S
  <2>2. \A n \in 0..Len(q) : n \in S
    BY <1>1, <2>1, Upwards
  <2> QED
    BY <1>1, <2>2 DEF S
<1> DEFINE it == CHOOSE g : Iter(Len(q), g)
<1>5. Iter(Len(q), it)
  <2> HIDE DEF Iter
  <2> QED
    BY <1>1, <1>4
<1>6. Flush(w) = it[1..Len(q)]
  BY <1>1, Zenon DEF Flush, FoldLeft, MapThenFoldSet
<1> HIDE DEF it
<1> DEFINE F == [k \in 0..Len(q) |-> it[1..k]]
<1>7. ASSUME NEW k \in 1..Len(q) PROVE it[1..k] = FlushOne(it[1..(k - 1)], q[k])
  <2>1. /\ 1..k \in SUBSET (1..Len(q)) /\ k \in 1..k /\ 1..k \in SUBSET (1..k) /\ k \in Nat
        /\ (1..k) \ {k} = 1..(k - 1)
    BY <1>1
  <2>2. Max(1..k) = k
    BY <2>1, MaxOfPrefix
  <2> QED
    BY <1>5, <2>1, <2>2
<1>8. it[1..0] = Unflushed(w)
  <2>1. 1..0 = {} /\ {} \in SUBSET (1..Len(q))
    OBVIOUS
  <2> QED
    BY <1>5, <2>1
<1> WITNESS F
<1> QED
  BY <1>1, <1>6, <1>7, <1>8

-----------------------------------------------------------------------------
(* What flush_pending keeps. *)

Byte == 1..Total

Text == Seq(Byte)

Packet == Seq(Kind(Byte))

Entry == [buf : Text, from : 0..Total]

Fits(entry) == entry.from <= Len(entry.buf) /\ Len(entry.buf) <= Total

Pending == {entry \in Entry : Fits(entry)}

Flushing(f, window) ==
    /\ f \in [window : Nat, out : Seq(Packet), left : Seq(Pending),
              stop : BOOLEAN, panic : BOOLEAN]
    /\ f.window + Bytes(f.out) = window

LEMMA Spent ==
    ASSUME NEW w \in Nat, NEW b \in Nat, NEW n \in Nat, n <= w
    PROVE  w - n \in Nat /\ (w - n) + (b + n) = w + b
OBVIOUS

LEMMA FlushOneKeeps ==
    ASSUME NEW f, NEW window \in Nat, Flushing(f, window), NEW entry \in Pending
    PROVE  Flushing(FlushOne(f, entry), window)
<1> DEFINE buf == entry.buf
           from == entry.from
           end == SliceEnd(f.window, buf)
           now == Slice(f.window, buf, from)
           sent == Packets(now, FALSE)
<1>1. /\ f.window \in Nat /\ f.out \in Seq(Packet) /\ f.left \in Seq(Pending)
      /\ f.stop \in BOOLEAN /\ f.panic \in BOOLEAN
      /\ f.window + Bytes(f.out) = window
      /\ f = [window |-> f.window, out |-> f.out, left |-> f.left,
              stop |-> f.stop, panic |-> f.panic]
  BY DEF Flushing
<1>2. /\ buf \in Text /\ from \in 0..Total /\ from <= Len(buf) /\ Len(buf) <= Total
      /\ Len(buf) \in Nat /\ entry = [buf |-> buf, from |-> from] /\ Total \in Nat
  BY FlowAssumption DEF Pending, Entry, Fits, Text
<1>3. end \in Nat /\ end <= f.window /\ end <= Len(buf)
  BY <1>1, <1>2 DEF SliceEnd
<1> HIDE DEF end
<1>4. CASE f.stop
  <2> DEFINE left == Append(f.left, entry)
  <2>1. left \in Seq(Pending)
    BY <1>1
  <2>2. FlushOne(f, entry) = [window |-> f.window, out |-> f.out, left |-> left,
                              stop |-> f.stop, panic |-> f.panic]
    BY <1>1, <1>4 DEF FlushOne
  <2> HIDE DEF left
  <2> QED
    BY <1>1, <2>1, <2>2 DEF Flushing
<1>5. CASE ~f.stop /\ SliceFails(f.window, buf, from)
  <2>1. FlushOne(f, entry) = [window |-> f.window, out |-> f.out, left |-> f.left,
                              stop |-> TRUE, panic |-> TRUE]
    BY <1>1, <1>5 DEF FlushOne
  <2> QED
    BY <1>1, <2>1 DEF Flushing
<1>6. CASE ~f.stop /\ ~SliceFails(f.window, buf, from)
  <2>1. from <= end
    BY <1>2, <1>3, <1>6 DEF SliceFails, end
  <2>2. now \in Text /\ Len(now) = end - from
    <3>1. now = SubSeq(buf, from + 1, end) /\ from \in Nat
      BY <1>2 DEF Slice, end
    <3>2. SubSeq(buf, from + 1, end) \in Text /\ Len(SubSeq(buf, from + 1, end)) = end - from
      <4>1. buf \in Seq(Byte) /\ from \in Nat /\ end \in Nat /\ from <= end /\ end <= Len(buf)
        BY <1>2, <1>3, <2>1, <3>1 DEF Text
      <4> QED
        BY ONLY <4>1, SliceIs DEF Text
    <3> HIDE DEF now
    <3> QED
      BY <3>1, <3>2
  <2> HIDE DEF now
  <2>3. sent \in Seq(Packet) /\ Bytes(sent) = Len(now)
    BY <2>2, PacketsAre DEF Text, Packet
  <2> HIDE DEF sent
  <2> DEFINE out == f.out \o sent
  <2>4. out \in Seq(Packet) /\ Bytes(out) = Bytes(f.out) + Len(now) /\ Bytes(f.out) \in Nat
    BY <1>1, <2>3, BytesConcat DEF Packet
  <2>5. f.window - Len(now) \in Nat /\ (f.window - Len(now)) + Bytes(out) = window
    <3>1. Len(now) \in Nat /\ Len(now) <= f.window
      <4>1. from \in Nat
        BY <1>2
      <4> HIDE DEF from
      <4> QED
        BY <1>1, <1>3, <2>1, <2>2, <4>1
    <3>2. /\ f.window \in Nat /\ f.window + Bytes(f.out) = window
          /\ Bytes(f.out) \in Nat /\ Bytes(out) = Bytes(f.out) + Len(now)
      BY <1>1, <2>4
    <3> HIDE DEF out
    <3>3. /\ f.window - Len(now) \in Nat
          /\ (f.window - Len(now)) + (Bytes(f.out) + Len(now)) = f.window + Bytes(f.out)
      <4> QED
        BY ONLY Spent, <3>1, <3>2
    <3> QED
      BY ONLY <3>2, <3>3
  <2>6. CASE Len(now) < Len(buf)
    <3> DEFINE e == [buf |-> buf, from |-> Len(now)]
               left == <<e>>
    <3>1. e \in Pending
      BY <1>2, <1>3, <2>1, <2>2, <2>6 DEF Pending, Entry, Fits
    <3>2. left \in Seq(Pending)
      BY <3>1
    <3>3. FlushOne(f, entry) = [window |-> f.window - Len(now), out |-> out,
                                left |-> left, stop |-> TRUE, panic |-> f.panic]
      <4>1. FlushOne(f, entry) =
                [f EXCEPT !.stop = TRUE, !.window = @ - Len(now), !.out = @ \o sent,
                          !.left = <<[entry EXCEPT !.from = Len(now)]>>]
        BY <1>6, <2>6, Zenon DEF FlushOne, now, sent
      <4>2. [entry EXCEPT !.from = Len(now)] = e
        BY <1>2
      <4> HIDE DEF e, left
      <4>3. left = <<e>>
        BY DEF left
      <4> QED
        BY <1>1, <4>1, <4>2, <4>3
    <3> HIDE DEF left, out
    <3> QED
      BY <1>1, <2>4, <2>5, <3>2, <3>3 DEF Flushing
  <2>7. CASE ~(Len(now) < Len(buf))
    <3>1. FlushOne(f, entry) = [window |-> f.window - Len(now), out |-> out,
                                left |-> f.left, stop |-> f.stop, panic |-> f.panic]
      <4>1. FlushOne(f, entry) = [f EXCEPT !.window = @ - Len(now), !.out = @ \o sent]
        BY <1>6, <2>7, Zenon DEF FlushOne, now, sent
      <4> QED
        BY <1>1, <4>1
    <3> HIDE DEF out
    <3> QED
      BY <1>1, <2>4, <2>5, <3>1 DEF Flushing
  <2> QED
    BY <2>6, <2>7
<1> QED
  BY <1>1, <1>4, <1>5, <1>6

LEMMA FlushIs ==
    ASSUME chan.pending_data \in Seq(Pending), NEW window \in Nat
    PROVE  Flushing(Flush(window), window)
<1> DEFINE q == chan.pending_data
<1>1. Len(q) \in Nat /\ \A k \in 1..Len(q) : q[k] \in Pending
  OBVIOUS
<1>2. PICK F : /\ F[0] = Unflushed(window) /\ F[Len(q)] = Flush(window)
               /\ \A k \in 1..Len(q) : F[k] = FlushOne(F[k - 1], q[k])
  BY FlushPrefixes
<1>3. Flushing(Unflushed(window), window)
  <2>1. <<>> \in Seq(Packet) /\ <<>> \in Seq(Pending) /\ Bytes(<<>>) = 0
    <3>1. [i \in DOMAIN <<>> |-> Len(<<>>[i])] = <<>>
      OBVIOUS
    <3> QED
      BY <3>1, SumNone DEF Bytes
  <2> QED
    BY <2>1 DEF Flushing, Unflushed
<1> DEFINE S == {n \in 0..Len(q) : Flushing(F[n], window)}
<1>4. 0 \in S
  BY <1>1, <1>2, <1>3
<1>5. ASSUME NEW n \in 1..Len(q), n - 1 \in S PROVE n \in S
  <2>1. Flushing(F[n - 1], window) /\ q[n] \in Pending /\ F[n] = FlushOne(F[n - 1], q[n])
    BY <1>1, <1>2, <1>5
  <2>2. Flushing(F[n], window)
    BY <2>1, FlushOneKeeps
  <2> QED
    BY <1>1, <2>2
<1> HIDE DEF S
<1>6. \A n \in 0..Len(q) : n \in S
  BY <1>1, <1>4, <1>5, Upwards
<1>7. Flushing(F[Len(q)], window)
  BY <1>1, <1>6 DEF S
<1> QED
  BY <1>2, <1>7

-----------------------------------------------------------------------------
(* The types of both ends, and the window. *)

App == [sender : Senders, phase : {"idle", "sending", "waiting", "done", "failed"},
        window_size : Nat, taken : 0..Total, end : 0..Total]

Mail == {m \in [eof : BOOLEAN, bytes : Text] : Len(m.bytes) <= Total}

Chan == [recipient_window_size : Nat, open : BOOLEAN, alive : BOOLEAN,
         pending_data : Seq(Pending)]

Receiver == [sender_window_size : Nat, target : Nat, delivered : Packet,
             eof : BOOLEAN, closed : BOOLEAN]

(* The application's side.  A call never takes more than it was given. *)
Giving ==
    /\ app \in App
    /\ app.phase \in {"sending", "waiting"} => app.taken <= app.end
    /\ mailbox \in Seq(Mail) /\ Len(mailbox) <= Capacity
    /\ adjusted \in Seq(Nat)

(* What is granted or under way never exceeds what the receiver expects,    *)
(* and all of it can be used while the channel lives.                       *)
Balanced ==
    /\ chan.recipient_window_size + Bytes(wire) + Amount(adjusts)
            <= peer.sender_window_size
    /\ WindowConserved

Carrying ==
    /\ chan \in Chan /\ wire \in Seq(Packet)
    /\ adjusts \in Seq(Adjusting) /\ peer \in Receiver
    /\ Balanced

LEMMA DataIs ==
    ASSUME NEW from \in Nat, NEW n \in Nat, from + n <= Total
    PROVE  Data(from, n) \in Mail /\ Len(Data(from, n).bytes) = n
<1> DEFINE b == [i \in 1..n |-> from + i]
<1>1. \A i \in 1..n : from + i \in Byte
  BY FlowAssumption DEF Byte
<1>2. b \in Text /\ Len(b) = n
  BY <1>1 DEF Text
<1> HIDE DEF b
<1>3. Data(from, n) = [eof |-> FALSE, bytes |-> b]
  BY DEF Data, b
<1>4. n <= Total
  BY FlowAssumption
<1> QED
  BY <1>2, <1>3, <1>4 DEF Mail

LEMMA EofIs == Eof \in Mail
<1>1. <<>> \in Text /\ Len(<<>>) <= Total
  BY FlowAssumption DEF Text
<1> QED
  BY <1>1 DEF Eof, Mail

LEMMA NextEndIs ==
    ASSUME app.taken \in 0..Total
    PROVE  NextEnd \in 0..Total /\ app.taken <= NextEnd
<1> DEFINE S == {e \in Ends : e > app.taken} \cup {Total}
<1>0. Total \in Nat /\ Ends \subseteq 1..Total
  BY ONLY FlowAssumption DEF FlowAssumption
<1>1. S \in SUBSET Nat /\ S # {} /\ \A e \in S : app.taken <= e /\ e <= Total
  <2>1. ASSUME NEW e \in S PROVE e \in Nat /\ app.taken <= e /\ e <= Total
    <3>1. CASE e \in Ends /\ e > app.taken
      <4>1. e \in 1..Total
        BY <1>0, <3>1
      <4> QED
        BY ONLY <1>0, <3>1, <4>1, app.taken \in 0..Total
    <3>2. CASE e = Total
      BY ONLY <1>0, <3>2, app.taken \in 0..Total
    <3> QED
      BY <3>1, <3>2
  <2>2. Total \in S
    OBVIOUS
  <2> HIDE DEF S
  <2> QED
    BY <2>1, <2>2
<1> HIDE DEF S
<1>2. Min(S) \in S
  BY <1>1, LeastOf
<1>3. NextEnd = Min(S)
  BY DEF NextEnd, S
<1>4. NextEnd \in Nat /\ app.taken <= NextEnd /\ NextEnd <= Total
  BY <1>1, <1>2, <1>3, Zenon
<1> QED
  BY ONLY <1>0, <1>4

(* What one read takes. *)
LEMMA Takes ==
    ASSUME NEW window \in Nat, NEW taken \in Nat, NEW end \in Nat, NEW total \in Nat,
           NEW n \in Nat, end <= total, n <= window, n <= end - taken
    PROVE  /\ window - n \in Nat /\ taken + n \in 0..total
           /\ taken + n <= end /\ taken + n <= total
OBVIOUS

LEMMA AtMost == \A k, m, n \in Nat : k <= m /\ m <= n => k <= n
OBVIOUS

LEMMA LesserIs ==
    \A a, b \in Nat : /\ Min({a, b}) \in Nat
                      /\ Min({a, b}) <= a /\ Min({a, b}) <= b
<1> SUFFICES ASSUME NEW a \in Nat, NEW b \in Nat
             PROVE  Min({a, b}) \in Nat /\ Min({a, b}) <= a /\ Min({a, b}) <= b
  OBVIOUS
<1>1. a \in Int /\ b \in Int
  OBVIOUS
<1>2. Min({a, b}) = IF a <= b THEN a ELSE b
  BY <1>1, MinOfTwo, Zenon
<1> QED
  BY <1>2

(* A message queued by the application. *)
LEMMA Mailed ==
    ASSUME Giving, NEW m \in Mail, Len(mailbox) < Capacity
    PROVE  Append(mailbox, m) \in Seq(Mail) /\ Len(Append(mailbox, m)) <= Capacity
<1>1. mailbox \in Seq(Mail) /\ Capacity \in Nat
  BY FlowAssumption DEF Giving
<1> QED
  BY <1>1

LEMMA CountsAre ==
    ASSUME NEW most \in Nat,
           NEW n \in (IF ShortReads THEN Min({1, most})..most ELSE {most})
    PROVE  n \in Nat /\ n <= most
<1>1. Min({1, most}) \in Nat
  BY LesserIs
<1> QED
  BY <1>1

LEMMA AppStepsGiving == ASSUME Giving, AppSteps PROVE Giving'
<1>1. /\ app \in App /\ mailbox \in Seq(Mail) /\ Len(mailbox) <= Capacity
      /\ adjusted \in Seq(Nat)
      /\ app.window_size \in Nat /\ app.taken \in 0..Total /\ app.end \in 0..Total
      /\ app.phase \in {"sending", "waiting"} => app.taken <= app.end
      /\ app = [sender |-> app.sender, phase |-> app.phase,
                window_size |-> app.window_size, taken |-> app.taken, end |-> app.end]
  BY DEF Giving, App
<1>2. Total \in Nat /\ MaxPacket \in Nat
  BY ONLY FlowAssumption DEF FlowAssumption
<1>3. adjusted # <<>> => Head(adjusted) \in Nat /\ Tail(adjusted) \in Seq(Nat)
  BY <1>1
<1>4. CASE AppSend
  <2> DEFINE sendable == Min({app.window_size, MaxPacket})
             most == Min({sendable, app.end - app.taken})
             Reads(n) == /\ mailbox' = Append(mailbox, Data(app.taken, n))
                         /\ app' = [app EXCEPT
                                !.taken = @ + n,
                                !.window_size = Charge(@, n),
                                !.phase = IF sendable > 0 /\ n = 0 THEN "idle"
                                          ELSE IF Charge(app.window_size, n) > 0
                                          THEN "sending" ELSE "waiting"]
             counts == IF ShortReads THEN Min({1, most})..most ELSE {most}
  <2>1. app.phase = "sending" /\ Len(mailbox) < Capacity /\ adjusted' = adjusted
    BY <1>4, Zenon DEF AppSend
  <2>2. sendable \in Nat /\ sendable <= app.window_size
    BY <1>1, <1>2, LesserIs, Zenon
  <2>3. app.end - app.taken \in Nat
    BY ONLY <1>1, <1>2, <2>1
  <2>4. most \in Nat /\ most <= sendable /\ most <= app.end - app.taken
    BY <2>2, <2>3, LesserIs, Zenon
  <2>5. \A n \in counts : n \in Nat /\ n <= most
    <3> HIDE DEF most
    <3> QED
      BY <2>4, CountsAre, Zenon
  <2>6. PICK n \in counts : Reads(n)
    BY <1>4, Zenon DEF AppSend
  <2> HIDE DEF counts, most, sendable
  <2>7. n \in Nat /\ n <= most
    BY <2>5, <2>6
  <2> DEFINE taken == app.taken + n
             window == Charge(app.window_size, n)
             phase == IF sendable > 0 /\ n = 0 THEN "idle"
                      ELSE IF window > 0 THEN "sending" ELSE "waiting"
  <2>8. /\ window \in Nat /\ taken \in 0..Total
        /\ taken <= app.end /\ app.taken + n <= Total
    <3>1. /\ app.window_size \in Nat /\ app.taken \in Nat /\ app.end \in Nat
          /\ app.end <= Total
      BY <1>1, <1>2
    <3>2. /\ app.window_size - n \in Nat /\ app.taken + n \in 0..Total
          /\ app.taken + n <= app.end /\ app.taken + n <= Total
      <4>1. n <= sendable /\ n <= app.end - app.taken
        BY <2>2, <2>3, <2>4, <2>7, AtMost, Zenon
      <4>2. n <= app.window_size
        BY <2>2, <2>7, <3>1, <4>1, AtMost, Zenon
      <4> QED
        BY <1>2, <2>7, <3>1, <4>1, <4>2, Takes, Zenon
    <3> QED
      BY <3>2, Zenon DEF Charge
  <2>9. phase \in {"idle", "sending", "waiting"}
    OBVIOUS
  <2>10. app' = [sender |-> app.sender, phase |-> phase,
                 window_size |-> window, taken |-> taken, end |-> app.end]
    BY <1>1, <2>6
  <2> HIDE DEF phase, window, taken
  <2>11. app' \in App /\ app'.taken <= app'.end
    BY <1>1, <2>8, <2>9, <2>10 DEF App
  <2>12. Data(app.taken, n) \in Mail
    <3>1. app.taken \in Nat /\ app.taken + n <= Total
      BY <1>1, <2>8 DEF taken
    <3> QED
      BY <2>7, <3>1, DataIs, Zenon
  <2>13. mailbox' \in Seq(Mail) /\ Len(mailbox') <= Capacity
    BY <2>1, <2>6, <2>12, Mailed
  <2> QED
    BY <1>1, <2>1, <2>11, <2>13 DEF Giving
<1>5. CASE AppResume
  <2> DEFINE to(w) == [sender |-> app.sender, phase |-> "sending",
                       window_size |-> w, taken |-> app.taken, end |-> app.end]
  <2>1. \A w \in Nat : to(w) \in App /\ to(w).taken <= to(w).end
    <3>1. app.taken <= app.end
      BY <1>1, <1>5 DEF AppResume
    <3> QED
      BY <1>1, <3>1 DEF App
  <2>2. app' = to(Head(adjusted)) \/ app' = to(app.window_size)
    BY <1>1, <1>5 DEF AppResume
  <2>3. mailbox' = mailbox /\ adjusted' \in Seq(Nat) /\ (adjusted # <<>> \/ app' = to(app.window_size))
    BY <1>1, <1>3, <1>5 DEF AppResume
  <2> HIDE DEF to
  <2>4. app' \in App /\ app'.taken <= app'.end
    BY <1>1, <1>3, <2>1, <2>2, <2>3
  <2> QED
    BY <1>1, <2>3, <2>4 DEF Giving
<1>6. CASE AppFails
  BY <1>1, <1>6 DEF AppFails, Giving, App
<1>7. CASE AppCall
  BY <1>1, <1>7, NextEndIs DEF AppCall, Giving, App
<1>8. CASE AppWait
  <2>1. app.window_size + Head(adjusted) \in Nat /\ app.phase = "idle"
    BY <1>1, <1>3, <1>8 DEF AppWait
  <2> QED
    BY <1>1, <1>3, <1>8, <2>1 DEF AppWait, Giving, App
<1>9. CASE HandleData
  <2>1. /\ app.phase = "idle" /\ Len(mailbox) < Capacity /\ adjusted' = adjusted
        /\ mailbox' = Append(mailbox, Data(app.taken, NextEnd - app.taken))
        /\ app' = [app EXCEPT !.taken = NextEnd]
    BY <1>9 DEF HandleData
  <2>2. NextEnd \in 0..Total /\ app.taken <= NextEnd
    BY <1>1, NextEndIs
  <2>3. Data(app.taken, NextEnd - app.taken) \in Mail
    <3>1. app.taken \in Nat /\ NextEnd - app.taken \in Nat
          /\ app.taken + (NextEnd - app.taken) <= Total
      BY ONLY <1>1, <1>2, <2>2
    <3> QED
      BY <3>1, DataIs, Zenon
  <2>4. mailbox' \in Seq(Mail) /\ Len(mailbox') <= Capacity
    BY <2>1, <2>3, Mailed
  <2>5. app' \in App /\ app'.phase = "idle"
    BY <1>1, <2>1, <2>2 DEF App
  <2> QED
    BY <1>1, <2>1, <2>4, <2>5 DEF Giving
<1>10. CASE AppEof
  <2>1. /\ Len(mailbox) < Capacity /\ adjusted' = adjusted
        /\ mailbox' = Append(mailbox, Eof) /\ app' = [app EXCEPT !.phase = "done"]
    BY <1>10 DEF AppEof
  <2>2. mailbox' \in Seq(Mail) /\ Len(mailbox') <= Capacity
    BY <2>1, EofIs, Mailed
  <2>3. app' \in App /\ app'.phase = "done"
    BY <1>1, <2>1 DEF App
  <2> QED
    BY <1>1, <2>1, <2>2, <2>3 DEF Giving
<1> QED
  BY <1>4, <1>5, <1>6, <1>7, <1>8, <1>9, <1>10 DEF AppSteps

-----------------------------------------------------------------------------
(* The tunnel's side: also the sizes it is told are sizes. *)

Report == [eof : BOOLEAN, size : Nat]

Loops == [use : {"Channel", "RemoteTunnel"}, receive : {"up", "over"},
          ssh : {"up", "over", "panic", "error"}, tcp : {"up", "over", "error"},
          answers : Nat, eof : BOOLEAN]

Copying ==
    /\ Giving /\ toSsh \in Seq(Report) /\ tunnel \in Loops
    /\ Tunnelling => app.phase = "idle" \/ app.end = Total

LEMMA GivingStays == ASSUME Giving, UNCHANGED <<app, mailbox, adjusted>> PROVE Giving'
BY DEF Giving

LEMMA ReportIs == /\ \A n \in Nat : NewSize(n) \in Report
                  /\ ServerEof \in Report
BY DEF NewSize, ServerEof, Report

LEMMA Told ==
    ASSUME toSsh \in Seq(Report), NEW t, NEW m \in Report, ToSsh(t, m)
    PROVE  toSsh' \in Seq(Report)
<1>1. CASE toSsh' = Append(toSsh, m)
  BY <1>1
<1>2. CASE toSsh' = toSsh
  BY <1>2
<1> QED
  BY <1>1, <1>2 DEF ToSsh

LEMMA CopyToSshCopying == ASSUME Copying, CopyToSsh PROVE Copying'
<1>1. /\ app \in App /\ mailbox \in Seq(Mail) /\ Len(mailbox) <= Capacity
      /\ adjusted \in Seq(Nat) /\ toSsh \in Seq(Report)
      /\ app.window_size \in Nat /\ app.taken \in 0..Total /\ app.end \in 0..Total
      /\ app = [sender |-> app.sender, phase |-> app.phase,
                window_size |-> app.window_size, taken |-> app.taken, end |-> app.end]
      /\ tunnel \in Loops
  BY DEF Copying, Giving, App
<1>2. Total \in Nat /\ MaxPacket - Margin \in Nat
  BY ONLY FlowAssumption, TunnelAssumption DEF FlowAssumption, TunnelAssumption
<1> DEFINE most == Min({Sendable(app.window_size), Total - app.taken})
           Reads(n) == /\ mailbox' = Append(mailbox, Data(app.taken, n))
                       /\ app' = [app EXCEPT
                              !.taken = @ + n,
                              !.window_size = Charge(@, n),
                              !.phase = IF Charge(app.window_size, n) > 0
                                        THEN "sending" ELSE "waiting"]
           counts == IF ShortReads THEN 1..most ELSE {most} \ {0}
<1>3. /\ Len(mailbox) < Capacity /\ adjusted' = adjusted /\ toSsh' = toSsh
      /\ app.phase = "sending" /\ Tunnelling
  BY Zenon DEF CopyToSsh
<1>0. app.end = Total
  BY <1>3 DEF Copying
<1>9. /\ tunnel' \in Loops
      /\ tunnel' = tunnel \/ tunnel' = [tunnel EXCEPT !.ssh = "over"]
  <2>1. tunnel' = tunnel \/ tunnel' = [tunnel EXCEPT !.ssh = "over"]
    BY Zenon DEF CopyToSsh
  <2> QED
    BY <1>1, <2>1 DEF Loops
<1>4. \/ mailbox' = Append(mailbox, Eof) /\ app' = [app EXCEPT !.phase = "done"]
      \/ \E n \in counts : Reads(n)
  BY Zenon DEF CopyToSsh
<1>5. CASE mailbox' = Append(mailbox, Eof) /\ app' = [app EXCEPT !.phase = "done"]
  <2>1. mailbox' \in Seq(Mail) /\ Len(mailbox') <= Capacity
    BY <1>3, <1>5, EofIs, Mailed DEF Copying
  <2>2. app' \in App /\ app'.phase = "done"
    BY <1>1, <1>5 DEF App
  <2>3. app'.end = app.end
    BY <1>1, <1>5
  <2> QED
    BY <1>0, <1>1, <1>3, <1>9, <2>1, <2>2, <2>3 DEF Copying, Giving
<1>6. CASE \E n \in counts : Reads(n)
  <2>1. Sendable(app.window_size) \in Nat /\ Sendable(app.window_size) <= app.window_size
    BY <1>1, <1>2, LesserIs, Zenon DEF Sendable
  <2>2. Total - app.taken \in Nat /\ app.taken \in Nat
    BY ONLY <1>1, <1>2
  <2>3. most \in Nat /\ most <= Sendable(app.window_size) /\ most <= Total - app.taken
    BY <2>1, <2>2, LesserIs, Zenon
  <2> HIDE DEF most
  <2>4. \A n \in counts : n \in Nat /\ n <= most
    BY ONLY <2>3 DEF counts
  <2>5. PICK n \in counts : Reads(n)
    BY <1>6, Zenon
  <2> HIDE DEF counts
  <2>6. n \in Nat /\ n <= most
    BY <2>4, <2>5
  <2>7. n <= Sendable(app.window_size) /\ n <= Total - app.taken
    BY <2>1, <2>2, <2>3, <2>6, AtMost, Zenon
  <2>8. n <= app.window_size
    BY <1>1, <2>1, <2>6, <2>7, AtMost, Zenon
  <2> DEFINE taken == app.taken + n
             window == Charge(app.window_size, n)
             phase == IF window > 0 THEN "sending" ELSE "waiting"
  <2>9. window \in Nat /\ taken \in 0..Total /\ app.taken + n <= Total
    <3>1. Total <= Total
      BY <1>2
    <3>2. /\ app.window_size - n \in Nat /\ app.taken + n \in 0..Total
          /\ app.taken + n <= Total
      BY <1>1, <1>2, <2>2, <2>6, <2>7, <2>8, <3>1, Takes, Zenon
    <3> QED
      BY <3>2, Zenon DEF Charge
  <2>10. phase \in {"sending", "waiting"}
    OBVIOUS
  <2>11. app' = [sender |-> app.sender, phase |-> phase,
                 window_size |-> window, taken |-> taken, end |-> app.end]
    BY <1>1, <2>5
  <2> HIDE DEF phase, window, taken
  <2>12. app' \in App /\ app'.end = Total /\ app'.taken \in 0..Total
    BY <1>0, <1>1, <2>9, <2>10, <2>11 DEF App
  <2>15. app'.taken <= app'.end
    BY ONLY <1>2, <2>12
  <2>13. Data(app.taken, n) \in Mail
    BY <2>2, <2>6, <2>9, DataIs, Zenon
  <2>14. mailbox' \in Seq(Mail) /\ Len(mailbox') <= Capacity
    BY <1>3, <2>5, <2>13, Mailed DEF Copying
  <2> QED
    BY <1>1, <1>3, <1>9, <2>12, <2>14, <2>15 DEF Copying, Giving
<1> QED
  BY <1>4, <1>5, <1>6, Zenon

LEMMA TunnelStepsCopying == ASSUME Copying, TunnelSteps PROVE Copying'
<1>1. /\ Giving /\ app \in App /\ adjusted \in Seq(Nat) /\ toSsh \in Seq(Report)
      /\ app.window_size \in Nat /\ app.taken \in 0..Total /\ app.end \in 0..Total
      /\ app.phase \in {"sending", "waiting"} => app.taken <= app.end
      /\ app = [sender |-> app.sender, phase |-> app.phase,
                window_size |-> app.window_size, taken |-> app.taken, end |-> app.end]
      /\ tunnel \in Loops
      /\ Tunnelling => app.phase = "idle" \/ app.end = Total
  BY DEF Copying, Giving, App
<1>2. Total \in Nat
  BY ONLY FlowAssumption DEF FlowAssumption
<1>3. adjusted # <<>> => Head(adjusted) \in Nat /\ Tail(adjusted) \in Seq(Nat)
  BY <1>1
<1>4. toSsh # <<>> => Head(toSsh) \in Report /\ Tail(toSsh) \in Seq(Report)
  BY <1>1
<1>5. ASSUME tunnel' \in Loops, tunnel'.use = tunnel.use, toSsh' \in Seq(Report),
             UNCHANGED <<app, mailbox>>, adjusted' \in Seq(Nat)
      PROVE  Copying'
  BY <1>1, <1>5 DEF Copying, Giving, Tunnelling
<1>6. CASE Run
  <2>1. app' \in App /\ app'.taken <= app'.end /\ app'.end = Total
    <3>1. app' = [sender |-> app.sender, phase |-> "sending",
                  window_size |-> app.window_size, taken |-> app.taken, end |-> Total]
      BY <1>1, <1>6 DEF Run
    <3>2. app.taken <= Total /\ Total \in 0..Total
      BY ONLY <1>1, <1>2
    <3> QED
      BY <1>1, <3>1, <3>2 DEF App
  <2>2. UNCHANGED <<mailbox, adjusted, tunnel, toSsh>>
    BY <1>6 DEF Run, tunnelVars
  <2> QED
    BY <1>1, <2>1, <2>2 DEF Copying, Giving, Tunnelling
<1>7. CASE CopyToSsh
  BY <1>7, CopyToSshCopying
<1>8. CASE CopyFails
  <2>1. /\ UNCHANGED <<mailbox, adjusted, toSsh>> /\ Tunnelling /\ app.phase = "sending"
        /\ app' = [app EXCEPT !.phase = "failed"]
        /\ \/ tunnel' = [tunnel EXCEPT !.ssh = "over"]
           \/ tunnel' = [tunnel EXCEPT !.ssh = "error"]
    BY <1>8 DEF CopyFails
  <2>2. app' \in App /\ app'.phase = "failed" /\ app'.end = Total
    BY <1>1, <2>1 DEF App
  <2>3. tunnel' \in Loops
    BY <1>1, <2>1 DEF Loops
  <2> QED
    BY <1>1, <2>1, <2>2, <2>3 DEF Copying, Giving
<1>9. CASE CopyResumes
  <2> DEFINE to(w) == [sender |-> app.sender, phase |-> "sending",
                       window_size |-> w, taken |-> app.taken, end |-> app.end]
  <2>1. /\ app.phase = "waiting" /\ Tunnelling /\ UNCHANGED <<mailbox, adjusted>>
        /\ app.end = Total /\ app.taken <= app.end
    BY <1>1, <1>9 DEF CopyResumes
  <2>2. \A w \in Nat : to(w) \in App /\ to(w).taken <= to(w).end /\ to(w).end = Total
    BY <1>1, <2>1 DEF App
  <2>3. CASE /\ toSsh # <<>> /\ toSsh' = Tail(toSsh) /\ tunnel' = tunnel
             /\ app' = [app EXCEPT !.phase = "sending", !.window_size = Head(toSsh).size]
    <3>1. app' = to(Head(toSsh).size) /\ Head(toSsh).size \in Nat
      BY <1>1, <1>4, <2>3 DEF Report
    <3> HIDE DEF to
    <3> QED
      BY <1>1, <1>4, <2>1, <2>2, <2>3, <3>1 DEF Copying, Giving
  <2>4. CASE /\ toSsh # <<>> /\ toSsh' = Tail(toSsh) /\ app' = app
             /\ tunnel' = [tunnel EXCEPT !.ssh = "panic"]
    <3>1. tunnel' \in Loops /\ tunnel'.use = tunnel.use
      BY <1>1, <2>4 DEF Loops
    <3> QED
      BY <1>1, <1>4, <1>5, <2>1, <2>4, <3>1
  <2>5. CASE UNCHANGED <<tunnel, toSsh>> /\ app' = [app EXCEPT !.phase = "sending"]
    <3>1. app' = to(app.window_size)
      BY <1>1, <2>5
    <3> HIDE DEF to
    <3> QED
      BY <1>1, <2>1, <2>2, <2>5, <3>1 DEF Copying, Giving
  <2> QED
    BY <1>9, <2>3, <2>4, <2>5, Zenon DEF CopyResumes
<1>10. CASE ReceiveAdjusted
  <2>1. /\ UNCHANGED <<app, mailbox>> /\ adjusted' \in Seq(Nat)
        /\ ToSsh(tunnel, NewSize(Head(adjusted))) /\ NewSize(Head(adjusted)) \in Report
    BY <1>3, <1>10, ReportIs DEF ReceiveAdjusted
  <2>2. toSsh' \in Seq(Report)
    BY <1>1, <2>1, Told
  <2>3. tunnel' \in Loops /\ tunnel'.use = tunnel.use
    BY <1>1, <2>1 DEF ToSsh, Loops
  <2> QED
    BY <1>5, <2>1, <2>2, <2>3
<1>11. CASE ReceiveData
  <2>1. UNCHANGED <<app, mailbox, adjusted, toSsh>>
    BY <1>11, Zenon DEF ReceiveData
  <2>2. tunnel' \in Loops /\ tunnel'.use = tunnel.use
    <3> DEFINE t == [tunnel EXCEPT !.answers = @ - 1]
    <3>1. tunnel.answers > 0
      BY <1>11, Zenon DEF ReceiveData
    <3>2. tunnel.answers - 1 \in Nat
      BY <1>1, <3>1 DEF Loops
    <3>3. t \in Loops /\ t.use = tunnel.use
      BY <1>1, <3>2 DEF Loops
    <3>4. tunnel' = t \/ tunnel' = [t EXCEPT !.receive = "over"]
      BY <1>11, Zenon DEF ReceiveData
    <3> HIDE DEF t
    <3> QED
      BY <3>3, <3>4 DEF Loops
  <2> QED
    BY <1>1, <1>5, <2>1, <2>2
<1>12. CASE ReceiveEof
  <2> DEFINE t == [tunnel EXCEPT !.eof = TRUE]
  <2>1. UNCHANGED <<app, mailbox, adjusted>>
    BY <1>12 DEF ReceiveEof
  <2>2. t \in Loops /\ t.use = tunnel.use
    BY <1>1 DEF Loops
  <2>3. ToSsh(t, ServerEof) \/ (tunnel' = [t EXCEPT !.receive = "over"] /\ toSsh' = toSsh)
    BY <1>12, Zenon DEF ReceiveEof
  <2> HIDE DEF t
  <2>4. toSsh' \in Seq(Report)
    BY <1>1, <2>3, Told, ReportIs
  <2>5. tunnel' \in Loops /\ tunnel'.use = tunnel.use
    BY <2>2, <2>3 DEF ToSsh, Loops
  <2> QED
    BY <1>1, <1>5, <2>1, <2>4, <2>5
<1>13. CASE ReceiveGone
  <2>1. UNCHANGED <<app, mailbox, adjusted, toSsh>> /\ tunnel' = [tunnel EXCEPT !.receive = "over"]
    BY <1>13 DEF ReceiveGone, vars
  <2>2. tunnel' \in Loops /\ tunnel'.use = tunnel.use
    BY <1>1, <2>1 DEF Loops
  <2> QED
    BY <1>1, <1>5, <2>1, <2>2
<1>14. CASE CopyToTcp
  <2>1. UNCHANGED <<app, mailbox, adjusted, toSsh>>
    BY <1>14 DEF CopyToTcp, vars
  <2>2. \/ tunnel' = tunnel \/ tunnel' = [tunnel EXCEPT !.tcp = "over"]
        \/ tunnel' = [tunnel EXCEPT !.tcp = "error"]
    BY <1>14, Zenon DEF CopyToTcp
  <2>3. tunnel' \in Loops /\ tunnel'.use = tunnel.use
    BY <1>1, <2>2 DEF Loops
  <2> QED
    BY <1>1, <1>5, <2>1, <2>3
<1> QED
  BY <1>6, <1>7, <1>8, <1>9, <1>10, <1>11, <1>12, <1>13, <1>14 DEF TunnelSteps

-----------------------------------------------------------------------------
(* The session steps keep the balance.  What leaves the sender's window is  *)
(* on the wire; what the receiver grants is under way.                      *)

LEMMA CarryingIs ==
    ASSUME Carrying
    PROVE  /\ chan \in Chan /\ wire \in Seq(Packet)
           /\ adjusts \in Seq(Adjusting) /\ peer \in Receiver
           /\ chan.recipient_window_size \in Nat /\ chan.pending_data \in Seq(Pending)
           /\ chan = [recipient_window_size |-> chan.recipient_window_size,
                      open |-> chan.open, alive |-> chan.alive,
                      pending_data |-> chan.pending_data]
           /\ chan.open \in BOOLEAN /\ chan.alive \in BOOLEAN
           /\ peer.sender_window_size \in Nat /\ peer.target \in Nat
           /\ Bytes(wire) \in Nat /\ Amount(adjusts) \in Nat
<1>1. /\ chan \in Chan /\ wire \in Seq(Packet)
      /\ adjusts \in Seq(Adjusting) /\ peer \in Receiver
  BY DEF Carrying
<1>2. Bytes(wire) \in Nat
  BY <1>1, BytesConcat, Zenon DEF Packet
<1>3. Amount(adjusts) \in Nat
  BY <1>1, AmountConcat, Zenon
<1> QED
  BY <1>1, <1>2, <1>3 DEF Chan, Receiver

(* The balance, as one sum for each side. *)
Balance == chan.recipient_window_size + Bytes(wire) + Amount(adjusts)

LEMMA StillBalanced ==
    ASSUME Carrying, Balance' = Balance, peer' = peer, ~Gone' => ~Gone,
           chan' \in Chan, wire' \in Seq(Packet), adjusts' \in Seq(Adjusting)
    PROVE  Carrying'
BY DEF Carrying, Balanced, WindowConserved, Balance

LEMMA MailHead ==
    ASSUME Giving, mailbox # <<>>
    PROVE  /\ Head(mailbox) \in Mail /\ Tail(mailbox) \in Seq(Mail)
           /\ Len(Tail(mailbox)) <= Capacity
<1>1. mailbox \in Seq(Mail) /\ Len(mailbox) <= Capacity /\ Capacity \in Nat
  BY FlowAssumption DEF Giving
<1>2. Len(Tail(mailbox)) \in Nat /\ Len(Tail(mailbox)) <= Len(mailbox) /\ Len(mailbox) \in Nat
  BY <1>1
<1>3. Len(Tail(mailbox)) <= Capacity
  BY <1>1, <1>2, AtMost, Zenon
<1> QED
  BY <1>1, <1>3

LEMMA GivingOn ==
    ASSUME Giving, app' = app, mailbox' \in {mailbox, Tail(mailbox)},
           mailbox = <<>> => mailbox' = mailbox, adjusted' \in Seq(Nat)
    PROVE  Giving'
BY MailHead DEF Giving

(* The first part of a buffer leaves, the rest of it is kept. *)
LEMMA FirstSlice ==
    ASSUME NEW w \in Nat, NEW buf \in Text
    PROVE  /\ Slice(w, buf, 0) \in Text /\ Len(Slice(w, buf, 0)) \in Nat
           /\ Len(Slice(w, buf, 0)) <= w /\ Len(Slice(w, buf, 0)) <= Len(buf)
<1> DEFINE end == SliceEnd(w, buf)
<1>1. end \in Nat /\ end <= w /\ end <= Len(buf) /\ 0 <= end /\ end - 0 = end
  BY DEF SliceEnd, Text
<1> HIDE DEF end
<1>2. SubSeq(buf, 0 + 1, end) \in Text /\ Len(SubSeq(buf, 0 + 1, end)) = end - 0
  BY <1>1, SliceIs DEF Text
<1> QED
  BY <1>1, <1>2 DEF Slice, end

LEMMA DataMoves ==
    ASSUME NEW w \in Nat, NEW b \in Nat, NEW a \in Nat, NEW n \in Nat, n <= w
    PROVE  (w - n) + (b + n) + a = w + b + a /\ w - n \in Nat
OBVIOUS

LEMMA SessionDataCarrying == ASSUME Giving, Carrying, SessionData PROVE Carrying'
<1> DEFINE w == chan.recipient_window_size
           q == chan.pending_data
           buf == Head(mailbox).bytes
           now == Slice(w, buf, 0)
           rest == IF q # <<>> THEN <<[buf |-> buf, from |-> 0]>>
                   ELSE IF Len(now) < Len(buf) THEN <<[buf |-> buf, from |-> Len(now)]>>
                   ELSE <<>>
           sent == IF q # <<>> THEN <<>> ELSE now
           left == Queue(q, rest)
           out == Packets(sent, Ext)
<1>1. /\ w \in Nat /\ q \in Seq(Pending) /\ wire \in Seq(Packet)
      /\ chan = [recipient_window_size |-> w, open |-> chan.open,
                 alive |-> chan.alive, pending_data |-> q]
      /\ chan.open \in BOOLEAN /\ chan.alive \in BOOLEAN
      /\ Bytes(wire) \in Nat /\ Amount(adjusts) \in Nat /\ adjusts \in Seq(Adjusting)
  BY CarryingIs
<1>2. buf \in Text /\ Len(buf) <= Total
  <2>1. mailbox # <<>>
    BY DEF SessionData
  <2> QED
    BY <2>1, MailHead DEF Mail
<1>3. /\ chan' = [chan EXCEPT !.recipient_window_size = @ - Len(sent), !.pending_data = left]
      /\ wire' = wire \o out /\ adjusts' = adjusts /\ peer' = peer
  BY Zenon DEF SessionData, Sent
<1>4. now \in Text /\ Len(now) \in Nat /\ Len(now) <= w /\ Len(now) <= Len(buf)
  BY <1>1, <1>2, FirstSlice
<1> HIDE DEF now, buf, w, q
<1>5. rest \in Seq(Pending)
  <2>1. ASSUME NEW n \in Nat, n <= Len(buf)
        PROVE  [buf |-> buf, from |-> n] \in Pending
    <3>1. n \in 0..Total
      <4>1. Total \in Nat /\ Len(buf) \in Nat
        BY <1>2, FlowAssumption DEF Text
      <4> QED
        BY ONLY <1>2, <2>1, <4>1
    <3> QED
      BY <1>2, <2>1, <3>1 DEF Pending, Entry, Fits
  <2>2. Len(buf) \in Nat /\ 0 <= Len(buf)
    BY <1>2 DEF Text
  <2>3. [buf |-> buf, from |-> 0] \in Pending /\ [buf |-> buf, from |-> Len(now)] \in Pending
    BY <1>4, <2>1, <2>2
  <2> QED
    BY <2>3
<1>6. sent \in Text /\ Len(sent) \in Nat /\ Len(sent) <= w
  <2>1. <<>> \in Text /\ Len(<<>>) = 0
    BY DEF Text
  <2> QED
    BY <1>1, <1>4, <2>1
<1> HIDE DEF rest, sent
<1>7. left \in Seq(Pending)
  BY <1>1, <1>5 DEF Queue
<1>8. out \in Seq(Packet) /\ Bytes(out) = Len(sent)
  <2>1. Ext \in BOOLEAN
    BY FlowAssumption
  <2> QED
    BY <1>6, <2>1, PacketsAre DEF Text, Packet
<1> HIDE DEF left, out
<1>9. wire' \in Seq(Packet) /\ Bytes(wire') = Bytes(wire) + Len(sent)
  BY <1>1, <1>3, <1>8, BytesConcat DEF Packet
<1>10. w - Len(sent) \in Nat
       /\ (w - Len(sent)) + (Bytes(wire) + Len(sent)) + Amount(adjusts)
            = w + Bytes(wire) + Amount(adjusts)
  <2>1. /\ w \in Nat /\ Bytes(wire) \in Nat /\ Amount(adjusts) \in Nat
        /\ Len(sent) \in Nat /\ Len(sent) <= w
    BY <1>1, <1>6
  <2> QED
    BY ONLY <2>1, DataMoves
<1>11. chan' = [recipient_window_size |-> w - Len(sent), open |-> chan.open,
                alive |-> chan.alive, pending_data |-> left]
  <2>1. chan.recipient_window_size = w
    BY DEF w
  <2> QED
    BY <1>1, <1>3, <2>1
<1>12. chan' \in Chan /\ chan'.open = chan.open /\ chan'.alive = chan.alive
       /\ chan'.recipient_window_size = w - Len(sent)
  BY <1>1, <1>7, <1>10, <1>11 DEF Chan
<1>13. Balance' = Balance
  <2>1. Balance' = chan'.recipient_window_size + Bytes(wire') + Amount(adjusts')
    BY DEF Balance
  <2>2. Balance = w + Bytes(wire) + Amount(adjusts)
    BY DEF Balance, w
  <2> QED
    BY <1>3, <1>9, <1>10, <1>12, <2>1, <2>2, Zenon
<1> QED
  BY <1>1, <1>3, <1>9, <1>12, <1>13, StillBalanced DEF Gone

LEMMA SessionEofCarrying == ASSUME Giving, Carrying, SessionEof PROVE Carrying'
<1>1. /\ chan \in Chan /\ wire \in Seq(Packet) /\ adjusts \in Seq(Adjusting)
      /\ Bytes(wire) \in Nat
  BY CarryingIs
<1>2. /\ UNCHANGED <<chan, adjusts, peer>> /\ wire' = Append(wire, <<>>)
  BY Zenon DEF SessionEof
<1>3. <<>> \in Packet /\ Len(<<>>) = 0
  BY DEF Packet
<1>4. wire' \in Seq(Packet) /\ Bytes(wire') = Bytes(wire) + 0
  <2>1. wire \in Seq(Packet) /\ <<>> \in Packet
    BY <1>1, <1>3
  <2>2. Bytes(Append(wire, <<>>)) = Bytes(wire) + Len(<<>>)
    BY <2>1, BytesAppend, Zenon DEF Packet
  <2>3. Append(wire, <<>>) \in Seq(Packet)
    BY ONLY <2>1
  <2> QED
    BY <1>2, <1>3, <2>2, <2>3, Zenon
<1>5. Bytes(wire') = Bytes(wire)
  BY ONLY <1>1, <1>4
<1>6. Balance' = Balance
  BY <1>2, <1>5, Zenon DEF Balance
<1> QED
  BY <1>1, <1>2, <1>4, <1>6, StillBalanced DEF Gone

LEMMA Granted ==
    ASSUME NEW w \in Nat, NEW b \in Nat, NEW rest \in Nat, NEW amount \in Nat,
           NEW left \in Nat, NEW out \in Nat, left + out = w + amount
    PROVE  left + (b + out) + rest = w + b + (amount + rest)
OBVIOUS

LEMMA Forgotten ==
    ASSUME NEW w \in Nat, NEW b \in Nat, NEW rest \in Nat, NEW amount \in Nat,
           NEW all \in Nat, w + b + (amount + rest) <= all
    PROVE  w + b + rest <= all
OBVIOUS

LEMMA AdjustTaken ==
    ASSUME Carrying, adjusts # <<>>, adjusts' = Tail(adjusts), wire' = wire, peer' = peer,
           chan' \in Chan, chan'.recipient_window_size = chan.recipient_window_size, Gone'
    PROVE  Carrying'
<1> DEFINE w == chan.recipient_window_size
           b == Bytes(wire)
           all == peer.sender_window_size
           amount == Head(adjusts).amount
           rest == Amount(Tail(adjusts))
<1>1. /\ w \in Nat /\ b \in Nat /\ all \in Nat /\ adjusts \in Seq(Adjusting)
      /\ wire \in Seq(Packet) /\ peer \in Receiver
  BY CarryingIs
<1>2. w + b + Amount(adjusts) <= all
  BY DEF Carrying, Balanced
<1>3. Tail(adjusts) \in Seq(Adjusting) /\ Head(adjusts) \in Adjusting
  BY <1>1
<1>4. rest \in Nat /\ Amount(adjusts) = amount + rest /\ amount \in Nat
  BY <1>1, <1>3, AmountHead, AmountIs
<1> HIDE DEF w, b, all, amount, rest
<1>5. w + b + (amount + rest) <= all
  BY <1>2, <1>4
<1>6. w + b + rest <= all
  BY ONLY <1>1, <1>4, <1>5, Forgotten
<1>7. (chan.recipient_window_size + Bytes(wire) + Amount(adjusts) <= peer.sender_window_size)'
  BY <1>6 DEF w, b, all, rest
<1> QED
  BY <1>1, <1>3, <1>7 DEF Carrying, Balanced, WindowConserved

LEMMA SessionMissesCarrying == ASSUME Carrying, SessionMisses PROVE Carrying'
<1>1. /\ adjusts # <<>> /\ adjusts' = Tail(adjusts) /\ wire' = wire /\ peer' = peer
      /\ chan' = [chan EXCEPT !.alive = FALSE]
  BY DEF SessionMisses
<1>2. /\ chan' \in Chan /\ chan'.recipient_window_size = chan.recipient_window_size
      /\ Gone'
  BY <1>1, CarryingIs DEF Chan, Gone
<1> QED
  BY <1>1, <1>2, AdjustTaken

LEMMA SessionClosedCarrying == ASSUME Carrying, SessionClosed PROVE Carrying'
<1>1. /\ adjusts # <<>> /\ adjusts' = Tail(adjusts) /\ wire' = wire /\ peer' = peer
      /\ chan' = [chan EXCEPT !.open = FALSE]
  BY DEF SessionClosed
<1>2. /\ chan' \in Chan /\ chan'.recipient_window_size = chan.recipient_window_size
      /\ Gone'
  BY <1>1, CarryingIs DEF Chan, Gone
<1> QED
  BY <1>1, <1>2, AdjustTaken

LEMMA SessionAdjustCarrying ==
    ASSUME Giving, Carrying, SessionAdjust PROVE Carrying' /\ adjusted' \in Seq(Nat)
<1> DEFINE w == chan.recipient_window_size
           b == Bytes(wire)
           amount == Head(adjusts).amount
           rest == Amount(Tail(adjusts))
           f == Flush(w + amount)
<1>1. /\ w \in Nat /\ b \in Nat /\ adjusts \in Seq(Adjusting) /\ wire \in Seq(Packet)
      /\ chan.pending_data \in Seq(Pending) /\ chan.open \in BOOLEAN
      /\ chan.alive \in BOOLEAN /\ chan \in Chan
      /\ chan = [recipient_window_size |-> chan.recipient_window_size,
                 open |-> chan.open, alive |-> chan.alive,
                 pending_data |-> chan.pending_data]
  BY CarryingIs
<1>2. /\ adjusts # <<>> /\ adjusts' = Tail(adjusts) /\ peer' = peer
  BY Zenon DEF SessionAdjust
<1>3. Tail(adjusts) \in Seq(Adjusting) /\ Head(adjusts) \in Adjusting
  BY <1>1, <1>2
<1>4. rest \in Nat /\ Amount(adjusts) = amount + rest /\ amount \in Nat
  BY <1>1, <1>2, <1>3, AmountHead, AmountIs
<1>5. w + amount \in Nat
  <2>1. w \in Nat /\ amount \in Nat
    BY <1>1, <1>4
  <2> HIDE DEF w, amount
  <2> QED
    BY ONLY <2>1
<1>6. /\ f \in [window : Nat, out : Seq(Packet), left : Seq(Pending),
                stop : BOOLEAN, panic : BOOLEAN]
      /\ f.window + Bytes(f.out) = w + amount
  BY <1>1, <1>5, FlushIs DEF Flushing
<1>7. \/ /\ chan' = [chan EXCEPT !.alive = FALSE] /\ wire' = wire /\ adjusted' = adjusted
      \/ /\ chan' = [chan EXCEPT !.recipient_window_size = f.window,
                                  !.pending_data = f.left]
         /\ wire' = wire \o f.out
         /\ adjusted' = adjusted \/ adjusted' = Append(adjusted, f.window)
  BY Zenon DEF SessionAdjust
<1>8. adjusted \in Seq(Nat)
  BY DEF Giving
<1> HIDE DEF f
<1>9. CASE /\ chan' = [chan EXCEPT !.alive = FALSE] /\ wire' = wire /\ adjusted' = adjusted
  <2>1. /\ chan' \in Chan /\ chan'.recipient_window_size = chan.recipient_window_size
        /\ Gone'
    BY <1>1, <1>9 DEF Chan, Gone
  <2> QED
    BY <1>2, <1>8, <1>9, <2>1, AdjustTaken
<1>10. CASE /\ chan' = [chan EXCEPT !.recipient_window_size = f.window,
                                    !.pending_data = f.left]
            /\ wire' = wire \o f.out
            /\ adjusted' = adjusted \/ adjusted' = Append(adjusted, f.window)
  <2>1. /\ f.window \in Nat /\ f.out \in Seq(Packet) /\ f.left \in Seq(Pending)
        /\ Bytes(f.out) \in Nat
    <3>1. f.window \in Nat /\ f.out \in Seq(Packet) /\ f.left \in Seq(Pending)
      BY <1>6
    <3> QED
      BY <3>1, BytesConcat, Zenon DEF Packet
  <2>2. wire' \in Seq(Packet) /\ Bytes(wire') = b + Bytes(f.out)
    BY <1>1, <1>10, <2>1, BytesConcat DEF Packet
  <2>3. adjusted' \in Seq(Nat)
    <3>1. f.window \in Nat /\ adjusted \in Seq(Nat)
      BY <1>8, <2>1
    <3>2. Append(adjusted, f.window) \in Seq(Nat)
      BY ONLY <3>1
    <3> QED
      BY <1>10, <3>1, <3>2, Zenon
  <2>4. chan' = [recipient_window_size |-> f.window, open |-> chan.open,
                 alive |-> chan.alive, pending_data |-> f.left]
    BY <1>1, <1>10
  <2>5. /\ chan' \in Chan /\ chan'.open = chan.open /\ chan'.alive = chan.alive
        /\ chan'.recipient_window_size = f.window
    BY <1>1, <2>1, <2>4 DEF Chan
  <2> DEFINE out == Bytes(f.out)
             window == f.window
  <2>6. Balance' = window + (b + out) + rest
    BY <1>2, <2>2, <2>5 DEF Balance
  <2>7. Balance = w + b + (amount + rest)
    BY <1>4 DEF Balance
  <2>8. window + out = w + amount /\ window \in Nat /\ out \in Nat
    BY <1>6, <2>1
  <2> HIDE DEF window, out
  <2>9. Balance' = Balance
    <3> HIDE DEF w, b, amount, rest
    <3>1. window + (b + out) + rest = w + b + (amount + rest)
      <4>1. w \in Nat /\ b \in Nat /\ rest \in Nat /\ amount \in Nat
        BY <1>1, <1>4
      <4> QED
        BY ONLY <2>8, <4>1, Granted
    <3> QED
      BY <2>6, <2>7, <3>1
  <2> QED
    BY <1>1, <1>2, <1>3, <2>2, <2>3, <2>5, <2>9, StillBalanced DEF Gone
<1> QED
  BY <1>7, <1>9, <1>10

-----------------------------------------------------------------------------
(* The receiver, and all steps together. *)

(* The first packet is not longer than what the receiver expects. *)
LEMMA HeadFits ==
    ASSUME Carrying, wire # <<>>
    PROVE  /\ Head(wire) \in Packet /\ Tail(wire) \in Seq(Packet)
           /\ Len(Head(wire)) \in Nat /\ Len(Head(wire)) <= peer.sender_window_size
           /\ Bytes(wire) = Len(Head(wire)) + Bytes(Tail(wire)) /\ Bytes(Tail(wire)) \in Nat
<1> DEFINE n == Len(Head(wire))
           t == Bytes(Tail(wire))
           b == Bytes(wire)
           w == chan.recipient_window_size
           a == Amount(adjusts)
           all == peer.sender_window_size
<1>1. /\ w \in Nat /\ a \in Nat /\ all \in Nat /\ wire \in Seq(Packet)
  BY CarryingIs
<1>2. w + b + a <= all
  BY DEF Carrying, Balanced
<1>3. Head(wire) \in Packet /\ Tail(wire) \in Seq(Packet)
  BY <1>1
<1>4. n \in Nat
  BY <1>3 DEF Packet
<1>5. b = n + t /\ t \in Nat
  BY <1>1, BytesHead, Zenon DEF Packet
<1> HIDE DEF n, t, b, w, a, all
<1>6. n <= all
  BY ONLY <1>1, <1>2, <1>4, <1>5
<1> QED
  BY <1>3, <1>4, <1>5, <1>6 DEF n, t, b, all

LEMMA Taken ==
    ASSUME NEW w \in Nat, NEW n \in Nat, NEW t \in Nat, NEW a \in Nat, NEW all \in Nat,
           w + (n + t) + a <= all
    PROVE  /\ all - n \in Nat /\ w + t + a <= all - n
           /\ w + (n + t) + a = all => w + t + a = all - n
OBVIOUS

LEMMA Regranted ==
    ASSUME NEW w \in Nat, NEW t \in Nat, NEW a \in Nat, NEW left \in Nat, NEW target \in Nat,
           w + t + a <= left, left < target \div 2
    PROVE  /\ target - left \in Nat /\ w + t + (a + (target - left)) <= target
           /\ w + t + a = left => w + t + (a + (target - left)) = target
<1>1. left < target
  OBVIOUS
<1> QED
  BY <1>1

LEMMA ReceiverEofCarrying == ASSUME Carrying, ReceiverEof PROVE Carrying'
<1>1. /\ wire # <<>> /\ Head(wire) = <<>> /\ wire' = Tail(wire)
      /\ peer' = [peer EXCEPT !.eof = TRUE] /\ UNCHANGED <<chan, adjusts>>
  BY DEF ReceiverEof
<1>2. Tail(wire) \in Seq(Packet) /\ Bytes(wire) = Len(<<>>) + Bytes(Tail(wire))
      /\ Bytes(Tail(wire)) \in Nat
  BY <1>1, HeadFits
<1>3. Bytes(wire') = Bytes(wire)
  BY <1>1, <1>2
<1>4. peer' \in Receiver /\ peer'.sender_window_size = peer.sender_window_size
  BY <1>1, CarryingIs DEF Receiver
<1>5. chan \in Chan /\ adjusts \in Seq(Adjusting)
  BY CarryingIs
<1> QED
  BY <1>1, <1>2, <1>3, <1>4, <1>5 DEF Carrying, Balanced, WindowConserved, Gone

LEMMA ReceiverDataCarrying == ASSUME Carrying, ReceiverData PROVE Carrying'
<1> DEFINE n == Len(Head(wire))
           t == Bytes(Tail(wire))
           w == chan.recipient_window_size
           a == Amount(adjusts)
           all == peer.sender_window_size
           left == Received(all, n)
           target == peer.target
           delivered == peer.delivered \o Head(wire)
<1>1. /\ wire # <<>> /\ wire' = Tail(wire) /\ chan' = chan
  BY Zenon DEF ReceiverData
<1>2. /\ w \in Nat /\ a \in Nat /\ all \in Nat /\ wire \in Seq(Packet) /\ chan \in Chan
      /\ adjusts \in Seq(Adjusting) /\ peer \in Receiver /\ target \in Nat
  BY CarryingIs
<1>3. /\ Head(wire) \in Packet /\ Tail(wire) \in Seq(Packet) /\ n \in Nat /\ n <= all
      /\ Bytes(wire) = n + t /\ t \in Nat
  BY <1>1, HeadFits
<1>4. w + Bytes(wire) + a <= all /\ (~Gone => w + Bytes(wire) + a = all)
  BY DEF Carrying, Balanced, WindowConserved
<1>5. left = all - n
  BY <1>3, Zenon DEF Received
<1>6. delivered \in Packet
  <2>1. peer.delivered \in Packet
    BY <1>2 DEF Receiver
  <2> QED
    BY <1>3, <2>1 DEF Packet
<1>7. /\ peer = [sender_window_size |-> all, target |-> target, delivered |-> peer.delivered,
                eof |-> peer.eof, closed |-> peer.closed]
      /\ peer.eof \in BOOLEAN /\ peer.closed \in BOOLEAN
  BY <1>2 DEF Receiver
<1>8. \/ /\ NeedsAdjust(left, target)
         /\ adjusts' = Append(adjusts, Adjust(Grant(left, target)))
         /\ \E next \in NextTargets :
              peer' = [peer EXCEPT !.sender_window_size = target, !.target = next,
                                   !.delivered = delivered]
      \/ /\ ~NeedsAdjust(left, target) /\ adjusts' = adjusts
         /\ peer' = [peer EXCEPT !.sender_window_size = left, !.delivered = delivered]
  BY Zenon DEF ReceiverData
<1> HIDE DEF n, t, w, a, all, left, target, delivered
<1>9. /\ left \in Nat /\ w + t + a <= left /\ (~Gone => w + t + a = left)
  <2>1. w + (n + t) + a <= all /\ (~Gone => w + (n + t) + a = all)
    BY <1>3, <1>4
  <2>2. /\ all - n \in Nat /\ w + t + a <= all - n
        /\ w + (n + t) + a = all => w + t + a = all - n
    BY ONLY <1>2, <1>3, <2>1, Taken
  <2> QED
    BY <1>5, <2>1, <2>2
<1>10. CASE /\ ~NeedsAdjust(left, target) /\ adjusts' = adjusts
            /\ peer' = [peer EXCEPT !.sender_window_size = left, !.delivered = delivered]
  <2>1. peer' \in Receiver /\ peer'.sender_window_size = left
    BY <1>2, <1>6, <1>9, <1>10 DEF Receiver
  <2>2. (chan.recipient_window_size + Bytes(wire) + Amount(adjusts))' = w + t + a
    BY <1>1, <1>10 DEF w, t, a
  <2> QED
    BY <1>1, <1>2, <1>3, <1>9, <1>10, <2>1, <2>2
       DEF Carrying, Balanced, WindowConserved, Gone
<1>11. CASE /\ NeedsAdjust(left, target)
            /\ adjusts' = Append(adjusts, Adjust(Grant(left, target)))
            /\ \E next \in NextTargets :
                 peer' = [peer EXCEPT !.sender_window_size = target, !.target = next,
                                      !.delivered = delivered]
  <2>1. NextTargets \subseteq Nat
    <3>1. WindowSize \in Nat /\ Targets \subseteq Nat
      BY ONLY FlowAssumption DEF FlowAssumption
    <3> QED
      BY <1>2, <3>1 DEF NextTargets, target
  <2>2. PICK next \in NextTargets :
             peer' = [peer EXCEPT !.sender_window_size = target, !.target = next,
                                  !.delivered = delivered]
    BY <1>11, Zenon
  <2>3. peer' \in Receiver /\ peer'.sender_window_size = target
    BY <1>2, <1>6, <2>1, <2>2 DEF Receiver
  <2>4. /\ target - left \in Nat /\ w + t + (a + (target - left)) <= target
        /\ w + t + a = left => w + t + (a + (target - left)) = target
    <3>1. left < target \div 2
      BY <1>11 DEF NeedsAdjust
    <3> QED
      BY ONLY <1>2, <1>3, <1>9, <3>1, Regranted
  <2> DEFINE e == Adjust(Grant(left, target))
  <2>5. e \in Adjusting /\ e.amount = target - left
    BY <2>4 DEF Adjust, Grant, Adjusting
  <2> HIDE DEF e
  <2>6. adjusts' \in Seq(Adjusting) /\ Amount(adjusts') = a + (target - left)
    <3>1. Append(adjusts, e) \in Seq(Adjusting)
      BY ONLY <1>2, <2>5
    <3>2. Amount(Append(adjusts, e)) = Amount(adjusts) + e.amount
      BY <1>2, <2>5, AmountAppend, Zenon
    <3> QED
      BY <1>11, <2>5, <3>1, <3>2, Zenon DEF e, a
  <2>7. (chan.recipient_window_size + Bytes(wire) + Amount(adjusts))'
            = w + t + (a + (target - left))
    BY <1>1, <2>6 DEF w, t
  <2> QED
    BY <1>1, <1>2, <1>3, <1>9, <2>3, <2>4, <2>6, <2>7
       DEF Carrying, Balanced, WindowConserved, Gone
<1> QED
  BY <1>8, <1>10, <1>11, Zenon

LEMMA ServerClosesCarrying == ASSUME Carrying, ServerCloses PROVE Carrying'
<1>1. /\ peer' = [peer EXCEPT !.closed = TRUE] /\ adjusts' = Append(adjusts, Close)
      /\ chan' = chan /\ wire' = wire
  BY DEF ServerCloses
<1>2. /\ chan \in Chan /\ wire \in Seq(Packet) /\ adjusts \in Seq(Adjusting)
      /\ Amount(adjusts) \in Nat
  BY CarryingIs
<1>3. Close \in Adjusting /\ Close.amount = 0
  BY DEF Close, Adjusting
<1>4. adjusts' \in Seq(Adjusting) /\ Amount(adjusts') = Amount(adjusts)
  <2>1. Append(adjusts, Close) \in Seq(Adjusting)
    BY ONLY <1>2, <1>3
  <2>2. Amount(Append(adjusts, Close)) = Amount(adjusts) + Close.amount
    BY <1>2, <1>3, AmountAppend, Zenon
  <2>3. Amount(adjusts) + 0 = Amount(adjusts)
    BY ONLY <1>2
  <2> QED
    BY <1>1, <1>3, <2>1, <2>2, <2>3, Zenon
<1>5. peer' \in Receiver /\ peer'.sender_window_size = peer.sender_window_size
  BY <1>1, CarryingIs DEF Receiver
<1> QED
  BY <1>1, <1>2, <1>4, <1>5 DEF Carrying, Balanced, WindowConserved, Gone

LEMMA SessionStepsCarrying ==
    ASSUME Giving, Carrying, SessionSteps PROVE Giving' /\ Carrying'
<1>1. CASE SessionData
  <2>1. app' = app /\ adjusted' = adjusted /\ mailbox # <<>> /\ mailbox' = Tail(mailbox)
    BY <1>1, Zenon DEF SessionData
  <2> QED
    BY <1>1, <2>1, SessionDataCarrying, GivingOn DEF Giving
<1>2. CASE SessionEof
  <2>1. app' = app /\ adjusted' = adjusted /\ mailbox # <<>> /\ mailbox' = Tail(mailbox)
    BY <1>2, Zenon DEF SessionEof
  <2> QED
    BY <1>2, <2>1, SessionEofCarrying, GivingOn DEF Giving
<1>3. CASE SessionDrops
  <2>1. /\ app' = app /\ adjusted' = adjusted /\ mailbox # <<>> /\ mailbox' = Tail(mailbox)
        /\ UNCHANGED <<chan, wire, adjusts, peer>>
    BY <1>3 DEF SessionDrops
  <2> QED
    BY <2>1, GivingOn DEF Giving, Carrying, Balanced, WindowConserved, Gone
<1>4. CASE SessionAdjust
  <2>1. app' = app /\ mailbox' = mailbox
    BY <1>4, Zenon DEF SessionAdjust
  <2> QED
    BY <1>4, <2>1, SessionAdjustCarrying, GivingOn
<1>5. CASE SessionMisses
  <2>1. UNCHANGED <<app, mailbox, adjusted>>
    BY <1>5 DEF SessionMisses
  <2> QED
    BY <1>5, <2>1, SessionMissesCarrying, GivingStays
<1>6. CASE SessionClosed
  <2>1. UNCHANGED <<app, mailbox, adjusted>>
    BY <1>6 DEF SessionClosed
  <2> QED
    BY <1>6, <2>1, SessionClosedCarrying, GivingStays
<1>7. CASE ReceiverData
  <2>1. UNCHANGED <<app, mailbox, adjusted>>
    BY <1>7, Zenon DEF ReceiverData
  <2> QED
    BY <1>7, <2>1, ReceiverDataCarrying, GivingStays
<1>8. CASE ReceiverEof
  <2>1. UNCHANGED <<app, mailbox, adjusted>>
    BY <1>8 DEF ReceiverEof
  <2> QED
    BY <1>8, <2>1, ReceiverEofCarrying, GivingStays
<1> QED
  BY <1>1, <1>2, <1>3, <1>4, <1>5, <1>6, <1>7, <1>8 DEF SessionSteps

Flowing == Copying /\ Carrying

LEMMA CarryingStays ==
    ASSUME Carrying, UNCHANGED <<chan, wire, adjusts, peer>> PROVE Carrying'
BY DEF Carrying, Balanced, WindowConserved, Gone

LEMMA AppStepsKeep == ASSUME AppSteps PROVE UNCHANGED <<chan, wire, adjusts, peer>>
<1>1. CASE AppSend
  BY <1>1, Zenon DEF AppSend
<1>2. CASE AppResume
  BY <1>2, Zenon DEF AppResume
<1>3. CASE AppFails
  BY <1>3, Zenon DEF AppFails
<1>4. CASE AppCall
  BY <1>4, Zenon DEF AppCall
<1>5. CASE AppWait
  BY <1>5, Zenon DEF AppWait
<1>6. CASE HandleData
  BY <1>6, Zenon DEF HandleData
<1>7. CASE AppEof
  BY <1>7, Zenon DEF AppEof
<1> QED
  BY <1>1, <1>2, <1>3, <1>4, <1>5, <1>6, <1>7 DEF AppSteps

LEMMA TunnelStepsKeep == ASSUME TunnelSteps PROVE UNCHANGED <<chan, wire, adjusts, peer>>
<1>1. CASE Run
  BY <1>1, Zenon DEF Run
<1>2. CASE CopyToSsh
  BY <1>2, Zenon DEF CopyToSsh
<1>3. CASE CopyFails
  BY <1>3, Zenon DEF CopyFails
<1>4. CASE CopyResumes
  BY <1>4, Zenon DEF CopyResumes
<1>5. CASE ReceiveAdjusted
  BY <1>5, Zenon DEF ReceiveAdjusted
<1>6. CASE ReceiveData
  BY <1>6, Zenon DEF ReceiveData
<1>7. CASE ReceiveEof
  BY <1>7, Zenon DEF ReceiveEof
<1>8. CASE ReceiveGone
  BY <1>8 DEF ReceiveGone, vars
<1>9. CASE CopyToTcp
  BY <1>9 DEF CopyToTcp, vars
<1> QED
  BY <1>1, <1>2, <1>3, <1>4, <1>5, <1>6, <1>7, <1>8, <1>9 DEF TunnelSteps

LEMMA SessionStepsApp == ASSUME SessionSteps PROVE app' = app
<1>1. CASE SessionData
  BY <1>1, Zenon DEF SessionData
<1>2. CASE SessionEof
  BY <1>2, Zenon DEF SessionEof
<1>3. CASE SessionDrops
  BY <1>3, Zenon DEF SessionDrops
<1>4. CASE SessionAdjust
  BY <1>4, Zenon DEF SessionAdjust
<1>5. CASE SessionMisses
  BY <1>5, Zenon DEF SessionMisses
<1>6. CASE SessionClosed
  BY <1>6, Zenon DEF SessionClosed
<1>7. CASE ReceiverData
  BY <1>7, Zenon DEF ReceiverData
<1>8. CASE ReceiverEof
  BY <1>8, Zenon DEF ReceiverEof
<1> QED
  BY <1>1, <1>2, <1>3, <1>4, <1>5, <1>6, <1>7, <1>8 DEF SessionSteps

LEMMA InitFlows == ASSUME Init PROVE Giving /\ Carrying
<1>0. WindowSize \in Nat /\ Capacity \in Nat /\ Total \in Nat
  BY ONLY FlowAssumption DEF FlowAssumption
<1>1. PICK sender \in Senders :
          app = [sender |-> sender, phase |-> "idle",
                 window_size |-> WindowSize, taken |-> 0, end |-> 0]
  BY DEF Init
<1>2. /\ mailbox = <<>> /\ adjusted = <<>> /\ wire = <<>> /\ adjusts = <<>>
      /\ chan = [recipient_window_size |-> WindowSize, pending_data |-> <<>>,
                 open |-> TRUE, alive |-> TRUE]
      /\ peer = [sender_window_size |-> WindowSize, target |-> WindowSize,
                 delivered |-> <<>>, eof |-> FALSE, closed |-> FALSE]
  BY DEF Init
<1>3. app \in App /\ app.phase = "idle"
  <2>1. 0 \in 0..Total
    BY ONLY <1>0
  <2> QED
    BY <1>0, <1>1, <2>1 DEF App
<1>4. /\ mailbox \in Seq(Mail) /\ Len(mailbox) <= Capacity /\ adjusted \in Seq(Nat)
      /\ wire \in Seq(Packet) /\ adjusts \in Seq(Adjusting)
  BY <1>0, <1>2
<1>5. chan \in Chan
  BY <1>0, <1>2 DEF Chan
<1>6. peer \in Receiver
  <2>1. <<>> \in Packet
    BY DEF Packet
  <2> QED
    BY <1>0, <1>2, <2>1 DEF Receiver
<1>7. Bytes(wire) = 0 /\ Amount(adjusts) = 0
  <2>1. [i \in DOMAIN wire |-> Len(wire[i])] = <<>>
    BY <1>2
  <2>2. [i \in DOMAIN adjusts |-> adjusts[i].amount] = <<>>
    BY <1>2
  <2> QED
    BY <2>1, <2>2, SumNone DEF Bytes, Amount
<1>8. /\ chan.recipient_window_size + Bytes(wire) + Amount(adjusts) = WindowSize
      /\ peer.sender_window_size = WindowSize
  BY <1>0, <1>2, <1>7
<1>9. Balanced
  BY <1>0, <1>8 DEF Balanced, WindowConserved
<1> QED
  BY <1>3, <1>4, <1>5, <1>6, <1>9 DEF Giving, Carrying

LEMMA TunnelInitFlows == ASSUME TunnelInit PROVE Flowing
<1>1. Giving /\ Carrying
  BY InitFlows DEF TunnelInit
<1>2. toSsh \in Seq(Report) /\ app.phase = "idle"
  BY DEF TunnelInit, Init
<1>3. Answers \in Nat /\ Uses \subseteq {"Channel", "RemoteTunnel"}
  BY ONLY TunnelAssumption DEF TunnelAssumption
<1>4. tunnel \in Loops
  BY <1>3 DEF TunnelInit, Loops
<1> QED
  BY <1>1, <1>2, <1>4 DEF Flowing, Copying

LEMMA StepFlows == ASSUME Flowing, [TunnelNext]_allVars PROVE Flowing'
<1>1. Copying /\ Giving /\ Carrying
  BY DEF Flowing, Copying
<1>2. CASE TunnelSteps
  BY <1>1, <1>2, TunnelStepsCopying, TunnelStepsKeep, CarryingStays DEF Flowing
<1>3. CASE ChannelSteps
  <2>1. ~Tunnelling /\ AppSteps /\ UNCHANGED <<tunnel, toSsh>>
    BY <1>3 DEF ChannelSteps, tunnelVars
  <2>2. Giving' /\ Carrying'
    BY <1>1, <2>1, AppStepsGiving, AppStepsKeep, CarryingStays
  <2> QED
    BY <1>1, <2>1, <2>2 DEF Flowing, Copying, Tunnelling
<1>4. CASE Sessions
  <2>1. SessionSteps /\ UNCHANGED <<tunnel, toSsh>>
    BY <1>4 DEF Sessions, tunnelVars
  <2>2. Giving' /\ Carrying'
    BY <1>1, <2>1, SessionStepsCarrying
  <2>3. app' = app
    BY <2>1, SessionStepsApp
  <2> QED
    BY <1>1, <2>1, <2>2, <2>3 DEF Flowing, Copying, Tunnelling
<1>5. CASE HandlerCloses
  <2>1. ServerCloses /\ UNCHANGED <<app, mailbox, adjusted, tunnel, toSsh>>
    BY <1>5 DEF HandlerCloses, ServerCloses, tunnelVars
  <2>2. Giving' /\ Carrying'
    BY <1>1, <2>1, ServerClosesCarrying, GivingStays
  <2> QED
    BY <1>1, <2>1, <2>2 DEF Flowing, Copying, Tunnelling
<1>6. CASE UNCHANGED allVars
  <2>1. UNCHANGED <<app, mailbox, adjusted, chan, wire, adjusts, peer, tunnel, toSsh>>
    BY <1>6 DEF allVars, vars, tunnelVars
  <2>2. Giving' /\ Carrying'
    BY <1>1, <2>1, CarryingStays, GivingStays
  <2> QED
    BY <1>1, <2>1, <2>2 DEF Flowing, Copying, Tunnelling
<1> QED
  BY <1>2, <1>3, <1>4, <1>5, <1>6 DEF TunnelNext

THEOREM Flows == TunnelSpec => []Flowing
<1>1. TunnelInit => Flowing
  BY TunnelInitFlows
<1>2. Flowing /\ [TunnelNext]_allVars => Flowing'
  BY StepFlows
<1> QED
  BY <1>1, <1>2, PTL DEF TunnelSpec

LEMMA FlowingIsTyped == ASSUME Flowing PROVE TypeOK
<1>1. /\ app \in App /\ mailbox \in Seq(Mail) /\ Len(mailbox) <= Capacity
      /\ adjusted \in Seq(Nat) /\ chan \in Chan /\ wire \in Seq(Packet)
      /\ adjusts \in Seq(Adjusting) /\ peer \in Receiver
  BY DEF Flowing, Copying, Giving, Carrying
<1> DEFINE Message == [eof : BOOLEAN, bytes : Text]
<1>2. mailbox \in Seq(Message)
  <2>1. Mail \subseteq Message
    BY DEF Mail
  <2> HIDE DEF Message
  <2> QED
    BY <1>1, <2>1
<1>3. chan.pending_data \in Seq(Entry)
  <2>1. Pending \subseteq Entry /\ chan.pending_data \in Seq(Pending)
    BY <1>1 DEF Pending, Chan
  <2> QED
    BY <2>1
<1>4. chan \in [recipient_window_size : Nat, open : BOOLEAN, alive : BOOLEAN,
               pending_data : Seq(Entry)]
  BY <1>1, <1>3 DEF Chan
<1> QED
  BY <1>1, <1>2, <1>4, Zenon
     DEF TypeOK, App, Text, Byte, Entry, Packet, Kind, Adjusting, Receiver

(* Every variable keeps its type: in particular no window is taken below    *)
(* zero, and no call, tunnel or flush takes bytes that are not there.       *)
THEOREM TypeInvariant == TunnelSpec => []TypeOK
BY Flows, FlowingIsTyped, PTL

(* As long as the channel and its session live, what the sender may still   *)
(* send, what is under way and what has been granted add up to what the     *)
(* receiver expects: data, flush_pending and adjust_window_size lose        *)
(* nothing of the window and invent nothing.                                *)
THEOREM WindowIsConserved == TunnelSpec => []WindowConserved
<1>1. Flowing => WindowConserved
  BY DEF Flowing, Carrying, Balanced
<1> QED
  BY <1>1, Flows, PTL

(* Hence adjust_window_size never takes its "Ignore extra data" branch      *)
(* against this sender, whatever became of the channel or its session.      *)
THEOREM NothingIgnored == TunnelSpec => []NoExtraData
<1>1. Flowing => NoExtraData
  BY HeadFits DEF Flowing, NoExtraData
<1> QED
  BY <1>1, Flows, PTL

-----------------------------------------------------------------------------
(* Why a tunnel gives up what it does. *)

Grants == {a \in Adjusting : a.close \/ a.amount > 0}

Positive == {n \in Nat : n > 0}

(* What send_to_ssh_loop is told leaves it something to send, or is the EOF. *)
Sizes == {m \in Report : ~m.eof}

Useful == {m \in Report : m.eof \/ m.size > 0}

(* A grant is never empty, and what has to wait is noted. *)
Granting ==
    /\ adjusts \in Seq(Grants)
    /\ queued \in BOOLEAN /\ (chan.pending_data # <<>> => queued)

(* The reasons: a window that was used up by what had to wait, a failed     *)
(* write to TCP, a channel that is gone.                                    *)
Excused == queued \/ tunnel.tcp = "error" \/ Gone

Reported == queued \/ (adjusted \in Seq(Positive) /\ toSsh \in Seq(Useful))

Announced == tunnel.eof \/ (toSsh \in Seq(Sizes) /\ toTcp \in Seq({"Data"}))

Ended ==
    /\ tunnel.receive = "over" => tunnel.ssh # "up" \/ tunnel.tcp = "error" \/ Gone
    /\ tunnel.tcp = "over" => tunnel.eof \/ tunnel.receive = "over"
    /\ tunnel.ssh = "over" => app.phase = "done" \/ Gone
    /\ tunnel.ssh = "panic" => tunnel.eof
    /\ app.phase = "failed" => tunnel.ssh = "error" \/ Gone

Sending ==
    /\ app.phase = "idle" => app.window_size > 0
    /\ app.phase = "sending" /\ app.window_size = 0 /\ tunnel.ssh = "up" => Excused
    /\ app.phase = "done" /\ app.taken < Total => Excused

Explained ==
    /\ Granting
    /\ Tunnelling => /\ toTcp \in Seq({"Data", "Eof"})
                     /\ Reported /\ Announced /\ Ended /\ Sending

LEMMA ExplainedIs == ASSUME Explained, Flowing PROVE CutsExplained
<1> SUFFICES ASSUME Tunnelling
             PROVE  /\ app.phase = "done" /\ app.taken < Total =>
                          queued \/ tunnel.tcp = "error" \/ Gone
                    /\ tunnel.tcp = "over" /\ ~tunnel.eof =>
                          app.phase = "done" \/ tunnel.ssh = "error" \/ Gone
                    /\ tunnel.ssh = "panic" => tunnel.eof
                    /\ app.phase = "failed" => tunnel.ssh = "error" \/ Gone
  BY DEF CutsExplained
<1>1. Ended /\ Sending /\ tunnel.ssh \in {"up", "over", "panic", "error"}
  BY DEF Explained, Flowing, Copying, Loops
<1> QED
  BY <1>1 DEF Ended, Sending, Excused

(* Nothing brings back what is gone. *)
LEMMA GoneStays ==
    ASSUME Flowing, [TunnelNext]_allVars, Gone PROVE Gone'
<1>1. /\ chan \in Chan
      /\ chan = [recipient_window_size |-> chan.recipient_window_size,
                 open |-> chan.open, alive |-> chan.alive,
                 pending_data |-> chan.pending_data]
  BY CarryingIs DEF Flowing
<1>2. CASE chan' = chan
  BY <1>2 DEF Gone
<1>3. CASE SessionData
  BY <1>3, Zenon DEF SessionData, Gone
<1>4. CASE SessionAdjust
  <2>1. \/ chan' = [chan EXCEPT !.alive = FALSE]
        \/ \E f : chan' = [chan EXCEPT !.recipient_window_size = f.window,
                                       !.pending_data = f.left]
    BY <1>4, Zenon DEF SessionAdjust
  <2>2. CASE chan' = [chan EXCEPT !.alive = FALSE]
    BY <1>1, <2>2 DEF Gone
  <2>3. ASSUME NEW f, chan' = [chan EXCEPT !.recipient_window_size = f.window,
                                           !.pending_data = f.left]
        PROVE  Gone'
    <3>1. chan'.open = chan.open /\ chan'.alive = chan.alive
      BY <1>1, <2>3
    <3> QED
      BY <3>1 DEF Gone
  <2> QED
    BY <2>1, <2>2, <2>3, Zenon
<1>5. CASE SessionMisses
  BY <1>1, <1>5 DEF SessionMisses, Gone
<1>6. CASE SessionClosed
  BY <1>1, <1>6 DEF SessionClosed, Gone
<1>7. CASE SessionSteps /\ chan' # chan
  BY <1>3, <1>4, <1>5, <1>6, <1>7, Zenon
     DEF SessionSteps, SessionEof, SessionDrops, ReceiverData, ReceiverEof
<1>8. CASE TunnelSteps
  BY <1>2, <1>8, TunnelStepsKeep
<1>9. CASE ChannelSteps
  BY <1>2, <1>9, AppStepsKeep DEF ChannelSteps
<1>10. CASE HandlerCloses
  BY <1>2, <1>10 DEF HandlerCloses, ServerCloses
<1>11. CASE UNCHANGED allVars
  BY <1>2, <1>11 DEF allVars, vars
<1> QED
  BY <1>2, <1>7, <1>8, <1>9, <1>10, <1>11 DEF TunnelNext, Sessions

(* The tunnel's own steps, of which none touches the sessions. *)
LEMMA GrantingStays ==
    ASSUME Granting, UNCHANGED <<chan, adjusts, queued>> PROVE Granting'
BY DEF Granting

LEMMA CopyToSshExplained ==
    ASSUME Explained, Flowing, CopyToSsh PROVE Explained'
<1>1. /\ app \in App /\ tunnel \in Loops /\ app.window_size \in Nat
      /\ app.taken \in 0..Total
      /\ app = [sender |-> app.sender, phase |-> app.phase,
                window_size |-> app.window_size, taken |-> app.taken, end |-> app.end]
  BY DEF Flowing, Copying, Giving, App
<1>2. /\ Tunnelling /\ tunnel.ssh = "up" /\ app.phase = "sending"
      /\ UNCHANGED <<adjusted, chan, adjusts, toSsh, toTcp, queued>>
  BY Zenon DEF CopyToSsh
<1>3. Granting /\ Reported /\ Announced /\ Ended /\ Sending /\ toTcp \in Seq({"Data", "Eof"})
  BY <1>2 DEF Explained
<1> DEFINE most == Min({Sendable(app.window_size), Total - app.taken})
           counts == IF ShortReads THEN 1..most ELSE {most} \ {0}
           Reads(n) == app' = [app EXCEPT
                              !.taken = @ + n,
                              !.window_size = Charge(@, n),
                              !.phase = IF Charge(app.window_size, n) > 0
                                        THEN "sending" ELSE "waiting"]
<1>4. \/ /\ most = 0 /\ app' = [app EXCEPT !.phase = "done"]
         /\ tunnel' = [tunnel EXCEPT !.ssh = "over"]
      \/ tunnel' = tunnel /\ \E n \in counts : Reads(n)
  BY Zenon DEF CopyToSsh
<1>5. Granting' /\ Reported' /\ (toTcp \in Seq({"Data", "Eof"}))'
  BY <1>2, <1>3, GrantingStays DEF Reported
<1>6. CASE /\ most = 0 /\ app' = [app EXCEPT !.phase = "done"]
           /\ tunnel' = [tunnel EXCEPT !.ssh = "over"]
  <2>1. app.taken < Total => app.window_size = 0
    <3>1. /\ Total \in Nat /\ MaxPacket - Margin \in Nat /\ MaxPacket - Margin > 0
      BY ONLY FlowAssumption, TunnelAssumption DEF FlowAssumption, TunnelAssumption
    <3> DEFINE room == Sendable(app.window_size)
               rest == Total - app.taken
    <3>2. room \in Int /\ room = IF app.window_size <= MaxPacket - Margin
                                 THEN app.window_size ELSE MaxPacket - Margin
      <4>1. app.window_size \in Int /\ MaxPacket - Margin \in Int
        BY ONLY <1>1, <3>1
      <4>2. room = IF app.window_size <= MaxPacket - Margin
                   THEN app.window_size ELSE MaxPacket - Margin
        BY <4>1, MinOfTwo, Zenon DEF Sendable
      <4> QED
        BY <4>1, <4>2
    <3>3. rest \in Int /\ app.taken \in Nat
      BY ONLY <1>1, <3>1
    <3> HIDE DEF room
    <3>4. most = IF room <= rest THEN room ELSE rest
      BY <3>2, <3>3, MinOfTwo, Zenon DEF room
    <3>5. room = 0 \/ rest = 0
      BY <1>6, <3>4
    <3> QED
      BY ONLY <1>1, <3>1, <3>2, <3>3, <3>5
  <2>2. Excused \/ ~(app.taken < Total)
    BY <1>2, <1>3, <2>1 DEF Sending
  <2>3. /\ app'.phase = "done" /\ app'.taken = app.taken
        /\ tunnel'.tcp = tunnel.tcp /\ tunnel'.eof = tunnel.eof /\ tunnel'.ssh = "over"
        /\ tunnel'.receive = tunnel.receive /\ Gone' = Gone /\ queued' = queued
    BY <1>1, <1>2, <1>6 DEF Loops, Gone
  <2>4. Sending'
    BY <2>2, <2>3 DEF Sending, Excused
  <2>5. Ended' /\ Announced'
    BY <1>2, <1>3, <2>3 DEF Ended, Announced
  <2> QED
    BY <1>5, <2>4, <2>5 DEF Explained
<1>7. CASE tunnel' = tunnel /\ \E n \in counts : Reads(n)
  <2>1. PICK n \in counts : Reads(n)
    BY <1>7, Zenon
  <2> HIDE DEF counts
  <2> DEFINE window == Charge(app.window_size, n)
  <2>2. /\ app'.phase = IF window > 0 THEN "sending" ELSE "waiting"
        /\ app'.window_size = window
    BY <1>1, <2>1
  <2> HIDE DEF window
  <2>3. app'.phase # "idle" /\ app'.phase # "done" /\ ~(app'.phase = "sending" /\ app'.window_size = 0)
    BY <2>2
  <2>4. Sending'
    BY <2>3 DEF Sending
  <2>5. Gone' = Gone
    BY <1>2 DEF Gone
  <2>6. Ended' /\ Announced'
    BY <1>2, <1>3, <1>7, <2>2, <2>5 DEF Ended, Announced
  <2> QED
    BY <1>5, <2>4, <2>6 DEF Explained
<1> QED
  BY <1>4, <1>6, <1>7, Zenon

LEMMA TunnelStepsExplained ==
    ASSUME WindowSize > 0, Explained, Flowing, TunnelSteps PROVE Explained'
<1>1. /\ app \in App /\ tunnel \in Loops /\ app.window_size \in Nat
      /\ adjusted \in Seq(Nat) /\ toSsh \in Seq(Report)
      /\ app = [sender |-> app.sender, phase |-> app.phase,
                window_size |-> app.window_size, taken |-> app.taken, end |-> app.end]
      /\ tunnel = [use |-> tunnel.use, receive |-> tunnel.receive, ssh |-> tunnel.ssh,
                   tcp |-> tunnel.tcp, answers |-> tunnel.answers, eof |-> tunnel.eof]
      /\ tunnel.receive \in {"up", "over"}
      /\ tunnel.ssh \in {"up", "over", "panic", "error"}
      /\ tunnel.tcp \in {"up", "over", "error"} /\ tunnel.eof \in BOOLEAN
  BY DEF Flowing, Copying, Giving, App, Loops
<1>2. ASSUME Tunnelling
      PROVE  /\ Granting /\ Reported /\ Announced /\ Ended /\ Sending
             /\ toTcp \in Seq({"Data", "Eof"})
  BY <1>2 DEF Explained
<1>3. UNCHANGED <<chan, adjusts>>
  BY TunnelStepsKeep
<1>4. Gone' = Gone
  BY <1>3 DEF Gone
<1>5. ASSUME Tunnelling, queued' = queued PROVE Granting'
  BY <1>2, <1>3, <1>5, GrantingStays
<1>6. CASE Run
  <2>1. /\ Tunnelling /\ app.phase = "idle"
        /\ app' = [app EXCEPT !.phase = "sending", !.end = Total]
        /\ UNCHANGED <<adjusted, tunnel, toSsh, toTcp, queued>>
    BY <1>6 DEF Run, tunnelVars
  <2>2. app'.phase = "sending" /\ app'.window_size = app.window_size
    BY <1>1, <2>1
  <2>3. app.window_size > 0
    BY <1>2, <2>1 DEF Sending
  <2>4. Sending'
    BY <1>1, <2>2, <2>3 DEF Sending
  <2>5. Reported' /\ Announced' /\ (toTcp \in Seq({"Data", "Eof"}))'
    BY <1>2, <2>1 DEF Reported, Announced
  <2>6. Ended'
    BY <1>2, <1>4, <2>1, <2>2 DEF Ended
  <2> QED
    BY <1>5, <2>1, <2>4, <2>5, <2>6 DEF Explained
<1>7. CASE CopyToSsh
  BY <1>7, CopyToSshExplained
<1>8. CASE CopyFails
  <2>1. /\ Tunnelling /\ tunnel.ssh = "up" /\ app.phase = "sending"
        /\ app' = [app EXCEPT !.phase = "failed"]
        /\ \/ ~chan.alive /\ tunnel' = [tunnel EXCEPT !.ssh = "over"]
           \/ tunnel' = [tunnel EXCEPT !.ssh = "error"]
        /\ UNCHANGED <<adjusted, toSsh, toTcp, queued>>
    BY <1>8 DEF CopyFails
  <2>2. /\ app'.phase = "failed" /\ tunnel'.receive = tunnel.receive
        /\ tunnel'.ssh = "error" \/ (tunnel'.ssh = "over" /\ Gone)
        /\ tunnel'.tcp = tunnel.tcp /\ tunnel'.eof = tunnel.eof
    BY <1>1, <2>1 DEF Gone
  <2>3. Sending' /\ Ended'
    BY <1>2, <1>4, <2>1, <2>2 DEF Sending, Ended
  <2>4. Reported' /\ Announced' /\ (toTcp \in Seq({"Data", "Eof"}))'
    BY <1>2, <2>1, <2>2 DEF Reported, Announced
  <2> QED
    BY <1>5, <2>1, <2>3, <2>4 DEF Explained
<1>9. CASE CopyResumes
  <2>1. /\ Tunnelling /\ tunnel.ssh = "up" /\ app.phase = "waiting"
        /\ UNCHANGED <<adjusted, toTcp, queued>>
    BY <1>9 DEF CopyResumes
  <2>2. CASE /\ toSsh # <<>> /\ ~Head(toSsh).eof /\ toSsh' = Tail(toSsh) /\ tunnel' = tunnel
             /\ app' = [app EXCEPT !.phase = "sending", !.window_size = Head(toSsh).size]
    <3>1. app'.phase = "sending" /\ app'.window_size = Head(toSsh).size
      BY <1>1, <2>2
    <3>2. queued \/ Head(toSsh).size > 0
      <4>1. CASE toSsh \in Seq(Useful)
        <5>1. Head(toSsh) \in Useful
          BY <2>2, <4>1
        <5> QED
          BY <2>2, <5>1 DEF Useful
      <4> QED
        BY <1>2, <2>1, <4>1 DEF Reported
    <3>3. Head(toSsh).size > 0 => Head(toSsh).size # 0
      <4>1. Head(toSsh) \in Report
        BY <1>1, <2>2
      <4> QED
        BY <4>1 DEF Report
    <3>4. Sending'
      BY <2>1, <3>1, <3>2, <3>3 DEF Sending, Excused
    <3>5. Reported' /\ Announced'
      BY <1>2, <2>1, <2>2 DEF Reported, Announced
    <3>6. Ended' /\ (toTcp \in Seq({"Data", "Eof"}))'
      BY <1>2, <1>4, <2>1, <2>2, <3>1 DEF Ended
    <3> QED
      BY <1>5, <2>1, <3>4, <3>5, <3>6 DEF Explained
  <2>3. CASE /\ toSsh # <<>> /\ Head(toSsh).eof /\ toSsh' = Tail(toSsh) /\ app' = app
             /\ tunnel' = [tunnel EXCEPT !.ssh = "panic"]
    <3>1. /\ tunnel'.ssh = "panic" /\ tunnel'.receive = tunnel.receive
          /\ tunnel'.tcp = tunnel.tcp /\ tunnel'.eof = tunnel.eof
      BY <1>1, <2>3
    <3>2. tunnel.eof
      <4>1. CASE toSsh \in Seq(Sizes)
        <5>1. Head(toSsh) \in Sizes
          BY <2>3, <4>1
        <5> QED
          BY <2>3, <5>1 DEF Sizes
      <4> QED
        BY <1>2, <2>1, <4>1 DEF Announced
    <3>3. Ended' /\ Announced' /\ (toTcp \in Seq({"Data", "Eof"}))'
      BY <1>2, <1>4, <2>1, <2>3, <3>1, <3>2 DEF Ended, Announced
    <3>4. Sending'
      BY <1>2, <2>1, <2>3, <3>1 DEF Sending
    <3>5. Reported'
      BY <1>2, <2>1, <2>3 DEF Reported
    <3> QED
      BY <1>5, <2>1, <3>3, <3>4, <3>5 DEF Explained
  <2>4. CASE /\ tunnel.receive = "over" /\ app' = [app EXCEPT !.phase = "sending"]
             /\ UNCHANGED <<tunnel, toSsh>>
    <3>1. app'.phase = "sending" /\ app'.window_size = app.window_size
      BY <1>1, <2>4
    <3>2. tunnel.tcp = "error" \/ Gone
      BY <1>2, <2>1, <2>4 DEF Ended
    <3>3. Sending'
      BY <1>4, <2>4, <3>1, <3>2 DEF Sending, Excused
    <3>4. Reported' /\ Announced'
      BY <1>2, <2>1, <2>4 DEF Reported, Announced
    <3>5. Ended' /\ (toTcp \in Seq({"Data", "Eof"}))'
      BY <1>2, <1>4, <2>1, <2>4, <3>1 DEF Ended
    <3> QED
      BY <1>5, <2>1, <3>3, <3>4, <3>5 DEF Explained
  <2> QED
    BY <1>9, <2>2, <2>3, <2>4, Zenon DEF CopyResumes
<1>10. CASE ReceiveAdjusted
  <2> DEFINE m == NewSize(Head(adjusted))
  <2>1. /\ Tunnelling /\ adjusted # <<>> /\ adjusted' = Tail(adjusted)
        /\ UNCHANGED <<app, toTcp, queued>> /\ ToSsh(tunnel, m)
    BY <1>10, Zenon DEF ReceiveAdjusted, Receiving
  <2>2. m \in Sizes /\ (adjusted \in Seq(Positive) => m \in Useful /\ Tail(adjusted) \in Seq(Positive))
    <3>1. Head(adjusted) \in Nat
      BY <1>1, <2>1
    <3>2. m \in Sizes
      BY <3>1 DEF NewSize, Sizes, Report
    <3>3. ASSUME adjusted \in Seq(Positive) PROVE m \in Useful /\ Tail(adjusted) \in Seq(Positive)
      <4>1. Head(adjusted) \in Positive /\ Tail(adjusted) \in Seq(Positive)
        BY <2>1, <3>3
      <4> QED
        BY <4>1 DEF NewSize, Useful, Report, Positive
    <3> QED
      BY <3>2, <3>3
  <2> HIDE DEF m
  <2>3. /\ tunnel'.ssh = tunnel.ssh /\ tunnel'.tcp = tunnel.tcp /\ tunnel'.eof = tunnel.eof
        /\ \/ tunnel'.receive = tunnel.receive
           \/ tunnel.ssh # "up" /\ tunnel'.receive = "over"
        /\ toSsh' = Append(toSsh, m) \/ toSsh' = toSsh
    BY <1>1, <2>1 DEF ToSsh
  <2>4. toSsh \in Seq(Useful) /\ m \in Useful => toSsh' \in Seq(Useful)
    BY <2>3
  <2>5. toSsh \in Seq(Sizes) => toSsh' \in Seq(Sizes)
    BY <2>2, <2>3
  <2>6. Reported'
    BY <1>2, <2>1, <2>2, <2>4 DEF Reported
  <2>7. Announced'
    BY <1>2, <2>1, <2>3, <2>5 DEF Announced
  <2>8. Ended' /\ Sending' /\ (toTcp \in Seq({"Data", "Eof"}))'
    BY <1>2, <1>4, <2>1, <2>3 DEF Ended, Sending, Excused
  <2> QED
    BY <1>5, <2>1, <2>6, <2>7, <2>8 DEF Explained
<1>11. CASE ReceiveData
  <2>1. /\ Tunnelling /\ tunnel.receive = "up" /\ ~tunnel.eof
        /\ UNCHANGED <<app, adjusted, toSsh, queued>>
    BY <1>11, Zenon DEF ReceiveData, Receiving
  <2>2. \/ /\ tunnel.tcp = "up" /\ toTcp' = Append(toTcp, "Data")
           /\ tunnel' = [tunnel EXCEPT !.answers = @ - 1]
        \/ /\ tunnel.tcp # "up" /\ toTcp' = toTcp
           /\ tunnel' = [tunnel EXCEPT !.answers = @ - 1, !.receive = "over"]
    <3> DEFINE t == [tunnel EXCEPT !.answers = @ - 1]
    <3>1. IF t.tcp = "up" THEN toTcp' = Append(toTcp, "Data") /\ tunnel' = t
          ELSE tunnel' = [t EXCEPT !.receive = "over"] /\ toTcp' = toTcp
      BY <1>11, Zenon DEF ReceiveData
    <3>2. t.tcp = tunnel.tcp
      BY <1>1
    <3> QED
      BY <3>1, <3>2
  <2>3. /\ tunnel'.ssh = tunnel.ssh /\ tunnel'.tcp = tunnel.tcp /\ tunnel'.eof = tunnel.eof
        /\ tunnel'.receive = tunnel.receive \/ tunnel.tcp # "up"
    BY <1>1, <2>2
  <2>4. Ended'
    BY <1>1, <1>2, <1>4, <2>1, <2>3 DEF Ended
  <2>5. Sending' /\ Reported'
    BY <1>2, <1>4, <2>1, <2>3 DEF Sending, Excused, Reported
  <2>6. toTcp' \in Seq({"Data", "Eof"}) /\ (toTcp \in Seq({"Data"}) => toTcp' \in Seq({"Data"}))
    BY <1>2, <2>1, <2>2
  <2>7. Announced'
    BY <1>2, <2>1, <2>3, <2>6 DEF Announced
  <2> QED
    BY <1>5, <2>1, <2>4, <2>5, <2>6, <2>7 DEF Explained
<1>12. CASE ReceiveEof
  <2> DEFINE t == [tunnel EXCEPT !.eof = TRUE]
  <2>1. /\ Tunnelling /\ tunnel.receive = "up" /\ ~tunnel.eof
        /\ UNCHANGED <<app, adjusted, queued>>
    BY <1>12, Zenon DEF ReceiveEof, Receiving
  <2>2. \/ toTcp' = Append(toTcp, "Eof") /\ ToSsh(t, ServerEof)
        \/ t.tcp # "up" /\ tunnel' = [t EXCEPT !.receive = "over"] /\ UNCHANGED <<toSsh, toTcp>>
    BY <1>12, Zenon DEF ReceiveEof
  <2>3. /\ t.ssh = tunnel.ssh /\ t.tcp = tunnel.tcp /\ t.eof /\ t.receive = tunnel.receive
        /\ t = [use |-> t.use, receive |-> t.receive, ssh |-> t.ssh,
                tcp |-> t.tcp, answers |-> t.answers, eof |-> t.eof]
    <3>1. tunnel \in Loops
      BY <1>1
    <3>2. t \in Loops
      BY ONLY <3>1 DEF Loops
    <3>3. /\ t.ssh = tunnel.ssh /\ t.tcp = tunnel.tcp /\ t.eof = TRUE
          /\ t.receive = tunnel.receive
      BY ONLY <3>1 DEF Loops
    <3> HIDE DEF t
    <3>4. t = [use |-> t.use, receive |-> t.receive, ssh |-> t.ssh,
               tcp |-> t.tcp, answers |-> t.answers, eof |-> t.eof]
      BY ONLY <3>2 DEF Loops
    <3> QED
      BY <3>3, <3>4, Zenon
  <2> HIDE DEF t
  <2>4. /\ tunnel'.ssh = tunnel.ssh /\ tunnel'.tcp = tunnel.tcp /\ tunnel'.eof
        /\ \/ tunnel'.receive = tunnel.receive \/ tunnel.tcp # "up"
           \/ tunnel.ssh # "up"
    BY <2>2, <2>3 DEF ToSsh
  <2>5. toSsh' \in {toSsh, Append(toSsh, ServerEof)} /\ toTcp' \in {toTcp, Append(toTcp, "Eof")}
    BY <2>2 DEF ToSsh
  <2>6. Ended'
    BY <1>1, <1>2, <1>4, <2>1, <2>4 DEF Ended
  <2>7. Sending' /\ Announced'
    BY <1>2, <1>4, <2>1, <2>4 DEF Sending, Excused, Announced
  <2>8. ServerEof \in Useful
    BY DEF ServerEof, Useful, Report
  <2>9. toTcp' \in Seq({"Data", "Eof"}) /\ (toSsh \in Seq(Useful) => toSsh' \in Seq(Useful))
    <3>1. toTcp \in Seq({"Data", "Eof"})
      BY <1>2, <2>1
    <3>2. Append(toTcp, "Eof") \in Seq({"Data", "Eof"})
      BY ONLY <3>1
    <3>3. ASSUME toSsh \in Seq(Useful) PROVE Append(toSsh, ServerEof) \in Seq(Useful)
      BY ONLY <2>8, <3>3
    <3> QED
      BY <2>5, <3>1, <3>2, <3>3, Zenon
  <2>10. Reported'
    BY <1>2, <2>1, <2>9 DEF Reported
  <2> QED
    BY <1>5, <2>1, <2>6, <2>7, <2>9, <2>10 DEF Explained
<1>13. CASE ReceiveGone
  <2>1. /\ Tunnelling /\ Gone /\ tunnel' = [tunnel EXCEPT !.receive = "over"]
        /\ UNCHANGED <<app, adjusted, toSsh, toTcp, queued>>
    BY <1>13 DEF ReceiveGone, Receiving, vars
  <2>2. /\ tunnel'.ssh = tunnel.ssh /\ tunnel'.tcp = tunnel.tcp /\ tunnel'.eof = tunnel.eof
    BY <1>1, <2>1
  <2>3. Ended' /\ Sending'
    BY <1>2, <1>4, <2>1, <2>2 DEF Ended, Sending, Excused
  <2>4. Reported' /\ Announced' /\ (toTcp \in Seq({"Data", "Eof"}))'
    BY <1>2, <2>1, <2>2 DEF Reported, Announced
  <2> QED
    BY <1>5, <2>1, <2>3, <2>4 DEF Explained
<1>14. CASE CopyToTcp
  <2>1. /\ Tunnelling /\ tunnel.tcp = "up"
        /\ UNCHANGED <<app, adjusted, toSsh, queued>>
    BY <1>14 DEF CopyToTcp, vars
  <2>2. /\ toTcp' = toTcp \/ (toTcp # <<>> /\ toTcp' = Tail(toTcp))
        /\ \/ tunnel' = tunnel
           \/ tunnel' = [tunnel EXCEPT !.tcp = "error"]
           \/ /\ tunnel' = [tunnel EXCEPT !.tcp = "over"]
              /\ (toTcp # <<>> /\ Head(toTcp) = "Eof") \/ tunnel.receive = "over"
    BY <1>14, Zenon DEF CopyToTcp
  <2>3. toTcp # <<>> /\ Head(toTcp) = "Eof" => tunnel.eof
    <3>1. CASE toTcp \in Seq({"Data"}) /\ toTcp # <<>>
      <4>1. Head(toTcp) \in {"Data"}
        BY <3>1
      <4> QED
        BY <4>1
    <3> QED
      BY <1>2, <2>1, <3>1 DEF Announced
  <2>4. /\ tunnel'.ssh = tunnel.ssh /\ tunnel'.eof = tunnel.eof
        /\ tunnel'.receive = tunnel.receive
        /\ \/ tunnel'.tcp = tunnel.tcp \/ tunnel'.tcp = "error"
           \/ tunnel'.tcp = "over" /\ (tunnel.eof \/ tunnel.receive = "over")
    BY <1>1, <2>2, <2>3
  <2>5. Ended'
    BY <1>2, <1>4, <2>1, <2>4 DEF Ended
  <2>6. Sending' /\ Reported'
    BY <1>2, <1>4, <2>1, <2>4 DEF Sending, Excused, Reported
  <2>7. toTcp' \in Seq({"Data", "Eof"}) /\ (toTcp \in Seq({"Data"}) => toTcp' \in Seq({"Data"}))
    BY <1>2, <2>1, <2>2
  <2>8. Announced'
    BY <1>2, <2>1, <2>4, <2>7 DEF Announced
  <2> QED
    BY <1>5, <2>1, <2>5, <2>6, <2>7, <2>8 DEF Explained
<1> QED
  BY <1>6, <1>7, <1>8, <1>9, <1>10, <1>11, <1>12, <1>13, <1>14 DEF TunnelSteps

LEMMA NothingToFlush ==
    ASSUME chan.pending_data = <<>>, NEW window \in Nat
    PROVE  Flush(window) = Unflushed(window)
<1>1. chan.pending_data \in Seq(Pending) /\ Len(chan.pending_data) = 0
  OBVIOUS
<1>2. PICK F : F[0] = Unflushed(window) /\ F[Len(chan.pending_data)] = Flush(window)
  BY FlushPrefixes
<1> QED
  BY <1>1, <1>2

LEMMA SessionsExplained == ASSUME Explained, Flowing, Sessions PROVE Explained'
<1>1. /\ Granting /\ chan.pending_data \in Seq(Pending) /\ app \in App
      /\ chan.recipient_window_size \in Nat /\ chan \in Chan
      /\ adjusts \in Seq(Adjusting) /\ adjusted \in Seq(Nat)
      /\ adjusts \in Seq(Grants) /\ queued \in BOOLEAN
      /\ chan.pending_data # <<>> => queued
  BY CarryingIs DEF Explained, Granting, Flowing, Copying, Giving
<1>2. /\ SessionSteps /\ UNCHANGED <<tunnel, toSsh, toTcp>> /\ app' = app
      /\ queued' = (queued \/ chan'.pending_data # <<>>)
  BY SessionStepsApp DEF Sessions, tunnelVars
<1>3. adjusts' \in Seq(Grants)
  <2>1. CASE adjusts' = adjusts
    BY <1>1, <2>1
  <2>2. CASE adjusts # <<>> /\ adjusts' = Tail(adjusts)
    BY ONLY <1>1, <2>2
  <2>3. CASE ReceiverData /\ adjusts' # adjusts
    <3> DEFINE n == Len(Head(wire))
               left == Received(peer.sender_window_size, n)
               target == peer.target
    <3>1. /\ wire # <<>> /\ NeedsAdjust(left, target)
          /\ adjusts' = Append(adjusts, Adjust(Grant(left, target)))
      BY <2>3, Zenon DEF ReceiverData
    <3>2. /\ n \in Nat /\ n <= peer.sender_window_size /\ peer.sender_window_size \in Nat
          /\ target \in Nat
      BY <3>1, HeadFits, CarryingIs DEF Flowing
    <3>3. left \in Nat
      <4>1. left = peer.sender_window_size - n
        BY <3>2, Zenon DEF Received
      <4> HIDE DEF left, n
      <4> QED
        BY ONLY <3>2, <4>1
    <3> HIDE DEF left, target
    <3>4. target - left \in Nat /\ target - left > 0
      <4>1. left < target \div 2
        BY <3>1 DEF NeedsAdjust
      <4> QED
        BY ONLY <3>2, <3>3, <4>1
    <3>5. Adjust(Grant(left, target)) \in Grants
      BY <3>4 DEF Adjust, Grant, Grants, Adjusting
    <3> DEFINE e == Adjust(Grant(left, target))
    <3> HIDE DEF e
    <3>6. Append(adjusts, e) \in Seq(Grants)
      <4>1. e \in Grants
        BY <3>5 DEF e
      <4> QED
        BY ONLY <1>1, <4>1
    <3> QED
      BY <3>1, <3>6, Zenon DEF e
  <2>4. CASE SessionAdjust
    BY <2>2, <2>4, Zenon DEF SessionAdjust
  <2> QED
    BY <1>2, <2>1, <2>2, <2>3, <2>4, Zenon
       DEF SessionSteps, SessionData, SessionEof, SessionDrops, SessionMisses,
           SessionClosed, ReceiverEof
<1>4. Granting'
  BY <1>1, <1>2, <1>3 DEF Granting
<1>5. Gone => Gone'
  <2>1. TunnelNext
    BY DEF TunnelNext
  <2> QED
    BY <2>1, GoneStays
<1>6. Excused => Excused'
  BY <1>2, <1>5 DEF Excused
<1>7. queued' \/ adjusted' = adjusted
      \/ \E n \in Positive : adjusted' = Append(adjusted, n)
  <2>1. CASE adjusted' = adjusted
    BY <2>1
  <2>2. CASE SessionAdjust /\ adjusted' # adjusted /\ ~queued'
    <3> DEFINE w == chan.recipient_window_size + Head(adjusts).amount
               f == Flush(w)
    <3>1. /\ adjusts # <<>> /\ ~Head(adjusts).close
          /\ adjusted' = Append(adjusted, f.window)
      BY <2>2, Zenon DEF SessionAdjust
    <3>2. chan.pending_data = <<>>
      BY <1>1, <1>2, <2>2
    <3>3. f = Unflushed(w)
      <4>1. Head(adjusts).amount \in Nat
        BY <1>1, <3>1, AmountIs
      <4>2. w \in Nat
        <5> DEFINE v == chan.recipient_window_size
                   a == Head(adjusts).amount
        <5>1. v \in Nat /\ a \in Nat
          BY <1>1, <4>1
        <5> HIDE DEF v, a
        <5>2. v + a \in Nat
          BY ONLY <5>1
        <5> QED
          BY <5>2 DEF v, a
      <4> QED
        BY <3>2, <4>2, NothingToFlush
    <3>4. f.window = w
      BY <3>3 DEF Unflushed
    <3>5. w \in Positive
      <4>1. Head(adjusts) \in Grants
        BY ONLY <1>1, <3>1
      <4>2. Head(adjusts).amount \in Nat /\ Head(adjusts).amount > 0
        BY <3>1, <4>1 DEF Grants, Adjusting
      <4>3. w \in Nat /\ w > 0
        <5> DEFINE v == chan.recipient_window_size
                   a == Head(adjusts).amount
        <5>1. v \in Nat /\ a \in Nat /\ a > 0
          BY <1>1, <4>2
        <5> HIDE DEF v, a
        <5>2. v + a \in Nat /\ v + a > 0
          BY ONLY <5>1
        <5> QED
          BY <5>2 DEF v, a
      <4> QED
        BY <4>3 DEF Positive
    <3> HIDE DEF f, w
    <3> QED
      BY <3>1, <3>4, <3>5
  <2> QED
    BY <1>2, <2>1, <2>2, Zenon
       DEF SessionSteps, SessionData, SessionEof, SessionDrops, SessionMisses,
           SessionClosed, ReceiverData, ReceiverEof
<1>8. ASSUME Tunnelling
      PROVE  (toTcp \in Seq({"Data", "Eof"}) /\ Reported /\ Announced /\ Ended /\ Sending)'
  <2>1. toTcp \in Seq({"Data", "Eof"}) /\ Reported /\ Announced /\ Ended /\ Sending
    BY <1>8 DEF Explained
  <2>2. Reported'
    <3>1. CASE queued'
      BY <3>1 DEF Reported
    <3>2. CASE ~queued'
      <4>1. ~queued
        BY <1>2, <3>2
      <4>2. adjusted \in Seq(Positive) /\ toSsh \in Seq(Useful)
        BY <2>1, <4>1 DEF Reported
      <4>3. adjusted' \in Seq(Positive)
        <5>1. CASE adjusted' = adjusted
          BY <4>2, <5>1
        <5>2. ASSUME NEW n \in Positive, adjusted' = Append(adjusted, n)
              PROVE  adjusted' \in Seq(Positive)
          <6>1. Append(adjusted, n) \in Seq(Positive)
            BY ONLY <4>2, <5>2
          <6> QED
            BY <5>2, <6>1
        <5> QED
          BY <1>7, <3>2, <5>1, <5>2
      <4> QED
        BY <1>2, <4>2, <4>3 DEF Reported
    <3> QED
      BY <3>1, <3>2
  <2>3. Sending'
    BY <1>2, <1>6, <2>1 DEF Sending
  <2>4. Ended'
    BY <1>2, <1>5, <2>1 DEF Ended
  <2>5. Announced'
    BY <1>2, <2>1 DEF Announced
  <2> QED
    BY <1>2, <2>1, <2>2, <2>3, <2>4, <2>5
<1> QED
  BY <1>2, <1>4, <1>8 DEF Explained, Tunnelling

LEMMA StepExplained ==
    ASSUME WindowSize > 0, Explained, Flowing, [TunnelNext]_allVars PROVE Explained'
<1>1. CASE TunnelSteps
  BY <1>1, TunnelStepsExplained
<1>2. CASE ChannelSteps
  <2>1. ~Tunnelling /\ UNCHANGED <<chan, adjusts, tunnel, queued>>
    BY <1>2, AppStepsKeep DEF ChannelSteps, tunnelVars
  <2> QED
    BY <2>1, GrantingStays DEF Explained, Tunnelling
<1>3. CASE Sessions
  BY <1>3, SessionsExplained
<1>4. CASE HandlerCloses
  <2>1. /\ UNCHANGED <<app, adjusted, chan, tunnel, toSsh, toTcp, queued>>
        /\ adjusts' = Append(adjusts, Close)
    BY <1>4 DEF HandlerCloses, ServerCloses, tunnelVars
  <2>2. Close \in Grants
    BY DEF Close, Grants, Adjusting
  <2>3. Granting'
    BY <2>1, <2>2 DEF Explained, Granting
  <2> QED
    BY <2>1, <2>3 DEF Explained, Tunnelling, Reported, Announced, Ended, Sending,
                      Excused, Gone
<1>5. CASE UNCHANGED allVars
  <2>1. UNCHANGED <<app, adjusted, chan, adjusts, tunnel, toSsh, toTcp, queued>>
    BY <1>5 DEF allVars, vars, tunnelVars
  <2> QED
    BY <2>1, GrantingStays DEF Explained, Tunnelling, Reported, Announced, Ended, Sending,
                               Excused, Gone
<1> QED
  BY <1>1, <1>2, <1>3, <1>4, <1>5 DEF TunnelNext

LEMMA InitExplained == ASSUME WindowSize > 0, TunnelInit PROVE Explained
<1>1. /\ app.phase = "idle" /\ app.window_size = WindowSize
      /\ adjusts = <<>> /\ adjusted = <<>> /\ chan.pending_data = <<>>
  BY DEF TunnelInit, Init
<1>2. /\ toSsh = <<>> /\ toTcp = <<>> /\ queued = FALSE
      /\ tunnel.receive = "up" /\ tunnel.ssh = "up" /\ tunnel.tcp = "up"
  BY DEF TunnelInit
<1>3. /\ adjusts \in Seq(Grants) /\ adjusted \in Seq(Positive) /\ toSsh \in Seq(Useful)
      /\ toSsh \in Seq(Sizes) /\ toTcp \in Seq({"Data"}) /\ toTcp \in Seq({"Data", "Eof"})
  BY <1>1, <1>2
<1> QED
  BY <1>1, <1>2, <1>3 DEF Explained, Granting, Reported, Announced, Ended, Sending

(* What a tunnel does not copy has a reason, with any window but one of 0:  *)
(* its EOF comes early only if it has outrun the session's window, or a     *)
(* write to TCP failed, or the channel is gone; send_to_tcp_loop ends       *)
(* before the server's EOF only if the other direction has ended, if need   *)
(* be by an error of its read; and send_to_ssh_loop ends without an EOF     *)
(* only over such an error, the end of the session, or the server's EOF.    *)
THEOREM EveryCutExplained == WindowSize > 0 => (TunnelSpec => []CutsExplained)
<1> SUFFICES ASSUME WindowSize > 0 PROVE TunnelSpec => []CutsExplained
  OBVIOUS
<1>1. TunnelInit => Flowing /\ Explained
  BY TunnelInitFlows, InitExplained
<1>2. (Flowing /\ Explained) /\ [TunnelNext]_allVars => (Flowing /\ Explained)'
  BY StepFlows, StepExplained
<1>3. Flowing /\ Explained => CutsExplained
  BY ExplainedIs
<1> QED
  BY <1>1, <1>2, <1>3, PTL DEF TunnelSpec

-----------------------------------------------------------------------------
(* The elements of q take a stream from one place to another, each of them  *)
(* the part that R allows it.                                               *)

Chained(R, q, from, to) ==
    \E f \in [0..Len(q) -> Nat] :
        /\ f[0] = from /\ f[Len(q)] = to
        /\ \A i \in 1..Len(q) : <<q[i], f[i - 1], f[i]>> \in R
        /\ \A i, j \in 0..Len(q) : i <= j => f[i] <= f[j]

LEMMA ChainedNone ==
    ASSUME NEW R, NEW from \in Nat
    PROVE  Chained(R, <<>>, from, from)
<1> DEFINE f == [i \in 0..0 |-> from]
<1>1. Len(<<>>) = 0 /\ f \in [0..0 -> Nat] /\ f[0] = from
  OBVIOUS
<1>2. \A i, j \in 0..0 : i <= j => f[i] <= f[j]
  OBVIOUS
<1> HIDE DEF f
<1> QED
  BY <1>1, <1>2 DEF Chained

LEMMA ChainedNoneIs ==
    ASSUME NEW R, NEW from, NEW to, Chained(R, <<>>, from, to)
    PROVE  to = from
BY DEF Chained

LEMMA ChainedForward ==
    ASSUME NEW R, NEW T, NEW q \in Seq(T), NEW from, NEW to, Chained(R, q, from, to)
    PROVE  from \in Nat /\ to \in Nat /\ from <= to
<1>1. Len(q) \in Nat /\ 0 \in 0..Len(q) /\ Len(q) \in 0..Len(q) /\ 0 <= Len(q)
  OBVIOUS
<1>2. PICK f \in [0..Len(q) -> Nat] :
         /\ f[0] = from /\ f[Len(q)] = to
         /\ \A i, j \in 0..Len(q) : i <= j => f[i] <= f[j]
  BY DEF Chained
<1> QED
  BY <1>1, <1>2

LEMMA ChainedMore ==
    ASSUME NEW R, NEW S, R \subseteq S, NEW q, NEW from, NEW to, Chained(R, q, from, to)
    PROVE  Chained(S, q, from, to)
BY DEF Chained

LEMMA ChainedAppend ==
    ASSUME NEW R, NEW T, NEW q \in Seq(T), NEW x \in T, NEW from, NEW b, NEW c \in Nat,
           Chained(R, q, from, b), <<x, b, c>> \in R, b <= c
    PROVE  Chained(R, Append(q, x), from, c)
<1> DEFINE r == Append(q, x)
           n == Len(q)
<1>1. /\ Len(r) = n + 1 /\ n \in Nat /\ r[n + 1] = x
      /\ \A i \in 1..n : r[i] = q[i]
  OBVIOUS
<1>2. PICK f \in [0..n -> Nat] :
         /\ f[0] = from /\ f[n] = b
         /\ \A i \in 1..n : <<q[i], f[i - 1], f[i]>> \in R
         /\ \A i, j \in 0..n : i <= j => f[i] <= f[j]
  BY DEF Chained
<1> DEFINE g == [i \in 0..(n + 1) |-> IF i = n + 1 THEN c ELSE f[i]]
<1> HIDE DEF r, n
<1>3. g \in [0..(n + 1) -> Nat]
  BY <1>1, <1>2
<1>4. /\ \A i \in 0..n : g[i] = f[i]
      /\ g[n + 1] = c
  BY <1>1
<1> HIDE DEF g
<1>5. g[0] = from /\ g[n] = b
  BY <1>1, <1>2, <1>4
<1>6. ASSUME NEW i \in 1..(n + 1) PROVE <<r[i], g[i - 1], g[i]>> \in R
  <2>1. CASE i = n + 1
    <3>1. i - 1 = n
      BY <1>1, <2>1
    <3> QED
      BY <1>1, <1>4, <1>5, <2>1, <3>1
  <2>2. CASE i # n + 1
    <3>1. i \in 1..n /\ i \in 0..n /\ i - 1 \in 0..n
      BY <1>1, <2>2
    <3> QED
      BY <1>1, <1>2, <1>4, <3>1
  <2> QED
    BY <2>1, <2>2
<1>7. ASSUME NEW i \in 0..(n + 1), NEW j \in 0..(n + 1), i <= j PROVE g[i] <= g[j]
  <2>1. CASE j = n + 1
    <3>1. CASE i = n + 1
      BY <1>4, <2>1, <3>1
    <3>2. CASE i # n + 1
      <4>1. i \in 0..n /\ n \in 0..n /\ i <= n
        BY <1>1, <3>2
      <4>2. f[i] <= b /\ f[i] \in Nat /\ b \in Nat
        BY <1>2, <4>1
      <4>3. g[i] = f[i] /\ g[j] = c
        BY <1>4, <2>1, <4>1
      <4>4. f[i] <= c
        BY <4>2, AtMost, Zenon
      <4> QED
        BY <4>3, <4>4
    <3> QED
      BY <3>1, <3>2
  <2>2. CASE j # n + 1
    <3>1. i \in 0..n /\ j \in 0..n
      BY <1>1, <1>7, <2>2
    <3> QED
      BY <1>2, <1>4, <1>7, <3>1
  <2> QED
    BY <2>1, <2>2
<1> QED
  BY <1>1, <1>3, <1>4, <1>5, <1>6, <1>7 DEF Chained, r

LEMMA ChainedOne ==
    ASSUME NEW R, NEW x, NEW from \in Nat, NEW to \in Nat, <<x, from, to>> \in R, from <= to
    PROVE  Chained(R, <<x>>, from, to)
<1>1. <<>> \in Seq({x}) /\ Append(<<>>, x) = <<x>> /\ x \in {x}
  OBVIOUS
<1>2. Chained(R, <<>>, from, from)
  BY ChainedNone
<1>3. Chained(R, Append(<<>>, x), from, to)
  BY <1>1, <1>2, ChainedAppend
<1> QED
  BY <1>1, <1>3

LEMMA ChainedHead ==
    ASSUME NEW R, NEW T, NEW q \in Seq(T), q # <<>>, NEW from, NEW to,
           Chained(R, q, from, to)
    PROVE  \E b \in Nat : /\ from <= b /\ <<Head(q), from, b>> \in R
                          /\ Chained(R, Tail(q), b, to)
<1> DEFINE r == Tail(q)
           n == Len(q)
<1>1. /\ n \in Nat /\ n > 0 /\ Len(r) = n - 1 /\ Head(q) = q[1]
      /\ \A i \in 1..(n - 1) : r[i] = q[i + 1]
  OBVIOUS
<1>2. PICK f \in [0..n -> Nat] :
         /\ f[0] = from /\ f[n] = to
         /\ \A i \in 1..n : <<q[i], f[i - 1], f[i]>> \in R
         /\ \A i, j \in 0..n : i <= j => f[i] <= f[j]
  BY DEF Chained
<1> DEFINE g == [i \in 0..(n - 1) |-> f[i + 1]]
<1> HIDE DEF r, n
<1>3. g \in [0..(n - 1) -> Nat] /\ \A i \in 0..(n - 1) : g[i] = f[i + 1]
  BY <1>1, <1>2
<1> HIDE DEF g
<1>4. g[0] = f[1] /\ g[n - 1] = to
  <2>1. 0 \in 0..(n - 1) /\ 0 + 1 = 1 /\ n - 1 \in 0..(n - 1) /\ (n - 1) + 1 = n
    BY <1>1
  <2> QED
    BY <1>2, <1>3, <2>1
<1>5. ASSUME NEW i \in 1..(n - 1) PROVE <<r[i], g[i - 1], g[i]>> \in R
  <2>1. /\ i + 1 \in 1..n /\ (i + 1) - 1 = i /\ (i - 1) + 1 = i
        /\ i \in 0..(n - 1) /\ i - 1 \in 0..(n - 1)
    BY <1>1
  <2>2. <<q[i + 1], f[(i + 1) - 1], f[i + 1]>> \in R
    BY <1>2, <2>1
  <2> QED
    BY <1>1, <1>3, <2>1, <2>2
<1>6. ASSUME NEW i \in 0..(n - 1), NEW j \in 0..(n - 1), i <= j PROVE g[i] <= g[j]
  <2>1. i + 1 \in 0..n /\ j + 1 \in 0..n /\ i + 1 <= j + 1
    BY <1>1, <1>6
  <2> QED
    BY <1>2, <1>3, <2>1
<1>7. Chained(R, r, f[1], to)
  BY <1>1, <1>3, <1>4, <1>5, <1>6 DEF Chained
<1>8. f[1] \in Nat /\ from <= f[1] /\ <<q[1], from, f[1]>> \in R
  <2>1. 1 \in 0..n /\ 0 \in 0..n /\ 1 \in 1..n /\ 1 - 1 = 0 /\ 0 <= 1
    BY <1>1
  <2> QED
    BY <1>2, <2>1
<1> QED
  BY <1>1, <1>7, <1>8 DEF r

LEMMA ChainedConcat ==
    ASSUME NEW R, NEW T, NEW p \in Seq(T), NEW q \in Seq(T), NEW from, NEW b, NEW to,
           Chained(R, p, from, b), Chained(R, q, b, to)
    PROVE  Chained(R, p \o q, from, to)
<1> DEFINE r == p \o q
           m == Len(p)
           n == Len(q)
<1>1. /\ m \in Nat /\ n \in Nat /\ Len(r) = m + n
      /\ \A i \in 1..m : r[i] = p[i]
      /\ \A i \in 1..n : r[m + i] = q[i]
  OBVIOUS
<1>2. PICK f \in [0..m -> Nat] :
         /\ f[0] = from /\ f[m] = b
         /\ \A i \in 1..m : <<p[i], f[i - 1], f[i]>> \in R
         /\ \A i, j \in 0..m : i <= j => f[i] <= f[j]
  BY DEF Chained
<1>3. PICK h \in [0..n -> Nat] :
         /\ h[0] = b /\ h[n] = to
         /\ \A i \in 1..n : <<q[i], h[i - 1], h[i]>> \in R
         /\ \A i, j \in 0..n : i <= j => h[i] <= h[j]
  BY DEF Chained
<1> DEFINE g == [i \in 0..(m + n) |-> IF i <= m THEN f[i] ELSE h[i - m]]
<1> HIDE DEF r, m, n
<1>4. g \in [0..(m + n) -> Nat]
  <2>1. ASSUME NEW i \in 0..(m + n) PROVE (IF i <= m THEN f[i] ELSE h[i - m]) \in Nat
    <3>1. CASE i <= m
      <4>1. i \in 0..m
        BY <1>1, <3>1
      <4> QED
        BY <1>2, <3>1, <4>1
    <3>2. CASE ~(i <= m)
      <4>1. i - m \in 0..n
        BY <1>1, <3>2
      <4> QED
        BY <1>3, <3>2, <4>1
    <3> QED
      BY <3>1, <3>2
  <2> QED
    BY <2>1
<1>5. ASSUME NEW i \in 0..m PROVE g[i] = f[i]
  <2>1. i \in 0..(m + n) /\ i <= m
    BY <1>1
  <2> QED
    BY <2>1
<1>6. ASSUME NEW i \in 0..n PROVE g[m + i] = h[i]
  <2>1. m + i \in 0..(m + n) /\ (m + i) - m = i
    <3>1. m \in Nat /\ n \in Nat /\ i \in Nat /\ i <= n
      BY <1>1
    <3> QED
      BY ONLY <3>1
  <2>2. CASE i = 0
    <3>1. m + i = m /\ m \in 0..m
      BY <1>1, <2>2
    <3> QED
      BY <1>2, <1>3, <1>5, <2>2, <3>1
  <2>3. CASE i # 0
    <3>1. ~(m + i <= m)
      BY <1>1, <2>3
    <3> QED
      BY <2>1, <3>1
  <2> QED
    BY <2>2, <2>3
<1> HIDE DEF g
<1>7. \A i \in 0..(m + n) : i \in 0..m \/ (i - m \in 0..n /\ m + (i - m) = i)
  BY <1>1
<1>8. ASSUME NEW i \in 1..(m + n) PROVE <<r[i], g[i - 1], g[i]>> \in R
  <2>1. CASE i <= m
    <3>1. i \in 1..m /\ i \in 0..m /\ i - 1 \in 0..m
      BY <1>1, <2>1
    <3> QED
      BY <1>1, <1>2, <1>5, <3>1
  <2>2. CASE ~(i <= m)
    <3> DEFINE k == i - m
    <3>1. k \in 1..n /\ k \in 0..n /\ k - 1 \in 0..n /\ m + k = i /\ m + (k - 1) = i - 1
      BY <1>1, <2>2
    <3> HIDE DEF k
    <3>2. r[m + k] = q[k] /\ g[m + k] = h[k] /\ g[m + (k - 1)] = h[k - 1]
      BY <1>1, <1>6, <3>1
    <3> QED
      BY <1>3, <3>1, <3>2
  <2> QED
    BY <2>1, <2>2
<1>9. ASSUME NEW i \in 0..(m + n), NEW j \in 0..(m + n), i <= j PROVE g[i] <= g[j]
  <2>1. CASE j <= m
    <3>1. i \in 0..m /\ j \in 0..m
      BY <1>1, <1>9, <2>1
    <3> QED
      BY <1>2, <1>5, <1>9, <3>1
  <2>2. CASE ~(j <= m)
    <3> DEFINE k == j - m
    <3>1. k \in 0..n /\ m + k = j
      BY <1>1, <2>2
    <3> HIDE DEF k
    <3>2. g[j] = h[k]
      BY <1>6, <3>1
    <3>3. CASE i <= m
      <4>1. i \in 0..m /\ m \in 0..m /\ i <= m /\ 0 \in 0..n /\ 0 <= k
        BY <1>1, <3>1, <3>3
      <4>2. f[i] <= b /\ b <= h[k] /\ f[i] \in Nat /\ b \in Nat /\ h[k] \in Nat
        BY <1>2, <1>3, <3>1, <4>1
      <4>3. g[i] = f[i]
        BY <1>5, <4>1
      <4> QED
        BY <3>2, <4>2, <4>3, AtMost
    <3>4. CASE ~(i <= m)
      <4> DEFINE l == i - m
      <4>1. l \in 0..n /\ m + l = i /\ l <= k
        <5>1. /\ m \in Nat /\ n \in Nat /\ i \in Nat /\ i <= j /\ ~(i <= m)
              /\ k \in Nat /\ k <= n /\ m + k = j
          BY <1>1, <1>9, <3>1, <3>4
        <5> QED
          BY ONLY <5>1
      <4> HIDE DEF l
      <4>2. g[i] = h[l]
        BY <1>6, <4>1
      <4> QED
        BY <1>3, <3>1, <3>2, <4>1, <4>2
    <3> QED
      BY <3>3, <3>4
  <2> QED
    BY <2>1, <2>2
<1>10. g[0] = from /\ g[m + n] = to
  <2>1. 0 \in 0..m /\ n \in 0..n
    BY <1>1
  <2> QED
    BY <1>2, <1>3, <1>5, <1>6, <2>1
<1> QED
  BY <1>1, <1>4, <1>8, <1>9, <1>10 DEF Chained, r

LEMMA Stepwise ==
    ASSUME NEW n \in Nat, NEW f \in [0..n -> Nat], \A k \in 1..n : f[k - 1] <= f[k]
    PROVE  \A i, j \in 0..n : i <= j => f[i] <= f[j]
<1> SUFFICES ASSUME NEW i \in 0..n PROVE \A j \in 0..n : i <= j => f[i] <= f[j]
  OBVIOUS
<1> DEFINE S == {j \in 0..n : i <= j => f[i] <= f[j]}
<1>1. 0 \in S
  <2>1. i <= 0 => i = 0
    OBVIOUS
  <2> QED
    BY <2>1
<1>2. ASSUME NEW k \in 1..n, k - 1 \in S PROVE k \in S
  <2>1. k \in 0..n /\ k - 1 \in 0..n /\ f[k - 1] <= f[k]
        /\ f[i] \in Nat /\ f[k] \in Nat /\ f[k - 1] \in Nat
    OBVIOUS
  <2>2. i <= k => i = k \/ i <= k - 1
    OBVIOUS
  <2>3. i <= k - 1 => f[i] <= f[k - 1]
    BY <1>2
  <2>4. i <= k => f[i] <= f[k]
    BY <2>1, <2>2, <2>3
  <2> QED
    BY <2>1, <2>4
<1> HIDE DEF S
<1>3. \A j \in 0..n : j \in S
  BY <1>1, <1>2, Upwards
<1> QED
  BY <1>3 DEF S

(* The bytes are those of the stream behind `from' and up to `to'. *)
Spans(bytes, from, to) ==
    /\ to = from + Len(bytes)
    /\ \A i \in 1..Len(bytes) : bytes[i] = from + i

(* What the queues hold, as parts of the stream: packets, messages, and     *)
(* messages of which nothing has left.  `ends' says which part an EOF is,   *)
(* `kinds' whether bytes may be extended data and plain data.               *)
Carries(kinds, ends) ==
    {t \in Packet \X Nat \X Nat :
        IF t[1] = <<>> THEN <<t[2], t[3]>> \in ends
        ELSE /\ t[3] = t[2] + Len(t[1])
             /\ \A i \in 1..Len(t[1]) : t[1][i] \in kinds \X {t[2] + i}}

Says(ends) ==
    {t \in Mail \X Nat \X Nat :
        IF t[1].eof THEN <<t[2], t[3]>> \in ends ELSE Spans(t[1].bytes, t[2], t[3])}

Waiting == {t \in Pending \X Nat \X Nat : t[1].from = 0 /\ Spans(t[1].buf, t[2], t[3])}

LEMMA CarriesIs ==
    ASSUME NEW kinds, NEW ends, NEW p \in Packet, NEW a \in Nat, NEW b \in Nat
    PROVE  <<p, a, b>> \in Carries(kinds, ends) <=>
              IF p = <<>> THEN <<a, b>> \in ends
              ELSE b = a + Len(p) /\ \A i \in 1..Len(p) : p[i] \in kinds \X {a + i}
<1> DEFINE t == <<p, a, b>>
<1>1. t \in Packet \X Nat \X Nat /\ t[1] = p /\ t[2] = a /\ t[3] = b
  OBVIOUS
<1> HIDE DEF t
<1>2. t \in Carries(kinds, ends) <=>
        IF p = <<>> THEN <<a, b>> \in ends
        ELSE b = a + Len(p) /\ \A i \in 1..Len(p) : p[i] \in kinds \X {a + i}
  BY <1>1, Zenon DEF Carries
<1> QED
  BY <1>2 DEF t

LEMMA SaysIs ==
    ASSUME NEW ends, NEW m \in Mail, NEW a \in Nat, NEW b \in Nat
    PROVE  <<m, a, b>> \in Says(ends) <=>
              IF m.eof THEN <<a, b>> \in ends ELSE Spans(m.bytes, a, b)
<1> DEFINE t == <<m, a, b>>
<1>1. t \in Mail \X Nat \X Nat /\ t[1] = m /\ t[2] = a /\ t[3] = b
  OBVIOUS
<1> HIDE DEF t
<1>2. t \in Says(ends) <=> IF m.eof THEN <<a, b>> \in ends ELSE Spans(m.bytes, a, b)
  BY <1>1, Zenon DEF Says
<1> QED
  BY <1>2 DEF t

LEMMA WaitingIs ==
    ASSUME NEW e \in Pending, NEW a \in Nat, NEW b \in Nat
    PROVE  <<e, a, b>> \in Waiting <=> e.from = 0 /\ Spans(e.buf, a, b)
<1> DEFINE t == <<e, a, b>>
<1>1. t \in Pending \X Nat \X Nat /\ t[1] = e /\ t[2] = a /\ t[3] = b
  OBVIOUS
<1> HIDE DEF t
<1>2. t \in Waiting <=> e.from = 0 /\ Spans(e.buf, a, b)
  BY <1>1, Zenon DEF Waiting
<1> QED
  BY <1>2 DEF t

(* The packets of a part of the stream, one behind the other. *)
LEMMA PacketsChained ==
    ASSUME NEW kinds, NEW ends, NEW ext \in BOOLEAN, ext \in kinds,
           NEW bytes \in Text, NEW from \in Nat, NEW to, Spans(bytes, from, to)
    PROVE  Chained(Carries(kinds, ends), Packets(bytes, ext), from, to)
<1> DEFINE L == Len(bytes)
           M == MaxPacket
           K == (L + M - 1) \div M
           P == Packets(bytes, ext)
           f == [k \in 0..K |-> from + (IF k * M <= L THEN k * M ELSE L)]
<1>1. /\ K \in Nat /\ L \in Nat /\ M \in Nat \ {0} /\ L <= K * M
      /\ \A k \in 1..K : (k - 1) * M \in Nat /\ (k - 1) * M < L /\ k * M = (k - 1) * M + M
  BY RoundedUp, FlowAssumption DEF Text
<1>2. P \in Seq(Packet) /\ Len(P) = K
  <2>1. P \in Seq(Packet)
    BY PacketsAre DEF Text, Packet
  <2>2. P = [k \in 1..K |-> P[k]]
    BY DEF Packets
  <2>3. \A k \in 1..K : P[k] \in Packet
    BY PacketIs DEF Text, Packet
  <2> HIDE DEF P, K
  <2> QED
    BY <1>1, <2>1, <2>2, <2>3, SeqFrom, Zenon
<1>3. ASSUME NEW k \in 1..K
      PROVE  /\ P[k] \in Packet
             /\ Len(P[k]) = IF k * M <= L THEN M ELSE L - (k - 1) * M
             /\ \A i \in 1..Len(P[k]) : P[k][i] = <<ext, bytes[(k - 1) * M + i]>>
  BY PacketIs DEF Text, Packet
<1>4. to = from + L /\ \A i \in 1..L : bytes[i] = from + i
  BY DEF Spans
<1> HIDE DEF K, P, L, M
<1>5. ASSUME NEW k \in 1..K
      PROVE  /\ f[k - 1] = from + (k - 1) * M
             /\ f[k] = from + (IF k * M <= L THEN (k - 1) * M + M ELSE L)
             /\ (k - 1) * M \in Nat /\ (k - 1) * M < L
             /\ (k * M <= L => (k - 1) * M + M <= L)
             /\ (~(k * M <= L) => (k - 1) * M + M > L)
  <2>0. k - 1 \in 0..K /\ k \in 0..K
    <3>1. K \in Nat
      BY <1>1
    <3> QED
      BY ONLY <3>1, k \in 1..K
  <2>1. /\ (k - 1) * M \in Nat /\ (k - 1) * M < L /\ k * M = (k - 1) * M + M
        /\ L \in Nat /\ M \in Nat /\ M > 0
    BY <1>1
  <2>2. f[k] = from + (IF k * M <= L THEN k * M ELSE L)
    BY <2>0
  <2>3. f[k - 1] = from + (IF (k - 1) * M <= L THEN (k - 1) * M ELSE L)
    BY <2>0
  <2> HIDE DEF f
  <2> DEFINE u == (k - 1) * M
             v == k * M
  <2>4. u \in Nat /\ u < L /\ v = u + M /\ L \in Nat /\ M \in Nat /\ M > 0
    BY <2>1
  <2>5. f[k] = from + (IF v <= L THEN v ELSE L) /\ f[k - 1] = from + (IF u <= L THEN u ELSE L)
    BY <2>2, <2>3
  <2> HIDE DEF u, v
  <2>6. /\ f[k - 1] = from + u
        /\ f[k] = from + (IF v <= L THEN u + M ELSE L)
        /\ (v <= L => u + M <= L) /\ (~(v <= L) => u + M > L)
    BY ONLY <2>4, <2>5
  <2> QED
    BY <2>4, <2>6 DEF u, v
<1>6. f[0] = from /\ f[K] = to
  <2>1. f[0] = from + (IF 0 * M <= L THEN 0 * M ELSE L) /\ 0 * M = 0 /\ 0 <= L
    BY <1>1
  <2>2. f[K] = from + (IF K * M <= L THEN K * M ELSE L)
    BY <1>1
  <2>3. K * M \in Nat
    BY <1>1
  <2> HIDE DEF f
  <2>4. K * M <= L => K * M = L
    BY <1>1, <2>3
  <2> QED
    BY <1>4, <2>1, <2>2, <2>4
<1>7. f \in [0..K -> Nat]
  <2>1. ASSUME NEW k \in 0..K PROVE from + (IF k * M <= L THEN k * M ELSE L) \in Nat
    <3>1. k * M \in Nat
      BY <1>1
    <3> QED
      BY <1>1, <3>1
  <2> QED
    BY <2>1
<1> HIDE DEF f
<1>8. ASSUME NEW k \in 1..K
      PROVE  <<P[k], f[k - 1], f[k]>> \in Carries(kinds, ends) /\ f[k - 1] <= f[k]
  <2> DEFINE u == (k - 1) * M
             n == Len(P[k])
             full == k * M <= L
  <2>1. /\ f[k - 1] = from + u
        /\ f[k] = from + (IF full THEN u + M ELSE L)
        /\ u \in Nat /\ u < L
        /\ (full => u + M <= L) /\ (~full => u + M > L)
    BY <1>5
  <2>2. /\ P[k] \in Packet /\ n = IF full THEN M ELSE L - u
        /\ \A i \in 1..n : P[k][i] = <<ext, bytes[u + i]>>
    BY <1>3
  <2> HIDE DEF u, n, full
  <2>3. /\ n \in Nat /\ n > 0 /\ f[k] = f[k - 1] + n /\ f[k - 1] <= f[k]
        /\ u + n <= L /\ f[k - 1] \in Nat /\ f[k] \in Nat
    <3>1. M \in Nat \ {0} /\ L \in Nat
      BY <1>1
    <3> QED
      BY ONLY <2>1, <2>2, <3>1, from \in Nat
  <2>4. ASSUME NEW i \in 1..n PROVE P[k][i] \in kinds \X {f[k - 1] + i}
    <3>1. u + i \in 1..L /\ from + (u + i) = f[k - 1] + i
      <4>1. L \in Nat
        BY <1>1
      <4> QED
        BY ONLY <2>1, <2>3, <4>1, i \in 1..n, from \in Nat
    <3>2. bytes[u + i] = f[k - 1] + i
      BY <1>4, <3>1
    <3>3. P[k][i] = <<ext, f[k - 1] + i>>
      BY <2>2, <3>2, Zenon
    <3> QED
      BY ONLY <3>3, ext \in kinds
  <2>5. P[k] # <<>>
    BY <2>3 DEF n
  <2> QED
    BY <2>2, <2>3, <2>4, <2>5, CarriesIs DEF n
<1>9. \A i, j \in 0..K : i <= j => f[i] <= f[j]
  <2>1. K \in Nat
    BY <1>1
  <2> QED
    BY <1>7, <1>8, <2>1, Stepwise
<1> QED
  BY <1>2, <1>6, <1>7, <1>8, <1>9 DEF Chained, P

(* What the window lets through of a message is its beginning. *)
LEMMA FirstSpans ==
    ASSUME NEW w \in Nat, NEW buf \in Text, NEW a \in Nat, NEW b, Spans(buf, a, b)
    PROVE  LET now == Slice(w, buf, 0) IN
           /\ now \in Text /\ Len(now) \in Nat /\ Len(now) <= Len(buf)
           /\ Spans(now, a, a + Len(now))
           /\ ~(Len(now) < Len(buf)) => Spans(now, a, b)
<1> DEFINE end == SliceEnd(w, buf)
           now == Slice(w, buf, 0)
<1>1. /\ end \in Nat /\ end <= w /\ end <= Len(buf) /\ 0 <= end /\ end - 0 = end
      /\ Len(buf) \in Nat /\ 0 + 1 = 1
  BY DEF SliceEnd, Text
<1> HIDE DEF end
<1>2. now = SubSeq(buf, 0 + 1, end)
  BY DEF Slice, end
<1>3. /\ SubSeq(buf, 0 + 1, end) \in Text /\ Len(SubSeq(buf, 0 + 1, end)) = end - 0
      /\ \A i \in 1..(end - 0) : SubSeq(buf, 0 + 1, end)[i] = buf[0 + i]
  BY <1>1, SliceIs DEF Text
<1> HIDE DEF now
<1>4. now \in Text /\ Len(now) = end /\ \A i \in 1..end : now[i] = buf[i]
  BY <1>1, <1>2, <1>3
<1>5. b = a + Len(buf) /\ \A i \in 1..Len(buf) : buf[i] = a + i
  BY DEF Spans
<1>6. \A i \in 1..end : now[i] = a + i
  BY <1>1, <1>4, <1>5
<1>7. Spans(now, a, a + Len(now))
  BY <1>4, <1>6 DEF Spans
<1>8. ~(Len(now) < Len(buf)) => a + Len(now) = b
  BY <1>1, <1>4, <1>5
<1> QED
  BY <1>1, <1>4, <1>7, <1>8 DEF now

-----------------------------------------------------------------------------
(* The stream between the receiver, at `from', and the application, at `to'. *)

Flow(kinds, ends, packets, pending, messages, from, to) ==
    \E a, b \in Nat :
        /\ Chained(Carries(kinds, ends), packets, from, a)
        /\ Chained(Waiting, pending, a, b)
        /\ Chained(Says(ends), messages, b, to)

(* What is still on its way when the sender's session has lost the channel. *)
Remains(kinds, ends, packets, from, to) ==
    \E a \in Nat : a <= to /\ Chained(Carries(kinds, ends), packets, from, a)

(* Of a message in the queue a part has left. *)
Cut(pending) == \E i \in DOMAIN pending : pending[i].from > 0

LEMMA FlowRemains ==
    ASSUME NEW K, NEW E, NEW w \in Seq(Packet), NEW p \in Seq(Pending), NEW m \in Seq(Mail),
           NEW from, NEW to, Flow(K, E, w, p, m, from, to)
    PROVE  Remains(K, E, w, from, to) /\ from \in Nat /\ to \in Nat
<1>1. PICK a \in Nat, b \in Nat :
         /\ Chained(Carries(K, E), w, from, a)
         /\ Chained(Waiting, p, a, b)
         /\ Chained(Says(E), m, b, to)
  BY DEF Flow
<1>2. from \in Nat /\ a <= b /\ b <= to /\ to \in Nat
  BY <1>1, ChainedForward
<1>3. a <= to
  BY <1>1, <1>2, AtMost, Zenon
<1> QED
  BY <1>1, <1>2, <1>3 DEF Remains

LEMMA FlowNone ==
    ASSUME NEW K, NEW E
    PROVE  Flow(K, E, <<>>, <<>>, <<>>, 0, 0)
<1>1. 0 \in Nat
  OBVIOUS
<1> QED
  BY <1>1, ChainedNone DEF Flow

LEMMA FlowMore ==
    ASSUME NEW K, NEW L, K \subseteq L, NEW E, NEW w, NEW p, NEW m, NEW from, NEW to
    PROVE  /\ Flow(K, E, w, p, m, from, to) => Flow(L, E, w, p, m, from, to)
           /\ Remains(K, E, w, from, to) => Remains(L, E, w, from, to)
<1>1. Carries(K, E) \subseteq Carries(L, E)
  <2>1. ASSUME NEW t \in Carries(K, E) PROVE t \in Carries(L, E)
    <3>1. /\ t \in Packet \X Nat \X Nat
          /\ IF t[1] = <<>> THEN <<t[2], t[3]>> \in E
             ELSE /\ t[3] = t[2] + Len(t[1])
                  /\ \A i \in 1..Len(t[1]) : t[1][i] \in K \X {t[2] + i}
      BY DEF Carries
    <3>2. \A x : K \X {x} \subseteq L \X {x}
      OBVIOUS
    <3>3. \A x, y : y \in K \X {x} => y \in L \X {x}
      BY <3>2
    <3> QED
      BY <3>1, <3>3, Zenon DEF Carries
  <2> QED
    BY <2>1
<1>2. \A a : Chained(Carries(K, E), w, from, a) => Chained(Carries(L, E), w, from, a)
  BY <1>1, ChainedMore
<1> QED
  BY <1>2, Zenon DEF Flow, Remains

LEMMA ReachesOn ==
    ASSUME NEW K, NEW E, NEW w, NEW from, NEW to \in Nat, NEW next \in Nat, to <= next,
           Remains(K, E, w, from, to)
    PROVE  Remains(K, E, w, from, next)
<1>1. PICK a \in Nat : a <= to /\ Chained(Carries(K, E), w, from, a)
  BY DEF Remains
<1>2. a <= next
  BY <1>1, AtMost, Zenon
<1> QED
  BY <1>1, <1>2 DEF Remains

(* The application queues a message. *)
LEMMA MessageFlows ==
    ASSUME NEW K, NEW E, NEW w, NEW p, NEW m \in Seq(Mail), NEW from, NEW to,
           Flow(K, E, w, p, m, from, to),
           NEW msg \in Mail, NEW next \in Nat, to <= next, <<msg, to, next>> \in Says(E)
    PROVE  Flow(K, E, w, p, Append(m, msg), from, next)
<1>1. PICK a \in Nat, b \in Nat :
         /\ Chained(Carries(K, E), w, from, a)
         /\ Chained(Waiting, p, a, b)
         /\ Chained(Says(E), m, b, to)
  BY DEF Flow
<1>2. Chained(Says(E), Append(m, msg), b, next)
  BY <1>1, ChainedAppend
<1> QED
  BY <1>1, <1>2 DEF Flow

LEMMA DataSays ==
    ASSUME NEW E, NEW from \in Nat, NEW n \in Nat, from + n <= Total
    PROVE  <<Data(from, n), from, from + n>> \in Says(E)
<1> DEFINE b == [i \in 1..n |-> from + i]
           m == Data(from, n)
           to == from + n
<1>1. m \in Mail /\ Len(m.bytes) = n /\ to \in Nat
  BY DataIs
<1>2. m.bytes = b /\ m.eof = FALSE
  BY DEF Data
<1>3. \A i \in 1..n : b[i] = from + i
  OBVIOUS
<1> HIDE DEF b, m, to
<1>4. Spans(m.bytes, from, to)
  BY <1>1, <1>2, <1>3 DEF Spans, to
<1> QED
  BY <1>1, <1>2, <1>4, SaysIs DEF m, to

(* SessionEof.  An EOF overtakes what waits, and takes no part of the       *)
(* stream there, or nothing waits.                                          *)
Nowhere == {e \in Nat \X Nat : e[1] = e[2]}

LEMMA EofFlows ==
    ASSUME NEW K, NEW E, NEW w \in Seq(Packet), NEW p, NEW m \in Seq(Mail),
           NEW from, NEW to, Flow(K, E, w, p, m, from, to),
           m # <<>>, Head(m).eof, E = Nowhere \/ p = <<>>
    PROVE  Flow(K, E, Append(w, <<>>), p, Tail(m), from, to)
<1>1. PICK a \in Nat, b \in Nat :
         /\ Chained(Carries(K, E), w, from, a)
         /\ Chained(Waiting, p, a, b)
         /\ Chained(Says(E), m, b, to)
  BY DEF Flow
<1>2. PICK c \in Nat : b <= c /\ <<Head(m), b, c>> \in Says(E) /\ Chained(Says(E), Tail(m), c, to)
  BY <1>1, ChainedHead
<1>3. <<b, c>> \in E
  <2>1. Head(m) \in Mail
    OBVIOUS
  <2> QED
    BY <1>2, <2>1, SaysIs
<1>4. <<>> \in Packet
  BY DEF Packet
<1>5. ASSUME NEW d \in Nat, a <= d, <<a, d>> \in E
      PROVE  Chained(Carries(K, E), Append(w, <<>>), from, d)
  <2>1. <<<<>>, a, d>> \in Carries(K, E)
    BY <1>4, <1>5, CarriesIs
  <2> QED
    BY <1>1, <1>4, <1>5, <2>1, ChainedAppend
<1>6. CASE p = <<>>
  <2>1. a = b
    BY <1>1, <1>6, ChainedNoneIs
  <2>2. Chained(Carries(K, E), Append(w, <<>>), from, c)
    BY <1>2, <1>3, <1>5, <2>1
  <2>3. Chained(Waiting, p, c, c)
    BY <1>6, ChainedNone
  <2> QED
    BY <1>2, <2>2, <2>3 DEF Flow
<1>7. CASE E = Nowhere
  <2>1. b = c /\ <<a, a>> \in E /\ a <= a
    BY <1>3, <1>7 DEF Nowhere
  <2>2. Chained(Carries(K, E), Append(w, <<>>), from, a)
    BY <1>5, <2>1
  <2> QED
    BY <1>1, <1>2, <2>1, <2>2 DEF Flow
<1> QED
  BY <1>6, <1>7

(* SessionData: what the window takes leaves, the rest waits. *)
LEMMA DataFlows ==
    ASSUME NEW K, Ext \in K, NEW E, NEW w \in Seq(Packet), NEW p \in Seq(Pending),
           NEW m \in Seq(Mail), NEW from, NEW to, Flow(K, E, w, p, m, from, to),
           m # <<>>, ~Head(m).eof, NEW window \in Nat,
           NEW buf, buf = Head(m).bytes, NEW now, now = Slice(window, buf, 0),
           NEW rest, rest = IF p # <<>> THEN <<[buf |-> buf, from |-> 0]>>
                            ELSE IF Len(now) < Len(buf)
                            THEN <<[buf |-> buf, from |-> Len(now)]>>
                            ELSE <<>>,
           NEW sent, sent = IF p # <<>> THEN <<>> ELSE now,
           ~Cut(Queue(p, rest))
    PROVE  Flow(K, E, w \o Packets(sent, Ext), Queue(p, rest), Tail(m), from, to)
<1>1. PICK a \in Nat, b \in Nat :
         /\ Chained(Carries(K, E), w, from, a)
         /\ Chained(Waiting, p, a, b)
         /\ Chained(Says(E), m, b, to)
  BY DEF Flow
<1>2. PICK c \in Nat : b <= c /\ <<Head(m), b, c>> \in Says(E) /\ Chained(Says(E), Tail(m), c, to)
  BY <1>1, ChainedHead
<1>3. Head(m) \in Mail
  OBVIOUS
<1>4. buf \in Text /\ Len(buf) \in Nat /\ Len(buf) <= Total /\ Total \in Nat
  BY <1>3, FlowAssumption DEF Mail, Text
<1>5. Spans(buf, b, c)
  BY <1>2, <1>3, SaysIs
<1>6. /\ now \in Text /\ Len(now) \in Nat /\ Len(now) <= Len(buf)
      /\ Spans(now, b, b + Len(now))
      /\ ~(Len(now) < Len(buf)) => Spans(now, b, c)
  BY <1>4, <1>5, FirstSpans
<1>7. ASSUME NEW bytes \in Text, NEW d, Spans(bytes, a, d)
      PROVE  Chained(Carries(K, E), w \o Packets(bytes, Ext), from, d)
  <2>1. Ext \in BOOLEAN
    BY FlowAssumption
  <2>2. Chained(Carries(K, E), Packets(bytes, Ext), a, d)
    BY <1>7, <2>1, PacketsChained
  <2>3. Packets(bytes, Ext) \in Seq(Packet)
    BY <2>1, PacketsAre DEF Text, Packet
  <2> QED
    BY <1>1, <2>2, <2>3, ChainedConcat
<1>8. <<>> \in Text /\ Spans(<<>>, a, a)
  BY DEF Text, Spans
<1> DEFINE whole == [buf |-> buf, from |-> 0]
<1>9. whole \in Pending /\ <<whole, b, c>> \in Waiting /\ Chained(Waiting, <<whole>>, b, c)
      /\ <<whole>> \in Seq(Pending)
  <2>1. whole \in Pending
    BY <1>4 DEF Pending, Entry, Fits
  <2>2. <<whole, b, c>> \in Waiting
    BY <1>5, <2>1, WaitingIs
  <2>3. <<whole>> \in Seq(Pending)
    BY <2>1
  <2> HIDE DEF whole
  <2> QED
    BY <1>2, <2>1, <2>2, <2>3, ChainedOne
<1>10. CASE p # <<>>
  <2>1. rest = <<whole>> /\ sent = <<>>
    BY <1>10
  <2> HIDE DEF whole
  <2>2. Chained(Waiting, p \o <<whole>>, a, c)
    BY <1>1, <1>9, ChainedConcat
  <2>3. Chained(Carries(K, E), w \o Packets(sent, Ext), from, a)
    BY <1>7, <1>8, <2>1
  <2> QED
    BY <1>2, <2>1, <2>2, <2>3 DEF Flow, Queue
<1>11. CASE p = <<>> /\ Len(now) < Len(buf)
  <2> DEFINE e == [buf |-> buf, from |-> Len(now)]
  <2>1. rest = <<e>> /\ sent = now /\ a = b
    BY <1>1, <1>11, ChainedNoneIs
  <2>2. Queue(p, rest) = <<e>>
    BY <1>11, <2>1 DEF Queue
  <2>3. 1 \in DOMAIN <<e>> /\ <<e>>[1] = e /\ e.from = Len(now)
    OBVIOUS
  <2>4. ~(Len(now) > 0)
    BY <2>2, <2>3 DEF Cut
  <2>5. Len(now) = 0
    BY ONLY <1>6, <2>4
  <2>6. e = whole
    BY <2>5
  <2>7. Spans(now, a, a)
    <3>1. b + 0 = b
      OBVIOUS
    <3>2. Spans(now, b, b)
      BY <1>6, <2>5, <3>1, Zenon
    <3> QED
      BY <2>1, <3>2, Zenon
  <2> HIDE DEF whole, e
  <2>8. Chained(Carries(K, E), w \o Packets(sent, Ext), from, a)
    BY <1>6, <1>7, <2>1, <2>7
  <2> QED
    BY <1>2, <1>9, <2>1, <2>2, <2>6, <2>8 DEF Flow
<1>12. CASE p = <<>> /\ ~(Len(now) < Len(buf))
  <2>1. rest = <<>> /\ sent = now /\ a = b
    BY <1>1, <1>12, ChainedNoneIs
  <2>2. Queue(p, rest) = <<>>
    BY <1>12, <2>1 DEF Queue
  <2>3. Chained(Carries(K, E), w \o Packets(sent, Ext), from, c)
    BY <1>6, <1>7, <1>12, <2>1
  <2>4. Chained(Waiting, <<>>, c, c)
    BY ChainedNone
  <2> QED
    BY <1>2, <2>2, <2>3, <2>4 DEF Flow
<1> QED
  BY <1>10, <1>11, <1>12

(* What flush_pending has done behind k entries: what left, and what is     *)
(* kept, goes on to the place that the k entries reach.                     *)
Tidy(f, K, E, from, to) ==
    /\ f.stop = FALSE => f.left = <<>>
    /\ \/ Cut(f.left)
       \/ \E b \in Nat : /\ Chained(Carries(K, E), f.out, from, b)
                         /\ Chained(Waiting, f.left, b, to)

LEMMA FlushOneTidy ==
    ASSUME NEW f, NEW window, Flushing(f, window), NEW entry \in Pending,
           NEW K, FALSE \in K, NEW E, NEW from, NEW a \in Nat, NEW c \in Nat, a <= c,
           Tidy(f, K, E, from, a), <<entry, a, c>> \in Waiting
    PROVE  Tidy(FlushOne(f, entry), K, E, from, c)
<1> DEFINE buf == entry.buf
           now == Slice(f.window, buf, entry.from)
           g == FlushOne(f, entry)
           out == f.out \o Packets(now, FALSE)
<1>1. /\ f.window \in Nat /\ f.out \in Seq(Packet) /\ f.left \in Seq(Pending)
      /\ f.stop \in BOOLEAN /\ f.panic \in BOOLEAN
      /\ f = [window |-> f.window, out |-> f.out, left |-> f.left,
              stop |-> f.stop, panic |-> f.panic]
  BY DEF Flushing
<1>2. entry.from = 0 /\ Spans(buf, a, c)
  BY WaitingIs
<1>3. buf \in Text /\ entry = [buf |-> buf, from |-> entry.from]
  BY DEF Pending, Entry
<1>4. /\ now \in Text /\ Len(now) \in Nat /\ Len(now) <= Len(buf)
      /\ Spans(now, a, a + Len(now))
      /\ ~(Len(now) < Len(buf)) => Spans(now, a, c)
  BY <1>1, <1>2, <1>3, FirstSpans
<1>5. ~SliceFails(f.window, buf, entry.from)
  <2>1. SliceEnd(f.window, buf) \in Nat
    BY <1>1, <1>3 DEF SliceEnd, Text
  <2> QED
    BY <1>2, <2>1 DEF SliceFails
<1>6. f.stop = FALSE => f.left = <<>>
  BY DEF Tidy
<1>7. CASE f.stop
  <2> DEFINE left == Append(f.left, entry)
  <2>1. g.stop = TRUE /\ g.left = left /\ g.out = f.out
    BY <1>1, <1>7 DEF FlushOne
  <2>2. Cut(f.left) => Cut(left)
    <3>1. ASSUME NEW i \in DOMAIN f.left PROVE i \in DOMAIN left /\ left[i] = f.left[i]
      BY <1>1
    <3> HIDE DEF left
    <3> QED
      BY <3>1 DEF Cut
  <2>3. ASSUME NEW b \in Nat, Chained(Carries(K, E), f.out, from, b), Chained(Waiting, f.left, b, a)
        PROVE  Chained(Waiting, left, b, c)
    BY <1>1, <2>3, ChainedAppend
  <2> HIDE DEF left, g
  <2> QED
    BY <2>1, <2>2, <2>3 DEF Tidy, g
<1>8. ASSUME ~f.stop, ~Cut(f.left), NEW d, Spans(now, a, d)
      PROVE  Chained(Carries(K, E), out, from, d)
  <2>1. PICK b \in Nat : Chained(Carries(K, E), f.out, from, b) /\ Chained(Waiting, f.left, b, a)
    BY <1>8 DEF Tidy
  <2>2. b = a
    BY <1>1, <1>6, <1>8, <2>1, ChainedNoneIs
  <2>3. Chained(Carries(K, E), Packets(now, FALSE), a, d)
    BY <1>4, <1>8, PacketsChained
  <2>4. Packets(now, FALSE) \in Seq(Packet)
    BY <1>4, PacketsAre DEF Text, Packet
  <2> QED
    BY <1>1, <2>1, <2>2, <2>3, <2>4, ChainedConcat
<1>9. ~f.stop => ~Cut(f.left)
  <2>1. DOMAIN <<>> = {}
    OBVIOUS
  <2> QED
    BY <1>1, <1>6, <2>1 DEF Cut
<1>10. CASE ~f.stop /\ Len(now) < Len(buf)
  <2> DEFINE e == [entry EXCEPT !.from = Len(now)]
             left == <<e>>
  <2>1. g = [f EXCEPT !.stop = TRUE, !.window = @ - Len(now), !.out = out, !.left = left]
    BY <1>5, <1>10, Zenon DEF FlushOne
  <2>2. g.stop = TRUE /\ g.left = left /\ g.out = out
    BY <1>1, <2>1
  <2>3. e.from = Len(now) /\ 1 \in DOMAIN left /\ left[1] = e
    BY <1>3
  <2>4. CASE Len(now) > 0
    <3>1. Cut(left)
      BY <2>3, <2>4 DEF Cut
    <3> QED
      BY <2>2, <3>1 DEF Tidy
  <2>5. CASE ~(Len(now) > 0)
    <3>1. Len(now) = 0
      BY ONLY <1>4, <2>5
    <3>2. e = entry
      BY <1>2, <1>3, <3>1
    <3>3. Spans(now, a, a)
      BY <1>4, <3>1
    <3>4. Chained(Carries(K, E), out, from, a)
      BY <1>8, <1>9, <1>10, <3>3
    <3>5. Chained(Waiting, <<entry>>, a, c)
      BY ChainedOne
    <3> HIDE DEF out, e, now, g
    <3> QED
      BY <2>2, <3>2, <3>4, <3>5 DEF Tidy, g
  <2> QED
    BY <2>4, <2>5
<1>11. CASE ~f.stop /\ ~(Len(now) < Len(buf))
  <2>1. g = [f EXCEPT !.window = @ - Len(now), !.out = out]
    BY <1>5, <1>11, Zenon DEF FlushOne
  <2>2. g.stop = f.stop /\ g.left = <<>> /\ g.out = out
    BY <1>1, <1>6, <1>11, <2>1
  <2>3. Chained(Carries(K, E), out, from, c)
    BY <1>4, <1>8, <1>9, <1>11
  <2>4. Chained(Waiting, <<>>, c, c)
    BY ChainedNone
  <2> HIDE DEF out, now, g
  <2> QED
    BY <2>2, <2>3, <2>4 DEF Tidy, g
<1> QED
  BY <1>7, <1>10, <1>11

(* SessionAdjust, unless flush_pending has cut a message or panicked. *)
LEMMA FlushFlows ==
    ASSUME chan.pending_data \in Seq(Pending), NEW window \in Nat,
           NEW K, FALSE \in K, NEW E, NEW w \in Seq(Packet), NEW m, NEW from, NEW to,
           Flow(K, E, w, chan.pending_data, m, from, to),
           ~Cut(Flush(window).left)
    PROVE  Flow(K, E, w \o Flush(window).out, Flush(window).left, m, from, to)
<1> DEFINE q == chan.pending_data
           n == Len(q)
<1>1. n \in Nat /\ \A k \in 1..n : q[k] \in Pending
  OBVIOUS
<1>2. PICK a \in Nat, b \in Nat :
         /\ Chained(Carries(K, E), w, from, a)
         /\ Chained(Waiting, q, a, b)
         /\ Chained(Says(E), m, b, to)
  BY DEF Flow
<1>3. PICK c \in [0..n -> Nat] :
         /\ c[0] = a /\ c[n] = b
         /\ \A i \in 1..n : <<q[i], c[i - 1], c[i]>> \in Waiting
         /\ \A i, j \in 0..n : i <= j => c[i] <= c[j]
  BY <1>2 DEF Chained
<1>4. PICK F : /\ F[0] = Unflushed(window) /\ F[n] = Flush(window)
               /\ \A k \in 1..n : F[k] = FlushOne(F[k - 1], q[k])
  BY FlushPrefixes
<1> DEFINE S == {k \in 0..n : Flushing(F[k], window) /\ Tidy(F[k], K, E, a, c[k])}
<1> HIDE DEF q, n
<1>5. 0 \in S
  <2>1. Flushing(Unflushed(window), window)
    <3>1. <<>> \in Seq(Packet) /\ <<>> \in Seq(Pending) /\ Bytes(<<>>) = 0
      <4>1. [i \in DOMAIN <<>> |-> Len(<<>>[i])] = <<>>
        OBVIOUS
      <4> QED
        BY <4>1, SumNone DEF Bytes
    <3> QED
      BY <3>1 DEF Flushing, Unflushed
  <2>2. Unflushed(window).left = <<>> /\ Unflushed(window).out = <<>>
    BY DEF Unflushed
  <2>3. Tidy(Unflushed(window), K, E, a, a)
    BY <2>2, ChainedNone DEF Tidy
  <2> QED
    BY <1>1, <1>3, <1>4, <2>1, <2>3
<1>6. ASSUME NEW k \in 1..n, k - 1 \in S PROVE k \in S
  <2>1. Flushing(F[k - 1], window) /\ Tidy(F[k - 1], K, E, a, c[k - 1])
    BY <1>6
  <2>2. /\ k \in 0..n /\ k - 1 \in 0..n /\ k - 1 <= k /\ q[k] \in Pending
        /\ F[k] = FlushOne(F[k - 1], q[k])
    BY <1>1, <1>4
  <2>3. /\ c[k - 1] \in Nat /\ c[k] \in Nat /\ c[k - 1] <= c[k]
        /\ <<q[k], c[k - 1], c[k]>> \in Waiting
    BY <1>3, <2>2
  <2>4. Flushing(FlushOne(F[k - 1], q[k]), window)
    BY <2>1, <2>2, FlushOneKeeps
  <2>5. Tidy(FlushOne(F[k - 1], q[k]), K, E, a, c[k])
    BY <2>1, <2>2, <2>3, FlushOneTidy
  <2> QED
    BY <2>2, <2>4, <2>5
<1> HIDE DEF S
<1>7. \A k \in 0..n : k \in S
  BY <1>1, <1>5, <1>6, Upwards
<1>8. Flushing(F[n], window) /\ Tidy(F[n], K, E, a, c[n])
  BY <1>1, <1>7 DEF S
<1> DEFINE f == Flush(window)
<1> HIDE DEF f
<1>9. Flushing(f, window) /\ Tidy(f, K, E, a, b)
  BY <1>3, <1>4, <1>8 DEF f
<1>10. f.out \in Seq(Packet) /\ f.left \in Seq(Pending)
  BY <1>9 DEF Flushing
<1>11. PICK d \in Nat : Chained(Carries(K, E), f.out, a, d) /\ Chained(Waiting, f.left, d, b)
  BY <1>9 DEF Tidy, f
<1>12. Chained(Carries(K, E), w \o f.out, from, d)
  BY <1>2, <1>10, <1>11, ChainedConcat
<1> QED
  BY <1>2, <1>11, <1>12 DEF Flow, f

(* The receiver takes the first packet. *)
LEMMA HeadCarries ==
    ASSUME NEW K, NEW E, NEW w \in Seq(Packet), w # <<>>, NEW from, NEW a,
           Chained(Carries(K, E), w, from, a)
    PROVE  /\ from \in Nat
           /\ \E b \in Nat :
              /\ from <= b /\ Chained(Carries(K, E), Tail(w), b, a)
              /\ IF Head(w) = <<>> THEN <<from, b>> \in E
                 ELSE /\ b = from + Len(Head(w))
                      /\ \A i \in 1..Len(Head(w)) : Head(w)[i] \in K \X {from + i}
<1>1. from \in Nat
  BY ChainedForward
<1>2. PICK b \in Nat : /\ from <= b /\ <<Head(w), from, b>> \in Carries(K, E)
                       /\ Chained(Carries(K, E), Tail(w), b, a)
  BY ChainedHead
<1>3. Head(w) \in Packet
  OBVIOUS
<1>4. IF Head(w) = <<>> THEN <<from, b>> \in E
      ELSE /\ b = from + Len(Head(w))
           /\ \A i \in 1..Len(Head(w)) : Head(w)[i] \in K \X {from + i}
  BY <1>1, <1>2, <1>3, CarriesIs
<1> QED
  BY <1>1, <1>2, <1>4

LEMMA PacketArrives ==
    ASSUME NEW K, NEW E, NEW w \in Seq(Packet), w # <<>>, Head(w) # <<>>,
           NEW from, NEW to, Remains(K, E, w, from, to)
    PROVE  /\ from \in Nat
           /\ \A i \in 1..Len(Head(w)) : Head(w)[i] \in K \X {from + i}
           /\ Remains(K, E, Tail(w), from + Len(Head(w)), to)
           /\ \A p, m : Flow(K, E, w, p, m, from, to) =>
                           Flow(K, E, Tail(w), p, m, from + Len(Head(w)), to)
<1>1. ASSUME NEW a, Chained(Carries(K, E), w, from, a)
      PROVE  /\ from \in Nat
             /\ \A i \in 1..Len(Head(w)) : Head(w)[i] \in K \X {from + i}
             /\ Chained(Carries(K, E), Tail(w), from + Len(Head(w)), a)
  <2>1. /\ from \in Nat
        /\ \E b \in Nat :
           /\ from <= b /\ Chained(Carries(K, E), Tail(w), b, a)
           /\ IF Head(w) = <<>> THEN <<from, b>> \in E
              ELSE /\ b = from + Len(Head(w))
                   /\ \A i \in 1..Len(Head(w)) : Head(w)[i] \in K \X {from + i}
    BY <1>1, HeadCarries
  <2> QED
    BY <2>1, Zenon
<1>2. PICK a \in Nat : a <= to /\ Chained(Carries(K, E), w, from, a)
  BY DEF Remains
<1> QED
  BY <1>1, <1>2, Zenon DEF Remains, Flow

LEMMA EofArrives ==
    ASSUME NEW K, NEW E, NEW w \in Seq(Packet), w # <<>>, Head(w) = <<>>,
           NEW from, NEW to, Remains(K, E, w, from, to),
           NEW next, \A a : <<from, a>> \in E => a = next
    PROVE  /\ from \in Nat /\ next \in Nat /\ <<from, next>> \in E
           /\ Remains(K, E, Tail(w), next, to)
           /\ \A p, m : Flow(K, E, w, p, m, from, to) => Flow(K, E, Tail(w), p, m, next, to)
<1>1. ASSUME NEW a, Chained(Carries(K, E), w, from, a)
      PROVE  /\ from \in Nat /\ next \in Nat /\ <<from, next>> \in E
             /\ Chained(Carries(K, E), Tail(w), next, a)
  <2>1. /\ from \in Nat
        /\ \E b \in Nat :
           /\ from <= b /\ Chained(Carries(K, E), Tail(w), b, a)
           /\ IF Head(w) = <<>> THEN <<from, b>> \in E
              ELSE /\ b = from + Len(Head(w))
                   /\ \A i \in 1..Len(Head(w)) : Head(w)[i] \in K \X {from + i}
    BY <1>1, HeadCarries
  <2> QED
    BY <2>1, Zenon
<1>2. PICK a \in Nat : a <= to /\ Chained(Carries(K, E), w, from, a)
  BY DEF Remains
<1> QED
  BY <1>1, <1>2, Zenon DEF Remains, Flow

-----------------------------------------------------------------------------
(* What each step does to the stream between the two ends. *)

InLine(gone, kinds, ends, packets, pending, messages, from, to) ==
    IF gone THEN Remains(kinds, ends, packets, from, to)
    ELSE Flow(kinds, ends, packets, pending, messages, from, to)

LEMMA SessionDataInLine ==
    ASSUME Giving, Carrying, SessionData, ~Cut(chan'.pending_data),
           NEW K, Ext \in K, NEW E, NEW from, NEW to,
           InLine(Gone, K, E, wire, chan.pending_data, mailbox, from, to)
    PROVE  InLine(Gone', K, E, wire', chan'.pending_data, mailbox', from, to)
<1> DEFINE w == chan.recipient_window_size
           q == chan.pending_data
           buf == Head(mailbox).bytes
           now == Slice(w, buf, 0)
           rest == IF q # <<>> THEN <<[buf |-> buf, from |-> 0]>>
                   ELSE IF Len(now) < Len(buf) THEN <<[buf |-> buf, from |-> Len(now)]>>
                   ELSE <<>>
           sent == IF q # <<>> THEN <<>> ELSE now
           left == Queue(q, rest)
           out == Packets(sent, Ext)
<1>1. /\ w \in Nat /\ q \in Seq(Pending) /\ wire \in Seq(Packet)
      /\ chan = [recipient_window_size |-> w, open |-> chan.open,
                 alive |-> chan.alive, pending_data |-> q]
      /\ mailbox \in Seq(Mail)
  BY CarryingIs DEF Giving
<1>2. /\ chan' = [chan EXCEPT !.recipient_window_size = @ - Len(sent), !.pending_data = left]
      /\ wire' = wire \o out /\ mailbox' = Tail(mailbox)
      /\ mailbox # <<>> /\ ~Head(mailbox).eof /\ chan.alive /\ chan.open
  BY Zenon DEF SessionData, Sent
<1> HIDE DEF left, out
<1>3. chan'.pending_data = left /\ chan'.open = chan.open /\ chan'.alive = chan.alive
  BY <1>1, <1>2
<1>4. ~Gone /\ ~Gone'
  BY <1>2, <1>3 DEF Gone
<1>5. Flow(K, E, wire, q, mailbox, from, to)
  BY <1>4 DEF InLine
<1>6. ~Cut(left)
  BY <1>3
<1> HIDE DEF w, q, buf, now, rest, sent
<1>7. buf = Head(mailbox).bytes /\ now = Slice(w, buf, 0)
      /\ rest = (IF q # <<>> THEN <<[buf |-> buf, from |-> 0]>>
                 ELSE IF Len(now) < Len(buf) THEN <<[buf |-> buf, from |-> Len(now)]>>
                 ELSE <<>>)
      /\ sent = (IF q # <<>> THEN <<>> ELSE now)
  BY DEF buf, now, rest, sent
<1>8. Flow(K, E, wire \o Packets(sent, Ext), Queue(q, rest), Tail(mailbox), from, to)
  <2>1. ~Cut(Queue(q, rest))
    BY <1>6 DEF left
  <2> QED
    BY <1>1, <1>2, <1>5, <1>7, <2>1, DataFlows
<1> QED
  BY <1>2, <1>3, <1>4, <1>8 DEF InLine, left, out

LEMMA SessionEofInLine ==
    ASSUME Giving, Carrying, SessionEof,
           NEW K, NEW E, E = Nowhere \/ chan.pending_data = <<>>, NEW from, NEW to,
           InLine(Gone, K, E, wire, chan.pending_data, mailbox, from, to)
    PROVE  InLine(Gone', K, E, wire', chan'.pending_data, mailbox', from, to)
<1>1. wire \in Seq(Packet) /\ mailbox \in Seq(Mail)
  BY CarryingIs DEF Giving
<1>2. /\ chan' = chan /\ wire' = Append(wire, <<>>) /\ mailbox' = Tail(mailbox)
      /\ mailbox # <<>> /\ Head(mailbox).eof /\ chan.alive /\ chan.open
  BY Zenon DEF SessionEof
<1>3. ~Gone /\ Gone' = Gone
  BY <1>2 DEF Gone
<1>4. Flow(K, E, wire, chan.pending_data, mailbox, from, to)
  BY <1>3 DEF InLine
<1> DEFINE p == chan.pending_data
<1>5. E = Nowhere \/ p = <<>>
  OBVIOUS
<1> HIDE DEF p
<1>6. Flow(K, E, Append(wire, <<>>), p, Tail(mailbox), from, to)
  BY <1>1, <1>2, <1>4, <1>5, EofFlows DEF p
<1> QED
  BY <1>2, <1>3, <1>6 DEF InLine, p

(* The session's channel is lost, or was before. *)
LEMMA LostInLine ==
    ASSUME Giving, Carrying, Gone', wire' = wire, NEW K, NEW E, NEW from, NEW to,
           InLine(Gone, K, E, wire, chan.pending_data, mailbox, from, to)
    PROVE  InLine(Gone', K, E, wire', chan'.pending_data, mailbox', from, to)
<1>1. wire \in Seq(Packet) /\ mailbox \in Seq(Mail) /\ chan.pending_data \in Seq(Pending)
  BY CarryingIs DEF Giving
<1>2. Remains(K, E, wire, from, to)
  BY <1>1, FlowRemains DEF InLine
<1> QED
  BY <1>2 DEF InLine

LEMMA SessionAdjustInLine ==
    ASSUME Giving, Carrying, SessionAdjust, ~Cut(chan'.pending_data),
           NEW K, FALSE \in K \/ chan.pending_data = <<>>, NEW E, NEW from, NEW to,
           InLine(Gone, K, E, wire, chan.pending_data, mailbox, from, to)
    PROVE  InLine(Gone', K, E, wire', chan'.pending_data, mailbox', from, to)
<1> DEFINE w == chan.recipient_window_size + Head(adjusts).amount
           f == Flush(w)
<1>1. /\ wire \in Seq(Packet) /\ mailbox \in Seq(Mail) /\ chan.pending_data \in Seq(Pending)
      /\ adjusts \in Seq(Adjusting) /\ chan.recipient_window_size \in Nat
      /\ chan = [recipient_window_size |-> chan.recipient_window_size, open |-> chan.open,
                 alive |-> chan.alive, pending_data |-> chan.pending_data]
  BY CarryingIs DEF Giving
<1>2. /\ chan.alive /\ chan.open /\ adjusts # <<>> /\ mailbox' = mailbox
      /\ \/ chan' = [chan EXCEPT !.alive = FALSE] /\ wire' = wire
         \/ /\ chan' = [chan EXCEPT !.recipient_window_size = f.window,
                                    !.pending_data = f.left]
            /\ wire' = wire \o f.out
  BY Zenon DEF SessionAdjust
<1>3. ~Gone
  BY <1>2 DEF Gone
<1>4. Flow(K, E, wire, chan.pending_data, mailbox, from, to)
  BY <1>3 DEF InLine
<1>5. w \in Nat
  <2> DEFINE v == chan.recipient_window_size
             a == Head(adjusts).amount
  <2>1. v \in Nat /\ a \in Nat
    BY <1>1, <1>2, AmountIs
  <2> HIDE DEF v, a
  <2>2. v + a \in Nat
    BY ONLY <2>1
  <2> QED
    BY <2>2 DEF v, a
<1> HIDE DEF w, f
<1>6. CASE chan' = [chan EXCEPT !.alive = FALSE] /\ wire' = wire
  <2>1. Gone'
    BY <1>1, <1>6 DEF Gone
  <2> QED
    BY <1>6, <2>1, LostInLine
<1>7. CASE /\ chan' = [chan EXCEPT !.recipient_window_size = f.window, !.pending_data = f.left]
           /\ wire' = wire \o f.out
  <2>1. chan'.pending_data = f.left /\ chan'.open = chan.open /\ chan'.alive = chan.alive
    BY <1>1, <1>7
  <2>2. ~Gone'
    BY <1>3, <2>1 DEF Gone
  <2>3. Flow(K, E, wire \o f.out, f.left, mailbox, from, to)
    <3>1. CASE chan.pending_data = <<>>
      <4>1. f.out = <<>> /\ f.left = <<>>
        BY <1>5, <3>1, NothingToFlush DEF f, Unflushed
      <4>2. wire \o <<>> = wire
        BY <1>1
      <4> QED
        BY <1>4, <3>1, <4>1, <4>2
    <3>2. CASE FALSE \in K
      <4>1. ~Cut(Flush(w).left)
        BY <2>1 DEF f
      <4> QED
        BY <1>1, <1>4, <1>5, <3>2, <4>1, FlushFlows DEF f
    <3> QED
      BY <3>1, <3>2
  <2> QED
    BY <1>2, <1>7, <2>1, <2>2, <2>3 DEF InLine
<1> QED
  BY <1>2, <1>6, <1>7

(* The steps of a session that do not receive. *)
LEMMA SenderInLine ==
    ASSUME Giving, Carrying, SessionSteps, ~ReceiverData, ~ReceiverEof,
           ~Cut(chan'.pending_data),
           NEW K, Ext \in K, FALSE \in K \/ chan.pending_data = <<>>,
           NEW E, E = Nowhere \/ chan.pending_data = <<>>, NEW from, NEW to,
           InLine(Gone, K, E, wire, chan.pending_data, mailbox, from, to)
    PROVE  /\ InLine(Gone', K, E, wire', chan'.pending_data, mailbox', from, to)
           /\ peer' = peer
<1>1. CASE SessionData
  <2>1. peer' = peer
    BY <1>1, Zenon DEF SessionData
  <2> QED
    BY <1>1, <2>1, SessionDataInLine
<1>2. CASE SessionEof
  <2>1. peer' = peer
    BY <1>2, Zenon DEF SessionEof
  <2> QED
    BY <1>2, <2>1, SessionEofInLine
<1>3. CASE SessionDrops
  <2>1. Gone' /\ wire' = wire /\ peer' = peer
    BY <1>3 DEF SessionDrops, Gone
  <2> QED
    BY <2>1, LostInLine
<1>4. CASE SessionAdjust
  <2>1. peer' = peer
    BY <1>4, Zenon DEF SessionAdjust
  <2> QED
    BY <1>4, <2>1, SessionAdjustInLine
<1>5. CASE SessionMisses \/ SessionClosed
  <2>1. /\ wire' = wire /\ peer' = peer
        /\ chan' = [chan EXCEPT !.alive = FALSE] \/ chan' = [chan EXCEPT !.open = FALSE]
    BY <1>5 DEF SessionMisses, SessionClosed
  <2>2. Gone'
    BY <2>1, CarryingIs DEF Gone
  <2> QED
    BY <2>1, <2>2, LostInLine
<1> QED
  BY <1>1, <1>2, <1>3, <1>4, <1>5 DEF SessionSteps

LEMMA JoinIs ==
    ASSUME NEW T, NEW p \in Seq(T), NEW q \in Seq(T), q # <<>>
    PROVE  LET r == p \o q IN
           /\ Len(r) = Len(p) + Len(q) /\ DOMAIN r = 1..(Len(p) + Len(q))
           /\ Len(p) \in Nat /\ Len(q) \in Nat /\ Len(q) > 0
           /\ \A i \in 1..Len(p) : r[i] = p[i]
           /\ \A i \in 1..Len(q) : r[Len(p) + i] = q[i]
           /\ DOMAIN p = 1..Len(p)
OBVIOUS

(* The receiver hands a packet to its handler. *)
LEMMA ReceiverDataInLine ==
    ASSUME Giving, Carrying, ReceiverData, NEW K, NEW E, NEW to,
           InLine(Gone, K, E, wire, chan.pending_data, mailbox, Len(peer.delivered), to),
           \A i \in DOMAIN peer.delivered : peer.delivered[i] \in K \X {i}
    PROVE  /\ InLine(Gone', K, E, wire', chan'.pending_data, mailbox', Len(peer'.delivered), to)
           /\ \A i \in DOMAIN peer'.delivered : peer'.delivered[i] \in K \X {i}
           /\ chan' = chan /\ peer'.eof = peer.eof
           /\ Len(peer'.delivered) > Len(peer.delivered)
<1> DEFINE head == Head(wire)
           old == peer.delivered
           new == old \o head
           p == chan.pending_data
<1>1. /\ wire \in Seq(Packet) /\ mailbox \in Seq(Mail) /\ p \in Seq(Pending)
      /\ peer = [sender_window_size |-> peer.sender_window_size, target |-> peer.target,
                 delivered |-> old, eof |-> peer.eof, closed |-> peer.closed]
      /\ old \in Packet
  BY CarryingIs DEF Giving, Receiver
<1>2. /\ wire # <<>> /\ head # <<>> /\ wire' = Tail(wire)
      /\ chan' = chan /\ mailbox' = mailbox
  BY Zenon DEF ReceiverData
<1>3. peer'.delivered = new /\ peer'.eof = peer.eof
  <2>1. \/ \E t \in NextTargets :
             peer' = [peer EXCEPT !.sender_window_size = peer.target, !.target = t,
                                  !.delivered = @ \o head]
        \/ peer' = [peer EXCEPT !.sender_window_size
                                     = Received(peer.sender_window_size, Len(head)),
                                !.delivered = @ \o head]
    BY Zenon DEF ReceiverData
  <2>2. CASE \E t \in NextTargets :
               peer' = [peer EXCEPT !.sender_window_size = peer.target, !.target = t,
                                    !.delivered = @ \o head]
    <3>1. PICK t : peer' = [peer EXCEPT !.sender_window_size = peer.target, !.target = t,
                                        !.delivered = @ \o head]
      BY <2>2, Zenon
    <3> HIDE DEF head
    <3> QED
      BY <1>1, <3>1
  <2>3. CASE peer' = [peer EXCEPT !.sender_window_size
                                       = Received(peer.sender_window_size, Len(head)),
                                  !.delivered = @ \o head]
    BY <1>1, <2>3
  <2> QED
    BY <2>1, <2>2, <2>3, Zenon
<1>4. head \in Packet
  BY <1>1, <1>2
<1>5. Gone' = Gone
  BY <1>2 DEF Gone
<1>6. Remains(K, E, wire, Len(old), to)
  BY <1>1, FlowRemains DEF InLine
<1>7. /\ \A i \in 1..Len(head) : head[i] \in K \X {Len(old) + i}
      /\ Remains(K, E, Tail(wire), Len(old) + Len(head), to)
      /\ Flow(K, E, wire, p, mailbox, Len(old), to) =>
            Flow(K, E, Tail(wire), p, mailbox, Len(old) + Len(head), to)
  BY <1>1, <1>2, <1>6, PacketArrives
<1> HIDE DEF head, old, p
<1>8. /\ Len(new) = Len(old) + Len(head) /\ DOMAIN new = 1..(Len(old) + Len(head))
      /\ Len(old) \in Nat /\ Len(head) \in Nat /\ Len(head) > 0
      /\ \A i \in 1..Len(old) : new[i] = old[i]
      /\ \A i \in 1..Len(head) : new[Len(old) + i] = head[i]
      /\ DOMAIN old = 1..Len(old)
  <2>1. old \in Seq(Kind(Byte)) /\ head \in Seq(Kind(Byte)) /\ head # <<>>
    BY <1>1, <1>2, <1>4 DEF Packet
  <2> QED
    BY ONLY <2>1, JoinIs
<1> HIDE DEF new
<1>9. ASSUME NEW i \in 1..(Len(old) + Len(head)) PROVE new[i] \in K \X {i}
  <2>1. CASE i <= Len(old)
    <3>1. i \in 1..Len(old)
      BY <1>8, <2>1
    <3>2. old[i] \in K \X {i}
      BY <1>8, <3>1 DEF old
    <3> QED
      BY <1>8, <3>1, <3>2
  <2>2. CASE ~(i <= Len(old))
    <3> DEFINE k == i - Len(old)
    <3>1. k \in 1..Len(head) /\ Len(old) + k = i
      BY <1>8, <2>2
    <3> HIDE DEF k
    <3>2. new[i] = head[k] /\ head[k] \in K \X {i}
      BY <1>7, <1>8, <3>1, Zenon
    <3> QED
      BY <3>2
  <2> QED
    BY <2>1, <2>2
<1>10. InLine(Gone', K, E, wire', chan'.pending_data, mailbox', Len(new), to)
  BY <1>2, <1>5, <1>7, <1>8, Zenon DEF InLine, p, old
<1>11. Len(new) > Len(old)
  BY <1>8
<1> QED
  BY <1>2, <1>3, <1>8, <1>9, <1>10, <1>11, Zenon DEF old

LEMMA ReceiverEofInLine ==
    ASSUME Giving, Carrying, ReceiverEof, NEW K, NEW E, NEW from, NEW to,
           InLine(Gone, K, E, wire, chan.pending_data, mailbox, from, to),
           NEW next, \A a : <<from, a>> \in E => a = next
    PROVE  /\ InLine(Gone', K, E, wire', chan'.pending_data, mailbox', next, to)
           /\ chan' = chan /\ peer'.delivered = peer.delivered /\ peer'.eof = TRUE
           /\ <<from, next>> \in E
<1>1. /\ wire \in Seq(Packet) /\ mailbox \in Seq(Mail) /\ chan.pending_data \in Seq(Pending)
      /\ peer \in Receiver
  BY CarryingIs DEF Giving
<1>2. /\ wire # <<>> /\ Head(wire) = <<>> /\ wire' = Tail(wire) /\ chan' = chan
      /\ mailbox' = mailbox /\ peer' = [peer EXCEPT !.eof = TRUE]
  BY DEF ReceiverEof
<1>3. peer'.delivered = peer.delivered /\ peer'.eof = TRUE /\ Gone' = Gone
  BY <1>1, <1>2 DEF Receiver, Gone
<1>4. Remains(K, E, wire, from, to)
  BY <1>1, FlowRemains DEF InLine
<1>5. /\ <<from, next>> \in E /\ Remains(K, E, Tail(wire), next, to)
      /\ Flow(K, E, wire, chan.pending_data, mailbox, from, to) =>
            Flow(K, E, Tail(wire), chan.pending_data, mailbox, next, to)
  BY <1>1, <1>2, <1>4, EofArrives
<1> QED
  BY <1>2, <1>3, <1>5, Zenon DEF InLine

-----------------------------------------------------------------------------
(* What a step of the application, or of the tunnel in its place, means for *)
(* the stream: nothing, or the next bytes, or the end.                      *)

Rests ==
    /\ mailbox' = mailbox /\ app'.taken = app.taken
    /\ app'.phase = "done" <=> app.phase = "done"

Writes(n) ==
    /\ app.taken + n <= Total
    /\ mailbox' = Append(mailbox, Data(app.taken, n))
    /\ app'.taken = app.taken + n
    /\ app.phase # "done" /\ app'.phase # "done"

(* The bytes are charged to the window that the writer believes to have. *)
Charged(n) == Writes(n) /\ app'.window_size = app.window_size - n

Finishes ==
    /\ mailbox' = Append(mailbox, Eof) /\ app'.taken = app.taken
    /\ app.phase # "done" /\ app'.phase = "done"

LEMMA AppSendWrites == ASSUME Giving, AppSend PROVE \E n \in Nat : Charged(n)
<1> DEFINE sendable == Min({app.window_size, MaxPacket})
           most == Min({sendable, app.end - app.taken})
           Reads(n) == /\ mailbox' = Append(mailbox, Data(app.taken, n))
                       /\ app' = [app EXCEPT
                              !.taken = @ + n,
                              !.window_size = Charge(@, n),
                              !.phase = IF sendable > 0 /\ n = 0 THEN "idle"
                                        ELSE IF Charge(app.window_size, n) > 0
                                        THEN "sending" ELSE "waiting"]
           counts == IF ShortReads THEN Min({1, most})..most ELSE {most}
<1>1. /\ app \in App /\ app.phase = "sending" /\ app.taken <= app.end
      /\ app.taken \in Nat /\ app.window_size \in Nat /\ app.end \in Nat /\ MaxPacket \in Nat
  <2>1. app.phase = "sending"
    BY Zenon DEF AppSend
  <2>2. Total \in Nat /\ MaxPacket \in Nat
    BY ONLY FlowAssumption DEF FlowAssumption
  <2>3. app \in App /\ (app.phase \in {"sending", "waiting"} => app.taken <= app.end)
    BY DEF Giving
  <2>4. app.taken \in 0..Total /\ app.window_size \in Nat /\ app.end \in 0..Total
    BY <2>3 DEF App
  <2> QED
    BY <2>1, <2>2, <2>3, <2>4
<1>2. app.end - app.taken \in Nat
  BY ONLY <1>1
<1>3. sendable \in Nat
  BY <1>1, LesserIs, Zenon
<1>4. most \in Nat
  BY <1>2, <1>3, LesserIs, Zenon
<1>5. PICK n \in counts : Reads(n)
  BY Zenon DEF AppSend
<1> HIDE DEF most
<1>6. n \in Nat
  BY <1>4, <1>5, CountsAre, Zenon
<1> HIDE DEF counts, sendable
<1>7. /\ app'.taken = app.taken + n /\ app'.phase # "done"
      /\ mailbox' = Append(mailbox, Data(app.taken, n))
      /\ app'.window_size = app.window_size - n
  BY <1>1, <1>5 DEF App, Charge
<1>8. app'.taken <= Total
  <2>1. AppSteps
    BY DEF AppSteps
  <2>2. Giving'
    BY <2>1, AppStepsGiving
  <2>3. app'.taken \in 0..Total
    BY <2>2 DEF Giving, App
  <2> QED
    BY <2>3, FlowAssumption
<1> QED
  BY <1>1, <1>6, <1>7, <1>8 DEF Writes, Charged

LEMMA AppMoves ==
    ASSUME Giving, AppSteps
    PROVE  \/ Rests \/ (\E n \in Nat : Writes(n))
           \/ Finishes /\ app.taken = Total
<1>1. app \in App /\ app.taken \in 0..Total /\ Total \in Nat
  BY FlowAssumption DEF Giving, App
<1>2. CASE AppSend
  BY <1>2, AppSendWrites, Zenon DEF Charged
<1>3. CASE AppResume
  <2>1. /\ mailbox' = mailbox /\ app.phase = "waiting"
        /\ \/ app' = [app EXCEPT !.phase = "sending", !.window_size = Head(adjusted)]
           \/ app' = [app EXCEPT !.phase = "sending"]
    BY <1>3 DEF AppResume
  <2>2. app'.taken = app.taken /\ app'.phase = "sending"
    BY <1>1, <2>1 DEF App
  <2> QED
    BY <2>1, <2>2 DEF Rests
<1>4. CASE AppFails
  BY <1>1, <1>4 DEF AppFails, Rests, App
<1>5. CASE AppCall
  BY <1>1, <1>5 DEF AppCall, Rests, App
<1>6. CASE AppWait
  BY <1>1, <1>6 DEF AppWait, Rests, App
<1>7. CASE HandleData
  <2>1. /\ mailbox' = Append(mailbox, Data(app.taken, NextEnd - app.taken))
        /\ app' = [app EXCEPT !.taken = NextEnd] /\ app.phase = "idle"
    BY <1>7 DEF HandleData
  <2>2. NextEnd \in 0..Total /\ app.taken <= NextEnd
    BY <1>1, NextEndIs
  <2> DEFINE n == NextEnd - app.taken
  <2>3. n \in Nat /\ app.taken + n = NextEnd /\ NextEnd <= Total
    BY ONLY <1>1, <2>2
  <2>4. app'.taken = NextEnd /\ app'.phase = "idle"
    BY <1>1, <2>1 DEF App
  <2>5. Writes(n)
    BY <2>1, <2>3, <2>4 DEF Writes
  <2> QED
    BY <2>3, <2>5
<1>8. CASE AppEof
  BY <1>1, <1>8 DEF AppEof, Finishes, App
<1> QED
  BY <1>2, <1>3, <1>4, <1>5, <1>6, <1>7, <1>8 DEF AppSteps

(* A tunnel may also end because it believes to have no window.             *)
LEMMA CopyMoves ==
    ASSUME Copying, CopyToSsh
    PROVE  \/ \E n \in Nat : Charged(n)
           \/ /\ Finishes /\ app'.window_size = app.window_size
              /\ app.taken = Total \/ app.window_size = 0
<1> DEFINE most == Min({Sendable(app.window_size), Total - app.taken})
           Reads(n) == /\ mailbox' = Append(mailbox, Data(app.taken, n))
                       /\ app' = [app EXCEPT
                              !.taken = @ + n,
                              !.window_size = Charge(@, n),
                              !.phase = IF Charge(app.window_size, n) > 0
                                        THEN "sending" ELSE "waiting"]
           counts == IF ShortReads THEN 1..most ELSE {most} \ {0}
           room == Sendable(app.window_size)
           rest == Total - app.taken
<1>1. /\ app \in App /\ app.phase = "sending" /\ app.window_size \in Nat
      /\ app.taken \in Nat /\ app.taken <= Total /\ Total \in Nat
  <2>1. app.phase = "sending"
    BY Zenon DEF CopyToSsh
  <2>2. Total \in Nat
    BY ONLY FlowAssumption DEF FlowAssumption
  <2>3. app \in App
    BY DEF Copying, Giving
  <2>4. app.taken \in 0..Total /\ app.window_size \in Nat
    BY <2>3 DEF App
  <2> QED
    BY <2>1, <2>2, <2>3, <2>4
<1>2. MaxPacket - Margin \in Nat /\ MaxPacket - Margin > 0
  BY ONLY FlowAssumption, TunnelAssumption DEF FlowAssumption, TunnelAssumption
<1>3. rest \in Nat
  BY ONLY <1>1
<1>4. room \in Nat /\ room = IF app.window_size <= MaxPacket - Margin
                             THEN app.window_size ELSE MaxPacket - Margin
  <2>1. app.window_size \in Int /\ MaxPacket - Margin \in Int
    BY ONLY <1>1, <1>2
  <2>2. room = IF app.window_size <= MaxPacket - Margin
               THEN app.window_size ELSE MaxPacket - Margin
    BY <2>1, MinOfTwo, Zenon DEF Sendable
  <2> HIDE DEF room
  <2> QED
    BY <1>1, <1>2, <2>2
<1> HIDE DEF room
<1>5. most \in Nat /\ most = IF room <= rest THEN room ELSE rest
  <2>1. room \in Int /\ rest \in Int
    BY ONLY <1>3, <1>4
  <2>2. most = IF room <= rest THEN room ELSE rest
    BY <2>1, MinOfTwo, Zenon DEF room
  <2> HIDE DEF most, rest
  <2> QED
    BY <1>3, <1>4, <2>2
<1> HIDE DEF most
<1>6. \/ /\ most = 0 /\ mailbox' = Append(mailbox, Eof)
         /\ app' = [app EXCEPT !.phase = "done"]
      \/ \E n \in counts : Reads(n)
  BY Zenon DEF CopyToSsh, most
<1>7. CASE /\ most = 0 /\ mailbox' = Append(mailbox, Eof)
           /\ app' = [app EXCEPT !.phase = "done"]
  <2>1. room = 0 \/ rest = 0
    BY <1>5, <1>7
  <2>2. app.taken = Total \/ app.window_size = 0
    BY ONLY <1>1, <1>2, <1>4, <2>1
  <2> QED
    BY <1>1, <1>7, <2>2 DEF Finishes, App
<1>8. CASE \E n \in counts : Reads(n)
  <2>1. PICK n \in counts : Reads(n)
    BY <1>8, Zenon
  <2>2. n \in Nat
    BY ONLY <1>5 DEF counts
  <2> HIDE DEF counts
  <2>3. /\ app'.taken = app.taken + n /\ app'.phase # "done"
        /\ mailbox' = Append(mailbox, Data(app.taken, n))
        /\ app'.window_size = app.window_size - n
    BY <1>1, <2>1 DEF App, Charge
  <2>4. app'.taken <= Total
    <3>1. Copying'
      BY CopyToSshCopying
    <3>2. app'.taken \in 0..Total
      BY <3>1 DEF Copying, Giving, App
    <3> QED
      BY <3>2, FlowAssumption
  <2> QED
    BY <1>1, <2>2, <2>3, <2>4 DEF Writes, Charged
<1> QED
  BY <1>6, <1>7, <1>8, Zenon

LEMMA TunnelMoves ==
    ASSUME Copying, TunnelSteps
    PROVE  \/ Rests \/ (\E n \in Nat : Writes(n))
           \/ /\ Finishes
              /\ app.taken = Total
                    \/ (app.window_size = 0 /\ app.phase = "sending" /\ tunnel.ssh = "up")
<1>1. app \in App
  BY DEF Copying, Giving
<1>2. CASE CopyToSsh
  <2>1. app.phase = "sending" /\ tunnel.ssh = "up"
    BY <1>2, Zenon DEF CopyToSsh
  <2> QED
    BY <1>2, <2>1, CopyMoves, Zenon DEF Charged
<1>3. CASE Run
  BY <1>1, <1>3 DEF Run, Rests, App
<1>4. CASE CopyFails
  BY <1>1, <1>4 DEF CopyFails, Rests, App
<1>5. CASE CopyResumes
  <2>1. /\ mailbox' = mailbox /\ app.phase = "waiting"
        /\ \/ app' = [app EXCEPT !.phase = "sending", !.window_size = Head(toSsh).size]
           \/ app' = app \/ app' = [app EXCEPT !.phase = "sending"]
    BY <1>5, Zenon DEF CopyResumes
  <2>2. app'.taken = app.taken /\ app'.phase # "done"
    BY <1>1, <2>1 DEF App
  <2> QED
    BY <2>1, <2>2 DEF Rests
<1>6. CASE ReceiveAdjusted \/ ReceiveData \/ ReceiveEof \/ ReceiveGone \/ CopyToTcp
  <2>1. app' = app /\ mailbox' = mailbox
    BY <1>6, Zenon DEF ReceiveAdjusted, ReceiveData, ReceiveEof, ReceiveGone, CopyToTcp, vars
  <2> QED
    BY <2>1 DEF Rests
<1> QED
  BY <1>2, <1>3, <1>4, <1>5, <1>6 DEF TunnelSteps

-----------------------------------------------------------------------------
(* Hence the order of what is delivered. *)

LEMMA InLineMore ==
    ASSUME NEW K, NEW L, K \subseteq L, NEW E, NEW gone, NEW w, NEW p, NEW m,
           NEW from, NEW to, InLine(gone, K, E, w, p, m, from, to)
    PROVE  InLine(gone, L, E, w, p, m, from, to)
BY FlowMore DEF InLine

LEMMA RestsInLine ==
    ASSUME mailbox' = mailbox, chan' = chan, wire' = wire,
           NEW K, NEW E, NEW from, NEW to,
           InLine(Gone, K, E, wire, chan.pending_data, mailbox, from, to)
    PROVE  InLine(Gone', K, E, wire', chan'.pending_data, mailbox', from, to)
<1>1. Gone' = Gone
  BY DEF Gone
<1> QED
  BY <1>1, Zenon

LEMMA QueuedInLine ==
    ASSUME Giving, chan' = chan, wire' = wire,
           NEW msg \in Mail, mailbox' = Append(mailbox, msg),
           NEW K, NEW E, NEW from, NEW to \in Nat, NEW next \in Nat, to <= next,
           Gone \/ <<msg, to, next>> \in Says(E),
           InLine(Gone, K, E, wire, chan.pending_data, mailbox, from, to)
    PROVE  InLine(Gone', K, E, wire', chan'.pending_data, mailbox', from, next)
<1>1. Gone' = Gone /\ chan'.pending_data = chan.pending_data /\ mailbox \in Seq(Mail)
  BY DEF Gone, Giving
<1>2. CASE Gone
  <2>1. Remains(K, E, wire, from, to)
    BY <1>2, Zenon DEF InLine
  <2>2. Remains(K, E, wire, from, next)
    BY <2>1, ReachesOn
  <2> QED
    BY <1>1, <1>2, <2>2, Zenon DEF InLine
<1>3. CASE ~Gone
  <2>1. Flow(K, E, wire, chan.pending_data, mailbox, from, to)
    BY <1>3, Zenon DEF InLine
  <2>2. Flow(K, E, wire, chan.pending_data, Append(mailbox, msg), from, next)
    BY <1>1, <1>3, <2>1, MessageFlows
  <2> QED
    BY <1>1, <1>3, <2>2, Zenon DEF InLine
<1> QED
  BY <1>2, <1>3

LEMMA WritesInLine ==
    ASSUME Giving, chan' = chan, wire' = wire, NEW n \in Nat, Writes(n),
           NEW K, NEW E, NEW from,
           InLine(Gone, K, E, wire, chan.pending_data, mailbox, from, app.taken)
    PROVE  InLine(Gone', K, E, wire', chan'.pending_data, mailbox', from, app'.taken)
<1>1. /\ app.taken + n <= Total /\ mailbox' = Append(mailbox, Data(app.taken, n))
      /\ app'.taken = app.taken + n
  BY DEF Writes
<1>2. app.taken \in Nat
  BY FlowAssumption DEF Giving, App
<1>3. app.taken + n \in Nat /\ app.taken <= app.taken + n
  BY <1>2
<1>4. Data(app.taken, n) \in Mail
  BY <1>1, <1>2, DataIs
<1>5. <<Data(app.taken, n), app.taken, app.taken + n>> \in Says(E)
  BY <1>1, <1>2, DataSays
<1> HIDE DEF Writes
<1>6. InLine(Gone', K, E, wire', chan'.pending_data, mailbox', from, app.taken + n)
  BY <1>1, <1>2, <1>3, <1>4, <1>5, QueuedInLine, Zenon
<1> QED
  BY <1>1, <1>6, Zenon

LEMMA FinishesInLine ==
    ASSUME Giving, chan' = chan, wire' = wire, mailbox' = Append(mailbox, Eof),
           NEW K, NEW E, NEW from, NEW to \in Nat, NEW next \in Nat, to <= next,
           Gone \/ <<to, next>> \in E,
           InLine(Gone, K, E, wire, chan.pending_data, mailbox, from, to)
    PROVE  InLine(Gone', K, E, wire', chan'.pending_data, mailbox', from, next)
<1>1. Eof \in Mail /\ Eof.eof
  BY EofIs DEF Eof
<1>2. <<to, next>> \in E => <<Eof, to, next>> \in Says(E)
  BY <1>1, SaysIs
<1> QED
  BY <1>1, <1>2, QueuedInLine, Zenon

(* Bytes that have waited may have become plain data. *)
Kinds == IF queued THEN {Ext, FALSE} ELSE {Ext}

KeptInLine ==
    /\ InLine(Gone, Kinds, Nowhere, wire, chan.pending_data, mailbox,
              Len(peer.delivered), app.taken)
    /\ \A i \in DOMAIN peer.delivered : peer.delivered[i] \in Kinds \X {i}

Lined ==
    /\ chan.pending_data # <<>> \/ cut => queued
    /\ ~cut => KeptInLine

LEMMA NowhereIs == ASSUME NEW a, NEW b, <<a, b>> \in Nowhere PROVE a = b
BY DEF Nowhere

LEMMA SessionsLined ==
    ASSUME Flowing, Lined, Sessions PROVE Lined'
<1>1. /\ SessionSteps /\ Giving /\ Carrying
      /\ queued' = (queued \/ chan'.pending_data # <<>>)
      /\ cut' = (cut \/ Cut(chan'.pending_data))
  BY DEF Sessions, Flowing, Copying, Cut
<1>2. app' = app
  BY <1>1, SessionStepsApp
<1>3. chan'.pending_data # <<>> \/ cut' => queued'
  <2>1. chan'.pending_data = <<>> => ~Cut(chan'.pending_data)
    BY DEF Cut
  <2> QED
    BY <1>1, <2>1, Zenon DEF Lined
<1>4. ASSUME ~cut' PROVE KeptInLine'
  <2>1. ~cut /\ ~Cut(chan'.pending_data)
    BY <1>1, <1>4, Zenon
  <2> DEFINE K == Kinds
             L == Kinds'
             given == app.taken
  <2>2. /\ InLine(Gone, K, Nowhere, wire, chan.pending_data, mailbox,
                  Len(peer.delivered), given)
        /\ \A i \in DOMAIN peer.delivered : peer.delivered[i] \in K \X {i}
    BY <2>1, Zenon DEF Lined, KeptInLine
  <2>3. K \subseteq L
    BY <1>1 DEF Kinds
  <2>4. Ext \in K /\ (FALSE \in K \/ chan.pending_data = <<>>)
    BY <2>1 DEF Kinds, Lined
  <2> HIDE DEF K, L
  <2>5. /\ InLine(Gone', K, Nowhere, wire', chan'.pending_data, mailbox',
                  Len(peer'.delivered), given)
        /\ \A i \in DOMAIN peer'.delivered : peer'.delivered[i] \in K \X {i}
    <3>1. CASE ReceiverData
      BY <1>1, <2>2, <3>1, ReceiverDataInLine
    <3>2. CASE ReceiverEof
      <4> DEFINE from == Len(peer.delivered)
      <4>1. \A a : <<from, a>> \in Nowhere => a = from
        BY NowhereIs
      <4> HIDE DEF from
      <4>2. /\ InLine(Gone', K, Nowhere, wire', chan'.pending_data, mailbox', from, given)
            /\ peer'.delivered = peer.delivered
        BY <1>1, <2>2, <3>2, <4>1, ReceiverEofInLine DEF from
      <4> QED
        BY <2>2, <4>2, Zenon DEF from
    <3>3. CASE ~ReceiverData /\ ~ReceiverEof
      <4> DEFINE from == Len(peer.delivered)
      <4>1. /\ InLine(Gone', K, Nowhere, wire', chan'.pending_data, mailbox', from, given)
            /\ peer' = peer
        BY <1>1, <2>1, <2>2, <2>4, <3>3, SenderInLine
      <4> QED
        BY <2>2, <4>1, Zenon
    <3> QED
      BY <3>1, <3>2, <3>3
  <2>6. InLine(Gone', L, Nowhere, wire', chan'.pending_data, mailbox',
               Len(peer'.delivered), given)
    BY <2>3, <2>5, InLineMore, Zenon
  <2>7. \A i \in DOMAIN peer'.delivered : peer'.delivered[i] \in L \X {i}
    <3>1. \A i : K \X {i} \subseteq L \X {i}
      BY <2>3
    <3> QED
      BY <2>5, <3>1
  <2>8. given = app'.taken
    BY <1>2
  <2> QED
    BY <2>6, <2>7, <2>8, Zenon DEF KeptInLine, L
<1> QED
  BY <1>3, <1>4, Zenon DEF Lined

(* What the application, or the tunnel, does to the stream. *)
LEMMA MovesLined ==
    ASSUME Giving, Carrying, Lined, UNCHANGED <<chan, wire, peer, queued, cut>>,
           Rests \/ (\E n \in Nat : Writes(n)) \/ Finishes
    PROVE  Lined'
<1>1. chan' = chan /\ wire' = wire /\ peer' = peer /\ queued' = queued /\ cut' = cut
  OBVIOUS
<1>2. app.taken \in Nat /\ app.taken <= app.taken
  BY FlowAssumption DEF Giving, App
<1> DEFINE K == Kinds
           from == Len(peer.delivered)
           On == InLine(Gone', K, Nowhere, wire', chan'.pending_data, mailbox',
                        from, app'.taken)
<1> SUFFICES ASSUME ~cut,
                    InLine(Gone, K, Nowhere, wire, chan.pending_data, mailbox,
                           from, app.taken)
             PROVE  On
  <2>1. Kinds' = K /\ Len(peer'.delivered) = from
    BY <1>1 DEF Kinds
  <2>2. chan'.pending_data # <<>> \/ cut' => queued'
    BY <1>1 DEF Lined
  <2> HIDE DEF K, from
  <2>3. ASSUME ~cut PROVE On /\ \A i \in DOMAIN peer.delivered : peer.delivered[i] \in K \X {i}
    BY <2>3, Zenon DEF Lined, KeptInLine, K, from
  <2> HIDE DEF On
  <2>4. ASSUME ~cut' PROVE KeptInLine'
    <3>1. InLine(Gone', Kinds', Nowhere, wire', chan'.pending_data, mailbox',
                 Len(peer'.delivered), app'.taken)
      BY <1>1, <2>1, <2>3, <2>4 DEF On
    <3>2. \A i \in DOMAIN peer'.delivered : peer'.delivered[i] \in Kinds' \X {i}
      BY <1>1, <2>1, <2>3, <2>4
    <3> QED
      BY <3>1, <3>2 DEF KeptInLine
  <2> QED
    BY <2>2, <2>4, Zenon DEF Lined
<1> HIDE DEF K, from
<1>3. CASE Rests
  <2>1. mailbox' = mailbox /\ app'.taken = app.taken
    BY <1>3 DEF Rests
  <2> QED
    BY <1>1, <2>1, RestsInLine
<1>4. CASE \E n \in Nat : Writes(n)
  BY <1>1, <1>4, WritesInLine
<1>5. CASE Finishes
  <2>1. mailbox' = Append(mailbox, Eof) /\ app'.taken = app.taken
    BY <1>5 DEF Finishes
  <2>2. <<app.taken, app.taken>> \in Nowhere
    BY <1>2 DEF Nowhere
  <2>3. InLine(Gone', K, Nowhere, wire', chan'.pending_data, mailbox', from, app.taken)
    BY <1>1, <1>2, <2>1, <2>2, FinishesInLine
  <2> QED
    BY <2>1, <2>3, Zenon
<1> QED
  BY <1>3, <1>4, <1>5

LEMMA StepLined ==
    ASSUME Flowing, Lined, [TunnelNext]_allVars PROVE Lined'
<1>1. Copying /\ Giving /\ Carrying
  BY DEF Flowing, Copying
<1>2. CASE TunnelSteps
  <2>1. UNCHANGED <<chan, wire, peer>>
    BY <1>2, TunnelStepsKeep
  <2>2. UNCHANGED <<queued, cut>>
    BY <1>2, Zenon DEF TunnelSteps, Run, CopyToSsh, CopyFails, CopyResumes, ReceiveAdjusted,
                       ReceiveData, ReceiveEof, ReceiveGone, CopyToTcp
  <2>3. Rests \/ (\E n \in Nat : Writes(n)) \/ Finishes
    BY <1>1, <1>2, TunnelMoves, Zenon
  <2> QED
    BY <1>1, <2>1, <2>2, <2>3, MovesLined
<1>3. CASE ChannelSteps
  <2>1. AppSteps /\ UNCHANGED <<queued, cut>>
    BY <1>3 DEF ChannelSteps
  <2>2. UNCHANGED <<chan, wire, peer>>
    BY <2>1, AppStepsKeep
  <2>3. Rests \/ (\E n \in Nat : Writes(n)) \/ Finishes
    BY <1>1, <2>1, AppMoves, Zenon
  <2> QED
    BY <1>1, <2>1, <2>2, <2>3, MovesLined
<1>4. CASE Sessions
  BY <1>4, SessionsLined
<1>5. CASE HandlerCloses
  <2>1. /\ UNCHANGED <<app, mailbox, chan, wire, queued, cut>>
        /\ peer' = [peer EXCEPT !.closed = TRUE]
    BY <1>5 DEF HandlerCloses, ServerCloses
  <2>2. peer'.delivered = peer.delivered
    BY <1>1, <2>1, CarryingIs DEF Receiver
  <2> QED
    BY <2>1, <2>2, Zenon DEF Lined, KeptInLine, Kinds, Gone
<1>6. CASE UNCHANGED allVars
  <2>1. UNCHANGED <<app, mailbox, chan, wire, peer, queued, cut>>
    BY <1>6 DEF allVars, vars
  <2> QED
    BY <2>1, Zenon DEF Lined, KeptInLine, Kinds, Gone
<1> QED
  BY <1>2, <1>3, <1>4, <1>5, <1>6 DEF TunnelNext

LEMMA InitLined == ASSUME TunnelInit PROVE Lined
<1>1. /\ app.taken = 0 /\ mailbox = <<>> /\ wire = <<>> /\ chan.pending_data = <<>>
      /\ peer.delivered = <<>> /\ ~Gone
  BY DEF TunnelInit, Init, Gone
<1>2. ~cut
  BY DEF TunnelInit
<1>3. Flow(Kinds, Nowhere, <<>>, <<>>, <<>>, 0, 0)
  BY FlowNone
<1>4. Len(peer.delivered) = 0 /\ DOMAIN peer.delivered = {}
  BY <1>1
<1>5. InLine(Gone, Kinds, Nowhere, wire, chan.pending_data, mailbox,
             Len(peer.delivered), app.taken)
  BY <1>1, <1>3, <1>4, Zenon DEF InLine
<1> QED
  BY <1>1, <1>2, <1>4, <1>5 DEF Lined, KeptInLine

LEMMA LinedIs == ASSUME Flowing, Lined PROVE InOrderUntilCut
<1> DEFINE d == peer.delivered
<1>1. d \in Seq(BOOLEAN \X (1..Total)) /\ Total \in Nat
  BY FlowAssumption, CarryingIs DEF Flowing, Receiver, Packet, Kind, Byte
<1>2. ASSUME ~cut PROVE \A i \in DOMAIN d : d[i] \in Kinds \X {i}
  BY <1>2, Zenon DEF Lined, KeptInLine
<1> HIDE DEF d
<1>3. ASSUME ~cut PROVE Len(d) <= Total
  <2>1. CASE d = <<>>
    BY <1>1, <2>1
  <2>2. CASE d # <<>>
    <3>1. Len(d) \in DOMAIN d /\ Len(d) \in Nat
      BY <1>1, <2>2
    <3>2. d[Len(d)] \in BOOLEAN \X (1..Total)
      BY <1>1, <3>1
    <3>3. d[Len(d)] \in Kinds \X {Len(d)}
      BY <1>2, <1>3, <3>1
    <3>4. Len(d) \in 1..Total
      BY <3>2, <3>3
    <3> QED
      BY <1>1, <3>1, <3>4
  <2> QED
    BY <2>1, <2>2
<1>4. ~cut => Sequenced
  <2>1. ASSUME ~cut, NEW i \in DOMAIN d PROVE d[i] \in {<<Ext, i>>, <<FALSE, i>>}
    <3>1. d[i] \in Kinds \X {i}
      BY <1>2, <2>1
    <3>2. PICK e \in Kinds : d[i] = <<e, i>>
      BY <3>1
    <3>3. e = Ext \/ e = FALSE
      BY <3>2 DEF Kinds
    <3> QED
      BY <3>2, <3>3, Zenon
  <2> QED
    BY <1>3, <2>1, Zenon DEF Sequenced, d
<1>5. ~queued => InOrder
  <2>1. ASSUME ~queued, NEW i \in DOMAIN d PROVE ~cut /\ d[i] = <<Ext, i>>
    <3>1. ~cut /\ Kinds = {Ext}
      BY <2>1 DEF Lined, Kinds
    <3>2. d[i] \in {Ext} \X {i}
      BY <1>2, <2>1, <3>1
    <3> QED
      BY <3>1, <3>2
  <2>2. ~queued => ~cut
    BY DEF Lined
  <2> QED
    BY <1>3, <2>1, <2>2, Zenon DEF InOrder, d
<1> QED
  BY <1>4, <1>5 DEF InOrderUntilCut

(* The handler gets the bytes of the stream in order and each once, up to   *)
(* the first message that is cut, and as extended data if they were sent as *)
(* such up to the first that has to wait: whatever the window, the packets  *)
(* and the calls, of a channel that closes on the way too.                  *)
THEOREM InOrderUntilTheCut == TunnelSpec => []InOrderUntilCut
<1>1. TunnelInit => Flowing /\ Lined
  BY TunnelInitFlows, InitLined
<1>2. (Flowing /\ Lined) /\ [TunnelNext]_allVars => (Flowing /\ Lined)'
  BY StepFlows, StepLined
<1>3. Flowing /\ Lined => InOrderUntilCut
  BY LinedIs
<1> QED
  BY <1>1, <1>2, <1>3, PTL DEF TunnelSpec

-----------------------------------------------------------------------------
(* The end of the stream, which comes once and after its last byte, as long *)
(* as nothing has had to wait.                                              *)

AtTheEnd == {<<Total, Total + 1>>}

AllGiven == app.phase = "done" /\ app.taken = Total

(* What has been given and received, the end of the stream included. *)
Given == IF AllGiven THEN app.taken + 1 ELSE app.taken

Arrived == IF peer.eof THEN Len(peer.delivered) + 1 ELSE Len(peer.delivered)

KeptToTheEnd ==
    /\ InLine(Gone, {Ext}, AtTheEnd, wire, <<>>, mailbox, Arrived, Given)
    /\ peer.eof => Len(peer.delivered) = Total

Closing ==
    /\ "error" \notin Endings => tunnel.tcp # "error"
    /\ ~queued => KeptToTheEnd

LEMMA TotalIs == Total \in Nat /\ Total + 1 \in Nat
BY FlowAssumption DEF FlowAssumption

LEMMA EndIs ==
    /\ \A b : <<Total, b>> \in AtTheEnd => b = Total + 1
    /\ \A a, b : <<a, b>> \in AtTheEnd => a = Total
    /\ <<Total, Total + 1>> \in AtTheEnd
BY DEF AtTheEnd

LEMMA NothingWaits ==
    ASSUME Lined, ~queued
    PROVE  chan.pending_data = <<>> /\ ~cut /\ Kinds = {Ext} /\ KeptInLine
BY DEF Lined, Kinds

(* No data behind the end: there are no more bytes. *)
LEMMA DataBeforeEnd ==
    ASSUME Flowing, KeptToTheEnd, ReceiverData PROVE ~peer.eof
<1> SUFFICES ASSUME peer.eof PROVE FALSE
  OBVIOUS
<1> DEFINE head == Head(wire)
<1>1. wire # <<>> /\ head # <<>>
  BY Zenon DEF ReceiverData
<1>2. /\ wire \in Seq(Packet) /\ mailbox \in Seq(Mail) /\ <<>> \in Seq(Pending)
      /\ head \in Packet
  BY <1>1, CarryingIs DEF Flowing, Copying, Giving
<1>3. Arrived = Total + 1
  BY DEF Arrived, KeptToTheEnd
<1>4. Remains({Ext}, AtTheEnd, wire, Total + 1, Given)
  BY <1>2, <1>3, FlowRemains DEF KeptToTheEnd, InLine
<1>5. \A i \in 1..Len(head) : head[i] \in {Ext} \X {(Total + 1) + i}
  BY <1>1, <1>2, <1>4, PacketArrives
<1> HIDE DEF head
<1>6. head \in Seq(Kind(Byte))
  BY <1>2 DEF Packet
<1>7. 1 \in 1..Len(head) /\ head[1] \in Kind(Byte)
  BY ONLY <1>1, <1>6
<1>8. head[1][2] \in Byte /\ head[1][2] = (Total + 1) + 1
  BY <1>5, <1>7 DEF Kind
<1> QED
  BY <1>8, TotalIs DEF Byte

LEMMA SessionsClosing ==
    ASSUME Flowing, Lined, Lined', Closing, Sessions PROVE Closing'
<1>1. /\ SessionSteps /\ Giving /\ Carrying
      /\ queued' = (queued \/ chan'.pending_data # <<>>) /\ tunnel' = tunnel
  BY DEF Sessions, Flowing, Copying, tunnelVars
<1>2. app' = app
  BY <1>1, SessionStepsApp
<1>3. ASSUME ~queued' PROVE KeptToTheEnd'
  <2> DEFINE K == {Ext}
             given == Given
  <2>1. ~queued /\ chan'.pending_data = <<>>
    BY <1>1, <1>3, Zenon
  <2>2. chan.pending_data = <<>> /\ KeptToTheEnd
    BY <2>1, NothingWaits DEF Closing
  <2>3. InLine(Gone, K, AtTheEnd, wire, chan.pending_data, mailbox, Arrived, given)
    BY <2>2, Zenon DEF KeptToTheEnd
  <2>4. Given' = given
    BY <1>2 DEF Given, AllGiven
  <2>5. Ext \in K /\ ~Cut(chan'.pending_data)
    BY <2>1 DEF Cut
  <2> HIDE DEF K, given
  <2>6. CASE ReceiverData
    <3>1. ~peer.eof
      BY <2>2, <2>6, DataBeforeEnd
    <3>2. Arrived = Len(peer.delivered)
      BY <3>1 DEF Arrived
    <3>3. \A i \in DOMAIN peer.delivered : peer.delivered[i] \in K \X {i}
      BY <2>1, NothingWaits, Zenon DEF KeptInLine, K
    <3>4. /\ InLine(Gone', K, AtTheEnd, wire', chan'.pending_data, mailbox',
                    Len(peer'.delivered), given)
          /\ peer'.eof = peer.eof
      BY <1>1, <2>3, <2>6, <3>2, <3>3, ReceiverDataInLine
    <3>5. Arrived' = Len(peer'.delivered) /\ ~peer'.eof
      BY <3>1, <3>4 DEF Arrived
    <3> QED
      BY <2>1, <2>4, <3>4, <3>5, Zenon DEF KeptToTheEnd, K
  <2>7. CASE ReceiverEof
    <3> DEFINE from == Arrived
               next == Total + 1
    <3>1. \A b : <<from, b>> \in AtTheEnd => b = next
      BY DEF AtTheEnd
    <3> HIDE DEF from, next
    <3>2. /\ InLine(Gone', K, AtTheEnd, wire', chan'.pending_data, mailbox', next, given)
          /\ peer'.delivered = peer.delivered /\ peer'.eof = TRUE
          /\ <<from, next>> \in AtTheEnd
      BY <1>1, <2>3, <2>7, <3>1, ReceiverEofInLine DEF from
    <3>3. Len(peer.delivered) = Total
      <4>1. Arrived = Total
        BY <3>2, EndIs DEF from
      <4> QED
        BY <4>1, <2>2 DEF Arrived, KeptToTheEnd
    <3>4. Arrived' = next
      BY <3>2, <3>3 DEF Arrived, next
    <3> QED
      BY <2>1, <2>4, <3>2, <3>3, <3>4, Zenon DEF KeptToTheEnd, K
  <2>8. CASE ~ReceiverData /\ ~ReceiverEof
    <3> DEFINE from == Arrived
    <3>1. /\ InLine(Gone', K, AtTheEnd, wire', chan'.pending_data, mailbox', from, given)
          /\ peer' = peer
      BY <1>1, <2>2, <2>3, <2>5, <2>8, SenderInLine
    <3>2. Arrived' = from
      BY <3>1 DEF Arrived
    <3> HIDE DEF from
    <3> QED
      BY <2>1, <2>2, <2>4, <3>1, <3>2, Zenon DEF KeptToTheEnd, K
  <2> QED
    BY <2>6, <2>7, <2>8
<1> QED
  BY <1>1, <1>3, Zenon DEF Closing

LEMMA MovesClosing ==
    ASSUME Giving, Lined, Closing, UNCHANGED <<chan, wire, peer, queued>>,
           "error" \notin Endings => tunnel'.tcp # "error",
           \/ Rests \/ (\E n \in Nat : Writes(n))
           \/ Finishes /\ (app.taken = Total \/ queued \/ Gone)
    PROVE  Closing'
<1>1. chan' = chan /\ wire' = wire /\ peer' = peer /\ queued' = queued
  OBVIOUS
<1>2. app.taken \in Nat /\ app.taken <= Total
  BY FlowAssumption DEF Giving, App
<1> SUFFICES ASSUME ~queued PROVE KeptToTheEnd'
  BY <1>1 DEF Closing
<1> DEFINE K == {Ext}
           from == Arrived
<1>3. /\ InLine(Gone, K, AtTheEnd, wire, chan.pending_data, mailbox, from, Given)
      /\ chan.pending_data = <<>> /\ chan'.pending_data = <<>>
      /\ Arrived' = from /\ KeptToTheEnd
  <2>1. KeptToTheEnd /\ chan.pending_data = <<>>
    BY NothingWaits DEF Closing
  <2>2. InLine(Gone, K, AtTheEnd, wire, chan.pending_data, mailbox, from, Given)
    BY <2>1, Zenon DEF KeptToTheEnd
  <2> QED
    BY <1>1, <2>1, <2>2 DEF Arrived
<1> HIDE DEF K, from
<1>4. InLine(Gone', K, AtTheEnd, wire', chan'.pending_data, mailbox', from, Given')
  <2>1. CASE Rests
    <3>1. mailbox' = mailbox /\ Given' = Given
      BY <2>1 DEF Rests, Given, AllGiven
    <3> DEFINE given == Given
    <3>2. InLine(Gone, K, AtTheEnd, wire, chan.pending_data, mailbox, from, given)
      BY <1>3
    <3> HIDE DEF given
    <3>3. InLine(Gone', K, AtTheEnd, wire', chan'.pending_data, mailbox', from, given)
      BY <1>1, <3>1, <3>2, RestsInLine
    <3> QED
      BY <3>1, <3>3 DEF given
  <2>2. CASE \E n \in Nat : Writes(n)
    <3>1. PICK n \in Nat : Writes(n)
      BY <2>2
    <3>2. Given = app.taken /\ Given' = app'.taken
      BY <3>1 DEF Writes, Given, AllGiven
    <3>3. InLine(Gone, K, AtTheEnd, wire, chan.pending_data, mailbox, from, app.taken)
      BY <1>3, <3>2
    <3>4. InLine(Gone', K, AtTheEnd, wire', chan'.pending_data, mailbox', from, app'.taken)
      BY <1>1, <3>1, <3>3, WritesInLine
    <3> QED
      BY <3>2, <3>4
  <2>3. CASE Finishes /\ (app.taken = Total \/ queued \/ Gone)
    <3> DEFINE to == app.taken
               next == Given'
    <3>1. /\ mailbox' = Append(mailbox, Eof) /\ Given = to
          /\ next = IF to = Total THEN to + 1 ELSE to
      BY <2>3 DEF Finishes, Given, AllGiven
    <3>2. to \in Nat /\ next \in Nat /\ to <= next
      BY <1>2, <3>1
    <3>3. Gone \/ <<to, next>> \in AtTheEnd
      BY <2>3, <3>1, EndIs
    <3>4. InLine(Gone, K, AtTheEnd, wire, chan.pending_data, mailbox, from, to)
      BY <1>3, <3>1
    <3> HIDE DEF to, next
    <3>5. InLine(Gone', K, AtTheEnd, wire', chan'.pending_data, mailbox', from, next)
      BY <1>1, <3>1, <3>2, <3>3, <3>4, FinishesInLine
    <3> QED
      BY <3>5 DEF next
  <2> QED
    BY <2>1, <2>2, <2>3
<1> QED
  BY <1>1, <1>3, <1>4, Zenon DEF KeptToTheEnd, K

LEMMA NoWriteFails ==
    ASSUME Copying, TunnelSteps, "error" \notin Endings, tunnel.tcp # "error"
    PROVE  tunnel'.tcp # "error"
<1>1. /\ tunnel \in Loops
      /\ tunnel = [use |-> tunnel.use, receive |-> tunnel.receive, ssh |-> tunnel.ssh,
                   tcp |-> tunnel.tcp, answers |-> tunnel.answers, eof |-> tunnel.eof]
  BY DEF Copying, Loops
<1>2. CASE tunnel' = tunnel
  BY <1>2
<1>3. CASE CopyToSsh \/ CopyFails \/ CopyResumes
  <2>1. tunnel' = tunnel \/ tunnel' = [tunnel EXCEPT !.ssh = "over"]
        \/ tunnel' = [tunnel EXCEPT !.ssh = "panic"]
        \/ tunnel' = [tunnel EXCEPT !.ssh = "error"]
    BY <1>3, Zenon DEF CopyToSsh, CopyFails, CopyResumes
  <2> QED
    BY <1>1, <2>1
<1>4. CASE ReceiveAdjusted \/ ReceiveGone
  <2>1. tunnel' = tunnel \/ tunnel' = [tunnel EXCEPT !.receive = "over"]
    BY <1>4 DEF ReceiveAdjusted, ReceiveGone, ToSsh
  <2> QED
    BY <1>1, <2>1
<1>5. CASE ReceiveData
  <2> DEFINE t == [tunnel EXCEPT !.answers = @ - 1]
  <2>1. tunnel' = t \/ tunnel' = [t EXCEPT !.receive = "over"]
    BY <1>5, Zenon DEF ReceiveData
  <2> QED
    BY <1>1, <2>1
<1>6. CASE ReceiveEof
  <2> DEFINE t == [tunnel EXCEPT !.eof = TRUE]
  <2>1. tunnel' = t \/ tunnel' = [t EXCEPT !.receive = "over"]
    BY <1>6, Zenon DEF ReceiveEof, ToSsh
  <2> QED
    BY <1>1, <2>1
<1>7. CASE CopyToTcp
  <2>1. tunnel' = tunnel \/ tunnel' = [tunnel EXCEPT !.tcp = "over"]
    BY <1>7, Zenon DEF CopyToTcp
  <2> QED
    BY <1>1, <2>1
<1>8. CASE Run
  BY <1>2, <1>8 DEF Run, tunnelVars
<1> QED
  BY <1>3, <1>4, <1>5, <1>6, <1>7, <1>8 DEF TunnelSteps

(* A tunnel's early end: what it sends is lost with the channel.            *)
LEMMA TunnelFinishes ==
    ASSUME Explained, Closing, Flowing, TunnelSteps, "error" \notin Endings
    PROVE  \/ Rests \/ (\E n \in Nat : Writes(n))
           \/ Finishes /\ (app.taken = Total \/ queued \/ Gone)
<1>1. Tunnelling
  BY Zenon DEF TunnelSteps, Run, CopyToSsh, CopyFails, CopyResumes, Receiving,
               ReceiveAdjusted, ReceiveData, ReceiveEof, ReceiveGone, CopyToTcp
<1>2. Sending /\ tunnel.tcp # "error"
  BY <1>1 DEF Explained, Closing
<1>3. app.window_size = 0 /\ app.phase = "sending" /\ tunnel.ssh = "up" => queued \/ Gone
  BY <1>2 DEF Sending, Excused
<1> QED
  BY <1>3, TunnelMoves, Zenon DEF Flowing

LEMMA StepClosing ==
    ASSUME "error" \notin Endings, Flowing, Explained, Lined, Lined', Closing,
           [TunnelNext]_allVars
    PROVE  Closing'
<1>1. Copying /\ Giving /\ Carrying /\ tunnel.tcp # "error"
  BY DEF Flowing, Copying, Closing
<1>2. CASE TunnelSteps
  <2>1. UNCHANGED <<chan, wire, peer>>
    BY <1>2, TunnelStepsKeep
  <2>2. queued' = queued
    BY <1>2, Zenon DEF TunnelSteps, Run, CopyToSsh, CopyFails, CopyResumes, ReceiveAdjusted,
                       ReceiveData, ReceiveEof, ReceiveGone, CopyToTcp
  <2> QED
    BY <1>1, <1>2, <2>1, <2>2, NoWriteFails, TunnelFinishes, MovesClosing
<1>3. CASE ChannelSteps
  <2>1. AppSteps /\ tunnel' = tunnel /\ queued' = queued
    BY <1>3 DEF ChannelSteps, tunnelVars
  <2>2. UNCHANGED <<chan, wire, peer>>
    BY <2>1, AppStepsKeep
  <2>3. \/ Rests \/ (\E n \in Nat : Writes(n))
        \/ Finishes /\ (app.taken = Total \/ queued \/ Gone)
    BY <1>1, <2>1, AppMoves, Zenon
  <2> QED
    BY <1>1, <2>1, <2>2, <2>3, MovesClosing
<1>4. CASE Sessions
  BY <1>4, SessionsClosing
<1>5. CASE HandlerCloses
  <2>1. /\ UNCHANGED <<app, mailbox, chan, wire, queued, tunnel>>
        /\ peer' = [peer EXCEPT !.closed = TRUE]
    BY <1>5 DEF HandlerCloses, ServerCloses, tunnelVars
  <2>2. peer'.delivered = peer.delivered /\ peer'.eof = peer.eof
    BY <1>1, <2>1, CarryingIs DEF Receiver
  <2> QED
    BY <2>1, <2>2, Zenon DEF Closing, KeptToTheEnd, Arrived, Given, AllGiven, Gone
<1>6. CASE UNCHANGED allVars
  <2>1. UNCHANGED <<app, mailbox, chan, wire, peer, queued, tunnel>>
    BY <1>6 DEF allVars, vars, tunnelVars
  <2> QED
    BY <2>1, Zenon DEF Closing, KeptToTheEnd, Arrived, Given, AllGiven, Gone
<1> QED
  BY <1>2, <1>3, <1>4, <1>5, <1>6 DEF TunnelNext

LEMMA InitClosing == ASSUME TunnelInit PROVE Closing
<1>1. /\ app.taken = 0 /\ app.phase = "idle" /\ mailbox = <<>> /\ wire = <<>>
      /\ peer.delivered = <<>> /\ peer.eof = FALSE /\ ~Gone
  BY DEF TunnelInit, Init, Gone
<1>2. tunnel.tcp = "up"
  BY DEF TunnelInit
<1>3. Flow({Ext}, AtTheEnd, <<>>, <<>>, <<>>, 0, 0)
  BY FlowNone
<1>4. Arrived = 0 /\ Given = 0
  BY <1>1 DEF Arrived, Given, AllGiven
<1>5. InLine(Gone, {Ext}, AtTheEnd, wire, <<>>, mailbox, Arrived, Given)
  BY <1>1, <1>3, <1>4, Zenon DEF InLine
<1> QED
  BY <1>1, <1>2, <1>5 DEF Closing, KeptToTheEnd

-----------------------------------------------------------------------------
(* Every step is a step of ByteStream, or none. *)

Delivered == [i \in DOMAIN peer.delivered |-> AsGiven(peer.delivered[i])]

LEMMA DeliveredIs ==
    ASSUME Flowing, Lined, ~queued
    PROVE  Delivered = Stream!Upto(Len(peer.delivered)) /\ Len(peer.delivered) \in 0..Total
<1> DEFINE d == peer.delivered
<1>1. InOrder
  BY LinedIs DEF InOrderUntilCut
<1>2. d \in Seq(Kind(Byte)) /\ Total \in Nat
  BY CarryingIs, TotalIs DEF Flowing, Receiver, Packet
<1>3. Len(d) <= Total /\ \A i \in DOMAIN d : d[i] = <<Ext, i>>
  BY <1>1, Zenon DEF InOrder
<1> HIDE DEF d
<1>4. DOMAIN d = 1..Len(d) /\ Len(d) \in Nat
  BY <1>2
<1>5. \A i \in DOMAIN d : AsGiven(d[i]) = i
  BY <1>3 DEF AsGiven
<1>6. [i \in DOMAIN d |-> AsGiven(d[i])] = [i \in 1..Len(d) |-> i]
  BY <1>4, <1>5
<1> QED
  BY <1>2, <1>3, <1>4, <1>6 DEF Delivered, Stream!Upto, d

LEMMA ArrivedOfGiven ==
    ASSUME Flowing, KeptToTheEnd
    PROVE  Arrived <= Given /\ Arrived \in Nat /\ Given \in Nat
<1> DEFINE K == {Ext}
<1>1. wire \in Seq(Packet) /\ mailbox \in Seq(Mail) /\ <<>> \in Seq(Pending)
  BY CarryingIs DEF Flowing, Copying, Giving
<1>2. InLine(Gone, K, AtTheEnd, wire, <<>>, mailbox, Arrived, Given)
  BY Zenon DEF KeptToTheEnd
<1>3. Given \in Nat
  <2>1. app.taken \in Nat
    BY TotalIs DEF Flowing, Copying, Giving, App
  <2> QED
    BY <2>1 DEF Given
<1> HIDE DEF K
<1>4. Remains(K, AtTheEnd, wire, Arrived, Given)
  BY <1>1, <1>2, FlowRemains DEF InLine
<1>5. PICK a \in Nat : a <= Given /\ Chained(Carries(K, AtTheEnd), wire, Arrived, a)
  BY <1>4 DEF Remains
<1>6. Arrived \in Nat /\ Arrived <= a
  BY <1>1, <1>5, ChainedForward
<1> QED
  BY <1>3, <1>5, <1>6, AtMost, Zenon

(* What the receiver has had of the stream was given, and is its beginning. *)
Streamed ==
    ~queued =>
        /\ Delivered = Stream!Upto(Len(peer.delivered))
        /\ Len(peer.delivered) \in Nat /\ app.taken \in Nat
        /\ ~peer.eof => Len(peer.delivered) <= app.taken
        /\ peer.eof => AllGiven /\ Len(peer.delivered) = app.taken

LEMMA StreamedIs == ASSUME Flowing, Lined, Closing PROVE Streamed
<1> SUFFICES ASSUME ~queued
             PROVE  /\ Delivered = Stream!Upto(Len(peer.delivered))
                    /\ Len(peer.delivered) \in Nat /\ app.taken \in Nat
                    /\ ~peer.eof => Len(peer.delivered) <= app.taken
                    /\ peer.eof => AllGiven /\ Len(peer.delivered) = app.taken
  BY Zenon DEF Streamed
<1>1. /\ KeptToTheEnd /\ Len(peer.delivered) \in 0..Total
      /\ Delivered = Stream!Upto(Len(peer.delivered))
  BY DeliveredIs DEF Closing
<1>2. Arrived <= Given
  BY <1>1, ArrivedOfGiven
<1>3. app.taken \in 0..Total
  BY DEF Flowing, Copying, Giving, App
<1>4. peer.eof => Len(peer.delivered) = Total
  BY <1>1, Zenon DEF KeptToTheEnd
<1> QED
  BY <1>1, <1>2, <1>3, <1>4, TotalIs DEF Arrived, Given, AllGiven

StreamSame ==
    /\ app'.taken = app.taken /\ AllGiven' = AllGiven
    /\ peer'.delivered = peer.delivered /\ peer'.eof = peer.eof

LEMMA StreamRests == ASSUME StreamSame PROVE UNCHANGED Stream!vars
BY DEF StreamSame, AllGiven, Stream!vars

LEMMA MovesStream ==
    ASSUME Giving, peer' = peer,
           Rests \/ (\E n \in Nat : Writes(n)) \/ Finishes
    PROVE  [Stream!Next]_Stream!vars
<1>1. app.taken \in Nat /\ Total \in Nat /\ app.taken <= Total
  BY TotalIs DEF Giving, App
<1>2. peer'.delivered = peer.delivered /\ peer'.eof = peer.eof
  OBVIOUS
<1>3. CASE Rests
  <2>1. StreamSame
    BY <1>2, <1>3 DEF Rests, StreamSame, AllGiven
  <2> QED
    BY <2>1, StreamRests
<1>4. CASE \E n \in Nat : Writes(n)
  <2>1. PICK n \in Nat : Writes(n)
    BY <1>4
  <2>2. /\ app'.taken = app.taken + n /\ app'.taken <= Total
        /\ ~AllGiven /\ ~AllGiven'
    BY <2>1 DEF Writes, AllGiven
  <2>3. CASE n = 0
    <3>1. app'.taken = app.taken /\ app.phase # "done" /\ app'.phase # "done"
      BY <1>1, <2>1, <2>2, <2>3 DEF Writes
    <3>2. StreamSame
      BY <1>2, <3>1 DEF StreamSame, AllGiven
    <3> QED
      BY <3>2, StreamRests
  <2>4. CASE n # 0
    <3>1. app'.taken \in app.taken + 1 .. Total
      BY <1>1, <2>2, <2>4
    <3>2. Stream!Give
      BY <1>2, <2>2, <3>1 DEF Stream!Give, AllGiven
    <3> QED
      BY <3>2 DEF Stream!Next
  <2> QED
    BY <2>3, <2>4
<1>5. CASE Finishes
  <2>1. app'.taken = app.taken /\ app.phase # "done" /\ app'.phase = "done"
    BY <1>5 DEF Finishes
  <2>2. CASE app.taken = Total
    <3>1. Stream!Close
      BY <1>2, <2>1, <2>2 DEF Stream!Close
    <3> QED
      BY <3>1 DEF Stream!Next
  <2>3. CASE app.taken # Total
    <3>1. StreamSame
      BY <1>2, <2>1, <2>3 DEF StreamSame, AllGiven
    <3> QED
      BY <3>1, StreamRests
  <2> QED
    BY <2>2, <2>3
<1> QED
  BY <1>3, <1>4, <1>5

LEMMA SessionsStream ==
    ASSUME Flowing, Lined, Closing, Streamed, Streamed', Sessions, ~queued'
    PROVE  [Stream!Next]_Stream!vars
<1>1. /\ SessionSteps /\ Giving /\ Carrying
      /\ queued' = (queued \/ chan'.pending_data # <<>>)
  BY DEF Sessions, Flowing, Copying
<1>2. app' = app /\ ~queued /\ chan'.pending_data = <<>>
  BY <1>1, SessionStepsApp, Zenon
<1>3. AllGiven' = AllGiven /\ app'.taken = app.taken
  BY <1>2 DEF AllGiven
<1>4. /\ KeptToTheEnd /\ chan.pending_data = <<>> /\ Kinds = {Ext} /\ KeptInLine
  BY <1>2, NothingWaits DEF Closing
<1>5. /\ Delivered = Stream!Upto(Len(peer.delivered))
      /\ Len(peer.delivered) \in Nat /\ app.taken \in Nat
      /\ peer.eof => AllGiven /\ Len(peer.delivered) = app.taken
  BY <1>2, Zenon DEF Streamed
<1>6. /\ Delivered' = Stream!Upto(Len(peer'.delivered))
      /\ Len(peer'.delivered) \in Nat
      /\ ~peer'.eof => Len(peer'.delivered) <= app'.taken
      /\ peer'.eof => AllGiven' /\ Len(peer'.delivered) = app'.taken
  BY Zenon DEF Streamed
<1> DEFINE K == {Ext}
           given == app.taken
<1>7. /\ InLine(Gone, K, Nowhere, wire, chan.pending_data, mailbox,
                Len(peer.delivered), given)
      /\ \A i \in DOMAIN peer.delivered : peer.delivered[i] \in K \X {i}
      /\ Ext \in K /\ ~Cut(chan'.pending_data)
  BY <1>2, <1>4 DEF KeptInLine, Cut
<1> HIDE DEF K
<1>8. CASE ReceiverData
  <2>1. ~peer.eof
    BY <1>4, <1>8, DataBeforeEnd
  <2>2. peer'.eof = peer.eof /\ Len(peer'.delivered) > Len(peer.delivered)
    BY <1>1, <1>7, <1>8, ReceiverDataInLine
  <2> DEFINE m == Len(peer.delivered)
             n == Len(peer'.delivered)
  <2>3. Len(Delivered) = m
    BY <1>5 DEF Stream!Upto
  <2>4. n \in m + 1 .. app.taken
    BY <1>3, <1>5, <1>6, <2>1, <2>2
  <2> HIDE DEF m, n
  <2>5. \E k \in Len(Delivered) + 1 .. app.taken : Delivered' = Stream!Upto(k)
    BY <1>6, <2>3, <2>4 DEF n
  <2>6. Stream!Deliver
    BY <1>3, <2>1, <2>2, <2>5, Zenon DEF Stream!Deliver, Delivered, AllGiven
  <2> QED
    BY <2>6 DEF Stream!Next
<1>9. CASE ReceiverEof
  <2> DEFINE from == Arrived
             next == Total + 1
  <2>1. \A b : <<from, b>> \in AtTheEnd => b = next
    BY DEF AtTheEnd
  <2>2. InLine(Gone, K, AtTheEnd, wire, chan.pending_data, mailbox, from, Given)
    BY <1>4, Zenon DEF KeptToTheEnd, K
  <2> HIDE DEF from, next
  <2>3. /\ peer'.delivered = peer.delivered /\ peer'.eof = TRUE
        /\ <<from, next>> \in AtTheEnd
    BY <1>1, <1>9, <2>1, <2>2, ReceiverEofInLine
  <2>4. ~peer.eof
    <3>1. Arrived = Total
      BY <2>3, EndIs DEF from
    <3> QED
      BY <1>4, <3>1, TotalIs DEF Arrived, KeptToTheEnd
  <2>5. AllGiven /\ Len(peer.delivered) = app.taken
    BY <1>3, <1>6, <2>3
  <2>6. Len(Delivered) = app.taken
    BY <1>5, <2>5 DEF Stream!Upto
  <2>7. Stream!End
    BY <1>3, <2>3, <2>4, <2>5, <2>6, Zenon DEF Stream!End, Delivered, AllGiven
  <2> QED
    BY <2>7 DEF Stream!Next
<1>10. CASE ~ReceiverData /\ ~ReceiverEof
  <2>1. peer' = peer
    BY <1>1, <1>4, <1>7, <1>10, SenderInLine
  <2>2. StreamSame
    BY <1>3, <2>1 DEF StreamSame
  <2> QED
    BY <2>2, StreamRests
<1> QED
  BY <1>8, <1>9, <1>10

LEMMA StepStream ==
    ASSUME Flowing, Lined, Closing, Streamed, Streamed', [TunnelNext]_allVars, ~queued'
    PROVE  [Stream!Next]_Stream!vars
<1>1. Copying /\ Giving /\ Carrying
  BY DEF Flowing, Copying
<1>2. CASE TunnelSteps
  <2>1. peer' = peer
    BY <1>2, TunnelStepsKeep
  <2>2. Rests \/ (\E n \in Nat : Writes(n)) \/ Finishes
    BY <1>1, <1>2, TunnelMoves, Zenon
  <2> QED
    BY <1>1, <2>1, <2>2, MovesStream
<1>3. CASE ChannelSteps
  <2>1. AppSteps
    BY <1>3 DEF ChannelSteps
  <2>2. peer' = peer
    BY <2>1, AppStepsKeep
  <2>3. Rests \/ (\E n \in Nat : Writes(n)) \/ Finishes
    BY <1>1, <2>1, AppMoves, Zenon
  <2> QED
    BY <1>1, <2>2, <2>3, MovesStream
<1>4. CASE Sessions
  BY <1>4, SessionsStream
<1>5. CASE HandlerCloses
  <2>1. app' = app /\ peer' = [peer EXCEPT !.closed = TRUE]
    BY <1>5 DEF HandlerCloses, ServerCloses
  <2>2. peer'.delivered = peer.delivered /\ peer'.eof = peer.eof
    BY <1>1, <2>1, CarryingIs DEF Receiver
  <2>3. StreamSame
    BY <2>1, <2>2 DEF StreamSame, AllGiven
  <2> QED
    BY <2>3, StreamRests
<1>6. CASE UNCHANGED allVars
  <2>1. StreamSame
    BY <1>6 DEF allVars, vars, StreamSame, AllGiven
  <2> QED
    BY <2>1, StreamRests
<1> QED
  BY <1>2, <1>3, <1>4, <1>5, <1>6 DEF TunnelNext

LEMMA InitStream == ASSUME TunnelInit PROVE Stream!Init
<1>1. app.taken = 0 /\ app.phase = "idle" /\ peer.delivered = <<>> /\ peer.eof = FALSE
  BY DEF TunnelInit, Init
<1>2. Delivered = <<>>
  BY <1>1 DEF Delivered
<1> QED
  BY <1>1, <1>2 DEF Stream!Init, Delivered

(* As long as no data has had to wait for the session's window, the         *)
(* direction is a ByteStream: what a Channel, a Handle or a RemoteTunnel    *)
(* gives reaches the data handler once and in order, and channel_eof is     *)
(* called once and after the last byte.  A window of 0 or a failed write to *)
(* TCP would make a RemoteTunnel end its stream early.                      *)
THEOREM StreamUntilQueued ==
    WindowSize > 0 /\ "error" \notin Endings =>
        (TunnelSpec /\ []~queued => ImplementsByteStream)
<1> SUFFICES ASSUME WindowSize > 0, "error" \notin Endings
             PROVE  TunnelSpec /\ []~queued => ImplementsByteStream
  OBVIOUS
<1> DEFINE I == Flowing /\ Explained /\ Lined
<1>1. TunnelInit => I /\ Closing
  BY TunnelInitFlows, InitExplained, InitLined, InitClosing
<1>2. I /\ [TunnelNext]_allVars => I'
  BY StepFlows, StepExplained, StepLined
<1>3. I /\ I' /\ Closing /\ [TunnelNext]_allVars => Closing'
  BY StepClosing
<1>4. I /\ Closing => Streamed
  BY StreamedIs
<1>5. I /\ Closing /\ Streamed /\ Streamed' /\ [TunnelNext]_allVars /\ ~queued'
        => [Stream!Next]_Stream!vars
  BY StepStream
<1>6. TunnelInit => Stream!Init
  BY InitStream
<1> HIDE DEF I
<1> QED
  BY <1>1, <1>2, <1>3, <1>4, <1>5, <1>6, PTL
     DEF TunnelSpec, ImplementsByteStream, Stream!Spec

-----------------------------------------------------------------------------
(* Sums of what the elements of a queue count for. *)

LEMMA SumAppend ==
    ASSUME NEW q \in Seq(Nat), NEW n \in Nat
    PROVE  SumOf(Append(q, n)) = SumOf(q) + n /\ SumOf(q) \in Nat
<1>1. Append(q, n) = q \o <<n>> /\ <<n>> \in Seq(Nat)
  OBVIOUS
<1>2. SumOf(q \o <<n>>) = SumOf(q) + SumOf(<<n>>)
  BY <1>1, SumConcat
<1> QED
  BY <1>1, <1>2, SumOne, SumType

LEMMA SumHead ==
    ASSUME NEW q \in Seq(Nat), q # <<>>
    PROVE  /\ SumOf(q) = Head(q) + SumOf(Tail(q))
           /\ Head(q) \in Nat /\ SumOf(Tail(q)) \in Nat
<1> DEFINE e == Head(q)
           t == Tail(q)
           h == <<e>>
<1>1. q = h \o t /\ t \in Seq(Nat) /\ e \in Nat /\ h \in Seq(Nat)
  OBVIOUS
<1>2. SumOf(h) = e
  BY <1>1, SumOne
<1> HIDE DEF h, t, e
<1>3. SumOf(h \o t) = SumOf(h) + SumOf(t) /\ SumOf(t) \in Nat
  BY <1>1, SumConcat, SumType
<1> QED
  BY <1>1, <1>2, <1>3 DEF t, e

LEMMA SumBounds ==
    ASSUME NEW q \in Seq(Nat), NEW k \in 1..Len(q) PROVE q[k] <= SumOf(q)
<1>1. PICK F \in [0..Len(q) -> Nat] :
         /\ F[0] = 0 /\ F[Len(q)] = SumOf(q)
         /\ \A i \in 1..Len(q) : F[i] = F[i - 1] + q[i]
  BY SumGrows
<1>2. Len(q) \in Nat /\ \A i \in 1..Len(q) : q[i] \in Nat
  OBVIOUS
<1>3. ASSUME NEW i \in 1..Len(q)
      PROVE  F[i - 1] <= F[i] /\ F[i - 1] \in Nat /\ F[i] \in Nat
  <2>1. i \in 0..Len(q) /\ i - 1 \in 0..Len(q)
    BY <1>2
  <2>2. F[i] = F[i - 1] + q[i] /\ q[i] \in Nat /\ F[i - 1] \in Nat /\ F[i] \in Nat
    BY <1>1, <1>2, <2>1
  <2>3. \A a, b, c \in Nat : a = b + c => b <= a
    OBVIOUS
  <2> QED
    BY <2>2, <2>3, Zenon
<1>4. \A i, j \in 0..Len(q) : i <= j => F[i] <= F[j]
  BY <1>1, <1>2, <1>3, Stepwise
<1>5. k \in 0..Len(q) /\ Len(q) \in 0..Len(q) /\ k <= Len(q) /\ k - 1 \in 0..Len(q)
  BY <1>2
<1>6. F[k] <= F[Len(q)] /\ F[k] = F[k - 1] + q[k] /\ F[k - 1] \in Nat /\ q[k] \in Nat
      /\ F[Len(q)] \in Nat
  BY <1>1, <1>2, <1>4, <1>5
<1>7. q[k] <= F[Len(q)]
  <2>1. \A a, b, c, d \in Nat : a <= b /\ a = c + d => d <= b
    OBVIOUS
  <2>2. F[k] \in Nat
    BY <1>3
  <2> QED
    BY <1>6, <2>1, <2>2, Zenon
<1> QED
  BY <1>1, <1>7

LEMMA SameSeq ==
    ASSUME NEW T, NEW p \in Seq(T), NEW q \in Seq(T), Len(p) = Len(q),
           \A i \in 1..Len(p) : p[i] = q[i]
    PROVE  p = q
<1>1. p = [i \in 1..Len(p) |-> p[i]] /\ q = [i \in 1..Len(p) |-> q[i]]
  BY SeqIs
<1>2. [i \in 1..Len(p) |-> p[i]] = [i \in 1..Len(p) |-> q[i]]
  OBVIOUS
<1> QED
  BY <1>1, <1>2, Zenon

Mapped(f, q) == [i \in DOMAIN q |-> f[q[i]]]

LEMMA MappedIs ==
    ASSUME NEW T, NEW q \in Seq(T), NEW f \in [T -> Nat]
    PROVE  /\ Mapped(f, q) \in Seq(Nat) /\ Len(Mapped(f, q)) = Len(q)
           /\ \A i \in 1..Len(q) : Mapped(f, q)[i] = f[q[i]]
<1>1. DOMAIN q = 1..Len(q) /\ Len(q) \in Nat /\ \A i \in 1..Len(q) : f[q[i]] \in Nat
  OBVIOUS
<1> QED
  BY <1>1 DEF Mapped

LEMMA MappedAppend ==
    ASSUME NEW T, NEW q \in Seq(T), NEW f \in [T -> Nat], NEW e \in T
    PROVE  /\ SumOf(Mapped(f, Append(q, e))) = SumOf(Mapped(f, q)) + f[e]
           /\ SumOf(Mapped(f, q)) \in Nat /\ f[e] \in Nat
<1> DEFINE r == Append(q, e)
           M == Mapped(f, q)
           N == Mapped(f, r)
           A == Append(M, f[e])
<1>1. r \in Seq(T) /\ Len(r) = Len(q) + 1 /\ Len(q) \in Nat /\ f[e] \in Nat
      /\ \A i \in 1..Len(q) + 1 : r[i] = IF i <= Len(q) THEN q[i] ELSE e
  OBVIOUS
<1>2. M \in Seq(Nat) /\ Len(M) = Len(q) /\ \A i \in 1..Len(q) : M[i] = f[q[i]]
  BY MappedIs
<1> HIDE DEF r, M
<1>3. N \in Seq(Nat) /\ Len(N) = Len(q) + 1 /\ \A i \in 1..Len(q) + 1 : N[i] = f[r[i]]
  BY <1>1, MappedIs
<1> HIDE DEF N
<1>4. A \in Seq(Nat) /\ Len(A) = Len(q) + 1
      /\ \A i \in 1..Len(q) + 1 : A[i] = IF i <= Len(q) THEN M[i] ELSE f[e]
  BY ONLY <1>1, <1>2
<1> HIDE DEF A
<1>5. ASSUME NEW i \in 1..Len(q) + 1 PROVE N[i] = A[i]
  <2>1. CASE i <= Len(q)
    <3>1. i \in 1..Len(q)
      BY <1>1, <2>1
    <3>2. M[i] = f[q[i]] /\ r[i] = q[i] /\ N[i] = f[r[i]] /\ A[i] = M[i]
      BY <1>1, <1>2, <1>3, <1>4, <2>1, <3>1, Zenon
    <3> QED
      BY <3>2, Zenon
  <2>2. CASE ~(i <= Len(q))
    <3>1. r[i] = e /\ N[i] = f[r[i]] /\ A[i] = f[e]
      BY <1>1, <1>3, <1>4, <2>2, Zenon
    <3> QED
      BY <3>1, Zenon
  <2> QED
    BY <2>1, <2>2
<1>6. N = A
  BY <1>3, <1>4, <1>5, SameSeq
<1> QED
  BY <1>1, <1>2, <1>6, SumAppend DEF r, M, N, A

LEMMA MappedHead ==
    ASSUME NEW T, NEW q \in Seq(T), NEW f \in [T -> Nat], q # <<>>
    PROVE  /\ SumOf(Mapped(f, q)) = f[Head(q)] + SumOf(Mapped(f, Tail(q)))
           /\ f[Head(q)] \in Nat /\ SumOf(Mapped(f, Tail(q))) \in Nat
<1> DEFINE t == Tail(q)
           M == Mapped(f, q)
           N == Mapped(f, t)
<1>1. /\ t \in Seq(T) /\ Len(t) = Len(q) - 1 /\ Len(q) \in Nat /\ Len(q) > 0
      /\ Head(q) = q[1] /\ \A i \in 1..Len(q) - 1 : t[i] = q[i + 1]
  OBVIOUS
<1>2. M \in Seq(Nat) /\ Len(M) = Len(q) /\ \A i \in 1..Len(q) : M[i] = f[q[i]]
  BY MappedIs
<1> HIDE DEF t, M
<1>3. N \in Seq(Nat) /\ Len(N) = Len(t) /\ \A i \in 1..Len(t) : N[i] = f[t[i]]
  BY <1>1, MappedIs
<1> HIDE DEF N
<1>4. M # <<>> /\ Head(M) = f[Head(q)] /\ Tail(M) \in Seq(Nat) /\ Len(Tail(M)) = Len(t)
      /\ \A i \in 1..Len(t) : Tail(M)[i] = M[i + 1]
  BY <1>1, <1>2
<1>5. ASSUME NEW i \in 1..Len(t) PROVE Tail(M)[i] = N[i]
  <2>1. i \in 1..Len(q) - 1 /\ i + 1 \in 1..Len(q)
    BY <1>1
  <2>2. Tail(M)[i] = M[i + 1] /\ M[i + 1] = f[q[i + 1]] /\ N[i] = f[t[i]]
    BY <1>2, <1>3, <1>4, <2>1, Zenon
  <2>3. t[i] = q[i + 1]
    BY <1>1, <2>1, Zenon
  <2> QED
    BY <2>2, <2>3, Zenon
<1>6. Tail(M) = N
  BY <1>3, <1>4, <1>5, SameSeq
<1>7. SumOf(M) = Head(M) + SumOf(Tail(M)) /\ Head(M) \in Nat /\ SumOf(Tail(M)) \in Nat
  BY <1>2, <1>4, SumHead
<1> QED
  BY <1>4, <1>6, <1>7 DEF t, M, N

(* The bytes of the messages, the sizes of the reports, and the grants. *)
Length == [m \in Mail |-> Len(m.bytes)]

Size == [m \in Report |-> m.size]

SizesOf(reports) == SumOf([i \in DOMAIN reports |-> reports[i].size])

LEMMA LengthIs ==
    ASSUME NEW q \in Seq(Mail)
    PROVE  QueuedBytes(q) = SumOf(Mapped(Length, q)) /\ Length \in [Mail -> Nat]
<1>1. \A m \in Mail : Len(m.bytes) \in Nat
  BY DEF Mail, Text
<1>2. Length \in [Mail -> Nat] /\ \A m \in Mail : Length[m] = Len(m.bytes)
  BY <1>1 DEF Length
<1> DEFINE B == [i \in DOMAIN q |-> q[i].bytes]
<1>3. \A i \in DOMAIN q : q[i] \in Mail
  OBVIOUS
<1>4. DOMAIN B = DOMAIN q /\ \A i \in DOMAIN q : B[i] = q[i].bytes
  OBVIOUS
<1> HIDE DEF B
<1>5. [i \in DOMAIN B |-> Len(B[i])] = Mapped(Length, q)
  BY <1>2, <1>3, <1>4 DEF Mapped
<1> QED
  BY <1>2, <1>5 DEF QueuedBytes, Bytes, B

LEMMA SizeIs ==
    ASSUME NEW q \in Seq(Report)
    PROVE  SizesOf(q) = SumOf(Mapped(Size, q)) /\ Size \in [Report -> Nat]
<1>1. Size \in [Report -> Nat] /\ \A m \in Report : Size[m] = m.size
  BY DEF Size, Report
<1>2. \A i \in DOMAIN q : q[i] \in Report
  OBVIOUS
<1>3. [i \in DOMAIN q |-> q[i].size] = Mapped(Size, q)
  BY <1>1, <1>2 DEF Mapped
<1> QED
  BY <1>1, <1>3, Zenon DEF SizesOf

LEMMA QueuedAppend ==
    ASSUME NEW q \in Seq(Mail), NEW m \in Mail
    PROVE  /\ QueuedBytes(Append(q, m)) = QueuedBytes(q) + Len(m.bytes)
           /\ QueuedBytes(q) \in Nat /\ Len(m.bytes) \in Nat
<1>1. Append(q, m) \in Seq(Mail)
  OBVIOUS
<1>2. Length[m] = Len(m.bytes)
  BY DEF Length
<1>3. Length \in [Mail -> Nat]
  BY LengthIs
<1>4. /\ SumOf(Mapped(Length, Append(q, m))) = SumOf(Mapped(Length, q)) + Length[m]
      /\ SumOf(Mapped(Length, q)) \in Nat /\ Length[m] \in Nat
  BY <1>3, MappedAppend
<1> QED
  BY <1>1, <1>2, <1>4, LengthIs, Zenon

LEMMA QueuedHead ==
    ASSUME NEW q \in Seq(Mail), q # <<>>
    PROVE  /\ QueuedBytes(q) = Len(Head(q).bytes) + QueuedBytes(Tail(q))
           /\ QueuedBytes(Tail(q)) \in Nat /\ Len(Head(q).bytes) \in Nat
<1>1. Tail(q) \in Seq(Mail) /\ Head(q) \in Mail
  OBVIOUS
<1>2. Length[Head(q)] = Len(Head(q).bytes)
  BY <1>1 DEF Length
<1> QED
  BY <1>1, <1>2, LengthIs, MappedHead

LEMMA SizesOfAppend ==
    ASSUME NEW q \in Seq(Report), NEW m \in Report
    PROVE  SizesOf(Append(q, m)) = SizesOf(q) + m.size /\ SizesOf(q) \in Nat /\ m.size \in Nat
<1>1. Append(q, m) \in Seq(Report)
  OBVIOUS
<1>2. Size[m] = m.size
  BY DEF Size
<1>3. Size \in [Report -> Nat]
  BY SizeIs
<1>4. /\ SumOf(Mapped(Size, Append(q, m))) = SumOf(Mapped(Size, q)) + Size[m]
      /\ SumOf(Mapped(Size, q)) \in Nat /\ Size[m] \in Nat
  BY <1>3, MappedAppend
<1> QED
  BY <1>1, <1>2, <1>4, SizeIs, Zenon

LEMMA SizesOfHead ==
    ASSUME NEW q \in Seq(Report), q # <<>>
    PROVE  /\ SizesOf(q) = Head(q).size + SizesOf(Tail(q))
           /\ SizesOf(Tail(q)) \in Nat /\ Head(q).size \in Nat
<1>1. Tail(q) \in Seq(Report) /\ Head(q) \in Report
  OBVIOUS
<1>2. Size[Head(q)] = Head(q).size
  BY <1>1 DEF Size
<1> QED
  BY <1>1, <1>2, SizeIs, MappedHead

LEMMA AmountBounds ==
    ASSUME NEW q \in Seq(Adjusting), NEW k \in DOMAIN q
    PROVE  q[k].amount <= Amount(q) /\ q[k].amount \in Nat
<1> DEFINE L == [i \in DOMAIN q |-> q[i].amount]
<1>1. /\ k \in 1..Len(q) /\ Len(q) \in Nat /\ DOMAIN q = 1..Len(q)
      /\ \A i \in 1..Len(q) : q[i].amount \in Nat
  BY AmountIs
<1>2. L \in Seq(Nat) /\ Len(L) = Len(q) /\ L[k] = q[k].amount
  BY <1>1
<1> HIDE DEF L
<1>3. L[k] <= SumOf(L)
  BY <1>1, <1>2, SumBounds
<1> QED
  BY <1>1, <1>2, <1>3 DEF Amount, L

-----------------------------------------------------------------------------
(* What the application believes to have left, has queued, or is told. *)

Claims ==
    (app.window_size + QueuedBytes(mailbox)) + (SumOf(adjusted) + SizesOf(toSsh))

LEMMA ClaimsAre ==
    ASSUME Copying
    PROVE  /\ app.window_size \in Nat /\ QueuedBytes(mailbox) \in Nat
           /\ SumOf(adjusted) \in Nat /\ SizesOf(toSsh) \in Nat
           /\ mailbox \in Seq(Mail) /\ adjusted \in Seq(Nat) /\ toSsh \in Seq(Report)
           /\ app \in App /\ app.taken \in Nat /\ tunnel \in Loops
<1>1. /\ mailbox \in Seq(Mail) /\ adjusted \in Seq(Nat) /\ toSsh \in Seq(Report)
      /\ app \in App /\ tunnel \in Loops
  BY DEF Copying, Giving
<1>2. app.window_size \in Nat /\ app.taken \in Nat
  BY <1>1, TotalIs DEF App
<1>3. QueuedBytes(mailbox) \in Nat
  <2>1. Mapped(Length, mailbox) \in Seq(Nat)
    BY <1>1, LengthIs, MappedIs
  <2> QED
    BY <1>1, <2>1, LengthIs, SumType
<1>4. SizesOf(toSsh) \in Nat
  <2>1. Mapped(Size, toSsh) \in Seq(Nat)
    BY <1>1, SizeIs, MappedIs
  <2> QED
    BY <1>1, <2>1, SizeIs, SumType
<1> QED
  BY <1>1, <1>2, <1>3, <1>4, SumType

(* A window, messages, sizes reported to a channel and sizes told to a loop. *)
LEMMA ClaimsStay ==
    ASSUME NEW w \in Nat, NEW q \in Nat, NEW s \in Nat, NEW t \in Nat, NEW n \in Nat
    PROVE  /\ ((w - n) + (q + n)) + (s + t) <= (w + q) + (s + t)
           /\ ((w + n) + q) + (s + t) <= (w + q) + ((n + s) + t)
           /\ (n + q) + (s + t) <= (w + q) + ((n + s) + t)
           /\ (n + q) + (s + t) <= (w + q) + (s + (n + t))
           /\ (w + q) + (s + (t + n)) <= (w + q) + ((n + s) + t)
           /\ (w + q) + (s + t) <= (w + q) + ((n + s) + t)
           /\ (w + q) + (s + t) <= (w + q) + (s + (n + t))
           /\ (w + q) + (s + t) <= (w + (n + q)) + (s + t)
OBVIOUS

(* The next bytes, charged to the window. *)
LEMMA WritesClaims ==
    ASSUME Copying, NEW n \in Nat, app.taken + n <= Total,
           mailbox' = Append(mailbox, Data(app.taken, n)),
           app'.window_size = app.window_size - n,
           UNCHANGED <<adjusted, toSsh>>
    PROVE  Claims' <= Claims
<1>1. /\ app.window_size \in Nat /\ QueuedBytes(mailbox) \in Nat
      /\ SumOf(adjusted) \in Nat /\ SizesOf(toSsh) \in Nat
      /\ mailbox \in Seq(Mail) /\ app.taken \in Nat
  BY ClaimsAre
<1>2. Data(app.taken, n) \in Mail /\ Len(Data(app.taken, n).bytes) = n
  BY <1>1, DataIs
<1>3. QueuedBytes(mailbox') = QueuedBytes(mailbox) + n
  BY <1>1, <1>2, QueuedAppend
<1> DEFINE w == app.window_size
           q == QueuedBytes(mailbox)
           s == SumOf(adjusted)
           t == SizesOf(toSsh)
<1>4. Claims' = ((w - n) + (q + n)) + (s + t) /\ Claims = (w + q) + (s + t)
  BY <1>3, Zenon DEF Claims
<1> HIDE DEF w, q, s, t
<1>5. ((w - n) + (q + n)) + (s + t) <= (w + q) + (s + t)
  BY <1>1, ClaimsStay DEF w, q, s, t
<1> QED
  BY <1>4, <1>5

(* A message of no bytes, or none. *)
LEMMA SameClaims ==
    ASSUME Copying, app'.window_size = app.window_size,
           mailbox' = mailbox \/ mailbox' = Append(mailbox, Eof),
           UNCHANGED <<adjusted, toSsh>>
    PROVE  Claims' <= Claims
<1>1. /\ app.window_size \in Nat /\ QueuedBytes(mailbox) \in Nat
      /\ SumOf(adjusted) \in Nat /\ SizesOf(toSsh) \in Nat /\ mailbox \in Seq(Mail)
  BY ClaimsAre
<1>2. QueuedBytes(mailbox') = QueuedBytes(mailbox)
  <2>1. Eof \in Mail /\ Len(Eof.bytes) = 0
    BY EofIs DEF Eof
  <2>2. QueuedBytes(Append(mailbox, Eof)) = QueuedBytes(mailbox) + 0
    BY <1>1, <2>1, QueuedAppend
  <2>3. \A k \in Nat : k + 0 = k
    OBVIOUS
  <2> QED
    BY <1>1, <2>2, <2>3, Zenon
<1>3. Claims' = Claims
  BY <1>2, Zenon DEF Claims
<1>4. Claims \in Nat
  BY <1>1 DEF Claims
<1> QED
  BY <1>3, <1>4

LEMMA ChargedClaims ==
    ASSUME Copying, NEW n \in Nat, Charged(n), UNCHANGED <<adjusted, toSsh>>
    PROVE  Claims' <= Claims
BY WritesClaims DEF Charged, Writes

LEMMA AppStepsClaims ==
    ASSUME Copying, AppSteps, app.sender = "client", toSsh' = toSsh
    PROVE  Claims' <= Claims
<1>1. /\ app.window_size \in Nat /\ QueuedBytes(mailbox) \in Nat
      /\ SumOf(adjusted) \in Nat /\ SizesOf(toSsh) \in Nat
      /\ mailbox \in Seq(Mail) /\ adjusted \in Seq(Nat) /\ app \in App
  BY ClaimsAre
<1> DEFINE w == app.window_size
           q == QueuedBytes(mailbox)
           s == SumOf(Tail(adjusted))
           t == SizesOf(toSsh)
           n == Head(adjusted)
<1>2. adjusted # <<>> => /\ n \in Nat /\ s \in Nat
                         /\ Claims = (w + q) + ((n + s) + t)
  BY <1>1, SumHead, Zenon DEF Claims
<1>3. CASE AppSend
  <2>1. adjusted' = adjusted
    BY <1>3, Zenon DEF AppSend
  <2>2. \E k \in Nat : Charged(k)
    BY <1>3, AppSendWrites DEF Copying
  <2> QED
    BY <2>1, <2>2, ChargedClaims
<1>4. CASE AppResume
  <2>1. \/ /\ adjusted # <<>> /\ adjusted' = Tail(adjusted)
           /\ app' = [app EXCEPT !.phase = "sending", !.window_size = n]
        \/ app' = [app EXCEPT !.phase = "sending"] /\ adjusted' = adjusted
    BY <1>4 DEF AppResume
  <2>2. mailbox' = mailbox
    BY <1>4 DEF AppResume
  <2>3. CASE /\ adjusted # <<>> /\ adjusted' = Tail(adjusted)
             /\ app' = [app EXCEPT !.phase = "sending", !.window_size = n]
    <3>1. app'.window_size = n
      BY <1>1, <2>3 DEF App
    <3>2. Claims' = (n + q) + (s + t)
      BY <2>2, <2>3, <3>1, Zenon DEF Claims
    <3> HIDE DEF w, q, s, t, n
    <3>3. (n + q) + (s + t) <= (w + q) + ((n + s) + t)
      BY <1>1, <1>2, <2>3, ClaimsStay DEF w, q, t
    <3> QED
      BY <1>2, <2>3, <3>2, <3>3
  <2>4. CASE app' = [app EXCEPT !.phase = "sending"] /\ adjusted' = adjusted
    <3>1. app'.window_size = app.window_size
      BY <1>1, <2>4 DEF App
    <3> QED
      BY <2>2, <2>4, <3>1, SameClaims
  <2> QED
    BY <2>1, <2>3, <2>4
<1>5. CASE AppFails \/ AppCall
  <2>1. app'.window_size = app.window_size /\ mailbox' = mailbox /\ adjusted' = adjusted
    BY <1>1, <1>5 DEF AppFails, AppCall, App
  <2> QED
    BY <2>1, SameClaims
<1>6. CASE AppWait
  <2>1. /\ adjusted # <<>> /\ adjusted' = Tail(adjusted) /\ mailbox' = mailbox
        /\ app' = [app EXCEPT !.window_size = @ + n]
    BY <1>6 DEF AppWait
  <2>2. app'.window_size = w + n
    BY <1>1, <2>1 DEF App
  <2>3. Claims' = ((w + n) + q) + (s + t)
    BY <2>1, <2>2, Zenon DEF Claims
  <2> HIDE DEF w, q, s, t, n
  <2>4. ((w + n) + q) + (s + t) <= (w + q) + ((n + s) + t)
    BY <1>1, <1>2, <2>1, ClaimsStay DEF w, q, t
  <2> QED
    BY <1>2, <2>1, <2>3, <2>4
<1>7. CASE HandleData
  BY <1>7 DEF HandleData
<1>8. CASE AppEof
  <2>1. /\ app'.window_size = app.window_size /\ mailbox' = Append(mailbox, Eof)
        /\ adjusted' = adjusted
    BY <1>1, <1>8 DEF AppEof, App
  <2> QED
    BY <2>1, SameClaims
<1> QED
  BY <1>3, <1>4, <1>5, <1>6, <1>7, <1>8 DEF AppSteps

LEMMA ToldClaims ==
    ASSUME toSsh \in Seq(Report), NEW t, NEW m \in Report, ToSsh(t, m)
    PROVE  SizesOf(toSsh') = SizesOf(toSsh) + m.size \/ SizesOf(toSsh') = SizesOf(toSsh)
BY SizesOfAppend DEF ToSsh

LEMMA TunnelStepsClaims == ASSUME Copying, TunnelSteps PROVE Claims' <= Claims
<1>1. /\ app.window_size \in Nat /\ QueuedBytes(mailbox) \in Nat
      /\ SumOf(adjusted) \in Nat /\ SizesOf(toSsh) \in Nat
      /\ mailbox \in Seq(Mail) /\ adjusted \in Seq(Nat) /\ toSsh \in Seq(Report)
      /\ app \in App
  BY ClaimsAre
<1> DEFINE w == app.window_size
           q == QueuedBytes(mailbox)
<1>2. CASE CopyToSsh
  <2>1. adjusted' = adjusted /\ toSsh' = toSsh
    BY <1>2, Zenon DEF CopyToSsh
  <2>2. \/ \E k \in Nat : Charged(k)
        \/ Finishes /\ app'.window_size = app.window_size
    BY <1>2, CopyMoves, Zenon
  <2>3. ASSUME Finishes, app'.window_size = app.window_size PROVE Claims' <= Claims
    BY <2>1, <2>3, SameClaims DEF Finishes
  <2>4. ASSUME NEW k \in Nat, Charged(k) PROVE Claims' <= Claims
    BY <2>1, <2>4, ChargedClaims
  <2> QED
    BY <2>2, <2>3, <2>4
<1>3. CASE Run \/ CopyFails
  <2>1. /\ app'.window_size = app.window_size /\ mailbox' = mailbox
        /\ adjusted' = adjusted /\ toSsh' = toSsh
    BY <1>1, <1>3 DEF Run, CopyFails, App, tunnelVars
  <2> QED
    BY <2>1, SameClaims
<1>4. CASE CopyResumes
  <2> DEFINE s == SumOf(adjusted)
             t == SizesOf(Tail(toSsh))
             n == Head(toSsh).size
  <2>1. mailbox' = mailbox /\ adjusted' = adjusted
    BY <1>4, Zenon DEF CopyResumes
  <2>2. \/ /\ toSsh # <<>> /\ toSsh' = Tail(toSsh)
           /\ \/ app' = [app EXCEPT !.phase = "sending", !.window_size = n]
              \/ app' = app
        \/ app' = [app EXCEPT !.phase = "sending"] /\ toSsh' = toSsh
    BY <1>4, Zenon DEF CopyResumes
  <2>3. CASE toSsh # <<>> /\ toSsh' = Tail(toSsh) /\ (app'.window_size = n \/ app' = app)
    <3>1. n \in Nat /\ t \in Nat /\ SizesOf(toSsh) = n + t
      BY <1>1, <2>3, SizesOfHead
    <3>2. Claims = (w + q) + (s + (n + t))
      BY <3>1, Zenon DEF Claims
    <3>3. Claims' = (n + q) + (s + t) \/ Claims' = (w + q) + (s + t)
      BY <2>1, <2>3, Zenon DEF Claims
    <3> HIDE DEF w, q, s, t, n
    <3>4. /\ (n + q) + (s + t) <= (w + q) + (s + (n + t))
          /\ (w + q) + (s + t) <= (w + q) + (s + (n + t))
      BY <1>1, <3>1, ClaimsStay DEF w, q, s
    <3> QED
      BY <3>2, <3>3, <3>4
  <2>4. CASE app' = [app EXCEPT !.phase = "sending"] /\ toSsh' = toSsh
    <3>1. app'.window_size = app.window_size
      BY <1>1, <2>4 DEF App
    <3> QED
      BY <2>1, <2>4, <3>1, SameClaims
  <2>5. app' = [app EXCEPT !.phase = "sending", !.window_size = n] => app'.window_size = n
    BY <1>1 DEF App
  <2> QED
    BY <2>2, <2>3, <2>4, <2>5, Zenon
<1>5. CASE ReceiveAdjusted
  <2> DEFINE s == SumOf(Tail(adjusted))
             t == SizesOf(toSsh)
             n == Head(adjusted)
  <2>1. /\ adjusted # <<>> /\ adjusted' = Tail(adjusted) /\ mailbox' = mailbox /\ app' = app
        /\ ToSsh(tunnel, NewSize(n))
    BY <1>5, Zenon DEF ReceiveAdjusted
  <2>2. n \in Nat /\ s \in Nat /\ SumOf(adjusted) = n + s
    BY <1>1, <2>1, SumHead
  <2>3. NewSize(n) \in Report /\ NewSize(n).size = n
    BY <2>2, ReportIs DEF NewSize
  <2>4. SizesOf(toSsh') = t + n \/ SizesOf(toSsh') = t
    BY <1>1, <2>1, <2>3, ToldClaims
  <2>5. Claims = (w + q) + ((n + s) + t)
    BY <2>2, Zenon DEF Claims
  <2>6. Claims' = (w + q) + (s + (t + n)) \/ Claims' = (w + q) + (s + t)
    BY <2>1, <2>4, Zenon DEF Claims
  <2> HIDE DEF w, q, s, t, n
  <2>7. /\ (w + q) + (s + (t + n)) <= (w + q) + ((n + s) + t)
        /\ (w + q) + (s + t) <= (w + q) + ((n + s) + t)
    BY <1>1, <2>2, ClaimsStay DEF w, q, t
  <2> QED
    BY <2>5, <2>6, <2>7
<1>6. CASE ReceiveEof
  <2>1. /\ mailbox' = mailbox /\ app' = app /\ adjusted' = adjusted
        /\ (\E u : ToSsh(u, ServerEof)) \/ toSsh' = toSsh
    BY <1>6, Zenon DEF ReceiveEof
  <2>2. ServerEof \in Report /\ ServerEof.size = 0
    BY ReportIs DEF ServerEof
  <2>3. SizesOf(toSsh') = SizesOf(toSsh)
    <3>1. ASSUME NEW u, ToSsh(u, ServerEof) PROVE SizesOf(toSsh') = SizesOf(toSsh)
      <4>1. \/ SizesOf(toSsh') = SizesOf(toSsh) + 0
            \/ SizesOf(toSsh') = SizesOf(toSsh)
        BY <1>1, <2>2, <3>1, ToldClaims
      <4>2. \A k \in Nat : k + 0 = k
        OBVIOUS
      <4> QED
        BY <1>1, <4>1, <4>2, Zenon
    <3> QED
      BY <2>1, <3>1, Zenon
  <2>4. Claims' = Claims
    BY <2>1, <2>3, Zenon DEF Claims
  <2> QED
    BY <1>1, <2>4 DEF Claims
<1>7. CASE ReceiveData \/ ReceiveGone \/ CopyToTcp
  <2>1. /\ app' = app /\ mailbox' = mailbox /\ adjusted' = adjusted /\ toSsh' = toSsh
    BY <1>7, Zenon DEF ReceiveData, ReceiveGone, CopyToTcp, vars
  <2> QED
    BY <2>1, SameClaims
<1> QED
  BY <1>2, <1>3, <1>4, <1>5, <1>6, <1>7 DEF TunnelSteps

(* No more than one grant is on its way. *)
Single(q) == \A i \in DOMAIN q : q[i].amount \in {0, Amount(q)}

LEMMA SingleTail ==
    ASSUME NEW q \in Seq(Adjusting), q # <<>>, Single(q)
    PROVE  /\ Single(Tail(q)) /\ Amount(Tail(q)) \in Nat /\ Head(q).amount \in Nat
           /\ Amount(q) = Head(q).amount + Amount(Tail(q))
           /\ Head(q).amount # 0 => Amount(Tail(q)) = 0
<1> DEFINE t == Tail(q)
           h == Head(q).amount
<1>1. /\ t \in Seq(Adjusting) /\ Head(q) \in Adjusting /\ Head(q) = q[1]
      /\ DOMAIN t = 1..Len(t) /\ 1 \in DOMAIN q
      /\ \A i \in DOMAIN t : i + 1 \in DOMAIN q /\ t[i] = q[i + 1]
  OBVIOUS
<1>2. h \in Nat /\ Amount(q) = h + Amount(t) /\ Amount(t) \in Nat
  BY <1>1, AmountHead, AmountIs
<1>3. h = 0 \/ h = Amount(q)
  BY <1>1 DEF Single
<1>4. h # 0 => Amount(t) = 0
  BY <1>2, <1>3
<1>5. ASSUME NEW i \in DOMAIN t PROVE t[i].amount \in {0, Amount(t)}
  <2>1. t[i].amount = 0 \/ t[i].amount = Amount(q)
    BY <1>1, <1>5 DEF Single
  <2>2. t[i].amount <= Amount(t) /\ t[i].amount \in Nat
    BY <1>1, AmountBounds
  <2>3. CASE h = 0
    <3>1. Amount(q) = Amount(t)
      BY <1>2, <2>3
    <3> QED
      BY <2>1, <3>1
  <2>4. CASE h # 0
    <3>1. Amount(t) = 0
      BY <1>4, <2>4
    <3> QED
      BY <2>2, <3>1
  <2> QED
    BY <2>3, <2>4
<1> QED
  BY <1>2, <1>4, <1>5 DEF Single

LEMMA SingleAppend ==
    ASSUME NEW q \in Seq(Adjusting), NEW e \in Adjusting, Single(q),
           e.amount = 0 \/ Amount(q) = 0
    PROVE  Single(Append(q, e)) /\ Amount(Append(q, e)) = Amount(q) + e.amount
<1> DEFINE r == Append(q, e)
<1>1. /\ DOMAIN r = 1..Len(q) + 1 /\ Len(q) \in Nat /\ DOMAIN q = 1..Len(q)
      /\ \A i \in 1..Len(q) : r[i] = q[i]
      /\ r[Len(q) + 1] = e
  OBVIOUS
<1>2. Amount(r) = Amount(q) + e.amount /\ Amount(q) \in Nat /\ e.amount \in Nat
  <2>1. Amount(q \o q) = Amount(q) + Amount(q) /\ Amount(q) \in Nat
    BY AmountConcat
  <2> QED
    BY <2>1, AmountAppend, AmountIs
<1> HIDE DEF r
<1>3. ASSUME NEW i \in 1..Len(q) + 1 PROVE r[i].amount \in {0, Amount(r)}
  <2>1. CASE i \in 1..Len(q)
    <3>1. r[i] = q[i] /\ q[i].amount \in {0, Amount(q)}
      BY <1>1, <2>1 DEF Single
    <3>2. Amount(q) = 0 \/ Amount(q) = Amount(r)
      BY <1>2
    <3> QED
      BY <3>1, <3>2
  <2>2. CASE i = Len(q) + 1
    <3>1. r[i] = e
      BY <1>1, <2>2
    <3>2. e.amount = 0 \/ e.amount = Amount(r)
      BY <1>2
    <3> QED
      BY <3>1, <3>2
  <2> QED
    BY <1>1, <2>1, <2>2
<1> QED
  BY <1>1, <1>2, <1>3 DEF Single, r

(* The session's window covers all claims, and is empty while it is granted *)
(* anew.                                                                    *)
Covering ==
    /\ ~queued
    /\ Claims <= chan.recipient_window_size
    /\ Amount(adjusts) > 0 => chan.recipient_window_size = 0
    /\ Single(adjusts)

(* A window is granted anew only when it is used up. *)
OnlyUsedUp ==
    ReceiverData /\ adjusts' # adjusts => Len(Head(wire)) = peer.sender_window_size

(* What is left of the invariant for a step of a session. *)
Covered ==
    /\ chan.pending_data = <<>>
    /\ Claims <= chan.recipient_window_size
    /\ Amount(adjusts) > 0 => chan.recipient_window_size = 0
    /\ Single(adjusts)

LEMMA CoveringIs == ASSUME Covering, Lined PROVE Covered
BY NothingWaits DEF Covering, Covered

(* The claims shrink with the queue. *)
LEMMA MessageTaken ==
    ASSUME Copying, mailbox # <<>>, mailbox' = Tail(mailbox),
           UNCHANGED <<app, adjusted, toSsh>>
    PROVE  /\ Claims = Len(Head(mailbox).bytes) + Claims' /\ Claims' \in Nat
           /\ Len(Head(mailbox).bytes) \in Nat
<1>1. /\ app.window_size \in Nat /\ SumOf(adjusted) \in Nat /\ SizesOf(toSsh) \in Nat
      /\ mailbox \in Seq(Mail)
  BY ClaimsAre
<1> DEFINE w == app.window_size
           q == QueuedBytes(Tail(mailbox))
           s == SumOf(adjusted)
           t == SizesOf(toSsh)
           n == Len(Head(mailbox).bytes)
<1>2. QueuedBytes(mailbox) = n + q /\ n \in Nat /\ q \in Nat
  BY <1>1, QueuedHead
<1>3. Claims = (w + (n + q)) + (s + t) /\ Claims' = (w + q) + (s + t)
  BY <1>2, Zenon DEF Claims
<1> HIDE DEF w, q, s, t, n
<1>4. w \in Nat /\ s \in Nat /\ t \in Nat
  BY <1>1 DEF w, s, t
<1>5. (w + (n + q)) + (s + t) = n + ((w + q) + (s + t)) /\ (w + q) + (s + t) \in Nat
  BY ONLY <1>2, <1>4
<1> QED
  BY <1>2, <1>3, <1>5, Zenon DEF n

LEMMA SessionDataCovered ==
    ASSUME Copying, Carrying, Covered, SessionData, toSsh' = toSsh PROVE Covered'
<1> DEFINE w == chan.recipient_window_size
           buf == Head(mailbox).bytes
           now == Slice(w, buf, 0)
           rest == IF chan.pending_data # <<>> THEN <<[buf |-> buf, from |-> 0]>>
                   ELSE IF Len(now) < Len(buf) THEN <<[buf |-> buf, from |-> Len(now)]>>
                   ELSE <<>>
           sent == IF chan.pending_data # <<>> THEN <<>> ELSE now
<1>1. /\ w \in Nat /\ chan.pending_data = <<>>
      /\ chan = [recipient_window_size |-> w, open |-> chan.open,
                 alive |-> chan.alive, pending_data |-> chan.pending_data]
  BY CarryingIs DEF Covered
<1>2. /\ mailbox # <<>> /\ mailbox' = Tail(mailbox)
      /\ UNCHANGED <<app, adjusted, adjusts>>
      /\ chan' = [chan EXCEPT !.recipient_window_size = @ - Len(sent),
                              !.pending_data = Queue(@, rest)]
  BY Zenon DEF SessionData, Sent
<1>3. Claims = Len(buf) + Claims' /\ Claims' \in Nat /\ Len(buf) \in Nat
  BY <1>2, MessageTaken
<1>4. Len(buf) <= w
  <2>1. Claims <= w
    BY DEF Covered
  <2> HIDE DEF w, buf
  <2> QED
    BY <1>1, <1>3, <2>1
<1>5. buf \in Text
  BY <1>2, MailHead DEF Mail, Copying
<1>6. now = buf
  <2> HIDE DEF w, buf
  <2>1. SliceEnd(w, buf) = Len(buf)
    BY <1>1, <1>3, <1>4 DEF SliceEnd
  <2>2. SubSeq(buf, 1, Len(buf)) = buf
    BY <1>5 DEF Text
  <2> QED
    BY <2>1, <2>2 DEF Slice
<1>7. sent = buf /\ rest = <<>>
  BY <1>1, <1>3, <1>6
<1> HIDE DEF sent, rest, now, buf, w
<1>8. chan'.recipient_window_size = w - Len(buf) /\ chan'.pending_data = <<>>
  <2>1. Queue(<<>>, <<>>) = <<>>
    BY DEF Queue
  <2> QED
    BY <1>1, <1>2, <1>7, <2>1 DEF w
<1>9. Claims' <= w - Len(buf)
  <2>1. Claims <= w
    BY DEF Covered, w
  <2> QED
    BY <1>1, <1>3, <2>1
<1>10. w = 0 => w - Len(buf) = 0
  BY <1>1, <1>3, <1>4
<1> QED
  BY <1>2, <1>8, <1>9, <1>10 DEF Covered, w

LEMMA DropCovered ==
    ASSUME Copying, Carrying, Covered, SessionEof \/ SessionDrops, toSsh' = toSsh
    PROVE  Covered'
<1>1. /\ mailbox # <<>> /\ mailbox' = Tail(mailbox)
      /\ UNCHANGED <<app, adjusted, adjusts, chan>>
  BY Zenon DEF SessionEof, SessionDrops
<1> DEFINE n == Len(Head(mailbox).bytes)
<1>2. Claims = n + Claims' /\ Claims' \in Nat /\ n \in Nat
  BY <1>1, MessageTaken
<1>3. Claims <= chan.recipient_window_size /\ chan.recipient_window_size \in Nat
  BY CarryingIs DEF Covered
<1> HIDE DEF n
<1>4. Claims' <= chan.recipient_window_size
  BY <1>2, <1>3
<1> QED
  BY <1>1, <1>4 DEF Covered

LEMMA SessionAdjustCovered ==
    ASSUME Copying, Carrying, Granting, Covered, SessionAdjust, toSsh' = toSsh
    PROVE  Covered'
<1> DEFINE v == chan.recipient_window_size
           a == Head(adjusts).amount
           w == v + a
           f == Flush(w)
<1>1. /\ v \in Nat /\ chan.pending_data = <<>> /\ adjusts \in Seq(Adjusting)
      /\ chan = [recipient_window_size |-> v, open |-> chan.open,
                 alive |-> chan.alive, pending_data |-> chan.pending_data]
      /\ Claims <= v /\ Single(adjusts)
  BY CarryingIs DEF Covered
<1>2. /\ adjusts # <<>> /\ ~Head(adjusts).close /\ adjusts' = Tail(adjusts)
      /\ UNCHANGED <<app, mailbox>>
      /\ \/ f.panic
         \/ /\ chan' = [chan EXCEPT !.recipient_window_size = f.window,
                                    !.pending_data = f.left]
            /\ adjusted' = Append(adjusted, f.window) \/ adjusted' = adjusted
  BY Zenon DEF SessionAdjust
<1>3. a \in Nat /\ a > 0
  <2>1. Head(adjusts) \in Grants
    <3>1. adjusts \in Seq(Grants)
      BY DEF Granting
    <3> QED
      BY ONLY <1>2, <3>1
  <2> QED
    BY <1>2, <2>1 DEF Grants, Adjusting
<1> HIDE DEF a
<1>4. Amount(adjusts) = a + Amount(Tail(adjusts)) /\ Amount(Tail(adjusts)) = 0
      /\ Single(Tail(adjusts))
  <2>1. /\ Single(Tail(adjusts)) /\ Amount(Tail(adjusts)) \in Nat
        /\ Amount(adjusts) = a + Amount(Tail(adjusts))
        /\ a # 0 => Amount(Tail(adjusts)) = 0
    BY <1>1, <1>2, SingleTail DEF a
  <2> QED
    BY <1>3, <2>1
<1>5. v = 0
  BY <1>3, <1>4 DEF Covered
<1> HIDE DEF v
<1>6. w \in Nat /\ w = a
  BY <1>3, <1>5
<1>7. f = Unflushed(w)
  BY <1>1, <1>6, NothingToFlush
<1> HIDE DEF w, f
<1>8. ~f.panic /\ f.window = w /\ f.left = <<>>
  BY <1>7 DEF Unflushed
<1>9. chan'.recipient_window_size = w /\ chan'.pending_data = <<>>
  BY <1>1, <1>2, <1>8
<1>10. Claims' <= w
  <2>1. /\ app.window_size \in Nat /\ QueuedBytes(mailbox) \in Nat
        /\ SumOf(adjusted) \in Nat /\ SizesOf(toSsh) \in Nat /\ adjusted \in Seq(Nat)
    BY ClaimsAre
  <2> DEFINE x == app.window_size + QueuedBytes(mailbox)
             s == SumOf(adjusted)
             t == SizesOf(toSsh)
  <2>2. x \in Nat /\ s \in Nat /\ t \in Nat
    BY <2>1
  <2>3. SumOf(adjusted') = s + w \/ SumOf(adjusted') = s
    BY <1>2, <1>6, <1>8, <2>1, SumAppend
  <2>4. Claims = x + (s + t) /\ (Claims' = x + ((s + w) + t) \/ Claims' = x + (s + t))
    BY <1>2, <2>3, Zenon DEF Claims
  <2>5. x + (s + t) <= 0
    BY <1>1, <1>5, <2>4
  <2> HIDE DEF x, s, t
  <2>6. x + ((s + w) + t) <= w /\ x + (s + t) <= w
    BY ONLY <1>6, <2>2, <2>5
  <2> QED
    BY <2>4, <2>6
<1>11. Amount(adjusts') = 0 /\ Single(adjusts')
  BY <1>2, <1>4
<1> QED
  BY <1>9, <1>10, <1>11 DEF Covered

LEMMA LostCovered ==
    ASSUME Copying, Carrying, Covered, SessionMisses \/ SessionClosed, toSsh' = toSsh
    PROVE  Covered'
<1>1. /\ adjusts # <<>> /\ adjusts' = Tail(adjusts) /\ UNCHANGED <<app, mailbox, adjusted>>
      /\ chan' = [chan EXCEPT !.alive = FALSE] \/ chan' = [chan EXCEPT !.open = FALSE]
  BY DEF SessionMisses, SessionClosed
<1>2. /\ chan'.recipient_window_size = chan.recipient_window_size
      /\ chan'.pending_data = chan.pending_data
  BY <1>1, CarryingIs
<1>3. Claims' = Claims
  BY <1>1, Zenon DEF Claims
<1>4. /\ Single(adjusts') /\ Amount(adjusts') \in Nat
      /\ Amount(adjusts') > 0 => Amount(adjusts) > 0
  <2>1. adjusts \in Seq(Adjusting) /\ Single(adjusts)
    BY CarryingIs DEF Covered
  <2>2. /\ Single(Tail(adjusts)) /\ Amount(Tail(adjusts)) \in Nat /\ Head(adjusts).amount \in Nat
        /\ Amount(adjusts) = Head(adjusts).amount + Amount(Tail(adjusts))
    BY <1>1, <2>1, SingleTail
  <2> DEFINE h == Head(adjusts).amount
             r == Amount(Tail(adjusts))
  <2> HIDE DEF h, r
  <2>3. h \in Nat /\ r \in Nat /\ Amount(adjusts) = h + r
    BY <2>2 DEF h, r
  <2>4. r > 0 => Amount(adjusts) > 0
    BY ONLY <2>3
  <2> QED
    BY <1>1, <2>2, <2>4, Zenon DEF r
<1> QED
  BY <1>2, <1>3, <1>4 DEF Covered

(* Used up means that nothing of the window is left anywhere. *)
LEMMA ReceiverDataCovered ==
    ASSUME Copying, Carrying, Covered, ReceiverData, OnlyUsedUp, toSsh' = toSsh
    PROVE  Covered'
<1> DEFINE n == Len(Head(wire))
           t == Bytes(Tail(wire))
           w == chan.recipient_window_size
           a == Amount(adjusts)
           all == peer.sender_window_size
           e == Adjust(Grant(Received(all, n), peer.target))
<1>1. /\ wire # <<>> /\ UNCHANGED <<app, mailbox, adjusted, chan>>
      /\ adjusts' = adjusts
            \/ (NeedsAdjust(Received(all, n), peer.target) /\ adjusts' = Append(adjusts, e))
  BY Zenon DEF ReceiverData
<1>2. Claims' = Claims
  BY <1>1, Zenon DEF Claims
<1>3. CASE adjusts' = adjusts
  BY <1>1, <1>2, <1>3 DEF Covered
<1>4. CASE /\ adjusts' # adjusts /\ NeedsAdjust(Received(all, n), peer.target)
           /\ adjusts' = Append(adjusts, e)
  <2>1. n = all
    BY <1>4 DEF OnlyUsedUp
  <2>2. /\ w \in Nat /\ a \in Nat /\ all \in Nat /\ n \in Nat /\ t \in Nat
        /\ Bytes(wire) = n + t /\ adjusts \in Seq(Adjusting) /\ peer.target \in Nat
    BY <1>1, CarryingIs, HeadFits
  <2>3. w + Bytes(wire) + a <= all
    BY DEF Carrying, Balanced
  <2>4. e \in Adjusting
    <3>1. Received(all, n) = 0
      <4>1. \A k, m \in Nat : k = m => Received(m, k) = 0
        BY DEF Received
      <4> QED
        BY <2>1, <2>2, <4>1, Zenon
    <3> QED
      BY <2>2, <3>1 DEF Adjust, Grant, Adjusting
  <2> HIDE DEF n, t, w, a, all, e
  <2>5. w = 0 /\ a = 0
    <3>1. w + (n + t) + a <= n
      BY <2>1, <2>2, <2>3
    <3> QED
      BY ONLY <2>2, <3>1
  <2>6. Single(adjusts)
    BY DEF Covered
  <2>7. Single(Append(adjusts, e))
    BY <2>2, <2>4, <2>5, <2>6, SingleAppend DEF a
  <2>8. chan'.recipient_window_size = 0
    BY <1>1, <2>5 DEF w
  <2> QED
    BY <1>1, <1>2, <1>4, <2>7, <2>8 DEF Covered
<1> QED
  BY <1>1, <1>3, <1>4

LEMMA ServerClosesCovered ==
    ASSUME Carrying, Covered, ServerCloses, toSsh' = toSsh PROVE Covered'
<1>1. UNCHANGED <<app, mailbox, adjusted, chan>> /\ adjusts' = Append(adjusts, Close)
  BY DEF ServerCloses
<1>2. Close \in Adjusting /\ Close.amount = 0
  BY DEF Close, Adjusting
<1>3. adjusts \in Seq(Adjusting) /\ Amount(adjusts) \in Nat /\ Single(adjusts)
  BY CarryingIs DEF Covered
<1>4. Single(adjusts') /\ Amount(adjusts') = Amount(adjusts) + 0
  BY <1>1, <1>2, <1>3, SingleAppend
<1>5. Amount(adjusts') = Amount(adjusts)
  BY ONLY <1>3, <1>4
<1>6. Claims' = Claims
  BY <1>1, Zenon DEF Claims
<1> QED
  BY <1>1, <1>4, <1>5, <1>6 DEF Covered

LEMMA SessionStepsCovered ==
    ASSUME Copying, Carrying, Granting, Covered, SessionSteps, OnlyUsedUp, toSsh' = toSsh
    PROVE  Covered'
<1>1. CASE SessionData
  BY <1>1, SessionDataCovered
<1>2. CASE SessionEof \/ SessionDrops
  BY <1>2, DropCovered
<1>3. CASE SessionAdjust
  BY <1>3, SessionAdjustCovered
<1>4. CASE SessionMisses \/ SessionClosed
  BY <1>4, LostCovered
<1>5. CASE ReceiverData
  BY <1>5, ReceiverDataCovered
<1>6. CASE ReceiverEof
  <2>1. UNCHANGED <<app, mailbox, adjusted, chan, adjusts>>
    BY <1>6 DEF ReceiverEof
  <2>2. Claims' = Claims
    BY <2>1, Zenon DEF Claims
  <2> QED
    BY <2>1, <2>2 DEF Covered
<1> QED
  BY <1>1, <1>2, <1>3, <1>4, <1>5, <1>6 DEF SessionSteps

LEMMA ClaimsCount == Copying => Claims \in Nat
<1> SUFFICES ASSUME Copying PROVE Claims \in Nat
  OBVIOUS
<1> DEFINE x == app.window_size + QueuedBytes(mailbox)
           y == SumOf(adjusted) + SizesOf(toSsh)
<1>1. /\ app.window_size \in Nat /\ QueuedBytes(mailbox) \in Nat
      /\ SumOf(adjusted) \in Nat /\ SizesOf(toSsh) \in Nat
  BY ClaimsAre
<1>2. x \in Nat /\ y \in Nat
  BY <1>1
<1> HIDE DEF x, y
<1>3. x + y \in Nat
  BY ONLY <1>2
<1> QED
  BY <1>3 DEF Claims, x, y

LEMMA StepCovering ==
    ASSUME Senders \subseteq {"client"}, Flowing, Granting, Lined, Covering, OnlyUsedUp,
           [TunnelNext]_allVars
    PROVE  Covering'
<1>1. Copying /\ Carrying /\ Covered /\ ~queued /\ app.sender = "client"
  BY CoveringIs DEF Flowing, Copying, Giving, App, Covering
<1>2. /\ Claims <= chan.recipient_window_size /\ chan.recipient_window_size \in Nat
      /\ Claims \in Nat
  BY <1>1, ClaimsCount, CarryingIs DEF Covered
<1>3. ASSUME Claims' <= Claims, UNCHANGED <<chan, adjusts>>, queued' = queued,
             Claims' \in Nat
      PROVE  Covering'
  <2>1. Claims' <= chan.recipient_window_size
    BY <1>2, <1>3, AtMost, Zenon
  <2> QED
    BY <1>3, <2>1 DEF Covering
<1>4. Copying' /\ Claims' \in Nat
  <2>1. Copying'
    BY StepFlows DEF Flowing
  <2>2. Copying' => (Claims \in Nat)'
    BY ClaimsCount, PTL
  <2> QED
    BY <2>1, <2>2
<1>5. CASE TunnelSteps
  <2>1. UNCHANGED <<chan, adjusts>>
    BY <1>5, TunnelStepsKeep
  <2>2. queued' = queued
    BY <1>5, Zenon DEF TunnelSteps, Run, CopyToSsh, CopyFails, CopyResumes, ReceiveAdjusted,
                       ReceiveData, ReceiveEof, ReceiveGone, CopyToTcp
  <2> QED
    BY <1>1, <1>3, <1>4, <1>5, <2>1, <2>2, TunnelStepsClaims
<1>6. CASE ChannelSteps
  <2>1. AppSteps /\ queued' = queued /\ toSsh' = toSsh
    BY <1>6 DEF ChannelSteps, tunnelVars
  <2>2. UNCHANGED <<chan, adjusts>>
    BY <2>1, AppStepsKeep
  <2> QED
    BY <1>1, <1>3, <1>4, <2>1, <2>2, AppStepsClaims
<1>7. CASE Sessions
  <2>1. /\ SessionSteps /\ toSsh' = toSsh
        /\ queued' = (queued \/ chan'.pending_data # <<>>)
    BY <1>7 DEF Sessions, tunnelVars
  <2>2. Covered'
    BY <1>1, <2>1, SessionStepsCovered
  <2>3. ~queued'
    BY <1>1, <2>1, <2>2 DEF Covered
  <2> QED
    BY <2>2, <2>3 DEF Covered, Covering
<1>8. CASE HandlerCloses
  <2>1. ServerCloses /\ queued' = queued /\ toSsh' = toSsh
    BY <1>8 DEF HandlerCloses, tunnelVars
  <2>2. Covered'
    BY <1>1, <2>1, ServerClosesCovered
  <2> QED
    BY <1>1, <2>1, <2>2 DEF Covered, Covering
<1>9. CASE UNCHANGED allVars
  <2>1. UNCHANGED <<app, mailbox, adjusted, toSsh, chan, adjusts, queued>>
    BY <1>9 DEF allVars, vars, tunnelVars
  <2>2. Claims' = Claims
    BY <2>1, Zenon DEF Claims
  <2> QED
    BY <2>1, <2>2 DEF Covering
<1> QED
  BY <1>5, <1>6, <1>7, <1>8, <1>9 DEF TunnelNext

LEMMA InitCovering == ASSUME TunnelInit PROVE Covering
<1>1. WindowSize \in Nat
  BY ONLY FlowAssumption DEF FlowAssumption
<1>2. /\ app.window_size = WindowSize /\ chan.recipient_window_size = WindowSize
      /\ mailbox = <<>> /\ adjusted = <<>> /\ toSsh = <<>> /\ adjusts = <<>>
  BY DEF TunnelInit, Init
<1>3. queued = FALSE
  BY DEF TunnelInit
<1>4. QueuedBytes(mailbox) = 0 /\ SumOf(adjusted) = 0 /\ SizesOf(toSsh) = 0
      /\ Amount(adjusts) = 0
  <2>1. [i \in DOMAIN mailbox |-> mailbox[i].bytes] = <<>>
    BY <1>2
  <2>2. [i \in DOMAIN <<>> |-> Len(<<>>[i])] = <<>>
    OBVIOUS
  <2>3. Bytes(<<>>) = 0
    BY <2>2, SumNone DEF Bytes
  <2>4. QueuedBytes(mailbox) = 0
    BY <2>1, <2>3, Zenon DEF QueuedBytes
  <2>5. [i \in DOMAIN toSsh |-> toSsh[i].size] = <<>>
        /\ [i \in DOMAIN adjusts |-> adjusts[i].amount] = <<>>
    BY <1>2
  <2>6. SizesOf(toSsh) = 0 /\ Amount(adjusts) = 0
    BY <2>5, SumNone, Zenon DEF SizesOf, Amount
  <2> QED
    BY <1>2, <2>4, <2>6, SumNone
<1>5. Claims <= chan.recipient_window_size
  BY <1>1, <1>2, <1>4 DEF Claims
<1>6. Single(adjusts) /\ ~(Amount(adjusts) > 0)
  <2>1. DOMAIN adjusts = {}
    BY <1>2
  <2> QED
    BY <1>4, <2>1 DEF Single
<1> QED
  BY <1>3, <1>5, <1>6 DEF Covering

LEMMA CoveringRemains == ASSUME Flowing, Covering PROVE RemainingWindow
<1>1. /\ app.window_size \in Nat /\ QueuedBytes(mailbox) \in Nat
      /\ SumOf(adjusted) \in Nat /\ SizesOf(toSsh) \in Nat
      /\ chan.recipient_window_size \in Nat
  BY ClaimsAre, CarryingIs DEF Flowing
<1> DEFINE x == app.window_size + QueuedBytes(mailbox)
           s == SumOf(adjusted)
           t == SizesOf(toSsh)
           w == chan.recipient_window_size
<1>2. x + (s + t) <= w
  BY Zenon DEF Covering, Claims
<1>3. x \in Nat /\ s \in Nat /\ t \in Nat /\ w \in Nat
  BY <1>1
<1> HIDE DEF x, s, t, w
<1>4. x <= w
  BY ONLY <1>2, <1>3
<1> QED
  BY <1>4 DEF RemainingWindow, x, w

(* A client whose peer grants the window anew only when it is used up: what *)
(* Channel::data or send_to_ssh_loop counts is what the session's window    *)
(* leaves, as writable_packet_size says, and no data ever has to wait.      *)
THEOREM WindowUntilEarlyGrant ==
    WindowSize > 0 /\ Senders \subseteq {"client"} =>
        (TunnelSpec /\ [][OnlyUsedUp]_allVars => [](RemainingWindow /\ ~queued))
<1> SUFFICES ASSUME WindowSize > 0, Senders \subseteq {"client"}
             PROVE  TunnelSpec /\ [][OnlyUsedUp]_allVars => [](RemainingWindow /\ ~queued)
  OBVIOUS
<1> DEFINE I == Flowing /\ Explained /\ Lined
<1>1. TunnelInit => I /\ Covering
  BY TunnelInitFlows, InitExplained, InitLined, InitCovering
<1>2. I /\ [TunnelNext]_allVars => I'
  BY StepFlows, StepExplained, StepLined
<1>3. I /\ Covering /\ [TunnelNext]_allVars /\ [OnlyUsedUp]_allVars => Covering'
  <2>1. UNCHANGED allVars => OnlyUsedUp
    BY DEF allVars, vars, OnlyUsedUp
  <2> QED
    BY <2>1, StepCovering DEF Explained
<1>4. I /\ Covering => RemainingWindow /\ ~queued
  BY CoveringRemains DEF Covering
<1> HIDE DEF I
<1> QED
  BY <1>1, <1>2, <1>3, <1>4, PTL DEF TunnelSpec

(* Under the same condition the direction is a ByteStream to its end, of    *)
(* Channel::data and of a RemoteTunnel whose writes to TCP do not fail.     *)
THEOREM StreamUntilEarlyGrant ==
    WindowSize > 0 /\ Senders \subseteq {"client"} /\ "error" \notin Endings =>
        (TunnelSpec /\ [][OnlyUsedUp]_allVars => ImplementsByteStream)
<1> SUFFICES ASSUME WindowSize > 0, Senders \subseteq {"client"}, "error" \notin Endings
             PROVE  TunnelSpec /\ [][OnlyUsedUp]_allVars => ImplementsByteStream
  OBVIOUS
<1>1. TunnelSpec /\ []~queued => ImplementsByteStream
  BY StreamUntilQueued
<1>2. TunnelSpec /\ [][OnlyUsedUp]_allVars => [](RemainingWindow /\ ~queued)
  BY WindowUntilEarlyGrant
<1> QED
  BY <1>1, <1>2, PTL

-----------------------------------------------------------------------------
(* Windows of which less than half is nothing are granted when used up.     *)

SmallWindows == WindowSize \in 1..3 /\ Targets \subseteq 0..3

LEMMA SmallUsedUp == ASSUME Carrying, peer.target \in 0..3 PROVE OnlyUsedUp
<1> SUFFICES ASSUME ReceiverData, adjusts' # adjusts
             PROVE  Len(Head(wire)) = peer.sender_window_size
  BY Zenon DEF OnlyUsedUp
<1> DEFINE n == Len(Head(wire))
           all == peer.sender_window_size
           target == peer.target
<1>1. wire # <<>> /\ NeedsAdjust(Received(all, n), target)
  BY Zenon DEF ReceiverData
<1>2. n \in Nat /\ all \in Nat /\ n <= all
  BY <1>1, CarryingIs, HeadFits
<1> HIDE DEF n, all, target
<1>3. Received(all, n) = all - n
  BY <1>2 DEF Received
<1>4. target \in 0..3
  BY DEF target
<1>5. all - n < target \div 2
  BY <1>1, <1>3 DEF NeedsAdjust
<1>6. target \div 2 <= 1 /\ target \div 2 \in Nat
  BY ONLY <1>4
<1>7. all = n
  BY ONLY <1>2, <1>5, <1>6
<1> QED
  BY <1>7 DEF n, all

LEMMA TargetStays ==
    ASSUME SmallWindows, Carrying, peer.target \in 0..3, [TunnelNext]_allVars
    PROVE  peer'.target \in 0..3
<1>1. peer \in Receiver
  BY CarryingIs
<1>2. CASE peer' = peer
  BY <1>2
<1>3. CASE ReceiverData
  <2> DEFINE d == peer.delivered \o Head(wire)
             left == Received(peer.sender_window_size, Len(Head(wire)))
  <2>1. \/ \E t \in NextTargets :
             peer' = [peer EXCEPT !.sender_window_size = peer.target, !.target = t,
                                  !.delivered = d]
        \/ peer' = [peer EXCEPT !.sender_window_size = left, !.delivered = d]
    BY <1>3, Zenon DEF ReceiverData
  <2>2. NextTargets \subseteq 0..3
    <3>1. WindowSize \in 0..3 /\ Targets \subseteq 0..3
      BY DEF SmallWindows
    <3> QED
      BY <3>1 DEF NextTargets
  <2> HIDE DEF d, left
  <2>3. ASSUME NEW t \in NextTargets,
               peer' = [peer EXCEPT !.sender_window_size = peer.target, !.target = t,
                                    !.delivered = d]
        PROVE  peer'.target \in 0..3
    BY <1>1, <2>2, <2>3 DEF Receiver
  <2>4. CASE peer' = [peer EXCEPT !.sender_window_size = left, !.delivered = d]
    BY <1>1, <2>4 DEF Receiver
  <2> QED
    BY <2>1, <2>3, <2>4, Zenon
<1>4. CASE ReceiverEof
  BY <1>1, <1>4 DEF ReceiverEof, Receiver
<1>5. CASE SessionSteps /\ ~ReceiverData /\ ~ReceiverEof
  BY <1>2, <1>5, Zenon DEF SessionSteps, SessionData, SessionEof, SessionDrops,
                           SessionAdjust, SessionMisses, SessionClosed
<1>6. CASE TunnelSteps
  BY <1>2, <1>6, TunnelStepsKeep
<1>7. CASE ChannelSteps
  BY <1>2, <1>7, AppStepsKeep DEF ChannelSteps
<1>8. CASE HandlerCloses
  BY <1>1, <1>8 DEF HandlerCloses, ServerCloses, Receiver
<1>9. CASE UNCHANGED allVars
  BY <1>2, <1>9 DEF allVars, vars
<1> QED
  BY <1>3, <1>4, <1>5, <1>6, <1>7, <1>8, <1>9 DEF TunnelNext, Sessions

LEMMA OnlyUsedUpIfSmall == SmallWindows => (TunnelSpec => [][OnlyUsedUp]_allVars)
<1> SUFFICES ASSUME SmallWindows PROVE TunnelSpec => [][OnlyUsedUp]_allVars
  OBVIOUS
<1> DEFINE T == peer.target \in 0..3
<1>1. TunnelInit => T
  <2>1. WindowSize \in 0..3
    BY DEF SmallWindows
  <2> QED
    BY <2>1 DEF TunnelInit, Init
<1>2. Flowing /\ T /\ [TunnelNext]_allVars => T' /\ OnlyUsedUp
  BY SmallUsedUp, TargetStays DEF Flowing
<1> HIDE DEF T
<1> QED
  BY <1>1, <1>2, Flows, PTL DEF TunnelSpec

(* A server never grants a window of up to three bytes before it is used    *)
(* up, so that a client's count is right whatever the stream, the packets   *)
(* and the queue.                                                           *)
THEOREM RemainingSmallWindow ==
    SmallWindows /\ Senders \subseteq {"client"} => (TunnelSpec => []RemainingWindow)
<1> SUFFICES ASSUME SmallWindows, Senders \subseteq {"client"}
             PROVE  TunnelSpec => []RemainingWindow
  OBVIOUS
<1>1. WindowSize > 0
  BY DEF SmallWindows
<1> QED
  BY <1>1, OnlyUsedUpIfSmall, WindowUntilEarlyGrant, PTL

(* And the direction is a ByteStream, with no condition on what happens.    *)
THEOREM SmallWindowStream ==
    SmallWindows /\ Senders \subseteq {"client"} /\ "error" \notin Endings =>
        (TunnelSpec => ImplementsByteStream)
<1> SUFFICES ASSUME SmallWindows, Senders \subseteq {"client"}, "error" \notin Endings
             PROVE  TunnelSpec => ImplementsByteStream
  OBVIOUS
<1>1. WindowSize > 0
  BY DEF SmallWindows
<1> QED
  BY <1>1, OnlyUsedUpIfSmall, StreamUntilEarlyGrant, PTL
=============================================================================
