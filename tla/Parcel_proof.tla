---------------------------- MODULE Parcel_proof ----------------------------
(***************************************************************************)
(* Proofs about the file through the bytes, for any rungs and capacities,  *)
(* any symbol size RaptorQ takes, any files that lie in the page's memory  *)
(* and any places where a frame breaks off.                                *)
(*                                                                         *)
(* Sequences first: what is joined, cut and filtered, by way of the least  *)
(* element of a set.  Then every frame is read as it was encoded, and a    *)
(* damaged one is not read: the bytes of a checksum name what they cover   *)
(* and are no other bytes.  Then the packets of a file are the file again, *)
(* and its envelope comes apart as it was put together.  The invariant     *)
(* only has to say that what was decoded is what is displayed.             *)
(***************************************************************************)
EXTENDS Parcel, Integers, TLAPS, SequenceTheorems, FiniteSetTheorems,
        WellFoundedInduction, NaturalsInduction

-----------------------------------------------------------------------------
(* Numbers and sequences *)

Below == {p \in Nat \X Nat : p[1] < p[2]}

(* Every set of numbers that is not empty has a least element: the form in    *)
(* which induction is used here.                                              *)
LEMMA LeastElement ==
  ASSUME NEW T \in SUBSET Nat, T # {}
  PROVE  \E x \in T : \A y \in T : x <= y
<1>1. OpToRel(<, Nat) = Below
  BY DEF OpToRel, Below
<1>2. IsWellFoundedOn(Below, Nat)
  BY <1>1, NatLessThanWellFounded
<1>3. PICK x \in T : \A y \in T : <<y, x>> \notin Below
  BY <1>2, WFMin
<1>4. \A y \in T : ~(y < x)
  BY <1>3 DEF Below
<1>. QED
  BY <1>4

(* Quotient and remainder.                                                    *)
LEMMA Divided ==
  ASSUME NEW f \in Nat, NEW d \in Nat \ {0}
  PROVE  f % d \in 0..(d - 1) /\ f \div d \in Nat /\ f = d * (f \div d) + (f % d)
OBVIOUS

(* There is only one quotient.                                                *)
LEMMA OneQuotient ==
  ASSUME NEW d \in Nat \ {0}, NEW q \in Int, NEW p \in Int,
         NEW r \in 0..(d - 1), NEW s \in 0..(d - 1), d * q + r = d * p + s
  PROVE  q = p
<1>1. d * (q - p) = s - r
  OBVIOUS
<1>2. CASE q > p
  <2>1. q - p >= 1
    BY <1>2
  <2>2. d * (q - p) >= d
    BY <2>1, Z3
  <2>. QED
    BY <1>1, <2>2
<1>3. CASE q < p
  <2>1. q - p <= -1
    BY <1>3
  <2>2. d * (q - p) <= -d
    BY <2>1, Z3
  <2>. QED
    BY <1>1, <2>2
<1>. QED
  BY <1>2, <1>3

(* The p-th of the joined elements, when each of them has n. *)
At(s, n, p) == s[((p - 1) \div n) + 1][((p - 1) % n) + 1]
Joined(s, n, k) == [p \in 1..(k * n) |-> At(s, n, p)]

(* The place of the p-th of the joined elements: in which of them, and where. *)
LEMMA PlaceOf ==
  ASSUME NEW n \in Nat \ {0}, NEW k \in Nat, NEW p \in 1..((k + 1) * n)
  PROVE  /\ (p - 1) \div n \in 0..k /\ (p - 1) % n \in 0..(n - 1)
         /\ p <= k * n => (p - 1) \div n < k
         /\ p > k * n => (p - 1) \div n = k /\ (p - 1) % n = p - k * n - 1
<1>1. (k + 1) * n = k * n + n /\ k * n \in Nat
  OBVIOUS
<1>. DEFINE q == (p - 1) \div n
            r == (p - 1) % n
<1>2. q \in Nat /\ r \in 0..(n - 1) /\ p - 1 = n * q + r
  <2>. DEFINE f == p - 1
  <2>1. f \in Nat
    BY <1>1
  <2>2. f % n \in 0..(n - 1) /\ f \div n \in Nat /\ f = n * (f \div n) + (f % n)
    <3>. HIDE DEF f
    <3>. QED
      BY <2>1, Divided
  <2>. QED
    BY <2>2
<1>. HIDE DEF q, r
<1>3. CASE p <= k * n
  <2>1. SUFFICES q < k
    BY <1>2, <1>3 DEF q, r
  <2>2. SUFFICES ASSUME q >= k PROVE FALSE
    BY <1>2
  <2>3. n * q >= n * k
    BY <2>2, <1>2, Z3
  <2>. QED
    BY <1>1, <1>2, <1>3, <2>3
<1>4. CASE p > k * n
  <2>1. p - 1 = n * k + (p - k * n - 1) /\ p - k * n - 1 \in 0..(n - 1)
    BY <1>1, <1>4
  <2>2. q = k
    BY <1>2, <2>1, OneQuotient
  <2>3. r = p - k * n - 1
    BY <1>1, <1>2, <2>1, <2>2
  <2>. QED
    BY <2>2, <2>3, <1>2 DEF q, r
<1>. QED
  BY <1>1, <1>3, <1>4

(* What is joined is a sequence, of the length it should have.                *)
LEMMA JoinedIsSeq ==
  ASSUME NEW S, NEW s \in Seq(Seq(S)), NEW n \in Nat \ {0}, NEW k \in 0..Len(s),
         \A i \in 1..Len(s) : Len(s[i]) = n
  PROVE  Joined(s, n, k) \in Seq(S) /\ Len(Joined(s, n, k)) = k * n
<1>1. k * n \in Nat /\ k \in Nat
  OBVIOUS
<1>2. ASSUME NEW p \in 1..(k * n) PROVE At(s, n, p) \in S
  <2>1. p \in 1..((k + 1) * n)
    BY <1>1
  <2>2. (p - 1) \div n < k /\ (p - 1) \div n \in Nat /\ (p - 1) % n \in 0..(n - 1)
    BY <1>1, <1>2, <2>1, PlaceOf, SMTT(30)
  <2>3. s[((p - 1) \div n) + 1] \in Seq(S) /\ Len(s[((p - 1) \div n) + 1]) = n
    BY <2>2
  <2>. QED
    BY <2>2, <2>3 DEF At
<1>. QED
  BY <1>1, <1>2 DEF Joined

(* A sequence that is one and then another, place by place.                   *)
LEMMA Prolong ==
  ASSUME NEW S, NEW a \in Seq(S), NEW b \in Seq(S), NEW c \in Seq(S),
         Len(c) = Len(a) + Len(b),
         \A p \in 1..Len(c) : c[p] = IF p <= Len(a) THEN a[p] ELSE b[p - Len(a)]
  PROVE  c = a \o b
<1>1. /\ a \o b \in Seq(S) /\ Len(a \o b) = Len(a) + Len(b)
      /\ \A p \in 1..(Len(a) + Len(b)) : (a \o b)[p] = IF p <= Len(a) THEN a[p] ELSE b[p - Len(a)]
  BY ConcatProperties
<1>. QED
  BY <1>1, SeqEqual

(* One more is joined behind the others.                                      *)
LEMMA JoinedStep ==
  ASSUME NEW S, NEW s \in Seq(Seq(S)), NEW n \in Nat \ {0}, NEW k \in 1..Len(s),
         \A i \in 1..Len(s) : Len(s[i]) = n
  PROVE  /\ Joined(s, n, 1) = s[1]
         /\ k > 1 => Joined(s, n, k) = Joined(s, n, k - 1) \o s[k]
<1>. DEFINE J(i) == Joined(s, n, i)
<1>1. \A i \in 0..Len(s) : J(i) \in Seq(S) /\ Len(J(i)) = i * n
  BY JoinedIsSeq
<1>2. \A i \in 1..Len(s) : s[i] \in Seq(S) /\ Len(s[i]) = n
  OBVIOUS
<1>3. ASSUME NEW i \in 0..(Len(s) - 1), NEW p \in 1..((i + 1) * n)
      PROVE  J(i + 1)[p] = IF p <= i * n THEN J(i)[p] ELSE s[i + 1][p - i * n]
  <2>1. J(i + 1)[p] = At(s, n, p) /\ (p <= i * n => J(i)[p] = At(s, n, p))
    BY DEF Joined
  <2>2. p > i * n => At(s, n, p) = s[i + 1][p - i * n]
    <3>1. i \in Nat
      OBVIOUS
    <3>2. p > i * n => (p - 1) \div n = i /\ (p - 1) % n = p - i * n - 1
      BY <3>1, PlaceOf
    <3>. DEFINE z == i * n
    <3>3. z \in Nat /\ p \in Nat
      BY <3>1
    <3>4. (p - 1) \div n = i /\ (p - 1) % n = p - z - 1 => At(s, n, p) = s[i + 1][(p - z - 1) + 1]
      BY DEF At
    <3>. HIDE DEF z
    <3>5. (p - z - 1) + 1 = p - z
      BY <3>3
    <3>. QED
      BY <3>2, <3>4, <3>5 DEF z
  <2>. QED
    BY <2>1, <2>2
<1>4. J(1) = s[1]
  <2>1. Len(J(1)) = n /\ J(1) \in Seq(S)
    BY <1>1
  <2>2. \A p \in 1..n : J(1)[p] = s[1][p]
    BY <1>3, SMTT(30)
  <2>. QED
    BY <1>2, <2>1, <2>2, SeqEqual
<1>5. ASSUME k > 1 PROVE J(k) = J(k - 1) \o s[k]
  <2>. DEFINE m == k - 1
  <2>1. m \in 0..(Len(s) - 1) /\ k = m + 1
    BY <1>5
  <2>2. m * n + n = (m + 1) * n /\ m * n \in Nat
    BY <2>1
  <2>. HIDE DEF m, J
  <2>3. J(m) \in Seq(S) /\ Len(J(m)) = m * n /\ J(m + 1) \in Seq(S) /\ Len(J(m + 1)) = (m + 1) * n
    BY <1>1, <2>1
  <2>4. s[m + 1] \in Seq(S) /\ Len(s[m + 1]) = n
    BY <1>2, <2>1
  <2>5. \A p \in 1..Len(J(m + 1)) :
          J(m + 1)[p] = IF p <= Len(J(m)) THEN J(m)[p] ELSE s[m + 1][p - Len(J(m))]
    BY <1>3, <2>1, <2>3
  <2>6. J(m + 1) = J(m) \o s[m + 1]
    BY <2>2, <2>3, <2>4, <2>5, Prolong, ZenonT(60)
  <2>. QED
    BY <2>1, <2>6 DEF m
<1>. QED
  BY <1>4, <1>5

(* Joining sequences of one length, in closed form.                           *)
LEMMA FlattenUniform ==
  ASSUME NEW S, NEW s \in Seq(Seq(S)), NEW n \in Nat \ {0}, Len(s) # 0,
         \A i \in 1..Len(s) : Len(s[i]) = n
  PROVE  FlattenSeq(s) = Joined(s, n, Len(s))
<1>. DEFINE Step(f) == [i \in 1..Len(s) |-> IF i = 1 THEN s[i] ELSE f[i-1] \o s[i]]
            F == [i \in 1..Len(s) |-> Joined(s, n, i)]
            G == CHOOSE f : f = Step(f)
<1>1. FlattenSeq(s) = G[Len(s)]
  BY DEF FlattenSeq
<1>2. F = Step(F)
  <2>. HIDE DEF G
  <2>1. \A i \in 1..Len(s) : F[i] = Joined(s, n, i)
    OBVIOUS
  <2>2. \A i \in 1..Len(s) : i = 1 \/ (i > 1 /\ i - 1 \in 1..Len(s))
    OBVIOUS
  <2>3. \A i \in 1..Len(s) : i > 1 => Joined(s, n, i) = Joined(s, n, i - 1) \o s[i]
    BY JoinedStep
  <2>4. Joined(s, n, 1) = s[1]
    <3>1. 1 \in 1..Len(s)
      OBVIOUS
    <3>. QED
      BY <3>1, JoinedStep
  <2>5. ASSUME NEW i \in 1..Len(s)
        PROVE  F[i] = IF i = 1 THEN s[i] ELSE F[i-1] \o s[i]
    <3>. HIDE DEF F
    <3>. QED
      BY <2>1, <2>2, <2>3, <2>4
  <2>. QED
    BY <2>5
<1>3. G = Step(G)
  BY <1>2
<1>. HIDE DEF G, F
<1>4. ASSUME NEW i \in 1..Len(s), G[i] # F[i] PROVE FALSE
  <2>. DEFINE T == {j \in 1..Len(s) : G[j] # F[j]}
  <2>1. PICK j \in T : \A m \in T : j <= m
    <3>1. T \in SUBSET Nat /\ T # {}
      BY <1>4
    <3>. HIDE DEF T
    <3>. QED
      BY <3>1, LeastElement
  <2>2. j = 1 \/ G[j - 1] = F[j - 1]
    BY <2>1
  <2>3. G[j] = F[j]
    BY <1>2, <1>3, <2>2, ZenonT(60)
  <2>. QED
    BY <2>1, <2>3
<1>. QED
  BY <1>1, <1>4 DEF F

(* Sequences are joined one after the other, and give a sequence.             *)
LEMMA FlattenSteps ==
  ASSUME NEW S, NEW s \in Seq(Seq(S)), Len(s) # 0
  PROVE  \E G : /\ FlattenSeq(s) = G[Len(s)]
                /\ \A i \in 1..Len(s) :
                     G[i] = (IF i = 1 THEN s[i] ELSE G[i-1] \o s[i]) /\ G[i] \in Seq(S)
<1>. DEFINE N == Len(s)
            Step(f, n) == [i \in 1..n |-> IF i = 1 THEN s[i] ELSE f[i-1] \o s[i]]
            Has(n) == \E f : f = Step(f, n)
            G == CHOOSE f : f = Step(f, N)
<1>1. N \in Nat /\ \A i \in 1..N : s[i] \in Seq(S)
  OBVIOUS
<1>2. FlattenSeq(s) = G[N]
  BY DEF FlattenSeq
<1>3. Has(0)
  <2>1. <<>> = Step(<<>>, 0)
    OBVIOUS
  <2>. QED
    BY <2>1
<1>4. ASSUME NEW n \in Nat, Has(n), n + 1 \in 1..N PROVE Has(n + 1)
  <2>1. PICK f : f = Step(f, n)
    BY <1>4
  <2>. DEFINE g == [i \in 1..(n + 1) |->
                      IF i \in 1..n THEN f[i] ELSE IF i = 1 THEN s[i] ELSE f[i-1] \o s[i]]
  <2>2. \A i \in 1..n : f[i] = IF i = 1 THEN s[i] ELSE f[i-1] \o s[i]
    BY <2>1
  <2>3. ASSUME NEW i \in 1..(n + 1) PROVE g[i] = IF i = 1 THEN s[i] ELSE g[i-1] \o s[i]
    <3>1. i = 1 \/ (i > 1 /\ i - 1 \in 1..n)
      OBVIOUS
    <3>2. g[i] = IF i \in 1..n THEN f[i] ELSE IF i = 1 THEN s[i] ELSE f[i-1] \o s[i]
      OBVIOUS
    <3>3. i > 1 => g[i - 1] = f[i - 1]
      BY <3>1
    <3>. HIDE DEF g
    <3>. QED
      BY <2>2, <3>1, <3>2, <3>3
  <2>4. g = Step(g, n + 1)
    BY <2>3
  <2>. QED
    BY <2>4
<1>5. Has(N)
  <2>. HIDE DEF Has, G
  <2>. DEFINE T == {n \in 0..N : ~Has(n)}
  <2>1. SUFFICES ASSUME N \in T PROVE FALSE
    BY <1>1
  <2>2. PICK n \in T : \A m \in T : n <= m
    <3>1. T \in SUBSET Nat /\ T # {}
      BY <1>1, <2>1, SMTT(30)
    <3>. HIDE DEF T
    <3>. QED
      BY <3>1, LeastElement
  <2>. DEFINE m == n - 1
  <2>3. n # 0 /\ n \in 0..N
    BY <1>3, <2>2
  <2>4. m \in Nat /\ m \in 0..N /\ m + 1 = n /\ n \in 1..N
    BY <1>1, <2>3
  <2>5. Has(m)
    BY <2>2, <2>4
  <2>. HIDE DEF m
  <2>6. Has(n)
    BY <1>4, <2>4, <2>5
  <2>. QED
    BY <2>2, <2>6
<1>6. G = Step(G, N)
  BY <1>5
<1>. HIDE DEF G
<1>7. ASSUME NEW i \in 1..N, G[i] \notin Seq(S) PROVE FALSE
  <2>. DEFINE T == {j \in 1..N : G[j] \notin Seq(S)}
  <2>1. PICK j \in T : \A m \in T : j <= m
    <3>1. T \in SUBSET Nat /\ i \in T
      <4>. HIDE DEF N
      <4>1. 1..N \subseteq Nat
        BY <1>1
      <4>. QED
        BY <1>7, <4>1
    <3>. HIDE DEF T
    <3>. QED
      BY <3>1, LeastElement
  <2>2. j = 1 \/ (j - 1 \in 1..N /\ G[j - 1] \in Seq(S))
    BY <1>1, <2>1
  <2>3. G[j] = IF j = 1 THEN s[j] ELSE G[j - 1] \o s[j]
    BY <1>6
  <2>4. G[j] \in Seq(S)
    BY <1>1, <2>2, <2>3, ConcatProperties
  <2>. QED
    BY <2>1, <2>4
<1>8. \A i \in 1..N : G[i] = (IF i = 1 THEN s[i] ELSE G[i-1] \o s[i]) /\ G[i] \in Seq(S)
  BY <1>6, <1>7
<1>. QED
  BY <1>2, <1>8

(* So it is, if there is none to join.                                        *)
LEMMA FlattenType ==
  ASSUME NEW S, NEW s \in Seq(Seq(S))
  PROVE  FlattenSeq(s) \in Seq(S)
<1>1. CASE Len(s) = 0
  BY <1>1, EmptySeq DEF FlattenSeq
<1>2. CASE Len(s) # 0
  <2>1. Len(s) \in 1..Len(s)
    BY <1>2
  <2>. QED
    BY <1>2, <2>1, FlattenSteps
<1>. QED
  BY <1>1, <1>2

(* Part of a sequence, place by place. *)
LEMMA PartAt ==
  ASSUME NEW S, NEW b \in Seq(S), NEW a \in Nat, NEW f \in Seq(S), a + Len(f) <= Len(b),
         \A i \in 1..Len(f) : b[a + i] = f[i]
  PROVE  SubSeq(b, a + 1, a + Len(f)) = f
<1>. DEFINE t == SubSeq(b, a + 1, a + Len(f))
            n == Len(f)
<1>1. n \in Nat /\ \A i \in (a + 1)..(a + n) : b[i] \in S
  OBVIOUS
<1>. HIDE DEF n
<1>2. /\ t \in Seq(S)
      /\ Len(t) = IF a + 1 <= a + n THEN a + n - (a + 1) + 1 ELSE 0
      /\ \A i \in 1..(a + n - (a + 1) + 1) : t[i] = b[a + 1 + i - 1]
  <2>1. a + 1 \in Int /\ a + n \in Int
    BY <1>1
  <2>2. t = SubSeq(b, a + 1, a + n)
    BY DEF n
  <2>. HIDE DEF t
  <2>. QED
    BY <1>1, <2>1, <2>2, SubSeqProperties
<1>. HIDE DEF t
<1>3. a + n - (a + 1) + 1 = n /\ \A i \in 1..n : a + 1 + i - 1 = a + i
  BY <1>1
<1>4. Len(t) = Len(f) /\ \A i \in 1..Len(f) : t[i] = f[i]
  BY <1>1, <1>2, <1>3, SMTT(30) DEF n
<1>5. t = f
  BY <1>2, <1>4, SeqEqual
<1>. QED
  BY <1>5 DEF t

Starts(p, s) == Len(p) <= Len(s) /\ \A i \in 1..Len(p) : s[i] = p[i]

(* A field is where the fields before it end. *)
LEMMA Field ==
  ASSUME NEW S, NEW p \in Seq(S), NEW f \in Seq(S), NEW s \in Seq(S), Starts(p \o f, s)
  PROVE  /\ Starts(p, s)
         /\ SubSeq(s, Len(p) + 1, Len(p) + Len(f)) = f
         /\ \A i \in 1..Len(f) : s[Len(p) + i] = f[i]
         /\ Len(p) + Len(f) <= Len(s)
<1>1. /\ Len(p \o f) = Len(p) + Len(f)
      /\ \A i \in 1..(Len(p) + Len(f)) : (p \o f)[i] = IF i <= Len(p) THEN p[i] ELSE f[i - Len(p)]
  BY ConcatProperties
<1>2. Len(p) \in Nat /\ Len(f) \in Nat /\ Len(s) \in Nat
  OBVIOUS
<1>3. /\ Len(p) + Len(f) <= Len(s)
      /\ \A i \in 1..(Len(p) + Len(f)) : s[i] = IF i <= Len(p) THEN p[i] ELSE f[i - Len(p)]
  BY <1>1 DEF Starts
<1>4. Starts(p, s)
  BY <1>2, <1>3 DEF Starts
<1>5. ASSUME NEW i \in 1..Len(f) PROVE s[Len(p) + i] = f[i]
  <2>1. Len(p) + i \in 1..(Len(p) + Len(f)) /\ ~(Len(p) + i <= Len(p)) /\ (Len(p) + i) - Len(p) = i
    BY <1>2
  <2>. QED
    BY <1>3, <2>1
<1>6. SubSeq(s, Len(p) + 1, Len(p) + Len(f)) = f
  BY <1>2, <1>3, <1>5, PartAt
<1>. QED
  BY <1>3, <1>4, <1>5, <1>6

-----------------------------------------------------------------------------
(* Bytes and frames *)

(* The bytes of a frame but for its checksum: a value, a place in a key or an *)
(* id, a place in a sealed file.                                              *)
Plain ==
  {<<v>> : v \in Nat} \cup {<<v, i>> : v \in Nat, i \in Nat}
  \cup {<<i, f, aad(Draft(g))>> : i \in Nat, f \in File, g \in File}

(* The bytes of the checksums of a set of byte strings.                       *)
Sums(W) == {<<i, x, "crc", 32>> : i \in 1..4, x \in W}

(* A byte of a checksum is none of the others.                                *)
LEMMA SumIsNotPlain ==
  ASSUME NEW i, NEW x, <<i, x, "crc", 32>> \in Plain
  PROVE  FALSE
<1>. DEFINE t == <<i, x, "crc", 32>>
<1>1. Len(t) = 4
  OBVIOUS
<1>2. ASSUME NEW v \in Nat, t = <<v>> PROVE FALSE
  <2>1. Len(<<v>>) = 1
    OBVIOUS
  <2>. QED
    BY <1>1, <1>2, <2>1
<1>3. ASSUME NEW v \in Nat, NEW j \in Nat, t = <<v, j>> PROVE FALSE
  <2>1. Len(<<v, j>>) = 2
    OBVIOUS
  <2>. QED
    BY <1>1, <1>3, <2>1
<1>4. ASSUME NEW j \in Nat, NEW f \in File, NEW g \in File, t = <<j, f, aad(Draft(g))>>
      PROVE FALSE
  <2>1. Len(<<j, f, aad(Draft(g))>>) = 3
    OBVIOUS
  <2>. QED
    BY <1>1, <1>4, <2>1
<1>. QED
  BY <1>2, <1>3, <1>4 DEF Plain

(* Numbers are written in plain bytes, of the length of their width.          *)
LEMMA ValueBytes ==
  ASSUME NEW v \in Nat
  PROVE  /\ Byte(v) \in Plain /\ <<Byte(v)>> \in Seq(Plain) /\ Len(<<Byte(v)>>) = 1
         /\ u16_bytes(v) \in Seq(Plain) /\ Len(u16_bytes(v)) = 2
         /\ u32_bytes(v) \in Seq(Plain) /\ Len(u32_bytes(v)) = 4
         /\ Reverse(u16_bytes(v)) \in Seq(Plain) /\ Len(Reverse(u16_bytes(v))) = 2
         /\ Reverse(u32_bytes(v)) \in Seq(Plain) /\ Len(Reverse(u32_bytes(v))) = 4
<1>1. ASSUME NEW w \in Nat PROVE Byte(w) \in Plain
  BY DEF Byte, Plain
<1>2. /\ v % 256 \in Nat /\ (v \div 256) % 256 \in Nat /\ (v \div 65536) % 256 \in Nat
      /\ (v \div 16777216) % 256 \in Nat
  OBVIOUS
<1>3. u16_bytes(v) \in Seq(Plain) /\ Len(u16_bytes(v)) = 2
  BY <1>1, <1>2 DEF u16_bytes
<1>4. u32_bytes(v) \in Seq(Plain) /\ Len(u32_bytes(v)) = 4
  BY <1>1, <1>2 DEF u32_bytes
<1>5. ASSUME NEW s \in Seq(Plain) PROVE Reverse(s) \in Seq(Plain) /\ Len(Reverse(s)) = Len(s)
  <2>1. \A i \in 1..Len(s) : (Len(s) - i) + 1 \in 1..Len(s)
    OBVIOUS
  <2>. QED
    BY <2>1 DEF Reverse
<1>. QED
  BY <1>1, <1>3, <1>4, <1>5

(* So are keys, ids and hashes.                                               *)
LEMMA FillBytes ==
  ASSUME NEW v \in Nat, NEW n \in Nat
  PROVE  Fill(v, n) \in Seq(Plain) /\ Len(Fill(v, n)) = n
<1>1. \A i \in 1..n : <<v, i>> \in Plain
  BY DEF Plain
<1>. QED
  BY <1>1 DEF Fill

(* What is written in two or four bytes is read back, either way round.       *)
LEMMA ValueReadBack ==
  ASSUME NEW v \in Nat
  PROVE  /\ v < 65536 => u16_from(u16_bytes(v)) = v /\ u16_from(Reverse(Reverse(u16_bytes(v)))) = v
         /\ v \div 65536 < 65536 =>
              u32_from(u32_bytes(v)) = v /\ u32_from(Reverse(Reverse(u32_bytes(v)))) = v
<1>1. v < 65536 => v = (v % 256) + 256 * ((v \div 256) % 256)
  OBVIOUS
<1>2. v \div 65536 < 65536 =>
        v = (v % 256) + 256 * ((v \div 256) % 256) + 65536 * ((v \div 65536) % 256)
            + 16777216 * ((v \div 16777216) % 256)
  OBVIOUS
<1>3. u16_bytes(v) \in Seq(Plain) /\ u32_bytes(v) \in Seq(Plain)
  BY ValueBytes
<1>4. ASSUME NEW s \in Seq(Plain) PROVE Reverse(Reverse(s)) = s
  BY DEF Reverse
<1>5. u16_from(u16_bytes(v)) = (v % 256) + 256 * ((v \div 256) % 256)
  BY DEF u16_bytes, u16_from, Byte
<1>6. u32_from(u32_bytes(v)) =
        (v % 256) + 256 * ((v \div 256) % 256) + 65536 * ((v \div 65536) % 256)
        + 16777216 * ((v \div 16777216) % 256)
  BY DEF u32_bytes, u32_from, Byte
<1>. QED
  BY <1>1, <1>2, <1>3, <1>4, <1>5, <1>6

(* A field of what open_frame hands on.                                       *)
LEMMA BodyField ==
  ASSUME NEW S, NEW p \in Seq(S), NEW f \in Seq(S), NEW s \in Seq(S), Starts(p \o f, s),
         Len(p) >= 4, Len(p) + Len(f) <= Len(s) - 4
  PROVE  /\ Starts(p, s)
         /\ Slice(Body(s), Len(p) - 4, Len(p) + Len(f) - 4) = f
         /\ \A i \in 1..Len(f) : Body(s)[Len(p) - 4 + i] = f[i]
<1>. DEFINE b == Body(s)
            a == Len(p) - 4
<1>1. /\ Len(p) \in Nat /\ Len(f) \in Nat /\ Len(s) \in Nat /\ a \in Nat
      /\ Len(p) = a + 4 /\ a + Len(f) <= Len(s) - 8
  OBVIOUS
<1>2. Starts(p, s) /\ \A i \in 1..Len(f) : s[Len(p) + i] = f[i]
  BY Field
<1>3. Len(b) = Len(s) - 8 /\ b \in Seq(S) /\ \A i \in 1..(Len(s) - 8) : b[i] = s[i + 4]
  <2>1. b = SubSeq(s, 5, Len(s) - 4)
    BY DEF Body, Slice
  <2>2. 5 \in Int /\ Len(s) - 4 \in Int /\ \A i \in 5..(Len(s) - 4) : s[i] \in S
    BY <1>1
  <2>. HIDE DEF b
  <2>3. /\ b \in Seq(S)
        /\ Len(b) = IF 5 <= Len(s) - 4 THEN Len(s) - 4 - 5 + 1 ELSE 0
        /\ \A i \in 1..(Len(s) - 4 - 5 + 1) : b[i] = s[5 + i - 1]
    BY <2>1, <2>2, SubSeqProperties
  <2>. DEFINE n == Len(s) - 8
  <2>4. n \in Nat /\ Len(s) - 4 - 5 + 1 = n /\ Len(s) - 4 = n + 4
    BY <1>1
  <2>. HIDE DEF n
  <2>5. Len(b) = n
    BY <2>3, <2>4
  <2>6. \A i \in 1..n : b[i] = s[i + 4]
    <3>1. \A i \in 1..n : 5 + i - 1 = i + 4
      OBVIOUS
    <3>. QED
      BY <2>3, <2>4, <3>1
  <2>. QED
    BY <2>3, <2>5, <2>6 DEF n
<1>. HIDE DEF b, a
<1>4. \A i \in 1..Len(f) : b[a + i] = f[i]
  BY <1>1, <1>2, <1>3
<1>5. SubSeq(b, a + 1, a + Len(f)) = f
  BY <1>1, <1>3, <1>4, PartAt
<1>6. Slice(b, a, a + Len(f)) = f
  BY <1>5 DEF Slice
<1>7. Len(p) + Len(f) - 4 = a + Len(f)
  BY <1>1
<1>. QED
  BY <1>2, <1>4, <1>6, <1>7 DEF a, b

(* One sequence behind another, place by place.                               *)
LEMMA Longer ==
  ASSUME NEW S, NEW p \in Seq(S), NEW f \in Seq(S)
  PROVE  /\ p \o f \in Seq(S) /\ Len(p \o f) = Len(p) + Len(f)
         /\ \A i \in 1..Len(p) : (p \o f)[i] = p[i]
         /\ \A i \in 1..Len(f) : (p \o f)[Len(p) + i] = f[i]
<1>. DEFINE c == p \o f
            m == Len(p)
            n == Len(f)
<1>1. /\ c \in Seq(S) /\ Len(c) = m + n
      /\ \A i \in 1..(m + n) : c[i] = IF i <= m THEN p[i] ELSE f[i - m]
  BY ConcatProperties
<1>2. m \in Nat /\ n \in Nat
  OBVIOUS
<1>. HIDE DEF c, m, n
<1>3. \A i \in 1..n : m + i \in 1..(m + n) /\ ~(m + i <= m) /\ (m + i) - m = i
  BY <1>2
<1>4. \A i \in 1..m : i \in 1..(m + n) /\ i <= m
  BY <1>2
<1>5. \A i \in 1..n : c[m + i] = f[i]
  BY <1>1, <1>3
<1>6. \A i \in 1..m : c[i] = p[i]
  BY <1>1, <1>4
<1>. QED
  BY <1>1, <1>5, <1>6 DEF c, m, n

(* The common header, byte by byte.                                           *)
LEMMA HeaderBytes ==
  ASSUME NEW ty \in Nat
  PROVE  /\ common_header(ty) \in Seq(Plain) /\ Len(common_header(ty)) = 4
         /\ common_header(ty)[3] = Byte(VERSION) /\ common_header(ty)[4] = Byte(ty)
<1>1. MAGIC \in Seq(Plain) /\ Len(MAGIC) = 2
  BY DEF MAGIC, Byte, Plain
<1>2. <<Byte(VERSION), Byte(ty)>> \in Seq(Plain) /\ Len(<<Byte(VERSION), Byte(ty)>>) = 2
  BY DEF VERSION, Byte, Plain
<1>. DEFINE a == MAGIC
            b == <<Byte(VERSION), Byte(ty)>>
<1>3. b[1] = Byte(VERSION) /\ b[2] = Byte(ty)
  OBVIOUS
<1>4. common_header(ty) = a \o b
  BY DEF common_header
<1>. HIDE DEF a, b
<1>5. /\ a \o b \in Seq(Plain) /\ Len(a \o b) = 2 + 2
      /\ \A i \in 1..2 : (a \o b)[2 + i] = b[i]
  <2>1. a \in Seq(Plain) /\ b \in Seq(Plain)
    BY <1>1, <1>2 DEF a, b
  <2>2. Len(a) = 2 /\ Len(b) = 2
    BY <1>1, <1>2 DEF a, b
  <2>3. /\ a \o b \in Seq(Plain) /\ Len(a \o b) = Len(a) + Len(b)
        /\ \A i \in 1..Len(b) : (a \o b)[Len(a) + i] = b[i]
    BY <2>1, Longer
  <2>. QED
    BY <2>3, <2>2
<1>6. (a \o b)[2 + 1] = b[1] /\ (a \o b)[2 + 2] = b[2]
  BY <1>5
<1>. QED
  BY <1>3, <1>4, <1>5, <1>6

(* A frame is its bytes and then their checksum. *)
LEMMA SealedFrame ==
  ASSUME NEW x \in Seq(Plain), NEW W, x \in W
  PROVE  /\ seal_crc(x) \in Seq(Plain \cup Sums(W)) /\ Len(seal_crc(x)) = Len(x) + 4
         /\ \A i \in 1..Len(x) : seal_crc(x)[i] = x[i]
         /\ Slice(seal_crc(x), 0, Len(seal_crc(x)) - 4) = x
         /\ Starts(x, seal_crc(x))
<1>. DEFINE S == Plain \cup Sums(W)
<1>1. crc32(x) \in Seq(S) /\ Len(crc32(x)) = 4
  <2>1. \A i \in 1..4 : <<i, x, "crc", 32>> \in S
    BY DEF Sums
  <2>. QED
    BY <2>1 DEF crc32
<1>2. x \in Seq(S)
  BY SeqMonotonic
<1>. HIDE DEF S
<1>. DEFINE y == crc32(x)
            m == Len(x)
<1>3. m \in Nat /\ seal_crc(x) = x \o y
  BY DEF seal_crc
<1>. HIDE DEF y, m
<1>4. /\ seal_crc(x) \in Seq(S) /\ Len(seal_crc(x)) = m + 4
      /\ \A i \in 1..m : seal_crc(x)[i] = x[i]
  <2>1. y \in Seq(S) /\ Len(y) = 4 /\ Len(x) = m
    BY <1>1 DEF y, m
  <2>2. /\ x \o y \in Seq(S) /\ Len(x \o y) = Len(x) + Len(y)
        /\ \A i \in 1..Len(x) : (x \o y)[i] = x[i]
    BY <1>2, <2>1, Longer, ZenonT(60)
  <2>. QED
    BY <1>3, <2>1, <2>2
<1>. DEFINE s == seal_crc(x)
<1>. HIDE DEF s
<1>5. SubSeq(s, 0 + 1, 0 + Len(x)) = x
  <2>1. 0 + Len(x) <= Len(s) /\ s \in Seq(S)
    BY <1>3, <1>4 DEF s, m
  <2>2. \A i \in 1..Len(x) : s[0 + i] = x[i]
    BY <1>4 DEF s, m
  <2>. QED
    BY <1>2, <2>1, <2>2, PartAt
<1>6. Slice(s, 0, Len(s) - 4) = x
  <2>1. Len(s) - 4 = 0 + Len(x)
    BY <1>3, <1>4 DEF s, m
  <2>. QED
    BY <1>5, <2>1 DEF Slice
<1>7. Len(x) <= Len(seal_crc(x))
  BY <1>3, <1>4 DEF m
<1>. QED
  BY <1>4, <1>6, <1>7 DEF s, m, S, Starts

(* What open_frame accepts is, whole, one of the frames its bytes come from:  *)
(* the first byte of the checksum names what it covers.                       *)
LEMMA AcceptedIsWhole ==
  ASSUME NEW W \in SUBSET Seq(Plain), NEW t \in Seq(Plain \cup Sums(W)), NEW ty \in Nat,
         NEW len \in Nat, len # 0 => len >= 8, open_frame(t, ty, len)
  PROVE  t[4] = Byte(ty) /\ \E x \in W : t = seal_crc(x)
<1>. DEFINE k == Len(t) - 4
            pre == Slice(t, 0, k)
            tail == Slice(t, k, Len(t))
            S == Plain \cup Sums(W)
<1>1. k \in Nat /\ k >= 4 /\ Len(t) = k + 4
  BY DEF open_frame
<1>2. tail = crc32(pre) /\ t[4] = Byte(ty)
  BY DEF open_frame
<1>. HIDE DEF S
<1>3. \A i \in 1..Len(t) : t[i] \in S
  BY DEF S
<1>4. pre = SubSeq(t, 1, k) /\ tail = SubSeq(t, k + 1, k + 4)
  BY <1>1 DEF Slice
<1>. HIDE DEF k, pre, tail
<1>5. \A i \in 1..4 : tail[i] = t[k + i]
  <2>1. k + 1 \in Int /\ k + 4 \in Int /\ \A i \in (k + 1)..(k + 4) : t[i] \in S
    BY <1>1, <1>3
  <2>. DEFINE m == k + 1
              n == k + 4
  <2>2. \A i \in 1..(n - m + 1) : SubSeq(t, m, n)[i] = t[m + i - 1]
    <3>. HIDE DEF m, n
    <3>. QED
      BY <2>1, SubSeqProperties DEF m, n
  <2>3. n - m + 1 = 4 /\ \A i \in 1..4 : m + i - 1 = k + i
    BY <1>1
  <2>4. tail = SubSeq(t, m, n)
    BY <1>4
  <2>. HIDE DEF m, n
  <2>. QED
    BY <2>2, <2>3, <2>4
<1>6. t[k + 1] = <<1, pre, "crc", 32>>
  <2>1. crc32(pre)[1] = <<1, pre, "crc", 32>>
    BY DEF crc32
  <2>. QED
    BY <1>2, <1>5, <2>1
<1>7. pre \in W
  <2>1. t[k + 1] \in Plain \cup Sums(W)
    BY <1>1, <1>3 DEF S
  <2>2. <<1, pre, "crc", 32>> \notin Plain
    BY SumIsNotPlain
  <2>3. PICK i \in 1..4, x \in W : <<1, pre, "crc", 32>> = <<i, x, "crc", 32>>
    BY <1>6, <2>1, <2>2 DEF Sums
  <2>. QED
    BY <2>3
<1>8. t = pre \o tail
  <2>1. SubSeq(t, 1, k) \o SubSeq(t, k + 1, k + 4) = SubSeq(t, 1, k + 4)
    <3>1. 1 \in 1..(Len(t) + 1) /\ k \in (1 - 1)..Len(t) /\ k + 4 \in k..Len(t)
      BY <1>1
    <3>. QED
      BY <3>1, ConcatAdjacentSubSeq
  <2>2. SubSeq(t, 1, Len(t)) = t
    BY SubSeqFull
  <2>. QED
    BY <1>1, <1>4, <2>1, <2>2
<1>. QED
  BY <1>2, <1>7, <1>8 DEF seal_crc

(* So many bytes; the beginning of a frame up to so many bytes of its body;   *)
(* and a frame that begins with it.                                           *)
Bytes(n) == {f \in Seq(Plain) : Len(f) = n}
Upto(a) == {p \in Seq(Plain) : Len(p) = a + 4}
Opens(p, s) == \E x \in Seq(Plain) : s = seal_crc(x) /\ Starts(p, x)

(* A beginning and a field are a longer beginning.                            *)
LEMMA Extended ==
  ASSUME NEW a \in Nat, NEW n \in Nat, NEW p \in Upto(a), NEW f \in Bytes(n)
  PROVE  p \o f \in Upto(a + n)
<1>1. p \in Seq(Plain) /\ f \in Seq(Plain)
  BY DEF Upto, Bytes
<1>2. p \o f \in Seq(Plain) /\ Len(p \o f) = Len(p) + Len(f)
  BY <1>1, Longer
<1>3. Len(p) = a + 4 /\ Len(f) = n
  BY DEF Upto, Bytes
<1>. QED
  BY <1>2, <1>3 DEF Upto

(* The last field of a beginning is read where it is written.                 *)
LEMMA ReadField ==
  ASSUME NEW s, NEW a \in Nat, NEW n \in Nat,
         NEW p \in Upto(a), NEW f \in Bytes(n), Opens(p \o f, s)
  PROVE  /\ Opens(p, s)
         /\ Slice(Body(s), a, a + n) = f
         /\ \A i \in 1..n : Body(s)[a + i] = f[i]
<1>1. PICK x \in Seq(Plain) : s = seal_crc(x) /\ Starts(p \o f, x)
  BY DEF Opens
<1>. DEFINE S == Plain \cup Sums({x})
<1>2. s \in Seq(S) /\ Len(s) = Len(x) + 4 /\ \A i \in 1..Len(x) : s[i] = x[i]
  BY <1>1, SealedFrame
<1>3. p \in Seq(Plain) /\ f \in Seq(Plain) /\ Plain \subseteq S
  BY DEF Upto, Bytes
<1>. HIDE DEF S
<1>4. p \in Seq(S) /\ f \in Seq(S)
  BY <1>3, SeqMonotonic
<1>5. Len(p \o f) = Len(p) + Len(f)
  BY <1>3, Longer
<1>6. Len(p) = a + 4 /\ Len(f) = n
  BY DEF Upto, Bytes
<1>7. Starts(p, x) /\ Len(p) + Len(f) <= Len(x)
  BY <1>1, <1>3, Field
<1>8. Starts(p \o f, s)
  <2>. DEFINE q == p \o f
  <2>1. Len(q) <= Len(x) /\ \A i \in 1..Len(q) : x[i] = q[i]
    BY <1>1 DEF Starts
  <2>2. Len(q) \in Nat /\ Len(x) \in Nat
    BY <1>3, <1>5
  <2>. HIDE DEF q
  <2>3. Len(q) <= Len(s) /\ \A i \in 1..Len(q) : s[i] = q[i]
    BY <1>2, <2>1, <2>2
  <2>. QED
    BY <2>3 DEF Starts, q
<1>9. /\ Slice(Body(s), Len(p) - 4, Len(p) + Len(f) - 4) = f
      /\ \A i \in 1..Len(f) : Body(s)[Len(p) - 4 + i] = f[i]
  <2>1. Len(p) >= 4 /\ Len(p) + Len(f) <= Len(s) - 4
    BY <1>2, <1>6, <1>7
  <2>. QED
    BY <1>2, <1>4, <1>8, <2>1, BodyField
<1>10. Len(p) - 4 = a /\ Len(p) + Len(f) - 4 = a + n
  BY <1>6
<1>. QED
  BY <1>1, <1>6, <1>7, <1>9, <1>10 DEF Opens

(* Every frame on a screen: bytes that are no checksum, then theirs.          *)
Shown(s, ty) == Opens(common_header(ty), s)

(* What is known of every frame on a screen.                                  *)
LEMMA ShownFrame ==
  ASSUME NEW ty \in Nat, NEW s, Shown(s, ty)
  PROVE  /\ s[4] = Byte(ty)
         /\ \E x \in Seq(Plain) : s = seal_crc(x) /\ Len(x) >= 4
<1>. DEFINE h == common_header(ty)
<1>1. Len(h) = 4 /\ h[4] = Byte(ty)
  BY HeaderBytes
<1>2. PICK x \in Seq(Plain) : s = seal_crc(x) /\ Starts(h, x)
  BY DEF Shown, Opens
<1>. HIDE DEF h
<1>3. Len(h) <= Len(x) /\ \A i \in 1..Len(h) : x[i] = h[i]
  BY <1>2 DEF Starts
<1>4. Len(x) >= 4 /\ x[4] = Byte(ty)
  BY <1>1, <1>3
<1>5. s[4] = x[4]
  <2>1. \A i \in 1..Len(x) : seal_crc(x)[i] = x[i]
    BY SealedFrame
  <2>. QED
    BY <1>2, <1>4, <2>1
<1>. QED
  BY <1>2, <1>4, <1>5

(* A frame of another version is refused by every decoder. *)
LEMMA OtherVersionRefused ==
  ASSUME NEW ty \in Nat, NEW a, Shown(a, ty), NEW want, NEW len
  PROVE  ~open_frame(OtherVersion(a), want, len)
<1>1. PICK x \in Seq(Plain) : a = seal_crc(x) /\ Len(x) >= 4
  BY ShownFrame
<1>2. Slice(a, 0, Len(a) - 4) = x
  BY <1>1, SealedFrame
<1>. DEFINE y == ReplaceAt(x, 3, Byte(VERSION + 1))
<1>3. y \in Seq(Plain) /\ Len(y) = Len(x) /\ y[3] = Byte(VERSION + 1)
  BY <1>1 DEF ReplaceAt, Byte, VERSION, Plain
<1>4. OtherVersion(a) = seal_crc(y)
  BY <1>2 DEF OtherVersion
<1>. HIDE DEF y
<1>5. seal_crc(y)[3] = y[3]
  <2>1. \A i \in 1..Len(y) : seal_crc(y)[i] = y[i]
    BY <1>3, SealedFrame
  <2>. QED
    BY <1>1, <1>3, <2>1
<1>6. Byte(VERSION + 1) # Byte(VERSION)
  BY DEF Byte, VERSION
<1>. QED
  BY <1>3, <1>4, <1>5, <1>6 DEF open_frame

-----------------------------------------------------------------------------
(* The handshake, read back *)

(* The header reaches to the body, and so do fields of one byte and of more.  *)
LEMMA HeaderUpto ==
  ASSUME NEW ty \in Nat
  PROVE  common_header(ty) \in Upto(0)
BY HeaderBytes DEF Upto

(* Numbers as fields.                                                         *)
LEMMA FieldBytes ==
  ASSUME NEW v \in Nat
  PROVE  /\ <<Byte(v)>> \in Bytes(1) /\ <<Byte(v)>>[1][1] = v
         /\ u16_bytes(v) \in Bytes(2) /\ u32_bytes(v) \in Bytes(4)
         /\ Reverse(u16_bytes(v)) \in Bytes(2) /\ Reverse(u32_bytes(v)) \in Bytes(4)
<1>1. <<Byte(v)>>[1][1] = v
  BY DEF Byte
<1>. QED
  BY <1>1, ValueBytes DEF Bytes

(* Keys, ids and hashes as fields.                                            *)
LEMMA FillField ==
  ASSUME NEW v \in Nat, NEW n \in Nat
  PROVE  Fill(v, n) \in Bytes(n)
BY FillBytes DEF Bytes

(* A frame begins with all of itself.                                         *)
LEMMA Whole ==
  ASSUME NEW a \in Nat, NEW p \in Upto(a), NEW s, s = seal_crc(p)
  PROVE  Opens(p, s)
<1>1. p \in Seq(Plain) /\ Starts(p, p)
  BY DEF Upto, Starts
<1>. QED
  BY <1>1 DEF Opens

(* A PAIR_REQ is read as it was encoded, if it is read at all.                *)
LEMMA PairReqReadBack ==
  ASSUME NEW v \in Nat, NEW id \in Bytes(8), NEW key \in Bytes(32), NEW hint \in Bytes(4),
         NEW com \in Bytes(16),
         NEW c, c = [type |-> PAIR_REQ, flags |-> v, session_id |-> id, r_eph_pub |-> key,
                     id_hint |-> hint, r_commit |-> com]
  PROVE  Shown(EncodePairReq(c), PAIR_REQ) /\ DecodePairReq(EncodePairReq(c)) \in {Refused, c}
<1>. DEFINE p0 == common_header(PAIR_REQ)
            f1 == <<Byte(v)>>
            p1 == p0 \o f1
            p2 == p1 \o id
            p3 == p2 \o key
            p4 == p3 \o hint
            p5 == p4 \o com
            s == EncodePairReq(c)
<1>1. s = seal_crc(p5)
  BY DEF EncodePairReq
<1>2. p0 \in Upto(0) /\ f1 \in Bytes(1) /\ f1[1][1] = v
  BY HeaderUpto, FieldBytes DEF PAIR_REQ
<1>3. p1 = p0 \o f1 /\ p2 = p1 \o id /\ p3 = p2 \o key /\ p4 = p3 \o hint /\ p5 = p4 \o com
  OBVIOUS
<1>. HIDE DEF p0, f1, p1, p2, p3, p4, p5, s
<1>4. p1 \in Upto(1)
  <2>1. p0 \o f1 \in Upto(0 + 1)
    BY <1>2, Extended
  <2>. QED
    BY <1>3, <2>1
<1>5. p2 \in Upto(9)
  BY <1>3, <1>4, Extended
<1>6. p3 \in Upto(41)
  BY <1>3, <1>5, Extended
<1>7. p4 \in Upto(45)
  BY <1>3, <1>6, Extended
<1>8. p5 \in Upto(61)
  BY <1>3, <1>7, Extended
<1>9. Opens(p5, s)
  BY <1>1, <1>8, Whole
<1>10. Opens(p4, s) /\ Slice(Body(s), 45, 61) = com
  BY <1>3, <1>7, <1>9, ReadField
<1>11. Opens(p3, s) /\ Slice(Body(s), 41, 45) = hint
  BY <1>3, <1>6, <1>10, ReadField
<1>12. Opens(p2, s) /\ Slice(Body(s), 9, 41) = key
  BY <1>3, <1>5, <1>11, ReadField
<1>13. Opens(p1, s) /\ Slice(Body(s), 1, 9) = id
  BY <1>3, <1>4, <1>12, ReadField
<1>14. Opens(p0, s) /\ Body(s)[1] = f1[1]
  BY <1>2, <1>3, <1>13, ReadField
<1>15. DecodePairReq(s) \in {Refused, c}
  BY <1>2, <1>10, <1>11, <1>12, <1>13, <1>14 DEF DecodePairReq
<1>16. Shown(s, PAIR_REQ)
  BY <1>14 DEF Shown, p0
<1>. QED
  BY <1>15, <1>16 DEF s

(* And so is a REVEAL.                                                        *)
LEMMA RevealReadBack ==
  ASSUME NEW id \in Bytes(4), NEW non \in Bytes(16),
         NEW c, c = [type |-> REVEAL, sid4 |-> id, r_nonce |-> non]
  PROVE  Shown(EncodeReveal(c), REVEAL) /\ DecodeReveal(EncodeReveal(c)) \in {Refused, c}
<1>. DEFINE p0 == common_header(REVEAL)
            p1 == p0 \o id
            p2 == p1 \o non
            s == EncodeReveal(c)
<1>1. s = seal_crc(p2)
  BY DEF EncodeReveal
<1>2. p0 \in Upto(0)
  BY HeaderUpto DEF REVEAL
<1>3. p1 = p0 \o id /\ p2 = p1 \o non
  OBVIOUS
<1>. HIDE DEF p0, p1, p2, s
<1>4. p1 \in Upto(4)
  BY <1>2, <1>3, Extended
<1>5. p2 \in Upto(20)
  BY <1>3, <1>4, Extended
<1>6. Opens(p2, s)
  BY <1>1, <1>5, Whole
<1>7. Opens(p1, s) /\ Slice(Body(s), 4, 20) = non
  BY <1>3, <1>4, <1>6, ReadField
<1>8. Opens(p0, s) /\ Slice(Body(s), 0, 4) = id
  BY <1>2, <1>3, <1>7, ReadField
<1>9. DecodeReveal(s) \in {Refused, c}
  BY <1>7, <1>8 DEF DecodeReveal
<1>10. Shown(s, REVEAL)
  BY <1>8 DEF Shown, p0
<1>. QED
  BY <1>9, <1>10 DEF s

(* And a COMPLETE, whose status has two values.                               *)
LEMMA CompleteReadBack ==
  ASSUME NEW id \in Bytes(4), NEW v \in {0, 1}, NEW h \in Bytes(8),
         NEW c, c = [type |-> COMPLETE, sid4 |-> id, status |-> v, hash8 |-> h]
  PROVE  Shown(EncodeComplete(c), COMPLETE) /\ DecodeComplete(EncodeComplete(c)) \in {Refused, c}
<1>. DEFINE p0 == common_header(COMPLETE)
            f2 == <<Byte(v)>>
            p1 == p0 \o id
            p2 == p1 \o f2
            p3 == p2 \o h
            s == EncodeComplete(c)
<1>1. s = seal_crc(p3)
  BY DEF EncodeComplete
<1>2. p0 \in Upto(0) /\ f2 \in Bytes(1)
  BY HeaderUpto, FieldBytes DEF COMPLETE
<1>3. f2[1][1] = v
  BY DEF Byte
<1>4. p1 = p0 \o id /\ p2 = p1 \o f2 /\ p3 = p2 \o h
  OBVIOUS
<1>. HIDE DEF p0, f2, p1, p2, p3, s
<1>5. p1 \in Upto(4)
  BY <1>2, <1>4, Extended
<1>6. p2 \in Upto(5)
  BY <1>2, <1>4, <1>5, Extended
<1>7. p3 \in Upto(13)
  BY <1>4, <1>6, Extended
<1>8. Opens(p3, s)
  BY <1>1, <1>7, Whole
<1>9. Opens(p2, s) /\ Slice(Body(s), 5, 13) = h
  BY <1>4, <1>6, <1>8, ReadField
<1>10. Opens(p1, s) /\ Body(s)[5] = f2[1]
  BY <1>2, <1>4, <1>5, <1>9, ReadField
<1>11. Opens(p0, s) /\ Slice(Body(s), 0, 4) = id
  BY <1>2, <1>4, <1>10, ReadField
<1>12. DecodeComplete(s) \in {Refused, c}
  BY <1>9, <1>10, <1>11, <1>3 DEF DecodeComplete
<1>13. Shown(s, COMPLETE)
  BY <1>11 DEF Shown, p0
<1>. QED
  BY <1>12, <1>13 DEF s

-----------------------------------------------------------------------------
(* The beacon, read back *)

(* Every field of a beacon is where the decoder looks for it.                 *)
LEMMA BeaconFields ==
  ASSUME NEW f1 \in Bytes(2), NEW id \in Bytes(8), NEW key \in Bytes(32), NEW non \in Bytes(24),
         NEW f5 \in Bytes(4), NEW info \in Bytes(12), NEW f7 \in Bytes(2), NEW f8 \in Bytes(2),
         NEW h \in Bytes(8),
         NEW s, s = seal_crc(common_header(BEACON) \o f1 \o id \o key \o non \o f5 \o info
                             \o f7 \o f8 \o h)
  PROVE  /\ Shown(s, BEACON)
         /\ Body(s)[1] = f1[1] /\ Body(s)[2] = f1[2] /\ Slice(Body(s), 2, 10) = id
         /\ Slice(Body(s), 10, 42) = key /\ Slice(Body(s), 42, 66) = non
         /\ Slice(Body(s), 66, 70) = f5 /\ Slice(Body(s), 70, 82) = info
         /\ Slice(Body(s), 82, 84) = f7 /\ Body(s)[85] = f8[1] /\ Body(s)[86] = f8[2]
         /\ Slice(Body(s), 86, 94) = h
<1>. DEFINE p0 == common_header(BEACON)
            p1 == p0 \o f1
            p2 == p1 \o id
            p3 == p2 \o key
            p4 == p3 \o non
            p5 == p4 \o f5
            p6 == p5 \o info
            p7 == p6 \o f7
            p8 == p7 \o f8
            p9 == p8 \o h
<1>1. s = seal_crc(p9)
  OBVIOUS
<1>2. p0 \in Upto(0)
  BY HeaderUpto DEF BEACON
<1>3. /\ p1 = p0 \o f1 /\ p2 = p1 \o id /\ p3 = p2 \o key /\ p4 = p3 \o non /\ p5 = p4 \o f5
      /\ p6 = p5 \o info /\ p7 = p6 \o f7 /\ p8 = p7 \o f8 /\ p9 = p8 \o h
  OBVIOUS
<1>. HIDE DEF p0, p1, p2, p3, p4, p5, p6, p7, p8, p9
<1>4. p1 \in Upto(2)
  BY <1>2, <1>3, Extended
<1>5. p2 \in Upto(10)
  BY <1>3, <1>4, Extended
<1>6. p3 \in Upto(42)
  BY <1>3, <1>5, Extended, SMTT(30)
<1>7. p4 \in Upto(66)
  BY <1>3, <1>6, Extended, SMTT(30)
<1>8. p5 \in Upto(70)
  BY <1>2, <1>3, <1>7, Extended, SMTT(30)
<1>9. p6 \in Upto(82)
  BY <1>3, <1>8, Extended, SMTT(30)
<1>10. p7 \in Upto(84)
  BY <1>2, <1>3, <1>9, Extended, SMTT(30)
<1>11. p8 \in Upto(86)
  BY <1>3, <1>10, Extended, SMTT(30)
<1>12. p9 \in Upto(94)
  BY <1>3, <1>11, Extended, SMTT(30)
<1>13. Opens(p9, s)
  BY <1>1, <1>12, Whole
<1>14. Opens(p8, s) /\ Slice(Body(s), 86, 94) = h
  BY <1>3, <1>11, <1>13, ReadField, SMTT(30)
<1>15. Opens(p7, s) /\ Body(s)[85] = f8[1] /\ Body(s)[86] = f8[2]
  BY <1>3, <1>10, <1>14, ReadField, SMTT(30)
<1>16. Opens(p6, s) /\ Slice(Body(s), 82, 84) = f7
  BY <1>2, <1>3, <1>9, <1>15, ReadField, SMTT(30)
<1>17. Opens(p5, s) /\ Slice(Body(s), 70, 82) = info
  BY <1>3, <1>8, <1>16, ReadField, SMTT(30)
<1>18. Opens(p4, s) /\ Slice(Body(s), 66, 70) = f5
  BY <1>2, <1>3, <1>7, <1>17, ReadField, SMTT(30)
<1>19. Opens(p3, s) /\ Slice(Body(s), 42, 66) = non
  BY <1>3, <1>6, <1>18, ReadField, SMTT(30)
<1>20. Opens(p2, s) /\ Slice(Body(s), 10, 42) = key
  BY <1>3, <1>5, <1>19, ReadField, SMTT(30)
<1>21. Opens(p1, s) /\ Slice(Body(s), 2, 10) = id
  BY <1>3, <1>4, <1>20, ReadField, SMTT(30)
<1>22. Opens(p0, s) /\ Body(s)[1] = f1[1] /\ Body(s)[2] = f1[2]
  BY <1>2, <1>3, <1>21, ReadField, SMTT(30)
<1>. QED
  BY <1>14, <1>15, <1>16, <1>17, <1>18, <1>19, <1>20, <1>21, <1>22 DEF Shown, p0

(* What fits in two and in four bytes. *)
U16 == {v \in Nat : v < 65536}
U32 == {v \in Nat : v \div 65536 < 65536}

(* Numbers within their width come back from their bytes, either way round.   *)
LEMMA WordBytes ==
  /\ \A v \in U16 : v \in Nat /\ u16_bytes(v) \in Bytes(2) /\ u16_from(u16_bytes(v)) = v
                     /\ u16_from(Reverse(Reverse(u16_bytes(v)))) = v
  /\ \A v \in U32 : v \in Nat /\ u32_bytes(v) \in Bytes(4) /\ u32_from(u32_bytes(v)) = v
                     /\ u32_from(Reverse(Reverse(u32_bytes(v)))) = v
<1>1. \A v \in Nat : u16_bytes(v) \in Bytes(2) /\ u32_bytes(v) \in Bytes(4)
  BY FieldBytes
<1>2. ASSUME NEW v \in U16
      PROVE  v \in Nat /\ u16_from(u16_bytes(v)) = v /\ u16_from(Reverse(Reverse(u16_bytes(v)))) = v
  BY ValueReadBack DEF U16
<1>3. ASSUME NEW v \in U32
      PROVE  v \in Nat /\ u32_from(u32_bytes(v)) = v /\ u32_from(Reverse(Reverse(u32_bytes(v)))) = v
  BY ValueReadBack DEF U32
<1>. QED
  BY <1>1, <1>2, <1>3

(* A beacon is read as it was encoded, if it is read at all.                  *)
LEMMA BeaconReadBack ==
  ASSUME NEW v \in Nat, NEW w \in Nat, NEW id \in Bytes(8), NEW key \in Bytes(32),
         NEW non \in Bytes(24), NEW len \in U32, NEW info \in Bytes(12),
         NEW sz \in U16, NEW pal \in Nat, NEW px \in Nat, NEW h \in Bytes(8),
         NEW c, c = [type |-> BEACON, mode |-> v, flags |-> w, session_id |-> id,
                     s_eph_pub |-> key, nonce |-> non, plaintext_len |-> len, oti |-> info,
                     symbol_size |-> sz, palette |-> pal, tile_px |-> px, build_hash |-> h]
  PROVE  Shown(EncodeBeacon(c), BEACON) /\ DecodeBeacon(EncodeBeacon(c)) \in {Refused, c}
<1>. DEFINE f1 == <<Byte(v), Byte(w)>>
            f5 == u32_bytes(len)
            f7 == u16_bytes(sz)
            f8 == <<Byte(pal), Byte(px)>>
            s == EncodeBeacon(c)
<1>1. f5 \in Bytes(4) /\ f7 \in Bytes(2) /\ u32_from(f5) = len /\ u16_from(f7) = sz
  BY WordBytes
<1>2. /\ f1 \in Bytes(2) /\ f1[1][1] = v /\ f1[2][1] = w
      /\ f8 \in Bytes(2) /\ f8[1][1] = pal /\ f8[2][1] = px
  BY DEF Bytes, Byte, Plain
<1>3. s = seal_crc(common_header(BEACON) \o f1 \o id \o key \o non \o f5 \o info
                   \o f7 \o f8 \o h)
  BY DEF EncodeBeacon
<1>. HIDE DEF f1, f5, f7, f8, s
<1>4. /\ Shown(s, BEACON)
      /\ Body(s)[1] = f1[1] /\ Body(s)[2] = f1[2] /\ Slice(Body(s), 2, 10) = id
      /\ Slice(Body(s), 10, 42) = key /\ Slice(Body(s), 42, 66) = non
      /\ Slice(Body(s), 66, 70) = f5 /\ Slice(Body(s), 70, 82) = info
      /\ Slice(Body(s), 82, 84) = f7 /\ Body(s)[85] = f8[1] /\ Body(s)[86] = f8[2]
      /\ Slice(Body(s), 86, 94) = h
  BY <1>1, <1>2, <1>3, BeaconFields
<1>5. DecodeBeacon(s) \in {Refused, c}
  BY <1>1, <1>2, <1>4 DEF DecodeBeacon
<1>. QED
  BY <1>4, <1>5 DEF s

-----------------------------------------------------------------------------
(* Names, types and envelopes *)

(* What a filter keeps is built up place by place.                            *)
LEMMA KeptSteps ==
  ASSUME NEW S, NEW s \in Seq(S), NEW keep
  PROVE  \E F : /\ Kept(s, keep) = F[Len(s)] /\ F[0] = <<>>
                /\ \A i \in 1..Len(s) :
                     F[i] = IF s[i] \in keep THEN Append(F[i - 1], s[i]) ELSE F[i - 1]
<1>. DEFINE N == Len(s)
            Step(f, n) == [i \in 0..n |-> IF i = 0 THEN <<>>
                             ELSE IF s[i] \in keep THEN Append(f[i - 1], s[i]) ELSE f[i - 1]]
            Has(n) == \E f : f = Step(f, n)
            G == CHOOSE f : f = Step(f, N)
<1>1. N \in Nat /\ Kept(s, keep) = G[N]
  BY DEF Kept
<1>2. Has(0)
  <2>. DEFINE f == [i \in 0..0 |-> <<>>]
  <2>1. f = Step(f, 0)
    OBVIOUS
  <2>. QED
    BY <2>1
<1>3. ASSUME NEW n \in Nat, Has(n) PROVE Has(n + 1)
  <2>1. PICK f : f = Step(f, n)
    BY <1>3
  <2>. DEFINE e(p, i) == IF s[i] \in keep THEN Append(p, s[i]) ELSE p
              g == [i \in 0..(n + 1) |-> IF i \in 0..n THEN f[i] ELSE e(f[i - 1], i)]
  <2>2. \A i \in 0..n : f[i] = IF i = 0 THEN <<>> ELSE e(f[i - 1], i)
    BY <2>1
  <2>3. ASSUME NEW i \in 0..(n + 1)
        PROVE  g[i] = IF i = 0 THEN <<>> ELSE e(g[i - 1], i)
    <3>1. i = 0 \/ (i > 0 /\ i - 1 \in 0..n)
      OBVIOUS
    <3>2. g[i] = IF i \in 0..n THEN f[i] ELSE e(f[i - 1], i)
      OBVIOUS
    <3>3. i > 0 => g[i - 1] = f[i - 1]
      BY <3>1
    <3>. HIDE DEF g, e
    <3>. QED
      BY <2>2, <3>1, <3>2, <3>3
  <2>4. g = Step(g, n + 1)
    BY <2>3
  <2>. QED
    BY <2>4
<1>4. Has(N)
  <2>. HIDE DEF Has, G
  <2>. DEFINE T == {n \in 0..N : ~Has(n)}
  <2>1. SUFFICES ASSUME N \in T PROVE FALSE
    BY <1>1
  <2>2. PICK n \in T : \A m \in T : n <= m
    <3>1. T \in SUBSET Nat /\ T # {}
      BY <1>1, <2>1
    <3>. HIDE DEF T
    <3>. QED
      BY <3>1, LeastElement
  <2>. DEFINE m == n - 1
  <2>3. m \in Nat /\ m \in 0..N /\ m + 1 = n
    BY <1>1, <1>2, <2>2
  <2>4. Has(m)
    BY <2>2, <2>3
  <2>. HIDE DEF m
  <2>5. Has(n)
    BY <1>3, <2>3, <2>4, SMTT(30)
  <2>. QED
    BY <2>2, <2>5
<1>5. G = Step(G, N)
  BY <1>4
<1>. HIDE DEF G, N
<1>6. G[0] = <<>>
  BY <1>1, <1>5
<1>7. ASSUME NEW i \in 1..N
      PROVE  G[i] = IF s[i] \in keep THEN Append(G[i - 1], s[i]) ELSE G[i - 1]
  <2>1. i \in 0..N /\ i # 0
    BY <1>1
  <2>. QED
    BY <1>5, <2>1
<1>. QED
  BY <1>1, <1>6, <1>7 DEF N

(* What a filter keeps is a sequence of what may be kept.                     *)
LEMMA KeptType ==
  ASSUME NEW S, NEW s \in Seq(S), NEW keep
  PROVE  Kept(s, keep) \in Seq({x \in S : x \in keep})
<1>. DEFINE N == Len(s)
            R == {x \in S : x \in keep}
<1>1. PICK F : /\ Kept(s, keep) = F[N] /\ F[0] = <<>>
               /\ \A i \in 1..N :
                    F[i] = IF s[i] \in keep THEN Append(F[i - 1], s[i]) ELSE F[i - 1]
  BY KeptSteps
<1>2. N \in Nat /\ \A i \in 1..N : s[i] \in S
  OBVIOUS
<1>3. \A i \in 1..N : s[i] \in keep => s[i] \in R
  BY <1>2
<1>. HIDE DEF N, R
<1>4. SUFFICES ASSUME F[N] \notin Seq(R) PROVE FALSE
  BY <1>1 DEF R
<1>. DEFINE T == {j \in 0..N : F[j] \notin Seq(R)}
<1>5. PICK j \in T : \A m \in T : j <= m
  <2>1. T \in SUBSET Nat /\ N \in T
    BY <1>2, <1>4
  <2>. HIDE DEF T
  <2>. QED
    BY <2>1, LeastElement
<1>6. j # 0
  <2>1. <<>> \in Seq(R)
    BY EmptySeq
  <2>. QED
    BY <1>1, <1>5, <2>1
<1>7. j \in 1..N /\ j - 1 \in 0..N /\ j - 1 < j
  BY <1>2, <1>5, <1>6
<1>8. F[j - 1] \in Seq(R)
  BY <1>2, <1>5, <1>7
<1>9. F[j] \in Seq(R)
  <2>1. CASE s[j] \in keep
    <3>1. s[j] \in R /\ F[j] = Append(F[j - 1], s[j])
      BY <1>1, <1>3, <1>7, <2>1
    <3>2. Append(F[j - 1], s[j]) \in Seq(R)
      BY <1>8, <3>1, AppendProperties
    <3>. QED
      BY <3>1, <3>2
  <2>2. CASE s[j] \notin keep
    BY <1>1, <1>7, <1>8, <2>2
  <2>. QED
    BY <2>1, <2>2
<1>. QED
  BY <1>5, <1>9

(* The least and the greatest of a set of places.                             *)
LEMMA Extremes ==
  ASSUME NEW n \in Nat, NEW T, T \subseteq 0..n, T # {}
  PROVE  /\ Min(T) \in T /\ \A y \in T : Min(T) <= y
         /\ Max(T) \in T /\ \A y \in T : y <= Max(T)
<1>1. PICK x \in T : \A y \in T : x <= y
  BY LeastElement
<1>2. Min(T) \in T /\ \A y \in T : Min(T) <= y
  BY <1>1 DEF Min
<1>. DEFINE U == {n - y : y \in T}
<1>3. PICK u \in U : \A v \in U : u <= v
  <2>1. U \in SUBSET Nat /\ U # {}
    OBVIOUS
  <2>. HIDE DEF U
  <2>. QED
    BY <2>1, LeastElement
<1>4. PICK z \in T : u = n - z
  BY <1>3
<1>5. ASSUME NEW y \in T PROVE y <= z
  <2>1. u <= n - y
    BY <1>3
  <2>. QED
    BY <1>4, <2>1
<1>6. Max(T) \in T /\ \A y \in T : y <= Max(T)
  BY <1>4, <1>5 DEF Max
<1>. QED
  BY <1>2, <1>6

(* Part of a sequence is one, of the length of the part.                      *)
LEMMA PartType ==
  ASSUME NEW S, NEW s \in Seq(S), NEW i \in 1..(Len(s) + 1), NEW j \in (i - 1)..Len(s)
  PROVE  SubSeq(s, i, j) \in Seq(S) /\ Len(SubSeq(s, i, j)) = j - i + 1
<1>1. i \in Int /\ j \in Int /\ \A k \in i..j : s[k] \in S
  OBVIOUS
<1>2. /\ SubSeq(s, i, j) \in Seq(S)
      /\ Len(SubSeq(s, i, j)) = IF i <= j THEN j - i + 1 ELSE 0
  BY <1>1, SubSeqProperties
<1>. QED
  BY <1>2

(* Trimming gives a sequence, and no longer one.                              *)
LEMMA TrimOfType ==
  ASSUME NEW S, NEW s \in Seq(S), NEW drop
  PROVE  TrimOf(s, drop) \in Seq(S) /\ Len(TrimOf(s, drop)) <= Len(s)
<1>. DEFINE keep == {i \in DOMAIN s : s[i] \notin drop}
<1>1. TrimOf(s, drop) = IF keep = {} THEN <<>> ELSE SubSeq(s, Min(keep), Max(keep))
  BY DEF TrimOf
<1>2. keep \subseteq 0..Len(s) /\ keep \subseteq 1..Len(s) /\ Len(s) \in Nat
  OBVIOUS
<1>. HIDE DEF keep
<1>3. CASE keep = {}
  BY <1>1, <1>3
<1>4. CASE keep # {}
  <2>1. /\ Min(keep) \in keep /\ \A y \in keep : Min(keep) <= y
        /\ Max(keep) \in keep /\ \A y \in keep : y <= Max(keep)
    BY <1>2, <1>4, Extremes
  <2>. DEFINE i == Min(keep)
              j == Max(keep)
  <2>2. i \in 1..Len(s) /\ j \in 1..Len(s) /\ i <= j
    BY <1>2, <2>1
  <2>3. i \in 1..(Len(s) + 1) /\ j \in (i - 1)..Len(s) /\ j - i + 1 <= Len(s)
    <3>. HIDE DEF i, j
    <3>. QED
      BY <1>2, <2>2
  <2>. HIDE DEF i, j
  <2>4. SubSeq(s, i, j) \in Seq(S) /\ Len(SubSeq(s, i, j)) = j - i + 1
    BY <2>3, PartType
  <2>5. TrimOf(s, drop) = SubSeq(s, i, j)
    BY <1>1, <1>4 DEF i, j
  <2>. QED
    BY <2>3, <2>4, <2>5
<1>. QED
  BY <1>3, <1>4

(* So does trimming all three times.                                          *)
LEMMA TrimType ==
  ASSUME NEW S, NEW s \in Seq(S)
  PROVE  Trim(s) \in Seq(S) /\ Len(Trim(s)) <= Len(s)
<1>1. TrimOf(s, White) \in Seq(S) /\ Len(TrimOf(s, White)) <= Len(s)
  BY TrimOfType
<1>. DEFINE a == TrimOf(s, White)
            b == TrimOf(a, {Dot})
<1>2. b \in Seq(S) /\ Len(b) <= Len(a)
  BY <1>1, TrimOfType
<1>. HIDE DEF b
<1>3. TrimOf(b, White) \in Seq(S) /\ Len(TrimOf(b, White)) <= Len(b)
  BY <1>2, TrimOfType
<1>. QED
  BY <1>1, <1>2, <1>3 DEF Trim, b

(* What may be in a name: neither a separator nor a control character.        *)
Unseparated == {c \in Nat : c \notin {Slash, Backslash}}
Harmless == {c \in Unseparated : ~IsControl(c)}

(* What follows the last separator has none.                                  *)
LEMMA BaseType ==
  ASSUME NEW raw \in Seq(Nat)
  PROVE  Base(raw) \in Seq(Unseparated)
<1>. DEFINE n == Len(raw)
            cuts == {i \in DOMAIN raw : raw[i] \in {Slash, Backslash}}
            T == cuts \cup {0}
            m == Max(T)
<1>1. n \in Nat /\ T \subseteq 0..n /\ T # {} /\ Base(raw) = SubSeq(raw, 1 + m, n)
  BY DEF Base
<1>. HIDE DEF n
<1>2. m \in T /\ \A y \in T : y <= m
  <2>. HIDE DEF T
  <2>. QED
    BY <1>1, Extremes
<1>3. m \in 0..n
  BY <1>1, <1>2
<1>4. ASSUME NEW k \in (1 + m)..n PROVE raw[k] \in Unseparated
  <2>1. k \notin T /\ k \in 1..n
    <3>1. k \in Int /\ k >= 1 + m /\ k <= n /\ m \in Nat /\ n \in Nat
      BY <1>1, <1>3
    <3>2. ~(k <= m) /\ k \in 1..n
      <4>. HIDE DEF m
      <4>. QED
        BY <3>1
    <3>. HIDE DEF m, T
    <3>. QED
      BY <1>2, <3>2
  <2>2. k \notin cuts /\ k \in DOMAIN raw /\ raw[k] \in Nat
    BY <2>1 DEF n
  <2>. QED
    BY <2>2 DEF Unseparated
<1>5. 1 + m \in Int /\ n \in Int
  BY <1>1, <1>3
<1>. HIDE DEF m
<1>6. SubSeq(raw, 1 + m, n) \in Seq(Unseparated)
  BY <1>4, <1>5, SubSeqProperties, SMTT(30)
<1>. QED
  BY <1>1, <1>6

(* An extension worth keeping: where it begins, how long it is, what is in it. *)
LEMMA ExtensionPlace ==
  ASSUME NEW S, NEW s \in Seq(S)
  PROVE  /\ ExtensionAt(s) \in 0..Len(s)
         /\ ExtensionAt(s) # 0 =>
              /\ Len(s) - ExtensionAt(s) \in 1..16 /\ s[ExtensionAt(s)] = Dot
              /\ \A i \in (ExtensionAt(s) + 1)..Len(s) : s[i] # Dot
<1>. DEFINE n == Len(s)
            T == {i \in DOMAIN s : s[i] = Dot} \cup {0}
            m == Max(T)
<1>1. n \in Nat /\ T \subseteq 0..n /\ T # {} /\ DOMAIN s = 1..n
  OBVIOUS
<1>2. ExtensionAt(s) = IF m # 0 /\ (n - m) \in 1..16 THEN m ELSE 0
  BY DEF ExtensionAt
<1>. HIDE DEF n
<1>3. m \in T /\ \A y \in T : y <= m
  <2>. HIDE DEF T
  <2>. QED
    BY <1>1, Extremes
<1>4. m \in 0..n /\ (m # 0 => s[m] = Dot)
  BY <1>1, <1>3
<1>5. \A i \in (m + 1)..n : s[i] # Dot
  <2>1. ASSUME NEW i \in (m + 1)..n, s[i] = Dot PROVE FALSE
    <3>1. i \in 1..n /\ ~(i <= m)
      BY <1>1, <1>4
    <3>2. i \in T
      BY <1>1, <2>1, <3>1
    <3>. QED
      BY <1>3, <3>1, <3>2
  <2>. QED
    BY <2>1
<1>. HIDE DEF m
<1>. QED
  BY <1>1, <1>2, <1>4, <1>5 DEF n

(* A shortened name fits.                                                     *)
LEMMA ShortenType ==
  ASSUME NEW S, NEW s \in Seq(S)
  PROVE  Shorten(s) \in Seq(S) /\ Len(Shorten(s)) <= MAX_NAME
<1>. DEFINE n == Len(s)
            dot == ExtensionAt(s)
            ext == IF dot = 0 THEN <<>> ELSE SubSeq(s, dot, n)
            stem == IF dot = 0 THEN s ELSE SubSeq(s, 1, dot - 1)
            keep == MAX_NAME - Len(ext)
            k == Min({keep, Len(stem)})
<1>1. Shorten(s) = SubSeq(stem, 1, k) \o ext
  BY DEF Shorten
<1>2. n \in Nat /\ dot \in 0..n /\ (dot # 0 => n - dot \in 1..16)
  BY ExtensionPlace
<1>. HIDE DEF dot
<1>3. ext \in Seq(S) /\ Len(ext) <= 17
  <2>1. CASE dot = 0
    BY <2>1
  <2>2. CASE dot # 0
    <3>1. dot \in 1..(Len(s) + 1) /\ n \in (dot - 1)..Len(s) /\ n - dot + 1 <= 17
      BY <1>2, <2>2
    <3>2. SubSeq(s, dot, n) \in Seq(S) /\ Len(SubSeq(s, dot, n)) = n - dot + 1
      BY <3>1, PartType
    <3>. QED
      BY <2>2, <3>1, <3>2
  <2>. QED
    BY <2>1, <2>2
<1>4. stem \in Seq(S)
  <2>1. CASE dot = 0
    BY <2>1
  <2>2. CASE dot # 0
    <3>1. 1 \in 1..(Len(s) + 1) /\ dot - 1 \in (1 - 1)..Len(s)
      BY <1>2, <2>2
    <3>2. SubSeq(s, 1, dot - 1) \in Seq(S)
      BY <3>1, PartType
    <3>. QED
      BY <2>2, <3>2
  <2>. QED
    BY <2>1, <2>2
<1>. HIDE DEF ext, stem
<1>5. keep \in Nat /\ Len(stem) \in Nat /\ keep + Len(ext) = MAX_NAME
  BY <1>3, <1>4 DEF MAX_NAME
<1>. HIDE DEF keep
<1>6. k \in Nat /\ k <= Len(stem) /\ k <= keep
  <2>1. CASE keep <= Len(stem)
    <3>1. k = keep
      BY <1>5, <2>1 DEF Min
    <3>. QED
      BY <1>5, <2>1, <3>1
  <2>2. CASE Len(stem) <= keep
    <3>1. k = Len(stem)
      BY <1>5, <2>2 DEF Min
    <3>. QED
      BY <1>5, <2>2, <3>1
  <2>. QED
    BY <1>5, <2>1, <2>2
<1>. HIDE DEF k
<1>7. SubSeq(stem, 1, k) \in Seq(S) /\ Len(SubSeq(stem, 1, k)) = k
  <2>1. 1 \in 1..(Len(stem) + 1) /\ k \in (1 - 1)..Len(stem) /\ k - 1 + 1 = k
    BY <1>5, <1>6
  <2>. QED
    BY <1>4, <2>1, PartType
<1>8. /\ SubSeq(stem, 1, k) \o ext \in Seq(S)
      /\ Len(SubSeq(stem, 1, k) \o ext) = Len(SubSeq(stem, 1, k)) + Len(ext)
  BY <1>3, <1>7, Longer
<1>. QED
  BY <1>1, <1>3, <1>5, <1>6, <1>7, <1>8

(* A cleaned name is harmless, whatever was claimed. *)
LEMMA SafeNameType ==
  ASSUME NEW raw \in Seq(Nat), safe_name(raw) # None
  PROVE  /\ safe_name(raw) \in Seq(Harmless)
         /\ Len(safe_name(raw)) \in 1..MAX_NAME
<1>. DEFINE base == Base(raw)
            kept == Kept(base, {c \in Range(base) : ~IsControl(c)})
            trimmed == Trim(kept)
            whole == IF Len(trimmed) <= MAX_NAME THEN trimmed ELSE Trim(Shorten(trimmed))
<1>1. safe_name(raw) = whole /\ whole # <<>>
  BY DEF safe_name
<1>2. base \in Seq(Unseparated)
  BY BaseType
<1>3. kept \in Seq(Harmless)
  <2>. DEFINE keep == {c \in Range(base) : ~IsControl(c)}
              R == {x \in Unseparated : x \in keep}
  <2>. HIDE DEF base
  <2>1. kept \in Seq(R)
    BY <1>2, KeptType
  <2>2. R \subseteq Harmless
    BY DEF Harmless
  <2>. HIDE DEF R, kept
  <2>. QED
    BY <2>1, <2>2, SeqMonotonic
<1>. HIDE DEF kept
<1>4. trimmed \in Seq(Harmless)
  BY <1>3, TrimType
<1>. HIDE DEF trimmed
<1>5. Shorten(trimmed) \in Seq(Harmless) /\ Len(Shorten(trimmed)) <= MAX_NAME
  BY <1>4, ShortenType
<1>. DEFINE short == Shorten(trimmed)
<1>. HIDE DEF short
<1>6. Trim(short) \in Seq(Harmless) /\ Len(Trim(short)) <= Len(short)
  BY <1>5, TrimType DEF short
<1>7. whole \in Seq(Harmless) /\ Len(whole) <= MAX_NAME
  <2>1. MAX_NAME \in Nat
    BY DEF MAX_NAME
  <2>2. CASE Len(trimmed) <= MAX_NAME
    BY <1>4, <2>2
  <2>3. CASE ~(Len(trimmed) <= MAX_NAME)
    <3>1. whole = Trim(short)
      BY <2>3 DEF short
    <3>2. Len(Trim(short)) \in Nat /\ Len(short) \in Nat
      BY <1>5, <1>6 DEF short
    <3>. HIDE DEF whole
    <3>. QED
      BY <1>5, <1>6, <2>1, <3>1, <3>2 DEF short
  <2>. QED
    BY <2>2, <2>3
<1>. HIDE DEF whole
<1>8. Len(whole) \in Nat /\ Len(whole) # 0
  BY <1>1, <1>7
<1>9. Len(whole) \in 1..MAX_NAME
  <2>. DEFINE n == Len(whole)
  <2>1. n \in Nat /\ n # 0 /\ n <= 96
    BY <1>7, <1>8 DEF MAX_NAME
  <2>. HIDE DEF n
  <2>2. n \in 1..96
    BY <2>1
  <2>. QED
    BY <2>2 DEF MAX_NAME, n
<1>. QED
  BY <1>1, <1>7, <1>9

(* A character in UTF-8. *)
Piece(c) == IF Width(c) = 1 THEN <<<<c>>>> ELSE [j \in 1..Width(c) |-> <<c, j, Width(c)>>]
Utf8 == {<<c>> : c \in Nat} \cup {<<c, j, w>> : c \in Nat, j \in Nat, w \in Nat}

(* A character takes one to four bytes, and one only below 128.               *)
LEMMA PieceType ==
  ASSUME NEW c \in Nat
  PROVE  /\ Width(c) \in 1..4 /\ Piece(c) \in Seq(Utf8) /\ Len(Piece(c)) = Width(c)
         /\ Width(c) = 1 => c < 128
<1>1. Width(c) \in 1..4 /\ (Width(c) = 1 => c < 128)
  BY DEF Width
<1>2. CASE Width(c) = 1
  <2>1. <<c>> \in Utf8
    BY DEF Utf8
  <2>2. Piece(c) = <<<<c>>>>
    BY <1>2 DEF Piece
  <2>. QED
    BY <1>1, <1>2, <2>1, <2>2
<1>3. CASE Width(c) # 1
  <2>. DEFINE w == Width(c)
  <2>1. Piece(c) = [j \in 1..w |-> <<c, j, w>>]
    BY <1>3 DEF Piece
  <2>2. w \in Nat
    BY <1>1
  <2>. HIDE DEF w
  <2>3. \A j \in 1..w : <<c, j, w>> \in Utf8
    BY <2>2 DEF Utf8
  <2>4. Piece(c) \in Seq(Utf8) /\ Len(Piece(c)) = w
    BY <2>1, <2>2, <2>3
  <2>. QED
    BY <1>1, <2>4 DEF w
<1>. QED
  BY <1>2, <1>3

(* A name is written in bytes of UTF-8.                                       *)
LEMMA NameBytes ==
  ASSUME NEW name \in Seq(Nat)
  PROVE  as_bytes(name) \in Seq(Utf8)
<1>. DEFINE rows == [i \in DOMAIN name |-> Piece(name[i])]
<1>1. as_bytes(name) = FlattenSeq(rows)
  BY DEF as_bytes, Piece
<1>2. \A i \in 1..Len(name) : Piece(name[i]) \in Seq(Utf8)
  <2>1. \A c \in Nat : Piece(c) \in Seq(Utf8)
    BY PieceType
  <2>. QED
    BY <2>1, SMTT(30)
<1>3. rows \in Seq(Seq(Utf8))
  BY <1>2
<1>. HIDE DEF rows
<1>. QED
  BY <1>1, <1>3, FlattenType

(* A cleaned type is a type. *)
LEMMA SafeMimeType ==
  ASSUME NEW m \in {None} \cup MimeType, safe_mime(m) # None
  PROVE  /\ safe_mime(m) = [m EXCEPT !.extra = FALSE] /\ safe_mime(m) \in MimeType
         /\ m # None /\ m \in MimeType /\ safe_mime(m).len <= MAX_MIME
         /\ safe_mime(m).ty = m.ty /\ safe_mime(m).sub = m.sub
         /\ {m.ty, m.sub} \subseteq Tokens /\ <<m.ty, m.sub>> # <<"image", "svg+xml">>
         /\ \/ m.ty \in {"image", "audio", "video"}
            \/ <<m.ty, m.sub>> \in {<<"text", "plain">>, <<"application", "pdf">>}
<1>1. /\ m # None /\ m.len <= MAX_MIME /\ safe_mime(m) = [m EXCEPT !.extra = FALSE]
      /\ {m.ty, m.sub} \subseteq Tokens /\ <<m.ty, m.sub>> # <<"image", "svg+xml">>
      /\ \/ m.ty \in {"image", "audio", "video"}
         \/ <<m.ty, m.sub>> \in {<<"text", "plain">>, <<"application", "pdf">>}
  BY DEF safe_mime
<1>2. m \in MimeType
  BY <1>1
<1>3. /\ [m EXCEPT !.extra = FALSE] \in MimeType /\ [m EXCEPT !.extra = FALSE].len = m.len
      /\ [m EXCEPT !.extra = FALSE].ty = m.ty /\ [m EXCEPT !.extra = FALSE].sub = m.sub
  BY <1>2 DEF MimeType
<1>. QED
  BY <1>1, <1>2, <1>3

(* A type is written in so many bytes that all name it.                       *)
LEMMA MimeBytesType ==
  ASSUME NEW m \in MimeType
  PROVE  /\ MimeBytes(m) \in Seq({<<i, m>> : i \in Nat}) /\ Len(MimeBytes(m)) = m.len
         /\ m.len \in Nat \ {0} /\ MimeBytes(m)[1] = <<1, m>>
<1>1. m.len \in Nat \ {0}
  BY DEF MimeType
<1>2. MimeBytes(m) = [i \in 1..m.len |-> <<i, m>>]
  BY DEF MimeBytes
<1>. QED
  BY <1>1, <1>2

(* A staged file as the assumption has it.                                    *)
LEMMA Staged ==
  ASSUME NEW f \in File
  PROVE  /\ f.enveloped \in BOOLEAN /\ f.auth \in BOOLEAN /\ f.body \in Seq(Range(f.body))
         /\ \A b \in Range(f.body) : b[1] \in Nat /\ (Len(b) = 2 => b[2] \in MimeType)
         /\ f.enveloped => f.name \in Seq(Nat) /\ f.mime \in {None} \cup MimeType
         /\ (Len(Plaintext(f)) + 16) \div 65536 < 65536
         /\ Plaintext(f) # None /\ maybe_compress(Plaintext(f)).body # None
         /\ unwrap(Plaintext(f)) # None
BY FileAssumption

TypeBytes == {<<i, m>> : i \in Nat, m \in MimeType}
Numbers == {<<v>> : v \in Nat}

(* The trailer of an envelope, field by field. *)
LEMMA TrailerTypes ==
  ASSUME NEW f \in File, f.enveloped
  PROVE  /\ NameField(f.name) \in Seq(Utf8) /\ MimeField(f.mime) \in Seq(TypeBytes)
         /\ Len(MimeField(f.mime)) \in 0..MAX_MIME
<1>1. f.name \in Seq(Nat) /\ f.mime \in {None} \cup MimeType
  BY Staged
<1>2. NameField(f.name) \in Seq(Utf8)
  <2>1. CASE safe_name(f.name) = None
    BY <2>1 DEF NameField
  <2>2. CASE safe_name(f.name) # None
    <3>1. safe_name(f.name) \in Seq(Harmless)
      BY <1>1, <2>2, SafeNameType
    <3>2. Harmless \subseteq Nat
      BY DEF Harmless, Unseparated
    <3>3. safe_name(f.name) \in Seq(Nat)
      BY <3>1, <3>2, SeqMonotonic
    <3>. QED
      BY <2>2, <3>3, NameBytes DEF NameField
  <2>. QED
    BY <2>1, <2>2
<1>3. MimeField(f.mime) \in Seq(TypeBytes) /\ Len(MimeField(f.mime)) \in 0..MAX_MIME
  <2>1. CASE safe_mime(f.mime) = None
    BY <2>1 DEF MimeField, MAX_MIME
  <2>2. CASE safe_mime(f.mime) # None
    <3>. DEFINE m == safe_mime(f.mime)
    <3>1. m \in MimeType /\ m.len <= MAX_MIME
      BY <1>1, <2>2, SafeMimeType
    <3>2. MimeField(f.mime) = MimeBytes(m)
      BY <2>2 DEF MimeField
    <3>. HIDE DEF m
    <3>3. MimeBytes(m) \in Seq({<<i, m>> : i \in Nat}) /\ Len(MimeBytes(m)) = m.len /\ m.len \in Nat
      BY <3>1, MimeBytesType
    <3>4. {<<i, m>> : i \in Nat} \subseteq TypeBytes
      BY <3>1 DEF TypeBytes
    <3>5. MimeBytes(m) \in Seq(TypeBytes)
      BY <3>3, <3>4, SeqMonotonic
    <3>. DEFINE n == m.len
    <3>6. Len(MimeField(f.mime)) = n /\ n \in Nat /\ n <= MAX_MIME
      BY <3>1, <3>2, <3>3
    <3>. HIDE DEF n
    <3>7. Len(MimeField(f.mime)) \in 0..MAX_MIME
      BY <3>6 DEF MAX_MIME
    <3>. QED
      BY <3>2, <3>5, <3>7
  <2>. QED
    BY <2>1, <2>2
<1>. QED
  BY <1>2, <1>3

(* The bytes after the two fields: their lengths, a version and a magic.      *)
Foot(f) == <<<<Len(NameField(f.name)) % 256>>, <<Len(MimeField(f.mime)) % 256>>, ENVELOPE_VERSION>>
           \o ENVELOPE_MAGIC

(* Three and four make seven.                                                 *)
LEMMA SevenInAll ==
  ASSUME NEW x, NEW y, NEW z, NEW p, NEW q, NEW r, NEW t
  PROVE  <<x, y, z>> \o <<p, q, r, t>> = <<x, y, z, p, q, r, t>>
<1>. DEFINE S == {x, y, z, p, q, r, t}
            a == <<x, y, z>>
            b == <<p, q, r, t>>
            c == <<x, y, z, p, q, r, t>>
<1>1. /\ a \in Seq(S) /\ b \in Seq(S) /\ c \in Seq(S)
      /\ Len(a) = 3 /\ Len(b) = 4 /\ Len(c) = 7
  OBVIOUS
<1>2. /\ c[1] = a[1] /\ c[2] = a[2] /\ c[3] = a[3]
      /\ c[4] = b[1] /\ c[5] = b[2] /\ c[6] = b[3] /\ c[7] = b[4]
  OBVIOUS
<1>. HIDE DEF S, a, b, c
<1>3. \A i \in 1..7 : c[i] = IF i <= 3 THEN a[i] ELSE b[i - 3]
  <2>1. \A i \in 1..7 : i = 1 \/ i = 2 \/ i = 3 \/ i = 4 \/ i = 5 \/ i = 6 \/ i = 7
    OBVIOUS
  <2>. QED
    BY <1>2, <2>1
<1>4. c = a \o b
  <2>1. \A i \in 1..Len(c) : c[i] = IF i <= Len(a) THEN a[i] ELSE b[i - Len(a)]
    BY <1>1, <1>3
  <2>2. Len(c) = Len(a) + Len(b) /\ a \in Seq(S) /\ b \in Seq(S) /\ c \in Seq(S)
    BY <1>1
  <2>. QED
    BY <2>1, <2>2, Prolong
<1>. QED
  BY <1>4 DEF a, b, c

(* The last seven bytes of an envelope.                                       *)
LEMMA FootBytes ==
  ASSUME NEW f \in File, f.enveloped
  PROVE  /\ Foot(f) \in Seq(Numbers)
         /\ Foot(f) = <<<<Len(NameField(f.name)) % 256>>, <<Len(MimeField(f.mime)) % 256>>, <<1>>,
                        <<82>>, <<66>>, <<75>>, <<80>>>>
<1>1. Len(NameField(f.name)) % 256 \in Nat /\ Len(MimeField(f.mime)) % 256 \in Nat
  BY TrailerTypes
<1>. DEFINE a == Len(NameField(f.name)) % 256
            b == Len(MimeField(f.mime)) % 256
<1>2. Foot(f) = <<<<a>>, <<b>>, <<1>>, <<82>>, <<66>>, <<75>>, <<80>>>>
  <2>1. Foot(f) = <<<<a>>, <<b>>, <<1>>>> \o <<<<82>>, <<66>>, <<75>>, <<80>>>>
    BY DEF Foot, ENVELOPE_VERSION, ENVELOPE_MAGIC
  <2>. HIDE DEF a, b
  <2>. QED
    BY <2>1, SevenInAll
<1>. HIDE DEF a, b
<1>3. <<<<a>>, <<b>>, <<1>>, <<82>>, <<66>>, <<75>>, <<80>>>> \in Seq(Numbers)
  BY <1>1 DEF Numbers, a, b
<1>. QED
  BY <1>2, <1>3 DEF a, b

(* What is staged is a sequence of bytes. *)
Staff(f) == Range(f.body) \cup Utf8 \cup TypeBytes \cup Numbers

(* An envelope is four fields; a file sent bare is its body.                  *)
LEMMA PlaintextParts ==
  ASSUME NEW f \in File
  PROVE  IF f.enveloped
         THEN /\ Plaintext(f) = (f.body \o (NameField(f.name) \o MimeField(f.mime))) \o Foot(f)
              /\ f.body \in Seq(Staff(f)) /\ NameField(f.name) \in Seq(Staff(f))
              /\ MimeField(f.mime) \in Seq(Staff(f)) /\ Foot(f) \in Seq(Staff(f))
         ELSE Plaintext(f) = f.body /\ f.body \in Seq(Staff(f))
<1>1. f.body \in Seq(Staff(f))
  <2>1. Range(f.body) \subseteq Staff(f)
    BY DEF Staff
  <2>2. f.body \in Seq(Range(f.body))
    BY Staged
  <2>. QED
    BY <2>1, <2>2, SeqMonotonic
<1>2. CASE f.enveloped
  <2>1. Utf8 \subseteq Staff(f) /\ TypeBytes \subseteq Staff(f) /\ Numbers \subseteq Staff(f)
    BY DEF Staff
  <2>2. NameField(f.name) \in Seq(Utf8) /\ MimeField(f.mime) \in Seq(TypeBytes)
    BY <1>2, TrailerTypes
  <2>3. Foot(f) \in Seq(Numbers)
    BY <1>2, FootBytes
  <2>4. /\ NameField(f.name) \in Seq(Staff(f)) /\ MimeField(f.mime) \in Seq(Staff(f))
        /\ Foot(f) \in Seq(Staff(f))
    BY <2>1, <2>2, <2>3, SeqMonotonic
  <2>5. Plaintext(f) = ((f.body \o (NameField(f.name) \o MimeField(f.mime)))
                         \o <<<<Len(NameField(f.name)) % 256>>, <<Len(MimeField(f.mime)) % 256>>,
                              ENVELOPE_VERSION>>)
                       \o ENVELOPE_MAGIC
    BY <1>2 DEF Plaintext, wrap, Trailer, NameField, MimeField
  <2>. DEFINE a == f.body \o (NameField(f.name) \o MimeField(f.mime))
              b == <<<<Len(NameField(f.name)) % 256>>, <<Len(MimeField(f.mime)) % 256>>,
                     ENVELOPE_VERSION>>
              U == Staff(f) \cup {<<Len(NameField(f.name)) % 256>>,
                                  <<Len(MimeField(f.mime)) % 256>>, ENVELOPE_VERSION}
                   \cup {<<82>>, <<66>>, <<75>>, <<80>>}
  <2>6. a \in Seq(Staff(f))
    BY <1>1, <2>4, ConcatProperties
  <2>7. b \in Seq(U) /\ ENVELOPE_MAGIC \in Seq(U)
    BY DEF ENVELOPE_MAGIC
  <2>8. Staff(f) \subseteq U
    OBVIOUS
  <2>. HIDE DEF a, b, U
  <2>9. a \in Seq(U)
    BY <2>6, <2>8, SeqMonotonic
  <2>10. (a \o b) \o ENVELOPE_MAGIC = a \o (b \o ENVELOPE_MAGIC)
    BY <2>7, <2>9, ConcatAssociative, SMTT(30)
  <2>11. Plaintext(f) = a \o Foot(f)
    BY <2>5, <2>10 DEF a, b, Foot
  <2>. QED
    BY <1>1, <1>2, <2>4, <2>11 DEF a
<1>3. CASE ~f.enveloped
  BY <1>1, <1>3 DEF Plaintext
<1>. QED
  BY <1>2, <1>3

(* Either is a sequence of bytes.                                             *)
LEMMA PlaintextIsSeq ==
  ASSUME NEW f \in File
  PROVE  Plaintext(f) \in Seq(Staff(f))
<1>1. CASE f.enveloped
  <2>. DEFINE S == Staff(f)
  <2>1. /\ Plaintext(f) = (f.body \o (NameField(f.name) \o MimeField(f.mime))) \o Foot(f)
        /\ f.body \in Seq(S) /\ NameField(f.name) \in Seq(S)
        /\ MimeField(f.mime) \in Seq(S) /\ Foot(f) \in Seq(S)
    BY <1>1, PlaintextParts
  <2>. HIDE DEF S
  <2>. QED
    BY <2>1, ConcatProperties DEF S
<1>2. CASE ~f.enveloped
  BY <1>2, PlaintextParts
<1>. QED
  BY <1>1, <1>2

(* Compression never makes a file longer. *)
LEMMA CompressedLength ==
  ASSUME NEW S, NEW p \in Seq(S)
  PROVE  /\ Len(maybe_compress(p).body) \in Nat /\ Len(maybe_compress(p).body) <= Len(p)
         /\ maybe_compress(p).compressed \in BOOLEAN
         /\ ~maybe_compress(p).compressed => maybe_compress(p).body = p
         /\ maybe_compress(p).compressed => maybe_compress(p).body = deflate(p)
         /\ Len(deflate(p)) \in Nat \ {0} /\ deflate(p)[1] = <<1, p, "deflate">>
<1>1. Cardinality(Range(p)) \in Nat
  <2>1. p \in Surjection(1..Len(p), Range(p))
    BY LenProperties DEF Surjection, Range
  <2>2. IsFiniteSet(1..Len(p))
    BY FS_Interval
  <2>. QED
    BY <2>1, <2>2, FS_Surjection, FS_CardinalityType
<1>. DEFINE n == Cardinality(Range(p)) + 4
            d == deflate(p)
<1>2. Len(d) = n /\ n \in Nat \ {0} /\ d[1] = <<1, p, "deflate">>
  BY <1>1 DEF deflate
<1>3. Len(p) \in Nat /\ Len(p) \div 32 \in Nat
  OBVIOUS
<1>. HIDE DEF n, d
<1>4. maybe_compress(p) = [body |-> p, compressed |-> FALSE]
      \/ (maybe_compress(p) = [body |-> d, compressed |-> TRUE] /\ Len(d) + Len(p) \div 32 < Len(p))
  BY <1>2, <1>3 DEF maybe_compress, d
<1>5. Len(maybe_compress(p).body) \in Nat /\ Len(maybe_compress(p).body) <= Len(p)
  BY <1>2, <1>3, <1>4
<1>6. /\ maybe_compress(p).compressed \in BOOLEAN
      /\ ~maybe_compress(p).compressed => maybe_compress(p).body = p
      /\ maybe_compress(p).compressed => maybe_compress(p).body = d
  <2>1. CASE maybe_compress(p) = [body |-> p, compressed |-> FALSE]
    <3>1. maybe_compress(p).compressed = FALSE /\ maybe_compress(p).body = p
      BY <2>1
    <3>. QED
      BY <3>1
  <2>2. CASE maybe_compress(p) = [body |-> d, compressed |-> TRUE]
    <3>1. maybe_compress(p).compressed = TRUE /\ maybe_compress(p).body = d
      BY <2>2
    <3>. QED
      BY <3>1
  <2>. QED
    BY <1>4, <2>1, <2>2
<1>. QED
  BY <1>2, <1>5, <1>6 DEF d

(* What is sealed fits 32 bits, and its first byte says what it is.           *)
LEMMA SealedFile ==
  ASSUME NEW f \in File
  PROVE  /\ Len(Plaintext(f)) \in U32
         /\ Ciphertext(f) \in Seq(Plain) /\ Len(Ciphertext(f)) \in U32 /\ Len(Ciphertext(f)) > 0
         /\ Ciphertext(f)[1] = <<1, f, aad(Draft(f))>>
<1>. DEFINE p == Plaintext(f)
            b == maybe_compress(p).body
            ad == aad(Draft(f))
<1>1. Len(p) \in Nat /\ Len(b) \in Nat /\ Len(b) <= Len(p)
  BY PlaintextIsSeq, CompressedLength
<1>2. (Len(p) + 16) \div 65536 < 65536
  BY FileAssumption
<1>3. Ciphertext(f) = [i \in 1..(Len(b) + 16) |-> <<i, f, ad>>]
  BY DEF Ciphertext, encrypt
<1>4. \A i \in Nat : <<i, f, ad>> \in Plain
  BY DEF Plain
<1>. HIDE DEF p, b, ad
<1>5. Len(p) \div 65536 < 65536 /\ (Len(b) + 16) \div 65536 < 65536
  BY <1>1, <1>2
<1>6. /\ Ciphertext(f) \in Seq(Plain) /\ Len(Ciphertext(f)) = Len(b) + 16
      /\ Ciphertext(f)[1] = <<1, f, ad>>
  <2>1. \A i \in 1..(Len(b) + 16) : <<i, f, ad>> \in Plain
    BY <1>1, <1>4
  <2>2. 1 \in 1..(Len(b) + 16) /\ Len(b) + 16 \in Nat
    BY <1>1
  <2>. QED
    BY <1>3, <2>1, <2>2
<1>. QED
  BY <1>1, <1>5, <1>6 DEF U32, p, ad

-----------------------------------------------------------------------------
(* The description of the object, and the beacon announced *)

(* So many bytes and so many more.                                            *)
LEMMA JoinBytes ==
  ASSUME NEW m \in Nat, NEW n \in Nat, NEW p \in Bytes(m), NEW f \in Bytes(n)
  PROVE  p \o f \in Bytes(m + n)
<1>1. p \in Seq(Plain) /\ f \in Seq(Plain)
  BY DEF Bytes
<1>2. p \o f \in Seq(Plain) /\ Len(p \o f) = Len(p) + Len(f)
  BY <1>1, Longer
<1>3. Len(p) = m /\ Len(f) = n
  BY DEF Bytes
<1>. QED
  BY <1>2, <1>3 DEF Bytes

Begins(p, s) == s \in Seq(Plain) /\ Starts(p, s)

(* The last field of so many bytes is read where it is written.               *)
LEMMA ReadBytes ==
  ASSUME NEW m \in Nat, NEW n \in Nat, NEW p \in Bytes(m), NEW f \in Bytes(n),
         NEW s, Begins(p \o f, s)
  PROVE  /\ Begins(p, s) /\ Slice(s, m, m + n) = f
         /\ \A i \in 1..n : s[m + i] = f[i]
<1>1. p \in Seq(Plain) /\ f \in Seq(Plain) /\ s \in Seq(Plain) /\ Starts(p \o f, s)
  BY DEF Bytes, Begins
<1>2. Len(p) = m /\ Len(f) = n
  BY DEF Bytes
<1>3. /\ Starts(p, s) /\ SubSeq(s, Len(p) + 1, Len(p) + Len(f)) = f
      /\ \A i \in 1..Len(f) : s[Len(p) + i] = f[i]
  BY <1>1, Field
<1>. QED
  BY <1>1, <1>2, <1>3 DEF Begins, Slice

(* A byte string begins with all of itself.                                   *)
LEMMA WholeBytes ==
  ASSUME NEW n \in Nat, NEW s \in Bytes(n)
  PROVE  Begins(s, s)
BY DEF Bytes, Starts, Begins

(* The sizes of a symbol and of a packet fit sixteen bits.                    *)
LEMMA Sizes ==
  /\ SymbolSize(Mtu) \in U16 /\ SymbolSize(Mtu) \in Nat \ {0}
  /\ PacketLen \in U16 /\ PacketLen \in Nat \ {0} /\ PacketLen = SymbolSize(Mtu) + 4
  /\ Mtu \in U16
<1>1. Mtu \in Nat /\ Mtu >= 8 /\ Mtu <= 65535
  BY ParcelAssumption, SMTT(30)
<1>. DEFINE z == SymbolSize(Mtu)
<1>2. z \in Int /\ z >= 8 /\ z <= 65528
  BY <1>1, SMT DEF SymbolSize
<1>3. PacketLen = z + 4
  BY DEF PacketLen
<1>. HIDE DEF z
<1>4. z \in Nat /\ z < 65536 /\ z # 0 /\ z + 4 \in Nat /\ z + 4 < 65536 /\ z + 4 # 0 /\ Mtu < 65536
  BY <1>1, <1>2
<1>. QED
  BY <1>1, <1>3, <1>4, SMT DEF U16, z

(* RaptorQ's description of an object, read back. *)
LEMMA OtiReadBack ==
  ASSUME NEW ct, Len(ct) \in U32
  PROVE  /\ Oti(ct) \in Bytes(12)
         /\ transfer_length(Oti(ct)) = Len(ct) /\ symbol_size(Oti(ct)) = SymbolSize(Mtu)
<1>. DEFINE f1 == <<Byte(0)>>
            f2 == Reverse(u32_bytes(Len(ct)))
            f4 == Reverse(u16_bytes(SymbolSize(Mtu)))
            f5 == Fill(15, 4)
            p2 == f1 \o f2
            p3 == p2 \o f1
            p4 == p3 \o f4
            p5 == p4 \o f5
<1>1. Oti(ct) = p5
  BY DEF Oti
<1>2. Len(ct) \in Nat /\ SymbolSize(Mtu) \in Nat
  BY Sizes, WordBytes
<1>3. f1 \in Bytes(1) /\ f2 \in Bytes(4) /\ f4 \in Bytes(2) /\ f5 \in Bytes(4)
  BY <1>2, FieldBytes, FillField
<1>4. u32_from(Reverse(f2)) = Len(ct) /\ u16_from(Reverse(f4)) = SymbolSize(Mtu)
  BY Sizes, WordBytes
<1>5. p2 = f1 \o f2 /\ p3 = p2 \o f1 /\ p4 = p3 \o f4 /\ p5 = p4 \o f5
  OBVIOUS
<1>. HIDE DEF f1, f2, f4, f5, p2, p3, p4, p5
<1>6. p2 \in Bytes(5)
  BY <1>3, <1>5, JoinBytes
<1>7. p3 \in Bytes(6)
  BY <1>3, <1>5, <1>6, JoinBytes
<1>8. p4 \in Bytes(8)
  BY <1>3, <1>5, <1>7, JoinBytes
<1>9. p5 \in Bytes(12)
  BY <1>3, <1>5, <1>8, JoinBytes
<1>10. Begins(p5, p5)
  BY <1>9, WholeBytes
<1>11. Begins(p4, p5)
  BY <1>3, <1>5, <1>8, <1>10, ReadBytes
<1>12. Begins(p3, p5) /\ Slice(p5, 6, 8) = f4
  BY <1>3, <1>5, <1>7, <1>10, <1>11, ReadBytes
<1>13. Begins(p2, p5)
  BY <1>3, <1>5, <1>6, <1>10, <1>12, ReadBytes
<1>14. Slice(p5, 1, 5) = f2
  BY <1>3, <1>5, <1>10, <1>13, ReadBytes
<1>15. SubSeq(p5, 7, 8) = f4 /\ SubSeq(p5, 2, 5) = f2
  BY <1>12, <1>14 DEF Slice
<1>. QED
  BY <1>1, <1>4, <1>9, <1>15 DEF transfer_length, symbol_size

(* The beacon announced, field by field: filling in the object's description  *)
(* after sealing changes nothing the tag covers.                              *)
LEMMA AnnouncedIs ==
  ASSUME NEW f \in File
  PROVE  LET b == Announced(f)
             d == Draft(f)
         IN  /\ b = [type |-> BEACON, mode |-> 1, flags |-> d.flags, session_id |-> SessionId,
                     s_eph_pub |-> Fill(12, 32), nonce |-> Fill(13, 24),
                     plaintext_len |-> Len(Plaintext(f)), oti |-> Oti(Ciphertext(f)),
                     symbol_size |-> Mtu, palette |-> 0, tile_px |-> 8, build_hash |-> Fill(14, 8)]
             /\ d.flags \in 0..3 /\ aad(b) = aad(d)
             /\ Compressed(b) <=> maybe_compress(Plaintext(f)).compressed
<1>. DEFINE c == maybe_compress(Plaintext(f)).compressed
            v == (IF c THEN COMPRESSED ELSE 0) + (IF f.auth THEN SENDER_AUTH ELSE 0)
<1>1. Draft(f) = [type |-> BEACON, mode |-> 1, flags |-> v, session_id |-> SessionId,
                  s_eph_pub |-> Fill(12, 32), nonce |-> Fill(13, 24),
                  plaintext_len |-> Len(Plaintext(f)), oti |-> [i \in 1..12 |-> Byte(0)],
                  symbol_size |-> Mtu, palette |-> 0, tile_px |-> 8, build_hash |-> Fill(14, 8)]
  BY DEF Draft
<1>2. c \in BOOLEAN
  BY PlaintextIsSeq, CompressedLength
<1>3. v \in 0..3 /\ (v % 2 = 1 <=> c)
  <2>. HIDE DEF c
  <2>. QED
    BY <1>2 DEF COMPRESSED, SENDER_AUTH
<1>. HIDE DEF c, v
<1>. DEFINE o == Oti(Ciphertext(f))
<1>4. Announced(f) = [Draft(f) EXCEPT !.oti = o]
  BY DEF Announced
<1>. HIDE DEF o
<1>5. Announced(f) = [type |-> BEACON, mode |-> 1, flags |-> v, session_id |-> SessionId,
                  s_eph_pub |-> Fill(12, 32), nonce |-> Fill(13, 24),
                  plaintext_len |-> Len(Plaintext(f)), oti |-> o,
                  symbol_size |-> Mtu, palette |-> 0, tile_px |-> 8, build_hash |-> Fill(14, 8)]
  BY <1>1, <1>4, SMTT(30)
<1>6. Draft(f).flags = v /\ Announced(f).flags = v
  BY <1>1, <1>5
<1>7. aad(Announced(f)) = aad(Draft(f))
  BY <1>1, <1>5 DEF aad
<1>. QED
  BY <1>3, <1>5, <1>6, <1>7 DEF Compressed, o, c

-----------------------------------------------------------------------------
(* Packets *)

(* Division, rounded up.                                                      *)
LEMMA Rounded ==
  ASSUME NEW n \in Nat \ {0}, NEW d \in Nat \ {0}
  PROVE  /\ div_ceil(n, d) \in Nat \ {0} /\ div_ceil(n, d) <= n
         /\ n <= div_ceil(n, d) * d /\ (div_ceil(n, d) - 1) * d < n
<1>. DEFINE m == n + d - 1
            k == m \div d
            r == m % d
<1>1. div_ceil(n, d) = k
  BY DEF div_ceil
<1>2. m \in Nat /\ m = n + d - 1
  OBVIOUS
<1>3. r \in 0..(d - 1) /\ k \in Nat /\ m = d * k + r
  <2>. HIDE DEF m
  <2>. QED
    BY <1>2, Divided
<1>. HIDE DEF m, k, r
<1>4. d * k = n + d - 1 - r /\ r <= d - 1 /\ r >= 0
  BY <1>2, <1>3
<1>5. k # 0
  BY <1>3, <1>4
<1>6. (k - 1) * d = d * k - d /\ k * d = d * k
  BY <1>3
<1>7. k - 1 <= (k - 1) * d
  <2>1. k - 1 >= 0 /\ d >= 1
    BY <1>3, <1>5
  <2>. QED
    BY <1>3, <2>1, Z3
<1>. QED
  BY <1>1, <1>3, <1>4, <1>5, <1>6, <1>7

(* The symbol of a packet. *)
Chunk(f, e) ==
  [i \in 1..SymbolSize(Mtu) |->
     IF e * SymbolSize(Mtu) + i <= Len(Ciphertext(f))
     THEN Ciphertext(f)[e * SymbolSize(Mtu) + i] ELSE Byte(0)]

(* Every symbol is as long as every other, the last one padded.               *)
LEMMA ChunkBytes ==
  ASSUME NEW f \in File, NEW e \in Nat
  PROVE  Chunk(f, e) \in Bytes(SymbolSize(Mtu))
<1>. DEFINE s == SymbolSize(Mtu)
            ct == Ciphertext(f)
<1>1. ct \in Seq(Plain) /\ s \in Nat /\ Byte(0) \in Plain
  BY SealedFile, Sizes DEF Byte, Plain
<1>2. Chunk(f, e) = [i \in 1..s |-> IF e * s + i <= Len(ct) THEN ct[e * s + i] ELSE Byte(0)]
  BY DEF Chunk
<1>. HIDE DEF s, ct
<1>3. e * s \in Nat
  BY <1>1
<1>4. \A i \in 1..s : (IF e * s + i <= Len(ct) THEN ct[e * s + i] ELSE Byte(0)) \in Plain
  BY <1>1, <1>3
<1>5. Chunk(f, e) \in Seq(Plain) /\ Len(Chunk(f, e)) = s
  BY <1>1, <1>2, <1>4
<1>. QED
  BY <1>5 DEF Bytes, s

(* The payload id and the symbol of a packet are read back from it.           *)
LEMMA PacketReadBack ==
  ASSUME NEW f \in File, NEW e \in U32
  PROVE  /\ Packet(f, e) \in Bytes(PacketLen)
         /\ payload_id(Packet(f, e)) = e
         /\ SubSeq(Packet(f, e), 5, Len(Packet(f, e))) = Chunk(f, e)
<1>. DEFINE h == Reverse(u32_bytes(e))
            c == Chunk(f, e)
            p == Packet(f, e)
            s == SymbolSize(Mtu)
<1>1. p = h \o c
  BY DEF Packet, Chunk
<1>2. e \in Nat /\ u32_from(Reverse(h)) = e
  BY WordBytes
<1>3. h \in Bytes(4) /\ c \in Bytes(s) /\ s \in Nat /\ PacketLen = 4 + s
  <2>1. h \in Bytes(4)
    BY <1>2, FieldBytes
  <2>2. c \in Bytes(s)
    BY <1>2, ChunkBytes
  <2>3. s \in Nat /\ PacketLen = 4 + s
    BY Sizes
  <2>. QED
    BY <2>1, <2>2, <2>3
<1>4. payload_id(p) = u32_from(Reverse(SubSeq(p, 1, 4)))
  BY DEF payload_id
<1>. HIDE DEF h, c, p, s
<1>5. h \o c \in Bytes(4 + s)
  BY <1>3, JoinBytes
<1>6. Begins(p, p)
  BY <1>1, <1>3, <1>5, WholeBytes
<1>7. Begins(h, p) /\ Slice(p, 4, 4 + s) = c
  BY <1>1, <1>3, <1>6, ReadBytes
<1>8. SubSeq(p, 1, 4) = h
  <2>1. /\ p \in Seq(Plain) /\ h \in Seq(Plain) /\ Len(h) = 4 /\ Len(h) <= Len(p)
        /\ \A i \in 1..Len(h) : p[0 + i] = h[i]
    BY <1>3, <1>7 DEF Begins, Starts, Bytes
  <2>2. SubSeq(p, 0 + 1, 0 + Len(h)) = h
    BY <2>1, PartAt
  <2>. QED
    BY <2>1, <2>2
<1>9. Len(p) = 4 + s
  BY <1>1, <1>5 DEF Bytes
<1>10. SubSeq(p, 5, Len(p)) = c
  BY <1>7, <1>9 DEF Slice
<1>. QED
  BY <1>1, <1>2, <1>3, <1>4, <1>5, <1>8, <1>10 DEF p, c

(* The packets of a file: as many as cover it, none of them empty.            *)
LEMMA PacketsNeeded ==
  ASSUME NEW f \in File
  PROVE  LET n == Needed(Announced(f).oti)
             s == SymbolSize(Mtu)
         IN  /\ n \in Nat \ {0} /\ transfer_length(Announced(f).oti) = Len(Ciphertext(f))
             /\ Len(Ciphertext(f)) <= n * s /\ (n - 1) * s < Len(Ciphertext(f))
             /\ 0..(n - 1) \subseteq U32
<1>. DEFINE L == Len(Ciphertext(f))
            s == SymbolSize(Mtu)
            o == Announced(f).oti
<1>1. L \in U32 /\ L \in Nat \ {0} /\ s \in Nat \ {0}
  BY SealedFile, Sizes, WordBytes
<1>2. o = Oti(Ciphertext(f))
  BY AnnouncedIs
<1>3. transfer_length(o) = L /\ symbol_size(o) = s
  BY <1>1, <1>2, OtiReadBack
<1>4. Needed(o) = div_ceil(L, s)
  BY <1>3 DEF Needed
<1>. HIDE DEF L, s, o
<1>. DEFINE n == Needed(o)
<1>5. n \in Nat \ {0} /\ n <= L /\ L <= n * s /\ (n - 1) * s < L
  BY <1>1, <1>4, Rounded
<1>. HIDE DEF n
<1>6. ASSUME NEW e \in 0..(n - 1) PROVE e \in U32
  <2>1. e \in Nat /\ e <= L /\ L \in Nat /\ L \div 65536 < 65536
    BY <1>1, <1>5, <1>6 DEF U32
  <2>2. e \div 65536 < 65536
    BY <2>1
  <2>. QED
    BY <2>1, <2>2 DEF U32
<1>. QED
  BY <1>3, <1>5, <1>6 DEF L, s, o, n

-----------------------------------------------------------------------------
(* The file put together again *)

(* All the symbols in a row, cut to the length announced, are what was sealed. *)
LEMMA ChunksJoined ==
  ASSUME NEW f \in File, NEW n, n = Needed(Announced(f).oti)
  PROVE  SubSeq(FlattenSeq([e \in 1..n |-> Chunk(f, e - 1)]), 1, transfer_length(Announced(f).oti))
         = Ciphertext(f)
<1>. DEFINE s == SymbolSize(Mtu)
            ct == Ciphertext(f)
            L == Len(ct)
            q == [e \in 1..n |-> Chunk(f, e - 1)]
            J == FlattenSeq(q)
<1>1. ct \in Seq(Plain) /\ L \in Nat /\ s \in Nat \ {0} /\ n \in Nat \ {0} /\ L <= n * s
  BY SealedFile, Sizes, PacketsNeeded
<1>2. \A e \in 1..n : Chunk(f, e - 1) \in Seq(Plain) /\ Len(Chunk(f, e - 1)) = s
  BY <1>1, ChunkBytes DEF Bytes
<1>3. /\ q \in Seq(Seq(Plain)) /\ Len(q) = n
      /\ \A i \in 1..n : q[i] = Chunk(f, i - 1) /\ q[i] \in Seq(Plain) /\ Len(q[i]) = s
  <2>1. q = [e \in 1..n |-> Chunk(f, e - 1)]
    OBVIOUS
  <2>. HIDE DEF q
  <2>2. \A i \in 1..n : q[i] = Chunk(f, i - 1)
    BY <2>1
  <2>3. q \in [1..n -> Seq(Plain)]
    BY <1>2, <2>1
  <2>4. n \in Nat
    BY <1>1
  <2>5. q \in Seq(Seq(Plain)) /\ Len(q) = n
    <3>. DEFINE P == Seq(Plain)
    <3>1. q \in [1..n -> P]
      BY <2>3
    <3>. HIDE DEF P
    <3>2. q \in Seq(P) /\ Len(q) = n
      BY <2>4, <3>1
    <3>. QED
      BY <3>2 DEF P
  <2>6. \A i \in 1..n : q[i] \in Seq(Plain) /\ Len(q[i]) = s
    <3>. HIDE DEF s
    <3>. QED
      BY <1>2, <2>2
  <2>. QED
    BY <2>2, <2>5, <2>6
<1>4. \A e \in Nat : \A i \in 1..s :
        Chunk(f, e)[i] = IF e * s + i <= L THEN ct[e * s + i] ELSE Byte(0)
  BY DEF Chunk
<1>. HIDE DEF s, ct, L, q
<1>5. J = Joined(q, s, n) /\ J \in Seq(Plain) /\ Len(J) = n * s
  <2>1. Len(q) # 0 /\ n \in 0..Len(q) /\ \A i \in 1..Len(q) : Len(q[i]) = s
    BY <1>1, <1>3
  <2>2. J = Joined(q, s, Len(q))
    BY <1>1, <1>3, <2>1, FlattenUniform
  <2>3. Joined(q, s, n) \in Seq(Plain) /\ Len(Joined(q, s, n)) = n * s
    BY <1>1, <1>3, <2>1, JoinedIsSeq
  <2>. QED
    BY <1>3, <2>2, <2>3
<1>. HIDE DEF J
<1>6. ASSUME NEW p \in 1..L PROVE J[0 + p] = ct[p]
  <2>. DEFINE e == (p - 1) \div s
              r == (p - 1) % s
  <2>1. p \in 1..(n * s)
    BY <1>1
  <2>2. J[p] = q[e + 1][r + 1]
    BY <1>5, <2>1 DEF Joined, At
  <2>3. e \in Nat /\ e < n /\ r \in 0..(s - 1)
    <3>1. n * s \in Nat /\ n * s <= (n + 1) * s /\ p \in 1..((n + 1) * s)
      BY <1>1, <2>1
    <3>. QED
      BY <1>1, <2>1, <3>1, PlaceOf
  <2>4. p - 1 = s * e + r
    <3>. DEFINE w == p - 1
    <3>1. w \in Nat
      BY <1>1
    <3>2. w = s * (w \div s) + (w % s)
      <4>. HIDE DEF w
      <4>. QED
        BY <1>1, <3>1, Divided
    <3>. QED
      BY <3>2
  <2>. HIDE DEF e, r
  <2>5. e * s + (r + 1) = p /\ r + 1 \in 1..s /\ e + 1 \in 1..n /\ (e + 1) - 1 = e
    BY <1>1, <2>3, <2>4
  <2>6. q[e + 1] = Chunk(f, e)
    BY <1>3, <2>5
  <2>7. Chunk(f, e)[r + 1] = ct[p]
    <3>1. Chunk(f, e)[r + 1] = IF e * s + (r + 1) <= L THEN ct[e * s + (r + 1)] ELSE Byte(0)
      BY <1>4, <2>3, <2>5
    <3>2. p <= L
      BY <1>1
    <3>. QED
      BY <2>5, <3>1, <3>2
  <2>. QED
    BY <1>1, <2>2, <2>6, <2>7
<1>7. SubSeq(J, 0 + 1, 0 + Len(ct)) = ct
  <2>1. 0 + Len(ct) <= Len(J) /\ 0 \in Nat /\ \A i \in 1..Len(ct) : J[0 + i] = ct[i]
    BY <1>1, <1>5, <1>6 DEF L
  <2>. QED
    BY <1>1, <1>5, <2>1, PartAt
<1>8. transfer_length(Announced(f).oti) = L
  BY PacketsNeeded DEF L, ct
<1>9. SubSeq(J, 1, L) = ct
  BY <1>1, <1>7 DEF L
<1>. QED
  BY <1>8, <1>9 DEF J, q, ct

(* The tag opens under the beacon announced, and what was compressed inflates. *)
LEMMA Opened ==
  ASSUME NEW f \in File
  PROVE  /\ decrypt(Ciphertext(f), aad(Announced(f))) = maybe_compress(Plaintext(f)).body
         /\ maybe_decompress(maybe_compress(Plaintext(f)).body, Compressed(Announced(f)))
              = Plaintext(f)
<1>. DEFINE p == Plaintext(f)
            ct == Ciphertext(f)
            ad == aad(Announced(f))
            b == maybe_compress(p).body
<1>1. ct = encrypt(f, ad) /\ ct[1] = <<1, f, ad>> /\ ct # <<>>
  <2>1. ct = encrypt(f, ad)
    BY AnnouncedIs DEF Ciphertext
  <2>2. ct[1] = <<1, f, ad>>
    BY AnnouncedIs, SealedFile
  <2>3. ct # <<>>
    BY SealedFile
  <2>. QED
    BY <2>1, <2>2, <2>3
<1>2. PICK S : p \in Seq(S)
  BY PlaintextIsSeq
<1>3. /\ maybe_compress(p).compressed \in BOOLEAN
      /\ ~maybe_compress(p).compressed => b = p
      /\ maybe_compress(p).compressed => b = deflate(p)
      /\ Len(deflate(p)) \in Nat \ {0} /\ deflate(p)[1] = <<1, p, "deflate">>
  BY <1>2, CompressedLength
<1>4. Compressed(Announced(f)) <=> maybe_compress(p).compressed
  BY AnnouncedIs
<1>. HIDE DEF p, ct, ad, b
<1>5. decrypt(ct, ad) = maybe_compress(Plaintext(f)).body
  <2>1. Len(ct[1]) = 3 /\ ct[1][2] = f
    BY <1>1
  <2>. QED
    BY <1>1, <2>1 DEF decrypt
<1>6. maybe_decompress(b, Compressed(Announced(f))) = p
  <2>1. CASE ~maybe_compress(p).compressed
    BY <1>3, <1>4, <2>1 DEF maybe_decompress
  <2>2. CASE maybe_compress(p).compressed
    <3>1. b = deflate(p) /\ Len(b) # 0 /\ b[1] = <<1, p, "deflate">>
      BY <1>3, <2>2
    <3>2. b # <<>> /\ Len(b[1]) = 3 /\ b[1][2] = p
      BY <3>1
    <3>. QED
      BY <1>4, <2>2, <3>1, <3>2 DEF maybe_decompress
  <2>. QED
    BY <2>1, <2>2
<1>. QED
  BY <1>5, <1>6 DEF p, ct, ad, b

(* The packets of a file, by payload id.                                      *)
LEMMA PacketsOf ==
  ASSUME NEW f \in File
  PROVE  LET n == Needed(Announced(f).oti)
             packets == Transmitter(f).packets
         IN  /\ DOMAIN packets = 0..(n - 1) /\ packets \in [0..(n - 1) -> Bytes(PacketLen)]
             /\ \A e \in 0..(n - 1) : packets[e] = Packet(f, e)
             /\ Range(packets) = {Packet(f, e) : e \in 0..(n - 1)}
             /\ Range(packets) # {}
<1>. DEFINE n == Needed(Announced(f).oti)
            packets == Transmitter(f).packets
<1>1. packets = [e \in 0..(n - 1) |-> Packet(f, e)]
  BY DEF Transmitter
<1>2. n \in Nat \ {0} /\ 0..(n - 1) \subseteq U32
  BY PacketsNeeded
<1>3. \A e \in 0..(n - 1) : Packet(f, e) \in Bytes(PacketLen)
  BY <1>2, PacketReadBack
<1>. HIDE DEF n, packets
<1>4. Range(packets) = {Packet(f, e) : e \in 0..(n - 1)}
  BY <1>1 DEF Range
<1>5. 0 \in 0..(n - 1)
  BY <1>2
<1>6. packets[0] \in Range(packets)
  BY <1>1, <1>5 DEF Range
<1>. QED
  BY <1>1, <1>3, <1>4, <1>6 DEF n, packets

(* Nothing comes out short of the whole set; the whole set is the file. *)
LEMMA DeliverIs ==
  ASSUME NEW f \in File, NEW G, G \subseteq Range(Transmitter(f).packets)
  PROVE  Deliver(Announced(f), G) =
           IF G = Range(Transmitter(f).packets) THEN unwrap(Plaintext(f)) ELSE None
<1>. DEFINE b == Announced(f)
            n == Needed(b.oti)
            R == Range(Transmitter(f).packets)
            source == {p \in G : payload_id(p) < n}
            Of(e) == CHOOSE p \in source : payload_id(p) = e
            ids == {payload_id(p) : p \in source}
            row == [e \in 1..n |-> SubSeq(Of(e - 1), 5, Len(Of(e - 1)))]
            ct == SubSeq(FlattenSeq(row), 1, transfer_length(b.oti))
            body == decrypt(ct, aad(b))
            plain == IF body = None THEN None ELSE maybe_decompress(body, Compressed(b))
<1>1. Deliver(b, G) =
        IF ids # 0..(n - 1) \/ plain = None \/ Len(plain) # b.plaintext_len
        THEN None ELSE unwrap(plain)
  BY DEF Deliver
<1>2. n \in Nat \ {0} /\ 0..(n - 1) \subseteq U32
  BY PacketsNeeded
<1>3. R = {Packet(f, e) : e \in 0..(n - 1)}
  BY PacketsOf
<1>4. \A e \in 0..(n - 1) : payload_id(Packet(f, e)) = e
                            /\ SubSeq(Packet(f, e), 5, Len(Packet(f, e))) = Chunk(f, e)
  BY <1>2, PacketReadBack
<1>. HIDE DEF b, n, R
<1>5. source = G
  <2>1. ASSUME NEW p \in G PROVE payload_id(p) < n
    <3>1. PICK e \in 0..(n - 1) : p = Packet(f, e)
      BY <1>3 DEF R
    <3>2. payload_id(p) = e
      BY <1>4, <3>1
    <3>. QED
      BY <1>2, <3>1, <3>2
  <2>. QED
    BY <2>1
<1>6. ids = {payload_id(p) : p \in G}
  BY <1>5
<1>7. CASE G # R
  <2>1. PICK e \in 0..(n - 1) : Packet(f, e) \notin G
    BY <1>3, <1>7 DEF R
  <2>2. e \notin ids
    <3>1. ASSUME NEW p \in G, payload_id(p) = e PROVE FALSE
      <4>1. PICK d \in 0..(n - 1) : p = Packet(f, d)
        BY <1>3 DEF R
      <4>2. d = e
        BY <1>4, <3>1, <4>1
      <4>. QED
        BY <2>1, <4>1, <4>2
    <3>. QED
      BY <1>6, <3>1
  <2>. HIDE DEF ids, plain
  <2>3. ids # 0..(n - 1)
    BY <2>1, <2>2
  <2>. QED
    BY <1>1, <1>7, <2>3 DEF R, b
<1>8. CASE G = R
  <2>1. ids = 0..(n - 1)
    <3>1. ASSUME NEW e \in 0..(n - 1) PROVE e \in ids
      BY <1>3, <1>4, <1>6, <1>8
    <3>2. ASSUME NEW p \in G PROVE payload_id(p) \in 0..(n - 1)
      BY <1>3, <1>4, <1>8
    <3>. QED
      BY <1>6, <3>1, <3>2
  <2>2. ASSUME NEW e \in 0..(n - 1) PROVE Of(e) = Packet(f, e)
    <3>1. Packet(f, e) \in source /\ payload_id(Packet(f, e)) = e
      BY <1>3, <1>4, <1>5, <1>8
    <3>2. \A p \in source : payload_id(p) = e => p = Packet(f, e)
      BY <1>3, <1>4, <1>5, <1>8
    <3>. HIDE DEF source
    <3>. QED
      BY <3>1, <3>2
  <2>3. row = [e \in 1..n |-> Chunk(f, e - 1)]
    <3>1. ASSUME NEW e \in 1..n PROVE SubSeq(Of(e - 1), 5, Len(Of(e - 1))) = Chunk(f, e - 1)
      <4>1. e - 1 \in 0..(n - 1)
        BY <1>2
      <4>. HIDE DEF Of
      <4>. QED
        BY <1>4, <2>2, <4>1
    <3>. HIDE DEF Of
    <3>. QED
      BY <3>1
  <2>. HIDE DEF row
  <2>4. ct = Ciphertext(f)
    BY <2>3, ChunksJoined DEF n, b
  <2>. HIDE DEF ct
  <2>5. body = maybe_compress(Plaintext(f)).body /\ body # None
    BY <2>4, Opened, FileAssumption DEF b
  <2>. HIDE DEF body
  <2>6. plain = Plaintext(f) /\ plain # None
    BY <2>5, Opened, FileAssumption DEF b
  <2>7. b.plaintext_len = Len(Plaintext(f))
    BY AnnouncedIs DEF b
  <2>. HIDE DEF plain, ids
  <2>. QED
    BY <1>1, <1>8, <2>1, <2>6, <2>7 DEF b, R
<1>. QED
  BY <1>7, <1>8 DEF R, b

-----------------------------------------------------------------------------
(* Frames of symbols *)

(* As many packets as the capacity carries, one at least and 255 at most.     *)
LEMMA PerFrameIs ==
  ASSUME NEW c \in Nat
  PROVE  /\ PerFrame(c) \in 1..255
         /\ frame_size(1, PacketLen) <= c =>
              /\ frame_size(PerFrame(c), PacketLen) <= c
              /\ frame_size(PerFrame(c), PacketLen) + PacketLen > c \/ PerFrame(c) = 255
<1>. DEFINE d == PacketLen
            u == IF c < SYMBOL_OVERHEAD THEN 0 ELSE c - SYMBOL_OVERHEAD
            n == u \div d
            k == PerFrame(c)
<1>1. d \in Nat \ {0}
  BY Sizes
<1>2. u \in Nat /\ (c < 19 => u = 0) /\ (c >= 19 => c = u + 19)
  BY DEF SYMBOL_OVERHEAD
<1>3. k = IF n > 255 THEN 255 ELSE IF n = 0 THEN 1 ELSE n
  <2>1. packets_per_frame(c, d) = IF n > 255 THEN 255 ELSE n
    BY DEF packets_per_frame
  <2>2. k = IF packets_per_frame(c, d) = 0 THEN 1 ELSE packets_per_frame(c, d)
    BY DEF PerFrame
  <2>. HIDE DEF n, d, k
  <2>3. CASE n > 255
    BY <2>1, <2>2, <2>3
  <2>4. CASE ~(n > 255)
    BY <2>1, <2>2, <2>4
  <2>. QED
    BY <2>3, <2>4
<1>. HIDE DEF d, u, k
<1>4. n \in Nat /\ u % d \in 0..(d - 1) /\ u = d * n + (u % d)
  BY <1>1, <1>2, Divided
<1>. DEFINE r == u % d
<1>5. r \in 0..(d - 1) /\ u = d * n + r
  BY <1>4
<1>. HIDE DEF n, r
<1>6. k \in 1..255
  BY <1>3, <1>4
<1>7. ASSUME 19 + d <= c
      PROVE  19 + k * d <= c /\ (19 + k * d + d > c \/ k = 255)
  <2>1. c = u + 19 /\ u >= d
    BY <1>1, <1>2, <1>7
  <2>2. n # 0
    BY <1>1, <1>5, <2>1
  <2>3. CASE n > 255
    <3>1. k = 255
      BY <1>3, <2>3
    <3>2. d * n >= d * 255
      BY <1>1, <1>4, <2>3, Z3
    <3>3. k * d = d * 255 /\ d * 255 \in Nat /\ d * n \in Nat
      BY <1>1, <1>4, <3>1
    <3>. DEFINE x == d * n
                y == d * 255
    <3>4. /\ x \in Nat /\ y \in Nat /\ k * d = y /\ x >= y /\ u = x + r /\ r \in Nat
          /\ u \in Nat /\ c = u + 19
      BY <1>1, <1>2, <1>5, <2>1, <3>2, <3>3
    <3>. HIDE DEF x, y
    <3>. QED
      BY <3>1, <3>4
  <2>4. CASE ~(n > 255)
    <3>1. k = n
      BY <1>3, <2>2, <2>4
    <3>2. k * d = d * n /\ d * n \in Nat
      BY <1>1, <1>4, <3>1
    <3>. QED
      BY <1>1, <1>5, <2>1, <3>2
  <2>. QED
    BY <2>3, <2>4
<1>8. frame_size(1, d) = 19 + d /\ frame_size(k, d) = 19 + k * d
  BY <1>1 DEF frame_size, SYMBOL_OVERHEAD
<1>. QED
  BY <1>6, <1>7, <1>8 DEF d, k

(* The body of a frame is all but eight bytes of it.                          *)
LEMMA BodyBytes ==
  ASSUME NEW S, NEW s \in Seq(S), Len(s) >= 8
  PROVE  Body(s) \in Seq(S) /\ Len(Body(s)) = Len(s) - 8
<1>. DEFINE n == Len(s)
<1>1. n \in Nat /\ n >= 8
  OBVIOUS
<1>2. Body(s) = SubSeq(s, 5, n - 4)
  BY DEF Body, Slice
<1>3. 5 \in 1..(Len(s) + 1) /\ n - 4 \in (5 - 1)..Len(s) /\ n - 4 - 5 + 1 = n - 8
  BY <1>1
<1>. DEFINE a == 5
            b == n - 4
<1>4. /\ a \in 1..(Len(s) + 1) /\ b \in (a - 1)..Len(s) /\ b - a + 1 = n - 8
      /\ Body(s) = SubSeq(s, a, b)
  BY <1>2, <1>3
<1>. HIDE DEF a, b
<1>5. SubSeq(s, a, b) \in Seq(S) /\ Len(SubSeq(s, a, b)) = b - a + 1
  BY <1>4, PartType
<1>. QED
  BY <1>4, <1>5

(* A count of packets fits its byte.                                          *)
LEMMA OneByte ==
  ASSUME NEW k \in 1..255
  PROVE  k % 256 = k /\ k % 256 \in Nat
OBVIOUS

(* A frame of k packets: their bytes in a row behind eleven of its own.       *)
Counts == 1..255
Rows(k) == {q \in Seq(Seq(Plain)) : Len(q) = k /\ \A j \in 1..k : q[j] \in Bytes(PacketLen)}

(* The fields of a frame of symbols are where the decoder looks for them.     *)
LEMMA SymbolParts ==
  ASSUME NEW z \in Nat, NEW sid \in Bytes(4), NEW f2 \in Bytes(4), NEW f3 \in Bytes(1),
         NEW f4 \in Bytes(2), NEW row \in Bytes(z),
         NEW s, s = seal_crc(common_header(SYMBOL) \o sid \o f2 \o f3 \o f4 \o row)
  PROVE  /\ Shown(s, SYMBOL) /\ Len(s) = z + 19 /\ Len(Body(s)) = z + 11
         /\ \E S : Plain \subseteq S /\ Body(s) \in Seq(S)
         /\ Slice(Body(s), 0, 4) = sid /\ Body(s)[9] = f3[1] /\ Slice(Body(s), 9, 11) = f4
         /\ \A i \in 1..z : Body(s)[11 + i] = row[i]
<1>. DEFINE p0 == common_header(SYMBOL)
            p1 == p0 \o sid
            p2 == p1 \o f2
            p3 == p2 \o f3
            p4 == p3 \o f4
            p5 == p4 \o row
<1>1. s = seal_crc(p5)
  OBVIOUS
<1>2. p0 \in Upto(0)
  BY HeaderUpto DEF SYMBOL
<1>3. p1 = p0 \o sid /\ p2 = p1 \o f2 /\ p3 = p2 \o f3 /\ p4 = p3 \o f4 /\ p5 = p4 \o row
  OBVIOUS
<1>. HIDE DEF p0, p1, p2, p3, p4, p5
<1>4. p1 \in Upto(4)
  BY <1>2, <1>3, Extended
<1>5. p2 \in Upto(8)
  BY <1>3, <1>4, Extended
<1>6. p3 \in Upto(9)
  BY <1>3, <1>5, Extended
<1>7. p4 \in Upto(11)
  BY <1>3, <1>6, Extended
<1>8. p5 \in Upto(11 + z)
  <2>. DEFINE a == 11
  <2>1. a \in Nat /\ p4 \in Upto(a)
    BY <1>7
  <2>. HIDE DEF a
  <2>2. p4 \o row \in Upto(a + z)
    BY <2>1, Extended
  <2>. QED
    BY <1>3, <2>2 DEF a
<1>9. Opens(p5, s)
  BY <1>1, <1>8, Whole
<1>10. Opens(p4, s) /\ \A i \in 1..z : Body(s)[11 + i] = row[i]
  <2>. DEFINE a == 11
  <2>1. a \in Nat /\ p4 \in Upto(a) /\ Opens(p4 \o row, s)
    BY <1>3, <1>7, <1>9
  <2>. HIDE DEF a
  <2>2. Opens(p4, s) /\ \A i \in 1..z : Body(s)[a + i] = row[i]
    BY <2>1, ReadField
  <2>. QED
    BY <2>2 DEF a
<1>11. Opens(p3, s) /\ Slice(Body(s), 9, 11) = f4
  BY <1>3, <1>6, <1>10, ReadField
<1>12. Opens(p2, s) /\ Body(s)[9] = f3[1]
  BY <1>3, <1>5, <1>11, ReadField
<1>13. Opens(p1, s)
  BY <1>3, <1>4, <1>12, ReadField
<1>14. Opens(p0, s) /\ Slice(Body(s), 0, 4) = sid
  BY <1>2, <1>3, <1>13, ReadField
<1>. DEFINE S == Plain \cup Sums({p5})
<1>15. s \in Seq(S) /\ Len(s) = z + 19
  <2>1. p5 \in Seq(Plain) /\ Len(p5) = 11 + z + 4
    BY <1>8 DEF Upto
  <2>2. seal_crc(p5) \in Seq(S) /\ Len(seal_crc(p5)) = Len(p5) + 4
    BY <2>1, SealedFrame
  <2>. QED
    BY <1>1, <2>1, <2>2
<1>16. Plain \subseteq S
  OBVIOUS
<1>. HIDE DEF S
<1>17. Body(s) \in Seq(S) /\ Len(Body(s)) = z + 11
  <2>1. Len(s) >= 8
    BY <1>15
  <2>2. Body(s) \in Seq(S) /\ Len(Body(s)) = Len(s) - 8
    BY <1>15, <2>1, BodyBytes
  <2>. QED
    BY <1>15, <2>2
<1>18. Shown(s, SYMBOL)
  BY <1>14 DEF Shown, p0
<1>. QED
  BY <1>10, <1>11, <1>12, <1>14, <1>15, <1>16, <1>17, <1>18

(* A frame of symbols is read as it was encoded, if it is read at all.        *)
LEMMA SymbolFields ==
  ASSUME NEW k \in Counts, NEW q \in Rows(k),
         NEW sid \in Bytes(4), NEW id \in Nat,
         NEW c, c = [type |-> SYMBOL, sid4 |-> sid, frame_id |-> id, packet_len |-> PacketLen,
                     packets |-> q]
  PROVE  LET s == EncodeSymbols(c)
             d == DecodeSymbols(s)
         IN  /\ Shown(s, SYMBOL) /\ Len(s) = frame_size(k, PacketLen)
             /\ d # Refused => d.sid4 = sid /\ d.packets = q
<1>1. k \in 1..255
  BY DEF Counts
<1>2. q \in Seq(Seq(Plain)) /\ Len(q) = k /\ \A j \in 1..k : q[j] \in Bytes(PacketLen)
  BY DEF Rows
<1>. DEFINE n == PacketLen
            row == FlattenSeq(q)
            z == k * n
            f2 == u32_bytes(id)
            f3 == <<Byte(k % 256)>>
            f4 == u16_bytes(n)
            s == EncodeSymbols(c)
            B == Body(s)
            d == DecodeSymbols(s)
<1>3. s = seal_crc(common_header(SYMBOL) \o sid \o f2 \o f3 \o f4 \o row)
  BY <1>2 DEF EncodeSymbols
<1>4. /\ f2 \in Bytes(4) /\ f3 \in Bytes(1) /\ f3[1][1] = k
      /\ n \in U16 /\ n \in Nat \ {0}
  <2>1. f2 \in Bytes(4)
    BY FieldBytes
  <2>2. k % 256 = k /\ k % 256 \in Nat
    BY <1>1, OneByte
  <2>3. f3 \in Bytes(1) /\ f3[1][1] = k
    BY <2>2, FieldBytes
  <2>4. n \in U16 /\ n \in Nat \ {0}
    BY Sizes
  <2>. QED
    BY <2>1, <2>3, <2>4
<1>5. f4 \in Bytes(2) /\ u16_from(f4) = n
  BY <1>4, FieldBytes, WordBytes
<1>6. row = Joined(q, n, k) /\ row \in Seq(Plain) /\ Len(row) = z /\ z \in Nat
  <2>1. \A i \in 1..Len(q) : Len(q[i]) = n
    BY <1>2 DEF Bytes
  <2>. HIDE DEF n
  <2>2. n \in Nat \ {0} /\ Len(q) # 0 /\ k \in 0..Len(q)
    <3>1. k \in Nat /\ k # 0
      BY <1>1
    <3>2. k \in 0..k
      BY <3>1
    <3>. QED
      BY <1>4, <1>2, <3>1, <3>2
  <2>3. row = Joined(q, n, Len(q))
    <3>1. q \in Seq(Seq(Plain))
      BY <1>2
    <3>2. FlattenSeq(q) = Joined(q, n, Len(q))
      <4>1. n \in Nat \ {0} /\ Len(q) # 0
        BY <2>2
      <4>. QED
        BY <2>1, <3>1, <4>1, FlattenUniform
    <3>. QED
      BY <3>2
  <2>4. Joined(q, n, k) \in Seq(Plain) /\ Len(Joined(q, n, k)) = k * n
    <3>1. q \in Seq(Seq(Plain))
      BY <1>2
    <3>2. n \in Nat \ {0} /\ k \in 0..Len(q)
      BY <2>2
    <3>. QED
      BY <2>1, <3>1, <3>2, JoinedIsSeq
  <2>5. k * n \in Nat
    BY <2>2, <1>1
  <2>. QED
    BY <2>3, <2>4, <2>5, <1>2
<1>7. row \in Bytes(z)
  BY <1>6 DEF Bytes
<1>8. d = LET body == B
              count == body[9][1]
              packet_len == u16_from(Slice(body, 9, 11))
          IN  IF \/ Len(s) < SYMBOL_OVERHEAD
                 \/ ~open_frame(s, SYMBOL, 0)
                 \/ Len(body) # 11 + count * packet_len
              THEN Refused
              ELSE [type |-> SYMBOL, sid4 |-> Slice(body, 0, 4),
                    frame_id |-> u32_from(Slice(body, 4, 8)), packet_len |-> packet_len,
                    packets |-> [j \in 1..count |->
                           Slice(body, 11 + (j - 1) * packet_len, 11 + j * packet_len)]]
  <2>. HIDE DEF s
  <2>. QED
    BY DEF DecodeSymbols
<1>. HIDE DEF n, z, row, f2, f3, f4, s, d
<1>9. /\ Shown(s, SYMBOL) /\ Len(s) = z + 19 /\ Len(B) = z + 11
      /\ \E S : Plain \subseteq S /\ B \in Seq(S)
      /\ Slice(B, 0, 4) = sid /\ B[9] = f3[1] /\ Slice(B, 9, 11) = f4
      /\ \A i \in 1..z : B[11 + i] = row[i]
  <2>1. z \in Nat /\ f2 \in Bytes(4) /\ f3 \in Bytes(1) /\ f4 \in Bytes(2) /\ row \in Bytes(z)
    BY <1>4, <1>5, <1>6, <1>7
  <2>. QED
    BY <1>3, <2>1, SymbolParts, SMTT(30)
<1>10. PICK S : Plain \subseteq S /\ B \in Seq(S)
  BY <1>9
<1>. HIDE DEF B
<1>11. ASSUME NEW j \in 1..k
       PROVE  Slice(B, 11 + (j - 1) * n, 11 + j * n) = q[j]
  <2>. DEFINE m == j - 1
              a == m * n
  <2>1. m \in Nat /\ m + 1 = j /\ m < k
    BY <1>1
  <2>2. a \in Nat /\ j * n = a + n /\ j * n <= z
    <3>1. (m + 1) * n = m * n + n /\ m * n \in Nat
      BY <1>4, <2>1
    <3>2. j * n <= k * n
      BY <1>4, <1>1, <2>1, Z3
    <3>. QED
      BY <2>1, <3>1, <3>2 DEF z
  <2>3. q[j] \in Bytes(n) /\ q[j] \in Seq(Plain) /\ Len(q[j]) = n
    BY <1>2 DEF Bytes, n
  <2>4. ASSUME NEW i \in 1..n PROVE B[11 + a + i] = q[j][i]
    <3>. DEFINE p == a + i
    <3>1. a \in Nat /\ n \in Nat /\ z \in Nat /\ a + n <= z /\ i \in Nat /\ i >= 1 /\ i <= n
      BY <1>4, <1>6, <2>2
    <3>2. p \in 1..z /\ p > a /\ p <= a + n /\ p - a = i
      <4>. HIDE DEF a
      <4>. QED
        BY <3>1
    <3>3. (p - 1) \div n = m /\ (p - 1) % n = p - a - 1
      <4>1. p \in 1..((m + 1) * n) /\ p > m * n
        BY <2>1, <2>2, <3>2
      <4>. HIDE DEF p, m
      <4>2. (p - 1) \div n = m /\ (p - 1) % n = p - m * n - 1
        BY <1>4, <2>1, <4>1, PlaceOf
      <4>. QED
        BY <4>2
    <3>. HIDE DEF p, m, a
    <3>4. p - a - 1 + 1 = i
      BY <3>2, <2>2
    <3>5. row[p] = q[j][i]
      BY <1>6, <2>1, <3>2, <3>3, <3>4 DEF Joined, At, z
    <3>6. B[11 + p] = row[p]
      BY <1>9, <3>2
    <3>7. 11 + a + i = 11 + p
      BY <2>2 DEF p
    <3>. QED
      BY <3>5, <3>6, <3>7
  <2>. HIDE DEF m, a
  <2>5. SubSeq(B, (11 + a) + 1, (11 + a) + Len(q[j])) = q[j]
    <3>. DEFINE o == 11 + a
                f == q[j]
    <3>1. f \in Seq(S)
      BY <1>10, <2>3, SeqMonotonic
    <3>2. o \in Nat /\ o + Len(f) <= Len(B)
      BY <1>6, <1>9, <2>2, <2>3
    <3>3. \A i \in 1..Len(f) : B[o + i] = f[i]
      BY <2>3, <2>4
    <3>. HIDE DEF o, f
    <3>4. SubSeq(B, o + 1, o + Len(f)) = f
      BY <1>10, <3>1, <3>2, <3>3, PartAt
    <3>. QED
      BY <3>4 DEF o, f
  <2>6. 11 + (j - 1) * n = 11 + a /\ 11 + j * n = (11 + a) + Len(q[j])
    BY <2>2, <2>3 DEF a, m
  <2>. QED
    BY <2>5, <2>6 DEF Slice
<1>12. B[9][1] = k /\ u16_from(Slice(B, 9, 11)) = n
  BY <1>4, <1>5, <1>9
<1>13. ASSUME d # Refused
       PROVE  d.sid4 = sid /\ d.packets = q
  <2>1. d = [type |-> SYMBOL, sid4 |-> Slice(B, 0, 4),
             frame_id |-> u32_from(Slice(B, 4, 8)), packet_len |-> n,
             packets |-> [j \in 1..k |-> Slice(B, 11 + (j - 1) * n, 11 + j * n)]]
    BY <1>8, <1>12, <1>13
  <2>2. d.sid4 = sid
    BY <1>9, <2>1
  <2>3. d.packets = q
    <3>1. d.packets = [j \in 1..k |-> Slice(B, 11 + (j - 1) * n, 11 + j * n)]
      BY <2>1
    <3>. QED
      BY <1>11, <1>1, <1>2, <3>1
  <2>. QED
    BY <2>2, <2>3
<1>14. Len(s) = frame_size(k, n)
  BY <1>6, <1>9 DEF frame_size, SYMBOL_OVERHEAD, z
<1>. QED
  BY <1>9, <1>13, <1>14 DEF s, d, n

-----------------------------------------------------------------------------
(* The frames in view *)

(* Some packets of the file fill the symbol frames, from any packet on.       *)
LEMMA SymbolFrame ==
  ASSUME NEW f \in File, tx = Transmitter(f), NEW e \in DOMAIN tx.packets, NEW c \in Nat
  PROVE  LET s == EncodeSymbols(Symbols(e, c))
             d == DecodeSymbols(s)
         IN  /\ Shown(s, SYMBOL) /\ Len(s) = frame_size(PerFrame(c), PacketLen)
             /\ d # Refused => d.packets \in Seq(Range(tx.packets))
<1>. DEFINE packets == tx.packets
            n == Needed(Announced(f).oti)
            k == PerFrame(c)
            q == [j \in 1..k |-> packets[(e + j - 1) % Cardinality(DOMAIN packets)]]
            sid == Slice(SessionId, 0, 4)
            R == Range(packets)
<1>1. /\ n \in Nat \ {0} /\ DOMAIN packets = 0..(n - 1)
      /\ packets \in [0..(n - 1) -> Bytes(PacketLen)]
  BY PacketsOf, PacketsNeeded
<1>2. k \in 1..255
  BY PerFrameIs
<1>3. Symbols(e, c) = [type |-> SYMBOL, sid4 |-> sid, frame_id |-> e + 1, packet_len |-> PacketLen,
                       packets |-> q]
  BY DEF Symbols
<1>4. sid \in Bytes(4)
  <2>1. SessionId \in Seq(Plain) /\ Len(SessionId) = 8
    BY FillBytes DEF SessionId
  <2>2. SubSeq(SessionId, 1, 4) \in Seq(Plain) /\ Len(SubSeq(SessionId, 1, 4)) = 4
    <3>1. 1 \in 1..(Len(SessionId) + 1) /\ 4 \in (1 - 1)..Len(SessionId) /\ 4 - 1 + 1 = 4
      BY <2>1
    <3>. QED
      BY <2>1, <3>1, PartType
  <2>. QED
    BY <2>2 DEF Slice, Bytes
<1>. HIDE DEF n, k, sid, packets
<1>5. Cardinality(DOMAIN packets) = n
  <2>1. Cardinality(0..(n - 1)) = n
    <3>. DEFINE m == n - 1
    <3>1. m \in Int /\ m >= 0 /\ m - 0 + 1 = n
      BY <1>1
    <3>. HIDE DEF m
    <3>2. Cardinality(0..m) = m - 0 + 1
      BY <3>1, FS_Interval
    <3>. QED
      BY <3>1, <3>2 DEF m
  <2>. QED
    BY <1>1, <2>1
<1>6. ASSUME NEW j \in 1..k PROVE q[j] \in R /\ q[j] \in Bytes(PacketLen)
  <2>. DEFINE i == e + j - 1
  <2>1. i \in Nat
    <3>1. e \in Nat
      BY <1>1 DEF packets
    <3>. QED
      BY <1>2, <3>1
  <2>2. q[j] = packets[i % n]
    BY <1>5
  <2>. HIDE DEF i, q
  <2>3. i % n \in 0..(n - 1)
    BY <1>1, <2>1, Divided
  <2>. QED
    BY <1>1, <2>2, <2>3 DEF Range
<1>7. q \in Seq(R) /\ q \in Seq(Seq(Plain)) /\ Len(q) = k
  <2>1. \A j \in 1..k : q[j] \in R /\ q[j] \in Seq(Plain)
    BY <1>6 DEF Bytes
  <2>2. q = [j \in 1..k |-> q[j]] /\ k \in Nat
    BY <1>2
  <2>. HIDE DEF q, R
  <2>. QED
    BY <2>1, <2>2
<1>8. e + 1 \in Nat
  BY <1>1 DEF packets
<1>. DEFINE id == e + 1
            g == Symbols(e, c)
            s == EncodeSymbols(g)
            d == DecodeSymbols(s)
<1>9. \A j \in 1..k : q[j] \in Bytes(PacketLen)
  BY <1>6
<1>10. g = [type |-> SYMBOL, sid4 |-> sid, frame_id |-> id, packet_len |-> PacketLen, packets |-> q]
  BY <1>3
<1>. HIDE DEF q, id, g, R
<1>11. /\ Shown(s, SYMBOL) /\ Len(s) = frame_size(k, PacketLen)
       /\ d # Refused => d.packets = q
  <2>1. id \in Nat
    BY <1>8 DEF id
  <2>2. k \in Counts /\ q \in Rows(k)
    BY <1>2, <1>7, <1>9 DEF Counts, Rows
  <2>3. LET w == EncodeSymbols(g)
            r == DecodeSymbols(w)
        IN  /\ Shown(w, SYMBOL) /\ Len(w) = frame_size(k, PacketLen)
            /\ r # Refused => r.sid4 = sid /\ r.packets = q
    BY <1>4, <1>10, <2>1, <2>2, SymbolFields
  <2>. QED
    BY <2>3
<1>. QED
  BY <1>7, <1>11 DEF s, d, g, k, R, packets

(* The beacon of a file on a screen.                                          *)
LEMMA BeaconFrame ==
  ASSUME NEW f \in File
  PROVE  LET s == EncodeBeacon(Announced(f))
         IN  Shown(s, BEACON) /\ DecodeBeacon(s) \in {Refused, Announced(f)}
<1>1. Len(Plaintext(f)) \in U32 /\ Len(Ciphertext(f)) \in U32
  BY SealedFile
<1>2. Oti(Ciphertext(f)) \in Bytes(12)
  BY <1>1, OtiReadBack
<1>3. Mtu \in U16
  BY Sizes
<1>4. Draft(f).flags \in 0..3 /\ Draft(f).flags \in Nat
  BY AnnouncedIs
<1>5. /\ SessionId \in Bytes(8) /\ Fill(12, 32) \in Bytes(32) /\ Fill(13, 24) \in Bytes(24)
      /\ Fill(14, 8) \in Bytes(8)
  BY FillField DEF SessionId
<1>. DEFINE v == 1
            w == Draft(f).flags
            id == SessionId
            key == Fill(12, 32)
            non == Fill(13, 24)
            len == Len(Plaintext(f))
            info == Oti(Ciphertext(f))
            sz == Mtu
            pal == 0
            px == 8
            h == Fill(14, 8)
            c == Announced(f)
<1>6. c = [type |-> BEACON, mode |-> v, flags |-> w, session_id |-> id, s_eph_pub |-> key,
           nonce |-> non, plaintext_len |-> len, oti |-> info, symbol_size |-> sz,
           palette |-> pal, tile_px |-> px, build_hash |-> h]
  BY AnnouncedIs
<1>7. /\ v \in Nat /\ w \in Nat /\ pal \in Nat /\ px \in Nat /\ len \in U32 /\ sz \in U16
      /\ id \in Bytes(8) /\ key \in Bytes(32) /\ non \in Bytes(24) /\ info \in Bytes(12)
      /\ h \in Bytes(8)
  BY <1>1, <1>2, <1>3, <1>4, <1>5
<1>. HIDE DEF v, w, pal, px, len, sz, id, key, non, info, h, c
<1>8. Shown(EncodeBeacon(c), BEACON) /\ DecodeBeacon(EncodeBeacon(c)) \in {Refused, c}
  BY <1>6, <1>7, BeaconReadBack, SMTT(30)
<1>. QED
  BY <1>8 DEF c

(* Another pair's handshake on a screen.                                      *)
LEMMA ControlFrame ==
  ASSUME NEW c \in Controls
  PROVE  LET s == EncodeControl(c)
         IN  /\ Shown(s, c.type) /\ c.type \in {PAIR_REQ, REVEAL, COMPLETE}
             /\ c.type = PAIR_REQ => DecodePairReq(s) \in {Refused, c}
             /\ c.type = REVEAL => DecodeReveal(s) \in {Refused, c}
             /\ c.type = COMPLETE => DecodeComplete(s) \in {Refused, c}
<1>1. /\ Fill(21, 8) \in Bytes(8) /\ Fill(22, 32) \in Bytes(32) /\ Fill(23, 4) \in Bytes(4)
      /\ Fill(24, 16) \in Bytes(16) /\ Fill(21, 4) \in Bytes(4) /\ Fill(25, 16) \in Bytes(16)
      /\ Fill(26, 8) \in Bytes(8)
  BY FillField
<1>2. PAIR_REQ # REVEAL /\ PAIR_REQ # COMPLETE /\ REVEAL # COMPLETE
  BY DEF PAIR_REQ, REVEAL, COMPLETE
<1>. DEFINE c1 == [type |-> PAIR_REQ, flags |-> 4, session_id |-> Fill(21, 8),
                   r_eph_pub |-> Fill(22, 32), id_hint |-> Fill(23, 4), r_commit |-> Fill(24, 16)]
            c2 == [type |-> REVEAL, sid4 |-> Fill(21, 4), r_nonce |-> Fill(25, 16)]
            c3 == [type |-> COMPLETE, sid4 |-> Fill(21, 4), status |-> 0, hash8 |-> Fill(26, 8)]
<1>3. c = c1 \/ c = c2 \/ c = c3
  BY DEF Controls
<1>4. Shown(EncodePairReq(c1), PAIR_REQ) /\ DecodePairReq(EncodePairReq(c1)) \in {Refused, c1}
  <2>1. 4 \in Nat
    OBVIOUS
  <2>. QED
    BY <1>1, <2>1, PairReqReadBack
<1>5. Shown(EncodeReveal(c2), REVEAL) /\ DecodeReveal(EncodeReveal(c2)) \in {Refused, c2}
  BY <1>1, RevealReadBack
<1>6. Shown(EncodeComplete(c3), COMPLETE) /\ DecodeComplete(EncodeComplete(c3)) \in {Refused, c3}
  <2>1. 0 \in {0, 1}
    OBVIOUS
  <2>. QED
    BY <1>1, <2>1, CompleteReadBack
<1>7. c1.type = PAIR_REQ /\ c2.type = REVEAL /\ c3.type = COMPLETE
  OBVIOUS
<1>. HIDE DEF c1, c2, c3
<1>8. CASE c = c1
  <2>1. EncodeControl(c) = EncodePairReq(c)
    BY <1>2, <1>7, <1>8 DEF EncodeControl
  <2>. QED
    BY <1>2, <1>4, <1>7, <1>8, <2>1
<1>9. CASE c = c2
  <2>1. EncodeControl(c) = EncodeReveal(c)
    BY <1>2, <1>7, <1>9 DEF EncodeControl
  <2>. QED
    BY <1>2, <1>5, <1>7, <1>9, <2>1
<1>10. CASE c = c3
  <2>1. EncodeControl(c) = EncodeComplete(c)
    BY <1>2, <1>7, <1>10 DEF EncodeControl
  <2>. QED
    BY <1>2, <1>6, <1>7, <1>10, <2>1
<1>. QED
  BY <1>3, <1>8, <1>9, <1>10

-----------------------------------------------------------------------------
(* Damaged frames *)

(* The display shows the packets of a staged file.                            *)
Showing(f) == f \in File /\ tx = Transmitter(f) /\ \A r \in Rung : known[r] \in Nat

(* A frame that each decoder reads as what was encoded, or not at all.        *)
Faithful(s) ==
  /\ DecodeBeacon(s) \in {Refused, tx.beacon}
  /\ DecodeSymbols(s) # Refused => DecodeSymbols(s).packets \in Seq(Range(tx.packets))
  /\ DecodePairReq(s) \in Controls \cup {Refused}
  /\ DecodeReveal(s) \in Controls \cup {Refused}
  /\ DecodeComplete(s) \in Controls \cup {Refused}

(* No decoder takes a frame of another type.                                  *)
LEMMA OtherTypeRefused ==
  ASSUME NEW ty \in Nat, NEW s, Shown(s, ty)
  PROVE  /\ ty # BEACON => DecodeBeacon(s) = Refused
         /\ ty # SYMBOL => DecodeSymbols(s) = Refused
         /\ ty # PAIR_REQ => DecodePairReq(s) = Refused
         /\ ty # REVEAL => DecodeReveal(s) = Refused
         /\ ty # COMPLETE => DecodeComplete(s) = Refused
<1>1. s[4] = Byte(ty)
  BY ShownFrame
<1>2. ASSUME NEW want \in Nat, NEW len, want # ty, open_frame(s, want, len) PROVE FALSE
  <2>1. Byte(ty) = Byte(want)
    BY <1>1, <1>2 DEF open_frame
  <2>. QED
    BY <1>2, <2>1 DEF Byte
<1>3. BEACON \in Nat /\ SYMBOL \in Nat /\ PAIR_REQ \in Nat /\ REVEAL \in Nat /\ COMPLETE \in Nat
  BY DEF BEACON, SYMBOL, PAIR_REQ, REVEAL, COMPLETE
<1>4. ty # BEACON => DecodeBeacon(s) = Refused
  BY <1>2, <1>3 DEF DecodeBeacon
<1>5. ty # SYMBOL => DecodeSymbols(s) = Refused
  BY <1>2, <1>3 DEF DecodeSymbols
<1>6. ty # PAIR_REQ => DecodePairReq(s) = Refused
  BY <1>2, <1>3 DEF DecodePairReq
<1>7. ty # REVEAL => DecodeReveal(s) = Refused
  BY <1>2, <1>3 DEF DecodeReveal
<1>8. ty # COMPLETE => DecodeComplete(s) = Refused
  BY <1>2, <1>3 DEF DecodeComplete
<1>. QED
  BY <1>4, <1>5, <1>6, <1>7, <1>8

(* Each decoder reads each frame in view as what was encoded, or refuses it.  *)
LEMMA InViewIsFaithful ==
  ASSUME NEW f, Showing(f), NEW s \in InView
  PROVE  Faithful(s) /\ \E ty \in Nat : Shown(s, ty)
<1>. USE DEF Showing
<1>1. /\ BEACON \in Nat /\ SYMBOL \in Nat /\ PAIR_REQ \in Nat /\ REVEAL \in Nat /\ COMPLETE \in Nat
      /\ BEACON \notin {SYMBOL, PAIR_REQ, REVEAL, COMPLETE}
      /\ SYMBOL \notin {PAIR_REQ, REVEAL, COMPLETE}
      /\ PAIR_REQ \notin {REVEAL, COMPLETE} /\ REVEAL # COMPLETE
  BY DEF BEACON, SYMBOL, PAIR_REQ, REVEAL, COMPLETE
<1>2. CASE s = EncodeBeacon(tx.beacon)
  <2>1. tx.beacon = Announced(f)
    BY DEF Transmitter
  <2>2. Shown(s, BEACON) /\ DecodeBeacon(s) \in {Refused, tx.beacon}
    BY <1>2, <2>1, BeaconFrame
  <2>3. /\ DecodeSymbols(s) = Refused /\ DecodePairReq(s) = Refused
        /\ DecodeReveal(s) = Refused /\ DecodeComplete(s) = Refused
    BY <1>1, <2>2, OtherTypeRefused
  <2>. QED
    BY <1>1, <2>2, <2>3 DEF Faithful
<1>3. CASE s \in SymbolFrames
  <2>1. PICK e \in DOMAIN tx.packets, r \in Rung : s = EncodeSymbols(Symbols(e, known[r]))
    BY <1>3 DEF SymbolFrames
  <2>2. known[r] \in Nat
    OBVIOUS
  <2>3. /\ Shown(s, SYMBOL)
        /\ DecodeSymbols(s) # Refused => DecodeSymbols(s).packets \in Seq(Range(tx.packets))
    BY <2>1, <2>2, SymbolFrame
  <2>4. /\ DecodeBeacon(s) = Refused /\ DecodePairReq(s) = Refused
        /\ DecodeReveal(s) = Refused /\ DecodeComplete(s) = Refused
    BY <1>1, <2>3, OtherTypeRefused
  <2>. QED
    BY <1>1, <2>3, <2>4 DEF Faithful
<1>4. CASE s \in {EncodeControl(c) : c \in Controls}
  <2>1. PICK c \in Controls : s = EncodeControl(c)
    BY <1>4
  <2>2. /\ Shown(s, c.type) /\ c.type \in {PAIR_REQ, REVEAL, COMPLETE}
        /\ c.type = PAIR_REQ => DecodePairReq(s) \in {Refused, c}
        /\ c.type = REVEAL => DecodeReveal(s) \in {Refused, c}
        /\ c.type = COMPLETE => DecodeComplete(s) \in {Refused, c}
    BY <2>1, ControlFrame
  <2>3. c.type \in Nat /\ c.type # BEACON /\ c.type # SYMBOL
    BY <1>1, <2>2
  <2>4. /\ DecodeBeacon(s) = Refused /\ DecodeSymbols(s) = Refused
        /\ c.type # PAIR_REQ => DecodePairReq(s) = Refused
        /\ c.type # REVEAL => DecodeReveal(s) = Refused
        /\ c.type # COMPLETE => DecodeComplete(s) = Refused
    BY <2>2, <2>3, OtherTypeRefused
  <2>. QED
    BY <2>1, <2>2, <2>3, <2>4 DEF Faithful
<1>. QED
  BY <1>2, <1>3, <1>4 DEF InView

(* A frame cut off, run on or spliced has no bytes but those of the frames,   *)
(* and one of another version is taken by no decoder.                         *)
LEMMA DamagedBytes ==
  ASSUME NEW S, NEW frames, frames \subseteq Seq(S), Byte(0) \in S, NEW t \in Damaged(frames)
  PROVE  t \in Seq(S) \/ \E a \in frames : t = OtherVersion(a)
<1>1. ASSUME NEW a \in Seq(S), NEW k \in Cuts
      PROVE  CutAt(a, k) \in Seq(S) /\ SubSeq(a, k + 1, Len(a)) \in Seq(S)
  <2>1. k \in Nat
    BY ParcelAssumption
  <2>. DEFINE n == Len(a)
              m == Min({k, n})
  <2>2. n \in Nat /\ \A i \in 1..n : a[i] \in S
    OBVIOUS
  <2>. HIDE DEF n
  <2>3. m \in Nat /\ m <= n
    <3>1. CASE k <= n
      <4>1. m = k
        BY <2>1, <2>2, <3>1 DEF Min
      <4>. QED
        BY <2>1, <3>1, <4>1
    <3>2. CASE n <= k
      <4>1. m = n
        BY <2>1, <2>2, <3>2 DEF Min
      <4>. QED
        BY <2>2, <4>1
    <3>. QED
      BY <2>1, <2>2, <3>1, <3>2
  <2>4. CutAt(a, k) = SubSeq(a, 1, m)
    BY DEF CutAt, n
  <2>. HIDE DEF m
  <2>5. SubSeq(a, 1, m) \in Seq(S)
    <3>1. 1 \in Int /\ m \in Int /\ \A i \in 1..m : a[i] \in S
      BY <2>2, <2>3
    <3>. QED
      BY <3>1, SubSeqProperties
  <2>6. SubSeq(a, k + 1, n) \in Seq(S)
    <3>. DEFINE j == k + 1
    <3>1. j \in Int /\ n \in Int /\ \A i \in j..n : a[i] \in S
      BY <2>1, <2>2
    <3>. HIDE DEF j
    <3>2. SubSeq(a, j, n) \in Seq(S)
      BY <3>1, SubSeqProperties
    <3>. QED
      BY <3>2 DEF j
  <2>. QED
    BY <2>4, <2>5, <2>6, SMTT(30) DEF n
<1>2. ASSUME NEW a \in frames, NEW b \in frames, NEW k \in Cuts,
             t = Torn(a, b, k)
      PROVE  t \in Seq(S)
  BY <1>1, <1>2, ConcatProperties DEF Torn
<1>3. ASSUME NEW a \in frames, NEW k \in Cuts, t = CutAt(a, k) PROVE t \in Seq(S)
  BY <1>1, <1>3
<1>4. ASSUME NEW a \in frames, t = a \o <<Byte(0)>> PROVE t \in Seq(S)
  <2>1. <<Byte(0)>> \in Seq(S)
    OBVIOUS
  <2>. QED
    BY <1>4, <2>1, ConcatProperties
<1>. DEFINE torn == {Torn(a, b, k) : a \in frames, b \in frames, k \in Cuts}
            short == {CutAt(a, k) : a \in frames, k \in Cuts}
            padded == {a \o <<Byte(0)>> : a \in frames}
            other == {OtherVersion(a) : a \in frames}
<1>5. t \in torn \/ t \in short \/ t \in padded \/ t \in other
  <2>1. Damaged(frames) = torn \cup short \cup padded \cup other
    BY DEF Damaged
  <2>. HIDE DEF torn, short, padded, other
  <2>. QED
    BY <2>1
<1>6. t \in torn => t \in Seq(S)
  BY <1>2
<1>7. t \in short => t \in Seq(S)
  BY <1>3
<1>8. t \in padded => t \in Seq(S)
  BY <1>4
<1>9. t \in other => \E a \in frames : t = OtherVersion(a)
  OBVIOUS
<1>. HIDE DEF torn, short, padded, other
<1>. QED
  BY <1>5, <1>6, <1>7, <1>8, <1>9

(* What is accepted is a frame some screen shows, whole. *)
LEMMA AcceptedIsInView ==
  ASSUME NEW f, Showing(f), NEW t \in InView \cup Damaged(InView), t \notin InView,
         NEW ty \in Nat, NEW len \in Nat, len # 0 => len >= 8, open_frame(t, ty, len)
  PROVE  FALSE
<1>. DEFINE W == {x \in Seq(Plain) : seal_crc(x) \in InView}
            S == Plain \cup Sums(W)
<1>1. ASSUME NEW s \in InView PROVE s \in Seq(S)
  <2>1. PICK x \in Seq(Plain) : s = seal_crc(x)
    BY InViewIsFaithful, ShownFrame
  <2>2. x \in W
    BY <2>1
  <2>. HIDE DEF W
  <2>3. seal_crc(x) \in Seq(S)
    BY <2>2, SealedFrame
  <2>. QED
    BY <2>1, <2>3
<1>2. Byte(0) \in S
  BY DEF Byte, Plain
<1>3. W \in SUBSET Seq(Plain) /\ \A x \in W : seal_crc(x) \in InView
  OBVIOUS
<1>. HIDE DEF W
<1>4. t \in Seq(S) \/ \E a \in InView : t = OtherVersion(a)
  <2>. HIDE DEF S
  <2>. QED
    BY <1>1, <1>2, DamagedBytes
<1>5. CASE t \in Seq(S)
  <2>1. \E x \in W : t = seal_crc(x)
    BY <1>3, <1>5, AcceptedIsWhole
  <2>. QED
    BY <1>3, <2>1
<1>6. ASSUME NEW a \in InView, t = OtherVersion(a) PROVE FALSE
  <2>1. PICK v \in Nat : Shown(a, v)
    BY InViewIsFaithful
  <2>. QED
    BY <1>6, <2>1, OtherVersionRefused
<1>. QED
  BY <1>4, <1>5, <1>6

(* Damaged or not, a frame is read as what was encoded, or not at all. *)
LEMMA ReadAsShown ==
  ASSUME NEW f, Showing(f), NEW t \in InView \cup Damaged(InView)
  PROVE  Faithful(t)
<1>1. CASE t \in InView
  BY <1>1, InViewIsFaithful
<1>2. CASE t \notin InView
  <2>. DEFINE Lengths == {n \in Nat : n # 0 => n >= 8}
  <2>1. \A ty \in Nat, len \in Lengths : ~open_frame(t, ty, len)
    BY <1>2, AcceptedIsInView
  <2>2. /\ BEACON \in Nat /\ SYMBOL \in Nat /\ PAIR_REQ \in Nat /\ REVEAL \in Nat /\ COMPLETE \in Nat
        /\ BEACON_LEN \in Lengths /\ PAIR_REQ_LEN \in Lengths /\ REVEAL_LEN \in Lengths
        /\ COMPLETE_LEN \in Lengths /\ 0 \in Lengths
    BY DEF BEACON, SYMBOL, PAIR_REQ, REVEAL, COMPLETE, BEACON_LEN, PAIR_REQ_LEN, REVEAL_LEN,
           COMPLETE_LEN
  <2>. HIDE DEF Lengths
  <2>3. /\ DecodeBeacon(t) = Refused /\ DecodeSymbols(t) = Refused /\ DecodePairReq(t) = Refused
        /\ DecodeReveal(t) = Refused /\ DecodeComplete(t) = Refused
    BY <2>1, <2>2 DEF DecodeBeacon, DecodeSymbols, DecodePairReq, DecodeReveal, DecodeComplete
  <2>. QED
    BY <2>3 DEF Faithful
<1>. QED
  BY <1>1, <1>2

-----------------------------------------------------------------------------
(* The capacity of a rung *)

(* One rung is measured at a time, and its answer lies inside the bracket     *)
(* from the first turn to the last.                                           *)
Bracketed ==
  \A r \in asking :
    /\ asking = {r}
    /\ lo <= Holds[r] /\ Holds[r] <= hi /\ hi <= MaxBytes

QrInv == QrTypeOK /\ Bracketed /\ CapacityExact

(* The middle, rounded up, is above the low end and not above the high end:   *)
(* rounding down would leave a bracket of two unchanged for ever.             *)
LEMMA MiddleIsInside ==
  ASSUME NEW a \in Nat, NEW b \in Nat, a < b
  PROVE  /\ div_ceil(a + b, 2) \in Nat
         /\ a < div_ceil(a + b, 2)
         /\ div_ceil(a + b, 2) <= b
BY SMT DEF div_ceil

(* One turn keeps the answer inside and makes the bracket smaller.            *)
LEMMA ProbeKeeps ==
  ASSUME NEW r \in Rung, NEW a \in Nat, NEW b \in Nat, NEW h \in Nat,
         a < b, a <= h, h <= b,
         NEW mid \in Nat, a < mid, mid <= b,
         NEW c, NEW d,
         IF mid <= h THEN c = mid /\ d = b ELSE d = mid - 1 /\ c = a
  PROVE  c \in Nat /\ d \in Nat /\ c <= h /\ h <= d /\ d <= b /\ d - c < b - a
BY SMT

(* Nothing has been asked yet.                                                *)
LEMMA SearchInit ==
  QrInit => QrInv
<1>1. MaxBytes \in Nat /\ Unknown \in 0..Unknown
  BY QrAssumption, SMT DEF Unknown
<1>. QED
  BY <1>1 DEF QrInit, QrInv, QrTypeOK, Bracketed, CapacityExact

(* Every step keeps the answer in the bracket; when the two ends meet, it is  *)
(* what is returned.                                                          *)
LEMMA SearchStep ==
  QrInv /\ [QrNext]_qrvars => QrInv'
<1>. SUFFICES ASSUME QrInv, [QrNext]_qrvars PROVE QrInv'
  OBVIOUS
<1>. USE QrAssumption
<1>1. MaxBytes \in Nat /\ (\A r \in Rung : Holds[r] \in Nat /\ Holds[r] <= MaxBytes)
  BY SMT
<1>. USE DEF QrInv, QrTypeOK
<1>2. ASSUME NEW r \in Rung, Ask(r) PROVE QrInv'
  BY <1>1, <1>2 DEF Ask, Bracketed, CapacityExact
<1>3. ASSUME NEW r \in Rung, Search(r) PROVE QrInv'
  <2>. DEFINE mid == div_ceil(lo + hi, 2)
  <2>1. lo < hi /\ lo <= Holds[r] /\ Holds[r] <= hi /\ hi <= MaxBytes
    BY <1>3 DEF Search, Bracketed
  <2>2. mid \in Nat /\ lo < mid /\ mid <= hi
    BY <2>1, MiddleIsInside
  <2>3. IF mid <= Holds[r] THEN lo' = mid /\ hi' = hi ELSE hi' = mid - 1 /\ lo' = lo
    BY <1>3 DEF Search, Probe, fits
  <2>. HIDE DEF mid
  <2>4. lo' \in Nat /\ hi' \in Nat /\ lo' <= Holds[r] /\ Holds[r] <= hi' /\ hi' <= hi
    BY <1>1, <2>1, <2>2, <2>3, ProbeKeeps
  <2>5. hi' <= MaxBytes
    BY <1>1, <2>1, <2>4, SMT
  <2>6. asking' = asking /\ asking = {r} /\ known' = known
    BY <1>3 DEF Search, Bracketed
  <2>. QED
    BY <2>4, <2>5, <2>6 DEF Bracketed, CapacityExact
<1>4. ASSUME NEW r \in Rung, Return(r) PROVE QrInv'
  <2>1. lo = Holds[r]
    BY <1>1, <1>4, SMT DEF Return, Bracketed
  <2>. QED
    BY <1>1, <1>4, <2>1, SMT DEF Return, Bracketed, CapacityExact, Unknown
<1>5. CASE UNCHANGED qrvars
  BY <1>5 DEF qrvars, Bracketed, CapacityExact, Unknown
<1>. QED
  BY <1>2, <1>3, <1>4, <1>5 DEF QrNext

(* What capacity() returns is the most the encoder accepts, for every rung.   *)
THEOREM CapacityIsExact == QrSpec => []CapacityExact
<1>1. QrInv => CapacityExact
  BY DEF QrInv
<1>. QED
  BY SearchInit, SearchStep, <1>1, PTL DEF QrSpec

(* No turn of the loop leaves the bracket as wide as it was, so none is       *)
(* repeated and the search ends.                                              *)
THEOREM SearchAlwaysNarrows == QrSpec => SearchNarrows
<1>1. QrInv /\ [QrNext]_qrvars => [asking' = asking /\ asking # {} => hi' - lo' < hi - lo]_qrvars
  <2>. SUFFICES ASSUME QrInv, QrNext, asking' = asking, asking # {}
                PROVE  hi' - lo' < hi - lo
    BY DEF qrvars
  <2>1. PICK r \in Rung : Search(r)
    BY DEF QrNext, Ask, Return, QrInv, Bracketed
  <2>2. lo < hi /\ lo <= Holds[r] /\ Holds[r] <= hi /\ lo \in Nat /\ hi \in Nat
    BY <2>1 DEF Search, Bracketed, QrInv, QrTypeOK
  <2>. DEFINE mid == div_ceil(lo + hi, 2)
  <2>3. mid \in Nat /\ lo < mid /\ mid <= hi
    BY <2>2, MiddleIsInside
  <2>4. IF mid <= Holds[r] THEN lo' = mid /\ hi' = hi ELSE hi' = mid - 1 /\ lo' = lo
    BY <2>1 DEF Search, Probe, fits
  <2>. HIDE DEF mid
  <2>5. Holds[r] \in Nat
    BY QrAssumption, SMT
  <2>. QED
    BY <2>2, <2>3, <2>4, <2>5, ProbeKeeps
<1>. QED
  BY SearchInit, SearchStep, <1>1, PTL DEF QrSpec, SearchNarrows

-----------------------------------------------------------------------------

(* The whole: nothing is on the display before a file is staged; what was     *)
(* decoded is what is displayed; what came out is what was staged.            *)
Idle ==
  /\ file = None /\ tx = [beacon |-> None, packets |-> <<>>]
  /\ beacon = None /\ got = {} /\ out = None /\ scanned = None

Staging ==
  /\ file \in File /\ tx = Transmitter(file) /\ Measured
  /\ beacon \in {None, tx.beacon}
  /\ got \subseteq Range(tx.packets)
  /\ beacon = None => got = {}
  /\ scanned \in Controls \cup {None}
  /\ out \in {None, unwrap(Plaintext(file))}

ParcelInv == QrInv /\ (Idle \/ Staging) /\ CompleteSetOpens

(* Nothing has been staged yet.                                               *)
LEMMA ParcelInit ==
  Init => ParcelInv
<1>1. Init => QrInv
  BY SearchInit DEF Init
<1>2. Init => Idle
  BY DEF Init, Idle
<1>3. Init => CompleteSetOpens
  BY DEF Init, CompleteSetOpens
<1>. QED
  BY <1>1, <1>2, <1>3 DEF ParcelInv

(* A staged file is shown on rungs that have been measured.                   *)
LEMMA StagingShows ==
  ASSUME QrInv, Staging
  PROVE  Showing(file)
<1>1. \A r \in Rung : known[r] \in Nat
  BY QrAssumption DEF QrInv, QrTypeOK, Unknown
<1>. QED
  BY <1>1 DEF Staging, Showing

(* Once measured, a rung stays measured. *)
LEMMA StaysMeasured ==
  ASSUME QrInv, QrInv', Measured, [QrNext]_qrvars
  PROVE  Measured'
<1>. USE DEF Measured
<1>1. ASSUME NEW r \in Rung, Ask(r) PROVE Measured'
  BY <1>1 DEF Ask, Unknown
<1>2. ASSUME NEW r \in Rung, Search(r) PROVE Measured'
  BY <1>2 DEF Search, Unknown
<1>3. ASSUME NEW r \in Rung, Return(r) PROVE Measured'
  <2>1. lo \in Nat /\ lo <= MaxBytes /\ MaxBytes \in Nat
    <3>1. lo \in Nat /\ lo <= Holds[r]
      BY <1>3 DEF Return, QrInv, QrTypeOK, Bracketed
    <3>2. Holds[r] \in 0..MaxBytes /\ MaxBytes \in Nat
      BY QrAssumption
    <3>. QED
      BY <3>1, <3>2
  <2>2. lo # Unknown
    BY <2>1 DEF Unknown
  <2>3. known' = [known EXCEPT ![r] = lo] /\ known \in [Rung -> 0..Unknown]
    BY <1>3 DEF Return, QrInv, QrTypeOK
  <2>. QED
    BY <2>2, <2>3 DEF Unknown
<1>4. CASE UNCHANGED qrvars
  BY <1>4 DEF qrvars, Unknown
<1>. QED
  BY <1>1, <1>2, <1>3, <1>4 DEF QrNext

(* Staging a file.                                                            *)
LEMMA SendKeeps ==
  ASSUME ParcelInv, NEW f \in File, Send(f)
  PROVE  ParcelInv'
<1>1. QrInv'
  <2>1. UNCHANGED qrvars
    BY DEF Send
  <2>. QED
    BY <2>1, SearchStep DEF ParcelInv
<1>2. Idle
  BY FileAssumption DEF ParcelInv, Staging, Send
<1>3. Measured'
  BY DEF Send, Measured, qrvars, Unknown
<1>4. Staging'
  BY <1>2, <1>3 DEF Send, Staging, Idle
<1>5. CompleteSetOpens'
  BY <1>2 DEF Send, Idle, CompleteSetOpens
<1>. QED
  BY <1>1, <1>4, <1>5 DEF ParcelInv

(* Measuring a rung touches nothing of the transfer.                          *)
LEMMA MeasureKeeps ==
  ASSUME ParcelInv, [QrNext]_qrvars, UNCHANGED <<file, tx, beacon, got, out, scanned>>
  PROVE  ParcelInv'
<1>1. QrInv'
  BY SearchStep DEF ParcelInv
<1>2. CASE Idle
  BY <1>1, <1>2 DEF ParcelInv, Idle, CompleteSetOpens
<1>3. CASE Staging
  <2>1. Measured'
    BY <1>1, <1>3, StaysMeasured DEF ParcelInv, Staging
  <2>2. Staging'
    BY <1>3, <2>1 DEF Staging
  <2>3. CompleteSetOpens'
    BY DEF ParcelInv, CompleteSetOpens
  <2>. QED
    BY <1>1, <2>2, <2>3 DEF ParcelInv
<1>. QED
  BY <1>2, <1>3 DEF ParcelInv

(* The packets absorbed are of those decoded.                                 *)
LEMMA AbsorbedAre ==
  ASSUME NEW R, got \subseteq R, NEW q \in Seq(R)
  PROVE  Absorbed(q) \subseteq R
<1>1. \A j \in DOMAIN q : q[j] \in R
  OBVIOUS
<1>. QED
  BY <1>1 DEF Absorbed

(* Ingesting a frame that is read as it was encoded: the beacon is the one    *)
(* shown, the packets are of those shown, and they are delivered when all of  *)
(* them are there.                                                            *)
LEMMA IngestKeeps ==
  ASSUME ParcelInv, Staging, NEW t, Faithful(t), Ingest(t)
  PROVE  ParcelInv'
<1>1. QrInv' /\ UNCHANGED <<file, tx, scanned>> /\ out = None /\ Measured'
  <2>1. UNCHANGED qrvars /\ UNCHANGED <<file, tx, scanned>> /\ out = None
    BY DEF Ingest
  <2>2. QrInv'
    BY <2>1, SearchStep DEF ParcelInv
  <2>3. Measured'
    BY <2>1 DEF Staging, Measured, qrvars, Unknown
  <2>. QED
    BY <2>1, <2>2, <2>3
<1>. DEFINE R == Range(tx.packets)
<1>2. file \in File /\ tx = Transmitter(file) /\ tx.beacon = Announced(file)
  BY DEF Staging, Transmitter
<1>3. CASE /\ beacon = None
           /\ DecodeBeacon(t) # Refused
           /\ beacon' = DecodeBeacon(t)
           /\ UNCHANGED <<got, out>>
  <2>1. beacon' = tx.beacon /\ got = {} /\ got' = {}
    BY <1>3 DEF Faithful, Staging
  <2>2. R # {}
    BY <1>2, PacketsOf
  <2>3. Staging'
    BY <1>1, <1>2, <1>3, <2>1 DEF Staging
  <2>4. CompleteSetOpens'
    BY <1>1, <2>1, <2>2 DEF CompleteSetOpens
  <2>. QED
    BY <1>1, <2>3, <2>4 DEF ParcelInv
<1>4. CASE /\ beacon # None
           /\ DecodeSymbols(t) # Refused
           /\ got' = Absorbed(DecodeSymbols(t).packets)
           /\ out' = IF got' # got THEN Deliver(beacon, got') ELSE None
           /\ UNCHANGED beacon
  <2>1. beacon = tx.beacon /\ got \subseteq R
    BY <1>4 DEF Staging
  <2>2. DecodeSymbols(t).packets \in Seq(R)
    BY <1>4 DEF Faithful
  <2>3. got' \subseteq R
    BY <1>4, <2>1, <2>2, AbsorbedAre
  <2>4. Deliver(beacon, got') = IF got' = R THEN unwrap(Plaintext(file)) ELSE None
    BY <1>2, <2>1, <2>3, DeliverIs
  <2>5. unwrap(Plaintext(file)) # None
    BY <1>2, Staged
  <2>6. Staging'
    BY <1>1, <1>2, <1>4, <2>1, <2>3, <2>4 DEF Staging
  <2>7. CompleteSetOpens'
    <3>1. ASSUME got' = R PROVE out' # None
      <4>1. CASE got' = got
        <5>1. out # None
          BY <1>4, <3>1, <4>1 DEF ParcelInv, CompleteSetOpens
        <5>. QED
          BY <1>1, <5>1
      <4>2. CASE got' # got
        BY <1>4, <2>4, <2>5, <3>1, <4>2
      <4>. QED
        BY <4>1, <4>2
    <3>. QED
      BY <1>1, <3>1 DEF CompleteSetOpens
  <2>. QED
    BY <1>1, <2>6, <2>7 DEF ParcelInv
<1>. QED
  BY <1>3, <1>4 DEF Ingest

(* Scanning one for a handshake.                                              *)
LEMMA ScanKeeps ==
  ASSUME ParcelInv, Staging, NEW t, Faithful(t), Scan(t)
  PROVE  ParcelInv'
<1>1. UNCHANGED qrvars /\ UNCHANGED <<file, tx, beacon, got, out>>
  BY DEF Scan
<1>2. QrInv'
  BY <1>1, SearchStep DEF ParcelInv
<1>3. Measured'
  BY <1>1 DEF Staging, Measured, qrvars, Unknown
<1>4. scanned' \in Controls
  BY DEF Scan, Faithful
<1>5. Staging'
  BY <1>1, <1>3, <1>4 DEF Staging
<1>6. CompleteSetOpens'
  BY <1>1 DEF ParcelInv, CompleteSetOpens
<1>. QED
  BY <1>2, <1>5, <1>6 DEF ParcelInv

(* Every step keeps it.                                                       *)
LEMMA ParcelStep ==
  ParcelInv /\ [Next]_vars => ParcelInv'
<1>. SUFFICES ASSUME ParcelInv, [Next]_vars PROVE ParcelInv'
  OBVIOUS
<1>1. CASE Measure
  BY <1>1, MeasureKeeps DEF Measure
<1>2. ASSUME NEW f \in File, Send(f) PROVE ParcelInv'
  BY <1>2, SendKeeps
<1>3. CASE Look
  <2>1. Staging
    BY <1>3 DEF ParcelInv, Look, Idle
  <2>2. PICK t \in InView \cup Damaged(InView) : Ingest(t) \/ Scan(t)
    BY <1>3 DEF Look
  <2>3. Faithful(t)
    BY <2>1, <2>2, StagingShows, ReadAsShown DEF ParcelInv
  <2>. QED
    BY <2>1, <2>2, <2>3, IngestKeeps, ScanKeeps
<1>4. CASE UNCHANGED vars
  <2>1. UNCHANGED qrvars /\ UNCHANGED <<file, tx, beacon, got, out, scanned>>
    BY <1>4 DEF vars
  <2>. QED
    BY <2>1, MeasureKeeps
<1>. QED
  BY <1>1, <1>2, <1>3, <1>4 DEF Next

(* It holds throughout.                                                       *)
THEOREM Invariance == Spec => []ParcelInv
BY ParcelInit, ParcelStep, PTL DEF Spec

(* A frame packed for a rung can be drawn on it. *)
LEMMA FramesAreFull ==
  ASSUME ParcelInv
  PROVE  FramesFit
<1>. SUFFICES ASSUME file # None, NEW r \in Rung, NEW e \in DOMAIN tx.packets,
                     frame_size(1, PacketLen) <= Holds[r]
              PROVE  LET bytes == Len(EncodeSymbols(Symbols(e, known[r])))
                     IN  /\ bytes <= Holds[r]
                         /\ bytes + PacketLen > Holds[r] \/ PerFrame(Holds[r]) = 255
  BY DEF FramesFit
<1>1. Staging
  BY DEF ParcelInv, Idle
<1>2. known[r] = Holds[r] /\ Holds[r] \in Nat
  BY <1>1, QrAssumption DEF ParcelInv, QrInv, CapacityExact, Staging, Measured
<1>3. Len(EncodeSymbols(Symbols(e, known[r]))) = frame_size(PerFrame(Holds[r]), PacketLen)
  BY <1>1, <1>2, SymbolFrame DEF Staging
<1>. QED
  BY <1>2, <1>3, PerFrameIs

(* The search goes on beside a transfer, and what it returns stays exact.     *)
THEOREM CapacityHolds == Spec => []CapacityExact
<1>1. ParcelInv => CapacityExact
  BY DEF ParcelInv, QrInv
<1>. QED
  BY <1>1, Invariance, PTL

(* Whatever the capacities, the symbol size and the file, a frame packed for a *)
(* rung can be drawn on it and could not have taken one packet more.          *)
THEOREM FramesAlwaysFit == Spec => []FramesFit
BY FramesAreFull, Invariance, PTL

(* For every damage that Cuts describes, nothing is read that no screen showed. *)
THEOREM NothingElseIsRead == Spec => []OnlyShownIsRead
<1>1. ParcelInv => OnlyShownIsRead
  BY DEF ParcelInv, Idle, Staging, OnlyShownIsRead
<1>. QED
  BY <1>1, Invariance, PTL

(* Whoever has the beacon and all the packets has the file: sealing, cutting, *)
(* numbering, joining, opening and inflating undo each other, for every file. *)
THEOREM CompleteIsOpened == Spec => []CompleteSetOpens
<1>1. ParcelInv => CompleteSetOpens
  BY DEF ParcelInv
<1>. QED
  BY <1>1, Invariance, PTL

-----------------------------------------------------------------------------
(* What comes out is harmless *)

(* A byte of a file or of an envelope, as far as unwrap looks into it. *)
Legible(byte) == byte[1] \in Nat /\ (Len(byte) = 2 => byte[2] \in MimeType)

(* Every byte of what is staged can be looked into.                           *)
LEMMA StagedIsLegible ==
  ASSUME NEW f \in File, NEW byte \in Staff(f)
  PROVE  Legible(byte)
<1>1. CASE byte \in Range(f.body)
  BY <1>1, Staged DEF Legible
<1>2. ASSUME NEW c \in Nat, byte = <<c>> PROVE Legible(byte)
  BY <1>2 DEF Legible
<1>3. ASSUME NEW c \in Nat, NEW j \in Nat, NEW w \in Nat, byte = <<c, j, w>> PROVE Legible(byte)
  BY <1>3 DEF Legible
<1>4. ASSUME NEW i \in Nat, NEW m \in MimeType, byte = <<i, m>> PROVE Legible(byte)
  BY <1>4 DEF Legible
<1>. QED
  BY <1>1, <1>2, <1>3, <1>4 DEF Staff, Utf8, TypeBytes, Numbers

(* What is read as a name is one; and a type, one.                            *)
LEMMA NameRead ==
  ASSUME NEW S, \A byte \in S : Legible(byte), NEW b \in Seq(S)
  PROVE  from_utf8(b) \in Seq(Nat) \cup {None}
<1>. DEFINE K == {byte \in Range(b) : First(byte)}
            first == Kept(b, K)
            R == {x \in S : x \in K}
            name == [i \in DOMAIN first |-> first[i][1]]
<1>1. from_utf8(b) = IF as_bytes(name) = b THEN name ELSE None
  BY DEF from_utf8
<1>. HIDE DEF K
<1>2. first \in Seq(R)
  BY KeptType
<1>3. \A x \in R : x[1] \in Nat
  BY DEF Legible
<1>. HIDE DEF first, R
<1>4. name \in Seq(Nat)
  BY <1>2, <1>3
<1>. HIDE DEF name
<1>. QED
  BY <1>1, <1>4

(* What is read as a type is one.                                             *)
LEMMA TypeRead ==
  ASSUME NEW S, \A byte \in S : Legible(byte), NEW b \in Seq(S)
  PROVE  MimeOf(b) \in {None} \cup MimeType
<1>1. b # <<>> => b[1] \in S
  OBVIOUS
<1>2. CASE b # <<>> /\ Len(b[1]) = 2 /\ MimeBytes(b[1][2]) = b
  BY <1>1, <1>2 DEF MimeOf, Legible
<1>3. CASE ~(b # <<>> /\ Len(b[1]) = 2 /\ MimeBytes(b[1][2]) = b)
  BY <1>3 DEF MimeOf
<1>. QED
  BY <1>2, <1>3

Labelled(o) ==
  /\ o.name # None => o.name \in Seq(Harmless) /\ Len(o.name) \in 1..MAX_NAME
  /\ o.mime # None =>
       /\ <<o.mime.ty, o.mime.sub>> # <<"image", "svg+xml">>
       /\ \/ o.mime.ty \in {"image", "audio", "video"}
          \/ <<o.mime.ty, o.mime.sub>> \in {<<"text", "plain">>, <<"application", "pdf">>}

(* A type that is let through does not script. *)
LEMMA MimeIsHarmless ==
  ASSUME NEW m \in {None} \cup MimeType, safe_mime(m) # None
  PROVE  /\ <<safe_mime(m).ty, safe_mime(m).sub>> # <<"image", "svg+xml">>
         /\ \/ safe_mime(m).ty \in {"image", "audio", "video"}
            \/ <<safe_mime(m).ty, safe_mime(m).sub>> \in {<<"text", "plain">>, <<"application", "pdf">>}
<1>1. /\ safe_mime(m).ty = m.ty /\ safe_mime(m).sub = m.sub
      /\ <<m.ty, m.sub>> # <<"image", "svg+xml">> /\ {m.ty, m.sub} \subseteq Tokens
      /\ \/ m.ty \in {"image", "audio", "video"}
         \/ <<m.ty, m.sub>> \in {<<"text", "plain">>, <<"application", "pdf">>}
  BY SafeMimeType
<1>. QED
  BY <1>1

(* Whatever bytes arrive, what unwrap hands on is labelled harmlessly.        *)
LEMMA UnwrapIsHarmless ==
  ASSUME None \notin Seq(Nat), NEW S, \A byte \in S : Legible(byte), NEW raw \in Seq(S)
  PROVE  Labelled(unwrap(raw))
<1>. DEFINE end == Len(raw)
            name_len == raw[end - 6][1]
            mime_len == raw[end - 5][1]
            split == end - (FIXED + name_len + mime_len)
            name == from_utf8(SubSeq(raw, split + 1, split + name_len))
            mime == MimeOf(SubSeq(raw, split + name_len + 1, end - FIXED))
<1>. DEFINE bare == \/ end < FIXED
                    \/ SubSeq(raw, end - 3, end) # ENVELOPE_MAGIC
                    \/ raw[end - 4] # ENVELOPE_VERSION
                    \/ FIXED + name_len + mime_len > end
<1>1. unwrap(raw) = IF bare
                    THEN [body |-> raw, name |-> None, mime |-> None]
                    ELSE [body |-> SubSeq(raw, 1, split),
                          name |-> IF name = None THEN None ELSE safe_name(name),
                          mime |-> safe_mime(mime)]
  BY DEF unwrap
<1>2. CASE bare
  <2>1. unwrap(raw).name = None /\ unwrap(raw).mime = None
    BY <1>1, <1>2
  <2>. QED
    BY <2>1 DEF Labelled
<1>3. CASE ~bare
  <2>1. end \in Nat /\ end >= 7 /\ ~(FIXED + name_len + mime_len > end) /\ FIXED = 7
    BY <1>3 DEF FIXED
  <2>2. name_len \in Nat /\ mime_len \in Nat
    <3>1. end - 6 \in 1..end /\ end - 5 \in 1..end
      BY <2>1
    <3>2. raw[end - 6] \in S /\ raw[end - 5] \in S
      BY <3>1
    <3>. QED
      BY <3>2 DEF Legible
  <2>3. end \in Nat /\ FIXED + name_len + mime_len <= end /\ FIXED = 7
    <3>. HIDE DEF name_len, mime_len, end
    <3>. QED
      BY <2>1, <2>2
  <2>4. /\ unwrap(raw).name = (IF name = None THEN None ELSE safe_name(name))
        /\ unwrap(raw).mime = safe_mime(mime)
    BY <1>1, <1>3
  <2>. HIDE DEF name_len, mime_len, bare
  <2>5. /\ split + 1 \in 1..(end + 1) /\ split + name_len \in split..end
        /\ split + name_len + 1 \in 1..(end + 1) /\ end - FIXED \in (split + name_len)..end
        /\ split \in Nat
    BY <2>3, <2>2
  <2>. HIDE DEF split
  <2>6. /\ SubSeq(raw, split + 1, split + name_len) \in Seq(S)
        /\ SubSeq(raw, split + name_len + 1, end - FIXED) \in Seq(S)
    <3>1. split + 1 - 1 = split /\ split + name_len + 1 - 1 = split + name_len
      BY <2>2, <2>5
    <3>. QED
      BY <2>5, <3>1, PartType
  <2>7. name \in Seq(Nat) \cup {None} /\ mime \in {None} \cup MimeType
    BY <2>6, NameRead, TypeRead
  <2>. HIDE DEF name, mime
  <2>8. unwrap(raw).name # None =>
          unwrap(raw).name \in Seq(Harmless) /\ Len(unwrap(raw).name) \in 1..MAX_NAME
    BY <2>4, <2>7, SafeNameType
  <2>9. unwrap(raw).mime # None =>
         /\ <<unwrap(raw).mime.ty, unwrap(raw).mime.sub>> # <<"image", "svg+xml">>
         /\ \/ unwrap(raw).mime.ty \in {"image", "audio", "video"}
            \/ <<unwrap(raw).mime.ty, unwrap(raw).mime.sub>> \in {<<"text", "plain">>, <<"application", "pdf">>}
    BY <2>4, <2>7, MimeIsHarmless
  <2>. QED
    BY <2>8, <2>9 DEF Labelled
<1>. QED
  BY <1>2, <1>3

(* What came out was unwrapped.                                               *)
LEMMA DeliveredIsHarmless ==
  ASSUME ParcelInv
  PROVE  HarmlessLabel
<1>. SUFFICES ASSUME out # None PROVE HarmlessLabel
  BY DEF HarmlessLabel
<1>1. file \in File /\ out = unwrap(Plaintext(file))
  BY DEF ParcelInv, Idle, Staging
<1>2. Labelled(out)
  <2>1. \A byte \in Staff(file) : Legible(byte)
    BY <1>1, StagedIsLegible
  <2>2. Plaintext(file) \in Seq(Staff(file)) /\ None \notin Seq(Nat)
    BY <1>1, PlaintextIsSeq, FileAssumption
  <2>. QED
    BY <1>1, <2>1, <2>2, UnwrapIsHarmless
<1>3. ASSUME NEW s \in Seq(Harmless), NEW i \in DOMAIN s
      PROVE  ~IsControl(s[i]) /\ s[i] \notin {Slash, Backslash}
  <2>1. s[i] \in Harmless
    OBVIOUS
  <2>. QED
    BY <2>1 DEF Harmless, Unseparated
<1>. QED
  BY <1>2, <1>3 DEF Labelled, HarmlessLabel

(* Whatever name and type are claimed, and whatever bytes arrive in place of an *)
(* envelope, what the download is given is harmless.                          *)
THEOREM LabelIsHarmless == Spec => []HarmlessLabel
BY DeliveredIsHarmless, Invariance, PTL

-----------------------------------------------------------------------------
(* Names and types, read back *)

(* The steps of a filter, see KeptSteps.                                      *)
Keeps(F, s, keep) ==
  /\ F[0] = <<>>
  /\ \A i \in 1..Len(s) :
       F[i] = IF s[i] \in keep THEN Append(F[i - 1], s[i]) ELSE F[i - 1]

(* Two filters that agree on the beginnings of two sequences.                 *)
LEMMA KeptAgree ==
  ASSUME NEW S, NEW s \in Seq(S), NEW t \in Seq(S), NEW n \in Nat, n <= Len(s), n <= Len(t),
         NEW K, NEW L, NEW F, NEW G, Keeps(F, s, K), Keeps(G, t, L),
         \A i \in 1..n : s[i] = t[i] /\ (s[i] \in K <=> t[i] \in L)
  PROVE  F[n] = G[n]
<1>. SUFFICES ASSUME F[n] # G[n] PROVE FALSE
  OBVIOUS
<1>. DEFINE T == {j \in 0..n : F[j] # G[j]}
<1>1. PICK j \in T : \A m \in T : j <= m
  <2>1. T \in SUBSET Nat /\ n \in T
    OBVIOUS
  <2>. HIDE DEF T
  <2>. QED
    BY <2>1, LeastElement
<1>2. j # 0
  BY <1>1 DEF Keeps
<1>3. j \in 1..n /\ j - 1 \in 0..n /\ j - 1 < j /\ j \in 1..Len(s) /\ j \in 1..Len(t)
  BY <1>1, <1>2
<1>4. F[j - 1] = G[j - 1]
  BY <1>1, <1>3
<1>5. /\ F[j] = IF s[j] \in K THEN Append(F[j - 1], s[j]) ELSE F[j - 1]
      /\ G[j] = IF t[j] \in L THEN Append(G[j - 1], t[j]) ELSE G[j - 1]
  BY <1>3 DEF Keeps
<1>6. F[j] = G[j]
  BY <1>3, <1>4, <1>5
<1>. QED
  BY <1>1, <1>6

(* The steps of a filter, by that name.                                       *)
LEMMA KeptIs ==
  ASSUME NEW S, NEW s \in Seq(S), NEW keep
  PROVE  \E F : Kept(s, keep) = F[Len(s)] /\ Keeps(F, s, keep)
BY KeptSteps DEF Keeps

(* Two filters that agree on a sequence keep the same of it.                  *)
LEMMA KeptSame ==
  ASSUME NEW S, NEW s \in Seq(S), NEW K, NEW L, \A i \in 1..Len(s) : s[i] \in K <=> s[i] \in L
  PROVE  Kept(s, K) = Kept(s, L)
<1>1. PICK F : Kept(s, K) = F[Len(s)] /\ Keeps(F, s, K)
  BY KeptIs
<1>2. PICK G : Kept(s, L) = G[Len(s)] /\ Keeps(G, s, L)
  BY KeptIs
<1>3. Len(s) \in Nat /\ Len(s) <= Len(s)
  OBVIOUS
<1>4. F[Len(s)] = G[Len(s)]
  BY <1>1, <1>2, <1>3, KeptAgree
<1>. QED
  BY <1>1, <1>2, <1>4

(* A filter that drops nothing.                                               *)
LEMMA KeptAll ==
  ASSUME NEW S, NEW s \in Seq(S), NEW keep, \A i \in 1..Len(s) : s[i] \in keep
  PROVE  Kept(s, keep) = s
<1>1. PICK F : Kept(s, keep) = F[Len(s)] /\ Keeps(F, s, keep)
  BY KeptIs
<1>. DEFINE n == Len(s)
            H == [i \in 0..n |-> SubSeq(s, 1, i)]
<1>. SUFFICES ASSUME F[n] # s PROVE FALSE
  BY <1>1
<1>2. n \in Nat /\ H[n] = s /\ H[0] = <<>>
  OBVIOUS
<1>3. ASSUME NEW i \in 1..n PROVE H[i] = Append(H[i - 1], s[i])
  <2>1. i \in 0..n /\ i - 1 \in 0..n
    OBVIOUS
  <2>2. SubSeq(s, 1, i) = Append(SubSeq(s, 1, i - 1), s[i])
    OBVIOUS
  <2>. QED
    BY <2>1, <2>2
<1>. DEFINE T == {j \in 0..n : F[j] # H[j]}
<1>4. PICK j \in T : \A m \in T : j <= m
  <2>1. T \in SUBSET Nat /\ n \in T
    BY <1>2
  <2>. HIDE DEF T
  <2>. QED
    BY <2>1, LeastElement
<1>5. j # 0 /\ j \in 0..n
  BY <1>1, <1>2, <1>4 DEF Keeps
<1>6. j \in 1..n /\ j - 1 \in 0..n /\ j - 1 < j
  BY <1>2, <1>5
<1>. HIDE DEF H
<1>7. F[j - 1] = H[j - 1]
  BY <1>4, <1>6
<1>8. F[j] = Append(F[j - 1], s[j])
  BY <1>1, <1>6 DEF Keeps
<1>9. F[j] = H[j]
  BY <1>3, <1>6, <1>7, <1>8
<1>. QED
  BY <1>4, <1>9

(* Of a piece only the first byte is kept.                                    *)
LEMMA KeptPiece ==
  ASSUME NEW S, NEW a \in Seq(S), NEW c \in Seq(S), Len(c) # 0, NEW keep,
         c[1] \in keep, \A i \in 2..Len(c) : c[i] \notin keep
  PROVE  Kept(a \o c, keep) = Append(Kept(a, keep), c[1])
<1>. DEFINE b == a \o c
            m == Len(a)
            n == Len(c)
<1>1. /\ b \in Seq(S) /\ Len(b) = m + n /\ m \in Nat /\ n \in Nat \ {0}
      /\ \A i \in 1..m : b[i] = a[i]
      /\ \A i \in 1..n : b[m + i] = c[i]
  BY Longer
<1>2. PICK F : Kept(b, keep) = F[Len(b)] /\ Keeps(F, b, keep)
  <2>1. b \in Seq(S)
    BY <1>1
  <2>. HIDE DEF b
  <2>. QED
    BY <2>1, KeptIs
<1>3. PICK G : Kept(a, keep) = G[m] /\ Keeps(G, a, keep)
  BY KeptIs
<1>. HIDE DEF b, m, n
<1>4. F[m] = G[m]
  <2>1. m <= Len(a) /\ m <= Len(b)
    BY <1>1 DEF m
  <2>2. \A i \in 1..m : b[i] = a[i] /\ (b[i] \in keep <=> a[i] \in keep)
    BY <1>1
  <2>3. b \in Seq(S) /\ m \in Nat /\ Keeps(F, b, keep) /\ Keeps(G, a, keep)
    BY <1>1, <1>2, <1>3
  <2>. QED
    BY <2>1, <2>2, <2>3, KeptAgree
<1>5. F[m + 1] = Append(G[m], c[1])
  <2>1. m + 1 \in 1..Len(b) /\ 1 \in 1..n /\ (m + 1) - 1 = m
    BY <1>1
  <2>2. b[m + 1] = c[1]
    BY <1>1, <2>1
  <2>3. F[m + 1] = IF b[m + 1] \in keep THEN Append(F[(m + 1) - 1], b[m + 1]) ELSE F[(m + 1) - 1]
    BY <1>2, <2>1 DEF Keeps
  <2>. QED
    BY <1>4, <2>1, <2>2, <2>3
<1>6. F[m + n] = F[m + 1]
  <2>. SUFFICES ASSUME F[m + n] # F[m + 1] PROVE FALSE
    OBVIOUS
  <2>. DEFINE T == {j \in 1..n : F[m + j] # F[m + 1]}
  <2>1. PICK j \in T : \A i \in T : j <= i
    <3>1. T \in SUBSET Nat /\ n \in T
      BY <1>1
    <3>. HIDE DEF T
    <3>. QED
      BY <3>1, LeastElement
  <2>2. j # 1 /\ j \in 1..n /\ m \in Nat /\ n \in Nat /\ Len(b) = m + n
    BY <1>1, <2>1
  <2>3. /\ j \in 2..n /\ j - 1 \in 1..n /\ j - 1 < j
        /\ m + j \in 1..Len(b) /\ (m + j) - 1 = m + (j - 1)
    BY <2>2
  <2>4. F[m + (j - 1)] = F[m + 1]
    BY <2>1, <2>3
  <2>5. b[m + j] = c[j] /\ c[j] \notin keep
    BY <1>1, <2>3 DEF n
  <2>6. F[m + j] = IF b[m + j] \in keep THEN Append(F[(m + j) - 1], b[m + j]) ELSE F[(m + j) - 1]
    BY <1>2, <2>3 DEF Keeps
  <2>7. F[m + j] = F[m + 1]
    BY <2>3, <2>4, <2>5, <2>6
  <2>. QED
    BY <2>1, <2>7
<1>. QED
  BY <1>1, <1>2, <1>3, <1>5, <1>6 DEF b, m

(* A character begins with the one byte that from_utf8 looks for.             *)
LEMMA PieceFirst ==
  ASSUME NEW c \in Nat
  PROVE  /\ Len(Piece(c)) # 0 /\ Piece(c)[1] \in Utf8 /\ First(Piece(c)[1]) /\ Piece(c)[1][1] = c
         /\ \A j \in 2..Len(Piece(c)) : ~First(Piece(c)[j])
<1>1. /\ Width(c) \in 1..4 /\ Piece(c) \in Seq(Utf8) /\ Len(Piece(c)) = Width(c)
  BY PieceType
<1>2. CASE Width(c) = 1
  <2>1. Piece(c) = <<<<c>>>>
    BY <1>2 DEF Piece
  <2>2. Piece(c)[1] = <<c>> /\ First(<<c>>) /\ <<c>>[1] = c
    BY <2>1 DEF First
  <2>. QED
    BY <1>1, <1>2, <2>2
<1>3. CASE Width(c) # 1
  <2>. DEFINE w == Width(c)
  <2>1. Piece(c) = [j \in 1..w |-> <<c, j, w>>]
    BY <1>3 DEF Piece
  <2>2. w \in 2..4
    BY <1>1, <1>3
  <2>. HIDE DEF w
  <2>3. \A j \in 1..w : Piece(c)[j] = <<c, j, w>>
    BY <2>1
  <2>4. \A j \in 2..w : ~First(<<c, j, w>>)
    BY <2>2 DEF First
  <2>5. First(<<c, 1, w>>) /\ <<c, 1, w>>[1] = c
    BY DEF First
  <2>6. Piece(c)[1] = <<c, 1, w>>
    BY <2>2, <2>3
  <2>7. Len(Piece(c)) = w
    BY <1>1 DEF w
  <2>8. Piece(c)[1] \in Utf8
    BY <1>1, <2>2, <2>7
  <2>. QED
    BY <2>2, <2>3, <2>4, <2>5, <2>6, <2>7, <2>8
<1>. QED
  BY <1>2, <1>3

(* A name is read back as it was written. *)
LEMMA Utf8ReadBack ==
  ASSUME NEW name \in Seq(Nat)
  PROVE  from_utf8(as_bytes(name)) = name
<1>. DEFINE rows == [i \in DOMAIN name |-> Piece(name[i])]
            b == as_bytes(name)
            N == Len(name)
            K == {byte \in Utf8 : First(byte)}
            keep == {byte \in Range(b) : First(byte)}
            Heads(i) == [k \in 1..i |-> Piece(name[k])[1]]
<1>1. b = FlattenSeq(rows)
  BY DEF as_bytes, Piece
<1>2. b \in Seq(Utf8)
  BY NameBytes
<1>3. N \in Nat /\ DOMAIN name = 1..N /\ \A i \in 1..N : name[i] \in Nat
  OBVIOUS
<1>4. rows \in Seq(Seq(Utf8)) /\ Len(rows) = N /\ \A i \in 1..N : rows[i] = Piece(name[i])
  <2>1. \A c \in Nat : Piece(c) \in Seq(Utf8)
    BY PieceType
  <2>2. \A i \in 1..N : Piece(name[i]) \in Seq(Utf8)
    BY <1>3, <2>1
  <2>. HIDE DEF N
  <2>. QED
    BY <1>3, <2>2
<1>5. from_utf8(b) = LET first == Kept(b, keep)
                         read == [i \in DOMAIN first |-> first[i][1]]
                     IN  IF as_bytes(read) = b THEN read ELSE None
  BY DEF from_utf8
<1>6. \A i \in 1..Len(b) : b[i] \in keep <=> b[i] \in K
  <2>. HIDE DEF b
  <2>1. \A i \in 1..Len(b) : b[i] \in Range(b) /\ b[i] \in Utf8
    BY <1>2 DEF Range
  <2>. QED
    BY <2>1
<1>. HIDE DEF keep
<1>7. Kept(b, keep) = Kept(b, K)
  <2>. HIDE DEF b, K
  <2>. QED
    BY <1>2, <1>6, KeptSame
<1>8. Kept(<<>>, K) = <<>>
  <2>. HIDE DEF K
  <2>1. <<>> \in Seq(Utf8) /\ Len(<<>>) = 0
    OBVIOUS
  <2>2. Kept(<<>>, K) \in Seq({x \in Utf8 : x \in K})
    BY <2>1, KeptType
  <2>3. \A i \in 1..Len(<<>>) : <<>>[i] \in K
    OBVIOUS
  <2>. QED
    BY <2>1, <2>3, KeptAll
<1>9. Kept(b, K) = Heads(N)
  <2>1. CASE N = 0
    <3>1. rows = <<>> /\ Heads(N) = <<>>
      BY <1>4, <2>1
    <3>2. b = <<>>
      BY <1>1, <3>1 DEF FlattenSeq
    <3>. QED
      BY <1>8, <3>1, <3>2
  <2>2. CASE N # 0
    <3>. HIDE DEF rows, b, K
    <3>1. PICK G : /\ FlattenSeq(rows) = G[Len(rows)]
                   /\ \A i \in 1..Len(rows) :
                        /\ G[i] = (IF i = 1 THEN rows[i] ELSE G[i-1] \o rows[i])
                        /\ G[i] \in Seq(Utf8)
      BY <1>4, <2>2, FlattenSteps
    <3>. HIDE DEF N
    <3>2. b = G[N]
      BY <1>1, <1>4, <3>1
    <3>3. SUFFICES ASSUME Kept(G[N], K) # Heads(N) PROVE FALSE
      BY <3>2
    <3>. DEFINE T == {j \in 1..N : Kept(G[j], K) # Heads(j)}
    <3>4. PICK j \in T : \A m \in T : j <= m
      <4>1. T \in SUBSET Nat /\ N \in T
        BY <1>3, <2>2, <3>3
      <4>. HIDE DEF T
      <4>. QED
        BY <4>1, LeastElement
    <3>. DEFINE c == Piece(name[j])
    <3>5. /\ c \in Seq(Utf8) /\ Len(c) # 0 /\ c[1] \in K
          /\ \A i \in 2..Len(c) : c[i] \notin K
      <4>1. name[j] \in Nat
        BY <1>3, <3>4
      <4>. QED
        BY <4>1, PieceType, PieceFirst DEF K
    <3>6. CASE j = 1
      <4>1. <<>> \in Seq(Utf8)
        OBVIOUS
      <4>2. Kept(<<>> \o c, K) = Append(Kept(<<>>, K), c[1])
        BY <3>5, <4>1, KeptPiece
      <4>3. <<>> \o c = c
        BY <3>5
      <4>4. G[j] = c
        BY <1>4, <3>1, <3>4, <3>6
      <4>5. Append(<<>>, c[1]) = Heads(1)
        <5>1. Heads(1) = <<c[1]>>
          BY <3>6
        <5>. HIDE DEF Heads, c
        <5>. QED
          BY <5>1
      <4>. QED
        BY <1>8, <3>4, <3>6, <4>2, <4>3, <4>4, <4>5
    <3>7. CASE j # 1
      <4>1. j \in 1..N /\ j - 1 \in 1..N /\ j - 1 < j /\ j - 1 \in Nat
        BY <1>3, <3>4, <3>7
      <4>2. G[j - 1] \in Seq(Utf8) /\ G[j] = G[j - 1] \o c
        BY <1>4, <3>1, <3>7, <4>1
      <4>3. Kept(G[j - 1], K) = Heads(j - 1)
        BY <3>4, <4>1
      <4>4. Kept(G[j - 1] \o c, K) = Append(Kept(G[j - 1], K), c[1])
        BY <3>5, <4>2, KeptPiece
      <4>5. Append(Heads(j - 1), c[1]) = Heads(j)
        <5>. DEFINE m == j - 1
        <5>1. m \in Nat /\ j = m + 1
          BY <4>1
        <5>. DEFINE h(k) == Piece(name[k])[1]
        <5>2. /\ Heads(m) = [k \in 1..m |-> h(k)] /\ Heads(m + 1) = [k \in 1..(m + 1) |-> h(k)]
              /\ c[1] = h(m + 1)
          BY <5>1
        <5>. HIDE DEF m, h, Heads, c
        <5>3. Append([k \in 1..m |-> h(k)], h(m + 1)) = [k \in 1..(m + 1) |-> h(k)]
          BY <5>1
        <5>. QED
          BY <5>1, <5>2, <5>3 DEF m
      <4>. QED
        BY <3>4, <4>2, <4>3, <4>4, <4>5
    <3>. QED
      BY <3>6, <3>7
  <2>. QED
    BY <2>1, <2>2
<1>. DEFINE first == Kept(b, keep)
            read == [i \in DOMAIN first |-> first[i][1]]
<1>10. read = name
  <2>1. first = Heads(N)
    BY <1>7, <1>9
  <2>2. DOMAIN first = 1..N /\ \A i \in 1..N : first[i] = Piece(name[i])[1]
    BY <2>1
  <2>3. \A i \in 1..N : first[i][1] = name[i]
    <3>1. \A i \in 1..N : Piece(name[i])[1][1] = name[i]
      BY <1>3, PieceFirst
    <3>. QED
      BY <2>2, <3>1
  <2>. HIDE DEF first
  <2>. QED
    BY <1>3, <2>2, <2>3
<1>. QED
  BY <1>5, <1>10

Envelope(b, n, m, t) == (b \o (n \o m)) \o t

(* Four fields one after the other, each where the ones before it end.        *)
Fields(S, raw, b, n, m, t) ==
  /\ raw \in Seq(S) /\ Len(raw) = Len(b) + Len(n) + Len(m) + Len(t)
  /\ SubSeq(raw, 1, Len(b)) = b
  /\ SubSeq(raw, Len(b) + 1, Len(b) + Len(n)) = n
  /\ SubSeq(raw, Len(b) + Len(n) + 1, Len(b) + Len(n) + Len(m)) = m
  /\ \A i \in 1..Len(t) : raw[Len(b) + Len(n) + Len(m) + i] = t[i]

LEMMA FourFields ==
  ASSUME NEW S, NEW b \in Seq(S), NEW n \in Seq(S), NEW m \in Seq(S), NEW t \in Seq(S)
  PROVE  Fields(S, Envelope(b, n, m, t), b, n, m, t)
<1>. DEFINE p == n \o m
            q == b \o p
            u == Len(b)
            v == Len(n)
            w == Len(m)
            raw == q \o t
<1>1. /\ p \in Seq(S) /\ Len(p) = v + w
      /\ (\A i \in 1..v : p[i] = n[i]) /\ (\A i \in 1..w : p[v + i] = m[i])
  BY Longer
<1>2. u \in Nat /\ v \in Nat /\ w \in Nat /\ Len(t) \in Nat
  OBVIOUS
<1>. HIDE DEF p
<1>3. /\ q \in Seq(S) /\ Len(q) = u + Len(p)
      /\ (\A i \in 1..u : q[i] = b[i]) /\ (\A i \in 1..Len(p) : q[u + i] = p[i])
  <2>1. p \in Seq(S)
    BY <1>1
  <2>. HIDE DEF v, w
  <2>. QED
    BY <2>1, Longer
<1>. HIDE DEF q
<1>4. /\ raw \in Seq(S) /\ Len(raw) = Len(q) + Len(t)
      /\ (\A i \in 1..Len(q) : raw[i] = q[i]) /\ (\A i \in 1..Len(t) : raw[Len(q) + i] = t[i])
  <2>1. q \in Seq(S)
    BY <1>3
  <2>. HIDE DEF u, v, w
  <2>. QED
    BY <2>1, Longer
<1>. HIDE DEF u, v, w, raw
<1>5. Len(q) = u + v + w
  BY <1>1, <1>2, <1>3
<1>6. \A i \in 1..u : raw[0 + i] = b[i]
  BY <1>2, <1>3, <1>4, <1>5
<1>7. \A i \in 1..v : raw[u + i] = n[i]
  <2>1. SUFFICES ASSUME NEW i \in 1..v PROVE raw[u + i] = n[i]
    OBVIOUS
  <2>2. u + i \in 1..Len(q) /\ i \in 1..Len(p)
    BY <1>1, <1>2, <1>5
  <2>. QED
    BY <1>1, <1>3, <1>4, <2>2
<1>8. \A i \in 1..w : raw[u + v + i] = m[i]
  <2>1. SUFFICES ASSUME NEW i \in 1..w PROVE raw[u + v + i] = m[i]
    OBVIOUS
  <2>2. u + v + i \in 1..Len(q) /\ v + i \in 1..Len(p) /\ u + v + i = u + (v + i)
    BY <1>1, <1>2, <1>5
  <2>. QED
    BY <1>1, <1>3, <1>4, <2>2
<1>9. SubSeq(raw, 0 + 1, 0 + Len(b)) = b
  <2>1. 0 + Len(b) <= Len(raw) /\ \A i \in 1..Len(b) : raw[0 + i] = b[i]
    BY <1>2, <1>4, <1>5, <1>6 DEF u
  <2>. QED
    BY <1>4, <2>1, PartAt
<1>10. SubSeq(raw, u + 1, u + Len(n)) = n
  <2>1. u + Len(n) <= Len(raw) /\ \A i \in 1..Len(n) : raw[u + i] = n[i]
    BY <1>2, <1>4, <1>5, <1>7 DEF v
  <2>. QED
    BY <1>2, <1>4, <2>1, PartAt
<1>11. SubSeq(raw, (u + v) + 1, (u + v) + Len(m)) = m
  <2>1. (u + v) + Len(m) <= Len(raw) /\ \A i \in 1..Len(m) : raw[(u + v) + i] = m[i]
    BY <1>2, <1>4, <1>5, <1>8 DEF w
  <2>2. u + v \in Nat
    BY <1>2
  <2>. QED
    BY <1>4, <2>1, <2>2, PartAt
<1>12. 0 + 1 = 1 /\ 0 + Len(b) = Len(b)
  OBVIOUS
<1>. QED
  BY <1>4, <1>5, <1>9, <1>10, <1>11, <1>12 DEF u, v, w, p, q, raw, Envelope, Fields

(* The envelope comes apart as it was put together, if the length of the name *)
(* fits its byte.                                                             *)
LEMMA EnvelopeOpens ==
  ASSUME NEW f \in File, f.enveloped, Len(NameField(f.name)) \in 0..255
  PROVE  /\ unwrap(Plaintext(f)).body = f.body
         /\ unwrap(Plaintext(f)).name =
              (LET name == from_utf8(NameField(f.name))
               IN  IF name = None THEN None ELSE safe_name(name))
         /\ unwrap(Plaintext(f)).mime = safe_mime(MimeOf(MimeField(f.mime)))
<1>. DEFINE S == Staff(f)
            raw == Plaintext(f)
            b == f.body
            n == NameField(f.name)
            m == MimeField(f.mime)
            t == Foot(f)
            u == Len(b)
            v == Len(n)
            w == Len(m)
            end == Len(raw)
<1>1. raw = (b \o (n \o m)) \o t /\ b \in Seq(S) /\ n \in Seq(S) /\ m \in Seq(S) /\ t \in Seq(S)
  BY PlaintextParts, ZenonT(60)
<1>2. u \in Nat /\ v \in 0..255 /\ w \in 0..255
  <2>1. w \in 0..64
    BY TrailerTypes, SMTT(30) DEF MAX_MIME
  <2>2. u \in Nat
    BY <1>1
  <2>. HIDE DEF u, v, w
  <2>3. w \in 0..255
    BY <2>1
  <2>. QED
    BY <2>2, <2>3, SMTT(30) DEF v
<1>3. v % 256 = v /\ w % 256 = w
  <2>. HIDE DEF u, v, w
  <2>. QED
    BY <1>2
<1>4. t = <<<<v>>, <<w>>, <<1>>, <<82>>, <<66>>, <<75>>, <<80>>>>
  BY <1>3, FootBytes, SMTT(30)
<1>. HIDE DEF t
<1>5. /\ Len(t) = 7 /\ t[1] = <<v>> /\ t[2] = <<w>> /\ t[3] = ENVELOPE_VERSION
      /\ \A i \in 1..4 : t[3 + i] = ENVELOPE_MAGIC[i]
  <2>. HIDE DEF v, w
  <2>1. t[4] = <<82>> /\ t[5] = <<66>> /\ t[6] = <<75>> /\ t[7] = <<80>>
    BY <1>4
  <2>2. \A i \in 1..4 : i = 1 \/ i = 2 \/ i = 3 \/ i = 4
    OBVIOUS
  <2>3. /\ ENVELOPE_MAGIC[1] = <<82>> /\ ENVELOPE_MAGIC[2] = <<66>>
        /\ ENVELOPE_MAGIC[3] = <<75>> /\ ENVELOPE_MAGIC[4] = <<80>>
    BY DEF ENVELOPE_MAGIC
  <2>4. \A i \in 1..4 : t[3 + i] = ENVELOPE_MAGIC[i]
    BY <2>1, <2>2, <2>3, SMTT(30)
  <2>. QED
    BY <1>4, <2>4 DEF ENVELOPE_VERSION
<1>. HIDE DEF raw, n, m, b, S
<1>6. /\ raw \in Seq(S) /\ Len(raw) = Len(b) + Len(n) + Len(m) + Len(t)
      /\ SubSeq(raw, 1, Len(b)) = b
      /\ SubSeq(raw, Len(b) + 1, Len(b) + Len(n)) = n
      /\ SubSeq(raw, Len(b) + Len(n) + 1, Len(b) + Len(n) + Len(m)) = m
      /\ \A i \in 1..Len(t) : raw[Len(b) + Len(n) + Len(m) + i] = t[i]
  <2>. HIDE DEF u, v, w, end
  <2>1. b \in Seq(S) /\ n \in Seq(S) /\ m \in Seq(S) /\ t \in Seq(S)
    BY <1>1
  <2>2. Fields(S, Envelope(b, n, m, t), b, n, m, t)
    BY <2>1, FourFields
  <2>3. raw = Envelope(b, n, m, t)
    BY <1>1, SMTT(30) DEF Envelope
  <2>. QED
    BY <2>2, <2>3 DEF Fields
<1>7. /\ raw \in Seq(S) /\ end = u + v + w + 7
      /\ SubSeq(raw, 1, u) = b /\ SubSeq(raw, u + 1, u + v) = n
      /\ SubSeq(raw, u + v + 1, u + v + w) = m
      /\ \A i \in 1..7 : raw[u + v + w + i] = t[i]
  BY <1>5, <1>6
<1>. HIDE DEF u, v, w, end
<1>8. raw[end - 6] = <<v>> /\ raw[end - 5] = <<w>> /\ raw[end - 4] = ENVELOPE_VERSION
  <2>1. end - 6 = u + v + w + 1 /\ end - 5 = u + v + w + 2 /\ end - 4 = u + v + w + 3
    BY <1>2, <1>7
  <2>. QED
    BY <1>5, <1>7, <2>1, SMTT(30)
<1>9. SubSeq(raw, end - 3, end) = ENVELOPE_MAGIC
  <2>. DEFINE a == u + v + w + 3
              g == ENVELOPE_MAGIC
  <2>1. a \in Nat /\ a + 4 = end /\ a + 1 = end - 3
    BY <1>2, <1>7, SMTT(30)
  <2>2. \A i \in 1..4 : raw[a + i] = g[i]
    <3>1. SUFFICES ASSUME NEW i \in 1..4 PROVE raw[a + i] = g[i]
      OBVIOUS
    <3>2. a + i = u + v + w + (3 + i) /\ 3 + i \in 1..7
      BY <1>2
    <3>. QED
      BY <1>5, <1>7, <3>2
  <2>. DEFINE U == S \cup {<<82>>, <<66>>, <<75>>, <<80>>}
  <2>3. g \in Seq(U) /\ Len(g) = 4
    BY DEF ENVELOPE_MAGIC
  <2>4. S \subseteq U
    OBVIOUS
  <2>. HIDE DEF a, g, U
  <2>5. raw \in Seq(U)
    BY <1>7, <2>4, SeqMonotonic, SMTT(30)
  <2>6. SubSeq(raw, a + 1, a + Len(g)) = g
    <3>1. a + Len(g) <= Len(raw) /\ \A i \in 1..Len(g) : raw[a + i] = g[i]
      BY <2>1, <2>2, <2>3 DEF end
    <3>. QED
      BY <2>1, <2>3, <2>5, <3>1, PartAt, SMTT(30)
  <2>. QED
    BY <2>1, <2>3, <2>6, SMTT(30) DEF g
<1>. DEFINE name_len == raw[end - 6][1]
            mime_len == raw[end - 5][1]
            split == end - (FIXED + name_len + mime_len)
            name == from_utf8(SubSeq(raw, split + 1, split + name_len))
            mime == MimeOf(SubSeq(raw, split + name_len + 1, end - FIXED))
<1>10. name_len = v /\ mime_len = w
  BY <1>8
<1>11. unwrap(raw) =
         IF \/ end < FIXED
            \/ SubSeq(raw, end - 3, end) # ENVELOPE_MAGIC
            \/ raw[end - 4] # ENVELOPE_VERSION
            \/ FIXED + name_len + mime_len > end
         THEN [body |-> raw, name |-> None, mime |-> None]
         ELSE [body |-> SubSeq(raw, 1, split),
               name |-> IF name = None THEN None ELSE safe_name(name),
               mime |-> safe_mime(mime)]
  BY SMTT(30) DEF unwrap, end
<1>. HIDE DEF name_len, mime_len
<1>12. /\ split = u /\ end - FIXED = u + v + w
       /\ ~(end < FIXED) /\ ~(FIXED + name_len + mime_len > end)
  BY <1>2, <1>7, <1>10, SMTT(30) DEF FIXED
<1>. HIDE DEF split
<1>13. name = from_utf8(n) /\ mime = MimeOf(m)
  BY <1>7, <1>10, <1>12
<1>. HIDE DEF name, mime
<1>14. unwrap(raw) = [body |-> SubSeq(raw, 1, split),
                      name |-> IF name = None THEN None ELSE safe_name(name),
                      mime |-> safe_mime(mime)]
  BY <1>8, <1>9, <1>11, <1>12, SMTT(30)
<1>15. /\ unwrap(raw).body = b
       /\ unwrap(raw).name = (IF name = None THEN None ELSE safe_name(name))
       /\ unwrap(raw).mime = safe_mime(mime)
  BY <1>7, <1>12, <1>14
<1>. QED
  BY <1>13, <1>15, SMTT(30) DEF raw, n, m, b

(* A type that needs no cleaning is read back.                                *)
LEMMA TypeReadBack ==
  ASSUME NEW f \in File, f.enveloped, safe_mime(f.mime) = f.mime
  PROVE  safe_mime(MimeOf(MimeField(f.mime))) = f.mime
<1>1. CASE f.mime = None
  <2>1. MimeField(f.mime) = <<>>
    BY <1>1 DEF MimeField
  <2>2. MimeOf(<<>>) = None
    BY DEF MimeOf
  <2>. QED
    BY <1>1, <2>1, <2>2
<1>2. CASE f.mime # None
  <2>. DEFINE m == f.mime
  <2>1. m \in MimeType /\ MimeField(f.mime) = MimeBytes(m)
    BY <1>2, Staged DEF MimeField
  <2>. HIDE DEF m
  <2>2. /\ MimeBytes(m) \in Seq({<<i, m>> : i \in Nat}) /\ Len(MimeBytes(m)) # 0
        /\ MimeBytes(m)[1] = <<1, m>>
    BY <2>1, MimeBytesType
  <2>3. MimeOf(MimeBytes(m)) = m
    <3>. DEFINE g == MimeBytes(m)
    <3>1. g # <<>> /\ g[1] = <<1, m>> /\ Len(g[1]) = 2 /\ g[1][2] = m
      BY <2>2
    <3>. QED
      BY <3>1 DEF MimeOf
  <2>. QED
    BY <2>1, <2>3 DEF m
<1>. QED
  BY <1>1, <1>2

(* And so is a name. *)
LEMMA NameReadBack ==
  ASSUME NEW f \in File, f.enveloped, NEW name \in Seq(Nat), safe_name(f.name) = name
  PROVE  from_utf8(NameField(f.name)) = name
<1>1. name # None
  BY FileAssumption
<1>2. NameField(f.name) = as_bytes(name)
  BY <1>1 DEF NameField
<1>. QED
  BY <1>2, Utf8ReadBack

-----------------------------------------------------------------------------
(* Cleaning twice *)

(* Trimming what needs none changes nothing, and what it leaves as long as it *)
(* was needed none.                                                           *)
LEMMA TrimOfSame ==
  ASSUME NEW S, NEW s \in Seq(S), NEW drop, Len(s) # 0
  PROVE  /\ s[1] \notin drop /\ s[Len(s)] \notin drop => TrimOf(s, drop) = s
         /\ Len(TrimOf(s, drop)) = Len(s) =>
              TrimOf(s, drop) = s /\ s[1] \notin drop /\ s[Len(s)] \notin drop
<1>. DEFINE n == Len(s)
            keep == {i \in DOMAIN s : s[i] \notin drop}
            i == Min(keep)
            j == Max(keep)
<1>1. TrimOf(s, drop) = IF keep = {} THEN <<>> ELSE SubSeq(s, i, j)
  BY DEF TrimOf
<1>2. keep \subseteq 0..n /\ keep \subseteq 1..n /\ n \in Nat /\ n # 0 /\ DOMAIN s = 1..n
  OBVIOUS
<1>3. SubSeq(s, 1, n) = s
  BY SubSeqFull
<1>4. keep # {} => i \in keep /\ j \in keep /\ (\A y \in keep : i <= y /\ y <= j)
  <2>. HIDE DEF keep, n
  <2>. QED
    BY <1>2, Extremes
<1>5. \A y \in 1..n : y \in keep <=> s[y] \notin drop
  OBVIOUS
<1>. HIDE DEF i, j, keep
<1>6. ASSUME s[1] \notin drop, s[n] \notin drop PROVE TrimOf(s, drop) = s
  <2>1. 1 \in keep /\ n \in keep
    BY <1>2, <1>5, <1>6
  <2>2. i \in 1..n /\ j \in 1..n /\ i <= 1 /\ n <= j
    BY <1>2, <1>4, <2>1
  <2>3. i = 1 /\ j = n
    <3>. HIDE DEF n
    <3>. QED
      BY <1>2, <2>2
  <2>. QED
    BY <1>1, <1>3, <2>1, <2>3
<1>7. ASSUME Len(TrimOf(s, drop)) = n
      PROVE  TrimOf(s, drop) = s /\ s[1] \notin drop /\ s[n] \notin drop
  <2>1. keep # {}
    BY <1>1, <1>2, <1>7
  <2>2. i \in 1..n /\ j \in 1..n /\ i <= j
    BY <1>2, <1>4, <2>1
  <2>3. Len(SubSeq(s, i, j)) = j - i + 1
    <3>1. i \in 1..(Len(s) + 1) /\ j \in (i - 1)..Len(s)
      BY <2>2
    <3>. QED
      BY <3>1, PartType
  <2>4. i = 1 /\ j = n
    <3>1. j - i + 1 = n
      BY <1>1, <1>7, <2>1, <2>3
    <3>. HIDE DEF n
    <3>. QED
      BY <1>2, <2>2, <3>1
  <2>5. 1 \in keep /\ n \in keep
    BY <1>4, <2>1, <2>4
  <2>. QED
    BY <1>1, <1>2, <1>3, <1>5, <2>1, <2>4, <2>5
<1>. QED
  BY <1>6, <1>7 DEF n

(* A name is trimmed when neither end is white or a dot.                      *)
Ended(s) == s[1] \notin White \cup {Dot} /\ s[Len(s)] \notin White \cup {Dot}

(* A name is trimmed when neither end is white or a dot: three trims do what  *)
(* one of all would.                                                          *)
LEMMA TrimSame ==
  ASSUME NEW S, NEW s \in Seq(S), Len(s) # 0
  PROVE  Trim(s) = s <=> Ended(s)
<1>. DEFINE a == TrimOf(s, White)
            b == TrimOf(a, {Dot})
            c == TrimOf(b, White)
<1>1. Trim(s) = c
  BY DEF Trim
<1>2. a \in Seq(S) /\ Len(a) <= Len(s)
  BY TrimOfType
<1>. HIDE DEF a
<1>3. b \in Seq(S) /\ Len(b) <= Len(a)
  BY <1>2, TrimOfType
<1>. HIDE DEF b
<1>4. c \in Seq(S) /\ Len(c) <= Len(b)
  BY <1>3, TrimOfType
<1>. HIDE DEF c
<1>5. ASSUME c = s PROVE Ended(s)
  <2>1. Len(a) = Len(s) /\ Len(b) = Len(s)
    <3>1. Len(a) \in Nat /\ Len(b) \in Nat /\ Len(s) \in Nat
      BY <1>2, <1>3
    <3>. QED
      BY <1>2, <1>3, <1>4, <1>5, <3>1
  <2>2. a = s /\ s[1] \notin White /\ s[Len(s)] \notin White
    BY <2>1, TrimOfSame DEF a
  <2>3. s[1] \notin {Dot} /\ s[Len(s)] \notin {Dot}
    BY <2>1, <2>2, TrimOfSame DEF b
  <2>. QED
    BY <2>2, <2>3 DEF Ended
<1>6. ASSUME Ended(s) PROVE c = s
  <2>1. /\ s[1] \notin White /\ s[Len(s)] \notin White
        /\ s[1] \notin {Dot} /\ s[Len(s)] \notin {Dot}
    BY <1>6 DEF Ended
  <2>2. a = s
    BY <2>1, TrimOfSame DEF a
  <2>3. b = s
    BY <2>1, <2>2, TrimOfSame DEF b
  <2>. QED
    BY <2>1, <2>3, TrimOfSame DEF c
<1>. QED
  BY <1>1, <1>5, <1>6

(* What has no separator is its own last part.                                *)
LEMMA BaseSame ==
  ASSUME NEW s \in Seq(Unseparated)
  PROVE  Base(s) = s
<1>1. {i \in DOMAIN s : s[i] \in {Slash, Backslash}} = {}
  <2>1. \A i \in DOMAIN s : s[i] \in Unseparated
    OBVIOUS
  <2>. QED
    BY <2>1 DEF Unseparated
<1>2. Max({} \cup {0}) = 0
  BY DEF Max
<1>3. Base(s) = SubSeq(s, 1 + 0, Len(s))
  BY <1>1, <1>2 DEF Base
<1>. QED
  BY <1>3, SubSeqFull

(* What safe_name does to a name whose last part is harmless and trimmed.     *)
LEMMA SafeNameOf ==
  ASSUME NEW raw, Base(raw) \in Seq(Harmless), Len(Base(raw)) # 0, Ended(Base(raw))
  PROVE  safe_name(raw) =
           LET label == Base(raw)
               whole == IF Len(label) <= MAX_NAME THEN label ELSE Trim(Shorten(label))
           IN  IF whole = <<>> THEN None ELSE whole
<1>. DEFINE label == Base(raw)
            keep == {c \in Range(label) : ~IsControl(c)}
<1>1. \A i \in 1..Len(label) : label[i] \in keep
  <2>1. \A i \in 1..Len(label) : label[i] \in Harmless /\ label[i] \in Range(label)
    BY DEF Range
  <2>. QED
    BY <2>1 DEF Harmless
<1>. HIDE DEF keep
<1>2. Kept(label, keep) = label
  BY <1>1, KeptAll
<1>3. Trim(label) = label
  BY TrimSame
<1>4. Trim(Kept(label, {c \in Range(label) : ~IsControl(c)})) = label
  BY <1>2, <1>3 DEF keep
<1>. HIDE DEF label
<1>. QED
  BY <1>4 DEF safe_name, label

(* A name that has been cleaned like that is left alone by the other end.     *)
LEMMA CleanIsKept ==
  ASSUME NEW n \in Seq(Harmless), Len(n) # 0, Len(n) <= MAX_NAME, Ended(n)
  PROVE  safe_name(n) = n
<1>1. Base(n) = n
  <2>1. Harmless \subseteq Unseparated
    BY DEF Harmless
  <2>2. n \in Seq(Unseparated)
    BY <2>1, SeqMonotonic
  <2>. QED
    BY <2>2, BaseSame
<1>2. n # <<>>
  OBVIOUS
<1>. QED
  BY <1>1, <1>2, SafeNameOf

(* The last dot, if it is near enough to the end, begins the extension.       *)
LEMMA ExtensionIs ==
  ASSUME NEW S, NEW s \in Seq(S), NEW d \in 1..Len(s), s[d] = Dot,
         \A i \in (d + 1)..Len(s) : s[i] # Dot, Len(s) - d \in 1..16
  PROVE  ExtensionAt(s) = d
<1>. DEFINE n == Len(s)
            T == {i \in DOMAIN s : s[i] = Dot} \cup {0}
            m == Max(T)
<1>1. n \in Nat /\ T \subseteq 0..n /\ T # {} /\ DOMAIN s = 1..n /\ d \in T
  OBVIOUS
<1>2. ExtensionAt(s) = IF m # 0 /\ (n - m) \in 1..16 THEN m ELSE 0
  BY DEF ExtensionAt
<1>. HIDE DEF n
<1>3. m \in T /\ \A y \in T : y <= m
  <2>. HIDE DEF T
  <2>. QED
    BY <1>1, Extremes
<1>4. m \in 0..n /\ (m # 0 => s[m] = Dot) /\ d <= m
  BY <1>1, <1>3
<1>. HIDE DEF m
<1>5. m = d
  <2>1. SUFFICES ASSUME m > d PROVE FALSE
    BY <1>1, <1>4
  <2>2. m \in (d + 1)..n
    BY <1>1, <1>4, <2>1
  <2>. QED
    BY <1>4, <2>1, <2>2 DEF n
<1>. QED
  BY <1>2, <1>5 DEF n

(* A long name with an extension is cut to MAX_NAME characters, and neither   *)
(* its first character nor its extension is lost.                             *)
LEMMA ShortenKeeps ==
  ASSUME NEW S, NEW s \in Seq(S), Len(s) > MAX_NAME, ExtensionAt(s) # 0
  PROVE  /\ Shorten(s) \in Seq(S) /\ Len(Shorten(s)) = MAX_NAME
         /\ Shorten(s)[1] = s[1] /\ Shorten(s)[MAX_NAME] = s[Len(s)]
         /\ ExtensionAt(Shorten(s)) # 0 /\ Extension(Shorten(s)) = Extension(s)
<1>. DEFINE n == Len(s)
            d == ExtensionAt(s)
            ext == SubSeq(s, d, n)
            stem == SubSeq(s, 1, d - 1)
            e == Len(ext)
            keep == MAX_NAME - e
            k == Min({keep, Len(stem)})
            t == SubSeq(stem, 1, k)
            r == t \o ext
<1>1. Shorten(s) = r
  BY DEF Shorten
<1>2. /\ n \in Nat /\ d \in 1..n /\ n - d \in 1..16 /\ s[d] = Dot
      /\ \A i \in (d + 1)..n : s[i] # Dot
  BY ExtensionPlace
<1>3. n > 96 /\ MAX_NAME = 96
  BY DEF MAX_NAME
<1>. HIDE DEF d, n
<1>4. ext \in Seq(S) /\ e = n - d + 1 /\ \A i \in 1..e : ext[i] = s[d + i - 1]
  <2>1. d \in Int /\ n \in Int /\ \A i \in d..n : s[i] \in S
    BY <1>2 DEF n
  <2>2. /\ SubSeq(s, d, n) \in Seq(S)
        /\ Len(SubSeq(s, d, n)) = IF d <= n THEN n - d + 1 ELSE 0
        /\ \A i \in 1..(n - d + 1) : SubSeq(s, d, n)[i] = s[d + i - 1]
    BY <2>1, SubSeqProperties
  <2>3. d <= n
    BY <1>2
  <2>4. Len(SubSeq(s, d, n)) = n - d + 1
    BY <2>2, <2>3
  <2>. QED
    BY <2>2, <2>4
<1>5. stem \in Seq(S) /\ Len(stem) = d - 1 /\ \A i \in 1..(d - 1) : stem[i] = s[i]
  <2>. DEFINE c == d - 1
  <2>1. 1 \in Int /\ c \in Nat /\ \A i \in 1..c : s[i] \in S
    BY <1>2 DEF n
  <2>. HIDE DEF c
  <2>2. /\ SubSeq(s, 1, c) \in Seq(S)
        /\ Len(SubSeq(s, 1, c)) = IF 1 <= c THEN c - 1 + 1 ELSE 0
        /\ \A i \in 1..(c - 1 + 1) : SubSeq(s, 1, c)[i] = s[1 + i - 1]
    BY <2>1, SubSeqProperties
  <2>3. c - 1 + 1 = c /\ \A i \in 1..c : 1 + i - 1 = i
    BY <2>1
  <2>4. Len(SubSeq(s, 1, c)) = c
    BY <2>1, <2>2
  <2>. QED
    BY <2>2, <2>3, <2>4 DEF c
<1>. HIDE DEF ext, stem
<1>6. e \in 2..17 /\ keep \in 79..94 /\ keep + e = 96 /\ keep < Len(stem)
  BY <1>2, <1>3, <1>4, <1>5
<1>7. k = keep
  BY <1>5, <1>6, SMTT(30) DEF Min
<1>. HIDE DEF k
<1>8. t \in Seq(S) /\ Len(t) = keep /\ \A i \in 1..keep : t[i] = s[i]
  <2>. HIDE DEF keep
  <2>1. 1 \in Int /\ keep \in Nat /\ 1 <= keep /\ \A i \in 1..keep : stem[i] \in S /\ stem[i] = s[i]
    BY <1>5, <1>6
  <2>2. /\ SubSeq(stem, 1, keep) \in Seq(S)
        /\ Len(SubSeq(stem, 1, keep)) = IF 1 <= keep THEN keep - 1 + 1 ELSE 0
        /\ \A i \in 1..(keep - 1 + 1) : SubSeq(stem, 1, keep)[i] = stem[1 + i - 1]
    BY <2>1, SubSeqProperties
  <2>3. keep - 1 + 1 = keep /\ \A i \in 1..keep : 1 + i - 1 = i
    BY <2>1
  <2>4. Len(SubSeq(stem, 1, keep)) = keep
    BY <2>1, <2>2, <2>3
  <2>. QED
    BY <1>7, <2>1, <2>2, <2>3, <2>4
<1>. HIDE DEF t
<1>9. /\ r \in Seq(S) /\ Len(r) = Len(t) + Len(ext)
      /\ (\A i \in 1..Len(t) : r[i] = t[i]) /\ (\A i \in 1..Len(ext) : r[Len(t) + i] = ext[i])
  <2>1. t \in Seq(S) /\ ext \in Seq(S)
    BY <1>4, <1>8
  <2>. HIDE DEF e, keep, k
  <2>. QED
    BY <2>1, Longer
<1>. HIDE DEF r
<1>10. /\ r \in Seq(S) /\ Len(r) = 96
       /\ (\A i \in 1..keep : r[i] = s[i]) /\ (\A i \in 1..e : r[keep + i] = s[d + i - 1])
  BY <1>4, <1>6, <1>8, <1>9
<1>11. \A i \in 1..Len(ext) : r[keep + i] = ext[i]
  BY <1>8, <1>9
<1>. HIDE DEF e, keep
<1>12. r[1] = s[1] /\ r[96] = s[n]
  <2>1. 1 \in 1..keep /\ e \in 1..e /\ keep + e = 96 /\ d + e - 1 = n
    BY <1>2, <1>4, <1>6
  <2>. QED
    BY <1>10, <2>1
<1>13. ExtensionAt(r) = keep + 1
  <2>. DEFINE c == keep + 1
  <2>1. c \in 1..Len(r) /\ Len(r) - c \in 1..16
    BY <1>6, <1>10
  <2>2. r[c] = Dot
    <3>1. 1 \in 1..e /\ d + 1 - 1 = d
      BY <1>2, <1>6
    <3>. QED
      BY <1>2, <1>10, <3>1
  <2>3. ASSUME NEW i \in (c + 1)..Len(r) PROVE r[i] # Dot
    <3>. DEFINE j == i - keep
    <3>1. j \in 2..e /\ i = keep + j /\ d + j - 1 \in (d + 1)..n /\ j \in 1..e
      BY <1>2, <1>4, <1>6, <1>10
    <3>. HIDE DEF j
    <3>. QED
      BY <1>2, <1>10, <3>1, ZenonT(60)
  <2>4. r \in Seq(S) /\ \A i \in (c + 1)..Len(r) : r[i] # Dot
    BY <1>10, <2>3
  <2>. HIDE DEF c
  <2>5. ExtensionAt(r) = c
    BY <2>1, <2>2, <2>4, ExtensionIs
  <2>. QED
    BY <2>5 DEF c
<1>14. Extension(r) = ext
  <2>1. keep \in Nat /\ keep + Len(ext) = Len(r)
    BY <1>6, <1>10 DEF e
  <2>2. keep + Len(ext) <= Len(r) /\ \A i \in 1..Len(ext) : r[keep + i] = ext[i]
    BY <1>4, <1>11, <2>1
  <2>3. SubSeq(r, keep + 1, keep + Len(ext)) = ext
    BY <1>4, <1>10, <2>1, <2>2, PartAt, ZenonT(60)
  <2>. QED
    BY <1>13, <2>1, <2>3 DEF Extension
<1>15. Extension(s) = ext
  BY DEF Extension, ext, d, n
<1>16. keep + 1 # 0
  BY <1>6
<1>. QED
  BY <1>1, <1>3, <1>10, <1>12, <1>13, <1>14, <1>15, <1>16 DEF n

(* Cleaning a tidy name keeps its extension, and a second cleaning, at the    *)
(* other end, changes nothing.                                                *)
LEMMA TidyIsKept ==
  ASSUME NEW raw \in Seq(Nat), Tidy(Base(raw))
  PROVE  /\ safe_name(raw) \in Seq(Nat) /\ safe_name(safe_name(raw)) = safe_name(raw)
         /\ Extension(safe_name(raw)) = Extension(Base(raw))
<1>. DEFINE label == Base(raw)
            short == Shorten(label)
<1>1. label \in Seq(Harmless)
  <2>1. label \in Seq(Unseparated)
    BY BaseType
  <2>2. \A i \in 1..Len(label) : label[i] \in Harmless
    BY <2>1 DEF Tidy, Harmless
  <2>. HIDE DEF label
  <2>. QED
    BY <2>1, <2>2
<1>2. ExtensionAt(label) # 0 /\ Trim(label) = label
  BY DEF Tidy
<1>. HIDE DEF label
<1>3. Len(label) # 0 /\ label # <<>>
  <2>1. ExtensionAt(label) \in 0..Len(label)
    BY <1>1, ExtensionPlace
  <2>. QED
    BY <1>1, <1>2, <2>1
<1>4. Ended(label)
  BY <1>1, <1>2, <1>3, TrimSame
<1>5. safe_name(raw) = LET whole == IF Len(label) <= MAX_NAME THEN label ELSE Trim(Shorten(label))
                       IN  IF whole = <<>> THEN None ELSE whole
  BY <1>1, <1>3, <1>4, SafeNameOf DEF label
<1>6. Harmless \subseteq Nat
  BY DEF Harmless, Unseparated
<1>7. CASE Len(label) <= MAX_NAME
  <2>1. safe_name(raw) = label
    BY <1>3, <1>5, <1>7
  <2>2. safe_name(label) = label
    BY <1>1, <1>3, <1>4, <1>7, CleanIsKept
  <2>3. label \in Seq(Nat)
    BY <1>1, <1>6, SeqMonotonic
  <2>. QED
    BY <2>1, <2>2, <2>3 DEF label
<1>8. CASE ~(Len(label) <= MAX_NAME)
  <2>1. Len(label) > MAX_NAME /\ MAX_NAME \in Nat \ {0}
    <3>1. Len(label) \in Nat /\ MAX_NAME \in Nat \ {0}
      BY <1>1 DEF MAX_NAME
    <3>. QED
      BY <1>8, <3>1
  <2>2. /\ short \in Seq(Harmless) /\ Len(short) = MAX_NAME
        /\ short[1] = label[1] /\ short[MAX_NAME] = label[Len(label)]
        /\ Extension(short) = Extension(label)
    BY <1>1, <1>2, <2>1, ShortenKeeps
  <2>3. Trim(Shorten(label)) = Trim(short)
    OBVIOUS
  <2>. HIDE DEF short
  <2>4. Ended(short) /\ Len(short) # 0 /\ Len(short) <= MAX_NAME /\ short # <<>>
    BY <1>4, <2>1, <2>2 DEF Ended
  <2>5. Trim(short) = short
    BY <2>2, <2>4, TrimSame
  <2>6. safe_name(raw) = short
    BY <1>5, <1>8, <2>3, <2>4, <2>5
  <2>7. safe_name(short) = short
    BY <2>2, <2>4, CleanIsKept
  <2>8. short \in Seq(Nat)
    BY <1>6, <2>2, SeqMonotonic
  <2>. QED
    BY <2>2, <2>6, <2>7, <2>8 DEF label
<1>. QED
  BY <1>7, <1>8

(* What came out was wrapped by the sender.                                   *)
LEMMA DeliveredIsSent ==
  ASSUME ParcelInv, \A f \in File : Sendable(f)
  PROVE  DeliveredAsSent
<1>. SUFFICES ASSUME out # None PROVE DeliveredAsSent
  BY DEF DeliveredAsSent
<1>1. file \in File /\ out = unwrap(Plaintext(file))
  BY DEF ParcelInv, Idle, Staging
<1>2. CASE ~file.enveloped
  <2>1. Plaintext(file) = file.body /\ unwrap(file.body).body = file.body
    BY <1>1, <1>2 DEF Plaintext, Sendable
  <2>. QED
    BY <1>1, <1>2, <2>1 DEF DeliveredAsSent
<1>3. CASE file.enveloped
  <2>1. Len(NameField(file.name)) \in 0..255
    <3>1. NameField(file.name) \in Seq(Utf8)
      BY <1>1, <1>3, TrailerTypes
    <3>. DEFINE n == Len(NameField(file.name))
    <3>2. n \in Nat /\ n <= 255
      BY <1>1, <1>3, <3>1 DEF Sendable
    <3>. HIDE DEF n
    <3>3. n \in 0..255
      BY <3>2, SMTT(30)
    <3>. QED
      BY <3>3 DEF n
  <2>2. /\ out.body = file.body
        /\ out.name = (LET name == from_utf8(NameField(file.name))
                       IN  IF name = None THEN None ELSE safe_name(name))
        /\ out.mime = safe_mime(MimeOf(MimeField(file.mime)))
    BY <1>1, <1>3, <2>1, EnvelopeOpens
  <2>3. safe_mime(file.mime) = file.mime => out.mime = file.mime
    BY <1>1, <1>3, <2>2, TypeReadBack
  <2>4. None \notin Seq(Nat) /\ file.name \in Seq(Nat)
    BY <1>1, <1>3, FileAssumption, Staged
  <2>5. ASSUME NEW name \in Seq(Nat), safe_name(file.name) = name
        PROVE  out.name = safe_name(name) /\ name # None
    <3>1. from_utf8(NameField(file.name)) = name
      BY <1>1, <1>3, <2>5, NameReadBack
    <3>. QED
      BY <2>2, <2>4, <3>1
  <2>6. safe_name(file.name) = file.name => out.name = file.name
    BY <2>4, <2>5
  <2>7. ASSUME Tidy(Base(file.name))
        PROVE  out.name # None /\ Extension(out.name) = Extension(Base(file.name))
    <3>. DEFINE name == safe_name(file.name)
    <3>1. /\ name \in Seq(Nat) /\ safe_name(name) = name
          /\ Extension(name) = Extension(Base(file.name))
      BY <2>4, <2>7, TidyIsKept
    <3>2. out.name = safe_name(name) /\ name # None
      BY <2>5, <3>1
    <3>. QED
      BY <3>1, <3>2
  <2>. QED
    BY <2>2, <2>3, <2>6, <2>7 DEF DeliveredAsSent
<1>. QED
  BY <1>2, <1>3

(* The bytes of every sendable file arrive as they were, with a name or type  *)
(* that needed no cleaning, and with the extension of a name that was too long. *)
THEOREM DeliveredIntact == ASSUME \A f \in File : Sendable(f) PROVE Spec => []DeliveredAsSent
<1>1. ParcelInv => DeliveredAsSent
  BY DeliveredIsSent
<1>. QED
  BY <1>1, Invariance, PTL
=============================================================================
