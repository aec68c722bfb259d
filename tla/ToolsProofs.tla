----------------------------- MODULE ToolsProofs -----------------------------
(***************************************************************************)
(* What the crypto and compression objects and the HTTP client turn into   *)
(* another form is read back, and the hardware address is stable: for      *)
(* messages, keys, texts, parameters and lists of interfaces of every      *)
(* length, where the run of MCTools takes short ones.  A recursion is not  *)
(* proved by induction but from a least number for which it would go wrong *)
(* (LeastNat).                                                             *)
(***************************************************************************)
EXTENDS MCTools, SequenceTheorems, FiniteSetTheorems, WellFoundedInduction, TLAPS

-----------------------------------------------------------------------------
(* Numbers. *)

(* A set of natural numbers has a least element. *)
LEMMA LeastNat ==
  ASSUME NEW T \in SUBSET Nat, T # {}
  PROVE  \E x \in T : \A y \in T : x <= y
<1>1. PICK x \in T : \A y \in T : ~ (<<y, x>> \in OpToRel(<, Nat))
  BY WFMin, NatLessThanWellFounded, Zenon
<1>2. OpToRel(<, Nat) = {ss \in Nat \X Nat : ss[1] < ss[2]}
  BY Zenon DEF OpToRel
<1>3. ASSUME NEW y \in T PROVE x <= y
  <2>1. x \in Nat /\ y \in Nat
    OBVIOUS
  <2>2. <<y, x>> \in Nat \X Nat /\ <<y, x>>[1] = y /\ <<y, x>>[2] = x
    BY <2>1
  <2>3. ~(y < x)
    BY <2>2, <1>1, <1>2
  <2> QED
    BY <2>1, <2>3
<1> QED
  BY <1>3

(* Quotient and remainder. *)
LEMMA Division ==
  ASSUME NEW a \in Nat, NEW b \in Nat, b # 0
  PROVE  \E q \in Nat : \E r \in 0..b - 1 :
           a \div b = q /\ a % b = r /\ a = b * q + r
<1>1. a \div b \in Int /\ a \div b >= 0
  OBVIOUS
<1>2. a % b \in Int /\ a % b >= 0 /\ a % b < b
  OBVIOUS
<1>3. a = b * (a \div b) + (a % b)
  OBVIOUS
<1>4. PICK q, r : q = a \div b /\ r = a % b
  OBVIOUS
<1>5. q \in Int /\ q >= 0 /\ r \in Int /\ r >= 0 /\ r < b /\ a = b * q + r
  BY <1>1, <1>2, <1>3, <1>4
<1>6. q \in Nat /\ r \in 0..b - 1
  BY <1>5
<1> QED
  BY <1>4, <1>5, <1>6

(* Quotient and remainder are unique. *)
LEMMA Quotient ==
  ASSUME NEW a \in Nat, NEW b \in Nat, NEW q \in Nat, NEW r \in Nat,
         r < b, a = b * q + r
  PROVE  a \div b = q /\ a % b = r
OBVIOUS

(* A product with a number that is not known. *)
LEMMA Times ==
  ASSUME NEW n \in Nat
  PROVE  /\ \A a, b \in Nat : a <= b => a * n <= b * n
         /\ \A a \in Nat : a * n \in Nat /\ (a + 1) * n = a * n + n
         /\ \A a \in Nat \ {0} : (a - 1) * n \in Nat /\ (a - 1) * n + n = a * n
         /\ 0 * n = 0 /\ 1 * n = n
OBVIOUS

-----------------------------------------------------------------------------
(* Joining sequences. *)

(* What satisfies the recursion of FlattenSeq computes it. *)
LEMMA FlattenIs ==
  ASSUME NEW s, NEW F, Len(s) \in Nat \ {0},
         F = [i \in 1..Len(s) |-> IF i = 1 THEN s[i] ELSE F[i-1] \o s[i]]
  PROVE  FlattenSeq(s) = F[Len(s)]
<1> DEFINE Step(f) == [i \in 1..Len(s) |-> IF i = 1 THEN s[i] ELSE f[i-1] \o s[i]]
<1>1. PICK g : g = CHOOSE f : f = Step(f)
  OBVIOUS
<1>2. g = Step(g)
  BY <1>1
<1>3. FlattenSeq(s) = g[Len(s)]
  BY <1>1 DEF FlattenSeq
<1>4. \A i \in 1..Len(s) : g[i] = IF i = 1 THEN s[i] ELSE g[i-1] \o s[i]
  BY <1>2
<1>5. \A i \in 1..Len(s) : F[i] = IF i = 1 THEN s[i] ELSE F[i-1] \o s[i]
  OBVIOUS
<1>6. \A i \in 1..Len(s) : g[i] = F[i]
  <2> DEFINE Bad == {i \in 1..Len(s) : g[i] # F[i]}
  <2>1. SUFFICES ASSUME Bad # {} PROVE FALSE
    OBVIOUS
  <2>2. Bad \in SUBSET Nat
    OBVIOUS
  <2>3. PICK x \in Bad : \A y \in Bad : x <= y
    BY <2>1, <2>2, LeastNat
  <2>4. x # 1
    BY <1>4, <1>5
  <2>5. x - 1 \in 1..Len(s) /\ x - 1 \notin Bad
    BY <2>3, <2>4
  <2> QED
    BY <2>4, <2>5, <1>4, <1>5
<1>7. Len(s) \in 1..Len(s)
  OBVIOUS
<1> QED
  BY <1>3, <1>6, <1>7

(* The number of parts and where one ends. *)
Count(s, n) == (Len(s) + n - 1) \div n
End(s, n, j) == IF j * n < Len(s) THEN j * n ELSE Len(s)

(* As many parts as it takes, the last one not empty. *)
LEMMA CountOf ==
  ASSUME NEW S, NEW s \in Seq(S), NEW n \in Nat \ {0}
  PROVE  /\ Count(s, n) \in Nat
         /\ Count(s, n) = 0 <=> s = << >>
         /\ Len(s) <= Count(s, n) * n
         /\ \A j \in 1..Count(s, n) : (j - 1) * n < Len(s)
<1>1. PICK a \in Nat : a = Len(s) + n - 1
  <2>1. Len(s) \in Nat /\ n \in Nat /\ n # 0
    OBVIOUS
  <2>2. Len(s) + n - 1 \in Nat
    BY <2>1
  <2> QED
    BY <2>2
<1>2. PICK k \in Nat : a \div n = k /\ \E r \in 0..n - 1 : a = n * k + r
  BY Division
<1>3. Count(s, n) = k
  BY <1>1, <1>2 DEF Count
<1>4. k * n \in Nat /\ n * k = k * n
  OBVIOUS
<1>5. Len(s) \in Nat /\ Len(s) <= k * n /\ k * n <= Len(s) + n - 1
  <2>1. PICK r \in 0..n - 1 : a = n * k + r
    BY <1>2
  <2>2. PICK m \in Nat : m = k * n /\ a = m + r
    BY <2>1, <1>4
  <2> QED
    BY <2>2, <1>1
<1>6. ASSUME NEW j \in 1..k PROVE (j - 1) * n < Len(s)
  <2>1. j * n <= k * n /\ (j - 1) * n + n = j * n /\ (j - 1) * n \in Nat /\ j * n \in Nat
    BY Times
  <2>2. PICK x \in Nat, y \in Nat, z \in Nat : x = (j - 1) * n /\ y = j * n /\ z = k * n
    BY <2>1, <1>4
  <2> QED
    BY <2>1, <2>2, <1>5
<1>7. k = 0 => Len(s) = 0
  BY <1>5, Times
<1>8. k # 0 => Len(s) # 0
  <2> SUFFICES ASSUME k # 0 PROVE Len(s) # 0
    OBVIOUS
  <2>1. 1 \in 1..k
    OBVIOUS
  <2>2. (1 - 1) * n < Len(s)
    BY <2>1, <1>6
  <2> QED
    BY <2>2, Times
<1> QED
  BY <1>3, <1>5, <1>6, <1>7, <1>8, EmptySeq

(* Every part is the piece of s between two multiples of n, and not empty. *)
LEMMA PartsOf ==
  ASSUME NEW S, NEW s \in Seq(S), NEW n \in Nat \ {0}
  PROVE  /\ Parts(s, n) \in Seq(Seq(S)) /\ Len(Parts(s, n)) = Count(s, n)
         /\ DOMAIN Parts(s, n) = 1..Count(s, n)
         /\ \A j \in 1..Count(s, n) :
              /\ Parts(s, n)[j] = SubSeq(s, (j - 1) * n + 1, End(s, n, j))
              /\ Parts(s, n)[j] \in Seq(S)
              /\ Len(Parts(s, n)[j]) = End(s, n, j) - (j - 1) * n
              /\ (j - 1) * n \in Nat /\ (j - 1) * n < End(s, n, j)
              /\ End(s, n, j) \in 1..Len(s)
<1>1. Count(s, n) \in Nat /\ Len(s) \in Nat
  BY CountOf
<1>2. Parts(s, n) = [j \in 1..Count(s, n) |->
         SubSeq(s, (j - 1) * n + 1,
                (j - 1) * n + IF n < Len(s) - (j - 1) * n THEN n ELSE Len(s) - (j - 1) * n)]
  BY DEF Parts, Count
<1>3. ASSUME NEW j \in 1..Count(s, n)
      PROVE  /\ Parts(s, n)[j] = SubSeq(s, (j - 1) * n + 1, End(s, n, j))
             /\ Parts(s, n)[j] \in Seq(S)
             /\ Len(Parts(s, n)[j]) = End(s, n, j) - (j - 1) * n
             /\ (j - 1) * n \in Nat /\ (j - 1) * n < End(s, n, j)
             /\ End(s, n, j) \in 1..Len(s)
  <2>1. (j - 1) * n \in Nat /\ (j - 1) * n + n = j * n /\ j * n \in Nat
    BY <1>1, Times
  <2>2. (j - 1) * n < Len(s)
    BY CountOf
  <2> DEFINE a == (j - 1) * n
             b == j * n
  <2>3. Parts(s, n)[j] = SubSeq(s, a + 1, a + IF n < Len(s) - a THEN n ELSE Len(s) - a)
    BY <1>2
  <2>4. End(s, n, j) = IF b < Len(s) THEN b ELSE Len(s)
    BY DEF End
  <2>5. a \in Nat /\ a + n = b /\ b \in Nat /\ a < Len(s)
    BY <2>1, <2>2
  <2> HIDE DEF a, b
  <2>6. /\ (a + IF n < Len(s) - a THEN n ELSE Len(s) - a) = End(s, n, j)
        /\ a < End(s, n, j) /\ End(s, n, j) \in 1..Len(s)
    BY <1>1, <2>4, <2>5
  <2>7. Parts(s, n)[j] = SubSeq(s, a + 1, End(s, n, j))
    BY <2>3, <2>6
  <2>8. \A i \in a + 1..End(s, n, j) : s[i] \in S
    BY <1>1, <2>5, <2>6, ElementOfSeq
  <2>9. /\ SubSeq(s, a + 1, End(s, n, j)) \in Seq(S)
        /\ Len(SubSeq(s, a + 1, End(s, n, j))) = End(s, n, j) - (a + 1) + 1
    BY <1>1, <2>5, <2>6, <2>8, SubSeqProperties
  <2>10. Len(Parts(s, n)[j]) = End(s, n, j) - a
    BY <2>5, <2>6, <2>7, <2>9
  <2> USE DEF a
  <2> QED
    BY <2>5, <2>6, <2>7, <2>9, <2>10
<1>4. DOMAIN Parts(s, n) = 1..Count(s, n)
  BY <1>2
<1>5. Parts(s, n) \in [1..Count(s, n) -> Seq(S)]
  BY <1>2, <1>3
<1>6. Parts(s, n) \in Seq(Seq(S)) /\ Len(Parts(s, n)) = Count(s, n)
  BY <1>1, <1>5
<1> QED
  BY <1>3, <1>4, <1>6

(* A part lies where it was cut. *)
LEMMA PartIs ==
  ASSUME NEW S, NEW s \in Seq(S), NEW n \in Nat \ {0}, NEW j \in 1..Count(s, n)
  PROVE  Parts(s, n)[j] = SubSeq(s, (j - 1) * n + 1, End(s, n, j))
BY PartsOf

(* The first parts joined are the beginning of the sequence. *)
LEMMA FirstPartsJoin ==
  ASSUME NEW S, NEW s \in Seq(S), NEW n \in Nat \ {0}, NEW b \in 0..Count(s, n)
  PROVE  FlattenSeq([j \in 1..b |-> Parts(s, n)[j]]) = SubSeq(s, 1, End(s, n, b))
<1>1. Count(s, n) \in Nat /\ Len(s) \in Nat /\ b \in Nat
  BY CountOf
<1> DEFINE P == [j \in 1..b |-> Parts(s, n)[j]]
           F == [i \in 1..b |-> SubSeq(s, 1, End(s, n, i))]
<1>2. P \in Seq(Seq(S)) /\ Len(P) = b
  <2>1. \A j \in 1..b : j \in 1..Count(s, n)
    BY <1>1
  <2>2. \A j \in 1..b : Parts(s, n)[j] \in Seq(S)
    BY <2>1, PartsOf
  <2>3. P \in [1..b -> Seq(S)]
    BY <2>2
  <2> QED
    BY <1>1, <2>3
<1>3. CASE b = 0
  <2>1. P = << >>
    BY <1>2, <1>3, EmptySeq
  <2>2. End(s, n, b) = 0
    BY <1>1, <1>3, Times DEF End
  <2>3. SubSeq(s, 1, 0) = << >>
    BY SubSeqEmpty
  <2>4. FlattenSeq(<< >>) = << >>
    BY DEF FlattenSeq
  <2> QED
    BY <2>1, <2>2, <2>3, <2>4
<1>4. CASE b # 0
  <2>1. ASSUME NEW i \in 1..b
        PROVE  F[i] = IF i = 1 THEN P[i] ELSE F[i-1] \o P[i]
    <3>0. i \in 1..Count(s, n) /\ P[i] = Parts(s, n)[i]
      BY <1>1
    <3>1. /\ P[i] = SubSeq(s, (i - 1) * n + 1, End(s, n, i))
          /\ (i - 1) * n \in Nat /\ (i - 1) * n < End(s, n, i) /\ End(s, n, i) \in 1..Len(s)
      BY <3>0, PartsOf
    <3>2. CASE i = 1
      <4>1. (i - 1) * n = 0
        BY <3>2, Times
      <4> QED
        BY <4>1, <3>1, <3>2
    <3>3. CASE i # 1
      <4>1. i - 1 \in 1..b
        BY <1>1, <3>3
      <4>2. End(s, n, i - 1) = (i - 1) * n
        BY <3>1, <1>1 DEF End
      <4>3. PICK x \in Nat : x = (i - 1) * n
        BY <3>1
      <4>4. PICK e \in 1..Len(s) : e = End(s, n, i)
        BY <3>1
      <4>5. x < e
        BY <3>1, <4>3, <4>4
      <4>6. SubSeq(s, 1, x) \o SubSeq(s, x + 1, e) = SubSeq(s, 1, e)
        <5>1. 1 \in 1..Len(s) + 1 /\ x \in 1 - 1..Len(s) /\ e \in x..Len(s)
          BY <1>1, <4>5
        <5> QED
          BY <5>1, ConcatAdjacentSubSeq
      <4>7. F[i-1] = SubSeq(s, 1, x)
        BY <4>1, <4>2, <4>3
      <4> QED
        BY <4>3, <4>4, <4>6, <4>7, <3>1, <3>3
    <3> QED
      BY <3>2, <3>3
  <2>2. F = [i \in 1..Len(P) |-> IF i = 1 THEN P[i] ELSE F[i-1] \o P[i]]
    BY <2>1, <1>2
  <2>3. Len(P) \in Nat \ {0} /\ b \in 1..b
    BY <1>1, <1>2, <1>4
  <2> HIDE DEF P, F
  <2>4. FlattenSeq(P) = F[b]
    BY <2>2, <2>3, <1>2, FlattenIs
  <2>5. F[b] = SubSeq(s, 1, End(s, n, b))
    BY <2>3 DEF F
  <2> QED
    BY <2>4, <2>5 DEF P
<1> QED
  BY <1>3, <1>4

(* All of them joined are the sequence. *)
LEMMA PartsJoin ==
  ASSUME NEW S, NEW s \in Seq(S), NEW n \in Nat \ {0}
  PROVE  FlattenSeq(Parts(s, n)) = s
<1>1. Count(s, n) \in Nat /\ Len(s) \in Nat /\ Count(s, n) * n \in Nat
  BY CountOf, Times
<1>2. Parts(s, n) = [j \in 1..Count(s, n) |-> Parts(s, n)[j]]
  BY PartsOf DEF Parts
<1>3. End(s, n, Count(s, n)) = Len(s)
  BY <1>1, CountOf DEF End
<1>4. Count(s, n) \in 0..Count(s, n)
  BY <1>1
<1>5. FlattenSeq(Parts(s, n)) = SubSeq(s, 1, End(s, n, Count(s, n)))
  BY <1>2, <1>4, FirstPartsJoin
<1> QED
  BY <1>3, <1>5, SubSeqFull

(* The first k elements. *)
First(s, k) == [j \in 1..k |-> s[j]]

(* The recursion of FlattenSeq has a solution. *)
LEMMA FlattenFunction ==
  ASSUME NEW s, NEW m \in Nat
  PROVE  \E F : F = [i \in 1..m |-> IF i = 1 THEN s[i] ELSE F[i-1] \o s[i]]
<1> DEFINE Solves(F, k) == F = [i \in 1..k |-> IF i = 1 THEN s[i] ELSE F[i-1] \o s[i]]
           Bad == {k \in Nat : ~ \E F : Solves(F, k)}
<1>1. SUFFICES ASSUME Bad # {} PROVE FALSE
  OBVIOUS
<1>2. PICK k \in Bad : \A y \in Bad : k <= y
  BY <1>1, LeastNat
<1>3. k \in Nat /\ ~ \E F : Solves(F, k)
  BY <1>2
<1>4. k # 0
  <2>1. Solves([i \in 1..0 |-> 0], 0)
    OBVIOUS
  <2> QED
    BY <2>1, <1>3
<1>5. k - 1 \in Nat /\ k - 1 \notin Bad
  <2> HIDE DEF Bad
  <2> QED
    BY <1>2, <1>3, <1>4
<1>6. PICK G : Solves(G, k - 1)
  BY <1>5
<1> DEFINE F == [i \in 1..k |-> IF i < k THEN G[i] ELSE IF i = 1 THEN s[i] ELSE G[i-1] \o s[i]]
<1>7. ASSUME NEW i \in 1..k
      PROVE  F[i] = IF i = 1 THEN s[i] ELSE F[i-1] \o s[i]
  <2>1. i # 1 => F[i-1] = G[i-1]
    BY <1>3
  <2>2. i < k => G[i] = IF i = 1 THEN s[i] ELSE G[i-1] \o s[i]
    <3> SUFFICES ASSUME i < k PROVE i \in 1..k - 1
      BY <1>6
    <3> QED
      BY <1>3
  <2>3. F[i] = IF i < k THEN G[i] ELSE IF i = 1 THEN s[i] ELSE G[i-1] \o s[i]
    OBVIOUS
  <2> HIDE DEF F
  <2> QED
    BY <2>1, <2>2, <2>3
<1>8. Solves(F, k)
  <2>1. F = [i \in 1..k |-> F[i]]
    OBVIOUS
  <2> HIDE DEF F
  <2> QED
    BY <2>1, <1>7
<1> QED
  BY <1>3, <1>8

(* Joined are the first ones joined and the next. *)
LEMMA FlattenNext ==
  ASSUME NEW s, NEW k \in Nat
  PROVE  FlattenSeq(First(s, k + 1)) =
           IF k = 0 THEN s[1] ELSE FlattenSeq(First(s, k)) \o s[k + 1]
<1>1. PICK F : F = [i \in 1..k + 1 |-> IF i = 1 THEN s[i] ELSE F[i-1] \o s[i]]
  <2>1. k + 1 \in Nat
    OBVIOUS
  <2> QED
    BY <2>1, FlattenFunction
<1>2. \A i \in 1..k + 1 : F[i] = IF i = 1 THEN s[i] ELSE F[i-1] \o s[i]
  BY <1>1
<1>3. ASSUME NEW n \in 1..k + 1
      PROVE  FlattenSeq(First(s, n)) = F[n]
  <2> DEFINE t == First(s, n)
             G == [i \in 1..n |-> F[i]]
  <2>1. Len(t) = n
    BY DEF First
  <2>2. ASSUME NEW i \in 1..n
        PROVE  G[i] = IF i = 1 THEN t[i] ELSE G[i-1] \o t[i]
    <3>1. i \in 1..k + 1 /\ t[i] = s[i] /\ G[i] = F[i]
      BY DEF First
    <3>2. i # 1 => G[i-1] = F[i-1]
      OBVIOUS
    <3> QED
      BY <3>1, <3>2, <1>2
  <2>3. G = [i \in 1..Len(t) |-> IF i = 1 THEN t[i] ELSE G[i-1] \o t[i]]
    BY <2>1, <2>2
  <2>4. Len(t) \in Nat \ {0} /\ G[n] = F[n]
    BY <2>1
  <2> HIDE DEF t, G
  <2>5. FlattenSeq(t) = G[n]
    BY <2>1, <2>3, <2>4, FlattenIs
  <2> QED
    BY <2>4, <2>5 DEF t
<1>4. FlattenSeq(First(s, k + 1)) = F[k + 1]
  BY <1>3
<1>5. k # 0 => FlattenSeq(First(s, k)) = F[k]
  BY <1>3
<1>6. F[k + 1] = IF k = 0 THEN s[1] ELSE F[k] \o s[k + 1]
  BY <1>2
<1> QED
  BY <1>4, <1>5, <1>6

(* Of blocks of the same length each one is found at its place. *)
LEMMA BlocksJoin ==
  ASSUME NEW S, NEW s \in Seq(Seq(S)), NEW n \in Nat \ {0},
         \A i \in 1..Len(s) : Len(s[i]) = n
  PROVE  /\ FlattenSeq(s) \in Seq(S) /\ Len(FlattenSeq(s)) = Len(s) * n
         /\ \A i \in 1..Len(s) : SubSeq(FlattenSeq(s), (i - 1) * n + 1, i * n) = s[i]
<1> DEFINE G(k) == FlattenSeq(First(s, k))
           Fine(k) == /\ G(k) \in Seq(S) /\ Len(G(k)) = k * n
                      /\ \A i \in 1..k : SubSeq(G(k), (i - 1) * n + 1, i * n) = s[i]
           Bad == {k \in 0..Len(s) : ~Fine(k)}
<1>1. Fine(0)
  <2>1. First(s, 0) = << >>
    BY DEF First
  <2>2. FlattenSeq(<< >>) = << >>
    BY DEF FlattenSeq
  <2>3. << >> \in Seq(S) /\ Len(<< >>) = 0 /\ 0 * n = 0
    BY Times
  <2>4. G(0) = << >>
    BY <2>1, <2>2
  <2>5. G(0) \in Seq(S) /\ Len(G(0)) = 0 * n
    BY <2>3, <2>4, Zenon
  <2>6. \A i \in 1..0 : FALSE
    OBVIOUS
  <2> HIDE DEF G
  <2> QED
    BY <2>5, <2>6, Zenon
<1>2. ASSUME NEW k \in 0..Len(s), k + 1 <= Len(s), Fine(k)
      PROVE  Fine(k + 1)
  <2>0. k \in Nat /\ k + 1 \in 1..Len(s)
    BY <1>2
  <2>1. s[k + 1] \in Seq(S) /\ Len(s[k + 1]) = n /\ k \in Nat
    BY <2>0, ElementOfSeq
  <2>2. G(k + 1) = G(k) \o s[k + 1]
    <3>1. CASE k # 0
      BY <3>1, <2>1, FlattenNext
    <3>2. CASE k = 0
      <4>1. G(0) = << >>
        BY <1>2, <3>2, EmptySeq, Times
      <4>2. G(k + 1) = s[1]
        BY <2>1, <3>2, FlattenNext
      <4> QED
        BY <2>1, <3>2, <4>1, <4>2, ConcatEmptySeq
    <3> QED
      BY <3>1, <3>2
  <2> DEFINE g == G(k)
             h == G(k + 1)
             t == s[k + 1]
  <2>3. g \in Seq(S) /\ Len(g) = k * n /\ k * n \in Nat /\ (k + 1) * n = k * n + n
    BY <1>2, <2>1, Times
  <2>4. h = g \o t /\ t \in Seq(S) /\ Len(t) = n
    BY <2>1, <2>2
  <2> HIDE DEF g, h, t, G
  <2>5. h \in Seq(S) /\ Len(h) = (k + 1) * n
    <3>1. h \in Seq(S) /\ Len(h) = Len(g) + Len(t)
      BY <2>3, <2>4, ConcatProperties
    <3> QED
      BY <3>1, <2>3, <2>4
  <2>6. ASSUME NEW i \in 1..k + 1
        PROVE  SubSeq(h, (i - 1) * n + 1, i * n) = s[i]
    <3>1. /\ (i - 1) * n \in Nat /\ i * n \in Nat /\ (i - 1) * n + n = i * n
          /\ i <= k => i * n <= k * n
      BY <2>1, Times
    <3>2. PICK a \in Nat, b \in Nat : a = (i - 1) * n /\ b = i * n
      BY <3>1
    <3>3. CASE i <= k
      <4>1. a + 1 \in 1..Len(g) /\ b \in 1..Len(g)
        <5>1. b <= Len(g) /\ a + n = b /\ n \in Nat /\ n # 0 /\ Len(g) \in Nat
          BY <3>1, <3>2, <3>3, <2>3
        <5> QED
          BY <5>1, <3>2
      <4>2. SubSeq(g \o t, a + 1, b) = SubSeq(g, a + 1, b)
        BY <4>1, <2>3, <2>4, SubSeqOfConcat1
      <4>3. SubSeq(g, (i - 1) * n + 1, i * n) = s[i]
        BY <1>2, <3>3 DEF g
      <4> QED
        BY <4>2, <4>3, <3>2, <2>4
    <3>4. CASE i = k + 1
      <4>1. a = k * n /\ b = a + n
        BY <3>1, <3>2, <3>4, <2>1
      <4>2. a + 1 \in Len(g) + 1..Len(g) + Len(t) /\ b \in Len(g) + 1..Len(g) + Len(t)
        BY <4>1, <2>3, <2>4
      <4>3. SubSeq(g \o t, a + 1, b) = SubSeq(t, a + 1 - Len(g), b - Len(g))
        BY <4>2, <2>3, <2>4, SubSeqOfConcat2
      <4>4. a + 1 - Len(g) = 1 /\ b - Len(g) = Len(t)
        BY <4>1, <2>3, <2>4
      <4>5. SubSeq(t, 1, Len(t)) = t
        BY <2>4, SubSeqFull
      <4> QED
        BY <4>3, <4>4, <4>5, <3>2, <3>4, <2>4 DEF t
    <3> QED
      BY <3>3, <3>4, <2>1
  <2> USE DEF h
  <2> QED
    BY <2>5, <2>6
<1>3. \A k \in 0..Len(s) : Fine(k)
  <2> HIDE DEF Fine
  <2>1. SUFFICES ASSUME Bad # {} PROVE FALSE
    OBVIOUS
  <2>2. PICK x \in Bad : \A y \in Bad : x <= y
    <3>1. Bad \in SUBSET Nat
      OBVIOUS
    <3> QED
      BY <3>1, <2>1, LeastNat
  <2>3. x # 0 /\ x \in 0..Len(s)
    BY <1>1, <2>2
  <2>4. x - 1 \in 0..Len(s) /\ x - 1 \notin Bad /\ x - 1 + 1 = x
    BY <2>2, <2>3
  <2>5. Fine(x - 1) /\ x - 1 + 1 <= Len(s)
    BY <2>4, <2>3
  <2>6. Fine(x - 1 + 1)
    BY <2>4, <2>5, <1>2
  <2> QED
    BY <2>6, <2>4, <2>2
<1>4. First(s, Len(s)) = s
  BY DEF First
<1>5. Fine(Len(s))
  BY <1>3
<1> QED
  BY <1>4, <1>5

-----------------------------------------------------------------------------
(* RSA. *)

Plain(msg) == Parts(msg, FixedMaxPlaintextLength)
Blocks(key, msg) == [j \in DOMAIN Plain(msg) |-> Block(key, Plain(msg)[j])]
Sent(key, msg) == EncryptHex(key, msg).out
BlocksOf(msg) == Count(msg, FixedMaxPlaintextLength)

(* A block opens with its key and tells its key and its part.              *)
LEMMA OneBlock ==
  ASSUME NEW key, NEW p
  PROVE  /\ Len(Block(key, p)) = FixedCiphertextLength /\ Block(key, p) # << >>
         /\ Head(Block(key, p)).plain = p /\ Head(Block(key, p)).key = key
         /\ Opens(key, Block(key, p))
<1>1. FixedCiphertextLength \in Nat /\ FixedCiphertextLength > 0
  BY LengthAssumption
<1>2. /\ Len(Block(key, p)) = FixedCiphertextLength
      /\ Block(key, p)[1] = [key |-> key, plain |-> p, at |-> 1]
  BY <1>1 DEF Block
<1>3. Block(key, p) # << >>
  BY <1>1, <1>2
<1>4. Block(key, p) \in Seq({[key |-> key, plain |-> p, at |-> j] : j \in 1..FixedCiphertextLength})
  BY <1>1 DEF Block
<1>5. Head(Block(key, p)) = [key |-> key, plain |-> p, at |-> 1]
  BY <1>2, <1>3, <1>4
<1> QED
  BY <1>2, <1>3, <1>5 DEF Opens

(* The ciphertext is one block for every part of the message. *)
LEMMA SentIs ==
  ASSUME NEW S, NEW msg \in Seq(S), NEW key
  PROVE  /\ BlocksOf(msg) \in Nat /\ Plain(msg) \in Seq(Seq(S))
         /\ DOMAIN Plain(msg) = 1..BlocksOf(msg)
         /\ Sent(key, msg) = FlattenSeq(Blocks(key, msg))
         /\ \E R : /\ Sent(key, msg) \in Seq(R)
                   /\ Len(Sent(key, msg)) = BlocksOf(msg) * FixedCiphertextLength
         /\ \A i \in 1..BlocksOf(msg) :
              SubSeq(Sent(key, msg), (i - 1) * FixedCiphertextLength + 1, i * FixedCiphertextLength)
                = Block(key, Plain(msg)[i])
<1> DEFINE R == {[key |-> key, plain |-> p, at |-> j] : p \in Seq(S), j \in 1..FixedCiphertextLength}
           b == BlocksOf(msg)
<1>0. FixedMaxPlaintextLength \in Nat \ {0} /\ FixedCiphertextLength \in Nat \ {0}
  BY LengthAssumption
<1>1. b \in Nat /\ Plain(msg) \in Seq(Seq(S)) /\ DOMAIN Plain(msg) = 1..b
  BY <1>0, CountOf, PartsOf DEF BlocksOf, Plain
<1>2. Sent(key, msg) = FlattenSeq(Blocks(key, msg))
  BY DEF Sent, EncryptHex, Success, Blocks, Plain
<1>3. \A j \in 1..b : Block(key, Plain(msg)[j]) \in Seq(R)
  <2> SUFFICES ASSUME NEW j \in 1..b PROVE Block(key, Plain(msg)[j]) \in Seq(R)
    OBVIOUS
  <2>1. Plain(msg)[j] \in Seq(S)
    BY <1>1, ElementOfSeq
  <2>2. Block(key, Plain(msg)[j]) \in [1..FixedCiphertextLength -> R]
    BY <2>1 DEF Block
  <2> HIDE DEF R
  <2> QED
    BY <2>2, <1>0
<1>4. Blocks(key, msg) \in [1..b -> Seq(R)]
  BY <1>1, <1>3 DEF Blocks
<1> HIDE DEF b, R
<1>5. Blocks(key, msg) \in Seq(Seq(R)) /\ Len(Blocks(key, msg)) = b
  BY <1>1, <1>4
<1>6. \A i \in 1..b : Blocks(key, msg)[i] = Block(key, Plain(msg)[i])
  BY <1>1 DEF Blocks
<1>7. \A i \in 1..Len(Blocks(key, msg)) : Len(Blocks(key, msg)[i]) = FixedCiphertextLength
  BY <1>5, <1>6, OneBlock
<1>8. /\ FlattenSeq(Blocks(key, msg)) \in Seq(R)
      /\ Len(FlattenSeq(Blocks(key, msg))) = b * FixedCiphertextLength
      /\ \A i \in 1..b :
           SubSeq(FlattenSeq(Blocks(key, msg)), (i - 1) * FixedCiphertextLength + 1, i * FixedCiphertextLength)
             = Blocks(key, msg)[i]
  BY <1>0, <1>5, <1>7, BlocksJoin
<1> QED
  BY <1>1, <1>2, <1>6, <1>8 DEF b

(* What is left of it after a cut, in parts: blocks, and the rest of one   *)
(* that was cut.                                                           *)
LEMMA CutParts ==
  ASSUME NEW S, NEW msg \in Seq(S), NEW key,
         NEW q \in Nat, NEW r \in 0..FixedCiphertextLength - 1,
         NEW n \in 0..Len(Sent(key, msg)), n = FixedCiphertextLength * q + r
  PROVE  LET cut == Parts(SubSeq(Sent(key, msg), 1, n), FixedCiphertextLength)
         IN /\ q <= BlocksOf(msg)
            /\ DOMAIN cut = 1..IF r = 0 THEN q ELSE q + 1
            /\ \A j \in 1..q : cut[j] = Block(key, Plain(msg)[j])
            /\ r # 0 => Len(cut[q + 1]) = r
<1> DEFINE C == FixedCiphertextLength
           sent == Sent(key, msg)
           t == SubSeq(sent, 1, n)
           b == BlocksOf(msg)
<1>1. C \in Nat \ {0}
  BY LengthAssumption
<1>2. PICK R : sent \in Seq(R) /\ Len(sent) = b * C
  BY SentIs
<1>3. b \in Nat /\ Len(sent) \in Nat /\ n \in Nat
  <2>1. b \in Nat
    BY SentIs
  <2>2. Len(sent) \in Nat
    BY <1>2
  <2> QED
    BY <2>1, <2>2
<1>4. \A i \in 1..b : SubSeq(sent, (i - 1) * C + 1, i * C) = Block(key, Plain(msg)[i])
  BY SentIs
<1> HIDE DEF C, sent, b
<1>5. C * q = q * C /\ q * C \in Nat /\ n = q * C + r /\ r \in Nat /\ r < C
  BY <1>1 DEF C
<1>6. q <= b /\ (r # 0 => q + 1 <= b)
  <2>1. q > b => (b + 1) * C <= q * C
    BY <1>1, <1>3, Times
  <2>2. (b + 1) * C = b * C + C /\ b * C \in Nat
    BY <1>1, <1>3, Times
  <2>3. PICK x \in Nat, y \in Nat : x = q * C /\ y = b * C
    BY <1>5, <2>2
  <2>4. x + r <= y
    BY <2>3, <1>2, <1>5 DEF sent
  <2>5. q <= b
    BY <2>1, <2>2, <2>3, <2>4, <1>1, <1>3, <1>5
  <2>6. r # 0 => q # b
    BY <2>3, <2>4, <1>5
  <2> QED
    BY <2>5, <2>6, <1>3
<1>7. t \in Seq(R) /\ Len(t) = n
  <2>1. CASE n = 0
    <3>1. t = << >>
      BY <2>1, SubSeqEmpty
    <3> QED
      BY <3>1, <2>1
  <2>2. CASE n # 0
    <3>1. n \in 1..Len(sent)
      BY <2>2, <1>3 DEF sent
    <3>2. \A i \in 1..n : sent[i] \in R
      BY <3>1, <1>2, <1>3, ElementOfSeq
    <3>3. /\ SubSeq(sent, 1, n) \in Seq(R)
          /\ Len(SubSeq(sent, 1, n)) = n - 1 + 1
      BY <3>1, <3>2, <1>2, <1>3, SubSeqProperties
    <3> QED
      BY <3>3, <1>3
  <2> QED
    BY <2>1, <2>2
<1>8. Count(t, C) = IF r = 0 THEN q ELSE q + 1
  <2>1. CASE r = 0
    <3>1. n + C - 1 \in Nat /\ n + C - 1 = C * q + (C - 1) /\ C - 1 \in Nat /\ C - 1 < C
      BY <2>1, <1>1, <1>5
    <3> QED
      BY <3>1, <2>1, <1>1, <1>7, Quotient DEF Count
  <2>2. CASE r # 0
    <3>1. C * (q + 1) = C * q + C
      BY <1>1
    <3>2. n + C - 1 \in Nat /\ n + C - 1 = C * (q + 1) + (r - 1) /\ r - 1 \in Nat /\ r - 1 < C /\ q + 1 \in Nat
      BY <3>1, <2>2, <1>1, <1>5
    <3> QED
      BY <3>2, <2>2, <1>1, <1>7, Quotient DEF Count
  <2> QED
    BY <2>1, <2>2
<1> DEFINE cut == Parts(t, C)
<1>9. /\ DOMAIN cut = 1..Count(t, C)
      /\ \A j \in 1..Count(t, C) : /\ cut[j] = SubSeq(t, (j - 1) * C + 1, End(t, C, j))
                                   /\ Len(cut[j]) = End(t, C, j) - (j - 1) * C
  <2> HIDE DEF t
  <2> QED
    BY <1>1, <1>7, PartsOf
<1> HIDE DEF t, cut
<1>10. ASSUME NEW j \in 1..q PROVE cut[j] = Block(key, Plain(msg)[j])
  <2>1. /\ (j - 1) * C \in Nat /\ j * C \in Nat /\ (j - 1) * C + C = j * C
        /\ j * C <= q * C
    BY <1>1, Times
  <2>2. PICK x \in Nat, y \in Nat, z \in Nat : x = (j - 1) * C /\ y = j * C /\ z = q * C
    BY <2>1, <1>5
  <2>3. x + C = y /\ y <= z /\ n = z + r /\ z <= n
    BY <2>1, <2>2, <1>5
  <2>4. End(t, C, j) = y
    <3>1. End(t, C, j) = IF y < n THEN y ELSE n
      BY <2>2, <1>7 DEF End
    <3> QED
      BY <3>1, <2>3, <1>3
  <2>5. j \in 1..Count(t, C) /\ j \in 1..b
    BY <1>3, <1>6, <1>8
  <2>6. cut[j] = SubSeq(t, x + 1, y)
    BY <2>2, <2>4, <2>5, <1>9
  <2>7. /\ 1 \in 1..Len(sent) /\ n \in 1..Len(sent)
        /\ x + 1 \in 1..n - 1 + 1 /\ y \in 1..n - 1 + 1
    <3>1. n <= Len(sent)
      BY DEF sent
    <3> QED
      BY <3>1, <2>3, <1>1, <1>3
  <2>8. SubSeq(SubSeq(sent, 1, n), x + 1, y) = SubSeq(sent, 1 + (x + 1) - 1, 1 + y - 1)
    BY <2>7, <1>2, SubSeqOfSubSeq
  <2>9. 1 + (x + 1) - 1 = x + 1 /\ 1 + y - 1 = y
    OBVIOUS
  <2>10. SubSeq(sent, x + 1, y) = Block(key, Plain(msg)[j])
    BY <2>2, <2>5, <1>4
  <2> QED
    BY <2>6, <2>8, <2>9, <2>10 DEF t
<1>11. r # 0 => Len(cut[q + 1]) = r
  <2> SUFFICES ASSUME r # 0 PROVE Len(cut[q + 1]) = r
    OBVIOUS
  <2>1. q + 1 \in 1..Count(t, C) /\ q + 1 - 1 = q
    BY <1>8
  <2>2. (q + 1) * C = q * C + C
    BY <1>1, Times
  <2>3. PICK z \in Nat : z = q * C /\ n = z + r /\ (q + 1) * C = z + C
    BY <1>5, <2>2
  <2>4. End(t, C, q + 1) = n
    <3>1. End(t, C, q + 1) = IF z + C < n THEN z + C ELSE n
      BY <2>3, <1>7 DEF End
    <3> QED
      BY <3>1, <2>3, <1>5, <1>1
  <2>5. Len(cut[q + 1]) = n - z
    BY <2>1, <2>3, <2>4, <1>9
  <2> QED
    BY <2>5, <2>3, <1>5
<1> QED
  BY <1>6, <1>8, <1>9, <1>10, <1>11 DEF cut, t, sent, b, C

(* DecryptHex with the key of EncryptHex: what was cut between two blocks  *)
(* opens to the beginning of the message, and nothing else opens.          *)
THEOREM CutOpens ==
  ASSUME NEW S, NEW msg \in Seq(S), NEW key, NEW n \in 0..Len(Sent(key, msg))
  PROVE  DecryptHex(key, SubSeq(Sent(key, msg), 1, n)) =
           IF n % FixedCiphertextLength # 0 THEN Failure
           ELSE Success(SubSeq(msg, 1, LeastOf(Len(msg),
                          (n \div FixedCiphertextLength) * FixedMaxPlaintextLength)))
<1> DEFINE cut == Parts(SubSeq(Sent(key, msg), 1, n), FixedCiphertextLength)
<1>1. FixedCiphertextLength \in Nat \ {0} /\ FixedMaxPlaintextLength \in Nat \ {0}
  BY LengthAssumption
<1>2. n \in Nat
  <2>1. PICK R : Sent(key, msg) \in Seq(R)
    BY SentIs
  <2> QED
    BY <2>1
<1>3. PICK q \in Nat, r \in 0..FixedCiphertextLength - 1 :
        /\ n \div FixedCiphertextLength = q /\ n % FixedCiphertextLength = r
        /\ n = FixedCiphertextLength * q + r
  BY <1>1, <1>2, Division
<1>4. /\ q <= BlocksOf(msg)
      /\ DOMAIN cut = 1..IF r = 0 THEN q ELSE q + 1
      /\ \A j \in 1..q : cut[j] = Block(key, Plain(msg)[j])
      /\ r # 0 => Len(cut[q + 1]) = r
  BY <1>3, CutParts
<1>5. DecryptHex(key, SubSeq(Sent(key, msg), 1, n)) =
        IF \A j \in DOMAIN cut : Opens(key, cut[j])
        THEN Success(FlattenSeq([j \in DOMAIN cut |-> Head(cut[j]).plain]))
        ELSE Failure
  BY DEF DecryptHex
<1> HIDE DEF cut
<1>6. CASE r # 0
  <2>1. ~Opens(key, cut[q + 1])
    <3>1. SUFFICES ASSUME Opens(key, cut[q + 1]) PROVE FALSE
      OBVIOUS
    <3>2. Len(cut[q + 1]) = FixedCiphertextLength
      BY <3>1, OneBlock DEF Opens
    <3> QED
      BY <3>2, <1>1, <1>3, <1>4, <1>6
  <2>2. q + 1 \in DOMAIN cut
    BY <1>3, <1>4, <1>6
  <2> QED
    BY <2>1, <2>2, <1>3, <1>5, <1>6
<1>7. CASE r = 0
  <2>1. DOMAIN cut = 1..q /\ \A j \in 1..q : Opens(key, cut[j]) /\ Head(cut[j]).plain = Plain(msg)[j]
    BY <1>4, <1>7, OneBlock
  <2>2. [j \in DOMAIN cut |-> Head(cut[j]).plain]
          = [j \in 1..q |-> Parts(msg, FixedMaxPlaintextLength)[j]]
    BY <2>1 DEF Plain
  <2>3. q \in 0..Count(msg, FixedMaxPlaintextLength)
    BY <1>1, <1>3, <1>4, CountOf DEF BlocksOf
  <2>4. FlattenSeq([j \in 1..q |-> Parts(msg, FixedMaxPlaintextLength)[j]])
          = SubSeq(msg, 1, End(msg, FixedMaxPlaintextLength, q))
    BY <2>3, <1>1, FirstPartsJoin
  <2>5. End(msg, FixedMaxPlaintextLength, q) = LeastOf(Len(msg), q * FixedMaxPlaintextLength)
    <3>1. q * FixedMaxPlaintextLength \in Nat /\ Len(msg) \in Nat
      BY <1>1, <1>3, Times
    <3> QED
      BY <3>1 DEF End, LeastOf
  <2> QED
    BY <2>1, <2>2, <2>4, <2>5, <1>3, <1>5, <1>7
<1> QED
  BY <1>6, <1>7

(* The whole ciphertext opens to the message.                              *)
THEOREM WholeOpens ==
  ASSUME NEW S, NEW msg \in Seq(S), NEW key
  PROVE  DecryptHex(key, EncryptHex(key, msg).out) = Success(msg)
<1> DEFINE sent == Sent(key, msg)
           b == BlocksOf(msg)
           C == FixedCiphertextLength
           P == FixedMaxPlaintextLength
<1>1. C \in Nat \ {0} /\ P \in Nat \ {0}
  BY LengthAssumption
<1>2. PICK R : sent \in Seq(R) /\ Len(sent) = b * C
  BY SentIs
<1>3. b \in Nat
  BY SentIs
<1> HIDE DEF sent, b, C, P
<1>4. Len(sent) \in Nat /\ Len(sent) = C * b + 0
  BY <1>1, <1>2, <1>3
<1>5. Len(sent) \div C = b /\ Len(sent) % C = 0
  <2>1. 0 \in Nat /\ 0 < C
    BY <1>1
  <2> QED
    BY <2>1, <1>1, <1>3, <1>4, Quotient
<1>6. SubSeq(sent, 1, Len(sent)) = sent
  BY <1>2, SubSeqFull
<1>7. Len(sent) \in 0..Len(sent)
  BY <1>4
<1>8. DecryptHex(key, SubSeq(sent, 1, Len(sent))) =
        IF Len(sent) % C # 0 THEN Failure
        ELSE Success(SubSeq(msg, 1, LeastOf(Len(msg), (Len(sent) \div C) * P)))
  BY <1>7, CutOpens DEF sent, C, P
<1>9. LeastOf(Len(msg), b * P) = Len(msg)
  <2>1. Len(msg) <= b * P /\ b * P \in Nat /\ Len(msg) \in Nat
    BY <1>1, <1>3, CountOf, Times DEF b, BlocksOf, P
  <2> QED
    BY <2>1 DEF LeastOf
<1>10. SubSeq(msg, 1, Len(msg)) = msg
  BY SubSeqFull
<1> QED
  BY <1>5, <1>6, <1>8, <1>9, <1>10 DEF sent, Sent

(* With another key nothing opens. *)
THEOREM OtherKeyFails ==
  ASSUME NEW S, NEW msg \in Seq(S), msg # << >>, NEW key, NEW other, other # key
  PROVE  DecryptHex(other, EncryptHex(key, msg).out) = Failure
<1> DEFINE sent == Sent(key, msg)
           b == BlocksOf(msg)
           C == FixedCiphertextLength
           cut == Parts(sent, C)
<1>1. C \in Nat \ {0}
  BY LengthAssumption
<1>2. PICK R : sent \in Seq(R) /\ Len(sent) = b * C
  BY SentIs
<1>3. b \in Nat /\ b # 0
  <2>1. FixedMaxPlaintextLength \in Nat \ {0}
    BY LengthAssumption
  <2> QED
    BY <2>1, CountOf DEF BlocksOf
<1>4. SubSeq(sent, 1, Len(sent)) = sent
  BY <1>2, SubSeqFull
<1>5. /\ 0 \in 0..C - 1 /\ Len(sent) \in 0..Len(sent)
      /\ Len(sent) = C * b + 0
  <2> HIDE DEF sent, b, C
  <2> QED
    BY <1>1, <1>2, <1>3
<1>6. DOMAIN cut = 1..b /\ \A j \in 1..b : cut[j] = Block(key, Plain(msg)[j])
  <2>1. LET t == Parts(SubSeq(Sent(key, msg), 1, Len(sent)), FixedCiphertextLength)
        IN /\ b <= BlocksOf(msg)
           /\ DOMAIN t = 1..IF 0 = 0 THEN b ELSE b + 1
           /\ \A j \in 1..b : t[j] = Block(key, Plain(msg)[j])
           /\ 0 # 0 => Len(t[b + 1]) = 0
    <3> HIDE DEF b
    <3> QED
      BY <1>3, <1>5, CutParts
  <2> QED
    BY <2>1, <1>4
<1>7. ~Opens(other, cut[1])
  <2>1. SUFFICES ASSUME Opens(other, cut[1]) PROVE FALSE
    OBVIOUS
  <2>2. PICK p : cut[1] = Block(other, p)
    BY <2>1 DEF Opens
  <2>3. cut[1] = Block(key, Plain(msg)[1])
    BY <1>3, <1>6
  <2> QED
    <3>1. Head(Block(other, p)).key = other
      BY OneBlock
    <3>2. Head(Block(key, Plain(msg)[1])).key = key
      BY OneBlock
    <3> QED
      BY <3>1, <3>2, <2>2, <2>3, Zenon
<1>8. 1 \in DOMAIN cut
  BY <1>3, <1>6
<1> QED
  BY <1>7, <1>8 DEF DecryptHex, Sent

(* Every message of the run opens, whole or cut. *)
LEMMA RsaOpens ==
  ASSUME NEW S, NEW msg \in Seq(S), NEW key \in Key,
         input.tool = "rsa" => input.key = key /\ input.msg = msg
  PROVE  RsaOpensWhole
<1> DEFINE sent == EncryptHex(key, msg).out
           other == CHOOSE k \in Key : k # key
           single == Encrypt(key, msg)
<1>1. other # key
  BY DEF Key
<1>2. DecryptHex(key, sent) = Success(msg)
  BY WholeOpens
<1>3. msg # << >> => DecryptHex(other, sent) = Failure
  <2> HIDE DEF other
  <2> QED
    BY <1>1, OtherKeyFails
<1>4. \A n \in 0..Len(sent) :
        LET blocks == n \div FixedCiphertextLength IN
        DecryptHex(key, SubSeq(sent, 1, n)) =
          IF n % FixedCiphertextLength # 0 THEN Failure
          ELSE Success(SubSeq(msg, 1, LeastOf(Len(msg), blocks * FixedMaxPlaintextLength)))
  BY CutOpens DEF Sent
<1>5. IF Len(msg) <= FixedMaxPlaintextLength THEN Decrypt(key, single.out) = Success(msg)
                                             ELSE ~single.ok
  BY OneBlock DEF Encrypt, Decrypt, Success, Failure
<1> QED
  BY <1>2, <1>3, <1>4, <1>5 DEF RsaOpensWhole, Is

-----------------------------------------------------------------------------
(* Signatures. *)

(* Two digits, whatever the case of their letters, are the byte they were  *)
(* made of.                                                                *)
THEOREM HexReads ==
  ASSUME NEW msg \in Seq(Nat), NEW hex \in Seq(Nat \X {"upper", "lower"}),
         Len(hex) = Len(SignHex(msg)), \A i \in DOMAIN hex : hex[i][1] = SignHex(msg)[i][1]
  PROVE  VerifyHex(hex) = msg
<1> DEFINE D == Nat \X {"upper", "lower"}
           L == Len(msg)
<1>1. L \in Nat /\ Len(hex) = 2 * L /\ DOMAIN hex = 1..2 * L
  BY DEF SignHex
<1>2. Count(hex, 2) = L
  <2>1. 2 * L + 2 - 1 = 2 * L + 1 /\ 2 * L + 1 \in Nat
    BY <1>1
  <2> HIDE DEF L
  <2>2. (2 * L + 1) \div 2 = L
    BY <1>1
  <2> QED
    BY <2>1, <2>2, <1>1 DEF Count
<1>3. DOMAIN Parts(hex, 2) = 1..L
  BY <1>2, PartsOf
<1> HIDE DEF L
<1>4. ASSUME NEW j \in 1..L
      PROVE  strtol(Parts(hex, 2)[j]) = msg[j]
  <2> DEFINE pair == Parts(hex, 2)[j]
  <2>1. msg[j] \in Nat /\ j \in Nat /\ 2 * j \in 1..2 * L /\ 2 * j - 1 \in 1..2 * L
    BY <1>1, ElementOfSeq DEF L
  <2>2. End(hex, 2, j) = 2 * j /\ (j - 1) * 2 + 1 = 2 * j - 1
    <3>1. j * 2 = 2 * j /\ (j - 1) * 2 + 1 = 2 * j - 1 /\ (2 * j < 2 * L \/ 2 * j = 2 * L)
      BY <1>1, <2>1
    <3>2. End(hex, 2, j) = IF 2 * j < 2 * L THEN 2 * j ELSE 2 * L
      BY <3>1, <1>1 DEF End
    <3> QED
      BY <3>1, <3>2
  <2>3. pair = SubSeq(hex, 2 * j - 1, 2 * j)
    <3>1. 2 \in Nat \ {0} /\ j \in 1..Count(hex, 2)
      BY <1>2
    <3>2. pair = SubSeq(hex, (j - 1) * 2 + 1, End(hex, 2, j))
      BY <3>1, PartIs
    <3> QED
      BY <3>2, <2>2
  <2>4. Len(pair) = 2 /\ pair[1] = hex[2 * j - 1] /\ pair[2] = hex[2 * j]
    <3>1. PICK a \in Nat : a = 2 * j - 1 /\ a + 1 = 2 * j /\ a >= 1 /\ a + 1 <= Len(hex)
      BY <2>1, <1>1
    <3>2. pair = SubSeq(hex, a, a + 1)
      BY <2>3, <3>1
    <3> HIDE DEF pair
    <3>3. Len(pair) = 2 /\ pair[1] = hex[a] /\ pair[2] = hex[a + 1]
      BY <3>1, <3>2
    <3> QED
      BY <3>1, <3>3
  <2>5. Head(pair) = pair[1]
    OBVIOUS
  <2> HIDE DEF pair
  <2>6. hex[2 * j - 1] \in D /\ hex[2 * j] \in D
    BY <1>1, <2>1, ElementOfSeq
  <2>7. hex[2 * j - 1][2] # "other" /\ hex[2 * j][2] # "other"
    BY <2>6
  <2>8. strtol(pair) = 16 * hex[2 * j - 1][1] + hex[2 * j][1]
    BY <2>4, <2>5, <2>7 DEF strtol
  <2>9. hex[2 * j - 1][1] = msg[j] \div 16 /\ hex[2 * j][1] = msg[j] % 16
    <3>1. /\ (2 * j - 1 + 1) \div 2 = j /\ (2 * j - 1) % 2 = 1
          /\ (2 * j + 1) \div 2 = j /\ (2 * j) % 2 = 0
      BY <2>1
    <3>2. SignHex(msg)[2 * j - 1][1] = msg[j] \div 16 /\ SignHex(msg)[2 * j][1] = msg[j] % 16
      BY <3>1, <2>1 DEF SignHex, L
    <3> QED
      BY <3>2, <2>1, <1>1
  <2>10. 16 * (msg[j] \div 16) + (msg[j] % 16) = msg[j]
    <3>1. 16 \in Nat /\ 16 # 0
      OBVIOUS
    <3>2. PICK q \in Nat : \E r \in 0..16 - 1 :
            msg[j] \div 16 = q /\ msg[j] % 16 = r /\ msg[j] = 16 * q + r
      BY <3>1, <2>1, Division
    <3> QED
      BY <3>2
  <2>11. strtol(pair) = 16 * (msg[j] \div 16) + (msg[j] % 16)
    BY <2>8, <2>9, Zenon
  <2> QED
    BY <2>10, <2>11 DEF pair
<1>5. VerifyHex(hex) = [j \in 1..L |-> msg[j]]
  BY <1>3, <1>4 DEF VerifyHex
<1> QED
  BY <1>5 DEF L

-----------------------------------------------------------------------------
(* AES. *)

(* What AesEncrypt makes of a message with a key of a possible length      *)
(* AesDecrypt with this key turns back into it; with a key of another      *)
(* length both fail.                                                       *)
THEOREM AesOpens ==
  ASSUME NEW msg \in Seq(Nat), NEW key
  PROVE  AesDecrypt(key, AesEncrypt(key, msg).out) =
           IF Len(key) \in KeyLengths THEN Success(msg) ELSE Failure
<1> DEFINE fill == BlockSize - (Len(msg) % BlockSize)
           tail == [i \in 1..fill |-> fill]
           plain == Padded(msg)
           cipher == Parts(plain, BlockSize)
<1>1. BlockSize \in Nat \ {0} /\ Len(msg) \in Nat
  BY LengthAssumption
<1>2. fill \in 1..BlockSize /\ fill \in Nat /\ fill # 0
  BY <1>1, Division
<1> HIDE DEF fill
<1>3. tail \in Seq(Nat) /\ Len(tail) = fill
  BY <1>2
<1>4. plain = msg \o tail
  BY DEF Padded, fill
<1>5. plain \in Seq(Nat) /\ Len(plain) = Len(msg) + fill /\ plain[Len(plain)] = fill
  BY <1>1, <1>2, <1>3, <1>4
<1>6. SubSeq(plain, 1, Len(plain) - fill) = msg
  <2>1. Len(plain) - fill = Len(msg)
    BY <1>1, <1>2, <1>5
  <2>2. CASE msg = << >>
    BY <2>1, <2>2, SubSeqEmpty
  <2>3. CASE msg # << >>
    <3>1. 1 \in 1..Len(msg) /\ Len(msg) \in 1..Len(msg)
      BY <2>3, EmptySeq
    <3> HIDE DEF tail, plain
    <3>2. SubSeq(msg \o tail, 1, Len(msg)) = SubSeq(msg, 1, Len(msg))
      BY <3>1, <1>3, SubSeqOfConcat1
    <3> QED
      BY <3>2, <2>1, <1>4, SubSeqFull
  <2> QED
    BY <2>2, <2>3
<1> HIDE DEF plain
<1>7. FlattenSeq(cipher) = plain
  BY <1>1, <1>5, PartsJoin
<1>8. cipher # << >>
  <2>1. plain # << >>
    BY <1>1, <1>2, <1>5
  <2>2. Len(cipher) # 0
    BY <2>1, <1>1, <1>5, CountOf, PartsOf
  <2> QED
    BY <2>2
<1> HIDE DEF cipher
<1>9. CASE Len(key) \in KeyLengths
  <2>1. AesEncrypt(key, msg).out = cipher
    BY <1>9 DEF AesEncrypt, Success, cipher, plain
  <2>2. AesDecrypt(key, cipher) = Success(msg)
    BY <1>2, <1>5, <1>6, <1>7, <1>8, <1>9 DEF AesDecrypt, Last, plain
  <2> QED
    BY <2>1, <2>2, <1>9
<1>10. CASE Len(key) \notin KeyLengths
  BY <1>10 DEF AesDecrypt
<1> QED
  BY <1>9, <1>10

-----------------------------------------------------------------------------
(* Keys. *)

(* Taking a member away from the text with one more at its end.            *)
LEMMA WithoutNext ==
  ASSUME NEW S, NEW D, NEW s \in Seq(S), NEW y \in S, Without(s, D) \in Seq(S)
  PROVE  Without(Append(s, y), D) = IF y \in D THEN Without(s, D) ELSE Append(Without(s, D), y)
<1> DEFINE t == Append(s, y)
           n == Len(s)
           Kept(x) == IF x \in D THEN << >> ELSE <<x>>
           p == [i \in DOMAIN t |-> Kept(t[i])]
           q == [i \in DOMAIN s |-> Kept(s[i])]
<1>1. /\ n \in Nat /\ DOMAIN s = 1..n /\ DOMAIN t = 1..n + 1
      /\ t[n + 1] = y /\ \A i \in 1..n : t[i] = s[i]
  OBVIOUS
<1>2. Without(t, D) = FlattenSeq(p) /\ Without(s, D) = FlattenSeq(q)
  BY DEF Without
<1> HIDE DEF t, n, Kept
<1>3. First(p, n + 1) = p /\ First(p, n) = q /\ p[n + 1] = Kept(y)
  <2>1. p = [i \in 1..n + 1 |-> Kept(t[i])] /\ q = [i \in 1..n |-> Kept(s[i])]
    BY <1>1
  <2> HIDE DEF p, q
  <2>2. First(p, n + 1) = p
    BY <2>1, <1>1 DEF First
  <2>3. \A i \in 1..n : p[i] = q[i]
    BY <2>1, <1>1
  <2>4. First(p, n) = q
    BY <2>1, <2>3, <1>1 DEF First
  <2>5. p[n + 1] = Kept(y)
    BY <2>1, <1>1
  <2> QED
    BY <2>2, <2>4, <2>5
<1> HIDE DEF p, q
<1>4. FlattenSeq(p) = IF n = 0 THEN p[1] ELSE FlattenSeq(q) \o p[n + 1]
  BY <1>1, <1>3, FlattenNext
<1>5. FlattenSeq(p) = FlattenSeq(q) \o Kept(y)
  <2>1. CASE n # 0
    BY <2>1, <1>3, <1>4
  <2>2. CASE n = 0
    <3>1. q = << >>
      BY <2>2, <1>1 DEF q
    <3>2. FlattenSeq(q) = << >>
      BY <3>1 DEF FlattenSeq
    <3>3. Kept(y) \in Seq(S)
      BY DEF Kept
    <3>4. FlattenSeq(p) = Kept(y)
      BY <2>2, <1>3, <1>4
    <3> QED
      BY <3>2, <3>3, <3>4, ConcatEmptySeq
  <2> QED
    BY <2>1, <2>2
<1>6. CASE y \in D
  <2>1. Kept(y) = << >>
    BY <1>6 DEF Kept
  <2> QED
    BY <1>2, <1>5, <1>6, <2>1, ConcatEmptySeq DEF t
<1>7. CASE y \notin D
  <2>1. Kept(y) = <<y>>
    BY <1>7 DEF Kept
  <2>2. Append(Without(s, D), y) = Without(s, D) \o <<y>>
    BY AppendIsConcat
  <2> QED
    BY <1>2, <1>5, <1>7, <2>1, <2>2 DEF t
<1> QED
  BY <1>6, <1>7

(* What may stand in front of the data of a key. *)
Skipped == {"BEGIN", "END", "\r", "\n", " ", "*"}

(* A key loads from a text, of any length, exactly when its data is the    *)
(* first member of the text that is not skipped.                           *)
THEOREM KeyIsFirst ==
  ASSUME NEW S, NEW s \in Seq(S), NEW x \in S
  PROVE  SetKey(s, x).ok <=>
           \E i \in 1..Len(s) : /\ s[i] = x /\ x \notin Skipped
                                /\ \A j \in 1..i - 1 : s[j] \in Skipped
<1> DEFINE D == {"BEGIN", "END", "\r", "\n", " "}
           t(k) == First(s, k)
           a(k) == Without(t(k), D)
           b(k) == Without(a(k), {"*"})
           Nothing(k) == \A i \in 1..k : s[i] \in Skipped
           Begins(k) == \E i \in 1..k : /\ s[i] = x /\ x \notin Skipped
                                        /\ \A j \in 1..i - 1 : s[j] \in Skipped
           Fine(k) == /\ t(k) \in Seq(S) /\ a(k) \in Seq(S) /\ b(k) \in Seq(S)
                      /\ b(k) = << >> <=> Nothing(k)
                      /\ b(k) # << >> /\ Head(b(k)) = x <=> Begins(k)
           Bad == {k \in 0..Len(s) : ~Fine(k)}
<1>1. Len(s) \in Nat /\ \A y \in S : y \in Skipped <=> y \in D \/ y \in {"*"}
  <2>1. Len(s) \in Nat
    OBVIOUS
  <2>2. Skipped = D \cup {"*"}
    BY DEF Skipped
  <2> HIDE DEF D
  <2> QED
    BY <2>1, <2>2
<1> HIDE DEF D
<1>2. Fine(0)
  <2>1. t(0) = << >>
    BY DEF First
  <2>2. \A d : Without(<< >>, d) = << >>
    <3>1. FlattenSeq(<< >>) = << >>
      BY DEF FlattenSeq
    <3> SUFFICES ASSUME NEW d PROVE Without(<< >>, d) = << >>
      OBVIOUS
    <3>2. [i \in DOMAIN << >> |-> IF << >>[i] \in d THEN << >> ELSE <<<< >>[i]>>] = << >>
      OBVIOUS
    <3> QED
      BY <3>1, <3>2, Zenon DEF Without
  <2>3. a(0) = << >> /\ b(0) = << >>
    BY <2>1, <2>2
  <2>4. Nothing(0) /\ ~Begins(0)
    OBVIOUS
  <2>5. << >> \in Seq(S)
    OBVIOUS
  <2> HIDE DEF t, a, b, Nothing, Begins
  <2> QED
    BY <2>1, <2>3, <2>4, <2>5
<1>3. ASSUME NEW k \in 0..Len(s), k + 1 <= Len(s), Fine(k)
      PROVE  Fine(k + 1)
  <2> DEFINE y == s[k + 1]
  <2>1. k \in Nat /\ k + 1 \in 1..Len(s) /\ y \in S
    BY <1>3, ElementOfSeq
  <2>2. t(k + 1) = Append(t(k), y)
    <3> DEFINE u == t(k)
               v == t(k + 1)
    <3>1. u \in Seq(S) /\ Len(u) = k /\ \A i \in 1..k : u[i] = s[i]
      BY <2>1, <1>3 DEF First
    <3>2. v = [i \in 1..k + 1 |-> s[i]]
      BY DEF First
    <3>3. \A i \in 1..k + 1 : s[i] \in S
      BY <2>1, ElementOfSeq
    <3> HIDE DEF u, v, y
    <3>4. v \in [1..k + 1 -> S]
      BY <3>2, <3>3
    <3>5. v \in Seq(S) /\ Len(v) = k + 1
      BY <2>1, <3>4
    <3>6. Append(u, y) \in Seq(S) /\ Len(Append(u, y)) = k + 1
      BY <2>1, <3>1
    <3>7. \A i \in 1..k + 1 : Append(u, y)[i] = v[i]
      BY <2>1, <3>1, <3>2 DEF y
    <3>8. v = Append(u, y)
      BY <2>1, <3>5, <3>6, <3>7
    <3> QED
      BY <3>8 DEF u, v
  <2>3. t(k) \in Seq(S) /\ a(k) \in Seq(S) /\ b(k) \in Seq(S)
    BY <1>3
  <2> HIDE DEF y, t
  <2>4. t(k + 1) \in Seq(S)
    BY <2>1, <2>2, <2>3
  <2>5. a(k + 1) = IF y \in D THEN a(k) ELSE Append(a(k), y)
    <3> DEFINE u == t(k)
    <3>1. u \in Seq(S) /\ Without(u, D) \in Seq(S)
      BY <2>3
    <3> HIDE DEF u
    <3>2. Without(Append(u, y), D) = IF y \in D THEN Without(u, D) ELSE Append(Without(u, D), y)
      BY <2>1, <3>1, WithoutNext
    <3> QED
      BY <2>2, <3>2, Zenon DEF u
  <2> HIDE DEF a
  <2>6. a(k + 1) \in Seq(S)
    <3>1. Append(a(k), y) \in Seq(S)
      BY <2>1, <2>3
    <3> QED
      BY <2>3, <2>5, <3>1, Zenon
  <2>7. b(k + 1) = IF y \in Skipped THEN b(k) ELSE Append(b(k), y)
    <3>1. CASE y \in D
      BY <1>1, <2>1, <2>5, <3>1
    <3>2. CASE y \notin D
      <4>1. Without(Append(a(k), y), {"*"}) = IF y \in {"*"} THEN b(k) ELSE Append(b(k), y)
        BY <2>1, <2>3, WithoutNext
      <4> QED
        BY <1>1, <2>1, <2>5, <3>2, <4>1
    <3> QED
      BY <3>1, <3>2
  <2> HIDE DEF b
  <2>8. Nothing(k + 1) <=> Nothing(k) /\ y \in Skipped
    <3>1. \A i \in 1..k + 1 : i \in 1..k \/ i = k + 1
      BY <2>1
    <3> QED
      BY <2>1, <3>1 DEF y
  <2>9. Begins(k + 1) <=> Begins(k) \/ (Nothing(k) /\ y = x /\ y \notin Skipped)
    <3>1. /\ 1..k \subseteq 1..k + 1 /\ k + 1 \in 1..k + 1 /\ k + 1 - 1 = k
          /\ \A i \in 1..k + 1 : i \in 1..k \/ i = k + 1
      BY <2>1
    <3> QED
      BY <3>1 DEF y
  <2>10. Begins(k) => ~Nothing(k)
    OBVIOUS
  <2>11. b(k) = << >> <=> Nothing(k)
    BY <1>3
  <2>12. b(k) # << >> /\ Head(b(k)) = x <=> Begins(k)
    BY <1>3
  <2> HIDE DEF Nothing, Begins
  <2>13. PICK c \in Seq(S) : c = b(k)
    BY <2>3
  <2>14. /\ Append(c, y) \in Seq(S) /\ Append(c, y) # << >>
         /\ Head(Append(c, y)) = IF c = << >> THEN y ELSE Head(c)
    <3> DEFINE e == Append(c, y)
    <3>1. /\ e \in Seq(S) /\ Len(e) = Len(c) + 1 /\ Len(c) \in Nat
          /\ \A i \in 1..Len(c) : e[i] = c[i]
          /\ e[Len(c) + 1] = y
      BY <2>1, <2>13
    <3> HIDE DEF e
    <3>2. e # << >> /\ Head(e) = e[1]
      BY <3>1
    <3>3. c = << >> => e[1] = y
      BY <3>1
    <3>4. c # << >> => e[1] = Head(c)
      BY <2>13, <3>1
    <3> QED
      BY <3>1, <3>2, <3>3, <3>4 DEF e
  <2>15. CASE y \in Skipped
    BY <2>3, <2>4, <2>6, <2>7, <2>8, <2>9, <2>11, <2>12, <2>15
  <2>16. CASE y \notin Skipped
    <3>1. b(k + 1) = Append(c, y) /\ ~Nothing(k + 1)
      BY <2>7, <2>8, <2>13, <2>16
    <3>2. Head(b(k + 1)) = x <=> Begins(k + 1)
      BY <2>9, <2>10, <2>11, <2>12, <2>13, <2>14, <2>16, <3>1
    <3> QED
      BY <2>4, <2>6, <2>14, <3>1, <3>2
  <2> QED
    BY <2>15, <2>16
<1>4. \A k \in 0..Len(s) : Fine(k)
  <2> HIDE DEF Fine
  <2>1. SUFFICES ASSUME Bad # {} PROVE FALSE
    OBVIOUS
  <2>2. PICK z \in Bad : \A y \in Bad : z <= y
    <3>1. Bad \in SUBSET Nat
      OBVIOUS
    <3> QED
      BY <3>1, <2>1, LeastNat
  <2>3. z # 0 /\ z \in 0..Len(s)
    BY <1>2, <2>2
  <2>4. z - 1 \in 0..Len(s) /\ z - 1 \notin Bad /\ z - 1 + 1 = z
    BY <2>2, <2>3
  <2>5. Fine(z - 1) /\ z - 1 + 1 <= Len(s)
    BY <2>4, <2>3
  <2>6. Fine(z - 1 + 1)
    BY <2>4, <2>5, <1>3
  <2> QED
    BY <2>6, <2>4, <2>2
<1>5. b(Len(s)) # << >> /\ Head(b(Len(s))) = x <=> Begins(Len(s))
  <2>1. Fine(Len(s))
    <3> HIDE DEF Fine
    <3> QED
      BY <1>1, <1>4
  <2> HIDE DEF t, a, b, Nothing, Begins
  <2> QED
    BY <2>1, Zenon
<1>6. t(Len(s)) = s
  BY <1>1 DEF First
<1>7. b(Len(s)) = Base64Decoder(crypto_PemToOneline(s))
  BY <1>6 DEF Base64Decoder, crypto_PemToOneline, D
<1> HIDE DEF b, Begins
<1>8. SetKey(s, x).ok <=> b(Len(s)) # << >> /\ Head(b(Len(s))) = x
  BY <1>7 DEF SetKey, Success, Failure
<1>9. SetKey(s, x).ok <=> Begins(Len(s))
  BY <1>5, <1>8
<1> QED
  BY <1>9 DEF Begins

(* What the texts of the run are made of. *)
Piece == {"BEGIN", "BEGIN RSA", "END", "\n", "*", "data"}

(* The key of a text loads exactly when no line of another kind comes      *)
(* before its data.                                                        *)
LEMMA KeysLoad ==
  ASSUME NEW text \in Seq(Piece),
         input.tool = "key" => input.text = text
  PROVE  KeyLoads
<1> DEFINE n == Len(text)
           Loads == \E i \in 1..n : /\ text[i] = "data" /\ "data" \notin Skipped
                                    /\ \A j \in 1..i - 1 : text[j] \in Skipped
           Holds(i) == text[i] = "data" /\ \A j \in 1..i - 1 : text[j] # "BEGIN RSA"
<1>1. DOMAIN text = 1..n /\ n \in Nat /\ \A i \in 1..n : text[i] \in Piece
  BY ElementOfSeq
<1>2. SetKey(text, "data").ok <=> Loads
  <2>1. "data" \in Piece
    BY DEF Piece
  <2> QED
    BY <2>1, KeyIsFirst
<1> HIDE DEF n
<1>3. \A y \in Piece : y \in Skipped <=> y # "data" /\ y # "BEGIN RSA"
  BY DEF Skipped, Piece
<1>4. Loads => \E i \in 1..n : Holds(i)
  <2> SUFFICES ASSUME NEW i \in 1..n, text[i] = "data",
                      \A j \in 1..i - 1 : text[j] \in Skipped
               PROVE  Holds(i)
    OBVIOUS
  <2>1. \A j \in 1..i - 1 : j \in 1..n
    BY <1>1
  <2> QED
    BY <2>1, <1>1, <1>3
<1>5. ASSUME NEW m \in 1..n, Holds(m) PROVE Loads
  <2> DEFINE Data == {i \in 1..n : Holds(i)}
  <2>1. Data \in SUBSET Nat /\ Data # {}
    <3> HIDE DEF Holds
    <3> QED
      BY <1>5
  <2>2. PICK i \in Data : \A l \in Data : i <= l
    <3> HIDE DEF Data
    <3> QED
      BY <2>1, LeastNat
  <2>3. i \in 1..n /\ i \in Nat /\ Holds(i)
    <3> HIDE DEF Holds
    <3> QED
      BY <2>2, <1>1
  <2>4. ASSUME NEW j \in 1..i - 1 PROVE text[j] \in Skipped
    <3>1. j \in 1..n /\ j \in Nat /\ j < i
      <4> HIDE DEF Holds
      <4> QED
        BY <1>1, <2>3
    <3>2. text[j] # "BEGIN RSA"
      BY <2>3
    <3>3. text[j] # "data"
      <4> SUFFICES ASSUME text[j] = "data" PROVE FALSE
        OBVIOUS
      <4>1. \A l \in 1..j - 1 : l \in 1..i - 1
        <5> HIDE DEF Holds
        <5> QED
          BY <3>1, <2>3
      <4>2. j \in Data
        BY <2>3, <3>1, <4>1
      <4> HIDE DEF Data, Holds
      <4>3. i <= j
        BY <2>2, <4>2
      <4> QED
        BY <2>3, <3>1, <4>3
    <3> QED
      BY <1>1, <1>3, <3>1, <3>2, <3>3
  <2>5. "data" \notin Skipped
    BY DEF Skipped
  <2> QED
    BY <2>3, <2>4, <2>5
<1> HIDE DEF Loads
<1>6. Loads <=> \E i \in DOMAIN text : Holds(i)
  BY <1>1, <1>4, <1>5
<1> QED
  BY <1>2, <1>6 DEF KeyLoads, Is

-----------------------------------------------------------------------------
(* Compression. *)

(* One of the attempts has the room. *)
Fits(needed, size) == \E k \in 1..Attempts : ~(needed > size * 2^(k - 1))

(* The attempts end with the first that has the room, or with the last.    *)
LEMMA ResultIs ==
  ASSUME NEW needed, NEW size
  PROVE  Result(needed, size) =
           IF needed = -1 THEN "Z_DATA_ERROR" ELSE IF Fits(needed, size) THEN "Z_OK" ELSE "Z_BUF_ERROR"
<1> DEFINE Z(i) == zlib(needed, size * 2^(i - 1))
           Room(i) == ~(needed > size * 2^(i - 1))
           G == [i \in 1..Attempts |->
                   IF needed = -1 THEN "Z_DATA_ERROR"
                   ELSE IF \E k \in i..Attempts : Room(k) THEN "Z_OK" ELSE "Z_BUF_ERROR"]
           Solves(g) == g = [i \in 1..Attempts |-> IF Z(i) = "Z_BUF_ERROR" /\ i < Attempts THEN g[i + 1] ELSE Z(i)]
<1>1. Attempts = 20
  BY DEF Attempts
<1>2. \A i \in 1..Attempts : Z(i) = IF needed = -1 THEN "Z_DATA_ERROR"
                                    ELSE IF Room(i) THEN "Z_OK" ELSE "Z_BUF_ERROR"
  BY DEF zlib
<1> HIDE DEF Z, Room
<1>3. ASSUME NEW i \in 1..Attempts
      PROVE  G[i] = IF Z(i) = "Z_BUF_ERROR" /\ i < Attempts THEN G[i + 1] ELSE Z(i)
  <2>1. i < Attempts => i + 1 \in 1..Attempts
    BY <1>1
  <2>2. (\E k \in i..Attempts : Room(k)) <=> Room(i) \/ \E k \in i + 1..Attempts : Room(k)
    BY <1>1
  <2>3. ~(i < Attempts) => ~ \E k \in i + 1..Attempts : Room(k)
    BY <1>1
  <2> QED
    BY <2>1, <2>2, <2>3, <1>2
<1>4. Solves(G)
  <2>1. G = [i \in 1..Attempts |-> G[i]]
    OBVIOUS
  <2> HIDE DEF G
  <2> QED
    BY <2>1, <1>3
<1>5. PICK g : g = CHOOSE f : Solves(f)
  OBVIOUS
<1>6. Solves(g)
  <2> HIDE DEF Solves, G
  <2> QED
    BY <1>4, <1>5
<1>7. Result(needed, size) = g[1]
  BY <1>5 DEF Result, Z
<1>8. \A i \in 1..Attempts : g[i] = IF Z(i) = "Z_BUF_ERROR" /\ i < Attempts THEN g[i + 1] ELSE Z(i)
  BY <1>6
<1> HIDE DEF G, Solves
<1>9. \A i \in 1..Attempts : g[i] = G[i]
  <2> DEFINE Bad == {j \in 0..19 : g[20 - j] # G[20 - j]}
  <2>1. SUFFICES ASSUME Bad # {} PROVE FALSE
    <3> SUFFICES ASSUME NEW i \in 1..Attempts, Bad = {} PROVE g[i] = G[i]
      OBVIOUS
    <3>1. 20 - i \in 0..19 /\ 20 - (20 - i) = i
      BY <1>1
    <3> QED
      BY <3>1
  <2>2. PICK x \in Bad : \A y \in Bad : x <= y
    <3>1. Bad \in SUBSET Nat
      OBVIOUS
    <3> QED
      BY <3>1, <2>1, LeastNat
  <2>3. x \in 0..19 /\ 20 - x \in 1..Attempts /\ g[20 - x] # G[20 - x]
    BY <2>2, <1>1
  <2>4. x # 0 => x - 1 \in 0..19 /\ x - 1 \notin Bad /\ 20 - (x - 1) = 20 - x + 1
    <3> HIDE DEF Bad
    <3> QED
      BY <2>2, <2>3
  <2>5. x # 0 => g[20 - x + 1] = G[20 - x + 1]
    BY <2>4
  <2>6. x = 0 => ~(20 - x < Attempts)
    BY <1>1
  <2> QED
    BY <2>3, <2>5, <2>6, <1>3, <1>8
<1>10. G[1] = IF needed = -1 THEN "Z_DATA_ERROR"
              ELSE IF \E k \in 1..Attempts : Room(k) THEN "Z_OK" ELSE "Z_BUF_ERROR"
  BY <1>1 DEF G
<1>11. (\E k \in 1..Attempts : Room(k)) <=> Fits(needed, size)
  BY DEF Room, Fits
<1>12. 1 \in 1..Attempts
  BY <1>1
<1> QED
  BY <1>7, <1>9, <1>10, <1>11, <1>12

(* Up to 1032 to 1, the densest zlib can make data, the attempts have the  *)
(* room: the result is whole, for every length.                            *)
THEOREM DensestFits ==
  ASSUME NEW length \in Nat \ {0}, NEW n \in Nat, n <= 1032 * length
  PROVE  Uncompress(length, n) = n
<1> DEFINE size == compressBound(length + 1024)
<1>1. size \in Nat /\ size >= length + 1024
  <2>1. PICK m \in Nat : m = length + 1024
    OBVIOUS
  <2>2. m \div 4096 \in Nat /\ m \div 16384 \in Nat /\ m \div 33554432 \in Nat
    BY <2>1, SMT
  <2> QED
    BY <2>1, <2>2, SMT DEF compressBound
<1>2. 20 \in 1..Attempts /\ 2^(20 - 1) = 524288
  BY SMT DEF Attempts
<1>3. Fits(n, size)
  <2>1. ~(n > size * 524288)
    <3> HIDE DEF size
    <3> QED
      BY <1>1, SMT
  <2> HIDE DEF size
  <2>2. ~(n > size * 2^(20 - 1))
    BY <2>1, <1>2, SMT
  <2>3. \E k \in 1..Attempts : ~(n > size * 2^(k - 1))
    <3>1. 20 \in 1..Attempts
      BY <1>2
    <3> WITNESS 20 \in 1..Attempts
    <3> QED
      BY <2>2
  <2> QED
    BY <2>3 DEF Fits
<1> HIDE DEF size
<1>4. Result(n, size) = "Z_OK"
  <2>1. n # -1
    OBVIOUS
  <2> QED
    BY <2>1, <1>3, ResultIs
<1> QED
  BY <1>4 DEF Uncompress, Run, size

(* Data that does not grow fits the buffer of Compress, for every length.  *)
THEOREM CompressFits ==
  ASSUME NEW length \in Nat \ {0}, NEW n \in Nat, n <= length
  PROVE  Compress(length, n) = n
<1>1. n <= 1032 * length
  OBVIOUS
<1> QED
  BY <1>1, DensestFits DEF Compress, Uncompress

(* What is no compressed data gives nothing. *)
THEOREM BrokenIsNothing ==
  ASSUME NEW length \in Nat
  PROVE  Uncompress(length, -1) = 0
BY ResultIs DEF Uncompress, Run

(* Uncompress gives the whole or nothing for any length and any original.  *)
LEMMA ZlibWhole ==
  ASSUME input.tool = "zlib" => input.length \in Nat \ {0} /\ input.more \in Int
  PROVE  UncompressIsWhole
<1> SUFFICES ASSUME Is("zlib")
             PROVE  LET guess == compressBound(input.length + 1024)
                        densest == 1032 * input.length
                        originals == {densest} \cup {LeastOf(densest, guess * 2^k + input.more) : k \in 0..11}
                    IN \A n \in originals :
                         /\ n > 0 => Uncompress(input.length, n) = n
                         /\ n > 0 => Compress(n, LeastOf(n, input.length)) = LeastOf(n, input.length)
                         /\ Uncompress(input.length, -1) = 0
  BY DEF UncompressIsWhole
<1> DEFINE length == input.length
           guess == compressBound(length + 1024)
           densest == 1032 * length
           originals == {densest} \cup {LeastOf(densest, guess * 2^k + input.more) : k \in 0..11}
<1>1. length \in Nat \ {0} /\ input.more \in Int
  BY DEF Is
<1>2. guess \in Int
  BY <1>1, SMT DEF compressBound
<1> HIDE DEF length, guess
<1>3. \A k \in 0..11 : guess * 2^k \in Int
  BY <1>2
<1>4. \A n \in originals : n \in Int /\ n <= densest
  BY <1>1, <1>3 DEF LeastOf
<1>5. ASSUME NEW n \in originals
      PROVE  /\ n > 0 => Uncompress(length, n) = n
             /\ n > 0 => Compress(n, LeastOf(n, length)) = LeastOf(n, length)
             /\ Uncompress(length, -1) = 0
  <2>1. n \in Int /\ n <= 1032 * length
    BY <1>4
  <2>2. n > 0 => Uncompress(length, n) = n
    BY <2>1, <1>1, DensestFits
  <2>3. n > 0 => n \in Nat \ {0} /\ LeastOf(n, length) \in Nat /\ LeastOf(n, length) <= n
    BY <2>1, <1>1 DEF LeastOf
  <2>4. n > 0 => Compress(n, LeastOf(n, length)) = LeastOf(n, length)
    BY <2>3, CompressFits
  <2> QED
    BY <2>2, <2>4, <1>1, BrokenIsNothing
<1> QED
  BY <1>5 DEF length, guess

-----------------------------------------------------------------------------
(* The specification. *)

KnownInput == input \in Input \cup {None}

(* A state of the run is one of its inputs. *)
LEMMA InputIsKnown == Spec => []KnownInput
<1>1. Init => KnownInput
  BY DEF Init, KnownInput
<1>2. KnownInput /\ [Next]_input => KnownInput'
  BY DEF Next, KnownInput
<1> QED
  BY <1>1, <1>2, PTL DEF Spec

(* A sequence of bounded length is a sequence. *)
LEMMA Bounded ==
  ASSUME NEW S, NEW n \in Nat, NEW s \in BoundedSeq(S, n)
  PROVE  s \in Seq(S)
BY DEF BoundedSeq, SeqOf

(* A message of the run is a sequence of numbers. *)
LEMMA MessageIs ==
  ASSUME NEW msg \in Message
  PROVE  msg \in Seq(Nat)
<1>1. PICK n \in 0..MaxLength : msg = [i \in 1..n |-> i]
  BY DEF Message
<1>2. n \in Nat
  BY <1>1
<1> QED
  BY <1>1, <1>2

(* The inputs of each tool are ones its theorems are about: RSA. *)
LEMMA RsaCase ==
  ASSUME KnownInput
  PROVE  RsaOpensWhole
<1> SUFFICES ASSUME Is("rsa") PROVE RsaOpensWhole
  BY DEF RsaOpensWhole
<1>1. input.key \in Key /\ input.msg \in Message
  BY SMT DEF KnownInput, Input, None, Is
<1>2. input.msg \in Seq(Nat)
  BY <1>1, MessageIs
<1> QED
  BY <1>1, <1>2, RsaOpens

(* The inputs of the signatures. *)
LEMMA SignCase ==
  ASSUME KnownInput
  PROVE  SignatureReads
<1> SUFFICES ASSUME Is("sign") PROVE SignatureReads
  BY DEF SignatureReads
<1> DEFINE msg == input.msg
           D == Nat \X {"upper", "lower"}
           hex == SignHex(msg)
           lower == [i \in DOMAIN hex |-> <<hex[i][1], "lower">>]
<1>1. msg \in BoundedSeq(Byte, 2)
  BY SMT DEF KnownInput, Input, None, Is
<1>2. Byte \subseteq Nat
  BY DEF Byte
<1>3. msg \in Seq(Nat)
  <2>1. msg \in Seq(Byte)
    BY <1>1, Bounded
  <2> QED
    BY <2>1, <1>2, SeqMonotonic
<1> HIDE DEF msg
<1>4. Len(msg) \in Nat /\ DOMAIN hex = 1..2 * Len(msg)
  BY <1>3 DEF SignHex
<1>5. ASSUME NEW i \in 1..2 * Len(msg)
      PROVE  hex[i] \in D /\ lower[i] \in D /\ lower[i][1] = hex[i][1]
  <2>1. (i + 1) \div 2 \in 1..Len(msg)
    BY <1>4
  <2>2. msg[(i + 1) \div 2] \in Nat
    BY <2>1, <1>3, ElementOfSeq
  <2>3. msg[(i + 1) \div 2] \div 16 \in Nat /\ msg[(i + 1) \div 2] % 16 \in Nat
    BY <2>2
  <2>4. hex[i] = <<IF i % 2 = 1 THEN msg[(i + 1) \div 2] \div 16 ELSE msg[(i + 1) \div 2] % 16, "upper">>
    BY DEF SignHex
  <2>5. lower[i] = <<hex[i][1], "lower">>
    BY <1>4
  <2> HIDE DEF hex, lower
  <2> QED
    BY <2>3, <2>4, <2>5
<1>6. hex \in [1..2 * Len(msg) -> D] /\ lower \in [1..2 * Len(msg) -> D]
  <2>1. hex = [i \in 1..2 * Len(msg) |-> hex[i]] /\ lower = [i \in 1..2 * Len(msg) |-> lower[i]]
    BY <1>4 DEF SignHex
  <2> HIDE DEF hex, lower, D
  <2> QED
    BY <2>1, <1>5
<1>7. /\ hex \in Seq(D) /\ lower \in Seq(D)
      /\ Len(hex) = Len(SignHex(msg)) /\ Len(lower) = Len(SignHex(msg))
      /\ DOMAIN hex = 1..2 * Len(msg) /\ DOMAIN lower = 1..2 * Len(msg)
  <2> DEFINE n == 2 * Len(msg)
  <2>1. n \in Nat
    BY <1>4
  <2> HIDE DEF n
  <2>2. hex \in [1..n -> D] /\ lower \in [1..n -> D]
    BY <1>6 DEF n
  <2>3. SignHex(msg) = hex
    OBVIOUS
  <2> HIDE DEF hex, lower, D
  <2>4. /\ hex \in Seq(D) /\ lower \in Seq(D) /\ Len(hex) = n /\ Len(lower) = n
        /\ DOMAIN hex = 1..n /\ DOMAIN lower = 1..n
    BY <2>1, <2>2
  <2> QED
    BY <2>3, <2>4 DEF n
<1>8. VerifyHex(hex) = msg
  BY <1>3, <1>7, HexReads
<1>9. VerifyHex(lower) = msg
  <2>1. \A i \in DOMAIN lower : lower[i][1] = SignHex(msg)[i][1]
    BY <1>5, <1>7
  <2> HIDE DEF lower
  <2> QED
    BY <2>1, <1>3, <1>7, HexReads
<1> QED
  BY <1>8, <1>9 DEF SignatureReads, msg

(* The inputs of the key texts. *)
LEMMA KeyCase ==
  ASSUME KnownInput
  PROVE  KeyLoads
<1> SUFFICES ASSUME Is("key") PROVE KeyLoads
  BY DEF KeyLoads
<1>1. input.text \in BoundedSeq(Piece, 4)
  <2>1. input.text \in Text
    BY SMT DEF KnownInput, Input, None, Is
  <2> QED
    BY <2>1, Zenon DEF Text, Piece
<1>2. input.text \in Seq(Piece)
  BY <1>1, Bounded
<1> QED
  BY <1>2, KeysLoad

(* The inputs of AES. *)
LEMMA AesCase ==
  ASSUME KnownInput
  PROVE  AesOpensWhole
<1> SUFFICES ASSUME Is("aes") PROVE AesOpensWhole
  BY DEF AesOpensWhole
<1>1. input.msg \in Message
  BY SMT DEF KnownInput, Input, None, Is
<1>2. input.msg \in Seq(Nat)
  BY <1>1, MessageIs
<1> QED
  BY <1>2, AesOpens DEF AesOpensWhole

(* On every input of the run the crypto objects read back what they made.  *)
THEOREM ReadsBack == Spec => []CryptoReadsBack
<1>1. KnownInput => CryptoReadsBack
  BY RsaCase, SignCase, KeyCase, AesCase DEF CryptoReadsBack
<1> QED
  BY <1>1, InputIsKnown, PTL

(* On every input of the run uncompress gives the whole or nothing.        *)
THEOREM UncompressesWhole == Spec => []UncompressIsWhole
<1>1. ASSUME KnownInput PROVE UncompressIsWhole
  <2>1. input.tool = "zlib" => input.length \in {1, 20, 1000, 40000, 1000000} /\ input.more \in -1..1
    BY <1>1, SMT DEF KnownInput, Input, None
  <2>2. input.tool = "zlib" => input.length \in Nat \ {0} /\ input.more \in Int
    BY <2>1, SMT
  <2> QED
    BY <2>2, ZlibWhole
<1>2. KnownInput => UncompressIsWhole
  BY <1>1
<1> QED
  BY <1>2, InputIsKnown, PTL

-----------------------------------------------------------------------------
(* Values computed one after the other. *)

(* F starts with v and goes on by the steps 1 to m.                        *)
Computed(F, V, v, m, step) ==
  F \in [0..m -> V] /\ F[0] = v /\ \A i \in 1..m : F[i] = step[<<i, F[i-1]>>]

(* A recursion over 1..m has a solution.                                   *)
LEMMA Recursion ==
  ASSUME NEW V, NEW v \in V, NEW m \in Nat, NEW step \in [(1..m) \X V -> V]
  PROVE  \E F : Computed(F, V, v, m, step)
<1> USE DEF Computed
<1> DEFINE Solves(F, k) == Computed(F, V, v, k, step)
           Bad == {k \in 0..m : ~ \E F : Solves(F, k)}
<1>1. SUFFICES ASSUME Bad # {} PROVE FALSE
  <2>1. m \in 0..m
    OBVIOUS
  <2>2. ASSUME Bad = {} PROVE \E F : Solves(F, m)
    <3> HIDE DEF Solves
    <3> QED
      BY <2>1, <2>2
  <2>3. ASSUME NEW F, Solves(F, m)
        PROVE  Computed(F, V, v, m, step)
    BY <2>3
  <2> HIDE DEF Solves, Bad
  <2> QED
    BY <2>2, <2>3
<1>2. Bad \in SUBSET Nat
  <2>1. Bad \subseteq 0..m
    BY Zenon
  <2> HIDE DEF Bad
  <2> QED
    BY <2>1
<1>3. PICK k \in Bad : \A y \in Bad : k <= y
  <2> HIDE DEF Bad
  <2> QED
    BY <1>1, <1>2, LeastNat
<1>4. k \in 0..m /\ ~ \E F : Solves(F, k)
  BY <1>3
<1>5. k # 0
  <2>1. Solves([i \in 0..0 |-> v], 0)
    OBVIOUS
  <2> QED
    BY <2>1, <1>4
<1>6. k - 1 \in 0..m /\ k - 1 \notin Bad
  <2> HIDE DEF Bad
  <2> QED
    BY <1>3, <1>4, <1>5
<1>7. PICK G : Solves(G, k - 1)
  BY <1>6
<1> DEFINE F == [i \in 0..k |-> IF i < k THEN G[i] ELSE step[<<k, G[k-1]>>]]
<1>8. G[k-1] \in V /\ step[<<k, G[k-1]>>] \in V
  BY <1>4, <1>5, <1>7
<1>9. F \in [0..k -> V] /\ F[0] = v
  BY <1>4, <1>5, <1>7, <1>8
<1>10. ASSUME NEW i \in 1..k
       PROVE  F[i] = step[<<i, F[i-1]>>]
  <2>1. F[i-1] = G[i-1]
    BY <1>4
  <2>2. i < k => F[i] = G[i] /\ G[i] = step[<<i, G[i-1]>>]
    BY <1>4, <1>7
  <2>3. i = k => F[i] = step[<<k, G[k-1]>>]
    BY <1>4
  <2> HIDE DEF F
  <2> QED
    BY <2>1, <2>2, <2>3, <1>4
<1> QED
  BY <1>4, <1>9, <1>10

-----------------------------------------------------------------------------
(* The hardware address. *)

Octet == 0..255

(* The bytes of one address.                                               *)
Address(B) == [B -> Octet]

SumStep(list, chosen, b, i, before) ==
  IF i \in chosen THEN (before + list[i][b]) % 256 ELSE before

(* F holds the byte after each address.                                    *)
SumBy(F, list, chosen, b) ==
  /\ F \in [0..Len(list) -> Octet]
  /\ F[0] = 0
  /\ \A i \in 1..Len(list) : F[i] = SumStep(list, chosen, b, i, F[i-1])
  /\ Sum(list, chosen, b) = F[Len(list)]

(* The recursion of Sum has one solution.                                  *)
LEMMA SumSteps ==
  ASSUME NEW B, NEW list \in Seq(Address(B)), NEW chosen, NEW b \in B
  PROVE  \E F : SumBy(F, list, chosen, b)
<1> DEFINE m == Len(list)
           step == [p \in (1..m) \X Octet |-> SumStep(list, chosen, b, p[1], p[2])]
<1>1. m \in Nat
  OBVIOUS
<1>2. \A i \in 1..m : list[i][b] \in Octet
  BY DEF Address
<1>3. step \in [(1..m) \X Octet -> Octet]
  <2>1. ASSUME NEW i \in 1..m, NEW w \in Octet
        PROVE  SumStep(list, chosen, b, i, w) \in Octet
    <3>1. list[i][b] \in Octet
      BY <1>2
    <3> HIDE DEF m
    <3> DEFINE x == list[i][b]
    <3>2. x \in Octet
      BY <3>1
    <3> HIDE DEF x
    <3>3. (w + x) % 256 \in Octet
      BY <3>2 DEF Octet
    <3> QED
      BY <3>3 DEF SumStep, x
  <2>2. \A p \in (1..m) \X Octet : p[1] \in 1..m /\ p[2] \in Octet
    OBVIOUS
  <2>3. \A p \in (1..m) \X Octet : SumStep(list, chosen, b, p[1], p[2]) \in Octet
    BY <2>1, <2>2
  <2> QED
    BY <2>3, Zenon
<1>4. \A i \in 1..m, w \in Octet : step[<<i, w>>] = SumStep(list, chosen, b, i, w)
  OBVIOUS
<1>5. 0 \in Octet
  BY DEF Octet
<1> HIDE DEF m, step
<1>6. PICK F \in [0..m -> Octet] : F[0] = 0 /\ \A i \in 1..m : F[i] = step[<<i, F[i-1]>>]
  <2>1. \E F : Computed(F, Octet, 0, m, step)
    BY <1>1, <1>3, <1>5, Recursion, Zenon
  <2> QED
    BY <2>1 DEF Computed
<1>7. \A i \in 1..m : F[i] = SumStep(list, chosen, b, i, F[i-1])
  <2> SUFFICES ASSUME NEW i \in 1..m PROVE F[i] = SumStep(list, chosen, b, i, F[i-1])
    OBVIOUS
  <2>1. F[i-1] \in Octet
    BY <1>1
  <2> QED
    BY <2>1, <1>4, <1>6
<1> DEFINE Step(f) == [i \in 0..m |-> IF i = 0 THEN 0
                                      ELSE IF i \in chosen THEN (f[i-1] + list[i][b]) % 256
                                      ELSE f[i-1]]
<1>8. F = Step(F)
  <2>1. \A i \in 0..m : F[i] = IF i = 0 THEN 0 ELSE IF i \in chosen THEN (F[i-1] + list[i][b]) % 256 ELSE F[i-1]
    BY <1>1, <1>6, <1>7 DEF SumStep
  <2> QED
    BY <2>1
<1>9. PICK g : g = CHOOSE f : f = Step(f)
  OBVIOUS
<1>10. g = Step(g)
  <2> HIDE DEF Step
  <2> QED
    BY <1>8, <1>9
<1>11. Sum(list, chosen, b) = g[m]
  BY <1>9 DEF Sum, m
<1>12. ASSUME NEW i \in 0..m PROVE g[i] = F[i]
  <2> DEFINE Bad == {j \in 0..m : g[j] # F[j]}
  <2>1. SUFFICES ASSUME Bad # {} PROVE FALSE
    OBVIOUS
  <2>2. Bad \in SUBSET Nat
    OBVIOUS
  <2>3. PICK x \in Bad : \A y \in Bad : x <= y
    <3> HIDE DEF Bad
    <3> QED
      BY <2>1, <2>2, LeastNat
  <2>4. x \in 0..m /\ g[x] # F[x]
    BY <2>3
  <2>5. x # 0
    BY <1>8, <1>10
  <2>6. x - 1 \in 0..m /\ x - 1 \notin Bad
    <3> HIDE DEF Bad
    <3> QED
      BY <1>1, <2>3, <2>4, <2>5
  <2>7. g[x-1] = F[x-1]
    BY <2>6
  <2> QED
    BY <2>4, <2>5, <2>7, <1>8, <1>10
<1>13. g[m] = F[m]
  BY <1>1, <1>12
<1> QED
  BY <1>6, <1>7, <1>11, <1>13 DEF m, SumBy

(* A sum is a byte again. *)
LEMMA SumIsOctet ==
  ASSUME NEW B, NEW list \in Seq(Address(B)), NEW chosen, NEW b \in B
  PROVE  Sum(list, chosen, b) \in Octet
<1>1. PICK F : SumBy(F, list, chosen, b)
  BY SumSteps, Zenon
<1>2. Len(list) \in 0..Len(list)
  OBVIOUS
<1> QED
  BY <1>1, <1>2 DEF SumBy
(* Of no addresses the sum is 0. *)
LEMMA SumOfNone ==
  ASSUME NEW B, NEW list \in Seq(Address(B)), NEW b \in B
  PROVE  Sum(list, {}, b) = 0
<1> DEFINE m == Len(list)
<1>1. PICK F : SumBy(F, list, {}, b)
  BY SumSteps, Zenon
<1>2. m \in Nat
  OBVIOUS
<1> USE DEF SumBy
<1> HIDE DEF m
<1>3. \A i \in 1..m : F[i] = F[i-1]
  BY <1>1 DEF SumStep, m
<1> DEFINE Bad == {j \in 0..m : F[j] # 0}
<1>4. Bad = {}
  <2>1. SUFFICES ASSUME Bad # {} PROVE FALSE
    OBVIOUS
  <2>2. Bad \in SUBSET Nat
    BY <1>2
  <2>3. PICK x \in Bad : \A y \in Bad : x <= y
    <3> HIDE DEF Bad
    <3> QED
      BY <2>1, <2>2, LeastNat
  <2>4. x \in 0..m /\ F[x] # 0
    BY <2>3
  <2>5. x # 0
    BY <1>1, <2>4
  <2>6. x - 1 \in 0..m /\ x - 1 \notin Bad
    <3> HIDE DEF Bad
    <3> QED
      BY <1>2, <2>3, <2>4, <2>5
  <2> QED
    BY <1>2, <1>3, <2>4, <2>5, <2>6
<1> QED
  BY <1>1, <1>2, <1>4 DEF m

(* Two bytes can be added modulo 256 in either order. *)
LEMMA ModuloSum ==
  ASSUME NEW g \in Octet, NEW x \in Octet, NEW y \in Octet
  PROVE  /\ (((g + x) % 256) + y) % 256 = (((g + y) % 256) + x) % 256
         /\ (g + x) % 256 \in Octet
BY DEF Octet

(* One of the addresses can be added last, whichever it is. *)
LEMMA SumTakesOut ==
  ASSUME NEW B, NEW list \in Seq(Address(B)), NEW chosen, NEW b \in B,
         NEW k \in chosen, k \in DOMAIN list
  PROVE  Sum(list, chosen, b) = (Sum(list, chosen \ {k}, b) + list[k][b]) % 256
<1> DEFINE m == Len(list)
           rest == chosen \ {k}
           x == list[k][b]
           Later(i, sum) == IF i < k THEN sum ELSE (sum + x) % 256
<1>1. PICK F : SumBy(F, list, chosen, b)
  BY SumSteps, Zenon
<1>2. PICK G : SumBy(G, list, rest, b)
  BY SumSteps, Zenon
<1> USE DEF SumBy
<1>3. m \in Nat /\ k \in 1..m /\ \A i \in 1..m : list[i][b] \in Octet
  BY DEF Address
<1>4. x \in Octet
  <2> HIDE DEF m
  <2> QED
    BY <1>3
<1>5. ASSUME NEW i \in 1..m, F[i-1] = Later(i-1, G[i-1])
      PROVE  F[i] = Later(i, G[i])
  <2> DEFINE y == list[i][b]
             g == G[i-1]
             f == F[i-1]
  <2>1. y \in Octet /\ g \in Octet /\ i \in Nat /\ k \in Nat
    <3>1. i - 1 \in 0..m
      BY <1>3
    <3> QED
      BY <3>1, <1>2, <1>3
  <2>2. F[i] = IF i \in chosen THEN (f + y) % 256 ELSE f
    BY <1>1 DEF SumStep
  <2>3. G[i] = IF i \in chosen /\ i # k THEN (g + y) % 256 ELSE g
    BY <1>2 DEF SumStep
  <2>4. i = k => y = x
    OBVIOUS
  <2>5. f = IF i - 1 < k THEN g ELSE (g + x) % 256
    BY <1>5
  <2> HIDE DEF y, g, f, x, m
  <2>6. (((g + x) % 256) + y) % 256 = (((g + y) % 256) + x) % 256
    BY <2>1, <1>4, ModuloSum
  <2>7. CASE i < k
    BY <2>1, <2>2, <2>3, <2>5, <2>7
  <2>8. CASE i = k
    BY <2>1, <2>2, <2>3, <2>4, <2>5, <2>8
  <2>9. CASE i > k
    <3>1. f = (g + x) % 256 /\ i # k /\ ~(i < k)
      BY <2>1, <2>5, <2>9
    <3> QED
      BY <2>2, <2>3, <2>6, <3>1
  <2> QED
    BY <2>1, <2>7, <2>8, <2>9
<1> HIDE DEF x, m
<1> DEFINE Bad == {j \in 0..m : F[j] # Later(j, G[j])}
<1>6. Bad = {}
  <2>1. SUFFICES ASSUME Bad # {} PROVE FALSE
    OBVIOUS
  <2> HIDE DEF Later
  <2>2. Bad \in SUBSET Nat
    BY <1>3
  <2>3. PICK z \in Bad : \A y \in Bad : z <= y
    <3> HIDE DEF Bad
    <3> QED
      BY <2>1, <2>2, LeastNat
  <2>4. z \in 0..m /\ F[z] # Later(z, G[z])
    BY <2>3
  <2>5. z # 0
    BY <1>1, <1>2, <1>3, <2>4 DEF Later
  <2>6. z - 1 \in 0..m /\ z - 1 \notin Bad
    <3> HIDE DEF Bad
    <3> QED
      BY <1>3, <2>3, <2>4, <2>5
  <2>7. F[z-1] = Later(z-1, G[z-1])
    BY <2>6
  <2>8. z \in 1..m
    BY <1>3, <2>4, <2>5
  <2> QED
    BY <1>5, <2>4, <2>7, <2>8
<1>7. F[m] = Later(m, G[m])
  BY <1>3, <1>6
<1>8. ~(m < k)
  BY <1>3
<1> QED
  BY <1>1, <1>2, <1>7, <1>8 DEF x, m

(* The same addresses have the same sum, in whatever order they are.       *)
LEMMA SameSum ==
  ASSUME NEW B, NEW b \in B,
         NEW list \in Seq(Address(B)), NEW other \in Seq(Address(B)),
         NEW I, I \subseteq DOMAIN list, NEW J, J \subseteq DOMAIN other,
         Reordered(list, I, other, J)
  PROVE  Sum(list, I, b) = Sum(other, J, b)
<1> DEFINE Bad == {n \in Nat : \E S, T : /\ S \subseteq I /\ T \subseteq DOMAIN other
                                       /\ IsFiniteSet(S) /\ Cardinality(S) = n
                                       /\ Reordered(list, S, other, T)
                                       /\ Sum(list, S, b) # Sum(other, T, b)}
<1>1. IsFiniteSet(I) /\ Cardinality(I) \in Nat
  <2>1. IsFiniteSet(1..Len(list)) /\ I \subseteq 1..Len(list)
    BY FS_Interval
  <2>2. IsFiniteSet(I)
    BY <2>1, FS_Subset
  <2> QED
    BY <2>2, FS_CardinalityType
<1>2. SUFFICES ASSUME Bad # {} PROVE FALSE
  <2>1. ASSUME Sum(list, I, b) # Sum(other, J, b) PROVE Cardinality(I) \in Bad
    BY <1>1, <2>1, Zenon
  <2> QED
    BY <2>1
<1>3. PICK n \in Bad : \A y \in Bad : n <= y
  <2>1. Bad \in SUBSET Nat
    BY Zenon
  <2> HIDE DEF Bad
  <2> QED
    BY <1>2, <2>1, LeastNat
<1>4. PICK S, T : /\ S \subseteq I /\ T \subseteq DOMAIN other
                  /\ IsFiniteSet(S) /\ Cardinality(S) = n
                  /\ Reordered(list, S, other, T)
                  /\ Sum(list, S, b) # Sum(other, T, b)
  BY <1>3, Zenon
<1>5. PICK f : /\ f \in [S -> T]
               /\ \A x, y \in S : f[x] = f[y] => x = y
               /\ \A t \in T : \E s \in S : f[s] = t
               /\ \A i \in S : other[f[i]] = list[i]
  <2>1. PICK f \in Bijection(S, T) : \A i \in S : other[f[i]] = list[i]
    BY <1>4, Zenon DEF Reordered
  <2>2. f \in [S -> T] /\ IsInjective(f) /\ \A t \in T : \E s \in S : f[s] = t
    BY Zenon DEF Bijection, Injection, Surjection
  <2>3. \A x, y \in S : f[x] = f[y] => x = y
    BY <2>2 DEF IsInjective
  <2> QED
    BY <2>1, <2>2, <2>3
<1>6. CASE S = {}
  <2>1. T = {}
    BY <1>5, <1>6
  <2> QED
    BY <1>4, <1>6, <2>1, SumOfNone
<1>7. CASE S # {}
  <2>1. PICK k \in S : TRUE
    BY <1>7
  <2> DEFINE S2 == S \ {k}
             T2 == T \ {f[k]}
             g == [s \in S2 |-> f[s]]
  <2>2. Reordered(list, S2, other, T2)
    <3>1. g \in [S2 -> T2]
      BY <1>5, <2>1
    <3>2. \A x, y \in S2 : g[x] = g[y] => x = y
      BY <1>5
    <3>3. \A t \in T2 : \E s \in S2 : g[s] = t
      BY <1>5
    <3>4. \A i \in S2 : other[g[i]] = list[i]
      BY <1>5
    <3>5. DOMAIN g = S2
      OBVIOUS
    <3> HIDE DEF g, S2, T2
    <3> QED
      BY <3>1, <3>2, <3>3, <3>4, <3>5, Zenon DEF Reordered, Bijection, Injection, Surjection, IsInjective
  <2>3. IsFiniteSet(S2) /\ Cardinality(S2) = n - 1
    BY <1>4, <2>1, FS_RemoveElement
  <2>4. S2 \subseteq I /\ T2 \subseteq DOMAIN other
    BY <1>4
  <2>5. n \in Nat /\ n # 0
    <3>1. n \in Nat
      BY <1>3
    <3> QED
      BY <3>1, <1>4, <1>7, FS_EmptySet
  <2>6. n - 1 \in Nat /\ n - 1 \notin Bad
    <3> HIDE DEF Bad
    <3> QED
      BY <1>3, <2>5
  <2>7. Sum(list, S2, b) = Sum(other, T2, b)
    <3> HIDE DEF S2, T2
    <3> QED
      BY <2>2, <2>3, <2>4, <2>6
  <2>8. Sum(list, S, b) = (Sum(list, S2, b) + list[k][b]) % 256
    BY <1>4, <2>1, SumTakesOut
  <2>9. Sum(other, T, b) = (Sum(other, T2, b) + other[f[k]][b]) % 256
    <3>1. f[k] \in T /\ f[k] \in DOMAIN other
      BY <1>4, <1>5, <2>1
    <3> QED
      BY <3>1, SumTakesOut
  <2> QED
    BY <1>4, <1>5, <2>1, <2>7, <2>8, <2>9
<1> QED
  BY <1>6, <1>7

(* The addresses GetMacAddr works on. *)
Physical(list) == {i \in DOMAIN list : ~IsVirtual(list[i])}

Chosen(list) == IF Physical(list) # {} THEN Physical(list) ELSE DOMAIN list

(* The address is the sum of the chosen ones, byte by byte. *)
LEMMA MacAddrIs ==
  ASSUME NEW B, NEW list \in Seq(Address(B)), Len(list) <= IfLimit
  PROVE  GetMacAddr(list) =
           IF Chosen(list) = {} THEN << >> ELSE [b \in B |-> Sum(list, Chosen(list), b)]
<1> DEFINE ifr == SubSeq(list, 1, IF Len(list) < IfLimit THEN Len(list) ELSE IfLimit)
           chosen == Chosen(list)
<1>1. ifr = list
  <2>1. (IF Len(list) < IfLimit THEN Len(list) ELSE IfLimit) = Len(list)
    BY LimitAssumption
  <2> QED
    BY <2>1, SubSeqFull
<1>2. {i \in DOMAIN ifr : ~IsVirtual(ifr[i])} = Physical(list)
  BY <1>1 DEF Physical
<1>3. GetMacAddr(list) = genMac(list, chosen)
  <2> HIDE DEF ifr
  <2>1. GetMacAddr(list) =
          genMac(ifr, IF {i \in DOMAIN ifr : ~IsVirtual(ifr[i])} # {}
                      THEN {i \in DOMAIN ifr : ~IsVirtual(ifr[i])} ELSE DOMAIN ifr)
    BY Zenon DEF GetMacAddr, ifr
  <2> QED
    BY <1>1, <1>2, <2>1, Zenon DEF Chosen
<1>4. chosen # {} => DOMAIN list[1] = B
  <2>1. DOMAIN list = 1..Len(list) /\ Len(list) \in Nat
    OBVIOUS
  <2>2. chosen \subseteq DOMAIN list
    BY DEF Physical, Chosen
  <2>3. ASSUME chosen # {} PROVE 1 \in DOMAIN list
    <3> HIDE DEF chosen
    <3>1. PICK i \in chosen : TRUE
      BY <2>3
    <3>2. i \in 1..Len(list)
      BY <2>1, <2>2
    <3> QED
      BY <2>1, <3>2
  <2>4. \A i \in DOMAIN list : DOMAIN list[i] = B
    BY DEF Address
  <2> QED
    BY <2>3, <2>4
<1> HIDE DEF chosen
<1>5. genMac(list, chosen) = IF chosen = {} THEN << >> ELSE [b \in B |-> Sum(list, chosen, b)]
  BY <1>4 DEF genMac
<1> QED
  BY <1>3, <1>5 DEF chosen

(* Two lists of interfaces, of any length up to what the call returns,     *)
(* give the same address when they hold the same addresses in another      *)
(* order, and when they hold the same physical ones, of which there is one *)
(* at least.                                                               *)
THEOREM AddressIsStable ==
  ASSUME NEW B,
         NEW list \in Seq(Address(B)), Len(list) <= IfLimit,
         NEW other \in Seq(Address(B)), Len(other) <= IfLimit,
         \/ Reordered(list, DOMAIN list, other, DOMAIN other)
         \/ Physical(list) # {} /\ Reordered(list, Physical(list), other, Physical(other))
  PROVE  GetMacAddr(other) = GetMacAddr(list)
<1>1. Reordered(list, Chosen(list), other, Chosen(other))
  <2>1. ASSUME NEW I, NEW J, Reordered(list, I, other, J)
        PROVE  I # {} <=> J # {}
    <3>1. PICK f \in Bijection(I, J) : TRUE
      BY <2>1, Zenon DEF Reordered
    <3>2. f \in [I -> J] /\ \A t \in J : \E s \in I : f[s] = t
      BY Zenon DEF Bijection, Injection, Surjection
    <3> QED
      BY <3>2
  <2>2. CASE Physical(list) # {} /\ Reordered(list, Physical(list), other, Physical(other))
    BY <2>1, <2>2, Zenon DEF Chosen
  <2>3. CASE Reordered(list, DOMAIN list, other, DOMAIN other)
    <3>1. PICK f \in Bijection(DOMAIN list, DOMAIN other) :
                 \A i \in DOMAIN list : other[f[i]] = list[i]
      BY <2>3, Zenon DEF Reordered
    <3>2. /\ f \in [DOMAIN list -> DOMAIN other] /\ IsInjective(f)
          /\ \A t \in DOMAIN other : \E s \in DOMAIN list : f[s] = t
      BY Zenon DEF Bijection, Injection, Surjection
    <3>3. \A x, y \in DOMAIN list : f[x] = f[y] => x = y
      BY <3>2, Zenon DEF IsInjective
    <3> DEFINE g == [i \in Physical(list) |-> f[i]]
    <3>4. /\ g \in [Physical(list) -> Physical(other)]
          /\ \A x, y \in Physical(list) : g[x] = g[y] => x = y
          /\ \A t \in Physical(other) : \E s \in Physical(list) : g[s] = t
          /\ \A i \in Physical(list) : other[g[i]] = list[i]
      BY <3>1, <3>2, <3>3 DEF Physical
    <3>5. DOMAIN g = Physical(list)
      OBVIOUS
    <3> HIDE DEF g
    <3>6. Reordered(list, Physical(list), other, Physical(other))
      BY <3>4, <3>5, Zenon DEF Reordered, Bijection, Injection, Surjection, IsInjective
    <3> QED
      BY <2>1, <2>3, <3>6, Zenon DEF Chosen
  <2> QED
    BY <2>2, <2>3
<1>2. Chosen(list) \subseteq DOMAIN list /\ Chosen(other) \subseteq DOMAIN other
  BY DEF Physical, Chosen
<1>3. Chosen(list) # {} <=> Chosen(other) # {}
  <2>1. PICK f \in Bijection(Chosen(list), Chosen(other)) : TRUE
    BY <1>1, Zenon DEF Reordered
  <2>2. /\ f \in [Chosen(list) -> Chosen(other)]
        /\ \A t \in Chosen(other) : \E s \in Chosen(list) : f[s] = t
    BY Zenon DEF Bijection, Injection, Surjection
  <2> QED
    BY <2>2
<1>4. \A b \in B : Sum(list, Chosen(list), b) = Sum(other, Chosen(other), b)
  BY <1>1, <1>2, SameSum
<1>5. /\ GetMacAddr(list) = IF Chosen(list) = {} THEN << >>
                            ELSE [b \in B |-> Sum(list, Chosen(list), b)]
      /\ GetMacAddr(other) = IF Chosen(other) = {} THEN << >>
                             ELSE [b \in B |-> Sum(other, Chosen(other), b)]
  BY MacAddrIs, Zenon
<1> QED
  BY <1>3, <1>4, <1>5

(* The inputs of the hardware address. *)
LEMMA MacCase ==
  ASSUME KnownInput
  PROVE  MacIsStable
<1> DEFINE list == input.interfaces
           physical(l) == {i \in DOMAIN l : ~IsVirtual(l[i])}
           n == LeastOf(MaxInterfaces, IfLimit)
<1>1. SUFFICES ASSUME Is("mac"), Len(list) <= IfLimit, NEW other \in BoundedSeq(Mac, n),
                      \/ Reordered(list, DOMAIN list, other, DOMAIN other)
                      \/ physical(list) # {} /\ Reordered(list, physical(list), other, physical(other))
               PROVE  GetMacAddr(other) = GetMacAddr(list)
  BY DEF MacIsStable
<1>2. list \in BoundedSeq(Mac, MaxInterfaces)
  BY <1>1, SMT DEF KnownInput, Input, None, Is
<1>3. Mac \subseteq Address(1..2)
  <2>1. ASSUME NEW p \in {0, 5, 200}, NEW b \in {1, 255}
        PROVE  <<p, b>> \in Address(1..2)
    BY DEF Address, Octet
  <2>2. \A m \in Mac : \E p \in {0, 5, 200}, b \in {1, 255} : m = <<p, b>>
    BY SMT DEF Mac
  <2> QED
    BY <2>1, <2>2
<1>4. n \in Nat /\ n <= IfLimit
  BY BoundAssumption, LimitAssumption DEF LeastOf
<1>5. list \in Seq(Address(1..2))
  <2>1. list \in Seq(Mac)
    BY <1>2, BoundAssumption, Bounded
  <2> QED
    BY <2>1, <1>3, SeqMonotonic
<1>6. other \in Seq(Address(1..2)) /\ Len(other) <= IfLimit
  <2>1. other \in Seq(Mac)
    BY <1>4, Bounded
  <2>2. Len(other) <= n
    <3> HIDE DEF n
    <3> QED
      BY <1>4 DEF BoundedSeq, SeqOf
  <2>3. other \in Seq(Address(1..2))
    BY <2>1, <1>3, SeqMonotonic
  <2>4. Len(other) \in Nat
    BY <2>1
  <2> QED
    BY <2>2, <2>3, <2>4, <1>4, LimitAssumption
<1>7. physical(list) = Physical(list) /\ physical(other) = Physical(other)
  BY DEF Physical
<1> QED
  BY <1>1, <1>5, <1>6, <1>7, AddressIsStable, Zenon

(* On every input of the run the address does not depend on the order of   *)
(* the interfaces or on the virtual ones.                                  *)
THEOREM MacStable == Spec => []MacIsStable
<1>1. KnownInput => MacIsStable
  BY MacCase
<1> QED
  BY <1>1, InputIsKnown, PTL
-----------------------------------------------------------------------------
(* The query of a URL. *)

Pieces(S) == Seq(Seq(S)) \ {<< >>}

(* What split does with one character.                                     *)
SplitStep(before, x, separator) ==
  IF x = separator THEN Append(before, << >>)
  ELSE [before EXCEPT ![Len(before)] = Append(@, x)]

(* A step leaves one piece at least. *)
LEMMA SplitStepType ==
  ASSUME NEW S, NEW before \in Pieces(S), NEW x \in S, NEW separator
  PROVE  SplitStep(before, x, separator) \in Pieces(S)
<1>1. before \in Seq(Seq(S)) /\ Len(before) \in Nat \ {0}
  BY DEF Pieces
<1>2. << >> \in Seq(S)
  OBVIOUS
<1>3. Append(before, << >>) \in Seq(Seq(S)) /\ Append(before, << >>) # << >>
  BY <1>1, <1>2
<1>4. before[Len(before)] \in Seq(S)
  BY <1>1
<1>5. Append(before[Len(before)], x) \in Seq(S)
  BY <1>4
<1> DEFINE last == Append(before[Len(before)], x)
           after == [before EXCEPT ![Len(before)] = last]
<1>6. after \in Seq(Seq(S)) /\ after # << >>
  <2> DEFINE n == Len(before)
             T == Seq(S)
  <2>1. n \in Nat \ {0} /\ before \in [1..n -> T] /\ last \in T
    BY <1>1, <1>5
  <2> HIDE DEF n, T, last
  <2>2. [before EXCEPT ![n] = last] \in [1..n -> T]
    BY <2>1
  <2>3. [before EXCEPT ![n] = last] \in Seq(T) /\ Len([before EXCEPT ![n] = last]) = n
    BY <2>1, <2>2
  <2>4. [before EXCEPT ![n] = last] # << >>
    BY <2>1, <2>3
  <2> QED
    BY <2>3, <2>4 DEF n, T
<1> QED
  BY <1>3, <1>6 DEF SplitStep, Pieces

(* F holds the pieces after each character.                                *)
SplitBy(F, S, s, separator) ==
  /\ F \in [0..Len(s) -> Pieces(S)]
  /\ F[0] = << << >> >>
  /\ \A i \in 1..Len(s) : F[i] = SplitStep(F[i-1], s[i], separator)
  /\ split(s, separator) = F[Len(s)]

(* The recursion of split has one solution.                                *)
LEMMA SplitSteps ==
  ASSUME NEW S, NEW s \in Seq(S), NEW separator
  PROVE  \E F : SplitBy(F, S, s, separator)
<1> DEFINE m == Len(s)
           V == Pieces(S)
           v == << << >> >>
           step == [p \in (1..m) \X V |-> SplitStep(p[2], s[p[1]], separator)]
<1>1. m \in Nat /\ \A i \in 1..m : s[i] \in S
  OBVIOUS
<1>2. v \in V
  <2>1. << >> \in Seq(S)
    OBVIOUS
  <2> QED
    BY <2>1 DEF Pieces
<1> HIDE DEF m, V, v
<1>3. step \in [(1..m) \X V -> V]
  <2>1. \A p \in (1..m) \X V : p[1] \in 1..m /\ p[2] \in V
    OBVIOUS
  <2>2. ASSUME NEW p \in (1..m) \X V
        PROVE  SplitStep(p[2], s[p[1]], separator) \in V
    BY <1>1, <2>1, SplitStepType, Zenon DEF V
  <2> QED
    BY <2>2, Zenon
<1>4. \A i \in 1..m, w \in V : step[<<i, w>>] = SplitStep(w, s[i], separator)
  OBVIOUS
<1> HIDE DEF step
<1>5. PICK F : Computed(F, V, v, m, step)
  BY <1>1, <1>2, <1>3, Recursion, Zenon
<1>6. F \in [0..m -> V] /\ F[0] = v /\ \A i \in 1..m : F[i] = step[<<i, F[i-1]>>]
  BY <1>5, Zenon DEF Computed
<1>7. ASSUME NEW i \in 1..m PROVE F[i] = SplitStep(F[i-1], s[i], separator)
  <2>1. F[i-1] \in V
    BY <1>1, <1>6
  <2> QED
    BY <2>1, <1>4, <1>6
<1> DEFINE Step(f) == [i \in 0..m |-> IF i = 0 THEN << << >> >>
                                      ELSE IF s[i] = separator THEN Append(f[i-1], << >>)
                                      ELSE [f[i-1] EXCEPT ![Len(f[i-1])] = Append(@, s[i])]]
<1>8. ASSUME NEW f
      PROVE  Step(f) = [i \in 0..m |-> IF i = 0 THEN v ELSE SplitStep(f[i-1], s[i], separator)]
  BY Zenon DEF SplitStep, v
<1>9. F = Step(F)
  <2>1. \A i \in 0..m : F[i] = IF i = 0 THEN v ELSE SplitStep(F[i-1], s[i], separator)
    BY <1>1, <1>6, <1>7
  <2>2. F = [i \in 0..m |-> F[i]]
    BY <1>6
  <2>3. F = [i \in 0..m |-> IF i = 0 THEN v ELSE SplitStep(F[i-1], s[i], separator)]
    BY <2>1, <2>2
  <2> HIDE DEF Step
  <2> QED
    BY <2>3, <1>8
<1>10. PICK g : g = CHOOSE f : f = Step(f)
  OBVIOUS
<1>11. g = Step(g)
  <2> HIDE DEF Step
  <2> QED
    BY <1>9, <1>10
<1>12. split(s, separator) = g[m]
  BY <1>10 DEF split, m
<1>13. \A i \in 0..m : g[i] = IF i = 0 THEN v ELSE SplitStep(g[i-1], s[i], separator)
  <2>1. g = [i \in 0..m |-> IF i = 0 THEN v ELSE SplitStep(g[i-1], s[i], separator)]
    <3> HIDE DEF Step
    <3> QED
      BY <1>8, <1>11
  <2> QED
    BY <2>1
<1> HIDE DEF Step
<1>14. ASSUME NEW i \in 0..m PROVE g[i] = F[i]
  <2> DEFINE Bad == {j \in 0..m : g[j] # F[j]}
  <2>1. SUFFICES ASSUME Bad # {} PROVE FALSE
    OBVIOUS
  <2>2. Bad \in SUBSET Nat
    BY <1>1
  <2>3. PICK x \in Bad : \A y \in Bad : x <= y
    <3> HIDE DEF Bad
    <3> QED
      BY <2>1, <2>2, LeastNat
  <2>4. x \in 0..m /\ g[x] # F[x]
    BY <2>3
  <2>5. x # 0
    BY <1>6, <1>13, <2>4
  <2>6. x - 1 \in 0..m /\ x - 1 \notin Bad
    <3> HIDE DEF Bad
    <3> QED
      BY <1>1, <2>3, <2>4, <2>5
  <2>7. g[x-1] = F[x-1] /\ x \in 1..m
    BY <1>1, <2>4, <2>5, <2>6
  <2> QED
    BY <2>4, <2>5, <2>7, <1>7, <1>13
<1>15. g[m] = F[m]
  BY <1>1, <1>14
<1> QED
  BY <1>6, <1>7, <1>12, <1>15 DEF SplitBy, m, V, v

(* Nothing is one empty piece.                                             *)
LEMMA SplitNothing ==
  ASSUME NEW separator
  PROVE  split(<< >>, separator) = << << >> >>
<1>1. PICK F : SplitBy(F, {}, << >>, separator)
  <2>1. << >> \in Seq({})
    OBVIOUS
  <2> QED
    BY <2>1, SplitSteps, Zenon
<1> QED
  BY <1>1 DEF SplitBy

(* Text is split into one piece at least. *)
LEMMA SplitType ==
  ASSUME NEW S, NEW s \in Seq(S), NEW separator
  PROVE  split(s, separator) \in Pieces(S)
<1>1. PICK F : SplitBy(F, S, s, separator)
  BY SplitSteps, Zenon
<1>2. Len(s) \in 0..Len(s)
  OBVIOUS
<1> QED
  BY <1>1, <1>2 DEF SplitBy

(* A text with one more character is split by one more step.               *)
LEMMA SplitNext ==
  ASSUME NEW S, NEW s \in Seq(S), NEW x \in S, NEW separator
  PROVE  split(Append(s, x), separator) = SplitStep(split(s, separator), x, separator)
<1> DEFINE t == Append(s, x)
           m == Len(s)
<1>1. t \in Seq(S) /\ m \in Nat /\ Len(t) = m + 1 /\ t[m+1] = x /\ \A i \in 1..m : t[i] = s[i]
  OBVIOUS
<1> HIDE DEF t
<1>2. PICK F : SplitBy(F, S, s, separator)
  BY SplitSteps, Zenon
<1>3. PICK G : SplitBy(G, S, t, separator)
  BY <1>1, SplitSteps, Zenon
<1>4. /\ F[0] = << << >> >> /\ split(s, separator) = F[m]
      /\ \A i \in 1..m : F[i] = SplitStep(F[i-1], s[i], separator)
  BY <1>2, Zenon DEF SplitBy
<1>5. /\ G[0] = << << >> >> /\ split(t, separator) = G[m+1]
      /\ \A i \in 1..m+1 : G[i] = SplitStep(G[i-1], t[i], separator)
  BY <1>1, <1>3, Zenon DEF SplitBy
<1> HIDE DEF m
<1> DEFINE Bad == {i \in 0..m : G[i] # F[i]}
<1>6. Bad = {}
  <2>1. SUFFICES ASSUME Bad # {} PROVE FALSE
    OBVIOUS
  <2>2. Bad \in SUBSET Nat
    BY <1>1
  <2>3. PICK z \in Bad : \A y \in Bad : z <= y
    <3> HIDE DEF Bad
    <3> QED
      BY <2>1, <2>2, LeastNat
  <2>4. z \in 0..m /\ G[z] # F[z]
    BY <2>3
  <2>5. z # 0
    BY <1>4, <1>5, <2>4
  <2>6. z - 1 \in 0..m /\ z - 1 \notin Bad
    <3> HIDE DEF Bad
    <3> QED
      BY <1>1, <2>3, <2>4, <2>5
  <2>7. G[z-1] = F[z-1] /\ z \in 1..m /\ z \in 1..m+1
    BY <1>1, <2>4, <2>5, <2>6
  <2> QED
    BY <2>4, <2>7, <1>1, <1>4, <1>5
<1>7. G[m] = F[m]
  BY <1>1, <1>6
<1>8. G[m+1] = SplitStep(G[m], x, separator)
  <2>1. m + 1 \in 1..m+1 /\ (m + 1) - 1 = m
    BY <1>1
  <2> QED
    BY <2>1, <1>1, <1>5
<1> QED
  BY <1>4, <1>5, <1>7, <1>8 DEF t
Free(t, separator) == \A i \in DOMAIN t : t[i] # separator

(* The last piece goes on with t.                                          *)
Continued(pieces, t) == [pieces EXCEPT ![Len(pieces)] = @ \o t]

(* Two pieces in a row. *)
LEMMA AppendOne ==
  ASSUME NEW T, NEW a \in T, NEW b \in T
  PROVE  Append(<<a>>, b) = <<a, b>>
<1> DEFINE s == Append(<<a>>, b)
<1>1. s \in Seq(T) /\ Len(s) = 2 /\ s[1] = a /\ s[2] = b
  OBVIOUS
<1> HIDE DEF s
<1>2. s = <<s[1], s[2]>>
  BY <1>1
<1> QED
  BY <1>1, <1>2 DEF s

(* Replacing what was appended is appending something else. *)
LEMMA LastReplaced ==
  ASSUME NEW T, NEW s \in Seq(T), NEW a \in T, NEW b \in T
  PROVE  [Append(s, a) EXCEPT ![Len(s) + 1] = b] = Append(s, b)
<1> DEFINE p == Append(s, a)
           q == Append(s, b)
           n == Len(s) + 1
<1>1. /\ n \in Nat /\ p \in Seq(T) /\ q \in Seq(T) /\ Len(p) = n /\ Len(q) = n
      /\ q[n] = b /\ \A i \in 1..n : i # n => p[i] = q[i]
  OBVIOUS
<1> HIDE DEF p, q, n
<1>2. [p EXCEPT ![n] = b] = q
  <2>1. DOMAIN p = 1..n /\ DOMAIN q = 1..n
    BY <1>1
  <2>2. q = [i \in 1..n |-> q[i]]
    BY <1>1
  <2>3. [p EXCEPT ![n] = b] = [i \in 1..n |-> IF i = n THEN b ELSE p[i]]
    BY <2>1
  <2> QED
    BY <1>1, <2>2, <2>3
<1> QED
  BY <1>2 DEF p, q, n

(* Text without a separator goes into the last piece.                      *)
LEMMA SplitText ==
  ASSUME NEW S, NEW s \in Seq(S), NEW t \in Seq(S), NEW separator, Free(t, separator)
  PROVE  split(s \o t, separator) = Continued(split(s, separator), t)
<1> USE DEF Continued
<1> DEFINE p == split(s, separator)
           L == Len(p)
           With(u) == [p EXCEPT ![L] = p[L] \o u]
           Wrong(u) == u \in Seq(S) /\ Free(u, separator) /\ split(s \o u, separator) # With(u)
           Bad == {n \in Nat : \E u : Len(u) = n /\ Wrong(u)}
<1>1. p \in Seq(Seq(S)) /\ p # << >>
  BY SplitType DEF Pieces
<1>2. L \in Nat \ {0} /\ p[L] \in Seq(S) /\ DOMAIN p = 1..L
  BY <1>1
<1>3. SUFFICES ASSUME Bad # {} PROVE FALSE
  <2>1. ASSUME Wrong(t) PROVE Len(t) \in Bad
    <3>1. Len(t) \in Nat
      OBVIOUS
    <3> HIDE DEF Wrong
    <3> QED
      BY <3>1, <2>1
  <2>2. ASSUME ~Wrong(t) PROVE split(s \o t, separator) = With(t)
    BY <2>2
  <2> HIDE DEF Bad, Wrong
  <2>3. split(s \o t, separator) = With(t)
    BY <1>3, <2>1, <2>2
  <2> QED
    BY <2>3
<1>4. PICK n \in Bad : \A y \in Bad : n <= y
  <2>1. Bad \in SUBSET Nat
    BY Zenon
  <2> HIDE DEF Bad
  <2> QED
    BY <1>3, <2>1, LeastNat
<1>5. PICK u : Len(u) = n /\ Wrong(u)
  BY <1>4
<1>6. u \in Seq(S) /\ Free(u, separator) /\ n \in Nat
  BY <1>4, <1>5
<1> HIDE DEF p, L
<1>7. n # 0
  <2>1. ASSUME n = 0 PROVE FALSE
    <3>1. u = << >>
      BY <2>1, <1>5, <1>6
    <3>2. s \o u = s /\ p[L] \o u = p[L]
      BY <3>1, <1>2
    <3>3. With(u) = p
      <4>1. p \in [1..L -> Seq(S)]
        BY <1>1 DEF L
      <4>2. [p EXCEPT ![L] = p[L]] = p
        BY <4>1
      <4> QED
        BY <3>2, <4>2
    <3> QED
      BY <3>2, <3>3, <1>5 DEF p
  <2> QED
    BY <2>1
<1> DEFINE w == SubSeq(u, 1, n - 1)
           x == u[n]
<1>8. w \in Seq(S) /\ Len(w) = n - 1 /\ x \in S /\ u = Append(w, x) /\ \A i \in 1..n-1 : w[i] = u[i]
  BY <1>5, <1>6, <1>7
<1>9. Free(w, separator) /\ x # separator
  BY <1>5, <1>6, <1>7, <1>8 DEF Free
<1>10. n - 1 \in Nat /\ n - 1 \notin Bad
  <2> HIDE DEF Bad
  <2> QED
    BY <1>4, <1>6, <1>7
<1> HIDE DEF w, x
<1>11. split(s \o w, separator) = With(w)
  <2>1. ~Wrong(w)
    <3> HIDE DEF Wrong
    <3> QED
      BY <1>8, <1>10
  <2> QED
    BY <2>1, <1>8, <1>9
<1>12. s \o u = Append(s \o w, x) /\ s \o w \in Seq(S) /\ p[L] \o u = Append(p[L] \o w, x)
  <2>1. ASSUME NEW y \in Seq(S) PROVE y \o u = Append(y \o w, x)
    BY <1>8
  <2>2. s \o w \in Seq(S)
    BY <1>8
  <2> QED
    BY <2>1, <2>2, <1>2
<1>13. split(s \o u, separator) = SplitStep(With(w), x, separator)
  <2> HIDE DEF With
  <2>1. split(Append(s \o w, x), separator) = SplitStep(split(s \o w, separator), x, separator)
    BY <1>8, <1>12, SplitNext, Zenon
  <2> QED
    BY <2>1, <1>11, <1>12, Zenon
<1>14. SplitStep(With(w), x, separator) = [With(w) EXCEPT ![Len(With(w))] = Append(@, x)]
  BY <1>9, Zenon DEF SplitStep
<1>15. Len(With(w)) = L /\ With(w)[L] = p[L] \o w
  <2> DEFINE r == p[L] \o w
  <2>1. r \in Seq(S)
    BY <1>2, <1>8
  <2> HIDE DEF r
  <2>2. Len([p EXCEPT ![L] = r]) = L /\ [p EXCEPT ![L] = r][L] = r
    BY <1>1, <1>2, <2>1 DEF L
  <2> QED
    BY <2>2 DEF r
<1>16. [With(w) EXCEPT ![L] = Append(p[L] \o w, x)] = With(u)
  <2>1. With(w) = [i \in 1..L |-> IF i = L THEN p[L] \o w ELSE p[i]]
    BY <1>2
  <2>2. With(u) = [i \in 1..L |-> IF i = L THEN p[L] \o u ELSE p[i]]
    BY <1>2
  <2> HIDE DEF With
  <2> QED
    BY <2>1, <2>2, <1>12
<1>17. split(s \o u, separator) = With(u)
  <2> HIDE DEF With
  <2> QED
    BY <1>13, <1>14, <1>15, <1>16
<1> QED
  BY <1>5, <1>17

(* Text without a separator is one piece, and after a separator one piece  *)
(* more.                                                                   *)
LEMMA SplitPiece ==
  ASSUME NEW S, NEW s \in Seq(S), NEW t \in Seq(S), NEW separator \in S, Free(t, separator)
  PROVE  /\ split(t, separator) = <<t>>
         /\ split(Append(s, separator) \o t, separator) = Append(split(s, separator), t)
<1>1. split(t, separator) = <<t>>
  <2> DEFINE e == << >>
  <2>1. e \in Seq(S) /\ e \o t = t
    OBVIOUS
  <2>2. split(e, separator) = <<e>>
    BY SplitNothing
  <2> HIDE DEF e
  <2>3. split(e \o t, separator) = [<<e>> EXCEPT ![Len(<<e>>)] = @ \o t]
    <3>1. split(e \o t, separator) = Continued(split(e, separator), t)
      BY <2>1, SplitText, Zenon
    <3> QED
      BY <2>2, <3>1, Zenon DEF Continued
  <2>4. Len(<<e>>) = 1 /\ [<<e>> EXCEPT ![1] = e \o t] = <<e \o t>>
    OBVIOUS
  <2> QED
    BY <2>1, <2>3, <2>4
<1>2. split(Append(s, separator) \o t, separator) = Append(split(s, separator), t)
  <2> DEFINE p == split(s, separator)
             r == Append(s, separator)
             q == Append(p, << >>)
             L == Len(p)
  <2>1. p \in Seq(Seq(S))
    BY SplitType DEF Pieces
  <2>2. r \in Seq(S)
    OBVIOUS
  <2>3. split(r, separator) = q
    <3>1. split(r, separator) = SplitStep(p, separator, separator)
      BY SplitNext
    <3> QED
      BY <3>1, Zenon DEF SplitStep
  <2>4. L \in Nat /\ Len(q) = L + 1 /\ q[L+1] = << >> /\ << >> \o t = t
    BY <2>1
  <2>5. [q EXCEPT ![L+1] = t] = Append(p, t)
    <3> DEFINE e == << >>
    <3>1. e \in Seq(S) /\ t \in Seq(S)
      OBVIOUS
    <3> HIDE DEF e, p
    <3>2. [Append(p, e) EXCEPT ![Len(p) + 1] = t] = Append(p, t)
      BY <2>1, <3>1, LastReplaced
    <3> QED
      BY <3>2 DEF e
  <2> HIDE DEF p, r, q, L
  <2>6. split(r \o t, separator) = [q EXCEPT ![Len(q)] = q[Len(q)] \o t]
    <3>1. split(r \o t, separator) = Continued(split(r, separator), t)
      BY <2>2, SplitText, Zenon
    <3> QED
      BY <2>3, <3>1, Zenon DEF Continued
  <2> QED
    BY <2>4, <2>5, <2>6 DEF p, r
<1> QED
  BY <1>1, <1>2

(* A key, the separator and a value are split into the two.                *)
LEMMA SplitPair ==
  ASSUME NEW S, NEW s \in Seq(S), NEW t \in Seq(S), NEW separator \in S,
         Free(s, separator), Free(t, separator)
  PROVE  split(Append(s, separator) \o t, separator) = <<s, t>>
<1>1. split(s, separator) = <<s>>
  BY SplitPiece
<1>2. split(Append(s, separator) \o t, separator) = Append(split(s, separator), t)
  BY SplitPiece
<1>3. Append(<<s>>, t) = <<s, t>>
  BY AppendOne
<1> QED
  BY <1>1, <1>2, <1>3, Zenon
(* The characters of a URL's query besides those of the parameters.        *)
Special == {" ", "&", "=", "%"}

(* What stands for one character in the URL.                               *)
Token(C) == Seq(C) \ {<< >>}

Decoded(token) == Last(token)

(* The query has a character for each one of the URL. *)
LEMMA QueryIs ==
  ASSUME NEW C, Special \subseteq C, NEW target \in Seq(Token(C))
  PROVE  /\ query(target) \in Seq(C)
         /\ Len(query(target)) = Len(target)
         /\ \A i \in 1..Len(target) : query(target)[i] = Decoded(target[i])
<1> DEFINE n == Len(target)
           q == [i \in 1..n |-> Decoded(target[i])]
<1>1. query(target) = q
  BY DEF query, Decoded
<1>2. n \in Nat
  OBVIOUS
<1>3. ASSUME NEW i \in 1..n PROVE Decoded(target[i]) \in C
  <2>1. target[i] \in Seq(C) /\ target[i] # << >>
    BY DEF Token
  <2> DEFINE token == target[i]
  <2>2. token[Len(token)] \in C
    BY <2>1
  <2> HIDE DEF token
  <2> QED
    BY <2>2 DEF Decoded, Last, token
<1> HIDE DEF n
<1>4. q \in [1..n -> C]
  BY <1>3
<1>5. q \in Seq(C) /\ Len(q) = n
  <2> HIDE DEF q
  <2> QED
    BY <1>2, <1>4
<1>6. \A i \in 1..n : q[i] = Decoded(target[i])
  OBVIOUS
<1> HIDE DEF q
<1> QED
  BY <1>1, <1>5, <1>6 DEF n

(* The query of two parts one after the other is the one of each.          *)
LEMMA QueryJoins ==
  ASSUME NEW C, Special \subseteq C, NEW a \in Seq(Token(C)), NEW b \in Seq(Token(C))
  PROVE  query(a \o b) = query(a) \o query(b)
<1> DEFINE c == a \o b
           m == Len(a)
           n == Len(b)
           x == query(a)
           y == query(b)
           z == query(c)
           T == Token(C)
<1> HIDE DEF T
<1>1. /\ c \in Seq(T) /\ Len(c) = m + n /\ m \in Nat /\ n \in Nat
      /\ \A i \in 1..m : c[i] = a[i]
      /\ \A i \in 1..n : c[m + i] = b[i]
  BY DEF T
<1> HIDE DEF c, m, n
<1>2. x \in Seq(C) /\ Len(x) = m /\ \A i \in 1..m : x[i] = Decoded(a[i])
  BY QueryIs DEF m, T
<1>3. y \in Seq(C) /\ Len(y) = n /\ \A i \in 1..n : y[i] = Decoded(b[i])
  BY QueryIs DEF n, T
<1>4. z \in Seq(C) /\ Len(z) = m + n /\ \A i \in 1..m + n : z[i] = Decoded(c[i])
  BY <1>1, QueryIs DEF T
<1> HIDE DEF x, y, z
<1>5. x \o y \in Seq(C) /\ Len(x \o y) = m + n
  BY <1>1, <1>2, <1>3
<1>6. ASSUME NEW i \in 1..m + n PROVE z[i] = (x \o y)[i]
  <2>1. CASE i \in 1..m
    <3>1. (x \o y)[i] = x[i]
      BY <1>1, <1>2, <1>3, <2>1
    <3> QED
      BY <1>1, <1>2, <1>4, <2>1, <3>1
  <2>2. CASE i \notin 1..m
    <3> DEFINE j == i - m
    <3>1. j \in 1..n /\ i = m + j
      BY <1>1, <2>2
    <3> HIDE DEF j
    <3>2. (x \o y)[m + j] = y[j]
      BY <1>1, <1>2, <1>3, <3>1
    <3>3. z[m + j] = Decoded(c[m + j]) /\ c[m + j] = b[j] /\ y[j] = Decoded(b[j])
      BY <1>1, <1>3, <1>4, <3>1
    <3> QED
      BY <3>1, <3>2, <3>3
  <2> QED
    BY <2>1, <2>2
<1>7. z = x \o y
  BY <1>4, <1>5, <1>6, <1>1
<1> QED
  BY <1>7 DEF x, y, z, c

(* A key is in the query what it was.                                      *)
LEMMA RawDecodes ==
  ASSUME NEW C, Special \subseteq C, NEW s \in Seq(C)
  PROVE  Raw(s) \in Seq(Token(C)) /\ query(Raw(s)) = s
<1> DEFINE n == Len(s)
           T == Token(C)
           raw == Raw(s)
<1>1. n \in Nat /\ raw = [i \in 1..n |-> <<s[i]>>]
  BY DEF Raw
<1>2. ASSUME NEW i \in 1..n
      PROVE  <<s[i]>> \in T /\ Decoded(<<s[i]>>) = s[i] /\ s[i] \in C
  <2> DEFINE x == s[i]
  <2>1. x \in C
    OBVIOUS
  <2> HIDE DEF x
  <2>2. <<x>> # << >> /\ <<x>> \in Seq(C) /\ Len(<<x>>) = 1 /\ <<x>>[1] = x
    BY <2>1
  <2> QED
    BY <2>1, <2>2 DEF Token, Decoded, Last, x
<1> HIDE DEF n, T, raw
<1>3. raw \in [1..n -> T] /\ \A i \in 1..n : raw[i] = <<s[i]>>
  BY <1>1, <1>2
<1>4. raw \in Seq(T) /\ Len(raw) = n
  BY <1>1, <1>3
<1>5. query(raw) \in Seq(C) /\ Len(query(raw)) = n /\ \A i \in 1..n : query(raw)[i] = Decoded(raw[i])
  BY <1>4, QueryIs DEF T
<1>6. \A i \in 1..n : query(raw)[i] = s[i]
  BY <1>2, <1>3, <1>5
<1>7. query(raw) = s
  <2> DEFINE q == query(raw)
  <2>1. Len(s) = n /\ q \in Seq(C) /\ Len(q) = n /\ \A i \in 1..n : q[i] = s[i]
    BY <1>5, <1>6 DEF n
  <2> HIDE DEF q
  <2>2. q = s
    BY <1>1, <2>1
  <2> QED
    BY <2>2 DEF q
<1> QED
  BY <1>4, <1>7 DEF raw, T

(* A value is in the query what it was, whatever it holds.                 *)
LEMMA EncodedDecodes ==
  ASSUME NEW C, Special \subseteq C, NEW s \in Seq(C)
  PROVE  URLEncode(s) \in Seq(Token(C)) /\ query(URLEncode(s)) = s
<1> DEFINE n == Len(s)
           T == Token(C)
           Coded(x) == IF x \in {" ", "+", "&", "=", "%"} THEN <<"%", x>> ELSE <<x>>
           coded == URLEncode(s)
<1>1. n \in Nat /\ coded = [i \in 1..n |-> Coded(s[i])]
  BY DEF URLEncode
<1>2. ASSUME NEW i \in 1..n
      PROVE  Coded(s[i]) \in T /\ Decoded(Coded(s[i])) = s[i] /\ s[i] \in C
  <2> DEFINE x == s[i]
  <2>1. x \in C /\ "%" \in C
    <3>1. x \in C
      OBVIOUS
    <3>2. "%" \in Special
      BY DEF Special
    <3> QED
      BY <3>1, <3>2
  <2> HIDE DEF x
  <2>2. CASE x \in {" ", "+", "&", "=", "%"}
    <3>1. Coded(x) = <<"%", x>>
      BY <2>2
    <3>2. <<"%", x>> # << >> /\ <<"%", x>> \in Seq(C) /\ Len(<<"%", x>>) = 2 /\ <<"%", x>>[2] = x
      BY <2>1
    <3> QED
      BY <2>1, <3>1, <3>2 DEF Token, Decoded, Last, x
  <2>3. CASE x \notin {" ", "+", "&", "=", "%"}
    <3>1. Coded(x) = <<x>>
      BY <2>3
    <3>2. <<x>> # << >> /\ <<x>> \in Seq(C) /\ Len(<<x>>) = 1 /\ <<x>>[1] = x
      BY <2>1
    <3> QED
      BY <2>1, <3>1, <3>2 DEF Token, Decoded, Last, x
  <2> QED
    BY <2>2, <2>3
<1> HIDE DEF n, T, coded, Coded
<1>3. coded \in [1..n -> T] /\ \A i \in 1..n : coded[i] = Coded(s[i])
  BY <1>1, <1>2
<1>4. coded \in Seq(T) /\ Len(coded) = n
  BY <1>1, <1>3
<1>5. /\ query(coded) \in Seq(C) /\ Len(query(coded)) = n
      /\ \A i \in 1..n : query(coded)[i] = Decoded(coded[i])
  BY <1>4, QueryIs DEF T
<1>6. \A i \in 1..n : query(coded)[i] = s[i]
  BY <1>2, <1>3, <1>5
<1>7. query(coded) = s
  <2> DEFINE q == query(coded)
  <2>1. Len(s) = n /\ q \in Seq(C) /\ Len(q) = n /\ \A i \in 1..n : q[i] = s[i]
    BY <1>5, <1>6 DEF n
  <2> HIDE DEF q
  <2>2. q = s
    BY <1>1, <2>1
  <2> QED
    BY <2>2 DEF q
<1> QED
  BY <1>4, <1>7 DEF coded, T
(* A separator in the URL is itself in the query. *)
LEMMA OneToken ==
  ASSUME NEW C, Special \subseteq C, NEW x \in C
  PROVE  << <<x>> >> \in Seq(Token(C)) /\ query(<< <<x>> >>) = <<x>>
<1> DEFINE s == <<x>>
<1>1. s \in Seq(C)
  OBVIOUS
<1>2. Raw(s) = << <<x>> >>
  <2>1. DOMAIN s = 1..1 /\ s[1] = x
    OBVIOUS
  <2>2. Raw(s) = [i \in 1..1 |-> <<x>>]
    BY <2>1 DEF Raw
  <2>3. [i \in 1..1 |-> <<x>>] = << <<x>> >>
    OBVIOUS
  <2> QED
    BY <2>2, <2>3
<1> HIDE DEF s
<1>3. Raw(s) \in Seq(Token(C)) /\ query(Raw(s)) = s
  BY <1>1, RawDecodes
<1> QED
  BY <1>2, <1>3 DEF s

(* A parameter whose key needs no encoding and whose value has neither of  *)
(* the separators.                                                         *)
Parameter(C) ==
  {p \in Seq(C) \X Seq(C) : /\ \A x \in {" ", "+", "&", "=", "%"} : Free(p[1], x)
                            /\ Free(p[2], "&") /\ Free(p[2], "=")}

(* What a parameter is in the URL and in its query.                        *)
Part(params, i) ==
  (IF i = 1 THEN << >> ELSE << <<"&">> >>)
    \o Raw(params[i][1]) \o << <<"=">> >> \o URLEncode(params[i][2])
KeyValue(p) == Append(p[1], "=") \o p[2]

(* A parameter in the query is one piece that splits into its key and its  *)
(* value.                                                                  *)
LEMMA KeyValueIs ==
  ASSUME NEW C, Special \subseteq C, NEW p \in Parameter(C)
  PROVE  /\ KeyValue(p) \in Seq(C) /\ Free(KeyValue(p), "&")
         /\ split(KeyValue(p), "=") = <<p[1], p[2]>>
<1> DEFINE s == p[1]
           t == p[2]
<1>1. p \in Seq(C) \X Seq(C) /\ Free(s, "&") /\ Free(s, "=") /\ Free(t, "&") /\ Free(t, "=")
  BY DEF Parameter
<1>2. s \in Seq(C) /\ t \in Seq(C)
  BY <1>1
<1>3. "=" \in C
  <2>1. "=" \in Special
    BY DEF Special
  <2> QED
    BY <2>1
<1> HIDE DEF s, t
<1> DEFINE r == Append(s, "=")
<1>4. r \in Seq(C) /\ Len(r) = Len(s) + 1 /\ r[Len(s) + 1] = "=" /\ \A i \in 1..Len(s) : r[i] = s[i]
  BY <1>2, <1>3
<1> HIDE DEF r
<1>5. Free(r, "&")
  <2>1. ASSUME NEW i \in DOMAIN r PROVE r[i] # "&"
    <3>1. i \in 1..Len(s) \/ i = Len(s) + 1
      BY <1>2, <1>4
    <3> QED
      BY <3>1, <1>1, <1>2, <1>4 DEF Free
  <2> QED
    BY <2>1 DEF Free
<1>6. r \o t \in Seq(C) /\ Free(r \o t, "&")
  <2>1. r \o t \in Seq(C)
    BY <1>2, <1>4
  <2>2. ASSUME NEW i \in DOMAIN (r \o t) PROVE (r \o t)[i] # "&"
    <3>1. i \in 1..Len(r) + Len(t)
      BY <1>2, <1>4
    <3>2. CASE i <= Len(r)
      BY <1>2, <1>4, <1>5, <3>1, <3>2 DEF Free
    <3>3. CASE i > Len(r)
      <4>1. i - Len(r) \in 1..Len(t) /\ (r \o t)[i] = t[i - Len(r)]
        BY <1>2, <1>4, <3>1, <3>3
      <4> QED
        BY <1>1, <1>2, <4>1 DEF Free
    <3> QED
      BY <3>1, <3>2, <3>3, <1>4
  <2> QED
    BY <2>1, <2>2 DEF Free
<1>7. split(r \o t, "=") = <<s, t>>
  BY <1>1, <1>2, <1>3, SplitPair DEF r
<1> QED
  BY <1>6, <1>7 DEF KeyValue, r, s, t

(* The part of a parameter in the URL decodes to the parameter, after an & *)
(* but for the first one.                                                  *)
LEMMA PartDecodes ==
  ASSUME NEW C, Special \subseteq C, NEW params \in Seq(Parameter(C)), NEW i \in 1..Len(params)
  PROVE  /\ Part(params, i) \in Seq(Token(C))
         /\ query(Part(params, i)) = IF i = 1 THEN KeyValue(params[i])
                                     ELSE <<"&">> \o KeyValue(params[i])
<1> DEFINE p == params[i]
           s == p[1]
           t == p[2]
           T == Token(C)
           e == << <<"=">> >>
           a == << <<"&">> >>
<1>1. p \in Parameter(C)
  OBVIOUS
<1>2. s \in Seq(C) /\ t \in Seq(C)
  <2> HIDE DEF p
  <2>1. p \in Seq(C) \X Seq(C)
    BY <1>1 DEF Parameter
  <2> QED
    BY <2>1
<1> HIDE DEF s, t, T, p
<1>3. Raw(s) \in Seq(T) /\ query(Raw(s)) = s
  BY <1>2, RawDecodes DEF T
<1>4. URLEncode(t) \in Seq(T) /\ query(URLEncode(t)) = t
  BY <1>2, EncodedDecodes DEF T
<1>5. "=" \in C /\ "&" \in C
  <2>1. "=" \in Special /\ "&" \in Special
    BY DEF Special
  <2> QED
    BY <2>1
<1>6. e \in Seq(T) /\ query(e) = <<"=">> /\ a \in Seq(T) /\ query(a) = <<"&">>
  BY <1>5, OneToken DEF T
<1> HIDE DEF e, a
<1> DEFINE se == Raw(s) \o e
           body == se \o URLEncode(t)
<1>7. se \in Seq(T) /\ query(se) = s \o <<"=">>
  <2>1. se \in Seq(T)
    BY <1>3, <1>6
  <2>2. query(se) = query(Raw(s)) \o query(e)
    BY <1>3, <1>6, QueryJoins DEF T
  <2> QED
    BY <2>1, <2>2, <1>3, <1>6
<1> HIDE DEF se
<1>8. body \in Seq(T) /\ query(body) = KeyValue(p)
  <2>1. body \in Seq(T)
    BY <1>4, <1>7
  <2>2. query(body) = query(se) \o query(URLEncode(t))
    BY <1>4, <1>7, QueryJoins DEF T
  <2>3. s \o <<"=">> = Append(s, "=")
    BY <1>2, <1>5, AppendIsConcat
  <2> QED
    BY <2>1, <2>2, <2>3, <1>4, <1>7 DEF KeyValue, s, t
<1> HIDE DEF body
<1>9. Part(params, i) = IF i = 1 THEN body ELSE a \o body
  <2> DEFINE first == IF i = 1 THEN << >> ELSE a
  <2>1. Part(params, i) = ((first \o Raw(s)) \o e) \o URLEncode(t)
    BY DEF Part, s, t, p, e, a
  <2>2. first \in Seq(T)
    BY <1>6
  <2> HIDE DEF first
  <2>3. ((first \o Raw(s)) \o e) \o URLEncode(t) = first \o body
    <3>1. (first \o Raw(s)) \o e = first \o se
      BY <1>3, <1>6, <2>2, ConcatAssociative DEF se
    <3>2. (first \o se) \o URLEncode(t) = first \o body
      BY <1>4, <1>7, <2>2, ConcatAssociative DEF body
    <3> QED
      BY <3>1, <3>2
  <2>4. i = 1 => first \o body = body
    BY <1>8 DEF first
  <2>5. i # 1 => first \o body = a \o body
    BY DEF first
  <2> QED
    BY <2>1, <2>3, <2>4, <2>5
<1>10. a \o body \in Seq(T) /\ query(a \o body) = <<"&">> \o KeyValue(p)
  <2>1. a \o body \in Seq(T)
    BY <1>6, <1>8
  <2>2. query(a \o body) = query(a) \o query(body)
    BY <1>6, <1>8, QueryJoins DEF T
  <2> QED
    BY <2>1, <2>2, <1>6, <1>8
<1> QED
  BY <1>8, <1>9, <1>10 DEF p, T
(* The first k parameters in the URL are the parts of each, joined.        *)
LEMMA ParseParamIs ==
  ASSUME NEW params, NEW n \in Nat, NEW k \in 0..n
  PROVE  ParseParam(First(params, k)) = FlattenSeq(First([i \in 1..n |-> Part(params, i)], k))
<1> DEFINE f == First(params, k)
           g == First([i \in 1..n |-> Part(params, i)], k)
<1>1. DOMAIN f = 1..k /\ \A i \in 1..k : f[i] = params[i]
  BY DEF First
<1>2. g = [i \in 1..k |-> Part(params, i)]
  BY DEF First
<1>3. ParseParam(f) = FlattenSeq([i \in DOMAIN f |-> Part(f, i)])
  BY Zenon DEF ParseParam, Part
<1>4. \A i \in 1..k : Part(f, i) = Part(params, i)
  BY <1>1, Zenon DEF Part
<1> HIDE DEF f, g
<1>5. [i \in DOMAIN f |-> Part(f, i)] = g
  BY <1>1, <1>2, <1>4
<1> QED
  BY <1>3, <1>5 DEF f, g

(* The server finds one piece for each parameter.                          *)
LEMMA QueryPieces ==
  ASSUME NEW C, Special \subseteq C, NEW params \in Seq(Parameter(C)), params # << >>
  PROVE  split(query(ParseParam(params)), "&") = [i \in 1..Len(params) |-> KeyValue(params[i])]
<1> DEFINE n == Len(params)
           T == Token(C)
           url(k) == ParseParam(First(params, k))
           pieces(k) == [i \in 1..k |-> KeyValue(params[i])]
           Right(k) == url(k) \in Seq(T) /\ split(query(url(k)), "&") = pieces(k)
           parts == [i \in 1..n |-> Part(params, i)]
           Bad == {k \in 1..n : ~Right(k)}
<1>1. n \in Nat \ {0} /\ First(params, n) = params
  BY DEF First
<1>2. \A k \in 0..n : url(k) = FlattenSeq(First(parts, k))
  <2>1. n \in Nat
    BY <1>1
  <2> HIDE DEF n
  <2> QED
    BY <2>1, ParseParamIs
<1>3. ASSUME NEW i \in 1..n
      PROVE  /\ parts[i] \in Seq(T) /\ params[i] \in Parameter(C)
             /\ query(parts[i]) = IF i = 1 THEN KeyValue(params[i]) ELSE <<"&">> \o KeyValue(params[i])
  BY PartDecodes
<1> HIDE DEF T, parts, n
<1>4. \A k \in 0..n : k + 1 \in 1..n =>
        url(k + 1) = IF k = 0 THEN parts[1] ELSE url(k) \o parts[k + 1]
  <2> SUFFICES ASSUME NEW k \in 0..n, k + 1 \in 1..n
               PROVE  url(k + 1) = IF k = 0 THEN parts[1] ELSE url(k) \o parts[k + 1]
    OBVIOUS
  <2>1. k \in Nat /\ k + 1 \in 0..n
    BY <1>1
  <2>2. FlattenSeq(First(parts, k + 1)) = IF k = 0 THEN parts[1] ELSE FlattenSeq(First(parts, k)) \o parts[k + 1]
    BY <2>1, FlattenNext
  <2> HIDE DEF url
  <2> QED
    BY <2>1, <2>2, <1>2
<1>5. "&" \in C
  <2>1. "&" \in Special
    BY DEF Special
  <2> QED
    BY <2>1
<1> HIDE DEF url
<1>6. Right(1)
  <2>1. 1 \in 1..n /\ 0 \in 0..n /\ 0 + 1 = 1
    BY <1>1
  <2>2. url(1) = parts[1]
    BY <2>1, <1>4
  <2>3. KeyValue(params[1]) \in Seq(C) /\ Free(KeyValue(params[1]), "&")
    BY <2>1, <1>3, KeyValueIs
  <2>4. split(KeyValue(params[1]), "&") = <<KeyValue(params[1])>>
    BY <2>3, <1>5, SplitPiece
  <2>5. pieces(1) = <<KeyValue(params[1])>>
    OBVIOUS
  <2> HIDE DEF pieces
  <2> QED
    BY <2>1, <2>2, <2>4, <2>5, <1>3
<1>7. ASSUME NEW k \in 1..n, k + 1 \in 1..n, Right(k)
      PROVE  Right(k + 1)
  <2> DEFINE p == KeyValue(params[k + 1])
             u == url(k)
             q == query(u)
  <2>1. k \in 0..n /\ k # 0 /\ k \in Nat
    BY <1>1
  <2>2. url(k + 1) = u \o parts[k + 1]
    BY <2>1, <1>4, <1>7
  <2>3. u \in Seq(T) /\ split(q, "&") = pieces(k)
    BY <1>7
  <2>4. parts[k + 1] \in Seq(T) /\ query(parts[k + 1]) = <<"&">> \o p /\ params[k + 1] \in Parameter(C)
    <3> DEFINE i == k + 1
    <3>1. i \in 1..n /\ i # 1
      BY <2>1, <1>7
    <3> HIDE DEF i
    <3>2. /\ parts[i] \in Seq(T) /\ params[i] \in Parameter(C)
          /\ query(parts[i]) = <<"&">> \o KeyValue(params[i])
      BY <3>1, <1>3, Zenon
    <3> QED
      BY <3>2, Zenon DEF i
  <2>5. p \in Seq(C) /\ Free(p, "&")
    BY <2>4, KeyValueIs
  <2>6. q \in Seq(C)
    BY <2>3, QueryIs DEF T
  <2>7. query(url(k + 1)) = q \o query(parts[k + 1])
    BY <2>2, <2>3, <2>4, QueryJoins DEF T
  <2> HIDE DEF p, u, q, pieces
  <2>8. q \o (<<"&">> \o p) = Append(q, "&") \o p
    <3>1. <<"&">> \in Seq(C)
      BY <1>5
    <3>2. (q \o <<"&">>) \o p = q \o (<<"&">> \o p)
      BY <2>5, <2>6, <3>1, ConcatAssociative
    <3>3. Append(q, "&") = q \o <<"&">>
      BY <2>6, <1>5, AppendIsConcat
    <3> QED
      BY <3>2, <3>3
  <2>9. split(Append(q, "&") \o p, "&") = Append(split(q, "&"), p)
    BY <2>5, <2>6, <1>5, SplitPiece
  <2>10. Append(pieces(k), p) = pieces(k + 1)
    <3>1. ASSUME NEW i \in 1..k PROVE KeyValue(params[i]) \in Seq(C)
      <4>1. i \in 1..n
        BY <1>1
      <4> QED
        BY <4>1, <1>3, KeyValueIs
    <3> DEFINE a == [i \in 1..k |-> KeyValue(params[i])]
               b == [i \in 1..k + 1 |-> KeyValue(params[i])]
    <3>2. ASSUME NEW i \in 1..k + 1 PROVE KeyValue(params[i]) \in Seq(C)
      <4>1. i \in 1..k \/ i = k + 1
        BY <2>1
      <4> QED
        BY <4>1, <3>1, <2>5 DEF p
    <3>3. a \in [1..k -> Seq(C)] /\ b \in [1..k + 1 -> Seq(C)]
      BY <3>1, <3>2
    <3>4. b[k + 1] = p /\ \A i \in 1..k : b[i] = a[i]
      BY <2>1 DEF p
    <3> HIDE DEF a, b
    <3> DEFINE T2 == Seq(C)
               m == k + 1
    <3>5. a \in Seq(T2) /\ Len(a) = k /\ b \in Seq(T2) /\ Len(b) = m /\ p \in T2
      BY <2>1, <2>5, <3>3
    <3> HIDE DEF T2
    <3>6. Append(a, p) \in Seq(T2) /\ Len(Append(a, p)) = m
      BY <3>5
    <3>7. \A i \in 1..m : Append(a, p)[i] = b[i]
      BY <3>4, <3>5, <2>1
    <3>8. Append(a, p) = b
      BY <2>1, <3>5, <3>6, <3>7
    <3> QED
      BY <3>8 DEF a, b, pieces
  <2>11. url(k + 1) \in Seq(T)
    <3>1. u \o parts[k + 1] \in Seq(T)
      BY <2>3, <2>4, ConcatProperties, Zenon
    <3> QED
      BY <2>2, <3>1, Zenon
  <2> QED
    BY <2>3, <2>4, <2>7, <2>8, <2>9, <2>10, <2>11, Zenon
<1>8. Bad = {}
  <2>1. SUFFICES ASSUME Bad # {} PROVE FALSE
    OBVIOUS
  <2> HIDE DEF Right
  <2>2. Bad \in SUBSET Nat
    BY <1>1
  <2>3. PICK z \in Bad : \A y \in Bad : z <= y
    <3> HIDE DEF Bad
    <3> QED
      BY <2>1, <2>2, LeastNat
  <2>4. z \in 1..n /\ ~Right(z)
    BY <2>3
  <2>5. z # 1
    BY <1>6, <2>4
  <2>6. z - 1 \in 1..n /\ z - 1 \notin Bad
    <3> HIDE DEF Bad
    <3> QED
      BY <1>1, <2>3, <2>4, <2>5
  <2>7. Right(z - 1) /\ (z - 1) + 1 = z
    BY <1>1, <2>4, <2>6
  <2> QED
    BY <2>4, <2>6, <2>7, <1>7
<1>9. Right(n)
  <2> HIDE DEF Right
  <2> QED
    BY <1>1, <1>8
<1> QED
  BY <1>1, <1>9 DEF url, n
(* Without parameters nothing arrives.                                     *)
LEMMA NothingArrives ==
  ASSUME NEW params, Len(params) = 0, DOMAIN params = {}
  PROVE  DOMAIN parameters(ParseParam(params)) = {}
<1>1. ParseParam(params) = << >>
  <2> DEFINE parts == [i \in DOMAIN params |-> Part(params, i)]
  <2>1. ParseParam(params) = FlattenSeq(parts)
    BY Zenon DEF ParseParam, Part
  <2>2. parts = << >>
    OBVIOUS
  <2>3. FlattenSeq(<< >>) = << >>
    BY DEF FlattenSeq
  <2> QED
    BY <2>1, <2>2, <2>3, Zenon
<1>2. query(<< >>) = << >>
  BY DEF query
<1> DEFINE keyValues == split(query(ParseParam(params)), "&")
           keyValueSplit == [i \in DOMAIN keyValues |-> split(keyValues[i], "=")]
           pair == {i \in DOMAIN keyValues : Len(keyValueSplit[i]) = 2}
           key(i) == keyValueSplit[i][1]
<1>3. keyValues = << << >> >>
  BY <1>1, <1>2, SplitNothing, Zenon
<1>4. pair = {}
  <2>1. DOMAIN keyValues = {1} /\ keyValues[1] = << >>
    BY <1>3
  <2> HIDE DEF keyValues
  <2>2. keyValueSplit[1] = << << >> >>
    BY <2>1, SplitNothing
  <2>3. Len(<< << >> >>) # 2
    OBVIOUS
  <2> HIDE DEF keyValueSplit
  <2> QED
    BY <2>1, <2>2, <2>3
<1>5. DOMAIN parameters(ParseParam(params)) = {key(i) : i \in pair}
  <2>1. parameters(ParseParam(params)) =
          [k \in {key(i) : i \in pair} |-> keyValueSplit[Max({i \in pair : key(i) = k})][2]]
    BY Zenon DEF parameters
  <2> HIDE DEF keyValues, keyValueSplit, pair
  <2> QED
    BY <2>1
<1> HIDE DEF pair
<1> QED
  BY <1>4, <1>5

(* Any number of parameters, of any keys that need no encoding and all     *)
(* different, with any values free of & and =, arrive: the server's map    *)
(* has these keys and no other, each with its value.                       *)
THEOREM ParametersReachServer ==
  ASSUME NEW C, Special \subseteq C, NEW params \in Seq(Parameter(C)),
         \A i, j \in DOMAIN params : params[i][1] = params[j][1] => i = j
  PROVE  LET arrived == parameters(ParseParam(params)) IN
           /\ DOMAIN arrived = {params[i][1] : i \in DOMAIN params}
           /\ \A i \in DOMAIN params : arrived[params[i][1]] = params[i][2]
<1> DEFINE n == Len(params)
           keyValues == split(query(ParseParam(params)), "&")
           keyValueSplit == [i \in DOMAIN keyValues |-> split(keyValues[i], "=")]
           pair == {i \in DOMAIN keyValues : Len(keyValueSplit[i]) = 2}
           key(i) == keyValueSplit[i][1]
           arrived == parameters(ParseParam(params))
<1>1. CASE params = << >>
  <2>1. Len(params) = 0 /\ DOMAIN params = {}
    BY <1>1
  <2>2. DOMAIN arrived = {}
    BY <2>1, NothingArrives
  <2> HIDE DEF arrived
  <2>3. DOMAIN arrived = {params[i][1] : i \in DOMAIN params}
    BY <2>1, <2>2
  <2> QED
    BY <2>1, <2>3 DEF arrived
<1>2. CASE params # << >>
  <2>1. keyValues = [i \in 1..n |-> KeyValue(params[i])]
    BY <1>2, QueryPieces
  <2>2. DOMAIN params = 1..n
    OBVIOUS
  <2> HIDE DEF keyValues
  <2>3. DOMAIN keyValues = 1..n /\ \A i \in 1..n : keyValues[i] = KeyValue(params[i])
    BY <2>1
  <2>4. ASSUME NEW i \in 1..n
        PROVE  keyValueSplit[i] = <<params[i][1], params[i][2]>>
    <3>1. params[i] \in Parameter(C)
      OBVIOUS
    <3>2. split(KeyValue(params[i]), "=") = <<params[i][1], params[i][2]>>
      BY <3>1, KeyValueIs
    <3>3. keyValueSplit[i] = split(keyValues[i], "=")
      BY <2>3
    <3> QED
      BY <2>3, <3>2, <3>3, Zenon
  <2>5. arrived = [k \in {key(i) : i \in pair} |-> keyValueSplit[Max({i \in pair : key(i) = k})][2]]
    BY Zenon DEF parameters, keyValues
  <2> HIDE DEF keyValueSplit, n, arrived
  <2>6. \A i \in 1..n : /\ Len(keyValueSplit[i]) = 2
                        /\ keyValueSplit[i][1] = params[i][1] /\ keyValueSplit[i][2] = params[i][2]
    <3> SUFFICES ASSUME NEW i \in 1..n
                 PROVE  /\ Len(keyValueSplit[i]) = 2
                        /\ keyValueSplit[i][1] = params[i][1] /\ keyValueSplit[i][2] = params[i][2]
      OBVIOUS
    <3> DEFINE a == params[i][1]
               b == params[i][2]
    <3>1. keyValueSplit[i] = <<a, b>>
      BY <2>4
    <3> HIDE DEF a, b
    <3>2. Len(<<a, b>>) = 2 /\ <<a, b>>[1] = a /\ <<a, b>>[2] = b
      OBVIOUS
    <3>3. Len(keyValueSplit[i]) = 2 /\ keyValueSplit[i][1] = a /\ keyValueSplit[i][2] = b
      BY <3>1, <3>2
    <3> QED
      BY <3>3 DEF a, b
  <2>7. pair = 1..n
    BY <2>3, <2>6
  <2> HIDE DEF pair
  <2>8. DOMAIN arrived = {params[i][1] : i \in DOMAIN params}
    <3>1. DOMAIN arrived = {key(i) : i \in pair}
      BY <2>5
    <3> QED
      BY <2>2, <2>6, <2>7, <3>1
  <2>9. ASSUME NEW i \in DOMAIN params PROVE arrived[params[i][1]] = params[i][2]
    <3> DEFINE k == params[i][1]
               same == {j \in pair : key(j) = k}
    <3>1. i \in 1..n
      BY <2>2
    <3>2. same = {i}
      BY <2>2, <2>6, <2>7, <3>1
    <3>3. Max({i}) = i
      <4>1. \A x \in {i} : x = i
        OBVIOUS
      <4>2. i \in {i} /\ i >= i
        BY <3>1 DEF n
      <4> QED
        BY <4>1, <4>2 DEF Max
    <3>4. k \in DOMAIN arrived
      BY <2>8
    <3>5. arrived[k] = keyValueSplit[Max(same)][2]
      BY <2>5, <3>4
    <3> HIDE DEF same
    <3> QED
      BY <2>6, <3>1, <3>2, <3>3, <3>5
  <2> QED
    BY <2>8, <2>9 DEF arrived
<1> QED
  BY <1>1, <1>2

(* The inputs of the query. *)
LEMMA QueryCase ==
  ASSUME KnownInput
  PROVE  ParametersArrive
<1> DEFINE C == Special \cup Char \cup {"b"}
           params == <<<<<<"a">>, input.first>>, <<<<"b">>, input.second>>>>
           arrived == parameters(ParseParam(params))
<1>1. SUFFICES ASSUME Is("query"),
                      \A i \in DOMAIN params : ~Contains(params[i][2], "&") /\ ~Contains(params[i][2], "=")
               PROVE  /\ DOMAIN arrived = {params[i][1] : i \in DOMAIN params}
                      /\ \A i \in DOMAIN params : arrived[params[i][1]] = params[i][2]
  BY DEF ParametersArrive
<1>2. input.first \in Value /\ input.second \in Value
  BY <1>1, SMT DEF KnownInput, Input, None, Is
<1>3. Char \subseteq C /\ Special \subseteq C /\ "a" \in C /\ "b" \in C
  BY DEF Char
<1>4. \A v \in Value : v \in Seq(C)
  <2>1. \A v \in Value : v \in Seq(Char)
    BY BoundAssumption, Bounded DEF Value
  <2> QED
    BY <2>1, <1>3, SeqMonotonic
<1> HIDE DEF C
<1>5. ASSUME NEW x \in {"a", "b"}, NEW v \in Value, ~Contains(v, "&"), ~Contains(v, "=")
      PROVE  <<<<x>>, v>> \in Parameter(C)
  <2>1. <<x>> \in Seq(C) /\ v \in Seq(C)
    BY <1>3, <1>4
  <2>2. \A y \in {" ", "+", "&", "=", "%"} : Free(<<x>>, y)
    <3>1. DOMAIN <<x>> = 1..1 /\ <<x>>[1] = x
      OBVIOUS
    <3>2. \A y \in {" ", "+", "&", "=", "%"} : x # y
      OBVIOUS
    <3>3. \A i \in 1..1 : i = 1
      OBVIOUS
    <3> QED
      BY <3>1, <3>2, <3>3, Zenon DEF Free
  <2>3. Free(v, "&") /\ Free(v, "=")
    <3>1. DOMAIN v = 1..Len(v)
      BY <2>1
    <3> QED
      BY <1>5, <3>1, Zenon DEF Free, Contains
  <2>4. <<<<x>>, v>> \in Seq(C) \X Seq(C) /\ <<<<x>>, v>>[1] = <<x>> /\ <<<<x>>, v>>[2] = v
    BY <2>1
  <2> QED
    BY <2>2, <2>3, <2>4, Zenon DEF Parameter
<1> DEFINE first == <<<<"a">>, input.first>>
           second == <<<<"b">>, input.second>>
<1>6. first \in Parameter(C) /\ second \in Parameter(C)
  <2>1. /\ ~Contains(input.first, "&") /\ ~Contains(input.first, "=")
        /\ ~Contains(input.second, "&") /\ ~Contains(input.second, "=")
    <3>1. 1 \in DOMAIN params /\ 2 \in DOMAIN params
      OBVIOUS
    <3>2. params[1][2] = input.first /\ params[2][2] = input.second
      OBVIOUS
    <3> HIDE DEF params
    <3> QED
      BY <1>1, <3>1, <3>2
  <2> QED
    BY <2>1, <1>2, <1>5
<1>7. first[1] # second[1]
  OBVIOUS
<1> HIDE DEF first, second
<1>8. params \in Seq(Parameter(C)) /\ Len(params) = 2 /\ params[1] = first /\ params[2] = second
  <2>1. params = <<first, second>>
    BY DEF first, second
  <2> HIDE DEF params
  <2> QED
    BY <1>6, <2>1
<1> HIDE DEF params
<1>9. \A i, j \in DOMAIN params : params[i][1] = params[j][1] => i = j
  BY <1>7, <1>8
<1> QED
  BY <1>3, <1>8, <1>9, ParametersReachServer

(* On every input of the run the parameters arrive as they were given.     *)
THEOREM ParametersCome == Spec => []ParametersArrive
<1>1. KnownInput => ParametersArrive
  BY QueryCase
<1> QED
  BY <1>1, InputIsKnown, PTL
=============================================================================
