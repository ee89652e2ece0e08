------------------------- MODULE TokenSumTheorems -------------------------
(***************************************************************************)
(* What Total of TokenSums returns, how it moves when one balance changes, *)
(* and what integer division gives.  The proofs about the contracts rest   *)
(* on these facts.                                                         *)
(***************************************************************************)
EXTENDS TokenSums, FiniteSetTheorems, TLAPS

(* One address holds as many tokens as its balance says. *)
LEMMA TokensOfSize ==
  ASSUME NEW c, NEW n \in Nat
  PROVE  /\ IsFiniteSet({c} \X (1 .. n))
         /\ Cardinality({c} \X (1 .. n)) = n
<1> DEFINE g == [i \in 1 .. n |-> <<c, i>>]
<1>1. /\ IsFiniteSet(1 .. n)
      /\ Cardinality(1 .. n) = n
  BY FS_Interval, SMT
<1>2. g \in Bijection(1 .. n, {c} \X (1 .. n))
  <2>1. g \in [1 .. n -> {c} \X (1 .. n)]
    OBVIOUS
  <2>2. \A i, j \in 1 .. n : g[i] = g[j] => i = j
    OBVIOUS
  <2>3. ASSUME NEW t \in {c} \X (1 .. n) PROVE \E i \in 1 .. n : g[i] = t
    <3>1. t[2] \in 1 .. n /\ t = <<c, t[2]>>
      OBVIOUS
    <3>. QED BY <3>1
  <2> HIDE DEF g
  <2>. QED BY <2>1, <2>2, <2>3 DEF Bijection, Injection, Surjection, IsInjective
<1>3. ExistsBijection(1 .. n, {c} \X (1 .. n))
  BY <1>2 DEF ExistsBijection
<1> HIDE DEF g
<1>. QED
  BY <1>1, <1>3, FS_Bijection, Zenon

(* The tokens of finitely many addresses are finitely many. *)
LEMMA TokensFinite ==
  ASSUME NEW S, IsFiniteSet(S), NEW f \in [S -> Nat]
  PROVE  IsFiniteSet(UNION {TokensOf(f, c) : c \in S})
<1> DEFINE U == {TokensOf(f, c) : c \in S}
           g == [c \in S |-> TokensOf(f, c)]
<1>1. g \in Surjection(S, U)
  BY DEF Surjection
<1>2. IsFiniteSet(U)
  <2> HIDE DEF g, U
  <2>. QED BY <1>1, FS_Surjection
<1>3. \A T \in U : IsFiniteSet(T)
  <2> SUFFICES ASSUME NEW c \in S PROVE IsFiniteSet(TokensOf(f, c))
    OBVIOUS
  <2>. QED BY TokensOfSize DEF TokensOf
<1> HIDE DEF U
<1>4. IsFiniteSet(UNION U)
  BY <1>2, <1>3, FS_UNION
<1>. QED BY <1>4 DEF U

(* A total is a natural number. *)
LEMMA TotalType ==
  ASSUME NEW S, IsFiniteSet(S), NEW f \in [S -> Nat]
  PROVE  /\ IsFiniteSet(Tokens(f))
         /\ Total(f) \in Nat
<1>1. DOMAIN f = S
  OBVIOUS
<1>2. IsFiniteSet(Tokens(f))
  BY <1>1, TokensFinite DEF Tokens
<1>. QED
  BY <1>2, FS_CardinalityType DEF Total

(* A total is what one address holds plus what all the others hold. *)
LEMMA TotalSplit ==
  ASSUME NEW S, IsFiniteSet(S), NEW f \in [S -> Nat], NEW c \in S
  PROVE  /\ Cardinality(UNION {TokensOf(f, d) : d \in S \ {c}}) \in Nat
         /\ Total(f) = Cardinality(UNION {TokensOf(f, d) : d \in S \ {c}}) + f[c]
<1> DEFINE R == UNION {TokensOf(f, d) : d \in S \ {c}}
<1>1. IsFiniteSet(R)
  <2>1. IsFiniteSet(Tokens(f))
    BY TotalType
  <2>2. R \in SUBSET Tokens(f)
    BY DEF Tokens
  <2> HIDE DEF R
  <2>. QED BY <2>1, <2>2, FS_Subset
<1>2. Tokens(f) = R \cup TokensOf(f, c)
  BY DEF Tokens
<1>3. R \cap TokensOf(f, c) = {}
  <2> SUFFICES ASSUME NEW t \in R, t \in TokensOf(f, c) PROVE FALSE
    OBVIOUS
  <2>1. PICK d \in S \ {c} : t \in TokensOf(f, d)
    OBVIOUS
  <2>. QED BY <2>1 DEF TokensOf
<1>4. IsFiniteSet(TokensOf(f, c)) /\ Cardinality(TokensOf(f, c)) = f[c]
  BY TokensOfSize DEF TokensOf
<1>5. Cardinality(R) \in Nat
  BY <1>1, FS_CardinalityType
<1> HIDE DEF R
<1>6. Cardinality(R \cup TokensOf(f, c)) = Cardinality(R) + f[c]
  <2>1. Cardinality(R \cup TokensOf(f, c))
          = Cardinality(R) + Cardinality(TokensOf(f, c)) - Cardinality(R \cap TokensOf(f, c))
    BY <1>1, <1>4, FS_Union, Zenon
  <2>2. Cardinality(R \cap TokensOf(f, c)) = 0
    BY <1>3, FS_EmptySet, Zenon
  <2>3. f[c] \in Nat
    OBVIOUS
  <2>. QED BY <1>4, <1>5, <2>1, <2>2, <2>3
<1>7. Total(f) = Cardinality(R) + f[c]
  BY <1>2, <1>6 DEF Total
<1>. QED
  BY <1>5, <1>7 DEF R

(* No address holds more than the total. *)
LEMMA TotalBoundsEach ==
  ASSUME NEW S, IsFiniteSet(S), NEW f \in [S -> Nat], NEW c \in S
  PROVE  f[c] <= Total(f)
<1> DEFINE r == Cardinality(UNION {TokensOf(f, d) : d \in S \ {c}})
<1>1. f[c] \in Nat
  OBVIOUS
<1>2. r \in Nat /\ Total(f) = r + f[c]
  BY TotalSplit
<1> HIDE DEF r
<1>. QED BY <1>1, <1>2

(* Changing one balance moves the total by the same amount. *)
LEMMA TotalUpdate ==
  ASSUME NEW S, IsFiniteSet(S), NEW f \in [S -> Nat], NEW c \in S, NEW v \in Nat
  PROVE  Total([f EXCEPT ![c] = v]) = Total(f) - f[c] + v
<1> DEFINE g == [f EXCEPT ![c] = v]
           R == UNION {TokensOf(f, d) : d \in S \ {c}}
<1>1. g \in [S -> Nat] /\ g[c] = v /\ f[c] \in Nat
  OBVIOUS
<1>2. UNION {TokensOf(g, d) : d \in S \ {c}} = R
  BY DEF TokensOf
<1>3. Cardinality(R) \in Nat /\ Total(f) = Cardinality(R) + f[c]
  BY TotalSplit
<1>4. Total(g) = Cardinality(R) + g[c]
  <2> HIDE DEF g, R
  <2>. QED BY <1>1, <1>2, TotalSplit, Zenon
<1> HIDE DEF g, R
<1>5. Total(g) = Total(f) - f[c] + v
  BY <1>1, <1>3, <1>4
<1>. QED BY <1>5 DEF g

(* Where nobody holds more, the total is not more. *)
LEMMA TotalMono ==
  ASSUME NEW S, IsFiniteSet(S), NEW f \in [S -> Nat], NEW g \in [S -> Nat],
         \A c \in S : f[c] <= g[c]
  PROVE  Total(f) <= Total(g)
<1>1. Tokens(f) \subseteq Tokens(g)
  <2>. SUFFICES ASSUME NEW c \in S PROVE TokensOf(f, c) \subseteq TokensOf(g, c)
    BY DEF Tokens
  <2>1. 1 .. f[c] \subseteq 1 .. g[c]
    <3>1. f[c] \in Nat /\ g[c] \in Nat /\ f[c] <= g[c]
      OBVIOUS
    <3>. QED BY <3>1
  <2>. QED BY <2>1 DEF TokensOf
<1>2. IsFiniteSet(Tokens(g))
  BY TotalType
<1>. QED BY <1>1, <1>2, FS_Subset DEF Total

(* An empty table totals zero. *)
LEMMA TotalZero ==
  ASSUME NEW S
  PROVE  Total([c \in S |-> 0]) = 0
<1> DEFINE z == [c \in S |-> 0]
<1>1. Tokens(z) = {}
  <2>1. \A c \in S : TokensOf(z, c) = {}
    BY DEF TokensOf
  <2>. QED BY <2>1 DEF Tokens
<1>. QED BY <1>1, FS_EmptySet DEF Total

---------------------------------------------------------------------------
(* Facts of integer arithmetic shares and fees rest on. *)

(* Integer division rounds down and its quotient is a natural number. *)
LEMMA DivFacts ==
  ASSUME NEW n \in Nat, NEW d \in Nat, d > 0
  PROVE  /\ n \div d \in Nat
         /\ (n \div d) * d <= n
         /\ n < (n \div d) * d + d
BY SMT

(* A product of natural numbers is a natural number. *)
LEMMA MulNat ==
  ASSUME NEW a \in Nat, NEW b \in Nat
  PROVE  a * b \in Nat
BY SMT

(* Multiplication by a natural number preserves the order. *)
LEMMA MulMono ==
  ASSUME NEW a \in Nat, NEW b \in Nat, NEW k \in Nat, a <= b
  PROVE  a * k <= b * k
<1>1. PICK x \in Nat : b = a + x
  <2>1. b - a \in Nat /\ b = a + (b - a)
    OBVIOUS
  <2>. QED BY <2>1
<1>2. b * k = a * k + x * k
  BY <1>1, SMT
<1>3. a * k \in Nat /\ x * k \in Nat
  BY <1>1, MulNat
<1>. QED BY <1>2, <1>3

(* Division preserves the order of the numerators. *)
LEMMA DivMono ==
  ASSUME NEW m \in Nat, NEW n \in Nat, NEW d \in Nat, d > 0, m <= n
  PROVE  m \div d <= n \div d
<1> DEFINE q == m \div d
           r == n \div d
<1>1. q \in Nat /\ q * d <= m /\ r \in Nat /\ n < r * d + d
  BY DivFacts
<1> HIDE DEF q, r
<1>2. SUFFICES ASSUME r + 1 <= q PROVE FALSE
  BY <1>1 DEF q, r
<1>3. (r + 1) * d <= q * d
  BY <1>1, <1>2, MulMono
<1>4. (r + 1) * d = r * d + d
  BY <1>1, SMT
<1>5. q * d \in Nat /\ r * d \in Nat
  BY <1>1, MulNat
<1>. QED BY <1>1, <1>3, <1>4, <1>5

(* A number times d, divided by d, is that number. *)
LEMMA DivExact ==
  ASSUME NEW n \in Nat, NEW d \in Nat, d > 0
  PROVE  (n * d) \div d = n
<1> DEFINE q == (n * d) \div d
<1>1. n * d \in Nat
  BY MulNat
<1>2. q \in Nat /\ q * d <= n * d /\ n * d < q * d + d
  BY <1>1, DivFacts
<1> HIDE DEF q
<1>3. CASE q > n
  <2>1. (n + 1) * d <= q * d
    BY <1>2, <1>3, MulMono
  <2>2. (n + 1) * d = n * d + d
    BY SMT
  <2>3. q * d \in Nat
    BY <1>2, MulNat
  <2>. QED BY <1>1, <1>2, <2>1, <2>2, <2>3
<1>4. CASE q < n
  <2>1. (q + 1) * d <= n * d
    BY <1>2, <1>4, MulMono
  <2>2. (q + 1) * d = q * d + d
    BY <1>2, SMT
  <2>3. q * d \in Nat
    BY <1>2, MulNat
  <2>. QED BY <1>1, <1>2, <2>1, <2>2, <2>3
<1>5. CASE q = n
  BY <1>5 DEF q
<1>. QED BY <1>2, <1>3, <1>4, <1>5 DEF q

(* Quotient and remainder determine each other. *)
LEMMA RemainderUnique ==
  ASSUME NEW k \in Nat, NEW x \in Nat, NEW y \in Nat,
         NEW r \in 1 .. k, NEW w \in 1 .. k, x * k + r = y * k + w
  PROVE  x = y /\ r = w
<1>1. x * k \in Nat /\ y * k \in Nat
  BY MulNat
<1>2. CASE x < y
  <2>1. (x + 1) * k <= y * k
    BY <1>2, MulMono
  <2>2. (x + 1) * k = x * k + k
    BY SMT
  <2>. QED BY <1>1, <2>1, <2>2
<1>3. CASE y < x
  <2>1. (y + 1) * k <= x * k
    BY <1>3, MulMono
  <2>2. (y + 1) * k = y * k + k
    BY SMT
  <2>. QED BY <1>1, <2>1, <2>2
<1>4. CASE x = y
  BY <1>1, <1>4
<1>. QED BY <1>2, <1>3, <1>4

---------------------------------------------------------------------------
(* Totals of sums and multiples of tables. *)

(* A table that gives everybody the same. *)
LEMMA TotalConst ==
  ASSUME NEW S, IsFiniteSet(S), NEW k \in Nat
  PROVE  Total([c \in S |-> k]) = Cardinality(S) * k
<1> DEFINE f == [c \in S |-> k]
<1>1. Tokens(f) = S \X (1 .. k)
  <2>1. ASSUME NEW t, t \in Tokens(f) PROVE t \in S \X (1 .. k)
    <3>1. PICK c \in S : t \in {c} \X (1 .. k)
      BY <2>1 DEF Tokens, TokensOf
    <3>. QED BY <3>1
  <2>2. ASSUME NEW t, t \in S \X (1 .. k) PROVE t \in Tokens(f)
    <3>1. t[1] \in S /\ t \in {t[1]} \X (1 .. k)
      BY <2>2
    <3>. QED BY <3>1 DEF Tokens, TokensOf
  <2>. QED BY <2>1, <2>2
<1>2. IsFiniteSet(1 .. k) /\ Cardinality(1 .. k) = k
  BY FS_Interval, SMT
<1>3. Cardinality(S \X (1 .. k)) = Cardinality(S) * Cardinality(1 .. k)
  BY <1>2, FS_Product, Zenon
<1>. QED BY <1>1, <1>2, <1>3 DEF Total

(* The tokens of a table are the ranks below each balance. *)
LEMMA TokensAre ==
  ASSUME NEW S, NEW f \in [S -> Nat], NEW t
  PROVE  t \in Tokens(f) <=> t \in S \X Nat /\ t[2] \in 1 .. f[t[1]]
<1>1. DOMAIN f = S
  OBVIOUS
<1>2. ASSUME t \in Tokens(f) PROVE t \in S \X Nat /\ t[2] \in 1 .. f[t[1]]
  <2>1. PICK c \in S : t \in {c} \X (1 .. f[c])
    BY <1>1, <1>2 DEF Tokens, TokensOf
  <2>2. t[1] = c /\ t[2] \in 1 .. f[c] /\ t = <<c, t[2]>>
    BY <2>1
  <2>3. t[2] \in Nat
    BY <2>2
  <2>. QED BY <2>2, <2>3
<1>3. ASSUME t \in S \X Nat, t[2] \in 1 .. f[t[1]] PROVE t \in Tokens(f)
  <2>1. t[1] \in S /\ t \in {t[1]} \X (1 .. f[t[1]])
    BY <1>3
  <2>. QED BY <1>1, <2>1 DEF Tokens, TokensOf
<1>. QED BY <1>2, <1>3

(* A total of sums is the sum of the totals. *)
LEMMA TotalPlus ==
  ASSUME NEW S, IsFiniteSet(S), NEW f \in [S -> Nat], NEW g \in [S -> Nat]
  PROVE  Total([c \in S |-> f[c] + g[c]]) = Total(f) + Total(g)
<1> DEFINE h == [c \in S |-> f[c] + g[c]]
           U == {t \in S \X Nat : t[2] \in f[t[1]] + 1 .. f[t[1]] + g[t[1]]}
           b == [t \in Tokens(g) |-> <<t[1], f[t[1]] + t[2]>>]
<1>1. /\ h \in [S -> Nat] /\ DOMAIN f = S /\ DOMAIN g = S /\ DOMAIN h = S
      /\ \A c \in S : f[c] \in Nat /\ g[c] \in Nat /\ h[c] = f[c] + g[c]
  OBVIOUS
<1>2. \A t : t \in Tokens(f) <=> t \in S \X Nat /\ t[2] \in 1 .. f[t[1]]
  BY <1>1, TokensAre
<1>3. \A t : t \in Tokens(g) <=> t \in S \X Nat /\ t[2] \in 1 .. g[t[1]]
  BY <1>1, TokensAre
<1>4. \A t : t \in Tokens(h) <=> t \in S \X Nat /\ t[2] \in 1 .. h[t[1]]
  <2> HIDE DEF h
  <2>. QED BY <1>1, TokensAre
<1>5. Tokens(h) = Tokens(f) \cup U /\ Tokens(f) \cap U = {}
  <2> HIDE DEF h
  <2>1. ASSUME NEW c \in S, NEW n \in Nat
        PROVE  /\ n \in 1 .. h[c] <=>
                    n \in 1 .. f[c] \/ n \in f[c] + 1 .. f[c] + g[c]
               /\ ~(n \in 1 .. f[c] /\ n \in f[c] + 1 .. f[c] + g[c])
    BY <1>1
  <2>2. \A t \in S \X Nat : t[1] \in S /\ t[2] \in Nat
    OBVIOUS
  <2>. QED BY <1>2, <1>4, <2>1, <2>2
<1>6. b \in Bijection(Tokens(g), U)
  <2> HIDE DEF h
  <2>0. ASSUME NEW t \in Tokens(g)
        PROVE  /\ t[1] \in S /\ t[2] \in 1 .. g[t[1]] /\ t = <<t[1], t[2]>>
               /\ b[t] = <<t[1], f[t[1]] + t[2]>>
    BY <1>3
  <2>1. ASSUME NEW t \in Tokens(g) PROVE b[t] \in U
    <3>1. t[1] \in S /\ t[2] \in 1 .. g[t[1]] /\ b[t] = <<t[1], f[t[1]] + t[2]>>
      BY <2>0
    <3> DEFINE c == t[1]  n == f[t[1]] + t[2]
    <3>2. n \in Nat /\ n \in f[c] + 1 .. f[c] + g[c]
      BY <1>1, <3>1
    <3> HIDE DEF n
    <3>. QED BY <3>1, <3>2
  <2>2. ASSUME NEW s \in Tokens(g), NEW t \in Tokens(g), b[s] = b[t]
        PROVE  s = t
    <3>1. s[1] = t[1] /\ f[s[1]] + s[2] = f[t[1]] + t[2]
      BY <2>0, <2>2
    <3>2. s[2] \in 1 .. g[s[1]] /\ t[2] \in 1 .. g[t[1]] /\ s[1] \in S
      BY <2>0
    <3>3. s[2] \in Nat /\ t[2] \in Nat /\ f[s[1]] \in Nat
      BY <1>1, <3>2
    <3>4. s[2] = t[2]
      BY <3>1, <3>3
    <3>. QED BY <2>0, <3>1, <3>4
  <2>3. ASSUME NEW u \in U PROVE \E t \in Tokens(g) : b[t] = u
    <3> DEFINE c == u[1]  n == u[2] - f[u[1]]
    <3>1. c \in S /\ u = <<c, u[2]>> /\ u[2] \in f[c] + 1 .. f[c] + g[c]
      OBVIOUS
    <3>2. n \in Nat /\ n \in 1 .. g[c] /\ f[c] + n = u[2]
      BY <1>1, <3>1
    <3> HIDE DEF n, U
    <3>3. <<c, n>> \in Tokens(g)
      BY <1>3, <3>1, <3>2
    <3>4. b[<<c, n>>] = <<c, f[c] + n>>
      BY <3>3
    <3>. QED BY <3>1, <3>2, <3>3, <3>4
  <2>4. b \in [Tokens(g) -> U]
    <3> HIDE DEF U
    <3>. QED BY <2>1
  <2> HIDE DEF b, U
  <2>. QED BY <2>2, <2>3, <2>4 DEF Bijection, Injection, Surjection, IsInjective
<1>7. IsFiniteSet(Tokens(f)) /\ IsFiniteSet(Tokens(g))
  BY TotalType
<1>8. IsFiniteSet(U) /\ Cardinality(U) = Total(g)
  <2> HIDE DEF b, U
  <2>. QED BY <1>6, <1>7, FS_Bijection DEF ExistsBijection, Total
<1>9. Total(h) = Total(f) + Total(g)
  <2> HIDE DEF h, U
  <2>1. Cardinality(Tokens(f) \cup U) =
          Cardinality(Tokens(f)) + Cardinality(U) - Cardinality(Tokens(f) \cap U)
    BY <1>7, <1>8, FS_Union, Zenon
  <2>2. Cardinality(Tokens(f) \cap U) = 0
    BY <1>5, FS_EmptySet
  <2>3. Total(f) \in Nat /\ Total(g) \in Nat
    BY TotalType
  <2>. QED BY <1>5, <1>8, <2>1, <2>2, <2>3 DEF Total
<1>. QED BY <1>9

(* A multiple of a table totals the multiple of its total. *)
LEMMA TotalScale ==
  ASSUME NEW S, IsFiniteSet(S), NEW f \in [S -> Nat], NEW k \in Nat
  PROVE  Total([c \in S |-> f[c] * k]) = Total(f) * k
<1>0. SUFFICES ASSUME k # 0
               PROVE  Total([c \in S |-> f[c] * k]) = Total(f) * k
  <2>1. CASE k = 0
    <3>1. \A c \in S : f[c] * k = 0
      BY <2>1
    <3>2. [c \in S |-> f[c] * k] = [c \in S |-> 0]
      BY <3>1
    <3>3. Total(f) * k = 0
      BY <2>1, TotalType
    <3>. QED BY <3>2, <3>3, TotalZero
  <2>. QED BY <2>1
<1> DEFINE h == [c \in S |-> f[c] * k]
           D == Tokens(f) \X (1 .. k)
           b == [p \in D |-> <<p[1][1], (p[1][2] - 1) * k + p[2]>>]
<1>1. /\ h \in [S -> Nat]
      /\ \A c \in S : f[c] \in Nat /\ h[c] \in Nat /\ h[c] = f[c] * k
  BY MulNat
<1>2. \A t : t \in Tokens(f) <=> t \in S \X Nat /\ t[2] \in 1 .. f[t[1]]
  BY TokensAre
<1>3. \A t : t \in Tokens(h) <=> t \in S \X Nat /\ t[2] \in 1 .. h[t[1]]
  <2> HIDE DEF h
  <2>. QED BY <1>1, TokensAre
<1>4. ASSUME NEW p \in D
      PROVE  /\ p[1][1] \in S /\ p[1][2] \in 1 .. f[p[1][1]] /\ p[2] \in 1 .. k
             /\ p[1][2] \in Nat \ {0} /\ p[2] \in Nat
             /\ p = <<<<p[1][1], p[1][2]>>, p[2]>>
             /\ b[p] = <<p[1][1], (p[1][2] - 1) * k + p[2]>>
  <2>1. p[1] \in Tokens(f) /\ p[2] \in 1 .. k /\ p = <<p[1], p[2]>>
    OBVIOUS
  <2>2. /\ p[1][1] \in S /\ p[1][2] \in 1 .. f[p[1][1]]
        /\ p[1] = <<p[1][1], p[1][2]>>
    BY <1>2, <2>1
  <2>3. p[1][2] \in Nat \ {0} /\ p[2] \in Nat
    BY <1>1, <2>1, <2>2
  <2>. QED BY <2>1, <2>2, <2>3
<1>5. ASSUME NEW p \in D PROVE b[p] \in Tokens(h)
  <2> DEFINE c == p[1][1]  i == p[1][2]  j == p[2]  n == (i - 1) * k + j
  <2>1. c \in S /\ i \in Nat \ {0} /\ i <= f[c] /\ j \in 1 .. k /\ b[p] = <<c, n>>
    BY <1>1, <1>4
  <2> HIDE DEF c, i, j, b, h
  <2>2. (i - 1) * k \in Nat /\ i * k \in Nat /\ (i - 1) * k + k = i * k
    <3>1. i - 1 \in Nat /\ i \in Nat /\ (i - 1) * k + k = i * k
      BY <2>1, SMT
    <3>. QED BY <3>1, MulNat
  <2>3. i * k <= h[c]
    BY <1>1, <2>1, MulMono
  <2>4. n \in Nat /\ n \in 1 .. h[c]
    BY <1>1, <2>1, <2>2, <2>3
  <2> HIDE DEF n
  <2>. QED BY <1>3, <2>1, <2>4
<1>6. ASSUME NEW p \in D, NEW q \in D, b[p] = b[q] PROVE p = q
  <2> DEFINE i == p[1][2]  u == q[1][2]  j == p[2]  v == q[2]
  <2>1. /\ p[1][1] = q[1][1] /\ (i - 1) * k + j = (u - 1) * k + v
        /\ i \in Nat \ {0} /\ u \in Nat \ {0} /\ j \in 1 .. k /\ v \in 1 .. k
    BY <1>4, <1>6
  <2>2. i = u /\ j = v
    <3> HIDE DEF i, j, u, v
    <3> DEFINE x == i - 1  y == u - 1
    <3>1. x \in Nat /\ y \in Nat /\ x * k + j = y * k + v
      BY <2>1
    <3>2. j \in 1 .. k /\ v \in 1 .. k
      BY <2>1
    <3> HIDE DEF x, y
    <3>3. x = y /\ j = v
      <4>1. ASSUME NEW m \in Nat, NEW n \in Nat,
                   NEW r \in 1 .. k, NEW w \in 1 .. k, m * k + r = n * k + w
            PROVE  m = n /\ r = w
        BY <4>1, RemainderUnique
      <4>. QED BY <3>1, <3>2, <4>1
    <3> USE DEF x, y
    <3>. QED BY <2>1, <3>3
  <2>. QED BY <1>4, <2>1, <2>2
<1>7. ASSUME NEW t \in Tokens(h) PROVE \E p \in D : b[p] = t
  <2> DEFINE c == t[1]  n == t[2] - 1  e == n \div k
             i == e + 1  j == n - e * k + 1
  <2>1. c \in S /\ t = <<c, t[2]>> /\ t[2] \in 1 .. h[c]
    <3> HIDE DEF h
    <3>. QED BY <1>3
  <2>2. n \in Nat /\ n < f[c] * k /\ t[2] = n + 1
    <3> HIDE DEF h
    <3>. QED BY <1>1, <2>1
  <2> HIDE DEF n, c, h
  <2>3. e \in Nat /\ e * k \in Nat /\ e * k <= n /\ n < e * k + k
    BY <1>0, <2>2, DivFacts, MulNat
  <2> HIDE DEF e
  <2>4. i \in Nat \ {0} /\ j \in 1 .. k /\ (i - 1) * k + j = t[2]
    <3>1. i - 1 = e
      BY <2>3
    <3>2. j \in 1 .. k /\ e * k + j = t[2] /\ i \in Nat \ {0}
      BY <2>2, <2>3
    <3>. QED BY <3>1, <3>2
  <2>5. i <= f[c]
    <3>1. f[c] \in Nat
      BY <1>1, <2>1
    <3>2. SUFFICES ASSUME f[c] <= e PROVE FALSE
      BY <2>3, <3>1
    <3>3. f[c] * k <= e * k /\ f[c] * k \in Nat
      BY <2>3, <3>1, <3>2, MulMono, MulNat
    <3>. QED BY <2>2, <2>3, <3>3
  <2> HIDE DEF i, j
  <2>6. <<c, i>> \in Tokens(f)
    BY <1>1, <1>2, <2>1, <2>4, <2>5
  <2> DEFINE p == <<<<c, i>>, j>>
  <2>7. p \in D /\ b[p] = <<c, (i - 1) * k + j>>
    BY <2>4, <2>6
  <2>. QED BY <2>1, <2>4, <2>7
<1>8. b \in Bijection(D, Tokens(h))
  <2> HIDE DEF h
  <2>1. b \in [D -> Tokens(h)]
    BY <1>5
  <2> HIDE DEF b, D
  <2>. QED BY <1>6, <1>7, <2>1 DEF Bijection, Injection, Surjection, IsInjective
<1>9. IsFiniteSet(Tokens(f)) /\ IsFiniteSet(1 .. k) /\ Cardinality(1 .. k) = k
  BY TotalType, FS_Interval, SMT
<1>10. IsFiniteSet(D) /\ Cardinality(D) = Total(f) * k
  BY <1>9, FS_Product, Zenon DEF Total
<1>11. Total(h) = Total(f) * k
  <2> HIDE DEF b, D, h
  <2>. QED BY <1>8, <1>10, FS_Bijection DEF ExistsBijection, Total
<1>. QED BY <1>11

(* A common positive factor can be dropped from a comparison. *)
LEMMA MulCancel ==
  ASSUME NEW a \in Nat, NEW b \in Nat, NEW k \in Nat, k > 0, a * k <= b * k
  PROVE  a <= b
<1> SUFFICES ASSUME b + 1 <= a PROVE FALSE
  OBVIOUS
<1>1. (b + 1) * k <= a * k
  BY MulMono
<1>2. (b + 1) * k = b * k + k
  BY SMT
<1>3. a * k \in Nat /\ b * k \in Nat
  BY MulNat
<1>. QED BY <1>1, <1>2, <1>3

(* A pool of a tokens, not more than was put in, is divided in proportion   *)
(* to what each put in and every share is rounded down: nobody gets more    *)
(* than he put in, all shares together fit into the pool, and less than one *)
(* token for each is left over.                                             *)
LEMMA SharesOfPool ==
  ASSUME NEW S, IsFiniteSet(S), NEW f \in [S -> Nat], NEW a \in Nat,
         Total(f) > 0, a <= Total(f)
  PROVE  LET g == [c \in S |-> (f[c] * a) \div Total(f)]
         IN  /\ g \in [S -> Nat]
             /\ \A c \in S : g[c] <= f[c]
             /\ Total(g) <= a
             /\ a <= Total(g) + Cardinality(S)
<1> DEFINE r == Total(f)
           g == [c \in S |-> (f[c] * a) \div r]
           one == [c \in S |-> 1]
           h == [c \in S |-> g[c] + one[c]]
           fa == [c \in S |-> f[c] * a]
           gr == [c \in S |-> g[c] * r]
           hr == [c \in S |-> h[c] * r]
<1>1. r \in Nat /\ r > 0 /\ a <= r
  BY TotalType
<1> HIDE DEF r
<1>2. \A c \in S : /\ g[c] \in Nat /\ f[c] * a \in Nat
                   /\ g[c] * r <= f[c] * a
                   /\ f[c] * a <= (g[c] + 1) * r
  <2> SUFFICES ASSUME NEW c \in S
               PROVE  /\ g[c] \in Nat /\ f[c] * a \in Nat
                      /\ g[c] * r <= f[c] * a
                      /\ f[c] * a <= (g[c] + 1) * r
    OBVIOUS
  <2>1. f[c] * a \in Nat
    BY MulNat
  <2>2. /\ (f[c] * a) \div r \in Nat
        /\ ((f[c] * a) \div r) * r <= f[c] * a
        /\ f[c] * a < ((f[c] * a) \div r) * r + r
    BY <1>1, <2>1, DivFacts
  <2>3. g[c] = (f[c] * a) \div r
    OBVIOUS
  <2> HIDE DEF g
  <2>4. g[c] \in Nat /\ g[c] * r <= f[c] * a /\ f[c] * a < g[c] * r + r
    BY <2>2, <2>3
  <2>5. (g[c] + 1) * r = g[c] * r + r /\ g[c] * r \in Nat
    BY <1>1, <2>4, MulNat, SMT
  <2>. QED BY <1>1, <2>1, <2>4, <2>5
<1>3. /\ g \in [S -> Nat] /\ one \in [S -> Nat] /\ h \in [S -> Nat]
      /\ \A c \in S : h[c] = g[c] + 1
  <2>1. g \in [S -> Nat]
    BY <1>2
  <2> HIDE DEF g
  <2>. QED BY <2>1
<1> HIDE DEF g
<1>4. fa \in [S -> Nat] /\ gr \in [S -> Nat] /\ hr \in [S -> Nat]
  <2>1. \A c \in S : fa[c] \in Nat /\ gr[c] \in Nat /\ hr[c] \in Nat
    <3> SUFFICES ASSUME NEW c \in S PROVE fa[c] \in Nat /\ gr[c] \in Nat /\ hr[c] \in Nat
      OBVIOUS
    <3>1. g[c] * r \in Nat /\ h[c] * r \in Nat /\ f[c] * a \in Nat
      BY <1>1, <1>2, <1>3, MulNat
    <3>. QED BY <3>1
  <2>. QED BY <2>1
<1>5. Total(h) = Total(g) + Total(one) /\ Total(one) = Cardinality(S) * 1
  BY <1>3, TotalPlus, TotalConst
<1>6. Total(fa) = r * a
  BY <1>1, TotalScale DEF r
<1>7. Total(gr) = Total(g) * r
  BY <1>1, <1>3, TotalScale
<1>8. Total(hr) = Total(h) * r
  <2> HIDE DEF h
  <2>. QED BY <1>1, <1>3, TotalScale
<1>9. Total(g) \in Nat /\ Total(h) \in Nat /\ Cardinality(S) \in Nat
  BY <1>3, TotalType, FS_CardinalityType
<1>10. Total(gr) <= Total(fa) /\ Total(fa) <= Total(hr)
  <2>1. \A c \in S : gr[c] <= fa[c] /\ fa[c] <= hr[c]
    BY <1>2, <1>3
  <2> HIDE DEF gr, fa, hr
  <2>. QED BY <1>4, <2>1, TotalMono
<1> HIDE DEF one, h, fa, gr, hr
<1>11. a * r = r * a
  BY <1>1, SMT
<1>12. Total(g) <= a
  BY <1>1, <1>6, <1>7, <1>9, <1>10, <1>11, MulCancel
<1>13. a <= Total(h)
  BY <1>1, <1>6, <1>8, <1>9, <1>10, <1>11, MulCancel
<1>14. \A c \in S : g[c] <= f[c]
  <2> SUFFICES ASSUME NEW c \in S PROVE g[c] <= f[c]
    OBVIOUS
  <2>1. f[c] * a <= f[c] * r
    <3>1. a * f[c] <= r * f[c]
      BY <1>1, MulMono
    <3>2. a * f[c] = f[c] * a /\ r * f[c] = f[c] * r
      BY <1>1, SMT
    <3>. QED BY <3>1, <3>2
  <2>2. g[c] * r <= f[c] * r
    <3>1. g[c] * r \in Nat /\ f[c] * a \in Nat /\ f[c] * r \in Nat
      BY <1>1, <1>3, MulNat
    <3>. QED BY <1>2, <2>1, <3>1
  <2>. QED BY <1>1, <1>3, <2>2, MulCancel
<1>15. a <= Total(g) + Cardinality(S)
  BY <1>5, <1>9, <1>13
<1>. QED BY <1>3, <1>12, <1>14, <1>15 DEF g, r
===========================================================================
