----------------------------- MODULE Arithmetic -----------------------------
(***************************************************************************)
(* Facts about natural numbers that the other proofs need: every nonempty  *)
(* set of naturals has a least element, what passes from each number to    *)
(* the next holds for all, a step can be iterated, and quotients and       *)
(* remainders (wrapping counters, ring indices, places in a cluster)       *)
(* behave as one expects.                                                  *)
(***************************************************************************)
EXTENDS Integers, WellFoundedInduction, TLAPS

\* A nonempty set of naturals has a least element: a search loop that finds
\* something finds a first thing.
LEMMA LeastNat ==
    ASSUME NEW T, T \subseteq Nat, T # {}
    PROVE  \E x \in T : \A y \in T : x <= y
<1> DEFINE R == OpToRel(<, Nat)
<1>1. IsWellFoundedOn(R, Nat)
  BY NatLessThanWellFounded, Zenon
<1>2. \A x, y \in Nat : x < y => <<x, y>> \in R
  BY Zenon DEF OpToRel
<1> HIDE DEF R
<1>3. PICK x \in T : \A y \in T : ~(<<y, x>> \in R)
  BY <1>1, WFMin, Zenon
<1>4. ASSUME NEW y \in T PROVE x <= y
  <2>1. x \in Nat /\ y \in Nat
    BY Zenon
  <2>2. ~(y < x)
    BY <1>2, <1>3, <2>1, Zenon
  <2> QED BY <2>1, <2>2
<1> QED BY <1>4, Zenon

\* A property of the naturals that passes from each number to the next holds for
\* all of them: induction, for a property given by the set of numbers that have it.
LEMMA SetInduction ==
    ASSUME NEW T, 0 \in T, \A n \in Nat : n \in T => n + 1 \in T
    PROVE  Nat \subseteq T
<1> SUFFICES ASSUME Nat \ T # {} PROVE FALSE
  BY Zenon
<1>1. PICK x \in Nat \ T : \A y \in Nat \ T : x <= y
  BY LeastNat, Zenon
<1>2. x # 0 /\ x - 1 \in Nat
  BY <1>1
<1>3. x - 1 \in T
  BY <1>1, <1>2
<1> QED BY <1>1, <1>2, <1>3

\* A step function can be iterated: the recursive functions of the modules exist.
LEMMA Iteration ==
    ASSUME NEW S, NEW s \in S, NEW F \in [S -> S]
    PROVE  \E f \in [Nat -> S] : f[0] = s /\ \A n \in Nat : f[n + 1] = F[f[n]]
<1> DEFINE Runs(n) == {g \in [0 .. n -> S] :
                         g[0] = s /\ \A i \in 0 .. (n - 1) : g[i + 1] = F[g[i]]}
           T == {n \in Nat : Runs(n) # {}}
<1>1. 0 \in T
  <2>1. [i \in 0 .. 0 |-> s] \in Runs(0)
    OBVIOUS
  <2> QED BY <2>1, Zenon
<1>2. ASSUME NEW n \in Nat, n \in T PROVE n + 1 \in T
  <2>1. PICK g : g \in Runs(n)
    BY <1>2, Zenon
  <2> DEFINE h == [i \in 0 .. (n + 1) |-> IF i = n + 1 THEN F[g[n]] ELSE g[i]]
  <2>2. g \in [0 .. n -> S] /\ g[0] = s /\ \A i \in 0 .. (n - 1) : g[i + 1] = F[g[i]]
    BY <2>1, Zenon
  <2>3. h \in [0 .. (n + 1) -> S]
    BY <2>2
  <2>4. h[0] = s
    BY <2>2
  <2>5. ASSUME NEW i \in 0 .. n PROVE h[i + 1] = F[h[i]]
    <3>1. i + 1 \in 0 .. (n + 1) /\ i \in 0 .. (n + 1) /\ i # n + 1
      OBVIOUS
    <3>2. h[i] = g[i]
      BY <3>1, Zenon
    <3>3. CASE i = n
      BY <3>1, <3>2, <3>3, Zenon
    <3>4. CASE i # n
      BY <2>2, <3>1, <3>2, <3>4
    <3> QED BY <3>3, <3>4, Zenon
  <2> HIDE DEF h
  <2>6. \A i \in 0 .. ((n + 1) - 1) : h[i + 1] = F[h[i]]
    BY <2>5
  <2>7. h \in Runs(n + 1)
    BY <2>3, <2>4, <2>6, Zenon
  <2> QED BY <2>7
<1>3. Nat \subseteq T
  <2> HIDE DEF T
  <2> QED BY <1>1, <1>2, SetInduction, Zenon
<1>4. ASSUME NEW m \in Nat, NEW n \in Nat, m <= n, NEW g \in Runs(m), NEW h \in Runs(n)
      PROVE  \A i \in 0 .. m : g[i] = h[i]
  <2> DEFINE E == {i \in Nat : i <= m => g[i] = h[i]}
  <2>1. 0 \in E
    BY Zenon
  <2>2. ASSUME NEW i \in Nat, i \in E PROVE i + 1 \in E
    <3>1. CASE i + 1 <= m
      <4>1. i \in 0 .. (m - 1) /\ i \in 0 .. (n - 1) /\ i <= m
        BY <1>4, <3>1
      <4>2. g[i + 1] = F[g[i]] /\ h[i + 1] = F[h[i]]
        BY <4>1, Zenon
      <4> QED BY <2>2, <4>1, <4>2
    <3> QED BY <3>1
  <2>3. Nat \subseteq E
    <3> HIDE DEF E
    <3> QED BY <2>1, <2>2, SetInduction, Zenon
  <2> QED BY <2>3
<1> DEFINE G(n) == CHOOSE g : g \in Runs(n)
           f == [n \in Nat |-> G(n)[n]]
<1>5. \A n \in Nat : G(n) \in Runs(n)
  BY <1>3, Zenon
<1> HIDE DEF G
<1>6. f \in [Nat -> S] /\ f[0] = s
  BY <1>5
<1>7. ASSUME NEW n \in Nat PROVE f[n + 1] = F[f[n]]
  <2>1. G(n + 1)[n] = G(n)[n]
    <3>1. n <= n + 1 /\ n \in 0 .. n /\ n + 1 \in Nat
      OBVIOUS
    <3>2. G(n) \in Runs(n) /\ G(n + 1) \in Runs(n + 1)
      BY <1>5, <3>1, Zenon
    <3> HIDE DEF Runs
    <3>3. \A i \in 0 .. n : G(n)[i] = G(n + 1)[i]
      BY <1>4, <3>1, <3>2, Zenon
    <3> QED BY <3>1, <3>3, Zenon
  <2>2. G(n + 1)[n + 1] = F[G(n + 1)[n]]
    <3>1. G(n + 1) \in Runs(n + 1) /\ n \in 0 .. ((n + 1) - 1)
      BY <1>5
    <3> QED BY <3>1, Zenon
  <2> QED BY <2>1, <2>2
<1> QED BY <1>6, <1>7, Zenon

\* The last of some numbers below a bound.
LEMMA GreatestNat ==
    ASSUME NEW T, T \subseteq Nat, T # {}, NEW k \in Nat, \A x \in T : x <= k
    PROVE  \E x \in T : \A y \in T : y <= x
<1> DEFINE G == {k - x : x \in T}
<1>1. \A x \in T : x \in Nat /\ k - x \in Nat
  OBVIOUS
<1>2. G \subseteq Nat /\ G # {}
  BY <1>1, Zenon
<1>3. PICK g \in G : \A y \in G : g <= y
  BY <1>2, LeastNat, Zenon
<1>4. PICK x \in T : g = k - x
  BY <1>3, Zenon
<1>5. \A y \in T : k - x <= k - y
  BY <1>3, <1>4, Zenon
<1>6. \A y \in T : y <= x
  BY <1>1, <1>5
<1> QED BY <1>6, Zenon

\* What holds of a member whenever it holds of all higher ones holds of all.
LEMMA DownInduction ==
    ASSUME NEW F, F \subseteq Nat, NEW k \in Nat, \A c \in F : c <= k,
           NEW T, \A c \in F : (\A d \in F : c < d => d \in T) => c \in T
    PROVE  F \subseteq T
<1> SUFFICES ASSUME F \ T # {} PROVE FALSE
  BY Zenon
<1> DEFINE G == {k - c : c \in F \ T}
<1>0. \A c \in F : c \in Nat /\ c <= k
  BY Zenon
<1>1. G \subseteq Nat /\ G # {}
  <2>1. \A c \in F : k - c \in Nat
    BY <1>0
  <2>2. PICK c \in F \ T : TRUE
    BY Zenon
  <2>3. k - c \in G
    BY <2>2, Zenon
  <2> QED BY <2>1, <2>3
<1>2. PICK x \in G : \A y \in G : x <= y
  <2> HIDE DEF G
  <2> QED BY <1>1, LeastNat, Zenon
<1>3. PICK c \in F \ T : x = k - c
  BY <1>2, Zenon
<1>4. ASSUME NEW d \in F, c < d PROVE d \in T
  <2>1. SUFFICES ASSUME d \notin T PROVE FALSE
    BY Zenon
  <2>2. k - d \in G
    BY <2>1, Zenon
  <2>3. k - c <= k - d
    BY <1>2, <1>3, <2>2, Zenon
  <2> QED BY <1>3, <1>4, <2>3
<1> QED BY <1>3, <1>4, Zenon

\* v is what N turns of F make of e.
Repeated(v, Q, e, F, N) ==
    /\ v \in [0 .. N -> Q] /\ v[0] = e
    /\ \A k \in 0 .. N : k # 0 => v[k] = F[v[k - 1]]

\* There is such a v.
LEMMA RepeatedExists ==
    ASSUME NEW Q, NEW e \in Q, NEW F \in [Q -> Q], NEW N \in Nat
    PROVE  \E v : Repeated(v, Q, e, F, N)
<1>1. PICK f \in [Nat -> Q] : f[0] = e /\ \A n \in Nat : f[n + 1] = F[f[n]]
  BY Iteration
<1> DEFINE v == [k \in 0 .. N |-> f[k]]
<1>2. v \in [0 .. N -> Q] /\ v[0] = e
  BY <1>1
<1>3. ASSUME NEW k \in 0 .. N, k # 0 PROVE v[k] = F[v[k - 1]]
  <2>1. k - 1 \in Nat /\ k - 1 \in 0 .. N /\ (k - 1) + 1 = k
    BY <1>3
  <2>2. f[k] = F[f[k - 1]]
    BY <1>1, <2>1, Zenon
  <2> QED BY <2>1, <2>2, Zenon
<1>4. Repeated(v, Q, e, F, N)
  BY <1>2, <1>3, Zenon DEF Repeated
<1> QED BY <1>4, Zenon

\* f says where the walk along nx from each member of S stops.
Seeks(f, S, stop, nx) == f = [c \in S |-> IF c \in stop THEN c ELSE f[nx[c]]]

\* There is such a function, whatever the walk is over.
LEMMA SeekExists ==
    ASSUME NEW S, NEW stop, NEW nx, \A c \in S \ stop : nx[c] \in S
    PROVE  \E f : Seeks(f, S, stop, nx)
<1> DEFINE Way(c, d, o, n) == /\ o[0] = c /\ o[n] = d
                              /\ \A i \in 0 .. (n - 1) : /\ o[i] \notin stop
                                                         /\ o[i + 1] = nx[o[i]]
           T(c) == {d \in S \cap stop : \E o \in [Nat -> S] : \E n \in Nat : Way(c, d, o, n)}
           Member(X) == IF X = {} THEN 0 ELSE CHOOSE d : d \in X
           f == [c \in S |-> Member(T(c))]
<1>1. ASSUME NEW c \in S, c \in stop PROVE T(c) = {c}
  <2>1. c \in T(c)
    <3>1. Way(c, c, [i \in Nat |-> c], 0)
      OBVIOUS
    <3> QED BY <1>1, <3>1, Zenon
  <2>2. ASSUME NEW d \in T(c) PROVE d = c
    <3>1. PICK o \in [Nat -> S], n \in Nat : Way(c, d, o, n)
      BY <2>2, Zenon
    <3>2. n = 0
      <4>1. SUFFICES ASSUME n # 0 PROVE FALSE
        BY Zenon
      <4>2. 0 \in 0 .. (n - 1)
        BY <4>1
      <4> QED BY <1>1, <3>1, <4>2, Zenon
    <3> QED BY <3>1, <3>2, Zenon
  <2> QED BY <2>1, <2>2, Zenon
<1>2. ASSUME NEW c \in S, c \notin stop PROVE nx[c] \in S /\ T(c) = T(nx[c])
  <2>1. nx[c] \in S
    BY <1>2, Zenon
  <2>2. ASSUME NEW d \in T(c) PROVE d \in T(nx[c])
    <3>1. PICK o \in [Nat -> S], n \in Nat : Way(c, d, o, n)
      BY <2>2, Zenon
    <3>2. n # 0
      BY <1>2, <2>2, <3>1, Zenon
    <3> DEFINE q == [i \in Nat |-> o[i + 1]]
    <3>3. n - 1 \in Nat /\ n - 1 + 1 = n /\ 0 \in 0 .. (n - 1)
      BY <3>2
    <3>4. q \in [Nat -> S] /\ q[0] = nx[c] /\ q[n - 1] = d
      BY <3>1, <3>3
    <3>5. ASSUME NEW i \in 0 .. (n - 1 - 1)
          PROVE  q[i] \notin stop /\ q[i + 1] = nx[q[i]]
      <4>1. i + 1 \in 0 .. (n - 1) /\ i \in Nat /\ i + 1 \in Nat
        BY <3>3
      <4>2. o[i + 1] \notin stop /\ o[i + 1 + 1] = nx[o[i + 1]]
        BY <3>1, <4>1, Zenon
      <4> QED BY <4>1, <4>2, Zenon
    <3> HIDE DEF q
    <3>6. Way(nx[c], d, q, n - 1)
      BY <3>4, <3>5, Zenon
    <3> HIDE DEF Way
    <3> QED BY <2>2, <3>3, <3>4, <3>6, Zenon
  <2>3. ASSUME NEW d \in T(nx[c]) PROVE d \in T(c)
    <3>1. PICK o \in [Nat -> S], n \in Nat : Way(nx[c], d, o, n)
      BY <2>3, Zenon
    <3> DEFINE q == [i \in Nat |-> IF i = 0 THEN c ELSE o[i - 1]]
    <3>2. q \in [Nat -> S] /\ q[0] = c /\ q[n + 1] = d
      BY <3>1
    <3>3. ASSUME NEW i \in 0 .. (n + 1 - 1)
          PROVE  q[i] \notin stop /\ q[i + 1] = nx[q[i]]
      <4>1. i \in Nat /\ i + 1 \in Nat /\ i + 1 # 0 /\ i + 1 - 1 = i
        OBVIOUS
      <4>2. q[i + 1] = o[i]
        BY <4>1
      <4>3. CASE i = 0
        BY <1>2, <3>1, <4>2, <4>3, Zenon
      <4>4. CASE i # 0
        <5>1. i - 1 \in 0 .. (n - 1) /\ i - 1 + 1 = i
          BY <4>4
        <5>2. o[i - 1] \notin stop /\ o[i] = nx[o[i - 1]]
          BY <3>1, <5>1, Zenon
        <5> QED BY <4>1, <4>2, <4>4, <5>2, Zenon
      <4> QED BY <4>3, <4>4, Zenon
    <3> HIDE DEF q
    <3>4. Way(c, d, q, n + 1)
      BY <3>2, <3>3
    <3> HIDE DEF Way
    <3> QED BY <2>3, <3>2, <3>4
  <2> HIDE DEF T
  <2> QED BY <2>1, <2>2, <2>3, Zenon
<1>3. ASSUME NEW c \in S PROVE f[c] = IF c \in stop THEN c ELSE f[nx[c]]
  <2>1. Member({c}) = c
    BY Zenon
  <2> HIDE DEF T, Member
  <2>2. f[c] = Member(T(c)) /\ (c \notin stop => f[nx[c]] = Member(T(nx[c])))
    BY <1>2, Zenon
  <2> HIDE DEF f
  <2>3. CASE c \in stop
    BY <1>1, <2>1, <2>2, <2>3, Zenon
  <2>4. CASE c \notin stop
    BY <1>2, <2>2, <2>4, Zenon
  <2> QED BY <2>3, <2>4, Zenon
<1> HIDE DEF T, Member
<1>4. f = [c \in S |-> IF c \in stop THEN c ELSE f[nx[c]]]
  <2> DEFINE e == [c \in S |-> IF c \in stop THEN c ELSE f[nx[c]]]
  <2>1. DOMAIN f = S /\ f = [c \in DOMAIN f |-> f[c]]
    BY Zenon
  <2>2. \A c \in S : f[c] = e[c]
    BY <1>3, Zenon
  <2>3. DOMAIN e = S /\ e = [c \in DOMAIN e |-> e[c]]
    BY Zenon
  <2> HIDE DEF f, e
  <2>4. f = e
    BY <2>1, <2>2, <2>3, Zenon
  <2> QED BY <2>4, Zenon DEF e
<1>5. Seeks(f, S, stop, nx)
  BY <1>4, Zenon DEF Seeks
<1> HIDE DEF f
<1> QED BY <1>5, Zenon

\* The remainder lies below the divisor.
LEMMA ModRange ==
    ASSUME NEW n \in Nat \ {0}, NEW a \in Int
    PROVE  (a % n) \in 0 .. (n - 1)
BY Z3

\* A remainder is determined by any quotient that leaves it in range.
LEMMA ModUnique ==
    ASSUME NEW n \in Nat \ {0}, NEW a \in Int, NEW q \in Int,
           NEW r \in 0 .. (n - 1), a = n * q + r
    PROVE  a % n = r
BY Z3

\* A number in range is its own remainder.
LEMMA ModSmall ==
    ASSUME NEW n \in Nat \ {0}, NEW a \in 0 .. (n - 1)
    PROVE  /\ a % n = a
           /\ (a + n) % n = a
BY Z3

\* Every number is a multiple of the divisor plus its remainder.
LEMMA ModSplit ==
    ASSUME NEW n \in Nat \ {0}, NEW a \in Int
    PROVE  \E q \in Int : a = n * q + (a % n)
<1>1. a = n * (a \div n) + (a % n)
  BY Z3
<1>2. a \div n \in Int
  BY Z3
<1> QED BY <1>1, <1>2, Zenon

\* Adding a multiple of the divisor leaves the remainder.
LEMMA ModShift ==
    ASSUME NEW n \in Nat \ {0}, NEW a \in Int, NEW k \in Int
    PROVE  (a + n * k) % n = a % n
<1>1. PICK q \in Int : a = n * q + (a % n)
  BY ModSplit, Zenon
<1>2. n * q + n * k = n * (q + k)
  BY Z3
<1>3. a + n * k = n * (q + k) + (a % n)
  BY <1>1, <1>2, Z3
<1>4. (a % n) \in 0 .. (n - 1)
  BY ModRange, Zenon
<1>5. a + n * k \in Int /\ q + k \in Int
  OBVIOUS
<1> QED BY <1>3, <1>4, <1>5, ModUnique, Zenon

\* Wrapping before or after an addition comes to the same.
LEMMA ModAdd ==
    ASSUME NEW n \in Nat \ {0}, NEW a \in Int, NEW b \in Int
    PROVE  ((a % n) + b) % n = (a + b) % n
<1> DEFINE c == a % n
<1>1. PICK q \in Int : a = n * q + c
  BY ModSplit, Zenon
<1>2. c \in Int
  BY Z3
<1> HIDE DEF c
<1>3. (c + b) + n * q = a + b
  BY <1>1, <1>2, Z3
<1>4. c + b \in Int
  BY <1>2
<1>5. ((c + b) + n * q) % n = (c + b) % n
  BY <1>4, ModShift, Zenon
<1> QED BY <1>3, <1>5, Zenon DEF c

\* Division by a number that is not 0
LEMMA DivIs ==
    ASSUME NEW n \in Nat \ {0}, NEW a \in Nat
    PROVE  /\ a \div n \in Nat
           /\ n * (a \div n) <= a
           /\ a < n * (a \div n) + n
BY Z3

\* A multiple is divided without a remainder.
LEMMA DivMul ==
    ASSUME NEW n \in Nat \ {0}, NEW q \in Nat
    PROVE  (n * q) \div n = q /\ (q * n) \div n = q /\ (q * n) % n = 0
BY Z3

\* Multiples are ordered as their factors.
LEMMA MulLess ==
    ASSUME NEW n \in Nat \ {0}, NEW a \in Int, NEW b \in Int
    PROVE  /\ n * a < n * b <=> a < b
           /\ n * a <= n * b <=> a <= b
BY Z3

\* A quotient is determined by a remainder in range.
LEMMA DivUnique ==
    ASSUME NEW n \in Nat \ {0}, NEW a \in Int, NEW q \in Int,
           NEW r \in 0 .. (n - 1), a = n * q + r
    PROVE  a \div n = q /\ a % n = r
BY Z3

\* Powers of the base of the digits
LEMMA Sixteens ==
    /\ 16^0 = 1 /\ 16^1 = 16 /\ 16^2 = 256 /\ 16^3 = 4096 /\ 16^4 = 65536
    /\ 16^5 = 1048576 /\ 16^6 = 16777216
BY SMT

\* A number is made of its digits.
LEMMA Digits ==
    ASSUME NEW r \in Nat, r < 268435456
    PROVE  /\ r < 4096 => r = (r % 16) + 16 * ((r \div 16) % 16) + 256 * ((r \div 256) % 16)
           /\ r < 65536 => r = (r % 16) + 16 * ((r \div 16) % 16)
                                + 256 * ((r \div 256) % 16) + 4096 * ((r \div 4096) % 16)
           /\ r = (r % 16) + 16 * ((r \div 16) % 16) + 256 * ((r \div 256) % 16)
                  + 4096 * ((r \div 4096) % 16) + 65536 * ((r \div 65536) % 16)
                  + 1048576 * ((r \div 1048576) % 16) + 16777216 * ((r \div 16777216) % 16)
<1> DEFINE a == r \div 16
           b == r \div 256
           c == r \div 4096
           d == r \div 65536
           e == r \div 1048576
           f == r \div 16777216
<1>1. a \in Nat /\ b \in Nat /\ c \in Nat /\ d \in Nat /\ e \in Nat /\ f \in Nat
  BY SMT
<1>2. r = 16 * a + (r % 16)
  BY SMT
<1>3. a = 16 * b + (a % 16)
  BY SMT
<1>4. b = 16 * c + (b % 16)
  BY SMT
<1>5. c = 16 * d + (c % 16)
  BY SMT
<1>6. d = 16 * e + (d % 16)
  BY SMT
<1>7. e = 16 * f + (e % 16)
  BY SMT
<1>8. f = f % 16
  BY SMT
<1>9. r < 4096 => c = 0
  BY SMT
<1>10. r < 65536 => d = 0
  BY SMT
<1> HIDE DEF a, b, c, d, e, f
<1>11. r < 4096 => r = (r % 16) + 16 * (a % 16) + 256 * (b % 16)
  BY <1>1, <1>2, <1>3, <1>4, <1>9, SMT
<1>12. r < 65536 => r = (r % 16) + 16 * (a % 16) + 256 * (b % 16) + 4096 * (c % 16)
  BY <1>1, <1>2, <1>3, <1>4, <1>5, <1>10, SMT
<1>13. r = (r % 16) + 16 * (a % 16) + 256 * (b % 16) + 4096 * (c % 16)
              + 65536 * (d % 16) + 1048576 * (e % 16) + 16777216 * (f % 16)
  BY <1>1, <1>2, <1>3, <1>4, <1>5, <1>6, <1>7, <1>8, SMT
<1> QED BY <1>11, <1>12, <1>13, SMT DEF a, b, c, d, e, f
=============================================================================
