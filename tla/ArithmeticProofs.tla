--------------------------- MODULE ArithmeticProofs ---------------------------
(***************************************************************************)
(* What the programs compute, proved for every input: the budget of a      *)
(* recording, the dongle that a search finds, the commands that a server   *)
(* understands, the settings nearest to what is asked for, the             *)
(* oscillators' registers and the signal that is demodulated in blocks.    *)
(***************************************************************************)
EXTENDS StreamPrograms, Arithmetic, FiniteSetTheorems, SequenceTheorems,
        WellFoundedInduction, TLAPS

(* The least number of a set of naturals, and induction over the naturals.   *)
LEMMA LeastNumber ==
  ASSUME NEW T \in SUBSET Nat, T # {}
  PROVE  \E n \in T : \A m \in T : n <= m
<1> DEFINE less == {p \in Nat \X Nat : p[1] < p[2]}
<1>1. IsWellFoundedOn(less, Nat)
  BY NatLessThanWellFounded DEF OpToRel
<1>2. \A m, n \in Nat : m < n => <<m, n>> \in less
  OBVIOUS
<1> HIDE DEF less
<1>3. PICK n \in T : \A m \in T : ~ (<<m, n>> \in less)
  BY <1>1, WFMin
<1>4. \A m \in T : ~ (m < n)
  BY <1>2, <1>3
<1> QED BY <1>4

LEMMA Induction ==
  ASSUME NEW S, 0 \in S, \A n \in Nat : n \in S => n + 1 \in S
  PROVE  Nat \subseteq S
<1>1. SUFFICES ASSUME Nat \ S # {} PROVE FALSE
  OBVIOUS
<1>2. PICK n \in Nat \ S : \A m \in Nat \ S : n <= m
  BY <1>1, LeastNumber
<1>3. n - 1 \in Nat /\ n - 1 \in S
  BY <1>2
<1> QED BY <1>2, <1>3

(* A function that is defined by its value at something smaller: what solves *)
(* its equation, and that there is such a function.                          *)
Solves(f, D, A, m, e, z, G) ==
  /\ f \in [D -> A]
  /\ \A d \in D : f[d] = IF m[d] = 0 THEN z ELSE G[f[e[d]], d]

Descends(D, A, m, e, z, G) ==
  /\ m \in [D -> Nat] /\ e \in [D -> D] /\ z \in A /\ G \in [A \X D -> A]
  /\ \A d \in D : m[d] # 0 => m[e[d]] < m[d]

LEMMA Recursion ==
  ASSUME NEW D, NEW A, NEW m, NEW e, NEW z, NEW G, Descends(D, A, m, e, z, G)
  PROVE  \E f : Solves(f, D, A, m, e, z, G)
<1> DEFINE Below(n) == {d \in D : m[d] <= n}
           Part(n, h) == /\ h \in [Below(n) -> A]
                         /\ \A d \in Below(n) : h[d] = IF m[d] = 0 THEN z ELSE G[h[e[d]], d]
           S == {n \in Nat : \E h : Part(n, h)}
<1>0. /\ m \in [D -> Nat] /\ e \in [D -> D] /\ z \in A /\ G \in [A \X D -> A]
      /\ \A d \in D : m[d] # 0 => m[e[d]] < m[d]
  BY DEF Descends
<1>1. 0 \in S
  <2> DEFINE h == [d \in Below(0) |-> z]
  <2>1. \A d \in Below(0) : m[d] = 0
    BY <1>0
  <2>2. Part(0, h)
    BY <1>0, <2>1
  <2> QED BY <2>2
<1>2. ASSUME NEW n \in Nat, n \in S PROVE n + 1 \in S
  <2>1. PICK h : Part(n, h)
    BY <1>2
  <2> DEFINE g == [d \in Below(n + 1) |-> IF m[d] = 0 THEN z ELSE G[h[e[d]], d]]
  <2>2. \A d \in Below(n + 1) : m[d] # 0 => e[d] \in Below(n) /\ e[d] \in Below(n + 1)
    BY <1>0
  <2>3. g \in [Below(n + 1) -> A]
    <3>1. \A d \in Below(n + 1) : m[d] # 0 => h[e[d]] \in A
      BY <2>1, <2>2
    <3> QED BY <3>1, <1>0
  <2>4. \A d \in Below(n) : d \in Below(n + 1) /\ h[d] = g[d]
    <3>1. SUFFICES ASSUME NEW d \in Below(n) PROVE d \in Below(n + 1) /\ h[d] = g[d]
      OBVIOUS
    <3>2. d \in Below(n + 1)
      BY <1>0
    <3>3. h[d] = IF m[d] = 0 THEN z ELSE G[h[e[d]], d]
      BY <2>1
    <3> QED BY <3>2, <3>3
  <2>5. \A d \in Below(n + 1) : g[d] = IF m[d] = 0 THEN z ELSE G[g[e[d]], d]
    BY <2>2, <2>4
  <2> HIDE DEF g
  <2>6. Part(n + 1, g)
    BY <2>3, <2>5
  <2> HIDE DEF Part
  <2> QED BY <2>6
<1>3. Nat \subseteq S
  BY <1>1, <1>2, Induction
<1> DEFINE H(n) == CHOOSE h : Part(n, h)
           f == [d \in D |-> H(m[d])[d]]
<1>4. \A n \in Nat : Part(n, H(n))
  BY <1>3
<1>5. ASSUME NEW n \in Nat, NEW k \in Nat, k <= n, NEW d \in Below(k)
      PROVE  H(k)[d] = H(n)[d]
  <2>1. Below(k) \subseteq Below(n)
    <3> SUFFICES ASSUME NEW c \in D, m[c] <= k PROVE m[c] <= n
      OBVIOUS
    <3>1. m[c] \in Nat
      BY <1>0
    <3> QED BY <3>1, <1>5
  <2> DEFINE T == {m[c] : c \in {c \in Below(k) : H(k)[c] # H(n)[c]}}
  <2>0. H(k)[d] # H(n)[d] => m[d] \in T
    OBVIOUS
  <2> HIDE DEF T
  <2>2. SUFFICES ASSUME T # {} PROVE FALSE
    BY <2>0
  <2> USE DEF T
  <2>3. T \in SUBSET Nat
    <3>1. \A c \in Below(k) : m[c] \in Nat
      BY <1>0
    <3> QED BY <3>1
  <2>4. PICK l \in T : \A j \in T : l <= j
    BY <2>2, <2>3, LeastNumber
  <2>5. PICK c \in Below(k) : m[c] = l /\ H(k)[c] # H(n)[c]
    OBVIOUS
  <2>6. Part(k, H(k)) /\ Part(n, H(n))
    BY <1>4
  <2>10. \A b \in Below(k) : H(k)[b] # H(n)[b] => m[b] \in T
    OBVIOUS
  <2> HIDE DEF H, T
  <2>7. m[c] # 0
    BY <2>1, <2>5, <2>6
  <2>8. e[c] \in Below(k) /\ m[e[c]] < l /\ m[e[c]] \in Nat /\ l \in Nat
    BY <1>0, <2>5, <2>7
  <2>9. H(k)[e[c]] = H(n)[e[c]]
    BY <2>4, <2>8, <2>10
  <2>11. H(k)[c] = G[H(k)[e[c]], c] /\ H(n)[c] = G[H(n)[e[c]], c]
    BY <2>1, <2>5, <2>6, <2>7
  <2> QED BY <2>5, <2>9, <2>11
<1>6. f \in [D -> A]
  <2> SUFFICES ASSUME NEW d \in D PROVE H(m[d])[d] \in A
    OBVIOUS
  <2>1. m[d] \in Nat /\ d \in Below(m[d])
    BY <1>0
  <2>2. Part(m[d], H(m[d]))
    BY <2>1, <1>4
  <2> HIDE DEF H
  <2> QED BY <2>1, <2>2
<1>7. ASSUME NEW d \in D PROVE f[d] = IF m[d] = 0 THEN z ELSE G[f[e[d]], d]
  <2>1. m[d] \in Nat /\ d \in Below(m[d])
    BY <1>0
  <2>2. H(m[d])[d] = IF m[d] = 0 THEN z ELSE G[H(m[d])[e[d]], d]
    <3>1. Part(m[d], H(m[d]))
      BY <2>1, <1>4
    <3> HIDE DEF H
    <3> QED BY <2>1, <3>1
  <2>3. CASE m[d] # 0
    <3>1. /\ e[d] \in D /\ m[e[d]] \in Nat /\ m[e[d]] <= m[d]
          /\ e[d] \in Below(m[e[d]])
      BY <1>0, <2>1, <2>3
    <3> HIDE DEF H
    <3>2. H(m[e[d]])[e[d]] = H(m[d])[e[d]]
      BY <3>1, <2>1, <1>5
    <3> QED BY <2>2, <2>3, <3>1, <3>2
  <2> HIDE DEF H
  <2> QED BY <2>2, <2>3
<1> HIDE DEF f
<1> QED BY <1>6, <1>7 DEF Solves

(* A fold over a sequence runs along its initial segments.                   *)
Runs(f, n, A, z, G) ==
  /\ f \in [SUBSET (1 .. n) -> A]
  /\ \A s \in SUBSET (1 .. n) :
       f[s] = IF s = {} THEN z ELSE G[f[s \ {Max(s)}], Max(s)]

LEMMA MaxOf ==
  ASSUME NEW n \in Nat, NEW s \in SUBSET (1 .. n), s # {}
  PROVE  Max(s) \in s /\ \A k \in s : k <= Max(s)
<1> DEFINE T == {n - k : k \in s}
<1>1. T \in SUBSET Nat /\ T # {}
  <2>1. \A k \in s : n - k \in Nat
    OBVIOUS
  <2> QED BY <2>1
<1>2. PICK l \in T : \A j \in T : l <= j
  BY <1>1, LeastNumber
<1>3. n - l \in s /\ \A k \in s : l <= n - k
  BY <1>2
<1>4. \A k \in s : n - l >= k
  <2> TAKE k \in s
  <2>1. l <= n - k /\ l \in Nat /\ k \in Nat
    BY <1>1, <1>2, <1>3
  <2> HIDE DEF T
  <2> QED BY <2>1
<1> HIDE DEF T
<1>5. \E x \in s : \A y \in s : x >= y
  BY <1>3, <1>4
<1>6. Max(s) \in s /\ \A y \in s : Max(s) >= y
  BY <1>5 DEF Max
<1>7. s \subseteq Nat
  OBVIOUS
<1> QED BY <1>6, <1>7

LEMMA MaxOfSegment ==
  ASSUME NEW n \in Nat, NEW k \in Nat, k + 1 <= n
  PROVE  /\ 1 .. k + 1 \in SUBSET (1 .. n) /\ 1 .. k + 1 # {} /\ k + 1 \in 1 .. n
         /\ Max(1 .. k + 1) = k + 1 /\ (1 .. k + 1) \ {k + 1} = 1 .. k
<1>1. k + 1 \in 1 .. k + 1 /\ 1 .. k + 1 \in SUBSET (1 .. n) /\ 1 .. k + 1 # {}
  OBVIOUS
<1>2. Max(1 .. k + 1) \in 1 .. k + 1 /\ k + 1 <= Max(1 .. k + 1)
  BY <1>1, MaxOf
<1> QED BY <1>1, <1>2

LEMMA FoldRun ==
  ASSUME NEW n \in Nat, NEW A, NEW z \in A, NEW G \in [A \X (1 .. n) -> A]
  PROVE  \E f : Runs(f, n, A, z, G)
<1> DEFINE D == SUBSET (1 .. n)
           m == [s \in D |-> IF s = {} THEN 0 ELSE Max(s)]
           e == [s \in D |-> IF s = {} THEN s ELSE s \ {Max(s)}]
           H == [p \in A \X D |-> IF p[2] = {} THEN z ELSE G[p[1], Max(p[2])]]
<1>1. \A s \in D : s # {} => Max(s) \in s /\ Max(s) \in 1 .. n
  BY MaxOf
<1>2. Descends(D, A, m, e, z, H)
  <2>1. m \in [D -> Nat]
    BY <1>1
  <2>2. e \in [D -> D]
    OBVIOUS
  <2>3. H \in [A \X D -> A]
    BY <1>1
  <2>4. ASSUME NEW s \in D, m[s] # 0 PROVE m[e[s]] < m[s]
    <3>1. s # {} /\ m[s] = Max(s) /\ e[s] = s \ {Max(s)} /\ e[s] \in D
      BY <2>4
    <3>2. Max(s) \in 1 .. n /\ \A k \in s : k <= Max(s)
      BY <1>1, <3>1, MaxOf
    <3>3. CASE e[s] = {}
      BY <3>1, <3>2, <3>3
    <3>4. CASE e[s] # {}
      <4>1. m[e[s]] = Max(e[s]) /\ Max(e[s]) \in e[s] /\ Max(e[s]) \in 1 .. n
        BY <1>1, <3>1, <3>4
      <4>2. Max(e[s]) <= Max(s) /\ Max(e[s]) # Max(s)
        BY <4>1, <3>1, <3>2
      <4> QED BY <4>1, <4>2, <3>1, <3>2
    <3> QED BY <3>3, <3>4
  <2> QED BY <2>1, <2>2, <2>3, <2>4 DEF Descends
<1>3. PICK f : Solves(f, D, A, m, e, z, H)
  <2> HIDE DEF D, m, e, H
  <2> QED BY <1>2, Recursion
<1>4. ASSUME NEW s \in D
      PROVE  f[s] = IF s = {} THEN z ELSE G[f[s \ {Max(s)}], Max(s)]
  <2>1. f[s] = IF m[s] = 0 THEN z ELSE H[f[e[s]], s]
    BY <1>3 DEF Solves
  <2>2. CASE s = {}
    BY <2>1, <2>2
  <2>3. CASE s # {}
    <3>1. m[s] = Max(s) /\ e[s] = s \ {Max(s)} /\ e[s] \in D
      BY <2>3
    <3>3. m[s] # 0
      BY <1>1, <2>3, <3>1
    <3>2. f[e[s]] \in A
      BY <1>3, <3>1 DEF Solves
    <3> QED BY <2>1, <2>3, <3>1, <3>2, <3>3
  <2> QED BY <2>2, <2>3
<1>5. f \in [D -> A]
  BY <1>3 DEF Solves
<1> QED BY <1>4, <1>5 DEF Runs

------------------------------------------------------------------------------
(* What joining and cutting sequences gives.                                 *)
LEMMA Appended ==
  ASSUME NEW S, NEW s \in Seq(S), NEW x \in S
  PROVE  /\ Append(s, x) \in Seq(S) /\ Len(s) \in Nat
         /\ Len(Append(s, x)) = Len(s) + 1 /\ Append(s, x)[Len(s) + 1] = x
         /\ \A k \in 1 .. Len(s) : Append(s, x)[k] = s[k]
OBVIOUS

LEMMA Joined ==
  ASSUME NEW S, NEW s \in Seq(S), NEW t \in Seq(S)
  PROVE  /\ s \o t \in Seq(S) /\ Len(s \o t) = Len(s) + Len(t)
         /\ Len(s) \in Nat /\ Len(t) \in Nat
         /\ \A k \in 1 .. Len(s) : (s \o t)[k] = s[k]
         /\ \A k \in 1 .. Len(t) : (s \o t)[Len(s) + k] = t[k]
<1>1. \A i \in 1 .. Len(s) + Len(t) :
        (s \o t)[i] = IF i <= Len(s) THEN s[i] ELSE t[i - Len(s)]
  BY ConcatProperties
<1>2. s \o t \in Seq(S) /\ Len(s \o t) = Len(s) + Len(t)
  BY ConcatProperties
<1>3. Len(s) \in Nat /\ Len(t) \in Nat
  BY LenProperties
<1>4. ASSUME NEW k \in 1 .. Len(t) PROVE (s \o t)[Len(s) + k] = t[k]
  <2>1. Len(s) + k \in 1 .. Len(s) + Len(t) /\ ~ (Len(s) + k <= Len(s)) /\ Len(s) + k - Len(s) = k
    BY <1>3
  <2> QED BY <1>1, <2>1
<1>5. ASSUME NEW k \in 1 .. Len(s) PROVE (s \o t)[k] = s[k]
  <2>1. k \in 1 .. Len(s) + Len(t) /\ k <= Len(s)
    BY <1>3
  <2> QED BY <1>1, <2>1
<1> QED BY <1>2, <1>3, <1>4, <1>5

LEMMA JoinedInts ==
  ASSUME NEW s \in Seq(Int), NEW t \in Seq(Int)
  PROVE  /\ s \o t \in Seq(Int) /\ Len(s \o t) = Len(s) + Len(t)
         /\ Len(s) \in Nat /\ Len(t) \in Nat
         /\ \A k \in 1 .. Len(s) : (s \o t)[k] = s[k]
         /\ \A k \in 1 .. Len(t) : (s \o t)[Len(s) + k] = t[k]
BY Joined

LEMMA RestOf ==
  ASSUME NEW S, NEW s \in Seq(S), NEW n \in Nat, n <= Len(s)
  PROVE  /\ SubSeq(s, n + 1, Len(s)) \in Seq(S)
         /\ Len(SubSeq(s, n + 1, Len(s))) = Len(s) - n
         /\ \A k \in 1 .. Len(s) - n : SubSeq(s, n + 1, Len(s))[k] = s[n + k]
<1>1. Len(s) \in Nat /\ \A i \in n + 1 .. Len(s) : s[i] \in S
  BY LenProperties
<1>2. \A k \in 1 .. Len(s) - n : n + 1 + k - 1 = n + k /\ k \in 1 .. Len(s) - (n + 1) + 1
  BY <1>1
<1>3. /\ SubSeq(s, n + 1, Len(s)) \in Seq(S)
      /\ Len(SubSeq(s, n + 1, Len(s))) =
           IF n + 1 <= Len(s) THEN Len(s) - (n + 1) + 1 ELSE 0
      /\ \A k \in 1 .. Len(s) - (n + 1) + 1 :
           SubSeq(s, n + 1, Len(s))[k] = s[n + 1 + k - 1]
  <2>1. n + 1 \in Int /\ Len(s) \in Int
    BY <1>1
  <2> QED BY <1>1, <2>1, SubSeqProperties
<1>4. Len(SubSeq(s, n + 1, Len(s))) = Len(s) - n
  BY <1>1, <1>3
<1> QED BY <1>2, <1>3, <1>4
LEMMA Division ==
  ASSUME NEW a \in Nat, NEW c \in Nat \ {0}
  PROVE  /\ a \div c \in Nat /\ a % c \in Nat /\ a % c < c
         /\ (a \div c) * c + (a % c) = a
OBVIOUS

(* A quotient is determined by what is divided.                             *)
LEMMA QuotientUnique ==
  ASSUME NEW c \in Nat \ {0}, NEW p \in Nat, NEW q \in Nat,
         NEW r \in 0 .. c - 1, NEW s \in 0 .. c - 1,
         p * c + r = q * c + s
  PROVE  p = q
<1>1. (p - q) * c < c /\ (q - p) * c < c
  OBVIOUS
<1>2. p - q < 1
  <2>1. ASSUME p - q >= 1 PROVE (p - q) * c >= c
    BY <2>1
  <2> QED BY <1>1, <2>1
<1>3. q - p < 1
  <2>1. ASSUME q - p >= 1 PROVE (q - p) * c >= c
    BY <2>1
  <2> QED BY <1>1, <2>1
<1> QED BY <1>2, <1>3

LEMMA RestKept ==
  ASSUME NEW c \in Nat \ {0}, NEW b \in Nat, b >= c
  PROVE  (b - c) % c = b % c
<1> DEFINE k == b \div c        m == b % c
           j == (b - c) \div c  n == (b - c) % c
<1>1. b - c \in Nat
  OBVIOUS
<1>2. k \in Nat /\ m \in Nat /\ m < c /\ k * c + m = b
  BY Division
<1>3. j \in Nat /\ n \in Nat /\ n < c /\ j * c + n = b - c
  BY <1>1, Division
<1> SUFFICES n = m
  OBVIOUS
<1> HIDE DEF k, m, j, n
<1>4. (j + 1) * c + n = k * c + m
  <2>1. (j + 1) * c = j * c + c
    BY <1>3
  <2> QED BY <2>1, <1>2, <1>3
<1>5. j + 1 = k
  <2>1. j + 1 \in Nat /\ n \in 0 .. c - 1 /\ m \in 0 .. c - 1
    BY <1>2, <1>3
  <2> QED BY <2>1, <1>2, <1>4, QuotientUnique
<1> QED BY <1>2, <1>3, <1>4, <1>5

LEMMA NoRest ==
  ASSUME NEW c \in Nat \ {0} PROVE 0 % c = 0 /\ c % c = 0
<1>1. 0 % c = 0
  OBVIOUS
<1> QED BY <1>1, RestKept

------------------------------------------------------------------------------

Counts ==
  asked \in Nat /\ bytes_to_read \in Nat /\ written \in Nat /\ lost \in Nat

(* The recorder goes on: its next block is counted.                         *)
Counting ==
  \/ program = "rtl_sdr" /\ ~do_exit
  \/ program = "rtl_sdr -S" /\ main \in {"setup", "reading"}

BudgetInv ==
  /\ Counts
  /\ asked > 0 /\ ~met =>
       /\ written + lost <= asked
       /\ Counting => bytes_to_read > 0
       /\ (program = "rtl_sdr" \/ main \in {"setup", "reading"})
            => written + lost = asked - bytes_to_read
  /\ Counting /\ ~met /\ ~short => bytes_to_read % Block = asked % Block
  /\ met => short \/ asked % Block = 0

(* What one block does to the counts, before the end and at it.             *)
LEMMA BlockCounted ==
  ASSUME Counts, NEW n \in {Block, Block - 1}
  PROVE  /\ Cut(n) \in Nat \ {0} /\ Cut(n) - 1 \in Nat
         /\ Left(Cut(n)) \in Nat
         /\ bytes_to_read > 0 =>
              /\ Cut(n) <= bytes_to_read
              /\ Left(Cut(n)) = bytes_to_read - Cut(n)
         /\ bytes_to_read = 0 => ~LastBlock(n) /\ Left(Cut(n)) = 0 /\ ~Meets(n)
         /\ ~LastBlock(n) => Cut(n) = n
         /\ bytes_to_read > 0 /\ ~LastBlock(n) /\ ~Meets(n) => Left(Cut(n)) > 0
<1>1. Block \in Nat \ {0, 1} /\ n \in Nat \ {0} /\ n - 1 \in Nat /\ bytes_to_read \in Nat
  BY ProgramsAssumption DEF Counts
<1>2. CASE bytes_to_read = 0
  BY <1>1, <1>2 DEF Cut, LastBlock, Left, Meets
<1>3. CASE bytes_to_read > 0 /\ bytes_to_read < n
  BY <1>1, <1>3 DEF Cut, LastBlock, Left, Meets
<1>4. CASE bytes_to_read > 0 /\ bytes_to_read >= n
  <2>1. ~LastBlock(n) /\ Cut(n) = n /\ Left(n) = bytes_to_read - n
    BY <1>1, <1>4 DEF Cut, LastBlock, Left
  <2>2. ~Meets(n) => bytes_to_read - n > 0
    BY <1>1, <1>4 DEF Meets
  <2> QED BY <1>1, <1>4, <2>1, <2>2
<1> QED BY <1>1, <1>2, <1>3, <1>4

(* A whole block leaves the rest of the division, and meets a size that is  *)
(* a multiple of it.                                                        *)
LEMMA WholeBlock ==
  ASSUME Counts
  PROVE  /\ ~LastBlock(Block) => Left(Cut(Block)) % Block = bytes_to_read % Block
         /\ Meets(Block) => bytes_to_read % Block = 0
<1>1. Block \in Nat \ {0, 1} /\ bytes_to_read \in Nat
  BY ProgramsAssumption DEF Counts
<1>2. Meets(Block) => bytes_to_read % Block = 0
  BY <1>1, NoRest DEF Meets
<1>3. ASSUME ~LastBlock(Block)
      PROVE  Left(Cut(Block)) % Block = bytes_to_read % Block
  <2>1. CASE bytes_to_read = 0
    BY <1>1, <1>3, <2>1 DEF Cut, Left
  <2>2. CASE bytes_to_read > 0
    <3>1. bytes_to_read >= Block /\ Cut(Block) = Block
      BY <1>1, <1>3, <2>2 DEF LastBlock, Cut
    <3>2. Left(Cut(Block)) = bytes_to_read - Block
      BY <2>2, <3>1 DEF Left
    <3> QED BY <1>1, <3>1, <3>2, RestKept
  <2> QED BY <1>1, <2>1, <2>2
<1> QED BY <1>2, <1>3

LEMMA CallbackKeepsBudget ==
  ASSUME BudgetInv, RecorderCallback PROVE BudgetInv'
<1>1. PICK n \in {Block, Block - 1} :
        \E wrote \in {Cut(n), Cut(n) - 1} :
          /\ written' = written + wrote /\ lost' = lost + Cut(n) - wrote
          /\ bytes_to_read' = Left(Cut(n)) /\ do_exit' = LastBlock(n)
          /\ met' = (met \/ Meets(n)) /\ short' = (short \/ n # Block)
  BY DEF RecorderCallback
<1>2. PICK wrote \in {Cut(n), Cut(n) - 1} :
          /\ written' = written + wrote /\ lost' = lost + Cut(n) - wrote
          /\ bytes_to_read' = Left(Cut(n)) /\ do_exit' = LastBlock(n)
          /\ met' = (met \/ Meets(n)) /\ short' = (short \/ n # Block)
  BY <1>1
<1>3. /\ program = "rtl_sdr" /\ ~do_exit /\ Counting
      /\ program' = program /\ main' = main /\ asked' = asked
  BY DEF RecorderCallback, Counting
<1>4. Counts
  BY DEF BudgetInv
<1>5. /\ Cut(n) \in Nat \ {0} /\ Cut(n) - 1 \in Nat /\ Left(Cut(n)) \in Nat
      /\ bytes_to_read > 0 =>
           /\ Cut(n) <= bytes_to_read
           /\ Left(Cut(n)) = bytes_to_read - Cut(n)
      /\ bytes_to_read > 0 /\ ~LastBlock(n) /\ ~Meets(n) => Left(Cut(n)) > 0
  BY <1>4, BlockCounted
<1>6. written' \in Nat /\ lost' \in Nat /\ written' + lost' = written + lost + Cut(n)
  BY <1>2, <1>4, <1>5 DEF Counts
<1>7. Counts'
  BY <1>2, <1>3, <1>4, <1>5, <1>6 DEF Counts
<1>8. ASSUME asked > 0, ~met'
      PROVE  /\ written' + lost' = asked - bytes_to_read'
             /\ written' + lost' <= asked
             /\ ~do_exit' => bytes_to_read' > 0
  <2>1. bytes_to_read > 0 /\ written + lost = asked - bytes_to_read /\ ~Meets(n)
    BY <1>2, <1>3, <1>8 DEF BudgetInv
  <2>2. written' + lost' = asked - bytes_to_read'
    BY <1>2, <1>4, <1>5, <1>6, <2>1 DEF Counts
  <2>3. ~do_exit' => bytes_to_read' > 0
    BY <1>2, <1>5, <2>1
  <2>4. bytes_to_read' \in Nat /\ asked \in Nat
    BY <1>3, <1>7 DEF Counts
  <2>5. written' + lost' <= asked
    BY <2>2, <2>4
  <2> QED BY <2>2, <2>3, <2>5
<1>9. ASSUME ~met, ~short'
      PROVE  /\ ~do_exit' => bytes_to_read' % Block = asked % Block
             /\ Meets(n) => asked % Block = 0
  <2>1. n = Block /\ ~short
    BY <1>2, <1>9
  <2>2. bytes_to_read % Block = asked % Block
    BY <1>3, <1>9, <2>1 DEF BudgetInv
  <2>3. /\ ~LastBlock(Block) => Left(Cut(Block)) % Block = bytes_to_read % Block
        /\ Meets(Block) => bytes_to_read % Block = 0
    BY <1>4, WholeBlock
  <2> QED BY <1>2, <2>1, <2>2, <2>3
<1>10. met' => short' \/ asked' % Block = 0
  BY <1>2, <1>3, <1>9 DEF BudgetInv
<1>11. Counting' => ~do_exit'
  BY <1>3 DEF Counting
<1>12. ~met' => ~met
  BY <1>2
<1> QED BY <1>3, <1>7, <1>8, <1>9, <1>10, <1>11, <1>12 DEF BudgetInv

LEMMA SyncKeepsBudget ==
  ASSUME BudgetInv, SyncTurn PROVE BudgetInv'
<1>1. /\ program = "rtl_sdr -S" /\ main = "reading" /\ Counting
      /\ program' = program /\ asked' = asked /\ short' = short
  BY DEF SyncTurn, recording, Counting
<1>2. CASE main' = "joining" /\ UNCHANGED recording
  <2>1. /\ bytes_to_read' = bytes_to_read /\ written' = written /\ lost' = lost
        /\ met' = met /\ ~Counting' /\ Counts'
    BY <1>1, <1>2 DEF BudgetInv, Counts, Counting, recording
  <2>2. ~(program' = "rtl_sdr" \/ main' \in {"setup", "reading"})
    BY <1>1, <1>2
  <2> QED BY <1>1, <2>1, <2>2 DEF BudgetInv
<1>3. CASE \E n_read \in {Block, Block - 1} :
             \E wrote \in {Cut(n_read), Cut(n_read) - 1} :
               /\ written' = written + wrote /\ lost' = lost + Cut(n_read) - wrote
               /\ IF wrote # Cut(n_read) \/ Cut(n_read) < Block
                  THEN main' = "joining" /\ UNCHANGED <<bytes_to_read, met>>
                  ELSE /\ main' = main /\ bytes_to_read' = Left(Cut(n_read))
                       /\ met' = (met \/ Meets(n_read))
  <2>1. PICK n \in {Block, Block - 1} :
             \E wrote \in {Cut(n), Cut(n) - 1} :
               /\ written' = written + wrote /\ lost' = lost + Cut(n) - wrote
               /\ IF wrote # Cut(n) \/ Cut(n) < Block
                  THEN main' = "joining" /\ UNCHANGED <<bytes_to_read, met>>
                  ELSE /\ main' = main /\ bytes_to_read' = Left(Cut(n))
                       /\ met' = (met \/ Meets(n))
    BY <1>3
  <2>2. PICK wrote \in {Cut(n), Cut(n) - 1} :
               /\ written' = written + wrote /\ lost' = lost + Cut(n) - wrote
               /\ IF wrote # Cut(n) \/ Cut(n) < Block
                  THEN main' = "joining" /\ UNCHANGED <<bytes_to_read, met>>
                  ELSE /\ main' = main /\ bytes_to_read' = Left(Cut(n))
                       /\ met' = (met \/ Meets(n))
    BY <2>1
  <2>3. Counts
    BY DEF BudgetInv
  <2>4. /\ Cut(n) \in Nat \ {0} /\ Cut(n) - 1 \in Nat /\ Left(Cut(n)) \in Nat
        /\ bytes_to_read > 0 =>
             /\ Cut(n) <= bytes_to_read
             /\ Left(Cut(n)) = bytes_to_read - Cut(n)
        /\ ~LastBlock(n) => Cut(n) = n
        /\ bytes_to_read > 0 /\ ~LastBlock(n) /\ ~Meets(n) => Left(Cut(n)) > 0
    BY <2>3, BlockCounted
  <2>5. written' \in Nat /\ lost' \in Nat /\ written' + lost' = written + lost + Cut(n)
    BY <2>2, <2>3, <2>4 DEF Counts
  <2>6. asked > 0 /\ ~met => /\ bytes_to_read > 0
                            /\ written + lost = asked - bytes_to_read
    BY <1>1 DEF BudgetInv
  <2>7. asked > 0 /\ ~met => written' + lost' <= asked
    <3>1. bytes_to_read \in Nat /\ asked \in Nat
      BY <2>3 DEF Counts
    <3>2. ASSUME asked > 0, ~met PROVE written' + lost' <= asked
      <4>1. /\ Cut(n) <= bytes_to_read /\ written + lost = asked - bytes_to_read
            /\ Cut(n) \in Nat
        BY <2>4, <2>6, <3>2
      <4>2. written' + lost' = asked - bytes_to_read + Cut(n)
        BY <2>5, <4>1
      <4> QED BY <3>1, <4>1, <4>2
    <3> QED BY <3>2
  <2>8. CASE main' = "joining" /\ UNCHANGED <<bytes_to_read, met>>
    BY <1>1, <2>3, <2>5, <2>7, <2>8 DEF BudgetInv, Counts, Counting
  <2>9. CASE /\ Cut(n) >= Block /\ main' = main
             /\ bytes_to_read' = Left(Cut(n)) /\ met' = (met \/ Meets(n))
    <3>1. n = Block /\ ~LastBlock(n)
      <4>1. Block \in Nat /\ bytes_to_read \in Nat
        BY <2>3, ProgramsAssumption DEF Counts
      <4>2. ~LastBlock(n)
        BY <2>9, <4>1 DEF Cut, LastBlock
      <4> QED BY <2>4, <2>9, <4>1, <4>2
    <3>2. Counts'
      BY <1>1, <2>3, <2>4, <2>5, <2>9 DEF Counts
    <3>3. asked > 0 /\ ~met' => /\ bytes_to_read' > 0
                                /\ written' + lost' = asked - bytes_to_read'
      <4>1. bytes_to_read \in Nat /\ asked \in Nat
        BY <2>3 DEF Counts
      <4>2. ASSUME asked > 0, ~met'
            PROVE  /\ bytes_to_read' > 0
                   /\ written' + lost' = asked - bytes_to_read'
        <5>1. ~met /\ ~Meets(n)
          BY <2>9, <4>2
        <5>2. bytes_to_read > 0 /\ written + lost = asked - bytes_to_read
          BY <2>6, <4>2, <5>1
        <5>3. bytes_to_read' = bytes_to_read - Cut(n) /\ bytes_to_read' > 0
          BY <2>4, <2>9, <3>1, <5>1, <5>2
        <5>4. Cut(n) \in Nat
          BY <2>4
        <5> QED BY <2>5, <4>1, <5>2, <5>3, <5>4
      <4> QED BY <4>2
    <3>4. ~met /\ ~short => bytes_to_read % Block = asked % Block
      BY <1>1 DEF BudgetInv
    <3>5. /\ Left(Cut(Block)) % Block = bytes_to_read % Block
          /\ Meets(Block) => bytes_to_read % Block = 0
      BY <2>3, <3>1, WholeBlock
    <3>6. ~met' /\ ~short => bytes_to_read' % Block = asked % Block
      BY <2>9, <3>1, <3>4, <3>5
    <3>7. met' => short \/ asked % Block = 0
      BY <2>9, <3>1, <3>4, <3>5 DEF BudgetInv
    <3>8. asked > 0 /\ ~met' => written' + lost' <= asked
      BY <2>7, <2>9
    <3> QED BY <1>1, <3>2, <3>3, <3>6, <3>7, <3>8 DEF BudgetInv
  <2> QED
    <3>1. Block \in Nat /\ Cut(n) \in Nat
      BY <2>4, ProgramsAssumption
    <3> QED BY <2>2, <2>8, <2>9, <3>1
<1> QED BY <1>1, <1>2, <1>3 DEF SyncTurn

(* The actions that leave the recording alone only stop it or go on.        *)
LEMMA OthersKeepBudget ==
  ASSUME BudgetInv, UNCHANGED <<program, recording>>,
         do_exit => do_exit',
         main' \in {"setup", "reading"} => main \in {"setup", "reading"}
  PROVE  BudgetInv'
BY DEF BudgetInv, Counts, Counting, recording

LEMMA BudgetInductive == Spec => []BudgetInv
<1>1. Init => BudgetInv
  <2> SUFFICES ASSUME Init PROVE BudgetInv
    OBVIOUS
  <2>1. /\ asked \in Nat /\ bytes_to_read = asked /\ written = 0 /\ lost = 0
        /\ ~met /\ ~short
    BY ProgramsAssumption DEF Init
  <2> QED BY <2>1 DEF BudgetInv, Counts
<1>2. BudgetInv /\ [Next]_vars => BudgetInv'
  <2> SUFFICES ASSUME BudgetInv, [Next]_vars PROVE BudgetInv'
    OBVIOUS
  <2>1. CASE RecorderCallback
    BY <2>1, CallbackKeepsBudget
  <2>2. CASE SyncTurn
    BY <2>2, SyncKeepsBudget
  <2>3. CASE SigHandler \/ LoseDevice \/ AdsbCallback
    BY <2>3, OthersKeepBudget DEF SigHandler, LoseDevice, AdsbCallback, recording, thread
  <2>4. CASE Decoder
    BY <2>4, OthersKeepBudget
    DEF Decoder, DecoderTop, DecoderWork, DecoderLeaves, DecoderCancelled, recording
  <2>5. CASE Main
    <3>1. CASE StartRead
      BY <3>1, OthersKeepBudget DEF StartRead, recording
    <3>2. CASE StreamEnds
      BY <3>2, OthersKeepBudget DEF StreamEnds, recording
    <3>3. CASE CancelDecoder
      BY <3>3, OthersKeepBudget DEF CancelDecoder, recording
    <3>4. CASE Close
      BY <3>4, OthersKeepBudget DEF Close, recording
    <3> QED BY <2>5, <3>1, <3>2, <3>3, <3>4 DEF Main
  <2>6. CASE UNCHANGED vars
    BY <2>6, OthersKeepBudget DEF vars, recording, thread
  <2> QED BY <2>1, <2>2, <2>3, <2>4, <2>5, <2>6 DEF Next
<1> QED BY <1>1, <1>2, PTL DEF Spec

(* A recording is never longer than asked for, and no unit of it is         *)
(* unaccounted for, until a block ends exactly at the size, whatever the    *)
(* lengths of the transfers; without a short one only a size that is a      *)
(* multiple of the block is met.                                            *)
THEOREM BudgetAlwaysKept == Spec => []BudgetKept
<1>1. BudgetInv => BudgetKept
  BY DEF BudgetInv, BudgetKept
<1> QED BY <1>1, BudgetInductive, PTL
------------------------------------------------------------------------------
(* The dongles of a bus are counted in its order.                            *)
Devices == [known : BOOLEAN, serial : Seq(Characters), opens : BOOLEAN]

LEMMA CountedUpTo ==
  ASSUME NEW bus \in Seq(Devices)
  PROVE  /\ KnownUpTo(bus, 0) = 0
         /\ \A i \in 0 .. Len(bus) : KnownUpTo(bus, i) \in Nat
         /\ \A i \in DOMAIN bus :
              KnownUpTo(bus, i) = KnownUpTo(bus, i - 1) + IF bus[i].known THEN 1 ELSE 0
<1> DEFINE Known(i) == {k \in 1 .. i : bus[k].known}
<1>1. \A i \in Int : KnownUpTo(bus, i) = Cardinality(Known(i))
  BY DEF KnownUpTo, Quantify
<1>2. \A i \in 0 .. Len(bus) : IsFiniteSet(Known(i)) /\ KnownUpTo(bus, i) \in Nat
  <2> TAKE i \in 0 .. Len(bus)
  <2>1. IsFiniteSet(1 .. i) /\ Known(i) \subseteq 1 .. i
    BY FS_Interval
  <2>2. IsFiniteSet(Known(i))
    BY <2>1, FS_Subset
  <2> QED BY <1>1, <2>2, FS_CardinalityType
<1>3. Known(0) = {}
  OBVIOUS
<1>4. ASSUME NEW i \in DOMAIN bus
      PROVE  KnownUpTo(bus, i) = KnownUpTo(bus, i - 1) + IF bus[i].known THEN 1 ELSE 0
  <2>1. i - 1 \in 0 .. Len(bus) /\ i \in Nat /\ i \notin Known(i - 1)
    OBVIOUS
  <2>2. Known(i) = IF bus[i].known THEN Known(i - 1) \cup {i} ELSE Known(i - 1)
    OBVIOUS
  <2>3. Cardinality(Known(i - 1) \cup {i}) = Cardinality(Known(i - 1)) + 1
    BY <1>2, <2>1, FS_AddElement
  <2> HIDE DEF Known
  <2>5. /\ KnownUpTo(bus, i) = Cardinality(Known(i))
        /\ KnownUpTo(bus, i - 1) = Cardinality(Known(i - 1))
    BY <1>1, <2>1
  <2>4. KnownUpTo(bus, i - 1) \in Nat
    BY <1>2, <2>1
  <2> QED BY <2>2, <2>3, <2>4, <2>5
<1>5. KnownUpTo(bus, 0) = 0
  BY <1>1, <1>3, FS_EmptySet
<1> QED BY <1>2, <1>4, <1>5

Dongles(bus) == {i \in DOMAIN bus : bus[i].known}

LEMMA CountGrows ==
  ASSUME NEW bus \in Seq(Devices), NEW i \in Nat, NEW j \in 0 .. Len(bus), i <= j
  PROVE  /\ KnownUpTo(bus, i) \in Nat /\ KnownUpTo(bus, j) \in Nat
         /\ KnownUpTo(bus, i) <= KnownUpTo(bus, j)
<1> DEFINE U(k) == KnownUpTo(bus, k)
           S == {k \in Nat : i + k <= Len(bus) => U(i) <= U(i + k)}
<1>1. \A k \in 0 .. Len(bus) : U(k) \in Nat
  BY CountedUpTo
<1>2. \A k \in 1 .. Len(bus) : U(k - 1) <= U(k)
  <2> TAKE k \in 1 .. Len(bus)
  <2>1. U(k) = U(k - 1) + IF bus[k].known THEN 1 ELSE 0
    BY CountedUpTo
  <2>2. U(k) \in Nat /\ U(k - 1) \in Nat
    BY <1>1
  <2> HIDE DEF U
  <2> QED BY <2>1, <2>2
<1> HIDE DEF U
<1>3. 0 \in S
  BY <1>1
<1>4. ASSUME NEW k \in Nat, k \in S PROVE k + 1 \in S
  <2>1. SUFFICES ASSUME i + (k + 1) <= Len(bus) PROVE U(i) <= U(i + (k + 1))
    OBVIOUS
  <2>2. U(i) <= U(i + k)
    BY <1>4, <2>1
  <2>3. U(i + k) <= U(i + (k + 1))
    <3>1. i + (k + 1) \in 1 .. Len(bus) /\ (i + (k + 1)) - 1 = i + k
      BY <2>1
    <3> QED BY <3>1, <1>2
  <2>4. U(i) \in Nat /\ U(i + k) \in Nat /\ U(i + (k + 1)) \in Nat
    BY <1>1, <2>1
  <2> QED BY <2>2, <2>3, <2>4
<1>5. j - i \in S
  <2>1. j - i \in Nat
    OBVIOUS
  <2> HIDE DEF S
  <2> QED BY <2>1, <1>3, <1>4, Induction
<1>6. i + (j - i) = j
  OBVIOUS
<1> QED BY <1>1, <1>5, <1>6 DEF U

LEMMA DongleCounted ==
  ASSUME NEW bus \in Seq(Devices), NEW i \in Dongles(bus),
         NEW k, k = KnownUpTo(bus, i) - 1
  PROVE  k \in 0 .. DeviceCount(bus) - 1 /\ DeviceAt(bus, k) = i /\ OpenedAt(bus, k) = i
<1> DEFINE U(j) == KnownUpTo(bus, j)
<1>1. i \in 1 .. Len(bus) /\ bus[i].known
  BY DEF Dongles
<1>2. U(i) = U(i - 1) + 1 /\ U(i - 1) \in Nat
  BY <1>1, CountedUpTo, CountGrows
<1>3. k \in 0 .. DeviceCount(bus) - 1
  <2>1. U(i) <= U(Len(bus)) /\ U(Len(bus)) \in Nat
    BY <1>1, CountGrows
  <2> QED BY <1>2, <2>1 DEF DeviceCount
<1>4. ASSUME NEW j \in DOMAIN bus, U(j) - 1 = k PROVE j >= i
  <2>1. SUFFICES ASSUME j < i PROVE FALSE
    BY <1>1
  <2>2. U(j) <= U(i - 1) /\ U(j) \in Nat
    BY <1>1, <2>1, CountGrows
  <2> HIDE DEF U
  <2> QED BY <1>2, <1>4, <2>2 DEF U
<1>5. ASSUME NEW j \in DOMAIN bus, U(j) - 1 = k, bus[j].known PROVE j <= i
  <2>1. SUFFICES ASSUME i < j PROVE FALSE
    BY <1>1
  <2>2. U(i) <= U(j - 1) /\ U(j - 1) \in Nat /\ U(j) = U(j - 1) + 1
    BY <1>1, <1>5, <2>1, CountGrows, CountedUpTo
  <2>3. U(i) \in Nat
    BY <1>2
  <2> HIDE DEF U
  <2> QED BY <1>5, <2>2, <2>3 DEF U
<1>6. DeviceAt(bus, k) = i
  <2>1. {j \in DOMAIN bus : bus[j].known /\ U(j) - 1 = k} = {i}
    BY <1>1, <1>4, <1>5
  <2>2. FirstIn({i}) = i
    BY <1>1 DEF FirstIn, Min
  <2> QED BY <2>1, <2>2 DEF DeviceAt
<1>7. OpenedAt(bus, k) = i
  <2> DEFINE T == {j \in DOMAIN bus : U(j) - 1 = k}
  <2>1. i \in T /\ \A j \in T : j >= i /\ j \in Nat
    BY <1>1, <1>4
  <2> HIDE DEF T
  <2>2. FirstIn(T) = i
    BY <2>1 DEF FirstIn, Min
  <2> QED BY <2>2 DEF OpenedAt, T
<1> QED BY <1>3, <1>6, <1>7

LEMMA IndexUsed ==
  ASSUME NEW bus \in Seq(Devices), NEW k \in 0 .. DeviceCount(bus) - 1
  PROVE  \E i \in Dongles(bus) : k = KnownUpTo(bus, i) - 1
<1> DEFINE U(j) == KnownUpTo(bus, j)
           T == {j \in 0 .. Len(bus) : U(j) >= k + 1}
<1>1. \A j \in 0 .. Len(bus) : U(j) \in Nat
  BY CountedUpTo
<1>2. Len(bus) \in T
  <2>1. U(Len(bus)) \in Nat /\ k <= U(Len(bus)) - 1 /\ k \in Nat
    BY <1>1 DEF DeviceCount
  <2> HIDE DEF U
  <2> QED BY <2>1
<1>3. PICK i \in T : \A j \in T : i <= j
  <2>1. T \in SUBSET Nat /\ T # {}
    BY <1>2
  <2> HIDE DEF T
  <2> QED BY <2>1, LeastNumber
<1>4. i \in 0 .. Len(bus) /\ U(i) >= k + 1 /\ \A j \in 0 .. Len(bus) : U(j) >= k + 1 => i <= j
  BY <1>3
<1> HIDE DEF T
<1>5. i # 0
  BY <1>4, CountedUpTo
<1>6. ~ (U(i - 1) >= k + 1)
  <2>1. i - 1 \in 0 .. Len(bus) /\ ~ (i <= i - 1)
    BY <1>4, <1>5
  <2> QED BY <1>4, <2>1
<1>7. U(i) = U(i - 1) + (IF bus[i].known THEN 1 ELSE 0) /\ i \in DOMAIN bus
  BY <1>4, <1>5, CountedUpTo
<1>8. U(i - 1) \in Nat
  BY <1>1, <1>4, <1>5
<1>9. bus[i].known /\ k = U(i) - 1
  <2> HIDE DEF U
  <2> QED BY <1>4, <1>6, <1>7, <1>8
<1> QED BY <1>7, <1>9 DEF Dongles

(* A text of digits is read as a natural number.                             *)
LEMMA NumberIsNatural ==
  ASSUME NEW text \in Seq(Characters), IsNumber(text)
  PROVE  Number(text) \in Nat
<1> DEFINE n == Len(text)
           G == [p \in Nat \X (1 .. n) |-> 10 * p[1] + text[p[2]]]
           Reads(it) == it = [s \in SUBSET (1 .. n) |->
                               IF s = {} THEN 0 ELSE 10 * it[s \ {Max(s)}] + text[Max(s)]]
<1>1. n \in Nat /\ DOMAIN text = 1 .. n /\ \A k \in 1 .. n : text[k] \in 1 .. 9
  BY DEF IsNumber
<1>2. PICK f : Runs(f, n, Nat, 0, G)
  <2>1. G \in [Nat \X (1 .. n) -> Nat]
    BY <1>1
  <2> HIDE DEF G, n
  <2> QED BY <1>1, <2>1, FoldRun
<1>3. Reads(f)
  <2>1. f = [s \in SUBSET (1 .. n) |-> f[s]]
    BY <1>2 DEF Runs
  <2>2. ASSUME NEW s \in SUBSET (1 .. n)
        PROVE  f[s] = IF s = {} THEN 0 ELSE 10 * f[s \ {Max(s)}] + text[Max(s)]
    <3>1. CASE s = {}
      BY <1>2, <3>1 DEF Runs
    <3>2. CASE s # {}
      <4>1. f[s \ {Max(s)}] \in Nat /\ Max(s) \in 1 .. n
        BY <1>1, <1>2, <3>2, MaxOf DEF Runs
      <4>2. f[s] = G[f[s \ {Max(s)}], Max(s)]
        BY <1>2, <3>2 DEF Runs
      <4> QED BY <3>2, <4>1, <4>2
    <3> QED BY <3>1, <3>2
  <2> QED BY <2>1, <2>2
<1> DEFINE it == CHOOSE it : Reads(it)
<1>4. Number(text) = it[1 .. n]
  BY <1>1 DEF Number, FoldLeft, MapThenFoldSet
<1>5. Reads(it)
  <2> HIDE DEF Reads
  <2> QED BY <1>3
<1> DEFINE S == {k \in Nat : k <= n => it[1 .. k] \in Nat}
<1> HIDE DEF it
<1>6. 0 \in S
  <2>1. 1 .. 0 = {} /\ {} \in SUBSET (1 .. n)
    OBVIOUS
  <2> QED BY <1>5, <2>1
<1>7. ASSUME NEW k \in Nat, k \in S PROVE k + 1 \in S
  <2>1. SUFFICES ASSUME k + 1 <= n PROVE it[1 .. k + 1] \in Nat
    OBVIOUS
  <2>2. /\ 1 .. k + 1 \in SUBSET (1 .. n) /\ 1 .. k + 1 # {} /\ k + 1 \in 1 .. n
        /\ Max(1 .. k + 1) = k + 1 /\ (1 .. k + 1) \ {k + 1} = 1 .. k
    BY <1>1, <2>1, MaxOfSegment
  <2>4. it[1 .. k + 1] = 10 * it[1 .. k] + text[k + 1]
    BY <1>5, <2>2
  <2>5. it[1 .. k] \in Nat /\ text[k + 1] \in Nat
    BY <1>1, <1>7, <2>1, <2>2
  <2>6. \A x, c \in Nat : 10 * x + c \in Nat
    OBVIOUS
  <2> DEFINE x == it[1 .. k]
             c == text[k + 1]
  <2>7. x \in Nat /\ c \in Nat /\ it[1 .. k + 1] = 10 * x + c
    BY <2>4, <2>5, Zenon
  <2> HIDE DEF x, c
  <2>8. 10 * x + c \in Nat
    BY <2>6, <2>7, Zenon
  <2> QED BY <2>7, <2>8, Zenon
<1>8. n \in S
  <2> HIDE DEF S, n
  <2> QED BY <1>1, <1>6, <1>7, Induction
<1> QED BY <1>4, <1>8

(* Where every dongle opens, the loops see the serial of each.               *)
LEMMA SerialsSeen ==
  ASSUME NEW bus \in Seq(Devices), Reachable(bus), NEW before,
         NEW k \in 0 .. DeviceCount(bus) - 1
  PROVE  Serials(bus, before)[k] = bus[DeviceAt(bus, k)].serial
<1> DEFINE D == -1 .. DeviceCount(bus) - 1
           Sees(seen) == seen = [j \in D |-> IF j = -1 THEN before
                                             ELSE SerialAt(bus, j, seen[j - 1])]
           s == [j \in D |-> IF j = -1 THEN before ELSE bus[DeviceAt(bus, j)].serial]
<1>1. ASSUME NEW j \in D, j # -1, NEW old
      PROVE  SerialAt(bus, j, old) = bus[DeviceAt(bus, j)].serial
  <2>1. PICK i \in Dongles(bus) : j = KnownUpTo(bus, i) - 1
    BY <1>1, IndexUsed
  <2>2. DeviceAt(bus, j) = i
    BY <2>1, DongleCounted
  <2>3. bus[i].opens
    BY DEF Dongles, Reachable
  <2> QED BY <2>2, <2>3 DEF SerialAt
<1>2. Sees(s)
  BY <1>1
<1> DEFINE seen == CHOOSE seen : Sees(seen)
<1>3. Sees(seen)
  <2> HIDE DEF Sees, s
  <2> QED BY <1>2
<1>4. Serials(bus, before) = seen
  BY DEF Serials
<1> HIDE DEF seen
<1>5. k \in D /\ k # -1
  OBVIOUS
<1>6. seen[k] = SerialAt(bus, k, seen[k - 1])
  BY <1>3, <1>5
<1> QED BY <1>1, <1>4, <1>5, <1>6

LEMMA MinOf ==
  ASSUME NEW T \in SUBSET Nat, T # {}
  PROVE  Min(T) \in T /\ Min(T) \in Nat /\ \A k \in T : Min(T) <= k
BY LeastNumber DEF Min

LEMMA SerialFound ==
  ASSUME NEW bus \in Seq(Devices), NEW text, NEW nr, nr = IndexBySerial(bus, text)
  PROVE  IF nr < 0 THEN \A i \in Dongles(bus) : bus[i].opens => bus[i].serial # text
         ELSE bus[OpenedAt(bus, nr)].serial = text
<1> DEFINE same == {k \in 0 .. DeviceCount(bus) - 1 :
                      bus[DeviceAt(bus, k)].opens /\ bus[DeviceAt(bus, k)].serial = text}
<1>1. nr = IF same = {} THEN -3 ELSE Min(same)
  BY DEF IndexBySerial
<1>2. CASE same = {}
  <2>1. ASSUME NEW i \in Dongles(bus), bus[i].opens, bus[i].serial = text PROVE FALSE
    <3> DEFINE k == KnownUpTo(bus, i) - 1
    <3>1. k \in 0 .. DeviceCount(bus) - 1 /\ DeviceAt(bus, k) = i
      BY DongleCounted
    <3>2. k \in same
      BY <2>1, <3>1
    <3> QED BY <1>2, <3>2
  <2> QED BY <1>1, <1>2, <2>1
<1>3. CASE same # {}
  <2>1. Min(same) \in same /\ Min(same) \in Nat
    <3>1. same \in SUBSET Nat
      OBVIOUS
    <3> HIDE DEF same
    <3> QED BY <1>3, <3>1, MinOf
  <2>2. nr = Min(same)
    BY <1>1, <1>3
  <2>3. nr \in 0 .. DeviceCount(bus) - 1 /\ bus[DeviceAt(bus, nr)].serial = text
    BY <2>1, <2>2
  <2>4. PICK i \in Dongles(bus) : nr = KnownUpTo(bus, i) - 1
    BY <2>3, IndexUsed
  <2>5. OpenedAt(bus, nr) = i /\ DeviceAt(bus, nr) = i
    BY <2>4, DongleCounted
  <2> HIDE DEF same
  <2> QED BY <2>1, <2>2, <2>3, <2>5
<1> QED BY <1>2, <1>3

(* How well a dongle answers a search.                                       *)
Match(bus, text, i) ==
  IF bus[i].serial = text THEN 3
  ELSE IF IsPrefix(text, bus[i].serial) THEN 2
  ELSE IF IsSuffix(text, bus[i].serial) THEN 1 ELSE 0

(* The first of the indices whose serial is alike is the first dongle's.     *)
LEMMA FirstAlike ==
  ASSUME NEW bus \in Seq(Devices), NEW T \in SUBSET (0 .. DeviceCount(bus) - 1), T # {},
         NEW i \in Dongles(bus)
  PROVE  /\ Min(T) \in T /\ Min(T) >= 0
         /\ OpenedAt(bus, Min(T)) \in Dongles(bus)
         /\ DeviceAt(bus, Min(T)) = OpenedAt(bus, Min(T))
         /\ DeviceAt(bus, KnownUpTo(bus, i) - 1) = i
         /\ KnownUpTo(bus, i) - 1 \in 0 .. DeviceCount(bus) - 1
         /\ i < OpenedAt(bus, Min(T)) => KnownUpTo(bus, i) - 1 \notin T
<1> DEFINE U(j) == KnownUpTo(bus, j)
           f == Min(T)
<1>1. T \in SUBSET Nat
  OBVIOUS
<1>2. f \in T /\ f \in Nat /\ \A k \in T : f <= k
  BY <1>1, MinOf
<1> HIDE DEF f
<1>3. PICK o \in Dongles(bus) : f = U(o) - 1
  BY <1>2, IndexUsed
<1>4. OpenedAt(bus, f) = o /\ DeviceAt(bus, f) = o
  BY <1>3, DongleCounted
<1>5. DeviceAt(bus, U(i) - 1) = i /\ U(i) - 1 \in 0 .. DeviceCount(bus) - 1
  BY DongleCounted
<1>6. ASSUME i < o PROVE U(i) - 1 \notin T
  <2>1. i \in Nat /\ o - 1 \in 0 .. Len(bus) /\ i <= o - 1 /\ o \in DOMAIN bus /\ bus[o].known
    BY <1>6 DEF Dongles
  <2>2. U(i) <= U(o - 1) /\ U(o - 1) \in Nat /\ U(i) \in Nat
    BY <2>1, CountGrows
  <2>3. U(o) = U(o - 1) + 1
    BY <2>1, CountedUpTo
  <2>4. ~ (U(o) - 1 <= U(i) - 1)
    <3> HIDE DEF U
    <3> QED BY <2>2, <2>3
  <2> QED BY <1>2, <1>3, <2>4
<1> QED BY <1>2, <1>3, <1>4, <1>5, <1>6 DEF f

LEMMA SearchAnswered ==
  ASSUME NEW bus \in Seq(Devices), NEW text \in Seq(Characters), Reachable(bus),
         ~ (IsNumber(text) /\ Number(text) \in 0 .. DeviceCount(bus) - 1),
         NEW found, found = VerboseDeviceSearch(bus, text), NEW i \in Dongles(bus)
  PROVE  IF found < 0 THEN Match(bus, text, i) = 0
         ELSE LET o == OpenedAt(bus, found)
              IN  /\ Match(bus, text, o) > 0
                  /\ i < o => Match(bus, text, i) < Match(bus, text, o)
                  /\ Match(bus, text, i) <= Match(bus, text, o)
<1> DEFINE count == DeviceCount(bus)
           first == Serials(bus, Serials(bus, <<>>)[count - 1])
           same == {k \in 0 .. count - 1 : first[k] = text}
           prefix == {k \in 0 .. count - 1 : IsPrefix(text, first[k])}
           suffix == {k \in 0 .. count - 1 : IsSuffix(text, first[k])}
           at == KnownUpTo(bus, i) - 1
<1>1. at \in 0 .. count - 1 /\ DeviceAt(bus, at) = i
  BY DongleCounted
<1>2. count \in Nat /\ count > 0
  <2>1. count \in Nat
    BY CountedUpTo DEF DeviceCount
  <2> HIDE DEF count, at
  <2> QED BY <1>1, <2>1
<1>3. \A k \in 0 .. count - 1 : first[k] = bus[DeviceAt(bus, k)].serial
  BY SerialsSeen
<1>4. ~ (IsNumber(text) /\ Number(text) < count)
  <2>1. SUFFICES ASSUME IsNumber(text), Number(text) < count PROVE FALSE
    OBVIOUS
  <2>2. Number(text) \in Nat
    BY <2>1, NumberIsNatural
  <2>3. Number(text) \in 0 .. count - 1
    <3> DEFINE n == Number(text)
    <3> HIDE DEF n, count
    <3>1. n \in Nat /\ n < count
      BY <2>1, <2>2 DEF n
    <3> QED BY <3>1, <1>2 DEF n
  <2> QED BY <2>1, <2>3
<1>5. found = IF same # {} THEN Min(same) ELSE IF prefix # {} THEN Min(prefix)
              ELSE IF suffix # {} THEN Min(suffix) ELSE -1
  <2>1. count # 0
    BY <1>2
  <2> QED BY <2>1, <1>4 DEF VerboseDeviceSearch
<1> HIDE DEF first
<1>6. ASSUME NEW T \in SUBSET (0 .. count - 1), T # {}, found = Min(T)
      PROVE  /\ found >= 0 /\ found \in Nat /\ found \in T /\ first[found] = bus[OpenedAt(bus, found)].serial
             /\ i < OpenedAt(bus, found) => at \notin T
  <2>1. /\ Min(T) \in T /\ Min(T) >= 0
        /\ DeviceAt(bus, Min(T)) = OpenedAt(bus, Min(T))
        /\ i < OpenedAt(bus, Min(T)) => at \notin T
    BY <1>6, FirstAlike
  <2>2. Min(T) \in Nat /\ Min(T) \in 0 .. count - 1
    <3>1. T \subseteq Nat /\ T \subseteq 0 .. count - 1
      OBVIOUS
    <3> HIDE DEF count
    <3> QED BY <2>1, <3>1
  <2> QED BY <1>3, <1>6, <2>1, <2>2
<1>7. first[at] = bus[i].serial
  BY <1>1, <1>3
<1>8. /\ at \in same <=> bus[i].serial = text
      /\ at \in prefix <=> IsPrefix(text, bus[i].serial)
      /\ at \in suffix <=> IsSuffix(text, bus[i].serial)
  BY <1>1, <1>7
<1> DEFINE o == OpenedAt(bus, found)
<1>9. CASE same # {}
  <2>1. found = Min(same) /\ same \in SUBSET (0 .. count - 1)
    BY <1>5, <1>9
  <2>2. found \in Nat /\ first[found] = text /\ bus[o].serial = text /\ (i < o => at \notin same)
    BY <1>6, <1>9, <2>1
  <2> HIDE DEF same, prefix, suffix, at, o
  <2>3. Match(bus, text, o) = 3
    BY <2>2 DEF Match
  <2>4. Match(bus, text, i) \in 0 .. 3 /\ (i < o => Match(bus, text, i) # 3)
    BY <1>8, <2>2 DEF Match
  <2>5. ~ (found < 0)
    BY <2>2
  <2>6. i < o => Match(bus, text, i) < Match(bus, text, o)
    BY <2>3, <2>4
  <2> QED BY <2>3, <2>4, <2>5, <2>6 DEF o
<1>10. CASE same = {} /\ prefix # {}
  <2>1. found = Min(prefix) /\ prefix \in SUBSET (0 .. count - 1)
    BY <1>5, <1>10
  <2>2. /\ found \in prefix /\ found >= 0 /\ IsPrefix(text, bus[o].serial)
        /\ i < o => at \notin prefix
    BY <1>6, <1>10, <2>1
  <2>3. bus[o].serial # text
    BY <1>3, <1>6, <1>10, <2>1, <2>2
  <2> HIDE DEF same, prefix, suffix, at, o
  <2> QED BY <1>8, <1>10, <2>1, <2>2, <2>3 DEF Match, o
<1>11. CASE same = {} /\ prefix = {} /\ suffix # {}
  <2>1. found = Min(suffix) /\ suffix \in SUBSET (0 .. count - 1)
    BY <1>5, <1>11
  <2>2. /\ found \in suffix /\ found >= 0 /\ IsSuffix(text, bus[o].serial)
        /\ i < o => at \notin suffix
    BY <1>6, <1>11, <2>1
  <2>3. bus[o].serial # text /\ ~ IsPrefix(text, bus[o].serial)
    BY <1>3, <1>6, <1>11, <2>1, <2>2
  <2> HIDE DEF same, prefix, suffix, at, o
  <2> QED BY <1>8, <1>11, <2>1, <2>2, <2>3 DEF Match, o
<1>12. CASE same = {} /\ prefix = {} /\ suffix = {}
  <2>1. found = -1
    BY <1>5, <1>12
  <2> HIDE DEF same, prefix, suffix, at
  <2> QED BY <1>8, <1>12, <2>1 DEF Match
<1> QED BY <1>9, <1>10, <1>11, <1>12

------------------------------------------------------------------------------
(* A behaviour keeps to the requests of one kind.                            *)
OneKind == "kind" \in DOMAIN ask

LEMMA KindKept ==
  ASSUME OneKind, [AskNext]_ask PROVE OneKind' /\ ask'.kind = ask.kind
<1>1. CASE NextFreq
  BY <1>1 DEF NextFreq, OneKind
<1>2. CASE NextGain
  BY <1>2 DEF NextGain, OneKind
<1>3. CASE NextFilter
  BY <1>3 DEF NextFilter, OneKind
<1>4. CASE NextStage
  BY <1>4 DEF NextStage, OneKind
<1>5. CASE NextChannels
  BY <1>5 DEF NextChannels, OneKind
<1>6. CASE NextRange
  BY <1>6 DEF NextRange, OneKind
<1>7. CASE NextTone
  BY <1>7 DEF NextTone, OneKind
<1>8. CASE NextFrame
  BY <1>8 DEF NextFrame, OneKind
<1>9. CASE NextSample
  BY <1>9 DEF NextSample, OneKind
<1>10. CASE NextDevice
  BY <1>10 DEF NextDevice, OneKind
<1>11. CASE NextCommand
  BY <1>11 DEF NextCommand, OneKind
<1>12. CASE NextPiece
  BY <1>12 DEF NextPiece, OneKind
<1>13. CASE UNCHANGED ask
  BY <1>13 DEF OneKind
<1> QED BY <1>1, <1>2, <1>3, <1>4, <1>5, <1>6, <1>7, <1>8, <1>9, <1>10, <1>11, <1>12,
           <1>13 DEF AskNext

LEMMA KindAtFirst == AskInit => OneKind
BY DEF AskInit, OneKind

LEMMA KindAlways == AskSpec => []OneKind
<1>1. OneKind /\ [AskNext]_ask => OneKind'
  BY KindKept
<1> QED BY <1>1, KindAtFirst, PTL DEF AskSpec

(* Only the steps of its own kind change a request.                          *)
LEMMA OwnSteps ==
  ASSUME [AskNext]_ask
  PROVE  /\ ask.kind = "gain" => NextGain \/ UNCHANGED ask
         /\ ask.kind = "filter" => NextFilter \/ UNCHANGED ask
         /\ ask.kind = "stages" => NextStage \/ UNCHANGED ask
         /\ ask.kind = "tune" => NextFreq \/ UNCHANGED ask
         /\ ask.kind = "signal" => NextSample \/ UNCHANGED ask
         /\ ask.kind = "search" => NextDevice \/ UNCHANGED ask
         /\ ask.kind = "command" => NextCommand \/ NextPiece \/ UNCHANGED ask
BY DEF AskNext, NextFreq, NextGain, NextFilter, NextStage, NextChannels, NextRange,
       NextTone, NextFrame, NextSample, NextDevice, NextCommand, NextPiece

------------------------------------------------------------------------------

LEMMA TextsAreSequences == Texts \subseteq Seq(Characters)
BY LongestAssumption DEF Texts, BoundedSeq, SeqOf

SearchInv ==
  ask.kind = "search" =>
    ask \in [kind : {"search"}, text : Seq(Characters), bus : Seq(Devices)]

LEMMA SearchInductive == AskSpec => []SearchInv
<1>1. AskInit => SearchInv
  <2> SUFFICES ASSUME AskInit, ask.kind = "search"
      PROVE  ask \in [kind : {"search"}, text : Seq(Characters), bus : Seq(Devices)]
    BY DEF SearchInv
  <2>1. PICK s \in Texts : ask = [kind |-> "search", text |-> s, bus |-> <<>>]
    BY DEF AskInit
  <2> QED BY <2>1, TextsAreSequences
<1>2. SearchInv /\ OneKind /\ [AskNext]_ask => SearchInv'
  <2> SUFFICES ASSUME SearchInv, OneKind, [AskNext]_ask, ask.kind = "search"
      PROVE  ask' \in [kind : {"search"}, text : Seq(Characters), bus : Seq(Devices)]
    BY KindKept DEF SearchInv
  <2>1. ask \in [kind : {"search"}, text : Seq(Characters), bus : Seq(Devices)]
    BY DEF SearchInv
  <2>2. CASE UNCHANGED ask
    BY <2>1, <2>2
  <2>3. CASE NextDevice
    <3>1. PICK s \in Texts, known \in BOOLEAN, opens \in BOOLEAN :
            ask' = [ask EXCEPT !.bus =
                      Append(ask.bus, [known |-> known, serial |-> s, opens |-> opens])]
      BY <2>3 DEF NextDevice
    <3>2. [known |-> known, serial |-> s, opens |-> opens] \in Devices
      BY TextsAreSequences DEF Devices
    <3> DEFINE d == [known |-> known, serial |-> s, opens |-> opens]
    <3> HIDE DEF d
    <3>3. ask.bus \in Seq(Devices) /\ d \in Devices
      BY <2>1, <3>2 DEF d
    <3>4. Append(ask.bus, d) \in Seq(Devices)
      BY <3>3
    <3>5. ask' = [ask EXCEPT !.bus = Append(ask.bus, d)]
      BY <3>1 DEF d
    <3> QED BY <2>1, <3>4, <3>5
  <2> QED BY <2>2, <2>3, OwnSteps
<1> QED BY <1>1, <1>2, KindAlways, PTL DEF AskSpec

(* The index a search answers with opens the dongle that was meant: on any   *)
(* bus, for any text and any serials.                                        *)
THEOREM DeviceAlwaysFound == AskSpec => []DeviceFound
<1>1. SearchInv => DeviceFound
  <2> SUFFICES ASSUME SearchInv, ask.kind = "search" PROVE DeviceFound
    BY DEF DeviceFound
  <2> DEFINE bus == ask.bus
             text == ask.text
             indices == 0 .. DeviceCount(bus) - 1
             nr == IndexBySerial(bus, text)
             found == VerboseDeviceSearch(bus, text)
  <2>1. bus \in Seq(Devices) /\ text \in Seq(Characters)
    BY DEF SearchInv
  <2> HIDE DEF bus, text
  <2>2. \A k \in indices : \E i \in Dongles(bus) : k = KnownUpTo(bus, i) - 1
    BY <2>1, IndexUsed
  <2>3. \A i \in Dongles(bus) :
          LET k == KnownUpTo(bus, i) - 1
          IN  k \in indices /\ DeviceAt(bus, k) = i /\ OpenedAt(bus, k) = i
    BY <2>1, DongleCounted
  <2>4. \A k \in indices : OpenRTLSDR(bus, k) = OpenedAt(bus, k)
    BY DEF OpenRTLSDR
  <2>5. {OpenRTLSDR(bus, k) : k \in indices} = Dongles(bus)
    BY <2>2, <2>3, <2>4
  <2>6. \A k \in indices : OpenRTLSDR(bus, k) = DeviceAt(bus, k)
    BY <2>2, <2>3, <2>4
  <2>7. IF nr < 0 THEN \A i \in Dongles(bus) : bus[i].opens => bus[i].serial # text
        ELSE bus[OpenedAt(bus, nr)].serial = text
    BY <2>1, SerialFound
  <2>8. ASSUME Reachable(bus), ~ (IsNumber(text) /\ Number(text) \in indices)
        PROVE  \A i \in Dongles(bus) :
                 IF found < 0 THEN Match(bus, text, i) = 0
                 ELSE LET o == OpenedAt(bus, found)
                      IN  /\ Match(bus, text, o) > 0
                          /\ i < o => Match(bus, text, i) < Match(bus, text, o)
                          /\ Match(bus, text, i) <= Match(bus, text, o)
    BY <2>1, <2>8, SearchAnswered
  <2> HIDE DEF nr, found, indices
  <2> QED BY <2>5, <2>6, <2>7, <2>8
          DEF DeviceFound, bus, text, nr, found, indices, Dongles, Match
<1> QED BY <1>1, SearchInductive, PTL

------------------------------------------------------------------------------
(* The commands of a client.                                                 *)
Numbers == {n \in Nat : n <= 2147483647}
Commands == (DOMAIN Setters) \X Numbers
Bytes(c) == SendCommand(Setters[c[1]], c[2])
MeantBy(c) == Meant(c[1], c[2])
Calls == (DOMAIN Setters \cup {"tuner_gain"}) \X Int

LEMMA QuotientTwice ==
  ASSUME NEW n \in Nat, NEW c \in Nat \ {0}, NEW d \in Nat \ {0}
  PROVE  n \div (c * d) = (n \div c) \div d
<1> DEFINE a == n \div c  r == n % c  b == a \div d  s == a % d
           q == n \div (c * d)  t == n % (c * d)
<1>1. c * d \in Nat \ {0}
  OBVIOUS
<1>2. a \in Nat /\ r \in Nat /\ r < c /\ a * c + r = n
  BY Division
<1>3. b \in Nat /\ s \in Nat /\ s < d /\ b * d + s = a
  <2> HIDE DEF a
  <2> QED BY <1>2, Division
<1>4. q \in Nat /\ t \in Nat /\ t < c * d /\ q * (c * d) + t = n
  <2> DEFINE e == c * d
  <2> HIDE DEF e
  <2> QED BY <1>1, Division DEF e
<1> SUFFICES q = b
  OBVIOUS
<1> HIDE DEF a, r, b, s, q, t
<1>5. b * (c * d) + (s * c + r) = n
  <2>1. (b * d + s) * c = b * (c * d) + s * c
    BY <1>2, <1>3
  <2> QED BY <1>2, <1>3, <2>1
<1>6. s * c + r \in 0 .. c * d - 1
  <2>1. s * c <= (d - 1) * c
    BY <1>3
  <2>2. (d - 1) * c = c * d - c
    OBVIOUS
  <2>3. s * c \in Nat
    BY <1>3
  <2> QED BY <1>2, <2>1, <2>2, <2>3, <1>1
<1>7. t \in 0 .. c * d - 1
  BY <1>1, <1>4
<1> DEFINE e == c * d  u == s * c + r
<1>8. e \in Nat \ {0} /\ u \in 0 .. e - 1 /\ t \in 0 .. e - 1 /\ q * e + t = b * e + u
  BY <1>1, <1>4, <1>5, <1>6, <1>7
<1> HIDE DEF e, u
<1> QED BY <1>3, <1>4, <1>8, QuotientUnique

(* Four bytes carry a number, and read back give it.                         *)
LEMMA FourBytes ==
  ASSUME NEW n \in Numbers, NEW code
  PROVE  Ntohl(SendCommand(code, n)) = n
<1> DEFINE a == n \div 256  b == a \div 256  c == b \div 256
<1>1. n \in Nat /\ n <= 2147483647
  BY SMT DEF Numbers
<1>2. a \in Nat /\ n % 256 \in Nat /\ n = a * 256 + (n % 256) /\ n % 256 < 256
  BY SMT, <1>1, Division
<1>3. b \in Nat /\ a % 256 \in Nat /\ a = b * 256 + (a % 256) /\ a % 256 < 256
  <2> HIDE DEF a
  <2> QED BY SMT, <1>2, Division
<1>4. c \in Nat /\ b % 256 \in Nat /\ b = c * 256 + (b % 256) /\ b % 256 < 256
  <2> HIDE DEF b
  <2> QED BY SMT, <1>3, Division
<1>5. n \div 65536 = b
  <2>1. 256 * 256 = 65536 /\ 256 \in Nat \ {0}
    OBVIOUS
  <2>2. n \div (256 * 256) = b
    BY SMT, <1>1, <2>1, QuotientTwice
  <2> QED BY SMT, <2>1, <2>2
<1>6. n \div 16777216 = c
  <2>1. 65536 * 256 = 16777216 /\ 256 \in Nat \ {0} /\ 65536 \in Nat \ {0}
    OBVIOUS
  <2>2. n \div (65536 * 256) = (n \div 65536) \div 256
    BY SMT, <1>1, <2>1, QuotientTwice
  <2> QED BY SMT, <2>1, <2>2, <1>5
<1>7. Byte(n, 0) = n % 256
  <2>1. 256 ^ 0 = 1 /\ n \div 1 = n
    BY SMT, <1>1
  <2> QED BY SMT, <2>1 DEF Byte
<1>8. Byte(n, 1) = a % 256
  <2>1. 256 ^ 1 = 256
    OBVIOUS
  <2> QED BY SMT, <2>1 DEF Byte
<1>9. Byte(n, 2) = b % 256
  <2>1. 256 ^ 2 = 65536
    OBVIOUS
  <2> QED BY SMT, <2>1, <1>5 DEF Byte
<1>10. Byte(n, 3) = c % 256
  <2>1. 256 ^ 3 = 16777216
    OBVIOUS
  <2> QED BY SMT, <2>1, <1>6 DEF Byte
<1> HIDE DEF a, b, c
<1>11. c % 256 = c
  <2>1. c < 256
    BY SMT, <1>1, <1>2, <1>3, <1>4
  <2> QED BY SMT, <1>4, <2>1
<1>12. Ntohl(SendCommand(code, n)) =
         ((Byte(n, 3) * 256 + Byte(n, 2)) * 256 + Byte(n, 1)) * 256 + Byte(n, 0)
  BY DEF Ntohl, SendCommand
<1>13. ((c * 256 + (b % 256)) * 256 + (a % 256)) * 256 + (n % 256) = n
  <2>1. c * 256 + (b % 256) = b
    BY SMT, <1>4
  <2>2. b * 256 + (a % 256) = a
    BY SMT, <1>3
  <2>3. a * 256 + (n % 256) = n
    BY SMT, <1>2
  <2> QED BY SMT, <2>1, <2>2, <2>3
<1> QED BY SMT, <1>7, <1>8, <1>9, <1>10, <1>11, <1>12, <1>13

(* The server makes of the bytes what the setter meant.                      *)
LEMMA Dispatched ==
  ASSUME NEW c \in Commands
  PROVE  Dispatch("R82xx", Bytes(c)) = MeantBy(c)
<1> DEFINE f == c[1]  n == c[2]  code == Setters[f]
<1>1. n \in Numbers /\ f \in DOMAIN Setters
  BY DEF Commands
<1>2. /\ Bytes(c)[1] = code
      /\ Ntohl(Bytes(c)) = n
  BY <1>1, FourBytes DEF Bytes, SendCommand
<1>3. /\ code \in Codes /\ code # 6 /\ (code = 13 <=> f = "gain_by_index")
      /\ code # 13 => Functions[code] = f
  BY <1>1 DEF Setters, Codes, Functions
<1>4. Len(Advertised("R82xx")) = 29
  BY SMT DEF Advertised
<1>5. n \in Int
  BY SMT, <1>1 DEF Numbers
<1> HIDE DEF f, n, code
<1>6. CASE code = 13
  BY SMT, <1>2, <1>3, <1>4, <1>5, <1>6 DEF Dispatch, MeantBy, Meant, f, n
<1>7. CASE code # 13
  BY SMT, <1>2, <1>3, <1>5, <1>7 DEF Dispatch, MeantBy, Meant, f, n
<1> QED BY <1>6, <1>7

LEMMA OneCall == ASSUME NEW x \in Calls PROVE <<x>> \in Seq(Calls)
OBVIOUS

LEMMA MeantIsCalls ==
  ASSUME NEW c \in Commands PROVE MeantBy(c) \in Seq(Calls)
<1> DEFINE f == c[1]  n == c[2]  g == Advertised("R82xx")[n + 1]
<1>1. n \in Numbers /\ f \in DOMAIN Setters
  BY DEF Commands
<1>2. \A k \in 1 .. 29 : Advertised("R82xx")[k] \in Int
  BY SMT DEF Advertised
<1>3. Len(Advertised("R82xx")) = 29
  BY SMT DEF Advertised
<1>4. n \in Int /\ n >= 0
  BY SMT, <1>1 DEF Numbers
<1>5. MeantBy(c) = Meant(f, n)
  BY DEF MeantBy
<1>6. n < 29 => g \in Int
  BY <1>2, <1>4
<1> HIDE DEF f, n, g
<1>7. Meant(f, n) \in {<<<<"tuner_gain", g>>>>, <<>>, <<<<f, n>>>>}
      /\ (Meant(f, n) = <<<<"tuner_gain", g>>>> => n < 29 \/ Meant(f, n) = <<<<f, n>>>>)
  <2>1. CASE f = "gain_by_index" /\ n < Len(Advertised("R82xx"))
    BY <1>3, <2>1 DEF Meant, g
  <2>2. CASE f = "gain_by_index" /\ ~ (n < Len(Advertised("R82xx")))
    BY <1>3, <1>4, <2>2 DEF Meant
  <2>3. CASE f # "gain_by_index"
    BY <2>3 DEF Meant
  <2> QED BY <2>1, <2>2, <2>3
<1>8. <<f, n>> \in Calls
  BY <1>1, <1>4 DEF Calls
<1>9. n < 29 => <<"tuner_gain", g>> \in Calls
  BY <1>6 DEF Calls
<1>10. <<>> \in Seq(Calls)
  OBVIOUS
<1> DEFINE x == <<f, n>>  y == <<"tuner_gain", g>>
<1>11. <<x>> \in Seq(Calls) /\ (n < 29 => <<y>> \in Seq(Calls))
  BY <1>8, <1>9, OneCall
<1>12. Meant(f, n) \in {<<y>>, <<>>, <<x>>} /\ (Meant(f, n) = <<y>> => n < 29 \/ Meant(f, n) = <<x>>)
  BY <1>7
<1> HIDE DEF x, y
<1> QED BY <1>5, <1>10, <1>11, <1>12

LEMMA SameOverUsbToo ==
  ASSUME NEW c \in Commands PROVE SameOverUsb(c[1], c[2])
<1> DEFINE f == c[1]  n == c[2]
<1>1. n \in Int /\ n >= 0
  BY SMT DEF Commands, Numbers
<1> HIDE DEF f, n
<1>2. SUFFICES ASSUME f # "gain_by_index" PROVE SameOverUsb(f, n)
  BY DEF SameOverUsb, f, n
<1>3. Meant(f, n) = <<<<f, n>>>>
  BY <1>2 DEF Meant
<1>4. WrapperCall(f, n) =
        IF f = "sample_rate" /\ ~(225001 <= n /\ n <= 300000)
                             /\ ~(900001 <= n /\ n <= 32000000)
        THEN <<>> ELSE <<<<f, n>>>>
  BY SMT, <1>1 DEF WrapperCall
<1>5. CASE WrapperCall(f, n) = <<>>
  <2>1. ~ Effective(<<f, n>>)
    BY SMT, <1>1, <1>4, <1>5 DEF Effective, Supported
  <2> QED BY <1>5, <2>1 DEF SameOverUsb, UsbSetter
<1>6. CASE WrapperCall(f, n) = <<<<f, n>>>>
  <2> DEFINE x == <<f, n>>
  <2>1. WrapperCall(f, n) = <<x>> /\ Meant(f, n) = <<x>>
    BY <1>3, <1>6
  <2> HIDE DEF x
  <2>2. WrapperCall(f, n) # <<>> /\ WrapperCall(f, n)[1] = x
    BY <2>1
  <2>3. CASE Effective(x)
    <3>1. UsbSetter(f, n).calls = WrapperCall(f, n) /\ ~ UsbSetter(f, n).throws
      BY <2>2, <2>3 DEF UsbSetter
    <3> QED BY <2>1, <2>3, <3>1 DEF SameOverUsb, x
  <2>4. CASE ~ Effective(x)
    <3>1. UsbSetter(f, n).calls = <<>> /\ UsbSetter(f, n).throws
      BY <2>2, <2>4 DEF UsbSetter
    <3> QED BY <2>4, <3>1 DEF SameOverUsb, x
  <2> QED BY <2>3, <2>4
<1> QED BY <1>4, <1>5, <1>6

(* What the calls of the first k commands are.                               *)
Carries(r, sent) ==
  /\ r \in [0 .. Len(sent) -> Seq(Calls)] /\ r[0] = <<>>
  /\ \A k \in 1 .. Len(sent) : r[k] = r[k - 1] \o MeantBy(sent[k])

AllMeant(sent) == FoldLeft(LAMBDA m, c : m \o Meant(c[1], c[2]), <<>>, sent)

LEMMA AllMeantCarried ==
  ASSUME NEW sent \in Seq(Commands), NEW r, Carries(r, sent)
  PROVE  AllMeant(sent) = r[Len(sent)]
<1> DEFINE n == Len(sent)
           A == Seq(Calls)
           G == [p \in A \X (1 .. n) |-> p[1] \o MeantBy(sent[p[2]])]
           Reads(it) == it = [s \in SUBSET (1 .. n) |->
             IF s = {} THEN <<>>
             ELSE it[s \ {Max(s)}] \o Meant(sent[Max(s)][1], sent[Max(s)][2])]
<1>1. n \in Nat /\ DOMAIN sent = 1 .. n /\ <<>> \in A
  OBVIOUS
<1>2. \A k \in 1 .. n : MeantBy(sent[k]) \in A
  BY MeantIsCalls
<1>3. PICK f : Runs(f, n, A, <<>>, G)
  <2>1. G \in [A \X (1 .. n) -> A]
    <3> SUFFICES ASSUME NEW a \in A, NEW k \in 1 .. n PROVE a \o MeantBy(sent[k]) \in A
      OBVIOUS
    <3> DEFINE b == MeantBy(sent[k])
    <3>1. b \in A
      BY <1>2
    <3> HIDE DEF b
    <3>2. a \o b \in A
      BY <3>1, ConcatProperties
    <3> QED BY <3>2 DEF b
  <2> HIDE DEF G, n, A
  <2> QED BY <1>1, <2>1, FoldRun
<1>4. Reads(f)
  <2>1. f = [s \in SUBSET (1 .. n) |-> f[s]]
    BY <1>3 DEF Runs
  <2>2. ASSUME NEW s \in SUBSET (1 .. n)
        PROVE  f[s] = IF s = {} THEN <<>>
                      ELSE f[s \ {Max(s)}] \o Meant(sent[Max(s)][1], sent[Max(s)][2])
    <3>1. CASE s = {}
      BY <1>3, <3>1 DEF Runs
    <3>2. CASE s # {}
      <4>1. f[s \ {Max(s)}] \in A /\ Max(s) \in 1 .. n
        BY <1>1, <1>3, <3>2, MaxOf DEF Runs
      <4>2. f[s] = G[f[s \ {Max(s)}], Max(s)]
        BY <1>3, <3>2 DEF Runs
      <4>3. f[s] = f[s \ {Max(s)}] \o MeantBy(sent[Max(s)])
        BY <4>1, <4>2
      <4> QED BY <3>2, <4>3 DEF MeantBy
    <3> QED BY <3>1, <3>2
  <2> QED BY <2>1, <2>2
<1> DEFINE it == CHOOSE it : Reads(it)
<1>5. AllMeant(sent) = it[1 .. n]
  BY <1>1 DEF AllMeant, FoldLeft, MapThenFoldSet
<1>6. Reads(it)
  <2> HIDE DEF Reads
  <2> QED BY <1>4
<1> DEFINE S == {k \in Nat : k <= n => it[1 .. k] = r[k]}
<1> HIDE DEF it
<1>7. 0 \in S
  <2>1. 1 .. 0 = {} /\ {} \in SUBSET (1 .. n)
    OBVIOUS
  <2>2. it[1 .. 0] = <<>>
    BY <1>6, <2>1
  <2> QED BY <2>2 DEF Carries
<1>8. ASSUME NEW k \in Nat, k \in S PROVE k + 1 \in S
  <2>1. SUFFICES ASSUME k + 1 <= n PROVE it[1 .. k + 1] = r[k + 1]
    OBVIOUS
  <2>2. /\ 1 .. k + 1 \in SUBSET (1 .. n) /\ 1 .. k + 1 # {} /\ k + 1 \in 1 .. n
        /\ Max(1 .. k + 1) = k + 1 /\ (1 .. k + 1) \ {k + 1} = 1 .. k
    BY <1>1, <2>1, MaxOfSegment
  <2>3. it[1 .. k + 1] = it[1 .. k] \o MeantBy(sent[k + 1])
    BY <1>6, <2>2 DEF MeantBy
  <2>4. it[1 .. k] = r[k]
    BY <1>1, <1>8, <2>1
  <2>5. r[k + 1] = r[k] \o MeantBy(sent[k + 1])
    <3>1. k + 1 \in 1 .. n /\ (k + 1) - 1 = k
      BY <2>2
    <3> QED BY <3>1 DEF Carries
  <2> QED BY <2>3, <2>4, <2>5
<1>9. n \in S
  <2> HIDE DEF S, n
  <2> QED BY <1>1, <1>7, <1>8, Induction
<1> QED BY <1>1, <1>5, <1>9

LEMMA CarriedPrefix ==
  ASSUME NEW sent \in Seq(Commands), NEW r, Carries(r, sent), NEW j \in 0 .. Len(sent)
  PROVE  IsPrefix(r[j], r[Len(sent)])
<1> DEFINE n == Len(sent)
           A == Seq(Calls)
           S == {k \in Nat : j + k <= n => \E more \in A : r[j + k] = r[j] \o more}
<1>1. n \in Nat /\ j \in Nat /\ j <= n
  OBVIOUS
<1>2. \A k \in 0 .. n : r[k] \in A
  BY DEF Carries
<1>3. 0 \in S
  <2>1. r[j] \o <<>> = r[j] /\ <<>> \in A /\ j + 0 = j
    BY <1>1, <1>2
  <2> QED BY <2>1
<1>4. ASSUME NEW k \in Nat, k \in S PROVE k + 1 \in S
  <2>1. SUFFICES ASSUME j + (k + 1) <= n
        PROVE  \E more \in A : r[j + (k + 1)] = r[j] \o more
    OBVIOUS
  <2>2. PICK more \in A : r[j + k] = r[j] \o more
    BY <1>1, <1>4, <2>1
  <2> DEFINE i == j + (k + 1)
  <2>3. i \in 1 .. n /\ i - 1 = j + k
    BY <1>1, <2>1
  <2> DEFINE c == MeantBy(sent[i])
  <2>4. r[i] = r[j + k] \o c
    BY <2>3 DEF Carries
  <2>7. c \in A
    <3>1. sent[i] \in Commands
      BY <2>3
    <3> QED BY <3>1, MeantIsCalls
  <2>5. r[j] \in A
    BY <1>1, <1>2
  <2> HIDE DEF A, c, i
  <2>6. r[i] = r[j] \o (more \o c) /\ more \o c \in A
    <3> DEFINE s == r[j]
    <3>1. s \in Seq(Calls) /\ more \in Seq(Calls) /\ c \in Seq(Calls)
      BY <2>5, <2>7 DEF A
    <3> HIDE DEF s
    <3>2. (s \o more) \o c = s \o (more \o c)
      BY <3>1, SMT
    <3>3. more \o c \in A
      BY <3>1, ConcatProperties DEF A
    <3> QED BY <2>2, <2>4, <3>2, <3>3 DEF s
  <2> QED BY <2>6 DEF i
<1>5. n - j \in S
  <2>1. n - j \in Nat
    BY <1>1
  <2> HIDE DEF S, n
  <2> QED BY <2>1, <1>3, <1>4, Induction
<1>6. PICK more \in A : r[n] = r[j] \o more
  <2>1. j + (n - j) = n
    BY <1>1
  <2> QED BY <1>1, <1>5, <2>1
<1>7. r[j] \in A
  BY <1>1, <1>2
<1> DEFINE s == r[j]
<1>8. s \in A /\ IsPrefix(s, s \o more)
  <2> HIDE DEF s
  <2> QED BY <1>7 DEF IsPrefix, s
<1> QED BY <1>6, <1>8

(* How far the server has come: the first j commands are carried out, p      *)
(* bytes of the next are there, and the wire holds the rest.                 *)
CommandAsked ==
  ask \in [kind : {"command"}, sent : Seq(Commands), wire : Seq(Int),
           server : [cmd : [1 .. 5 -> Int], left : 1 .. 5, calls : Seq(Calls)]]

Progress(r, j, p) ==
  /\ Carries(r, ask.sent) /\ j \in 0 .. Len(ask.sent) /\ p \in 0 .. 4
  /\ ask.server.left = 5 - p /\ ask.server.calls = r[j]
  /\ Len(ask.wire) = 5 * (Len(ask.sent) - j) - p
  /\ \A i \in 1 .. p : ask.server.cmd[i] = Bytes(ask.sent[j + 1])[i]
  /\ \A c \in j + 1 .. Len(ask.sent), i \in 1 .. 5 :
       5 * (c - j - 1) + i - p >= 1 =>
         ask.wire[5 * (c - j - 1) + i - p] = Bytes(ask.sent[c])[i]

CommandInv ==
  ask.kind = "command" => CommandAsked /\ \E r, j, p : Progress(r, j, p)

LEMMA BytesAre ==
  ASSUME NEW c \in Commands
  PROVE  Bytes(c) \in Seq(Int) /\ Bytes(c) \in [1 .. 5 -> Int] /\ Len(Bytes(c)) = 5
<1> DEFINE n == c[2]
<1>5. n \in Nat
  BY SMT DEF Commands, Numbers
<1> HIDE DEF n
<1>6. \A w \in Nat \ {0} : (n \div w) % 256 \in Int
  <2> TAKE w \in Nat \ {0}
  <2> DEFINE q == n \div w
  <2>1. q \in Nat
    BY <1>5, Division
  <2> HIDE DEF q
  <2>2. q % 256 \in Int
    BY <2>1
  <2> QED BY <2>2 DEF q
<1>1. Byte(n, 0) \in Int /\ Byte(n, 1) \in Int /\ Byte(n, 2) \in Int /\ Byte(n, 3) \in Int
  <2> DEFINE part(w) == (n \div w) % 256
             p0 == 256 ^ 0
             p1 == 256 ^ 1
             p2 == 256 ^ 2
             p3 == 256 ^ 3
  <2>1. p0 \in Nat \ {0} /\ p1 \in Nat \ {0} /\ p2 \in Nat \ {0} /\ p3 \in Nat \ {0}
    BY SMT
  <2>2. \A w \in Nat \ {0} : part(w) \in Int
    BY <1>6, SMT
  <2>3. /\ Byte(n, 0) = part(p0) /\ Byte(n, 1) = part(p1)
        /\ Byte(n, 2) = part(p2) /\ Byte(n, 3) = part(p3)
    BY SMT DEF Byte
  <2> HIDE DEF part, p0, p1, p2, p3
  <2>4. part(p0) \in Int /\ part(p1) \in Int /\ part(p2) \in Int /\ part(p3) \in Int
    BY <2>1, <2>2
  <2> QED BY <2>3, <2>4
<1>2. Setters[c[1]] \in Int
  BY DEF Commands, Setters
<1> DEFINE x == Setters[c[1]]  b(k) == Byte(n, k)
<1>3. Bytes(c) = <<x, b(3), b(2), b(1), b(0)>>
  BY DEF Bytes, SendCommand, n
<1> HIDE DEF x, b
<1>4. x \in Int /\ b(3) \in Int /\ b(2) \in Int /\ b(1) \in Int /\ b(0) \in Int
  BY <1>1, <1>2 DEF x, b
<1> QED BY <1>3, <1>4

LEMMA ArgumentsAreNumbers ==
  \A f \in DOMAIN Setters : \A n \in ArgumentsOf(f) : <<f, n>> \in Commands
<1> SUFFICES ASSUME NEW f \in DOMAIN Setters, NEW n \in ArgumentsOf(f) PROVE n \in Numbers
  BY DEF Commands
<1>1. n \in {0, 1, 2} \/ n \in Arguments
  BY DEF ArgumentsOf
<1> QED BY SMT, <1>1, ArgumentsAssumption DEF Numbers

LEMMA CommandAtFirst == AskInit => CommandInv
<1> SUFFICES ASSUME AskInit, ask.kind = "command"
    PROVE  CommandAsked /\ \E r, j, p : Progress(r, j, p)
  BY DEF CommandInv
<1>1. ask = [kind |-> "command", sent |-> <<>>, wire |-> <<>>, server |-> Listening]
  BY DEF AskInit
<1>2. /\ Listening.cmd \in [1 .. 5 -> Int] /\ Listening.left = 5
      /\ Listening = [cmd |-> Listening.cmd, left |-> 5, calls |-> <<>>]
  BY DEF Listening
<1> DEFINE c == Listening.cmd
<1>3. ask = [kind |-> "command", sent |-> <<>>, wire |-> <<>>,
             server |-> [cmd |-> c, left |-> 5, calls |-> <<>>]] /\ c \in [1 .. 5 -> Int]
  BY <1>1, <1>2
<1> HIDE DEF c
<1>4. CommandAsked
  BY <1>3 DEF CommandAsked
<1> DEFINE r == [k \in {0} |-> <<>>]
<1>5. Carries(r, <<>>)
  BY DEF Carries
<1>6. r[0] = <<>>
  OBVIOUS
<1> HIDE DEF r
<1>7. Progress(r, 0, 0)
  BY <1>3, <1>5, <1>6 DEF Progress
<1> QED BY <1>4, <1>7

LEMMA CommandSentKeeps ==
  ASSUME CommandAsked, NEW r, NEW j, NEW p, Progress(r, j, p), NextCommand
  PROVE  CommandAsked' /\ \E s : Progress(s, j, p)'
<1> DEFINE n == Len(ask.sent)
<1>1. PICK f \in DOMAIN Setters : \E x \in ArgumentsOf(f) :
        ask' = [ask EXCEPT !.sent = Append(ask.sent, <<f, x>>),
                           !.wire = ask.wire \o SendCommand(Setters[f], x)]
  BY DEF NextCommand
<1>2. PICK x \in ArgumentsOf(f) :
        ask' = [ask EXCEPT !.sent = Append(ask.sent, <<f, x>>),
                           !.wire = ask.wire \o SendCommand(Setters[f], x)]
  BY <1>1
<1> DEFINE c == <<f, x>>  b == Bytes(c)
<1>3. c \in Commands /\ b \in Seq(Int) /\ Len(b) = 5
  BY ArgumentsAreNumbers, BytesAre
<1>4. ask' = [ask EXCEPT !.sent = Append(ask.sent, c), !.wire = ask.wire \o b]
  BY <1>2 DEF Bytes
<1> HIDE DEF c, b
<1>5. ask.sent \in Seq(Commands) /\ ask.wire \in Seq(Int)
  BY DEF CommandAsked
<1>6. /\ ask'.sent = Append(ask.sent, c) /\ ask'.wire = ask.wire \o b
      /\ ask'.server = ask.server
  BY <1>4 DEF CommandAsked
<1>7. /\ ask'.sent \in Seq(Commands) /\ ask'.wire \in Seq(Int)
      /\ Len(ask'.sent) = n + 1 /\ Len(ask'.wire) = Len(ask.wire) + 5 /\ n \in Nat
      /\ \A k \in 1 .. n : ask'.sent[k] = ask.sent[k]
      /\ ask'.sent[n + 1] = c
      /\ \A i \in 1 .. Len(ask.wire) : ask'.wire[i] = ask.wire[i]
      /\ \A i \in 1 .. 5 : ask'.wire[Len(ask.wire) + i] = b[i]
  <2> DEFINE sent == Append(ask.sent, c)  wire == ask.wire \o b
  <2>1. /\ sent \in Seq(Commands) /\ n \in Nat /\ Len(sent) = n + 1 /\ sent[n + 1] = c
        /\ \A k \in 1 .. n : sent[k] = ask.sent[k]
    BY <1>3, <1>5, Appended
  <2>2. /\ wire \in Seq(Int) /\ Len(wire) = Len(ask.wire) + Len(b)
        /\ \A k \in 1 .. Len(ask.wire) : wire[k] = ask.wire[k]
        /\ \A k \in 1 .. Len(b) : wire[Len(ask.wire) + k] = b[k]
    <3> DEFINE w == ask.wire
    <3>1. w \in Seq(Int) /\ b \in Seq(Int)
      BY <1>3, <1>5
    <3> HIDE DEF w
    <3>2. /\ w \o b \in Seq(Int) /\ Len(w \o b) = Len(w) + Len(b)
          /\ \A k \in 1 .. Len(w) : (w \o b)[k] = w[k]
          /\ \A k \in 1 .. Len(b) : (w \o b)[Len(w) + k] = b[k]
      BY <3>1, JoinedInts, Zenon
    <3> QED BY <3>2 DEF w
  <2> HIDE DEF sent, wire
  <2>3. ask'.sent = sent /\ ask'.wire = wire
    BY <1>6 DEF sent, wire
  <2> QED BY <1>3, <2>1, <2>2, <2>3
<1> HIDE DEF n
<1>8. CommandAsked'
  BY <1>4, <1>6, <1>7 DEF CommandAsked
<1>15. Len(ask.sent) = n
  BY DEF n
<1> DEFINE s == [k \in 0 .. n + 1 |-> IF k = n + 1 THEN r[n] \o MeantBy(c) ELSE r[k]]
<1>9. Carries(s, ask'.sent)
  <2>1. r[n] \in Seq(Calls) /\ MeantBy(c) \in Seq(Calls) /\ \A k \in 0 .. n : r[k] \in Seq(Calls)
    <3>1. n \in 0 .. n
      BY <1>7
    <3> QED BY <1>3, <1>15, <3>1, MeantIsCalls DEF Progress, Carries
  <2>2. r[n] \o MeantBy(c) \in Seq(Calls)
    BY <2>1, ConcatProperties
  <2>3. s \in [0 .. n + 1 -> Seq(Calls)] /\ s[0] = <<>>
    <3>1. 0 # n + 1 /\ 0 \in 0 .. n + 1 /\ \A k \in 0 .. n + 1 : k # n + 1 => k \in 0 .. n
      <4>1. n \in Nat
        BY <1>7
      <4> QED BY <4>1
    <3>2. r[0] = <<>>
      BY DEF Progress, Carries
    <3> QED BY <2>1, <2>2, <3>1, <3>2
  <2>4. ASSUME NEW k \in 1 .. n + 1 PROVE s[k] = s[k - 1] \o MeantBy(ask'.sent[k])
    <3>1. CASE k = n + 1
      <4>1. k \in 0 .. n + 1 /\ k - 1 = n /\ n \in 0 .. n + 1 /\ n # n + 1
        BY <1>7, <3>1
      <4> QED BY <1>7, <3>1, <4>1
    <3>2. CASE k # n + 1
      <4>1. k \in 1 .. n /\ k - 1 \in 0 .. n /\ k \in 0 .. n + 1 /\ k - 1 \in 0 .. n + 1 /\ k - 1 # n + 1
        <5> HIDE DEF s
        <5> QED BY <1>7, <3>2
      <4>2. r[k] = r[k - 1] \o MeantBy(ask.sent[k])
        BY <1>15, <4>1 DEF Progress, Carries
      <4>3. s[k] = r[k] /\ s[k - 1] = r[k - 1] /\ ask'.sent[k] = ask.sent[k]
        BY <1>7, <3>2, <4>1
      <4> QED BY <4>2, <4>3
    <3> QED BY <3>1, <3>2
  <2> HIDE DEF s
  <2> QED BY <1>7, <2>3, <2>4 DEF Carries
<1>10. j \in 0 .. n /\ p \in 0 .. 4 /\ Len(ask.wire) = 5 * (n - j) - p /\ Len(ask.wire) \in Nat
  <2>1. j \in 0 .. n /\ p \in 0 .. 4 /\ Len(ask.wire) = 5 * (n - j) - p
    BY <1>15 DEF Progress
  <2> QED BY <1>5, <2>1, LenProperties
<1>16. s[j] = r[j]
  BY <1>7, <1>10
<1> HIDE DEF s
<1>17. PICK t : t = s
  OBVIOUS
<1>11. t[j] = r[j] /\ Carries(t, ask'.sent)
  BY <1>9, <1>16, <1>17
<1>12. \A i \in 1 .. p : ask'.server.cmd[i] = Bytes(ask'.sent[j + 1])[i]
  <2> TAKE i \in 1 .. p
  <2>1. j + 1 \in 1 .. n
    <3>1. 5 * (n - j) - p >= 0 /\ p >= 1
      BY <1>10
    <3> QED BY <1>7, <1>10, <3>1
  <2> QED BY <1>6, <1>7, <2>1 DEF Progress
<1>13. ASSUME NEW k \in j + 1 .. n + 1, NEW i \in 1 .. 5, 5 * (k - j - 1) + i - p >= 1
       PROVE  ask'.wire[5 * (k - j - 1) + i - p] = Bytes(ask'.sent[k])[i]
  <2>1. CASE k = n + 1
    <3>1. 5 * (k - j - 1) + i - p = Len(ask.wire) + i
      BY <1>7, <1>10, <2>1
    <3>2. Bytes(ask'.sent[k]) = b
      BY <1>7, <2>1 DEF b
    <3> QED BY <1>7, <3>1, <3>2
  <2>2. CASE k # n + 1
    <3>1. k \in j + 1 .. n /\ 5 * (k - j - 1) + i - p \in 1 .. Len(ask.wire) /\ k \in 1 .. n
      <4> DEFINE l == Len(ask.wire)
      <4> HIDE DEF l
      <4>1. l = 5 * (n - j) - p
        BY <1>10 DEF l
      <4>2. k \in j + 1 .. n /\ k \in 1 .. n
        BY <1>7, <1>10, <2>2
      <4>3. 5 * (k - j - 1) + i - p \in 1 .. l
        BY <1>7, <1>10, <1>13, <4>1, <4>2
      <4> QED BY <4>2, <4>3 DEF l
    <3>2. ask.wire[5 * (k - j - 1) + i - p] = Bytes(ask.sent[k])[i]
      BY <1>13, <1>15, <3>1 DEF Progress
    <3> QED BY <1>7, <3>1, <3>2
  <2> QED BY <2>1, <2>2
<1>14. Progress(t, j, p)'
  <2>1. j \in 0 .. n + 1 /\ Len(ask'.wire) = 5 * ((n + 1) - j) - p
    <3> DEFINE l == Len(ask.wire)
               m == Len(ask'.wire)
    <3>1. j \in 0 .. n /\ p \in 0 .. 4 /\ l = 5 * (n - j) - p /\ m = l + 5 /\ n \in Nat
      BY <1>7, <1>10
    <3> HIDE DEF l, m
    <3>2. 5 * ((n + 1) - j) = 5 * (n - j) + 5 /\ j \in 0 .. n + 1
      BY <3>1
    <3>3. m = 5 * ((n + 1) - j) - p
      BY <3>1, <3>2
    <3> QED BY <3>2, <3>3 DEF m
  <2>2. ask'.server.left = 5 - p /\ ask'.server.calls = t[j]
    BY <1>6, <1>11 DEF Progress
  <2>3. Len(ask'.sent) = n + 1
    BY <1>7
  <2>4. \A k \in j + 1 .. Len(ask'.sent), i \in 1 .. 5 :
          5 * (k - j - 1) + i - p >= 1 =>
            ask'.wire[5 * (k - j - 1) + i - p] = Bytes(ask'.sent[k])[i]
    BY <1>13, <2>3
  <2>5. j \in 0 .. Len(ask'.sent) /\ Len(ask'.wire) = 5 * (Len(ask'.sent) - j) - p
    <3> DEFINE m == Len(ask'.sent)
    <3> HIDE DEF m
    <3>1. m = n + 1
      BY <2>3 DEF m
    <3>2. j \in 0 .. m
      BY <2>1, <3>1
    <3>3. m - j = (n + 1) - j
      BY <3>1, Zenon
    <3>4. Len(ask'.wire) = 5 * (m - j) - p
      BY <2>1, <3>3, Zenon
    <3> QED BY <3>2, <3>4 DEF m
  <2> QED BY <1>10, <1>11, <1>12, <2>2, <2>4, <2>5 DEF Progress
<1> QED BY <1>8, <1>14

LEMMA PieceReceivedKeeps ==
  ASSUME CommandAsked, NEW r, NEW j, NEW p, Progress(r, j, p), NextPiece
  PROVE  CommandAsked' /\ \E i, q : Progress(r, i, q)'
<1> DEFINE n == Len(ask.sent)  w == ask.wire  s == ask.server
<1>1. PICK count \in 1 .. s.left :
        /\ count <= Len(w)
        /\ ask' = [ask EXCEPT !.server = Recv("R82xx", s, w, count),
                              !.wire = SubSeq(w, count + 1, Len(w))]
  BY DEF NextPiece
<1>2. /\ ask.sent \in Seq(Commands) /\ w \in Seq(Int) /\ s.cmd \in [1 .. 5 -> Int]
      /\ s.left = 5 - p /\ p \in 0 .. 4 /\ j \in 0 .. n /\ n \in Nat
      /\ Len(w) = 5 * (n - j) - p /\ Len(w) \in Nat
  BY DEF CommandAsked, Progress
<1>3. ask'.sent = ask.sent /\ ask'.wire = SubSeq(w, count + 1, Len(w))
      /\ ask'.server = Recv("R82xx", s, w, count) /\ ask'.kind = "command"
  BY <1>1 DEF CommandAsked
<1> DEFINE v == SubSeq(w, count + 1, Len(w))
<1>4. /\ v \in Seq(Int) /\ Len(v) = Len(w) - count
      /\ \A i \in 1 .. Len(w) - count : v[i] = w[count + i]
  <2>1. count \in Nat /\ count <= Len(w)
    BY <1>1, <1>2
  <2> QED BY <1>2, <2>1, RestOf
<1> DEFINE cmd == [k \in 1 .. 5 |-> IF k - p \in 1 .. count THEN w[k - p] ELSE s.cmd[k]]
<1>5. Recv("R82xx", s, w, count) =
        IF count < s.left THEN [s EXCEPT !.cmd = cmd, !.left = s.left - count]
        ELSE [cmd |-> [cmd EXCEPT ![1] = 255], left |-> 5,
              calls |-> s.calls \o Dispatch("R82xx", cmd)]
  <2>1. \A k \in 1 .. 5 : k - (5 - s.left) = k - p
    BY <1>2
  <2>2. cmd = [k \in 1 .. 5 |-> IF k - (5 - s.left) \in 1 .. count
                               THEN w[k - (5 - s.left)] ELSE s.cmd[k]]
    BY <2>1
  <2> HIDE DEF cmd
  <2> QED BY <2>2 DEF Recv
<1>6. cmd \in [1 .. 5 -> Int]
  <2> SUFFICES ASSUME NEW k \in 1 .. 5, k - p \in 1 .. count PROVE w[k - p] \in Int
    BY <1>2
  <2>1. k - p \in 1 .. Len(w)
    BY <1>1, <1>2
  <2> QED BY <1>2, <2>1
<1>7. count \in Nat /\ 1 <= count /\ count <= 5 - p /\ count <= Len(w) /\ j + 1 \in 1 .. n
  <2>1. count \in Nat /\ 1 <= count /\ count <= 5 - p /\ count <= Len(w)
    BY <1>1, <1>2
  <2> HIDE DEF n
  <2>2. count <= 5 * (n - j) - p
    BY <1>2, <2>1
  <2>3. n - j >= 1
    BY <1>2, <2>1, <2>2
  <2> QED BY <1>2, <2>1, <2>3
<1>8. \A i \in 1 .. p + count : cmd[i] = Bytes(ask.sent[j + 1])[i]
  <2> TAKE i \in 1 .. p + count
  <2>1. CASE i <= p
    <3>1. i \in 1 .. p /\ i \in 1 .. 5 /\ ~ (i - p \in 1 .. count)
      <4>1. p \in 0 .. 4
        BY <1>2
      <4>2. count \in Nat
        BY <1>7
      <4> QED BY <4>1, <4>2, <2>1
    <3> QED BY <3>1 DEF Progress
  <2>2. CASE i > p
    <3>1. i \in 1 .. 5 /\ i - p \in 1 .. count /\ j + 1 \in j + 1 .. n
          /\ 5 * (j + 1 - j - 1) + i - p = i - p /\ i - p >= 1
      BY <1>2, <1>7, <2>2
    <3> DEFINE k == j + 1
    <3>2. 5 * (k - j - 1) + i - p >= 1 /\ k \in j + 1 .. Len(ask.sent)
      BY <1>2, <3>1
    <3>4. 5 * (k - j - 1) + i - p = i - p
      BY <1>2, <3>1
    <3>3. w[5 * (k - j - 1) + i - p] = Bytes(ask.sent[k])[i]
      <4> HIDE DEF k
      <4> QED BY <3>1, <3>2 DEF Progress
    <3>5. cmd[i] = w[i - p]
      BY <3>1
    <3> QED BY <3>3, <3>4, <3>5
  <2> QED BY <1>2, <1>7, <2>1, <2>2
<1> HIDE DEF cmd, v
<1>9. ASSUME NEW k \in j + 1 .. n, NEW i \in 1 .. 5, 5 * (k - j - 1) + i - (p + count) >= 1
      PROVE  v[5 * (k - j - 1) + i - (p + count)] = Bytes(ask.sent[k])[i]
  <2> DEFINE at == 5 * (k - j - 1) + i - (p + count)
  <2>1. at \in 1 .. Len(w) - count /\ count + at = 5 * (k - j - 1) + i - p /\ count + at >= 1
    BY <1>2, <1>7, <1>9
  <2>2. w[count + at] = Bytes(ask.sent[k])[i]
    BY <2>1 DEF Progress
  <2> HIDE DEF at
  <2>3. v[at] = w[count + at]
    BY <1>4, <2>1
  <2> QED BY <2>2, <2>3 DEF at
<1>10. ask'.wire = v
  BY <1>3 DEF v
<1>11. CASE count < s.left
  <2>1. ask'.server = [s EXCEPT !.cmd = cmd, !.left = s.left - count]
    BY <1>3, <1>5, <1>11
  <2>2. ask'.server.cmd = cmd /\ ask'.server.left = 5 - (p + count) /\ ask'.server.calls = s.calls
    <3>1. s \in [cmd : [1 .. 5 -> Int], left : 1 .. 5, calls : Seq(Calls)]
      BY DEF CommandAsked
    <3>2. s.left - count = 5 - (p + count)
      BY <1>2, <1>7
    <3> HIDE DEF s
    <3> QED BY <2>1, <3>1, <3>2
  <2>3. p + count \in 0 .. 4
    BY <1>2, <1>7, <1>11
  <2>4. CommandAsked'
    <3>1. ask'.server \in [cmd : [1 .. 5 -> Int], left : 1 .. 5, calls : Seq(Calls)]
      <4>1. 5 - (p + count) \in 1 .. 5
        BY <2>3
      <4>2. s.left - count = 5 - (p + count)
        BY <1>2, <1>7
      <4> QED BY <1>6, <2>1, <4>1, <4>2 DEF CommandAsked
    <3> QED BY <1>1, <1>3, <1>4, <1>10, <3>1 DEF CommandAsked
  <2>5. Progress(r, j, p + count)'
    <3>1. Len(ask'.wire) = 5 * (n - j) - (p + count)
      BY <1>2, <1>4, <1>7, <1>10
    <3>2. ask'.server.calls = r[j]
      BY <2>2 DEF Progress
    <3>3. \A i \in 1 .. p + count : ask'.server.cmd[i] = Bytes(ask'.sent[j + 1])[i]
      BY <1>3, <1>8, <2>2
    <3>4. Carries(r, ask'.sent)
      BY <1>3 DEF Progress
    <3>5. \A k \in j + 1 .. Len(ask'.sent), i \in 1 .. 5 :
            5 * (k - j - 1) + i - (p + count) >= 1 =>
              ask'.wire[5 * (k - j - 1) + i - (p + count)] = Bytes(ask'.sent[k])[i]
      BY <1>3, <1>9, <1>10
    <3> QED BY <1>2, <1>3, <2>2, <2>3, <3>1, <3>2, <3>3, <3>4, <3>5 DEF Progress
  <2> QED BY <2>4, <2>5
<1>12. CASE count = s.left
  <2>1. ask'.server = [cmd |-> [cmd EXCEPT ![1] = 255], left |-> 5,
                       calls |-> s.calls \o Dispatch("R82xx", cmd)]
    BY <1>2, <1>3, <1>5, <1>12
  <2>2. cmd = Bytes(ask.sent[j + 1]) /\ ask.sent[j + 1] \in Commands
    <3>1. ask.sent[j + 1] \in Commands
      BY <1>2, <1>7
    <3>2. Bytes(ask.sent[j + 1]) \in [1 .. 5 -> Int]
      BY <3>1, BytesAre
    <3>3. p + count = 5
      BY <1>2, <1>12
    <3> QED BY <1>6, <1>8, <3>1, <3>2, <3>3
  <2>3. Dispatch("R82xx", cmd) = MeantBy(ask.sent[j + 1])
    BY <2>2, Dispatched
  <2>4. s.calls \o Dispatch("R82xx", cmd) = r[j + 1] /\ r[j + 1] \in Seq(Calls)
    <3>1. j + 1 \in 1 .. n /\ (j + 1) - 1 = j /\ j + 1 \in 0 .. n
      BY <1>2, <1>7
    <3>2. r[j + 1] = r[j] \o MeantBy(ask.sent[j + 1]) /\ r[j + 1] \in Seq(Calls) /\ s.calls = r[j]
      BY <3>1 DEF Progress, Carries
    <3> QED BY <2>3, <3>2
  <2>5. CommandAsked'
    <3>1. [cmd EXCEPT ![1] = 255] \in [1 .. 5 -> Int]
      BY <1>6
    <3> DEFINE d == [cmd EXCEPT ![1] = 255]  e == s.calls \o Dispatch("R82xx", cmd)
    <3>3. d \in [1 .. 5 -> Int] /\ e \in Seq(Calls) /\ 5 \in 1 .. 5
          /\ ask'.server = [cmd |-> d, left |-> 5, calls |-> e]
      <4>1. e \in Seq(Calls)
        BY <2>4
      <4>2. ask'.server = [cmd |-> d, left |-> 5, calls |-> e]
        BY <2>1
      <4> QED BY <3>1, <4>1, <4>2
    <3> HIDE DEF d, e
    <3>2. ask'.server \in [cmd : [1 .. 5 -> Int], left : 1 .. 5, calls : Seq(Calls)]
      BY <3>3
    <3> QED BY <1>1, <1>3, <1>4, <1>10, <3>2 DEF CommandAsked
  <2>6. Progress(r, j + 1, 0)'
    <3>1. Len(ask'.wire) = 5 * (n - (j + 1)) - 0
      <4> DEFINE l == Len(w)
                 m == Len(ask'.wire)
      <4>1. l = 5 * (n - j) - p /\ p \in 0 .. 4 /\ n \in Nat /\ j \in 0 .. n
        BY <1>2
      <4>2. m = l - count /\ count = 5 - p
        BY <1>2, <1>4, <1>10, <1>12
      <4> HIDE DEF n, l, m
      <4>3. m = 5 * (n - j) - 5
        BY <4>1, <4>2
      <4>4. m = 5 * (n - (j + 1)) - 0
        BY <4>1, <4>3
      <4> QED BY <4>4 DEF m
    <3>2. ask'.server.calls = r[j + 1] /\ ask'.server.left = 5
      BY <2>1, <2>4
    <3>3. ASSUME NEW k \in j + 1 + 1 .. n, NEW i \in 1 .. 5
          PROVE  v[5 * (k - (j + 1) - 1) + i - 0] = Bytes(ask.sent[k])[i]
      <4>1. /\ k \in j + 1 .. n /\ 5 * (k - j - 1) + i - (p + count) >= 1
            /\ 5 * (k - (j + 1) - 1) + i - 0 = 5 * (k - j - 1) + i - (p + count)
        <5>1. n \in Nat /\ j \in Nat /\ p \in Nat /\ p + count = 5
          BY <1>2, <1>12
        <5> HIDE DEF n
        <5>2. k \in Int /\ k >= j + 1 + 1 /\ k <= n
          BY <5>1
        <5> QED BY <5>1, <5>2
      <4> QED BY <1>9, <4>1
    <3>4. Carries(r, ask'.sent)
      BY <1>3 DEF Progress
    <3>5. \A k \in j + 1 + 1 .. Len(ask'.sent), i \in 1 .. 5 :
            5 * (k - (j + 1) - 1) + i - 0 >= 1 =>
              ask'.wire[5 * (k - (j + 1) - 1) + i - 0] = Bytes(ask'.sent[k])[i]
      BY <1>3, <1>10, <3>3
    <3>6. j + 1 \in 0 .. Len(ask'.sent) /\ 0 \in 0 .. 4 /\ 5 - 0 = 5
      BY <1>3, <1>7
    <3>7. \A i \in 1 .. 0 : ask'.server.cmd[i] = Bytes(ask'.sent[j + 1 + 1])[i]
      OBVIOUS
    <3> QED BY <1>3, <3>1, <3>2, <3>4, <3>5, <3>6, <3>7 DEF Progress
  <2> QED BY <2>5, <2>6
<1> QED BY <1>2, <1>7, <1>11, <1>12

LEMMA CommandInductive == AskSpec => []CommandInv
<1>1. CommandInv /\ OneKind /\ [AskNext]_ask => CommandInv'
  <2> SUFFICES ASSUME CommandInv, OneKind, [AskNext]_ask, ask.kind = "command"
      PROVE  CommandAsked' /\ \E r, j, p : Progress(r, j, p)'
    BY KindKept DEF CommandInv
  <2>1. CommandAsked
    BY DEF CommandInv
  <2>2. PICK r, j, p : Progress(r, j, p)
    BY DEF CommandInv
  <2>3. CASE UNCHANGED ask
    <3>1. CommandAsked'
      BY <2>1, <2>3 DEF CommandAsked
    <3>2. Progress(r, j, p)'
      BY <2>2, <2>3 DEF Progress
    <3> QED BY <3>1, <3>2
  <2>4. CASE NextCommand
    BY <2>1, <2>2, <2>4, CommandSentKeeps
  <2>5. CASE NextPiece
    BY <2>1, <2>2, <2>5, PieceReceivedKeeps
  <2> QED BY <2>3, <2>4, <2>5, OwnSteps
<1> QED BY <1>1, CommandAtFirst, KindAlways, PTL DEF AskSpec

(* However many commands a client sends, with whatever arguments and however *)
(* cut on their way, the server carries out what the setters meant.          *)
THEOREM CommandsAlwaysUnderstood == AskSpec => []CommandsUnderstood
<1>1. CommandInv => CommandsUnderstood
  <2> SUFFICES ASSUME CommandInv, ask.kind = "command" PROVE CommandsUnderstood
    BY DEF CommandsUnderstood
  <2>1. ask.sent \in Seq(Commands) /\ ask.wire \in Seq(Int) /\ ask.server.left \in 1 .. 5
    BY DEF CommandInv, CommandAsked
  <2>2. PICK r, j, p : Progress(r, j, p)
    BY DEF CommandInv
  <2> DEFINE n == Len(ask.sent)
  <2>3. /\ Carries(r, ask.sent) /\ j \in 0 .. n /\ p \in 0 .. 4 /\ n \in Nat
        /\ ask.server.left = 5 - p /\ ask.server.calls = r[j]
        /\ Len(ask.wire) = 5 * (n - j) - p
    BY <2>1, <2>2 DEF Progress
  <2>4. AllMeant(ask.sent) = r[n]
    BY <2>1, <2>3, AllMeantCarried
  <2>5. IsPrefix(ask.server.calls, AllMeant(ask.sent))
    BY <2>1, <2>3, <2>4, CarriedPrefix
  <2>6. ASSUME ask.wire = <<>> PROVE ask.server.left = 5 /\ ask.server.calls = r[n]
    <3>1. 5 * (n - j) - p = 0
      BY <2>3, <2>6
    <3> HIDE DEF n
    <3>2. p = 0 /\ j = n
      BY <2>3, <3>1
    <3> QED BY <2>3, <3>2
  <2>7. \A k \in DOMAIN ask.sent : SameOverUsb(ask.sent[k][1], ask.sent[k][2])
    <3>1. \A k \in DOMAIN ask.sent : ask.sent[k] \in Commands
      BY <2>1
    <3> QED BY <3>1, SameOverUsbToo
  <2> QED BY <2>4, <2>5, <2>6, <2>7 DEF CommandsUnderstood, AllMeant
<1> QED BY <1>1, CommandInductive, PTL

------------------------------------------------------------------------------
(* What a fold computes, place by place.                                     *)
Steps(it, n, A, z, G) ==
  /\ n \in Nat /\ z \in A /\ G \in [A \X (1 .. n) -> A]
  /\ it[{}] = z
  /\ \A s \in SUBSET (1 .. n) :
       s # {} /\ it[s \ {Max(s)}] \in A => it[s] = G[it[s \ {Max(s)}], Max(s)]

StepsTo(it, n, A, z, G) ==
  /\ \A k \in 0 .. n : it[1 .. k] \in A
  /\ it[1 .. 0] = z
  /\ \A k \in Nat : k + 1 <= n => it[1 .. k + 1] = G[it[1 .. k], k + 1]

LEMMA StepByStep ==
  ASSUME NEW n, NEW A, NEW z, NEW G, NEW it, Steps(it, n, A, z, G)
  PROVE  StepsTo(it, n, A, z, G)
<1>0. n \in Nat /\ z \in A /\ G \in [A \X (1 .. n) -> A]
  BY DEF Steps
<1> DEFINE S == {k \in Nat : k <= n => it[1 .. k] \in A}
<1>1. it[1 .. 0] = z
  <2>1. 1 .. 0 = {}
    OBVIOUS
  <2> QED BY <2>1 DEF Steps
<1>2. 0 \in S
  BY <1>0, <1>1
<1>3. ASSUME NEW k \in Nat, k + 1 <= n, it[1 .. k] \in A
      PROVE  it[1 .. k + 1] = G[it[1 .. k], k + 1] /\ it[1 .. k + 1] \in A
  <2>1. /\ 1 .. k + 1 \in SUBSET (1 .. n) /\ 1 .. k + 1 # {} /\ k + 1 \in 1 .. n
        /\ Max(1 .. k + 1) = k + 1 /\ (1 .. k + 1) \ {k + 1} = 1 .. k
    BY <1>0, <1>3, MaxOfSegment
  <2>2. it[1 .. k + 1] = G[it[1 .. k], k + 1]
    BY <1>3, <2>1 DEF Steps
  <2> QED BY <1>0, <1>3, <2>1, <2>2
<1>4. ASSUME NEW k \in Nat, k \in S PROVE k + 1 \in S
  <2>1. SUFFICES ASSUME k + 1 <= n PROVE it[1 .. k + 1] \in A
    OBVIOUS
  <2>2. it[1 .. k] \in A
    BY <1>0, <1>4, <2>1
  <2> QED BY <1>3, <2>1, <2>2
<1>5. Nat \subseteq S
  <2> HIDE DEF S
  <2> QED BY <1>2, <1>4, Induction
<1>6. \A k \in 0 .. n : it[1 .. k] \in A
  BY <1>5
<1>7. ASSUME NEW k \in Nat, k + 1 <= n PROVE it[1 .. k + 1] = G[it[1 .. k], k + 1]
  <2>1. k \in 0 .. n
    BY <1>0, <1>7
  <2> QED BY <1>3, <1>6, <1>7, <2>1
<1> QED BY <1>1, <1>6, <1>7 DEF StepsTo

(* The first of a table that is nearest.                                     *)
LEMMA ClosestFound ==
  ASSUME NEW n \in Nat, n # 0, NEW table \in [1 .. n -> Int], NEW x \in Int
  PROVE  /\ ClosestIdx(table, x) \in 0 .. n - 1
         /\ \A k \in 1 .. n :
              Delta(x, table[ClosestIdx(table, x) + 1]) <= Delta(x, table[k])
<1> DEFINE D(k) == Delta(x, table[k])
           G == [p \in (1 .. n) \X (1 .. n) |-> IF D(p[2]) < D(p[1]) THEN p[2] ELSE p[1]]
           places == [k \in 1 .. n |-> k]
           Reads(it) == it = [s \in SUBSET (1 .. n) |->
                               IF s = {} THEN 1
                               ELSE IF Delta(x, table[places[Max(s)]])
                                         < Delta(x, table[it[s \ {Max(s)}]])
                                    THEN places[Max(s)] ELSE it[s \ {Max(s)}]]
<1>1. DOMAIN table = 1 .. n /\ DOMAIN places = 1 .. n /\ 1 \in 1 .. n
  OBVIOUS
<1>2. \A k \in 1 .. n : D(k) \in Nat
  BY DEF Delta
<1>3. G \in [(1 .. n) \X (1 .. n) -> 1 .. n]
  OBVIOUS
<1>4. PICK f : Runs(f, n, 1 .. n, 1, G)
  <2> HIDE DEF G
  <2> QED BY <1>1, <1>3, FoldRun
<1>5. Reads(f)
  <2>1. f = [s \in SUBSET (1 .. n) |-> f[s]]
    BY <1>4 DEF Runs
  <2>2. ASSUME NEW s \in SUBSET (1 .. n)
        PROVE  f[s] = IF s = {} THEN 1
                      ELSE IF Delta(x, table[places[Max(s)]]) < Delta(x, table[f[s \ {Max(s)}]])
                           THEN places[Max(s)] ELSE f[s \ {Max(s)}]
    <3>1. CASE s = {}
      BY <1>4, <3>1 DEF Runs
    <3>2. CASE s # {}
      <4>1. f[s \ {Max(s)}] \in 1 .. n /\ Max(s) \in 1 .. n
        BY <1>4, <3>2, MaxOf DEF Runs
      <4>2. f[s] = G[f[s \ {Max(s)}], Max(s)]
        BY <1>4, <3>2 DEF Runs
      <4> QED BY <3>2, <4>1, <4>2
    <3> QED BY <3>1, <3>2
  <2> QED BY <2>1, <2>2
<1> DEFINE it == CHOOSE it : Reads(it)
<1>6. ClosestIdx(table, x) = it[1 .. n] - 1
  BY <1>1 DEF ClosestIdx, FoldLeft, MapThenFoldSet
<1>7. Reads(it)
  <2> HIDE DEF Reads
  <2> QED BY <1>5
<1> HIDE DEF it
<1>8. Steps(it, n, 1 .. n, 1, G)
  <2>1. ASSUME NEW s \in SUBSET (1 .. n), s # {}, it[s \ {Max(s)}] \in 1 .. n
        PROVE  it[s] = G[it[s \ {Max(s)}], Max(s)]
    <3>1. Max(s) \in 1 .. n
      BY <2>1, MaxOf
    <3>2. it[s] = IF D(Max(s)) < D(it[s \ {Max(s)}]) THEN Max(s) ELSE it[s \ {Max(s)}]
      BY <1>7, <2>1, <3>1
    <3> QED BY <2>1, <3>1, <3>2
  <2>2. it[{}] = 1
    BY <1>7
  <2> HIDE DEF G
  <2> QED BY <1>1, <1>3, <2>1, <2>2 DEF Steps
<1>9. /\ \A k \in 0 .. n : it[1 .. k] \in 1 .. n
      /\ it[1 .. 0] = 1
      /\ \A k \in Nat : k + 1 <= n => it[1 .. k + 1] = G[it[1 .. k], k + 1]
  <2> HIDE DEF G
  <2> DEFINE A == 1 .. n
  <2>1. Steps(it, n, A, 1, G)
    BY <1>8
  <2> HIDE DEF A
  <2>2. StepsTo(it, n, A, 1, G)
    BY <2>1, StepByStep
  <2> QED BY <2>2 DEF StepsTo, A
<1> DEFINE S == {k \in Nat : k <= n => \A i \in 1 .. k : D(it[1 .. k]) <= D(i)}
<1>10. 0 \in S
  OBVIOUS
<1>11. ASSUME NEW k \in Nat, k \in S PROVE k + 1 \in S
  <2>1. SUFFICES ASSUME k + 1 <= n, NEW i \in 1 .. k + 1
        PROVE  D(it[1 .. k + 1]) <= D(i)
    OBVIOUS
  <2> DEFINE a == it[1 .. k]
             b == it[1 .. k + 1]
  <2>2. a \in 1 .. n /\ b = IF D(k + 1) < D(a) THEN k + 1 ELSE a
    <3>1. k \in 0 .. n /\ k + 1 \in 1 .. n
      BY <2>1
    <3>2. a \in 1 .. n
      BY <1>9, <3>1
    <3>3. b = G[a, k + 1]
      BY <1>9, <2>1
    <3> HIDE DEF a, b, D
    <3> QED BY <3>1, <3>2, <3>3
  <2>3. i \in 1 .. k => D(a) <= D(i)
    BY <1>11, <2>1
  <2>4. D(a) \in Nat /\ D(k + 1) \in Nat /\ D(i) \in Nat
    <3>1. k + 1 \in 1 .. n /\ i \in 1 .. n
      BY <1>1, <2>1
    <3> HIDE DEF D, a, b
    <3> QED BY <1>2, <2>2, <3>1
  <2> HIDE DEF D, a, b
  <2>5. i \in 1 .. k \/ i = k + 1
    OBVIOUS
  <2>6. D(b) <= D(i)
    BY <2>2, <2>3, <2>4, <2>5
  <2> QED BY <2>6 DEF b
<1>12. n \in S
  <2> HIDE DEF S
  <2> QED BY <1>10, <1>11, Induction
<1>13. it[1 .. n] \in 1 .. n
  <2>1. n \in 0 .. n
    OBVIOUS
  <2> QED BY <1>9, <2>1
<1> DEFINE best == it[1 .. n]
<1>14. \A k \in 1 .. n : D(best) <= D(k)
  BY <1>12
<1> HIDE DEF S, D
<1>15. ClosestIdx(table, x) + 1 = best
  BY <1>6, <1>13
<1> HIDE DEF best
<1> QED BY <1>14, <1>15, <1>13, <1>6 DEF D, best

------------------------------------------------------------------------------
(* The gains.                                                                *)
LEMMA AdvertisedIs ==
  ASSUME NEW t \in GainTuners
  PROVE  /\ Len(Advertised(t)) \in 1 .. 30
         /\ Advertised(t) \in [1 .. Len(Advertised(t)) -> Int]
<1>1. CASE t = "E4000"
  BY <1>1, SMT DEF Advertised
<1>2. CASE t = "FC0012"
  BY <1>2, SMT DEF Advertised
<1>3. CASE t = "FC0013"
  BY <1>3, SMT DEF Advertised
<1>4. CASE t = "FC2580"
  BY <1>4, SMT DEF Advertised
<1>5. CASE t = "R82xx"
  BY <1>5, SMT DEF Advertised
<1> QED BY <1>1, <1>2, <1>3, <1>4, <1>5 DEF GainTuners

(* Whatever is asked for, nearest_gain answers with an advertised gain, and  *)
(* none is nearer.                                                           *)
LEMMA GainNearest ==
  ASSUME NEW t \in GainTuners, NEW x \in Int
  PROVE  NearestIn(Advertised(t), NearestGain(t, x), x)
<1> DEFINE table == Advertised(t)
           n == Len(table)
<1>1. n \in Nat /\ n # 0 /\ table \in [1 .. n -> Int] /\ DOMAIN table = 1 .. n
  <2>1. n \in 1 .. 30 /\ table \in [1 .. n -> Int]
    BY AdvertisedIs
  <2> HIDE DEF table, n
  <2> QED BY <2>1
<1> DEFINE A == {table[k] : k \in 1 .. n}
           D(g) == Abs(x - g)
           G == [p \in A \X (1 .. n) |-> IF D(table[p[2]]) < D(p[1]) THEN table[p[2]] ELSE p[1]]
           Reads(it) == it = [s \in SUBSET (1 .. n) |->
                               IF s = {} THEN Head(table)
                               ELSE IF Abs(x - table[Max(s)]) < Abs(x - it[s \ {Max(s)}])
                                    THEN table[Max(s)] ELSE it[s \ {Max(s)}]]
<1>2. NearestGain(t, x) = (CHOOSE it : Reads(it))[1 .. n]
  BY <1>1 DEF NearestGain, FoldLeft, MapThenFoldSet
<1> HIDE DEF table
<1>3. Head(table) = table[1] /\ Head(table) \in A
  <2>1. Head(table) = table[1]
    BY AdvertisedIs DEF table, Head
  <2> QED BY <1>1, <2>1
<1>4. /\ \A g \in A : g \in Int /\ D(g) \in Nat
      /\ \A k \in 1 .. n : table[k] \in A
  BY <1>1 DEF Abs
<1> HIDE DEF A
<1>5. G \in [A \X (1 .. n) -> A]
  BY <1>4
<1>6. PICK f : Runs(f, n, A, Head(table), G)
  <2> HIDE DEF G, n
  <2> QED BY <1>1, <1>3, <1>5, FoldRun
<1>7. Reads(f)
  <2>1. f = [s \in SUBSET (1 .. n) |-> f[s]]
    BY <1>6 DEF Runs
  <2>2. ASSUME NEW s \in SUBSET (1 .. n)
        PROVE  f[s] = IF s = {} THEN Head(table)
                      ELSE IF Abs(x - table[Max(s)]) < Abs(x - f[s \ {Max(s)}])
                           THEN table[Max(s)] ELSE f[s \ {Max(s)}]
    <3>1. CASE s = {}
      BY <1>6, <3>1 DEF Runs
    <3>2. CASE s # {}
      <4>1. f[s \ {Max(s)}] \in A /\ Max(s) \in 1 .. n
        BY <1>1, <1>6, <3>2, MaxOf DEF Runs
      <4>2. f[s] = G[f[s \ {Max(s)}], Max(s)]
        BY <1>6, <3>2 DEF Runs
      <4> QED BY <3>2, <4>1, <4>2
    <3> QED BY <3>1, <3>2
  <2> QED BY <2>1, <2>2
<1> DEFINE it == CHOOSE it : Reads(it)
<1>8. Reads(it)
  <2> HIDE DEF Reads
  <2> QED BY <1>7
<1>9. NearestGain(t, x) = it[1 .. n]
  BY <1>2
<1> HIDE DEF it
<1>10. Steps(it, n, A, Head(table), G)
  <2>1. ASSUME NEW s \in SUBSET (1 .. n), s # {}, it[s \ {Max(s)}] \in A
        PROVE  it[s] = G[it[s \ {Max(s)}], Max(s)]
    <3>1. Max(s) \in 1 .. n
      BY <1>1, <2>1, MaxOf
    <3>2. it[s] = IF D(table[Max(s)]) < D(it[s \ {Max(s)}])
                  THEN table[Max(s)] ELSE it[s \ {Max(s)}]
      BY <1>8, <2>1
    <3> QED BY <2>1, <3>1, <3>2
  <2>2. it[{}] = Head(table)
    BY <1>8
  <2> HIDE DEF G
  <2> QED BY <1>1, <1>3, <1>5, <2>1, <2>2 DEF Steps
<1>11. StepsTo(it, n, A, Head(table), G)
  <2> HIDE DEF G, n
  <2> QED BY <1>10, StepByStep
<1> DEFINE S == {k \in Nat : k <= n => \A i \in 1 .. k : D(it[1 .. k]) <= D(table[i])}
<1>12. 0 \in S
  OBVIOUS
<1>13. ASSUME NEW k \in Nat, k \in S PROVE k + 1 \in S
  <2>1. SUFFICES ASSUME k + 1 <= n, NEW i \in 1 .. k + 1
        PROVE  D(it[1 .. k + 1]) <= D(table[i])
    OBVIOUS
  <2> DEFINE a == it[1 .. k]
             b == it[1 .. k + 1]
             c == table[k + 1]
             d == table[i]
  <2>2. a \in A /\ b = IF D(c) < D(a) THEN c ELSE a
    <3>1. k \in 0 .. n /\ k + 1 \in 1 .. n
      BY <1>1, <2>1
    <3>2. a \in A
      BY <1>11, <3>1 DEF StepsTo
    <3>3. b = G[a, k + 1]
      BY <1>11, <2>1 DEF StepsTo
    <3> HIDE DEF a, b, D
    <3> QED BY <3>1, <3>2, <3>3
  <2>3. i \in 1 .. k => D(a) <= D(d)
    BY <1>1, <1>13, <2>1
  <2>4. c \in A /\ d \in A
    BY <1>1, <1>4, <2>1
  <2>5. D(a) \in Nat /\ D(c) \in Nat /\ D(d) \in Nat
    BY <1>4, <2>2, <2>4
  <2>6. i \notin 1 .. k => c = d
    <3>1. i \notin 1 .. k => i = k + 1
      OBVIOUS
    <3> QED BY <3>1
  <2> HIDE DEF D, a, b, c, d
  <2>7. D(b) <= D(d)
    BY <2>2, <2>3, <2>5, <2>6
  <2> QED BY <2>7 DEF b, d
<1>14. n \in S
  <2> HIDE DEF S, n
  <2> QED BY <1>1, <1>12, <1>13, Induction
<1>15. it[1 .. n] \in A
  <2>1. n \in 0 .. n
    BY <1>1
  <2> QED BY <1>11, <2>1 DEF StepsTo
<1> DEFINE got == it[1 .. n]
<1>16. \A k \in 1 .. n : D(got) <= D(table[k])
  BY <1>1, <1>14
<1>17. \E k \in 1 .. n : table[k] = got
  BY <1>15 DEF A
<1> HIDE DEF got, S
<1>18. NearestIn(table, got, x)
  BY <1>1, <1>16, <1>17 DEF NearestIn, InTable
<1> QED BY <1>9, <1>18 DEF got, table

(* Each driver sets an advertised gain to itself.  The R82xx stops at the    *)
(* first sum of its steps that is enough.                                    *)
R82Sums == <<0, 9, 14, 27, 37, 77, 87, 125, 144, 157, 166, 197, 207, 229, 254, 280, 297,
             328, 338, 364, 372, 386, 402, 421, 434, 439, 445, 480, 483, 496, 488>>

LEMMA SumsOfSteps ==
  /\ R82Sums \in [1 .. 31 -> Int]
  /\ R82Steps \in [1 .. 30 -> Int]
  /\ \A k \in 1 .. 30 : R82Sums[k + 1] = R82Sums[k] + R82Steps[k]
<1>1. R82Sums \in [1 .. 31 -> Int]
  BY SMT DEF R82Sums
<1>2. LnaSteps \in [1 .. 15 -> Int] /\ MixerSteps \in [1 .. 15 -> Int]
  BY SMT DEF LnaSteps, MixerSteps
<1>3. \A k \in 1 .. 30 : R82Steps[k] = IF k % 2 = 1 THEN LnaSteps[(k + 1) \div 2]
                                       ELSE MixerSteps[k \div 2]
  BY DEF R82Steps
<1>4. ASSUME NEW j \in 1 .. 15
      PROVE  /\ R82Sums[2 * j] = R82Sums[2 * j - 1] + LnaSteps[j]
             /\ R82Sums[2 * j + 1] = R82Sums[2 * j] + MixerSteps[j]
  BY SMT DEF R82Sums, LnaSteps, MixerSteps
<1>5. ASSUME NEW k \in 1 .. 30
      PROVE  R82Steps[k] \in Int /\ R82Sums[k + 1] = R82Sums[k] + R82Steps[k]
  <2>1. PICK j \in 1 .. 15 : k = 2 * j - 1 \/ k = 2 * j
    <3>1. (k + 1) \div 2 \in 1 .. 15 /\ (k = 2 * ((k + 1) \div 2) - 1 \/ k = 2 * ((k + 1) \div 2))
      OBVIOUS
    <3> QED BY <3>1
  <2>2. CASE k = 2 * j - 1
    <3>1. k % 2 = 1 /\ (k + 1) \div 2 = j /\ k + 1 = 2 * j
      BY <2>2
    <3> QED BY <1>2, <1>3, <1>4, <2>2, <3>1
  <2>3. CASE k = 2 * j
    <3>1. ~ (k % 2 = 1) /\ k \div 2 = j
      BY <2>3
    <3> QED BY <1>2, <1>3, <1>4, <2>3, <3>1
  <2> QED BY <2>1, <2>2, <2>3
<1>6. R82Steps \in [1 .. 30 -> Int]
  <2>1. R82Steps = [k \in 1 .. 30 |-> R82Steps[k]]
    BY DEF R82Steps
  <2> QED BY <1>5, <2>1
<1> QED BY <1>1, <1>5, <1>6

LEMMA SumReached ==
  ASSUME NEW g, NEW k \in DOMAIN Advertised("R82xx"), g = Advertised("R82xx")[k]
  PROVE  \E j \in 0 .. 30 : /\ R82Sums[j + 1] = g
                            /\ \A i \in 0 .. j - 1 : R82Sums[i + 1] < g
<1>1. k \in 1 .. 29
  BY SMT DEF Advertised
<1>2. \A i \in 0 .. 29 : \A j \in 0 .. 29 : i < j => R82Sums[i + 1] < R82Sums[j + 1]
  BY SMT DEF R82Sums
<1>3. CASE k # 29
  <2>1. R82Sums[(k - 1) + 1] = g
    BY <1>1, <1>3, SMT DEF R82Sums, Advertised
  <2>2. k - 1 \in 0 .. 30 /\ \A i \in 0 .. (k - 1) - 1 : R82Sums[i + 1] < R82Sums[(k - 1) + 1]
    BY <1>1, <1>2
  <2> QED BY <2>1, <2>2
<1>4. CASE k = 29
  <2>1. R82Sums[29 + 1] = g
    BY <1>4, SMT DEF R82Sums, Advertised
  <2>2. 29 \in 0 .. 30 /\ \A i \in 0 .. 29 - 1 : R82Sums[i + 1] < R82Sums[29 + 1]
    BY <1>2
  <2> QED BY <2>1, <2>2, SMT
<1> QED BY <1>3, <1>4

LEMMA R82SetsAdvertised ==
  ASSUME NEW k \in DOMAIN Advertised("R82xx")
  PROVE  R82Gain(Advertised("R82xx")[k]) = Advertised("R82xx")[k]
<1> DEFINE g == Advertised("R82xx")[k]
           n == 30
           G == [p \in Int \X (1 .. n) |-> IF p[1] >= g THEN p[1] ELSE p[1] + R82Steps[p[2]]]
           Reads(it) == it = [s \in SUBSET (1 .. n) |->
                               IF s = {} THEN 0
                               ELSE IF it[s \ {Max(s)}] >= g THEN it[s \ {Max(s)}]
                                    ELSE it[s \ {Max(s)}] + R82Steps[Max(s)]]
<1>1. DOMAIN R82Steps = 1 .. n
  BY DEF R82Steps
<1>2. R82Gain(g) = (CHOOSE it : Reads(it))[1 .. n]
  BY <1>1 DEF R82Gain, FoldLeft, MapThenFoldSet
<1>3. PICK j \in 0 .. 30 : R82Sums[j + 1] = g /\ \A i \in 0 .. j - 1 : R82Sums[i + 1] < g
  BY SumReached
<1>4. g \in Int
  BY <1>3, SumsOfSteps
<1> HIDE DEF g
<1>5. G \in [Int \X (1 .. n) -> Int]
  BY SumsOfSteps
<1>6. PICK f : Runs(f, n, Int, 0, G)
  <2>1. n \in Nat /\ 0 \in Int
    OBVIOUS
  <2> HIDE DEF G, n
  <2> QED BY <1>5, <2>1, FoldRun
<1>7. Reads(f)
  <2>1. f = [s \in SUBSET (1 .. n) |-> f[s]]
    BY <1>6 DEF Runs
  <2>2. ASSUME NEW s \in SUBSET (1 .. n)
        PROVE  f[s] = IF s = {} THEN 0
                      ELSE IF f[s \ {Max(s)}] >= g THEN f[s \ {Max(s)}]
                           ELSE f[s \ {Max(s)}] + R82Steps[Max(s)]
    <3>1. CASE s = {}
      BY <1>6, <3>1 DEF Runs
    <3>2. CASE s # {}
      <4>1. f[s \ {Max(s)}] \in Int /\ Max(s) \in 1 .. n
        BY <1>6, <3>2, MaxOf DEF Runs
      <4>2. f[s] = G[f[s \ {Max(s)}], Max(s)]
        BY <1>6, <3>2 DEF Runs
      <4> QED BY <3>2, <4>1, <4>2
    <3> QED BY <3>1, <3>2
  <2> QED BY <2>1, <2>2
<1> DEFINE it == CHOOSE it : Reads(it)
<1>8. Reads(it)
  <2> HIDE DEF Reads
  <2> QED BY <1>7
<1>9. R82Gain(g) = it[1 .. n]
  BY <1>2
<1> HIDE DEF it
<1>10. Steps(it, n, Int, 0, G)
  <2>1. ASSUME NEW s \in SUBSET (1 .. n), s # {}, it[s \ {Max(s)}] \in Int
        PROVE  it[s] = G[it[s \ {Max(s)}], Max(s)]
    <3>1. Max(s) \in 1 .. n
      BY <2>1, MaxOf
    <3>2. it[s] = IF it[s \ {Max(s)}] >= g THEN it[s \ {Max(s)}]
                  ELSE it[s \ {Max(s)}] + R82Steps[Max(s)]
      BY <1>8, <2>1
    <3> QED BY <2>1, <3>1, <3>2
  <2>2. it[{}] = 0
    BY <1>8
  <2>3. n \in Nat /\ 0 \in Int
    OBVIOUS
  <2> HIDE DEF G, n
  <2> QED BY <1>5, <2>1, <2>2, <2>3 DEF Steps
<1>11. StepsTo(it, n, Int, 0, G)
  <2> HIDE DEF G, n
  <2> QED BY <1>10, StepByStep
<1> DEFINE Least(a) == IF a <= j THEN a ELSE j
           S == {a \in Nat : a <= 30 => it[1 .. a] = R82Sums[Least(a) + 1]}
<1>12. 0 \in S
  <2>1. R82Sums[1] = 0
    BY SMT DEF R82Sums
  <2>2. it[1 .. 0] = 0
    BY <1>11 DEF StepsTo
  <2>3. Least(0) + 1 = 1
    OBVIOUS
  <2> HIDE DEF Least
  <2> QED BY <2>1, <2>2, <2>3
<1>13. ASSUME NEW a \in Nat, a \in S PROVE a + 1 \in S
  <2>1. SUFFICES ASSUME a + 1 <= 30 PROVE it[1 .. a + 1] = R82Sums[Least(a + 1) + 1]
    OBVIOUS
  <2> DEFINE r == it[1 .. a]
  <2>2. r = R82Sums[Least(a) + 1]
    BY <1>13, <2>1
  <2>3. it[1 .. a + 1] = IF r >= g THEN r ELSE r + R82Steps[a + 1]
    <3>1. a \in 0 .. n /\ a + 1 \in 1 .. n /\ a + 1 <= n
      BY <2>1
    <3>2. r \in Int
      BY <1>11, <3>1 DEF StepsTo
    <3>3. it[1 .. a + 1] = G[r, a + 1]
      BY <1>11, <3>1 DEF StepsTo
    <3> HIDE DEF r
    <3> QED BY <3>1, <3>2, <3>3
  <2>4. CASE a < j
    <3>1. Least(a) = a /\ Least(a + 1) = a + 1 /\ a \in 0 .. j - 1 /\ a + 1 \in 1 .. 30
      BY <2>4, <2>1
    <3>2. r < g
      BY <1>3, <2>2, <3>1
    <3>3. R82Sums[(a + 1) + 1] = R82Sums[a + 1] + R82Steps[a + 1]
      <4>1. a + 1 \in 1 .. 30
        BY <3>1
      <4> DEFINE c == a + 1
      <4>2. c \in 1 .. 30
        BY <4>1
      <4> HIDE DEF c
      <4>3. R82Sums[c + 1] = R82Sums[c] + R82Steps[c]
        BY <4>2, SumsOfSteps
      <4> QED BY <4>3 DEF c
    <3>4. r \in Int
      <4>1. r = R82Sums[a + 1] /\ a + 1 \in 1 .. 31
        BY <2>2, <3>1
      <4> HIDE DEF r
      <4>2. R82Sums \in [1 .. 31 -> Int]
        BY SumsOfSteps
      <4> QED BY <4>1, <4>2
    <3> HIDE DEF r, Least
    <3> QED BY <1>4, <2>2, <2>3, <3>1, <3>2, <3>3, <3>4
  <2>5. CASE ~ (a < j)
    <3>1. Least(a) = j /\ Least(a + 1) = j
      BY <2>5
    <3> HIDE DEF Least
    <3>2. r = g
      BY <1>3, <2>2, <3>1
    <3> HIDE DEF r
    <3> QED BY <1>3, <1>4, <2>3, <3>1, <3>2
  <2> QED BY <2>4, <2>5
<1>14. 30 \in S
  <2>1. 30 \in Nat
    OBVIOUS
  <2> HIDE DEF S
  <2> QED BY <2>1, <1>12, <1>13, Induction
<1>15. it[1 .. n] = R82Sums[j + 1]
  <2>1. Least(30) = j
    OBVIOUS
  <2> QED BY <1>14, <2>1
<1> QED BY <1>3, <1>9, <1>15 DEF g

(* The table of the FC0013 is in order, and the driver stops at the first    *)
(* that is enough.                                                           *)
LEMMA LnaReached ==
  ASSUME NEW k \in DOMAIN Advertised("FC0013")
  PROVE  \E j \in 1 .. 24 : /\ Fc0013Lna[j] = Advertised("FC0013")[k]
                            /\ \A i \in 1 .. j - 1 : Fc0013Lna[i] < Advertised("FC0013")[k]
<1> DEFINE g == Advertised("FC0013")[k]
<1>1. k \in 1 .. 23
  BY SMT DEF Advertised
<1>2. \A i \in 1 .. 24 : \A j \in 1 .. 24 : i < j /\ j # 5 => Fc0013Lna[i] < Fc0013Lna[j]
  BY SMT DEF Fc0013Lna
<1>3. CASE k < 5
  <2>1. Fc0013Lna[k] = g
    BY <1>1, <1>3, SMT DEF Fc0013Lna, Advertised
  <2> HIDE DEF g
  <2>2. \A i \in 1 .. k - 1 : Fc0013Lna[i] < g
    BY <1>1, <1>2, <1>3, <2>1
  <2> QED BY <1>1, <2>1, <2>2 DEF g
<1>4. CASE k >= 5
  <2>1. Fc0013Lna[k + 1] = g
    BY <1>1, <1>4, SMT DEF Fc0013Lna, Advertised
  <2> HIDE DEF g
  <2>2. \A i \in 1 .. (k + 1) - 1 : Fc0013Lna[i] < g
    BY <1>1, <1>2, <1>4, <2>1
  <2>3. k + 1 \in 1 .. 24
    BY <1>1
  <2> QED BY <2>1, <2>2, <2>3 DEF g
<1> QED BY <1>1, <1>3, <1>4

LEMMA Fc0013SetsAdvertised ==
  ASSUME NEW k \in DOMAIN Advertised("FC0013")
  PROVE  Fc0013Gain(Advertised("FC0013")[k]) = Advertised("FC0013")[k]
<1> DEFINE g == Advertised("FC0013")[k]
           n == 24
           z == Head(Fc0013Lna)
           G == [p \in Int \X (1 .. n) |-> IF p[1] >= g THEN p[1] ELSE Fc0013Lna[p[2]]]
           Reads(it) == it = [s \in SUBSET (1 .. n) |->
                               IF s = {} THEN z
                               ELSE IF it[s \ {Max(s)}] >= g THEN it[s \ {Max(s)}]
                                    ELSE Fc0013Lna[Max(s)]]
<1>1. DOMAIN Fc0013Lna = 1 .. n /\ Fc0013Lna \in [1 .. n -> Int]
  BY SMT DEF Fc0013Lna
<1>2. Fc0013Gain(g) = (CHOOSE it : Reads(it))[1 .. n]
  BY <1>1 DEF Fc0013Gain, FoldLeft, MapThenFoldSet
<1>3. PICK j \in 1 .. 24 : Fc0013Lna[j] = g /\ \A i \in 1 .. j - 1 : Fc0013Lna[i] < g
  BY LnaReached
<1>4. g \in Int
  BY <1>1, <1>3
<1>20. z = Fc0013Lna[1] /\ z \in Int
  BY SMT DEF Fc0013Lna
<1> HIDE DEF g, z
<1>5. G \in [Int \X (1 .. n) -> Int]
  BY <1>1
<1>6. PICK f : Runs(f, n, Int, z, G)
  <2>1. n \in Nat
    OBVIOUS
  <2> HIDE DEF G, n
  <2> QED BY <1>5, <1>20, <2>1, FoldRun
<1>7. Reads(f)
  <2>1. f = [s \in SUBSET (1 .. n) |-> f[s]]
    BY <1>6 DEF Runs
  <2>2. ASSUME NEW s \in SUBSET (1 .. n)
        PROVE  f[s] = IF s = {} THEN z
                      ELSE IF f[s \ {Max(s)}] >= g THEN f[s \ {Max(s)}]
                           ELSE Fc0013Lna[Max(s)]
    <3>1. CASE s = {}
      BY <1>6, <3>1 DEF Runs
    <3>2. CASE s # {}
      <4>1. f[s \ {Max(s)}] \in Int /\ Max(s) \in 1 .. n
        BY <1>6, <3>2, MaxOf DEF Runs
      <4>2. f[s] = G[f[s \ {Max(s)}], Max(s)]
        BY <1>6, <3>2 DEF Runs
      <4> QED BY <3>2, <4>1, <4>2
    <3> QED BY <3>1, <3>2
  <2> QED BY <2>1, <2>2
<1> DEFINE it == CHOOSE it : Reads(it)
<1>8. Reads(it)
  <2> HIDE DEF Reads
  <2> QED BY <1>7
<1>9. Fc0013Gain(g) = it[1 .. n]
  BY <1>2
<1> HIDE DEF it
<1>10. Steps(it, n, Int, z, G)
  <2>1. ASSUME NEW s \in SUBSET (1 .. n), s # {}, it[s \ {Max(s)}] \in Int
        PROVE  it[s] = G[it[s \ {Max(s)}], Max(s)]
    <3>1. Max(s) \in 1 .. n
      BY <2>1, MaxOf
    <3>2. it[s] = IF it[s \ {Max(s)}] >= g THEN it[s \ {Max(s)}] ELSE Fc0013Lna[Max(s)]
      BY <1>8, <2>1
    <3> QED BY <2>1, <3>1, <3>2
  <2>2. it[{}] = z
    BY <1>8
  <2> HIDE DEF G
  <2> QED BY <1>5, <1>20, <2>1, <2>2 DEF Steps
<1>11. StepsTo(it, n, Int, z, G)
  <2> HIDE DEF G, n
  <2> QED BY <1>10, StepByStep
<1> DEFINE At(a) == IF a < 1 THEN 1 ELSE IF a <= j THEN a ELSE j
           S == {a \in Nat : a <= 24 => it[1 .. a] = Fc0013Lna[At(a)]}
<1>12. 0 \in S
  <2>1. it[1 .. 0] = Fc0013Lna[1]
    BY <1>11, <1>20 DEF StepsTo
  <2>2. At(0) = 1
    OBVIOUS
  <2> HIDE DEF At
  <2> QED BY <2>1, <2>2
<1>13. ASSUME NEW a \in Nat, a \in S PROVE a + 1 \in S
  <2>1. SUFFICES ASSUME a + 1 <= 24 PROVE it[1 .. a + 1] = Fc0013Lna[At(a + 1)]
    OBVIOUS
  <2> DEFINE r == it[1 .. a]
  <2>2. r = Fc0013Lna[At(a)]
    BY <1>13, <2>1
  <2>3. it[1 .. a + 1] = IF r >= g THEN r ELSE Fc0013Lna[a + 1]
    <3>1. a \in 0 .. n /\ a + 1 \in 1 .. n /\ a + 1 <= n
      BY <2>1
    <3>2. r \in Int
      BY <1>11, <3>1 DEF StepsTo
    <3>3. it[1 .. a + 1] = G[r, a + 1]
      BY <1>11, <3>1 DEF StepsTo
    <3> HIDE DEF r
    <3> QED BY <3>1, <3>2, <3>3
  <2>4. At(a) \in 1 .. j /\ (At(a) # j => At(a + 1) = a + 1)
        /\ (At(a) = j => At(a + 1) = j)
    OBVIOUS
  <2>5. CASE At(a) # j
    <3>1. At(a) \in 1 .. j - 1 /\ At(a) \in 1 .. 24
      BY <2>4, <2>5
    <3> HIDE DEF At
    <3>2. r < g /\ r \in Int
      BY <1>1, <1>3, <2>2, <3>1
    <3> HIDE DEF r
    <3> QED BY <1>4, <2>3, <2>4, <2>5, <3>2
  <2>6. CASE At(a) = j
    <3> HIDE DEF At
    <3>1. r = g
      BY <1>3, <2>2, <2>6
    <3> HIDE DEF r
    <3> QED BY <1>3, <1>4, <2>3, <2>4, <2>6, <3>1
  <2> QED BY <2>5, <2>6
<1>14. 24 \in S
  <2>1. 24 \in Nat
    OBVIOUS
  <2> HIDE DEF S
  <2> QED BY <2>1, <1>12, <1>13, Induction
<1>15. it[1 .. n] = Fc0013Lna[j]
  <2>1. At(24) = j
    OBVIOUS
  <2> QED BY <1>14, <2>1
<1> QED BY <1>3, <1>9, <1>15 DEF g

LEMMA GainKept ==
  ASSUME NEW t \in GainTuners, NEW g, InTable(Advertised(t), g)
  PROVE  GainSet(t, g) = g
<1>1. PICK k \in DOMAIN Advertised(t) : Advertised(t)[k] = g
  BY DEF InTable
<1>2. CASE t = "R82xx"
  BY <1>1, <1>2, R82SetsAdvertised DEF GainSet
<1>3. CASE t = "FC0013"
  BY <1>1, <1>3, Fc0013SetsAdvertised DEF GainSet
<1>4. CASE t = "E4000"
  <2>1. g \in {-10, 15, 40, 65, 90, 115, 140, 165, 190, 215, 240, 290, 340, 420}
    BY <1>1, <1>4, SMT DEF Advertised
  <2> QED BY <2>1, <1>4, SMT DEF GainSet, E4kGain, E4kLna
<1>5. CASE t = "FC0012"
  <2>1. g \in {-99, -40, 71, 179, 192}
    BY <1>1, <1>5, SMT DEF Advertised
  <2> QED BY <2>1, <1>5, SMT DEF GainSet, Fc0012Gain
<1>6. CASE t = "FC2580"
  BY <1>1, <1>6, SMT DEF GainSet, Advertised
<1> QED BY <1>2, <1>3, <1>4, <1>5, <1>6 DEF GainTuners

------------------------------------------------------------------------------
(* The filters of the E4000.                                                 *)
LEMMA DeltaIsAbs == \A a, b \in Int : Delta(a, b) = Abs(a - b) /\ Delta(a, b) \in Nat
BY DEF Delta, Abs

LEMMA TableIsSequence ==
  ASSUME NEW n \in Nat, NEW f \in [1 .. n -> Int]
  PROVE  f \in Seq(Int) /\ Len(f) = n /\ DOMAIN f = 1 .. n
<1>1. f \in Seq(Int)
  BY SeqDef
<1> QED BY <1>1, LenProperties

LEMMA RfFiltersAre ==
  /\ RfFilterUhf \in [1 .. 16 -> Int] /\ RfFilterL \in [1 .. 16 -> Int]
  /\ RfFilterUhf \in Seq(Int) /\ RfFilterL \in Seq(Int)
  /\ Len(RfFilterUhf) = 16 /\ Len(RfFilterL) = 16
  /\ RfFilterUhf[16] = 970000000 /\ RfFilterL[1] = 1300000000
  /\ \A k \in 1 .. 16 : RfFilterUhf[k] <= 970000000 /\ RfFilterL[k] >= 1300000000
<1> DEFINE uhf == <<360, 380, 405, 425, 450, 475, 505, 540,
                    575, 615, 670, 720, 760, 840, 890, 970>>
           l == <<1300, 1320, 1360, 1410, 1445, 1460, 1490, 1530,
                  1560, 1590, 1640, 1660, 1680, 1700, 1720, 1750>>
<1>1. /\ uhf \in [1 .. 16 -> Int] /\ DOMAIN uhf = 1 .. 16 /\ uhf[16] = 970
      /\ \A k \in 1 .. 16 : uhf[k] <= 970
  BY SMT
<1>2. /\ l \in [1 .. 16 -> Int] /\ DOMAIN l = 1 .. 16 /\ l[1] = 1300
      /\ \A k \in 1 .. 16 : l[k] >= 1300
  BY SMT
<1>3. RfFilterUhf = MHz(uhf) /\ RfFilterL = MHz(l)
  BY DEF RfFilterUhf, RfFilterL
<1> HIDE DEF uhf, l
<1>4. /\ RfFilterUhf = [k \in 1 .. 16 |-> 1000000 * uhf[k]]
      /\ RfFilterL = [k \in 1 .. 16 |-> 1000000 * l[k]]
  BY <1>1, <1>2, <1>3 DEF MHz
<1>5. RfFilterUhf \in [1 .. 16 -> Int] /\ RfFilterL \in [1 .. 16 -> Int]
  BY <1>1, <1>2, <1>4, SMT
<1>6. /\ RfFilterUhf \in Seq(Int) /\ RfFilterL \in Seq(Int)
      /\ Len(RfFilterUhf) = 16 /\ Len(RfFilterL) = 16
  <2> DEFINE u == RfFilterUhf
             v == RfFilterL
  <2>1. u \in [1 .. 16 -> Int] /\ v \in [1 .. 16 -> Int]
    BY <1>5
  <2> HIDE DEF u, v
  <2>2. u \in Seq(Int) /\ v \in Seq(Int) /\ Len(u) = 16 /\ Len(v) = 16
    BY <2>1, TableIsSequence
  <2> QED BY <2>2 DEF u, v
<1>7. /\ RfFilterUhf[16] = 970000000 /\ RfFilterL[1] = 1300000000
      /\ \A k \in 1 .. 16 : RfFilterUhf[k] <= 970000000 /\ RfFilterL[k] >= 1300000000
  BY <1>1, <1>2, <1>4, SMT
<1> QED BY <1>5, <1>6, <1>7

(* Between two numbers: what is no farther than the nearer of them.           *)
LEMMA NearerSide ==
  ASSUME NEW x \in Int, NEW a \in Int, NEW b \in Int, a < b, NEW g \in Int, NEW h \in Int,
         \/ Delta(x, g) <= Delta(x, a) /\ x - a <= b - x /\ h >= b
         \/ Delta(x, g) <= Delta(x, b) /\ x - a >= b - x /\ h <= a
  PROVE  Delta(x, g) <= Delta(x, h)
BY DEF Delta

LEMMA TwoTables ==
  ASSUME NEW u \in [1 .. 16 -> Int], NEW v \in [1 .. 16 -> Int]
  PROVE  /\ DOMAIN (u \o v) = 1 .. 32
         /\ \A k \in 1 .. 16 : (u \o v)[k] = u[k] /\ (u \o v)[16 + k] = v[k]
<1> DEFINE n == 16
<1>1. n \in Nat /\ u \in [1 .. n -> Int] /\ v \in [1 .. n -> Int]
  OBVIOUS
<1> HIDE DEF n
<1>2. u \in Seq(Int) /\ v \in Seq(Int) /\ Len(u) = n /\ Len(v) = n
  BY <1>1, TableIsSequence
<1>3. /\ u \o v \in Seq(Int) /\ Len(u \o v) = Len(u) + Len(v)
      /\ \A k \in 1 .. Len(u) : (u \o v)[k] = u[k]
      /\ \A k \in 1 .. Len(v) : (u \o v)[Len(u) + k] = v[k]
  <2> DEFINE s == u
             t == v
  <2>1. s \in Seq(Int) /\ t \in Seq(Int)
    BY <1>2
  <2> HIDE DEF s, t
  <2>2. /\ s \o t \in Seq(Int) /\ Len(s \o t) = Len(s) + Len(t)
        /\ \A k \in 1 .. Len(s) : (s \o t)[k] = s[k]
        /\ \A k \in 1 .. Len(t) : (s \o t)[Len(s) + k] = t[k]
    BY <2>1, JoinedInts, Zenon
  <2> QED BY <2>2 DEF s, t
<1>4. DOMAIN (u \o v) = 1 .. Len(u \o v)
  BY <1>3, LenProperties
<1>5. DOMAIN (u \o v) = 1 .. n + n
  BY <1>2, <1>3, <1>4, Zenon
<1>6. \A k \in 1 .. n : (u \o v)[k] = u[k] /\ (u \o v)[n + k] = v[k]
  BY <1>2, <1>3, Zenon
<1>7. n = 16 /\ 1 .. n + n = 1 .. 32
  BY DEF n
<1> QED BY <1>5, <1>6, <1>7, Zenon

LEMMA FoundInBoth ==
  ASSUME NEW u \in [1 .. 16 -> Int], NEW v \in [1 .. 16 -> Int], NEW x \in Int,
         NEW i \in 1 .. 32, NEW g \in Int,
         g = IF i <= 16 THEN u[i] ELSE v[i - 16],
         \A k \in 1 .. 16 : Delta(x, g) <= Delta(x, u[k]) /\ Delta(x, g) <= Delta(x, v[k])
  PROVE  NearestIn(u \o v, g, x)
<1> DEFINE all == u \o v
<1>1. /\ DOMAIN all = 1 .. 32
      /\ \A k \in 1 .. 16 : all[k] = u[k] /\ all[16 + k] = v[k]
  BY TwoTables
<1> HIDE DEF all
<1>4. ASSUME NEW k \in 1 .. 32
      PROVE  all[k] = IF k <= 16 THEN u[k] ELSE v[k - 16]
  <2>1. CASE k <= 16
    BY <1>1, <2>1
  <2>2. CASE ~ (k <= 16)
    <3>1. k - 16 \in 1 .. 16 /\ 16 + (k - 16) = k
      BY <2>2
    <3> DEFINE j == k - 16
    <3>2. j \in 1 .. 16 /\ 16 + j = k
      BY <3>1
    <3> HIDE DEF j
    <3>3. all[16 + j] = v[j]
      BY <1>1, <3>2
    <3> QED BY <2>2, <3>2, <3>3 DEF j
  <2> QED BY <2>1, <2>2
<1>5. ASSUME NEW k \in 1 .. 32
      PROVE  all[k] \in Int /\ Delta(x, g) <= Delta(x, all[k])
  <2>1. CASE k <= 16
    BY <1>4, <2>1
  <2>2. CASE ~ (k <= 16)
    <3>1. k - 16 \in 1 .. 16
      BY <2>2
    <3> QED BY <1>4, <2>2, <3>1
  <2> QED BY <2>1, <2>2
<1>6. \A k \in 1 .. 32 : Abs(x - g) <= Abs(x - all[k])
  <2> TAKE k \in 1 .. 32
  <2> DEFINE h == all[k]
  <2>1. h \in Int /\ Delta(x, g) <= Delta(x, h)
    BY <1>5
  <2> HIDE DEF h
  <2>2. Abs(x - g) <= Abs(x - h)
    BY <2>1 DEF Delta, Abs
  <2> QED BY <2>2 DEF h
<1>7. all[i] = g
  BY <1>4
<1> QED BY <1>1, <1>6, <1>7 DEF NearestIn, InTable, all

(* The nearest of one band is the nearest of both.                           *)
LEMMA RfFilterNearest ==
  ASSUME NEW x \in Int, E4kBand(x) \in {"UHF", "L"}
  PROVE  NearestIn(RfFilterUhf \o RfFilterL, RfFilter(x), x)
<1> DEFINE u == RfFilterUhf
           v == RfFilterL
           a == 970000000
           b == 1300000000
           n == 16
<1>1. /\ u \in [1 .. n -> Int] /\ v \in [1 .. n -> Int] /\ u[16] = a /\ v[1] = b
      /\ \A k \in 1 .. n : u[k] <= a /\ v[k] >= b
  BY RfFiltersAre
<1>2. a \in Int /\ b \in Int /\ a < b
  BY SMT
<1>3. /\ E4kBand(x) = "UHF" => x - a <= b - x
      /\ E4kBand(x) = "L" => x - a >= b - x
  BY SMT DEF E4kBand
<1>4. /\ E4kBand(x) = "UHF" => RfFilter(x) = u[ClosestIdx(u, x) + 1]
      /\ E4kBand(x) = "L" => RfFilter(x) = v[ClosestIdx(v, x) + 1]
  BY DEF RfFilter, ChooseRfFilter
<1>5. n \in Nat /\ n # 0
  OBVIOUS
<1> HIDE DEF u, v, a, b, n
<1>6. /\ ClosestIdx(u, x) \in 0 .. n - 1
      /\ \A k \in 1 .. n : Delta(x, u[ClosestIdx(u, x) + 1]) <= Delta(x, u[k])
  BY <1>1, <1>5, ClosestFound
<1>7. /\ ClosestIdx(v, x) \in 0 .. n - 1
      /\ \A k \in 1 .. n : Delta(x, v[ClosestIdx(v, x) + 1]) <= Delta(x, v[k])
  BY <1>1, <1>5, ClosestFound
<1> USE DEF n
<1>8. CASE E4kBand(x) = "UHF"
  <2> DEFINE i == ClosestIdx(u, x) + 1
             g == u[i]
  <2>1. i \in 1 .. 16
    BY <1>6
  <2>2. \A k \in 1 .. 16 : Delta(x, g) <= Delta(x, u[k])
    BY <1>6
  <2>3. g \in Int
    BY <1>1, <2>1
  <2> HIDE DEF i
  <2> HIDE DEF g
  <2>4. \A k \in 1 .. 16 : Delta(x, g) <= Delta(x, v[k])
    <3> TAKE k \in 1 .. 16
    <3>1. v[k] \in Int /\ v[k] >= b
      BY <1>1
    <3>2. Delta(x, g) <= Delta(x, a) /\ x - a <= b - x
      BY <1>1, <1>3, <1>8, <2>2
    <3> QED BY <1>2, <2>3, <3>1, <3>2, NearerSide
  <2>5. i \in 1 .. 32 /\ g = IF i <= 16 THEN u[i] ELSE v[i - 16]
    BY <2>1 DEF g
  <2>6. NearestIn(u \o v, g, x)
    BY <1>1, <2>2, <2>3, <2>4, <2>5, FoundInBoth
  <2>7. RfFilter(x) = g
    BY <1>4, <1>8 DEF g, i
  <2> QED BY <2>6, <2>7 DEF u, v
<1>9. CASE E4kBand(x) = "L"
  <2> DEFINE i == ClosestIdx(v, x) + 1
             j == 16 + i
             g == v[i]
  <2>1. i \in 1 .. 16
    BY <1>7
  <2>2. \A k \in 1 .. 16 : Delta(x, g) <= Delta(x, v[k])
    BY <1>7
  <2>3. g \in Int
    BY <1>1, <2>1
  <2> HIDE DEF i
  <2>5. j \in 1 .. 32 /\ g = IF j <= 16 THEN u[j] ELSE v[j - 16]
    <3>1. j \in 1 .. 32 /\ ~ (j <= 16) /\ j - 16 = i
      BY <2>1
    <3> QED BY <3>1
  <2> HIDE DEF g, j
  <2>4. \A k \in 1 .. 16 : Delta(x, g) <= Delta(x, u[k])
    <3> TAKE k \in 1 .. 16
    <3>1. u[k] \in Int /\ u[k] <= a
      BY <1>1
    <3>2. Delta(x, g) <= Delta(x, b) /\ x - a >= b - x
      BY <1>1, <1>3, <1>9, <2>2
    <3> QED BY <1>2, <2>3, <3>1, <3>2, NearerSide
  <2>6. NearestIn(u \o v, g, x)
    BY <1>1, <2>2, <2>3, <2>4, <2>5, FoundInBoth
  <2>7. RfFilter(x) = g
    BY <1>4, <1>9 DEF g, i
  <2> QED BY <2>6, <2>7 DEF u, v
<1> QED BY <1>8, <1>9

LEMMA IfFiltersAre ==
  /\ DOMAIN IfFilters = {"mixer", "rc", "channel"}
  /\ IfFilters["mixer"] \in [1 .. 16 -> Int] /\ IfFilters["rc"] \in [1 .. 16 -> Int]
  /\ IfFilters["channel"] \in [1 .. 32 -> Int]
<1> DEFINE wide == [k \in 1 .. 8 |-> 27000]
           rest == <<4600, 4200, 3800, 3400, 3300, 2700, 2300, 1900>>
           rc == <<21400, 21000, 17600, 14700, 12400, 10600, 9000, 7700,
                   6400, 5300, 4400, 3400, 2600, 1800, 1200, 1000>>
           channel == <<5500, 5300, 5000, 4800, 4600, 4400, 4300, 4100,
                        3900, 3800, 3700, 3600, 3400, 3300, 3200, 3100,
                        3000, 2950, 2900, 2800, 2750, 2700, 2600, 2550,
                        2500, 2450, 2400, 2300, 2280, 2240, 2200, 2150>>
           mixer == wide \o rest
<1>1. IfFilters = [mixer |-> KHz(mixer), rc |-> KHz(rc), channel |-> KHz(channel)]
  BY DEF IfFilters
<1>2. rc \in [1 .. 16 -> Int] /\ DOMAIN rc = 1 .. 16
  BY SMT
<1>3. channel \in [1 .. 32 -> Int] /\ DOMAIN channel = 1 .. 32
  BY SMT
<1>4. wide \in Seq(Int) /\ Len(wide) = 8 /\ rest \in Seq(Int) /\ Len(rest) = 8
  <2>1. wide \in [1 .. 8 -> Int] /\ 8 \in Nat
    OBVIOUS
  <2> HIDE DEF wide
  <2>2. wide \in Seq(Int) /\ Len(wide) = 8
    BY <2>1, TableIsSequence
  <2>3. rest \in Seq(Int) /\ Len(rest) = 8
    BY SMT
  <2> QED BY <2>2, <2>3
<1> HIDE DEF wide, rest
<1>5. mixer \in Seq(Int) /\ Len(mixer) = 16
  <2>2. wide \in Seq(Int) /\ rest \in Seq(Int)
    BY <1>4
  <2>1. /\ wide \o rest \in Seq(Int) /\ Len(wide \o rest) = Len(wide) + Len(rest)
        /\ \A k \in 1 .. Len(wide) : (wide \o rest)[k] = wide[k]
        /\ \A k \in 1 .. Len(rest) : (wide \o rest)[Len(wide) + k] = rest[k]
    BY <2>2, JoinedInts, Zenon
  <2> QED BY <1>4, <2>1
<1> HIDE DEF mixer, rc, channel
<1>6. mixer \in [1 .. 16 -> Int] /\ DOMAIN mixer = 1 .. 16
  BY <1>5, LenProperties
<1>7. /\ KHz(mixer) \in [1 .. 16 -> Int] /\ KHz(rc) \in [1 .. 16 -> Int]
      /\ KHz(channel) \in [1 .. 32 -> Int]
  BY <1>2, <1>3, <1>6 DEF KHz
<1> QED BY <1>1, <1>7

(* Each of the three filters is the nearest of its table: the index fits its *)
(* field.                                                                    *)
LEMMA IfFilterNearest ==
  ASSUME NEW bw \in Int, NEW f \in DOMAIN IfFilters
  PROVE  NearestIn(IfFilters[f], IfFilterBwGet(FindIfBw(bw))[f], bw)
<1> DEFINE table == IfFilters[f]
           n == IF f = "channel" THEN 32 ELSE 16
           i == ClosestIdx(table, bw)
<1>1. table \in [1 .. n -> Int] /\ n \in Nat /\ n # 0
  <2>1. CASE f = "channel"
    BY <2>1, IfFiltersAre
  <2>2. CASE f = "mixer"
    BY <2>2, IfFiltersAre
  <2>3. CASE f = "rc"
    BY <2>3, IfFiltersAre
  <2> QED BY <2>1, <2>2, <2>3, IfFiltersAre
<1>2. FindIfBw(bw)[f] = i % n
  BY DEF FindIfBw
<1>3. IfFilterBwGet(FindIfBw(bw))[f] = table[FindIfBw(bw)[f] + 1]
  BY DEF IfFilterBwGet
<1> HIDE DEF table, n
<1>4. i \in 0 .. n - 1 /\ \A k \in 1 .. n : Delta(bw, table[i + 1]) <= Delta(bw, table[k])
  BY <1>1, ClosestFound
<1> HIDE DEF i
<1>5. i % n = i /\ i + 1 \in 1 .. n
  BY <1>1, <1>4
<1> DEFINE got == table[i + 1]
<1>6. DOMAIN table = 1 .. n /\ got \in Int /\ \A k \in 1 .. n : table[k] \in Int
  BY <1>1, <1>5
<1>7. \A k \in 1 .. n : Delta(bw, got) <= Delta(bw, table[k])
  BY <1>4
<1>8. \E k \in 1 .. n : table[k] = got
  BY <1>5
<1> HIDE DEF got
<1>9. \A k \in 1 .. n : Abs(bw - got) <= Abs(bw - table[k])
  BY <1>6, <1>7, DeltaIsAbs
<1>10. NearestIn(table, got, bw)
  BY <1>6, <1>8, <1>9 DEF NearestIn, InTable
<1>11. IfFilterBwGet(FindIfBw(bw))[f] = got
  BY <1>2, <1>3, <1>5 DEF got
<1> QED BY <1>10, <1>11 DEF table

------------------------------------------------------------------------------
(* The IF stages of the E4000.  Six fields share two registers.              *)
Fields(regs) ==
  <<regs[1] % 2, (regs[1] \div 2) % 4, (regs[1] \div 8) % 4, (regs[1] \div 32) % 4,
    regs[2] % 8, (regs[2] \div 8) % 8>>

LEMMA PowersOfTwo == 2 ^ 0 = 1 /\ 2 ^ 1 = 2 /\ 2 ^ 2 = 4 /\ 2 ^ 3 = 8 /\ 2 ^ 5 = 32
BY SMT

LEMMA FieldIs ==
  ASSUME NEW regs \in [1 .. 2 -> 0 .. 255], NEW s \in 1 .. 6
  PROVE  FieldOf(regs, StageField[s]) = Fields(regs)[s]
<1>1. regs[1] \in 0 .. 255 /\ regs[2] \in 0 .. 255
  OBVIOUS
<1>2. CASE s = 1
  <2>1. StageField[s].reg = 1 /\ StageField[s].shift = 0 /\ StageField[s].width = 1
    BY <1>2 DEF StageField
  <2>2. Fields(regs)[s] = regs[1] % 2 /\ regs[1] \div 1 = regs[1]
    BY <1>1, <1>2 DEF Fields
  <2> QED BY <2>1, <2>2, PowersOfTwo DEF FieldOf
<1>3. CASE s = 2
  <2>1. StageField[s].reg = 1 /\ StageField[s].shift = 1 /\ StageField[s].width = 2
    BY <1>3 DEF StageField
  <2>2. Fields(regs)[s] = (regs[1] \div 2) % 4
    BY <1>3 DEF Fields
  <2> QED BY <2>1, <2>2, PowersOfTwo DEF FieldOf
<1>4. CASE s = 3
  <2>1. StageField[s].reg = 1 /\ StageField[s].shift = 3 /\ StageField[s].width = 2
    BY <1>4 DEF StageField
  <2>2. Fields(regs)[s] = (regs[1] \div 8) % 4
    BY <1>4 DEF Fields
  <2> QED BY <2>1, <2>2, PowersOfTwo DEF FieldOf
<1>5. CASE s = 4
  <2>1. StageField[s].reg = 1 /\ StageField[s].shift = 5 /\ StageField[s].width = 2
    BY <1>5 DEF StageField
  <2>2. Fields(regs)[s] = (regs[1] \div 32) % 4
    BY <1>5 DEF Fields
  <2> QED BY <2>1, <2>2, PowersOfTwo DEF FieldOf
<1>6. CASE s = 5
  <2>1. StageField[s].reg = 2 /\ StageField[s].shift = 0 /\ StageField[s].width = 3
    BY <1>6 DEF StageField
  <2>2. Fields(regs)[s] = regs[2] % 8 /\ regs[2] \div 1 = regs[2]
    BY <1>1, <1>6 DEF Fields
  <2> QED BY <2>1, <2>2, PowersOfTwo DEF FieldOf
<1>7. CASE s = 6
  <2>1. StageField[s].reg = 2 /\ StageField[s].shift = 3 /\ StageField[s].width = 3
    BY <1>7 DEF StageField
  <2>2. Fields(regs)[s] = (regs[2] \div 8) % 8
    BY <1>7 DEF Fields
  <2> QED BY <2>1, <2>2, PowersOfTwo DEF FieldOf
<1> QED BY <1>2, <1>3, <1>4, <1>5, <1>6, <1>7

(* A byte and its fields.                                                    *)
LEMMA LowByte ==
  ASSUME NEW x \in 0 .. 255
  PROVE  \E b \in 0 .. 1, c \in 0 .. 3, d \in 0 .. 3, e \in 0 .. 3, f \in 0 .. 1 :
           x = b + 2 * c + 8 * d + 32 * e + 128 * f
<1>1. x = (x % 2) + 2 * ((x \div 2) % 4) + 8 * ((x \div 8) % 4) + 32 * ((x \div 32) % 4)
            + 128 * (x \div 128)
  BY SMT
<1>2. /\ x % 2 \in 0 .. 1 /\ (x \div 2) % 4 \in 0 .. 3 /\ (x \div 8) % 4 \in 0 .. 3
      /\ (x \div 32) % 4 \in 0 .. 3 /\ x \div 128 \in 0 .. 1
  BY SMT
<1> DEFINE b == x % 2
           c == (x \div 2) % 4
           d == (x \div 8) % 4
           e == (x \div 32) % 4
           f == x \div 128
<1>3. /\ b \in 0 .. 1 /\ c \in 0 .. 3 /\ d \in 0 .. 3 /\ e \in 0 .. 3 /\ f \in 0 .. 1
      /\ x = b + 2 * c + 8 * d + 32 * e + 128 * f
  BY <1>1, <1>2
<1> HIDE DEF b, c, d, e, f
<1> QED BY <1>3

LowPacked(b, c, d, e, f) == b + 2 * c + 8 * d + 32 * e + 128 * f

LowUnpacked(x, b, c, d, e) ==
  /\ x \in 0 .. 255 /\ x % 2 = b /\ (x \div 2) % 4 = c
  /\ (x \div 8) % 4 = d /\ (x \div 32) % 4 = e

LEMMA LowFields ==
  ASSUME NEW b \in 0 .. 1, NEW c \in 0 .. 3, NEW d \in 0 .. 3, NEW e \in 0 .. 3, NEW f \in 0 .. 1
  PROVE  LowUnpacked(LowPacked(b, c, d, e, f), b, c, d, e)
<1> DEFINE x == LowPacked(b, c, d, e, f)
<1>1. x = b + 2 * c + 8 * d + 32 * e + 128 * f
  BY DEF LowPacked
<1> HIDE DEF x
<1>2. /\ x \in 0 .. 255 /\ x % 2 = b /\ (x \div 2) % 4 = c
      /\ (x \div 8) % 4 = d /\ (x \div 32) % 4 = e
  BY <1>1, SMT
<1> QED BY <1>2 DEF x, LowUnpacked

LEMMA HighByte ==
  ASSUME NEW x \in 0 .. 255
  PROVE  \E b \in 0 .. 7, c \in 0 .. 7, d \in 0 .. 3 : x = b + 8 * c + 64 * d
<1> DEFINE b == x % 8
           c == (x \div 8) % 8
           d == x \div 64
<1>1. /\ b \in 0 .. 7 /\ c \in 0 .. 7 /\ d \in 0 .. 3 /\ x = b + 8 * c + 64 * d
  BY SMT
<1> HIDE DEF b, c, d
<1> QED BY <1>1

LEMMA HighFields ==
  ASSUME NEW b \in 0 .. 7, NEW c \in 0 .. 7, NEW d \in 0 .. 3, NEW x, x = b + 8 * c + 64 * d
  PROVE  x \in 0 .. 255 /\ x % 8 = b /\ (x \div 8) % 8 = c
BY SMT

(* What fits a field can be written there without touching the others.       *)
LowPart(x) == <<x % 2, (x \div 2) % 4, (x \div 8) % 4, (x \div 32) % 4>>
HighPart(x) == <<x % 8, (x \div 8) % 8>>

LowIs(y, i, v, x) ==
  y \in 0 .. 255 /\ \A k \in 1 .. 4 : LowPart(y)[k] = IF k = i THEN v ELSE LowPart(x)[k]
HighIs(y, i, v, x) ==
  y \in 0 .. 255 /\ \A k \in 1 .. 2 : HighPart(y)[k] = IF k = i THEN v ELSE HighPart(x)[k]

LEMMA LowWritten ==
  ASSUME NEW x \in 0 .. 255, NEW v
  PROVE  /\ v \in 0 .. 1 => LowIs(x + (v - (x % 2)) * 1, 1, v, x)
         /\ v \in 0 .. 3 => LowIs(x + (v - ((x \div 2) % 4)) * 2, 2, v, x)
         /\ v \in 0 .. 3 => LowIs(x + (v - ((x \div 8) % 4)) * 8, 3, v, x)
         /\ v \in 0 .. 3 => LowIs(x + (v - ((x \div 32) % 4)) * 32, 4, v, x)
<1>1. PICK b \in 0 .. 1, c \in 0 .. 3, d \in 0 .. 3, e \in 0 .. 3, f \in 0 .. 1 :
        x = b + 2 * c + 8 * d + 32 * e + 128 * f
  BY LowByte
<1>2. /\ x % 2 = b /\ (x \div 2) % 4 = c /\ (x \div 8) % 4 = d /\ (x \div 32) % 4 = e
  BY <1>1, SMT
<1>3. ASSUME v \in 0 .. 1 PROVE LowIs(x + (v - b) * 1, 1, v, x)
  <2> DEFINE y == x + (v - b) * 1
  <2>1. y = LowPacked(v, c, d, e, f)
    BY <1>1, <1>3 DEF LowPacked
  <2> HIDE DEF y
  <2>4. LowUnpacked(LowPacked(v, c, d, e, f), v, c, d, e)
    BY <1>3, LowFields, Zenon
  <2>2. LowUnpacked(y, v, c, d, e)
    BY <2>1, <2>4, Zenon
  <2>3. LowIs(y, 1, v, x)
    BY <1>2, <2>2 DEF LowIs, LowPart, LowUnpacked
  <2> QED BY <2>3 DEF y
<1>4. ASSUME v \in 0 .. 3 PROVE LowIs(x + (v - c) * 2, 2, v, x)
  <2> DEFINE y == x + (v - c) * 2
  <2>1. y = LowPacked(b, v, d, e, f)
    BY <1>1, <1>4 DEF LowPacked
  <2> HIDE DEF y
  <2>4. LowUnpacked(LowPacked(b, v, d, e, f), b, v, d, e)
    BY <1>4, LowFields, Zenon
  <2>2. LowUnpacked(y, b, v, d, e)
    BY <2>1, <2>4, Zenon
  <2>3. LowIs(y, 2, v, x)
    BY <1>2, <2>2 DEF LowIs, LowPart, LowUnpacked
  <2> QED BY <2>3 DEF y
<1>5. ASSUME v \in 0 .. 3 PROVE LowIs(x + (v - d) * 8, 3, v, x)
  <2> DEFINE y == x + (v - d) * 8
  <2>1. y = LowPacked(b, c, v, e, f)
    BY <1>1, <1>5 DEF LowPacked
  <2> HIDE DEF y
  <2>4. LowUnpacked(LowPacked(b, c, v, e, f), b, c, v, e)
    BY <1>5, LowFields, Zenon
  <2>2. LowUnpacked(y, b, c, v, e)
    BY <2>1, <2>4, Zenon
  <2>3. LowIs(y, 3, v, x)
    BY <1>2, <2>2 DEF LowIs, LowPart, LowUnpacked
  <2> QED BY <2>3 DEF y
<1>6. ASSUME v \in 0 .. 3 PROVE LowIs(x + (v - e) * 32, 4, v, x)
  <2> DEFINE y == x + (v - e) * 32
  <2>1. y = LowPacked(b, c, d, v, f)
    BY <1>1, <1>6 DEF LowPacked
  <2> HIDE DEF y
  <2>4. LowUnpacked(LowPacked(b, c, d, v, f), b, c, d, v)
    BY <1>6, LowFields, Zenon
  <2>2. LowUnpacked(y, b, c, d, v)
    BY <2>1, <2>4, Zenon
  <2>3. LowIs(y, 4, v, x)
    BY <1>2, <2>2 DEF LowIs, LowPart, LowUnpacked
  <2> QED BY <2>3 DEF y
<1> QED BY <1>2, <1>3, <1>4, <1>5, <1>6, Zenon

LEMMA HighWritten ==
  ASSUME NEW x \in 0 .. 255, NEW v \in 0 .. 7
  PROVE  /\ HighIs(x + (v - (x % 8)) * 1, 1, v, x)
         /\ HighIs(x + (v - ((x \div 8) % 8)) * 8, 2, v, x)
<1>1. PICK b \in 0 .. 7, c \in 0 .. 7, d \in 0 .. 3 : x = b + 8 * c + 64 * d
  BY HighByte
<1>2. x % 8 = b /\ (x \div 8) % 8 = c
  BY <1>1, SMT
<1>3. HighIs(x + (v - b) * 1, 1, v, x)
  <2> DEFINE y == x + (v - b) * 1
  <2>1. y = v + 8 * c + 64 * d
    BY <1>1
  <2> HIDE DEF y
  <2>2. y \in 0 .. 255 /\ y % 8 = v /\ (y \div 8) % 8 = c
    BY <2>1, SMT
  <2>3. HighIs(y, 1, v, x)
    BY <1>2, <2>2 DEF HighIs, HighPart
  <2> QED BY <2>3 DEF y
<1>4. HighIs(x + (v - c) * 8, 2, v, x)
  <2> DEFINE y == x + (v - c) * 8
  <2>1. y = b + 8 * v + 64 * d
    BY <1>1
  <2> HIDE DEF y
  <2>2. y \in 0 .. 255 /\ y % 8 = b /\ (y \div 8) % 8 = v
    BY <2>1, SMT
  <2>3. HighIs(y, 2, v, x)
    BY <1>2, <2>2 DEF HighIs, HighPart
  <2> QED BY <2>3 DEF y
<1> QED BY <1>2, <1>3, <1>4, Zenon

FitsStage(s, v) == v \in IF s = 1 THEN 0 .. 1 ELSE IF s <= 4 THEN 0 .. 3 ELSE 0 .. 7

Written(regs, s, v) ==
  LET f == StageField[s]
  IN  [regs EXCEPT ![f.reg] = regs[f.reg] + (v - FieldOf(regs, f)) * 2 ^ f.shift]

LEMMA StageWritten ==
  ASSUME NEW regs \in [1 .. 2 -> 0 .. 255], NEW s \in 1 .. 6, NEW v, FitsStage(s, v)
  PROVE  /\ Written(regs, s, v) \in [1 .. 2 -> 0 .. 255]
         /\ \A q \in 1 .. 6 :
              Fields(Written(regs, s, v))[q] = IF q = s THEN v ELSE Fields(regs)[q]
<1>0. PICK new : new = Written(regs, s, v)
  OBVIOUS
<1> DEFINE f == StageField[s]
           x == regs[1]
           y == regs[2]
           u == FieldOf(regs, f)
<1>1. x \in 0 .. 255 /\ y \in 0 .. 255
  OBVIOUS
<1>2. u = Fields(regs)[s]
  BY FieldIs
<1>3. /\ s = 1 => f.reg = 1 /\ 2 ^ f.shift = 1
      /\ s = 2 => f.reg = 1 /\ 2 ^ f.shift = 2
      /\ s = 3 => f.reg = 1 /\ 2 ^ f.shift = 8
      /\ s = 4 => f.reg = 1 /\ 2 ^ f.shift = 32
      /\ s = 5 => f.reg = 2 /\ 2 ^ f.shift = 1
      /\ s = 6 => f.reg = 2 /\ 2 ^ f.shift = 8
  <2>1. /\ StageField[1].reg = 1 /\ StageField[1].shift = 0
        /\ StageField[2].reg = 1 /\ StageField[2].shift = 1
        /\ StageField[3].reg = 1 /\ StageField[3].shift = 3
        /\ StageField[4].reg = 1 /\ StageField[4].shift = 5
        /\ StageField[5].reg = 2 /\ StageField[5].shift = 0
        /\ StageField[6].reg = 2 /\ StageField[6].shift = 3
    BY DEF StageField
  <2> QED BY <2>1, PowersOfTwo, Zenon
<1>4. \A g : /\ \A q \in 1 .. 4 : Fields(g)[q] = LowPart(g[1])[q]
             /\ \A q \in 5 .. 6 : Fields(g)[q] = HighPart(g[2])[q - 4]
  <2> TAKE g
  <2>1. /\ Fields(g)[1] = LowPart(g[1])[1] /\ Fields(g)[2] = LowPart(g[1])[2]
        /\ Fields(g)[3] = LowPart(g[1])[3] /\ Fields(g)[4] = LowPart(g[1])[4]
    BY DEF Fields, LowPart
  <2>2. Fields(g)[5] = HighPart(g[2])[1] /\ Fields(g)[6] = HighPart(g[2])[2]
    BY DEF Fields, HighPart
  <2>3. \A q \in 1 .. 4 : q = 1 \/ q = 2 \/ q = 3 \/ q = 4
    OBVIOUS
  <2>4. \A q \in 5 .. 6 : (q = 5 /\ q - 4 = 1) \/ (q = 6 /\ q - 4 = 2)
    OBVIOUS
  <2> QED BY <2>1, <2>2, <2>3, <2>4, Zenon
<1>5. /\ LowPart(x)[1] = x % 2 /\ LowPart(x)[2] = (x \div 2) % 4
      /\ LowPart(x)[3] = (x \div 8) % 4 /\ LowPart(x)[4] = (x \div 32) % 4
      /\ HighPart(y)[1] = y % 8 /\ HighPart(y)[2] = (y \div 8) % 8
  BY DEF LowPart, HighPart
<1>6. CASE s <= 4
  <2>1. f.reg = 1 /\ s \in 1 .. 4
    BY <1>3, <1>6
  <2>2. u = LowPart(x)[s]
    BY <1>2, <1>4, <2>1
  <2> DEFINE z == x + (v - u) * 2 ^ f.shift
  <2>3. LowIs(z, s, v, x)
    <3>1. CASE s = 1
      <4>1. v \in 0 .. 1
        BY <3>1 DEF FitsStage
      <4>2. LowIs(x + (v - (x % 2)) * 1, 1, v, x)
        BY <1>1, <4>1, LowWritten
      <4> QED BY <1>3, <1>5, <2>2, <3>1, <4>2, Zenon
    <3>2. CASE s = 2
      <4>1. v \in 0 .. 3
        BY <3>2 DEF FitsStage
      <4>2. LowIs(x + (v - ((x \div 2) % 4)) * 2, 2, v, x)
        BY <1>1, <4>1, LowWritten
      <4> QED BY <1>3, <1>5, <2>2, <3>2, <4>2, Zenon
    <3>3. CASE s = 3
      <4>1. v \in 0 .. 3
        BY <3>3 DEF FitsStage
      <4>2. LowIs(x + (v - ((x \div 8) % 4)) * 8, 3, v, x)
        BY <1>1, <4>1, LowWritten
      <4> QED BY <1>3, <1>5, <2>2, <3>3, <4>2, Zenon
    <3>4. CASE s = 4
      <4>1. v \in 0 .. 3
        BY <3>4 DEF FitsStage
      <4>2. LowIs(x + (v - ((x \div 32) % 4)) * 32, 4, v, x)
        BY <1>1, <4>1, LowWritten
      <4> QED BY <1>3, <1>5, <2>2, <3>4, <4>2, Zenon
    <3> QED BY <2>1, <3>1, <3>2, <3>3, <3>4
  <2>4. new = [regs EXCEPT ![1] = z]
    BY <1>0, <2>1 DEF Written
  <2> HIDE DEF z
  <2>5. new[1] = z /\ new[2] = y /\ z \in 0 .. 255
    BY <2>3, <2>4 DEF LowIs
  <2>6. new \in [1 .. 2 -> 0 .. 255]
    BY <2>4, <2>5
  <2>7. ASSUME NEW q \in 1 .. 6 PROVE Fields(new)[q] = IF q = s THEN v ELSE Fields(regs)[q]
    <3>1. CASE q \in 1 .. 4
      <4>1. Fields(new)[q] = LowPart(z)[q] /\ Fields(regs)[q] = LowPart(x)[q]
        BY <1>4, <2>5, <3>1
      <4> QED BY <2>3, <3>1, <4>1 DEF LowIs
    <3>2. CASE q \in 5 .. 6
      <4>1. Fields(new)[q] = HighPart(y)[q - 4] /\ Fields(regs)[q] = HighPart(y)[q - 4]
        <5>1. /\ Fields(new)[q] = HighPart(new[2])[q - 4]
              /\ Fields(regs)[q] = HighPart(regs[2])[q - 4]
          BY <1>4, <3>2, Zenon
        <5> QED BY <2>5, <5>1, Zenon
      <4>2. q # s
        BY <2>1, <3>2
      <4> QED BY <4>1, <4>2
    <3> QED BY <3>1, <3>2
  <2> QED BY <1>0, <2>6, <2>7
<1>7. CASE ~ (s <= 4)
  <2>1. f.reg = 2 /\ s - 4 \in 1 .. 2 /\ s \in 5 .. 6 /\ v \in 0 .. 7
    <3>1. s = 5 \/ s = 6
      BY <1>7
    <3>2. v \in 0 .. 7
      BY <1>7, <3>1 DEF FitsStage
    <3> QED BY <1>3, <3>1, <3>2
  <2>2. u = HighPart(y)[s - 4]
    BY <1>2, <1>4, <2>1
  <2> DEFINE z == y + (v - u) * 2 ^ f.shift
  <2>3. HighIs(z, s - 4, v, y)
    <3>1. CASE s = 5
      <4>1. s - 4 = 1
        BY <3>1
      <4>2. HighIs(y + (v - (y % 8)) * 1, 1, v, y)
        BY <1>1, <2>1, HighWritten
      <4> QED BY <1>3, <1>5, <2>2, <3>1, <4>1, <4>2, Zenon
    <3>2. CASE s = 6
      <4>1. s - 4 = 2
        BY <3>2
      <4>2. HighIs(y + (v - ((y \div 8) % 8)) * 8, 2, v, y)
        BY <1>1, <2>1, HighWritten
      <4> QED BY <1>3, <1>5, <2>2, <3>2, <4>1, <4>2, Zenon
    <3> QED BY <2>1, <3>1, <3>2
  <2>4. new = [regs EXCEPT ![2] = z]
    BY <1>0, <2>1 DEF Written
  <2> HIDE DEF z
  <2>5. new[1] = x /\ new[2] = z /\ z \in 0 .. 255
    BY <2>3, <2>4 DEF HighIs
  <2>6. new \in [1 .. 2 -> 0 .. 255]
    BY <2>4, <2>5
  <2>7. ASSUME NEW q \in 1 .. 6 PROVE Fields(new)[q] = IF q = s THEN v ELSE Fields(regs)[q]
    <3>1. CASE q \in 1 .. 4
      <4>1. Fields(new)[q] = LowPart(x)[q] /\ Fields(regs)[q] = LowPart(x)[q]
        <5>1. /\ Fields(new)[q] = LowPart(new[1])[q]
              /\ Fields(regs)[q] = LowPart(regs[1])[q]
          BY <1>4, <3>1, Zenon
        <5> QED BY <2>5, <5>1, Zenon
      <4>2. q # s
        BY <2>1, <3>1
      <4> QED BY <4>1, <4>2
    <3>2. CASE q \in 5 .. 6
      <4>1. Fields(new)[q] = HighPart(z)[q - 4] /\ Fields(regs)[q] = HighPart(y)[q - 4]
        BY <1>4, <2>5, <3>2
      <4>2. q - 4 \in 1 .. 2 /\ (q - 4 = s - 4 <=> q = s)
        BY <2>1, <3>2
      <4> QED BY <2>3, <4>1, <4>2 DEF HighIs
    <3> QED BY <3>1, <3>2
  <2> QED BY <1>0, <2>6, <2>7
<1> QED BY <1>6, <1>7

(* An index that is found fits the field of its stage.                       *)
LEMMA StageGainsAre ==
  /\ DOMAIN StageGains = 1 .. 6
  /\ \A s \in 1 .. 6 :
       DOMAIN StageGains[s] = IF s = 1 THEN 1 .. 2 ELSE IF s <= 4 THEN 1 .. 4 ELSE 1 .. 8
<1>1. DOMAIN StageGains = 1 .. 6
  BY SMT DEF StageGains
<1>2. /\ DOMAIN StageGains[1] = 1 .. 2 /\ DOMAIN StageGains[2] = 1 .. 4
      /\ DOMAIN StageGains[3] = 1 .. 4 /\ DOMAIN StageGains[4] = 1 .. 4
      /\ DOMAIN StageGains[5] = 1 .. 8 /\ DOMAIN StageGains[6] = 1 .. 8
  BY SMT DEF StageGains
<1>3. \A s \in 1 .. 6 : s = 1 \/ s = 2 \/ s = 3 \/ s = 4 \/ s = 5 \/ s = 6
  OBVIOUS
<1> QED BY <1>1, <1>2, <1>3

LEMMA StageGainFound ==
  ASSUME NEW s \in Int, NEW gain, FindStageGain(s, gain) # -22
  PROVE  LET i == FindStageGain(s, gain)
         IN  /\ s \in 1 .. 6 /\ i \in Nat /\ FitsStage(s, i)
             /\ StageGains[s][i + 1] = gain
<1> DEFINE i == FindStageGain(s, gain)
           same == {k \in DOMAIN StageGains[s] : StageGains[s][k] = gain}
           first == CHOOSE k \in same : \A l \in same : k <= l
<1>1. s \in 1 .. 6
  BY StageGainsAre DEF FindStageGain
<1>2. DOMAIN StageGains[s] = IF s = 1 THEN 1 .. 2 ELSE IF s <= 4 THEN 1 .. 4 ELSE 1 .. 8
  BY <1>1, StageGainsAre
<1>3. i = IF same = {} THEN -22 ELSE first - 1
  BY <1>1, StageGainsAre DEF FindStageGain
<1>4. same # {}
  BY <1>3
<1>5. same \in SUBSET Nat
  BY <1>1, <1>2
<1>6. first \in same
  <2>1. \E k \in same : \A l \in same : k <= l
    <3> HIDE DEF same
    <3> QED BY <1>4, <1>5, LeastNumber
  <2> HIDE DEF same
  <2> QED BY <2>1
<1> HIDE DEF first
<1>7. first \in DOMAIN StageGains[s] /\ StageGains[s][first] = gain
  BY <1>6
<1>8. i = first - 1
  BY <1>3, <1>4
<1> HIDE DEF i, same
<1>9. first \in Nat /\ i + 1 = first
  BY <1>5, <1>6, <1>8
<1>10. i \in Nat /\ FitsStage(s, i)
  BY <1>1, <1>2, <1>7, <1>8 DEF FitsStage
<1> QED BY <1>1, <1>7, <1>9, <1>10 DEF i

(* What is gains for is what the registers say, and nothing else changes.    *)
Kept(regs, gains) ==
  /\ regs \in [1 .. 2 -> 0 .. 255] /\ DOMAIN gains \subseteq 1 .. 6
  /\ gains = [s \in DOMAIN gains |-> gains[s]]
  /\ \A s \in DOMAIN gains : StageGain(regs, s) = gains[s]

LEMMA TenthsCut ==
  ASSUME NEW t \in Int
  PROVE  Trunc(t, 10) = IF t < 0 THEN -((-t) \div 10) ELSE t \div 10
BY DEF Trunc, Magnitude

LEMMA StageSet ==
  ASSUME NEW regs, NEW gains, Kept(regs, gains), NEW s \in Int, NEW t \in Int
  PROVE  Kept(SetIfGain(regs, s, t),
              IF FindStageGain(s, Trunc(t, 10)) < 0 THEN gains
              ELSE [k \in {s} \cup DOMAIN gains |-> IF k = s THEN Trunc(t, 10) ELSE gains[k]])
<1> DEFINE gain == Trunc(t, 10)
           i == FindStageGain(s, gain)
           new == Written(regs, s, i)
<1>1. SetIfGain(regs, s, t) = IF i < 0 THEN regs ELSE new
  BY TenthsCut DEF SetIfGain, Written
<1>2. CASE i < 0
  BY <1>1, <1>2
<1>3. CASE ~ (i < 0)
  <2> DEFINE now == [k \in {s} \cup DOMAIN gains |-> IF k = s THEN gain ELSE gains[k]]
  <2>1. i # -22
    BY <1>3
  <2>2. s \in 1 .. 6 /\ FitsStage(s, i) /\ StageGains[s][i + 1] = gain
    BY <2>1, StageGainFound
  <2> HIDE DEF i, gain
  <2>3. regs \in [1 .. 2 -> 0 .. 255]
    BY DEF Kept
  <2>4. /\ new \in [1 .. 2 -> 0 .. 255]
        /\ \A q \in 1 .. 6 : Fields(new)[q] = IF q = s THEN i ELSE Fields(regs)[q]
    BY <2>2, <2>3, StageWritten
  <2> HIDE DEF new
  <2>5. \A g \in [1 .. 2 -> 0 .. 255] : \A q \in 1 .. 6 :
          StageGain(g, q) = StageGains[q][Fields(g)[q] + 1]
    BY FieldIs DEF StageGain
  <2>6. DOMAIN now = {s} \cup DOMAIN gains /\ now = [k \in DOMAIN now |-> now[k]]
        /\ \A k \in DOMAIN now : now[k] = IF k = s THEN gain ELSE gains[k]
    OBVIOUS
  <2> HIDE DEF now
  <2>7. ASSUME NEW k \in DOMAIN now PROVE StageGain(new, k) = now[k]
    <3>1. k \in 1 .. 6
      BY <2>2, <2>6 DEF Kept
    <3>2. StageGain(new, k) = StageGains[k][Fields(new)[k] + 1]
      BY <2>4, <2>5, <3>1
    <3>3. CASE k = s
      BY <2>2, <2>4, <2>6, <3>1, <3>2, <3>3
    <3>4. CASE k # s
      <4>1. k \in DOMAIN gains /\ now[k] = gains[k]
        BY <2>6, <3>4
      <4>2. StageGain(regs, k) = StageGains[k][Fields(regs)[k] + 1]
        BY <2>3, <2>5, <3>1
      <4>3. StageGain(regs, k) = gains[k]
        BY <4>1 DEF Kept
      <4> QED BY <2>4, <3>1, <3>2, <3>4, <4>1, <4>2, <4>3
    <3> QED BY <3>3, <3>4
  <2>8. DOMAIN now \subseteq 1 .. 6
    BY <2>2, <2>6 DEF Kept
  <2>9. Kept(new, now)
    BY <2>4, <2>6, <2>7, <2>8 DEF Kept
  <2>10. SetIfGain(regs, s, t) = new
    BY <1>1, <1>3
  <2>11. ~ (FindStageGain(s, Trunc(t, 10)) < 0)
    BY <1>3 DEF i, gain
  <2>12. now = [k \in {s} \cup DOMAIN gains |-> IF k = s THEN Trunc(t, 10) ELSE gains[k]]
    BY DEF now, gain
  <2> HIDE DEF now
  <2> QED BY <2>9, <2>10, <2>11, <2>12, Zenon
<1> QED BY <1>2, <1>3

------------------------------------------------------------------------------
(* What stays true of a request of these three kinds.                        *)
NearestInv ==
  /\ ask.kind = "gain" =>
       ask \in [kind : {"gain"}, tuner : GainTuners, target : Int]
  /\ ask.kind = "filter" =>
       ask \in [kind : {"filter"}, freq : Int, bandwidth : Int]
  /\ ask.kind = "stages" =>
       \E regs, gains : /\ ask = [kind |-> "stages", regs |-> regs, asked |-> gains]
                        /\ Kept(regs, gains)

LEMMA NearestAtFirst == AskInit => NearestInv
<1> SUFFICES ASSUME AskInit PROVE NearestInv
  OBVIOUS
<1>1. ask.kind = "gain" => ask \in [kind : {"gain"}, tuner : GainTuners, target : Int]
  <2> SUFFICES ASSUME ask.kind = "gain"
      PROVE  ask \in [kind : {"gain"}, tuner : GainTuners, target : Int]
    OBVIOUS
  <2>1. PICK t \in GainTuners : ask = [kind |-> "gain", tuner |-> t, target |-> -150]
    BY DEF AskInit
  <2> QED BY <2>1
<1>2. ask.kind = "filter" => ask \in [kind : {"filter"}, freq : Int, bandwidth : Int]
  <2> SUFFICES ASSUME ask.kind = "filter"
      PROVE  ask \in [kind : {"filter"}, freq : Int, bandwidth : Int]
    OBVIOUS
  <2>1. ask = [kind |-> "filter", freq |-> Lowest("E4000"), bandwidth |-> 300000]
    BY DEF AskInit
  <2>2. Lowest("E4000") \in Int
    BY SMT DEF Lowest
  <2> QED BY <2>1, <2>2
<1>3. ask.kind = "stages" =>
        \E regs, gains : /\ ask = [kind |-> "stages", regs |-> regs, asked |-> gains]
                         /\ Kept(regs, gains)
  <2> SUFFICES ASSUME ask.kind = "stages"
      PROVE  \E regs, gains : /\ ask = [kind |-> "stages", regs |-> regs, asked |-> gains]
                              /\ Kept(regs, gains)
    OBVIOUS
  <2>1. ask = [kind |-> "stages", regs |-> <<0, 0>>, asked |-> <<>>]
    BY DEF AskInit
  <2>2. <<0, 0>> \in [1 .. 2 -> 0 .. 255] /\ DOMAIN <<>> = {}
        /\ <<>> = [s \in DOMAIN <<>> |-> <<>>[s]]
    OBVIOUS
  <2>3. Kept(<<0, 0>>, <<>>)
    BY <2>2 DEF Kept
  <2> QED BY <2>1, <2>3
<1> QED BY <1>1, <1>2, <1>3 DEF NearestInv

LEMMA NearestKept ==
  ASSUME NearestInv, OneKind, [AskNext]_ask
  PROVE  NearestInv'
<1>1. CASE UNCHANGED ask
  BY <1>1 DEF NearestInv
<1>2. ask'.kind = ask.kind
  BY KindKept
<1>3. CASE ask.kind = "gain" /\ NextGain
  <2>1. ask \in [kind : {"gain"}, tuner : GainTuners, target : Int]
    BY <1>3 DEF NearestInv
  <2>2. ask' = [ask EXCEPT !.target = ask.target + GainStep]
    BY <1>3 DEF NextGain
  <2>3. ask.target + GainStep \in Int
    BY <2>1, StepsAssumption
  <2>4. ask' \in [kind : {"gain"}, tuner : GainTuners, target : Int]
    BY <2>1, <2>2, <2>3
  <2> QED BY <2>4 DEF NearestInv
<1>4. CASE ask.kind = "filter" /\ NextFilter
  <2>1. ask \in [kind : {"filter"}, freq : Int, bandwidth : Int]
    BY <1>4 DEF NearestInv
  <2>2. ask' = [ask EXCEPT !.freq = ask.freq + FilterStep,
                           !.bandwidth = ask.bandwidth + BandwidthStep]
    BY <1>4 DEF NextFilter
  <2>3. ask.freq + FilterStep \in Int /\ ask.bandwidth + BandwidthStep \in Int
    BY <2>1, StepsAssumption
  <2>4. ask' \in [kind : {"filter"}, freq : Int, bandwidth : Int]
    BY <2>1, <2>2, <2>3
  <2> QED BY <2>4 DEF NearestInv
<1>5. CASE ask.kind = "stages" /\ NextStage
  <2>1. PICK regs, gains : /\ ask = [kind |-> "stages", regs |-> regs, asked |-> gains]
                           /\ Kept(regs, gains)
    BY <1>5 DEF NearestInv
  <2>2. PICK s \in 0 .. 7, t \in StageTenths \cup {-30, -35} :
          ask' = [ask EXCEPT !.regs = SetIfGain(ask.regs, s, t),
                             !.asked = IF FindStageGain(s, Trunc(t, 10)) < 0 THEN ask.asked
                                       ELSE [k \in {s} \cup DOMAIN ask.asked |->
                                               IF k = s THEN Trunc(t, 10) ELSE ask.asked[k]]]
    BY <1>5 DEF NextStage
  <2>3. s \in Int /\ t \in Int
    BY StepsAssumption
  <2> DEFINE now == IF FindStageGain(s, Trunc(t, 10)) < 0 THEN gains
                    ELSE [k \in {s} \cup DOMAIN gains |->
                            IF k = s THEN Trunc(t, 10) ELSE gains[k]]
             new == SetIfGain(regs, s, t)
  <2>4. Kept(new, now)
    BY <2>1, <2>3, StageSet
  <2>5. ask.regs = regs /\ ask.asked = gains
    BY <2>1
  <2>6. ask' = [ask EXCEPT !.regs = new, !.asked = now]
    BY <2>2, <2>5, Zenon
  <2> HIDE DEF new, now
  <2>7. ask' = [kind |-> "stages", regs |-> new, asked |-> now]
    BY <2>1, <2>6
  <2>8. ask'.kind = "stages"
    BY <2>7
  <2> QED BY <2>4, <2>7, <2>8 DEF NearestInv
<1>6. CASE ask.kind \notin {"gain", "filter", "stages"}
  BY <1>2, <1>6 DEF NearestInv
<1> QED BY <1>1, <1>3, <1>4, <1>5, <1>6, OwnSteps

(* Gains and filters end as the nearest of their tables, and the registers   *)
(* of the IF stages keep what was last set.                                  *)
THEOREM NearestAlwaysSet == AskSpec => []NearestSet
<1>1. NearestInv => NearestSet
  <2> SUFFICES ASSUME NearestInv PROVE NearestSet
    OBVIOUS
  <2>1. ASSUME ask.kind = "gain"
        PROVE  NearestIn(Advertised(ask.tuner),
                         GainSet(ask.tuner, NearestGain(ask.tuner, ask.target)), ask.target)
    <3>1. PICK t, x : t = ask.tuner /\ x = ask.target
      OBVIOUS
    <3>2. t \in GainTuners /\ x \in Int
      BY <2>1, <3>1 DEF NearestInv
    <3>3. NearestIn(Advertised(t), NearestGain(t, x), x)
      BY <3>2, GainNearest
    <3>4. GainSet(t, NearestGain(t, x)) = NearestGain(t, x)
      BY <3>2, <3>3, GainKept DEF NearestIn
    <3> QED BY <3>1, <3>3, <3>4
  <2>2. ASSUME ask.kind = "filter"
        PROVE  /\ E4kBand(ask.freq) \in {"UHF", "L"} =>
                    NearestIn(RfFilterUhf \o RfFilterL, RfFilter(ask.freq), ask.freq)
               /\ \A f \in DOMAIN IfFilters :
                    NearestIn(IfFilters[f], IfFilterBwGet(FindIfBw(ask.bandwidth))[f],
                              ask.bandwidth)
    <3>1. PICK x, bw : x = ask.freq /\ bw = ask.bandwidth
      OBVIOUS
    <3>2. x \in Int /\ bw \in Int
      BY <2>2, <3>1 DEF NearestInv
    <3>3. E4kBand(x) \in {"UHF", "L"} =>
            NearestIn(RfFilterUhf \o RfFilterL, RfFilter(x), x)
      BY <3>2, RfFilterNearest
    <3>4. \A f \in DOMAIN IfFilters :
            NearestIn(IfFilters[f], IfFilterBwGet(FindIfBw(bw))[f], bw)
      BY <3>2, IfFilterNearest
    <3> QED BY <3>1, <3>3, <3>4
  <2>3. ASSUME ask.kind = "stages"
        PROVE  /\ \A s \in DOMAIN ask.asked : StageGain(ask.regs, s) = ask.asked[s]
               /\ \A r \in 1 .. 2 : ask.regs[r] \in 0 .. 255
    <3>1. PICK regs, gains : /\ ask = [kind |-> "stages", regs |-> regs, asked |-> gains]
                             /\ Kept(regs, gains)
      BY <2>3 DEF NearestInv
    <3>2. ask.regs = regs /\ ask.asked = gains
      BY <3>1
    <3>3. \A r \in 1 .. 2 : regs[r] \in 0 .. 255
      BY <3>1 DEF Kept
    <3> QED BY <3>1, <3>2, <3>3 DEF Kept
  <2> QED BY <2>1, <2>2, <2>3 DEF NearestSet
<1>2. NearestInv /\ OneKind /\ [AskNext]_ask => NearestInv'
  BY NearestKept
<1> QED BY <1>1, <1>2, NearestAtFirst, KindAlways, PTL DEF AskSpec

------------------------------------------------------------------------------
(* One bit more of what is multiplied.                                       *)
LEMMA OneBitMore ==
  ASSUME NEW a \in Nat, NEW c \in Nat, NEW h \in Nat, NEW q \in Nat, NEW r \in Nat,
         NEW u \in Nat, NEW v \in Nat, NEW w \in Nat, NEW x \in Nat, NEW t \in {0, 1},
         u * c + v = a, q * c + r = a * h, w * c + x = 2 * r + t * v
  PROVE  (2 * q + t * u + w) * c + x = a * (2 * h + t)
<1>1. CASE t = 0
  <2>1. t * v = 0 /\ t * u = 0
    BY <1>1
  <2>2. (2 * q + w) * c = 2 * (q * c) + w * c
    OBVIOUS
  <2>3. a * (2 * h + t) = 2 * (a * h)
    BY <1>1
  <2> QED BY <2>1, <2>2, <2>3
<1>2. CASE t = 1
  <2>1. t * v = v /\ t * u = u
    BY <1>2
  <2>2. (2 * q + u + w) * c = 2 * (q * c) + u * c + w * c
    OBVIOUS
  <2>3. a * (2 * h + t) = 2 * (a * h) + a
    BY <1>2
  <2> QED BY <2>1, <2>2, <2>3
<1> QED BY <1>1, <1>2

(* A product and its quotient by a third number, never longer than needed.   *)
Divided(d, x, c) ==
  \E q \in Nat, r \in 0 .. c - 1 : d = <<q, r>> /\ q * c + r = x

LEMMA MulDivides ==
  ASSUME NEW a \in Nat, NEW b \in Nat, NEW c \in Nat \ {0}
  PROVE  Divided(MulDiv(a, b, c), a * b, c)
<1> DEFINE A == Nat \X Nat
           Twice(h, k) == 2 * h[2] + (k % 2) * (a % c)
           Half(h, k) == <<2 * h[1] + (k % 2) * (a \div c) + Twice(h, k) \div c, Twice(h, k) % c>>
           m == [k \in Nat |-> k]
           e == [k \in Nat |-> k \div 2]
           G == [p \in A \X Nat |-> Half(p[1], p[2])]
           Reads(f) == f = [k \in Nat |-> IF k = 0 THEN <<0, 0>>
                               ELSE LET h   == f[k \div 2]
                                        sum == 2 * h[2] + (k % 2) * (a % c)
                                    IN  <<2 * h[1] + (k % 2) * (a \div c) + sum \div c, sum % c>>]
           f == CHOOSE f : Reads(f)
<1>1. ASSUME NEW h \in A, NEW k \in Nat PROVE Half(h, k) \in A
  <2>1. a % c \in Nat /\ a \div c \in Nat /\ h[1] \in Nat /\ h[2] \in Nat /\ k % 2 \in {0, 1}
    BY Division
  <2> DEFINE v == a % c
             u == a \div c
             t == k % 2
             s == Twice(h, k)
  <2>2. t * v \in Nat /\ t * u \in Nat
    <3> HIDE DEF u, v, t
    <3> QED BY <2>1 DEF u, v, t
  <2>3. s \in Nat
    BY <2>1, <2>2
  <2> HIDE DEF s
  <2>4. s \div c \in Nat /\ s % c \in Nat
    BY <2>3, Division
  <2>5. 2 * h[1] + t * u + s \div c \in Nat
    <3> HIDE DEF u, t
    <3> QED BY <2>1, <2>2, <2>4
  <2>6. <<2 * h[1] + t * u + s \div c, s % c>> \in A
    BY <2>4, <2>5
  <2> QED BY <2>6 DEF s
<1>2. Descends(Nat, A, m, e, <<0, 0>>, G)
  <2>1. m \in [Nat -> Nat] /\ e \in [Nat -> Nat] /\ <<0, 0>> \in A
    OBVIOUS
  <2>2. \A k \in Nat : m[k] # 0 => m[e[k]] < m[k]
    OBVIOUS
  <2>3. G \in [A \X Nat -> A]
    <3>1. \A p \in A \X Nat : p[1] \in A /\ p[2] \in Nat
      OBVIOUS
    <3> HIDE DEF A, Half
    <3> QED BY <1>1, <3>1
  <2> HIDE DEF m, e, G, A
  <2> QED BY <2>1, <2>2, <2>3 DEF Descends
<1>3. PICK g : Solves(g, Nat, A, m, e, <<0, 0>>, G)
  <2> HIDE DEF m, e, G, A
  <2> QED BY <1>2, Recursion
<1>4. Reads(g)
  <2>1. g \in [Nat -> A]
    BY <1>3 DEF Solves
  <2>2. ASSUME NEW k \in Nat
        PROVE  g[k] = IF k = 0 THEN <<0, 0>> ELSE Half(g[k \div 2], k)
    <3>1. g[k] = IF m[k] = 0 THEN <<0, 0>> ELSE G[g[e[k]], k]
      BY <1>3 DEF Solves
    <3>2. m[k] = k /\ e[k] = k \div 2 /\ k \div 2 \in Nat
      OBVIOUS
    <3>3. g[k \div 2] \in A
      BY <2>1, <3>2
    <3> DEFINE h == g[k \div 2]
    <3>4. G[h, k] = Half(h, k)
      <4> HIDE DEF h, Half, A
      <4> QED BY <3>3 DEF h
    <3> HIDE DEF m, e, G, Half
    <3> QED BY <3>1, <3>2, <3>4
  <2>3. g = [k \in Nat |-> g[k]]
    BY <2>1
  <2>4. g = [k \in Nat |-> IF k = 0 THEN <<0, 0>> ELSE Half(g[k \div 2], k)]
    <3> HIDE DEF Half
    <3> QED BY <2>2, <2>3
  <2> QED BY <2>4
<1>5. MulDiv(a, b, c) = f[b]
  BY DEF MulDiv
<1>6. Reads(f)
  <2> HIDE DEF Reads
  <2> QED BY <1>4
<1>7. \A k \in Nat : f[k] = IF k = 0 THEN <<0, 0>> ELSE Half(f[k \div 2], k)
  <2> HIDE DEF f
  <2> QED BY <1>6
<1> HIDE DEF f, Reads
<1> DEFINE Right(k) == Divided(f[k], a * k, c)
           T == {k \in Nat : ~Right(k)}
<1>8. SUFFICES ASSUME T # {} PROVE FALSE
  <2>1. Right(b)
    BY <1>8
  <2> HIDE DEF Right
  <2> QED BY <2>1, <1>5 DEF Right
<1>9. PICK k \in T : \A l \in T : k <= l
  BY <1>8, LeastNumber
<1>10. k \in Nat /\ ~Right(k)
  OBVIOUS
<1>11. k # 0
  <2> SUFFICES ASSUME k = 0 PROVE Right(k)
    BY <1>10
  <2>1. f[0] = <<0, 0>>
    <3> HIDE DEF Half
    <3> QED BY <1>7
  <2>2. 0 * c + 0 = a * 0 /\ 0 \in Nat /\ 0 \in 0 .. c - 1
    OBVIOUS
  <2> QED BY <2>1, <2>2 DEF Divided
<1>12. k \div 2 \in Nat /\ k \div 2 < k /\ k % 2 \in {0, 1} /\ k = 2 * (k \div 2) + (k % 2)
  BY <1>10, <1>11
<1>13. Right(k \div 2)
  <2>1. k \div 2 \notin T
    <3> DEFINE j == k \div 2
    <3>1. j \in Nat /\ j < k
      BY <1>12
    <3> HIDE DEF j, T
    <3>2. j \notin T
      BY <3>1, <1>9, <1>10
    <3> QED BY <3>2 DEF j
  <2> HIDE DEF Right
  <2> QED BY <1>12, <2>1
<1>14. PICK q \in Nat, r \in 0 .. c - 1 :
         f[k \div 2] = <<q, r>> /\ q * c + r = a * (k \div 2)
  BY <1>13 DEF Divided
<1> DEFINE h == k \div 2
           t == k % 2
           s == 2 * r + t * (a % c)
           p == 2 * q + t * (a \div c) + s \div c
<1>15. f[k] = <<p, s % c>>
  <2>1. f[k] = Half(f[k \div 2], k)
    <3> HIDE DEF Half
    <3> QED BY <1>7, <1>10, <1>11
  <2>2. Half(<<q, r>>, k) = <<p, s % c>>
    BY DEF h
  <2> HIDE DEF Half
  <2> QED BY <2>1, <2>2, <1>14
<1>16. h \in Nat /\ t \in {0, 1} /\ k = 2 * h + t /\ q * c + r = a * h
  BY <1>12, <1>14
<1> HIDE DEF T, h, t
<1> DEFINE u == a \div c
           v == a % c
<1>17. u \in Nat /\ v \in Nat /\ u * c + v = a
  BY Division
<1> HIDE DEF u, v
<1>18. t * u \in Nat /\ t * v \in Nat
  BY <1>16, <1>17
<1>19. s = 2 * r + t * v /\ p = 2 * q + t * u + s \div c
  BY DEF u, v
<1> HIDE DEF s, p
<1>21. s \in Nat
  BY <1>18, <1>19
<1> DEFINE w == s \div c
           x == s % c
<1>22. w \in Nat /\ x \in Nat /\ x < c /\ w * c + x = s
  BY <1>21, Division
<1>23. p = 2 * q + t * u + w /\ f[k] = <<p, x>>
  BY <1>15, <1>19
<1> HIDE DEF w, x
<1>24. p \in Nat /\ x \in 0 .. c - 1
  BY <1>18, <1>22, <1>23
<1>25. (2 * q + t * u + w) * c + x = a * (2 * h + t)
  BY <1>16, <1>17, <1>19, <1>22, OneBitMore
<1>26. p * c + x = a * k
  BY <1>16, <1>23, <1>25
<1>20. Right(k)
  BY <1>23, <1>24, <1>26 DEF Divided
<1> QED BY <1>10, <1>20

------------------------------------------------------------------------------
(* How far off an oscillator is, when its fraction is no less than nothing.  *)
LEMMA ErrorOf ==
  ASSUME NEW s, NEW freq \in Nat, s.mult \in Nat, s.n \in Int, s.frac \in Nat,
         s.den \in Nat \ {0}, s.ref \in Nat \ {0}
  PROVE  \E p \in Nat, r \in 0 .. s.den - 1 :
           /\ p * s.den + r = s.ref * s.frac
           /\ VcoError(s, freq) = s.n * s.ref + p - freq * s.mult
<1> DEFINE mult == s.mult  n == s.n  frac == s.frac  den == s.den  ref == s.ref
<1>1. /\ mult \in Nat /\ n \in Int /\ frac \in Nat /\ den \in Nat \ {0} /\ ref \in Nat \ {0}
      /\ ~ (frac < 0)
  OBVIOUS
<1>2. VcoError(s, freq) = (n - MulDiv(freq, mult, ref)[1]) * ref
                            + MulDiv(ref, frac, den)[1] - MulDiv(freq, mult, ref)[2]
  BY <1>1 DEF VcoError
<1>3. SUFFICES \E p \in Nat, r \in 0 .. den - 1 :
                 /\ p * den + r = ref * frac
                 /\ VcoError(s, freq) = n * ref + p - freq * mult
  OBVIOUS
<1> HIDE DEF mult, n, frac, den, ref
<1>4. Divided(MulDiv(freq, mult, ref), freq * mult, ref)
  BY <1>1, MulDivides
<1>5. PICK a \in Nat, b \in 0 .. ref - 1 :
        MulDiv(freq, mult, ref) = <<a, b>> /\ a * ref + b = freq * mult
  BY <1>4 DEF Divided
<1>6. Divided(MulDiv(ref, frac, den), ref * frac, den)
  BY <1>1, MulDivides
<1>7. PICK p \in Nat, r \in 0 .. den - 1 :
        MulDiv(ref, frac, den) = <<p, r>> /\ p * den + r = ref * frac
  BY <1>6 DEF Divided
<1>8. VcoError(s, freq) = (n - a) * ref + p - b
  BY <1>2, <1>5, <1>7
<1>9. (n - a) * ref = n * ref - a * ref
  BY <1>1
<1>10. VcoError(s, freq) = n * ref + p - freq * mult
  BY <1>1, <1>5, <1>8, <1>9
<1> QED BY <1>7, <1>10

Pll(mult, n, frac, den, ref) ==
  [mult |-> mult, n |-> n, frac |-> frac, den |-> den, ref |-> ref]

OffBy(mult, n, frac, den, ref, freq) ==
  \E p \in Nat, r \in Nat :
    /\ p * den + r = ref * frac /\ r < den
    /\ VcoError(Pll(mult, n, frac, den, ref), freq) = n * ref + p - freq * mult

LEMMA ErrorIs ==
  ASSUME NEW freq \in Nat, NEW mult \in Nat, NEW n \in Int, NEW frac \in Nat,
         NEW den \in Nat \ {0}, NEW ref \in Nat \ {0}
  PROVE  OffBy(mult, n, frac, den, ref, freq)
<1> DEFINE s == Pll(mult, n, frac, den, ref)
<1>1. s.mult = mult /\ s.n = n /\ s.frac = frac /\ s.den = den /\ s.ref = ref
  BY DEF Pll
<1> HIDE DEF s
<1>2. /\ s.mult \in Nat /\ s.n \in Int /\ s.frac \in Nat /\ s.den \in Nat \ {0}
      /\ s.ref \in Nat \ {0}
  BY <1>1
<1>3. \E p \in Nat, r \in 0 .. s.den - 1 :
        /\ p * s.den + r = s.ref * s.frac
        /\ VcoError(s, freq) = s.n * s.ref + p - freq * s.mult
  BY <1>2, ErrorOf
<1>4. PICK p \in Nat, r \in 0 .. den - 1 :
        p * den + r = ref * frac /\ VcoError(s, freq) = n * ref + p - freq * mult
  BY <1>1, <1>3, Zenon
<1>5. r \in Nat /\ r < den
  OBVIOUS
<1> QED BY <1>4, <1>5, Zenon DEF s, OffBy

(* The error of a divider that is cut into a whole part and a fraction.      *)
LEMMA FractionError ==
  ASSUME NEW x \in Nat, NEW c \in Nat, NEW n \in Nat, NEW frac \in Nat, NEW p \in Nat,
         NEW r \in Int, NEW e \in Int,
         (65536 * n + frac) * c = 65536 * x + e, p * 65536 + r = c * frac
  PROVE  65536 * (n * c + p - x) = e - r
<1>1. (65536 * n + frac) * c = 65536 * (n * c) + c * frac
  OBVIOUS
<1> QED BY <1>1

(* The divider of the R82xx: the only one that brings the VCO into its range.*)
R82Tunable(lo) == 27657000 <= lo /\ lo <= 1769999000

LEMMA R82Mix ==
  ASSUME NEW lo \in Nat, R82Tunable(lo), NEW khz, khz = (lo + 500) \div 1000
  PROVE  \E mix \in MixDivs :
           /\ {m \in MixDivs : FitsVco(khz, m)} = {mix}
           /\ 1769900000 <= lo * mix /\ lo * mix <= 3540100000
<1>1. khz \in Nat /\ 27657 <= khz /\ khz <= 1769999 /\ 1000 * khz <= lo + 500 /\ lo <= 1000 * khz + 499
  BY SMT DEF R82Tunable
<1>2. \A m \in MixDivs : FitsVco(khz, m) <=> 1770000 <= khz * m /\ khz * m <= 3539999
  BY <1>1, SMT DEF FitsVco, VcoMin, MixDivs
<1>3. CASE khz <= 55312
  <2>1. /\ ~FitsVco(khz, 2) /\ ~FitsVco(khz, 4) /\ ~FitsVco(khz, 8) /\ ~FitsVco(khz, 16)
        /\ ~FitsVco(khz, 32) /\ FitsVco(khz, 64)
    BY <1>1, <1>2, <1>3, SMT DEF MixDivs
  <2>2. {m \in MixDivs : FitsVco(khz, m)} = {64} /\ 64 \in MixDivs
    BY <2>1 DEF MixDivs
  <2>3. 1769900000 <= lo * 64 /\ lo * 64 <= 3540100000
    BY <1>1, <1>3, SMT
  <2> QED BY <2>2, <2>3
<1>4. CASE 55313 <= khz /\ khz <= 110624
  <2>1. /\ ~FitsVco(khz, 2) /\ ~FitsVco(khz, 4) /\ ~FitsVco(khz, 8) /\ ~FitsVco(khz, 16)
        /\ FitsVco(khz, 32) /\ ~FitsVco(khz, 64)
    BY <1>1, <1>2, <1>4, SMT DEF MixDivs
  <2>2. {m \in MixDivs : FitsVco(khz, m)} = {32} /\ 32 \in MixDivs
    BY <2>1 DEF MixDivs
  <2>3. 1769900000 <= lo * 32 /\ lo * 32 <= 3540100000
    BY <1>1, <1>4, SMT
  <2> QED BY <2>2, <2>3
<1>5. CASE 110625 <= khz /\ khz <= 221249
  <2>1. /\ ~FitsVco(khz, 2) /\ ~FitsVco(khz, 4) /\ ~FitsVco(khz, 8) /\ FitsVco(khz, 16)
        /\ ~FitsVco(khz, 32) /\ ~FitsVco(khz, 64)
    BY <1>1, <1>2, <1>5, SMT DEF MixDivs
  <2>2. {m \in MixDivs : FitsVco(khz, m)} = {16} /\ 16 \in MixDivs
    BY <2>1 DEF MixDivs
  <2>3. 1769900000 <= lo * 16 /\ lo * 16 <= 3540100000
    BY <1>1, <1>5, SMT
  <2> QED BY <2>2, <2>3
<1>6. CASE 221250 <= khz /\ khz <= 442499
  <2>1. /\ ~FitsVco(khz, 2) /\ ~FitsVco(khz, 4) /\ FitsVco(khz, 8) /\ ~FitsVco(khz, 16)
        /\ ~FitsVco(khz, 32) /\ ~FitsVco(khz, 64)
    BY <1>1, <1>2, <1>6, SMT DEF MixDivs
  <2>2. {m \in MixDivs : FitsVco(khz, m)} = {8} /\ 8 \in MixDivs
    BY <2>1 DEF MixDivs
  <2>3. 1769900000 <= lo * 8 /\ lo * 8 <= 3540100000
    BY <1>1, <1>6, SMT
  <2> QED BY <2>2, <2>3
<1>7. CASE 442500 <= khz /\ khz <= 884999
  <2>1. /\ ~FitsVco(khz, 2) /\ FitsVco(khz, 4) /\ ~FitsVco(khz, 8) /\ ~FitsVco(khz, 16)
        /\ ~FitsVco(khz, 32) /\ ~FitsVco(khz, 64)
    BY <1>1, <1>2, <1>7, SMT DEF MixDivs
  <2>2. {m \in MixDivs : FitsVco(khz, m)} = {4} /\ 4 \in MixDivs
    BY <2>1 DEF MixDivs
  <2>3. 1769900000 <= lo * 4 /\ lo * 4 <= 3540100000
    BY <1>1, <1>7, SMT
  <2> QED BY <2>2, <2>3
<1>8. CASE 885000 <= khz
  <2>1. /\ FitsVco(khz, 2) /\ ~FitsVco(khz, 4) /\ ~FitsVco(khz, 8) /\ ~FitsVco(khz, 16)
        /\ ~FitsVco(khz, 32) /\ ~FitsVco(khz, 64)
    BY <1>1, <1>2, <1>8, SMT DEF MixDivs
  <2>2. {m \in MixDivs : FitsVco(khz, m)} = {2} /\ 2 \in MixDivs
    BY <2>1 DEF MixDivs
  <2>3. 1769900000 <= lo * 2 /\ lo * 2 <= 3540100000
    BY <1>1, <1>8, SMT
  <2> QED BY <2>2, <2>3
<1> QED BY <1>1, <1>3, <1>4, <1>5, <1>6, <1>7, <1>8, SMT

(* The correction by vco_fine_tune is taken back when the divider is read.   *)
LEMMA R82Divider ==
  ASSUME NEW mix \in MixDivs, NEW sign \in {-1, 0, 1}
  PROVE  2 * 2 ^ ((((DivNum[mix] - sign) % 8) + sign) % 8) = mix
<1>1. /\ DivNum[2] = 0 /\ DivNum[4] = 1 /\ DivNum[8] = 2 /\ DivNum[16] = 3
      /\ DivNum[32] = 4 /\ DivNum[64] = 5
  BY DEF DivNum, MixDivs
<1>2. DivNum[mix] \in 0 .. 5
  BY <1>1 DEF MixDivs
<1>3. \A d \in 0 .. 5 : (((d - sign) % 8) + sign) % 8 = d
  OBVIOUS
<1>4. (((DivNum[mix] - sign) % 8) + sign) % 8 = DivNum[mix]
  BY <1>2, <1>3
<1>5. 2 * 2 ^ DivNum[mix] = mix
  <2>1. 2 ^ 0 = 1 /\ 2 ^ 1 = 2 /\ 2 ^ 2 = 4 /\ 2 ^ 3 = 8 /\ 2 ^ 4 = 16 /\ 2 ^ 5 = 32
    BY SMT
  <2>2. CASE mix = 2
    <3>1. DivNum[mix] = 0 /\ 2 * 2 ^ 0 = 2
      BY <1>1, <2>1, <2>2
    <3> QED BY <3>1, <2>2
  <2>3. CASE mix = 4
    <3>1. DivNum[mix] = 1 /\ 2 * 2 ^ 1 = 4
      BY <1>1, <2>1, <2>3
    <3> QED BY <3>1, <2>3
  <2>4. CASE mix = 8
    <3>1. DivNum[mix] = 2 /\ 2 * 2 ^ 2 = 8
      BY <1>1, <2>1, <2>4
    <3> QED BY <3>1, <2>4
  <2>5. CASE mix = 16
    <3>1. DivNum[mix] = 3 /\ 2 * 2 ^ 3 = 16
      BY <1>1, <2>1, <2>5
    <3> QED BY <3>1, <2>5
  <2>6. CASE mix = 32
    <3>1. DivNum[mix] = 4 /\ 2 * 2 ^ 4 = 32
      BY <1>1, <2>1, <2>6
    <3> QED BY <3>1, <2>6
  <2>7. CASE mix = 64
    <3>1. DivNum[mix] = 5 /\ 2 * 2 ^ 5 = 64
      BY <1>1, <2>1, <2>7
    <3> QED BY <3>1, <2>7
  <2> QED BY <2>2, <2>3, <2>4, <2>5, <2>6, <2>7 DEF MixDivs
<1> QED BY <1>4, <1>5

(* The whole part as the two fields of its register.                         *)
LEMMA R82Register ==
  ASSUME NEW n \in 13 .. 127, NEW ni, ni = (n - 13) \div 4,
         NEW reg, reg = (ni + 64 * (n - 4 * ni - 13)) % 256
  PROVE  13 + 4 * (reg % 64) + reg \div 64 = n
<1> DEFINE si == n - 4 * ni - 13
<1>1. ni \in 0 .. 28 /\ si \in 0 .. 3 /\ n = 13 + 4 * ni + si
  BY SMT
<1>2. reg = (ni + 64 * si) % 256
  OBVIOUS
<1> HIDE DEF si
<1>3. reg = ni + 64 * si
  BY <1>1, <1>2
<1>4. reg % 64 = ni /\ reg \div 64 = si
  BY <1>1, <1>3
<1> QED BY <1>1, <1>4

(* The divider that is rounded, and its bounds.                              *)
LEMMA R82Rounded ==
  ASSUME NEW ref \in Nat \ {0}, NEW x \in Nat, NEW d, Divided(d, x, 2 * ref)
  PROVE  \E div \in Nat, e \in Int :
           /\ div = d[1] + (d[2] + ref) \div (2 * ref)
           /\ div * (2 * ref) = x + e /\ -ref <= e /\ e <= ref
<1> DEFINE c == 2 * ref
<1>1. c \in Nat \ {0} /\ c = 2 * ref
  OBVIOUS
<1>2. PICK q \in Nat, r \in 0 .. c - 1 : d = <<q, r>> /\ q * c + r = x
  BY DEF Divided
<1> DEFINE w == (r + ref) \div c
           v == (r + ref) % c
<1>3. r + ref \in Nat
  BY <1>1, <1>2
<1>4. w \in Nat /\ v \in Nat /\ v < c /\ w * c + v = r + ref
  <2> HIDE DEF c
  <2> QED BY <1>1, <1>3, Division
<1> HIDE DEF w, v, c
<1>5. (q + w) * c = x + (ref - v)
  <2>1. (q + w) * c = q * c + w * c
    BY <1>1, <1>4
  <2> QED BY <1>1, <1>2, <1>4, <2>1
<1>6. ref - v \in Int /\ -ref <= ref - v /\ ref - v <= ref
  BY <1>1, <1>4
<1>7. q + w \in Nat /\ q + w = d[1] + (d[2] + ref) \div c
  BY <1>2, <1>4 DEF w
<1> QED BY <1>1, <1>5, <1>6, <1>7

LEMMA Monotone ==
  ASSUME NEW a \in Nat, NEW b \in Nat, NEW c \in Nat, a <= b
  PROVE  a * c <= b * c
OBVIOUS

LEMMA R82Bounds ==
  ASSUME NEW ref \in Nat, NEW pr \in {1, 2}, NEW x \in Nat, NEW div \in Nat, NEW e \in Int,
         pr = 2 => 28000000 <= ref /\ ref <= 30000000,
         pr = 1 => 15500000 <= ref /\ ref <= 16700000,
         1769900000 <= x, x <= 3540100000,
         div * (2 * ref) = 65536 * x + e, -ref <= e, e <= ref
  PROVE  div \div 65536 >= 13 /\ div \div 65536 <= 128 \div pr - 1
<1> DEFINE y == div * (2 * ref)
<1>1. y = 65536 * x + e
  OBVIOUS
<1>2. 851968 <= div
  <2>1. SUFFICES ASSUME div <= 851968 PROVE y <= 851968 * 60000000
    BY <1>1, SMT
  <2>2. y <= 851968 * (2 * ref)
    BY <2>1, Monotone
  <2> QED BY <2>2, SMT
<1>3. CASE pr = 2
  <2>1. div < 4194304
    <3>1. SUFFICES ASSUME 4194304 <= div PROVE 4194304 * 56000000 <= y
      BY <1>1, <1>3, SMT
    <3>2. 4194304 * (2 * ref) <= y
      BY <3>1, Monotone
    <3> QED BY <1>3, <3>2, SMT
  <2> QED BY <1>2, <1>3, <2>1, SMT
<1>4. CASE pr = 1
  <2>1. div < 8388608
    <3>1. SUFFICES ASSUME 8388608 <= div PROVE 8388608 * 31000000 <= y
      BY <1>1, <1>4, SMT
    <3>2. 8388608 * (2 * ref) <= y
      BY <3>1, Monotone
    <3> QED BY <1>4, <3>2, SMT
  <2> QED BY <1>2, <1>4, <2>1, SMT
<1> QED BY <1>3, <1>4

InTune(s, freq, resolution) ==
  s # NoSetting /\ VcoError(s, freq) \in -resolution .. resolution

R82Clock(ref, pr) ==
  /\ pr = 2 => 28000000 <= ref /\ ref <= 30000000
  /\ pr = 1 => 15500000 <= ref /\ ref <= 16700000

LEMMA R82InTune ==
  ASSUME NEW lo \in Nat, R82Tunable(lo), NEW ref \in Nat, NEW pr \in {1, 2}, NEW fine \in 0 .. 3,
         R82Clock(ref, pr)
  PROVE  InTune(R82Pll(lo, ref, pr, fine), lo, 800)
<1> DEFINE khz  == (lo + 500) \div 1000
           mixes == {m \in MixDivs : FitsVco(khz, m)}
           mix  == IF mixes = {} THEN 128 ELSE Min(mixes)
           num  == ((IF mixes = {} THEN 0 ELSE DivNum[mix]) - Sign(fine - pr)) % 8
           md   == MulDiv(lo, 65536 * mix, 2 * ref)
           div  == md[1] + (md[2] + ref) \div (2 * ref)
           nint == (div \div 65536) % 256
           ni   == IF nint < 13 THEN -((13 - nint) \div 4) ELSE (nint - 13) \div 4
           reg4 == (ni + 64 * (nint - 4 * ni - 13)) % 256
           mult == 2 * 2 ^ ((num + Sign(fine - pr)) % 8)
           n    == 13 + 4 * (reg4 % 64) + reg4 \div 64
           frac == div % 65536
           s    == [mult |-> mult, n |-> n, frac |-> frac, den |-> 65536, ref |-> 2 * ref]
<1>1. R82Pll(lo, ref, pr, fine) = IF nint > 128 \div pr - 1 THEN NoSetting ELSE s
  BY SMT DEF R82Pll
<1>2. PICK m \in MixDivs : mixes = {m} /\ 1769900000 <= lo * m /\ lo * m <= 3540100000
  BY R82Mix, SMT
<1>3. mix = m
  <2>1. Min({m}) = m
    BY SMT DEF Min
  <2> HIDE DEF mixes
  <2> QED BY <1>2, <2>1, SMT
<1>4. m \in Nat \ {0}
  BY SMT DEF MixDivs
<1>5. num = (DivNum[m] - Sign(fine - pr)) % 8
  <2> HIDE DEF mix, mixes
  <2> QED BY <1>2, <1>3, SMT
<1>6. mult = m
  <2> DEFINE sign == Sign(fine - pr)
  <2>1. sign \in {-1, 0, 1}
    BY SMT DEF Sign
  <2> HIDE DEF sign
  <2>2. 2 * 2 ^ ((((DivNum[m] - sign) % 8) + sign) % 8) = m
    BY <2>1, R82Divider, SMT
  <2> HIDE DEF num
  <2> QED BY <1>5, <2>2, SMT DEF sign
<1> DEFINE x == lo * m
<1>7. x \in Nat /\ 1769900000 <= x /\ x <= 3540100000 /\ lo * (65536 * m) = 65536 * x
  BY <1>2, <1>4, SMT
<1>8. ref \in Nat \ {0} 
  BY SMT DEF R82Clock
<1>24. ref <= 30000000
  BY SMT DEF R82Clock
<1> HIDE DEF x, mix, mult
<1>9. Divided(md, 65536 * x, 2 * ref)
  <2>1. 65536 * m \in Nat /\ 2 * ref \in Nat \ {0}
    BY <1>4, <1>8, SMT
  <2>2. Divided(MulDiv(lo, 65536 * m, 2 * ref), lo * (65536 * m), 2 * ref)
    BY <2>1, MulDivides, SMT
  <2> QED BY <1>3, <1>7, <2>2, SMT
<1> HIDE DEF md
<1>10. PICK e \in Int : div \in Nat /\ div * (2 * ref) = 65536 * x + e /\ -ref <= e /\ e <= ref
  <2> DEFINE y == 65536 * x
  <2>1. y \in Nat
    BY <1>7, SMT
  <2>4. Divided(md, y, 2 * ref)
    BY <1>9, SMT
  <2> HIDE DEF y
  <2>2. PICK d \in Nat, e \in Int :
          /\ d = md[1] + (md[2] + ref) \div (2 * ref)
          /\ d * (2 * ref) = y + e /\ -ref <= e /\ e <= ref
    BY <1>8, <2>1, <2>4, R82Rounded, Zenon
  <2>3. d = div
    BY <2>2, SMT
  <2> HIDE DEF div
  <2> QED BY <2>2, <2>3, SMT DEF y
<1> HIDE DEF div
<1>11. div \div 65536 >= 13 /\ div \div 65536 <= 128 \div pr - 1
  BY <1>7, <1>10, R82Bounds, SMT DEF R82Clock
<1>12. nint = div \div 65536 /\ nint \in 13 .. 127 /\ frac \in Nat /\ div = 65536 * nint + frac
  BY <1>10, <1>11, SMT
<1> HIDE DEF nint, frac
<1>13. n = nint
  <2>1. ni = (nint - 13) \div 4
    BY <1>12, SMT
  <2> HIDE DEF ni
  <2> HIDE DEF reg4
  <2>2. reg4 = (ni + 64 * (nint - 4 * ni - 13)) % 256
    BY SMT DEF reg4
  <2> QED BY <1>12, <2>1, <2>2, R82Register, SMT
<1> HIDE DEF n
<1>14. R82Pll(lo, ref, pr, fine) = s /\ s # NoSetting
  <2>1. ~ (nint > 128 \div pr - 1)
    BY <1>11, <1>12, SMT
  <2>2. s # NoSetting
    <3>1. "n" \in DOMAIN s /\ ~ ("n" \in DOMAIN NoSetting)
      BY SMT DEF NoSetting
    <3> HIDE DEF s
    <3> QED BY <3>1, SMT
  <2> HIDE DEF s
  <2> QED BY <1>1, <2>1, <2>2, SMT
<1> DEFINE den == 65536
           c == 2 * ref
<1>19. /\ nint \in Int /\ frac \in Nat /\ den \in Nat \ {0} /\ c \in Nat \ {0} /\ m \in Nat
       /\ s = Pll(m, nint, frac, den, c)
  BY <1>4, <1>6, <1>8, <1>12, <1>13, SMT DEF Pll
<1> HIDE DEF s, den, c
<1>20. PICK p \in Nat, r \in Nat :
         /\ p * den + r = c * frac /\ r < den
         /\ VcoError(Pll(m, nint, frac, den, c), lo) = nint * c + p - lo * m
  <2>1. OffBy(m, nint, frac, den, c, lo)
    BY <1>19, ErrorIs, Zenon
  <2> QED BY <2>1, Zenon DEF OffBy
<1>26. VcoError(s, lo) = nint * c + p - lo * m
  BY <1>19, <1>20, Zenon
<1>21. r \in Int /\ 0 <= r /\ r <= 65535
  BY <1>20, SMT DEF den
<1>22. p * 65536 + r = c * frac
  BY <1>20, SMT DEF den
<1>23. VcoError(s, lo) = nint * c + p - x
  BY <1>26, SMT DEF x
<1>25. c = 2 * ref
  BY SMT DEF c
<1>16. 65536 * (nint * c + p - x) = e - r
  <2>1. c \in Nat /\ (65536 * nint + frac) * c = 65536 * x + e /\ p * 65536 + r = c * frac
    BY <1>10, <1>12, <1>19, <1>22, <1>25, SMT
  <2>2. r \in Int /\ e \in Int /\ nint \in Nat /\ frac \in Nat /\ x \in Nat
    BY <1>7, <1>10, <1>12, <1>21, SMT
  <2> QED BY <2>1, <2>2, FractionError, SMT
<1> DEFINE off == nint * c + p - x
<1>17. off \in Int /\ 65536 * off = e - r /\ VcoError(s, lo) = off
  <2>1. nint * c \in Nat
    BY <1>12, <1>19, SMT
  <2> QED BY <2>1, <1>7, <1>23, <1>16, SMT
<1> HIDE DEF off
<1>18. off \in -800 .. 800
  <2>1. e - r <= 30000000 /\ -30065535 <= e - r /\ e - r \in Int
    BY <1>24, <1>10, <1>21, SMT
  <2> DEFINE g == e - r
  <2>2. g <= 30000000 /\ -30065535 <= g /\ g \in Int /\ 65536 * off = g
    BY <1>17, <2>1, SMT
  <2> HIDE DEF g
  <2> QED BY <1>17, <2>2, SMT
<1> QED BY <1>14, <1>17, <1>18, SMT DEF InTune

(* The multiplier of the E4000 comes from the first entry above.             *)
E4kTunable(flo) == 52000000 <= flo /\ flo <= 2147000000
E4kWithin(x) == x <= 4800000000

LEMMA E4kMultIs ==
  ASSUME NEW flo \in Nat, E4kTunable(flo)
  PROVE  E4kMult(flo) \in Nat \ {0} /\ E4kWithin(flo * E4kMult(flo))
<1> DEFINE above == {v \in PllVars : flo < v[1]}
           Lowest1(v) == \A w \in above : v[1] <= w[1]
           v == CHOOSE v \in above : Lowest1(v)
<1>1. \A w \in PllVars : /\ w[1] \in Nat /\ w[2] \in Nat \ {0}
                         /\ flo < w[1] => E4kWithin(flo * w[2])
  <2>1. SUFFICES ASSUME NEW w \in PllVars
                 PROVE  w[1] \in Nat /\ w[2] \in Nat \ {0} /\ (flo < w[1] => flo * w[2] <= 4800000000)
    BY SMT DEF E4kWithin
  <2>2. CASE w[2] = 48 /\ w[1] = 72400000
    BY <2>2, SMT
  <2>3. CASE w[2] = 40 /\ w[1] = 81200000
    BY <2>3, SMT
  <2>4. CASE w[2] = 32 /\ w[1] = 108300000
    BY <2>4, SMT
  <2>5. CASE w[2] = 24 /\ w[1] = 162500000
    BY <2>5, SMT
  <2>6. CASE w[2] = 16 /\ w[1] = 216600000
    BY <2>6, SMT
  <2>7. CASE w[2] = 12 /\ w[1] = 325000000
    BY <2>7, SMT
  <2>8. CASE w[2] = 8 /\ w[1] = 350000000
    BY <2>8, SMT
  <2>9. CASE w[2] = 8 /\ w[1] = 432000000
    BY <2>9, SMT
  <2>10. CASE w[2] = 6 /\ w[1] = 667000000
    BY <2>10, SMT
  <2>11. CASE w[2] = 4 /\ w[1] = 1200000000
    BY <2>11, SMT
  <2> QED BY <2>2, <2>3, <2>4, <2>5, <2>6, <2>7, <2>8, <2>9, <2>10, <2>11, SMT DEF PllVars
<1>2. E4kMult(flo) = IF above = {} THEN 2 ELSE v[2]
  BY SMT DEF E4kMult
<1>3. CASE above = {}
  <2>1. E4kMult(flo) = 2
    BY <1>2, <1>3, SMT
  <2> QED BY <2>1, SMT DEF E4kTunable, E4kWithin
<1>4. CASE above # {}
  <2> DEFINE T == {w[1] : w \in above}
  <2>6. \A w \in above : w[1] \in Nat
    BY <1>1, SMT
  <2> HIDE DEF above
  <2>1. T \in SUBSET Nat /\ T # {}
    BY <1>4, <2>6
  <2>2. PICK k \in T : \A l \in T : k <= l
    <3> HIDE DEF T
    <3> QED BY <2>1, LeastNumber
  <2>3. PICK w \in above : w[1] = k
    OBVIOUS
  <2>4. Lowest1(w)
    BY <2>2, <2>3, SMT
  <2> HIDE DEF Lowest1
  <2>5. v \in above
    BY <2>4, Zenon
  <2> HIDE DEF v
  <2>7. v \in PllVars /\ flo < v[1]
    BY <2>5 DEF above
  <2>8. E4kMult(flo) = v[2]
    BY <1>2, <1>4
  <2> QED BY <1>1, <2>7, <2>8
<1> QED BY <1>3, <1>4

LEMMA Quotients ==
  ASSUME NEW c \in Nat \ {0}, NEW x, NEW d, Divided(d, x, c)
  PROVE  /\ d[1] \in Nat /\ d[2] \in Nat /\ d[2] < c /\ d[1] * c + d[2] = x
         /\ d = <<d[1], d[2]>>
BY DEF Divided

LEMMA QuotientBelow ==
  ASSUME NEW c \in Nat \ {0}, NEW q \in Nat, NEW b \in Nat, q * c < b * c
  PROVE  q < b
<1> SUFFICES ASSUME b <= q PROVE FALSE
  OBVIOUS
<1> QED BY Monotone

E4kClock(fosc) == 28000000 <= fosc /\ fosc <= 30000000

LEMMA E4kInTune ==
  ASSUME NEW flo \in Nat, E4kTunable(flo), NEW fosc \in Nat, E4kClock(fosc)
  PROVE  InTune(E4kPll(flo, fosc), flo, 800)
<1> DEFINE m    == E4kMult(flo)
           md   == MulDiv(flo, m, fosc)
           me   == MulDiv(md[2], 65536, fosc)
           x    == flo * m
           n    == md[1] % 256
           frac == me[1] % 65536
           s    == [mult |-> m, n |-> n, frac |-> frac, den |-> 65536, ref |-> fosc]
<1>1. E4kPll(flo, fosc) = s
  BY SMT DEF E4kPll, E4kClock
<1>2. m \in Nat \ {0} /\ x \in Nat /\ x <= 4800000000
  BY E4kMultIs, SMT DEF E4kWithin
<1>3. fosc \in Nat \ {0}
  BY SMT DEF E4kClock
<1> HIDE DEF m
<1>4. Divided(md, x, fosc)
  BY <1>2, <1>3, MulDivides, SMT
<1>5. md[1] \in Nat /\ md[2] \in Nat /\ md[2] < fosc /\ md[1] * fosc + md[2] = x
  BY <1>3, <1>4, Quotients, Zenon
<1> HIDE DEF md, x
<1>6. Divided(me, md[2] * 65536, fosc)
  <2> DEFINE a == md[2]
             b == 65536
  <2>1. a \in Nat /\ b \in Nat
    BY <1>5, SMT
  <2> HIDE DEF a, b
  <2>2. Divided(MulDiv(a, b, fosc), a * b, fosc)
    BY <1>3, <2>1, MulDivides, Zenon
  <2> QED BY <2>2, SMT DEF a, b
<1>7. me[1] \in Nat /\ me[2] \in Nat /\ me[2] < fosc /\ me[1] * fosc + me[2] = md[2] * 65536
  <2> DEFINE y == md[2] * 65536
  <2>1. Divided(me, y, fosc)
    BY <1>6, SMT
  <2> HIDE DEF y, me
  <2>2. me[1] \in Nat /\ me[2] \in Nat /\ me[2] < fosc /\ me[1] * fosc + me[2] = y
    BY <1>3, <2>1, Quotients, Zenon
  <2> QED BY <2>2, SMT DEF y
<1> HIDE DEF me
<1>8. md[1] < 256
  <2>1. md[1] * fosc < 256 * fosc
    BY <1>2, <1>5, SMT DEF E4kClock
  <2> QED BY <1>3, <1>5, <2>1, QuotientBelow, SMT
<1>9. me[1] < 65536
  <2>1. me[1] * fosc < 65536 * fosc
    BY <1>3, <1>5, <1>7, SMT
  <2> QED BY <1>3, <1>7, <2>1, QuotientBelow, SMT
<1>10. n = md[1] /\ frac = me[1] /\ n \in Nat /\ frac \in Nat
  <2> DEFINE a == md[1]
             b == me[1]
  <2>1. a \in Nat /\ b \in Nat /\ a < 256 /\ b < 65536
    BY <1>5, <1>7, <1>8, <1>9, SMT
  <2> HIDE DEF a, b
  <2>2. a % 256 = a /\ b % 65536 = b
    BY <2>1, SMT
  <2> QED BY <2>1, <2>2, SMT DEF a, b
<1> HIDE DEF n, frac
<1> DEFINE den == 65536
<1>11. s = Pll(m, n, frac, den, fosc) /\ den \in Nat \ {0} /\ m \in Nat /\ n \in Int
  BY <1>2, <1>10, SMT DEF Pll
<1>12. s # NoSetting
  <2>1. "n" \in DOMAIN s /\ ~ ("n" \in DOMAIN NoSetting)
    BY SMT DEF NoSetting
  <2> HIDE DEF s
  <2> QED BY <2>1, SMT
<1> HIDE DEF s, den
<1>13. PICK p \in Nat, u \in Nat :
         /\ p * den + u = fosc * frac /\ u < den
         /\ VcoError(Pll(m, n, frac, den, fosc), flo) = n * fosc + p - flo * m
  <2>1. OffBy(m, n, frac, den, fosc, flo)
    BY <1>3, <1>10, <1>11, ErrorIs, Zenon
  <2> QED BY <2>1, Zenon DEF OffBy
<1>14. VcoError(s, flo) = n * fosc + p - flo * m
  BY <1>11, <1>13, Zenon
<1> DEFINE off == n * fosc + p - x
<1>15. VcoError(s, flo) = off
  BY <1>14, SMT DEF x
<1>16. u \in Nat /\ u <= 65535 /\ p * 65536 + u = fosc * frac
  BY <1>13, SMT DEF den
<1> DEFINE t == me[2]
           r == md[2]
<1>17. /\ n * fosc + r = x /\ frac * fosc + t = r * 65536
       /\ r \in Nat /\ t \in Nat /\ t < fosc
  BY <1>5, <1>7, <1>10, SMT
<1> HIDE DEF t, r
<1>18. 65536 * off = -t - u
  <2> DEFINE y == fosc * frac
             z == n * fosc
  <2>1. y \in Nat /\ z \in Nat
    BY <1>10, SMT
  <2>2. y + t = r * 65536 /\ p * 65536 + u = y /\ z + r = x /\ off = z + p - x
    BY <1>10, <1>16, <1>17, SMT
  <2> HIDE DEF y, z, off
  <2> QED BY <1>2, <1>16, <1>17, <2>1, <2>2, SMT
<1>19. off \in Int
  <2>1. n * fosc \in Nat
    BY <1>10, SMT
  <2> QED BY <1>2, <2>1, SMT
<1> HIDE DEF off
<1>20. t <= 30000000
  BY <1>17, SMT DEF E4kClock
<1>21. off \in -800 .. 800
  BY <1>16, <1>17, <1>18, <1>19, <1>20, SMT
<1> QED BY <1>1, <1>12, <1>15, <1>21, SMT DEF InTune

(* The multipliers of the FC001x bring the VCO where its dividers reach.     *)
FcWithin(x) == 1900000000 <= x /\ x <= 3794399999

LEMMA Fc0012MultIs ==
  ASSUME NEW freq \in Nat, 22000000 <= freq, freq <= 948000000
  PROVE  FcMult(freq, 2147483647) \in Nat \ {0} /\ FcWithin(freq * FcMult(freq, 2147483647))
<1> DEFINE m == FcMult(freq, 2147483647)
<1>1. CASE freq < 37084000
  <2>1. m = 96
    BY <1>1, SMT DEF FcMult
  <2> QED BY <1>1, <2>1, SMT DEF FcWithin
<1>2. CASE 37084000 <= freq /\ freq < 55625000
  <2>1. m = 64
    BY <1>2, SMT DEF FcMult
  <2> QED BY <1>2, <2>1, SMT DEF FcWithin
<1>3. CASE 55625000 <= freq /\ freq < 74167000
  <2>1. m = 48
    BY <1>3, SMT DEF FcMult
  <2> QED BY <1>3, <2>1, SMT DEF FcWithin
<1>4. CASE 74167000 <= freq /\ freq < 111250000
  <2>1. m = 32
    BY <1>4, SMT DEF FcMult
  <2> QED BY <1>4, <2>1, SMT DEF FcWithin
<1>5. CASE 111250000 <= freq /\ freq < 148334000
  <2>1. m = 24
    BY <1>5, SMT DEF FcMult
  <2> QED BY <1>5, <2>1, SMT DEF FcWithin
<1>6. CASE 148334000 <= freq /\ freq < 222500000
  <2>1. m = 16
    BY <1>6, SMT DEF FcMult
  <2> QED BY <1>6, <2>1, SMT DEF FcWithin
<1>7. CASE 222500000 <= freq /\ freq < 296667000
  <2>1. m = 12
    BY <1>7, SMT DEF FcMult
  <2> QED BY <1>7, <2>1, SMT DEF FcWithin
<1>8. CASE 296667000 <= freq /\ freq < 445000000
  <2>1. m = 8
    BY <1>8, SMT DEF FcMult
  <2> QED BY <1>8, <2>1, SMT DEF FcWithin
<1>9. CASE 445000000 <= freq /\ freq < 593334000
  <2>1. m = 6
    BY <1>9, SMT DEF FcMult
  <2> QED BY <1>9, <2>1, SMT DEF FcWithin
<1>10. CASE 593334000 <= freq
  <2>1. m = 4
    BY <1>10, SMT DEF FcMult
  <2> QED BY <1>10, <2>1, SMT DEF FcWithin
<1> QED BY <1>1, <1>2, <1>3, <1>4, <1>5, <1>6, <1>7, <1>8, <1>9, <1>10, SMT

(* Under the gap the two drivers agree.                                      *)
LEMMA Fc0013MultIs ==
  ASSUME NEW freq \in Nat, 22000000 <= freq, freq <= 1100000000,
         freq < 948600000 \/ 950000000 <= freq
  PROVE  FcMult(freq, 950000000) \in Nat \ {0} /\ FcWithin(freq * FcMult(freq, 950000000))
<1> DEFINE m == FcMult(freq, 950000000)
<1>1. CASE freq <= 948000000
  <2>1. FcMult(freq, 950000000) = FcMult(freq, 2147483647)
    BY <1>1, SMT DEF FcMult
  <2> QED BY <1>1, <2>1, Fc0012MultIs, SMT
<1>2. CASE 948000000 < freq /\ freq < 948600000
  <2>1. m = 4
    BY <1>2, SMT DEF FcMult
  <2> QED BY <1>2, <2>1, SMT DEF FcWithin
<1>3. CASE 950000000 <= freq
  <2>1. m = 2
    BY <1>3, SMT DEF FcMult
  <2> QED BY <1>3, <2>1, SMT DEF FcWithin
<1> QED BY <1>1, <1>2, <1>3, SMT

(* The divider as its two registers.                                         *)
LEMMA FcRegisters ==
  ASSUME NEW xdiv \in 131 .. 263,
         NEW low \in BOOLEAN, low <=> xdiv % 8 < 2,
         NEW am, am = (xdiv % 8) + IF low THEN 8 ELSE 0,
         NEW pm, pm = xdiv \div 8 - IF low THEN 1 ELSE 0,
         NEW reg1, reg1 = IF pm > 31 THEN am + 8 * (pm - 31) ELSE am,
         NEW reg2, reg2 = IF pm > 31 THEN 31 ELSE pm
  PROVE  ~ (reg1 > 15 \/ reg2 < 11) /\ 8 * reg2 + reg1 = xdiv
<1> DEFINE h == xdiv \div 8
           l == xdiv % 8
<1>1. h \in 16 .. 32 /\ l \in 0 .. 7 /\ xdiv = 8 * h + l
  BY SMT
<1>2. /\ low <=> l < 2
      /\ am = l + IF low THEN 8 ELSE 0
      /\ pm = h - IF low THEN 1 ELSE 0
  OBVIOUS
<1> HIDE DEF h, l
<1>3. CASE low
  <2>1. am = l + 8 /\ pm = h - 1 /\ l < 2
    BY <1>1, <1>2, <1>3
  <2> QED BY <1>1, <2>1
<1>4. CASE ~low
  <2>1. am = l /\ pm = h /\ l >= 2
    BY <1>1, <1>2, <1>4
  <2> QED BY <1>1, <2>1
<1> QED BY <1>3, <1>4

(* No VCO in that range exceeds 32 bits.                                     *)
FcVcoFits(freq, m) ==
  \E a \in 131 .. 263, b \in Nat :
    /\ FcVco(freq, m, 14400000) = <<a, b>> /\ MulDiv(freq, m, 14400000) = <<a, b>>
    /\ a = 263 => b < 7200000
    /\ b < 14400000

LEMMA FcVcoIs ==
  ASSUME NEW freq \in Nat, NEW m \in Nat \ {0}, FcWithin(freq * m)
  PROVE  FcVcoFits(freq, m)
<1> DEFINE half  == 14400000
           vco   == MulDiv(freq, m, half)
           two32 == MulDiv(1073741824, 4, half)
           x     == freq * m
           y     == 1073741824 * 4
<1>1. half \in Nat \ {0}
  BY SMT
<1>10. y \in Nat /\ x \in Nat
  BY SMT
<1>2. Divided(vco, x, half)
  <2> HIDE DEF half
  <2> QED BY <1>1, MulDivides, Zenon
<1>3. Divided(two32, y, half)
  <2> DEFINE a == 1073741824
             b == 4
  <2>1. a \in Nat /\ b \in Nat
    BY SMT
  <2> HIDE DEF a, b, half
  <2>2. Divided(MulDiv(a, b, half), a * b, half)
    BY <1>1, <2>1, MulDivides, Zenon
  <2> QED BY <2>2, SMT DEF a, b
<1> HIDE DEF x, y, vco, two32
<1> HIDE DEF half
<1> DEFINE a == vco[1]  b == vco[2]
           c == two32[1]  d == two32[2]
<1>4. a \in Nat /\ b \in Nat /\ b < half /\ a * half + b = x /\ vco = <<a, b>>
  BY <1>1, <1>2, Quotients, Zenon
<1>5. c \in Nat /\ d \in Nat /\ d < half /\ c * half + d = y
  BY <1>1, <1>3, Quotients, Zenon
<1>12. half = 14400000
  BY SMT DEF half
<1> HIDE DEF a, b, c, d
<1>6. a \in 131 .. 263 /\ (a = 263 => b < 7200000) /\ b < 14400000
  BY <1>4, <1>10, <1>12, SMT DEF x, FcWithin
<1>7. c = 298
  BY <1>5, <1>12, SMT DEF y
<1>8. ~ (a > c \/ (a = c /\ b >= d))
  BY <1>6, <1>7, SMT
<1>9. FcVco(freq, m, half) = vco
  BY <1>8, SMT DEF FcVco, vco, two32, a, b, c, d
<1> QED BY <1>4, <1>6, <1>9, <1>12, SMT DEF vco, FcVcoFits

(* The fraction has a sign, and the divider is rounded to its side.          *)
Fraction(v) == IF FcFraction(v, 14400000) >= 32768 THEN FcFraction(v, 14400000) - 65536
               ELSE FcFraction(v, 14400000)

FcSide(b, f, j, v, x) ==
  /\ x \in Nat /\ j \in Nat /\ j <= 999 /\ v \in Nat /\ v < 14400
  /\ 1000 * (14400 * x + v) = 32768 * (b - j)
  /\ \/ b < 7200000 /\ f = x /\ f >= 0
     \/ b >= 7200000 /\ f = x - 32768 /\ f < 0

LEMMA FcFractionIs ==
  ASSUME NEW a, NEW b \in Nat, b < 14400000
  PROVE  \E j, v, x : FcSide(b, Fraction(<<a, b>>), j, v, x)
<1> DEFINE k == b \div 1000  j == b % 1000
           x == (k * 32768) \div 14400  v == (k * 32768) % 14400
           f == Fraction(<<a, b>>)
<1>1. k \in Nat /\ j \in Nat /\ j <= 999 /\ b = 1000 * k + j /\ k < 14400
  BY SMT
<1>2. FcFraction(<<a, b>>, 14400000) = IF x >= 16384 THEN (x + 32768) % 65536 ELSE x
  <2>1. 14400000 \div 1000 = 14400
    BY SMT
  <2> QED BY <2>1, SMT DEF FcFraction
<1> HIDE DEF k, j
<1>3. x \in Nat /\ v \in Nat /\ v < 14400 /\ 14400 * x + v = 32768 * k
  BY <1>1, SMT
<1> HIDE DEF x, v
<1>4. x < 32768 /\ (x >= 16384 <=> k >= 7200)
  BY <1>1, <1>3, SMT
<1>5. k >= 7200 <=> b >= 7200000
  BY <1>1, SMT
<1>6. 1000 * (14400 * x + v) = 32768 * (b - j)
  BY <1>1, <1>3, SMT
<1>7. CASE x >= 16384
  <2>1. (x + 32768) % 65536 = x + 32768
    BY <1>3, <1>4, SMT
  <2>2. f = x - 32768
    BY <1>2, <1>3, <1>7, <2>1, SMT DEF Fraction
  <2> HIDE DEF f
  <2>3. FcSide(b, f, j, v, x)
    BY <1>1, <1>3, <1>4, <1>5, <1>6, <1>7, <2>2, SMT DEF FcSide
  <2> QED BY <2>3, SMT DEF f
<1>8. CASE ~ (x >= 16384)
  <2>2. f = x
    BY <1>2, <1>3, <1>8, <1>4, SMT DEF Fraction
  <2> HIDE DEF f
  <2>3. FcSide(b, f, j, v, x)
    BY <1>1, <1>3, <1>4, <1>5, <1>6, <1>8, <2>2, SMT DEF FcSide
  <2> QED BY <2>3, SMT DEF f
<1> QED BY <1>7, <1>8

LEMMA FcInTune ==
  ASSUME NEW freq \in Nat, NEW m \in Nat \ {0}, FcWithin(freq * m)
  PROVE  InTune(FcPll(freq, m, 14400000), freq, 1450)
<1> DEFINE half == 14400000
           vco  == FcVco(freq, m, half)
           xdiv == FcDivider(vco, half)
           low  == xdiv % 8 < 2
           am   == (xdiv % 8) + IF low THEN 8 ELSE 0
           pm   == xdiv \div 8 - IF low THEN 1 ELSE 0
           reg1 == IF pm > 31 THEN am + 8 * (pm - 31) ELSE am
           reg2 == IF pm > 31 THEN 31 ELSE pm
           xin  == FcFraction(vco, half)
           n    == 8 * reg2 + reg1
           frac == IF xin >= 32768 THEN xin - 65536 ELSE xin
           s    == [mult |-> m, n |-> n, den |-> 32768, ref |-> half, frac |-> frac]
<1>1. FcPll(freq, m, half) = IF reg1 > 15 \/ reg2 < 11 THEN NoSetting ELSE s
  BY SMT DEF FcPll
<1>2. PICK a \in 131 .. 263, b \in Nat :
        /\ vco = <<a, b>> /\ MulDiv(freq, m, half) = <<a, b>>
        /\ a = 263 => b < 7200000
        /\ b < 14400000
  <2>1. FcVcoFits(freq, m)
    BY FcVcoIs, Zenon
  <2> QED BY <2>1, SMT DEF FcVcoFits
<1>3. /\ xdiv = a + IF b >= 7200000 THEN 1 ELSE 0
      /\ frac = Fraction(<<a, b>>)
  <2>1. xdiv = a + IF b >= half \div 2 THEN 1 ELSE 0
    BY <1>2, SMT DEF FcDivider
  <2>2. half \div 2 = 7200000
    BY SMT
  <2>3. xin = FcFraction(<<a, b>>, 14400000)
    BY <1>2, SMT
  <2> HIDE DEF xdiv, xin, half
  <2> QED BY <2>1, <2>2, <2>3, SMT DEF Fraction
<1> HIDE DEF vco, xdiv, frac, xin
<1>4. xdiv \in 131 .. 263
  BY <1>2, <1>3, SMT
<1>5. ~ (reg1 > 15 \/ reg2 < 11) /\ n = xdiv
  <2>1. low \in BOOLEAN
    OBVIOUS
  <2> QED BY <1>4, <2>1, FcRegisters, SMT
<1> HIDE DEF n, reg1, reg2
<1>6. FcPll(freq, m, half) = s /\ s # NoSetting
  <2>2. s # NoSetting
    <3>1. "n" \in DOMAIN s /\ ~ ("n" \in DOMAIN NoSetting)
      BY SMT DEF NoSetting
    <3> HIDE DEF s
    <3> QED BY <3>1, SMT
  <2> HIDE DEF s
  <2> QED BY <1>1, <1>5, <2>2, SMT
<1>7. PICK j, v, x : FcSide(b, frac, j, v, x)
  BY <1>2, <1>3, FcFractionIs, SMT
<1> DEFINE size == IF frac < 0 THEN -frac ELSE frac
           part == MulDiv(half, size, 32768)
           p    == part[1]
           u    == part[2]
<1>8. frac \in Int /\ size \in Nat
  BY <1>7, SMT DEF FcSide
<1>9. p \in Nat /\ u \in Nat /\ u < 32768 /\ p * 32768 + u = 14400000 * size
  <2> DEFINE den == 32768
  <2>1. half \in Nat /\ den \in Nat \ {0}
    BY SMT
  <2> HIDE DEF half, den, size
  <2>2. Divided(MulDiv(half, size, den), half * size, den)
    BY <1>8, <2>1, MulDivides, Zenon
  <2>3. part = MulDiv(half, size, den)
    BY SMT DEF den
  <2> HIDE DEF part
  <2>4. /\ part[1] \in Nat /\ part[2] \in Nat /\ part[2] < den
        /\ part[1] * den + part[2] = half * size
    BY <2>1, <2>2, <2>3, Quotients, Zenon
  <2> QED BY <2>4, SMT DEF den, half
<1>10. VcoError(s, freq) = (n - a) * half + (IF frac < 0 THEN -p ELSE p) - b
  <2>1. s.mult = m /\ s.n = n /\ s.den = 32768 /\ s.ref = half /\ s.frac = frac
    BY SMT
  <2> HIDE DEF s, half
  <2> QED BY <1>2, <2>1, SMT DEF VcoError
<1> HIDE DEF s, p, u, part
<1>11. n - a = IF b >= 7200000 THEN 1 ELSE 0
  BY <1>2, <1>3, <1>5, SMT
<1> DEFINE off == VcoError(s, freq)
<1>12. ASSUME b < 7200000 PROVE off \in -1450 .. 1450
  <2>1. off = p - b /\ size = x /\ frac = x
    BY <1>7, <1>8, <1>9, <1>10, <1>11, <1>12, SMT DEF FcSide
  <2> HIDE DEF off, size
  <2>2. 32768 * (p - b) = -(1000 * v) - u - 32768 * j
    BY <1>7, <1>9, <2>1, SMT DEF FcSide
  <2> QED BY <1>7, <1>9, <2>1, <2>2, SMT DEF FcSide
<1>13. ASSUME b >= 7200000 PROVE off \in -1450 .. 1450
  <2>1. off = half - p - b /\ size = 32768 - x
    BY <1>7, <1>8, <1>9, <1>10, <1>11, <1>13, SMT DEF FcSide
  <2> HIDE DEF off, size
  <2>2. 32768 * (half - p - b) = u - 1000 * v - 32768 * j
    BY <1>7, <1>9, <2>1, SMT DEF FcSide
  <2> QED BY <1>7, <1>9, <2>1, <2>2, SMT DEF FcSide
<1> HIDE DEF off
<1>14. off \in -1450 .. 1450
  BY <1>2, <1>12, <1>13, SMT
<1> QED BY <1>6, <1>14, SMT DEF InTune, off

(* The divider of the FC2580: whole part, rest and rounded fraction.         *)
Fc2580Band(vco, comp) ==
  \/ comp = 16384 /\ 2400000 <= vco /\ vco <= 4800000
  \/ comp = 8192 /\ 1200000 <= vco /\ vco <= 2500000
  \/ comp = 4096 /\ 200000 <= vco /\ vco <= 1300000

Fc2580Near(vco, comp, n, rest, k) ==
  /\ n \in Nat /\ n <= 255 /\ rest \in Nat /\ rest < 2 * comp /\ vco = n * (2 * comp) + rest
  /\ k \in Nat /\ k <= 1048575
  /\ -16384 <= (2 * comp) * k - 1048576 * rest /\ (2 * comp) * k - 1048576 * rest <= 16384

LEMMA Fc2580Parts ==
  ASSUME NEW vco \in Nat, NEW comp, Fc2580Band(vco, comp),
         NEW n, n = (vco \div 2) \div comp,
         NEW diff, diff = (vco - 2 * comp * n) * 65536,
         NEW unit, unit = (2 * comp) \div 16,
         NEW k, k = diff \div unit + IF diff % unit >= comp \div 16 THEN 1 ELSE 0
  PROVE  Fc2580Near(vco, comp, n, vco - 2 * comp * n, k)
<1> DEFINE rest == vco - 2 * comp * n
<1>1. diff = rest * 65536
  OBVIOUS
<1>2. CASE comp = 16384 /\ 2400000 <= vco /\ vco <= 4800000
  <2>1. unit = 2048 /\ comp \div 16 = 1024
    BY <1>2, SMT
  <2>2. n = (vco \div 2) \div 16384 /\ rest = vco - 32768 * n
    BY <1>2, SMT
  <2> HIDE DEF rest
  <2>3. n \in Nat /\ n <= 255 /\ rest \in Nat /\ rest < 32768
    BY <1>2, <2>2, SMT
  <2>4. k = diff \div 2048 + IF diff % 2048 >= 1024 THEN 1 ELSE 0
    BY <1>2, <2>1, SMT
  <2>5. k \in Nat /\ -1024 <= 2048 * k - diff /\ 2048 * k - diff <= 1024
    BY <1>1, <2>3, <2>4, SMT
  <2>6. Fc2580Near(vco, comp, n, rest, k)
    BY <1>1, <1>2, <2>2, <2>3, <2>5, SMT DEF Fc2580Near
  <2> QED BY <2>6, SMT DEF rest
<1>3. CASE comp = 8192 /\ 1200000 <= vco /\ vco <= 2500000
  <2>1. unit = 1024 /\ comp \div 16 = 512
    BY <1>3, SMT
  <2>2. n = (vco \div 2) \div 8192 /\ rest = vco - 16384 * n
    BY <1>3, SMT
  <2> HIDE DEF rest
  <2>3. n \in Nat /\ n <= 255 /\ rest \in Nat /\ rest < 16384
    BY <1>3, <2>2, SMT
  <2>4. k = diff \div 1024 + IF diff % 1024 >= 512 THEN 1 ELSE 0
    BY <1>3, <2>1, SMT
  <2>5. k \in Nat /\ -512 <= 1024 * k - diff /\ 1024 * k - diff <= 512
    BY <1>1, <2>3, <2>4, SMT
  <2>6. Fc2580Near(vco, comp, n, rest, k)
    BY <1>1, <1>3, <2>2, <2>3, <2>5, SMT DEF Fc2580Near
  <2> QED BY <2>6, SMT DEF rest
<1>4. CASE comp = 4096 /\ 200000 <= vco /\ vco <= 1300000
  <2>1. unit = 512 /\ comp \div 16 = 256
    BY <1>4, SMT
  <2>2. n = (vco \div 2) \div 4096 /\ rest = vco - 8192 * n
    BY <1>4, SMT
  <2> HIDE DEF rest
  <2>3. n \in Nat /\ n <= 255 /\ rest \in Nat /\ rest < 8192
    BY <1>4, <2>2, SMT
  <2>4. k = diff \div 512 + IF diff % 512 >= 256 THEN 1 ELSE 0
    BY <1>4, <2>1, SMT
  <2>5. k \in Nat /\ -256 <= 512 * k - diff /\ 512 * k - diff <= 256
    BY <1>1, <2>3, <2>4, SMT
  <2>6. Fc2580Near(vco, comp, n, rest, k)
    BY <1>1, <1>4, <2>2, <2>3, <2>5, SMT DEF Fc2580Near
  <2> QED BY <2>6, SMT DEF rest
<1> QED BY <1>2, <1>3, <1>4, SMT DEF Fc2580Band

Fc2580Tunable(khz) == 22000 <= khz /\ khz <= 1700000

LEMMA Fc2580InTune ==
  ASSUME NEW khz \in Nat, Fc2580Tunable(khz)
  PROVE  InTune(Fc2580Pll(khz), khz, 1)
<1> DEFINE mult == IF khz > 1000000 THEN 2 ELSE IF khz > 400000 THEN 4 ELSE 12
           vco  == khz * mult
           div  == IF vco >= 2 * 76 * Fc2580Xtal THEN 1
                   ELSE IF vco >= 76 * Fc2580Xtal THEN 2 ELSE 4
           comp == Fc2580Xtal \div div
           n    == (vco \div 2) \div comp
           diff == (vco - 2 * comp * n) * 65536
           unit == (2 * comp) \div 16
           k    == diff \div unit + IF diff % unit >= comp \div 16 THEN 1 ELSE 0
           ref  == 2 * comp
           s    == [mult |-> mult, n |-> n % 256, frac |-> k % 1048576, den |-> 1048576,
                    ref |-> ref]
           rest == vco - 2 * comp * n
<1>1. Fc2580Pll(khz) = s
  BY SMT DEF Fc2580Pll
<1>2. mult \in Nat /\ vco \in Nat /\ 264000 <= vco /\ vco <= 4800000
  <2>1. CASE khz > 1000000
    <3>1. mult = 2
      BY <2>1, SMT
    <3> QED BY <2>1, <3>1, SMT DEF Fc2580Tunable
  <2>2. CASE ~ (khz > 1000000) /\ khz > 400000
    <3>1. mult = 4
      BY <2>2, SMT
    <3> QED BY <2>2, <3>1, SMT DEF Fc2580Tunable
  <2>3. CASE ~ (khz > 400000)
    <3>1. mult = 12
      BY <2>3, SMT
    <3> QED BY <2>3, <3>1, SMT DEF Fc2580Tunable
  <2> QED BY <2>1, <2>2, <2>3, SMT
<1>3. vco = khz * mult
  BY SMT
<1> HIDE DEF mult, vco
<1>4. Fc2580Band(vco, comp)
  <2>1. CASE vco >= 2490368
    <3>1. comp = 16384
      BY <2>1, SMT DEF Fc2580Xtal
    <3> QED BY <1>2, <2>1, <3>1, SMT DEF Fc2580Band
  <2>2. CASE ~ (vco >= 2490368) /\ vco >= 1245184
    <3>1. comp = 8192
      BY <2>2, SMT DEF Fc2580Xtal
    <3> QED BY <1>2, <2>2, <3>1, SMT DEF Fc2580Band
  <2>3. CASE ~ (vco >= 1245184)
    <3>1. comp = 4096
      BY <1>2, <2>3, SMT DEF Fc2580Xtal
    <3> QED BY <1>2, <2>3, <3>1, SMT DEF Fc2580Band
  <2> QED BY <1>2, <2>1, <2>2, <2>3, SMT
<1> HIDE DEF div, comp
<1>5. Fc2580Near(vco, comp, n, rest, k)
  <2> HIDE DEF n, diff, unit
  <2>1. n = (vco \div 2) \div comp /\ diff = (vco - 2 * comp * n) * 65536
    BY SMT DEF n, diff
  <2>2. unit = (2 * comp) \div 16
    BY SMT DEF unit
  <2> HIDE DEF k
  <2>3. k = diff \div unit + IF diff % unit >= comp \div 16 THEN 1 ELSE 0
    BY SMT DEF k
  <2> QED BY <1>2, <1>4, <2>1, <2>2, <2>3, Fc2580Parts, SMT
<1>6. ref \in Nat \ {0} /\ ref <= 32768 /\ ref = 2 * comp
  BY <1>4, SMT DEF Fc2580Band
<1> HIDE DEF ref, n, diff, unit, k, rest
<1>7. /\ n \in Nat /\ n <= 255 /\ rest \in Nat /\ rest < ref /\ vco = n * ref + rest
      /\ k \in Nat /\ k <= 1048575
      /\ -16384 <= ref * k - 1048576 * rest /\ ref * k - 1048576 * rest <= 16384
  BY <1>5, <1>6, SMT DEF Fc2580Near
<1> DEFINE den == 1048576
<1>8. n % 256 = n /\ k % 1048576 = k
  BY <1>7, SMT
<1>9. s = Pll(mult, n, k, den, ref) /\ den \in Nat \ {0} /\ n \in Int /\ k \in Nat
  BY <1>7, <1>8, SMT DEF Pll
<1>10. s # NoSetting
  <2>1. "n" \in DOMAIN s /\ ~ ("n" \in DOMAIN NoSetting)
    BY SMT DEF NoSetting
  <2> HIDE DEF s
  <2> QED BY <2>1, SMT
<1>20. den = 1048576
  BY SMT
<1> HIDE DEF s, den
<1>16. mult \in Nat
  BY <1>2, SMT
<1>17. ref \in Nat \ {0}
  BY <1>6, SMT
<1>11. PICK p \in Nat, u \in Nat :
         /\ p * den + u = ref * k /\ u < den
         /\ VcoError(Pll(mult, n, k, den, ref), khz) = n * ref + p - khz * mult
  <2>1. OffBy(mult, n, k, den, ref, khz)
    BY <1>9, <1>16, <1>17, ErrorIs, Zenon
  <2> QED BY <2>1, Zenon DEF OffBy
<1>12. VcoError(s, khz) = n * ref + p - khz * mult
  BY <1>9, <1>11, Zenon
<1> DEFINE off == p - rest
<1>13. VcoError(s, khz) = off
  <2> DEFINE y == n * ref
  <2>1. VcoError(s, khz) = y + p - vco
    BY <1>3, <1>12, Zenon
  <2>2. vco = y + rest /\ rest \in Nat
    BY <1>7
  <2>3. y \in Nat
    BY <1>7, <1>17
  <2> HIDE DEF y
  <2> QED BY <2>1, <2>2, <2>3, SMT
<1>18. u \in Int /\ 0 <= u /\ u <= 1048575
  BY <1>11, <1>20, SMT
<1>19. p * 1048576 + u = ref * k
  BY <1>11, <1>20, SMT
<1>14. u \in Nat /\ u <= 1048575 /\ p * 1048576 + u = ref * k
  BY <1>18, <1>19
<1>15. off \in -1 .. 1
  <2> DEFINE y == ref * k
  <2>1. y \in Int /\ -16384 <= y - 1048576 * rest /\ y - 1048576 * rest <= 16384
    BY <1>7, <1>17, SMT
  <2>2. p * 1048576 + u = y
    BY <1>14, SMT
  <2> HIDE DEF y
  <2> QED BY <1>7, <1>14, <2>1, <2>2, SMT
<1> HIDE DEF off
<1> QED BY <1>1, <1>10, <1>13, <1>15, SMT DEF InTune

(* The tunings that a behaviour goes through.                                *)
Tuning(t, x, f, freq) ==
  [kind |-> "tune", tuner |-> t, clock |-> x, fine |-> f, freq |-> freq]

TuningInv ==
  ask.kind = "tune" =>
    \E t \in Tunings, x \in Clocks \cup {Xtal}, f \in 0 .. 3, freq \in Nat :
      /\ ask = Tuning(t, x, f, freq)
      /\ Lowest(t) <= freq /\ freq <= Highest(t)
      /\ t \in {"FC0012", "FC0013", "FC2580"} => x = Xtal

LEMMA TuningAtFirst == AskInit => TuningInv
<1> SUFFICES ASSUME AskInit, ask.kind = "tune" PROVE TuningInv
  BY DEF TuningInv
<1>1. PICK t \in Tunings, x \in Clocks, f \in 0 .. 3 :
        /\ t \in {"FC0012", "FC0013", "FC2580"} => x = Xtal /\ f = 0
        /\ ask = [kind |-> "tune", tuner |-> t, clock |-> x, fine |-> f, freq |-> Lowest(t)]
  BY DEF AskInit
<1>2. Lowest(t) \in Nat /\ Lowest(t) <= Highest(t)
  BY SMT DEF Lowest, Highest, Tunings
<1>3. Lowest(t) <= Lowest(t)
  BY <1>2
<1>4. ask = Tuning(t, x, f, Lowest(t))
  BY <1>1 DEF Tuning
<1> QED BY <1>1, <1>2, <1>3, <1>4 DEF TuningInv

LEMMA TuningKept ==
  ASSUME TuningInv, OneKind, [AskNext]_ask
  PROVE  TuningInv'
<1>1. CASE UNCHANGED ask
  BY <1>1 DEF TuningInv
<1>2. ask'.kind = ask.kind
  BY KindKept
<1>3. CASE ask.kind = "tune" /\ NextFreq
  <2>1. PICK t \in Tunings, x \in Clocks \cup {Xtal}, f \in 0 .. 3, freq \in Nat :
          /\ ask = Tuning(t, x, f, freq)
          /\ Lowest(t) <= freq /\ freq <= Highest(t)
          /\ t \in {"FC0012", "FC0013", "FC2580"} => x = Xtal
    BY <1>3 DEF TuningInv
  <2>2. ask.freq = freq /\ ask.tuner = t
    BY <2>1 DEF Tuning
  <2> DEFINE next == freq + FreqStep
  <2>3. ask' = [ask EXCEPT !.freq = next] /\ next <= Highest(t)
    BY <1>3, <2>2 DEF NextFreq
  <2>4. next \in Nat /\ freq <= next
    BY StepsAssumption
  <2>5. Lowest(t) <= next
    <3>1. Lowest(t) \in Nat
      BY SMT DEF Lowest, Tunings
    <3> HIDE DEF next
    <3> QED BY <3>1, <2>1, <2>4
  <2> HIDE DEF next
  <2>6. ask' = Tuning(t, x, f, next)
    BY <2>1, <2>3 DEF Tuning
  <2> QED BY <2>1, <2>3, <2>4, <2>5, <2>6 DEF TuningInv
<1>4. CASE ask.kind # "tune"
  BY <1>2, <1>4 DEF TuningInv
<1> QED BY <1>1, <1>3, <1>4, OwnSteps

(* What each tuner is asked for is within reach of its PLL.                  *)
Reached(t, x, f, freq) ==
  /\ t = "R820T" => InTune(R82Pll(freq, x, 2, f), freq, 800)
  /\ t = "R828D" => InTune(R82Pll(freq, (x \div 9) * 5, 1, f), freq, 800)
  /\ t = "E4000" => InTune(E4kPll(freq, x), freq, 800)
  /\ t = "FC0012" => InTune(Fc0012Pll(freq, x), freq, 1450)
  /\ t = "FC0013" /\ ~Fc0013Gap(freq) => InTune(Fc0013Pll(freq, x), freq, 1450)
  /\ t = "FC2580" => InTune(Fc2580Pll((freq + 500) \div 1000), (freq + 500) \div 1000, 1)

LEMMA TunersInTune ==
  ASSUME NEW t \in Tunings, NEW x \in Clocks \cup {Xtal}, NEW f \in 0 .. 3, NEW freq \in Nat,
         Lowest(t) <= freq, freq <= Highest(t),
         t \in {"FC0012", "FC0013", "FC2580"} => x = Xtal
  PROVE  Reached(t, x, f, freq)
<1>1. x \in Nat /\ 28000000 <= x /\ x <= 30000000
  BY ClocksAssumption, SMT DEF Xtal
<1>2. ASSUME t = "R820T" PROVE InTune(R82Pll(freq, x, 2, f), freq, 800)
  <2>1. R82Tunable(freq)
    BY <1>2, SMT DEF Lowest, Highest, R82Tunable
  <2>2. R82Clock(x, 2)
    BY <1>1, SMT DEF R82Clock
  <2> QED BY <1>1, <2>1, <2>2, R82InTune, SMT
<1>3. ASSUME t = "R828D" PROVE InTune(R82Pll(freq, (x \div 9) * 5, 1, f), freq, 800)
  <2>1. R82Tunable(freq)
    BY <1>3, SMT DEF Lowest, Highest, R82Tunable
  <2> DEFINE y == (x \div 9) * 5
  <2>2. y \in Nat /\ R82Clock(y, 1)
    BY <1>1, SMT DEF R82Clock
  <2> HIDE DEF y
  <2>3. InTune(R82Pll(freq, y, 1, f), freq, 800)
    BY <2>1, <2>2, R82InTune, SMT
  <2> QED BY <2>3 DEF y
<1>4. ASSUME t = "E4000" PROVE InTune(E4kPll(freq, x), freq, 800)
  <2>1. E4kTunable(freq)
    BY <1>4, SMT DEF Lowest, Highest, E4kTunable
  <2>2. E4kClock(x)
    BY <1>1, SMT DEF E4kClock
  <2> QED BY <1>1, <2>1, <2>2, E4kInTune, SMT
<1>5. Xtal \div 2 = 14400000
  BY SMT DEF Xtal
<1>6. ASSUME t = "FC0012" PROVE InTune(Fc0012Pll(freq, x), freq, 1450)
  <2> DEFINE m == FcMult(freq, 2147483647)
  <2>1. m \in Nat \ {0} /\ FcWithin(freq * m)
    <3>1. 22000000 <= freq /\ freq <= 948000000
      BY <1>6, SMT DEF Lowest, Highest
    <3> QED BY <3>1, Fc0012MultIs, SMT
  <2>2. Fc0012Pll(freq, x) = FcPll(freq, m, 14400000)
    BY <1>5, <1>6, SMT DEF Fc0012Pll
  <2> HIDE DEF m
  <2>3. InTune(FcPll(freq, m, 14400000), freq, 1450)
    BY <2>1, FcInTune, SMT
  <2> QED BY <2>2, <2>3, SMT
<1>7. ASSUME t = "FC0013", ~Fc0013Gap(freq) PROVE InTune(Fc0013Pll(freq, x), freq, 1450)
  <2> DEFINE m == FcMult(freq, 950000000)
  <2>1. m \in Nat \ {0} /\ FcWithin(freq * m)
    <3>1. /\ 22000000 <= freq /\ freq <= 1100000000
          /\ freq < 948600000 \/ 950000000 <= freq
      BY <1>7, SMT DEF Lowest, Highest, Fc0013Gap
    <3> QED BY <3>1, Fc0013MultIs, SMT
  <2>2. Fc0013Pll(freq, x) = FcPll(freq, m, 14400000)
    BY <1>5, <1>7, SMT DEF Fc0013Pll
  <2> HIDE DEF m
  <2>3. InTune(FcPll(freq, m, 14400000), freq, 1450)
    BY <2>1, FcInTune, SMT
  <2> QED BY <2>2, <2>3, SMT
<1>8. ASSUME t = "FC2580"
      PROVE  InTune(Fc2580Pll((freq + 500) \div 1000), (freq + 500) \div 1000, 1)
  <2> DEFINE khz == (freq + 500) \div 1000
  <2>1. 22000000 <= freq /\ freq <= 1700000000
    BY <1>8, SMT DEF Lowest, Highest
  <2>2. khz \in Nat /\ Fc2580Tunable(khz)
    BY <2>1, SMT DEF Fc2580Tunable
  <2> HIDE DEF khz
  <2>3. InTune(Fc2580Pll(khz), khz, 1)
    BY <2>2, Fc2580InTune, SMT
  <2> QED BY <2>3 DEF khz
<1> QED BY <1>2, <1>3, <1>4, <1>6, <1>7, <1>8, SMT DEF Reached

(* Every frequency of a tuner's range, and every crystal, brings its VCO     *)
(* within the resolution of the fraction to where it is asked to be: no      *)
(* field of a register overflows, and no gap but the FC0013's is left        *)
(* between two dividers.                                                     *)
THEOREM OscillatorAlwaysTuned == AskSpec => []OscillatorTuned
<1>1. TuningInv => OscillatorTuned
  <2> SUFFICES ASSUME TuningInv, ask.kind = "tune",
                      ~(ask.tuner = "FC0013" /\ Fc0013Gap(ask.freq))
               PROVE  InTune(Setting, IF ask.tuner = "FC2580" THEN (ask.freq + 500) \div 1000
                                      ELSE ask.freq, Resolution)
    BY SMT DEF OscillatorTuned, InTune
  <2>1. PICK t \in Tunings, x \in Clocks \cup {Xtal}, f \in 0 .. 3, freq \in Nat :
          /\ ask = Tuning(t, x, f, freq)
          /\ Lowest(t) <= freq /\ freq <= Highest(t)
          /\ t \in {"FC0012", "FC0013", "FC2580"} => x = Xtal
    BY DEF TuningInv
  <2>2. ask.tuner = t /\ ask.clock = x /\ ask.fine = f /\ ask.freq = freq
    BY <2>1 DEF Tuning
  <2> DEFINE khz == (freq + 500) \div 1000
  <2>3. /\ t = "R820T" => InTune(R82Pll(freq, x, 2, f), freq, 800)
        /\ t = "R828D" => InTune(R82Pll(freq, (x \div 9) * 5, 1, f), freq, 800)
        /\ t = "E4000" => InTune(E4kPll(freq, x), freq, 800)
        /\ t = "FC0012" => InTune(Fc0012Pll(freq, x), freq, 1450)
        /\ t = "FC0013" => InTune(Fc0013Pll(freq, x), freq, 1450)
        /\ t = "FC2580" => InTune(Fc2580Pll(khz), khz, 1)
    <3>1. Reached(t, x, f, freq)
      BY <2>1, TunersInTune, Zenon
    <3>2. ~(t = "FC0013" /\ Fc0013Gap(freq))
      BY <2>2
    <3> HIDE DEF khz
    <3>3. khz = (freq + 500) \div 1000
      BY SMT DEF khz
    <3> QED BY <3>1, <3>2, <3>3, SMT DEF Reached
  <2> DEFINE asked1 == IF t = "FC2580" THEN khz ELSE freq
  <2>4. SUFFICES InTune(Setting, asked1, Resolution)
    BY <2>2, SMT
  <2>5. CASE t = "R820T"
    <3>1. Setting = R82Pll(freq, x, 2, f) /\ Resolution = 800 /\ asked1 = freq
      BY <2>2, <2>5, SMT DEF Setting, Resolution
    <3> QED BY <2>3, <2>5, <3>1, SMT
  <2>6. CASE t = "R828D"
    <3>1. Setting = R82Pll(freq, (x \div 9) * 5, 1, f) /\ Resolution = 800 /\ asked1 = freq
      BY <2>2, <2>6, SMT DEF Setting, Resolution
    <3> QED BY <2>3, <2>6, <3>1, SMT
  <2>7. CASE t = "E4000"
    <3>1. Setting = E4kPll(freq, x) /\ Resolution = 800 /\ asked1 = freq
      BY <2>2, <2>7, SMT DEF Setting, Resolution
    <3> QED BY <2>3, <2>7, <3>1, SMT
  <2>8. CASE t = "FC0012"
    <3>1. Setting = Fc0012Pll(freq, x) /\ Resolution = 1450 /\ asked1 = freq
      BY <2>2, <2>8, SMT DEF Setting, Resolution
    <3> QED BY <2>3, <2>8, <3>1, SMT
  <2>9. CASE t = "FC0013"
    <3>1. Setting = Fc0013Pll(freq, x) /\ Resolution = 1450 /\ asked1 = freq
      BY <2>2, <2>9, SMT DEF Setting, Resolution
    <3> QED BY <2>3, <2>9, <3>1, SMT
  <2>10. CASE t = "FC2580"
    <3>1. Setting = Fc2580Pll(khz) /\ Resolution = 1 /\ asked1 = khz
      BY <2>2, <2>10, SMT DEF Setting, Resolution
    <3> QED BY <2>3, <2>10, <3>1, SMT
  <2> QED BY <2>5, <2>6, <2>7, <2>8, <2>9, <2>10 DEF Tunings
<1>2. TuningInv /\ OneKind /\ [AskNext]_ask => TuningInv'
  BY TuningKept
<1> QED BY <1>1, <1>2, TuningAtFirst, KindAlways, PTL DEF AskSpec

------------------------------------------------------------------------------
(* A filter is a machine: M[<<c, x>>] is what it keeps after a sample x and  *)
(* what it has written, if anything.                                         *)
Machine(M, C, X, Y) == \A c \in C, x \in X : M[<<c, x>>] \in C \X Seq(Y)

(* What it keeps and has written so far, along the samples s.                *)
Emits(f, M, c, s) ==
  /\ DOMAIN f = 0 .. Len(s) /\ f[0] = <<c, <<>>>>
  /\ \A k \in 1 .. Len(s) :
       f[k] = <<M[<<f[k - 1][1], s[k]>>][1], f[k - 1][2] \o M[<<f[k - 1][1], s[k]>>][2]>>

Ends(M, c, s) == (CHOOSE f : Emits(f, M, c, s))[Len(s)]
State(M, c, s) == Ends(M, c, s)[1]
Emitted(M, c, s) == Ends(M, c, s)[2]

LEMMA EmitsTyped ==
  ASSUME NEW M, NEW C, NEW X, NEW Y, Machine(M, C, X, Y),
         NEW c \in C, NEW s \in Seq(X), NEW f, Emits(f, M, c, s)
  PROVE  \A k \in 0 .. Len(s) : f[k] \in C \X Seq(Y)
<1> DEFINE n == Len(s)
           S == {k \in Nat : k <= n => f[k] \in C \X Seq(Y)}
<1>1. n \in Nat /\ \A k \in 1 .. n : s[k] \in X
  OBVIOUS
<1>2. 0 \in S
  BY DEF Emits
<1>3. ASSUME NEW k \in Nat, k \in S PROVE k + 1 \in S
  <2>1. SUFFICES ASSUME k + 1 <= n PROVE f[k + 1] \in C \X Seq(Y)
    OBVIOUS
  <2>2. k + 1 \in 1 .. n /\ (k + 1) - 1 = k /\ f[k] \in C \X Seq(Y)
    BY <1>1, <1>3, <2>1
  <2> DEFINE r == M[<<f[k][1], s[k + 1]>>]
  <2>3. r \in C \X Seq(Y)
    BY <1>1, <2>2 DEF Machine
  <2>4. f[k + 1] = <<r[1], f[k][2] \o r[2]>>
    BY <2>2 DEF Emits
  <2> HIDE DEF r
  <2> DEFINE q == f[k][2] \o r[2]
  <2>5. q \in Seq(Y)
    BY <2>2, <2>3, ConcatProperties
  <2> HIDE DEF q
  <2>6. r[1] \in C
    BY <2>3
  <2>7. f[k + 1] = <<r[1], q>>
    BY <2>4 DEF q
  <2> QED BY <2>5, <2>6, <2>7
<1>4. Nat \subseteq S
  <2> HIDE DEF S
  <2> QED BY <1>2, <1>3, Induction
<1> QED BY <1>1, <1>4

LEMMA EmitsExists ==
  ASSUME NEW M, NEW C, NEW X, NEW Y, Machine(M, C, X, Y), NEW c \in C, NEW s \in Seq(X)
  PROVE  \E f : Emits(f, M, c, s)
<1> DEFINE n == Len(s)
           D == 0 .. n
           A == C \X Seq(Y)
           m == [d \in D |-> d]
           e == [d \in D |-> IF d = 0 THEN 0 ELSE d - 1]
           z == <<c, <<>>>>
           G == [p \in A \X D |->
                   IF p[2] = 0 THEN p[1]
                   ELSE <<M[<<p[1][1], s[p[2]]>>][1], p[1][2] \o M[<<p[1][1], s[p[2]]>>][2]>>]
<1>1. n \in Nat /\ \A k \in 1 .. n : s[k] \in X
  OBVIOUS
<1>2. ASSUME NEW a \in A, NEW k \in 1 .. n
      PROVE  <<M[<<a[1], s[k]>>][1], a[2] \o M[<<a[1], s[k]>>][2]>> \in A
  <2> DEFINE r == M[<<a[1], s[k]>>]
  <2>1. r \in C \X Seq(Y)
    BY <1>1, <1>2 DEF Machine
  <2> HIDE DEF r
  <2> DEFINE q == a[2] \o r[2]
  <2>2. q \in Seq(Y) /\ r[1] \in C
    BY <2>1, ConcatProperties
  <2> HIDE DEF q
  <2>3. <<r[1], q>> \in A
    BY <2>2
  <2> QED BY <2>3 DEF r, q
<1>3. G \in [A \X D -> A]
  <2> HIDE DEF A
  <2> SUFFICES ASSUME NEW a \in A, NEW d \in D PROVE G[<<a, d>>] \in A
    OBVIOUS
  <2>1. CASE d = 0
    <3>1. G[<<a, d>>] = a
      BY <2>1
    <3> QED BY <3>1
  <2>2. CASE d # 0
    <3>1. d \in 1 .. n
      BY <2>2, <1>1
    <3>2. G[<<a, d>>] = <<M[<<a[1], s[d]>>][1], a[2] \o M[<<a[1], s[d]>>][2]>>
      BY <2>2
    <3> HIDE DEF G
    <3> QED BY <3>1, <3>2, <1>2
  <2> QED BY <2>1, <2>2
<1>4. Descends(D, A, m, e, z, G)
  <2>1. m \in [D -> Nat] /\ e \in [D -> D]
    BY <1>1
  <2>3. z \in A
    <3> DEFINE nil == <<>>
    <3>1. nil \in Seq(Y)
      OBVIOUS
    <3> HIDE DEF nil
    <3>2. <<c, nil>> \in A
      BY <3>1
    <3> QED BY <3>2 DEF nil
  <2>2. \A d \in D : m[d] # 0 => m[e[d]] < m[d]
    BY <1>1
  <2> HIDE DEF D, A, m, e, z, G
  <2> QED BY <1>3, <2>1, <2>2, <2>3 DEF Descends
<1>5. PICK f : Solves(f, D, A, m, e, z, G)
  <2> HIDE DEF D, A, m, e, z, G
  <2> QED BY <1>4, Recursion
<1>6. DOMAIN f = 0 .. n /\ f[0] = z
  <2>1. 0 \in D /\ m[0] = 0
    BY <1>1
  <2>2. f \in [D -> A] /\ f[0] = z
    <3> HIDE DEF D, A, m, e, z, G
    <3> QED BY <1>5, <2>1 DEF Solves
  <2> HIDE DEF A, z
  <2> QED BY <2>2
<1>7. ASSUME NEW k \in 1 .. n
      PROVE  f[k] = <<M[<<f[k - 1][1], s[k]>>][1], f[k - 1][2] \o M[<<f[k - 1][1], s[k]>>][2]>>
  <2>0. k \in D /\ k # 0 /\ k - 1 \in D
    BY <1>1
  <2>1. k \in D /\ k # 0 /\ k - 1 \in D /\ f[k - 1] \in A
    <3> HIDE DEF D, A, m, e, z, G
    <3> QED BY <1>5, <2>0 DEF Solves
  <2>2. m[k] # 0 /\ e[k] = k - 1
    BY <2>1
  <2>3. f[k] = G[<<f[k - 1], k>>]
    <3> HIDE DEF D, A, m, e, z, G
    <3> QED BY <1>5, <2>1, <2>2 DEF Solves
  <2> HIDE DEF A, D
  <2> QED BY <2>1, <2>3
<1> QED BY <1>6, <1>7 DEF Emits

Ended(M, c, s) ==
  \E f : Emits(f, M, c, s) /\ f[Len(s)] = <<State(M, c, s), Emitted(M, c, s)>>

LEMMA EndsAre ==
  ASSUME NEW M, NEW C, NEW X, NEW Y, Machine(M, C, X, Y), NEW c \in C, NEW s \in Seq(X)
  PROVE  /\ Ends(M, c, s) \in C \X Seq(Y)
         /\ Ended(M, c, s)
<1>1. Emits(CHOOSE f : Emits(f, M, c, s), M, c, s)
  BY EmitsExists
<1>2. PICK f : Emits(f, M, c, s) /\ f[Len(s)] = Ends(M, c, s)
  BY <1>1 DEF Ends
<1>3. f[Len(s)] \in C \X Seq(Y)
  <2>1. Len(s) \in 0 .. Len(s)
    OBVIOUS
  <2> QED BY <1>2, <2>1, EmitsTyped
<1> QED BY <1>2, <1>3 DEF State, Emitted, Ended

(* Two blocks are the one that joins them.                                   *)
LEMMA EndsJoin ==
  ASSUME NEW M, NEW C, NEW X, NEW Y, Machine(M, C, X, Y), NEW c \in C,
         NEW s \in Seq(X), NEW t \in Seq(X)
  PROVE  /\ State(M, c, s \o t) = State(M, State(M, c, s), t)
         /\ Emitted(M, c, s \o t)
              = Emitted(M, c, s) \o Emitted(M, State(M, c, s), t)
<1> DEFINE n == Len(s)
           l == Len(t)
           b == State(M, c, s)
           o == Emitted(M, c, s)
<1>1. /\ n \in Nat /\ l \in Nat /\ s \o t \in Seq(X) /\ Len(s \o t) = n + l
      /\ \A k \in 1 .. n : (s \o t)[k] = s[k]
      /\ \A k \in 1 .. l : (s \o t)[n + k] = t[k]
  OBVIOUS
<1>2. b \in C /\ o \in Seq(Y)
  BY EndsAre DEF State, Emitted
<1>3. PICK f : Emits(f, M, c, s) /\ f[n] = <<b, o>>
  <2>1. Ended(M, c, s)
    BY EndsAre
  <2> QED BY <2>1, Zenon DEF Ended
<1> HIDE DEF b, o
<1>4. PICK g : Emits(g, M, b, t) /\ g[l] = <<State(M, b, t), Emitted(M, b, t)>>
  <2>1. Ended(M, b, t)
    BY <1>2, EndsAre
  <2> QED BY <2>1, Zenon DEF Ended
<1>5. PICK w : /\ Emits(w, M, c, s \o t)
               /\ w[n + l] = <<State(M, c, s \o t), Emitted(M, c, s \o t)>>
  <2>1. Ended(M, c, s \o t)
    <3> DEFINE st == s \o t
    <3>1. st \in Seq(X)
      BY <1>1
    <3> HIDE DEF st
    <3>2. Ended(M, c, st)
      BY <3>1, EndsAre, Zenon
    <3> QED BY <3>2 DEF st
  <2> QED BY <1>1, <2>1, Zenon DEF Ended
<1> DEFINE S == {k \in Nat : k <= n => w[k] = f[k]}
           T == {k \in Nat : k <= l => w[n + k] = <<g[k][1], o \o g[k][2]>>}
<1>6. 0 \in S
  BY <1>3, <1>5 DEF Emits
<1>7. ASSUME NEW k \in Nat, k \in S PROVE k + 1 \in S
  <2>1. SUFFICES ASSUME k + 1 <= n PROVE w[k + 1] = f[k + 1]
    OBVIOUS
  <2>2. /\ k + 1 \in 1 .. n /\ k + 1 \in 1 .. Len(s \o t) /\ (k + 1) - 1 = k
        /\ w[k] = f[k] /\ (s \o t)[k + 1] = s[k + 1]
    BY <1>1, <1>7, <2>1
  <2>3. w[k + 1] = <<M[<<w[k][1], s[k + 1]>>][1], w[k][2] \o M[<<w[k][1], s[k + 1]>>][2]>>
    BY <1>5, <2>2 DEF Emits
  <2>4. f[k + 1] = <<M[<<f[k][1], s[k + 1]>>][1], f[k][2] \o M[<<f[k][1], s[k + 1]>>][2]>>
    BY <1>3, <2>2 DEF Emits
  <2> QED BY <2>2, <2>3, <2>4
<1>8. n \in S
  <2> HIDE DEF S, n
  <2> QED BY <1>1, <1>6, <1>7, Induction
<1>9. w[n] = <<b, o>>
  BY <1>1, <1>3, <1>8
<1>10. 0 \in T
  <2>1. g[0] = <<b, <<>>>>
    BY <1>4 DEF Emits
  <2>2. o \o <<>> = o
    BY <1>2
  <2>3. n + 0 = n
    BY <1>1
  <2>4. g[0][1] = b /\ g[0][2] = <<>>
    BY <2>1
  <2> QED BY <1>9, <2>2, <2>3, <2>4
<1>11. ASSUME NEW k \in Nat, k \in T PROVE k + 1 \in T
  <2>1. SUFFICES ASSUME k + 1 <= l PROVE w[n + (k + 1)] = <<g[k + 1][1], o \o g[k + 1][2]>>
    OBVIOUS
  <2>0. /\ k + 1 \in 1 .. l /\ n + (k + 1) \in 1 .. n + l /\ (k + 1) - 1 = k
        /\ (n + (k + 1)) - 1 = n + k /\ k \in 0 .. l /\ k <= l
    <3>1. n \in Nat /\ l \in Nat
      BY <1>1
    <3> HIDE DEF n, l, T
    <3> QED BY <2>1, <3>1
  <2>2. /\ k + 1 \in 1 .. l /\ n + (k + 1) \in 1 .. Len(s \o t) /\ (k + 1) - 1 = k
        /\ (n + (k + 1)) - 1 = n + k /\ k \in 0 .. l
        /\ w[n + k] = <<g[k][1], o \o g[k][2]>> /\ (s \o t)[n + (k + 1)] = t[k + 1]
    <3>1. w[n + k] = <<g[k][1], o \o g[k][2]>>
      BY <1>11, <2>0
    <3> HIDE DEF n, l, T
    <3> QED BY <1>1, <2>0, <3>1
  <2> DEFINE r == M[<<g[k][1], t[k + 1]>>]
  <2>3. g[k] \in C \X Seq(Y)
    BY <1>2, <1>4, <2>2, EmitsTyped
  <2>4. r \in C \X Seq(Y)
    <3>1. g[k][1] \in C
      BY <2>3
    <3>2. t[k + 1] \in X
      BY <2>2
    <3> QED BY <3>1, <3>2 DEF Machine
  <2>5. w[n + (k + 1)] = <<r[1], (o \o g[k][2]) \o r[2]>>
    <3> DEFINE i == n + (k + 1)
    <3>1. w[i] = <<M[<<w[i - 1][1], (s \o t)[i]>>][1], w[i - 1][2] \o M[<<w[i - 1][1], (s \o t)[i]>>][2]>>
      BY <1>5, <2>2 DEF Emits
    <3>2. w[i - 1] = <<g[k][1], o \o g[k][2]>> /\ (s \o t)[i] = t[k + 1]
      BY <2>2
    <3> HIDE DEF i
    <3>4. w[i - 1][1] = g[k][1] /\ w[i - 1][2] = o \o g[k][2]
      <4> DEFINE q == o \o g[k][2]
                 h == w[i - 1]
      <4>1. h = <<g[k][1], q>>
        BY <3>2
      <4> HIDE DEF q, h
      <4>2. h[1] = g[k][1] /\ h[2] = q
        BY <4>1
      <4> QED BY <4>2 DEF q, h
    <3>3. w[i] = <<r[1], (o \o g[k][2]) \o r[2]>>
      BY <3>1, <3>2, <3>4, Zenon DEF r
    <3> QED BY <3>3 DEF i
  <2>6. g[k + 1] = <<r[1], g[k][2] \o r[2]>>
    BY <1>4, <2>2 DEF Emits
  <2> HIDE DEF r
  <2>7. (o \o g[k][2]) \o r[2] = o \o (g[k][2] \o r[2])
    <3> DEFINE p == g[k][2]
               q == r[2]
    <3>1. p \in Seq(Y) /\ q \in Seq(Y)
      BY <2>3, <2>4
    <3> HIDE DEF p, q
    <3>2. (o \o p) \o q = o \o (p \o q)
      BY <1>2, <3>1
    <3> QED BY <3>2 DEF p, q
  <2>8. g[k + 1][1] = r[1] /\ g[k + 1][2] = g[k][2] \o r[2]
    <3> DEFINE q == g[k][2] \o r[2]
               h == g[k + 1]
    <3>1. h = <<r[1], q>>
      BY <2>6
    <3> HIDE DEF q, h
    <3>2. h[1] = r[1] /\ h[2] = q
      BY <3>1
    <3> QED BY <3>2 DEF q, h
  <2> QED BY <2>5, <2>7, <2>8
<1>12. l \in T
  <2> HIDE DEF T, l
  <2> QED BY <1>1, <1>10, <1>11, Induction
<1>13. w[n + l] = <<State(M, b, t), o \o Emitted(M, b, t)>>
  <2>1. w[n + l] = <<g[l][1], o \o g[l][2]>>
    BY <1>1, <1>12
  <2> QED BY <1>4, <2>1
<1>14. /\ State(M, c, s \o t) = State(M, b, t)
       /\ Emitted(M, c, s \o t) = o \o Emitted(M, b, t)
  BY <1>5, <1>13
<1> QED BY <1>14 DEF b, o

(* The three filters that carry something over, as machines: a sum of        *)
(* samples, an average and a sum of sounds.                                  *)
Pairs == Int \X Int
Sums == Int \X Int \X Int

LowMachine(downsample) ==
  [p \in Sums \X Pairs |->
     LET r == p[1][1] + p[2][1]  j == p[1][2] + p[2][2]
     IN  IF p[1][3] + 1 < downsample THEN <<<<r, j, p[1][3] + 1>>, <<>>>>
         ELSE <<<<0, 0, 0>>, <<<<Int16(r), Int16(j)>>>>>>]

Averaged(a, avg, x) ==
  LET e == x - avg
      half == a \div 2
  IN  avg + Trunc(IF e > 0 THEN e + half ELSE e - half, a)

DeemphMachine(a) ==
  [p \in Int \X Int |-> <<Averaged(a, p[1], p[2]), <<Int16(Averaged(a, p[1], p[2]))>>>>]

RealMachine(fast, slow) ==
  [p \in Pairs \X Int |->
     LET total == p[1][1] + p[2]
         index == p[1][2] + slow
     IN  IF index < fast THEN <<<<total, index>>, <<>>>>
         ELSE <<<<0, index - fast>>, <<Int16(Trunc(total, fast \div slow))>>>>]

(* What full_demod keeps, with what the filters carry over.                  *)
Radio(c, pre, avg, q, out) ==
  [now_r |-> c[1], now_j |-> c[2], prev_index |-> c[3], pre |-> pre, avg |-> avg,
   now_lpr |-> q[1], prev_lpr_index |-> q[2], out |-> out, deemph_a |-> 7,
   mode |-> ask.mode, output_scale |-> 2, downsample |-> ask.downsample,
   fast |-> ask.rates[1], slow |-> ask.rates[2]]

LEMMA Int16IsInt == ASSUME NEW x \in Int PROVE Int16(x) \in Int
BY SMT DEF Int16

LEMMA SmallInt16 == ASSUME NEW x \in Int, -254 <= x, x <= 254 PROVE Int16(x) = x
BY SMT DEF Int16

LEMMA QuotientIsInt == ASSUME NEW x \in Nat, NEW y \in Nat \ {0} PROVE x \div y \in Nat
BY Division

LEMMA TruncIsInt == ASSUME NEW x \in Int, NEW y \in Nat \ {0} PROVE Trunc(x, y) \in Int
<1>1. Magnitude(x) \in Nat /\ Magnitude(y) = y
  BY SMT DEF Magnitude
<1>2. Magnitude(x) \div Magnitude(y) \in Nat
  BY <1>1, QuotientIsInt
<1> DEFINE z == Magnitude(x) \div Magnitude(y)
<1>3. Trunc(x, y) = IF (x < 0) = (y < 0) THEN z ELSE -z
  BY DEF Trunc
<1>4. z \in Nat
  BY <1>2
<1> HIDE DEF z
<1> QED BY <1>3, <1>4, SMT

LEMMA LowIsMachine ==
  ASSUME NEW d PROVE Machine(LowMachine(d), Sums, Pairs, Pairs)
<1> SUFFICES ASSUME NEW c \in Sums, NEW x \in Pairs
    PROVE  LowMachine(d)[<<c, x>>] \in Sums \X Seq(Pairs)
  BY DEF Machine
<1> DEFINE r == c[1] + x[1]
           j == c[2] + x[2]
           i == c[3] + 1
           z == 0
           y == <<Int16(r), Int16(j)>>
           one == <<y>>
           nil == <<>>
<1>1. r \in Int /\ j \in Int /\ i \in Int /\ z \in Int
  BY DEF Sums, Pairs
<1>2. LowMachine(d)[<<c, x>>] = IF i < d THEN <<<<r, j, i>>, nil>> ELSE <<<<z, z, z>>, one>>
  BY DEF LowMachine
<1> HIDE DEF r, j, i, z
<1>3. y \in Pairs
  <2>1. Int16(r) \in Int /\ Int16(j) \in Int
    BY <1>1, Int16IsInt
  <2> QED BY <2>1 DEF Pairs
<1> HIDE DEF y
<1>4. one \in Seq(Pairs) /\ nil \in Seq(Pairs)
  BY <1>3
<1> HIDE DEF one, nil
<1>5. <<r, j, i>> \in Sums /\ <<z, z, z>> \in Sums
  BY <1>1 DEF Sums
<1>6. /\ <<<<r, j, i>>, nil>> \in Sums \X Seq(Pairs)
      /\ <<<<z, z, z>>, one>> \in Sums \X Seq(Pairs)
  BY <1>4, <1>5
<1> QED BY <1>2, <1>6, Zenon

LEMMA AveragedIsInt ==
  ASSUME NEW a \in Nat \ {0}, NEW avg \in Int, NEW x \in Int
  PROVE  Averaged(a, avg, x) \in Int
<1> DEFINE e == x - avg
           half == a \div 2
           v == IF e > 0 THEN e + half ELSE e - half
<1>1. half \in Int /\ e \in Int
  BY SMT
<1> HIDE DEF half, e
<1>2. v \in Int
  BY <1>1
<1> HIDE DEF v
<1>3. Trunc(v, a) \in Int
  BY <1>2, TruncIsInt
<1>4. Averaged(a, avg, x) = avg + Trunc(v, a)
  BY DEF Averaged, v, e, half
<1> QED BY <1>3, <1>4

LEMMA DeemphIsMachine ==
  ASSUME NEW a \in Nat \ {0} PROVE Machine(DeemphMachine(a), Int, Int, Int)
<1> SUFFICES ASSUME NEW c \in Int, NEW x \in Int
    PROVE  DeemphMachine(a)[<<c, x>>] \in Int \X Seq(Int)
  BY DEF Machine
<1> DEFINE v == Averaged(a, c, x)
           y == Int16(v)
           one == <<y>>
<1>1. DeemphMachine(a)[<<c, x>>] = <<v, one>>
  BY DEF DeemphMachine
<1>2. v \in Int
  BY AveragedIsInt
<1> HIDE DEF v
<1>3. y \in Int
  BY <1>2, Int16IsInt
<1> HIDE DEF y
<1>4. one \in Seq(Int)
  BY <1>3
<1> HIDE DEF one
<1> QED BY <1>1, <1>2, <1>4

LEMMA RealIsMachine ==
  ASSUME NEW fast \in Nat, NEW slow \in Nat, fast \div slow \in Nat \ {0}
  PROVE  Machine(RealMachine(fast, slow), Pairs, Int, Int)
<1> SUFFICES ASSUME NEW c \in Pairs, NEW x \in Int
    PROVE  RealMachine(fast, slow)[<<c, x>>] \in Pairs \X Seq(Int)
  BY DEF Machine
<1> DEFINE ratio == fast \div slow
           t == c[1] + x
           i == c[2] + slow
           rest == i - fast
           z == 0
           y == Int16(Trunc(t, ratio))
           one == <<y>>
           nil == <<>>
<1>1. t \in Int /\ i \in Int /\ rest \in Int /\ z \in Int /\ ratio \in Nat \ {0}
  BY DEF Pairs
<1>2. RealMachine(fast, slow)[<<c, x>>] = IF i < fast THEN <<<<t, i>>, nil>> ELSE <<<<z, rest>>, one>>
  BY DEF RealMachine
<1> HIDE DEF t, i, rest, z, ratio
<1>3. y \in Int
  <2> DEFINE v == Trunc(t, ratio)
  <2>1. v \in Int
    BY <1>1, TruncIsInt
  <2> HIDE DEF v
  <2>2. Int16(v) \in Int
    BY <2>1, Int16IsInt
  <2> QED BY <2>2 DEF v
<1> HIDE DEF y
<1>4. one \in Seq(Int) /\ nil \in Seq(Int)
  BY <1>3
<1> HIDE DEF one, nil
<1>5. <<t, i>> \in Pairs /\ <<z, rest>> \in Pairs
  BY <1>1 DEF Pairs
<1>6. /\ <<<<t, i>>, nil>> \in Pairs \X Seq(Int)
      /\ <<<<z, rest>>, one>> \in Pairs \X Seq(Int)
  BY <1>4, <1>5
<1> QED BY <1>2, <1>6, Zenon

Moved(M, p, x) == <<M[<<p[1], x>>][1], p[2] \o M[<<p[1], x>>][2]>>

LEMMA MovedTyped ==
  ASSUME NEW M, NEW C, NEW X, NEW Y, Machine(M, C, X, Y), NEW p \in C \X Seq(Y), NEW x \in X
  PROVE  Moved(M, p, x) \in C \X Seq(Y)
<1> DEFINE r == M[<<p[1], x>>]
           q == p[2] \o r[2]
<1>1. r \in C \X Seq(Y)
  BY DEF Machine
<1>2. Moved(M, p, x) = <<r[1], q>>
  BY DEF Moved
<1> HIDE DEF r
<1>3. q \in Seq(Y) /\ r[1] \in C
  BY <1>1, ConcatProperties
<1> HIDE DEF q
<1> QED BY <1>2, <1>3

(* A fold whose steps are those of a machine ends where the machine does.    *)
Traced(it, H, M, P, c, s) ==
  /\ it[{}] = H[<<c, <<>>>>]
  /\ \A k \in Nat, p \in P :
       k + 1 <= Len(s) /\ it[1 .. k] = H[p] => it[1 .. k + 1] = H[Moved(M, p, s[k + 1])]

LEMMA Follows ==
  ASSUME NEW M, NEW C, NEW X, NEW Y, Machine(M, C, X, Y), NEW c \in C, NEW s \in Seq(X),
         NEW it, NEW H, Traced(it, H, M, C \X Seq(Y), c, s)
  PROVE  it[1 .. Len(s)] = H[<<State(M, c, s), Emitted(M, c, s)>>]
<1> DEFINE n == Len(s)
<1>1. n \in Nat
  OBVIOUS
<1>2. PICK f : Emits(f, M, c, s) /\ f[n] = <<State(M, c, s), Emitted(M, c, s)>>
  <2>1. Ended(M, c, s)
    BY EndsAre
  <2> QED BY <2>1, Zenon DEF Ended
<1> DEFINE S == {k \in Nat : k <= n => it[1 .. k] = H[f[k]]}
<1>3. 0 \in S
  <2>1. 1 .. 0 = {} /\ f[0] = <<c, <<>>>>
    BY <1>2 DEF Emits
  <2>2. it[1 .. 0] = H[f[0]]
    BY <2>1 DEF Traced
  <2> QED BY <2>2
<1>4. ASSUME NEW k \in Nat, k \in S PROVE k + 1 \in S
  <2>1. SUFFICES ASSUME k + 1 <= n PROVE it[1 .. k + 1] = H[f[k + 1]]
    OBVIOUS
  <2>2. it[1 .. k] = H[f[k]] /\ k \in 0 .. n /\ k + 1 \in 1 .. n /\ (k + 1) - 1 = k
    BY <1>1, <1>4, <2>1
  <2>3. f[k] \in C \X Seq(Y)
    BY <1>2, <2>2, EmitsTyped
  <2>4. f[k + 1] = Moved(M, f[k], s[k + 1])
    BY <1>2, <2>2 DEF Emits, Moved
  <2>5. it[1 .. k + 1] = H[Moved(M, f[k], s[k + 1])]
    BY <2>1, <2>2, <2>3 DEF Traced
  <2> QED BY <2>4, <2>5
<1>5. n \in S
  <2> HIDE DEF S, n
  <2> QED BY <1>1, <1>3, <1>4, Induction
<1> QED BY <1>1, <1>2, <1>5

LowStep(d, w, x) ==
  LET r == w.now_r + x[1]  j == w.now_j + x[2]
  IN  IF w.prev_index + 1 < d.downsample
      THEN [w EXCEPT !.now_r = r, !.now_j = j, !.prev_index = @ + 1]
      ELSE [w EXCEPT !.now_r = 0, !.now_j = 0, !.prev_index = 0,
                     !.out = Append(@, <<Int16(r), Int16(j)>>)]

(* Its fields, one by one.                                                   *)
FieldsSet(c, pre, avg, q, o, x) ==
  LET w == Radio(c, pre, avg, q, o)
  IN  /\ [w EXCEPT !.pre = x] = Radio(c, x, avg, q, o)
      /\ [w EXCEPT !.avg = x] = Radio(c, pre, x, q, o)
      /\ [w EXCEPT !.out = x] = Radio(c, pre, avg, q, x)

LEMMA RadioFields ==
  ASSUME NEW c, NEW pre, NEW avg, NEW q, NEW o, NEW x
  PROVE  FieldsSet(c, pre, avg, q, o, x)
<1>1. [Radio(c, pre, avg, q, o) EXCEPT !.pre = x] = Radio(c, x, avg, q, o)
  BY DEF Radio
<1>2. [Radio(c, pre, avg, q, o) EXCEPT !.avg = x] = Radio(c, pre, x, q, o)
  BY DEF Radio
<1>3. [Radio(c, pre, avg, q, o) EXCEPT !.out = x] = Radio(c, pre, avg, q, x)
  BY DEF Radio
<1> QED BY <1>1, <1>2, <1>3, Zenon DEF FieldsSet

LowSet(c, pre, avg, q, o, r, j, i, more) ==
  LET w == Radio(c, pre, avg, q, o)
  IN  /\ [w EXCEPT !.now_r = r, !.now_j = j, !.prev_index = i]
            = Radio(<<r, j, i>>, pre, avg, q, o)
      /\ [w EXCEPT !.now_r = r, !.now_j = j, !.prev_index = i, !.out = more]
            = Radio(<<r, j, i>>, pre, avg, q, more)

LEMMA LowFieldsSet ==
  ASSUME NEW c, NEW pre, NEW avg, NEW q, NEW o, NEW r, NEW j, NEW i, NEW more
  PROVE  LowSet(c, pre, avg, q, o, r, j, i, more)
<1>1. [Radio(c, pre, avg, q, o) EXCEPT !.now_r = r] = Radio(<<r, c[2], c[3]>>, pre, avg, q, o)
  BY DEF Radio
<1>2. [Radio(<<r, c[2], c[3]>>, pre, avg, q, o) EXCEPT !.now_j = j]
        = Radio(<<r, j, c[3]>>, pre, avg, q, o)
  BY DEF Radio
<1>3. [Radio(<<r, j, c[3]>>, pre, avg, q, o) EXCEPT !.prev_index = i]
        = Radio(<<r, j, i>>, pre, avg, q, o)
  BY DEF Radio
<1>4. [Radio(<<r, j, i>>, pre, avg, q, o) EXCEPT !.out = more]
        = Radio(<<r, j, i>>, pre, avg, q, more)
  BY DEF Radio
<1>5. ASSUME NEW w
      PROVE  /\ [w EXCEPT !.now_r = r, !.now_j = j, !.prev_index = i]
                   = [[[w EXCEPT !.now_r = r] EXCEPT !.now_j = j] EXCEPT !.prev_index = i]
             /\ [w EXCEPT !.now_r = r, !.now_j = j, !.prev_index = i, !.out = more]
                   = [[[[w EXCEPT !.now_r = r] EXCEPT !.now_j = j] EXCEPT !.prev_index = i]
                        EXCEPT !.out = more]
  OBVIOUS
<1> QED BY <1>1, <1>2, <1>3, <1>4, <1>5, Zenon DEF LowSet

LowMoves(p, x, pre, avg, q, d) ==
  LET m == Moved(LowMachine(ask.downsample), p, x)
  IN  LowStep(d, Radio(p[1], pre, avg, q, p[2]), x) = Radio(m[1], pre, avg, q, m[2])

LEMMA LowStepIs ==
  ASSUME NEW p \in Sums \X Seq(Pairs), NEW x \in Pairs, NEW pre, NEW avg, NEW q, NEW d,
         d.downsample = ask.downsample
  PROVE  LowMoves(p, x, pre, avg, q, d)
<1> DEFINE r == p[1][1] + x[1]
           j == p[1][2] + x[2]
           i == p[1][3] + 1
           z == 0
           y == <<Int16(r), Int16(j)>>
           w == Radio(p[1], pre, avg, q, p[2])
           m == Moved(LowMachine(ask.downsample), p, x)
<1> SUFFICES LowStep(d, w, x) = Radio(m[1], pre, avg, q, m[2])
  BY Zenon DEF LowMoves
<1>1. LowMachine(ask.downsample)[<<p[1], x>>]
        = IF i < ask.downsample THEN <<<<r, j, i>>, <<>>>> ELSE <<<<z, z, z>>, <<y>>>>
  BY DEF LowMachine
<1>2. w.now_r = p[1][1] /\ w.now_j = p[1][2] /\ w.prev_index = p[1][3] /\ w.out = p[2]
  BY DEF Radio
<1>3. LowStep(d, w, x)
        = IF i < ask.downsample
          THEN [w EXCEPT !.now_r = r, !.now_j = j, !.prev_index = i]
          ELSE [w EXCEPT !.now_r = z, !.now_j = z, !.prev_index = z, !.out = Append(@, y)]
  BY <1>2 DEF LowStep
<1> HIDE DEF r, j, i, z, y
<1>4. CASE i < ask.downsample
  <2>1. m = <<<<r, j, i>>, p[2] \o <<>>>>
    BY <1>1, <1>4 DEF Moved
  <2>2. p[2] \o <<>> = p[2]
    OBVIOUS
  <2>3. LowStep(d, w, x) = [w EXCEPT !.now_r = r, !.now_j = j, !.prev_index = i]
    BY <1>3, <1>4
  <2>4. [w EXCEPT !.now_r = r, !.now_j = j, !.prev_index = i]
          = Radio(<<r, j, i>>, pre, avg, q, p[2])
    <3>1. LowSet(p[1], pre, avg, q, p[2], r, j, i, p[2])
      BY LowFieldsSet
    <3> QED BY <3>1, Zenon DEF LowSet, w
  <2>5. m[1] = <<r, j, i>> /\ m[2] = p[2]
    BY <2>1, <2>2
  <2> HIDE DEF w, m
  <2> QED BY <2>3, <2>4, <2>5 DEF w, m
<1>5. CASE ~(i < ask.downsample)
  <2>1. m = <<<<z, z, z>>, p[2] \o <<y>>>>
    BY <1>1, <1>5 DEF Moved
  <2>2. Append(p[2], y) = p[2] \o <<y>>
    OBVIOUS
  <2> DEFINE more == Append(p[2], y)
  <2>3. LowStep(d, w, x)
          = [w EXCEPT !.now_r = z, !.now_j = z, !.prev_index = z, !.out = more]
    BY <1>2, <1>3, <1>5
  <2> HIDE DEF more
  <2>4. [w EXCEPT !.now_r = z, !.now_j = z, !.prev_index = z, !.out = more]
          = Radio(<<z, z, z>>, pre, avg, q, more)
    <3>1. LowSet(p[1], pre, avg, q, p[2], z, z, z, more)
      BY LowFieldsSet
    <3> QED BY <3>1, Zenon DEF LowSet, w
  <2>5. m = <<<<z, z, z>>, more>>
    BY <2>1, <2>2 DEF more
  <2>6. m[1] = <<z, z, z>> /\ m[2] = more
    BY <2>5
  <2> HIDE DEF w, m
  <2> QED BY <2>3, <2>4, <2>6 DEF w, m
<1> HIDE DEF m, w
<1> QED BY <1>4, <1>5 DEF m, w

LEMMA LowPassIs ==
  ASSUME NEW c \in Sums, NEW pre, NEW avg, NEW q, NEW o, NEW s \in Seq(Pairs)
  PROVE  LowPass(Radio(c, pre, avg, q, o), s)
           = Radio(State(LowMachine(ask.downsample), c, s), pre, avg, q,
                   Emitted(LowMachine(ask.downsample), c, s))
<1> DEFINE n == Len(s)
           M == LowMachine(ask.downsample)
           P == Sums \X Seq(Pairs)
           H == [p \in P |-> Radio(p[1], pre, avg, q, p[2])]
           A == {H[p] : p \in P}
           d == Radio(c, pre, avg, q, o)
           z == [d EXCEPT !.out = <<>>]
           G == [a \in A \X (1 .. n) |-> LowStep(d, a[1], s[a[2]])]
           Reads(it) == it = [t \in SUBSET (1 .. n) |->
             IF t = {} THEN z ELSE LowStep(d, it[t \ {Max(t)}], s[Max(t)])]
<1>1. n \in Nat /\ DOMAIN s = 1 .. n /\ \A k \in 1 .. n : s[k] \in Pairs
  OBVIOUS
<1>2. d.downsample = ask.downsample
  BY DEF Radio
<1>3. Machine(M, Sums, Pairs, Pairs)
  BY LowIsMachine
<1>4. <<c, <<>>>> \in P /\ z = H[<<c, <<>>>>]
  <2> DEFINE nil == <<>>
             e == [d EXCEPT !.out = nil]
  <2>1. nil \in Seq(Pairs)
    OBVIOUS
  <2>2. e = Radio(c, pre, avg, q, nil)
    <3>1. FieldsSet(c, pre, avg, q, o, nil)
      BY RadioFields
    <3> QED BY <3>1, Zenon DEF FieldsSet
  <2> HIDE DEF nil, e
  <2>3. <<c, nil>> \in P /\ H[<<c, nil>>] = Radio(c, pre, avg, q, nil)
    BY <2>1
  <2> QED BY <2>2, <2>3 DEF nil, e
<1> HIDE DEF d, z
<1>5. ASSUME NEW p \in P, NEW x \in Pairs
      PROVE  Moved(M, p, x) \in P /\ LowStep(d, H[p], x) = H[Moved(M, p, x)]
  <2>1. Moved(M, p, x) \in P
    BY <1>3, MovedTyped
  <2> DEFINE m == Moved(M, p, x)
  <2>2. LowStep(d, Radio(p[1], pre, avg, q, p[2]), x) = Radio(m[1], pre, avg, q, m[2])
    <3>1. LowMoves(p, x, pre, avg, q, d)
      BY <1>2, LowStepIs
    <3> QED BY <3>1, Zenon DEF LowMoves
  <2> HIDE DEF m
  <2>3. m \in P
    BY <2>1 DEF m
  <2> HIDE DEF P
  <2>4. H[p] = Radio(p[1], pre, avg, q, p[2]) /\ H[m] = Radio(m[1], pre, avg, q, m[2])
    BY <1>5, <2>3
  <2> QED BY <2>2, <2>3, <2>4 DEF m
<1> HIDE DEF M, P, H
<1>6. G \in [A \X (1 .. n) -> A]
  <2> SUFFICES ASSUME NEW a \in A, NEW k \in 1 .. n PROVE LowStep(d, a, s[k]) \in A
    OBVIOUS
  <2>1. PICK p \in P : a = H[p]
    OBVIOUS
  <2>2. LowStep(d, a, s[k]) = H[Moved(M, p, s[k])] /\ Moved(M, p, s[k]) \in P
    BY <1>1, <1>5, <2>1
  <2> QED BY <2>2
<1>7. z \in A
  BY <1>4
<1>8. \E f : Runs(f, n, A, z, G)
  <2> HIDE DEF A, G, n
  <2> QED BY <1>1, <1>6, <1>7, FoldRun
<1>9. PICK f : Runs(f, n, A, z, G)
  BY <1>8
<1>10. Reads(f)
  <2>1. f = [t \in SUBSET (1 .. n) |-> f[t]]
    BY <1>9 DEF Runs
  <2>2. ASSUME NEW t \in SUBSET (1 .. n)
        PROVE  f[t] = IF t = {} THEN z ELSE LowStep(d, f[t \ {Max(t)}], s[Max(t)])
    <3>1. CASE t = {}
      BY <1>9, <3>1 DEF Runs
    <3>2. CASE t # {}
      <4>1. f[t \ {Max(t)}] \in A /\ Max(t) \in 1 .. n
        <5> HIDE DEF A, G
        <5> QED BY <1>1, <1>9, <3>2, MaxOf DEF Runs
      <4>2. f[t] = G[f[t \ {Max(t)}], Max(t)]
        BY <1>9, <3>2 DEF Runs
      <4> HIDE DEF A
      <4> QED BY <3>2, <4>1, <4>2
    <3> QED BY <3>1, <3>2
  <2> QED BY <2>1, <2>2
<1> DEFINE it == CHOOSE it : Reads(it)
<1>11. LowPass(d, s) = it[1 .. n]
  BY <1>1 DEF LowPass, FoldLeft, MapThenFoldSet, LowStep, z
<1>12. Reads(it)
  <2> HIDE DEF Reads
  <2> QED BY <1>10
<1> HIDE DEF it, A, G
<1>13. it[{}] = H[<<c, <<>>>>]
  BY <1>4, <1>12
<1>14. ASSUME NEW k \in Nat, NEW p \in P, k + 1 <= n, it[1 .. k] = H[p]
       PROVE  it[1 .. k + 1] = H[Moved(M, p, s[k + 1])]
  <2>1. /\ 1 .. k + 1 \in SUBSET (1 .. n) /\ 1 .. k + 1 # {} /\ k + 1 \in 1 .. n
        /\ Max(1 .. k + 1) = k + 1 /\ (1 .. k + 1) \ {k + 1} = 1 .. k
    BY <1>1, <1>14, MaxOfSegment
  <2>2. it[1 .. k + 1] = LowStep(d, it[1 .. k], s[k + 1])
    BY <1>12, <2>1
  <2>3. s[k + 1] \in Pairs
    BY <1>1, <2>1
  <2> QED BY <1>5, <1>14, <2>2, <2>3
<1>15. it[1 .. n] = H[<<State(M, c, s), Emitted(M, c, s)>>]
  <2>1. Traced(it, H, M, P, c, s)
    <3> HIDE DEF Reads, P
    <3> QED BY <1>13, <1>14 DEF Traced
  <2> QED BY <1>3, <2>1, Follows DEF P
<1>16. Ends(M, c, s) \in P
  BY <1>3, EndsAre DEF P
<1>17. H[<<State(M, c, s), Emitted(M, c, s)>>]
         = Radio(State(M, c, s), pre, avg, q, Emitted(M, c, s))
  BY <1>16 DEF H, P, State, Emitted
<1> QED BY <1>11, <1>15, <1>17 DEF M, d

DeemphStep(d, x) ==
  LET e == x - d.avg
      half == d.deemph_a \div 2
      avg == d.avg + Trunc(IF e > 0 THEN e + half ELSE e - half, d.deemph_a)
  IN  [d EXCEPT !.avg = avg, !.out = Append(@, Int16(avg))]

LEMMA DeemphStepIs ==
  ASSUME NEW p \in Int \X Seq(Int), NEW x \in Int, NEW c, NEW pre, NEW q
  PROVE  LET m == Moved(DeemphMachine(7), p, x)
         IN  DeemphStep(Radio(c, pre, p[1], q, p[2]), x) = Radio(c, pre, m[1], q, m[2])
<1> DEFINE v == Averaged(7, p[1], x)
           y == Int16(v)
           w == Radio(c, pre, p[1], q, p[2])
           m == Moved(DeemphMachine(7), p, x)
           more == Append(p[2], y)
<1>1. DeemphMachine(7)[<<p[1], x>>] = <<v, <<y>>>>
  BY DEF DeemphMachine
<1>2. w.avg = p[1] /\ w.deemph_a = 7 /\ w.out = p[2]
  BY DEF Radio
<1>3. DeemphStep(w, x) = [w EXCEPT !.avg = v, !.out = Append(@, y)]
  BY <1>2 DEF DeemphStep, Averaged
<1> HIDE DEF v, y
<1>4. DeemphStep(w, x) = [[w EXCEPT !.avg = v] EXCEPT !.out = more]
  BY <1>2, <1>3
<1>5. m = <<v, more>>
  <2> DEFINE r == DeemphMachine(7)[<<p[1], x>>]
  <2>1. m = <<r[1], p[2] \o r[2]>>
    BY DEF Moved
  <2>2. Append(p[2], y) = p[2] \o <<y>>
    OBVIOUS
  <2>3. r = <<v, <<y>>>>
    BY <1>1
  <2> HIDE DEF r
  <2>4. r[1] = v /\ r[2] = <<y>>
    BY <2>3
  <2> QED BY <2>1, <2>2, <2>4
<1> HIDE DEF more
<1>6. m[1] = v /\ m[2] = more
  BY <1>5
<1>7. [w EXCEPT !.avg = v] = Radio(c, pre, v, q, p[2])
  <2>1. FieldsSet(c, pre, p[1], q, p[2], v)
    BY RadioFields
  <2> QED BY <2>1, Zenon DEF FieldsSet
<1>8. [Radio(c, pre, v, q, p[2]) EXCEPT !.out = more] = Radio(c, pre, v, q, more)
  <2>1. FieldsSet(c, pre, v, q, p[2], more)
    BY RadioFields
  <2> QED BY <2>1, Zenon DEF FieldsSet
<1> HIDE DEF m, w
<1>9. DeemphStep(w, x) = Radio(c, pre, m[1], q, m[2])
  BY <1>4, <1>6, <1>7, <1>8
<1> QED BY <1>9 DEF m, w

LEMMA DeemphIs ==
  ASSUME NEW c, NEW pre, NEW avg \in Int, NEW q, NEW o, NEW s \in Seq(Int)
  PROVE  Deemph(Radio(c, pre, avg, q, o), s)
           = Radio(c, pre, State(DeemphMachine(7), avg, s), q,
                   Emitted(DeemphMachine(7), avg, s))
<1> DEFINE n == Len(s)
           M == DeemphMachine(7)
           P == Int \X Seq(Int)
           H == [p \in P |-> Radio(c, pre, p[1], q, p[2])]
           A == {H[p] : p \in P}
           d == Radio(c, pre, avg, q, o)
           z == [d EXCEPT !.out = <<>>]
           G == [a \in A \X (1 .. n) |-> DeemphStep(a[1], s[a[2]])]
           Reads(it) == it = [t \in SUBSET (1 .. n) |->
             IF t = {} THEN z ELSE DeemphStep(it[t \ {Max(t)}], s[Max(t)])]
<1>1. n \in Nat /\ DOMAIN s = 1 .. n /\ \A k \in 1 .. n : s[k] \in Int
  OBVIOUS
<1>3. Machine(M, Int, Int, Int)
  <2>1. 7 \in Nat \ {0}
    BY SMT
  <2> QED BY <2>1, DeemphIsMachine
<1>4. <<avg, <<>>>> \in P /\ z = H[<<avg, <<>>>>]
  <2> DEFINE nil == <<>>
             e == [d EXCEPT !.out = nil]
  <2>1. nil \in Seq(Int)
    OBVIOUS
  <2>2. e = Radio(c, pre, avg, q, nil)
    <3>1. FieldsSet(c, pre, avg, q, o, nil)
      BY RadioFields
    <3> QED BY <3>1, Zenon DEF FieldsSet
  <2> HIDE DEF nil, e
  <2>3. <<avg, nil>> \in P /\ H[<<avg, nil>>] = Radio(c, pre, avg, q, nil)
    BY <2>1
  <2> QED BY <2>2, <2>3 DEF nil, e
<1> HIDE DEF d, z
<1>5. ASSUME NEW p \in P, NEW x \in Int
      PROVE  Moved(M, p, x) \in P /\ DeemphStep(H[p], x) = H[Moved(M, p, x)]
  <2>1. Moved(M, p, x) \in P
    BY <1>3, MovedTyped
  <2> DEFINE m == Moved(M, p, x)
  <2>2. DeemphStep(Radio(c, pre, p[1], q, p[2]), x) = Radio(c, pre, m[1], q, m[2])
    BY DeemphStepIs
  <2> HIDE DEF m
  <2>3. m \in P
    BY <2>1 DEF m
  <2> HIDE DEF P
  <2>4. H[p] = Radio(c, pre, p[1], q, p[2]) /\ H[m] = Radio(c, pre, m[1], q, m[2])
    BY <1>5, <2>3
  <2> QED BY <2>2, <2>3, <2>4 DEF m
<1> HIDE DEF M, P, H
<1>6. G \in [A \X (1 .. n) -> A]
  <2> SUFFICES ASSUME NEW a \in A, NEW k \in 1 .. n PROVE DeemphStep(a, s[k]) \in A
    OBVIOUS
  <2>1. PICK p \in P : a = H[p]
    OBVIOUS
  <2>2. DeemphStep(a, s[k]) = H[Moved(M, p, s[k])] /\ Moved(M, p, s[k]) \in P
    BY <1>1, <1>5, <2>1
  <2> QED BY <2>2
<1>7. z \in A
  BY <1>4
<1>8. \E f : Runs(f, n, A, z, G)
  <2> HIDE DEF A, G, n
  <2> QED BY <1>1, <1>6, <1>7, FoldRun
<1>9. PICK f : Runs(f, n, A, z, G)
  BY <1>8
<1>10. Reads(f)
  <2>1. f = [t \in SUBSET (1 .. n) |-> f[t]]
    BY <1>9 DEF Runs
  <2>2. ASSUME NEW t \in SUBSET (1 .. n)
        PROVE  f[t] = IF t = {} THEN z ELSE DeemphStep(f[t \ {Max(t)}], s[Max(t)])
    <3>1. CASE t = {}
      BY <1>9, <3>1 DEF Runs
    <3>2. CASE t # {}
      <4>1. f[t \ {Max(t)}] \in A /\ Max(t) \in 1 .. n
        <5> HIDE DEF A, G
        <5> QED BY <1>1, <1>9, <3>2, MaxOf DEF Runs
      <4>2. f[t] = G[f[t \ {Max(t)}], Max(t)]
        BY <1>9, <3>2 DEF Runs
      <4> HIDE DEF A
      <4> QED BY <3>2, <4>1, <4>2
    <3> QED BY <3>1, <3>2
  <2> QED BY <2>1, <2>2
<1> DEFINE it == CHOOSE it : Reads(it)
<1>11. Deemph(d, s) = it[1 .. n]
  BY <1>1 DEF Deemph, FoldLeft, MapThenFoldSet, DeemphStep, z
<1>12. Reads(it)
  <2> HIDE DEF Reads
  <2> QED BY <1>10
<1> HIDE DEF it, A, G
<1>13. it[{}] = H[<<avg, <<>>>>]
  BY <1>4, <1>12
<1>14. ASSUME NEW k \in Nat, NEW p \in P, k + 1 <= n, it[1 .. k] = H[p]
       PROVE  it[1 .. k + 1] = H[Moved(M, p, s[k + 1])]
  <2>1. /\ 1 .. k + 1 \in SUBSET (1 .. n) /\ 1 .. k + 1 # {} /\ k + 1 \in 1 .. n
        /\ Max(1 .. k + 1) = k + 1 /\ (1 .. k + 1) \ {k + 1} = 1 .. k
    BY <1>1, <1>14, MaxOfSegment
  <2>2. it[1 .. k + 1] = DeemphStep(it[1 .. k], s[k + 1])
    BY <1>12, <2>1
  <2>3. s[k + 1] \in Int
    BY <1>1, <2>1
  <2> QED BY <1>5, <1>14, <2>2, <2>3
<1>15. it[1 .. n] = H[<<State(M, avg, s), Emitted(M, avg, s)>>]
  <2>1. Traced(it, H, M, P, avg, s)
    <3> HIDE DEF Reads, P
    <3> QED BY <1>13, <1>14 DEF Traced
  <2> QED BY <1>3, <2>1, Follows DEF P
<1>16. Ends(M, avg, s) \in P
  BY <1>3, EndsAre DEF P
<1>17. H[<<State(M, avg, s), Emitted(M, avg, s)>>]
         = Radio(c, pre, State(M, avg, s), q, Emitted(M, avg, s))
  BY <1>16 DEF H, P, State, Emitted
<1> QED BY <1>11, <1>15, <1>17 DEF M, d

(* The two rates that low_pass_real is between.                              *)
Rates == /\ ask.rates[1] \in Nat /\ ask.rates[2] \in Nat
         /\ ask.rates[1] \div ask.rates[2] \in Nat \ {0}
Resample == RealMachine(ask.rates[1], ask.rates[2])

RealStep(d, x) ==
  LET sum == d.now_lpr + x
      index == d.prev_lpr_index + d.slow
  IN  IF index < d.fast
      THEN [d EXCEPT !.now_lpr = sum, !.prev_lpr_index = index]
      ELSE [d EXCEPT !.now_lpr = 0, !.prev_lpr_index = index - d.fast,
                     !.out = Append(@, Int16(Trunc(sum, d.fast \div d.slow)))]

RealSet(c, pre, avg, q, o, t, i, more) ==
  LET w == Radio(c, pre, avg, q, o)
  IN  /\ [w EXCEPT !.now_lpr = t, !.prev_lpr_index = i] = Radio(c, pre, avg, <<t, i>>, o)
      /\ [w EXCEPT !.now_lpr = t, !.prev_lpr_index = i, !.out = more]
            = Radio(c, pre, avg, <<t, i>>, more)

LEMMA RealFieldsSet ==
  ASSUME NEW c, NEW pre, NEW avg, NEW q, NEW o, NEW t, NEW i, NEW more
  PROVE  RealSet(c, pre, avg, q, o, t, i, more)
<1>1. [Radio(c, pre, avg, q, o) EXCEPT !.now_lpr = t] = Radio(c, pre, avg, <<t, q[2]>>, o)
  BY DEF Radio
<1>2. [Radio(c, pre, avg, <<t, q[2]>>, o) EXCEPT !.prev_lpr_index = i]
        = Radio(c, pre, avg, <<t, i>>, o)
  BY DEF Radio
<1>3. [Radio(c, pre, avg, <<t, i>>, o) EXCEPT !.out = more]
        = Radio(c, pre, avg, <<t, i>>, more)
  BY DEF Radio
<1>4. ASSUME NEW w
      PROVE  /\ [w EXCEPT !.now_lpr = t, !.prev_lpr_index = i]
                   = [[w EXCEPT !.now_lpr = t] EXCEPT !.prev_lpr_index = i]
             /\ [w EXCEPT !.now_lpr = t, !.prev_lpr_index = i, !.out = more]
                   = [[[w EXCEPT !.now_lpr = t] EXCEPT !.prev_lpr_index = i]
                        EXCEPT !.out = more]
  OBVIOUS
<1> QED BY <1>1, <1>2, <1>3, <1>4, Zenon DEF RealSet

LEMMA RealStepIs ==
  ASSUME NEW p \in Pairs \X Seq(Int), NEW x \in Int, NEW c, NEW pre, NEW avg
  PROVE  LET m == Moved(Resample, p, x)
         IN  RealStep(Radio(c, pre, avg, p[1], p[2]), x) = Radio(c, pre, avg, m[1], m[2])
<1> DEFINE fast == ask.rates[1]
           slow == ask.rates[2]
           t == p[1][1] + x
           i == p[1][2] + slow
           rest == i - fast
           z == 0
           y == Int16(Trunc(t, fast \div slow))
           w == Radio(c, pre, avg, p[1], p[2])
           m == Moved(Resample, p, x)
<1>0. p[1] \in Pairs
  OBVIOUS
<1>1. Resample[<<p[1], x>>] = IF i < fast THEN <<<<t, i>>, <<>>>> ELSE <<<<z, rest>>, <<y>>>>
  BY <1>0 DEF Resample, RealMachine
<1>2. /\ w.now_lpr = p[1][1] /\ w.prev_lpr_index = p[1][2] /\ w.out = p[2]
      /\ w.fast = fast /\ w.slow = slow
  BY DEF Radio
<1>3. RealStep(w, x)
        = IF i < fast THEN [w EXCEPT !.now_lpr = t, !.prev_lpr_index = i]
          ELSE [w EXCEPT !.now_lpr = z, !.prev_lpr_index = rest, !.out = Append(@, y)]
  BY <1>2 DEF RealStep
<1> HIDE DEF t, i, rest, z, y
<1>4. CASE i < fast
  <2>1. m = <<<<t, i>>, p[2] \o <<>>>>
    BY <1>1, <1>4 DEF Moved
  <2>2. p[2] \o <<>> = p[2]
    OBVIOUS
  <2>3. RealStep(w, x) = [w EXCEPT !.now_lpr = t, !.prev_lpr_index = i]
    BY <1>3, <1>4
  <2>4. [w EXCEPT !.now_lpr = t, !.prev_lpr_index = i] = Radio(c, pre, avg, <<t, i>>, p[2])
    <3>1. RealSet(c, pre, avg, p[1], p[2], t, i, p[2])
      BY RealFieldsSet
    <3> QED BY <3>1, Zenon DEF RealSet, w
  <2>5. m[1] = <<t, i>> /\ m[2] = p[2]
    BY <2>1, <2>2
  <2> HIDE DEF w, m
  <2> QED BY <2>3, <2>4, <2>5 DEF w, m
<1>5. CASE ~(i < fast)
  <2>1. m = <<<<z, rest>>, p[2] \o <<y>>>>
    BY <1>1, <1>5 DEF Moved
  <2>2. Append(p[2], y) = p[2] \o <<y>>
    OBVIOUS
  <2> DEFINE more == Append(p[2], y)
  <2>3. RealStep(w, x) = [w EXCEPT !.now_lpr = z, !.prev_lpr_index = rest, !.out = more]
    BY <1>2, <1>3, <1>5
  <2> HIDE DEF more
  <2>4. [w EXCEPT !.now_lpr = z, !.prev_lpr_index = rest, !.out = more]
          = Radio(c, pre, avg, <<z, rest>>, more)
    <3>1. RealSet(c, pre, avg, p[1], p[2], z, rest, more)
      BY RealFieldsSet
    <3> QED BY <3>1, Zenon DEF RealSet, w
  <2>5. m = <<<<z, rest>>, more>>
    BY <2>1, <2>2 DEF more
  <2>6. m[1] = <<z, rest>> /\ m[2] = more
    BY <2>5
  <2> HIDE DEF w, m
  <2> QED BY <2>3, <2>4, <2>6 DEF w, m
<1> HIDE DEF m, w
<1>6. RealStep(w, x) = Radio(c, pre, avg, m[1], m[2])
  BY <1>4, <1>5 DEF m, w
<1> QED BY <1>6 DEF m, w

LEMMA RealIs ==
  ASSUME NEW c, NEW pre, NEW avg, NEW q \in Pairs, NEW o, NEW s \in Seq(Int), Rates
  PROVE  LowPassReal(Radio(c, pre, avg, q, o), s)
           = Radio(c, pre, avg, State(Resample, q, s), Emitted(Resample, q, s))
<1> DEFINE n == Len(s)
           M == Resample
           P == Pairs \X Seq(Int)
           H == [p \in P |-> Radio(c, pre, avg, p[1], p[2])]
           A == {H[p] : p \in P}
           d == Radio(c, pre, avg, q, o)
           z == [d EXCEPT !.out = <<>>]
           G == [a \in A \X (1 .. n) |-> RealStep(a[1], s[a[2]])]
           Reads(it) == it = [t \in SUBSET (1 .. n) |->
             IF t = {} THEN z ELSE RealStep(it[t \ {Max(t)}], s[Max(t)])]
<1>1. n \in Nat /\ DOMAIN s = 1 .. n /\ \A k \in 1 .. n : s[k] \in Int
  OBVIOUS
<1>3. Machine(M, Pairs, Int, Int)
  BY RealIsMachine DEF Resample, Rates
<1>4. <<q, <<>>>> \in P /\ z = H[<<q, <<>>>>]
  <2> DEFINE nil == <<>>
             e == [d EXCEPT !.out = nil]
  <2>1. nil \in Seq(Int)
    OBVIOUS
  <2>2. e = Radio(c, pre, avg, q, nil)
    <3>1. FieldsSet(c, pre, avg, q, o, nil)
      BY RadioFields
    <3> QED BY <3>1, Zenon DEF FieldsSet
  <2> HIDE DEF nil, e
  <2>3. <<q, nil>> \in P /\ H[<<q, nil>>] = Radio(c, pre, avg, q, nil)
    BY <2>1
  <2> QED BY <2>2, <2>3 DEF nil, e
<1> HIDE DEF d, z
<1>5. ASSUME NEW p \in P, NEW x \in Int
      PROVE  Moved(M, p, x) \in P /\ RealStep(H[p], x) = H[Moved(M, p, x)]
  <2>1. Moved(M, p, x) \in P
    BY <1>3, MovedTyped
  <2> DEFINE m == Moved(M, p, x)
  <2>2. RealStep(Radio(c, pre, avg, p[1], p[2]), x) = Radio(c, pre, avg, m[1], m[2])
    BY RealStepIs
  <2> HIDE DEF m
  <2>3. m \in P
    BY <2>1 DEF m
  <2> HIDE DEF P
  <2>4. H[p] = Radio(c, pre, avg, p[1], p[2]) /\ H[m] = Radio(c, pre, avg, m[1], m[2])
    BY <1>5, <2>3
  <2> QED BY <2>2, <2>3, <2>4 DEF m
<1> HIDE DEF M, P, H
<1>6. G \in [A \X (1 .. n) -> A]
  <2> SUFFICES ASSUME NEW a \in A, NEW k \in 1 .. n PROVE RealStep(a, s[k]) \in A
    OBVIOUS
  <2>1. PICK p \in P : a = H[p]
    OBVIOUS
  <2>2. RealStep(a, s[k]) = H[Moved(M, p, s[k])] /\ Moved(M, p, s[k]) \in P
    BY <1>1, <1>5, <2>1
  <2> QED BY <2>2
<1>7. z \in A
  BY <1>4
<1>8. \E f : Runs(f, n, A, z, G)
  <2> HIDE DEF A, G, n
  <2> QED BY <1>1, <1>6, <1>7, FoldRun
<1>9. PICK f : Runs(f, n, A, z, G)
  BY <1>8
<1>10. Reads(f)
  <2>1. f = [t \in SUBSET (1 .. n) |-> f[t]]
    BY <1>9 DEF Runs
  <2>2. ASSUME NEW t \in SUBSET (1 .. n)
        PROVE  f[t] = IF t = {} THEN z ELSE RealStep(f[t \ {Max(t)}], s[Max(t)])
    <3>1. CASE t = {}
      BY <1>9, <3>1 DEF Runs
    <3>2. CASE t # {}
      <4>1. f[t \ {Max(t)}] \in A /\ Max(t) \in 1 .. n
        <5> HIDE DEF A, G
        <5> QED BY <1>1, <1>9, <3>2, MaxOf DEF Runs
      <4>2. f[t] = G[f[t \ {Max(t)}], Max(t)]
        BY <1>9, <3>2 DEF Runs
      <4> HIDE DEF A
      <4> QED BY <3>2, <4>1, <4>2
    <3> QED BY <3>1, <3>2
  <2> QED BY <2>1, <2>2
<1> DEFINE it == CHOOSE it : Reads(it)
<1>11. LowPassReal(d, s) = it[1 .. n]
  BY <1>1 DEF LowPassReal, FoldLeft, MapThenFoldSet, RealStep, z
<1>12. Reads(it)
  <2> HIDE DEF Reads
  <2> QED BY <1>10
<1> HIDE DEF it, A, G
<1>13. it[{}] = H[<<q, <<>>>>]
  BY <1>4, <1>12
<1>14. ASSUME NEW k \in Nat, NEW p \in P, k + 1 <= n, it[1 .. k] = H[p]
       PROVE  it[1 .. k + 1] = H[Moved(M, p, s[k + 1])]
  <2>1. /\ 1 .. k + 1 \in SUBSET (1 .. n) /\ 1 .. k + 1 # {} /\ k + 1 \in 1 .. n
        /\ Max(1 .. k + 1) = k + 1 /\ (1 .. k + 1) \ {k + 1} = 1 .. k
    BY <1>1, <1>14, MaxOfSegment
  <2>2. it[1 .. k + 1] = RealStep(it[1 .. k], s[k + 1])
    BY <1>12, <2>1
  <2>3. s[k + 1] \in Int
    BY <1>1, <2>1
  <2> QED BY <1>5, <1>14, <2>2, <2>3
<1>15. it[1 .. n] = H[<<State(M, q, s), Emitted(M, q, s)>>]
  <2>1. Traced(it, H, M, P, q, s)
    <3> HIDE DEF Reads, P
    <3> QED BY <1>13, <1>14 DEF Traced
  <2> QED BY <1>3, <2>1, Follows DEF P
<1>16. Ends(M, q, s) \in P
  BY <1>3, EndsAre DEF P
<1>17. H[<<State(M, q, s), Emitted(M, q, s)>>]
         = Radio(c, pre, avg, State(M, q, s), Emitted(M, q, s))
  BY <1>16 DEF H, P, State, Emitted
<1> QED BY <1>11, <1>15, <1>17 DEF M, d

------------------------------------------------------------------------------
(* The samples of the signal, and the eighths of a turn: what low_pass makes *)
(* of them, and what turns one into another.                                 *)
Dirs == {<<Level, 0>>, <<0, Level>>, <<-Level, 0>>, <<0, -Level>>}

Eighth(r, j) == r = 0 \/ j = 0 \/ r = j \/ r = -j
Eighths == {z \in Pairs : Eighth(z[1], z[2])}

Core(downsample) ==
  {c \in Sums : /\ c[3] \in Nat /\ c[3] < downsample
                /\ c[3] = 0 => c[1] = 0 /\ c[2] = 0
                /\ c[3] # 0 => <<c[1], c[2]>> \in Dirs}

LEMMA DirsArePairs ==
  ASSUME NEW z \in Dirs
  PROVE  /\ z \in Pairs /\ z = <<z[1], z[2]>>
         /\ z[1] \in Int /\ z[2] \in Int /\ -127 <= z[1] /\ z[1] <= 127
         /\ -127 <= z[2] /\ z[2] <= 127
         /\ \/ z[1] = 0 /\ z[2] = Level
            \/ z[1] = 0 /\ z[2] = -Level
            \/ z[1] = Level /\ z[2] = 0
            \/ z[1] = -Level /\ z[2] = 0
<1>1. Level \in Nat /\ Level <= 127
  BY LevelAssumption
<1> QED BY <1>1, SMT DEF Dirs, Pairs

LEMMA SumIsEighth ==
  ASSUME NEW v \in Dirs, NEW x \in Dirs PROVE Eighth(v[1] + x[1], v[2] + x[2])
<1>1. Level \in Nat
  BY LevelAssumption
<1> QED BY <1>1, DirsArePairs, SMT DEF Eighth

LEMMA LowKeepsEighths ==
  ASSUME NEW d \in {1, 2} PROVE Machine(LowMachine(d), Core(d), Dirs, Eighths)
<1> SUFFICES ASSUME NEW c \in Core(d), NEW x \in Dirs
    PROVE  LowMachine(d)[<<c, x>>] \in Core(d) \X Seq(Eighths)
  BY DEF Machine
<1>1. c \in Sums /\ x \in Pairs
  BY DirsArePairs DEF Core
<1> DEFINE r == c[1] + x[1]
           j == c[2] + x[2]
           i == c[3] + 1
           z == 0
           y == <<Int16(r), Int16(j)>>
           one == <<y>>
           nil == <<>>
<1>2. LowMachine(d)[<<c, x>>] = IF i < d THEN <<<<r, j, i>>, nil>> ELSE <<<<z, z, z>>, one>>
  BY <1>1 DEF LowMachine
<1>3. /\ c[1] \in Int /\ c[2] \in Int /\ c[3] \in Nat /\ c[3] < d /\ c[3] \in {0, 1}
      /\ c[3] = 0 => c[1] = 0 /\ c[2] = 0
      /\ c[3] # 0 => <<c[1], c[2]>> \in Dirs
  <2>1. /\ c[1] \in Int /\ c[2] \in Int /\ c[3] \in Nat /\ c[3] < d
        /\ c[3] = 0 => c[1] = 0 /\ c[2] = 0
        /\ c[3] # 0 => <<c[1], c[2]>> \in Dirs
    BY DEF Core, Sums
  <2>2. c[3] \in {0, 1}
    BY <2>1, SMT
  <2> QED BY <2>1, <2>2
<1>4. /\ x = <<x[1], x[2]>> /\ x[1] \in Int /\ x[2] \in Int
      /\ -127 <= x[1] /\ x[1] <= 127 /\ -127 <= x[2] /\ x[2] <= 127
      /\ Eighth(x[1], x[2])
  <2>1. Eighth(x[1], x[2])
    BY DirsArePairs, SMT DEF Eighth
  <2> QED BY <2>1, DirsArePairs
<1>5. ASSUME c[3] = 0
      PROVE  r = x[1] /\ j = x[2]
  BY <1>3, <1>4, <1>5, SMT
<1>6. /\ r \in Int /\ j \in Int /\ -254 <= r /\ r <= 254 /\ -254 <= j /\ j <= 254
      /\ Eighth(r, j)
  <2>1. CASE c[3] = 0
    <3>1. r = x[1] /\ j = x[2]
      BY <1>5, <2>1
    <3> HIDE DEF r, j
    <3> QED BY <1>4, <3>1, SMT
  <2>2. CASE c[3] # 0
    <3> DEFINE v == <<c[1], c[2]>>
    <3>1. v \in Dirs
      BY <1>3, <2>2
    <3>2. v[1] = c[1] /\ v[2] = c[2]
      OBVIOUS
    <3> HIDE DEF v
    <3>3. Eighth(v[1] + x[1], v[2] + x[2])
      BY <3>1, SumIsEighth
    <3>4. -127 <= c[1] /\ c[1] <= 127 /\ -127 <= c[2] /\ c[2] <= 127
      BY <3>1, <3>2, DirsArePairs
    <3>5. Eighth(r, j)
      BY <3>2, <3>3
    <3> QED BY <1>3, <1>4, <3>4, <3>5, SMT
  <2> QED BY <2>1, <2>2
<1>7. y = <<r, j>>
  <2> HIDE DEF r, j
  <2>1. Int16(r) = r /\ Int16(j) = j
    BY <1>6, SmallInt16
  <2> QED BY <2>1
<1>8. y \in Eighths
  <2> HIDE DEF r, j, y
  <2>1. y \in Pairs
    BY <1>6, <1>7 DEF Pairs
  <2>2. y[1] = r /\ y[2] = j
    BY <1>7
  <2> QED BY <1>6, <2>1, <2>2 DEF Eighths
<1>9. one \in Seq(Eighths) /\ nil \in Seq(Eighths)
  <2> HIDE DEF y
  <2> QED BY <1>8
<1>10. <<z, z, z>> \in Core(d)
  <2>1. z \in Nat /\ z < d
    BY SMT
  <2>2. z = 0
    OBVIOUS
  <2> HIDE DEF z
  <2> QED BY <2>1, <2>2 DEF Core, Sums
<1>11. i < d => <<r, j, i>> \in Core(d)
  <2> SUFFICES ASSUME i < d PROVE <<r, j, i>> \in Core(d)
    OBVIOUS
  <2>1. c[3] = 0 /\ i \in Nat /\ i # 0
    BY <1>3, SMT
  <2>2. r = x[1] /\ j = x[2]
    BY <1>5, <2>1
  <2>3. <<r, j>> \in Dirs
    BY <1>4, <2>2
  <2> HIDE DEF r, j, i
  <2>4. <<r, j, i>> \in Sums
    BY <1>6, <2>1 DEF Sums
  <2> DEFINE t == <<r, j, i>>
  <2>5. t[1] = r /\ t[2] = j /\ t[3] = i
    OBVIOUS
  <2>6. t \in Sums
    BY <2>4
  <2> HIDE DEF t
  <2>7. t \in Core(d)
    BY <2>1, <2>3, <2>5, <2>6 DEF Core
  <2> QED BY <2>7 DEF t
<1> HIDE DEF r, j, i, z, one, nil
<1>12. /\ i < d => <<<<r, j, i>>, nil>> \in Core(d) \X Seq(Eighths)
       /\ <<<<z, z, z>>, one>> \in Core(d) \X Seq(Eighths)
  BY <1>9, <1>10, <1>11
<1> QED BY <1>2, <1>12, Zenon

(* Every sample is in a sum that was written or in the one that waits.       *)
LEMMA LowCount ==
  ASSUME NEW d \in {1, 2}, NEW c \in Core(d), NEW s \in Seq(Dirs)
  PROVE  State(LowMachine(d), c, s)[3] + d * Len(Emitted(LowMachine(d), c, s)) = c[3] + Len(s)
<1> DEFINE n == Len(s)
           M == LowMachine(d)
<1>1. n \in Nat /\ \A k \in 1 .. n : s[k] \in Dirs
  OBVIOUS
<1>2. Machine(M, Core(d), Dirs, Eighths)
  BY LowKeepsEighths
<1>3. PICK f : Emits(f, M, c, s) /\ f[n] = <<State(M, c, s), Emitted(M, c, s)>>
  <2>1. Ended(M, c, s)
    BY <1>2, EndsAre
  <2> QED BY <2>1, Zenon DEF Ended
<1> DEFINE S == {k \in Nat : k <= n => f[k][1][3] + d * Len(f[k][2]) = c[3] + k}
<1>4. c[3] \in Nat
  BY DEF Core
<1>5. 0 \in S
  <2>1. f[0] = <<c, <<>>>>
    BY <1>3 DEF Emits
  <2> DEFINE l == Len(f[0][2])
  <2>2. f[0][1][3] = c[3] /\ l = 0
    BY <2>1
  <2> HIDE DEF l
  <2>3. c[3] + d * l = c[3] + 0
    BY <1>4, <2>2, SMT
  <2> QED BY <2>2, <2>3 DEF l
<1>6. ASSUME NEW k \in Nat, k \in S PROVE k + 1 \in S
  <2>1. SUFFICES ASSUME k + 1 <= n
        PROVE f[k + 1][1][3] + d * Len(f[k + 1][2]) = c[3] + (k + 1)
    OBVIOUS
  <2>2. /\ k + 1 \in 1 .. n /\ (k + 1) - 1 = k /\ k \in 0 .. n
        /\ f[k][1][3] + d * Len(f[k][2]) = c[3] + k
    BY <1>1, <1>6, <2>1
  <2> DEFINE p == f[k]
             x == s[k + 1]
             b == p[1]
             o == p[2]
             r == M[<<b, x>>]
             a == r[1]
             w == r[2]
  <2>3. p \in Core(d) \X Seq(Eighths) /\ x \in Dirs
    BY <1>1, <1>2, <1>3, <2>2, EmitsTyped
  <2>4. b \in Core(d) /\ o \in Seq(Eighths)
    BY <2>3
  <2>5. f[k + 1] = <<a, o \o w>>
    BY <1>3, <2>2 DEF Emits
  <2>6. r \in Core(d) \X Seq(Eighths)
    BY <1>2, <2>3, <2>4 DEF Machine
  <2>7. a[3] + d * Len(w) = b[3] + 1
    <3>1. b \in Sums /\ x \in Pairs
      BY <2>3, <2>4, DirsArePairs DEF Core
    <3> DEFINE i == b[3] + 1
               y == <<Int16(b[1] + x[1]), Int16(b[2] + x[2])>>
               t == <<b[1] + x[1], b[2] + x[2], i>>
               z == <<0, 0, 0>>
    <3>2. r = IF i < d THEN <<t, <<>>>> ELSE <<z, <<y>>>>
      BY <3>1 DEF LowMachine
    <3>3. t[3] = i /\ z[3] = 0
      OBVIOUS
    <3>4. b[3] \in Nat /\ b[3] < d
      BY <2>4 DEF Core
    <3> DEFINE l == Len(w)
    <3>5. a[3] = IF i < d THEN i ELSE 0
      <4> HIDE DEF i, t, z, y, r
      <4> QED BY <3>2, <3>3
    <3>6. l = IF i < d THEN 0 ELSE 1
      <4> HIDE DEF i, t, z, y, r
      <4> QED BY <3>2
    <3> HIDE DEF l, a
    <3>7. a[3] + d * l = b[3] + 1
      BY <3>4, <3>5, <3>6, SMT
    <3> QED BY <3>7 DEF l
  <2>8. Len(o \o w) = Len(o) + Len(w) /\ Len(o) \in Nat /\ Len(w) \in Nat
    <3>1. w \in Seq(Eighths)
      BY <2>6
    <3> HIDE DEF w, o
    <3> QED BY <2>4, <3>1
  <2> DEFINE lo == Len(o)
             lw == Len(w)
  <2>9. b[3] \in Nat /\ a[3] \in Nat
    <3>1. a \in Core(d)
      BY <2>6
    <3> HIDE DEF a, b
    <3> QED BY <2>4, <3>1 DEF Core
  <2> DEFINE h == o \o w
  <2>10. f[k + 1][1][3] = a[3] /\ Len(f[k + 1][2]) = lo + lw
    <3> HIDE DEF a
    <3>1. f[k + 1] = <<a, h>>
      BY <2>5
    <3>2. Len(h) = lo + lw
      BY <2>8
    <3> DEFINE g == f[k + 1]
    <3> HIDE DEF h, g
    <3>3. g[1] = a /\ g[2] = h
      BY <3>1 DEF g
    <3>4. g[1][3] = a[3] /\ Len(g[2]) = lo + lw
      BY <3>2, <3>3, Zenon
    <3> QED BY <3>4 DEF g
  <2>11. a[3] + d * lw = b[3] + 1 /\ b[3] + d * lo = c[3] + k /\ lo \in Nat /\ lw \in Nat
    BY <2>2, <2>7, <2>8
  <2> HIDE DEF lo, lw, a, b
  <2>12. a[3] + d * (lo + lw) = c[3] + (k + 1)
    <3> DEFINE a3 == a[3]
               b3 == b[3]
               c3 == c[3]
    <3>0. a3 \in Nat /\ b3 \in Nat /\ c3 \in Nat
      BY <1>4, <2>9
    <3>1. d = 1 \/ d = 2
      OBVIOUS
    <3> HIDE DEF a3, b3, c3
    <3>2. CASE d = 1
      <4>1. a3 + 1 * lw = b3 + 1 /\ b3 + 1 * lo = c3 + k
        BY <2>11, <3>2 DEF a3, b3, c3
      <4>2. a3 + 1 * (lo + lw) = c3 + (k + 1)
        BY <2>11, <3>0, <4>1, SMT
      <4> QED BY <3>2, <4>2 DEF a3, c3
    <3>3. CASE d = 2
      <4>1. a3 + 2 * lw = b3 + 1 /\ b3 + 2 * lo = c3 + k
        BY <2>11, <3>3 DEF a3, b3, c3
      <4>2. a3 + 2 * (lo + lw) = c3 + (k + 1)
        BY <2>11, <3>0, <4>1, SMT
      <4> QED BY <3>3, <4>2 DEF a3, c3
    <3> QED BY <3>1, <3>2, <3>3
  <2> QED BY <2>10, <2>12
<1>7. n \in S
  <2> HIDE DEF S, n
  <2> QED BY <1>1, <1>5, <1>6, Induction
<1>8. f[n][1][3] + d * Len(f[n][2]) = c[3] + n
  BY <1>1, <1>7
<1> QED BY <1>3, <1>8

(* A block of as many samples as are summed writes one sum at least.         *)
LEMMA LowWrites ==
  ASSUME NEW d \in {1, 2}, NEW c \in Core(d), NEW s \in Seq(Dirs), Len(s) >= d
  PROVE  /\ State(LowMachine(d), c, s) \in Core(d)
         /\ Emitted(LowMachine(d), c, s) \in Seq(Eighths)
         /\ Len(Emitted(LowMachine(d), c, s)) \in Nat \ {0}
<1> DEFINE b == State(LowMachine(d), c, s)
           o == Emitted(LowMachine(d), c, s)
           l == Len(o)
<1>1. b \in Core(d) /\ o \in Seq(Eighths)
  BY LowKeepsEighths, EndsAre DEF State, Emitted
<1>2. b[3] + d * l = c[3] + Len(s)
  BY LowCount
<1> HIDE DEF b, o
<1>3. /\ b[3] \in Nat /\ b[3] < d /\ c[3] \in Nat /\ l \in Nat /\ Len(s) \in Nat
  BY <1>1 DEF Core
<1> HIDE DEF l
<1>4. l # 0
  BY <1>2, <1>3, SMT
<1> QED BY <1>1, <1>3, <1>4 DEF b, o, l

LEMMA TurnsAreEighths ==
  ASSUME NEW now \in Eighths, NEW then \in Eighths
  PROVE  LET t == Turn(now, then) IN t.r \in Int /\ t.j \in Int /\ Eighth(t.r, t.j)
<1> DEFINE a == now[1]
           b == now[2]
           e == then[1]
           f == then[2]
           r == a * e + b * f
           j == b * e - a * f
<1>1. /\ a \in Int /\ b \in Int /\ e \in Int /\ f \in Int
      /\ a = 0 \/ b = 0 \/ a = b \/ a = -b
      /\ e = 0 \/ f = 0 \/ e = f \/ e = -f
  BY DEF Eighths, Eighth, Pairs
<1>2. Turn(now, then).r = r /\ Turn(now, then).j = j
  BY DEF Turn
<1> HIDE DEF a, b, e, f
<1>3. r \in Int /\ j \in Int
  BY <1>1
<1>4. r = 0 \/ j = 0 \/ r = j \/ r = -j
  <2>1. CASE a = 0
    BY <1>1, <2>1
  <2>2. CASE b = 0
    BY <1>1, <2>2
  <2>3. CASE a = b
    BY <1>1, <2>3
  <2>4. CASE a = -b
    BY <1>1, <2>4
  <2> QED BY <1>1, <2>1, <2>2, <2>3, <2>4
<1> QED BY <1>2, <1>3, <1>4 DEF Eighth

LEMMA TruncOfMultiple ==
  ASSUME NEW k \in Nat, NEW x \in Nat \ {0}
  PROVE  /\ Trunc(k * x, x) = k /\ Trunc(k * (-x), x) = -k
         /\ Trunc(k * x, -x) = -k /\ Trunc(k * (-x), -x) = k
<1> DEFINE p == k * x
<1>1. p \in Nat /\ k * (-x) = -p
  BY SMT
<1>2. p \div x = k
  <2> DEFINE u == p \div x
             v == p % x
  <2>1. p = k * x + 0
    BY SMT
  <2> HIDE DEF p
  <2>2. u \in Nat /\ v \in Nat /\ v < x /\ u * x + v = p
    BY <1>1, Division
  <2> HIDE DEF u, v
  <2>3. v \in 0 .. x - 1 /\ 0 \in 0 .. x - 1 /\ u * x + v = k * x + 0
    BY <2>1, <2>2
  <2>4. u = k
    BY <2>2, <2>3, QuotientUnique
  <2> QED BY <2>4 DEF u
<1> QED BY <1>1, <1>2, SMT DEF Trunc, Magnitude

LEMMA TruncOfNothing == ASSUME NEW x \in Nat \ {0} PROVE Trunc(0, x) = 0
<1>1. 0 \div x = 0
  <2> DEFINE u == 0 \div x
             v == 0 % x
  <2>1. u \in Nat /\ v \in Nat /\ v < x /\ u * x + v = 0
    BY Division
  <2> HIDE DEF u, v
  <2>2. v \in 0 .. x - 1 /\ 0 \in 0 .. x - 1 /\ u * x + v = 0 * x + 0
    BY <2>1
  <2>3. u = 0
    BY <2>1, <2>2, QuotientUnique
  <2> QED BY <2>3 DEF u
<1> QED BY <1>1, SMT DEF Trunc, Magnitude

(* Of an eighth of a turn the three ways to find its angle agree.            *)
LEMMA AnglesAgree ==
  ASSUME NEW r \in Int, NEW j \in Int, Eighth(r, j)
  PROVE  /\ FastAtan2(j, r) = ExactAtan2(j, r)
         /\ LutAtan2(j, r) = ExactAtan2(j, r)
         /\ ExactAtan2(j, r) \in Int
<1>1. CASE r = 0 /\ j = 0
  BY <1>1, SMT DEF FastAtan2, LutAtan2, ExactAtan2
<1>2. CASE j = 0 /\ r > 0
  <2>1. Trunc(4096 * (r - 0), r + 0) = 4096
    <3> DEFINE y == r + 0
               k == 4096
    <3>1. y \in Nat \ {0} /\ k \in Nat /\ 4096 * (r - 0) = k * y
      BY <1>2, SMT
    <3> HIDE DEF y, k
    <3>2. Trunc(k * y, y) = k
      <4>1. y \in Nat \ {0} /\ k \in Nat
        BY <3>1
      <4> QED BY <4>1, TruncOfMultiple, Zenon
    <3>3. Trunc(4096 * (r - 0), y) = k
      BY <3>1, <3>2
    <3> QED BY <3>3 DEF y, k
  <2>2. ExactAtan2(j, r) = 0
    BY <1>2, SMT DEF ExactAtan2
  <2>3. FastAtan2(j, r) = 0
    BY <1>2, <2>1, SMT DEF FastAtan2, Magnitude
  <2>4. LutAtan2(j, r) = 0
    BY <1>2, SMT DEF LutAtan2
  <2> QED BY <2>2, <2>3, <2>4, SMT
<1>3. CASE j = 0 /\ r < 0
  <2>1. Trunc(4096 * (r + 0), 0 - r) = -4096
    <3> DEFINE y == 0 - r
               k == 4096
    <3>1. y \in Nat \ {0} /\ k \in Nat /\ 4096 * (r + 0) = k * (-y)
      BY <1>3, SMT
    <3> HIDE DEF y, k
    <3>2. Trunc(k * (-y), y) = -k
      <4>1. y \in Nat \ {0} /\ k \in Nat
        BY <3>1
      <4> QED BY <4>1, TruncOfMultiple, Zenon
    <3>3. Trunc(4096 * (r + 0), y) = -k
      BY <3>1, <3>2
    <3> QED BY <3>3 DEF y, k
  <2>2. ExactAtan2(j, r) = 16384
    BY <1>3, SMT DEF ExactAtan2
  <2>3. FastAtan2(j, r) = 16384
    BY <1>3, <2>1, SMT DEF FastAtan2, Magnitude
  <2>4. LutAtan2(j, r) = 16384
    BY <1>3, SMT DEF LutAtan2
  <2> QED BY <2>2, <2>3, <2>4, SMT
<1>4. CASE r = 0 /\ j > 0
  <2>1. Trunc(4096 * (0 - j), 0 + j) = -4096
    <3> DEFINE y == 0 + j
               k == 4096
    <3>1. y \in Nat \ {0} /\ k \in Nat /\ 4096 * (0 - j) = k * (-y)
      BY <1>4, SMT
    <3> HIDE DEF y, k
    <3>2. Trunc(k * (-y), y) = -k
      <4>1. y \in Nat \ {0} /\ k \in Nat
        BY <3>1
      <4> QED BY <4>1, TruncOfMultiple, Zenon
    <3>3. Trunc(4096 * (0 - j), y) = -k
      BY <3>1, <3>2
    <3> QED BY <3>3 DEF y, k
  <2>2. ExactAtan2(j, r) = 8192
    BY <1>4, SMT DEF ExactAtan2
  <2>3. FastAtan2(j, r) = 8192
    BY <1>4, <2>1, SMT DEF FastAtan2, Magnitude
  <2>4. LutAtan2(j, r) = 8192
    BY <1>4, SMT DEF LutAtan2
  <2> QED BY <2>2, <2>3, <2>4, SMT
<1>5. CASE r = 0 /\ j < 0
  <2>1. Trunc(4096 * (0 - (-j)), 0 + (-j)) = -4096
    <3> DEFINE y == 0 + (-j)
               k == 4096
    <3>1. y \in Nat \ {0} /\ k \in Nat /\ 4096 * (0 - (-j)) = k * (-y)
      BY <1>5, SMT
    <3> HIDE DEF y, k
    <3>2. Trunc(k * (-y), y) = -k
      <4>1. y \in Nat \ {0} /\ k \in Nat
        BY <3>1
      <4> QED BY <4>1, TruncOfMultiple, Zenon
    <3>3. Trunc(4096 * (0 - (-j)), y) = -k
      BY <3>1, <3>2
    <3> QED BY <3>3 DEF y, k
  <2>2. ExactAtan2(j, r) = -8192
    BY <1>5, SMT DEF ExactAtan2
  <2>3. FastAtan2(j, r) = -8192
    BY <1>5, <2>1, SMT DEF FastAtan2, Magnitude
  <2>4. LutAtan2(j, r) = -8192
    BY <1>5, SMT DEF LutAtan2
  <2> QED BY <2>2, <2>3, <2>4, SMT
<1>6. CASE r = j /\ j > 0
  <2>1. Trunc(4096 * (r - j), r + j) = 0
    <3> DEFINE y == r + j
    <3>1. y \in Nat \ {0} /\ 4096 * (r - j) = 0
      BY <1>6, SMT
    <3> HIDE DEF y
    <3>2. Trunc(0, y) = 0
      BY <3>1, TruncOfNothing
    <3> QED BY <3>1, <3>2 DEF y
  <2>2. ExactAtan2(j, r) = 4096
    BY <1>6, SMT DEF ExactAtan2
  <2>3. FastAtan2(j, r) = 4096
    BY <1>6, <2>1, SMT DEF FastAtan2, Magnitude
  <2>4. Trunc(j * 256, r) = 256
    <3> DEFINE y == j
               k == 256
    <3>1. y \in Nat \ {0} /\ k \in Nat /\ j * 256 = k * y /\ r = y
      BY <1>6, SMT
    <3> HIDE DEF y, k
    <3>2. Trunc(k * y, y) = k
      <4>1. y \in Nat \ {0} /\ k \in Nat
        BY <3>1
      <4> QED BY <4>1, TruncOfMultiple, Zenon
    <3>3. Trunc(j * 256, r) = k
      BY <3>1, <3>2
    <3> QED BY <3>3 DEF k
  <2>5. LutAtan2(j, r) = 4096
    BY <1>6, <2>4, SMT DEF LutAtan2
  <2> QED BY <2>2, <2>3, <2>5, SMT
<1>7. CASE r = j /\ j < 0
  <2>1. Trunc(4096 * (r + (-j)), (-j) - r) = 0
    <3> DEFINE y == (-j) - r
    <3>1. y \in Nat \ {0} /\ 4096 * (r + (-j)) = 0
      BY <1>7, SMT
    <3> HIDE DEF y
    <3>2. Trunc(0, y) = 0
      BY <3>1, TruncOfNothing
    <3> QED BY <3>1, <3>2 DEF y
  <2>2. ExactAtan2(j, r) = -12288
    BY <1>7, SMT DEF ExactAtan2
  <2>3. FastAtan2(j, r) = -12288
    BY <1>7, <2>1, SMT DEF FastAtan2, Magnitude
  <2>4. Trunc(j * 256, r) = 256
    <3> DEFINE y == -j
               k == 256
    <3>1. y \in Nat \ {0} /\ k \in Nat /\ j * 256 = k * (-y) /\ r = -y
      BY <1>7, SMT
    <3> HIDE DEF y, k
    <3>2. Trunc(k * (-y), -y) = k
      <4>1. y \in Nat \ {0} /\ k \in Nat
        BY <3>1
      <4> QED BY <4>1, TruncOfMultiple, Zenon
    <3>3. Trunc(j * 256, r) = k
      BY <3>1, <3>2
    <3> QED BY <3>3 DEF k
  <2>5. LutAtan2(j, r) = -12288
    BY <1>7, <2>4, SMT DEF LutAtan2
  <2> QED BY <2>2, <2>3, <2>5, SMT
<1>8. CASE r = -j /\ j > 0
  <2>1. Trunc(4096 * (r + j), j - r) = 0
    <3> DEFINE y == j - r
    <3>1. y \in Nat \ {0} /\ 4096 * (r + j) = 0
      BY <1>8, SMT
    <3> HIDE DEF y
    <3>2. Trunc(0, y) = 0
      BY <3>1, TruncOfNothing
    <3> QED BY <3>1, <3>2 DEF y
  <2>2. ExactAtan2(j, r) = 12288
    BY <1>8, SMT DEF ExactAtan2
  <2>3. FastAtan2(j, r) = 12288
    BY <1>8, <2>1, SMT DEF FastAtan2, Magnitude
  <2>4. Trunc(j * 256, r) = -256
    <3> DEFINE y == j
               k == 256
    <3>1. y \in Nat \ {0} /\ k \in Nat /\ j * 256 = k * y /\ r = -y
      BY <1>8, SMT
    <3> HIDE DEF y, k
    <3>2. Trunc(k * y, -y) = -k
      <4>1. y \in Nat \ {0} /\ k \in Nat
        BY <3>1
      <4> QED BY <4>1, TruncOfMultiple, Zenon
    <3>3. Trunc(j * 256, r) = -k
      BY <3>1, <3>2
    <3> QED BY <3>3 DEF k
  <2>5. LutAtan2(j, r) = 12288
    BY <1>8, <2>4, SMT DEF LutAtan2
  <2> QED BY <2>2, <2>3, <2>5, SMT
<1>9. CASE r = -j /\ j < 0
  <2>1. Trunc(4096 * (r - (-j)), r + (-j)) = 0
    <3> DEFINE y == r + (-j)
    <3>1. y \in Nat \ {0} /\ 4096 * (r - (-j)) = 0
      BY <1>9, SMT
    <3> HIDE DEF y
    <3>2. Trunc(0, y) = 0
      BY <3>1, TruncOfNothing
    <3> QED BY <3>1, <3>2 DEF y
  <2>2. ExactAtan2(j, r) = -4096
    BY <1>9, SMT DEF ExactAtan2
  <2>3. FastAtan2(j, r) = -4096
    BY <1>9, <2>1, SMT DEF FastAtan2, Magnitude
  <2>4. Trunc(j * 256, r) = -256
    <3> DEFINE y == -j
               k == 256
    <3>1. y \in Nat \ {0} /\ k \in Nat /\ j * 256 = k * (-y) /\ r = y
      BY <1>9, SMT
    <3> HIDE DEF y, k
    <3>2. Trunc(k * (-y), y) = -k
      <4>1. y \in Nat \ {0} /\ k \in Nat
        BY <3>1
      <4> QED BY <4>1, TruncOfMultiple, Zenon
    <3>3. Trunc(j * 256, r) = -k
      BY <3>1, <3>2
    <3> QED BY <3>3 DEF k
  <2>5. LutAtan2(j, r) = -4096
    BY <1>9, <2>4, SMT DEF LutAtan2
  <2> QED BY <2>2, <2>3, <2>5, SMT
<1> QED BY <1>1, <1>2, <1>3, <1>4, <1>5, <1>6, <1>7, <1>8, <1>9, SMT DEF Eighth

LEMMA PowersAreNat == \A k \in 1 .. 15 : 2 ^ (15 - k) \in Nat
<1> SUFFICES ASSUME NEW k \in 1 .. 15 PROVE 2 ^ (15 - k) \in Nat
  OBVIOUS
<1> DEFINE i == 15 - k
<1>1. i \in 0 .. 14
  BY SMT
<1> HIDE DEF i
<1>2. /\ 2 ^ 0 \in Nat /\ 2 ^ 1 \in Nat /\ 2 ^ 2 \in Nat /\ 2 ^ 3 \in Nat /\ 2 ^ 4 \in Nat
      /\ 2 ^ 5 \in Nat /\ 2 ^ 6 \in Nat /\ 2 ^ 7 \in Nat /\ 2 ^ 8 \in Nat /\ 2 ^ 9 \in Nat
      /\ 2 ^ 10 \in Nat /\ 2 ^ 11 \in Nat /\ 2 ^ 12 \in Nat /\ 2 ^ 13 \in Nat /\ 2 ^ 14 \in Nat
  BY SMT
<1>3. \/ i = 0 \/ i = 1 \/ i = 2 \/ i = 3 \/ i = 4
      \/ i = 5 \/ i = 6 \/ i = 7 \/ i = 8 \/ i = 9
      \/ i = 10 \/ i = 11 \/ i = 12 \/ i = 13 \/ i = 14
  BY <1>1, SMT
<1>4. 2 ^ i \in Nat
  BY <1>2, <1>3, Zenon
<1> QED BY <1>4 DEF i

RootStep(n, r, bit) == IF (r + bit) * (r + bit) <= n THEN r + bit ELSE r

LEMMA RootIsNat == ASSUME NEW v PROVE Root(v) \in Nat
<1> DEFINE n == 15
           bits == [k \in 1 .. n |-> 2 ^ (n - k)]
           z == 0
           G == [a \in Nat \X (1 .. n) |-> RootStep(v, a[1], bits[a[2]])]
           Reads(it) == it = [t \in SUBSET (1 .. n) |->
             IF t = {} THEN z ELSE RootStep(v, it[t \ {Max(t)}], bits[Max(t)])]
<1>1. n \in Nat /\ z \in Nat
  BY SMT
<1>2. \A k \in 1 .. n : bits[k] \in Nat
  BY PowersAreNat
<1>3. DOMAIN bits = 1 .. n
  OBVIOUS
<1> DEFINE it == CHOOSE it : Reads(it)
<1>4. Root(v) = it[1 .. n]
  BY <1>3 DEF Root, FoldLeft, MapThenFoldSet, RootStep
<1> HIDE DEF n, bits, z, it
<1>5. ASSUME NEW r \in Nat, NEW k \in 1 .. n PROVE RootStep(v, r, bits[k]) \in Nat
  <2> DEFINE b == bits[k]
  <2>1. b \in Nat
    BY <1>2
  <2> HIDE DEF b
  <2>2. r + b \in Nat
    BY <2>1
  <2>3. RootStep(v, r, b) \in Nat
    BY <2>2 DEF RootStep
  <2> QED BY <2>3 DEF b
<1>6. G \in [Nat \X (1 .. n) -> Nat]
  BY <1>5
<1>7. \E f : Runs(f, n, Nat, z, G)
  <2> HIDE DEF G
  <2> QED BY <1>1, <1>6, FoldRun
<1>8. PICK f : Runs(f, n, Nat, z, G)
  BY <1>7
<1>9. Reads(f)
  <2>1. f = [t \in SUBSET (1 .. n) |-> f[t]]
    BY <1>8 DEF Runs
  <2>2. ASSUME NEW t \in SUBSET (1 .. n)
        PROVE  f[t] = IF t = {} THEN z ELSE RootStep(v, f[t \ {Max(t)}], bits[Max(t)])
    <3>1. CASE t = {}
      BY <1>8, <3>1 DEF Runs
    <3>2. CASE t # {}
      <4>1. f[t \ {Max(t)}] \in Nat /\ Max(t) \in 1 .. n
        <5> HIDE DEF G
        <5> QED BY <1>1, <1>8, <3>2, MaxOf DEF Runs
      <4>2. f[t] = G[f[t \ {Max(t)}], Max(t)]
        BY <1>8, <3>2 DEF Runs
      <4> QED BY <3>2, <4>1, <4>2
    <3> QED BY <3>1, <3>2
  <2> QED BY <2>1, <2>2
<1>10. Reads(it)
  <2>1. \E g : Reads(g)
    BY <1>9
  <2> HIDE DEF Reads
  <2> QED BY <2>1 DEF it
<1> DEFINE S == {k \in Nat : k <= n => it[1 .. k] \in Nat}
<1>11. 0 \in S
  <2>1. 1 .. 0 = {} /\ {} \in SUBSET (1 .. n)
    OBVIOUS
  <2>2. it[1 .. 0] = z
    BY <1>10, <2>1
  <2> QED BY <1>1, <2>2
<1>12. ASSUME NEW k \in Nat, k \in S PROVE k + 1 \in S
  <2>1. SUFFICES ASSUME k + 1 <= n PROVE it[1 .. k + 1] \in Nat
    OBVIOUS
  <2>2. /\ 1 .. k + 1 \in SUBSET (1 .. n) /\ 1 .. k + 1 # {} /\ k + 1 \in 1 .. n
        /\ Max(1 .. k + 1) = k + 1 /\ (1 .. k + 1) \ {k + 1} = 1 .. k
    BY <1>1, <2>1, MaxOfSegment
  <2>3. it[1 .. k + 1] = RootStep(v, it[1 .. k], bits[k + 1])
    BY <1>10, <2>2
  <2>4. it[1 .. k] \in Nat
    BY <1>1, <1>12, <2>1
  <2> QED BY <1>5, <2>2, <2>3, <2>4
<1>13. n \in S
  <2> HIDE DEF S
  <2> QED BY <1>1, <1>11, <1>12, Induction
<1> QED BY <1>1, <1>4, <1>13

(* What the demodulators make of a block of sums.                            *)
Pcm(z) ==
  CASE ask.mode = "usb" -> z[1] + z[2] [] ask.mode = "lsb" -> z[1] - z[2]
    [] OTHER -> Root(z[1] * z[1] + z[2] * z[2])
Sounds(low) == [n \in DOMAIN low |-> Int16(Int16(Pcm(low[n])) * 2)]

TurnAngle(z, y) == Int16(ExactAtan2(Turn(z, y).j, Turn(z, y).r))
AngleSeq(pre, low) ==
  [n \in DOMAIN low |-> TurnAngle(low[n], IF n = 1 THEN pre ELSE low[n - 1])]

LEMMA PcmIsInt == ASSUME NEW z \in Pairs PROVE Pcm(z) \in Int
<1>1. z[1] + z[2] \in Int /\ z[1] - z[2] \in Int
  BY DEF Pairs
<1> DEFINE v == Root(z[1] * z[1] + z[2] * z[2])
<1>2. v \in Int
  BY RootIsNat
<1> HIDE DEF v
<1>3. Pcm(z) = IF ask.mode = "usb" THEN z[1] + z[2]
               ELSE IF ask.mode = "lsb" THEN z[1] - z[2] ELSE v
  BY DEF Pcm, v
<1> QED BY <1>1, <1>2, <1>3

LEMMA LinearIs ==
  ASSUME NEW c, NEW pre, NEW avg, NEW q, NEW o, NEW low \in Seq(Pairs)
  PROVE  /\ LinearDemod(Radio(c, pre, avg, q, o), low) = Radio(c, pre, avg, q, Sounds(low))
         /\ Sounds(low) \in Seq(Int)
<1> DEFINE w == Radio(c, pre, avg, q, o)
           sounds == Sounds(low)
<1>1. w.mode = ask.mode /\ w.output_scale = 2
  BY DEF Radio
<1>2. LinearDemod(w, low) = [w EXCEPT !.out = sounds]
  BY <1>1 DEF LinearDemod, Sounds, Pcm
<1>3. [w EXCEPT !.out = sounds] = Radio(c, pre, avg, q, sounds)
  <2> HIDE DEF sounds
  <2>1. FieldsSet(c, pre, avg, q, o, sounds)
    BY RadioFields
  <2> QED BY <2>1, Zenon DEF FieldsSet
<1>4. sounds \in Seq(Int)
  <2>1. \A n \in DOMAIN low : Int16(Int16(Pcm(low[n])) * 2) \in Int
    <3> TAKE n \in DOMAIN low
    <3> DEFINE v == Int16(Pcm(low[n]))
               t == v * 2
    <3>1. Pcm(low[n]) \in Int
      BY PcmIsInt
    <3>2. v \in Int
      BY <3>1, Int16IsInt
    <3> HIDE DEF v
    <3>3. t \in Int
      BY <3>2
    <3> HIDE DEF t
    <3>4. Int16(t) \in Int
      BY <3>3, Int16IsInt
    <3> QED BY <3>4 DEF t, v
  <2>2. sounds \in [1 .. Len(low) -> Int] /\ Len(low) \in Nat
    BY <2>1 DEF Sounds
  <2> HIDE DEF sounds
  <2> QED BY <2>2
<1> QED BY <1>2, <1>3, <1>4

LEMMA TurnAngleIs ==
  ASSUME NEW z \in Eighths, NEW y \in Eighths
  PROVE  LET t == Turn(z, y)
         IN  /\ Int16(ExactAtan2(t.j, t.r)) = TurnAngle(z, y)
             /\ Int16(FastAtan2(t.j, t.r)) = TurnAngle(z, y)
             /\ Int16(LutAtan2(t.j, t.r)) = TurnAngle(z, y)
             /\ TurnAngle(z, y) \in Int
<1> DEFINE t == Turn(z, y)
           r == t.r
           j == t.j
<1>1. r \in Int /\ j \in Int /\ Eighth(r, j)
  BY TurnsAreEighths
<1>4. TurnAngle(z, y) = Int16(ExactAtan2(j, r))
  BY DEF TurnAngle
<1> HIDE DEF r, j
<1>2. FastAtan2(j, r) = ExactAtan2(j, r) /\ LutAtan2(j, r) = ExactAtan2(j, r)
      /\ ExactAtan2(j, r) \in Int
  BY <1>1, AnglesAgree
<1>3. Int16(ExactAtan2(j, r)) \in Int
  BY <1>2, Int16IsInt
<1>5. /\ Int16(ExactAtan2(j, r)) = TurnAngle(z, y)
      /\ Int16(FastAtan2(j, r)) = TurnAngle(z, y)
      /\ Int16(LutAtan2(j, r)) = TurnAngle(z, y)
      /\ TurnAngle(z, y) \in Int
  BY <1>2, <1>3, <1>4
<1> QED BY <1>5 DEF r, j

LEMMA FmIs ==
  ASSUME NEW c, NEW pre \in Eighths, NEW avg, NEW q, NEW o, NEW low \in Seq(Eighths),
         ask.mode \in {"exact", "fast", "lut"}
  PROVE  /\ FmDemod(Radio(c, pre, avg, q, o), low)
              = Radio(c, Last(low), avg, q, AngleSeq(pre, low))
         /\ AngleSeq(pre, low) \in Seq(Int)
<1> DEFINE w == Radio(c, pre, avg, q, o)
           angles == AngleSeq(pre, low)
           last == Last(low)
           before(n) == IF n = 1 THEN pre ELSE low[n - 1]
<1>1. w.mode = ask.mode /\ w.pre = pre
  BY DEF Radio
<1>2. \A n \in DOMAIN low : low[n] \in Eighths /\ before(n) \in Eighths
  OBVIOUS
<1>3. Angles(w, low) = angles
  <2> DEFINE t(n) == Turn(low[n], before(n))
             angle(n) == IF n = 1 \/ w.mode = "exact" THEN ExactAtan2(t(n).j, t(n).r)
                         ELSE IF w.mode = "fast" THEN FastAtan2(t(n).j, t(n).r)
                         ELSE LutAtan2(t(n).j, t(n).r)
  <2>1. Angles(w, low) = [n \in DOMAIN low |-> Int16(angle(n))]
    BY <1>1 DEF Angles
  <2>2. \A n \in DOMAIN low : Int16(angle(n)) = TurnAngle(low[n], before(n))
    <3> TAKE n \in DOMAIN low
    <3> DEFINE u == t(n)
    <3>1. /\ Int16(ExactAtan2(u.j, u.r)) = TurnAngle(low[n], before(n))
          /\ Int16(FastAtan2(u.j, u.r)) = TurnAngle(low[n], before(n))
          /\ Int16(LutAtan2(u.j, u.r)) = TurnAngle(low[n], before(n))
      BY <1>2, TurnAngleIs
    <3>2. angle(n) \in {ExactAtan2(u.j, u.r), FastAtan2(u.j, u.r), LutAtan2(u.j, u.r)}
      OBVIOUS
    <3> HIDE DEF u, before, w, angle
    <3> QED BY <3>1, <3>2
  <2>3. angles = [n \in DOMAIN low |-> TurnAngle(low[n], before(n))]
    BY DEF AngleSeq
  <2> HIDE DEF angle, before, w, angles
  <2> QED BY <2>1, <2>2, <2>3
<1>4. angles \in Seq(Int)
  <2>1. \A n \in DOMAIN low : TurnAngle(low[n], before(n)) \in Int
    BY <1>2, TurnAngleIs
  <2>2. angles \in [1 .. Len(low) -> Int] /\ Len(low) \in Nat
    <3>1. angles = [n \in DOMAIN low |-> TurnAngle(low[n], before(n))]
      BY DEF AngleSeq
    <3>2. DOMAIN low = 1 .. Len(low) /\ Len(low) \in Nat
      OBVIOUS
    <3> HIDE DEF before, angles
    <3> QED BY <2>1, <3>1, <3>2
  <2> HIDE DEF angles
  <2> QED BY <2>2
<1>5. FmDemod(w, low) = [[w EXCEPT !.out = angles] EXCEPT !.pre = last]
  <2>1. FmDemod(w, low) = [w EXCEPT !.out = Angles(w, low), !.pre = last]
    BY DEF FmDemod
  <2> HIDE DEF w, angles, last
  <2> QED BY <1>3, <2>1
<1>6. [w EXCEPT !.out = angles] = Radio(c, pre, avg, q, angles)
  <2> HIDE DEF angles
  <2>1. FieldsSet(c, pre, avg, q, o, angles)
    BY RadioFields
  <2> QED BY <2>1, Zenon DEF FieldsSet
<1>7. [Radio(c, pre, avg, q, angles) EXCEPT !.pre = last] = Radio(c, last, avg, q, angles)
  <2> HIDE DEF angles, last
  <2>1. FieldsSet(c, pre, avg, q, angles, last)
    BY RadioFields
  <2> QED BY <2>1, Zenon DEF FieldsSet
<1> HIDE DEF w, angles, last
<1>8. FmDemod(w, low) = Radio(c, last, avg, q, angles)
  BY <1>5, <1>6, <1>7
<1> QED BY <1>4, <1>8 DEF w, angles, last

(* full_demod on one block, for each kind of demodulator.                    *)
LEMMA RawIs ==
  ASSUME NEW c \in Sums, NEW pre, NEW avg, NEW q, NEW o, NEW s \in Seq(Pairs),
         ask.mode = "raw"
  PROVE  FullDemod(Radio(c, pre, avg, q, o), s)
           = Radio(State(LowMachine(ask.downsample), c, s), pre, avg, q,
                   Emitted(LowMachine(ask.downsample), c, s))
<1> DEFINE w == Radio(c, pre, avg, q, o)
<1>1. w.mode = ask.mode
  BY DEF Radio
<1>2. FullDemod(w, s) = LowPass(w, s)
  BY <1>1 DEF FullDemod
<1> QED BY <1>2, LowPassIs

LEMMA LinearDemodIs ==
  ASSUME NEW c \in Sums, NEW pre, NEW avg, NEW q \in Pairs, NEW o, NEW s \in Seq(Pairs),
         ask.mode \in Linear, Rates
  PROVE  LET b     == State(LowMachine(ask.downsample), c, s)
             heard == Sounds(Emitted(LowMachine(ask.downsample), c, s))
         IN  /\ heard \in Seq(Int)
             /\ FullDemod(Radio(c, pre, avg, q, o), s)
                  = Radio(b, pre, avg, State(Resample, q, heard), Emitted(Resample, q, heard))
<1> DEFINE M == LowMachine(ask.downsample)
           w == Radio(c, pre, avg, q, o)
           b == State(M, c, s)
           low == Emitted(M, c, s)
           heard == Sounds(low)
           v == Radio(b, pre, avg, q, low)
           d == Radio(b, pre, avg, q, heard)
<1>1. low \in Seq(Pairs)
  BY LowIsMachine, EndsAre DEF Emitted
<1>2. LowPass(w, s) = v
  BY LowPassIs
<1>3. w.mode = ask.mode /\ v.out = low /\ d.out = heard
  BY DEF Radio
<1>4. LinearDemod(v, low) = d /\ heard \in Seq(Int)
  <2> HIDE DEF low, b
  <2> QED BY <1>1, LinearIs
<1>5. FullDemod(w, s) = LowPassReal(d, heard)
  <2> HIDE DEF v, d, w, heard, low
  <2>1. w.mode # "raw"
    BY <1>3 DEF Linear
  <2> QED BY <1>2, <1>3, <1>4, <2>1 DEF FullDemod
<1>6. LowPassReal(d, heard)
        = Radio(b, pre, avg, State(Resample, q, heard), Emitted(Resample, q, heard))
  <2> HIDE DEF heard, b
  <2> QED BY <1>4, RealIs
<1> QED BY <1>4, <1>5, <1>6

FmHeard(c, pre, avg, q, o, s) ==
  LET b      == State(LowMachine(ask.downsample), c, s)
      low    == Emitted(LowMachine(ask.downsample), c, s)
      angles == AngleSeq(pre, low)
      heard  == Emitted(DeemphMachine(7), avg, angles)
  IN  /\ angles \in Seq(Int) /\ heard \in Seq(Int)
      /\ State(DeemphMachine(7), avg, angles) \in Int
      /\ FullDemod(Radio(c, pre, avg, q, o), s)
           = Radio(b, Last(low), State(DeemphMachine(7), avg, angles),
                   State(Resample, q, heard), Emitted(Resample, q, heard))

LEMMA FmDemodIs ==
  ASSUME NEW c \in Core(ask.downsample), NEW pre \in Eighths, NEW avg \in Int,
         NEW q \in Pairs, NEW o, NEW s \in Seq(Dirs), Len(s) >= ask.downsample,
         ask.downsample \in {1, 2}, ask.mode \in {"exact", "fast", "lut"}, Rates
  PROVE  FmHeard(c, pre, avg, q, o, s)
<1> DEFINE M == LowMachine(ask.downsample)
           D == DeemphMachine(7)
           w == Radio(c, pre, avg, q, o)
           b == State(M, c, s)
           low == Emitted(M, c, s)
           last == Last(low)
           angles == AngleSeq(pre, low)
           a == State(D, avg, angles)
           heard == Emitted(D, avg, angles)
           v == Radio(b, pre, avg, q, low)
           sound == Radio(b, last, avg, q, angles)
           d == Radio(b, last, a, q, heard)
<1>1. c \in Sums /\ s \in Seq(Pairs) /\ low \in Seq(Eighths)
  <2>1. c \in Sums
    BY DEF Core
  <2>2. Dirs \subseteq Pairs
    BY DirsArePairs
  <2>3. low \in Seq(Eighths)
    BY LowWrites
  <2> QED BY <2>1, <2>2, <2>3
<1>2. LowPass(w, s) = v
  BY <1>1, LowPassIs
<1>3. w.mode = ask.mode /\ v.out = low /\ sound.out = angles /\ d.out = heard
  BY DEF Radio
<1>4. FmDemod(v, low) = sound /\ angles \in Seq(Int)
  <2> HIDE DEF low, b
  <2> QED BY <1>1, FmIs
<1>5. Deemph(sound, angles) = d /\ heard \in Seq(Int) /\ a \in Int
  <2> HIDE DEF angles, b, last
  <2>1. Deemph(sound, angles) = d
    BY <1>4, DeemphIs
  <2>2. Machine(D, Int, Int, Int)
    <3>1. 7 \in Nat \ {0}
      BY SMT
    <3> QED BY <3>1, DeemphIsMachine
  <2>3. heard \in Seq(Int) /\ a \in Int
    <3> HIDE DEF D
    <3> QED BY <1>4, <2>2, EndsAre DEF Emitted, State
  <2> QED BY <2>1, <2>3
<1>6. FullDemod(w, s) = LowPassReal(d, heard)
  <2> HIDE DEF v, d, w, heard, low, sound, angles
  <2>1. w.mode # "raw" /\ ~(w.mode \in Linear)
    BY <1>3 DEF Linear
  <2> QED BY <1>2, <1>3, <1>4, <1>5, <2>1 DEF FullDemod
<1>7. LowPassReal(d, heard)
        = Radio(b, last, a, State(Resample, q, heard), Emitted(Resample, q, heard))
  <2> HIDE DEF heard, b, last, a
  <2> QED BY <1>5, RealIs
<1>8. /\ angles \in Seq(Int) /\ heard \in Seq(Int) /\ a \in Int
      /\ FullDemod(w, s)
           = Radio(b, last, a, State(Resample, q, heard), Emitted(Resample, q, heard))
  BY <1>4, <1>5, <1>6, <1>7
<1> QED BY <1>8, Zenon DEF FmHeard

LEMMA SoundsJoin ==
  ASSUME NEW a \in Seq(Pairs), NEW b \in Seq(Pairs)
  PROVE  Sounds(a \o b) = Sounds(a) \o Sounds(b)
<1> DEFINE heard(z) == Int16(Int16(Pcm(z)) * 2)
           l == Sounds(a)
           r == Sounds(b)
<1>1. l = [n \in 1 .. Len(a) |-> heard(a[n])] /\ r = [n \in 1 .. Len(b) |-> heard(b[n])]
  BY DEF Sounds
<1>2. Sounds(a \o b) = [n \in 1 .. Len(a) + Len(b) |-> heard((a \o b)[n])]
  BY DEF Sounds
<1> HIDE DEF heard, l, r
<1>3. Len(l) = Len(a) /\ Len(r) = Len(b) /\ l \in Seq({heard(z) : z \in Pairs})
      /\ r \in Seq({heard(z) : z \in Pairs})
  BY <1>1
<1>4. l \o r = [n \in 1 .. Len(a) + Len(b) |-> heard((a \o b)[n])]
  BY <1>1, <1>3
<1> QED BY <1>2, <1>4 DEF l, r

LEMMA AnglesJoin ==
  ASSUME NEW pre, NEW a \in Seq(Eighths), NEW b \in Seq(Eighths), Len(a) \in Nat \ {0},
         AngleSeq(pre, a) \in Seq(Int), AngleSeq(Last(a), b) \in Seq(Int)
  PROVE  AngleSeq(pre, a \o b) = AngleSeq(pre, a) \o AngleSeq(Last(a), b)
<1> DEFINE m == Len(a)
           k == Len(b)
           l == AngleSeq(pre, a)
           r == AngleSeq(Last(a), b)
           w == AngleSeq(pre, a \o b)
<1>1. /\ m \in Nat \ {0} /\ k \in Nat
      /\ DOMAIN a = 1 .. m /\ DOMAIN b = 1 .. k /\ DOMAIN (a \o b) = 1 .. m + k
      /\ \A n \in 1 .. m : (a \o b)[n] = a[n]
      /\ \A n \in 1 .. k : (a \o b)[m + n] = b[n]
  OBVIOUS
<1>2. /\ l = [n \in 1 .. m |-> TurnAngle(a[n], IF n = 1 THEN pre ELSE a[n - 1])]
      /\ r = [n \in 1 .. k |-> TurnAngle(b[n], IF n = 1 THEN a[m] ELSE b[n - 1])]
      /\ w = [n \in 1 .. m + k |->
                TurnAngle((a \o b)[n], IF n = 1 THEN pre ELSE (a \o b)[n - 1])]
  BY <1>1 DEF AngleSeq, Last
<1> HIDE DEF l, r, w
<1>0. l \in Seq(Int) /\ r \in Seq(Int)
  BY DEF l, r
<1>3. Len(l) = m /\ Len(r) = k
  <2>1. DOMAIN l = 1 .. m /\ DOMAIN r = 1 .. k
    BY <1>2
  <2> HIDE DEF m, k
  <2> QED BY <1>0, <1>1, <2>1
<1>4. /\ DOMAIN (l \o r) = 1 .. m + k
      /\ \A n \in 1 .. m : (l \o r)[n] = l[n]
      /\ \A n \in 1 .. k : (l \o r)[m + n] = r[n]
      /\ l \o r = [n \in 1 .. m + k |-> (l \o r)[n]]
  <2> DEFINE q == l \o r
  <2>1. /\ q \in Seq(Int) /\ Len(q) = Len(l) + Len(r)
        /\ \A n \in 1 .. Len(l) : q[n] = l[n]
        /\ \A n \in 1 .. Len(r) : q[Len(l) + n] = r[n]
    BY <1>0
  <2> HIDE DEF m, k, q
  <2>2. DOMAIN q = 1 .. m + k
    BY <1>1, <1>3, <2>1
  <2>3. q = [n \in 1 .. Len(q) |-> q[n]]
    BY <2>1
  <2>4. Len(q) = m + k
    BY <1>3, <2>1
  <2> QED BY <1>3, <2>1, <2>2, <2>3, <2>4 DEF q
<1> DEFINE ab == a \o b
           lr == l \o r
<1>5. ASSUME NEW n \in 1 .. m + k PROVE w[n] = lr[n]
  <2>1. w[n] = TurnAngle(ab[n], IF n = 1 THEN pre ELSE ab[n - 1])
    BY <1>2
  <2>2. CASE n <= m
    <3>1. n \in 1 .. m /\ (n # 1 => n - 1 \in 1 .. m)
      <4>1. m \in Nat /\ k \in Nat
        BY <1>1
      <4> HIDE DEF m, k
      <4> QED BY <2>2, <4>1, SMT
    <3>2. l[n] = TurnAngle(a[n], IF n = 1 THEN pre ELSE a[n - 1])
      BY <1>2, <3>1
    <3>3. ab[n] = a[n] /\ (n # 1 => ab[n - 1] = a[n - 1]) /\ lr[n] = l[n]
      BY <1>1, <1>4, <3>1
    <3> HIDE DEF ab, lr, m, k
    <3> QED BY <2>1, <3>2, <3>3
  <2>3. CASE n > m
    <3> DEFINE i == n - m
    <3>1. i \in 1 .. k /\ n = m + i /\ n # 1
          /\ (i = 1 => n - 1 = m) /\ (i # 1 => i - 1 \in 1 .. k /\ n - 1 = m + (i - 1))
      <4>1. m \in Nat \ {0} /\ k \in Nat
        BY <1>1
      <4> HIDE DEF m, k
      <4> QED BY <2>3, <4>1, SMT
    <3> HIDE DEF i
    <3>2. r[i] = TurnAngle(b[i], IF i = 1 THEN a[m] ELSE b[i - 1])
      BY <1>2, <3>1
    <3>3. ab[n] = b[i] /\ lr[n] = r[i]
      BY <1>1, <1>4, <3>1
    <3>4. i = 1 => ab[n - 1] = a[m]
      <4>1. m \in 1 .. m
        BY <1>1
      <4> QED BY <1>1, <3>1, <4>1
    <3>5. i # 1 => ab[n - 1] = b[i - 1]
      BY <1>1, <3>1
    <3> HIDE DEF ab, lr, m, k
    <3> QED BY <2>1, <3>1, <3>2, <3>3, <3>4, <3>5
  <2>4. n <= m \/ n > m
    BY <1>1
  <2> QED BY <2>2, <2>3, <2>4
<1>6. w = [n \in 1 .. m + k |-> w[n]]
  BY <1>2
<1>7. w = lr
  <2> HIDE DEF m, k
  <2> QED BY <1>4, <1>5, <1>6
<1> QED BY <1>7 DEF w, l, r

LEMMA LastOf ==
  ASSUME NEW T, NEW a \in Seq(T), NEW b \in Seq(T), Len(a) \in Nat \ {0}, Len(b) \in Nat \ {0}
  PROVE  Last(a) \in T /\ Last(a \o b) = Last(b)
<1>1. Len(a) \in 1 .. Len(a) /\ Len(b) \in 1 .. Len(b) /\ Len(a \o b) = Len(a) + Len(b)
  OBVIOUS
<1>2. (a \o b)[Len(a) + Len(b)] = b[Len(b)] /\ a[Len(a)] \in T
  BY <1>1
<1> QED BY <1>1, <1>2 DEF Last

(* What is heard from the first block on is heard from both.                 *)
BlocksHeard(s, t) ==
  LET first  == FullDemod(Demodulator, s)
      second == FullDemod(first, t)
  IN  FullDemod(Demodulator, s \o t) = [second EXCEPT !.out = first.out \o @]

LEMMA DemodulatorIs ==
  /\ Demodulator = Radio(<<0, 0, 0>>, <<0, 0>>, 0, <<0, 0>>, <<>>)
  /\ \A d \in {1, 2} : <<0, 0, 0>> \in Core(d)
  /\ <<0, 0, 0>> \in Sums /\ <<0, 0>> \in Pairs /\ <<0, 0>> \in Eighths /\ 0 \in Int
<1>1. Demodulator = Radio(<<0, 0, 0>>, <<0, 0>>, 0, <<0, 0>>, <<>>)
  BY DEF Demodulator, Radio
<1>2. <<0, 0, 0>> \in Sums /\ <<0, 0>> \in Pairs /\ 0 \in Int /\ 0 \in Nat
  BY DEF Sums, Pairs
<1>3. <<0, 0>> \in Eighths
  BY <1>2 DEF Eighths, Eighth
<1>4. ASSUME NEW d \in {1, 2} PROVE <<0, 0, 0>> \in Core(d)
  <2>1. 0 < d
    BY SMT
  <2> QED BY <1>2, <2>1 DEF Core
<1> QED BY <1>1, <1>2, <1>3, <1>4

OutsAdded(c, pre, avg, q, o, b, p, a, r, e) ==
  [Radio(c, pre, avg, q, o) EXCEPT !.out = Radio(b, p, a, r, e).out \o @]
    = Radio(c, pre, avg, q, e \o o)

LEMMA JoinedOuts ==
  ASSUME NEW c, NEW pre, NEW avg, NEW q, NEW o, NEW e, NEW b, NEW p, NEW a, NEW r
  PROVE  OutsAdded(c, pre, avg, q, o, b, p, a, r, e)
<1> DEFINE w == Radio(c, pre, avg, q, o)
           more == e \o o
<1>1. Radio(b, p, a, r, e).out = e /\ w.out = o
  BY DEF Radio
<1>2. [w EXCEPT !.out = Radio(b, p, a, r, e).out \o @] = [w EXCEPT !.out = more]
  BY <1>1
<1>3. FieldsSet(c, pre, avg, q, o, more)
  BY RadioFields
<1> HIDE DEF more
<1>4. [w EXCEPT !.out = more] = Radio(c, pre, avg, q, more)
  BY <1>3, Zenon DEF FieldsSet
<1>5. [w EXCEPT !.out = Radio(b, p, a, r, e).out \o @] = Radio(c, pre, avg, q, e \o o)
  BY <1>2, <1>4 DEF more
<1> QED BY <1>5 DEF OutsAdded

LEMMA HeardIs ==
  ASSUME NEW s, NEW t, NEW b, NEW p, NEW a, NEW r, NEW e,
         NEW c, NEW pre, NEW avg, NEW q, NEW o,
         FullDemod(Demodulator, s) = Radio(b, p, a, r, e),
         FullDemod(Radio(b, p, a, r, e), t) = Radio(c, pre, avg, q, o),
         FullDemod(Demodulator, s \o t) = Radio(c, pre, avg, q, e \o o)
  PROVE  BlocksHeard(s, t)
<1> DEFINE first == Radio(b, p, a, r, e)
           second == Radio(c, pre, avg, q, o)
           whole == Radio(c, pre, avg, q, e \o o)
<1>1. OutsAdded(c, pre, avg, q, o, b, p, a, r, e)
  BY JoinedOuts
<1>3. [second EXCEPT !.out = first.out \o @] = whole
  BY <1>1, Zenon DEF OutsAdded
<1> HIDE DEF first, second, whole
<1>2. FullDemod(Demodulator, s) = first /\ FullDemod(first, t) = second
      /\ FullDemod(Demodulator, s \o t) = whole
  BY DEF first, second, whole
<1> QED BY <1>2, <1>3 DEF BlocksHeard

LEMMA SignalsJoin ==
  ASSUME NEW s \in Seq(Dirs), NEW t \in Seq(Dirs)
  PROVE  /\ s \in Seq(Pairs) /\ t \in Seq(Pairs)
         /\ s \o t \in Seq(Dirs) /\ s \o t \in Seq(Pairs)
         /\ Len(s \o t) = Len(s) + Len(t) /\ Len(s) \in Nat /\ Len(t) \in Nat
<1> DEFINE w == s \o t
<1>1. w \in Seq(Dirs) /\ Len(w) = Len(s) + Len(t)
  OBVIOUS
<1>2. Dirs \subseteq Pairs
  BY DirsArePairs
<1> HIDE DEF w
<1>3. w \in Seq(Pairs) /\ s \in Seq(Pairs) /\ t \in Seq(Pairs)
  BY <1>1, <1>2
<1> QED BY <1>1, <1>3 DEF w

LEMMA RawJoins ==
  ASSUME NEW s \in Seq(Dirs), NEW t \in Seq(Dirs), ask.mode = "raw"
  PROVE  BlocksHeard(s, t)
<1> DEFINE M == LowMachine(ask.downsample)
           none == <<0, 0, 0>>
           pre == <<0, 0>>
           b == State(M, none, s)
           e == Emitted(M, none, s)
           c == State(M, b, t)
           o == Emitted(M, b, t)
<1>1. none \in Sums /\ Demodulator = Radio(none, pre, 0, pre, <<>>)
  BY DemodulatorIs
<1>2. s \in Seq(Pairs) /\ t \in Seq(Pairs) /\ s \o t \in Seq(Pairs)
  BY SignalsJoin
<1>3. Machine(M, Sums, Pairs, Pairs)
  BY LowIsMachine
<1> HIDE DEF none, pre, M
<1>4. b \in Sums
  BY <1>1, <1>2, <1>3, EndsAre DEF State
<1>5. State(M, none, s \o t) = c /\ Emitted(M, none, s \o t) = e \o o
  BY <1>1, <1>2, <1>3, EndsJoin
<1> DEFINE st == s \o t
           eo == e \o o
<1> HIDE DEF b, e, c, o, st, eo
<1>6. FullDemod(Demodulator, s) = Radio(b, pre, 0, pre, e)
  BY <1>1, <1>2, RawIs DEF b, e, M
<1>7. FullDemod(Radio(b, pre, 0, pre, e), t) = Radio(c, pre, 0, pre, o)
  BY <1>2, <1>4, RawIs DEF c, o, M
<1>8. FullDemod(Demodulator, st) = Radio(c, pre, 0, pre, eo)
  <2>1. FullDemod(Demodulator, st) = Radio(State(M, none, st), pre, 0, pre, Emitted(M, none, st))
    BY <1>1, <1>2, RawIs DEF st, M
  <2>2. State(M, none, st) = c /\ Emitted(M, none, st) = eo
    BY <1>5 DEF st, eo
  <2> QED BY <2>1, <2>2
<1> QED BY <1>6, <1>7, <1>8, HeardIs DEF st, eo

LEMMA LinearJoins ==
  ASSUME NEW s \in Seq(Dirs), NEW t \in Seq(Dirs), ask.mode \in Linear, Rates
  PROVE  BlocksHeard(s, t)
<1> DEFINE M == LowMachine(ask.downsample)
           none == <<0, 0, 0>>
           pre == <<0, 0>>
           b == State(M, none, s)
           le == Emitted(M, none, s)
           e == Sounds(le)
           c == State(M, b, t)
           lo == Emitted(M, b, t)
           o == Sounds(lo)
           r == State(Resample, pre, e)
           re == Emitted(Resample, pre, e)
           q == State(Resample, r, o)
           ro == Emitted(Resample, r, o)
<1>1. none \in Sums /\ pre \in Pairs /\ Demodulator = Radio(none, pre, 0, pre, <<>>)
  BY DemodulatorIs
<1>2. s \in Seq(Pairs) /\ t \in Seq(Pairs) /\ s \o t \in Seq(Pairs)
  BY SignalsJoin
<1>3. Machine(M, Sums, Pairs, Pairs)
  BY LowIsMachine
<1>4. Machine(Resample, Pairs, Int, Int)
  BY RealIsMachine DEF Rates, Resample
<1> HIDE DEF none, pre, M
<1>5. b \in Sums /\ le \in Seq(Pairs) /\ lo \in Seq(Pairs)
  <2>1. b \in Sums /\ le \in Seq(Pairs)
    BY <1>1, <1>2, <1>3, EndsAre DEF State, Emitted
  <2> HIDE DEF b, le
  <2>2. lo \in Seq(Pairs)
    BY <2>1, <1>2, <1>3, EndsAre DEF Emitted
  <2> QED BY <2>1, <2>2
<1> DEFINE st == s \o t
           lst == le \o lo
           eo == e \o o
           rero == re \o ro
<1>6. State(M, none, st) = c /\ Emitted(M, none, st) = lst
  BY <1>1, <1>2, <1>3, EndsJoin
<1>7. Sounds(lst) = eo
  <2> HIDE DEF le, lo
  <2> QED BY <1>5, SoundsJoin
<1> HIDE DEF st
<1>8. FullDemod(Demodulator, s) = Radio(b, pre, 0, r, re) /\ e \in Seq(Int)
  BY <1>1, <1>2, LinearDemodIs DEF M
<1> HIDE DEF b, le, e
<1>9. r \in Pairs
  BY <1>1, <1>4, <1>8, EndsAre DEF State
<1> HIDE DEF r, re
<1>10. FullDemod(Radio(b, pre, 0, r, re), t) = Radio(c, pre, 0, q, ro) /\ o \in Seq(Int)
  BY <1>2, <1>5, <1>9, LinearDemodIs DEF M
<1> HIDE DEF c, lo, o
<1>11. State(Resample, pre, eo) = q /\ Emitted(Resample, pre, eo) = rero
  BY <1>1, <1>4, <1>8, <1>10, EndsJoin DEF r, re
<1> HIDE DEF q, ro, lst, eo, rero
<1>12. FullDemod(Demodulator, st) = Radio(c, pre, 0, q, rero)
  <2> DEFINE sounds == Sounds(Emitted(M, none, st))
  <2>1. FullDemod(Demodulator, st)
          = Radio(State(M, none, st), pre, 0, State(Resample, pre, sounds),
                  Emitted(Resample, pre, sounds))
    <3>1. st \in Seq(Pairs)
      BY <1>2 DEF st
    <3> QED BY <1>1, <3>1, LinearDemodIs DEF M
  <2>2. sounds = eo
    BY <1>6, <1>7
  <2> HIDE DEF sounds
  <2> QED BY <1>6, <1>11, <2>1, <2>2
<1> QED BY <1>8, <1>10, <1>12, HeardIs DEF st, rero

LEMMA DeemphJoins ==
  ASSUME NEW v \in Int, NEW x \in Seq(Int), NEW y \in Seq(Int)
  PROVE  LET D == DeemphMachine(7)
             u == State(D, v, x)
         IN  /\ State(D, v, x \o y) = State(D, u, y)
             /\ Emitted(D, v, x \o y) = Emitted(D, v, x) \o Emitted(D, u, y)
<1> DEFINE D == DeemphMachine(7)
<1>1. Machine(D, Int, Int, Int)
  <2>1. 7 \in Nat \ {0}
    BY SMT
  <2> QED BY <2>1, DeemphIsMachine
<1> DEFINE C == Int
           Y == Int
<1> HIDE DEF D
<1>3. Machine(D, C, Int, Y) /\ v \in C
  BY <1>1
<1> HIDE DEF C, Y
<1>2. /\ State(D, v, x \o y) = State(D, State(D, v, x), y)
      /\ Emitted(D, v, x \o y) = Emitted(D, v, x) \o Emitted(D, State(D, v, x), y)
  BY <1>3, EndsJoin
<1> QED BY <1>2 DEF D

LEMMA FmJoins ==
  ASSUME NEW s \in Seq(Dirs), NEW t \in Seq(Dirs),
         Len(s) >= ask.downsample, Len(t) >= ask.downsample,
         ask.downsample \in {1, 2}, ask.mode \in {"exact", "fast", "lut"}, Rates
  PROVE  BlocksHeard(s, t)
<1> DEFINE n == ask.downsample
           M == LowMachine(n)
           D == DeemphMachine(7)
           zero == 0
           none == <<0, 0, 0>>
           pre == <<0, 0>>
           b == State(M, none, s)
           le == Emitted(M, none, s)
           p == Last(le)
           ae == AngleSeq(pre, le)
           v == State(D, zero, ae)
           he == Emitted(D, zero, ae)
           r == State(Resample, pre, he)
           re == Emitted(Resample, pre, he)
           c == State(M, b, t)
           lo == Emitted(M, b, t)
           ao == AngleSeq(p, lo)
           u == State(D, v, ao)
           ho == Emitted(D, v, ao)
           q == State(Resample, r, ho)
           ro == Emitted(Resample, r, ho)
           st == s \o t
           lst == le \o lo
           ast == ae \o ao
           hst == he \o ho
           rst == re \o ro
<1>1. none \in Core(n) /\ pre \in Pairs /\ pre \in Eighths /\ zero \in Int
      /\ Demodulator = Radio(none, pre, zero, pre, <<>>)
  BY DemodulatorIs
<1>2. st \in Seq(Dirs) /\ Len(st) >= n
  <2>1. st \in Seq(Dirs) /\ Len(st) = Len(s) + Len(t) /\ Len(s) \in Nat /\ Len(t) \in Nat
    BY SignalsJoin
  <2>2. n \in Nat
    BY SMT
  <2> HIDE DEF st, n
  <2>3. Len(s) >= n
    BY DEF n
  <2> QED BY <2>1, <2>2, <2>3, SMT
<1>3. Machine(M, Core(n), Dirs, Eighths)
  BY LowKeepsEighths
<1>5. Machine(Resample, Pairs, Int, Int)
  BY RealIsMachine DEF Rates, Resample
<1> HIDE DEF zero, none, pre, D, st
<1>6. /\ b \in Core(n) /\ le \in Seq(Eighths) /\ Len(le) \in Nat \ {0}
  BY <1>1, LowWrites
<1>7. /\ FullDemod(Demodulator, s) = Radio(b, p, v, r, re)
      /\ ae \in Seq(Int) /\ he \in Seq(Int) /\ v \in Int
  <2>1. FmHeard(none, pre, zero, pre, <<>>, s)
    BY <1>1, FmDemodIs
  <2> QED BY <1>1, <2>1, Zenon DEF FmHeard, D
<1>8. State(M, none, st) = c /\ Emitted(M, none, st) = lst
  BY <1>1, <1>3, EndsJoin DEF st
<1> HIDE DEF b, le
<1>9. lo \in Seq(Eighths) /\ Len(lo) \in Nat \ {0}
  BY <1>6, LowWrites
<1>10. p \in Eighths /\ Last(lst) = Last(lo)
  <2> HIDE DEF lo
  <2> QED BY <1>6, <1>9, LastOf
<1>11. r \in Pairs
  <2> HIDE DEF he
  <2> QED BY <1>1, <1>5, <1>7, EndsAre DEF State
<1> HIDE DEF v, r
<1>12. /\ FullDemod(Radio(b, p, v, r, re), t) = Radio(c, Last(lo), u, q, ro)
       /\ ao \in Seq(Int) /\ ho \in Seq(Int) /\ u \in Int
  <2>1. b \in Core(n) /\ p \in Eighths /\ v \in Int /\ r \in Pairs
    BY <1>6, <1>7, <1>10, <1>11
  <2> HIDE DEF p, re, he, ae
  <2>2. FmHeard(b, p, v, r, re, t)
    BY <2>1, FmDemodIs
  <2> QED BY <2>2, Zenon DEF FmHeard, D
<1>13. AngleSeq(pre, lst) = ast
  <2> HIDE DEF lo
  <2> QED BY <1>6, <1>7, <1>9, <1>12, AnglesJoin
<1> HIDE DEF ae, ao
<1>14. State(D, zero, ast) = u /\ Emitted(D, zero, ast) = hst
  <2>1. ae \in Seq(Int) /\ ao \in Seq(Int)
    BY <1>7, <1>12
  <2> QED BY <1>1, <2>1, DeemphJoins DEF v, D
<1> HIDE DEF he, ho
<1>15. State(Resample, pre, hst) = q /\ Emitted(Resample, pre, hst) = rst
  <2>1. he \in Seq(Int) /\ ho \in Seq(Int)
    BY <1>7, <1>12
  <2> QED BY <1>1, <1>5, <2>1, EndsJoin DEF r
<1> HIDE DEF p, re, c, u, q, ro, rst, lst, ast, hst
<1>16. FullDemod(Demodulator, st) = Radio(c, Last(lo), u, q, rst)
  <2> HIDE DEF lo
  <2> DEFINE low == Emitted(M, none, st)
             turned == AngleSeq(pre, low)
             sounds == Emitted(D, zero, turned)
  <2>0. FmHeard(none, pre, zero, pre, <<>>, st)
    BY <1>1, <1>2, FmDemodIs
  <2>1. FullDemod(Demodulator, st)
          = Radio(State(M, none, st), Last(low), State(D, zero, turned),
                  State(Resample, pre, sounds), Emitted(Resample, pre, sounds))
    BY <1>1, <2>0, Zenon DEF FmHeard, D
  <2>2. low = lst
    BY <1>8
  <2> HIDE DEF low
  <2>3. turned = ast
    BY <1>13, <2>2
  <2> HIDE DEF turned
  <2>4. sounds = hst /\ State(D, zero, turned) = u
    BY <1>14, <2>3
  <2> HIDE DEF sounds
  <2> QED BY <1>8, <1>10, <1>15, <2>1, <2>2, <2>4
<1> HIDE DEF lo
<1> QED BY <1>7, <1>12, <1>16, HeardIs DEF st, rst

------------------------------------------------------------------------------
(* The signal a behaviour asks for.                                          *)
SignalInv ==
  ask.kind = "signal" =>
    ask \in [kind : {"signal"}, mode : {"exact", "fast", "lut", "am", "usb", "lsb", "raw"},
             downsample : {1, 2}, rates : {<<3, 2>>, <<4, 1>>}, samples : Seq(Directions)]

LEMMA SignalAtFirst == AskInit => SignalInv
<1> SUFFICES ASSUME AskInit, ask.kind = "signal" PROVE SignalInv
  BY DEF SignalInv
<1> DEFINE modes == {"exact", "fast", "lut", "am", "usb", "lsb", "raw"}
           counts == {1, 2}
           rates == {<<3, 2>>, <<4, 1>>}
           Signals == [kind : {"signal"}, mode : modes, downsample : counts, rates : rates,
                       samples : Seq(Directions)]
<1>1. PICK m \in modes, n \in counts, r \in rates :
        ask = [kind |-> "signal", mode |-> m, downsample |-> n, rates |-> r, samples |-> <<>>]
  BY DEF AskInit
<1>2. <<>> \in Seq(Directions)
  OBVIOUS
<1>3. ask \in Signals
  <2> HIDE DEF modes, counts, rates
  <2> QED BY <1>1, <1>2
<1> QED BY <1>3 DEF SignalInv

LEMMA SignalKept ==
  ASSUME SignalInv, OneKind, [AskNext]_ask
  PROVE  SignalInv'
<1>1. CASE UNCHANGED ask
  BY <1>1 DEF SignalInv
<1>2. ask'.kind = ask.kind
  BY KindKept
<1>3. CASE ask.kind = "signal" /\ NextSample
  <2>1. PICK x \in Directions : ask' = [ask EXCEPT !.samples = Append(ask.samples, x)]
    BY <1>3 DEF NextSample
  <2>2. ask \in [kind : {"signal"}, mode : {"exact", "fast", "lut", "am", "usb", "lsb", "raw"},
                 downsample : {1, 2}, rates : {<<3, 2>>, <<4, 1>>}, samples : Seq(Directions)]
    BY <1>3 DEF SignalInv
  <2> DEFINE more == Append(ask.samples, x)
  <2>3. more \in Seq(Directions)
    BY <2>2
  <2> HIDE DEF more
  <2>4. ask' = [ask EXCEPT !.samples = more]
    BY <2>1 DEF more
  <2>5. ask' \in [kind : {"signal"}, mode : {"exact", "fast", "lut", "am", "usb", "lsb", "raw"},
                  downsample : {1, 2}, rates : {<<3, 2>>, <<4, 1>>}, samples : Seq(Directions)]
    BY <2>2, <2>3, <2>4
  <2> QED BY <2>5 DEF SignalInv, Directions
<1>4. CASE ask.kind # "signal"
  BY <1>2, <1>4 DEF SignalInv
<1> QED BY <1>1, <1>3, <1>4, OwnSteps

LEMMA SignalCentred ==
  ASSUME NEW samples \in Seq(Directions)
  PROVE  Centred(samples) \in Seq(Dirs) /\ Len(Centred(samples)) = Len(samples)
<1> DEFINE n == Len(samples)
           w == Centred(samples)
<1>1. \A x \in Directions : <<x[1] - 127, x[2] - 127>> \in Dirs
  BY LevelAssumption, SMT DEF Directions, Dirs
<1>2. n \in Nat /\ DOMAIN samples = 1 .. n /\ \A k \in 1 .. n : samples[k] \in Directions
  OBVIOUS
<1>3. w = [k \in 1 .. n |-> <<samples[k][1] - 127, samples[k][2] - 127>>]
  BY <1>2 DEF Centred
<1> HIDE DEF n, w
<1>4. w \in [1 .. n -> Dirs]
  BY <1>1, <1>2, <1>3, Zenon
<1>5. w \in Seq(Dirs) /\ Len(w) = n
  BY <1>2, <1>4, SMT
<1> QED BY <1>5 DEF n, w

(* A sample that comes twice is turned by a quarter in between.              *)
LEMMA RotationIs ==
  ASSUME NEW samples \in Seq(Directions), NEW k \in 2 .. Len(samples),
         samples[k] = samples[k - 1]
  PROVE  LET r      == Rotate90(samples)
             odd(z) == <<2 * z[1] - 255, 2 * z[2] - 255>>
         IN  odd(r[k]) = <<-odd(r[k - 1])[2], odd(r[k - 1])[1]>>
<1> DEFINE r == Rotate90(samples)
           odd(z) == <<2 * z[1] - 255, 2 * z[2] - 255>>
           z == samples[k]
           l == k - 1
           x == z[1]
           y == z[2]
<1>1. k \in DOMAIN samples /\ l \in DOMAIN samples /\ samples[l] = z /\ z \in Directions
      /\ k \in Nat /\ l \in Nat
  OBVIOUS
<1>2. x \in Int /\ y \in Int
  BY <1>1, LevelAssumption, SMT DEF Directions
<1> HIDE DEF z, l
<1> DEFINE at(n) == CASE n % 4 = 1 -> z [] n % 4 = 2 -> <<255 - y, x>>
                      [] n % 4 = 3 -> <<255 - x, 255 - y>> [] OTHER -> <<y, 255 - x>>
<1>3. r[k] = at(k) /\ r[l] = at(l)
  BY <1>1, Zenon DEF Rotate90, z
<1>4. \/ k % 4 = 1 /\ l % 4 = 0
      \/ k % 4 = 2 /\ l % 4 = 1
      \/ k % 4 = 3 /\ l % 4 = 2
      \/ k % 4 = 0 /\ l % 4 = 3
  BY <1>1, SMT DEF l
<1> HIDE DEF r, x, y
<1>5. /\ k % 4 = 1 => r[k][1] = x /\ r[k][2] = y /\ r[l][1] = y /\ r[l][2] = 255 - x
      /\ k % 4 = 2 => r[k][1] = 255 - y /\ r[k][2] = x /\ r[l][1] = x /\ r[l][2] = y
      /\ k % 4 = 3 => /\ r[k][1] = 255 - x /\ r[k][2] = 255 - y
                      /\ r[l][1] = 255 - y /\ r[l][2] = x
      /\ k % 4 = 0 => /\ r[k][1] = y /\ r[k][2] = 255 - x
                      /\ r[l][1] = 255 - x /\ r[l][2] = 255 - y
  BY <1>3, <1>4, SMT DEF x, y
<1> DEFINE a == r[k][1]
           b == r[k][2]
           e == r[l][1]
           f == r[l][2]
<1>6. 2 * a - 255 = -(2 * f - 255) /\ 2 * b - 255 = 2 * e - 255
  <2>1. \/ a = x /\ b = y /\ e = y /\ f = 255 - x
        \/ a = 255 - y /\ b = x /\ e = x /\ f = y
        \/ a = 255 - x /\ b = 255 - y /\ e = 255 - y /\ f = x
        \/ a = y /\ b = 255 - x /\ e = 255 - x /\ f = 255 - y
    <3> DEFINE one == k % 4 = 1
               two == k % 4 = 2
               three == k % 4 = 3
               four == k % 4 = 0
    <3>1. /\ one => a = x /\ b = y /\ e = y /\ f = 255 - x
          /\ two => a = 255 - y /\ b = x /\ e = x /\ f = y
          /\ three => a = 255 - x /\ b = 255 - y /\ e = 255 - y /\ f = x
          /\ four => a = y /\ b = 255 - x /\ e = 255 - x /\ f = 255 - y
      BY <1>5
    <3>2. one \/ two \/ three \/ four
      BY <1>4, SMT
    <3> HIDE DEF one, two, three, four, a, b, e, f
    <3> QED BY <3>1, <3>2, SMT
  <2> HIDE DEF a, b, e, f
  <2> QED BY <1>2, <2>1, SMT
<1> QED BY <1>6, SMT DEF r, l

LEMMA SignalSplits ==
  ASSUME NEW signal \in Seq(Dirs), NEW k \in 1 .. Len(signal)
  PROVE  LET n == Len(signal)
             s == SubSeq(signal, 1, k)
             t == SubSeq(signal, k + 1, n)
         IN  s \in Seq(Dirs) /\ t \in Seq(Dirs) /\ Len(s) = k /\ Len(t) = n - k /\ s \o t = signal
<1> DEFINE n == Len(signal)
           s == SubSeq(signal, 1, k)
           t == SubSeq(signal, k + 1, n)
<1>1. n \in Nat /\ \A i \in 1 .. n : signal[i] \in Dirs
  OBVIOUS
<1>2. s \in Seq(Dirs) /\ Len(s) = k
  <2>1. \A i \in 1 .. k : signal[i] \in Dirs
    BY <1>1
  <2> QED BY <2>1, SubSeqProperties
<1>3. t \in Seq(Dirs) /\ Len(t) = n - k
  <2>1. k + 1 \in Int /\ \A i \in k + 1 .. n : signal[i] \in Dirs
    BY <1>1
  <2>2. t \in Seq(Dirs) /\ Len(t) = IF k + 1 <= n THEN n - (k + 1) + 1 ELSE 0
    BY <1>1, <2>1, SubSeqProperties
  <2> HIDE DEF t
  <2> QED BY <1>1, <2>2
<1>4. s \o t = signal
  <2>1. 1 \in 1 .. n + 1 /\ k \in 1 - 1 .. n /\ n \in k .. n
    BY <1>1
  <2>2. s \o t = SubSeq(signal, 1, n)
    BY <2>1, ConcatAdjacentSubSeq
  <2> QED BY <2>2, SubSeqFull
<1> QED BY <1>2, <1>3, <1>4

LEMMA BlocksHeardAlways ==
  ASSUME SignalInv, ask.kind = "signal",
         NEW s \in Seq(Dirs), NEW t \in Seq(Dirs),
         Len(s) >= ask.downsample, Len(t) >= ask.downsample
  PROVE  BlocksHeard(s, t)
<1>1. /\ ask.mode \in {"exact", "fast", "lut", "am", "usb", "lsb", "raw"}
      /\ ask.downsample \in {1, 2} /\ ask.rates \in {<<3, 2>>, <<4, 1>>}
  BY DEF SignalInv
<1>2. Rates
  <2>1. 3 \div 2 = 1 /\ 4 \div 1 = 4
    BY SMT
  <2>2. \/ ask.rates[1] = 3 /\ ask.rates[2] = 2
        \/ ask.rates[1] = 4 /\ ask.rates[2] = 1
    BY <1>1, SMT
  <2> QED BY <2>1, <2>2, SMT DEF Rates
<1>3. CASE ask.mode = "raw"
  BY <1>3, RawJoins
<1>4. CASE ask.mode \in Linear
  BY <1>2, <1>4, LinearJoins
<1>5. CASE ask.mode \in {"exact", "fast", "lut"}
  BY <1>1, <1>2, <1>5, FmJoins
<1>6. ask.mode = "raw" \/ ask.mode \in Linear \/ ask.mode \in {"exact", "fast", "lut"}
  BY <1>1 DEF Linear
<1> QED BY <1>3, <1>4, <1>5, <1>6

(* However many samples a signal has and wherever a transfer cuts it, rtl_fm *)
(* plays the same: each filter goes on from what it kept, and the three ways *)
(* to find an angle agree on the turns that a sum of samples can make.       *)
THEOREM BlocksAlwaysJoin == AskSpec => []BlocksJoin
<1>1. SignalInv => BlocksJoin
  <2> SUFFICES ASSUME SignalInv, ask.kind = "signal" PROVE BlocksJoin
    BY DEF BlocksJoin
  <2> DEFINE signal == Centred(ask.samples)
             n == Len(signal)
             odd(z) == <<2 * z[1] - 255, 2 * z[2] - 255>>
             turned(z) == <<-z[2], z[1]>>
             r == Rotate90(ask.samples)
  <2>1. ask.samples \in Seq(Directions) /\ ask.downsample \in Nat \ {0}
    <3>1. ask.samples \in Seq(Directions) /\ ask.downsample \in {1, 2}
      BY DEF SignalInv
    <3>2. 1 \in Nat \ {0} /\ 2 \in Nat \ {0}
      BY SMT
    <3> QED BY <3>1, <3>2
  <2>2. signal \in Seq(Dirs) /\ n = Len(ask.samples) /\ n \in Nat
    <3>1. signal \in Seq(Dirs) /\ n = Len(ask.samples)
      BY <2>1, SignalCentred
    <3> QED BY <2>1, <3>1
  <2>3. ASSUME NEW k \in ask.downsample .. n - ask.downsample
        PROVE  LET whole  == FullDemod(Demodulator, signal)
                   first  == FullDemod(Demodulator, SubSeq(signal, 1, k))
                   second == FullDemod(first, SubSeq(signal, k + 1, n))
               IN  whole = [second EXCEPT !.out = first.out \o @]
    <3> DEFINE s == SubSeq(signal, 1, k)
               t == SubSeq(signal, k + 1, n)
    <3> HIDE DEF signal
    <3>1. k \in 1 .. n /\ k >= ask.downsample /\ n - k >= ask.downsample
      <4> HIDE DEF n
      <4> QED BY <2>1, <2>2, SMT
    <3>2. s \in Seq(Dirs) /\ t \in Seq(Dirs) /\ Len(s) = k /\ Len(t) = n - k
          /\ s \o t = signal
      BY <2>2, <3>1, SignalSplits
    <3>3. BlocksHeard(s, t)
      <4> HIDE DEF s, t, n
      <4> QED BY <3>1, <3>2, BlocksHeardAlways
    <3> HIDE DEF s, t
    <3>4. LET first  == FullDemod(Demodulator, s)
              second == FullDemod(first, t)
          IN  FullDemod(Demodulator, signal) = [second EXCEPT !.out = first.out \o @]
      BY <3>2, <3>3 DEF BlocksHeard
    <3> QED BY <3>4 DEF s, t
  <2>4. ASSUME NEW k \in 2 .. n, ask.samples[k] = ask.samples[k - 1]
        PROVE  odd(r[k]) = turned(odd(r[k - 1]))
    <3>1. k \in 2 .. Len(ask.samples)
      BY <2>2
    <3> HIDE DEF n
    <3> QED BY <2>1, <2>4, <3>1, RotationIs
  <2> QED BY <2>3, <2>4 DEF BlocksJoin
<1>2. SignalInv /\ OneKind /\ [AskNext]_ask => SignalInv'
  BY SignalKept
<1> QED BY <1>1, <1>2, SignalAtFirst, KindAlways, PTL DEF AskSpec
==============================================================================
