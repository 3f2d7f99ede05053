-------------------------- MODULE Sha1StreamProofs --------------------------
(***************************************************************************)
(* Theorems about module Sha1Stream for messages of any length, cut in any  *)
(* way, blocks and words of any size.                                       *)
(***************************************************************************)
EXTENDS Sha1Stream, SequenceLemmas

-----------------------------------------------------------------------------
(* Quotients and remainders                                                *)

LEMMA DivMod ==
    ASSUME NEW a \in Nat, NEW b \in Nat \ {0}
    PROVE  /\ a \div b \in Nat /\ a % b \in Nat /\ a % b < b
           /\ a = b * (a \div b) + (a % b)
  OBVIOUS

LEMMA Times ==
    ASSUME NEW b \in Nat, NEW x \in Nat, NEW y \in Nat, x < y
    PROVE  b * x + b <= b * y
<1>1. PICK z \in Nat : y = x + 1 + z
  <2>1. y - x - 1 \in Nat /\ y = x + 1 + (y - x - 1)
    OBVIOUS
  <2> QED
    BY <2>1
<1>2. b * y = b * x + b + b * z /\ b * z \in Nat
  BY <1>1
<1> QED
  BY <1>2

\* There is only one way to divide.
LEMMA DivModUnique ==
    ASSUME NEW a \in Nat, NEW b \in Nat \ {0}, NEW q \in Nat, NEW r \in Nat,
           r < b, a = b * q + r
    PROVE  a \div b = q /\ a % b = r
<1> DEFINE p == a \div b
           s == a % b
<1>1. p \in Nat /\ s \in Nat /\ s < b /\ a = b * p + s
  BY DivMod
<1> HIDE DEF p, s
<1>2. b * p \in Nat /\ b * q \in Nat
  BY <1>1
<1>3. ~(p < q)
  <2>1. SUFFICES ASSUME p < q PROVE FALSE
    OBVIOUS
  <2>2. b * p + b <= b * q
    BY <1>1, <2>1, Times
  <2> QED
    BY <1>1, <1>2, <2>2
<1>4. ~(q < p)
  <2>1. SUFFICES ASSUME q < p PROVE FALSE
    OBVIOUS
  <2>2. b * q + b <= b * p
    BY <1>1, <2>1, Times
  <2> QED
    BY <1>1, <1>2, <2>2
<1>5. p = q
  BY <1>1, <1>3, <1>4
<1> QED
  BY <1>1, <1>2, <1>5 DEF p, s

\* Whole multiples make no difference to a remainder.
LEMMA ModPlus ==
    ASSUME NEW a \in Nat, NEW b \in Nat \ {0}, NEW k \in Nat
    PROVE  (b * k + a) % b = a % b /\ (b * k + a) \div b = k + (a \div b)
<1> DEFINE q == a \div b
           r == a % b
<1>1. q \in Nat /\ r \in Nat /\ r < b /\ a = b * q + r
  BY DivMod
<1> HIDE DEF q, r
<1>2. b * k + a = b * (k + q) + r /\ k + q \in Nat /\ b * k \in Nat
  BY <1>1
<1>3. b * k + a \in Nat
  BY <1>2
<1>4. (b * k + a) \div b = k + q /\ (b * k + a) % b = r
  BY <1>1, <1>2, <1>3, DivModUnique
<1> QED
  BY <1>4 DEF q, r

\* Division by a product is division by its factors.
Splits(a, b, c, d) ==
    /\ d # 0
    /\ a \div d = (a \div b) \div c
    /\ (a % d) \div b = (a \div b) % c
    /\ (a % d) % b = a % b

LEMMA DivDiv ==
    ASSUME NEW a \in Nat, NEW b \in Nat \ {0}, NEW c \in Nat \ {0},
           NEW d \in Nat, d = b * c
    PROVE  Splits(a, b, c, d)
<1> DEFINE q == a \div b
           r == a % b
           s == q \div c
           t == q % c
<1>1. q \in Nat /\ r \in Nat /\ r < b /\ a = b * q + r
  BY DivMod
<1>2. s \in Nat /\ t \in Nat /\ t < c /\ q = c * s + t
  BY <1>1, DivMod
<1> HIDE DEF q, r, s, t
<1>3. d # 0 /\ b * t \in Nat /\ b * t + r \in Nat
  <2>1. b * t \in Nat
    BY <1>2
  <2>2. b * c # 0
    OBVIOUS
  <2> QED
    BY <1>1, <2>1, <2>2
<1>4. b * t + r < d
  <2>1. b * t + b <= d
    BY <1>2, Times
  <2> QED
    BY <1>1, <1>3, <2>1
<1>5. a = d * s + (b * t + r)
  <2>1. b * q = b * (c * s) + b * t
    BY <1>1, <1>2
  <2>2. b * (c * s) = d * s
    BY <1>2
  <2> QED
    BY <1>1, <1>2, <1>3, <2>1, <2>2
<1>6. a \div d = s /\ a % d = b * t + r
  BY <1>2, <1>3, <1>4, <1>5, DivModUnique
<1>7. (b * t + r) \div b = t /\ (b * t + r) % b = r
  BY <1>1, <1>2, <1>3, DivModUnique
<1> QED
  BY <1>3, <1>6, <1>7 DEF Splits, q, r, s, t

-----------------------------------------------------------------------------
(* Powers                                                                  *)

IsPower(f, n) == /\ f \in [0..n -> Nat \ {0}]
                 /\ f[0] = 1
                 /\ \A i \in 0..n - 1 : f[i + 1] = Digit * f[i]

\* The equation that defines Power has a solution: consider the least number
\* up to which it has none.
LEMMA PowerExists ==
    ASSUME NEW n \in Nat
    PROVE  \E f : IsPower(f, n)
<1> DEFINE Without == {m \in Nat : \A f : ~IsPower(f, m)}
<1>1. SUFFICES ASSUME Without # {} PROVE FALSE
  OBVIOUS
<1>2. PICK m \in Without : \A k \in Without : m <= k
  <2>1. Without \in SUBSET Nat
    OBVIOUS
  <2> QED
    BY <1>1, <2>1, LeastNatural
<1>3. Digit \in Nat \ {0}
  BY StreamAssumption
<1>4. m # 0
  <2>1. IsPower([i \in 0..0 |-> 1], 0)
    BY DEF IsPower
  <2> QED
    BY <1>2, <2>1
<1>5. PICK f : IsPower(f, m - 1)
  <2>1. m - 1 \in Nat /\ ~(m <= m - 1)
    BY <1>2, <1>4
  <2> QED
    BY <1>2, <2>1
<1> DEFINE g == [i \in 0..m |-> IF i = m THEN Digit * f[m - 1] ELSE f[i]]
<1>6. IsPower(g, m)
  <2>1. /\ m \in Nat \ {0} /\ f \in [0..m - 1 -> Nat \ {0}] /\ f[0] = 1
        /\ \A i \in 0..m - 2 : f[i + 1] = Digit * f[i]
    <3>1. m \in Nat /\ m - 1 - 1 = m - 2
      BY <1>2
    <3> QED
      BY <1>4, <1>5, <3>1 DEF IsPower
  <2>2. Digit * f[m - 1] \in Nat \ {0}
    <3>1. f[m - 1] \in Nat \ {0}
      BY <2>1
    <3> HIDE DEF Without
    <3> QED
      BY <1>3, <3>1
  <2>3. g \in [0..m -> Nat \ {0}] /\ g[0] = 1
    BY <2>1, <2>2
  <2>4. ASSUME NEW i \in 0..m - 1 PROVE g[i + 1] = Digit * g[i]
    <3>1. CASE i = m - 1
      BY <2>1, <3>1
    <3>2. CASE i # m - 1
      <4>1. i \in 0..m - 2 /\ i + 1 \in 0..m /\ i + 1 # m /\ i # m /\ i \in 0..m
        BY <2>1, <3>2
      <4> QED
        BY <2>1, <4>1
    <3> QED
      BY <3>1, <3>2
  <2> QED
    BY <2>3, <2>4 DEF IsPower
<1> QED
  BY <1>2, <1>6

LEMMA PowerFacts ==
    /\ Field \in Nat \ {0} /\ Half \in Nat \ {0} /\ Field = Half + Half
    /\ Power \in [0..Field -> Nat \ {0}]
    /\ Power[0] = 1
    /\ \A i \in 0..Field - 1 : Power[i + 1] = Digit * Power[i]
<1>1. Field \in Nat \ {0} /\ Half \in Nat \ {0} /\ Field = Half + Half
      /\ Digit \in Nat \ {0}
  BY StreamAssumption DEF Field
<1>2. PICK f : IsPower(f, Field)
  BY <1>1, PowerExists
<1>3. f = [i \in 0..Field |-> IF i = 0 THEN 1 ELSE Digit * f[i - 1]]
  <2>1. ASSUME NEW i \in 0..Field
        PROVE  f[i] = IF i = 0 THEN 1 ELSE Digit * f[i - 1]
    <3>1. CASE i = 0
      BY <1>2, <3>1 DEF IsPower
    <3>2. CASE i # 0
      <4>1. i - 1 \in 0..Field - 1 /\ (i - 1) + 1 = i
        BY <1>1, <3>2
      <4> QED
        BY <1>2, <3>2, <4>1 DEF IsPower
    <3> QED
      BY <3>1, <3>2
  <2> QED
    BY <1>2, <2>1 DEF IsPower
<1>4. Power = [i \in 0..Field |-> IF i = 0 THEN 1 ELSE Digit * Power[i - 1]]
  BY <1>3 DEF Power
<1>5. Power[0] = 1 /\ \A i \in 0..Field - 1 : Power[i + 1] = Digit * Power[i]
  <2>1. 0 \in 0..Field
    BY <1>1
  <2>2. ASSUME NEW i \in 0..Field - 1 PROVE Power[i + 1] = Digit * Power[i]
    <3>1. i + 1 \in 0..Field /\ i + 1 # 0 /\ (i + 1) - 1 = i
      BY <1>1
    <3> QED
      BY <1>4, <3>1
  <2> QED
    BY <1>4, <2>1, <2>2
<1>6. Power = f
  <2>1. \A i \in 0..Field : Power[i] = f[i]
    <3> DEFINE Apart == {i \in 0..Field : Power[i] # f[i]}
    <3>1. SUFFICES ASSUME Apart # {} PROVE FALSE
      OBVIOUS
    <3>2. PICK i \in Apart : \A j \in Apart : i <= j
      <4>1. Apart \in SUBSET Nat
        BY <1>1
      <4> QED
        BY <3>1, <4>1, LeastNatural
    <3>3. i # 0
      BY <1>2, <1>5, <3>2 DEF IsPower
    <3>4. i - 1 \in 0..Field - 1 /\ i - 1 \in 0..Field /\ (i - 1) + 1 = i /\ ~(i <= i - 1)
      BY <1>1, <3>2, <3>3
    <3>5. Power[i - 1] = f[i - 1]
      BY <3>2, <3>4
    <3> QED
      BY <1>2, <1>5, <3>2, <3>4, <3>5 DEF IsPower
  <2>2. f \in [0..Field -> Nat \ {0}]
    BY <1>2 DEF IsPower
  <2> QED
    BY <1>4, <2>1, <2>2
<1> QED
  BY <1>1, <1>2, <1>5, <1>6 DEF IsPower

LEMMA PowerSum ==
    ASSUME NEW i \in Nat, NEW j \in Nat, i + j <= Field
    PROVE  Power[i + j] = Power[i] * Power[j]
<1> DEFINE Apart == {k \in 0..Field - j : Power[k + j] # Power[k] * Power[j]}
<1>1. /\ Field \in Nat /\ Power \in [0..Field -> Nat \ {0}] /\ Power[0] = 1
      /\ \A k \in 0..Field - 1 : Power[k + 1] = Digit * Power[k]
      /\ Digit \in Nat
  BY PowerFacts, StreamAssumption
<1>2. SUFFICES ASSUME Apart # {} PROVE FALSE
  <2>1. i \in 0..Field - j
    BY <1>1
  <2> QED
    BY <2>1
<1>3. PICK k \in Apart : \A m \in Apart : k <= m
  <2>1. Apart \in SUBSET Nat
    BY <1>1
  <2> QED
    BY <1>2, <2>1, LeastNatural
<1>4. j \in 0..Field /\ Power[j] \in Nat
  BY <1>1
<1>5. k # 0
  <2>1. Power[0 + j] = Power[0] * Power[j]
    BY <1>1, <1>4
  <2> QED
    BY <1>3, <2>1
<1>6. /\ k - 1 \in 0..Field - j /\ ~(k <= k - 1)
      /\ (k - 1) + 1 = k /\ k - 1 \in 0..Field - 1 /\ k - 1 \in 0..Field
      /\ (k - 1) + j \in 0..Field - 1 /\ ((k - 1) + j) + 1 = k + j
  BY <1>1, <1>3, <1>5
<1>7. Power[(k - 1) + j] = Power[k - 1] * Power[j]
  BY <1>3, <1>6
<1>8. Power[k + j] = Digit * (Power[k - 1] * Power[j]) /\ Power[k] = Digit * Power[k - 1]
  BY <1>1, <1>6, <1>7
<1>9. Digit * (Power[k - 1] * Power[j]) = (Digit * Power[k - 1]) * Power[j]
  <2>1. Power[k - 1] \in Nat
    BY <1>1, <1>6
  <2> HIDE DEF Apart
  <2> QED
    BY <1>1, <1>4, <2>1
<1> QED
  BY <1>3, <1>8, <1>9

-----------------------------------------------------------------------------
(* The two words of the count                                              *)

LEMMA WordFacts ==
    /\ Block \in Nat \ {0} /\ Field < Block
    /\ Word \in Nat \ {0} /\ Word * Word \in Nat \ {0}
    /\ Word \div 8 \in Nat \ {0} /\ Word = 8 * (Word \div 8)
    /\ \E k \in Nat \ {0} : Word \div 8 = Block * k
<1>1. Block \in Nat \ {0} /\ Field < Block /\ Word % (8 * Block) = 0
  BY StreamAssumption
<1>2. Word \in Nat \ {0}
  <2>1. Half \in 0..Field
    BY PowerFacts
  <2> QED
    BY <2>1, PowerFacts DEF Word
<1> DEFINE k == Word \div (8 * Block)
<1>3. 8 * Block \in Nat \ {0} /\ k \in Nat /\ Word = (8 * Block) * k
  <2>1. 8 * Block \in Nat \ {0}
    BY <1>1
  <2>2. k \in Nat /\ Word = (8 * Block) * k + (Word % (8 * Block))
    BY <1>2, <2>1, DivMod
  <2> HIDE DEF k
  <2> QED
    BY <1>1, <2>1, <2>2
<1> HIDE DEF k
<1>4. k # 0
  BY <1>1, <1>2, <1>3
<1>5. Word = 8 * (Block * k) + 0 /\ Block * k \in Nat
  BY <1>1, <1>3
<1>6. Word \div 8 = Block * k
  BY <1>2, <1>5, DivModUnique
<1>7. Block * k # 0
  BY <1>2, <1>5
<1>8. Word * Word \in Nat \ {0}
  <2> DEFINE w == Word
  <2>1. w \in Nat /\ w # 0
    BY <1>2
  <2> HIDE DEF w
  <2>2. w * w \in Nat /\ w * w # 0
    BY <2>1
  <2> QED
    BY <2>2 DEF w
<1> QED
  BY <1>1, <1>2, <1>3, <1>4, <1>5, <1>6, <1>7, <1>8

\* After n more bytes the two words are the count of all bits, as far as it
\* fits: the carry is right.
Counted(low, high, m, n) ==
    LET bits == (8 * n) % Word
        low2 == (low + bits) % Word
        carry == IF low2 < bits THEN 1 ELSE 0
        high2 == (high + carry + n \div (Word \div 8)) % Word
    IN /\ low2 \in 0..Word - 1 /\ high2 \in 0..Word - 1
       /\ low2 + Word * high2 = (8 * (m + n)) % (Word * Word)

LEMMA CountGrows ==
    ASSUME NEW low \in 0..Word - 1, NEW high \in 0..Word - 1, NEW m \in Nat, NEW n \in Nat,
           low + Word * high = (8 * m) % (Word * Word)
    PROVE  Counted(low, high, m, n)
<1> DEFINE W == Word
           V == Word \div 8
           bits == (8 * n) % W
           low2 == (low + bits) % W
           carry == IF low2 < bits THEN 1 ELSE 0
           q == n \div V
           S == high + carry + q
           high2 == S % W
           t == S \div W
           u == (8 * m) \div (W * W)
<1>1. W \in Nat \ {0} /\ V \in Nat \ {0} /\ W = 8 * V /\ W * W \in Nat \ {0}
      /\ low \in Nat /\ low < W /\ high \in Nat /\ high < W
  BY WordFacts
<1> HIDE DEF W, V
<1>2. q \in Nat /\ bits \in Nat /\ bits < W /\ 8 * n = W * q + bits
  <2> DEFINE r == n % V
  <2>1. q \in Nat /\ r \in Nat /\ r < V /\ n = V * q + r
    BY <1>1, DivMod
  <2> HIDE DEF q, r, bits
  <2>2. 8 * n = W * q + 8 * r
    <3>1. 8 * n = 8 * (V * q) + 8 * r /\ 8 * (V * q) = (8 * V) * q
      BY <1>1, <2>1
    <3> QED
      BY <1>1, <3>1
  <2>3. 8 * r \in Nat /\ 8 * r < W /\ 8 * n \in Nat
    BY <1>1, <2>1
  <2>4. (8 * n) % W = 8 * r
    <3> DEFINE x == 8 * n
               y == 8 * r
    <3>1. x \in Nat /\ y \in Nat /\ y < W /\ x = W * q + y
      BY <2>2, <2>3
    <3> HIDE DEF x, y
    <3>2. x % W = y
      BY <1>1, <2>1, <3>1, DivModUnique
    <3> QED
      BY <3>2 DEF x, y
  <2> QED
    BY <2>1, <2>2, <2>3, <2>4 DEF bits
<1> HIDE DEF q, bits
<1>3. low2 \in Nat /\ low2 < W /\ carry \in Nat /\ low + bits = W * carry + low2
  <2>1. CASE low + bits < W
    <3>1. low + bits = W * 0 + (low + bits) /\ low + bits \in Nat
      BY <1>1, <1>2
    <3>2. low2 = low + bits
      BY <1>1, <1>2, <2>1, <3>1, DivModUnique
    <3> HIDE DEF low2
    <3>3. carry = 0
      BY <1>1, <1>2, <3>2
    <3> QED
      BY <1>1, <1>2, <2>1, <3>2, <3>3
  <2>2. CASE ~(low + bits < W)
    <3> DEFINE z == low + bits - W
    <3>1. low + bits = W * 1 + z /\ z \in Nat /\ z < W /\ low + bits \in Nat /\ z < bits
      BY <1>1, <1>2, <2>2
    <3> HIDE DEF z
    <3>2. low2 = z
      BY <1>1, <3>1, DivModUnique
    <3> HIDE DEF low2
    <3>3. carry = 1
      BY <3>1, <3>2
    <3> QED
      BY <1>1, <3>1, <3>2, <3>3
  <2> QED
    BY <2>1, <2>2
<1> HIDE DEF low2, carry
<1>4. S \in Nat /\ t \in Nat /\ high2 \in Nat /\ high2 < W /\ S = W * t + high2
  <2>1. S \in Nat
    BY <1>1, <1>2, <1>3
  <2> HIDE DEF S
  <2> QED
    BY <1>1, <2>1, DivMod
<1>5. u \in Nat /\ 8 * m = (W * W) * u + (low + W * high)
  <2> DEFINE x == 8 * m
             y == W * W
  <2>1. x \in Nat /\ x % y = low + W * high
    BY DEF W
  <2> HIDE DEF x
  <2>2. y \in Nat \ {0}
    BY <1>1
  <2> HIDE DEF y
  <2>3. x \div y \in Nat /\ x = y * (x \div y) + (x % y)
    BY <2>1, <2>2, DivMod
  <2> QED
    BY <2>1, <2>3 DEF x, y
<1>6. S = high + carry + q
  OBVIOUS
<1> HIDE DEF S, t, high2, u
<1>7. 8 * (m + n) = (W * W) * (u + t) + (low2 + W * high2)
  <2>1. W * S = W * high + W * carry + W * q
    BY <1>1, <1>2, <1>3, <1>6
  <2>2. W * S = (W * W) * t + W * high2
    <3>1. W * S = W * (W * t) + W * high2 /\ W * (W * t) = (W * W) * t
      BY <1>1, <1>4
    <3> QED
      BY <3>1
  <2>3. (W * W) * (u + t) = (W * W) * u + (W * W) * t
    BY <1>1, <1>4, <1>5
  <2>4. 8 * (m + n) = 8 * m + 8 * n
    OBVIOUS
  <2> DEFINE Ws == W * S
             Wh == W * high
             Wc == W * carry
             Wq == W * q
             Wt == (W * W) * t
             Wu == (W * W) * u
             Wg == W * high2
  <2>5. /\ Ws \in Nat /\ Wh \in Nat /\ Wc \in Nat /\ Wq \in Nat
        /\ Wt \in Nat /\ Wu \in Nat /\ Wg \in Nat
    BY <1>1, <1>2, <1>3, <1>4, <1>5
  <2>6. /\ Ws = Wh + Wc + Wq /\ Ws = Wt + Wg
        /\ 8 * m = Wu + (low + Wh) /\ 8 * n = Wq + bits /\ low + bits = Wc + low2
    BY <1>2, <1>3, <1>5, <2>1, <2>2
  <2> HIDE DEF Ws, Wh, Wc, Wq, Wt, Wu, Wg
  <2>7. 8 * m + 8 * n = (Wu + Wt) + (low2 + Wg)
    BY <1>1, <1>2, <1>3, <2>5, <2>6
  <2> QED
    BY <2>3, <2>4, <2>7 DEF Wt, Wu, Wg
<1>8. low2 + W * high2 \in Nat /\ low2 + W * high2 < W * W
  <2>1. W * high2 + W <= W * W /\ W * high2 \in Nat
    BY <1>1, <1>4, Times
  <2> QED
    BY <1>1, <1>3, <2>1
<1>9. (8 * (m + n)) % (W * W) = low2 + W * high2
  <2> DEFINE x == 8 * (m + n)
             y == W * W
             z == low2 + W * high2
  <2>1. /\ x \in Nat /\ y \in Nat \ {0} /\ z \in Nat /\ z < y /\ u + t \in Nat
        /\ x = y * (u + t) + z
    BY <1>1, <1>4, <1>5, <1>7, <1>8
  <2> HIDE DEF x, y, z
  <2>2. x % y = z
    BY <2>1, DivModUnique
  <2> QED
    BY <2>2 DEF x, y, z
<1> QED
  BY <1>1, <1>3, <1>4, <1>9 DEF Counted, W, V, bits, low2, carry, q, S, high2

\* The place in the buffer follows from the low word, also after it wrapped.
LEMMA PositionIs ==
    ASSUME NEW low \in 0..Word - 1, NEW high \in 0..Word - 1, NEW m \in Nat,
           low + Word * high = (8 * m) % (Word * Word)
    PROVE  (low \div 8) % Block = m % Block /\ low = (8 * m) % Word
<1>1. /\ Word \in Nat \ {0} /\ Block \in Nat \ {0} /\ 8 * m \in Nat
      /\ low \in Nat /\ low < Word /\ high \in Nat
  BY WordFacts
<1>2. low = (8 * m) % Word
  <2>1. ((8 * m) % (Word * Word)) % Word = (8 * m) % Word
    <3> DEFINE x == 8 * m
               y == Word * Word
    <3>1. x \in Nat /\ y \in Nat /\ y = Word * Word
      BY <1>1
    <3> HIDE DEF x, y
    <3>2. Splits(x, Word, Word, y)
      BY <1>1, <3>1, DivDiv
    <3> QED
      BY <3>2 DEF x, y, Splits
  <2>2. (low + Word * high) % Word = low
    <3>1. low + Word * high = Word * high + low /\ low + Word * high \in Nat
      BY <1>1
    <3> QED
      BY <1>1, <3>1, DivModUnique
  <2> QED
    BY <2>1, <2>2
<1>3. PICK k \in Nat \ {0} : Word = 8 * (Block * k)
  BY WordFacts
<1> DEFINE V == Block * k
<1>4. V \in Nat \ {0} /\ Word = 8 * V
  BY <1>1, <1>3
<1>5. low \div 8 = m % V
  <2> HIDE DEF V
  <2>1. ((8 * m) % (8 * V)) \div 8 = ((8 * m) \div 8) % V
    <3> DEFINE x == 8 * m
               y == 8
    <3>1. x \in Nat /\ y \in Nat \ {0} /\ Word = y * V
      BY <1>1, <1>4
    <3> HIDE DEF x, y
    <3>2. Splits(x, y, V, Word)
      BY <1>1, <1>4, <3>1, DivDiv
    <3> QED
      BY <1>4, <3>2 DEF x, y, Splits
  <2>2. (8 * m) \div 8 = m
    OBVIOUS
  <2> QED
    BY <1>2, <1>4, <2>1, <2>2
<1>6. (m % V) % Block = m % Block
  <2>1. V = Block * k
    OBVIOUS
  <2> HIDE DEF V
  <2>2. Splits(m, Block, k, V)
    BY <1>1, <1>4, <2>1, DivDiv
  <2> QED
    BY <2>2 DEF Splits
<1> QED
  BY <1>2, <1>5, <1>6

-----------------------------------------------------------------------------
(* git_sha1_update                                                         *)

Bytes == [kind : {"message", "mark", "zero", "count"}, value : Nat]

Typed ==
    /\ lo \in 0..Word - 1 /\ hi \in 0..Word - 1
    /\ buffer \in [1..Block -> Bytes]
    /\ fed \in Seq(Bytes) /\ given \in Seq(Bytes)

LEMMA Places ==
    ASSUME Typed, StreamKept
    PROVE  /\ Position \in 0..Block - 1 /\ Position = Len(given) % Block
           /\ lo = (8 * Len(given)) % Word
           /\ SubSeq(buffer, 1, Position) \in Seq(Bytes)
           /\ Len(SubSeq(buffer, 1, Position)) = Position
           /\ Len(given) = Len(fed) + Position
<1>1. Block \in Nat \ {0} /\ Word \in Nat \ {0}
  BY WordFacts
<1>2. Len(given) \in Nat /\ Len(fed) \in Nat
  BY DEF Typed
<1>3. Position = Len(given) % Block /\ lo = (8 * Len(given)) % Word
  BY <1>2, PositionIs DEF Typed, StreamKept, Position
<1>4. Position \in 0..Block - 1
  BY <1>1, <1>2, <1>3, DivMod
<1> HIDE DEF Position
<1>5. /\ SubSeq(buffer, 1, Position) \in Seq(Bytes)
      /\ Len(SubSeq(buffer, 1, Position)) = Position
  <2>1. 1 \in Int /\ Position \in Int /\ \A i \in 1..Position : buffer[i] \in Bytes
    BY <1>1, <1>4 DEF Typed
  <2>2. /\ SubSeq(buffer, 1, Position) \in Seq(Bytes)
        /\ Len(SubSeq(buffer, 1, Position)) = IF 1 <= Position THEN Position - 1 + 1 ELSE 0
    BY <2>1, SubSeqProperties
  <2> QED
    BY <1>1, <1>4, <2>2
<1>6. Len(given) = Len(fed) + Position
  <2> DEFINE held == SubSeq(buffer, 1, Position)
  <2>1. held \in Seq(Bytes) /\ Len(held) = Position /\ fed \in Seq(Bytes)
        /\ given = fed \o held
    BY <1>5 DEF Typed, StreamKept
  <2> HIDE DEF held
  <2> QED
    BY <2>1, ConcatProperties
<1> QED
  BY <1>3, <1>4, <1>5, <1>6

\* What is put behind what is held is held behind it.
LEMMA PutFacts ==
    ASSUME NEW piece \in Seq(Bytes), NEW at \in Nat, at + Len(piece) <= Block,
           buffer \in [1..Block -> Bytes]
    PROVE  /\ Put(piece, at) \in [1..Block -> Bytes]
           /\ SubSeq(Put(piece, at), 1, at + Len(piece)) = SubSeq(buffer, 1, at) \o piece
<1> DEFINE n == Len(piece)
           new == Put(piece, at)
           left == SubSeq(new, 1, at + n)
           held == SubSeq(buffer, 1, at)
<1>1. Block \in Nat \ {0} /\ n \in Nat
  BY WordFacts
<1>2. new \in [1..Block -> Bytes]
  <2>1. ASSUME NEW i \in at + 1..at + n PROVE piece[i - at] \in Bytes
    <3>1. i - at \in 1..n
      BY <1>1
    <3> QED
      BY <3>1
  <2> QED
    BY <2>1 DEF Put
<1>3. /\ \A i \in 1..at : new[i] = buffer[i]
      /\ \A i \in 1..n : new[at + i] = piece[i]
  <2>1. ASSUME NEW i \in 1..at PROVE new[i] = buffer[i]
    <3>1. i \in 1..Block /\ i \notin at + 1..at + n
      BY <1>1
    <3> QED
      BY <3>1 DEF Put
  <2>2. ASSUME NEW i \in 1..n PROVE new[at + i] = piece[i]
    <3>1. at + i \in 1..Block /\ at + i \in at + 1..at + n /\ (at + i) - at = i
      BY <1>1
    <3> QED
      BY <3>1 DEF Put
  <2> QED
    BY <2>1, <2>2
<1> HIDE DEF new
<1>4. /\ held \in Seq(Bytes) /\ Len(held) = at
      /\ \A i \in 1..at : held[i] = buffer[i]
  <2>1. 1 \in Int /\ at \in Int /\ \A i \in 1..at : buffer[i] \in Bytes /\ 1 + i - 1 = i
    BY <1>1
  <2>2. at - 1 + 1 = at
    OBVIOUS
  <2>3. /\ held \in Seq(Bytes)
        /\ Len(held) = IF 1 <= at THEN at - 1 + 1 ELSE 0
        /\ \A i \in 1..at - 1 + 1 : held[i] = buffer[1 + i - 1]
    BY <2>1, SubSeqProperties
  <2> HIDE DEF held
  <2> QED
    BY <2>1, <2>2, <2>3
<1>5. /\ left \in Seq(Bytes) /\ Len(left) = at + n
      /\ \A i \in 1..at + n : left[i] = new[i]
  <2>1. /\ 1 \in Int /\ at + n \in Int
        /\ \A i \in 1..at + n : new[i] \in Bytes /\ 1 + i - 1 = i
    BY <1>1, <1>2
  <2>2. (at + n) - 1 + 1 = at + n
    BY <1>1
  <2>3. /\ left \in Seq(Bytes)
        /\ Len(left) = IF 1 <= at + n THEN (at + n) - 1 + 1 ELSE 0
        /\ \A i \in 1..(at + n) - 1 + 1 : left[i] = new[1 + i - 1]
    BY <2>1, SubSeqProperties
  <2> HIDE DEF left
  <2> QED
    BY <1>1, <2>1, <2>2, <2>3
<1> HIDE DEF left, held
<1>6. /\ held \o piece \in Seq(Bytes) /\ Len(held \o piece) = at + n
      /\ \A i \in 1..at + n :
            (held \o piece)[i] = IF i <= at THEN held[i] ELSE piece[i - at]
  BY <1>4, ConcatProperties
<1>7. ASSUME NEW i \in 1..at + n PROVE left[i] = (held \o piece)[i]
  <2>1. CASE i <= at
    <3>1. i \in 1..at
      BY <1>1, <2>1
    <3> QED
      BY <1>3, <1>4, <1>5, <1>6, <2>1, <3>1
  <2>2. CASE ~(i <= at)
    <3>1. i - at \in 1..n /\ at + (i - at) = i
      BY <1>1, <2>2
    <3> QED
      BY <1>3, <1>5, <1>6, <2>2, <3>1
  <2> QED
    BY <2>1, <2>2
<1>8. left = held \o piece
  BY <1>5, <1>6, <1>7, SeqEqual
<1> QED
  BY <1>2, <1>8 DEF left, held, new

\* A piece that does not fill the buffer.
LEMMA UpdateShort ==
    ASSUME Typed, StreamKept, NEW piece \in Seq(Bytes), Update(piece), ~Fills(piece),
           Position' = (Len(given) + Len(piece)) % Block
    PROVE  /\ buffer' \in [1..Block -> Bytes] /\ fed' \in Seq(Bytes)
           /\ Len(fed') % Block = 0
           /\ fed' \o SubSeq(buffer', 1, Position') = given'
<1> DEFINE n == Len(piece)
           pos == Position
           held == SubSeq(buffer, 1, pos)
<1>1. /\ Block \in Nat \ {0} /\ n \in Nat /\ pos \in 0..Block - 1
      /\ held \in Seq(Bytes) /\ Len(given) = Len(fed) + pos
      /\ Len(fed) \in Nat /\ fed \in Seq(Bytes) /\ given \in Seq(Bytes)
  BY WordFacts, Places DEF Typed
<1>2. /\ fed' = fed /\ buffer' = Put(piece, pos) /\ given' = given \o piece
      /\ pos + n <= Block - 1
  BY <1>1 DEF Update, Fills
<1> HIDE DEF pos
<1>3. Position' = pos + n
  <2>1. PICK k \in Nat : Len(fed) = Block * k
    <3> DEFINE k == Len(fed) \div Block
    <3>1. k \in Nat /\ Len(fed) = Block * k + (Len(fed) % Block)
      BY <1>1, DivMod
    <3>2. Len(fed) % Block = 0
      BY DEF StreamKept
    <3> HIDE DEF k
    <3>3. Block * k \in Nat
      BY <1>1, <3>1
    <3>4. Len(fed) = Block * k
      BY <3>1, <3>2, <3>3
    <3> QED
      BY <3>1, <3>4
  <2> DEFINE m == Len(given) + n
  <2>2. m \in Nat /\ m = Block * k + (pos + n) /\ pos + n \in Nat /\ pos + n < Block
    <3> DEFINE l == Len(fed)
               g == Len(given)
    <3>1. /\ l \in Nat /\ l = Block * k /\ g = l + pos /\ m = g + n
          /\ n \in Nat /\ pos \in 0..Block - 1 /\ pos + n <= Block - 1
          /\ Block \in Nat
      BY <1>1, <1>2, <2>1
    <3> HIDE DEF l, g, m, n
    <3> QED
      BY <3>1
  <2> HIDE DEF m
  <2>3. m % Block = pos + n
    BY <1>1, <2>2, DivModUnique
  <2> QED
    BY <2>3 DEF m
<1>4. /\ Put(piece, pos) \in [1..Block -> Bytes]
      /\ SubSeq(Put(piece, pos), 1, pos + n) = held \o piece
  <2>1. pos \in Nat /\ pos + Len(piece) <= Block
    BY <1>1, <1>2
  <2> QED
    BY <2>1, PutFacts DEF Typed
<1>5. fed \o (held \o piece) = given \o piece
  <2>1. given = fed \o held
    BY DEF StreamKept, pos
  <2> HIDE DEF held
  <2>2. fed \in Seq(Bytes) /\ held \in Seq(Bytes)
    BY <1>1 DEF held
  <2>3. (fed \o held) \o piece = fed \o (held \o piece)
    BY <2>2, ConcatAssociative
  <2> QED
    BY <2>1, <2>3
<1> QED
  BY <1>1, <1>2, <1>3, <1>4, <1>5 DEF StreamKept

Regroups(a, b, c, d, e) == ((a \o (b \o c)) \o d) \o e = (a \o b) \o ((c \o d) \o e)

LEMMA Regroup ==
    ASSUME NEW a \in Seq(Bytes), NEW b \in Seq(Bytes), NEW c \in Seq(Bytes),
           NEW d \in Seq(Bytes), NEW e \in Seq(Bytes)
    PROVE  Regroups(a, b, c, d, e)
<1>1. a \o b \in Seq(Bytes) /\ c \o d \in Seq(Bytes)
  BY ConcatProperties
<1>2. /\ Associates(a, b, c) /\ Associates(a \o b, c, d)
      /\ Associates(a \o b, c \o d, e)
  BY <1>1, Associative
<1> QED
  BY <1>2, Zenon DEF Associates, Regroups

\* A piece cut at two places.
LEMMA CutTwice ==
    ASSUME NEW s \in Seq(Bytes), NEW i \in Nat, NEW j \in Nat, i <= j, j <= Len(s)
    PROVE  /\ SubSeq(s, 1, i) \in Seq(Bytes) /\ Len(SubSeq(s, 1, i)) = i
           /\ SubSeq(s, i + 1, j) \in Seq(Bytes) /\ Len(SubSeq(s, i + 1, j)) = j - i
           /\ SubSeq(s, j + 1, Len(s)) \in Seq(Bytes)
           /\ Len(SubSeq(s, j + 1, Len(s))) = Len(s) - j
           /\ (SubSeq(s, 1, i) \o SubSeq(s, i + 1, j)) \o SubSeq(s, j + 1, Len(s)) = s
<1> DEFINE n == Len(s)
<1>1. n \in Nat /\ \A k \in 1..n : s[k] \in Bytes
  OBVIOUS
<1> HIDE DEF n
<1>2. ASSUME NEW x \in Nat, NEW y \in Nat, x <= y, y <= n
      PROVE  SubSeq(s, x + 1, y) \in Seq(Bytes) /\ Len(SubSeq(s, x + 1, y)) = y - x
  <2>1. x + 1 \in Int /\ y \in Int /\ \A k \in x + 1..y : s[k] \in Bytes
    BY <1>1, <1>2
  <2>2. /\ SubSeq(s, x + 1, y) \in Seq(Bytes)
        /\ Len(SubSeq(s, x + 1, y)) = IF x + 1 <= y THEN y - (x + 1) + 1 ELSE 0
    BY <2>1, SubSeqProperties
  <2> QED
    BY <1>2, <2>2
<1>3. SubSeq(s, 1, i) \in Seq(Bytes) /\ Len(SubSeq(s, 1, i)) = i
  <2>1. /\ SubSeq(s, 0 + 1, i) \in Seq(Bytes)
        /\ Len(SubSeq(s, 0 + 1, i)) = i - 0
    BY <1>1, <1>2 DEF n
  <2> QED
    BY <2>1
<1>4. /\ SubSeq(s, i + 1, j) \in Seq(Bytes) /\ Len(SubSeq(s, i + 1, j)) = j - i
      /\ SubSeq(s, j + 1, n) \in Seq(Bytes) /\ Len(SubSeq(s, j + 1, n)) = n - j
  BY <1>1, <1>2 DEF n
<1>5. SubSeq(s, 1, i) \o SubSeq(s, i + 1, j) = SubSeq(s, 1, j)
  <2>1. 1 \in 1..Len(s) + 1 /\ i \in 1 - 1..Len(s) /\ j \in i..Len(s)
    BY <1>1 DEF n
  <2> QED
    BY <2>1, ConcatAdjacentSubSeq
<1>6. SubSeq(s, 1, j) \o SubSeq(s, j + 1, n) = SubSeq(s, 1, n)
  <2>1. 1 \in 1..Len(s) + 1 /\ j \in 1 - 1..Len(s) /\ n \in j..Len(s)
    BY <1>1 DEF n
  <2> QED
    BY <2>1, ConcatAdjacentSubSeq
<1>7. SubSeq(s, 1, n) = s
  BY SubSeqFull DEF n
<1>8. (SubSeq(s, 1, i) \o SubSeq(s, i + 1, j)) \o SubSeq(s, j + 1, n) = s
  BY <1>5, <1>6, <1>7
<1> QED
  BY <1>3, <1>4, <1>8 DEF n

\* A piece that fills the buffer, and perhaps more blocks.
LEMMA UpdateLong ==
    ASSUME Typed, StreamKept, NEW piece \in Seq(Bytes), Update(piece), Fills(piece),
           Position' = (Len(given) + Len(piece)) % Block
    PROVE  /\ buffer' \in [1..Block -> Bytes] /\ fed' \in Seq(Bytes)
           /\ Len(fed') % Block = 0
           /\ fed' \o SubSeq(buffer', 1, Position') = given'
<1> DEFINE n == Len(piece)
           pos == Position
           held == SubSeq(buffer, 1, pos)
           first == Block - pos
           start == SubSeq(piece, 1, first)
           full == Put(start, pos)
           q == (n - first) \div Block
           r == (n - first) % Block
           whole == first + Block * q
           middle == SubSeq(piece, first + 1, whole)
           rest == SubSeq(piece, whole + 1, n)
<1>1. /\ Block \in Nat \ {0} /\ n \in Nat /\ pos \in 0..Block - 1
      /\ held \in Seq(Bytes) /\ Len(given) = Len(fed) + pos
      /\ Len(fed) \in Nat /\ fed \in Seq(Bytes) /\ given \in Seq(Bytes)
  BY WordFacts, Places DEF Typed
<1>2. /\ fed' = (fed \o full) \o middle
      /\ buffer' = [i \in 1..Block |-> IF i <= Len(rest) THEN rest[i] ELSE full[i]]
      /\ given' = given \o piece
      /\ pos + n > Block - 1
  BY DEF Update, Fills
<1>3. /\ first \in Nat /\ first <= n /\ pos + first = Block
      /\ q \in Nat /\ r \in Nat /\ r < Block /\ Block * q \in Nat
      /\ n = whole + r /\ whole \in Nat /\ first <= whole /\ whole <= n
  <2>1. first \in Nat /\ first <= n /\ pos + first = Block /\ n - first \in Nat
    BY <1>1, <1>2
  <2> HIDE DEF first, pos, n
  <2>2. q \in Nat /\ r \in Nat /\ r < Block /\ n - first = Block * q + r
    BY <1>1, <2>1, DivMod
  <2> HIDE DEF q, r
  <2> DEFINE b == Block * q
  <2>3. b \in Nat
    BY <1>1, <2>2
  <2>4. n - first = b + r /\ whole = first + b
    BY <2>2
  <2>5. n \in Nat
    BY <1>1 DEF n
  <2> HIDE DEF b, whole
  <2>6. n = whole + r /\ whole \in Nat /\ first <= whole /\ whole <= n
    BY <2>1, <2>2, <2>3, <2>4, <2>5
  <2> QED
    BY <2>1, <2>2, <2>3, <2>6 DEF b
<1>4. /\ start \in Seq(Bytes) /\ Len(start) = first
      /\ middle \in Seq(Bytes) /\ Len(middle) = Block * q
      /\ rest \in Seq(Bytes) /\ Len(rest) = r
      /\ (start \o middle) \o rest = piece
  <2> HIDE DEF first, q, r, pos
  <2>1. /\ start \in Seq(Bytes) /\ Len(start) = first
        /\ middle \in Seq(Bytes) /\ Len(middle) = whole - first
        /\ rest \in Seq(Bytes) /\ Len(rest) = n - whole
        /\ (start \o middle) \o rest = piece
    <3> HIDE DEF whole
    <3> QED
      BY <1>3, CutTwice
  <2>2. whole - first = Block * q /\ n - whole = r
    <3> DEFINE b == Block * q
    <3>1. b \in Nat /\ whole = first + b /\ first \in Nat /\ n = whole + r /\ r \in Nat
          /\ n \in Nat
      BY <1>1, <1>3
    <3> HIDE DEF b, whole, n
    <3>2. whole - first = b /\ n - whole = r
      BY <3>1
    <3> QED
      BY <3>2 DEF b
  <2> QED
    BY <2>1, <2>2
<1> HIDE DEF start, middle, rest, first, whole, q, r, pos, n
<1>5. full \in [1..Block -> Bytes] /\ full = held \o start /\ full \in Seq(Bytes)
      /\ Len(full) = Block
  <2>1. /\ full \in [1..Block -> Bytes]
        /\ SubSeq(full, 1, pos + Len(start)) = held \o start
    <3>1. pos \in Nat /\ pos + Len(start) <= Block
      BY <1>1, <1>3, <1>4
    <3> QED
      BY <1>4, <3>1, PutFacts DEF Typed
  <2> HIDE DEF full
  <2>2. full \in Seq(Bytes) /\ Len(full) = Block
    BY <1>1, <2>1
  <2>3. SubSeq(full, 1, Block) = full
    BY <2>2, SubSeqFull
  <2> QED
    BY <1>3, <1>4, <2>1, <2>2, <2>3
<1> HIDE DEF full
<1>6. PICK k \in Nat : Len(fed) = Block * k
  <2> DEFINE k == Len(fed) \div Block
  <2>1. k \in Nat /\ Len(fed) = Block * k + (Len(fed) % Block)
    BY <1>1, DivMod
  <2>2. Len(fed) % Block = 0
    BY DEF StreamKept
  <2> HIDE DEF k
  <2>3. Block * k \in Nat
    BY <1>1, <2>1
  <2>4. Len(fed) = Block * k
    BY <2>1, <2>2, <2>3
  <2> QED
    BY <2>1, <2>4
<1>7. Len(fed') % Block = 0 /\ fed' \in Seq(Bytes)
  <2>1. /\ fed \o full \in Seq(Bytes) /\ Len(fed \o full) = Len(fed) + Block
    BY <1>1, <1>5, ConcatProperties
  <2>2. fed' \in Seq(Bytes) /\ Len(fed') = (Len(fed) + Block) + Block * q
    <3> DEFINE more == fed \o full
    <3>1. more \in Seq(Bytes) /\ Len(more) = Len(fed) + Block /\ fed' = more \o middle
      BY <1>2, <2>1
    <3> HIDE DEF more
    <3>2. more \o middle \in Seq(Bytes) /\ Len(more \o middle) = Len(more) + Len(middle)
      BY <1>4, <3>1, ConcatProperties
    <3> QED
      BY <1>4, <3>1, <3>2
  <2> DEFINE m == Len(fed')
  <2>3. m = Block * (k + 1 + q) + 0 /\ k + 1 + q \in Nat /\ m \in Nat
    <3>1. m = (Block * k + Block) + Block * q /\ m \in Nat
      BY <1>6, <2>2
    <3> HIDE DEF m
    <3> QED
      BY <1>1, <1>3, <3>1
  <2> HIDE DEF m
  <2>4. m % Block = 0
    BY <1>1, <2>3, DivModUnique
  <2> QED
    BY <2>2, <2>4 DEF m
<1>8. Position' = r
  <2> DEFINE m == Len(given) + n
             l == Len(fed)
             b == Block * q
  <2>1. m = Block * (k + 1 + q) + r /\ k + 1 + q \in Nat /\ m \in Nat
    <3>1. m = (l + pos) + n /\ l = Block * k /\ l \in Nat /\ pos \in Nat /\ b \in Nat
          /\ n = (first + b) + r /\ pos + first = Block /\ n \in Nat
          /\ first \in Nat /\ r \in Nat
      BY <1>1, <1>3, <1>6 DEF whole
    <3> HIDE DEF m, l, b
    <3>2. m = l + Block + b + r /\ m \in Nat
      BY <1>1, <3>1
    <3>3. Block * (k + 1 + q) = Block * k + Block + Block * q
      BY <1>1, <1>3
    <3> QED
      BY <1>1, <1>3, <3>1, <3>2, <3>3 DEF b
  <2> HIDE DEF m
  <2>2. m % Block = r
    BY <1>1, <1>3, <2>1, DivModUnique
  <2> QED
    BY <2>2 DEF m, n
<1>9. buffer' \in [1..Block -> Bytes] /\ SubSeq(buffer', 1, r) = rest
  <2>1. buffer' \in [1..Block -> Bytes] /\ \A i \in 1..r : buffer'[i] = rest[i]
    <3>1. \A i \in 1..r : rest[i] \in Bytes /\ i \in 1..Block /\ i <= Len(rest)
      BY <1>1, <1>3, <1>4
    <3>2. \A i \in 1..Block : i <= Len(rest) => i \in 1..r
      BY <1>1, <1>3, <1>4
    <3> QED
      BY <1>2, <1>5, <3>1, <3>2
  <2> DEFINE left == SubSeq(buffer', 1, r)
  <2>2. 1 \in Int /\ r \in Int /\ \A i \in 1..r : buffer'[i] \in Bytes /\ 1 + i - 1 = i
    BY <1>1, <1>3, <2>1
  <2>3. /\ left \in Seq(Bytes)
        /\ Len(left) = IF 1 <= r THEN r - 1 + 1 ELSE 0
        /\ \A i \in 1..r - 1 + 1 : left[i] = buffer'[1 + i - 1]
    BY <2>2, SubSeqProperties
  <2> HIDE DEF left
  <2>4. Len(left) = r /\ \A i \in 1..r : left[i] = rest[i]
    BY <1>3, <2>1, <2>2, <2>3
  <2>5. left = rest
    BY <1>4, <2>3, <2>4, SeqEqual
  <2> QED
    BY <2>1, <2>5 DEF left
<1>10. fed' \o rest = given'
  <2>1. given = fed \o held
    BY DEF StreamKept, pos
  <2> HIDE DEF held
  <2>2. Regroups(fed, held, start, middle, rest)
    <3>1. /\ fed \in Seq(Bytes) /\ held \in Seq(Bytes) /\ start \in Seq(Bytes)
          /\ middle \in Seq(Bytes) /\ rest \in Seq(Bytes)
      BY <1>1, <1>4 DEF held
    <3> QED
      BY <3>1, Regroup
  <2> QED
    BY <1>2, <1>4, <1>5, <2>1, <2>2 DEF Regroups
<1> QED
  BY <1>7, <1>8, <1>9, <1>10

\* git_sha1_update keeps what is said of the context, whatever the piece.
LEMMA UpdateKeeps ==
    ASSUME Typed, StreamKept, NEW piece \in Seq(Bytes), Update(piece)
    PROVE  Typed' /\ StreamKept' /\ Len(given') = Len(given) + Len(piece)
<1> DEFINE m == Len(given)
           n == Len(piece)
<1>1. /\ m \in Nat /\ n \in Nat /\ given' = given \o piece
      /\ given' \in Seq(Bytes) /\ Len(given') = m + n
  <2>1. given \in Seq(Bytes) /\ given' = given \o piece
    BY DEF Typed, Update
  <2> QED
    BY <2>1, ConcatProperties
<1>2. /\ lo' \in 0..Word - 1 /\ hi' \in 0..Word - 1
      /\ lo' + Word * hi' = (8 * (m + n)) % (Word * Word)
  <2>1. /\ lo \in 0..Word - 1 /\ hi \in 0..Word - 1
        /\ lo + Word * hi = (8 * m) % (Word * Word)
    BY DEF Typed, StreamKept
  <2> DEFINE bits == (8 * n) % Word
             low2 == (lo + bits) % Word
             carry == IF low2 < bits THEN 1 ELSE 0
             high2 == (hi + carry + n \div (Word \div 8)) % Word
  <2>2. lo' = low2 /\ hi' = high2
    <3>1. /\ lo' = (lo + Bits(piece)) % Word
          /\ hi' = (hi + Carry(piece) + Len(piece) \div (Word \div 8)) % Word
      BY DEF Update
    <3>2. Bits(piece) = bits
      BY DEF Bits
    <3> HIDE DEF bits
    <3>3. Carry(piece) = carry
      BY <3>2 DEF Carry
    <3> HIDE DEF carry
    <3> QED
      BY <3>1, <3>2, <3>3
  <2> HIDE DEF m, n
  <2>3. Counted(lo, hi, m, n)
    BY <1>1, <2>1, CountGrows
  <2>4. /\ low2 \in 0..Word - 1 /\ high2 \in 0..Word - 1
        /\ low2 + Word * high2 = (8 * (m + n)) % (Word * Word)
    BY <2>3 DEF Counted
  <2> HIDE DEF low2, high2
  <2> QED
    BY <2>2, <2>4
<1>3. Position' = (m + n) % Block
  <2>1. m + n \in Nat
    BY <1>1
  <2> HIDE DEF m, n
  <2>2. (lo' \div 8) % Block = (m + n) % Block
    BY <1>2, <2>1, PositionIs
  <2> QED
    BY <2>2 DEF Position
<1>4. /\ buffer' \in [1..Block -> Bytes] /\ fed' \in Seq(Bytes)
      /\ Len(fed') % Block = 0
      /\ fed' \o SubSeq(buffer', 1, Position') = given'
  BY <1>3, UpdateShort, UpdateLong
<1> QED
  BY <1>1, <1>2, <1>4 DEF Typed, StreamKept

-----------------------------------------------------------------------------
(* What is hashed is what was given                                        *)

StreamInv == Typed /\ finalcount \in Seq(Bytes) /\ StreamKept

\* A context that was given nothing.
Fresh(buf) ==
    /\ 0 \in 0..Word - 1
    /\ <<>> \in Seq(Bytes) /\ Len(<<>>) % Block = 0
    /\ <<>> \o SubSeq(buf, 1, (0 \div 8) % Block) = <<>>
    /\ 0 + Word * 0 = (8 * Len(<<>>)) % (Word * Word)

LEMMA FreshContext == ASSUME NEW buf PROVE Fresh(buf)
<1>1. Word \in Nat \ {0} /\ Block \in Nat \ {0} /\ Word * Word \in Nat \ {0}
  BY WordFacts
<1>2. <<>> \in Seq(Bytes) /\ Len(<<>>) = 0
  BY EmptySeq
<1>3. (0 \div 8) % Block = 0 /\ 0 % Block = 0
  <2>1. 0 \div 8 = 0 /\ 0 = Block * 0 + 0
    BY <1>1
  <2> QED
    BY <1>1, <2>1, DivModUnique
<1>4. SubSeq(buf, 1, 0) = <<>> /\ <<>> \o <<>> = <<>>
  BY <1>2, SubSeqEmpty, ConcatEmptySeq
<1>5. (8 * 0) % (Word * Word) = 0
  <2> DEFINE y == Word * Word
  <2>1. y \in Nat \ {0}
    BY <1>1
  <2> HIDE DEF y
  <2>2. 0 = y * 0 + 0
    BY <2>1
  <2>3. 0 % y = 0
    BY <2>1, <2>2, DivModUnique
  <2> QED
    BY <2>3 DEF y
<1>6. 0 + Word * 0 = 0 /\ 0 \in 0..Word - 1
  BY <1>1
<1> QED
  BY <1>2, <1>3, <1>4, <1>5, <1>6 DEF Fresh

\* What is given is made of bytes.
LEMMA Pieces ==
    /\ \A len, k \in Nat : [i \in 1..len |-> Byte(k + i)] \in Seq(Bytes)
    /\ <<Mark>> \in Seq(Bytes) /\ <<Zero>> \in Seq(Bytes)
<1>1. ASSUME NEW len \in Nat, NEW k \in Nat
      PROVE  [i \in 1..len |-> Byte(k + i)] \in Seq(Bytes)
  <2>1. \A i \in 1..len : Byte(k + i) \in Bytes
    BY DEF Byte, Bytes
  <2>2. [i \in 1..len |-> Byte(k + i)] \in [1..len -> Bytes]
    BY <2>1
  <2> QED
    BY <2>2
<1>2. Mark \in Bytes /\ Zero \in Bytes
  BY DEF Mark, Zero, Bytes
<1> QED
  BY <1>1, <1>2

LEMMA CountBytesType ==
    ASSUME NEW low \in Nat, NEW high \in Nat
    PROVE  CountBytes(low, high) \in [1..Field -> Bytes]
<1>1. /\ Field \in Nat /\ Half \in Nat \ {0} /\ Field = Half + Half
      /\ Digit \in Nat \ {0} /\ Power \in [0..Field -> Nat \ {0}]
  BY PowerFacts, StreamAssumption
<1>2. ASSUME NEW i \in 1..Field
      PROVE  CountByte(((IF i > Half THEN low ELSE high)
                   \div Power[Half - 1 - ((i - 1) % Half)]) % Digit) \in Bytes
  <2> DEFINE word == IF i > Half THEN low ELSE high
             e == Half - 1 - ((i - 1) % Half)
             d == (word \div Power[e]) % Digit
  <2>1. word \in Nat
    OBVIOUS
  <2>2. e \in 0..Field
    <3>1. i - 1 \in Nat
      BY <1>1
    <3>2. (i - 1) % Half \in Nat /\ (i - 1) % Half < Half
      BY <1>1, <3>1, DivMod
    <3> QED
      BY <1>1, <3>2
  <2>3. Power[e] \in Nat \ {0}
    BY <1>1, <2>2
  <2> HIDE DEF word, e
  <2>4. word \div Power[e] \in Nat
    BY <2>1, <2>3, DivMod
  <2>5. d \in Nat
    BY <1>1, <2>4, DivMod
  <2> HIDE DEF d
  <2>6. CountByte(d) \in Bytes
    BY <2>5 DEF CountByte, Bytes
  <2> QED
    BY <2>6 DEF d, e, word
<1> QED
  BY <1>2 DEF CountBytes

LEMMA StreamInvariant == Spec => []StreamInv
<1>1. Init => StreamInv
  <2>1. Zero \in Bytes
    BY DEF Zero, Bytes
  <2> QED
    BY <2>1, FreshContext DEF Init, Typed, StreamKept, StreamInv, Position, Fresh
<1>2. StreamInv /\ [Next]_vars => StreamInv'
  <2> SUFFICES ASSUME StreamInv, [Next]_vars PROVE StreamInv'
    OBVIOUS
  <2> USE DEF StreamInv
  <2>1. Len(given) \in Nat
    BY DEF Typed
  <2>2. CASE \E len \in 0..MaxLen : Write(len)
    <3>1. PICK len \in 0..MaxLen : Write(len)
      BY <2>2
    <3> DEFINE piece == [i \in 1..len |-> Byte(Len(given) + i)]
    <3>2. piece \in Seq(Bytes)
      <4>1. len \in Nat
        BY StreamAssumption
      <4> QED
        BY <2>1, <4>1, Pieces
    <3>3. Update(piece) /\ finalcount' = finalcount
      BY <3>1 DEF Write
    <3> HIDE DEF piece
    <3> QED
      BY <3>2, <3>3, UpdateKeeps
  <2>3. CASE BeginFinal
    <3>1. Update(<<Mark>>) /\ finalcount' = CountBytes(lo, hi)
      BY <2>3 DEF BeginFinal, FinalCount
    <3>2. CountBytes(lo, hi) \in Seq(Bytes)
      <4>1. lo \in Nat /\ hi \in Nat /\ Field \in Nat
        BY PowerFacts, WordFacts DEF Typed
      <4>2. CountBytes(lo, hi) \in [1..Field -> Bytes]
        BY <4>1, CountBytesType
      <4> QED
        BY <4>1, <4>2
    <3> QED
      BY <3>1, <3>2, Pieces, UpdateKeeps
  <2>4. CASE Pad
    <3>1. Update(<<Zero>>) /\ finalcount' = finalcount
      BY <2>4 DEF Pad
    <3> QED
      BY <3>1, Pieces, UpdateKeeps
  <2>5. CASE EndFinal
    <3>1. Update(finalcount) /\ finalcount' = finalcount
      BY <2>5 DEF EndFinal
    <3> QED
      BY <3>1, UpdateKeeps
  <2>6. CASE Begin
    <3>1. /\ buffer' \in [1..Block -> Bytes] /\ lo' = 0 /\ hi' = 0 /\ fed' = <<>>
          /\ given' = <<>> /\ finalcount' = <<>>
      BY <2>6 DEF Begin, Typed
    <3>2. Fresh(buffer')
      BY FreshContext
    <3> QED
      BY <3>1, <3>2 DEF Typed, StreamKept, Position, Fresh
  <2>7. CASE UNCHANGED vars
    BY <2>7 DEF vars, Typed, StreamKept, Position
  <2> QED
    BY <2>2, <2>3, <2>4, <2>5, <2>6, <2>7 DEF Next
<1> QED
  BY <1>1, <1>2, PTL DEF Spec

\* At any time, also while padding, and for a message cut in any way, what
\* git_sha1_update has handed on and holds is what it was given, and the two
\* words of the count are its bits, also where they wrap around.
THEOREM StreamIsKept == Spec => []StreamKept
<1>1. StreamInv => StreamKept
  BY DEF StreamInv
<1> QED
  BY <1>1, StreamInvariant, PTL

-----------------------------------------------------------------------------
(* The count in the padding                                                *)

DigitOf(n, e) == (n \div Power[e]) % Digit

\* The digits of a word are the low digits of what was cut to fit in it.
LEMMA LowDigits ==
    ASSUME NEW n \in Nat, NEW e \in 0..Half - 1
    PROVE  DigitOf(n % Word, e) = DigitOf(n, e)
<1> DEFINE c == Power[Half - e]
           d == Power[Half - e - 1]
           x == n \div Power[e]
<1>1. /\ Half \in Nat /\ e \in Nat /\ Half - e \in Nat /\ Half - e - 1 \in Nat
      /\ Half <= Field /\ (Half - e - 1) + 1 = Half - e /\ e + (Half - e) = Half
      /\ e \in 0..Field /\ Half - e \in 0..Field /\ Half - e - 1 \in 0..Field - 1
      /\ Half - e - 1 \in 0..Field
  BY PowerFacts
<1>2. /\ Power[e] \in Nat \ {0} /\ c \in Nat \ {0} /\ d \in Nat \ {0}
      /\ c = Digit * d /\ Digit \in Nat \ {0}
  BY <1>1, PowerFacts, StreamAssumption
<1>3. Word = Power[e] * c
  <2>1. Power[e + (Half - e)] = Power[e] * Power[Half - e]
    BY <1>1, PowerSum
  <2> QED
    BY <1>1, <2>1 DEF Word
<1>4. x \in Nat
  BY <1>2, DivMod
<1> HIDE DEF c, d
<1>5. Splits(n, Power[e], c, Word)
  BY <1>2, <1>3, WordFacts, DivDiv
<1>6. (n % Word) \div Power[e] = x % c
  BY <1>5 DEF Splits
<1> HIDE DEF x
<1>7. Splits(x, Digit, d, c)
  BY <1>2, <1>4, DivDiv
<1>8. (x % c) % Digit = x % Digit
  BY <1>7 DEF Splits
<1> QED
  BY <1>6, <1>8 DEF DigitOf, x

LEMMA HighDigits ==
    ASSUME NEW n \in Nat, NEW e \in 0..Half - 1
    PROVE  DigitOf(n \div Word, e) = DigitOf(n, Half + e)
<1>1. /\ Half \in Nat /\ e \in Nat /\ Half + e <= Field /\ e \in 0..Field
      /\ Half + e \in 0..Field
  BY PowerFacts
<1>2. /\ Power[e] \in Nat \ {0} /\ Power[Half + e] \in Nat \ {0} /\ Word \in Nat \ {0}
  BY <1>1, PowerFacts, WordFacts
<1>3. Power[Half + e] = Word * Power[e]
  BY <1>1, PowerSum DEF Word
<1>4. Splits(n, Word, Power[e], Power[Half + e])
  BY <1>2, <1>3, DivDiv
<1> QED
  BY <1>4 DEF Splits, DigitOf

\* The length of a message in bits, as the padding has it.
CountOf(len) == [i \in 1..Field |-> CountByte(DigitOf(8 * len, Field - i))]

\* git_sha1_final writes that length from its two words.
LEMMA CountIsRight ==
    ASSUME NEW len \in Nat, NEW low \in 0..Word - 1, NEW high \in 0..Word - 1,
           low + Word * high = (8 * len) % (Word * Word)
    PROVE  CountBytes(low, high) = CountOf(len)
<1> DEFINE n == 8 * len
           square == Word * Word
<1>1. /\ n \in Nat /\ Word \in Nat \ {0} /\ square \in Nat
      /\ low \in Nat /\ low < Word /\ high \in Nat /\ low + Word * high \in Nat
  BY WordFacts
<1>2. low + Word * high = n % square /\ square = Word * Word
  OBVIOUS
<1> HIDE DEF n, square
<1>3. (n % square) \div Word = high /\ (n % square) % Word = low
  <2>1. low + Word * high = Word * high + low
    BY <1>1
  <2> QED
    BY <1>1, <1>2, <2>1, DivModUnique
<1>4. high = (n \div Word) % Word /\ low = n % Word
  <2>1. Splits(n, Word, Word, square)
    BY <1>1, <1>2, DivDiv
  <2> QED
    BY <1>3, <2>1 DEF Splits
<1>5. n \div Word \in Nat
  BY <1>1, DivMod
<1>6. Half \in Nat \ {0} /\ Field = Half + Half /\ Field \in Nat
  BY PowerFacts
<1>7. ASSUME NEW i \in 1..Field
      PROVE  DigitOf(IF i > Half THEN low ELSE high, Half - 1 - ((i - 1) % Half))
               = DigitOf(n, Field - i)
  <2>1. CASE i > Half
    <3> DEFINE e == Field - i
    <3>1. /\ e \in 0..Half - 1 /\ i - 1 \in Nat /\ i - 1 - Half \in Nat
          /\ i - 1 - Half < Half /\ i - 1 = Half * 1 + (i - 1 - Half)
          /\ Half - 1 - (i - 1 - Half) = e
      BY <1>6, <2>1
    <3>2. (i - 1) % Half = i - 1 - Half
      <4> DEFINE a == i - 1
                 b == i - 1 - Half
      <4>1. a \in Nat /\ b \in Nat /\ b < Half /\ a = Half * 1 + b
        BY <3>1
      <4> HIDE DEF a, b
      <4>2. a % Half = b
        BY <1>6, <4>1, DivModUnique
      <4> QED
        BY <4>2 DEF a, b
    <3> HIDE DEF e
    <3>3. DigitOf(low, e) = DigitOf(n, e)
      BY <1>1, <1>4, <3>1, LowDigits
    <3> QED
      BY <2>1, <3>1, <3>2, <3>3 DEF e
  <2>2. CASE ~(i > Half)
    <3> DEFINE e == Half - i
    <3>1. /\ e \in 0..Half - 1 /\ i - 1 \in Nat
          /\ i - 1 < Half /\ i - 1 = Half * 0 + (i - 1)
          /\ Half - 1 - (i - 1) = e /\ Half + e = Field - i
      BY <1>6, <2>2
    <3>2. (i - 1) % Half = i - 1
      BY <1>6, <3>1, DivModUnique
    <3> HIDE DEF e
    <3>3. DigitOf(high, e) = DigitOf(n \div Word, e)
      BY <1>4, <1>5, <3>1, LowDigits
    <3>4. DigitOf(n \div Word, e) = DigitOf(n, Half + e)
      BY <1>1, <3>1, HighDigits
    <3> QED
      BY <2>2, <3>1, <3>2, <3>3, <3>4
  <2> QED
    BY <2>1, <2>2
<1>8. CountBytes(low, high) =
        [i \in 1..Field |-> CountByte(DigitOf(IF i > Half THEN low ELSE high,
                                              Half - 1 - ((i - 1) % Half)))]
  BY DEF CountBytes, DigitOf
<1>9. CountOf(len) = [i \in 1..Field |-> CountByte(DigitOf(n, Field - i))]
  BY DEF CountOf, n
<1> QED
  BY <1>7, <1>8, <1>9

-----------------------------------------------------------------------------
(* The padding                                                             *)

Zeros(z) == [i \in 1..z |-> Zero]

\* The number of zeros that make whole blocks.
Needed(m) == CHOOSE z \in 0..Block - 1 : (Len(m) + 1 + z + Field) % Block = 0

\* There is exactly one such number.
LEMMA NeededFacts ==
    ASSUME NEW m \in Seq(Bytes)
    PROVE  /\ Needed(m) \in 0..Block - 1
           /\ \A z \in 0..Block - 1 :
                (Len(m) + 1 + z + Field) % Block = 0 <=> z = Needed(m)
<1> DEFINE l == Len(m) + 1 + Field
           q == l \div Block
           r == l % Block
           t == IF r = 0 THEN 0 ELSE Block - r
           Fits(z) == (Len(m) + 1 + z + Field) % Block = 0
<1>1. Block \in Nat \ {0} /\ Field \in Nat /\ Len(m) \in Nat /\ l \in Nat
  BY WordFacts, PowerFacts
<1>2. q \in Nat /\ r \in Nat /\ r < Block /\ l = Block * q + r
  <2> HIDE DEF l
  <2> QED
    BY <1>1, DivMod
<1>3. \A z \in Nat : Len(m) + 1 + z + Field = l + z
  BY <1>1
<1> HIDE DEF l, q, r
<1>4. t \in 0..Block - 1
  BY <1>1, <1>2
<1>5. ASSUME NEW z \in 0..Block - 1 PROVE Fits(z) <=> z = t
  <2>1. Fits(z) <=> (r + z) % Block = 0
    <3>1. Len(m) + 1 + z + Field = Block * q + (r + z) /\ r + z \in Nat
      <4> DEFINE b == Block * q
      <4>1. b \in Nat /\ l = b + r /\ z \in Nat
        BY <1>1, <1>2
      <4> HIDE DEF b
      <4>2. l + z = b + (r + z) /\ r + z \in Nat
        BY <1>2, <4>1
      <4> QED
        BY <1>3, <4>1, <4>2 DEF b
    <3>2. (Block * q + (r + z)) % Block = (r + z) % Block
      <4> DEFINE a == r + z
      <4>1. a \in Nat
        BY <3>1
      <4> HIDE DEF a
      <4>2. (Block * q + a) % Block = a % Block
        BY <1>1, <1>2, <4>1, ModPlus
      <4> QED
        BY <4>2 DEF a
    <3> QED
      BY <3>1, <3>2
  <2>2. CASE r + z < Block
    <3>1. r + z = Block * 0 + (r + z) /\ r + z \in Nat
      BY <1>1, <1>2
    <3>2. (r + z) % Block = r + z
      BY <1>1, <2>2, <3>1, DivModUnique
    <3> HIDE DEF Fits
    <3> QED
      BY <1>1, <1>2, <2>1, <2>2, <3>2
  <2>3. CASE ~(r + z < Block)
    <3>1. r + z = Block * 1 + (r + z - Block) /\ r + z \in Nat /\ r + z - Block \in Nat
          /\ r + z - Block < Block
      BY <1>1, <1>2, <2>3
    <3>2. (r + z) % Block = r + z - Block
      BY <1>1, <3>1, DivModUnique
    <3> HIDE DEF Fits
    <3> QED
      BY <1>1, <1>2, <2>1, <2>3, <3>2
  <2> QED
    BY <2>2, <2>3
<1> HIDE DEF t
<1>6. Needed(m) = CHOOSE z \in 0..Block - 1 : Fits(z)
  BY DEF Needed
<1> HIDE DEF Fits
<1>7. Needed(m) \in 0..Block - 1 /\ Fits(Needed(m))
  BY <1>4, <1>5, <1>6
<1>8. Needed(m) = t
  BY <1>5, <1>7
<1> QED
  BY <1>4, <1>5, <1>8 DEF Fits

\* One zero more.
LEMMA ZerosFacts ==
    /\ Zeros(0) = <<>>
    /\ \A z \in Nat : /\ Zeros(z) \in Seq(Bytes) /\ Len(Zeros(z)) = z
                      /\ Zeros(z) \o <<Zero>> = Zeros(z + 1)
<1>1. Zero \in Bytes
  BY DEF Zero, Bytes
<1>2. Zeros(0) = <<>>
  BY DEF Zeros
<1>3. ASSUME NEW z \in Nat
      PROVE  Zeros(z) \in Seq(Bytes) /\ Len(Zeros(z)) = z /\ \A i \in 1..z : Zeros(z)[i] = Zero
  <2>1. Zeros(z) \in [1..z -> Bytes]
    BY <1>1 DEF Zeros
  <2> QED
    BY <2>1 DEF Zeros
<1>4. ASSUME NEW z \in Nat PROVE Zeros(z) \o <<Zero>> = Zeros(z + 1)
  <2> DEFINE one == <<Zero>>
             some == Zeros(z)
             left == some \o one
  <2>1. one \in Seq(Bytes) /\ Len(one) = 1 /\ one[1] = Zero
    BY <1>1
  <2>2. /\ some \in Seq(Bytes) /\ Len(some) = z /\ \A i \in 1..z : some[i] = Zero
        /\ Zeros(z + 1) \in Seq(Bytes) /\ Len(Zeros(z + 1)) = z + 1
        /\ \A i \in 1..z + 1 : Zeros(z + 1)[i] = Zero
    BY <1>3
  <2> HIDE DEF one, some
  <2>3. /\ left \in Seq(Bytes) /\ Len(left) = z + 1
        /\ \A i \in 1..z + 1 : left[i] = IF i <= z THEN some[i] ELSE one[i - z]
    <3>1. /\ some \o one \in Seq(Bytes) /\ Len(some \o one) = Len(some) + Len(one)
          /\ \A i \in 1..Len(some) + Len(one) :
               (some \o one)[i] = IF i <= Len(some) THEN some[i] ELSE one[i - Len(some)]
      <4>1. some \in Seq(Bytes) /\ one \in Seq(Bytes)
        BY <2>1, <2>2
      <4> QED
        BY <4>1, ConcatProperties
    <3> QED
      BY <2>1, <2>2, <3>1
  <2> HIDE DEF left
  <2>4. ASSUME NEW i \in 1..z + 1 PROVE left[i] = Zeros(z + 1)[i]
    <3>1. CASE i <= z
      <4>1. i \in 1..z
        BY <3>1
      <4> QED
        BY <2>2, <2>3, <3>1, <4>1
    <3>2. CASE ~(i <= z)
      <4>1. i - z = 1
        BY <3>2
      <4> QED
        BY <2>1, <2>2, <2>3, <3>2, <4>1
    <3> QED
      BY <3>1, <3>2
  <2>5. left = Zeros(z + 1)
    BY <2>2, <2>3, <2>4, SeqEqual
  <2> QED
    BY <2>5 DEF left, some, one
<1> QED
  BY <1>2, <1>3, <1>4

-----------------------------------------------------------------------------
(* The digest is that of the message                                       *)

\* While padding, what was given is the message, the mark and not too many
\* zeros, and the count is that of the message.
PaddingRight ==
    phase = "padding" =>
        /\ message \in Seq(Bytes)
        /\ \E z \in 0..Needed(message) : given = (message \o <<Mark>>) \o Zeros(z)
        /\ finalcount = CountOf(Len(message))

DigestInv == StreamInv /\ PaddingRight /\ DigestIsOfMessage

\* Where the mark and some zeros behind a message end in a block.
LEMMA PaddedLength ==
    ASSUME NEW m \in Seq(Bytes), NEW z \in Nat, Typed, StreamKept,
           given = (m \o <<Mark>>) \o Zeros(z)
    PROVE  /\ Len(given) = Len(m) + 1 + z
           /\ Padded <=> (Len(m) + 1 + z + Field) % Block = 0
<1> DEFINE mark == <<Mark>>
           head == m \o mark
           zeros == Zeros(z)
<1>1. mark \in Seq(Bytes) /\ Len(mark) = 1 /\ zeros \in Seq(Bytes) /\ Len(zeros) = z
  BY Pieces, ZerosFacts
<1>2. given = head \o zeros
  OBVIOUS
<1> HIDE DEF mark, zeros
<1>3. head \in Seq(Bytes) /\ Len(head) = Len(m) + 1
  <2>1. m \o mark \in Seq(Bytes) /\ Len(m \o mark) = Len(m) + Len(mark)
    BY <1>1, ConcatProperties
  <2> QED
    BY <1>1, <2>1
<1> HIDE DEF head
<1>4. Len(given) = Len(m) + 1 + z
  BY <1>1, <1>2, <1>3, ConcatProperties
<1>5. Padded <=> (Len(m) + 1 + z + Field) % Block = 0
  <2> DEFINE l == Len(m) + 1 + z
             q == l \div Block
             r == l % Block
  <2>1. /\ Block \in Nat \ {0} /\ Field \in Nat \ {0} /\ Field < Block /\ l \in Nat
    BY WordFacts, PowerFacts
  <2>2. Position = r
    BY <1>4, Places
  <2> HIDE DEF l
  <2>3. q \in Nat /\ r \in Nat /\ r < Block /\ l = Block * q + r
    BY <2>1, DivMod
  <2> HIDE DEF q, r
  <2>4. (l + Field) % Block = (r + Field) % Block
    <3> DEFINE a == r + Field
               b == Block * q
    <3>1. a \in Nat /\ b \in Nat /\ l = b + r
      BY <2>1, <2>3
    <3>2. (Block * q + a) % Block = a % Block
      <4> HIDE DEF a
      <4> QED
        BY <2>1, <2>3, <3>1, ModPlus
    <3>3. l + Field = b + a
      <4> HIDE DEF b
      <4> QED
        BY <2>1, <2>3, <3>1
    <3> QED
      BY <3>2, <3>3
  <2>5. (r + Field) % Block = 0 <=> r = Block - Field
    <3> DEFINE a == r + Field
               c == r + Field - Block
    <3>1. a \in Nat
      BY <2>1, <2>3
    <3>2. CASE a < Block
      <4>1. a = Block * 0 + a
        BY <2>1, <3>1
      <4>2. a % Block = a
        <5> HIDE DEF a
        <5> QED
          BY <2>1, <3>1, <3>2, <4>1, DivModUnique
      <4>3. a # 0 /\ r # Block - Field
        BY <2>1, <2>3, <3>2
      <4> QED
        BY <4>2, <4>3
    <3>3. CASE ~(a < Block)
      <4>1. a = Block * 1 + c /\ c \in Nat /\ c < Block
        BY <2>1, <2>3, <3>3
      <4>2. a % Block = c
        <5> HIDE DEF a, c
        <5> QED
          BY <2>1, <3>1, <4>1, DivModUnique
      <4>3. c = 0 <=> r = Block - Field
        BY <2>1, <2>3
      <4> QED
        BY <4>2, <4>3
    <3> QED
      BY <3>2, <3>3
  <2>6. Len(m) + 1 + z + Field = l + Field
    BY DEF l
  <2> QED
    BY <2>2, <2>4, <2>5, <2>6 DEF Padded
<1> QED
  BY <1>4, <1>5

LEMMA DigestBegin ==
    ASSUME DigestInv, BeginFinal
    PROVE  PaddingRight' /\ DigestIsOfMessage'
<1>1. /\ phase' = "padding" /\ message' = given /\ given' = given \o <<Mark>>
      /\ finalcount' = CountBytes(lo, hi)
  BY DEF BeginFinal, Update, FinalCount
<1>2. given \in Seq(Bytes) /\ Len(given) \in Nat
  BY DEF DigestInv, StreamInv, Typed
<1>3. CountBytes(lo, hi) = CountOf(Len(given))
  BY <1>2, CountIsRight DEF DigestInv, StreamInv, Typed, StreamKept
<1>4. given \o <<Mark>> = (given \o <<Mark>>) \o Zeros(0)
  <2> DEFINE head == given \o <<Mark>>
  <2>1. head \in Seq(Bytes)
    BY <1>2, Pieces, ConcatProperties
  <2> HIDE DEF head
  <2>2. head = head \o Zeros(0)
    BY <2>1, ZerosFacts, ConcatEmptySeq
  <2> QED
    BY <2>2 DEF head
<1>5. 0 \in 0..Needed(message')
  BY <1>1, <1>2, WordFacts, NeededFacts
<1> QED
  BY <1>1, <1>2, <1>3, <1>4, <1>5 DEF PaddingRight, DigestIsOfMessage

LEMMA DigestPad ==
    ASSUME DigestInv, Pad
    PROVE  PaddingRight' /\ DigestIsOfMessage'
<1>1. /\ phase = "padding" /\ phase' = "padding" /\ ~Padded
      /\ message' = message /\ finalcount' = finalcount /\ given' = given \o <<Zero>>
  BY DEF Pad, Update
<1>2. /\ message \in Seq(Bytes) /\ finalcount = CountOf(Len(message))
      /\ Typed /\ StreamKept
  BY <1>1 DEF DigestInv, PaddingRight, StreamInv
<1>3. PICK z \in 0..Needed(message) : given = (message \o <<Mark>>) \o Zeros(z)
  BY <1>1 DEF DigestInv, PaddingRight
<1>4. /\ Block \in Nat \ {0} /\ Needed(message) \in 0..Block - 1
      /\ \A y \in 0..Block - 1 :
           (Len(message) + 1 + y + Field) % Block = 0 <=> y = Needed(message)
  BY <1>2, WordFacts, NeededFacts
<1>5. z \in Nat /\ z + 1 \in 0..Needed(message)
  <2>1. z \in Nat /\ z \in 0..Block - 1
    BY <1>4
  <2>2. z # Needed(message)
    BY <1>1, <1>2, <1>3, <1>4, <2>1, PaddedLength
  <2> QED
    BY <1>4, <2>1, <2>2
<1>6. given' = (message \o <<Mark>>) \o Zeros(z + 1)
  <2> DEFINE head == message \o <<Mark>>
  <2>1. head \in Seq(Bytes) /\ <<Zero>> \in Seq(Bytes) /\ Zeros(z) \in Seq(Bytes)
        /\ Zeros(z) \o <<Zero>> = Zeros(z + 1)
    BY <1>2, <1>5, Pieces, ZerosFacts, ConcatProperties
  <2> HIDE DEF head
  <2>2. Associates(head, Zeros(z), <<Zero>>)
    BY <2>1, Associative
  <2>3. given' = (head \o Zeros(z)) \o <<Zero>>
    BY <1>1, <1>3 DEF head
  <2> QED
    BY <2>1, <2>2, <2>3 DEF Associates, head
<1> QED
  BY <1>1, <1>2, <1>5, <1>6 DEF PaddingRight, DigestIsOfMessage

LEMMA DigestEnd ==
    ASSUME DigestInv, EndFinal
    PROVE  PaddingRight' /\ DigestIsOfMessage'
<1>1. /\ phase = "padding" /\ phase' = "done" /\ Padded /\ Update(finalcount)
      /\ message' = message /\ given' = given \o finalcount
  BY DEF EndFinal, Update
<1>2. /\ message \in Seq(Bytes) /\ finalcount = CountOf(Len(message))
      /\ Typed /\ StreamKept /\ finalcount \in Seq(Bytes)
  BY <1>1 DEF DigestInv, PaddingRight, StreamInv
<1>3. PICK z \in 0..Needed(message) : given = (message \o <<Mark>>) \o Zeros(z)
  BY <1>1 DEF DigestInv, PaddingRight
<1>4. /\ Block \in Nat \ {0} /\ Field \in Nat /\ Needed(message) \in 0..Block - 1
      /\ \A y \in 0..Block - 1 :
           (Len(message) + 1 + y + Field) % Block = 0 <=> y = Needed(message)
  BY <1>2, WordFacts, PowerFacts, NeededFacts
<1>5. /\ z = Needed(message) /\ Len(given) = Len(message) + 1 + z
      /\ (Len(message) + 1 + z + Field) % Block = 0
  <2>1. z \in Nat /\ z \in 0..Block - 1
    BY <1>4
  <2> QED
    BY <1>1, <1>2, <1>3, <1>4, <2>1, PaddedLength
<1>6. Len(finalcount) = Field
  <2>1. finalcount = [i \in 1..Field |-> finalcount[i]]
    BY <1>2 DEF CountOf
  <2>2. Len([i \in 1..Field |-> finalcount[i]]) = Field
    BY <1>4
  <2> QED
    BY <2>1, <2>2
<1>7. Typed' /\ StreamKept' /\ Len(given') = Len(message) + 1 + z + Field
  <2>1. Typed' /\ StreamKept' /\ Len(given') = Len(given) + Len(finalcount)
    BY <1>1, <1>2, UpdateKeeps
  <2> QED
    BY <1>5, <1>6, <2>1
<1>8. Position' = 0
  <2>1. Position' = Len(given') % Block
    <3>1. /\ lo' \in 0..Word - 1 /\ hi' \in 0..Word - 1 /\ Len(given') \in Nat
          /\ lo' + Word * hi' = (8 * Len(given')) % (Word * Word)
      BY <1>7 DEF Typed, StreamKept
    <3> DEFINE g == Len(given')
    <3> HIDE DEF g
    <3>2. (lo' \div 8) % Block = g % Block
      BY <3>1, PositionIs DEF g
    <3> QED
      BY <3>2 DEF Position, g
  <2> QED
    BY <1>5, <1>7, <2>1
<1>9. fed' = given'
  <2>1. SubSeq(buffer', 1, 0) = <<>>
    BY SubSeqEmpty
  <2>2. fed' \o <<>> = given' /\ fed' \in Seq(Bytes)
    BY <1>7, <1>8, <2>1 DEF Typed, StreamKept
  <2> QED
    BY <2>2, ConcatEmptySeq
<1>10. given' = Reference(message)
  <2>1. Reference(message) = message \o <<Mark>> \o Zeros(Needed(message)) \o CountOf(Len(message))
    BY DEF Reference, Needed, Zeros, CountOf, DigitOf
  <2> QED
    BY <1>1, <1>2, <1>3, <1>5, <2>1
<1> QED
  BY <1>1, <1>9, <1>10 DEF PaddingRight, DigestIsOfMessage

\* In the end the blocks that were hashed are the message, in one piece, with
\* the padding FIPS 180-4 asks for: the digest does not depend on the pieces
\* git_sha1_update was given, and the zeros git_sha1_final adds, one by one,
\* stop where the count begins.
THEOREM DigestOfMessage == Spec => []DigestIsOfMessage
<1>1. Init => PaddingRight /\ DigestIsOfMessage
  BY DEF Init, PaddingRight, DigestIsOfMessage
<1>2. StreamInv /\ (PaddingRight /\ DigestIsOfMessage) /\ [Next]_vars
        => (PaddingRight /\ DigestIsOfMessage)'
  <2> SUFFICES ASSUME StreamInv, PaddingRight, DigestIsOfMessage, [Next]_vars
               PROVE  PaddingRight' /\ DigestIsOfMessage'
    OBVIOUS
  <2>1. DigestInv
    BY DEF DigestInv
  <2>2. CASE \E len \in 0..MaxLen : Write(len)
    <3>1. phase' = "data"
      BY <2>2 DEF Write
    <3> QED
      BY <3>1 DEF PaddingRight, DigestIsOfMessage
  <2>3. CASE BeginFinal
    BY <2>1, <2>3, DigestBegin
  <2>4. CASE Pad
    BY <2>1, <2>4, DigestPad
  <2>5. CASE EndFinal
    BY <2>1, <2>5, DigestEnd
  <2>6. CASE Begin
    <3>1. phase' = "data"
      BY <2>6 DEF Begin
    <3> QED
      BY <3>1 DEF PaddingRight, DigestIsOfMessage
  <2>7. CASE UNCHANGED vars
    BY <2>7 DEF vars, PaddingRight, DigestIsOfMessage
  <2> QED
    BY <2>2, <2>3, <2>4, <2>5, <2>6, <2>7 DEF Next
<1> QED
  BY <1>1, <1>2, StreamInvariant, PTL DEF Spec
=============================================================================
