------------------------------ MODULE VRFProofs ------------------------------
(***************************************************************************)
(* The verification of a proof over every prime field and every curve      *)
(* y^2 = x^3 + 7 with a prime number of points, secp256k1 included.        *)
(***************************************************************************)
EXTENDS VRF, WellFoundedInduction, TLAPS

-----------------------------------------------------------------------------
(* Congruence *)

Cong(m, a, b) == \E k \in Int : a = b + m * k

LEMMA Divide ==
    ASSUME NEW m \in Nat \ {0}, NEW a \in Int
    PROVE  /\ a \div m \in Int /\ a % m \in 0 .. m - 1 /\ a = m * (a \div m) + (a % m)
OBVIOUS

\* A remainder is the one number below the modulus that is congruent.
LEMMA CongMod ==
    ASSUME NEW m \in Nat \ {0}, NEW a \in Int
    PROVE  a % m \in 0 .. m - 1 /\ Cong(m, a, a % m) /\ Cong(m, a % m, a)
<1>1. a \div m \in Int /\ a % m \in 0 .. m - 1 /\ a = m * (a \div m) + (a % m) BY Divide
<1> DEFINE d == a \div m  r == a % m
<1> HIDE DEF d, r
<1>2. d \in Int /\ r \in Int /\ a = m * d + r BY <1>1 DEF d, r
<1>3. a = r + m * d BY <1>2
<1>4. -d \in Int /\ r = a + m * (-d)
    <2>1. m * (-d) = -(m * d) /\ m * d \in Int BY <1>2
    <2> QED BY <1>2, <2>1
<1>5. Cong(m, a, r) BY <1>2, <1>3 DEF Cong
<1>6. Cong(m, r, a) BY <1>4 DEF Cong
<1> QED BY <1>1, <1>5, <1>6 DEF r

LEMMA CongRefl ==
    ASSUME NEW m \in Nat, NEW a \in Int
    PROVE  Cong(m, a, a)
<1>1. a = a + m * 0 OBVIOUS
<1> QED BY <1>1 DEF Cong

LEMMA CongSym ==
    ASSUME NEW m \in Nat, NEW a \in Int, NEW b \in Int, Cong(m, a, b)
    PROVE  Cong(m, b, a)
<1>1. PICK k \in Int : a = b + m * k BY DEF Cong
<1>2. m * (-k) = -(m * k) /\ m * k \in Int /\ -k \in Int OBVIOUS
<1>3. b = a + m * (-k) BY <1>1, <1>2
<1> QED BY <1>2, <1>3 DEF Cong

LEMMA CongTrans ==
    ASSUME NEW m \in Nat, NEW a \in Int, NEW b \in Int, NEW c \in Int,
           Cong(m, a, b), Cong(m, b, c)
    PROVE  Cong(m, a, c)
<1>1. PICK k \in Int : a = b + m * k BY DEF Cong
<1>2. PICK l \in Int : b = c + m * l BY DEF Cong
<1>3. m * (k + l) = m * k + m * l /\ m * k \in Int /\ m * l \in Int /\ k + l \in Int OBVIOUS
<1>4. a = c + m * (k + l) BY <1>1, <1>2, <1>3
<1> QED BY <1>3, <1>4 DEF Cong

LEMMA CongAdd ==
    ASSUME NEW m \in Nat, NEW a \in Int, NEW b \in Int, NEW c \in Int, NEW d \in Int,
           Cong(m, a, b), Cong(m, c, d)
    PROVE  Cong(m, a + c, b + d) /\ Cong(m, a - c, b - d)
<1>1. PICK k \in Int : a = b + m * k BY DEF Cong
<1>2. PICK l \in Int : c = d + m * l BY DEF Cong
<1>3. /\ m * (k + l) = m * k + m * l /\ m * (k - l) = m * k - m * l
      /\ m * k \in Int /\ m * l \in Int /\ k + l \in Int /\ k - l \in Int
    OBVIOUS
<1>4. a + c = (b + d) + m * (k + l) /\ a - c = (b - d) + m * (k - l) BY <1>1, <1>2, <1>3
<1> QED BY <1>3, <1>4 DEF Cong

LEMMA CongMul ==
    ASSUME NEW m \in Nat, NEW a \in Int, NEW b \in Int, NEW c \in Int, NEW d \in Int,
           Cong(m, a, b), Cong(m, c, d)
    PROVE  Cong(m, a * c, b * d)
<1>1. PICK k \in Int : a = b + m * k BY DEF Cong
<1>2. PICK l \in Int : c = d + m * l BY DEF Cong
<1> DEFINE j == b * l + k * d + k * (m * l)
<1>3. j \in Int OBVIOUS
<1>4. (b + m * k) * (d + m * l) = b * d + m * j OBVIOUS
<1>5. a * c = b * d + m * j BY <1>1, <1>2, <1>4
<1> QED BY <1>3, <1>5 DEF Cong

\* Congruent numbers have one remainder.
LEMMA CongSmall ==
    ASSUME NEW m \in Nat \ {0}, NEW a \in 0 .. m - 1, NEW b \in 0 .. m - 1, Cong(m, a, b)
    PROVE  a = b
<1>1. PICK k \in Int : a = b + m * k BY DEF Cong
<1>2. -m < m * k /\ m * k < m
    <2>1. m * k \in Int OBVIOUS
    <2> QED BY <1>1, <2>1
<1>3. k = 0 BY <1>2
<1> QED BY <1>1, <1>3

LEMMA CongRemainder ==
    ASSUME NEW m \in Nat \ {0}, NEW a \in Int, NEW b \in Int
    PROVE  Cong(m, a, b) <=> a % m = b % m
<1>1. /\ a % m \in 0 .. m - 1 /\ Cong(m, a, a % m) /\ Cong(m, a % m, a)
      /\ b % m \in 0 .. m - 1 /\ Cong(m, b, b % m) /\ Cong(m, b % m, b)
    BY CongMod
<1> DEFINE r == a % m  t == b % m
<1>2. r \in 0 .. m - 1 /\ t \in 0 .. m - 1 /\ r \in Int /\ t \in Int BY <1>1
<1> HIDE DEF r, t
<1>3. ASSUME Cong(m, a, b) PROVE r = t
    <2>1. Cong(m, r, b) BY <1>1, <1>2, <1>3, CongTrans DEF r
    <2>2. Cong(m, r, t) BY <1>1, <1>2, <2>1, CongTrans DEF t
    <2> QED BY <1>2, <2>2, CongSmall
<1>4. ASSUME r = t PROVE Cong(m, a, b)
    <2>1. Cong(m, a, t) BY <1>1, <1>4 DEF r
    <2>2. Cong(m, t, b) BY <1>1 DEF t
    <2> QED BY <1>2, <2>1, <2>2, CongTrans
<1> QED BY <1>3, <1>4 DEF r, t

-----------------------------------------------------------------------------
(* Prime moduli *)

Prime(m) == m \in Nat /\ m > 1 /\ \A a \in 1 .. m - 1 : \E b \in 1 .. m - 1 : (a * b) % m = 1

LEMMA Remainders ==
    ASSUME NEW m, Prime(m)
    PROVE  m \in Nat \ {0} /\ m \in Nat /\ m > 1 /\ 1 % m = 1 /\ 0 % m = 0
<1>1. m \in Nat /\ m > 1 BY DEF Prime
<1>2. 1 \in 0 .. m - 1 /\ 0 \in 0 .. m - 1 /\ m \in Nat \ {0} BY <1>1
<1>3. ASSUME NEW r \in 0 .. m - 1 PROVE r % m = r
    <2>1. r % m \in 0 .. m - 1 /\ Cong(m, r % m, r) BY <1>2, CongMod
    <2> QED BY <1>2, <2>1, CongSmall
<1> QED BY <1>1, <1>2, <1>3

LEMMA InverseIs ==
    ASSUME NEW m, Prime(m), NEW a \in 1 .. m - 1
    PROVE  Inverse(a, m) \in 1 .. m - 1 /\ Cong(m, a * Inverse(a, m), 1)
<1>1. \E b \in 1 .. m - 1 : (a * b) % m = 1 BY DEF Prime
<1>2. Inverse(a, m) \in 1 .. m - 1 /\ (a * Inverse(a, m)) % m = 1 BY <1>1 DEF Inverse
<1> DEFINE i == Inverse(a, m)
<1>3. m \in Nat \ {0} /\ 1 % m = 1 BY Remainders
<1>4. a \in Int /\ i \in Int /\ a * i \in Int
    <2>1. a \in Int /\ i \in Int BY <1>2
    <2> HIDE DEF i
    <2> QED BY <2>1
<1> HIDE DEF i
<1>5. Cong(m, a * i, 1) BY <1>2, <1>3, <1>4, CongRemainder DEF i
<1> QED BY <1>2, <1>5 DEF i

\* What is not a multiple of the modulus can be cancelled.
LEMMA NonZero ==
    ASSUME NEW m, Prime(m), NEW a \in Int, ~Cong(m, a, 0)
    PROVE  \E i \in 1 .. m - 1 : Cong(m, a * i, 1)
<1>1. m \in Nat \ {0} /\ 0 % m = 0 /\ m \in Nat BY Remainders
<1> DEFINE r == a % m
<1>2. r \in 0 .. m - 1 /\ Cong(m, a, r) BY <1>1, CongMod
<1>3. r # 0 BY <1>1, CongRemainder
<1> HIDE DEF r
<1>4. r \in 1 .. m - 1 BY <1>1, <1>2, <1>3
<1> DEFINE i == Inverse(r, m)
<1>5. i \in 1 .. m - 1 /\ Cong(m, r * i, 1) BY <1>4, InverseIs
<1> HIDE DEF i
<1>6. r \in Int /\ i \in Int BY <1>4, <1>5
<1>7. r * i \in Int /\ a * i \in Int BY <1>6
<1>8. Cong(m, i, i) BY <1>1, <1>6, CongRefl
<1>9. Cong(m, a * i, r * i) BY <1>1, <1>2, <1>6, <1>8, CongMul
<1>10. Cong(m, a * i, 1) BY <1>1, <1>5, <1>7, <1>9, CongTrans
<1> QED BY <1>5, <1>10

LEMMA NoDivisors ==
    ASSUME NEW m, Prime(m), NEW a \in Int, NEW b \in Int, Cong(m, a * b, 0)
    PROVE  Cong(m, a, 0) \/ Cong(m, b, 0)
<1> SUFFICES ASSUME ~Cong(m, a, 0) PROVE Cong(m, b, 0) OBVIOUS
<1>1. m \in Nat BY Remainders
<1>2. PICK i \in 1 .. m - 1 : Cong(m, a * i, 1) BY NonZero
<1>3. i \in Int /\ a * i \in Int /\ a * b \in Int BY <1>2
<1>4. (a * i) * b \in Int /\ (a * b) * i \in Int /\ 1 * b = b /\ 0 * i = 0
      /\ (a * i) * b = (a * b) * i
    BY <1>3
<1>5. Cong(m, b, b) /\ Cong(m, i, i) BY <1>1, <1>3, CongRefl
<1>6. Cong(m, (a * i) * b, b)
    <2>1. Cong(m, (a * i) * b, 1 * b) BY <1>1, <1>2, <1>3, <1>5, CongMul
    <2> QED BY <1>4, <2>1
<1>7. Cong(m, (a * b) * i, 0)
    <2>1. Cong(m, (a * b) * i, 0 * i) BY <1>1, <1>3, <1>5, CongMul
    <2> QED BY <1>4, <2>1
<1>8. Cong(m, b, (a * i) * b) BY <1>1, <1>4, <1>6, CongSym
<1> QED BY <1>1, <1>4, <1>7, <1>8, CongTrans

-----------------------------------------------------------------------------
(* The field *)

LEMMA FieldIs ==
    /\ Prime(FIELD_SIZE) /\ FIELD_SIZE \in Nat \ {0} /\ FIELD_SIZE > 2
    /\ FIELD_SIZE % 2 = 1 /\ 1 % FIELD_SIZE = 1 /\ 0 % FIELD_SIZE = 0
    /\ Field \subseteq Nat /\ 0 \in Field /\ 1 \in Field
<1>1. FIELD_SIZE \in Nat /\ FIELD_SIZE % 4 = 3 BY ScalarAssumption
<1>2. FIELD_SIZE > 2 /\ FIELD_SIZE % 2 = 1 BY <1>1
<1>3. Prime(FIELD_SIZE) BY <1>1, <1>2, PrimeAssumption DEF Prime
<1>4. 1 % FIELD_SIZE = 1 /\ 0 % FIELD_SIZE = 0 /\ FIELD_SIZE \in Nat \ {0}
    BY <1>3, Remainders
<1> QED BY <1>1, <1>2, <1>3, <1>4 DEF Field

LEMMA InField ==
    ASSUME NEW x \in Field
    PROVE  x \in Nat /\ x \in Int /\ x < FIELD_SIZE /\ x \in 0 .. FIELD_SIZE
BY FieldIs DEF Field

LEMMA Reduced ==
    ASSUME NEW a \in Int, NEW b \in Int
    PROVE  /\ mulmod(a, b) \in Field /\ Cong(FIELD_SIZE, mulmod(a, b), a * b)
           /\ addmod(a, b) \in Field /\ Cong(FIELD_SIZE, addmod(a, b), a + b)
<1>1. FIELD_SIZE \in Nat \ {0} BY FieldIs
<1>2. a * b \in Int /\ a + b \in Int OBVIOUS
<1>3. /\ (a * b) % FIELD_SIZE \in 0 .. FIELD_SIZE - 1
      /\ Cong(FIELD_SIZE, (a * b) % FIELD_SIZE, a * b)
    BY <1>1, <1>2, CongMod
<1>4. /\ (a + b) % FIELD_SIZE \in 0 .. FIELD_SIZE - 1
      /\ Cong(FIELD_SIZE, (a + b) % FIELD_SIZE, a + b)
    BY <1>1, <1>2, CongMod
<1> QED BY <1>3, <1>4 DEF mulmod, addmod, Field

-----------------------------------------------------------------------------
(* Powers *)

IsPower(f, base, n) ==
    f = [e \in 0 .. n |-> IF e = 0 THEN 1 ELSE mulmod(f[e - 1], base)]

LEMMA LeastNat ==
    ASSUME NEW S, S \subseteq Nat, S # {}
    PROVE  \E x \in S : \A y \in Nat : y < x => y \notin S
<1>1. PICK x \in S : \A y \in S : ~ (<<y, x>> \in OpToRel(<, Nat))
    BY NatLessThanWellFounded, WFMin
<1>2. ASSUME NEW y \in S PROVE ~(y < x)
    <2>1. ~ (<<y, x>> \in OpToRel(<, Nat)) BY <1>1
    <2>2. <<y, x>> \in Nat \X Nat BY <1>1
    <2> QED BY <2>1, <2>2 DEF OpToRel
<1> QED BY <1>2

\* The recursion of bigModExp has a solution: one for e extends the one for e - 1.
LEMMA PowerExists ==
    ASSUME NEW base \in Int, NEW n \in Nat
    PROVE  \E f \in [0 .. n -> Field] : IsPower(f, base, n)
<1> DEFINE Has(m) == \E f \in [0 .. m -> Field] : IsPower(f, base, m)
<1> DEFINE Bad == {m \in Nat : ~Has(m)}
<1> SUFFICES ASSUME Bad # {} PROVE FALSE OBVIOUS
<1>1. PICK m \in Bad : \A y \in Nat : y < m => y \notin Bad BY LeastNat
<1>2. m \in Nat /\ ~Has(m) OBVIOUS
<1>3. m # 0
    <2> SUFFICES ASSUME m = 0 PROVE FALSE OBVIOUS
    <2> DEFINE f == [e \in 0 .. 0 |-> 1]
    <2>1. f \in [0 .. 0 -> Field] BY FieldIs
    <2>2. IsPower(f, base, 0)
        <3>1. \A e \in 0 .. 0 : e = 0 OBVIOUS
        <3> QED BY <3>1 DEF IsPower
    <2> QED BY <1>2, <2>1, <2>2
<1>4. m - 1 \in Nat /\ m - 1 < m BY <1>2, <1>3
<1>5. PICK g \in [0 .. m - 1 -> Field] : IsPower(g, base, m - 1) BY <1>1, <1>4
<1> DEFINE f == [e \in 0 .. m |-> IF e = m THEN mulmod(g[m - 1], base) ELSE g[e]]
<1>6. g[m - 1] \in Field BY <1>4, <1>5
<1>7. mulmod(g[m - 1], base) \in Field
    <2>1. g[m - 1] \in Int BY <1>6, InField
    <2> QED BY <2>1, Reduced
<1>8. \A e \in 0 .. m : e # m => e \in 0 .. m - 1 BY <1>2
<1>9. f \in [0 .. m -> Field] BY <1>5, <1>7, <1>8
<1>10. ASSUME NEW e \in 0 .. m
       PROVE f[e] = IF e = 0 THEN 1 ELSE mulmod(f[e - 1], base)
    <2>1. CASE e = m
        <3>1. m - 1 \in 0 .. m /\ m - 1 # m BY <1>2, <1>4
        <3>2. f[m - 1] = g[m - 1] BY <3>1
        <3>3. f[m] = mulmod(g[m - 1], base) BY <1>2
        <3> QED BY <1>3, <2>1, <3>2, <3>3
    <2>2. CASE e # m
        <3>1. e \in 0 .. m - 1 BY <1>8, <2>2
        <3>2. g[e] = IF e = 0 THEN 1 ELSE mulmod(g[e - 1], base) BY <1>5, <3>1 DEF IsPower
        <3>3. f[e] = g[e] BY <2>2
        <3>4. e # 0 => f[e - 1] = g[e - 1]
            <4>1. e # 0 => e - 1 \in 0 .. m /\ e - 1 # m BY <1>2, <3>1
            <4> QED BY <4>1
        <3> QED BY <3>2, <3>3, <3>4
    <2> QED BY <2>1, <2>2
<1>11. IsPower(f, base, m)
    <2> DEFINE h == [e \in 0 .. m |-> IF e = 0 THEN 1 ELSE mulmod(f[e - 1], base)]
    <2>1. \A e \in 0 .. m : f[e] = h[e] BY <1>10
    <2>2. f = h BY <2>1
    <2> QED BY <2>2 DEF IsPower
<1> QED BY <1>2, <1>9, <1>11

\* Any solution has its values in the field.
LEMMA PowerInField ==
    ASSUME NEW base \in Int, NEW n \in Nat, NEW f, IsPower(f, base, n)
    PROVE  f[n] \in Field
<1> DEFINE Bad == {e \in 0 .. n : f[e] \notin Field}
<1> SUFFICES ASSUME Bad # {} PROVE FALSE OBVIOUS
<1>1. Bad \subseteq Nat OBVIOUS
<1>2. PICK e \in Bad : \A y \in Nat : y < e => y \notin Bad BY <1>1, LeastNat
<1>3. e \in 0 .. n /\ f[e] \notin Field OBVIOUS
<1>4. f[e] = IF e = 0 THEN 1 ELSE mulmod(f[e - 1], base)
    <2> DEFINE h == [d \in 0 .. n |-> IF d = 0 THEN 1 ELSE mulmod(f[d - 1], base)]
    <2>1. f = h BY DEF IsPower
    <2>2. h[e] = IF e = 0 THEN 1 ELSE mulmod(f[e - 1], base) BY <1>3
    <2> QED BY <2>1, <2>2
<1>5. e # 0 BY <1>3, <1>4, FieldIs
<1>6. e - 1 \in Nat /\ e - 1 < e /\ e - 1 \in 0 .. n BY <1>3, <1>5
<1>7. f[e - 1] \in Field BY <1>2, <1>6
<1>8. f[e - 1] \in Int BY <1>7, InField
<1>9. mulmod(f[e - 1], base) \in Field BY <1>8, Reduced
<1> QED BY <1>3, <1>4, <1>5, <1>9

LEMMA SquareRootInField ==
    ASSUME NEW a \in Int
    PROVE  squareRoot(a) \in Field
<1> DEFINE n == SQRT_POWER
<1>1. n \in Nat BY ScalarAssumption DEF SQRT_POWER
<1> HIDE DEF n
<1> DEFINE p == CHOOSE f : IsPower(f, a, n)
<1>2. \E f : IsPower(f, a, n) BY <1>1, PowerExists
<1>3. IsPower(p, a, n) BY <1>2
<1>4. squareRoot(a) = p[n] BY DEF squareRoot, bigModExp, IsPower, n
<1> HIDE DEF p
<1>5. p[n] \in Field BY <1>1, <1>3, PowerInField
<1> QED BY <1>4, <1>5

-----------------------------------------------------------------------------
(* The curve *)

\* ySquared reduces after every product, the definition of the curve once.
LEMMA YSquaredIs ==
    ASSUME NEW x \in Int
    PROVE  ySquared(x) = addmod(x * x * x, 7) /\ ySquared(x) \in Field
<1> DEFINE q == FIELD_SIZE  a == mulmod(x, x)  b == mulmod(x, a)
<1>1. q \in Nat \ {0} /\ q \in Nat BY FieldIs
<1>2. x * x \in Int /\ x * x * x \in Int /\ x * (x * x) = x * x * x OBVIOUS
<1>3. a \in Field /\ Cong(q, a, x * x) BY Reduced
<1>4. a \in Int BY <1>3, InField
<1> HIDE DEF a
<1>5. b \in Field /\ Cong(q, b, x * a) BY <1>4, Reduced
<1>6. b \in Int /\ x * a \in Int BY <1>4, <1>5, InField
<1> HIDE DEF b
<1>7. Cong(q, x, x) /\ Cong(q, 7, 7) BY <1>1, CongRefl
<1>8. Cong(q, x * a, x * x * x) BY <1>1, <1>2, <1>3, <1>4, <1>7, CongMul
<1>9. Cong(q, b, x * x * x) BY <1>1, <1>2, <1>5, <1>6, <1>8, CongTrans
<1>10. Cong(q, b + 7, x * x * x + 7) BY <1>1, <1>2, <1>6, <1>7, <1>9, CongAdd
<1>11. b + 7 \in Int /\ x * x * x + 7 \in Int BY <1>2, <1>6
<1>12. (b + 7) % q = (x * x * x + 7) % q BY <1>1, <1>10, <1>11, CongRemainder
<1>13. addmod(b, 7) \in Field BY <1>6, Reduced
<1>14. addmod(b, 7) = addmod(x * x * x, 7) BY <1>12 DEF addmod
<1>15. ySquared(x) = addmod(b, 7) BY DEF ySquared, a, b
<1> QED BY <1>13, <1>14, <1>15

\* isOnCurve tells the points from the other pairs of words.
LEMMA OnCurve ==
    ASSUME NEW p \in (0 .. FIELD_SIZE) \X (0 .. FIELD_SIZE)
    PROVE  isOnCurve(p) <=> p \in Curve
<1>1. FIELD_SIZE \in Nat BY FieldIs
<1>2. p[1] \in 0 .. FIELD_SIZE /\ p[2] \in 0 .. FIELD_SIZE /\ p = <<p[1], p[2]>> OBVIOUS
<1>3. p[1] \in Int BY <1>1, <1>2
<1>4. ySquared(p[1]) = addmod(p[1] * p[1] * p[1], 7) BY <1>3, YSquaredIs
<1>5. p \in Field \X Field <=> p[1] < FIELD_SIZE /\ p[2] < FIELD_SIZE
    <2>1. p[1] \in Field <=> p[1] < FIELD_SIZE BY <1>1, <1>2 DEF Field
    <2>2. p[2] \in Field <=> p[2] < FIELD_SIZE BY <1>1, <1>2 DEF Field
    <2> QED BY <1>2, <2>1, <2>2
<1> QED BY <1>4, <1>5 DEF isOnCurve, Curve

LEMMA PointIs ==
    ASSUME NEW p \in Curve
    PROVE  /\ p \in Field \X Field /\ p[1] \in Field /\ p[2] \in Field
           /\ p[1] \in Int /\ p[2] \in Int /\ p = <<p[1], p[2]>>
           /\ p \in (0 .. FIELD_SIZE) \X (0 .. FIELD_SIZE) /\ p # Infinity
           /\ Cong(FIELD_SIZE, p[2] * p[2], p[1] * p[1] * p[1] + 7)
<1>1. p \in Field \X Field /\ mulmod(p[2], p[2]) = addmod(p[1] * p[1] * p[1], 7) BY DEF Curve
<1>2. p[1] \in Field /\ p[2] \in Field /\ p = <<p[1], p[2]>> BY <1>1
<1>3. p[1] \in Int /\ p[2] \in Int /\ p[1] \in 0 .. FIELD_SIZE /\ p[2] \in 0 .. FIELD_SIZE
    BY <1>2, InField
<1>4. p \in (0 .. FIELD_SIZE) \X (0 .. FIELD_SIZE) BY <1>2, <1>3
<1>5. p # Infinity
    <2>1. Len(p) = 2 /\ Len(Infinity) = 0 BY <1>2 DEF Infinity
    <2> QED BY <2>1
<1> DEFINE a == p[2] * p[2]  b == p[1] * p[1] * p[1] + 7
<1>6. a \in Int /\ b \in Int BY <1>3
<1>7. a % FIELD_SIZE = b % FIELD_SIZE BY <1>1 DEF mulmod, addmod
<1> HIDE DEF a, b
<1>8. Cong(FIELD_SIZE, a, b) BY <1>6, <1>7, FieldIs, CongRemainder
<1> QED BY <1>1, <1>2, <1>3, <1>4, <1>5, <1>8 DEF a, b

LEMMA OffCurveIs == OffCurve \subseteq (0 .. FIELD_SIZE) \X (0 .. FIELD_SIZE)
<1>1. Generator \in Curve BY CurveAssumption
<1>2. Generator[1] \in 0 .. FIELD_SIZE /\ Generator[2] \in Int BY <1>1, PointIs
<1> DEFINE y == Generator[2]
<1>3. addmod(y, 1) \in Field
    <2>1. y \in Int /\ 1 \in Int BY <1>2
    <2> HIDE DEF y
    <2> QED BY <2>1, Reduced
<1>4. addmod(Generator[2], 1) \in 0 .. FIELD_SIZE BY <1>3, InField
<1>5. FIELD_SIZE \in 0 .. FIELD_SIZE /\ 0 \in 0 .. FIELD_SIZE
    <2>1. FIELD_SIZE \in Nat BY FieldIs
    <2> QED BY <2>1
<1> QED BY <1>2, <1>4, <1>5 DEF OffCurve

\* The modulus is odd: one of a root and its negative is even.
LEMMA CandidateIs ==
    ASSUME NEW x \in Field
    PROVE  /\ newCandidateSecp256k1Point(x) \in Field \X Field
           /\ newCandidateSecp256k1Point(x)[2] % 2 = 0
<1> DEFINE y == squareRoot(ySquared(x))  e == IF y % 2 = 1 THEN FIELD_SIZE - y ELSE y
<1>1. x \in Int BY InField
<1>2. ySquared(x) \in Field BY <1>1, YSquaredIs
<1>3. ySquared(x) \in Int BY <1>2, InField
<1>4. y \in Field BY <1>3, SquareRootInField
<1> HIDE DEF y
<1>5. y \in 0 .. FIELD_SIZE - 1 /\ y \in Nat BY <1>4, InField DEF Field
<1>6. FIELD_SIZE \in Nat /\ FIELD_SIZE % 2 = 1 BY FieldIs
<1>7. e \in 0 .. FIELD_SIZE - 1 /\ e % 2 = 0
    <2>1. CASE y % 2 = 1
        <3>1. y # 0 BY <2>1
        <3>2. (FIELD_SIZE - y) % 2 = 0 BY <1>5, <1>6, <2>1
        <3> QED BY <1>5, <1>6, <2>1, <3>1, <3>2
    <2>2. CASE y % 2 # 1
        <3>1. y % 2 = 0 BY <1>5, <2>2
        <3> QED BY <1>5, <2>2, <3>1
    <2> QED BY <2>1, <2>2
<1>8. newCandidateSecp256k1Point(x) = <<x, e>> BY DEF newCandidateSecp256k1Point, y
<1> QED BY <1>7, <1>8 DEF Field

\* An abscissa and a parity are those of one point: y^2 has no third root.
LEMMA UniquePoint ==
    ASSUME NEW p \in Curve, NEW r \in Curve, p[1] = r[1], p[2] % 2 = r[2] % 2
    PROVE  p = r
<1> DEFINE q == FIELD_SIZE  y == p[2]  z == r[2]  x == p[1] * p[1] * p[1] + 7
<1>1. p = <<p[1], p[2]>> /\ r = <<r[1], r[2]>> BY PointIs
<1>2. y \in Field /\ z \in Field /\ p[1] \in Int BY PointIs
<1>3. y \in Nat /\ z \in Nat /\ y < q /\ z < q /\ y \in Int /\ z \in Int BY <1>2, InField
<1>4. Cong(q, y * y, x) /\ Cong(q, z * z, x) BY PointIs
<1>5. x \in Int BY <1>2
<1>6. q \in Nat \ {0} /\ q \in Nat /\ Prime(q) /\ q % 2 = 1 BY FieldIs
<1> HIDE DEF x, q, y, z
<1>7. y * y \in Int /\ z * z \in Int /\ (y - z) * (y + z) = y * y - z * z BY <1>3
<1>8. Cong(q, y * y - z * z, x - x) BY <1>4, <1>5, <1>6, <1>7, CongAdd
<1>9. Cong(q, (y - z) * (y + z), 0) BY <1>5, <1>7, <1>8
<1>10. y - z \in Int /\ y + z \in Int BY <1>3
<1>11. Cong(q, y - z, 0) \/ Cong(q, y + z, 0) BY <1>6, <1>9, <1>10, NoDivisors
<1>12. y = z
    <2>1. CASE Cong(q, y - z, 0)
        <3>1. PICK k \in Int : y - z = 0 + q * k BY <2>1 DEF Cong
        <3>2. q * k \in Int BY <1>6
        <3>3. -q < q * k /\ q * k < q BY <1>3, <1>6, <3>1, <3>2
        <3>4. k = 0 BY <1>6, <3>3
        <3> QED BY <1>3, <1>6, <3>1, <3>4
    <2>2. CASE Cong(q, y + z, 0)
        <3>1. PICK k \in Int : y + z = 0 + q * k BY <2>2 DEF Cong
        <3>2. q * k \in Int BY <1>6
        <3>3. -q < q * k /\ q * k < q + q BY <1>3, <1>6, <3>1, <3>2
        <3>4. k = 0 \/ k = 1 BY <1>6, <3>3
        <3>5. CASE k = 0 BY <1>3, <1>6, <3>1, <3>5
        <3>6. CASE k = 1
            <4>1. y + z = q BY <1>3, <1>6, <3>1, <3>6
            <4>2. y % 2 = z % 2 BY DEF y, z
            <4>3. (y + z) % 2 = 0 BY <1>3, <4>2
            <4> QED BY <1>6, <4>1, <4>3
        <3> QED BY <3>4, <3>5, <3>6
    <2> QED BY <1>11, <2>1, <2>2
<1> QED BY <1>1, <1>12 DEF y, z

-----------------------------------------------------------------------------
(* The group *)

Points == Curve \cup {Infinity}
Residues == 0 .. GROUP_ORDER - 1

\* Infinity is a multiple of the generator, and so is another point.
LEMMA OrderIs ==
    /\ Prime(GROUP_ORDER) /\ GROUP_ORDER \in Nat \ {0} /\ GROUP_ORDER \in Nat /\ GROUP_ORDER > 1
    /\ 0 \in Residues /\ 0 % GROUP_ORDER = 0 /\ 1 % GROUP_ORDER = 1
<1>1. GROUP_ORDER \in Nat BY ScalarAssumption
<1>2. {Multiple[i] : i \in Residues} = Points /\ Generator \in Curve
    BY CurveAssumption DEF Residues, Points
<1>3. Generator # Infinity BY <1>2, PointIs
<1>4. PICK i \in Residues : Multiple[i] = Infinity BY <1>2 DEF Points
<1>5. PICK j \in Residues : Multiple[j] = Generator BY <1>2 DEF Points
<1>6. i # j BY <1>3, <1>4, <1>5
<1>7. GROUP_ORDER > 1 BY <1>1, <1>6 DEF Residues
<1>8. Prime(GROUP_ORDER) BY <1>1, <1>7, PrimeAssumption DEF Prime
<1>9. 0 % GROUP_ORDER = 0 /\ 1 % GROUP_ORDER = 1 BY <1>8, Remainders
<1> QED BY <1>1, <1>7, <1>8, <1>9 DEF Residues

LEMMA InResidues ==
    ASSUME NEW k \in Residues
    PROVE  k \in Nat /\ k \in Int /\ k < GROUP_ORDER /\ k \in 0 .. GROUP_ORDER - 1
BY OrderIs DEF Residues

LEMMA GroupIs ==
    /\ Generator \in Curve
    /\ \A k \in Residues : Multiple[k] \in Points
    /\ \A p \in Points : \E k \in Residues : Multiple[k] = p
    /\ \A i, j \in Residues : Multiple[i] = Multiple[j] => i = j
    /\ \A i, j \in Residues : Plus(Multiple[i], Multiple[j]) = Multiple[(i + j) % GROUP_ORDER]
<1>1. {Multiple[i] : i \in Residues} = Points BY CurveAssumption DEF Residues, Points
<1>2. \A k \in Residues : Multiple[k] \in Points BY <1>1
<1>3. \A p \in Points : \E k \in Residues : Multiple[k] = p BY <1>1
<1> QED BY <1>2, <1>3, CurveAssumption DEF Residues

LEMMA LogIs ==
    ASSUME NEW p \in Points
    PROVE  /\ Logarithm[p] \in Residues /\ Logarithm[p] \in Int /\ Multiple[Logarithm[p]] = p
           /\ Logarithm[p] \in 0 .. GROUP_ORDER - 1
<1>1. Logarithm[p] = CHOOSE k \in Residues : Multiple[k] = p BY DEF Logarithm, Points, Residues
<1>2. \E k \in Residues : Multiple[k] = p BY GroupIs
<1>3. Logarithm[p] \in Residues /\ Multiple[Logarithm[p]] = p BY <1>1, <1>2
<1>4. Logarithm[p] \in Int /\ Logarithm[p] \in 0 .. GROUP_ORDER - 1 BY <1>3, InResidues
<1> QED BY <1>3, <1>4

LEMMA LogMultiple ==
    ASSUME NEW k \in Residues
    PROVE  Logarithm[Multiple[k]] = k
<1>1. Multiple[k] \in Points BY GroupIs
<1>2. Logarithm[Multiple[k]] \in Residues /\ Multiple[Logarithm[Multiple[k]]] = Multiple[k]
    BY <1>1, LogIs
<1> QED BY <1>2, GroupIs

\* Points are equal when their logarithms are congruent.
LEMMA SameLog ==
    ASSUME NEW p \in Points, NEW r \in Points, Cong(GROUP_ORDER, Logarithm[p], Logarithm[r])
    PROVE  p = r
<1> DEFINE a == Logarithm[p]  b == Logarithm[r]
<1>1. a \in 0 .. GROUP_ORDER - 1 /\ b \in 0 .. GROUP_ORDER - 1 BY LogIs
<1>2. Multiple[a] = p /\ Multiple[b] = r BY LogIs
<1> HIDE DEF a, b
<1>3. Cong(GROUP_ORDER, a, b) BY DEF a, b
<1>4. a = b BY <1>1, <1>3, OrderIs, CongSmall
<1> QED BY <1>2, <1>4

LEMMA TimesIs ==
    ASSUME NEW k \in Int, NEW p \in Points
    PROVE  /\ Times(k, p) \in Points
           /\ Cong(GROUP_ORDER, Logarithm[Times(k, p)], k * Logarithm[p])
<1> DEFINE l == Logarithm[p]  m == (k * l) % GROUP_ORDER
<1>1. l \in Int BY LogIs
<1> HIDE DEF l
<1>2. k * l \in Int BY <1>1
<1>3. m \in 0 .. GROUP_ORDER - 1 /\ Cong(GROUP_ORDER, m, k * l) BY <1>2, OrderIs, CongMod
<1>4. Times(k, p) = Multiple[m] BY DEF Times, l
<1> HIDE DEF m
<1>5. m \in Residues BY <1>3 DEF Residues
<1>6. Multiple[m] \in Points /\ Logarithm[Multiple[m]] = m BY <1>5, GroupIs, LogMultiple
<1> QED BY <1>3, <1>4, <1>6 DEF l

LEMMA PlusIs ==
    ASSUME NEW p \in Points, NEW r \in Points
    PROVE  /\ Plus(p, r) \in Points
           /\ Cong(GROUP_ORDER, Logarithm[Plus(p, r)], Logarithm[p] + Logarithm[r])
<1> DEFINE a == Logarithm[p]  b == Logarithm[r]  m == (a + b) % GROUP_ORDER
<1>1. a \in Residues /\ b \in Residues /\ a \in Int /\ b \in Int BY LogIs
<1>2. Multiple[a] = p /\ Multiple[b] = r BY LogIs
<1> HIDE DEF a, b
<1>3. a + b \in Int BY <1>1
<1>4. m \in 0 .. GROUP_ORDER - 1 /\ Cong(GROUP_ORDER, m, a + b) BY <1>3, OrderIs, CongMod
<1>5. Plus(Multiple[a], Multiple[b]) = Multiple[m] BY <1>1, GroupIs
<1> HIDE DEF m
<1>6. m \in Residues BY <1>4 DEF Residues
<1>7. Multiple[m] \in Points /\ Logarithm[Multiple[m]] = m BY <1>6, GroupIs, LogMultiple
<1>8. Plus(p, r) = Multiple[m] BY <1>2, <1>5
<1> QED BY <1>4, <1>7, <1>8 DEF a, b

\* Infinity is 0 times the generator: it is its own double.
LEMMA LogInfinity == Logarithm[Infinity] = 0
<1> DEFINE z == Logarithm[Infinity]  n == GROUP_ORDER
<1>1. Infinity \in Points BY DEF Points
<1>2. z \in 0 .. n - 1 /\ z \in Int BY <1>1, LogIs
<1>3. Plus(Infinity, Infinity) = Infinity BY DEF Plus
<1>4. Cong(n, z, z + z) BY <1>1, <1>3, PlusIs
<1> HIDE DEF z
<1>5. n \in Nat \ {0} BY OrderIs
<1> HIDE DEF n
<1>6. PICK k \in Int : z = (z + z) + n * k BY <1>4 DEF Cong
<1>7. -k \in Int /\ n * (-k) = -(n * k) /\ n * k \in Int BY <1>5, <1>6
<1>8. z = 0 + n * (-k) BY <1>2, <1>6, <1>7
<1>9. Cong(n, z, 0) BY <1>7, <1>8 DEF Cong
<1>10. 0 \in 0 .. n - 1 BY <1>5
<1>11. z = 0 BY <1>2, <1>5, <1>9, <1>10, CongSmall
<1> QED BY <1>11 DEF z

LEMMA NotInfinity ==
    ASSUME NEW p \in Points
    PROVE  p \in Curve <=> ~Cong(GROUP_ORDER, Logarithm[p], 0)
<1>1. Infinity \in Points BY DEF Points
<1>2. Cong(GROUP_ORDER, Logarithm[p], 0) <=> p = Infinity
    <2>1. ASSUME Cong(GROUP_ORDER, Logarithm[p], 0) PROVE p = Infinity
        BY <1>1, <2>1, LogInfinity, SameLog
    <2>2. ASSUME p = Infinity PROVE Cong(GROUP_ORDER, Logarithm[p], 0)
        <3>1. Cong(GROUP_ORDER, 0, 0) BY OrderIs, CongRefl
        <3> QED BY <2>2, <3>1, LogInfinity
    <2> QED BY <2>1, <2>2
<1>3. Infinity \notin Curve BY PointIs
<1> QED BY <1>2, <1>3 DEF Points

\* The multiples the model chooses from are points.
LEMMA MultipleIs ==
    ASSUME NEW k \in 1 .. GROUP_ORDER - 1
    PROVE  Multiple[k] \in Curve
<1>1. k \in Residues /\ k # 0 BY OrderIs DEF Residues
<1>2. Multiple[k] \in Points /\ Logarithm[Multiple[k]] = k BY <1>1, GroupIs, LogMultiple
<1>3. ~Cong(GROUP_ORDER, k, 0)
    <2>1. k \in 0 .. GROUP_ORDER - 1 /\ 0 \in 0 .. GROUP_ORDER - 1 BY <1>1, OrderIs DEF Residues
    <2> QED BY <1>1, <2>1, OrderIs, CongSmall
<1> QED BY <1>2, <1>3, NotInfinity

-----------------------------------------------------------------------------
(* ecrecover *)

LEMMA CongScale ==
    ASSUME NEW m \in Nat, NEW a \in Int, NEW b \in Int, NEW c \in Int, Cong(m, a, b)
    PROVE  Cong(m, c * a, c * b) /\ Cong(m, a * c, b * c)
<1>1. Cong(m, c, c) BY CongRefl
<1> QED BY <1>1, CongMul

LEMMA CongUnit ==
    ASSUME NEW m \in Nat, NEW a \in Int, NEW b \in Int, Cong(m, a, 1)
    PROVE  Cong(m, a * b, b)
<1>1. 1 \in Int /\ 1 * b = b OBVIOUS
<1>2. Cong(m, a * b, 1 * b) BY <1>1, CongScale, Zenon
<1> QED BY <1>1, <1>2

LEMMA CongDifference ==
    ASSUME NEW m \in Nat, NEW a \in Int, NEW b \in Int
    PROVE  Cong(m, a, b) <=> Cong(m, a - b, 0)
<1>1. ASSUME NEW k \in Int PROVE a = b + m * k <=> a - b = 0 + m * k
    <2>1. m * k \in Int OBVIOUS
    <2> QED BY <2>1
<1> QED BY <1>1 DEF Cong

LEMMA Invertible ==
    ASSUME NEW m, Prime(m), NEW r \in 1 .. m - 1
    PROVE  ~Cong(m, r, 0) /\ r \in Int
<1>1. m \in Nat \ {0} BY Remainders
<1>2. r \in 0 .. m - 1 /\ 0 \in 0 .. m - 1 /\ r # 0 /\ r \in Int BY <1>1
<1> QED BY <1>1, <1>2, CongSmall

LEMMA CongCancel ==
    ASSUME NEW m, Prime(m), NEW r \in Int, ~Cong(m, r, 0), NEW a \in Int, NEW b \in Int,
           Cong(m, r * a, r * b)
    PROVE  Cong(m, a, b)
<1>1. m \in Nat BY Remainders
<1>2. r * a \in Int /\ r * b \in Int /\ a - b \in Int /\ r * (a - b) = r * a - r * b OBVIOUS
<1>3. Cong(m, r * a - r * b, 0) BY <1>1, <1>2, CongDifference
<1>4. Cong(m, r * (a - b), 0) BY <1>2, <1>3
<1>5. Cong(m, a - b, 0) BY <1>2, <1>4, NoDivisors
<1> QED BY <1>1, <1>5, CongDifference

\* The logarithm of what ecrecover returns, times the abscissa.
LEMMA Recovered ==
    ASSUME NEW p \in Curve, p[1] \in 1 .. GROUP_ORDER - 1, NEW s \in 1 .. GROUP_ORDER - 1,
           NEW h \in Int
    PROVE  LET e == ecrecover(h, p[2] % 2, p[1], s) IN
           /\ e \in Points
           /\ Cong(GROUP_ORDER, p[1] * Logarithm[e], s * Logarithm[p] + (-h) * Logarithm[Generator])
<1> DEFINE n == GROUP_ORDER  r == p[1]
           R == {a \in Curve : a[1] = r /\ a[2] % 2 = p[2] % 2}
           i == Inverse(r, n)
           A == Times(s, p)  B == Times(-h, Generator)  S == Plus(A, B)  e == Times(i, S)
           lp == Logarithm[p]  lg == Logarithm[Generator]
           la == Logarithm[A]  lb == Logarithm[B]  ls == Logarithm[S]  le == Logarithm[e]
<1>1. n \in Nat /\ Prime(n) /\ r \in Int /\ s \in Int /\ -h \in Int BY OrderIs
<1>2. p \in R /\ \A a \in R : a = p BY UniquePoint
<1>3. (CHOOSE a \in R : TRUE) = p BY <1>2
<1>4. ecrecover(h, p[2] % 2, p[1], s) = e BY <1>2, <1>3 DEF ecrecover
<1>5. i \in 1 .. n - 1 /\ Cong(n, r * i, 1) BY <1>1, InverseIs
<1>6. i \in Int BY <1>1, <1>5
<1>7. p \in Points /\ Generator \in Points BY GroupIs DEF Points
<1>8. lp \in Int /\ lg \in Int BY <1>7, LogIs
<1>9. A \in Points /\ Cong(n, la, s * lp) BY <1>1, <1>7, TimesIs
<1>10. B \in Points /\ Cong(n, lb, (-h) * lg) BY <1>1, <1>7, TimesIs
<1>11. S \in Points /\ Cong(n, ls, la + lb) BY <1>9, <1>10, PlusIs
<1>12. e \in Points /\ Cong(n, le, i * ls) BY <1>6, <1>11, TimesIs
<1>13. la \in Int /\ lb \in Int /\ ls \in Int /\ le \in Int BY <1>9, <1>10, <1>11, <1>12, LogIs
<1> HIDE DEF n, r, i, A, B, S, e, lp, lg, la, lb, ls, le
<1>14. /\ s * lp \in Int /\ (-h) * lg \in Int /\ la + lb \in Int /\ i * ls \in Int
       /\ r * le \in Int /\ r * (i * ls) \in Int /\ r * i \in Int /\ (r * i) * ls = r * (i * ls)
       /\ s * lp + (-h) * lg \in Int
    BY <1>1, <1>6, <1>8, <1>13
<1>15. Cong(n, r * le, r * (i * ls)) BY <1>1, <1>12, <1>13, <1>14, CongScale
<1>16. Cong(n, r * (i * ls), ls)
    <2>1. Cong(n, (r * i) * ls, ls) BY <1>1, <1>5, <1>13, <1>14, CongUnit
    <2> QED BY <1>14, <2>1
<1>17. Cong(n, la + lb, s * lp + (-h) * lg) BY <1>1, <1>9, <1>10, <1>13, <1>14, CongAdd
<1>18. Cong(n, r * le, ls) BY <1>1, <1>13, <1>14, <1>15, <1>16, CongTrans
<1>19. Cong(n, r * le, la + lb) BY <1>1, <1>11, <1>13, <1>14, <1>18, CongTrans
<1>20. Cong(n, r * le, s * lp + (-h) * lg) BY <1>1, <1>13, <1>14, <1>17, <1>19, CongTrans
<1> QED BY <1>4, <1>12, <1>20 DEF n, r, le, lp, lg

\* What ecrecover does not refuse.
LEMMA RecoverGuard ==
    ASSUME NEW h, NEW par, NEW r, NEW s, ecrecover(h, par, r, s) # Infinity
    PROVE  r \in 1 .. GROUP_ORDER - 1 /\ s \in 1 .. GROUP_ORDER - 1
BY DEF ecrecover

\* A scalar that is no multiple of the order keeps its product with the abscissa
\* in the range that ecrecover takes.
LEMMA ScalarKept ==
    ASSUME NEW k \in Int, NEW r \in 1 .. GROUP_ORDER - 1, k % GROUP_ORDER # 0
    PROVE  (k * r) % GROUP_ORDER \in 1 .. GROUP_ORDER - 1
<1> DEFINE n == GROUP_ORDER
<1>1. Prime(n) /\ n \in Nat \ {0} /\ n \in Nat /\ 0 % n = 0 BY OrderIs
<1>2. ~Cong(n, r, 0) /\ r \in Int BY <1>1, Invertible
<1> HIDE DEF n
<1>3. ~Cong(n, k, 0)
    <2>1. 0 \in Int /\ k % n # 0 % n BY <1>1 DEF n
    <2> QED BY <1>1, <2>1, CongRemainder, Zenon
<1>4. k * r \in Int BY <1>2
<1>5. ~Cong(n, k * r, 0) BY <1>1, <1>2, <1>3, NoDivisors
<1>6. (k * r) % n # 0
    <2>1. 0 \in Int OBVIOUS
    <2>2. (k * r) % n # 0 % n BY <1>1, <1>4, <1>5, <2>1, CongRemainder, Zenon
    <2> QED BY <1>1, <2>2
<1>7. (k * r) % n \in 0 .. n - 1 BY <1>1, <1>4, CongMod
<1> QED BY <1>1, <1>6, <1>7 DEF n

\* ecmulVerify: the inverse of the abscissa cancels the abscissa.
LEMMA Product ==
    ASSUME NEW p \in Curve, NEW k \in Int, p[1] \in 1 .. GROUP_ORDER - 1,
           (k * p[1]) % GROUP_ORDER \in 1 .. GROUP_ORDER - 1
    PROVE  ecrecover(0, p[2] % 2, p[1], (k * p[1]) % GROUP_ORDER) = Times(k, p)
<1> DEFINE n == GROUP_ORDER  r == p[1]  s == (k * r) % n
           e == ecrecover(0, p[2] % 2, r, s)  t == Times(k, p)
           lp == Logarithm[p]  lg == Logarithm[Generator]
           le == Logarithm[e]  lt == Logarithm[t]
<1>1. n \in Nat \ {0} /\ n \in Nat /\ Prime(n) /\ s \in 1 .. n - 1 BY OrderIs
<1>2. ~Cong(n, r, 0) /\ r \in Int BY <1>1, Invertible
<1>3. k * r \in Int BY <1>2
<1>4. Cong(n, s, k * r) BY <1>1, <1>3, CongMod
<1>5. e \in Points /\ Cong(n, r * le, s * lp + (-0) * lg) BY <1>1, Recovered
<1>6. p \in Points /\ Generator \in Points BY GroupIs DEF Points
<1>7. t \in Points /\ Cong(n, lt, k * lp) BY <1>6, TimesIs
<1>8. lp \in Int /\ lg \in Int /\ le \in Int /\ lt \in Int BY <1>5, <1>6, <1>7, LogIs
<1>9. s \in Int BY <1>1
<1> HIDE DEF n, r, s, e, t, lp, lg, le, lt
<1>10. /\ s * lp + (-0) * lg = s * lp /\ s * lp \in Int /\ (k * r) * lp \in Int
       /\ (k * r) * lp = r * (k * lp) /\ k * lp \in Int /\ r * le \in Int /\ r * (k * lp) \in Int
    BY <1>2, <1>3, <1>8, <1>9
<1>11. Cong(n, s * lp, r * (k * lp))
    <2>1. Cong(n, s * lp, (k * r) * lp) BY <1>1, <1>3, <1>4, <1>8, <1>9, CongScale
    <2> QED BY <1>10, <2>1
<1>12. Cong(n, r * le, r * (k * lp)) BY <1>1, <1>5, <1>10, <1>11, CongTrans
<1>13. Cong(n, le, k * lp) BY <1>1, <1>2, <1>8, <1>10, <1>12, CongCancel
<1>14. Cong(n, k * lp, lt) BY <1>1, <1>7, <1>8, <1>10, CongSym
<1>15. Cong(n, le, lt) BY <1>1, <1>8, <1>10, <1>13, <1>14, CongTrans
<1>16. e = t BY <1>5, <1>7, <1>15, SameLog DEF le, lt, n
<1> QED BY <1>16 DEF e, t, r, s, n

\* verifyLinearCombinationWithGenerator: the hash it gives is -s times the abscissa.
LEMMA Combination ==
    ASSUME NEW p \in Curve, NEW c \in Int, NEW s \in Int, p[1] \in 1 .. GROUP_ORDER - 1,
           (c * p[1]) % GROUP_ORDER \in 1 .. GROUP_ORDER - 1
    PROVE  ecrecover(GROUP_ORDER - ((p[1] * s) % GROUP_ORDER), p[2] % 2, p[1],
                     (c * p[1]) % GROUP_ORDER)
             = Plus(Times(c, p), Times(s, Generator))
<1> DEFINE n == GROUP_ORDER  r == p[1]  d == (c * r) % n  u == (r * s) % n  h == n - u
           e == ecrecover(h, p[2] % 2, r, d)
           A == Times(c, p)  B == Times(s, Generator)  t == Plus(A, B)
           lp == Logarithm[p]  lg == Logarithm[Generator]
           la == Logarithm[A]  lb == Logarithm[B]  le == Logarithm[e]  lt == Logarithm[t]
<1>1. n \in Nat \ {0} /\ n \in Nat /\ Prime(n) /\ d \in 1 .. n - 1 BY OrderIs
<1>2. ~Cong(n, r, 0) /\ r \in Int BY <1>1, Invertible
<1>3. c * r \in Int /\ r * s \in Int BY <1>2
<1>4. Cong(n, d, c * r) /\ u \in 0 .. n - 1 /\ Cong(n, u, r * s) BY <1>1, <1>3, CongMod
<1>5. u \in Int /\ h \in Int /\ d \in Int
    <2>1. u \in Int /\ d \in Int BY <1>1, <1>4
    <2> HIDE DEF u, d
    <2> QED BY <1>1, <2>1
<1>6. e \in Points /\ Cong(n, r * le, d * lp + (-h) * lg) BY <1>1, <1>5, Recovered
<1>7. p \in Points /\ Generator \in Points BY GroupIs DEF Points
<1>8. A \in Points /\ Cong(n, la, c * lp) BY <1>7, TimesIs
<1>9. B \in Points /\ Cong(n, lb, s * lg) BY <1>7, TimesIs
<1>10. t \in Points /\ Cong(n, lt, la + lb) BY <1>8, <1>9, PlusIs
<1>11. lp \in Int /\ lg \in Int /\ le \in Int /\ lt \in Int /\ la \in Int /\ lb \in Int
    BY <1>6, <1>7, <1>8, <1>9, <1>10, LogIs
<1> HIDE DEF n, r, d, u, e, A, B, t, lp, lg, la, lb, le, lt
<1>12. Cong(n, -h, r * s)
    <2>1. PICK k \in Int : u = r * s + n * k BY <1>4 DEF Cong
    <2>2. n * (k - 1) = n * k - n /\ n * k \in Int /\ k - 1 \in Int BY <1>1
    <2>3. -h = r * s + n * (k - 1) BY <1>1, <1>3, <1>5, <2>1, <2>2
    <2> QED BY <2>2, <2>3 DEF Cong
<1>13. -h \in Int BY <1>5
<1> HIDE DEF h
<1> DEFINE g == c * lp + s * lg
<1>14. /\ d * lp \in Int /\ (-h) * lg \in Int /\ (c * r) * lp \in Int /\ (r * s) * lg \in Int
       /\ c * lp \in Int /\ s * lg \in Int
       /\ d * lp + (-h) * lg \in Int /\ (c * r) * lp + (r * s) * lg \in Int
       /\ g \in Int /\ r * g \in Int /\ r * le \in Int /\ la + lb \in Int
    BY <1>2, <1>3, <1>5, <1>11, <1>13
<1>15. (c * r) * lp + (r * s) * lg = r * g BY <1>2, <1>11
<1>16. Cong(n, d * lp, (c * r) * lp) BY <1>1, <1>3, <1>4, <1>5, <1>11, CongScale
<1>17. Cong(n, (-h) * lg, (r * s) * lg) BY <1>1, <1>3, <1>11, <1>12, <1>13, CongScale
<1>18. Cong(n, d * lp + (-h) * lg, (c * r) * lp + (r * s) * lg)
    BY <1>1, <1>14, <1>16, <1>17, CongAdd
<1>19. Cong(n, la + lb, g) BY <1>1, <1>8, <1>9, <1>11, <1>14, CongAdd
<1>20. Cong(n, d * lp + (-h) * lg, r * g) BY <1>15, <1>18
<1> HIDE DEF g
<1>21. Cong(n, r * le, r * g) BY <1>1, <1>6, <1>14, <1>20, CongTrans
<1>22. Cong(n, le, g) BY <1>1, <1>2, <1>11, <1>14, <1>21, CongCancel
<1>23. Cong(n, lt, g) BY <1>1, <1>10, <1>11, <1>14, <1>19, CongTrans
<1>24. Cong(n, g, lt) BY <1>1, <1>11, <1>14, <1>23, CongSym
<1>25. Cong(n, le, lt) BY <1>1, <1>11, <1>14, <1>22, <1>24, CongTrans
<1>26. e = t BY <1>6, <1>10, <1>25, SameLog DEF le, lt, n
<1> QED BY <1>26 DEF e, t, A, B, r, d, h, u, n

-----------------------------------------------------------------------------
(* Sums in projective coordinates *)

\* Numerator and denominator of a difference and of a product, modulo q.
LEMMA SubIs ==
    ASSUME NEW a \in Int \X Int, NEW b \in Int \X Int,
           NEW A1 \in Int, NEW A2 \in Int, NEW B1 \in Int, NEW B2 \in Int,
           Cong(FIELD_SIZE, a[1], A1), Cong(FIELD_SIZE, a[2], A2),
           Cong(FIELD_SIZE, b[1], B1), Cong(FIELD_SIZE, b[2], B2)
    PROVE  LET s == projectiveSub(a, b) IN
           /\ s \in Int \X Int /\ s[1] \in Field /\ s[2] \in Field
           /\ Cong(FIELD_SIZE, s[1], B2 * A1 - B1 * A2) /\ Cong(FIELD_SIZE, s[2], A2 * B2)
<1> DEFINE q == FIELD_SIZE  a1 == a[1]  a2 == a[2]  b1 == b[1]  b2 == b[2]
           u == mulmod(b2, a1)  w == mulmod(q - b1, a2)  t == addmod(u, w)  d == mulmod(a2, b2)
           N == B2 * A1 - B1 * A2  D == A2 * B2
<1>1. q \in Nat /\ a1 \in Int /\ a2 \in Int /\ b1 \in Int /\ b2 \in Int BY FieldIs
<1>2. /\ Cong(q, a1, A1) /\ Cong(q, a2, A2) /\ Cong(q, b1, B1) /\ Cong(q, b2, B2) OBVIOUS
<1>3. projectiveSub(a, b) = <<t, d>> BY DEF projectiveSub
<1> HIDE DEF q, a1, a2, b1, b2
<1>4. q - b1 \in Int BY <1>1
<1>5. u \in Field /\ Cong(q, u, b2 * a1) BY <1>1, Reduced DEF q
<1>6. w \in Field /\ Cong(q, w, (q - b1) * a2) BY <1>1, <1>4, Reduced DEF q
<1>7. d \in Field /\ Cong(q, d, a2 * b2) BY <1>1, Reduced DEF q
<1>8. u \in Int /\ w \in Int /\ d \in Int BY <1>5, <1>6, <1>7, InField
<1> HIDE DEF u, w
<1>9. t \in Field /\ Cong(q, t, u + w) BY <1>8, Reduced DEF q
<1>10. t \in Int BY <1>9, InField
<1> HIDE DEF t, d
<1>11. /\ b2 * a1 \in Int /\ (q - b1) * a2 \in Int /\ a2 * b2 \in Int /\ B2 * A1 \in Int
       /\ (0 - B1) * A2 \in Int /\ A2 * B2 \in Int /\ u + w \in Int /\ 0 - B1 \in Int
       /\ N \in Int /\ D \in Int /\ B1 * A2 \in Int
    BY <1>1, <1>4, <1>8
<1>12. Cong(q, u, B2 * A1)
    <2>1. Cong(q, b2 * a1, B2 * A1) BY <1>1, <1>2, CongMul
    <2> QED BY <1>1, <1>5, <1>8, <1>11, <2>1, CongTrans
<1>13. Cong(q, q - b1, 0 - B1)
    <2>1. q = 0 + q * 1 BY <1>1
    <2>2. Cong(q, q, 0) BY <2>1 DEF Cong
    <2> QED BY <1>1, <1>2, <2>2, CongAdd
<1>14. Cong(q, w, (0 - B1) * A2)
    <2>1. Cong(q, (q - b1) * a2, (0 - B1) * A2) BY <1>1, <1>2, <1>4, <1>11, <1>13, CongMul
    <2> QED BY <1>1, <1>6, <1>8, <1>11, <2>1, CongTrans
<1>15. (B2 * A1) + (0 - B1) * A2 = N
    <2>1. (0 - B1) * A2 = -(B1 * A2) OBVIOUS
    <2> QED BY <1>11, <2>1
<1> HIDE DEF N, D
<1>16. Cong(q, u + w, N)
    <2>1. Cong(q, u + w, (B2 * A1) + (0 - B1) * A2) BY <1>1, <1>8, <1>11, <1>12, <1>14, CongAdd
    <2> QED BY <1>15, <2>1
<1>17. Cong(q, t, N) BY <1>1, <1>9, <1>10, <1>11, <1>16, CongTrans
<1>18. Cong(q, d, D)
    <2>1. Cong(q, a2 * b2, A2 * B2) BY <1>1, <1>2, CongMul
    <2> QED BY <1>1, <1>7, <1>8, <1>11, <2>1, CongTrans DEF D
<1> QED BY <1>3, <1>7, <1>8, <1>9, <1>10, <1>17, <1>18 DEF q, N, D

\* The same for a coordinate, whose denominator is 1.
LEMMA SubCoordinate ==
    ASSUME NEW a \in Int \X Int, NEW b \in Int, NEW A1 \in Int, NEW A2 \in Int,
           Cong(FIELD_SIZE, a[1], A1), Cong(FIELD_SIZE, a[2], A2)
    PROVE  /\ LET s == projectiveSub(a, <<b, 1>>) IN
              /\ s \in Int \X Int /\ s[1] \in Field /\ s[2] \in Field
              /\ Cong(FIELD_SIZE, s[1], A1 - b * A2) /\ Cong(FIELD_SIZE, s[2], A2)
           /\ LET s == projectiveSub(<<b, 1>>, a) IN
              /\ s \in Int \X Int /\ s[1] \in Field /\ s[2] \in Field
              /\ Cong(FIELD_SIZE, s[1], A2 * b - A1) /\ Cong(FIELD_SIZE, s[2], A2)
<1> DEFINE c == <<b, 1>>  o == 1  N == A1 - b * A2  K == A2 * b - A1
<1>1. c \in Int \X Int /\ c[1] = b /\ c[2] = o OBVIOUS
<1>2. o \in Int /\ FIELD_SIZE \in Nat BY FieldIs
<1>3. Cong(FIELD_SIZE, c[1], b) /\ Cong(FIELD_SIZE, c[2], o) BY <1>1, <1>2, CongRefl
<1>4. N = o * A1 - b * A2 /\ A2 = A2 * o OBVIOUS
<1>5. K = A2 * b - A1 * o /\ A2 = o * A2 OBVIOUS
<1> HIDE DEF c, o, N, K
<1>6. LET s == projectiveSub(a, c) IN
      /\ s \in Int \X Int /\ s[1] \in Field /\ s[2] \in Field
      /\ Cong(FIELD_SIZE, s[1], o * A1 - b * A2) /\ Cong(FIELD_SIZE, s[2], A2 * o)
    BY <1>1, <1>2, <1>3, SubIs
<1>7. LET s == projectiveSub(c, a) IN
      /\ s \in Int \X Int /\ s[1] \in Field /\ s[2] \in Field
      /\ Cong(FIELD_SIZE, s[1], A2 * b - A1 * o) /\ Cong(FIELD_SIZE, s[2], o * A2)
    BY <1>1, <1>2, <1>3, SubIs
<1> QED BY <1>4, <1>5, <1>6, <1>7 DEF N, K, c

LEMMA MulIs ==
    ASSUME NEW a \in Int, NEW b \in Int, NEW A \in Int, NEW B \in Int,
           Cong(FIELD_SIZE, a, A), Cong(FIELD_SIZE, b, B), NEW P, P = A * B
    PROVE  /\ mulmod(a, b) \in Field /\ mulmod(a, b) \in Int
           /\ Cong(FIELD_SIZE, mulmod(a, b), P)
<1> DEFINE m == mulmod(a, b)
<1>1. m \in Field /\ Cong(FIELD_SIZE, m, a * b) BY Reduced
<1>2. m \in Int BY <1>1, InField
<1> HIDE DEF m
<1>3. FIELD_SIZE \in Nat BY FieldIs
<1>4. a * b \in Int /\ A * B \in Int OBVIOUS
<1>5. Cong(FIELD_SIZE, a * b, A * B) BY <1>3, CongMul
<1>6. Cong(FIELD_SIZE, m, A * B) BY <1>1, <1>2, <1>3, <1>4, <1>5, CongTrans
<1> QED BY <1>1, <1>2, <1>6 DEF m

LEMMA ProjectiveMulIs ==
    ASSUME NEW a \in Int \X Int, NEW b \in Int \X Int,
           NEW A1 \in Int, NEW A2 \in Int, NEW B1 \in Int, NEW B2 \in Int,
           Cong(FIELD_SIZE, a[1], A1), Cong(FIELD_SIZE, a[2], A2),
           Cong(FIELD_SIZE, b[1], B1), Cong(FIELD_SIZE, b[2], B2),
           NEW N, N = A1 * B1, NEW D, D = A2 * B2
    PROVE  LET s == projectiveMul(a, b) IN
           /\ s \in Int \X Int /\ s[1] \in Field /\ s[2] \in Field
           /\ Cong(FIELD_SIZE, s[1], N) /\ Cong(FIELD_SIZE, s[2], D)
<1> DEFINE t == mulmod(a[1], b[1])  d == mulmod(a[2], b[2])
<1>1. a[1] \in Int /\ a[2] \in Int /\ b[1] \in Int /\ b[2] \in Int OBVIOUS
<1>2. t \in Field /\ t \in Int /\ Cong(FIELD_SIZE, t, N) BY <1>1, MulIs
<1>3. d \in Field /\ d \in Int /\ Cong(FIELD_SIZE, d, D) BY <1>1, MulIs
<1>4. projectiveMul(a, b) = <<t, d>> BY DEF projectiveMul
<1> HIDE DEF t, d
<1> QED BY <1>2, <1>3, <1>4

\* The numerators of the sum of two points, over the square and the cube of the
\* difference of the abscissas.
SumX(p, r) ==
    LET dy == r[2] - p[2]  dx == r[1] - p[1] IN dy * dy - (p[1] + r[1]) * (dx * dx)
SumY(p, r) ==
    LET dy == r[2] - p[2]  dx == r[1] - p[1]
    IN  dy * ((dx * dx) * p[1] - SumX(p, r)) - p[2] * ((dx * dx) * dx)

\* What projectiveECAdd computes before it compares the denominators.
LEMMA Numerators ==
    ASSUME NEW p \in Int \X Int, NEW r \in Int \X Int
    PROVE  LET l  == <<addmod(r[2], FIELD_SIZE - p[2]), addmod(r[1], FIELD_SIZE - p[1])>>
               sx == projectiveSub(projectiveSub(projectiveMul(l, l), <<p[1], 1>>), <<r[1], 1>>)
               sy == projectiveSub(projectiveMul(projectiveSub(<<p[1], 1>>, sx), l), <<p[2], 1>>)
               dx == r[1] - p[1]
           IN  /\ sx[1] \in Field /\ sx[2] \in Field /\ sy[1] \in Field /\ sy[2] \in Field
               /\ Cong(FIELD_SIZE, sx[1], SumX(p, r)) /\ Cong(FIELD_SIZE, sx[2], dx * dx)
               /\ Cong(FIELD_SIZE, sy[1], SumY(p, r)) /\ Cong(FIELD_SIZE, sy[2], (dx * dx) * dx)
<1> DEFINE q == FIELD_SIZE  x1 == p[1]  y1 == p[2]  x2 == r[1]  y2 == r[2]
           dy == y2 - y1  dx == x2 - x1  D2 == dx * dx  D3 == D2 * dx
           l == <<addmod(y2, q - y1), addmod(x2, q - x1)>>
           ll == projectiveMul(l, l)
           s1 == projectiveSub(ll, <<x1, 1>>)
           sx == projectiveSub(s1, <<x2, 1>>)
           d == projectiveSub(<<x1, 1>>, sx)
           m == projectiveMul(d, l)
           sy == projectiveSub(m, <<y1, 1>>)
           X == SumX(p, r)  Y == SumY(p, r)
           L2 == dy * dy  N1 == L2 - x1 * D2  E == D2 * x1 - X  M == E * dy
<1>1. q \in Nat /\ x1 \in Int /\ y1 \in Int /\ x2 \in Int /\ y2 \in Int BY FieldIs
<1>2. X = dy * dy - (x1 + x2) * D2 /\ Y = dy * (D2 * x1 - X) - y1 * D3 BY DEF SumX, SumY
<1> HIDE DEF q, x1, y1, x2, y2, X, Y
<1>3. dx \in Int /\ dy \in Int BY <1>1
<1> HIDE DEF dx, dy
<1>4. D2 \in Int /\ L2 \in Int BY <1>3
<1>5. D3 \in Int BY <1>3, <1>4
<1>6. X \in Int /\ N1 \in Int /\ x1 * D2 \in Int /\ x2 * D2 \in Int BY <1>1, <1>2, <1>3, <1>4
<1>7. E \in Int BY <1>1, <1>4, <1>6
<1>8. M \in Int BY <1>3, <1>7
<1>9. 1 \in Int OBVIOUS
<1>10. X = N1 - x2 * D2
    <2>1. (x1 + x2) * D2 = x1 * D2 + x2 * D2 BY <1>1, <1>4
    <2>2. X = L2 - (x1 + x2) * D2 BY <1>2
    <2> HIDE DEF D2, L2
    <2> QED BY <1>4, <1>6, <2>1, <2>2
<1>11. Y = M - y1 * D3
    <2>1. E * dy = dy * E BY <1>3, <1>7
    <2>2. dy * E \in Int BY <1>3, <1>7
    <2>3. Y = dy * E - y1 * D3 BY <1>2
    <2> HIDE DEF E, D3
    <2>4. y1 * D3 \in Int BY <1>1, <1>5
    <2> QED BY <2>1, <2>2, <2>3, <2>4
<1> HIDE DEF D2, D3, L2, N1, E, M
<1>12. l[1] \in Int /\ l[2] \in Int /\ l \in Int \X Int /\ Cong(q, l[1], dy) /\ Cong(q, l[2], dx)
    <2> DEFINE a == addmod(y2, q - y1)  b == addmod(x2, q - x1)
    <2>1. q - y1 \in Int /\ q - x1 \in Int BY <1>1
    <2>2. a \in Field /\ Cong(q, a, y2 + (q - y1)) /\ b \in Field /\ Cong(q, b, x2 + (q - x1))
        BY <1>1, <2>1, Reduced DEF q
    <2>3. a \in Int /\ b \in Int BY <2>2, InField
    <2>4. l = <<a, b>> OBVIOUS
    <2> HIDE DEF a, b
    <2>5. y2 + (q - y1) = dy + q * 1 /\ x2 + (q - x1) = dx + q * 1 BY <1>1 DEF dx, dy
    <2>6. Cong(q, y2 + (q - y1), dy) /\ Cong(q, x2 + (q - x1), dx) BY <1>9, <2>5 DEF Cong
    <2>7. y2 + (q - y1) \in Int /\ x2 + (q - x1) \in Int BY <1>1
    <2>8. Cong(q, a, dy) BY <1>1, <1>3, <2>2, <2>3, <2>6, <2>7, CongTrans
    <2>9. Cong(q, b, dx) BY <1>1, <1>3, <2>2, <2>3, <2>6, <2>7, CongTrans
    <2> QED BY <2>3, <2>4, <2>8, <2>9
<1> HIDE DEF l
<1>13. ll \in Int \X Int /\ Cong(q, ll[1], L2) /\ Cong(q, ll[2], D2)
    BY <1>3, <1>12, ProjectiveMulIs DEF q, L2, D2
<1> HIDE DEF ll, s1, sx, d, m, sy
<1>14. s1 \in Int \X Int /\ Cong(q, s1[1], N1) /\ Cong(q, s1[2], D2)
    BY <1>1, <1>4, <1>13, SubCoordinate DEF q, N1, s1
<1>15. /\ sx \in Int \X Int /\ sx[1] \in Field /\ sx[2] \in Field
       /\ Cong(q, sx[1], X) /\ Cong(q, sx[2], D2)
    BY <1>1, <1>4, <1>6, <1>10, <1>14, SubCoordinate DEF q, sx
<1>16. d \in Int \X Int /\ Cong(q, d[1], E) /\ Cong(q, d[2], D2)
    BY <1>1, <1>4, <1>6, <1>15, SubCoordinate DEF q, E, d
<1>17. m \in Int \X Int /\ Cong(q, m[1], M) /\ Cong(q, m[2], D3)
    BY <1>3, <1>4, <1>7, <1>12, <1>16, ProjectiveMulIs DEF q, M, D3, m
<1>18. /\ sy \in Int \X Int /\ sy[1] \in Field /\ sy[2] \in Field
       /\ Cong(q, sy[1], Y) /\ Cong(q, sy[2], D3)
    BY <1>1, <1>5, <1>8, <1>11, <1>17, SubCoordinate DEF q, sy
<1> QED
    BY <1>15, <1>18
    DEF q, X, Y, D2, D3, dx, sx, sy, s1, ll, l, d, m, x1, x2, y1, y2

\* The textbook's sum, cleared of the same denominators.
LEMMA SecantIs ==
    ASSUME NEW p \in Curve, NEW r \in Curve, p[1] # r[1]
    PROVE  LET dx == r[1] - p[1]  s == Plus(p, r) IN
           /\ s = <<s[1], s[2]>> /\ s[1] \in Field /\ s[2] \in Field
           /\ dx \in Int /\ ~Cong(FIELD_SIZE, dx, 0)
           /\ Cong(FIELD_SIZE, (dx * dx) * s[1], SumX(p, r))
           /\ Cong(FIELD_SIZE, ((dx * dx) * dx) * s[2], SumY(p, r))
<1> DEFINE q == FIELD_SIZE  x1 == p[1]  y1 == p[2]  x2 == r[1]  y2 == r[2]
           dy == y2 - y1  dx == x2 - x1  D2 == dx * dx  D3 == D2 * dx
           b == dx % q  w == Inverse(b, q)  l == mulmod(dy, w)
           ex == l * l - x1 - x2  x == ex % q
           ey == l * (x1 - x) - y1  y == ey % q
           X == SumX(p, r)  Y == SumY(p, r)  t == dx * l
<1>1. q \in Nat \ {0} /\ q \in Nat /\ Prime(q) BY FieldIs
<1>2. /\ x1 \in Int /\ y1 \in Int /\ x2 \in Int /\ y2 \in Int /\ x1 # x2
      /\ x1 \in 0 .. q - 1 /\ x2 \in 0 .. q - 1
    BY PointIs DEF Field
<1>3. Plus(p, r) = <<x, y>>
    <2>1. p # Infinity /\ r # Infinity /\ p # r BY PointIs
    <2> QED BY <2>1 DEF Plus
<1>4. X = dy * dy - (x1 + x2) * D2 /\ Y = dy * (D2 * x1 - X) - y1 * D3 BY DEF SumX, SumY
<1> HIDE DEF q, x1, y1, x2, y2, X, Y
<1>5. dx \in Int /\ dy \in Int BY <1>2
<1>6. ~Cong(q, dx, 0)
    <2> SUFFICES ASSUME Cong(q, dx, 0) PROVE FALSE OBVIOUS
    <2>1. Cong(q, x2, x1) BY <1>1, <1>2, CongDifference
    <2> QED BY <1>1, <1>2, <2>1, CongSmall
<1> HIDE DEF dx, dy
<1>7. b \in 0 .. q - 1 /\ Cong(q, dx, b) /\ b # 0
    <2>1. b \in 0 .. q - 1 /\ Cong(q, dx, b) BY <1>1, <1>5, CongMod
    <2> HIDE DEF b
    <2> QED BY <1>6, <2>1
<1> HIDE DEF b
<1>8. b \in 1 .. q - 1 /\ b \in Int BY <1>1, <1>7
<1>9. w \in 1 .. q - 1 /\ Cong(q, b * w, 1) BY <1>1, <1>8, InverseIs
<1>10. w \in Int BY <1>1, <1>9
<1> HIDE DEF w
<1>11. Cong(q, dx * w, 1)
    <2>1. Cong(q, dx * w, b * w) BY <1>1, <1>5, <1>7, <1>8, <1>10, CongScale
    <2>2. dx * w \in Int /\ b * w \in Int BY <1>5, <1>8, <1>10
    <2> QED BY <1>1, <1>9, <2>1, <2>2, CongTrans
<1>12. l \in Field /\ Cong(q, l, dy * w) BY <1>5, <1>10, Reduced DEF q
<1>13. l \in Int BY <1>12, InField
<1> HIDE DEF l
<1>14. t \in Int /\ ex \in Int BY <1>2, <1>5, <1>13
<1>15. Cong(q, t, dy)
    <2>1. dx * w \in Int /\ dy * w \in Int /\ dx * (dy * w) \in Int
          /\ dx * (dy * w) = (dx * w) * dy
        BY <1>5, <1>10
    <2>2. Cong(q, dx * l, dx * (dy * w)) BY <1>1, <1>5, <1>12, <1>13, <2>1, CongScale
    <2>3. Cong(q, (dx * w) * dy, dy) BY <1>1, <1>5, <1>11, <2>1, CongUnit
    <2>4. Cong(q, dx * (dy * w), dy) BY <2>1, <2>3
    <2> QED BY <1>1, <1>5, <1>14, <2>1, <2>2, <2>4, CongTrans
<1>16. x \in 0 .. q - 1 /\ Cong(q, x, ex) BY <1>1, <1>14, CongMod
<1> HIDE DEF x
<1>17. x \in Int BY <1>1, <1>16
<1>18. ey \in Int BY <1>2, <1>13, <1>17
<1>19. y \in 0 .. q - 1 /\ Cong(q, y, ey) BY <1>1, <1>18, CongMod
<1> HIDE DEF y
<1>20. y \in Int BY <1>1, <1>19
<1>21. D2 \in Int /\ D3 \in Int BY <1>5
<1>22. Cong(q, D2 * x, X)
    <2>1. D2 * ex = t * t - (x1 + x2) * D2 BY <1>2, <1>5, <1>13
    <2> DEFINE g == (x1 + x2) * D2
    <2>2. g \in Int /\ t * t \in Int /\ dy * dy \in Int /\ D2 * x \in Int /\ D2 * ex \in Int
        BY <1>2, <1>5, <1>14, <1>17, <1>21
    <2>3. X = dy * dy - g /\ D2 * ex = t * t - g BY <1>4, <2>1
    <2> HIDE DEF g, ex, t, D2
    <2>4. X \in Int BY <2>2, <2>3
    <2>5. Cong(q, t * t, dy * dy) BY <1>1, <1>5, <1>14, <1>15, CongMul
    <2>6. Cong(q, g, g) BY <1>1, <2>2, CongRefl
    <2>7. Cong(q, t * t - g, dy * dy - g) BY <1>1, <2>2, <2>5, <2>6, CongAdd
    <2>8. Cong(q, D2 * ex, X) BY <2>3, <2>7
    <2>9. Cong(q, D2 * x, D2 * ex) BY <1>1, <1>14, <1>16, <1>17, <1>21, CongScale
    <2> QED BY <1>1, <2>2, <2>4, <2>8, <2>9, CongTrans
<1>23. Cong(q, D3 * y, Y)
    <2> DEFINE e == D2 * x1 - D2 * x  f == D2 * x1 - X  g == y1 * D3
    <2>1. D3 * ey = t * e - g BY <1>2, <1>5, <1>13, <1>17
    <2>2. X \in Int BY <1>2, <1>4, <1>5
    <2>3. D2 * x1 \in Int /\ D2 * x \in Int /\ g \in Int /\ D3 * y \in Int /\ D3 * ey \in Int
        BY <1>2, <1>17, <1>18, <1>20, <1>21
    <2>4. Y = dy * f - g BY <1>4
    <2>5. Cong(q, D2 * x1, D2 * x1) BY <1>1, <2>3, CongRefl
    <2>6. Cong(q, e, f) BY <1>1, <1>22, <2>2, <2>3, <2>5, CongAdd
    <2>7. e \in Int /\ f \in Int
        <3> HIDE DEF D2
        <3> QED BY <2>2, <2>3
    <2> HIDE DEF e, f, g, ey, t, D3
    <2>8. t * e \in Int /\ dy * f \in Int BY <1>5, <1>14, <2>7
    <2>9. Cong(q, t * e, dy * f) BY <1>1, <1>5, <1>14, <1>15, <2>6, <2>7, CongMul
    <2>10. Cong(q, g, g) BY <1>1, <2>3, CongRefl
    <2>11. Cong(q, t * e - g, dy * f - g) BY <1>1, <2>3, <2>8, <2>9, <2>10, CongAdd
    <2>12. Cong(q, D3 * ey, Y) BY <2>1, <2>4, <2>11
    <2>13. Y \in Int BY <2>3, <2>4, <2>8
    <2>14. Cong(q, D3 * y, D3 * ey) BY <1>1, <1>18, <1>19, <1>20, <1>21, CongScale
    <2> QED BY <1>1, <2>3, <2>12, <2>13, <2>14, CongTrans
<1>24. x \in Field /\ y \in Field BY <1>16, <1>19 DEF Field, q
<1> HIDE DEF D2, D3
<1> QED BY <1>3, <1>5, <1>6, <1>22, <1>23, <1>24 DEF q, dx, x1, x2, D2, D3, X, Y

\* The coordinates of the projective sum are reduced, for any two pairs of words.
LEMMA ProjectiveInField ==
    ASSUME NEW p \in Int \X Int, NEW r \in Int \X Int
    PROVE  LET s == projectiveECAdd(p, r) IN
           s[1] \in Field /\ s[2] \in Field /\ s[3] \in Field
<1> DEFINE l  == <<addmod(r[2], FIELD_SIZE - p[2]), addmod(r[1], FIELD_SIZE - p[1])>>
           sx == projectiveSub(projectiveSub(projectiveMul(l, l), <<p[1], 1>>), <<r[1], 1>>)
           sy == projectiveSub(projectiveMul(projectiveSub(<<p[1], 1>>, sx), l), <<p[2], 1>>)
<1>1. sx[1] \in Field /\ sx[2] \in Field /\ sy[1] \in Field /\ sy[2] \in Field BY Numerators
<1>2. projectiveECAdd(p, r) =
        IF sx[2] # sy[2]
          THEN <<mulmod(sx[1], sy[2]), mulmod(sy[1], sx[2]), mulmod(sx[2], sy[2])>>
          ELSE <<sx[1], sy[1], sx[2]>>
    BY DEF projectiveECAdd
<1> HIDE DEF sx, sy
<1>3. sx[1] \in Int /\ sx[2] \in Int /\ sy[1] \in Int /\ sy[2] \in Int BY <1>1, InField
<1>4. /\ mulmod(sx[1], sy[2]) \in Field /\ mulmod(sy[1], sx[2]) \in Field
      /\ mulmod(sx[2], sy[2]) \in Field
    BY <1>3, Reduced
<1> QED BY <1>1, <1>2, <1>4

LEMMA AffineInField ==
    ASSUME NEW p \in Int \X Int, NEW r \in Int \X Int, NEW z \in Field
    PROVE  affineECAdd(p, r, z) \in Field \X Field
<1> DEFINE s == projectiveECAdd(p, r)
<1>1. s[1] \in Field /\ s[2] \in Field BY ProjectiveInField
<1>2. affineECAdd(p, r, z) = <<mulmod(s[1], z), mulmod(s[2], z)>> BY DEF affineECAdd
<1> HIDE DEF s
<1>3. s[1] \in Int /\ s[2] \in Int /\ z \in Int BY <1>1, InField
<1>4. mulmod(s[1], z) \in Field /\ mulmod(s[2], z) \in Field BY <1>3, Reduced
<1> QED BY <1>2, <1>4

\* The third coordinate is not zero, and it is the denominator of the sum,
\* whether or not the denominators of the two ordinates agreed.
LEMMA ProjectiveIs ==
    ASSUME NEW p \in Curve, NEW r \in Curve, p[1] # r[1]
    PROVE  LET s == projectiveECAdd(p, r)  t == Plus(p, r) IN
           /\ s[3] # 0
           /\ Cong(FIELD_SIZE, s[1], s[3] * t[1]) /\ Cong(FIELD_SIZE, s[2], s[3] * t[2])
<1> DEFINE l  == <<addmod(r[2], FIELD_SIZE - p[2]), addmod(r[1], FIELD_SIZE - p[1])>>
           sx == projectiveSub(projectiveSub(projectiveMul(l, l), <<p[1], 1>>), <<r[1], 1>>)
           sy == projectiveSub(projectiveMul(projectiveSub(<<p[1], 1>>, sx), l), <<p[2], 1>>)
           q == FIELD_SIZE  dx == r[1] - p[1]  D2 == dx * dx  D3 == D2 * dx
           X == SumX(p, r)  Y == SumY(p, r)  t == Plus(p, r)  x == t[1]  y == t[2]
           a == sx[1]  b == sx[2]  c == sy[1]  d == sy[2]  s == projectiveECAdd(p, r)
<1>1. q \in Nat \ {0} /\ q \in Nat /\ Prime(q) BY FieldIs
<1>2. p \in Int \X Int /\ r \in Int \X Int BY PointIs
<1>3. /\ a \in Field /\ b \in Field /\ c \in Field /\ d \in Field
      /\ Cong(q, a, X) /\ Cong(q, b, D2) /\ Cong(q, c, Y) /\ Cong(q, d, D3)
    BY <1>2, Numerators
<1>4. /\ x \in Field /\ y \in Field /\ dx \in Int /\ ~Cong(q, dx, 0)
      /\ Cong(q, D2 * x, X) /\ Cong(q, D3 * y, Y)
    BY SecantIs
<1>5. s = IF b # d THEN <<mulmod(a, d), mulmod(c, b), mulmod(b, d)>> ELSE <<a, c, b>>
    BY DEF projectiveECAdd
<1>6. X \in Int /\ Y \in Int
    <2>1. p[1] \in Int /\ p[2] \in Int /\ r[1] \in Int /\ r[2] \in Int BY PointIs
    <2>2. X \in Int BY <2>1 DEF SumX
    <2>3. (dx * dx) * p[1] \in Int /\ p[2] * ((dx * dx) * dx) \in Int BY <1>4, <2>1
    <2>4. r[2] - p[2] \in Int BY <2>1
    <2>5. Y = (r[2] - p[2]) * ((dx * dx) * p[1] - X) - p[2] * ((dx * dx) * dx) BY DEF SumY
    <2> QED BY <2>2, <2>3, <2>4, <2>5
<1> HIDE DEF q, dx, X, Y, x, y, a, b, c, d, s
<1>7. a \in Int /\ b \in Int /\ c \in Int /\ d \in Int /\ x \in Int /\ y \in Int
    BY <1>3, <1>4, InField
<1>8. D2 \in Int /\ D3 \in Int BY <1>4
<1>9. ~Cong(q, D2, 0) BY <1>1, <1>4, NoDivisors
<1>10. ~Cong(q, D3, 0)
    <2>1. Cong(q, D2 * dx, 0) => Cong(q, D2, 0) \/ Cong(q, dx, 0) BY <1>1, <1>4, <1>8, NoDivisors
    <2> QED BY <1>4, <1>9, <2>1
<1> HIDE DEF D2, D3
<1>11. D2 * x \in Int /\ D3 * y \in Int BY <1>7, <1>8
<1>12. Cong(q, X, D2 * x) /\ Cong(q, Y, D3 * y) BY <1>1, <1>4, <1>6, <1>11, CongSym
<1>13. Cong(q, a, D2 * x)  BY <1>1, <1>3, <1>6, <1>7, <1>11, <1>12, CongTrans
<1>14. Cong(q, c, D3 * y) BY <1>1, <1>3, <1>6, <1>7, <1>11, <1>12, CongTrans
<1>15. Cong(q, D2, b) /\ Cong(q, D3, d) BY <1>1, <1>3, <1>7, <1>8, CongSym
<1>16. ~Cong(q, b, 0)
    <2> SUFFICES ASSUME Cong(q, b, 0) PROVE FALSE OBVIOUS
    <2>1. Cong(q, D2, 0) BY <1>1, <1>7, <1>8, <1>15, CongTrans
    <2> QED BY <1>9, <2>1
<1>17. ~Cong(q, d, 0)
    <2> SUFFICES ASSUME Cong(q, d, 0) PROVE FALSE OBVIOUS
    <2>1. Cong(q, D3, 0) BY <1>1, <1>7, <1>8, <1>15, CongTrans
    <2> QED BY <1>10, <2>1
<1>18. b * x \in Int /\ d * y \in Int /\ b * d \in Int BY <1>7
<1>19. Cong(q, a, b * x)
    <2>1. Cong(q, D2 * x, b * x) BY <1>1, <1>7, <1>8, <1>15, CongScale
    <2> QED BY <1>1, <1>7, <1>11, <1>13, <1>18, <2>1, CongTrans
<1>20. Cong(q, c, d * y)
    <2>1. Cong(q, D3 * y, d * y) BY <1>1, <1>7, <1>8, <1>15, CongScale
    <2> QED BY <1>1, <1>7, <1>11, <1>14, <1>18, <2>1, CongTrans
<1>21. s[3] # 0 /\ Cong(q, s[1], s[3] * x) /\ Cong(q, s[2], s[3] * y)
    <2>1. CASE b = d
        <3>1. s[1] = a /\ s[2] = c /\ s[3] = b BY <1>5, <2>1
        <3>2. b # 0
            <4>1. Cong(q, 0, 0) BY <1>1, CongRefl
            <4> QED BY <1>16, <4>1
        <3>3. Cong(q, c, b * y) BY <1>20, <2>1
        <3> QED BY <1>19, <3>1, <3>2, <3>3
    <2>2. CASE b # d
        <3> DEFINE e == mulmod(a, d)  f == mulmod(c, b)  g == mulmod(b, d)
        <3>1. s[1] = e /\ s[2] = f /\ s[3] = g BY <1>5, <2>2
        <3>2. /\ e \in Field /\ Cong(q, e, a * d) /\ f \in Field /\ Cong(q, f, c * b)
              /\ g \in Field /\ Cong(q, g, b * d)
            BY <1>7, Reduced DEF q
        <3>3. e \in Int /\ f \in Int /\ g \in Int BY <3>2, InField
        <3> HIDE DEF e, f, g
        <3>4. /\ a * d \in Int /\ c * b \in Int /\ (b * x) * d \in Int /\ (d * y) * b \in Int
              /\ (b * d) * x \in Int /\ (b * d) * y \in Int /\ g * x \in Int /\ g * y \in Int
              /\ (b * x) * d = (b * d) * x /\ (d * y) * b = (b * d) * y
            BY <1>7, <1>18, <3>3
        <3>5. Cong(q, b * d, g) BY <1>1, <1>18, <3>2, <3>3, CongSym
        <3>6. Cong(q, (b * d) * x, g * x) /\ Cong(q, (b * d) * y, g * y)
            BY <1>1, <1>7, <1>18, <3>3, <3>5, CongScale
        <3>7. Cong(q, a * d, (b * x) * d) BY <1>1, <1>7, <1>18, <1>19, CongScale
        <3>8. Cong(q, c * b, (d * y) * b) BY <1>1, <1>7, <1>18, <1>20, CongScale
        <3>9. Cong(q, a * d, (b * d) * x) /\ Cong(q, c * b, (b * d) * y) BY <3>4, <3>7, <3>8
        <3>10. Cong(q, e, (b * d) * x) BY <1>1, <3>2, <3>3, <3>4, <3>9, CongTrans
        <3>11. Cong(q, f, (b * d) * y) BY <1>1, <3>2, <3>3, <3>4, <3>9, CongTrans
        <3>12. Cong(q, e, g * x) BY <1>1, <3>3, <3>4, <3>6, <3>10, CongTrans
        <3>13. Cong(q, f, g * y) BY <1>1, <3>3, <3>4, <3>6, <3>11, CongTrans
        <3>14. g # 0
            <4> SUFFICES ASSUME g = 0 PROVE FALSE OBVIOUS
            <4>1. Cong(q, b * d, 0) BY <3>5
            <4> QED BY <1>1, <1>7, <1>16, <1>17, <4>1, NoDivisors
        <3> QED BY <3>1, <3>12, <3>13, <3>14
    <2> QED BY <2>1, <2>2
<1> QED BY <1>21 DEF q, s, x, y

\* The inverse of the third coordinate gives the sum of the group.
LEMMA AffineIs ==
    ASSUME NEW p \in Curve, NEW r \in Curve, p[1] # r[1], NEW z \in Field,
           mulmod(projectiveECAdd(p, r)[3], z) = 1
    PROVE  affineECAdd(p, r, z) = Plus(p, r)
<1> DEFINE q == FIELD_SIZE  s == projectiveECAdd(p, r)  t == Plus(p, r)
           a == s[1]  b == s[2]  k == s[3]  x == t[1]  y == t[2]
<1>1. q \in Nat \ {0} /\ q \in Nat /\ 1 % q = 1 BY FieldIs
<1>2. p \in Int \X Int /\ r \in Int \X Int BY PointIs
<1>3. a \in Field /\ b \in Field /\ k \in Field BY <1>2, ProjectiveInField
<1>4. t = <<x, y>> /\ x \in Field /\ y \in Field BY SecantIs
<1>5. Cong(q, a, k * x) /\ Cong(q, b, k * y) BY ProjectiveIs
<1>6. mulmod(k, z) = 1 OBVIOUS
<1>7. affineECAdd(p, r, z) = <<mulmod(a, z), mulmod(b, z)>> BY DEF affineECAdd
<1> HIDE DEF a, b, k, x, y, t, s
<1>8. a \in Int /\ b \in Int /\ k \in Int /\ x \in Int /\ y \in Int /\ z \in Int
    BY <1>3, <1>4, InField
<1>9. k * z \in Int BY <1>8
<1>10. Cong(q, 1, k * z) BY <1>6, <1>8, Reduced
<1>11. Cong(q, k * z, 1) BY <1>1, <1>9, <1>10, CongSym
<1> HIDE DEF q
<1>12. ASSUME NEW u \in Int, NEW w \in Field, Cong(q, u, k * w) PROVE mulmod(u, z) = w
    <2> DEFINE m == mulmod(u, z)
    <2>1. m \in Field /\ Cong(q, m, u * z) BY <1>8, <1>12, Reduced DEF q
    <2>2. m \in Int /\ w \in Int BY <1>12, <2>1, InField
    <2> HIDE DEF m
    <2>3. /\ u * z \in Int /\ k * w \in Int /\ (k * w) * z \in Int /\ (k * z) * w \in Int
          /\ (k * w) * z = (k * z) * w
        BY <1>8, <1>9, <1>12, <2>2
    <2>4. Cong(q, u * z, (k * w) * z) BY <1>1, <1>8, <1>12, <2>3, CongScale
    <2>5. Cong(q, (k * z) * w, w) BY <1>1, <1>9, <1>11, <2>2, CongUnit
    <2>6. Cong(q, u * z, (k * z) * w) BY <2>3, <2>4
    <2>7. Cong(q, u * z, w) BY <1>1, <2>2, <2>3, <2>5, <2>6, CongTrans
    <2>8. Cong(q, m, w) BY <1>1, <2>1, <2>2, <2>3, <2>7, CongTrans
    <2>9. m \in 0 .. q - 1 /\ w \in 0 .. q - 1 BY <1>12, <2>1 DEF Field, q
    <2>10. m = w BY <1>1, <2>8, <2>9, CongSmall
    <2> QED BY <2>10 DEF m
<1>13. mulmod(a, z) = x BY <1>4, <1>5, <1>8, <1>12
<1>14. mulmod(b, z) = y BY <1>4, <1>5, <1>8, <1>12
<1> QED BY <1>4, <1>7, <1>13, <1>14 DEF t

-----------------------------------------------------------------------------
(* The checks of the contract, and the equations they stand for *)

LEMMA CombinationVerified ==
    ASSUME NEW p \in Curve, NEW c \in Int, NEW s \in Int, NEW u,
           verifyLinearCombinationWithGenerator(c, p, s, u)
    PROVE  u = Plus(Times(c, p), Times(s, Generator))
<1> DEFINE h == GROUP_ORDER - ((p[1] * s) % GROUP_ORDER)  d == (c * p[1]) % GROUP_ORDER
<1>1. u # Infinity /\ ecrecover(h, p[2] % 2, p[1], d) = u
    BY DEF verifyLinearCombinationWithGenerator
<1>2. p[1] \in 1 .. GROUP_ORDER - 1 /\ d \in 1 .. GROUP_ORDER - 1 BY <1>1, RecoverGuard
<1> QED BY <1>1, <1>2, Combination

LEMMA CombinationAccepted ==
    ASSUME NEW p \in Curve, NEW c \in Int, NEW s \in Int, Recoverable(p, c),
           NEW u, u = Plus(Times(c, p), Times(s, Generator)), u # Infinity
    PROVE  verifyLinearCombinationWithGenerator(c, p, s, u)
<1>1. p[1] \in 1 .. GROUP_ORDER - 1 /\ c % GROUP_ORDER # 0 BY DEF Recoverable
<1>2. (c * p[1]) % GROUP_ORDER \in 1 .. GROUP_ORDER - 1 BY <1>1, ScalarKept
<1> QED BY <1>1, <1>2, Combination DEF verifyLinearCombinationWithGenerator

LEMMA ProductVerified ==
    ASSUME NEW p \in Curve, NEW k \in Int, NEW w \in Curve, ecmulVerify(p, k, w)
    PROVE  w = Times(k, p)
<1> DEFINE d == (k * p[1]) % GROUP_ORDER
<1>1. w # Infinity BY PointIs
<1>2. ecrecover(0, p[2] % 2, p[1], d) = w BY DEF ecmulVerify
<1>3. p[1] \in 1 .. GROUP_ORDER - 1 /\ d \in 1 .. GROUP_ORDER - 1 BY <1>1, <1>2, RecoverGuard
<1> QED BY <1>2, <1>3, Product

LEMMA ProductAccepted ==
    ASSUME NEW p \in Curve, NEW k \in Int, Recoverable(p, k)
    PROVE  ecmulVerify(p, k, Times(k, p)) /\ Times(k, p) \in Curve
<1> DEFINE n == GROUP_ORDER  l == Logarithm[p]  t == Times(k, p)  m == Logarithm[t]
<1>1. p[1] \in 1 .. n - 1 /\ k % n # 0 BY DEF Recoverable
<1>2. (k * p[1]) % n \in 1 .. n - 1 BY <1>1, ScalarKept
<1>3. n \in Nat \ {0} /\ n \in Nat /\ Prime(n) /\ 0 % n = 0 BY OrderIs
<1>4. k # 0 BY <1>1, <1>3
<1>5. ecmulVerify(p, k, t) BY <1>1, <1>2, <1>4, Product DEF ecmulVerify
<1>6. p \in Points BY DEF Points
<1>7. t \in Points /\ Cong(n, m, k * l) BY <1>6, TimesIs
<1>8. l \in Int /\ m \in Int /\ ~Cong(n, l, 0) BY <1>6, <1>7, LogIs, NotInfinity
<1>9. ~Cong(n, k, 0)
    <2>1. 0 \in Int /\ k % n # 0 % n BY <1>1, <1>3
    <2> QED BY <1>3, <2>1, CongRemainder, Zenon
<1> HIDE DEF n, l, m
<1>10. ~Cong(n, m, 0)
    <2> SUFFICES ASSUME Cong(n, m, 0) PROVE FALSE OBVIOUS
    <2>1. k * l \in Int BY <1>8
    <2>2. Cong(n, k * l, m) BY <1>3, <1>7, <1>8, <2>1, CongSym
    <2>3. Cong(n, k * l, 0) BY <1>3, <1>8, <2>1, <2>2, CongTrans
    <2> QED BY <1>3, <1>8, <1>9, <2>3, NoDivisors
<1>11. t \in Curve BY <1>7, <1>10, NotInfinity DEF n, m
<1> QED BY <1>5, <1>11

-----------------------------------------------------------------------------
(* Types and the hash *)

Word == 0 .. FIELD_SIZE
Pairs == (Word \X Word) \cup {Infinity}
Reduceds == (Field \X Field) \cup {Infinity}
ProofOf == [pk : Pairs, c : Scalars \cup {0}, s : Scalars \cup {0}, uWitness : Pairs,
            gamma : Pairs, cGammaWitness : Pairs, sHashWitness : Pairs, zInv : Field]
Stages == {"key", "hash", "gamma", "sum", "challenge", "accepted",
           "badKey", "badGamma", "badSum", "badChallenge"}

LEMMA TypeIs ==
    VRFTypeOK <=> pc \in Stages /\ proof \in ProofOf /\ hash \in Reduceds /\ v \in Reduceds
BY DEF VRFTypeOK, Stages, ProofOf, Reduceds, Pairs, Word

LEMMA ChoicesIs ==
    /\ Curve \subseteq Word \X Word /\ OffCurve \subseteq Word \X Word
    /\ {Multiple[k] : k \in KeyScalars} \subseteq Curve
    /\ {Multiple[k] : k \in GammaScalars} \subseteq Curve
    /\ Word \X Word \subseteq Int \X Int
<1>1. \A k \in KeyScalars \cup GammaScalars : Multiple[k] \in Curve
    BY ScalarAssumption, MultipleIs
<1>2. \A p \in Curve : p \in Word \X Word BY PointIs DEF Word
<1>3. Word \subseteq Int BY FieldIs DEF Word
<1> QED BY <1>1, <1>2, <1>3, OffCurveIs DEF Word

LEMMA ScalarsIs ==
    ASSUME NEW c \in Scalars \cup {0}
    PROVE  c \in Int
BY ScalarAssumption

\* linearCombination goes on only with a witness on the curve.
WitnessInv == pc = "sum" => proof.cGammaWitness \in Curve
TypeInv == VRFTypeOK /\ HashIsPoint /\ WitnessInv

LEMMA InitTypes ==
    ASSUME Init
    PROVE  TypeInv
<1>1. Infinity \in Pairs /\ Infinity \in Reduceds /\ 0 \in Field BY FieldIs DEF Pairs, Reduceds
<1>2. VRFTypeOK BY <1>1, TypeIs DEF Init, Stages, ProofOf
<1> QED BY <1>2 DEF Init, TypeInv, HashIsPoint, WitnessInv

LEMMA KeyTypes ==
    ASSUME TypeInv, VerifyKey
    PROVE  TypeInv'
<1>1. PICK pk \in {Multiple[k] : k \in KeyScalars} \cup OffCurve, c \in Scalars, s \in Scalars,
           u \in Curve \cup {Infinity} :
        /\ proof' = [proof EXCEPT !.pk = pk, !.c = c, !.s = s, !.uWitness = u]
        /\ pc' \in {"hash", "badKey"}
    BY DEF VerifyKey, Require
<1>2. proof \in ProofOf /\ hash \in Reduceds /\ v \in Reduceds BY TypeIs DEF TypeInv
<1>3. pk \in Pairs /\ u \in Pairs BY <1>1, ChoicesIs DEF Pairs
<1>4. proof' \in ProofOf BY <1>1, <1>2, <1>3 DEF ProofOf
<1>5. hash' = hash /\ v' = v BY DEF VerifyKey
<1>6. VRFTypeOK' BY <1>1, <1>2, <1>4, <1>5 DEF VRFTypeOK, Stages, ProofOf, Reduceds, Pairs, Word
<1>7. HashIsPoint' /\ WitnessInv' BY <1>1 DEF HashIsPoint, WitnessInv
<1> QED BY <1>6, <1>7 DEF TypeInv

LEMMA HashTypes ==
    ASSUME TypeInv, HashToCurve
    PROVE  TypeInv'
<1>1. PICK x \in Field : /\ hash' = newCandidateSecp256k1Point(x)
                         /\ pc' = IF isOnCurve(hash') THEN "gamma" ELSE "hash"
    BY DEF HashToCurve
<1>2. hash' \in Field \X Field /\ hash'[2] % 2 = 0 BY <1>1, CandidateIs
<1>3. proof' = proof /\ v' = v BY DEF HashToCurve
<1>4. proof \in ProofOf /\ v \in Reduceds BY TypeIs DEF TypeInv
<1>5. VRFTypeOK'
    BY <1>1, <1>2, <1>3, <1>4 DEF VRFTypeOK, Stages, ProofOf, Reduceds, Pairs, Word
<1>6. hash' \in (0 .. FIELD_SIZE) \X (0 .. FIELD_SIZE)
    <2>1. Field \subseteq 0 .. FIELD_SIZE BY InField
    <2> QED BY <1>2, <2>1
<1>7. isOnCurve(hash') <=> hash' \in Curve BY <1>6, OnCurve
<1>8. HashIsPoint' /\ WitnessInv' BY <1>1, <1>2, <1>7 DEF HashIsPoint, WitnessInv
<1> QED BY <1>5, <1>8 DEF TypeInv

LEMMA GammaTypes ==
    ASSUME TypeInv, VerifyGamma
    PROVE  TypeInv'
<1>1. PICK gamma \in {Multiple[k] : k \in GammaScalars} \cup OffCurve, w \in Curve \cup OffCurve :
        /\ proof' = [proof EXCEPT !.gamma = gamma, !.cGammaWitness = w]
        /\ pc' \in {"sum", "badGamma"}
        /\ pc' = "sum" => isOnCurve(w)
    BY DEF VerifyGamma, Require
<1>2. proof \in ProofOf /\ hash \in Reduceds /\ v \in Reduceds BY TypeIs DEF TypeInv
<1>3. gamma \in Pairs /\ w \in Word \X Word /\ w \in Pairs BY <1>1, ChoicesIs DEF Pairs
<1>4. proof' \in ProofOf /\ proof'.cGammaWitness = w BY <1>1, <1>2, <1>3 DEF ProofOf
<1>5. pc = "gamma" /\ hash' = hash /\ v' = v BY DEF VerifyGamma
<1>6. VRFTypeOK' BY <1>1, <1>2, <1>4, <1>5 DEF VRFTypeOK, Stages, ProofOf, Reduceds, Pairs, Word
<1>7. HashIsPoint'
    <2>1. hash \in Curve /\ hash[2] % 2 = 0 BY <1>5 DEF TypeInv, HashIsPoint
    <2> QED BY <1>5, <2>1 DEF HashIsPoint
<1>8. isOnCurve(w) <=> w \in Curve BY <1>3, OnCurve DEF Word
<1>9. WitnessInv' BY <1>1, <1>4, <1>8 DEF WitnessInv
<1> QED BY <1>6, <1>7, <1>9 DEF TypeInv

LEMMA SumTypes ==
    ASSUME TypeInv, VerifySum
    PROVE  TypeInv'
<1>1. PICK w \in Curve \cup OffCurve, z \in Field :
        /\ proof' = [proof EXCEPT !.sHashWitness = w, !.zInv = z]
        /\ pc' \in {"challenge", "badSum"}
        /\ v' = affineECAdd(proof.cGammaWitness, w, z)
    BY FieldIs DEF VerifySum, Require
<1>2. pc = "sum" /\ hash' = hash BY DEF VerifySum
<1>3. proof \in ProofOf /\ hash \in Reduceds BY TypeIs DEF TypeInv
<1>4. w \in Word \X Word /\ w \in Pairs /\ w \in Int \X Int BY <1>1, ChoicesIs DEF Pairs
<1>5. proof' \in ProofOf BY <1>1, <1>3, <1>4 DEF ProofOf
<1>6. proof.cGammaWitness \in Curve BY <1>2 DEF TypeInv, WitnessInv
<1>7. proof.cGammaWitness \in Int \X Int BY <1>6, ChoicesIs
<1>8. v' \in Field \X Field BY <1>1, <1>4, <1>7, AffineInField
<1>9. VRFTypeOK'
    BY <1>1, <1>2, <1>3, <1>5, <1>8 DEF VRFTypeOK, Stages, ProofOf, Reduceds, Pairs, Word
<1>10. HashIsPoint' BY <1>2 DEF TypeInv, HashIsPoint
<1>11. WitnessInv' BY <1>1 DEF WitnessInv
<1> QED BY <1>9, <1>10, <1>11 DEF TypeInv

LEMMA ChallengeTypes ==
    ASSUME TypeInv, VerifyChallenge
    PROVE  TypeInv'
<1>1. pc = "challenge" /\ pc' \in {"accepted", "badChallenge"}
      /\ proof' = proof /\ hash' = hash /\ v' = v
    BY DEF VerifyChallenge, Require
<1>2. VRFTypeOK' BY <1>1 DEF TypeInv, VRFTypeOK
<1> QED BY <1>1, <1>2 DEF TypeInv, HashIsPoint, WitnessInv

LEMMA TypesInductive == Spec => []TypeInv
<1>1. Init => TypeInv BY InitTypes
<1>2. ASSUME TypeInv, [Next]_vars PROVE TypeInv'
    <2>1. CASE VerifyKey BY <1>2, <2>1, KeyTypes
    <2>2. CASE HashToCurve BY <1>2, <2>2, HashTypes
    <2>3. CASE VerifyGamma BY <1>2, <2>3, GammaTypes
    <2>4. CASE VerifySum BY <1>2, <2>4, SumTypes
    <2>5. CASE VerifyChallenge BY <1>2, <2>5, ChallengeTypes
    <2>6. CASE UNCHANGED vars
        BY <1>2, <2>6 DEF vars, TypeInv, VRFTypeOK, HashIsPoint, WitnessInv
    <2> QED BY <1>2, <2>1, <2>2, <2>3, <2>4, <2>5, <2>6 DEF Next
<1> QED BY <1>1, <1>2, PTL DEF Spec

\* The parts of a proof and what is computed from them stay words of the field
\* and pairs of such, whatever the prover sends.
THEOREM VRFTypesHold == Spec => []VRFTypeOK
<1>1. TypeInv => VRFTypeOK BY DEF TypeInv
<1> QED BY <1>1, TypesInductive, PTL

\* hashToCurve ends only on a point of the curve with an even ordinate,
\* whichever power of the square squareRoot returns.
THEOREM HashAlwaysPoint == Spec => []HashIsPoint
<1>1. TypeInv => HashIsPoint BY DEF TypeInv
<1> QED BY <1>1, TypesInductive, PTL

-----------------------------------------------------------------------------
(* The equations of the scheme *)

KeyEquation == proof.uWitness = Plus(Times(proof.c, proof.pk), Times(proof.s, Generator))
SumEquation == v = Plus(Times(proof.c, proof.gamma), Times(proof.s, hash))

\* Between the two witnesses of linearCombination the first equation is all
\* that is known of the sum.
ProductInv == pc = "sum" => proof.cGammaWitness = Times(proof.c, proof.gamma)
EquationInv == ProductInv /\ EquationsHold

LEMMA KeyEquations ==
    ASSUME TypeInv, VerifyKey
    PROVE  EquationInv'
<1>1. PICK pk \in {Multiple[k] : k \in KeyScalars} \cup OffCurve, c \in Scalars, s \in Scalars,
           u \in Curve \cup {Infinity} :
        /\ proof' = [proof EXCEPT !.pk = pk, !.c = c, !.s = s, !.uWitness = u]
        /\ pc' \in {"hash", "badKey"}
        /\ pc' = "hash" => isOnCurve(pk) /\ verifyLinearCombinationWithGenerator(c, pk, s, u)
    BY DEF VerifyKey, Require
<1>2. proof \in ProofOf BY TypeIs DEF TypeInv
<1>3. proof'.pk = pk /\ proof'.c = c /\ proof'.s = s /\ proof'.uWitness = u
    BY <1>1, <1>2 DEF ProofOf
<1>4. pk \in Word \X Word /\ c \in Int /\ s \in Int BY <1>1, ChoicesIs, ScalarsIs
<1>5. pc' = "hash" => u = Plus(Times(c, pk), Times(s, Generator))
    <2>1. isOnCurve(pk) => pk \in Curve BY <1>4, OnCurve DEF Word
    <2> QED BY <1>1, <1>4, <2>1, CombinationVerified
<1>6. EquationsHold'
    BY <1>1, <1>3, <1>5 DEF EquationsHold
<1> QED BY <1>1, <1>6 DEF EquationInv, ProductInv

LEMMA HashEquations ==
    ASSUME EquationInv, HashToCurve
    PROVE  EquationInv'
<1>1. pc = "hash" /\ pc' \in {"hash", "gamma"} /\ proof' = proof BY DEF HashToCurve
<1>2. KeyEquation BY <1>1 DEF EquationInv, EquationsHold, KeyEquation
<1>3. EquationsHold' BY <1>1, <1>2 DEF EquationsHold, KeyEquation
<1> QED BY <1>1, <1>3 DEF EquationInv, ProductInv

LEMMA GammaEquations ==
    ASSUME TypeInv, EquationInv, VerifyGamma
    PROVE  EquationInv'
<1>1. PICK gamma \in {Multiple[k] : k \in GammaScalars} \cup OffCurve, w \in Curve \cup OffCurve :
        /\ proof' = [proof EXCEPT !.gamma = gamma, !.cGammaWitness = w]
        /\ pc' \in {"sum", "badGamma"}
        /\ pc' = "sum" => isOnCurve(gamma) /\ isOnCurve(w) /\ ecmulVerify(gamma, proof.c, w)
    BY DEF VerifyGamma, Require
<1>2. proof \in ProofOf BY TypeIs DEF TypeInv
<1>3. /\ proof'.gamma = gamma /\ proof'.cGammaWitness = w /\ proof'.c = proof.c
      /\ proof'.pk = proof.pk /\ proof'.s = proof.s /\ proof'.uWitness = proof.uWitness
    BY <1>1, <1>2 DEF ProofOf
<1>4. proof.c \in Int BY <1>2, ScalarsIs DEF ProofOf
<1>5. gamma \in Word \X Word /\ w \in Word \X Word BY <1>1, ChoicesIs
<1>6. pc' = "sum" => w = Times(proof.c, gamma)
    <2>1. isOnCurve(gamma) => gamma \in Curve BY <1>5, OnCurve DEF Word
    <2>2. isOnCurve(w) => w \in Curve BY <1>5, OnCurve DEF Word
    <2> QED BY <1>1, <1>4, <2>1, <2>2, ProductVerified
<1>7. ProductInv' BY <1>3, <1>6 DEF ProductInv
<1>8. pc = "gamma" BY DEF VerifyGamma
<1>9. KeyEquation BY <1>8 DEF EquationInv, EquationsHold, KeyEquation
<1>10. EquationsHold' BY <1>1, <1>3, <1>9 DEF EquationsHold, KeyEquation
<1> QED BY <1>7, <1>10 DEF EquationInv

LEMMA SumEquations ==
    ASSUME TypeInv, EquationInv, VerifySum
    PROVE  EquationInv'
<1> DEFINE a == proof.cGammaWitness
<1>1. PICK w \in Curve \cup OffCurve, z \in Field :
        /\ proof' = [proof EXCEPT !.sHashWitness = w, !.zInv = z]
        /\ pc' \in {"challenge", "badSum"}
        /\ pc' = "challenge" => /\ isOnCurve(w) /\ a[1] % FIELD_SIZE # w[1] % FIELD_SIZE
                                /\ ecmulVerify(hash, proof.s, w)
                                /\ mulmod(projectiveECAdd(a, w)[3], z) = 1
        /\ v' = affineECAdd(a, w, z)
    BY FieldIs DEF VerifySum, Require
<1>2. proof \in ProofOf BY TypeIs DEF TypeInv
<1>3. /\ proof'.gamma = proof.gamma /\ proof'.c = proof.c
      /\ proof'.pk = proof.pk /\ proof'.s = proof.s /\ proof'.uWitness = proof.uWitness
    BY <1>1, <1>2 DEF ProofOf
<1>4. pc = "sum" /\ hash' = hash BY DEF VerifySum
<1>5. a \in Curve /\ a = Times(proof.c, proof.gamma)
    BY <1>4 DEF TypeInv, WitnessInv, EquationInv, ProductInv
<1>6. hash \in Curve BY <1>4 DEF TypeInv, HashIsPoint
<1>7. w \in Word \X Word BY <1>1, ChoicesIs
<1>8. proof.s \in Int BY <1>2, ScalarsIs DEF ProofOf
<1>9. pc' = "challenge" => v' = Plus(Times(proof.c, proof.gamma), Times(proof.s, hash))
    <2> SUFFICES ASSUME pc' = "challenge" PROVE v' = Plus(Times(proof.c, proof.gamma), Times(proof.s, hash))
        OBVIOUS
    <2>1. w \in Curve BY <1>1, <1>7, OnCurve DEF Word
    <2>2. w = Times(proof.s, hash) BY <1>1, <1>6, <1>8, <2>1, ProductVerified
    <2>3. a[1] # w[1] BY <1>1
    <2>4. v' = Plus(a, w) BY <1>1, <1>5, <2>1, <2>3, AffineIs
    <2> QED BY <1>5, <2>2, <2>4
<1>10. KeyEquation BY <1>4 DEF EquationInv, EquationsHold, KeyEquation
<1>11. EquationsHold' BY <1>1, <1>3, <1>4, <1>9, <1>10 DEF EquationsHold, KeyEquation
<1>12. ProductInv' BY <1>1 DEF ProductInv
<1> QED BY <1>11, <1>12 DEF EquationInv

LEMMA ChallengeEquations ==
    ASSUME EquationInv, VerifyChallenge
    PROVE  EquationInv'
<1>1. pc = "challenge" /\ pc' \in {"accepted", "badChallenge"}
      /\ proof' = proof /\ hash' = hash /\ v' = v
    BY DEF VerifyChallenge, Require
<1>2. KeyEquation /\ SumEquation
    BY <1>1 DEF EquationInv, EquationsHold, KeyEquation, SumEquation
<1>3. EquationsHold' BY <1>1, <1>2 DEF EquationsHold, KeyEquation, SumEquation
<1> QED BY <1>1, <1>3 DEF EquationInv, ProductInv

\* A proof the contract lets pass satisfies the equations of the scheme in the
\* group, over every curve: what ecrecover returns is c*pk + s*g, and the sum
\* that linearCombination returns to be hashed is c*gamma + s*hash.
THEOREM EquationsAlwaysHold == Spec => []EquationsHold
<1>1. Init => EquationInv BY DEF Init, EquationInv, ProductInv, EquationsHold
<1>2. ASSUME TypeInv, EquationInv, [Next]_vars PROVE EquationInv'
    <2>1. CASE VerifyKey BY <1>2, <2>1, KeyEquations
    <2>2. CASE HashToCurve BY <1>2, <2>2, HashEquations
    <2>3. CASE VerifyGamma BY <1>2, <2>3, GammaEquations
    <2>4. CASE VerifySum BY <1>2, <2>4, SumEquations
    <2>5. CASE VerifyChallenge BY <1>2, <2>5, ChallengeEquations
    <2>6. CASE UNCHANGED vars
        BY <1>2, <2>6 DEF vars, EquationInv, ProductInv, EquationsHold
    <2> QED BY <1>2, <2>1, <2>2, <2>3, <2>4, <2>5, <2>6 DEF Next
<1>3. EquationInv => EquationsHold BY DEF EquationInv
<1> QED BY <1>1, <1>2, <1>3, TypesInductive, PTL DEF Spec

-----------------------------------------------------------------------------
(* The honest prover *)

LEMMA KeyHonest ==
    ASSUME TypeInv, VerifyKey
    PROVE  HonestAccepted'
<1>1. PICK pk \in {Multiple[k] : k \in KeyScalars} \cup OffCurve, c \in Scalars, s \in Scalars,
           u \in Curve \cup {Infinity} :
        /\ proof' = [proof EXCEPT !.pk = pk, !.c = c, !.s = s, !.uWitness = u]
        /\ pc' = IF /\ isOnCurve(pk)
                    /\ verifyLinearCombinationWithGenerator(c, pk, s, u)
                   THEN "hash" ELSE "badKey"
    BY DEF VerifyKey, Require
<1>2. proof \in ProofOf BY TypeIs DEF TypeInv
<1>3. proof'.pk = pk /\ proof'.c = c /\ proof'.s = s /\ proof'.uWitness = u
    BY <1>1, <1>2 DEF ProofOf
<1>4. pk \in Word \X Word /\ c \in Int /\ s \in Int BY <1>1, ChoicesIs, ScalarsIs
<1>5. ASSUME pk \in Curve, u = Plus(Times(c, pk), Times(s, Generator)), u # Infinity,
             Recoverable(pk, c)
      PROVE  pc' # "badKey"
    <2>1. isOnCurve(pk) BY <1>4, <1>5, OnCurve DEF Word
    <2>2. verifyLinearCombinationWithGenerator(c, pk, s, u) BY <1>4, <1>5, CombinationAccepted
    <2> QED BY <1>1, <2>1, <2>2
<1>6. pc' \in {"hash", "badKey"} BY <1>1
<1> QED BY <1>3, <1>5, <1>6 DEF HonestAccepted, Recoverable

LEMMA GammaHonest ==
    ASSUME TypeInv, VerifyGamma
    PROVE  HonestAccepted'
<1>1. PICK gamma \in {Multiple[k] : k \in GammaScalars} \cup OffCurve, w \in Curve \cup OffCurve :
        /\ proof' = [proof EXCEPT !.gamma = gamma, !.cGammaWitness = w]
        /\ pc' = IF /\ isOnCurve(gamma) /\ isOnCurve(w)
                    /\ ecmulVerify(gamma, proof.c, w) THEN "sum" ELSE "badGamma"
    BY DEF VerifyGamma, Require
<1>2. proof \in ProofOf BY TypeIs DEF TypeInv
<1>3. proof'.gamma = gamma /\ proof'.cGammaWitness = w /\ proof'.c = proof.c
    BY <1>1, <1>2 DEF ProofOf
<1>4. proof.c \in Int BY <1>2, ScalarsIs DEF ProofOf
<1>5. gamma \in Word \X Word /\ w \in Word \X Word BY <1>1, ChoicesIs
<1>6. ASSUME gamma \in Curve, w = Times(proof.c, gamma), Recoverable(gamma, proof.c)
      PROVE  pc' # "badGamma"
    <2>1. isOnCurve(gamma) BY <1>5, <1>6, OnCurve DEF Word
    <2>2. ecmulVerify(gamma, proof.c, w) /\ w \in Curve BY <1>4, <1>6, ProductAccepted
    <2>3. isOnCurve(w) BY <1>5, <2>2, OnCurve DEF Word
    <2> QED BY <1>1, <2>1, <2>2, <2>3
<1>7. pc' \in {"sum", "badGamma"} BY <1>1
<1> QED BY <1>3, <1>6, <1>7 DEF HonestAccepted, Recoverable

LEMMA SumHonest ==
    ASSUME TypeInv, VerifySum
    PROVE  HonestAccepted'
<1> DEFINE a == proof.cGammaWitness
<1>1. PICK w \in Curve \cup OffCurve, z \in Field :
        /\ z = 0 \/ mulmod(projectiveECAdd(a, w)[3], z) = 1
        /\ proof' = [proof EXCEPT !.sHashWitness = w, !.zInv = z]
        /\ pc' = IF /\ isOnCurve(w) /\ a[1] % FIELD_SIZE # w[1] % FIELD_SIZE
                    /\ ecmulVerify(hash, proof.s, w)
                    /\ mulmod(projectiveECAdd(a, w)[3], z) = 1 THEN "challenge" ELSE "badSum"
    BY FieldIs DEF VerifySum, Require
<1>2. proof \in ProofOf BY TypeIs DEF TypeInv
<1>3. /\ proof'.sHashWitness = w /\ proof'.zInv = z /\ proof'.s = proof.s
      /\ proof'.cGammaWitness = a
    BY <1>1, <1>2 DEF ProofOf
<1>4. pc = "sum" /\ hash' = hash BY DEF VerifySum
<1>5. a \in Curve /\ hash \in Curve BY <1>4 DEF TypeInv, WitnessInv, HashIsPoint
<1>6. w \in Word \X Word BY <1>1, ChoicesIs
<1>7. proof.s \in Int BY <1>2, ScalarsIs DEF ProofOf
<1>8. ASSUME w = Times(proof.s, hash), Recoverable(hash, proof.s), a[1] # w[1], pc' = "badSum"
      PROVE  z = 0 /\ projectiveECAdd(a, w)[3] # 0
    <2>1. ecmulVerify(hash, proof.s, w) /\ w \in Curve BY <1>5, <1>7, <1>8, ProductAccepted
    <2>2. isOnCurve(w) BY <1>6, <2>1, OnCurve DEF Word
    <2>3. a[1] % FIELD_SIZE # w[1] % FIELD_SIZE
        <3> DEFINE x == a[1]  y == w[1]
        <3>1. x \in 0 .. FIELD_SIZE - 1 /\ y \in 0 .. FIELD_SIZE - 1 /\ x \in Int /\ y \in Int
            BY <1>5, <2>1, PointIs DEF Field
        <3>2. x # y BY <1>8
        <3> HIDE DEF x, y
        <3>3. FIELD_SIZE \in Nat \ {0} BY FieldIs
        <3>4. ~Cong(FIELD_SIZE, x, y) BY <3>1, <3>2, <3>3, CongSmall
        <3>5. x % FIELD_SIZE # y % FIELD_SIZE BY <3>1, <3>3, <3>4, CongRemainder
        <3> QED BY <3>5 DEF x, y
    <2>4. projectiveECAdd(a, w)[3] # 0 BY <1>5, <1>8, <2>1, ProjectiveIs
    <2> QED BY <1>1, <1>8, <2>1, <2>2, <2>3, <2>4
<1>9. pc' \in {"challenge", "badSum"} BY <1>1
<1> QED BY <1>3, <1>4, <1>8, <1>9 DEF HonestAccepted, Recoverable

\* Up to the challenge, a prover that follows the scheme is refused only at boundary
\* values: at an abscissa or a scalar that ecrecover does not take, at an infinite
\* combination, and at two witnesses with one abscissa, which linearCombination's
\* comment calls impossible.  Everywhere else the third coordinate is not zero, so
\* that the inverse asked for exists.
THEOREM HonestAlwaysAccepted == Spec => []HonestAccepted
<1>1. Init => HonestAccepted BY DEF Init, HonestAccepted
<1>2. ASSUME TypeInv, HonestAccepted, [Next]_vars PROVE HonestAccepted'
    <2>1. CASE VerifyKey BY <1>2, <2>1, KeyHonest
    <2>2. CASE HashToCurve
        <3>1. pc' \in {"hash", "gamma"} BY <2>2 DEF HashToCurve
        <3> QED BY <3>1 DEF HonestAccepted
    <2>3. CASE VerifyGamma BY <1>2, <2>3, GammaHonest
    <2>4. CASE VerifySum BY <1>2, <2>4, SumHonest
    <2>5. CASE VerifyChallenge
        <3>1. pc' \in {"accepted", "badChallenge"} BY <2>5 DEF VerifyChallenge, Require
        <3> QED BY <3>1 DEF HonestAccepted
    <2>6. CASE UNCHANGED vars BY <1>2, <2>6 DEF vars, HonestAccepted
    <2> QED BY <1>2, <2>1, <2>2, <2>3, <2>4, <2>5, <2>6 DEF Next
<1> QED BY <1>1, <1>2, TypesInductive, PTL DEF Spec

=============================================================================
