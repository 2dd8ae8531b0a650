--------------------------------- MODULE VRF ---------------------------------
(***************************************************************************)
(* How the coordinator verifies a proof: how-to/2.deploy-vrf/vrf/contracts/*)
(* VRF.sol, over a small field.  The contract's arithmetic (square roots,  *)
(* projective addition, scalar products by way of ecrecover) is translated *)
(* and compared with the group law of the curve.                           *)
(*                                                                         *)
(* A part of the proof is chosen when the contract first looks at it.  A   *)
(* hash is any word: keccak256 is external.  The address of a point is the *)
(* point itself, and the zero address is the point at infinity.            *)
(***************************************************************************)
EXTENDS Integers, Sequences, FiniteSets

CONSTANTS
    FIELD_SIZE,     \* a prime q, q % 4 = 3
    GROUP_ORDER,    \* the prime number of points, infinity included
    Generator,      \* g
    Scalars,        \* words that proofs have as c and s
    KeyScalars,     \* secret keys
    GammaScalars    \* gamma is this multiple of g

Field == 0 .. FIELD_SIZE - 1
Infinity == <<>>

mulmod(a, b) == (a * b) % FIELD_SIZE
addmod(a, b) == (a + b) % FIELD_SIZE

-----------------------------------------------------------------------------
(* The curve: y^2 = x^3 + 7 *)

ySquared(x) == addmod(mulmod(x, mulmod(x, x)), 7)

isOnCurve(p) ==
    /\ p[1] < FIELD_SIZE /\ p[2] < FIELD_SIZE
    /\ ySquared(p[1]) = mulmod(p[2], p[2])

Curve == {p \in Field \X Field : mulmod(p[2], p[2]) = addmod(p[1] * p[1] * p[1], 7)}

Inverse(a, m) == CHOOSE b \in 1 .. m - 1 : (a * b) % m = 1

\* The group law, by the textbook.
Plus(p, q) ==
    IF p = Infinity THEN q
    ELSE IF q = Infinity THEN p
    ELSE IF p[1] = q[1] /\ addmod(p[2], q[2]) = 0 THEN Infinity
    ELSE LET slope == IF p = q
                        THEN mulmod(3 * p[1] * p[1], Inverse(addmod(p[2], p[2]), FIELD_SIZE))
                        ELSE mulmod(q[2] - p[2], Inverse((q[1] - p[1]) % FIELD_SIZE, FIELD_SIZE))
             x == (slope * slope - p[1] - q[1]) % FIELD_SIZE
         IN  <<x, (slope * (p[1] - x) - p[2]) % FIELD_SIZE>>

\* k * g, and the k of a point.
Multiple ==
    LET add[k \in 0 .. GROUP_ORDER - 1] ==
          IF k = 0 THEN Infinity ELSE Plus(add[k - 1], Generator)
    IN  [k \in 0 .. GROUP_ORDER - 1 |-> add[k]]
Logarithm ==
    [p \in Curve \cup {Infinity} |-> CHOOSE k \in 0 .. GROUP_ORDER - 1 : Multiple[k] = p]
Times(k, p) == Multiple[(k * Logarithm[p]) % GROUP_ORDER]

ASSUME ScalarAssumption ==
    /\ FIELD_SIZE \in Nat /\ FIELD_SIZE % 4 = 3 /\ GROUP_ORDER \in Nat
    /\ KeyScalars \cup GammaScalars \subseteq 1 .. GROUP_ORDER - 1
    /\ Scalars \subseteq Nat

\* Both are prime: what is not zero has an inverse.
ASSUME PrimeAssumption ==
    \A m \in {FIELD_SIZE, GROUP_ORDER} :
      \A a \in 1 .. m - 1 : \E b \in 1 .. m - 1 : (a * b) % m = 1

\* The points are the multiples of the generator, and add as their scalars do.
ASSUME CurveAssumption ==
    LET Residue == 0 .. GROUP_ORDER - 1 IN
    /\ Generator \in Curve
    /\ {Multiple[i] : i \in Residue} = Curve \cup {Infinity}
    /\ \A i, j \in Residue : Multiple[i] = Multiple[j] => i = j
    /\ \A i, j \in Residue : Plus(Multiple[i], Multiple[j]) = Multiple[(i + j) % GROUP_ORDER]

-----------------------------------------------------------------------------
(* Points from hashes *)

\* The precompile at address 5.
bigModExp(base, exponent) ==
    LET power[e \in 0 .. exponent] == IF e = 0 THEN 1 ELSE mulmod(power[e - 1], base)
    IN  power[exponent]

SQRT_POWER == (FIELD_SIZE + 1) \div 4
squareRoot(x) == bigModExp(x, SQRT_POWER)

\* Mutant: the root is taken as it comes.
newCandidateAnyRoot(x) == <<x, squareRoot(ySquared(x))>>

\* x is what fieldHash returns: a hash beyond the field is hashed again.
newCandidateSecp256k1Point(x) ==
    LET y == squareRoot(ySquared(x))
    IN  <<x, IF y % 2 = 1 THEN FIELD_SIZE - y ELSE y>>

-----------------------------------------------------------------------------
(* Products, by way of ecrecover *)

\* r^-1 * (s * R - h * g), R the point with ordinate r and parity v.
ecrecover(h, v, r, s) ==
    LET R == {p \in Curve : p[1] = r /\ p[2] % 2 = v}
    IN  IF r \notin 1 .. GROUP_ORDER - 1 \/ s \notin 1 .. GROUP_ORDER - 1 \/ R = {}
          THEN Infinity
          ELSE LET p == CHOOSE p \in R : TRUE
               IN  Times(Inverse(r, GROUP_ORDER), Plus(Times(s, p), Times(-h, Generator)))

\* Mutant: the parity of the multiplicand is not looked at.
ecmulVerifyEven(multiplicand, scalar, product) ==
    /\ scalar # 0
    /\ ecrecover(0, 0, multiplicand[1], (scalar * multiplicand[1]) % GROUP_ORDER) = product

ecmulVerify(multiplicand, scalar, product) ==
    /\ scalar # 0
    /\ ecrecover(0, multiplicand[2] % 2, multiplicand[1],
                 (scalar * multiplicand[1]) % GROUP_ORDER) = product

verifyLinearCombinationWithGenerator(c, p, s, lcWitness) ==
    /\ lcWitness # Infinity
    /\ ecrecover(GROUP_ORDER - ((p[1] * s) % GROUP_ORDER), p[2] % 2, p[1],
                 (c * p[1]) % GROUP_ORDER) = lcWitness

-----------------------------------------------------------------------------
(* Sums, in projective coordinates *)

projectiveSub(a, b) ==
    <<addmod(mulmod(b[2], a[1]), mulmod(FIELD_SIZE - b[1], a[2])), mulmod(a[2], b[2])>>

projectiveMul(a, b) == <<mulmod(a[1], b[1]), mulmod(a[2], b[2])>>

\* Mutant: the coordinates are not brought over a common denominator.
projectiveECAddUncrossed(p, q) ==
    LET l == <<addmod(q[2], FIELD_SIZE - p[2]), addmod(q[1], FIELD_SIZE - p[1])>>
        sx == projectiveSub(projectiveSub(projectiveMul(l, l), <<p[1], 1>>), <<q[1], 1>>)
        sy == projectiveSub(projectiveMul(projectiveSub(<<p[1], 1>>, sx), l), <<p[2], 1>>)
    IN  <<sx[1], sy[1], sx[2]>>

\* l is the gradient of the secant line.
projectiveECAdd(p, q) ==
    LET l == <<addmod(q[2], FIELD_SIZE - p[2]), addmod(q[1], FIELD_SIZE - p[1])>>
        sx == projectiveSub(projectiveSub(projectiveMul(l, l), <<p[1], 1>>), <<q[1], 1>>)
        sy == projectiveSub(projectiveMul(projectiveSub(<<p[1], 1>>, sx), l), <<p[2], 1>>)
    IN  IF sx[2] # sy[2]
          THEN <<mulmod(sx[1], sy[2]), mulmod(sy[1], sx[2]), mulmod(sx[2], sy[2])>>
          ELSE <<sx[1], sy[1], sx[2]>>

\* Mutant: the products are not reduced.
affineECAddUnreduced(p, q, invZ) ==
    LET sum == projectiveECAdd(p, q) IN <<sum[1] * invZ, sum[2] * invZ>>

\* The sum, of coordinates that invZ clears of the third.
affineECAdd(p, q, invZ) ==
    LET sum == projectiveECAdd(p, q) IN <<mulmod(sum[1], invZ), mulmod(sum[2], invZ)>>

-----------------------------------------------------------------------------
(* verifyVRFProof *)

VARIABLES
    pc,             \* what is verified next
    proof,          \* struct Proof, as far as it was looked at
    hash,           \* hashToCurve(pk, seed)
    v               \* c*gamma + s*hash

vars == <<pc, proof, hash, v>>

\* A pair that is not a point, and one that is out of the field.
OffCurve == {<<FIELD_SIZE, 0>>, <<Generator[1], addmod(Generator[2], 1)>>}

Init ==
    /\ pc = "key"
    /\ proof = [pk |-> Infinity, c |-> 0, s |-> 0, uWitness |-> Infinity, gamma |-> Infinity,
                cGammaWitness |-> Infinity, sHashWitness |-> Infinity, zInv |-> 0]
    /\ hash = Infinity /\ v = Infinity

Require(condition, next, refused) == pc' = IF condition THEN next ELSE refused

VerifyKey ==
    /\ pc = "key"
    /\ \E pk \in {Multiple[k] : k \in KeyScalars} \cup OffCurve, c, s \in Scalars,
          uWitness \in Curve \cup {Infinity} :
         /\ proof' = [proof EXCEPT !.pk = pk, !.c = c, !.s = s, !.uWitness = uWitness]
         /\ Require(/\ isOnCurve(pk)
                    /\ verifyLinearCombinationWithGenerator(c, pk, s, uWitness), "hash", "badKey")
    /\ UNCHANGED <<hash, v>>

\* One candidate of hashToCurve; the next is the hash of a failed one.
HashToCurve ==
    /\ pc = "hash"
    /\ \E x \in Field :
         /\ hash' = newCandidateSecp256k1Point(x)
         /\ pc' = IF isOnCurve(hash') THEN "gamma" ELSE "hash"
    /\ UNCHANGED <<proof, v>>

VerifyGamma ==
    /\ pc = "gamma"
    /\ \E gamma \in {Multiple[k] : k \in GammaScalars} \cup OffCurve,
          witness \in Curve \cup OffCurve :
         /\ proof' = [proof EXCEPT !.gamma = gamma, !.cGammaWitness = witness]
         /\ Require(/\ isOnCurve(gamma) /\ isOnCurve(witness)
                    /\ ecmulVerify(gamma, proof.c, witness), "sum", "badGamma")
    /\ UNCHANGED <<hash, v>>

\* The rest of linearCombination.
VerifySum ==
    /\ pc = "sum"
    /\ \E witness \in Curve \cup OffCurve :
         LET z == projectiveECAdd(proof.cGammaWitness, witness)[3] IN
         \* a wrong inverse: 0 stands for all
         \E zInv \in {0} \cup {i \in Field : mulmod(z, i) = 1} :
           /\ proof' = [proof EXCEPT !.sHashWitness = witness, !.zInv = zInv]
           /\ Require(/\ isOnCurve(witness)
                      /\ proof.cGammaWitness[1] % FIELD_SIZE # witness[1] % FIELD_SIZE
                      /\ ecmulVerify(hash, proof.s, witness)
                      /\ mulmod(z, zInv) = 1, "challenge", "badSum")
           /\ v' = affineECAdd(proof.cGammaWitness, witness, zInv)
    /\ UNCHANGED hash

\* scalarFromCurvePoints of all that was verified is c, or it is not.
VerifyChallenge ==
    /\ pc = "challenge"
    /\ \E derivedC \in Scalars : Require(proof.c = derivedC, "accepted", "badChallenge")
    /\ UNCHANGED <<proof, hash, v>>

Next == VerifyKey \/ HashToCurve \/ VerifyGamma \/ VerifySum \/ VerifyChallenge

Spec == Init /\ [][Next]_vars

-----------------------------------------------------------------------------
(* Properties *)

\* Type invariant: the parts of the proof are words and pairs of words.
VRFTypeOK ==
    LET Pair == ((0 .. FIELD_SIZE) \X (0 .. FIELD_SIZE)) \cup {Infinity} IN
    /\ pc \in {"key", "hash", "gamma", "sum", "challenge", "accepted",
               "badKey", "badGamma", "badSum", "badChallenge"}
    /\ proof \in [pk : Pair, c : Scalars \cup {0}, s : Scalars \cup {0}, uWitness : Pair,
                  gamma : Pair, cGammaWitness : Pair, sHashWitness : Pair, zInv : Field]
    /\ hash \in (Field \X Field) \cup {Infinity} /\ v \in (Field \X Field) \cup {Infinity}

\* hashToCurve ends with a point of the curve whose second ordinate is even,
\* whichever root squareRoot finds.
HashIsPoint == pc \notin {"key", "hash", "badKey"} => hash \in Curve /\ hash[2] % 2 = 0

\* A proof that passes satisfies the equations of the scheme, in the group:
\* uWitness = c*pk + s*g by way of ecrecover, and the v that is hashed, made of the
\* two witnesses in projective coordinates, is c*gamma + s*hash.
EquationsHold ==
    /\ pc \in {"hash", "gamma", "sum", "challenge", "accepted"} =>
          proof.uWitness = Plus(Times(proof.c, proof.pk), Times(proof.s, Generator))
    /\ pc \in {"challenge", "accepted"} =>
          v = Plus(Times(proof.c, proof.gamma), Times(proof.s, hash))

\* ecrecover takes the ordinate and the product with it: both are in 1 .. n-1.
Recoverable(p, k) == p[1] \in 1 .. GROUP_ORDER - 1 /\ k % GROUP_ORDER # 0

\* Up to the challenge, a prover that follows the scheme is turned away only at
\* boundary values: an ordinate beyond the group order or a scalar that is a
\* multiple of it, which ecrecover does not take, an infinite uWitness, and two
\* witnesses with one first ordinate, the one case linearCombination's comment
\* names and calls cryptographically impossible.  Otherwise the inverse asked for
\* exists.
HonestAccepted ==
    /\ pc = "badKey" /\ proof.pk \in Curve
       /\ proof.uWitness = Plus(Times(proof.c, proof.pk), Times(proof.s, Generator))
         => proof.uWitness = Infinity \/ ~Recoverable(proof.pk, proof.c)
    /\ pc = "badGamma" /\ proof.gamma \in Curve
       /\ proof.cGammaWitness = Times(proof.c, proof.gamma)
         => ~Recoverable(proof.gamma, proof.c)
    /\ pc = "badSum" /\ proof.sHashWitness = Times(proof.s, hash) /\ Recoverable(hash, proof.s)
       /\ proof.cGammaWitness[1] # proof.sHashWitness[1]
         => /\ proof.zInv = 0
            /\ projectiveECAdd(proof.cGammaWitness, proof.sHashWitness)[3] # 0
=============================================================================
