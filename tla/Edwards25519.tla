---------------------------- MODULE Edwards25519 ----------------------------
(***************************************************************************)
(* The curve -x^2 + y^2 = 1 + d x^2 y^2 of signer/edwards25519, over a     *)
(* prime field of any size with P = 5 (mod 8).  A field element is a       *)
(* residue: the ten limbs of a FieldElement, and the carries between them, *)
(* are not modelled.  The group's formulas, its five representations, the  *)
(* encoding of points and the recodings of scalars are those of the code,  *)
(* with Digits radix-16 digits where the code has 64.                      *)
(***************************************************************************)
EXTENDS Integers, Sequences, FiniteSetsExt

CONSTANTS
    P,         \* 2^255 - 19 in the code
    YBits,     \* bits of an encoded y: 255
    L,         \* order of the base point: 2^252 + 277...
    Digits,    \* radix-16 digits of a scalar: 64
    d, SqrtM1, \* d and a square root of -1
    Base       \* affine coordinates of the base point

ASSUME CurveAssumption ==
    /\ P % 8 = 5 /\ P < 2^YBits /\ Digits % 2 = 0 /\ 2 * L <= 16^Digits
    /\ (SqrtM1 * SqrtM1) % P = P - 1
    /\ (Base[2] * Base[2] - Base[1] * Base[1] - 1 - ((d * Base[1] * Base[1]) % P) * Base[2] * Base[2]) % P = 0

(* SequencesExt's, without the modules it extends: with them the provers    *)
(* take five times as long.                                                 *)
FoldLeft(op(_, _), base, seq) == MapThenFoldSet(LAMBDA x, y : op(y, x), base, LAMBDA i : seq[i], Max, DOMAIN seq)

Field == 0 .. P - 1
Bits == 4 * Digits

-----------------------------------------------------------------------------
FeAdd(a, b) == (a + b) % P
FeSub(a, b) == (a - b) % P
FeNeg(f) == (-f) % P
FeMul(f, g) == (f * g) % P
FeSquare(f) == FeMul(f, f)
FeSquare2(f) == FeAdd(FeSquare(f), FeSquare(f))

(* z^n.  Here and below, steps that are repeated are functions, because     *)
(* TLC evaluates the argument of a function before it goes into its body.   *)
Power[z \in Field, n \in Nat] ==
    LET Step[h \in Nat] == IF n % 2 = 0 THEN FeSquare(h) ELSE FeMul(z, FeSquare(h))
    IN  IF n = 0 THEN 1 ELSE Step[Power[z, n \div 2]]

Inverses == [z \in Field |-> Power[z, P - 2]]
Pow22523s == [z \in Field |-> Power[z, (P - 5) \div 8]]

FeInvert(z) == Inverses[z]
fePow22523(z) == Pow22523s[z]

(* A field element is encoded as the least residue, and read back without   *)
(* a check that it is one.                                                  *)
FeToBytes(h) == h % P
FeFromBytes(s) == (s % 2^YBits) % P
FeIsNegative(f) == FeToBytes(f) % 2
FeIsNonZero(f) == FeToBytes(f) # 0

-----------------------------------------------------------------------------
Projective(X, Y, Z) == [X |-> X, Y |-> Y, Z |-> Z]
Extended(X, Y, Z, T) == [X |-> X, Y |-> Y, Z |-> Z, T |-> T]
Completed(X, Y, Z, T) == [X |-> X, Y |-> Y, Z |-> Z, T |-> T]
PreComputed(yPlusX, yMinusX, xy2d) == [yPlusX |-> yPlusX, yMinusX |-> yMinusX, xy2d |-> xy2d]

Coordinates == [X : Nat, Y : Nat, Z : Nat, T : Nat]

ProjectiveZero == Projective(0, 1, 1)
ExtendedZero == Extended(0, 1, 1, 0)
PreComputedZero == PreComputed(1, 1, 0)

ToProjective(p) == Projective(p.X, p.Y, p.Z)
ToCached(p) ==
    [yPlusX |-> FeAdd(p.Y, p.X), yMinusX |-> FeSub(p.Y, p.X), Z |-> p.Z, T2d |-> FeMul(p.T, FeAdd(d, d))]
CompletedToProjective(p) == Projective(FeMul(p.X, p.T), FeMul(p.Y, p.Z), FeMul(p.Z, p.T))
ToExtended(p) == Extended(FeMul(p.X, p.T), FeMul(p.Y, p.Z), FeMul(p.Z, p.T), FeMul(p.X, p.Y))

Double(p) ==
    LET xx == FeSquare(p.X)
        yy == FeSquare(p.Y)
        sum == FeAdd(yy, xx)
        diff == FeSub(yy, xx)
    IN  Completed(FeSub(FeSquare(FeAdd(p.X, p.Y)), sum), sum, diff, FeSub(FeSquare2(p.Z), diff))

(* The common part of the four additions: q's y+x and y-x change places and *)
(* the last two coordinates change signs when q is subtracted.              *)
Add(p, plus, minus, t0, t) ==
    LET a == FeMul(FeAdd(p.Y, p.X), plus)
        b == FeMul(FeSub(p.Y, p.X), minus)
    IN  Completed(FeSub(a, b), FeAdd(a, b), FeAdd(t0, t), FeSub(t0, t))

GeAdd(p, q) == Add(p, q.yPlusX, q.yMinusX, 2 * FeMul(p.Z, q.Z), FeMul(q.T2d, p.T))
geSub(p, q) == Add(p, q.yMinusX, q.yPlusX, 2 * FeMul(p.Z, q.Z), FeNeg(FeMul(q.T2d, p.T)))
GeMixedAdd(p, q) == Add(p, q.yPlusX, q.yMinusX, 2 * p.Z, FeMul(q.xy2d, p.T))
geMixedSub(p, q) == Add(p, q.yMinusX, q.yPlusX, 2 * p.Z, FeNeg(FeMul(q.xy2d, p.T)))

-----------------------------------------------------------------------------
(* The encoding of a point: y, with the sign of x above it.                 *)
ToBytes(p) ==
    LET recip == FeInvert(p.Z)
    IN  FeToBytes(FeMul(p.Y, recip)) + 2^YBits * FeIsNegative(FeMul(p.X, recip))

(* Fault: the other square root is not tried.                               *)
RootOnly(x, vxx, u) == x

(* x or x times the root of -1, whichever solves v x^2 = u.                 *)
Root(x, vxx, u) == IF FeIsNonZero(FeSub(vxx, u)) THEN FeMul(x, SqrtM1) ELSE x

(* FromBytes: the point with this y and sign.  If there is none, what has   *)
(* been computed of a new element by then is left in it.                    *)
FromBytes(s) ==
    LET y == FeFromBytes(s)
        u == FeSub(FeSquare(y), 1)
        v == FeAdd(FeMul(FeSquare(y), d), 1)
        v3 == FeMul(FeSquare(v), v)
        x0 == FeMul(FeMul(fePow22523(FeMul(FeMul(FeSquare(v3), v), u)), v3), u)
        vxx == FeMul(FeSquare(x0), v)
        x1 == Root(x0, vxx, u)
        x == IF FeIsNegative(x1) # s \div 2^YBits THEN FeNeg(x1) ELSE x1
    IN  IF FeIsNonZero(FeSub(vxx, u)) /\ FeIsNonZero(FeAdd(vxx, u))
            THEN [ok |-> FALSE, p |-> Extended(x0, y, 1, 0)]
            ELSE [ok |-> TRUE, p |-> Extended(x, y, 1, FeMul(x, y))]

-----------------------------------------------------------------------------
(* The affine group law, which the formulas above are compared with.        *)
AffineAdd(p, q) ==
    LET k == FeMul(d, FeMul(FeMul(p[1], q[1]), FeMul(p[2], q[2])))
    IN  << FeMul(FeAdd(FeMul(p[1], q[2]), FeMul(q[1], p[2])), FeInvert(FeAdd(1, k))),
           FeMul(FeAdd(FeMul(p[2], q[2]), FeMul(p[1], q[1])), FeInvert(FeSub(1, k))) >>

(* The multiples of the base point.                                         *)
Multiple[n \in Nat] ==
    LET Step[p \in Nat \X Nat] == IF n % 2 = 0 THEN AffineAdd(p, p) ELSE AffineAdd(AffineAdd(p, p), Base)
    IN  IF n = 0 THEN <<0, 1>> ELSE Step[Multiple[n \div 2]]

Multiples == [n \in 0 .. L - 1 |-> Multiple[n]]

Times(n) == Multiples[n % L]

Affine(p) == <<FeMul(p.X, FeInvert(p.Z)), FeMul(p.Y, FeInvert(p.Z))>>

(* The table of a point as const.go holds it: y + x, y - x, 2dxy.           *)
Table(p) == PreComputed(FeAdd(p[2], p[1]), FeSub(p[2], p[1]), FeMul(FeMul(FeAdd(d, d), p[1]), p[2]))

(* base[i][j] = (j + 1) 256^i B, and bi[j] = (2j + 1) B.                    *)
base == [i \in 0 .. (Digits \div 2) - 1 |-> [j \in 0 .. 7 |-> Table(Times((j + 1) * 256^i))]]
bi == [j \in 0 .. 7 |-> Table(Times(2 * j + 1))]

-----------------------------------------------------------------------------
Hex(a, i) == (a \div 16^(i - 1)) % 16

(* The digits of a, each moved into -8 .. 7 with a carry to the next.       *)
Recode(a) ==
    LET Step[e \in [1 .. Digits -> Int], i \in Nat] ==
            LET carry == (e[i] + 8) \div 16 IN [e EXCEPT ![i] = @ - 16 * carry, ![i + 1] = @ + carry]
    IN  FoldLeft(LAMBDA e, i : Step[e, i], [i \in 1 .. Digits |-> Hex(a, i)], [i \in 1 .. Digits - 1 |-> i])

(* The entry for |b|, negated for a negative b; the zero entry for 0.       *)
selectPoint(pos, b) ==
    LET abs == IF b < 0 THEN -b ELSE b
        t == IF abs = 0 THEN PreComputedZero ELSE base[pos][abs - 1]
    IN  IF b < 0 THEN PreComputed(t.yMinusX, t.yPlusX, FeNeg(t.xy2d)) ELSE t

(* a times the base point: the odd digits, 16 times that, the even digits.  *)
GeScalarMultBase(a) ==
    LET e == Recode(a)
        AddDigit[h \in Coordinates, i \in Nat] == ToExtended(GeMixedAdd(h, selectPoint((i - 1) \div 2, e[i])))
        Twice[p \in Coordinates] == Double(CompletedToProjective(p))
        AddDigits[h \in Coordinates, parity \in 0 .. 1] ==
            FoldLeft(LAMBDA g, i : AddDigit[g, i], h, SelectSeq([i \in 1 .. Digits |-> i], LAMBDA i : i % 2 = parity))
        odd == AddDigits[ExtendedZero, 0]
    IN  AddDigits[ToExtended(Twice[Twice[Twice[Double(ToProjective(odd))]]]), 1]

(* slide: a as a sum of r[i] 2^i with r[i] zero or odd and small.  Digit i  *)
(* takes up the ones above it, or borrows from them, while it can.          *)
slide(a) ==
    LET Borrow(r, k) ==
            LET zeros == {m \in k .. Bits : r[m] = 0}
            IN  [m \in 1 .. Bits |-> IF m < k \/ \E z \in zeros : z < m THEN r[m]
                                     ELSE IF m \in zeros THEN 1 ELSE 0]
        Take[st \in [r : [1 .. Bits -> Int], done : BOOLEAN], i \in Nat, b \in Nat] ==
            LET above == IF i + b > Bits THEN 0 ELSE st.r[i + b] * 2^b
            IN  IF st.done \/ st.r[i] = 0 \/ above = 0 THEN st
                ELSE IF st.r[i] + above <= 15 THEN [st EXCEPT !.r[i] = @ + above, !.r[i + b] = 0]
                ELSE IF st.r[i] - above >= -15 THEN [st EXCEPT !.r = Borrow([@ EXCEPT ![i] = @ - above], i + b)]
                ELSE [st EXCEPT !.done = TRUE]
        Digit(r, i) ==
            FoldLeft(LAMBDA st, b : Take[st, i, b], [r |-> r, done |-> FALSE], <<1, 2, 3, 4, 5, 6>>).r
        Slide[r \in [1 .. Bits -> -15 .. 15], i \in 1 .. Bits + 1] ==
            IF i > Bits THEN r ELSE Slide[Digit(r, i), i + 1]
    IN  Slide[[i \in 1 .. Bits |-> (a \div 2^(i - 1)) % 2], 1]

(* a A + b B: the digits of both, from the top, over the odd multiples.     *)
GeDoubleScalarMultVartime(a, A, b) ==
    LET twice == ToExtended(Double(ToProjective(A)))
        AddTwice[p \in Coordinates] == ToExtended(GeAdd(twice, ToCached(p)))
        Odd[i \in 1 .. 8] == IF i = 1 THEN A ELSE AddTwice[Odd[i - 1]]
        Ai == [i \in 1 .. 8 |-> ToCached(Odd[i])]
        aSlide == slide(a)
        bSlide == slide(b)
        AddA[t \in Coordinates, n \in Int] ==
            CASE n > 0 -> GeAdd(ToExtended(t), Ai[n \div 2 + 1])
              [] n < 0 -> geSub(ToExtended(t), Ai[(-n) \div 2 + 1])
              [] n = 0 -> t
        AddB[t \in Coordinates, n \in Int] ==
            CASE n > 0 -> GeMixedAdd(ToExtended(t), bi[n \div 2])
              [] n < 0 -> geMixedSub(ToExtended(t), bi[(-n) \div 2])
              [] n = 0 -> t
        From[i \in 0 .. Bits, r \in [X : Field, Y : Field, Z : Field]] ==
            IF i = 0 THEN r ELSE From[i - 1, CompletedToProjective(AddB[AddA[Double(r), aSlide[i]], bSlide[i]])]
    IN  From[Bits, ProjectiveZero]

-----------------------------------------------------------------------------
(* Scalars, modulo the order of the base point.                             *)
ScReduce(s) == s % L
ScMulAdd(a, b, c) == (a * b + c) % L
ScMinimal(scalar) == scalar < L
=============================================================================
