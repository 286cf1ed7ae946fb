-------------------------------- MODULE Field --------------------------------
(***************************************************************************)
(* The prime-field polynomial arithmetic of src/services/network.go (the   *)
(* utils package): univariate polynomials, symmetric bivariate ones, and   *)
(* Lagrange interpolation at zero.  The modulus is the constant Prime,     *)
(* small in the models (the code's is the 256-bit secp256k1 prime).        *)
(*                                                                         *)
(* A univariate polynomial is a function [0..d -> 0..Prime-1] from degree  *)
(* to coefficient (Polynomial.Coeffs); a bivariate one a function          *)
(* [0..d -> [0..d -> 0..Prime-1]] (SymmetricPolynomial.Coeffs).  big.Int   *)
(* Mod by a positive modulus is Euclidean, as is TLA+'s %.                 *)
(***************************************************************************)
EXTENDS Integers, Sequences, FiniteSets

CONSTANT Prime

ASSUME Prime \in Nat /\ Prime > 2

Elems == 0..(Prime - 1)

\* Horner's rule from the top coefficient down, reducing at every step.
RECURSIVE HornerFrom(_, _, _, _)
HornerFrom(p, x, i, acc) ==
    IF i < 0 THEN acc ELSE HornerFrom(p, x, i - 1, (acc * x + p[i]) % Prime)

Degree(p) == CHOOSE d \in DOMAIN p : d + 1 = Cardinality(DOMAIN p)

\* Polynomial.Evaluate
Evaluate(p, x) == HornerFrom(p, x, Degree(p), 0)

\* The polynomials NewRandomSymmetricPolynomial(d, s) can return: C[0][0]
\* is the secret, every other entry of the lower triangle is drawn at
\* random and mirrored.
SymmetricPolynomials(d, s) ==
    { C \in [0..d -> [0..d -> Elems]] :
        C[0][0] = s /\ \A i, j \in 0..d : C[i][j] = C[j][i] }

RECURSIVE ColumnAt(_, _, _, _)

\* Faulty variant: the coefficient is not reduced after the addition.
ColumnAtUnreduced(C, k, j, i) ==
    IF i < 0 THEN 0
    ELSE ColumnAt(C, k, j, i - 1) + ((C[i][j] * ((k ^ i) % Prime)) % Prime)

\* The sum, reduced at every step, of C[i][j] * (k^i mod Prime) over i.
ColumnAt(C, k, j, i) ==
    IF i < 0 THEN 0
    ELSE (ColumnAt(C, k, j, i - 1) + ((C[i][j] * ((k ^ i) % Prime)) % Prime)) % Prime

\* SymmetricPolynomial.GetUnivariatePolynomial: f_k(y) = F(k, y).
GetUnivariatePolynomial(C, k) ==
    LET d == Degree(C) IN [j \in 0..d |-> ColumnAt(C, k, j, d)]

\* big.Int.ModInverse for a modulus that is prime and a nonzero residue.
ModInverse(a) == CHOOSE z \in Elems : (a * z) % Prime = 1

\* The inner loop of InterpolateAtZero over m in 1..m, m # j: the pair
\* <<num, den>> of the products of -x_m and of x_j - x_m, each reduced at
\* every step.
RECURSIVE LagrangeProducts(_, _, _)
LagrangeProducts(xs, j, m) ==
    IF m = 0 THEN <<1, 1>>
    ELSE LET prev == LagrangeProducts(xs, j, m - 1)
         IN  IF m = j THEN prev
             ELSE <<(prev[1] * (0 - xs[m])) % Prime, (prev[2] * (xs[j] - xs[m])) % Prime>>

\* The Lagrange term y_j * l_j(0) of InterpolateAtZero.
LagrangeTerm(xs, ys, j) ==
    LET nd == LagrangeProducts(xs, j, Len(xs))
    IN  (((ys[j] * nd[1]) % Prime) * ModInverse(nd[2])) % Prime

RECURSIVE SumTerms(_, _, _)
SumTerms(xs, ys, j) ==
    IF j = 0 THEN 0 ELSE (SumTerms(xs, ys, j - 1) + LagrangeTerm(xs, ys, j)) % Prime

\* InterpolateAtZero: L(0) for the polynomial L through (xs[j], ys[j]).
\* The x values must be distinct modulo Prime (else den is 0 and the code's
\* ModInverse returns nil).
InterpolateAtZero(xs, ys) == SumTerms(xs, ys, Len(xs))
=============================================================================
