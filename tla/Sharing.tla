------------------------------ MODULE Sharing ------------------------------
(***************************************************************************)
(* Threshold sharing of a secret over GF(2^8) (leelo-sss).  A byte is the  *)
(* set of its one bits, so addition in the field is symmetric difference   *)
(* and a shift adds one to every member.  A share is a record of a public  *)
(* coordinate and SECRET_LEN bytes.  Randomness is an argument: {draws},   *)
(* with the coefficients drawn for every byte of the secret, or {} when    *)
(* the generator fails.                                                    *)
(***************************************************************************)
EXTENDS Naturals, Sequences, FiniteSets, FiniteSetsExt, SequencesExt

CONSTANTS
  SECRET_LEN,   \* bytes in a secret (32 in the code)
  MAX_SHARES    \* shares at one node (31 in the code)

\* The byte whose unsigned value is n.
byte(n) == {i \in 0..7 : (n \div 2^i) % 2 = 1}

Ok(value) == [tag |-> "Ok", value |-> value]

Err(error) == [tag |-> "Err", value |-> error]

IsOk(result) == result.tag = "Ok"

\* The ? operator: go on with the value, or return the error.
Try(result, next(_)) == IF IsOk(result) THEN next(result.value) ELSE result

IsErr(result, error) == result.tag = "Err" /\ result.value = error

(***************************************************************************)
(* Field arithmetic modulo x^8 + x^4 + x^3 + x + 1.                        *)
(***************************************************************************)
xor(a, b) == (a \ b) \cup (b \ a)

\* The field sum of a family of bytes: a bit is set when an odd number of
\* them has it.
sum(terms) ==
  {k \in 0..7 : Cardinality({i \in DOMAIN terms : k \in terms[i]}) % 2 = 1}

xtime(a) ==
  xor({i + 1 : i \in a \ {7}}, IF 7 \in a THEN {0, 1, 3, 4} ELSE {})

masked(a, bit, b) == IF bit \in b THEN a ELSE {}

\* The sum of the shifted copies of a that the bits of b select.
mul(a, b) ==
  LET a1 == xtime(a)
      a2 == xtime(a1)
      a3 == xtime(a2)
      a4 == xtime(a3)
      a5 == xtime(a4)
      a6 == xtime(a5)
      a7 == xtime(a6)
  IN  sum(<<masked(a, 0, b), masked(a1, 1, b), masked(a2, 2, b),
            masked(a3, 3, b), masked(a4, 4, b), masked(a5, 5, b),
            masked(a6, 6, b), masked(a7, 7, b)>>)

\* a^254, the product of a^2, a^4, ..., a^128; zero for zero.
inverse_nonzero(a) ==
  LET square(x) == mul(x, x)
      a2 == square(a)
      a4 == square(a2)
      a8 == square(a4)
      a16 == square(a8)
      a32 == square(a16)
      a64 == square(a32)
      a128 == square(a64)
  IN  mul(mul(mul(a2, a4), mul(a8, a16)), mul(a32, mul(a64, a128)))

(***************************************************************************)
(* Polynomials and interpolation, one byte at a time.                      *)
(***************************************************************************)
evaluate(secret, coefficients, x) ==
  xor(mul(FoldRight(LAMBDA c, value : xor(mul(value, x), c),
                    coefficients, {}), x),
      secret)

weights(indices, target) ==
  LET others(i) == SelectSeq([j \in DOMAIN indices |-> j], LAMBDA j : j # i)
      product(i, from) ==
        FoldLeft(LAMBDA p, j : mul(p, xor(from, indices[j])),
                 byte(1), others(i))
  IN  [i \in DOMAIN indices |->
        mul(product(i, target), inverse_nonzero(product(i, indices[i])))]

weighted_sum(values, w) ==
  sum([i \in DOMAIN values |-> mul(values[i], w[i])])

interpolate(shares, target) ==
  LET w == weights([i \in DOMAIN shares |-> shares[i].index], target)
  IN  [b \in 1..SECRET_LEN |->
        weighted_sum([i \in DOMAIN shares |-> shares[i].value[b]], w)]

(***************************************************************************)
(* The public functions.                                                   *)
(***************************************************************************)
from_parts(index, value) ==
  IF index = {} THEN Err("ZeroIndex")
  ELSE Ok([index |-> index, value |-> value])

validate_threshold(threshold) == threshold \in 1..MAX_SHARES

\* The shares of the polynomials with these coefficients.
evaluations(secret, count, draws) ==
  [i \in 1..count |->
    [index |-> byte(i),
     value |-> [b \in 1..SECRET_LEN |->
                 evaluate(secret[b], draws[b], byte(i))]]]

split(secret, threshold, count, rng) ==
  IF ~validate_threshold(threshold) THEN Err("InvalidThreshold")
  ELSE IF count \notin 1..MAX_SHARES THEN Err("InvalidShareCount")
  ELSE IF threshold > count THEN Err("InsufficientShares")
  ELSE IF rng = {} THEN Err("EntropyUnavailable")
  ELSE Ok(evaluations(secret, count, CHOOSE draws \in rng : TRUE))

reconstruct(threshold, shares) ==
  LET basis == SubSeq(shares, 1, threshold)
      surplus == SubSeq(shares, threshold + 1, Len(shares))
      zero == {i \in DOMAIN shares : shares[i].index = {}}
      repeated == {i \in DOMAIN shares :
                    \E j \in 1..(i - 1) : shares[j].index = shares[i].index}
  IN  IF ~validate_threshold(threshold) THEN Err("InvalidThreshold")
      ELSE IF Len(shares) > MAX_SHARES THEN Err("InvalidShareCount")
      ELSE IF Len(shares) < threshold THEN Err("InsufficientShares")
      ELSE IF zero \cup repeated # {}
        THEN Err(IF Min(zero \cup repeated) \in zero
                 THEN "ZeroIndex" ELSE "DuplicateIndex")
      ELSE IF \E i \in DOMAIN surplus :
                interpolate(basis, surplus[i].index) # surplus[i].value
        THEN Err("InconsistentShares")
      ELSE Ok(interpolate(basis, {}))
=============================================================================
