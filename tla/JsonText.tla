-------------------------------- MODULE JsonText --------------------------------
(***************************************************************************)
(* packages/core/src/features/raw-scanner and input-admission: lexemes,    *)
(* and what their readers measure in them.                                 *)
(*                                                                         *)
(* A token has the kind that the cursor gives it; a string its `units` (an *)
(* escape or a scalar of the text each), a number its sign, its digits     *)
(* before and after the point and its exponent.  A token of kind "invalid" *)
(* is no JSON; in the data of the object entry it stands for a value that  *)
(* is not plain, and "reference" for one that leads back to the container  *)
(* it is in.  A container may be `odd`: of another prototype, or with      *)
(* holes, symbols or keys that are no index.                               *)
(***************************************************************************)
EXTENDS Integers, SequencesExt, FiniteSetsExt

CONSTANTS
    SafeDigits,   \* the digits of Number.MAX_SAFE_INTEGER
    Precision,    \* the bits of a number (53)
    LeastPower,   \* its last bit is not below 2^-LeastPower (1074)
    GreatestPower \* from 2^GreatestPower on it is Infinity (1024)

ASSUME SafeDigitsAssumption == SafeDigits \in Seq(0..9) /\ SafeDigits # <<>>

Openings == {"object-start", "array-start"}
Closings == {"object-end", "array-end"}

\* lexicalKind is not null: the tokens that begin a value.
ValueKinds == Openings \cup {"string", "number", "literal"}
-----------------------------------------------------------------------------
(* Strings.  A unit is a letter or digit, "-", "/", "two" or "three" (a     *)
(* scalar of as many bytes), "four" (one outside the basic plane), or the   *)
(* escape of half a surrogate pair, "high" or "low".                        *)

Letters == {"a", "b", "c", "x"}
Digits == {"0"}

\* What a raw string decodes to: one outside the basic plane becomes a pair.
Utf16(units) ==
    FlattenSeq([k \in DOMAIN units |->
        IF units[k] = "four" THEN <<"high", "low">> ELSE <<units[k]>>])

ScalarBytes(unit) ==
    CASE unit = "two" -> 2 [] unit \in {"three", "high", "low"} -> 3 [] unit = "four" -> 4
      [] OTHER -> 1

\* accountStringUnit: a high half is counted with the unit that follows.
Account(state, unit) ==
    IF state.pending /\ unit = "low" THEN [state EXCEPT !.bytes = @ + 4, !.pending = FALSE]
    ELSE LET settled == IF state.pending THEN [state EXCEPT !.bytes = @ + 3, !.wellFormed = FALSE]
                                         ELSE state
         IN  [bytes |-> settled.bytes + IF unit = "high" THEN 0 ELSE ScalarBytes(unit),
              pending |-> unit = "high",
              wellFormed |-> settled.wellFormed /\ unit # "low"]

\* decodedUtf8Bytes and wellFormedUtf16 of a string token.
RawString(units) ==
    LET read == FoldLeft(Account, [bytes |-> 0, pending |-> FALSE, wellFormed |-> TRUE], units)
    IN  [bytes |-> read.bytes + IF read.pending THEN 3 ELSE 0,
         wellFormed |-> read.wellFormed /\ ~read.pending]

\* countString, of the object entry: pairs are looked for ahead.
CountedBytes(units) ==
    LET text == Utf16(units)
        Pair(k) == text[k] = "high" /\ k < Len(text) /\ text[k + 1] = "low"
        Of(k) == IF Pair(k) THEN 4
                 ELSE IF k > 1 /\ Pair(k - 1) THEN 0
                 ELSE ScalarBytes(text[k])
    IN  FoldLeft(+, 0, [k \in DOMAIN text |-> Of(k)])

\* isWellFormedUtf16, of the schema.
WellFormed(units) ==
    LET text == Utf16(units)
    IN  \A k \in DOMAIN text :
            /\ text[k] = "high" => k < Len(text) /\ text[k + 1] = "low"
            /\ text[k] = "low" => k > 1 /\ text[k - 1] = "high"

\* matchesFormat, the automaton of identities.
NextOfFormat(portable, state, unit) ==
    CASE state.rejected -> state
      [] state.needs = "letter" -> [state EXCEPT !.needs = "", !.rejected = unit \notin Letters]
      [] state.needs = "alphanumeric" ->
            [state EXCEPT !.needs = "", !.rejected = unit \notin Letters \cup Digits]
      [] unit = "-" -> [state EXCEPT !.needs = "alphanumeric"]
      [] unit = "/" /\ portable -> [state EXCEPT !.needs = "letter", !.slash = TRUE]
      [] OTHER -> [state EXCEPT !.rejected = unit \notin Letters \cup Digits]

MatchesFormat(portable, units) ==
    LET read == FoldLeft(LAMBDA state, unit : NextOfFormat(portable, state, unit),
                         [needs |-> "letter", slash |-> FALSE, rejected |-> FALSE], Utf16(units))
    IN  ~read.rejected /\ read.needs = "" /\ (portable => read.slash)
-----------------------------------------------------------------------------
(* Numbers of the raw entry: decided on their digits, exactly.             *)

Width == Len(SafeDigits)
NonZero(digits) == SelectInSeq(digits, LAMBDA d : d # 0)
ZerosAtEnd(digits) == Len(digits) - SelectLastInSeq(digits, LAMBDA d : d # 0)

\* The bytes of the token, its exponent with one digit and its sign.
NumberLength(n) ==
    Len(n.digits) + (IF n.negative THEN 1 ELSE 0)
    + (IF n.fraction = <<>> THEN 0 ELSE 1 + Len(n.fraction))
    + (IF n.exponent = 0 THEN 0 ELSE 2)

\* readExponent: clamped, so that it never grows beyond what decides.
Exponent(n) ==
    LET limit == NumberLength(n) + Width + 1
    IN  IF n.exponent > limit THEN limit ELSE IF n.exponent < -limit THEN -limit ELSE n.exponent

Padded(digits, k) == IF k <= Len(digits) THEN digits[k] ELSE 0

ExceedsSafe(digits) ==
    \E k \in 1..Width :
        /\ Padded(digits, k) > SafeDigits[k]
        /\ \A l \in 1..k - 1 : Padded(digits, l) = SafeDigits[l]

Refused(reason) == [verdict |-> reason, value |-> 0]

Admitted(negative, value) == [verdict |-> "admitted", value |-> IF negative THEN -value ELSE value]
Zero(negative) == IF negative THEN Refused("invalid-format") ELSE Admitted(FALSE, 0)

\* Significant digits, followed by zeros up to a width.
OfWidth(negative, significant, width) ==
    IF width > Width \/ (width = Width /\ ExceedsSafe(significant)) THEN Refused("invalid-format")
    ELSE Admitted(negative,
             FoldLeft(LAMBDA v, k : 10 * v + Padded(significant, k), 0, [k \in 1..width |-> k]))

\* The digits without the zeros around them, and what the point and the exponent shift them by.
Shifted(negative, significant, shift) ==
    IF shift < 0 THEN Refused("invalid-type")
    ELSE OfWidth(negative, significant, Len(significant) + shift)

\* admitRawInteger: 1.0 and 10e-1 are the integer 1; -0 is none.
RawInteger(n) ==
    LET coefficient == n.digits \o n.fraction
        first == NonZero(coefficient)
        zeros == ZerosAtEnd(coefficient)
    IN  IF first = 0 THEN Zero(n.negative)
        ELSE Shifted(n.negative, SubSeq(coefficient, first, Len(coefficient) - zeros),
                     Exponent(n) - Len(n.fraction) + zeros)

Value(digits) == FoldLeft(LAMBDA v, d : 10 * v + d, 0, digits)

ASSUME NumberAssumption ==
    /\ {Precision, LeastPower, GreatestPower} \subseteq Nat \ {0}
    /\ Precision < GreatestPower /\ Value(SafeDigits) = 2 ^ Precision - 1
-----------------------------------------------------------------------------
(* The numbers of JavaScript: m * 2^k with m below 2^Precision.  The object *)
(* entry sees what the digits of a lexeme were rounded to.                  *)

PowerOf(b, k) == IF k > 0 THEN b ^ k ELSE 1

\* The decimal value of a lexeme is Over(n) / Below(n); it is huge if its power of
\* ten alone is beyond all numbers.
Magnitude(n) == Value(n.digits \o n.fraction)
TenPower(n) == n.exponent - Len(n.fraction)
Over(n) == Magnitude(n) * PowerOf(10, TenPower(n))
Below(n) == PowerOf(10, -TenPower(n))
IsHuge(n) == Magnitude(n) # 0 /\ 3 * TenPower(n) >= GreatestPower

\* The power of two of its last bit: as many bits as there are, but none below the least.
UnitPower(n) ==
    LET reached == {k \in -LeastPower..GreatestPower :
                       PowerOf(2, k) * Below(n) <= Over(n) * PowerOf(2, -k)}
    IN  Max({-LeastPower} \cup {k - Precision + 1 : k \in reached})

\* The nearest multiple of that unit; of two that are as near, the even one.
Nearest(over, below) ==
    LET twice == 2 * (over % below)
        least == over \div below
    IN  IF twice > below \/ (twice = below /\ least % 2 = 1) THEN least + 1 ELSE least
Significand(n) == Nearest(Over(n) * PowerOf(2, -UnitPower(n)), Below(n) * PowerOf(2, UnitPower(n)))

\* Infinity.
Overflows(n) ==
    \/ IsHuge(n)
    \/ Significand(n) * PowerOf(2, UnitPower(n)) >= 2 ^ GreatestPower

Bounded(negative, magnitude) ==
    IF magnitude > Value(SafeDigits) \/ (magnitude = 0 /\ negative) THEN Refused("invalid-format")
    ELSE Admitted(negative, magnitude)

\* Number.isInteger, Number.isSafeInteger and -0, of units times a power of two.
OfDouble(negative, units, power) ==
    IF units % PowerOf(2, -power) # 0 THEN Refused("invalid-type")
    ELSE Bounded(negative, (units * PowerOf(2, power)) \div PowerOf(2, -power))

\* objectInteger, of the object entry.
ObjectInteger(n) ==
    IF Overflows(n) THEN Refused("invalid-type")
    ELSE OfDouble(n.negative, Significand(n), UnitPower(n))
=============================================================================
