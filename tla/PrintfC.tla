------------------------------- MODULE PrintfC --------------------------------
(***************************************************************************)
(* What the C standard makes of a directive, and where printf.c makes      *)
(* another text of it: the properties of Printf.                           *)
(***************************************************************************)
EXTENDS Printf

CFlags(j) == {j.dir.flags[i] : i \in DOMAIN j.dir.flags}
                \union (IF j.dir.width = Star /\ j.star[1] < 0 THEN {"-"} ELSE {})
CWidth(j) == CASE j.dir.width = Unset -> 0
               [] j.dir.width = Star -> IF j.star[1] < 0 THEN -j.star[1] ELSE j.star[1]
               [] OTHER -> j.dir.width
CPrec(j) == IF j.dir.prec # Star THEN j.dir.prec
            ELSE LET p == j.star[IF j.dir.width = Star THEN 2 ELSE 1] IN IF p < 0 THEN Unset ELSE p

CJustified(j, sign, body, zeros) ==
    LET w == CWidth(j) - Len(sign) - Len(body)
    IN  IF "-" \in CFlags(j) THEN sign \o body \o Times(" ", Larger(0, w))
        ELSE IF zeros THEN sign \o Times("0", Larger(0, w)) \o body
        ELSE Times(" ", Larger(0, w)) \o sign \o body

CModulus(j) == CASE j.dir.length = <<"h", "h">> -> 256 [] j.dir.length = <<"h">> -> 65536
                 [] j.dir.length = <<>> -> IntMod [] OTHER -> LongMod
CSigned(j) == j.dir.conv \in {"d", "i"}
CValue(j) == LET u == j.n % CModulus(j)
             IN  IF CSigned(j) /\ 2 * u >= CModulus(j) THEN u - CModulus(j) ELSE u
CMagnitude(j) == IF CValue(j) < 0 THEN -CValue(j) ELSE CValue(j)
CDigits(j) ==
    IF CValue(j) = 0 /\ CPrec(j) = 0 THEN <<>>
    ELSE Reverse(Reversed(CMagnitude(j), Base(j.dir.conv),
                          IF j.dir.conv = "X" THEN Upper ELSE Lower))
CZeros(j) == Larger(0, CPrec(j) - Len(CDigits(j)))
CPrefix(j) ==
    IF "#" \notin CFlags(j) THEN <<>>
    ELSE CASE j.dir.conv \in {"x", "X", "b"} /\ CValue(j) # 0 -> <<"0", j.dir.conv>>
           [] j.dir.conv = "o" /\ CZeros(j) = 0 /\ CDigits(j) # <<"0">> -> <<"0">>
           [] OTHER -> <<>>
CSign(j) == IF CSigned(j) THEN Sign(CValue(j) < 0, CFlags(j)) ELSE <<>>
CZeroFlag(j) == "0" \in CFlags(j) /\ "-" \notin CFlags(j) /\ CPrec(j) = Unset

CInteger(j) ==
    CJustified(j, CSign(j) \o CPrefix(j), Times("0", CZeros(j)) \o CDigits(j), CZeroFlag(j))

(* Where the code prints another text for an integer: a left justified     *)
(* number loses its precision, and with it a 0 of one digit; the prefix    *)
(* takes back digits of a number that fills its field; # adds a zero to an *)
(* octal number that has some (and fill the buffer not quite) and none to  *)
(* an empty one; %hhd is unsigned; more than NumSize characters are cut,   *)
(* which does not show of a blank for the sign behind other blanks.        *)
Deviates(j) ==
    LET hash == "#" \in CFlags(j) /\ Base(j.dir.conv) # 10
        octal == hash /\ j.dir.conv = "o" /\ CValue(j) # 0
        left == "-" \in CFlags(j)
        digits == Len(CDigits(j))
        number == CZeros(j) + digits
    IN  \/ left /\ CZeros(j) > (IF octal THEN 1 ELSE 0)
        \/ left /\ CValue(j) = 0 /\ CPrec(j) = 1
        \/ octal /\ ~left /\ CZeros(j) > 0 /\ CPrec(j) # NumSize
        \/ hash /\ j.dir.conv = "o" /\ CDigits(j) = <<>>
        \/ /\ hash /\ CValue(j) # 0 /\ CPrec(j) = Unset
           /\ \/ digits = CWidth(j)
              \/ CZeroFlag(j) /\ digits < CWidth(j) /\ digits + Len(CPrefix(j)) > CWidth(j)
        \/ j.dir.length = <<"h", "h">> /\ CValue(j) < 0
        \/ CZeroFlag(j) /\ CWidth(j) > NumSize
        \/ /\ Len(CSign(j) \o CPrefix(j)) + number > NumSize
           /\ ~(number = NumSize /\ CSign(j) = <<" ">> /\ ~left /\ CWidth(j) > NumSize)

(* C takes a negative precision as none, the code as 0. *)
NegativePrecision(j) == j.dir.prec = Star /\ CPrec(j) = Unset

CText(j) ==
    CASE j.dir.conv = "c" -> CJustified(j, <<>>, SubSeq(j.s, 1, 1), FALSE)
      [] j.dir.conv = "s" -> CJustified(j, <<>>,
                IF CPrec(j) = Unset THEN j.s
                ELSE SubSeq(j.s, 1, Smaller(CPrec(j), Len(j.s))), FALSE)
      [] j.dir.conv = "%" -> <<"%">>

(* The multiples of 10^-p nearest to a number: one, or two. *)
CNearest(v, p) ==
    LET unit == Pow10(v.scale - p)
        down == v.n \div unit
        twice == 2 * (v.n % unit)
    IN  (IF twice <= unit THEN {down} ELSE {})
            \union (IF twice >= unit THEN {down + 1} ELSE {})

(* k * 10^-known written with p decimals. *)
CDecimal(k, known, p) ==
    LET digits == Reversed(k, 10, Lower)
        r == Times("0", p - known) \o digits
                \o Times("0", Larger(0, known + 1 - Len(digits)))
    IN  Reverse(SubSeq(r, p + 1, Len(r)))
          \o (IF p = 0 THEN <<>> ELSE <<".">> \o Reverse(SubSeq(r, 1, p)))

Adaptive(j) == j.dir.conv \in {"g", "G"}

(* Without the zeros behind its last digit, and without a point there. *)
Trim(s) ==
    LET last == CHOOSE i \in DOMAIN s : s[i] # "0" /\ \A k \in i + 1 .. Len(s) : s[k] = "0"
    IN  SubSeq(s, 1, IF s[last] = "." THEN last - 1 ELSE last)

(* The flag # asks for a point that no digit follows; without it %g drops  *)
(* the zeros behind the point.                                             *)
CFigures(j, k, known, p) ==
    LET s == CDecimal(k, known, p)
    IN  IF "#" \in CFlags(j) THEN IF p = 0 THEN Append(s, ".") ELSE s
        ELSE IF Adaptive(j) /\ p > 0 THEN Trim(s)
        ELSE s

CNumber(j, body) ==
    CJustified(j, Sign(j.v.neg, CFlags(j)), body, "0" \in CFlags(j))

CDecimals(j) == IF CPrec(j) = Unset THEN 6 ELSE CPrec(j)

NegativeZero(j) == j.v.neg /\ j.v.n = 0

(* The text fits the buffer, and rounding takes place within the nine      *)
(* decimals that _ftoa limits the precision to.                            *)
InReach(decimals, texts) == decimals <= 9 /\ \A t \in texts : Len(t) <= NumSize

(* What %f may print: the decimal fractions nearest to the number. *)
CFixed(j) ==
    LET p == CDecimals(j)
        known == Smaller(p, j.v.scale)
    IN  {CNumber(j, CFigures(j, k, known, p)) : k \in CNearest(j.v, known)}

(* The value is half way to the next whole number, all nines before it.    *)
HalfWay(v, p) ==
    LET unit == Pow10(v.scale - p)
    IN  /\ p \in 1 .. v.scale - 1
        /\ 2 * (v.n % unit) = unit /\ v.lean = 0
        /\ (v.n % Pow10(v.scale)) \div unit = Pow10(p) - 1

Rollover(j) == HalfWay(j.v, CDecimals(j))

(* The code never writes a point that no digit follows. *)
LacksPoint(j) == "#" \in CFlags(j) /\ CDecimals(j) = 0

(* The number as a fraction of the power of ten below it. *)
CSignificand(v) == [v EXCEPT !.scale = Len(Reversed(v.n, 10, Lower)) - 1]

KnownDigits(v, p) == Smaller(p, CSignificand(v).scale)

(* The nearest significands of 1 + p digits, and their exponents: the next *)
(* power of ten if it is nearest.                                          *)
CScaled(v, p) ==
    LET known == KnownDigits(v, p)
    IN  {IF k = Pow10(known + 1) THEN [k |-> k \div 10, e |-> Exponent(v) + 1]
         ELSE [k |-> k, e |-> IF v.n = 0 THEN 0 ELSE Exponent(v)]
            : k \in CNearest(CSignificand(v), known)}

CScientific(j, c, p) ==
    LET letter == IF j.dir.conv \in {"F", "E", "G"} THEN "E" ELSE "e"
        r == Reversed(IF c.e < 0 THEN -c.e ELSE c.e, 10, Lower)
    IN  CNumber(j, CFigures(j, c.k, KnownDigits(j.v, p), p)
                     \o <<letter, IF c.e < 0 THEN "-" ELSE "+">>
                     \o Reverse(r \o Times("0", Larger(0, 2 - Len(r)))))

CExponential(j, p) == {CScientific(j, c, p) : c \in CScaled(j.v, p)}

(* %g, in whose precision all digits count and none is 1: as %f if the     *)
(* exponent of the rounded number is small, otherwise as %e.               *)
CAdaptive(j) ==
    LET p == Larger(1, CDecimals(j))
    IN  {IF c.e \in -4 .. p - 1
         THEN CNumber(j, CFigures(j, c.k, KnownDigits(j.v, p - 1) - c.e, p - 1 - c.e))
         ELSE CScientific(j, c, p - 1)
            : c \in CScaled(j.v, p - 1)}

(* What %e and %g may print, and the decimals that %f is asked for at most. *)
CExponent(j) == IF Adaptive(j) THEN CAdaptive(j) ELSE CExponential(j, CDecimals(j))
MostDecimals(j) == IF Adaptive(j) THEN CDecimals(j) + 3 ELSE CDecimals(j)

(* With all its decimals and a point a text is longest. *)
WithHash(j) == [j EXCEPT !.dir.flags = Append(@, "#")]

(* %g prints the number as %f does; the code decides by the number alone. *)
PlainForm(j) == Adaptive(j) /\ j.v.n # 0 /\ Exponent(j.v) \in -4 .. 5

(* The decimals of a significand. *)
FigurePlaces(j) == IF Adaptive(j) THEN Larger(1, CDecimals(j)) - 1 ELSE CDecimals(j)

RightExponents(j) == {c.e : c \in CScaled(j.v, FigurePlaces(j))}

(* 9.95 as %.2g: the zeros that fill the buffer in place of a carry are    *)
(* those of the flag 0 if the field is as wide.                            *)
ZerosAreRight(j) ==
    /\ CPrec(j) = 2 /\ Exponent(j.v) = 0 /\ HalfWay(j.v, 1)
    /\ CFlags(j) \intersect {"0", "-", "#"} = {"0"} /\ CWidth(j) = NumSize
    /\ Sign(j.v.neg, CFlags(j)) = <<>>

(* 0.0096, if the double is a little less, as %.3g: the digit that the     *)
(* code leaves out, because it takes the exponent to be larger by one, is  *)
(* a zero that C drops.                                                    *)
LosesOnlyZero(j) ==
    LET known == KnownDigits(j.v, FigurePlaces(j))
    IN  /\ PlainForm(j) /\ "#" \notin CFlags(j) /\ Estimate(j.v) = Exponent(j.v) + 1
        /\ known < FigurePlaces(j) \/ \A k \in CNearest(CSignificand(j.v), known) : k % 10 = 0

(* The carry of a tie is missing as in Rollover: in the number itself when *)
(* %g prints it as %f does, and otherwise in its significand.              *)
CarryLost(j) ==
    IF Adaptive(j) /\ Exponent(j.v) \in -4 .. 5
    THEN HalfWay(j.v, FigurePlaces(j) - Exponent(j.v))
    ELSE HalfWay(CSignificand(j.v), FigurePlaces(j))

(* The flag # asks for a point, and the code prints no decimals. *)
LacksPointExp(j) ==
    /\ "#" \in CFlags(j)
    /\ IF PlainForm(j) THEN FigurePlaces(j) <= Estimate(j.v) ELSE FigurePlaces(j) = 0

(* Where the code prints another text than C: for 0, whose exponent it     *)
(* takes to be -308; where it takes an exponent for the one next to it;    *)
(* for a number that rounding carries to the next power of ten, or to the  *)
(* next whole number from half way.  %g has a digit too many without a     *)
(* precision, and chooses its form by the number alone.                    *)
DeviatesExp(j) ==
    LET e == Exponent(j.v)
        right == RightExponents(j)
    IN  \/ j.v.n = 0
        \/ Estimate(j.v) \notin right /\ ~LosesOnlyZero(j)
        \/ /\ Estimate(j.v) = e
           /\ CarryLost(j) \/ (e + 1 \in right /\ j.v.lean >= 0)
           /\ ~(Adaptive(j) /\ e + 1 \in right /\ ZerosAreRight(j))
        \/ Adaptive(j) /\ IF e \in -4 .. 5 THEN e > FigurePlaces(j)
                          ELSE CPrec(j) = Unset \/ e \in 0 .. FigurePlaces(j) \/ Estimate(j.v) = -4
        \/ LacksPointExp(j)

(* A text with a zero at the end of its decimals, where C drops it. *)
KeepsZeros(j, t) ==
    /\ Adaptive(j) /\ "#" \notin CFlags(j)
    /\ \E p, q \in DOMAIN t :
         /\ p < q /\ t[p] = "." /\ t[q] = "0"
         /\ \A i \in p + 1 .. q : t[i] \in Digits
         /\ q < Len(t) => t[q + 1] \notin Digits

CSpecial(j) ==
    CJustified(j, Sign(j.v.neg, CFlags(j)),
               IF j.dir.conv \in {"F", "E", "G"}
               THEN IF j.v.kind = "nan" THEN <<"N", "A", "N">> ELSE <<"I", "N", "F">>
               ELSE IF j.v.kind = "nan" THEN <<"n", "a", "n">> ELSE <<"i", "n", "f">>, FALSE)

(* The flag 0 takes the blanks away; %F, %E and %G print small letters; a  *)
(* blank is never the sign, and NaN has none.                              *)
DeviatesSpecial(j) ==
    \/ j.dir.conv \in {"F", "E", "G"}
    \/ CFlags(j) \intersect {"0", "-"} = {"0"} /\ Head(CSpecial(j)) = " "
    \/ j.v.kind = "nan" /\ (j.v.neg \/ "+" \in CFlags(j))
    \/ /\ ~j.v.neg /\ {"+", " "} \intersect CFlags(j) = {" "}
       /\ "-" \in CFlags(j) \/ CWidth(j) < 4

-------------------------------------------------------------------------------
(***************************************************************************)
(* Properties.                                                             *)
(***************************************************************************)
Inner == SubSeq(text, 2, Len(text) - 1)
Integral == job.dir.conv \in {"d", "i", "u", "x", "X", "o"}
Floating == job.dir.conv \in {"f", "F", "e", "E", "g", "G"}
Fixed == job.dir.conv \in {"f", "F"} /\ job.v.kind = "number" /\ job.v.scale >= 0
Exponential == Floating /\ ~Fixed /\ job.v.kind = "number"

(* A character or a string comes out as the C standard says, whatever      *)
(* flags, width and precision it has, except for a string whose precision  *)
(* is a negative argument (nothing is left of it).                         *)
TextsMatchC ==
    ret # Unset /\ job.dir.conv \in {"c", "s", "%"} =>
        \/ job.dir.conv = "s" /\ NegativePrecision(job)
        \/ Inner = CText(job)

(* An integer comes out as the C standard says, whatever flags, width,     *)
(* precision and length it has, except exactly where Deviates says: sign,  *)
(* prefix and zeros compete for the same field in _ntoa_format.            *)
IntegersMatchC ==
    ret # Unset /\ Integral /\ ~NegativePrecision(job) =>
        (Inner = CInteger(job)) <=> ~Deviates(job)

(* Integers, characters and strings come out as the C standard says,       *)
(* except exactly where the parts of this property name the deviation.     *)
MatchesC == TextsMatchC /\ IntegersMatchC

(* %f prints the decimal nearest to the number, one of the two if there    *)
(* are two, in a field of the right width (_ftoa), except exactly for -0,  *)
(* which comes out as 0, where a fraction that is half way has to be       *)
(* carried ("handle rollover", printf.c:345, is not done there), and where *)
(* the flag # asks for a point without decimals.  (Texts that are cut,     *)
(* more than nine decimals, and a precision that is a negative argument    *)
(* are left out.)                                                          *)
FixedIsNearest ==
    /\ ret # Unset /\ Fixed /\ ~NegativePrecision(job)
    /\ InReach(Smaller(CDecimals(job), job.v.scale), CFixed(job))
    => (Inner \in CFixed(job)) <=> ~(Rollover(job) \/ NegativeZero(job) \/ LacksPoint(job))

(* %e and %g print the significand nearest to the number, with one digit   *)
(* other than 0 before the point, and the exponent that goes with it, in a *)
(* field of the right width, except exactly where DeviatesExp says, and    *)
(* where %g keeps zeros at the end: _etoa finds the exponent before _ftoa  *)
(* rounds, splits the field between them, and drops nothing.  %f of a      *)
(* number above PRINTF_MAX_FLOAT is printed as %e is, on purpose           *)
(* (printf.c:313), where C prints all its digits.  (%g with a precision of *)
(* 0, which C takes for 1, a precision that is a negative argument, and    *)
(* what is out of reach are left out.)                                     *)
ExponentIsRight ==
    /\ ret # Unset /\ Exponential /\ ~NegativePrecision(job)
    /\ ~(Adaptive(job) /\ CDecimals(job) = 0)
    /\ InReach(MostDecimals(job), CExponent(WithHash(job)))
    => (Inner \in CExponent(job)) <=> ~(DeviatesExp(job) \/ KeepsZeros(job, Inner))

(* Infinities and NaN come out as the C standard says except exactly where *)
(* DeviatesSpecial says, whatever conversion they are printed by: their    *)
(* letters go to _out_rev without the steps that numbers go through.       *)
SpecialsAreShown ==
    ret # Unset /\ Floating /\ job.v.kind # "number" =>
        (Inner = CSpecial(job)) <=> ~DeviatesSpecial(job)

(* A floating-point number comes out as the C standard says, except        *)
(* exactly where the parts of this property name the deviation.            *)
FloatsMatchC == FixedIsNearest /\ ExponentIsRight /\ SpecialsAreShown

(* At any time snprintf's buffer holds the first maxlen characters of the  *)
(* text and nothing behind them; at the end it is a terminated prefix of   *)
(* the text, as long as fits.  putchar sees every character but NUL.       *)
SinkHoldsText ==
    CASE job.sink = "buffer" ->
            LET kept == Smaller(idx, IF ret = Unset THEN job.maxlen
                                     ELSE Larger(0, job.maxlen - 1))
            IN  buffer = SubSeq(text, 1, kept)
                            \o IF ret = Unset \/ job.maxlen = 0 THEN <<>> ELSE <<NUL>>
      [] job.sink = "putchar" -> buffer = Visible(text)
      [] OTHER -> buffer = <<>>
===============================================================================
