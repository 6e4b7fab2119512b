-------------------------------- MODULE Printf --------------------------------
(***************************************************************************)
(* The formatted output of printf.c: _vsnprintf walks the format one       *)
(* character at a time, and every character of the result goes through an  *)
(* output function that stores it, sends it to _putchar or drops it.       *)
(*                                                                         *)
(* A double is a kind, number, inf or nan, and for a number n in units of  *)
(* 10^-scale; scale is below 0 for the numbers above PRINTF_MAX_FLOAT and  *)
(* only for them.  What decimal arithmetic leaves open depends on the      *)
(* double: lean says to which side of one half a product falls that is     *)
(* half way in decimal, and on which side the approximations of _etoa      *)
(* leave a number close to a power of ten.  Otherwise their error is left  *)
(* out, and so is a format that ends within a directive.                   *)
(***************************************************************************)
EXTENDS Integers, Sequences, SequencesExt

CONSTANTS
    Families,   \* of calls: records of the sets their parts are taken from
    IntMod,     \* 2^w for the w bits of int and unsigned (2^32 in the code)
    LongMod,    \* for those of long and long long (2^64 in the code)
    NumSize     \* PRINTF_NTOA_BUFFER_SIZE and PRINTF_FTOA_BUFFER_SIZE (32)

NUL == "NUL"
DigitChars == <<"0", "1", "2", "3", "4", "5", "6", "7", "8", "9">>
FlagChars == {"0", "-", "+", " ", "#"}
LengthChars == {"l", "h", "t", "j", "z"}
Digits == {DigitChars[i] : i \in 1 .. 10}
Unset == -1
Star == -2     \* in a directive: the number is an argument

Lower == DigitChars \o <<"a", "b", "c", "d", "e", "f">>
Upper == DigitChars \o <<"A", "B", "C", "D", "E", "F">>

(* The table of powers in _ftoa. *)
Pow10(k) == LET pow10[i \in Nat] == IF i = 0 THEN 1 ELSE 10 * pow10[i - 1] IN pow10[k]

(* The digits of a number, the last one first. *)
Reversed(value, base, alphabet) ==
    LET digits[v \in Nat] ==
            <<alphabet[(v % base) + 1]>>
                \o IF v \div base = 0 THEN <<>> ELSE digits[v \div base]
    IN  digits[value]

Times(ch, n) == [i \in 1 .. n |-> ch]
Larger(a, b) == IF a > b THEN a ELSE b
Smaller(a, b) == IF a < b THEN a ELSE b

-------------------------------------------------------------------------------
(***************************************************************************)
(* Conversion of one argument.  Numbers are built back to front in a       *)
(* buffer of NumSize characters.                                           *)
(***************************************************************************)
Room(buf) == SubSeq(buf, 1, Smaller(Len(buf), NumSize))

FillTo(buf, ch, len) ==
    buf \o Times(ch, Larger(0, Smaller(len, NumSize) - Len(buf)))

OutRev(buf, width, flags) ==
    LET spaces == Times(" ", Larger(0, width - Len(buf)))
    IN  IF "-" \in flags THEN Reverse(buf) \o spaces
        ELSE IF "0" \in flags THEN Reverse(buf)
        ELSE spaces \o Reverse(buf)

Sign(negative, flags) ==
    IF negative THEN <<"-">>
    ELSE IF "+" \in flags THEN <<"+">>
    ELSE IF " " \in flags THEN <<" ">> ELSE <<>>

(* A sign takes one of the places to be filled with zeros. *)
ZeroWidth(width, negative, flags) ==
    IF width > 0 /\ {"0", "-"} \intersect flags = {"0"} /\ Sign(negative, flags) # <<>>
    THEN width - 1 ELSE width

PadZeros(buf, negative, prec, width, flags) ==
    IF "-" \in flags THEN buf
    ELSE LET zeros == FillTo(buf, "0", prec)
         IN  IF "0" \in flags
             THEN FillTo(zeros, "0", ZeroWidth(width, negative, flags))
             ELSE zeros

Letter(base, flags) ==
    CASE base = 16 -> IF "upper" \in flags THEN <<"X">> ELSE <<"x">>
      [] base = 2 -> <<"b">>
      [] OTHER -> <<>>

(* Mutant: the prefix takes nothing back from a filled field. *)
HashPrefixAdded(buf, base, width, flags) ==
    Room(Room(buf \o Letter(base, flags)) \o <<"0">>)

(* The prefix replaces zeros that filled the field: it takes back as many  *)
(* characters as it needs whenever the digits are as wide as the field.    *)
HashPrefix(buf, base, width, flags) ==
    LET full == "precision" \notin flags /\ Len(buf) > 0 /\ Len(buf) = width
        kept == IF ~full THEN Len(buf)
                ELSE IF base = 16 /\ Len(buf) > 1 THEN Len(buf) - 2
                ELSE Len(buf) - 1
    IN  Room(Room(SubSeq(buf, 1, kept) \o Letter(base, flags)) \o <<"0">>)

(* Only %d and %i have a sign, and they have no prefix. *)
NtoaFormat(buf, negative, base, prec, width, flags) ==
    LET zeros == PadZeros(buf, negative, prec, width, flags)
        hashed == IF "#" \notin flags THEN zeros
                  ELSE HashPrefix(zeros, base, ZeroWidth(width, negative, flags), flags)
    IN  OutRev(Room(hashed \o Sign(negative, flags)), width, flags)

(* _ntoa_long and _ntoa_long_long: no prefix for 0, no digit for 0 with an *)
(* explicit precision.                                                     *)
Ntoa(value, negative, base, prec, width, flags) ==
    LET digits == Room(Reversed(value, base,
                                IF "upper" \in flags THEN Upper ELSE Lower))
    IN  NtoaFormat(IF "precision" \in flags /\ value = 0 THEN <<>> ELSE digits,
                   negative, base, prec, width,
                   IF value = 0 THEN flags \ {"#"} ELSE flags)

Modulus(flags) == IF "hh" \in flags THEN 256
                  ELSE IF "h" \in flags THEN 65536
                  ELSE IF "l" \in flags THEN LongMod ELSE IntMod

Unsigned(n, flags) == n % Modulus(flags)

(* The argument of %d.  Plain char is unsigned on RISC-V. *)
SignedArg(n, flags) ==
    LET u == Unsigned(n, flags)
    IN  IF "hh" \in flags \/ 2 * u < Modulus(flags) THEN u ELSE u - Modulus(flags)

Base(conv) == CASE conv \in {"x", "X"} -> 16
                [] conv = "o" -> 8
                [] conv = "b" -> 2
                [] OTHER -> 10

(* The cases d, i, u, x, X, o, b of the switch over the specifier. *)
IntegerText(n, conv, prec, width, flags) ==
    LET signed == conv \in {"d", "i"}
        value == IF signed THEN SignedArg(n, flags) ELSE Unsigned(n, flags)
        used == (flags \union (IF conv = "X" THEN {"upper"} ELSE {}))
                \ ((IF Base(conv) = 10 THEN {"#"} ELSE {})
                   \union (IF signed THEN {} ELSE {"+", " "})
                   \union (IF "precision" \in flags THEN {"0"} ELSE {}))
    IN  Ntoa(IF value < 0 THEN -value ELSE value, value < 0, Base(conv),
             prec, width, used)

(* Mutant: a fraction that rounds up to one is not carried over. *)
RoundNoCarry(v, prec) ==
    LET p == Smaller(prec, v.scale)
        unit == Pow10(v.scale - p)
        frac == ((v.n % Pow10(v.scale)) \div unit) * Pow10(prec - p)
        up == 2 * (v.n % unit) > unit
    IN  [whole |-> v.n \div Pow10(v.scale), frac |-> IF up THEN frac + 1 ELSE frac]

(* Whole and fraction after rounding: the carry is made only when what is  *)
(* left is above one half, and never for one half exactly.                 *)
Round(v, prec) ==
    LET p == Smaller(prec, v.scale)
        unit == Pow10(v.scale - p)
        whole == v.n \div Pow10(v.scale)
        frac == ((v.n % Pow10(v.scale)) \div unit) * Pow10(prec - p)
        twice == 2 * (v.n % unit)
        above == twice > unit \/ (twice = unit /\ v.lean > 0)
        tie == twice = unit /\ v.lean = 0
        carry == above /\ frac + 1 = Pow10(prec)
        kept == IF carry THEN whole + 1 ELSE whole
    IN  [whole |-> IF prec = 0 /\ tie /\ kept % 2 = 1 THEN kept + 1 ELSE kept,
         frac |-> IF carry THEN 0
                  ELSE IF above \/ (tie /\ (frac = 0 \/ frac % 2 = 1))
                  THEN frac + 1 ELSE frac]

(* value < 0 is false of -0. *)
Below0(v) == v.neg /\ v.n # 0

(* _ftoa below PRINTF_MAX_FLOAT.  The zeros to add are counted down from   *)
(* the precision in an unsigned number: a fraction with one digit too many *)
(* makes it wrap, and the zeros fill the buffer.  The precision is counted *)
(* down to 9 while there is room for the zeros; if they fill the buffer    *)
(* before, pow10[] is read behind its end, and what is made of that (a     *)
(* fault of the load left out) finds no room in the text any more.         *)
FixedText(v, prec, width, flags) ==
    LET asked == IF "precision" \in flags THEN prec ELSE 6
        p == Smaller(asked, 9)
        r == Round(v, p)
        digits == Reversed(r.frac, 10, Lower)
        fraction == FillTo(digits, "0", IF Len(digits) > p THEN NumSize ELSE p)
        point == IF p = 0 THEN <<>>
                 ELSE Room(Times("0", asked - p) \o fraction \o <<".">>)
        number == Room(point \o Reversed(r.whole, 10, Lower))
        zeros == IF "0" \in flags /\ "-" \notin flags
                 THEN FillTo(number, "0", ZeroWidth(width, Below0(v), flags))
                 ELSE number
    IN  OutRev(Room(zeros \o Sign(Below0(v), flags)), width, flags)

SpecialText(v, width, flags) ==
    OutRev(IF v.kind = "nan" THEN <<"n", "a", "n">>
           ELSE <<"f", "n", "i">> \o (IF v.neg THEN <<"-">>
                                      ELSE IF "+" \in flags THEN <<"+">> ELSE <<>>),
           width, flags)

Exponent(v) == Len(Reversed(v.n, 10, Lower)) - 1 - v.scale
PowerOfTen(v) == v.n = Pow10(Len(Reversed(v.n, 10, Lower)) - 1)

(* expval.  The approximation makes -308 of 0; a power of ten above 1 may  *)
(* be below the power computed for it (1e5 is); and just below a power of  *)
(* ten the logarithm, which is rounded towards 0, may be too large by two  *)
(* and is corrected by one (9.4e-10).                                      *)
Estimate(v) ==
    LET e == Exponent(v)
    IN  IF v.n = 0 THEN -308
        ELSE IF PowerOfTen(v) /\ e > 0 /\ v.lean > 0 THEN e - 1
        ELSE IF 100 * v.n >= 93 * Pow10(e + v.scale + 1) /\ e < -1 /\ v.lean < 0 THEN e + 1
        ELSE e

(* v / 10^e, where e is the exponent of v or next to it. *)
Rescaled(v, e) ==
    IF v.scale + e >= 0 THEN [v EXCEPT !.scale = @ + e]
    ELSE [v EXCEPT !.scale = 0, !.n = 10 * @]

Field(text, width, flags) ==
    LET spaces == Times(" ", Larger(0, width - Len(text)))
    IN  IF "-" \in flags THEN text \o spaces ELSE spaces \o text

(* The fall back of %g to %f, for 1e-4 <= value < 1e6. *)
Plain(v, flags) == "adapt" \in flags /\ v.n # 0 /\ Exponent(v) \in -4 .. 5

(* What becomes of the precision, which %g counts in significant digits. *)
Decimals(v, prec, flags) ==
    LET asked == IF "precision" \in flags THEN prec ELSE 6
    IN  IF Plain(v, flags) THEN Larger(0, asked - Estimate(v) - 1)
        ELSE IF {"adapt", "precision"} \subseteq flags THEN Larger(0, asked - 1)
        ELSE asked

(* _etoa: the number by _ftoa in the field less the exponent's characters, *)
(* and the exponent by _ntoa_long as by %+03d.                             *)
EtoaText(v, prec, width, flags) ==
    LET expval == Estimate(v)
        plain == Plain(v, flags)
        minwidth == IF plain THEN 0 ELSE IF expval \in -99 .. 99 THEN 4 ELSE 5
        fwidth == IF "-" \in flags /\ ~plain THEN 0 ELSE Larger(0, width - minwidth)
        number == FixedText(IF plain THEN v ELSE Rescaled(v, expval),
                            Decimals(v, prec, flags), fwidth,
                            IF plain THEN flags \union {"precision"} ELSE flags)
        text == number \o <<IF "upper" \in flags THEN "E" ELSE "e">>
                  \o Ntoa(IF expval < 0 THEN -expval ELSE expval, expval < 0, 10, 0,
                          minwidth - 1, {"0", "+"})
    IN  IF v.kind # "number" THEN SpecialText(v, width, flags)
        ELSE IF plain THEN number
        ELSE IF "-" \in flags THEN Field(text, width, flags) ELSE text

FtoaText(v, prec, width, flags) ==
    IF v.kind # "number" THEN SpecialText(v, width, flags)
    ELSE IF v.scale < 0 THEN EtoaText(v, prec, width, flags)
    ELSE FixedText(v, prec, width, flags)

(* The case s: at most the precision's number of characters. *)
StringText(s, prec, width, flags) ==
    Field(IF "precision" \in flags THEN SubSeq(s, 1, Smaller(prec, Len(s))) ELSE s,
          width, flags)

-------------------------------------------------------------------------------
(***************************************************************************)
(* The walk over the format.                                               *)
(***************************************************************************)
VARIABLES
    job,        \* the call
    format,     \* what is left of the format
    stage,      \* the part of the directive that may come next
    flags, width, precision,
    star,       \* the * arguments not consumed yet
    idx,        \* characters put out
    text,       \* history: these characters
    buffer,     \* what the sink holds
    ret         \* the return value, Unset before

directive == <<flags, width, precision, star>>
vars == <<job, format, stage, flags, width, precision, star, idx, text, buffer, ret>>

(* The text of a directive, between two literals. *)
WidthText(d) == CASE d.width = Unset -> <<>> [] d.width = Star -> <<"*">>
                  [] OTHER -> Reverse(Reversed(d.width, 10, Lower))
PrecText(d) == CASE d.prec = Unset -> <<>> [] d.prec = Star -> <<".", "*">>
                 [] OTHER -> <<".">> \o Reverse(Reversed(d.prec, 10, Lower))
Render(d) ==
    <<"<", "%">> \o (d.flags \o (WidthText(d) \o (PrecText(d) \o (d.length \o <<d.conv, ">">>))))

(* A call: where the text goes, a directive, and one argument of each type. *)
Calls(f) ==
    [sink : f.sink, maxlen : f.maxlen, star : f.star, n : f.n, s : f.s, v : f.v,
     dir : [flags : f.flags, width : f.width, prec : f.prec,
            length : f.length, conv : f.conv]]

(* A call that a program can make: as many arguments as the directive asks *)
(* for, of their types, and no specifier that is a flag or a length.  A    *)
(* double with a negative scale is above PRINTF_MAX_FLOAT (1e9).           *)
Lengths == {<<>>, <<"h", "h">>, <<"h">>, <<"l">>, <<"l", "l">>, <<"t">>, <<"j">>, <<"z">>}
ASSUME CallsAssumption ==
    \A f \in Families :
        /\ f.sink \subseteq {"buffer", "putchar", "null"} /\ f.maxlen \subseteq Nat
        /\ f.n \subseteq Int /\ f.s \subseteq Seq(STRING)
        /\ f.flags \subseteq Seq(FlagChars) /\ f.length \subseteq Lengths
        /\ f.width \subseteq (Nat \ {0}) \union {Unset, Star}
        /\ f.prec \subseteq Nat \union {Unset, Star}
        /\ f.conv \subseteq STRING \ (FlagChars \union Digits \union LengthChars \union {"*", ".", NUL})
        /\ "c" \in f.conv => <<>> \notin f.s
        /\ f.star \subseteq Seq(Int)
        /\ Star \in f.width \union f.prec => <<>> \notin f.star
        /\ Star \in f.width \intersect f.prec => \A args \in f.star : Len(args) >= 2
        /\ f.v \subseteq [kind : {"number", "inf", "nan"}, neg : BOOLEAN, n : Nat, scale : Int,
                         lean : {-1, 0, 1}]
        /\ \A v \in f.v : v.scale < 0 => Exponent(v) >= 9
ASSUME TypeSizesAssumption ==
    {IntMod, LongMod, NumSize} \subseteq Nat \ {0}

Init ==
    /\ \E f \in Families : job \in Calls(f)
    /\ format = Render(job.dir)
    /\ stage = "text"
    /\ flags = {} /\ width = 0 /\ precision = 0
    /\ star = job.star
    /\ idx = 0 /\ text = <<>> /\ buffer = <<>> /\ ret = Unset

(* The characters that _out_char hands to _putchar, one after another. *)
Visible(chars) ==
    LET sent[i \in 0 .. Len(chars)] ==
            IF i = 0 THEN <<>>
            ELSE IF chars[i] = NUL THEN sent[i - 1] ELSE Append(sent[i - 1], chars[i])
    IN  sent[Len(chars)]

(* Mutant: what is stored leaves room for nothing but itself. *)
StoredLoose(chars) ==
    CASE job.sink = "buffer" -> SubSeq(chars, 1, Smaller(Len(chars), Larger(0, job.maxlen + 1 - idx)))
      [] job.sink = "putchar" -> Visible(chars)
      [] OTHER -> <<>>

(* What _out_buffer, _out_char (_out_fct) and _out_null keep of characters *)
(* put out from idx on.                                                    *)
Stored(chars) ==
    CASE job.sink = "buffer" ->
            SubSeq(chars, 1, Smaller(Len(chars), Larger(0, job.maxlen - idx)))
      [] job.sink = "putchar" -> Visible(chars)
      [] OTHER -> <<>>

Out(chars) ==
    /\ idx' = idx + Len(chars)
    /\ text' = text \o chars
    /\ buffer' = buffer \o Stored(chars)
    /\ UNCHANGED ret

Silent == UNCHANGED <<idx, text, buffer, ret>>

Head1 == IF format = <<>> THEN NUL ELSE Head(format)

(* The number at the head of s, and the rest. *)
Atoi(s) ==
    LET count == CHOOSE n \in 0 .. Len(s) :
                    /\ \A i \in 1 .. n : s[i] \in Digits
                    /\ n < Len(s) => s[n + 1] \notin Digits
        value[i \in 0 .. count] ==
            IF i = 0 THEN 0
            ELSE 10 * value[i - 1] + (CHOOSE k \in 0 .. 9 : DigitChars[k + 1] = s[i])
    IN  [n |-> value[count], rest |-> SubSeq(s, count + 1, Len(s))]

Literal ==
    /\ stage = "text" /\ Head1 \notin {NUL, "%"}
    /\ Out(<<Head1>>)
    /\ format' = Tail(format)
    /\ UNCHANGED <<job, stage, directive>>

Percent ==
    /\ stage = "text" /\ Head1 = "%"
    /\ stage' = "flags"
    /\ flags' = {} /\ width' = 0 /\ precision' = 0
    /\ format' = Tail(format)
    /\ UNCHANGED <<job, star>> /\ Silent

Flag ==
    /\ stage = "flags" /\ Head1 \in FlagChars
    /\ flags' = flags \union {Head1}
    /\ format' = Tail(format)
    /\ UNCHANGED <<job, stage, width, precision, star>> /\ Silent

(* A negative argument of * is the flag - and a width. *)
Width ==
    /\ stage = "flags" /\ Head1 \in (Digits \ {"0"}) \union {"*"}
    /\ stage' = "precision"
    /\ IF Head1 = "*"
       THEN /\ width' = IF star[1] < 0 THEN -star[1] ELSE star[1]
            /\ flags' = IF star[1] < 0 THEN flags \union {"-"} ELSE flags
            /\ star' = Tail(star)
            /\ format' = Tail(format)
       ELSE /\ width' = Atoi(format).n
            /\ format' = Atoi(format).rest
            /\ UNCHANGED <<flags, star>>
    /\ UNCHANGED <<job, precision>> /\ Silent

(* A negative argument of * is a precision of 0. *)
Precision ==
    /\ stage \in {"flags", "precision"} /\ Head1 = "."
    /\ stage' = "length"
    /\ flags' = flags \union {"precision"}
    /\ LET after == Tail(format)
       IN  IF Head(after) = "*"
           THEN /\ precision' = Larger(0, star[1])
                /\ star' = Tail(star)
                /\ format' = Tail(after)
           ELSE /\ precision' = Atoi(after).n
                /\ format' = Atoi(after).rest
                /\ UNCHANGED star
    /\ UNCHANGED <<job, width>> /\ Silent

(* ptrdiff_t, intmax_t and size_t are as wide as long. *)
Length ==
    /\ stage \in {"flags", "precision", "length"} /\ Head1 \in LengthChars
    /\ stage' = "convert"
    /\ LET twice == Head1 \in {"l", "h"} /\ Head(Tail(format)) = Head1
       IN  /\ flags' = flags \union
                 (CASE Head1 = "h" -> IF twice THEN {"h", "hh"} ELSE {"h"}
                    [] OTHER -> {"l"})
           /\ format' = IF twice THEN Tail(Tail(format)) ELSE Tail(format)
    /\ UNCHANGED <<job, width, precision, star>> /\ Silent

Taken == CASE stage = "flags" -> FlagChars \union Digits \union LengthChars \union {"*", "."}
           [] stage = "precision" -> LengthChars \union {"."}
           [] stage = "length" -> LengthChars
           [] OTHER -> {}

(* The cases f, F, e, E, g, G. *)
DoubleText(conv) ==
    LET used == flags \union (IF conv \in {"F", "E", "G"} THEN {"upper"} ELSE {})
                      \union (IF conv \in {"g", "G"} THEN {"adapt"} ELSE {})
    IN  IF conv \in {"f", "F"} THEN FtoaText(job.v, precision, width, used)
        ELSE EtoaText(job.v, precision, width, used)

(* The switch over the specifier; %% and an unknown one print themselves,  *)
(* and %p is 16 upper case digits of hexadecimal.                          *)
Converted(conv) ==
    CASE conv \in {"d", "i", "u", "x", "X", "o", "b"} ->
            IntegerText(job.n, conv, precision, width, flags)
      [] conv \in {"f", "F", "e", "E", "g", "G"} -> DoubleText(conv)
      [] conv = "c" -> Field(SubSeq(job.s, 1, 1), width, flags)
      [] conv = "s" -> StringText(job.s, precision, width, flags)
      [] conv = "p" -> Ntoa(Unsigned(job.n, {"l"}), FALSE, 16, precision, 16,
                            flags \union {"0", "upper"})
      [] OTHER -> <<conv>>

Convert ==
    /\ stage # "text" /\ Head1 \notin Taken \union {NUL}
    /\ \E chars \in {Converted(Head1)} : Out(chars)
    /\ stage' = "text"
    /\ format' = Tail(format)
    /\ UNCHANGED <<job, directive>>

(* The terminator replaces the last character that fits if need be. *)
Terminate ==
    /\ stage = "text" /\ Head1 = NUL /\ ret = Unset
    /\ ret' = idx
    /\ buffer' = IF job.sink = "buffer" /\ job.maxlen > 0 /\ idx >= job.maxlen
                 THEN [buffer EXCEPT ![job.maxlen] = NUL]
                 ELSE buffer \o Stored(<<NUL>>)
    /\ UNCHANGED <<job, format, stage, directive, idx, text>>

Next == Literal \/ Percent \/ Flag \/ Width \/ Precision \/ Length \/ Convert \/ Terminate

Spec == Init /\ [][Next]_vars
===============================================================================
