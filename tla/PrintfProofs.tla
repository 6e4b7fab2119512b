---------------------------- MODULE PrintfProofs ----------------------------
(***************************************************************************)
(* For every call, every size of the buffer and every width of the types:  *)
(* snprintf's buffer and _putchar get the text and nothing else, and a     *)
(* character, a string, a percent sign, an integer, an infinity or NaN     *)
(* comes out as C says (or as PrintfC names).  The invariant, PrintfInv,   *)
(* says where the walk is in the directive, what it has read of it (Walk), *)
(* and what is in the sink (Written); the lemmas on texts and numbers that *)
(* it needs come first.                                                    *)
(***************************************************************************)
EXTENDS PrintfC, SequenceTheorems, WellFoundedInduction, TLAPS

(* A set of numbers that is not empty has a least one. *)
LEMMA WellOrder ==
    ASSUME NEW T, T \subseteq Nat, T # {}
    PROVE  \E x \in T : \A y \in T : x <= y
  <1> DEFINE R == OpToRel(<, Nat)
  <1>1. IsWellFoundedOn(R, Nat)
    BY NatLessThanWellFounded
  <1>2. \A x \in Nat, y \in Nat : y < x => <<y, x>> \in R
    BY DEF OpToRel
  <1> HIDE DEF R
  <1>3. PICK x \in T : \A y \in T : ~ (<<y, x>> \in R)
    BY <1>1, WFMin
  <1>4. x \in Nat /\ \A y \in T : y \in Nat /\ ~ (y < x)
    BY <1>2, <1>3
  <1> QED
    BY <1>3, <1>4

(* Induction, for a set. *)
LEMMA Induct ==
    ASSUME NEW T, 0 \in T, \A n \in Nat : n \in T => n + 1 \in T
    PROVE  \A n \in Nat : n \in T
  <1> SUFFICES ASSUME Nat \ T # {} PROVE FALSE
    OBVIOUS
  <1>1. PICK x \in Nat \ T : \A y \in Nat \ T : x <= y
    BY WellOrder
  <1>2. x - 1 \in Nat /\ x - 1 \in T
    BY <1>1
  <1> QED
    BY <1>1, <1>2

(* The same, from all smaller numbers. *)
LEMMA InductBelow ==
    ASSUME NEW T, \A n \in Nat : (\A k \in 0 .. n - 1 : k \in T) => n \in T
    PROVE  \A n \in Nat : n \in T
  <1> SUFFICES ASSUME Nat \ T # {} PROVE FALSE
    OBVIOUS
  <1>1. PICK x \in Nat \ T : \A y \in Nat \ T : x <= y
    BY WellOrder
  <1>2. \A k \in 0 .. x - 1 : k \in T
    BY <1>1
  <1> QED
    BY <1>1, <1>2

-------------------------------------------------------------------------------
(***************************************************************************)
(* Recursive functions.  The digits of a number, the table of powers and   *)
(* what is sent are defined by recursion; that there are such functions is *)
(* shown once, and their types follow by induction.                        *)
(***************************************************************************)
(* A function on the numbers that is given by its values on Z and, beyond,  *)
(* by its value on a smaller number.                                       *)
Falls(Z, less) == \A v \in Nat \ Z : less[v] < v
Follows(f, Z, less, b, h) ==
    \A v \in Nat : f[v] = IF v \in Z THEN b[v] ELSE h[<<v, f[less[v]]>>]

(* Such a function exists: it is put together of functions on initial      *)
(* segments.                                                               *)
LEMMA Recursion ==
    ASSUME NEW S, NEW Z, NEW less \in [Nat -> Nat], Falls(Z, less),
           NEW b \in [Nat -> S], NEW h \in [Nat \X S -> S]
    PROVE  \E f \in [Nat -> S] : Follows(f, Z, less, b, h)
  <1> USE DEF Falls, Follows
  <1> DEFINE Holds(f, v) == f[v] = IF v \in Z THEN b[v] ELSE h[<<v, f[less[v]]>>]
             Parts(n) == {f \in [0 .. n -> S] : \A v \in 0 .. n : Holds(f, v)}
  <1>1. \A n \in Nat : Parts(n) # {}
    <2> DEFINE T == {n \in Nat : Parts(n) # {}}
    <2>1. 0 \in T
      <3>1. 0 \in Z
        OBVIOUS
      <3>2. [i \in 0 .. 0 |-> b[0]] \in Parts(0)
        BY <3>1
      <3> QED
        BY <3>2
    <2>2. ASSUME NEW n \in Nat, n \in T PROVE n + 1 \in T
      <3>1. PICK f \in [0 .. n -> S] : \A v \in 0 .. n : Holds(f, v)
        BY <2>2
      <3> DEFINE w == IF n + 1 \in Z THEN b[n + 1] ELSE h[<<n + 1, f[less[n + 1]]>>]
                 g == [i \in 0 .. n + 1 |-> IF i = n + 1 THEN w ELSE f[i]]
      <3>2. n + 1 \notin Z => less[n + 1] \in 0 .. n
        OBVIOUS
      <3>3. w \in S
        <4>1. CASE n + 1 \in Z
          BY <4>1
        <4>2. CASE n + 1 \notin Z
          <5>1. f[less[n + 1]] \in S
            BY <3>1, <3>2, <4>2
          <5>2. \A x \in S : <<n + 1, x>> \in Nat \X S
            BY n + 1 \in Nat
          <5> QED
            BY <4>2, <5>1, <5>2
        <4> QED
          BY <4>1, <4>2
      <3> HIDE DEF w
      <3>4. g \in [0 .. n + 1 -> S] /\ \A i \in 0 .. n : g[i] = f[i]
        BY <3>1, <3>3
      <3>5. g[n + 1] = w
        OBVIOUS
      <3> HIDE DEF g
      <3>6. \A v \in 0 .. n : v \notin Z => less[v] \in 0 .. n
        OBVIOUS
      <3>7. \A v \in 0 .. n : Holds(g, v)
        BY <3>1, <3>4, <3>6
      <3>8. Holds(g, n + 1)
        BY <3>2, <3>4, <3>5 DEF w
      <3>9. \A v \in 0 .. n + 1 : Holds(g, v)
        <4> HIDE DEF Holds
        <4>1. \A v \in 0 .. n + 1 : v \in 0 .. n \/ v = n + 1
          OBVIOUS
        <4> QED
          BY <3>7, <3>8, <4>1
      <3>10. g \in Parts(n + 1)
        BY <3>4, <3>9
      <3> HIDE DEF Parts
      <3> QED
        BY <3>10
    <2> HIDE DEF T
    <2>3. \A n \in Nat : n \in T
      BY <2>1, <2>2, Induct
    <2> QED
      BY <2>3 DEF T
  <1>2. \A v \in Nat : \A n, m \in Nat : v <= n /\ v <= m =>
            \A f \in Parts(n), g \in Parts(m) : f[v] = g[v]
    <2> DEFINE T == {v \in Nat : \A n, m \in Nat : v <= n /\ v <= m =>
                        \A f \in Parts(n), g \in Parts(m) : f[v] = g[v]}
    <2>1. ASSUME NEW v \in Nat, \A k \in 0 .. v - 1 : k \in T PROVE v \in T
      <3>1. ASSUME NEW n \in Nat, NEW m \in Nat, v <= n, v <= m,
                   NEW f \in Parts(n), NEW g \in Parts(m)
            PROVE  f[v] = g[v]
        <4>1. Holds(f, v) /\ Holds(g, v)
          <5> HIDE DEF Holds
          <5>1. v \in 0 .. n /\ v \in 0 .. m
            BY <3>1
          <5> QED
            BY <3>1, <5>1
        <4>2. v \notin Z => f[less[v]] = g[less[v]]
          <5> HIDE DEF Parts
          <5>1. v \notin Z => less[v] \in Nat /\ less[v] \in 0 .. v - 1 /\ less[v] < v
            OBVIOUS
          <5>2. v \notin Z => less[v] <= n /\ less[v] <= m
            BY <3>1, <5>1
          <5> QED
            BY <2>1, <3>1, <5>1, <5>2
        <4> QED
          BY <4>1, <4>2
      <3> HIDE DEF Parts
      <3> QED
        BY <3>1
    <2> HIDE DEF T
    <2>2. \A v \in Nat : v \in T
      BY <2>1, InductBelow
    <2> QED
      BY <2>2 DEF T
  <1> DEFINE Part(n) == CHOOSE f : f \in Parts(n)
             F == [n \in Nat |-> Part(n)[n]]
  <1>3. \A n \in Nat : Part(n) \in Parts(n)
    BY <1>1
  <1>4. ASSUME NEW v \in Nat PROVE F[v] \in S /\ Holds(F, v)
    <2>1. Part(v) \in [0 .. v -> S] /\ Holds(Part(v), v)
      <3> HIDE DEF Part
      <3>1. v \in 0 .. v
        OBVIOUS
      <3> QED
        BY <1>3, <3>1
    <2>2. F[v] = Part(v)[v] /\ F[v] \in S
      <3> HIDE DEF Part
      <3> QED
        BY <2>1
    <2>3. v \notin Z => F[less[v]] = Part(v)[less[v]]
      <3>1. v \notin Z => less[v] \in Nat /\ less[v] <= v
        OBVIOUS
      <3>2. v \notin Z => F[less[v]] = Part(less[v])[less[v]]
        BY <3>1
      <3> HIDE DEF Part, F, Parts
      <3> QED
        BY <1>2, <1>3, <3>1, <3>2
    <2> HIDE DEF F, Part
    <2> QED
      BY <2>1, <2>2, <2>3
  <1>5. F \in [Nat -> S]
    BY <1>4
  <1> QED
    BY <1>4, <1>5

(* The table of powers: each is ten times the one before it. *)
LEMMA PowersAre ==
    /\ Pow10(0) = 1
    /\ \A k \in Nat : Pow10(k + 1) = 10 * Pow10(k)
  <1> DEFINE Z == {0}
             less == [v \in Nat |-> IF v = 0 THEN 0 ELSE v - 1]
             b == [v \in Nat |-> 1]
             h == [p \in Nat \X Nat |-> 10 * p[2]]
             P == CHOOSE f : f = [i \in Nat |-> IF i = 0 THEN 1 ELSE 10 * f[i - 1]]
  <1>1. \E f : f = [i \in Nat |-> IF i = 0 THEN 1 ELSE 10 * f[i - 1]]
    <2>1. /\ less \in [Nat -> Nat] /\ \A v \in Nat \ Z : less[v] < v
          /\ b \in [Nat -> Nat] /\ h \in [Nat \X Nat -> Nat]
      OBVIOUS
    <2>2. \A v \in Nat : b[v] = 1 /\ (v # 0 => less[v] = v - 1)
      OBVIOUS
    <2>3. \A v \in Nat, x \in Nat : h[<<v, x>>] = 10 * x
      OBVIOUS
    <2>6. Falls(Z, less)
      BY <2>1 DEF Falls
    <2>7. \A v \in Nat : v \in Z <=> v = 0
      OBVIOUS
    <2> HIDE DEF less, b, h, Z, P
    <2>8. \E f \in [Nat -> Nat] : Follows(f, Z, less, b, h)
      BY <2>1, <2>6, Recursion, Zenon
    <2>4. PICK f \in [Nat -> Nat] :
              \A v \in Nat : f[v] = IF v \in Z THEN b[v] ELSE h[<<v, f[less[v]]>>]
      BY <2>8 DEF Follows
    <2>5. \A v \in Nat : f[v] = IF v = 0 THEN 1 ELSE 10 * f[v - 1]
      <3> TAKE v \in Nat
      <3>1. CASE v = 0
        BY <2>2, <2>4, <2>7, <3>1
      <3>2. CASE v # 0
        <4>1. v - 1 \in Nat /\ f[v - 1] \in Nat /\ less[v] = v - 1
          BY <2>2, <2>4, <3>2
        <4>2. f[v] = h[<<v, f[v - 1]>>]
          BY <2>4, <2>7, <3>2, <4>1
        <4> QED
          BY <2>3, <3>2, <4>1, <4>2
      <3> QED
        BY <3>1, <3>2
    <2> QED
      BY <2>4, <2>5
  <1>2. P = [i \in Nat |-> IF i = 0 THEN 1 ELSE 10 * P[i - 1]]
    BY <1>1
  <1>3. \A k \in Nat : Pow10(k) = P[k]
    BY DEF Pow10
  <1> HIDE DEF P
  <1>4. P[0] = 1 /\ \A n \in Nat : P[n + 1] = 10 * P[n]
    BY <1>2
  <1> QED
    BY <1>3, <1>4

(* The entries of the table of powers are not 0 (_ftoa divides by them). *)
LEMMA PowerIsPositive == \A k \in Nat : Pow10(k) \in Nat \ {0}
  <1> DEFINE T == {k \in Nat : Pow10(k) \in Nat \ {0}}
  <1>4. 0 \in T /\ \A n \in Nat : n \in T => n + 1 \in T
    BY PowersAre
  <1> HIDE DEF T
  <1>5. \A n \in Nat : n \in T
    BY <1>4, Induct
  <1> QED
    BY <1>5 DEF T

(* The characters.  The provers do not know of a string that it belongs to *)
(* STRING, so those of the code are named.                                 *)
Known == {NUL, "0", "1", "2", "3", "4", "5", "6", "7", "8", "9", "a", "b", "c", "d", "e", "f",
          "A", "B", "C", "D", "E", "F", "I", "N", "x", "X", "n", "i", "-", "+", " ", "#", ".",
          "*", "%", "<", ">", "h", "l", "t", "j", "z"}
Chars == STRING \union Known

(* The characters that the conversions put out are characters. *)
LEMMA KnownAre ==
    /\ "0" \in Chars /\ " " \in Chars /\ "-" \in Chars /\ "+" \in Chars /\ "." \in Chars
    /\ "x" \in Chars /\ "X" \in Chars /\ "b" \in Chars /\ "e" \in Chars /\ "E" \in Chars
    /\ "n" \in Chars /\ "a" \in Chars /\ "f" \in Chars /\ "i" \in Chars /\ NUL \in Chars
    /\ "N" \in Chars /\ "A" \in Chars /\ "F" \in Chars /\ "I" \in Chars
  BY DEF Chars, Known

(* A text of one character. *)
LEMMA OneChar ==
    ASSUME NEW S, NEW ch \in S
    PROVE  <<ch>> \in Seq(S)
  OBVIOUS

(* The last digit comes first, and then those of what is left. *)
LEMMA ReversedIs ==
    ASSUME NEW C, NEW base \in Nat \ {0, 1}, NEW alphabet, \A k \in 1 .. base : alphabet[k] \in C
    PROVE  \A v \in Nat :
              /\ Reversed(v, base, alphabet) \in Seq(C) \ {<<>>}
              /\ Reversed(v, base, alphabet) =
                    <<alphabet[(v % base) + 1]>>
                        \o IF v \div base = 0 THEN <<>> ELSE Reversed(v \div base, base, alphabet)
  <1> DEFINE S == Seq(C)
             ch(v) == <<alphabet[(v % base) + 1]>>
             Z == {v \in Nat : v \div base = 0}
             less == [v \in Nat |-> v \div base]
             b == [v \in Nat |-> ch(v)]
             h == [p \in Nat \X S |-> ch(p[1]) \o p[2]]
             R == CHOOSE f : f = [v \in Nat |-> ch(v) \o IF v \div base = 0 THEN <<>>
                                                       ELSE f[v \div base]]
  <1>1. \A v \in Nat : v \div base \in Nat /\ (v \div base # 0 => v \div base < v)
    <2> TAKE v \in Nat
    <2>1. v = base * (v \div base) + (v % base) /\ v % base \in Nat /\ v \div base \in Nat
      OBVIOUS
    <2> QED
      BY <2>1
  <1>2. \A v \in Nat : ch(v) \in S
    OBVIOUS
  <1> HIDE DEF ch
  <1>3. \E f \in [Nat -> S] : f = [v \in Nat |-> ch(v) \o IF v \div base = 0 THEN <<>>
                                                        ELSE f[v \div base]]
    <2>1. less \in [Nat -> Nat] /\ b \in [Nat -> S]
      BY <1>1, <1>2
    <2>2. h \in [Nat \X S -> S]
      BY <1>2, ConcatProperties
    <2>3. \A v \in Nat : b[v] = ch(v) /\ less[v] = v \div base /\ (v \in Z <=> v \div base = 0)
      OBVIOUS
    <2>4. \A v \in Nat, x \in S : h[<<v, x>>] = ch(v) \o x
      OBVIOUS
    <2>5. Falls(Z, less)
      BY <1>1 DEF Falls
    <2> HIDE DEF less, b, h, Z, S
    <2>9. \E f \in [Nat -> S] : Follows(f, Z, less, b, h)
      BY <2>1, <2>2, <2>5, Recursion, Zenon
    <2>6. PICK f \in [Nat -> S] :
              \A v \in Nat : f[v] = IF v \in Z THEN b[v] ELSE h[<<v, f[less[v]]>>]
      BY <2>9 DEF Follows
    <2>7. \A v \in Nat : ch(v) \o <<>> = ch(v)
      BY <1>2, ConcatEmptySeq DEF S
    <2>8. \A v \in Nat : f[v] = ch(v) \o IF v \div base = 0 THEN <<>> ELSE f[v \div base]
      <3> TAKE v \in Nat
      <3>1. CASE v \div base = 0
        BY <2>3, <2>6, <2>7, <3>1
      <3>2. CASE v \div base # 0
        <4>1. f[v \div base] \in S
          BY <1>1, <2>6
        <4>2. f[v] = h[<<v, f[v \div base]>>]
          BY <2>3, <2>6, <3>2
        <4> QED
          BY <2>4, <3>2, <4>1, <4>2
      <3> QED
        BY <3>1, <3>2
    <2> QED
      BY <2>6, <2>8
  <1>4. R = [v \in Nat |-> ch(v) \o IF v \div base = 0 THEN <<>> ELSE R[v \div base]]
    BY <1>3
  <1>5. \A v \in Nat : Reversed(v, base, alphabet) = R[v]
    BY DEF Reversed, ch
  <1> HIDE DEF R
  <1> DEFINE T == {v \in Nat : R[v] \in S \ {<<>>}}
  <1>6. ASSUME NEW v \in Nat, \A k \in 0 .. v - 1 : k \in T PROVE v \in T
    <2>1. R[v] = ch(v) \o IF v \div base = 0 THEN <<>> ELSE R[v \div base]
      BY <1>4
    <2>2. v \div base # 0 => R[v \div base] \in S
      <3>1. v \div base # 0 => v \div base \in 0 .. v - 1
        BY <1>1
      <3> QED
        BY <1>6, <3>1
    <2>3. (IF v \div base = 0 THEN <<>> ELSE R[v \div base]) \in S
      <3>1. <<>> \in Seq(C)
        OBVIOUS
      <3> QED
        BY <2>2, <3>1
    <2>4. \A x \in S : ch(v) \o x \in S \ {<<>>}
      <3>1. Len(ch(v)) = 1
        BY DEF ch
      <3> QED
        <4> TAKE x \in S
        <4>1. ch(v) \in Seq(C) /\ x \in Seq(C)
          BY <1>2
        <4>2. ch(v) \o x \in Seq(C) /\ Len(ch(v) \o x) = 1 + Len(x) /\ Len(x) \in Nat
          BY <3>1, <4>1, ConcatProperties, LenProperties
        <4>3. Len(<<>>) = 0
          OBVIOUS
        <4> QED
          BY <4>2, <4>3
    <2> QED
      BY <2>1, <2>3, <2>4
  <1> HIDE DEF T
  <1>7. \A v \in Nat : v \in T
    BY <1>6, InductBelow
  <1>8. \A v \in Nat : R[v] \in S \ {<<>>}
    BY <1>7 DEF T
  <1>9. \A v \in Nat : R[v] = ch(v) \o IF v \div base = 0 THEN <<>> ELSE R[v \div base]
    BY <1>4
  <1> QED
    BY <1>1, <1>5, <1>8, <1>9 DEF ch

(* What _putchar has been sent after i characters. *)
Sent(chars) ==
    CHOOSE f : f = [i \in 0 .. Len(chars) |->
                        IF i = 0 THEN <<>>
                        ELSE IF chars[i] = NUL THEN f[i - 1] ELSE Append(f[i - 1], chars[i])]

(* _out_char hands over all characters but NUL, in their order. *)
LEMMA SentIs ==
    ASSUME NEW chars \in Seq(Chars)
    PROVE  /\ Visible(chars) = Sent(chars)[Len(chars)]
           /\ Sent(chars)[0] = <<>>
           /\ \A i \in 1 .. Len(chars) :
                  Sent(chars)[i] = IF chars[i] = NUL THEN Sent(chars)[i - 1]
                                   ELSE Append(Sent(chars)[i - 1], chars[i])
           /\ \A i \in 0 .. Len(chars) : Sent(chars)[i] \in Seq(Chars)
  <1> DEFINE n == Len(chars)
             S == Seq(Chars)
             Z == {0}
             less == [v \in Nat |-> IF v = 0 THEN 0 ELSE v - 1]
             b == [v \in Nat |-> <<>>]
             next(v, x) == IF v \notin 1 .. n THEN x
                           ELSE IF chars[v] = NUL THEN x ELSE Append(x, chars[v])
             h == [p \in Nat \X S |-> next(p[1], p[2])]
  <1>1. n \in Nat /\ \A i \in 1 .. n : chars[i] \in Chars
    BY LenProperties, ElementOfSeq
  <1>2. \A v \in Nat, x \in S : next(v, x) \in S
    BY <1>1, AppendProperties
  <1>3. \E f : f = [i \in 0 .. n |->
                        IF i = 0 THEN <<>>
                        ELSE IF chars[i] = NUL THEN f[i - 1] ELSE Append(f[i - 1], chars[i])]
    <2>1. less \in [Nat -> Nat] /\ Falls(Z, less)
      BY DEF Falls
    <2>2. b \in [Nat -> S] /\ h \in [Nat \X S -> S]
      <3>1. <<>> \in S
        OBVIOUS
      <3> HIDE DEF next, S
      <3> QED
        BY <1>2, <3>1
    <2>3. \A v \in Nat : b[v] = <<>> /\ (v # 0 => less[v] = v - 1) /\ (v \in Z <=> v = 0)
      OBVIOUS
    <2>4. \A v \in Nat, x \in S : h[<<v, x>>] = next(v, x)
      OBVIOUS
    <2> HIDE DEF less, b, h, Z, S, n
    <2>5. \E f \in [Nat -> S] : Follows(f, Z, less, b, h)
      BY <2>1, <2>2, Recursion, Zenon
    <2>6. PICK f \in [Nat -> S] :
              \A v \in Nat : f[v] = IF v \in Z THEN b[v] ELSE h[<<v, f[less[v]]>>]
      BY <2>5 DEF Follows
    <2>7. f[0] = <<>>
      BY <2>3, <2>6
    <2>8. ASSUME NEW v \in 1 .. n
          PROVE  f[v] = IF chars[v] = NUL THEN f[v - 1] ELSE Append(f[v - 1], chars[v])
      <3>1. v \in Nat /\ v # 0 /\ v - 1 \in Nat /\ f[v - 1] \in S
        BY <1>1, <2>6
      <3>2. f[v] = h[<<v, f[v - 1]>>]
        BY <2>3, <2>6, <3>1
      <3> QED
        BY <2>4, <3>1, <3>2
    <2> DEFINE g == [i \in 0 .. n |-> f[i]]
    <2>9. \A i \in 0 .. n : g[i] = f[i]
      OBVIOUS
    <2>10. \A i \in 0 .. n : i # 0 => i \in 1 .. n /\ i - 1 \in 0 .. n
      BY <1>1
    <2>11. \A i \in 0 .. n :
              g[i] = IF i = 0 THEN <<>>
                     ELSE IF chars[i] = NUL THEN g[i - 1] ELSE Append(g[i - 1], chars[i])
      <3> HIDE DEF g
      <3> QED
        BY <2>7, <2>8, <2>9, <2>10
    <2>12. g = [i \in 0 .. n |->
                  IF i = 0 THEN <<>>
                  ELSE IF chars[i] = NUL THEN g[i - 1] ELSE Append(g[i - 1], chars[i])]
      BY <2>11
    <2> QED
      BY <2>12
  <1>4. Sent(chars) = [i \in 0 .. n |->
                        IF i = 0 THEN <<>>
                        ELSE IF chars[i] = NUL THEN Sent(chars)[i - 1]
                             ELSE Append(Sent(chars)[i - 1], chars[i])]
    BY <1>3, Zenon DEF Sent
  <1>5. Visible(chars) = Sent(chars)[n]
    BY Zenon DEF Visible, Sent
  <1> DEFINE g == Sent(chars)
  <1>6. /\ g[0] = <<>>
        /\ \A i \in 1 .. n :
              g[i] = IF chars[i] = NUL THEN g[i - 1] ELSE Append(g[i - 1], chars[i])
    <2> HIDE DEF n, g
    <2>1. g = [i \in 0 .. n |->
                  IF i = 0 THEN <<>>
                  ELSE IF chars[i] = NUL THEN g[i - 1] ELSE Append(g[i - 1], chars[i])]
      BY <1>4 DEF g
    <2>2. 0 \in 0 .. n /\ \A i \in 1 .. n : i \in 0 .. n /\ i # 0
      BY <1>1
    <2> QED
      BY <2>1, <2>2
  <1> HIDE DEF g
  <1> DEFINE T == {i \in Nat : i <= n => g[i] \in S}
  <1>7. 0 \in T
    <2>1. <<>> \in S
      OBVIOUS
    <2> QED
      BY <1>6, <2>1
  <1>8. ASSUME NEW i \in Nat, i \in T PROVE i + 1 \in T
    <2> SUFFICES ASSUME i + 1 <= n PROVE g[i + 1] \in S
      OBVIOUS
    <2>1. i + 1 \in 1 .. n /\ (i + 1) - 1 = i /\ g[i] \in S
      BY <1>1, <1>8
    <2>2. chars[i + 1] \in Chars
      BY <1>1, <2>1
    <2>3. Append(g[i], chars[i + 1]) \in S
      BY <2>1, <2>2, AppendProperties
    <2> QED
      BY <1>6, <2>1, <2>3
  <1> HIDE DEF T
  <1>9. \A i \in Nat : i \in T
    BY <1>7, <1>8, Induct
  <1>10. \A i \in 0 .. n : g[i] \in S
    BY <1>1, <1>9 DEF T
  <1> QED
    BY <1>5, <1>6, <1>10 DEF g

(* Of no characters none is sent. *)
LEMMA VisibleOfNone == Visible(<<>>) = <<>>
  <1>1. <<>> \in Seq(Chars) /\ Len(<<>>) = 0
    BY EmptySeq
  <1> QED
    BY <1>1, SentIs

(* A character more is sent unless it is NUL. *)
LEMMA VisibleOne ==
    ASSUME NEW s \in Seq(Chars), NEW ch \in Chars
    PROVE  Visible(Append(s, ch)) = IF ch = NUL THEN Visible(s) ELSE Append(Visible(s), ch)
  <1> DEFINE n == Len(s)
             t == Append(s, ch)
             f == Sent(s)
             g == Sent(t)
             T == {i \in Nat : i <= n => g[i] = f[i]}
  <1>1. /\ t \in Seq(Chars) /\ n \in Nat /\ Len(t) = n + 1 /\ t[n + 1] = ch
        /\ \A i \in 1 .. n : t[i] = s[i]
    <2>1. \A i \in 1 .. n : t[i] = s[i]
      BY AppendProperties
    <2>2. n \in Nat
      BY LenProperties
    <2> QED
      BY <2>1, <2>2, AppendProperties
  <1>2. /\ f[0] = <<>>
        /\ \A i \in 1 .. n : f[i] = IF s[i] = NUL THEN f[i - 1] ELSE Append(f[i - 1], s[i])
        /\ f[n] = Visible(s)
    BY SentIs
  <1>3. /\ g[0] = <<>>
        /\ \A i \in 1 .. n + 1 : g[i] = IF t[i] = NUL THEN g[i - 1] ELSE Append(g[i - 1], t[i])
        /\ g[n + 1] = Visible(t)
    BY <1>1, SentIs
  <1> HIDE DEF f, g, t, n
  <1>4. 0 \in T
    BY <1>2, <1>3
  <1>5. ASSUME NEW i \in Nat, i \in T PROVE i + 1 \in T
    <2> SUFFICES ASSUME i + 1 <= n PROVE g[i + 1] = f[i + 1]
      OBVIOUS
    <2>1. i + 1 \in 1 .. n /\ i + 1 \in 1 .. n + 1 /\ (i + 1) - 1 = i /\ g[i] = f[i]
      BY <1>1, <1>5
    <2> QED
      BY <1>1, <1>2, <1>3, <2>1
  <1> HIDE DEF T
  <1>6. \A i \in Nat : i \in T
    BY <1>4, <1>5, Induct
  <1>7. g[n] = f[n]
    BY <1>1, <1>6 DEF T
  <1>8. n + 1 \in 1 .. n + 1 /\ (n + 1) - 1 = n
    BY <1>1
  <1> QED
    BY <1>1, <1>2, <1>3, <1>7, <1>8 DEF t

(* Appending to the second of two pieces of text. *)
LEMMA AppendOfBoth ==
    ASSUME NEW s \in Seq(Chars), NEW t \in Seq(Chars), NEW ch \in Chars
    PROVE  s \o Append(t, ch) = Append(s \o t, ch)
  <1>1. <<ch>> \in Seq(Chars) /\ s \o t \in Seq(Chars)
    <2>1. <<ch>> \in Seq(Chars)
      BY OneChar
    <2> QED
      BY <2>1, ConcatProperties
  <1>2. Append(t, ch) = t \o <<ch>>
    BY AppendIsConcat
  <1>3. Append(s \o t, ch) = (s \o t) \o <<ch>>
    BY <1>1, AppendIsConcat
  <1>4. (s \o t) \o <<ch>> = s \o (t \o <<ch>>)
    BY <1>1, ConcatAssociative
  <1> QED
    BY <1>2, <1>3, <1>4

(* What is sent of two pieces of text is sent of one and then the other.   *)
LEMMA VisibleOfBoth ==
    ASSUME NEW s \in Seq(Chars), NEW t \in Seq(Chars)
    PROVE  /\ Visible(s \o t) = Visible(s) \o Visible(t)
           /\ Visible(s) \in Seq(Chars)
  <1>0. \A x \in Seq(Chars) : Visible(x) \in Seq(Chars)
    <2> TAKE x \in Seq(Chars)
    <2>1. Len(x) \in Nat
      BY LenProperties
    <2>2. Len(x) \in 0 .. Len(x)
      BY <2>1
    <2> QED
      BY <2>2, SentIs
  <1> DEFINE T == {n \in Nat : \A x \in Seq(Chars) : Len(x) = n =>
                                  Visible(s \o x) = Visible(s) \o Visible(x)}
  <1>1. 0 \in T
    <2>1. \A x \in Seq(Chars) : Len(x) = 0 => x = <<>>
      BY EmptySeq
    <2>2. Visible(<<>>) = <<>>
      BY SentIs
    <2>3. s \o <<>> = s /\ Visible(s) \o <<>> = Visible(s)
      BY <1>0, ConcatEmptySeq
    <2> QED
      BY <2>1, <2>2, <2>3
  <1>2. ASSUME NEW n \in Nat, n \in T PROVE n + 1 \in T
    <2> SUFFICES ASSUME NEW x \in Seq(Chars), Len(x) = n + 1
                 PROVE  Visible(s \o x) = Visible(s) \o Visible(x)
      OBVIOUS
    <2>1. PICK y \in Seq(Chars), ch \in Chars : x = Append(y, ch)
      <3>1. x # <<>>
        BY EmptySeq
      <3> QED
        BY <3>1, SequenceEmptyOrAppend, Zenon
    <2>2. Len(y) = n
      BY <2>1, AppendProperties, LenProperties
    <2>3. Visible(s \o y) = Visible(s) \o Visible(y)
      BY <1>2, <2>2
    <2>4. s \o x = Append(s \o y, ch) /\ s \o y \in Seq(Chars)
      BY <2>1, AppendOfBoth, ConcatProperties
    <2>5. Visible(s \o x) = IF ch = NUL THEN Visible(s \o y) ELSE Append(Visible(s \o y), ch)
      BY <2>4, VisibleOne
    <2>6. Visible(x) = IF ch = NUL THEN Visible(y) ELSE Append(Visible(y), ch)
      BY <2>1, VisibleOne
    <2>7. Append(Visible(s) \o Visible(y), ch) = Visible(s) \o Append(Visible(y), ch)
      BY <1>0, AppendOfBoth
    <2> QED
      BY <2>3, <2>5, <2>6, <2>7
  <1> HIDE DEF T
  <1>3. \A n \in Nat : n \in T
    BY <1>1, <1>2, Induct
  <1>4. Len(t) \in Nat
    BY LenProperties
  <1> QED
    BY <1>0, <1>3, <1>4 DEF T

-------------------------------------------------------------------------------
(***************************************************************************)
(* Every conversion puts out characters.                                   *)
(***************************************************************************)
(* A character several times. *)
LEMMA TimesIs ==
    ASSUME NEW S, NEW ch \in S, NEW n \in Nat
    PROVE  Times(ch, n) \in Seq(S) /\ Len(Times(ch, n)) = n
  BY DEF Times

(* The first n characters of a text. *)
LEMMA PrefixIs ==
    ASSUME NEW S, NEW s \in Seq(S), NEW n \in Nat, n <= Len(s)
    PROVE  /\ SubSeq(s, 1, n) \in Seq(S) /\ Len(SubSeq(s, 1, n)) = n
           /\ \A i \in 1 .. n : SubSeq(s, 1, n)[i] = s[i]
  <1>1. \A i \in 1 .. n : s[i] \in S
    <2> TAKE i \in 1 .. n
    <2>1. Len(s) \in Nat
      BY LenProperties
    <2>2. i \in 1 .. Len(s)
      BY <2>1
    <2> QED
      BY <2>2, ElementOfSeq
  <1>2. 1 \in Int /\ n \in Int
    OBVIOUS
  <1>3. /\ SubSeq(s, 1, n) \in Seq(S)
        /\ Len(SubSeq(s, 1, n)) = IF 1 <= n THEN n - 1 + 1 ELSE 0
        /\ \A i \in 1 .. n - 1 + 1 : SubSeq(s, 1, n)[i] = s[1 + i - 1]
    BY <1>1, <1>2, SubSeqProperties
  <1> QED
    BY <1>3

(* A text back to front. *)
LEMMA ReverseIs ==
    ASSUME NEW S, NEW s \in Seq(S)
    PROVE  Reverse(s) \in Seq(S) /\ Len(Reverse(s)) = Len(s)
  <1>1. Len(s) \in Nat /\ \A i \in 1 .. Len(s) : s[i] \in S
    BY LenProperties, ElementOfSeq
  <1> DEFINE n == Len(s)
  <1>2. \A i \in 1 .. n : s[(n - i) + 1] \in S
    BY <1>1
  <1>3. Reverse(s) = [i \in 1 .. n |-> s[(n - i) + 1]]
    BY DEF Reverse
  <1> HIDE DEF n
  <1> QED
    BY <1>1, <1>2, <1>3 DEF n

(* What fits the conversion buffer. *)
LEMMA RoomIs ==
    ASSUME NEW S, NEW s \in Seq(S)
    PROVE  Room(s) \in Seq(S) /\ Len(Room(s)) <= Len(s)
  <1>1. Len(s) \in Nat /\ NumSize \in Nat
    BY LenProperties, TypeSizesAssumption
  <1>2. Smaller(Len(s), NumSize) \in Nat /\ Smaller(Len(s), NumSize) <= Len(s)
    BY <1>1 DEF Smaller
  <1> QED
    BY <1>2, PrefixIs DEF Room

(* A text filled up with a character. *)
LEMMA FillToIs ==
    ASSUME NEW S, NEW s \in Seq(S), NEW ch \in S, NEW len \in Nat
    PROVE  FillTo(s, ch, len) \in Seq(S)
  <1>1. Len(s) \in Nat /\ NumSize \in Nat
    BY LenProperties, TypeSizesAssumption
  <1>2. Larger(0, Smaller(len, NumSize) - Len(s)) \in Nat
    BY <1>1 DEF Smaller, Larger
  <1> QED
    BY <1>2, TimesIs, ConcatProperties DEF FillTo

(* The blanks that fill a field. *)
LEMMA SpacesAre ==
    ASSUME NEW s \in Seq(Chars), NEW w \in Nat
    PROVE  Times(" ", Larger(0, w - Len(s))) \in Seq(Chars)
  <1>1. Larger(0, w - Len(s)) \in Nat
    BY LenProperties DEF Larger
  <1>2. " " \in Chars
    BY KnownAre
  <1> QED
    BY <1>1, <1>2, TimesIs

(* _out_rev puts out characters. *)
LEMMA OutRevIs ==
    ASSUME NEW s \in Seq(Chars), NEW w \in Nat, NEW fl
    PROVE  OutRev(s, w, fl) \in Seq(Chars)
  BY SpacesAre, ReverseIs, ConcatProperties DEF OutRev

(* So do the loops that fill a field before or after a string. *)
LEMMA FieldIs ==
    ASSUME NEW s \in Seq(Chars), NEW w \in Nat, NEW fl
    PROVE  Field(s, w, fl) \in Seq(Chars)
  BY SpacesAre, ConcatProperties DEF Field

(* A sign is a character or none. *)
LEMMA SignIs ==
    ASSUME NEW negative, NEW fl
    PROVE  Sign(negative, fl) \in Seq(Chars)
  <1>1. "-" \in Chars /\ "+" \in Chars /\ " " \in Chars
    BY KnownAre
  <1>2. <<"-">> \in Seq(Chars) /\ <<"+">> \in Seq(Chars) /\ <<" ">> \in Seq(Chars)
    BY <1>1, OneChar
  <1>3. <<>> \in Seq(Chars)
    BY EmptySeq
  <1> QED
    BY <1>2, <1>3 DEF Sign

(* Taking a place for the sign never makes the width negative. *)
LEMMA ZeroWidthIs ==
    ASSUME NEW w \in Nat, NEW negative, NEW fl
    PROVE  ZeroWidth(w, negative, fl) \in Nat
  BY DEF ZeroWidth

(* The zeros of the precision and of the field are characters. *)
LEMMA PadZerosIs ==
    ASSUME NEW s \in Seq(Chars), NEW negative, NEW p \in Nat, NEW w \in Nat, NEW fl
    PROVE  PadZeros(s, negative, p, w, fl) \in Seq(Chars)
  <1>1. "0" \in Chars
    BY KnownAre
  <1>2. FillTo(s, "0", p) \in Seq(Chars)
    BY <1>1, FillToIs
  <1>3. FillTo(FillTo(s, "0", p), "0", ZeroWidth(w, negative, fl)) \in Seq(Chars)
    BY <1>1, <1>2, FillToIs, ZeroWidthIs
  <1> QED
    BY <1>2, <1>3 DEF PadZeros

(* So is the prefix, which never takes back more than there is. *)
LEMMA HashPrefixIs ==
    ASSUME NEW s \in Seq(Chars), NEW base, NEW w \in Nat, NEW fl
    PROVE  HashPrefix(s, base, w, fl) \in Seq(Chars)
  <1> DEFINE full == "precision" \notin fl /\ Len(s) > 0 /\ Len(s) = w
             kept == IF ~full THEN Len(s)
                     ELSE IF base = 16 /\ Len(s) > 1 THEN Len(s) - 2
                     ELSE Len(s) - 1
  <1>1. kept \in Nat /\ kept <= Len(s)
    BY LenProperties
  <1>2. Letter(base, fl) \in Seq(Chars) /\ <<"0">> \in Seq(Chars)
    <2>1. "0" \in Chars /\ "x" \in Chars /\ "X" \in Chars /\ "b" \in Chars
      BY KnownAre
    <2>2. /\ <<"0">> \in Seq(Chars) /\ <<"x">> \in Seq(Chars)
          /\ <<"X">> \in Seq(Chars) /\ <<"b">> \in Seq(Chars)
      BY <2>1, OneChar
    <2>3. <<>> \in Seq(Chars)
      BY EmptySeq
    <2> QED
      BY <2>2, <2>3 DEF Letter
  <1> HIDE DEF kept
  <1>3. SubSeq(s, 1, kept) \in Seq(Chars)
    BY <1>1, PrefixIs
  <1>4. Room(SubSeq(s, 1, kept) \o Letter(base, fl)) \in Seq(Chars)
    BY <1>2, <1>3, ConcatProperties, RoomIs
  <1>5. Room(Room(SubSeq(s, 1, kept) \o Letter(base, fl)) \o <<"0">>) \in Seq(Chars)
    BY <1>2, <1>4, ConcatProperties, RoomIs
  <1> QED
    BY <1>5 DEF HashPrefix, kept

(* The digits of every base are characters. *)
LEMMA AlphabetsAre ==
    \A k \in 1 .. 16 : Lower[k] \in Chars /\ Upper[k] \in Chars
  <1> DEFINE low == <<"a", "b", "c", "d", "e", "f">>
             up == <<"A", "B", "C", "D", "E", "F">>
  <1>1. DigitChars \in Seq(Chars) /\ Len(DigitChars) = 10
    BY DEF DigitChars, Chars, Known
  <1>2. low \in Seq(Chars) /\ Len(low) = 6
    BY DEF Chars, Known
  <1>3. up \in Seq(Chars) /\ Len(up) = 6
    BY DEF Chars, Known
  <1>4. Lower = DigitChars \o low /\ Upper = DigitChars \o up
    BY DEF Lower, Upper
  <1> HIDE DEF low, up, DigitChars
  <1>5. Lower \in Seq(Chars) /\ Len(Lower) = 16 /\ Upper \in Seq(Chars) /\ Len(Upper) = 16
    <2>1. ASSUME NEW s \in Seq(Chars), NEW t \in Seq(Chars), Len(s) = 10, Len(t) = 6
          PROVE  s \o t \in Seq(Chars) /\ Len(s \o t) = 16
      <3>1. s \o t \in Seq(Chars) /\ Len(s \o t) = Len(s) + Len(t)
        BY ConcatProperties
      <3> QED
        BY <2>1, <3>1
    <2> QED
      BY <1>1, <1>2, <1>3, <1>4, <2>1, Zenon
  <1> QED
    BY <1>5, ElementOfSeq

(* A number in any base that is used has digits, which are characters. *)
LEMMA DigitsAre ==
    ASSUME NEW base \in {2, 8, 10, 16}, NEW v \in Nat
    PROVE  /\ Reversed(v, base, Lower) \in Seq(Chars) \ {<<>>}
           /\ Reversed(v, base, Upper) \in Seq(Chars) \ {<<>>}
  <1>1. /\ base \in Nat \ {0, 1}
        /\ \A k \in 1 .. base : Lower[k] \in Chars
        /\ \A k \in 1 .. base : Upper[k] \in Chars
    BY AlphabetsAre
  <1> HIDE DEF Lower, Upper
  <1> QED
    BY <1>1, ReversedIs

(* _ntoa_long puts out characters, whatever number it is given. *)
LEMMA NtoaIs ==
    ASSUME NEW v \in Nat, NEW negative, NEW base \in {2, 8, 10, 16}, NEW p \in Nat,
           NEW w \in Nat, NEW fl
    PROVE  Ntoa(v, negative, base, p, w, fl) \in Seq(Chars)
  <1>1. /\ Room(Reversed(v, base, Lower)) \in Seq(Chars)
        /\ Room(Reversed(v, base, Upper)) \in Seq(Chars)
        /\ <<>> \in Seq(Chars)
    BY DigitsAre, RoomIs, EmptySeq
  <1>2. ASSUME NEW s \in Seq(Chars), NEW g
        PROVE  NtoaFormat(s, negative, base, p, w, g) \in Seq(Chars)
    <2> DEFINE zeros == PadZeros(s, negative, p, w, g)
               hashed == IF "#" \notin g THEN zeros
                         ELSE HashPrefix(zeros, base, ZeroWidth(w, negative, g), g)
    <2>1. zeros \in Seq(Chars)
      BY PadZerosIs
    <2>2. hashed \in Seq(Chars)
      BY <2>1, HashPrefixIs, ZeroWidthIs
    <2>3. Room(hashed \o Sign(negative, g)) \in Seq(Chars)
      BY <2>2, SignIs, ConcatProperties, RoomIs
    <2>4. OutRev(Room(hashed \o Sign(negative, g)), w, g) \in Seq(Chars)
      BY <2>3, OutRevIs
    <2> QED
      BY <2>4 DEF NtoaFormat
  <1> QED
    BY <1>1, <1>2 DEF Ntoa

(* The letters of NaN and of infinities. *)
LEMMA SpecialIs ==
    ASSUME NEW v, NEW w \in Nat, NEW fl
    PROVE  SpecialText(v, w, fl) \in Seq(Chars)
  <1>1. /\ "n" \in Chars /\ "a" \in Chars /\ "f" \in Chars /\ "i" \in Chars
        /\ "-" \in Chars /\ "+" \in Chars
    BY KnownAre
  <1> DEFINE sign == IF v.neg THEN <<"-">> ELSE IF "+" \in fl THEN <<"+">> ELSE <<>>
  <1>2. sign \in Seq(Chars)
    <2>1. <<"-">> \in Seq(Chars) /\ <<"+">> \in Seq(Chars) /\ <<>> \in Seq(Chars)
      BY <1>1, OneChar, EmptySeq
    <2> QED
      BY <2>1
  <1> HIDE DEF sign
  <1>3. <<"n", "a", "n">> \in Seq(Chars) /\ <<"f", "n", "i">> \in Seq(Chars)
    BY <1>1
  <1>4. <<"f", "n", "i">> \o sign \in Seq(Chars)
    BY <1>2, <1>3, ConcatProperties
  <1> QED
    <2> DEFINE nan == <<"n", "a", "n">>
               inf == <<"f", "n", "i">> \o sign
    <2>1. SpecialText(v, w, fl) = OutRev(IF v.kind = "nan" THEN nan ELSE inf, w, fl)
      BY DEF SpecialText, sign
    <2>2. (IF v.kind = "nan" THEN nan ELSE inf) \in Seq(Chars)
      BY <1>3, <1>4
    <2> HIDE DEF nan, inf
    <2> QED
      BY <2>1, <2>2, OutRevIs

(* The doubles below PRINTF_MAX_FLOAT, scaled. *)
Scaled == [kind : {"number", "inf", "nan"}, neg : BOOLEAN, n : Nat, scale : Nat,
           lean : {-1, 0, 1}]
Doubles == [kind : {"number", "inf", "nan"}, neg : BOOLEAN, n : Nat, scale : Int,
            lean : {-1, 0, 1}]

(* Whole and fraction stay natural numbers when they are rounded. *)
LEMMA RoundIs ==
    ASSUME NEW v \in Scaled, NEW p \in Nat
    PROVE  Round(v, p).whole \in Nat /\ Round(v, p).frac \in Nat
  <1> DEFINE q == Smaller(p, v.scale)
             unit == Pow10(v.scale - q)
             whole == v.n \div Pow10(v.scale)
             part == (v.n % Pow10(v.scale)) \div unit
             frac == part * Pow10(p - q)
  <1>1. v.scale \in Nat /\ v.n \in Nat
    BY DEF Scaled
  <1>2. q \in Nat /\ v.scale - q \in Nat /\ p - q \in Nat
    BY <1>1 DEF Smaller
  <1> HIDE DEF q
  <1>3. unit \in Nat \ {0} /\ Pow10(v.scale) \in Nat \ {0} /\ Pow10(p - q) \in Nat \ {0}
    BY <1>1, <1>2, PowerIsPositive
  <1> HIDE DEF unit
  <1>4. whole \in Nat /\ part \in Nat
    <2>1. \A a \in Nat, b \in Nat \ {0} : a \div b \in Nat /\ a % b \in Nat
      OBVIOUS
    <2> QED
      BY <1>1, <1>3, <2>1
  <1> HIDE DEF part, whole
  <1>5. frac \in Nat
    BY <1>3, <1>4
  <1> HIDE DEF frac
  <1> DEFINE twice == 2 * (v.n % unit)
             above == twice > unit \/ (twice = unit /\ v.lean > 0)
             tie == twice = unit /\ v.lean = 0
             carry == above /\ frac + 1 = Pow10(p)
             kept == IF carry THEN whole + 1 ELSE whole
  <1>6. kept \in Nat
    BY <1>4
  <1>7. Round(v, p) = [whole |-> IF p = 0 /\ tie /\ kept % 2 = 1 THEN kept + 1 ELSE kept,
                       frac |-> IF carry THEN 0
                                ELSE IF above \/ (tie /\ (frac = 0 \/ frac % 2 = 1))
                                THEN frac + 1 ELSE frac]
    BY Zenon DEF Round, frac, whole, part, unit, q
  <1> HIDE DEF twice, above, tie, carry, kept
  <1> QED
    BY <1>5, <1>6, <1>7

(* _ftoa puts out characters for every number below PRINTF_MAX_FLOAT. *)
LEMMA FixedTextIs ==
    ASSUME NEW v \in Scaled, NEW p \in Nat, NEW w \in Nat, NEW fl
    PROVE  FixedText(v, p, w, fl) \in Seq(Chars)
  <1> DEFINE asked == IF "precision" \in fl THEN p ELSE 6
             q == Smaller(asked, 9)
             r == Round(v, q)
             digits == Reversed(r.frac, 10, Lower)
             fraction == FillTo(digits, "0", IF Len(digits) > q THEN NumSize ELSE q)
             point == IF q = 0 THEN <<>>
                      ELSE Room(Times("0", asked - q) \o fraction \o <<".">>)
             number == Room(point \o Reversed(r.whole, 10, Lower))
             zeros == IF "0" \in fl /\ "-" \notin fl
                      THEN FillTo(number, "0", ZeroWidth(w, Below0(v), fl)) ELSE number
  <1>1. q \in Nat /\ asked - q \in Nat
    BY DEF Smaller
  <1> HIDE DEF q, asked
  <1>2. r.whole \in Nat /\ r.frac \in Nat
    BY <1>1, RoundIs
  <1> HIDE DEF r
  <1>3. digits \in Seq(Chars) /\ Reversed(r.whole, 10, Lower) \in Seq(Chars)
    BY <1>2, DigitsAre
  <1> HIDE DEF digits
  <1>4. "0" \in Chars /\ "." \in Chars /\ NumSize \in Nat
    BY KnownAre, TypeSizesAssumption
  <1>5. fraction \in Seq(Chars)
    BY <1>1, <1>3, <1>4, FillToIs
  <1> HIDE DEF fraction
  <1>6. point \in Seq(Chars)
    <2>1. Times("0", asked - q) \in Seq(Chars) /\ <<".">> \in Seq(Chars) /\ <<>> \in Seq(Chars)
      BY <1>1, <1>4, TimesIs, OneChar, EmptySeq
    <2>2. Times("0", asked - q) \o fraction \o <<".">> \in Seq(Chars)
      BY <1>5, <2>1, ConcatProperties
    <2> QED
      BY <2>1, <2>2, RoomIs
  <1> HIDE DEF point
  <1>7. number \in Seq(Chars)
    BY <1>3, <1>6, ConcatProperties, RoomIs
  <1> HIDE DEF number
  <1>8. zeros \in Seq(Chars)
    BY <1>4, <1>7, FillToIs, ZeroWidthIs
  <1> HIDE DEF zeros
  <1>9. OutRev(Room(zeros \o Sign(Below0(v), fl)), w, fl) \in Seq(Chars)
    <2>1. Sign(Below0(v), fl) \in Seq(Chars)
      BY SignIs
    <2>2. Room(zeros \o Sign(Below0(v), fl)) \in Seq(Chars)
      BY <1>8, <2>1, ConcatProperties, RoomIs
    <2> QED
      BY <2>2, OutRevIs
  <1> QED
    BY <1>9, Zenon DEF FixedText, zeros, number, point, fraction, digits, r, q, asked

(* The exponent and what _etoa takes it to be. *)
LEMMA ExponentIs ==
    ASSUME NEW v \in Doubles
    PROVE  Exponent(v) \in Int /\ Estimate(v) \in Int
  <1>1. v.n \in Nat /\ v.scale \in Int
    BY DEF Doubles
  <1>2. Len(Reversed(v.n, 10, Lower)) \in Nat
    BY <1>1, DigitsAre, LenProperties
  <1>3. Exponent(v) \in Int
    BY <1>1, <1>2 DEF Exponent
  <1> QED
    BY <1>3 DEF Estimate

(* _etoa puts out characters: the number it scales for _ftoa is one below  *)
(* PRINTF_MAX_FLOAT.                                                       *)
LEMMA EtoaTextIs ==
    ASSUME NEW v \in Doubles, v.scale < 0 => Exponent(v) >= 9,
           NEW p \in Nat, NEW w \in Nat, NEW fl
    PROVE  EtoaText(v, p, w, fl) \in Seq(Chars)
  <1> DEFINE expval == Estimate(v)
             plain == Plain(v, fl)
             minwidth == IF plain THEN 0 ELSE IF expval \in -99 .. 99 THEN 4 ELSE 5
             fwidth == IF "-" \in fl /\ ~plain THEN 0 ELSE Larger(0, w - minwidth)
             value == IF plain THEN v ELSE Rescaled(v, expval)
             kept == IF plain THEN fl \union {"precision"} ELSE fl
             number == FixedText(value, Decimals(v, p, fl), fwidth, kept)
             size == IF expval < 0 THEN -expval ELSE expval
             exponent == Ntoa(size, expval < 0, 10, 0, minwidth - 1, {"0", "+"})
             letter == <<IF "upper" \in fl THEN "E" ELSE "e">>
             all == number \o letter \o exponent
  <1>1. CASE v.kind # "number"
    <2>1. EtoaText(v, p, w, fl) = SpecialText(v, w, fl)
      BY <1>1 DEF EtoaText
    <2> QED
      BY <2>1, SpecialIs
  <1>2. CASE v.kind = "number"
    <2>1. expval \in Int /\ Exponent(v) \in Int /\ v.n \in Nat /\ v.scale \in Int
      BY ExponentIs DEF Doubles
    <2> HIDE DEF expval
    <2>2. plain => v.scale >= 0
      BY <2>1 DEF Plain
    <2>3. value \in Scaled
      <3>1. plain => v \in Scaled
        BY <2>1, <2>2 DEF Scaled, Doubles
      <3>2. Rescaled(v, expval) \in Scaled
        <4>1. CASE v.scale + expval >= 0
          <5>1. Rescaled(v, expval) = [v EXCEPT !.scale = v.scale + expval]
            BY <4>1 DEF Rescaled
          <5>2. v.scale + expval \in Nat
            BY <2>1, <4>1
          <5> QED
            BY <5>1, <5>2 DEF Scaled, Doubles
        <4>2. CASE ~ (v.scale + expval >= 0)
          <5>1. Rescaled(v, expval) = [v EXCEPT !.scale = 0, !.n = 10 * v.n]
            BY <4>2 DEF Rescaled
          <5> DEFINE big == 10 * v.n
          <5>2. big \in Nat
            BY <2>1
          <5>3. Rescaled(v, expval) = [v EXCEPT !.scale = 0, !.n = big]
            BY <5>1
          <5> HIDE DEF big
          <5>4. \A d \in Scaled : [d EXCEPT !.n = big] \in Scaled
            BY <5>2 DEF Scaled
          <5>5. [v EXCEPT !.scale = 0] \in Scaled
            BY DEF Scaled, Doubles
          <5>6. [v EXCEPT !.scale = 0, !.n = big] = [[v EXCEPT !.scale = 0] EXCEPT !.n = big]
            OBVIOUS
          <5> QED
            BY <5>3, <5>4, <5>5, <5>6
        <4> QED
          BY <4>1, <4>2
      <3> QED
        BY <3>1, <3>2
    <2>4. Decimals(v, p, fl) \in Nat
      BY <2>1 DEF Decimals, Larger, expval
    <2>5. minwidth \in Nat /\ fwidth \in Nat
      BY DEF Larger
    <2>6. ~plain => minwidth - 1 \in Nat
      OBVIOUS
    <2>7. size \in Nat
      BY <2>1
    <2> HIDE DEF plain, minwidth, fwidth, value, kept, size
    <2>8. number \in Seq(Chars)
      BY <2>3, <2>4, <2>5, FixedTextIs
    <2>9. ~plain => exponent \in Seq(Chars)
      BY <2>6, <2>7, NtoaIs
    <2> HIDE DEF number, exponent
    <2>10. letter \in Seq(Chars)
      <3>1. (IF "upper" \in fl THEN "E" ELSE "e") \in Chars
        BY KnownAre
      <3> QED
        BY <3>1, OneChar
    <2> HIDE DEF letter
    <2>11. ~plain => all \in Seq(Chars)
      BY <2>8, <2>9, <2>10, ConcatProperties
    <2> HIDE DEF all
    <2>12. ~plain => Field(all, w, fl) \in Seq(Chars)
      BY <2>11, FieldIs
    <2>13. EtoaText(v, p, w, fl) = IF plain THEN number
                                  ELSE IF "-" \in fl THEN Field(all, w, fl) ELSE all
      BY <1>2 DEF EtoaText, all, number, exponent, letter, size, kept, value, fwidth,
                  minwidth, plain, expval
    <2> QED
      BY <2>8, <2>11, <2>12, <2>13
  <1> QED
    BY <1>1, <1>2

(* The bases of the switch over the specifier. *)
LEMMA BaseIs == \A conv : Base(conv) \in {2, 8, 10, 16}
  <1> TAKE conv
  <1>1. CASE conv \in {"x", "X"}
    BY <1>1 DEF Base
  <1>2. CASE conv = "o"
    BY <1>2 DEF Base
  <1>3. CASE conv = "b"
    BY <1>3 DEF Base
  <1>4. CASE conv \notin {"x", "X", "o", "b"}
    BY <1>4 DEF Base
  <1> QED
    BY <1>1, <1>2, <1>3, <1>4

(* An argument after the conversion to the type that the length asks for. *)
LEMMA ArgumentIs ==
    ASSUME NEW n \in Int, NEW fl
    PROVE  Unsigned(n, fl) \in Nat /\ SignedArg(n, fl) \in Int
  <1>1. Modulus(fl) \in Nat \ {0}
    BY TypeSizesAssumption DEF Modulus
  <1>2. Unsigned(n, fl) \in Nat
    BY <1>1 DEF Unsigned
  <1> QED
    BY <1>1, <1>2 DEF SignedArg

(* The integer conversions put out characters. *)
LEMMA IntegerTextIs ==
    ASSUME NEW n \in Int, NEW conv, NEW p \in Nat, NEW w \in Nat, NEW fl
    PROVE  IntegerText(n, conv, p, w, fl) \in Seq(Chars)
  <1> DEFINE signed == conv \in {"d", "i"}
             value == IF signed THEN SignedArg(n, fl) ELSE Unsigned(n, fl)
             used == (fl \union (IF conv = "X" THEN {"upper"} ELSE {}))
                     \ ((IF Base(conv) = 10 THEN {"#"} ELSE {})
                        \union (IF signed THEN {} ELSE {"+", " "})
                        \union (IF "precision" \in fl THEN {"0"} ELSE {}))
             size == IF value < 0 THEN -value ELSE value
  <1>1. value \in Int
    BY ArgumentIs
  <1> HIDE DEF value
  <1>2. size \in Nat
    BY <1>1
  <1> HIDE DEF size, used
  <1>3. Ntoa(size, value < 0, Base(conv), p, w, used) \in Seq(Chars)
    BY <1>2, BaseIs, NtoaIs
  <1> QED
    BY <1>3 DEF IntegerText, size, value, used

(* What holds of a call. *)
GoodCall(j) ==
    /\ j.sink \in {"buffer", "putchar", "null"} /\ j.maxlen \in Nat
    /\ j.n \in Int /\ j.s \in Seq(Chars)
    /\ j.v \in Doubles /\ (j.v.scale < 0 => Exponent(j.v) >= 9)
    /\ j.dir.conv \in Chars /\ (j.dir.conv = "c" => j.s # <<>>)

(* So does every conversion, whatever its flags, width and precision. *)
LEMMA ConvertedIs ==
    ASSUME GoodCall(job), width \in Nat, precision \in Nat,
           NEW conv \in Chars, conv = "c" => job.s # <<>>
    PROVE  Converted(conv) \in Seq(Chars)
  <1>1. /\ job.n \in Int /\ job.s \in Seq(Chars) /\ job.v \in Doubles
        /\ job.v.scale < 0 => Exponent(job.v) >= 9
    BY DEF GoodCall
  <1>2. CASE conv \in {"d", "i", "u", "x", "X", "o", "b"}
    <2>1. Converted(conv) = IntegerText(job.n, conv, precision, width, flags)
      BY <1>2 DEF Converted
    <2> QED
      BY <1>1, <2>1, IntegerTextIs
  <1>3. CASE conv \in {"f", "F", "e", "E", "g", "G"}
    <2>1. Converted(conv) = DoubleText(conv)
      BY <1>3 DEF Converted
    <2>2. \A fl : EtoaText(job.v, precision, width, fl) \in Seq(Chars)
      BY <1>1, EtoaTextIs
    <2>3. \A fl : FtoaText(job.v, precision, width, fl) \in Seq(Chars)
      <3> TAKE fl
      <3>1. SpecialText(job.v, width, fl) \in Seq(Chars)
        BY SpecialIs
      <3>2. job.v.scale >= 0 => FixedText(job.v, precision, width, fl) \in Seq(Chars)
        <4>1. job.v.scale >= 0 => job.v \in Scaled
          BY <1>1 DEF Doubles, Scaled
        <4> QED
          BY <4>1, FixedTextIs
      <3>3. job.v.scale \in Int
        BY <1>1 DEF Doubles
      <3> QED
        BY <2>2, <3>1, <3>2, <3>3 DEF FtoaText
    <2> QED
      BY <2>1, <2>2, <2>3 DEF DoubleText
  <1>4. CASE conv = "c"
    <2>1. Converted(conv) = Field(SubSeq(job.s, 1, 1), width, flags)
      BY <1>4 DEF Converted
    <2>2. Len(job.s) \in Nat \ {0}
      BY <1>1, <1>4, EmptySeq
    <2>3. 1 \in Nat /\ 1 <= Len(job.s)
      BY <2>2
    <2>4. SubSeq(job.s, 1, 1) \in Seq(Chars)
      BY <1>1, <2>3, PrefixIs
    <2> QED
      BY <2>1, <2>4, FieldIs
  <1>5. CASE conv = "s"
    <2>1. Converted(conv) = StringText(job.s, precision, width, flags)
      BY <1>5 DEF Converted
    <2>2. Len(job.s) \in Nat
      BY <1>1, LenProperties
    <2>3. Smaller(precision, Len(job.s)) \in Nat /\ Smaller(precision, Len(job.s)) <= Len(job.s)
      BY <2>2 DEF Smaller
    <2>4. SubSeq(job.s, 1, Smaller(precision, Len(job.s))) \in Seq(Chars)
      BY <1>1, <2>3, PrefixIs
    <2> QED
      BY <1>1, <2>1, <2>4, FieldIs DEF StringText
  <1>6. CASE conv = "p"
    <2>1. Converted(conv) = Ntoa(Unsigned(job.n, {"l"}), FALSE, 16, precision, 16,
                                 flags \union {"0", "upper"})
      BY <1>6 DEF Converted
    <2>2. Unsigned(job.n, {"l"}) \in Nat
      BY <1>1, ArgumentIs
    <2>3. \A fl : Ntoa(Unsigned(job.n, {"l"}), FALSE, 16, precision, 16, fl) \in Seq(Chars)
      BY <2>2, NtoaIs
    <2> QED
      BY <2>1, <2>3
  <1>7. CASE conv \notin {"d", "i", "u", "x", "X", "o", "b", "f", "F", "e", "E", "g", "G",
                         "c", "s", "p"}
    <2>1. Converted(conv) = <<conv>>
      BY <1>7 DEF Converted
    <2> QED
      BY <2>1, OneChar
  <1> QED
    BY <1>2, <1>3, <1>4, <1>5, <1>6, <1>7

-------------------------------------------------------------------------------
(***************************************************************************)
(* Pieces of text, and the numbers in a format: _atoi reads back what was  *)
(* written in decimal.                                                     *)
(***************************************************************************)
(* The end of a text. *)
LEMMA SuffixIs ==
    ASSUME NEW S, NEW s \in Seq(S), NEW k \in 0 .. Len(s)
    PROVE  /\ SubSeq(s, k + 1, Len(s)) \in Seq(S)
           /\ Len(SubSeq(s, k + 1, Len(s))) = Len(s) - k
           /\ \A i \in 1 .. Len(s) - k : SubSeq(s, k + 1, Len(s))[i] = s[k + i]
  <1>1. Len(s) \in Nat
    BY LenProperties
  <1>2. \A i \in k + 1 .. Len(s) : s[i] \in S
    <2> TAKE i \in k + 1 .. Len(s)
    <2>1. i \in 1 .. Len(s)
      BY <1>1
    <2> QED
      BY <2>1, ElementOfSeq
  <1>3. k + 1 \in Int /\ Len(s) \in Int
    BY <1>1
  <1>4. /\ SubSeq(s, k + 1, Len(s)) \in Seq(S)
        /\ Len(SubSeq(s, k + 1, Len(s))) = IF k + 1 <= Len(s) THEN Len(s) - (k + 1) + 1 ELSE 0
        /\ \A i \in 1 .. Len(s) - (k + 1) + 1 : SubSeq(s, k + 1, Len(s))[i] = s[k + 1 + i - 1]
    BY <1>2, <1>3, SubSeqProperties
  <1>5. \A i \in 1 .. Len(s) - k : i \in 1 .. Len(s) - (k + 1) + 1 /\ k + 1 + i - 1 = k + i
    BY <1>1
  <1>6. (IF k + 1 <= Len(s) THEN Len(s) - (k + 1) + 1 ELSE 0) = Len(s) - k
    BY <1>1
  <1> QED
    BY <1>4, <1>5, <1>6

(* A text put before another one that is not empty: its head and its tail. *)
LEMMA HeadOfBoth ==
    ASSUME NEW S, NEW s \in Seq(S), NEW t \in Seq(S), s # <<>>
    PROVE  /\ s \o t \in Seq(S) /\ s \o t # <<>>
           /\ Head(s \o t) = Head(s) /\ Head(s) \in S
           /\ Tail(s \o t) = Tail(s) \o t /\ Tail(s) \in Seq(S)
  <1>1. /\ s \o t \in Seq(S) /\ Len(s \o t) = Len(s) + Len(t)
        /\ Len(s) \in Nat \ {0} /\ Len(t) \in Nat
        /\ \A i \in 1 .. Len(s) + Len(t) : (s \o t)[i] = IF i <= Len(s) THEN s[i] ELSE t[i - Len(s)]
    BY ConcatProperties, LenProperties, EmptySeq
  <1>2. s \o t # <<>>
    BY <1>1, EmptySeq
  <1>3. /\ Head(s) = s[1] /\ Head(s) \in S /\ Tail(s) \in Seq(S) /\ Len(Tail(s)) = Len(s) - 1
        /\ \A i \in 1 .. Len(Tail(s)) : Tail(s)[i] = s[i + 1]
    BY HeadTailProperties
  <1>4. /\ Head(s \o t) = (s \o t)[1] /\ Tail(s \o t) \in Seq(S)
        /\ Len(Tail(s \o t)) = Len(s \o t) - 1
        /\ \A i \in 1 .. Len(Tail(s \o t)) : Tail(s \o t)[i] = (s \o t)[i + 1]
    BY <1>1, <1>2, HeadTailProperties
  <1>5. /\ Tail(s) \o t \in Seq(S) /\ Len(Tail(s) \o t) = Len(s) - 1 + Len(t)
        /\ \A i \in 1 .. (Len(s) - 1) + Len(t) :
              (Tail(s) \o t)[i] = IF i <= Len(s) - 1 THEN Tail(s)[i] ELSE t[i - (Len(s) - 1)]
    BY <1>3, ConcatProperties
  <1>6. Head(s \o t) = Head(s)
    <2>1. 1 \in 1 .. Len(s) + Len(t) /\ 1 <= Len(s)
      BY <1>1
    <2> QED
      BY <1>1, <1>3, <1>4, <2>1
  <1>7. Tail(s \o t) = Tail(s) \o t
    <2> DEFINE n == (Len(s) - 1) + Len(t)
    <2>1. Len(Tail(s \o t)) = n /\ Len(Tail(s) \o t) = n
      BY <1>1, <1>4, <1>5
    <2>2. ASSUME NEW i \in 1 .. n PROVE Tail(s \o t)[i] = (Tail(s) \o t)[i]
      <3>1. i + 1 \in 1 .. Len(s) + Len(t) /\ (i + 1 <= Len(s) <=> i <= Len(s) - 1)
               /\ (i + 1) - Len(s) = i - (Len(s) - 1)
        BY <1>1
      <3>2. Tail(s \o t)[i] = IF i + 1 <= Len(s) THEN s[i + 1] ELSE t[(i + 1) - Len(s)]
        BY <1>1, <1>4, <2>1, <3>1
      <3>3. i <= Len(s) - 1 => Tail(s)[i] = s[i + 1]
        BY <1>1, <1>3
      <3> QED
        BY <1>5, <3>1, <3>2, <3>3
    <2> HIDE DEF n
    <2> QED
      BY <1>4, <1>5, <2>1, <2>2, SeqEqual
  <1> QED
    BY <1>1, <1>2, <1>3, <1>6, <1>7

(* The last part of two pieces of text is the second. *)
LEMMA RestOfBoth ==
    ASSUME NEW S, NEW s \in Seq(S), NEW t \in Seq(S)
    PROVE  SubSeq(s \o t, Len(s) + 1, Len(s \o t)) = t
  <1>1. /\ s \o t \in Seq(S) /\ Len(s \o t) = Len(s) + Len(t) /\ Len(s) \in Nat /\ Len(t) \in Nat
        /\ \A i \in 1 .. Len(s) + Len(t) : (s \o t)[i] = IF i <= Len(s) THEN s[i] ELSE t[i - Len(s)]
    BY ConcatProperties, LenProperties
  <1> DEFINE u == SubSeq(s \o t, Len(s) + 1, Len(s \o t))
  <1>2. Len(s) \in 0 .. Len(s \o t)
    BY <1>1
  <1>3. /\ u \in Seq(S) /\ Len(u) = Len(t)
        /\ \A i \in 1 .. Len(t) : u[i] = (s \o t)[Len(s) + i]
    BY <1>1, <1>2, SuffixIs
  <1> HIDE DEF u
  <1>4. ASSUME NEW i \in 1 .. Len(t) PROVE u[i] = t[i]
    <2>1. /\ Len(s) + i \in 1 .. Len(s) + Len(t) /\ ~ (Len(s) + i <= Len(s))
          /\ (Len(s) + i) - Len(s) = i
      BY <1>1
    <2> QED
      BY <1>1, <1>3, <2>1
  <1> QED
    BY <1>3, <1>4, SeqEqual DEF u

(* A character put before a text comes last when the text is reversed.     *)
LEMMA ReverseOfBoth ==
    ASSUME NEW S, NEW ch \in S, NEW s \in Seq(S)
    PROVE  Reverse(<<ch>> \o s) = Reverse(s) \o <<ch>>
  <1> DEFINE n == Len(s)
             w == <<ch>> \o s
  <1>1. /\ w \in Seq(S) /\ Len(w) = n + 1 /\ n \in Nat
        /\ \A i \in 1 .. n + 1 : w[i] = IF i = 1 THEN ch ELSE s[i - 1]
    <2>1. <<ch>> \in Seq(S) /\ Len(<<ch>>) = 1 /\ <<ch>>[1] = ch
      OBVIOUS
    <2>2. /\ w \in Seq(S) /\ Len(w) = Len(<<ch>>) + Len(s) /\ Len(s) \in Nat
          /\ \A i \in 1 .. Len(<<ch>>) + Len(s) :
                w[i] = IF i <= Len(<<ch>>) THEN <<ch>>[i] ELSE s[i - Len(<<ch>>)]
      BY <2>1, ConcatProperties, LenProperties
    <2> QED
      BY <2>1, <2>2
  <1> HIDE DEF w
  <1>2. /\ Reverse(s) \in Seq(S) /\ Len(Reverse(s)) = n
        /\ \A i \in 1 .. n : Reverse(s)[i] = s[(n - i) + 1]
    BY ReverseIs DEF Reverse
  <1>3. /\ Reverse(w) \in Seq(S) /\ Len(Reverse(w)) = n + 1
        /\ \A i \in 1 .. n + 1 : Reverse(w)[i] = w[((n + 1) - i) + 1]
    BY <1>1, ReverseIs DEF Reverse
  <1> DEFINE r == Reverse(s) \o <<ch>>
  <1>4. /\ r \in Seq(S) /\ Len(r) = n + 1
        /\ \A i \in 1 .. n + 1 : r[i] = IF i <= n THEN Reverse(s)[i] ELSE ch
    <2>1. <<ch>> \in Seq(S) /\ Len(<<ch>>) = 1 /\ <<ch>>[1] = ch
      OBVIOUS
    <2>2. /\ r \in Seq(S) /\ Len(r) = n + Len(<<ch>>)
          /\ \A i \in 1 .. n + Len(<<ch>>) : r[i] = IF i <= n THEN Reverse(s)[i] ELSE <<ch>>[i - n]
      BY <1>2, <2>1, ConcatProperties
    <2>3. \A i \in 1 .. n + 1 : ~ (i <= n) => i - n = 1
      BY <1>1
    <2> QED
      BY <2>1, <2>2, <2>3
  <1> HIDE DEF r
  <1>5. ASSUME NEW i \in 1 .. n + 1 PROVE Reverse(w)[i] = r[i]
    <2> DEFINE k == ((n + 1) - i) + 1
    <2>1. /\ k \in 1 .. n + 1 /\ (k = 1 <=> ~ (i <= n)) /\ k - 1 = (n - i) + 1
          /\ i <= n => i \in 1 .. n
      BY <1>1
    <2>2. Reverse(w)[i] = w[k]
      BY <1>3
    <2> HIDE DEF k
    <2> QED
      BY <1>1, <1>2, <1>4, <2>1, <2>2
  <1> QED
    BY <1>3, <1>4, <1>5, SeqEqual DEF w, r

(* The digits, one by one. *)
LEMMA DigitsArePlain ==
    Digits = {"0", "1", "2", "3", "4", "5", "6", "7", "8", "9"}
  BY DEF Digits, DigitChars

(* A number in decimal, as a format has it.                                *)
Decimal(v) == Reverse(Reversed(v, 10, Lower))

(* The digits of a number in decimal are the digits of the format.         *)
LEMMA LowerDigits == \A k \in 1 .. 10 : Lower[k] = DigitChars[k] /\ Lower[k] \in Digits
  <1> DEFINE low == <<"a", "b", "c", "d", "e", "f">>
  <1>1. DigitChars \in Seq(Chars) /\ Len(DigitChars) = 10
    BY DEF DigitChars, Chars, Known
  <1>2. low \in Seq(Chars) /\ Len(low) = 6
    BY DEF Chars, Known
  <1>3. Lower = DigitChars \o low
    BY DEF Lower
  <1> HIDE DEF low, DigitChars
  <1>4. \A k \in 1 .. Len(DigitChars) + Len(low) :
            (DigitChars \o low)[k] = IF k <= Len(DigitChars) THEN DigitChars[k]
                                     ELSE low[k - Len(DigitChars)]
    BY <1>1, <1>2, ConcatProperties
  <1>5. \A k \in 1 .. 10 : k \in 1 .. Len(DigitChars) + Len(low) /\ k <= Len(DigitChars)
    BY <1>1, <1>2
  <1>6. \A k \in 1 .. 10 : Lower[k] = DigitChars[k]
    BY <1>3, <1>4, <1>5
  <1> QED
    BY <1>6 DEF Digits

(* A digit at its place is the only one. *)
LEMMA DigitIs ==
    ASSUME NEW m \in 0 .. 9
    PROVE  (CHOOSE k \in 0 .. 9 : DigitChars[k + 1] = DigitChars[m + 1]) = m
  <1>1. \A i \in 1 .. 10, j \in 1 .. 10 : DigitChars[i] = DigitChars[j] => i = j
    BY DEF DigitChars
  <1>2. \A k \in 0 .. 9 : DigitChars[k + 1] = DigitChars[m + 1] <=> k = m
    <2> TAKE k \in 0 .. 9
    <2>1. k + 1 \in 1 .. 10 /\ m + 1 \in 1 .. 10 /\ (k + 1 = m + 1 <=> k = m)
      OBVIOUS
    <2> QED
      BY <1>1, <2>1
  <1> HIDE DEF DigitChars
  <1> QED
    BY <1>2

(* A number in digits is the number without its last digit, and that digit. *)
LEMMA DecimalStep ==
    ASSUME NEW v \in Nat
    PROVE  /\ Decimal(v) \in Seq(Digits) \ {<<>>}
           /\ v < 10 => Decimal(v) = <<DigitChars[v + 1]>>
           /\ v >= 10 => Decimal(v) = Decimal(v \div 10) \o <<DigitChars[(v % 10) + 1]>>
           /\ v % 10 \in 0 .. 9 /\ v \div 10 \in Nat /\ v = 10 * (v \div 10) + (v % 10)
           /\ DigitChars[(v % 10) + 1] \in Digits
           /\ v < 10 => v % 10 = v /\ v \div 10 = 0
           /\ v >= 10 => v \div 10 # 0 /\ v \div 10 < v
  <1>1. /\ v % 10 \in 0 .. 9 /\ v \div 10 \in Nat /\ v = 10 * (v \div 10) + (v % 10)
        /\ v < 10 => v % 10 = v /\ v \div 10 = 0
        /\ v >= 10 => v \div 10 # 0 /\ v \div 10 < v
    OBVIOUS
  <1>2. (v % 10) + 1 \in 1 .. 10 /\ 10 \in Nat \ {0, 1}
    BY <1>1
  <1>3. Lower[(v % 10) + 1] = DigitChars[(v % 10) + 1] /\ DigitChars[(v % 10) + 1] \in Digits
    BY <1>2, LowerDigits
  <1>4. \A u \in Nat : /\ Reversed(u, 10, Lower) \in Seq(Digits) \ {<<>>}
                       /\ Reversed(u, 10, Lower) = <<Lower[(u % 10) + 1]>>
                             \o IF u \div 10 = 0 THEN <<>> ELSE Reversed(u \div 10, 10, Lower)
    <2> DEFINE base == 10
    <2>1. base \in Nat \ {0, 1} /\ \A k \in 1 .. base : Lower[k] \in Digits
      BY <1>2, LowerDigits
    <2> HIDE DEF base
    <2>2. \A u \in Nat : /\ Reversed(u, base, Lower) \in Seq(Digits) \ {<<>>}
                         /\ Reversed(u, base, Lower) = <<Lower[(u % base) + 1]>>
                               \o IF u \div base = 0 THEN <<>>
                                  ELSE Reversed(u \div base, base, Lower)
      BY <2>1, ReversedIs
    <2> QED
      BY <2>2 DEF base
  <1>5. Decimal(v) \in Seq(Digits) \ {<<>>}
    BY <1>4, ReverseIs, LenProperties, EmptySeq DEF Decimal
  <1> DEFINE ch == DigitChars[(v % 10) + 1]
  <1> HIDE DEF ch
  <1>6. ch \in Digits
    BY <1>3 DEF ch
  <1>7. CASE v < 10
    <2>1. Reversed(v, 10, Lower) = <<ch>> \o <<>>
      BY <1>1, <1>3, <1>4, <1>7 DEF ch
    <2>2. Decimal(v) = Reverse(<<>>) \o <<ch>>
      BY <1>6, <2>1, ReverseOfBoth, EmptySeq DEF Decimal
    <2>3. Reverse(<<>>) = <<>>
      BY DEF Reverse
    <2>4. <<>> \o <<ch>> = <<ch>>
      OBVIOUS
    <2>5. Decimal(v) = <<ch>> /\ v % 10 = v
      BY <1>1, <1>7, <2>2, <2>3, <2>4
    <2> QED
      BY <1>1, <1>3, <1>5, <1>7, <2>5 DEF ch
  <1>8. CASE v >= 10
    <2>1. Reversed(v, 10, Lower) = <<ch>> \o Reversed(v \div 10, 10, Lower)
      BY <1>1, <1>3, <1>4, <1>8 DEF ch
    <2>2. Decimal(v) = Decimal(v \div 10) \o <<ch>>
      BY <1>1, <1>4, <1>6, <2>1, ReverseOfBoth DEF Decimal
    <2> QED
      BY <1>1, <1>3, <1>5, <1>8, <2>2 DEF ch
  <1> QED
    BY <1>7, <1>8

(* A number that is not 0 has a first digit that is not 0. *)
LEMMA DecimalHead == \A v \in Nat : v # 0 => Head(Decimal(v)) \in Digits \ {"0"}
  <1> DEFINE T == {v \in Nat : v # 0 => Head(Decimal(v)) \in Digits \ {"0"}}
  <1>1. ASSUME NEW v \in Nat, \A k \in 0 .. v - 1 : k \in T PROVE v \in T
    <2> SUFFICES ASSUME v # 0 PROVE Head(Decimal(v)) \in Digits \ {"0"}
      OBVIOUS
    <2>1. CASE v < 10
      <3>1. Head(Decimal(v)) = DigitChars[v + 1]
        <4> DEFINE ch == DigitChars[v + 1]
        <4>1. Decimal(v) = <<ch>>
          BY <2>1, DecimalStep
        <4> HIDE DEF ch
        <4>2. Head(<<ch>>) = ch
          OBVIOUS
        <4> QED
          BY <4>1, <4>2 DEF ch
      <3>2. v + 1 \in 2 .. 10
        BY <2>1
      <3>3. \A i \in 2 .. 10 : DigitChars[i] \in Digits \ {"0"}
        <4>1. \A i \in 2 .. 10 : DigitChars[i] # "0"
          BY DEF DigitChars
        <4>2. \A i \in 2 .. 10 : i \in 1 .. 10
          OBVIOUS
        <4> QED
          BY <4>1, <4>2 DEF Digits
      <3> HIDE DEF DigitChars
      <3> QED
        BY <3>1, <3>2, <3>3
    <2>2. CASE v >= 10
      <3>1. v \div 10 \in Nat /\ v \div 10 # 0 /\ v \div 10 < v
        BY <2>2, DecimalStep
      <3>2. v \div 10 \in 0 .. v - 1
        BY <3>1
      <3>3. Head(Decimal(v \div 10)) \in Digits \ {"0"}
        BY <1>1, <3>1, <3>2
      <3>4. /\ Decimal(v) = Decimal(v \div 10) \o <<DigitChars[(v % 10) + 1]>>
            /\ DigitChars[(v % 10) + 1] \in Digits
            /\ Decimal(v \div 10) \in Seq(Digits) \ {<<>>}
        BY <2>2, <3>1, DecimalStep
      <3>5. <<DigitChars[(v % 10) + 1]>> \in Seq(Digits)
        BY <3>4, OneChar
      <3>6. Head(Decimal(v)) = Head(Decimal(v \div 10))
        BY <3>4, <3>5, HeadOfBoth
      <3> QED
        BY <3>3, <3>6
    <2> QED
      BY <2>1, <2>2
  <1> HIDE DEF T
  <1>2. \A v \in Nat : v \in T
    BY <1>1, InductBelow
  <1> QED
    BY <1>2 DEF T

(* The value of a digit; the sums that _atoi makes of digits. *)
DigitOf(ch) == CHOOSE k \in 0 .. 9 : DigitChars[k + 1] = ch
Adds(R, w, n) == R[0] = 0 /\ \A i \in 1 .. n : R[i] = 10 * R[i - 1] + DigitOf(w[i])

(* _atoi adds up the digits at the head of a text, all of them, and leaves *)
(* what is behind them.                                                    *)
LEMMA AtoiSteps ==
    ASSUME NEW s \in Seq(Chars)
    PROVE  \E c \in 0 .. Len(s) : \E sums :
              /\ \A i \in 1 .. c : s[i] \in Digits
              /\ c < Len(s) => s[c + 1] \notin Digits
              /\ Adds(sums, s, c) /\ \A i \in 0 .. c : sums[i] \in Nat
              /\ Atoi(s) = [n |-> sums[c], rest |-> SubSeq(s, c + 1, Len(s))]
  <1> DEFINE IsCount(n) == /\ \A i \in 1 .. n : s[i] \in Digits
                           /\ n < Len(s) => s[n + 1] \notin Digits
             count == CHOOSE n \in 0 .. Len(s) : IsCount(n)
             digit(i) == DigitOf(s[i])
             R == CHOOSE f : f = [i \in 0 .. count |->
                                    IF i = 0 THEN 0 ELSE 10 * f[i - 1] + digit(i)]
  <1>1. Len(s) \in Nat
    BY LenProperties
  <1>2. \E n \in 0 .. Len(s) : IsCount(n)
    <2> DEFINE T == {n \in 0 .. Len(s) : n < Len(s) => s[n + 1] \notin Digits}
    <2>1. T \subseteq Nat /\ Len(s) \in T
      BY <1>1
    <2>2. PICK x \in T : \A y \in T : x <= y
      BY <2>1, WellOrder
    <2>3. ASSUME NEW i \in 1 .. x PROVE s[i] \in Digits
      <3>1. x \in 0 .. Len(s)
        OBVIOUS
      <3>2. i - 1 \in 0 .. Len(s) /\ i - 1 < Len(s) /\ (i - 1) + 1 = i /\ ~ (x <= i - 1)
        BY <1>1, <3>1
      <3>3. i - 1 \notin T
        BY <2>2, <3>2
      <3> QED
        BY <3>2, <3>3
    <2> QED
      BY <2>3
  <1>3. count \in 0 .. Len(s) /\ IsCount(count)
    BY <1>2
  <1> HIDE DEF count
  <1>4. count \in Nat /\ \A i \in 1 .. count : digit(i) \in Nat
    <2>1. count \in Nat
      BY <1>1, <1>3
    <2>2. ASSUME NEW i \in 1 .. count PROVE digit(i) \in Nat
      <3>1. PICK m \in 1 .. 10 : s[i] = DigitChars[m]
        BY <1>3 DEF Digits
      <3>2. m - 1 \in 0 .. 9 /\ (m - 1) + 1 = m
        OBVIOUS
      <3>3. \E k \in 0 .. 9 : DigitChars[k + 1] = s[i]
        BY <3>1, <3>2
      <3>4. digit(i) \in 0 .. 9
        BY <3>3 DEF DigitOf
      <3> HIDE DEF digit
      <3> QED
        BY <3>4
    <2> QED
      BY <2>1, <2>2
  <1> HIDE DEF digit, IsCount
  <1>5. \E f : f = [i \in 0 .. count |-> IF i = 0 THEN 0 ELSE 10 * f[i - 1] + digit(i)]
    <2> DEFINE S == Nat
               Z == {0}
               less == [v \in Nat |-> IF v = 0 THEN 0 ELSE v - 1]
               b == [v \in Nat |-> 0]
               next(v, x) == IF v \in 1 .. count THEN 10 * x + digit(v) ELSE 0
               h == [p \in Nat \X S |-> next(p[1], p[2])]
    <2>1. less \in [Nat -> Nat] /\ Falls(Z, less)
      BY DEF Falls
    <2>2. b \in [Nat -> S] /\ h \in [Nat \X S -> S]
      <3>1. \A v \in Nat, x \in S : next(v, x) \in S
        BY <1>4
      <3> HIDE DEF next
      <3> QED
        BY <3>1
    <2>3. \A v \in Nat : b[v] = 0 /\ (v # 0 => less[v] = v - 1) /\ (v \in Z <=> v = 0)
      OBVIOUS
    <2>4. \A v \in Nat, x \in S : h[<<v, x>>] = next(v, x)
      OBVIOUS
    <2> HIDE DEF less, b, h, Z, S
    <2>5. \E f \in [Nat -> S] : Follows(f, Z, less, b, h)
      BY <2>1, <2>2, Recursion, Zenon
    <2>6. PICK f \in [Nat -> S] :
              \A v \in Nat : f[v] = IF v \in Z THEN b[v] ELSE h[<<v, f[less[v]]>>]
      BY <2>5 DEF Follows
    <2>7. f[0] = 0
      BY <2>3, <2>6
    <2>8. ASSUME NEW v \in 1 .. count PROVE f[v] = 10 * f[v - 1] + digit(v)
      <3>1. v \in Nat /\ v # 0 /\ v - 1 \in Nat /\ f[v - 1] \in S
        BY <1>4, <2>6
      <3>2. f[v] = h[<<v, f[v - 1]>>]
        BY <2>3, <2>6, <3>1
      <3> QED
        BY <2>4, <3>1, <3>2
    <2> DEFINE g == [i \in 0 .. count |-> f[i]]
    <2>9. \A i \in 0 .. count : g[i] = f[i]
      OBVIOUS
    <2>10. \A i \in 0 .. count : i # 0 => i \in 1 .. count /\ i - 1 \in 0 .. count
      BY <1>4
    <2>11. \A i \in 0 .. count : g[i] = IF i = 0 THEN 0 ELSE 10 * g[i - 1] + digit(i)
      <3> HIDE DEF g
      <3> QED
        BY <2>7, <2>8, <2>9, <2>10
    <2>12. g = [i \in 0 .. count |-> IF i = 0 THEN 0 ELSE 10 * g[i - 1] + digit(i)]
      BY <2>11
    <2> QED
      BY <2>12
  <1>6. R = [i \in 0 .. count |-> IF i = 0 THEN 0 ELSE 10 * R[i - 1] + digit(i)]
    BY <1>5, Zenon
  <1>7. Atoi(s) = [n |-> R[count], rest |-> SubSeq(s, count + 1, Len(s))]
    BY DEF Atoi, count, IsCount, digit, DigitOf
  <1> HIDE DEF R
  <1> DEFINE T == {i \in Nat : i <= count => R[i] \in Nat}
  <1>8. 0 \in T
    <2>1. 0 \in 0 .. count
      BY <1>4
    <2>2. R[0] = 0
      BY <1>6, <2>1
    <2> QED
      BY <2>2
  <1>9. ASSUME NEW i \in Nat, i \in T PROVE i + 1 \in T
    <2> SUFFICES ASSUME i + 1 <= count PROVE R[i + 1] \in Nat
      OBVIOUS
    <2>1. /\ i + 1 \in 1 .. count /\ i + 1 \in 0 .. count
          /\ (i + 1) - 1 = i /\ i + 1 # 0 /\ R[i] \in Nat
      BY <1>4, <1>9
    <2>2. R[i + 1] = 10 * R[i] + digit(i + 1)
      BY <1>6, <2>1
    <2> QED
      BY <1>4, <2>1, <2>2
  <1> HIDE DEF T
  <1>10. \A i \in Nat : i \in T
    BY <1>8, <1>9, Induct
  <1>11. \A i \in 0 .. count : R[i] \in Nat
    BY <1>4, <1>10 DEF T
  <1>12. R[0] = 0 /\ \A i \in 1 .. count : R[i] = 10 * R[i - 1] + DigitOf(s[i])
    <2>1. 0 \in 0 .. count /\ \A i \in 1 .. count : i \in 0 .. count /\ i # 0
      BY <1>4
    <2> QED
      BY <1>6, <2>1 DEF digit
  <1>13. /\ \A i \in 1 .. count : s[i] \in Digits
         /\ count < Len(s) => s[count + 1] \notin Digits
    BY <1>3 DEF IsCount
  <1> QED
    BY <1>3, <1>7, <1>11, <1>12, <1>13 DEF Adds

(* The sum of the digits of a number is the number. *)
LEMMA SumIs ==
    \A v \in Nat : \A sums : Adds(sums, Decimal(v), Len(Decimal(v))) => sums[Len(Decimal(v))] = v
  <1> DEFINE T == {v \in Nat : \A sums : Adds(sums, Decimal(v), Len(Decimal(v)))
                                         => sums[Len(Decimal(v))] = v}
  <1>1. ASSUME NEW v \in Nat, \A k \in 0 .. v - 1 : k \in T PROVE v \in T
    <2> SUFFICES ASSUME NEW sums, Adds(sums, Decimal(v), Len(Decimal(v)))
                 PROVE  sums[Len(Decimal(v))] = v
      OBVIOUS
    <2> DEFINE m == v % 10
               u == v \div 10
               ch == DigitChars[m + 1]
    <2>1. /\ Decimal(v) \in Seq(Digits)
          /\ v < 10 => Decimal(v) = <<ch>>
          /\ v >= 10 => Decimal(v) = Decimal(u) \o <<ch>>
          /\ m \in 0 .. 9 /\ u \in Nat /\ v = 10 * u + m /\ ch \in Digits
          /\ v < 10 => m = v /\ u = 0
          /\ v >= 10 => u # 0 /\ u < v
      BY DecimalStep
    <2>2. DigitOf(ch) = m
      BY <2>1, DigitIs DEF DigitOf
    <2> HIDE DEF m, u, ch
    <2>3. CASE v < 10
      <3>1. Len(<<ch>>) = 1 /\ <<ch>>[1] = ch
        OBVIOUS
      <3>2. Len(Decimal(v)) = 1 /\ Decimal(v)[1] = ch
        BY <2>1, <2>3, <3>1
      <3>3. sums[0] = 0 /\ sums[1] = 10 * sums[0] + DigitOf(ch)
        <4>1. 1 \in 1 .. 1 /\ 1 - 1 = 0
          OBVIOUS
        <4> QED
          BY <3>2, <4>1 DEF Adds
      <3>4. sums[1] = m
        BY <2>1, <2>2, <3>3
      <3> QED
        BY <2>1, <2>3, <3>2, <3>4
    <2>4. CASE v >= 10
      <3> DEFINE n == Len(Decimal(u))
      <3>1. Decimal(u) \in Seq(Digits) /\ n \in Nat
        BY <2>1, DecimalStep, LenProperties
      <3>2. <<ch>> \in Seq(Digits) /\ Len(<<ch>>) = 1 /\ <<ch>>[1] = ch
        BY <2>1, OneChar
      <3>3. /\ Len(Decimal(v)) = n + Len(<<ch>>)
            /\ \A i \in 1 .. n + Len(<<ch>>) :
                  Decimal(v)[i] = IF i <= n THEN Decimal(u)[i] ELSE <<ch>>[i - n]
        BY <2>1, <2>4, <3>1, <3>2, ConcatProperties
      <3>4. Len(Decimal(v)) = n + 1 /\ Decimal(v)[n + 1] = ch
        <4>1. n + 1 \in 1 .. n + 1 /\ ~ (n + 1 <= n) /\ (n + 1) - n = 1
          BY <3>1
        <4> QED
          BY <3>2, <3>3, <4>1
      <3>5. \A i \in 1 .. n : i \in 1 .. n + 1 /\ Decimal(v)[i] = Decimal(u)[i]
        BY <3>1, <3>2, <3>3
      <3> HIDE DEF n
      <3>6. Adds(sums, Decimal(u), n)
        BY <3>4, <3>5 DEF Adds
      <3>7. u \in T
        BY <1>1, <2>1, <2>4
      <3>8. sums[n] = u
        BY <3>6, <3>7 DEF n
      <3>9. sums[n + 1] = 10 * sums[(n + 1) - 1] + DigitOf(ch)
        <4>1. n + 1 \in 1 .. n + 1
          BY <3>1
        <4> QED
          BY <3>4, <4>1 DEF Adds
      <3>10. (n + 1) - 1 = n
        BY <3>1
      <3> QED
        BY <2>1, <2>2, <3>4, <3>8, <3>9, <3>10
    <2> QED
      BY <2>3, <2>4
  <1> HIDE DEF T
  <1>2. \A v \in Nat : v \in T
    BY <1>1, InductBelow
  <1> QED
    BY <1>2 DEF T

(* _atoi reads back a number that is followed by something else. *)
LEMMA AtoiOfDecimal ==
    ASSUME NEW v \in Nat, NEW t \in Seq(Chars), t # <<>>, Head(t) \notin Digits
    PROVE  Atoi(Decimal(v) \o t) = [n |-> v, rest |-> t]
  <1> DEFINE D == Decimal(v)
             s == D \o t
             n == Len(D)
  <1>1. D \in Seq(Digits) /\ D \in Seq(Chars) /\ n \in Nat
    <2>1. Digits \subseteq Chars
      BY DigitsArePlain DEF Chars, Known
    <2> QED
      BY <2>1, DecimalStep, SeqMonotonic, LenProperties
  <1> HIDE DEF D
  <1>2. /\ s \in Seq(Chars) /\ Len(s) = n + Len(t) /\ Len(t) \in Nat \ {0} /\ Head(t) = t[1]
        /\ \A i \in 1 .. n + Len(t) : s[i] = IF i <= n THEN D[i] ELSE t[i - n]
    BY <1>1, ConcatProperties, LenProperties, EmptySeq
  <1>3. \A i \in 1 .. n : s[i] = D[i] /\ s[i] \in Digits
    BY <1>1, <1>2, ElementOfSeq
  <1>4. s[n + 1] \notin Digits /\ n + 1 <= Len(s)
    <2>1. n + 1 \in 1 .. n + Len(t) /\ ~ (n + 1 <= n) /\ (n + 1) - n = 1
      BY <1>1, <1>2
    <2> QED
      BY <1>2, <2>1
  <1> HIDE DEF s
  <1>0. PICK c \in 0 .. Len(s) : \E sums :
              /\ \A i \in 1 .. c : s[i] \in Digits
              /\ c < Len(s) => s[c + 1] \notin Digits
              /\ Adds(sums, s, c) /\ \A i \in 0 .. c : sums[i] \in Nat
              /\ Atoi(s) = [n |-> sums[c], rest |-> SubSeq(s, c + 1, Len(s))]
    BY <1>2, AtoiSteps
  <1>5. PICK sums :
              /\ \A i \in 1 .. c : s[i] \in Digits
              /\ c < Len(s) => s[c + 1] \notin Digits
              /\ Adds(sums, s, c) /\ \A i \in 0 .. c : sums[i] \in Nat
              /\ Atoi(s) = [n |-> sums[c], rest |-> SubSeq(s, c + 1, Len(s))]
    BY <1>0
  <1>6. c = n
    <2>1. c \in Nat /\ Len(s) \in Nat
      BY <1>1, <1>2
    <2>2. ~ (c < n)
      <3> SUFFICES ASSUME c < n PROVE FALSE
        OBVIOUS
      <3>1. c + 1 \in 1 .. n /\ c < Len(s)
        BY <1>1, <1>4, <2>1
      <3> QED
        BY <1>3, <1>5, <3>1
    <2>3. ~ (n < c)
      <3> SUFFICES ASSUME n < c PROVE FALSE
        OBVIOUS
      <3>1. n + 1 \in 1 .. c
        BY <1>1, <2>1
      <3> QED
        BY <1>4, <1>5, <3>1
    <2> QED
      BY <1>1, <2>1, <2>2, <2>3
  <1>7. Adds(sums, D, n)
    BY <1>3, <1>5, <1>6 DEF Adds
  <1>8. sums[n] = v
    BY <1>7, SumIs DEF D
  <1>9. SubSeq(s, n + 1, Len(s)) = t
    BY <1>1, RestOfBoth DEF s
  <1> QED
    BY <1>5, <1>6, <1>8, <1>9 DEF s, D

-------------------------------------------------------------------------------
(***************************************************************************)
(* The directive, part by part.                                            *)
(***************************************************************************)
(* What a directive leaves to be read after its parts. *)
FromConv(d) == <<d.conv, ">">>
FromLength(d) == d.length \o FromConv(d)
FromPrec(d) == PrecText(d) \o FromLength(d)
FromWidth(d) == WidthText(d) \o FromPrec(d)
Reserved == FlagChars \union Digits \union LengthChars \union {"*", ".", NUL}

(* The directives of the assumed calls. *)
FitDir(d) ==
    /\ d.flags \in Seq(FlagChars) /\ d.length \in Lengths
    /\ d.width \in (Nat \ {0}) \union {Unset, Star} /\ d.prec \in Nat \union {Unset, Star}
    /\ d.conv \in Chars \ Reserved

(* The classes of characters by which the walk decides. *)
LEMMA ClassesAreApart ==
    /\ FlagChars \intersect ((Digits \ {"0"}) \union LengthChars \union {"*", ".", NUL}) = {}
    /\ Digits \intersect (LengthChars \union {"*", ".", NUL}) = {}
    /\ LengthChars \intersect {"*", ".", NUL} = {}
    /\ "*" # "." /\ "*" # NUL /\ "." # NUL
    /\ FlagChars \subseteq Chars /\ Digits \subseteq Chars /\ LengthChars \subseteq Chars
    /\ "*" \in Chars /\ "." \in Chars /\ "<" \in Chars /\ ">" \in Chars /\ "%" \in Chars
    /\ {"<", ">", "%"} \intersect Reserved = {}
    /\ "<" # "%" /\ ">" # "%"
  BY DigitsArePlain DEF FlagChars, LengthChars, NUL, Chars, Known, Reserved

(* Behind the specifier comes the literal.                                 *)
LEMMA FromConvIs ==
    ASSUME NEW d, FitDir(d)
    PROVE  /\ FromConv(d) \in Seq(Chars) \ {<<>>} /\ <<">">> \in Seq(Chars)
           /\ Head(FromConv(d)) = d.conv /\ Tail(FromConv(d)) = <<">">>
  <1>1. d.conv \in Chars /\ ">" \in Chars
    BY ClassesAreApart DEF FitDir
  <1> DEFINE c == d.conv
  <1> HIDE DEF c
  <1>2. /\ <<c, ">">> \in Seq(Chars) \ {<<>>} /\ <<">">> \in Seq(Chars)
        /\ Head(<<c, ">">>) = c /\ Tail(<<c, ">">>) = <<">">>
    BY <1>1 DEF c
  <1> QED
    BY <1>2 DEF FromConv, c

(* The length modifiers are made of their letters.                         *)
LEMMA LengthsAre ==
    ASSUME NEW l \in Lengths
    PROVE  l \in Seq(LengthChars) /\ l \in Seq(Chars)
  <1>1. /\ <<"h", "h">> \in Seq(LengthChars) /\ <<"l", "l">> \in Seq(LengthChars)
        /\ <<"h">> \in Seq(LengthChars) /\ <<"l">> \in Seq(LengthChars)
        /\ <<"t">> \in Seq(LengthChars) /\ <<"j">> \in Seq(LengthChars)
        /\ <<"z">> \in Seq(LengthChars) /\ <<>> \in Seq(LengthChars)
    BY DEF LengthChars
  <1>2. l \in Seq(LengthChars)
    BY <1>1, Zenon DEF Lengths
  <1> QED
    BY <1>2, ClassesAreApart, SeqMonotonic

(* The length modifier, if there is one, comes before the specifier.       *)
LEMMA FromLengthIs ==
    ASSUME NEW d, FitDir(d)
    PROVE  /\ FromLength(d) \in Seq(Chars) \ {<<>>}
           /\ d.length = <<>> => FromLength(d) = FromConv(d)
           /\ d.length # <<>> => /\ Head(FromLength(d)) = Head(d.length)
                                 /\ Head(FromLength(d)) \in LengthChars
                                 /\ Tail(FromLength(d)) = Tail(d.length) \o FromConv(d)
           /\ Head(FromLength(d)) \in LengthChars \union {d.conv}
  <1>1. d.length \in Seq(LengthChars) /\ d.length \in Seq(Chars)
    BY LengthsAre DEF FitDir
  <1>2. FromConv(d) \in Seq(Chars) \ {<<>>} /\ Head(FromConv(d)) = d.conv
    BY FromConvIs
  <1>3. CASE d.length = <<>>
    <2>1. FromLength(d) = FromConv(d)
      BY <1>2, <1>3, ConcatEmptySeq DEF FromLength
    <2> QED
      BY <1>2, <1>3, <2>1
  <1>4. CASE d.length # <<>>
    <2>1. /\ FromLength(d) \in Seq(Chars) /\ FromLength(d) # <<>>
          /\ Head(FromLength(d)) = Head(d.length)
          /\ Tail(FromLength(d)) = Tail(d.length) \o FromConv(d)
      <3>1. d.length \in Seq(Chars) /\ FromConv(d) \in Seq(Chars)
        BY <1>1, <1>2
      <3> QED
        BY <1>4, <3>1, HeadOfBoth DEF FromLength
    <2>2. Head(d.length) \in LengthChars
      BY <1>1, <1>4, HeadTailProperties
    <2> QED
      BY <1>4, <2>1, <2>2
  <1> QED
    BY <1>3, <1>4

(* The precision, if there is one, comes before it, and starts with a      *)
(* point.                                                                  *)
LEMMA FromPrecIs ==
    ASSUME NEW d, FitDir(d)
    PROVE  /\ FromPrec(d) \in Seq(Chars) \ {<<>>}
           /\ d.prec = Unset => FromPrec(d) = FromLength(d)
           /\ d.prec # Unset => Head(FromPrec(d)) = "."
           /\ d.prec = Star => /\ Tail(FromPrec(d)) # <<>> /\ Head(Tail(FromPrec(d))) = "*"
                               /\ Tail(Tail(FromPrec(d))) = FromLength(d)
           /\ d.prec \in Nat => /\ Tail(FromPrec(d)) = Decimal(d.prec) \o FromLength(d)
                                /\ Head(Tail(FromPrec(d))) \in Digits
           /\ Head(FromPrec(d)) \in LengthChars \union {".", d.conv}
  <1>1. /\ FromLength(d) \in Seq(Chars) /\ FromLength(d) # <<>>
        /\ Head(FromLength(d)) \in LengthChars \union {d.conv}
    BY FromLengthIs
  <1>2. "." \in Chars /\ "*" \in Chars /\ Digits \subseteq Chars
    BY ClassesAreApart
  <1>3. Unset = -1 /\ Star = -2
    BY DEF Unset, Star
  <1>4. CASE d.prec = Unset
    <2>1. PrecText(d) = <<>>
      BY <1>3, <1>4 DEF PrecText
    <2>2. FromPrec(d) = FromLength(d)
      BY <1>1, <2>1, ConcatEmptySeq DEF FromPrec
    <2>3. d.prec # Star /\ d.prec \notin Nat
      BY <1>3, <1>4
    <2> QED
      BY <1>1, <1>4, <2>2, <2>3
  <1>5. CASE d.prec = Star
    <2>1. PrecText(d) = <<".", "*">>
      BY <1>3, <1>5 DEF PrecText
    <2>2. /\ <<".", "*">> \in Seq(Chars) /\ <<".", "*">> # <<>> /\ Head(<<".", "*">>) = "."
          /\ Tail(<<".", "*">>) = <<"*">> /\ <<"*">> \in Seq(Chars) /\ <<"*">> # <<>>
          /\ Head(<<"*">>) = "*" /\ Tail(<<"*">>) = <<>>
      BY <1>2
    <2>3. /\ FromPrec(d) \in Seq(Chars) /\ FromPrec(d) # <<>> /\ Head(FromPrec(d)) = "."
          /\ Tail(FromPrec(d)) = <<"*">> \o FromLength(d)
      BY <1>1, <2>1, <2>2, HeadOfBoth DEF FromPrec
    <2>4. /\ <<"*">> \o FromLength(d) # <<>> /\ Head(<<"*">> \o FromLength(d)) = "*"
          /\ Tail(<<"*">> \o FromLength(d)) = <<>> \o FromLength(d)
      BY <1>1, <2>2, HeadOfBoth
    <2>5. <<>> \o FromLength(d) = FromLength(d)
      BY <1>1, ConcatEmptySeq
    <2>6. d.prec # Unset /\ d.prec \notin Nat
      BY <1>3, <1>5
    <2> QED
      BY <2>3, <2>4, <2>5, <2>6
  <1>6. CASE d.prec \in Nat
    <2> DEFINE D == Decimal(d.prec)
    <2>1. d.prec # Unset /\ d.prec # Star
      BY <1>3, <1>6
    <2>2. PrecText(d) = <<".">> \o D
      BY <2>1 DEF PrecText, Decimal
    <2>3. D \in Seq(Digits) /\ D # <<>>
      BY <1>6, DecimalStep
    <2>4. D \in Seq(Chars)
      BY <1>2, <2>3, SeqMonotonic
    <2>5. Head(D) \in Digits
      BY <2>3, HeadTailProperties
    <2> HIDE DEF D
    <2>6. /\ <<".">> \in Seq(Chars) /\ <<".">> # <<>> /\ Head(<<".">>) = "." /\ Tail(<<".">>) = <<>>
      BY <1>2
    <2>7. FromPrec(d) = <<".">> \o (D \o FromLength(d))
      BY <1>1, <2>2, <2>4, <2>6, ConcatAssociative DEF FromPrec
    <2>8. D \o FromLength(d) \in Seq(Chars) /\ Head(D \o FromLength(d)) = Head(D)
      BY <1>1, <2>3, <2>4, HeadOfBoth
    <2>9. /\ FromPrec(d) \in Seq(Chars) /\ FromPrec(d) # <<>> /\ Head(FromPrec(d)) = "."
          /\ Tail(FromPrec(d)) = <<>> \o (D \o FromLength(d))
      BY <2>6, <2>7, <2>8, HeadOfBoth
    <2>10. Tail(FromPrec(d)) = D \o FromLength(d)
      BY <2>8, <2>9, ConcatEmptySeq
    <2> QED
      BY <2>1, <2>5, <2>8, <2>9, <2>10 DEF D
  <1> QED
    BY <1>4, <1>5, <1>6 DEF FitDir

(* The width comes before it; it never starts with a flag (a number that   *)
(* is not 0 does not start with 0).                                        *)
LEMMA FromWidthIs ==
    ASSUME NEW d, FitDir(d)
    PROVE  /\ FromWidth(d) \in Seq(Chars) \ {<<>>}
           /\ d.width = Unset => FromWidth(d) = FromPrec(d)
           /\ d.width = Star => Head(FromWidth(d)) = "*" /\ Tail(FromWidth(d)) = FromPrec(d)
           /\ d.width \in Nat => /\ FromWidth(d) = Decimal(d.width) \o FromPrec(d)
                                 /\ Head(FromWidth(d)) \in Digits \ {"0"}
           /\ Head(FromWidth(d)) \notin FlagChars
  <1>1. /\ FromPrec(d) \in Seq(Chars) /\ FromPrec(d) # <<>>
        /\ Head(FromPrec(d)) \in LengthChars \union {".", d.conv}
    BY FromPrecIs
  <1>2. "*" \in Chars /\ Digits \subseteq Chars
    BY ClassesAreApart
  <1>3. Unset = -1 /\ Star = -2
    BY DEF Unset, Star
  <1>4. CASE d.width = Unset
    <2>1. WidthText(d) = <<>>
      BY <1>3, <1>4 DEF WidthText
    <2>2. FromWidth(d) = FromPrec(d)
      BY <1>1, <2>1, ConcatEmptySeq DEF FromWidth
    <2>3. d.width # Star /\ d.width \notin Nat
      BY <1>3, <1>4
    <2>4. Head(FromPrec(d)) \notin FlagChars
      BY <1>1, ClassesAreApart DEF FitDir, Reserved
    <2> QED
      BY <1>1, <1>4, <2>2, <2>3, <2>4
  <1>5. CASE d.width = Star
    <2>1. WidthText(d) = <<"*">>
      BY <1>3, <1>5 DEF WidthText
    <2>2. <<"*">> \in Seq(Chars) /\ <<"*">> # <<>> /\ Head(<<"*">>) = "*" /\ Tail(<<"*">>) = <<>>
      BY <1>2
    <2>3. /\ FromWidth(d) \in Seq(Chars) /\ FromWidth(d) # <<>> /\ Head(FromWidth(d)) = "*"
          /\ Tail(FromWidth(d)) = <<>> \o FromPrec(d)
      BY <1>1, <2>1, <2>2, HeadOfBoth DEF FromWidth
    <2>4. Tail(FromWidth(d)) = FromPrec(d)
      BY <1>1, <2>3, ConcatEmptySeq
    <2>5. d.width # Unset /\ d.width \notin Nat
      BY <1>3, <1>5
    <2> QED
      BY <2>3, <2>4, <2>5, ClassesAreApart
  <1>6. CASE d.width \in Nat \ {0}
    <2> DEFINE D == Decimal(d.width)
    <2>1. d.width # Unset /\ d.width # Star /\ d.width \in Nat
      BY <1>3, <1>6
    <2>2. WidthText(d) = D
      BY <2>1 DEF WidthText, Decimal
    <2>3. D \in Seq(Digits) /\ D # <<>> /\ Head(D) \in Digits \ {"0"}
      BY <1>6, DecimalStep, DecimalHead
    <2>4. D \in Seq(Chars)
      BY <1>2, <2>3, SeqMonotonic
    <2> HIDE DEF D
    <2>5. /\ FromWidth(d) \in Seq(Chars) /\ FromWidth(d) # <<>> /\ Head(FromWidth(d)) = Head(D)
      BY <1>1, <2>2, <2>3, <2>4, HeadOfBoth DEF FromWidth
    <2>6. FromWidth(d) = D \o FromPrec(d)
      BY <2>2 DEF FromWidth
    <2> QED
      BY <2>1, <2>3, <2>5, <2>6, ClassesAreApart DEF D
  <1> QED
    BY <1>4, <1>5, <1>6 DEF FitDir

-------------------------------------------------------------------------------
(***************************************************************************)
(* The walk reads the directive as the C standard does: at every stage it  *)
(* is at a part of the directive, with the flags, width and precision of   *)
(* the parts before it and the arguments of their stars.                   *)
(***************************************************************************)
(* A call: as many arguments as its directive has stars. *)
FitCall(j) ==
    /\ GoodCall(j) /\ FitDir(j.dir) /\ j.star \in Seq(Int)
    /\ j.dir.width = Star \/ j.dir.prec = Star => j.star # <<>>
    /\ j.dir.width = Star /\ j.dir.prec = Star => Len(j.star) >= 2

(* What a part of the directive makes of the arguments and the flags. *)
StarsLeft(j) == IF j.dir.width = Star THEN Tail(j.star) ELSE j.star
PrecFlags(j) == CFlags(j) \union (IF j.dir.prec = Unset THEN {} ELSE {"precision"})
LengthFlags(d) == CASE d.length = <<>> -> {} [] d.length = <<"h", "h">> -> {"h", "hh"}
                    [] d.length = <<"h">> -> {"h"} [] OTHER -> {"l"}
ReadFlags(j) == PrecFlags(j) \union LengthFlags(j.dir)
ReadPrec(j) == Larger(0, CPrec(j))

(* Where the walk is within the directive. *)
InFlags ==
    \E k \in 0 .. Len(job.dir.flags) :
        /\ format = SubSeq(job.dir.flags, k + 1, Len(job.dir.flags)) \o FromWidth(job.dir)
        /\ flags = {job.dir.flags[i] : i \in 1 .. k}
        /\ width = 0 /\ precision = 0 /\ star = job.star

(* With the width read, or without one; with the precision read, or        *)
(* without one.                                                            *)
AtPrec ==
    /\ format = FromPrec(job.dir) /\ flags = CFlags(job)
    /\ width = CWidth(job) /\ precision = 0 /\ star = StarsLeft(job)

AtLength ==
    /\ format = FromLength(job.dir) /\ flags = PrecFlags(job)
    /\ width = CWidth(job) /\ precision = ReadPrec(job)

(* With everything read, and the text that is then put out. *)
IsRead == flags = ReadFlags(job) /\ width = CWidth(job) /\ precision = ReadPrec(job)
AtConv == format = FromConv(job.dir) /\ IsRead
Shown == Converted(job.dir.conv)

(* Between the percent sign and the specifier; before and behind them.     *)
Within ==
    /\ text = <<"<">>
    /\ \/ stage = "flags" /\ InFlags
       \/ stage = "precision" /\ AtPrec
       \/ stage = "length" /\ AtLength
       \/ stage = "convert" /\ AtConv

Around ==
    /\ stage = "text"
    /\ \/ format = Render(job.dir) /\ text = <<>> /\ star = job.star
       \/ /\ format = <<"%">> \o (job.dir.flags \o FromWidth(job.dir))
          /\ text = <<"<">> /\ star = job.star
       \/ format = <<">">> /\ text = <<"<">> \o Shown /\ IsRead
       \/ format = <<>> /\ text = (<<"<">> \o Shown) \o <<">">> /\ IsRead

(* The walk has read what is not left of the format, as the C standard     *)
(* says, and put out the text for it.                                      *)
Walk == FitCall(job) /\ (Around \/ Within)

(* Width and precision are numbers, and every star finds its argument.     *)
LEMMA StarsAre ==
    ASSUME NEW j, FitCall(j)
    PROVE  /\ j.dir.width = Star => /\ j.star # <<>> /\ j.star[1] \in Int
                                    /\ CWidth(j) = IF j.star[1] < 0 THEN -j.star[1] ELSE j.star[1]
           /\ j.dir.prec = Star => /\ StarsLeft(j)[1] \in Int
                                   /\ ReadPrec(j) = Larger(0, StarsLeft(j)[1])
           /\ CWidth(j) \in Nat /\ ReadPrec(j) \in Nat /\ CPrec(j) \in Nat \union {Unset}
           /\ j.dir.width = Unset => CWidth(j) = 0
           /\ j.dir.width \in Nat => CWidth(j) = j.dir.width
           /\ j.dir.prec = Unset => ReadPrec(j) = 0 /\ CPrec(j) = Unset
           /\ j.dir.prec \in Nat => ReadPrec(j) = j.dir.prec /\ CPrec(j) = j.dir.prec
           /\ j.dir.width # Star => CFlags(j) = {j.dir.flags[i] : i \in DOMAIN j.dir.flags}
  <1>1. Unset = -1 /\ Star = -2
    BY DEF Unset, Star
  <1>2. /\ j.star \in Seq(Int) /\ Len(j.star) \in Nat
        /\ \A i \in 1 .. Len(j.star) : j.star[i] \in Int
        /\ j.star # <<>> => Len(j.star) >= 1
    BY LenProperties, EmptySeq, ElementOfSeq DEF FitCall
  <1>3. j.dir.width \in (Nat \ {0}) \union {Unset, Star} /\ j.dir.prec \in Nat \union {Unset, Star}
    BY DEF FitCall, FitDir
  <1>4. j.dir.width = Star => j.star # <<>> /\ j.star[1] \in Int
    BY <1>2 DEF FitCall
  <1>5. /\ j.dir.width = Star => CWidth(j) = IF j.star[1] < 0 THEN -j.star[1] ELSE j.star[1]
        /\ j.dir.width = Unset => CWidth(j) = 0
        /\ j.dir.width \in Nat => CWidth(j) = j.dir.width
    BY <1>1 DEF CWidth
  <1>6. CWidth(j) \in Nat
    BY <1>1, <1>3, <1>4, <1>5
  <1>7. j.dir.prec = Star => /\ StarsLeft(j)[1] \in Int
                             /\ CPrec(j) = IF StarsLeft(j)[1] < 0 THEN Unset ELSE StarsLeft(j)[1]
    <2> HAVE j.dir.prec = Star
    <2>1. CASE j.dir.width = Star
      <3>1. Len(j.star) >= 2
        BY <2>1 DEF FitCall
      <3>2. /\ Len(Tail(j.star)) = Len(j.star) - 1 /\ Len(j.star) \in Nat
            /\ \A i \in 1 .. Len(Tail(j.star)) : Tail(j.star)[i] = j.star[i + 1]
        BY <1>2, <2>1, <3>1, HeadTailProperties DEF FitCall
      <3>3. 1 \in 1 .. Len(Tail(j.star)) /\ 1 + 1 = 2 /\ 2 \in 1 .. Len(j.star)
        BY <3>1, <3>2
      <3>4. Tail(j.star)[1] = j.star[2] /\ j.star[2] \in Int
        BY <1>2, <3>2, <3>3
      <3> QED
        BY <2>1, <3>4 DEF StarsLeft, CPrec
    <2>2. CASE j.dir.width # Star
      <3>1. j.star[1] \in Int
        BY <1>2 DEF FitCall
      <3> QED
        BY <2>2, <3>1 DEF StarsLeft, CPrec
    <2> QED
      BY <2>1, <2>2
  <1>8. j.dir.prec # Star => CPrec(j) = j.dir.prec
    BY DEF CPrec
  <1>9. /\ j.dir.prec = Star => ReadPrec(j) = Larger(0, StarsLeft(j)[1])
        /\ ReadPrec(j) \in Nat /\ CPrec(j) \in Nat \union {Unset}
        /\ j.dir.prec = Unset => ReadPrec(j) = 0 /\ CPrec(j) = Unset
        /\ j.dir.prec \in Nat => ReadPrec(j) = j.dir.prec /\ CPrec(j) = j.dir.prec
    BY <1>1, <1>3, <1>7, <1>8 DEF ReadPrec, Larger
  <1>10. j.dir.width # Star => CFlags(j) = {j.dir.flags[i] : i \in DOMAIN j.dir.flags}
    BY DEF CFlags
  <1> QED
    BY <1>4, <1>5, <1>6, <1>7, <1>9, <1>10

(* The conversion of a directive that has been read puts out characters.   *)
LEMMA ShownIs ==
    ASSUME FitCall(job), IsRead
    PROVE  Shown \in Seq(Chars)
  <1>1. width \in Nat /\ precision \in Nat
    BY StarsAre DEF IsRead
  <1>2. GoodCall(job) /\ job.dir.conv \in Chars /\ (job.dir.conv = "c" => job.s # <<>>)
    BY DEF FitCall, GoodCall
  <1> QED
    BY <1>1, <1>2, ConvertedIs DEF Shown

(* Behind the flags, the next part of the directive comes. *)
LEMMA FlagsEnd ==
    ASSUME FitCall(job), InFlags
    PROVE  /\ format # <<>> /\ format \in Seq(Chars)
           /\ \/ Head(format) \in FlagChars
              \/ /\ format = FromWidth(job.dir) /\ star = job.star
                 /\ flags = {job.dir.flags[i] : i \in DOMAIN job.dir.flags}
                 /\ width = 0 /\ precision = 0
  <1> DEFINE f == job.dir.flags
             n == Len(f)
             w == FromWidth(job.dir)
  <1>1. PICK k \in 0 .. n :
            /\ format = SubSeq(f, k + 1, n) \o w
            /\ flags = {f[i] : i \in 1 .. k}
            /\ width = 0 /\ precision = 0 /\ star = job.star
    BY DEF InFlags
  <1>2. f \in Seq(FlagChars) /\ n \in Nat /\ DOMAIN f = 1 .. n
    BY LenProperties DEF FitCall, FitDir
  <1>3. w \in Seq(Chars) /\ w # <<>>
    BY FromWidthIs DEF FitCall
  <1> HIDE DEF w
  <1> DEFINE r == SubSeq(f, k + 1, n)
  <1>4. /\ r \in Seq(FlagChars) /\ Len(r) = n - k
        /\ \A i \in 1 .. n - k : r[i] = f[k + i]
    BY <1>2, SuffixIs
  <1> HIDE DEF r
  <1>5. r \in Seq(Chars)
    BY <1>4, ClassesAreApart, SeqMonotonic
  <1>6. CASE k = n
    <2>1. r = <<>>
      BY <1>2, <1>4, <1>6, EmptySeq
    <2>2. format = w
      BY <1>1, <1>3, <2>1, ConcatEmptySeq DEF r
    <2> QED
      BY <1>1, <1>2, <1>3, <1>6, <2>2 DEF w
  <1>7. CASE k # n
    <2>1. r # <<>>
      <3>1. Len(r) # 0
        BY <1>2, <1>4, <1>7
      <3> QED
        BY <3>1
    <2>2. format \in Seq(Chars) /\ format # <<>> /\ Head(format) = Head(r)
      BY <1>1, <1>3, <1>5, <2>1, HeadOfBoth DEF r
    <2>3. Head(r) \in FlagChars
      BY <1>4, <2>1, HeadTailProperties
    <2> QED
      BY <2>2, <2>3
  <1> QED
    BY <1>6, <1>7

(* A part that the directive does not have is passed: the width.          *)
LEMMA ToPrec ==
    ASSUME FitCall(job), Within, stage \in {"flags", "precision"},
           Head1 \notin FlagChars \union Digits \union {"*"}
    PROVE  AtPrec
  <1>1. CASE stage = "precision"
    BY <1>1 DEF Within
  <1>2. CASE stage = "flags"
    <2>1. InFlags
      BY <1>2 DEF Within
    <2>2. /\ format = FromWidth(job.dir) /\ star = job.star
          /\ flags = {job.dir.flags[i] : i \in DOMAIN job.dir.flags}
          /\ width = 0 /\ precision = 0
      BY <2>1, FlagsEnd DEF Head1
    <2>3. FitDir(job.dir) /\ format # <<>>
      BY <2>1, FlagsEnd DEF FitCall
    <2>4. job.dir.width = Unset
      BY <2>2, <2>3, FromWidthIs DEF Head1, FitDir
    <2>5. job.dir.width # Star
      BY <2>4 DEF Unset, Star
    <2>6. CFlags(job) = flags /\ CWidth(job) = 0 /\ StarsLeft(job) = job.star
      BY <2>2, <2>4, <2>5, StarsAre DEF StarsLeft
    <2>7. format = FromPrec(job.dir)
      BY <2>2, <2>3, <2>4, FromWidthIs
    <2> QED
      BY <2>2, <2>6, <2>7 DEF AtPrec
  <1> QED
    BY <1>1, <1>2

(* So is the precision.                                                    *)
LEMMA ToLength ==
    ASSUME FitCall(job), Within, stage \in {"flags", "precision", "length"},
           Head1 \notin FlagChars \union Digits \union {"*", "."}
    PROVE  AtLength
  <1>1. CASE stage = "length"
    BY <1>1 DEF Within
  <1>2. CASE stage \in {"flags", "precision"}
    <2>1. AtPrec
      BY <1>2, ToPrec
    <2>2. FitDir(job.dir)
      BY DEF FitCall
    <2>3. format \in Seq(Chars) \ {<<>>} /\ format = FromPrec(job.dir)
      BY <2>1, <2>2, FromPrecIs DEF AtPrec
    <2>4. job.dir.prec = Unset
      BY <2>2, <2>3, FromPrecIs DEF Head1
    <2>5. format = FromLength(job.dir)
      BY <2>2, <2>3, <2>4, FromPrecIs
    <2>6. ReadPrec(job) = 0 /\ PrecFlags(job) = CFlags(job)
      BY <2>4, StarsAre DEF PrecFlags
    <2> QED
      BY <2>1, <2>5, <2>6 DEF AtPrec, AtLength
  <1> QED
    BY <1>1, <1>2

(* At the specifier the whole directive has been read.                     *)
LEMMA ToConv ==
    ASSUME FitCall(job), Within, Head1 \notin Taken
    PROVE  AtConv
  <1>1. CASE stage = "convert"
    BY <1>1 DEF Within
  <1>2. CASE stage \in {"flags", "precision", "length"}
    <2>1. FitDir(job.dir)
      BY DEF FitCall
    <2>2. Head1 \notin LengthChars
      BY <1>2 DEF Taken
    <2>3. Head1 \notin FlagChars \union Digits \union {"*", "."}
      <3>1. CASE stage = "flags"
        BY <3>1 DEF Taken
      <3>2. CASE stage = "precision"
        <4>1. format = FromPrec(job.dir)
          BY <3>2 DEF Within, AtPrec
        <4>2. Head1 \in LengthChars \union {".", job.dir.conv}
          BY <2>1, <4>1, FromPrecIs DEF Head1
        <4>3. Head1 # "."
          BY <3>2 DEF Taken
        <4> QED
          BY <2>1, <2>2, <4>2, <4>3 DEF FitDir, Reserved
      <3>3. CASE stage = "length"
        <4>1. format = FromLength(job.dir)
          BY <3>3 DEF Within, AtLength
        <4>2. Head1 \in LengthChars \union {job.dir.conv}
          BY <2>1, <4>1, FromLengthIs DEF Head1
        <4> QED
          BY <2>1, <2>2, <4>2 DEF FitDir, Reserved
      <3> QED
        BY <1>2, <3>1, <3>2, <3>3
    <2>4. AtLength
      BY <1>2, <2>3, ToLength
    <2>5. format = FromLength(job.dir) /\ format # <<>>
      BY <2>1, <2>4, FromLengthIs DEF AtLength
    <2>6. job.dir.length = <<>>
      BY <2>1, <2>2, <2>5, FromLengthIs DEF Head1
    <2>7. format = FromConv(job.dir)
      BY <2>1, <2>5, <2>6, FromLengthIs
    <2>8. ReadFlags(job) = PrecFlags(job)
      BY <2>6 DEF ReadFlags, LengthFlags
    <2> QED
      BY <2>4, <2>7, <2>8 DEF AtLength, AtConv, IsRead
  <1> QED
    BY <1>1, <1>2 DEF Within

(* A format starts with the literal and the percent sign.                  *)
LEMMA RenderStarts ==
    ASSUME NEW d, FitDir(d)
    PROVE  LET rest == d.flags \o FromWidth(d)
           IN  /\ rest \in Seq(Chars)
               /\ Render(d) # <<>> /\ Head(Render(d)) = "<" /\ Tail(Render(d)) = <<"%">> \o rest
               /\ <<"%">> \o rest # <<>> /\ Head(<<"%">> \o rest) = "%"
               /\ Tail(<<"%">> \o rest) = rest
  <1> DEFINE rest == d.flags \o FromWidth(d)
  <1>1. d.flags \in Seq(Chars) /\ FromWidth(d) \in Seq(Chars)
    <2>1. d.flags \in Seq(FlagChars)
      BY DEF FitDir
    <2> QED
      BY <2>1, ClassesAreApart, SeqMonotonic, FromWidthIs
  <1>2. rest \in Seq(Chars)
    BY <1>1, ConcatProperties
  <1>3. Render(d) = <<"<", "%">> \o rest
    BY DEF Render, FromWidth, FromPrec, FromLength, FromConv
  <1> HIDE DEF rest
  <1>4. /\ <<"<", "%">> \in Seq(Chars) /\ <<"<", "%">> # <<>> /\ Head(<<"<", "%">>) = "<"
        /\ Tail(<<"<", "%">>) = <<"%">>
        /\ <<"%">> \in Seq(Chars) /\ <<"%">> # <<>> /\ Head(<<"%">>) = "%" /\ Tail(<<"%">>) = <<>>
    BY ClassesAreApart
  <1>5. Render(d) # <<>> /\ Head(Render(d)) = "<" /\ Tail(Render(d)) = <<"%">> \o rest
    BY <1>2, <1>3, <1>4, HeadOfBoth
  <1>6. /\ <<"%">> \o rest # <<>> /\ Head(<<"%">> \o rest) = "%"
        /\ Tail(<<"%">> \o rest) = <<>> \o rest
    BY <1>2, <1>4, HeadOfBoth
  <1>7. <<>> \o rest = rest
    BY <1>2, ConcatEmptySeq
  <1> QED
    BY <1>2, <1>5, <1>6, <1>7 DEF rest

(* What comes next outside of the directive. *)
LEMMA AroundIs ==
    ASSUME FitCall(job), Around
    PROVE  \/ /\ Head1 = "<" /\ text = <<>> /\ star = job.star
              /\ Tail(format) = <<"%">> \o (job.dir.flags \o FromWidth(job.dir))
           \/ /\ Head1 = "%" /\ text = <<"<">> /\ star = job.star
              /\ Tail(format) = job.dir.flags \o FromWidth(job.dir)
           \/ Head1 = ">" /\ Tail(format) = <<>> /\ text = <<"<">> \o Shown /\ IsRead
           \/ Head1 = NUL /\ format = <<>> /\ text = (<<"<">> \o Shown) \o <<">">> /\ IsRead
  <1> DEFINE rest == job.dir.flags \o FromWidth(job.dir)
  <1>1. /\ Render(job.dir) # <<>> /\ Head(Render(job.dir)) = "<"
        /\ Tail(Render(job.dir)) = <<"%">> \o rest
        /\ <<"%">> \o rest # <<>> /\ Head(<<"%">> \o rest) = "%" /\ Tail(<<"%">> \o rest) = rest
    BY RenderStarts DEF FitCall
  <1>2. <<">">> # <<>> /\ Head(<<">">>) = ">" /\ Tail(<<">">>) = <<>>
    OBVIOUS
  <1> HIDE DEF rest
  <1> QED
    BY <1>1, <1>2 DEF Around, Head1, rest

(* A step that leaves flags, width and precision alone leaves the text to  *)
(* come alone.                                                             *)
LEMMA SameShown ==
    ASSUME UNCHANGED <<job, flags, width, precision>>
    PROVE  Shown' = Shown /\ (IsRead => IsRead') /\ (FitCall(job) => FitCall(job)')
  BY DEF Shown, Converted, DoubleText, IsRead

(* The actions keep the place: a literal,                                  *)
LEMMA LiteralWalks == ASSUME Walk, Literal PROVE Walk'
  <1>1. Around /\ FitCall(job)
    BY DEF Walk, Literal, Within
  <1>2. /\ job' = job /\ stage' = "text" /\ stage = "text" /\ star' = star
        /\ format' = Tail(format) /\ text' = text \o <<Head1>> /\ Head1 \notin {NUL, "%"}
        /\ UNCHANGED <<job, flags, width, precision>>
    BY DEF Literal, Out, directive
  <1>3. Shown' = Shown /\ (IsRead => IsRead') /\ FitCall(job)'
    BY <1>1, <1>2, SameShown
  <1>4. CASE /\ Head1 = "<" /\ text = <<>> /\ star = job.star
             /\ Tail(format) = <<"%">> \o (job.dir.flags \o FromWidth(job.dir))
    <2>1. <<>> \o <<"<">> = <<"<">>
      OBVIOUS
    <2>2. text' = <<"<">> /\ format' = <<"%">> \o (job.dir.flags \o FromWidth(job.dir))
      BY <1>2, <1>4, <2>1
    <2> QED
      BY <1>2, <1>3, <1>4, <2>2 DEF Walk, Around
  <1>5. CASE Head1 = ">" /\ Tail(format) = <<>> /\ text = <<"<">> \o Shown /\ IsRead
    <2>1. text' = (<<"<">> \o Shown') \o <<">">> /\ format' = <<>>
      BY <1>2, <1>3, <1>5
    <2> QED
      BY <1>2, <1>3, <1>5, <2>1 DEF Walk, Around
  <1> QED
    BY <1>1, <1>2, <1>4, <1>5, AroundIs

(* the percent sign,                                                       *)
LEMMA PercentWalks == ASSUME Walk, Percent PROVE Walk'
  <1>1. Around /\ FitCall(job)
    BY DEF Walk, Percent, Within
  <1>2. /\ job' = job /\ stage' = "flags" /\ star' = star /\ text' = text
        /\ format' = Tail(format) /\ Head1 = "%" /\ flags' = {} /\ width' = 0 /\ precision' = 0
    BY DEF Percent, Silent
  <1>3. /\ text = <<"<">> /\ star = job.star
        /\ Tail(format) = job.dir.flags \o FromWidth(job.dir)
    BY <1>1, <1>2, AroundIs, ClassesAreApart DEF Reserved
  <1>4. InFlags'
    <2> DEFINE f == job.dir.flags
    <2>1. f \in Seq(FlagChars) /\ Len(f) \in Nat
      BY <1>1, LenProperties DEF FitCall, FitDir
    <2>2. SubSeq(f, 0 + 1, Len(f)) = f
      BY <2>1, SubSeqFull
    <2>3. {f[i] : i \in 1 .. 0} = {} /\ 0 \in 0 .. Len(f)
      BY <2>1
    <2> QED
      BY <1>2, <1>3, <2>2, <2>3 DEF InFlags
  <1> QED
    BY <1>1, <1>2, <1>3, <1>4 DEF Walk, Within

(* a flag,                                                                 *)
LEMMA FlagWalks == ASSUME Walk, Flag PROVE Walk'
  <1>1. /\ FitCall(job) /\ InFlags /\ text = <<"<">>
        /\ job' = job /\ stage' = "flags" /\ star' = star /\ text' = text
        /\ format' = Tail(format) /\ Head1 \in FlagChars /\ flags' = flags \union {Head1}
        /\ width' = width /\ precision' = precision
    BY DEF Walk, Within, Around, Flag, Silent
  <1> DEFINE f == job.dir.flags
             n == Len(f)
             w == FromWidth(job.dir)
  <1>2. PICK k \in 0 .. n :
            /\ format = SubSeq(f, k + 1, n) \o w
            /\ flags = {f[i] : i \in 1 .. k}
            /\ width = 0 /\ precision = 0 /\ star = job.star
    BY <1>1 DEF InFlags
  <1>3. f \in Seq(FlagChars) /\ n \in Nat
    BY <1>1, LenProperties DEF FitCall, FitDir
  <1>4. w \in Seq(Chars) /\ w # <<>> /\ Head(w) \notin FlagChars
    BY <1>1, FromWidthIs DEF FitCall
  <1> HIDE DEF w
  <1> DEFINE r == SubSeq(f, k + 1, n)
  <1>5. /\ r \in Seq(FlagChars) /\ Len(r) = n - k
        /\ \A i \in 1 .. n - k : r[i] = f[k + i]
    BY <1>3, SuffixIs
  <1>6. r \in Seq(Chars)
    BY <1>5, ClassesAreApart, SeqMonotonic
  <1> HIDE DEF r
  <1>7. k # n
    <2> SUFFICES ASSUME k = n PROVE FALSE
      OBVIOUS
    <2>1. r = <<>>
      BY <1>3, <1>5, EmptySeq
    <2>2. format = w
      BY <1>2, <1>4, <2>1, ConcatEmptySeq DEF r
    <2> QED
      BY <1>1, <1>4, <2>2 DEF Head1
  <1>8. k + 1 \in 0 .. n /\ Len(r) \in Nat \ {0} /\ 1 \in 1 .. n - k
    BY <1>3, <1>5, <1>7
  <1>9. r # <<>> /\ Head(r) = f[k + 1]
    BY <1>5, <1>8, HeadTailProperties
  <1>10. format # <<>> /\ Head(format) = f[k + 1] /\ Tail(format) = Tail(r) \o w
    <2>1. /\ r \o w # <<>> /\ Head(r \o w) = Head(r) /\ Tail(r \o w) = Tail(r) \o w
      <3>1. r \in Seq(Chars) /\ w \in Seq(Chars) /\ r # <<>>
        BY <1>4, <1>6, <1>9
      <3> QED
        BY <3>1, HeadOfBoth
    <2>2. format = r \o w
      BY <1>2 DEF r
    <2> QED
      BY <1>9, <2>1, <2>2
  <1>11. Tail(r) = SubSeq(f, (k + 1) + 1, n)
    <2> DEFINE u == SubSeq(f, (k + 1) + 1, n)
    <2>1. /\ u \in Seq(FlagChars) /\ Len(u) = n - (k + 1)
          /\ \A i \in 1 .. n - (k + 1) : u[i] = f[(k + 1) + i]
      BY <1>3, <1>8, SuffixIs
    <2> HIDE DEF u
    <2>2. /\ Tail(r) \in Seq(FlagChars) /\ Len(Tail(r)) = Len(r) - 1
          /\ \A i \in 1 .. Len(Tail(r)) : Tail(r)[i] = r[i + 1]
      BY <1>5, <1>9, HeadTailProperties
    <2>3. Len(Tail(r)) = Len(u) /\ Len(u) = n - (k + 1)
      BY <1>3, <1>5, <2>1, <2>2
    <2>4. ASSUME NEW i \in 1 .. n - (k + 1) PROVE Tail(r)[i] = u[i]
      <3>1. i + 1 \in 1 .. n - k /\ k + (i + 1) = (k + 1) + i
        BY <1>3
      <3> QED
        BY <1>5, <2>1, <2>2, <2>3, <3>1
    <2> QED
      BY <2>1, <2>2, <2>3, <2>4, SeqEqual DEF u
  <1>12. flags' = {f[i] : i \in 1 .. k + 1}
    <2>1. Head1 = f[k + 1]
      BY <1>10 DEF Head1
    <2>2. 1 .. k + 1 = (1 .. k) \union {k + 1}
      BY <1>3
    <2> QED
      BY <1>1, <1>2, <2>1, <2>2
  <1>13. InFlags'
    <2> DEFINE m == k + 1
    <2>1. /\ m \in 0 .. n /\ format' = SubSeq(f, m + 1, n) \o w
          /\ flags' = {f[i] : i \in 1 .. m}
      BY <1>1, <1>8, <1>10, <1>11, <1>12
    <2> HIDE DEF m
    <2>2. /\ width' = 0 /\ precision' = 0 /\ star' = job'.star
          /\ m \in 0 .. Len(job'.dir.flags)
          /\ format' = SubSeq(job'.dir.flags, m + 1, Len(job'.dir.flags)) \o FromWidth(job'.dir)
          /\ flags' = {job'.dir.flags[i] : i \in 1 .. m}
      BY <1>1, <1>2, <2>1 DEF w
    <2> QED
      BY <2>2 DEF InFlags
  <1> QED
    BY <1>1, <1>13 DEF Walk, Within

(* What is left of the format are characters. *)
LEMMA FormatIs ==
    ASSUME Walk
    PROVE  format \in Seq(Chars)
  <1>1. FitCall(job) /\ FitDir(job.dir)
    BY DEF Walk, FitCall
  <1>2. CASE Within
    BY <1>1, <1>2, FlagsEnd, FromPrecIs, FromLengthIs, FromConvIs
       DEF Within, AtPrec, AtLength, AtConv
  <1>3. CASE Around
    <2> DEFINE rest == job.dir.flags \o FromWidth(job.dir)
    <2>1. rest \in Seq(Chars)
      BY <1>1, RenderStarts
    <2>2. Render(job.dir) = <<"<", "%">> \o rest
      BY DEF Render, FromWidth, FromPrec, FromLength, FromConv
    <2> HIDE DEF rest
    <2>3. /\ <<"<", "%">> \in Seq(Chars) /\ <<"%">> \in Seq(Chars)
          /\ <<">">> \in Seq(Chars) /\ <<>> \in Seq(Chars)
      BY ClassesAreApart
    <2>4. <<"<", "%">> \o rest \in Seq(Chars) /\ <<"%">> \o rest \in Seq(Chars)
      BY <2>1, <2>3, ConcatProperties
    <2> QED
      BY <1>3, <2>2, <2>3, <2>4 DEF Around, rest
  <1> QED
    BY <1>2, <1>3 DEF Walk

(* the width, a number or an argument,                                     *)
LEMMA WidthWalks == ASSUME Walk, Width PROVE Walk'
  <1>1. /\ FitCall(job) /\ InFlags /\ text = <<"<">>
        /\ job' = job /\ stage' = "precision" /\ text' = text /\ precision' = precision
        /\ Head1 \in (Digits \ {"0"}) \union {"*"}
        /\ Head1 = "*" => /\ width' = IF star[1] < 0 THEN -star[1] ELSE star[1]
                          /\ flags' = IF star[1] < 0 THEN flags \union {"-"} ELSE flags
                          /\ star' = Tail(star) /\ format' = Tail(format)
        /\ Head1 # "*" => /\ width' = Atoi(format).n /\ format' = Atoi(format).rest
                          /\ flags' = flags /\ star' = star
    BY DEF Walk, Within, Around, Width, Silent
  <1> DEFINE d == job.dir
  <1>2. FitDir(d)
    BY <1>1 DEF FitCall
  <1>3. /\ format = FromWidth(d) /\ star = job.star /\ format # <<>>
        /\ flags = {d.flags[i] : i \in DOMAIN d.flags}
        /\ width = 0 /\ precision = 0 /\ Head1 = Head(format)
    <2>1. Head1 \notin FlagChars
      BY <1>1, ClassesAreApart
    <2>2. format # <<>>
      BY <1>1, FlagsEnd
    <2> QED
      BY <1>1, <2>1, <2>2, FlagsEnd DEF Head1
  <1>4. d.width # Unset
    <2> SUFFICES ASSUME d.width = Unset PROVE FALSE
      OBVIOUS
    <2>1. format = FromPrec(d)
      BY <1>2, <1>3, FromWidthIs
    <2>2. Head1 \in LengthChars \union {".", d.conv}
      BY <1>2, <1>3, <2>1, FromPrecIs
    <2>3. d.conv \notin Digits \union {"*"}
      BY <1>2 DEF FitDir, Reserved
    <2> QED
      BY <1>1, <2>2, <2>3, ClassesAreApart
  <1>5. Unset = -1 /\ Star = -2
    BY DEF Unset, Star
  <1>6. CASE d.width = Star
    <2>1. Head1 = "*" /\ Tail(format) = FromPrec(d)
      BY <1>2, <1>3, <1>6, FromWidthIs
    <2>2. width' = CWidth(job)
      BY <1>1, <1>3, <1>6, <2>1, StarsAre
    <2>3. flags' = CFlags(job)
      BY <1>1, <1>3, <1>6, <2>1 DEF CFlags
    <2>4. star' = StarsLeft(job)
      BY <1>1, <1>3, <1>6, <2>1 DEF StarsLeft
    <2>5. AtPrec'
      BY <1>1, <1>3, <2>1, <2>2, <2>3, <2>4 DEF AtPrec
    <2> QED
      BY <1>1, <2>5 DEF Walk, Within
  <1>7. CASE d.width \in Nat \ {0}
    <2>1. format = Decimal(d.width) \o FromPrec(d) /\ Head1 \in Digits \ {"0"}
      BY <1>2, <1>3, <1>7, FromWidthIs
    <2>2. Head1 # "*" /\ d.width # Star
      BY <1>5, <1>7, <2>1, ClassesAreApart
    <2>3. FromPrec(d) \in Seq(Chars) /\ FromPrec(d) # <<>> /\ Head(FromPrec(d)) \notin Digits
      <3>1. /\ FromPrec(d) \in Seq(Chars) /\ FromPrec(d) # <<>>
            /\ Head(FromPrec(d)) \in LengthChars \union {".", d.conv}
        BY <1>2, FromPrecIs
      <3>2. d.conv \notin Digits
        BY <1>2 DEF FitDir, Reserved
      <3> QED
        BY <3>1, <3>2, ClassesAreApart
    <2>4. Atoi(format) = [n |-> d.width, rest |-> FromPrec(d)]
      BY <1>7, <2>1, <2>3, AtoiOfDecimal
    <2>5. width' = d.width /\ format' = FromPrec(d) /\ flags' = flags /\ star' = job.star
      BY <1>1, <1>3, <2>2, <2>4
    <2>6. CWidth(job) = d.width /\ CFlags(job) = flags /\ StarsLeft(job) = job.star
      BY <1>1, <1>3, <1>7, <2>2, StarsAre DEF StarsLeft
    <2>7. AtPrec'
      BY <1>1, <1>3, <2>5, <2>6 DEF AtPrec
    <2> QED
      BY <1>1, <2>7 DEF Walk, Within
  <1> QED
    BY <1>2, <1>4, <1>6, <1>7 DEF FitDir

(* the precision, a number or an argument,                                 *)
LEMMA PrecisionWalks == ASSUME Walk, Precision PROVE Walk'
  <1> DEFINE d == job.dir
             after == Tail(format)
  <1>1. /\ FitCall(job) /\ Within /\ stage \in {"flags", "precision"} /\ text = <<"<">>
        /\ job' = job /\ stage' = "length" /\ text' = text /\ width' = width
        /\ Head1 = "." /\ flags' = flags \union {"precision"}
        /\ Head(after) = "*" => precision' = Larger(0, star[1]) /\ format' = Tail(after)
        /\ Head(after) # "*" => precision' = Atoi(after).n /\ format' = Atoi(after).rest
    BY DEF Walk, Within, Around, Precision, Silent
  <1>2. FitDir(d)
    BY <1>1 DEF FitCall
  <1>3. AtPrec
    <2>1. Head1 \notin FlagChars \union Digits \union {"*"}
      BY <1>1, ClassesAreApart
    <2> QED
      BY <1>1, <2>1, ToPrec
  <1>4. /\ format = FromPrec(d) /\ format # <<>> /\ Head(format) = "." /\ star = StarsLeft(job)
        /\ flags = CFlags(job) /\ width = CWidth(job)
    BY <1>1, <1>2, <1>3, FromPrecIs DEF AtPrec, Head1
  <1>5. d.prec # Unset
    <2> SUFFICES ASSUME d.prec = Unset PROVE FALSE
      OBVIOUS
    <2>1. format = FromLength(d)
      BY <1>2, <1>4, FromPrecIs
    <2>2. "." \in LengthChars \union {d.conv}
      BY <1>2, <1>4, <2>1, FromLengthIs
    <2>3. d.conv # "."
      BY <1>2 DEF FitDir, Reserved
    <2> QED
      BY <2>2, <2>3, ClassesAreApart
  <1>6. flags' = PrecFlags(job)
    BY <1>1, <1>4, <1>5 DEF PrecFlags
  <1>7. CASE d.prec = Star
    <2>1. Head(after) = "*" /\ Tail(after) = FromLength(d)
      BY <1>2, <1>4, <1>7, FromPrecIs
    <2>2. precision' = ReadPrec(job)
      BY <1>1, <1>4, <1>7, <2>1, StarsAre
    <2>3. AtLength'
      BY <1>1, <1>4, <1>6, <2>1, <2>2 DEF AtLength
    <2> QED
      BY <1>1, <2>3 DEF Walk, Within
  <1>8. CASE d.prec \in Nat
    <2>1. after = Decimal(d.prec) \o FromLength(d) /\ Head(after) \in Digits
      BY <1>2, <1>4, <1>8, FromPrecIs
    <2>2. Head(after) # "*"
      BY <2>1, ClassesAreApart
    <2>3. FromLength(d) \in Seq(Chars) /\ FromLength(d) # <<>> /\ Head(FromLength(d)) \notin Digits
      <3>1. /\ FromLength(d) \in Seq(Chars) /\ FromLength(d) # <<>>
            /\ Head(FromLength(d)) \in LengthChars \union {d.conv}
        BY <1>2, FromLengthIs
      <3>2. d.conv \notin Digits
        BY <1>2 DEF FitDir, Reserved
      <3> QED
        BY <3>1, <3>2, ClassesAreApart
    <2>4. Atoi(after) = [n |-> d.prec, rest |-> FromLength(d)]
      BY <1>8, <2>1, <2>3, AtoiOfDecimal
    <2>5. precision' = d.prec /\ format' = FromLength(d)
      <3>1. precision' = Atoi(after).n /\ format' = Atoi(after).rest
        BY <1>1, <2>2
      <3>2. Atoi(after).n = d.prec /\ Atoi(after).rest = FromLength(d)
        BY <2>4
      <3> QED
        BY <3>1, <3>2
    <2>6. ReadPrec(job) = d.prec
      BY <1>1, <1>8, StarsAre
    <2>7. AtLength'
      BY <1>1, <1>4, <1>6, <2>5, <2>6 DEF AtLength
    <2> QED
      BY <1>1, <2>7 DEF Walk, Within
  <1> QED
    BY <1>2, <1>5, <1>7, <1>8 DEF FitDir

(* the length modifier, of one letter or two,                              *)
LEMMA LengthWalks == ASSUME Walk, Length PROVE Walk'
  <1> DEFINE d == job.dir
             twice == Head1 \in {"l", "h"} /\ Head(Tail(format)) = Head1
  <1>1. /\ FitCall(job) /\ Within /\ stage \in {"flags", "precision", "length"} /\ text = <<"<">>
        /\ job' = job /\ stage' = "convert" /\ text' = text
        /\ width' = width /\ precision' = precision
        /\ Head1 \in LengthChars
        /\ flags' = flags \union (CASE Head1 = "h" -> IF twice THEN {"h", "hh"} ELSE {"h"}
                                    [] OTHER -> {"l"})
        /\ format' = IF twice THEN Tail(Tail(format)) ELSE Tail(format)
    BY DEF Walk, Within, Around, Length, Silent
  <1>2. FitDir(d)
    BY <1>1 DEF FitCall
  <1>3. AtLength
    <2>1. Head1 \notin FlagChars \union Digits \union {"*", "."}
      BY <1>1, ClassesAreApart
    <2> QED
      BY <1>1, <2>1, ToLength
  <1>4. /\ format = FromLength(d) /\ format # <<>> /\ Head1 = Head(format)
        /\ flags = PrecFlags(job) /\ width = CWidth(job) /\ precision = ReadPrec(job)
    BY <1>2, <1>3, FromLengthIs DEF AtLength, Head1
  <1>5. d.conv \notin LengthChars
    BY <1>2 DEF FitDir, Reserved
  <1>6. d.length # <<>>
    <2> SUFFICES ASSUME d.length = <<>> PROVE FALSE
      OBVIOUS
    <2>1. Head1 = d.conv
      BY <1>2, <1>4, FromLengthIs, FromConvIs
    <2> QED
      BY <1>1, <1>5, <2>1
  <1> DEFINE z == FromConv(d)
  <1>7. z \in Seq(Chars) /\ z # <<>> /\ Head(z) = d.conv
    BY <1>2, FromConvIs
  <1>8. Head1 = Head(d.length) /\ Tail(format) = Tail(d.length) \o z
    BY <1>2, <1>4, <1>6, FromLengthIs
  <1> HIDE DEF z
  <1>9. <<>> \o z = z
    BY <1>7, ConcatEmptySeq
  <1>10. flags' = ReadFlags(job) /\ format' = z
    <2>1. ASSUME NEW ch \in LengthChars, d.length = <<ch>>
          PROVE  Head1 = ch /\ ~twice /\ format' = z
      <3>1. Head(<<ch>>) = ch /\ Tail(<<ch>>) = <<>>
        OBVIOUS
      <3>2. Head1 = ch /\ Tail(format) = z
        BY <1>8, <1>9, <2>1, <3>1
      <3>3. ~twice
        BY <1>5, <1>7, <2>1, <3>2
      <3> QED
        BY <1>1, <3>2, <3>3
    <2>2. ASSUME NEW ch \in {"h", "l"}, d.length = <<ch, ch>>
          PROVE  Head1 = ch /\ twice /\ format' = z
      <3>1. /\ Head(<<ch, ch>>) = ch /\ Tail(<<ch, ch>>) = <<ch>> /\ <<ch>> # <<>>
            /\ Head(<<ch>>) = ch /\ Tail(<<ch>>) = <<>> /\ <<ch>> \in Seq(Chars)
        BY ClassesAreApart DEF LengthChars
      <3>2. Head1 = ch /\ Tail(format) = <<ch>> \o z
        BY <1>8, <2>2, <3>1
      <3>3. Head(<<ch>> \o z) = ch /\ Tail(<<ch>> \o z) = <<>> \o z
        BY <1>7, <3>1, HeadOfBoth
      <3>4. twice /\ Tail(Tail(format)) = z
        BY <1>9, <3>2, <3>3
      <3> QED
        BY <1>1, <3>2, <3>4
    <2> HIDE DEF twice
    <2>3. /\ "h" \in LengthChars /\ "l" \in LengthChars /\ "t" \in LengthChars
          /\ "j" \in LengthChars /\ "z" \in LengthChars
      BY DEF LengthChars
    <2>4. d.length \in {<<"h", "h">>, <<"h">>, <<"l">>, <<"l", "l">>, <<"t">>, <<"j">>, <<"z">>}
      BY <1>2, <1>6 DEF FitDir, Lengths
    <2>5. CASE d.length = <<"h", "h">>
      <3>1. Head1 = "h" /\ twice /\ format' = z
        BY <2>2, <2>5
      <3>2. LengthFlags(d) = {"h", "hh"}
        BY <2>5 DEF LengthFlags
      <3> QED
        BY <1>1, <1>4, <3>1, <3>2 DEF ReadFlags
    <2>6. CASE d.length = <<"h">>
      <3>1. Head1 = "h" /\ ~twice /\ format' = z
        BY <2>1, <2>3, <2>6
      <3>2. LengthFlags(d) = {"h"}
        BY <2>6 DEF LengthFlags
      <3> QED
        BY <1>1, <1>4, <3>1, <3>2 DEF ReadFlags
    <2>7. CASE d.length \in {<<"l">>, <<"l", "l">>, <<"t">>, <<"j">>, <<"z">>}
      <3>1. Head1 # "h" /\ format' = z
        BY <2>1, <2>2, <2>3, <2>7
      <3>2. LengthFlags(d) = {"l"}
        BY <2>7 DEF LengthFlags
      <3> QED
        BY <1>1, <1>4, <3>1, <3>2 DEF ReadFlags
    <2> QED
      BY <2>4, <2>5, <2>6, <2>7
  <1>11. AtConv'
    BY <1>1, <1>4, <1>10 DEF AtConv, IsRead, z
  <1> QED
    BY <1>1, <1>11 DEF Walk, Within

(* the specifier, whose text goes out,                                     *)
LEMMA ConvertWalks ==
    ASSUME Walk, Convert
    PROVE  Walk' /\ Head1 = job.dir.conv /\ Shown \in Seq(Chars) /\ Out(Shown)
  <1>1. /\ FitCall(job) /\ Within /\ text = <<"<">> /\ Head1 \notin Taken
        /\ UNCHANGED <<job, flags, width, precision>>
        /\ stage' = "text" /\ format' = Tail(format) /\ Out(Converted(Head1))
    BY DEF Walk, Within, Around, Convert, directive
  <1>2. AtConv
    BY <1>1, ToConv
  <1>3. FitDir(job.dir) /\ IsRead
    BY <1>1, <1>2 DEF FitCall, AtConv
  <1>4. Head1 = job.dir.conv /\ Tail(format) = <<">">>
    BY <1>2, <1>3, FromConvIs DEF AtConv, Head1
  <1>5. Out(Shown) /\ Shown \in Seq(Chars)
    BY <1>1, <1>3, <1>4, ShownIs DEF Shown
  <1>6. Shown' = Shown /\ IsRead' /\ FitCall(job)'
    BY <1>1, <1>3, SameShown
  <1>7. text' = <<"<">> \o Shown'
    BY <1>1, <1>5, <1>6 DEF Out
  <1> QED
    BY <1>1, <1>4, <1>5, <1>6, <1>7 DEF Walk, Around

(* and the end of the format.                                              *)
LEMMA TerminateWalks == ASSUME Walk, Terminate PROVE Walk' /\ format = <<>>
  <1>1. /\ FitCall(job) /\ Around /\ Head1 = NUL
        /\ UNCHANGED <<job, flags, width, precision, format, stage, text, star>>
    BY DEF Walk, Within, Terminate, directive
  <1>2. Shown' = Shown /\ (IsRead => IsRead') /\ FitCall(job)'
    BY <1>1, SameShown
  <1>3. format = <<>> /\ text = (<<"<">> \o Shown) \o <<">">> /\ IsRead
    BY <1>1, AroundIs, ClassesAreApart DEF Reserved
  <1> QED
    BY <1>1, <1>2, <1>3 DEF Walk, Around

(* The walk begins where it should, with the arguments that the assumed    *)
(* calls have.                                                             *)
LEMMA CallFits ==
    ASSUME NEW f \in Families, NEW j \in Calls(f)
    PROVE  FitCall(j)
  <1>1. /\ j.sink \in f.sink /\ j.maxlen \in f.maxlen /\ j.star \in f.star /\ j.n \in f.n
        /\ j.s \in f.s /\ j.v \in f.v /\ j.dir.flags \in f.flags /\ j.dir.width \in f.width
        /\ j.dir.prec \in f.prec /\ j.dir.length \in f.length /\ j.dir.conv \in f.conv
    BY DEF Calls
  <1> DEFINE d == j.dir
  <1>2. /\ f.sink \subseteq {"buffer", "putchar", "null"} /\ f.maxlen \subseteq Nat
        /\ f.n \subseteq Int /\ f.s \subseteq Seq(STRING)
        /\ f.flags \subseteq Seq(FlagChars) /\ f.length \subseteq Lengths
        /\ f.width \subseteq (Nat \ {0}) \union {Unset, Star}
        /\ f.prec \subseteq Nat \union {Unset, Star}
        /\ f.conv \subseteq STRING \ Reserved
    BY CallsAssumption DEF Reserved
  <1>3. /\ "c" \in f.conv => <<>> \notin f.s
        /\ f.star \subseteq Seq(Int)
        /\ Star \in f.width \union f.prec => <<>> \notin f.star
        /\ Star \in f.width \intersect f.prec => \A args \in f.star : Len(args) >= 2
        /\ f.v \subseteq Doubles
        /\ \A v \in f.v : v.scale < 0 => Exponent(v) >= 9
    BY CallsAssumption DEF Doubles
  <1>4. d.conv \in Chars \ Reserved
    BY <1>1, <1>2 DEF Chars
  <1>5. GoodCall(j)
    <2>1. j.s \in Seq(Chars)
      <3>1. STRING \subseteq Chars
        BY DEF Chars
      <3>2. j.s \in Seq(STRING)
        BY <1>1, <1>2
      <3> QED
        BY <3>1, <3>2, SeqMonotonic
    <2>2. d.conv = "c" => j.s # <<>>
      BY <1>1, <1>3
    <2> QED
      BY <1>1, <1>2, <1>3, <1>4, <2>1, <2>2 DEF GoodCall
  <1>6. FitDir(d)
    BY <1>1, <1>2, <1>4 DEF FitDir
  <1>7. /\ j.star \in Seq(Int)
        /\ d.width = Star \/ d.prec = Star => j.star # <<>>
        /\ d.width = Star /\ d.prec = Star => Len(j.star) >= 2
    BY <1>1, <1>3
  <1> QED
    BY <1>5, <1>6, <1>7 DEF FitCall

(* The walk begins before the first literal.                               *)
LEMMA InitWalks == ASSUME Init PROVE Walk
  <1>1. FitCall(job)
    BY CallFits DEF Init
  <1>2. Around
    BY DEF Init, Around
  <1> QED
    BY <1>1, <1>2 DEF Walk

-------------------------------------------------------------------------------
(***************************************************************************)
(* The invariant.  What is written needs what is read: a conversion puts   *)
(* out characters when width and precision are numbers, which they are when *)
(* a star finds its argument.                                              *)
(***************************************************************************)
(* What of two pieces of text comes before the m-th character. *)
LEMMA PrefixOfBoth ==
    ASSUME NEW S, NEW s \in Seq(S), NEW t \in Seq(S), NEW m \in Nat
    PROVE  SubSeq(s, 1, Smaller(Len(s), m))
                \o SubSeq(t, 1, Smaller(Len(t), Larger(0, m - Len(s))))
              = SubSeq(s \o t, 1, Smaller(Len(s) + Len(t), m))
  <1> DEFINE n == Len(s)
             k == Len(t)
             a == Smaller(n, m)
             b == Smaller(k, Larger(0, m - n))
             c == Smaller(n + k, m)
             left == SubSeq(s, 1, a)
             right == SubSeq(t, 1, b)
             both == s \o t
             all == SubSeq(both, 1, c)
  <1>1. n \in Nat /\ k \in Nat
    BY LenProperties
  <1>2. /\ both \in Seq(S) /\ Len(both) = n + k
        /\ \A i \in 1 .. n + k : both[i] = IF i <= n THEN s[i] ELSE t[i - n]
    BY ConcatProperties
  <1> HIDE DEF n, k, both
  <1>3. /\ a \in Nat /\ a <= n /\ b \in Nat /\ b <= k /\ c \in Nat /\ c <= n + k /\ a + b = c
        /\ b # 0 => a = n
    BY <1>1 DEF Smaller, Larger
  <1> HIDE DEF a, b, c
  <1>4. left \in Seq(S) /\ Len(left) = a /\ \A i \in 1 .. a : left[i] = s[i]
    BY <1>3, PrefixIs DEF n
  <1>5. right \in Seq(S) /\ Len(right) = b /\ \A i \in 1 .. b : right[i] = t[i]
    BY <1>3, PrefixIs DEF k
  <1>6. all \in Seq(S) /\ Len(all) = c /\ \A i \in 1 .. c : all[i] = both[i]
    BY <1>2, <1>3, PrefixIs
  <1> HIDE DEF left, right, all
  <1>7. /\ left \o right \in Seq(S) /\ Len(left \o right) = a + b
        /\ \A i \in 1 .. a + b : (left \o right)[i] = IF i <= a THEN left[i] ELSE right[i - a]
    BY <1>4, <1>5, ConcatProperties
  <1>8. ASSUME NEW i \in 1 .. c PROVE (left \o right)[i] = all[i]
    <2>1. i \in 1 .. a + b /\ i \in 1 .. n + k
      BY <1>1, <1>3
    <2>2. CASE i <= a
      <3>1. i \in 1 .. a /\ i <= n
        BY <1>1, <1>3, <2>2
      <3> QED
        BY <1>2, <1>4, <1>6, <1>7, <2>1, <2>2, <3>1
    <2>3. CASE ~ (i <= a)
      <3>1. i - a \in 1 .. b /\ b # 0
        BY <1>3, <2>1, <2>3
      <3>2. a = n /\ ~ (i <= n)
        BY <1>3, <2>3, <3>1
      <3> QED
        BY <1>2, <1>5, <1>6, <1>7, <2>1, <2>3, <3>1, <3>2
    <2> QED
      BY <2>2, <2>3
  <1> DEFINE w == left \o right
  <1>9. w \in Seq(S) /\ Len(w) = c
    BY <1>3, <1>7
  <1>10. \A i \in 1 .. c : w[i] = all[i]
    BY <1>8
  <1> HIDE DEF w
  <1>11. w = all
    BY <1>6, <1>9, <1>10, SeqEqual
  <1> QED
    BY <1>11 DEF w, left, right, all, a, b, c, n, k, both

(* What has been put out is in the sink, and the call is over when nothing *)
(* is left of the format.                                                  *)
Written ==
    /\ text \in Seq(Chars) /\ buffer \in Seq(Chars) /\ idx = Len(text)
    /\ ret # Unset => format = <<>>
    /\ SinkHoldsText

PrintfInv == Walk /\ Written

(* What is stored are characters. *)
LEMMA StoredIs ==
    ASSUME NEW chars \in Seq(Chars), GoodCall(job), idx \in Nat
    PROVE  Stored(chars) \in Seq(Chars)
  <1>1. CASE job.sink = "buffer"
    <2> DEFINE k == Smaller(Len(chars), Larger(0, job.maxlen - idx))
    <2>1. k \in Nat /\ k <= Len(chars)
      BY LenProperties DEF Smaller, Larger, GoodCall
    <2>2. Stored(chars) = SubSeq(chars, 1, k)
      BY <1>1 DEF Stored
    <2> HIDE DEF k
    <2> QED
      BY <2>1, <2>2, PrefixIs
  <1>2. CASE job.sink = "putchar"
    <2>1. Stored(chars) = Visible(chars)
      BY <1>2 DEF Stored
    <2> QED
      BY <2>1, VisibleOfBoth
  <1>3. CASE job.sink = "null"
    <2>1. Stored(chars) = <<>>
      BY <1>3 DEF Stored
    <2> QED
      BY <2>1, EmptySeq
  <1> QED
    BY <1>1, <1>2, <1>3 DEF GoodCall

(* Every output function keeps its part of the invariant: the position of  *)
(* the next character is the number of characters before it, and the       *)
(* buffer ends where maxlen says.                                          *)
LEMMA OutKeeps ==
    ASSUME PrintfInv, ret = Unset, UNCHANGED job, NEW chars \in Seq(Chars), Out(chars)
    PROVE  Written'
  <1>1. /\ text \in Seq(Chars) /\ buffer \in Seq(Chars) /\ idx = Len(text) /\ idx \in Nat
        /\ GoodCall(job) /\ job' = job /\ ret' = Unset
        /\ idx' = idx + Len(chars) /\ text' = text \o chars /\ buffer' = buffer \o Stored(chars)
    BY LenProperties DEF PrintfInv, Walk, FitCall, Written, Out
  <1>2. text' \in Seq(Chars) /\ idx' = Len(text')
    <2>1. text \o chars \in Seq(Chars) /\ Len(text \o chars) = Len(text) + Len(chars)
      BY <1>1, ConcatProperties
    <2> QED
      BY <1>1, <2>1
  <1>3. buffer' \in Seq(Chars)
    BY <1>1, StoredIs, ConcatProperties
  <1>4. SinkHoldsText'
    <2>1. CASE job.sink = "buffer"
      <3> DEFINE m == job.maxlen
                 old == SubSeq(text, 1, Smaller(idx, m))
                 new == SubSeq(text \o chars, 1, Smaller(idx + Len(chars), m))
      <3>1. m \in Nat
        BY <1>1 DEF GoodCall
      <3>2. old \in Seq(Chars)
        <4>1. Smaller(idx, m) \in Nat /\ Smaller(idx, m) <= Len(text)
          BY <1>1, <3>1 DEF Smaller
        <4> QED
          BY <1>1, <4>1, PrefixIs
      <3>3. buffer = old
        <4>1. buffer = old \o <<>>
          BY <2>1 DEF PrintfInv, Written, SinkHoldsText
        <4> QED
          BY <3>2, <4>1, ConcatEmptySeq
      <3>4. Stored(chars) = SubSeq(chars, 1, Smaller(Len(chars), Larger(0, m - idx)))
        BY <2>1 DEF Stored
      <3>5. old \o Stored(chars) = new
        BY <1>1, <3>1, <3>4, PrefixOfBoth
      <3>6. new \in Seq(Chars)
        BY <1>1, <1>3, <3>3, <3>5
      <3>7. new \o <<>> = new
        BY <3>6, ConcatEmptySeq
      <3>8. buffer' = new \o <<>> /\ new = SubSeq(text', 1, Smaller(idx', job'.maxlen))
        BY <1>1, <3>3, <3>5, <3>7
      <3> HIDE DEF new, old
      <3> QED
        BY <1>1, <2>1, <3>8 DEF SinkHoldsText
    <2>2. CASE job.sink = "putchar"
      <3>1. buffer = Visible(text)
        BY <2>2 DEF PrintfInv, Written, SinkHoldsText
      <3>2. Stored(chars) = Visible(chars)
        BY <2>2 DEF Stored
      <3>3. Visible(text \o chars) = Visible(text) \o Visible(chars)
        BY <1>1, VisibleOfBoth
      <3>4. buffer' = Visible(text')
        BY <1>1, <3>1, <3>2, <3>3
      <3> QED
        BY <1>1, <2>2, <3>4 DEF SinkHoldsText
    <2>3. CASE job.sink = "null"
      <3>1. buffer = <<>>
        BY <2>3 DEF PrintfInv, Written, SinkHoldsText
      <3>2. Stored(chars) = <<>>
        BY <2>3 DEF Stored
      <3>3. buffer' = <<>>
        BY <1>1, <3>1, <3>2, EmptySeq, ConcatEmptySeq
      <3> QED
        BY <1>1, <2>3, <3>3 DEF SinkHoldsText
    <2> QED
      BY <1>1, <2>1, <2>2, <2>3 DEF GoodCall
  <1> QED
    BY <1>1, <1>2, <1>3, <1>4 DEF Written

(* A step of the walk that puts nothing out keeps it too. *)
LEMMA SilentKeeps ==
    ASSUME PrintfInv, ret = Unset, UNCHANGED job, Silent
    PROVE  Written'
  BY DEF PrintfInv, Written, Silent, SinkHoldsText, Visible

(* As long as there is something left of the format, it is not over.       *)
LEMMA NotOver ==
    ASSUME PrintfInv, Head1 # NUL
    PROVE  ret = Unset /\ format # <<>> /\ Head1 \in Chars
  <1>1. format # <<>> /\ Head1 = Head(format)
    BY DEF Head1
  <1>2. format \in Seq(Chars)
    BY FormatIs DEF PrintfInv
  <1> QED
    BY <1>1, <1>2, HeadTailProperties DEF PrintfInv, Written

(* The actions that put nothing out. *)
LEMMA SilentStepKeeps ==
    ASSUME PrintfInv, Percent \/ Flag \/ Width \/ Precision \/ Length
    PROVE  PrintfInv'
  <1>1. Head1 \in {"%", ".", "*"} \union FlagChars \union Digits \union LengthChars
    BY DEF Percent, Flag, Width, Precision, Length
  <1>2. Head1 # NUL
    BY <1>1, ClassesAreApart DEF NUL
  <1>3. ret = Unset
    BY <1>2, NotOver
  <1>4. UNCHANGED job /\ Silent
    BY DEF Percent, Flag, Width, Precision, Length
  <1>5. Written'
    BY <1>3, <1>4, SilentKeeps
  <1>6. Walk'
    BY PercentWalks, FlagWalks, WidthWalks, PrecisionWalks, LengthWalks DEF PrintfInv
  <1> QED
    BY <1>5, <1>6 DEF PrintfInv

(* A literal that is put out.                                              *)
LEMMA LiteralKeeps == ASSUME PrintfInv, Literal PROVE PrintfInv'
  <1>1. ret = Unset /\ <<Head1>> \in Seq(Chars)
    BY NotOver, OneChar DEF Literal
  <1>2. Written'
    BY <1>1, OutKeeps DEF Literal
  <1>3. Walk'
    BY LiteralWalks DEF PrintfInv
  <1> QED
    BY <1>2, <1>3 DEF PrintfInv

(* A conversion whose text is put out.                                     *)
LEMMA ConvertKeeps == ASSUME PrintfInv, Convert PROVE PrintfInv'
  <1>1. Walk' /\ Shown \in Seq(Chars) /\ Out(Shown)
    BY ConvertWalks DEF PrintfInv
  <1>2. ret = Unset /\ UNCHANGED job
    BY NotOver DEF Convert
  <1>3. Written'
    BY <1>1, <1>2, OutKeeps
  <1> QED
    BY <1>1, <1>3 DEF PrintfInv

(* The terminator replaces the last character that fits, and is put behind *)
(* the text otherwise.                                                     *)
LEMMA TerminateKeeps == ASSUME PrintfInv, Terminate PROVE PrintfInv'
  <1>1. format = <<>>
    BY TerminateWalks DEF PrintfInv
  <1>2. /\ text \in Seq(Chars) /\ buffer \in Seq(Chars) /\ idx = Len(text) /\ idx \in Nat
        /\ GoodCall(job) /\ job.maxlen \in Nat /\ ret = Unset /\ ret' = idx /\ ret' # Unset
        /\ job' = job /\ idx' = idx /\ text' = text /\ format' = format
    BY LenProperties DEF PrintfInv, Written, Walk, FitCall, Terminate, GoodCall, Unset
  <1>3. Walk'
    BY TerminateWalks DEF PrintfInv
  <1>4. NUL \in Chars /\ <<NUL>> \in Seq(Chars) /\ Len(<<NUL>>) = 1
    BY KnownAre, OneChar
  <1>5. CASE job.sink = "buffer"
    <2> DEFINE m == job.maxlen
               old == SubSeq(text, 1, Smaller(idx, m))
               kept == Smaller(idx, Larger(0, m - 1))
               new == SubSeq(text, 1, kept)
    <2>1. m \in Nat
      BY <1>2
    <2>2. old \in Seq(Chars) /\ Len(old) = Smaller(idx, m)
             /\ \A i \in 1 .. Smaller(idx, m) : old[i] = text[i]
      <3>1. Smaller(idx, m) \in Nat /\ Smaller(idx, m) <= Len(text)
        BY <1>2, <2>1 DEF Smaller
      <3> QED
        BY <1>2, <3>1, PrefixIs
    <2>3. buffer = old
      <3>1. buffer = old \o <<>>
        BY <1>2, <1>5 DEF PrintfInv, Written, SinkHoldsText
      <3> QED
        BY <2>2, <3>1, ConcatEmptySeq
    <2>4. kept \in Nat /\ kept <= Len(text)
      BY <1>2, <2>1 DEF Smaller, Larger
    <2>5. new \in Seq(Chars) /\ Len(new) = kept /\ \A i \in 1 .. kept : new[i] = text[i]
      BY <1>2, <2>4, PrefixIs
    <2>6. CASE m = 0
      <3>1. kept = 0 /\ Smaller(idx, m) = 0
        BY <1>2, <2>6 DEF Smaller, Larger
      <3>2. buffer = <<>> /\ new = <<>>
        BY <2>2, <2>3, <2>5, <3>1, EmptySeq
      <3>3. Stored(<<NUL>>) = <<>>
        <4>1. Larger(0, m - idx) = 0
          BY <1>2, <2>6 DEF Larger
        <4>2. Smaller(Len(<<NUL>>), 0) = 0
          BY <1>4 DEF Smaller
        <4>3. Stored(<<NUL>>) = SubSeq(<<NUL>>, 1, 0)
          BY <1>5, <4>1, <4>2 DEF Stored
        <4> QED
          BY <4>3, SubSeqEmpty
      <3>4. buffer' = buffer \o Stored(<<NUL>>)
        BY <2>1, <2>6 DEF Terminate
      <3>5. buffer' = new \o <<>>
        BY <3>2, <3>3, <3>4
      <3>6. buffer' \in Seq(Chars)
        BY <2>5, <3>5, EmptySeq, ConcatProperties
      <3> HIDE DEF new
      <3>7. SinkHoldsText'
        <4>1. new = SubSeq(text', 1, Smaller(idx', Larger(0, job'.maxlen - 1)))
          BY <1>2 DEF new
        <4> QED
          BY <1>2, <1>5, <2>6, <3>5, <4>1 DEF SinkHoldsText
      <3> QED
        BY <1>1, <1>2, <1>3, <3>6, <3>7 DEF PrintfInv, Written
    <2>7. CASE m # 0
      <3> DEFINE end == new \o <<NUL>>
      <3>1. end \in Seq(Chars) /\ Len(end) = kept + 1
               /\ \A i \in 1 .. kept + 1 : end[i] = IF i <= kept THEN new[i] ELSE <<NUL>>[i - kept]
        <4> DEFINE one == <<NUL>>
        <4>1. one \in Seq(Chars) /\ Len(one) = 1
          BY <1>4
        <4> HIDE DEF one, new, kept
        <4>2. /\ new \o one \in Seq(Chars) /\ Len(new \o one) = kept + 1
              /\ \A i \in 1 .. kept + 1 :
                    (new \o one)[i] = IF i <= kept THEN new[i] ELSE one[i - kept]
          <5>1. /\ new \o one \in Seq(Chars) /\ Len(new \o one) = Len(new) + Len(one)
                /\ \A i \in 1 .. Len(new) + Len(one) :
                      (new \o one)[i] = IF i <= Len(new) THEN new[i] ELSE one[i - Len(new)]
            BY <2>5, <4>1, ConcatProperties
          <5> QED
            BY <2>5, <4>1, <5>1
        <4> QED
          BY <4>2 DEF one
      <3>2. buffer' = end
        <4>1. CASE idx >= m
          <5>1. kept = m - 1 /\ Smaller(idx, m) = m
            BY <1>2, <2>1, <2>7, <4>1 DEF Smaller, Larger
          <5>2. buffer' = [buffer EXCEPT ![m] = NUL]
            BY <1>5, <2>1, <2>7, <4>1 DEF Terminate
          <5>3. Len(buffer) = m /\ m \in 1 .. Len(buffer)
            BY <2>1, <2>2, <2>3, <2>7, <5>1
          <5>4. /\ buffer' \in Seq(Chars) /\ Len(buffer') = m
                /\ \A i \in 1 .. m : buffer'[i] = IF i = m THEN NUL ELSE buffer[i]
            BY <1>2, <1>4, <5>2, <5>3, ExceptSeq
          <5>5. \A i \in 1 .. m : buffer'[i] = end[i]
            <6> SUFFICES ASSUME NEW i \in 1 .. m PROVE buffer'[i] = end[i]
              OBVIOUS
            <6>1. CASE i = m
              <7>1. i \in 1 .. kept + 1 /\ ~ (i <= kept) /\ i - kept = 1
                BY <2>1, <5>1, <6>1
              <7>2. <<NUL>>[1] = NUL
                OBVIOUS
              <7> QED
                BY <3>1, <5>4, <6>1, <7>1, <7>2
            <6>2. CASE i # m
              <7>1. /\ i \in 1 .. kept + 1 /\ i <= kept
                    /\ i \in 1 .. kept /\ i \in 1 .. Smaller(idx, m)
                BY <2>1, <5>1, <6>2
              <7>2. buffer[i] = text[i] /\ new[i] = text[i]
                BY <2>2, <2>3, <2>5, <7>1
              <7> QED
                BY <3>1, <5>4, <6>2, <7>1, <7>2
            <6> QED
              BY <6>1, <6>2
          <5>6. Len(end) = m
            BY <2>1, <3>1, <5>1
          <5> HIDE DEF end
          <5> QED
            BY <3>1, <5>4, <5>5, <5>6, SeqEqual
        <4>2. CASE ~ (idx >= m)
          <5>1. kept = idx /\ Smaller(idx, m) = idx
            BY <1>2, <2>1, <2>7, <4>2 DEF Smaller, Larger
          <5>2. buffer' = buffer \o Stored(<<NUL>>)
            BY <1>5, <4>2 DEF Terminate
          <5>3. Stored(<<NUL>>) = <<NUL>>
            <6>1. Smaller(Len(<<NUL>>), Larger(0, m - idx)) = 1
              BY <1>2, <1>4, <2>1, <4>2 DEF Smaller, Larger
            <6>2. Stored(<<NUL>>) = SubSeq(<<NUL>>, 1, 1)
              BY <1>5, <6>1 DEF Stored
            <6>3. SubSeq(<<NUL>>, 1, Len(<<NUL>>)) = <<NUL>>
              BY <1>4, SubSeqFull
            <6> QED
              BY <1>4, <6>2, <6>3
          <5>4. old = new
            BY <5>1
          <5> QED
            BY <2>3, <5>2, <5>3, <5>4
        <4> QED
          BY <4>1, <4>2
      <3> HIDE DEF new, end
      <3>3. SinkHoldsText'
        <4>1. new = SubSeq(text', 1, Smaller(idx', Larger(0, job'.maxlen - 1)))
          BY <1>2 DEF new
        <4>2. end = new \o <<NUL>>
          BY DEF end
        <4> QED
          BY <1>2, <1>5, <2>7, <3>2, <4>1, <4>2 DEF SinkHoldsText
      <3>4. buffer' \in Seq(Chars)
        BY <3>1, <3>2
      <3> QED
        BY <1>1, <1>2, <1>3, <3>3, <3>4 DEF PrintfInv, Written
    <2> QED
      BY <2>6, <2>7
  <1>6. CASE job.sink = "putchar"
    <2>1. buffer = Visible(text)
      BY <1>6 DEF PrintfInv, Written, SinkHoldsText
    <2>2. buffer' = buffer \o Visible(<<NUL>>)
      BY <1>6 DEF Terminate, Stored
    <2>3. Visible(<<NUL>>) = <<>>
      <3>1. <<>> \in Seq(Chars) /\ Append(<<>>, NUL) = <<NUL>>
        BY EmptySeq
      <3>2. Visible(Append(<<>>, NUL)) = Visible(<<>>)
        BY <1>4, <3>1, VisibleOne
      <3>3. Visible(<<>>) = <<>>
        BY VisibleOfNone
      <3> QED
        BY <3>1, <3>2, <3>3
    <2>4. buffer' = Visible(text')
      BY <1>2, <2>1, <2>2, <2>3, ConcatEmptySeq
    <2>5. buffer' \in Seq(Chars)
      BY <1>2, <2>4, VisibleOfBoth
    <2>6. SinkHoldsText'
      BY <1>2, <1>6, <2>4 DEF SinkHoldsText
    <2> QED
      BY <1>1, <1>2, <1>3, <2>5, <2>6 DEF PrintfInv, Written
  <1>7. CASE job.sink = "null"
    <2>1. buffer = <<>>
      BY <1>7 DEF PrintfInv, Written, SinkHoldsText
    <2>2. Stored(<<NUL>>) = <<>>
      BY <1>7 DEF Stored
    <2>3. buffer' = <<>>
      BY <1>2, <1>7, <2>1, <2>2, EmptySeq, ConcatEmptySeq DEF Terminate
    <2>4. SinkHoldsText'
      BY <1>2, <1>7, <2>3 DEF SinkHoldsText
    <2>5. buffer' \in Seq(Chars)
      BY <2>3, EmptySeq
    <2> QED
      BY <1>1, <1>2, <1>3, <2>4, <2>5 DEF PrintfInv, Written
  <1> QED
    BY <1>2, <1>5, <1>6, <1>7 DEF GoodCall

(* The invariant holds before the first character. *)
LEMMA InitIsGood == ASSUME Init PROVE PrintfInv
  <1>1. Walk /\ GoodCall(job)
    BY InitWalks DEF Walk, FitCall
  <1>2. /\ idx = 0 /\ text = <<>> /\ buffer = <<>> /\ ret = Unset
    BY DEF Init
  <1>3. SinkHoldsText
    <2>1. CASE job.sink = "buffer"
      <3>1. Smaller(0, job.maxlen) = 0
        BY <1>1 DEF Smaller, GoodCall
      <3>2. SubSeq(<<>>, 1, 0) = <<>> /\ <<>> \o <<>> = <<>>
        BY EmptySeq, SubSeqEmpty, ConcatEmptySeq
      <3> QED
        BY <1>2, <2>1, <3>1, <3>2 DEF SinkHoldsText
    <2>2. CASE job.sink = "putchar"
      BY <1>2, <2>2, VisibleOfNone DEF SinkHoldsText
    <2>3. CASE job.sink = "null"
      BY <1>2, <2>3 DEF SinkHoldsText
    <2> QED
      BY <1>1, <2>1, <2>2, <2>3 DEF GoodCall
  <1> QED
    BY <1>1, <1>2, <1>3, EmptySeq DEF PrintfInv, Written

(* Every state of a call: the walk takes a directive apart as the C        *)
(* standard does, with the arguments of its stars (_vsnprintf and _atoi),  *)
(* and the sink holds what was put out.                                    *)
THEOREM PrintfInvHolds == Spec => []PrintfInv
  <1>1. Init => PrintfInv
    BY InitIsGood
  <1>2. PrintfInv /\ [Next]_vars => PrintfInv'
    <2>1. ASSUME PrintfInv, UNCHANGED vars PROVE PrintfInv'
      <3>1. /\ UNCHANGED <<job, flags, width, precision, format, stage, star, text>>
            /\ UNCHANGED <<idx, buffer, ret>>
        BY <2>1 DEF vars
      <3>2. Shown' = Shown /\ (IsRead => IsRead') /\ FitCall(job)'
        BY <2>1, <3>1, SameShown DEF PrintfInv, Walk
      <3>3. Walk'
        <4>1. Around => Around'
          BY <3>1, <3>2 DEF Around
        <4>2. AtPrec' = AtPrec /\ AtLength' = AtLength /\ AtConv' = AtConv /\ InFlags' = InFlags
          <5>1. /\ StarsLeft(job)' = StarsLeft(job) /\ PrecFlags(job)' = PrecFlags(job)
                /\ ReadFlags(job)' = ReadFlags(job) /\ ReadPrec(job)' = ReadPrec(job)
                /\ CFlags(job)' = CFlags(job) /\ CWidth(job)' = CWidth(job)
            BY <3>1
          <5> QED
            BY <3>1, <5>1 DEF InFlags, AtPrec, AtLength, AtConv, IsRead
        <4>3. Within => Within'
          BY <3>1, <4>2 DEF Within
        <4> QED
          BY <2>1, <3>2, <4>1, <4>3 DEF PrintfInv, Walk
      <3>4. Written'
        BY <2>1, <3>1 DEF PrintfInv, Written, SinkHoldsText
      <3> QED
        BY <3>3, <3>4 DEF PrintfInv
    <2> QED
      BY <2>1, SilentStepKeeps, LiteralKeeps, ConvertKeeps, TerminateKeeps DEF Next
  <1> QED
    BY <1>1, <1>2, PTL DEF Spec

(* snprintf writes its buffer up to maxlen and terminates it there,        *)
(* whatever the directive: at any time it holds the first maxlen           *)
(* characters of the text, at the end a terminated prefix of it, and       *)
(* _putchar has been given every character but NUL (_vsnprintf and the     *)
(* output functions of printf.c).                                          *)
THEOREM SinkIsExact == Spec => []SinkHoldsText
  <1>1. PrintfInv => SinkHoldsText
    BY DEF PrintfInv, Written
  <1> QED
    BY <1>1, PrintfInvHolds, PTL

-------------------------------------------------------------------------------
(***************************************************************************)
(* What comes out.                                                         *)
(***************************************************************************)
(* At the end the text is what the conversion makes of the directive as    *)
(* the C standard reads it, between the two literals.                      *)
LEMMA InnerIs ==
    ASSUME PrintfInv, ret # Unset
    PROVE  FitCall(job) /\ IsRead /\ Shown \in Seq(Chars) /\ Inner = Shown
  <1>1. format = <<>>
    BY DEF PrintfInv, Written
  <1>2. FitCall(job) /\ text = (<<"<">> \o Shown) \o <<">">> /\ IsRead
    <2>1. FitCall(job)
      BY DEF PrintfInv, Walk
    <2>2. ~ Within
      <3> SUFFICES ASSUME Within PROVE FALSE
        OBVIOUS
      <3>1. FitDir(job.dir)
        BY <2>1 DEF FitCall
      <3> QED
        BY <1>1, <2>1, <3>1, FlagsEnd, FromPrecIs, FromLengthIs, FromConvIs
           DEF Within, AtPrec, AtLength, AtConv
    <2>3. Around
      BY <2>2 DEF PrintfInv, Walk
    <2>4. Head1 = NUL
      BY <1>1 DEF Head1
    <2> QED
      BY <2>1, <2>3, <2>4, AroundIs, ClassesAreApart DEF Reserved
  <1>3. Shown \in Seq(Chars)
    BY <1>2, ShownIs
  <1> DEFINE w == Shown
             n == Len(w)
             open == <<"<">>
             close == <<">">>
             front == open \o w
  <1>4. /\ open \in Seq(Chars) /\ Len(open) = 1 /\ close \in Seq(Chars) /\ Len(close) = 1
    BY ClassesAreApart
  <1>5. w \in Seq(Chars) /\ n \in Nat
    BY <1>3, LenProperties
  <1>6. text = front \o close
    BY <1>2
  <1> HIDE DEF w, open, close
  <1>7. /\ front \in Seq(Chars) /\ Len(front) = 1 + n
        /\ \A i \in 1 .. 1 + n : front[i] = IF i <= 1 THEN open[i] ELSE w[i - 1]
    <2>1. /\ front \in Seq(Chars) /\ Len(front) = Len(open) + n
          /\ \A i \in 1 .. Len(open) + n :
                front[i] = IF i <= Len(open) THEN open[i] ELSE w[i - Len(open)]
      BY <1>4, <1>5, ConcatProperties
    <2> HIDE DEF front, n
    <2> QED
      BY <1>4, <2>1
  <1> HIDE DEF front, n
  <1>8. /\ text \in Seq(Chars) /\ Len(text) = (1 + n) + 1
        /\ \A i \in 1 .. (1 + n) + 1 : text[i] = IF i <= 1 + n THEN front[i] ELSE close[i - (1 + n)]
    BY <1>4, <1>6, <1>7, ConcatProperties
  <1>9. Len(text) - 1 = n + 1 /\ n + 1 <= Len(text) /\ n + 1 \in Nat
    BY <1>5, <1>8
  <1>10. /\ Inner \in Seq(Chars) /\ Len(Inner) = n
         /\ \A i \in 1 .. n : Inner[i] = text[i + 1]
    <2>1. Inner = SubSeq(text, 2, n + 1)
      BY <1>9 DEF Inner
    <2>2. \A i \in 2 .. n + 1 : text[i] \in Chars
      <3>1. \A i \in 2 .. n + 1 : i \in 1 .. Len(text)
        BY <1>5, <1>8
      <3> QED
        BY <1>8, <3>1, ElementOfSeq
    <2>3. /\ SubSeq(text, 2, n + 1) \in Seq(Chars)
          /\ Len(SubSeq(text, 2, n + 1)) = IF 2 <= n + 1 THEN (n + 1) - 2 + 1 ELSE 0
          /\ \A i \in 1 .. (n + 1) - 2 + 1 : SubSeq(text, 2, n + 1)[i] = text[2 + i - 1]
      <3>1. 2 \in Int /\ n + 1 \in Int
        BY <1>5
      <3> QED
        BY <2>2, <3>1, SubSeqProperties
    <2>4. (n + 1) - 2 + 1 = n /\ (IF 2 <= n + 1 THEN n ELSE 0) = n
      BY <1>5
    <2>5. \A i \in 1 .. n : 2 + i - 1 = i + 1
      BY <1>5
    <2> QED
      BY <2>1, <2>3, <2>4, <2>5
  <1>11. ASSUME NEW i \in 1 .. n PROVE Inner[i] = w[i]
    <2>1. /\ i + 1 \in 1 .. 1 + n /\ i + 1 \in 1 .. (1 + n) + 1 /\ i + 1 <= 1 + n
          /\ ~ (i + 1 <= 1) /\ (i + 1) - 1 = i
      BY <1>5
    <2> QED
      BY <1>7, <1>8, <1>10, <2>1
  <1>12. Inner = w
    BY <1>5, <1>10, <1>11, SeqEqual DEF n
  <1> QED
    BY <1>2, <1>3, <1>12 DEF w

(* A text in a field, as the loops of printf.c and as the C standard put   *)
(* it there.                                                               *)
LEMMA FieldIsJustified ==
    ASSUME NEW j, FitCall(j), NEW s \in Seq(Chars), NEW fl, "-" \in fl <=> "-" \in CFlags(j)
    PROVE  Field(s, CWidth(j), fl) = CJustified(j, <<>>, s, FALSE)
  <1> DEFINE blanks == Times(" ", Larger(0, CWidth(j) - Len(s)))
  <1>1. CWidth(j) \in Nat /\ Len(s) \in Nat
    BY StarsAre, LenProperties
  <1>2. blanks \in Seq(Chars)
    <2>1. Larger(0, CWidth(j) - Len(s)) \in Nat
      BY <1>1 DEF Larger
    <2> QED
      BY <2>1, TimesIs, KnownAre
  <1>3. (CWidth(j) - Len(<<>>)) - Len(s) = CWidth(j) - Len(s)
    BY <1>1
  <1> HIDE DEF blanks
  <1>4. CASE "-" \in fl
    <2>1. Field(s, CWidth(j), fl) = s \o blanks
      BY <1>4 DEF Field, blanks
    <2>2. CJustified(j, <<>>, s, FALSE) = (<<>> \o s) \o blanks
      BY <1>3, <1>4 DEF CJustified, blanks
    <2> QED
      BY <2>1, <2>2, ConcatEmptySeq
  <1>5. CASE "-" \notin fl
    <2>1. Field(s, CWidth(j), fl) = blanks \o s
      BY <1>5 DEF Field, blanks
    <2>2. CJustified(j, <<>>, s, FALSE) = (blanks \o <<>>) \o s
      BY <1>3, <1>5 DEF CJustified, blanks
    <2> QED
      BY <1>2, <2>1, <2>2, ConcatEmptySeq
  <1> QED
    BY <1>4, <1>5

(* A character, a string and a percent sign come out as the C standard     *)
(* says, whatever flags, width, precision and length the directive has and *)
(* whatever arguments its stars take: _vsnprintf reads a directive as the  *)
(* standard does, and makes of it the text that the standard asks for (the *)
(* cases c, s and % of printf.c).                                          *)
THEOREM TextsAreRight == Spec => []TextsMatchC
  <1>1. ASSUME PrintfInv, ret # Unset, job.dir.conv \in {"c", "s", "%"},
               ~ (job.dir.conv = "s" /\ NegativePrecision(job))
        PROVE  Inner = CText(job)
    <2>1. FitCall(job) /\ IsRead /\ Inner = Shown
      BY <1>1, InnerIs
    <2>2. job.s \in Seq(Chars) /\ (job.dir.conv = "c" => job.s # <<>>) /\ Len(job.s) \in Nat
      BY <2>1, LenProperties DEF FitCall, GoodCall
    <2>3. width = CWidth(job) /\ precision = ReadPrec(job) /\ flags = ReadFlags(job)
      BY <2>1 DEF IsRead
    <2>4. "-" \in flags <=> "-" \in CFlags(job)
      BY <2>3 DEF ReadFlags, PrecFlags, LengthFlags
    <2>5. CASE job.dir.conv = "c"
      <3>1. SubSeq(job.s, 1, 1) \in Seq(Chars)
        <4>1. 1 \in Nat /\ 1 <= Len(job.s)
          BY <2>2, <2>5, EmptySeq
        <4> QED
          BY <2>2, <4>1, PrefixIs
      <3>2. Shown = Field(SubSeq(job.s, 1, 1), width, flags)
        BY <2>5 DEF Shown, Converted
      <3>3. CText(job) = CJustified(job, <<>>, SubSeq(job.s, 1, 1), FALSE)
        BY <2>5 DEF CText
      <3> QED
        BY <2>1, <2>3, <2>4, <3>1, <3>2, <3>3, FieldIsJustified
    <2>6. CASE job.dir.conv = "s"
      <3> DEFINE s == IF CPrec(job) = Unset THEN job.s
                      ELSE SubSeq(job.s, 1, Smaller(CPrec(job), Len(job.s)))
      <3>1. CText(job) = CJustified(job, <<>>, s, FALSE)
        BY <2>6 DEF CText
      <3>2. Shown = StringText(job.s, precision, width, flags)
        BY <2>6 DEF Shown, Converted
      <3>3. "precision" \in flags <=> CPrec(job) # Unset
        <4>1. "precision" \notin CFlags(job) \union LengthFlags(job.dir)
          <5>1. \A i \in DOMAIN job.dir.flags : job.dir.flags[i] \in FlagChars
            BY <2>1, ElementOfSeq, LenProperties DEF FitCall, FitDir
          <5>2. "precision" \notin FlagChars \union {"-"}
            BY DEF FlagChars
          <5> QED
            BY <5>1, <5>2 DEF CFlags, LengthFlags
        <4>2. "precision" \in flags <=> job.dir.prec # Unset
          BY <2>3, <4>1 DEF ReadFlags, PrecFlags
        <4>3. job.dir.prec = Star => CPrec(job) # Unset
          BY <1>1, <2>6 DEF NegativePrecision
        <4>4. job.dir.prec # Star => CPrec(job) = job.dir.prec
          BY DEF CPrec
        <4>5. Unset # Star
          BY DEF Unset, Star
        <4> QED
          BY <4>2, <4>3, <4>4, <4>5
      <3>4. CPrec(job) # Unset => precision = CPrec(job) /\ CPrec(job) \in Nat
        <4>1. CPrec(job) \in Nat \union {Unset}
          BY <2>1, StarsAre
        <4> QED
          BY <2>3, <4>1 DEF ReadPrec, Larger
      <3>5. Shown = Field(s, width, flags)
        BY <3>2, <3>3, <3>4 DEF StringText
      <3>6. s \in Seq(Chars)
        <4>1. CPrec(job) # Unset => /\ Smaller(CPrec(job), Len(job.s)) \in Nat
                                    /\ Smaller(CPrec(job), Len(job.s)) <= Len(job.s)
          BY <2>2, <3>4 DEF Smaller
        <4> QED
          BY <2>2, <4>1, PrefixIs
      <3> HIDE DEF s
      <3> QED
        BY <2>1, <2>3, <2>4, <3>1, <3>5, <3>6, FieldIsJustified
    <2>7. CASE job.dir.conv = "%"
      BY <2>1, <2>7 DEF Shown, Converted, CText
    <2> QED
      BY <1>1, <2>5, <2>6, <2>7
  <1>2. PrintfInv => TextsMatchC
    BY <1>1 DEF TextsMatchC
  <1> QED
    BY <1>2, PrintfInvHolds, PTL

-------------------------------------------------------------------------------
(***************************************************************************)
(* Infinities and NaN.  The texts of both sides are a sign, three letters  *)
(* and blanks; which characters they have, how they begin and how long     *)
(* they are tells them apart.                                              *)
(***************************************************************************)
(* Texts of three and one characters put together. *)
LEMMA FourOfBoth ==
    /\ \A a, b, c, d \in Chars : <<a, b, c>> \o <<d>> = <<a, b, c, d>>
    /\ \A a, b, c, d \in Chars : <<a>> \o <<b, c, d>> = <<a, b, c, d>>
  <1>1. \A a, b, c, d \in Chars : <<a, b, c>> \o <<d>> = <<a, b, c, d>>
    <2> TAKE a, b, c, d \in Chars
    <2> DEFINE s == <<a, b, c>>
               t == <<d>>
               four == <<a, b, c, d>>
    <2>1. /\ s \in Seq(Chars) /\ Len(s) = 3 /\ s[1] = a /\ s[2] = b /\ s[3] = c
          /\ t \in Seq(Chars) /\ Len(t) = 1 /\ t[1] = d
      OBVIOUS
    <2>2. /\ four \in Seq(Chars) /\ Len(four) = 4
          /\ four[1] = a /\ four[2] = b /\ four[3] = c /\ four[4] = d
      OBVIOUS
    <2> HIDE DEF s, t, four
    <2>3. /\ s \o t \in Seq(Chars) /\ Len(s \o t) = Len(s) + Len(t)
          /\ \A i \in 1 .. Len(s) + Len(t) :
                (s \o t)[i] = IF i <= Len(s) THEN s[i] ELSE t[i - Len(s)]
      BY <2>1, ConcatProperties
    <2>4. /\ Len(s \o t) = 4
          /\ \A i \in 1 .. 4 : (s \o t)[i] = IF i <= 3 THEN s[i] ELSE t[i - 3]
      BY <2>1, <2>3
    <2>5. \A i \in 1 .. 4 : (s \o t)[i] = four[i]
      <3>1. (s \o t)[1] = a /\ (s \o t)[2] = b /\ (s \o t)[3] = c /\ (s \o t)[4] = d
        BY <2>1, <2>4
      <3>2. \A i \in 1 .. 4 : i = 1 \/ i = 2 \/ i = 3 \/ i = 4
        OBVIOUS
      <3> QED
        BY <2>2, <3>1, <3>2
    <2>6. s \o t = four
      BY <2>2, <2>3, <2>4, <2>5, SeqEqual
    <2> QED
      BY <2>6 DEF s, t, four
  <1>2. \A a, b, c, d \in Chars : <<a>> \o <<b, c, d>> = <<a, b, c, d>>
    <2> TAKE a, b, c, d \in Chars
    <2> DEFINE s == <<a>>
               t == <<b, c, d>>
               four == <<a, b, c, d>>
    <2>1. /\ s \in Seq(Chars) /\ Len(s) = 1 /\ s[1] = a
          /\ t \in Seq(Chars) /\ Len(t) = 3 /\ t[1] = b /\ t[2] = c /\ t[3] = d
      OBVIOUS
    <2>2. /\ four \in Seq(Chars) /\ Len(four) = 4
          /\ four[1] = a /\ four[2] = b /\ four[3] = c /\ four[4] = d
      OBVIOUS
    <2> HIDE DEF s, t, four
    <2>3. /\ s \o t \in Seq(Chars) /\ Len(s \o t) = Len(s) + Len(t)
          /\ \A i \in 1 .. Len(s) + Len(t) :
                (s \o t)[i] = IF i <= Len(s) THEN s[i] ELSE t[i - Len(s)]
      BY <2>1, ConcatProperties
    <2>4. /\ Len(s \o t) = 4
          /\ \A i \in 1 .. 4 : (s \o t)[i] = IF i <= 1 THEN s[i] ELSE t[i - 1]
      BY <2>1, <2>3
    <2>5. \A i \in 1 .. 4 : (s \o t)[i] = four[i]
      <3>1. (s \o t)[1] = a /\ (s \o t)[2] = b /\ (s \o t)[3] = c /\ (s \o t)[4] = d
        BY <2>1, <2>4
      <3>2. \A i \in 1 .. 4 : i = 1 \/ i = 2 \/ i = 3 \/ i = 4
        OBVIOUS
      <3> QED
        BY <2>2, <3>1, <3>2
    <2>6. s \o t = four
      BY <2>2, <2>3, <2>4, <2>5, SeqEqual
    <2> QED
      BY <2>6 DEF s, t, four
  <1> QED
    BY <1>1, <1>2

(* That a text has a character. *)
Has(s, ch) == \E i \in 1 .. Len(s) : s[i] = ch

(* What texts of one and of three characters have. *)
LEMMA OneOf ==
    ASSUME NEW S, NEW a \in S
    PROVE  /\ <<a>> \in Seq(S) /\ Len(<<a>>) = 1 /\ <<a>> # <<>> /\ Head(<<a>>) = a
           /\ \A ch : Has(<<a>>, ch) <=> ch = a
  <1> DEFINE u == <<a>>
  <1>1. u \in Seq(S) /\ Len(u) = 1 /\ u[1] = a /\ u # <<>> /\ Head(u) = a
    OBVIOUS
  <1> HIDE DEF u
  <1>2. \A i : i \in 1 .. 1 <=> i = 1
    OBVIOUS
  <1>3. \A ch : Has(u, ch) <=> ch = a
    BY <1>1, <1>2 DEF Has
  <1> QED
    BY <1>1, <1>3 DEF u

LEMMA ThreeOf ==
    ASSUME NEW S, NEW a \in S, NEW b \in S, NEW c \in S
    PROVE  /\ <<a, b, c>> \in Seq(S) /\ Len(<<a, b, c>>) = 3 /\ <<a, b, c>> # <<>>
           /\ Head(<<a, b, c>>) = a
           /\ \A ch : Has(<<a, b, c>>, ch) <=> ch = a \/ ch = b \/ ch = c
  <1> DEFINE u == <<a, b, c>>
  <1>1. u \in Seq(S) /\ Len(u) = 3 /\ u[1] = a /\ u[2] = b /\ u[3] = c /\ u # <<>> /\ Head(u) = a
    OBVIOUS
  <1> HIDE DEF u
  <1>2. \A i : i \in 1 .. 3 <=> i = 1 \/ i = 2 \/ i = 3
    OBVIOUS
  <1>3. \A ch : Has(u, ch) <=> ch = a \/ ch = b \/ ch = c
    BY <1>1, <1>2 DEF Has
  <1> QED
    BY <1>1, <1>3 DEF u
(* Which characters two pieces of text have. *)
LEMMA HasOfBoth ==
    ASSUME NEW S, NEW s \in Seq(S), NEW t \in Seq(S), NEW ch
    PROVE  Has(s \o t, ch) <=> Has(s, ch) \/ Has(t, ch)
  <1> DEFINE r == s \o t
  <1>1. /\ Len(r) = Len(s) + Len(t) /\ Len(s) \in Nat /\ Len(t) \in Nat
        /\ \A i \in 1 .. Len(s) + Len(t) : r[i] = IF i <= Len(s) THEN s[i] ELSE t[i - Len(s)]
    BY ConcatProperties, LenProperties
  <1> HIDE DEF r
  <1>2. Has(s, ch) => Has(r, ch)
    <2>1. \A i \in 1 .. Len(s) : i \in 1 .. Len(r) /\ r[i] = s[i]
      BY <1>1
    <2> QED
      BY <2>1 DEF Has
  <1>3. Has(t, ch) => Has(r, ch)
    <2>1. \A i \in 1 .. Len(t) : Len(s) + i \in 1 .. Len(r) /\ r[Len(s) + i] = t[i]
      <3> TAKE i \in 1 .. Len(t)
      <3>1. /\ Len(s) + i \in 1 .. Len(s) + Len(t) /\ ~ (Len(s) + i <= Len(s))
            /\ (Len(s) + i) - Len(s) = i
        BY <1>1
      <3> QED
        BY <1>1, <3>1
    <2> QED
      BY <2>1 DEF Has
  <1>4. Has(r, ch) => Has(s, ch) \/ Has(t, ch)
    <2>1. \A i \in 1 .. Len(r) : \/ i \in 1 .. Len(s) /\ r[i] = s[i]
                                 \/ i - Len(s) \in 1 .. Len(t) /\ r[i] = t[i - Len(s)]
      BY <1>1
    <2> QED
      BY <2>1 DEF Has
  <1> QED
    BY <1>2, <1>3, <1>4 DEF r


(* The blanks that fill a field. *)
Blanks(n) == Times(" ", Larger(0, n))

LEMMA BlanksAre ==
    ASSUME NEW n \in Int
    PROVE  /\ Blanks(n) \in Seq(Chars) /\ Len(Blanks(n)) = Larger(0, n)
           /\ n <= 0 => Blanks(n) = <<>>
           /\ n > 0 => Blanks(n) # <<>> /\ Head(Blanks(n)) = " "
           /\ \A ch : ch # " " => ~Has(Blanks(n), ch)
  <1> DEFINE k == Larger(0, n)
             b == Blanks(n)
  <1>1. k \in Nat /\ (n <= 0 => k = 0) /\ (n > 0 => k = n)
    BY DEF Larger
  <1>2. /\ b \in Seq(Chars) /\ Len(b) = k
        /\ \A i \in 1 .. k : b[i] = " "
    <2>1. b = Times(" ", k)
      BY DEF Blanks
    <2> HIDE DEF b, k
    <2>2. Times(" ", k) \in Seq(Chars) /\ Len(Times(" ", k)) = k
      BY <1>1, TimesIs, KnownAre
    <2>3. \A i \in 1 .. k : Times(" ", k)[i] = " "
      BY DEF Times
    <2> QED
      BY <2>1, <2>2, <2>3
  <1> HIDE DEF k, b
  <1>3. n <= 0 => b = <<>>
    BY <1>1, <1>2, EmptySeq
  <1>4. n > 0 => b # <<>> /\ Head(b) = " "
    <2> SUFFICES ASSUME n > 0 PROVE b # <<>> /\ Head(b) = " "
      OBVIOUS
    <2>1. k >= 1 /\ k \in Nat
      BY <1>1
    <2>2. 1 \in 1 .. k
      BY <2>1
    <2>3. b[1] = " "
      BY <1>2, <2>2
    <2>4. b \in Seq(Chars) /\ Len(b) = k
      BY <1>2
    <2>5. Len(b) # 0
      BY <2>1, <2>4
    <2>6. b # <<>>
      BY <2>5, EmptySeq
    <2>7. Head(b) = b[1]
      BY <2>4, <2>6, HeadTailProperties
    <2> QED
      BY <2>3, <2>6, <2>7
  <1>5. \A ch : ch # " " => ~Has(b, ch)
    BY <1>2 DEF Has
  <1> QED
    BY <1>2, <1>3, <1>4, <1>5 DEF k, b

(* A text with blanks before it or behind it. *)
Placed(left, n, t) == IF left THEN t \o Blanks(n) ELSE Blanks(n) \o t

LEMMA PlacedIs ==
    ASSUME NEW left \in BOOLEAN, NEW n \in Int, NEW t \in Seq(Chars), t # <<>>
    PROVE  LET p == Placed(left, n, t)
           IN  /\ p \in Seq(Chars) /\ p # <<>> /\ Len(p) = Len(t) + Larger(0, n)
               /\ n <= 0 => p = t
               /\ left \/ n <= 0 => Head(p) = Head(t)
               /\ ~left /\ n > 0 => Head(p) = " "
               /\ \A ch : ch # " " => (Has(p, ch) <=> Has(t, ch))
  <1> DEFINE b == Blanks(n)
             k == Larger(0, n)
             p == Placed(left, n, t)
  <1>1. /\ b \in Seq(Chars) /\ Len(b) = k
        /\ n <= 0 => b = <<>>
        /\ n > 0 => b # <<>> /\ Head(b) = " "
        /\ \A ch : ch # " " => ~Has(b, ch)
    BY BlanksAre
  <1>2. b \in Seq(Chars)
    BY BlanksAre
  <1>3. Len(b) = k
    BY BlanksAre
  <1>4. n <= 0 => b = <<>>
    BY BlanksAre
  <1>5. n > 0 => b # <<>> /\ Head(b) = " "
    BY BlanksAre
  <1>6. k \in Nat /\ Len(t) \in Nat
    BY LenProperties DEF Larger
  <1>7. p = IF left THEN t \o b ELSE b \o t
    BY DEF Placed
  <1> HIDE DEF b, k, p
  <1>8. CASE left
    <2>1. p = t \o b
      BY <1>7, <1>8
    <2>2. t \o b \in Seq(Chars) /\ t \o b # <<>> /\ Head(t \o b) = Head(t)
      BY <1>2, HeadOfBoth
    <2>3. Len(p) = Len(t) + k
      <3>1. Len(t \o b) = Len(t) + Len(b)
        BY <1>1, ConcatProperties
      <3> QED
        BY <1>1, <2>1, <3>1
    <2>4. n <= 0 => p = t
      BY <1>1, <2>1, ConcatEmptySeq
    <2>5. \A ch : Has(p, ch) <=> Has(t, ch) \/ Has(b, ch)
      BY <1>1, <2>1, HasOfBoth
    <2> QED
      BY <1>1, <1>8, <2>1, <2>2, <2>3, <2>4, <2>5 DEF p, k
  <1>9. CASE ~left
    <2>1. p = b \o t
      BY <1>7, <1>9
    <2>2. p \in Seq(Chars) /\ Len(p) = Len(t) + k
      <3>1. b \o t \in Seq(Chars) /\ Len(b \o t) = Len(b) + Len(t)
        BY <1>1, ConcatProperties
      <3>2. Len(b) = k /\ Len(b) + Len(t) = Len(t) + k
        BY <1>6, <1>3
      <3> QED
        BY <2>1, <3>1, <3>2
    <2>3. n <= 0 => p = t
      BY <1>1, <2>1, ConcatEmptySeq
    <2>4. n > 0 => p # <<>> /\ Head(p) = " "
      BY <1>1, <2>1, HeadOfBoth
    <2>5. n <= 0 => p # <<>> /\ Head(p) = Head(t)
      BY <2>3
    <2>6. \A ch : Has(p, ch) <=> Has(b, ch) \/ Has(t, ch)
      BY <1>1, <2>1, HasOfBoth
    <2>7. p # <<>>
      <3>1. n > 0 => p # <<>>
        BY <2>4
      <3>2. n <= 0 => p # <<>>
        BY <2>5
      <3> QED
        BY <3>1, <3>2
    <2>8. \A ch : ch # " " => (Has(p, ch) <=> Has(t, ch))
      BY <1>1, <2>6
    <2> QED
      BY <1>9, <2>2, <2>3, <2>4, <2>5, <2>7, <2>8 DEF p, k
  <1> QED
    BY <1>8, <1>9

(* The letters of a number that is none, and the sign that the code puts   *)
(* before them.                                                            *)
Letters(v) == IF v.kind = "nan" THEN <<"n", "a", "n">> ELSE <<"i", "n", "f">>
Capitals(v) == IF v.kind = "nan" THEN <<"N", "A", "N">> ELSE <<"I", "N", "F">>
ShownSign(v, fl) == IF v.kind = "nan" THEN <<>>
                    ELSE IF v.neg THEN <<"-">> ELSE IF "+" \in fl THEN <<"+">> ELSE <<>>
ShownText(v, fl) == ShownSign(v, fl) \o Letters(v)

LEMMA LettersAre ==
    ASSUME NEW v
    PROVE  /\ Letters(v) \in Seq(Chars) /\ Len(Letters(v)) = 3
           /\ Head(Letters(v)) # " " /\ Letters(v) # <<>>
           /\ ~Has(Letters(v), "-") /\ ~Has(Letters(v), "+") /\ ~Has(Letters(v), "N")
           /\ Capitals(v) \in Seq(Chars) /\ Len(Capitals(v)) = 3 /\ Capitals(v) # <<>>
           /\ Has(Capitals(v), "N")
  <1>1. /\ "n" \in Chars /\ "a" \in Chars /\ "i" \in Chars /\ "f" \in Chars
        /\ "N" \in Chars /\ "A" \in Chars /\ "I" \in Chars /\ "F" \in Chars
    BY KnownAre
  <1> DEFINE l == Letters(v)
             c == Capitals(v)
  <1>2. CASE v.kind = "nan"
    <2>1. l = <<"n", "a", "n">> /\ c = <<"N", "A", "N">>
      BY <1>2 DEF Letters, Capitals
    <2> HIDE DEF l, c
    <2>2. l \in Seq(Chars) /\ Len(l) = 3 /\ l # <<>> /\ Head(l) = "n"
      BY <1>1, <2>1, ThreeOf
    <2>3. \A ch : Has(l, ch) <=> ch = "n" \/ ch = "a" \/ ch = "n"
      BY <1>1, <2>1, ThreeOf
    <2>4. c \in Seq(Chars) /\ Len(c) = 3 /\ c # <<>>
      BY <1>1, <2>1, ThreeOf
    <2>5. \A ch : Has(c, ch) <=> ch = "N" \/ ch = "A" \/ ch = "N"
      BY <1>1, <2>1, ThreeOf
    <2> QED
      BY <2>2, <2>3, <2>4, <2>5 DEF l, c
  <1>3. CASE v.kind # "nan"
    <2>1. l = <<"i", "n", "f">> /\ c = <<"I", "N", "F">>
      BY <1>3 DEF Letters, Capitals
    <2> HIDE DEF l, c
    <2>2. l \in Seq(Chars) /\ Len(l) = 3 /\ l # <<>> /\ Head(l) = "i"
      BY <1>1, <2>1, ThreeOf
    <2>3. \A ch : Has(l, ch) <=> ch = "i" \/ ch = "n" \/ ch = "f"
      BY <1>1, <2>1, ThreeOf
    <2>4. c \in Seq(Chars) /\ Len(c) = 3 /\ c # <<>>
      BY <1>1, <2>1, ThreeOf
    <2>5. \A ch : Has(c, ch) <=> ch = "I" \/ ch = "N" \/ ch = "F"
      BY <1>1, <2>1, ThreeOf
    <2> QED
      BY <2>2, <2>3, <2>4, <2>5 DEF l, c
  <1> QED
    BY <1>2, <1>3

(* The letters and the sign come out of _out_rev in the order they are     *)
(* read.                                                                   *)
LEMMA ShownSpecial ==
    ASSUME NEW v, v.kind \in {"inf", "nan"}, NEW w \in Nat, NEW fl
    PROVE  SpecialText(v, w, fl) =
              IF ~("-" \in fl) /\ "0" \in fl THEN ShownText(v, fl)
              ELSE Placed("-" \in fl, w - Len(ShownText(v, fl)), ShownText(v, fl))
  <1> DEFINE t == ShownText(v, fl)
             b == IF v.kind = "nan" THEN <<"n", "a", "n">>
                  ELSE <<"f", "n", "i">> \o (IF v.neg THEN <<"-">>
                                             ELSE IF "+" \in fl THEN <<"+">> ELSE <<>>)
  <1>1. /\ "n" \in Chars /\ "a" \in Chars /\ "i" \in Chars /\ "f" \in Chars
        /\ "-" \in Chars /\ "+" \in Chars
    BY KnownAre
  <1>2. Reverse(b) = t /\ Len(b) = Len(t)
    <2>1. CASE v.kind = "nan"
      <3>1. b = <<"n", "a", "n">> /\ t = <<"n", "a", "n">>
        BY <2>1 DEF ShownText, ShownSign, Letters
      <3>2. Reverse(<<"n", "a", "n">>) = <<"n", "a", "n">>
        BY DEF Reverse
      <3> QED
        BY <3>1, <3>2
    <2>2. CASE v.kind = "inf" /\ v.neg
      <3>1. <<"f", "n", "i">> \o <<"-">> = <<"f", "n", "i", "-">>
        BY <1>1, FourOfBoth
      <3>2. <<"-">> \o <<"i", "n", "f">> = <<"-", "i", "n", "f">>
        BY <1>1, FourOfBoth
      <3>3. b = <<"f", "n", "i", "-">> /\ t = <<"-", "i", "n", "f">>
        BY <2>2, <3>1, <3>2 DEF ShownText, ShownSign, Letters
      <3>4. Reverse(<<"f", "n", "i", "-">>) = <<"-", "i", "n", "f">>
        BY DEF Reverse
      <3> QED
        BY <3>3, <3>4
    <2>3. CASE v.kind = "inf" /\ ~ v.neg /\ "+" \in fl
      <3>1. <<"f", "n", "i">> \o <<"+">> = <<"f", "n", "i", "+">>
        BY <1>1, FourOfBoth
      <3>2. <<"+">> \o <<"i", "n", "f">> = <<"+", "i", "n", "f">>
        BY <1>1, FourOfBoth
      <3>3. b = <<"f", "n", "i", "+">> /\ t = <<"+", "i", "n", "f">>
        BY <2>3, <3>1, <3>2 DEF ShownText, ShownSign, Letters
      <3>4. Reverse(<<"f", "n", "i", "+">>) = <<"+", "i", "n", "f">>
        BY DEF Reverse
      <3> QED
        BY <3>3, <3>4
    <2>4. CASE v.kind = "inf" /\ ~ v.neg /\ "+" \notin fl
      <3>1. b = <<"f", "n", "i">> /\ t = <<"i", "n", "f">>
        BY <2>4 DEF ShownText, ShownSign, Letters
      <3>2. Reverse(<<"f", "n", "i">>) = <<"i", "n", "f">>
        BY DEF Reverse
      <3> QED
        BY <3>1, <3>2
    <2> QED
      BY <2>1, <2>2, <2>3, <2>4
  <1>3. SpecialText(v, w, fl) = OutRev(b, w, fl)
    BY DEF SpecialText
  <1> HIDE DEF b, t
  <1>4. SpecialText(v, w, fl) = IF ~("-" \in fl) /\ "0" \in fl THEN t
                                ELSE Placed("-" \in fl, w - Len(t), t)
    BY <1>2, <1>3 DEF OutRev, Placed, Blanks
  <1> QED
    BY <1>4 DEF t

(* What the C standard asks for: the same with its own sign, in capitals   *)
(* for %F, %E and %G.                                                      *)
CSpecialText(j) == Sign(j.v.neg, CFlags(j))
                     \o (IF j.dir.conv \in {"F", "E", "G"} THEN Capitals(j.v) ELSE Letters(j.v))

LEMMA CSpecialIs ==
    ASSUME NEW j, FitCall(j)
    PROVE  CSpecial(j) =
              Placed("-" \in CFlags(j), CWidth(j) - Len(CSpecialText(j)), CSpecialText(j))
  <1> DEFINE sign == Sign(j.v.neg, CFlags(j))
             name == IF j.dir.conv \in {"F", "E", "G"} THEN Capitals(j.v) ELSE Letters(j.v)
             w == (CWidth(j) - Len(sign)) - Len(name)
             t == CSpecialText(j)
  <1>1. CSpecial(j) = CJustified(j, sign, name, FALSE)
    BY DEF CSpecial, Capitals, Letters
  <1>2. sign \in Seq(Chars)
    BY SignIs
  <1>3. name \in Seq(Chars)
    BY LettersAre
  <1>4. t = sign \o name
    BY DEF CSpecialText
  <1>5. CSpecial(j) = IF "-" \in CFlags(j) THEN (sign \o name) \o Blanks(w)
                      ELSE (Blanks(w) \o sign) \o name
    BY <1>1 DEF CJustified, Blanks
  <1> HIDE DEF sign, name, t
  <1>6. w = CWidth(j) - Len(t) /\ w \in Int
    <2>1. Len(t) = Len(sign) + Len(name)
      BY <1>2, <1>3, <1>4, ConcatProperties
    <2>2. Len(sign) \in Nat /\ Len(name) \in Nat /\ CWidth(j) \in Nat
      BY <1>2, <1>3, LenProperties, StarsAre
    <2> QED
      BY <2>1, <2>2
  <1> HIDE DEF w
  <1>7. (Blanks(w) \o sign) \o name = Blanks(w) \o (sign \o name)
    <2>1. Blanks(w) \in Seq(Chars)
      BY <1>6, BlanksAre
    <2> QED
      BY <1>2, <1>3, <2>1, ConcatAssociative
  <1>8. CSpecial(j) = Placed("-" \in CFlags(j), w, t)
    BY <1>4, <1>5, <1>7 DEF Placed
  <1> QED
    BY <1>6, <1>8 DEF t

(* A character before a text. *)
LEMMA OneBefore ==
    ASSUME NEW ch \in Chars, NEW m \in Seq(Chars)
    PROVE  LET t == <<ch>> \o m
           IN  /\ t \in Seq(Chars) /\ t # <<>> /\ Len(t) = 1 + Len(m) /\ Head(t) = ch
               /\ \A x : Has(t, x) <=> x = ch \/ Has(m, x)
  <1> DEFINE s == <<ch>>
             t == s \o m
  <1>1. s \in Seq(Chars) /\ s # <<>>
    BY OneOf
  <1>2. Len(s) = 1 /\ Head(s) = ch
    BY OneOf
  <1>3. \A x : Has(s, x) <=> x = ch
    BY OneOf
  <1> HIDE DEF s
  <1>4. t \in Seq(Chars) /\ t # <<>> /\ Head(t) = Head(s)
    BY <1>1, HeadOfBoth
  <1>5. Len(t) = Len(s) + Len(m)
    BY <1>1, ConcatProperties
  <1>6. \A x : Has(t, x) <=> Has(s, x) \/ Has(m, x)
    BY <1>1, HasOfBoth
  <1> HIDE DEF t
  <1>7. t \in Seq(Chars) /\ t # <<>> /\ Len(t) = 1 + Len(m) /\ Head(t) = ch
    BY <1>2, <1>4, <1>5
  <1>8. \A x : Has(t, x) <=> x = ch \/ Has(m, x)
    BY <1>3, <1>6
  <1> QED
    BY <1>7, <1>8 DEF s, t

(* A sign and a name. *)
LEMMA SignedIs ==
    ASSUME NEW s \in {<<>>, <<"-">>, <<"+">>, <<" ">>}, NEW m \in Seq(Chars), m # <<>>
    PROVE  LET t == s \o m
           IN  /\ t \in Seq(Chars) /\ t # <<>>
               /\ s = <<>> => t = m
               /\ s # <<>> => Len(t) = 1 + Len(m)
               /\ s = <<" ">> => Head(t) = " "
               /\ s = <<"-">> => Head(t) = "-"
               /\ s = <<"+">> => Head(t) = "+"
               /\ s = <<"-">> => Has(t, "-")
               /\ s = <<"+">> => Has(t, "+")
               /\ s # <<"-">> /\ ~Has(m, "-") => ~Has(t, "-")
               /\ s # <<"+">> /\ ~Has(m, "+") => ~Has(t, "+")
               /\ Has(m, "N") => Has(t, "N")
               /\ ~Has(m, "N") => ~Has(t, "N")
  <1> DEFINE t == s \o m
  <1>1. CASE s = <<>>
    <2>1. t = m
      BY <1>1, ConcatEmptySeq
    <2>2. s # <<"-">> /\ s # <<"+">> /\ s # <<" ">>
      BY <1>1
    <2> HIDE DEF t
    <2>3. /\ t \in Seq(Chars) /\ t # <<>>
          /\ ~Has(m, "-") => ~Has(t, "-")
          /\ ~Has(m, "+") => ~Has(t, "+")
          /\ Has(m, "N") => Has(t, "N")
          /\ ~Has(m, "N") => ~Has(t, "N")
      BY <2>1
    <2> QED
      BY <1>1, <2>1, <2>2, <2>3 DEF t
  <1>2. ASSUME NEW ch \in {"-", "+", " "}, s = <<ch>>
        PROVE  /\ t \in Seq(Chars) /\ t # <<>> /\ Len(t) = 1 + Len(m) /\ Head(t) = ch
               /\ \A x : Has(t, x) <=> x = ch \/ Has(m, x)
    <2>1. ch \in Chars
      BY KnownAre
    <2>2. t = <<ch>> \o m
      BY <1>2
    <2> HIDE DEF t
    <2> QED
      BY <2>1, <2>2, OneBefore
  <1> HIDE DEF t
  <1>3. CASE s = <<"-">>
    <2>1. /\ t \in Seq(Chars) /\ t # <<>> /\ Len(t) = 1 + Len(m) /\ Head(t) = "-"
          /\ \A x : Has(t, x) <=> x = "-" \/ Has(m, x)
      BY <1>2, <1>3
    <2>2. s # <<>> /\ s # <<"+">> /\ s # <<" ">>
      BY <1>3
    <2>3. Has(t, "-") /\ (Has(t, "+") <=> Has(m, "+")) /\ (Has(t, "N") <=> Has(m, "N"))
      BY <2>1
    <2> QED
      BY <1>3, <2>1, <2>2, <2>3 DEF t
  <1>4. CASE s = <<"+">>
    <2>1. /\ t \in Seq(Chars) /\ t # <<>> /\ Len(t) = 1 + Len(m) /\ Head(t) = "+"
          /\ \A x : Has(t, x) <=> x = "+" \/ Has(m, x)
      BY <1>2, <1>4
    <2>2. s # <<>> /\ s # <<"-">> /\ s # <<" ">>
      BY <1>4
    <2>3. Has(t, "+") /\ (Has(t, "-") <=> Has(m, "-")) /\ (Has(t, "N") <=> Has(m, "N"))
      BY <2>1
    <2> QED
      BY <1>4, <2>1, <2>2, <2>3 DEF t
  <1>5. CASE s = <<" ">>
    <2>1. /\ t \in Seq(Chars) /\ t # <<>> /\ Len(t) = 1 + Len(m) /\ Head(t) = " "
          /\ \A x : Has(t, x) <=> x = " " \/ Has(m, x)
      BY <1>2, <1>5
    <2>2. s # <<>> /\ s # <<"-">> /\ s # <<"+">>
      BY <1>5
    <2>3. /\ Has(t, "+") <=> Has(m, "+")
          /\ Has(t, "-") <=> Has(m, "-")
          /\ Has(t, "N") <=> Has(m, "N")
      BY <2>1
    <2> QED
      BY <1>5, <2>1, <2>2, <2>3 DEF t
  <1> QED
    BY <1>1, <1>3, <1>4, <1>5

(* One blank more. *)
LEMMA BlankMore ==
    ASSUME NEW n \in Int, n > 0
    PROVE  Blanks(n) = Blanks(n - 1) \o <<" ">>
  <1> DEFINE k == n - 1
             b == Blanks(k)
             one == <<" ">>
             more == Blanks(n)
  <1>1. k \in Nat /\ Larger(0, n) = k + 1 /\ Larger(0, k) = k
    BY DEF Larger
  <1>2. b \in Seq(Chars) /\ Len(b) = k /\ more \in Seq(Chars) /\ Len(more) = k + 1
    <2> HIDE DEF k
    <2>1. k \in Int
      BY <1>1
    <2>2. Len(b) = Larger(0, k)
      BY <2>1, BlanksAre
    <2>3. Len(more) = Larger(0, n)
      BY BlanksAre
    <2>4. b \in Seq(Chars)
      BY <2>1, BlanksAre
    <2>5. more \in Seq(Chars)
      BY BlanksAre
    <2> QED
      BY <1>1, <2>2, <2>3, <2>4, <2>5
  <1>3. one \in Seq(Chars) /\ Len(one) = 1 /\ one[1] = " "
    <2>1. one \in Seq(Chars)
      BY KnownAre, OneChar
    <2>2. Len(one) = 1 /\ one[1] = " "
      OBVIOUS
    <2> QED
      BY <2>1, <2>2
  <1>4. /\ \A i \in 1 .. k : b[i] = " "
        /\ \A i \in 1 .. k + 1 : more[i] = " "
    <2>1. b = Times(" ", k) /\ more = Times(" ", k + 1)
      BY <1>1 DEF Blanks
    <2> HIDE DEF b, more, k
    <2> QED
      BY <2>1 DEF Times
  <1> HIDE DEF b, one, more, k
  <1>5. /\ b \o one \in Seq(Chars) /\ Len(b \o one) = Len(b) + Len(one)
        /\ \A i \in 1 .. Len(b) + Len(one) :
              (b \o one)[i] = IF i <= Len(b) THEN b[i] ELSE one[i - Len(b)]
    BY <1>2, <1>3, ConcatProperties
  <1>6. ASSUME NEW i \in 1 .. k + 1 PROVE (b \o one)[i] = more[i]
    <2>1. (b \o one)[i] = IF i <= k THEN b[i] ELSE one[i - k]
      BY <1>2, <1>3, <1>5
    <2>2. CASE i <= k
      <3>1. i \in 1 .. k
        BY <1>1, <2>2
      <3>2. b[i] = " " /\ more[i] = " "
        BY <1>4, <3>1
      <3> QED
        BY <2>1, <2>2, <3>2
    <2>3. CASE ~(i <= k)
      <3>1. i - k = 1
        BY <1>1, <2>3
      <3> QED
        BY <1>3, <1>4, <2>1, <2>3, <3>1
    <2> QED
      BY <2>2, <2>3
  <1>7. more = b \o one
    BY <1>1, <1>2, <1>3, <1>5, <1>6, SeqEqual
  <1> QED
    BY <1>7 DEF b, one, more, k

(* The code's flags 0, - and + are those of the standard. *)
SameFlags(j, fl) == \A ch \in {"0", "-", "+"} : ch \in fl <=> ch \in CFlags(j)

(* Infinities and NaN are shown as the C standard says except exactly      *)
(* where DeviatesSpecial says.                                             *)
LEMMA SpecialsAgree ==
    ASSUME NEW j, FitCall(j), j.v.kind \in {"inf", "nan"}, NEW fl, SameFlags(j, fl)
    PROVE  (SpecialText(j.v, CWidth(j), fl) = CSpecial(j)) <=> ~DeviatesSpecial(j)
  <1> DEFINE cf == CFlags(j)
             w == CWidth(j)
             left == "-" \in cf
             zero == "0" \in cf
             ps == ShownSign(j.v, fl)
             cs == Sign(j.v.neg, cf)
             l == Letters(j.v)
             c == Capitals(j.v)
             pt == ShownText(j.v, fl)
             ct == CSpecialText(j)
             pw == w - Len(pt)
             cw == w - Len(ct)
             P == SpecialText(j.v, w, fl)
             C == CSpecial(j)
             upper == j.dir.conv \in {"F", "E", "G"}
             nan == j.v.kind = "nan"
  <1> SUFFICES (P = C) <=> ~DeviatesSpecial(j)
    OBVIOUS
  <1>1. w \in Nat
    BY StarsAre
  <1>2. /\ left <=> "-" \in fl
        /\ zero <=> "0" \in fl
        /\ "+" \in cf <=> "+" \in fl
    BY DEF SameFlags
  <1>3. P = IF ~left /\ zero THEN pt ELSE Placed(left, pw, pt)
    <2>1. P = IF ~("-" \in fl) /\ "0" \in fl THEN pt ELSE Placed("-" \in fl, pw, pt)
      BY <1>1, ShownSpecial
    <2>2. ("-" \in fl) = left
      BY <1>2
    <2> HIDE DEF P, left, zero, pt, pw
    <2> QED
      BY <1>2, <2>1, <2>2
  <1>4. C = Placed(left, cw, ct)
    BY CSpecialIs
  <1>5. /\ ps \in {<<>>, <<"-">>, <<"+">>, <<" ">>} /\ ps # <<" ">>
        /\ nan => ps = <<>>
        /\ ~nan /\ j.v.neg => ps = <<"-">>
        /\ ~nan /\ ~j.v.neg /\ "+" \in cf => ps = <<"+">>
        /\ ~nan /\ ~j.v.neg /\ "+" \notin cf => ps = <<>>
    BY <1>2 DEF ShownSign
  <1>6. /\ cs \in {<<>>, <<"-">>, <<"+">>, <<" ">>}
        /\ j.v.neg => cs = <<"-">>
        /\ ~j.v.neg /\ "+" \in cf => cs = <<"+">>
        /\ ~j.v.neg /\ "+" \notin cf /\ " " \in cf => cs = <<" ">>
        /\ ~j.v.neg /\ "+" \notin cf /\ " " \notin cf => cs = <<>>
    BY DEF Sign
  <1>7. DeviatesSpecial(j) <=> \/ upper
                               \/ zero /\ ~left /\ Head(C) = " "
                               \/ nan /\ (j.v.neg \/ "+" \in cf)
                               \/ ~j.v.neg /\ " " \in cf /\ "+" \notin cf /\ (left \/ w < 4)
    <2>1. cf \intersect {"0", "-"} = {"0"} <=> zero /\ ~left
      OBVIOUS
    <2>2. {"+", " "} \intersect cf = {" "} <=> " " \in cf /\ "+" \notin cf
      <3> HIDE DEF cf
      <3>1. ASSUME {"+", " "} \intersect cf = {" "} PROVE " " \in cf /\ "+" \notin cf
        <4>1. " " \in {"+", " "} \intersect cf
          BY <3>1
        <4>2. "+" \in cf => "+" \in {" "}
          BY <3>1
        <4>3. "+" # " "
          OBVIOUS
        <4> QED
          BY <4>1, <4>2, <4>3
      <3>2. " " \in cf /\ "+" \notin cf => {"+", " "} \intersect cf = {" "}
        OBVIOUS
      <3> QED
        BY <3>1, <3>2
    <2> HIDE DEF C, cf, w, upper, nan
    <2> QED
      BY <2>1, <2>2 DEF DeviatesSpecial, cf, w, upper, nan, C
  <1>8. ct = cs \o (IF upper THEN c ELSE l)
    BY DEF CSpecialText
  <1>9. /\ l \in Seq(Chars) /\ l # <<>> /\ Len(l) = 3 /\ Head(l) # " "
        /\ ~Has(l, "-") /\ ~Has(l, "+") /\ ~Has(l, "N")
    BY LettersAre
  <1>10. c \in Seq(Chars) /\ c # <<>> /\ Has(c, "N")
    BY LettersAre
  <1>11. pt = ps \o l
    BY DEF ShownText
  <1>12. j.v.neg \in BOOLEAN /\ left \in BOOLEAN
    BY DEF FitCall, GoodCall, Doubles
  <1> HIDE DEF P, C, pt, ct, ps, cs, l, c, w, cf
  <1>13. /\ cs \in {<<>>, <<"-">>, <<"+">>, <<" ">>}
         /\ <<>> # <<"-">> /\ <<>> # <<"+">> /\ <<>> # <<" ">>
         /\ <<"-">> # <<"+">> /\ <<"-">> # <<" ">> /\ <<"+">> # <<" ">>
    BY <1>6
  <1>14. /\ pt \in Seq(Chars) /\ pt # <<>>
         /\ ~Has(pt, "N")
         /\ ps = <<>> => pt = l
         /\ ps # <<"-">> => ~Has(pt, "-")
         /\ ps # <<"+">> => ~Has(pt, "+")
    BY <1>5, <1>9, <1>11, SignedIs
  <1>15. ct \in Seq(Chars) /\ ct # <<>>
    <2>1. CASE upper
      <3>1. ct = cs \o c
        BY <1>8, <2>1
      <3> QED
        BY <1>10, <1>13, <3>1, SignedIs
    <2>2. CASE ~upper
      <3>1. ct = cs \o l
        BY <1>8, <2>2
      <3> QED
        BY <1>9, <1>13, <3>1, SignedIs
    <2> QED
      BY <2>1, <2>2
  <1>16. pw \in Int /\ cw \in Int /\ Len(pt) \in Nat /\ Len(ct) \in Nat
    BY <1>1, <1>14, <1>15, LenProperties
  <1>17. \A ch : ch # " " => (Has(P, ch) <=> Has(pt, ch)) /\ (Has(C, ch) <=> Has(ct, ch))
    <2>1. \A ch : ch # " " => (Has(Placed(left, pw, pt), ch) <=> Has(pt, ch))
      BY <1>12, <1>14, <1>16, PlacedIs
    <2>2. \A ch : ch # " " => (Has(Placed(left, cw, ct), ch) <=> Has(ct, ch))
      BY <1>12, <1>15, <1>16, PlacedIs
    <2> QED
      BY <1>3, <1>4, <2>1, <2>2
  <1>18. CASE upper
    <2>1. ct = cs \o c
      BY <1>8, <1>18
    <2>2. Has(ct, "N")
      BY <1>6, <1>10, <2>1, SignedIs
    <2>3. Has(C, "N") /\ ~Has(P, "N")
      BY <1>14, <1>17, <2>2
    <2> QED
      BY <1>7, <1>18, <2>3
  <1>19. CASE ~upper
    <2>1. ct = cs \o l
      BY <1>8, <1>19
    <2>2. /\ cs = <<>> => ct = l
          /\ cs # <<>> => Len(ct) = 4
          /\ cs = <<" ">> => Head(ct) = " "
          /\ cs = <<"-">> => Has(ct, "-") /\ Head(ct) = "-"
          /\ cs = <<"+">> => Has(ct, "+") /\ Head(ct) = "+"
      <3>1. l \in Seq(Chars) /\ l # <<>>
        BY <1>9
      <3>2. /\ cs = <<>> => cs \o l = l
            /\ cs # <<>> => Len(cs \o l) = 1 + Len(l)
        BY <1>13, <3>1, SignedIs
      <3>3. /\ cs = <<" ">> => Head(cs \o l) = " "
            /\ cs = <<"-">> => Head(cs \o l) = "-"
            /\ cs = <<"+">> => Head(cs \o l) = "+"
        BY <1>13, <3>1, SignedIs
      <3>4. /\ cs = <<"-">> => Has(cs \o l, "-")
            /\ cs = <<"+">> => Has(cs \o l, "+")
        BY <1>13, <3>1, SignedIs
      <3>5. Len(l) = 3
        BY <1>9
      <3>6. cs # <<>> => Len(cs \o l) = 4
        BY <3>2, <3>5
      <3> QED
        BY <2>1, <3>2, <3>3, <3>4, <3>6
    <2>3. CASE cs = ps
      <3>1. ct = pt /\ cw = pw
        BY <1>11, <2>1, <2>3
      <3>2. Head(ct) # " "
        BY <1>5, <1>9, <2>2, <2>3
      <3>3. ~(nan /\ (j.v.neg \/ "+" \in cf))
        BY <1>5, <1>6, <1>13, <2>3
      <3>4. ~(~j.v.neg /\ " " \in cf /\ "+" \notin cf)
        BY <1>5, <1>6, <2>3
      <3>5. DeviatesSpecial(j) <=> zero /\ ~left /\ Head(C) = " "
        BY <1>7, <1>19, <3>3, <3>4
      <3>6. CASE zero /\ ~left
        <4>1. P = pt
          BY <1>3, <3>6
        <4>2. CASE cw <= 0
          <5>1. C = ct
            BY <1>4, <1>12, <1>15, <1>16, <4>2, PlacedIs
          <5> QED
            BY <3>1, <3>2, <3>5, <4>1, <5>1
        <4>3. CASE cw > 0
          <5>1. Head(C) = " "
            BY <1>4, <1>12, <1>15, <1>16, <3>6, <4>3, PlacedIs
          <5>2. P # C
            BY <3>1, <3>2, <4>1, <5>1
          <5> QED
            BY <3>5, <3>6, <5>1, <5>2
        <4> QED
          BY <1>16, <4>2, <4>3
      <3>7. CASE ~(zero /\ ~left)
        <4>1. P = C
          BY <1>3, <1>4, <3>1, <3>7
        <4> QED
          BY <3>5, <3>7, <4>1
      <3> QED
        BY <3>6, <3>7
    <2>4. CASE cs # ps /\ cs # <<" ">>
      <3>1. nan /\ (j.v.neg \/ "+" \in cf)
        BY <1>5, <1>6, <1>12, <2>4
      <3>2. ps = <<>> /\ cs \in {<<"-">>, <<"+">>}
        BY <1>5, <1>6, <1>12, <2>4, <3>1
      <3>3. ~Has(pt, "-") /\ ~Has(pt, "+") /\ (Has(ct, "-") \/ Has(ct, "+"))
        BY <1>14, <2>2, <3>2
      <3>4. P # C
        BY <1>17, <3>3
      <3> QED
        BY <1>7, <3>1, <3>4
    <2>5. CASE cs = <<" ">>
      <3>1. ~j.v.neg /\ "+" \notin cf /\ " " \in cf
        BY <1>6, <1>12, <2>5
      <3>2. ps = <<>> /\ pt = l /\ Len(pt) = 3 /\ Head(pt) # " "
        BY <1>5, <1>9, <1>14, <3>1
      <3>3. Len(ct) = 4 /\ Head(ct) = " "
        BY <2>2, <2>5
      <3>4. cw = w - 4 /\ pw = w - 3
        BY <3>2, <3>3
      <3>5. CASE left
        <4>1. Head(C) = " "
          BY <1>4, <1>12, <1>15, <1>16, <3>3, <3>5, PlacedIs
        <4>2. P = Placed(left, pw, pt)
          BY <1>3, <3>5
        <4>3. Head(P) # " "
          BY <1>12, <1>14, <1>16, <3>2, <3>5, <4>2, PlacedIs
        <4> QED
          BY <1>7, <3>1, <3>5, <4>1, <4>3
      <3>6. CASE ~left /\ zero
        <4>1. Head(C) = " "
          <5>1. cw <= 0 => C = ct
            BY <1>4, <1>12, <1>15, <1>16, PlacedIs
          <5>2. cw > 0 => Head(C) = " "
            BY <1>4, <1>12, <1>15, <1>16, <3>6, PlacedIs
          <5>3. cw <= 0 => Head(C) = " "
            BY <3>3, <5>1
          <5>4. cw <= 0 \/ cw > 0
            BY <1>16
          <5> QED
            BY <5>2, <5>3, <5>4
        <4>2. P = pt
          BY <1>3, <3>6
        <4> QED
          BY <1>7, <3>2, <3>6, <4>1, <4>2
      <3>7. CASE ~left /\ ~zero
        <4>1. DeviatesSpecial(j) <=> w < 4
          BY <1>5, <1>7, <1>19, <3>1, <3>7
        <4>2. P = Placed(left, pw, pt) /\ P = Blanks(pw) \o pt /\ C = Blanks(cw) \o ct
          BY <1>3, <1>4, <3>7 DEF Placed
        <4>3. CASE w < 4
          <5>1. cw <= 0 /\ pw <= 0
            BY <1>1, <3>4, <4>3
          <5>2. C = ct
            BY <1>4, <1>12, <1>15, <1>16, <5>1, PlacedIs
          <5>3. P = pt
            BY <1>12, <1>14, <1>16, <4>2, <5>1, PlacedIs
          <5>4. P # C
            BY <3>2, <3>3, <5>2, <5>3
          <5> QED
            BY <4>1, <4>3, <5>4
        <4>4. CASE w >= 4
          <5>1. Blanks(pw) = Blanks(cw) \o <<" ">>
            <6>1. pw > 0 /\ pw \in Int /\ pw - 1 = cw
              BY <1>1, <3>4, <4>4
            <6> HIDE DEF pw, cw
            <6> QED
              BY <6>1, BlankMore
          <5>2. ct = <<" ">> \o l
            BY <2>1, <2>5
          <5> DEFINE b == Blanks(cw)
                     one == <<" ">>
          <5>3. b \in Seq(Chars) /\ one \in Seq(Chars) /\ l \in Seq(Chars)
            BY <1>9, <1>16, BlanksAre, KnownAre, OneChar
          <5>4. (b \o one) \o l = b \o (one \o l)
            <6> HIDE DEF b, one
            <6> QED
              BY <5>3, ConcatAssociative
          <5>5. P = C
            BY <3>2, <4>2, <5>1, <5>2, <5>4
          <5> QED
            BY <1>1, <4>1, <4>4, <5>5
        <4> QED
          BY <1>1, <4>3, <4>4
      <3> QED
        BY <3>5, <3>6, <3>7
    <2> QED
      BY <2>3, <2>4, <2>5
  <1> QED
    BY <1>18, <1>19

(* Infinities and NaN come out as the C standard says except exactly where *)
(* DeviatesSpecial says, whatever flags, width and precision they have     *)
(* (the checks for them at the head of _ftoa and _etoa).                   *)
THEOREM SpecialsAreRight == Spec => []SpecialsAreShown
  <1>1. ASSUME PrintfInv, ret # Unset, Floating, job.v.kind # "number"
        PROVE  (Inner = CSpecial(job)) <=> ~DeviatesSpecial(job)
    <2> DEFINE conv == job.dir.conv
               used == flags \union (IF conv \in {"F", "E", "G"} THEN {"upper"} ELSE {})
                             \union (IF conv \in {"g", "G"} THEN {"adapt"} ELSE {})
    <2>1. FitCall(job) /\ IsRead /\ Inner = Shown
      BY <1>1, InnerIs
    <2>2. job.v.kind \in {"inf", "nan"}
      BY <1>1, <2>1 DEF FitCall, GoodCall, Doubles
    <2>3. width = CWidth(job) /\ flags = ReadFlags(job)
      BY <2>1 DEF IsRead
    <2>4. SameFlags(job, used)
      BY <2>3 DEF SameFlags, ReadFlags, PrecFlags, LengthFlags
    <2>5. Shown = SpecialText(job.v, width, used)
      <3>1. Shown = DoubleText(conv)
        BY <1>1 DEF Shown, Converted, Floating
      <3>2. /\ FtoaText(job.v, precision, width, used) = SpecialText(job.v, width, used)
            /\ EtoaText(job.v, precision, width, used) = SpecialText(job.v, width, used)
        BY <1>1 DEF FtoaText, EtoaText
      <3> QED
        BY <3>1, <3>2 DEF DoubleText
    <2> HIDE DEF used
    <2> QED
      BY <2>1, <2>2, <2>3, <2>4, <2>5, SpecialsAgree
  <1>2. PrintfInv => SpecialsAreShown
    BY <1>1 DEF SpecialsAreShown
  <1> QED
    BY <1>2, PrintfInvHolds, PTL

-------------------------------------------------------------------------------
(***************************************************************************)
(* Integers.  The code and the standard build a number of the same parts,  *)
(* digits, zeros, prefix and sign.  The lengths of the two texts differ    *)
(* exactly where Cut says (LengthsCompared); where they do not, the texts  *)
(* are one (SameUnlessCut); and where they do, the fields that they are    *)
(* placed in do not make up for it (Apart), unless a blank for the sign is *)
(* lost behind other blanks (BlankSigned).                                 *)
(***************************************************************************)

(* A character some times and then some more times. *)
LEMMA TimesMore ==
    ASSUME NEW S, NEW ch \in S, NEW m \in Nat, NEW n \in Nat
    PROVE  Times(ch, m) \o Times(ch, n) = Times(ch, m + n)
  <1> DEFINE s == Times(ch, m)
             t == Times(ch, n)
             u == Times(ch, m + n)
  <1>1. s \in Seq(S) /\ Len(s) = m /\ t \in Seq(S) /\ Len(t) = n
    BY TimesIs
  <1>2. u \in Seq(S) /\ Len(u) = m + n
    <2>1. m + n \in Nat
      OBVIOUS
    <2> QED
      BY <2>1, TimesIs
  <1>3. /\ \A i \in 1 .. m : s[i] = ch
        /\ \A i \in 1 .. n : t[i] = ch
        /\ \A i \in 1 .. m + n : u[i] = ch
    BY DEF Times
  <1> HIDE DEF s, t, u
  <1>4. /\ s \o t \in Seq(S) /\ Len(s \o t) = m + n
        /\ \A i \in 1 .. m + n : (s \o t)[i] = IF i <= m THEN s[i] ELSE t[i - m]
    BY <1>1, ConcatProperties
  <1>5. \A i \in 1 .. m + n : (s \o t)[i] = u[i]
    <2> TAKE i \in 1 .. m + n
    <2>1. i <= m => i \in 1 .. m
      OBVIOUS
    <2>2. ~(i <= m) => i - m \in 1 .. n
      OBVIOUS
    <2> QED
      BY <1>3, <1>4, <2>1, <2>2
  <1>6. s \o t = u
    BY <1>2, <1>4, <1>5, SeqEqual
  <1> QED
    BY <1>6 DEF s, t, u

(* The characters of a text back to front. *)
LEMMA ReverseAt ==
    ASSUME NEW S, NEW s \in Seq(S)
    PROVE  /\ Reverse(s) \in Seq(S) /\ Len(Reverse(s)) = Len(s)
           /\ \A i \in 1 .. Len(s) : Reverse(s)[i] = s[(Len(s) - i) + 1]
  <1>1. Reverse(s) \in Seq(S) /\ Len(Reverse(s)) = Len(s)
    BY ReverseIs
  <1> DEFINE n == Len(s)
  <1>2. Reverse(s) = [i \in 1 .. n |-> s[(n - i) + 1]]
    BY DEF Reverse
  <1> HIDE DEF n
  <1>3. \A i \in 1 .. n : Reverse(s)[i] = s[(n - i) + 1]
    BY <1>2
  <1> QED
    BY <1>1, <1>3 DEF n

(* Two pieces of text back to front. *)
LEMMA ReverseOfTwo ==
    ASSUME NEW S, NEW s \in Seq(S), NEW t \in Seq(S)
    PROVE  Reverse(s \o t) = Reverse(t) \o Reverse(s)
  <1> DEFINE m == Len(s)
             n == Len(t)
             u == s \o t
             rs == Reverse(s)
             rt == Reverse(t)
             ru == Reverse(u)
  <1>1. m \in Nat /\ n \in Nat
    BY LenProperties
  <1>2. /\ u \in Seq(S) /\ Len(u) = m + n
        /\ \A i \in 1 .. m + n : u[i] = IF i <= m THEN s[i] ELSE t[i - m]
    BY ConcatProperties
  <1>3. /\ rs \in Seq(S) /\ Len(rs) = m /\ \A i \in 1 .. m : rs[i] = s[(m - i) + 1]
    BY ReverseAt
  <1>4. /\ rt \in Seq(S) /\ Len(rt) = n /\ \A i \in 1 .. n : rt[i] = t[(n - i) + 1]
    BY ReverseAt
  <1>5. /\ ru \in Seq(S) /\ Len(ru) = m + n
        /\ \A i \in 1 .. m + n : ru[i] = u[((m + n) - i) + 1]
    <2> HIDE DEF u, m, n
    <2>1. /\ ru \in Seq(S) /\ Len(ru) = Len(u)
          /\ \A i \in 1 .. Len(u) : ru[i] = u[(Len(u) - i) + 1]
      BY <1>2, ReverseAt
    <2> HIDE DEF ru
    <2> QED
      BY <1>2, <2>1
  <1> HIDE DEF m, n, u, rs, rt, ru
  <1>6. /\ rt \o rs \in Seq(S) /\ Len(rt \o rs) = n + m
        /\ \A i \in 1 .. n + m : (rt \o rs)[i] = IF i <= n THEN rt[i] ELSE rs[i - n]
    <2>1. rt \in Seq(S) /\ rs \in Seq(S) /\ Len(rt) = n /\ Len(rs) = m
      BY <1>3, <1>4
    <2>2. /\ rt \o rs \in Seq(S) /\ Len(rt \o rs) = Len(rt) + Len(rs)
          /\ \A i \in 1 .. Len(rt) + Len(rs) :
                (rt \o rs)[i] = IF i <= Len(rt) THEN rt[i] ELSE rs[i - Len(rt)]
      BY <2>1, ConcatProperties
    <2> QED
      BY <2>1, <2>2
  <1>7. Len(ru) = Len(rt \o rs)
    BY <1>1, <1>5, <1>6
  <1>8. ASSUME NEW i \in 1 .. m + n PROVE ru[i] = (rt \o rs)[i]
    <2> DEFINE k == ((m + n) - i) + 1
    <2>1. k \in 1 .. m + n /\ i \in 1 .. n + m
      BY <1>1
    <2>2. ru[i] = IF k <= m THEN s[k] ELSE t[k - m]
      BY <1>2, <1>5, <2>1
    <2>3. CASE i <= n
      <3>1. i \in 1 .. n /\ ~(k <= m) /\ k - m = (n - i) + 1
        BY <1>1, <2>3
      <3> QED
        BY <1>4, <1>6, <2>1, <2>2, <2>3, <3>1
    <2>4. CASE ~(i <= n)
      <3>1. i - n \in 1 .. m /\ k <= m /\ k = (m - (i - n)) + 1
        BY <1>1, <2>4
      <3> QED
        BY <1>3, <1>6, <2>1, <2>2, <2>4, <3>1
    <2> QED
      BY <2>3, <2>4
  <1>9. ru = rt \o rs
    BY <1>5, <1>6, <1>7, <1>8, SeqEqual
  <1> QED
    BY <1>9 DEF ru, rt, rs, u

(* A character several times, back to front. *)
LEMMA ReverseOfTimes ==
    ASSUME NEW S, NEW ch \in S, NEW n \in Nat
    PROVE  Reverse(Times(ch, n)) = Times(ch, n)
  <1> DEFINE t == Times(ch, n)
  <1>1. t \in Seq(S) /\ Len(t) = n
    BY TimesIs
  <1>2. \A i \in 1 .. n : t[i] = ch
    BY DEF Times
  <1> HIDE DEF t
  <1>3. /\ Reverse(t) \in Seq(S) /\ Len(Reverse(t)) = n
        /\ \A i \in 1 .. n : Reverse(t)[i] = t[(n - i) + 1]
    BY <1>1, ReverseAt
  <1>4. \A i \in 1 .. n : Reverse(t)[i] = t[i]
    <2> TAKE i \in 1 .. n
    <2>1. (n - i) + 1 \in 1 .. n
      OBVIOUS
    <2> QED
      BY <1>2, <1>3, <2>1
  <1>5. Reverse(t) = t
    BY <1>1, <1>3, <1>4, SeqEqual
  <1> QED
    BY <1>5 DEF t

(* A text back to front twice. *)
LEMMA ReverseTwice ==
    ASSUME NEW S, NEW s \in Seq(S)
    PROVE  Reverse(Reverse(s)) = s
  <1> DEFINE r == Reverse(s)
             n == Len(s)
  <1>1. r \in Seq(S) /\ Len(r) = n /\ \A i \in 1 .. n : r[i] = s[(n - i) + 1]
    BY ReverseAt
  <1>2. n \in Nat
    BY LenProperties
  <1> HIDE DEF r, n
  <1>3. /\ Reverse(r) \in Seq(S) /\ Len(Reverse(r)) = n
        /\ \A i \in 1 .. n : Reverse(r)[i] = r[(n - i) + 1]
    BY <1>1, ReverseAt
  <1>4. \A i \in 1 .. n : Reverse(r)[i] = s[i]
    <2> TAKE i \in 1 .. n
    <2>1. (n - i) + 1 \in 1 .. n /\ (n - ((n - i) + 1)) + 1 = i
      BY <1>2
    <2> QED
      BY <1>1, <1>3, <2>1
  <1>5. Reverse(r) = s
    BY <1>3, <1>4, SeqEqual DEF n
  <1> QED
    BY <1>5 DEF r

(* What fits the buffer is cut off at its size. *)
LEMMA RoomLen ==
    ASSUME NEW S, NEW s \in Seq(S)
    PROVE  /\ Room(s) \in Seq(S) /\ Len(Room(s)) = Smaller(Len(s), NumSize)
           /\ Len(s) <= NumSize => Room(s) = s
           /\ \A i \in 1 .. Len(Room(s)) : Room(s)[i] = s[i]
  <1> DEFINE n == Smaller(Len(s), NumSize)
  <1>1. Len(s) \in Nat /\ NumSize \in Nat
    BY LenProperties, TypeSizesAssumption
  <1>2. n \in Nat /\ n <= Len(s)
    BY <1>1 DEF Smaller
  <1>3. /\ Room(s) \in Seq(S) /\ Len(Room(s)) = n
        /\ \A i \in 1 .. n : Room(s)[i] = s[i]
    <2> HIDE DEF n
    <2> QED
      BY <1>2, PrefixIs DEF Room, n
  <1>4. ASSUME Len(s) <= NumSize PROVE Room(s) = s
    <2>1. n = Len(s)
      BY <1>1, <1>4 DEF Smaller
    <2> HIDE DEF n
    <2>2. Len(Room(s)) = Len(s) /\ \A i \in 1 .. Len(Room(s)) : Room(s)[i] = s[i]
      BY <1>3, <2>1
    <2> QED
      BY <1>3, <2>2, SeqEqual
  <1> QED
    BY <1>3, <1>4

(* A full buffer takes no more. *)
LEMMA RoomFull ==
    ASSUME NEW S, NEW s \in Seq(S), NEW t \in Seq(S), Len(s) = NumSize
    PROVE  Room(s \o t) = s
  <1>1. Len(s) \in Nat /\ Len(t) \in Nat
    BY LenProperties
  <1>2. /\ s \o t \in Seq(S) /\ Len(s \o t) = Len(s) + Len(t)
        /\ \A i \in 1 .. Len(s) + Len(t) :
              (s \o t)[i] = IF i <= Len(s) THEN s[i] ELSE t[i - Len(s)]
    BY ConcatProperties
  <1>3. /\ Room(s \o t) \in Seq(S)
        /\ Len(Room(s \o t)) = Smaller(Len(s \o t), NumSize)
        /\ \A i \in 1 .. Len(Room(s \o t)) : Room(s \o t)[i] = (s \o t)[i]
    BY <1>2, RoomLen
  <1>4. Len(Room(s \o t)) = Len(s)
    BY <1>1, <1>2, <1>3 DEF Smaller
  <1>5. \A i \in 1 .. Len(Room(s \o t)) : Room(s \o t)[i] = s[i]
    <2> TAKE i \in 1 .. Len(Room(s \o t))
    <2>1. i \in 1 .. Len(s) + Len(t) /\ i <= Len(s)
      BY <1>1, <1>4
    <2> QED
      BY <1>2, <1>3, <2>1
  <1> QED
    BY <1>3, <1>4, <1>5, SeqEqual

(* The characters of a number other than the blank that may be its sign.   *)
NonBlank == Chars \ {" "}

(* A shorter text without blanks differs from a longer one, however many   *)
(* blanks both have on the same side.                                      *)
LEMMA ShorterIsApart ==
    ASSUME NEW s \in Seq(NonBlank), NEW t \in Seq(NonBlank), NEW m \in Int, NEW n \in Int,
           Len(s) < Len(t)
    PROVE  /\ s \o Blanks(m) # t \o Blanks(n)
           /\ Blanks(m) \o s # Blanks(n) \o t
  <1> DEFINE a == Blanks(m)
             b == Blanks(n)
             la == Larger(0, m)
             lb == Larger(0, n)
  <1>1. /\ a \in Seq(Chars) /\ Len(a) = la
        /\ b \in Seq(Chars) /\ Len(b) = lb
    BY BlanksAre
  <1>2. la \in Nat /\ lb \in Nat /\ Len(s) \in Nat /\ Len(t) \in Nat
    BY LenProperties DEF Larger
  <1>3. /\ \A i \in 1 .. la : a[i] = " "
        /\ \A i \in 1 .. lb : b[i] = " "
    BY <1>2 DEF Blanks, Times
  <1>4. \A i \in 1 .. Len(t) : t[i] # " "
    <2>1. \A i \in 1 .. Len(t) : t[i] \in NonBlank
      BY ElementOfSeq
    <2> QED
      BY <2>1 DEF NonBlank
  <1>5. s \in Seq(Chars) /\ t \in Seq(Chars)
    <2>1. NonBlank \subseteq Chars
      BY DEF NonBlank
    <2> QED
      BY <2>1, SeqMonotonic
  <1> HIDE DEF a, b, la, lb
  <1>6. /\ Len(s \o a) = Len(s) + la
        /\ \A i \in 1 .. Len(s) + la : (s \o a)[i] = IF i <= Len(s) THEN s[i] ELSE a[i - Len(s)]
    BY <1>1, <1>5, ConcatProperties
  <1>7. /\ Len(t \o b) = Len(t) + lb
        /\ \A i \in 1 .. Len(t) + lb : (t \o b)[i] = IF i <= Len(t) THEN t[i] ELSE b[i - Len(t)]
    BY <1>1, <1>5, ConcatProperties
  <1>8. /\ Len(a \o s) = la + Len(s)
        /\ \A i \in 1 .. la + Len(s) : (a \o s)[i] = IF i <= la THEN a[i] ELSE s[i - la]
    BY <1>1, <1>5, ConcatProperties
  <1>9. /\ Len(b \o t) = lb + Len(t)
        /\ \A i \in 1 .. lb + Len(t) : (b \o t)[i] = IF i <= lb THEN b[i] ELSE t[i - lb]
    BY <1>1, <1>5, ConcatProperties
  <1>10. ASSUME s \o a = t \o b PROVE FALSE
    <2> DEFINE i == Len(s) + 1
    <2>1. Len(s) + la = Len(t) + lb
      BY <1>6, <1>7, <1>10
    <2>2. /\ i \in 1 .. Len(s) + la /\ i \in 1 .. Len(t) + lb
          /\ ~(i <= Len(s)) /\ i <= Len(t) /\ i \in 1 .. Len(t) /\ i - Len(s) \in 1 .. la
      BY <1>2, <2>1
    <2> HIDE DEF i
    <2>3. (s \o a)[i] = a[i - Len(s)]
      BY <1>6, <2>2
    <2>4. (t \o b)[i] = t[i]
      BY <1>7, <2>2
    <2>5. a[i - Len(s)] = " " /\ t[i] # " "
      BY <1>3, <1>4, <2>2
    <2> QED
      BY <1>10, <2>3, <2>4, <2>5
  <1>11. ASSUME a \o s = b \o t PROVE FALSE
    <2> DEFINE i == lb + 1
    <2>1. la + Len(s) = lb + Len(t)
      BY <1>8, <1>9, <1>11
    <2>2. /\ i \in 1 .. la + Len(s) /\ i \in 1 .. lb + Len(t)
          /\ ~(i <= lb) /\ i <= la /\ i \in 1 .. la /\ i - lb \in 1 .. Len(t)
      BY <1>2, <2>1
    <2> HIDE DEF i
    <2>3. (a \o s)[i] = a[i]
      BY <1>8, <2>2
    <2>4. (b \o t)[i] = t[i - lb]
      BY <1>9, <2>2
    <2>5. a[i] = " " /\ t[i - lb] # " "
      BY <1>3, <1>4, <2>2
    <2> QED
      BY <1>11, <2>3, <2>4, <2>5
  <1> QED
    BY <1>10, <1>11 DEF a, b

(* The same, whichever is the shorter. *)
LEMMA Apart ==
    ASSUME NEW s \in Seq(NonBlank), NEW t \in Seq(NonBlank), NEW m \in Int, NEW n \in Int,
           NEW left \in BOOLEAN, Len(s) # Len(t)
    PROVE  Placed(left, m, s) # Placed(left, n, t)
  <1>1. Len(s) \in Nat /\ Len(t) \in Nat
    BY LenProperties
  <1>2. Len(s) < Len(t) \/ Len(t) < Len(s)
    BY <1>1
  <1>3. CASE Len(s) < Len(t)
    BY <1>3, ShorterIsApart DEF Placed
  <1>4. CASE Len(t) < Len(s)
    BY <1>4, ShorterIsApart DEF Placed
  <1> QED
    BY <1>2, <1>3, <1>4

(* What is cut before more is added might as well be cut afterwards. *)
LEMMA RoomTwice ==
    ASSUME NEW S, NEW s \in Seq(S), NEW t \in Seq(S)
    PROVE  Room(Room(s) \o t) = Room(s \o t)
  <1>1. Len(s) \in Nat /\ Len(t) \in Nat /\ NumSize \in Nat
    BY LenProperties, TypeSizesAssumption
  <1>2. Len(s) <= NumSize => Room(s) = s
    BY RoomLen
  <1>3. /\ Room(s) \in Seq(S) /\ Len(Room(s)) = Smaller(Len(s), NumSize)
        /\ \A i \in 1 .. Len(Room(s)) : Room(s)[i] = s[i]
    BY RoomLen
  <1>4. ASSUME ~(Len(s) <= NumSize) PROVE Room(Room(s) \o t) = Room(s \o t)
    <2>1. Len(Room(s)) = NumSize
      BY <1>1, <1>3, <1>4 DEF Smaller
    <2>2. Room(Room(s) \o t) = Room(s)
      BY <1>3, <2>1, RoomFull
    <2>3. /\ s \o t \in Seq(S) /\ Len(s \o t) = Len(s) + Len(t)
          /\ \A i \in 1 .. Len(s) + Len(t) :
                (s \o t)[i] = IF i <= Len(s) THEN s[i] ELSE t[i - Len(s)]
      BY ConcatProperties
    <2>4. /\ Room(s \o t) \in Seq(S)
          /\ Len(Room(s \o t)) = Smaller(Len(s \o t), NumSize)
          /\ \A i \in 1 .. Len(Room(s \o t)) : Room(s \o t)[i] = (s \o t)[i]
      BY <2>3, RoomLen
    <2>5. Len(Room(s \o t)) = NumSize
      BY <1>1, <1>4, <2>3, <2>4 DEF Smaller
    <2>6. \A i \in 1 .. Len(Room(s)) : Room(s)[i] = Room(s \o t)[i]
      <3> TAKE i \in 1 .. Len(Room(s))
      <3>1. i \in 1 .. Len(Room(s \o t)) /\ i \in 1 .. Len(s) + Len(t) /\ i <= Len(s)
        BY <1>1, <1>4, <2>1, <2>5
      <3> QED
        BY <1>3, <2>3, <2>4, <3>1
    <2>7. Room(s) = Room(s \o t)
      BY <1>3, <2>1, <2>4, <2>5, <2>6, SeqEqual
    <2> QED
      BY <2>2, <2>7
  <1> QED
    BY <1>2, <1>4

(* The characters of numbers and of their prefixes, and texts of them with *)
(* zeros behind (in front, that is: numbers are built back to front).      *)
Solid == Chars \ {" ", "-"}
Padded(s, n) == s \o Times("0", n)

(* What is neither a blank nor a minus sign. *)
LEMMA SolidIs ==
    /\ Solid \subseteq Chars /\ Solid \subseteq NonBlank
    /\ "0" \in Solid /\ "x" \in Solid /\ "X" \in Solid
  <1>1. "0" \in Chars /\ "x" \in Chars /\ "X" \in Chars
    BY KnownAre
  <1> QED
    BY <1>1 DEF Solid, NonBlank

(* Digits, back to front, with zeros that come before them. *)
LEMMA PaddedIs ==
    ASSUME NEW s \in Seq(Solid), NEW n \in Nat
    PROVE  /\ Padded(s, n) \in Seq(Solid) /\ Len(Padded(s, n)) = Len(s) + n
           /\ n = 0 => Padded(s, n) = s
  <1> DEFINE t == Times("0", n)
  <1>1. t \in Seq(Solid) /\ Len(t) = n
    BY SolidIs, TimesIs
  <1>2. n = 0 => t = <<>>
    <2> HIDE DEF t
    <2> QED
      BY <1>1, EmptySeq
  <1> HIDE DEF t
  <1>3. s \o t \in Seq(Solid) /\ Len(s \o t) = Len(s) + Len(t)
    BY <1>1, ConcatProperties
  <1>4. n = 0 => s \o t = s
    BY <1>2, ConcatEmptySeq
  <1> QED
    BY <1>1, <1>3, <1>4 DEF Padded, t

(* Zeros behind zeros, and some of the zeros. *)
LEMMA PaddedTwice ==
    ASSUME NEW s \in Seq(Solid), NEW m \in Nat, NEW n \in Nat
    PROVE  Padded(Padded(s, m), n) = Padded(s, m + n)
  <1>1. /\ Times("0", m) \in Seq(Solid) /\ Times("0", n) \in Seq(Solid)
    BY SolidIs, TimesIs
  <1>2. Times("0", m) \o Times("0", n) = Times("0", m + n)
    BY SolidIs, TimesMore
  <1>3. (s \o Times("0", m)) \o Times("0", n) = s \o (Times("0", m) \o Times("0", n))
    BY <1>1, ConcatAssociative
  <1> QED
    BY <1>2, <1>3 DEF Padded

(* The first characters of such digits are the digits with fewer zeros. *)
LEMMA PaddedPart ==
    ASSUME NEW s \in Seq(Solid), NEW m \in Nat, NEW n \in Nat
    PROVE  SubSeq(Padded(s, m + n), 1, Len(s) + m) = Padded(s, m)
  <1> DEFINE p == Padded(s, m)
             z == Times("0", n)
             k == Len(s) + m
  <1>1. p \in Seq(Solid) /\ Len(p) = k
    BY PaddedIs
  <1>2. z \in Seq(Solid) /\ Len(z) = n
    BY SolidIs, TimesIs
  <1>3. Padded(s, m + n) = p \o z
    BY PaddedTwice DEF Padded
  <1>4. k \in Nat
    BY LenProperties
  <1> HIDE DEF p, z, k
  <1>5. /\ p \o z \in Seq(Solid) /\ Len(p \o z) = Len(p) + Len(z)
        /\ \A i \in 1 .. Len(p) + Len(z) :
              (p \o z)[i] = IF i <= Len(p) THEN p[i] ELSE z[i - Len(p)]
    BY <1>1, <1>2, ConcatProperties
  <1>6. k <= Len(p \o z)
    BY <1>1, <1>2, <1>4, <1>5
  <1>7. /\ SubSeq(p \o z, 1, k) \in Seq(Solid) /\ Len(SubSeq(p \o z, 1, k)) = k
        /\ \A i \in 1 .. k : SubSeq(p \o z, 1, k)[i] = (p \o z)[i]
    BY <1>4, <1>5, <1>6, PrefixIs
  <1>8. \A i \in 1 .. k : SubSeq(p \o z, 1, k)[i] = p[i]
    <2> TAKE i \in 1 .. k
    <2>1. i \in 1 .. Len(p) + Len(z) /\ i <= Len(p)
      BY <1>1, <1>2, <1>4
    <2> QED
      BY <1>5, <1>7, <2>1
  <1>9. SubSeq(p \o z, 1, k) = p
    BY <1>1, <1>7, <1>8, SeqEqual
  <1> QED
    BY <1>3, <1>9 DEF k, p

(* The length that _ntoa_format fills a number up to. *)
Least(negative, p, w, fl) ==
    IF "-" \in fl THEN 0
    ELSE Larger(Smaller(p, NumSize),
                IF "0" \in fl THEN Smaller(ZeroWidth(w, negative, fl), NumSize) ELSE 0)

(* Filling a buffer up to a width adds the zeros that are missing. *)
LEMMA FillToPads ==
    ASSUME NEW s \in Seq(Solid), NEW n \in Nat
    PROVE  /\ Larger(0, Smaller(n, NumSize) - Len(s)) \in Nat
           /\ FillTo(s, "0", n) = Padded(s, Larger(0, Smaller(n, NumSize) - Len(s)))
  <1>1. Len(s) \in Nat /\ NumSize \in Nat
    BY LenProperties, TypeSizesAssumption
  <1> QED
    BY <1>1 DEF FillTo, Padded, Larger, Smaller

(* The zeros of a precision and of a field are those up to the wider of    *)
(* the two that there is room for.                                         *)
LEMMA PadZerosPads ==
    ASSUME NEW s \in Seq(Solid), NEW negative, NEW p \in Nat, NEW w \in Nat, NEW fl
    PROVE  LET n == Larger(0, Least(negative, p, w, fl) - Len(s))
           IN  n \in Nat /\ PadZeros(s, negative, p, w, fl) = Padded(s, n)
  <1> DEFINE n == Larger(0, Least(negative, p, w, fl) - Len(s))
             zw == ZeroWidth(w, negative, fl)
             a == Larger(0, Smaller(p, NumSize) - Len(s))
             t == Padded(s, a)
             b == Larger(0, Smaller(zw, NumSize) - Len(t))
  <1>1. Len(s) \in Nat /\ NumSize \in Nat /\ zw \in Nat
    BY LenProperties, TypeSizesAssumption, ZeroWidthIs
  <1>2. Least(negative, p, w, fl) \in Nat
    BY <1>1 DEF Least, Larger, Smaller
  <1>3. n \in Nat
    BY <1>1, <1>2 DEF Larger
  <1>4. a \in Nat /\ FillTo(s, "0", p) = t
    BY FillToPads
  <1>5. t \in Seq(Solid) /\ Len(t) = Len(s) + a
    <2> HIDE DEF a
    <2> QED
      BY <1>4, PaddedIs
  <1>6. b \in Nat /\ FillTo(t, "0", zw) = Padded(t, b)
    <2> HIDE DEF t, zw
    <2> QED
      BY <1>1, <1>5, FillToPads
  <1>7. Padded(t, b) = Padded(s, a + b)
    <2> HIDE DEF a, b
    <2> QED
      BY <1>4, <1>6, PaddedTwice
  <1>8. CASE "-" \in fl
    <2>1. n = 0 /\ PadZeros(s, negative, p, w, fl) = s
      BY <1>1, <1>8 DEF PadZeros, Least, Larger
    <2>2. Padded(s, 0) = s
      <3>1. 0 \in Nat
        OBVIOUS
      <3> QED
        BY <3>1, PaddedIs
    <2> QED
      BY <1>3, <2>1, <2>2
  <1>9. CASE "-" \notin fl /\ "0" \notin fl
    <2>1. Least(negative, p, w, fl) = Smaller(p, NumSize)
      BY <1>1, <1>9 DEF Least, Larger, Smaller
    <2>2. n = a
      BY <2>1
    <2>3. PadZeros(s, negative, p, w, fl) = t
      BY <1>4, <1>9 DEF PadZeros
    <2> QED
      BY <1>3, <2>2, <2>3
  <1>10. CASE "-" \notin fl /\ "0" \in fl
    <2>1. Least(negative, p, w, fl) = Larger(Smaller(p, NumSize), Smaller(zw, NumSize))
      BY <1>10 DEF Least
    <2>2. b = Larger(0, Smaller(zw, NumSize) - (Len(s) + a))
      BY <1>5
    <2>3. n = a + b
      <3> DEFINE x == Smaller(p, NumSize)
                 y == Smaller(zw, NumSize)
                 l == Len(s)
      <3>1. x \in Nat /\ y \in Nat /\ l \in Nat
        BY <1>1 DEF Smaller
      <3>2. a = Larger(0, x - l) /\ b = Larger(0, y - (l + a)) /\ n = Larger(0, Larger(x, y) - l)
        BY <2>1, <2>2
      <3> HIDE DEF a, b, n, x, y, l
      <3> QED
        BY <3>1, <3>2 DEF Larger
    <2>4. PadZeros(s, negative, p, w, fl) = Padded(t, b)
      <3> HIDE DEF t
      <3> QED
        BY <1>4, <1>6, <1>10 DEF PadZeros, zw
    <2> QED
      BY <1>3, <1>7, <2>3, <2>4
  <1> QED
    BY <1>8, <1>9, <1>10

(* Texts of two characters. *)
LEMMA TwoOfBoth ==
    /\ \A a, b \in Chars : <<a>> \o <<b>> = <<a, b>>
    /\ \A a, b \in Chars : Reverse(<<a, b>>) = <<b, a>>
  <1>1. \A a, b \in Chars : <<a>> \o <<b>> = <<a, b>>
    <2> TAKE a, b \in Chars
    <2> DEFINE s == <<a>>
               t == <<b>>
               two == <<a, b>>
    <2>1. /\ s \in Seq(Chars) /\ Len(s) = 1 /\ s[1] = a
          /\ t \in Seq(Chars) /\ Len(t) = 1 /\ t[1] = b
      OBVIOUS
    <2>2. two \in Seq(Chars) /\ Len(two) = 2 /\ two[1] = a /\ two[2] = b
      OBVIOUS
    <2> HIDE DEF s, t, two
    <2>3. /\ s \o t \in Seq(Chars) /\ Len(s \o t) = Len(s) + Len(t)
          /\ \A i \in 1 .. Len(s) + Len(t) :
                (s \o t)[i] = IF i <= Len(s) THEN s[i] ELSE t[i - Len(s)]
      BY <2>1, ConcatProperties
    <2>4. \A i \in 1 .. 2 : (s \o t)[i] = two[i]
      <3>1. (s \o t)[1] = a /\ (s \o t)[2] = b
        BY <2>1, <2>3
      <3>2. \A i \in 1 .. 2 : i = 1 \/ i = 2
        OBVIOUS
      <3> QED
        BY <2>2, <3>1, <3>2
    <2>5. Len(s \o t) = 2
      BY <2>1, <2>3
    <2>6. s \o t = two
      BY <2>2, <2>3, <2>4, <2>5, SeqEqual
    <2> QED
      BY <2>6 DEF s, t, two
  <1>2. \A a, b \in Chars : Reverse(<<a, b>>) = <<b, a>>
    <2> TAKE a, b \in Chars
    <2> DEFINE s == <<a, b>>
               t == <<b, a>>
    <2>1. /\ s \in Seq(Chars) /\ Len(s) = 2 /\ s[1] = a /\ s[2] = b
          /\ t \in Seq(Chars) /\ Len(t) = 2 /\ t[1] = b /\ t[2] = a
      OBVIOUS
    <2> HIDE DEF s, t
    <2>2. /\ Reverse(s) \in Seq(Chars) /\ Len(Reverse(s)) = Len(s)
          /\ \A i \in 1 .. Len(s) : Reverse(s)[i] = s[(Len(s) - i) + 1]
      BY <2>1, ReverseAt
    <2>3. \A i \in 1 .. 2 : Reverse(s)[i] = t[i]
      <3>1. Reverse(s)[1] = b /\ Reverse(s)[2] = a
        BY <2>1, <2>2
      <3>2. \A i \in 1 .. 2 : i = 1 \/ i = 2
        OBVIOUS
      <3> QED
        BY <2>1, <3>1, <3>2
    <2>4. Reverse(s) = t
      BY <2>1, <2>2, <2>3, SeqEqual
    <2> QED
      BY <2>4 DEF s, t
  <1> QED
    BY <1>1, <1>2

(* What _ntoa_format appends to the padded digits, and how many of these   *)
(* the prefix leaves.                                                      *)
Prefixed(base, fl) == IF "#" \in fl THEN Letter(base, fl) \o <<"0">> ELSE <<>>
Full(len, w, fl) == "#" \in fl /\ "precision" \notin fl /\ len > 0 /\ len = w
KeptLen(len, base, w, fl) ==
    IF ~Full(len, w, fl) THEN len
    ELSE IF base = 16 /\ len > 1 THEN len - 2 ELSE len - 1
Kept(s, negative, base, p, w, fl) ==
    LET h == PadZeros(s, negative, p, w, fl)
    IN  SubSeq(h, 1, KeptLen(Len(h), base, ZeroWidth(w, negative, fl), fl))
Backwards(s, negative, base, p, w, fl) ==
    (Kept(s, negative, base, p, w, fl) \o Prefixed(base, fl)) \o Sign(negative, fl)

(* The prefix takes back no more than there is. *)
LEMMA KeptLenIs ==
    ASSUME NEW len \in Nat, NEW base, NEW w, NEW fl
    PROVE  KeptLen(len, base, w, fl) \in Nat /\ KeptLen(len, base, w, fl) <= len
  BY DEF KeptLen, Full

(* The prefix of each base, back to front. *)
LEMMA PrefixedIs ==
    ASSUME NEW base \in {8, 10, 16}, NEW fl
    PROVE  /\ Prefixed(base, fl) \in Seq(Solid)
           /\ "#" \notin fl => Prefixed(base, fl) = <<>>
           /\ "#" \in fl /\ base = 8 => Prefixed(base, fl) = <<"0">>
           /\ "#" \in fl /\ base = 16 /\ "upper" \in fl => Prefixed(base, fl) = <<"X", "0">>
           /\ "#" \in fl /\ base = 16 /\ "upper" \notin fl => Prefixed(base, fl) = <<"x", "0">>
           /\ "#" \in fl => Len(Prefixed(base, fl)) = IF base = 16 THEN 2 ELSE 1
           /\ "#" \in fl => Letter(base, fl) \in Seq(Solid)
           /\ "#" \notin fl => Len(Prefixed(base, fl)) = 0
  <1> DEFINE zero == <<"0">>
             x == <<"x">>
             xx == <<"X">>
  <1>1. zero \in Seq(Solid) /\ x \in Seq(Solid) /\ xx \in Seq(Solid)
    BY SolidIs
  <1>2. x \o zero = <<"x", "0">> /\ xx \o zero = <<"X", "0">>
    <2>1. "0" \in Chars /\ "x" \in Chars /\ "X" \in Chars
      BY KnownAre
    <2>2. \A a, b \in Chars : <<a>> \o <<b>> = <<a, b>>
      BY TwoOfBoth
    <2> QED
      BY <2>1, <2>2
  <1>3. <<>> \o zero = zero
    BY <1>1, ConcatEmptySeq
  <1>4. /\ Len(zero) = 1 /\ Len(<<"x", "0">>) = 2 /\ Len(<<"X", "0">>) = 2 /\ Len(<<>>) = 0
        /\ <<"x", "0">> \in Seq(Solid) /\ <<"X", "0">> \in Seq(Solid) /\ <<>> \in Seq(Solid)
    BY SolidIs
  <1>5. CASE "#" \notin fl
    BY <1>4, <1>5 DEF Prefixed
  <1>6. CASE "#" \in fl /\ base = 16 /\ "upper" \in fl
    <2>1. Letter(base, fl) = xx
      BY <1>6 DEF Letter
    <2>2. Prefixed(base, fl) = <<"X", "0">>
      BY <1>2, <1>6, <2>1 DEF Prefixed
    <2>3. Prefixed(base, fl) \in Seq(Solid) /\ Len(Prefixed(base, fl)) = 2
      BY <1>4, <2>2
    <2>4. Letter(base, fl) \in Seq(Solid)
      BY <1>1, <2>1
    <2> QED
      BY <1>6, <2>2, <2>3, <2>4
  <1>7. CASE "#" \in fl /\ base = 16 /\ "upper" \notin fl
    <2>1. Letter(base, fl) = x
      BY <1>7 DEF Letter
    <2>2. Prefixed(base, fl) = <<"x", "0">>
      BY <1>2, <1>7, <2>1 DEF Prefixed
    <2>3. Prefixed(base, fl) \in Seq(Solid) /\ Len(Prefixed(base, fl)) = 2
      BY <1>4, <2>2
    <2>4. Letter(base, fl) \in Seq(Solid)
      BY <1>1, <2>1
    <2> QED
      BY <1>7, <2>2, <2>3, <2>4
  <1>8. CASE "#" \in fl /\ base # 16
    <2>1. Letter(base, fl) = <<>>
      BY <1>8 DEF Letter
    <2>2. Prefixed(base, fl) = zero
      BY <1>3, <1>8, <2>1 DEF Prefixed
    <2> QED
      BY <1>1, <1>4, <1>8, <2>1, <2>2
  <1> QED
    BY <1>5, <1>6, <1>7, <1>8

(* The padded digits as far as the prefix leaves them. *)
LEMMA KeptIs ==
    ASSUME NEW s \in Seq(Solid), NEW negative, NEW base, NEW p \in Nat, NEW w \in Nat, NEW fl
    PROVE  LET len == Len(s) + Larger(0, Least(negative, p, w, fl) - Len(s))
           IN  /\ len \in Nat /\ Len(PadZeros(s, negative, p, w, fl)) = len
               /\ PadZeros(s, negative, p, w, fl) \in Seq(Solid)
               /\ Kept(s, negative, base, p, w, fl) \in Seq(Solid)
               /\ Len(Kept(s, negative, base, p, w, fl))
                    = KeptLen(len, base, ZeroWidth(w, negative, fl), fl)
               /\ Kept(s, negative, base, p, w, fl) =
                    SubSeq(PadZeros(s, negative, p, w, fl), 1,
                           KeptLen(len, base, ZeroWidth(w, negative, fl), fl))
               /\ ~Full(len, ZeroWidth(w, negative, fl), fl) =>
                    Kept(s, negative, base, p, w, fl) = PadZeros(s, negative, p, w, fl)
  <1> DEFINE h == PadZeros(s, negative, p, w, fl)
             n == Larger(0, Least(negative, p, w, fl) - Len(s))
             len == Len(s) + n
             zw == ZeroWidth(w, negative, fl)
             k == KeptLen(len, base, zw, fl)
  <1>1. n \in Nat /\ h = Padded(s, n)
    BY PadZerosPads
  <1>2. Len(s) \in Nat
    BY LenProperties
  <1> HIDE DEF n
  <1>3. h \in Seq(Solid) /\ Len(h) = len
    BY <1>1, PaddedIs
  <1>4. len \in Nat
    BY <1>1, <1>2
  <1> HIDE DEF h, len, zw
  <1>5. k \in Nat /\ k <= len
    BY <1>4, KeptLenIs
  <1>6. Kept(s, negative, base, p, w, fl) = SubSeq(h, 1, k)
    BY <1>3 DEF Kept, h, zw
  <1>7. ~Full(len, zw, fl) => k = len
    BY DEF KeptLen
  <1> HIDE DEF k
  <1>8. SubSeq(h, 1, k) \in Seq(Solid) /\ Len(SubSeq(h, 1, k)) = k
    BY <1>3, <1>5, PrefixIs
  <1>9. k = len => SubSeq(h, 1, k) = h
    <2> SUFFICES ASSUME k = len PROVE SubSeq(h, 1, k) = h
      OBVIOUS
    <2>1. \A i \in 1 .. k : SubSeq(h, 1, k)[i] = h[i]
      BY <1>3, <1>5, PrefixIs
    <2> QED
      BY <1>3, <1>8, <2>1, SeqEqual
  <1> QED
    BY <1>3, <1>4, <1>6, <1>7, <1>8, <1>9 DEF h, len, n, k, zw

(* A sign has at most one character. *)
LEMMA SignAre ==
    ASSUME NEW negative, NEW fl
    PROVE  LET s == Sign(negative, fl)
           IN  /\ s \in {<<>>, <<"-">>, <<"+">>, <<" ">>}
               /\ s \in Seq(Chars) /\ Len(s) = IF s = <<>> THEN 0 ELSE 1
               /\ Reverse(s) = s
               /\ s = <<"-">> <=> negative = TRUE
  <1> DEFINE s == Sign(negative, fl)
  <1>1. s \in {<<>>, <<"-">>, <<"+">>, <<" ">>}
    BY DEF Sign
  <1>2. s \in Seq(Chars)
    BY SignIs
  <1>3. \A x : Len(<<x>>) = 1 /\ Reverse(<<x>>) = <<x>>
    BY DEF Reverse
  <1>4. Len(<<>>) = 0 /\ Reverse(<<>>) = <<>>
    BY DEF Reverse
  <1>5. s = <<"-">> <=> negative = TRUE
    BY DEF Sign
  <1> HIDE DEF s
  <1>6. Len(s) = IF s = <<>> THEN 0 ELSE 1
    BY <1>1, <1>3, <1>4
  <1>7. Reverse(s) = s
    BY <1>1, <1>3, <1>4
  <1> QED
    BY <1>1, <1>2, <1>5, <1>6, <1>7 DEF s

(* _ntoa_format's text, back to front and cut once. *)
LEMMA NtoaFormatIs ==
    ASSUME NEW s \in Seq(Solid), NEW negative, NEW base \in {8, 10, 16},
           NEW p \in Nat, NEW w \in Nat, NEW fl
    PROVE  NtoaFormat(s, negative, base, p, w, fl)
             = OutRev(Room(Backwards(s, negative, base, p, w, fl)), w, fl)
  <1> DEFINE h == PadZeros(s, negative, p, w, fl)
             zw == ZeroWidth(w, negative, fl)
             k == Kept(s, negative, base, p, w, fl)
             sign == Sign(negative, fl)
             hashed == IF "#" \notin fl THEN h ELSE HashPrefix(h, base, zw, fl)
  <1>1. NtoaFormat(s, negative, base, p, w, fl) = OutRev(Room(hashed \o sign), w, fl)
    BY DEF NtoaFormat
  <1>2. h \in Seq(Solid) /\ k \in Seq(Solid) /\ (~Full(Len(h), zw, fl) => k = h)
    BY KeptIs
  <1>3. k = SubSeq(h, 1, KeptLen(Len(h), base, zw, fl))
    BY DEF Kept
  <1>4. sign \in Seq(Chars)
    BY SignIs
  <1>5. Room(hashed \o sign) = Room((k \o Prefixed(base, fl)) \o sign)
    <2>1. CASE "#" \notin fl
      <3>1. hashed = h /\ k = h /\ Prefixed(base, fl) = <<>>
        BY <1>2, <2>1 DEF Full, Prefixed
      <3>2. h \o <<>> = h
        BY <1>2, ConcatEmptySeq
      <3> QED
        BY <3>1, <3>2
    <2>2. CASE "#" \in fl
      <3> DEFINE l == Letter(base, fl)
                 zero == <<"0">>
      <3>1. hashed = Room(Room(k \o l) \o zero)
        <4>1. hashed = HashPrefix(h, base, zw, fl)
          BY <2>2
        <4> HIDE DEF h, zw, k, hashed
        <4>2. KeptLen(Len(h), base, zw, fl)
                = IF ~("precision" \notin fl /\ Len(h) > 0 /\ Len(h) = zw) THEN Len(h)
                  ELSE IF base = 16 /\ Len(h) > 1 THEN Len(h) - 2 ELSE Len(h) - 1
          BY <2>2 DEF KeptLen, Full
        <4> QED
          BY <1>3, <4>1, <4>2 DEF HashPrefix
      <3>2. l \in Seq(Solid) /\ zero \in Seq(Solid)
        BY <2>2, PrefixedIs, SolidIs
      <3>3. Prefixed(base, fl) = l \o zero
        BY <2>2 DEF Prefixed
      <3> HIDE DEF k, l, zero, hashed
      <3>4. k \o l \in Seq(Solid)
        BY <1>2, <3>2, ConcatProperties
      <3>5. hashed = Room((k \o l) \o zero)
        BY <3>1, <3>2, <3>4, RoomTwice
      <3>6. (k \o l) \o zero = k \o (l \o zero)
        <4>1. k \in Seq(Solid)
          BY <1>2
        <4> QED
          BY <3>2, <4>1, ConcatAssociative
      <3>7. k \o (l \o zero) \in Seq(Solid)
        BY <3>2, <3>4, <3>6, ConcatProperties
      <3>8. k \o (l \o zero) \in Seq(Chars)
        BY <3>7, SeqMonotonic, SolidIs
      <3>9. Room(Room(k \o (l \o zero)) \o sign) = Room((k \o (l \o zero)) \o sign)
        <4> HIDE DEF sign
        <4> QED
          BY <1>4, <3>8, RoomTwice
      <3> QED
        BY <3>3, <3>5, <3>6, <3>9
    <2> QED
      BY <2>1, <2>2
  <1> QED
    BY <1>1, <1>5 DEF Backwards

(* What has been read of a directive, flag by flag. *)
LEMMA FlagsRead ==
    ASSUME NEW j, FitCall(j)
    PROVE  /\ CFlags(j) \subseteq FlagChars
           /\ \A ch \in FlagChars : ch \in ReadFlags(j) <=> ch \in CFlags(j)
           /\ "precision" \in ReadFlags(j) <=> j.dir.prec # Unset
           /\ "upper" \notin ReadFlags(j)
           /\ "hh" \in ReadFlags(j) <=> j.dir.length = <<"h", "h">>
           /\ "h" \in ReadFlags(j) <=> j.dir.length \in {<<"h", "h">>, <<"h">>}
           /\ "l" \in ReadFlags(j) <=> j.dir.length \notin {<<"h", "h">>, <<"h">>, <<>>}
  <1>1. CFlags(j) \subseteq FlagChars
    <2>1. j.dir.flags \in Seq(FlagChars)
      BY DEF FitCall, FitDir
    <2>2. \A i \in DOMAIN j.dir.flags : j.dir.flags[i] \in FlagChars
      BY <2>1
    <2>3. "-" \in FlagChars
      BY DEF FlagChars
    <2> QED
      BY <2>2, <2>3 DEF CFlags
  <1>2. \A ch \in FlagChars : ch \in {"0", "-", "+", " ", "#"}
    BY DEF FlagChars
  <1>3. /\ "precision" \notin FlagChars /\ "upper" \notin FlagChars /\ "hh" \notin FlagChars
        /\ "h" \notin FlagChars /\ "l" \notin FlagChars
    BY DEF FlagChars
  <1>4. LengthFlags(j.dir) \subseteq {"h", "hh", "l"}
    BY DEF LengthFlags
  <1>5. \A ch : ch \in ReadFlags(j) <=>
            \/ ch \in CFlags(j)
            \/ ch = "precision" /\ j.dir.prec # Unset
            \/ ch \in LengthFlags(j.dir)
    BY DEF ReadFlags, PrecFlags
  <1>6. /\ <<>> # <<"h">> /\ <<>> # <<"h", "h">> /\ <<"h">> # <<"h", "h">>
    OBVIOUS
  <1>7. /\ "hh" \in LengthFlags(j.dir) <=> j.dir.length = <<"h", "h">>
        /\ "h" \in LengthFlags(j.dir) <=> j.dir.length \in {<<"h", "h">>, <<"h">>}
        /\ "l" \in LengthFlags(j.dir) <=> j.dir.length \notin {<<"h", "h">>, <<"h">>, <<>>}
    <2>1. CASE j.dir.length = <<>>
      BY <1>6, <2>1 DEF LengthFlags
    <2>2. CASE j.dir.length = <<"h", "h">>
      BY <1>6, <2>2 DEF LengthFlags
    <2>3. CASE j.dir.length = <<"h">>
      BY <1>6, <2>3 DEF LengthFlags
    <2>4. CASE j.dir.length \notin {<<>>, <<"h", "h">>, <<"h">>}
      BY <2>4 DEF LengthFlags
    <2> QED
      BY <2>1, <2>2, <2>3, <2>4
  <1>8. \A ch \in FlagChars : ch \in ReadFlags(j) <=> ch \in CFlags(j)
    BY <1>2, <1>4, <1>5
  <1>9. "precision" \in ReadFlags(j) <=> j.dir.prec # Unset
    BY <1>1, <1>3, <1>4, <1>5
  <1>10. "upper" \notin ReadFlags(j)
    BY <1>1, <1>3, <1>4, <1>5
  <1>11. "hh" \in ReadFlags(j) <=> j.dir.length = <<"h", "h">>
    BY <1>1, <1>3, <1>5, <1>7
  <1>12. "h" \in ReadFlags(j) <=> j.dir.length \in {<<"h", "h">>, <<"h">>}
    BY <1>1, <1>3, <1>5, <1>7
  <1>13. "l" \in ReadFlags(j) <=> j.dir.length \notin {<<"h", "h">>, <<"h">>, <<>>}
    BY <1>1, <1>3, <1>5, <1>7
  <1> QED
    BY <1>1, <1>8, <1>9, <1>10, <1>11, <1>12, <1>13

(* The length hh asks for a char. *)
Char(j) == j.dir.length = <<"h", "h">>

(* The number that the code prints is the argument converted to the type   *)
(* of its length, except that char is unsigned.                            *)
LEMMA ValuesAgree ==
    ASSUME NEW j, FitCall(j)
    PROVE  /\ CValue(j) \in Int /\ CMagnitude(j) \in Nat
           /\ CMagnitude(j) = IF CValue(j) < 0 THEN -CValue(j) ELSE CValue(j)
           /\ ~CSigned(j) => CValue(j) >= 0
           /\ ~CSigned(j) => Unsigned(j.n, ReadFlags(j)) = CValue(j)
           /\ CSigned(j) /\ ~(Char(j) /\ CValue(j) < 0) =>
                 SignedArg(j.n, ReadFlags(j)) = CValue(j)
           /\ Char(j) => SignedArg(j.n, ReadFlags(j)) \in Nat
  <1> DEFINE m == CModulus(j)
             u == j.n % m
             fl == ReadFlags(j)
  <1>1. m \in Nat \ {0} /\ j.n \in Int
    BY TypeSizesAssumption DEF CModulus, FitCall, GoodCall
  <1>2. u \in Nat /\ u < m
    <2> HIDE DEF m
    <2> QED
      BY <1>1
  <1>3. Modulus(fl) = m
    <2>1. /\ "hh" \in fl <=> j.dir.length = <<"h", "h">>
          /\ "h" \in fl <=> j.dir.length \in {<<"h", "h">>, <<"h">>}
          /\ "l" \in fl <=> j.dir.length \notin {<<"h", "h">>, <<"h">>, <<>>}
      BY FlagsRead
    <2>2. <<>> # <<"h">> /\ <<>> # <<"h", "h">> /\ <<"h">> # <<"h", "h">>
      OBVIOUS
    <2> HIDE DEF fl
    <2>3. CASE j.dir.length = <<"h", "h">>
      <3>1. CModulus(j) = 256
        BY <2>3 DEF CModulus
      <3> QED
        BY <2>1, <2>3, <3>1 DEF Modulus
    <2>4. CASE j.dir.length = <<"h">>
      <3>1. CModulus(j) = 65536
        BY <2>2, <2>4 DEF CModulus
      <3>2. "hh" \notin fl /\ "h" \in fl
        BY <2>1, <2>2, <2>4
      <3> QED
        BY <3>1, <3>2 DEF Modulus
    <2>5. CASE j.dir.length = <<>>
      <3>1. CModulus(j) = IntMod
        BY <2>2, <2>5 DEF CModulus
      <3>2. "hh" \notin fl /\ "h" \notin fl /\ "l" \notin fl
        BY <2>1, <2>2, <2>5
      <3> QED
        BY <3>1, <3>2 DEF Modulus
    <2>6. CASE j.dir.length \notin {<<"h", "h">>, <<"h">>, <<>>}
      <3>1. CModulus(j) = LongMod
        <4>1. /\ j.dir.length # <<"h", "h">> /\ j.dir.length # <<"h">>
              /\ j.dir.length # <<>>
          BY <2>6
        <4> QED
          BY <4>1 DEF CModulus
      <3>2. "hh" \notin fl /\ "h" \notin fl /\ "l" \in fl
        BY <2>1, <2>6
      <3> QED
        BY <3>1, <3>2 DEF Modulus
    <2> QED
      BY <2>3, <2>4, <2>5, <2>6
  <1>4. CValue(j) = IF CSigned(j) /\ 2 * u >= m THEN u - m ELSE u
    BY DEF CValue
  <1>5. Unsigned(j.n, fl) = u
    BY <1>3 DEF Unsigned
  <1>6. Char(j) <=> "hh" \in fl
    BY FlagsRead DEF Char
  <1>7. SignedArg(j.n, fl) = IF "hh" \in fl \/ 2 * u < m THEN u ELSE u - m
    BY <1>3, <1>5 DEF SignedArg
  <1> HIDE DEF u, m, fl
  <1>8. CValue(j) \in Int
    BY <1>1, <1>2, <1>4
  <1>9. CMagnitude(j) \in Nat /\ CMagnitude(j) = IF CValue(j) < 0 THEN -CValue(j) ELSE CValue(j)
    BY <1>8 DEF CMagnitude
  <1>10. ~CSigned(j) => CValue(j) = u /\ CValue(j) >= 0
    BY <1>2, <1>4
  <1>11. ASSUME CSigned(j), ~(Char(j) /\ CValue(j) < 0) PROVE SignedArg(j.n, fl) = CValue(j)
    <2>1. CASE 2 * u >= m
      <3>1. CValue(j) = u - m /\ CValue(j) < 0
        BY <1>1, <1>2, <1>4, <1>11, <2>1
      <3> QED
        BY <1>1, <1>2, <1>6, <1>7, <1>11, <2>1, <3>1
    <2>2. CASE ~(2 * u >= m)
      BY <1>1, <1>2, <1>4, <1>7, <2>2
    <2> QED
      BY <2>1, <2>2
  <1>12. Char(j) => SignedArg(j.n, fl) \in Nat
    BY <1>2, <1>6, <1>7
  <1> QED
    BY <1>5, <1>8, <1>9, <1>10, <1>11, <1>12 DEF fl

(* The digits of an integer, the last one first. *)
Alphabet(j) == IF j.dir.conv = "X" THEN Upper ELSE Lower
Figures(j) == IF CValue(j) = 0 /\ CPrec(j) = 0 THEN <<>>
              ELSE Reversed(CMagnitude(j), Base(j.dir.conv), Alphabet(j))

(* Digits are neither blanks nor signs, and those of 0 are a zero. *)
LEMMA SolidDigits ==
    ASSUME NEW base \in {8, 10, 16}, NEW v \in Nat
    PROVE  /\ Reversed(v, base, Lower) \in Seq(Solid) \ {<<>>}
           /\ Reversed(v, base, Upper) \in Seq(Solid) \ {<<>>}
           /\ v = 0 => Reversed(v, base, Lower) = <<"0">>
           /\ v = 0 => Reversed(v, base, Upper) = <<"0">>
           /\ base = 8 /\ v # 0 => Reversed(v, base, Lower) # <<"0">>
  <1> DEFINE low == <<"a", "b", "c", "d", "e", "f">>
             up == <<"A", "B", "C", "D", "E", "F">>
  <1>1. DigitChars \in Seq(Solid) /\ Len(DigitChars) = 10 /\ DigitChars[1] = "0"
    BY DEF DigitChars, Solid, Chars, Known
  <1>2. low \in Seq(Solid) /\ Len(low) = 6 /\ up \in Seq(Solid) /\ Len(up) = 6
    BY DEF Solid, Chars, Known
  <1>3. \A k \in 2 .. 8 : DigitChars[k] # "0"
    BY DEF DigitChars
  <1>4. Lower = DigitChars \o low /\ Upper = DigitChars \o up
    BY DEF Lower, Upper
  <1> HIDE DEF low, up, DigitChars, Lower, Upper
  <1>5. ASSUME NEW s \in Seq(Solid), NEW t \in Seq(Solid), Len(s) = 10, Len(t) = 6
        PROVE  /\ \A k \in 1 .. 16 : (s \o t)[k] \in Solid
               /\ \A k \in 1 .. 10 : (s \o t)[k] = s[k]
    <2>1. /\ s \o t \in Seq(Solid) /\ Len(s \o t) = Len(s) + Len(t)
          /\ \A i \in 1 .. Len(s) + Len(t) :
                (s \o t)[i] = IF i <= Len(s) THEN s[i] ELSE t[i - Len(s)]
      BY ConcatProperties
    <2>2. Len(s \o t) = 16
      BY <1>5, <2>1
    <2>3. \A i \in 1 .. 10 : (s \o t)[i] = s[i]
      <3> TAKE i \in 1 .. 10
      <3>1. i \in 1 .. Len(s) + Len(t) /\ i <= Len(s)
        BY <1>5
      <3> QED
        BY <2>1, <3>1
    <2> QED
      BY <2>1, <2>2, <2>3, ElementOfSeq
  <1>6. \A k \in 1 .. 16 : Lower[k] \in Solid /\ Upper[k] \in Solid
    BY <1>1, <1>2, <1>4, <1>5
  <1>7. \A k \in 1 .. 10 : Lower[k] = DigitChars[k] /\ Upper[k] = DigitChars[k]
    BY <1>1, <1>2, <1>4, <1>5
  <1>8. /\ base \in Nat \ {0, 1}
        /\ \A k \in 1 .. base : Lower[k] \in Solid
        /\ \A k \in 1 .. base : Upper[k] \in Solid
    BY <1>6
  <1> DEFINE Next1(a) == IF v \div base = 0 THEN <<>> ELSE Reversed(v \div base, base, a)
  <1>9. /\ Reversed(v, base, Lower) = <<Lower[(v % base) + 1]>> \o Next1(Lower)
        /\ \A x \in Nat : Reversed(x, base, Lower) \in Seq(Solid) \ {<<>>}
    <2>1. \A x \in Nat :
              /\ Reversed(x, base, Lower) \in Seq(Solid) \ {<<>>}
              /\ Reversed(x, base, Lower) = <<Lower[(x % base) + 1]>>
                    \o IF x \div base = 0 THEN <<>> ELSE Reversed(x \div base, base, Lower)
      BY <1>8, ReversedIs
    <2> QED
      BY <2>1
  <1>10. /\ Reversed(v, base, Upper) = <<Upper[(v % base) + 1]>> \o Next1(Upper)
         /\ Reversed(v, base, Upper) \in Seq(Solid) \ {<<>>}
    <2>1. \A x \in Nat :
              /\ Reversed(x, base, Upper) \in Seq(Solid) \ {<<>>}
              /\ Reversed(x, base, Upper) = <<Upper[(x % base) + 1]>>
                    \o IF x \div base = 0 THEN <<>> ELSE Reversed(x \div base, base, Upper)
      BY <1>8, ReversedIs
    <2> QED
      BY <2>1
  <1>11. <<"0">> \o <<>> = <<"0">>
    <2>1. <<"0">> \in Seq(Solid)
      BY SolidIs, OneChar
    <2> QED
      BY <2>1, ConcatEmptySeq
  <1>12. ASSUME v = 0
         PROVE  Reversed(v, base, Lower) = <<"0">> /\ Reversed(v, base, Upper) = <<"0">>
    <2>1. v % base = 0 /\ v \div base = 0
      BY <1>12
    <2>2. Lower[1] = "0" /\ Upper[1] = "0"
      BY <1>1, <1>7
    <2> QED
      BY <1>9, <1>10, <1>11, <2>1, <2>2
  <1>13. ASSUME base = 8, v # 0 PROVE Reversed(v, base, Lower) # <<"0">>
    <2>1. v % 8 \in 0 .. 7 /\ v \div 8 \in Nat /\ v = 8 * (v \div 8) + (v % 8)
      OBVIOUS
    <2> DEFINE ch == Lower[(v % base) + 1]
    <2>2. ch \in Solid
      <3>1. (v % base) + 1 \in 1 .. 16
        BY <1>13, <2>1
      <3> QED
        BY <1>6, <3>1
    <2>3. CASE v \div base = 0
      <3>1. (v % base) + 1 \in 2 .. 8 /\ (v % base) + 1 \in 1 .. 10
        BY <1>13, <2>1, <2>3
      <3>2. ch # "0"
        BY <1>3, <1>7, <3>1
      <3>3. Reversed(v, base, Lower) = <<ch>> \o <<>>
        BY <1>9, <2>3
      <3> HIDE DEF ch
      <3>4. <<ch>> \in Seq(Solid) /\ <<ch>> # <<"0">>
        BY <2>2, <3>2
      <3> QED
        BY <3>3, <3>4, ConcatEmptySeq
    <2>4. CASE v \div base # 0
      <3> DEFINE t == Reversed(v \div base, base, Lower)
      <3>1. t \in Seq(Solid) /\ t # <<>>
        BY <1>9, <1>13, <2>1
      <3>2. Reversed(v, base, Lower) = <<ch>> \o t
        BY <1>9, <2>4
      <3> HIDE DEF ch, t
      <3>3. <<ch>> \in Seq(Solid) /\ Len(<<ch>>) = 1
        BY <2>2
      <3>4. Len(<<ch>> \o t) = 1 + Len(t)
        BY <3>1, <3>3, ConcatProperties
      <3>5. Len(t) \in Nat \ {0}
        BY <3>1, EmptySeq
      <3>6. Len(<<"0">>) = 1
        OBVIOUS
      <3> QED
        BY <3>2, <3>4, <3>5, <3>6
    <2> QED
      BY <2>3, <2>4
  <1> QED
    BY <1>9, <1>10, <1>12, <1>13

(* The standard's text of an integer, back to front: zeros that fill the   *)
(* field are digits of the number.                                         *)
IntegerConvs == {"d", "i", "u", "x", "X", "o"}
CFill(j) == IF CZeroFlag(j)
            THEN Larger(0, CWidth(j) - Len(CSign(j) \o CPrefix(j)) - Len(Figures(j)))
            ELSE CZeros(j)
CBackwards(j) == Padded(Figures(j), CFill(j)) \o Reverse(CSign(j) \o CPrefix(j))

(* The bases of the conversions, and the digits that C and the code share. *)
LEMMA FiguresAre ==
    ASSUME NEW j, FitCall(j), j.dir.conv \in IntegerConvs
    PROVE  /\ Base(j.dir.conv) \in {8, 10, 16}
           /\ Base(j.dir.conv) = 16 <=> j.dir.conv \in {"x", "X"}
           /\ Base(j.dir.conv) = 8 <=> j.dir.conv = "o"
           /\ CSigned(j) => Base(j.dir.conv) = 10
           /\ Reversed(CMagnitude(j), Base(j.dir.conv), Alphabet(j)) \in Seq(Solid) \ {<<>>}
           /\ Figures(j) \in Seq(Solid) /\ CDigits(j) = Reverse(Figures(j))
           /\ Len(CDigits(j)) = Len(Figures(j)) /\ Len(Figures(j)) \in Nat
           /\ Figures(j) = <<>> <=> CValue(j) = 0 /\ CPrec(j) = 0
           /\ CValue(j) = 0 /\ CPrec(j) # 0 => Figures(j) = <<"0">>
           /\ j.dir.conv = "o" /\ CValue(j) # 0 => Figures(j) # <<"0">>
           /\ CZeros(j) = Larger(0, CPrec(j) - Len(Figures(j))) /\ CZeros(j) \in Nat
           /\ CPrec(j) = Unset => CZeros(j) = 0
  <1> DEFINE base == Base(j.dir.conv)
             r == Reversed(CMagnitude(j), base, Alphabet(j))
             f == Figures(j)
  <1>1. base \in {8, 10, 16} /\ (base = 16 <=> j.dir.conv \in {"x", "X"})
        /\ (base = 8 <=> j.dir.conv = "o") /\ (CSigned(j) => base = 10)
    <2>1. j.dir.conv = "d" \/ j.dir.conv = "i" \/ j.dir.conv = "u" \/ j.dir.conv = "x"
            \/ j.dir.conv = "X" \/ j.dir.conv = "o"
      BY DEF IntegerConvs
    <2> QED
      BY <2>1 DEF Base, CSigned
  <1>2. /\ CMagnitude(j) \in Nat /\ CValue(j) \in Int
        /\ CMagnitude(j) = IF CValue(j) < 0 THEN -CValue(j) ELSE CValue(j)
    BY ValuesAgree
  <1>3. CMagnitude(j) = 0 <=> CValue(j) = 0
    BY <1>2
  <1>4. Alphabet(j) = Lower \/ Alphabet(j) = Upper
    BY DEF Alphabet
  <1>5. j.dir.conv = "o" => Alphabet(j) = Lower
    BY DEF Alphabet
  <1> HIDE DEF base
  <1>6. r \in Seq(Solid) \ {<<>>} /\ (CMagnitude(j) = 0 => r = <<"0">>)
    BY <1>1, <1>2, <1>4, SolidDigits
  <1>7. base = 8 /\ Alphabet(j) = Lower /\ CMagnitude(j) # 0 => r # <<"0">>
    BY <1>1, <1>2, SolidDigits
  <1>8. f = IF CValue(j) = 0 /\ CPrec(j) = 0 THEN <<>> ELSE r
    BY DEF Figures, base
  <1>9. CDigits(j) = Reverse(f)
    <2>1. Reverse(<<>>) = <<>>
      BY DEF Reverse
    <2>2. CDigits(j) = IF CValue(j) = 0 /\ CPrec(j) = 0 THEN <<>> ELSE Reverse(r)
      BY DEF CDigits, Alphabet, base
    <2> HIDE DEF r, f
    <2> QED
      BY <1>8, <2>1, <2>2
  <1> HIDE DEF r, f
  <1>10. f \in Seq(Solid) /\ (f = <<>> <=> CValue(j) = 0 /\ CPrec(j) = 0)
    BY <1>6, <1>8, EmptySeq
  <1>11. CValue(j) = 0 /\ CPrec(j) # 0 => f = <<"0">>
    BY <1>3, <1>6, <1>8
  <1>12. j.dir.conv = "o" /\ CValue(j) # 0 => f # <<"0">>
    BY <1>1, <1>3, <1>5, <1>7, <1>8
  <1>13. Len(CDigits(j)) = Len(f) /\ Len(f) \in Nat
    BY <1>9, <1>10, ReverseIs, LenProperties
  <1>14. CPrec(j) \in Nat \union {-1}
    BY StarsAre DEF Unset
  <1>15. CZeros(j) = Larger(0, CPrec(j) - Len(f)) /\ CZeros(j) \in Nat
    BY <1>13, <1>14 DEF CZeros, Larger
  <1>16. CPrec(j) = Unset => CZeros(j) = 0
    BY <1>13, <1>15 DEF Unset, Larger
  <1> QED
    BY <1>1, <1>6, <1>9, <1>10, <1>11, <1>12, <1>13, <1>15, <1>16 DEF base, r, f

(* When the standard and the code ask for a prefix. *)
Hashed(j) == "#" \in CFlags(j) /\ CValue(j) # 0 /\ Base(j.dir.conv) # 10
Bare(j) == "#" \in CFlags(j) /\ j.dir.conv = "o" /\ CDigits(j) = <<>>

(* The prefix that the standard asks for, back to front. *)
LEMMA CPrefixIs ==
    ASSUME NEW j, FitCall(j), j.dir.conv \in IntegerConvs
    PROVE  LET r == Reverse(CPrefix(j))
           IN  /\ CPrefix(j) \in Seq(Solid) /\ r \in Seq(Solid)
               /\ Bare(j) => r = <<"0">> /\ ~Hashed(j) /\ Figures(j) = <<>> /\ CPrec(j) = 0
               /\ ~Bare(j) /\ ~Hashed(j) => r = <<>>
               /\ Hashed(j) /\ j.dir.conv = "o" /\ CZeros(j) > 0 => r = <<>>
               /\ Hashed(j) /\ j.dir.conv = "o" /\ CZeros(j) = 0 => r = <<"0">>
               /\ Hashed(j) /\ j.dir.conv = "X" => r = <<"X", "0">>
               /\ Hashed(j) /\ j.dir.conv = "x" => r = <<"x", "0">>
  <1> DEFINE pre == CPrefix(j)
             r == Reverse(pre)
  <1>1. \A x : Reverse(<<x>>) = <<x>>
    BY DEF Reverse
  <1>2. Reverse(<<>>) = <<>> /\ <<>> \in Seq(Solid) /\ <<"0">> \in Seq(Solid)
    BY SolidIs DEF Reverse
  <1>3. /\ Reverse(<<"0", "X">>) = <<"X", "0">> /\ Reverse(<<"0", "x">>) = <<"x", "0">>
    <2>1. \A a, b \in Chars : Reverse(<<a, b>>) = <<b, a>>
      BY TwoOfBoth
    <2> QED
      BY <2>1, KnownAre
  <1>4. <<"0", "X">> \in Seq(Solid) /\ <<"0", "x">> \in Seq(Solid)
    BY SolidIs
  <1>5. /\ Figures(j) \in Seq(Solid) /\ CDigits(j) = Reverse(Figures(j)) /\ CZeros(j) \in Nat
        /\ Figures(j) = <<>> <=> CValue(j) = 0 /\ CPrec(j) = 0
        /\ CValue(j) = 0 /\ CPrec(j) # 0 => Figures(j) = <<"0">>
        /\ j.dir.conv = "o" /\ CValue(j) # 0 => Figures(j) # <<"0">>
    BY FiguresAre
  <1>6. Reverse(CDigits(j)) = Figures(j)
    BY <1>5, ReverseTwice
  <1>7. /\ CDigits(j) = <<>> <=> Figures(j) = <<>>
        /\ CDigits(j) = <<"0">> <=> Figures(j) = <<"0">>
    BY <1>1, <1>2, <1>5, <1>6
  <1>8. pre = IF "#" \notin CFlags(j) THEN <<>>
              ELSE IF j.dir.conv \in {"x", "X"} /\ CValue(j) # 0 THEN <<"0", j.dir.conv>>
              ELSE IF j.dir.conv = "o" /\ CZeros(j) = 0 /\ CDigits(j) # <<"0">> THEN <<"0">>
              ELSE <<>>
    <2>1. j.dir.conv # "b"
      BY DEF IntegerConvs
    <2>2. j.dir.conv = "o" => j.dir.conv \notin {"x", "X", "b"}
      OBVIOUS
    <2> QED
      BY <2>1, <2>2 DEF CPrefix
  <1>9. /\ Base(j.dir.conv) = 10 <=> j.dir.conv \notin {"x", "X", "o"}
    BY FiguresAre DEF IntegerConvs
  <1>10. /\ Hashed(j) <=> "#" \in CFlags(j) /\ CValue(j) # 0 /\ j.dir.conv \in {"x", "X", "o"}
         /\ Bare(j) <=> "#" \in CFlags(j) /\ j.dir.conv = "o" /\ Figures(j) = <<>>
    BY <1>7, <1>9 DEF Hashed, Bare
  <1> HIDE DEF pre
  <1>11. CASE Hashed(j) /\ j.dir.conv = "X"
    <2>1. pre = <<"0", "X">>
      BY <1>8, <1>10, <1>11
    <2> QED
      BY <1>3, <1>4, <1>10, <1>11, <2>1, ReverseIs DEF pre
  <1>12. CASE Hashed(j) /\ j.dir.conv = "x"
    <2>1. pre = <<"0", "x">>
      BY <1>8, <1>10, <1>12
    <2> QED
      BY <1>3, <1>4, <1>10, <1>12, <2>1, ReverseIs DEF pre
  <1>13. CASE Hashed(j) /\ j.dir.conv = "o"
    <2>1. CDigits(j) # <<"0">>
      BY <1>5, <1>7, <1>10, <1>13
    <2>2. pre = IF CZeros(j) = 0 THEN <<"0">> ELSE <<>>
      BY <1>8, <1>10, <1>13, <2>1
    <2>3. ~Bare(j)
      BY <1>5, <1>10, <1>13
    <2>4. CZeros(j) \in Nat
      BY <1>5
    <2>5. CASE CZeros(j) = 0
      <3>1. CPrefix(j) = <<"0">>
        BY <2>2, <2>5 DEF pre
      <3>2. Reverse(CPrefix(j)) = <<"0">>
        BY <1>1, <3>1
      <3>3. CPrefix(j) \in Seq(Solid) /\ Reverse(CPrefix(j)) \in Seq(Solid)
        BY <1>2, <3>1, <3>2
      <3>4. Hashed(j) /\ ~Bare(j) /\ j.dir.conv # "X" /\ j.dir.conv # "x"
        BY <1>13, <2>3
      <3> QED
        BY <1>13, <2>5, <3>2, <3>3, <3>4
    <2>6. CASE CZeros(j) > 0
      <3>1. CPrefix(j) = <<>>
        BY <2>2, <2>6 DEF pre
      <3>2. Reverse(CPrefix(j)) = <<>>
        BY <1>2, <3>1
      <3>3. CPrefix(j) \in Seq(Solid) /\ Reverse(CPrefix(j)) \in Seq(Solid)
        BY <1>2, <3>1, <3>2
      <3>4. Hashed(j) /\ ~Bare(j) /\ j.dir.conv # "X" /\ j.dir.conv # "x"
        BY <1>13, <2>3
      <3> QED
        BY <1>13, <2>6, <3>2, <3>3, <3>4
    <2> QED
      BY <2>4, <2>5, <2>6
  <1>14. CASE Bare(j)
    <2>1. CValue(j) = 0 /\ CPrec(j) = 0 /\ Figures(j) = <<>> /\ CDigits(j) = <<>> /\ ~Hashed(j)
      BY <1>5, <1>7, <1>10, <1>14
    <2>2. CZeros(j) = 0
      <3>1. CZeros(j) = Larger(0, CPrec(j) - Len(Figures(j)))
        BY FiguresAre
      <3>2. Len(Figures(j)) = 0 /\ CPrec(j) = 0
        BY <2>1, EmptySeq
      <3>3. Larger(0, 0 - 0) = 0
        BY DEF Larger
      <3> QED
        BY <3>1, <3>2, <3>3
    <2>3. pre = <<"0">>
      <3>1. <<>> # <<"0">>
        OBVIOUS
      <3> QED
        BY <1>8, <1>10, <1>14, <2>1, <2>2, <3>1
    <2> QED
      BY <1>1, <1>2, <1>14, <2>1, <2>3 DEF pre
  <1>15. CASE ~Hashed(j) /\ ~Bare(j)
    <2>1. pre = <<>>
      <3>1. CASE "#" \notin CFlags(j)
        BY <1>8, <3>1
      <3>2. CASE "#" \in CFlags(j) /\ j.dir.conv \in {"x", "X"}
        BY <1>8, <1>10, <1>15, <3>2
      <3>3. CASE "#" \in CFlags(j) /\ j.dir.conv = "o"
        <4>1. CValue(j) = 0 /\ Figures(j) # <<>>
          BY <1>10, <1>15, <3>3
        <4>2. CDigits(j) = <<"0">>
          BY <1>5, <1>7, <4>1
        <4> QED
          BY <1>8, <3>3, <4>2
      <3>4. CASE "#" \in CFlags(j) /\ j.dir.conv \notin {"x", "X", "o"}
        BY <1>8, <3>4
      <3> QED
        BY <3>1, <3>2, <3>3, <3>4
    <2> QED
      BY <1>2, <1>15, <2>1 DEF pre
  <1>16. Hashed(j) => j.dir.conv \in {"x", "X", "o"}
    BY <1>10
  <1> QED
    BY <1>11, <1>12, <1>13, <1>14, <1>15, <1>16

(* The standard's text of an integer, back to front and placed. *)
LEMMA CIntegerIs ==
    ASSUME NEW j, FitCall(j), j.dir.conv \in IntegerConvs
    PROVE  /\ CFill(j) \in Nat /\ CBackwards(j) \in Seq(Chars)
           /\ CSign(j) \in Seq(Chars)
           /\ Len(CSign(j) \o CPrefix(j)) = Len(CSign(j)) + Len(Reverse(CPrefix(j)))
           /\ Len(CBackwards(j)) = Len(Figures(j)) + CFill(j) + Len(CSign(j) \o CPrefix(j))
           /\ CInteger(j) = Placed("-" \in CFlags(j), CWidth(j) - Len(CBackwards(j)),
                                   Reverse(CBackwards(j)))
           /\ Reverse(CSign(j) \o CPrefix(j)) = Reverse(CPrefix(j)) \o CSign(j)
  <1> DEFINE f == Figures(j)
             sign == CSign(j) \o CPrefix(j)
             z == CZeros(j)
             zeros == CZeroFlag(j)
             n == IF zeros THEN Larger(0, CWidth(j) - Len(sign) - Len(f)) ELSE z
             y == Padded(f, n) \o Reverse(sign)
  <1>1. f \in Seq(Solid) /\ z \in Nat /\ CDigits(j) = Reverse(f)
    BY FiguresAre
  <1>2. CPrefix(j) \in Seq(Chars)
    BY CPrefixIs, SolidIs, SeqMonotonic
  <1>3. CSign(j) \in Seq(Chars) /\ Reverse(CSign(j)) = CSign(j)
    <2>1. CASE CSigned(j)
      BY <2>1, SignAre DEF CSign
    <2>2. CASE ~CSigned(j)
      <3>1. <<>> \in Seq(Chars) /\ Reverse(<<>>) = <<>>
        BY DEF Reverse
      <3> QED
        BY <2>2, <3>1 DEF CSign
    <2> QED
      BY <2>1, <2>2
  <1>4. sign \in Seq(Chars) /\ Len(sign) = Len(CSign(j)) + Len(CPrefix(j))
    BY <1>2, <1>3, ConcatProperties
  <1>5. Reverse(sign) = Reverse(CPrefix(j)) \o CSign(j)
    BY <1>2, <1>3, ReverseOfTwo
  <1>6. Len(Reverse(CPrefix(j))) = Len(CPrefix(j))
    BY <1>2, ReverseIs
  <1>7. zeros \in BOOLEAN /\ (zeros => z = 0 /\ "-" \notin CFlags(j))
    <2>1. CPrec(j) = Unset => z = 0
      BY FiguresAre
    <2> QED
      BY <2>1 DEF CZeroFlag
  <1>8. CFill(j) = n /\ CBackwards(j) = y
    BY DEF CFill, CBackwards
  <1>9. CInteger(j) = CJustified(j, sign, Times("0", z) \o Reverse(f), zeros)
    BY <1>1 DEF CInteger
  <1> HIDE DEF f, sign, z, zeros
  <1>10. zeros => z = 0 /\ "-" \notin CFlags(j)
    BY <1>7
  <1>11. zeros \in BOOLEAN
    BY <1>7
  <1>12. sign \in Seq(Chars)
    BY <1>4
  <1>13. f \in Seq(Solid)
    BY <1>1
  <1>14. z \in Nat
    BY <1>1
  <1>15. /\ n \in Nat /\ y \in Seq(Chars)
         /\ Len(y) = Len(f) + n + Len(sign)
         /\ CJustified(j, sign, Times("0", z) \o Reverse(f), zeros)
              = Placed("-" \in CFlags(j), CWidth(j) - Len(y), Reverse(y))
    <2> DEFINE w == CWidth(j)
               rs == Reverse(sign)
               rf == Reverse(f)
               p == Padded(f, n)
               body == Times("0", z) \o rf
               left == "-" \in CFlags(j)
               C == CJustified(j, sign, body, zeros)
               pad == Times("0", n)
               lead == w - Len(sign) - Len(body)
               blanks == Blanks(lead)
    <2> USE <1>10, <1>11, <1>12, <1>13, <1>14
    <2> SUFFICES /\ n \in Nat /\ y \in Seq(Chars)
                 /\ Len(y) = Len(f) + n + Len(sign)
                 /\ C = Placed(left, w - Len(y), Reverse(y))
      OBVIOUS
    <2>1. w \in Nat /\ Len(sign) \in Nat /\ Len(f) \in Nat
      BY StarsAre, LenProperties
    <2>2. n \in Nat
      BY <2>1 DEF Larger
    <2>3. zeros => z = 0 /\ ~left
      OBVIOUS
    <2>4. zeros => n = Larger(0, w - Len(sign) - Len(f))
      OBVIOUS
    <2>5. ~zeros => n = z
      OBVIOUS
    <2> HIDE DEF w, n
    <2>6. rs \in Seq(Chars) /\ Len(rs) = Len(sign) /\ Reverse(rs) = sign
      BY ReverseIs, ReverseTwice
    <2>7. p \in Seq(Solid) /\ Len(p) = Len(f) + n
      BY <2>2, PaddedIs
    <2>8. rf \in Seq(Solid) /\ Len(rf) = Len(f)
      BY ReverseIs
    <2>9. /\ pad \in Seq(Solid) /\ Len(pad) = n /\ Reverse(pad) = pad
          /\ Times("0", z) \in Seq(Solid) /\ Len(Times("0", z)) = z
      BY <2>2, SolidIs, TimesIs, ReverseOfTimes
    <2>10. Reverse(p) = pad \o rf
      BY <2>9, ReverseOfTwo DEF Padded
    <2> HIDE DEF rs, rf, p, pad
    <2>11. /\ p \in Seq(Chars) /\ rf \in Seq(Chars) /\ pad \in Seq(Chars)
           /\ Times("0", z) \in Seq(Chars)
      BY <2>7, <2>8, <2>9, SolidIs, SeqMonotonic
    <2>12. y \in Seq(Chars) /\ Len(y) = Len(f) + n + Len(sign)
      <3>1. y \in Seq(Chars) /\ Len(y) = Len(p) + Len(rs)
        <4>1. y = p \o rs
          BY DEF p, rs
        <4>2. p \in Seq(Chars) /\ rs \in Seq(Chars)
          BY <2>6, <2>11
        <4> QED
          BY ONLY <4>1, <4>2, ConcatProperties
      <3> HIDE DEF y
      <3> QED
        BY <2>1, <2>2, <2>6, <2>7, <3>1
    <2>13. Reverse(y) = sign \o (pad \o rf)
      <3>1. y = p \o rs
        BY DEF p, rs
      <3>2. p \in Seq(Chars) /\ rs \in Seq(Chars)
        BY <2>6, <2>11
      <3>3. Reverse(p \o rs) = Reverse(rs) \o Reverse(p)
        BY ONLY <3>2, ReverseOfTwo
      <3> QED
        BY <2>6, <2>10, <3>1, <3>3
    <2>14. body \in Seq(Chars) /\ Len(body) = z + Len(f)
      <3>1. body \in Seq(Chars) /\ Len(body) = Len(Times("0", z)) + Len(rf)
        BY <2>11, ConcatProperties
      <3> HIDE DEF body
      <3> QED
        BY <2>8, <2>9, <3>1
    <2>15. C = IF left THEN (sign \o body) \o Times(" ", Larger(0, lead))
               ELSE IF zeros THEN (sign \o Times("0", Larger(0, lead))) \o body
               ELSE (Times(" ", Larger(0, lead)) \o sign) \o body
      BY DEF CJustified, w
    <2> HIDE DEF y, body, C, left
    <2>16. CASE ~zeros
      <3>1. n = z
        BY <2>5, <2>16
      <3>2. pad \o rf = body
        BY <3>1 DEF pad, body
      <3>3. Len(y) = Len(sign) + Len(body)
        BY <2>1, <2>2, <2>12, <2>14, <3>1
      <3>4. lead = w - Len(y) /\ lead \in Int
        BY <2>1, <2>2, <2>12, <2>14, <3>1, <3>3
      <3>5. C = IF left THEN (sign \o body) \o blanks ELSE (blanks \o sign) \o body
        BY <2>15, <2>16 DEF Blanks
      <3> HIDE DEF lead
      <3>6. blanks \in Seq(Chars)
        BY <3>4, BlanksAre
      <3>7. (blanks \o sign) \o body = blanks \o (sign \o body)
        <4>1. body \in Seq(Chars)
          BY <2>14
        <4> QED
          BY ONLY <1>12, <3>6, <4>1, ConcatAssociative
      <3>8. Reverse(y) = sign \o body
        BY <2>13, <3>2
      <3>9. C = Placed(left, lead, Reverse(y))
        BY <3>5, <3>7, <3>8 DEF Placed
      <3> QED
        BY <2>2, <2>12, <3>4, <3>9
    <2>17. CASE zeros
      <3>1. z = 0 /\ ~left /\ Len(body) = Len(f)
        BY <2>1, <2>3, <2>14, <2>17
      <3>2. n = Larger(0, lead)
        BY <2>4, <2>17, <3>1
      <3>3. body = rf
        <4>1. Times("0", z) = <<>>
          BY <2>9, <3>1, EmptySeq
        <4> QED
          BY <2>8, <4>1, ConcatEmptySeq DEF body
      <3>4. C = (sign \o pad) \o rf
        BY <2>15, <2>17, <3>1, <3>2, <3>3 DEF pad
      <3>5. C = Reverse(y)
        <4>1. pad \in Seq(Chars)
          BY <2>11
        <4>2. rf \in Seq(Chars)
          BY <2>11
        <4>3. (sign \o pad) \o rf = sign \o (pad \o rf)
          BY <4>1, <4>2, ConcatAssociative
        <4> QED
          BY <2>13, <3>4, <4>3
      <3>6. w - Len(y) <= 0 /\ w - Len(y) \in Int
        <4>1. n >= lead /\ lead = w - Len(sign) - Len(f)
          BY <2>1, <3>1, <3>2 DEF Larger
        <4> HIDE DEF lead
        <4> QED
          BY <2>1, <2>2, <2>12, <4>1
      <3>7. Blanks(w - Len(y)) = <<>>
        BY <3>6, BlanksAre
      <3>8. Reverse(y) \in Seq(Chars)
        BY <2>12, ReverseIs
      <3>9. Placed(left, w - Len(y), Reverse(y)) = Reverse(y)
        BY <3>1, <3>7, <3>8, ConcatEmptySeq DEF Placed
      <3> QED
        BY <2>2, <2>12, <3>5, <3>9
    <2> QED
      BY <2>2, <2>12, <2>16, <2>17
  <1> HIDE DEF n, y
  <1> QED
    BY <1>3, <1>4, <1>5, <1>6, <1>8, <1>9, <1>15 DEF f, sign

(* The flags that are left for _ntoa_format, and the digits that it gets.  *)
UsedFlags(j) ==
    (ReadFlags(j) \union (IF j.dir.conv = "X" THEN {"upper"} ELSE {}))
       \ ((IF Base(j.dir.conv) = 10 THEN {"#"} ELSE {})
          \union (IF j.dir.conv \in {"d", "i"} THEN {} ELSE {"+", " "})
          \union (IF "precision" \in ReadFlags(j) THEN {"0"} ELSE {}))
CodeFlags(j) == IF CValue(j) = 0 THEN UsedFlags(j) \ {"#"} ELSE UsedFlags(j)
CodeFigures(j) == IF CPrec(j) # Unset /\ CValue(j) = 0 THEN <<>>
                  ELSE Room(Reversed(CMagnitude(j), Base(j.dir.conv), Alphabet(j)))

(* A precision is read exactly when C takes one to be there.               *)
LEMMA PrecisionRead ==
    ASSUME NEW j, FitCall(j), ~NegativePrecision(j)
    PROVE  j.dir.prec = Unset <=> CPrec(j) = Unset
  <1>1. j.dir.prec \in Nat \union {Unset, Star}
    BY DEF FitCall, FitDir
  <1>2. CASE j.dir.prec = Unset
    BY <1>2, StarsAre
  <1>3. CASE j.dir.prec \in Nat
    <2>1. CPrec(j) = j.dir.prec
      BY <1>3, StarsAre
    <2> QED
      BY <1>3, <2>1 DEF Unset
  <1>4. CASE j.dir.prec = Star
    BY <1>4 DEF NegativePrecision, Unset, Star
  <1> QED
    BY <1>1, <1>2, <1>3, <1>4

(* The flags that are left are those of the standard, less those that have *)
(* no part in the conversion.                                              *)
LEMMA CodeFlagsAre ==
    ASSUME NEW j, FitCall(j), j.dir.conv \in IntegerConvs, ~NegativePrecision(j)
    PROVE  LET fl == CodeFlags(j)
           IN  /\ "-" \in fl <=> "-" \in CFlags(j)
               /\ "0" \in fl <=> "0" \in CFlags(j) /\ CPrec(j) = Unset
               /\ "#" \in fl <=> Hashed(j)
               /\ "precision" \in fl <=> CPrec(j) # Unset
               /\ "upper" \in fl <=> j.dir.conv = "X"
               /\ Sign(CValue(j) < 0, fl) = CSign(j)
  <1> DEFINE rf == ReadFlags(j)
             cf == CFlags(j)
             used == UsedFlags(j)
             fl == CodeFlags(j)
             base == Base(j.dir.conv)
  <1>1. /\ "-" \in rf <=> "-" \in cf
        /\ "0" \in rf <=> "0" \in cf
        /\ "#" \in rf <=> "#" \in cf
        /\ "+" \in rf <=> "+" \in cf
        /\ " " \in rf <=> " " \in cf
    <2>1. \A ch \in FlagChars : ch \in rf <=> ch \in cf
      BY FlagsRead
    <2>2. "-" \in FlagChars /\ "0" \in FlagChars /\ "#" \in FlagChars /\ "+" \in FlagChars
            /\ " " \in FlagChars
      BY DEF FlagChars
    <2> QED
      BY <2>1, <2>2
  <1>2. "upper" \notin rf
    BY FlagsRead
  <1>3. "precision" \in rf <=> CPrec(j) # Unset
    <2>1. "precision" \in rf <=> j.dir.prec # Unset
      BY FlagsRead
    <2> QED
      BY <2>1, PrecisionRead
  <1> HIDE DEF rf, cf, base
  <1>4. used = (rf \union (IF j.dir.conv = "X" THEN {"upper"} ELSE {}))
               \ ((IF base = 10 THEN {"#"} ELSE {})
                  \union (IF CSigned(j) THEN {} ELSE {"+", " "})
                  \union (IF "precision" \in rf THEN {"0"} ELSE {}))
    BY DEF UsedFlags, rf, base, CSigned
  <1> HIDE DEF used
  <1>5. "-" \in used <=> "-" \in cf
    BY <1>1, <1>4
  <1>6. "0" \in used <=> "0" \in cf /\ CPrec(j) = Unset
    BY <1>1, <1>3, <1>4
  <1>7. "#" \in used <=> "#" \in cf /\ base # 10
    BY <1>1, <1>4
  <1>8. "precision" \in used <=> CPrec(j) # Unset
    BY <1>3, <1>4
  <1>9. "upper" \in used <=> j.dir.conv = "X"
    BY <1>2, <1>4
  <1>10. "+" \in used <=> "+" \in cf /\ CSigned(j)
    BY <1>1, <1>4
  <1>11. " " \in used <=> " " \in cf /\ CSigned(j)
    BY <1>1, <1>4
  <1>12. fl = IF CValue(j) = 0 THEN used \ {"#"} ELSE used
    BY DEF CodeFlags, used
  <1> HIDE DEF fl
  <1>13. "#" \in fl <=> Hashed(j)
    BY <1>7, <1>12 DEF Hashed, cf, base
  <1>14. Sign(CValue(j) < 0, fl) = CSign(j)
    <2>1. ("+" \in fl <=> "+" \in used) /\ (" " \in fl <=> " " \in used)
      BY <1>12
    <2>2. CASE CSigned(j)
      BY <1>10, <1>11, <2>1, <2>2 DEF CSign, Sign, cf
    <2>3. CASE ~CSigned(j)
      <3>1. CValue(j) >= 0 /\ CValue(j) \in Int
        BY <2>3, ValuesAgree
      <3>2. ~(CValue(j) < 0)
        BY <3>1
      <3> QED
        BY <1>10, <1>11, <2>1, <2>3, <3>2 DEF CSign, Sign
    <2> QED
      BY <2>2, <2>3
  <1>15. /\ "-" \in fl <=> "-" \in used
         /\ "0" \in fl <=> "0" \in used
         /\ "precision" \in fl <=> "precision" \in used
         /\ "upper" \in fl <=> "upper" \in used
    BY <1>12
  <1> QED
    BY <1>5, <1>6, <1>8, <1>9, <1>13, <1>14, <1>15 DEF fl, cf

(* What _ntoa_format is called with. *)
LEMMA IntegerIsFormatted ==
    ASSUME NEW j, FitCall(j), j.dir.conv \in IntegerConvs, ~NegativePrecision(j),
           ~(Char(j) /\ CValue(j) < 0)
    PROVE  /\ CodeFigures(j) \in Seq(Solid)
           /\ Len(CodeFigures(j)) = IF CPrec(j) # Unset /\ CValue(j) = 0 THEN 0
                                    ELSE Smaller(Len(Figures(j)), NumSize)
           /\ IntegerText(j.n, j.dir.conv, ReadPrec(j), CWidth(j), ReadFlags(j))
                = NtoaFormat(CodeFigures(j), CValue(j) < 0, Base(j.dir.conv), ReadPrec(j),
                             CWidth(j), CodeFlags(j))
  <1> DEFINE conv == j.dir.conv
             base == Base(conv)
             used == UsedFlags(j)
             v == CValue(j)
             r == Reversed(CMagnitude(j), base, Alphabet(j))
  <1>1. r \in Seq(Solid)
    BY FiguresAre
  <1> HIDE DEF r
  <1>2. Room(r) \in Seq(Solid) /\ Len(Room(r)) = Smaller(Len(r), NumSize)
    BY <1>1, RoomLen
  <1>3. CodeFigures(j) = IF CPrec(j) # Unset /\ v = 0 THEN <<>> ELSE Room(r)
    BY DEF CodeFigures, r
  <1>4. CodeFigures(j) \in Seq(Solid)
    BY <1>2, <1>3
  <1>5. Len(CodeFigures(j)) = IF CPrec(j) # Unset /\ v = 0 THEN 0
                              ELSE Smaller(Len(Figures(j)), NumSize)
    <2>1. CASE CPrec(j) # Unset /\ v = 0
      BY <1>3, <2>1
    <2>2. CASE ~(CPrec(j) # Unset /\ v = 0)
      <3>1. ~(v = 0 /\ CPrec(j) = 0)
        BY <2>2 DEF Unset
      <3>2. Figures(j) = r
        BY <3>1 DEF Figures, r
      <3> QED
        BY <1>2, <1>3, <2>2, <3>2
    <2> QED
      BY <2>1, <2>2
  <1>6. (IF conv \in {"d", "i"} THEN SignedArg(j.n, ReadFlags(j))
         ELSE Unsigned(j.n, ReadFlags(j))) = v
    <2>1. CASE CSigned(j)
      BY <2>1, ValuesAgree DEF CSigned
    <2>2. CASE ~CSigned(j)
      BY <2>2, ValuesAgree DEF CSigned
    <2> QED
      BY <2>1, <2>2
  <1>7. IntegerText(j.n, conv, ReadPrec(j), CWidth(j), ReadFlags(j))
          = Ntoa(CMagnitude(j), v < 0, base, ReadPrec(j), CWidth(j), used)
    BY <1>6 DEF IntegerText, UsedFlags, CMagnitude
  <1>8. /\ "precision" \in used <=> CPrec(j) # Unset
        /\ "upper" \in used <=> conv = "X"
    <2>1. /\ "precision" \in CodeFlags(j) <=> CPrec(j) # Unset
          /\ "upper" \in CodeFlags(j) <=> conv = "X"
      BY CodeFlagsAre
    <2> QED
      BY <2>1 DEF CodeFlags
  <1>9. CMagnitude(j) = 0 <=> v = 0
    <2>1. v \in Int /\ CMagnitude(j) = IF v < 0 THEN -v ELSE v
      BY ValuesAgree
    <2> QED
      BY <2>1
  <1>10. r = Reversed(CMagnitude(j), base, IF "upper" \in used THEN Upper ELSE Lower)
    BY <1>8 DEF r, Alphabet
  <1>11. CodeFlags(j) = IF v = 0 THEN used \ {"#"} ELSE used
    BY DEF CodeFlags
  <1> DEFINE p == ReadPrec(j)
             w == CWidth(j)
             m == CMagnitude(j)
             neg == v < 0
  <1>12. Ntoa(m, neg, base, p, w, used)
           = NtoaFormat(IF "precision" \in used /\ m = 0 THEN <<>>
                        ELSE Room(Reversed(m, base, IF "upper" \in used THEN Upper ELSE Lower)),
                        neg, base, p, w, IF m = 0 THEN used \ {"#"} ELSE used)
    BY DEF Ntoa
  <1>13. (IF "precision" \in used /\ m = 0 THEN <<>>
          ELSE Room(Reversed(m, base, IF "upper" \in used THEN Upper ELSE Lower)))
            = CodeFigures(j)
    BY <1>3, <1>8, <1>9, <1>10
  <1>14. (IF m = 0 THEN used \ {"#"} ELSE used) = CodeFlags(j)
    BY <1>9, <1>11
  <1> QED
    BY <1>4, <1>5, <1>7, <1>12, <1>13, <1>14

(* What _ntoa_format builds back to front: the digits that it keeps, the   *)
(* prefix and the sign.                                                    *)
KeptOf(j) == Kept(CodeFigures(j), CValue(j) < 0, Base(j.dir.conv), ReadPrec(j), CWidth(j),
                  CodeFlags(j))
PrefixOf(j) == Prefixed(Base(j.dir.conv), CodeFlags(j))
CodeBackwards(j) == (KeptOf(j) \o PrefixOf(j)) \o CSign(j)

(* An integer as printf.c shows it: in its field unless zeros fill it.     *)
LEMMA ShownInteger ==
    ASSUME NEW j, FitCall(j), j.dir.conv \in IntegerConvs, ~NegativePrecision(j),
           ~(Char(j) /\ CValue(j) < 0)
    PROVE  LET x == Room(CodeBackwards(j))
           IN  /\ KeptOf(j) \in Seq(Solid) /\ PrefixOf(j) \in Seq(Solid)
               /\ CSign(j) \in {<<>>, <<"-">>, <<"+">>, <<" ">>}
               /\ CodeBackwards(j) \in Seq(Chars) /\ x \in Seq(Chars)
               /\ Len(CodeBackwards(j)) = Len(KeptOf(j)) + Len(PrefixOf(j)) + Len(CSign(j))
               /\ Len(x) = Smaller(Len(CodeBackwards(j)), NumSize)
               /\ IntegerText(j.n, j.dir.conv, ReadPrec(j), CWidth(j), ReadFlags(j))
                    = IF CZeroFlag(j) THEN Reverse(x)
                      ELSE Placed("-" \in CFlags(j), CWidth(j) - Len(x), Reverse(x))
  <1> DEFINE fl == CodeFlags(j)
             neg == CValue(j) < 0
             base == Base(j.dir.conv)
             p == ReadPrec(j)
             w == CWidth(j)
             s == CodeFigures(j)
             b == CodeBackwards(j)
             x == Room(b)
  <1>1. s \in Seq(Solid)
    BY IntegerIsFormatted
  <1>2. base \in {8, 10, 16}
    BY FiguresAre
  <1>3. p \in Nat /\ w \in Nat
    BY StarsAre
  <1>4. KeptOf(j) \in Seq(Solid)
    <2> HIDE DEF s, base, p, w, fl, neg
    <2>1. Kept(s, neg, base, p, w, fl) \in Seq(Solid)
      BY <1>1, <1>2, <1>3, KeptIs
    <2> QED
      BY <2>1 DEF KeptOf, s, base, p, w, fl, neg
  <1>5. PrefixOf(j) \in Seq(Solid)
    <2> HIDE DEF s, base, p, w, fl, neg
    <2>1. Prefixed(base, fl) \in Seq(Solid)
      BY <1>2, PrefixedIs
    <2> QED
      BY <2>1 DEF PrefixOf, base, fl
  <1>6. CSign(j) \in {<<>>, <<"-">>, <<"+">>, <<" ">>} /\ CSign(j) \in Seq(Chars)
    <2>1. CASE CSigned(j)
      BY <2>1, SignAre DEF CSign
    <2>2. CASE ~CSigned(j)
      BY <2>2 DEF CSign
    <2> QED
      BY <2>1, <2>2
  <1>7. KeptOf(j) \in Seq(Chars) /\ PrefixOf(j) \in Seq(Chars)
    BY <1>4, <1>5, SolidIs, SeqMonotonic
  <1>8. KeptOf(j) \o PrefixOf(j) \in Seq(Chars)
        /\ Len(KeptOf(j) \o PrefixOf(j)) = Len(KeptOf(j)) + Len(PrefixOf(j))
    BY <1>7, ConcatProperties
  <1>9. b \in Seq(Chars) /\ Len(b) = Len(KeptOf(j)) + Len(PrefixOf(j)) + Len(CSign(j))
    <2> DEFINE front == KeptOf(j) \o PrefixOf(j)
    <2>1. b = front \o CSign(j)
      BY DEF CodeBackwards
    <2>2. front \in Seq(Chars) /\ CSign(j) \in Seq(Chars)
      BY <1>6, <1>8
    <2>3. Len(front) = Len(KeptOf(j)) + Len(PrefixOf(j))
      BY <1>8
    <2>4. ASSUME NEW t \in Seq(Chars), NEW u \in Seq(Chars)
          PROVE  t \o u \in Seq(Chars) /\ Len(t \o u) = Len(t) + Len(u)
      BY ONLY ConcatProperties
    <2> HIDE DEF front, b
    <2>5. front \o CSign(j) \in Seq(Chars) /\ Len(front \o CSign(j)) = Len(front) + Len(CSign(j))
      BY <2>2, <2>4
    <2> QED
      BY <2>1, <2>3, <2>5
  <1>10. x \in Seq(Chars) /\ Len(x) = Smaller(Len(b), NumSize)
    BY <1>9, RoomLen
  <1>11. Backwards(s, neg, base, p, w, fl) = b
    <2>1. Sign(neg, fl) = CSign(j)
      BY CodeFlagsAre
    <2> QED
      BY <2>1 DEF Backwards, CodeBackwards, KeptOf, PrefixOf
  <1>12. IntegerText(j.n, j.dir.conv, p, w, ReadFlags(j)) = OutRev(x, w, fl)
    <2>1. IntegerText(j.n, j.dir.conv, p, w, ReadFlags(j)) = NtoaFormat(s, neg, base, p, w, fl)
      BY IntegerIsFormatted
    <2>2. NtoaFormat(s, neg, base, p, w, fl)
            = OutRev(Room(Backwards(s, neg, base, p, w, fl)), w, fl)
      <3> HIDE DEF s, base, p, w, fl, neg
      <3> QED
        BY <1>1, <1>2, <1>3, NtoaFormatIs
    <2> QED
      BY <1>11, <2>1, <2>2
  <1>13. /\ "-" \in fl <=> "-" \in CFlags(j)
         /\ "0" \in fl <=> "0" \in CFlags(j) /\ CPrec(j) = Unset
    BY CodeFlagsAre
  <1> HIDE DEF fl, x, w
  <1>14. OutRev(x, w, fl) = IF CZeroFlag(j) THEN Reverse(x)
                            ELSE Placed("-" \in CFlags(j), w - Len(x), Reverse(x))
    <2>1. CASE "-" \in fl
      BY <1>13, <2>1 DEF OutRev, Placed, Blanks, CZeroFlag
    <2>2. CASE "-" \notin fl /\ "0" \in fl
      BY <1>13, <2>2 DEF OutRev, Placed, Blanks, CZeroFlag
    <2>3. CASE "-" \notin fl /\ "0" \notin fl
      BY <1>13, <2>3 DEF OutRev, Placed, Blanks, CZeroFlag
    <2> QED
      BY <2>1, <2>2, <2>3
  <1> QED
    BY <1>4, <1>5, <1>6, <1>9, <1>10, <1>12, <1>14 DEF x, w

(* Where the text of the code is not as long as that of the standard: what *)
(* Deviates says but for a sign that is lost or spared.                    *)
Cut(j) ==
    LET octal == Hashed(j) /\ j.dir.conv = "o"
        left == "-" \in CFlags(j)
        d == Len(Figures(j))
        before == Len(CSign(j) \o CPrefix(j))
    IN  \/ left /\ CZeros(j) > (IF octal THEN 1 ELSE 0)
        \/ left /\ CValue(j) = 0 /\ CPrec(j) = 1
        \/ octal /\ ~left /\ CZeros(j) > 0 /\ CPrec(j) # NumSize
        \/ Bare(j)
        \/ /\ Hashed(j) /\ CPrec(j) = Unset
           /\ d = CWidth(j) \/ (CZeroFlag(j) /\ d < CWidth(j) /\ d + Len(CPrefix(j)) > CWidth(j))
        \/ CZeroFlag(j) /\ CWidth(j) > NumSize
        \/ before + CZeros(j) + d > NumSize

(* The text of the code and that of the standard have one length unless    *)
(* Cut says otherwise; and where it does not, how many digits the code     *)
(* keeps.                                                                  *)
LEMMA LengthsCompared ==
    ASSUME NEW j, FitCall(j), j.dir.conv \in IntegerConvs, ~NegativePrecision(j),
           ~(Char(j) /\ CValue(j) < 0)
    PROVE  LET d == Len(Figures(j))
               z == CZeros(j)
               octal == Hashed(j) /\ j.dir.conv = "o" /\ z > 0
               left == "-" \in CFlags(j)
               lx == Len(Room(CodeBackwards(j)))
               kept == Len(KeptOf(j))
           IN  /\ Cut(j) <=> lx # Len(CBackwards(j))
               /\ ~Cut(j) /\ octal /\ left => kept = d /\ z = 1 /\ d < NumSize
               /\ ~Cut(j) /\ octal /\ ~left => kept = NumSize /\ kept = d + z
               /\ ~Cut(j) /\ ~octal => /\ kept = d + CFill(j)
                                       /\ Len(CodeBackwards(j)) <= NumSize
               /\ d \in Nat /\ z \in Nat /\ kept \in Nat /\ kept <= NumSize
               /\ ~left /\ ~CZeroFlag(j) /\ CSigned(j) => kept = Smaller(d + z, NumSize)
  <1> DEFINE conv == j.dir.conv
             d == Len(Figures(j))
             p == ReadPrec(j)
             w == CWidth(j)
             base == Base(conv)
             sl == Len(CSign(j))
             unset == CPrec(j) = Unset
             left == "-" \in CFlags(j)
             zf == CZeroFlag(j)
             hash == Hashed(j)
             none == CValue(j) = 0
             bare == Bare(j)
             fl == CodeFlags(j)
             neg == CValue(j) < 0
             s == Len(CodeFigures(j))
             zw == ZeroWidth(w, neg, fl)
             least == Least(neg, p, w, fl)
             len == s + Larger(0, least - s)
             kept == Len(KeptOf(j))
             kp == Len(PrefixOf(j))
             z == CZeros(j)
             cp == Len(Reverse(CPrefix(j)))
             k == CFill(j)
             lx == Len(Room(CodeBackwards(j)))
             ly == Len(CBackwards(j))
             before == Len(CSign(j) \o CPrefix(j))
  <1>1. d \in Nat /\ p \in Nat /\ w \in Nat /\ base \in {8, 10, 16} /\ z \in Nat
    BY FiguresAre, StarsAre
  <1>2. unset \in BOOLEAN /\ left \in BOOLEAN /\ zf \in BOOLEAN /\ hash \in BOOLEAN
          /\ none \in BOOLEAN /\ bare \in BOOLEAN
    BY DEF CZeroFlag, Hashed, Bare
  <1>3. /\ unset => p = 0
        /\ ~unset => CPrec(j) = p
    <2>1. CPrec(j) \in Nat \union {Unset} /\ p = Larger(0, CPrec(j))
      BY StarsAre DEF ReadPrec
    <2>2. CPrec(j) = Unset => p = 0
      BY <2>1 DEF Larger, Unset
    <2>3. CPrec(j) \in Nat => CPrec(j) = p
      BY <2>1 DEF Larger
    <2> QED
      BY <2>1, <2>2, <2>3
  <1>4. none => d = IF ~unset /\ p = 0 THEN 0 ELSE 1
    <2>1. CASE none /\ CPrec(j) = 0
      <3>1. Figures(j) = <<>>
        BY <2>1, FiguresAre
      <3>2. ~unset /\ p = 0
        BY <1>3, <2>1 DEF Unset
      <3> QED
        BY <3>1, <3>2
    <2>2. CASE none /\ CPrec(j) # 0
      <3>1. Figures(j) = <<"0">>
        BY <2>2, FiguresAre
      <3>2. ~(~unset /\ p = 0)
        BY <1>3, <2>2
      <3> QED
        BY <3>1, <3>2
    <2> QED
      BY <2>1, <2>2
  <1>5. ~none => d >= 1
    <2>1. ~none => Figures(j) # <<>>
      BY FiguresAre
    <2>2. Figures(j) \in Seq(Solid)
      BY FiguresAre
    <2> QED
      BY <1>1, <2>1, <2>2, EmptySeq
  <1>6. sl \in {0, 1} /\ (base # 10 => sl = 0)
    <2>1. CASE CSigned(j)
      <3>1. base = 10
        BY <2>1, FiguresAre
      <3>2. sl \in {0, 1}
        BY <2>1, SignAre DEF CSign
      <3> QED
        BY <3>1, <3>2
    <2>2. CASE ~CSigned(j)
      BY <2>2 DEF CSign
    <2> QED
      BY <2>1, <2>2
  <1>7. hash => ~none /\ sl = 0 /\ base # 10
    BY <1>6 DEF Hashed
  <1>8. bare => none /\ d = 0 /\ sl = 0
    <2>1. bare => Figures(j) = <<>> /\ conv = "o"
      BY CPrefixIs DEF Bare
    <2>2. Figures(j) = <<>> => none
      BY FiguresAre
    <2>3. conv = "o" => base # 10
      BY FiguresAre
    <2> QED
      BY <1>6, <2>1, <2>2, <2>3
  <1>9. zf => unset /\ ~left
    BY DEF CZeroFlag
  <1>10. s = IF ~unset /\ none THEN 0 ELSE IF d < NumSize THEN d ELSE NumSize
    <2>1. s = IF ~unset /\ none THEN 0 ELSE Smaller(d, NumSize)
      BY IntegerIsFormatted
    <2> QED
      BY <2>1 DEF Smaller
  <1>11. /\ "-" \in fl <=> left
         /\ "0" \in fl <=> "0" \in CFlags(j) /\ unset
         /\ "#" \in fl <=> hash
         /\ "precision" \in fl <=> ~unset
         /\ Sign(neg, fl) = CSign(j)
    BY CodeFlagsAre
  <1>12. "0" \in fl /\ ~left <=> zf
    BY <1>11 DEF CZeroFlag
  <1>13. CSign(j) # <<>> <=> sl = 1
    <2>1. CSign(j) \in {<<>>, <<"-">>, <<"+">>, <<" ">>}
      BY ShownInteger
    <2>2. CSign(j) = <<>> => sl = 0
      OBVIOUS
    <2>3. CASE CSign(j) = <<>>
      BY <2>2, <2>3
    <2>4. ASSUME NEW x, CSign(j) = <<x>> PROVE CSign(j) # <<>> /\ sl = 1
      BY <2>4
    <2> QED
      BY <2>1, <2>3, <2>4
  <1>14. zw = IF w > 0 /\ zf /\ sl = 1 THEN w - 1 ELSE w
    <2>1. {"0", "-"} \intersect fl = {"0"} <=> zf
      <3> HIDE DEF fl, left, zf
      <3>1. {"0", "-"} \intersect fl = {"0"} <=> "0" \in fl /\ "-" \notin fl
        OBVIOUS
      <3> QED
        BY <1>11, <1>12, <3>1
    <2> QED
      BY <1>11, <1>13, <2>1 DEF ZeroWidth
  <1>15. NumSize \in Nat \ {0}
    BY TypeSizesAssumption
  <1>16. zw \in Nat
    BY <1>1, <1>14
  <1>17. /\ left => least = 0
         /\ ~left /\ ~zf => least = IF p < NumSize THEN p ELSE NumSize
         /\ zf => least = IF zw < NumSize THEN zw ELSE NumSize
    <2>1. least = IF left THEN 0
                  ELSE Larger(Smaller(p, NumSize), IF zf THEN Smaller(zw, NumSize) ELSE 0)
      BY <1>11, <1>12 DEF Least
    <2>2. Smaller(p, NumSize) \in Nat /\ Smaller(zw, NumSize) \in Nat
      BY <1>1, <1>15, <1>16 DEF Smaller
    <2>3. left => least = 0
      BY <2>1
    <2>4. CASE ~left /\ ~zf
      <3>1. least = Smaller(p, NumSize)
        BY <2>1, <2>2, <2>4 DEF Larger
      <3> QED
        BY <2>4, <3>1 DEF Smaller
    <2>5. CASE zf
      <3>1. Smaller(p, NumSize) = 0
        BY <1>3, <1>9, <1>15, <2>5 DEF Smaller
      <3>2. least = Larger(0, Smaller(zw, NumSize))
        BY <1>9, <2>1, <2>5, <3>1
      <3>3. least = Smaller(zw, NumSize)
        BY <2>2, <3>2 DEF Larger
      <3> QED
        BY <1>9, <2>5, <3>3 DEF Smaller
    <2> QED
      BY <2>3, <2>4, <2>5
  <1>18. least \in Nat
    BY <1>1, <1>15, <1>16, <1>17, <1>9, <1>2
  <1>19. s \in Nat
    BY <1>1, <1>10, <1>15
  <1>20. len \in Nat /\ len = IF s > least THEN s ELSE least
    BY <1>18, <1>19 DEF Larger
  <1>21. kept \in Nat /\
         kept = IF ~(hash /\ unset /\ len > 0 /\ len = zw) THEN len
                ELSE IF base = 16 /\ len > 1 THEN len - 2 ELSE len - 1
    <2>1. kept = KeptLen(len, base, zw, fl)
      <3> DEFINE t == CodeFigures(j)
      <3>1. t \in Seq(Solid)
        BY IntegerIsFormatted
      <3> HIDE DEF t, neg, base, p, w, fl
      <3>2. Len(Kept(t, neg, base, p, w, fl))
              = KeptLen(Len(t) + Larger(0, Least(neg, p, w, fl) - Len(t)), base,
                        ZeroWidth(w, neg, fl), fl)
        BY <1>1, <3>1, KeptIs
      <3> QED
        BY <3>2 DEF KeptOf, t, neg, base, p, w, fl
    <2> HIDE DEF len, base, zw, fl, kept
    <2>2. Full(len, zw, fl) <=> hash /\ unset /\ len > 0 /\ len = zw
      BY <1>11 DEF Full
    <2>3. kept = IF ~(hash /\ unset /\ len > 0 /\ len = zw) THEN len
                 ELSE IF base = 16 /\ len > 1 THEN len - 2 ELSE len - 1
      BY <2>1, <2>2 DEF KeptLen
    <2>4. kept \in Nat
      BY <1>20, <2>3
    <2> QED
      BY <2>3, <2>4
  <1>22. kp = IF ~hash THEN 0 ELSE IF base = 16 THEN 2 ELSE 1
    <2> HIDE DEF fl, base
    <2>1. Len(Prefixed(base, fl)) = IF "#" \notin fl THEN 0 ELSE IF base = 16 THEN 2 ELSE 1
      BY <1>1, PrefixedIs
    <2> QED
      BY <1>11, <2>1 DEF PrefixOf, fl, base
  <1>23. z = IF p > d THEN p - d ELSE 0
    <2>1. unset => z = 0
      BY FiguresAre
    <2>2. z = Larger(0, CPrec(j) - d)
      BY FiguresAre
    <2>3. CASE unset
      BY <1>1, <1>3, <2>1, <2>3
    <2>4. CASE ~unset
      <3>1. z = Larger(0, p - d)
        BY <1>3, <2>2, <2>4
      <3> HIDE DEF z, p, d
      <3> QED
        BY <1>1, <3>1 DEF Larger
    <2> QED
      BY <2>3, <2>4
  <1>24. cp = IF bare THEN 1 ELSE IF hash /\ base = 8 /\ z > 0 THEN 0 ELSE kp
    <2> DEFINE r == Reverse(CPrefix(j))
    <2>1. /\ bare => r = <<"0">> /\ ~hash
          /\ ~bare /\ ~hash => r = <<>>
          /\ hash /\ conv = "o" /\ z > 0 => r = <<>>
          /\ hash /\ conv = "o" /\ z = 0 => r = <<"0">>
          /\ hash /\ conv = "X" => r = <<"X", "0">>
          /\ hash /\ conv = "x" => r = <<"x", "0">>
      BY CPrefixIs
    <2>2. (base = 8 <=> conv = "o") /\ (base = 16 <=> conv \in {"x", "X"})
      BY FiguresAre
    <2>3. Len(<<>>) = 0 /\ Len(<<"0">>) = 1 /\ Len(<<"X", "0">>) = 2 /\ Len(<<"x", "0">>) = 2
      OBVIOUS
    <2>4. cp = Len(r)
      OBVIOUS
    <2> HIDE DEF r, cp, bare, hash, z, kp, base, conv
    <2>5. CASE bare
      BY <2>1, <2>3, <2>4, <2>5
    <2>6. CASE ~bare /\ ~hash
      BY <1>22, <2>1, <2>3, <2>4, <2>6
    <2>7. CASE ~bare /\ hash /\ base = 8
      <3>1. z = 0 \/ z > 0
        BY <1>1
      <3> QED
        BY <1>22, <2>1, <2>2, <2>3, <2>4, <2>7, <3>1
    <2>8. CASE ~bare /\ hash /\ base = 16
      <3>1. Len(r) = 2
        BY <2>1, <2>2, <2>3, <2>8
      <3> QED
        BY <1>22, <2>4, <2>8, <3>1
    <2> QED
      BY <1>1, <1>7, <2>5, <2>6, <2>7, <2>8
  <1>25. kp \in Nat /\ cp \in Nat
    BY <1>22, <1>24
  <1>26. before = sl + cp
    BY CIntegerIs
  <1>27. /\ ~zf => k = z
         /\ zf => k = IF w > sl + cp + d THEN w - (sl + cp + d) ELSE 0
    <2>1. ~zf => k = z
      BY DEF CFill
    <2>2. CASE zf
      <3>1. k = Larger(0, w - before - d)
        BY <2>2 DEF CFill
      <3> HIDE DEF k, w, before, d, sl, cp
      <3> QED
        BY <1>1, <1>6, <1>25, <1>26, <2>2, <3>1 DEF Larger
    <2> QED
      BY <2>1, <2>2
  <1>28. k \in Nat
    BY CIntegerIs
  <1>29. lx = IF kept + kp + sl < NumSize THEN kept + kp + sl ELSE NumSize
    <2>1. lx = Smaller(kept + kp + sl, NumSize)
      BY ShownInteger
    <2> QED
      BY <2>1 DEF Smaller
  <1>30. ly = d + k + cp + sl
    <2>1. ly = d + k + before
      BY CIntegerIs
    <2> HIDE DEF ly, d, k, before, cp, sl
    <2> QED
      BY <1>1, <1>6, <1>25, <1>26, <1>28, <2>1
  <1>31. lx \in Nat /\ ly \in Nat
    BY <1>1, <1>6, <1>15, <1>21, <1>25, <1>28, <1>29, <1>30
  <1> DEFINE dev ==
                \/ left /\ z > (IF hash /\ base = 8 THEN 1 ELSE 0)
                \/ left /\ none /\ ~unset /\ p = 1
                \/ hash /\ base = 8 /\ ~left /\ z > 0 /\ p # NumSize
                \/ bare
                \/ hash /\ unset /\ (d = w \/ (zf /\ d < w /\ d + cp > w))
                \/ zf /\ w > NumSize
                \/ sl + cp + z + d > NumSize
  <1>32. Cut(j) <=> dev
    <2>1. hash /\ conv = "o" <=> hash /\ base = 8
      BY FiguresAre
    <2>2. CPrec(j) = 1 <=> ~unset /\ p = 1
      BY <1>3 DEF Unset
    <2>3. z > 0 => CPrec(j) = p
      <3>1. unset => z = 0
        BY FiguresAre
      <3> QED
        BY <1>3, <3>1
    <2>4. Len(CPrefix(j)) = cp
      <3>1. CPrefix(j) \in Seq(Solid)
        BY CPrefixIs
      <3> QED
        BY <3>1, ReverseIs
    <2> DEFINE q == CPrec(j)
               m == Len(CPrefix(j))
    <2>5. Cut(j) <=> \/ left /\ z > (IF hash /\ conv = "o" THEN 1 ELSE 0)
                     \/ left /\ none /\ q = 1
                     \/ (hash /\ conv = "o") /\ ~left /\ z > 0 /\ q # NumSize
                     \/ bare
                     \/ hash /\ unset /\ (d = w \/ (zf /\ d < w /\ d + m > w))
                     \/ zf /\ w > NumSize
                     \/ before + z + d > NumSize
      BY DEF Cut
    <2>6. q = 1 <=> ~unset /\ p = 1
      BY <2>2
    <2>7. z > 0 => q = p
      BY <2>3
    <2>8. m = cp
      BY <2>4
    <2> HIDE DEF q, m, left, z, hash, conv, none, unset, p, bare, d, w, zf, before, sl, cp, base
    <2>9. (IF hash /\ conv = "o" THEN 1 ELSE 0) = (IF hash /\ base = 8 THEN 1 ELSE 0)
      BY <2>1
    <2>10. ((hash /\ conv = "o") /\ ~left /\ z > 0 /\ q # NumSize)
              <=> (hash /\ base = 8 /\ ~left /\ z > 0 /\ p # NumSize)
      BY <2>1, <2>7
    <2> QED
      BY <1>26, <2>5, <2>6, <2>8, <2>9, <2>10
  <1>33. kept + kp + sl = Len(CodeBackwards(j))
    BY ShownInteger
  <1>34. (hash /\ conv = "o") <=> (hash /\ base = 8)
    BY FiguresAre
  <1> HIDE DEF d, p, w, base, sl, unset, left, zf, hash, none, bare, fl, neg, s, zw, least, len,
               kept, kp, z, cp, k, lx, ly, before, conv
  <1>35. /\ dev <=> lx # ly
         /\ ~dev /\ hash /\ base = 8 /\ z > 0 /\ left => kept = d /\ z = 1 /\ d < NumSize
         /\ ~dev /\ hash /\ base = 8 /\ z > 0 /\ ~left => kept = NumSize /\ kept = d + z
         /\ ~dev /\ ~(hash /\ base = 8 /\ z > 0) =>
              kept = d + k /\ kp = cp /\ kept + kp + sl <= NumSize
         /\ kept <= len /\ lx <= NumSize
    <2> USE <1>1, <1>2, <1>3, <1>4, <1>5, <1>6, <1>7, <1>8, <1>9, <1>10, <1>14, <1>16, <1>17,
            <1>18, <1>19, <1>20, <1>21, <1>22, <1>23, <1>24, <1>25, <1>27, <1>28, <1>29, <1>30,
            <1>31
    <2>1. NumSize \in Nat \ {0}
      BY TypeSizesAssumption
    <2>2. CASE left
      <3>1. ~zf /\ ~(~left) /\ least = 0
        BY <2>2
      <3>2. len = s /\ k = z
        <4>1. k = z
          BY <3>1
        <4>2. s > least => len = s
          OBVIOUS
        <4>3. s <= least => s = 0
          BY <3>1
        <4>4. s <= least => len = least
          OBVIOUS
        <4>5. s > least \/ s <= least
          OBVIOUS
        <4> QED
          BY <3>1, <4>1, <4>2, <4>3, <4>4, <4>5
      <3>3. CASE ~hash
        <4>1. kp = 0 /\ kept = len /\ cp = IF bare THEN 1 ELSE 0
          BY <3>3
        <4> QED
          BY <2>1, <2>2, <3>1, <3>2, <3>3, <4>1
      <3>4. CASE hash /\ base = 16
        <4>1. ~none /\ sl = 0 /\ ~bare /\ kp = 2
          BY <3>4
        <4> QED
          BY <2>1, <2>2, <3>1, <3>2, <3>4, <4>1
      <3>5. CASE hash /\ base = 8
        <4>1. ~none /\ sl = 0 /\ ~bare /\ kp = 1
          BY <3>5
        <4> QED
          BY <2>1, <2>2, <3>1, <3>2, <3>5, <4>1
      <3> QED
        BY <3>3, <3>4, <3>5
    <2>3. CASE ~left /\ ~zf
      <3>1. k = z
        BY <2>3
      <3>2. least = IF p < NumSize THEN p ELSE NumSize
        BY <2>3
      <3>3. CASE ~hash
        <4>1. kp = 0 /\ kept = len /\ cp = IF bare THEN 1 ELSE 0
          BY <3>3
        <4> QED
          BY <2>1, <2>3, <3>1, <3>2, <3>3, <4>1
      <3>4. CASE hash /\ base = 16
        <4>1. ~none /\ sl = 0 /\ ~bare /\ kp = 2
          BY <3>4
        <4> QED
          BY <2>1, <2>3, <3>1, <3>2, <3>4, <4>1
      <3>5. CASE hash /\ base = 8
        <4>1. ~none /\ sl = 0 /\ ~bare /\ kp = 1
          BY <3>5
        <4> QED
          BY <2>1, <2>3, <3>1, <3>2, <3>5, <4>1
      <3> QED
        BY <3>3, <3>4, <3>5
    <2>4. CASE zf
      <3>1. ~left /\ unset /\ p = 0 /\ z = 0
        BY <2>4
      <3>2. least = IF zw < NumSize THEN zw ELSE NumSize
        BY <2>4
      <3>3. CASE ~hash
        <4>1. kp = 0 /\ kept = len /\ cp = IF bare THEN 1 ELSE 0
          BY <3>3
        <4> QED
          BY <2>1, <2>4, <3>1, <3>2, <3>3, <4>1
      <3>4. CASE hash /\ base = 16
        <4>1. ~none /\ sl = 0 /\ ~bare /\ kp = 2
          BY <3>4
        <4> QED
          BY <2>1, <2>4, <3>1, <3>2, <3>4, <4>1
      <3>5. CASE hash /\ base = 8
        <4>1. ~none /\ sl = 0 /\ ~bare /\ kp = 1
          BY <3>5
        <4> QED
          BY <2>1, <2>4, <3>1, <3>2, <3>5, <4>1
      <3> QED
        BY <3>3, <3>4, <3>5
    <2> QED
      BY <2>2, <2>3, <2>4
  <1>36. kept <= NumSize
    <2>1. least <= NumSize /\ s <= NumSize
      <3>1. CASE left
        BY <1>1, <1>10, <1>15, <1>17, <3>1
      <3>2. CASE ~left /\ ~zf
        BY <1>1, <1>10, <1>15, <1>17, <3>2
      <3>3. CASE zf
        BY <1>1, <1>10, <1>15, <1>16, <1>17, <3>3
      <3> QED
        BY <3>1, <3>2, <3>3
    <2>2. kept <= len
      BY <1>35
    <2>3. len <= NumSize
      BY <1>20, <2>1
    <2>4. kept \in Nat /\ len \in Nat
      BY <1>20, <1>21
    <2> QED
      BY <1>15, <2>2, <2>3, <2>4
  <1>37. ~left /\ ~zf /\ CSigned(j) => kept = Smaller(d + z, NumSize)
    <2> SUFFICES ASSUME ~left, ~zf, CSigned(j) PROVE kept = Smaller(d + z, NumSize)
      OBVIOUS
    <2>1. base = 10
      BY FiguresAre DEF base, conv
    <2>2. ~hash
      BY <1>7, <2>1
    <2>3. kept = len
      BY <1>21, <2>2
    <2>4. least = IF p < NumSize THEN p ELSE NumSize
      BY <1>17
    <2>5. kept = IF d + z < NumSize THEN d + z ELSE NumSize
      BY <1>1, <1>2, <1>3, <1>4, <1>5, <1>10, <1>15, <1>20, <1>23, <2>3, <2>4
    <2> QED
      BY <2>5 DEF Smaller
  <1> HIDE DEF dev
  <1> QED
    BY <1>1, <1>21, <1>32, <1>33, <1>34, <1>35, <1>36, <1>37
       DEF zf, d, z, hash, conv, left, lx, ly, kept, k

(* The digits that the code keeps, if there is room for all of them, are   *)
(* those of the standard behind some zeros.                                *)
LEMMA KeptIsPadded ==
    ASSUME NEW j, FitCall(j), j.dir.conv \in IntegerConvs, ~NegativePrecision(j),
           ~(Char(j) /\ CValue(j) < 0), NEW m \in Nat,
           Len(KeptOf(j)) = Len(Figures(j)) + m, Len(Figures(j)) <= NumSize
    PROVE  KeptOf(j) = Padded(Figures(j), m)
  <1> DEFINE s == CodeFigures(j)
             neg == CValue(j) < 0
             base == Base(j.dir.conv)
             p == ReadPrec(j)
             w == CWidth(j)
             fl == CodeFlags(j)
             n == Larger(0, Least(neg, p, w, fl) - Len(s))
             kl == KeptLen(Len(s) + n, base, ZeroWidth(w, neg, fl), fl)
             d == Figures(j)
             k == KeptOf(j)
  <1>1. s \in Seq(Solid)
    BY IntegerIsFormatted
  <1>2. p \in Nat /\ w \in Nat
    BY StarsAre
  <1>3. k = Kept(s, neg, base, p, w, fl)
    BY DEF KeptOf
  <1>4. d \in Seq(Solid) /\ Len(d) \in Nat
    BY FiguresAre
  <1>5. Len(k) = Len(d) + m
    OBVIOUS
  <1>6. /\ n \in Nat /\ k = SubSeq(Padded(s, n), 1, kl) /\ Len(k) = kl /\ kl <= Len(s) + n
    <2> HIDE DEF s, neg, base, p, w, fl, k
    <2>1. n \in Nat /\ PadZeros(s, neg, p, w, fl) = Padded(s, n)
      BY <1>1, <1>2, PadZerosPads
    <2>2. Len(s) + n \in Nat
      BY <1>1, <1>2, KeptIs
    <2>3. k = SubSeq(PadZeros(s, neg, p, w, fl), 1, kl)
      BY <1>1, <1>2, <1>3, KeptIs
    <2>4. Len(k) = kl
      BY <1>1, <1>2, <1>3, KeptIs
    <2>5. kl <= Len(s) + n
      BY <2>2, KeptLenIs
    <2> QED
      BY <2>1, <2>3, <2>4, <2>5
  <1>7. /\ n \in Nat /\ m + Len(d) <= Len(s) + n /\ kl = Len(d) + m
    <2> HIDE DEF s, d, n, k, kl
    <2>1. Len(k) = kl
      BY <1>6
    <2>2. kl <= Len(s) + n
      BY <1>6
    <2>3. kl = Len(d) + m
      BY <1>5, <2>1
    <2>4. Len(d) + m = m + Len(d)
      BY <1>4
    <2> QED
      BY <1>6, <2>2, <2>3, <2>4
  <1>8. CASE ~(CPrec(j) # Unset /\ CValue(j) = 0)
    <2>1. s = d
      <3> DEFINE r == Reversed(CMagnitude(j), base, Alphabet(j))
      <3>1. ~(CValue(j) = 0 /\ CPrec(j) = 0)
        BY <1>8 DEF Unset
      <3>2. d = r
        BY <3>1 DEF Figures
      <3>3. s = Room(d)
        BY <1>8, <3>2 DEF CodeFigures
      <3>4. Len(d) <= NumSize
        OBVIOUS
      <3> HIDE DEF d, s
      <3> QED
        BY <1>4, <3>3, <3>4, RoomLen
    <2> HIDE DEF s, d, n, k, kl
    <2>2. n - m \in Nat /\ m + (n - m) = n
      <3>1. n \in Nat /\ m + Len(d) <= Len(d) + n
        BY <1>7, <2>1
      <3> QED
        BY <1>4, <3>1
    <2>3. SubSeq(Padded(d, m + (n - m)), 1, Len(d) + m) = Padded(d, m)
      BY <1>4, <2>2, PaddedPart
    <2> QED
      BY <1>6, <1>7, <2>1, <2>2, <2>3 DEF d, k, n, kl
  <1>9. CASE CPrec(j) # Unset /\ CValue(j) = 0
    <2>1. s = <<>>
      BY <1>9 DEF CodeFigures
    <2>2. d = Padded(<<>>, Len(d)) /\ <<>> \in Seq(Solid)
      <3>1. <<>> \in Seq(Solid) /\ Padded(<<>>, 0) = <<>>
        <4>1. <<>> \in Seq(Solid) /\ 0 \in Nat
          OBVIOUS
        <4> QED
          BY <4>1, PaddedIs
      <3>2. Padded(<<>>, 1) = <<"0">>
        <4>1. Times("0", 1) = <<"0">>
          BY DEF Times
        <4>2. \A x : <<>> \o <<x>> = <<x>>
          OBVIOUS
        <4> QED
          BY <4>1, <4>2 DEF Padded
      <3>3. d = <<>> \/ d = <<"0">>
        BY <1>9, FiguresAre
      <3> HIDE DEF d
      <3>4. CASE d = <<>>
        <4>1. Len(d) = 0
          BY <3>4
        <4> QED
          BY <3>1, <3>4, <4>1
      <3>5. CASE d = <<"0">>
        <4>1. Len(d) = 1
          BY <3>5
        <4> QED
          BY <3>1, <3>2, <3>5, <4>1
      <3> QED
        BY <3>3, <3>4, <3>5
    <2> HIDE DEF s, d, n, k, kl
    <2>3. Len(s) = 0
      BY <2>1
    <2>4. (Len(d) + m) \in Nat /\ (n - (Len(d) + m)) \in Nat
          /\ (Len(d) + m) + (n - (Len(d) + m)) = n
      <3>1. n \in Nat /\ m + Len(d) <= 0 + n
        BY <1>7, <2>3
      <3> QED
        BY <1>4, <3>1
    <2>5. SubSeq(Padded(s, (Len(d) + m) + (n - (Len(d) + m))), 1, Len(s) + (Len(d) + m))
            = Padded(s, Len(d) + m)
      BY <1>1, <2>4, PaddedPart
    <2>6. Len(s) + (Len(d) + m) = kl
      <3>1. 0 + (Len(d) + m) = Len(d) + m
        BY <1>4
      <3> QED
        BY <1>7, <2>3, <3>1
    <2>7. k = Padded(s, Len(d) + m)
      BY <1>6, <2>4, <2>5, <2>6
    <2>8. Padded(Padded(s, Len(d)), m) = Padded(s, Len(d) + m)
      BY <1>1, <1>4, PaddedTwice
    <2>9. Padded(s, Len(d)) = d
      BY <2>1, <2>2
    <2> QED
      BY <2>7, <2>8, <2>9 DEF d, k
  <1> QED
    BY <1>8, <1>9

(* Where nothing is lost the code has the text of the standard.            *)
LEMMA SameUnlessCut ==
    ASSUME NEW j, FitCall(j), j.dir.conv \in IntegerConvs, ~NegativePrecision(j),
           ~(Char(j) /\ CValue(j) < 0), ~Cut(j)
    PROVE  Room(CodeBackwards(j)) = CBackwards(j)
  <1> DEFINE d == Figures(j)
             z == CZeros(j)
             k == KeptOf(j)
             p == PrefixOf(j)
             s == CSign(j)
             cp == Reverse(CPrefix(j))
             base == Base(j.dir.conv)
             fl == CodeFlags(j)
             fill == CFill(j)
             octal == Hashed(j) /\ j.dir.conv = "o" /\ z > 0
             left == "-" \in CFlags(j)
             x == CodeBackwards(j)
  <1>1. d \in Seq(Solid) /\ Len(d) \in Nat /\ z \in Nat
    BY FiguresAre
  <1>2. k \in Seq(Solid) /\ p \in Seq(Solid) /\ s \in Seq(Chars) /\ x \in Seq(Chars)
        /\ Len(x) = Len(k) + Len(p) + Len(s)
    BY ShownInteger, CIntegerIs
  <1>3. cp \in Seq(Solid)
    BY CPrefixIs
  <1>4. CBackwards(j) = Padded(d, fill) \o (cp \o s) /\ fill \in Nat
    BY CIntegerIs DEF CBackwards
  <1>5. x = (k \o p) \o s
    BY DEF CodeBackwards
  <1>6. /\ octal /\ left => Len(k) = Len(d) /\ z = 1 /\ Len(d) < NumSize
        /\ octal /\ ~left => Len(k) = NumSize /\ Len(k) = Len(d) + z
        /\ ~octal => Len(k) = Len(d) + fill /\ Len(x) <= NumSize
    BY LengthsCompared
  <1>7. ASSUME NEW m \in Nat, Len(k) = Len(d) + m, Len(d) <= NumSize
        PROVE  k = Padded(d, m)
    BY <1>7, KeptIsPadded
  <1>8. ASSUME octal
        PROVE  cp = <<>> /\ s = <<>> /\ p = <<"0">> /\ fill = z
    <2>1. cp = <<>>
      BY <1>8, CPrefixIs
    <2>2. base = 8 /\ ~CSigned(j)
      <3>1. base = 8
        BY <1>8, FiguresAre
      <3> QED
        BY <3>1, FiguresAre
    <2>3. s = <<>>
      BY <2>2 DEF CSign
    <2>4. p = <<"0">>
      <3>1. "#" \in fl
        BY <1>8, CodeFlagsAre
      <3> HIDE DEF fl, base
      <3>2. Prefixed(base, fl) = <<"0">>
        BY <2>2, <3>1, PrefixedIs
      <3> QED
        BY <3>2 DEF PrefixOf, fl, base
    <2>5. fill = z
      <3>1. CPrec(j) # Unset
        <4>1. CPrec(j) = Unset => z = 0
          BY FiguresAre
        <4> QED
          BY <1>8, <4>1
      <3> QED
        BY <3>1 DEF CFill, CZeroFlag
    <2> QED
      BY <2>1, <2>3, <2>4, <2>5
  <1>9. ASSUME ~octal PROVE p = cp
    <2>1. ~Bare(j)
      BY DEF Cut
    <2>2. /\ "#" \in fl <=> Hashed(j)
          /\ "upper" \in fl <=> j.dir.conv = "X"
      BY CodeFlagsAre
    <2>3. p = Prefixed(base, fl)
      BY DEF PrefixOf
    <2>4. base \in {8, 10, 16} /\ (base = 16 <=> j.dir.conv \in {"x", "X"})
          /\ (base = 8 <=> j.dir.conv = "o")
      BY FiguresAre
    <2>5. /\ ~Hashed(j) => cp = <<>>
          /\ Hashed(j) /\ j.dir.conv = "o" /\ z = 0 => cp = <<"0">>
          /\ Hashed(j) /\ j.dir.conv = "X" => cp = <<"X", "0">>
          /\ Hashed(j) /\ j.dir.conv = "x" => cp = <<"x", "0">>
      BY <2>1, CPrefixIs
    <2> HIDE DEF base, fl, p, cp
    <2>6. CASE ~Hashed(j)
      <3>1. Prefixed(base, fl) = <<>>
        BY <2>2, <2>4, <2>6, PrefixedIs
      <3> QED
        BY <2>3, <2>5, <2>6, <3>1
    <2>7. CASE Hashed(j) /\ base = 8
      <3>1. Prefixed(base, fl) = <<"0">>
        BY <2>2, <2>4, <2>7, PrefixedIs
      <3>2. z = 0
        BY <1>1, <1>9, <2>4, <2>7
      <3> QED
        BY <2>3, <2>4, <2>5, <2>7, <3>1, <3>2
    <2>8. CASE Hashed(j) /\ j.dir.conv = "X"
      <3>1. Prefixed(base, fl) = <<"X", "0">>
        BY <2>2, <2>4, <2>8, PrefixedIs
      <3> QED
        BY <2>3, <2>5, <2>8, <3>1
    <2>9. CASE Hashed(j) /\ j.dir.conv = "x"
      <3>1. Prefixed(base, fl) = <<"x", "0">>
        BY <2>2, <2>4, <2>9, PrefixedIs
      <3> QED
        BY <2>3, <2>5, <2>9, <3>1
    <2>10. Hashed(j) => base # 10
      BY DEF Hashed, base
    <2> QED
      BY <2>4, <2>6, <2>7, <2>8, <2>9, <2>10
  <1>10. NumSize \in Nat \ {0}
    BY TypeSizesAssumption
  <1>11. k \in Seq(Chars) /\ p \in Seq(Chars) /\ cp \in Seq(Chars)
    BY <1>2, <1>3, SolidIs, SeqMonotonic
  <1>12. Padded(d, fill) \in Seq(Chars) /\ Padded(d, z) \in Seq(Chars)
    <2>1. Padded(d, fill) \in Seq(Solid) /\ Padded(d, z) \in Seq(Solid)
      BY <1>1, <1>4, PaddedIs
    <2> QED
      BY <2>1, SolidIs, SeqMonotonic
  <1>13. \A t \in Seq(Chars) : t \o <<>> = t /\ <<>> \o t = t
    BY ConcatEmptySeq
  <1>14. \A t \in Seq(Chars) : Len(t) <= NumSize => Room(t) = t
    BY RoomLen
  <1> HIDE DEF d, z, k, p, s, cp, fill, left, x, octal
  <1>15. CASE octal /\ left
    <2>1. cp \o s = <<>>
      <3>1. <<>> \in Seq(Chars)
        OBVIOUS
      <3> QED
        BY <1>8, <1>13, <1>15, <3>1
    <2>2. CBackwards(j) = Padded(d, 1)
      BY <1>4, <1>6, <1>8, <1>12, <1>13, <1>15, <2>1
    <2>3. k = d
      <3>1. Len(k) = Len(d) + 0 /\ Len(d) <= NumSize
        BY <1>1, <1>6, <1>10, <1>15
      <3>2. k = Padded(d, 0)
        BY <1>7, <3>1
      <3> QED
        BY <1>1, <3>2, PaddedIs
    <2>4. Times("0", 1) = <<"0">>
      BY DEF Times
    <2>5. k \o p = Padded(d, 1)
      BY <1>8, <1>15, <2>3, <2>4 DEF Padded
    <2>6. x = Padded(d, 1) /\ Padded(d, 1) \in Seq(Chars)
      BY <1>5, <1>6, <1>8, <1>12, <1>13, <1>15, <2>5
    <2>7. Len(Padded(d, 1)) = Len(d) + 1
      BY <1>1, PaddedIs
    <2>8. Len(x) <= NumSize
      BY <1>1, <1>6, <1>10, <1>15, <2>6, <2>7
    <2> QED
      BY <1>2, <1>14, <2>2, <2>6, <2>8 DEF x
  <1>16. CASE octal /\ ~left
    <2>1. cp \o s = <<>>
      <3>1. <<>> \in Seq(Chars)
        OBVIOUS
      <3> QED
        BY <1>8, <1>13, <1>16, <3>1
    <2>2. CBackwards(j) = Padded(d, z)
      BY <1>4, <1>8, <1>12, <1>13, <1>16, <2>1
    <2>3. k = Padded(d, z)
      <3>1. Len(k) = Len(d) + z /\ Len(d) <= NumSize
        BY <1>1, <1>6, <1>10, <1>16
      <3> QED
        BY <1>1, <1>7, <3>1
    <2>4. x = k \o p
      <3>1. k \o p \in Seq(Chars)
        BY <1>11, ConcatProperties
      <3> QED
        BY <1>5, <1>8, <1>13, <1>16, <3>1
    <2>5. Room(k \o p) = k
      BY <1>6, <1>11, <1>16, RoomFull
    <2> QED
      BY <2>2, <2>3, <2>4, <2>5 DEF x
  <1>17. CASE ~octal
    <2>1. Len(k) = Len(d) + fill /\ Len(x) <= NumSize
      BY <1>6, <1>17
    <2>2. Len(d) <= NumSize
      <3>1. Len(p) \in Nat /\ Len(s) \in Nat
        BY <1>2, LenProperties
      <3> QED
        BY <1>1, <1>2, <1>4, <1>10, <2>1, <3>1
    <2>3. k = Padded(d, fill)
      BY <1>4, <1>7, <2>1, <2>2
    <2>4. (k \o p) \o s = k \o (p \o s)
      <3>1. k \in Seq(Chars) /\ p \in Seq(Chars) /\ s \in Seq(Chars)
        BY <1>2, <1>11
      <3> QED
        BY ONLY <3>1, ConcatAssociative
    <2>5. x = CBackwards(j)
      BY <1>4, <1>5, <1>9, <1>17, <2>3, <2>4
    <2>6. Room(x) = x
      BY <1>2, <1>14, <2>1
    <2> QED
      BY <2>5, <2>6 DEF x
  <1> QED
    BY <1>15, <1>16, <1>17

(* A sign that is a blank, and cut off, does not show behind other blanks. *)
Spared(j) ==
    /\ CZeros(j) + Len(Figures(j)) = NumSize /\ CSign(j) = <<" ">> /\ "-" \notin CFlags(j)
    /\ CWidth(j) > NumSize /\ ~CZeroFlag(j)

(* Deviates, in terms of what is cut. *)
LEMMA DeviatesIs ==
    ASSUME NEW j, FitCall(j), j.dir.conv \in IntegerConvs
    PROVE  Deviates(j) <=> (Char(j) /\ CValue(j) < 0) \/ (Cut(j) /\ ~Spared(j))
  <1> DEFINE conv == j.dir.conv
             octal == Hashed(j) /\ conv = "o"
             left == "-" \in CFlags(j)
             d == Len(Figures(j))
             z == CZeros(j)
             w == CWidth(j)
             q == CPrec(j)
             none == CValue(j) = 0
             hash == Hashed(j)
             bare == Bare(j)
             zf == CZeroFlag(j)
             m == Len(CPrefix(j))
             before == Len(CSign(j) \o CPrefix(j))
             blank == CSign(j) = <<" ">>
             neg == Char(j) /\ CValue(j) < 0
             c1 == left /\ z > (IF octal THEN 1 ELSE 0)
             c2 == left /\ none /\ q = 1
             c3 == octal /\ ~left /\ z > 0 /\ q # NumSize
             c4 == bare
             c5 == hash /\ q = Unset /\ (d = w \/ (zf /\ d < w /\ d + m > w))
             c6 == zf /\ w > NumSize
             c7 == before + z + d > NumSize
             spared == z + d = NumSize /\ blank /\ ~left /\ w > NumSize
  <1>1. Len(CDigits(j)) = d /\ d \in Nat /\ z \in Nat
    BY FiguresAre
  <1>2. Base(conv) = 8 <=> conv = "o"
    BY FiguresAre
  <1>3. before \in Nat
    <2>1. CSign(j) \in Seq(Chars) /\ CPrefix(j) \in Seq(Chars)
      BY CIntegerIs, CPrefixIs, SolidIs, SeqMonotonic
    <2>2. CSign(j) \o CPrefix(j) \in Seq(Chars)
      BY <2>1, ConcatProperties
    <2> QED
      BY <2>2, LenProperties
  <1>4. Cut(j) <=> c1 \/ c2 \/ c3 \/ c4 \/ c5 \/ c6 \/ c7
    BY DEF Cut
  <1>5. Spared(j) <=> spared /\ ~zf
    BY DEF Spared
  <1>6. Deviates(j) <=> c1 \/ c2 \/ c3 \/ c4 \/ c5 \/ neg \/ c6 \/ (c7 /\ ~spared)
    <2> DEFINE hash2 == "#" \in CFlags(j) /\ Base(conv) # 10
               number == z + Len(CDigits(j))
               octal2 == hash2 /\ conv = "o" /\ CValue(j) # 0
    <2>1. octal2 <=> octal
      BY DEF Hashed
    <2>2. hash2 /\ CValue(j) # 0 <=> hash
      BY DEF Hashed
    <2>3. hash2 /\ conv = "o" /\ CDigits(j) = <<>> <=> bare
      BY <1>2 DEF Bare
    <2>4. number = z + d
      BY <1>1
    <2>5. Deviates(j) <=>
            \/ left /\ z > (IF octal2 THEN 1 ELSE 0)
            \/ c2
            \/ octal2 /\ ~left /\ z > 0 /\ q # NumSize
            \/ hash2 /\ conv = "o" /\ CDigits(j) = <<>>
            \/ /\ hash2 /\ CValue(j) # 0 /\ q = Unset
               /\ \/ Len(CDigits(j)) = w
                  \/ zf /\ Len(CDigits(j)) < w /\ Len(CDigits(j)) + m > w
            \/ neg
            \/ c6
            \/ before + number > NumSize /\ ~(number = NumSize /\ blank /\ ~left /\ w > NumSize)
      BY DEF Deviates, Char
    <2>6. Len(CDigits(j)) = d
      BY <1>1
    <2>7. (IF octal2 THEN 1 ELSE 0) = (IF octal THEN 1 ELSE 0)
      BY <2>1
    <2>8. before + number = before + z + d
      BY <1>1, <1>3, <2>4
    <2> HIDE DEF hash2, number, octal2, octal, left, d, z, w, q, hash, bare, zf, m, before, blank,
                 neg, conv
    <2>9. (hash2 /\ CValue(j) # 0 /\ q = Unset
            /\ (Len(CDigits(j)) = w \/ (zf /\ Len(CDigits(j)) < w /\ Len(CDigits(j)) + m > w)))
          <=> c5
      BY <2>2, <2>6
    <2>10. (left /\ z > (IF octal2 THEN 1 ELSE 0)) <=> c1
      BY <2>7
    <2>11. (octal2 /\ ~left /\ z > 0 /\ q # NumSize) <=> c3
      BY <2>1
    <2>12. (before + number > NumSize /\ ~(number = NumSize /\ blank /\ ~left /\ w > NumSize))
           <=> (c7 /\ ~spared)
      BY <2>4, <2>8
    <2> HIDE DEF c1, c2, c3, c4, c5, c6, c7, spared
    <2> QED
      BY <2>3, <2>5, <2>9, <2>10, <2>11, <2>12 DEF c4
  <1>7. blank => ~hash /\ ~bare
    <2>1. blank => CSigned(j)
      BY DEF CSign
    <2>2. CSigned(j) => Base(conv) = 10
      BY FiguresAre
    <2>3. blank => Base(conv) = 10
      BY <2>1, <2>2
    <2>4. bare => conv = "o"
      BY DEF Bare
    <2>5. hash => Base(conv) # 10
      BY DEF Hashed
    <2>6. bare => Base(conv) = 8
      BY <1>2, <2>4
    <2> HIDE DEF bare, hash, blank
    <2> QED
      BY <2>3, <2>5, <2>6
  <1>8. spared /\ ~zf => ~c1 /\ ~c2 /\ ~c3 /\ ~c4 /\ ~c5 /\ ~c6
    BY <1>7
  <1>9. spared /\ zf => c6
    OBVIOUS
  <1> HIDE DEF c1, c2, c3, c4, c5, c6, c7, spared, zf, neg
  <1> QED
    BY <1>4, <1>5, <1>6, <1>8, <1>9 DEF neg

(* A blank behind blanks is one more of them. *)
LEMMA BlankBehind ==
    ASSUME NEW n \in Int, NEW r \in Seq(Chars)
    PROVE  Blanks(n) \o (<<" ">> \o r) = Blanks(Larger(0, n) + 1) \o r
  <1> DEFINE c == Larger(0, n) + 1
             b == Blanks(n)
             one == <<" ">>
  <1>1. c \in Int /\ c > 0 /\ c - 1 \in Int /\ Larger(0, c - 1) = Larger(0, n)
    BY DEF Larger
  <1>2. Blanks(c - 1) = b
    <2> HIDE DEF c
    <2> QED
      BY <1>1 DEF Blanks
  <1>3. Blanks(c) = b \o one
    <2> HIDE DEF c, b
    <2> QED
      BY <1>1, <1>2, BlankMore
  <1>4. b \in Seq(Chars) /\ one \in Seq(Chars)
    BY BlanksAre, KnownAre, OneChar
  <1> HIDE DEF b, one, c
  <1>5. b \o (one \o r) = (b \o one) \o r
    BY ONLY <1>4, r \in Seq(Chars), ConcatAssociative
  <1> QED
    BY <1>3, <1>5 DEF b, one, c

(* Numbers with a blank for the sign, on the left of the field, are apart  *)
(* unless they are of one length.                                          *)
LEMMA BlankLeft ==
    ASSUME NEW k \in Seq(Solid), NEW n \in Seq(Solid), Len(k) # Len(n),
           NEW a \in Int, NEW b \in Int
    PROVE  Placed(TRUE, a, <<" ">> \o k) # Placed(TRUE, b, <<" ">> \o n)
  <1> DEFINE one == <<" ">>
             ba == Blanks(a)
             bb == Blanks(b)
  <1>1. one \in Seq(Chars) /\ ba \in Seq(Chars) /\ bb \in Seq(Chars)
    BY KnownAre, OneChar, BlanksAre
  <1>2. k \in Seq(NonBlank) /\ n \in Seq(NonBlank)
    BY SolidIs, SeqMonotonic
  <1>3. k \in Seq(Chars) /\ n \in Seq(Chars)
    BY SolidIs, SeqMonotonic
  <1>4. k \o ba # n \o bb
    <2>1. Placed(TRUE, a, k) # Placed(TRUE, b, n)
      BY <1>2, Apart
    <2> QED
      BY <2>1 DEF Placed
  <1> HIDE DEF one, ba, bb
  <1>5. (one \o k) \o ba = one \o (k \o ba) /\ (one \o n) \o bb = one \o (n \o bb)
    <2>1. ASSUME NEW s \in Seq(Chars), NEW t \in Seq(Chars), NEW u \in Seq(Chars)
          PROVE  (s \o t) \o u = s \o (t \o u)
      BY ONLY ConcatAssociative
    <2> QED
      BY ONLY <1>1, <1>3, <2>1
  <1>6. k \o ba \in Seq(Chars) /\ n \o bb \in Seq(Chars)
    BY ONLY <1>1, <1>3, ConcatProperties
  <1>7. one \o (k \o ba) = one \o (n \o bb) => k \o ba = n \o bb
    BY ONLY <1>1, <1>6, ConcatSimplifications
  <1>8. (one \o k) \o ba # (one \o n) \o bb
    BY <1>4, <1>5, <1>7
  <1> QED
    BY <1>8 DEF Placed, one, ba, bb

(* A number that begins with a digit is not one that begins with a blank.  *)
LEMMA BlankLost ==
    ASSUME NEW k \in Seq(Solid), k # <<>>, NEW n \in Seq(Solid), NEW a \in Int, NEW b \in Int
    PROVE  Placed(TRUE, a, k) # Placed(TRUE, b, <<" ">> \o n)
  <1> DEFINE t == <<" ">> \o n
  <1>1. k \in Seq(Chars) /\ n \in Seq(Chars)
    BY SolidIs, SeqMonotonic
  <1>2. t \in Seq(Chars) /\ t # <<>> /\ Head(t) = " "
    BY <1>1, KnownAre, OneBefore
  <1>3. Head(k) # " "
    <2>1. Head(k) \in Solid
      OBVIOUS
    <2> QED
      BY <2>1 DEF Solid
  <1> HIDE DEF t
  <1>4. Head(Placed(TRUE, a, k)) = Head(k)
    BY <1>1, PlacedIs
  <1>5. Head(Placed(TRUE, b, t)) = Head(t)
    BY <1>2, PlacedIs
  <1>6. Placed(TRUE, a, k) # Placed(TRUE, b, t)
    BY <1>2, <1>3, <1>4, <1>5
  <1> QED
    BY <1>6 DEF t

(* Right justified, the blank is one of those before the number.           *)
LEMMA BlankRight ==
    ASSUME NEW k \in Seq(Solid), NEW n \in Seq(Solid), NEW w \in Nat,
           Len(k) = NumSize, Len(k) <= Len(n), Len(k) = Len(n) => k = n
    PROVE  Placed(FALSE, w - Len(k), k) = Placed(FALSE, w - Len(n) - 1, <<" ">> \o n)
             <=> Len(n) = NumSize /\ w > NumSize
  <1> DEFINE m == Larger(0, w - Len(n) - 1) + 1
             p == Placed(FALSE, w - Len(k), k)
             c == Placed(FALSE, w - Len(n) - 1, <<" ">> \o n)
  <1>1. k \in Seq(Chars) /\ n \in Seq(Chars) /\ k \in Seq(NonBlank) /\ n \in Seq(NonBlank)
    BY SolidIs, SeqMonotonic
  <1>2. Len(k) \in Nat /\ Len(n) \in Nat /\ NumSize \in Nat \ {0}
    BY LenProperties, TypeSizesAssumption
  <1>3. m \in Int /\ w - Len(k) \in Int /\ w - Len(n) - 1 \in Int
    BY <1>2 DEF Larger
  <1>4. p = Blanks(w - Len(k)) \o k
    BY DEF Placed
  <1>5. c = Blanks(m) \o n
    <2>1. Blanks(w - Len(n) - 1) \o (<<" ">> \o n) = Blanks(m) \o n
      <3> DEFINE i == w - Len(n) - 1
      <3>1. i \in Int
        BY <1>3
      <3> HIDE DEF i
      <3>2. Blanks(i) \o (<<" ">> \o n) = Blanks(Larger(0, i) + 1) \o n
        BY <1>1, <3>1, BlankBehind
      <3> QED
        BY <3>2 DEF i
    <2> QED
      BY <2>1 DEF Placed
  <1>6. CASE Len(n) > NumSize
    <2>1. Len(k) # Len(n) /\ Len(n) # NumSize
      BY <1>2, <1>6
    <2>2. Placed(FALSE, w - Len(k), k) # Placed(FALSE, m, n)
      <3> HIDE DEF m
      <3> QED
        BY <1>1, <1>3, <2>1, Apart
    <2>3. p # c
      BY <1>5, <2>2 DEF Placed
    <2> QED
      BY <2>1, <2>3
  <1>7. CASE Len(n) = NumSize /\ w > NumSize
    <2>1. k = n
      BY <1>7
    <2>2. m = w - Len(k)
      BY <1>2, <1>7 DEF Larger
    <2>3. p = c
      BY <1>4, <1>5, <2>1, <2>2
    <2> QED
      BY <1>7, <2>3
  <1>8. CASE Len(n) = NumSize /\ w <= NumSize
    <2>1. k = n /\ w - Len(k) <= 0 /\ m = 1
      BY <1>2, <1>8 DEF Larger
    <2> HIDE DEF m
    <2>2. Blanks(w - Len(k)) = <<>>
      BY <1>3, <2>1, BlanksAre
    <2>3. p = k
      BY <1>1, <1>4, <2>2, ConcatEmptySeq
    <2>4. Blanks(m) \in Seq(Chars) /\ Len(Blanks(m)) = 1
      <3>1. Blanks(m) \in Seq(Chars) /\ Len(Blanks(m)) = Larger(0, m)
        BY <1>3, BlanksAre
      <3>2. Larger(0, m) = 1
        BY <2>1 DEF Larger
      <3> QED
        BY <3>1, <3>2
    <2> HIDE DEF p, c
    <2>5. Len(c) = 1 + Len(n)
      <3>1. Len(Blanks(m) \o n) = Len(Blanks(m)) + Len(n)
        BY ONLY <1>1, <2>4, ConcatProperties
      <3> QED
        BY ONLY <1>5, <2>4, <3>1
    <2>6. p # c
      <3>1. Len(p) # Len(c)
        BY <1>2, <2>1, <2>3, <2>5
      <3> QED
        BY <3>1
    <2>7. ~(w > NumSize)
      BY <1>2, <1>8
    <2> QED
      BY <2>6, <2>7 DEF p, c
  <1>9. \/ Len(n) > NumSize
        \/ Len(n) = NumSize /\ w > NumSize
        \/ Len(n) = NumSize /\ w <= NumSize
    BY <1>2
  <1> QED
    BY <1>6, <1>7, <1>8, <1>9

(* A number with a blank for its sign, in a field that zeros do not fill:  *)
(* the texts differ when their lengths do, unless the blank is spared.     *)
LEMMA BlankSigned ==
    ASSUME NEW j, FitCall(j), j.dir.conv \in IntegerConvs, ~NegativePrecision(j),
           ~(Char(j) /\ CValue(j) < 0), ~CZeroFlag(j), CSign(j) = <<" ">>, Cut(j)
    PROVE  LET left == "-" \in CFlags(j)
               x == Room(CodeBackwards(j))
               y == CBackwards(j)
           IN  Placed(left, CWidth(j) - Len(x), Reverse(x))
                 = Placed(left, CWidth(j) - Len(y), Reverse(y)) <=> Spared(j)
  <1> DEFINE left == "-" \in CFlags(j)
             w == CWidth(j)
             one == <<" ">>
             d == Figures(j)
             z == CZeros(j)
             k == KeptOf(j)
             n == Padded(d, z)
             code == CodeBackwards(j)
             x == Room(code)
             y == CBackwards(j)
             rk == Reverse(k)
             rn == Reverse(n)
             P == Placed(left, w - Len(x), Reverse(x))
             C == Placed(left, w - Len(y), Reverse(y))
  <1>1. CSigned(j) /\ Base(j.dir.conv) = 10
    <2>1. CSigned(j)
      BY DEF CSign
    <2> QED
      BY <2>1, FiguresAre
  <1>2. ~Hashed(j) /\ ~Bare(j)
    <2>1. ~Hashed(j)
      BY <1>1 DEF Hashed
    <2>2. j.dir.conv # "o"
      BY <1>1, FiguresAre
    <2> QED
      BY <2>1, <2>2 DEF Bare
  <1>3. PrefixOf(j) = <<>>
    <2> DEFINE fl == CodeFlags(j)
               base == Base(j.dir.conv)
    <2>1. "#" \notin fl
      BY <1>2, CodeFlagsAre
    <2>2. base \in {8, 10, 16}
      BY <1>1
    <2> HIDE DEF fl, base
    <2>3. Prefixed(base, fl) = <<>>
      BY <2>1, <2>2, PrefixedIs
    <2> QED
      BY <2>3 DEF PrefixOf, fl, base
  <1>4. Reverse(CPrefix(j)) = <<>>
    BY <1>2, CPrefixIs
  <1>5. d \in Seq(Solid) /\ Len(d) \in Nat /\ z \in Nat
    BY FiguresAre
  <1>6. n \in Seq(Solid) /\ Len(n) = Len(d) + z
    <2> HIDE DEF d, z
    <2> QED
      BY <1>5, PaddedIs
  <1>7. k \in Seq(Solid)
    BY ShownInteger
  <1>8. w \in Nat /\ NumSize \in Nat \ {0}
    BY StarsAre, TypeSizesAssumption
  <1>9. one \in Seq(Chars) /\ Len(one) = 1 /\ Reverse(one) = one
    <2>1. \A a : Reverse(<<a>>) = <<a>>
      BY ONLY DEF Reverse
    <2>2. \A a : Len(<<a>>) = 1
      OBVIOUS
    <2> QED
      BY <2>1, <2>2, KnownAre, OneChar
  <1>10. k \in Seq(Chars) /\ n \in Seq(Chars)
    BY <1>6, <1>7, SolidIs, SeqMonotonic
  <1>11. code = k \o one
    <2>1. k \o <<>> = k
      BY <1>10, ConcatEmptySeq
    <2> QED
      BY <1>3, <2>1 DEF CodeBackwards
  <1>12. y = n \o one
    <2>1. CFill(j) = z
      BY DEF CFill
    <2>2. Reverse(CSign(j) \o CPrefix(j)) = <<>> \o one
      BY <1>4, CIntegerIs
    <2>3. <<>> \o one = one
      BY <1>9, ConcatEmptySeq
    <2> QED
      BY <2>1, <2>2, <2>3 DEF CBackwards
  <1>13. /\ Len(x) # Len(y)
         /\ Len(k) \in Nat /\ Len(k) <= NumSize
         /\ ~left => Len(k) = Smaller(Len(d) + z, NumSize)
    <2>1. Len(k) \in Nat
      BY LengthsCompared
    <2>2. Len(x) # Len(y)
      BY LengthsCompared
    <2>3. Len(k) <= NumSize
      BY LengthsCompared
    <2>4. ~left => Len(k) = Smaller(Len(d) + z, NumSize)
      BY <1>1, LengthsCompared
    <2> QED
      BY <2>1, <2>2, <2>3, <2>4
  <1>14. Spared(j) <=> Len(n) = NumSize /\ ~left /\ w > NumSize
    <2>1. z + Len(d) = NumSize <=> Len(n) = NumSize
      <3>1. z + Len(d) = Len(d) + z
        <4>1. z \in Nat /\ Len(d) \in Nat
          BY <1>5
        <4> HIDE DEF z, d
        <4> QED
          BY ONLY <4>1
      <3> QED
        BY <1>6, <3>1
    <2> QED
      BY <2>1 DEF Spared
  <1>15. Len(k) = Len(d) + z => k = n
    <2>1. ASSUME Len(k) = Len(d) + z PROVE Len(d) <= NumSize
      <3>1. Len(k) <= NumSize
        BY <1>13
      <3>2. NumSize \in Nat /\ Len(d) \in Nat /\ z \in Nat
        BY <1>5, <1>8
      <3> HIDE DEF k, d, z
      <3> QED
        BY ONLY <2>1, <3>1, <3>2
    <2> QED
      BY <1>5, <2>1, KeptIsPadded
  <1>16. rk \in Seq(Solid) /\ Len(rk) = Len(k) /\ rn \in Seq(Solid) /\ Len(rn) = Len(n)
    BY <1>6, <1>7, ReverseIs
  <1>17. Reverse(k \o one) = one \o rk /\ Reverse(n \o one) = one \o rn
    <2> HIDE DEF one, k, n
    <2> QED
      BY <1>9, <1>10, ReverseOfTwo
  <1>18. Len(k \o one) = Len(k) + 1 /\ k \o one \in Seq(Chars) /\ Len(n \o one) = Len(n) + 1
    <2>1. ASSUME NEW t \in Seq(Chars), NEW u \in Seq(Chars)
          PROVE  t \o u \in Seq(Chars) /\ Len(t \o u) = Len(t) + Len(u)
      BY ONLY ConcatProperties
    <2> HIDE DEF one, k, n
    <2>2. Len(k \o one) = Len(k) + Len(one) /\ k \o one \in Seq(Chars)
            /\ Len(n \o one) = Len(n) + Len(one)
      BY ONLY <1>9, <1>10, <2>1
    <2> QED
      BY <1>9, <2>2
  <1>19. Reverse(y) = one \o rn /\ Len(y) = Len(n) + 1
    BY <1>12, <1>17, <1>18
  <1>20. Len(k) < NumSize => Reverse(x) = one \o rk /\ Len(x) = Len(k) + 1
    <2> SUFFICES ASSUME Len(k) < NumSize PROVE Reverse(x) = one \o rk /\ Len(x) = Len(k) + 1
      OBVIOUS
    <2>1. Len(k \o one) <= NumSize
      <3>1. Len(k) \in Nat /\ NumSize \in Nat
        BY <1>8, <1>13
      <3>2. Len(k \o one) = Len(k) + 1
        BY <1>18
      <3>3. Len(k) < NumSize
        OBVIOUS
      <3> HIDE DEF k, one
      <3> QED
        BY ONLY <3>1, <3>2, <3>3
    <2>2. Room(k \o one) = k \o one
      <3> HIDE DEF one, k
      <3> QED
        BY <1>18, <2>1, RoomLen
    <2> QED
      BY <1>11, <1>17, <1>18, <2>2
  <1>21. Len(k) = NumSize => x = k
    <2> SUFFICES ASSUME Len(k) = NumSize PROVE x = k
      OBVIOUS
    <2>1. Room(k \o one) = k
      <3> HIDE DEF one, k
      <3> QED
        BY <1>9, <1>10, RoomFull
    <2> QED
      BY <1>11, <2>1
  <1>22. Len(k) < NumSize \/ Len(k) = NumSize
    <2>1. Len(k) \in Nat /\ NumSize \in Nat
      BY <1>8, <1>13
    <2>2. Len(k) <= NumSize
      BY <1>13
    <2> HIDE DEF k
    <2> QED
      BY ONLY <2>1, <2>2
  <1>23. Len(d) + z = Len(n)
    BY <1>6
  <1> HIDE DEF left, w, d, z, k, n, code, x, y, rk, rn
  <1>24. CASE left /\ Len(k) < NumSize
    <2>1. Len(rk) # Len(rn)
      BY <1>13, <1>16, <1>19, <1>20, <1>24
    <2>2. w - Len(x) \in Int /\ w - Len(y) \in Int
      <3>1. Len(n) \in Nat
        BY <1>6, LenProperties
      <3>2. Len(k) \in Nat /\ Len(x) = Len(k) + 1 /\ Len(y) = Len(n) + 1 /\ w \in Nat
        BY <1>8, <1>13, <1>19, <1>20, <1>24
      <3> QED
        BY ONLY <3>1, <3>2
    <2>3. Placed(TRUE, w - Len(x), one \o rk) # Placed(TRUE, w - Len(y), one \o rn)
      BY <1>16, <2>1, <2>2, BlankLeft
    <2>4. P # C
      BY <1>19, <1>20, <1>24, <2>3 DEF Placed
    <2> QED
      BY <1>14, <1>24, <2>4 DEF left, w, x, y, code
  <1>25. CASE left /\ Len(k) = NumSize
    <2>1. rk # <<>>
      <3>1. Len(rk) # 0
        BY <1>8, <1>16, <1>25
      <3> QED
        BY <1>16, <3>1, EmptySeq
    <2>2. w - Len(x) \in Int /\ w - Len(y) \in Int
      <3>1. Len(n) \in Nat
        BY <1>6, LenProperties
      <3>2. Len(x) = NumSize
        BY <1>21, <1>25
      <3>3. Len(y) = Len(n) + 1 /\ w \in Nat /\ NumSize \in Nat
        BY <1>8, <1>19
      <3> QED
        BY ONLY <3>1, <3>2, <3>3
    <2>3. Placed(TRUE, w - Len(x), rk) # Placed(TRUE, w - Len(y), one \o rn)
      BY <1>16, <2>1, <2>2, BlankLost
    <2>4. Reverse(x) = rk
      BY <1>21, <1>25 DEF rk
    <2>5. P # C
      BY <1>19, <1>25, <2>3, <2>4 DEF Placed
    <2> QED
      BY <1>14, <1>25, <2>5 DEF left, w, x, y, code
  <1>26. CASE ~left
    <2>1. Len(n) \in Nat
      BY <1>6, LenProperties
    <2>2. Len(k) = Smaller(Len(n), NumSize)
      BY <1>13, <1>23, <1>26
    <2>3. Len(k) = NumSize /\ Len(k) <= Len(n)
      <3>1. CASE Len(n) < NumSize
        <4>1. Len(k) = Len(n)
          BY <2>2, <3>1 DEF Smaller
        <4> QED
          BY <1>13, <1>19, <1>20, <3>1, <4>1
      <3>2. CASE ~(Len(n) < NumSize)
        <4>1. Len(k) = NumSize
          BY <2>2, <3>2 DEF Smaller
        <4>2. NumSize \in Nat
          BY <1>8
        <4> QED
          BY ONLY <2>1, <3>2, <4>1, <4>2
      <3> QED
        BY <3>1, <3>2
    <2>4. x = k
      BY <1>21, <2>3
    <2>5. Len(rk) = Len(rn) => rk = rn
      <3>1. Len(k) = Len(n) => k = n
        BY <1>15, <1>23
      <3> QED
        BY <1>16, <3>1 DEF rk, rn
    <2>6. Placed(FALSE, w - Len(rk), rk) = Placed(FALSE, w - Len(rn) - 1, one \o rn)
            <=> Len(rn) = NumSize /\ w > NumSize
      <3>1. Len(rk) = NumSize /\ Len(rk) <= Len(rn)
        BY <1>16, <2>3
      <3> QED
        BY <1>8, <1>16, <2>5, <3>1, BlankRight
    <2>7. P = Placed(FALSE, w - Len(rk), rk)
      BY <1>16, <1>26, <2>4 DEF Placed, rk
    <2>8. C = Placed(FALSE, w - Len(rn) - 1, one \o rn)
      <3>1. w - Len(y) = w - Len(rn) - 1
        <4>1. Len(y) = Len(n) + 1 /\ Len(rn) = Len(n) /\ w \in Nat
          BY <1>8, <1>16, <1>19
        <4> QED
          BY ONLY <2>1, <4>1
      <3> QED
        BY <1>19, <1>26, <3>1 DEF Placed
    <2>9. P = C <=> Len(n) = NumSize /\ w > NumSize
      BY <1>16, <2>6, <2>7, <2>8
    <2> QED
      BY <1>14, <1>26, <2>9 DEF left, w, x, y, code
  <1> QED
    BY <1>22, <1>24, <1>25, <1>26

(* An integer that keeps its sign comes out as the C standard says exactly *)
(* when nothing is cut, or nothing that shows.                             *)
LEMMA IntegersAgree ==
    ASSUME NEW j, FitCall(j), j.dir.conv \in IntegerConvs, ~NegativePrecision(j),
           ~(Char(j) /\ CValue(j) < 0)
    PROVE  IntegerText(j.n, j.dir.conv, ReadPrec(j), CWidth(j), ReadFlags(j)) = CInteger(j)
             <=> ~(Cut(j) /\ ~Spared(j))
  <1> DEFINE left == "-" \in CFlags(j)
             zf == CZeroFlag(j)
             w == CWidth(j)
             x == Room(CodeBackwards(j))
             y == CBackwards(j)
             rx == Reverse(x)
             ry == Reverse(y)
             P == IntegerText(j.n, j.dir.conv, ReadPrec(j), w, ReadFlags(j))
             C == CInteger(j)
  <1>1. x \in Seq(Chars) /\ y \in Seq(Chars)
    BY ShownInteger, CIntegerIs
  <1>2. P = IF zf THEN rx ELSE Placed(left, w - Len(x), rx)
    BY ShownInteger
  <1>3. C = Placed(left, w - Len(y), ry)
    BY CIntegerIs
  <1>4. Cut(j) <=> Len(x) # Len(y)
    BY LengthsCompared
  <1>5. ~Cut(j) => x = y
    BY SameUnlessCut
  <1>6. w \in Nat
    BY StarsAre
  <1>7. left \in BOOLEAN
    OBVIOUS
  <1>8. Len(x) \in Nat /\ Len(y) \in Nat
    BY <1>1, LenProperties
  <1>9. rx \in Seq(Chars) /\ ry \in Seq(Chars) /\ Len(rx) = Len(x) /\ Len(ry) = Len(y)
    <2> HIDE DEF x, y
    <2> QED
      BY <1>1, ReverseIs
  <1>10. zf => C = ry
    <2> SUFFICES ASSUME zf PROVE C = ry
      OBVIOUS
    <2>1. ~left
      BY DEF CZeroFlag
    <2> DEFINE d == Len(Figures(j))
               before == Len(CSign(j) \o CPrefix(j))
               k == CFill(j)
    <2>2. k = Larger(0, w - before - d)
      BY DEF CFill
    <2>3. Len(y) = d + k + before
      BY CIntegerIs
    <2>4. d \in Nat /\ k \in Nat
      BY FiguresAre, CIntegerIs
    <2>5. before \in Nat
      <3>1. CSign(j) \in Seq(Chars) /\ CPrefix(j) \in Seq(Chars)
        BY CIntegerIs, CPrefixIs, SolidIs, SeqMonotonic
      <3>2. CSign(j) \o CPrefix(j) \in Seq(Chars)
        BY <3>1, ConcatProperties
      <3> QED
        BY <3>2, LenProperties
    <2> HIDE DEF d, before, k, w, y, ry, C, left
    <2>6. w - Len(y) <= 0 /\ w - Len(y) \in Int
      BY <1>6, <2>2, <2>3, <2>4, <2>5 DEF Larger
    <2>7. Blanks(w - Len(y)) = <<>>
      BY <2>6, BlanksAre
    <2>8. <<>> \o ry = ry
      BY <1>9, ConcatEmptySeq
    <2> QED
      BY <1>3, <2>1, <2>7, <2>8 DEF Placed
  <1>11. Spared(j) => ~zf /\ CSign(j) = <<" ">>
    BY DEF Spared
  <1> HIDE DEF P, C, zf, left, w
  <1>12. CASE ~Cut(j)
    <2>1. P = C
      BY <1>2, <1>3, <1>5, <1>10, <1>12
    <2> QED
      BY <1>12, <2>1 DEF P, C, w
  <1>13. CASE Cut(j) /\ zf
    <2>1. rx # ry
      <3> HIDE DEF rx, ry, x, y
      <3> QED
        BY <1>4, <1>9, <1>13
    <2>2. P # C
      BY <1>2, <1>10, <1>13, <2>1
    <2> QED
      BY <1>11, <1>13, <2>2 DEF P, C, w
  <1>14. CASE Cut(j) /\ ~zf /\ CSign(j) # <<" ">>
    <2> DEFINE s == CSign(j)
               k == KeptOf(j)
               p == PrefixOf(j)
               n == Padded(Figures(j), CFill(j))
               cp == Reverse(CPrefix(j))
    <2>1. s \in Seq(NonBlank)
      <3>1. s = <<>> \/ s = <<"-">> \/ s = <<"+">>
        BY <1>14, ShownInteger
      <3>2. "-" \in NonBlank /\ "+" \in NonBlank
        BY KnownAre DEF NonBlank
      <3>3. <<>> \in Seq(NonBlank) /\ <<"-">> \in Seq(NonBlank) /\ <<"+">> \in Seq(NonBlank)
        BY ONLY <3>2
      <3> QED
        BY ONLY <3>1, <3>3
    <2>2. k \in Seq(NonBlank) /\ p \in Seq(NonBlank) /\ cp \in Seq(NonBlank)
      BY ShownInteger, CPrefixIs, SolidIs, SeqMonotonic
    <2>3. n \in Seq(NonBlank)
      <3>1. Figures(j) \in Seq(Solid) /\ CFill(j) \in Nat
        BY FiguresAre, CIntegerIs
      <3>2. n \in Seq(Solid)
        BY <3>1, PaddedIs
      <3> QED
        BY <3>2, SolidIs, SeqMonotonic
    <2>4. ASSUME NEW t \in Seq(NonBlank), NEW u \in Seq(NonBlank) PROVE t \o u \in Seq(NonBlank)
      BY ONLY ConcatProperties
    <2>5. CodeBackwards(j) = (k \o p) \o s
      BY DEF CodeBackwards
    <2>6. y = n \o (cp \o s)
      BY CIntegerIs DEF CBackwards
    <2> HIDE DEF s, k, p, n, cp, y, rx, ry
    <2>7. CodeBackwards(j) \in Seq(NonBlank)
      BY ONLY <2>1, <2>2, <2>4, <2>5
    <2>8. x \in Seq(NonBlank)
      BY <2>7, RoomLen
    <2>9. y \in Seq(NonBlank)
      BY ONLY <2>1, <2>2, <2>3, <2>4, <2>6
    <2> HIDE DEF x
    <2>10. rx \in Seq(NonBlank) /\ ry \in Seq(NonBlank)
      BY <2>8, <2>9, ReverseIs DEF rx, ry
    <2>11. Len(rx) # Len(ry)
      BY <1>4, <1>9, <1>14
    <2>12. w - Len(x) \in Int /\ w - Len(y) \in Int
      BY <1>6, <1>8
    <2>13. Placed(left, w - Len(x), rx) # Placed(left, w - Len(y), ry)
      BY <1>7, <2>10, <2>11, <2>12, Apart
    <2>14. P # C
      BY <1>2, <1>3, <1>14, <2>13
    <2> QED
      BY <1>11, <1>14, <2>14 DEF P, C, w
  <1>15. CASE Cut(j) /\ ~zf /\ CSign(j) = <<" ">>
    <2>1. Placed(left, w - Len(x), rx) = Placed(left, w - Len(y), ry) <=> Spared(j)
      BY <1>15, BlankSigned DEF left, w, zf
    <2>2. P = C <=> Spared(j)
      BY <1>2, <1>3, <1>15, <2>1
    <2> QED
      BY <1>15, <2>2 DEF P, C, w
  <1> QED
    BY <1>12, <1>13, <1>14, <1>15

(* Of a text without a minus sign nothing becomes one with it.             *)
NoMinus == Chars \ {"-"}

(* Such a text is put out without one. *)
LEMMA NoMinusAppears ==
    ASSUME NEW b \in Seq(NoMinus), NEW w \in Nat, NEW fl
    PROVE  ~Has(OutRev(Room(b), w, fl), "-")
  <1> DEFINE x == Room(b)
             r == Reverse(x)
             blanks == Times(" ", Larger(0, w - Len(x)))
             o == OutRev(x, w, fl)
  <1>1. x \in Seq(NoMinus)
    BY RoomLen
  <1> HIDE DEF x
  <1>2. r \in Seq(NoMinus)
    BY <1>1, ReverseIs
  <1>3. blanks \in Seq(NoMinus)
    <2>1. Len(x) \in Nat
      BY <1>1, LenProperties
    <2>2. Larger(0, w - Len(x)) \in Nat
      BY <2>1 DEF Larger
    <2>3. " " \in NoMinus
      BY KnownAre DEF NoMinus
    <2> QED
      BY <2>2, <2>3, TimesIs
  <1> HIDE DEF r, blanks
  <1>4. r \o blanks \in Seq(NoMinus) /\ blanks \o r \in Seq(NoMinus)
    BY ONLY <1>2, <1>3, ConcatProperties
  <1>5. o \in Seq(NoMinus)
    BY <1>2, <1>4 DEF OutRev, r, blanks
  <1> HIDE DEF o
  <1>6. \A i \in 1 .. Len(o) : o[i] \in NoMinus
    BY <1>5
  <1>7. ~Has(o, "-")
    BY <1>6 DEF Has, NoMinus
  <1> QED
    BY <1>7 DEF o, x

(* %hhd of a negative number shows no sign: plain char has none.           *)
LEMMA CharLosesSign ==
    ASSUME NEW j, FitCall(j), j.dir.conv \in IntegerConvs, Char(j), CValue(j) < 0
    PROVE  IntegerText(j.n, j.dir.conv, ReadPrec(j), CWidth(j), ReadFlags(j)) # CInteger(j)
  <1> DEFINE v == SignedArg(j.n, ReadFlags(j))
             base == Base(j.dir.conv)
             p == ReadPrec(j)
             w == CWidth(j)
             used == UsedFlags(j)
             P == IntegerText(j.n, j.dir.conv, p, w, ReadFlags(j))
             C == CInteger(j)
  <1>1. CSigned(j) /\ base = 10
    <2>1. CValue(j) \in Int /\ (~CSigned(j) => CValue(j) >= 0)
      BY ValuesAgree
    <2>2. CSigned(j)
      BY <2>1
    <2> QED
      BY <2>2, FiguresAre
  <1>2. v \in Nat
    BY ValuesAgree
  <1>3. p \in Nat /\ w \in Nat
    BY StarsAre
  <1>4. ~Has(P, "-")
    <2> DEFINE fl == IF v = 0 THEN used \ {"#"} ELSE used
               digits == Room(Reversed(v, base, IF "upper" \in used THEN Upper ELSE Lower))
               s == IF "precision" \in used /\ v = 0 THEN <<>> ELSE digits
               neg == v < 0
    <2>1. P = Ntoa(v, neg, base, p, w, used)
      <3>1. j.dir.conv \in {"d", "i"}
        BY <1>1 DEF CSigned
      <3>2. P = Ntoa(IF v < 0 THEN -v ELSE v, v < 0, base, p, w, used)
        BY <3>1 DEF IntegerText, UsedFlags
      <3>3. (IF v < 0 THEN -v ELSE v) = v
        <4> HIDE DEF v
        <4> QED
          BY <1>2
      <3> QED
        BY <3>2, <3>3
    <2>2. Ntoa(v, neg, base, p, w, used) = NtoaFormat(s, neg, base, p, w, fl)
      BY DEF Ntoa
    <2>3. s \in Seq(Solid)
      <3>1. /\ Reversed(v, base, Lower) \in Seq(Solid)
            /\ Reversed(v, base, Upper) \in Seq(Solid)
        <4>1. base \in {8, 10, 16}
          BY <1>1
        <4> HIDE DEF base, v
        <4> QED
          BY <1>2, <4>1, SolidDigits
      <3> DEFINE r == Reversed(v, base, IF "upper" \in used THEN Upper ELSE Lower)
      <3>2. r \in Seq(Solid)
        BY <3>1
      <3> HIDE DEF r
      <3>3. Room(r) \in Seq(Solid)
        BY <3>2, RoomLen
      <3> QED
        BY <3>3 DEF r
    <2>4. base \in {8, 10, 16} /\ ~neg
      BY <1>1, <1>2
    <2> DEFINE b == Backwards(s, neg, base, p, w, fl)
               k == Kept(s, neg, base, p, w, fl)
               pre == Prefixed(base, fl)
               sign == Sign(neg, fl)
    <2> HIDE DEF s, base, p, w, fl, neg
    <2>5. NtoaFormat(s, neg, base, p, w, fl) = OutRev(Room(b), w, fl)
      BY <1>3, <2>3, <2>4, NtoaFormatIs
    <2>6. Solid \subseteq NoMinus
      BY DEF Solid, NoMinus
    <2>7. k \in Seq(NoMinus) /\ pre \in Seq(NoMinus)
      <3>1. k \in Seq(Solid)
        BY <1>3, <2>3, KeptIs
      <3>2. pre \in Seq(Solid)
        BY <2>4, PrefixedIs
      <3> QED
        BY <2>6, <3>1, <3>2, SeqMonotonic
    <2>8. sign \in Seq(NoMinus)
      <3>1. sign = <<>> \/ sign = <<"+">> \/ sign = <<" ">>
        BY <2>4 DEF Sign
      <3>2. "+" \in NoMinus /\ " " \in NoMinus
        BY KnownAre DEF NoMinus
      <3>3. <<>> \in Seq(NoMinus)
        OBVIOUS
      <3>4. <<"+">> \in Seq(NoMinus) /\ <<" ">> \in Seq(NoMinus)
        BY ONLY <3>2, OneChar
      <3> QED
        BY ONLY <3>1, <3>3, <3>4
    <2>9. b = (k \o pre) \o sign
      BY DEF Backwards
    <2>10. ASSUME NEW t \in Seq(NoMinus), NEW u \in Seq(NoMinus) PROVE t \o u \in Seq(NoMinus)
      BY ONLY ConcatProperties
    <2> HIDE DEF b, k, pre, sign
    <2>11. b \in Seq(NoMinus)
      BY ONLY <2>7, <2>8, <2>9, <2>10
    <2>12. ~Has(OutRev(Room(b), w, fl), "-")
      BY <1>3, <2>11, NoMinusAppears
    <2> QED
      BY <2>1, <2>2, <2>5, <2>12 DEF base, w, p, neg, fl, s
  <1>5. Has(C, "-")
    <2> DEFINE left == "-" \in CFlags(j)
               y == CBackwards(j)
               n == Padded(Figures(j), CFill(j))
               cp == Reverse(CPrefix(j))
               one == <<"-">>
               m == w - Len(y)
               q == Reverse(cp) \o Reverse(n)
    <2>1. CSign(j) = one
      BY <1>1 DEF CSign, Sign
    <2>2. y = n \o (cp \o one)
      BY <2>1, CIntegerIs DEF CBackwards
    <2>3. cp \in Seq(Chars) /\ n \in Seq(Chars) /\ one \in Seq(Chars)
      <3>1. cp \in Seq(Chars)
        BY CPrefixIs, SolidIs, SeqMonotonic
      <3>2. n \in Seq(Solid)
        BY FiguresAre, CIntegerIs, PaddedIs
      <3>3. n \in Seq(Chars)
        BY <3>2, SolidIs, SeqMonotonic
      <3> QED
        BY <3>1, <3>3, KnownAre, OneChar
    <2>4. C = Placed(left, m, Reverse(y))
      BY CIntegerIs
    <2>5. y \in Seq(Chars)
      BY CIntegerIs
    <2>6. m \in Int
      <3>1. Len(y) \in Nat
        BY <2>5, LenProperties
      <3> QED
        BY <1>3, <3>1
    <2>7. Reverse(one) = one
      BY ONLY DEF Reverse
    <2> HIDE DEF cp, n, one, y, m
    <2>8. Reverse(y) = (one \o Reverse(cp)) \o Reverse(n)
      <3>1. cp \o one \in Seq(Chars)
        BY ONLY <2>3, ConcatProperties
      <3>2. Reverse(y) = Reverse(cp \o one) \o Reverse(n)
        BY <2>2, <2>3, <3>1, ReverseOfTwo
      <3>3. Reverse(cp \o one) = one \o Reverse(cp)
        BY <2>3, <2>7, ReverseOfTwo
      <3> QED
        BY <3>2, <3>3
    <2>9. Reverse(cp) \in Seq(Chars) /\ Reverse(n) \in Seq(Chars)
      BY <2>3, ReverseIs
    <2>10. Has(one, "-")
      BY KnownAre, OneOf DEF one
    <2>11. Has(one \o Reverse(cp), "-") /\ one \o Reverse(cp) \in Seq(Chars)
      <3>1. one \o Reverse(cp) \in Seq(Chars)
        BY ONLY <2>3, <2>9, ConcatProperties
      <3>2. Has(one \o Reverse(cp), "-")
        BY <2>3, <2>9, <2>10, HasOfBoth
      <3> QED
        BY <3>1, <3>2
    <2>12. Has(Reverse(y), "-")
      <3>1. ASSUME NEW t \in Seq(Chars), NEW u \in Seq(Chars), Has(t, "-")
            PROVE  Has(t \o u, "-")
        BY <3>1, HasOfBoth
      <3>2. Has((one \o Reverse(cp)) \o Reverse(n), "-")
        BY ONLY <2>9, <2>11, <3>1
      <3> QED
        BY ONLY <2>8, <3>2
    <2>13. Blanks(m) \in Seq(Chars) /\ Reverse(y) \in Seq(Chars)
      BY <2>5, <2>6, BlanksAre, ReverseIs
    <2>14. /\ Has(Reverse(y) \o Blanks(m), "-")
           /\ Has(Blanks(m) \o Reverse(y), "-")
      BY <2>12, <2>13, HasOfBoth
    <2> QED
      BY <2>4, <2>14 DEF Placed
  <1> QED
    BY <1>4, <1>5

(* An integer comes out as the C standard says, whatever flags, width,     *)
(* precision, length and value it has, except exactly where Deviates says: *)
(* what _ntoa_format makes of a sign, a prefix, zeros and digits is never  *)
(* right there by chance, and never wrong elsewhere (the cases d, i, u, x, *)
(* X and o of printf.c).                                                   *)
THEOREM IntegersAreRight == Spec => []IntegersMatchC
  <1>1. ASSUME PrintfInv, ret # Unset, Integral, ~NegativePrecision(job)
        PROVE  (Inner = CInteger(job)) <=> ~Deviates(job)
    <2> DEFINE P == IntegerText(job.n, job.dir.conv, ReadPrec(job), CWidth(job), ReadFlags(job))
               C == CInteger(job)
    <2>1. FitCall(job) /\ IsRead /\ Inner = Shown
      BY <1>1, InnerIs
    <2>2. job.dir.conv \in IntegerConvs
      BY <1>1 DEF Integral, IntegerConvs
    <2>3. width = CWidth(job) /\ precision = ReadPrec(job) /\ flags = ReadFlags(job)
      BY <2>1 DEF IsRead
    <2>4. Shown = P
      <3>1. Shown = IntegerText(job.n, job.dir.conv, precision, width, flags)
        BY <1>1 DEF Shown, Converted, Integral
      <3> QED
        BY <2>3, <3>1
    <2>5. Deviates(job) <=> (Char(job) /\ CValue(job) < 0) \/ (Cut(job) /\ ~Spared(job))
      BY <2>1, <2>2, DeviatesIs
    <2>6. CASE Char(job) /\ CValue(job) < 0
      <3>1. P # C
        BY <2>1, <2>2, <2>6, CharLosesSign
      <3> QED
        BY <2>1, <2>4, <2>5, <2>6, <3>1
    <2>7. CASE ~(Char(job) /\ CValue(job) < 0)
      <3>1. P = C <=> ~(Cut(job) /\ ~Spared(job))
        BY <1>1, <2>1, <2>2, <2>7, IntegersAgree
      <3> QED
        BY <2>1, <2>4, <2>5, <2>7, <3>1
    <2> QED
      BY <2>6, <2>7
  <1>2. PrintfInv => IntegersMatchC
    BY <1>1 DEF IntegersMatchC
  <1> QED
    BY <1>2, PrintfInvHolds, PTL

(* Integers, characters and strings come out as the C standard says except *)
(* exactly where the parts of the property name the deviation.             *)
THEOREM TextsAndIntegersAreRight == Spec => []MatchesC
  <1>1. TextsMatchC /\ IntegersMatchC => MatchesC
    BY DEF MatchesC
  <1> QED
    BY <1>1, TextsAreRight, IntegersAreRight, PTL

-------------------------------------------------------------------------------
(***************************************************************************)
(* %f.  Quotient and rest of the code are those of the nearest decimals    *)
(* (RoundNear); written back to front, a number is its decimals, a point   *)
(* and its whole part, for the code (NumberIs) and for the standard        *)
(* (CDecimalIs); both put it in the same field (JustIs).  Where the carry  *)
(* of a tie is missing, or # asks for a point without decimals, the text   *)
(* has no point, and -0 no sign (FixedIsNone).                             *)
(***************************************************************************)

(* The power of a sum, and of a larger number. *)
LEMMA PowersTimes ==
    /\ \A a \in Nat, b \in Nat : Pow10(a + b) = Pow10(a) * Pow10(b)
    /\ \A a \in Nat, b \in Nat : a <= b => Pow10(a) <= Pow10(b)
    /\ \A a \in Nat, b \in Nat : a < b => 10 * Pow10(a) <= Pow10(b)
  <1>1. ASSUME NEW a \in Nat PROVE \A b \in Nat : Pow10(a + b) = Pow10(a) * Pow10(b)
    <2> DEFINE T == {b \in Nat : Pow10(a + b) = Pow10(a) * Pow10(b)}
    <2>1. 0 \in T
      BY PowersAre, PowerIsPositive
    <2>2. ASSUME NEW n \in Nat, n \in T PROVE n + 1 \in T
      <3> DEFINE x == Pow10(a)
                 y == Pow10(n)
      <3>1. Pow10(a + n) = x * y
        BY <2>2
      <3>2. Pow10((a + n) + 1) = 10 * Pow10(a + n) /\ Pow10(n + 1) = 10 * y
        BY PowersAre
      <3>3. (a + n) + 1 = a + (n + 1) /\ n + 1 \in Nat
        OBVIOUS
      <3>4. x \in Nat /\ y \in Nat
        BY PowerIsPositive
      <3> HIDE DEF x, y
      <3>5. 10 * (x * y) = x * (10 * y)
        BY <3>4
      <3> QED
        BY <3>1, <3>2, <3>3, <3>5 DEF x
    <2> HIDE DEF T
    <2>3. \A n \in Nat : n \in T
      BY <2>1, <2>2, Induct
    <2> QED
      BY <2>3 DEF T
  <1>2. ASSUME NEW a \in Nat, NEW b \in Nat, a <= b PROVE Pow10(a) <= Pow10(b)
    <2>1. b - a \in Nat /\ a + (b - a) = b
      BY <1>2
    <2>2. Pow10(b) = Pow10(a) * Pow10(b - a)
      BY <1>1, <2>1
    <2>3. Pow10(a) \in Nat /\ Pow10(b - a) \in Nat \ {0}
      BY <2>1, PowerIsPositive
    <2>4. \A x \in Nat, y \in Nat \ {0} : x <= x * y
      OBVIOUS
    <2> QED
      BY <2>2, <2>3, <2>4
  <1>3. ASSUME NEW a \in Nat, NEW b \in Nat, a < b PROVE 10 * Pow10(a) <= Pow10(b)
    <2>1. a + 1 \in Nat /\ a + 1 <= b
      BY <1>3
    <2> QED
      BY <1>2, <2>1, PowersAre
  <1> QED
    BY <1>1, <1>2, <1>3

(* The digits of a number from the last to the first. *)
Back(v) == Reversed(v, 10, Lower)
Dig(v) == Lower[(v % 10) + 1]

(* They are the last digit and those of a tenth of the number. *)
LEMMA BackIs ==
    \A v \in Nat :
       /\ Back(v) \in Seq(Digits) \ {<<>>}
       /\ Back(v) = <<Dig(v)>> \o IF v \div 10 = 0 THEN <<>> ELSE Back(v \div 10)
       /\ Dig(v) \in Digits /\ v \div 10 \in Nat /\ v % 10 \in 0 .. 9
       /\ v = 10 * (v \div 10) + (v % 10)
       /\ <<Dig(v)>> \in Seq(Digits)
  <1>1. \A k \in 1 .. 10 : Lower[k] \in Digits
    BY LowerDigits
  <1>2. \A v \in Nat :
       /\ Reversed(v, 10, Lower) \in Seq(Digits) \ {<<>>}
       /\ Reversed(v, 10, Lower) =
             <<Lower[(v % 10) + 1]>>
                 \o IF v \div 10 = 0 THEN <<>> ELSE Reversed(v \div 10, 10, Lower)
    <2> DEFINE base == 10
    <2>1. base \in Nat \ {0, 1} /\ \A k \in 1 .. base : Lower[k] \in Digits
      BY <1>1
    <2> HIDE DEF base
    <2>2. \A v \in Nat :
             /\ Reversed(v, base, Lower) \in Seq(Digits) \ {<<>>}
             /\ Reversed(v, base, Lower) =
                   <<Lower[(v % base) + 1]>>
                       \o IF v \div base = 0 THEN <<>> ELSE Reversed(v \div base, base, Lower)
      BY <2>1, ReversedIs
    <2> QED
      BY <2>2 DEF base
  <1>3. \A v \in Nat : v \div 10 \in Nat /\ v % 10 \in 0 .. 9 /\ v = 10 * (v \div 10) + (v % 10)
    BY DecimalStep
  <1>4. \A v \in Nat : Dig(v) \in Digits
    <2> TAKE v \in Nat
    <2>1. (v % 10) + 1 \in 1 .. 10
      BY <1>3
    <2> QED
      BY <1>1, <2>1 DEF Dig
  <1>5. \A d \in Digits : <<d>> \in Seq(Digits)
    BY OneChar
  <1> QED
    BY <1>2, <1>3, <1>4, <1>5 DEF Back, Dig

(* Their number, and the powers of ten the number is between. *)
LEMMA BackLen ==
    \A v \in Nat :
       /\ Len(Back(v)) \in Nat \ {0}
       /\ v < Pow10(Len(Back(v)))
       /\ v # 0 => Pow10(Len(Back(v)) - 1) <= v
       /\ v < 10 => Len(Back(v)) = 1 /\ Back(v) = <<Dig(v)>>
       /\ v >= 10 => Len(Back(v)) = 1 + Len(Back(v \div 10))
  <1>1. ASSUME NEW v \in Nat, v < 10 PROVE Len(Back(v)) = 1 /\ Back(v) = <<Dig(v)>>
    <2>1. v \div 10 = 0
      BY <1>1
    <2>2. Back(v) = <<Dig(v)>> \o <<>>
      BY <2>1, BackIs
    <2>3. <<Dig(v)>> \in Seq(Digits) /\ Len(<<Dig(v)>>) = 1
      BY BackIs
    <2> QED
      BY <2>2, <2>3, ConcatEmptySeq
  <1>2. ASSUME NEW v \in Nat, v >= 10 PROVE Len(Back(v)) = 1 + Len(Back(v \div 10))
    <2>1. v \div 10 # 0 /\ v \div 10 \in Nat
      BY <1>2
    <2>2. Back(v) = <<Dig(v)>> \o Back(v \div 10)
      BY <2>1, BackIs
    <2>3. <<Dig(v)>> \in Seq(Digits) /\ Len(<<Dig(v)>>) = 1 /\ Back(v \div 10) \in Seq(Digits)
      BY <2>1, BackIs
    <2> QED
      BY <2>2, <2>3, ConcatProperties
  <1> DEFINE T == {v \in Nat : /\ Len(Back(v)) \in Nat \ {0}
                               /\ v < Pow10(Len(Back(v)))
                               /\ v # 0 => Pow10(Len(Back(v)) - 1) <= v}
  <1>3. ASSUME NEW v \in Nat, \A k \in 0 .. v - 1 : k \in T PROVE v \in T
    <2>1. CASE v < 10
      <3>1. Len(Back(v)) = 1
        BY <1>1, <2>1
      <3>2. Pow10(0) = 1 /\ Pow10(1) = 10
        <4>1. Pow10(0 + 1) = 10 * Pow10(0)
          BY PowersAre
        <4> QED
          BY <4>1, PowersAre
      <3> QED
        BY <2>1, <3>1, <3>2
    <2>2. CASE v >= 10
      <3> DEFINE u == v \div 10
                 n == Len(Back(u))
      <3>1. u \in 0 .. v - 1 /\ u # 0 /\ u \in Nat /\ 10 * u <= v /\ v < 10 * u + 10
        BY <2>2
      <3>2. n \in Nat \ {0} /\ u < Pow10(n) /\ Pow10(n - 1) <= u
        BY <1>3, <3>1
      <3>3. Len(Back(v)) = 1 + n
        BY <1>2, <2>2
      <3> HIDE DEF n, u
      <3>4. Pow10(n + 1) = 10 * Pow10(n)
        BY <3>2, PowersAre
      <3>5. Pow10((n - 1) + 1) = 10 * Pow10(n - 1) /\ (n - 1) + 1 = n /\ n - 1 \in Nat
        BY <3>2, PowersAre
      <3>6. Pow10(n) \in Nat /\ Pow10(n - 1) \in Nat
        BY <3>2, <3>5, PowerIsPositive
      <3>7. v < Pow10(n + 1) /\ Pow10(n) <= v
        BY <3>1, <3>2, <3>4, <3>5, <3>6
      <3> QED
        BY <3>2, <3>3, <3>7
    <2> QED
      BY <2>1, <2>2
  <1> HIDE DEF T
  <1>4. \A v \in Nat : v \in T
    BY <1>3, InductBelow
  <1> QED
    BY <1>1, <1>2, <1>4 DEF T

(* A number below a power of ten has as few digits. *)
LEMMA BackShort ==
    ASSUME NEW v \in Nat, NEW q \in Nat \ {0}, v < Pow10(q)
    PROVE  Len(Back(v)) <= q
  <1> DEFINE n == Len(Back(v))
  <1>1. n \in Nat \ {0} /\ (v # 0 => Pow10(n - 1) <= v) /\ (v < 10 => n = 1)
    BY BackLen
  <1> HIDE DEF n
  <1>4. n \in Nat /\ n >= 1 /\ q \in Nat /\ q >= 1
    BY <1>1
  <1>2. CASE v = 0
    BY <1>1, <1>2, <1>4 DEF n
  <1>3. CASE v # 0
    <2>1. Pow10(n - 1) <= v /\ n - 1 \in Nat
      BY <1>1, <1>3
    <2>2. ~(q <= n - 1)
      <3> SUFFICES ASSUME q <= n - 1 PROVE FALSE
        OBVIOUS
      <3>1. Pow10(q) <= Pow10(n - 1)
        BY <2>1, PowersTimes
      <3>2. Pow10(q) \in Nat /\ Pow10(n - 1) \in Nat
        BY <2>1, PowerIsPositive
      <3> QED
        BY <2>1, <3>1, <3>2
    <2> QED
      BY <1>4, <2>2 DEF n
  <1> QED
    BY <1>2, <1>3 DEF n

(* Zeros, as digits. *)
LEMMA ZerosAre ==
    /\ "0" \in Digits
    /\ \A n \in Nat : Times("0", n) \in Seq(Digits) /\ Len(Times("0", n)) = n
    /\ Times("0", 0) = <<>>
    /\ \A n \in Nat : <<"0">> \o Times("0", n) = Times("0", n + 1)
    /\ Back(0) = <<"0">>
  <1>1. "0" \in Digits
    BY DigitsArePlain
  <1>2. \A n \in Nat : Times("0", n) \in Seq(Digits) /\ Len(Times("0", n)) = n
    BY <1>1, TimesIs
  <1>3. Times("0", 0) = <<>>
    BY <1>2, EmptySeq
  <1>4. Times("0", 1) = <<"0">>
    BY DEF Times
  <1>5. \A n \in Nat : <<"0">> \o Times("0", n) = Times("0", n + 1)
    <2> TAKE n \in Nat
    <2>1. Times("0", 1) \o Times("0", n) = Times("0", 1 + n)
      BY <1>1, TimesMore
    <2>2. 1 + n = n + 1
      OBVIOUS
    <2> QED
      BY <1>4, <2>1, <2>2
  <1>6. Back(0) = <<"0">>
    <2>1. Back(0) = <<Dig(0)>>
      BY BackLen
    <2>2. 0 % 10 = 0
      OBVIOUS
    <2>3. Dig(0) = DigitChars[1]
      BY <2>2, LowerDigits DEF Dig
    <2> QED
      BY <2>1, <2>3 DEF DigitChars
  <1> QED
    BY <1>1, <1>2, <1>3, <1>5, <1>6

(* The last q digits of a number, from the last to the first, with zeros.  *)
Low(v, q) == IF q = 0 THEN <<>> ELSE Back(v) \o Times("0", Larger(0, q - Len(Back(v))))

(* They are q, if the number has no more, and come one after another. *)
LEMMA LowIs ==
    ASSUME NEW v \in Nat, NEW q \in Nat, v < Pow10(q)
    PROVE  /\ Low(v, q) \in Seq(Digits) /\ Len(Low(v, q)) = q
           /\ q # 0 => Larger(0, q - Len(Back(v))) = q - Len(Back(v)) /\ Len(Back(v)) <= q
  <1>1. CASE q = 0
    BY <1>1, EmptySeq DEF Low
  <1>2. CASE q # 0
    <2> DEFINE n == Len(Back(v))
               m == Larger(0, q - n)
    <2>1. n \in Nat /\ n <= q
      <3>1. q \in Nat \ {0}
        BY <1>2
      <3> QED
        BY <3>1, BackShort, BackLen
    <2>2. m = q - n /\ m \in Nat
      BY <2>1 DEF Larger
    <2>3. Back(v) \in Seq(Digits) /\ Len(Back(v)) = n
      BY BackIs
    <2>4. Low(v, q) = Back(v) \o Times("0", m)
      BY <1>2 DEF Low
    <2> HIDE DEF n, m
    <2>5. Times("0", m) \in Seq(Digits) /\ Len(Times("0", m)) = m
      BY <2>2, ZerosAre
    <2>6. Back(v) \o Times("0", m) \in Seq(Digits) /\ Len(Back(v) \o Times("0", m)) = n + m
      BY <2>3, <2>5, ConcatProperties
    <2>7. n + m = q
      BY <2>1, <2>2
    <2> QED
      BY <2>1, <2>2, <2>4, <2>6, <2>7 DEF n, m
  <1> QED
    BY <1>1, <1>2

(* The last digit, and those of a tenth of the number. *)
LEMMA LowStep ==
    ASSUME NEW v \in Nat, NEW q \in Nat, v < Pow10(q + 1)
    PROVE  /\ v \div 10 \in Nat /\ v \div 10 < Pow10(q)
           /\ Low(v, q + 1) = <<Dig(v)>> \o Low(v \div 10, q)
  <1> DEFINE u == v \div 10
             d == <<Dig(v)>>
  <1>1. u \in Nat /\ v = 10 * u + (v % 10) /\ v % 10 \in 0 .. 9 /\ d \in Seq(Digits)
        /\ Back(v) = d \o IF u = 0 THEN <<>> ELSE Back(u)
    BY BackIs
  <1>2. Pow10(q + 1) = 10 * Pow10(q) /\ Pow10(q) \in Nat
    BY PowersAre, PowerIsPositive
  <1>3. u < Pow10(q)
    <2> HIDE DEF u
    <2>1. 10 * u < 10 * Pow10(q)
      BY <1>1, <1>2
    <2> QED
      BY <1>1, <1>2, <2>1
  <1>4. Len(d) = 1
    OBVIOUS
  <1> DEFINE n == Len(Back(v))
             m == Larger(0, (q + 1) - n)
  <1>5. Low(v, q + 1) = Back(v) \o Times("0", m)
    BY DEF Low
  <1>6. CASE u = 0
    <2>1. Back(v) = d /\ n = 1
      BY <1>1, <1>4, <1>6, ConcatEmptySeq
    <2>2. m = q
      BY <2>1 DEF Larger
    <2>3. Low(0, q) = Times("0", q)
      <3>1. CASE q = 0
        BY <3>1, ZerosAre DEF Low
      <3>2. CASE q # 0
        <4>1. Low(0, q) = Back(0) \o Times("0", Larger(0, q - Len(Back(0))))
          BY <3>2 DEF Low
        <4>2. Len(Back(0)) = 1
          BY BackLen
        <4>3. Larger(0, q - 1) = q - 1 /\ q - 1 \in Nat /\ (q - 1) + 1 = q
          BY <3>2 DEF Larger
        <4>4. <<"0">> \o Times("0", q - 1) = Times("0", (q - 1) + 1)
          BY <4>3, ZerosAre
        <4> QED
          BY <4>1, <4>2, <4>3, <4>4, ZerosAre
      <3> QED
        BY <3>1, <3>2
    <2> QED
      BY <1>3, <1>5, <1>6, <2>1, <2>2, <2>3
  <1>7. CASE u # 0
    <2>1. Back(v) = d \o Back(u) /\ Back(u) \in Seq(Digits)
      BY <1>1, <1>7, BackIs
    <2>2. n = 1 + Len(Back(u)) /\ Len(Back(u)) \in Nat
      BY <1>1, <1>4, <2>1, ConcatProperties, BackLen
    <2>3. q # 0
      BY <1>3, <1>7, <1>1, PowersAre
    <2>4. (q + 1) - n = q - Len(Back(u))
      BY <2>2
    <2>5. Low(u, q) = Back(u) \o Times("0", m)
      BY <2>3, <2>4 DEF Low
    <2>6. m \in Nat
      BY <2>2 DEF Larger
    <2> HIDE DEF m, d, u
    <2>7. Times("0", m) \in Seq(Digits)
      BY <2>6, ZerosAre
    <2>8. (d \o Back(u)) \o Times("0", m) = d \o (Back(u) \o Times("0", m))
      BY <1>1, <2>1, <2>7, ConcatAssociative
    <2>9. Low(v, q + 1) = d \o Low(u, q)
      BY <1>5, <2>1, <2>5, <2>8
    <2> QED
      BY <1>1, <1>3, <2>9 DEF d, u
  <1> QED
    BY <1>6, <1>7

(* The digits of a number are those of its fraction of a power of ten and  *)
(* those of the whole, which may be 0.                                     *)
LEMMA BackOfBoth ==
    \A q \in Nat : \A w \in Nat, f \in Nat :
       f < Pow10(q) =>
          LET k == w * Pow10(q) + f
          IN  /\ k \in Nat
              /\ Back(k) \o Times("0", Larger(0, (q + 1) - Len(Back(k)))) = Low(f, q) \o Back(w)
  <1> DEFINE K(w, q, f) == w * Pow10(q) + f
             Z(k, q) == Times("0", Larger(0, (q + 1) - Len(Back(k))))
             T == {q \in Nat : \A w \in Nat, f \in Nat :
                     f < Pow10(q) => Back(K(w, q, f)) \o Z(K(w, q, f), q) = Low(f, q) \o Back(w)}
  <1>1. \A q \in Nat, w \in Nat, f \in Nat : K(w, q, f) \in Nat
    <2> TAKE q \in Nat, w \in Nat, f \in Nat
    <2>1. Pow10(q) \in Nat
      BY PowerIsPositive
    <2> QED
      BY <2>1
  <1>5. ASSUME NEW a \in Seq(Digits), NEW b \in Seq(Digits), NEW c \in Seq(Digits)
        PROVE  (a \o b) \o c = a \o (b \o c)
    BY ConcatAssociative
  <1>2. 0 \in T
    <2>1. ASSUME NEW w \in Nat, NEW f \in Nat, f < Pow10(0)
          PROVE  Back(K(w, 0, f)) \o Z(K(w, 0, f), 0) = Low(f, 0) \o Back(w)
      <3>1. f = 0 /\ K(w, 0, f) = w
        BY <2>1, PowersAre
      <3>2. Len(Back(w)) \in Nat \ {0} /\ Back(w) \in Seq(Digits)
        BY BackLen, BackIs
      <3>3. Larger(0, (0 + 1) - Len(Back(w))) = 0
        <4> DEFINE n == Len(Back(w))
        <4>1. n \in Nat \ {0}
          BY <3>2
        <4> HIDE DEF n
        <4>2. Larger(0, (0 + 1) - n) = 0
          BY <4>1 DEF Larger
        <4> QED
          BY <4>2 DEF n
      <3>4. Z(w, 0) = <<>>
        BY <3>3, ZerosAre
      <3>5. Low(f, 0) = <<>>
        BY DEF Low
      <3> QED
        BY <3>1, <3>2, <3>4, <3>5, ConcatEmptySeq
    <2> QED
      BY <2>1
  <1>3. ASSUME NEW q \in Nat, q \in T PROVE q + 1 \in T
    <2>1. ASSUME NEW w \in Nat, NEW f \in Nat, f < Pow10(q + 1)
          PROVE  Back(K(w, q + 1, f)) \o Z(K(w, q + 1, f), q + 1) = Low(f, q + 1) \o Back(w)
      <3> DEFINE g == f \div 10
                 k == K(w, q, g)
                 l == K(w, q + 1, f)
                 d == <<Dig(f)>>
      <3>1. /\ g \in Nat /\ g < Pow10(q) /\ Low(f, q + 1) = d \o Low(g, q)
            /\ f = 10 * g + (f % 10) /\ f % 10 \in 0 .. 9 /\ d \in Seq(Digits)
        BY <2>1, LowStep, BackIs
      <3>2. k \in Nat /\ l \in Nat
        <4>1. q + 1 \in Nat
          OBVIOUS
        <4> HIDE DEF K, g
        <4> QED
          BY <1>1, <3>1, <4>1
      <3>3. l = 10 * k + (f % 10)
        <4>1. Pow10(q + 1) = 10 * Pow10(q) /\ Pow10(q) \in Nat
          BY PowersAre, PowerIsPositive
        <4> DEFINE x == Pow10(q)
                   r == f % 10
        <4>2. l = w * (10 * x) + (10 * g + r)
          BY <3>1, <4>1
        <4>3. k = w * x + g
          OBVIOUS
        <4>4. \A a \in Nat, b \in Nat, c \in Nat, e \in Nat :
                 a * (10 * b) + (10 * c + e) = 10 * (a * b + c) + e
          OBVIOUS
        <4>5. x \in Nat /\ r \in Nat
          BY <3>1, <4>1
        <4> HIDE DEF x, g, k, l, r
        <4>6. w * (10 * x) + (10 * g + r) = 10 * (w * x + g) + r
          BY <3>1, <4>4, <4>5
        <4>7. l = 10 * k + r
          BY <4>2, <4>3, <4>6
        <4> QED
          BY <4>7 DEF r
      <3>4. l \div 10 = k /\ l % 10 = f % 10
        <4> DEFINE r == f % 10
        <4>1. r \in 0 .. 9 /\ l = 10 * k + r
          BY <3>1, <3>3
        <4> HIDE DEF r, k, l
        <4>2. l \div 10 = k /\ l % 10 = r
          BY <3>2, <4>1
        <4> QED
          BY <4>2 DEF r
      <3>5. Back(k) \o Z(k, q) = Low(g, q) \o Back(w)
        BY <1>3, <3>1
      <3>6. Back(l) = d \o IF k = 0 THEN <<>> ELSE Back(k)
        <4>1. Back(l) = <<Dig(l)>> \o IF l \div 10 = 0 THEN <<>> ELSE Back(l \div 10)
          BY <3>2, BackIs
        <4>2. Dig(l) = Dig(f)
          BY <3>4 DEF Dig
        <4> HIDE DEF k, l
        <4> QED
          BY <3>4, <4>1, <4>2
      <3>7. Len(d) = 1
        OBVIOUS
      <3>12. d \in Seq(Digits)
        BY <3>1
      <3>8. Back(k) \in Seq(Digits) /\ Len(Back(k)) \in Nat /\ Back(w) \in Seq(Digits)
        BY <3>2, BackIs, BackLen
      <3>9. Low(g, q) \in Seq(Digits)
        BY <3>1, LowIs
      <3>10. Low(f, q + 1) \o Back(w) = d \o (Low(g, q) \o Back(w))
        <4>1. d \in Seq(Digits) /\ Low(f, q + 1) = d \o Low(g, q)
          BY <3>1
        <4>2. Back(w) \in Seq(Digits)
          BY BackIs
        <4> HIDE DEF d, g
        <4>3. (d \o Low(g, q)) \o Back(w) = d \o (Low(g, q) \o Back(w))
          BY ONLY <3>12, <4>2, <3>9, <1>5
        <4> QED
          BY ONLY <4>1, <4>3
      <3>11. Back(l) \o Z(l, q + 1) = d \o (Back(k) \o Z(k, q))
        <4>1. CASE k = 0
          <5>1. Back(l) = d /\ Len(Back(l)) = 1
            BY <3>1, <3>6, <3>7, <4>1, ConcatEmptySeq
          <5>2. Larger(0, ((q + 1) + 1) - 1) = q + 1 /\ Larger(0, (q + 1) - 1) = q
            BY DEF Larger
          <5>3. Z(l, q + 1) = Times("0", q + 1)
            BY <5>1, <5>2
          <5>4. Back(k) = <<"0">> /\ Len(Back(k)) = 1
            BY <4>1, ZerosAre
          <5>5. Z(k, q) = Times("0", q)
            BY <5>2, <5>4
          <5> HIDE DEF k, l, Z, d
          <5>6. <<"0">> \o Times("0", q) = Times("0", q + 1)
            BY ZerosAre
          <5> QED
            BY <5>1, <5>3, <5>4, <5>5, <5>6
        <4>2. CASE k # 0
          <5> DEFINE z == Z(k, q)
          <5>1. Back(l) = d \o Back(k)
            BY <3>6, <4>2
          <5>2. Len(Back(l)) = 1 + Len(Back(k))
            BY <3>1, <3>7, <3>8, <5>1, ConcatProperties
          <5>3. ((q + 1) + 1) - Len(Back(l)) = (q + 1) - Len(Back(k))
            <6> HIDE DEF k, l
            <6> QED
              BY <3>8, <5>2
          <5>4. Z(l, q + 1) = z
            BY <5>3
          <5>5. z \in Seq(Digits)
            <6>1. Larger(0, (q + 1) - Len(Back(k))) \in Nat
              <7> HIDE DEF k
              <7> QED
                BY <3>8 DEF Larger
            <6> QED
              BY <6>1, ZerosAre
          <5> HIDE DEF k, l, Z, d, z
          <5>6. (d \o Back(k)) \o z = d \o (Back(k) \o z)
            BY ONLY <3>12, <3>8, <5>5, <1>5
          <5> QED
            BY <5>1, <5>4, <5>6 DEF z
        <4> QED
          BY <4>1, <4>2
      <3> QED
        BY <3>5, <3>10, <3>11
    <2> HIDE DEF K, Z
    <2>2. \A w \in Nat, f \in Nat :
             f < Pow10(q + 1) =>
                Back(K(w, q + 1, f)) \o Z(K(w, q + 1, f), q + 1) = Low(f, q + 1) \o Back(w)
      BY <2>1
    <2>3. q + 1 \in Nat
      OBVIOUS
    <2> QED
      BY <2>2, <2>3
  <1> HIDE DEF T
  <1>4. \A q \in Nat : q \in T
    BY <1>2, <1>3, Induct
  <1> QED
    BY <1>1, <1>4 DEF T

(* Zeros at the end of a fraction. *)
LEMMA LowTimes ==
    ASSUME NEW f \in Nat, NEW q \in Nat, f < Pow10(q)
    PROVE  \A m \in Nat :
              /\ f * Pow10(m) \in Nat /\ f * Pow10(m) < Pow10(q + m)
              /\ Low(f * Pow10(m), q + m) = Times("0", m) \o Low(f, q)
  <1> DEFINE T == {m \in Nat : /\ f * Pow10(m) \in Nat /\ f * Pow10(m) < Pow10(q + m)
                               /\ Low(f * Pow10(m), q + m) = Times("0", m) \o Low(f, q)}
  <1>1. 0 \in T
    <2>1. f * Pow10(0) = f /\ q + 0 = q
      BY PowersAre
    <2>2. Times("0", 0) \o Low(f, q) = Low(f, q)
      BY LowIs, ZerosAre, ConcatEmptySeq
    <2> QED
      BY <2>1, <2>2
  <1>2. ASSUME NEW m \in Nat, m \in T PROVE m + 1 \in T
    <2> DEFINE x == f * Pow10(m)
               y == f * Pow10(m + 1)
    <2>1. x \in Nat /\ x < Pow10(q + m) /\ Low(x, q + m) = Times("0", m) \o Low(f, q)
      BY <1>2
    <2>2. y = 10 * x
      <3>1. Pow10(m + 1) = 10 * Pow10(m) /\ Pow10(m) \in Nat
        BY PowersAre, PowerIsPositive
      <3>2. \A a \in Nat, b \in Nat : a * (10 * b) = 10 * (a * b)
        OBVIOUS
      <3> QED
        BY <3>1, <3>2
    <2>3. q + (m + 1) = (q + m) + 1 /\ q + m \in Nat
      OBVIOUS
    <2>4. Pow10((q + m) + 1) = 10 * Pow10(q + m) /\ Pow10(q + m) \in Nat
      BY <2>3, PowersAre, PowerIsPositive
    <2> HIDE DEF x, y
    <2>5. y \in Nat /\ y < Pow10((q + m) + 1)
      BY <2>1, <2>2, <2>4
    <2>6. y \div 10 = x /\ y % 10 = 0
      BY <2>1, <2>2
    <2>7. Low(y, (q + m) + 1) = <<Dig(y)>> \o Low(x, q + m)
      BY <2>3, <2>5, <2>6, LowStep
    <2>8. Dig(y) = "0"
      <3>1. Dig(y) = DigitChars[1]
        BY <2>6, LowerDigits DEF Dig
      <3> QED
        BY <3>1 DEF DigitChars
    <2>9. <<"0">> \o (Times("0", m) \o Low(f, q)) = Times("0", m + 1) \o Low(f, q)
      <3>1. /\ <<"0">> \in Seq(Digits) /\ Times("0", m) \in Seq(Digits) /\ Low(f, q) \in Seq(Digits)
        BY ZerosAre, LowIs, OneChar
      <3>2. <<"0">> \o (Times("0", m) \o Low(f, q)) = (<<"0">> \o Times("0", m)) \o Low(f, q)
        BY <3>1, ConcatAssociative
      <3> QED
        BY <3>2, ZerosAre
    <2>10. Low(y, q + (m + 1)) = Times("0", m + 1) \o Low(f, q)
      BY <2>1, <2>3, <2>7, <2>8, <2>9
    <2> QED
      BY <2>3, <2>5, <2>10 DEF y
  <1> HIDE DEF T
  <1>3. \A m \in Nat : m \in T
    BY <1>1, <1>2, Induct
  <1> QED
    BY <1>3 DEF T

(* The quotient and the rest of a division are the only ones. *)
LEMMA QuotientIs ==
    ASSUME NEW u \in Nat \ {0}, NEW k \in Nat, NEW d \in Nat, d < u
    PROVE  (k * u + d) \div u = k /\ (k * u + d) % u = d
  <1> DEFINE x == k * u + d
             c == x \div u
             t == x % u
  <1>1. x \in Nat
    OBVIOUS
  <1>2. x = u * c + t /\ t \in 0 .. u - 1 /\ c \in Nat
    <2> HIDE DEF x
    <2> QED
      BY <1>1
  <1>3. u * c = c * u
    BY <1>2
  <1> HIDE DEF c, t
  <1>4. \A a \in Nat, e \in Nat \ {0} : (a + e) * u = a * u + e * u /\ e * u >= u /\ a * u \in Nat
    OBVIOUS
  <1>5. ~(c < k)
    <2> SUFFICES ASSUME c < k PROVE FALSE
      OBVIOUS
    <2> DEFINE e == k - c
    <2>1. e \in Nat \ {0} /\ k = c + e
      BY <1>2
    <2> HIDE DEF e
    <2>2. k * u = c * u + e * u /\ e * u >= u /\ c * u \in Nat
      BY <1>2, <1>4, <2>1
    <2> QED
      BY <1>2, <1>3, <2>2
  <1>6. ~(k < c)
    <2> SUFFICES ASSUME k < c PROVE FALSE
      OBVIOUS
    <2> DEFINE e == c - k
    <2>1. e \in Nat \ {0} /\ c = k + e
      BY <1>2
    <2> HIDE DEF e
    <2>2. c * u = k * u + e * u /\ e * u >= u /\ k * u \in Nat
      BY <1>2, <1>4, <2>1
    <2> QED
      BY <1>2, <1>3, <2>2
  <1>7. c = k
    BY <1>2, <1>5, <1>6
  <1>8. t = d
    BY <1>2, <1>3, <1>7
  <1> QED
    BY <1>7, <1>8 DEF c, t

(* A number is divided by a part of a power as the whole and the rest are. *)
LEMMA DividedTwice ==
    ASSUME NEW n \in Nat, NEW u \in Nat \ {0}, NEW p \in Nat \ {0}
    PROVE  LET w == n \div (p * u)
               f == (n % (p * u)) \div u
           IN  /\ w \in Nat /\ f \in Nat /\ f < p
               /\ n \div u = w * p + f
               /\ n % u \in Nat /\ n % u < u
  <1> DEFINE s == p * u
             w == n \div s
             b == n % s
             f == b \div u
             d == b % u
  <1>1. s \in Nat \ {0}
    OBVIOUS
  <1>2. n = s * w + b /\ b \in 0 .. s - 1 /\ w \in Nat
    <2> HIDE DEF s
    <2> QED
      BY <1>1
  <1> HIDE DEF w, b
  <1>3. b = u * f + d /\ d \in 0 .. u - 1 /\ f \in Nat
    BY <1>2
  <1> HIDE DEF f, d
  <1>4. f < p
    <2> SUFFICES ASSUME ~(f < p) PROVE FALSE
      OBVIOUS
    <2> DEFINE e == f - p
    <2>1. e \in Nat /\ f = p + e
      BY <1>3
    <2> HIDE DEF e
    <2>2. u * f = p * u + e * u /\ e * u \in Nat
      BY <2>1
    <2> QED
      BY <1>2, <1>3, <2>2
  <1>5. n = (w * p + f) * u + d
    <2>1. (w * p + f) * u + d = (w * (p * u) + f * u) + d
      BY <1>2, <1>3
    <2>2. w * (p * u) = s * w /\ f * u = u * f
      BY <1>2, <1>3
    <2>3. s * w \in Nat /\ u * f \in Nat
      BY <1>1, <1>2, <1>3
    <2> DEFINE x == s * w
               y == u * f
               z == (w * p + f) * u
    <2>4. z + d = (x + y) + d /\ n = x + b /\ b = y + d
      BY <1>2, <1>3, <2>1, <2>2
    <2>5. z \in Nat /\ x \in Nat /\ y \in Nat
      BY <1>2, <1>3, <2>3
    <2> HIDE DEF x, y, z
    <2>6. n = z + d
      BY <1>2, <1>3, <2>4, <2>5
    <2> QED
      BY <2>6 DEF z
  <1>6. w * p + f \in Nat
    BY <1>2, <1>3
  <1>7. n \div u = w * p + f /\ n % u = d
    <2> DEFINE k == w * p + f
    <2>1. k \in Nat /\ n = k * u + d /\ d \in Nat /\ d < u
      BY <1>3, <1>5, <1>6
    <2> HIDE DEF k
    <2>2. n \div u = k /\ n % u = d
      BY <2>1, QuotientIs
    <2> QED
      BY <2>2 DEF k
  <1>8. d \in Nat /\ d < u
    BY <1>3
  <1>9. /\ w \in Nat /\ f \in Nat /\ f < p
        /\ n \div u = w * p + f /\ n % u \in Nat /\ n % u < u
    BY <1>2, <1>3, <1>4, <1>7, <1>8
  <1> QED
    BY <1>9 DEF w, f, b, s

(* What is rounded is one of the nearest, and its fraction has no digit    *)
(* too many, except for nines that are half way to the next number.        *)
LEMMA RoundNear ==
    ASSUME NEW v \in Scaled, NEW p \in Nat
    PROVE  LET q == Smaller(p, v.scale)
               r == Round(v, p)
           IN  /\ HalfWay(v, p) => r.frac = Pow10(p) /\ r.whole \in Nat /\ p # 0 /\ q = p
               /\ ~HalfWay(v, p) =>
                    /\ r.whole \in Nat
                    /\ \E f \in Nat : /\ f < Pow10(q)
                                      /\ r.whole * Pow10(q) + f \in CNearest(v, q)
                                      /\ p # 0 => r.frac = f * Pow10(p - q)
  <1> DEFINE q == Smaller(p, v.scale)
             unit == Pow10(v.scale - q)
             all == Pow10(v.scale)
             one == Pow10(q)
             w == v.n \div all
             f == (v.n % all) \div unit
             d == v.n % unit
             r == Round(v, p)
  <1>1. v.scale \in Nat /\ v.n \in Nat /\ v.lean \in {-1, 0, 1}
    BY DEF Scaled
  <1>2. q \in Nat /\ v.scale - q \in Nat /\ p - q \in Nat /\ q <= v.scale
        /\ (q < v.scale => q = p)
    BY <1>1 DEF Smaller
  <1>3. unit \in Nat \ {0} /\ one \in Nat \ {0} /\ all = one * unit
    <2>1. q + (v.scale - q) = v.scale
      BY <1>1, <1>2
    <2> QED
      BY <1>2, <2>1, PowersTimes, PowerIsPositive
  <1>4. /\ w \in Nat /\ f \in Nat /\ f < one
        /\ v.n \div unit = w * one + f
        /\ d \in Nat /\ d < unit
    <2> DEFINE n == v.n
    <2>1. n \in Nat
      BY <1>1
    <2> HIDE DEF n, unit, one, all
    <2>2. /\ n \div (one * unit) \in Nat
          /\ (n % (one * unit)) \div unit \in Nat /\ (n % (one * unit)) \div unit < one
          /\ n \div unit = (n \div (one * unit)) * one + ((n % (one * unit)) \div unit)
          /\ n % unit \in Nat /\ n % unit < unit
      BY <1>3, <2>1, DividedTwice
    <2> QED
      BY <1>3, <2>2 DEF n
  <1>5. q = v.scale => unit = 1
    <2>1. q = v.scale => v.scale - q = 0
      BY <1>1
    <2> QED
      BY <2>1, PowersAre
  <1>6. 2 * d >= unit => q < v.scale /\ q = p
    <2> SUFFICES ASSUME 2 * d >= unit PROVE q < v.scale
      BY <1>2
    <2>1. ~(unit = 1)
      BY <1>3, <1>4
    <2> QED
      BY <1>1, <1>2, <1>5, <2>1
  <1>7. CNearest(v, q) = (IF 2 * d <= unit THEN {w * one + f} ELSE {})
                            \union (IF 2 * d >= unit THEN {(w * one + f) + 1} ELSE {})
    BY <1>4 DEF CNearest
  <1>8. q = p => f * Pow10(p - q) = f
    <2> SUFFICES ASSUME q = p PROVE f * Pow10(p - q) = f
      OBVIOUS
    <2>1. p - q = 0
      OBVIOUS
    <2>2. Pow10(p - q) = 1
      BY <2>1, PowersAre
    <2> HIDE DEF f
    <2> QED
      BY <1>4, <2>2
  <1> DEFINE frac == f * Pow10(p - q)
             twice == 2 * d
             above == twice > unit \/ (twice = unit /\ v.lean > 0)
             tie == twice = unit /\ v.lean = 0
             carry == above /\ frac + 1 = Pow10(p)
             kept == IF carry THEN w + 1 ELSE w
  <1>9. r = [whole |-> IF p = 0 /\ tie /\ kept % 2 = 1 THEN kept + 1 ELSE kept,
             frac |-> IF carry THEN 0
                      ELSE IF above \/ (tie /\ (frac = 0 \/ frac % 2 = 1))
                      THEN frac + 1 ELSE frac]
    BY Zenon DEF Round
  <1>10. /\ r.whole = IF p = 0 /\ tie /\ kept % 2 = 1 THEN kept + 1 ELSE kept
         /\ r.frac = IF carry THEN 0
                     ELSE IF above \/ (tie /\ (frac = 0 \/ frac % 2 = 1))
                     THEN frac + 1 ELSE frac
    <2> HIDE DEF r, kept, tie, carry, above, frac
    <2> QED
      BY <1>9
  <1>11. HalfWay(v, p) <=> p # 0 /\ p < v.scale /\ q = p /\ twice = unit /\ v.lean = 0
                           /\ f = one - 1
    <2>1. p < v.scale => q = p
      BY <1>1 DEF Smaller
    <2>2. p \in 1 .. v.scale - 1 <=> p # 0 /\ p < v.scale
      BY <1>1
    <2>3. CASE p < v.scale
      <3>1. q = p
        BY <2>1, <2>3
      <3> HIDE DEF q
      <3> QED
        BY <2>2, <2>3, <3>1 DEF HalfWay
    <2>4. CASE ~(p < v.scale)
      BY <2>2, <2>4 DEF HalfWay
    <2> QED
      BY <2>3, <2>4
  <1> DEFINE H == HalfWay(v, p)
             N == CNearest(v, q)
  <1> HIDE DEF H, N, q, unit, all, one, w, f, d, r, frac
  <1>12. p = 0 => one = 1 /\ f = 0 /\ q = 0
    <2> SUFFICES ASSUME p = 0 PROVE q = 0
      BY <1>3, <1>4, PowersAre DEF one
    <2> QED
      BY <1>1 DEF q, Smaller
  <1>13. q = p => frac = f /\ Pow10(p) = one
    BY <1>8 DEF frac, one
  <1>14. ASSUME NEW g \in Nat, g < one, NEW x \in Nat, x = r.whole, x * one + g \in N,
               p # 0 => r.frac = g * Pow10(p - q), ~H
         PROVE  /\ r.whole \in Nat
                /\ \E e \in Nat : /\ e < one /\ r.whole * one + e \in N
                                  /\ p # 0 => r.frac = e * Pow10(p - q)
    BY <1>14
  <1>15. w * one \in Nat /\ (w + 1) * one = w * one + one
    BY <1>3, <1>4
  <1>16. CASE twice < unit \/ (twice = unit /\ v.lean < 0)
    <2>1. ~above /\ ~tie /\ twice <= unit
      BY <1>1, <1>3, <1>4, <1>16
    <2>2. r.whole = w /\ r.frac = frac
      BY <1>10, <2>1
    <2>3. w * one + f \in N
      BY <1>7, <2>1 DEF N
    <2>4. ~H
      BY <1>11, <1>16, <1>4, <1>3, <1>1 DEF H
    <2>5. /\ r.whole \in Nat
          /\ \E e \in Nat : /\ e < one /\ r.whole * one + e \in N
                            /\ p # 0 => r.frac = e * Pow10(p - q)
      BY <1>4, <1>14, <2>2, <2>3, <2>4 DEF frac
    <2> QED
      BY <2>4, <2>5 DEF H, N, r, one, q
  <1>17. CASE above
    <2>1. twice >= unit /\ ~tie /\ q = p
      BY <1>1, <1>3, <1>4, <1>6, <1>17
    <2>2. frac = f /\ Pow10(p) = one
      BY <1>13, <2>1
    <2>3. (w * one + f) + 1 \in N
      BY <1>7, <2>1 DEF N
    <2>4. ~H
      BY <1>1, <1>4, <1>3, <1>11, <1>17 DEF H
    <2>8. Pow10(p - q) = 1
      <3>1. p - q = 0
        BY <2>1, <1>2
      <3> QED
        BY <3>1, PowersAre
    <2>5. CASE f + 1 = one
      <3>1. r.whole = w + 1 /\ r.frac = 0
        BY <1>10, <1>17, <2>1, <2>2, <2>5
      <3>2. (w + 1) * one + 0 = (w * one + f) + 1
        BY <1>3, <1>4, <1>15, <2>5
      <3>3. 0 < one /\ 0 * Pow10(p - q) = 0 /\ w + 1 \in Nat
        BY <1>3, <1>4, <2>8
      <3>4. (w + 1) * one + 0 \in N
        BY <2>3, <3>2
      <3>5. /\ r.whole \in Nat
            /\ \E e \in Nat : /\ e < one /\ r.whole * one + e \in N
                              /\ p # 0 => r.frac = e * Pow10(p - q)
        BY <1>14, <2>4, <3>1, <3>3, <3>4
      <3> QED
        BY <2>4, <3>5 DEF H, N, r, one, q
    <2>6. CASE f + 1 # one
      <3>1. r.whole = w /\ r.frac = f + 1
        BY <1>10, <1>17, <2>1, <2>2, <2>6
      <3>2. w * one + (f + 1) = (w * one + f) + 1 /\ f + 1 \in Nat /\ f + 1 < one
        BY <1>3, <1>4, <1>15, <2>6
      <3>3. (f + 1) * Pow10(p - q) = f + 1
        BY <1>4, <2>8
      <3>4. w * one + (f + 1) \in N
        BY <2>3, <3>2
      <3>5. /\ r.whole \in Nat
            /\ \E e \in Nat : /\ e < one /\ r.whole * one + e \in N
                              /\ p # 0 => r.frac = e * Pow10(p - q)
        BY <1>4, <1>14, <2>4, <3>1, <3>2, <3>3, <3>4
      <3> QED
        BY <2>4, <3>5 DEF H, N, r, one, q
    <2> QED
      BY <2>5, <2>6
  <1>18. CASE tie
    <2>1. twice >= unit /\ twice <= unit /\ ~above /\ q = p /\ p < v.scale
      BY <1>1, <1>3, <1>4, <1>6, <1>18
    <2>2. frac = f /\ Pow10(p) = one
      BY <1>13, <2>1
    <2>3. (w * one + f) + 1 \in N /\ w * one + f \in N
      BY <1>7, <2>1 DEF N
    <2>4. ~carry /\ kept = w
      BY <2>1
    <2>8. Pow10(p - q) = 1
      <3>1. p - q = 0
        BY <2>1, <1>2
      <3> QED
        BY <3>1, PowersAre
    <2>5. CASE p = 0
      <3>1. one = 1 /\ f = 0
        BY <1>12, <2>5
      <3>2. ~H
        BY <1>11, <2>5 DEF H
      <3>3. r.whole = w \/ r.whole = w + 1
        BY <1>10, <2>4
      <3>4. w * one + 0 \in N /\ (w + 1) * one + 0 \in N
        <4>1. w * one + 0 = w * one + f /\ (w + 1) * one + 0 = (w * one + f) + 1
          BY <1>4, <1>15, <3>1
        <4> QED
          BY <2>3, <4>1
      <3>5. w \in Nat /\ w + 1 \in Nat /\ 0 < one
        BY <1>3, <1>4
      <3>6. /\ r.whole \in Nat
            /\ \E e \in Nat : /\ e < one /\ r.whole * one + e \in N
                              /\ p # 0 => r.frac = e * Pow10(p - q)
        BY <1>14, <2>5, <3>2, <3>3, <3>4, <3>5
      <3> QED
        BY <3>2, <3>6 DEF H, N, r, one, q
    <2>6. CASE p # 0
      <3>1. r.whole = w
        BY <1>10, <2>4, <2>6
      <3>2. r.frac = IF f = 0 \/ f % 2 = 1 THEN f + 1 ELSE f
        BY <1>10, <1>18, <2>1, <2>2, <2>4
      <3>3. one % 2 = 0 /\ one >= 2
        <4>1. p - 1 \in Nat /\ (p - 1) + 1 = p
          BY <2>6
        <4>2. Pow10(p) = 10 * Pow10(p - 1) /\ Pow10(p - 1) \in Nat \ {0}
          BY <4>1, PowersAre, PowerIsPositive
        <4> QED
          BY <2>2, <4>2
      <3>4. CASE f = one - 1
        <4>1. H
          BY <1>11, <1>18, <2>1, <2>6, <3>4 DEF H
        <4>2. f % 2 = 1
          BY <1>3, <3>3, <3>4
        <4>3. r.frac = Pow10(p)
          BY <1>3, <1>4, <2>2, <3>2, <3>4, <4>2
        <4> QED
          BY <1>4, <2>1, <2>6, <3>1, <4>1, <4>3 DEF H, r, q
      <3>5. CASE f # one - 1
        <4>1. ~H
          BY <1>11, <3>5 DEF H
        <4>2. f + 1 \in Nat /\ f + 1 < one /\ w * one + (f + 1) = (w * one + f) + 1
          BY <1>3, <1>4, <1>15, <3>5
        <4>3. (f + 1) * Pow10(p - q) = f + 1 /\ f * Pow10(p - q) = f
          BY <1>4, <2>8
        <4>4. w * one + (f + 1) \in N
          BY <2>3, <4>2
        <4>5. /\ r.whole \in Nat
              /\ \E e \in Nat : /\ e < one /\ r.whole * one + e \in N
                                /\ p # 0 => r.frac = e * Pow10(p - q)
          BY <1>4, <1>14, <2>3, <3>1, <3>2, <4>1, <4>2, <4>3, <4>4
        <4> QED
          BY <4>1, <4>5 DEF H, N, r, one, q
      <3> QED
        BY <3>4, <3>5
    <2> QED
      BY <2>5, <2>6
  <1>19. (twice < unit \/ (twice = unit /\ v.lean < 0)) \/ above \/ tie
    BY <1>1, <1>3, <1>4
  <1> QED
    BY <1>16, <1>17, <1>18, <1>19

(* The digits are among the characters that are neither blank nor minus. *)
LEMMA DigitsAreSolid ==
    /\ Digits \subseteq Solid /\ "." \in Solid /\ "." \notin Digits
    /\ "-" \notin Digits /\ "+" \notin Digits /\ " " \notin Digits
    /\ \A s : s \in Seq(Digits) => s \in Seq(Solid)
  <1>1. /\ "." \notin Digits /\ "-" \notin Digits /\ "+" \notin Digits /\ " " \notin Digits
    BY DigitsArePlain
  <1>2. Digits \subseteq Chars /\ "." \in Chars
    BY ClassesAreApart
  <1>3. Digits \subseteq Solid /\ "." \in Solid
    BY <1>1, <1>2 DEF Solid
  <1>4. \A s : s \in Seq(Digits) => s \in Seq(Solid)
    BY <1>3, SeqMonotonic
  <1> QED
    BY <1>1, <1>3, <1>4

(* The first of two texts. *)
LEMMA FrontOfBoth ==
    ASSUME NEW S, NEW s \in Seq(S), NEW t \in Seq(S)
    PROVE  SubSeq(s \o t, 1, Len(s)) = s
  <1> DEFINE r == s \o t
             n == Len(s)
  <1>1. /\ r \in Seq(S) /\ Len(r) = Len(s) + Len(t) /\ Len(s) \in Nat /\ Len(t) \in Nat
        /\ \A i \in 1 .. Len(s) + Len(t) : r[i] = IF i <= Len(s) THEN s[i] ELSE t[i - Len(s)]
    BY ConcatProperties, LenProperties
  <1>2. n \in Nat /\ n <= Len(r)
    BY <1>1
  <1> HIDE DEF r
  <1>3. /\ SubSeq(r, 1, n) \in Seq(S) /\ Len(SubSeq(r, 1, n)) = n
        /\ \A i \in 1 .. n : SubSeq(r, 1, n)[i] = r[i]
    BY <1>1, <1>2, PrefixIs
  <1>4. \A i \in 1 .. n : SubSeq(r, 1, n)[i] = s[i]
    <2> TAKE i \in 1 .. n
    <2>1. i \in 1 .. Len(s) + Len(t) /\ i <= Len(s)
      BY <1>1
    <2> QED
      BY <1>1, <1>3, <2>1
  <1>5. SubSeq(r, 1, n) = s
    BY <1>3, <1>4, SeqEqual
  <1> QED
    BY <1>5 DEF r, n

(* A number with a decimals back to front, q of them those of f. *)
Places(f, q, a) == Times("0", a - q) \o Low(f, q)
Written10(w, f, q, a) ==
    IF a = 0 THEN Back(w) ELSE (Places(f, q, a) \o <<".">>) \o Back(w)

(* The decimals are digits, a of them. *)
LEMMA PlacesAre ==
    ASSUME NEW q \in Nat, NEW f \in Nat, f < Pow10(q), NEW a \in Nat, q <= a
    PROVE  Places(f, q, a) \in Seq(Digits) /\ Len(Places(f, q, a)) = a
  <1> DEFINE z == Times("0", a - q)
             l == Low(f, q)
  <1>1. z \in Seq(Digits) /\ Len(z) = a - q
    <2>1. a - q \in Nat
      OBVIOUS
    <2> QED
      BY <2>1, ZerosAre
  <1>2. l \in Seq(Digits) /\ Len(l) = q
    BY LowIs
  <1> HIDE DEF z, l
  <1>3. z \o l \in Seq(Digits) /\ Len(z \o l) = (a - q) + q
    BY <1>1, <1>2, ConcatProperties
  <1>4. (a - q) + q = a
    OBVIOUS
  <1> QED
    BY <1>3, <1>4 DEF Places, z, l

(* So they are with the point. *)
LEMMA PointIs ==
    ASSUME NEW q \in Nat, NEW f \in Nat, f < Pow10(q), NEW a \in Nat, q <= a
    PROVE  /\ Places(f, q, a) \o <<".">> \in Seq(Solid)
           /\ Len(Places(f, q, a) \o <<".">>) = a + 1
           /\ Has(Places(f, q, a) \o <<".">>, ".")
  <1> DEFINE m == Places(f, q, a)
             dot == <<".">>
  <1>1. m \in Seq(Solid) /\ Len(m) = a
    BY PlacesAre, DigitsAreSolid
  <1>2. dot \in Seq(Solid) /\ Len(dot) = 1 /\ Has(dot, ".")
    BY DigitsAreSolid, OneOf
  <1> HIDE DEF m, dot
  <1>3. m \o dot \in Seq(Solid) /\ Len(m \o dot) = a + 1 /\ Has(m \o dot, ".")
    BY <1>1, <1>2, ConcatProperties, HasOfBoth
  <1> QED
    BY <1>3 DEF m, dot

(* The whole number has a point if there are decimals, and it is longer    *)
(* than they are.                                                          *)
LEMMA WrittenIs ==
    ASSUME NEW w \in Nat, NEW q \in Nat, NEW f \in Nat, f < Pow10(q), NEW a \in Nat, q <= a
    PROVE  /\ Written10(w, f, q, a) \in Seq(Solid)
           /\ a # 0 => Has(Written10(w, f, q, a), ".")
           /\ a # 0 => a < Len(Written10(w, f, q, a))
  <1> DEFINE m == Places(f, q, a) \o <<".">>
             b == Back(w)
  <1>1. m \in Seq(Solid) /\ Len(m) = a + 1 /\ Has(m, ".")
    BY PointIs
  <1>2. b \in Seq(Solid) /\ Len(b) \in Nat
    BY BackIs, BackLen, DigitsAreSolid
  <1>3. Written10(w, f, q, a) = IF a = 0 THEN b ELSE m \o b
    BY DEF Written10
  <1> HIDE DEF m, b
  <1>4. m \o b \in Seq(Solid) /\ Len(m \o b) = (a + 1) + Len(b) /\ Has(m \o b, ".")
    <2>1. m \o b \in Seq(Solid) /\ Len(m \o b) = Len(m) + Len(b)
      BY <1>1, <1>2, ConcatProperties
    <2>2. Has(m \o b, ".")
      BY <1>1, <1>2, HasOfBoth
    <2> QED
      BY <1>1, <2>1, <2>2
  <1>5. a < Len(m \o b)
    BY <1>2, <1>4
  <1> QED
    BY <1>2, <1>3, <1>4, <1>5

(* What the C standard writes is this. *)
LEMMA CDecimalIs ==
    ASSUME NEW w \in Nat, NEW q \in Nat, NEW f \in Nat, f < Pow10(q), NEW a \in Nat, q <= a
    PROVE  CDecimal(w * Pow10(q) + f, q, a) = Reverse(Written10(w, f, q, a))
  <1> DEFINE k == w * Pow10(q) + f
             d == Back(k)
             z == Times("0", a - q)
             t == Times("0", Larger(0, (q + 1) - Len(d)))
             l == Low(f, q)
             b == Back(w)
             dot == <<".">>
             m == z \o l
             r == (z \o d) \o t
  <1>1. k \in Nat /\ d \o t = l \o b
    BY BackOfBoth
  <1>2. /\ z \in Seq(Digits) /\ l \in Seq(Digits) /\ b \in Seq(Digits) /\ d \in Seq(Digits)
        /\ t \in Seq(Digits)
    <2>1. a - q \in Nat
      OBVIOUS
    <2>2. Larger(0, (q + 1) - Len(d)) \in Nat
      <3>1. Len(d) \in Nat
        BY <1>1, BackLen
      <3> HIDE DEF d
      <3> QED
        BY <3>1 DEF Larger
    <2>3. z \in Seq(Digits)
      BY <2>1, ZerosAre
    <2>4. t \in Seq(Digits)
      BY <2>2, ZerosAre
    <2>5. l \in Seq(Digits)
      BY LowIs
    <2>6. b \in Seq(Digits)
      BY BackIs
    <2>7. d \in Seq(Digits)
      BY <1>1, BackIs
    <2> QED
      BY <2>3, <2>4, <2>5, <2>6, <2>7
  <1>3. m \in Seq(Digits) /\ Len(m) = a
    <2>1. Places(f, q, a) \in Seq(Digits) /\ Len(Places(f, q, a)) = a
      BY PlacesAre
    <2>2. m = Places(f, q, a)
      BY DEF Places
    <2> HIDE DEF m
    <2> QED
      BY <2>1, <2>2
  <1>4. CDecimal(k, q, a) = Reverse(SubSeq(r, a + 1, Len(r)))
                               \o (IF a = 0 THEN <<>> ELSE dot \o Reverse(SubSeq(r, 1, a)))
    <2> HIDE DEF k
    <2> DEFINE R == (Times("0", a - q) \o Reversed(k, 10, Lower))
                       \o Times("0", Larger(0, q + 1 - Len(Reversed(k, 10, Lower))))
    <2>1. CDecimal(k, q, a) = Reverse(SubSeq(R, a + 1, Len(R)))
                                 \o (IF a = 0 THEN <<>> ELSE <<".">> \o Reverse(SubSeq(R, 1, a)))
      BY DEF CDecimal
    <2>2. R = r
      BY DEF Back
    <2> HIDE DEF r, R
    <2> QED
      BY <2>1, <2>2
  <1>5. Written10(w, f, q, a) = IF a = 0 THEN b ELSE (m \o dot) \o b
    BY DEF Written10, Places
  <1>6. dot \in Seq(Solid) /\ Reverse(dot) = dot
    <2>1. dot \in Seq(Solid)
      BY DigitsAreSolid, OneOf
    <2>2. Reverse(dot) = dot
      BY DEF Reverse
    <2> QED
      BY <2>1, <2>2
  <1>11. ASSUME NEW x \in Seq(Digits), NEW y \in Seq(Digits), NEW u \in Seq(Digits)
         PROVE  (x \o y) \o u = x \o (y \o u)
    BY ConcatAssociative
  <1> HIDE DEF k, d, z, t, l, b, dot
  <1>7. r = m \o b
    <2>1. r = z \o (d \o t)
      BY ONLY <1>2, <1>11
    <2>2. z \o (l \o b) = (z \o l) \o b
      BY ONLY <1>2, <1>11
    <2> QED
      BY <1>1, <2>1, <2>2
  <1> HIDE DEF m, r
  <1>8. SubSeq(r, a + 1, Len(r)) = b /\ SubSeq(r, 1, a) = m
    BY <1>2, <1>3, <1>7, RestOfBoth, FrontOfBoth
  <1>9. CASE a = 0
    <2>1. Reverse(b) \in Seq(Digits)
      BY <1>2, ReverseIs
    <2>2. CDecimal(k, q, a) = Reverse(b)
      BY <1>4, <1>8, <1>9, <2>1, ConcatEmptySeq
    <2> QED
      BY <1>5, <1>9, <2>2 DEF k
  <1>10. CASE a # 0
    <2>1. m \in Seq(Solid) /\ b \in Seq(Solid)
      BY <1>2, <1>3, DigitsAreSolid
    <2>2. m \o dot \in Seq(Solid)
      BY <1>6, <2>1, ConcatProperties
    <2>3. Reverse((m \o dot) \o b) = Reverse(b) \o Reverse(m \o dot)
      BY <2>1, <2>2, ReverseOfTwo
    <2>4. Reverse(m \o dot) = Reverse(dot) \o Reverse(m)
      BY <1>6, <2>1, ReverseOfTwo
    <2> QED
      BY <1>4, <1>5, <1>6, <1>8, <1>10, <2>3, <2>4 DEF k
  <1> QED
    BY <1>9, <1>10

(* A signed text in a field, as the C standard puts it there. *)
Just(left, zeros, w, sign, body) ==
    LET n == Larger(0, (w - Len(sign)) - Len(body))
    IN  IF left THEN (sign \o body) \o Times(" ", n)
        ELSE IF zeros THEN (sign \o Times("0", n)) \o body
        ELSE (Times(" ", n) \o sign) \o body

(* _ftoa fills the field with zeros and _out_rev with blanks as the C      *)
(* standard does, unless the buffer is too small.                          *)
LEMMA JustIs ==
    ASSUME NEW y \in Seq(Solid), NEW negative, NEW w \in Nat, NEW fl,
           Len(y) + Len(Sign(negative, fl)) <= NumSize,
           "0" \in fl /\ "-" \notin fl => w <= NumSize
    PROVE  LET s == Sign(negative, fl)
               zeros == IF "0" \in fl /\ "-" \notin fl
                        THEN FillTo(y, "0", ZeroWidth(w, negative, fl)) ELSE y
           IN  OutRev(Room(zeros \o s), w, fl) = Just("-" \in fl, "0" \in fl, w, s, Reverse(y))
  <1> DEFINE s == Sign(negative, fl)
             zw == ZeroWidth(w, negative, fl)
             n == Larger(0, (w - Len(s)) - Len(y))
             zeros == IF "0" \in fl /\ "-" \notin fl THEN FillTo(y, "0", zw) ELSE y
  <1>1. /\ s \in Seq(Chars) /\ Len(s) = (IF s = <<>> THEN 0 ELSE 1) /\ Reverse(s) = s
        /\ y \in Seq(Chars) /\ Len(y) \in Nat
        /\ Reverse(y) \in Seq(Chars) /\ Len(Reverse(y)) = Len(y)
    <2>1. s \in Seq(Chars) /\ Len(s) = (IF s = <<>> THEN 0 ELSE 1) /\ Reverse(s) = s
      BY SignAre
    <2>2. y \in Seq(Chars)
      BY SolidIs, SeqMonotonic
    <2>3. Reverse(y) \in Seq(Chars) /\ Len(Reverse(y)) = Len(y)
      BY <2>2, ReverseIs
    <2> QED
      BY <2>1, <2>2, <2>3, LenProperties
  <1>2. NumSize \in Nat
    BY TypeSizesAssumption
  <1>3. zw = IF w > 0 /\ ("0" \in fl /\ "-" \notin fl) /\ s # <<>> THEN w - 1 ELSE w
    <2>1. {"0", "-"} \intersect fl = {"0"} <=> "0" \in fl /\ "-" \notin fl
      BY SMT
    <2> QED
      BY <2>1 DEF ZeroWidth
  <1>4. n \in Nat
    <2> HIDE DEF s
    <2>1. Len(s) \in Nat
      BY <1>1
    <2> QED
      BY <1>1, <2>1 DEF Larger
  <1>5. Times(" ", n) \in Seq(Chars) /\ Times("0", n) \in Seq(Chars)
    BY <1>4, KnownAre, TimesIs
  <1>6. ASSUME NEW a \in Seq(Chars), NEW b \in Seq(Chars), NEW c \in Seq(Chars)
        PROVE  (a \o b) \o c = a \o (b \o c)
    BY ConcatAssociative
  <1>7. ASSUME NEW x \in Seq(Chars), Len(x) + Len(s) <= NumSize
        PROVE  Room(x \o s) = x \o s /\ Reverse(x \o s) = s \o Reverse(x)
               /\ Len(x \o s) = Len(x) + Len(s)
    <2> HIDE DEF s
    <2>1. x \o s \in Seq(Chars) /\ Len(x \o s) = Len(x) + Len(s)
      BY <1>1, ConcatProperties
    <2>2. Room(x \o s) = x \o s
      BY <1>7, <2>1, RoomLen
    <2>3. Reverse(x \o s) = Reverse(s) \o Reverse(x)
      BY <1>1, ReverseOfTwo
    <2> QED
      BY <1>1, <2>1, <2>2, <2>3
  <1>8. CASE "-" \in fl
    <2>1. zeros = y
      BY <1>8
    <2>2. Room(y \o s) = y \o s /\ Reverse(y \o s) = s \o Reverse(y)
          /\ Len(y \o s) = Len(y) + Len(s)
      BY <1>1, <1>7
    <2>3. Larger(0, w - Len(y \o s)) = n
      <3> HIDE DEF s
      <3>1. Len(s) \in Nat
        BY <1>1
      <3>2. w - (Len(y) + Len(s)) = (w - Len(s)) - Len(y)
        BY <1>1, <3>1
      <3> QED
        BY <2>2, <3>2
    <2>4. OutRev(y \o s, w, fl) = Reverse(y \o s) \o Times(" ", n)
      BY <1>8, <2>3 DEF OutRev
    <2>5. Just("-" \in fl, "0" \in fl, w, s, Reverse(y)) = (s \o Reverse(y)) \o Times(" ", n)
      BY <1>1, <1>8 DEF Just
    <2> QED
      BY <2>1, <2>2, <2>4, <2>5
  <1>9. CASE "-" \notin fl /\ "0" \notin fl
    <2>1. zeros = y
      BY <1>9
    <2>2. Room(y \o s) = y \o s /\ Reverse(y \o s) = s \o Reverse(y)
          /\ Len(y \o s) = Len(y) + Len(s)
      BY <1>1, <1>7
    <2>3. Larger(0, w - Len(y \o s)) = n
      <3> HIDE DEF s
      <3>1. Len(s) \in Nat
        BY <1>1
      <3>2. w - (Len(y) + Len(s)) = (w - Len(s)) - Len(y)
        BY <1>1, <3>1
      <3> QED
        BY <2>2, <3>2
    <2>4. OutRev(y \o s, w, fl) = Times(" ", n) \o Reverse(y \o s)
      BY <1>9, <2>3 DEF OutRev
    <2>5. Just("-" \in fl, "0" \in fl, w, s, Reverse(y)) = (Times(" ", n) \o s) \o Reverse(y)
      BY <1>1, <1>9 DEF Just
    <2>6. Times(" ", n) \o (s \o Reverse(y)) = (Times(" ", n) \o s) \o Reverse(y)
      <3> HIDE DEF s, n
      <3>1. Times(" ", n) \in Seq(Chars) /\ s \in Seq(Chars) /\ Reverse(y) \in Seq(Chars)
        BY <1>1, <1>5
      <3> DEFINE before == Times(" ", n)
                 after  == Reverse(y)
      <3> HIDE DEF before, after
      <3>2. before \o (s \o after) = (before \o s) \o after
        BY ONLY <3>1, <1>6 DEF before, after
      <3> QED
        BY ONLY <3>2 DEF before, after
    <2> QED
      BY <2>1, <2>2, <2>4, <2>5, <2>6
  <1>10. CASE "-" \notin fl /\ "0" \in fl
    <2>1. zeros = FillTo(y, "0", zw) /\ w <= NumSize
      BY <1>10
    <2>2. zw \in Nat /\ zw <= w /\ zw = IF w > 0 /\ s # <<>> THEN w - 1 ELSE w
      BY <1>3, <1>10
    <2>3. Larger(0, Smaller(zw, NumSize) - Len(y)) = n
      <3> HIDE DEF s, zw
      <3>1. Smaller(zw, NumSize) = zw
        BY <1>2, <2>1, <2>2 DEF Smaller
      <3>2. CASE s = <<>>
        <4>1. zw - Len(y) = (w - Len(s)) - Len(y)
          BY <1>1, <2>2, <3>2
        <4> QED
          BY <3>1, <4>1
      <3>3. CASE s # <<>> /\ w > 0
        <4>1. zw - Len(y) = (w - Len(s)) - Len(y)
          BY <1>1, <2>2, <3>3
        <4> QED
          BY <3>1, <4>1
      <3>4. CASE s # <<>> /\ w = 0
        <4>1. zw = 0 /\ Len(s) = 1
          BY <1>1, <2>2, <3>4
        <4> QED
          BY <1>1, <3>1, <3>4, <4>1 DEF Larger
      <3> QED
        BY <3>2, <3>3, <3>4
    <2>4. zeros = Padded(y, n)
      BY <2>1, <2>2, <2>3, FillToPads
    <2>5. Padded(y, n) \in Seq(Solid) /\ Len(Padded(y, n)) = Len(y) + n
      BY <1>4, PaddedIs
    <2>6. Padded(y, n) \in Seq(Chars)
      BY <2>5, SolidIs, SeqMonotonic
    <2>7. (Len(y) + n) + Len(s) <= NumSize
      <3> DEFINE a == Len(y)
                 b == Len(s)
      <3>1. a \in Nat /\ b \in Nat /\ a + b <= NumSize
        BY <1>1
      <3>2. n = Larger(0, (w - b) - a)
        OBVIOUS
      <3> HIDE DEF a, b, n
      <3>3. (a + n) + b <= NumSize
        BY <1>2, <2>1, <3>1, <3>2 DEF Larger
      <3> QED
        BY <3>3 DEF a, b
    <2>8. /\ Room(Padded(y, n) \o s) = Padded(y, n) \o s
          /\ Reverse(Padded(y, n) \o s) = s \o Reverse(Padded(y, n))
      BY <1>7, <2>5, <2>6, <2>7
    <2>9. Reverse(Padded(y, n)) = Times("0", n) \o Reverse(y)
      <3>1. Reverse(y \o Times("0", n)) = Reverse(Times("0", n)) \o Reverse(y)
        BY <1>1, <1>5, ReverseOfTwo
      <3>2. Reverse(Times("0", n)) = Times("0", n)
        BY <1>4, KnownAre, ReverseOfTimes
      <3> QED
        BY <3>1, <3>2 DEF Padded
    <2>10. OutRev(Padded(y, n) \o s, w, fl) = Reverse(Padded(y, n) \o s)
      BY <1>10 DEF OutRev
    <2>11. Just("-" \in fl, "0" \in fl, w, s, Reverse(y)) = (s \o Times("0", n)) \o Reverse(y)
      BY <1>1, <1>10 DEF Just
    <2>12. s \o (Times("0", n) \o Reverse(y)) = (s \o Times("0", n)) \o Reverse(y)
      BY ONLY <1>1, <1>5, <1>6
    <2> QED
      BY <2>4, <2>8, <2>9, <2>10, <2>11, <2>12
  <1> QED
    BY <1>8, <1>9, <1>10

(* What _ftoa makes before it fills the field: decimals, point and whole.  *)
Decimals10(asked, p, frac) ==
    Times("0", asked - p)
       \o FillTo(Back(frac), "0", IF Len(Back(frac)) > p THEN NumSize ELSE p)
FixedNumber(v, asked) ==
    LET p == Smaller(asked, 9)
        r == Round(v, p)
    IN  Room((IF p = 0 THEN <<>> ELSE Room(Decimals10(asked, p, r.frac) \o <<".">>))
                \o Back(r.whole))
InField(number, negative, w, fl) ==
    OutRev(Room((IF "0" \in fl /\ "-" \notin fl
                 THEN FillTo(number, "0", ZeroWidth(w, negative, fl)) ELSE number)
                \o Sign(negative, fl)), w, fl)

LEMMA FixedTextParts ==
    ASSUME NEW v, NEW prec, NEW w, NEW fl
    PROVE  FixedText(v, prec, w, fl)
             = InField(FixedNumber(v, IF "precision" \in fl THEN prec ELSE 6), Below0(v), w, fl)
  BY DEF FixedText, InField, FixedNumber, Decimals10, Back

(* The limit of nine decimals does not touch the decimals that there are.  *)
LEMMA NineIsEnough ==
    ASSUME NEW v \in Scaled, NEW asked \in Nat, Smaller(asked, v.scale) <= 9
    PROVE  LET p == Smaller(asked, 9)
               q == Smaller(asked, v.scale)
           IN  /\ p \in Nat /\ q \in Nat /\ q = Smaller(p, v.scale) /\ q <= p /\ p <= asked
               /\ p = 0 <=> asked = 0
               /\ HalfWay(v, asked) => HalfWay(v, p) /\ p = asked /\ q = p /\ p # 0
               /\ HalfWay(v, p) => HalfWay(v, asked)
  <1>1. v.scale \in Nat
    BY DEF Scaled
  <1> DEFINE p == Smaller(asked, 9)
             q == Smaller(asked, v.scale)
  <1>2. /\ p \in Nat /\ q \in Nat /\ q = Smaller(p, v.scale) /\ q <= p /\ p <= asked
        /\ p = 0 <=> asked = 0
    BY <1>1 DEF Smaller
  <1>3. asked <= v.scale - 1 => p = asked /\ q = p
    BY <1>1 DEF Smaller
  <1>4. p <= v.scale - 1 => p = asked
    BY <1>1 DEF Smaller
  <1>5. ASSUME NEW a \in Nat, HalfWay(v, a)
        PROVE  a <= v.scale - 1 /\ a # 0
    BY <1>1, <1>5 DEF HalfWay
  <1>6. HalfWay(v, asked) => HalfWay(v, p) /\ p = asked /\ q = p /\ p # 0
    <2> SUFFICES ASSUME HalfWay(v, asked) PROVE HalfWay(v, p) /\ p = asked /\ q = p /\ p # 0
      OBVIOUS
    <2>1. asked <= v.scale - 1 /\ asked # 0
      BY <1>5
    <2>2. p = asked /\ q = p
      BY <1>3, <2>1
    <2> QED
      BY <2>1, <2>2
  <1>7. HalfWay(v, p) => HalfWay(v, asked)
    <2> SUFFICES ASSUME HalfWay(v, p) PROVE HalfWay(v, asked)
      OBVIOUS
    <2>1. p <= v.scale - 1
      BY <1>2, <1>5
    <2> QED
      BY <1>4, <2>1
  <1> QED
    BY <1>2, <1>6, <1>7

(* Digits put together in either order. *)
LEMMA DigitsTogether ==
    \A a \in Seq(Digits), b \in Seq(Digits), c \in Seq(Digits) : (a \o b) \o c = a \o (b \o c)
  BY ConcatAssociative

(* The decimals of the code and of the standard are the same digits.       *)
LEMMA SamePlaces ==
    ASSUME NEW asked \in Nat, NEW p \in Nat, NEW q \in Nat, q <= p, p <= asked, p # 0,
           p <= NumSize, NEW f \in Nat, f < Pow10(q), NEW frac, frac = f * Pow10(p - q)
    PROVE  Decimals10(asked, p, frac) = Places(f, q, asked)
  <1> DEFINE m == p - q
             digits == Back(frac)
             z == Times("0", asked - p)
  <1>1. m \in Nat /\ q + m = p /\ asked - p \in Nat
    OBVIOUS
  <1>2. frac \in Nat /\ frac < Pow10(p) /\ Low(frac, p) = Times("0", m) \o Low(f, q)
    <2> HIDE DEF m
    <2>1. /\ f * Pow10(m) \in Nat /\ f * Pow10(m) < Pow10(q + m)
          /\ Low(f * Pow10(m), q + m) = Times("0", m) \o Low(f, q)
      BY <1>1, LowTimes
    <2>2. frac = f * Pow10(m)
      BY DEF m
    <2> QED
      BY <1>1, <2>1, <2>2
  <1>3. digits \in Seq(Digits) /\ Len(digits) \in Nat
    BY <1>2, BackIs, BackLen
  <1>4. Len(digits) <= p
    <2>1. p \in Nat \ {0}
      OBVIOUS
    <2> QED
      BY <1>2, <2>1, BackShort
  <1>5. FillTo(digits, "0", p) = Low(frac, p)
    <2>1. Smaller(p, NumSize) = p
      BY TypeSizesAssumption DEF Smaller
    <2> QED
      BY <2>1 DEF FillTo, Low
  <1>6. z \in Seq(Digits) /\ Times("0", m) \in Seq(Digits) /\ Low(f, q) \in Seq(Digits)
    <2>1. z \in Seq(Digits)
      BY <1>1, ZerosAre
    <2>2. Times("0", m) \in Seq(Digits)
      BY <1>1, ZerosAre
    <2>3. Low(f, q) \in Seq(Digits)
      BY LowIs
    <2> QED
      BY <2>1, <2>2, <2>3
  <1>7. z \o Times("0", m) = Times("0", asked - q)
    <2>1. (asked - p) + m = asked - q
      OBVIOUS
    <2>2. \A a \in Nat, b \in Nat : Times("0", a) \o Times("0", b) = Times("0", a + b)
      BY ZerosAre, TimesMore
    <2> HIDE DEF m
    <2>3. Times("0", asked - p) \o Times("0", m) = Times("0", (asked - p) + m)
      BY <1>1, <2>2
    <2> QED
      BY <2>1, <2>3
  <1>8. (z \o Times("0", m)) \o Low(f, q) = z \o (Times("0", m) \o Low(f, q))
    <2> HIDE DEF z, m
    <2> QED
      BY ONLY <1>6, DigitsTogether
  <1>9. z \o FillTo(digits, "0", p) = Places(f, q, asked)
    BY <1>2, <1>5, <1>7, <1>8 DEF Places
  <1>10. ~(Len(digits) > p)
    <2> HIDE DEF digits
    <2> QED
      BY <1>3, <1>4
  <1> QED
    BY <1>9, <1>10 DEF Decimals10

(* Unless the carry is missing, the number that _ftoa makes is one of the  *)
(* nearest, if it fits the buffer.                                         *)
LEMMA NumberIs ==
    ASSUME NEW v \in Scaled, NEW asked \in Nat, Smaller(asked, v.scale) <= 9,
           ~HalfWay(v, asked)
    PROVE  \E w \in Nat, f \in Nat :
              /\ f < Pow10(Smaller(asked, v.scale))
              /\ w * Pow10(Smaller(asked, v.scale)) + f \in CNearest(v, Smaller(asked, v.scale))
              /\ Len(Written10(w, f, Smaller(asked, v.scale), asked)) <= NumSize =>
                    FixedNumber(v, asked) = Written10(w, f, Smaller(asked, v.scale), asked)
  <1> DEFINE p == Smaller(asked, 9)
             q == Smaller(asked, v.scale)
             r == Round(v, p)
             w == r.whole
  <1>1. /\ p \in Nat /\ q \in Nat /\ q = Smaller(p, v.scale) /\ q <= p /\ p <= asked
        /\ p = 0 <=> asked = 0
        /\ ~HalfWay(v, p)
    BY NineIsEnough
  <1>2. w \in Nat /\ \E f \in Nat : /\ f < Pow10(q) /\ w * Pow10(q) + f \in CNearest(v, q)
                                    /\ p # 0 => r.frac = f * Pow10(p - q)
    BY <1>1, RoundNear
  <1>3. PICK f \in Nat : /\ f < Pow10(q) /\ w * Pow10(q) + f \in CNearest(v, q)
                         /\ p # 0 => r.frac = f * Pow10(p - q)
    BY <1>2
  <1> DEFINE y == Written10(w, f, q, asked)
  <1>4. FixedNumber(v, asked) =
           Room((IF p = 0 THEN <<>> ELSE Room(Decimals10(asked, p, r.frac) \o <<".">>)) \o Back(w))
    BY DEF FixedNumber
  <1>5. q <= asked
    BY <1>1
  <1>7. w \in Nat
    BY <1>2
  <1> HIDE DEF p, q, w, r
  <1>8. Back(w) \in Seq(Digits) /\ Len(Back(w)) \in Nat
    BY <1>7, BackIs, BackLen
  <1>9. /\ Places(f, q, asked) \o <<".">> \in Seq(Solid)
        /\ Len(Places(f, q, asked) \o <<".">>) = asked + 1
        /\ y \in Seq(Solid)
        /\ asked # 0 => asked < Len(y)
    <2>1. f < Pow10(q) /\ q \in Nat
      BY <1>1, <1>3
    <2>2. y \in Seq(Solid) /\ (asked # 0 => asked < Len(y))
      BY <1>5, <1>7, <2>1, WrittenIs
    <2>3. Places(f, q, asked) \o <<".">> \in Seq(Solid)
      BY <1>5, <2>1, PointIs
    <2>4. Len(Places(f, q, asked) \o <<".">>) = asked + 1
      BY <1>5, <2>1, PointIs
    <2> QED
      BY <2>2, <2>3, <2>4
  <1>10. ASSUME Len(y) <= NumSize
         PROVE  FixedNumber(v, asked) = y
    <2>1. Room(y) = y
      BY <1>9, <1>10, RoomLen
    <2>2. CASE asked = 0
      <3>1. y = Back(w) /\ p = 0
        BY <1>1, <2>2 DEF Written10
      <3>2. <<>> \o Back(w) = Back(w)
        BY <1>8
      <3> HIDE DEF y
      <3>3. FixedNumber(v, asked) = Room(<<>> \o Back(w))
        BY <1>4, <3>1
      <3> QED
        BY <2>1, <3>1, <3>2, <3>3
    <2>3. CASE asked # 0
      <3>1. p # 0 /\ y = (Places(f, q, asked) \o <<".">>) \o Back(w)
        BY <1>1, <2>3 DEF Written10
      <3>2. asked + 1 <= NumSize /\ p <= NumSize
        <4> HIDE DEF y
        <4>1. asked < Len(y) /\ Len(y) \in Nat
          BY <1>9, <2>3, LenProperties
        <4> QED
          BY <1>1, <1>10, <4>1, TypeSizesAssumption
      <3>3. r.frac = f * Pow10(p - q)
        BY <1>3, <3>1
      <3>4. Decimals10(asked, p, r.frac) = Places(f, q, asked)
        <4> DEFINE x == r.frac
        <4>1. f < Pow10(q) /\ x = f * Pow10(p - q)
          BY <1>3, <3>3
        <4> HIDE DEF x
        <4>2. Decimals10(asked, p, x) = Places(f, q, asked)
          BY <1>1, <3>1, <3>2, <4>1, SamePlaces
        <4> QED
          BY <4>2 DEF x
      <3>7. Room(Places(f, q, asked) \o <<".">>) = Places(f, q, asked) \o <<".">>
        BY <1>9, <3>2, RoomLen
      <3> HIDE DEF y
      <3>8. FixedNumber(v, asked) = Room((Places(f, q, asked) \o <<".">>) \o Back(w))
        BY <1>4, <3>1, <3>4, <3>7
      <3> QED
        BY <2>1, <3>1, <3>8
    <2> QED
      BY <2>2, <2>3
  <1> QED
    BY <1>3, <1>7, <1>10 DEF q

(* What is missing, if anything is. *)
LEMMA LargerIs == \A m \in Nat, n \in Nat : Larger(0, m - n) \in Nat /\ Larger(0, m - n) >= m - n
  BY DEF Larger

(* A text of some characters has no others. *)
LEMMA LacksOthers ==
    ASSUME NEW S, NEW s \in Seq(S), NEW ch, ch \notin S
    PROVE  ~Has(s, ch)
  <1>1. \A i \in 1 .. Len(s) : s[i] \in S
    BY ElementOfSeq
  <1> QED
    BY <1>1 DEF Has

(* Back to front it has the same. *)
LEMMA HasBackwards ==
    ASSUME NEW S, NEW s \in Seq(S), NEW ch, Has(s, ch)
    PROVE  Has(Reverse(s), ch)
  <1> DEFINE n == Len(s)
             r == Reverse(s)
  <1>1. n \in Nat
    BY LenProperties
  <1>2. Len(r) = n /\ \A i \in 1 .. n : r[i] = s[(n - i) + 1]
    BY ReverseAt
  <1>3. PICK i \in 1 .. n : s[i] = ch
    BY DEF Has
  <1> DEFINE k == (n - i) + 1
  <1> HIDE DEF n, r
  <1>4. k \in 1 .. n /\ (n - k) + 1 = i
    BY <1>1
  <1>5. r[k] = ch
    BY <1>2, <1>3, <1>4
  <1>6. k \in 1 .. Len(r)
    BY <1>2, <1>4
  <1> HIDE DEF k
  <1>7. Has(r, ch)
    BY <1>5, <1>6 DEF Has
  <1> QED
    BY <1>7 DEF r

(* The field adds zeros, blanks and the sign. *)
LEMMA InFieldIs ==
    ASSUME NEW S, "0" \in S, " " \in S, NEW number \in Seq(S), NEW negative, NEW w \in Nat,
           NEW fl, Sign(negative, fl) \in Seq(S)
    PROVE  InField(number, negative, w, fl) \in Seq(S)
  <1> DEFINE s == Sign(negative, fl)
             z == IF "0" \in fl /\ "-" \notin fl
                  THEN FillTo(number, "0", ZeroWidth(w, negative, fl)) ELSE number
             b == Room(z \o s)
  <1>1. ZeroWidth(w, negative, fl) \in Nat
    BY ZeroWidthIs
  <1>2. FillTo(number, "0", ZeroWidth(w, negative, fl)) \in Seq(S)
    BY <1>1, FillToIs
  <1>3. z \in Seq(S)
    BY <1>2
  <1> HIDE DEF z, s
  <1>4. z \o s \in Seq(S)
    BY <1>3, ConcatProperties DEF s
  <1>5. b \in Seq(S)
    BY <1>4, RoomIs
  <1> HIDE DEF b
  <1>6. Reverse(b) \in Seq(S) /\ Len(b) \in Nat
    BY <1>5, ReverseIs, LenProperties
  <1>7. Times(" ", Larger(0, w - Len(b))) \in Seq(S)
    <2>1. Larger(0, w - Len(b)) \in Nat
      BY <1>6, LargerIs
    <2> QED
      BY <2>1, TimesIs
  <1>8. OutRev(b, w, fl) \in Seq(S)
    <2> DEFINE p == Times(" ", Larger(0, w - Len(b)))
               r == Reverse(b)
    <2>1. OutRev(b, w, fl) = IF "-" \in fl THEN r \o p ELSE IF "0" \in fl THEN r ELSE p \o r
      BY DEF OutRev
    <2>2. r \in Seq(S) /\ p \in Seq(S)
      BY <1>6, <1>7
    <2> HIDE DEF r, p
    <2>3. r \o p \in Seq(S) /\ p \o r \in Seq(S)
      BY <2>2, ConcatProperties
    <2> QED
      BY <2>1, <2>2, <2>3
  <1> QED
    BY <1>8 DEF InField, b, z, s

(* What _ftoa makes before that are digits and the point. *)
LEMMA FixedNumberIs ==
    ASSUME NEW v \in Scaled, NEW asked \in Nat
    PROVE  LET p == Smaller(asked, 9)
               r == Round(v, p)
           IN  /\ FixedNumber(v, asked) \in Seq(Solid)
               /\ Decimals10(asked, p, r.frac) \in Seq(Digits) /\ Back(r.whole) \in Seq(Digits)
  <1> DEFINE p == Smaller(asked, 9)
             r == Round(v, p)
             d == Decimals10(asked, p, r.frac)
             b == Back(r.whole)
             dot == <<".">>
  <1>1. p \in Nat /\ asked - p \in Nat
    BY DEF Smaller
  <1>2. FixedNumber(v, asked) = Room((IF p = 0 THEN <<>> ELSE Room(d \o dot)) \o b)
    BY DEF FixedNumber
  <1>3. r.whole \in Nat /\ r.frac \in Nat
    BY <1>1, RoundIs
  <1>4. b \in Seq(Digits)
    BY <1>3, BackIs
  <1>5. d \in Seq(Digits)
    <2> DEFINE z == Times("0", asked - p)
               x == Back(r.frac)
               len == IF Len(x) > p THEN NumSize ELSE p
    <2>1. z \in Seq(Digits)
      BY <1>1, ZerosAre
    <2>2. x \in Seq(Digits)
      BY <1>3, BackIs
    <2>3. len \in Nat
      BY <1>1, TypeSizesAssumption
    <2>4. d = z \o FillTo(x, "0", len)
      BY DEF Decimals10
    <2> HIDE DEF z, x, len, d
    <2>5. FillTo(x, "0", len) \in Seq(Digits)
      BY <2>2, <2>3, FillToIs, ZerosAre
    <2> QED
      BY <2>1, <2>4, <2>5, ConcatProperties
  <1>6. dot \in Seq(Solid)
    BY DigitsAreSolid, OneOf
  <1> HIDE DEF d, b, dot
  <1>7. d \in Seq(Solid) /\ b \in Seq(Solid)
    BY <1>4, <1>5, DigitsAreSolid
  <1>8. Room(d \o dot) \in Seq(Solid)
    <2>1. d \o dot \in Seq(Solid)
      BY <1>6, <1>7, ConcatProperties
    <2> QED
      BY <2>1, RoomIs
  <1> DEFINE y == IF p = 0 THEN <<>> ELSE Room(d \o dot)
  <1>9. y \in Seq(Solid)
    BY <1>8, EmptySeq
  <1> HIDE DEF y
  <1>10. Room(y \o b) \in Seq(Solid)
    <2>1. y \o b \in Seq(Solid)
      BY <1>7, <1>9, ConcatProperties
    <2> QED
      BY <2>1, RoomIs
  <1> QED
    BY <1>2, <1>4, <1>5, <1>10 DEF y, b, d

(* A full buffer takes no more, even if it was to take more than it does.  *)
LEMMA RoomOver ==
    ASSUME NEW S, NEW s \in Seq(S), NEW t \in Seq(S), Len(s) >= NumSize
    PROVE  Room(s \o t) = Room(s)
  <1>1. NumSize \in Nat /\ Len(s) \in Nat
    BY TypeSizesAssumption, LenProperties
  <1>2. Room(s) \in Seq(S) /\ Len(Room(s)) = NumSize
    <2>1. Room(s) \in Seq(S) /\ Len(Room(s)) = Smaller(Len(s), NumSize)
      BY RoomLen
    <2> QED
      BY <1>1, <2>1 DEF Smaller
  <1>3. Room(Room(s) \o t) = Room(s)
    BY <1>2, RoomFull
  <1>4. Room(Room(s) \o t) = Room(s \o t)
    BY RoomTwice
  <1> QED
    BY <1>3, <1>4

(* Where the carry is missing, zeros fill the buffer and the point is lost. *)
LEMMA NumberRolls ==
    ASSUME NEW v \in Scaled, NEW asked \in Nat, Smaller(asked, v.scale) <= 9,
           HalfWay(v, asked)
    PROVE  FixedNumber(v, asked) \in Seq(Digits) /\ asked # 0
  <1> DEFINE p == Smaller(asked, 9)
             r == Round(v, p)
             d == Decimals10(asked, p, r.frac)
             b == Back(r.whole)
             dot == <<".">>
             x == Back(r.frac)
  <1>1. p \in Nat /\ HalfWay(v, p) /\ p = asked /\ p # 0
    BY NineIsEnough
  <1>2. r.frac = Pow10(p) /\ r.whole \in Nat
    BY <1>1, RoundNear
  <1>3. d \in Seq(Digits) /\ b \in Seq(Digits)
    BY FixedNumberIs
  <1>4. dot \in Seq(Solid)
    BY DigitsAreSolid, OneOf
  <1>5. FixedNumber(v, asked) = Room((IF p = 0 THEN <<>> ELSE Room(d \o dot)) \o b)
    BY DEF FixedNumber
  <1>6. x \in Seq(Digits) /\ Len(x) \in Nat /\ Len(x) > p
    <2>1. Pow10(p) \in Nat
      BY <1>1, PowerIsPositive
    <2> HIDE DEF p, r
    <2>2. x \in Seq(Digits) /\ Len(x) \in Nat /\ Pow10(p) < Pow10(Len(x))
      BY <1>2, <2>1, BackIs, BackLen
    <2> HIDE DEF x
    <2>3. ~(Len(x) <= p)
      <3>1. Len(x) <= p => Pow10(Len(x)) <= Pow10(p)
        BY <1>1, <2>2, PowersTimes
      <3>2. Pow10(Len(x)) \in Nat
        BY <2>2, PowerIsPositive
      <3> QED
        BY <2>1, <2>2, <3>1, <3>2
    <2> QED
      BY <1>1, <2>2, <2>3
  <1>7. Len(d) >= NumSize
    <2> DEFINE z == Times("0", asked - p)
               n == Larger(0, NumSize - Len(x))
               t == Times("0", n)
    <2>1. d = z \o FillTo(x, "0", NumSize)
      BY <1>6 DEF Decimals10
    <2>2. z = <<>>
      <3>1. asked - p = 0
        BY <1>1
      <3> HIDE DEF p
      <3> QED
        BY <3>1, ZerosAre
    <2>3. FillTo(x, "0", NumSize) = x \o t
      <3>1. Smaller(NumSize, NumSize) = NumSize
        BY DEF Smaller
      <3> HIDE DEF x
      <3> QED
        BY <3>1 DEF FillTo
    <2> HIDE DEF z, x, d
    <2>4. n \in Nat /\ Len(x) + n >= NumSize
      BY <1>6, TypeSizesAssumption DEF Larger
    <2>5. t \in Seq(Digits) /\ Len(t) = n
      <3> HIDE DEF n
      <3> QED
        BY <2>4, ZerosAre
    <2> HIDE DEF t, n
    <2>6. x \o t \in Seq(Digits) /\ Len(x \o t) = Len(x) + n
      BY <1>6, <2>5, ConcatProperties
    <2>7. <<>> \o (x \o t) = x \o t
      BY <2>6, ConcatEmptySeq
    <2> QED
      BY <2>1, <2>2, <2>3, <2>4, <2>6, <2>7
  <1> HIDE DEF d, b, dot, p
  <1>8. d \in Seq(Solid) /\ b \in Seq(Solid)
    BY <1>3, DigitsAreSolid
  <1>9. Room(d \o dot) = Room(d)
    BY <1>4, <1>7, <1>8, RoomOver
  <1>10. Room(Room(d) \o b) = Room(d)
    <2>1. Room(Room(d) \o b) = Room(d \o b)
      BY <1>8, RoomTwice
    <2>2. Room(d \o b) = Room(d)
      BY <1>7, <1>8, RoomOver
    <2> QED
      BY <2>1, <2>2
  <1>11. Room(d) \in Seq(Digits)
    BY <1>3, RoomIs
  <1> QED
    BY <1>1, <1>5, <1>9, <1>10, <1>11

(* A text that the C standard puts in a field keeps sign and body, and is  *)
(* as wide as the field and as both of them.                               *)
LEMMA JustKeeps ==
    ASSUME NEW left \in BOOLEAN, NEW zeros \in BOOLEAN, NEW w \in Nat,
           NEW sign \in Seq(Chars), NEW body \in Seq(Chars)
    PROVE  LET t == Just(left, zeros, w, sign, body)
           IN  /\ Len(sign) + Len(body) <= Len(t) /\ w <= Len(t) /\ Len(t) \in Nat
               /\ \A ch : Has(sign, ch) \/ Has(body, ch) => Has(t, ch)
  <1> DEFINE a == Len(sign)
             b == Len(body)
             n == Larger(0, (w - a) - b)
             p == Times(" ", n)
             z == Times("0", n)
             t == Just(left, zeros, w, sign, body)
  <1>1. a \in Nat /\ b \in Nat
    BY LenProperties
  <1>2. t = IF left THEN (sign \o body) \o p
            ELSE IF zeros THEN (sign \o z) \o body ELSE (p \o sign) \o body
    BY DEF Just
  <1> HIDE DEF t
  <1>3. n \in Nat /\ n >= (w - a) - b
    <2> HIDE DEF a, b
    <2> QED
      BY <1>1 DEF Larger
  <1> HIDE DEF n
  <1>4. p \in Seq(Chars) /\ Len(p) = n /\ z \in Seq(Chars) /\ Len(z) = n
    BY <1>3, KnownAre, TimesIs
  <1> HIDE DEF p, z
  <1>5. ASSUME NEW x \in Seq(Chars), NEW y \in Seq(Chars)
        PROVE  /\ x \o y \in Seq(Chars) /\ Len(x \o y) = Len(x) + Len(y)
               /\ \A ch : Has(x \o y, ch) <=> Has(x, ch) \/ Has(y, ch)
    BY ConcatProperties, HasOfBoth
  <1>12. ASSUME NEW x \in Seq(Chars), NEW y \in Seq(Chars), NEW u \in Seq(Chars)
         PROVE  /\ Len((x \o y) \o u) = (Len(x) + Len(y)) + Len(u)
                /\ \A ch : Has((x \o y) \o u, ch) <=> Has(x, ch) \/ Has(y, ch) \/ Has(u, ch)
    <2> DEFINE m == x \o y
    <2>1. /\ m \in Seq(Chars) /\ Len(m) = Len(x) + Len(y)
          /\ \A ch : Has(m, ch) <=> Has(x, ch) \/ Has(y, ch)
      BY <1>5
    <2> HIDE DEF m
    <2>2. Len(m \o u) = Len(m) + Len(u) /\ \A ch : Has(m \o u, ch) <=> Has(m, ch) \/ Has(u, ch)
      BY <1>5, <2>1
    <2> QED
      BY <2>1, <2>2 DEF m
  <1>6. /\ Len((sign \o body) \o p) = (a + b) + n
        /\ \A ch : Has(sign, ch) \/ Has(body, ch) => Has((sign \o body) \o p, ch)
    BY <1>4, <1>12
  <1>7. /\ Len((sign \o z) \o body) = (a + n) + b
        /\ \A ch : Has(sign, ch) \/ Has(body, ch) => Has((sign \o z) \o body, ch)
    <2> DEFINE m == sign \o z
    <2>3. m \in Seq(Chars) /\ Len(m) = a + n
      BY <1>4, <1>5
    <2> HIDE DEF m
    <2>4. Len(m \o body) = Len(m) + b
      BY <1>5, <2>3
    <2>1. Len((sign \o z) \o body) = (a + n) + b
      BY <2>3, <2>4 DEF m
    <2>2. \A ch : Has(sign, ch) \/ Has(body, ch) => Has((sign \o z) \o body, ch)
      BY ONLY <1>4, <1>12
    <2> QED
      BY <1>4, <2>1, <2>2
  <1>8. /\ Len((p \o sign) \o body) = (n + a) + b
        /\ \A ch : Has(sign, ch) \/ Has(body, ch) => Has((p \o sign) \o body, ch)
    BY <1>4, <1>12
  <1> HIDE DEF a, b
  <1>9. \A ch : Has(sign, ch) \/ Has(body, ch) => Has(t, ch)
    BY <1>2, <1>6, <1>7, <1>8
  <1>10. Len(t) = (a + b) + n
    <2>1. (a + n) + b = (a + b) + n /\ (n + a) + b = (a + b) + n
      BY <1>1, <1>3
    <2> QED
      BY <1>2, <1>6, <1>7, <1>8, <2>1
  <1>11. a + b <= Len(t) /\ w <= Len(t) /\ Len(t) \in Nat
    BY <1>1, <1>3, <1>10
  <1> QED
    BY <1>9, <1>11 DEF a, b, t

(* The body of a number of the C standard, with its sign, in its field.    *)
LEMMA CNumberIs ==
    ASSUME NEW j, NEW body
    PROVE  CNumber(j, body) = Just("-" \in CFlags(j), "0" \in CFlags(j), CWidth(j),
                                   Sign(j.v.neg, CFlags(j)), body)
  BY DEF CNumber, CJustified, Just

(* The nearest decimals are whole numbers, each with a whole and a         *)
(* fractional part.                                                        *)
LEMMA NearestSplit ==
    ASSUME NEW v \in Scaled, NEW q \in Nat, q <= v.scale, NEW k \in CNearest(v, q)
    PROVE  \E w \in Nat, f \in Nat : f < Pow10(q) /\ k = w * Pow10(q) + f
  <1> DEFINE unit == Pow10(v.scale - q)
             u == Pow10(q)
             c == v.n \div unit
  <1>1. v.n \in Nat /\ v.scale \in Nat
    BY DEF Scaled
  <1>2. unit \in Nat \ {0} /\ u \in Nat \ {0}
    <2>1. v.scale - q \in Nat
      BY <1>1
    <2> QED
      BY <2>1, PowerIsPositive
  <1>3. k = c \/ k = c + 1
    BY DEF CNearest
  <1> HIDE DEF unit, u
  <1>4. c \in Nat
    <2> DEFINE n == v.n
    <2>1. n \in Nat
      BY <1>1
    <2> HIDE DEF n
    <2>2. n \div unit \in Nat
      BY <1>2, <2>1
    <2> QED
      BY <2>2 DEF n
  <1> HIDE DEF c
  <1>5. k \in Nat
    BY <1>3, <1>4
  <1> DEFINE w == k \div u
             f == k % u
  <1>6. k = u * w + f /\ f \in 0 .. u - 1 /\ w \in Nat
    BY <1>2, <1>5
  <1> HIDE DEF w, f
  <1>7. u * w = w * u
    BY <1>2, <1>6
  <1>8. f \in Nat /\ f < u /\ k = w * u + f /\ w \in Nat
    BY <1>2, <1>6, <1>7
  <1> QED
    BY <1>8 DEF u

(* Without decimals the code makes the whole part only.                    *)
LEMMA WholeIsDigits ==
    ASSUME NEW v \in Scaled
    PROVE  FixedNumber(v, 0) \in Seq(Digits)
  <1> DEFINE b == Back(Round(v, 0).whole)
  <1>1. Smaller(0, 9) = 0 /\ 0 \in Nat
    BY DEF Smaller
  <1>2. b \in Seq(Digits)
    BY <1>1, FixedNumberIs
  <1>3. FixedNumber(v, 0) = Room(<<>> \o b)
    BY <1>1 DEF FixedNumber
  <1> HIDE DEF b
  <1>4. <<>> \o b = b
    BY <1>2, ConcatEmptySeq
  <1> QED
    BY <1>2, <1>3, <1>4, RoomIs

(* A text with a point behind it has one.                                  *)
LEMMA PointAppended ==
    ASSUME NEW s \in Seq(Chars), "." \in Chars
    PROVE  Append(s, ".") \in Seq(Chars) /\ Has(Append(s, "."), ".")
  <1> DEFINE n == Len(s) + 1
             r == Append(s, ".")
  <1>1. r \in Seq(Chars) /\ Len(r) = n /\ r[n] = "."
    BY AppendProperties
  <1>2. Len(s) \in Nat
    BY LenProperties
  <1>3. n \in 1 .. n
    BY <1>2
  <1> HIDE DEF r, n
  <1> QED
    BY <1>1, <1>3 DEF Has, r

(* What the C standard may print of a number with decimals, or with the    *)
(* flag #, has a point.                                                    *)
LEMMA CFixedIs ==
    ASSUME NEW j, j.v \in Scaled, CDecimals(j) \in Nat, ~Adaptive(j), NEW t \in CFixed(j)
    PROVE  \E r \in Seq(Chars) :
              /\ CDecimals(j) # 0 \/ LacksPoint(j) => Has(r, ".")
              /\ t = CNumber(j, r)
  <1> DEFINE asked == CDecimals(j)
             q == Smaller(asked, j.v.scale)
  <1>1. q \in Nat /\ q <= asked /\ q <= j.v.scale
    BY DEF Smaller, Scaled
  <1>2. PICK k \in CNearest(j.v, q) : t = CNumber(j, CFigures(j, k, q, asked))
    BY DEF CFixed
  <1>3. PICK w \in Nat, f \in Nat : f < Pow10(q) /\ k = w * Pow10(q) + f
    BY <1>1, NearestSplit
  <1> DEFINE y == Written10(w, f, q, asked)
             c == CDecimal(k, q, asked)
             r == IF LacksPoint(j) THEN Append(c, ".") ELSE c
  <1>4. asked \in Nat
    OBVIOUS
  <1>5. CFigures(j, k, q, asked) = r
    BY DEF CFigures, LacksPoint
  <1> HIDE DEF asked, q
  <1>6. y \in Seq(Solid) /\ (asked # 0 => Has(y, "."))
    BY <1>1, <1>3, <1>4, WrittenIs
  <1>7. c = Reverse(y)
    <2>1. CDecimal(w * Pow10(q) + f, q, asked) = Reverse(y)
      BY <1>1, <1>3, <1>4, CDecimalIs
    <2> QED
      BY <1>3, <2>1
  <1> HIDE DEF y, c
  <1>8. c \in Seq(Chars)
    <2>1. y \in Seq(Chars)
      BY <1>6, SolidIs, SeqMonotonic
    <2> QED
      BY <1>7, <2>1, ReverseIs
  <1>9. asked # 0 => Has(c, ".")
    BY <1>6, <1>7, HasBackwards
  <1>10. Append(c, ".") \in Seq(Chars) /\ Has(Append(c, "."), ".")
    BY <1>8, KnownAre, PointAppended
  <1>11. r \in Seq(Chars) /\ (asked # 0 \/ LacksPoint(j) => Has(r, "."))
    BY <1>8, <1>9, <1>10
  <1> HIDE DEF r
  <1> QED
    BY <1>2, <1>5, <1>11 DEF asked

(* A number whose text fits comes out as one of the nearest decimals, with *)
(* its sign, in its field.                                                 *)
LEMMA FixedIsOne ==
    ASSUME NEW j, j.v \in Scaled, CDecimals(j) \in Nat, CWidth(j) \in Nat,
           InReach(Smaller(CDecimals(j), j.v.scale), CFixed(j)), ~Adaptive(j),
           ~Rollover(j), ~NegativeZero(j), ~LacksPoint(j)
    PROVE  InField(FixedNumber(j.v, CDecimals(j)), Below0(j.v), CWidth(j), CFlags(j))
             \in CFixed(j)
  <1> DEFINE asked == CDecimals(j)
             q == Smaller(asked, j.v.scale)
             cf == CFlags(j)
             w == CWidth(j)
             neg == j.v.neg
             s == Sign(neg, cf)
             number == FixedNumber(j.v, asked)
             left == "-" \in cf
             zeros == "0" \in cf
  <1>1. q \in Nat /\ q <= asked /\ q <= 9 /\ asked \in Nat /\ w \in Nat
    <2>1. q <= 9
      BY DEF InReach
    <2> QED
      BY <2>1 DEF Smaller, Scaled
  <1>2. ~HalfWay(j.v, asked)
    BY DEF Rollover
  <1>3. Below0(j.v) = neg
    <2>1. neg \in BOOLEAN
      BY DEF Scaled
    <2>2. Below0(j.v) <=> neg
      BY DEF Below0, NegativeZero
    <2>3. Below0(j.v) \in BOOLEAN
      BY DEF Below0
    <2> QED
      BY <2>1, <2>2, <2>3
  <1>4. PICK x \in Nat, f \in Nat :
           /\ f < Pow10(q) /\ x * Pow10(q) + f \in CNearest(j.v, q)
           /\ Len(Written10(x, f, q, asked)) <= NumSize => number = Written10(x, f, q, asked)
    BY <1>1, <1>2, NumberIs
  <1> DEFINE y == Written10(x, f, q, asked)
             k == x * Pow10(q) + f
             t == CNumber(j, CDecimal(k, q, asked))
  <1>5. t \in CFixed(j)
    <2>1. CFigures(j, k, q, asked) = CDecimal(k, q, asked)
      BY DEF CFigures, LacksPoint
    <2>2. CNumber(j, CFigures(j, k, q, asked)) \in CFixed(j)
      BY <1>4 DEF CFixed
    <2> QED
      BY <2>1, <2>2
  <1>6. Len(t) <= NumSize
    BY <1>5 DEF InReach
  <1> HIDE DEF q, asked
  <1>7. y \in Seq(Solid)
    BY <1>1, <1>4, WrittenIs
  <1>8. CDecimal(k, q, asked) = Reverse(y)
    BY <1>1, <1>4, CDecimalIs
  <1> HIDE DEF y, k
  <1>9. t = Just(left, zeros, w, s, Reverse(y))
    BY <1>8, CNumberIs
  <1>10. /\ y \in Seq(Chars) /\ Len(y) \in Nat /\ Reverse(y) \in Seq(Chars)
         /\ Len(Reverse(y)) = Len(y)
    <2>1. y \in Seq(Chars)
      BY <1>7, SolidIs, SeqMonotonic
    <2> QED
      BY <2>1, ReverseIs, LenProperties
  <1>11. s \in Seq(Chars) /\ Len(s) \in Nat
    BY SignAre, LenProperties
  <1>12. Len(s) + Len(y) <= NumSize /\ w <= NumSize
    <2> HIDE DEF t, s
    <2> DEFINE l == left
               z == zeros
    <2>1. l \in BOOLEAN /\ z \in BOOLEAN
      OBVIOUS
    <2>2. t = Just(l, z, w, s, Reverse(y))
      BY <1>9
    <2> HIDE DEF l, z, w
    <2>3. Len(s) + Len(Reverse(y)) <= Len(t) /\ w <= Len(t) /\ Len(t) \in Nat
      BY <1>1, <1>10, <1>11, <2>1, <2>2, JustKeeps
    <2>4. NumSize \in Nat
      BY TypeSizesAssumption
    <2> QED
      BY <1>1, <1>6, <1>10, <1>11, <2>3, <2>4
  <1>13. number = y /\ Len(y) + Len(s) <= NumSize
    <2> HIDE DEF s
    <2>1. Len(y) <= NumSize /\ Len(y) + Len(s) <= NumSize
      BY <1>10, <1>11, <1>12, TypeSizesAssumption
    <2> QED
      BY <1>4, <2>1 DEF y
  <1>14. InField(y, neg, w, cf) = Just(left, zeros, w, s, Reverse(y))
    <2> HIDE DEF w, cf, neg
    <2> QED
      BY <1>1, <1>7, <1>12, <1>13, JustIs DEF InField
  <1> HIDE DEF t
  <1> QED
    BY <1>3, <1>5, <1>9, <1>13, <1>14 DEF asked

(* Where zeros fill the buffer, or there are no decimals, the text has no  *)
(* point, and where a negative number is zero it has no sign; the standard *)
(* asks for both.                                                          *)
LEMMA FixedIsNone ==
    ASSUME NEW j, j.v \in Scaled, CDecimals(j) \in Nat, CWidth(j) \in Nat,
           InReach(Smaller(CDecimals(j), j.v.scale), CFixed(j)), ~Adaptive(j),
           Rollover(j) \/ NegativeZero(j) \/ LacksPoint(j)
    PROVE  InField(FixedNumber(j.v, CDecimals(j)), Below0(j.v), CWidth(j), CFlags(j))
             \notin CFixed(j)
  <1> DEFINE asked == CDecimals(j)
             q == Smaller(asked, j.v.scale)
             cf == CFlags(j)
             w == CWidth(j)
             s == Sign(j.v.neg, cf)
             neg == Below0(j.v)
             number == FixedNumber(j.v, asked)
             t == InField(number, neg, w, cf)
             Pointless == Chars \ {"."}
             Unsigned0 == Chars \ {"-"}
  <1>1. q <= 9 /\ asked \in Nat /\ w \in Nat
    BY DEF InReach
  <1>2. /\ "0" \in Pointless /\ " " \in Pointless /\ "-" \in Pointless /\ "+" \in Pointless
        /\ Digits \subseteq Pointless
        /\ "0" \in Unsigned0 /\ " " \in Unsigned0 /\ "+" \in Unsigned0 /\ Solid \subseteq Unsigned0
    <2>1. Digits \subseteq Chars /\ "." \notin Digits
      BY ClassesAreApart, DigitsAreSolid
    <2>2. Solid \subseteq Unsigned0
      BY DEF Solid
    <2> QED
      BY <2>1, <2>2, KnownAre
  <1>3. CASE Rollover(j) \/ LacksPoint(j)
    <2>1. number \in Seq(Digits) /\ (asked # 0 \/ LacksPoint(j))
      <3>1. CASE Rollover(j)
        BY <1>1, <3>1, NumberRolls DEF Rollover
      <3>2. CASE LacksPoint(j)
        BY <3>2, WholeIsDigits DEF LacksPoint
      <3> QED
        BY <1>3, <3>1, <3>2
    <2>2. number \in Seq(Pointless)
      BY <1>2, <2>1, SeqMonotonic
    <2>3. Sign(neg, cf) \in Seq(Pointless)
      <3>1. Sign(neg, cf) \in {<<>>, <<"-">>, <<"+">>, <<" ">>}
        BY SignAre
      <3>2. <<"-">> \in Seq(Pointless) /\ <<"+">> \in Seq(Pointless) /\ <<" ">> \in Seq(Pointless)
        BY <1>2, OneOf
      <3> QED
        BY <3>1, <3>2, EmptySeq
    <2>4. t \in Seq(Pointless)
      <3> HIDE DEF number, neg, w, cf, Pointless
      <3> QED
        BY <1>1, <1>2, <2>2, <2>3, InFieldIs
    <2>5. ~Has(t, ".")
      <3> HIDE DEF t
      <3>1. "." \notin Pointless
        OBVIOUS
      <3> HIDE DEF Pointless
      <3> QED
        BY <2>4, <3>1, LacksOthers
    <2>6. ASSUME NEW c \in CFixed(j) PROVE Has(c, ".")
      <3>1. PICK r \in Seq(Chars) :
               /\ asked # 0 \/ LacksPoint(j) => Has(r, ".")
               /\ c = CNumber(j, r)
        BY CFixedIs
      <3> DEFINE l == "-" \in cf
                 z == "0" \in cf
      <3>2. Has(r, ".")
        BY <2>1, <3>1
      <3>4. c = Just(l, z, w, s, r)
        BY <3>1, CNumberIs
      <3>5. s \in Seq(Chars) /\ l \in BOOLEAN /\ z \in BOOLEAN
        <4>1. s \in Seq(Chars)
          BY SignAre
        <4>2. l \in BOOLEAN /\ z \in BOOLEAN
          OBVIOUS
        <4> QED
          BY <4>1, <4>2
      <3> HIDE DEF l, z, w, s
      <3> QED
        BY <1>1, <3>1, <3>2, <3>4, <3>5, JustKeeps
    <2> HIDE DEF t
    <2>7. t \notin CFixed(j)
      BY <2>5, <2>6
    <2> QED
      BY <2>7 DEF t
  <1>4. CASE NegativeZero(j)
    <2>1. j.v.neg /\ neg = FALSE
      BY <1>4 DEF NegativeZero, Below0
    <2>2. number \in Seq(Unsigned0)
      <3>1. number \in Seq(Solid)
        BY <1>1, FixedNumberIs
      <3> QED
        BY <1>2, <3>1, SeqMonotonic
    <2>3. Sign(neg, cf) \in Seq(Unsigned0)
      <3>1. Sign(FALSE, cf) \in {<<>>, <<"+">>, <<" ">>}
        BY DEF Sign
      <3>2. <<"+">> \in Seq(Unsigned0) /\ <<" ">> \in Seq(Unsigned0)
        BY <1>2, OneOf
      <3> QED
        BY <2>1, <3>1, <3>2, EmptySeq
    <2>4. t \in Seq(Unsigned0)
      <3> HIDE DEF number, neg, w, cf, Unsigned0
      <3> QED
        BY <1>1, <1>2, <2>2, <2>3, InFieldIs
    <2>5. ~Has(t, "-")
      <3> HIDE DEF t
      <3>1. "-" \notin Unsigned0
        OBVIOUS
      <3> HIDE DEF Unsigned0
      <3> QED
        BY <2>4, <3>1, LacksOthers
    <2>6. ASSUME NEW c \in CFixed(j) PROVE Has(c, "-")
      <3>1. PICK r \in Seq(Chars) : c = CNumber(j, r)
        BY CFixedIs
      <3> DEFINE l == "-" \in cf
                 z == "0" \in cf
      <3>4. c = Just(l, z, w, s, r)
        BY <3>1, CNumberIs
      <3>5. s \in Seq(Chars) /\ l \in BOOLEAN /\ z \in BOOLEAN
        <4>1. s \in Seq(Chars)
          BY SignAre
        <4>2. l \in BOOLEAN /\ z \in BOOLEAN
          OBVIOUS
        <4> QED
          BY <4>1, <4>2
      <3>6. Has(s, "-")
        <4>1. s = <<"-">>
          BY <2>1 DEF Sign
        <4>2. Has(<<"-">>, "-")
          BY KnownAre, OneOf
        <4> QED
          BY <4>1, <4>2
      <3> HIDE DEF l, z, w, s
      <3> QED
        BY <1>1, <3>1, <3>4, <3>5, <3>6, JustKeeps
    <2> HIDE DEF t
    <2>7. t \notin CFixed(j)
      BY <2>5, <2>6
    <2> QED
      BY <2>7 DEF t
  <1> QED
    BY <1>3, <1>4

(* A number is not below 0. *)
LEMMA LargerOfNone == \A m \in Nat : Larger(0, m) = m
  BY DEF Larger

(* The code reads the precision that the standard reads, and the flags of  *)
(* the standard are among those it has.                                    *)
LEMMA FixedAgrees ==
    ASSUME NEW j, FitCall(j), j.v \in Scaled, NEW fl, SameFlags(j, fl),
           " " \in fl <=> " " \in CFlags(j), "precision" \in fl <=> CPrec(j) # Unset,
           InReach(Smaller(CDecimals(j), j.v.scale), CFixed(j)), ~Adaptive(j)
    PROVE  (FixedText(j.v, ReadPrec(j), CWidth(j), fl) \in CFixed(j))
             <=> ~(Rollover(j) \/ NegativeZero(j) \/ LacksPoint(j))
  <1> DEFINE cf == CFlags(j)
             number == FixedNumber(j.v, CDecimals(j))
             neg == Below0(j.v)
  <1>1. CPrec(j) \in Nat \union {Unset} /\ CWidth(j) \in Nat
    BY StarsAre
  <1>2. /\ CDecimals(j) \in Nat
        /\ (IF "precision" \in fl THEN ReadPrec(j) ELSE 6) = CDecimals(j)
    <2>1. CASE CPrec(j) = Unset
      BY <2>1 DEF CDecimals
    <2>2. CASE CPrec(j) # Unset
      <3>1. CPrec(j) \in Nat
        BY <1>1, <2>2
      <3>2. ReadPrec(j) = CPrec(j)
        <4> DEFINE p == CPrec(j)
        <4>1. p \in Nat
          BY <3>1
        <4> HIDE DEF p
        <4>2. Larger(0, p) = p
          BY <4>1, LargerOfNone
        <4> QED
          BY <4>2 DEF ReadPrec, p
      <3> QED
        BY <2>2, <3>1, <3>2 DEF CDecimals
    <2> QED
      BY <2>1, <2>2
  <1>3. FixedText(j.v, ReadPrec(j), CWidth(j), fl) = InField(number, neg, CWidth(j), fl)
    BY <1>2, FixedTextParts
  <1>4. /\ "0" \in fl <=> "0" \in cf
        /\ "-" \in fl <=> "-" \in cf
        /\ "+" \in fl <=> "+" \in cf
        /\ " " \in fl <=> " " \in cf
    BY DEF SameFlags
  <1> HIDE DEF cf, number, neg
  <1>5. Sign(neg, fl) = Sign(neg, cf)
    BY <1>4 DEF Sign
  <1>6. ZeroWidth(CWidth(j), neg, fl) = ZeroWidth(CWidth(j), neg, cf)
    <2>1. {"0", "-"} \intersect fl = {"0"} <=> {"0", "-"} \intersect cf = {"0"}
      BY <1>4
    <2> QED
      BY <1>5, <2>1 DEF ZeroWidth
  <1>7. \A buf : OutRev(buf, CWidth(j), fl) = OutRev(buf, CWidth(j), cf)
    BY <1>4 DEF OutRev
  <1>8. InField(number, neg, CWidth(j), fl) = InField(number, neg, CWidth(j), cf)
    BY <1>4, <1>5, <1>6, <1>7 DEF InField
  <1>9. ~(Rollover(j) \/ NegativeZero(j) \/ LacksPoint(j))
            => InField(number, neg, CWidth(j), cf) \in CFixed(j)
    BY <1>1, <1>2, FixedIsOne DEF number, neg, cf
  <1>10. Rollover(j) \/ NegativeZero(j) \/ LacksPoint(j)
            => InField(number, neg, CWidth(j), cf) \notin CFixed(j)
    BY <1>1, <1>2, FixedIsNone DEF number, neg, cf
  <1> QED
    BY <1>3, <1>8, <1>9, <1>10

(* %f prints the decimal nearest to the number, in its field, except       *)
(* exactly for -0, where the carry of a tie is missing, and where # asks   *)
(* for a point without decimals, whatever the number, flags, width and     *)
(* precision, as long as the text fits the buffer and no more than nine    *)
(* decimals have to be rounded (_ftoa).                                    *)
THEOREM FixedIsRight == Spec => []FixedIsNearest
  <1>1. ASSUME PrintfInv, ret # Unset, Fixed, ~NegativePrecision(job),
               InReach(Smaller(CDecimals(job), job.v.scale), CFixed(job))
        PROVE  (Inner \in CFixed(job))
                 <=> ~(Rollover(job) \/ NegativeZero(job) \/ LacksPoint(job))
    <2> DEFINE conv == job.dir.conv
               used == flags \union (IF conv \in {"F", "E", "G"} THEN {"upper"} ELSE {})
                             \union (IF conv \in {"g", "G"} THEN {"adapt"} ELSE {})
    <2>1. FitCall(job) /\ IsRead /\ Inner = Shown
      BY <1>1, InnerIs
    <2>2. conv \in {"f", "F"} /\ job.v.kind = "number" /\ job.v.scale >= 0
      BY <1>1 DEF Fixed
    <2>3. job.v \in Scaled
      BY <2>1, <2>2 DEF FitCall, GoodCall, Doubles, Scaled
    <2>4. /\ width = CWidth(job) /\ precision = ReadPrec(job) /\ flags = ReadFlags(job)
      BY <2>1 DEF IsRead
    <2>5. \A ch : ch # "upper" /\ ch # "adapt" => (ch \in used <=> ch \in ReadFlags(job))
      BY <2>4
    <2> HIDE DEF used
    <2>6. \A ch \in {"0", "-", "+", " "} : ch \in used <=> ch \in CFlags(job)
      <3>1. \A ch \in {"0", "-", "+", " "} : ch \in FlagChars
        BY DEF FlagChars
      <3> QED
        BY <2>1, <2>5, <3>1, FlagsRead
    <2>7. SameFlags(job, used) /\ (" " \in used <=> " " \in CFlags(job))
      BY <2>6 DEF SameFlags
    <2>8. "precision" \in used <=> CPrec(job) # Unset
      BY <1>1, <2>1, <2>5, FlagsRead, PrecisionRead
    <2>9. Shown = FixedText(job.v, precision, width, used)
      <3>1. Shown = DoubleText(conv)
        BY <2>2 DEF Shown, Converted
      <3>2. DoubleText(conv) = FtoaText(job.v, precision, width, used)
        BY <2>2 DEF DoubleText, used
      <3>3. ~(job.v.scale < 0)
        BY <2>2, <2>3 DEF Scaled
      <3> QED
        BY <2>2, <3>1, <3>2, <3>3 DEF FtoaText
    <2>10. ~Adaptive(job)
      BY <2>2 DEF Adaptive
    <2> QED
      BY <1>1, <2>1, <2>3, <2>4, <2>7, <2>8, <2>9, <2>10, FixedAgrees
  <1>2. PrintfInv => FixedIsNearest
    BY <1>1 DEF FixedIsNearest
  <1> QED
    BY <1>2, PrintfInvHolds, PTL
===============================================================================
