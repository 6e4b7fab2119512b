---------------------------- MODULE ElfLoadProofs -----------------------------
(***************************************************************************)
(* Proofs about ElfLoad, for every file, every size of words, chunks and   *)
(* memory, and segments that overlap in any way.                           *)
(***************************************************************************)
EXTENDS ElfLoad, WellFoundedInduction, TLAPS

W == RamWordBytes
Blank == [k \in 0 .. W - 1 |-> Old]

(* What a section leaves in a word: its bytes, and zeros behind its end.   *)
Text(j, w) ==
    [k \in 0 .. W - 1 |->
        LET n == From(Segments[j].paddr, w) + k
        IN  IF n < Segments[j].filesz THEN <<j, n>> ELSE Zero]

(* The sections found so far, and the segments they come from in order.    *)
Listed == {j \in DOMAIN Segments : IsSection(j) /\ j < next}
Order(g) ==
    /\ g \in [1 .. Len(sections) -> Listed]
    /\ \A h, k \in 1 .. Len(sections) : h < k => g[h] < g[k]
    /\ \A j \in Listed : \E k \in 1 .. Len(sections) : g[k] = j
    /\ \A k \in 1 .. Len(sections) : sections[k] = Segments[g[k]].paddr

(* A section comes with the bytes of the first segment at its address.     *)
FileInv ==
    /\ file \in Files
    /\ next \in 1 .. Len(Segments) + 1
    /\ loader \in {"read_elf", "segments", "sections", "chunks", "loaded", "failed", "aborted"}
    /\ loader \in {"sections", "chunks", "loaded"} /\ file.headers = "good" =>
          next = Len(Segments) + 1
    /\ loader = "segments" => file.headers = "good"
    /\ loader = "failed" => file.headers = "unreadable"
    /\ sections \in Seq(Nat)
    /\ DOMAIN mems = {Segments[j].paddr : j \in Listed}
    /\ \A j \in Listed : mems[Segments[j].paddr] = SegmentBytes(First(j))

PlaceInv ==
    /\ index \in 0 .. Len(sections)
    /\ loader \in {"read_elf", "segments"} => index = 0
    /\ loader = "loaded" => index = Len(sections)
    /\ base \in Nat /\ secLen \in Nat /\ secOffset \in Nat /\ secOffset % W = 0
    /\ loader = "chunks" => /\ index > 0 /\ base = sections[index]
                            /\ secLen = Len(mems[base])

(* Section k has been written to word w. *)
On(g, k, w) ==
    /\ Covers(First(g[k]), w)
    /\ loader = "chunks" /\ k = index => From(base, w) < secOffset

(* A word shows the last section written to it. *)
Shows(g, w) ==
    \/ sram[w] = Blank /\ \A k \in 1 .. index : ~On(g, k, w)
    \/ \E k \in 1 .. index :
          /\ On(g, k, w) /\ \A h \in k + 1 .. index : ~On(g, h, w)
          /\ sram[w] = Text(First(g[k]), w)

SramInv ==
    /\ sram = [w \in 0 .. RamWords - 1 |-> sram[w]]
    /\ \E g \in [1 .. Len(sections) -> Listed] :
          Order(g) /\ \A w \in 0 .. RamWords - 1 : Shows(g, w)

LoadInv == FileInv /\ PlaceInv /\ SramInv

-------------------------------------------------------------------------------
(* The natural numbers are well ordered *)

LEMMA WellOrder ==
    ASSUME NEW T, T \subseteq Nat, T # {}
    PROVE  \E x \in T : \A y \in T : x <= y
  <1> DEFINE R == OpToRel(<, Nat)
  <1>1. IsWellFoundedOn(R, Nat)
    BY NatLessThanWellFounded
  <1>2. \A x \in Nat, y \in Nat : y < x => <<y, x>> \in R
    BY DEF OpToRel
  <1> HIDE DEF R
  <1>3. PICK x \in T : \A y \in T : ~ (<<y, x>> \in R)
    BY <1>1, WFMin
  <1>4. x \in Nat /\ \A y \in T : y \in Nat /\ ~ (y < x)
    BY <1>2, <1>3
  <1> QED
    BY <1>3, <1>4

-------------------------------------------------------------------------------
(* Words and addresses *)

SpaceWords == AddrSpace \div W

LEMMA DivisionIsUnique ==
    ASSUME NEW m \in Nat \ {0}, NEW q \in Int, NEW r \in 0 .. m - 1,
           NEW z \in Int, z = m * q + r
    PROVE  z % m = r /\ z \div m = q
  <1> DEFINE p == z \div m
             t == z % m
  <1>1. z = m * p + t /\ t \in 0 .. m - 1 /\ p \in Int
    OBVIOUS
  <1> HIDE DEF p, t
  <1> DEFINE e == q - p
  <1>2. m * e = m * q - m * p /\ e \in Int
    BY <1>1
  <1>3. m * e = t - r
    BY <1>1, <1>2
  <1> HIDE DEF e
  <1>4. e >= 1 => m * e >= m
    BY <1>2
  <1>5. e <= -1 => m * e <= -m
    BY <1>2
  <1>6. e = 0
    BY <1>1, <1>2, <1>3, <1>4, <1>5
  <1>7. p = q /\ t = r
    BY <1>1, <1>2, <1>3, <1>6 DEF e
  <1> QED
    BY <1>7 DEF p, t

LEMMA DivisionOfNat ==
    ASSUME NEW m \in Nat \ {0}, NEW z \in Nat
    PROVE  z = m * (z \div m) + (z % m) /\ z % m \in 0 .. m - 1 /\ z \div m \in Nat
  OBVIOUS

LEMMA DivisionOfInt ==
    ASSUME NEW m \in Nat \ {0}, NEW z \in Int
    PROVE  z = m * (z \div m) + (z % m) /\ z % m \in 0 .. m - 1 /\ z \div m \in Int
  OBVIOUS

(* A smaller number of words is fewer bytes. *)
LEMMA Products ==
    ASSUME NEW m \in Nat \ {0}, NEW a \in Int, NEW b \in Int
    PROVE  /\ m * a \in Int /\ a \in Nat => m * a \in Nat
           /\ a <= b <=> m * a <= m * b
           /\ a < b <=> m * a + m <= m * b
           /\ m * (a + b) = m * a + m * b /\ m * (a - b) = m * a - m * b
           /\ m * (a - 1) = m * a - m
  <1> DEFINE d == b - a
  <1>1. d \in Int /\ b = a + d
    OBVIOUS
  <1> HIDE DEF d
  <1>2. m * b = m * a + m * d /\ m * a \in Int /\ m * d \in Int
    BY <1>1
  <1>3. d >= 1 => m * d >= m
    BY <1>1
  <1>4. d <= -1 => m * d <= -m
    BY <1>1
  <1>5. d = 0 => m * d = 0
    BY <1>1
  <1>6. a <= b <=> m * a <= m * b
    BY <1>1, <1>2, <1>3, <1>4, <1>5
  <1>7. a < b <=> m * a + m <= m * b
    BY <1>1, <1>2, <1>3, <1>4, <1>5
  <1>8. a \in Nat => m * a \in Nat
    OBVIOUS
  <1>9. m * (a + b) = m * a + m * b /\ m * (a - b) = m * a - m * b /\ m * (a - 1) = m * a - m
    OBVIOUS
  <1> QED
    BY <1>2, <1>6, <1>7, <1>8, <1>9

LEMMA SizeTypes ==
    /\ W \in Nat \ {0} /\ ChunkBytes \in Nat \ {0} /\ RamWords \in Nat \ {0}
    /\ CpuBytes \in Nat \ {0} /\ AddrSpace \in Nat \ {0} /\ SpaceWords \in Nat \ {0}
  <1>1. /\ W \in Nat \ {0} /\ ChunkBytes \in Nat \ {0} /\ RamWords \in Nat \ {0}
        /\ CpuBytes \in Nat \ {0} /\ AddrSpace \in Nat \ {0} /\ AddrSpace % W = 0
    BY SizesAssumption DEF W
  <1>2. AddrSpace = W * SpaceWords /\ SpaceWords \in Nat
    BY <1>1 DEF SpaceWords
  <1>3. SpaceWords # 0
    BY <1>1, <1>2
  <1> QED
    BY <1>1, <1>2, <1>3

LEMMA SizeFacts == AddrSpace = W * SpaceWords
  <1>1. W \in Nat \ {0} /\ AddrSpace \in Nat \ {0} /\ AddrSpace % W = 0
    BY SizesAssumption DEF W
  <1> QED
    BY <1>1 DEF SpaceWords

(* The word an address falls into, in the address space. *)
WordOf(address) == (address % AddrSpace) \div W

LEMMA FromIs ==
    ASSUME NEW x \in Nat, NEW w \in Nat
    PROVE  /\ WordOf(x) \in 0 .. SpaceWords - 1
           /\ (w - WordOf(x)) % SpaceWords \in 0 .. SpaceWords - 1
           /\ From(x, w) = W * ((w - WordOf(x)) % SpaceWords)
           /\ From(x, w) \in Nat /\ From(x, w) + W <= AddrSpace /\ WordOf(x) \in Nat
  <1> DEFINE a == x % AddrSpace
             q == a \div W
             z == (w - WordOf(x)) % SpaceWords
  <1>1. a \in 0 .. AddrSpace - 1 /\ a \in Nat
    BY DivisionOfNat, SizeTypes
  <1> HIDE DEF a
  <1>2. a = W * q + (a % W) /\ q \in Nat /\ a % W \in 0 .. W - 1
    BY <1>1, DivisionOfNat, SizeTypes
  <1>3. q = WordOf(x)
    BY DEF WordOf, a
  <1> HIDE DEF q
  <1>4. q < SpaceWords
    <2>1. W * q < W * SpaceWords
      BY <1>1, <1>2, SizeTypes, SizeFacts
    <2> QED
      BY <1>2, <2>1, Products, SizeTypes, SizeFacts
  <1>5. z \in 0 .. SpaceWords - 1
    <2>1. w - WordOf(x) \in Int
      BY <1>2, <1>3
    <2> QED
      BY <2>1, DivisionOfInt, SizeTypes
  <1>6. From(x, w) = z * W
    BY DEF From, WordOf, SpaceWords, W
  <1> HIDE DEF z
  <1>7. z * W = W * z /\ W * z \in Nat /\ W * z + W <= AddrSpace
    <2>1. z \in Int /\ z < SpaceWords /\ W * z = z * W
      BY <1>5, SizeTypes, SizeFacts
    <2> QED
      BY <1>5, <2>1, Products, SizeTypes, SizeFacts
  <1>8. WordOf(x) \in Nat /\ WordOf(x) < SpaceWords
    BY <1>2, <1>3, <1>4
  <1>9. From(x, w) \in Nat /\ From(x, w) + W <= AddrSpace /\ From(x, w) = W * z
    BY <1>6, <1>7
  <1> QED
    BY <1>5, <1>8, <1>9, SizeTypes DEF z

(* The word after some words. *)
LEMMA WordOfSum ==
    ASSUME NEW x \in Nat, NEW e \in Nat
    PROVE  WordOf(x + W * e) = (WordOf(x) + e) % SpaceWords
  <1> DEFINE a == x % AddrSpace
             t == x \div AddrSpace
             q == WordOf(x)
             r == a % W
             p == (q + e) % SpaceWords
             s == (q + e) \div SpaceWords
  <1>1. x = AddrSpace * t + a /\ a \in 0 .. AddrSpace - 1 /\ t \in Nat
    BY DivisionOfNat, SizeTypes
  <1>2. a = W * q + r /\ r \in 0 .. W - 1 /\ q \in Nat
    <2> HIDE DEF a
    <2>1. a \in Nat
      BY <1>1
    <2>2. a = W * (a \div W) + (a % W) /\ a % W \in 0 .. W - 1 /\ (a \div W) \in Nat
      BY <2>1, DivisionOfNat, SizeTypes
    <2> QED
      BY <2>2 DEF WordOf, a
  <1> HIDE DEF a, t, q, r
  <1>3. q + e = SpaceWords * s + p /\ p \in 0 .. SpaceWords - 1 /\ s \in Int
    <2>1. q + e \in Int
      BY <1>2
    <2> QED
      BY <2>1, DivisionOfInt, SizeTypes
  <1> HIDE DEF p, s
  <1>4. W * (q + e) = W * q + W * e /\ W * e \in Nat
    BY <1>2, Products, SizeTypes, SizeFacts
  <1>5. W * (q + e) = AddrSpace * s + W * p
    <2> DEFINE f == SpaceWords * s
    <2>1. f \in Int /\ W * f = AddrSpace * s
      BY <1>3, SizeTypes, SizeFacts
    <2>2. q + e = f + p
      BY <1>3
    <2> HIDE DEF f
    <2>3. W * (f + p) = W * f + W * p
      BY <1>3, <2>1, Products, SizeTypes, SizeFacts
    <2> QED
      BY <2>1, <2>2, <2>3
  <1>6. W * p + r \in 0 .. AddrSpace - 1
    <2>1. W * p \in Nat /\ W * p + W <= W * SpaceWords
      <3>1. p \in Nat /\ p < SpaceWords
        BY <1>3, SizeTypes, SizeFacts
      <3> QED
        BY <3>1, Products, SizeTypes, SizeFacts
    <2> QED
      BY <1>2, <2>1, SizeTypes, SizeFacts
  <1>7. x + W * e = AddrSpace * (t + s) + (W * p + r)
    <2>1. AddrSpace * (t + s) = AddrSpace * t + AddrSpace * s
          /\ AddrSpace * t \in Int /\ AddrSpace * s \in Int /\ W * p \in Int /\ W * q \in Int
      BY <1>1, <1>2, <1>3, Products, SizeTypes, SizeFacts
    <2> QED
      BY <1>1, <1>2, <1>4, <1>5, <2>1
  <1>8. (x + W * e) % AddrSpace = W * p + r
    <2> DEFINE y == x + W * e
               k == t + s
               c == W * p + r
    <2>1. k \in Int /\ y \in Int /\ c \in 0 .. AddrSpace - 1 /\ y = AddrSpace * k + c
      BY <1>1, <1>3, <1>4, <1>6, <1>7
    <2> HIDE DEF y, k, c
    <2>2. y % AddrSpace = c
      BY <2>1, DivisionIsUnique, SizeTypes
    <2> QED
      BY <2>2 DEF y, c
  <1>9. (W * p + r) \div W = p
    <2>1. p \in Int /\ W * p + r \in Int
      BY <1>3, <1>6
    <2> QED
      BY <1>2, <2>1, DivisionIsUnique, SizeTypes
  <1> QED
    BY <1>8, <1>9 DEF WordOf, p, q

(* Further on in a section a word is less far away, or around the whole    *)
(* address space.                                                          *)
LEMMA FromFurther ==
    ASSUME NEW x \in Nat, NEW w \in Nat, NEW e \in Nat, W * e <= AddrSpace
    PROVE  From(x + W * e, w) = IF W * e <= From(x, w) THEN From(x, w) - W * e
                                ELSE From(x, w) - W * e + AddrSpace
  <1> DEFINE q == WordOf(x)
             p == WordOf(x + W * e)
             z == (w - q) % SpaceWords
             s == (w - q) \div SpaceWords
             u == (q + e) \div SpaceWords
             y == (w - p) % SpaceWords
  <1>1. W * e \in Nat /\ x + W * e \in Nat
    BY Products, SizeTypes, SizeFacts
  <1>2. q \in Nat /\ From(x, w) = W * z
    <2>1. WordOf(x) \in Nat /\ From(x, w) = W * ((w - WordOf(x)) % SpaceWords)
      BY FromIs
    <2> QED
      BY <2>1
  <1>3. p \in Nat /\ From(x + W * e, w) = W * y
    <2> DEFINE v == x + W * e
    <2>1. v \in Nat
      BY <1>1
    <2> HIDE DEF v
    <2>2. WordOf(v) \in Nat /\ From(v, w) = W * ((w - WordOf(v)) % SpaceWords)
      BY <2>1, FromIs
    <2> QED
      BY <2>2 DEF v
  <1>4. p = (q + e) % SpaceWords
    BY WordOfSum
  <1> HIDE DEF p, q
  <1>5. q + e = SpaceWords * u + p /\ u \in Int
    <2>1. q + e \in Int
      BY <1>2
    <2> QED
      BY <1>4, <2>1, DivisionOfInt, SizeTypes
  <1>6. w - q = SpaceWords * s + z /\ z \in 0 .. SpaceWords - 1 /\ s \in Int
    <2>1. w - q \in Int
      BY <1>2
    <2> QED
      BY <2>1, DivisionOfInt, SizeTypes
  <1>7. e <= SpaceWords
    BY Products, SizeTypes, SizeFacts
  <1> HIDE DEF z, s, u
  <1>8. w - p = SpaceWords * (s + u) + (z - e)
    <2>1. SpaceWords * (s + u) = SpaceWords * s + SpaceWords * u
          /\ SpaceWords * s \in Int /\ SpaceWords * u \in Int
      BY <1>5, <1>6, Products, SizeTypes, SizeFacts
    <2> QED
      BY <1>2, <1>3, <1>5, <1>6, <2>1
  <1>9. z \in Int /\ e \in Int /\ W * z \in Int
    BY <1>6, Products, SizeTypes, SizeFacts
  <1>10. CASE e <= z
    <2>1. z - e \in 0 .. SpaceWords - 1 /\ s + u \in Int /\ w - p \in Int
      BY <1>3, <1>5, <1>6, <1>10, SizeTypes, SizeFacts
    <2>2. y = z - e
      <3> DEFINE v == w - p
                 k == s + u
                 c == z - e
      <3>1. v \in Int /\ k \in Int /\ c \in 0 .. SpaceWords - 1 /\ v = SpaceWords * k + c
        BY <1>8, <2>1
      <3> HIDE DEF v, k, c
      <3>2. v % SpaceWords = c
        BY <3>1, DivisionIsUnique, SizeTypes
      <3> QED
        BY <3>2 DEF v, c
    <2> HIDE DEF y
    <2>3. W * y = W * z - W * e /\ W * e <= W * z
      BY <1>9, <1>10, <2>2, Products, SizeTypes, SizeFacts
    <2> QED
      BY <1>2, <1>3, <2>3
  <1>11. CASE z < e
    <2>1. z - e + SpaceWords \in 0 .. SpaceWords - 1 /\ s + u - 1 \in Int /\ w - p \in Int
      BY <1>3, <1>5, <1>6, <1>7, <1>11, SizeTypes, SizeFacts
    <2>2. w - p = SpaceWords * (s + u - 1) + (z - e + SpaceWords)
      <3>1. s + u \in Int
        BY <1>5, <1>6
      <3>2. SpaceWords * (s + u - 1) = SpaceWords * (s + u) - SpaceWords
            /\ SpaceWords * (s + u) \in Int
        <4>1. s \in Int /\ u \in Int /\ SpaceWords \in Int
          BY <1>5, <1>6, SizeTypes
        <4> QED
          BY <4>1
      <3> QED
        BY <1>3, <1>8, <1>9, <3>2, SizeTypes
    <2>3. y = z - e + SpaceWords
      <3> DEFINE v == w - p
                 k == s + u - 1
                 c == z - e + SpaceWords
      <3>1. v \in Int /\ k \in Int /\ c \in 0 .. SpaceWords - 1 /\ v = SpaceWords * k + c
        BY <2>2, <2>1
      <3> HIDE DEF v, k, c
      <3>2. v % SpaceWords = c
        BY <3>1, DivisionIsUnique, SizeTypes
      <3> QED
        BY <3>2 DEF v, c
    <2> HIDE DEF y
    <2>4. W * y = W * z - W * e + AddrSpace
      <3>1. W * (z - e + SpaceWords) = W * (z - e) + W * SpaceWords
        BY <1>9, Products, SizeTypes, SizeFacts
      <3>2. W * (z - e) = W * z - W * e
        BY <1>9, Products, SizeTypes, SizeFacts
      <3> QED
        BY <2>3, <3>1, <3>2, SizeTypes, SizeFacts
    <2>5. ~ (W * e <= W * z)
      BY <1>9, <1>11, Products, SizeTypes, SizeFacts
    <2> QED
      BY <1>2, <1>3, <2>4, <2>5
  <1> QED
    BY <1>9, <1>10, <1>11

-------------------------------------------------------------------------------
(* Files and segments *)

LEMMA SegmentFacts ==
    ASSUME file \in Files
    PROVE  /\ Len(Segments) \in Nat /\ DOMAIN Segments = 1 .. Len(Segments)
           /\ \A j \in DOMAIN Segments :
                 /\ Segments[j].paddr \in Nat /\ Segments[j].memsz \in Nat
                 /\ Segments[j].filesz \in Nat /\ Segments[j].filesz <= AddrSpace
  <1> DEFINE Headers == [load : BOOLEAN, paddr : Nat, filesz : 0 .. AddrSpace,
                         memsz : Nat, inside : BOOLEAN]
  <1>1. Segments \in Seq(Headers)
    BY FilesAssumption DEF Segments
  <1>2. \A h \in Headers : /\ h.paddr \in Nat /\ h.memsz \in Nat
                           /\ h.filesz \in Nat /\ h.filesz <= AddrSpace
    BY SizeTypes
  <1> HIDE DEF Headers
  <1>3. \A j \in DOMAIN Segments : Segments[j] \in Headers
    BY <1>1
  <1> QED
    BY <1>1, <1>2, <1>3

(* Of the sections at an address one comes first. *)
LEMMA FirstFacts ==
    ASSUME file \in Files, NEW j \in DOMAIN Segments, IsSection(j)
    PROVE  /\ First(j) \in 1 .. j /\ First(j) \in DOMAIN Segments /\ IsSection(First(j))
           /\ Segments[First(j)].paddr = Segments[j].paddr
           /\ \A h \in 1 .. First(j) - 1 :
                 IsSection(h) => Segments[h].paddr # Segments[j].paddr
  <1> DEFINE Same == {i \in 1 .. j : IsSection(i) /\ Segments[i].paddr = Segments[j].paddr}
  <1>1. j \in Nat \ {0} /\ 1 .. j \subseteq DOMAIN Segments
    BY SegmentFacts
  <1>2. PICK x \in Same : \A y \in Same : x <= y
    <2>1. Same \subseteq Nat /\ j \in Same
      BY <1>1
    <2> HIDE DEF Same
    <2> QED
      BY <2>1, WellOrder
  <1>3. \A h \in 1 .. x - 1 : IsSection(h) => Segments[h].paddr # Segments[j].paddr
    BY <1>1, <1>2
  <1>4. /\ First(j) \in 1 .. j
        /\ IsSection(First(j)) /\ Segments[First(j)].paddr = Segments[j].paddr
        /\ \A h \in 1 .. First(j) - 1 : IsSection(h) => Segments[h].paddr # Segments[j].paddr
    BY <1>2, <1>3 DEF First
  <1> QED
    BY <1>1, <1>4

LEMMA FirstIsShared ==
    ASSUME file \in Files, NEW i \in DOMAIN Segments, NEW j \in DOMAIN Segments,
           IsSection(i), IsSection(j), Segments[i].paddr = Segments[j].paddr
    PROVE  First(i) = First(j)
  <1>1. First(i) \in Nat /\ First(j) \in Nat /\ First(i) # 0 /\ First(j) # 0
    BY FirstFacts, SegmentFacts
  <1>2. ~ (First(i) < First(j))
    BY <1>1, FirstFacts
  <1>3. ~ (First(j) < First(i))
    BY <1>1, FirstFacts
  <1> QED
    BY <1>1, <1>2, <1>3

LEMMA FileKept ==
    ASSUME file' = file
    PROVE  /\ Segments' = Segments
           /\ \A j : IsSection(j)' <=> IsSection(j)
           /\ \A j : First(j)' = First(j)
           /\ \A j, w : Covers(j, w)' <=> Covers(j, w)
           /\ \A j, w : Text(j, w)' = Text(j, w)
           /\ \A j : SegmentBytes(j)' = SegmentBytes(j)
  <1>1. Segments' = Segments
    BY DEF Segments
  <1>2. \A j : IsSection(j)' <=> IsSection(j)
    BY <1>1 DEF IsSection
  <1>3. ASSUME NEW j PROVE First(j)' = First(j)
    BY <1>1, <1>2 DEF First
  <1> QED
    BY <1>1, <1>2, <1>3 DEF Covers, Text, SegmentBytes

LEMMA ListKept ==
    ASSUME UNCHANGED <<file, next, sections>>
    PROVE  Listed' = Listed /\ \A g : Order(g)' <=> Order(g)
  <1>1. Listed' = Listed
    BY FileKept DEF Listed
  <1> QED
    BY <1>1, FileKept DEF Order

-------------------------------------------------------------------------------
(* Reading the file *)

LEMMA FileInitially == LoadInit => FileInv
  <1> SUFFICES ASSUME LoadInit PROVE FileInv
    OBVIOUS
  <1>1. Listed = {}
    BY SegmentFacts DEF LoadInit, Listed
  <1> QED
    BY <1>1, SegmentFacts DEF LoadInit, FileInv

(* An action that reads nothing of the file into the map. *)
LEMMA FileRest ==
    ASSUME FileInv, UNCHANGED <<file, next, mems, sections>>,
           loader' \in {"sections", "chunks", "loaded", "failed"},
           file.headers = "good" /\ loader' # "failed" => next = Len(Segments) + 1,
           loader' = "failed" => file.headers = "unreadable"
    PROVE  FileInv'
  <1>1. Listed' = Listed /\ Segments' = Segments
    BY ListKept, FileKept
  <1>2. \A j \in Listed : mems'[Segments'[j].paddr] = SegmentBytes(First(j))'
    <2>1. \A j : First(j)' = First(j)
      BY FileKept
    <2>2. \A j : SegmentBytes(j)' = SegmentBytes(j)
      BY FileKept
    <2>3. \A j \in Listed : SegmentBytes(First(j))' = SegmentBytes(First(j))
      BY <2>1, <1>1 DEF SegmentBytes
    <2> QED
      BY <1>1, <2>3 DEF FileInv
  <1> QED
    BY <1>1, <1>2 DEF FileInv

LEMMA ReadElfStep == FileInv /\ ReadElf => FileInv'
  <1> SUFFICES ASSUME FileInv, ReadElf PROVE FileInv'
    OBVIOUS
  <1>1. Listed' = Listed /\ Segments' = Segments
    BY ListKept, FileKept DEF ReadElf
  <1>2. file.headers \in {"good", "truncated"}
    BY FilesAssumption DEF FileInv, ReadElf
  <1>3. \A j \in Listed : mems'[Segments'[j].paddr] = SegmentBytes(First(j))'
    <2>1. \A j \in Listed : SegmentBytes(First(j))' = SegmentBytes(First(j))
      BY FileKept DEF ReadElf, SegmentBytes
    <2> QED
      BY <1>1, <2>1 DEF FileInv, ReadElf
  <1> QED
    BY <1>1, <1>2, <1>3 DEF FileInv, ReadElf

(* A section is added to the map unless its address is there. *)
LEMMA ListGrows ==
    ASSUME FileInv, next \in DOMAIN Segments, IsSection(next), file' = file, next' = next + 1
    PROVE  Listed' = Listed \union {next}
  <1>1. next \in Nat
    BY SegmentFacts DEF FileInv
  <1>2. DOMAIN Segments \subseteq Nat
    BY SegmentFacts DEF FileInv
  <1> QED
    BY <1>1, <1>2, FileKept DEF Listed

LEMMA LoadSegmentStep == FileInv /\ LoadSegment => FileInv'
  <1> SUFFICES ASSUME FileInv, LoadSegment PROVE FileInv'
    OBVIOUS
  <1> DEFINE ph == Segments[next]
             section == ph.load /\ ph.memsz > 0 /\ ph.filesz > 0
  <1>0. /\ Len(Segments) \in Nat /\ DOMAIN Segments = 1 .. Len(Segments)
        /\ DOMAIN Segments \subseteq Nat
    BY SegmentFacts DEF FileInv
  <1>1. /\ file' = file /\ file \in Files /\ file.headers = "good" /\ loader = "segments"
        /\ next \in DOMAIN Segments /\ next \in Nat /\ ph.paddr \in Nat
    BY <1>0, SegmentFacts DEF FileInv, LoadSegment
  <1>6. section <=> IsSection(next)
    BY <1>1 DEF IsSection
  <1>2. /\ Segments' = Segments /\ \A j : IsSection(j)' <=> IsSection(j)
        /\ \A j : SegmentBytes(First(j))' = SegmentBytes(First(j))
    BY <1>1, FileKept DEF SegmentBytes
  <1>3. CASE section /\ ~ph.inside
    <2>1. loader' = "aborted" /\ UNCHANGED <<file, next, mems, sections>>
      BY <1>3 DEF LoadSegment
    <2>2. Listed' = Listed
      BY <2>1, ListKept
    <2> QED
      BY <1>2, <2>1, <2>2 DEF FileInv
  <1>4. CASE ~section
    <2>1. next' = next + 1 /\ UNCHANGED <<file, loader, mems, sections>>
      BY <1>4 DEF LoadSegment
    <2>2. Listed' = Listed
      <3>1. ~ IsSection(next)
        BY <1>4, <1>6
      <3>2. \A j \in DOMAIN Segments : IsSection(j) => (j < next + 1 <=> j < next)
        BY <1>0, <1>1, <3>1
      <3> QED
        BY <1>2, <2>1, <3>2 DEF Listed
    <2>3. next' \in 1 .. Len(Segments) + 1
      BY <1>0, <1>1, <2>1
    <2> QED
      BY <1>1, <1>2, <2>1, <2>2, <2>3 DEF FileInv
  <1>5. CASE section /\ ph.inside
    <2>1. /\ next' = next + 1 /\ UNCHANGED <<file, loader>>
          /\ mems' = Write(ph.paddr, SegmentBytes(next))
          /\ sections' = Append(sections, ph.paddr)
      BY <1>5 DEF LoadSegment
    <2>2. Listed' = Listed \union {next} /\ next \notin Listed
      BY <1>1, <1>5, <1>6, <2>1, ListGrows DEF Listed
    <2>3. next' \in 1 .. Len(Segments) + 1
      BY <1>0, <1>1, <2>1
    <2>4. sections' \in Seq(Nat)
      BY <1>1, <2>1 DEF FileInv
    <2>5. DOMAIN mems' = {Segments[j].paddr : j \in Listed'}
      BY <2>1, <2>2 DEF FileInv, Write
    <2>6. ASSUME NEW j \in Listed' PROVE mems'[Segments[j].paddr] = SegmentBytes(First(j))
      <3>1. CASE j \in Listed
        BY <2>1, <3>1 DEF FileInv, Write
      <3>2. CASE j = next /\ ph.paddr \in DOMAIN mems
        <4>1. PICK i \in Listed : Segments[i].paddr = ph.paddr
          BY <3>2 DEF FileInv
        <4>2. First(i) = First(next)
          BY <1>1, <1>5, <1>6, <4>1, FirstIsShared DEF Listed
        <4>3. mems[ph.paddr] = SegmentBytes(First(i))
          BY <4>1 DEF FileInv
        <4> QED
          BY <2>1, <3>2, <4>2, <4>3 DEF Write
      <3>3. CASE j = next /\ ph.paddr \notin DOMAIN mems
        <4>1. /\ First(next) \in 1 .. next /\ First(next) \in DOMAIN Segments
              /\ IsSection(First(next)) /\ Segments[First(next)].paddr = ph.paddr
          BY <1>1, <1>5, <1>6, FirstFacts
        <4>2. First(next) \notin Listed
          BY <3>3, <4>1 DEF FileInv
        <4>3. First(next) = next
          BY <1>0, <1>1, <4>1, <4>2 DEF Listed
        <4> QED
          BY <2>1, <3>3, <4>3 DEF Write
      <3> QED
        BY <2>2, <3>1, <3>2, <3>3
    <2> QED
      BY <1>1, <1>2, <2>1, <2>3, <2>4, <2>5, <2>6 DEF FileInv
  <1> QED
    BY <1>3, <1>4, <1>5

-------------------------------------------------------------------------------
(* The chunks of a section *)

(* The bytes of a section of the list are those of the first segment at    *)
(* its address.                                                            *)
LEMMA SectionAt ==
    ASSUME FileInv, NEW g, Order(g), NEW k \in 1 .. Len(sections)
    PROVE  /\ g[k] \in Listed /\ g[k] \in DOMAIN Segments /\ IsSection(g[k])
           /\ First(g[k]) \in DOMAIN Segments /\ IsSection(First(g[k]))
           /\ sections[k] \in Nat /\ Segments[First(g[k])].paddr = sections[k]
           /\ sections[k] \in DOMAIN mems
           /\ mems[sections[k]] = SegmentBytes(First(g[k]))
           /\ Len(mems[sections[k]]) = Segments[First(g[k])].filesz
           /\ Segments[First(g[k])].filesz \in Nat
           /\ Segments[First(g[k])].filesz <= AddrSpace
  <1>1. file \in Files
    BY DEF FileInv
  <1>2. g[k] \in Listed /\ sections[k] = Segments[g[k]].paddr
    BY DEF Order
  <1>3. g[k] \in DOMAIN Segments /\ IsSection(g[k])
    BY <1>2 DEF Listed
  <1>4. /\ First(g[k]) \in DOMAIN Segments /\ IsSection(First(g[k]))
        /\ Segments[First(g[k])].paddr = Segments[g[k]].paddr
    BY <1>1, <1>3, FirstFacts
  <1>5. /\ Segments[g[k]].paddr \in DOMAIN mems
        /\ mems[Segments[g[k]].paddr] = SegmentBytes(First(g[k]))
    BY <1>2 DEF FileInv
  <1>6. /\ Segments[First(g[k])].filesz \in Nat
        /\ Segments[First(g[k])].filesz <= AddrSpace
        /\ Segments[First(g[k])].paddr \in Nat
    BY <1>1, <1>4, SegmentFacts
  <1>7. Len(SegmentBytes(First(g[k]))) = Segments[First(g[k])].filesz
    BY <1>6 DEF SegmentBytes
  <1> QED
    BY <1>2, <1>3, <1>4, <1>5, <1>6, <1>7

(* Multiples of the words of a chunk. *)
LEMMA ChunkIsWords ==
    ASSUME NEW x \in Nat, x % W = 0
    PROVE  (x + ChunkBytes) % W = 0 /\ x + ChunkBytes \in Nat
  <1> DEFINE e == x \div W
             c == ChunkBytes \div W
             k == e + c
             y == x + ChunkBytes
  <1>1. ChunkBytes \in Nat /\ ChunkBytes % W = 0
    BY SizesAssumption DEF W
  <1>2. x = W * e /\ e \in Nat
    BY DivisionOfNat, SizeTypes
  <1>3. ChunkBytes = W * c /\ c \in Nat
    <2> QED
      BY <1>1, DivisionOfNat, SizeTypes
  <1> HIDE DEF e, c
  <1>4. y = W * k + 0 /\ k \in Int /\ y \in Nat /\ 0 \in 0 .. W - 1
    BY <1>1, <1>2, <1>3, Products, SizeTypes
  <1> HIDE DEF k, y
  <1>5. y % W = 0
    BY <1>4, DivisionIsUnique, SizeTypes
  <1> QED
    BY <1>4, <1>5 DEF y

(* A multiple of the words of a chunk that is in the chunk has its word    *)
(* there.                                                                  *)
LEMMA WordInChunk ==
    ASSUME NEW e \in Int, W * e < ChunkBytes
    PROVE  W * e + W <= ChunkBytes
  <1> DEFINE c == ChunkBytes \div W
  <1>1. ChunkBytes \in Nat /\ ChunkBytes % W = 0
    BY SizesAssumption DEF W
  <1>2. ChunkBytes = W * c /\ c \in Int
    BY <1>1, DivisionOfNat, SizeTypes
  <1> HIDE DEF c
  <1> QED
    BY <1>2, Products, SizeTypes

(* A chunk reaches the words from secOffset to its end, and no others: it  *)
(* does not come around the address space.                                 *)
LEMMA ChunkReaches ==
    ASSUME NEW x \in Nat, NEW s \in Nat, NEW len \in Nat, len <= AddrSpace,
           s % W = 0, s < len, NEW w \in Nat, NEW n \in Nat, n <= len - s, n <= ChunkBytes
    PROVE  /\ From(x + s, w) \in 0 .. n - 1
                 <=> (s <= From(x, w) /\ From(x, w) < s + n)
           /\ From(x + s, w) \in 0 .. n - 1
                 => /\ From(x + s, w) = From(x, w) - s
                    /\ From(x + s, w) + W <= ChunkBytes
  <1> DEFINE e == s \div W
             i == From(x + s, w)
             f == From(x, w)
  <1>1. s = W * e /\ e \in Nat
    BY DivisionOfNat, SizeTypes
  <1> HIDE DEF e
  <1>2. i = IF s <= f THEN f - s ELSE f - s + AddrSpace
    <2>1. W * e <= AddrSpace
      BY <1>1, SizeTypes
    <2>2. From(x + W * e, w) = IF W * e <= From(x, w) THEN From(x, w) - W * e
                               ELSE From(x, w) - W * e + AddrSpace
      BY <1>1, <2>1, FromFurther
    <2> QED
      BY <1>1, <2>2
  <1>3. f \in Nat /\ f + W <= AddrSpace
    BY FromIs
  <1>4. i \in Nat /\ \E q \in Int : i = W * q
    <2> DEFINE y == x + s
    <2>1. y \in Nat
      OBVIOUS
    <2> HIDE DEF y
    <2>2. /\ (w - WordOf(y)) % SpaceWords \in 0 .. SpaceWords - 1
          /\ From(y, w) = W * ((w - WordOf(y)) % SpaceWords) /\ From(y, w) \in Nat
      BY <2>1, FromIs
    <2>3. (w - WordOf(y)) % SpaceWords \in Int
      BY <2>2, SizeTypes
    <2> QED
      BY <2>2, <2>3 DEF y
  <1> HIDE DEF i, f
  <1>5. i \in 0 .. n - 1 => s <= f
    BY <1>2, <1>3, <1>4, SizeTypes
  <1>6. i \in 0 .. n - 1 => i = f - s
    BY <1>2, <1>5
  <1>7. i \in 0 .. n - 1 <=> (s <= f /\ f < s + n)
    BY <1>2, <1>3, <1>4, <1>5
  <1>8. i \in 0 .. n - 1 => i + W <= ChunkBytes
    <2> SUFFICES ASSUME i \in 0 .. n - 1 PROVE i + W <= ChunkBytes
      OBVIOUS
    <2>1. PICK q \in Int : i = W * q
      BY <1>4
    <2>2. i < ChunkBytes
      BY SizeTypes
    <2> QED
      BY <2>1, <2>2, WordInChunk
  <1> QED
    BY <1>6, <1>7, <1>8 DEF i, f

LEMMA MinOfTwo ==
    ASSUME NEW a \in Int, NEW b \in Int
    PROVE  /\ Min({a, b}) \in {a, b} /\ Min({a, b}) <= a /\ Min({a, b}) <= b
           /\ Min({a, b}) \in Int
  BY DEF Min

(* What a chunk leaves in a word. *)
LEMMA ChunkWritten ==
    ASSUME NEW f \in DOMAIN Segments, base = Segments[f].paddr, base \in Nat,
           mems[base] = SegmentBytes(f), secLen = Segments[f].filesz,
           secLen \in Nat, secLen <= AddrSpace,
           secOffset \in Nat, secOffset % W = 0, secOffset < secLen,
           NEW n \in Nat, n = Min({ChunkBytes, secLen - secOffset}),
           NEW w \in Nat, w \in DOMAIN sram
    PROVE  LoadChunk(base + secOffset, ReadSectionChunk(secOffset, n), n)[w]
              = IF /\ secOffset <= From(base, w) /\ From(base, w) < secLen
                   /\ From(base, w) < secOffset + ChunkBytes
                THEN Text(f, w) ELSE sram[w]
  <1> DEFINE i == From(base + secOffset, w)
             b == From(base, w)
             chunk == ReadSectionChunk(secOffset, n)
  <1>1. /\ n <= secLen - secOffset /\ n <= ChunkBytes
        /\ n = ChunkBytes \/ n = secLen - secOffset
    BY SizeTypes DEF Min
  <1>2. /\ i \in 0 .. n - 1 <=> (secOffset <= b /\ b < secOffset + n)
        /\ i \in 0 .. n - 1 => i = b - secOffset /\ i + W <= ChunkBytes
    BY <1>1, ChunkReaches
  <1>3. b \in Nat
    BY FromIs
  <1>4. LoadChunk(base + secOffset, chunk, n)[w]
           = IF i \in 0 .. n - 1 THEN [k \in 0 .. W - 1 |-> chunk[i + k]] ELSE sram[w]
    BY DEF LoadChunk, W
  <1>5. Text(f, w) = [k \in 0 .. W - 1 |-> IF b + k < secLen THEN <<f, b + k>> ELSE Zero]
    BY DEF Text
  <1> HIDE DEF i, b
  <1>6. i \in 0 .. n - 1 <=> (secOffset <= b /\ b < secLen /\ b < secOffset + ChunkBytes)
    BY <1>1, <1>2, <1>3, SizeTypes
  <1>7. ASSUME i \in 0 .. n - 1, NEW k \in 0 .. W - 1
        PROVE  chunk[i + k] = IF b + k < secLen THEN <<f, b + k>> ELSE Zero
    <2>1. i + k \in 0 .. ChunkBytes - 1 /\ i = b - secOffset /\ k \in Nat
      BY <1>2, <1>7, SizeTypes
    <2>2. chunk[i + k] = IF i + k < n THEN mems[base][secOffset + (i + k) + 1] ELSE Zero
      BY <2>1 DEF ReadSectionChunk
    <2>3. i + k < n <=> b + k < secLen
      BY <1>1, <1>3, <2>1, SizeTypes
    <2>4. b + k < secLen => mems[base][b + k + 1] = <<f, b + k>>
      BY <1>3, <2>1 DEF SegmentBytes
    <2>5. secOffset + (i + k) + 1 = b + k + 1
      BY <1>3, <2>1
    <2> QED
      BY <2>2, <2>3, <2>4, <2>5
  <1> HIDE DEF chunk
  <1>8. CASE i \in 0 .. n - 1
    <2>1. [k \in 0 .. W - 1 |-> chunk[i + k]] = Text(f, w)
      BY <1>5, <1>7, <1>8
    <2> QED
      BY <1>4, <1>6, <1>8, <2>1 DEF b, chunk
  <1>9. CASE i \notin 0 .. n - 1
    BY <1>4, <1>6, <1>9 DEF b, chunk
  <1> QED
    BY <1>8, <1>9

-------------------------------------------------------------------------------
(* The words *)

(* A word that is not written shows what it showed. *)
LEMMA ShowsSame ==
    ASSUME UNCHANGED <<file, index>>, NEW g, NEW w, sram'[w] = sram[w], index \in Nat,
           \A k \in 1 .. index : On(g, k, w)' <=> On(g, k, w), Shows(g, w)
    PROVE  Shows(g, w)'
  <1>1. \A j : First(j)' = First(j) /\ Text(j, w)' = Text(j, w)
    BY FileKept
  <1>2. \A k \in 1 .. index : Text(First(g[k]), w)' = Text(First(g[k]), w)
    BY <1>1, FileKept DEF Text
  <1>3. CASE sram[w] = Blank /\ \A k \in 1 .. index : ~On(g, k, w)
    BY <1>3 DEF Shows, Blank
  <1>4. CASE \E k \in 1 .. index :
                /\ On(g, k, w) /\ \A h \in k + 1 .. index : ~On(g, h, w)
                /\ sram[w] = Text(First(g[k]), w)
    <2>1. PICK k \in 1 .. index :
                /\ On(g, k, w) /\ \A h \in k + 1 .. index : ~On(g, h, w)
                /\ sram[w] = Text(First(g[k]), w)
      BY <1>4
    <2>2. \A h \in k + 1 .. index : ~On(g, h, w)'
      BY <2>1
    <2> QED
      BY <1>2, <2>1, <2>2 DEF Shows
  <1> QED
    BY <1>3, <1>4 DEF Shows

(* The sections written are those of before, where the section being       *)
(* loaded is the same.                                                     *)
LEMMA OnSame ==
    ASSUME UNCHANGED <<file, index, base, secOffset>>,
           loader' = "chunks" <=> loader = "chunks", NEW g, NEW w
    PROVE  \A k \in 1 .. index : On(g, k, w)' <=> On(g, k, w)
  <1>1. \A j : First(j)' = First(j)
    BY FileKept
  <1>2. \A k : Covers(First(g[k]), w)' <=> Covers(First(g[k]), w)
    BY <1>1, FileKept DEF Covers
  <1> QED
    BY <1>2 DEF On, From

(* An action that leaves the list, the place and the SRAM as they are. *)
LEMMA SramRest ==
    ASSUME LoadInv, UNCHANGED <<file, next, sections, index, base, secOffset, sram>>,
           loader' = "chunks" <=> loader = "chunks"
    PROVE  SramInv'
  <1>1. PICK g \in [1 .. Len(sections) -> Listed] :
            Order(g) /\ \A w \in 0 .. RamWords - 1 : Shows(g, w)
    BY DEF LoadInv, SramInv
  <1>2. Order(g)' /\ Listed' = Listed
    BY <1>1, ListKept
  <1>3. ASSUME NEW w \in 0 .. RamWords - 1 PROVE Shows(g, w)'
    <2>1. \A k \in 1 .. index : On(g, k, w)' <=> On(g, k, w)
      BY OnSame
    <2> QED
      BY <1>1, <2>1, ShowsSame DEF LoadInv, PlaceInv
  <1> QED
    BY <1>1, <1>2, <1>3 DEF LoadInv, SramInv

LEMMA OrderGrows ==
    ASSUME FileInv, next \in DOMAIN Segments, IsSection(next), file' = file, next' = next + 1,
           sections' = Append(sections, Segments[next].paddr),
           NEW g, Order(g), NEW m,
           m = [k \in 1 .. Len(sections) + 1 |-> IF k = Len(sections) + 1 THEN next ELSE g[k]]
    PROVE  m \in [1 .. Len(sections') -> Listed'] /\ Order(m)'
  <1> DEFINE n == Len(sections)
  <1>1. /\ n \in Nat /\ Len(sections') = n + 1 /\ sections'[n + 1] = Segments[next].paddr
        /\ \A k \in 1 .. n : sections'[k] = sections[k]
    BY SegmentFacts DEF FileInv
  <1>2. Listed' = Listed \union {next}
    BY ListGrows
  <1>3. Segments' = Segments
    BY DEF Segments
  <1>4. /\ g \in [1 .. n -> Listed]
        /\ \A h, k \in 1 .. n : h < k => g[h] < g[k]
        /\ \A j \in Listed : \E k \in 1 .. n : g[k] = j
        /\ \A k \in 1 .. n : sections[k] = Segments[g[k]].paddr
    BY DEF Order
  <1> HIDE DEF n
  <1>5. /\ m \in [1 .. n + 1 -> Listed'] /\ m[n + 1] = next
        /\ \A k \in 1 .. n : m[k] = g[k]
    BY <1>1, <1>2, <1>4 DEF n
  <1>6. \A h, k \in 1 .. n + 1 : h < k => m[h] < m[k]
    <2>1. \A h \in 1 .. n : m[h] < next
      BY <1>4, <1>5 DEF Listed
    <2>2. ASSUME NEW h \in 1 .. n + 1, NEW k \in 1 .. n + 1, h < k
          PROVE  h \in 1 .. n /\ (k \in 1 .. n \/ k = n + 1)
      BY <1>1, <2>2
    <2>3. ASSUME NEW h \in 1 .. n + 1, NEW k \in 1 .. n + 1, h < k
          PROVE  m[h] < m[k]
      <3>1. CASE k = n + 1
        BY <1>5, <2>1, <2>2, <2>3, <3>1
      <3>2. CASE k \in 1 .. n
        <4>1. h \in 1 .. n /\ m[h] = g[h] /\ m[k] = g[k]
          BY <1>5, <2>2, <2>3, <3>2
        <4> QED
          BY <1>4, <2>3, <3>2, <4>1
      <3> QED
        BY <2>2, <2>3, <3>1, <3>2
    <2> QED
      BY <2>3
  <1>7. \A j \in Listed' : \E k \in 1 .. n + 1 : m[k] = j
    <2>1. \A j \in Listed : \E k \in 1 .. n : m[k] = j
      BY <1>4, <1>5
    <2>2. n + 1 \in 1 .. n + 1 /\ \A k \in 1 .. n : k \in 1 .. n + 1
      BY <1>1
    <2> QED
      BY <1>2, <1>5, <2>1, <2>2
  <1>8. \A k \in 1 .. n + 1 : sections'[k] = Segments'[m[k]].paddr
    BY <1>1, <1>3, <1>4, <1>5
  <1> QED
    BY <1>1, <1>5, <1>6, <1>7, <1>8 DEF Order

-------------------------------------------------------------------------------
(* The invariant *)

LEMMA LoadInitially == LoadInit => LoadInv
  <1> SUFFICES ASSUME LoadInit PROVE LoadInv
    OBVIOUS
  <1>1. FileInv
    BY FileInitially
  <1>2. PlaceInv
    BY SizeTypes DEF LoadInit, PlaceInv
  <1>3. Listed = {}
    BY SegmentFacts DEF LoadInit, Listed
  <1>4. PICK g : g = [k \in 1 .. 0 |-> k]
    OBVIOUS
  <1>5. Len(sections) = 0 /\ 1 .. 0 = {}
    BY DEF LoadInit
  <1>6. g \in [1 .. Len(sections) -> Listed] /\ Order(g)
    BY <1>3, <1>4, <1>5 DEF Order
  <1>7. \A w \in 0 .. RamWords - 1 : Shows(g, w)
    BY <1>5 DEF LoadInit, Shows, Blank, W
  <1> QED
    BY <1>1, <1>2, <1>6, <1>7 DEF LoadInv, SramInv, LoadInit

LEMMA ReadingStep ==
    LoadInv /\ (ReadElfFails \/ ReadElf \/ SectionHeaders \/ Loaded) => LoadInv'
  <1> SUFFICES ASSUME LoadInv, ReadElfFails \/ ReadElf \/ SectionHeaders \/ Loaded
               PROVE  LoadInv'
    OBVIOUS
  <1>1. /\ UNCHANGED <<file, next, mems, sections, index, base, secLen, secOffset, sram>>
        /\ loader # "chunks" /\ loader' # "chunks"
    BY DEF ReadElfFails, ReadElf, SectionHeaders, Loaded
  <1>2. FileInv'
    <2>1. CASE ReadElfFails
      BY <2>1, FileRest DEF LoadInv, ReadElfFails
    <2>2. CASE ReadElf
      BY <2>2, ReadElfStep DEF LoadInv
    <2>3. CASE SectionHeaders
      <3>1. next = Len(Segments) + 1
        BY <2>3, SegmentFacts DEF LoadInv, FileInv, SectionHeaders
      <3> QED
        BY <2>3, <3>1, FileRest DEF LoadInv, SectionHeaders
    <2>4. CASE Loaded
      BY <2>4, FileRest DEF LoadInv, FileInv, Loaded
    <2> QED
      BY <2>1, <2>2, <2>3, <2>4
  <1>3. PlaceInv'
    BY <1>1 DEF LoadInv, FileInv, PlaceInv, ReadElfFails, ReadElf, SectionHeaders, Loaded
  <1>4. SramInv'
    BY <1>1, SramRest
  <1> QED
    BY <1>2, <1>3, <1>4 DEF LoadInv

LEMMA SegmentStep == LoadInv /\ LoadSegment => LoadInv'
  <1> SUFFICES ASSUME LoadInv, LoadSegment PROVE LoadInv'
    OBVIOUS
  <1> DEFINE ph == Segments[next]
             section == ph.load /\ ph.memsz > 0 /\ ph.filesz > 0
  <1>1. /\ FileInv /\ PlaceInv /\ FileInv' /\ index = 0
        /\ UNCHANGED <<file, index, base, secLen, secOffset, sram>>
        /\ loader = "segments" /\ loader' \in {"segments", "aborted"}
    BY LoadSegmentStep DEF LoadInv, PlaceInv, LoadSegment
  <1>2. PlaceInv'
    <2>1. sections' \in Seq(Nat)
      BY <1>1 DEF FileInv
    <2> QED
      BY <1>1, <2>1 DEF PlaceInv
  <1>3. PICK g \in [1 .. Len(sections) -> Listed] :
            Order(g) /\ \A w \in 0 .. RamWords - 1 : Shows(g, w)
    BY DEF LoadInv, SramInv
  <1>4. \A w \in 0 .. RamWords - 1 : sram[w] = Blank
    BY <1>1, <1>3 DEF Shows
  <1>5. \A m : \A w \in 0 .. RamWords - 1 : Shows(m, w)'
    <2>1. index' = 0 /\ 1 .. 0 = {} /\ sram' = sram
      BY <1>1
    <2> QED
      BY <1>4, <2>1 DEF Shows, Blank
  <1>6. \E m \in [1 .. Len(sections') -> Listed'] : Order(m)'
    <2>1. next \in DOMAIN Segments /\ (section <=> IsSection(next)) /\ next \in Nat
      <3>1. next \in DOMAIN Segments /\ next \in Nat
        BY <1>1, SegmentFacts DEF FileInv, LoadSegment
      <3>2. section <=> IsSection(next)
        BY <1>1 DEF FileInv, IsSection
      <3> QED
        BY <3>1, <3>2
    <2>2. CASE section /\ ~ph.inside
      <3>1. UNCHANGED <<file, next, sections>>
        BY <2>2 DEF LoadSegment
      <3> QED
        BY <1>3, <3>1, ListKept
    <2>3. CASE ~section
      <3>1. next' = next + 1 /\ UNCHANGED <<file, sections>>
        BY <2>3 DEF LoadSegment
      <3>2. \A j \in DOMAIN Segments : IsSection(j) => (j < next + 1 <=> j < next)
        BY <1>1, <2>1, <2>3, SegmentFacts DEF FileInv
      <3>3. Listed' = Listed
        BY <3>1, <3>2, FileKept DEF Listed
      <3>4. Segments' = Segments
        BY <3>1 DEF Segments
      <3>5. Order(g)'
        BY <1>3, <3>1, <3>3, <3>4 DEF Order
      <3> QED
        BY <1>3, <3>1, <3>3, <3>5
    <2>4. CASE section /\ ph.inside
      <3>1. next' = next + 1 /\ file' = file /\ sections' = Append(sections, ph.paddr)
        BY <2>4 DEF LoadSegment
      <3>2. PICK m : m = [k \in 1 .. Len(sections) + 1 |->
                             IF k = Len(sections) + 1 THEN next ELSE g[k]]
        OBVIOUS
      <3>3. m \in [1 .. Len(sections') -> Listed'] /\ Order(m)'
        BY <1>1, <1>3, <2>1, <2>4, <3>1, <3>2, OrderGrows
      <3> QED
        BY <3>3
    <2> QED
      BY <2>2, <2>3, <2>4
  <1>7. SramInv'
    BY <1>1, <1>5, <1>6 DEF LoadInv, SramInv
  <1> QED
    BY <1>1, <1>2, <1>7 DEF LoadInv

LEMMA SectionStep == LoadInv /\ GetSection => LoadInv'
  <1> SUFFICES ASSUME LoadInv, GetSection PROVE LoadInv'
    OBVIOUS
  <1>1. PICK g \in [1 .. Len(sections) -> Listed] :
            Order(g) /\ \A w \in 0 .. RamWords - 1 : Shows(g, w)
    BY DEF LoadInv, SramInv
  <1>2. /\ FileInv /\ UNCHANGED <<file, next, mems, sections, sram>>
        /\ index \in Nat /\ index' = index + 1 /\ index' \in 1 .. Len(sections)
        /\ base' = sections[index'] /\ secOffset' = 0
        /\ loader = "sections" /\ loader' = "chunks"
    BY DEF LoadInv, FileInv, PlaceInv, GetSection
  <1>3. /\ base' \in Nat /\ base' \in DOMAIN mems /\ Len(mems[base']) \in Nat
        /\ secLen' = Len(mems[base'])
    <2>1. /\ sections[index'] \in Nat /\ sections[index'] \in DOMAIN mems
          /\ Len(mems[sections[index']]) \in Nat
      BY <1>1, <1>2, SectionAt
    <2> QED
      BY <1>2, <2>1 DEF GetSection
  <1>4. FileInv'
    BY <1>2, FileRest DEF FileInv
  <1>5. PlaceInv'
    BY <1>2, <1>3, SizeTypes DEF PlaceInv
  <1>6. Listed' = Listed /\ Order(g)'
    BY <1>1, <1>2, ListKept
  <1>7. ASSUME NEW w \in 0 .. RamWords - 1 PROVE Shows(g, w)'
    <2>1. \A k : Covers(First(g[k]), w)' <=> Covers(First(g[k]), w)
      BY <1>2, FileKept DEF Covers
    <2>2. \A k \in 1 .. index : On(g, k, w)' <=> On(g, k, w)
      BY <1>2, <2>1 DEF On
    <2>3. ~ On(g, index, w)'
      <3>1. From(base', w) \in Nat
        BY <1>3, FromIs
      <3>2. ~ (From(base', w) < 0)
        BY <3>1
      <3>3. On(g, index, w)' => From(base, w)' < secOffset'
        BY <1>2 DEF On
      <3>4. From(base, w)' = From(base', w)
        BY DEF From
      <3> QED
        BY <1>2, <3>2, <3>3, <3>4
    <2>4. \A k \in 1 .. index : Text(First(g[k]), w)' = Text(First(g[k]), w)
      BY <1>2, FileKept DEF Text
    <2>7. \A k \in 1 .. index' : k \in 1 .. index \/ k = index'
      BY <1>2
    <2>5. CASE sram[w] = Blank /\ \A k \in 1 .. index : ~On(g, k, w)
      <3>1. \A k \in 1 .. index' : ~On(g, k, w)'
        BY <1>2, <2>2, <2>3, <2>5, <2>7
      <3> QED
        BY <1>2, <2>5, <3>1 DEF Shows, Blank
    <2>6. CASE \E k \in 1 .. index :
                  /\ On(g, k, w) /\ \A h \in k + 1 .. index : ~On(g, h, w)
                  /\ sram[w] = Text(First(g[k]), w)
      <3>1. PICK k \in 1 .. index :
                  /\ On(g, k, w) /\ \A h \in k + 1 .. index : ~On(g, h, w)
                  /\ sram[w] = Text(First(g[k]), w)
        BY <2>6
      <3>2. \A h \in k + 1 .. index' : ~On(g, h, w)'
        <4>1. \A h \in k + 1 .. index' : h \in k + 1 .. index \/ h = index'
          BY <1>2
        <4>2. \A h \in k + 1 .. index : h \in 1 .. index
          BY <1>2
        <4> QED
          BY <2>2, <2>3, <3>1, <4>1, <4>2
      <3>3. k \in 1 .. index'
        BY <1>2
      <3> QED
        BY <1>2, <2>2, <2>4, <3>1, <3>2, <3>3 DEF Shows
    <2> QED
      BY <1>1, <2>5, <2>6 DEF Shows
  <1>8. SramInv'
    BY <1>1, <1>2, <1>6, <1>7 DEF LoadInv, SramInv
  <1> QED
    BY <1>4, <1>5, <1>8 DEF LoadInv

LEMMA ChunkStep == LoadInv /\ LoadChunks => LoadInv' /\ loader' # "failed"
  <1> SUFFICES ASSUME LoadInv, LoadChunks PROVE LoadInv' /\ loader' # "failed"
    OBVIOUS
  <1>1. PICK g \in [1 .. Len(sections) -> Listed] :
            Order(g) /\ \A w \in 0 .. RamWords - 1 : Shows(g, w)
    BY DEF LoadInv, SramInv
  <1> DEFINE f == First(g[index])
             n == Min({ChunkBytes, secLen - secOffset})
  <1>2. /\ FileInv /\ UNCHANGED <<file, next, mems, sections, index, base, secLen>>
        /\ loader = "chunks" /\ index \in 1 .. Len(sections) /\ index \in Nat
        /\ secOffset \in Nat /\ secOffset % W = 0 /\ base = sections[index] /\ base \in Nat
        /\ secLen \in Nat /\ secLen = Len(mems[base])
    BY DEF LoadInv, FileInv, PlaceInv, LoadChunks
  <1>3. /\ f \in DOMAIN Segments /\ base \in DOMAIN mems /\ base = Segments[f].paddr
        /\ mems[base] = SegmentBytes(f) /\ secLen = Segments[f].filesz /\ secLen <= AddrSpace
    BY <1>1, <1>2, SectionAt
  <1>4. secOffset < secLen =>
            /\ n \in Nat /\ n <= secLen - secOffset /\ InSection(secOffset, n)
    <2> SUFFICES ASSUME secOffset < secLen
                 PROVE  /\ n \in Nat /\ n <= secLen - secOffset
                        /\ InSection(secOffset, n)
      OBVIOUS
    <2>1. n \in Nat /\ n <= secLen - secOffset
      <3> DEFINE d == secLen - secOffset
      <3>1. d \in Int /\ d > 0 /\ ChunkBytes \in Int /\ ChunkBytes > 0
        BY <1>2, SizeTypes
      <3> HIDE DEF d
      <3>2. n \in {ChunkBytes, d} /\ n <= d
        BY <3>1, MinOfTwo DEF d
      <3> QED
        BY <3>1, <3>2 DEF d
    <2> HIDE DEF n
    <2> QED
      BY <1>2, <1>3, <2>1 DEF InSection
  <1>5. /\ secOffset < secLen =>
              /\ loader' = "chunks" /\ secOffset' = secOffset + ChunkBytes
              /\ sram' = LoadChunk(base + secOffset, ReadSectionChunk(secOffset, n), n)
        /\ secOffset >= secLen =>
              loader' = "sections" /\ UNCHANGED <<secOffset, sram>>
    BY <1>2, <1>4 DEF LoadChunks
  <1> HIDE DEF n
  <1>6. FileInv' /\ loader' # "failed"
    <2>1. loader' \in {"chunks", "sections"}
      BY <1>2, <1>5
    <2>2. file.headers = "good" => next = Len(Segments) + 1
      BY <1>2 DEF FileInv
    <2> QED
      BY <1>2, <2>1, <2>2, FileRest
  <1>7. PlaceInv'
    <2>1. secOffset' \in Nat /\ secOffset' % W = 0
      BY <1>2, <1>5, ChunkIsWords
    <2> QED
      BY <1>2, <1>5, <2>1 DEF PlaceInv
  <1>8. Listed' = Listed /\ Order(g)'
    BY <1>1, <1>2, ListKept
  <1>9. ASSUME NEW w \in 0 .. RamWords - 1 PROVE Shows(g, w)'
    <2>1. \A k : Covers(First(g[k]), w)' <=> Covers(First(g[k]), w)
      BY <1>2, FileKept DEF Covers
    <2>2. \A k \in 1 .. index : k # index => (On(g, k, w)' <=> On(g, k, w))
      BY <1>2, <2>1 DEF On
    <2>3. From(base, w) \in Nat /\ w \in Nat
      <3>1. w \in Nat
        BY SizeTypes
      <3> QED
        BY <1>2, <3>1, FromIs
    <2>4. /\ Covers(f, w) <=> From(base, w) < secLen
          /\ On(g, index, w) <=> (Covers(f, w) /\ From(base, w) < secOffset)
      BY <1>2, <1>3 DEF Covers, On
    <2>5. From(base, w)' = From(base, w)
      BY <1>2 DEF From
    <2>6. CASE secOffset >= secLen
      <3>1. On(g, index, w)' <=> Covers(f, w)
        BY <1>2, <1>5, <2>1, <2>6 DEF On
      <3>2. On(g, index, w)' <=> On(g, index, w)
        BY <1>2, <2>3, <2>4, <2>6, <3>1
      <3> QED
        BY <1>1, <1>2, <1>5, <2>2, <2>6, <3>2, ShowsSame
    <2>7. CASE secOffset < secLen
      <3>1. sram'[w] = IF /\ secOffset <= From(base, w) /\ From(base, w) < secLen
                          /\ From(base, w) < secOffset + ChunkBytes
                       THEN Text(f, w) ELSE sram[w]
        <4>1. w \in DOMAIN sram
          BY DEF LoadInv, SramInv
        <4> HIDE DEF f
        <4>2. n \in Nat /\ n = Min({ChunkBytes, secLen - secOffset})
          BY <1>4, <2>7 DEF n
        <4>3. LoadChunk(base + secOffset, ReadSectionChunk(secOffset, n), n)[w]
                 = IF /\ secOffset <= From(base, w) /\ From(base, w) < secLen
                      /\ From(base, w) < secOffset + ChunkBytes
                   THEN Text(f, w) ELSE sram[w]
          BY <1>2, <1>3, <2>3, <2>7, <4>1, <4>2, ChunkWritten
        <4> QED
          BY <1>5, <2>7, <4>3
      <3>2. On(g, index, w)' <=> (From(base, w) < secLen
                                    /\ From(base, w) < secOffset + ChunkBytes)
        BY <1>2, <1>5, <2>1, <2>4, <2>5, <2>7 DEF On
      <3>3. CASE secOffset <= From(base, w) /\ On(g, index, w)'
        <4>1. sram'[w] = Text(f, w)
          BY <3>1, <3>2, <3>3
        <4>2. Text(f, w)' = Text(f, w)
          BY <1>2, FileKept DEF Text
        <4>3. index' \in 1 .. index' /\ index' + 1 .. index' = {} /\ index' = index
          BY <1>2
        <4> QED
          BY <3>3, <4>1, <4>2, <4>3 DEF Shows
      <3>4. CASE ~ (secOffset <= From(base, w) /\ On(g, index, w)')
        <4>1. sram'[w] = sram[w]
          BY <3>1, <3>2, <3>4
        <4>2. On(g, index, w)' <=> On(g, index, w)
          BY <1>2, <2>3, <2>4, <3>2, <3>4, SizeTypes
        <4> QED
          BY <1>1, <1>2, <2>2, <4>1, <4>2, ShowsSame
      <3> QED
        BY <3>3, <3>4
    <2> QED
      BY <1>2, <2>6, <2>7
  <1>10. sram' = [w \in 0 .. RamWords - 1 |-> sram'[w]]
    <2>1. sram' = sram \/ sram' = [w \in DOMAIN sram |-> sram'[w]]
      BY <1>2, <1>5 DEF LoadChunk
    <2> QED
      BY <2>1 DEF LoadInv, SramInv
  <1>11. SramInv'
    BY <1>1, <1>2, <1>8, <1>9, <1>10 DEF SramInv
  <1> QED
    BY <1>6, <1>7, <1>11 DEF LoadInv

LEMMA StillStep == LoadInv /\ UNCHANGED loadVars => LoadInv'
  <1> SUFFICES ASSUME LoadInv, UNCHANGED loadVars PROVE LoadInv'
    OBVIOUS
  <1>1. FileInv'
    <2>1. Listed' = Listed /\ Segments' = Segments
      BY ListKept, FileKept DEF loadVars
    <2>2. \A j \in Listed : SegmentBytes(First(j))' = SegmentBytes(First(j))
      BY FileKept DEF loadVars, SegmentBytes
    <2> QED
      BY <2>1, <2>2 DEF LoadInv, FileInv, loadVars
  <1>2. PlaceInv'
    BY DEF LoadInv, PlaceInv, loadVars
  <1>3. SramInv'
    BY SramRest DEF loadVars
  <1> QED
    BY <1>1, <1>2, <1>3 DEF LoadInv

(* The list of sections, the map and the SRAM agree with the file at every *)
(* step of the loader (TbElfLoader, PreExec, tb_loadChunk).                *)
THEOREM LoadInvariant == LoadSteps => []LoadInv
  <1>1. LoadInv /\ [LoadNext]_loadVars => LoadInv'
    BY ReadingStep, SegmentStep, SectionStep, ChunkStep, StillStep DEF LoadNext
  <1> QED
    BY <1>1, LoadInitially, PTL DEF LoadSteps

-------------------------------------------------------------------------------
(* What the invariant says of the image and of the CPU *)

LEMMA TypesFollow == LoadInv => LoadTypeOK
  <1> SUFFICES ASSUME LoadInv PROVE LoadTypeOK
    OBVIOUS
  <1>1. PICK g \in [1 .. Len(sections) -> Listed] :
            Order(g) /\ \A w \in 0 .. RamWords - 1 : Shows(g, w)
    BY DEF LoadInv, SramInv
  <1>2. \A j \in DOMAIN sections : sections[j] \in DOMAIN mems
    <2>1. DOMAIN sections = 1 .. Len(sections)
      BY DEF LoadInv, FileInv
    <2> QED
      BY <1>1, <2>1, SectionAt DEF LoadInv
  <1>3. Old \in Bytes /\ Zero \in Bytes
    BY DEF Bytes
  <1>4. ASSUME NEW j \in DOMAIN Segments, NEW n \in 0 .. Segments[j].filesz - 1
        PROVE  <<j, n>> \in Bytes
    BY DEF Bytes
  <1>5. ASSUME NEW w \in 0 .. RamWords - 1 PROVE sram[w] \in [0 .. W - 1 -> Bytes]
    <2>1. CASE sram[w] = Blank
      BY <1>3, <2>1 DEF Blank
    <2>2. ASSUME NEW k \in 1 .. index, sram[w] = Text(First(g[k]), w)
          PROVE  sram[w] \in [0 .. W - 1 -> Bytes]
      <3> DEFINE f == First(g[k])
                 b == From(Segments[f].paddr, w)
      <3>1. k \in 1 .. Len(sections)
        BY DEF LoadInv, FileInv, PlaceInv
      <3>2. /\ f \in DOMAIN Segments /\ Segments[f].paddr \in Nat
            /\ Segments[f].filesz \in Nat
        <4>1. /\ First(g[k]) \in DOMAIN Segments
              /\ sections[k] \in Nat /\ Segments[First(g[k])].paddr = sections[k]
              /\ Segments[First(g[k])].filesz \in Nat
          BY <1>1, <3>1, SectionAt DEF LoadInv
        <4> QED
          BY <4>1
      <3>3. b \in Nat
        <4>1. w \in Nat
          BY SizeTypes
        <4> QED
          BY <3>2, <4>1, FromIs
      <3>4. Text(f, w) = [i \in 0 .. W - 1 |->
                             IF b + i < Segments[f].filesz THEN <<f, b + i>> ELSE Zero]
        BY DEF Text
      <3> HIDE DEF f, b
      <3>5. \A i \in 0 .. W - 1 :
                b + i < Segments[f].filesz => b + i \in 0 .. Segments[f].filesz - 1
        BY <3>2, <3>3, SizeTypes
      <3>6. \A i \in 0 .. W - 1 :
                (IF b + i < Segments[f].filesz THEN <<f, b + i>> ELSE Zero) \in Bytes
        BY <1>3, <1>4, <3>2, <3>5
      <3>7. Text(f, w) \in [0 .. W - 1 -> Bytes]
        BY <3>4, <3>6
      <3> QED
        BY <2>2, <3>7 DEF f
    <2> QED
      BY <1>1, <2>1, <2>2 DEF Shows
  <1> QED
    <2>1. sram \in [0 .. RamWords - 1 -> [0 .. RamWordBytes - 1 -> Bytes]]
      BY <1>5 DEF LoadInv, SramInv, W
    <2> QED
      BY <1>2, <2>1 DEF LoadInv, FileInv, PlaceInv, LoadTypeOK

LEMMA ImageFollows == LoadInv => ImageLoaded
  <1> SUFFICES ASSUME LoadInv, loader = "loaded", NEW w \in 0 .. RamWords - 1
               PROVE  sram[w] = ImageWord(w)
    BY DEF LoadInv, SramInv, ImageLoaded
  <1>1. PICK g \in [1 .. Len(sections) -> Listed] : Order(g) /\ Shows(g, w)
    BY DEF LoadInv, SramInv
  <1>2. index = Len(sections) /\ index \in Nat /\ DOMAIN Segments \subseteq Nat
    BY SegmentFacts DEF LoadInv, FileInv, PlaceInv
  <1>3. \A j \in DOMAIN Segments : IsSection(j) => j \in Listed
    <2>1. file.headers = "good" => next = Len(Segments) + 1
      BY DEF LoadInv, FileInv
    <2>2. \A j \in DOMAIN Segments : j < Len(Segments) + 1
      BY SegmentFacts DEF LoadInv, FileInv
    <2> QED
      BY <2>1, <2>2 DEF Listed, IsSection
  <1>4. \A k \in 1 .. index : On(g, k, w) <=> Covers(First(g[k]), w)
    BY DEF On
  <1>5. /\ \A k \in 1 .. index : g[k] \in Listed
        /\ \A j \in Listed : \E k \in 1 .. index : g[k] = j
        /\ \A h, k \in 1 .. index : h < k => g[h] < g[k]
    BY <1>1, <1>2 DEF Order
  <1>6. /\ \A k \in 1 .. index : On(g, k, w) => g[k] \in Writers(w)
        /\ \A j \in Writers(w) : \E k \in 1 .. index : g[k] = j /\ On(g, k, w)
    BY <1>3, <1>4, <1>5 DEF Writers, Listed
  <1>7. CASE sram[w] = Blank /\ \A k \in 1 .. index : ~On(g, k, w)
    <2>1. Writers(w) = {}
      BY <1>6, <1>7
    <2> QED
      BY <1>7, <2>1 DEF ImageWord, Blank, W
  <1>8. ASSUME NEW k \in 1 .. index, On(g, k, w), \A h \in k + 1 .. index : ~On(g, h, w),
               sram[w] = Text(First(g[k]), w)
        PROVE  sram[w] = ImageWord(w)
    <2>1. g[k] \in Writers(w)
      BY <1>6, <1>8
    <2>2. ASSUME NEW j \in Writers(w) PROVE j <= g[k]
      <3>1. PICK h \in 1 .. index : g[h] = j /\ On(g, h, w)
        BY <1>6
      <3>2. h < k \/ h = k
        BY <1>2, <1>8, <3>1
      <3>3. g[h] \in Nat /\ g[k] \in Nat
        BY <1>2, <1>5 DEF Listed
      <3> QED
        BY <1>5, <3>1, <3>2, <3>3
    <2>3. \A j \in Writers(w) : j \in Nat
      BY <1>2 DEF Writers
    <2>4. \A j \in Writers(w) : (\A i \in Writers(w) : i <= j) => j = g[k]
      BY <2>1, <2>2, <2>3
    <2>5. LastWriter(w) = First(g[k])
      BY <2>1, <2>2, <2>4 DEF LastWriter
    <2> QED
      BY <1>8, <2>1, <2>5 DEF ImageWord, Text, W
  <1> QED
    BY <1>1, <1>7, <1>8 DEF Shows

(* Two words of the address space are not equally far from an address.     *)
LEMMA FromApart ==
    ASSUME NEW x \in Nat, NEW w \in 0 .. SpaceWords - 1, NEW v \in 0 .. SpaceWords - 1,
           From(x, w) = From(x, v)
    PROVE  w = v
  <1> DEFINE q == WordOf(x)
             a == (w - q) % SpaceWords
             b == (v - q) % SpaceWords
             s == (w - q) \div SpaceWords
             t == (v - q) \div SpaceWords
  <1>1. w \in Nat /\ v \in Nat
    BY SizeTypes
  <1>2. q \in Nat /\ From(x, w) = W * a /\ From(x, v) = W * b
    BY <1>1, FromIs
  <1> HIDE DEF q
  <1>3. w - q = SpaceWords * s + a /\ a \in Int /\ s \in Int
    <2> DEFINE d == w - q
    <2>1. d \in Int
      BY <1>1, <1>2
    <2> HIDE DEF d
    <2>2. /\ d = SpaceWords * (d \div SpaceWords) + (d % SpaceWords)
          /\ d % SpaceWords \in 0 .. SpaceWords - 1 /\ d \div SpaceWords \in Int
      BY <2>1, DivisionOfInt, SizeTypes
    <2>3. d % SpaceWords \in Int
      BY <2>2, SizeTypes
    <2> QED
      BY <2>2, <2>3 DEF d
  <1>4. v - q = SpaceWords * t + b /\ b \in Int /\ t \in Int
    <2> DEFINE d == v - q
    <2>1. d \in Int
      BY <1>1, <1>2
    <2> HIDE DEF d
    <2>2. /\ d = SpaceWords * (d \div SpaceWords) + (d % SpaceWords)
          /\ d % SpaceWords \in 0 .. SpaceWords - 1 /\ d \div SpaceWords \in Int
      BY <2>1, DivisionOfInt, SizeTypes
    <2>3. d % SpaceWords \in Int
      BY <2>2, SizeTypes
    <2> QED
      BY <2>2, <2>3 DEF d
  <1> HIDE DEF a, b, s, t
  <1>5. a = b
    <2>1. W * a = W * b
      BY <1>2
    <2>2. a <= b /\ b <= a
      BY <1>3, <1>4, <2>1, Products, SizeTypes
    <2> QED
      BY <1>3, <1>4, <2>2
  <1>6. SpaceWords * s \in Int /\ SpaceWords * t \in Int /\ SpaceWords \in Nat
    BY <1>3, <1>4, Products, SizeTypes
  <1>7. w - v = SpaceWords * s - SpaceWords * t
    BY <1>1, <1>2, <1>3, <1>4, <1>5, <1>6
  <1>8. s = t
    <2>1. s < t => SpaceWords * s + SpaceWords <= SpaceWords * t
      BY <1>3, <1>4, Products, SizeTypes
    <2>2. t < s => SpaceWords * t + SpaceWords <= SpaceWords * s
      BY <1>3, <1>4, Products, SizeTypes
    <2>3. w - v < SpaceWords /\ v - w < SpaceWords
      BY <1>1, <1>6
    <2> QED
      BY <1>1, <1>3, <1>4, <1>6, <1>7, <2>1, <2>2, <2>3
  <1> QED
    BY <1>1, <1>7, <1>8, <1>6

(* Where the segments start at words and keep apart, the CPU reads word w  *)
(* of segment j: no other section is written there.                        *)
LEMMA OnlyWriter ==
    ASSUME file \in Files, WellLaidOut, NEW j \in DOMAIN Segments, IsSection(j),
           NEW v \in DOMAIN sram, Covers(j, v), NEW w \in DOMAIN sram, Covers(j, w),
           \A i \in DOMAIN Segments :
               Segments[i].paddr = Segments[j].paddr /\ IsSection(i) => Covers(i, v)
    PROVE  First(j) = j /\ Writers(w) = {j}
  <1>1. \A i \in DOMAIN Segments, u \in DOMAIN sram :
            IsSection(i) /\ i # j => ~(Covers(i, u) /\ Covers(j, u))
    BY DEF WellLaidOut
  <1>2. First(j) = j
    <2>1. /\ First(j) \in DOMAIN Segments /\ IsSection(First(j))
          /\ Segments[First(j)].paddr = Segments[j].paddr
      BY FirstFacts
    <2> QED
      BY <1>1, <2>1
  <1>3. ASSUME NEW i \in Writers(w) PROVE i = j
    <2>1. i \in DOMAIN Segments /\ IsSection(i) /\ Covers(First(i), w)
      BY DEF Writers
    <2>2. /\ First(i) \in DOMAIN Segments /\ IsSection(First(i))
          /\ Segments[First(i)].paddr = Segments[i].paddr
      BY <2>1, FirstFacts
    <2>3. First(i) = j
      BY <1>1, <2>1, <2>2
    <2>4. Covers(i, v)
      BY <2>1, <2>2, <2>3
    <2> QED
      BY <1>1, <2>1, <2>4
  <1>4. j \in Writers(w)
    BY <1>2 DEF Writers
  <1> QED
    BY <1>2, <1>3, <1>4

(* Where byte k of a segment is: in a word that the segment covers.        *)
LEMMA ByteIn ==
    ASSUME NEW x \in Nat, x % W = 0, NEW k \in Nat, InRam(x + k)
    PROVE  /\ (x + k) \div W \in 0 .. RamWords - 1 /\ x \div W \in 0 .. RamWords - 1
           /\ From(x, x \div W) = 0 /\ From(x, (x + k) \div W) + ((x + k) % W) = k
           /\ (x + k) % W \in 0 .. W - 1
  <1> DEFINE a == x + k
             w == a \div W
             r == a % W
             e == x \div W
  <1>1. a \in Nat /\ a < W * RamWords /\ W * RamWords <= W * SpaceWords /\ x <= a
    BY SizesAssumption, SizeTypes, SizeFacts DEF InRam, W
  <1> HIDE DEF a
  <1>2. a = W * w + r /\ r \in 0 .. W - 1 /\ w \in Nat
    BY <1>1, DivisionOfNat, SizeTypes
  <1> HIDE DEF w, r
  <1>3. x = W * e /\ e \in Nat
    <2>1. x = W * (x \div W) + (x % W) /\ x \div W \in Nat
      BY DivisionOfNat, SizeTypes
    <2> QED
      BY <2>1, SizeTypes
  <1> HIDE DEF e
  <1>4. w < RamWords /\ RamWords <= SpaceWords
    <2>1. W * w < W * RamWords /\ W * w \in Int /\ W * RamWords \in Int
      BY <1>1, <1>2, Products, SizeTypes
    <2>2. ~ (RamWords <= w)
      BY <1>2, <2>1, Products, SizeTypes
    <2>3. RamWords <= SpaceWords
      BY <1>1, Products, SizeTypes
    <2> QED
      BY <1>2, <2>2, <2>3, SizeTypes
  <1>5. e <= w
    <2>1. ~ (w < e)
      <3>1. w < e => W * w + W <= W * e
        BY <1>2, <1>3, Products, SizeTypes
      <3>2. W * w \in Int /\ W * e \in Int
        BY <1>2, <1>3, Products, SizeTypes
      <3> QED
        BY <1>1, <1>2, <1>3, <3>1, <3>2, SizeTypes
    <2> QED
      BY <1>2, <1>3, <2>1
  <1>6. WordOf(x) = e
    <2>1. x < AddrSpace
      <3>1. W * e \in Int /\ W * e + W <= W * SpaceWords
        BY <1>2, <1>3, <1>4, <1>5, Products, SizeTypes
      <3> QED
        BY <1>3, <3>1, SizeTypes, SizeFacts
    <2>2. x % AddrSpace = x
      BY <2>1, SizeTypes
    <2> QED
      BY <2>2 DEF WordOf, e
  <1>7. \A v \in 0 .. SpaceWords - 1 : e <= v => From(x, v) = W * (v - e)
    <2> SUFFICES ASSUME NEW v \in 0 .. SpaceWords - 1, e <= v
                 PROVE  From(x, v) = W * (v - e)
      OBVIOUS
    <2>1. v \in Nat
      BY SizeTypes
    <2>2. From(x, v) = W * ((v - e) % SpaceWords)
      BY <1>6, <2>1, FromIs
    <2>3. v - e \in 0 .. SpaceWords - 1
      BY <1>3, <2>1, SizeTypes
    <2>4. (v - e) % SpaceWords = v - e
      BY <2>3, SizeTypes
    <2> QED
      BY <2>2, <2>4
  <1>8. w \in 0 .. SpaceWords - 1 /\ e \in 0 .. SpaceWords - 1
    BY <1>2, <1>3, <1>4, <1>5, SizeTypes
  <1>9. From(x, e) = 0
    <2>1. From(x, e) = W * (e - e) /\ e - e = 0
      BY <1>3, <1>7, <1>8
    <2> QED
      BY <2>1, SizeTypes
  <1>10. From(x, w) + r = k
    <2>1. From(x, w) = W * w - W * e /\ W * w \in Int /\ W * e \in Int
      BY <1>2, <1>3, <1>5, <1>7, <1>8, Products, SizeTypes
    <2>2. k = a - x
      BY DEF a
    <2> QED
      BY <1>1, <1>2, <1>3, <2>1, <2>2
  <1>11. w \in 0 .. RamWords - 1 /\ e \in 0 .. RamWords - 1
    BY <1>2, <1>3, <1>4, <1>5, SizeTypes
  <1> QED
    <2>1. /\ w \in 0 .. RamWords - 1 /\ e \in 0 .. RamWords - 1
          /\ From(x, e) = 0 /\ From(x, w) + r = k /\ r \in 0 .. W - 1
      BY <1>2, <1>9, <1>10, <1>11
    <2> QED
      BY <2>1 DEF a, w, r, e

(* What the CPU reads of a byte of the file: exactly how far the width of  *)
(* memory_subsystem's address carries.                                     *)
CpuReadsFirstQuarter ==
    loader = "loaded" /\ WellLaidOut =>
        \A j \in DOMAIN Segments : IsSection(j) =>
            \A k \in 0 .. Segments[j].filesz - 1 :
                LET a == Segments[j].paddr + k
                IN  InRam(a) => (CpuByte(a) = <<j, k>> <=> a < CpuBytes)

LEMMA CpuFollows == LoadInv /\ ImageLoaded => CpuReadsFirstQuarter
  <1> SUFFICES ASSUME LoadInv, ImageLoaded, loader = "loaded", WellLaidOut,
                      NEW j \in DOMAIN Segments, IsSection(j),
                      NEW k \in 0 .. Segments[j].filesz - 1, InRam(Segments[j].paddr + k)
               PROVE  CpuByte(Segments[j].paddr + k) = <<j, k>>
                         <=> Segments[j].paddr + k < CpuBytes
    BY DEF CpuReadsFirstQuarter
  <1> DEFINE x == Segments[j].paddr
             a == x + k
             w == a \div W
             v == (a % CpuBytes) \div W
             r == a % W
  <1>1. /\ file \in Files /\ x \in Nat /\ k \in Nat /\ k < Segments[j].filesz
        /\ Segments[j].filesz \in Nat /\ x % W = 0 /\ j \in Nat /\ j > 0
        /\ \A i \in DOMAIN Segments : Segments[i].filesz \in Nat
    <2>1. /\ file \in Files /\ Segments[j].paddr \in Nat /\ Segments[j].filesz \in Nat
          /\ j \in Nat /\ j > 0 /\ \A i \in DOMAIN Segments : Segments[i].filesz \in Nat
      BY SegmentFacts DEF LoadInv, FileInv
    <2>2. k \in Nat /\ k < Segments[j].filesz
      BY <2>1
    <2> QED
      BY <2>1, <2>2 DEF WellLaidOut, W
  <1>2. \A u \in 0 .. RamWords - 1 : sram[u] = ImageWord(u)
    BY DEF ImageLoaded, LoadInv, SramInv
  <1>3. DOMAIN sram = 0 .. RamWords - 1
    BY DEF LoadInv, SramInv
  <1>4. CpuByte(a) = sram[v][r]
    BY DEF CpuByte, W
  <1>5. /\ w \in 0 .. RamWords - 1 /\ x \div W \in 0 .. RamWords - 1
        /\ From(x, x \div W) = 0 /\ From(x, w) + r = k /\ r \in 0 .. W - 1
    BY <1>1, ByteIn
  <1> HIDE DEF w, v, r
  <1>6. /\ a \in Nat /\ w \in Nat /\ r \in Nat /\ From(x, w) \in Nat
    <2>1. a \in Nat /\ w \in Nat /\ r \in Nat
      BY <1>1, <1>5, SizeTypes
    <2> QED
      BY <1>1, <2>1, FromIs
  <1>7. Covers(j, w)
    BY <1>1, <1>5, <1>6 DEF Covers
  <1>8. First(j) = j /\ Writers(w) = {j}
    <2> DEFINE u == x \div W
    <2>1. u \in DOMAIN sram /\ w \in DOMAIN sram
      BY <1>3, <1>5
    <2>2. ASSUME NEW i \in DOMAIN Segments, Segments[i].paddr = x, IsSection(i)
          PROVE  Covers(i, u)
      <3>1. From(Segments[i].paddr, u) = 0
        BY <1>5, <2>2
      <3> QED
        BY <2>2, <3>1 DEF Covers, IsSection
    <2> HIDE DEF u
    <2>3. Covers(j, u)
      BY <2>2
    <2> QED
      BY <1>1, <1>7, <2>1, <2>2, <2>3, OnlyWriter
  <1>9. sram[w][r] = <<j, k>>
    <2>1. LastWriter(w) = j
      <3>1. j <= j
        BY <1>1
      <3> QED
        BY <1>8, <3>1 DEF LastWriter
    <2>2. ImageWord(w)[r] = IF From(x, w) + r < Segments[j].filesz
                            THEN <<j, From(x, w) + r>> ELSE Zero
      BY <1>5, <1>8, <2>1 DEF ImageWord, W
    <2> QED
      BY <1>1, <1>2, <1>5, <2>2
  <1>10. CASE a < CpuBytes
    <2>1. a % CpuBytes = a
      BY <1>6, <1>10, SizeTypes
    <2>2. v = w
      BY <2>1 DEF v, w
    <2> QED
      BY <1>4, <1>9, <1>10, <2>2
  <1>11. CASE ~(a < CpuBytes)
    <2> DEFINE b == a % CpuBytes
    <2>1. b \in Nat /\ b + W <= a
      <3>1. b \in Nat /\ b < CpuBytes /\ b <= a - CpuBytes
        <4> DEFINE c == a \div CpuBytes
        <4>1. a = CpuBytes * c + b /\ b \in 0 .. CpuBytes - 1 /\ c \in Nat
          BY <1>6, DivisionOfNat, SizeTypes
        <4> HIDE DEF b, c
        <4>2. c # 0
          BY <1>6, <1>11, <4>1, SizeTypes
        <4>3. CpuBytes <= CpuBytes * c
          BY <4>1, <4>2, SizeTypes
        <4> QED
          BY <1>6, <4>1, <4>3, SizeTypes
      <3> QED
        BY <1>6, <3>1, SizeTypes, SizesAssumption DEF W
    <2> HIDE DEF b
    <2>2. b = W * v + (b % W) /\ b % W \in 0 .. W - 1 /\ v \in Nat
      BY <2>1, DivisionOfNat, SizeTypes DEF v, b
    <2>3. v < w
      <3>1. a = W * w + r
        BY <1>6, DivisionOfNat, SizeTypes DEF w, r
      <3>2. ~(w <= v)
        <4>1. w <= v => W * w <= W * v
          BY <1>6, <2>2, Products, SizeTypes
        <4>2. W * w \in Int /\ W * v \in Int
          BY <1>6, <2>2, Products, SizeTypes
        <4> QED
          BY <1>5, <1>6, <2>1, <2>2, <3>1, <4>1, <4>2, SizeTypes
      <3> QED
        BY <1>6, <2>2, <3>2
    <2>4. v \in 0 .. RamWords - 1
      BY <1>5, <2>2, <2>3, SizeTypes
    <2>5. sram[v][r] # <<j, k>>
      <3> SUFFICES ASSUME sram[v][r] = <<j, k>> PROVE FALSE
        OBVIOUS
      <3> DEFINE h == LastWriter(v)
                 n == From(Segments[h].paddr, v) + r
      <3>1. ImageWord(v)[r] = IF Writers(v) = {} THEN Old
                              ELSE IF n < Segments[h].filesz THEN <<h, n>> ELSE Zero
        BY <1>5 DEF ImageWord, W
      <3> HIDE DEF h, n
      <3>2. h = j /\ n = k
        BY <1>1, <1>2, <2>4, <3>1 DEF Old, Zero
      <3>3. From(x, v) + r = From(x, w) + r /\ From(x, v) \in Nat
        BY <1>1, <1>5, <2>2, <3>2, FromIs DEF n
      <3>4. From(x, v) = From(x, w)
        BY <1>6, <3>3
      <3>5. RamWords <= SpaceWords
        <4>1. W * RamWords <= W * SpaceWords
          BY SizesAssumption, SizeTypes, SizeFacts DEF W
        <4> QED
          BY <4>1, Products, SizeTypes
      <3>6. v \in 0 .. SpaceWords - 1 /\ w \in 0 .. SpaceWords - 1
        BY <1>5, <1>6, <2>2, <2>4, <3>5, SizeTypes
      <3>7. v = w
        BY <1>1, <3>4, <3>6, FromApart
      <3> QED
        BY <1>6, <2>2, <2>3, <3>7
    <2> QED
      BY <1>4, <1>11, <2>5
  <1> QED
    BY <1>10, <1>11

-------------------------------------------------------------------------------
(* The theorems *)

(* The loader keeps its types for every file: the sections are in the map, *)
(* and the SRAM holds bytes of the file, zeros and what it held before     *)
(* (TbElfLoader, PreExec, tb_loadChunk).                                   *)
THEOREM LoadTypesHold == LoadSteps => []LoadTypeOK
  BY LoadInvariant, TypesFollow, PTL

(* When the loader is through, every word of the SRAM holds the last       *)
(* section written there, whichever way the sections overlap, whatever     *)
(* addresses they share, and though a chunk is found from the start of the *)
(* word (TbElfLoader::write, PreExec, tb_loadChunk).                       *)
THEOREM ImageIsLoaded == LoadSteps => []ImageLoaded
  BY LoadInvariant, ImageFollows, PTL

(* The CPU finds a byte of a file that is laid out well exactly when its   *)
(* address is below the width of memory_subsystem's address: elsewhere it  *)
(* reads another word, which never shows that byte.  So CpuReadsImage, the *)
(* comment's 64 KB, holds of no file that reaches beyond that width.       *)
THEOREM CpuReadsAQuarter == LoadSteps => []CpuReadsFirstQuarter
  <1>1. LoadInv => CpuReadsFirstQuarter
    BY ImageFollows, CpuFollows
  <1> QED
    BY <1>1, LoadInvariant, PTL

(* The loader gives up only on a file it cannot read: read_section_chunk   *)
(* finds every chunk that PreExec asks for.                                *)
NoChunkRefused == loader = "failed" => file.headers = "unreadable"
THEOREM ChunksAreFound == LoadSteps => []NoChunkRefused
  <1>1. LoadInv => NoChunkRefused
    BY DEF LoadInv, FileInv, NoChunkRefused
  <1> QED
    BY <1>1, LoadInvariant, PTL
===============================================================================
