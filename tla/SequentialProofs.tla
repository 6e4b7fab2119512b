--------------------------- MODULE SequentialProofs ---------------------------
(***************************************************************************)
(* Proofs about the sequential parts: Heap, for every heap, every width of *)
(* an address and any sequence of calls; Memory, for every memory, every   *)
(* width of a byte, and regions of any length;                             *)
(* Mmio, for every width of a word and of a byte, every region and every   *)
(* length of a copy, with another party that writes the region at any      *)
(* time; and MCSequential, which puts them beside the loader.              *)
(***************************************************************************)
EXTENDS MCSequential, ElfLoadProofs, TLAPS

(***************************************************************************)
(* The heap                                                                *)
(***************************************************************************)

BreakInBounds == brk \in HeapStart .. HeapEnd
LiveIsNotFree == live \intersect free = {}
NoOverlap ==
    \A b \in live \union free :
        /\ HeapStart <= b.addr /\ b.addr + b.size <= brk
        /\ \A c \in live \union free :
             b # c => b.addr + b.size <= c.addr \/ c.addr + c.size <= b.addr

HeapInv == HeapTypeOK /\ BreakInBounds /\ NoOverlap /\ LiveIsNotFree

Half == AddrMod \div 2

-------------------------------------------------------------------------------
LEMMA HalfFacts == Half \in Nat /\ AddrMod = 2 * Half /\ HeapEnd < Half
  BY HeapAssumption DEF Half

(* A sum that is an address does not wrap around. *)
LEMMA SumExact ==
    ASSUME BreakInBounds, NEW incr \in Int, 0 <= brk + incr, brk + incr < AddrMod
    PROVE  Sum(incr) = brk + incr
  BY HeapAssumption DEF Sum, BreakInBounds

LEMMA SumIsAddress ==
    ASSUME BreakInBounds, NEW incr \in Int
    PROVE  Sum(incr) \in 0 .. AddrMod - 1
  BY HeapAssumption DEF Sum, BreakInBounds

(* What a program asks malloc for is too little to wrap around. *)
LEMMA SizeSum ==
    ASSUME BreakInBounds, NEW size \in Sizes
    PROVE  Sum(size) = brk + size
  BY SumExact, HalfFacts, HeapAssumption DEF Sizes, BreakInBounds, Half

-------------------------------------------------------------------------------
LEMMA HeapInitially == HeapInit => HeapInv
  BY HeapAssumption DEF HeapInit, HeapInv, HeapTypeOK, BreakInBounds, NoOverlap, LiveIsNotFree, NULL

(* What fits into a heap shows that the heap has a byte. *)
LEMMA FitsReturns ==
    ASSUME NEW incr \in Int, SbrkFits(incr), BreakInBounds
    PROVE  SbrkReturns(incr) = brk
  <1>1. Sum(incr) \in Int /\ HeapStart \in Int /\ HeapEnd \in Int
    BY SumIsAddress, HeapAssumption
  <1>2. HeapStart # HeapEnd
    BY <1>1 DEF SbrkFits
  <1> QED
    BY <1>2 DEF SbrkReturns

(* A program without malloc leaves no blocks behind. *)
LEMMA BreakStep ==
    ASSUME HeapInv,
           \/ \E addr \in 0 .. AddrMod - 1 : Brk(addr)
           \/ \E incr \in Increments : Sbrk(incr)
    PROVE  HeapInv'
  <1> USE HeapAssumption DEF HeapInv
  <1>1. ASSUME NEW addr \in 0 .. AddrMod - 1, Brk(addr) PROVE HeapInv'
    <2>1. brk' \in HeapStart .. HeapEnd
      BY <1>1 DEF Brk, BrkFits, BreakInBounds
    <2> QED
      BY <1>1, <2>1 DEF Brk, HeapTypeOK, NULL, BreakInBounds, NoOverlap, LiveIsNotFree
  <1>2. ASSUME NEW incr \in Increments, Sbrk(incr) PROVE HeapInv'
    <2>1. incr \in Int
      BY DEF Increments
    <2>2. Sum(incr) \in 0 .. AddrMod - 1
      BY <2>1, SumIsAddress
    <2>3. brk' \in HeapStart .. HeapEnd
      BY <1>2, <2>2 DEF Sbrk, SbrkFits, BreakInBounds
    <2>4. ret' \in {Failed, NULL} \union HeapStart .. HeapEnd
      BY <1>2 DEF Sbrk, SbrkReturns, BreakInBounds
    <2> QED
      BY <1>2, <2>3, <2>4 DEF Sbrk, HeapTypeOK, NULL, BreakInBounds, NoOverlap, LiveIsNotFree
  <1> QED
    BY <1>1, <1>2

(* A block that moves between the lists stays where it is. *)
LEMMA NewAgainStep ==
    ASSUME HeapInv, NEW size \in Sizes, NewAgain(size)
    PROVE  HeapInv'
  <1> USE DEF HeapInv
  <1> PICK b \in free : /\ live' = live \union {b} /\ free' = free \ {b}
                        /\ ret' = b.addr
                        /\ UNCHANGED brk
    BY DEF NewAgain
  <1>1. live' \union free' = live \union free
    OBVIOUS
  <1>2. b.addr \in HeapStart .. HeapEnd
    BY HeapAssumption DEF HeapTypeOK, NoOverlap, BreakInBounds
  <1>3. HeapTypeOK'
    BY <1>2 DEF HeapTypeOK
  <1>4. NoOverlap'
    BY <1>1 DEF NoOverlap
  <1> QED
    BY <1>3, <1>4 DEF BreakInBounds, LiveIsNotFree

LEMMA DeleteStep ==
    ASSUME HeapInv, NEW b \in live, Delete(b)
    PROVE  HeapInv'
  <1> USE DEF HeapInv, Delete
  <1>1. live' \union free' = live \union free
    OBVIOUS
  <1>2. HeapTypeOK'
    BY DEF HeapTypeOK
  <1>3. NoOverlap'
    BY <1>1 DEF NoOverlap
  <1> QED
    BY <1>2, <1>3 DEF BreakInBounds, LiveIsNotFree

(* A new block lies between the old break and the new one. *)
LEMMA NewGrowsStep ==
    ASSUME HeapInv, NEW size \in Sizes, NewGrows(size)
    PROVE  HeapInv'
  <1> USE HeapAssumption DEF HeapInv
  <1> DEFINE new == [addr |-> brk, size |-> size]
  <1>1. brk' = brk + size /\ brk' < HeapEnd /\ size \in Nat \ {0} /\ brk \in Nat
    BY SizeSum DEF NewGrows, SbrkFits, Sizes, HeapTypeOK
  <1>2. live' = live \union {new} /\ ret' = brk /\ free' = free
    BY <1>1, FitsReturns DEF NewGrows
  <1>3. new.addr = brk /\ new.size = size /\ new \in [addr : Nat, size : Nat \ {0}]
    BY <1>1
  <1>4. \A b \in live \union free :
           /\ b.addr \in Nat /\ b.size \in Nat \ {0}
           /\ HeapStart <= b.addr /\ b.addr + b.size <= brk
    BY DEF HeapTypeOK, NoOverlap
  <1> HIDE DEF new
  <1>5. HeapTypeOK'
    BY <1>1, <1>2, <1>3 DEF HeapTypeOK, BreakInBounds
  <1>6. BreakInBounds'
    BY <1>1 DEF BreakInBounds
  <1>7. \A b \in (live \union free) \union {new} :
           HeapStart <= b.addr /\ b.addr + b.size <= brk'
    BY <1>1, <1>3, <1>4 DEF BreakInBounds
  <1>8. \A b, c \in (live \union free) \union {new} :
           b # c => b.addr + b.size <= c.addr \/ c.addr + c.size <= b.addr
    BY <1>3, <1>4 DEF NoOverlap
  <1>9. NoOverlap'
    BY <1>2, <1>7, <1>8 DEF NoOverlap
  <1>10. new \notin free
    BY <1>1, <1>3, <1>4
  <1> QED
    BY <1>2, <1>5, <1>6, <1>9, <1>10 DEF LiveIsNotFree

(* The block that is given back is the topmost one: the others stay below  *)
(* the new break.                                                          *)
LEMMA TrimStep ==
    ASSUME HeapInv, NEW b \in free, Trim(b)
    PROVE  HeapInv'
  <1> USE HeapAssumption DEF HeapInv
  <1>1. \A c \in live \union free :
           /\ c.addr \in Nat /\ c.size \in Nat \ {0}
           /\ HeapStart <= c.addr /\ c.addr + c.size <= brk
    BY DEF HeapTypeOK, NoOverlap
  <1>2. brk \in Nat /\ -b.size \in Int /\ brk + (-b.size) = b.addr /\ b.addr < brk
    BY <1>1 DEF Trim, HeapTypeOK
  <1>3. b.addr < AddrMod
    BY <1>2, HalfFacts DEF BreakInBounds
  <1>4. brk' = b.addr
    BY <1>1, <1>2, <1>3, SumExact DEF Trim
  <1>5. free' = free \ {b} /\ live' = live /\ ret' = brk
    BY <1>2, FitsReturns DEF Trim
  <1>6. b \notin live
    BY DEF LiveIsNotFree
  <1>7. HeapTypeOK'
    BY <1>1, <1>4, <1>5 DEF HeapTypeOK, BreakInBounds
  <1>8. BreakInBounds'
    BY <1>1, <1>2, <1>4 DEF BreakInBounds
  <1>9. \A c \in live' \union free' : c \in live \union free /\ c # b
    BY <1>5, <1>6
  <1>10. \A c \in live' \union free' : c.addr + c.size <= b.addr
    <2> SUFFICES ASSUME NEW c \in live' \union free' PROVE c.addr + c.size <= b.addr
      OBVIOUS
    <2>1. c \in live \union free /\ c # b /\ b \in live \union free
      BY <1>9
    <2>2. b.addr + b.size <= c.addr \/ c.addr + c.size <= b.addr
      BY <2>1 DEF NoOverlap
    <2>3. b.addr + b.size = brk /\ c.size > 0 /\ c.addr + c.size <= brk
      BY <2>1, <1>1 DEF Trim
    <2> QED
      BY <2>1, <2>2, <2>3, <1>1
  <1>11. NoOverlap'
    BY <1>4, <1>9, <1>10 DEF NoOverlap
  <1> QED
    BY <1>5, <1>7, <1>8, <1>11 DEF LiveIsNotFree

LEMMA NewFailsStep ==
    ASSUME HeapInv, NEW size \in Sizes, NewFails(size)
    PROVE  HeapInv'
  BY DEF NewFails, HeapInv, HeapTypeOK, BreakInBounds, NoOverlap, LiveIsNotFree

LEMMA HeapStep == HeapInv /\ [HeapNext]_heapVars => HeapInv'
  <1> SUFFICES ASSUME HeapInv, [HeapNext]_heapVars PROVE HeapInv'
    OBVIOUS
  <1>1. CASE UNCHANGED heapVars
    BY <1>1 DEF heapVars, HeapInv, HeapTypeOK, BreakInBounds, NoOverlap, LiveIsNotFree
  <1>2. CASE HeapNext
    BY <1>2, BreakStep, NewAgainStep, NewGrowsStep, NewFailsStep, DeleteStep, TrimStep
       DEF HeapNext
  <1> QED
    BY <1>1, <1>2

LEMMA HeapInvariant == HeapSpec => []HeapInv
  BY HeapInitially, HeapStep, PTL DEF HeapSpec

(* Every variable of the heap holds a value of its type.                   *)
THEOREM HeapTypeCorrect == HeapSpec => []HeapTypeOK
  <1>1. HeapInv => HeapTypeOK
    BY DEF HeapInv
  <1> QED
    BY <1>1, HeapInvariant, PTL

(* _sbrk and _brk never move the break out of the heap, wherever the sum   *)
(* of the break and the increment wraps around, and a size is refused      *)
(* exactly if it would move the break to the heap's end or beyond.         *)
THEOREM BreakStaysInHeap == HeapSpec => []BrkInHeap
  <1>1. HeapInv => BrkInHeap
    <2> SUFFICES ASSUME HeapInv, NEW size \in Sizes
                 PROVE  SbrkFits(size) <=> brk + size < HeapEnd
      BY DEF BrkInHeap, HeapInv, BreakInBounds
    <2> QED
      BY SizeSum, HeapAssumption DEF HeapInv, SbrkFits, Sizes, HeapTypeOK, BreakInBounds
  <1> QED
    BY <1>1, HeapInvariant, PTL

(* No two blocks of new overlap, none is above the break, and new gives    *)
(* out no block that is live.                                              *)
THEOREM BlocksNeverOverlap == HeapSpec => []BlocksApart
  <1>1. HeapInv => BlocksApart
    BY DEF HeapInv, BlocksApart, NoOverlap, LiveIsNotFree
  <1> QED
    BY <1>1, HeapInvariant, PTL

-------------------------------------------------------------------------------
(***************************************************************************)
(* The functions on memory, and the operations on registers                *)
(***************************************************************************)

(* Memory: the types, and that the call stays within the memory.           *)
CallInv ==
    /\ call \in [fn : {"memcpy", "memcmp", "memset", "memchr", "memrchr"}, a : 0 .. MemSize,
                 b : 0 .. MemSize, len : 0 .. MemSize, value : Int]
    /\ InMemory(call)
    /\ before \in [Addresses -> ByteValues]
    /\ MemTypeOK

(* What is written to a place of the destination of a copy or a filling. *)
Written(x) == IF call.fn = "memcpy" THEN before[call.b + (x - call.a)] ELSE Value8

(* The bytes written so far, and those that are as they were.              *)
CopyInv ==
    call.fn \in {"memcpy", "memset"} =>
        /\ call.fn = "memcpy" => Apart(call)
        /\ done => i = call.len /\ returned = call.a
        /\ \A x \in Addresses :
             mem[x] = IF x \in call.a .. call.a + i - 1 THEN Written(x) ELSE before[x]

(* The bytes looked at so far have not ended the loop.                     *)
LookInv ==
    call.fn \in {"memcmp", "memchr", "memrchr"} =>
        /\ mem = before
        /\ call.fn = "memcmp" =>
              \A k \in 0 .. i - 1 : before[call.a + k] = before[call.b + k]
        /\ call.fn = "memchr" => \A k \in 0 .. i - 1 : before[call.a + k] # Value8
        /\ call.fn = "memrchr" =>
              \A k \in 0 .. i - 1 : before[call.a + call.len - 1 - k] # Value8

MemoryInv == CallInv /\ CopyInv /\ LookInv /\ CompareOrders /\ SearchFinds

-------------------------------------------------------------------------------
LEMMA MemoryInit == MemInit => MemoryInv
  <1> SUFFICES ASSUME MemInit PROVE MemoryInv
    OBVIOUS
  <1> USE MemoryAssumption DEF MemInit
  <1>1. call \in [fn : {"memcpy", "memcmp", "memset", "memchr", "memrchr"}, a : 0 .. MemSize,
                  b : 0 .. MemSize, len : 0 .. MemSize, value : Int] /\ InMemory(call)
        /\ (call.fn = "memcpy" => Apart(call))
    <2>1. CASE call \in OfTwo
      BY <2>1 DEF OfTwo
    <2>2. CASE call \in OfOne
      <3>1. 0 \in 0 .. MemSize
        OBVIOUS
      <3> QED
        BY <2>2, <3>1 DEF OfOne
    <2> QED
      BY <2>1, <2>2
  <1>2. CallInv
    <2>1. i \in 0 .. call.len
      BY <1>1
    <2> QED
      BY <1>1, <2>1 DEF CallInv, MemTypeOK, kMemCmpEq
  <1>3. 0 .. i - 1 = {} /\ call.a .. call.a + i - 1 = {}
    BY <1>1
  <1>4. CopyInv
    BY <1>1, <1>3 DEF CopyInv
  <1>5. LookInv
    BY <1>3 DEF LookInv
  <1> QED
    BY <1>2, <1>4, <1>5 DEF MemoryInv, CompareOrders, SearchFinds

LEMMA CallFacts ==
    ASSUME CallInv
    PROVE  /\ call.a \in Nat /\ call.b \in Nat /\ call.len \in Nat /\ call.value \in Int
           /\ call.a + call.len <= MemSize /\ call.b + call.len <= MemSize
           /\ i \in Nat /\ i <= call.len
           /\ mem \in [Addresses -> ByteValues] /\ before \in [Addresses -> ByteValues]
           /\ done \in BOOLEAN /\ MemSize \in Nat /\ ByteMod \in Nat \ {0}
           /\ Value8 \in ByteValues
  BY MemoryAssumption DEF CallInv, InMemory, MemTypeOK, Value8, ByteValues

(* A turn that goes on keeps the types. *)
LEMMA GoOnTypes ==
    ASSUME CallInv, i < call.len, GoOn, mem' \in [Addresses -> ByteValues]
    PROVE  CallInv' /\ i' = i + 1 /\ i + 1 \in 0 .. call.len
  <1>1. i + 1 \in 0 .. call.len
    BY CallFacts
  <1> QED
    BY <1>1 DEF GoOn, CallInv, InMemory, MemTypeOK

-------------------------------------------------------------------------------
(* A turn of memcpy or memset writes the next byte.  The source of memcpy  *)
(* is not its destination, so that it reads what was there at the call.    *)
LEMMA WriteStep ==
    ASSUME CallInv, CopyInv, call.fn \in {"memcpy", "memset"}, i < call.len, done = FALSE, GoOn,
           mem' = [mem EXCEPT ![call.a + i] = Written(call.a + i)],
           Written(call.a + i) \in ByteValues
    PROVE  CallInv' /\ CopyInv' /\ UNCHANGED <<call, before>> /\ done' = FALSE
  <1> DEFINE to == call.a + i
  <1>1. to \in Addresses /\ to \in Int
    BY CallFacts DEF Addresses
  <1>2. mem' \in [Addresses -> ByteValues]
    BY CallFacts
  <1>3. CallInv' /\ i' = i + 1
    BY <1>2, GoOnTypes
  <1>4. UNCHANGED <<call, before>> /\ done' = FALSE
    BY DEF GoOn
  <1>5. \A x : Written(x)' = Written(x)
    BY <1>4 DEF Written, Value8
  <1>6. \A x \in Addresses :
           mem'[x] = IF x \in call.a .. call.a + (i + 1) - 1 THEN Written(x) ELSE before[x]
    <2> SUFFICES ASSUME NEW x \in Addresses
                 PROVE  mem'[x] = IF x \in call.a .. call.a + (i + 1) - 1
                                  THEN Written(x) ELSE before[x]
      OBVIOUS
    <2>1. x \in Int /\ call.a \in Nat /\ i \in Nat
      BY CallFacts DEF Addresses
    <2>2. mem[x] = IF x \in call.a .. call.a + i - 1 THEN Written(x) ELSE before[x]
      BY DEF CopyInv
    <2>3. CASE x = to
      <3>1. x \in call.a .. call.a + (i + 1) - 1
        BY <2>1, <2>3
      <3>2. mem'[x] = Written(x)
        BY <1>1, <2>3, CallFacts
      <3> QED
        BY <3>1, <3>2
    <2>4. CASE x # to
      <3>1. x \in call.a .. call.a + (i + 1) - 1 <=> x \in call.a .. call.a + i - 1
        BY <2>1, <2>4
      <3>2. mem'[x] = mem[x]
        BY <1>1, <2>4, CallFacts
      <3> QED
        BY <2>2, <3>1, <3>2
    <2> QED
      BY <2>3, <2>4
  <1>7. CopyInv'
    BY <1>3, <1>4, <1>5, <1>6 DEF CopyInv, Apart
  <1> QED
    BY <1>3, <1>4, <1>7

LEMMA CopyStep == MemoryInv /\ CopyByte => MemoryInv'
  <1> SUFFICES ASSUME MemoryInv, CopyByte PROVE MemoryInv'
    OBVIOUS
  <1> USE DEF MemoryInv
  <1> DEFINE to == call.a + i
             from == call.b + i
  <1>1. call.fn = "memcpy" /\ i < call.len /\ done = FALSE /\ GoOn
        /\ mem' = [mem EXCEPT ![to] = mem[from]]
    BY CallFacts DEF CopyByte, Turn
  <1>2. /\ call.a \in Nat /\ call.b \in Nat /\ call.len \in Nat /\ i \in Nat
        /\ call.a + call.len <= MemSize /\ call.b + call.len <= MemSize
        /\ MemSize \in Nat
    BY CallFacts
  <1>3. from \in Addresses
    BY <1>1, <1>2 DEF Addresses
  <1>4. from \notin call.a .. call.a + i - 1
    <2>1. Apart(call)
      BY <1>1 DEF CopyInv
    <2> QED
      BY <1>1, <1>2, <2>1 DEF Apart
  <1>5. mem[from] = before[from]
    BY <1>1, <1>3, <1>4 DEF CopyInv
  <1>6. Written(to) = before[from]
    <2>1. call.b + (to - call.a) = from
      BY <1>2
    <2> QED
      BY <1>1, <2>1 DEF Written
  <1>7. Written(to) \in ByteValues
    BY <1>3, <1>6, CallFacts
  <1>8. CallInv' /\ CopyInv' /\ UNCHANGED <<call, before>> /\ done' = FALSE
    BY <1>1, <1>5, <1>6, <1>7, WriteStep
  <1>9. LookInv' /\ CompareOrders' /\ SearchFinds'
    BY <1>1, <1>8 DEF LookInv, CompareOrders, SearchFinds
  <1> QED
    BY <1>8, <1>9

-------------------------------------------------------------------------------
LEMMA SetStep == MemoryInv /\ Set => MemoryInv'
  <1> SUFFICES ASSUME MemoryInv, Set PROVE MemoryInv'
    OBVIOUS
  <1> USE DEF MemoryInv
  <1>1. call.fn = "memset" /\ i < call.len /\ done = FALSE /\ GoOn
        /\ mem' = [mem EXCEPT ![call.a + i] = Value8]
    BY CallFacts DEF Set, Turn
  <1>2. Written(call.a + i) = Value8
    BY <1>1 DEF Written
  <1>3. CallInv' /\ CopyInv' /\ UNCHANGED <<call, before>> /\ done' = FALSE
    BY <1>1, <1>2, WriteStep, CallFacts
  <1>4. LookInv' /\ CompareOrders' /\ SearchFinds'
    BY <1>1, <1>3 DEF LookInv, CompareOrders, SearchFinds
  <1> QED
    BY <1>3, <1>4

(* What the functions return is an address of their region, or a constant. *)
LEMMA ReturnTypes ==
    ASSUME CallInv, NEW value, Return(value), UNCHANGED <<mem, call, i, before>>,
           value \in 0 .. MemSize \union {NotFound, kMemCmpEq, kMemCmpLt, kMemCmpGt}
    PROVE  CallInv'
  <1>1. value \in Addresses \union {MemSize, NotFound, kMemCmpEq, kMemCmpLt, kMemCmpGt}
    BY MemoryAssumption DEF Addresses
  <1> QED
    BY <1>1 DEF CallInv, InMemory, MemTypeOK, Return

LEMMA CompareStep == MemoryInv /\ Compare => MemoryInv'
  <1> SUFFICES ASSUME MemoryInv, Compare PROVE MemoryInv'
    OBVIOUS
  <1> USE DEF MemoryInv
  <1> DEFINE lhs == mem[call.a + i]
             rhs == mem[call.b + i]
  <1>1. call.fn = "memcmp" /\ i < call.len /\ ~done /\ mem' = mem /\ mem = before
    BY DEF Compare, Turn, LookInv
  <1>2. \A k \in 0 .. i - 1 : before[call.a + k] = before[call.b + k]
    BY <1>1 DEF LookInv
  <1>3. CASE lhs = rhs
    <2>1. GoOn
      BY <1>3 DEF Compare
    <2>2. CallInv' /\ i' = i + 1 /\ call' = call /\ before' = before /\ ~done'
      BY <1>1, <2>1, GoOnTypes, CallFacts DEF GoOn
    <2>3. \A k \in 0 .. (i + 1) - 1 : k = i \/ k \in 0 .. i - 1
      <3>1. i \in Nat
        BY CallFacts
      <3> QED
        BY <3>1
    <2>4. \A k \in 0 .. (i + 1) - 1 : before[call.a + k] = before[call.b + k]
      BY <1>1, <1>2, <1>3, <2>3
    <2>5. LookInv'
      BY <1>1, <2>2, <2>4 DEF LookInv
    <2>6. CopyInv' /\ CompareOrders' /\ SearchFinds'
      BY <1>1, <2>2 DEF CopyInv, CompareOrders, SearchFinds
    <2> QED
      BY <2>2, <2>5, <2>6
  <1>4. CASE lhs # rhs
    <2> DEFINE value == IF Less(lhs, rhs) THEN kMemCmpLt ELSE kMemCmpGt
    <2>1. Return(value) /\ UNCHANGED <<mem, call, i, before>>
      BY <1>4 DEF Compare
    <2>2. CallInv'
      BY <2>1, ReturnTypes
    <2>3. returned' = value /\ returned' # kMemCmpEq /\ (returned' = kMemCmpLt <=> lhs < rhs)
      BY <2>1 DEF Return, Less, kMemCmpEq, kMemCmpLt, kMemCmpGt
    <2>4. i \in 0 .. call.len - 1
      BY <1>1, CallFacts
    <2>5. \A k \in 0 .. call.len - 1 :
             /\ k \in 0 .. i - 1 \/ k = i \/ ~(k <= i)
      BY CallFacts
    <2>6. CompareOrders'
      <3> DEFINE differ == {k \in 0 .. call.len - 1 : before[call.a + k] # before[call.b + k]}
      <3>1. i \in differ
        BY <1>1, <1>4, <2>4
      <3>2. \A k \in differ : (\A j \in differ : k <= j) => k = i
        <4> SUFFICES ASSUME NEW k \in differ, \A j \in differ : k <= j PROVE k = i
          OBVIOUS
        <4>1. k <= i
          BY <3>1
        <4>2. k \notin 0 .. i - 1
          BY <1>2
        <4> QED
          BY <2>5, <4>1, <4>2
      <3>3. \A k \in differ : (\A j \in differ : k <= j)
                => (returned' = kMemCmpLt <=> before[call.a + k] < before[call.b + k])
        BY <1>1, <2>3, <3>2
      <3>4. returned' = kMemCmpEq <=> differ = {}
        BY <2>3, <3>1
      <3> HIDE DEF differ
      <3> QED
        BY <2>1, <3>3, <3>4 DEF CompareOrders, differ
    <2>7. CopyInv' /\ SearchFinds' /\ LookInv'
      BY <1>1, <1>2, <2>1 DEF CopyInv, SearchFinds, LookInv
    <2> QED
      BY <2>2, <2>6, <2>7
  <1> QED
    BY <1>3, <1>4

LEMMA SearchStep == MemoryInv /\ Search => MemoryInv'
  <1> SUFFICES ASSUME MemoryInv, Search PROVE MemoryInv'
    OBVIOUS
  <1> USE DEF MemoryInv
  <1> DEFINE place == call.a + Place
             searched == call.a .. call.a + call.len - 1
  <1>1. call.fn \in {"memchr", "memrchr"} /\ i < call.len /\ ~done /\ mem' = mem /\ mem = before
    BY DEF Search, Turn, LookInv
  <1>2. i \in Nat /\ call.len \in Nat /\ call.a \in Nat
    BY CallFacts
  <1>3. Place \in 0 .. call.len - 1 /\ place \in searched
    BY <1>1, <1>2 DEF Place
  <1>4. CASE before[place] = Value8
    <2>1. Return(place) /\ UNCHANGED <<mem, call, i, before>>
      BY <1>1, <1>4 DEF Search
    <2>2. place \in 0 .. MemSize
      BY <1>2, <1>3, CallFacts
    <2>3. CallInv'
      BY <2>1, <2>2, ReturnTypes
    <2>4. \A x \in searched : before[x] = Value8 => IF call.fn = "memchr" THEN place <= x ELSE x <= place
      <3> SUFFICES ASSUME NEW x \in searched, before[x] = Value8
                   PROVE  IF call.fn = "memchr" THEN place <= x ELSE x <= place
        OBVIOUS
      <3>1. CASE call.fn = "memchr"
        <4>1. x - call.a \notin 0 .. i - 1
          <5>1. call.a + (x - call.a) = x
            BY <1>2
          <5> QED
            BY <3>1, <5>1 DEF LookInv
        <4>2. place = call.a + i
          BY <3>1 DEF Place
        <4> QED
          BY <1>2, <3>1, <4>1, <4>2
      <3>2. CASE call.fn = "memrchr"
        <4> DEFINE k == call.a + call.len - 1 - x
        <4>1. k \notin 0 .. i - 1
          <5>1. call.a + call.len - 1 - k = x
            BY <1>2
          <5> HIDE DEF k
          <5> QED
            BY <3>2, <5>1 DEF LookInv
        <4>2. place = call.a + (call.len - i - 1)
          BY <3>2 DEF Place
        <4> QED
          BY <1>2, <3>2, <4>1, <4>2
      <3> QED
        BY <1>1, <3>1, <3>2
    <2>5. SearchFinds'
      <3> DEFINE found == {x \in searched : before[x] = call.value % ByteMod}
      <3>1. place \in found
        BY <1>3, <1>4 DEF Value8
      <3>2. \A x \in found : IF call.fn = "memchr" THEN place <= x ELSE x <= place
        BY <2>4 DEF Value8
      <3>3. returned' = place
        BY <2>1 DEF Return
      <3> HIDE DEF place
      <3> QED
        BY <2>1, <3>1, <3>2, <3>3 DEF SearchFinds
    <2>6. CopyInv' /\ CompareOrders' /\ LookInv'
      BY <1>1, <2>1 DEF CopyInv, CompareOrders, LookInv, Value8
    <2> QED
      BY <2>3, <2>5, <2>6
  <1>5. CASE before[place] # Value8
    <2>1. GoOn
      BY <1>1, <1>5 DEF Search
    <2>2. CallInv' /\ i' = i + 1 /\ call' = call /\ before' = before /\ ~done'
      BY <1>1, <2>1, GoOnTypes, CallFacts DEF GoOn
    <2>3. \A k \in 0 .. (i + 1) - 1 : k = i \/ k \in 0 .. i - 1
      BY <1>2
    <2>4. call.fn = "memchr" => \A k \in 0 .. (i + 1) - 1 : before[call.a + k] # Value8
      BY <1>5, <2>3 DEF LookInv, Place
    <2>5. call.fn = "memrchr" =>
             \A k \in 0 .. (i + 1) - 1 : before[call.a + call.len - 1 - k] # Value8
      <3>1. call.fn = "memrchr" => before[call.a + call.len - 1 - i] # Value8
        <4>1. call.a + (call.len - i - 1) = call.a + call.len - 1 - i
          BY <1>2
        <4> QED
          BY <1>5, <4>1 DEF Place
      <3> QED
        BY <2>3, <3>1 DEF LookInv
    <2>6. LookInv'
      BY <1>1, <2>2, <2>4, <2>5 DEF LookInv, Value8
    <2>7. CopyInv' /\ CompareOrders' /\ SearchFinds'
      BY <1>1, <2>2 DEF CopyInv, CompareOrders, SearchFinds
    <2> QED
      BY <2>2, <2>6, <2>7
  <1> QED
    BY <1>4, <1>5

(* At the end every byte of the region has been looked at. *)
LEMMA EndStep == MemoryInv /\ End => MemoryInv'
  <1> SUFFICES ASSUME MemoryInv, End PROVE MemoryInv'
    OBVIOUS
  <1> USE DEF MemoryInv
  <1>1. i = call.len /\ Return(AtEnd(call)) /\ UNCHANGED <<mem, call, i, before>>
    BY DEF End
  <1>2. AtEnd(call) \in 0 .. MemSize \union {NotFound, kMemCmpEq, kMemCmpLt, kMemCmpGt}
    <2>1. call.a \in 0 .. MemSize
      BY DEF CallInv
    <2> QED
      BY <2>1 DEF AtEnd
  <1>3. CallInv'
    BY <1>1, <1>2, ReturnTypes
  <1>4. CopyInv' /\ LookInv'
    <2>1. \A x : Written(x)' = Written(x)
      BY <1>1 DEF Written, Value8
    <2>2. call.fn \in {"memcpy", "memset"} => returned' = call.a
      BY <1>1 DEF Return, AtEnd
    <2>3. LookInv'
      BY <1>1 DEF LookInv, Value8
    <2> QED
      BY <1>1, <2>1, <2>2, <2>3 DEF CopyInv, Apart
  <1>5. CompareOrders'
    <2> SUFFICES ASSUME call.fn = "memcmp"
                 PROVE  CompareOrders'
      BY <1>1 DEF CompareOrders
    <2>1. \A k \in 0 .. call.len - 1 : before[call.a + k] = before[call.b + k]
      BY <1>1 DEF LookInv
    <2>2. returned' = kMemCmpEq
      BY <1>1 DEF Return, AtEnd
    <2> QED
      BY <1>1, <2>1, <2>2 DEF CompareOrders
  <1>6. SearchFinds'
    <2> SUFFICES ASSUME call.fn \in {"memchr", "memrchr"}
                 PROVE  SearchFinds'
      BY <1>1 DEF SearchFinds
    <2>1. call.a \in Nat /\ call.len \in Nat
      BY CallFacts
    <2>2. \A x \in call.a .. call.a + call.len - 1 : before[x] # Value8
      <3> SUFFICES ASSUME NEW x \in call.a .. call.a + call.len - 1
                   PROVE  before[x] # Value8
        OBVIOUS
      <3>1. CASE call.fn = "memchr"
        <4>1. x - call.a \in 0 .. i - 1 /\ call.a + (x - call.a) = x
          BY <1>1, <2>1
        <4> QED
          BY <3>1, <4>1 DEF LookInv
      <3>2. CASE call.fn = "memrchr"
        <4> DEFINE k == call.a + call.len - 1 - x
        <4>1. k \in 0 .. i - 1 /\ call.a + call.len - 1 - k = x
          BY <1>1, <2>1
        <4> HIDE DEF k
        <4> QED
          BY <3>2, <4>1 DEF LookInv
      <3> QED
        BY <3>1, <3>2
    <2>3. returned' = NotFound
      BY <1>1 DEF Return, AtEnd
    <2>4. {x \in call.a .. call.a + call.len - 1 : before[x] = call.value % ByteMod} = {}
      BY <2>2 DEF Value8
    <2> QED
      BY <1>1, <2>3, <2>4 DEF SearchFinds
  <1> QED
    BY <1>3, <1>4, <1>5, <1>6

-------------------------------------------------------------------------------
LEMMA MemoryStep == MemoryInv /\ [MemNext]_memVars => MemoryInv'
  <1> SUFFICES ASSUME MemoryInv, [MemNext]_memVars PROVE MemoryInv'
    OBVIOUS
  <1>1. CASE UNCHANGED memVars
    BY <1>1 DEF memVars, MemoryInv, CallInv, InMemory, MemTypeOK, CopyInv, LookInv, Written,
                Apart, Value8, CompareOrders, SearchFinds, Within
  <1> QED
    BY <1>1, CopyStep, SetStep, CompareStep, SearchStep, EndStep DEF MemNext

LEMMA MemoryInvariant == MemSpec => []MemoryInv
  BY MemoryInit, MemoryStep, PTL DEF MemSpec

(* The functions stay in the memory and return what they may return.       *)
THEOREM MemoryTypeCorrect == MemSpec => []MemTypeOK
  <1>1. MemoryInv => MemTypeOK
    BY DEF MemoryInv, CallInv
  <1> QED
    BY <1>1, MemoryInvariant, PTL

(* memcpy copies regions that do not overlap, and returns the destination. *)
THEOREM MemcpyCopies == MemSpec => []CopyCopies
  <1>1. MemoryInv => CopyCopies
    BY DEF MemoryInv, CopyInv, CopyCopies, Within, Written
  <1> QED
    BY <1>1, MemoryInvariant, PTL

(* memset fills its region with the byte, and returns the region.          *)
THEOREM MemsetFills == MemSpec => []SetFills
  <1>1. MemoryInv => SetFills
    BY DEF MemoryInv, CopyInv, SetFills, Within, Written, Value8
  <1> QED
    BY <1>1, MemoryInvariant, PTL

(* memcmp orders regions by their first difference.                         *)
THEOREM CompareIsOrder == MemSpec => []CompareOrders
  <1>1. MemoryInv => CompareOrders
    BY DEF MemoryInv
  <1> QED
    BY <1>1, MemoryInvariant, PTL

(* memchr and memrchr find the first and the last match, if there is one.  *)
THEOREM SearchIsExact == MemSpec => []SearchFinds
  <1>1. MemoryInv => SearchFinds
    BY DEF MemoryInv
  <1> QED
    BY <1>1, MemoryInvariant, PTL

(* Every function of memory.c leaves and returns what it should.           *)
THEOREM ResultsAreRight == MemSpec => []ResultIsRight
  <1>1. CopyCopies /\ SetFills /\ MemoryInv => ResultIsRight
    BY DEF ResultIsRight, MemoryInv, LookInv, LooksOnly
  <1> QED
    BY <1>1, MemcpyCopies, MemsetFills, MemoryInvariant, PTL

-------------------------------------------------------------------------------
(* Mmio: an operation on a field is one of those that can be called, and a *)
(* copy is as far in the region as in the buffer.                          *)
OpInv ==
    /\ region \in [0 .. RegionWords - 1 -> Words] /\ reg \in Words /\ result \in Words
    /\ buffer \in [0 .. MaxLen - 1 -> SUBSET (0 .. ByteBits - 1)]
    /\ pc \in {"idle", "read", "write"}
    /\ offset \in Nat /\ at \in Nat /\ len \in Nat /\ reads \in Nat /\ others \in Nat
    /\ stale \in BOOLEAN /\ quiet \in BOOLEAN
    /\ op.kind \in {"none"} \union Modify \union WriteOnly \union Read \union Copies
    /\ op.kind = "none" => pc = "idle" /\ reads = 0
    /\ op.kind \in Modify \union WriteOnly \union Read =>
          op \in Operations /\ offset \div WordBytes < RegionWords
    /\ op.kind \in Copies =>
          /\ op \in [kind : Copies, start : Nat, bytes : 0 .. MaxLen]
          /\ op.start + op.bytes <= RegionWords * WordBytes
          /\ offset = op.start + at /\ at + len = op.bytes
          /\ pc = "idle" <=> len = 0
          /\ at > 0 /\ len > 0 => Misalignment = 0

(* What an operation has read it finds again, unless somebody wrote.       *)
ReadInv ==
    /\ quiet => ~stale
    /\ pc = "write" /\ ~stale /\ op.kind \in Modify => reg = region[Index]
    /\ pc = "write" /\ ~stale /\ op.kind = "to_mmio" => reg = region[Index] \/ Part = WordBytes

MmioInv == OpInv /\ ReadInv

-------------------------------------------------------------------------------
(* Arithmetic of words and bytes *)

LEMMA WordFacts ==
    /\ WordBytes \in Nat \ {0} /\ RegionWords \in Nat \ {0} /\ WordBits \in Nat \ {0}
    /\ ByteBits \in Nat \ {0} /\ WordBits = WordBytes * ByteBits
    /\ MaxLen \in Nat
  <1>1. WordBits % WordBytes = 0 /\ WordBits \in Nat \ {0} /\ WordBytes \in Nat \ {0}
    BY MmioAssumption, WordBitsAssumption
  <1>2. WordBits = WordBytes * (WordBits \div WordBytes) /\ WordBits \div WordBytes \in Nat
    BY <1>1
  <1>3. WordBits \div WordBytes # 0
    BY <1>1, <1>2
  <1> QED
    BY <1>1, <1>2, <1>3, MmioAssumption DEF ByteBits

LEMMA KindsDiffer ==
    /\ "none" \notin Modify \union WriteOnly \union Read \union Copies
    /\ (Modify \union WriteOnly \union Read) \intersect Copies = {}
    /\ Modify \intersect WriteOnly = {} /\ Modify \intersect Read = {}
    /\ Read \intersect WriteOnly = {} /\ Copies = {"from_mmio", "to_mmio"}
  BY DEF Modify, WriteOnly, Read, Copies

(* A place within a word. *)
LEMMA WithinWord ==
    ASSUME NEW w \in Nat \ {0}, NEW o \in Nat, NEW d \in Nat, (o % w) + d < w
    PROVE  (o + d) \div w = o \div w /\ (o + d) % w = (o % w) + d
  <1> DEFINE q == o \div w
             r == o % w
             p == (o + d) \div w
             t == (o + d) % w
  <1>1. o = w * q + r /\ r \in 0 .. w - 1 /\ q \in Int
    OBVIOUS
  <1>2. o + d = w * p + t /\ t \in 0 .. w - 1 /\ p \in Int
    OBVIOUS
  <1>3. r + d < w
    OBVIOUS
  <1> HIDE DEF q, r, p, t
  <1> DEFINE e == p - q
  <1>4. w * e = w * p - w * q /\ e \in Int
    BY <1>1, <1>2
  <1>5. w * e = r + d - t
    BY <1>1, <1>2, <1>4
  <1> HIDE DEF e
  <1>6. e >= 1 => w * e >= w
    BY <1>4
  <1>7. e <= -1 => w * e <= -w
    BY <1>4
  <1>8. e = 0
    BY <1>1, <1>2, <1>3, <1>4, <1>5, <1>6, <1>7
  <1>9. p = q
    BY <1>1, <1>2, <1>8 DEF e
  <1>10. t = r + d
    BY <1>1, <1>2, <1>5, <1>8
  <1> QED
    BY <1>9, <1>10 DEF p, q, t, r

LEMMA Division ==
    ASSUME NEW w \in Nat \ {0}, NEW b \in Nat
    PROVE  b = w * (b \div w) + (b % w) /\ b % w \in 0 .. w - 1 /\ b \div w \in Nat
  OBVIOUS

(* What is below n words is in one of them. *)
LEMMA Quotient ==
    ASSUME NEW w \in Nat \ {0}, NEW n \in Nat, NEW b \in Nat, b < n * w
    PROVE  /\ b \div w \in 0 .. n - 1
           /\ (b \div w) * w <= b /\ b <= (b \div w + 1) * w - 1
  <1> DEFINE q == b \div w
             t == b % w
  <1>1. b = w * q + t /\ t \in 0 .. w - 1 /\ q \in Nat
    OBVIOUS
  <1> HIDE DEF q, t
  <1>2. q < n
    <2> SUFFICES ASSUME q >= n PROVE FALSE
      BY <1>1
    <2> DEFINE x == q - n
    <2>1. x \in Nat /\ q = n + x
      BY <1>1
    <2>2. w * x \in Nat
      BY <2>1
    <2> HIDE DEF x
    <2>3. w * q = w * n + w * x
      BY <2>1
    <2>4. w * n = n * w
      OBVIOUS
    <2> QED
      BY <1>1, <2>2, <2>3, <2>4
  <1>3. w * q = q * w /\ (q + 1) * w = q * w + w
    BY <1>1
  <1> QED
    BY <1>1, <1>2, <1>3 DEF q

(* The end of a word is the start of the next. *)
LEMMA NextWord ==
    ASSUME NEW w \in Nat \ {0}, NEW o \in Nat
    PROVE  (o + (w - (o % w))) % w = 0
  <1> DEFINE q == o \div w
             r == o % w
             s == o + (w - r)
             p == s \div w
             t == s % w
  <1>1. o = w * q + r /\ r \in 0 .. w - 1 /\ q \in Int
    OBVIOUS
  <1>2. s \in Nat
    BY <1>1
  <1>3. s = w * p + t /\ t \in 0 .. w - 1 /\ p \in Int
    BY <1>2
  <1> HIDE DEF q, p, t
  <1>4. s = w * (q + 1)
    BY <1>1
  <1> DEFINE e == q + 1 - p
  <1>5. w * e = w * (q + 1) - w * p /\ e \in Int
    BY <1>1, <1>3
  <1>6. w * e = t
    BY <1>3, <1>4, <1>5
  <1> HIDE DEF e
  <1>7. e >= 1 => w * e >= w
    BY <1>5
  <1>8. e <= -1 => w * e <= -w
    BY <1>5
  <1>9. e = 0
    BY <1>3, <1>5, <1>6, <1>7, <1>8
  <1>10. t = 0
    BY <1>6, <1>9
  <1> QED
    BY <1>10 DEF t

(* The part of a copy that falls into one word. *)
LEMMA PartFacts ==
    ASSUME OpInv, op.kind \in Copies, pc # "idle"
    PROVE  /\ Misalignment \in 0 .. WordBytes - 1
           /\ Part \in 1 .. WordBytes - Misalignment /\ Part <= len
           /\ Part < len => (offset + Part) % WordBytes = 0 /\ Part = WordBytes - Misalignment
           /\ Index \in 0 .. RegionWords - 1
           /\ offset \in Nat /\ at \in Nat /\ len \in Nat \ {0}
  <1>1. offset \in Nat /\ at \in Nat /\ len \in Nat \ {0}
        /\ offset < RegionWords * WordBytes
    <2>1. op.start \in Nat /\ op.bytes \in 0 .. MaxLen
          /\ op.start + op.bytes <= RegionWords * WordBytes
          /\ offset = op.start + at /\ at + len = op.bytes /\ len # 0
      BY DEF OpInv
    <2>2. offset \in Nat /\ at \in Nat /\ len \in Nat /\ RegionWords * WordBytes \in Nat
      BY WordFacts DEF OpInv
    <2> QED
      BY <2>1, <2>2, WordFacts
  <1>2. Misalignment \in 0 .. WordBytes - 1
    BY <1>1, WordFacts DEF Misalignment
  <1>3. Part \in 1 .. WordBytes - Misalignment /\ Part <= len
        /\ (Part < len => Part = WordBytes - Misalignment)
    BY <1>1, <1>2, WordFacts DEF Part, Smaller
  <1>4. (offset + (WordBytes - (offset % WordBytes))) % WordBytes = 0
    BY <1>1, WordFacts, NextWord
  <1>5. Part < len => (offset + Part) % WordBytes = 0
    BY <1>3, <1>4 DEF Misalignment
  <1>6. Index \in 0 .. RegionWords - 1
    BY <1>1, WordFacts, Quotient DEF Index
  <1> QED
    BY <1>1, <1>2, <1>3, <1>5, <1>6

-------------------------------------------------------------------------------
LEMMA MmioInitially == MmioInit => MmioInv
  <1> SUFFICES ASSUME MmioInit PROVE MmioInv
    OBVIOUS
  <1> USE DEF MmioInit
  <1>1. region \in [0 .. RegionWords - 1 -> Words]
        /\ buffer \in [0 .. MaxLen - 1 -> SUBSET (0 .. ByteBits - 1)]
    BY MmioAssumption DEF ByteBits
  <1>2. op.kind = "none"
    OBVIOUS
  <1> QED
    BY <1>1, <1>2, KindsDiffer DEF MmioInv, OpInv, ReadInv, Words

(* What the operations on fields write is a word. *)
LEMMA FieldWords ==
    ASSUME NEW word \in Words, NEW field, NEW value
    PROVE  bitfield_field32_write(word, field, value) \in Words
  BY DEF Words, bitfield_field32_write, ShiftLeft

LEMMA StartStep ==
    ASSUME MmioInv, NEW o \in Operations, NEW w \in 0 .. RegionWords - 1, Start(o, w)
    PROVE  MmioInv'
  <1> USE DEF MmioInv, Start
  <1>1. o.kind \in Modify \union WriteOnly \union Read
    BY DEF Operations
  <1>2. w * WordBytes \in Nat /\ (w * WordBytes) \div WordBytes = w
    <2>1. w \in Nat /\ WordBytes \in Nat \ {0}
      BY WordFacts
    <2>2. w * WordBytes \in Nat
      BY <2>1
    <2> DEFINE q == (w * WordBytes) \div WordBytes
               t == (w * WordBytes) % WordBytes
               e == w - q
    <2>3. w * WordBytes = WordBytes * q + t /\ t \in 0 .. WordBytes - 1 /\ q \in Int
      BY <2>1, <2>2
    <2> HIDE DEF q, t
    <2>4. WordBytes * e = t /\ e \in Int
      BY <2>1, <2>3
    <2> HIDE DEF e
    <2>5. e >= 1 => WordBytes * e >= WordBytes
      BY <2>1, <2>4
    <2>6. e <= -1 => WordBytes * e <= -WordBytes
      BY <2>1, <2>4
    <2>7. e = 0
      BY <2>1, <2>3, <2>4, <2>5, <2>6
    <2>8. q = w
      BY <2>1, <2>3, <2>7 DEF e
    <2> QED
      BY <2>2, <2>8 DEF q
  <1>3. pc' \in {"read", "write"} /\ (pc' = "write" => o.kind \in WriteOnly)
    OBVIOUS
  <1>4. OpInv'
    BY <1>1, <1>2, <1>3, WordFacts, KindsDiffer DEF OpInv, Words
  <1>5. ReadInv'
    BY <1>1, <1>3, KindsDiffer DEF ReadInv
  <1> QED
    BY <1>4, <1>5

LEMMA ReadFieldStep == MmioInv /\ ReadField => MmioInv'
  <1> SUFFICES ASSUME MmioInv, ReadField PROVE MmioInv'
    OBVIOUS
  <1> USE DEF MmioInv, ReadField
  <1>1. Index \in 0 .. RegionWords - 1
    BY WordFacts, KindsDiffer DEF OpInv, Index
  <1>2. region[Index] \in Words
    BY <1>1 DEF OpInv
  <1>3. bitfield_field32_read(region[Index], FieldOf(op)) \in Words
    BY DEF Words, bitfield_field32_read, ShiftRight
  <1>4. op.kind \in Modify \union Read /\ op' = op /\ pc' \in {"idle", "read", "write"}
        /\ reads' \in Nat /\ stale' = FALSE /\ reg' \in Words /\ result' \in Words
    BY <1>2, <1>3 DEF OpInv
  <1>5. OpInv'
    BY <1>4, KindsDiffer DEF OpInv
  <1>6. ReadInv'
    BY KindsDiffer DEF ReadInv, OpInv, Index
  <1> QED
    BY <1>5, <1>6

LEMMA WriteFieldStep == MmioInv /\ WriteField => MmioInv'
  <1> SUFFICES ASSUME MmioInv, WriteField PROVE MmioInv'
    OBVIOUS
  <1> USE DEF MmioInv, WriteField
  <1>1. bitfield_field32_write(reg, FieldOf(op), ValueOf(op)) \in Words
    BY FieldWords DEF OpInv
  <1>2. region' \in [0 .. RegionWords - 1 -> Words]
    BY <1>1 DEF OpInv
  <1>3. op.kind \in Modify \union WriteOnly /\ op' = op
    OBVIOUS
  <1>4. OpInv'
    BY <1>2, <1>3, KindsDiffer DEF OpInv
  <1>5. ReadInv'
    BY DEF ReadInv
  <1> QED
    BY <1>4, <1>5

LEMMA StartCopyStep ==
    ASSUME MmioInv, NEW kind \in Copies, NEW start \in Offsets, NEW n \in 0 .. MaxLen,
           StartCopy(kind, start, n)
    PROVE  MmioInv'
  <1> USE DEF MmioInv, StartCopy
  <1>1. start \in Nat /\ n \in Nat
    BY WordFacts DEF Offsets
  <1>2. op' = [kind |-> kind, start |-> start, bytes |-> n] /\ op'.kind \in Copies
    OBVIOUS
  <1>3. pc' \in {"idle", "read", "write"} /\ (pc' = "idle" <=> n = 0)
    BY DEF Access
  <1>4. OpInv'
    BY <1>1, <1>2, <1>3, KindsDiffer DEF OpInv, Words
  <1>5. pc' = "write" => Part' = WordBytes
    BY DEF Access, Part, Misalignment, NeedsRead
  <1>6. ReadInv'
    BY <1>2, <1>5, KindsDiffer DEF ReadInv
  <1> QED
    BY <1>4, <1>6

(* What every part of a copy does to the places. *)
LEMMA AdvanceStep ==
    ASSUME MmioInv, op.kind \in Copies, pc # "idle", Advance, op' = op
    PROVE  /\ offset' \in Nat /\ at' \in Nat /\ len' \in Nat
           /\ offset' = op.start + at' /\ at' + len' = op.bytes
           /\ pc' \in {"idle", "read", "write"} /\ (pc' = "idle" <=> len' = 0)
           /\ len' > 0 => Misalignment' = 0
           /\ pc' = "write" => Part' = WordBytes
  <1> USE DEF MmioInv, Advance
  <1>1. op.start \in Nat /\ op.bytes \in 0 .. MaxLen
        /\ offset = op.start + at /\ at + len = op.bytes
    BY DEF OpInv
  <1>2. Part \in Nat /\ Part <= len /\ offset \in Nat /\ at \in Nat /\ len \in Nat
    BY PartFacts, WordFacts
  <1>3. offset' \in Nat /\ at' \in Nat /\ len' \in Nat
        /\ offset' = op.start + at' /\ at' + len' = op.bytes
    BY <1>1, <1>2
  <1>4. pc' \in {"idle", "read", "write"} /\ (pc' = "idle" <=> len' = 0)
    BY DEF Access
  <1>5. len' > 0 => Misalignment' = 0
    BY <1>2, PartFacts DEF Misalignment
  <1>6. pc' = "write" => Part' = WordBytes
    <2> SUFFICES ASSUME pc' = "write" PROVE Part' = WordBytes
      OBVIOUS
    <2>1. Smaller(WordBytes, len') = WordBytes /\ len' # 0
      BY DEF Access, NeedsRead
    <2>2. Misalignment' = 0
      BY <1>3, <1>5, <2>1
    <2>3. Part' = Smaller(WordBytes - 0, len')
      BY <2>2 DEF Part
    <2> QED
      BY <2>1, <2>3, WordFacts DEF Smaller
  <1> QED
    BY <1>3, <1>4, <1>5, <1>6

LEMMA CopyReadStep == MmioInv /\ CopyRead => MmioInv'
  <1> SUFFICES ASSUME MmioInv, CopyRead PROVE MmioInv'
    OBVIOUS
  <1> USE DEF MmioInv, CopyRead
  <1>1. op.kind \in Copies /\ pc # "idle" /\ op' = op
    OBVIOUS
  <1>2. Index \in 0 .. RegionWords - 1 /\ Misalignment \in Nat
    BY <1>1, PartFacts
  <1>3. region[Index] \in Words
    BY <1>2 DEF OpInv
  <1>4. buffer' \in [0 .. MaxLen - 1 -> SUBSET (0 .. ByteBits - 1)]
    BY DEF OpInv, Byte
  <1>5. reads' \in Nat /\ reg' \in Words /\ stale' = FALSE /\ region' = region
    BY <1>3 DEF OpInv
  <1>6. CASE op.kind = "from_mmio"
    <2>1. Advance
      BY <1>6
    <2>2. OpInv'
      BY <1>1, <1>4, <1>5, <2>1, AdvanceStep, KindsDiffer DEF OpInv
    <2>3. ReadInv'
      BY <1>1, <1>5, <1>6, KindsDiffer DEF ReadInv
    <2> QED
      BY <2>2, <2>3
  <1>7. CASE op.kind = "to_mmio"
    <2>1. pc' = "write" /\ UNCHANGED <<buffer, offset, at, len>>
      BY <1>7
    <2>2. Misalignment' = Misalignment
      BY <2>1 DEF Misalignment
    <2>3. OpInv'
      BY <1>1, <1>5, <2>1, <2>2, KindsDiffer DEF OpInv
    <2>4. ReadInv'
      BY <1>1, <1>5, <1>7, <2>1, KindsDiffer DEF ReadInv, Index
    <2> QED
      BY <2>3, <2>4
  <1> QED
    BY <1>1, <1>6, <1>7, KindsDiffer

LEMMA CopyWriteStep == MmioInv /\ CopyWrite => MmioInv'
  <1> SUFFICES ASSUME MmioInv, CopyWrite PROVE MmioInv'
    OBVIOUS
  <1> USE DEF MmioInv, CopyWrite
  <1>1. op.kind \in Copies /\ pc # "idle" /\ op' = op /\ Advance /\ op.kind = "to_mmio"
    BY KindsDiffer
  <1>2. Replace(reg, Misalignment, Part, buffer) \in Words
    BY DEF Replace, Words
  <1>3. region' \in [0 .. RegionWords - 1 -> Words] /\ reg' \in Words
    BY <1>2 DEF OpInv, Words
  <1>4. OpInv'
    BY <1>1, <1>3, AdvanceStep, KindsDiffer DEF OpInv
  <1>5. ReadInv'
    BY <1>1, AdvanceStep, KindsDiffer DEF ReadInv
  <1> QED
    BY <1>4, <1>5

LEMMA OtherStep ==
    ASSUME MmioInv, NEW w \in 0 .. RegionWords - 1, NEW value \in Patterns, Other(w, value)
    PROVE  MmioInv'
  <1> USE DEF MmioInv, Other
  <1>1. region' \in [0 .. RegionWords - 1 -> Words]
    BY MmioAssumption DEF OpInv
  <1>2. stale' \in BOOLEAN /\ others' \in Nat
    BY DEF OpInv
  <1>3. Misalignment' = Misalignment /\ Part' = Part /\ Index' = Index
    BY DEF Misalignment, Part, Index
  <1>4. OpInv'
    BY <1>1, <1>2, <1>3, KindsDiffer DEF OpInv
  <1>5. ReadInv'
    <2> SUFFICES ASSUME pc = "write", ~stale' PROVE ReadInv'
      BY DEF ReadInv
    <2>1. ~stale /\ w # Index
      BY DEF OpInv
    <2>2. region'[Index] = region[Index]
      BY <2>1 DEF OpInv
    <2> QED
      BY <1>3, <2>1, <2>2 DEF ReadInv
  <1> QED
    BY <1>4, <1>5

LEMMA MmioStep == MmioInv /\ [MmioNext]_mmioVars => MmioInv'
  <1> SUFFICES ASSUME MmioInv, [MmioNext]_mmioVars PROVE MmioInv'
    OBVIOUS
  <1>1. CASE UNCHANGED mmioVars
    BY <1>1 DEF mmioVars, MmioInv, OpInv, ReadInv, Misalignment, Part, Index
  <1>2. CASE MmioNext
    BY <1>2, ReadFieldStep, WriteFieldStep, CopyReadStep, CopyWriteStep, StartStep,
       StartCopyStep, OtherStep DEF MmioNext, Step
  <1> QED
    BY <1>1, <1>2

LEMMA MmioInvariant == MmioSteps => []MmioInv
  BY MmioInitially, MmioStep, PTL DEF MmioSteps

-------------------------------------------------------------------------------
(* Bits and bytes of a word *)

LEMMA ByteOfBit ==
    ASSUME NEW b \in Bits
    PROVE  b \div ByteBits \in 0 .. WordBytes - 1 /\ b \in ByteBitsOf(b \div ByteBits)
  <1> DEFINE q == b \div ByteBits
  <1>1. b \in Nat /\ b < WordBytes * ByteBits /\ ByteBits \in Nat \ {0} /\ WordBytes \in Nat
    BY WordFacts DEF Bits
  <1>2. q \in 0 .. WordBytes - 1 /\ q * ByteBits <= b /\ b <= (q + 1) * ByteBits - 1
    BY <1>1, Quotient
  <1> HIDE DEF q
  <1>3. b \in ByteBitsOf(q)
    BY <1>1, <1>2 DEF ByteBitsOf
  <1> QED
    BY <1>2, <1>3 DEF q

LEMMA BitOfByte ==
    ASSUME NEW m \in 0 .. WordBytes - 1, NEW b \in 0 .. ByteBits - 1
    PROVE  /\ b + m * ByteBits \in Bits
           /\ (b + m * ByteBits) \div ByteBits = m
           /\ (b + m * ByteBits) % ByteBits = b
  <1> DEFINE x == b + m * ByteBits
             q == x \div ByteBits
             t == x % ByteBits
             e == m - q
  <1>1. m \in Nat /\ b \in Nat /\ x \in Nat
    BY WordFacts
  <1>2. x = ByteBits * q + t /\ t \in 0 .. ByteBits - 1 /\ q \in Int
    BY <1>1, WordFacts
  <1>3. x < WordBytes * ByteBits
    <2> DEFINE y == WordBytes - 1 - m
    <2>1. y \in Nat /\ WordBytes = m + 1 + y
      BY WordFacts
    <2>2. ByteBits * y \in Nat
      BY <2>1, WordFacts
    <2> HIDE DEF y
    <2>3. WordBytes * ByteBits = m * ByteBits + ByteBits + ByteBits * y
      BY <1>1, <2>1, WordFacts
    <2> QED
      BY <1>1, <2>2, <2>3, WordFacts
  <1>4. x \in Bits
    BY <1>1, <1>3, WordFacts DEF Bits
  <1> HIDE DEF q, t
  <1>5. ByteBits * e = t - b /\ e \in Int
    BY <1>1, <1>2, WordFacts
  <1> HIDE DEF e
  <1>6. e >= 1 => ByteBits * e >= ByteBits
    BY <1>5, WordFacts
  <1>7. e <= -1 => ByteBits * e <= -ByteBits
    BY <1>5, WordFacts
  <1>8. e = 0
    BY <1>2, <1>5, <1>6, <1>7, WordFacts
  <1>9. q = m /\ t = b
    BY <1>1, <1>2, <1>5, <1>8, WordFacts DEF e
  <1> QED
    BY <1>4, <1>9 DEF q, t

(* A word of which some bytes are replaced has those bytes, and keeps the  *)
(* others.                                                                 *)
LEMMA ReplacedBytes ==
    ASSUME NEW word, NEW k \in Nat, NEW n \in Nat, NEW m \in 0 .. WordBytes - 1,
           NEW bytes, m \in k .. k + n - 1 => bytes[at + m - k] \subseteq 0 .. ByteBits - 1
    PROVE  Byte(Replace(word, k, n, bytes), m) =
              IF m \in k .. k + n - 1 THEN bytes[at + m - k] ELSE Byte(word, m)
  <1>1. \A b \in 0 .. ByteBits - 1 :
           b + m * ByteBits \in Replace(word, k, n, bytes)
              <=> IF m \in k .. k + n - 1 THEN b \in bytes[at + m - k]
                  ELSE b + m * ByteBits \in word
    BY BitOfByte DEF Replace
  <1> QED
    BY <1>1 DEF Byte

-------------------------------------------------------------------------------
(* What a write leaves of the neighbours of its bits. *)
LEMMA FieldKeeps ==
    ASSUME MmioInv, WriteField, op.kind \notin WriteOnly, ~stale,
           NEW w \in DOMAIN region, NEW b \in Bits, (b \in region'[w]) # (b \in region[w])
    PROVE  w = Index /\ b \in Own
  <1>1. op.kind \in Modify /\ op.kind \notin Copies /\ pc = "write"
    BY KindsDiffer DEF WriteField
  <1>2. region' = [region EXCEPT ![Index] =
                      bitfield_field32_write(reg, FieldOf(op), ValueOf(op))]
    BY DEF WriteField
  <1>3. w = Index /\ region'[Index] = bitfield_field32_write(reg, FieldOf(op), ValueOf(op))
    BY <1>2
  <1>4. reg = region[Index]
    BY <1>1 DEF MmioInv, ReadInv
  <1>5. b \in InField(FieldOf(op))
    BY <1>3, <1>4 DEF bitfield_field32_write, ShiftLeft, InField
  <1> QED
    BY <1>1, <1>3, <1>5 DEF Own

LEMMA CopyKeeps ==
    ASSUME MmioInv, CopyWrite, ~stale,
           NEW w \in DOMAIN region, NEW b \in Bits, (b \in region'[w]) # (b \in region[w])
    PROVE  w = Index /\ b \in Own
  <1>1. op.kind = "to_mmio" /\ op.kind \in Copies /\ pc = "write"
    BY KindsDiffer DEF CopyWrite
  <1>2. region' = [region EXCEPT ![Index] = Replace(reg, Misalignment, Part, buffer)]
    BY DEF CopyWrite
  <1>3. w = Index /\ region'[Index] = Replace(reg, Misalignment, Part, buffer)
    BY <1>2
  <1> DEFINE j == b \div ByteBits
  <1>4. j \in 0 .. WordBytes - 1 /\ b \in ByteBitsOf(j)
    BY ByteOfBit
  <1>5. Misalignment \in 0 .. WordBytes - 1 /\ Part \in 1 .. WordBytes - Misalignment
    BY <1>1, PartFacts DEF MmioInv
  <1>6. reg = region[Index] \/ Part = WordBytes
    BY <1>1 DEF MmioInv, ReadInv
  <1>7. j \in Misalignment .. Misalignment + Part - 1
    <2>1. CASE reg = region[Index]
      BY <1>3, <2>1 DEF Replace
    <2>2. CASE Part = WordBytes
      BY <1>4, <1>5, <2>2, WordFacts
    <2> QED
      BY <1>6, <2>1, <2>2
  <1> HIDE DEF j
  <1>8. b \in Own
    BY <1>1, <1>4, <1>7 DEF Own
  <1> QED
    BY <1>3, <1>8

(* The same of one step. *)
Kept ==
    pc = "write" /\ op.kind \notin WriteOnly /\ ~stale /\ others' = others =>
        \A w \in DOMAIN region, b \in Bits :
            (b \in region'[w]) # (b \in region[w]) => w = Index /\ b \in Own

LEMMA KeptStep == MmioInv /\ [MmioNext]_mmioVars => Kept
  <1> SUFFICES ASSUME MmioInv, [MmioNext]_mmioVars,
                      pc = "write", op.kind \notin WriteOnly, ~stale, others' = others,
                      NEW w \in DOMAIN region, NEW b \in Bits,
                      (b \in region'[w]) # (b \in region[w])
               PROVE  w = Index /\ b \in Own
    BY DEF Kept
  <1>1. CASE UNCHANGED mmioVars
    BY <1>1 DEF mmioVars
  <1>2. CASE WriteField
    BY <1>2, FieldKeeps
  <1>3. CASE CopyWrite
    BY <1>3, CopyKeeps
  <1>4. CASE \E v \in 0 .. RegionWords - 1, value \in Patterns : Other(v, value)
    <2>1. others' = others + 1 /\ others \in Nat
      BY <1>4 DEF Other, MmioInv, OpInv
    <2> QED
      BY <2>1
  <1>5. CASE ReadField \/ CopyRead
    BY <1>5 DEF ReadField, CopyRead
  <1>6. CASE \E o \in Operations, v \in 0 .. RegionWords - 1 : Start(o, v)
    BY <1>6 DEF Start
  <1>7. CASE \E kind \in Copies, start \in Offsets, n \in 0 .. MaxLen : StartCopy(kind, start, n)
    BY <1>7 DEF StartCopy
  <1> QED
    BY <1>1, <1>2, <1>3, <1>4, <1>5, <1>6, <1>7 DEF MmioNext, Step

(* A write of an operation that has to keep its neighbours changes its own *)
(* bits only, unless another party changed the word since it was read.     *)
THEOREM RegistersKeepNeighbours == MmioSteps => NeighboursKept
  <1>1. MmioInv /\ [MmioNext]_mmioVars => [Kept]_mmioVars
    BY KeptStep
  <1> QED
    BY <1>1, MmioInvariant, PTL DEF MmioSteps, NeighboursKept, Kept

-------------------------------------------------------------------------------
(* Setting a field: what was written is read back, whatever was there.     *)
LEMMA ReadBack ==
    ASSUME NEW word, NEW value, NEW field, Fits(field), field.mask \subseteq Bits,
           field.index \in Int
    PROVE  bitfield_field32_read(bitfield_field32_write(word, field, value), field)
              = value \intersect field.mask
  <1> DEFINE written == bitfield_field32_write(word, field, value)
  <1>1. \A b \in field.mask : b \in Bits /\ b + field.index \in Bits /\ b \in Int
    BY DEF Fits, Bits
  <1>2. \A b \in field.mask : (b + field.index) - field.index = b
    BY <1>1
  <1>3. \A b \in field.mask : \A mask :
           b + field.index \in ShiftLeft(mask, field.index) <=> b \in mask
    BY <1>1, <1>2 DEF ShiftLeft
  <1>4. \A b \in field.mask : b + field.index \in written <=> b \in value
    BY <1>3 DEF bitfield_field32_write
  <1> HIDE DEF written
  <1>5. bitfield_field32_read(written, field) = value \intersect field.mask
    BY <1>1, <1>4 DEF bitfield_field32_read, ShiftRight
  <1> QED
    BY <1>5 DEF written

LEMMA FieldArguments ==
    ASSUME MmioInv, op.kind \in Modify \union WriteOnly
    PROVE  FieldOf(op).mask \subseteq Bits /\ FieldOf(op).index \in Int
  <1>1. op \in Operations
    BY DEF MmioInv, OpInv
  <1>2. op.mask \in Masks /\ op.index \in Bits
    BY <1>1 DEF Operations
  <1>4. op.mask \subseteq Bits
    BY <1>2, MmioAssumption DEF Words
  <1>5. op.index \in Int
    BY <1>2 DEF Bits
  <1>3. {0} \subseteq Bits
    BY WordFacts DEF Bits
  <1> QED
    BY <1>4, <1>5, <1>3 DEF FieldOf, Field, bitfield_bit32_to_field32

LEMMA FieldStep == MmioInv /\ FieldIsSet /\ [MmioNext]_mmioVars => FieldIsSet'
  <1> SUFFICES ASSUME MmioInv, FieldIsSet, [MmioNext]_mmioVars PROVE FieldIsSet'
    OBVIOUS
  <1>1. CASE UNCHANGED mmioVars
    BY <1>1 DEF mmioVars, FieldIsSet, Done, Index, FieldOf, ValueOf, Fits
  <1>2. CASE WriteField
    <2>1. op' = op /\ op.kind \in Modify \union WriteOnly /\ Index' = Index
          /\ region' = [region EXCEPT ![Index] =
                            bitfield_field32_write(reg, FieldOf(op), ValueOf(op))]
      BY <1>2 DEF WriteField, Index
    <2>2. Index \in 0 .. RegionWords - 1
      BY <2>1, WordFacts DEF MmioInv, OpInv, Index
    <2>3. region'[Index] = bitfield_field32_write(reg, FieldOf(op), ValueOf(op))
      BY <2>1, <2>2 DEF MmioInv, OpInv
    <2>4. Fits(FieldOf(op)) =>
             bitfield_field32_read(region'[Index], FieldOf(op)) = ValueOf(op) \intersect FieldOf(op).mask
      BY <2>1, <2>3, FieldArguments, ReadBack
    <2> QED
      BY <2>1, <2>4 DEF FieldIsSet
  <1>3. CASE ReadField
    <2>1. op.kind \in Modify => pc' # "idle"
      BY <1>3, KindsDiffer DEF ReadField
    <2>2. op.kind \notin WriteOnly /\ op' = op
      BY <1>3, KindsDiffer DEF ReadField
    <2> QED
      BY <2>1, <2>2 DEF FieldIsSet, Done
  <1>4. CASE CopyRead \/ CopyWrite
    <2>1. op.kind \in Copies /\ op' = op
      BY <1>4, KindsDiffer DEF CopyRead, CopyWrite
    <2> QED
      BY <2>1, KindsDiffer DEF FieldIsSet, Done
  <1>5. CASE \E o \in Operations, v \in 0 .. RegionWords - 1 : Start(o, v)
    BY <1>5 DEF Start, FieldIsSet, Done
  <1>6. CASE \E kind \in Copies, start \in Offsets, n \in 0 .. MaxLen : StartCopy(kind, start, n)
    <2>1. op'.kind \in Copies
      BY <1>6 DEF StartCopy
    <2> QED
      BY <2>1, KindsDiffer DEF FieldIsSet, Done
  <1>7. CASE \E v \in 0 .. RegionWords - 1, value \in Patterns : Other(v, value)
    BY <1>7 DEF Other, FieldIsSet
  <1> QED
    BY <1>1, <1>2, <1>3, <1>4, <1>5, <1>6, <1>7 DEF MmioNext, Step

LEMMA FieldInvariant == MmioSteps => []FieldIsSet
  <1>1. MmioInit => FieldIsSet
    <2>1. MmioInit => op.kind = "none"
      BY DEF MmioInit
    <2> QED
      BY <2>1, KindsDiffer DEF FieldIsSet, Done
  <1> QED
    BY <1>1, FieldStep, MmioInvariant, PTL DEF MmioSteps

-------------------------------------------------------------------------------
(* The reads of a copy: the first part has a byte at least, and all but    *)
(* the last end with a word.                                               *)
CountInv ==
    /\ op.kind = "from_mmio" =>
          /\ reads = 0 <=> at = 0
          /\ reads >= 1 /\ len > 0 => WordBytes * (reads - 1) + 1 <= at
          /\ reads >= 2 /\ len = 0 => WordBytes * (reads - 2) + 2 <= at
    /\ op.kind = "to_mmio" =>
          /\ reads <= 2
          /\ pc = "read" => IF at = 0 THEN reads = 0 ELSE reads <= 1 /\ len < WordBytes
          /\ pc = "write" /\ (at = 0 \/ len >= WordBytes) => reads <= 1

LEMMA CountCopyRead == MmioInv /\ CountInv /\ CopyRead => CountInv'
  <1> SUFFICES ASSUME MmioInv, CountInv, CopyRead PROVE CountInv'
    OBVIOUS
  <1> USE DEF CopyRead
  <1>1. op.kind \in Copies /\ pc = "read" /\ op' = op /\ reads' = reads + 1 /\ reads \in Nat
    BY DEF MmioInv, OpInv
  <1>2. /\ Misalignment \in 0 .. WordBytes - 1
        /\ Part \in 1 .. WordBytes - Misalignment /\ Part <= len
        /\ Part < len => Part = WordBytes - Misalignment
        /\ at \in Nat /\ len \in Nat \ {0}
        /\ WordBytes \in Nat \ {0}
    BY <1>1, PartFacts, WordFacts DEF MmioInv
  <1>3. CASE op.kind = "from_mmio"
    <2>1. at' = at + Part /\ len' = len - Part
      BY <1>3 DEF Advance
    <2>2. reads = 0 <=> at = 0
      BY <1>3 DEF CountInv
    <2>3. CASE reads = 0
      <3>1. reads' = 1 /\ at' = Part /\ at' # 0 /\ WordBytes * (1 - 1) = 0
        BY <1>1, <1>2, <2>1, <2>2, <2>3
      <3> QED
        BY <1>1, <1>2, <1>3, <3>1 DEF CountInv
    <2>4. CASE reads >= 1
      <3>1. WordBytes * (reads - 1) + 1 <= at /\ at # 0
        BY <1>2, <1>3, <2>2, <2>4 DEF CountInv
      <3>2. Misalignment = 0
        BY <1>1, <1>2, <3>1 DEF MmioInv, OpInv
      <3>3. WordBytes * reads = WordBytes * (reads - 1) + WordBytes
        BY <1>1, <1>2
      <3>4. len' > 0 => WordBytes * reads + 1 <= at'
        BY <1>2, <2>1, <3>1, <3>2, <3>3, <1>1
      <3>5. WordBytes * (reads - 1) + 2 <= at'
        BY <1>1, <1>2, <2>1, <3>1
      <3>6. reads' - 1 = reads /\ reads' - 2 = reads - 1 /\ at' # 0 /\ reads' # 0
        BY <1>1, <1>2, <2>1, <3>1
      <3> QED
        BY <1>1, <1>3, <3>4, <3>5, <3>6 DEF CountInv
    <2> QED
      BY <1>1, <2>3, <2>4
  <1>4. CASE op.kind = "to_mmio"
    <2>1. pc' = "write" /\ at' = at /\ len' = len
      BY <1>4
    <2> QED
      BY <1>1, <1>2, <1>4, <2>1 DEF CountInv
  <1> QED
    BY <1>1, <1>3, <1>4, KindsDiffer

LEMMA CountCopyWrite == MmioInv /\ CountInv /\ CopyWrite => CountInv'
  <1> SUFFICES ASSUME MmioInv, CountInv, CopyWrite PROVE CountInv'
    OBVIOUS
  <1>1. op.kind = "to_mmio" /\ op.kind \in Copies /\ pc = "write" /\ op' = op /\ reads' = reads
        /\ reads \in Nat /\ Advance
    BY KindsDiffer DEF CopyWrite, MmioInv, OpInv
  <1>2. /\ Misalignment \in 0 .. WordBytes - 1
        /\ Part \in 1 .. WordBytes - Misalignment /\ Part <= len
        /\ Part < len => Part = WordBytes - Misalignment
        /\ at \in Nat /\ len \in Nat \ {0}
        /\ WordBytes \in Nat \ {0}
    BY <1>1, PartFacts, WordFacts DEF MmioInv
  <1>3. at' = at + Part /\ len' = len - Part /\ at' \in Nat \ {0} /\ len' \in Nat
    BY <1>1, <1>2 DEF Advance
  <1>4. CASE len' = 0
    BY <1>1, <1>3, <1>4, KindsDiffer DEF CountInv, Advance, Access
  <1>5. CASE len' > 0
    <2>1. reads <= 1
      <3>1. at = 0 => reads <= 1
        BY <1>1 DEF CountInv
      <3>2. at > 0 => Misalignment = 0
        BY <1>1, <1>2 DEF MmioInv, OpInv
      <3>3. at > 0 => len >= WordBytes
        BY <1>2, <1>3, <1>5, <3>2
      <3> QED
        BY <1>1, <1>2, <3>1, <3>3 DEF CountInv
    <2>2. pc' = "read" => len' < WordBytes
      BY <1>1, <1>2, <1>3, <1>5 DEF Advance, Access, NeedsRead, Smaller
    <2> QED
      BY <1>1, <1>3, <2>1, <2>2 DEF CountInv
  <1> QED
    BY <1>3, <1>4, <1>5

LEMMA CountStep == MmioInv /\ CountInv /\ [MmioNext]_mmioVars => CountInv'
  <1> SUFFICES ASSUME MmioInv, CountInv, [MmioNext]_mmioVars PROVE CountInv'
    OBVIOUS
  <1>1. CASE UNCHANGED mmioVars
    BY <1>1 DEF mmioVars, CountInv
  <1>2. CASE ReadField \/ WriteField
    <2>1. op' = op /\ op.kind \notin Copies
      BY <1>2, KindsDiffer DEF ReadField, WriteField
    <2> QED
      BY <2>1, KindsDiffer DEF CountInv
  <1>3. CASE CopyRead \/ CopyWrite
    BY <1>3, CountCopyRead, CountCopyWrite
  <1>4. CASE \E o \in Operations, v \in 0 .. RegionWords - 1 : Start(o, v)
    <2>1. op'.kind \notin Copies
      BY <1>4, KindsDiffer DEF Start, Operations
    <2> QED
      BY <2>1, KindsDiffer DEF CountInv
  <1>5. CASE \E kind \in Copies, start \in Offsets, n \in 0 .. MaxLen : StartCopy(kind, start, n)
    <2>1. reads' = 0 /\ at' = 0
      BY <1>5 DEF StartCopy, MmioInv, OpInv
    <2> QED
      BY <2>1 DEF CountInv
  <1>6. CASE \E v \in 0 .. RegionWords - 1, value \in Patterns : Other(v, value)
    BY <1>6 DEF Other, CountInv
  <1> QED
    BY <1>1, <1>2, <1>3, <1>4, <1>5, <1>6 DEF MmioNext, Step

LEMMA CountInvariant == MmioSteps => []CountInv
  <1>1. MmioInit => CountInv
    BY DEF MmioInit, CountInv
  <1> QED
    BY <1>1, CountStep, MmioInvariant, PTL DEF MmioSteps

LEMMA CountIsFew == MmioInv /\ CountInv => FewReads
  <1> SUFFICES ASSUME MmioInv, CountInv, op.kind = "from_mmio"
               PROVE  reads <= op.bytes \div WordBytes + 2
    BY KindsDiffer DEF FewReads, CountInv
  <1>1. reads \in Nat /\ at \in Nat /\ len \in Nat /\ at + len = op.bytes
    BY KindsDiffer DEF MmioInv, OpInv
  <1>2. op.bytes \in Nat /\ at <= op.bytes
    BY <1>1
  <1> DEFINE q == op.bytes \div WordBytes
             t == op.bytes % WordBytes
  <1>3. op.bytes = WordBytes * q + t /\ t \in 0 .. WordBytes - 1 /\ q \in Nat
    <2>1. WordBytes \in Nat \ {0}
      BY WordFacts
    <2> QED
      BY <1>2, <2>1, Division
  <1> HIDE DEF q, t
  <1>4. reads >= 2 => WordBytes * (reads - 2) < WordBytes * q + WordBytes
    <2> SUFFICES ASSUME reads >= 2 PROVE WordBytes * (reads - 2) < WordBytes * q + WordBytes
      OBVIOUS
    <2>1. WordBytes * (reads - 1) = WordBytes * (reads - 2) + WordBytes
      BY <1>1, WordFacts
    <2>2. WordBytes * (reads - 2) + 1 <= at
      BY <1>1, <2>1, WordFacts DEF CountInv
    <2> QED
      BY <1>1, <1>2, <1>3, <2>2, WordFacts
  <1>5. reads - 2 <= q
    <2> SUFFICES ASSUME reads - 2 > q PROVE FALSE
      BY <1>1, <1>3
    <2> DEFINE x == (reads - 2) - (q + 1)
    <2>1. x \in Nat /\ reads - 2 = (q + 1) + x
      BY <1>1, <1>3
    <2>2. WordBytes * x \in Nat
      BY <2>1, WordFacts
    <2> HIDE DEF x
    <2>3. WordBytes * (reads - 2) = WordBytes * q + WordBytes + WordBytes * x
      BY <1>3, <2>1, WordFacts
    <2> QED
      BY <1>1, <1>3, <1>4, <2>2, <2>3, WordFacts
  <1> QED
    BY <1>1, <1>3, <1>5 DEF q

-------------------------------------------------------------------------------
(* What a copy has done so far if nobody disturbed it: the bytes up to at  *)
(* are moved, and nothing else is.                                         *)
FirstOK == first.buffer \in [0 .. MaxLen - 1 -> SUBSET (0 .. ByteBits - 1)]

ToInv ==
    op.kind = "to_mmio" /\ quiet =>
        /\ FirstOK /\ buffer = first.buffer
        /\ \A x \in Offsets : RegionByte(region, x) =
              IF x \in op.start .. op.start + at - 1 THEN first.buffer[x - op.start]
              ELSE RegionByte(first.region, x)

FromInv ==
    op.kind = "from_mmio" /\ quiet =>
        /\ FirstOK /\ region = first.region
        /\ \A j \in 0 .. MaxLen - 1 : buffer[j] =
              IF j < at THEN RegionByte(first.region, op.start + j) ELSE first.buffer[j]

CopiedInv == ToInv /\ FromInv

LEMMA OffsetFacts ==
    ASSUME NEW x \in Offsets
    PROVE  /\ x \in Nat /\ x \div WordBytes \in 0 .. RegionWords - 1
           /\ x % WordBytes \in 0 .. WordBytes - 1
           /\ x = WordBytes * (x \div WordBytes) + (x % WordBytes)
  <1>1. WordBytes \in Nat \ {0} /\ RegionWords \in Nat
    BY WordFacts
  <1>2. x \in Nat /\ x < RegionWords * WordBytes
    BY <1>1 DEF Offsets
  <1> QED
    BY <1>1, <1>2, Quotient, Division

LEMMA CopyFacts ==
    ASSUME MmioInv, op.kind \in Copies
    PROVE  /\ op.start \in Nat /\ op.bytes \in 0 .. MaxLen
           /\ op.start + op.bytes <= RegionWords * WordBytes
           /\ offset = op.start + at /\ at + len = op.bytes
           /\ at \in Nat /\ len \in Nat /\ offset \in Nat /\ MaxLen \in Nat
           /\ WordBytes \in Nat \ {0} /\ RegionWords * WordBytes \in Nat
  BY WordFacts DEF MmioInv, OpInv

(* A part read into the buffer: byte j of it is byte offset + (j - at) of  *)
(* the region, which lies in the word that was read.                       *)
LEMMA CopiedFrom ==
    ASSUME MmioInv, CopiedInv, CopyRead, op.kind = "from_mmio", quiet
    PROVE  FromInv'
  <1>1. op.kind \in Copies /\ pc # "idle" /\ op' = op /\ at' = at + Part
        /\ region' = region /\ first' = first
        /\ buffer' = [x \in DOMAIN buffer |->
                          IF x \in at .. at + Part - 1
                          THEN Byte(region[Index], Misalignment + x - at) ELSE buffer[x]]
    BY KindsDiffer DEF CopyRead, Advance
  <1>2. /\ Misalignment \in 0 .. WordBytes - 1 /\ Part \in 1 .. WordBytes - Misalignment
        /\ offset \in Nat /\ at \in Nat /\ offset = op.start + at /\ op.start \in Nat
        /\ WordBytes \in Nat \ {0} /\ MaxLen \in Nat
    BY <1>1, PartFacts, CopyFacts DEF MmioInv
  <1>3. FirstOK /\ region = first.region
        /\ \A j \in 0 .. MaxLen - 1 : buffer[j] =
              IF j < at THEN RegionByte(first.region, op.start + j) ELSE first.buffer[j]
    BY DEF CopiedInv, FromInv
  <1>4. DOMAIN buffer = 0 .. MaxLen - 1
    BY DEF MmioInv, OpInv
  <1>5. ASSUME NEW j \in 0 .. MaxLen - 1
        PROVE  buffer'[j] = IF j < at + Part THEN RegionByte(first.region, op.start + j)
                            ELSE first.buffer[j]
    <2>1. CASE j \in at .. at + Part - 1
      <3> DEFINE d == j - at
      <3>1. d \in Nat /\ Misalignment + d < WordBytes /\ op.start + j = offset + d
            /\ Misalignment + j - at = Misalignment + d
        BY <1>2, <2>1
      <3>2. (offset + d) \div WordBytes = Index /\ (offset + d) % WordBytes = Misalignment + d
        <4>1. (offset % WordBytes) + d < WordBytes
          BY <3>1 DEF Misalignment
        <4> HIDE DEF d
        <4> QED
          BY <1>2, <3>1, <4>1, WithinWord DEF Misalignment, Index
      <3>3. buffer'[j] = Byte(region[Index], Misalignment + d)
        BY <1>1, <1>4, <2>1, <3>1
      <3>4. RegionByte(first.region, op.start + j) = Byte(region[Index], Misalignment + d)
        BY <1>3, <3>1, <3>2 DEF RegionByte
      <3>5. j < at + Part
        BY <1>2, <2>1
      <3> QED
        BY <3>3, <3>4, <3>5
    <2>2. CASE j \notin at .. at + Part - 1
      <3>1. buffer'[j] = buffer[j]
        BY <1>1, <1>4, <2>2
      <3>2. j < at + Part <=> j < at
        BY <1>2, <2>2
      <3> QED
        BY <1>3, <3>1, <3>2
    <2> QED
      BY <2>1, <2>2
  <1> QED
    BY <1>1, <1>3, <1>5 DEF FromInv, FirstOK

(* A part written to the region: the bytes of other words and the other    *)
(* bytes of this one stay.                                                 *)
LEMMA CopiedTo ==
    ASSUME MmioInv, CopiedInv, CopyWrite, quiet
    PROVE  ToInv'
  <1>1. op.kind \in Copies /\ pc = "write" /\ op' = op /\ at' = at + Part /\ op.kind = "to_mmio"
        /\ buffer' = buffer /\ first' = first
        /\ region' = [region EXCEPT ![Index] = Replace(reg, Misalignment, Part, buffer)]
    BY KindsDiffer DEF CopyWrite, Advance
  <1>2. /\ Misalignment \in 0 .. WordBytes - 1 /\ Part \in 1 .. WordBytes - Misalignment
        /\ Part <= len /\ len \in Nat /\ Index \in 0 .. RegionWords - 1
        /\ offset \in Nat /\ at \in Nat /\ offset = op.start + at /\ op.start \in Nat
        /\ WordBytes \in Nat \ {0} /\ MaxLen \in Nat
        /\ at + len <= MaxLen
    BY <1>1, PartFacts, CopyFacts DEF MmioInv
  <1>3. FirstOK /\ buffer = first.buffer
        /\ \A x \in Offsets : RegionByte(region, x) =
              IF x \in op.start .. op.start + at - 1 THEN first.buffer[x - op.start]
              ELSE RegionByte(first.region, x)
    BY <1>1 DEF CopiedInv, ToInv
  <1>4. reg = region[Index] \/ Part = WordBytes
    BY <1>1 DEF MmioInv, ReadInv
  <1>5. offset = WordBytes * Index + Misalignment
    BY <1>2, Division DEF Index, Misalignment
  <1>6. ASSUME NEW x \in Offsets
        PROVE  RegionByte(region', x) =
                  IF x \in op.start .. op.start + (at + Part) - 1 THEN first.buffer[x - op.start]
                  ELSE RegionByte(first.region, x)
    <2> DEFINE m == x % WordBytes
               v == x \div WordBytes
    <2>1. x \in Nat /\ v \in 0 .. RegionWords - 1 /\ m \in 0 .. WordBytes - 1
          /\ x = WordBytes * v + m
      BY OffsetFacts
    <2>2. RegionByte(region', x) = Byte(region'[v], m) /\ RegionByte(region, x) = Byte(region[v], m)
      BY DEF RegionByte
    <2> HIDE DEF m, v
    <2>3. CASE v # Index
      <3>1. region'[v] = region[v]
        BY <1>1, <2>1, <2>3 DEF MmioInv, OpInv
      <3>2. x \notin offset .. offset + Part - 1
        <4> SUFFICES ASSUME x \in offset .. offset + Part - 1 PROVE FALSE
          OBVIOUS
        <4> DEFINE d == x - offset
                   e == v - Index
        <4>1. d \in Nat /\ Misalignment + d < WordBytes
          BY <1>2, <2>1
        <4>2. e \in Int /\ e # 0 /\ WordBytes * e = Misalignment + d - m
          BY <1>2, <1>5, <2>1, <2>3
        <4> HIDE DEF d, e
        <4>3. e >= 1 => WordBytes * e >= WordBytes
          BY <1>2, <4>2
        <4>4. e <= -1 => WordBytes * e <= -WordBytes
          BY <1>2, <4>2
        <4> QED
          BY <1>2, <2>1, <4>1, <4>2, <4>3, <4>4
      <3>3. x \in op.start .. op.start + (at + Part) - 1 <=> x \in op.start .. op.start + at - 1
        BY <1>2, <2>1, <3>2
      <3> QED
        BY <1>3, <2>2, <3>1, <3>3
    <2>4. CASE v = Index
      <3>1. region'[v] = Replace(reg, Misalignment, Part, buffer)
        BY <1>1, <1>2, <2>4 DEF MmioInv, OpInv
      <3>2. x - offset = m - Misalignment /\ x - op.start = at + m - Misalignment
        <4>1. WordBytes * v = WordBytes * Index /\ WordBytes * v \in Int
          BY <1>2, <2>1, <2>4
        <4>2. x = WordBytes * Index + m
          BY <2>1, <4>1
        <4>3. x - offset = m - Misalignment
          <5> DEFINE z == WordBytes * Index
          <5>1. z \in Int /\ x = z + m /\ offset = z + Misalignment
            BY <1>5, <4>1, <4>2
          <5> HIDE DEF z
          <5>2. m \in Int /\ Misalignment \in Int
            BY <1>2, <2>1
          <5> QED
            BY <5>1, <5>2
        <4> DEFINE s == op.start
                   k == Misalignment
        <4>4. m \in Int /\ k \in Int /\ x \in Int /\ at \in Int
              /\ s \in Int /\ offset = s + at
          BY <1>2, <2>1
        <4>5. x - offset = m - k
          BY <4>3
        <4> HIDE DEF s, k
        <4>6. x - s = at + m - k
          BY <4>4, <4>5
        <4> QED
          BY <4>3, <4>6 DEF s, k
      <3>3. m \in Misalignment .. Misalignment + Part - 1
              => /\ at + m - Misalignment \in 0 .. MaxLen - 1
                 /\ buffer[at + m - Misalignment] \subseteq 0 .. ByteBits - 1
        <4>1. m \in Misalignment .. Misalignment + Part - 1
                => at + m - Misalignment \in 0 .. MaxLen - 1
          BY <1>2, <2>1
        <4> QED
          BY <4>1 DEF MmioInv, OpInv
      <3>4. Byte(region'[v], m) =
               IF m \in Misalignment .. Misalignment + Part - 1
               THEN buffer[at + m - Misalignment] ELSE Byte(reg, m)
        <4>1. Misalignment \in Nat /\ Part \in Nat /\ m \in 0 .. WordBytes - 1
          BY <1>2, <2>1, <3>1
        <4>2. Byte(Replace(reg, Misalignment, Part, buffer), m) =
                 IF m \in Misalignment .. Misalignment + Part - 1
                 THEN buffer[at + m - Misalignment] ELSE Byte(reg, m)
          BY <3>3, <4>1, ReplacedBytes
        <4> QED
          BY <1>2, <2>1, <3>1, <4>2
      <3>5. CASE m \in Misalignment .. Misalignment + Part - 1
        <4>1. x \in op.start .. op.start + (at + Part) - 1
          BY <1>2, <2>1, <3>2, <3>5
        <4> QED
          BY <1>3, <2>2, <3>2, <3>4, <3>5, <4>1
      <3>6. CASE m \notin Misalignment .. Misalignment + Part - 1
        <4>1. x \in op.start .. op.start + (at + Part) - 1 <=> x \in op.start .. op.start + at - 1
          BY <1>2, <2>1, <3>2, <3>6
        <4>2. Part # WordBytes
          BY <1>2, <2>1, <3>6
        <4>3. Byte(region'[v], m) = Byte(region[v], m)
          BY <1>4, <2>4, <3>4, <3>6, <4>2
        <4> QED
          BY <1>3, <2>2, <4>1, <4>3
      <3> QED
        BY <3>5, <3>6
    <2> QED
      BY <2>3, <2>4
  <1> QED
    BY <1>1, <1>3, <1>6 DEF ToInv, FirstOK, RegionByte

LEMMA CopiedStep == MmioInv /\ CopiedInv /\ [MmioNext]_mmioVars => CopiedInv'
  <1> SUFFICES ASSUME MmioInv, CopiedInv, [MmioNext]_mmioVars PROVE CopiedInv'
    OBVIOUS
  <1>1. CASE UNCHANGED mmioVars
    BY <1>1 DEF mmioVars, CopiedInv, ToInv, FromInv, FirstOK, RegionByte
  <1>2. CASE ReadField \/ WriteField
    <2>1. op' = op /\ op.kind \notin Copies
      BY <1>2, KindsDiffer DEF ReadField, WriteField
    <2> QED
      BY <2>1, KindsDiffer DEF CopiedInv, ToInv, FromInv
  <1>3. CASE CopyRead
    <2>1. op' = op /\ quiet' = quiet /\ first' = first /\ region' = region
      BY <1>3 DEF CopyRead
    <2>2. CASE op.kind = "from_mmio"
      BY <1>3, <2>1, <2>2, CopiedFrom DEF CopiedInv, ToInv, FromInv
    <2>3. CASE op.kind # "from_mmio"
      <3>1. buffer' = buffer /\ at' = at
        BY <1>3, <2>3 DEF CopyRead
      <3> QED
        BY <2>1, <2>3, <3>1 DEF CopiedInv, ToInv, FromInv, FirstOK, RegionByte
    <2> QED
      BY <2>2, <2>3
  <1>4. CASE CopyWrite
    <2>1. op' = op /\ quiet' = quiet /\ op.kind = "to_mmio"
      BY <1>4 DEF CopyWrite
    <2> QED
      BY <1>4, <2>1, CopiedTo DEF CopiedInv, ToInv, FromInv
  <1>5. CASE \E o \in Operations, v \in 0 .. RegionWords - 1 : Start(o, v)
    <2>1. op'.kind \notin Copies
      BY <1>5, KindsDiffer DEF Start, Operations
    <2> QED
      BY <2>1, KindsDiffer DEF CopiedInv, ToInv, FromInv
  <1>6. CASE \E kind \in Copies, start \in Offsets, n \in 0 .. MaxLen : StartCopy(kind, start, n)
    <2>1. PICK kind \in Copies, start \in Offsets, n \in 0 .. MaxLen : StartCopy(kind, start, n)
      BY <1>6
    <2>2. at' = 0 /\ buffer' = buffer /\ region' = region /\ op'.start = start
          /\ first' = [region |-> region, buffer |-> buffer]
      BY <2>1 DEF StartCopy
    <2>3. start \in Nat
      BY OffsetFacts
    <2>4. FirstOK'
      BY <2>2 DEF FirstOK, MmioInv, OpInv
    <2>5. \A x \in Offsets : x \notin op'.start .. op'.start + at' - 1
      BY <2>2, <2>3
    <2>6. ToInv'
      BY <2>2, <2>4, <2>5 DEF ToInv, RegionByte
    <2>7. FromInv'
      <3>1. \A j \in 0 .. MaxLen - 1 : ~(j < at')
        BY <2>2
      <3> QED
        BY <2>2, <2>4, <3>1 DEF FromInv
    <2> QED
      BY <2>6, <2>7 DEF CopiedInv
  <1>7. CASE \E v \in 0 .. RegionWords - 1, value \in Patterns : Other(v, value)
    BY <1>7 DEF Other, CopiedInv, ToInv, FromInv
  <1> QED
    BY <1>1, <1>2, <1>3, <1>4, <1>5, <1>6, <1>7 DEF MmioNext, Step

LEMMA CopiedInvariant == MmioSteps => []CopiedInv
  <1>1. MmioInit => CopiedInv
    BY DEF MmioInit, CopiedInv, ToInv, FromInv
  <1> QED
    BY <1>1, CopiedStep, MmioInvariant, PTL DEF MmioSteps

(* At the end of a copy there is nothing left to move. *)
LEMMA CopiedIsExact == MmioInv /\ CopiedInv => CopyIsExact
  <1> SUFFICES ASSUME MmioInv, CopiedInv, op.kind \in Copies, pc = "idle", quiet
               PROVE  CopyIsExact
    BY DEF CopyIsExact, Done
  <1>1. at = op.bytes /\ op.bytes \in Nat /\ op.start \in Nat
    <2>1. len = 0
      BY DEF MmioInv, OpInv
    <2> QED
      BY <2>1, CopyFacts
  <1>2. DOMAIN buffer = 0 .. MaxLen - 1
    BY DEF MmioInv, OpInv
  <1>3. CASE op.kind = "to_mmio"
    BY <1>1, <1>2, <1>3 DEF CopiedInv, ToInv, CopyIsExact
  <1>4. CASE op.kind = "from_mmio"
    BY <1>1, <1>2, <1>4 DEF CopiedInv, FromInv, CopyIsExact
  <1> QED
    BY <1>3, <1>4, KindsDiffer

(* Copies of any length and alignment and settings of any field do what    *)
(* they are for if nobody disturbs them, with the reads they are allowed.  *)
THEOREM OperationsAreExact == MmioSteps => []OperationIsExact
  <1>1. MmioInv /\ CopiedInv /\ CountInv /\ FieldIsSet => OperationIsExact
    BY CopiedIsExact, CountIsFew DEF OperationIsExact
  <1> QED
    BY <1>1, MmioInvariant, CopiedInvariant, CountInvariant, FieldInvariant, PTL

(* Every variable of an operation on registers holds a value of its type,  *)
(* and a copy that goes on has bytes to move and is within its region.     *)
THEOREM MmioTypeCorrect == MmioSteps => []MmioTypeOK
  <1>1. MmioInv => MmioTypeOK
    <2> SUFFICES ASSUME MmioInv PROVE MmioTypeOK
      OBVIOUS
    <2>1. pc # "idle" /\ op.kind \in Copies => len > 0 /\ Index < RegionWords
      <3> SUFFICES ASSUME pc # "idle", op.kind \in Copies
                   PROVE  len > 0 /\ Index < RegionWords
        OBVIOUS
      <3>1. Index \in 0 .. RegionWords - 1 /\ len \in Nat \ {0}
        BY PartFacts DEF MmioInv
      <3>2. RegionWords \in Nat
        BY WordFacts
      <3> QED
        BY <3>1, <3>2
    <2> QED
      BY <2>1 DEF MmioInv, OpInv, MmioTypeOK
  <1> QED
    BY <1>1, MmioInvariant, PTL

-------------------------------------------------------------------------------
(***************************************************************************)
(* The parts beside each other                                             *)
(***************************************************************************)

(* A part starts as it does alone, and moves as it does alone or rests.    *)
LEMMA PartsMove == Spec => LoadSteps /\ HeapSpec /\ MmioSteps /\ MemSpec
  <1>1. Init => LoadInit /\ HeapInit /\ MmioInit /\ MemInit
    BY DEF Init, LoadAtRest, MmioAtRest, MemAtRest
  <1>2. [Next]_vars => [LoadNext]_loadVars
    BY DEF Next, vars
  <1>3. [Next]_vars => [HeapNext]_heapVars
    BY DEF Next, vars
  <1>4. [Next]_vars => [MmioNext]_mmioVars
    BY DEF Next, vars
  <1>5. [Next]_vars => [MemNext]_memVars
    BY DEF Next, vars
  <1> QED
    BY <1>1, <1>2, <1>3, <1>4, <1>5, PTL DEF Spec, LoadSteps, HeapSpec, MmioSteps, MemSpec

(* Every part keeps its types beside the others.                           *)
THEOREM SequentialTypes == Spec => []TypeOK
  <1>1. LoadTypeOK /\ HeapTypeOK /\ MmioTypeOK /\ MemTypeOK => TypeOK
    BY DEF TypeOK
  <1> QED
    BY <1>1, PartsMove, LoadTypesHold, HeapTypeCorrect, MmioTypeCorrect, MemoryTypeCorrect, PTL

(* What the parts promise alone they keep beside the others: the image in  *)
(* the SRAM, the heap, the operations on registers and the functions on    *)
(* memory.                                                                 *)
THEOREM SequentialSafety ==
    Spec => /\ [](ImageLoaded /\ CpuReadsFirstQuarter)
            /\ [](BrkInHeap /\ BlocksApart)
            /\ []OperationIsExact /\ NeighboursKept
            /\ []ResultIsRight
  BY PartsMove, ImageIsLoaded, CpuReadsAQuarter, BreakStaysInHeap, BlocksNeverOverlap,
     OperationsAreExact, RegistersKeepNeighbours, ResultsAreRight, PTL
===============================================================================
