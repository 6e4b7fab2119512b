-------------------------------- MODULE Memory --------------------------------
(***************************************************************************)
(* The functions of memory.c, one turn of a loop at a time, on a memory of *)
(* a few bytes.  The operands of memcpy are __restrict: it is called for   *)
(* regions that do not overlap.  Those of memcmp may.                      *)
(***************************************************************************)
EXTENDS Integers

CONSTANTS
    MemSize,    \* bytes of the memory
    ByteMod,    \* 2^8
    Ints        \* values passed as an int

ASSUME MemoryAssumption ==
    /\ MemSize \in Nat /\ ByteMod \in Nat \ {0} /\ ByteMod % 2 = 0
    /\ Ints \subseteq Int

Addresses == 0 .. MemSize - 1
ByteValues == 0 .. ByteMod - 1
NotFound == -1
kMemCmpEq == 0
kMemCmpLt == -42
kMemCmpGt == 42

VARIABLES
    mem,
    call,   \* the function and its arguments
    i,      \* turns made
    returned,
    done,
    before   \* history: the memory at the call

memVars == <<mem, call, i, returned, done, before>>

(* Calls of two operands, and of one operand and a value. *)
InMemory(c) == c.a + c.len <= MemSize /\ c.b + c.len <= MemSize
Apart(c) == c.a + c.len <= c.b \/ c.b + c.len <= c.a
OfTwo == [fn : {"memcpy", "memcmp"}, a : 0 .. MemSize, b : 0 .. MemSize,
          len : 0 .. MemSize, value : {0}]
OfOne == [fn : {"memset", "memchr", "memrchr"}, a : 0 .. MemSize, b : {0},
          len : 0 .. MemSize, value : Ints]

(* What a function returns when its loop ends. *)
AtEnd(c) == CASE c.fn \in {"memcpy", "memset"} -> c.a
              [] c.fn = "memcmp" -> kMemCmpEq
              [] OTHER -> NotFound

MemInit ==
    /\ mem \in [Addresses -> ByteValues]
    /\ call \in {c \in OfTwo \union OfOne : InMemory(c) /\ (c.fn = "memcpy" => Apart(c))}
    /\ i = 0 /\ returned = 0 /\ done = FALSE /\ before = mem

-------------------------------------------------------------------------------
Turn(fn) == ~done /\ call.fn = fn /\ i < call.len
Return(value) == returned' = value /\ done' = TRUE
Value8 == call.value % ByteMod

End ==
    /\ ~done /\ i = call.len
    /\ Return(AtEnd(call))
    /\ UNCHANGED <<mem, call, i, before>>

GoOn == i' = i + 1 /\ UNCHANGED <<call, returned, done, before>>

CopyByte ==
    /\ Turn("memcpy")
    /\ mem' = [mem EXCEPT ![call.a + i] = mem[call.b + i]]
    /\ GoOn

(* Mutant: the pointer stays at the first byte. *)
SetFirst ==
    /\ Turn("memset")
    /\ mem' = [mem EXCEPT ![call.a] = Value8]
    /\ GoOn

(* Mutant: the value is not made a byte. *)
SetInt ==
    /\ Turn("memset")
    /\ mem' = [mem EXCEPT ![call.a + i] = call.value]
    /\ GoOn

Set ==
    /\ Turn("memset")
    /\ mem' = [mem EXCEPT ![call.a + i] = Value8]
    /\ GoOn

Less(x, y) == x < y

Compare ==
    /\ Turn("memcmp")
    /\ LET lhs == mem[call.a + i]
           rhs == mem[call.b + i]
       IN  IF lhs = rhs THEN GoOn
           ELSE /\ Return(IF Less(lhs, rhs) THEN kMemCmpLt ELSE kMemCmpGt)
                /\ UNCHANGED <<call, i, before>>
    /\ UNCHANGED mem

(* memchr counts up and memrchr down. *)
Place == IF call.fn = "memchr" THEN i ELSE call.len - i - 1

Search ==
    /\ Turn("memchr") \/ Turn("memrchr")
    /\ IF mem[call.a + Place] = Value8
       THEN Return(call.a + Place) /\ UNCHANGED <<call, i, before>>
       ELSE GoOn
    /\ UNCHANGED mem

MemNext == End \/ CopyByte \/ Set \/ Compare \/ Search

MemSpec == MemInit /\ [][MemNext]_memVars

-------------------------------------------------------------------------------
MemTypeOK ==
    /\ mem \in [Addresses -> ByteValues]
    /\ i \in 0 .. call.len
    /\ returned \in Addresses \union {MemSize, NotFound, kMemCmpEq, kMemCmpLt, kMemCmpGt}
    /\ done \in BOOLEAN

(* The places of the destination, or of the region looked at. *)
Within(x) == x \in call.a .. call.a + call.len - 1

(* memcpy leaves in its destination what the source held, changes nothing  *)
(* else, and returns the destination ("Copy memory between non-overlapping *)
(* regions", memory.h:98).                                                 *)
CopyCopies ==
    done /\ call.fn = "memcpy" =>
        /\ returned = call.a
        /\ \A x \in Addresses :
             mem[x] = IF Within(x) THEN before[call.b + (x - call.a)] ELSE before[x]

(* memset leaves the low bits of its int in every byte of its region and   *)
(* nowhere else, and returns the region (memory.h:112).                    *)
SetFills ==
    done /\ call.fn = "memset" =>
        /\ returned = call.a
        /\ \A x \in Addresses :
             mem[x] = IF Within(x) THEN call.value % ByteMod ELSE before[x]

(* memcmp tells equal regions from others, and orders others by the first   *)
(* byte in which they differ, as unsigned numbers.                         *)
CompareOrders ==
    done /\ call.fn = "memcmp" =>
        LET differ == {k \in 0 .. call.len - 1 : before[call.a + k] # before[call.b + k]}
        IN  /\ returned = kMemCmpEq <=> differ = {}
            /\ \A k \in differ :
                 (\A j \in differ : k <= j)
                     => (returned = kMemCmpLt <=> before[call.a + k] < before[call.b + k])

(* memchr finds the first and memrchr the last of the bytes looked for,    *)
(* and neither finds anything outside the region.                          *)
SearchFinds ==
    done /\ call.fn \in {"memchr", "memrchr"} =>
        LET found == {x \in call.a .. call.a + call.len - 1 : before[x] = call.value % ByteMod}
        IN  IF found = {} THEN returned = NotFound
            ELSE /\ returned \in found
                 /\ \A x \in found : IF call.fn = "memchr" THEN returned <= x ELSE x <= returned

(* The functions that look at memory leave it as it was.                   *)
LooksOnly == call.fn \in {"memcmp", "memchr", "memrchr"} => mem = before

(* What each of the five functions of memory.c leaves in the memory and    *)
(* returns, for every content, length and pair of regions it is defined    *)
(* for.                                                                    *)
ResultIsRight == CopyCopies /\ SetFills /\ CompareOrders /\ SearchFinds /\ LooksOnly
===============================================================================
