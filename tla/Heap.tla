--------------------------------- MODULE Heap ---------------------------------
(***************************************************************************)
(* The heap of a program: _brk and _sbrk (syscalls.c) move the break       *)
(* between __heap_start and __heap_end of the linker script, newlib's      *)
(* malloc takes its memory from _sbrk, and the operators new and delete of *)
(* heap.cpp are malloc and free.                                           *)
(*                                                                         *)
(* Addresses are words of AddrBits bits; an increment is signed.           *)
(***************************************************************************)
EXTENDS Integers, FiniteSets

CONSTANTS
    HeapStart, HeapEnd, \* __heap_start, __heap_end
    AddrMod,            \* 2^64
    Failed              \* (void *)-1

ASSUME HeapAssumption ==
    /\ HeapStart \in Nat \ {0} /\ HeapEnd \in Nat /\ AddrMod \in Nat
    /\ HeapStart <= HeapEnd
    /\ AddrMod % 2 = 0 /\ 2 * HeapEnd < AddrMod  \* memory is in the lower half
    /\ Failed \notin Int

NULL == 0

(* The increments a ptrdiff_t holds. *)
Increments == -(AddrMod \div 2) .. (AddrMod \div 2) - 1
Sizes == 1 .. (AddrMod \div 2) - 1

VARIABLES
    brk,
    live,   \* the blocks the program has: [addr, size]
    free,   \* the blocks malloc can give again
    ret     \* what the last call returned

heapVars == <<brk, live, free, ret>>

HeapInit == brk = HeapStart /\ live = {} /\ free = {} /\ ret = 0

Sum(incr) == (brk + incr) % AddrMod

(* Mutant: the sum is compared with the heap's end only. *)
SbrkFitsBelow(incr) == Sum(incr) < HeapEnd

(* The test of _sbrk: the break may not reach the heap's end. *)
SbrkFits(incr) == Sum(incr) < HeapEnd /\ Sum(incr) >= HeapStart

(* What _sbrk returns. *)
SbrkReturns(incr) ==
    IF HeapStart = HeapEnd THEN NULL
    ELSE IF SbrkFits(incr) THEN brk ELSE Failed

BrkFits(addr) == addr >= HeapStart /\ addr <= HeapEnd

(* A program without malloc sets the break itself. *)
Brk(addr) ==
    /\ live = {} /\ free = {}
    /\ brk' = IF BrkFits(addr) THEN addr ELSE brk
    /\ ret' = IF BrkFits(addr) THEN 0 ELSE Failed
    /\ UNCHANGED <<live, free>>

Sbrk(incr) ==
    /\ live = {} /\ free = {}
    /\ brk' = IF SbrkFits(incr) THEN Sum(incr) ELSE brk
    /\ ret' = SbrkReturns(incr)
    /\ UNCHANGED <<live, free>>

(* new, new[] and their nothrow forms: a free block if malloc has one that *)
(* is large enough, else a new one at the break.                           *)
NewAgain(size) ==
    \E b \in free :
        /\ b.size >= size
        /\ live' = live \union {b} /\ free' = free \ {b}
        /\ ret' = b.addr
        /\ UNCHANGED brk

(* Mutant: the block starts at the new break. *)
NewGrowsAbove(size) ==
    /\ \A b \in free : b.size < size
    /\ SbrkFits(size)
    /\ brk' = Sum(size)
    /\ live' = live \union {[addr |-> brk', size |-> size]}
    /\ ret' = brk'
    /\ UNCHANGED free

NewGrows(size) ==
    /\ \A b \in free : b.size < size
    /\ SbrkFits(size)
    /\ brk' = Sum(size)
    /\ live' = live \union {[addr |-> SbrkReturns(size), size |-> size]}
    /\ ret' = SbrkReturns(size)
    /\ UNCHANGED free

(* new does not throw: it returns malloc's NULL.  What malloc makes of the *)
(* NULL of a heap without a byte, which is not the value it takes for a    *)
(* failure, is its own affair and left out.                                *)
NewFails(size) ==
    /\ \A b \in free : b.size < size
    /\ SbrkReturns(size) = Failed
    /\ ret' = NULL
    /\ UNCHANGED <<brk, live, free>>

Delete(b) ==
    /\ b \in live
    /\ live' = live \ {b} /\ free' = free \union {b}
    /\ UNCHANGED <<brk, ret>>

(* malloc gives the topmost block back (malloc_trim). *)
Trim(b) ==
    /\ b \in free /\ b.addr + b.size = brk
    /\ SbrkFits(-b.size)
    /\ brk' = Sum(-b.size)
    /\ free' = free \ {b}
    /\ ret' = SbrkReturns(-b.size)
    /\ UNCHANGED live

HeapNext ==
    \/ \E addr \in 0 .. AddrMod - 1 : Brk(addr)
    \/ \E incr \in Increments : Sbrk(incr)
    \/ \E size \in Sizes : NewAgain(size) \/ NewGrows(size) \/ NewFails(size)
    \/ \E b \in live : Delete(b)
    \/ \E b \in free : Trim(b)

HeapSpec == HeapInit /\ [][HeapNext]_heapVars

-------------------------------------------------------------------------------
HeapTypeOK ==
    /\ brk \in Nat
    /\ live \subseteq [addr : Nat, size : Nat \ {0}]
    /\ free \subseteq [addr : Nat, size : Nat \ {0}]
    /\ ret \in {Failed, NULL} \union HeapStart .. HeapEnd

(* The break never leaves the heap, whatever increments and addresses the  *)
(* program asks for: brk + incr is made before it is looked at, and may    *)
(* wrap around.  What is refused is exactly what would reach the heap's    *)
(* end: its last byte can only be had with _brk (_sbrk, _brk).             *)
BrkInHeap ==
    /\ brk \in HeapStart .. HeapEnd
    /\ \A size \in Sizes : SbrkFits(size) <=> brk + size < HeapEnd

(* The blocks of the program and of malloc are below the break and do not  *)
(* overlap, though the break also moves down again, and none is given out  *)
(* twice.                                                                  *)
BlocksApart ==
    /\ live \intersect free = {}
    /\ \A b \in live \union free :
         /\ HeapStart <= b.addr /\ b.addr + b.size <= brk
         /\ \A c \in live \union free :
              b # c => b.addr + b.size <= c.addr \/ c.addr + c.size <= b.addr
===============================================================================
