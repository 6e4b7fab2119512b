----------------------------- MODULE MCSequential -----------------------------
(***************************************************************************)
(* The sequential parts for TLC: the loader of the test bench and, of the  *)
(* libraries of a program, the heap, the operations on device registers    *)
(* and the functions on memory.  They share no state, so that nothing is   *)
(* lost if one of them moves in a behaviour and the others rest.           *)
(***************************************************************************)
EXTENDS ElfLoad, Heap, Mmio, Memory

(* Files of up to two segments around the boundaries of words, chunks, the *)
(* SRAM and the address, and the ways in which a file can be damaged.      *)
Loadable(addresses, sizes) ==
    [load : {TRUE}, paddr : addresses, filesz : sizes, memsz : {6, 7}, inside : {TRUE}]
Odd == {[load |-> FALSE, paddr |-> 0, filesz |-> 4, memsz |-> 4, inside |-> TRUE],
        [load |-> TRUE, paddr |-> 2, filesz |-> 0, memsz |-> 4, inside |-> TRUE],
        [load |-> TRUE, paddr |-> 2, filesz |-> 0, memsz |-> 0, inside |-> TRUE],
        [load |-> TRUE, paddr |-> 4, filesz |-> 3, memsz |-> 3, inside |-> FALSE]}

Good(segments) == [headers : {"good"}, segments : segments]
MCFiles ==
    Good({<<>>})
    \union Good((Loadable({0, 1, 2, 3, 4, 9, 12, 15, 16, 29, 36}, {1, 2, 3, 4, 5, 6}) \union Odd)
                \X (Loadable({0, 1, 2, 5, 7, 8, 14}, {1, 3, 4, 6}) \union Odd))
    \union [headers : {"unreadable", "truncated"},
            segments : {<<s>> : s \in Loadable({0}, {4})}]

(* Registers of four bytes of one bit. *)
MCPatterns == {{}, {1, 2}}
MCBuffers == {[k \in 0 .. MaxLen - 1 |-> IF k \in {0, 3, 4, 6, 11} THEN {0} ELSE {}]}
MCMasks == {{0, 2}, {0, 1, 2, 3}}
MCValues == {{1}, {0, 1, 3}}

-------------------------------------------------------------------------------
VARIABLE part

vars == <<part, loadVars, heapVars, mmioVars, memVars>>

LoadAtRest == file = [headers |-> "good", segments |-> <<>>] /\ LoadInit
MmioAtRest ==
    /\ region = [w \in 0 .. RegionWords - 1 |-> {}]
    /\ buffer = CHOOSE b \in Buffers : TRUE
    /\ MmioInit
MemAtRest ==
    /\ mem = [x \in Addresses |-> 0]
    /\ call = [fn |-> "memcpy", a |-> 0, b |-> 0, len |-> 0, value |-> 0]
    /\ MemInit

Init ==
    /\ HeapInit
    /\ \/ part = "loader" /\ LoadInit /\ MmioAtRest /\ MemAtRest
       \/ part = "heap" /\ LoadAtRest /\ MmioAtRest /\ MemAtRest
       \/ part = "mmio" /\ LoadAtRest /\ MmioInit /\ MemAtRest
       \/ part = "memory" /\ LoadAtRest /\ MmioAtRest /\ MemInit

Next ==
    \/ part = "loader" /\ LoadNext /\ UNCHANGED <<part, heapVars, mmioVars, memVars>>
    \/ part = "heap" /\ HeapNext /\ UNCHANGED <<part, loadVars, mmioVars, memVars>>
    \/ part = "mmio" /\ MmioNext /\ UNCHANGED <<part, loadVars, heapVars, memVars>>
    \/ part = "memory" /\ MemNext /\ UNCHANGED <<part, loadVars, heapVars, mmioVars>>

(* A sequential program goes on; who else writes the registers need not.   *)
Fairness ==
    /\ WF_vars(part = "loader" /\ LoadNext /\ UNCHANGED <<part, heapVars, mmioVars, memVars>>)
    /\ WF_vars(part = "mmio" /\ Step /\ UNCHANGED <<part, loadVars, heapVars, memVars>>)

Spec == Init /\ [][Next]_vars /\ Fairness

-------------------------------------------------------------------------------
(* The types of every part. *)
TypeOK == LoadTypeOK /\ HeapTypeOK /\ MmioTypeOK /\ MemTypeOK

(* The loops of the loader (PreExec) and of mmio_region_memcpy32 end. *)
LoopsEnd == LoadEnds /\ OperationsEnd
===============================================================================
