--------------------------------- MODULE Mmio ---------------------------------
(***************************************************************************)
(* mmio.h and mmio.c: operations on a region of registers, which a device  *)
(* or an interrupt handler changes as well.  A step of an operation is one *)
(* volatile access; what it computes in between is part of the step.       *)
(***************************************************************************)
EXTENDS Bitfield, FiniteSets

CONSTANTS
    WordBytes,      \* sizeof(uint32_t) = 4
    RegionWords,    \* words of the region
    MaxLen,         \* bound: bytes of a copy
    Patterns,       \* values of words
    Buffers,        \* values of the buffer: byte -> value
    OtherCap,       \* bound: writes of the other party
    Masks, Values   \* arguments of the operations on fields

ASSUME MmioAssumption ==
    /\ WordBytes \in Nat \ {0} /\ RegionWords \in Nat \ {0}
    /\ WordBits % WordBytes = 0 /\ MaxLen \in Nat /\ OtherCap \in Nat
    /\ Buffers \subseteq [0 .. MaxLen - 1 -> SUBSET (0 .. (WordBits \div WordBytes) - 1)]
    /\ Patterns \subseteq Words /\ Masks \subseteq Words /\ Values \subseteq Words

ByteBits == WordBits \div WordBytes
Offsets == 0 .. RegionWords * WordBytes - 1

VARIABLES
    region,     \* word -> value
    op,         \* the operation: kind and arguments
    pc,         \* "idle", "read" or "write": the access that comes next
    offset, at, len,    \* of a copy: in the region, in the buffer, bytes left
    reg,        \* register_value or current_word
    buffer,     \* byte -> value
    result,
    others,     \* number of writes of the other party
    stale,      \* history: the word was changed since it was read
    quiet,      \* history: the region was not changed by others since the start
    first,      \* history: the region and the buffer at the start
    reads       \* history: number of reads of the operation

mmioVars == <<region, op, pc, offset, at, len, reg, buffer, result, others,
          stale, quiet, first, reads>>

(* Byte number k of a word, and the word with that byte replaced. *)
Byte(word, k) == {b \in 0 .. ByteBits - 1 : b + k * ByteBits \in word}
ByteBitsOf(k) == k * ByteBits .. (k + 1) * ByteBits - 1
Replace(word, k, n, bytes) ==   \* bytes at .. at + n - 1 of the buffer
    {b \in Bits : LET j == b \div ByteBits
                  IN  IF j \in k .. k + n - 1
                      THEN b % ByteBits \in bytes[at + j - k] ELSE b \in word}

Smaller(a, b) == IF a < b THEN a ELSE b

Modify == {"clear_mask", "set_mask", "set_field", "clear_bit", "set_bit"}
WriteOnly == {"write_only_set_mask", "write_only_set_field", "write_only_set_bit"}
Read == {"read_mask", "get_bit"}
Copies == {"from_mmio", "to_mmio"}

MmioInit ==
    /\ region \in [0 .. RegionWords - 1 -> Patterns]
    /\ op = [kind |-> "none"] /\ pc = "idle"
    /\ offset = 0 /\ at = 0 /\ len = 0 /\ reg = {} /\ result = {}
    /\ buffer \in Buffers
    /\ others = 0 /\ stale = FALSE /\ quiet = TRUE /\ reads = 0
    /\ first = [region |-> region, buffer |-> buffer]

-------------------------------------------------------------------------------
(* An operation on a field of one word. *)
FieldOf(o) == IF o.kind \in {"clear_bit", "set_bit", "write_only_set_bit", "get_bit"}
              THEN bitfield_bit32_to_field32(o.index) ELSE Field(o.mask, o.index)

ValueOf(o) == CASE o.kind \in {"set_field", "write_only_set_field"} -> o.value
                [] o.kind \in {"clear_mask", "clear_bit"} -> {}
                [] OTHER -> Bits

Start(o, w) ==
    /\ pc = "idle" /\ op.kind = "none"
    /\ op' = o
    /\ offset' = w * WordBytes
    /\ pc' = IF o.kind \in WriteOnly THEN "write" ELSE "read"
    /\ reg' = {}
    /\ first' = [region |-> region, buffer |-> buffer]
    /\ UNCHANGED <<region, at, len, buffer, result, others, stale, quiet, reads>>

Index == offset \div WordBytes

ReadField ==
    /\ pc = "read" /\ op.kind \in Modify \union Read
    /\ reads' = reads + 1
    /\ stale' = FALSE
    /\ reg' = region[Index]
    /\ IF op.kind \in Read
       THEN /\ result' = bitfield_field32_read(region[Index], FieldOf(op))
            /\ pc' = "idle"
       ELSE pc' = "write" /\ UNCHANGED result
    /\ UNCHANGED <<region, op, offset, at, len, buffer, others, quiet, first>>

WriteField ==
    /\ pc = "write" /\ op.kind \in Modify \union WriteOnly
    /\ region' = [region EXCEPT ![Index] = bitfield_field32_write(reg, FieldOf(op), ValueOf(op))]
    /\ pc' = "idle"
    /\ UNCHANGED <<op, offset, at, len, reg, buffer, result, others, stale, quiet, first, reads>>

-------------------------------------------------------------------------------
(* mmio_region_memcpy32 word by word, the first and the last perhaps in part. *)
Misalignment == offset % WordBytes
Part == Smaller(WordBytes - Misalignment, len)

(* A word is read unless all of it is written. *)
NeedsRead(kind, n) == kind = "from_mmio" \/ n # WordBytes

(* How a copy goes on with the word it is at, with left bytes to go. *)
Access(kind, room, left) ==
    IF left = 0 THEN "idle"
    ELSE IF NeedsRead(kind, Smaller(room, left)) THEN "read" ELSE "write"

StartCopy(kind, start, n) ==
    /\ pc = "idle" /\ op.kind = "none"
    /\ start + n <= RegionWords * WordBytes
    /\ op' = [kind |-> kind, start |-> start, bytes |-> n]
    /\ offset' = start /\ at' = 0 /\ len' = n
    /\ reg' = {}
    /\ pc' = Access(kind, WordBytes - (start % WordBytes), n)
    /\ first' = [region |-> region, buffer |-> buffer]
    /\ UNCHANGED <<region, buffer, result, others, stale, quiet, reads>>

(* Mutant: the buffer is always read from its start. *)
AdvanceRegionOnly ==
    /\ offset' = offset + Part /\ at' = at /\ len' = len - Part
    /\ pc' = Access(op.kind, WordBytes, len')

(* What comes after a part: another, or the end. *)
Advance ==
    /\ offset' = offset + Part /\ at' = at + Part /\ len' = len - Part
    /\ pc' = Access(op.kind, WordBytes, len')

(* A word to copy from goes to the buffer at once. *)
CopyRead ==
    /\ pc = "read" /\ op.kind \in Copies
    /\ reads' = reads + 1
    /\ reg' = region[Index]
    /\ stale' = FALSE
    /\ IF op.kind = "from_mmio"
       THEN /\ buffer' = [i \in DOMAIN buffer |->
                            IF i \in at .. at + Part - 1
                            THEN Byte(region[Index], Misalignment + i - at) ELSE buffer[i]]
            /\ Advance
       ELSE pc' = "write" /\ UNCHANGED <<buffer, offset, at, len>>
    /\ UNCHANGED <<region, op, result, others, quiet, first>>

CopyWrite ==
    /\ pc = "write" /\ op.kind = "to_mmio"
    /\ region' = [region EXCEPT ![Index] = Replace(reg, Misalignment, Part, buffer)]
    /\ reg' = {}
    /\ Advance
    /\ UNCHANGED <<op, buffer, result, others, stale, quiet, first, reads>>

-------------------------------------------------------------------------------
(* The device, or an interrupt handler, sets a register. *)
Other(w, value) ==
    /\ others < OtherCap /\ op.kind # "none" /\ pc # "idle"
    /\ region' = [region EXCEPT ![w] = value]
    /\ others' = others + 1
    /\ quiet' = FALSE
    /\ stale' = (stale \/ w = Index)
    /\ UNCHANGED <<op, pc, offset, at, len, reg, buffer, result, first, reads>>

Operations ==
    [kind : Modify \union WriteOnly \union Read, mask : Masks, index : Bits, value : Values]

Step == ReadField \/ WriteField \/ CopyRead \/ CopyWrite

MmioNext ==
    \/ Step
    \/ \E o \in Operations, w \in 0 .. RegionWords - 1 : Start(o, w)
    \/ \E kind \in Copies, start \in Offsets, n \in 0 .. MaxLen : StartCopy(kind, start, n)
    \/ \E w \in 0 .. RegionWords - 1, value \in Patterns : Other(w, value)

MmioSteps == MmioInit /\ [][MmioNext]_mmioVars
MmioSpec == MmioSteps /\ WF_mmioVars(Step)

-------------------------------------------------------------------------------
Done(kinds) == pc = "idle" /\ op.kind \in kinds

MmioTypeOK ==
    /\ region \in [0 .. RegionWords - 1 -> Words]
    /\ pc \in {"idle", "read", "write"}
    /\ offset \in Nat /\ at \in Nat /\ len \in Nat
    /\ reg \in Words /\ result \in Words
    /\ buffer \in [0 .. MaxLen - 1 -> SUBSET (0 .. ByteBits - 1)]
    /\ stale \in BOOLEAN /\ quiet \in BOOLEAN
    /\ (pc # "idle" /\ op.kind \in Copies => len > 0 /\ Index < RegionWords)

(* The bits of the current word an operation may change. *)
Own == IF op.kind \in Copies
       THEN UNION {ByteBitsOf(k) : k \in Misalignment .. Misalignment + Part - 1}
       ELSE InField(FieldOf(op))

(* A write of an operation that has to keep its neighbours changes nothing *)
(* but its field or the bytes it copies, unless another party changed the  *)
(* word between the read and the write: then that change is lost ("a       *)
(* non-atomic read-write-modify operation", mmio.h:203).  A copy keeps the *)
(* rest of the words at its ends ("performing a read-modify-write for the  *)
(* boundary words", mmio.h:371).                                           *)
NeighboursKept ==
    [][pc = "write" /\ op.kind \notin WriteOnly /\ ~stale /\ others' = others =>
         \A w \in DOMAIN region, b \in Bits :
             (b \in region'[w]) # (b \in region[w]) => w = Index /\ b \in Own]_mmioVars

(* With nobody else at the region a copy moves the bytes of its range and  *)
(* changes nothing else, whatever the alignment of its ends.               *)
RegionByte(r, i) == Byte(r[i \div WordBytes], i % WordBytes)
CopyIsExact ==
    Done(Copies) /\ quiet =>
        LET range == op.start .. op.start + op.bytes - 1
            to == op.kind = "to_mmio"
        IN  /\ \A i \in Offsets : RegionByte(region, i) =
                  IF to /\ i \in range THEN first.buffer[i - op.start] ELSE RegionByte(first.region, i)
            /\ \A j \in DOMAIN buffer : buffer[j] =
                  IF ~to /\ j < op.bytes THEN RegionByte(first.region, op.start + j) ELSE first.buffer[j]

(* A field that was set reads as the value, masked.                        *)
FieldIsSet ==
    Done(Modify \union WriteOnly) /\ quiet /\ Fits(FieldOf(op)) =>
        bitfield_field32_read(region[Index], FieldOf(op)) = ValueOf(op) \intersect FieldOf(op).mask

(* A copy from the region reads no word twice ("up to len/4 + 2 volatile   *)
(* reads", mmio.h:356), one to it reads the words at its ends only.        *)
FewReads ==
    op.kind \in Copies =>
        reads <= IF op.kind = "from_mmio" THEN op.bytes \div WordBytes + 2 ELSE 2

(* An operation that nobody disturbs does what it is for, with few reads   *)
(* (reading a register may have an effect of its own).                     *)
OperationIsExact == CopyIsExact /\ FieldIsSet /\ FewReads

(* Every operation ends. *)
OperationsEnd == (pc # "idle") ~> (pc = "idle")
===============================================================================
