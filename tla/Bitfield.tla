------------------------------- MODULE Bitfield -------------------------------
(***************************************************************************)
(* bitfield.h: fields of a register.  A word is the set of the bits that   *)
(* are 1, so that & is \intersect and | is \union.                         *)
(***************************************************************************)
EXTENDS Integers

CONSTANT WordBits       \* 32

ASSUME WordBitsAssumption == WordBits \in Nat \ {0}

Bits == 0 .. WordBits - 1
Words == SUBSET Bits

(* word << n and word >> n *)
ShiftLeft(word, n) == {b \in Bits : b - n \in word}
ShiftRight(word, n) == {b \in Bits : b + n \in word}

Field(mask, index) == [mask |-> mask, index |-> index]

(* Mutant: bits of the value beyond the mask are kept. *)
FieldWriteUnmasked(bitfield, field, value) ==
    (bitfield \ ShiftLeft(field.mask, field.index)) \union ShiftLeft(value, field.index)

bitfield_field32_read(bitfield, field) ==
    ShiftRight(bitfield, field.index) \intersect field.mask

bitfield_field32_write(bitfield, field, value) ==
    (bitfield \ ShiftLeft(field.mask, field.index))
        \union ShiftLeft(value \intersect field.mask, field.index)

bitfield_bit32_to_field32(bit_index) == Field({0}, bit_index)

bitfield_bit32_read(bitfield, bit_index) ==
    bitfield_field32_read(bitfield, bitfield_bit32_to_field32(bit_index)) = {0}

bitfield_bit32_write(bitfield, bit_index, value) ==
    bitfield_field32_write(bitfield, bitfield_bit32_to_field32(bit_index),
                           IF value THEN {0} ELSE {})

(* The bits of a word that belong to a field. *)
InField(field) == ShiftLeft(field.mask, field.index)

(* "The index plus the width of the mask" stays in the word. *)
Fits(field) == \A b \in field.mask : b + field.index \in Bits
===============================================================================
