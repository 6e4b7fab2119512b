------------------------------- MODULE ElfLoad --------------------------------
(***************************************************************************)
(* Loading an ELF file into the SRAM: TbElfLoader reads the segments into  *)
(* the map mems and the list sections, PreExec takes the sections one by   *)
(* one and cuts them into chunks, tb_loadChunk writes a chunk word by word *)
(* into the array of the SRAM, and the CPU reads it through the memory     *)
(* subsystem's address.                                                    *)
(*                                                                         *)
(* A byte is the place it comes from: <<j, k>> is byte k of segment j.     *)
(***************************************************************************)
EXTENDS Integers, Sequences, FiniteSetsExt

CONSTANTS
    Files,          \* the ELF files
    RamWordBytes,      \* bytes of a memory word (8)
    ChunkBytes,     \* SectionChunkLength (256)
    RamWords,       \* words of the SRAM (8192)
    CpuBytes,       \* bytes of the memory subsystem's address (2^14)
    AddrSpace       \* tb_loadChunk's addr is 32 bits wide (2^32)

ASSUME SizesAssumption ==
    /\ {RamWordBytes, ChunkBytes, RamWords, CpuBytes, AddrSpace} \subseteq Nat \ {0}
    /\ ChunkBytes % RamWordBytes = 0 /\ AddrSpace % RamWordBytes = 0
    /\ RamWordBytes <= CpuBytes /\ RamWords * RamWordBytes <= AddrSpace

(* The fields of a program header; a segment that were longer than the     *)
(* address space would be written over itself.                             *)
ASSUME FilesAssumption ==
    \A f \in Files :
        /\ f.headers \in {"good", "truncated", "unreadable"}
        /\ f.segments \in Seq([load : BOOLEAN, paddr : Nat, filesz : 0 .. AddrSpace,
                               memsz : Nat, inside : BOOLEAN])

(* A byte no segment has: what the SRAM held, and the filling of a chunk. *)
Old == <<0, 0>>
Zero == <<0, 1>>

VARIABLES
    file,       \* headers: what read_elf and load_elf find wrong, or "good"
                \* segments: <<[load, paddr, filesz, memsz, inside], ...>>
    loader,
    next,       \* the next program header
    mems,       \* address -> bytes
    sections,   \* addresses
    index,      \* section_index
    base, secLen,  \* the section being loaded
    secOffset,     \* its next chunk
    sram

loadVars == <<file, loader, next, mems, sections, index, base, secLen, secOffset, sram>>

Segments == file.segments

LoadInit ==
    /\ file \in Files
    /\ loader = "read_elf" /\ next = 1
    /\ mems = [a \in {} |-> <<>>] /\ sections = <<>> /\ index = 0
    /\ base = 0 /\ secLen = 0 /\ secOffset = 0
    /\ sram = [w \in 0 .. RamWords - 1 |-> [k \in 0 .. RamWordBytes - 1 |-> Old]]

(* No file, a file too small for a header, no signature: PreExec exits. *)
ReadElfFails ==
    /\ loader = "read_elf" /\ file.headers = "unreadable"
    /\ loader' = "failed"
    /\ UNCHANGED <<file, next, mems, sections, index, base, secLen, secOffset, sram>>

(* Program headers beyond the end of the file are reported and no error is *)
(* returned.                                                               *)
ReadElf ==
    /\ loader = "read_elf" /\ file.headers # "unreadable"
    /\ loader' = IF file.headers = "truncated" THEN "sections" ELSE "segments"
    /\ UNCHANGED <<file, next, mems, sections, index, base, secLen, secOffset, sram>>

SegmentBytes(j) == [k \in 1 .. Segments[j].filesz |-> <<j, k - 1>>]

(* TbElfLoader::write: map::insert keeps what is there already. *)
Write(address, bytes) ==
    [a \in DOMAIN mems \union {address} |-> IF a \in DOMAIN mems THEN mems[a] ELSE bytes]

(* A segment that takes memory and has bytes in the file is a section; the *)
(* assertion stops the program when they are not all in the file.          *)
LoadSegment ==
    /\ loader = "segments" /\ next <= Len(Segments)
    /\ LET ph == Segments[next]
           section == ph.load /\ ph.memsz > 0 /\ ph.filesz > 0
       IN  IF section /\ ~ph.inside
           THEN loader' = "aborted" /\ UNCHANGED <<next, mems, sections>>
           ELSE /\ next' = next + 1
                /\ mems' = IF section THEN Write(ph.paddr, SegmentBytes(next)) ELSE mems
                /\ sections' = IF section THEN Append(sections, ph.paddr) ELSE sections
                /\ UNCHANGED loader
    /\ UNCHANGED <<file, index, base, secLen, secOffset, sram>>

(* Whatever the section headers look like, nothing is kept of them. *)
SectionHeaders ==
    /\ loader = "segments" /\ next > Len(Segments)
    /\ loader' = "sections"
    /\ UNCHANGED <<file, next, mems, sections, index, base, secLen, secOffset, sram>>

(* get_section: the length is that of the bytes in mems. *)
GetSection ==
    /\ loader = "sections" /\ index < Len(sections)
    /\ index' = index + 1
    /\ base' = sections[index + 1]
    /\ secLen' = IF base' \in DOMAIN mems THEN Len(mems[base']) ELSE 0
    /\ secOffset' = 0
    /\ loader' = "chunks"
    /\ UNCHANGED <<file, next, mems, sections, sram>>

Loaded ==
    /\ loader = "sections" /\ index = Len(sections)
    /\ loader' = "loaded"
    /\ UNCHANGED <<file, next, mems, sections, index, base, secLen, secOffset, sram>>

(* read_section_chunk into a buffer of zeros. *)
InSection(start, n) == base \in DOMAIN mems /\ start + n <= Len(mems[base])
ReadSectionChunk(start, n) ==
    [i \in 0 .. ChunkBytes - 1 |-> IF i < n THEN mems[base][start + i + 1] ELSE Zero]

(* The bytes between the word an address falls into and the word w. *)
From(address, w) ==
    ((w - (address % AddrSpace) \div RamWordBytes) % (AddrSpace \div RamWordBytes)) * RamWordBytes

(* Mutant: the last, incomplete word is not written. *)
LoadChunkShort(address, chunk, n) ==
    [w \in DOMAIN sram |->
        LET i == From(address, w)
        IN  IF i \in 0 .. n - RamWordBytes
            THEN [k \in 0 .. RamWordBytes - 1 |-> chunk[i + k]] ELSE sram[w]]

(* tb_loadChunk: whole words, from the word address falls into; words that *)
(* the SRAM does not have are lost.                                        *)
LoadChunk(address, chunk, n) ==
    [w \in DOMAIN sram |->
        LET i == From(address, w)
        IN  IF i \in 0 .. n - 1
            THEN [k \in 0 .. RamWordBytes - 1 |-> chunk[i + k]] ELSE sram[w]]

(* Mutant: a chunk ends one byte early, and the offset grows by its length. *)
LoadChunksForever ==
    /\ loader = "chunks"
    /\ LET n == Min({ChunkBytes, secLen - secOffset - 1})
       IN  IF secOffset >= secLen
           THEN loader' = "sections" /\ UNCHANGED <<secOffset, sram>>
           ELSE /\ sram' = LoadChunk(base + secOffset, ReadSectionChunk(secOffset, n), n)
                /\ secOffset' = secOffset + n
                /\ UNCHANGED loader
    /\ UNCHANGED <<file, next, mems, sections, index, base, secLen>>

(* One turn of PreExec's loop over the chunks of a section. *)
LoadChunks ==
    /\ loader = "chunks"
    /\ LET n == Min({ChunkBytes, secLen - secOffset})
       IN  IF secOffset >= secLen
           THEN loader' = "sections" /\ UNCHANGED <<secOffset, sram>>
           ELSE IF InSection(secOffset, n)
           THEN /\ sram' = LoadChunk(base + secOffset, ReadSectionChunk(secOffset, n), n)
                /\ secOffset' = secOffset + ChunkBytes
                /\ UNCHANGED loader
           ELSE loader' = "failed" /\ UNCHANGED <<secOffset, sram>>
    /\ UNCHANGED <<file, next, mems, sections, index, base, secLen>>

LoadNext == \/ ReadElfFails \/ ReadElf \/ LoadSegment \/ SectionHeaders
        \/ GetSection \/ Loaded \/ LoadChunks

LoadSteps == LoadInit /\ [][LoadNext]_loadVars
LoadSpec == LoadSteps /\ WF_loadVars(LoadNext)

-------------------------------------------------------------------------------
(***************************************************************************)
(* The image the file describes.                                           *)
(***************************************************************************)
Bytes == {Old, Zero} \union UNION {{<<j, k>> : k \in 0 .. Segments[j].filesz - 1} :
                                   j \in DOMAIN Segments}

IsSection(j) ==
    /\ file.headers = "good" /\ Segments[j].load
    /\ Segments[j].memsz > 0 /\ Segments[j].filesz > 0

(* The first of the sections with the address of a section. *)
First(j) == CHOOSE i \in 1 .. j :
    /\ IsSection(i) /\ Segments[i].paddr = Segments[j].paddr
    /\ \A h \in 1 .. i - 1 : IsSection(h) => Segments[h].paddr # Segments[j].paddr

(* The sections that are written to a word: one whose address another has  *)
(* writes the bytes of the first once more.                                *)
Covers(j, w) == From(Segments[j].paddr, w) < Segments[j].filesz
Writers(w) == {j \in DOMAIN Segments : IsSection(j) /\ Covers(First(j), w)}
LastWriter(w) == First(CHOOSE j \in Writers(w) : \A i \in Writers(w) : i <= j)

ImageWord(w) ==
    [k \in 0 .. RamWordBytes - 1 |->
        IF Writers(w) = {} THEN Old
        ELSE LET j == LastWriter(w)
                 n == From(Segments[j].paddr, w) + k
             IN  IF n < Segments[j].filesz THEN <<j, n>> ELSE Zero]

(* The segments start at word boundaries, and none is written over another. *)
WellLaidOut ==
    /\ file.headers = "good"
    /\ \A j \in DOMAIN Segments : IsSection(j) =>
        /\ Segments[j].paddr % RamWordBytes = 0
        /\ \A i \in DOMAIN Segments \ {j}, w \in DOMAIN sram :
              IsSection(i) => ~(Covers(i, w) /\ Covers(j, w))

InRam(a) == a < RamWords * RamWordBytes

(* The byte the CPU reads: the memory subsystem leaves the address two     *)
(* bits short.                                                             *)
CpuByte(a) == sram[(a % CpuBytes) \div RamWordBytes][a % RamWordBytes]

-------------------------------------------------------------------------------
(***************************************************************************)
(* Properties.                                                             *)
(***************************************************************************)
LoadTypeOK ==
    /\ loader \in {"read_elf", "segments", "sections", "chunks", "loaded", "failed", "aborted"}
    /\ next \in 1 .. Len(Segments) + 1
    /\ \A j \in DOMAIN sections : sections[j] \in DOMAIN mems
    /\ index \in 0 .. Len(sections)
    /\ secLen \in Nat /\ secOffset \in Nat
    /\ sram \in [0 .. RamWords - 1 -> [0 .. RamWordBytes - 1 -> Bytes]]

(* When the loader is through, the SRAM holds the image: in every word the *)
(* bytes of the last segment written there, zeros behind its end, and what *)
(* was there before where no segment is.  A segment with the address of an *)
(* earlier one is not there at all (write), one that starts within a word  *)
(* is found from the start of the word (tb_loadChunk).                     *)
ImageLoaded == loader = "loaded" => \A w \in DOMAIN sram : sram[w] = ImageWord(w)

(* A file whose segments are in it is loaded to its end: the loops over    *)
(* segments and chunks stop, and no chunk is asked for that                *)
(* read_section_chunk refuses (load_elf, PreExec).                         *)
LoadEnds ==
    (loader \in {"segments", "sections", "chunks"})
        ~> (loader \in {"loaded", "aborted"})

(* The CPU finds every byte of a well laid out file that is in the SRAM at *)
(* its address: the comment on the width of the address is "64 KB SRAM     *)
(* (8192 words * 8 bytes/word)" (memory_subsystem.sv:25), and link.ld      *)
(* 18-24 places code and data in all of it.                                *)
CpuReadsImage ==
    loader = "loaded" /\ WellLaidOut =>
        \A j \in DOMAIN Segments : IsSection(j) =>
            \A k \in 0 .. Segments[j].filesz - 1 :
                LET a == Segments[j].paddr + k
                IN  InRam(a) => CpuByte(a) = <<j, k>>
===============================================================================
