------------------------------- MODULE Loader -------------------------------
(***************************************************************************)
(* src/src/read_elf.c over the parts of src/src/elf.h it looks at.  A file *)
(* is what its headers say; "whole" says that a header lies inside the     *)
(* file, and data or content what the file holds where a header points.    *)
(***************************************************************************)
EXTENDS Memory, SequencesExt

CONSTANTS
  EhdrSize, PhdrSize   \* sizeof(Elf32_Ehdr), sizeof(Elf32_Phdr)

ASSUME LoaderAssumption == EhdrSize \in Nat /\ PhdrSize \in Nat

(* e_ident; nothing but the magic number is looked at.                     *)
ElfClass == [ELFCLASSNONE |-> 0, ELFCLASS32 |-> 1, ELFCLASS64 |-> 2]
ElfData  == [ELFDATANONE |-> 0, ELFDATA2LSB |-> 1, ELFDATA2MSB |-> 2]
Ident    == [mag : {"ELFMAG", "other"}, class : Range(ElfClass), data : Range(ElfData)]

(* The types of segments and sections that the format names, without the   *)
(* ranges it leaves to systems and processors.                             *)
SegmentTypes ==
  [PT_NULL |-> 0, PT_LOAD |-> 1, PT_DYNAMIC |-> 2, PT_INTERP |-> 3, PT_NOTE |-> 4,
   PT_SHLIB |-> 5, PT_PHDR |-> 6, PT_TLS |-> 7]
SectionTypes ==
  [SHT_NULL |-> 0, SHT_PROGBITS |-> 1, SHT_SYMTAB |-> 2, SHT_STRTAB |-> 3, SHT_RELA |-> 4,
   SHT_HASH |-> 5, SHT_DYNAMIC |-> 6, SHT_NOTE |-> 7, SHT_NOBITS |-> 8, SHT_REL |-> 9,
   SHT_SHLIB |-> 10, SHT_DYNSYM |-> 11, SHT_INIT_ARRAY |-> 14, SHT_FINI_ARRAY |-> 15,
   SHT_PREINIT_ARRAY |-> 16, SHT_GROUP |-> 17, SHT_SYMTAB_SHNDX |-> 18, SHT_RELR |-> 19]
Flags    == {"PF_X", "PF_W", "PF_R"}

Elf32_Sym == [st_value : Addr, st_info : 0 .. 255, st_name : STRING]

(* p_memsz, the size in memory, is not looked at.                          *)
Elf32_Phdr == [whole : BOOLEAN, p_type : Range(SegmentTypes), p_flags : SUBSET Flags,
               p_offset : Nat, p_vaddr : Addr, p_filesz : Addr, data : Seq(Byte)]

(* The content of a table is short or its entries.                         *)
Elf32_Shdr == [sh_type : Range(SectionTypes), short : BOOLEAN, content : Seq(Elf32_Sym)]

(* A file shorter than a header has nothing else.                          *)
Elf32_Ehdr == [whole : BOOLEAN, e_ident : Ident, e_entry : Addr,
               phdrs : Seq(Elf32_Phdr), sections_whole : BOOLEAN,
               shdrs : Seq(Elf32_Shdr), e_shstrndx : Nat]

(* The two checks of a header.                                             *)
IsElf(f) == f.whole /\ f.e_ident.mag = "ELFMAG"

Wrapped(addr) == addr % (NPages * PageBytes)

-----------------------------------------------------------------------------
(* Stores to be made one after the other: the width, where and what.       *)
WordStore(addr, data) == [wide |-> TRUE, addr |-> addr, data |-> data]

ByteStores(addr, bytes) ==
  [j \in DOMAIN bytes |-> [wide |-> FALSE, addr |-> Wrapped(addr + j - 1), data |-> bytes[j]]]

Stored(m, store) ==
  IF store.wide THEN memory_wr_w(m, store.addr, store.data)
                ELSE memory_wr_b(m, store.addr, store.data)

Loadable(ph) == ph.p_type = SegmentTypes.PT_LOAD

(* fread gives less than p_filesz bytes.                                   *)
ShortSegment(ph) == Len(ph.data) < ph.p_filesz

(* Mutant: the program headers are not counted.                            *)
TextInfo_tight(info, ph, phnum) ==
  IF "PF_X" \in ph.p_flags
  THEN [info EXCEPT !.text_start = Wrapped(ph.p_vaddr + EhdrSize),
                    !.text_end = Wrapped(ph.p_vaddr + ph.p_filesz)]
  ELSE info

(* text_start skips the headers the file starts with, as if every segment  *)
(* of code began at the start of the file.                                 *)
TextInfo(info, ph, phnum) ==
  IF "PF_X" \in ph.p_flags
  THEN [info EXCEPT !.text_start = Wrapped(ph.p_vaddr + EhdrSize + phnum * PhdrSize),
                    !.text_end = Wrapped(ph.p_vaddr + ph.p_filesz)]
  ELSE info

(* Mutant: the file's bytes are stored, not p_filesz of them.              *)
SegmentStores_all(ph) == ByteStores(ph.p_vaddr, ph.data)

SegmentStores(ph) == ByteStores(ph.p_vaddr, SubSeq(ph.data, 1, ph.p_filesz))

-----------------------------------------------------------------------------
(* symbols_read_from_elf: the last symbol table, and the last string table *)
(* that is not the one of the section names; 0 if there is none.           *)
symtab_section(f) == SelectLastInSeq(f.shdrs, LAMBDA s : s.sh_type = SectionTypes.SHT_SYMTAB)

strtab_section(f) ==
  LET candidates == {k \in DOMAIN f.shdrs : /\ f.shdrs[k].sh_type = SectionTypes.SHT_STRTAB
                                            /\ k # f.e_shstrndx + 1}
  IN  IF candidates = {} THEN 0 ELSE Max(candidates)

(* Whether reading ends with a symbol table: nothing is missing, and the   *)
(* table has an entry (fread of none does not return what is asked for).   *)
SymbolsRead(f) ==
  /\ IsElf(f)
  /\ f.sections_whole /\ f.shdrs # <<>>
  /\ symtab_section(f) # 0 /\ strtab_section(f) # 0
  /\ ~ f.shdrs[strtab_section(f)].short
  /\ ~ f.shdrs[symtab_section(f)].short
  /\ f.shdrs[symtab_section(f)].content # <<>>

=============================================================================
