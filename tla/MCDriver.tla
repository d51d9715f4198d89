------------------------------ MODULE MCDriver ------------------------------
EXTENDS DriverProps

(* Argument strings of 0, 1 and 2 characters; sizes that a table has and   *)
(* sizes that none has.                                                    *)
MCChars == "--" :> <<1, 1>> @@ "" :> <<>> @@ "a" :> <<2>> @@ "bc" :> <<3, 1>>
MCAtoi  == "2" :> 2 @@ "3" :> 3 @@ "4" :> 4 @@ "junk" :> 0

Sim(opts) == <<"sim", "prog">> \o opts

MCCommandLines ==
  { <<"sim">>, <<"sim", "--", "a">>, Sim(<<>>),
    Sim(<<"--">>), Sim(<<"--", "a", "", "bc">>), Sim(<<"-d">>), Sim(<<"-d", "-l", "log">>),
    Sim(<<"-l", "log", "--", "bc", "a">>), Sim(<<"-l", "log", "-l", "log2">>), Sim(<<"-l">>),
    Sim(<<"-s", "sum">>), Sim(<<"-l", "log", "-s", "sum">>), Sim(<<"-s">>), Sim(<<"-x">>), Sim(<<"-l", "prog">>),
    Sim(<<"-p", "prof">>), Sim(<<"-p", "prof", "-p", "prof2", "-b", "nt">>), Sim(<<"-p", "--", "a">>),
    Sim(<<"-b", "gshare", "4", "-p", "prof">>), Sim(<<"-b", "gshare", "3", "-p", "prof">>),
    Sim(<<"-b", "bimodal", "4", "-b", "btfnt", "-p", "prof", "-l", "log">>),
    Sim(<<"-b", "bimodal", "4", "-b", "gshare", "2", "-p", "prof">>),
    Sim(<<"-p", "prof", "-b", "bimodal">>), Sim(<<"-b">>), Sim(<<"-b", "bimodal", "junk">>),
    Sim(<<"-b", "oracle", "-p", "prof">>) }

Phdr(flags, offset, vaddr, filesz, data) ==
  [whole |-> TRUE, p_type |-> SegmentTypes.PT_LOAD, p_flags |-> flags, p_offset |-> offset,
   p_vaddr |-> vaddr, p_filesz |-> filesz, data |-> data]

Bytes(n, b) == [k \in 1 .. n |-> (b + k) % ByteBase]

(* Headers of 4 and 4 bytes come first in the file.                        *)
Code    == Phdr({"PF_X", "PF_R"}, 0, 16, 22, Bytes(22, 0))
Data    == Phdr({"PF_W", "PF_R"}, 22, 44, 6, Bytes(9, 2))
Overlay == Phdr({"PF_X", "PF_R"}, 22, 30, 9, Bytes(9, 1))
OnArgs  == Phdr({"PF_W", "PF_R"}, 22, 62, 5, Bytes(5, 2))
Moved   == Phdr({"PF_X", "PF_R"}, 22, 32, 19, Bytes(19, 3))
AtEnd   == Phdr({"PF_X", "PF_R"}, 0, 236, 20, Bytes(20, 0))
Odd     == Phdr({"PF_X", "PF_R"}, 0, 237, 18, Bytes(18, 0))
Note    == [Phdr({}, 22, 0, 5, Bytes(5, 1)) EXCEPT !.p_type = SegmentTypes.PT_NOTE]
AtTop   == Phdr({"PF_W", "PF_R"}, 22, 254, 4, Bytes(4, 0))

Table(type, content) == [sh_type |-> type, short |-> FALSE, content |-> content]
Symtab == Table(SectionTypes.SHT_SYMTAB, << [st_value |-> 16, st_info |-> 18, st_name |-> "main"] >>)
Names  == Table(SectionTypes.SHT_STRTAB, <<>>)

RiscV == [mag |-> "ELFMAG", class |-> ElfClass.ELFCLASS32, data |-> ElfData.ELFDATA2LSB]

File(phdrs) ==
  [whole |-> TRUE, e_entry |-> 24, e_ident |-> RiscV,
   phdrs |-> phdrs, sections_whole |-> TRUE,
   shdrs |-> <<Names, Symtab, Names>>, e_shstrndx |-> 0]

(* Good files, and files that fail at each check in turn.                  *)
Programs ==
  { File(<<Code, Data>>), File(<<Data, Moved>>), File(<<Code, Data, Overlay>>), File(<<Note, Code, OnArgs, AtTop>>),
    File(<<>>), File(<<AtEnd>>), File(<<Odd>>),
    Empty, [Empty EXCEPT !.whole = TRUE],
    [File(<<Note, Note>>) EXCEPT !.e_ident.class = ElfClass.ELFCLASS64],
    File(<<Code, [Data EXCEPT !.whole = FALSE]>>), File(<<Code, [Data EXCEPT !.p_filesz = 10]>>),
    [File(<<Code>>) EXCEPT !.sections_whole = FALSE], [File(<<Code>>) EXCEPT !.shdrs = <<>>],
    [File(<<Code>>) EXCEPT !.shdrs = <<Names, Names>>],
    [File(<<Code>>) EXCEPT !.shdrs = <<Names, Symtab>>],
    [File(<<Code>>) EXCEPT !.shdrs[3].short = TRUE],
    [File(<<Code>>) EXCEPT !.shdrs[2].short = TRUE],
    [File(<<Code>>) EXCEPT !.shdrs[2].content = <<>>] }

MCDisks == {[name \in {} |-> Empty]} \cup {"prog" :> f : f \in Programs}

=============================================================================
