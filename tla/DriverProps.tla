---------------------------- MODULE DriverProps ----------------------------
(***************************************************************************)
(* What a run of the simulator promises to the program it loads, to the    *)
(* files it opens and to its user.                                         *)
(***************************************************************************)
EXTENDS Driver

Loaded == at \in {"list", "simulate", "summary", "profile", "end"}

(* The segments that are loaded, by their place in the table.              *)
Segments == {k \in DOMAIN Elf.phdrs : Loadable(Elf.phdrs[k])}

Covers(ph, a) == \E j \in 1 .. ph.p_filesz : Wrapped(ph.p_vaddr + j - 1) = a

(* The bytes of the argument block: count, pointers and characters.        *)
Block ==
  IF Given(argv) = <<>> THEN {} ELSE ArgBlock .. (ArgBlock + ArgSize(Given(argv)) - 1)

(* Memory is the image of the file: a byte that segments cover is the one  *)
(* of the last of them, whatever the widths and the order in which         *)
(* arguments and segments were written (main.c:80, read_elf.c:40-103), and *)
(* a byte that nothing covers is 0.                                        *)
MemoryIsImage ==
  LET segments == Segments
      block    == Block
  IN  At("simulate") =>
        \A a \in Addr :
          LET over == {k \in segments : Covers(Elf.phdrs[k], a)}
              last == Elf.phdrs[Max(over)]
          IN  IF over # {}
              THEN ByteAt(mem, a) = last.data[Wrapped(a - last.p_vaddr) + 1]
              ELSE a \notin block => ByteAt(mem, a) = 0

(* args_to_main of lib.c:18-22, which the start-up code calls with the     *)
(* address of the block (lib.c:12): argc and argv[k] of the program.       *)
program_argc    == memory_rd_w(mem, ArgBlock)
program_argv(k) == memory_rd_w(mem, ArgBlock + 4 + 4 * k)

(* The program finds the arguments where its start-up code looks for them, *)
(* each a string of its own that ends, although the segments are loaded    *)
(* after they were written (main.c:80); the separator is its argv[0].  A   *)
(* segment that covers the block is the exception.                         *)
ArgumentsArrive ==
  /\ At("simulate")
  /\ Given(argv) # <<>>
  /\ \A a \in Block, k \in Segments : ~ Covers(Elf.phdrs[k], a)
  => /\ program_argc = Len(Given(argv))
     /\ \A k \in DOMAIN Given(argv) :
          LET text == ArgText(Given(argv), k)
          IN  \A j \in DOMAIN text : ByteAt(mem, program_argv(k - 1) + j - 1) = text[j]

(* Nothing runs or is listed from a file that is cut short anywhere, that  *)
(* is no ELF file, or that an option of the same command line truncated    *)
(* (main.c:99, 111, 130 and 133): every check of the loader counts.        *)
OnlyWholePrograms ==
  Loaded => /\ SymbolsRead(Elf)
            /\ \A k \in DOMAIN Elf.phdrs :
                 /\ Elf.phdrs[k].whole
                 /\ Loadable(Elf.phdrs[k]) => ~ ShortSegment(Elf.phdrs[k])

(* When main returns from a simulation every FILE is closed, whichever way *)
(* the options were combined (main.c:157 and 180, read_elf.c:105).  The    *)
(* exception is a log or a profile that a later -l or -p has replaced:     *)
(* nothing closes it (main.c:99 and 111).                                  *)
FilesClosed ==
  at = "end" /\ ~ options.disasm =>
    \A f \in DOMAIN fopened :
      fopened[f].open =>
        /\ fopened[f].use \in {"log", "prof"}
        /\ \E g \in (f + 1) .. Len(fopened) : fopened[g].use = fopened[f].use

(* A simulation that returns leaves its summary in one place: the file of  *)
(* the last -l, or stdout if there is no log (main.c:155-160).  A log that *)
(* a later -l replaced stays empty, and -s makes no difference wherever it *)
(* is (main.c:102-108): its file is never opened.                          *)
SummaryOnce ==
  at = "end" /\ ~ options.disasm =>
    LET logs == {f \in DOMAIN fopened : fopened[f].use = "log"}
    IN  /\ stdout = IF logs = {} THEN <<SummaryLine>> ELSE <<>>
        /\ \A f \in logs :
             fopened[f].text = IF \E g \in logs : g > f THEN <<>> ELSE <<SummaryLine>>

(* A profile that counts branches names the predictor, and the size of its *)
(* table, that did the counting (main.c:116-120, 142 and 164-170): after   *)
(* repeated -b options, with unknown names and sizes that no table has.    *)
ProfileNamesPredictor ==
  at = "end" /\ ~ options.disasm /\ options.prof # 0 /\ sim[2] > 0 =>
    LET text == fopened[options.prof].text
    IN  /\ <<"Predictor", predictor.kind>> \in ToSet(text)
        /\ HasTable(predictor) => <<"Size", predictor.size>> \in ToSet(text)
        /\ ~ HasTable(predictor) => \A l \in ToSet(text) : l[1] # "Size"

(* -d lists the words of the last segment of code, each once and in the    *)
(* order of their addresses (main.c:60).  The first is the one behind the  *)
(* headers of the file, where the code begins in a segment that holds      *)
(* them; a segment from elsewhere in the file (p_offset is not 0) loses as *)
(* many bytes at its start, since nobody asks (read_elf.c:56).  Code up to *)
(* the last word of the address space is left out: addr += 4 wraps there.  *)
ListingCoversCode ==
  at = "end" /\ options.disasm =>
    LET code  == {k \in Segments : "PF_X" \in Elf.phdrs[k].p_flags}
        text  == Elf.phdrs[Max(code)]
        first == text.p_vaddr + EhdrSize + PhdrSize * Len(Elf.phdrs)
    IN  code # {} /\ first \in Addr /\ text.p_vaddr + text.p_filesz + 3 \in Addr =>
          /\ ToSet(listing) = {a \in Addr : Covers(text, a) /\ a >= first /\ (a - first) % 4 = 0}
          /\ \A k \in DOMAIN listing : listing[k] = first + 4 * (k - 1)

(* addr += 4 passes the end of the code by wrapping and starts again.      *)
ListsForever ==
  /\ at = "list"
  /\ info.text_start < info.text_end /\ Aligned(info.text_start, 4)
  /\ info.text_end + 3 \notin Addr

(* Every command line ends on every disk, if simulate() returns: the       *)
(* options are consumed, the segments too, and the listing reaches         *)
(* text_end (main.c:60, 94, read_elf.c:40), unless the code extends to the *)
(* last word of the address space, where the listing never ends.           *)
Ends == <>(at \in {"end", "exit", "crash"} \/ ListsForever)

-----------------------------------------------------------------------------
(* main.c:130 "if (status) exit(status);" and the messages of read_elf: a  *)
(* file that cannot be loaded ends in an exit status.                      *)
FailuresAreReported == at # "crash"

=============================================================================
