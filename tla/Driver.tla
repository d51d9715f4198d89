------------------------------- MODULE Driver -------------------------------
(***************************************************************************)
(* A run of the program: main() of src/src/main.c with the loader and the  *)
(* predictors it composes.  argv counts from 1 here: argv[k + 1] is the    *)
(* C's argv[k], and i is the C's index.                                    *)
(*                                                                         *)
(* simulate() is its outcome, an exit or a count of instructions and       *)
(* statistics (the modules Simulate and BranchPredictor show which); the   *)
(* text of messages is left out.                                           *)
(***************************************************************************)
EXTENDS Loader, Predictors

CONSTANTS
  CommandLines,   \* the command lines: sequences of strings, argv[0] first
  Disks,          \* the file systems: functions from names to ELF files
  Chars,          \* Chars[s]: the bytes of an argument string
  Atoi,           \* Atoi[s]: what atoi makes of it
  ArgBlock,       \* 0x1000000, where the arguments are put
  MaxInsns        \* bound on the instructions simulate() counts

ASSUME DriverAssumption ==
  /\ \A c \in CommandLines : c \in Seq(STRING) /\ c # <<>>
  /\ \A d \in Disks : \A name \in DOMAIN d : d[name] \in Elf32_Ehdr
  /\ ArgBlock \in Addr /\ ArgBlock % 4 = 0

VARIABLES
  at,        \* where main is
  argv, argc,
  i,         \* index of the loop main is in
  disk,      \* the files
  mem,
  todo,      \* the stores that a loop of main or read_elf has still to make
  fopened,   \* every FILE so far: [use, name, open, text]
  options,   \* log_file, prof_file (indexes into fopened, 0 is NULL),
             \* disasm_only, pred_name, pred_size
  info,      \* struct program_info
  listing,   \* the addresses disassemble_to_stdout has printed
  predictor, sim,   \* what build_predictor and simulate() returned
  stdout,    \* what main printed there
  exit       \* the exit status, once there is one

vars == <<at, argv, argc, i, disk, mem, todo, fopened, options, info, listing,
          predictor, sim, stdout, exit>>

args  == <<argv, argc>>
files == <<disk, fopened>>
ram   == <<mem, todo>>
late  == <<listing, predictor, sim, stdout>>

NoInfo == [text_start |-> 0, text_end |-> 0, start |-> 0]

Init ==
  /\ at = "args"
  /\ argv \in CommandLines
  /\ argc = Len(argv)
  /\ i = 1
  /\ disk \in Disks
  /\ mem = memory_create
  /\ todo = <<>>
  /\ fopened = <<>>
  /\ options = [log |-> 0, prof |-> 0, disasm |-> FALSE, name |-> "none", size |-> 0]
  /\ info = NoInfo
  /\ listing = <<>>
  /\ predictor = NoPredictor
  /\ sim = <<>>
  /\ stdout = <<>>
  /\ exit = 0

At(place) == at = place /\ todo = <<>>

Exit(status) == at' = "exit" /\ exit' = status

(* terminate(): the usage, and exit(-1).                                   *)
Usage == Exit(-1) /\ UNCHANGED <<i, options, files>>

-----------------------------------------------------------------------------
(* pass_args_to_program: from the separator on, itself included, a count,  *)
(* a pointer for each argument, then their characters.                     *)
ArgText(given, k) == Append(Chars[given[k]], 0)

ArgAt(given, str, k) == str + SumFunction([l \in 1 .. (k - 1) |-> Len(ArgText(given, l))])

ArgStores(given, str) ==
  <<WordStore(ArgBlock, Len(given))>>
    \o FlattenSeq([k \in DOMAIN given |->
         <<WordStore(ArgBlock + 4 * k, ArgAt(given, str, k))>>
           \o ByteStores(ArgAt(given, str, k), ArgText(given, k))])

(* Mutant: no room is left for the pointers of all arguments.              *)
WithArgs_tight(given) == ArgStores(given, ArgBlock + 4 * Len(given))

WithArgs(given) == ArgStores(given, ArgBlock + 4 + 4 * Len(given))

Separator(line) == SelectInSeq(Tail(line), LAMBDA s : s = "--")

Given(line) ==
  IF Separator(line) = 0 THEN <<>> ELSE SubSeq(line, Separator(line) + 1, Len(line))

ArgSize(given) == 4 + SumFunction([k \in DOMAIN given |-> 4 + Len(ArgText(given, k))])

(* The host limits the length of a command line far below the room behind  *)
(* the block; a pointer fits in a word.                                    *)
ASSUME ArgumentsFit ==
  /\ \A line \in CommandLines :
       /\ \A k \in DOMAIN Given(line) : Chars[Given(line)[k]] \in Seq(Byte)
       /\ ArgBlock + ArgSize(Given(line)) <= NPages * PageBytes
  /\ NPages * PageBytes <= WordMod

PassArgs ==
  /\ At("args")
  /\ todo' = IF Separator(argv) = 0 THEN <<>> ELSE WithArgs(Given(argv))
  /\ argc' = Len(argv) - Len(Given(argv))
  /\ IF argc' < 2
     THEN Usage
     ELSE at' = "options" /\ i' = 2 /\ UNCHANGED <<options, files, exit>>
  /\ UNCHANGED <<argv, mem, info, late>>

(* The loops that store: nothing else happens before they are done.        *)
StoreNext ==
  /\ todo # <<>>
  /\ mem' = Stored(mem, Head(todo))
  /\ todo' = Tail(todo)
  /\ UNCHANGED <<at, args, i, files, options, info, late, exit>>

-----------------------------------------------------------------------------
Empty == [whole |-> FALSE, e_entry |-> 0,
          e_ident |-> [mag |-> "other", class |-> ElfClass.ELFCLASSNONE, data |-> ElfData.ELFDATANONE],
          phdrs |-> <<>>,
          sections_whole |-> FALSE, shdrs |-> <<>>, e_shstrndx |-> 0]

(* The file of an option is created or truncated before the program's file *)
(* is read.                                                                *)
Truncate(name) ==
  disk' = [n \in {name} \cup DOMAIN disk |-> IF n = name THEN Empty ELSE disk[n]]

Opened(use, name) == [use |-> use, name |-> name, open |-> TRUE, text |-> <<>>]

Option(flag) == At("options") /\ i < argc /\ argv[i + 1] = flag

Operand == argv[i + 2]

(* Mutant: the increment of the loop itself is forgotten.                  *)
Take_short(n) == i' = i + n - 1 /\ UNCHANGED <<at, exit>>

Take(n) == i' = i + n /\ UNCHANGED <<at, exit>>

Disassemble ==
  /\ Option("-d")
  /\ options' = [options EXCEPT !.disasm = TRUE]
  /\ Take(1)
  /\ UNCHANGED <<args, files, ram, info, late>>

(* -l and -p: the operand is opened for writing, or cannot be.             *)
OpenFor(flag, use) ==
  /\ Option(flag)
  /\ \/ i + 1 >= argc /\ Usage
     \/ i + 1 < argc /\ Usage
     \/ /\ i + 1 < argc
        /\ fopened' = Append(fopened, Opened(use, Operand))
        /\ options' = [options EXCEPT ![use] = Len(fopened')]
        /\ Truncate(Operand)
        /\ Take(2)
  /\ UNCHANGED <<args, ram, info, late>>

Log     == OpenFor("-l", "log")
Profile == OpenFor("-p", "prof")

(* -s: its operand is skipped.                                             *)
Summary ==
  /\ Option("-s")
  /\ IF i + 1 >= argc THEN Usage ELSE Take(2) /\ UNCHANGED <<options, files>>
  /\ UNCHANGED <<args, ram, info, late>>

Sized(name) == name \in {"bimodal", "gshare"}

(* Only the predictors with a table have a size; the size of an earlier -b *)
(* stays.                                                                  *)
Predictor ==
  /\ Option("-b")
  /\ IF i + 1 >= argc \/ (Sized(Operand) /\ i + 2 >= argc)
     THEN Usage
     ELSE /\ options' = [options EXCEPT
                           !.name = Operand,
                           !.size = IF Sized(Operand) THEN Atoi[argv[i + 3]] ELSE @]
          /\ Take(IF Sized(Operand) THEN 3 ELSE 2)
          /\ UNCHANGED files
  /\ UNCHANGED <<args, ram, info, late>>

UnknownOption ==
  /\ At("options") /\ i < argc
  /\ argv[i + 1] \notin {"-d", "-l", "-s", "-p", "-b"}
  /\ Usage
  /\ UNCHANGED <<args, ram, info, late>>

-----------------------------------------------------------------------------
Elf == disk[argv[2]]

(* A FILE that read_elf or symbols_read_from_elf opened, used and left     *)
(* open or not.                                                            *)
Read(open) == Append(fopened, [Opened("elf", argv[2]) EXCEPT !.open = open])

(* An error of read_elf is written to log_file, which is NULL without -l:  *)
(* the process dies in fprintf.                                            *)
Fail == IF options.log = 0 THEN at' = "crash" /\ UNCHANGED exit ELSE Exit(-1)

(* The file may not open, and does not if it does not exist.               *)
OpenElf ==
  /\ At("options") /\ i = argc
  /\ \/ Fail /\ UNCHANGED <<fopened, i, info>>
     \/ /\ argv[2] \in DOMAIN disk /\ ~ IsElf(Elf)
        /\ Fail /\ fopened' = Read(FALSE) /\ UNCHANGED <<i, info>>
     \/ /\ argv[2] \in DOMAIN disk /\ IsElf(Elf)
        /\ fopened' = Read(TRUE)
        /\ info' = [NoInfo EXCEPT !.start = Elf.e_entry]
        /\ i' = 0
        /\ at' = "segments"
        /\ UNCHANGED exit
  /\ UNCHANGED <<args, disk, ram, options, late>>

Segment == Elf.phdrs[i + 1]

CloseElf == fopened' = [fopened EXCEPT ![Len(fopened)].open = FALSE]

(* Reading one program header and, if it is loadable, its segment; malloc  *)
(* may fail, and a segment that is short leaves the file open.             *)
LoadSegment ==
  /\ At("segments") /\ i < Len(Elf.phdrs)
  /\ \/ /\ ~ Segment.whole
        /\ Fail /\ CloseElf /\ UNCHANGED <<todo, info, i>>
     \/ /\ Segment.whole /\ ~ Loadable(Segment)
        /\ i' = i + 1
        /\ UNCHANGED <<at, exit, fopened, todo, info>>
     \/ /\ Segment.whole /\ Loadable(Segment)
        /\ info' = TextInfo(info, Segment, Len(Elf.phdrs))
        /\ \/ Fail /\ CloseElf /\ UNCHANGED <<todo, i>>
           \/ /\ ShortSegment(Segment)
              /\ Fail /\ UNCHANGED <<fopened, todo, i>>
           \/ /\ ~ ShortSegment(Segment)
              /\ todo' = SegmentStores(Segment)
              /\ i' = i + 1
              /\ UNCHANGED <<at, exit, fopened>>
  /\ UNCHANGED <<args, disk, mem, options, late>>

(* Mutant: a file without symbols is simulated with none.                  *)
ReadSymbols_optional ==
  /\ At("segments") /\ i = Len(Elf.phdrs)
  /\ fopened' = Append([fopened EXCEPT ![Len(fopened)].open = FALSE],
                       [Opened("elf", argv[2]) EXCEPT !.open = FALSE])
  /\ at' = IF options.disasm THEN "list" ELSE "simulate"
  /\ UNCHANGED exit
  /\ UNCHANGED <<args, i, disk, ram, options, info, late>>

(* read_elf is done and closes; symbols_read_from_elf opens and closes the *)
(* file once more, if it still opens, and without symbols nothing is run.  *)
ReadSymbols ==
  /\ At("segments") /\ i = Len(Elf.phdrs)
  /\ \/ CloseElf /\ Exit(-1)
     \/ /\ fopened' = Append([fopened EXCEPT ![Len(fopened)].open = FALSE],
                             [Opened("elf", argv[2]) EXCEPT !.open = FALSE])
        /\ IF ~ SymbolsRead(Elf)
           THEN Exit(-1)
           ELSE /\ at' = IF options.disasm THEN "list" ELSE "simulate"
                /\ UNCHANGED exit
  /\ UNCHANGED <<args, i, disk, ram, options, info, late>>

-----------------------------------------------------------------------------
(* disassemble_to_stdout, a line an iteration, then main returns 0.        *)
List ==
  /\ At("list")
  /\ LET addr == Wrapped(info.text_start + 4 * Len(listing))
     IN  IF addr >= info.text_end
         THEN at' = "end" /\ UNCHANGED <<listing, mem, exit>>
         ELSE IF ~ Aligned(addr, 4) THEN Exit(-1) /\ UNCHANGED <<listing, mem>>
         ELSE /\ listing' = Append(listing, addr)
              /\ mem' = get_page(mem, addr)
              /\ UNCHANGED <<at, exit>>
  /\ UNCHANGED <<args, i, files, todo, options, info, predictor, sim, stdout>>

(* simulate() counts branches only if there is a predictor; it may end the *)
(* process itself (a misaligned access).                                   *)
Simulate ==
  /\ At("simulate")
  /\ predictor' = build_predictor(options.name, options.size)
  /\ \/ Exit(-1) /\ UNCHANGED sim
     \/ /\ \E insns \in 1 .. MaxInsns, total \in 0 .. MaxInsns, missed \in 0 .. MaxInsns :
             /\ missed <= total /\ total <= insns
             /\ predictor' = NoPredictor => total = 0
             /\ sim' = <<insns, total, missed>>
        /\ at' = "summary"
        /\ UNCHANGED exit
  /\ UNCHANGED <<args, i, files, ram, options, info, listing, stdout>>

-----------------------------------------------------------------------------
SummaryLine == <<"summary", sim[1]>>

WriteAndClose(f, lines) == [fopened EXCEPT ![f].text = @ \o lines, ![f].open = FALSE]

(* Mutant: stdout has the summary whether there is a log or not.           *)
Summarise_both ==
  /\ At("summary")
  /\ IF options.log # 0
     THEN fopened' = WriteAndClose(options.log, <<SummaryLine>>)
     ELSE UNCHANGED fopened
  /\ stdout' = Append(stdout, SummaryLine)
  /\ at' = "profile"
  /\ UNCHANGED <<args, i, disk, ram, options, info, listing, predictor, sim, exit>>

Summarise ==
  /\ At("summary")
  /\ IF options.log # 0
     THEN fopened' = WriteAndClose(options.log, <<SummaryLine>>) /\ UNCHANGED stdout
     ELSE stdout' = Append(stdout, SummaryLine) /\ UNCHANGED fopened
  /\ at' = "profile"
  /\ UNCHANGED <<args, i, disk, ram, options, info, listing, predictor, sim, exit>>

(* Mutant: the profile is left to the exit of the process.                 *)
ProfileFile_open(lines) == [fopened EXCEPT ![options.prof].text = @ \o lines]

ProfileFile(lines) == WriteAndClose(options.prof, lines)

(* Mutant: a size is printed whenever one was given.                       *)
ProfileLines_sized ==
  << <<"Predictor", options.name>> >>
    \o (IF options.size > 0 THEN << <<"Size", options.size>> >> ELSE <<>>)
    \o << <<"Instructions", sim[1]>>, <<"Total", sim[2]>>, <<"Mispredictions", sim[3]>> >>

ProfileLines ==
  << <<"Predictor", options.name>> >>
    \o (IF Sized(options.name) THEN << <<"Size", options.size>> >> ELSE <<>>)
    \o << <<"Instructions", sim[1]>>, <<"Total", sim[2]>>, <<"Mispredictions", sim[3]>> >>
    \o (IF sim[2] > 0 THEN << <<"Rate", sim[3], sim[2]>> >> ELSE <<>>)
    \o (IF sim[1] > 0 THEN << <<"MPKI", sim[3], sim[1]>> >> ELSE <<>>)

(* The profile, then predictor, symbols and memory are freed.              *)
WriteProfile ==
  /\ At("profile")
  /\ fopened' = IF options.prof # 0 THEN ProfileFile(ProfileLines) ELSE fopened
  /\ at' = "end"
  /\ UNCHANGED <<args, i, disk, ram, options, info, late, exit>>

Next ==
  \/ PassArgs \/ StoreNext
  \/ Disassemble \/ Log \/ Profile \/ Summary \/ Predictor \/ UnknownOption
  \/ OpenElf \/ LoadSegment \/ ReadSymbols
  \/ List \/ Simulate \/ Summarise \/ WriteProfile

(* One thread that the host keeps running; simulate() returns.             *)
Spec == Init /\ [][Next]_vars /\ WF_vars(Next)

=============================================================================
