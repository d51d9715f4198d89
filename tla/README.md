# A verification project for the RISC-V simulator

The repository is a simulator of RV32IM programs with pluggable branch
predictors (`src/src`), the guest programs it is measured on
(`src/predictor benchmarks`) and small assembly tests (`src/tests`).  This
directory holds TLA+ modules that model it, TLC configurations that check them
and proofs that TLAPS checks.

## 1. Inventory

The simulator is one sequential process.  Nothing in it is concurrent and it
persists nothing; what makes it hard is data seen through several widths and
signs, state shared between things that should not notice (pages, table
entries, x0), files and allocations whose errors meet in one cleanup path,
effects that must come in one order, and sequences of legal calls nobody tried.

| Part | State | Operations | Talks to | What makes it correct |
|---|---|---|---|---|
| Memory, `memory.c` | 65536 page pointers, pages of 16384 `int`s | `memory_create`, `memory_delete`, `get_page`, read and write of word, halfword, byte | called by driver, loader, interpreter, listing | behaves as a flat, zeroed, little-endian byte array; misaligned accesses end the process |
| Predictors, `predictor.c` | table of 2-bit counters; gshare: global history register | constructors, `predict`, `update`, `destroy` behind function pointers | built by the driver, called by the branch case of the interpreter | counters saturate; hysteresis; prediction and training agree on the entry; order of training and shifting |
| Interpreter, `simulate.c` | `regs`, `pc`, `insn_count`, `running`; `struct BPStats` | one loop iteration per instruction; `handle_ecall` | reads and writes memory, asks and trains the predictor, stdin and stdout | executes the instruction set; prediction is invisible to the program; the profile is that of the executed branches |
| Field extraction, `simulate.c:10-51,123-128` | none | `imm_i/s/b/u/j`, `sext` | interpreter | inverse of the encoding |
| Disassembler, `disassemble.c` | none | `disassemble`, `reg_name`, `format_addr` | driver, symbols | lists what the word is; agrees with the interpreter about which words are instructions |
| Loader and symbols, `read_elf.c` | `struct program_info`, `struct symbols`, bytes in memory | `read_elf`, `symbols_read_from_elf`, `symbols_value_to_sym`, `symbols_delete` | driver, memory, disassembler | memory holds exactly the loadable segments; nothing runs from a broken file |
| Driver, `main.c` | options, argument block at 0x1000000, files | `pass_args_to_program`, option loop, `build_predictor`, listing, profile, cleanup | all of the above | arguments arrive; the profile names what did the counting; files are closed, allocations freed once |
| Guest library, `lib.c` | free lists per size, `free_space` | `allocate`, `release`, string conversions, lines, environment calls | runs on the simulator | live blocks never overlap; conversions are inverse; nothing is written beyond the buffer |
| Guest programs, `radix.c`, `fib.c`, `erat.c` | a radix tree; a recursion; an array | add, take, release; `fib`; the sieve | guest library | smallest numbers first; the Fibonacci number; the primes |

Hard behaviours, each at its line, are the `hazards` of `PROJECT.json`.

## 2. Modules

Two rules hold throughout.  Operators over a value (a memory, a predictor, a
register value, an instruction word) stand in modules without variables; state
machines use them.  No module that is proved about reaches a recursive operator.

**Memory.** `Memory` translates `memory.c` to operators: a memory is a function
from the page numbers allocated so far to pages, a NULL pointer is a page
outside the domain.  Masks and shifts by whole bytes are `\div` and `%` by
powers of `ByteBase`; the geometry (256 values in a byte, 2^16 pages, 2^14
words) is a parameter.  `PagedMemory` is the machine: any sequence of calls of
the six accessors of `memory.h`, each action the whole function, with the exit
on a misaligned address and the page a read allocates *before* it checks.
`FlatMemory` is what `memory.h` promises: an array of bytes, loads and stores of
1, 2 or 4 bytes.  `ImplementsFlatMemory` is the refinement, with `bytes[a]` the
lane of the word that holds address `a`.

**Predictors.** `Predictors` holds the four predictors as records (`kind` stands
for the function pointers), `build_predictor` of `main.c`, and `AfterBranch`,
what the interpreter does with predictor and statistics around a branch.
`BranchPredictor` drives one predictor with one of `Programs`: any of its
branches may come next with any outcome.  `last`, `runs`, `streak` and `missed`
are history variables per table entry which only the properties read.
`TwoLevelPredictor` is what the dynamic predictors are meant to be, a private
automaton (direction, sure or not) for each branch and each pattern of recent
outcomes; `AliasFree` maps the table to these automata whenever the size of the
table keeps the branches of the program apart (`Private`).

**Interpreter.** `Bits` and `Alu` are the C arithmetic on register values (a
register is its unsigned reading, `Signed` the other one).  `Isa` holds the
opcodes and the cases of the switch.  `Simulate` is the loop: one action per
case, each the whole iteration (fetch, the case, `enforce_x0`), and one for the
misaligned fetch.  Instruction words go through `Decode`, a constant function
from words to field records: on a machine of 8-bit words no word could hold an
instruction, so a program's words are numbers of instructions there, and what
the code does with the bits of a word is the subject of `Decoder`.  `Simulate`
composes `Memory`, `Alu` and `Predictors`: the actions call their operators in
the order in which the C calls the functions.  `RiscV` is the abstract machine:
signed integers in registers, flat bytes, no pages, no predictor; each result is
defined by its meaning (a quotient by its remainder, a logical operation and a
shift by the bits of the result).  It defines the instructions the simulator
supports; three encodings the manual leaves undefined but the simulator accepts
may do anything to `rd` there.  `SimulateProps` states the properties,
`MCSimulate` holds the programs; `Library` gives them the environment calls of
`lib.c` as instructions.

**Words.** `Decoder` is the shifts, masks and sign extensions of `simulate.c` and
`disassemble.c` on 32 bits; a word is the function from bit positions to bits.
`Disassembler` is the switch of `disassemble.c`: the line is the sequence of its
parts (mnemonic, registers, numbers, a symbol), without columns, commas and
radices.  `InstructionWords` puts interpreter and disassembler before the same
word, which is either an instruction of the manual, encoded by tables
written from the manual, or 32 bits of any kind.

**Loader and driver.** `Loader` says what a program file is to `read_elf.c`
(headers, segments, sections, each possibly cut short) and the bytes it stores.
`Driver` is `main`: the argument block, each option in turn, the segments one by
one, the symbols, then the listing or the simulation, the summary, the profile
and the cleanup.  Files are records with what was written to them and whether
they are open; `simulate()` is one step with any outcome that it may have.  A
write to a stream that is NULL ends in `crash`.  `DriverProps` states what
must come out of it, `MCDriver` the command lines and disks.

**Host heap.** `HostHeap` follows the same run through every `malloc`, `calloc`
and `free` of the four files, each of which may fail or be reached from any of
the paths of `main`.  It leaves out what the blocks hold; the other modules
leave out that allocations fail.

**Guest library.** `Heap` is `allocate` and `release` of `lib.c` with the program
that calls them and writes into its blocks.  `word` is the heap area, in which the
allocator keeps links and sizes between the program's data; the actions read
and write those words as the C does.  `live` is a history variable: the blocks the
program has.  The sums that make the size of a block wrap as an `int` does
(`Wrap`): the largest requests get a negative size, which the code does not refuse
(`Overrun`), and nothing is said of the program after that.  `Allocator` is what a
program relies on, blocks of its own and the data in them; `ImplementsAllocator` is the refinement, with the program's data
read off `word`.  `Strings` is `read_string`, `print_string`, `str_to_uns` and
`uns_to_str` on one buffer, one action per call and per iteration of a loop.
`GuestLibrary` is the two beside each other, which share no state: a program that
uses the heap, or one that uses the strings.

**Guest programs.** `Radix` is `radix.c`: nodes with the union of counts and
pointers, the in-place insertion of `add_number`, the recursion of
`take_numbers_2` and `release_tree` as stacks of frames, the batches of `main`.
`PriorityBag` is what a user sees: a bag of numbers that gives its smallest ones
on request; `RadixProps` has the refinement and the shape of the tree.  `Fib` is
the recursion of `fib.c` (with `_start` and `args_to_main` of `lib.c`), `Sieve`
the loops of `erat.c`, `SieveProps` their invariants; `Benchmarks` runs one of
the three.

**Where the model abstracts.** A signed `int` overflow wraps (what gcc generates;
undefined in C).  `getchar` does not block: input is a finite sequence, then EOF.
`write_int_buffer` of `radix.c` may write less than it is given, as `ShortWrites`
allows or not, but does not fail.  `BranchPredictor`, `Simulate`, `Radix`
and `Strings` stop at `MaxBranches`, `MaxInsns`, `MaxRequests` and `MaxCalls`,
`Heap` grants nothing beyond `HeapLimit`.  The wording of messages is left out.

## 3. Runs

| Run | Bounds | What it shows |
|---|---|---|
| `paged_memory` | bytes of 2 values, 2 pages of 2 words, 6 sites, 2 data words | `MemoryOK`; `ImplementsFlatMemory`. The sites reach each lane, both words, both pages and misaligned words and halfwords; the data words complement each other, so a lane or a mask that is wrong changes a byte |
| `branch_predictor` | a program of 3 branches and one of 1, sizes -4..4, all names, 8 branches executed | `MissesBounded`, `TwoInARowDecide`, `ProfileBounded` under sharing: with sizes 1 and 2 the three branches collide, and eight outcomes saturate a counter, contradict it and recover. `ImplementsTwoLevel` without sharing: size 4 keeps the three branches apart, and one branch visits each pattern of two outcomes again after it was trained |
| `simulate` | 8-bit words, 7x7 operands, some 150 instructions and encodings; 9 programs under 5 predictor names of 3 sizes; 60 instructions | `ImplementsRiscV` for each instruction and each unknown encoding of each case: the operands are both signs, zero, the extremes, and addresses of code, data and nothing. `ProfileIsReplay`, `PredictorOnlyObserves`, `Terminates` for echo, nested loops, calls, each call that `radix.c` makes to its files, and a program that rewrites itself |
| `words` | 3 registers, immediates of one bit, their negatives and the extremes, 6 values of funct7, every opcode and funct3 | `DecodingInvertsEncoding`, `ListedAsWritten`, `UnknownToBoth`. Each bit of each immediate is alone in one word, so a bit in the wrong place shows |
| `driver` | bytes of 4 values, 4 pages of 16 words, 26 command lines, 20 disks, 2 instructions counted | `MemoryIsImage`, `ArgumentsArrive`, `OnlyWholePrograms`, `FilesClosed`, `SummaryOnce`, `ProfileNamesPredictor`, `ListingCoversCode`, `Ends`. The disks have overlapping segments, one over the arguments, one at the top of memory, code that is not at the start of its file, code that ends with the address space, and a file for each check that may fail; any file may refuse to open |
| `host_heap` | 3 pages | `FreedOnce`, `WholePredictors`, with every allocation failing at every place; pages differ only in their number |
| `library` | heap: block sizes 8 and 16, chunks of 3 and 2 blocks, area of 56 bytes, an `int` up to 63, 8 requests; strings: buffer of 8 in a word of 65536, 4 inputs, rooms of 1, 3 and 7, 5 numbers, 4 calls | `ImplementsAllocator`, `FreeListsIntact`, up to a request whose size wraps. Up to two chunks of either or both sizes, so lists are carved, emptied, refilled in every order and carved again; one request is not positive, two are too large, three share a size, and of two the size wraps, in either of its two sums. `DecimalDigits` (the bytes and the value returned), `ReadBack`, `LinesArrive`, `StaysInBuffer`, `CallsReturn`: numbers of one to five digits with zeros inside; lines that are empty, fit and do not, one with a NUL; the end of the input in and before a line; each call after each other |
| `benchmarks` | fib: arguments up to 9 in a word of 16; erat: the numbers below 50; radix: 3-bit numbers, 5 requests for up to 3 numbers, a buffer of 2, complete writes | `PrintsFibonacci`, `DepthBounded`, `PrintsThePrimes`: results below, at and above the modulus; composites of one, two and three primes. `RadixShape`, `OneOwner`, `ImplementsPriorityBag`, `Served`: numbers that branch at each bit and two that share a leaf, requests larger than the buffer and than the tree, additions after a side was emptied; ten nodes, two for each number, which is `RoomAssumption`. `Terminates` for all three |
| `rv32m` | as the probes of `simulate` | a violation, see section 5 |
| `load_failure` | as `driver` | a violation, see section 5 |
| `large_request` | as the heap of `library`, 3 requests | a violation, see section 5 |
| `short_writes` | as the radix of `benchmarks`, with short writes | a violation, see section 5 |

Words of 8 bits (bytes of 2 bits) keep a word in four lanes, keep the
wrap-around of addresses and arithmetic, and let the run try extreme operands; a
shift amount uses the low three bits as the code uses the low five.  All
configurations set `CHECK_DEADLOCK FALSE`: the programs really end, and
the bounds stop the rest.

Fairness is weak fairness of the whole next-state relation in `simulate`, `driver`
and `benchmarks`, and of the steps of the string functions in `library`: each is the
only thread of a process that the host keeps running, and a step consists of calls
that return.  No choice among steps is assumed fair, and the programs that call the
library need not call again.  `Served` and `Terminates` also take it that each call of
`write_int_buffer` writes all it is given (one that writes nothing for ever would
keep the loop at `radix.c:180-183` running), and `Terminates` that the input of
`radix.c` ends.  `Ends` takes it that `simulate()` returns, and excepts the one
listing that does not end (`ListsForever`, section 5); a listing without end has no
finite model, so no disk of the run has it.  The bounds do not help: a program that
`simulate` cut off at `MaxInsns` is still `running`, which violates `Terminates`; a
call that `library` does not finish is not at `program`; and `radix.c` may end its
input after any request, and must after the last.

Every property of every passing run has a mutant, defined next to the operator
it changes and marked `Mutant`, under which TLC finds the property violated.

## 4. Proofs

TLAPS checks these for every value of the constants that satisfies the named
assumptions.

* `MemoryPredictor_proofs`, memory (`GeometryAssumption`, `ClientAssumption`):
  `MemoryTyped` and `RefinesFlatMemory`, the refinement by which the run checks one
  small geometry, for every geometry, `Sites` and `Data`.  `MachineLemmas` has the
  argument: a word is the sum of its four lanes; an address is determined by its
  page, index and lane, so two aligned units are equal or disjoint; setting a word
  changes the lanes of its four addresses and no other.  `MemoryOK` is the
  invariant the refinement needs (a word out of range has no lanes).
* `MemoryPredictor_proofs`, predictors (`WidthAssumption`, `SizesAssumption`,
  `ProgramAssumption`): `TypeCorrect`, `MissBound` (`MissesBounded`), `Hysteresis`
  (`TwoInARowDecide`) and `ProfileBound` (`ProfileBounded`), for every program,
  predictor, size and sharing of entries.  None is inductive: the bound on misses
  depends on how the counter leans.  `IInv` adds, per entry, `EntryInv`, which ties
  the counter to the last outcome, the length of the run and the misses so far: a
  counter that leans against its last outcome has one more miss to make.  The
  index arithmetic is irrelevant, so it holds for both tables.  `ProfileBound` needs
  `MissesAdd`: the misses of the profile are the sum of those of the entries.
  `PrivateAutomata` (`ImplementsTwoLevel`) is about the index arithmetic: for every
  width, size and program without sharing, the table implements `TwoLevelPredictor`.
  A size that passes `is_power_of_two` is a power of two (`PowerOfTwo`) of which
  `log2_int` is the exponent, so the XOR of address and register loses no bit of the
  pattern and every context has an entry of its own (`OwnEntry`); the register is
  the list of the last outcomes (`RecentStep`); and a counter of two bits is a
  direction and a certainty (`AutomatonStep`).  The invariant adds `GshareOK`, what
  the constructor makes of the size and of the length of the history.
* `Simulate_proofs` (`WordAssumption`, `RegAssumption`, `DecodeAssumption`,
  `BootAssumption`, `InsnsAssumption`): `OnlyObserves` (`PredictorOnlyObserves`),
  which is a simulation of the machine by the same machine without a predictor;
  `TypeCorrect`, for which the bitwise operators, both divisions and the loads are
  shown to stay in a word, and that x0 is 0 after every instruction (`Hardwired`); and `ProfileReplays` (`ProfileIsReplay`).  `Replay` is
  defined by recursion on the branches executed, and `ReplayStep` says what one
  more branch does to it.
* `Simulate_proofs`, the instruction set (also `ShiftAssumption`,
  `GeometryAssumption`): `RunsRiscV` (`ImplementsRiscV`), the refinement by which the
  run checks 8-bit words, for every width of the word, program, input and predictor.
  The mapping reads registers as signed numbers and the paged memory by bytes.  A
  word and the number it stands for differ by a multiple of `WordMod`, so sums,
  differences and low products come out the same (`SignedWords`, `Congruent`,
  `Sums`, `Products`), and a number within the range of a register is known by its
  bits (`KnownByBits`), of which those beyond the sign repeat it (`HighBits`): so
  `Logic` and `Shifts`.  `RiscV` says of a quotient only what the remainder must be;
  there is one such (`OneQuotient`), and the code's, with its cases for zero and
  overflow, is it (`QuotientDivides`).  `Values`, `LoadValue` and `StoredBytes` are
  the lanes of memory.  There is one lemma per case of the switch
  (`FetchMisalignedIs` to `UnknownOpcodeIs`): what the code does is what the
  machine may.  The invariant is the type invariant and `Hardwired`, that x0 is zero
  between instructions: without it a case which reads `regs[0]` would not see the
  zero of the machine.  `ShiftAssumption`, that the width divides the number of words
  (32 does), makes the low five bits of an amount the same in both readings, and an
  immediate is an `int32_t`.
* `Host_proofs`, heap (`NPagesAssumption`): `NothingLeft` (`FreedOnce`) and
  `AllOrNothing` (`WholePredictors`), whichever allocations fail.  The invariant is
  about the calls of `free` still to be made: each finds a block that is allocated
  (`CallsFind`), in an order in which no block is reached through one already
  freed (`Ordered`), and at each place of `main` it says which blocks are held.
* `Host_proofs`, words (`WordsAssumption`): `WordsDecoded`
  (`DecodingInvertsEncoding`), `WordsListed` (`ListedAsWritten`) and `WordsUnknown`
  (`UnknownToBoth`), for every register, every immediate that fits, every address
  and every symbol table, where the run has one bit of an immediate at a time.  The
  state is one step deep, so the invariant (`WordsInv`) only ties what was read to the
  word; the argument is about data.  The pieces of a format tile the word
  (`LayoutFacts`), so each bit of an encoding comes from one piece; the bits of a run,
  weighted, add up to a quotient and remainder of the value that was cut up
  (`SumOfBits`, `PieceField`); the pieces of each immediate add up to it modulo its
  width (`ImmediatePieces`), and `sext` gives it its sign (`SignExtension`).  The two
  switches are compared entry by entry with the manual (`ManualType` to
  `ManualRegister`) and with each other: the holes of the name tables are the cases
  that `simulate` lacks (`Holes`, `OpHoles`), for any 32 bits (`SameWordsKnown`).
* `Driver_proofs`, files (`DriverAssumption`): `WholePrograms` (`OnlyWholePrograms`),
  `AllClosed` (`FilesClosed`: the program's file without exception, a log or a profile
  unless a later option replaced it), `SummaryPlaced` (`SummaryOnce`) and `ProfileTells`
  (`ProfileNamesPredictor`), for every command line on every disk.  The invariant `IInv` says that each place of `main` is
  reached only past the checks before it (`HeadersPassed`), that an option's stream
  is the last one opened for it (`OptionsHaveLatest`), that the program's own file is
  open only while its segments are read (`ProgramFileClosed`), which option files
  each place of the cleanup has closed (`OptionsClose`), and what the statistics,
  the logs, stdout and the profile hold before and after each is written (`Counted`,
  `SummaryWritten`, `ProfileWritten`).
* `Driver_proofs`, memory (also `GeometryAssumption`, `LoaderAssumption`,
  `ArgumentsFit`): `MemoryLoaded` (`MemoryIsImage`), `ArgumentsFound`
  (`ArgumentsArrive`) and `CodeListed` (`ListingCoversCode`), for every geometry,
  command line and disk.  The loops store a byte or a word at a time, so memory is
  an image of nothing in between; `ImageInv` speaks of what memory *will* hold: for
  each address, what the last pending store that reaches it puts there or, if none
  does, what is there already (`Will`), is the byte that the arguments and the
  headers read so far ask for (`ImageByte`).  A step of a loop keeps that
  (`WillStore`); a new list of stores has at most one for an address (`WillOne`),
  because the count, the pointers and the strings are laid out one behind the other
  (`Layout`, `ArgStoresApart`) and a segment is shorter than the address space, even
  if it wraps at its top (`PlaceInSegment`).  `ListInv` says which segment `info` is
  about and that the listing counts up from it; `CodeListed` is for every `p_offset`,
  but not for code that wraps around or extends to the last word of the address
  space.  `ArgumentsFit` assumes that
  the argument block ends inside the address space (0x1000000 leaves it 4080 MB)
  and that an address fits in a word.
* `GuestLibrary_proofs`, the heap (`HeapAssumption`): `ListsIntact` (`FreeListsIntact`) and `BlocksKept`
  (`ImplementsAllocator`), for every size of the area, of blocks and of chunks, up to
  the first request whose size wraps; a request that wraps has no class, so it never
  reaches a list of the model (`NegativeClass`, `SizeFits`).  The invariant gives the heap a shape that `lib.c` never writes down: `part` tiles the
  area up to `free_space` with blocks, `chain` gives each class the blocks that its
  header leads to, and every block is in one list, of its size, or lent to the
  program.  Carving a chunk adds its blocks to both; taking and releasing a block
  moves the head of one chain; a write stays inside its block (`InsideBlock`), and
  two blocks share no word (`BlocksApart`).  A list is finite because it meets no
  block twice (`ListsEnd`).
* `GuestLibrary_proofs`, the strings (`StringsAssumption`): `DigitsWritten`
  (`DecimalDigits`), `NumbersReadBack` (`ReadBack`), `LinesRead` (`LinesArrive`) and
  `WritesInRoom` (`StaysInBuffer`), for every input, buffer, word and number whose
  digits fit in the buffer.  The invariant has a part for each loop: what is left to
  divide is the number divided by as many tens as it has digits in the buffer
  (`Converting`); the digits outside the two pointers are swapped and those between
  them are not (`Reversing`); what `str_to_uns` has is the number without the digits
  it has not seen (`WrittenOut`), which no reduction changes because the number fits
  in the word; and what `read_string` has stored is the input from where it began,
  with one more character taken (`Reading`).  `NumberOfDigits` is the sum that the
  property is about: the digits of a number, first digit first, add up to it.  That
  the bytes are digits, and that what is returned is one short of their number, is
  part of the same property and proof.
* `Benchmarks_proofs`, `erat.c` (`MaxAssumption`): `PrimesPrinted`
  (`PrintsThePrimes`) and the invariant it rests on, `MultiplesCrossed`, for every `MAX`.
  The two need each other, and `InnerLoop`: while multiples are crossed, `i` is
  prime and `j` a multiple of it.
* `Benchmarks_proofs`, `fib.c` (`FibAssumption`): `RecursionBounded` (`DepthBounded`)
  and `FibonacciPrinted` (`PrintsFibonacci`), for every argument and width of the
  word.  The invariant of the first adds that a frame which has made a call has an
  argument of at least 2 (`Callers`); that of the second says what each open call
  waits for and has kept (`Chained`, `KeptSums`) and what the last one returned
  (`Delivered`).
* `Benchmarks_proofs`, `radix.c` (`RadixAssumption`, `RoomAssumption`):
  `RadixTreeShape` (`RadixShape`), `RadixOneOwner` (`OneOwner`) and `RadixImplements`
  (`ImplementsPriorityBag`), for every width of a number, input, buffer and set of
  nodes, the last one if every write is complete (`~ ShortWrites`), the others
  either way.  The first two rest on `RadixIInv`: each node has one owner (`TreeOwned`);
  the pointer of `add_number` is one that the number belongs below (`Adding`); the
  open calls of `take_numbers_2` are a path of the tree, from the root down
  (`Path`), and a node that holds nothing is on it (`NoneHollow`); the open calls of
  `release_tree` and the pointers it has yet to follow lead to different nodes, and
  to all there are (`ReleaseOwned`).  `OrderIInv` says where a number is: searching
  for it from the root finds its leaf (`Searched`); `add_number` is on that path
  (`Reached`); and `take_numbers_2` has emptied what it left behind, unless the buffer
  is full (`Exhausted`).  So a leaf's number is taken when none smaller is left
  (`SmallestFirst`).  The abstract bag counts a number as often as the leaves hold
  it, and each step changes one leaf of that sum or unlinks one that adds nothing.
  `RoomAssumption` gives `allocate` a block whenever it is asked: a number needs a
  leaf and a branch at most, which `NodesNeeded` counts.  A guest whose heap has run
  out is a matter of `Heap`.

`DataLemmas` proves what the others need about data: division, sums over finite
sets, powers of two and the bits of integers.  Induction there is the minimal
element of a set of counterexamples (`NatInd`, `SubsetInd`), since the induction
theorems of the library are about operators; sums and recursive functions are
shown to exist, to be unique and then to satisfy their equation (`SumExists`,
`ReplayExists`, `UptoExists`).

Only model-checked: liveness under fairness (`CallsReturn`, `Served`, the two
`Terminates`, `Ends`), which is out of the prover's reach, and the four disagreements
of section 5, which are counterexamples.

## 5. Findings

Four disagreements between the code and what the repository says of it have a run:

* `RunsRV32M`: the comment at `src/src/simulate.c:97-98` says that it "can run RV32I +
  RV32M programs", and line 322 "includes RV32M", but MULH, MULHSU and MULHU reach
  the default at 406-409 and stop the simulation.
* `FailuresAreReported`: `main.c:130` says "if (status) exit(status);", but without
  `-l` the stream that `read_elf` writes its errors to is NULL (`main.c:86`), so a
  missing or broken program file ends the process inside `fprintf`.
* `LargeRefused`: `lib.c:168-171` returns NULL for "large blocks", which need "more
  complex machinery", but room for the size word is added before (`lib.c:161`), and
  for the largest requests the sum, or the rounding at 165, wraps.  The negative size
  passes the check and names a list in front of `small_block_headers`.
* `ImplementsPriorityBag` with `ShortWrites`: `radix.c:174` says "take requested
  numbers from tree and output", but after a short write the loop at 180-183 passes
  the start of the buffer again instead of the rest.

Modelling met others, which no run shows as a violation.  The modules have them as
they are, and the properties say what the code does:

* `-s` only skips its operand (`main.c:102-108`), although `main.c:104` says of its
  file "We open it later" and 154 that the summary goes to stdout "if no -s/-l log file
  is open".  `SummaryOnce` says where it goes.
* `handle_ecall` stops at the calls 4, 5 and 6 of the guest library (`lib.c:50, 61, 71,
  80`, the last one for `open_file` and `close_file` alike), without which `radix.c`
  reads nothing; `simulate.c:98` speaks of "the required system calls".
  `ImplementsRiscV` says what a stop leaves behind.
* `uns_to_str` returns one less than the number of digits, except for 0
  (`lib.c:113-125`); `DecimalDigits` says so.
* The listing counts up with `addr += 4` while `addr < text_end` (`main.c:60`): for
  code that ends in the last word of the address space the sum wraps and the
  listing never ends.  `ListingCoversCode` and `Ends` except it.
* The listing skips as many bytes as the file's headers have in every segment of
  code (`read_elf.c:56`): a segment that does not begin with them loses its first
  words.  `ListingCoversCode` says so, for every `p_offset`.
* A log or a profile that a later `-l` or `-p` replaces is never closed (`main.c:99`,
  111).  `FilesClosed` excepts it.
* A loop of `radix.c` whose write takes nothing for ever does not end (180-183).
* A segment that is cut short leaves `read_elf` with its buffer and file still
  held (`read_elf.c:77-81`), which the exit that follows makes up for.

## 6. Not modelled

* `elf.h` is a vendored header of 4464 lines; the loader uses four structures and
  a few constants of it, and these are what `Loader` has.  The rest is declarations
  for other machines.
* Whether two of the file's tables belong together (`sh_link`), other machines and
  classes of ELF files than the magic number tells, and `p_memsz`: `read_elf.c`
  looks at none of them.
* The layout of text (columns, radices, the wording of messages), host ticks and
  the times in the summary.
* What the compiler puts around the `asm` statements of `lib.c`, and code that
  depends on undefined behaviour other than the wrap of an `int`, such as the
  negation of the smallest one (`radix.c:173`), which no request of `Radix` is, and
  whatever follows an access in front of the heap's lists (`lib.c:173`).
* A `write_int_buffer` that fails: its negative result would let `to_write` grow
  beyond the buffer (`radix.c:182`).  A `read_string` with room for nothing, which
  stores a NUL all the same (`lib.c:99`).
* The Makefile and the test scripts, which have no state of their own.

## 7. Plan

Every component with state is modelled, and each safety and action property of a passing run
is a theorem.  Liveness stays with TLC.  Beyond the present scope are the
parts of section 6; the first to add would be the text of the listing and of the
profile as characters.
