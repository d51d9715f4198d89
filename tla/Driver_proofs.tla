---------------------------- MODULE Driver_proofs ----------------------------
(***************************************************************************)
(* For every command line on every disk: nothing is run or listed from a   *)
(* file that a check of the loader refuses, memory is the image of the     *)
(* file and the arguments when the program starts, the listing covers the  *)
(* code, the files are closed when main returns from a simulation, and a   *)
(* profile names the predictor that counted.  Three arguments carry this:  *)
(* an option's index always names the last file opened for it (IInv); the  *)
(* memory together with the stores still to be made is, byte by byte, what *)
(* the headers read so far ask for (ImageInv); and the listing counts up   *)
(* from the start of the last segment of code read so far (ListInv).       *)
(***************************************************************************)
EXTENDS DriverProps, MachineLemmas, SequenceTheorems

Places == {"args", "options", "segments", "list", "simulate", "summary", "profile",
           "end", "exit", "crash"}

(* The program's own strings, and those of the command line.               *)
Uses  == {"log", "prof", "elf"}
Text  == STRING \cup {"none", "summary", "Predictor", "Size", "Instructions", "Total",
                       "Mispredictions", "Rate", "MPKI"}
Value == Text \cup Int \cup {Atoi[s] : s \in STRING}
Lines == Seq(Seq(Value))
FILE  == [use : Uses, name : STRING, open : BOOLEAN, text : Lines]

TypeOK ==
  /\ at \in Places
  /\ argv \in Seq(STRING) /\ argv # <<>> /\ argc \in Int /\ argc <= Len(argv)
  /\ at \notin {"args", "exit"} => argc >= 2
  /\ i \in Nat
  /\ \A name \in DOMAIN disk : disk[name].phdrs \in Seq(Elf32_Phdr)
  /\ fopened \in Seq(FILE)
  /\ options \in [log : Nat, prof : Nat, disasm : BOOLEAN, name : Text, size : Value]

(* The program headers read so far passed their checks.                    *)
HeadersPassed ==
  at = "segments" =>
    /\ argv[2] \in DOMAIN disk /\ IsElf(Elf) /\ i <= Len(Elf.phdrs)
    /\ \A k \in 1 .. i : /\ Elf.phdrs[k].whole
                         /\ Loadable(Elf.phdrs[k]) => ~ ShortSegment(Elf.phdrs[k])

(* An option has the last file that was opened for it, or none was.        *)
Latest(use) ==
  /\ options[use] \in 0 .. Len(fopened)
  /\ options[use] # 0 => fopened[options[use]].use = use
  /\ \A f \in DOMAIN fopened : fopened[f].use = use => f <= options[use]

OptionsHaveLatest == Latest("log") /\ Latest("prof")

(* The program's file is open only while its segments are read.            *)
ProgramFileClosed ==
  /\ at \in {"args", "options"} => \A f \in DOMAIN fopened : fopened[f].use # "elf"
  /\ at = "segments" =>
       /\ fopened # <<>>
       /\ \A f \in DOMAIN fopened : fopened[f].use = "elf" /\ fopened[f].open => f = Len(fopened)
  /\ Loaded => \A f \in DOMAIN fopened : fopened[f].use = "elf" => ~ fopened[f].open

(* The files of the options are closed one after the other.                *)
OptionsClose ==
  /\ at = "list" => options.disasm
  /\ at \in {"simulate", "summary", "profile"} => ~ options.disasm
  /\ ~ options.disasm =>
       /\ at \in {"profile", "end"} /\ options.log # 0 => ~ fopened[options.log].open
       /\ at = "end" /\ options.prof # 0 => ~ fopened[options.prof].open

Counted ==
  at \in {"summary", "profile", "end"} /\ ~ options.disasm =>
    /\ predictor = build_predictor(options.name, options.size)
    /\ sim \in Nat \X Nat \X Nat
    /\ predictor = NoPredictor => sim[2] = 0

(* The profile is the only text of its file.                               *)
ProfileWritten ==
  options.prof # 0 =>
    fopened[options.prof].text = IF at = "end" /\ ~ options.disasm THEN ProfileLines ELSE <<>>

(* The summary is the only text of the last log, and stdout has one if     *)
(* there is no log; the other logs are empty.                              *)
Summarised == at \in {"profile", "end"} /\ ~ options.disasm

LogText(f) == IF Summarised /\ f = options.log THEN <<SummaryLine>> ELSE <<>>

SummaryWritten ==
  /\ \A f \in DOMAIN fopened : fopened[f].use = "log" => fopened[f].text = LogText(f)
  /\ stdout = IF Summarised /\ options.log = 0 THEN <<SummaryLine>> ELSE <<>>

IInv ==
  /\ TypeOK
  /\ HeadersPassed /\ OnlyWholePrograms
  /\ OptionsHaveLatest /\ ProgramFileClosed /\ OptionsClose
  /\ Counted /\ ProfileWritten /\ SummaryWritten

-----------------------------------------------------------------------------
(* What opening and closing do to the files.                               *)
LEMMA AppendFile ==
  ASSUME NEW s \in Seq(FILE), NEW file \in FILE
  PROVE  /\ Append(s, file) \in Seq(FILE)
         /\ Len(Append(s, file)) = Len(s) + 1
         /\ DOMAIN Append(s, file) = 1 .. (Len(s) + 1)
         /\ Append(s, file)[Len(s) + 1] = file
         /\ \A f \in 1 .. Len(s) : Append(s, file)[f] = s[f]
<1>1. Len(s) \in Nat /\ DOMAIN Append(s, file) = 1 .. Len(Append(s, file))
  BY AppendProperties, LenProperties
<1> QED
  BY <1>1, AppendProperties

Closed(s, n) == [s EXCEPT ![n].open = FALSE]

LEMMA CloseFile ==
  ASSUME NEW s \in Seq(FILE), NEW n \in 1 .. Len(s)
  PROVE  LET t == Closed(s, n)
         IN  /\ t \in Seq(FILE) /\ Len(t) = Len(s) /\ DOMAIN t = DOMAIN s
             /\ \A f \in DOMAIN s : /\ t[f].use = s[f].use
                                    /\ t[f].text = s[f].text
                                    /\ t[f].open = (s[f].open /\ f # n)
<1>1. s[n] \in FILE
  BY ElementOfSeq
<1> DEFINE w == [s[n] EXCEPT !.open = FALSE]
           t == [s EXCEPT ![n].open = FALSE]
<1>2. w \in FILE /\ w.use = s[n].use /\ w.text = s[n].text /\ w.open = FALSE
  BY <1>1 DEF FILE
<1>3. t = [s EXCEPT ![n] = w]
  OBVIOUS
<1>4. \A f \in DOMAIN s : s[f] \in FILE /\ s[f].open \in BOOLEAN
  <2>1. \A f \in DOMAIN s : s[f] \in FILE
    BY ElementOfSeq, LenProperties
  <2> QED
    BY <2>1 DEF FILE
<1>5. DOMAIN s = 1 .. Len(s)
  BY LenProperties
<1> HIDE DEF w, t
<1>6. t \in Seq(FILE) /\ Len(t) = Len(s) /\ \A f \in 1 .. Len(s) : t[f] = IF f = n THEN w ELSE s[f]
  BY <1>2, <1>3, ExceptSeq
<1>7. DOMAIN t = DOMAIN s
  BY <1>5, <1>6, LenProperties
<1>8. \A f \in DOMAIN s : /\ t[f].use = s[f].use
                          /\ t[f].text = s[f].text
                          /\ t[f].open = (s[f].open /\ f # n)
  BY <1>2, <1>4, <1>5, <1>6
<1> QED
  BY <1>6, <1>7, <1>8 DEF t, Closed

LEMMA WriteFile ==
  ASSUME fopened \in Seq(FILE), NEW n \in 1 .. Len(fopened), NEW lines \in Lines,
         fopened' = WriteAndClose(n, lines)
  PROVE  /\ fopened' \in Seq(FILE) /\ Len(fopened') = Len(fopened) /\ DOMAIN fopened' = DOMAIN fopened
         /\ \A f \in DOMAIN fopened :
              /\ fopened'[f].use = fopened[f].use
              /\ fopened'[f].text = IF f = n THEN fopened[n].text \o lines ELSE fopened[f].text
              /\ fopened'[f].open = (fopened[f].open /\ f # n)
<1> DEFINE s == fopened
<1>1. \A f \in DOMAIN s : s[f] \in FILE /\ s[f].open \in BOOLEAN /\ s[f].text \in Lines
  <2>1. \A f \in DOMAIN s : s[f] \in FILE
    BY ElementOfSeq, LenProperties
  <2> QED
    BY <2>1 DEF FILE
<1>2. DOMAIN s = 1 .. Len(s)
  BY LenProperties
<1> DEFINE more == s[n].text \o lines
           w == [s[n] EXCEPT !.text = more, !.open = FALSE]
           t == [s EXCEPT ![n].text = @ \o lines, ![n].open = FALSE]
<1>3. more \in Lines
  BY <1>1, <1>2, ConcatProperties DEF Lines
<1>4. t = [s EXCEPT ![n] = w]
  <2>1. s[n].text \o lines = more
    OBVIOUS
  <2> HIDE DEF more
  <2> QED
    BY <1>2, <2>1
<1>5. w \in FILE /\ w.use = s[n].use /\ w.text = more /\ w.open = FALSE
  <2> HIDE DEF more
  <2>1. s[n] \in FILE
    BY <1>1, <1>2
  <2> QED
    BY <1>3, <2>1 DEF FILE
<1> HIDE DEF w, t
<1>6. t \in Seq(FILE) /\ Len(t) = Len(s) /\ \A f \in 1 .. Len(s) : t[f] = IF f = n THEN w ELSE s[f]
  BY <1>4, <1>5, ExceptSeq
<1>7. DOMAIN t = DOMAIN s
  BY <1>2, <1>6, LenProperties
<1>8. \A f \in DOMAIN s :
        /\ t[f].use = s[f].use
        /\ t[f].text = IF f = n THEN more ELSE s[f].text
        /\ t[f].open = (s[f].open /\ f # n)
  <2> HIDE DEF more
  <2> QED
    BY <1>1, <1>2, <1>5, <1>6
<1> QED
  BY <1>6, <1>7, <1>8 DEF t, WriteAndClose

(* What is given is the command line from its separator on, if it has one. *)
LEMMA GivenFacts ==
  ASSUME NEW line \in Seq(STRING), line # <<>>
  PROVE  /\ Given(line) \in Seq(STRING) /\ Len(Given(line)) \in Nat
         /\ Given(line) = <<>> <=> Separator(line) = 0
<1>1. CASE Separator(line) = 0
  BY <1>1, EmptySeq DEF Given
<1>2. CASE Separator(line) # 0
  <2> DEFINE I == {k \in 1 .. Len(Tail(line)) : Tail(line)[k] = "--"}
  <2>1. I # {} /\ Separator(line) = Min(I)
    BY <1>2 DEF Separator, SelectInSeq
  <2>2. \E x \in I : \A y \in I : x <= y
    <3>1. I \in SUBSET Nat
      OBVIOUS
    <3> HIDE DEF I
    <3> QED
      BY <2>1, <3>1, LeastOfSet
  <2>3. Min(I) \in I
    <3> HIDE DEF I
    <3> QED
      BY <2>2 DEF Min
  <2>4. Separator(line) \in 1 .. Len(Tail(line)) /\ Len(Tail(line)) = Len(line) - 1
    BY <2>1, <2>3, LenProperties, HeadTailProperties
  <2>5. PICK m \in 2 .. Len(line) : m = Separator(line) + 1
    BY <2>4, LenProperties
  <2>6. Given(line) = SubSeq(line, m, Len(line))
    BY <1>2, <2>5 DEF Given
  <2>7. /\ SubSeq(line, m, Len(line)) \in Seq(STRING)
        /\ Len(SubSeq(line, m, Len(line))) = Len(line) - m + 1
    BY <2>5, LenProperties, SubSeqProperties
  <2>8. Len(Given(line)) \in Nat \ {0}
    BY <2>5, <2>6, <2>7, LenProperties
  <2>9. Given(line) # <<>>
    BY <2>8
  <2> QED
    BY <1>2, <2>6, <2>7, <2>8, <2>9
<1> QED
  BY <1>1, <1>2

LEMMA TruncateKeeps ==
  ASSUME NEW name, \A n \in DOMAIN disk : disk[n].phdrs \in Seq(Elf32_Phdr), Truncate(name)
  PROVE  \A n \in DOMAIN disk' : disk'[n].phdrs \in Seq(Elf32_Phdr)
BY EmptySeq DEF Truncate, Empty

LEMMA InitTypeOK == Init => TypeOK
<1> SUFFICES ASSUME Init PROVE TypeOK
  OBVIOUS
<1>1. at \in Places /\ argv \in Seq(STRING) /\ argv # <<>> /\ i \in Nat
  BY DriverAssumption DEF Init, Places
<1>2. argc \in Int /\ argc <= Len(argv) /\ at = "args"
  BY <1>1, LenProperties DEF Init
<1>3. \A name \in DOMAIN disk : disk[name].phdrs \in Seq(Elf32_Phdr)
  BY DriverAssumption DEF Init, Elf32_Ehdr
<1>4. fopened \in Seq(FILE)
  BY EmptySeq DEF Init
<1>5. options \in [log : Nat, prof : Nat, disasm : BOOLEAN, name : Text, size : Value]
  <2>1. 0 \in Value
    BY DEF Value
  <2>3. "none" \in Text
    BY DEF Text
  <2>4. 0 \in Nat /\ FALSE \in BOOLEAN
    OBVIOUS
  <2>2. options = [log |-> 0, prof |-> 0, disasm |-> FALSE, name |-> "none", size |-> 0]
    BY DEF Init
  <2> QED
    BY <2>1, <2>2, <2>3, <2>4
<1> QED
  BY <1>1, <1>2, <1>3, <1>4, <1>5 DEF TypeOK

(* What the loop over the options leaves alone.                            *)
LEMMA OptionTypeOK ==
  ASSUME TypeOK, at = "options", at' \in {"options", "exit"}, UNCHANGED args, i' \in Nat,
         \A name \in DOMAIN disk' : disk'[name].phdrs \in Seq(Elf32_Phdr),
         fopened' \in Seq(FILE),
         options' \in [log : Nat, prof : Nat, disasm : BOOLEAN, name : Text, size : Value]
  PROVE  TypeOK'
BY DEF TypeOK, args, Places

LEMMA OperandTyped ==
  ASSUME TypeOK, i + 1 < argc
  PROVE  Operand \in STRING
BY ElementOfSeq, LenProperties DEF TypeOK, Operand

LEMMA OpenForTypeOK ==
  ASSUME TypeOK, NEW flag, NEW use \in {"log", "prof"}, OpenFor(flag, use)
  PROVE  TypeOK'
<1>1. at = "options" /\ UNCHANGED args
  BY DEF OpenFor, Option, At
<1>2. CASE Usage
  BY <1>1, <1>2, OptionTypeOK DEF TypeOK, Usage, Exit, files
<1>3. CASE ~ Usage
  <2>1. /\ i + 1 < argc
        /\ fopened' = Append(fopened, Opened(use, Operand))
        /\ options' = [options EXCEPT ![use] = Len(fopened')]
        /\ Truncate(Operand) /\ Take(2)
    BY <1>3 DEF OpenFor
  <2>2. Opened(use, Operand) \in FILE
    BY <2>1, OperandTyped, EmptySeq DEF FILE, Uses, Opened, Lines
  <2>3. fopened' \in Seq(FILE) /\ Len(fopened') \in Nat
    BY <2>1, <2>2, AppendFile, LenProperties DEF TypeOK
  <2>4. options' \in [log : Nat, prof : Nat, disasm : BOOLEAN, name : Text, size : Value]
    BY <2>1, <2>3 DEF TypeOK
  <2>5. \A name \in DOMAIN disk' : disk'[name].phdrs \in Seq(Elf32_Phdr)
    BY <2>1, TruncateKeeps DEF TypeOK
  <2> QED
    BY <1>1, <2>1, <2>3, <2>4, <2>5, OptionTypeOK DEF TypeOK, Take
<1> QED
  BY <1>2, <1>3

(* What main writes to the two files, and which of them it closes.         *)
LEMMA SummaryWrites ==
  ASSUME IInv, Summarise
  PROVE  /\ fopened' \in Seq(FILE) /\ Len(fopened') = Len(fopened) /\ DOMAIN fopened' = DOMAIN fopened
         /\ \A f \in DOMAIN fopened :
              /\ fopened'[f].use = fopened[f].use
              /\ fopened'[f].text = IF f = options.log THEN fopened[f].text \o <<SummaryLine>>
                                                       ELSE fopened[f].text
              /\ fopened'[f].open = (fopened[f].open /\ f # options.log)
<1>1. fopened \in Seq(FILE) /\ options.log \in 0 .. Len(fopened) /\ DOMAIN fopened = 1 .. Len(fopened)
  BY LenProperties DEF IInv, TypeOK, OptionsHaveLatest, Latest
<1>2. \A f \in DOMAIN fopened : fopened[f].open \in BOOLEAN
  <2>1. \A f \in DOMAIN fopened : fopened[f] \in FILE
    BY <1>1, ElementOfSeq
  <2> QED
    BY <2>1 DEF FILE
<1>3. CASE options.log = 0
  BY <1>1, <1>2, <1>3 DEF Summarise
<1>4. CASE options.log # 0
  <2>1. fopened' = WriteAndClose(options.log, <<SummaryLine>>)
    BY <1>4 DEF Summarise
  <2>2. <<SummaryLine>> \in Lines
    <3>1. sim \in Nat \X Nat \X Nat
      BY DEF IInv, Counted, OptionsClose, Summarise, At
    <3>2. sim[1] \in Nat
      BY <3>1
    <3>3. "summary" \in Value /\ sim[1] \in Value
      BY <3>2 DEF Text, Value
    <3>4. SummaryLine \in Seq(Value)
      BY <3>3 DEF SummaryLine
    <3> QED
      BY <3>4 DEF Lines
  <2> QED
    BY <1>1, <1>4, <2>1, <2>2, WriteFile
<1> QED
  BY <1>3, <1>4

LEMMA ConcatLines ==
  ASSUME NEW s \in Lines, NEW t \in Lines
  PROVE  s \o t \in Lines /\ ToSet(s \o t) = ToSet(s) \cup ToSet(t)
<1>1. s \o t \in Lines
  BY ConcatProperties DEF Lines
<1>2. Range(s \o t) = Range(s) \cup Range(t)
  BY RangeConcatenation DEF Lines
<1> QED
  BY <1>1, <1>2 DEF ToSet, Range

LEMMA OneLine ==
  ASSUME NEW line \in Seq(Value)
  PROVE  <<line>> \in Lines /\ ToSet(<<line>>) = {line}
BY DEF Lines, ToSet

LEMMA NoLine == <<>> \in Lines /\ ToSet(<<>>) = {}
BY EmptySeq DEF Lines, ToSet

(* The lines of a profile: what names the predictor, and nothing else that *)
(* begins with "Size".                                                     *)
LEMMA ProfileLinesFacts ==
  ASSUME IInv, sim \in Nat \X Nat \X Nat
  PROVE  /\ ProfileLines \in Lines
         /\ <<"Predictor", options.name>> \in ToSet(ProfileLines)
         /\ Sized(options.name) => <<"Size", options.size>> \in ToSet(ProfileLines)
         /\ ~ Sized(options.name) => \A l \in ToSet(ProfileLines) : l[1] # "Size"
<1> DEFINE pred  == <<"Predictor", options.name>>
           size  == <<"Size", options.size>>
           insns == <<"Instructions", sim[1]>>
           total == <<"Total", sim[2]>>
           miss  == <<"Mispredictions", sim[3]>>
           rate  == <<"Rate", sim[3], sim[2]>>
           mpki  == <<"MPKI", sim[3], sim[1]>>
           first == <<pred>>
           sized == IF Sized(options.name) THEN <<size>> ELSE <<>>
           rated == IF sim[2] > 0 THEN <<rate>> ELSE <<>>
           per   == IF sim[1] > 0 THEN <<mpki>> ELSE <<>>
           stats == <<insns, total, miss>>
<1>1. /\ options.name \in Value /\ options.size \in Value
      /\ sim[1] \in Value /\ sim[2] \in Value /\ sim[3] \in Value
  <2>1. options.name \in Text /\ options.size \in Value
    BY DEF IInv, TypeOK
  <2>2. sim[1] \in Nat /\ sim[2] \in Nat /\ sim[3] \in Nat
    OBVIOUS
  <2> QED
    BY <2>1, <2>2 DEF Value
<1>2. \A label \in {"Predictor", "Size", "Instructions", "Total", "Mispredictions", "Rate", "MPKI"} :
        label \in Value
  BY DEF Value, Text
<1>3. /\ pred \in Seq(Value) /\ size \in Seq(Value) /\ insns \in Seq(Value) /\ total \in Seq(Value)
      /\ miss \in Seq(Value) /\ rate \in Seq(Value) /\ mpki \in Seq(Value)
  BY <1>1, <1>2
<1>4. /\ pred[1] # "Size" /\ insns[1] # "Size" /\ total[1] # "Size" /\ miss[1] # "Size"
      /\ rate[1] # "Size" /\ mpki[1] # "Size"
  OBVIOUS
<1>5. ProfileLines = first \o sized \o stats \o rated \o per
  BY DEF ProfileLines
<1> HIDE DEF pred, size, insns, total, miss, rate, mpki
<1>6. stats \in Lines /\ ToSet(stats) = {insns, total, miss}
  BY <1>3 DEF Lines, ToSet
<1>7. sized \in Lines /\ ToSet(sized) = IF Sized(options.name) THEN {size} ELSE {}
  BY <1>3, OneLine, NoLine
<1>8. rated \in Lines /\ ToSet(rated) \subseteq {rate}
  BY <1>3, OneLine, NoLine
<1>9. per \in Lines /\ ToSet(per) \subseteq {mpki}
  BY <1>3, OneLine, NoLine
<1>10. first \in Lines /\ ToSet(first) = {pred}
  BY <1>3, OneLine
<1> HIDE DEF stats, first, sized, rated, per
<1>11. first \o sized \in Lines /\ ToSet(first \o sized) = {pred} \cup ToSet(sized)
  BY <1>7, <1>10, ConcatLines
<1>12. /\ first \o sized \o stats \in Lines
       /\ ToSet(first \o sized \o stats) = {pred} \cup ToSet(sized) \cup ToSet(stats)
  BY <1>6, <1>11, ConcatLines
<1>13. /\ first \o sized \o stats \o rated \in Lines
       /\ ToSet(first \o sized \o stats \o rated)
            = {pred} \cup ToSet(sized) \cup ToSet(stats) \cup ToSet(rated)
  BY <1>8, <1>12, ConcatLines
<1>14. /\ ProfileLines \in Lines
       /\ ToSet(ProfileLines)
            = {pred} \cup ToSet(sized) \cup ToSet(stats) \cup ToSet(rated) \cup ToSet(per)
  BY <1>5, <1>9, <1>13, ConcatLines
<1>15. pred \in ToSet(ProfileLines) /\ Sized(options.name) => size \in ToSet(ProfileLines)
  BY <1>7, <1>14
<1>16. ASSUME ~ Sized(options.name), NEW l \in ToSet(ProfileLines)
       PROVE  l[1] # "Size"
  <2>1. l \in {pred, insns, total, miss, rate, mpki}
    BY <1>6, <1>7, <1>8, <1>9, <1>14, <1>16
  <2> QED
    BY <1>4, <2>1
<1> QED
  BY <1>7, <1>14, <1>16 DEF pred, size

LEMMA ProfileWrites ==
  ASSUME IInv, WriteProfile
  PROVE  /\ fopened' \in Seq(FILE) /\ Len(fopened') = Len(fopened) /\ DOMAIN fopened' = DOMAIN fopened
         /\ \A f \in DOMAIN fopened :
              /\ fopened'[f].use = fopened[f].use
              /\ fopened'[f].text = IF f = options.prof THEN fopened[f].text \o ProfileLines
                                                        ELSE fopened[f].text
              /\ fopened'[f].open = (fopened[f].open /\ f # options.prof)
<1>1. fopened \in Seq(FILE) /\ options.prof \in 0 .. Len(fopened) /\ DOMAIN fopened = 1 .. Len(fopened)
  BY LenProperties DEF IInv, TypeOK, OptionsHaveLatest, Latest
<1>2. \A f \in DOMAIN fopened : fopened[f].open \in BOOLEAN
  <2>1. \A f \in DOMAIN fopened : fopened[f] \in FILE
    BY <1>1, ElementOfSeq
  <2> QED
    BY <2>1 DEF FILE
<1>3. CASE options.prof = 0
  BY <1>1, <1>2, <1>3 DEF WriteProfile
<1>4. CASE options.prof # 0
  <2>1. fopened' = WriteAndClose(options.prof, ProfileLines)
    BY <1>4 DEF WriteProfile, ProfileFile
  <2>2. ProfileLines \in Lines
    BY ProfileLinesFacts DEF IInv, Counted, OptionsClose, WriteProfile, At
  <2> QED
    BY <1>1, <1>4, <2>1, <2>2, WriteFile
<1> QED
  BY <1>3, <1>4

LEMMA TypeStep ==
  ASSUME IInv, [Next]_vars
  PROVE  TypeOK'
<1>0. TypeOK
  BY DEF IInv
<1>a. /\ argv \in Seq(STRING) /\ argv # <<>> /\ argc \in Int /\ argc <= Len(argv) /\ i \in Nat
      /\ at \in Places
      /\ at \notin {"args", "exit"} => argc >= 2
      /\ fopened \in Seq(FILE)
      /\ options \in [log : Nat, prof : Nat, disasm : BOOLEAN, name : Text, size : Value]
  BY <1>0 DEF TypeOK
<1>1. CASE PassArgs
  <2>1. Len(Given(argv)) \in Nat /\ Len(argv) \in Nat
    BY <1>a, GivenFacts, LenProperties
  <2>2. argc' \in Int /\ argc' <= Len(argv)
    BY <1>1, <1>a, <2>1 DEF PassArgs
  <2>3. /\ at' \in Places /\ i' \in Nat /\ UNCHANGED <<argv, options, files>>
        /\ at' \notin {"args", "exit"} => argc' >= 2
    BY <1>1, <1>a, <2>2 DEF PassArgs, Usage, Exit, Places, At
  <2> QED
    BY <1>0, <2>2, <2>3 DEF files, TypeOK
<1>2. CASE StoreNext
  BY <1>0, <1>2 DEF StoreNext, args, files, TypeOK
<1>3. CASE Disassemble \/ Summary \/ UnknownOption
  <2>1. /\ at = "options" /\ at' \in {"options", "exit"} /\ UNCHANGED args /\ UNCHANGED files
        /\ i' \in {i, i + 1, i + 2}
        /\ options' \in {options, [options EXCEPT !.disasm = TRUE]}
    BY <1>3 DEF Disassemble, Summary, UnknownOption, Option, At, Take, Usage, Exit, files
  <2>2. options' \in [log : Nat, prof : Nat, disasm : BOOLEAN, name : Text, size : Value]
    BY <1>a, <2>1
  <2> QED
    BY <1>0, <1>a, <2>1, <2>2, OptionTypeOK DEF files, TypeOK
<1>4. CASE Log \/ Profile
  BY <1>0, <1>4, OpenForTypeOK DEF Log, Profile
<1>5. CASE Predictor
  <2>1. at = "options" /\ UNCHANGED args /\ UNCHANGED files
    BY <1>5 DEF Predictor, Option, At, Usage
  <2>2. CASE Usage
    BY <1>0, <2>1, <2>2, OptionTypeOK DEF Usage, Exit, files, TypeOK
  <2>3. CASE ~ Usage
    <3>1. /\ i + 1 < argc
          /\ Sized(Operand) => i + 2 < argc
          /\ options' = [options EXCEPT
                           !.name = Operand,
                           !.size = IF Sized(Operand) THEN Atoi[argv[i + 3]] ELSE @]
          /\ Take(IF Sized(Operand) THEN 3 ELSE 2)
      BY <1>a, <1>5, <2>3 DEF Predictor
    <3>2. Operand \in STRING
      BY <1>0, <3>1, OperandTyped
    <3>3. Sized(Operand) => Atoi[argv[i + 3]] \in Value
      <4>1. Sized(Operand) => argv[i + 3] \in STRING
        BY <1>a, <3>1, ElementOfSeq, LenProperties
      <4> QED
        BY <4>1 DEF Value
    <3>4. options' \in [log : Nat, prof : Nat, disasm : BOOLEAN, name : Text, size : Value]
      BY <1>a, <3>1, <3>2, <3>3 DEF Text
    <3> QED
      BY <1>0, <1>a, <2>1, <3>1, <3>4, OptionTypeOK DEF Take, files, TypeOK
  <2> QED
    BY <2>2, <2>3
<1>6. CASE OpenElf
  <2>1. /\ at = "options" /\ UNCHANGED <<argv, argc, disk, options>>
        /\ at' \in {"crash", "exit", "segments"} /\ i' \in {i, 0}
        /\ fopened' \in {fopened, Read(FALSE), Read(TRUE)}
    BY <1>6 DEF OpenElf, At, Fail, Exit, args
  <2>2. argv[2] \in STRING
    BY <1>a, <2>1, ElementOfSeq, LenProperties
  <2>3. \A open \in BOOLEAN : [Opened("elf", argv[2]) EXCEPT !.open = open] \in FILE
    BY <2>2, EmptySeq DEF Opened, FILE, Uses, Lines
  <2>4. fopened' \in Seq(FILE)
    <3>1. ASSUME NEW open \in BOOLEAN PROVE Read(open) \in Seq(FILE)
      <4>1. [Opened("elf", argv[2]) EXCEPT !.open = open] \in FILE
        BY <2>3
      <4> QED
        BY <1>a, <4>1, AppendFile DEF Read
    <3>2. fopened' = fopened \/ fopened' = Read(FALSE) \/ fopened' = Read(TRUE)
      BY <2>1
    <3> QED
      BY <1>a, <3>1, <3>2
  <2> QED
    BY <1>0, <1>a, <2>1, <2>4 DEF Places, TypeOK
<1>7. CASE LoadSegment
  <2>1. /\ at = "segments" /\ UNCHANGED <<argv, argc, disk, options>>
        /\ at' \in {"crash", "exit", "segments"} /\ i' \in {i, i + 1}
        /\ fopened' = fopened \/ fopened' = Closed(fopened, Len(fopened))
    BY <1>7 DEF LoadSegment, At, Fail, Exit, args, CloseElf, Closed
  <2>2. Len(fopened) \in 1 .. Len(fopened)
    BY <1>a, <2>1, EmptySeq, LenProperties DEF IInv, ProgramFileClosed
  <2>3. fopened' \in Seq(FILE)
    BY <1>a, <2>1, <2>2, CloseFile
  <2> QED
    BY <1>0, <1>a, <2>1, <2>3 DEF Places, TypeOK
<1>8. CASE ReadSymbols
  <2> DEFINE closed == Closed(fopened, Len(fopened))
             file   == [Opened("elf", argv[2]) EXCEPT !.open = FALSE]
  <2>1. /\ at = "segments" /\ UNCHANGED <<argv, argc, i, disk, options>>
        /\ at' \in {"exit", "list", "simulate"}
        /\ fopened' = closed \/ fopened' = Append(closed, file)
    BY <1>8 DEF ReadSymbols, At, Exit, args, CloseElf, Closed
  <2>2. Len(fopened) \in 1 .. Len(fopened)
    BY <1>a, <2>1, EmptySeq, LenProperties DEF IInv, ProgramFileClosed
  <2>3. closed \in Seq(FILE)
    BY <1>a, <2>2, CloseFile
  <2>4. argv[2] \in STRING
    BY <1>a, <2>1, ElementOfSeq, LenProperties
  <2>5. file \in FILE
    BY <2>4, EmptySeq DEF Opened, FILE, Uses, Lines
  <2>6. fopened' \in Seq(FILE)
    <3> HIDE DEF closed, file
    <3>1. Append(closed, file) \in Seq(FILE)
      BY <2>3, <2>5, AppendProperties
    <3> QED
      BY <2>1, <2>3, <3>1
  <2> QED
    BY <1>0, <1>a, <2>1, <2>6 DEF Places, TypeOK
<1>9. CASE List \/ Simulate
  BY <1>0, <1>9 DEF List, Simulate, At, Exit, args, files, Places, TypeOK
<1>10. CASE Summarise \/ WriteProfile
  <2>1. /\ at \in {"summary", "profile"} /\ at' \in {"profile", "end"}
        /\ UNCHANGED <<argv, argc, i, disk, options>>
    BY <1>10 DEF Summarise, WriteProfile, At, args
  <2>2. fopened' \in Seq(FILE)
    BY <1>10, SummaryWrites, ProfileWrites
  <2> QED
    BY <1>0, <1>a, <2>1, <2>2 DEF Places, TypeOK
<1>12. CASE UNCHANGED vars
  BY <1>0, <1>12 DEF vars, args, files, TypeOK
<1> QED
  BY <1>1, <1>2, <1>3, <1>4, <1>5, <1>6, <1>7, <1>8, <1>9, <1>10, <1>12 DEF Next

-----------------------------------------------------------------------------
(* Every step but an opening for an option keeps what the options point to:*)
(* only the program's file is added, no file is opened again, and only the *)
(* summary and the profile are written.                                    *)
Kept ==
  /\ options'.log = options.log /\ options'.prof = options.prof
  /\ Len(fopened') >= Len(fopened)
  /\ \A f \in DOMAIN fopened : /\ fopened'[f].use = fopened[f].use
                               /\ fopened'[f].open => fopened[f].open
  /\ \/ at \in {"summary", "profile"}
     \/ \A f \in DOMAIN fopened : fopened'[f].text = fopened[f].text
  /\ \A f \in DOMAIN fopened' : f \notin DOMAIN fopened => fopened'[f].use = "elf"

(* An opening for an option.                                               *)
OpensFor(use) ==
  /\ at = "options" /\ at' = "options"
  /\ fopened' = Append(fopened, Opened(use, Operand))
  /\ options' = [options EXCEPT ![use] = Len(fopened')]

LEMMA KeepsOrOpens ==
  ASSUME IInv, [Next]_vars
  PROVE  Kept \/ OpensFor("log") \/ OpensFor("prof")
<1>1. /\ fopened \in Seq(FILE) /\ fopened' \in Seq(FILE)
      /\ options \in [log : Nat, prof : Nat, disasm : BOOLEAN, name : Text, size : Value]
  BY TypeStep DEF IInv, TypeOK
<1>2. /\ DOMAIN fopened = 1 .. Len(fopened) /\ Len(fopened) \in Nat
      /\ DOMAIN fopened' = 1 .. Len(fopened') /\ Len(fopened') \in Nat
  BY <1>1, LenProperties
<1>o. ASSUME options' = options
      PROVE  options'.log = options.log /\ options'.prof = options.prof
  BY <1>1, <1>o
<1>3. CASE fopened' = fopened /\ options' = options
  BY <1>2, <1>3, <1>o DEF Kept
<1>4. CASE PassArgs \/ StoreNext \/ List \/ Simulate \/ UnknownOption \/ UNCHANGED vars
  BY <1>3, <1>4 DEF PassArgs, StoreNext, List, Simulate, UnknownOption, Usage, vars, files
<1>5. CASE Disassemble \/ Summary \/ Predictor
  <2>1. fopened' = fopened /\ options'.log = options.log /\ options'.prof = options.prof
    BY <1>1, <1>5 DEF Disassemble, Summary, Predictor, Usage, files
  <2> QED
    BY <1>2, <2>1 DEF Kept
<1>6. CASE Log \/ Profile
  BY <1>3, <1>6 DEF Log, Profile, OpenFor, Option, At, Take, Usage, files, OpensFor
<1>p. ASSUME options' = options, Len(fopened') >= Len(fopened),
             \A f \in DOMAIN fopened : /\ fopened'[f].use = fopened[f].use
                                       /\ fopened'[f].open => fopened[f].open,
             at \in {"summary", "profile"} \/ \A f \in DOMAIN fopened : fopened'[f].text = fopened[f].text,
             \A f \in DOMAIN fopened' : f \notin DOMAIN fopened => fopened'[f].use = "elf"
      PROVE  Kept
  <2>1. options'.log = options.log /\ options'.prof = options.prof
    BY <1>o, <1>p
  <2> QED
    BY <2>1, <1>p DEF Kept
<1>7. CASE OpenElf
  <2> DEFINE file(open) == [Opened("elf", argv[2]) EXCEPT !.open = open]
  <2>1. options' = options
    BY <1>7 DEF OpenElf
  <2>2. \/ fopened' = fopened
        \/ \E open \in BOOLEAN : fopened' = Append(fopened, file(open))
    BY <1>7 DEF OpenElf, Read
  <2>3. \A open \in BOOLEAN : file(open).use = "elf"
    BY DEF Opened
  <2> HIDE DEF file
  <2>4. CASE fopened' = fopened
    BY <1>3, <2>1, <2>4
  <2>5. ASSUME NEW open \in BOOLEAN, fopened' = Append(fopened, file(open))
        PROVE  Kept
    <3>1. /\ Len(fopened') = Len(fopened) + 1 /\ fopened'[Len(fopened) + 1] = file(open)
          /\ \A f \in 1 .. Len(fopened) : fopened'[f] = fopened[f]
      BY <1>1, <2>5
    <3>2. \A f \in DOMAIN fopened' : f \notin DOMAIN fopened => fopened'[f].use = "elf"
      BY <1>2, <2>3, <3>1
    <3>3. Len(fopened') >= Len(fopened) /\ \A f \in DOMAIN fopened : fopened'[f] = fopened[f]
      BY <1>2, <3>1
    <3> QED
      BY <1>p, <2>1, <3>2, <3>3
  <2> QED
    BY <2>2, <2>4, <2>5
<1>8. CASE LoadSegment
  <2>1. at = "segments" /\ options' = options
    BY <1>8 DEF LoadSegment, At
  <2>2. fopened' = fopened \/ fopened' = Closed(fopened, Len(fopened))
    BY <1>8 DEF LoadSegment, CloseElf, Closed
  <2>3. Len(fopened) \in 1 .. Len(fopened)
    BY <1>1, <1>2, <2>1, EmptySeq DEF IInv, ProgramFileClosed
  <2>4. CASE fopened' = fopened
    BY <1>3, <2>1, <2>4
  <2>5. CASE fopened' = Closed(fopened, Len(fopened))
    <3>1. /\ Len(fopened') = Len(fopened)
          /\ \A f \in DOMAIN fopened : /\ fopened'[f].use = fopened[f].use
                                       /\ fopened'[f].text = fopened[f].text
                                       /\ fopened'[f].open = (fopened[f].open /\ f # Len(fopened))
      BY <1>1, <2>3, <2>5, CloseFile
    <3>2. \A f \in DOMAIN fopened : fopened'[f].open => fopened[f].open
      BY <3>1
    <3>3. Len(fopened') >= Len(fopened) /\ DOMAIN fopened' = DOMAIN fopened
      BY <1>2, <3>1
    <3> QED
      BY <1>p, <2>1, <3>1, <3>2, <3>3
  <2> QED
    BY <2>2, <2>4, <2>5
<1>9. CASE ReadSymbols
  <2> DEFINE closed == Closed(fopened, Len(fopened))
             file   == [Opened("elf", argv[2]) EXCEPT !.open = FALSE]
  <2>1. at = "segments" /\ options' = options
    BY <1>9 DEF ReadSymbols, At
  <2>2. fopened' = closed \/ fopened' = Append(closed, file)
    BY <1>9 DEF ReadSymbols, CloseElf, Closed
  <2>3. Len(fopened) \in 1 .. Len(fopened)
    BY <1>1, <1>2, <2>1, EmptySeq DEF IInv, ProgramFileClosed
  <2>4. /\ closed \in Seq(FILE) /\ Len(closed) = Len(fopened)
        /\ \A f \in DOMAIN fopened : /\ closed[f].use = fopened[f].use
                                     /\ closed[f].text = fopened[f].text
                                     /\ closed[f].open = (fopened[f].open /\ f # Len(fopened))
    BY <1>1, <2>3, CloseFile
  <2>5. file.use = "elf"
    BY DEF Opened
  <2> HIDE DEF closed, file
  <2>6. \A f \in DOMAIN fopened : closed[f].open => fopened[f].open
    BY <2>4
  <2>7. fopened' = Append(closed, file) =>
          /\ Len(fopened') = Len(closed) + 1
          /\ fopened'[Len(closed) + 1] = file
          /\ \A f \in 1 .. Len(closed) : fopened'[f] = closed[f]
    BY <2>4
  <2>8. Len(fopened') >= Len(fopened) /\ \A f \in DOMAIN fopened : fopened'[f] = closed[f]
    <3>1. CASE fopened' = closed
      BY <1>2, <2>4, <3>1
    <3>2. CASE fopened' = Append(closed, file)
      BY <1>2, <2>4, <2>7, <3>2
    <3> QED
      BY <2>2, <3>1, <3>2
  <2>9. \A f \in DOMAIN fopened' : f \notin DOMAIN fopened => fopened'[f].use = "elf"
    <3>1. CASE fopened' = closed
      BY <1>2, <2>4, <3>1
    <3>2. CASE fopened' = Append(closed, file)
      BY <1>2, <2>4, <2>5, <2>7, <3>2
    <3> QED
      BY <2>2, <3>1, <3>2
  <2> QED
    BY <1>p, <2>1, <2>4, <2>6, <2>8, <2>9
<1>10. CASE Summarise
  <2>1. at = "summary" /\ options' = options
    BY <1>10 DEF Summarise, At
  <2>2. /\ DOMAIN fopened' = DOMAIN fopened /\ Len(fopened') = Len(fopened)
        /\ \A f \in DOMAIN fopened : /\ fopened'[f].use = fopened[f].use
                                     /\ fopened'[f].open => fopened[f].open
    BY <1>10, SummaryWrites
  <2> QED
    BY <1>2, <1>p, <2>1, <2>2
<1>11. CASE WriteProfile
  <2>1. at = "profile" /\ options' = options
    BY <1>11 DEF WriteProfile, At
  <2>2. /\ DOMAIN fopened' = DOMAIN fopened /\ Len(fopened') = Len(fopened)
        /\ \A f \in DOMAIN fopened : /\ fopened'[f].use = fopened[f].use
                                     /\ fopened'[f].open => fopened[f].open
    BY <1>11, ProfileWrites
  <2> QED
    BY <1>2, <1>p, <2>1, <2>2
<1> QED
  BY <1>4, <1>5, <1>6, <1>7, <1>8, <1>9, <1>10, <1>11 DEF Next

LEMMA OpensForFacts ==
  ASSUME IInv, NEW use \in {"log", "prof"}, OpensFor(use)
  PROVE  /\ Len(fopened) \in Nat /\ Len(fopened') = Len(fopened) + 1
         /\ DOMAIN fopened = 1 .. Len(fopened) /\ DOMAIN fopened' = 1 .. (Len(fopened) + 1)
         /\ \A f \in DOMAIN fopened : fopened'[f] = fopened[f]
         /\ fopened'[Len(fopened) + 1].use = use /\ fopened'[Len(fopened) + 1].text = <<>>
         /\ options'[use] = Len(fopened) + 1
         /\ \A other \in {"log", "prof"} \ {use} : options'[other] = options[other]
<1>1. /\ fopened \in Seq(FILE)
      /\ options \in [log : Nat, prof : Nat, disasm : BOOLEAN, name : Text, size : Value]
  BY DEF IInv, TypeOK
<1>2. fopened' = Append(fopened, Opened(use, Operand)) /\ options' = [options EXCEPT ![use] = Len(fopened')]
  BY DEF OpensFor
<1>3. Opened(use, Operand).use = use /\ Opened(use, Operand).text = <<>>
  BY DEF Opened
<1>4. Len(fopened) \in Nat /\ DOMAIN fopened = 1 .. Len(fopened)
  BY <1>1, LenProperties
<1> DEFINE file == Opened(use, Operand)
<1> HIDE DEF file
<1>5. /\ Len(fopened') = Len(fopened) + 1 /\ DOMAIN fopened' = 1 .. (Len(fopened) + 1)
      /\ fopened'[Len(fopened) + 1] = file
      /\ \A f \in 1 .. Len(fopened) : fopened'[f] = fopened[f]
  BY <1>1, <1>2, <1>4 DEF file
<1>6. /\ options'[use] = Len(fopened')
      /\ \A other \in {"log", "prof"} \ {use} : options'[other] = options[other]
  BY <1>1, <1>2
<1> QED
  BY <1>3, <1>4, <1>5, <1>6 DEF file

LEMMA LatestStep ==
  ASSUME IInv, [Next]_vars
  PROVE  OptionsHaveLatest'
<1>1. /\ Len(fopened) \in Nat /\ DOMAIN fopened = 1 .. Len(fopened)
      /\ Len(fopened') \in Nat /\ DOMAIN fopened' = 1 .. Len(fopened')
  BY TypeStep, LenProperties DEF IInv, TypeOK
<1>2. Latest("log") /\ Latest("prof")
  BY DEF IInv, OptionsHaveLatest
<1>3. CASE Kept
  <2>1. options'["log"] = options["log"] /\ options'["prof"] = options["prof"]
    BY <1>3 DEF Kept
  <2> QED
    BY <1>1, <1>2, <1>3, <2>1 DEF Kept, Latest, OptionsHaveLatest
<1>4. ASSUME NEW use \in {"log", "prof"}, OpensFor(use)
      PROVE  OptionsHaveLatest'
  <2>0. /\ Len(fopened) \in Nat /\ Len(fopened') = Len(fopened) + 1
        /\ DOMAIN fopened = 1 .. Len(fopened) /\ DOMAIN fopened' = 1 .. (Len(fopened) + 1)
        /\ \A f \in DOMAIN fopened : fopened'[f] = fopened[f]
        /\ fopened'[Len(fopened) + 1].use = use
        /\ options'[use] = Len(fopened) + 1
        /\ \A other \in {"log", "prof"} \ {use} : options'[other] = options[other]
    BY <1>4, OpensForFacts
  <2>1. Latest(use)'
    BY <2>0 DEF Latest
  <2>2. ASSUME NEW other \in {"log", "prof"} \ {use}
        PROVE  Latest(other)'
    BY <1>2, <2>0 DEF Latest
  <2> QED
    BY <2>1, <2>2 DEF OptionsHaveLatest
<1> QED
  BY <1>3, <1>4, KeepsOrOpens

(* What is run or listed has passed the checks, and is not written over.   *)
LEMMA HeadersStep ==
  ASSUME IInv, [Next]_vars
  PROVE  HeadersPassed' /\ OnlyWholePrograms'
<1>1. /\ i \in Nat /\ HeadersPassed /\ OnlyWholePrograms
      /\ \A name \in DOMAIN disk : disk[name].phdrs \in Seq(Elf32_Phdr)
  BY DEF IInv, TypeOK
<1>2. CASE at' \notin {"segments", "list", "simulate", "summary", "profile", "end"}
  BY <1>2 DEF HeadersPassed, OnlyWholePrograms, Loaded
<1>3. CASE UNCHANGED <<at, argv, disk, i>>
  BY <1>1, <1>3 DEF HeadersPassed, OnlyWholePrograms, Loaded, Elf
<1>4. CASE PassArgs \/ UnknownOption \/ Disassemble \/ Log \/ Profile \/ Summary \/ Predictor
  BY <1>2, <1>4 DEF PassArgs, UnknownOption, Disassemble, Log, Profile, OpenFor, Summary, Predictor,
                    Option, At, Take, Usage, Exit
<1>5. CASE OpenElf
  <2>1. CASE at' = "segments"
    <3>1. /\ argv[2] \in DOMAIN disk /\ IsElf(Elf) /\ i' = 0 /\ argv' = argv /\ disk' = disk
      BY <1>5, <2>1 DEF OpenElf, Fail, Exit, At, args
    <3>2. Elf' = Elf /\ Len(Elf.phdrs) \in Nat
      BY <1>1, <3>1, LenProperties DEF Elf
    <3> QED
      BY <2>1, <3>1, <3>2 DEF HeadersPassed, OnlyWholePrograms, Loaded
  <2>2. CASE at' # "segments"
    BY <1>2, <1>5, <2>2 DEF OpenElf, Fail, Exit
  <2> QED
    BY <2>1, <2>2
<1>6. CASE LoadSegment
  <2>1. CASE at' # "segments"
    BY <1>2, <1>6, <2>1 DEF LoadSegment, Fail, Exit, At
  <2>2. CASE at' = "segments"
    <3>1. /\ at = "segments" /\ i < Len(Elf.phdrs) /\ argv' = argv /\ disk' = disk
          /\ i' = i + 1 /\ Elf.phdrs[i + 1].whole
          /\ Loadable(Elf.phdrs[i + 1]) => ~ ShortSegment(Elf.phdrs[i + 1])
      BY <1>6, <2>2 DEF LoadSegment, Fail, Exit, At, args, Segment
    <3>2. Elf' = Elf /\ Len(Elf.phdrs) \in Nat
      BY <1>1, <3>1, LenProperties DEF Elf, HeadersPassed
    <3>3. \A k \in 1 .. (i + 1) : /\ Elf.phdrs[k].whole
                                  /\ Loadable(Elf.phdrs[k]) => ~ ShortSegment(Elf.phdrs[k])
      BY <1>1, <3>1 DEF HeadersPassed
    <3>4. argv[2] \in DOMAIN disk /\ IsElf(Elf) /\ i + 1 <= Len(Elf.phdrs)
      BY <1>1, <3>1, <3>2 DEF HeadersPassed
    <3> QED
      BY <2>2, <3>1, <3>2, <3>3, <3>4 DEF HeadersPassed, OnlyWholePrograms, Loaded
  <2> QED
    BY <2>1, <2>2
<1>7. CASE ReadSymbols
  <2>1. CASE at' = "exit"
    BY <1>2, <2>1
  <2>2. CASE at' # "exit"
    <3>1. /\ at = "segments" /\ i = Len(Elf.phdrs) /\ SymbolsRead(Elf)
          /\ at' \in {"list", "simulate"} /\ argv' = argv /\ disk' = disk
      BY <1>7, <2>2 DEF ReadSymbols, Exit, At, args
    <3>2. Elf' = Elf /\ DOMAIN Elf.phdrs = 1 .. i
      BY <1>1, <3>1, LenProperties DEF Elf, HeadersPassed
    <3>3. \A k \in DOMAIN Elf.phdrs : /\ Elf.phdrs[k].whole
                                      /\ Loadable(Elf.phdrs[k]) => ~ ShortSegment(Elf.phdrs[k])
      BY <1>1, <3>1, <3>2 DEF HeadersPassed
    <3> QED
      BY <3>1, <3>2, <3>3 DEF HeadersPassed, OnlyWholePrograms
  <2> QED
    BY <2>1, <2>2
<1>8. CASE List \/ Simulate \/ Summarise \/ WriteProfile
  <2>1. Loaded /\ at # "segments" /\ at' # "segments" /\ argv' = argv /\ disk' = disk
    BY <1>8 DEF List, Simulate, Summarise, WriteProfile, At, Exit, args, files, Loaded
  <2>2. Elf' = Elf
    BY <2>1 DEF Elf
  <2> QED
    BY <1>1, <2>1, <2>2 DEF HeadersPassed, OnlyWholePrograms
<1>9. CASE StoreNext \/ UNCHANGED vars
  BY <1>3, <1>9 DEF StoreNext, vars, args, files
<1> QED
  BY <1>4, <1>5, <1>6, <1>7, <1>8, <1>9 DEF Next

LEMMA ProgramFileStep ==
  ASSUME IInv, [Next]_vars
  PROVE  ProgramFileClosed'
<1>1. /\ fopened \in Seq(FILE) /\ DOMAIN fopened = 1 .. Len(fopened) /\ Len(fopened) \in Nat
      /\ fopened' \in Seq(FILE) /\ DOMAIN fopened' = 1 .. Len(fopened') /\ Len(fopened') \in Nat
  BY TypeStep, LenProperties DEF IInv, TypeOK
<1>2. ProgramFileClosed
  BY DEF IInv
<1>3. CASE at' \in {"exit", "crash"}
  BY <1>3 DEF ProgramFileClosed, Loaded
<1>4. CASE at \in {"args", "options"} /\ at' \in {"args", "options"} /\ fopened' = fopened
  BY <1>2, <1>4 DEF ProgramFileClosed, Loaded
<1>5. CASE PassArgs \/ UnknownOption \/ Disassemble \/ Summary \/ Predictor
  BY <1>3, <1>4, <1>5 DEF PassArgs, UnknownOption, Disassemble, Summary, Predictor,
                          Option, At, Take, Usage, Exit, files
<1>6. CASE Log \/ Profile
  <2>1. PICK use \in {"log", "prof"} : Usage \/ OpensFor(use)
    BY <1>6 DEF Log, Profile, OpenFor, Option, At, Take, OpensFor
  <2>2. CASE Usage
    BY <1>3, <2>2 DEF Usage, Exit
  <2>3. CASE OpensFor(use)
    <3>1. /\ Len(fopened') = Len(fopened) + 1 /\ fopened'[Len(fopened) + 1].use = use
          /\ \A f \in DOMAIN fopened : fopened'[f] = fopened[f]
      BY <2>3, OpensForFacts
    <3>2. at = "options" /\ at' = "options"
      BY <2>3 DEF OpensFor
    <3>3. \A f \in DOMAIN fopened : fopened[f].use # "elf"
      BY <1>2, <3>2 DEF ProgramFileClosed
    <3>4. \A f \in DOMAIN fopened' : fopened'[f].use # "elf"
      BY <1>1, <3>1, <3>3
    <3> QED
      BY <3>2, <3>4 DEF ProgramFileClosed, Loaded
  <2> QED
    BY <2>1, <2>2, <2>3
<1>7. CASE OpenElf
  <2> DEFINE file == [Opened("elf", argv[2]) EXCEPT !.open = TRUE]
  <2>1. CASE at' # "segments"
    BY <1>3, <1>7, <2>1 DEF OpenElf, Fail, Exit
  <2>2. CASE at' = "segments"
    <3>1. at = "options" /\ fopened' = Append(fopened, file)
      BY <1>7, <2>2 DEF OpenElf, Fail, Exit, At, Read
    <3> HIDE DEF file
    <3>2. Len(fopened') = Len(fopened) + 1 /\ \A f \in 1 .. Len(fopened) : fopened'[f] = fopened[f]
      BY <1>1, <3>1
    <3>3. \A f \in DOMAIN fopened : fopened[f].use # "elf"
      BY <1>2, <3>1 DEF ProgramFileClosed
    <3>4. \A f \in DOMAIN fopened' : fopened'[f].use = "elf" => f = Len(fopened')
      BY <1>1, <3>2, <3>3
    <3>5. fopened' # <<>>
      BY <1>1, <3>2, EmptySeq
    <3> QED
      BY <2>2, <3>4, <3>5 DEF ProgramFileClosed, Loaded
  <2> QED
    BY <2>1, <2>2
<1>8. CASE LoadSegment
  <2>1. CASE at' # "segments"
    BY <1>3, <1>8, <2>1 DEF LoadSegment, Fail, Exit, At
  <2>2. CASE at' = "segments"
    BY <1>2, <1>8, <2>2 DEF LoadSegment, Fail, Exit, At, ProgramFileClosed, Loaded
  <2> QED
    BY <2>1, <2>2
<1>9. CASE ReadSymbols
  <2> DEFINE closed == Closed(fopened, Len(fopened))
             file   == [Opened("elf", argv[2]) EXCEPT !.open = FALSE]
  <2>1. CASE at' = "exit"
    BY <1>3, <2>1
  <2>2. CASE at' # "exit"
    <3>1. at = "segments" /\ at' \in {"list", "simulate"} /\ fopened' = Append(closed, file)
      BY <1>9, <2>2 DEF ReadSymbols, Exit, At, Closed
    <3>2. /\ fopened # <<>>
          /\ \A f \in DOMAIN fopened : fopened[f].use = "elf" /\ fopened[f].open => f = Len(fopened)
      BY <1>2, <3>1 DEF ProgramFileClosed
    <3>3. Len(fopened) \in 1 .. Len(fopened)
      BY <1>1, <3>2, EmptySeq
    <3>4. /\ closed \in Seq(FILE) /\ Len(closed) = Len(fopened)
          /\ \A f \in DOMAIN fopened : /\ closed[f].use = fopened[f].use
                                       /\ closed[f].open = (fopened[f].open /\ f # Len(fopened))
      BY <1>1, <3>3, CloseFile
    <3>5. file.open = FALSE
      BY DEF Opened
    <3>6. \A f \in DOMAIN fopened : closed[f].use = "elf" => ~ closed[f].open
      BY <3>2, <3>4
    <3> HIDE DEF closed, file
    <3>7. /\ Len(fopened') = Len(closed) + 1 /\ fopened'[Len(closed) + 1] = file
          /\ \A f \in 1 .. Len(closed) : fopened'[f] = closed[f]
      BY <3>1, <3>4
    <3>8. \A f \in DOMAIN fopened' : fopened'[f].use = "elf" => ~ fopened'[f].open
      BY <1>1, <3>4, <3>5, <3>6, <3>7
    <3> QED
      BY <3>1, <3>8 DEF ProgramFileClosed
  <2> QED
    BY <2>1, <2>2
<1>10. CASE List \/ Simulate \/ Summarise \/ WriteProfile
  <2>1. /\ Loaded /\ at' \notin {"args", "options", "segments"}
        /\ fopened' = fopened \/ Summarise \/ WriteProfile
    BY <1>10 DEF List, Simulate, Summarise, WriteProfile, At, Exit, files, Loaded
  <2>2. /\ DOMAIN fopened' = DOMAIN fopened
        /\ \A f \in DOMAIN fopened : /\ fopened'[f].use = fopened[f].use
                                     /\ fopened'[f].open => fopened[f].open
    BY <2>1, SummaryWrites, ProfileWrites
  <2>3. \A f \in DOMAIN fopened : fopened[f].use = "elf" => ~ fopened[f].open
    BY <1>2, <2>1 DEF ProgramFileClosed
  <2>4. \A f \in DOMAIN fopened' : fopened'[f].use = "elf" => ~ fopened'[f].open
    BY <2>2, <2>3
  <2> QED
    BY <2>1, <2>4 DEF ProgramFileClosed
<1>11. CASE StoreNext \/ UNCHANGED vars
  BY <1>2, <1>11 DEF StoreNext, vars, files, ProgramFileClosed, Loaded
<1> QED
  BY <1>5, <1>6, <1>7, <1>8, <1>9, <1>10, <1>11 DEF Next

LEMMA OptionsCloseStep ==
  ASSUME IInv, [Next]_vars
  PROVE  OptionsClose'
<1>1. /\ OptionsClose /\ options.log \in 0 .. Len(fopened) /\ options.prof \in 0 .. Len(fopened)
      /\ DOMAIN fopened = 1 .. Len(fopened) /\ Len(fopened) \in Nat
      /\ options \in [log : Nat, prof : Nat, disasm : BOOLEAN, name : Text, size : Value]
  BY LenProperties DEF IInv, TypeOK, OptionsHaveLatest, Latest
<1>2. CASE at' \in {"args", "options", "segments", "exit", "crash"}
  BY <1>2 DEF OptionsClose
<1>3. CASE PassArgs \/ UnknownOption \/ Disassemble \/ Log \/ Profile \/ Summary \/ Predictor
           \/ OpenElf \/ LoadSegment
  BY <1>2, <1>3 DEF PassArgs, UnknownOption, Disassemble, Log, Profile, OpenFor, Summary, Predictor,
                    Option, At, Take, Usage, Exit, OpenElf, LoadSegment, Fail
<1>4. CASE ReadSymbols
  BY <1>4 DEF ReadSymbols, Exit, OptionsClose
<1>5. CASE List \/ Simulate
  BY <1>1, <1>5 DEF List, Simulate, Exit, At, files, OptionsClose
<1>6. CASE Summarise
  <2>1. at' = "profile" /\ at = "summary" /\ options' = options
    BY <1>6 DEF Summarise, At
  <2>2. \A f \in DOMAIN fopened : fopened'[f].open = (fopened[f].open /\ f # options.log)
    BY <1>6, SummaryWrites
  <2>3. ASSUME options.log # 0 PROVE ~ fopened'[options.log].open
    <3> DEFINE last == options.log
    <3>1. last \in DOMAIN fopened
      BY <1>1, <2>3
    <3> HIDE DEF last
    <3>2. fopened'[last].open = FALSE
      BY <2>2, <3>1 DEF last
    <3> QED
      BY <3>2 DEF last
  <2> QED
    BY <1>1, <2>1, <2>3 DEF OptionsClose
<1>7. CASE WriteProfile
  <2>1. at' = "end" /\ at = "profile" /\ options' = options
    BY <1>7 DEF WriteProfile, At
  <2>2. \A f \in DOMAIN fopened : fopened'[f].open = (fopened[f].open /\ f # options.prof)
    BY <1>7, ProfileWrites
  <2>3. ASSUME options.prof # 0 PROVE ~ fopened'[options.prof].open
    <3> DEFINE last == options.prof
    <3>1. last \in DOMAIN fopened
      BY <1>1, <2>3
    <3> HIDE DEF last
    <3>2. fopened'[last].open = FALSE
      BY <2>2, <3>1 DEF last
    <3> QED
      BY <3>2 DEF last
  <2>4. ~ options.disasm /\ options.log # 0 => ~ fopened'[options.log].open
    BY <1>1, <2>1, <2>2 DEF OptionsClose
  <2> QED
    BY <1>1, <2>1, <2>3, <2>4 DEF OptionsClose
<1>8. CASE StoreNext \/ UNCHANGED vars
  BY <1>1, <1>8 DEF StoreNext, vars, files, OptionsClose
<1> QED
  BY <1>3, <1>4, <1>5, <1>6, <1>7, <1>8 DEF Next

LEMMA CountedStep ==
  ASSUME IInv, [Next]_vars
  PROVE  Counted'
<1>1. Counted /\ OptionsClose
  BY DEF IInv
<1>2. CASE at' \in {"args", "options", "segments", "list", "simulate", "exit", "crash"}
  BY <1>2 DEF Counted
<1>3. CASE PassArgs \/ UnknownOption \/ Disassemble \/ Log \/ Profile \/ Summary \/ Predictor
           \/ OpenElf \/ LoadSegment \/ ReadSymbols
  BY <1>2, <1>3 DEF PassArgs, UnknownOption, Disassemble, Log, Profile, OpenFor, Summary, Predictor,
                    Option, At, Take, Usage, Exit, OpenElf, LoadSegment, Fail, ReadSymbols
<1>4. CASE List
  BY <1>1, <1>2, <1>4 DEF List, At, Exit, OptionsClose, Counted
<1>5. CASE Simulate
  <2>1. CASE at' = "exit"
    BY <1>2, <2>1
  <2>2. CASE at' # "exit"
    <3>1. PICK insns \in 1 .. MaxInsns, total \in 0 .. MaxInsns, missed \in 0 .. MaxInsns :
            /\ predictor' = NoPredictor => total = 0
            /\ sim' = <<insns, total, missed>>
      BY <1>5, <2>2 DEF Simulate, Exit
    <3>2. options' = options /\ predictor' = build_predictor(options.name, options.size)
      BY <1>5 DEF Simulate
    <3>3. insns \in Nat /\ total \in Nat /\ missed \in Nat
      OBVIOUS
    <3>4. sim' \in Nat \X Nat \X Nat /\ sim'[2] = total
      BY <3>1, <3>3
    <3> QED
      BY <3>1, <3>2, <3>4 DEF Counted
  <2> QED
    BY <2>1, <2>2
<1>6. CASE Summarise \/ WriteProfile
  <2>1. at \in {"summary", "profile"} /\ UNCHANGED <<options, predictor, sim>>
    BY <1>6 DEF Summarise, WriteProfile, At, late
  <2> QED
    BY <1>1, <2>1 DEF Counted, OptionsClose
<1>7. CASE StoreNext \/ UNCHANGED vars
  BY <1>1, <1>7 DEF StoreNext, vars, late, Counted
<1> QED
  BY <1>3, <1>4, <1>5, <1>6, <1>7 DEF Next

LEMMA ProfileStep ==
  ASSUME IInv, [Next]_vars
  PROVE  ProfileWritten'
<1>1. /\ options.log \in 0 .. Len(fopened) /\ options.prof \in 0 .. Len(fopened)
      /\ options.log # 0 => fopened[options.log].use = "log"
      /\ options.prof # 0 => fopened[options.prof].use = "prof"
      /\ DOMAIN fopened = 1 .. Len(fopened) /\ Len(fopened) \in Nat
      /\ options \in [log : Nat, prof : Nat, disasm : BOOLEAN, name : Text, size : Value]
      /\ ProfileWritten /\ OptionsClose
  BY LenProperties DEF IInv, TypeOK, OptionsHaveLatest, Latest
<1>2. ASSUME Kept, at \notin {"summary", "profile"},
             at # "end" \/ options.disasm, at' # "end" \/ options'.disasm
      PROVE  ProfileWritten'
  BY <1>1, <1>2 DEF Kept, ProfileWritten
<1>3. ASSUME OpensFor("log") \/ OpensFor("prof")
      PROVE  ProfileWritten'
  <2>1. at = "options" /\ at' = "options"
    BY <1>3 DEF OpensFor
  <2>2. CASE OpensFor("prof")
    <3>1. options'["prof"] = Len(fopened) + 1 /\ fopened'[Len(fopened) + 1].text = <<>>
      BY <2>2, OpensForFacts
    <3> QED
      BY <2>1, <3>1 DEF ProfileWritten
  <2>3. CASE OpensFor("log")
    <3>1. options'["prof"] = options["prof"] /\ \A f \in DOMAIN fopened : fopened'[f] = fopened[f]
      BY <2>3, OpensForFacts
    <3> QED
      BY <1>1, <2>1, <3>1 DEF ProfileWritten
  <2> QED
    BY <1>3, <2>2, <2>3
<1>4. CASE PassArgs \/ UnknownOption \/ Disassemble \/ Log \/ Profile \/ Summary \/ Predictor
           \/ OpenElf \/ LoadSegment \/ ReadSymbols \/ List \/ Simulate
  <2>1. at \notin {"summary", "profile", "end"} /\ (at' # "end" \/ options'.disasm)
    BY <1>1, <1>4 DEF PassArgs, UnknownOption, Disassemble, Log, Profile, OpenFor, Summary, Predictor,
                 Option, At, Take, Usage, Exit, OpenElf, LoadSegment, Fail, ReadSymbols, List, Simulate,
                 OptionsClose
  <2> QED
    BY <1>2, <1>3, <2>1, KeepsOrOpens
<1>5. CASE Summarise
  <2>1. at' = "profile" /\ at = "summary" /\ options' = options
    BY <1>5 DEF Summarise, At
  <2>2. \A f \in DOMAIN fopened : f # options.log => fopened'[f].text = fopened[f].text
    BY <1>5, SummaryWrites
  <2>3. options.prof # 0 => options.prof \in DOMAIN fopened /\ options.prof # options.log
    BY <1>1
  <2> QED
    BY <1>1, <2>1, <2>2, <2>3 DEF ProfileWritten
<1>6. CASE WriteProfile
  <2>1. /\ at' = "end" /\ at = "profile" /\ options' = options /\ sim' = sim
        /\ sim \in Nat \X Nat \X Nat /\ ~ options.disasm
    BY <1>6 DEF WriteProfile, At, late, IInv, Counted, OptionsClose
  <2>2. \A f \in DOMAIN fopened :
          fopened'[f].text = IF f = options.prof THEN fopened[f].text \o ProfileLines
                                                ELSE fopened[f].text
    BY <1>6, ProfileWrites
  <2>3. ProfileLines' = ProfileLines
    BY <2>1 DEF ProfileLines
  <2>4. <<>> \o ProfileLines = ProfileLines
    BY <2>1, ProfileLinesFacts, ConcatEmptySeq DEF Lines
  <2>5. options.prof # 0 => fopened[options.prof].text = <<>>
    BY <1>1, <2>1 DEF ProfileWritten
  <2>6. ASSUME options.prof # 0 PROVE fopened'[options.prof].text = ProfileLines
    <3> DEFINE last == options.prof
    <3>1. last \in DOMAIN fopened
      BY <1>1, <2>6
    <3> HIDE DEF last
    <3>2. fopened'[last].text = fopened[last].text \o ProfileLines
      BY <2>2, <3>1 DEF last
    <3> QED
      BY <2>4, <2>5, <2>6, <3>2 DEF last
  <2> QED
    BY <2>1, <2>3, <2>6 DEF ProfileWritten
<1>7. CASE StoreNext \/ UNCHANGED vars
  <2>1. UNCHANGED <<at, options, fopened, sim>>
    BY <1>7 DEF StoreNext, vars, files, late
  <2>2. ProfileLines' = ProfileLines
    BY <2>1 DEF ProfileLines
  <2> QED
    BY <1>1, <2>1, <2>2 DEF ProfileWritten
<1> QED
  BY <1>4, <1>5, <1>6, <1>7 DEF Next

LEMMA SummaryStep ==
  ASSUME IInv, [Next]_vars
  PROVE  SummaryWritten'
<1>1. /\ options.log \in 0 .. Len(fopened) /\ options.prof \in 0 .. Len(fopened)
      /\ options.log # 0 => fopened[options.log].use = "log"
      /\ options.prof # 0 => fopened[options.prof].use = "prof"
      /\ \A f \in DOMAIN fopened : fopened[f].use = "log" => f <= options.log
      /\ DOMAIN fopened = 1 .. Len(fopened) /\ Len(fopened) \in Nat
      /\ options \in [log : Nat, prof : Nat, disasm : BOOLEAN, name : Text, size : Value]
      /\ SummaryWritten /\ OptionsClose
  BY LenProperties DEF IInv, TypeOK, OptionsHaveLatest, Latest
<1>2. ASSUME ~ Summarised, ~ Summarised'
      PROVE  /\ \A f : LogText(f) = <<>> /\ LogText(f)' = <<>>
             /\ \A f \in DOMAIN fopened : fopened[f].use = "log" => fopened[f].text = <<>>
             /\ stdout = <<>>
             /\ stdout' = <<>> =>
                  (SummaryWritten' <=> \A f \in DOMAIN fopened' : fopened'[f].use = "log" => fopened'[f].text = <<>>)
  BY <1>1, <1>2 DEF SummaryWritten, LogText
<1>3. ASSUME ~ Summarised, ~ Summarised', at # "summary", stdout' = stdout
      PROVE  SummaryWritten'
  <2>1. at # "profile" \/ options.disasm
    BY <1>3 DEF Summarised
  <2>2. at \notin {"summary", "profile"}
    BY <1>1, <1>3, <2>1 DEF OptionsClose
  <2>3. CASE Kept
    BY <1>2, <1>3, <2>2, <2>3 DEF Kept
  <2>4. ASSUME NEW use \in {"log", "prof"}, OpensFor(use)
        PROVE  SummaryWritten'
    <3>1. /\ DOMAIN fopened = 1 .. Len(fopened) /\ DOMAIN fopened' = 1 .. (Len(fopened) + 1)
          /\ \A f \in DOMAIN fopened : fopened'[f] = fopened[f]
          /\ fopened'[Len(fopened) + 1].text = <<>>
      BY <2>4, OpensForFacts
    <3>2. \A f \in DOMAIN fopened' : fopened'[f].use = "log" => fopened'[f].text = <<>>
      BY <1>1, <1>2, <1>3, <3>1
    <3> QED
      BY <1>2, <1>3, <3>2
  <2> QED
    BY <2>3, <2>4, KeepsOrOpens
<1>4. CASE PassArgs \/ UnknownOption \/ Disassemble \/ Log \/ Profile \/ Summary \/ Predictor
           \/ OpenElf \/ LoadSegment \/ ReadSymbols \/ Simulate
  <2>1. at \notin {"summary", "profile", "end"} /\ at' \notin {"profile", "end"} /\ stdout' = stdout
    BY <1>4 DEF PassArgs, UnknownOption, Disassemble, Log, Profile, OpenFor, Summary, Predictor,
                Option, At, Take, Usage, Exit, OpenElf, LoadSegment, Fail, ReadSymbols, Simulate, late
  <2> QED
    BY <1>3, <2>1 DEF Summarised
<1>5. CASE List
  <2>1. at = "list" /\ options.disasm /\ options' = options /\ stdout' = stdout
    BY <1>1, <1>5 DEF List, At, OptionsClose
  <2> QED
    BY <1>3, <2>1 DEF Summarised
<1>6. CASE Summarise
  <2>1. /\ at = "summary" /\ at' = "profile" /\ options' = options /\ sim' = sim /\ ~ options.disasm
        /\ ~ Summarised /\ Summarised'
    BY <1>1, <1>6 DEF Summarise, At, OptionsClose, Summarised
  <2>2. SummaryLine' = SummaryLine
    BY <2>1 DEF SummaryLine
  <2>3. /\ DOMAIN fopened' = DOMAIN fopened
        /\ \A f \in DOMAIN fopened :
             /\ fopened'[f].use = fopened[f].use
             /\ fopened'[f].text = IF f = options.log THEN fopened[f].text \o <<SummaryLine>>
                                                      ELSE fopened[f].text
    BY <1>6, SummaryWrites
  <2>4. /\ \A f \in DOMAIN fopened : fopened[f].use = "log" => fopened[f].text = <<>>
        /\ stdout = <<>>
    BY <1>1, <2>1 DEF SummaryWritten, LogText
  <2>5. <<>> \o <<SummaryLine>> = <<SummaryLine>> /\ Append(<<>>, SummaryLine) = <<SummaryLine>>
    OBVIOUS
  <2>6. stdout' = IF options.log = 0 THEN <<SummaryLine>> ELSE <<>>
    BY <1>6, <2>4, <2>5 DEF Summarise
  <2>7. ASSUME NEW f \in DOMAIN fopened', fopened'[f].use = "log"
        PROVE  fopened'[f].text = IF f = options.log THEN <<SummaryLine>> ELSE <<>>
    BY <2>3, <2>4, <2>5, <2>7
  <2> QED
    BY <2>1, <2>2, <2>6, <2>7 DEF SummaryWritten, LogText
<1>7. CASE WriteProfile
  <2>1. /\ at = "profile" /\ at' = "end" /\ options' = options /\ sim' = sim /\ stdout' = stdout
        /\ ~ options.disasm /\ Summarised /\ Summarised'
    BY <1>1, <1>7 DEF WriteProfile, At, late, OptionsClose, Summarised
  <2>2. SummaryLine' = SummaryLine
    BY <2>1 DEF SummaryLine
  <2>3. /\ DOMAIN fopened' = DOMAIN fopened
        /\ \A f \in DOMAIN fopened :
             /\ fopened'[f].use = fopened[f].use
             /\ f # options.prof => fopened'[f].text = fopened[f].text
    BY <1>7, ProfileWrites
  <2>4. \A f \in DOMAIN fopened : fopened[f].use = "log" => f # options.prof
    BY <1>1
  <2> QED
    BY <1>1, <2>1, <2>2, <2>3, <2>4 DEF SummaryWritten, LogText
<1>8. CASE StoreNext \/ UNCHANGED vars
  <2>1. UNCHANGED <<at, options, fopened, sim, stdout>>
    BY <1>8 DEF StoreNext, vars, files, late
  <2>2. SummaryLine' = SummaryLine
    BY <2>1 DEF SummaryLine
  <2> QED
    BY <1>1, <2>1, <2>2 DEF SummaryWritten, LogText, Summarised
<1> QED
  BY <1>4, <1>5, <1>6, <1>7, <1>8 DEF Next

LEMMA InitIInv == Init => IInv
<1> SUFFICES ASSUME Init PROVE IInv
  OBVIOUS
<1>1. TypeOK
  BY InitTypeOK
<1>2. at = "args" /\ fopened = <<>> /\ options["log"] = 0 /\ options["prof"] = 0
  BY DEF Init
<1>3. DOMAIN fopened = {} /\ Len(fopened) = 0
  BY <1>2
<1>4. OptionsHaveLatest
  BY <1>2, <1>3 DEF OptionsHaveLatest, Latest
<1>5. HeadersPassed /\ OnlyWholePrograms /\ OptionsClose /\ Counted
  BY <1>2 DEF HeadersPassed, OnlyWholePrograms, OptionsClose, Counted, Loaded
<1>6. ProgramFileClosed
  BY <1>2, <1>3 DEF ProgramFileClosed, Loaded
<1>7. ProfileWritten
  BY <1>2 DEF ProfileWritten
<1>8. SummaryWritten
  BY <1>2, <1>3 DEF Init, SummaryWritten, Summarised
<1> QED
  BY <1>1, <1>4, <1>5, <1>6, <1>7, <1>8 DEF IInv

LEMMA StepIInv == IInv /\ [Next]_vars => IInv'
<1> SUFFICES ASSUME IInv, [Next]_vars PROVE IInv'
  OBVIOUS
<1> QED
  BY TypeStep, HeadersStep, LatestStep, ProgramFileStep, OptionsCloseStep, CountedStep, ProfileStep,
     SummaryStep
  DEF IInv

-----------------------------------------------------------------------------
(* Nothing is run or listed from a file that any check of the loader       *)
(* refuses, or that an option of the same command line truncated           *)
(* (main.c:99, 111, 130 and 133).                                          *)
THEOREM WholePrograms == Spec => []OnlyWholePrograms
<1>1. IInv => OnlyWholePrograms
  BY DEF IInv
<1> QED
  BY <1>1, InitIInv, StepIInv, PTL DEF Spec

(* When main returns from a simulation, the program's file is closed each  *)
(* time it was opened, and a log or a profile is open only if a later -l   *)
(* or -p replaced it (main.c:99, 111, 157 and 180, read_elf.c:105).        *)
THEOREM AllClosed == Spec => []FilesClosed
<1>1. IInv => FilesClosed
  <2> SUFFICES ASSUME IInv, at = "end", ~ options.disasm,
                      NEW f \in DOMAIN fopened, fopened[f].open
               PROVE  /\ fopened[f].use \in {"log", "prof"}
                      /\ \E g \in (f + 1) .. Len(fopened) : fopened[g].use = fopened[f].use
    BY DEF FilesClosed
  <2>1. fopened[f].use \in {"log", "prof"}
    <3>1. fopened[f].use # "elf"
      BY DEF IInv, ProgramFileClosed, Loaded
    <3>2. fopened[f] \in FILE
      BY ElementOfSeq, LenProperties DEF IInv, TypeOK
    <3> QED
      BY <3>1, <3>2 DEF FILE, Uses
  <2> DEFINE use == fopened[f].use
  <2>2. Latest(use)
    BY <2>1 DEF IInv, OptionsHaveLatest
  <2>3. f <= options[use] /\ f \in 1 .. Len(fopened) /\ Len(fopened) \in Nat
    BY <2>2, LenProperties DEF IInv, TypeOK, Latest
  <2>4. options[use] # 0 => ~ fopened[options[use]].open
    BY <2>1 DEF IInv, OptionsClose
  <2>5. options[use] \in (f + 1) .. Len(fopened) /\ fopened[options[use]].use = use
    BY <2>2, <2>3, <2>4 DEF Latest
  <2> QED
    BY <2>1, <2>5
<1> QED
  BY <1>1, InitIInv, StepIInv, PTL DEF Spec

(* A simulation that returns leaves its summary in the file of the last -l *)
(* or, without a log, on stdout, and nowhere else that stands for one;  -s *)
(* makes no difference (main.c:102-108, 155-160).                          *)
THEOREM SummaryPlaced == Spec => []SummaryOnce
<1>1. IInv => SummaryOnce
  <2> DEFINE logs == {f \in DOMAIN fopened : fopened[f].use = "log"}
  <2> SUFFICES ASSUME IInv, at = "end", ~ options.disasm
               PROVE  /\ stdout = IF logs = {} THEN <<SummaryLine>> ELSE <<>>
                      /\ \A f \in logs :
                           fopened[f].text = IF \E g \in logs : g > f THEN <<>> ELSE <<SummaryLine>>
    BY DEF SummaryOnce
  <2>1. /\ options.log \in 0 .. Len(fopened) /\ DOMAIN fopened = 1 .. Len(fopened)
        /\ options.log # 0 => options.log \in logs
        /\ \A f \in logs : f <= options.log
    BY LenProperties DEF IInv, TypeOK, OptionsHaveLatest, Latest
  <2>2. /\ stdout = IF options.log = 0 THEN <<SummaryLine>> ELSE <<>>
        /\ \A f \in logs : fopened[f].text = IF f = options.log THEN <<SummaryLine>> ELSE <<>>
    BY DEF IInv, SummaryWritten, Summarised, LogText
  <2>3. Len(fopened) \in Nat /\ \A f \in logs : f \in Nat /\ f >= 1
    BY <2>1, LenProperties DEF IInv, TypeOK
  <2>4. logs = {} <=> options.log = 0
    BY <2>1, <2>3
  <2>5. \A f \in logs : (\E g \in logs : g > f) <=> f # options.log
    BY <2>1, <2>3
  <2> QED
    BY <2>2, <2>4, <2>5
<1> QED
  BY <1>1, InitIInv, StepIInv, PTL DEF Spec

(* A predictor is the one that its name and its size ask for.              *)
LEMMA BuiltAsNamed ==
  ASSUME NEW name, NEW size, build_predictor(name, size) # NoPredictor
  PROVE  LET p == build_predictor(name, size)
         IN  p.kind = name /\ (HasTable(p) <=> Sized(name)) /\ (HasTable(p) => p.size = size)
<1>1. CASE name \in {"nt", "btfnt"}
  BY <1>1 DEF build_predictor, predictor_nt, predictor_btfnt, HasTable, Sized
<1>2. CASE name = "bimodal"
  BY <1>2 DEF build_predictor, predictor_bimodal, HasTable, Sized
<1>3. CASE name = "gshare"
  BY <1>3 DEF build_predictor, predictor_gshare, HasTable, Sized
<1>4. CASE name \notin {"nt", "btfnt", "bimodal", "gshare"}
  BY <1>4 DEF build_predictor
<1> QED
  BY <1>1, <1>2, <1>3, <1>4

(* A profile that counts branches names the predictor, and the size of its *)
(* table, that did the counting (main.c:116-120, 142 and 164-170).         *)
THEOREM ProfileTells == Spec => []ProfileNamesPredictor
<1>1. IInv => ProfileNamesPredictor
  <2> SUFFICES ASSUME IInv, at = "end", ~ options.disasm, options.prof # 0, sim[2] > 0
               PROVE  LET text == fopened[options.prof].text
                      IN  /\ <<"Predictor", predictor.kind>> \in ToSet(text)
                          /\ HasTable(predictor) => <<"Size", predictor.size>> \in ToSet(text)
                          /\ ~ HasTable(predictor) => \A l \in ToSet(text) : l[1] # "Size"
    BY DEF ProfileNamesPredictor
  <2>1. fopened[options.prof].text = ProfileLines
    BY DEF IInv, ProfileWritten
  <2>2. /\ predictor = build_predictor(options.name, options.size)
        /\ sim \in Nat \X Nat \X Nat /\ predictor # NoPredictor
    BY DEF IInv, Counted
  <2>3. /\ predictor.kind = options.name /\ (HasTable(predictor) <=> Sized(options.name))
        /\ HasTable(predictor) => predictor.size = options.size
    BY <2>2, BuiltAsNamed
  <2>4. /\ <<"Predictor", options.name>> \in ToSet(ProfileLines)
        /\ Sized(options.name) => <<"Size", options.size>> \in ToSet(ProfileLines)
        /\ ~ Sized(options.name) => \A l \in ToSet(ProfileLines) : l[1] # "Size"
    BY <2>2, ProfileLinesFacts
  <2> QED
    BY <2>1, <2>3, <2>4
<1> QED
  BY <1>1, InitIInv, StepIInv, PTL DEF Spec

-----------------------------------------------------------------------------
(* Sums over the numbers up to k.                                          *)
LEMMA PrefixSums ==
  ASSUME NEW n \in Nat, NEW f, \A l \in 1 .. n : f[l] \in Nat
  PROVE  /\ SumFunctionOnSet(f, 1 .. 0) = 0
         /\ \A k \in 1 .. n : SumFunctionOnSet(f, 1 .. k)
                                = f[k] + SumFunctionOnSet(f, 1 .. (k - 1))
         /\ \A k \in 0 .. n : SumFunctionOnSet(f, 1 .. k) \in Nat
<1> DEFINE S(k) == SumFunctionOnSet(f, 1 .. k)
<1>1. \A k \in 0 .. n : IsFiniteSet(1 .. k) /\ \A l \in 1 .. k : f[l] \in Int
  BY FS_Interval
<1>2. S(0) = 0
  <2>1. 1 .. 0 = {}
    OBVIOUS
  <2> QED BY <1>1, <2>1, SumFacts
<1>3. \A k \in 1 .. n : S(k) = f[k] + S(k - 1)
  <2> TAKE k \in 1 .. n
  <2>1. k \in 1 .. k /\ (1 .. k) \ {k} = 1 .. (k - 1) /\ k \in 0 .. n
    OBVIOUS
  <2>2. \A x \in 1 .. k : SumFunctionOnSet(f, 1 .. k) = f[x] + SumFunctionOnSet(f, (1 .. k) \ {x})
    <3>1. IsFiniteSet(1 .. k) /\ \A l \in 1 .. k : f[l] \in Int
      BY <1>1, <2>1
    <3> QED BY <3>1, SumFacts
  <2> QED BY <2>1, <2>2
<1> HIDE DEF S
<1> DEFINE N == {k \in Nat : k <= n => S(k) \in Nat}
<1>4. 0 \in N
  BY <1>2
<1>5. \A k \in Nat : k \in N => k + 1 \in N
  <2> SUFFICES ASSUME NEW k \in Nat, k \in N, k + 1 <= n PROVE S(k + 1) \in Nat
    OBVIOUS
  <2>1. k + 1 \in 1 .. n /\ (k + 1) - 1 = k /\ S(k) \in Nat
    OBVIOUS
  <2>2. S(k + 1) = f[k + 1] + S(k)
    BY <1>3, <2>1
  <2> QED BY <2>1, <2>2
<1> HIDE DEF N
<1>6. Nat \subseteq N
  BY <1>4, <1>5, NatInd
<1>7. \A k \in 0 .. n : S(k) \in Nat
  BY <1>6 DEF N
<1> QED BY <1>2, <1>3, <1>7 DEF S

(* FlattenSeq is a recursive definition: its prefixes exist.               *)
FlatOf(g, ss, n) == IF n = 1 THEN ss[n] ELSE g[n - 1] \o ss[n]

Flats(ss, k) == CHOOSE g : g = [n \in 1 .. k |-> FlatOf(g, ss, n)]

LEMMA FlatsExist ==
  ASSUME NEW ss
  PROVE  \A k \in Nat : \E g : g = [n \in 1 .. k |-> FlatOf(g, ss, n)]
<1> DEFINE N == {k \in Nat : \E g : g = [n \in 1 .. k |-> FlatOf(g, ss, n)]}
<1>1. 0 \in N
  <2>1. <<>> = [n \in 1 .. 0 |-> FlatOf(<<>>, ss, n)]
    OBVIOUS
  <2> QED BY <2>1
<1>2. \A k \in Nat : k \in N => k + 1 \in N
  <2> SUFFICES ASSUME NEW k \in Nat, k \in N PROVE \E h : h = [n \in 1 .. (k + 1) |-> FlatOf(h, ss, n)]
    OBVIOUS
  <2>1. PICK g : g = [n \in 1 .. k |-> FlatOf(g, ss, n)]
    OBVIOUS
  <2>2. PICK h : h = [n \in 1 .. (k + 1) |-> IF n = k + 1 THEN FlatOf(g, ss, n) ELSE g[n]]
    OBVIOUS
  <2>3. ASSUME NEW n \in 1 .. (k + 1) PROVE h[n] = FlatOf(h, ss, n)
    <3>1. h[n] = FlatOf(g, ss, n)
      <4>1. CASE n = k + 1
        BY <2>2, <4>1
      <4>2. CASE n # k + 1
        <5>1. n \in 1 .. k
          BY <4>2
        <5> QED BY <2>1, <2>2, <5>1, <4>2
      <4> QED BY <4>1, <4>2
    <3>2. n # 1 => h[n - 1] = g[n - 1]
      <4>1. n # 1 => n - 1 \in 1 .. (k + 1) /\ n - 1 # k + 1
        OBVIOUS
      <4> QED BY <2>2, <4>1
    <3> QED BY <3>1, <3>2 DEF FlatOf
  <2>4. h = [n \in 1 .. (k + 1) |-> h[n]]
    BY <2>2
  <2>5. h = [n \in 1 .. (k + 1) |-> FlatOf(h, ss, n)]
    BY <2>3, <2>4
  <2> QED BY <2>5
<1> HIDE DEF N
<1>3. Nat \subseteq N
  BY <1>1, <1>2, NatInd
<1> QED BY <1>3 DEF N

Elements(s) == {s[l] : l \in 1 .. Len(s)}

LEMMA ConcatElements ==
  ASSUME NEW S, NEW s \in Seq(S), NEW t \in Seq(S)
  PROVE  s \o t \in Seq(S) /\ Elements(s \o t) = Elements(s) \cup Elements(t)
<1>1. /\ s \o t \in Seq(S) /\ Len(s \o t) = Len(s) + Len(t) /\ Len(s) \in Nat /\ Len(t) \in Nat
      /\ \A n \in 1 .. Len(s) + Len(t) : (s \o t)[n] = IF n <= Len(s) THEN s[n] ELSE t[n - Len(s)]
  BY ConcatProperties, LenProperties
<1>2. ASSUME NEW x \in Elements(s \o t) PROVE x \in Elements(s) \cup Elements(t)
  <2>1. PICK n \in 1 .. Len(s) + Len(t) : x = (s \o t)[n]
    BY <1>1, <1>2 DEF Elements
  <2>2. CASE n <= Len(s)
    <3>1. n \in 1 .. Len(s)
      BY <1>1, <2>2
    <3> QED BY <1>1, <2>1, <2>2, <3>1 DEF Elements
  <2>3. CASE ~ (n <= Len(s))
    <3>1. n - Len(s) \in 1 .. Len(t)
      BY <1>1, <2>3
    <3> QED BY <1>1, <2>1, <2>3, <3>1 DEF Elements
  <2> QED BY <2>2, <2>3
<1>3. ASSUME NEW n \in 1 .. Len(s) PROVE s[n] \in Elements(s \o t)
  <2>1. n \in 1 .. Len(s) + Len(t) /\ n <= Len(s)
    BY <1>1
  <2>2. (s \o t)[n] = s[n]
    BY <1>1, <2>1
  <2> QED BY <1>1, <2>1, <2>2 DEF Elements
<1>4. ASSUME NEW n \in 1 .. Len(t) PROVE t[n] \in Elements(s \o t)
  <2>1. n + Len(s) \in 1 .. Len(s) + Len(t) /\ ~ (n + Len(s) <= Len(s)) /\ (n + Len(s)) - Len(s) = n
    BY <1>1
  <2>2. (s \o t)[n + Len(s)] = t[n]
    BY <1>1, <2>1
  <2> QED BY <1>1, <2>1, <2>2 DEF Elements
<1> QED BY <1>1, <1>2, <1>3, <1>4 DEF Elements

LEMMA FlattenElements ==
  ASSUME NEW S, NEW n \in Nat, NEW ss, ss \in Seq(Seq(S)), Len(ss) = n, n # 0
  PROVE  /\ FlattenSeq(ss) \in Seq(S)
         /\ \A x : x \in Elements(FlattenSeq(ss)) <=> \E k \in 1 .. n : x \in Elements(ss[k])
<1>1. PICK g : g = [k \in 1 .. n |-> FlatOf(g, ss, k)] /\ FlattenSeq(ss) = g[n]
  <2>1. FlattenSeq(ss) = (CHOOSE g : g = [k \in 1 .. Len(ss) |-> IF k = 1 THEN ss[k] ELSE g[k - 1] \o ss[k]])[Len(ss)]
    BY DEF FlattenSeq
  <2>2. \E g : g = [k \in 1 .. n |-> IF k = 1 THEN ss[k] ELSE g[k - 1] \o ss[k]]
    BY FlatsExist DEF FlatOf
  <2> QED BY <2>1, <2>2 DEF FlatOf
<1>2. \A k \in 1 .. n : ss[k] \in Seq(S)
  BY ElementOfSeq
<1> DEFINE Has(k) == /\ g[k] \in Seq(S)
                     /\ \A x : x \in Elements(g[k]) <=> \E l \in 1 .. k : x \in Elements(ss[l])
           N == {k \in Nat : k \in 1 .. n => Has(k)}
<1>3. 0 \in N
  OBVIOUS
<1>4. \A k \in Nat : k \in N => k + 1 \in N
  <2> SUFFICES ASSUME NEW k \in Nat, k \in 1 .. n => Has(k), k + 1 \in 1 .. n
               PROVE  Has(k + 1)
    <3> HIDE DEF Has
    <3> QED OBVIOUS
  <2>1. g[k + 1] = FlatOf(g, ss, k + 1) /\ ss[k + 1] \in Seq(S)
    BY <1>1, <1>2
  <2>2. CASE k = 0
    <3>1. g[k + 1] = ss[k + 1] /\ 1 .. (k + 1) = {k + 1}
      BY <2>1, <2>2 DEF FlatOf
    <3> QED BY <2>1, <3>1
  <2>3. CASE k # 0
    <3>1. k \in 1 .. n /\ k + 1 # 1 /\ (k + 1) - 1 = k
      BY <2>3
    <3>2. /\ g[k] \in Seq(S) /\ g[k + 1] = g[k] \o ss[k + 1]
          /\ \A x : x \in Elements(g[k]) <=> \E l \in 1 .. k : x \in Elements(ss[l])
      BY <2>1, <3>1 DEF FlatOf
    <3>3. g[k + 1] \in Seq(S) /\ Elements(g[k + 1]) = Elements(g[k]) \cup Elements(ss[k + 1])
      <4>1. \A s, t \in Seq(S) : s \o t \in Seq(S) /\ Elements(s \o t) = Elements(s) \cup Elements(t)
        BY ConcatElements
      <4>2. g[k] \in Seq(S) /\ ss[k + 1] \in Seq(S)
        BY <2>1, <3>2
      <4> QED BY <3>2, <4>1, <4>2, Zenon
    <3>4. \A l : l \in 1 .. (k + 1) <=> l \in 1 .. k \/ l = k + 1
      BY <3>1
    <3> QED BY <3>2, <3>3, <3>4
  <2> QED BY <2>2, <2>3
<1> HIDE DEF N
<1>5. Nat \subseteq N
  BY <1>3, <1>4, NatInd
<1>6. n \in N /\ n \in 1 .. n
  BY <1>5
<1> QED BY <1>1, <1>6 DEF N

-----------------------------------------------------------------------------
(* The argument block.                                                     *)
Readable(given) ==
  /\ given \in Seq(STRING)
  /\ \A k \in DOMAIN given : Chars[given[k]] \in Seq(Byte)
  /\ ArgBlock + ArgSize(given) <= NPages * PageBytes

Str(given) == ArgBlock + 4 + 4 * Len(given)

LEMMA TextTyped ==
  ASSUME NEW given, Readable(given), NEW k \in 1 .. Len(given)
  PROVE  ArgText(given, k) \in Seq(Byte) /\ Len(ArgText(given, k)) \in Nat \ {0}
<1>1. Chars[given[k]] \in Seq(Byte)
  BY LenProperties DEF Readable
<1>2. 0 \in Byte
  BY BaseFacts DEF Byte
<1> QED BY <1>1, <1>2, AppendProperties, LenProperties DEF ArgText

LEMMA Layout ==
  ASSUME NEW given, Readable(given), NEW n, n = Len(given)
  PROVE  /\ n \in Nat
         /\ \A k \in 1 .. (n + 1) : ArgAt(given, Str(given), k) \in Nat
         /\ ArgAt(given, Str(given), 1) = Str(given)
         /\ \A k \in 1 .. n : ArgAt(given, Str(given), k + 1)
                                = ArgAt(given, Str(given), k) + Len(ArgText(given, k))
         /\ ArgAt(given, Str(given), n + 1) = ArgBlock + ArgSize(given)
         /\ ArgSize(given) \in Nat
<1> DEFINE f == [l \in 1 .. n |-> Len(ArgText(given, l))]
           g == [l \in 1 .. n |-> 4 + Len(ArgText(given, l))]
           P(k) == SumFunctionOnSet(f, 1 .. k)
           Q(k) == SumFunctionOnSet(g, 1 .. k)
           at_(k) == ArgAt(given, Str(given), k)
<1>1. n \in Nat /\ DOMAIN given = 1 .. n /\ ArgBlock \in Nat /\ Str(given) \in Nat
  BY LenProperties, DriverAssumption DEF Readable, Str, Addr
<1>2. \A l \in 1 .. n : f[l] \in Nat /\ g[l] \in Nat /\ g[l] = 4 + f[l] /\ f[l] = Len(ArgText(given, l))
  BY TextTyped
<1>3. \A k \in 1 .. (n + 1) : at_(k) = Str(given) + P(k - 1)
  <2> TAKE k \in 1 .. (n + 1)
  <2> DEFINE h == [l \in 1 .. (k - 1) |-> Len(ArgText(given, l))]
  <2>1. ArgAt(given, Str(given), k) = Str(given) + SumFunctionOnSet(h, 1 .. (k - 1))
    BY DEF ArgAt, SumFunction
  <2>2. IsFiniteSet(1 .. (k - 1))
    BY <1>1, FS_Interval
  <2>3. \A l \in 1 .. (k - 1) : h[l] \in Int /\ h[l] = f[l]
    <3>1. \A l \in 1 .. (k - 1) : l \in 1 .. n
      BY <1>1
    <3>2. \A l \in 1 .. (k - 1) : h[l] = Len(ArgText(given, l))
      OBVIOUS
    <3> HIDE DEF f, h
    <3> QED BY <1>2, <3>1, <3>2
  <2> HIDE DEF f, h
  <2>4. SumFunctionOnSet(h, 1 .. (k - 1)) = SumFunctionOnSet(f, 1 .. (k - 1))
    BY <2>2, <2>3, SumCongruence
  <2> QED BY <2>1, <2>4
<1> HIDE DEF f, g
<1>4. /\ P(0) = 0 /\ Q(0) = 0
      /\ \A k \in 1 .. n : P(k) = f[k] + P(k - 1) /\ Q(k) = g[k] + Q(k - 1)
      /\ \A k \in 0 .. n : P(k) \in Nat /\ Q(k) \in Nat
  <2>1. P(0) = 0 /\ (\A k \in 1 .. n : P(k) = f[k] + P(k - 1)) /\ \A k \in 0 .. n : P(k) \in Nat
    BY <1>1, <1>2, PrefixSums
  <2>2. Q(0) = 0 /\ (\A k \in 1 .. n : Q(k) = g[k] + Q(k - 1)) /\ \A k \in 0 .. n : Q(k) \in Nat
    BY <1>1, <1>2, PrefixSums
  <2> HIDE DEF P, Q
  <2> QED BY <2>1, <2>2
<1> HIDE DEF P, Q
<1> DEFINE N == {k \in Nat : k <= n => Q(k) = 4 * k + P(k)}
<1>5. 0 \in N
  BY <1>4
<1>6. \A k \in Nat : k \in N => k + 1 \in N
  <2> SUFFICES ASSUME NEW k \in Nat, k \in N, k + 1 <= n PROVE Q(k + 1) = 4 * (k + 1) + P(k + 1)
    OBVIOUS
  <2>1. k + 1 \in 1 .. n /\ (k + 1) - 1 = k /\ Q(k) = 4 * k + P(k) /\ k \in 0 .. n
    BY <1>1
  <2>2. P(k + 1) = f[k + 1] + P(k) /\ Q(k + 1) = g[k + 1] + Q(k)
    BY <1>4, <2>1
  <2>3. f[k + 1] \in Nat /\ g[k + 1] = 4 + f[k + 1] /\ P(k) \in Nat
    BY <1>2, <1>4, <2>1
  <2> QED BY <2>1, <2>2, <2>3
<1> HIDE DEF N
<1>7. Nat \subseteq N
  BY <1>5, <1>6, NatInd
<1>8. Q(n) = 4 * n + P(n)
  BY <1>1, <1>7 DEF N
<1>9. ArgSize(given) = 4 + Q(n)
  BY <1>1 DEF ArgSize, SumFunction, Q, g
<1>10. \A k \in 1 .. (n + 1) : k - 1 \in 0 .. n
  BY <1>1
<1>11. \A k \in 1 .. n : /\ k \in 1 .. (n + 1) /\ k + 1 \in 1 .. (n + 1) /\ (k + 1) - 1 = k
                         /\ k - 1 \in 0 .. n
  BY <1>1
<1>12. \A k \in 1 .. n : at_(k + 1) = at_(k) + Len(ArgText(given, k))
  <2> TAKE k \in 1 .. n
  <2>1. at_(k + 1) = Str(given) + P(k) /\ at_(k) = Str(given) + P(k - 1)
    BY <1>3, <1>11
  <2> HIDE DEF at_
  <2>2. P(k) = f[k] + P(k - 1) /\ f[k] \in Nat /\ P(k - 1) \in Nat /\ f[k] = Len(ArgText(given, k))
    BY <1>2, <1>4, <1>11
  <2> QED BY <2>1, <2>2, <1>1
<1>13. at_(1) = Str(given) /\ at_(n + 1) = ArgBlock + ArgSize(given)
  <2>1. 1 \in 1 .. (n + 1) /\ n + 1 \in 1 .. (n + 1) /\ 1 - 1 = 0 /\ (n + 1) - 1 = n
    BY <1>1
  <2>2. at_(1) = Str(given) + P(0) /\ at_(n + 1) = Str(given) + P(n)
    BY <1>3, <2>1
  <2> HIDE DEF at_
  <2> QED BY <2>2, <1>1, <1>4, <1>8, <1>9 DEF Str
<1>14. \A k \in 1 .. (n + 1) : at_(k) \in Nat
  <2> HIDE DEF at_
  <2> QED BY <1>1, <1>3, <1>4, <1>10
<1>15. ArgSize(given) \in Nat
  <2>1. n \in 0 .. n
    BY <1>1
  <2> QED BY <1>4, <1>9, <2>1
<1> QED BY <1>1, <1>12, <1>13, <1>14, <1>15

(* The strings come one after the other.                                   *)
LEMMA Ascending ==
  ASSUME NEW given, Readable(given), NEW k \in 1 .. Len(given)
  PROVE  /\ Str(given) <= ArgAt(given, Str(given), k)
         /\ \A l \in 1 .. (Len(given) + 1) :
              k < l => ArgAt(given, Str(given), k) + Len(ArgText(given, k))
                         <= ArgAt(given, Str(given), l)
<1> DEFINE n == Len(given)
           at_(l) == ArgAt(given, Str(given), l)
           len(l) == Len(ArgText(given, l))
<1>1. /\ n \in Nat /\ at_(1) = Str(given)
      /\ \A l \in 1 .. (n + 1) : at_(l) \in Nat
      /\ \A l \in 1 .. n : at_(l + 1) = at_(l) + len(l) /\ len(l) \in Nat
  BY Layout, TextTyped
<1> HIDE DEF at_, len
<1> DEFINE Up(m, l) == m + 1 + l <= n + 1 => at_(m) + len(m) <= at_(m + 1 + l)
           N == {l \in Nat : \A m \in 1 .. n : Up(m, l)}
<1>2. 0 \in N
  BY <1>1
<1>3. \A l \in Nat : l \in N => l + 1 \in N
  <2> SUFFICES ASSUME NEW l \in Nat, NEW m \in 1 .. n, Up(m, l) PROVE Up(m, l + 1)
    <3> HIDE DEF Up
    <3> QED OBVIOUS
  <2> SUFFICES ASSUME m + 1 + (l + 1) <= n + 1
               PROVE  at_(m) + len(m) <= at_(m + 1 + (l + 1))
    OBVIOUS
  <2>1. m + 1 + l \in 1 .. n /\ m + 1 + (l + 1) = (m + 1 + l) + 1 /\ m + 1 + l <= n + 1
    BY <1>1
  <2>2. at_(m) + len(m) <= at_(m + 1 + l)
    BY <2>1
  <2>3. at_(m + 1 + (l + 1)) = at_(m + 1 + l) + len(m + 1 + l) /\ len(m + 1 + l) \in Nat
    BY <1>1, <2>1
  <2>4. at_(m + 1 + l) \in Nat /\ at_(m) \in Nat /\ len(m) \in Nat
    BY <1>1, <2>1
  <2> QED BY <2>2, <2>3, <2>4
<1> HIDE DEF N
<1>4. Nat \subseteq N
  BY <1>2, <1>3, NatInd
<1>5. ASSUME NEW m \in 1 .. n, NEW l \in 1 .. (n + 1), m < l
      PROVE  at_(m) + len(m) <= at_(l)
  <2>1. l - (m + 1) \in Nat /\ m + 1 + (l - (m + 1)) = l
    BY <1>1, <1>5
  <2>2. PICK r \in Nat : r = l - (m + 1)
    BY <2>1
  <2>3. r \in N /\ m + 1 + r = l /\ l <= n + 1
    BY <1>1, <1>4, <2>1, <2>2
  <2>4. m + 1 + r <= n + 1 => at_(m) + len(m) <= at_(m + 1 + r)
    BY <2>3 DEF N
  <2> QED BY <2>3, <2>4
<1>6. Str(given) <= at_(k)
  <2>1. CASE k = 1
    BY <1>1, <2>1
  <2>2. CASE k # 1
    <3>1. 1 \in 1 .. n /\ k \in 1 .. (n + 1) /\ 1 < k
      BY <1>1, <2>2
    <3>2. at_(1) + len(1) <= at_(k) /\ len(1) \in Nat /\ at_(1) \in Nat /\ at_(k) \in Nat
      BY <1>1, <1>5, <3>1
    <3> QED BY <1>1, <3>2
  <2> QED BY <2>1, <2>2
<1> QED BY <1>5, <1>6 DEF at_, len

-----------------------------------------------------------------------------
(* Stores, and what they leave at an address.                              *)
Store == {s \in [wide : BOOLEAN, addr : Addr, data : Word] : s.wide => Aligned(s.addr, 4)}

ByteStore(a, b) == [wide |-> FALSE, addr |-> a, data |-> b]

Reaches(s, a) == a \in s.addr .. (s.addr + (IF s.wide THEN 3 ELSE 0))

Puts(s, a) == Lane(s.data, a - s.addr)

LEMMA SizeOfMemory ==
  /\ NPages * PageBytes \in Nat \ {0}
  /\ \A a : a \in Addr <=> a \in Nat /\ a < NPages * PageBytes
<1>1. \A m, n \in Nat \ {0} : m * n \in Nat \ {0}
  BY SMT
<1>2. NPages * PageBytes \in Nat \ {0}
  BY <1>1, PageFacts
<1> QED BY <1>2 DEF Addr

LEMMA WrappedFacts ==
  /\ \A a \in Nat : Wrapped(a) \in Addr
  /\ \A a \in Addr : Wrapped(a) = a
<1>1. PICK m \in Nat \ {0} : m = NPages * PageBytes
  BY SizeOfMemory
<1>2. \A a \in Nat : a % m \in 0 .. (m - 1) /\ (a < m => a % m = a)
  BY <1>1
<1> QED BY <1>1, <1>2, SizeOfMemory DEF Wrapped, Addr

LEMMA ByteFacts ==
  /\ Byte \subseteq Word
  /\ \A b \in Byte : Lane(b, 0) = b
<1>1. ByteBase <= WordMod
  <2>1. \A x, y \in Nat : x > 1 /\ y > 1 => x <= x * y
    BY SMT
  <2>2. ByteBase <= Half /\ Half <= WordMod
    BY <2>1, BaseFacts DEF Half, WordMod
  <2> QED BY <2>2, BaseFacts
<1>2. ASSUME NEW b \in Byte PROVE Lane(b, 0) = b
  <2>1. Lane(b, 0) = (b \div 1) % ByteBase
    BY DEF Lane, Shift
  <2>2. b \in Nat /\ b < ByteBase /\ b \div 1 = b
    BY BaseFacts DEF Byte
  <2> QED BY <2>1, <2>2, BaseFacts
<1> QED BY <1>1, <1>2, BaseFacts DEF Byte, Word

LEMMA ByteStoreFacts ==
  ASSUME NEW a \in Addr, NEW b \in Byte
  PROVE  /\ ByteStore(a, b) \in Store
         /\ \A x : Reaches(ByteStore(a, b), x) <=> x = a
         /\ Puts(ByteStore(a, b), a) = b
<1>1. a \in Nat /\ a .. (a + 0) = {a} /\ a - a = 0
  BY DEF Addr
<1> QED BY <1>1, ByteFacts DEF ByteStore, Store, Reaches, Puts

LEMMA ByteStoresAre ==
  ASSUME NEW addr \in Nat, NEW bytes \in Seq(Byte)
  PROVE  /\ ByteStores(addr, bytes) \in Seq(Store)
         /\ Len(ByteStores(addr, bytes)) = Len(bytes)
         /\ \A j \in 1 .. Len(bytes) : ByteStores(addr, bytes)[j]
                                        = ByteStore(Wrapped(addr + j - 1), bytes[j])
<1>1. Len(bytes) \in Nat /\ DOMAIN bytes = 1 .. Len(bytes)
  BY LenProperties
<1> DEFINE s(j) == ByteStore(Wrapped(addr + j - 1), bytes[j])
<1>2. ByteStores(addr, bytes) = [j \in 1 .. Len(bytes) |-> s(j)]
  BY <1>1 DEF ByteStores, ByteStore
<1>3. \A j \in 1 .. Len(bytes) : s(j) \in Store
  <2> TAKE j \in 1 .. Len(bytes)
  <2>1. addr + j - 1 \in Nat
    OBVIOUS
  <2>2. Wrapped(addr + j - 1) \in Addr /\ bytes[j] \in Byte
    BY <2>1, WrappedFacts, ElementOfSeq
  <2> QED BY <2>2, ByteStoreFacts
<1> HIDE DEF s
<1>4. [j \in 1 .. Len(bytes) |-> s(j)] \in Seq(Store)
  BY <1>1, <1>3, IsASeq
<1>5. Len([j \in 1 .. Len(bytes) |-> s(j)]) = Len(bytes)
  BY <1>1
<1> QED BY <1>2, <1>4, <1>5 DEF s

LEMMA WordStoreFacts ==
  ASSUME NEW a \in Addr, Aligned(a, 4), NEW w \in Word
  PROVE  /\ WordStore(a, w) \in Store
         /\ \A x : Reaches(WordStore(a, w), x) <=> x \in a .. (a + 3)
         /\ \A x : Puts(WordStore(a, w), x) = Lane(w, x - a)
BY DEF WordStore, Store, Reaches, Puts

LEMMA StoredBytes ==
  ASSUME NEW m, IsMemory(m), NEW s \in Store
  PROVE  /\ IsMemory(Stored(m, s))
         /\ \A a \in Addr : ByteAt(Stored(m, s), a)
                               = IF Reaches(s, a) THEN Puts(s, a) ELSE ByteAt(m, a)
<1>1. s.addr \in Addr /\ s.data \in Word /\ s.wide \in BOOLEAN /\ (s.wide => Aligned(s.addr, 4))
  BY DEF Store
<1>2. CASE s.wide
  BY <1>1, <1>2, WrWBytes DEF Stored, Reaches, Puts
<1>3. CASE ~ s.wide
  <2>1. s.addr \in Nat /\ s.addr .. (s.addr + 0) = {s.addr} /\ s.addr - s.addr = 0
    BY <1>1 DEF Addr
  <2> QED BY <1>1, <1>3, <2>1, WrBBytes DEF Stored, Reaches, Puts
<1> QED BY <1>1, <1>2, <1>3

-----------------------------------------------------------------------------
(* The stores of pass_args_to_program.                                     *)
TextStart(given, k) == ArgAt(given, Str(given), k)

CountStore(given)     == WordStore(ArgBlock, Len(given))
PointerStore(given, k) == WordStore(ArgBlock + 4 * k, TextStart(given, k))
CharStore(given, k, j) == ByteStore(TextStart(given, k) + j - 1, ArgText(given, k)[j])

IsArgStore(given, x) ==
  \/ x = CountStore(given)
  \/ \E k \in 1 .. Len(given) : x = PointerStore(given, k)
  \/ \E k \in 1 .. Len(given) : \E j \in 1 .. Len(ArgText(given, k)) : x = CharStore(given, k, j)

(* Where they go.                                                          *)
LEMMA ArgPlaces ==
  ASSUME NEW given, Readable(given)
  PROVE  /\ Len(given) \in Nat /\ ArgBlock \in Nat /\ Str(given) = ArgBlock + 4 + 4 * Len(given)
         /\ Str(given) <= ArgBlock + ArgSize(given)
         /\ \A a \in Nat : a < ArgBlock + ArgSize(given) => a \in Addr /\ a \in Word
         /\ \A k \in 1 .. Len(given) :
              /\ TextStart(given, k) \in Nat /\ Len(ArgText(given, k)) \in Nat \ {0}
              /\ Str(given) <= TextStart(given, k)
              /\ TextStart(given, k) + Len(ArgText(given, k)) <= ArgBlock + ArgSize(given)
              /\ \A l \in 1 .. Len(given) :
                   k < l => TextStart(given, k) + Len(ArgText(given, k)) <= TextStart(given, l)
<1>1. /\ Len(given) \in Nat /\ ArgBlock \in Nat
      /\ TextStart(given, Len(given) + 1) = ArgBlock + ArgSize(given)
      /\ TextStart(given, 1) = Str(given)
      /\ \A k \in 1 .. (Len(given) + 1) : TextStart(given, k) \in Nat
  BY Layout, DriverAssumption DEF TextStart, Addr
<1>2. \A k \in 1 .. Len(given) :
        /\ TextStart(given, k) \in Nat /\ Len(ArgText(given, k)) \in Nat \ {0}
        /\ Str(given) <= TextStart(given, k)
        /\ \A l \in 1 .. (Len(given) + 1) :
              k < l => TextStart(given, k) + Len(ArgText(given, k)) <= TextStart(given, l)
  <2>1. \A k \in 1 .. Len(given) : k \in 1 .. (Len(given) + 1)
    BY <1>1
  <2> QED BY <1>1, <2>1, Ascending, TextTyped DEF TextStart
<1>3. /\ Len(given) + 1 \in 1 .. (Len(given) + 1)
      /\ \A k \in 1 .. Len(given) : k < Len(given) + 1 /\ k \in 1 .. (Len(given) + 1)
  BY <1>1
<1>4. \A k \in 1 .. Len(given) : TextStart(given, k) + Len(ArgText(given, k)) <= ArgBlock + ArgSize(given)
  BY <1>1, <1>2, <1>3
<1>5. Str(given) <= ArgBlock + ArgSize(given)
  <2>1. CASE Len(given) = 0
    BY <1>1, <2>1
  <2>2. CASE Len(given) # 0
    <3>1. 1 \in 1 .. Len(given)
      BY <1>1, <2>2
    <3> QED BY <1>1, <1>2, <1>4, <3>1
  <2> QED BY <2>1, <2>2
<1>6. \A a \in Nat : a < ArgBlock + ArgSize(given) => a \in Addr /\ a \in Word
  <2>1. ArgBlock + ArgSize(given) <= NPages * PageBytes /\ NPages * PageBytes <= WordMod
    BY ArgumentsFit DEF Readable
  <2>2. ArgBlock + ArgSize(given) \in Nat
    BY <1>1
  <2> QED BY <2>1, <2>2, SizeOfMemory, BaseFacts DEF Word
<1> QED BY <1>1, <1>2, <1>3, <1>4, <1>5, <1>6 DEF Str

LEMMA ArgStoresTyped ==
  ASSUME NEW given, Readable(given)
  PROVE  /\ CountStore(given) \in Store
         /\ \A a : Reaches(CountStore(given), a) <=> a \in ArgBlock .. (ArgBlock + 3)
         /\ \A a : Puts(CountStore(given), a) = Lane(Len(given), a - ArgBlock)
         /\ Len(given) \in Word
         /\ \A k \in 1 .. Len(given) :
              /\ PointerStore(given, k) \in Store
              /\ TextStart(given, k) \in Word
              /\ ArgBlock + 4 * k \in Addr /\ Aligned(ArgBlock + 4 * k, 4)
              /\ \A a : Reaches(PointerStore(given, k), a)
                          <=> a \in (ArgBlock + 4 * k) .. (ArgBlock + 4 * k + 3)
              /\ \A a : Puts(PointerStore(given, k), a)
                           = Lane(TextStart(given, k), a - (ArgBlock + 4 * k))
              /\ \A j \in 1 .. Len(ArgText(given, k)) :
                   /\ CharStore(given, k, j) \in Store
                   /\ TextStart(given, k) + j - 1 \in Addr
                   /\ \A a : Reaches(CharStore(given, k, j), a) <=> a = TextStart(given, k) + j - 1
                   /\ Puts(CharStore(given, k, j), TextStart(given, k) + j - 1) = ArgText(given, k)[j]
<1>1. ArgBlock \in Addr /\ ArgBlock % 4 = 0 /\ ArgBlock \in Nat /\ Len(given) \in Nat
  BY ArgPlaces, DriverAssumption
<1>2. Len(given) \in Word
  <2>1. Len(given) < ArgBlock + ArgSize(given)
    <3>1. ArgBlock + 4 + 4 * Len(given) <= ArgBlock + ArgSize(given)
      BY ArgPlaces
    <3>2. ArgBlock + ArgSize(given) \in Int
      BY Layout DEF Readable
    <3> QED BY <3>1, <3>2, <1>1
  <2> QED BY <2>1, <1>1, ArgPlaces
<1>3. ASSUME NEW k \in 1 .. Len(given)
      PROVE  /\ ArgBlock + 4 * k \in Addr /\ Aligned(ArgBlock + 4 * k, 4) /\ TextStart(given, k) \in Word
  <2>1. /\ TextStart(given, k) \in Nat /\ Len(ArgText(given, k)) \in Nat \ {0}
        /\ TextStart(given, k) + Len(ArgText(given, k)) <= ArgBlock + ArgSize(given)
        /\ ArgBlock + 4 + 4 * Len(given) <= TextStart(given, k)
    BY ArgPlaces
  <2>2. ArgBlock + ArgSize(given) \in Int
    BY Layout DEF Readable
  <2>3. /\ ArgBlock + 4 * k \in Nat /\ ArgBlock + 4 * k < ArgBlock + ArgSize(given)
        /\ TextStart(given, k) < ArgBlock + ArgSize(given)
    BY <1>1, <2>1, <2>2
  <2>4. (ArgBlock + 4 * k) % 4 = 0
    <3>1. PICK q : q = ArgBlock
      OBVIOUS
    <3>2. q \in Nat /\ q % 4 = 0
      BY <1>1, <3>1
    <3>3. (q + 4 * k) % 4 = 0
      BY <3>2
    <3> QED BY <3>1, <3>3
  <2> QED BY <2>1, <2>3, <2>4, ArgPlaces DEF Aligned
<1>4. ASSUME NEW k \in 1 .. Len(given), NEW j \in 1 .. Len(ArgText(given, k))
      PROVE  TextStart(given, k) + j - 1 \in Addr /\ ArgText(given, k)[j] \in Byte
  <2>1. /\ TextStart(given, k) \in Nat /\ Len(ArgText(given, k)) \in Nat \ {0}
        /\ TextStart(given, k) + Len(ArgText(given, k)) <= ArgBlock + ArgSize(given)
    BY ArgPlaces
  <2>2. ArgBlock + ArgSize(given) \in Int
    BY Layout DEF Readable
  <2>3. TextStart(given, k) + j - 1 \in Nat /\ TextStart(given, k) + j - 1 < ArgBlock + ArgSize(given)
    BY <2>1, <2>2
  <2> QED BY <2>3, ArgPlaces, TextTyped, ElementOfSeq
<1>5. Aligned(ArgBlock, 4)
  BY <1>1 DEF Aligned
<1>6. /\ CountStore(given) \in Store
      /\ \A a : Reaches(CountStore(given), a) <=> a \in ArgBlock .. (ArgBlock + 3)
      /\ \A a : Puts(CountStore(given), a) = Lane(Len(given), a - ArgBlock)
  BY <1>1, <1>2, <1>5, WordStoreFacts DEF CountStore
<1>7. ASSUME NEW k \in 1 .. Len(given)
      PROVE  /\ PointerStore(given, k) \in Store
             /\ \A a : Reaches(PointerStore(given, k), a)
                          <=> a \in (ArgBlock + 4 * k) .. (ArgBlock + 4 * k + 3)
             /\ \A a : Puts(PointerStore(given, k), a)
                           = Lane(TextStart(given, k), a - (ArgBlock + 4 * k))
  BY <1>3, WordStoreFacts DEF PointerStore
<1>8. ASSUME NEW k \in 1 .. Len(given), NEW j \in 1 .. Len(ArgText(given, k))
      PROVE  /\ CharStore(given, k, j) \in Store
             /\ \A a : Reaches(CharStore(given, k, j), a) <=> a = TextStart(given, k) + j - 1
             /\ Puts(CharStore(given, k, j), TextStart(given, k) + j - 1) = ArgText(given, k)[j]
  BY <1>4, ByteStoreFacts DEF CharStore
<1> QED BY <1>2, <1>3, <1>4, <1>6, <1>7, <1>8

LEMMA SingletonElements ==
  ASSUME NEW S, NEW x \in S
  PROVE  <<x>> \in Seq(S) /\ Elements(<<x>>) = {x} /\ Len(<<x>>) = 1
<1>1. <<x>> \in Seq(S) /\ Len(<<x>>) = 1 /\ <<x>>[1] = x
  OBVIOUS
<1>2. 1 .. 1 = {1}
  OBVIOUS
<1> QED BY <1>1, <1>2 DEF Elements

LEMMA ArgStoresAre ==
  ASSUME NEW given, Readable(given), given # <<>>
  PROVE  /\ WithArgs(given) \in Seq(Store)
         /\ \A x : x \in Elements(WithArgs(given)) <=> IsArgStore(given, x)
<1> DEFINE n == Len(given)
           one(k) == <<PointerStore(given, k)>> \o ByteStores(TextStart(given, k), ArgText(given, k))
           ss == [k \in 1 .. n |-> one(k)]
<1>1. n \in Nat /\ n # 0 /\ DOMAIN given = 1 .. n
  BY EmptySeq, LenProperties DEF Readable
<1>2. WithArgs(given) = <<CountStore(given)>> \o FlattenSeq(ss)
  BY <1>1 DEF WithArgs, ArgStores, Str, CountStore, PointerStore, TextStart
<1>3. ASSUME NEW k \in 1 .. n
      PROVE  /\ one(k) \in Seq(Store)
             /\ \A x : x \in Elements(one(k)) <=>
                  \/ x = PointerStore(given, k)
                  \/ \E j \in 1 .. Len(ArgText(given, k)) : x = CharStore(given, k, j)
  <2>1. TextStart(given, k) \in Nat /\ ArgText(given, k) \in Seq(Byte)
    BY ArgPlaces, TextTyped
  <2>2. PICK bs : bs = ByteStores(TextStart(given, k), ArgText(given, k))
    OBVIOUS
  <2>3. /\ bs \in Seq(Store) /\ Len(bs) = Len(ArgText(given, k))
        /\ \A j \in 1 .. Len(ArgText(given, k)) :
             bs[j] = ByteStore(Wrapped(TextStart(given, k) + j - 1), ArgText(given, k)[j])
    BY <2>1, <2>2, ByteStoresAre
  <2>4. \A j \in 1 .. Len(ArgText(given, k)) : bs[j] = CharStore(given, k, j)
    BY <2>3, ArgStoresTyped, WrappedFacts DEF CharStore
  <2>5. \A x : x \in Elements(bs) <=> \E j \in 1 .. Len(ArgText(given, k)) : x = CharStore(given, k, j)
    BY <2>3, <2>4 DEF Elements
  <2>6. PICK p : p = <<PointerStore(given, k)>>
    OBVIOUS
  <2>7. p \in Seq(Store) /\ Elements(p) = {PointerStore(given, k)}
    BY <2>6, ArgStoresTyped, SingletonElements
  <2>8. p \o bs \in Seq(Store) /\ Elements(p \o bs) = Elements(p) \cup Elements(bs)
    BY <2>3, <2>7, ConcatElements
  <2>9. one(k) = p \o bs
    BY <2>2, <2>6
  <2> HIDE DEF one
  <2> QED BY <2>5, <2>7, <2>8, <2>9
<1> HIDE DEF one
<1>4. ss \in Seq(Seq(Store)) /\ Len(ss) = n /\ \A k \in 1 .. n : ss[k] = one(k)
  <2>1. ss \in Seq(Seq(Store))
    BY <1>1, <1>3, IsASeq
  <2> QED BY <1>1, <2>1
<1> HIDE DEF ss, n
<1>5. PICK fs : fs = FlattenSeq(ss)
  OBVIOUS
<1>6. /\ fs \in Seq(Store)
      /\ \A x : x \in Elements(fs) <=> \E k \in 1 .. n : x \in Elements(ss[k])
  BY <1>1, <1>4, <1>5, FlattenElements
<1>7. PICK c : c = <<CountStore(given)>>
  OBVIOUS
<1>8. c \in Seq(Store) /\ Elements(c) = {CountStore(given)}
  BY <1>7, ArgStoresTyped, SingletonElements
<1>9. c \o fs \in Seq(Store) /\ Elements(c \o fs) = Elements(c) \cup Elements(fs)
  BY <1>6, <1>8, ConcatElements
<1>10. WithArgs(given) = c \o fs
  BY <1>2, <1>5, <1>7
<1>11. \A x : x \in Elements(fs) <=> \E k \in 1 .. n : x \in Elements(one(k))
  BY <1>4, <1>6
<1>12. \A x : x \in Elements(fs) <=>
         \E k \in 1 .. n : \/ x = PointerStore(given, k)
                          \/ \E j \in 1 .. Len(ArgText(given, k)) : x = CharStore(given, k, j)
  BY <1>3, <1>11
<1> QED BY <1>8, <1>9, <1>10, <1>12 DEF IsArgStore, n

(* No two of them meet, and all are in the block.                          *)
LEMMA ArgStoresApart ==
  ASSUME NEW given, Readable(given), NEW a \in Nat,
         NEW x, IsArgStore(given, x), Reaches(x, a)
  PROVE  /\ a \in ArgBlock .. (ArgBlock + ArgSize(given) - 1)
         /\ \A y : IsArgStore(given, y) /\ Reaches(y, a) => x = y
<1> DEFINE n == Len(given)
           str == Str(given)
           end == ArgBlock + ArgSize(given)
           IsCount(z) == z = CountStore(given)
           IsPointer(z) == \E k \in 1 .. n : z = PointerStore(given, k)
           IsChar(z) == \E k \in 1 .. n : \E j \in 1 .. Len(ArgText(given, k)) : z = CharStore(given, k, j)
<1>1. n \in Nat /\ ArgBlock \in Nat /\ str = ArgBlock + 4 + 4 * n /\ str <= end /\ end \in Int
  BY ArgPlaces, Layout DEF Readable
<1>2. ASSUME NEW z, IsCount(z), Reaches(z, a) PROVE ArgBlock <= a /\ a < ArgBlock + 4
  BY <1>1, <1>2, ArgStoresTyped
<1>3. ASSUME NEW z, IsPointer(z), Reaches(z, a)
      PROVE  \E k \in 1 .. n : /\ z = PointerStore(given, k)
                               /\ ArgBlock + 4 * k <= a /\ a < ArgBlock + 4 * k + 4
  BY <1>1, <1>3, ArgStoresTyped
<1>4. ASSUME NEW z, IsChar(z), Reaches(z, a)
      PROVE  \E k \in 1 .. n : \E j \in 1 .. Len(ArgText(given, k)) :
               /\ z = CharStore(given, k, j) /\ a = TextStart(given, k) + j - 1
               /\ str <= a /\ a < end
  <2>1. PICK k \in 1 .. n : \E j \in 1 .. Len(ArgText(given, k)) : z = CharStore(given, k, j)
    BY <1>4
  <2>2. PICK j \in 1 .. Len(ArgText(given, k)) : z = CharStore(given, k, j)
    BY <2>1
  <2>3. a = TextStart(given, k) + j - 1
    BY <2>2, <1>4, ArgStoresTyped
  <2>4. /\ TextStart(given, k) \in Nat /\ Len(ArgText(given, k)) \in Nat
        /\ str <= TextStart(given, k) /\ TextStart(given, k) + Len(ArgText(given, k)) <= end
    BY ArgPlaces
  <2> QED BY <1>1, <2>2, <2>3, <2>4
<1>5. \A z : IsArgStore(given, z) => IsCount(z) \/ IsPointer(z) \/ IsChar(z)
  BY DEF IsArgStore
<1> HIDE DEF IsCount, IsPointer, IsChar, n, str, end
<1>6. ASSUME NEW z, IsPointer(z), Reaches(z, a) PROVE ArgBlock + 4 <= a /\ a < str
  BY <1>1, <1>3, <1>6
<1>7. ASSUME NEW z, IsChar(z), Reaches(z, a) PROVE str <= a /\ a < end
  BY <1>4, <1>7
<1>8. ASSUME NEW y, IsArgStore(given, y), Reaches(y, a) PROVE x = y
  <2>1. \/ IsCount(x) /\ IsCount(y)
        \/ IsPointer(x) /\ IsPointer(y)
        \/ IsChar(x) /\ IsChar(y)
    <3>1. IsCount(x) \/ IsPointer(x) \/ IsChar(x)
      BY <1>5
    <3>2. IsCount(y) \/ IsPointer(y) \/ IsChar(y)
      BY <1>5, <1>8
    <3>3. IsCount(x) => a < ArgBlock + 4
      BY <1>2
    <3>4. IsCount(y) => a < ArgBlock + 4
      BY <1>2, <1>8
    <3>5. IsPointer(x) => ArgBlock + 4 <= a /\ a < str
      BY <1>6
    <3>6. IsPointer(y) => ArgBlock + 4 <= a /\ a < str
      BY <1>6, <1>8
    <3>7. IsChar(x) => str <= a
      BY <1>7
    <3>8. IsChar(y) => str <= a
      BY <1>7, <1>8
    <3>9. ~ (a < ArgBlock + 4 /\ ArgBlock + 4 <= a) /\ ~ (a < str /\ str <= a)
          /\ ~ (a < ArgBlock + 4 /\ str <= a)
      BY <1>1
    <3> QED BY <3>1, <3>2, <3>3, <3>4, <3>5, <3>6, <3>7, <3>8, <3>9
  <2>2. CASE IsCount(x) /\ IsCount(y)
    BY <2>2 DEF IsCount
  <2>3. CASE IsPointer(x) /\ IsPointer(y)
    <3>1. PICK k \in 1 .. n : x = PointerStore(given, k) /\ ArgBlock + 4 * k <= a /\ a < ArgBlock + 4 * k + 4
      BY <2>3, <1>3
    <3>2. PICK l \in 1 .. n : y = PointerStore(given, l) /\ ArgBlock + 4 * l <= a /\ a < ArgBlock + 4 * l + 4
      BY <2>3, <1>3, <1>8
    <3>3. k = l
      BY <1>1, <3>1, <3>2
    <3> QED BY <3>1, <3>2, <3>3
  <2>4. CASE IsChar(x) /\ IsChar(y)
    <3>1. PICK k \in 1 .. n : \E j \in 1 .. Len(ArgText(given, k)) :
            x = CharStore(given, k, j) /\ a = TextStart(given, k) + j - 1
      BY <2>4, <1>4
    <3>2. PICK j \in 1 .. Len(ArgText(given, k)) :
            x = CharStore(given, k, j) /\ a = TextStart(given, k) + j - 1
      BY <3>1
    <3>3. PICK l \in 1 .. n : \E m \in 1 .. Len(ArgText(given, l)) :
            y = CharStore(given, l, m) /\ a = TextStart(given, l) + m - 1
      BY <2>4, <1>4, <1>8
    <3>4. PICK m \in 1 .. Len(ArgText(given, l)) :
            y = CharStore(given, l, m) /\ a = TextStart(given, l) + m - 1
      BY <3>3
    <3>5. /\ TextStart(given, k) \in Nat /\ Len(ArgText(given, k)) \in Nat
          /\ TextStart(given, l) \in Nat /\ Len(ArgText(given, l)) \in Nat
          /\ k < l => TextStart(given, k) + Len(ArgText(given, k)) <= TextStart(given, l)
          /\ l < k => TextStart(given, l) + Len(ArgText(given, l)) <= TextStart(given, k)
      BY ArgPlaces DEF n
    <3>6. ~ (k < l) /\ ~ (l < k)
      BY <3>2, <3>4, <3>5
    <3>7. k = l
      BY <1>1, <3>6
    <3>8. j = m
      BY <3>2, <3>4, <3>5, <3>7
    <3> QED BY <3>2, <3>4, <3>7, <3>8
  <2> QED BY <2>1, <2>2, <2>3, <2>4
<1>9. ArgBlock <= a /\ a < end
  <2>1. IsCount(x) \/ IsPointer(x) \/ IsChar(x)
    BY <1>5
  <2> QED BY <2>1, <1>1, <1>2, <1>6, <1>7
<1>10. end = ArgBlock + ArgSize(given)
  BY DEF end
<1>11. a \in ArgBlock .. (end - 1)
  BY <1>1, <1>9
<1>12. a \in ArgBlock .. (ArgBlock + ArgSize(given) - 1)
  <2>1. ArgSize(given) \in Nat
    BY Layout
  <2> QED BY <1>1, <1>10, <1>11, <2>1
<1>13. \A y : IsArgStore(given, y) /\ Reaches(y, a) => x = y
  BY <1>8, Zenon
<1> QED BY <1>12, <1>13

-----------------------------------------------------------------------------
(* What will be at an address once the stores of t are made: what the last *)
(* of them puts there, or what is there already.                           *)
Will(m, t, a, v) ==
  \/ ByteAt(m, a) = v /\ \A l \in 1 .. Len(t) : ~ Reaches(t[l], a)
  \/ \E l \in 1 .. Len(t) : /\ Reaches(t[l], a) /\ Puts(t[l], a) = v
                             /\ \A r \in (l + 1) .. Len(t) : ~ Reaches(t[r], a)

LEMMA WillDone == ASSUME NEW m, NEW a, NEW v PROVE Will(m, <<>>, a, v) <=> ByteAt(m, a) = v
<1>1. 1 .. Len(<<>>) = {}
  OBVIOUS
<1> QED BY <1>1 DEF Will

LEMMA WillStore ==
  ASSUME NEW m, IsMemory(m), NEW t \in Seq(Store), t # <<>>, NEW a \in Addr, NEW v, Will(m, t, a, v)
  PROVE  Will(Stored(m, Head(t)), Tail(t), a, v)
<1>1. /\ Len(t) \in Nat /\ Len(t) >= 1 /\ Head(t) = t[1] /\ t[1] \in Store
      /\ Len(Tail(t)) = Len(t) - 1
      /\ \A l \in 1 .. (Len(t) - 1) : Tail(t)[l] = t[l + 1]
  <2>1. Len(t) \in Nat /\ Len(t) >= 1
    BY EmptySeq, LenProperties
  <2>2. 1 \in 1 .. Len(t)
    BY <2>1
  <2> QED BY <2>1, <2>2, HeadTailProperties, ElementOfSeq
<1>2. PICK u : u = Tail(t) /\ Len(u) = Len(t) - 1 /\ \A l \in 1 .. (Len(t) - 1) : u[l] = t[l + 1]
  BY <1>1
<1>3. PICK q : /\ q = Stored(m, Head(t))
               /\ ByteAt(q, a) = IF Reaches(t[1], a) THEN Puts(t[1], a) ELSE ByteAt(m, a)
  BY <1>1, StoredBytes
<1>4. \A l : l \in 1 .. Len(t) <=> l = 1 \/ \E r \in 1 .. (Len(t) - 1) : l = r + 1
  <2>1. \A l \in 2 .. Len(t) : l - 1 \in 1 .. (Len(t) - 1) /\ l = (l - 1) + 1
    BY <1>1
  <2> QED BY <1>1, <2>1
<1> SUFFICES Will(q, u, a, v)
  BY <1>2, <1>3
<1>5. CASE ByteAt(m, a) = v /\ \A l \in 1 .. Len(t) : ~ Reaches(t[l], a)
  <2>1. ~ Reaches(t[1], a) /\ \A l \in 1 .. (Len(t) - 1) : ~ Reaches(t[l + 1], a)
    BY <1>4, <1>5
  <2> QED BY <2>1, <1>2, <1>3, <1>5 DEF Will
<1>6. CASE \E l \in 1 .. Len(t) : /\ Reaches(t[l], a) /\ Puts(t[l], a) = v
                                  /\ \A r \in (l + 1) .. Len(t) : ~ Reaches(t[r], a)
  <2>1. PICK l \in 1 .. Len(t) : /\ Reaches(t[l], a) /\ Puts(t[l], a) = v
                                 /\ \A r \in (l + 1) .. Len(t) : ~ Reaches(t[r], a)
    BY <1>6
  <2>2. CASE l = 1
    <3>1. \A r \in 1 .. (Len(t) - 1) : r + 1 \in (l + 1) .. Len(t)
      BY <1>1, <2>2
    <3>2. \A r \in 1 .. Len(u) : ~ Reaches(u[r], a)
      BY <1>2, <2>1, <3>1
    <3> QED BY <1>3, <2>1, <2>2, <3>2 DEF Will
  <2>3. CASE l # 1
    <3>1. PICK k \in 1 .. (Len(t) - 1) : l = k + 1
      BY <1>4, <2>3
    <3>2. \A r \in (k + 1) .. (Len(t) - 1) : r \in 1 .. (Len(t) - 1) /\ r + 1 \in (l + 1) .. Len(t)
      BY <1>1, <3>1
    <3>3. u[k] = t[l] /\ \A r \in (k + 1) .. Len(u) : ~ Reaches(u[r], a)
      BY <1>2, <2>1, <3>1, <3>2
    <3> QED BY <1>2, <2>1, <3>1, <3>3 DEF Will
  <2> QED BY <2>2, <2>3
<1> QED BY <1>5, <1>6 DEF Will

(* A list of stores of which at most one reaches an address.               *)
LEMMA WillOne ==
  ASSUME NEW m, NEW t \in Seq(Store), NEW a,
         \A x, y \in Elements(t) : Reaches(x, a) /\ Reaches(y, a) => x = y
  PROVE  /\ \A x \in Elements(t) : Reaches(x, a) => Will(m, t, a, Puts(x, a))
         /\ (\A x \in Elements(t) : ~ Reaches(x, a)) =>
               \A v : (Will(m, t, a, v) <=> ByteAt(m, a) = v)
<1>1. Len(t) \in Nat /\ \A l \in 1 .. Len(t) : t[l] \in Elements(t)
  BY LenProperties DEF Elements
<1>2. ASSUME NEW x \in Elements(t), Reaches(x, a) PROVE Will(m, t, a, Puts(x, a))
  <2> DEFINE L == {l \in 1 .. Len(t) : Reaches(t[l], a)}
  <2>1. L # {} /\ L \subseteq Int /\ IsFiniteSet(L)
    <3>1. IsFiniteSet(1 .. Len(t))
      BY <1>1, FS_Interval
    <3> QED BY <1>2, <3>1, FS_Subset DEF Elements
  <2>2. PICK l \in L : \A r \in L : r <= l
    <3> DEFINE M == {Len(t) - r : r \in L}
    <3>1. M \in SUBSET Nat /\ M # {}
      BY <1>1, <2>1
    <3>2. PICK z \in M : \A r \in M : z <= r
      <4> HIDE DEF M
      <4> QED BY <3>1, LeastOfSet
    <3>3. PICK l \in L : z = Len(t) - l
      BY <3>2
    <3>4. ASSUME NEW r \in L PROVE r <= l
      <4>1. Len(t) - l <= Len(t) - r /\ r \in Int /\ l \in Int
        <5>1. Len(t) - r \in M
          OBVIOUS
        <5> QED BY <2>1, <3>2, <3>3, <5>1
      <4> QED BY <1>1, <4>1
    <3> QED BY <3>4
  <2>3. \A r \in (l + 1) .. Len(t) : ~ Reaches(t[r], a)
    <3>1. \A r \in (l + 1) .. Len(t) : r \in 1 .. Len(t) /\ ~ (r <= l)
      BY <1>1
    <3> QED BY <2>2, <3>1
  <2>4. Reaches(t[l], a) /\ t[l] = x /\ l \in 1 .. Len(t)
    BY <1>1, <1>2
  <2> QED BY <2>3, <2>4 DEF Will
<1>3. ASSUME \A x \in Elements(t) : ~ Reaches(x, a), NEW v
      PROVE  Will(m, t, a, v) <=> ByteAt(m, a) = v
  BY <1>1, <1>3 DEF Will
<1> QED BY <1>2, <1>3

-----------------------------------------------------------------------------
(* What the byte at an address has to be once the arguments are written    *)
(* and the first n headers are read.                                       *)
ArgElements == IF Given(argv) = <<>> THEN {} ELSE Elements(WithArgs(Given(argv)))

ArgByte(a, v) ==
  \/ \E x \in ArgElements : Reaches(x, a) /\ v = Puts(x, a)
  \/ v = 0 /\ \A x \in ArgElements : ~ Reaches(x, a)

Over(k, a) == Loadable(Elf.phdrs[k]) /\ Covers(Elf.phdrs[k], a)

FileByte(ph, a) == ph.data[Wrapped(a - ph.p_vaddr) + 1]

ImageByte(n, a, v) ==
  \/ /\ ArgByte(a, v)
     /\ \A k \in 1 .. n : ~ Over(k, a)
  \/ \E k \in 1 .. n : /\ Over(k, a) /\ v = FileByte(Elf.phdrs[k], a)
                       /\ \A l \in (k + 1) .. n : ~ Over(l, a)

(* It is there, or will be when the pending stores are made.               *)
Holds(n) == \A a \in Addr, v \in Byte : ImageByte(n, a, v) => Will(mem, todo, a, v)

ImageInv ==
  /\ argv \in CommandLines
  /\ at = "args" => mem = memory_create /\ todo = <<>>
  /\ at \in {"options", "segments", "simulate"} => IsMemory(mem) /\ todo \in Seq(Store)
  /\ at = "options" => Holds(0)
  /\ at = "segments" => Holds(i)
  /\ at = "simulate" => Elf.phdrs \in Seq(Elf32_Phdr) /\ Holds(Len(Elf.phdrs))

(* What is given on a command line fits, and its stores meet nowhere.      *)
LEMMA ArgElementFacts ==
  ASSUME argv \in CommandLines, Given(argv) # <<>>
  PROVE  /\ Readable(Given(argv))
         /\ WithArgs(Given(argv)) \in Seq(Store)
         /\ ArgElements = Elements(WithArgs(Given(argv)))
         /\ \A x : x \in ArgElements <=> IsArgStore(Given(argv), x)
         /\ \A a \in Addr : \A x \in ArgElements : Reaches(x, a) =>
              /\ a \in Block
              /\ \A y \in ArgElements : Reaches(y, a) => x = y
<1>1. Readable(Given(argv))
  <2>1. Given(argv) \in Seq(STRING)
    BY DriverAssumption, GivenFacts
  <2> QED BY <2>1, ArgumentsFit DEF Readable
<1>2. /\ WithArgs(Given(argv)) \in Seq(Store)
      /\ \A x : x \in Elements(WithArgs(Given(argv))) <=> IsArgStore(Given(argv), x)
  BY <1>1, ArgStoresAre
<1>3. ArgElements = Elements(WithArgs(Given(argv)))
  BY DEF ArgElements
<1>4. ASSUME NEW a \in Addr, NEW x \in ArgElements, Reaches(x, a)
      PROVE  a \in Block /\ \A y \in ArgElements : Reaches(y, a) => x = y
  <2>1. a \in Nat /\ IsArgStore(Given(argv), x)
    BY <1>2, <1>3, <1>4, SizeOfMemory
  <2>2. /\ a \in ArgBlock .. (ArgBlock + ArgSize(Given(argv)) - 1)
        /\ \A y : IsArgStore(Given(argv), y) /\ Reaches(y, a) => x = y
    BY <1>1, <1>4, <2>1, ArgStoresApart
  <2> QED BY <1>2, <1>3, <2>2 DEF Block
<1> QED BY <1>1, <1>2, <1>3, <1>4

(* No header is read yet: the arguments on an empty memory.                *)
LEMMA PassArgsHolds ==
  ASSUME ImageInv, PassArgs, TypeOK, at' = "options"
  PROVE  IsMemory(mem') /\ todo' \in Seq(Store) /\ Holds(0)'
<1>1. /\ mem' = memory_create /\ argv' = argv /\ argv \in CommandLines
      /\ todo' = IF Separator(argv) = 0 THEN <<>> ELSE WithArgs(Given(argv))
  BY DEF ImageInv, PassArgs, At
<1>2. IsMemory(mem') /\ \A a \in Addr : ByteAt(mem', a) = 0
  BY <1>1 DEF memory_create, IsMemory, ByteAt
<1>3. argv # <<>> /\ argv \in Seq(STRING)
  BY <1>1, DriverAssumption
<1>4. todo' = IF Given(argv) = <<>> THEN <<>> ELSE WithArgs(Given(argv))
  BY <1>1, <1>3, GivenFacts
<1>5. todo' \in Seq(Store)
  BY <1>1, <1>4, ArgElementFacts, EmptySeq
<1>6. ASSUME NEW a \in Addr, NEW v, ArgByte(a, v) PROVE Will(mem', todo', a, v)
  <2>1. CASE Given(argv) = <<>>
    <3>1. v = 0 /\ todo' = <<>>
      BY <1>4, <1>6, <2>1 DEF ArgByte, ArgElements
    <3> QED BY <1>2, <3>1, WillDone
  <2>2. CASE Given(argv) # <<>>
    <3>1. /\ ArgElements = Elements(todo')
          /\ \A x, y \in Elements(todo') : Reaches(x, a) /\ Reaches(y, a) => x = y
      BY <1>1, <1>4, <2>2, ArgElementFacts
    <3>2. /\ \A x \in Elements(todo') : Reaches(x, a) => Will(mem', todo', a, Puts(x, a))
          /\ (\A x \in Elements(todo') : ~ Reaches(x, a)) =>
               \A w : (Will(mem', todo', a, w) <=> ByteAt(mem', a) = w)
      BY <1>5, <3>1, WillOne
    <3> QED BY <1>2, <1>6, <3>1, <3>2 DEF ArgByte
  <2> QED BY <2>1, <2>2
<1>7. \A a, v : ImageByte(0, a, v)' => ArgByte(a, v)
  <2>1. 1 .. 0 = {}
    OBVIOUS
  <2>2. \A a, v : ArgByte(a, v)' => ArgByte(a, v)
    BY <1>1 DEF ArgByte, ArgElements
  <2> QED BY <2>1, <2>2 DEF ImageByte
<1> QED BY <1>2, <1>5, <1>6, <1>7 DEF Holds

(* A store makes one of the pending changes.                               *)
LEMMA StoreHolds ==
  ASSUME StoreNext, IsMemory(mem), todo \in Seq(Store), NEW n, Holds(n)
  PROVE  IsMemory(mem') /\ todo' \in Seq(Store) /\ Holds(n)'
<1>1. /\ todo # <<>> /\ mem' = Stored(mem, Head(todo)) /\ todo' = Tail(todo)
      /\ argv' = argv /\ disk' = disk
  BY DEF StoreNext, args, files
<1>2. Head(todo) \in Store /\ todo' \in Seq(Store)
  BY <1>1, HeadTailProperties
<1>3. IsMemory(mem')
  BY <1>1, <1>2, StoredBytes
<1>4. ASSUME NEW a \in Addr, NEW v \in Byte, ImageByte(n, a, v)' PROVE Will(mem', todo', a, v)
  <2>1. ImageByte(n, a, v)
    BY <1>1, <1>4 DEF ImageByte, ArgByte, ArgElements, Over, Elf
  <2>2. Will(mem, todo, a, v)
    BY <2>1 DEF Holds
  <2> QED BY <1>1, <2>2, WillStore
<1> QED BY <1>2, <1>3, <1>4 DEF Holds

(* The place of an address in a segment, which the address space may wrap. *)
LEMMA PlaceInSegment ==
  ASSUME NEW a \in Addr, NEW v \in Addr, NEW d \in Addr, Wrapped(v + d) = a
  PROVE  d = Wrapped(a - v)
<1>1. PICK m \in Nat \ {0} : m = NPages * PageBytes
  BY SizeOfMemory
<1>2. /\ a \in Nat /\ a < m /\ v \in Nat /\ v < m /\ d \in Nat /\ d < m
      /\ (v + d) % m = a
  BY <1>1, SizeOfMemory DEF Wrapped
<1>3. v + d = a \/ v + d = a + m
  BY <1>2
<1>4. (a - v) % m = d
  <2>1. CASE v + d = a
    BY <1>2, <2>1
  <2>2. CASE v + d = a + m
    <3>1. a - v = d - m /\ (d - m) % m = d
      BY <1>2, <2>2
    <3> QED BY <3>1
  <2> QED BY <1>3, <2>1, <2>2
<1> QED BY <1>1, <1>4 DEF Wrapped

(* The stores of a segment.                                                *)
LEMMA SegmentStoresAre ==
  ASSUME NEW ph \in Elf32_Phdr, ~ ShortSegment(ph)
  PROVE  /\ SegmentStores(ph) \in Seq(Store)
         /\ \A a \in Addr, x \in Elements(SegmentStores(ph)) :
              Reaches(x, a) => Covers(ph, a) /\ Puts(x, a) = FileByte(ph, a)
         /\ \A a \in Addr : Covers(ph, a) =>
              \E x \in Elements(SegmentStores(ph)) : Reaches(x, a)
         /\ \A a \in Addr : \A x, y \in Elements(SegmentStores(ph)) :
              Reaches(x, a) /\ Reaches(y, a) => x = y
         /\ \A a \in Addr : Covers(ph, a) => FileByte(ph, a) \in Byte
<1>1. /\ ph.data \in Seq(Byte) /\ ph.p_vaddr \in Addr /\ ph.p_filesz \in Addr
      /\ ph.p_filesz \in Nat /\ ph.p_vaddr \in Nat
      /\ Len(ph.data) \in Nat /\ ph.p_filesz <= Len(ph.data)
  BY LenProperties, SizeOfMemory DEF Elf32_Phdr, ShortSegment
<1>2. PICK bytes : bytes = SubSeq(ph.data, 1, ph.p_filesz)
  OBVIOUS
<1>3. /\ bytes \in Seq(Byte) /\ Len(bytes) = ph.p_filesz
      /\ \A j \in 1 .. ph.p_filesz : bytes[j] = ph.data[j] /\ bytes[j] \in Byte
  <2>1. /\ bytes \in Seq(Byte) /\ Len(bytes) = ph.p_filesz
        /\ \A j \in 1 .. ph.p_filesz : bytes[j] = ph.data[j]
    BY <1>1, <1>2, SubSeqProperties
  <2> QED BY <2>1, ElementOfSeq
<1>4. PICK t : t = SegmentStores(ph)
  OBVIOUS
<1> DEFINE one(j) == ByteStore(Wrapped(ph.p_vaddr + j - 1), ph.data[j])
<1>5. /\ t \in Seq(Store) /\ Len(t) = ph.p_filesz
      /\ \A j \in 1 .. ph.p_filesz : t[j] = one(j)
  <2>1. t = ByteStores(ph.p_vaddr, bytes)
    BY <1>2, <1>4 DEF SegmentStores
  <2>2. /\ t \in Seq(Store) /\ Len(t) = Len(bytes)
        /\ \A j \in 1 .. Len(bytes) : t[j] = ByteStore(Wrapped(ph.p_vaddr + j - 1), bytes[j])
    BY <1>1, <1>3, <2>1, ByteStoresAre
  <2> QED BY <1>3, <2>2
<1>6. \A j \in 1 .. ph.p_filesz : /\ j - 1 \in Addr /\ ph.p_vaddr + j - 1 = ph.p_vaddr + (j - 1)
                                  /\ Wrapped(ph.p_vaddr + j - 1) \in Addr
  <2> TAKE j \in 1 .. ph.p_filesz
  <2>1. j - 1 \in Nat /\ j - 1 < ph.p_filesz /\ ph.p_vaddr + j - 1 \in Nat
    BY <1>1
  <2>2. ph.p_filesz < NPages * PageBytes /\ NPages * PageBytes \in Nat
    BY <1>1, SizeOfMemory
  <2>3. j - 1 < NPages * PageBytes
    BY <1>1, <2>1, <2>2
  <2> QED BY <1>1, <2>1, <2>3, SizeOfMemory, WrappedFacts
<1>7. ASSUME NEW j \in 1 .. ph.p_filesz, NEW a
      PROVE  /\ Reaches(one(j), a) <=> a = Wrapped(ph.p_vaddr + j - 1)
             /\ a = Wrapped(ph.p_vaddr + j - 1) => Puts(one(j), a) = ph.data[j]
  BY <1>3, <1>6, ByteStoreFacts
<1>8. ASSUME NEW a \in Addr, NEW j \in 1 .. ph.p_filesz, Wrapped(ph.p_vaddr + j - 1) = a
      PROVE  j = Wrapped(a - ph.p_vaddr) + 1
  <2>1. j - 1 = Wrapped(a - ph.p_vaddr)
    BY <1>1, <1>6, <1>8, PlaceInSegment
  <2> QED BY <2>1
<1>9. \A x : x \in Elements(t) <=> \E j \in 1 .. ph.p_filesz : x = one(j)
  <2> HIDE DEF one
  <2> QED BY <1>5 DEF Elements
<1> HIDE DEF one
<1>10. ASSUME NEW a \in Addr, NEW x \in Elements(t), Reaches(x, a)
       PROVE  /\ Covers(ph, a) /\ Puts(x, a) = FileByte(ph, a)
              /\ x = one(Wrapped(a - ph.p_vaddr) + 1)
  <2>1. PICK j \in 1 .. ph.p_filesz : x = one(j)
    BY <1>9
  <2>2. Wrapped(ph.p_vaddr + j - 1) = a /\ Puts(x, a) = ph.data[j]
    BY <1>7, <1>10, <2>1
  <2>3. j = Wrapped(a - ph.p_vaddr) + 1
    BY <1>8, <2>2
  <2> QED BY <2>1, <2>2, <2>3 DEF Covers, FileByte
<1>11. ASSUME NEW a \in Addr, Covers(ph, a)
       PROVE  (\E x \in Elements(t) : Reaches(x, a)) /\ FileByte(ph, a) \in Byte
  <2>1. PICK j \in 1 .. ph.p_filesz : Wrapped(ph.p_vaddr + j - 1) = a
    BY <1>11 DEF Covers
  <2>2. one(j) \in Elements(t) /\ Reaches(one(j), a)
    BY <1>7, <1>9, <2>1
  <2>3. FileByte(ph, a) = ph.data[j] /\ ph.data[j] \in Byte
    BY <1>3, <1>8, <2>1 DEF FileByte
  <2> QED BY <2>2, <2>3
<1> QED BY <1>4, <1>5, <1>10, <1>11

(* One more header: its bytes go on top, or memory stays as it is.         *)
LEMMA OverMore ==
  ASSUME NEW n \in Nat, NEW a, NEW v, ImageByte(n + 1, a, v)
  PROVE  \/ Over(n + 1, a) /\ v = FileByte(Elf.phdrs[n + 1], a)
         \/ ~ Over(n + 1, a) /\ ImageByte(n, a, v)
<1>1. \A k : k \in 1 .. (n + 1) <=> k \in 1 .. n \/ k = n + 1
  OBVIOUS
<1>2. CASE \E k \in 1 .. (n + 1) : /\ Over(k, a) /\ v = FileByte(Elf.phdrs[k], a)
                                   /\ \A l \in (k + 1) .. (n + 1) : ~ Over(l, a)
  <2>1. PICK k \in 1 .. (n + 1) : /\ Over(k, a) /\ v = FileByte(Elf.phdrs[k], a)
                                  /\ \A l \in (k + 1) .. (n + 1) : ~ Over(l, a)
    BY <1>2
  <2>2. CASE k = n + 1
    BY <2>1, <2>2
  <2>3. CASE k # n + 1
    <3>1. k \in 1 .. n /\ n + 1 \in (k + 1) .. (n + 1)
      BY <2>3
    <3>2. \A l \in (k + 1) .. n : l \in (k + 1) .. (n + 1)
      OBVIOUS
    <3> QED BY <2>1, <3>1, <3>2 DEF ImageByte
  <2> QED BY <2>2, <2>3
<1>3. CASE ArgByte(a, v) /\ \A k \in 1 .. (n + 1) : ~ Over(k, a)
  BY <1>1, <1>3 DEF ImageByte
<1> QED BY <1>2, <1>3 DEF ImageByte

LEMMA LoadHolds ==
  ASSUME ImageInv, IInv, LoadSegment, at' = "segments"
  PROVE  IsMemory(mem') /\ todo' \in Seq(Store) /\ Holds(i)'
<1>1. /\ at = "segments" /\ todo = <<>> /\ i < Len(Elf.phdrs) /\ i \in Nat
      /\ mem' = mem /\ argv' = argv /\ disk' = disk /\ Elf' = Elf
      /\ IsMemory(mem) /\ Holds(i) /\ Elf.phdrs \in Seq(Elf32_Phdr)
  BY DEF ImageInv, IInv, TypeOK, HeadersPassed, LoadSegment, At, args, Elf
<1>2. Segment \in Elf32_Phdr /\ Segment = Elf.phdrs[i + 1] /\ i + 1 \in Nat
  <2>1. i + 1 \in 1 .. Len(Elf.phdrs)
    BY <1>1, LenProperties
  <2> QED BY <1>1, <2>1, ElementOfSeq DEF Segment
<1>3. \A n, a, v : ImageByte(n, a, v)' <=> ImageByte(n, a, v)
  BY <1>1 DEF ImageByte, ArgByte, ArgElements, Over
<1>4. ASSUME NEW a \in Addr, NEW v \in Byte, ImageByte(i, a, v) PROVE ByteAt(mem, a) = v
  BY <1>1, <1>4, WillDone DEF Holds
<1>5. ASSUME i' = i + 1, todo' \in Seq(Store),
             \A a \in Addr, v \in Byte : ImageByte(i + 1, a, v) => Will(mem, todo', a, v)
      PROVE  IsMemory(mem') /\ todo' \in Seq(Store) /\ Holds(i)'
  BY <1>1, <1>3, <1>5 DEF Holds
<1>6. CASE ~ Loadable(Segment) /\ i' = i + 1 /\ todo' = todo
  <2>1. ASSUME NEW a \in Addr, NEW v \in Byte, ImageByte(i + 1, a, v) PROVE Will(mem, todo', a, v)
    <3>1. ImageByte(i, a, v)
      BY <1>1, <1>2, <1>6, <2>1, OverMore DEF Over
    <3> QED BY <1>1, <1>4, <1>6, <3>1, WillDone
  <2> QED BY <1>1, <1>5, <1>6, <2>1, EmptySeq
<1>7. CASE Loadable(Segment) /\ ~ ShortSegment(Segment) /\ i' = i + 1 /\ todo' = SegmentStores(Segment)
  <2>1. /\ todo' \in Seq(Store)
        /\ \A a \in Addr, x \in Elements(todo') :
              Reaches(x, a) => Covers(Segment, a) /\ Puts(x, a) = FileByte(Segment, a)
        /\ \A a \in Addr : Covers(Segment, a) => \E x \in Elements(todo') : Reaches(x, a)
        /\ \A a \in Addr : \A x, y \in Elements(todo') : Reaches(x, a) /\ Reaches(y, a) => x = y
    BY <1>2, <1>7, SegmentStoresAre
  <2>2. ASSUME NEW a \in Addr, NEW v \in Byte, ImageByte(i + 1, a, v) PROVE Will(mem, todo', a, v)
    <3>1. /\ \A x \in Elements(todo') : Reaches(x, a) => Will(mem, todo', a, Puts(x, a))
          /\ (\A x \in Elements(todo') : ~ Reaches(x, a)) =>
               (Will(mem, todo', a, v) <=> ByteAt(mem, a) = v)
      BY <2>1, WillOne
    <3>2. CASE Covers(Segment, a)
      <4>1. v = FileByte(Segment, a)
        BY <1>1, <1>2, <1>7, <2>2, <3>2, OverMore DEF Over
      <4> QED BY <2>1, <3>1, <3>2, <4>1
    <3>3. CASE ~ Covers(Segment, a)
      <4>1. ImageByte(i, a, v)
        BY <1>1, <1>2, <2>2, <3>3, OverMore DEF Over
      <4> QED BY <1>4, <2>1, <3>1, <3>3, <4>1
    <3> QED BY <3>2, <3>3
  <2> QED BY <1>5, <1>7, <2>1, <2>2
<1>8. at' # "segments" \/ (~ Loadable(Segment) /\ i' = i + 1 /\ todo' = todo)
      \/ (Loadable(Segment) /\ ~ ShortSegment(Segment) /\ i' = i + 1 /\ todo' = SegmentStores(Segment))
  BY DEF LoadSegment, Fail, Exit
<1> QED BY <1>6, <1>7, <1>8

LEMMA InitImage == Init => ImageInv
BY DEF Init, ImageInv

LEMMA StepImage == ImageInv /\ IInv /\ [Next]_vars => ImageInv'
<1> SUFFICES ASSUME ImageInv, IInv, [Next]_vars PROVE ImageInv'
  OBVIOUS
<1>1. argv' = argv
  BY DEF Next, vars, args, PassArgs, StoreNext, Disassemble, Log, Profile, OpenFor, Summary, Predictor,
         UnknownOption, OpenElf, LoadSegment, ReadSymbols, List, Simulate, Summarise, WriteProfile
<1>2. CASE PassArgs
  <2>1. at' \in {"options", "exit"}
    BY <1>2 DEF PassArgs, Usage, Exit
  <2> QED BY <1>1, <1>2, <2>1, PassArgsHolds DEF ImageInv, IInv
<1>3. CASE StoreNext
  <2>1. at' = at /\ i' = i /\ Elf' = Elf /\ at # "args"
    BY <1>3 DEF StoreNext, args, files, ImageInv, Elf
  <2>2. ASSUME IsMemory(mem), todo \in Seq(Store), NEW n, Holds(n)
        PROVE  IsMemory(mem') /\ todo' \in Seq(Store) /\ Holds(n)'
    BY <1>3, <2>2, StoreHolds
  <2>3. CASE at = "options"
    BY <1>1, <2>1, <2>2, <2>3 DEF ImageInv
  <2>4. CASE at = "segments"
    BY <1>1, <2>1, <2>2, <2>4 DEF ImageInv, Holds
  <2>5. CASE at = "simulate"
    BY <1>1, <2>1, <2>2, <2>5 DEF ImageInv, Holds
  <2>6. CASE at \notin {"options", "segments", "simulate"}
    BY <1>1, <2>1, <2>6 DEF ImageInv
  <2> QED BY <2>3, <2>4, <2>5, <2>6
<1>4. CASE Disassemble \/ Log \/ Profile \/ Summary \/ Predictor \/ UnknownOption
  <2>1. at = "options" /\ at' \in {"options", "exit"} /\ mem' = mem /\ todo' = todo
    BY <1>4 DEF Disassemble, Log, Profile, OpenFor, Summary, Predictor, UnknownOption, Option, At,
                Usage, Exit, Take, ram
  <2>2. Holds(0) => Holds(0)'
    <3>1. 1 .. 0 = {}
      OBVIOUS
    <3> QED BY <1>1, <2>1, <3>1 DEF Holds, ImageByte, ArgByte, ArgElements
  <2> QED BY <1>1, <2>1, <2>2 DEF ImageInv
<1>5. CASE OpenElf
  <2>1. at = "options" /\ at' \in {"exit", "crash", "segments"} /\ mem' = mem /\ todo' = todo
    BY <1>5 DEF OpenElf, At, Fail, Exit, ram
  <2>2. at' = "segments" => i' = 0
    BY <1>5 DEF OpenElf, Fail, Exit
  <2>3. Holds(0) => Holds(0)'
    <3>1. 1 .. 0 = {}
      OBVIOUS
    <3> QED BY <1>1, <2>1, <3>1 DEF Holds, ImageByte, ArgByte, ArgElements
  <2>4. at' = "segments" => Holds(i)'
    BY <2>1, <2>2, <2>3 DEF ImageInv, Holds
  <2> QED BY <1>1, <2>1, <2>4 DEF ImageInv
<1>6. CASE LoadSegment
  <2>1. at' \in {"segments", "exit", "crash"}
    BY <1>6 DEF LoadSegment, At, Fail, Exit
  <2> QED BY <1>1, <1>6, <2>1, LoadHolds DEF ImageInv
<1>7. CASE ReadSymbols
  <2>1. /\ at = "segments" /\ at' \in {"list", "simulate", "exit"} /\ i = Len(Elf.phdrs)
        /\ mem' = mem /\ todo' = todo /\ Elf' = Elf
    BY <1>7 DEF ReadSymbols, At, Exit, ram, args, Elf
  <2>2. Elf.phdrs \in Seq(Elf32_Phdr)
    BY <2>1 DEF IInv, TypeOK, HeadersPassed, Elf
  <2>3. Holds(i) => Holds(Len(Elf.phdrs))'
    BY <1>1, <2>1 DEF Holds, ImageByte, ArgByte, ArgElements, Over
  <2> QED BY <1>1, <2>1, <2>2, <2>3 DEF ImageInv
<1>8. CASE List \/ Simulate \/ Summarise \/ WriteProfile
  <2>1. at' \notin {"args", "options", "segments", "simulate"}
    BY <1>8 DEF List, Simulate, Summarise, WriteProfile, At, Exit
  <2> QED BY <1>1, <2>1 DEF ImageInv
<1>9. CASE UNCHANGED vars
  <2>1. /\ at' = at /\ i' = i /\ mem' = mem /\ todo' = todo /\ Elf' = Elf
    BY <1>9 DEF vars, Elf
  <2>2. \A n : Holds(n) => Holds(n)'
    BY <1>1, <2>1 DEF Holds, ImageByte, ArgByte, ArgElements, Over
  <2> QED BY <1>1, <2>1, <2>2 DEF ImageInv, Holds
<1> QED BY <1>2, <1>3, <1>4, <1>5, <1>6, <1>7, <1>8, <1>9 DEF Next

LEMMA SpecImage == Spec => [](IInv /\ ImageInv)
BY InitIInv, StepIInv, InitImage, StepImage, PTL DEF Spec

-----------------------------------------------------------------------------
(* What the invariant says of memory when the program starts.              *)
LEMMA StartImage ==
  ASSUME ImageInv, At("simulate")
  PROVE  /\ IsMemory(mem) /\ Elf.phdrs \in Seq(Elf32_Phdr)
         /\ \A a \in Addr, v \in Byte : ImageByte(Len(Elf.phdrs), a, v) => ByteAt(mem, a) = v
BY WillDone DEF ImageInv, At, Holds

LEMMA MaxFacts ==
  ASSUME NEW n \in Nat, NEW S \in SUBSET (1 .. n), S # {}
  PROVE  Max(S) \in S /\ \A k \in S : k <= Max(S)
<1> DEFINE M == {n - k : k \in S}
<1>1. M \in SUBSET Nat /\ M # {}
  <2>1. \A k \in S : k \in 1 .. n /\ n - k \in Nat
    OBVIOUS
  <2> QED BY <2>1
<1>2. PICK z \in M : \A r \in M : z <= r
  <2> HIDE DEF M
  <2> QED BY <1>1, LeastOfSet
<1>3. PICK k \in S : z = n - k
  BY <1>2
<1>4. ASSUME NEW l \in S PROVE l <= k
  <2>1. n - l \in M
    OBVIOUS
  <2>2. z <= n - l
    BY <1>2, <2>1
  <2> QED BY <1>3, <2>2
<1>5. \E x \in S : \A y \in S : x >= y
  BY <1>4
<1>6. Max(S) \in S /\ \A y \in S : Max(S) >= y
  BY <1>5 DEF Max
<1> QED BY <1>6

(* When the program starts, a byte that segments cover is the one of the   *)
(* last of them, and a byte that neither a segment nor an argument covers  *)
(* is 0 (main.c:80, read_elf.c:40-103): whatever the sizes, alignments and *)
(* overlaps of the segments, one that wraps at the top of the address      *)
(* space included.                                                         *)
THEOREM MemoryLoaded == Spec => []MemoryIsImage
<1>1. IInv /\ ImageInv => MemoryIsImage
  <2> SUFFICES ASSUME IInv, ImageInv, At("simulate"), NEW a \in Addr
               PROVE  LET over == {k \in Segments : Covers(Elf.phdrs[k], a)}
                          last == Elf.phdrs[Max(over)]
                      IN  IF over # {}
                          THEN ByteAt(mem, a) = last.data[Wrapped(a - last.p_vaddr) + 1]
                          ELSE a \notin Block => ByteAt(mem, a) = 0
    BY DEF MemoryIsImage
  <2> DEFINE n == Len(Elf.phdrs)
             over == {k \in Segments : Covers(Elf.phdrs[k], a)}
  <2>1. /\ Elf.phdrs \in Seq(Elf32_Phdr) /\ n \in Nat /\ DOMAIN Elf.phdrs = 1 .. n
        /\ \A v \in Byte : ImageByte(n, a, v) => ByteAt(mem, a) = v
    BY StartImage, LenProperties
  <2>2. \A k \in 1 .. n : k \in over <=> Over(k, a)
    BY <2>1 DEF Segments, Over
  <2>3. over \in SUBSET (1 .. n)
    BY <2>1 DEF Segments
  <2> HIDE DEF over
  <2>4. CASE over # {}
    <3>1. PICK k \in 1 .. n : k = Max(over) /\ k \in over /\ \A l \in over : l <= k
      BY <2>1, <2>3, <2>4, MaxFacts
    <3>2. Over(k, a) /\ \A l \in (k + 1) .. n : ~ Over(l, a)
      <4>1. \A l \in (k + 1) .. n : l \in 1 .. n /\ ~ (l <= k)
        BY <2>1
      <4> QED BY <2>2, <3>1, <4>1
    <3>3. FileByte(Elf.phdrs[k], a) \in Byte
      <4>1. Elf.phdrs[k] \in Elf32_Phdr
        BY <2>1, ElementOfSeq
      <4>2. ~ ShortSegment(Elf.phdrs[k])
        BY <2>1, <3>2 DEF Over, IInv, OnlyWholePrograms, Loaded, At
      <4> QED BY <3>2, <4>1, <4>2, SegmentStoresAre DEF Over
    <3>4. ImageByte(n, a, FileByte(Elf.phdrs[k], a))
      BY <3>2 DEF ImageByte
    <3>5. ByteAt(mem, a) = FileByte(Elf.phdrs[k], a)
      BY <2>1, <3>3, <3>4
    <3> QED BY <2>4, <3>1, <3>5 DEF FileByte, over
  <2>5. CASE over = {} /\ a \notin Block
    <3>1. ArgByte(a, 0)
      <4>1. CASE Given(argv) = <<>>
        BY <4>1 DEF ArgByte, ArgElements
      <4>2. CASE Given(argv) # <<>>
        BY <2>5, <4>2, ArgElementFacts DEF ArgByte, ImageInv
      <4> QED BY <4>1, <4>2
    <3>2. ImageByte(n, a, 0)
      BY <2>2, <2>5, <3>1 DEF ImageByte
    <3>3. 0 \in Byte
      BY BaseFacts DEF Byte
    <3> QED BY <2>1, <2>5, <3>2, <3>3 DEF over
  <2> QED BY <2>4, <2>5 DEF over
<1> QED BY <1>1, SpecImage, PTL

LEMMA ReadBack ==
  ASSUME NEW m, IsMemory(m), NEW a \in Addr, Aligned(a, 4), NEW w \in Word,
         \A d \in 0 .. 3 : ByteAt(m, a + d) = Lane(w, d)
  PROVE  memory_rd_w(m, a) = w
<1>1. memory_rd_w(m, a) = Compose(ByteAt(m, a), ByteAt(m, a + 1), ByteAt(m, a + 2), ByteAt(m, a + 3))
  BY RdBytes
<1>2. /\ ByteAt(m, a) = Lane(w, 0) /\ ByteAt(m, a + 1) = Lane(w, 1)
      /\ ByteAt(m, a + 2) = Lane(w, 2) /\ ByteAt(m, a + 3) = Lane(w, 3)
  <2>1. a + 0 = a /\ 0 \in 0 .. 3 /\ 1 \in 0 .. 3 /\ 2 \in 0 .. 3 /\ 3 \in 0 .. 3
    BY SizeOfMemory
  <2> QED BY <2>1
<1> QED BY <1>1, <1>2, WordLanes

(* The program finds the arguments where its start-up code looks for them, *)
(* whatever they are, unless a segment covers their block (main.c:26-52    *)
(* and 80, lib.c:12-22).                                                   *)
THEOREM ArgumentsFound == Spec => []ArgumentsArrive
<1>1. ImageInv => ArgumentsArrive
  <2> SUFFICES ASSUME ImageInv, At("simulate"), Given(argv) # <<>>,
                      \A a \in Block, k \in Segments : ~ Covers(Elf.phdrs[k], a)
               PROVE  /\ program_argc = Len(Given(argv))
                      /\ \A k \in DOMAIN Given(argv) :
                           LET text == ArgText(Given(argv), k)
                           IN  \A j \in DOMAIN text : ByteAt(mem, program_argv(k - 1) + j - 1) = text[j]
    BY DEF ArgumentsArrive
  <2> DEFINE n == Len(Elf.phdrs)
  <2>1. /\ IsMemory(mem) /\ Elf.phdrs \in Seq(Elf32_Phdr) /\ n \in Nat /\ DOMAIN Elf.phdrs = 1 .. n
        /\ \A a \in Addr, v \in Byte : ImageByte(n, a, v) => ByteAt(mem, a) = v
    BY StartImage, LenProperties
  <2> HIDE DEF n
  <2>2. PICK given : given = Given(argv)
    OBVIOUS
  <2>3. /\ Readable(given)
        /\ \A x : x \in ArgElements <=> IsArgStore(given, x)
        /\ \A a \in Addr : \A x \in ArgElements : Reaches(x, a) => a \in Block
    BY <2>2, ArgElementFacts DEF ImageInv
  <2>4. ASSUME NEW a \in Addr, NEW x, IsArgStore(given, x), Reaches(x, a), Puts(x, a) \in Byte
        PROVE  ByteAt(mem, a) = Puts(x, a)
    <3>1. x \in ArgElements /\ a \in Block
      BY <2>3, <2>4
    <3>2. \A k \in 1 .. n : ~ Over(k, a)
      BY <2>1, <3>1 DEF Over, Segments
    <3>3. ImageByte(n, a, Puts(x, a))
      BY <2>4, <3>1, <3>2 DEF ImageByte, ArgByte
    <3> QED BY <2>1, <2>4, <3>3
  <2>5. ASSUME NEW a \in Addr, Aligned(a, 4), NEW w \in Word, NEW x, IsArgStore(given, x),
               \A b : Reaches(x, b) <=> b \in a .. (a + 3),
               \A b : Puts(x, b) = Lane(w, b - a)
        PROVE  memory_rd_w(mem, a) = w
    <3>1. ASSUME NEW d \in 0 .. 3 PROVE ByteAt(mem, a + d) = Lane(w, d)
      <4>1. a + d \in Addr
        <5>1. a \in Nat /\ a + 0 = a /\ a + 1 \in Addr /\ a + 2 \in Addr /\ a + 3 \in Addr
          BY <2>1, <2>5, SizeOfMemory, RdBytes
        <5>2. d = 0 \/ d = 1 \/ d = 2 \/ d = 3
          OBVIOUS
        <5> QED BY <5>1, <5>2
      <4>2. a + d \in a .. (a + 3) /\ (a + d) - a = d
        BY SizeOfMemory
      <4>3. Reaches(x, a + d) /\ Puts(x, a + d) = Lane(w, d)
        BY <2>5, <4>2
      <4>4. Lane(w, d) \in Byte
        BY WordLanes
      <4> QED BY <2>4, <2>5, <4>1, <4>3, <4>4
    <3> QED BY <2>1, <2>5, <3>1, ReadBack
  <2>6. program_argc = Len(given)
    <3>1. IsArgStore(given, CountStore(given))
      BY DEF IsArgStore
    <3>2. ArgBlock \in Addr /\ Aligned(ArgBlock, 4)
      BY DriverAssumption DEF Aligned
    <3>3. /\ \A b : Reaches(CountStore(given), b) <=> b \in ArgBlock .. (ArgBlock + 3)
          /\ \A b : Puts(CountStore(given), b) = Lane(Len(given), b - ArgBlock)
          /\ Len(given) \in Word
      BY <2>3, ArgStoresTyped
    <3> QED BY <2>5, <3>1, <3>2, <3>3 DEF program_argc
  <2>7. ASSUME NEW k \in 1 .. Len(given)
        PROVE  program_argv(k - 1) = TextStart(given, k)
    <3>1. IsArgStore(given, PointerStore(given, k))
      BY DEF IsArgStore
    <3>2. /\ ArgBlock + 4 * k \in Addr /\ Aligned(ArgBlock + 4 * k, 4) /\ TextStart(given, k) \in Word
          /\ \A b : Reaches(PointerStore(given, k), b)
                       <=> b \in (ArgBlock + 4 * k) .. (ArgBlock + 4 * k + 3)
          /\ \A b : Puts(PointerStore(given, k), b) = Lane(TextStart(given, k), b - (ArgBlock + 4 * k))
      BY <2>3, ArgStoresTyped
    <3>3. PICK a \in Addr : a = ArgBlock + 4 * k
      BY <3>2
    <3>4. memory_rd_w(mem, a) = TextStart(given, k)
      BY <2>5, <3>1, <3>2, <3>3
    <3>5. ArgBlock + 4 + 4 * (k - 1) = ArgBlock + 4 * k
      <4>1. ArgBlock \in Nat /\ Len(given) \in Nat
        BY <2>3, ArgPlaces
      <4> QED BY <4>1
    <3> QED BY <3>3, <3>4, <3>5 DEF program_argv
  <2>8. ASSUME NEW k \in 1 .. Len(given), NEW j \in 1 .. Len(ArgText(given, k))
        PROVE  ByteAt(mem, TextStart(given, k) + j - 1) = ArgText(given, k)[j]
    <3>1. PICK a : a = TextStart(given, k) + j - 1
      OBVIOUS
    <3>2. /\ a \in Addr /\ Reaches(CharStore(given, k, j), a)
          /\ Puts(CharStore(given, k, j), a) = ArgText(given, k)[j]
      BY <2>3, <3>1, ArgStoresTyped
    <3>3. IsArgStore(given, CharStore(given, k, j))
      BY DEF IsArgStore
    <3>4. ArgText(given, k)[j] \in Byte
      BY <2>3, TextTyped, ElementOfSeq
    <3> QED BY <2>4, <3>1, <3>2, <3>3, <3>4
  <2>9. DOMAIN given = 1 .. Len(given)
    BY <2>3, LenProperties DEF Readable
  <2>10. \A k \in 1 .. Len(given) : DOMAIN ArgText(given, k) = 1 .. Len(ArgText(given, k))
    BY <2>3, TextTyped, LenProperties
  <2> QED BY <2>2, <2>6, <2>7, <2>8, <2>9, <2>10
<1> QED BY <1>1, SpecImage, PTL

-----------------------------------------------------------------------------
(* The listing: info is that of the last segment of code read so far, and  *)
(* the addresses count up from its text_start.                             *)
Code(k) == Loadable(Elf.phdrs[k]) /\ "PF_X" \in Elf.phdrs[k].p_flags

First(ph) == ph.p_vaddr + EhdrSize + Len(Elf.phdrs) * PhdrSize

CodeInfo(n) ==
  \A k \in 1 .. n : Code(k) /\ (\A l \in (k + 1) .. n : ~ Code(l)) =>
    /\ info.text_start = Wrapped(First(Elf.phdrs[k]))
    /\ info.text_end = Wrapped(Elf.phdrs[k].p_vaddr + Elf.phdrs[k].p_filesz)

ThreeFields == [text_start |-> info.text_start, text_end |-> info.text_end, start |-> info.start]

Listing == at = "list" \/ (at = "end" /\ options.disasm)

ListInv ==
  /\ info = ThreeFields /\ info.text_start \in Addr /\ info.text_end \in Addr
  /\ listing \in Seq(Addr)
  /\ at \in {"args", "options", "segments"} => listing = <<>>
  /\ at = "segments" => CodeInfo(i)
  /\ Listing => Elf.phdrs \in Seq(Elf32_Phdr) /\ CodeInfo(Len(Elf.phdrs))
  /\ Listing /\ info.text_end + 3 \in Addr =>
       \A j \in 1 .. Len(listing) : /\ listing[j] = info.text_start + 4 * (j - 1)
                                    /\ listing[j] < info.text_end
  /\ Listing /\ at = "end" /\ info.text_end + 3 \in Addr =>
       info.text_end <= info.text_start + 4 * Len(listing)

LEMMA InitList == Init => ListInv
<1> SUFFICES ASSUME Init PROVE ListInv
  OBVIOUS
<1>1. info = NoInfo /\ listing = <<>> /\ at = "args" /\ 0 \in Addr
  BY SizeOfMemory DEF Init
<1> QED BY <1>1, EmptySeq DEF NoInfo, ListInv, ThreeFields, Listing

(* What the loader notes of a segment.                                     *)
LEMMA NotedInfo ==
  ASSUME NEW ph \in Elf32_Phdr, NEW n \in Nat, info = ThreeFields,
         info.text_start \in Addr, info.text_end \in Addr, info' = TextInfo(info, ph, n)
  PROVE  /\ info' = ThreeFields' /\ info'.text_start \in Addr /\ info'.text_end \in Addr
         /\ "PF_X" \in ph.p_flags =>
              /\ info'.text_start = Wrapped(ph.p_vaddr + EhdrSize + n * PhdrSize)
              /\ info'.text_end = Wrapped(ph.p_vaddr + ph.p_filesz)
         /\ "PF_X" \notin ph.p_flags => info' = info
<1>1. \A x, y : [info EXCEPT !.text_start = x, !.text_end = y]
                  = [text_start |-> x, text_end |-> y, start |-> info.start]
  <2>1. PICK a, b, c : info = [text_start |-> a, text_end |-> b, start |-> c]
    BY DEF ThreeFields
  <2>2. info.start = c
    BY <2>1
  <2>3. ASSUME NEW x, NEW y
        PROVE  [info EXCEPT !.text_start = x, !.text_end = y]
                 = [text_start |-> x, text_end |-> y, start |-> c]
    <3>1. PICK r : r = [info EXCEPT !.text_start = x]
      OBVIOUS
    <3>2. r = [text_start |-> x, text_end |-> b, start |-> c]
      BY <2>1, <3>1
    <3>3. [r EXCEPT !.text_end = y] = [text_start |-> x, text_end |-> y, start |-> c]
      BY <3>2
    <3> QED BY <3>1, <3>3, Zenon
  <2> QED BY <2>2, <2>3
<1>2. /\ Wrapped(ph.p_vaddr + EhdrSize + n * PhdrSize) \in Addr
      /\ Wrapped(ph.p_vaddr + ph.p_filesz) \in Addr
  <2>1. \A x, y \in Nat : x * y \in Nat
    BY SMT
  <2>2. n * PhdrSize \in Nat /\ EhdrSize \in Nat /\ ph.p_vaddr \in Nat /\ ph.p_filesz \in Nat
    BY <2>1, LoaderAssumption, SizeOfMemory DEF Elf32_Phdr
  <2>3. ph.p_vaddr + EhdrSize + n * PhdrSize \in Nat /\ ph.p_vaddr + ph.p_filesz \in Nat
    BY <2>2
  <2> QED BY <2>3, WrappedFacts
<1>3. CASE "PF_X" \in ph.p_flags
  <2>1. info' = [text_start |-> Wrapped(ph.p_vaddr + EhdrSize + n * PhdrSize),
                 text_end |-> Wrapped(ph.p_vaddr + ph.p_filesz), start |-> info.start]
    BY <1>1, <1>3 DEF TextInfo
  <2> QED BY <1>2, <1>3, <2>1 DEF ThreeFields
<1>4. CASE "PF_X" \notin ph.p_flags
  BY <1>4 DEF TextInfo, ThreeFields
<1> QED BY <1>3, <1>4

LEMMA LoadNotes ==
  ASSUME ListInv, IInv, LoadSegment
  PROVE  /\ info' = ThreeFields' /\ info'.text_start \in Addr /\ info'.text_end \in Addr
         /\ at' = "segments" => CodeInfo(i)'
<1>1. /\ at = "segments" /\ i < Len(Elf.phdrs) /\ i \in Nat /\ Elf' = Elf
      /\ Elf.phdrs \in Seq(Elf32_Phdr) /\ Len(Elf.phdrs) \in Nat
      /\ info = ThreeFields /\ info.text_start \in Addr /\ info.text_end \in Addr /\ CodeInfo(i)
  BY LenProperties DEF ListInv, IInv, TypeOK, HeadersPassed, LoadSegment, At, args, Elf
<1>2. Segment \in Elf32_Phdr /\ Segment = Elf.phdrs[i + 1] /\ i + 1 \in 1 .. Len(Elf.phdrs)
  <2>1. i + 1 \in 1 .. Len(Elf.phdrs)
    BY <1>1
  <2> QED BY <1>1, <2>1, ElementOfSeq DEF Segment
<1>3. info' = info \/ (Loadable(Segment) /\ info' = TextInfo(info, Segment, Len(Elf.phdrs)))
  BY DEF LoadSegment
<1>4. info' = ThreeFields' /\ info'.text_start \in Addr /\ info'.text_end \in Addr
  BY <1>1, <1>2, <1>3, NotedInfo DEF ThreeFields
<1>5. ASSUME at' = "segments" PROVE CodeInfo(i)'
  <2>1. i' = i + 1 /\ (Loadable(Segment) => info' = TextInfo(info, Segment, Len(Elf.phdrs)))
        /\ (~ Loadable(Segment) => info' = info)
    BY <1>1, <1>5 DEF LoadSegment, Fail, Exit
  <2>2. CASE Code(i + 1)
    <3>1. /\ info'.text_start = Wrapped(First(Elf.phdrs[i + 1]))
          /\ info'.text_end = Wrapped(Elf.phdrs[i + 1].p_vaddr + Elf.phdrs[i + 1].p_filesz)
      BY <1>1, <1>2, <2>1, <2>2, NotedInfo DEF Code, First
    <3>2. ASSUME NEW k \in 1 .. (i + 1), \A l \in (k + 1) .. (i + 1) : ~ Code(l) PROVE k = i + 1
      <4>1. k < i + 1 => i + 1 \in (k + 1) .. (i + 1)
        BY <1>1
      <4> QED BY <1>1, <2>2, <3>2, <4>1
    <3> QED BY <1>1, <2>1, <3>1, <3>2 DEF CodeInfo, Code, First
  <2>3. CASE ~ Code(i + 1)
    <3>1. info' = info
      BY <1>1, <1>2, <2>1, <2>3, NotedInfo DEF Code
    <3>2. ASSUME NEW k \in 1 .. (i + 1), Code(k), \A l \in (k + 1) .. (i + 1) : ~ Code(l)
          PROVE  k \in 1 .. i /\ \A l \in (k + 1) .. i : ~ Code(l)
      <4>1. k # i + 1 /\ \A l \in (k + 1) .. i : l \in (k + 1) .. (i + 1)
        BY <1>1, <2>3, <3>2
      <4> QED BY <1>1, <3>2, <4>1
    <3> QED BY <1>1, <2>1, <3>1, <3>2 DEF CodeInfo, Code, First
  <2> QED BY <2>2, <2>3
<1> QED BY <1>4, <1>5

(* The next address, unless the listing is done or the process ends.       *)
LEMMA ListNotes ==
  ASSUME ListInv, IInv, List
  PROVE  ListInv'
<1>1. /\ at = "list" /\ at' \in {"list", "end", "exit"} /\ info' = info /\ Elf' = Elf
      /\ options' = options /\ Listing /\ options.disasm
  BY DEF List, At, Exit, Listing, IInv, OptionsClose, args, files, Elf
<1>2. /\ listing \in Seq(Addr) /\ Len(listing) \in Nat
      /\ info.text_start \in Addr /\ info.text_end \in Addr
      /\ info.text_start \in Nat /\ info.text_end \in Nat
  BY LenProperties, SizeOfMemory DEF ListInv
<1>3. PICK next : next = Wrapped(info.text_start + 4 * Len(listing)) /\ next \in Addr
  <2>1. info.text_start + 4 * Len(listing) \in Nat
    BY <1>2
  <2> QED BY <2>1, WrappedFacts
<1>4. \/ at' = "end" /\ listing' = listing /\ next >= info.text_end
      \/ at' = "exit" /\ listing' = listing
      \/ at' = "list" /\ listing' = Append(listing, next) /\ ~ (next >= info.text_end)
  BY <1>1, <1>3 DEF List, Exit
<1>5. ASSUME info.text_end + 3 \in Addr
      PROVE  next = info.text_start + 4 * Len(listing)
  <2>1. info.text_start + 4 * Len(listing) \in Addr
    <3>1. CASE Len(listing) = 0
      BY <1>2, <3>1
    <3>2. CASE Len(listing) # 0
      <4>1. Len(listing) \in 1 .. Len(listing)
        BY <1>2, <3>2
      <4>2. info.text_start + 4 * (Len(listing) - 1) < info.text_end
        BY <1>1, <1>5, <4>1 DEF ListInv
      <4>3. /\ info.text_start + 4 * Len(listing) <= info.text_end + 3
            /\ info.text_start + 4 * Len(listing) \in Nat
        BY <1>2, <4>2
      <4> QED BY <1>2, <1>5, <4>3, SizeOfMemory
    <3> QED BY <3>1, <3>2
  <2> QED BY <1>3, <2>1, WrappedFacts
<1>6. listing' \in Seq(Addr)
  BY <1>2, <1>3, <1>4, AppendProperties
<1>7. /\ info' = ThreeFields' /\ info'.text_start \in Addr /\ info'.text_end \in Addr
      /\ Elf'.phdrs \in Seq(Elf32_Phdr) /\ CodeInfo(Len(Elf.phdrs))'
  BY <1>1 DEF ListInv, ThreeFields, CodeInfo, Code, First
<1>8. ASSUME info.text_end + 3 \in Addr
      PROVE  \A j \in 1 .. Len(listing') : /\ listing'[j] = info.text_start + 4 * (j - 1)
                                           /\ listing'[j] < info.text_end
  <2>1. \A j \in 1 .. Len(listing) : /\ listing[j] = info.text_start + 4 * (j - 1)
                                     /\ listing[j] < info.text_end
    BY <1>1, <1>8 DEF ListInv
  <2>2. CASE listing' = Append(listing, next) /\ ~ (next >= info.text_end)
    <3>1. PICK t : t = listing' /\ Len(t) = Len(listing) + 1 /\ t[Len(listing) + 1] = next
                   /\ \A j \in 1 .. Len(listing) : t[j] = listing[j]
      BY <1>2, <1>3, <2>2, AppendProperties
    <3>2. \A j \in 1 .. Len(t) : j \in 1 .. Len(listing) \/ j = Len(listing) + 1
      BY <1>2, <3>1
    <3>3. next < info.text_end /\ next = info.text_start + 4 * ((Len(listing) + 1) - 1)
      BY <1>2, <1>3, <1>5, <1>8, <2>2, SizeOfMemory
    <3> QED BY <2>1, <3>1, <3>2, <3>3
  <2>3. CASE listing' = listing
    BY <2>1, <2>3
  <2> QED BY <1>4, <2>2, <2>3
<1>9. at' = "end" /\ info.text_end + 3 \in Addr => info.text_end <= info.text_start + 4 * Len(listing')
  BY <1>2, <1>3, <1>4, <1>5
<1> QED BY <1>1, <1>6, <1>7, <1>8, <1>9 DEF ListInv

LEMMA StepList == ListInv /\ IInv /\ [Next]_vars => ListInv'
<1> SUFFICES ASSUME ListInv, IInv, [Next]_vars PROVE ListInv'
  OBVIOUS
<1>1. CASE List
  BY <1>1, ListNotes
<1>2. ASSUME listing' = listing, info' = info, at' \notin {"args", "options", "segments", "list"},
             at' = "end" => ~ options'.disasm
      PROVE  ListInv'
  BY <1>2 DEF ListInv, ThreeFields, Listing
<1>3. CASE Simulate \/ Summarise \/ WriteProfile
  BY <1>2, <1>3 DEF Simulate, Summarise, WriteProfile, At, Exit, IInv, OptionsClose, late
<1>4. CASE PassArgs \/ Disassemble \/ Log \/ Profile \/ Summary \/ Predictor \/ UnknownOption
  <2>1. at \in {"args", "options"} /\ at' \in {"options", "exit"} /\ listing' = listing /\ info' = info
    BY <1>4 DEF PassArgs, Disassemble, Log, Profile, OpenFor, Summary, Predictor, UnknownOption, Option,
                At, Usage, Exit, Take, late
  <2> QED BY <2>1 DEF ListInv, ThreeFields, Listing
<1>5. CASE OpenElf
  <2>1. at = "options" /\ at' \in {"exit", "crash", "segments"} /\ listing' = listing
    BY <1>5 DEF OpenElf, At, Fail, Exit, late
  <2>2. info' = info \/ info' = [NoInfo EXCEPT !.start = Elf.e_entry]
    BY <1>5 DEF OpenElf
  <2>3. at' = "segments" => i' = 0
    BY <1>5 DEF OpenElf, Fail, Exit
  <2>4. info' = ThreeFields' /\ info'.text_start \in Addr /\ info'.text_end \in Addr
    <3>1. CASE info' = info
      BY <3>1 DEF ListInv, ThreeFields
    <3>2. CASE info' = [NoInfo EXCEPT !.start = Elf.e_entry]
      <4>1. info' = [text_start |-> 0, text_end |-> 0, start |-> Elf.e_entry]
        BY <3>2 DEF NoInfo
      <4>2. info'.text_start = 0 /\ info'.text_end = 0 /\ info'.start = Elf.e_entry
        BY <4>1
      <4> QED BY <4>1, <4>2, SizeOfMemory DEF ThreeFields
    <3> QED BY <2>2, <3>1, <3>2
  <2>5. at' = "segments" => CodeInfo(i)'
    <3>1. 1 .. 0 = {}
      OBVIOUS
    <3> QED BY <2>3, <3>1 DEF CodeInfo
  <2> QED BY <2>1, <2>4, <2>5 DEF ListInv, Listing
<1>6. CASE LoadSegment
  <2>1. at = "segments" /\ at' \in {"exit", "crash", "segments"} /\ listing' = listing
    BY <1>6 DEF LoadSegment, At, Fail, Exit, late
  <2> QED BY <1>6, <2>1, LoadNotes DEF ListInv, Listing
<1>7. CASE ReadSymbols
  <2>1. /\ at = "segments" /\ at' \in {"list", "simulate", "exit"} /\ i = Len(Elf.phdrs)
        /\ listing' = listing /\ info' = info /\ Elf' = Elf
    BY <1>7 DEF ReadSymbols, At, Exit, late, args, Elf
  <2>2. Elf.phdrs \in Seq(Elf32_Phdr)
    BY <2>1 DEF IInv, TypeOK, HeadersPassed, Elf
  <2>3. CodeInfo(Len(Elf.phdrs))'
    BY <2>1 DEF ListInv, CodeInfo, Code, First
  <2>4. listing' = <<>> /\ 1 .. Len(listing') = {}
    BY <2>1 DEF ListInv
  <2> QED BY <2>1, <2>2, <2>3, <2>4, EmptySeq DEF ListInv, ThreeFields, Listing
<1>8. CASE StoreNext \/ UNCHANGED vars
  <2>1. at' = at /\ i' = i /\ listing' = listing /\ info' = info /\ Elf' = Elf /\ options' = options
    BY <1>8 DEF StoreNext, vars, late, args, files, Elf
  <2> QED BY <2>1 DEF ListInv, ThreeFields, Listing, CodeInfo, Code, First
<1> QED BY <1>1, <1>3, <1>4, <1>5, <1>6, <1>7, <1>8 DEF Next

LEMMA SpecList == Spec => [](IInv /\ ListInv)
BY InitIInv, StepIInv, InitList, StepList, PTL DEF Spec

(* The numbers that count up by 4 from s until e is reached.               *)
LEMMA CountsUp ==
  ASSUME NEW s \in Nat, NEW e \in Nat, NEW t \in Seq(Nat),
         \A j \in 1 .. Len(t) : t[j] = s + 4 * (j - 1) /\ t[j] < e,
         e <= s + 4 * Len(t),
         NEW R, \A a : a \in R <=> a \in Nat /\ a >= s /\ a < e /\ (a - s) % 4 = 0
  PROVE  ToSet(t) = R
<1>1. Len(t) \in Nat /\ DOMAIN t = 1 .. Len(t) /\ t = [j \in 1 .. Len(t) |-> t[j]]
  BY LenProperties
<1>2. ASSUME NEW j \in 1 .. Len(t) PROVE t[j] \in R
  <2>1. /\ s + 4 * (j - 1) \in Nat /\ s + 4 * (j - 1) >= s
        /\ (s + 4 * (j - 1)) - s = 4 * (j - 1) /\ (4 * (j - 1)) % 4 = 0
    BY <1>1
  <2>2. PICK a : a = t[j]
    OBVIOUS
  <2>3. a \in Nat /\ a >= s /\ a < e /\ (a - s) % 4 = 0
    BY <2>1, <2>2
  <2> QED BY <2>2, <2>3
<1>3. ASSUME NEW a \in R PROVE \E j \in 1 .. Len(t) : t[j] = a
  <2>1. a \in Nat /\ a >= s /\ a < e /\ (a - s) % 4 = 0
    OBVIOUS
  <2>2. PICK q \in Nat : a - s = 4 * q
    BY <2>1
  <2>3. q + 1 \in 1 .. Len(t) /\ a = s + 4 * ((q + 1) - 1)
    <3>1. PICK n \in Nat : n = Len(t)
      BY <1>1
    <3>2. e <= s + 4 * n /\ a = s + 4 * q
      BY <2>1, <2>2, <3>1
    <3>3. q < n
      BY <2>1, <3>2
    <3> QED BY <3>1, <3>2, <3>3
  <2> QED BY <2>3
<1> QED BY <1>1, <1>2, <1>3 DEF ToSet

(* The words of the last segment of code are listed in order, from the one *)
(* behind the file's headers on, and nothing else, wherever in the file    *)
(* the segment comes from (main.c:60, read_elf.c:56).                      *)
THEOREM CodeListed == Spec => []ListingCoversCode
<1>1. IInv /\ ListInv => ListingCoversCode
  <2> DEFINE code == {k \in Segments : "PF_X" \in Elf.phdrs[k].p_flags}
             text == Elf.phdrs[Max(code)]
             first == text.p_vaddr + EhdrSize + PhdrSize * Len(Elf.phdrs)
             rest == {a \in Addr : Covers(text, a) /\ a >= first /\ (a - first) % 4 = 0}
  <2> SUFFICES ASSUME ListInv, at = "end", options.disasm, code # {}, first \in Addr,
                      text.p_vaddr + text.p_filesz + 3 \in Addr
               PROVE  ToSet(listing) = rest /\ \A k \in DOMAIN listing : listing[k] = first + 4 * (k - 1)
    BY DEF ListingCoversCode
  <2>1. /\ Elf.phdrs \in Seq(Elf32_Phdr) /\ DOMAIN Elf.phdrs = 1 .. Len(Elf.phdrs)
        /\ Len(Elf.phdrs) \in Nat /\ CodeInfo(Len(Elf.phdrs))
    BY LenProperties DEF ListInv, Listing
  <2>2. \A k \in 1 .. Len(Elf.phdrs) : k \in code <=> Code(k)
    BY <2>1 DEF Segments, Code
  <2>3. code \in SUBSET (1 .. Len(Elf.phdrs))
    BY <2>1 DEF Segments
  <2> HIDE DEF code
  <2>4. PICK k \in 1 .. Len(Elf.phdrs) : k = Max(code) /\ k \in code /\ \A l \in code : l <= k
    BY <2>1, <2>3, MaxFacts
  <2>5. Code(k) /\ \A l \in (k + 1) .. Len(Elf.phdrs) : ~ Code(l)
    <3>1. \A l \in (k + 1) .. Len(Elf.phdrs) : l \in 1 .. Len(Elf.phdrs) /\ ~ (l <= k)
      BY <2>1
    <3> QED BY <2>2, <2>4, <3>1
  <2>6. PICK ph \in Elf32_Phdr : ph = Elf.phdrs[k] /\ ph = text
    BY <2>1, <2>4, ElementOfSeq
  <2>7. PICK b \in Nat, f \in Nat, e \in Nat : b = ph.p_vaddr /\ f = first /\ e = ph.p_vaddr + ph.p_filesz
    <3>1. ph.p_vaddr \in Nat /\ ph.p_filesz \in Nat /\ first \in Nat
      BY <2>6, SizeOfMemory DEF Elf32_Phdr
    <3> QED BY <3>1
  <2>8. b <= f /\ First(ph) = f
    <3>1. PICK z \in Nat : z = Len(Elf.phdrs) * PhdrSize /\ z = PhdrSize * Len(Elf.phdrs)
      <4>1. \A x, y \in Nat : x * y \in Nat /\ x * y = y * x
        BY SMT
      <4> QED BY <2>1, <4>1, LoaderAssumption
    <3>2. f = b + EhdrSize + z /\ First(ph) = b + EhdrSize + z
      BY <2>6, <2>7, <3>1 DEF First
    <3> QED BY <3>2, LoaderAssumption
  <2>9. f \in Addr /\ e \in Addr /\ e + 3 \in Addr
    <3>1. e + 3 \in Addr
      BY <2>6, <2>7
    <3> QED BY <2>7, <3>1, SizeOfMemory
  <2>10. info.text_start = f /\ info.text_end = e
    <3>1. info.text_start = Wrapped(First(ph)) /\ info.text_end = Wrapped(ph.p_vaddr + ph.p_filesz)
      BY <2>1, <2>5, <2>6 DEF CodeInfo
    <3> QED BY <2>7, <2>8, <2>9, <3>1, WrappedFacts
  <2>11. /\ listing \in Seq(Nat)
         /\ \A j \in 1 .. Len(listing) : listing[j] = f + 4 * (j - 1) /\ listing[j] < e
         /\ e <= f + 4 * Len(listing)
    <3>1. listing \in Seq(Addr) /\ Addr \subseteq Nat
      BY SizeOfMemory DEF ListInv
    <3>2. listing \in Seq(Nat)
      <4>1. \A j \in 1 .. Len(listing) : listing[j] \in Nat
        BY <3>1, ElementOfSeq
      <4>2. listing = [j \in 1 .. Len(listing) |-> listing[j]] /\ Len(listing) \in Nat
        BY <3>1, LenProperties
      <4> QED BY <4>1, <4>2, IsASeq
    <3> QED BY <2>9, <2>10, <3>2 DEF ListInv, Listing
  <2>12. ASSUME NEW a \in Addr PROVE Covers(ph, a) <=> b <= a /\ a < e
    <3>1. a \in Nat /\ ph.p_filesz \in Nat /\ e = b + ph.p_filesz
      BY <2>6, <2>7, SizeOfMemory DEF Elf32_Phdr
    <3>2. \A j \in 1 .. ph.p_filesz : Wrapped(b + j - 1) = b + j - 1
      <4> TAKE j \in 1 .. ph.p_filesz
      <4>1. b + j - 1 \in Nat /\ b + j - 1 <= e
        BY <3>1
      <4>2. b + j - 1 \in Addr
        BY <2>9, <4>1, SizeOfMemory
      <4> QED BY <4>2, WrappedFacts
    <3>3. Covers(ph, a) <=> \E j \in 1 .. ph.p_filesz : b + j - 1 = a
      BY <2>7, <3>2 DEF Covers
    <3>4. (\E j \in 1 .. ph.p_filesz : b + j - 1 = a) <=> b <= a /\ a < e
      <4>1. b <= a /\ a < e => (a - b) + 1 \in 1 .. ph.p_filesz /\ b + ((a - b) + 1) - 1 = a
        BY <3>1
      <4> QED BY <3>1, <4>1
    <3> QED BY <3>3, <3>4
  <2>13. \A a : a \in rest <=> a \in Nat /\ a >= f /\ a < e /\ (a - f) % 4 = 0
    <3>1. \A a : a \in rest <=> a \in Addr /\ Covers(ph, a) /\ a >= f /\ (a - f) % 4 = 0
      BY <2>6, <2>7
    <3>2. \A a \in Nat : a < e => a \in Addr
      BY <2>9, SizeOfMemory
    <3>3. \A a \in Addr : a \in Nat
      BY SizeOfMemory
    <3> QED BY <2>8, <2>12, <3>1, <3>2, <3>3
  <2> HIDE DEF rest
  <2>14. ToSet(listing) = rest
    BY <2>11, <2>13, CountsUp
  <2>15. DOMAIN listing = 1 .. Len(listing)
    BY <2>11, LenProperties
  <2> QED BY <2>7, <2>11, <2>14, <2>15
<1> QED BY <1>1, SpecList, PTL

=============================================================================
