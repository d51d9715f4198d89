------------------------------- MODULE Strings -------------------------------
(***************************************************************************)
(* The string functions of "src/predictor benchmarks/lib.c" on one buffer, *)
(* and a program that calls them on it in any order.  One action per call  *)
(* and per iteration of a loop; pointers are indexes into the buffer.      *)
(***************************************************************************)
EXTENDS Integers, Sequences

CONSTANTS
  BufferSize,   \* bytes from the start of the buffer to the end of the area
  Modulus,      \* 2^32, unsigned int wraps there
  Inputs,       \* what stdin may hold: sequences of bytes
  Sizes,        \* the max_chars the program passes
  Values,       \* the numbers it converts
  MaxCalls      \* bound on its calls

Zero == 48          \* '0'
Eof  == 255         \* getchar's -1 in a char, which is unsigned on RISC-V
Newlines == {10, 13}

Tens[n \in Nat] == IF n = 0 THEN 1 ELSE 10 * Tens[n - 1]

(* The program's buffer has room for the digits and their terminator, and  *)
(* a line for the terminator, which read_string writes even if it has none *)
(* (lib.c:99).                                                             *)
ASSUME StringsAssumption ==
  /\ BufferSize \in Nat /\ BufferSize >= 2 /\ Modulus \in Nat \ {0}
  /\ Inputs \subseteq Seq(0 .. 255) /\ Sizes \subseteq 1 .. (BufferSize - 1)
  /\ Values \subseteq 0 .. (Modulus - 1) /\ \A v \in Values : v < Tens[BufferSize - 1]

VARIABLES
  at,           \* the function being executed
  buffer,       \* the bytes of the area
  ptr, low,     \* the function's pointers; low is uns_to_str's buffer
  val,          \* its number
  c, max_chars, \* locals of read_string
  retval,
  input, pos,   \* stdin, and how many reads of it there were
  out,          \* what the last print_string has printed
  calls,        \* bound: how many calls were made
  given         \* history: the arguments of the last call but those of print_string

state == <<at, buffer, ptr, low, val, c, max_chars, retval, pos, out>>
strings_vars == <<state, input, calls, given>>

StringsInit ==
  /\ at = "program" /\ buffer = [k \in 0 .. (BufferSize - 1) |-> 0]
  /\ ptr = 0 /\ low = 0 /\ val = 0 /\ c = 0 /\ max_chars = 0 /\ retval = 0
  /\ input \in Inputs /\ pos = 0
  /\ out = <<>>
  /\ calls = 0
  /\ given = [call |-> "none"]

Call(function, arguments) ==
  /\ at = "program" /\ calls < MaxCalls
  /\ calls' = calls + 1
  /\ at' = function
  /\ given' = arguments
  /\ UNCHANGED input

Within(function) == at = function /\ UNCHANGED <<input, calls, given>>

(* inp(): call 1 of the simulator.                                         *)
inp ==
  /\ c' = IF pos < Len(input) THEN input[pos + 1] ELSE Eof
  /\ pos' = pos + 1

-----------------------------------------------------------------------------
CallReadString ==
  \E n \in Sizes :
    /\ Call("read_string", [call |-> "read_string", max_chars |-> n, from |-> pos])
    /\ max_chars' = n
    /\ ptr' = 0
    /\ inp
    /\ UNCHANGED <<buffer, low, val, retval, out>>

(* Mutants: no room is kept for the terminator; a carriage return is not   *)
(* the end of a line.                                                      *)
MoreToStore_full == c \notin Newlines /\ max_chars > 0
MoreToStore_lf == c # 10 /\ max_chars > 1

MoreToStore == c \notin Newlines /\ max_chars > 1

ReadChar ==
  /\ Within("read_string") /\ MoreToStore
  /\ buffer' = [buffer EXCEPT ![ptr] = c]
  /\ ptr' = ptr + 1
  /\ max_chars' = max_chars - 1
  /\ inp
  /\ UNCHANGED <<at, low, val, retval, out>>

EndReadString ==
  /\ Within("read_string") /\ ~ MoreToStore
  /\ buffer' = [buffer EXCEPT ![ptr] = 0]
  /\ at' = "program"
  /\ UNCHANGED <<ptr, low, val, c, max_chars, retval, pos, out>>

-----------------------------------------------------------------------------
CallPrintString ==
  /\ Call("print_string", given)
  /\ ptr' = 0
  /\ out' = <<>>
  /\ UNCHANGED <<buffer, low, val, c, max_chars, retval, pos>>

PrintString ==
  /\ Within("print_string")
  /\ IF buffer[ptr] = 0
     THEN at' = "program" /\ UNCHANGED <<out, ptr>>
     ELSE out' = Append(out, buffer[ptr]) /\ ptr' = ptr + 1 /\ UNCHANGED at
  /\ UNCHANGED <<buffer, low, val, c, max_chars, retval, pos>>

-----------------------------------------------------------------------------
(* Mutant: the first digit counts twice.                                   *)
FirstDigit_kept == ptr' = 0 /\ val' = (buffer[0] - Zero) % Modulus

FirstDigit == ptr' = 1 /\ val' = (buffer[0] - Zero) % Modulus

(* The first character is a digit, even where it ends the string.          *)
CallStrToUns ==
  /\ Call("str_to_uns", given)
  /\ FirstDigit
  /\ UNCHANGED <<buffer, low, c, max_chars, retval, pos, out>>

(* Mutant: the pointer stays where it is.                                  *)
NextDigit_stuck == val' = ((val * 10) + buffer[ptr] - Zero) % Modulus /\ UNCHANGED ptr

NextDigit == val' = ((val * 10) + buffer[ptr] - Zero) % Modulus /\ ptr' = ptr + 1

StrToUns ==
  /\ Within("str_to_uns")
  /\ IF buffer[ptr] = 0
     THEN at' = "program" /\ UNCHANGED <<val, ptr>>
     ELSE NextDigit /\ UNCHANGED at
  /\ UNCHANGED <<buffer, low, c, max_chars, retval, pos, out>>

-----------------------------------------------------------------------------
CallUnsToStr ==
  \E v \in Values :
    /\ Call(IF v = 0 THEN "program" ELSE "digits", [call |-> "uns_to_str", val |-> v])
    /\ IF v = 0 THEN buffer' = [buffer EXCEPT ![0] = Zero, ![1] = 0] /\ retval' = 1
                ELSE UNCHANGED <<buffer, retval>>
    /\ ptr' = 0 /\ low' = 0 /\ val' = v
    /\ UNCHANGED <<c, max_chars, pos, out>>

(* The digits from the last to the first, then the terminator.             *)
Digit ==
  /\ Within("digits") /\ val # 0
  /\ buffer' = [buffer EXCEPT ![ptr] = (val % 10) + Zero]
  /\ val' = val \div 10
  /\ ptr' = ptr + 1
  /\ UNCHANGED <<at, low, c, max_chars, retval, pos, out>>

LastDigit ==
  /\ Within("digits") /\ val = 0
  /\ buffer' = [buffer EXCEPT ![ptr] = 0]
  /\ ptr' = ptr - 1
  /\ retval' = ptr - 1
  /\ at' = "reverse"
  /\ UNCHANGED <<low, val, c, max_chars, pos, out>>

(* Mutant: two digits are taken for the middle.                            *)
MoreToSwap_early == ptr > low + 1

MoreToSwap == ptr > low

Swap ==
  /\ Within("reverse")
  /\ IF MoreToSwap
     THEN /\ buffer' = [buffer EXCEPT ![ptr] = buffer[low], ![low] = buffer[ptr]]
          /\ ptr' = ptr - 1 /\ low' = low + 1
          /\ UNCHANGED at
     ELSE at' = "program" /\ UNCHANGED <<buffer, ptr, low>>
  /\ UNCHANGED <<val, c, max_chars, retval, pos, out>>

StringsNext ==
  \/ CallReadString \/ ReadChar \/ EndReadString
  \/ CallPrintString \/ PrintString
  \/ CallStrToUns \/ StrToUns
  \/ CallUnsToStr \/ Digit \/ LastDigit \/ Swap

(* The functions loop on without waiting, but for inp, which getchar ends. *)
StringsSpec == StringsInit /\ [][StringsNext]_strings_vars /\ WF_strings_vars(StringsNext)

-----------------------------------------------------------------------------
(* The string in the buffer.                                               *)
StrLen == CHOOSE n \in DOMAIN buffer : buffer[n] = 0 /\ \A k \in 0 .. (n - 1) : buffer[k] # 0
String == [k \in 1 .. StrLen |-> buffer[k - 1]]

Number(s) ==
  LET upto[k \in 0 .. Len(s)] == IF k = 0 THEN 0 ELSE (10 * upto[k - 1]) + s[k] - Zero
  IN  upto[Len(s)]

(***************************************************************************)
(* uns_to_str (lib.c:112-135) leaves the decimal digits of its argument    *)
(* and nothing else, without leading zeros, through the loop that builds   *)
(* them backwards and the loop that swaps them, whatever the buffer held   *)
(* before.  What it returns is one less than their number, or 1 for 0.     *)
(***************************************************************************)
DecimalDigits ==
  given.call = "uns_to_str" /\ at = "program" =>
    /\ \A k \in 1 .. Len(String) : String[k] \in Zero .. (Zero + 9)
    /\ Number(String) = given.val
    /\ StrLen = 1 \/ buffer[0] # Zero
    /\ retval = IF given.val = 0 THEN 1 ELSE StrLen - 1

(* What uns_to_str wrote is the number that str_to_uns (lib.c:104-110)     *)
(* reads and what print_string (lib.c:87-89) prints.                       *)
ReadBack ==
  [][given.call = "uns_to_str" /\ at' = "program" =>
       /\ at = "str_to_uns" => val' = given.val
       /\ at = "print_string" => Number(out) = given.val]_strings_vars

(***************************************************************************)
(* read_string (lib.c:91-100) leaves the input from where the last call    *)
(* stopped, up to the end of the line or of the room, and a terminator;    *)
(* the call took one character more than it stored, a newline or not.      *)
(* After the end of the input it stores EOFs.                              *)
(***************************************************************************)
LinesArrive ==
  given.call = "read_string" /\ at = "program" =>
    LET read(k) == IF given.from + k <= Len(input) THEN input[given.from + k] ELSE Eof
        stored  == pos - given.from - 1
    IN  /\ stored \in 0 .. (given.max_chars - 1)
        /\ \A k \in 1 .. stored : buffer[k - 1] = read(k) /\ read(k) \notin Newlines
        /\ buffer[stored] = 0
        /\ stored = given.max_chars - 1 \/ read(stored + 1) \in Newlines

(* A number has n digits.                                                  *)
Long(v, n) == v < Tens[n] /\ (n = 1 \/ v >= Tens[n - 1])

Room(arguments) ==
  IF arguments.call = "read_string" THEN arguments.max_chars
  ELSE 1 + CHOOSE n \in 1 .. (BufferSize - 1) : Long(arguments.val, n)

(* No byte changes beyond max_chars, or beyond the digits of the number    *)
(* and their terminator (lib.c:94-99, 113-131).                            *)
StaysInBuffer ==
  [][buffer' # buffer =>
       \A k \in DOMAIN buffer : k >= Room(given') => buffer'[k] = buffer[k]]_strings_vars

(* Every call returns, at the end of the input too (lib.c:87-135).         *)
CallsReturn == at # "program" ~> at = "program"

=============================================================================
