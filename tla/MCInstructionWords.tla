------------------------- MODULE MCInstructionWords -------------------------
EXTENDS InstructionWords

(* Each bit of an immediate alone and in a negative number, the extremes   *)
(* of each format, and an alternating pattern.                             *)
Powers == {2^k : k \in 0 .. 20}

MCImmediates ==
  Powers \cup {-p : p \in Powers} \cup {2047, 4095}
    \cup {0, 1364, 2730, 4094, 349524, 699050, 1048574, 1398096, (-4096) * 524288, 4096 * 524287}

(* Two symbols share an address, one of them local to its file.            *)
MCSymbols == << [st_value |-> 24, st_info |-> 3, st_name |-> "local"],
                [st_value |-> 24, st_info |-> 18, st_name |-> "first"],
                [st_value |-> 24, st_info |-> 18, st_name |-> "second"],
                [st_value |-> 10, st_info |-> 2, st_name |-> "hidden"] >>

=============================================================================
