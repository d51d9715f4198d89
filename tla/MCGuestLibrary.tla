---------------------------- MODULE MCGuestLibrary ----------------------------
(* "12", CR, LF, "3" / "90817", LF, "45" / NUL, "6" / nothing.             *)
EXTENDS GuestLibrary

MCInputs == { <<49, 50, 13, 10, 51>>, <<57, 48, 56, 49, 55, 10, 52, 53>>,
              <<0, 54>>, <<>> }

=============================================================================
