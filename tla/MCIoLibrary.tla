---------------------------- MODULE MCIoLibrary ----------------------------
(* All texts of up to four characters over a minus, the first, second and last
   digit, a character below the digits, one above them and one whose byte is
   negative; registers of nine bits, which three digits overflow. *)
EXTENDS IoLibrary

MCTexts == UNION {[1 .. n -> {45, 48, 49, 57, 32, 120, 176}] : n \in 0 .. 4}
=============================================================================
