----------------------------- MODULE MCHostInput -----------------------------
(* A shifted arrow, its plain key, shift, fire and the 1 that selects a song of   *)
(* a tune, six messages, a queue of four.                                         *)
EXTENDS HostInput

MCHostKey  == {"Up", "Down", "Shift", "Space", "1"}
MCKey      == {"Shift", "Down", "Space", "1", "stop", "X"}
MCDigitKey == <<"1">>
=============================================================================
