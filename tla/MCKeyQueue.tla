----------------------------- MODULE MCKeyQueue -----------------------------
(* RUN/STOP, RESTORE and the X that ends a tune of one song, in a queue that four *)
(* changes fill.  MCHostInput has the number keys.                                *)
EXTENDS KeyQueue

MCKey      == {"stop", "X"}
MCDigitKey == <<>>
=============================================================================
