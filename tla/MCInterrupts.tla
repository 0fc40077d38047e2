---------------------------- MODULE MCInterrupts ----------------------------
(* Two VIC sources, one of which may be masked while the other is not, and *)
(* the two timers of each CIA.                                             *)
EXTENDS Interrupts

MCVicSource == {"raster", "sprite"}
MCCiaSource == Timers
=============================================================================
