----------------------------- MODULE MCHostMedia -----------------------------
(* Two tunes, so that a notice of one can meet the other, and a cartridge, a *)
(* disk and a program; media change at most four times.                      *)
EXTENDS HostMedia

CONSTANTS t1, t2

MCTunes == {t1, t2}
MCFiles == MCTunes \cup Others

\* History: the media generation was renewed after the tune to be named had stopped, so
\* that the notice of its stop is out of date before it is taken.
VARIABLE raced

MCInit == Init /\ raced = FALSE

MCNext ==
  /\ Next
  /\ raced' = IF generation' = generation THEN raced
              ELSE ~playing /\ (IF ui = "loaded" THEN opened ELSE media) \in Tunes

MCSpec == MCInit /\ [][MCNext]_<<vars, raced>>

\* Once nothing is on its way to the UI, the title names a tune only while it plays
\* (README: "The title bar always states the current machine state: media, ..."),
\* whatever order stops, loads, resets, ejects and ticks come in: a notice is lost only
\* when reset_machine or load_file renewed the generation between stop and tick.
TitleCurrent ==
  ui = "idle" /\ worker = "loop" /\ posted = 0 /\ machine.tune = NoTune
    => media \notin Tunes \/ raced
=============================================================================
