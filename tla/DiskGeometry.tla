---------------------------- MODULE DiskGeometry ----------------------------
(***************************************************************************)
(* Where a track and sector are in an image (src/src/disk.cpp 13-89).  The *)
(* image's size alone says its format.  Sizes are in sectors of 256 bytes, *)
(* without the error bytes that may follow them.                           *)
(***************************************************************************)
EXTENDS Integers

visit_stride == 256

\* The sizes detect_geometry knows, with or without error bytes, and what it makes of them.
Geometries ==
  {[format |-> "d64", tracks |-> 35, data_size |-> 683],
   [format |-> "d64", tracks |-> 40, data_size |-> 768],
   [format |-> "d64", tracks |-> 42, data_size |-> 802],
   [format |-> "d71", tracks |-> 70, data_size |-> 1366],
   [format |-> "d81", tracks |-> 80, data_size |-> 3200]}

\* The second side of a D71 is laid out as the first.
Zone(g, track) == IF g.format = "d71" /\ track > 35 THEN track - 35 ELSE track

sectors_on_track(g, track) ==
  CASE track \notin 1..g.tracks -> 0
    [] track \in 1..g.tracks /\ g.format = "d81" -> 40
    [] track \in 1..g.tracks /\ g.format # "d81" ->
         LET z == Zone(g, track)
         IN  IF z <= 17 THEN 21 ELSE IF z <= 24 THEN 19 ELSE IF z <= 30 THEN 18 ELSE 17

\* The sectors before each track, as detect_geometry adds them up.
sectors_before(g) ==
  LET f[t \in 0..g.tracks] == IF t <= 1 THEN 0 ELSE f[t - 1] + sectors_on_track(g, t - 1) IN f

\* The bytes of a track and sector of a directory or file chain: any value may be there.
Byte == 0..255

Has(g, track, sector) ==
  /\ sector < sectors_on_track(g, track)
  /\ sectors_before(g)[track] + sector < g.data_size

\* The sector's place in the image, for those it has.
sector_offset(g, track, sector) == sectors_before(g)[track] + sector

visit_index(track, sector) == track * visit_stride + sector

\* Where the directory starts.
header_track(g) == IF g.format = "d81" THEN 40 ELSE 18
=============================================================================
