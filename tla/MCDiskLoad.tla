----------------------------- MODULE MCDiskLoad -----------------------------
(* Four sectors of two cells: a header, and three that may be of the        *)
(* directory, of a file or of both.  Every way to link the three, one       *)
(* directory sector with up to two entries.                                 *)
EXTENDS DiskLoad, DiskGeometry

\* Every format: the tracks and sectors are exactly the sectors of the image, no two of
\* them the same one, and the header is one of them.
ASSUME GeometryTiles ==
  \A g \in Geometries :
    LET before == sectors_before(g)
        all    == UNION {{before[t] + s : s \in 0..(sectors_on_track(g, t) - 1)} : t \in 1..g.tracks}
    IN  /\ all = 0..(g.data_size - 1)
        /\ before[g.tracks] + sectors_on_track(g, g.tracks) = g.data_size
        /\ Has(g, header_track(g), 0) /\ ~Has(g, 0, 0)

\* The marks of the visited sectors do not meet, whatever bytes a chain holds.
ASSUME VisitsApart ==
  \A t, u \in 0..80 : \A s \in {0, 1, 20, 39, 255}, r \in {0, 1, 20, 39, 255} :
    visit_index(t, s) = visit_index(u, r) => t = u /\ s = r

Entry(t, b, n) == [type |-> t, first |-> b, name |-> n]

MCLoadAt == [b \in Blocks |-> CASE b = 2 -> 12 [] b = 3 -> Basic [] OTHER -> 1]

MCSlots ==
  {<<Entry("DEL", 2, <<"A">>)>>}
    \cup {<<Entry("PRG", b, <<"A">>)>> : b \in {End, Outside}}
    \cup {<<Entry("SEQ", 3, <<"B">>), Entry("PRG", b, <<"A", "B">>)>> : b \in {1, 2}}

\* Sector 1 is the directory's first.  The last sector of a file may be full, have one
\* cell or none.
MCImages ==
  {[next |-> (1 :> n1) @@ (2 :> n2) @@ (3 :> n3) @@ (Header :> 1),
    used |-> [b \in Blocks |-> IF b = 3 THEN u ELSE 2],
    slots |-> [b \in Blocks |-> IF b = 1 THEN s ELSE IF b = 3 THEN <<Entry("PRG", 3, <<"A">>)>> ELSE <<>>]] :
     n1 \in {Outside, 1, 3}, n2 \in {End, 1, 3}, n3 \in {End, Outside, 2, 3},
     u \in 0..1, s \in MCSlots}

MCRequests ==
  {[NoRequest EXCEPT !.name = n, !.secondary = 1] : n \in {<<"$">>, <<"A", "*">>, <<"0", ":", "?", ",", "P">>}}
    \cup {[NoRequest EXCEPT !.name = <<"*">>, !.address = x] : x \in {6, 15}}
    \cup {[NoRequest EXCEPT !.name = <<"*">>, !.device = 9], [NoRequest EXCEPT !.name = <<"*">>, !.verify = 1]}

MCBound == [disks |-> 1, calls |-> 1, pushes |-> 1]
=============================================================================
