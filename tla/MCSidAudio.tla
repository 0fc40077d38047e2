----------------------------- MODULE MCSidAudio -----------------------------
(* Accumulators of three bits, a queue that three writes fill, spans of up to three. *)
EXTENDS SidAudio

MCPrograms ==
  { <<<<0, "freq">>, 2>>, <<<<1, "freq">>, 1>>, <<<<1, "sync">>, 1>>,
    <<<<2, "sync">>, 1>>, <<<<0, "test">>, 1>> }
=============================================================================
