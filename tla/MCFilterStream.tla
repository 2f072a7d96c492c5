---------------------------- MODULE MCFilterStream ----------------------------
(***************************************************************************)
(* Three epoch-distinguishing feeds, a missing process and a missing       *)
(* source.  36 is within the upward threshold of 30 (38), 60 is above it.  *)
(* The gaps are a clock step back, a repeated timestamp, an ordinary       *)
(* period, the longest gap of an epoch and one past it.                    *)
(***************************************************************************)
EXTENDS FilterStream

MCFeeds == {<<1, "VideoOut">>, <<2, "VideoOut">>, <<1, "DceFixed">>,
            <<0, "VideoOut">>, <<1, NoSource>>}
MCInputs == {None, 30, 36, 60, kMaxDisplayFps + 1}
MCGaps == {-1, 0, 1, 3, 4}
==============================================================================
