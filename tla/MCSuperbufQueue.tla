------------------------- MODULE MCSuperbufQueue -------------------------
(* Two bundled streams, the attributes of the ZSL and the liveshot channel *)
(* (QCamera2HWI.cpp:6990-7340), and metadata with each kind of news.       *)
EXTENDS SuperbufQueue
Attr(mode, back, mark, skip, unmatch, low, user) ==
  [notify_mode |-> mode, look_back |-> back, water_mark |-> mark, skip |-> skip,
   max_unmatched |-> unmatch, low |-> low, user_expected |-> user]
MCAttrs == {Attr("BURST", 1, 2, 1, 1, FALSE, 0), Attr("BURST", 0, 1, 1, 1, FALSE, 3), Attr("CONTINUOUS", 0, 1, 1, 1, TRUE, 0)}
Good == [min |-> 2, max |-> 3, skip |-> 1]
MCMetadata ==
  {[NoNews EXCEPT !.prep = "future"], [NoNews EXCEPT !.prep = "done"],
   [NoNews EXCEPT !.good = {Good}],
   [NoNews EXCEPT !.crop1x = TRUE], [NoNews EXCEPT !.settled = TRUE],
   [NoNews EXCEPT !.divert = {3}]}
MCRequests == {<<0, 0>>, <<2, 1>>}
===========================================================================
