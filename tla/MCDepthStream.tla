--------------------------- MODULE MCDepthStream ---------------------------
(***************************************************************************)
(* A venue of two levels: one whose quantity changes, goes and comes back, *)
(* and one that changes in between.                                        *)
(***************************************************************************)
EXTENDS DepthStream

MCVenueBook ==
    [n \in 0..MaxUpdates |->
        [l \in Levels |-> CASE l = "bid" -> (n + 1) % 3
                            [] l = "ask" -> IF n \in {1, 2} THEN 1 ELSE 2]]
=============================================================================
