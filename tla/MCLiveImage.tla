---------------------------- MODULE MCLiveImage ----------------------------
(* Two channels, the second one primary, two cameras, a phone that asks for *)
(* pictures and a door that rings.                                          *)
EXTENDS LiveImage, TLC

CONSTANTS a, b, phone, door

\* Both cameras, the cameras swapped, the door camera moved to the other
\* channel, a camera without UID there, and one camera reported twice, where
\* the primary channel is the duplicate that Discover drops.
MCLayouts == {(1 :> a) @@ (2 :> b), (1 :> b) @@ (2 :> a), 1 :> b,
              (1 :> NoUID) @@ (2 :> b), (1 :> a) @@ (2 :> a)}
=============================================================================
