------------------------- MODULE MCSurfaceStreaming -------------------------
(***************************************************************************)
(* Small planets for SurfaceStreaming, of chunks with one cell each: two   *)
(* chunks side by side, and three of the four that meet at a corner, the   *)
(* second beside the first and the third, which lie across the corner from *)
(* each other.                                                             *)
(***************************************************************************)
EXTENDS SurfaceStreaming

Pair == {0, 1}
PairIndex == [c \in Pair |-> c]
PairCells == {1, 2}
PairOwner == <<0, 1>>
PairBeside == <<{2}, {1}>>
PairDiagonal == <<{}, {}>>

Corner == {0, 1, 2}
CornerIndex == [c \in Corner |-> c]
CornerCells == {1, 2, 3}
CornerOwner == <<0, 1, 2>>
CornerBeside == <<{2}, {1, 3}, {2}>>
CornerDiagonal == <<{3}, {}, {1}>>

\* Directions: one, or two that are apart.
Here == {0}
HereClose == {<<0, 0>>}
Apart == {0, 1}
ApartClose == {<<p, p>> : p \in Apart}

\* Chunk c of the pair lies at place c. In the corner, chunk p + 1 is the one
\* nearest to place p, and chunk 0 is far from both.
PairRankHere == [p \in Here |-> [c \in Pair |-> c]]
CornerRankApart == [p \in Apart |-> [c \in Corner |-> IF c = 0 THEN 2 ELSE IF c = p + 1 THEN 0 ELSE 1]]

\* The end of the corner whose chunk is full or near, not the far one.
CornerEditable == {3}

=============================================================================
