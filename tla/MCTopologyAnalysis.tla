------------------------ MODULE MCTopologyAnalysis ------------------------
(***************************************************************************)
(* A parcel with neighbours beside it, at its corner, overlapping each     *)
(* other and across no man's land, and one around its corner; as a         *)
(* proposal every rectangle of a grid of seven by seven points around it,  *)
(* and rings of three and of six corners.                                  *)
(***************************************************************************)
EXTENDS TopologyAnalysis

Parcel == Rectangle(1, 1, 4, 3)

RightOf  == Rectangle(4, 1, 6, 3)
Above    == Rectangle(1, 3, 4, 6)
Corner   == Rectangle(4, 3, 6, 6)
Across   == Rectangle(5, 0, 6, 3)
Squatter == Rectangle(4, 2, 5, 5)

Angle == << <<1, 3>>, <<4, 3>>, <<4, 1>>, <<6, 1>>, <<6, 5>>, <<1, 5>> >>

Hoods == { <<RightOf, Above>>, <<Above, Corner, Across>>, <<RightOf, Squatter>>, <<Angle>> }

Boxes == {b \in (0 .. 6) \X (0 .. 6) \X (0 .. 6) \X (0 .. 6) : b[1] < b[3] /\ b[2] < b[4]}

Rectangles == {Rectangle(b[1], b[2], b[3], b[4]) : b \in Boxes}

Triangles == { << <<x, 0>>, <<x + 3, y>>, <<x, 5>> >> : x, y \in 0 .. 3 }

Hooks == { << <<0, 0>>, <<w, 0>>, <<w, 6>>, <<w - 1, 6>>, <<w - 1, h>>, <<0, h>> >> :
              w \in 2 .. 6, h \in 1 .. 5 }

Rings == Rectangles \cup Triangles \cup Hooks
=============================================================================
