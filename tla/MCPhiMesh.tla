----------------------------- MODULE MCPhiMesh -----------------------------
(* A ring of three cells with the ports east and west, the smallest mesh   *)
(* whose neighbors are distinct.                                           *)
EXTENDS PhiMesh

CONSTANTS c0, c1, c2, east, west

const_Ports == {east, west}

const_Cells == {c0, c1, c2}

east_of == c0 :> c1 @@ c1 :> c2 @@ c2 :> c0
west_of == c0 :> c2 @@ c1 :> c0 @@ c2 :> c1

const_neighbor ==
  [c \in const_Cells |-> east :> east_of[c] @@ west :> west_of[c]]

const_opposite == east :> west @@ west :> east

const_Values == {0, 1}

(* The rotations and reflections of the ring; a reflection swaps the ports. *)
same_ports == east :> east @@ west :> west
ring_symmetry ==
  {east_of @@ same_ports, west_of @@ same_ports} \cup
  {r @@ const_opposite :
     r \in {c0 :> c0 @@ c1 :> c2 @@ c2 :> c1,
            c0 :> c2 @@ c1 :> c1 @@ c2 :> c0,
            c0 :> c1 @@ c1 :> c0 @@ c2 :> c2}}
=============================================================================
