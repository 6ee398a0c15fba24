---------------------------- MODULE MCNoiseMesh ----------------------------
(* A ring of two syndromes and two data cells: each data cell lies between *)
(* both syndromes.                                                         *)
EXTENDS NoiseMesh

CONSTANTS s0, s1, d0, d1, east, west

const_Syndromes == {s0, s1}
const_Datas == {d0, d1}
const_Ports == {east, west}
const_opposite == east :> west @@ west :> east

const_data_at ==
  s0 :> (east :> d0 @@ west :> d1) @@ s1 :> (east :> d1 @@ west :> d0)
const_syndrome_at ==
  d0 :> (east :> s1 @@ west :> s0) @@ d1 :> (east :> s0 @@ west :> s1)

const_Measurements == {DC!x}

(* Half a turn of the ring exchanges syndromes and data cells; a           *)
(* reflection exchanges one of the two, and the ports.                     *)
exchange(u, v, n) == IF n % 2 = 0 THEN u :> u @@ v :> v ELSE u :> v @@ v :> u

ring_symmetry ==
  {exchange(s0, s1, n) @@ exchange(d0, d1, m) @@ exchange(east, west, n + m) :
     n, m \in 1 .. 2}
=============================================================================
