----------------------------- MODULE MCCloseout -----------------------------
(* Two decoder cells with two edges between them, each edge on a data cell *)
(* that both planes correct.                                               *)
EXTENDS Closeout, TLC

CONSTANTS a, b, d0, d1

const_Coordinates == {a, b}
const_Datas == {d0, d1}
const_Directions == {"east", "west"}

const_neighbor == [c \in const_Coordinates |->
  [direction \in const_Directions |-> IF c = a THEN b ELSE a]]

east_edge == "east" :> d0 @@ "west" :> d1
west_edge == "east" :> d1 @@ "west" :> d0
const_data_of ==
  [plane \in Planes |-> a :> east_edge @@ b :> west_edge]

const_measurement == x

(* Half a turn exchanges the cells and the data cells; twice is none.      *)
exchange(u, v, n) == IF n % 2 = 0 THEN u :> u @@ v :> v ELSE u :> v @@ v :> u

turns == {exchange(a, b, n) @@ exchange(d0, d1, n) : n \in 1 .. 2}
=============================================================================
