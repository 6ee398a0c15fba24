--------------------------- MODULE NoiseTopology ---------------------------
(***************************************************************************)
(* The relations of phi_noise_topology: six Distance-by-Distance families  *)
(* on a torus, the port-by-port routes between them, and the data qubit    *)
(* that the host corrects for a move of the decoder.  There is no state:   *)
(* PhiMeshProofs has what holds at every distance and coordinate.          *)
(***************************************************************************)
EXTENDS Integers

Directions == {"north", "east", "west", "south"}
Planes == {"x", "z"}

reverse ==
  [north |-> "south", east |-> "west", west |-> "east", south |-> "north"]

phi_relations ==
  [north |-> <<0, -1>>, east |-> <<1, 0>>, west |-> <<-1, 0>>,
   south |-> <<0, 1>>]

relation(family, x, y) == [family |-> family, offset |-> <<x, y>>]

syndrome_relations ==
  [x |-> [north |-> relation("odd", 0, -1), east |-> relation("even", 1, 0),
          west |-> relation("even", 0, 0), south |-> relation("odd", 0, 0)],
   z |-> [north |-> relation("even", 1, 0), east |-> relation("odd", 1, 0),
          west |-> relation("odd", 0, 0), south |-> relation("even", 1, 1)]]

data_relations ==
  [even |-> [north |-> relation("z", -1, -1), east |-> relation("x", 0, 0),
             west |-> relation("x", -1, 0), south |-> relation("z", -1, 0)],
   odd |-> [north |-> relation("x", 0, 0), east |-> relation("z", 0, 0),
            west |-> relation("z", -1, 0), south |-> relation("x", 0, 1)]]

(* No offset is below minus one: the sum is not negative, and rem is %.    *)
wrap(value, modulus) == (value + modulus) % modulus

translate(distance, c, offset) ==
  <<wrap(c[1] + offset[1], distance), wrap(c[2] + offset[2], distance)>>

phi_neighbor(distance, c, direction) ==
  translate(distance, c, phi_relations[direction])

(* The data cell on a port of a syndrome, and the syndrome on a port of a  *)
(* data cell; a cell of either kind is its family with its coordinates.    *)
data_at(distance, plane, c, direction) ==
  LET r == syndrome_relations[plane][direction]
  IN  <<r.family, translate(distance, c, r.offset)>>

syndrome_at(distance, family, c, direction) ==
  LET r == data_relations[family][direction]
  IN  <<r.family, translate(distance, c, r.offset)>>

(* The embeddings [1, 2], [0, 0] and [1, 2], [0, 1] of the data families.  *)
physical(data) ==
  <<data[2][1], 2 * data[2][2] + (IF data[1] = "odd" THEN 1 ELSE 0)>>

correction_update(distance, plane, c, direction) ==
  LET right == wrap(c[1] + 1, distance)
      y == 2 * c[2]
  IN  IF plane = "x"
      THEN CASE direction = "north" -> <<c[1], wrap(y - 1, 2 * distance)>>
             [] direction = "east" -> <<right, y>>
             [] direction = "west" -> <<c[1], y>>
             [] direction = "south" -> <<c[1], y + 1>>
      ELSE CASE direction = "north" -> <<right, y>>
             [] direction = "east" -> <<right, y + 1>>
             [] direction = "west" -> <<c[1], y + 1>>
             [] direction = "south" -> <<right, wrap(y + 2, 2 * distance)>>
=============================================================================
