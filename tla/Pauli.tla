------------------------------- MODULE Pauli -------------------------------
(***************************************************************************)
(* src/src/examples/phi_decoder/hls_pauli.erl: single-qubit Paulis modulo  *)
(* phase.  A Pauli is its two-bit code, bit one for x and bit zero for z.  *)
(***************************************************************************)
EXTENDS Naturals

Bit == {0, 1}

xor(a, b) == (a + b) % 2

Paulis == [x : Bit, z : Bit]

i == [x |-> 0, z |-> 0]
x == [x |-> 1, z |-> 0]
y == [x |-> 1, z |-> 1]
z == [x |-> 0, z |-> 1]

multiply(left, right) ==
  [x |-> xor(left.x, right.x), z |-> xor(left.z, right.z)]

anticommutes(left, right) ==
  xor(left.x * right.z, left.z * right.x) = 1
=============================================================================
