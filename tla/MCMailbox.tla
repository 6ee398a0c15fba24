----------------------------- MODULE MCMailbox -----------------------------
(***************************************************************************)
(* Mailbox at model-checking size.                                         *)
(***************************************************************************)
EXTENDS Mailbox

CONSTANTS a, b

MCMessages == {a, b}
MCClauseLists == {<<{a}, {b}>>, <<{b}>>}
=============================================================================
