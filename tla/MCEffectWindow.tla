--------------------------- MODULE MCEffectWindow ---------------------------
(* A batch that one activation emits, and one that takes two of them, the  *)
(* first without an effect.                                                *)
EXTENDS EffectWindow

const_EntryEffectLists == {<<TRUE>>, <<FALSE, TRUE>>}
=============================================================================
