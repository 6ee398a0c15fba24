-------------------------- MODULE MCSharedService --------------------------
(* Two actors.  Either the first one is sent more than its mailbox holds,  *)
(* at startup and by both producers, or one producer has a frame for each. *)
EXTENDS SharedService

const_Arrivals ==
  {[startup |-> <<0>>, frames |-> 0 :> <<0>> @@ 1 :> <<0>>],
   [startup |-> << >>, frames |-> 0 :> <<0, 1>> @@ 1 :> << >>]}

const_EntryEffectLists == {<< >>, <<FALSE, TRUE>>}
=============================================================================
