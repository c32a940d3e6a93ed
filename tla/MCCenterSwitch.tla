---------------------------- MODULE MCCenterSwitch ----------------------------
(* A small instance of CenterSwitch: two centres, two messages. *)
EXTENDS CenterSwitch

MCCenterLists == {<<>>, <<"b">>}
=============================================================================
