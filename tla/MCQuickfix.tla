----------------------------- MODULE MCQuickfix -----------------------------
(***************************************************************************)
(* Histories of two lists, three identities; and of the positions the      *)
(* first one, the last ones the editor holds, absent ones and bad ones.    *)
(***************************************************************************)
EXTENDS Quickfix

Several == << <<>>, <<0>>, <<2>>, <<3>> >>
Given == {Several, << <<-1>> >>}
=============================================================================
