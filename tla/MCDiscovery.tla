---------------------------- MODULE MCDiscovery ----------------------------
(* Instances of Discovery: directories that overlap, as $XDG_RUNTIME_DIR    *)
(* and $TMPDIR do when they are the same, that do not, and a socket that is *)
(* in neither.                                                              *)
EXTENDS Discovery

CONSTANTS s1, s2

TwoNames == <<s1, s2>>
SomeLayouts == {<<{s1, s2}, {s1, s2}>>, <<{s1}, {s2}>>, <<{s1}>>}

AllKinds == {"connect", "root", "servers"}
OnlyConnect == {"connect"}
=============================================================================
