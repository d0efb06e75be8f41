-------------------------- MODULE MCEditorCommands --------------------------
(* Arguments of the runs of EditorCommands.                                *)
EXTENDS EditorCommands

Plain(kinds) ==
    [kind : kinds, buffer : {None}, selection : {FALSE}, paths : {0}]

\* A buffer that is there, and one of those that may not be, which are alike.
Representative == {CHOOSE b \in Listed : TRUE, CHOOSE b \in Buffers \ Listed : TRUE}

OnBuffer(kinds) ==
    [kind : kinds, buffer : Representative, selection : {FALSE}, paths : {0}]

Selecting == [kind : {"replace"}, buffer : {None}, selection : {TRUE}, paths : {0}]

Opening == [kind : {"open"}, buffer : {None}, selection : {FALSE}, paths : {0, 2}]

\* Everything there is.
AllArguments ==
    Plain(Kinds \ {"buffer use", "open"}) \cup Selecting \cup Opening
        \cup OnBuffer({"buffer use", "text", "edit", "replace", "node", "query"})
        \cup [kind : {"replace"}, buffer : Listed, selection : {TRUE}, paths : {0}]
=============================================================================
