------------------------------ MODULE MCTerminal ------------------------------
(* Instance of Terminal for TLC. *)
EXTENDS Terminal
MCOutputs == {Message, Message \o <<NEWLINE, Other>>}
MCEditorName == <<"x">>
MCOldTexts == {EmptyFile, [EmptyFile EXCEPT ![0] = "x"]}
=============================================================================
