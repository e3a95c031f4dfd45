------------------------------ MODULE MCAutoFix ------------------------------
EXTENDS AutoFix, TLC

CONSTANTS c1, t1, a, b

append == [op |-> "append", text |-> <<b>>]
insert == [op |-> "insert", anchor |-> a, text |-> <<b>>, before |-> TRUE]
blank == [op |-> "insert", anchor |-> a, text |-> <<>>, before |-> FALSE]
function == [op |-> "replace_function", target |-> a, text |-> <<b>>]
undo == [op |-> "replace_block", target |-> b, text |-> <<a>>]
noop == [op |-> "fs.replace", target |-> a, text |-> <<a>>]
overwrite == [op |-> "fs.write", text |-> <<a>>]
line == [op |-> "fs.append", text |-> <<a>>]

MCEdits == {append, insert, blank, function, undo, noop, line, overwrite}
MCPlans == {<<append, insert, append>>, <<function, undo, function>>, <<blank, append, blank>>}
MCStart == <<a>>
MCMaxAttempts == {-1, 0, 3}
=============================================================================
