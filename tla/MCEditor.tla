------------------------------ MODULE MCEditor ------------------------------
(* Five users: one who writes and corrects, one who leafs through what he  *)
(* sent, one who completes files, one who completes skills, and one who    *)
(* runs commands.                                                          *)
EXTENDS Editor
MCKeyboards == {
    [keys |-> Motions \cup {"a", "e", "w", "altenter", "bksp", "del", "esc", "paste"}, size |-> 5, sent |-> 0],
    [keys |-> {"a", "enter", "altenter", "up", "down", "left", "bksp", "esc", "ctrlc"}, size |-> 2, sent |-> 2],
    [keys |-> {"a", "at", "tab", "enter", "esc", "up", "down", "left", "bksp", "del", "ctrldot", "ctrlg", "f1", "paste"},
     size |-> 2, sent |-> 0],
    [keys |-> {"sl", "h", "sp", "tab", "enter", "up", "esc", "bksp", "f1"},
     size |-> 2, sent |-> 1],
    [keys |-> {"sl", "c", "tab", "enter", "up", "esc", "ctrlc", "ctrlk", "bksp"}, size |-> 3, sent |-> 1]}
MCPastes == {<<"a", "nl">>}
MCFiles == <<[path |-> <<"dot", "a">>, hidden |-> TRUE], [path |-> <<"a">>, hidden |-> FALSE],
             [path |-> <<"a", "e">>, hidden |-> FALSE], [path |-> <<"e">>, hidden |-> FALSE]>>
MCSkillNames == <<<<"s", "k">>, <<"s">>, <<"s", "h">>>>
MCCommands == <<[id |-> <<"h">>, name |-> <<"h">>], [id |-> <<"m">>, name |-> <<"m">>],
                [id |-> <<"c">>, name |-> <<"c">>], [id |-> <<"c", "o">>, name |-> <<"c", "o">>]>>
=============================================================================
