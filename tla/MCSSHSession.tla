---------------------------- MODULE MCSSHSession ----------------------------
(* Text that fills a line, a rune and sequences cut in the middle, a       *)
(* scroll region, parameters beyond the largest and smallest int; then any *)
(* operation.                                                              *)
EXTENDS SSHSession

MCLast == {"A", "B", "C", "D", "E", "F", "G", "H", "J", "K", "L", "M", "P", "S", "T", "X",
           "@", "d", "r", "s", "u", "c", "1", "2", "7", "8", "(", "CR", "BS", "TAB", "BEL", More}

MCPrintable ==
    (MCLast \ (Controls \cup {More})) \cup {"a", "e", "f", "g", "3", "9", "[", "]", ";", "-", "\\"}

MCChunks == <<
    {<<b>> : b \in MCLast} \cup {<<"1", "J">>, <<"2", "J">>, <<"1", "K">>, <<"2", "K">>},
    {<<"a", Lead, More>>, <<"ESC", "[">>, <<"ESC">>, <<"\\">>},
    {<<More>>, <<";", "3", "r">>, <<"9", "9", "B">>, <<"-", "9", "9", "A">>, <<"M">>, <<"]", "ESC">>},
    {<<"a", Lead, More>>, <<"ESC", "[", "2">>, <<"LF", "ESC">>} >>
=============================================================================
