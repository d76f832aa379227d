----------------------------- MODULE MCProvider -----------------------------
EXTENDS Provider

MCKinds == {<<"", "", FALSE>>, <<"", "r", FALSE>>, <<"t", "", TRUE>>, <<"", "r", TRUE>>}

MCScripts ==
    {<<"think", "text", "think", "wide", "finish", "usage">>, <<"both", "wide", "done">>,
     <<"text", "call", "second", "args", "finish">>, <<"second", "call", "args">>,
     <<"args", "call", "finish">>, <<"finish", "done">>, <<"garbled", "usage">>,
     <<"text", "overflow">>, <<"nested", "done">>}

Model(n, c, v) == [name |-> n, ctx |-> c, vision |-> v]
Reported(n, c, v, l) == [name |-> n, ctx |-> c, vision |-> v, loaded |-> l]
File(t, ms, a, m, u) ==
    [type |-> t, models |-> ms, active |-> a, model |-> m, window |-> Absent, vision |-> Absent,
     ui |-> u]
MCUserFiles ==
    {File("openai", <<Model("a", 8, FALSE), Model("b", 9, TRUE)>>, "b", Absent, "expanded"),
     File("openai", <<Model(Absent, 1, TRUE), Model("a", 50000, Other), Model("", 8, TRUE)>>,
          "gone", Absent, Absent),
     File("llamacpp", Absent, Absent, Absent, "expanded"),
     File("llamacpp", <<Model("a", 8, TRUE)>>, Other, Absent, "collapsed"),
     [File(Other, Other, Absent, "b", "hidden") EXCEPT !.window = 8, !.vision = FALSE],
     [File("llamacpp", Absent, Absent, Absent, "hidden") EXCEPT !.window = 50000]}
MCServers ==
    {<<Reported("a", 4, TRUE, FALSE), Reported("b", Absent, Absent, TRUE)>>,
     <<Reported("b", 5, TRUE, Absent), Reported("a", 4, FALSE, FALSE)>>}
=============================================================================
