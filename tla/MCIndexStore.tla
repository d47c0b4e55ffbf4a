----------------------------- MODULE MCIndexStore -----------------------------
EXTENDS IndexStore
MCWords == {"ant", "bee", "7up"}
MCShards == <<"a", "b">>
MCShardOf == [w \in MCWords |-> CASE w = "ant" -> "a" [] w = "bee" -> "b" [] OTHER -> "0"]
Page(ws, n, d) == [text |-> [w \in ws |-> n], depth |-> d]
MCPages == {Page({"ant", "7up"}, 1, 1), Page({"bee"}, 2, 0)}
MCFaults == FaultKinds
=============================================================================
