---------------------------- MODULE MCCrawlEngine ----------------------------
(***************************************************************************)
(* Values for the constants of CrawlEngine.  Four pages: "a" reaches       *)
(* everything, "b" and "c" share a successor, "c" and "d" link back, pages *)
(* change between fetches and "b" may fail to load.                        *)
(***************************************************************************)
EXTENDS CrawlEngineInv

MCUrls == {"a", "b", "c", "d"}

MCPages ==
    [u \in MCUrls |->
        CASE u = "a" -> {<<"b", "c">>, <<"c", "b", "d">>}
          [] u = "b" -> {<<"d", "c">>}
          [] u = "c" -> {<<"d", "a">>}
          [] u = "d" -> {<<>>, <<"b">>}]

MCFailing == {"b"}

NoFaults  == {}
AllFaults == FaultKinds

\* The command line may resume with another origin, depth, budget or capacity,
\* down to a budget of nothing and a capacity the queue raises to one.
Changing ==
    {[origin |-> "a", maxDepth |-> 2, maxPages |-> 3, capacity |-> 2],
     [origin |-> "d", maxDepth |-> 1, maxPages |-> 0, capacity |-> 0],
     [origin |-> "c", maxDepth |-> -1, maxPages |-> 4, capacity |-> 1]}
=============================================================================
