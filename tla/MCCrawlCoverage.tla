--------------------------- MODULE MCCrawlCoverage ---------------------------
(***************************************************************************)
(* A site of seven pages: a diamond (a to b and c, both to d), a shortcut  *)
(* (c to e) beside a longer way (b to d to e) which is listed later, links *)
(* back, a page linked twice, and a page "g" beyond the depth.             *)
(***************************************************************************)
EXTENDS CrawlCoverage, CrawlEngineInv

MCUrls == {"a", "b", "c", "d", "e", "f", "g"}

MCPages ==
    [u \in MCUrls |->
        CASE u = "a" -> {<<"c", "b">>}
          [] u = "b" -> {<<"d", "a", "d">>}
          [] u = "c" -> {<<"d", "e">>}
          [] u = "d" -> {<<"e", "b">>}
          [] u = "e" -> {<<"f", "a">>}
          [] u = "f" -> {<<"g">>}
          [] u = "g" -> {<<"a">>}]

MCConfigs == {[origin |-> "a", maxDepth |-> 3, maxPages |-> 3, capacity |-> 7]}
=============================================================================
