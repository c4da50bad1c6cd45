----------------------------- MODULE MCCachePlan -----------------------------
(* Bounded instance of CachePlan for TLC.                                  *)
EXTENDS CachePlan

CONSTANTS h1, h2, c1, c2,
          retitled   \* c1 under another title

MCHeroes   == {h1, h2}
MCPaths    == {"main", "old"}
MCContents == {c1, c2, retitled}
MCShown    == [c \in MCContents |-> IF c = retitled THEN c1 ELSE c]

Main(hero, content) == [hero |-> hero, path |-> "main", content |-> content]

\* Catalogs of one and of two heroes, and one of an earlier version with
\* another path.
MCRequests ==
    {<<Main(h1, c1)>>, <<Main(h1, c2), Main(h2, c1)>>,
     <<[Main(h1, c1) EXCEPT !.path = "old"]>>}

Entry(author, mark, hero) ==
    [author |-> author, id |-> 1, hero |-> hero, mark |-> mark, content |-> c2, time |-> 0]

\* An empty section, a build of an earlier version, one of another author, and
\* entries that are no build: without bytes, and with malformed ones.
MCDocuments ==
    {<<>>, <<Entry("player", "legacy", h1)>>, <<Entry("other", "main", h1)>>,
     <<Entry("no_blob", "none", h1)>>, <<Entry("malformed", "none", h1)>>}
=============================================================================
