----------------------------- MODULE MCJobDiscovery -----------------------------
(***************************************************************************)
(* A small job market for TLC: one job listed by two sources, once with a  *)
(* tracking parameter in its URL, with and without external id, and moved  *)
(* to another URL.                                                         *)
(***************************************************************************)
EXTENDS JobDiscovery, TLC

MCLinks == {"a", "a?utm", "b"}
MCWritten == [l \in MCLinks |-> l]
MCCanonical == [l \in MCLinks |-> IF l = "a?utm" THEN "a" ELSE l]

\* A posting with description ("full") or without.
Show(source, ext, link, full) ==
    [source |-> source, ext |-> ext, link |-> link, text |-> full]

MCPostings == {Show("s1", NoId, "a", FALSE),
               Show("s1", "x", "a?utm", TRUE),
               Show("s1", "x", "b", FALSE),
               Show("s2", "x", "b", TRUE),
               Show("s2", NoId, "a", FALSE)}

Symmetry == Permutations(Dispatchers)

================================================================================
