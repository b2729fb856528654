----------------------------- MODULE MCQueryTools -----------------------------
(* Constants for checking QueryTools: the demo corpus and six graphs over  *)
(* four nodes, without an edge, with one, two apart, a triangle, a         *)
(* triangle with a tail, all five edges; bodies of up to three lines and   *)
(* some of five; four chunks in two domains, one without an embedding.     *)
EXTENDS QueryTools

Pairs == << <<"a", "b">>, <<"a", "c">>, <<"b", "c">>, <<"c", "d">>, <<"a", "d">> >>
SmallEntities == << Entity("a", "FIN", J, J), Entity("b", "FIN", <<>>, J \o J),
                    Entity("c", "SCM", R, R), Entity("d", "other", <<>>, <<>>) >>
Chosen(k, e) == (k \div 2 ^ (e - 1)) % 2 = 1
MCGraphs ==
  [k \in {0, 1, 7, 9, 15, 31, 32} |->
     IF k = 32 THEN DemoCorpus
     ELSE Graph(SmallEntities, {<<Pairs[e][1], Pairs[e][2], 2>> : e \in {e \in 1..5 : Chosen(k, e)}})]

Lines == { Tree!Line("#", 1, TRUE), Tree!Line("#", 2, TRUE), Tree!Line("#", 3, TRUE), Tree!Line("#", 7, TRUE),
           Tree!Line("SECTION:", 0, TRUE), Tree!Line("1.", 2, TRUE), Tree!Line("text", 0, TRUE) }
MCDocuments ==
  UNION {[1..n -> Lines] : n \in 0..3}
    \cup {<<a, b, c, b, a>> : a, b, c \in {Tree!Line("#", 1, TRUE), Tree!Line("#", 2, TRUE), Tree!Line("#", 3, TRUE)}}

Chunk(domain, terms, dim) == [doc |-> "d", domain |-> domain, terms |-> terms, dim |-> dim]
MCChunks ==
  << Chunk("OracleHelp", {"period", "close"}, 2), Chunk("OracleHelp", {"je_lines"}, 2),
     Chunk("OracleHelp", {"je_lines", "period"}, 0), Chunk("Bpmn", {"period"}, 2) >>
MCQueries == {{"period"}, {"je_lines", "period"}, {"journal"}, {"receiving"}, {"nothing"}}
===============================================================================
