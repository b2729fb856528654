------------------------------- MODULE MCCrawl --------------------------------
\* Finite instance of Crawl for TLC.  The bodies are at the edges of
\* split_text: sentence ends, words at the target, multi-byte characters at a
\* cut, and versions of one document that share a beginning or shrink.  The
\* directories hold pages of one name, pages that do not parse, other files and
\* an entry that goes away; the robots files share rules between agents, name
\* agents by a prefix and let rules overlap.
EXTENDS Crawl

\* "abc. de fg", "abc. xy", "a" and a word of two-byte characters
Long == <<2, 3, 4, 1, 0, 5, 6, 0, 7, 8>>
Changed == <<2, 3, 4, 1, 0, 9, 10>>
Brief == <<2>>
Wide == <<20, 21, -21, 22, -22, 23, -23, 24>>

D == <<"d">>
E == <<"e">>
Sub == <<"sub">>
MCIds == {D, E, Sub, <<"d", "_", "e">>}
MCCorpora == {<<>>}
MCConfigs == {[target |-> 6, overlap |-> 2], [target |-> 6, overlap |-> 9]}

Blank(text) == [h1 |-> <<>>, title |-> <<2>>, main |-> <<0>>, article |-> <<>>,
                content |-> <<>>, body |-> text]
\* The text lies in body, or in main with blanks around it.
Plain(text) == Blank(text)
Framed(text) == [Blank(<<5>>) EXCEPT !.main = <<0>> \o text \o <<0, 0>>]
Untitled(text) == [Blank(text) EXCEPT !.title = <<>>]

Html(name, page) == [kind |-> "html", name |-> name, entries |-> {}, page |-> page]
Other(name) == [kind |-> "other", name |-> name, entries |-> {}, page |-> Plain(<<>>)]
Gone(name) == [Other(name) EXCEPT !.kind = "gone"]
Folder(name, entries) == [Other(name) EXCEPT !.kind = "directory", !.entries = entries]

NoRobots == [h \in {} |-> <<>>]
Tree(entries) ==
  LET root == Folder(<<"root">>, entries)
  IN  [mode |-> "directory", root |-> root, files |-> {root} \cup entries \cup UNION {e.entries : e \in entries},
       urls |-> {}, robots |-> NoRobots]

Directories ==
  {Tree({Html(D, Plain(Long)), Html(E, Untitled(Brief)), Other(D)}),
   Tree({Html(D, Framed(Changed)), Folder(Sub, {Html(D, Plain(Long))})}),
   Tree({Html(D, Plain(Brief)), Folder(Sub, {Html(D, Plain(Long))})}),
   Tree({Html(E, Plain(Wide)), Html(D, Plain(Changed)), Html(Sub, Plain(<<0>>))}),
   Tree({Html(D, Plain(Brief)), Gone(E)})}

MCAgent == <<"erp", "bot", "1">>
Line(key, value) == [key |-> key, value |-> value, secs |-> -1]
Delay(n) == [key |-> "crawl-delay", value |-> <<>>, secs |-> n]
Us == Line("user-agent", <<"erp">>)
UsClosely == Line("user-agent", <<"erp", "bot">>)
All == Line("user-agent", Anybody)

\* "/d", "/d/e" and "/d_e"
PathD == <<"/", "d">>
PathDE == <<"/", "d", "/", "e">>
PathUnder == <<"/", "d", "_", "e">>
Url(host, path, page) == [host |-> host, path |-> path, page |-> page]

Web(one, other) ==
  [mode |-> "web", root |-> Other(Sub), files |-> {Other(Sub)},
   urls |-> {Url("h", PathD, Untitled(Brief)), Url("h", PathDE, Plain(Brief)),
             Url("h", PathUnder, Untitled(Brief)), Url("g", PathD, Untitled(Brief))},
   robots |-> [h \in {"h", "g"} |-> IF h = "h" THEN one ELSE other]]

Webs ==
  {Web(<<Us, Line("disallow", PathD), UsClosely, Line("disallow", <<>>), Line("allow", PathD),
         All, Line("disallow", PathDE)>>, <<>>),
   Web(<<Us, All, Delay(2), Line("allow", PathD), Line("disallow", PathD),
         Line("disallow", PathUnder), Us, Line("allow", PathUnder)>>,
       <<All, Line("disallow", PathD), Line("sitemap", PathD)>>)}

\* Pages from the web are brief: one configuration and one store do for them.
MCInit ==
  /\ CrawlInit
  /\ site.mode = "web" => backend = "qdrant" /\ config.overlap = 2
MCSpec ==
  MCInit /\ [][CrawlNext]_allVars /\ WF_allVars(ProgramStep) /\ WF_allVars(PipelineStep)

MCSites == Directories \cup Webs
=============================================================================
