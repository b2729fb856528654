------------------------------ MODULE MCGateway -------------------------------
\* Finite instances of Gateway for TLC: main's simulated message and one of an
\* adapter, whose conversation may be main's own or hold the name of another
\* scheme; two jobs; the repository's skills among other files, or none.
EXTENDS Gateway

CONSTANTS m1, m2, r1, r2, r3

Message(channel, conversation, user, words) ==
  [channel |-> channel, conversation |-> conversation, user |-> user, words |-> words]

Demo(words) == Message("cli", <<"default">>, "demo", words)

\* A text for every rule, two that only look like one, and one for each tool.
Texts == {{"sod"}, {"authorisation audit", "audit"}, {"otbi", "migrat"}, {"closing", "gl"},
          {"review", "oic"}, {"rest", "expose"}, {"sandbox", "impact"}, {"clean core"},
          {"guideline"}, {"segregation of duties"}, {"sandbox"}, {"where used"}}

AdapterMessages ==
  {Message(ch, c, u, {"sod"}) : ch \in {"cli", "teams"}, u \in {"demo", "other"},
                                c \in {<<"default">>, <<"cli", "default">>}}

InboxOf(x, y) == [m \in {m1, m2} |-> IF m = m1 THEN x ELSE y]
MCInboxes ==
  {InboxOf(Demo(words), Message("cli", <<"default">>, "other", {"depends"})) : words \in Texts}
  \cup {InboxOf(NoMessage, NoMessage)}
  \cup {InboxOf(Demo({"period close"}), y) : y \in AdapterMessages}

Job(name, enabled, channel) == [name |-> name, enabled |-> enabled, channel |-> channel]
MCJobLists ==
  {<<>>,
   <<Job("off", FALSE, <<"cli", "fin-ops">>), Job("a", TRUE, <<"teams", "cli", "x">>),
     Job("b", TRUE, <<"cli", "config">>), Job("c", TRUE, <<>>)>>}

\* Files that are no skills, and an older copy that the repository's replaces.
Readme   == [SecuritySodAudit EXCEPT !.opened = FALSE]
Backup   == [KarpathyGuidelines EXCEPT !.md = FALSE]
Nameless == [KarpathyGuidelines EXCEPT !.lines = Tail(@)]
Older    == SkillFile("custom_code_review", <<"object">>, <<>>, <<"object">>)
MCFolders == {<<>>, <<Readme, Older>> \o RepositorySkills \o <<Backup, Nameless>>}

MCEpisodes == {[tags |-> {"gl"}, tenant |-> "T1"], [tags |-> {"gl", "ap"}, tenant |-> "T2"],
               [tags |-> {"gl"}, tenant |-> Anyone]}

\* Episodes are recorded and looked up beside a gateway that has no message and
\* no skills, the jobs fire beside one conversation.  The first recorder has an
\* episode of a tenant and the third a public one or none, so that a lookup may
\* find more than its limit.
MCInit ==
  /\ Init
  /\ IF inbox = InboxOf(NoMessage, NoMessage)
     THEN /\ lookup = NoLookup /\ connected = {"cli"} /\ prompts = ScanPaths(<<>>).skills
          /\ recorder[r1].episode.tenant \in {"T1", "T2"}
          /\ recorder[r3].episode.tenant = Anyone
     ELSE lookup # NoLookup /\ \A r \in Recorders : recorder[r] = Resting
  /\ jobs # <<>> => inbox[m1] = Demo({"sandbox"})
MCSpec == MCInit /\ [][Next]_vars /\ Fairness
=============================================================================
