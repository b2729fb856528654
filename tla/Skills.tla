-------------------------------- MODULE Skills --------------------------------
(***************************************************************************)
(* Skills: markdown workflow templates, discovered on disk and rendered    *)
(* with arguments (crates/oracle-automate-skills/src/lib.rs).              *)
(*                                                                         *)
(* A file is [md, opened, closed, lines, body]: is its extension md, are   *)
(* both --- lines there, the lines between them and the body after them.   *)
(* A line is [indent, key, value] with indent 0, 2 or 4 for none, some and *)
(* four or more spaces, and key "- name" for the start of a list item; a   *)
(* body is a sequence of tokens, texts and {{holes}}.                      *)
(***************************************************************************)
EXTENDS Sequences, Functions, SequencesExt

Token(kind, name) == [kind |-> kind, name |-> name]
Hole(name) == Token("hole", name)

SkillFiles ==
  [md : BOOLEAN, opened : BOOLEAN, closed : BOOLEAN,
   lines : Seq([indent : {0, 2, 4}, key : STRING, value : STRING]),
   body : Seq([kind : {"text", "hole"}, name : STRING])]

-----------------------------------------------------------------------------
(* render(): one argument after the other, every occurrence of its hole.   *)

Replacement(arg, args) ==
  IF arg.name \in DOMAIN args THEN <<Token("text", args[arg.name])>>
  ELSE IF arg.required THEN <<Token("missing", arg.name)>> ELSE <<>>

\* replace(): every occurrence.
Filled(body, hole, by) ==
  FlattenSeq([i \in DOMAIN body |-> IF body[i] = hole THEN by ELSE <<body[i]>>])

Render(skill, args) ==
  LET out[k \in 0..Len(skill.arguments)] ==
        IF k = 0 THEN skill.body
        ELSE LET arg == skill.arguments[k]
             IN  Filled(out[k - 1], Hole(arg.name), Replacement(arg, args))
  IN out[Len(skill.arguments)]

-----------------------------------------------------------------------------
(* parse_frontmatter(): the field being read decides what a line means.    *)

Skill(name, description, arguments, body) ==
  [name |-> name, description |-> description, arguments |-> arguments, body |-> body]

Argument(name, required) == [name |-> name, required |-> required]

\* The parser: where it is, and the fields it has read.
Reading(at, name, description, arguments) ==
  [at |-> at, name |-> name, description |-> description, arguments |-> arguments]

\* A line of the list of arguments: only the start of an item counts.
InList(st, line) ==
  IF line.key = "- name"
  THEN Reading("item", st.name, st.description, Append(st.arguments, Argument(line.value, FALSE)))
  ELSE Reading("list", st.name, st.description, st.arguments)

\* A line indented under an item, whatever it says.
InItem(st, line) ==
  IF line.key # "required" THEN st
  ELSE Reading("item", st.name, st.description,
               Append(Front(st.arguments), Argument(Last(st.arguments).name, line.value = "true")))

Field(st, line) ==
  LET at == IF line.indent = 0 /\ line.key = "arguments" THEN "list" ELSE "fields"
  IN  Reading(at,
        IF line.indent = 0 /\ line.key = "name" THEN line.value ELSE st.name,
        IF line.indent = 0 /\ line.key = "description" THEN line.value ELSE st.description,
        st.arguments)

ReadLine(st, line) ==
  IF st.at = "item" /\ line.indent = 4 THEN InItem(st, line)
  ELSE IF st.at # "fields" /\ (line.indent > 0 \/ line.key = "blank") THEN InList(st, line)
  ELSE Field(st, line)

ParseFrontmatter(lines) ==
  LET st[k \in 0..Len(lines)] ==
        IF k = 0 THEN Reading("fields", "", "", <<>>) ELSE ReadLine(st[k - 1], lines[k])
  IN st[Len(lines)]

\* The skill of a file: none when the frontmatter is missing or incomplete.
ParseSkillFile(f) ==
  LET read == ParseFrontmatter(f.lines)
  IN  IF f.opened /\ f.closed /\ read.name # "" /\ read.description # ""
      THEN {Skill(read.name, read.description, read.arguments, f.body)} ELSE {}

\* scan_paths(): the files in the order they are visited; the last one of a
\* name stays, and each one parsed counts.
Parsed(f) == IF f.md THEN ParseSkillFile(f) ELSE {}
Declaring(files, name) == {i \in DOMAIN files : \E skill \in Parsed(files[i]) : skill.name = name}

ScanPaths(files) ==
  LET read == {i \in DOMAIN files : Parsed(files[i]) # {}}
      SkillOf(i) == CHOOSE skill \in Parsed(files[i]) : TRUE
  IN  [skills |-> [n \in {SkillOf(i).name : i \in read} |-> SkillOf(Max(Declaring(files, n)))],
       loaded |-> Cardinality(read)]

-----------------------------------------------------------------------------
(* The skills of the repository that the gateway knows by name: their      *)
(* arguments, the required ones first, and the holes of their bodies.      *)

Line(indent, key, value) == [indent |-> indent, key |-> key, value |-> value]
Item(name, required) ==
  <<Line(2, "- name", name), Line(4, "description", "d"), Line(4, "required", required)>>

SkillFile(name, required, optional, holes) ==
  [md |-> TRUE, opened |-> TRUE, closed |-> TRUE,
   lines |-> <<Line(0, "name", name), Line(0, "description", "d"), Line(0, "tags", "t"),
               Line(0, "requires_tools", "r"), Line(0, "arguments", "")>>
             \o FlattenSeq([i \in DOMAIN required |-> Item(required[i], "true")])
             \o FlattenSeq([i \in DOMAIN optional |-> Item(optional[i], "false")]),
   body |-> <<Token("text", name)>> \o [i \in DOMAIN holes |-> Hole(holes[i])]]

SecuritySodAudit ==
  SkillFile("security_sod_audit", <<"user_or_role", "scope">>, <<>>,
            <<"user_or_role", "scope", "scope", "scope", "scope", "user_or_role", "scope">>)
AnalyticsMigration ==
  SkillFile("analytics_migration", <<"source_object">>, <<"target_release">>,
            <<"source_object", "target_release", "source_object">>)
PeriodCloseInvestigation ==
  SkillFile("period_close_investigation", <<"ledger">>, <<"accounting_period">>,
            <<"ledger", "accounting_period", "accounting_period">>)
CustomCodeReview ==
  SkillFile("custom_code_review", <<"object_name", "kind">>, <<>>,
            <<"kind", "object_name", "object_name", "kind">>)
RestServiceDesign ==
  SkillFile("rest_service_design", <<"service_name">>, <<"connection">>,
            <<"service_name", "connection", "service_name">>)
SandboxImpactAnalysis ==
  SkillFile("sandbox_impact_analysis", <<"sandbox">>, <<"target">>,
            <<"sandbox", "target", "sandbox">>)
ExtensibilityAudit ==
  SkillFile("extensibility_audit", <<"project">>, <<>>, <<"project", "project">>)
KarpathyGuidelines == SkillFile("karpathy_guidelines", <<"task">>, <<>>, <<"task">>)

RepositorySkills ==
  <<SecuritySodAudit, AnalyticsMigration, PeriodCloseInvestigation, CustomCodeReview,
    RestServiceDesign, SandboxImpactAnalysis, ExtensibilityAudit, KarpathyGuidelines>>
=============================================================================
