----------------------------- MODULE OicRepository -----------------------------
(***************************************************************************)
(* The two OIC clients of crates/oracle-automate-adt: MockOicClient        *)
(* (mock.rs), a repository in memory, and HttpOicClient (http.rs); the     *)
(* destinations that select them (destination.rs).                         *)
(*                                                                         *)
(* A name is given in some letter case; most lookups fold it to upper case *)
(* first.  What a service answers over HTTP is external.                   *)
(*                                                                         *)
(* Operators named Bad... are mutants, plausible bugs of the definition    *)
(* that follows them, and no part of the specification.                    *)
(***************************************************************************)
EXTENDS Integers, SequencesExt, FiniteSets

Ok(v) == [ok |-> TRUE, value |-> v]
Err(e) == [ok |-> FALSE, error |-> e]

-----------------------------------------------------------------------------
(* The repository in memory.                                               *)

Kinds == {"Integration", "GroovyScript", "Connection", "Lookup", "EssJob",
          "Project", "BipReport"}

Object(kind, group, words) == [kind |-> kind, group |-> group, words |-> words]

(* The objects by name, with the project (for a job, the group) they are   *)
(* listed under and the words a search can hit; and who uses which.        *)
Objects ==
  LET fin == "GT_FINANCE_INTEGRATIONS" IN
  [GT_GL_JOURNAL_IMPORT |-> Object("Integration", fin, <<"gl", "journal", "finance">>),
   GT_PO_RECEIPT_SYNC |-> Object("Integration", fin, <<"po", "receipt", "finance">>),
   GT_INVOICE_HOLD_RULE |-> Object("GroovyScript", fin, <<"invoice", "finance">>),
   GT_ITEM_DEFAULTING |-> Object("GroovyScript", "GT_SCM_EXTENSIONS", <<"item">>),
   GT_FUSION_ERP_REST |-> Object("Connection", fin, <<"rest">>),
   GT_COMPANY_XREF |-> Object("Lookup", fin, <<"company">>),
   JournalImportLauncher |-> Object("EssJob", "GL", <<"journal">>),
   GT_GL_JOURNAL_EXTRACT |-> Object("BipReport", fin, <<"gl", "journal">>)]

Projects ==
  [GT_FINANCE_INTEGRATIONS |->
     {"GT_GL_JOURNAL_IMPORT", "GT_PO_RECEIPT_SYNC", "GT_FUSION_ERP_REST", "GT_COMPANY_XREF",
      "GT_INVOICE_HOLD_RULE", "GT_GL_JOURNAL_EXTRACT"},
   GT_SCM_EXTENSIONS |-> {"GT_ITEM_DEFAULTING"}]

UsedBy ==
  [GT_FUSION_ERP_REST |-> {"GT_GL_JOURNAL_IMPORT", "GT_PO_RECEIPT_SYNC"},
   GT_COMPANY_XREF |-> {"GT_GL_JOURNAL_IMPORT"}]

PreviewTables == [GL_LEDGERS |-> 2]
MaxTableRows == 1000

(* The name an object is stored under and the name a caller gives: its own *)
(* letters, in their own case or in another.                               *)
Given(name, case) == [name |-> name, case |-> case]
Cases == {"own", "lower"}
IsUpper(name) == name # "JournalImportLauncher"
BadFolded(given) == IF given.case = "own" THEN given.name ELSE "?"
Folded(given) == IF IsUpper(given.name) THEN given.name ELSE "?"
Exact(given) == IF given.case = "own" THEN given.name ELSE "?"

\* get_integration and its like look in the map of their kind.
GetObject(kind, given) ==
  LET n == Folded(given)
  IN IF n \in DOMAIN Objects /\ Objects[n].kind = kind THEN Ok(n) ELSE Err("NotFound")
\* The group is folded, the name of a job is not.
GetEssJob(group, given) ==
  LET n == Exact(given)
  IN IF n \in DOMAIN Objects /\ Objects[n].kind = "EssJob" /\ Folded(group) = Objects[n].group
     THEN Ok(n) ELSE Err("NotFound")
GetProjectContents(given) ==
  IF Folded(given) \in DOMAIN Projects THEN Ok(Projects[Folded(given)]) ELSE Err("NotFound")

\* Lookups are not searched; a connection, a job and a report not by project.
Searched == {n \in DOMAIN Objects : Objects[n].kind # "Lookup"}
SearchScore(n, terms) ==
  FoldSeq(LAMBDA t, k : k + Len(SelectSeq(Objects[n].words, LAMBDA w : w = t)), 0, terms)
Search(terms, kind, maxResults) ==
  LET hits == {n \in Searched : SearchScore(n, terms) > 0 /\ kind \in {"any", Objects[n].kind}}
      cap == IF maxResults < 1 THEN 1 ELSE maxResults
  IN {Ok(IF Len(s) <= cap THEN s ELSE SubSeq(s, 1, cap)) :
        s \in {q \in SetToSeqs(hits) : \A i \in 1..Len(q) - 1 :
                 SearchScore(q[i], terms) >= SearchScore(q[i + 1], terms)}}

WhereUsed(given, kind) ==
  LET n == Folded(given)
  IN Ok(IF n \in DOMAIN UsedBy /\ Objects[n].kind = kind THEN UsedBy[n] ELSE {})

PreviewData(given, maxRows) ==
  IF maxRows \notin 1..MaxTableRows THEN Err("InvalidObjectName")
  ELSE IF Folded(given) = "XLA_AE_LINES" THEN Err("DataPreviewBlocked")
  ELSE IF Folded(given) \notin DOMAIN PreviewTables THEN Err("NotFound")
  ELSE LET rows == PreviewTables[Folded(given)] IN Ok(IF rows < maxRows THEN rows ELSE maxRows)

Activate(given, readOnly) ==
  IF readOnly THEN Err("PermissionDenied") ELSE Ok([name |-> given, activated |-> TRUE])

-----------------------------------------------------------------------------
(* The client over HTTP.                                                   *)

\* transport errors of every kind count as an unreachable destination.
GetJson(http) ==
  CASE http.transport # "answered" -> Err("DestinationDown")
    [] http.status = 404 -> Err("NotFound")
    [] http.status \in {401, 403} -> Err("AuthFailed")
    [] http.status \notin 200..299 -> Err("Internal")
    [] OTHER -> IF http.json THEN Ok(http.items) ELSE Err("Internal")

\* An artifact without a status counts as active.
HttpArtifact(given, http) ==
  LET body == GetJson(http)
  IN IF ~body.ok THEN body
     ELSE Ok([name |-> given, active |-> http.active \in {"yes", "missing"}])

\* The cap is applied before items without a name are left out.
Nameable(items) == SelectSeq(items, LAMBDA i : i.named)
HttpSearch(maxResults, http) ==
  LET body == GetJson(http)
      cap == IF maxResults < 1 THEN 1 ELSE maxResults
  IN IF ~body.ok THEN body
     ELSE Ok(Nameable(SubSeq(body.value, 1, IF Len(body.value) < cap THEN Len(body.value) ELSE cap)))

\* Whatever goes wrong, the answer is that nothing uses the object.
HttpWhereUsed(http) == IF GetJson(http).ok THEN Ok(Nameable(http.items)) ELSE Ok(<<>>)

HttpPreviewData(maxRows) ==
  IF maxRows \notin 1..MaxTableRows THEN Err("InvalidObjectName") ELSE Err("DataPreviewBlocked")

\* A refusal by the service is no error: the outcome says "not activated".
HttpActivate(given, readOnly, http) ==
  IF readOnly THEN Err("PermissionDenied")
  ELSE IF http.transport # "answered" THEN Err("DestinationDown")
  ELSE Ok([name |-> given, activated |-> http.status \in 200..299])

-----------------------------------------------------------------------------
(* Destinations.                                                           *)

SearchPaths(override, home) ==
  (IF override THEN <<"override">> ELSE <<>>) \o <<"project">>
    \o (IF home THEN <<"home">> ELSE <<>>)

\* The first path with a file decides, also when that file is malformed.
Load(override, home, files) ==
  LET found == SelectSeq(SearchPaths(override, home), LAMBDA p : files[p] # "absent")
  IN IF found = <<>> THEN Err("NotFound")
     ELSE IF files[found[1]] = "malformed" THEN Err("Internal") ELSE Ok(found[1])

ErrorCode(e) ==
  [Timeout |-> -32160, DestinationDown |-> -32161, CsrfRefresh |-> -32162, RateLimited |-> -32163,
   AuthFailed |-> -32260, NotFound |-> -32261, Forbidden |-> -32262, InvalidObjectName |-> -32263,
   InactiveObject |-> -32264, DataPreviewBlocked |-> -32265, PermissionDenied |-> -32266,
   Locked |-> -32267, Internal |-> -32298][e]
OicTransient(e) == ErrorCode(e) \in -32199..-32100
=============================================================================
