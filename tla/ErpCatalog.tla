------------------------------ MODULE ErpCatalog ------------------------------
(***************************************************************************)
(* The two ERP clients of crates/oracle-automate-erp: MockErpClient        *)
(* (client.rs), which answers everything from its catalogue of operations  *)
(* and its tables, and HttpFusionClient with FusionPartyClient (fusion.rs),*)
(* which ask the catalogue first and then Fusion; and the chain of         *)
(* credential providers (credentials.rs).  All of it is stateless: the     *)
(* operators give the answer, or the set of possible answers, of a call.   *)
(* The pool's permits are in MetadataCache.                                *)
(*                                                                         *)
(* An answer is [ok |-> TRUE, value |-> v] or [ok |-> FALSE, error |-> e]. *)
(* A text that is compared as a whole is a string, one that is matched by  *)
(* pattern a sequence of letters; both sides of every comparison are       *)
(* folded to one case by the code, so there is only one.                   *)
(*                                                                         *)
(* Operators named Bad... are mutants, plausible bugs of the definition    *)
(* that follows them, and no part of the specification.                    *)
(***************************************************************************)
EXTENDS Integers, SequencesExt, FiniteSetsExt

Ok(v) == [ok |-> TRUE, value |-> v]
Err(e) == [ok |-> FALSE, error |-> e]

-----------------------------------------------------------------------------
(* The catalogue.                                                          *)

(* An operation: the last two parts of its id, the words a search can hit, *)
(* whether it only reads, its required and its exported parameters.        *)
Operation(resource, verb, words, readOnly, required, exports) ==
  [resource |-> resource, verb |-> verb, words |-> words, readOnly |-> readOnly,
   required |-> required, exports |-> exports]

Catalogue ==
  LET status == {"X_RETURN_STATUS"} IN
  [serverInformation |-> Operation("system", "serverInformation", <<"environment">>, TRUE, {}, {"SERVER_INFO"}),
   itemsV2 |-> Operation("itemsV2", "get", <<"item", "item", "product">>, TRUE, {"ITEM_NUMBER"}, {"ITEM"}),
   journalEntries |-> Operation("journalEntries", "post", <<"journal", "journal", "ledger">>, FALSE, {"JOURNAL_ENTRY"}, status),
   journalImport |-> Operation("importBulkData", "journalImport", <<"journal", "import", "bulk">>, FALSE,
                               {"DOCUMENT_CONTENT", "JOB_NAME"}, status),
   purchaseOrders |-> Operation("purchaseOrders", "post", <<"order", "order", "purchase">>, FALSE, {"PURCHASE_ORDER"}, status),
   salesOrders |-> Operation("salesOrdersForOrderHub", "post", <<"order", "order", "order">>, FALSE, {"SALES_ORDER"}, status),
   receipts |-> Operation("receivingReceiptRequests", "post", <<"receipt">>, FALSE, {"RECEIPT_REQUEST"}, status),
   suppliers |-> Operation("suppliers", "patch", <<"supplier">>, FALSE, {"SUPPLIER_ID", "SUPPLIER_PATCH"}, status),
   sandbox |-> Operation("sandbox", "publish", <<"sandbox">>, FALSE, {"SANDBOX_NAME"}, status),
   runReport |-> Operation("bip", "runReport", <<"report">>, TRUE, {"REPORT_PATH"}, {"REPORT_BYTES"}),
   describe |-> Operation("rest", "describe", <<"resource">>, TRUE, {"RESOURCE"}, {}),
   commit |-> Operation("transaction", "commit", <<"transaction">>, FALSE, {}, status),
   rollback |-> Operation("transaction", "rollback", <<"transaction">>, FALSE, {}, status)]

Listed == DOMAIN Catalogue

\* A request may also name an operation the catalogue does not list; the id
\* then tells its resource and verb all the same.
Unlisted == [deleteItem |-> Operation("itemsV2", "delete", <<>>, FALSE, {}, {}),
             ledgers |-> Operation("ledgersLOV", "get", <<>>, TRUE, {}, {})]
Named(f) == IF f \in Listed THEN Catalogue[f] ELSE Unlisted[f]

\* Occurrences of the query's terms in name, description and group.
Score(f, terms) ==
  FoldSeq(LAMBDA t, n : n + Len(SelectSeq(Catalogue[f].words, LAMBDA w : w = t)), 0, terms)

AtLeastOne(limit) == IF limit < 1 THEN 1 ELSE limit
Truncated(seq, limit) == IF Len(seq) <= limit THEN seq ELSE SubSeq(seq, 1, limit)

\* The order of a HashMap's values is arbitrary, so is that of equal scores.
SearchOperations(terms, limit) ==
  LET hits == {f \in Listed : Score(f, terms) > 0}
  IN {Ok(Truncated(s, AtLeastOne(limit))) :
        s \in {q \in SetToSeqs(hits) :
                 \A i \in 1..Len(q) - 1 : Score(q[i], terms) >= Score(q[i + 1], terms)}}

OperationMetadata(f) == IF f \in Listed THEN Ok(f) ELSE Err("NotFound")

BulkMetadata(names) ==
  [functions |-> SelectSeq(names, LAMBDA f : f \in Listed),
   missing |-> SelectSeq(names, LAMBDA f : f \notin Listed)]

\* The parameters of a request are an object with some keys, null, which
\* counts as no keys, or something else.
Parameters(form, keys) == [form |-> form, keys |-> keys]
MockCall(f, params, readOnlyMode) ==
  IF f \notin Listed THEN Err("NotFound")
  ELSE IF readOnlyMode /\ ~Catalogue[f].readOnly THEN Err("PermissionDenied")
  ELSE IF params.form = "scalar" \/ ~(Catalogue[f].required \subseteq params.keys) THEN Err("InvalidParameter")
  ELSE Ok([inputs |-> params.keys, outputs |-> Catalogue[f].exports])

-----------------------------------------------------------------------------
(* Tables.                                                                 *)

MaxRowsHardCap == 1000
ScopeFields == {"the ledger/BU scope", "RCLNT"}

Ledger(id, name, currency) == [LEDGER_ID |-> id, NAME |-> name, CURRENCY_CODE |-> currency]
Tables ==
  [GL_LEDGERS |->
     [fields |-> <<"LEDGER_ID", "NAME", "CURRENCY_CODE">>, clnt |-> FALSE,
      rows |-> <<Ledger(<<"p">>, <<"g", "p">>, <<"i">>), Ledger(<<"r">>, <<"g", "u", "r">>, <<"u">>)>>],
   FND_SANDBOXES |->
     [fields |-> <<"SANDBOX_ID", "STATUS">>, clnt |-> FALSE,
      rows |-> <<[SANDBOX_ID |-> <<"p">>, STATUS |-> <<"u">>]>>]]

TableStructure(t) == IF t \in DOMAIN Tables THEN Ok(Tables[t].fields) ELSE Err("NotFound")

Wild == {"%", "_"}
Infix(s, h) == \E i \in 0..Len(h) - Len(s) : SubSeq(h, i + 1, i + Len(s)) = s

(* sql_like first writes a regular expression, then takes it apart again:  *)
(* '%' has become ".*", '_' has become '.', and '^', '$' and '\' are gone. *)
SqlLike(h, p) ==
  LET rest == IF Len(p) > 1 /\ Last(p) = "%" THEN SubSeq(p, 2, Len(p) - 1) ELSE Tail(p)
      dots(s) == [i \in 1..Len(s) |-> IF s[i] = "_" THEN "." ELSE s[i]]
  IN CASE \A i \in 1..Len(p) : p[i] \notin Wild -> h = p
       [] Head(p) = "%" -> Infix(dots(rest), h)
       [] Head(p) # "%" /\ Last(p) = "%" -> IsPrefix(dots(Front(p)), h)
       [] OTHER -> h = dots(p)

(* A clause: its text holds a field, an operator and a value, or the words *)
(* of a LIKE inside the value of an '=', which are taken for the operator; *)
(* or neither operator.                                                    *)
Clause(field, op, value) == [field |-> field, op |-> op, value |-> value]
ParseClause(c) ==
  IF c.op = "= with LIKE inside" THEN Clause("?", "LIKE", c.value) ELSE c
ParseConditions(raw) ==
  IF \E i \in DOMAIN raw : raw[i].op \notin {"=", "LIKE", "= with LIKE inside"}
  THEN Err("InvalidParameter") ELSE Ok([i \in DOMAIN raw |-> ParseClause(raw[i])])

\* A column the row does not have reads as the empty text.
MatchRow(row, c) ==
  LET actual == IF c.field \in DOMAIN row THEN row[c.field] ELSE <<>>
  IN IF c.op = "=" THEN actual = c.value ELSE SqlLike(actual, c.value)

\* A table keyed by the scope is restricted to the caller's, unless the
\* caller gave a condition on it.
WithScope(table, conditions, client) ==
  LET first == table.fields[1]
  IN IF table.clnt /\ first \in ScopeFields /\ \A i \in DOMAIN conditions : conditions[i].field # first
     THEN Append(conditions, Clause(first, "=", client)) ELSE conditions

Project(row, fields) == [f \in ToSet(fields) \cap DOMAIN row |-> row[f]]

ReadTable(name, fields, raw, maxRows, client) ==
  IF maxRows = 0 THEN Err("InvalidParameter")
  ELSE IF maxRows > MaxRowsHardCap THEN Err("TableBufferOverflow")
  ELSE IF name \notin DOMAIN Tables THEN Err("NotFound")
  ELSE LET table == Tables[name]
           columns == IF fields = <<>> THEN table.fields ELSE fields
           parsed == ParseConditions(raw)
       IN IF ~(ToSet(columns) \subseteq ToSet(table.fields)) THEN Err("InvalidParameter")
          ELSE IF ~parsed.ok THEN parsed
          ELSE LET conditions == WithScope(table, parsed.value, client)
                   hits == SelectSeq(table.rows, LAMBDA r :
                             \A i \in DOMAIN conditions : MatchRow(r, conditions[i]))
               IN Ok(Truncated([i \in DOMAIN hits |-> Project(hits[i], columns)], maxRows))

-----------------------------------------------------------------------------
(* Fusion.                                                                 *)

\* The HTTP method is read off the last part of the operation's id.
Dispatch(f) ==
  CASE Named(f).verb = "post" -> "POST"
    [] Named(f).verb = "patch" -> "PATCH"
    [] Named(f).verb = "delete" -> "DELETE"
    [] OTHER -> "GET"

\* The catalogue decides before a request is sent; one it does not list
\* passes on a server that may write.
BadFusionGate(f, readOnlyMode) ==
  IF f \in Listed /\ readOnlyMode /\ ~Catalogue[f].readOnly THEN "PermissionDenied" ELSE "pass"
FusionGate(f, readOnlyMode) ==
  IF readOnlyMode /\ (f \notin Listed \/ ~Catalogue[f].readOnly) THEN "PermissionDenied" ELSE "pass"

\* What Fusion answers is external: no connection or a timeout, another
\* transport error, or any status, which is handed on and not examined.
TransportError(http) == CASE http = "unreachable" -> "DestinationDown" [] OTHER -> "Internal"
FusionCall(f, readOnlyMode, http) ==
  IF FusionGate(f, readOnlyMode) # "pass" THEN Err("PermissionDenied")
  ELSE IF http.transport # "answered" THEN Err(TransportError(http.transport))
  ELSE Ok([sent |-> Dispatch(f), to |-> Named(f).resource, status |-> http.status])

\* A party needs an id under one of two names; the rest may be missing.
PartyFrom(o) ==
  IF o.supplierId # "none" THEN {[id |-> o.supplierId, name |-> o.name]}
  ELSE IF o.partyId # "none" THEN {[id |-> o.partyId, name |-> o.name]} ELSE {}
SearchParties(http) ==
  IF http.transport # "answered" THEN Err(TransportError(http.transport))
  ELSE IF ~http.json THEN Err("Internal")
  ELSE Ok(UNION {PartyFrom(o) : o \in ToSet(http.items)})
\* Only 404 is told from a party; any other body without an id is the party
\* that was asked for, without a name.
GetParty(id, http) ==
  IF http.transport # "answered" THEN Err(TransportError(http.transport))
  ELSE IF http.status = 404 THEN Err("NotFound")
  ELSE IF ~http.json THEN Err("Internal")
  ELSE LET found == UNION {PartyFrom(o) : o \in ToSet(http.items)}
       IN Ok(IF found = {} THEN [id |-> id, name |-> ""] ELSE CHOOSE p \in found : TRUE)

-----------------------------------------------------------------------------
(* Credentials.                                                            *)

EnvNeeded == {"BASE_URL", "INSTANCE", "CLIENT", "USER", "PASSWORD"}

None == [ok |-> TRUE, value |-> "none"]
EnvFetch(present) ==
  IF present \cap EnvNeeded = {} THEN None
  ELSE IF EnvNeeded \subseteq present THEN Ok("env") ELSE Err("AuthFailed")

\* A file that cannot be read is no credentials here; one that is no valid
\* JSON, or lacks a field without a default, is an error.
FileFetch(file) ==
  CASE file = "unreadable" -> None
    [] file = "malformed" -> Err("AuthFailed")
    [] file = "complete" -> Ok("file")

BadLayered(answers) ==
  LET given == {i \in DOMAIN answers : answers[i].ok /\ answers[i] # None}
  IN IF given = {} THEN None ELSE answers[CHOOSE i \in given : \A j \in given : i <= j]
\* The first provider that has credentials wins; an error ends the search.
Layered(answers) ==
  LET given == {i \in DOMAIN answers : answers[i] # None}
  IN IF given = {} THEN None ELSE answers[CHOOSE i \in given : \A j \in given : i <= j]
=============================================================================
