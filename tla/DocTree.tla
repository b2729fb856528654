-------------------------------- MODULE DocTree --------------------------------
(***************************************************************************)
(* build_document_tree of crates/oracle-automate-kb/src/doc_tree.rs, and   *)
(* the navigation of the tree by oracle.kb.navigate (the server's          *)
(* tools.rs).                                                              *)
(*                                                                         *)
(* A body is a sequence of lines; a line's number stands for its byte      *)
(* offset.  A line is [form, depth, titled]: form is "#" for a run of      *)
(* depth hashes, "SECTION:", "1." for depth groups of digits and dots, or  *)
(* "text"; titled tells whether a blank and some text follow.              *)
(*                                                                         *)
(* The tree is the set of its sections; path holds a section's place among *)
(* its parent's children, so that a path names the spot in memory a raw    *)
(* pointer of the builder points to: the last index is the position in the *)
(* parent's vector of children, and <<i>> is an element of roots.          *)
(*                                                                         *)
(* Operators named Bad... are mutants, plausible bugs of the definition    *)
(* that follows them, and no part of the specification.                    *)
(***************************************************************************)
EXTENDS Integers, SequencesExt, FiniteSetsExt

Lines == [form : {"#", "SECTION:", "1.", "text"}, depth : Nat, titled : BOOLEAN]
Line(form, depth, titled) == [form |-> form, depth |-> depth, titled |-> titled]

IsAtx(l) == l.form = "#" /\ l.depth \in 1..6 /\ l.titled
IsMarker(l) == l.form \in {"SECTION:", "1."} /\ l.titled
DepthOf(l) == IF l.form = "SECTION:" THEN 1 ELSE l.depth

\* The line numbers of the headings in order: the first dialect that has one.
Ordered(K) == [r \in 1..Cardinality(K) |-> CHOOSE i \in K : Cardinality({j \in K : j <= i}) = r]
DetectHeadings(body) ==
  LET atx == {i \in DOMAIN body : IsAtx(body[i])}
  IN Ordered(IF atx # {} THEN atx ELSE {i \in DOMAIN body : IsMarker(body[i])})

\* Pop until a strict ancestor is on top.
Popped(stack, depth) == SubSeq(stack, 1, Max({0} \cup {i \in DOMAIN stack : stack[i].depth < depth}))

Children(sections, path) ==
  {s \in sections : Len(s.path) = Len(path) + 1 /\ Front(s.path) = path}

(* One section: the vector that receives it may move, and with it the      *)
(* elements it already has; dangling records a pointer to one of them.     *)
AddSection(t, new) ==
  LET stack == Popped(t.stack, new.depth)
      parent == IF stack = <<>> THEN <<>> ELSE Last(stack).path
      path == Append(parent, Cardinality(Children(t.sections, parent)) + 1)
  IN [sections |-> t.sections \cup {[path |-> path, depth |-> new.depth, start |-> new.start, end |-> new.end]},
      stack |-> Append(stack, [depth |-> new.depth, path |-> path]),
      dangling |-> t.dangling \/ \E i \in DOMAIN stack : stack[i].path # <<>> /\ Front(stack[i].path) = parent]

\* A section ends where the next heading, of whatever depth, starts.
Prepared(body) ==
  LET at == DetectHeadings(body)
  IN [k \in DOMAIN at |->
        [depth |-> DepthOf(body[at[k]]), start |-> at[k],
         end |-> IF k = Len(at) THEN Len(body) + 1 ELSE at[k + 1]]]

\* The tree after each of the sections.
Assembled(prepared) ==
  LET after[k \in 0..Len(prepared)] ==
        IF k = 0 THEN [sections |-> {}, stack |-> <<>>, dangling |-> FALSE]
        ELSE AddSection(after[k - 1], prepared[k])
  IN after

BuildDocumentTree(body) ==
  LET prepared == Prepared(body)
      built == Assembled(prepared)[Len(prepared)]
      leaves == {s \in built.sections : Children(built.sections, s.path) = {}}
  IN [root |-> [path |-> <<>>, depth |-> 0, start |-> 1, end |-> Len(body) + 1],
      sections |-> built.sections,
      dangling |-> built.dangling,
      leafCount |-> Max({1, Cardinality(leaves)}),
      maxDepth |-> Max({0} \cup {s.depth : s \in built.sections})]

\* find: the first node, depth first, with the path; <<>> names the root.
Find(tree, path) == {n \in {tree.root} \cup tree.sections : n.path = path}

\* A view holds the node, depth levels of descendants and stubs for one more.
BadView(tree, node, depth) ==
  {[section |-> s, stub |-> Len(s.path) = Len(node.path) + depth] :
     s \in {n \in tree.sections \cup {node} :
              IsPrefix(node.path, n.path) /\ Len(n.path) <= Len(node.path) + depth + 1}}
View(tree, node, depth) ==
  {[section |-> s, stub |-> Len(s.path) = Len(node.path) + depth + 1] :
     s \in {n \in tree.sections \cup {node} :
              IsPrefix(node.path, n.path) /\ Len(n.path) <= Len(node.path) + depth + 1}}

Navigate(body, path, depth) ==
  LET tree == BuildDocumentTree(body)
      found == Find(tree, path)
  IN IF found = {} THEN [ok |-> FALSE, error |-> "path not found"]
     ELSE [ok |-> TRUE, value |-> View(tree, CHOOSE n \in found : TRUE, depth)]

-----------------------------------------------------------------------------
(* Where a section belongs, told without a stack: in the nearest heading   *)
(* before it of a smaller depth, or in the root.                           *)
Enclosing(tree, s) ==
  LET before == {p \in tree.sections : p.start < s.start /\ p.depth < s.depth}
  IN IF before = {} THEN {tree.root} ELSE {p \in before : \A q \in before : q.start <= p.start}

(* The tree of a body: no pointer was left to a vector that moved; the     *)
(* sections cut the body from its first heading to its end; a section's    *)
(* path is the path of what encloses it, and then its number among those   *)
(* with the same enclosing node, counted as they appear in the source.     *)
TreeIsFaithful(body) ==
  LET tree == BuildDocumentTree(body)
      first == {s.start : s \in tree.sections}
  IN /\ ~tree.dangling
     /\ Cardinality(tree.sections) = Len(DetectHeadings(body))
     /\ first # {} =>
          \A i \in Min(first)..Len(body) :
             Cardinality({s \in tree.sections : i \in s.start..s.end - 1}) = 1
     /\ \A s \in tree.sections :
          /\ Find(tree, s.path) = {s}
          /\ Find(tree, Front(s.path)) = Enclosing(tree, s)
          /\ Last(s.path) = Cardinality({p \in tree.sections :
                              Enclosing(tree, p) = Enclosing(tree, s) /\ p.start <= s.start})

(* What a caller is told who asks for the node at a path: an error when    *)
(* no node has that path; otherwise that node and, of every section shown  *)
(* in full, all it encloses, and nothing else; stubs on the last level     *)
(* only, depth + 1 below the node.                                         *)
AnswerIsFaithful(body, path, depth, answer) ==
  LET tree == BuildDocumentTree(body)
      nodes == {tree.root} \cup tree.sections
      shown == {v.section : v \in answer.value}
      opened == {v.section : v \in {v \in answer.value : ~v.stub}}
  IN /\ answer.ok <=> \E n \in nodes : n.path = path
     /\ answer.ok =>
          /\ shown \subseteq nodes
          /\ \A v \in answer.value : v.stub <=> Len(v.section.path) = Len(path) + depth + 1
          /\ \A s \in nodes :
               s \in shown <=> s.path = path \/ (s \in tree.sections /\ Enclosing(tree, s) \subseteq opened)
===============================================================================
