--------------------------- MODULE PuggyTemplate ---------------------------
(***************************************************************************)
(* Puggy, the templates of embedded content (src/shared/puggy): parsePuggy *)
(* builds a tree from the indentation of lines, renderHtml walks it with   *)
(* conditions, loops, mixins, included modules and a layout that is        *)
(* extended.  A line is its indentation, the kind of node parseLine makes  *)
(* of it, a name, and the value its expression has; how a kind is read off *)
(* the text of a line, attributes and escaping are left out.  What is      *)
(* rendered is the sequence of the lines that put something on the page.   *)
(***************************************************************************)
EXTENDS Integers, SequencesExt, FiniteSetsExt

CONSTANTS
    Lines,          \* the lines a template is written from
    Layouts,        \* the modules it may be rendered with: sequences of lines
    MaxTemplate     \* bound on its lines

ASSUME PuggyConstants == MaxTemplate \in Nat /\ \A line \in Lines : line.indent \in Nat

VARIABLES
    template,       \* the source
    module          \* options.modules: the one virtual module there is

puggyVars == <<template, module>>

\* Containers (getChildTarget), by what comes of them; all other lines are leaves.
Containers == {"element", "raw", "omit", "meta", "if", "each", "block", "mixin"}

\* The value is what evaluateExpression gives: the truth of a condition, the length of
\* a list (of something that is no list: 0), or -1 for a failure.
SourceLine(indent, kind, value) == [indent |-> indent, kind |-> kind, value |-> value]

-----------------------------------------------------------------------------
(* parsePuggy *)

RootFrame == [indent |-> -2, node |-> 0, branch |-> "children"]

ParseInit ==
    [ok |-> TRUE, stack |-> <<RootFrame>>, indent |-> 0, open |-> TRUE, parents |-> <<>>]

ChildrenOf(parents, node, branch) ==
    SetToSortSeq({i \in DOMAIN parents : parents[i] = <<node, branch>>}, <)

\* Fault seeded in OpenFrames: a line of the same indentation is taken for a child.
OpenFramesLoose(stack, indent) ==
    SubSeq(stack, 1, Max({1} \cup {k \in DOMAIN stack : stack[k].indent <= indent}))

\* Frames are popped until the last is less indented than the line, but for the first.
OpenFrames(stack, indent) ==
    SubSeq(stack, 1, Max({1} \cup {k \in DOMAIN stack : stack[k].indent < indent}))

\* One turn of the loop.  In a raw element every deeper line is text, whatever its
\* indentation.  An else continues the if before it and is no node of its own.
ParseStep(source, p, i) ==
    LET line == source[i]
        stack == OpenFrames(p.stack, line.indent)
        parent == Last(stack)
        inRaw == parent.node # 0 /\ source[parent.node].kind = "raw"
        badIndent == \/ line.indent % 2 # 0 \/ line.indent > p.indent + 2
                     \/ line.indent > p.indent /\ ~p.open
        siblings == {j \in DOMAIN p.parents : p.parents[j] = <<parent.node, parent.branch>>}
        container == line.kind \in Containers
        Frame(node, branch) == [indent |-> line.indent, node |-> node, branch |-> branch]
        Put(where, frames, open) ==
            [p EXCEPT !.stack = frames, !.indent = line.indent, !.open = open,
                      !.parents = Append(@, where)]
    IN IF ~p.ok THEN p
       ELSE CASE inRaw -> Put(<<parent.node, "text">>, stack, TRUE)
              [] ~inRaw /\ (badIndent \/ line.kind = "unknown") -> [p EXCEPT !.ok = FALSE]
              [] ~inRaw /\ ~badIndent /\ line.kind = "else" ->
                   IF siblings = {} \/ source[Max(siblings)].kind # "if" THEN [p EXCEPT !.ok = FALSE]
                   ELSE Put(<<Max(siblings), "else">>, Append(stack, Frame(Max(siblings), "alternate")), TRUE)
              [] OTHER ->
                   Put(<<parent.node, parent.branch>>,
                       IF container THEN Append(stack, Frame(i, "children")) ELSE stack, container)

parsePuggy(source) ==
    LET after[i \in 0..Len(source)] == IF i = 0 THEN ParseInit ELSE ParseStep(source, after[i - 1], i)
    IN after[Len(source)]

-----------------------------------------------------------------------------
(* renderHtml *)

Sources == [main |-> template, layout |-> module]
Tree == [name \in DOMAIN Sources |-> parsePuggy(Sources[name])]

Nodes(name, node, branch) ==
    LET order == ChildrenOf(Tree[name].parents, node, branch)
    IN [k \in DOMAIN order |-> <<name, order[k]>>]

\* collectBlocks: the blocks at the top of the template; the last of two counts.
Overrides ==
    LET top == ToSet(ChildrenOf(Tree.main.parents, 0, "children"))
    IN {i \in top : template[i].kind = "block"}

\* RenderState: where a node is rendered, and whether blocks of it are replaced.
\* The mixins are one map that all of them share: it is handed on with the output.
Scope(includes, calls, replaces) == [includes |-> includes, calls |-> calls, replaces |-> replaces]
Output(ok, out, mixin) == [ok |-> ok, out |-> out, mixin |-> mixin]
Failed(mixin) == Output(FALSE, <<>>, mixin)
NoMixin == [node |-> <<"main", 0>>, replaces |-> FALSE]

\* What is rendered inside a line, and in which scope.
Body(nodes, scope) == [nodes |-> nodes, scope |-> scope]
BodyOf(id, line, scope, mixin) ==
    LET Inside(branch, where, times) ==
            Body(FlattenSeq([k \in 1..times |-> Nodes(id[1], id[2], branch)]), where)
    IN CASE line.kind = "element" -> Inside("children", scope, 1)
         [] line.kind = "if" -> Inside(IF line.value = 1 THEN "children" ELSE "alternate", scope, 1)
         [] line.kind = "each" -> Inside("children", scope, line.value)
         [] line.kind = "include" -> Body(Nodes("layout", 0, "children"), Scope(TRUE, scope.calls, FALSE))
         [] line.kind = "block" ->
              IF scope.replaces /\ Overrides # {}
              THEN Body(Nodes("main", Max(Overrides), "children"), [scope EXCEPT !.replaces = FALSE])
              ELSE Inside("children", [scope EXCEPT !.replaces = FALSE], 1)
         [] line.kind = "call" ->
              Body(Nodes(mixin.node[1], mixin.node[2], "children"), Scope(scope.includes, TRUE, mixin.replaces))

\* The operators of the walk are given the function that renders what is inside a line.
Ids == {"main", "layout"} \X Nat
Scopes == [includes: BOOLEAN, calls: BOOLEAN, replaces: BOOLEAN]
Mixins == [node: Ids, replaces: BOOLEAN]

RenderBody(render, body, mixin) == render[body.nodes, body.scope, mixin]
Element(id, inner) == [inner EXCEPT !.out = <<id>> \o @]

RenderLine(render, id, line, scope, mixin) ==
    CASE line.kind \in {"text", "expr"} -> Output(TRUE, <<id>>, mixin)
      [] line.kind = "raw" -> Output(TRUE, <<id>> \o Nodes(id[1], id[2], "text"), mixin)
      [] line.kind \in {"omit", "meta", "extends"} -> Output(TRUE, <<>>, mixin)
      [] line.kind = "mixin" -> Output(TRUE, <<>>, [node |-> id, replaces |-> scope.replaces])
      [] line.kind = "element" -> Element(id, RenderBody(render, BodyOf(id, line, scope, mixin), mixin))
      [] OTHER -> RenderBody(render, BodyOf(id, line, scope, mixin), mixin)

RenderNode(render, id, line, scope, mixin) ==
    IF Tree[id[1]].parents[id[2]][2] = "text" THEN Output(TRUE, <<id>>, mixin)
    ELSE IF \/ line.value < 0
            \/ line.kind = "include" /\ (scope.includes \/ ~Tree.layout.ok)
            \/ line.kind = "call" /\ (mixin = NoMixin \/ scope.calls)
         THEN Failed(mixin)
    ELSE RenderLine(render, id, line, scope, mixin)

\* The first failure ends it all.
Joined(done, next, mixin) ==
    IF next.ok THEN Output(TRUE, done.out \o next.out, next.mixin) ELSE Failed(mixin)
RenderNodes(nodes, scope, mixin) ==
    LET render[below \in Seq(Ids), where \in Scopes, known \in Mixins] ==
            FoldLeft(LAMBDA done, id :
                        IF ~done.ok THEN done
                        ELSE Joined(done, RenderNode(render, id, Sources[id[1]][id[2]], where, done.mixin), known),
                     Output(TRUE, <<>>, known), below)
    IN render[nodes, scope, mixin]

\* expandExtends: the layout takes the place of the template, if that is the first
\* thing the template says apart from blocks.
Extends ==
    LET top == {i \in DOMAIN template : Tree.main.parents[i] = <<0, "children">> /\ template[i].kind # "block"}
    IN top # {} /\ template[Min(top)].kind = "extends"

renderHtml ==
    IF ~Tree.main.ok \/ (Extends /\ ~Tree.layout.ok) THEN Failed(NoMixin)
    ELSE RenderNodes(Nodes(IF Extends THEN "layout" ELSE "main", 0, "children"),
                     Scope(FALSE, FALSE, Extends), NoMixin)

-----------------------------------------------------------------------------
(* Templates are written line by line; what is wrong already is not written on. *)

PuggyInit == template = <<>> /\ module \in Layouts

WriteLine(line) ==
    /\ Len(template) < MaxTemplate /\ parsePuggy(template).ok
    /\ template' = Append(template, line)
    /\ UNCHANGED module

PuggyStep == \E line \in Lines : WriteLine(line)

PuggySpec == PuggyInit /\ [][PuggyStep]_puggyVars

-----------------------------------------------------------------------------
(* Properties *)

\* Sources are of lines that can be written.
PuggyTypeOK ==
    /\ module \in Layouts /\ Len(template) <= MaxTemplate
    /\ ToSet(template) \subseteq Lines

\* What the indentation says, without a stack: the lines within a raw element and the
\* nearest line above that is less indented.
InRaw(i) ==
    \E r \in 1..(i - 1) : /\ template[r].kind = "raw"
                          /\ \A j \in (r + 1)..i : template[j].indent > template[r].indent
                          /\ ~\E q \in 1..(r - 1) : /\ template[q].kind = "raw"
                                                    /\ \A j \in (q + 1)..r : template[j].indent > template[q].indent
Above(i) == Max({0} \cup {j \in 1..(i - 1) : template[j].indent < template[i].indent /\ ~InRaw(j)})

\* The list of nodes a line belongs to is that of the line above it or, if that is an
\* else, the alternatives of its if, which is the last node of the list the else is in.
\* A second else goes on with the alternatives of the first.
NodesBefore(list, i) == {j \in 1..(i - 1) : ~InRaw(j) /\ template[j].kind # "else" /\ list[j] = list[i]}
ListOf ==
    LET list[i \in DOMAIN template] ==
            IF Above(i) # 0 /\ template[Above(i)].kind = "else"
            THEN <<Max({0} \cup NodesBefore(list, Above(i))), "alternate">>
            ELSE <<Above(i), "children">>
    IN list
Prior(i) == Max({0} \cup NodesBefore(ListOf, i))

WellWritten(i) ==
    InRaw(i) \/ LET line == template[i] above == Above(i) IN
                /\ line.kind # "unknown"
                /\ IF above = 0 THEN line.indent \in {0, 2}
                   ELSE line.indent = template[above].indent + 2 /\ template[above].kind \in Containers \cup {"else"}
                /\ line.kind = "else" => Prior(i) # 0 /\ template[Prior(i)].kind = "if"

TreePlace(i) ==
    IF InRaw(i) THEN <<Above(i), "text">>
    ELSE IF template[i].kind = "else" THEN <<Prior(i), "else">> ELSE ListOf[i]

\* The tree is the one the indentation shows: a line is inside the nearest less
\* indented line above it, that of an else inside its if, and a source that cannot be
\* read in this way is refused.
ParsedAsIndented ==
    /\ Tree.main.ok <=> \A i \in DOMAIN template : WellWritten(i)
    /\ Tree.main.ok => \A i \in DOMAIN template : Tree.main.parents[i] = TreePlace(i)

\* How often a line is shown, by the lines it is inside of.
Turns(tree) ==
    LET Within[i \in 0..Len(template)] ==
            IF i = 0 THEN 1
            ELSE LET up == tree.parents[i] outer == Within[up[1]] IN
                 IF up[1] = 0 \/ template[up[1]].kind \notin {"each", "if", "omit", "meta", "mixin"} THEN outer
                 ELSE IF template[up[1]].kind = "each" THEN outer * template[up[1]].value
                 ELSE IF template[up[1]].kind = "if"
                      THEN outer * (IF up[2] = "children" THEN template[up[1]].value ELSE 1 - template[up[1]].value)
                 ELSE 0
    IN Within

\* Rendering ends, also where the module includes itself and a mixin calls itself, and
\* a template that is rendered shows each of its texts once for every turn of the
\* loops around it: not at all under a condition that is not met or in what is left out.
ShownByTurns(result, tree) ==
    LET called == \E source \in {template, module} : \E i \in DOMAIN source : source[i].kind = "call"
    IN (result.ok /\ ~Extends /\ ~called) =>
          \A i \in DOMAIN template :
              template[i].kind = "text" \/ tree.parents[i][2] = "text" =>
                  Cardinality({k \in DOMAIN result.out : result.out[k] = <<"main", i>>}) = Turns(tree)[i]
TextsAreShown == ShownByTurns(renderHtml, Tree.main)

\* A Puggy template means what its indentation shows, from parsing to rendered text.
TemplatesMeanTheirLines == ParsedAsIndented /\ TextsAreShown
=============================================================================
