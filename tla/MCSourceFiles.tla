---------------------------- MODULE MCSourceFiles ----------------------------
(***************************************************************************)
(* The source files of a project as they are written: snippets of code are *)
(* put one under another, files are copied, one of them is broken; and the *)
(* duplicates a scan finds in them at any moment.                          *)
(***************************************************************************)
EXTENDS SourceFiles, StaticMetrics, TLC

CONSTANT MaxSnippets    \* bound on the snippets in all files, copies apart

VARIABLES trees,        \* the statements of each file
          written       \* how many snippets were written
vars == <<sources, trees, written>>

\* The normalised tokens of each line, and its token to the model: "a = 1" and
\* "b = 2" are the same to the one and not to the other.
LineTokens ==
    (""      :> <<>>)                    @@ ("# todo"  :> <<>>)
 @@ ("import" :> <<"import", "NAME">>)   @@ ("a = 1"  :> <<"NAME", "=", "NUMBER">>)
 @@ ("b = 2" :> <<"NAME", "=", "NUMBER">>) @@ ("def"  :> <<"def", "NAME", "(", ")", ":">>)
 @@ ("class" :> <<"class", "NAME", ":">>) @@ ("if"    :> <<"if", "NAME", ":">>)
 @@ ("elif" :> <<"elif", "NAME", ":">>)  @@ ("else"   :> <<"else", ":">>)
 @@ ("try" :> <<"try", ":">>)            @@ ("except" :> <<"except", ":", "pass">>)
LineWord ==
    ("" :> 0) @@ ("# todo" :> 1) @@ ("import" :> 2) @@ ("a = 1" :> 3) @@ ("b = 2" :> 5)
 @@ ("def" :> 0) @@ ("class" :> 9) @@ ("if" :> 11) @@ ("elif" :> 12) @@ ("else" :> 13)
 @@ ("try" :> 14) @@ ("except" :> 15)

\* The model: zero for "def", too much for "class", and otherwise the token at its
\* position; a place of padding has the positions of the text.
HiddenState(text, shift, n) ==
    IF n - shift \notin DOMAIN text THEN shift
    ELSE IF text[n - shift] = LineWord["class"] THEN NotFinite
    ELSE text[n - shift] * n

Node(kind, first, last, top) == [kind |-> kind, first |-> first, last |-> last, top |-> top, plain |-> TRUE]
Snippet(lines, nodes, tree) == [lines |-> lines, nodes |-> nodes, tree |-> tree]

Test(values) == [values |-> values]
Leaf == Test(<<>>)
Statement(kind, body) ==
    [kind |-> kind, test |-> Leaf, body |-> body, orelse |-> <<>>, handlers |-> <<>>, params |-> 0]
Simple == Statement("other", <<>>)
Def(params, body) == [Statement("function", body) EXCEPT !.params = params]
If(test, body, orelse) == [Statement("if", body) EXCEPT !.test = test, !.orelse = orelse]
Try(body, handler) == [Statement("try", body) EXCEPT !.handlers = <<Statement("except", handler)>>]

Snippets == {
    Snippet(<<"import">>, {Node("import", 1, 1, TRUE)}, <<Simple>>),
    Snippet(<<"a = 1", "b = 2">>, {Node("other", 1, 1, TRUE), Node("other", 2, 2, TRUE)}, <<Simple, Simple>>),
    Snippet(<<"", "b = 2">>, {Node("other", 2, 2, TRUE)}, <<Simple>>),
    \* a function, with a comment in it
    Snippet(<<"def", "# todo", "a = 1">>, {Node("function", 1, 3, TRUE)}, <<Def(3, <<Simple>>)>>),
    \* a function in a function
    Snippet(<<"def", "def", "b = 2", "a = 1">>, {Node("function", 1, 4, TRUE), Node("function", 2, 3, FALSE)},
            <<Def(1, <<Def(2, <<Simple>>), Simple>>)>>),
    \* a class with a method, and one without
    Snippet(<<"class", "b = 2", "def", "b = 2">>,
            {[Node("class", 1, 4, TRUE) EXCEPT !.plain = FALSE], Node("function", 3, 4, FALSE)},
            <<Statement("class", <<Simple, Def(1, <<Simple>>)>>)>>),
    Snippet(<<"class", "a = 1">>, {Node("class", 1, 2, TRUE)}, <<Statement("class", <<Simple>>)>>),
    \* a function under a condition
    Snippet(<<"if", "def", "a = 1">>, {Node("other", 1, 3, TRUE), Node("function", 2, 3, FALSE)},
            <<If(Leaf, <<Def(0, <<Simple>>)>>, <<>>)>>),
    \* three alternatives, the first under "x and y or z", the last with an empty handler
    Snippet(<<"if", "a = 1", "elif", "b = 2", "else", "try", "b = 2", "except">>, {Node("other", 1, 8, TRUE)},
            <<If(Test(<<Test(<<Leaf, Leaf>>), Leaf>>), <<Simple>>,
                 <<If(Leaf, <<Simple>>, <<Try(<<Simple>>, <<Statement("noop", <<>>)>>)>>)>>)>>)}

\* As installed, padded on the right, and models that are loaded, limited, pooled or
\* padded otherwise.
Service(model, mode, length, limits, pooling, enabled, side) ==
    [model |-> model, mode |-> mode, length |-> length, limits |-> limits,
     pooling |-> pooling, enabled |-> enabled, side |-> side]
Installed == Service("jina", "unset", 3, {8}, {}, {}, "right")
Broken    == Service("other", "mean", 8, {}, {"config"}, {"cls", "mean"}, "right")
SixServices ==
    {Installed, Broken, Service("other", "unset", 8, {2}, {}, {}, "right"),
     Service("other", "unset", 8, {}, {"config"}, {"max"}, "right"),
     Service("codesage", "cls", 4, {8}, {"config"}, {"last_token"}, "left"),
     Service("other", "last_token", 8, {3}, {}, {}, "right")}

Moved(nodes, n) == {[node EXCEPT !.first = @ + n, !.last = @ + n] : node \in nodes}

Init == NothingWritten /\ trees = [f \in Files |-> <<>>] /\ written = 0

Write(f, snippet) ==
    /\ written < MaxSnippets /\ sources[f].parses
    /\ Put(f, [sources[f] EXCEPT !.lines = @ \o snippet.lines,
                                 !.nodes = @ \cup Moved(snippet.nodes, Len(sources[f].lines))])
    /\ trees' = [trees EXCEPT ![f] = @ \o snippet.tree]
    /\ written' = written + 1

Copy(f, g) ==
    /\ f # g /\ <<sources[f], trees[f]>> # <<sources[g], trees[g]>>
    /\ Put(g, sources[f])
    /\ trees' = [trees EXCEPT ![g] = trees[f]]
    /\ UNCHANGED written

Break(f) ==
    /\ sources[f].parses /\ \A g \in Files : sources[g].parses
    /\ Put(f, [sources[f] EXCEPT !.parses = FALSE])
    /\ UNCHANGED <<trees, written>>

Next ==
    \/ \E f \in Files : Break(f) \/ \E snippet \in Snippets : Write(f, snippet)
    \/ \E f, g \in Files : Copy(f, g)

Spec == Init /\ [][Next]_vars

-----------------------------------------------------------------------------
File(f) == [lines |-> sources[f].lines, tree |-> trees[f]]

StaticOf(source) == StaticMetrics(source.tree, source.lines)
Under(f, g)      == [lines |-> f.lines \o g.lines, tree |-> f.tree \o g.tree]

\* Every line of code is a statement.
CoverageOf(source, run) ==
    TestingCoverage(SelectSeq(source.lines, LAMBDA line : Tokens[line] # <<>>), run)

Between(n, a, b) == n \in Min({a, b})..Max({a, b})

\* The metrics of a file (StaticAnalysisLayer.run) are those of the code in it,
\* wherever it stands: of two files put one under another the counts add up, the
\* larger maximum stays and the averages are between theirs, or that of the one
\* with functions; the same code in a function has the same counts and maxima; and
\* as an alternative it goes on with a chain of conditions if it is nothing but one.
CodeCountsWhereverItStands ==
    \A f \in Files :
        LET one == File(f)
            a   == StaticOf(one)
            def == StaticOf([one EXCEPT !.tree = <<Def(0, one.tree)>>])
            alternative == StaticOf([one EXCEPT !.tree = <<If(Leaf, <<Simple>>, one.tree)>>]) IN
        /\ \A metric \in DOMAIN a \ {"parameters"} : def[metric] = a[metric]
        /\ alternative.if_else_chain =
              Max(IF Len(one.tree) = 1 /\ one.tree[1].kind = "if"
                  THEN {a.if_else_chain, 1 + ChainLength(one.tree[1])}
                  ELSE {a.if_else_chain, IF one.tree = <<>> THEN 1 ELSE 2})
        /\ \A g \in Files :
              LET b    == StaticOf(File(g))
                  both == StaticOf(Under(one, File(g))) IN
              /\ \A count \in {"long_conditions", "fixme", "empty_except"} : both[count] = a[count] + b[count]
              /\ both.if_else_chain = Max({a.if_else_chain, b.if_else_chain})
              /\ Between(both.parameters, a.parameters, b.parameters)
              /\ OfKind(Walk(trees[g]), "function") = <<>> => both.parameters = a.parameters
              /\ \A run \in {NoData, {}, {"def", "a = 1"}} :
                    Between(CoverageOf(Under(one, File(g)), run),
                            CoverageOf(one, run), CoverageOf(File(g), run))
=============================================================================
