------------------------------ MODULE MCScreen ------------------------------
(* Three families of inputs: the tree pane alone over every ordered tree of  *)
(* six and seven states; single lines scrolled sideways, every one of up to  *)
(* three runes and longer ones of the runes that join; and small histories   *)
(* with every key, reload and size.                                          *)
EXTENDS Screen

\* The orders of n + 1 states: each comes after its parent and its parent's
\* earlier branches.  Numbers are given against the order, as undo may.
Preorders[n \in Nat] ==
    IF n = 0 THEN {<<NoParent>>}
    ELSE UNION {{Append(o, p) : p \in
            {q \in 0..n-1 : q = n-1 \/ \E k \in 1..n-1 :
                LET up[i \in Nat] == IF i = 0 THEN n-1 ELSE IF up[i-1] = NoParent THEN NoParent ELSE o[up[i-1] + 1]
                IN up[k] = q}} : o \in Preorders[n-1]}
Number(p, n) == IF p <= 0 THEN 0 ELSE n + 1 - p
TreesOf(n) == {[i \in DOMAIN o |-> <<Number(i - 1, Len(o)), Number(o[i], Len(o))>>] : o \in Preorders[n]}

Load(tree, path, texts, changes) == [nodes |-> tree, path |-> path, texts |-> texts, changes |-> changes]
Twig == <<<<0, 0>>, <<1, 0>>>>

TreeInputs == {{Load(t, <<"a">>, {}, {})} : t \in TreesOf(5) \cup TreesOf(6)}

Runes == {"a", Tab, Wide, Mark, Spacing, Symbol, Selector, Joiner, Control}
MCRune == Runes \cup {"'", "\\"}
Lines == SeqOf(Runes, 3) \cup SeqOf({Symbol, Mark, Joiner}, 4)
LineInputs == {{Load(<<<<0, 0>>>>, <<"a">>, {<<l>>}, {})} : l \in Lines}

\* A deletion and an insertion around what stays, and another insertion.
Change ==
    [from |-> <<<<Tab, Wide>>, <<"a">>>>, to |-> <<<<"a">>, <<Control, "a">>, <<>>>>,
     hunks |-> <<<<[op |-> "-", number |-> 1], [op |-> " ", number |-> 2]>>,
                 <<[op |-> "+", number |-> 2], [op |-> "+", number |-> 3]>>>>]
Identical == [from |-> <<<<>>>>, to |-> <<<<>>>>, hunks |-> <<>>]
Small == Load(Twig, <<"a">>, {Change.from, <<<<>>>>}, {Change, Identical})
Other == Load(<<<<0, 0>>>>, <<"a">>, {Change.to}, {})
PaneInputs == {{Small, Other}}

\* Paths of up to three runes.
PathInputs == {{Load(<<<<0, 0>>>>, p, {}, {})} : p \in SeqOf({"a", "'", "\\", Mark, Wide, Control}, 3)}

MCInputs == TreeInputs \cup LineInputs \cup PaneInputs \cup PathInputs
MCOrders == {l.nodes : l \in UNION MCInputs}
MCHelpLines == <<<<"a", "a", "a", "a", "a", "a">>, <<"a">>>>

\* The family of a behaviour.
Panes == Cardinality(inputs) = 2
Trees == Len(loaded.nodes) > 4
Sideways == ~Panes /\ loaded.texts # {}
Exports == ~Trees /\ loaded.texts = {}
Overlays == Exports /\ loaded.path = <<"a">>

\* The families but the last begin with their load installed, the lines in the
\* content pane of a terminal of five rows.
MCInit ==
    \/ ScreenInit /\ (Panes \/ Overlays)
    \/ /\ inputs \in MCInputs \ PaneInputs /\ loaded \in inputs /\ session = TRUE /\ loading = FALSE
       /\ nodes = loaded.nodes /\ index = Index(nodes) /\ folds = {} /\ selected \in Positions
       /\ rows \in (IF Trees THEN Heights ELSE {2})
       /\ top = Settled({}, selected, 0, rows)
       /\ width \in (IF Sideways THEN Widths ELSE {Max(Widths)}) /\ height = rows + chromeRows
       /\ pending = TRUE /\ failure = FALSE
       /\ focus = (IF Sideways THEN "content" ELSE "tree")
       /\ mode = "preview" /\ overlay = "none" /\ prompt = <<>>
       /\ shown = Nothing /\ scrollY = 0 /\ scrollX = 0 /\ overlayY = 0 /\ overlayX = 0
       /\ method \in (IF Trees THEN {"runes"} ELSE Methods)

\* The sizes of the panes' terminal: too small in each direction, one pane and
\* two, with one to three rows for them.
Sizes == {<<0, 0>>, <<4, 5>>, <<9, 3>>, <<9, 4>>, <<9, 6>>}

MCNext ==
    \/ /\ Trees
       /\ NavNext
       /\ height' = rows' + chromeRows
       /\ UNCHANGED <<width, loadVars, askVars, focus, mode, overlay, prompt, shown, scrollVars,
                      overlayVars, method>>
    \/ /\ Sideways
       /\ \/ \E content \in Previews : AcceptContent(content)
          \/ ContentKey
    \/ Exports /\ Toggle("export")
    \/ /\ Panes \/ Overlays
       /\ ScreenNext
       /\ <<width', height'>> \in Sizes /\ (Panes => overlay' \in {"none", "prompt"})
MCSpec == MCInit /\ [][MCNext]_screenVars

\* The overlays of a session in a terminal that has told its size.
OverlaySpec == MCInit /\ session = TRUE /\ Overlays /\ [][MCNext]_screenVars
=============================================================================
