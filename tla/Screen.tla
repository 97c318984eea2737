------------------------------- MODULE Screen -------------------------------
(***************************************************************************)
(* What the browser draws, and what keys, results and resizes do to it:    *)
(* the keys, overlays and scroll positions of internal/tui/model.go, the   *)
(* drawing of view.go and the prepared documents of document.go, over the  *)
(* tree pane of TreeNav and the lines of Viewport.                         *)
(*                                                                         *)
(* Which request a result answers is Browser.tla; here a result that the   *)
(* model accepts is one for its current mode and width method.             *)
(***************************************************************************)
EXTENDS TreeNav, Viewport

CONSTANTS
    Widths,                      \* of the terminal; Heights are body rows
    Inputs,                      \* for each run, the loads its inputs may give
    HelpLines,
    Rune,                        \* what lines and paths are made of
    minWidth, splitWidth, treeMin, treeMax, horizontalStep,
    maxPromptDigits, Digits, maxNodeID

VARIABLES
    width, height,
    session,       \* m.session # nil
    loading,
    inputs,        \* the loads that reading the inputs may give
    loaded,        \* the installed one: [nodes, path, texts, changes]
    pending, failure,
    focus, mode, overlay,
    prompt,        \* the digits typed
    shown,         \* m.doc or m.cmp, whichever is set
    scrollY, scrollX, overlayY, overlayX,
    method

sizeVars == <<width, height>>
loadVars == <<session, loading, inputs, loaded>>
askVars == <<pending, failure>>
scrollVars == <<scrollY, scrollX>>
overlayVars == <<overlayY, overlayX>>
screenVars == <<navVars, sizeVars, loadVars, askVars, focus, mode, overlay, prompt, shown,
                scrollVars, overlayVars, method>>

chromeRows == 3
minHeight == 4

\* A load has a tree, the path among its arguments, the lines of its states, and
\* the hunks from one state to another.
AnyText == Seq(Seq(Rune))
IsChange(c) ==
    /\ c.from \in AnyText /\ c.to \in AnyText
    /\ c.hunks \in Seq(Seq([op : {" ", "-", "+"}, number : Nat]))
    /\ \A h \in DOMAIN c.hunks : \A i \in DOMAIN c.hunks[h] :
           LET l == c.hunks[h][i] IN l.number \in DOMAIN (IF l.op = "+" THEN c.to ELSE c.from)
ASSUME ScreenAssumption ==
    /\ Widths \subseteq Nat
    /\ {minWidth, splitWidth, treeMin, treeMax, horizontalStep} \subseteq Nat
    /\ HelpLines \in AnyText \ {<<>>}
    /\ {l.nodes : l \in UNION Inputs} \subseteq Orders
    /\ \A l \in UNION Inputs :
           /\ l.path \in Seq(Rune) /\ l.texts \subseteq AnyText
           /\ \A c \in l.changes : IsChange(c)

Least(a, b) == IF a < b THEN a ELSE b
Most(a, b) == IF a < b THEN b ELSE a
Clamp(x, low, high) == Least(Most(x, low), high)

-----------------------------------------------------------------------------
(* Prepared results. *)

Nothing == [mode |-> "none"]

\* prepareDocument: each long line with its columns.
Prepared(text, m) ==
    [lines |-> text, columns |-> [i \in DOMAIN text |-> ColumnsOf(text[i], m)]]

\* newComparison: a header row for each hunk, then its lines.
RowsOf(hunks) ==
    LET upto[i \in 0..Len(hunks)] == IF i = 0 THEN 0 ELSE upto[i-1] + 1 + Len(hunks[i])
    IN upto
Starts(hunks) == [i \in DOMAIN hunks |-> RowsOf(hunks)[i-1]]

Previews == {[mode |-> "preview", doc |-> Prepared(t, method)] : t \in loaded.texts}
Comparisons ==
    {[mode |-> "compare", from |-> Prepared(c.from, method), to |-> Prepared(c.to, method),
      hunks |-> c.hunks, starts |-> Starts(c.hunks),
      rows |-> RowsOf(c.hunks)[Len(c.hunks)]] : c \in loaded.changes}

\* row: the hunk that holds a display row, and the line in it, 0 for its header.
Row(c, r) ==
    LET hunk == Max({i \in DOMAIN c.starts : c.starts[i] <= r})
    IN [hunk |-> hunk, line |-> r - c.starts[hunk]]

\* The line and columns drawn in a content row, and its sign.
Header == [sign |-> "@", line |-> <<>>, columns |-> NoColumns]
LineOf(doc, i, sign) == [sign |-> sign, line |-> doc.lines[i], columns |-> doc.columns[i]]
ContentRow(content, r) ==
    IF content.mode = "preview" THEN LineOf(content.doc, r + 1, " ")
    ELSE LET at == Row(content, r)
             l == content.hunks[at.hunk][at.line]
         IN IF at.line = 0 THEN Header
            ELSE LineOf(IF l.op = "+" THEN content.to ELSE content.from, l.number, l.op)

-----------------------------------------------------------------------------
(* Sizes. *)

bodyRows(h) == Most(h - chromeRows, 0)
contentRows == Most(rows - 1, 0)
treeWidth == Clamp(width \div 3, treeMin, treeMax)
contentWidth == IF width >= splitWidth THEN width - treeWidth - 1 ELSE width

\* contentLen: a result of the other mode is not scrolled.
contentLen ==
    IF shown.mode # mode THEN 0
    ELSE IF mode = "preview" THEN Len(shown.doc.lines) ELSE shown.rows

DigitsOf(n) == Cardinality({k \in 0..5 : 10 ^ k <= n})
gutterWidth == IF mode = "compare" THEN 1 ELSE DigitsOf(Most(contentLen, 1)) + 1
textWidth == Most(contentWidth - gutterWidth, 0)

\* exportLines: the command has the inputs' arguments, quoted for a shell.
ExportLine == <<" ">> \o ShellQuote(loaded.path) \o <<" ", "\\">>
ExportLines == IF session THEN <<<<"a">>, <<>>, ExportLine, <<"a">>>> ELSE <<<<"a">>>>
overlayLines ==
    CASE overlay = "help" -> HelpLines [] overlay = "export" -> ExportLines [] OTHER -> <<>>
overlayLength ==
    CASE overlay = "help" -> Len(HelpLines)
      [] overlay = "export" -> IF session THEN 4 ELSE 1
      [] OTHER -> 0

\* The widest line that scrollOverlay stops at.
widestOverlay == Max({0} \cup {Width(line, NoColumns, method) : line \in Range(overlayLines)})

\* widestContent: of the rows on screen, without the headers.
RowsFrom(y, count, len) == y .. Least(y + count, len) - 1
WidestOf(content, visible, m) ==
    Max({0} \cup {Width(l.line, l.columns, m) : l \in {ContentRow(content, r) : r \in visible}})
VisibleRows == RowsFrom(scrollY, contentRows, contentLen)
widestContent == WidestOf(shown, VisibleRows, method)

-----------------------------------------------------------------------------
(* settle and clampSideways, on the new values of everything else. *)

SettleTop == top' = Settled(folds', selected', top, rows')
SettleY(y) == scrollY' = Clamp(y, 0, Most(contentLen' - contentRows', 0))
SettleOverlay(y) == overlayY' = Clamp(y, 0, Most(overlayLength' - rows', 0))

\* settle leaves the sideways scroll alone but for a step left of the start.
Settle(y) == SettleY(y) /\ SettleOverlay(overlayY) /\ UNCHANGED overlayX
ClampSideways(x) ==
    scrollX' = Least(x, Most(WidestOf(shown', VisibleRows', method') - textWidth', 0))

-----------------------------------------------------------------------------
(* request: pending once a session is there and no load is outstanding. *)
Ask == failure' = FALSE /\ pending' = (session' /\ ~loading')

ScreenInit ==
    /\ inputs \in Inputs /\ loaded \in inputs      \* no session: none of them yet
    /\ nodes = loaded.nodes /\ index = Index(nodes) /\ folds = {} /\ selected = 0
    /\ top = 0 /\ rows = 0 /\ width = 0 /\ height = 0
    /\ session = FALSE /\ loading = TRUE
    /\ pending = FALSE /\ failure = FALSE
    /\ focus = "tree" /\ mode = "preview" /\ overlay = "none" /\ prompt = <<>>
    /\ shown = Nothing /\ scrollY = 0 /\ scrollX = 0 /\ overlayY = 0 /\ overlayX = 0
    /\ method = "runes"

\* Fault: a new size does not bring the sideways scroll back.
WindowSizeUnclamped(w, h) ==
    /\ width' = w /\ height' = h
    /\ Resize(bodyRows(h))
    /\ UNCHANGED <<loadVars, askVars, focus, mode, overlay, prompt, shown, method>>
    /\ Settle(scrollY) /\ UNCHANGED scrollX

WindowSize(w, h) ==
    /\ width' = w /\ height' = h
    /\ Resize(bodyRows(h))
    /\ UNCHANGED <<loadVars, askVars, focus, mode, overlay, prompt, shown, method>>
    /\ Settle(scrollY) /\ ClampSideways(scrollX)

\* report: what is on screen was measured the old way.
ReportMode ==
    /\ method = "runes" /\ method' = "clusters"
    /\ shown' = Nothing
    /\ UNCHANGED <<navVars, sizeVars, loadVars, focus, mode, overlay, prompt, scrollVars,
                   overlayVars>>
    /\ Ask

-----------------------------------------------------------------------------
(* accept. *)

\* install: another tree, at the reference or the position of the same ID.
AcceptLoad(load) ==
    /\ loading
    /\ session' = TRUE /\ loading' = FALSE /\ loaded' = load
    /\ nodes' = load.nodes /\ index' = Index(nodes') /\ folds' = {}
    /\ LET same == {p \in 0..Len(load.nodes) - 1 : session /\ load.nodes[p + 1][1] = Id(selected)}
       IN selected' \in IF same = {} THEN 0..Len(load.nodes) - 1 ELSE same
    /\ UNCHANGED <<rows, sizeVars, inputs, focus, mode, overlay, prompt, method>>
    /\ top' = Settled(folds, selected, 0, rows)'
    /\ Ask
    /\ shown' = Nothing /\ scrollX' = 0 /\ Settle(0)

AcceptNoReload ==
    /\ loading /\ session
    /\ loading' = FALSE
    /\ UNCHANGED <<navVars, sizeVars, session, inputs, loaded, focus, mode, overlay, prompt, shown,
                   scrollVars, overlayVars, method>>
    /\ Ask

AcceptFailure ==
    /\ pending
    /\ pending' = FALSE /\ failure' = TRUE
    /\ UNCHANGED <<navVars, sizeVars, loadVars, focus, mode, overlay, prompt, shown,
                   scrollVars, overlayVars, method>>

\* Fault: the new content is not settled.
AcceptUnsettled(content) ==
    /\ pending /\ content.mode = mode
    /\ pending' = FALSE /\ shown' = content
    /\ UNCHANGED <<navVars, sizeVars, loadVars, failure, focus, mode, overlay, prompt, scrollVars,
                   overlayVars, method>>

AcceptContent(content) ==
    /\ pending /\ content.mode = mode
    /\ pending' = FALSE /\ shown' = content
    /\ UNCHANGED <<nodes, index, folds, selected, rows, sizeVars, loadVars, failure, focus, mode,
                   overlay, prompt, method>>
    /\ SettleTop
    /\ Settle(scrollY) /\ ClampSideways(scrollX)

-----------------------------------------------------------------------------
(* key: the prompt takes every key, then an open overlay, then the panes. *)

Overlaid == overlay \in {"help", "export"}
PaneKey == session /\ overlay = "none"

\* toggle, for ? anywhere and e where a session or an overlay is.
Toggle(o) ==
    /\ overlay # "prompt"
    /\ o = "help" \/ Overlaid \/ session
    /\ IF overlay = o
       THEN overlay' = "none" /\ UNCHANGED overlayVars
       ELSE overlay' = o /\ overlayY' = 0 /\ overlayX' = 0
    /\ UNCHANGED <<navVars, sizeVars, loadVars, askVars, focus, mode, prompt, shown, scrollVars,
                   method>>

Esc ==
    /\ overlay # "none"
    /\ overlay' = "none"
    /\ UNCHANGED <<navVars, sizeVars, loadVars, askVars, focus, mode, prompt, shown, scrollVars,
                   overlayVars, method>>

\* scrollOverlay stops once the end of the widest line is in view.
ScrollOverlay ==
    /\ Overlaid
    /\ \E at \in LET page == Most(rows, 1)
                IN {<<y, overlayX>> : y \in {overlayY - 1, overlayY + 1, overlayY - page,
                                            overlayY + page, 0, overlayLength}}
                   \cup {<<overlayY, overlayX + step>> : step \in {-horizontalStep, horizontalStep}} :
         /\ overlayY' = Clamp(at[1], 0, Most(overlayLength - rows, 0))
         /\ overlayX' = Clamp(at[2], 0, Most(widestOverlay - width, 0))
    /\ UNCHANGED <<navVars, sizeVars, loadVars, askVars, focus, mode, overlay, prompt, shown,
                   scrollVars, method>>

SwitchPane ==
    /\ PaneKey
    /\ focus' = IF focus = "tree" THEN "content" ELSE "tree"
    /\ UNCHANGED <<navVars, sizeVars, loadVars, askVars, mode, overlay, prompt, shown,
                   scrollVars, overlayVars, method>>

Show(m) ==
    /\ PaneKey /\ m # mode
    /\ mode' = m
    /\ scrollY' = 0 /\ scrollX' = 0
    /\ UNCHANGED <<navVars, sizeVars, loadVars, focus, overlay, prompt, shown, overlayVars,
                   method>>
    /\ Ask

\* pin asks again for a comparison.
Pin ==
    /\ PaneKey /\ mode = "compare"
    /\ UNCHANGED <<navVars, sizeVars, loadVars, focus, mode, overlay, prompt, shown, scrollVars,
                   overlayVars, method>>
    /\ Ask

Reload ==
    /\ PaneKey /\ ~loading
    /\ loading' = TRUE /\ pending' = FALSE /\ failure' = FALSE
    /\ shown' = Nothing
    /\ UNCHANGED <<navVars, sizeVars, session, inputs, loaded, focus, mode, overlay, prompt, scrollVars,
                   overlayVars, method>>

\* A tree key that selects another row asks for it; that and a fold settle.
TreeKey ==
    /\ PaneKey /\ focus = "tree"
    /\ \/ KeyUp \/ KeyDown \/ KeyPageUp \/ KeyPageDown \/ KeyHome \/ KeyEnd \/ KeyLeft \/ KeyRight
    /\ UNCHANGED <<sizeVars, loadVars, focus, mode, overlay, prompt, shown, scrollX, method>>
    /\ IF selected' # selected THEN Ask ELSE UNCHANGED askVars
    /\ IF selected' # selected \/ folds' \ folds # {} THEN Settle(scrollY) ELSE UNCHANGED <<scrollY, overlayVars>>

\* contentKey: the sideways keys measure the rows on screen before they settle.
ContentKey ==
    /\ PaneKey /\ focus = "content"
    /\ UNCHANGED <<nodes, index, folds, selected, rows, sizeVars, loadVars, askVars, focus, mode,
                   overlay, prompt, shown, method>>
    /\ LET page == Most(contentRows, 1)
           most == Most(widestContent - textWidth, 0)
       IN \/ /\ \E y \in {scrollY - 1, scrollY + 1, scrollY - page, scrollY + page, 0, contentLen} : Settle(y)
             /\ UNCHANGED scrollX
          \/ /\ scrollX' \in {Most(scrollX - horizontalStep, 0), Least(scrollX + horizontalStep, most),
                              0, most}
             /\ Settle(scrollY)
    /\ SettleTop

-----------------------------------------------------------------------------
(* The prompt for a node ID. *)

OpenPrompt ==
    /\ PaneKey
    /\ overlay' = "prompt" /\ prompt' = <<>>
    /\ UNCHANGED <<navVars, sizeVars, loadVars, askVars, focus, mode, shown, scrollVars,
                   overlayVars, method>>

PromptKey ==
    /\ overlay = "prompt"
    /\ \/ /\ prompt # <<>>
          /\ prompt' = Front(prompt)
       \/ /\ Len(prompt) < maxPromptDigits
          /\ \E d \in Digits : prompt' = Append(prompt, d)
    /\ UNCHANGED <<navVars, sizeVars, loadVars, askVars, focus, mode, overlay, shown, scrollVars,
                   overlayVars, method>>

PromptValue == FoldLeft(LAMBDA n, d : 10 * n + d, 0, prompt)
Known == prompt # <<>> /\ PromptValue <= maxNodeID /\ \E p \in Positions : Id(p) = PromptValue

\* jump: an unknown ID leaves everything where it was.
EnterPrompt ==
    /\ overlay = "prompt"
    /\ overlay' = "none"
    /\ UNCHANGED <<sizeVars, loadVars, focus, mode, prompt, shown, scrollX, method>>
    /\ IF Known
       THEN /\ Jump(PromptValue)
            /\ IF selected' # selected THEN Ask ELSE UNCHANGED askVars
            /\ Settle(scrollY)
       ELSE UNCHANGED <<navVars, askVars, scrollY, overlayVars>>

-----------------------------------------------------------------------------
ScreenNext ==
    \/ \E w \in Widths, h \in {r + chromeRows : r \in Heights} \cup {0, 1} : WindowSize(w, h)
    \/ ReportMode
    \/ \E load \in inputs : AcceptLoad(load)
    \/ AcceptNoReload \/ AcceptFailure
    \/ \E content \in Previews \cup Comparisons : AcceptContent(content)
    \/ \E o \in {"help", "export"} : Toggle(o)
    \/ Esc \/ ScrollOverlay
    \/ SwitchPane \/ \E m \in {"preview", "compare"} : Show(m)
    \/ Pin \/ Reload \/ TreeKey \/ ContentKey
    \/ OpenPrompt \/ PromptKey \/ EnterPrompt

ScreenSpec == ScreenInit /\ [][ScreenNext]_screenVars

-----------------------------------------------------------------------------
(* render: the rows of a frame and the cells each takes. *)

\* contentLines: the rows from scrollY on, through their columns if they have any.
DrawnRows == IF session /\ ~loading /\ ~failure THEN VisibleRows ELSE {}
DrawnRow(r) ==
    LET l == ContentRow(shown, r) IN Clip(l.line, l.columns, method, scrollX, textWidth)

\* renderTree: rows from the top one on, until there is none.
TreeRows == [i \in 1..rows |-> Down(folds, top, i - 1)]

ContentCells(i) ==
    LET r == scrollY + i - 2
    IN IF i = 1 \/ r \notin DrawnRows THEN contentWidth
       ELSE gutterWidth + Most(textWidth, DrawnRow(r).cells)
BodyCells(i) ==
    IF ~Overlaid /\ width >= splitWidth THEN treeWidth + 1 + ContentCells(i)
    ELSE IF ~Overlaid /\ focus = "content" THEN ContentCells(i)
    ELSE width

Frame ==
    IF width < minWidth \/ height < minHeight
    THEN [i \in 1..Least(height, 2) |-> width]
    ELSE <<width>> \o [i \in 1..rows |-> BodyCells(i)] \o <<width, width>>

-----------------------------------------------------------------------------
(* Properties. *)

\* The rows of a result one after another: a preview's lines, or each hunk's
\* header and then its lines, taken from the side that has them.
AllRows ==
    IF shown.mode = "preview" THEN shown.doc.lines
    ELSE FlattenSeq([h \in DOMAIN shown.hunks |->
             <<<<>>>> \o [i \in DOMAIN shown.hunks[h] |->
                 LET l == shown.hunks[h][i]
                 IN (IF l.op = "+" THEN shown.to ELSE shown.from).lines[l.number]]])

\* What is drawn of the content is the window of its rows that the scroll
\* positions name, whether or not a row has columns and whichever characters
\* its edges cut; the renderer finds it as wide as the viewport did; no tab,
\* control or format character is in it; and the frame always has the
\* terminal's size.
DrawnIsTheWindow ==
    /\ \A row \in {[line |-> AllRows[r + 1], drawn |-> DrawnRow(r)] : r \in DrawnRows} :
         /\ row.drawn.text = Window(row.line, method, scrollX, textWidth)
         /\ row.drawn.cells = RenderedWidth(row.drawn.text, method)
         /\ \A rune \in Range(row.drawn.text) : rune # Tab /\ Readable(rune)
    /\ Range(Frame) \subseteq {width}
    /\ IF width >= minWidth /\ height >= minHeight THEN Len(Frame) = height ELSE Len(Frame) <= height

\* No key, result, reload or resize leaves the content scrolled past its last
\* row, however much of it there was before, nor an overlay past its last line.
\* Sideways, settle only keeps what is left of the start away: the content is
\* OpensOnText's, the overlay OverlayStaysOnText's.
ScrollInRange ==
    /\ scrollY >= 0 /\ scrollX >= 0 /\ overlayX >= 0
    /\ shown.mode = mode => scrollY <= Most(contentLen - contentRows, 0)
    /\ Overlaid => overlayY \in 0..Most(overlayLength - rows, 0)

\* What the comment of settle says of every scroll position, for the sideways
\* one of an overlay: within the range that scrollOverlay gives it, whenever
\* it is drawn. The code's settle leaves it alone, so a wider terminal breaks it.
OverlayStaysOnText ==
    Overlaid /\ width >= minWidth /\ height >= minHeight =>
        overlayX <= Most(widestOverlay - width, 0)

\* A result or a new size never leaves the sideways scroll past all the text on
\* screen, although another state was there, or more lines, when it was set.
OpensOnText ==
    [][shown' # Nothing /\ (shown' # shown \/ width' # width \/ height' # height) =>
        scrollX' = 0 \/ scrollX' + textWidth' <= WidestOf(shown', VisibleRows', method')]_screenVars

\* The argument that the export overlay shows is the path, for a shell that
\* reads what is on screen, whatever the path is made of.
ExportReadsBack ==
    overlay = "export" /\ session =>
        LET drawn == Clip(ExportLine, NoColumns, method, 0, Width(ExportLine, NoColumns, method)).text
        IN ShellReads(SubSeq(drawn, 2, Len(drawn) - 2)) = loaded.path
=============================================================================
