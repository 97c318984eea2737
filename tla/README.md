# A verification of xunhen

xunhen reads the undo file that Neovim keeps for a source file, verifies it
against the source, and shows any state of the undo tree, interactively or as a
command. It writes nothing but its output. Three things have to be right: what
is shown under the number of a state is the text Neovim had in that state; a
file that changes while it is read, or that belongs to another version of the
source, is refused instead of shown; and the interactive browser, which works on
a second goroutine, never shows the answer to one question under the name of
another.

The modules here model the program as it is written, one module per component;
the `MC*` modules and `.cfg` files check them with TLC;
`BrowserProofs`, `SessionProofs`, `CommandProofs`, `SearchProofs`, `UndofileProofs`,
`HistoryProofs` and `DiffProofs` hold proofs that TLAPS checks, with `Foundations` for the
mathematics they share. `PROJECT.json` maps each definition to the lines it
models and lists the hazards that the properties are for.

Contents: [the system](#the-system), [modules](#the-modules),
[runs](#the-runs), [fairness](#fairness), [proofs](#what-is-proved),
[what is left out](#what-is-not-modelled), [the plan](#the-plan).

## The system

### Components

| Component | State | Operations | What makes it correct |
|---|---|---|---|
| background worker, `tui/worker.go` | a pending request, the cancel function of the running one, `closed`; a wake-up channel of one place, a channel of results without a buffer | `submit`, `next`, `close`, `loop`, `run` | the newest request is always started, no answer is lost, repeated or overtaken, the running request is cancelled exactly when it is superseded, `close` returns |
| browser model, `tui/model.go`, `view.go` | the session, two generations (`load`, `selection`), selection, origin, mode, width method, what is shown, `pending`, `loading`, failures; size, focus, overlay, prompt, scroll positions | keys, `report`, `accept`, `request`, `startLoad`, `install`, `show`, `pin`; resizes, drawing | nothing stale is accepted, nothing is labelled as another state, the browser never waits for an answer that does not come; what is drawn is the window that the scroll positions name, and these stay on what there is to show |
| request engine, `tui/session.go`, `document.go` | the width method in use, the cache | `perform`, `document`, `preview`, `compare` | the answer holds what the request asked for |
| document cache, `tui/cache.go` | map, list in order of use, charge, owner | `get`, `put`, `reset` | map, list and charge agree; nothing of an earlier load is found; the newest documents stay |
| tree navigation, `tui/tree.go` and the tree keys | index by row, folds, selection, first row | index, next, previous, last, shown, reveal; the keys; `settle` | rows are the visible nodes in order; the selection stays drawn and on screen |
| browser run, `tui/run.go` | the program, the relay of signals, the outcome | `Run`, `relay` | exit code and close in every order of ending and signals |
| history validation, `history/history.go` | the four passes over the records | `New`, `Info`, `At`, `Reference` | accepts exactly the ordered trees; the reference is the state of the source |
| replay, `history/replay.go` | marks, path, workspace | `Bind`, `Reconstruct` | the snapshot of a state is the text the editor had there |
| chunked text, `history/text.go` | chunks of lines that share arrays | `find`, `replace`, `replaceWithin`, `bytesIn` | equals a flat sequence of lines |
| undo file decoding, `undofile` | a reader with a sticky error, counters of entries and lines | `Decode` and its records | exactly the well-formed files within the limits are decoded; lengths are bounded before they are used |
| base verification, `undofile/base.go` | the hash and its buffer | `PrepareBase`, `Verify` | only the text the history was written for becomes a base |
| input files, `input/input.go` | an open file and what was read | `Read`, change detection | what is read is one version of one file |
| discovery, `discover` | directories held, candidates looked up, the histories kept, the byte budget | `Search`, `recheck`, the two choices, `Resolve` | the result does not depend on the order of directories; nothing left unread is called absent; a source has the name of the file it leads to |
| load coordination, `cmd/xunhen/load.go` | - | order of reads, searches and checks | the history shown is of the source shown |
| line diff, `diff` | a stack of regions, the effort spent, the script and hunks under construction | `Lines` | the hunks turn one text into the other, minimal while the effort lasts; every comparison ends |
| limits, `limits` | constants | - | - |
| terminal text, `termtext`, `tui/text.go` | a column index for each long line | escaping, widths, `Seek`, `Clip`, quoting | the cells cut from a line are those the renderer draws, wherever the cut; a quoted path reads back |
| commands, `cmd/xunhen` | options, an output buffer | arguments, load, replay, output, diagnostics | arguments are read as documented; status 0 promises the whole output, a failure prints none; a raw export reads back |

Tests' helpers (`pty`, `synth`) and the tooling (`tools/`, `packaging/`, `nix/`,
`.github/`) are not part of the program.

### How they interact

    Neovim ──writes──▶ undo file ──decode──▶ records ──New──▶ history ──Bind──▶ replay
                                                  ▲                           │ Reconstruct
    source file ──read, hash, verify──────────────┘                           ▼
                                                      engine ◀──────── chunked text
    keys, resize, signals ──▶ model ──submit──▶ worker ──perform──▶ engine ──▶ cache
                                ▲                  │
                                └──── next ────────┘

The model runs in Bubble Tea's update loop, one message at a time. It talks to
the worker's goroutine through `submit`, which replaces the pending request and
cancels the running one, and through a command that blocks in `next` and brings
one result back as a message. Between a request and its result the user goes on
pressing keys, so every result carries the generations it was asked under. The
history and the records are immutable once loaded and shared by both; the cache
belongs to the worker's goroutine alone. A signal reaches the program through a
relay goroutine. The file system is shared with Neovim, which rewrites both
files as the user saves.

### What is hard

* Interleavings of the update loop, the worker, `close` and the reader of
  results (`worker.go`): lost wake-ups, a cancel function installed for one
  request and called for another, a result nobody receives.
* Answers that arrive late (`model.go`): after another selection, mode, pin,
  reload, failed reload or change of width method, or after several.
* The end of the program (`run.go`): signals, keys, a fatal result and a failing
  terminal at once, with a relay goroutine that must not block and not be left.
* Positions that outlive what they were set for: folds, the first row and the
  scroll positions after a reload, another state or another size (`model.go`).
* Lines whose characters join or are cut by an edge of the pane (`viewport.go`).
* Files that change between two reads (`input.go`, `load.go`, `search.go`).
* Output that fails after a part of it is out (`cmd/xunhen`).
* Long sequences of legal steps: undo trees after branch switches, pruning and
  undo-and-forget; chunks after many edits; a cache after many evictions.
* Boundaries: empty buffers, the dummy line, ranges at the end, limits.

`PROJECT.json` lists these as hazards, each at its line, with the properties
that would catch it.

## The modules

| Module | Models | Built on |
|---|---|---|
| `Mailbox` | what the browser may assume of its worker | |
| `Worker`, `MCWorker` | `worker.go` | implements `Mailbox` |
| `Browser`, `MCBrowser` | `model.go`, `session.go`, parts of `view.go`, `run.go`: what is asked for, accepted and labelled | `Mailbox` |
| `BrowserProofs` | theorems about `Browser` and `Worker` | both |
| `Program`, `MCProgram` | `Run` and `relay` of `run.go`, `browse.go`: how the browser ends | |
| `TreeNav` | `tree.go`, the tree keys of `model.go` | |
| `Viewport` | `termtext`, `tui/text.go` | |
| `Screen`, `MCScreen` | `view.go`, the rest of `model.go`, `document.go`: what is drawn | `TreeNav`, `Viewport` |
| `Cache` | `cache.go` | |
| `Text` | `history/text.go` | |
| `MCDocuments` | runs of `History`, `Cache` and `Text` | all three |
| `SessionProofs` | theorems about `Program`, `Cache`, `Text` and `Screen`: what one session of the browser stands on | these and `Foundations` |
| `Editor` | Neovim's undo tree; external | |
| `History` | `history.go` | |
| `Replay` | `replay.go` | `History` |
| `Reader`, `MCReader` | an undo file from the editor to a snapshot | `Editor`, `Replay` |
| `HistoryProofs` | theorems about `History`, `Replay` and `Reader` | `Reader`, `Foundations` |
| `Diff`, `MCDiff` | `diff/search.go`, `diff/diff.go` | |
| `DiffProofs` | theorems about `Diff` | `Diff`, `Foundations` |
| `DiskText` | a text as a file: `cmd/xunhen/input.go`, raw export of `show.go` | |
| `Base` | `undofile/base.go` | `DiskText` |
| `Decode`, `MCDecode` | `decode.go`, `v3.go`; the runs of `Base` too | |
| `UndofileProofs` | theorems about `Decode` and `Base` | both, `Foundations` |
| `Names` | `discover/name.go` | |
| `Search`, `MCSearch` | `search.go`, `choose.go`, lookup and recheck of `input.go`; the runs of `Names` too | |
| `SearchProofs` | theorems about `Search` | `Search`, `Foundations` |
| `Load` | `load.go`, the reads of `input.go` | |
| `Foundations` | for the proofs: induction over the natural numbers, parts of sequences, sequences without repetition, sequences put behind each other | |
| `Arguments` | `args.go` and the flags of each command | |
| `Commands`, `MCCommands` | `cmd/xunhen` from arguments to exit status | `Load`, `Arguments`, `DiskText` |
| `CommandProofs` | theorems about `Load` and `Commands` | `Commands`, `Foundations` |

Operators named after a fault (`SubmitWithoutCancel`, `AcceptUnsettled`, ...) are
not part of any specification. Each stands before the definition it is a broken
form of, and shows that a property notices it.

### Worker and Mailbox

`Worker` has one action for each section under `w.mu` and for each channel
operation: `Submit`; `CloseMark`, `CloseStop`, `CloseJoin`; `NextCall`,
`NextNil`; and for the loop `Exit`, `Wake`, `TakeNothing`, `Take`, `Return`,
`Clear`, `Deliver`, `Abandon`. `pc` is where the loop is. `wake` is a Boolean
because the channel has one place and `submit` drops the second token. Deliver
is the rendezvous on the unbuffered channel: it needs a reader in `next`.
Requests (`Submission`) are numbered in the order of submission and `cancelled` is the state of
the context derived for the last request taken. `perform` ends with an answer or
a panic, which the loop treats alike, so both are `Return`.

The base context is cancelled only by `close`: `main.go` passes
`context.Background()` down, so there is no other way to stop a worker.

`Mailbox` is the abstract specification: a slot that keeps the newest request, a
request being worked on, and one answer for every request started. `Worker`
implements it under `slot <- pendingRequest`, `active <- cur` while the loop is busy,
`obsolete <- cancelled` while it runs. Its fairness is part of the refinement
(`ImplementsFairMailbox`), and nothing in it says that a request nobody
superseded ends: it may be reading a slow disk.

### Browser

The variables are the fields of `model` that decide what is asked for and what
may be shown, the outstanding call of `next` (`armed`) and the result it brought
(`inbox`), the five variables of `Mailbox`, and the engine. One action per
message: `Choose` for every key that ends in `choose` (TreeNav decides which
row), `Show`, `Pin`, `Reload`, `Report` (the terminal's width-method report),
`Quit`, the seven outcomes of `accept`, then `End`, `Close` and `StopWork` for
the end of `Run`. The engine's actions are `StartWork`, one `Perform...` per
kind of request, `Panic`, `Receive`, `Release`.

A document is the load, node and width method it was made from; a comparison is
two of them. What is on screen, what the header says of it (`Header`, from
`contentHeader` and `current` in `view.go`) and what should be on screen
(`Right`) can then be compared. Documents that the cache drops are left open
(`Kept`): any subset may stay, which covers every budget; `Cache` has the
policy.

### Program

`main` is the place of the main goroutine in `browse` and `Run`, one action for
each stretch between two points where another goroutine may matter: `Refuse`,
`FailEarly`, `StartWorker`, `Notify`, `Own`, `Return` (which restores the
terminal), `Stop` (`signal.Stop`), `CloseStopped`, `JoinRelay` (`<-relayed`),
`JoinWorker`, `Report`. `signals` is the channel of one place that
`signal.Notify` fills, dropping what does not fit. The relay's select is
`RelaySignal` and `RelayStop`, and its call of `program.Quit` returns in
`RelayQuit`. Bubble Tea is external: `messages` are what goroutines of it wait to
hand over, in any order, and `Take` is its loop. `sent`, `endedBy` and `killed` are kept for the
properties only; a signal while none are notified may kill the process. Of the
model it keeps what can end the program; the messages before that are
`Browser`'s.

### Screen and Viewport

`Screen` is the whole state that drawing depends on: the tree pane of `TreeNav`,
the size, focus, mode, overlay, prompt and scroll positions. Its actions are
a resize (`WindowSize`), a width-method report, the results that `accept`
installs, and every key by the pane or overlay that takes it. `Settle`,
`ClampSideways` and `Ask` are the tails that the code's handlers share, and are
parts of each action. `Frame` is the measure of every line that `View` returns,
and `DrawnRows` what the panes hold; `DrawnIsTheWindow` compares them with rows
and cells defined without an index, a clip or a checkpoint, and allows no tab, control
or format character among them.

The comment of `settle` says that it clamps every scroll position. It leaves
`overlayX` alone, so `ScrollInRange` says of sideways positions only that they are
not left of the start. `OpensOnText` is the promise of `clampSideways` for the
content. `OverlayStaysOnText` is the comment's for an overlay, with the range of
`scrollOverlay`, and the code breaks it: scroll the help right in a narrow
terminal and make the terminal wider. Nothing wrong is drawn, but less than would
fit, until the next key that scrolls the overlay brings the position back.

`Viewport` tells runes apart by what they do to cells: narrow, wide, of no
width, joining, selecting, unreadable. The joiner is a format character: for the
renderer it makes one cluster of two symbols, and it is unreadable, so a cluster
ends before it, as before a tab, and it is escaped alone. The code finds the
cluster, cuts it and measures it again; `Unit` cuts first, which gives the same
cluster, because where one ends does not depend on what follows. `UnitsFrom` gives
the units of a line with their columns, `ColumnsOf` the checkpoints that long lines get every `Stride`,
`Seek` the start from one, `Clip` the cut. `RenderedWidth` is what the terminal
library measures, as the code uses it. `ShellQuote` quotes a path for the export
command, and `ShellReads` is a shell that reads it back off the screen.

### Cache

`Put` up to its loop, `Evict` for one iteration, `Insert`; `Hit`; `Reset`.
`recent` is the code's list, and `uses` remembers the order of use apart from it. A
document's charge is a constant of its node.

### TreeNav

`Index` builds the parents, ends of branches and levels row by row with the
open ancestors, as `indexTree`. The row functions are those of the code; the
keys change `selected`, `folds` and `top`, and `Settled` is the first row that
`settle` computes. The properties define what is below a node, and so what is
visible, from the parents of the history alone, and compare. `Screen` extends
it, and the runs of `screen` check it.

### Editor, History, Replay and Reader

`Editor` is Neovim, external, as far as `docs/undo-format.md` and the fixtures
in `testdata/undo` describe what it writes: changes with entries, undo, redo
that moves the chosen alternative to the front, undo-and-forget, and pruning by
'undolevels'. It remembers in `seen` the text of each state. `Forget` is
restricted to changes that are not children of the root: Neovim frees what was
made at the oldest state in another way, and the code does not depend on it.

`History` is `New`: the records pass, the links pass, the walk and the
position, each as the code orders its checks, with the limit and the
cancellation between nodes. `Replay` is `Bind` and `Reconstruct`: `Mark`,
`Descend`, `Meet`, `Ascend`, `Turn` for `replayPath`'s loops, `ApplyEntry`,
`EndHeader`, `Finish` for the entries; texts are flat here. `Reader` composes
them: the editor edits, writes the file, and xunhen reads it, binds the buffer's
text as the base and reconstructs one state. `SnapshotIsTheState` is the
promise of the whole program: what is shown under a number is what the editor
had there.

### Text

The chunked workspace of a replay. A chunk carries its lines, its bytes, and
which cells of which array back it and how many it may write to. An edit in place
(`Within`) changes the lines of its own chunk only. In the code it would also
change another chunk that had one of the written cells; `split` clips the
capacity of each chunk so that none has, and `ChunksHoldTheText` says that no
cell is shared, which is what makes the model of the edit right. `flat` is the
same text as one sequence.

### Decode

A file is a sequence of cells; a scalar of any width is one, a byte of text is
one, neighbouring scalars of which only the sign is checked share one, and what
nothing checks (hash, times) has none. The first cell of a record also stands for
the signs that are checked behind its flags, so of two wrong fields another one may
be reported first; no property looks at which error it is. `d` is the decoder: offset, sticky error,
entries and lines charged. Its reads are operators that return the decoder as
they leave it, so a failed read is carried through everything that follows as in
the code, where every read is a no-op and every loop tests the error. One action
per loop iteration or straight run of reads: `Start`, `Metadata`, `LastSave` and
`Save` for the optional fields, `Record`, `Entry`, `Line`, `TextChunk`, `LineEnd`,
`EntryDone`, `EntriesDone`, `Extmark`, `RecordDone`, `End`. `Cancel` may happen
between any two. `Encode` writes a file in the format of `docs/undo-format.md`,
so the specification of the decoder is its inverse, and `Within` says over the
whole file what the decoder's counters check piece by piece. `NoLimitIsPassed` is
the part of `DecodesTheFormat` that holds at every step and is proved.

### Base and DiskText

`PrepareLine` is one iteration of `PrepareBase`: the checks of the line against
the limits, the NULs that become LFs, and the buffer that is hashed when it is
full. Before a line, once in `PollLines`, a cancelled context may end it without a
verdict (`CancelPrepare`). `Prepared` hashes the rest, `Verify` compares, with the exception for an
empty buffer that Neovim saved by itself. A hash is the sequence of bytes it was
taken of. `DiskText` splits a file into lines, refuses what is outside the
profile, and writes a raw export.

### Load

The reads of an explicit and of a source-based load, with the order and the
checks of `load.go`. A file is an inode with blocks and a stamp (its times);
paths lead to inodes and the source path through a link, so that writing in
place, appending, truncating, renaming over, unlinking and retargeting are
different edits. `Open`, `StatBefore`, one `ReadBlock` per block, `ReadEnd`,
`StatAfter` and `StatName` are `readOpen` and `ReadFile` (`ReadEntry` adds the
comparison with what the search looked up); then `Verify`, `RecheckUndo`,
`RecheckSource`, `ResolveAgain`. `moments` remembers what the inputs looked like
since the load began, and a load that succeeds has to match one of those moments
as a whole.

Every change gives a file a new stamp, and the source is not pointed away and
back: `input.go` documents that an edit within the clock's granularity, or one
that is undone between two checks, goes unnoticed.

### Search

The directories one after the other (`Open`, with the aliases and repeated
arguments left out by the code), a `LookUp` per name, a read per candidate that
the byte budget allows, what is kept of it (`keepVerified`, `keepUnverified`),
`recheck` of all that was looked at, one item a step, and the choice. `expected`
is the answer that the documented rules give for the whole file system at the
moment the recheck begins, written without an order, a count or a budget that
is drawn down. The reads of `Load` are one step here.

### Names

`Resolve` in one action: `FullName` (the directory of a path resolved, the last
component as written), then `ResolveSymlink`'s loop over links with its count. Paths are sequences of
components and slashes, so doubled and trailing slashes, dots and `..` behind
links are what they are in the code. `Walk` is the system's own resolution of a
path, against which the result is compared.

### Arguments and Commands

`Arguments` is `args.go` as functions: `SplitArgs` sets FILE apart from the flags
around it and their detached values up to `--`, `ReadFlags` is what the flag
package makes of them, and `Inputs`, `Checked` and `Complete` are the checks of
combinations. The reference parses with the flag package alone, again and again
from the argument it stopped at (`Interleaved`), and counts (`Allowed`).

`Commands` is a run: `Dispatch` on the words, `CheckTerminal` for `browse`, the
steps of `Load`, `Rebuild` one node at a time, `Compose` what is to be printed,
`Write` one piece into a `bufio.Writer` whose sink may fail at any byte, and
`Finish`, the flush. Every failure is a `Diagnose` with its status. The output
is compared with the text as a whole, and a raw export is read back as a base.

### Diff

`Script` trims the common ends and drops lines that only one side has; then the
loop of `align` over its stack: `Trim`, `SplitLine`, Myers' search from both
corners (`BeginBisect`, `Round`, `Forward`, `Backward`, `Turn`, `RoundEnds`,
`NoCommonLine`, `OutOfEffort`), anchoring (`BeginAnchor`, `AnchorPair` for each
step of the patience sort, `AnchorSplit`) and `Plain`. `Aligned`, `AddMatch` and
`AddRest` build the script, `GroupRun` and `GroupRest` its hunks. The effort is
counted where the code counts it, so that every stage can run out anywhere. The
properties do not look at the alignment but at the result: the hunks are applied
as a patch, and their number of equal lines is compared with a longest common
subsequence.

## The runs

| Run | Question | Bounds |
|---|---|---|
| `worker` | no lost wake-up, exact cancellation, ordered answers, clean close, implements `Mailbox` with its fairness | four submissions |
| `browser` | never mislabelled, never waiting in vain, cache coherent, the session follows the newest load | two loads, three nodes, generation 5 |
| `browser_live` | selections settle, loads end, a fatal result ends the program | two loads, three nodes, generation 4 |
| `program` | a true exit status, nothing left running, an end whenever it is asked for | SIGHUP, SIGINT and SIGTERM, each once at any moment, both keys, both fatal results, a failing terminal |
| `screen` | what is drawn is the window that cursor, folds and scroll positions name; these stay on the rows and lines there are; a quoted path reads back | every ordered tree of six and of seven states in panes of 0 to 3 rows; every line of up to three of nine kinds of rune, and of up to four symbols, marks and joiners, at three widths; every path of up to three of six kinds; two small histories under every key, result and reload at five sizes |
| `overlay` | a violation: an overlay stays scrolled past its range in a wider terminal | the help and the export command of one path, five sizes |
| `documents` | `New` accepts the trees and nothing else; map, list, charge and order of use; chunks equal the flat text | every linking of two records, two fields of a tree of three, one of a tree of four, positions, dates, one file beyond the limit; two sessions, five documents of charges 1, 2, 2, 4 and 6, budget 5; chunks of four lines, texts of up to six |
| `reader` | a file of the editor is accepted, replay goes through the right headers, snapshots are the editor's texts | three kinds of session: three changes of one line; four with one level of undo, so that pruning frees headers, branches or all; two of two edits on up to three lines beyond a limit, empty buffer included |
| `diff` | hunks are a patch, minimal within the effort, and come | every pair of states of up to four lines over three texts, every order of five; five effort settings |
| `decode` | decodes the format within the limits and nothing else; only the right text is a base | up to three records, two entries, lines and cells at and beyond each limit; one cell replaced by any of 13 values, one dropped or added, every truncation and failing read, cancellation anywhere; texts of up to four lines against every small buffer, cancelled at any poll, one in two lines |
| `search` | the answer is the one the files call for; a change is noticed; a source has the name of its file | two directories, three names, two files; no changes from any file system, or two changes at any moments; every tree of links at four places, sixteen sources |
| `commands` | arguments are read as documented, a load that succeeds saw its inputs in one moment, output is whole | up to three or four arguments behind each command; two edits at any moments of each form of load, files of two blocks, two targets; every text of up to two of five lines, a buffer of three bytes, output failing at any byte |

Why these are enough. The worker has one request running and one pending; four
submissions let one run, one be skipped, one replace it and one come while a
result waits, and the proofs remove the bound. They remove those of `reader`, of the
histories in `documents` and, for the patch, of `diff` too. The browser's hazards need one
answer in flight, one superseded, one reload and a node whose row or number
changes with it: two histories that differ in a row and a number do that. The
two generation bounds count the load, reload and install requests as well, and
are named in the guard of `Key`. The cache's budget holds no three documents,
some two, and one not even alone. A row function looks at one branch, its
siblings and the fold above it; trees of seven states hold two siblings with
folded branches two deep and one above them. A cut falls before, in or behind a
cluster, a tab or a wide character: three runes put one on each side of it, and
four that join are longer than the limit on a cluster, which is three. A scroll
position goes out of range when its content shrinks, and the two histories differ in
states, lines and widths. Three signals are one more than the channel and the
relay hold. The links of a record are to its
parent, child and two siblings: two wrong fields in a tree of three make every
ring, stranded branch and second parent there is among three. A chunk of four
lines splits, shrinks below half, borrows from either side and empties within
six lines; an entry of five lines is more than a chunk holds. The decoder's
counters are per file, per record and per entry, and two records with one entry
each and two lines are where they differ; its limits are two, so a file of three
is over and one may be exactly full, and so is the input limit. A torn load
needs one edit between two reads and a second one that hides it; three edits
were checked once as well (8.8 million states). A search goes wrong when two
directories are met in one order and not in the other, when a name appears
behind it, or when the budget ends between two candidates. Four places at two
levels hold a link to a link, to a directory, out of a directory and in a ring.
A buffer of three bytes is filled by one piece, by several and passed by a piece
longer than itself. Three words behind a command are a flag, its value and FILE
in each order, or `--` between two. A region of four
lines is trimmed, split at a line, bisected from both sides and anchored, and
orders of five lines have increasing sequences that a greedy choice misses.

Deadlock is not checked in `browser` and `browser_live` (the program ends and
the bounds stop the keys), `program` (the process exits or is killed),
`reader`, `decode` and `diff` (reading and comparing end). It is checked in the
others: a worker that is closed can be closed again, a cache, a workspace and a
screen always have a next operation, and the validation of a history, a search and
a command say explicitly when they have finished.

## Fairness

`Worker`: `LoopFairness` says the Go scheduler runs a goroutine that can run.
`Return` is fair only when the context is cancelled (`WF(cancelled /\ Return)`):
everything behind `perform` polls its context (`history.go`, `replay.go`,
`diff/search.go` every so many steps), while an input that nobody cancelled may
take as long as a disk takes. `CallerFairness`: Bubble Tea runs the command that
calls `next`, and `close` runs to its end. `Browser`: Bubble Tea delivers messages and
runs commands; the worker is as fair as `Mailbox` promises; requests end. No key
is fair. `Program`: the scheduler runs the main goroutine and the relay when they
can go on, and the event loop takes a message while the program runs
(`WF(Main)`, `WF(Relay)`, `WF(Loop)`); no key, signal, result or failure is fair.
`Diff`: one goroutine computes, so a step that can be taken is; what is checked is that
no run of steps goes on for ever. No other run has a liveness property.

## What is proved

Every theorem holds for all values of the constants that the named assumption of
the module allows; nothing else is assumed.

| Module | Assumption | Theorem | States |
|---|---|---|---|
| `BrowserProofs` | `MaxSubmitsAssumption` | `TypeCorrect` | the type invariant of the worker; the loop never takes a nil request |
| | | `NoRequestIsLost` | one wake-up token is enough, and every request taken is in hand or was answered until the worker stops |
| | | `CancellationIsExact` | cancelled as soon as superseded, and only then |
| | | `JoinIsFinal` | nothing runs or waits once `close` returned |
| | | `Ordered` | answers come in the order of submission, none twice |
| | | `ClosedWorkerIsQuiet` | no request starts once the worker is marked closed |
| | | `Refinement` | the safety half of `ImplementsFairMailbox`: every step is a step of `Mailbox` or invisible in it |
| | `HistoriesAssumption` | `Typing` | the type invariant of the browser; the selected and the pinned row exist in the installed history |
| | none | `Exactness` | neither the cache nor an answer mixes loads or width methods |
| | | `Labelling` | no state is shown under the name of another |
| | | `Awaiting` | what the browser waits for is on its way, with one reader to bring it, and no load is superseded |
| | | `Following` | the session changes only into the result of the newest load, and the selected node keeps its ID where it can |
| `SessionProofs` | `ProgramAssumption` | `Outcomes` | the exit status is true |
| | | `Cleanup` | the process exits with the relay gone, the worker joined and the terminal restored |
| | `CacheAssumption` | `Ownership` | what the cache holds was put for the session that owns it |
| | | `LeastRecentlyUsedLeaves` | the most recently used documents stay: nothing leaves while it and all used after it fit |
| | | `PartsAgree` | map, list and charge are of the same documents, the charge within the budget |
| | `TextAssumption` | `TextIsHeld` | chunks, counts and marks hold exactly the flat text after any splices, and no chunk of one text is written by another |
| | `ScreenAssumption`, `TreeNavAssumption`, `ViewportAssumption` | `ScrollStays` | no key, result, reload or size leaves the content scrolled past its last row, an overlay past its last line, or either left of its start |
| | | `ScrollOpensOnText` | a result or a new size leaves the content at its start, or scrolled no further than where the end of the widest row on screen comes into view |
| `CommandProofs` | `LoadAssumption` | `OneMoment` | a load that succeeds saw its inputs together in one moment, whatever edits fall between its reads |
| | these and `CommandsAssumption`, `DiskTextAssumption` | `CommandsLook` | so does the load of any command, whatever its arguments |
| | | `WholeOutput` | status 0 promises the whole output, other output is the beginning of it before a failed write; a raw export reads back; a missing node is found before the base is opened |
| `SearchProofs` | `SearchAssumption` | `AnswersAreLooks` | an answer that is not a refusal is what the rules say of the file system at one moment |
| | | `OrderDoesNotMatter` | where nothing changes, the answer is that of the rules, which know no order of directories and no budget drawn down |
| `UndofileProofs` | `DecodeAssumption` | `WithinLimits` | no input makes the decoder read, keep, charge or wait for more than a limit allows |
| | `BaseAssumption` | `BaseVerifies` | a text verifies exactly if the undo file was written for it; only one beyond a limit or with LF in a line is refused, and a cancelled context, at whichever poll, ends it without a verdict |
| `HistoryProofs` | none | `ExactlyTheTrees` | `New` accepts the trees whose position is on the preferred path, and refuses nothing else |
| | | `Traversal` | the states are listed in recorded branch order, the reference is the position |
| | | `NoRepetition` | links that pass `validateLinks` lead the walk to no state twice |
| | | `AllReached` | a file that the walk passes has every state on the way from the root |
| | | `LeavesAreLeaves` | a state without a preferred child has no children, so a reference taken for a leaf is one |
| | | `OneWay` | the path of a replay has the headers above exactly one of the two states, each once |
| | `ReplayAssumption` | `EveryLimitHolds` | no workspace is empty or beyond a limit, at any entry |
| | | `SnapshotsAreStates` | if the entries of each header lead between the texts of its two states, a replay lands on a state's text after each header and on the target's at the end |
| | these and `EditorAssumption`, `ReaderAssumption` | `SnapshotsAreTheStates` | a snapshot is the text the editor had in the state asked for, for sessions of any length |
| | | `TheWayBetween` | a replay holds each header between its two states once, and each leads to the text of a state |
| | | `NothingElseRefuses` | nothing the editor writes is refused, and no workspace passes a limit |
| `DiffProofs` | `DiffAssumption` | `Patching` | the hunks of a finished comparison turn the left state into the right one, whatever the states, the efforts and the context lines |

`BrowserProofs`, of `Worker`: the inductive invariant `WorkerIInv` joins the
properties with three facts without which they are not inductive. `CancelIInv`: the cancel function is
installed exactly while the loop runs a request or has not yet cleared it;
without it, `submit` could cancel nothing. `CloseIInv`: the flags that each stage
of `close` has set, so that a stopped worker is a closed one and a joined one has
no loop. `OrderIInv`: delivered <= taken <= submitted, and what is pending is the
newest; without it, "cancelled, hence superseded" and the order of results do not
follow. The action properties and the refinement follow from `WorkerIInv` in the
state before the step.

`BrowserProofs`, of `Browser`, climbs in five invariants, each inductive given those before it.
`EngineIInv`: every document the engine holds has its load and width method, and
every answer on its way has what its request asked for. `TrafficIInv`: which of
slot, worker and inbox may hold something at the same time, and that one reader
waits unless its result is there or was fatal. `AskedIInv`: a request on its way
is the load awaited, or asks for content under the present generation exactly as
the model now wants it, or under an earlier generation; this is where every
handler that changes the selection, mode, pin or method must have raised the
generation. `ScreenIInv`: what is shown was made from the session's load under the
present method, and when nothing is pending, loading or failed it is the present
choice; accepting needs `AskedIInv` and `EngineIInv`. `AwaitIInv`: pending and
loading each have their request under way. `TypeIInv` strengthens `TypeOK` by
the types of the engine and of the answers on their way.

`SessionProofs`. `Program`: the way out is a fixed order of steps, so `WayOut` says for each
place of the main goroutine what still runs, and `Accounts` what the outcome
knows by then: the relay stores a signal before it hands its message over, and a
result is fatal before its message is. A lemma (`TrueStatus`) then goes through
the cases of `Status`.

`Foundations` is why sums, walks and paths can be proved about at all. The
induction theorems of the library take an operator as a parameter, which the
provers cannot instantiate; those here take a set instead (`SetInduction`: a set
with 0 and every successor has every number) and follow from the well-foundedness
of finite sets. `Recursion` says that a recursive definition has a function that
it defines. The rest is what order lists, paths, texts and rows of children have
in common: cutting a sequence and joining it again (`Cut`, `InThree`), sequences
without repetition (`Once`) and their number of elements, sequences that list a set
(`IsRow`), and what sequences put behind each other make (`FlattenAppend`,
`FlattenConcat`).

`Cache`: `HeldIInv` adds that `put` inserts only for an owner it has bound.
`ListIInv` says that the list, the map and the charge are the first part of the
order of use, each document once. `FullIInv` is the reason that this is as much as
the budget holds: any longer part of the order of use costs more, also while a
`put` is making room. What a first part costs (`Cost`, with `Total` a recursive
function) and what moving a document to the front does to it (`ToFrontCost`) are
inductions on the length.

`Text`: `Holds` says that there are marks, one before each chunk and one behind the
last, that go up through the flat text such that each chunk holds what is between
its marks (`Tiles`). An edit in place moves the marks behind it; a rebuild replaces
the marks of a region by those of `Split`. `find` is right because the marks are
the running totals of the sizes (`Start`). Bytes are weights of parts of the text,
which add up where parts meet (`Weight`, an induction on the length), so each total
follows from the marks alone. `Good` is the rest: sizes in bounds, and cells apart.
That is inductive because a new array is one that no chunk has, and the chunks of
one split have capacities that end where the next begins.

`Screen`: `PaneIInv` says that what is shown was prepared under some method from the
texts of some load (`IsContent`), and that each scroll position fits the length of
what it scrolls: the content by its own mode, since the key that changes the mode
leaves the old content on screen until its answer comes. A step either clamps
(`SettledStep`), leaves positions and sizes alone (`QuietStep`), or puts something
else on screen and goes back to the first row or column. That clamping is enough needs every
length and width it compares to be a number, through the clusters of a line, the
rows of hunks (`RowsOfIs`, `RowIsIn`: a row below the sum of the hunks lies in one of them) and the quoted
path, each a recursion on a line of any length.

`CommandProofs`. `Load`: an editor may act between any two steps, so what the load knows
holds on a condition it has still to check. `OpenIInv` and `GotIInv` say of each
read that a file that still has the identity looked at has the blocks that were
read. `MomentIInv` says for each place of the load that if what is still to be
checked comes out well now, then some moment since the load began had everything
read so far in it together. Such a condition can be true in one state and false
in the next; the lemma `EditDrift` is why it never becomes true again behind the
load's back: a stamp never comes back to a file nor a file to a path, and the
link is retargeted at most once (`DiskIInv`, `Drift`). These are the same
assumptions about the file system that the run makes.

`Commands`: `OutputIInv` is an account of the output: what was written, what the
writer has buffered and what is left to write make `Whole` (`Accounts`), or a write
failed and what was written is a proper beginning of it. Emitting any part of the
buffer keeps it (`EmitAccounts`). `StageIInv` says for each stage what the arguments
and the load have established by then, and `EndIInv` what the status may be.
`AskedIInv` is about the load alone: where the base is read, the nodes asked for are
known to be in the undo file.

That a raw export reads back is about data. `PartsOf` splits what was written one
character at a time (`PartsRun`, from `Recursion`); a line without LF behind a text
goes on with its last part, and an LF opens the next (`PartsLine`, `LineEnds`), so
after k lines the parts are the first k lines (`WholeLines`), and an open line is the
last (`WithinLine`). What `splitBase` refuses is what `checkRawLine` refused to write:
the two look at the text as a whole and at each line (`Profile`, `Clean`). The
assumption on `Texts` is what replay guarantees of a text: at least one line, the
limits of `EveryLimitHolds`, and no LF in a line, because `decode.go` reads one as NUL.

`SearchProofs`: what a search saw of a directory, a name or a file stands still,
or it was touched since (`OpenedIInv`, `ProbesIInv`); and as nothing goes back to an
old stamp, what was touched never stands again. `ReportsIInv` says that each report
is what the file deserves by now, or rests on something touched, and `BytesIInv` is
the account of the budget: what remains and what the files read so far have
together is the limit, and each file is charged once whatever names lead to it.
From these, when the search is over, the answer is the one of the rules or
something noted does not stand. `RecheckIInv` carries this through `recheck`, which
looks at all that was noted: the one that does not stand has still to be looked at.
Where nothing was touched everything stands, and the budget left is that of any
other order (`SameForEveryOrder`).

`UndofileProofs`. `Decode`: `Follows` is what any chain of reads and checks makes of a
decoder: it stays in the input and its limit, keeps its counters, and an error
never goes away; each operator of the reader has a lemma that says so.
`KeptIInv` charges what is kept together with what is still to come (records read
and records left, lines read and lines left), `LoopIInv` says in which loop each
of these is positive, and that no text is left to come elsewhere.

`Base`: the digest and the pending bytes together are the lines so far, each
terminated (`PrepareIInv`), wherever the buffer was flushed. Then two texts that are
hashed to the same bytes are equal: a terminator, NUL, is at the end of each line
and nowhere else, because a NUL of the text is hashed as LF; so the ends of lines
agree (an induction on the lines), and within a line only LF and NUL could be
confused, and no line of either text has LF. The empty buffer is the exception that
`Verify` makes, and the only text whose lines are one empty line.

`HistoryProofs` starts from any file: `AnyFile`, in its specification, says that
the records are a sequence and have natural numbers, and nothing of how they link
each other. What `validateLinks` checks is local to a state and its neighbours,
and rings of siblings pass it. `IInv` has four parts. `Numbers`: which checks the
passes so far have made. `Position`: what the walk has done. `FoundIInv` in it is
the reason that the walk never runs into a ring: a state waits on the stack only
once its parent and the sibling before it were visited. What a visit adds names
the visited state as its parent or as the sibling before it, and the visited state
was not visited before, so what it adds is new (`WalkIInv`). `OrderIInv`,
`ClosedIInv`, `WaitingIInv` and `DoneIInv` say where a state stands: behind its
parent at once if it is the preferred child, else behind the whole branch of the
sibling before it, which is then left for good. `EveryStateIsReached`: as many
visits as there are states, none of them twice, are all states (`AllOfThem`).
`Verdict`: what was accepted satisfies `PositionHolds`, what was refused is not
`WellFormed`. That the two sides of `AcceptsExactlyTrees` meet is the lemma
`OrderedChildren`: the links from a preferred child go through all children of a
state once, or the file is not a tree.

The rest of `HistoryProofs` is about replay. `Ancestors` says what `Above`, a
recursive function, is in a tree. `WayIInv` says of each loop of `replayPath` what
it has done so far: the marks are the ancestors passed, what is collected on the
way down and up leads from one state to the other (`Collected`), and the ancestor
has exactly the common ancestors above it. `OneWayRound` joins the two ways: the
path is a chain in which each header starts where the one before ended
(`StepsLead`). `FitIInv` needs one lemma, that what an entry leaves has the size
`applyEntry` computed (`WhatAnEntryLeaves`). `StageIInv` follows the texts along
the chain. Its hypothesis `Faithful` is about the file and the text it was
verified with: each header's entries lead, in the direction that the position of
the file asks for, from the text of one of its states to that of the other.

The last part composes these with `Editor`, so that what `SnapshotsAreStates`
assumes is what the editor is proved to write. `EditorIInv` holds of every
session. `Tree`: the children of a state are listed once each, and have later
numbers. `Where(A)`: the headers in `A` are those above the buffer's state, and
each of them is the preferred child; without it, the position written would not be
found on the preferred path. `Remembers(A)`: the entries of a header in `A` lead
from its text to its parent's, those of any other the other way. `Makes` says what
one entry does in terms of three parts of a text, which is symmetric where
positions are not; so swapping inverts (`MakesBack`). No text in `Plain` is
without a line: where a change leaves none, the entry has the dummy line in its
place. Undo takes a header out of `A` and redo puts one in, both inverting its
entries; redo also makes it the preferred child. Freeing headers is four cases of
one lemma: what stays (`Prunes`) is closed upwards, and takes the beginning of
every row of children. What is then written is the same tree (`WrittenTree`,
`WrittenLinks`), in any order of records, so `New` has to accept it
(`WrittenIsWellFormed`); that the position is on the preferred path
(`PathToTheBuffer`) is an induction down from the root along `A`, which is
`Above(Current)` (`AboveTheBuffer`). With the entries of `Remembers` the file is
`Faithful` (`WrittenIsRecorded`). `ReaderIInv` says that the file is the one
written of a tree that stays as it is, and joins the invariants of `New` and
replay; opening the file is a step of its own in the argument, because there the
invariants of `New` start (`JustOpened`). `TurnIInv` says how many headers of a
path lead up, which is where `StateAfter` turns.

`DiffProofs` follows the comparison from the ends of the two states to the
hunks, in three invariants. `LinesIInv`: what `Script` trims from both ends is equal, and the lines
that `align` is given rise through what is left of both states. `AlignIInv`: the
pairs of equal lines found so far rise in both states at once (`Climbs`) up to a
corner, and the regions that wait on the stack go on from there, one above the other
from the top of the stack (`Wait`); each way to split a region puts parts in its
place that do the same. Where `bisect` splits does not matter for this, as a
split without a common line is a split all the same; the anchors need the patience
sort, whose chains rise on both sides at each step (`PlacedAreChains`).
`ResultIInv`: the runs of the script lead from one corner of the two states to the
other (`Leads`), and each hunk is a stretch of them, with equal lines alone between
two hunks (`Hunked`). A stretch shows the slices of both states between its ends
(`RunsShow`), so the hunks patch (`WholePatches`). That the result is minimal and
that a comparison ends is left to TLC.

Only model-checked: every liveness property, including the fairness half of the
refinement, because `ENABLED` and weak fairness are beyond the prover used; that
what is decoded is what the format says; that hunks are minimal while the effort
lasts; the properties of `TreeNav`, `Names` and `Arguments`; and of `Screen`, that
what is drawn is the window and that the export reads back.

## What is not modelled

* The line table of the diff and the goroutines that look lines up in it, which
  give equal lines equal numbers; its polls of the context, and the lookup of
  the lines of single hunks.
* The lookup table of `tree.go` (a sort and a binary search) and the
  cancellation polls of `indexTree`.
* Percent encoding of a path into a file name, which is an injective function
  here.
* The tables that say how wide a rune is and what it joins, reduced to nine
  kinds; prepended marks, which join what follows them.
* Colours, wording, the status line and the help; what `inspect` prints besides
  the nodes.
* The place and sequence number that a decoding error names.
* Times of records: `New` does not order by them.
* Limits: each model takes the one it needs as a constant.
* A disk and a clock as such: an edit within the granularity of a file's times
  goes unnoticed by the program, as `input.go` documents, and is left out.
* Test support and tooling: no part of the program.

## The plan

Done, in this order: the worker and its contract, with proofs; the browser over
it; the cache; reading and replaying what the editor writes; the chunked text;
tree navigation; search and load; diff; decoding; the end of the program; the
screen and its text; base verification and names; the commands; proofs about the
browser, the program, the cache, the load, the decoder, the history, replay, and
the way of a text from the editor to a snapshot; proofs about the chunked text, base
verification, search, the commands, the scroll positions of the screen and the diff.
What is left:

1. Composition of `Decode` with `History` (a decoded file is what `New` expects)
   and of `Load` with `Search`, so that the reads of a search are those of a
   load.
2. Composition of `Screen` with `Browser`, so that a result is drawn under the
   generations it is accepted under.
3. The line table of the diff and its goroutines.
4. Proofs: the theorems about `Replay` for the chunked text in use; that
   `Screen` draws exactly the window its scroll positions name.
