------------------------------- MODULE Names ---------------------------------
(***************************************************************************)
(* The name a source's history has: internal/discover/name.go, over a file *)
(* system of directories, files and symbolic links.                        *)
(*                                                                         *)
(* A path is a sequence of components and slashes; the place of a file is  *)
(* the sequence of names that lead to it from the root.                    *)
(***************************************************************************)
EXTENDS Naturals, Sequences, SequencesExt, FiniteSetsExt

CONSTANTS
    Location,     \* where files may be
    Linked,       \* paths a link may hold
    Sources,      \* paths the user may give
    Nowhere,
    MaxLinks,     \* maxLinks, more than a chain that is no loop has
    MaxFollowed   \* links the system follows in one path

ASSUME NamesAssumption ==
    /\ <<>> \notin Location
    /\ Nowhere \notin Location
    /\ {MaxLinks, MaxFollowed} \subseteq Nat

VARIABLES
    tree,         \* what is at each place: kind, and a link's path
    cwd,          \* the physical working directory
    source,
    resolved
nameVars == <<tree, cwd, source, resolved>>

Slash == "/"
At(place) ==
    IF place = <<>> THEN [kind |-> "dir"]
    ELSE IF place \in Location THEN tree[place] ELSE [kind |-> "absent"]

\* The path of a place.
Spelled(place) ==
    IF place = <<>> THEN <<Slash>>
    ELSE FlattenSeq([i \in DOMAIN place |-> <<Slash, place[i]>>])
StartsWith(path, first) == path # <<>> /\ Head(path) = first
LastSlash(path) == Max({0} \cup {i \in DOMAIN path : path[i] = Slash})

NamesInit ==
    /\ tree \in [Location -> {[kind |-> k] : k \in {"dir", "file", "absent"}}
                          \cup {[kind |-> "link", path |-> t] : t \in Linked}]
    /\ \A p \in Location : At(Front(p)).kind # "dir" => At(p).kind = "absent"
    /\ \E d \in Location \cup {<<>>} : At(d).kind = "dir" /\ cwd = Spelled(d)
    /\ source \in Sources
    /\ resolved = Nowhere

-----------------------------------------------------------------------------
(* The file system. *)

\* Where the components of a path lead, one after the other, or why nowhere.
\* The last may be missing if that is allowed, and is not followed if it is a
\* link asked for.  A component before others, or before a slash, is a
\* directory.
Walk(path, last) ==
    LET all == IF StartsWith(path, Slash) THEN path ELSE cwd \o <<Slash>> \o path
        ends(err, at) == [err |-> err, place |-> at]
        walk[fuel \in 0..MaxFollowed, at \in Seq(STRING), left \in Seq(STRING)] ==
            LET name == Head(left)
                there == IF name = ".." THEN SubSeq(at, 1, Len(at) - 1)
                         ELSE IF name \in {Slash, "."} THEN at ELSE Append(at, name)
                found == At(there)
                final == Len(left) = 1
            IN IF left = <<>> THEN ends("none", at)
               ELSE IF found.kind = "link" /\ ~(final /\ last = "link")
               THEN IF fuel = 0 THEN ends("loop", at)
                    ELSE walk[fuel - 1, IF StartsWith(found.path, Slash) THEN <<>> ELSE at,
                              found.path \o Tail(left)]
               ELSE IF found.kind = "absent" /\ ~(final /\ last = "missing") THEN ends("missing", at)
               ELSE IF found.kind # "dir" /\ ~final THEN ends("not a directory", at)
               ELSE walk[fuel, there, Tail(left)]
    IN IF path = <<>> THEN ends("missing", <<>>) ELSE walk[MaxFollowed, <<>>, all]

\* filepath.EvalSymlinks.
EvalSymlinks(path) ==
    LET walked == Walk(path, "exists")
    IN IF walked.err = "none" THEN Spelled(walked.place) ELSE Nowhere

\* os.Readlink: the path in a link, or why there is none.
Readlink(path) ==
    LET walked == Walk(path, "link")
        found == At(walked.place)
    IN IF walked.err # "none" THEN walked
       ELSE IF found.kind = "link" THEN [err |-> "none", path |-> found.path]
       ELSE [err |-> "not a link", path |-> <<>>]

-----------------------------------------------------------------------------
(* Resolve. *)

NeovimAbsolute(path) == StartsWith(path, Slash) \/ StartsWith(path, "~")

AppendPath(path, name) ==
    IF name \in {<<>>, <<".">>} THEN path
    ELSE IF path # <<>> /\ Last(path) # Slash THEN path \o <<Slash>> \o name
    ELSE path \o name

FullDir(dir) ==
    LET real == EvalSymlinks(IF StartsWith(dir, Slash) THEN dir ELSE cwd \o <<Slash>> \o dir)
    IN IF dir = <<>> THEN cwd
       ELSE IF real # Nowhere THEN real
       ELSE IF NeovimAbsolute(dir) THEN Nowhere
       ELSE AppendPath(cwd, dir)

\* Fault: a final ".." stays a name.
FullNameDotted(name) ==
    LET p == LastSlash(name)
        base == FullDir(SubSeq(name, 1, p))
    IN IF base = Nowhere THEN Nowhere ELSE AppendPath(base, SubSeq(name, p + 1, Len(name)))

\* The directory resolved and the last component as written; a final ".." is
\* of the directory.
FullName(name) ==
    LET p == LastSlash(name)
        up == p < Len(name) /\ name[p + 1] = ".."
        base == FullDir(IF up THEN name ELSE SubSeq(name, 1, p))
    IN IF base = Nowhere THEN Nowhere
       ELSE AppendPath(base, IF up THEN <<>> ELSE SubSeq(name, p + 1, Len(name)))

\* The last component followed link by link, each from its own directory.
ResolveSymlink(name) ==
    LET follow[depth \in 1..MaxLinks + 1, current \in Seq(STRING)] ==
            LET link == Readlink(current)
            IN IF depth > MaxLinks \/ link.err \notin {"none", "not a link", "missing"} THEN Nowhere
               ELSE IF link.err = "none"
               THEN follow[depth + 1,
                           IF NeovimAbsolute(link.path) THEN link.path
                           ELSE SubSeq(current, 1, LastSlash(current)) \o link.path]
               ELSE IF depth = 1 THEN Nowhere
               ELSE FullName(current)
    IN follow[1, name]

\* Whenever a step fails, the name stays as it was.
Resolve ==
    /\ resolved = Nowhere
    /\ LET named == FullName(source)
           full == IF named = Nowhere THEN source ELSE named
           followed == ResolveSymlink(full)
       IN resolved' = IF followed = Nowhere THEN full ELSE followed
    /\ UNCHANGED <<tree, cwd, source>>

NamesNext == Resolve

\* The directory of a target.
TargetDir(path) ==
    LET i == LastSlash(path)
    IN IF i = 0 THEN <<".">> ELSE IF i = 1 THEN <<Slash>> ELSE SubSeq(path, 1, i - 1)

-----------------------------------------------------------------------------
(* Properties. *)

\* A source that leads to a file, or to a place where one could be made, gets
\* the name of that place, by whatever links, dots and relative paths it leads
\* there, so that each of them finds the same history; and what is found beside
\* the target is beside the file.  Only a path in a link that begins with "~"
\* is taken for absolute, as Neovim does.
ResolvesToTheFile ==
    LET file == Walk(source, "missing")
        homes == \E p \in Location : At(p).kind = "link" /\ StartsWith(At(p).path, "~")
    IN resolved # Nowhere /\ file.err = "none" /\ ~homes =>
          /\ resolved = Spelled(file.place)
          /\ file.place # <<>> => TargetDir(resolved) = Spelled(Front(file.place))
=============================================================================
