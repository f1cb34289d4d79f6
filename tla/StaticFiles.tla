----------------------------- MODULE StaticFiles -----------------------------
(***************************************************************************)
(* From a request's URL to a file: urlsplit, match_location and            *)
(* _safe_file_path, as build_http_response composes them.  These are pure  *)
(* functions of the server block's locations; HTTPMessages uses them.      *)
(*                                                                         *)
(* A URL is a sequence of characters; "%/" and the like are characters     *)
(* written as escapes, "?" is where a query or fragment begins, "[" is a   *)
(* bracket that is not closed, and "nul" a character of value zero.  A     *)
(* file path is a sequence of segments.  There are no symbolic links.      *)
(*                                                                         *)
(* A definition called Name_Change is Name with a bug.                     *)
(***************************************************************************)
EXTENDS Naturals, Sequences, SequencesExt

CONSTANTS
    Chars,          \* the characters of URLs, escapes included
    Unescaped,      \* what each of them stands for in a path
    DefaultRoot,    \* "html", under the base directory
    IndexPath,      \* "/index.html"
    Files           \* the files there are

VARIABLE
    locations       \* of the server block: [path, root] as the dictionary has
                    \* them, in order and each path once

Dot == <<".">>
DotDot == <<".", ".">>

\* A root is a directory that resolve() returned: _safe_file_path resolves it
\* before it uses it.
Directories == {dir \in Seq(Seq(STRING)) : DotDot \notin ToSet(dir)}

ASSUME StaticFilesAssumption ==
    /\ Chars \subseteq STRING /\ "/" \in Chars
    /\ Unescaped \in [Chars -> STRING] /\ Unescaped["/"] = "/"
    /\ DefaultRoot \in Directories
    /\ IndexPath \in Seq(STRING)

-----------------------------------------------------------------------------
(* urlsplit(url).path *)

UpTo(s, delimiters) ==
    LET i == SelectInSeq(s, LAMBDA c : c \in delimiters)
    IN  IF i = 0 THEN s ELSE SubSeq(s, 1, i - 1)

\* "//" introduces a host, which ends where the path or the query begins.
HasHost(s) == IsPrefix(<<"/", "/">>, s)
BehindSlashes(s) == SubSeq(s, 3, Len(s))
Host(s) == UpTo(BehindSlashes(s), {"/", "?"})
WithoutHost(s) ==
    IF HasHost(s) THEN SubSeq(BehindSlashes(s), Len(Host(s)) + 1, Len(BehindSlashes(s))) ELSE s
UrlPath(s) == UpTo(WithoutHost(s), {"?"})

\* ValueError: the host could be an IPv6 address, but is none.
UrlSplitRaises(s) == HasHost(s) /\ "[" \in ToSet(Host(s))

-----------------------------------------------------------------------------
(* match_location *)

Paths == {locations[i].path : i \in DOMAIN locations}
Root(path) == IF path \in Paths
              THEN locations[SelectInSeq(locations, LAMBDA l : l.path = path)].root
              ELSE DefaultRoot

\* The loop replaces the best match so far.
Prefers_LastMatch(path, best) == TRUE
Prefers(path, best) == Len(path) >= Len(best)

Better(uri, best, path) == IF IsPrefix(path, uri) /\ Prefers(path, best) THEN path ELSE best
MatchLocation(uri) ==
    LET best[i \in 0 .. Len(locations)] ==
            IF i = 0 THEN <<"/">> ELSE Better(uri, best[i - 1], locations[i].path)
    IN  best[Len(locations)]

-----------------------------------------------------------------------------
(* _safe_file_path *)

Unquote_Not(path) == path
Unquote(path) == [i \in DOMAIN path |-> Unescaped[path[i]]]

\* str.split(delimiter): one more unit begins another part or extends the last.
Extended(parts, u, delimiter) ==
    IF u = delimiter THEN Append(parts, <<>>) ELSE [parts EXCEPT ![Len(parts)] = Append(@, u)]
Split(s, delimiter) ==
    LET parts[i \in 0 .. Len(s)] ==
            IF i = 0 THEN << <<>> >> ELSE Extended(parts[i - 1], s[i], delimiter)
    IN  parts[Len(s)]

\* What lstrip("/") takes away would be empty segments in front.
Segments(path) == Split(path, "/")

\* (root / relative).resolve(strict=False); above the file system's root there
\* is only that root.
Parent(dir) == IF dir = <<>> THEN dir ELSE Front(dir)
Entered(dir, seg) ==
    CASE seg \in {<<>>, Dot} -> dir
      [] seg = DotDot -> Parent(dir)
      [] OTHER -> Append(dir, seg)
Resolve(root, segments) ==
    LET dir[i \in 0 .. Len(segments)] ==
            IF i = 0 THEN root ELSE Entered(dir[i - 1], segments[i])
    IN  dir[Len(segments)]

\* The path _safe_file_path decodes: it splits the URI a second time.
DecodedPath(uri) == LET path == Unquote(UrlPath(uri))
                    IN  IF path = <<"/">> THEN IndexPath ELSE path
FilePath_Alias(root, uri) ==
    Resolve(root, Segments(SubSeq(DecodedPath(uri), Len(MatchLocation(uri)) + 1, Len(DecodedPath(uri)))))
FilePath(root, uri) == Resolve(root, Segments(DecodedPath(uri)))

\* ValueError: resolve() asks the file system for a name with a NUL in it.
ResolveRaises(uri) == "nul" \in ToSet(Unquote(UrlPath(uri)))

-----------------------------------------------------------------------------
(* build_http_response, what it finds: 403, 404, or the file *)

\* candidate.relative_to(root) and file_path.is_file()
IsBelow_Unchecked(root, file) == TRUE
IsBelow(root, file) == IsPrefix(root, file)
IsFile(file) == file \in Files

Uri(u) == IF UrlPath(u) = <<>> THEN <<"/">> ELSE UrlPath(u)

Found(u) ==
    LET location == MatchLocation(Uri(u))
        root == Root(location)
        file == FilePath(root, Uri(u))
        Reply(status, body) == [status |-> status, location |-> location, file |-> body]
    IN  CASE ~IsBelow(root, file) -> Reply(403, <<>>)
          [] IsBelow(root, file) /\ ~IsFile(file) -> Reply(404, <<>>)
          [] IsBelow(root, file) /\ IsFile(file) -> Reply(200, file)

\* The URL that was sent, or the URI looked up, cannot be split or resolved.
UrlRaises(u) == UrlSplitRaises(u) \/ UrlSplitRaises(Uri(u)) \/ ResolveRaises(Uri(u))

\* is_file() or read_bytes() fails: whatever lies below the root may be a file
\* that cannot be looked at or read.
FileMayRaise(u) == Found(u).status \in {200, 404}
=============================================================================
