------------------------------ MODULE PathUtil ------------------------------
(***************************************************************************)
(* PathUtil (PathUtil.cpp, posix/PathUtil.cpp): taking paths apart and     *)
(* putting them together, as built on posix.  A string is its segments,    *)
(* split at '/': "/a" is <<"", "a">>, "a/" is <<"a", "">>, "" is <<"">>.   *)
(* Names have no backslash, which Join alone looks at on posix.            *)
(***************************************************************************)
EXTENDS Integers, Sequences, SequencesExt, FiniteSets

CONSTANTS Segments,      \* of the paths of callers
          MaxSegments,   \* bound on their number
          Environments   \* what the process is told of itself

VARIABLES path,          \* a string of a caller
          env            \* one of the Environments

vars == <<path, env>>

Empty == <<"">>

Root == <<"", "">>

DotDotNames == {"..x"}   \* names that start with two dots,

DotNames == {".x"}       \* with one,

TildeNames == {"~a"}     \* and with a tilde

\* Not modelled: an environment without an absolute working and home directory.
\* Normalize and Join call each other for ever on "./a" then.
Located(e) ==
    LET absolute(p) == p[1] = "" /\ Len(p) > 1
    IN  /\ \A v \in {"FUSION_CWD", "FUSION_HOME", "HOME", "pw_dir", "XDG", "TMPDIR"} : e[v] = Empty \/ absolute(e[v])
        /\ absolute(e.getcwd) /\ absolute(e.exe)
        /\ \E v \in {"FUSION_HOME", "HOME", "pw_dir"} : e[v] # Empty

RECURSIVE Normalize(_)

-----------------------------------------------------------------------------

IsAbsolute(p) == p[1] = "" /\ Len(p) > 1

IsNormalizedRoot(p) == p = Root

\* On posix, where case matters.
Normcase(p) == p

Join(existing, segment) ==
    Normalize(IF IsAbsolute(segment) \/ existing = Empty THEN segment
              ELSE IF segment = Empty THEN existing
              ELSE (IF Last(existing) = "" THEN Front(existing) ELSE existing) \o segment)

\* The variable is not normalised.
GetCwdPath == IF env.FUSION_CWD # Empty THEN env.FUSION_CWD ELSE Normalize(env.getcwd)

GetHomePath ==
    CASE env.FUSION_HOME # Empty -> Normalize(env.FUSION_HOME)
      [] env.FUSION_HOME = Empty /\ env.HOME # Empty -> Normalize(env.HOME)
      [] OTHER -> Normalize(env.pw_dir)

\* The trailing separators are purged, but for the first character.
Purged(p) ==
    LET last == {i \in DOMAIN p : p[i] # ""}
    IN  IF last # {} THEN SubSeq(p, 1, CHOOSE i \in last : \A j \in last : j <= i)
        ELSE IF Len(p) > 1 THEN Root ELSE p

NormalizeSegment_NoRoot(done, segment) ==
    IF segment \in {"", ".", "~"} THEN done
    ELSE IF segment # ".." THEN [done EXCEPT !.kept = Append(@, segment)]
    ELSE IF Len(done.kept) = done.prefix THEN [kept |-> Append(done.kept, ".."), prefix |-> done.prefix + 1]
    ELSE [done EXCEPT !.kept = Front(@)]

\* One turn of the loop: what is kept of the path up to currentOffset, and how many
\* of its segments are the prefix that no ".." removes.
NormalizeSegment(done, segment) ==
    IF segment \in {"", ".", "~"} THEN done
    ELSE IF segment # ".." THEN [done EXCEPT !.kept = Append(@, segment)]
    ELSE IF done.kept = Empty THEN done
    ELSE IF Len(done.kept) = done.prefix THEN [kept |-> Append(done.kept, ".."), prefix |-> done.prefix + 1]
    ELSE [done EXCEPT !.kept = Front(@)]

\* The loop, and the slash of a root.
NormalizeSegments(p) ==
    LET start == IF p[1] = "" THEN [kept |-> Empty, prefix |-> 1] ELSE [kept |-> <<>>, prefix |-> 0]
        done == FoldLeft(NormalizeSegment, start, SubSeq(p, start.prefix + 1, Len(p)))
    IN  CASE done.kept = <<>> -> Empty
          [] done.kept = Empty -> Root
          [] OTHER -> done.kept

Normalize(q) ==
    IF q = Empty THEN q
    ELSE LET p == Purged(Normcase(q))
         IN  CASE p = <<".">> -> GetCwdPath
               [] p # <<".">> /\ p[1] \in {".", ".."} \cup DotDotNames -> Join(GetCwdPath, p)
               [] p = <<"~">> -> GetHomePath
               [] p # <<"~">> /\ p[1] \in {"~"} \cup TildeNames -> Join(GetHomePath, p)
               [] OTHER -> NormalizeSegments(p)

Basename(p) ==
    LET normalized == Normalize(p)
    IN  IF IsNormalizedRoot(normalized) THEN Empty ELSE <<Last(normalized)>>

Dirname(p) ==
    LET normalized == Normalize(p)
        resized == Front(normalized)
    IN  IF IsNormalizedRoot(normalized) THEN normalized
        ELSE IF Len(normalized) = 1 THEN Empty
        ELSE IF resized = Empty \/ IsNormalizedRoot(resized) THEN Append(resized, "")
        ELSE resized

Extension(file) ==
    LET basename == Basename(file)
    IN  IF basename[1] \in DotNames \cup DotDotNames THEN <<"x">> ELSE Empty

IsRelative(child, parent) ==
    LET p == Normalize(parent)
        c == Normalize(child)
    IN  \/ IsNormalizedRoot(p) /\ IsAbsolute(c) /\ c # Root
        \/ Len(c) > Len(p) /\ SubSeq(c, 1, Len(p)) = p

\* On posix.
LongPath(p) == Normalize(p)

RelPath(p, parent) ==
    IF p = Empty THEN Empty
    ELSE IF IsAbsolute(p) THEN Normalize(p)
    ELSE IF parent = Empty /\ GetCwdPath # Empty THEN Join(GetCwdPath, p)
    ELSE Join(parent, p)

\* Join of several.
JoinAll(parts) == FoldLeft(Join, Empty, parts)

\* GetAppCachePath, GetAppConfigPath and GetAppDataPath, for their variable and
\* their place in the home directory.
GetAppPath(place) ==
    IF GetHomePath = Empty THEN Empty
    ELSE IF env.XDG # Empty THEN env.XDG ELSE Join(GetHomePath, place)

GetAppCachePath == GetAppPath(<<".cache">>)

GetAppConfigPath == GetAppPath(<<".config">>)

GetAppDataPath == GetAppPath(<<".local", "share">>)

GetConfigPath == <<"", "etc">>

GetExecutablePath == Dirname(env.exe)

GetTempPath == IF env.TMPDIR # Empty THEN Normalize(env.TMPDIR) ELSE <<"", "tmp">>

-----------------------------------------------------------------------------

Init == path = Empty /\ env \in Environments

\* A caller makes a string of its own: the next segment of it.
Write(s) ==
    /\ Len(path) < MaxSegments
    /\ path' = IF path = Empty /\ s # "" THEN <<s>> ELSE Append(path, s)
    /\ UNCHANGED env

\* The calls that change a string in place, or make a new one of it.
Change ==
    /\ \/ path' = Normalize(path)
       \/ path' = LongPath(path)
       \/ path' = Dirname(path)
       \/ path' = Basename(path)
       \/ \E s \in Segments \ {""} : path' = Join(path, <<s>>) \/ path' = RelPath(<<s>>, path)
       \/ path' \in {GetAppCachePath, GetAppConfigPath, GetAppDataPath, GetConfigPath, GetExecutablePath, GetTempPath}
    /\ Len(path') <= MaxSegments
    /\ UNCHANGED env

Next == (\E s \in Segments : Write(s)) \/ Change

Spec == Init /\ [][Next]_vars

-----------------------------------------------------------------------------
(* Properties.                                                              *)

\* Type correctness of the string, and that the process knows where it is.
TypeOK == Len(path) \in 1 .. MaxSegments /\ env \in Environments /\ Located(env)

\* What p stands for once "." and "~" at its start are replaced.
Expanded(p) ==
    CASE p[1] \in {".", ".."} \cup DotDotNames -> Purged(GetCwdPath) \o p
      [] p[1] \in {"~"} \cup TildeNames -> Purged(GetHomePath) \o p
      [] OTHER -> p

IsName(s) == s \notin {"", ".", "..", "~"}

Count(p, i, j, Test(_)) == Cardinality({k \in i .. j : Test(p[k])})

Ups(p, i, j) == Count(p, i, j, LAMBDA s : s = "..")

Downs(p, i, j) == Count(p, i, j, IsName)

\* The segments of p that count: a name that no later ".." takes back and, in a
\* relative path, a ".." that has no name to take back.
Counting(p) ==
    {k \in DOMAIN p : \/ IsName(p[k]) /\ \A j \in k + 1 .. Len(p) : Ups(p, k + 1, j) <= Downs(p, k + 1, j)
                      \/ p[k] = ".." /\ p[1] # "" /\ \A i \in 1 .. k - 1 : Downs(p, i, k - 1) <= Ups(p, i, k - 1)}

\* Two slashes and a name, as in "//a".
Doubled(p) == Len(p) > 2 /\ p[1] = "" /\ p[2] = "" /\ p[3] # ""

\* Normalize gives the one normal form of a path: the names that no ".." takes
\* back, in their order, after the root or after the ".." that lead out of a
\* relative path, with no "." or "~", no empty segment and no slash at the end.
\* Only a path that is "." itself is as the environment spells it.  Nothing is said
\* of a path that begins with two slashes and a name, for which the code and its
\* test disagree.
NormalForm ==
    LET p == Expanded(path)
        counting == SetToSortSeq(Counting(p), <)
        names == [i \in DOMAIN counting |-> p[counting[i]]]
    IN  ~Doubled(path) =>
            Normalize(path) = CASE path = Empty -> Empty
                                [] Purged(path) = <<".">> -> GetCwdPath
                                [] p[1] = "" -> IF names = <<>> THEN Root ELSE <<"">> \o names
                                [] OTHER -> IF names = <<>> THEN Empty ELSE names

\* What the test of Normalize (TestPathUtil.cpp:302) says of "//foo/bar" on every
\* platform: it keeps its two slashes, and one is put at its end, whether it has any
\* there or not.
DoubledKept ==
    Doubled(path) /\ Len(Purged(path)) = 4 /\ IsName(path[3]) /\ IsName(path[4]) =>
        Normalize(path) = Append(Purged(path), "")

\* A path is put together again from what Dirname and Basename say of it; one level
\* down and up again is where one was; and what is put below a directory is below
\* it, in the home directory of the user too.  Where Normalize does not give what it
\* leaves alone, as for "a/../..", which becomes "..", only the first holds.
PartsRejoin ==
    LET normal == Normalize(Normalize(path))
        names == {s \in Segments : IsName(s)}
    IN  /\ Join(Dirname(path), Basename(path)) = normal
        /\ IsAbsolute(normal) /\ normal = Normalize(path) /\ normal # Root => IsRelative(path, Dirname(path))
        /\ IsAbsolute(normal) /\ normal = Normalize(path) => \A s \in names :
               LET below == Join(path, <<s>>)
               IN  /\ IsRelative(below, path) /\ Dirname(below) = normal /\ Basename(below) = <<s>>
                   /\ Extension(below) = Extension(<<s>>)
                   /\ JoinAll(<<Dirname(path), Basename(path), <<s>> >>) = below
        /\ env.XDG = Empty => \A p \in {GetAppCachePath, GetAppConfigPath, GetAppDataPath} : IsRelative(p, GetHomePath)
==============================================================================
