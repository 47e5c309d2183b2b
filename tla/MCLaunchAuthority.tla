-------------------------- MODULE MCLaunchAuthority --------------------------
(* A home directory with a workspace, a second directory, a link to it, the  *)
(* private ACS tree and two search directories.                              *)
EXTENDS LaunchAuthority

N(kind, ino) == [kind |-> kind, ino |-> <<ino>>, ver |-> 0, to |-> NoPath]
mcHome == <<"h">>
mcWorkspace == <<"h", "w">>
WorkDir == <<"h", "w", "d">>
WorkFile == <<"h", "w", "d", "f">>
WorkNew == <<"h", "w", "n">>
WorkNewFile == <<"h", "w", "n", "f">>
\* the new name is "n" composed and "m" decomposed, with capitals "N" and "M"
WorkSpelled == {<<"h", "w", "m">>, <<"h", "w", "M">>, <<"h", "w", "N">>}
\* a name with a quotation mark, and its capitals
WorkQuoted == {<<"h", "w", "q">>, <<"h", "w", "Q">>}
WorkMCP == <<"h", "w", "mcp">>
Data == <<"h", "d">>
DataFile == <<"h", "d", "f">>
DataNew == <<"h", "d", "n">>
Alias == <<"h", "l">>
Acs == <<"h", "acs">>
Key == <<"h", "acs", "k">>
mcSessions == <<"h", "acs", "s">>
mcOperations == <<"h", "acs", "o">>
mcSession == <<"h", "acs", "s", "1">>
OtherSession == <<"h", "acs", "s", "2">>
mcSessionHome == <<"h", "acs", "s", "1", "h">>
mcTemporary == <<"h", "acs", "s", "1", "t">>
Config == <<"h", "acs", "s", "1", "h", "d">>
ConfigFile == <<"h", "acs", "s", "1", "h", "d", "mcp">>
mcExecutable == <<"h", "x">>
mcSupervisor == <<"h", "v">>
mcRuntime == <<"h", "r">>
Bin1 == <<"b1">>
Bin2 == <<"b2">>
mcTool == <<"b2", "t">>
EarlierTool == <<"b1", "t">>

mcAlphabet == {"N", "M", "Q", "acs", "b1", "b2", "d", "f", "h", "k", "l", "m", "mcp", "n", "o",
               "q", "r", "s", "t", "v", "w", "x", "1", "2"}
Mapped(table) == [n \in mcAlphabet |-> IF n \in DOMAIN table THEN table[n] ELSE n]
mcFold == Mapped([N |-> "n", M |-> "n", m |-> "n", Q |-> "q"])
mcAsciiFold == Mapped([M |-> "m", Q |-> "q"])
mcNFC == Mapped([m |-> "n", M |-> "N"])
mcNFD == Mapped([n |-> "m", N |-> "M"])
mcUnmatchable == {"q", "Q"}
Dirs == {mcHome, mcWorkspace, WorkDir, Data, Acs, mcSessions, mcOperations, mcSession,
         OtherSession, mcSessionHome, mcTemporary, Config, Bin1, Bin2}
Files == {WorkFile, WorkMCP, DataFile, Key, ConfigFile, mcExecutable, mcSupervisor, mcRuntime, mcTool}
mcPaths == Dirs \cup Files \cup WorkSpelled \cup WorkQuoted
           \cup {WorkNew, WorkNewFile, DataNew, Alias, EarlierTool}
Numbered == <<mcHome, mcWorkspace, WorkDir, Data, Acs, mcSessions, mcOperations, mcSession,
              OtherSession, mcSessionHome, mcTemporary, Config, Bin1, Bin2, WorkFile, WorkMCP, DataFile,
              Key, ConfigFile, mcExecutable, mcSupervisor, mcRuntime, mcTool, Alias>>
Ino(p) == 1 + CHOOSE i \in 1 .. Len(Numbered) : Numbered[i] = p
PlainTree == [p \in mcPaths |->
    IF p = Alias THEN [kind |-> "link", ino |-> <<Ino(p)>>, ver |-> 0, to |-> Data]
    ELSE IF p \in Dirs THEN N("dir", Ino(p)) ELSE IF p \in Files THEN N("file", Ino(p)) ELSE Absent]
\* the data file is a second name of a private file
LinkedTree == [PlainTree EXCEPT ![DataFile].ino = <<Ino(Key)>>]
mcTrees == {PlainTree, LinkedTree}

G(path, relative, type, access) == [path |-> path, relative |-> relative, type |-> type, access |-> access]
Both(path, relative, type) == {G(path, relative, type, "ro"), G(path, relative, type, "rw")}
PairIntents == Both(<<"d">>, TRUE, "dir") \cup Both(<<"d", "f">>, TRUE, "file")
               \cup Both(Data, FALSE, "dir")
mcGrantIntents == PairIntents \cup Both(DataFile, FALSE, "file")
                \cup {G(Alias, FALSE, "dir", "rw"), G(Acs, FALSE, "dir", "ro"),
                      G(mcRuntime, FALSE, "file", "rw")}
X(path, relative, type) == [path |-> path, relative |-> relative, type |-> type]
AbsentIntents == {X(<<"n">>, TRUE, "dir"), X(<<"q">>, TRUE, "file")}
ExclusionIntents == {X(<<"d">>, TRUE, "dir"), X(<<"d", "f">>, TRUE, "file"), X(<<"n", "f">>, TRUE, "file"),
                     X(DataFile, FALSE, "file"), X(Append(Alias, "f"), FALSE, "file"),
                     X(DataNew, FALSE, "file")} \cup AbsentIntents
R(os, workspace, gs, xs, es, ps, mcp) ==
    [os |-> os, workspace |-> workspace, grants |-> gs, exclusions |-> xs, executables |-> es,
     protections |-> ps, mcp |-> mcp]
AtMost(n, S) == {T \in SUBSET S : Cardinality(T) <= n}
Access == {"ro", "rw"}
mcRequests ==
    {R(os, w, gs, xs, {}, {}, "none") : os \in {"darwin", "linux"}, w \in Access,
        gs \in AtMost(1, mcGrantIntents), xs \in AtMost(1, ExclusionIntents)}
    \cup {R(os, "ro", gs, xs, {}, {}, "none") : os \in {"darwin", "linux"},
             gs \in AtMost(2, PairIntents), xs \in AtMost(1, ExclusionIntents)}
    \cup {R("darwin", w, gs, xs, {}, {ConfigFile}, mcp) : w \in Access, gs \in {{}, {G(Data, FALSE, "dir", "rw")}},
             xs \in AtMost(1, ExclusionIntents), mcp \in {"none", "reserved", "selected"}}
    \cup {R("linux", "ro", {}, {}, {}, {ConfigFile}, mcp) : mcp \in {"none", "selected"}}
    \cup {R(os, "ro", gs, {}, {"t"}, {}, "none") : os \in {"darwin", "linux"},
             gs \in AtMost(1, mcGrantIntents)}
mcSpellingRequests ==
    {R("darwin", "rw", {}, {x}, {}, {}, "none") : x \in AbsentIntents}
mcHostPaths == {WorkDir, WorkNew, Data, DataFile, ConfigFile, EarlierTool}
mcLinkTargets == {Data, Acs, Key}
mcRuntimeInputs == {mcRuntime}
mcPrivate == {Key}
mcSearchPath == <<Bin1, Bin2>>
==============================================================================
