--------------------------- MODULE LaunchAuthority ---------------------------
(***************************************************************************)
(* How a launch turns the path grants, exclusions, executables and Session *)
(* protections a Profile selects into what the sandboxed target may read   *)
(* and write, while the user's other programs keep changing the disk.      *)
(*                                                                         *)
(* ACS captures every selected path once (Resolve), validates the captures *)
(* before it creates a Session (Check) and again when it builds the policy *)
(* (PrepareProcess), and validates exclusions and protections a last time  *)
(* before it starts the supervisor (StartProcess).  On macOS the policy is *)
(* the Seatbelt rule list of PrepareProcess, and the supervisor releases   *)
(* the target after a handshake, without another look at the disk          *)
(* (startSupervisor).  On Linux the supervisor takes a snapshot of its own *)
(* and compiles the mounts and Landlock rules from it (Supervise); it      *)
(* mounts the descriptors it has open, so that the snapshot is the start.  *)
(*                                                                         *)
(* Paths are sequences of names.  A node of the disk is absent, a          *)
(* directory, a file or a symbolic link, with an inode and a version (what *)
(* size and mtime tell apart).  A symbolic link points to a path without   *)
(* links.  One inspection of one launch step is atomic: the code walks     *)
(* file descriptors.  The kernel mechanisms are external: a policy means   *)
(* what CanRead and CanWrite say.                                          *)
(***************************************************************************)
EXTENDS Naturals, SequencesExt

CONSTANTS
    Alphabet,      \* the names
    Fold,          \* name -> what the volume takes it for
    AsciiFold,     \* name -> itself with its ASCII letters in lower case
    NFC, NFD,      \* name -> its composed and its decomposed form
    Unmatchable,   \* names with a quote, a backslash or a control character
    Paths,         \* every path of the instance
    Trees,         \* the disks a launch may begin with
    Requests,      \* what a Profile and an operation may select
    HostPaths,     \* paths other programs change during a launch
    LinkTargets,   \* where they may point a link
    Home, Workspace, Sessions, Operations, Session, SessionHome, Temporary,
    Executable, Supervisor, RuntimeInputs, Private, SearchPath, Tool,
    MCPNames,      \* file names reserved for MCP configuration
    Margin,        \* executableDigestReuseMargin, in clock ticks
    MaxHost,       \* bound: changes by other programs
    MaxClock       \* bound: ticks of the coarse file clock

ASSUME HostAssumption == {Margin, MaxHost, MaxClock} \subseteq Nat /\ Margin < MaxClock

VARIABLES
    fs,            \* Paths -> node
    exe,           \* [content, ctime] of the executable Tool names
    clock,         \* the clock ctime is stamped from
    host,          \* changes so far
    req,           \* the selection
    phase,         \* plan, captured, checked, prepared, starting, started, refused
    grants,        \* captured path grants
    exclusions,    \* captured exclusions
    executables,   \* captured executable grants
    protections,   \* captured Session protections
    policy         \* what the backend enforces

authorityVars == <<fs, exe, clock, host, req, phase, grants, exclusions, executables,
          protections, policy>>

NoPath == <<"?">>
\* an inode is the number of a node and the changes that replaced it by a copy
Absent == [kind |-> "absent", ino |-> <<>>, ver |-> 0, to |-> NoPath]
NoPolicy == [os |-> "none"]

-----------------------------------------------------------------------------
(* Paths                                                                    *)

withinOrEqual(root, p) == Len(root) <= Len(p) /\ SubSeq(p, 1, Len(root)) = root
pathWithin(root, p) == root # p /\ withinOrEqual(root, p)
pathsOverlap(p, q) == withinOrEqual(p, q) \/ withinOrEqual(q, p)
Dir(p) == Front(p)
Base(p) == Last(p)
Ancestors(p) == {SubSeq(p, 1, n) : n \in 0 .. Len(p) - 1}

Spelled(table, p) == [i \in 1 .. Len(p) |-> table[p[i]]]

Node(f, p) == IF p = <<>> THEN [kind |-> "dir", ino |-> <<1>>, ver |-> 0, to |-> NoPath]
              ELSE IF p \in Paths THEN f[p] ELSE Absent
Exists(f, p) == Node(f, p).kind # "absent"
IsDir(f, p) == Node(f, p).kind = "dir"
Links(f, p) == Cardinality({q \in Paths : f[q].kind = "file" /\ f[q].ino = f[p].ino})

\* from a canonical path to that of an entry; NoPath when there is none
hop(f, r, name) ==
    LET q == Append(r, name) IN
    IF r = NoPath \/ ~IsDir(f, r) \/ ~Exists(f, q) THEN NoPath
    ELSE IF Node(f, q).kind # "link" THEN q
    ELSE IF Exists(f, Node(f, q).to) THEN Node(f, q).to ELSE NoPath
\* the canonical path of each prefix of p
Traversal(f, p) ==
    LET real[n \in 0 .. Len(p)] == IF n = 0 THEN <<>> ELSE hop(f, real[n-1], p[n])
    IN  real
EvalSymlinks(f, p) == Traversal(f, p)[Len(p)]

\* Lstat: the last component itself, not what a link there points to
Lstat(f, p) ==
    IF p = <<>> THEN Node(f, p)
    ELSE LET up == EvalSymlinks(f, Dir(p))
         IN  IF up = NoPath THEN Absent ELSE Node(f, Append(up, Base(p)))

-----------------------------------------------------------------------------
(* What is assumed of the disk and of the selection                         *)

\* "?" is no name; what is above a path is a path
ASSUME PathsAssumption ==
    /\ "?" \notin Alphabet /\ {Fold, AsciiFold, NFC, NFD} \subseteq [Alphabet -> Alphabet]
    /\ Paths \subseteq Seq(Alphabet) /\ <<>> \notin Paths /\ IsFiniteSet(Paths)
    /\ \A p \in Paths : \A q \in Ancestors(p) : q = <<>> \/ q \in Paths

\* ACS's own state, the Session and what ACS runs are apart from each other, and
\* the workspace stays where it is during a launch
ASSUME PlacesAssumption ==
    /\ {Home, Workspace, Sessions, Operations, Session, SessionHome, Temporary, Executable,
        Supervisor} \cup RuntimeInputs \cup Private \cup HostPaths \cup LinkTargets \subseteq Paths
    /\ SearchPath \in Seq(Paths)
    /\ Dir(SessionHome) = Session /\ withinOrEqual(Session, Temporary) /\ pathWithin(Sessions, Session)
    /\ \A d \in Private \cup {Operations} : ~pathsOverlap(d, Sessions)
    /\ \A d \in Private \cup {Sessions, Operations},
          p \in {Executable} \cup RuntimeInputs \cup ToSet(SearchPath) : ~pathsOverlap(p, d)
    /\ \A p \in HostPaths : ~withinOrEqual(p, Workspace) /\ p \notin Private

Nodes == [kind : {"absent", "dir", "file", "link"}, ino : Seq(Nat), ver : Nat,
          to : Paths \cup {NoPath}]
WellFormed(f) ==
    /\ f \in [Paths -> Nodes]
    /\ \A p \in Paths : Exists(f, p) => f[p].ino # <<>> /\ IsDir(f, Dir(p))
    /\ \A p \in Paths : f[p].kind = "link" => f[p].to \in Paths

ASSUME TreesAssumption ==
    \A f \in Trees : WellFormed(f) /\ IsDir(f, Workspace) /\ \A p \in Paths : Len(f[p].ino) <= 1

Intents == [path : Seq(Alphabet), relative : BOOLEAN, type : {"dir", "file"}]
GrantIntents == [path : Seq(Alphabet), relative : BOOLEAN, type : {"dir", "file"}, access : {"ro", "rw"}]
Selections == [os : {"darwin", "linux"}, workspace : {"ro", "rw"}, grants : SUBSET GrantIntents,
               exclusions : SUBSET Intents, executables : SUBSET Alphabet, protections : SUBSET Paths,
               mcp : {"none", "reserved", "selected"}]

ASSUME RequestsAssumption == \A r \in Requests : r \in Selections /\ IsFiniteSet(r.protections)

-----------------------------------------------------------------------------
(* Capturing and inspecting paths                                           *)

\* device, inode and mode of every component, links not followed
inspectLogicalComponents(f, p) ==
    [n \in 1 .. Len(p) |-> LET node == Lstat(f, SubSeq(p, 1, n))
                           IN  [kind |-> node.kind, ino |-> node.ino]]
identityFromFileInfo(f, p) == LET node == Node(f, p)
                              IN  [kind |-> node.kind, ino |-> node.ino,
                                   ver |-> IF node.kind = "file" THEN node.ver ELSE 0]

\* {} when the inspection fails
inspectGrantPath(f, p, type, access) ==
    LET canonical == EvalSymlinks(f, p)
    IN  IF \/ canonical = NoPath
           \/ Node(f, canonical).kind # type
           \/ access = "rw" /\ type = "file" /\ Links(f, canonical) # 1
        THEN {}
        ELSE {[path |-> canonical, witness |-> inspectLogicalComponents(f, p),
               identity |-> identityFromFileInfo(f, canonical)]}

\* an intent's path; relative ones hang below the canonical workspace
Candidate(f, intent) == IF intent.relative
                        THEN EvalSymlinks(f, Workspace) \o intent.path ELSE intent.path
Captured(f, intent, type, access) ==
    {[logical |-> Candidate(f, intent), relative |-> intent.relative,
      type |-> type, access |-> access, effective |-> FALSE,
      workspace |-> inspectGrantPath(f, Workspace, "dir", "ro"),
      path |-> i.path, witness |-> i.witness, identity |-> i.identity] :
        i \in inspectGrantPath(f, Candidate(f, intent), type, access)}

Anchored(f, intent, p) == IF intent.relative THEN withinOrEqual(EvalSymlinks(f, Workspace), p)
                          ELSE pathWithin(Home, p)
SameFile(f, p, q) == Exists(f, q) /\ Node(f, p).ino = Node(f, q).ino

GrantAllowed(f, intent, g) ==
    /\ Anchored(f, intent, g.path)
    /\ \A d \in Private \cup {Sessions} :
          ~pathsOverlap(g.path, d) /\ ~(intent.type = "file" /\ SameFile(f, g.path, d))
    /\ intent.access = "rw" =>
          \A d \in RuntimeInputs \cup {Executable} :
             ~pathsOverlap(g.path, d) /\ ~(intent.type = "file" /\ SameFile(f, g.path, d))

\* The code walks the grants in an order in which a grant comes after those that
\* cover it and skips a covered one; of equal grants it keeps one, which is the
\* same policy as keeping them all.
dominates(h, g) == withinOrEqual(h.path, g.path) /\ (h.access = "rw" \/ g.access = "ro")
reduceFilesystemGrants(gs, workspace, access) ==
    LET covered(g) == withinOrEqual(workspace, g.path) /\ (g.access = "ro" \/ access = "rw")
    IN  {[g EXCEPT !.effective = /\ ~covered(g)
                                 /\ \A h \in gs : dominates(h, g) => dominates(g, h)] : g \in gs}

GrantFor(f, intent) == {g \in Captured(f, intent, intent.type, intent.access) :
                           GrantAllowed(f, intent, g)}
\* {} when some selected grant is refused, else the one set of captured grants
ResolveFilesystemGrants(f, intents, access) ==
    LET workspace == EvalSymlinks(f, Workspace)
    IN  IF \/ \E d \in Private \cup {Sessions} : pathsOverlap(workspace, d)
           \/ \E intent \in intents : GrantFor(f, intent) = {}
        THEN {}
        ELSE {reduceFilesystemGrants(UNION {GrantFor(f, intent) : intent \in intents},
                                     workspace, access)}

\* the deepest existing prefix of p (p itself when it exists)
nearestExistingAncestor(f, p) ==
    SubSeq(p, 1, CHOOSE n \in 0 .. Len(p) :
                    /\ Lstat(f, SubSeq(p, 1, n)).kind # "absent"
                    /\ \A m \in n + 1 .. Len(p) : Lstat(f, SubSeq(p, 1, m)).kind = "absent")

ExclusionFor(f, intent) ==
    LET logical == Candidate(f, intent)
        near == nearestExistingAncestor(f, logical)
        exists == near = logical
        type == IF exists THEN intent.type ELSE "dir"
        rest == SubSeq(logical, Len(near) + 1, Len(logical))
        found == inspectGrantPath(f, near, type, "ro")
    IN  {x \in {[logical |-> logical, path |-> i.path \o rest, exists |-> exists,
                 firstMissing |-> IF exists THEN NoPath ELSE SubSeq(logical, 1, Len(near) + 1),
                 witness |-> [logical |-> near, relative |-> intent.relative, type |-> type,
                              access |-> "ro", path |-> i.path, witness |-> i.witness,
                              identity |-> i.identity,
                              workspace |-> inspectGrantPath(f, Workspace, "dir", "ro")]] :
                    i \in found} :
            /\ Anchored(f, intent, x.path)
            /\ ~pathsOverlap(x.path, Sessions)
            /\ ~pathsOverlap(x.path, Operations)}
ResolveFilesystemExclusions(f, intents) ==
    IF \E intent \in intents : ExclusionFor(f, intent) = {} THEN {}
    ELSE {UNION {ExclusionFor(f, intent) : intent \in intents}}

\* the first directory of the constant search path that holds the tool
fixedSearchExecutable(f, name) ==
    LET held == {i \in 1 .. Len(SearchPath) :
                    LET p == EvalSymlinks(f, Append(SearchPath[i], name))
                    IN  p # NoPath /\ Node(f, p).kind = "file"}
    IN  IF held = {} THEN NoPath
        ELSE Append(SearchPath[CHOOSE i \in held : \A j \in held : i <= j], name)

DigestReusableAlways(ctime, now) == TRUE
\* a file changed within Margin of its hash is hashed again every time
digestReusable(ctime, now) == ctime + Margin < now

\* what a hash of the selected executable gives; other files have their version
Content(f, p, x) == IF p = Tool THEN x.content ELSE Node(f, p).ver
Changed(f, p, x) == IF p = Tool THEN x.ctime ELSE 0

ExecutableFor(f, x, now, name) ==
    LET logical == fixedSearchExecutable(f, name)
    IN  {[name |-> name, logical |-> logical, path |-> i.path, witness |-> i.witness,
          identity |-> i.identity, digest |-> Content(f, i.path, x),
          ctime |-> Changed(f, i.path, x),
          reusable |-> digestReusable(Changed(f, i.path, x), now)] :
            i \in {j \in inspectGrantPath(f, logical, "file", "ro") :
                      \A d \in Private \cup {Sessions} :
                         ~pathsOverlap(j.path, d) /\ ~SameFile(f, j.path, d)}}
ResolveExecutableGrants(f, x, now, names) ==
    IF \E name \in names : ExecutableFor(f, x, now, name) = {} THEN {}
    ELSE {UNION {ExecutableFor(f, x, now, name) : name \in names}}

-----------------------------------------------------------------------------
(* Validating captures again                                                *)

Unchanged(f, g) ==
    \E i \in inspectGrantPath(f, g.logical, g.type, g.access) :
       i.path = g.path /\ i.identity = g.identity /\ i.witness = g.witness

revalidateFilesystemGrants(f, gs) ==
    \A g \in gs :
       /\ g.relative => inspectGrantPath(f, Workspace, "dir", "ro") = g.workspace
       /\ Unchanged(f, g)
       /\ ~pathsOverlap(g.path, Sessions) /\ ~pathsOverlap(g.path, Operations)

RevalidateExclusionsByWitness(f, xs) == \A x \in xs : revalidateFilesystemGrants(f, {x.witness})
revalidateFilesystemExclusions(f, xs) ==
    \A x \in xs :
       /\ revalidateFilesystemGrants(f, {x.witness})
       /\ x.exists \/ Lstat(f, x.firstMissing).kind = "absent"

revalidateExecutableGrants(f, x, es) ==
    \A e \in es :
       /\ fixedSearchExecutable(f, e.name) = e.logical
       /\ \E i \in inspectGrantPath(f, e.logical, "file", "ro") :
             /\ i.path = e.path /\ i.identity = e.identity /\ i.witness = e.witness
             /\ \/ e.reusable /\ e.ctime = Changed(f, e.path, x)
                \/ e.digest = Content(f, e.path, x)
       /\ ~pathsOverlap(e.path, Sessions) /\ ~pathsOverlap(e.path, Operations)

validateExclusionRequirements(xs, gs, es, required) ==
    \A x \in xs :
       /\ \A g \in gs : ~withinOrEqual(x.path, g.path)
       /\ \A e \in es : ~pathsOverlap(x.path, e.path)
       /\ \A p \in required : ~pathsOverlap(x.path, p)

broadRuntimeInput(p, workspace) == \/ p \in {<<>>, workspace, Sessions}
                                   \/ pathWithin(p, workspace) \/ pathWithin(p, Sessions)

validateSandboxCheck(f, x, gs, xs, es) ==
    LET workspace == EvalSymlinks(f, Workspace)
    IN  /\ workspace # NoPath /\ IsDir(f, workspace)
        /\ workspace \notin {<<>>, Sessions}
        /\ ~pathWithin(workspace, Sessions) /\ ~pathsOverlap(workspace, Operations)
        /\ EvalSymlinks(f, Executable) # NoPath
        /\ \A p \in RuntimeInputs : /\ EvalSymlinks(f, p) # NoPath
                                    /\ ~broadRuntimeInput(p, workspace)
                                    /\ ~pathsOverlap(p, Operations)
        /\ revalidateFilesystemGrants(f, gs)
        /\ revalidateExecutableGrants(f, x, es)
        /\ revalidateFilesystemExclusions(f, xs)
        /\ xs # {} =>
              /\ EvalSymlinks(f, Supervisor) # NoPath
              /\ validateExclusionRequirements(xs, gs, es,
                    {Executable, Sessions, Operations, EvalSymlinks(f, Supervisor)} \cup RuntimeInputs)

ProtectionFor(f, p) ==
    {[path |-> p, recursive |-> IsDir(f, p), witness |-> i.witness, identity |-> i.identity] :
        i \in {j \in inspectGrantPath(f, p, Node(f, p).kind, "ro") :
                  j.path = p /\ pathWithin(SessionHome, p)}}
SessionRoots(f) == {[path |-> p, recursive |-> FALSE, witness |-> i.witness, identity |-> i.identity] :
                       i \in inspectGrantPath(f, Session, "dir", "rw"), p \in {Session}}
                   \cup {[path |-> p, recursive |-> FALSE, witness |-> i.witness,
                          identity |-> i.identity] :
                            i \in inspectGrantPath(f, SessionHome, "dir", "rw"), p \in {SessionHome}}

revalidateSessionProtections(f, ps, xs) ==
    /\ revalidateFilesystemExclusions(f, xs)
    /\ \A r \in ps :
          \E i \in inspectGrantPath(f, r.path, Node(f, r.path).kind, "ro") :
             i.path = r.path /\ i.identity = r.identity /\ i.witness = r.witness

-----------------------------------------------------------------------------
(* macOS: the Seatbelt rule list.  Later denials override earlier allows.   *)

\* a path matches the pattern of another when its ASCII letters in lower case
\* are one of these; some names have no pattern
AsciiPath(p) == Spelled(AsciiFold, p)
seatbeltSpellingInsensitivePattern(p) ==
    IF \E i \in 1 .. Len(p) : p[i] \in Unmatchable THEN {}
    ELSE {AsciiPath(Spelled(form, p)) : form \in {NFC, NFD}}

\* an absent name is denied in other spellings as well
seatbeltAbsentExclusionSpellingRules(x) ==
    IF x.exists THEN {}
    ELSE UNION {seatbeltSpellingInsensitivePattern(p) : p \in {x.logical, x.path}}
AbsentParents(x) ==
    IF x.exists THEN {}
    ELSE LET missing == Len(x.logical) - Len(x.firstMissing)
             up(p) == {SubSeq(p, 1, Len(p) - n) : n \in 1 .. missing}
         IN  UNION {seatbeltSpellingInsensitivePattern(a) : a \in up(x.logical) \cup up(x.path)}

\* ancestors of a protection, up to but not including the Session home
ProtectionAncestors(p) == {a \in Ancestors(p) : pathWithin(SessionHome, a)}

ExclusionAncestorsLogical(x) == Ancestors(x.logical)
ExclusionAncestors(x) == Ancestors(x.logical) \cup Ancestors(x.path)

buildSeatbeltPolicy(r, gs, xs, es, ps, workspace) ==
    LET effective == {g \in gs : g.effective}
        writable == {g \in effective : g.access = "rw"}
        trees(s) == {g.path : g \in {h \in s : h.type = "dir"}}
        files(s) == {g.path : g \in {h \in s : h.type = "file"}}
    IN  [os |-> "darwin",
         readTrees |-> {workspace, Session} \cup RuntimeInputs \cup trees(effective),
         readFiles |-> {Executable} \cup files(effective)
                       \cup {e.path : e \in es} \cup {e.logical : e \in es},
         writeTrees |-> {Session} \cup trees(writable)
                        \cup (IF r.workspace = "rw" THEN {workspace} ELSE {}),
         writeFiles |-> files(writable),
         fixedFiles |-> {q.path : q \in ps} \cup {Session, SessionHome}
                        \cup (UNION {ProtectionAncestors(q.path) : q \in ps})
                        \cup (UNION {ExclusionAncestors(x) : x \in xs}),
         fixedTrees |-> {q.path : q \in {q \in ps : q.recursive}},
         deniedTrees |-> {x.logical : x \in xs} \cup {x.path : x \in xs},
         deniedSpellings |-> UNION {seatbeltAbsentExclusionSpellingRules(x) : x \in xs},
         fixedSpellings |-> UNION {AbsentParents(x) : x \in xs},
         mcp |-> r.mcp]

Under(trees, p) == \E t \in trees : withinOrEqual(t, p)
SeatbeltDenied(q, p) == Under(q.deniedTrees, p) \/ Under(q.deniedSpellings, AsciiPath(p))
\* the selected MCP configuration is the one protection
SeatbeltRead(q, ps, p) ==
    /\ Under(q.readTrees, p) \/ p \in q.readFiles
    /\ ~SeatbeltDenied(q, p)
    /\ \/ q.mcp = "none" \/ Base(p) \notin MCPNames
       \/ q.mcp = "selected" /\ \E r \in ps : r.path = p
SeatbeltWrite(q, p) ==
    /\ Under(q.writeTrees, p) \/ p \in q.writeFiles
    /\ ~SeatbeltDenied(q, p)
    /\ p \notin q.fixedFiles /\ ~Under(q.fixedTrees, p)
    /\ AsciiPath(p) \notin q.fixedSpellings

-----------------------------------------------------------------------------
(* Linux: the mounts of a private root, and Landlock rules inside it        *)

Authority(p, access, type, required, session) ==
    [path |-> p, access |-> access, type |-> type, required |-> required, session |-> session]
LinuxAuthorities(r, f, gs, es, workspace) ==
    {Authority(workspace, r.workspace, "dir", FALSE, FALSE),
     Authority(SessionHome, "rw", "dir", FALSE, TRUE),
     Authority(Temporary, "rw", "dir", FALSE, TRUE),
     Authority(Executable, "ro", "file", TRUE, FALSE)}
    \cup {Authority(g.path, g.access, g.type, FALSE, FALSE) : g \in {h \in gs : h.effective}}
    \cup {Authority(e.path, "ro", "file", TRUE, FALSE) : e \in es}
    \cup {Authority(p, "ro", IF IsDir(f, p) THEN "dir" ELSE "file", TRUE, FALSE) : p \in RuntimeInputs}

LinuxExclusionSound(f, x) ==
    /\ x.logical = x.path
    /\ x.exists = Exists(f, x.path)
    /\ x.exists => x.witness.path = x.path
    /\ ~x.exists => /\ Dir(x.firstMissing) = x.witness.path
                    /\ IsDir(f, x.witness.path)
                    /\ ~Exists(f, x.firstMissing)

LinuxAuthoritySound(f, a, all, denied, protected) ==
    /\ Len(a.path) > 1
    /\ Exists(f, a.path) /\ (a.type = "dir" <=> IsDir(f, a.path))
    /\ a.session \/ ~pathsOverlap(Sessions, a.path)
    /\ \A p \in {Operations} : ~pathsOverlap(p, a.path)
    /\ \A p \in denied : ~withinOrEqual(p, a.path) /\ (a.required => ~pathsOverlap(p, a.path))
    /\ a.access = "rw" => \A p \in denied \cup protected : ~pathsOverlap(p, a.path)
    /\ a.required => \A o \in all : o.access = "rw" => ~pathsOverlap(o.path, a.path)

\* every node the authority reaches and no exclusion removes is a plain
\* directory or a file with one link
validateTree(f, root, denied) ==
    \A p \in {q \in Paths : withinOrEqual(root, q) /\ Exists(f, q) /\ ~Under(denied, q)} :
       /\ Node(f, p).kind \in {"dir", "file"}
       /\ Node(f, p).kind = "file" => /\ Links(f, p) = 1
                                      /\ ~\E d \in denied : pathWithin(p, d)

\* directories on the way to a denial are rebuilt empty in the private root;
\* their other children, and authorities without a denial below, are bound
Rebuilt(f, denied, a) == {p \in Paths : /\ withinOrEqual(a.path, p) /\ IsDir(f, p)
                                        /\ ~Under(denied, p)
                                        /\ \E d \in denied : pathWithin(p, d)}
BoundWithDenied(f, denied, a) ==
    LET rebuilt == Rebuilt(f, denied, a)
    IN  {p \in ({a.path} \cup {q \in Paths : Dir(q) \in rebuilt}) \ rebuilt : Exists(f, p)}
Bound(f, denied, a) ==
    LET rebuilt == Rebuilt(f, denied, a)
    IN  {p \in ({a.path} \cup {q \in Paths : Dir(q) \in rebuilt}) \ rebuilt :
            Exists(f, p) /\ ~Under(denied, p)}
UnionAccessOverlapping(all, a, p) ==
    IF \E o \in all : o.access = "rw" /\ pathsOverlap(o.path, p) THEN "rw" ELSE a.access
\* a read-only authority below a writable one is writable
UnionAccess(all, a, p) == IF a.access = "rw" \/ \E o \in all : o.access = "rw" /\ withinOrEqual(o.path, p)
                          THEN "rw" ELSE "ro"

LinuxMounts(f, all, denied) ==
    LET binds == UNION {{[path |-> p, access |-> UnionAccess(all, a, p)] :
                           p \in Bound(f, denied, a)} : a \in all}
        writable == {b.path : b \in {c \in binds : c.access = "rw"}}
    IN  [os |-> "linux",
         readonly |-> {b.path : b \in binds} \ writable,
         writable |-> writable,
         rebuilt |-> UNION {Rebuilt(f, denied, a) : a \in all}]

\* {} when the request cannot be represented
compileLinuxFilesystemPlan(r, f, gs, xs, es, ps, workspace) ==
    LET all == LinuxAuthorities(r, f, gs, es, workspace)
        denied == {x.path : x \in xs}
        protected == {q.path : q \in ps}
    IN  IF /\ r.mcp = "none"
           /\ \A g \in gs : g.logical = g.path /\ identityFromFileInfo(f, g.path) = g.identity
           /\ \A e \in es : e.logical = e.path /\ identityFromFileInfo(f, e.path) = e.identity
           /\ \A x \in xs : /\ LinuxExclusionSound(f, x)
                            /\ identityFromFileInfo(f, x.witness.path) = x.witness.identity
           /\ \A a \in all : LinuxAuthoritySound(f, a, all, denied, protected)
           /\ \A a \in all : validateTree(f, a.path, denied)
        THEN {LinuxMounts(f, all, denied)} ELSE {}

\* the mount that covers p: the deepest one at or above it
Covering(q, p) == LET above == {m \in q.readonly \cup q.writable \cup q.rebuilt : withinOrEqual(m, p)}
                  IN  {m \in above : \A n \in above : Len(n) <= Len(m)}
LinuxRead(q, f, p) == \E m \in Covering(q, p) : IF m \in q.rebuilt THEN m = p ELSE Exists(f, p)
LinuxWrite(q, f, p) == \E m \in Covering(q, p) : m \in q.writable /\ (m = p \/ IsDir(f, Dir(p)))

CanRead(p) == CASE policy.os = "darwin" -> SeatbeltRead(policy, protections, p)
                [] policy.os = "linux" -> LinuxRead(policy, fs, p)
                [] OTHER -> FALSE
CanWrite(p) == CASE policy.os = "darwin" -> SeatbeltWrite(policy, p)
                 [] policy.os = "linux" -> LinuxWrite(policy, fs, p)
                 [] OTHER -> FALSE

-----------------------------------------------------------------------------
(* The launch                                                               *)

launchVars == <<req, grants, exclusions, executables, protections, policy>>
hostVars == <<fs, exe, clock, host>>

LaunchInit ==
    /\ fs \in Trees /\ req \in Requests
    /\ exe = [content |-> 0, ctime |-> 0] /\ host = 0
    /\ clock \in IF req.executables = {} THEN {0} ELSE {0, Margin + 1}
    /\ phase = "plan"
    /\ grants = {} /\ exclusions = {} /\ executables = {} /\ protections = {}
    /\ policy = NoPolicy

Refuse == phase' = "refused" /\ UNCHANGED <<hostVars, launchVars>>

Resolve ==
    /\ phase = "plan"
    /\ LET gs == ResolveFilesystemGrants(fs, req.grants, req.workspace)
           xs == ResolveFilesystemExclusions(fs, req.exclusions)
           es == ResolveExecutableGrants(fs, exe, clock, req.executables)
       IN  IF {} \in {gs, xs, es} THEN Refuse
           ELSE /\ grants' = CHOOSE s \in gs : TRUE
                /\ exclusions' = CHOOSE s \in xs : TRUE
                /\ executables' = CHOOSE s \in es : TRUE
                /\ phase' = "captured"
                /\ UNCHANGED <<hostVars, req, protections, policy>>

Check ==
    /\ phase = "captured"
    /\ IF validateSandboxCheck(fs, exe, grants, exclusions, executables)
       THEN phase' = "checked" /\ UNCHANGED <<hostVars, launchVars>>
       ELSE Refuse

\* {} when the backend refuses
BackendPolicy(f, ps) ==
    LET workspace == EvalSymlinks(f, Workspace)
    IN  IF req.os = "darwin"
        THEN {buildSeatbeltPolicy(req, grants, exclusions, executables, ps, workspace)}
        ELSE compileLinuxFilesystemPlan(req, f, grants, exclusions, executables, ps, workspace)

PrepareProcess ==
    /\ phase = "checked"
    /\ LET ps == UNION {ProtectionFor(fs, p) : p \in req.protections}
       IN  IF /\ validateSandboxCheck(fs, exe, grants, exclusions, executables)
              /\ Cardinality(SessionRoots(fs)) = 2
              /\ Cardinality(ps) = Cardinality(req.protections)
              /\ BackendPolicy(fs, ps) # {}
           THEN /\ protections' = ps \cup SessionRoots(fs)
                /\ policy' = CHOOSE q \in BackendPolicy(fs, ps) : TRUE
                /\ phase' = "prepared"
                /\ UNCHANGED <<hostVars, req, grants, exclusions, executables>>
           ELSE Refuse

StartProcess ==
    /\ phase = "prepared"
    /\ IF \/ req.protections = {} /\ exclusions = {}
          \/ revalidateSessionProtections(fs, protections, exclusions)
       THEN phase' = "starting" /\ UNCHANGED <<hostVars, launchVars>>
       ELSE Refuse

\* the macOS supervisor answers, is what was spawned, and gets the start byte
startSupervisor ==
    /\ phase = "starting" /\ req.os = "darwin"
    /\ \/ phase' = "started" /\ UNCHANGED <<hostVars, launchVars>>
       \/ Refuse

\* the Linux supervisor knows the captured paths, not the captured identities:
\* it takes the identities of its own snapshot and compiles the plan again
Supervise ==
    /\ phase = "starting" /\ req.os = "linux"
    /\ LET now(g) == [g EXCEPT !.logical = g.path, !.identity = identityFromFileInfo(fs, g.path)]
           gs == {now(g) : g \in grants}
           xs == {[x EXCEPT !.witness.identity = identityFromFileInfo(fs, x.witness.path)] :
                     x \in exclusions}
           es == {now(e) : e \in executables}
           ps == {q \in protections : q.path \in req.protections}
           plan == compileLinuxFilesystemPlan(req, fs, gs, xs, es, ps, EvalSymlinks(fs, Workspace))
       IN  IF plan # {} /\ \A g \in gs \cup es : Exists(fs, g.path)
           THEN /\ policy' = CHOOSE q \in plan : TRUE
                /\ phase' = "started"
                /\ UNCHANGED <<hostVars, req, grants, exclusions, executables, protections>>
           ELSE Refuse

-----------------------------------------------------------------------------
(* Other programs                                                           *)

HostMay == phase \in {"captured", "checked", "prepared", "starting"} /\ host < MaxHost
HostStep(next) == /\ fs' = next /\ host' = host + 1
                  /\ UNCHANGED <<exe, clock, phase, launchVars>>
Below(p) == {q \in Paths : withinOrEqual(p, q)}

\* a copy takes the place of p
HostReplace(p) ==
    /\ HostMay /\ fs[p].kind \in {"dir", "file"}
    /\ HostStep([q \in Paths |-> IF q \in Below(p) /\ fs[q].kind # "absent"
                                 THEN [fs[q] EXCEPT !.ino = Append(@, host + 1)] ELSE fs[q]])
HostRemove(p) ==
    /\ HostMay /\ fs[p].kind # "absent"
    /\ HostStep([q \in Paths |-> IF q \in Below(p) THEN Absent ELSE fs[q]])
HostLink(p, to) ==
    /\ HostMay /\ IsDir(fs, Dir(p)) /\ ~pathsOverlap(p, to) /\ Exists(fs, to)
    /\ HostStep([q \in Paths |->
           IF q = p THEN [kind |-> "link", ino |-> <<0, host + 1>>, ver |-> 0, to |-> to]
           ELSE IF q \in Below(p) THEN Absent ELSE fs[q]])
\* p becomes a second name of a file
HostHardlink(p, to) ==
    /\ HostMay /\ ~IsDir(fs, p) /\ IsDir(fs, Dir(p)) /\ fs[to].kind = "file"
    /\ HostStep([fs EXCEPT ![p] = fs[to]])
HostCreate(p, kind) ==
    /\ HostMay /\ fs[p].kind = "absent" /\ IsDir(fs, Dir(p))
    /\ HostStep([fs EXCEPT ![p] = [kind |-> kind, ino |-> <<0, host + 1>>, ver |-> 0, to |-> NoPath]])
\* a file is written, under each of its names
HostWrite(p) ==
    /\ HostMay /\ fs[p].kind = "file"
    /\ HostStep([q \in Paths |-> IF fs[q].ino = fs[p].ino THEN [fs[q] EXCEPT !.ver = @ + 1] ELSE fs[q]])
\* the tool is rewritten in place, its size and mtime put back
HostPatch ==
    /\ HostMay /\ req.executables # {}
    /\ exe' = [content |-> exe.content + 1, ctime |-> clock]
    /\ host' = host + 1
    /\ UNCHANGED <<fs, clock, phase, launchVars>>
\* time shows only in the ctime of a selected executable
Tick ==
    /\ req.executables # {} /\ clock < MaxClock /\ phase \in {"captured", "checked"}
    /\ clock' = clock + 1
    /\ UNCHANGED <<fs, exe, host, phase, launchVars>>

HostNext ==
    \/ \E p \in HostPaths : \/ HostReplace(p) \/ HostRemove(p) \/ HostWrite(p)
                            \/ \E to \in LinkTargets : HostLink(p, to) \/ HostHardlink(p, to)
                            \/ \E kind \in {"dir", "file"} : HostCreate(p, kind)
    \/ HostPatch \/ Tick

LaunchNext == \/ Resolve \/ Check \/ PrepareProcess
              \/ StartProcess \/ startSupervisor \/ Supervise
              \/ HostNext
LaunchSpec == LaunchInit /\ [][LaunchNext]_authorityVars

-----------------------------------------------------------------------------
(* Properties                                                               *)

Started == phase = "started"

\* The type invariant of the launch and of what it captured.
LaunchTypeOK ==
    /\ WellFormed(fs) /\ exe \in [content : Nat, ctime : Nat]
    /\ phase \in {"plan", "captured", "checked", "prepared", "starting", "started", "refused"}
    /\ host \in 0 .. MaxHost /\ clock \in 0 .. MaxClock
    /\ \A g \in grants : g.path \in Paths /\ g.effective \in BOOLEAN
    /\ policy.os = IF phase \in {"prepared", "starting", "started"} THEN req.os
                   ELSE IF phase = "refused" THEN policy.os ELSE "none"

\* Where the workspace and the selected grants say the target may go.  The
\* selection is read here, not the reduced list the backends work from.
Selected(access) == {g \in grants : g.access \in access}
Covers(g, p) == IF g.type = "dir" THEN withinOrEqual(g.path, p) ELSE g.path = p
GrantedRead(p) == \/ withinOrEqual(Workspace, p) \/ withinOrEqual(Session, p)
                  \/ \E g \in grants : Covers(g, p)
                  \/ \E t \in RuntimeInputs \cup {Executable} \cup {e.path : e \in executables}
                                             \cup {e.logical : e \in executables} : withinOrEqual(t, p)
GrantedWrite(p) == \/ req.workspace = "rw" /\ withinOrEqual(Workspace, p)
                   \/ withinOrEqual(Session, p)
                   \/ \E g \in Selected({"rw"}) : Covers(g, p)

\* A target reads and writes nothing that was not selected: dropping grants
\* that others cover, rebuilding a directory around a denial and taking the
\* union of overlapping grants never add authority (reduceFilesystemGrants,
\* emit of the Linux compiler, the Seatbelt allow lists).
NothingBeyondSelection ==
    Started => \A p \in Paths : /\ CanRead(p) => GrantedRead(p)
                                /\ CanWrite(p) => GrantedWrite(p)

\* p is, or leads to, an absent excluded path in a spelling the rules cover.
Respells(x, p) == ~x.exists /\ \E r \in {x.logical, x.path} :
                      /\ \E form \in {NFC, NFD} :
                            pathsOverlap(AsciiPath(Spelled(form, r)), AsciiPath(p))
                      /\ ~pathsOverlap(r, p)

\* Nothing that was selected is lost, except where an exclusion or a
\* protection says so: every grant, also one the reduction called redundant,
\* is readable below, and writable where it was selected read-write.
SelectionHonoured ==
    Started => \A g \in grants : \A p \in {q \in Paths : Covers(g, q)} :
        /\ (/\ Exists(fs, p) /\ Base(p) \notin MCPNames
            /\ ~\E x \in exclusions : \/ withinOrEqual(x.path, p) \/ withinOrEqual(x.logical, p)
                                      \/ Respells(x, p))
           => CanRead(p)
        /\ (/\ g.access = "rw" /\ (Exists(fs, p) \/ IsDir(fs, Dir(p)))
            /\ ~\E x \in exclusions : \/ pathsOverlap(x.path, p) \/ pathsOverlap(x.logical, p)
                                      \/ Respells(x, p))
           => CanWrite(p)

\* The compiled policy is exactly the selection, in either backend: reduction,
\* reconstruction around denials and unions neither add nor lose authority.
AuthorityIsExact == LaunchTypeOK /\ NothingBeyondSelection /\ SelectionHonoured

\* When the target starts, it may neither read nor write what lies at or below
\* the name a Profile excludes or the place that name led to - for an absent
\* path on macOS in any case of the ASCII letters of its two normal forms, if
\* its name can be put into a rule - and may write (rename, replace by a link)
\* no directory above it.
ExclusionsHold ==
    Started => \A x \in exclusions :
        /\ \A p \in Paths : (\/ withinOrEqual(x.logical, p)
                             \/ withinOrEqual(x.path, p)
                             \/ /\ policy.os = "darwin" /\ ~x.exists
                                /\ Under(seatbeltSpellingInsensitivePattern(x.path), AsciiPath(p)))
                            => ~CanRead(p) /\ ~CanWrite(p)
        /\ \A p \in Ancestors(x.path) : ~CanWrite(p)

\* A target may neither write a file ACS put into the Session for it to read
\* nor any directory between that file and the Session root.
ProtectionsHold ==
    Started => \A q \in {r \in protections : r.path \in req.protections} :
        /\ ~CanWrite(q.path)
        /\ \A a \in Ancestors(q.path) : ~CanWrite(a)

\* Recovery evidence, other Sessions and ACS's private files are out of reach;
\* on Linux no file in reach is another name of a private file either, a link
\* another program made between the captures and the snapshot included.
PrivateStateHidden ==
    Started => \A p \in Paths :
        CanRead(p) \/ CanWrite(p) =>
            /\ ~withinOrEqual(Operations, p)
            /\ withinOrEqual(Sessions, p) => withinOrEqual(Session, p)
            /\ \A d \in Private :
                  /\ p # d
                  /\ policy.os = "linux" /\ Node(fs, p).kind = "file" /\ Node(fs, d).kind = "file"
                     => ~SameFile(fs, p, d)

\* What a started target is denied by name, whatever other programs did to the
\* disk since the captures and up to the start: exclusions, Session
\* protections and ACS's own state (the rules of both backends).
DenialsHold == ExclusionsHold /\ ProtectionsHold /\ PrivateStateHidden

\* What the validations accept is what was captured.  A launch is prepared
\* only while no granted file is another name of a private file, and its
\* supervisor started only while an excluded name leads nowhere or to the
\* place it led to and every protected file is the captured one, whatever
\* other programs did between capture and validation (validateSandboxCheck,
\* sanitizedProcess.Start).  What they do after the last validation the
\* Seatbelt rules do not see.
AcceptedAsCaptured ==
    [][/\ phase' = "prepared" /\ phase # "prepared" =>
             \A g \in grants, d \in Private : g.type = "file" => ~SameFile(fs, g.path, d)
       /\ phase' = "starting" /\ phase # "starting" =>
             /\ \A x \in exclusions : EvalSymlinks(fs, x.logical) \in {x.path, NoPath}
             /\ req.protections # {} =>
                   \A q \in protections : identityFromFileInfo(fs, q.path) = q.identity
      ]_authorityVars

\* An excluded path that does not exist yet stays denied under every name the
\* volume takes for it (docs: matched without letter-case sensitivity).
AbsentSpellingsDenied ==
    Started /\ policy.os = "darwin" =>
        \A x \in {y \in exclusions : ~y.exists} : \A p \in Paths :
            withinOrEqual(Spelled(Fold, x.path), Spelled(Fold, p)) => ~CanRead(p) /\ ~CanWrite(p)

\* The tool a launch makes visible has the bytes that were hashed when it was
\* selected, at every validation that accepts it: a digest is reused only
\* where no write can have gone unnoticed.
ExecutableAsHashed ==
    [][phase' \in {"checked", "prepared"} /\ phase' # phase =>
          \A e \in executables : /\ Content(fs, e.path, exe) = e.digest
                                 /\ fixedSearchExecutable(fs, e.name) = e.logical]_authorityVars

\* When both backends can represent a request, they give it the same meaning
\* outside the Session directory.
BackendsAgree ==
    phase = "checked" =>
        LET ps == UNION {ProtectionFor(fs, p) : p \in req.protections}
            workspace == EvalSymlinks(fs, Workspace)
            darwin == buildSeatbeltPolicy(req, grants, exclusions, executables, ps, workspace)
        IN  workspace # NoPath =>
            \A linux \in compileLinuxFilesystemPlan(req, fs, grants, exclusions, executables,
                                                    ps, workspace) :
            \A p \in {q \in Paths : ~withinOrEqual(Sessions, q) /\ Exists(fs, q)} :
               (\A x \in exclusions : ~Respells(x, p)) =>
                  /\ LinuxRead(linux, fs, p) = SeatbeltRead(darwin, ps, p)
                  /\ LinuxWrite(linux, fs, p) = SeatbeltWrite(darwin, p)

=============================================================================
