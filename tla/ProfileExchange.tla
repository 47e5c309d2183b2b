--------------------------- MODULE ProfileExchange ---------------------------
(***************************************************************************)
(* Profiles between two hosts (internal/profileexchange, exchangefile,     *)
(* cli/profile_exchange.go).  Exporters on host A turn the stored Profile  *)
(* into a document without anything of the host in it and publish it as a  *)
(* new file; an importer on host B admits a document, which a user may     *)
(* have edited, resolves its symbols with the bindings of its own host and *)
(* creates a Profile if the name is still free.                            *)
(*                                                                         *)
(* Abstractions.  Entry ids and values are numbers; a reference has a kind *)
(* and a value, "local" is what belongs to one host, "bound" a symbol of   *)
(* the document.  JSON syntax, size limits and path cleaning are left out, *)
(* the limit on bindings and the versions of the format are kept.          *)
(***************************************************************************)
EXTENDS Naturals, FiniteSets

CONSTANTS
    Exporters,
    Profiles,       \* Profiles host A may have stored
    Values,         \* values of host A: paths, executables, secrets, identities
    MaxBindings,    \* maxBindings
    MaxEdits,       \* bound: changes other commands make to stored Profiles
    MaxFaults       \* bound: failing steps, kills, losses of power

\* Skill and instruction sources in the order of their names.
Instructions == 1
SkillSources == {2, 3}

\* Value v of host A is B(v) on host B.
B(v) == v + 10
HostB == {B(v) : v \in Values}

VARIABLES
    stored,     \* host A's Profile
    exp,        \* every exporter's locals
    temp,       \* its temporary file: none, torn, written, synced
    dest,       \* the destination file
    imp,        \* the importer's locals
    store,      \* host B's Profile of that name
    edits, faults

vars == <<stored, exp, temp, dest, imp, store, edits, faults>>
hostA == <<stored, exp, temp, dest>>
Fault == faults < MaxFaults /\ faults' = faults + 1

-----------------------------------------------------------------------------
(* The intents of a Profile. *)

Of(f, kind) == {i \in DOMAIN f : f[i].kind = kind}
injective(f) == \A i, j \in DOMAIN f : f[i] = f[j] => i = j

\* pathintent.Canonical, exclusionintent.Canonical: no destination twice among
\* the paths, none twice among the exclusions.
CanonicalPaths(f) == injective(f) /\ Of(f, "workspace") \cup Of(f, "local") = DOMAIN f
CanonicalExclusions(f) == injective(f) /\ Of(f, "workspace") \cup Of(f, "local") = DOMAIN f

\* executableintent.Canonical.
CanonicalExecutables(f) ==
    injective(f) /\ Of(f, "name") \cup Of(f, "workspace") \cup Of(f, "local") = DOMAIN f

\* environmentintent.Canonical: a host variable, or a required secret.
CanonicalEnvironment(f) == Of(f, "host") \cup Of(f, "local") = DOMAIN f

\* mcpintent.ValidateReferences: an MCP server names selected entries, and a
\* secret is never one of its arguments.
ValidReferences(p) ==
    \A s \in p.mcp : s.exe \in DOMAIN p.exes /\ s.inp \in DOMAIN p.paths /\ s.arg \in Of(p.env, "host")

Selections(p) ==
    /\ CanonicalPaths(p.paths) /\ CanonicalExclusions(p.excl)
    /\ CanonicalExecutables(p.exes) /\ CanonicalEnvironment(p.env)

\* What a host can store: canonical, bound, with a target.
ValidProfile(p) ==
    /\ Selections(p) /\ ValidReferences(p)
    /\ {s.src : s \in p.skills} \subseteq SkillSources
    /\ {s.src : s \in p.instr} \subseteq {Instructions}
    /\ p.auth.kind \in {"plain", "local"}

NoProfile ==
    LET none == [i \in {} |-> 0] IN
    [skills |-> {}, instr |-> {}, paths |-> none, excl |-> none, exes |-> none, env |-> none,
     mcp |-> {}, auth |-> [kind |-> "none", v |-> 0]]

\* Everything in it that belongs to one host.
HostValues(p) ==
    (UNION {{f[i].v : i \in Of(f, "local")} : f \in {p.paths, p.excl, p.exes, p.env}})
    \cup (IF p.auth.kind = "local" THEN {p.auth.v} ELSE {})

-----------------------------------------------------------------------------
(* Documents. *)

rank(S, x) == Cardinality({y \in S : y <= x})
Sources(p) == {s.src : s \in p.skills \cup p.instr}

\* The local entries become symbols counted in the order of the ids.
symbolic(f, base) ==
    [i \in DOMAIN f |-> IF f[i].kind = "local"
                        THEN [kind |-> "bound", v |-> base + rank(Of(f, "local"), i)] ELSE f[i]]
symbolicSources(refs, p) == {[src |-> rank(Sources(p), s.src), rel |-> s.rel] : s \in refs}

\* Symbols of a kind that a document's entries use.
uses(f) == {f[i].v : i \in Of(f, "bound")}
usedSources(d) == {s.src : s \in d.skills \cup d.instr}
usedAuth(d) == IF d.auth.kind = "bound" THEN {d.auth.v} ELSE {}

\* bindCommonSelections: symbols replaced by what the bindings say.
bound(f, b) == [i \in DOMAIN f |-> IF f[i].kind = "bound"
                                   THEN [kind |-> "local", v |-> b[f[i].v]] ELSE f[i]]
noLocals(f) == Of(f, "local") = {}
bindNoExclusions(d, b) ==                   \* mutant: the exclusions are left out
    [d EXCEPT !.paths = bound(@, b.paths), !.excl = [i \in {} |-> 0],
              !.exes = bound(@, b.exes), !.env = bound(@, b.env)]
bindCommonSelections(d, b) ==
    [d EXCEPT !.paths = bound(@, b.paths), !.excl = bound(@, b.paths),
              !.exes = bound(@, b.exes), !.env = bound(@, b.env)]

\* validateDocumentRelations: exactly the symbols that are required are used.
validateDocumentRelations(d) ==
    /\ \A k \in {"sources", "auth", "paths", "exes", "env"} : Cardinality(d.reqs[k]) <= MaxBindings
    /\ d.auth.kind \in {"plain", "bound"}
    /\ usedSources(d) = d.reqs.sources /\ usedAuth(d) = d.reqs.auth
    /\ uses(d.paths) \cup uses(d.excl) = d.reqs.paths
    /\ uses(d.exes) = d.reqs.exes /\ uses(d.env) = d.reqs.env

\* validateSymbolicIntent: the schemas hold with a distinct representative
\* for every symbol, and no source serves Skills and instructions.
validateSymbolicIntent(d) ==
    LET id == [k \in {"paths", "exes", "env"} |-> [s \in d.reqs[k] |-> s]]
        p == bindCommonSelections(d, id)
    IN /\ {s.src : s \in d.skills} \cap {s.src : s \in d.instr} = {}
       /\ noLocals(d.paths) /\ noLocals(d.excl) /\ noLocals(d.exes) /\ noLocals(d.env)
       /\ Selections(p) /\ ValidReferences(p)

\* Sections of a document, and of its requirements, that are not empty: an
\* earlier version of the format must not hold what it does not know.
sections(d) ==
    {k \in {"paths", "exes", "env", "excl"} : DOMAIN d[k] # {}} \cup {k \in {"mcp", "instr"} : d[k] # {}}
    \cup {k \in {"paths", "exes", "env"} : d.reqs[k] # {}}
admitDocument(d) ==
    IF d.ver \notin 1 .. 3 THEN "unsupported_version"
    ELSE IF ~(sections(d) \subseteq CASE d.ver = 1 -> {} [] d.ver = 2 -> {"paths", "exes"}
                                       [] OTHER -> {"paths", "exes", "env", "excl", "mcp", "instr"})
         THEN "unsupported_content"
    ELSE IF ~validateDocumentRelations(d) \/ ~validateSymbolicIntent(d) THEN "invalid_structure"
    ELSE "valid"

Refused == [ver |-> 0]

\* Export: symbols for everything local, and the same admission as on import.
document(p) ==
    LET nPaths == Cardinality(Of(p.paths, "local")) IN
    [ver |-> 3,
     skills |-> symbolicSources(p.skills, p), instr |-> symbolicSources(p.instr, p),
     paths |-> symbolic(p.paths, 0), excl |-> symbolic(p.excl, nPaths),
     exes |-> symbolic(p.exes, 0), env |-> symbolic(p.env, 0), mcp |-> p.mcp,
     auth |-> IF p.auth.kind = "local" THEN [kind |-> "bound", v |-> 1] ELSE p.auth,
     reqs |-> [sources |-> 1 .. Cardinality(Sources(p)),
               auth |-> IF p.auth.kind = "local" THEN {1} ELSE {},
               paths |-> 1 .. (nPaths + Cardinality(Of(p.excl, "local"))),
               exes |-> 1 .. Cardinality(Of(p.exes, "local")),
               env |-> 1 .. Cardinality(Of(p.env, "local"))]]
Export(p) == IF admitDocument(document(p)) = "valid" THEN document(p) ELSE Refused

\* What host A may have stored: entries by id, local ones with a value of the
\* host; one of the Profiles at least can be exported.
Entries(f) ==
    /\ DOMAIN f \subseteq Nat /\ IsFiniteSet(DOMAIN f)
    /\ f = [i \in DOMAIN f |-> [kind |-> f[i].kind, v |-> f[i].v]]
    /\ \A i \in Of(f, "local") : f[i].v \in Values
IsProfile(p) ==
    /\ p = [skills |-> p.skills, instr |-> p.instr, paths |-> p.paths, excl |-> p.excl,
            exes |-> p.exes, env |-> p.env, mcp |-> p.mcp,
            auth |-> [kind |-> p.auth.kind, v |-> p.auth.v]]
    /\ \A f \in {p.paths, p.excl, p.exes, p.env} : Entries(f)
    /\ IsFiniteSet(p.skills) /\ \A s \in p.skills \cup p.instr : s = [src |-> s.src, rel |-> s.rel]
    /\ p.auth.kind = "local" => p.auth.v \in Values

ASSUME HostsAssumption ==
    /\ Values \subseteq Nat /\ 1 \in Values
    /\ {"user", "nobody"} \cap Exporters = {}
    /\ \A p \in Profiles : IsProfile(p) /\ ValidProfile(p)
    /\ \E p \in Profiles : Export(p) # Refused

\* exactBindingKeys and the versions of binding documents.
exactBindingKeys(d, b) ==
    /\ DOMAIN b.sources = d.reqs.sources /\ DOMAIN b.auth = d.reqs.auth
    /\ DOMAIN b.paths = d.reqs.paths /\ DOMAIN b.exes = d.reqs.exes /\ DOMAIN b.env = d.reqs.env
bindingVersionCompatible(d, b) ==
    \/ b.ver = d.ver
    \/ b.ver = 2 /\ d.ver = 3 /\ d.reqs.env = {}
    \/ b.ver = 1 /\ d.ver \in {2, 3} /\ d.reqs.paths \cup d.reqs.exes \cup d.reqs.env = {}

\* bindDocument: the code and, when it is valid, the candidate.
localRefs(refs, b) == {[src |-> b.sources[s.src], rel |-> s.rel] : s \in refs}
distinctDestinations(local, refs) == Cardinality(local) = Cardinality(refs)
boundProfile(d, b) ==
    LET p == bindCommonSelections(d, b) IN
    [skills |-> localRefs(d.skills, b), instr |-> localRefs(d.instr, b),
     paths |-> p.paths, excl |-> p.excl, exes |-> p.exes, env |-> p.env, mcp |-> d.mcp,
     auth |-> IF d.auth.kind = "bound" THEN [kind |-> "local", v |-> b.auth[d.auth.v]] ELSE d.auth]
bindDocument(d, b) ==
    IF ~bindingVersionCompatible(d, b) THEN [code |-> "binding_invalid"]
    ELSE IF ~exactBindingKeys(d, b) THEN [code |-> "binding_required"]
    ELSE LET p == boundProfile(d, b) IN
         IF {s.src : s \in p.skills} \subseteq SkillSources /\ {s.src : s \in p.instr} \subseteq {Instructions}
         THEN IF ~distinctDestinations(p.skills, d.skills) THEN [code |-> "binding_conflict"]
              ELSE IF ~Selections(p) \/ ~ValidReferences(p) THEN [code |-> "binding_invalid"]
              ELSE [code |-> "valid", candidate |-> p]
         ELSE [code |-> "binding_invalid"]

\* Decode: admission first, then the bindings.
Decode(d, b) ==
    IF admitDocument(d) # "valid" THEN [code |-> admitDocument(d)] ELSE bindDocument(d, b)

-----------------------------------------------------------------------------
(* Host A: export. *)

NoFile == [doc |-> Refused, by |-> "nobody", bytes |-> "none", durable |-> FALSE]
IdleE == [pc |-> "idle", doc |-> Refused, cancelled |-> FALSE, result |-> "no"]
Dead == [IdleE EXCEPT !.pc = "killed"]
at(e, pc) == exp[e].pc = pc
working(e) == exp[e].pc \in {"create", "write", "sync", "publish", "dirsync"}
others == <<stored, imp, store, edits>>
moves(e, pc) == exp' = [exp EXCEPT ![e].pc = pc]

\* A return: the deferred unlink of the temporary file.
ends(e, result) ==
    /\ exp' = [exp EXCEPT ![e] = [IdleE EXCEPT !.pc = "done", !.result = result]]
    /\ temp' = [temp EXCEPT ![e] = "none"]

\* exportProfile: Repository.Read, DecodeNamed, Export.
ExportProfile(e) ==
    /\ at(e, "idle")
    /\ IF Export(stored) = Refused THEN ends(e, "refused")
       ELSE /\ exp' = [exp EXCEPT ![e].pc = "create", ![e].doc = Export(stored)]
            /\ UNCHANGED temp
    /\ UNCHANGED <<others, dest, faults>>

\* Publish: an exclusive temporary file, its bytes, its sync.
Create(e) ==
    /\ at(e, "create")
    /\ IF exp[e].cancelled THEN ends(e, "unpublished")
       ELSE moves(e, "write") /\ temp' = [temp EXCEPT ![e] = "torn"]
    /\ UNCHANGED <<others, dest, faults>>
Write(e) ==
    /\ at(e, "write") /\ moves(e, "sync")
    /\ temp' = [temp EXCEPT ![e] = "written"]
    /\ UNCHANGED <<others, dest, faults>>
FileSyncSkipped(e) ==                       \* mutant: renamed before its bytes are on the disk
    at(e, "sync") /\ moves(e, "publish") /\ UNCHANGED <<others, temp, dest, faults>>
FileSync(e) ==
    /\ at(e, "sync") /\ moves(e, "publish")
    /\ temp' = [temp EXCEPT ![e] = "synced"]
    /\ UNCHANGED <<others, dest, faults>>

\* renameAtNoReplace after the last look at the context.
Publish(e) ==
    /\ at(e, "publish")
    /\ IF exp[e].cancelled \/ dest.bytes # "none" THEN ends(e, "unpublished") /\ UNCHANGED dest
       ELSE /\ moves(e, "dirsync")
            /\ dest' = [doc |-> exp[e].doc, by |-> e, bytes |-> temp[e], durable |-> FALSE]
            /\ temp' = [temp EXCEPT ![e] = "none"]
    /\ UNCHANGED <<others, faults>>
DirSync(e) ==
    /\ at(e, "dirsync")
    /\ dest' = [dest EXCEPT !.durable = dest.bytes # "none"]
    /\ ends(e, IF exp[e].cancelled THEN "uncertain" ELSE "exported")
    /\ UNCHANGED <<others, faults>>
StepFails(e) ==
    /\ working(e) /\ Fault
    /\ ends(e, IF at(e, "dirsync") THEN "uncertain" ELSE "unpublished")
    /\ UNCHANGED <<others, dest>>

\* The context ends; it makes a difference where Publish looks at it next.
Cancel(e) ==
    /\ exp[e].pc \in {"create", "publish", "dirsync"} /\ ~exp[e].cancelled
    /\ exp' = [exp EXCEPT ![e].cancelled = TRUE]
    /\ UNCHANGED <<others, temp, dest, faults>>
Killed(e) ==
    /\ working(e) /\ Fault /\ exp' = [exp EXCEPT ![e] = Dead]
    /\ UNCHANGED <<others, temp, dest>>

\* Bytes that were not synced are lost, so may be the new name.
PowerLoss ==
    /\ Fault
    /\ exp' = [e \in Exporters |-> IF working(e) THEN Dead ELSE exp[e]]
    /\ dest' \in {IF dest.bytes = "written" THEN [dest EXCEPT !.bytes = "torn"] ELSE dest}
                 \cup (IF dest.durable THEN {} ELSE {NoFile})
    /\ UNCHANGED <<others, temp>>

Edit == edits < MaxEdits /\ edits' = edits + 1

\* Another command changes the stored Profile; the user edits the file, once.
StoredChanges ==
    /\ Edit /\ stored' \in Profiles
    /\ UNCHANGED <<exp, temp, dest, imp, store, faults>>
Edits(d) ==
    {[d EXCEPT !.ver = v] : v \in {1, 2, 4}}
    \cup {[d EXCEPT !.reqs.paths = @ \cup {9}], [d EXCEPT !.reqs.paths = @ \ {1}]}
    \cup {[d EXCEPT !.paths = [i \in DOMAIN @ |-> [kind |-> "local", v |-> 1]], !.reqs.paths = uses(d.excl)],
          [d EXCEPT !.excl = [i \in DOMAIN @ |-> [kind |-> "bound", v |-> 1]]],
          [d EXCEPT !.exes = [i \in DOMAIN @ |-> [kind |-> "local", v |-> 1]]],
          [d EXCEPT !.instr = {[src |-> 1, rel |-> s.rel] : s \in @ \cup d.skills}],
          [d EXCEPT !.mcp = {[exe |-> 1, inp |-> 2, arg |-> 2]}]}
UserEdits ==
    /\ dest.bytes \in {"synced", "written"} /\ dest.by \in Exporters
    /\ \E d \in Edits(dest.doc) :
          dest' = [doc |-> d, by |-> "user", bytes |-> "synced", durable |-> TRUE]
    /\ UNCHANGED <<stored, exp, temp, imp, store, edits, faults>>

-----------------------------------------------------------------------------
(* Host B: import. *)

IdleI == [pc |-> "idle", doc |-> Refused, from |-> "nobody", candidate |-> NoProfile,
          origin |-> NoProfile, result |-> "no"]
returnsI(result) == imp' = [IdleI EXCEPT !.pc = "done", !.result = result]

\* readExchangeInputs: the document, and then the bindings; what the
\* exporter's host meant by every symbol, in this host's terms, or anything.
preflight(bytes) == bytes # "torn"
ReadDocument ==
    /\ imp.pc = "idle" /\ dest.bytes # "none"
    /\ imp' = IF preflight(dest.bytes)
              THEN [imp EXCEPT !.pc = "bindings", !.doc = dest.doc, !.from = dest.by]
              ELSE [IdleI EXCEPT !.pc = "done", !.result = "invalid_json"]
    /\ UNCHANGED <<hostA, store, edits, faults>>

localOf(f, base, s) == f[CHOOSE i \in Of(f, "local") : base + rank(Of(f, "local"), i) = s].v
Meant(p) ==
    LET d == Export(p)
        n == Cardinality(Of(p.paths, "local"))
    IN [ver |-> 3,
        sources |-> [s \in d.reqs.sources |-> CHOOSE x \in Sources(p) : rank(Sources(p), x) = s],
        auth |-> [s \in d.reqs.auth |-> B(p.auth.v)],
        paths |-> [s \in d.reqs.paths |-> B(IF s <= n THEN localOf(p.paths, 0, s) ELSE localOf(p.excl, n, s))],
        exes |-> [s \in d.reqs.exes |-> B(localOf(p.exes, 0, s))],
        env |-> [s \in d.reqs.env |-> B(localOf(p.env, 0, s))]]
AnyBindings(d) ==
    [ver : {2, 3}, sources : [d.reqs.sources -> {1, 2, 3}], auth : [d.reqs.auth -> {B(1)}],
     paths : [d.reqs.paths -> HostB] \cup [d.reqs.paths \ {1} -> HostB],
     exes : [d.reqs.exes -> {B(1)}], env : [d.reqs.env -> {B(1)}]]

\* importProfile: Decode and Canonicalize.
Decoded(b, origin) ==
    LET r == Decode(imp.doc, b) IN
    /\ imp' = IF r.code = "valid"
              THEN [imp EXCEPT !.pc = "check", !.doc = Refused, !.from = "nobody",
                            !.candidate = r.candidate, !.origin = origin]
              ELSE [IdleI EXCEPT !.pc = "done", !.result = r.code, !.origin = origin]
    /\ UNCHANGED <<hostA, store, edits, faults>>
ReadBindings == imp.pc = "bindings" /\ \E b \in AnyBindings(imp.doc) : Decoded(b, NoProfile)
ReadMeantBindings ==
    /\ imp.pc = "bindings" /\ imp.from \in Exporters
    /\ \E p \in Profiles : Export(p) = imp.doc /\ Decoded(Meant(p), p)

\* Repository.Read: the name must be free; --dry-run stops there.
CheckDestination(dryRun) ==
    /\ imp.pc = "check"
    /\ IF store # NoProfile THEN returnsI("occupied")
       ELSE IF dryRun THEN returnsI("previewed") ELSE imp' = [imp EXCEPT !.pc = "apply"]
    /\ UNCHANGED <<hostA, store, edits, faults>>

\* Repository.Apply of a CreateRequest that expects the name to be absent
\* (ProfileTxn): it commits, or it changes nothing.
ApplyUnconditionally ==                     \* mutant: the name is not expected to be absent
    /\ imp.pc = "apply" /\ store' = imp.candidate
    /\ returnsI("imported")
    /\ UNCHANGED <<hostA, edits, faults>>
Apply ==
    /\ imp.pc = "apply"
    /\ \/ /\ store = NoProfile /\ store' = imp.candidate
          /\ returnsI("imported") /\ UNCHANGED faults
       \/ /\ store # NoProfile
          /\ returnsI("conflict") /\ UNCHANGED <<store, faults>>
       \/ Fault /\ returnsI("failed") /\ UNCHANGED store
    /\ UNCHANGED <<hostA, edits>>

\* Another command creates a Profile of that name on host B; which one does
\* not matter.
OtherCreates ==
    /\ Edit /\ store = NoProfile
    /\ LET p == CHOOSE p \in Profiles : Export(p) # Refused
       IN store' = Decode(Export(p), Meant(p)).candidate
    /\ UNCHANGED <<hostA, imp, faults>>

-----------------------------------------------------------------------------
Init ==
    /\ stored \in Profiles
    /\ exp = [e \in Exporters |-> IdleE] /\ temp = [e \in Exporters |-> "none"]
    /\ dest = NoFile /\ imp = IdleI /\ store = NoProfile
    /\ edits = 0 /\ faults = 0

Next ==
    \/ \E e \in Exporters : \/ ExportProfile(e) \/ Create(e) \/ Write(e) \/ FileSync(e) \/ Publish(e)
                            \/ DirSync(e) \/ StepFails(e) \/ Cancel(e) \/ Killed(e)
    \/ PowerLoss \/ StoredChanges \/ UserEdits
    \/ ReadDocument \/ ReadBindings \/ ReadMeantBindings
    \/ \E d \in BOOLEAN : CheckDestination(d)
    \/ Apply \/ OtherCreates
Spec == Init /\ [][Next]_vars

-----------------------------------------------------------------------------
\* The state has its type, and host A only ever stores valid Profiles (Export,
\* Publish, ImportProfile).
TypeOK ==
    /\ stored \in Profiles /\ ValidProfile(stored)
    /\ \A e \in Exporters :
         /\ exp[e].pc \in {"idle", "create", "write", "sync", "publish", "dirsync", "done", "killed"}
         /\ exp[e].result \in {"no", "refused", "unpublished", "uncertain", "exported"}
         /\ temp[e] \in {"none", "torn", "written", "synced"}
    /\ dest.by \in Exporters \cup {"nobody", "user"}
    /\ imp.pc \in {"idle", "bindings", "check", "apply", "done"}

\* The destination holds a whole document or nothing, whatever fails and
\* even after a loss of power: it is renamed only when its bytes are synced.
DestinationIsWhole == dest.bytes \in {"none", "synced"}

\* Export never replaces a file: once there is one, only the loss of power of
\* an export that was not reported, or its user, changes it.
neverClobbers ==
    dest.bytes # "none" => \/ dest' = [dest EXCEPT !.durable = dest'.durable]
                           \/ dest'.by = "user" \/ (~dest.durable /\ dest' = NoFile)

\* What is reported is so: after "not published" the file is not the
\* exporter's; after success it is on the disk for good.
ExportHonest ==
    \A e \in Exporters :
      /\ exp[e].result \in {"unpublished", "refused"} => dest.by # e
      /\ exp[e].result = "exported" => dest.by \in {e, "user"} /\ dest.durable
      /\ at(e, "done") => temp[e] = "none"

\* A document that is published is one the receiving codec admits, with
\* symbols where the Profile has absolute paths, executables, secret
\* references and identities of host A ("Never successfully emit a document
\* that the receiving codec rejects").
ExportedIsPortable ==
    dest.by \in Exporters => HostValues(dest.doc) = {} /\ admitDocument(dest.doc) = "valid"

\* A file an export leaves at its destination is whole, is what its caller was
\* told, and is accepted on another host without a value of this one (Export,
\* Publish).
ExportIsWhole == TypeOK /\ DestinationIsWhole /\ ExportHonest /\ ExportedIsPortable

\* Nothing comes to host B but through its own bindings, whatever the
\* document says.
ImportTakesOnlyBindings == HostValues(imp.candidate) \cup HostValues(store) \subseteq HostB

\* Exported and imported with bindings that mean the same, a Profile is
\* accepted and is the same Profile: no entry, exclusion or reference is
\* lost, added or swapped.
RoundTrip ==
    imp.origin # NoProfile =>
      LET p == imp.origin
          there(r) == IF r.kind = "local" THEN [r EXCEPT !.v = B(r.v)] ELSE r
          moved(f) == [i \in DOMAIN f |-> there(f[i])]
      IN imp.candidate = [p EXCEPT !.paths = moved(@), !.excl = moved(@), !.exes = moved(@),
                                   !.env = moved(@), !.auth = there(@)]

\* What an import stores is a Profile every other command accepts, although
\* its document was edited and its bindings may collide.
StoredIsValid == store # NoProfile => ValidProfile(store)

\* An imported Profile has the meaning of the exported one in terms of the
\* importing host, and is one that every other command accepts (bindDocument,
\* bindCommonSelections).
ImportIsFaithful == ImportTakesOnlyBindings /\ RoundTrip /\ StoredIsValid

\* An import never replaces a Profile that exists, not even one created after
\* it looked, and says it imported only what it stored.
importNeverOverwrites ==
    /\ store # NoProfile => store' = store
    /\ imp'.result = "imported" /\ imp.result # "imported" => store' = imp.candidate

\* Neither side of an exchange replaces what somebody else created meanwhile:
\* not the file at the destination, not the Profile of that name (Publish,
\* Apply).
NeverReplaces == [][neverClobbers /\ importNeverOverwrites]_vars
=============================================================================
