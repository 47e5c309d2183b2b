------------------------- MODULE ProfileDataProofs --------------------------
(***************************************************************************)
(* Proofs about what is kept of Profiles outside the repository's own      *)
(* transactions: the documents they are exchanged in (ProfileExchange) and *)
(* their history (ProfileHistory).                                         *)
(*                                                                         *)
(* ProfileExchange, for Profiles of any size, any number of exporters and  *)
(* any bindings.  The first half is about data: the symbols of a document  *)
(* can be counted back to the entries they stand for, so bindings that     *)
(* mean the same rebuild the Profile (RoundTrips), and no binding brings   *)
(* in a value of the exporting host (BindingsOnly).  The second half is    *)
(* about the steps: what a publication has prepared (ExportInv, FileInv)   *)
(* and what an import has accepted (ImportInv).                            *)
(*                                                                         *)
(* ProfileHistory, for any names, lineages, retention and deaths.  HistInd *)
(* is inductive: what every directory holds (StoreInv), what is left to do *)
(* of a decided transaction whatever died in it (TxnInv, Progress), which  *)
(* names are settled meanwhile (NameInv), and what a pin or prune request  *)
(* and its recovery rely on (JobInv, TidyInv).                             *)
(***************************************************************************)
EXTENDS ProfileExchange, ProfileHistory, Integers, FiniteSetTheorems, FunctionTheorems,
        WellFoundedInduction, TLAPS

-----------------------------------------------------------------------------
(* Counting symbols. *)

\* A rank is the number of one element only.
LEMMA RankInjective ==
  ASSUME NEW S \in SUBSET Nat, IsFiniteSet(S), NEW x \in S, NEW y \in S, rank(S, x) = rank(S, y)
  PROVE  x = y
  <1>1. ASSUME NEW i \in S, NEW j \in S, i < j
        PROVE  rank(S, i) # rank(S, j)
    <2> DEFINE I == {k \in S : k <= i}
               J == {k \in S : k <= j}
    <2>1. IsFiniteSet(J)
      BY FS_Subset
    <2>2. I \in SUBSET J
      <3>1. \A k \in S : k <= i => k <= j
        BY <1>1
      <3>2. QED
        BY <3>1
    <2>3. j \in J /\ j \notin I
      BY <1>1
    <2> HIDE DEF I, J
    <2>4. Cardinality(J) # Cardinality(I)
      BY <2>1, <2>2, <2>3, FS_Subset
    <2>5. QED
      BY <2>4 DEF rank, I, J
  <1>2. x < y \/ y < x \/ x = y
    OBVIOUS
  <1>3. QED
    BY <1>1, <1>2

\* It is not larger than the set.
LEMMA RankBound ==
  ASSUME NEW S \in SUBSET Nat, IsFiniteSet(S), NEW x \in S
  PROVE  rank(S, x) \in Nat /\ rank(S, x) # 0 /\ rank(S, x) <= Cardinality(S) /\ Cardinality(S) \in Nat
  <1> DEFINE I == {k \in S : k <= x}
  <1>1. IsFiniteSet(I) /\ Cardinality(I) <= Cardinality(S)
    BY FS_Subset
  <1>2. Cardinality(I) \in Nat /\ Cardinality(S) \in Nat
    BY <1>1, FS_CardinalityType
  <1>3. x \in I
    OBVIOUS
  <1>4. Cardinality(I) # 0
    BY <1>1, <1>3, FS_EmptySet
  <1>5. QED
    BY <1>1, <1>2, <1>4 DEF rank

\* The value a symbol stands for.
LEMMA LocalFound ==
  ASSUME NEW f, Entries(f), NEW base \in Nat, NEW i \in Of(f, "local")
  PROVE  localOf(f, base, base + rank(Of(f, "local"), i)) = f[i].v
  <1> DEFINE S == Of(f, "local")
             c == CHOOSE j \in S : base + rank(S, j) = base + rank(S, i)
  <1>1. S \in SUBSET Nat /\ IsFiniteSet(S)
    <2>1. S \in SUBSET DOMAIN f
      BY DEF Of
    <2>2. QED
      BY <2>1, FS_Subset DEF Entries
  <1>2. c \in S /\ base + rank(S, c) = base + rank(S, i)
    OBVIOUS
  <1>3. rank(S, c) \in Nat /\ rank(S, i) \in Nat
    BY <1>1, <1>2, RankBound
  <1>4. rank(S, c) = rank(S, i)
    BY <1>2, <1>3
  <1>5. c = i
    BY <1>1, <1>2, <1>4, RankInjective
  <1>6. localOf(f, base, base + rank(S, i)) = f[c].v
    BY DEF localOf
  <1>7. QED
    BY <1>5, <1>6

\* The source a symbol stands for.
LEMMA SourceFound ==
  ASSUME NEW S \in SUBSET Nat, IsFiniteSet(S), NEW x \in S
  PROVE  (CHOOSE y \in S : rank(S, y) = rank(S, x)) = x
  <1> DEFINE c == CHOOSE y \in S : rank(S, y) = rank(S, x)
  <1>1. c \in S /\ rank(S, c) = rank(S, x)
    OBVIOUS
  <1>2. QED
    BY <1>1, RankInjective

-----------------------------------------------------------------------------
(* A document and the bindings that mean the same. *)

\* The entries of a Profile in the terms of host B, and the Profile.
Elsewhere(f) ==
    [i \in DOMAIN f |-> IF f[i].kind = "local" THEN [kind |-> "local", v |-> B(f[i].v)] ELSE f[i]]
Moved(p) ==
    [skills |-> p.skills, instr |-> p.instr, paths |-> Elsewhere(p.paths),
     excl |-> Elsewhere(p.excl), exes |-> Elsewhere(p.exes), env |-> Elsewhere(p.env), mcp |-> p.mcp,
     auth |-> IF p.auth.kind = "local" THEN [kind |-> "local", v |-> B(p.auth.v)] ELSE p.auth]

\* Documents of exports that were not refused.
Exported == {document(p) : p \in {q \in Profiles : Export(q) # Refused}}

\* What is true of a stored Profile.
LEMMA ProfileFacts ==
  ASSUME NEW p \in Profiles
  PROVE  /\ IsProfile(p) /\ ValidProfile(p)
         /\ \A f \in {p.paths, p.excl, p.exes, p.env} :
               /\ Entries(f) /\ Of(f, "local") \in SUBSET Nat /\ IsFiniteSet(Of(f, "local"))
               /\ \A i \in DOMAIN f : f[i].kind # "bound"
  <1>1. IsProfile(p) /\ ValidProfile(p)
    BY HostsAssumption
  <1>2. ASSUME NEW f, Entries(f)
        PROVE  Of(f, "local") \in SUBSET Nat /\ IsFiniteSet(Of(f, "local"))
    <2>1. Of(f, "local") \in SUBSET DOMAIN f
      BY DEF Of
    <2>2. QED
      BY <1>2, <2>1, FS_Subset DEF Entries
  <1>3. \A f \in {p.paths, p.excl, p.exes, p.env} : \A i \in DOMAIN f : f[i].kind # "bound"
    BY <1>1 DEF ValidProfile, Selections, CanonicalPaths, CanonicalExclusions, CanonicalExecutables,
       CanonicalEnvironment, Of
  <1>4. QED
    BY <1>1, <1>2, <1>3 DEF IsProfile

\* The sources of a Profile are known.
LEMMA SourcesFinite ==
  ASSUME NEW p \in Profiles
  PROVE  Sources(p) \in SUBSET Nat /\ IsFiniteSet(Sources(p))
  <1>1. Sources(p) \subseteq {1, 2, 3}
    BY ProfileFacts DEF Sources, ValidProfile, SkillSources, Instructions
  <1>2. {1, 2, 3} = 1 .. 3
    OBVIOUS
  <1>3. IsFiniteSet(1 .. 3)
    <2>1. 1 \in Int /\ 3 \in Int
      OBVIOUS
    <2>2. QED
      BY <2>1, FS_Interval
  <1>4. QED
    BY <1>1, <1>2, <1>3, FS_Subset

\* The documents of an export are those of document, and are admitted.
LEMMA ExportFacts ==
  ASSUME NEW p
  PROVE  /\ Export(p) # Refused => Export(p) = document(p) /\ admitDocument(document(p)) = "valid"
         /\ document(p) # Refused
  BY DEF Export, document, Refused

\* The fields of a document.
LEMMA DocumentFacts ==
  ASSUME NEW p
  PROVE  LET d == document(p)
             n == Cardinality(Of(p.paths, "local"))
         IN  /\ d.ver = 3 /\ d.mcp = p.mcp
             /\ d.skills = symbolicSources(p.skills, p) /\ d.instr = symbolicSources(p.instr, p)
             /\ d.paths = symbolic(p.paths, 0) /\ d.excl = symbolic(p.excl, n)
             /\ d.exes = symbolic(p.exes, 0) /\ d.env = symbolic(p.env, 0)
             /\ d.auth = IF p.auth.kind = "local" THEN [kind |-> "bound", v |-> 1] ELSE p.auth
             /\ d.reqs.sources = 1 .. Cardinality(Sources(p))
             /\ d.reqs.auth = IF p.auth.kind = "local" THEN {1} ELSE {}
             /\ d.reqs.paths = 1 .. (n + Cardinality(Of(p.excl, "local")))
             /\ d.reqs.exes = 1 .. Cardinality(Of(p.exes, "local"))
             /\ d.reqs.env = 1 .. Cardinality(Of(p.env, "local"))
  BY DEF document

\* Symbols bound to what they stand for are the entries elsewhere.
LEMMA BoundBack ==
  ASSUME NEW f, Entries(f), \A i \in DOMAIN f : f[i].kind # "bound", NEW base \in Nat, NEW b,
         \A i \in Of(f, "local") : b[base + rank(Of(f, "local"), i)] = B(f[i].v)
  PROVE  bound(symbolic(f, base), b) = Elsewhere(f)
  <1> DEFINE S == Of(f, "local")
             g == symbolic(f, base)
  <1>1. /\ DOMAIN g = DOMAIN f
        /\ \A i \in DOMAIN f : g[i] = IF f[i].kind = "local"
                                      THEN [kind |-> "bound", v |-> base + rank(S, i)] ELSE f[i]
    BY DEF symbolic
  <1> HIDE DEF g
  <1>2. \A i \in DOMAIN f : f[i].kind = "local" => i \in S
    BY DEF Of
  <1>3. ASSUME NEW i \in DOMAIN f
        PROVE  (IF g[i].kind = "bound" THEN [kind |-> "local", v |-> b[g[i].v]] ELSE g[i])
               = (IF f[i].kind = "local" THEN [kind |-> "local", v |-> B(f[i].v)] ELSE f[i])
    <2>1. CASE f[i].kind = "local"
      <3>1. g[i].kind = "bound" /\ g[i].v = base + rank(S, i)
        BY <1>1, <2>1
      <3>2. b[base + rank(S, i)] = B(f[i].v)
        BY <1>2, <2>1
      <3>3. QED
        BY <2>1, <3>1, <3>2
    <2>2. CASE f[i].kind # "local"
      BY <1>1, <2>2
    <2>3. QED
      BY <2>1, <2>2
  <1>4. bound(g, b) = Elsewhere(f)
    BY <1>1, <1>3 DEF bound, Elsewhere
  <1>5. QED
    BY <1>4 DEF g

\* The bindings of Meant, by what they bind.
LEMMA MeantFacts ==
  ASSUME NEW p \in Profiles, Export(p) # Refused
  PROVE  LET b == Meant(p)
             n == Cardinality(Of(p.paths, "local"))
         IN  /\ b.ver = 3 /\ exactBindingKeys(document(p), b)
             /\ \A x \in Sources(p) : b.sources[rank(Sources(p), x)] = x
             /\ p.auth.kind = "local" => b.auth[1] = B(p.auth.v)
             /\ \A i \in Of(p.paths, "local") :
                   b.paths[0 + rank(Of(p.paths, "local"), i)] = B(p.paths[i].v)
             /\ \A i \in Of(p.excl, "local") :
                   b.paths[n + rank(Of(p.excl, "local"), i)] = B(p.excl[i].v)
             /\ \A i \in Of(p.exes, "local") :
                   b.exes[0 + rank(Of(p.exes, "local"), i)] = B(p.exes[i].v)
             /\ \A i \in Of(p.env, "local") :
                   b.env[0 + rank(Of(p.env, "local"), i)] = B(p.env[i].v)
  <1> DEFINE d == document(p)
             b == Meant(p)
             SP == Of(p.paths, "local")
             SX == Of(p.excl, "local")
             SE == Of(p.exes, "local")
             SV == Of(p.env, "local")
             n == Cardinality(SP)
  <1>1. Export(p) = d
    BY ExportFacts
  <1>2. b = [ver |-> 3,
             sources |-> [s \in d.reqs.sources |-> CHOOSE x \in Sources(p) : rank(Sources(p), x) = s],
             auth |-> [s \in d.reqs.auth |-> B(p.auth.v)],
             paths |-> [s \in d.reqs.paths |-> B(IF s <= n THEN localOf(p.paths, 0, s)
                                                           ELSE localOf(p.excl, n, s))],
             exes |-> [s \in d.reqs.exes |-> B(localOf(p.exes, 0, s))],
             env |-> [s \in d.reqs.env |-> B(localOf(p.env, 0, s))]]
    BY <1>1 DEF Meant
  <1>3. /\ d.reqs.sources = 1 .. Cardinality(Sources(p))
        /\ d.reqs.auth = IF p.auth.kind = "local" THEN {1} ELSE {}
        /\ d.reqs.paths = 1 .. (n + Cardinality(SX))
        /\ d.reqs.exes = 1 .. Cardinality(SE) /\ d.reqs.env = 1 .. Cardinality(SV)
    BY DocumentFacts
  <1>4. /\ Entries(p.paths) /\ Entries(p.excl) /\ Entries(p.exes) /\ Entries(p.env)
        /\ SP \in SUBSET Nat /\ IsFiniteSet(SP) /\ SX \in SUBSET Nat /\ IsFiniteSet(SX)
        /\ SE \in SUBSET Nat /\ IsFiniteSet(SE) /\ SV \in SUBSET Nat /\ IsFiniteSet(SV)
        /\ n \in Nat /\ Cardinality(SX) \in Nat
    BY ProfileFacts, FS_CardinalityType
  <1>5. Sources(p) \in SUBSET Nat /\ IsFiniteSet(Sources(p))
    BY SourcesFinite
  <1> HIDE DEF d, b, n, SP, SX, SE, SV
  <1>6. b.ver = 3 /\ exactBindingKeys(d, b)
    BY <1>2 DEF exactBindingKeys
  <1>7. ASSUME NEW x \in Sources(p)
        PROVE  b.sources[rank(Sources(p), x)] = x
    <2>1. rank(Sources(p), x) \in d.reqs.sources
      BY <1>3, <1>5, RankBound
    <2>2. QED
      BY <1>2, <1>5, <2>1, SourceFound
  <1>8. p.auth.kind = "local" => b.auth[1] = B(p.auth.v)
    BY <1>2, <1>3
  <1>9. ASSUME NEW i \in SP
        PROVE  b.paths[0 + rank(SP, i)] = B(p.paths[i].v)
    <2>1. /\ 0 + rank(SP, i) \in d.reqs.paths /\ 0 + rank(SP, i) <= n
      <3>1. rank(SP, i) \in Nat /\ rank(SP, i) # 0 /\ rank(SP, i) <= n
        BY <1>4, RankBound DEF n
      <3>2. QED
        BY <1>3, <1>4, <3>1
    <2>2. localOf(p.paths, 0, 0 + rank(SP, i)) = p.paths[i].v
      BY <1>4, LocalFound DEF SP
    <2>3. QED
      BY <1>2, <2>1, <2>2
  <1>10. ASSUME NEW i \in SX
         PROVE  b.paths[n + rank(SX, i)] = B(p.excl[i].v)
    <2>1. n + rank(SX, i) \in d.reqs.paths /\ ~(n + rank(SX, i) <= n)
      <3>1. rank(SX, i) \in Nat /\ rank(SX, i) # 0 /\ rank(SX, i) <= Cardinality(SX)
        BY <1>4, RankBound
      <3>2. QED
        BY <1>3, <1>4, <3>1
    <2>2. localOf(p.excl, n, n + rank(SX, i)) = p.excl[i].v
      BY <1>4, LocalFound DEF SX
    <2>3. QED
      BY <1>2, <2>1, <2>2
  <1>11. ASSUME NEW i \in SE
         PROVE  b.exes[0 + rank(SE, i)] = B(p.exes[i].v)
    <2>1. 0 + rank(SE, i) \in d.reqs.exes
      <3>1. rank(SE, i) \in Nat /\ rank(SE, i) # 0 /\ rank(SE, i) <= Cardinality(SE)
        BY <1>4, RankBound
      <3>2. Cardinality(SE) \in Nat
        BY <1>4, FS_CardinalityType
      <3>3. QED
        BY <1>3, <3>1, <3>2
    <2>2. localOf(p.exes, 0, 0 + rank(SE, i)) = p.exes[i].v
      BY <1>4, LocalFound DEF SE
    <2>3. QED
      BY <1>2, <2>1, <2>2
  <1>12. ASSUME NEW i \in SV
         PROVE  b.env[0 + rank(SV, i)] = B(p.env[i].v)
    <2>1. 0 + rank(SV, i) \in d.reqs.env
      <3>1. rank(SV, i) \in Nat /\ rank(SV, i) # 0 /\ rank(SV, i) <= Cardinality(SV)
        BY <1>4, RankBound
      <3>2. Cardinality(SV) \in Nat
        BY <1>4, FS_CardinalityType
      <3>3. QED
        BY <1>3, <3>1, <3>2
    <2>2. localOf(p.env, 0, 0 + rank(SV, i)) = p.env[i].v
      BY <1>4, LocalFound DEF SV
    <2>3. QED
      BY <1>2, <2>1, <2>2
  <1>13. QED
    BY <1>6, <1>7, <1>8, <1>9, <1>10, <1>11, <1>12 DEF d, b, n, SP, SX, SE, SV

-----------------------------------------------------------------------------
(* Binding a document. *)

\* A document, edited or not, is a record of these fields.
IsDocument(d) ==
    d = [ver |-> d.ver, skills |-> d.skills, instr |-> d.instr, paths |-> d.paths, excl |-> d.excl,
         exes |-> d.exes, env |-> d.env, mcp |-> d.mcp, auth |-> d.auth,
         reqs |-> [sources |-> d.reqs.sources, auth |-> d.reqs.auth, paths |-> d.reqs.paths,
                   exes |-> d.reqs.exes, env |-> d.reqs.env]]

\* What binding changes in a document, and what it leaves.
LEMMA BoundFields ==
  ASSUME NEW d, IsDocument(d), NEW b
  PROVE  LET q == bindCommonSelections(d, b) IN
         /\ q.paths = bound(d.paths, b.paths) /\ q.excl = bound(d.excl, b.paths)
         /\ q.exes = bound(d.exes, b.exes) /\ q.env = bound(d.env, b.env) /\ q.mcp = d.mcp
  BY DEF bindCommonSelections, IsDocument

LEMMA BoundProfileFields ==
  ASSUME NEW d, IsDocument(d), NEW b
  PROVE  boundProfile(d, b) =
         [skills |-> localRefs(d.skills, b), instr |-> localRefs(d.instr, b),
          paths |-> bound(d.paths, b.paths), excl |-> bound(d.excl, b.paths),
          exes |-> bound(d.exes, b.exes), env |-> bound(d.env, b.env), mcp |-> d.mcp,
          auth |-> IF d.auth.kind = "bound" THEN [kind |-> "local", v |-> b.auth[d.auth.v]]
                   ELSE d.auth]
  BY BoundFields DEF boundProfile

\* Every document of an export is one.
LEMMA DocumentIsOne ==
  ASSUME NEW p
  PROVE  IsDocument(document(p))
  BY DEF IsDocument, document

\* The entries elsewhere are of the same kinds, and as many.
LEMMA ElsewhereFacts ==
  ASSUME NEW f, Entries(f)
  PROVE  /\ DOMAIN Elsewhere(f) = DOMAIN f
         /\ \A k : Of(Elsewhere(f), k) = Of(f, k)
         /\ injective(f) => injective(Elsewhere(f))
         /\ \A i \in Of(Elsewhere(f), "local") : Elsewhere(f)[i].v \in HostB
  <1> DEFINE g == Elsewhere(f)
  <1>1. /\ DOMAIN g = DOMAIN f
        /\ \A i \in DOMAIN f : /\ f[i].kind = "local" => g[i] = [kind |-> "local", v |-> B(f[i].v)]
                               /\ f[i].kind # "local" => g[i] = f[i]
    BY DEF Elsewhere
  <1> HIDE DEF g
  <1>2. \A i \in DOMAIN f : g[i].kind = f[i].kind
    BY <1>1
  <1>3. \A k : Of(g, k) = Of(f, k)
    BY <1>1, <1>2 DEF Of
  <1>4. \A i \in DOMAIN f : f[i] = [kind |-> f[i].kind, v |-> f[i].v]
    BY DEF Entries
  <1>5. \A i \in DOMAIN f : f[i].kind = "local" => f[i].v \in Values /\ f[i].v \in Nat
    BY HostsAssumption DEF Entries, Of
  <1>6. ASSUME NEW i \in DOMAIN f, NEW j \in DOMAIN f, g[i] = g[j]
        PROVE  f[i] = f[j]
    <2>1. f[i].kind = f[j].kind
      BY <1>2, <1>6
    <2>2. CASE f[i].kind = "local"
      <3>1. B(f[i].v) = B(f[j].v)
        BY <1>1, <1>6, <2>1, <2>2
      <3>2. f[i].v \in Nat /\ f[j].v \in Nat
        BY <1>5, <2>1, <2>2
      <3>3. \A v, w \in Nat : B(v) = B(w) => v = w
        BY DEF B
      <3>4. f[i].v = f[j].v
        BY <3>1, <3>2, <3>3
      <3>5. QED
        BY <1>4, <2>1, <3>4
    <2>3. CASE f[i].kind # "local"
      BY <1>1, <1>6, <2>1, <2>3
    <2>4. QED
      BY <2>2, <2>3
  <1>7. injective(f) => injective(g)
    BY <1>1, <1>6 DEF injective
  <1>8. \A i \in Of(g, "local") : g[i].v \in HostB
    BY <1>1, <1>2, <1>5 DEF Of, HostB
  <1>9. QED
    BY <1>1, <1>3, <1>7, <1>8 DEF g

\* What belongs to a host is in the local entries and the identity.
LEMMA HostValuesWithin ==
  ASSUME NEW p, NEW S,
         \A f \in {p.paths, p.excl, p.exes, p.env} : \A i \in Of(f, "local") : f[i].v \in S,
         p.auth.kind = "local" => p.auth.v \in S
  PROVE  HostValues(p) \subseteq S
  <1> SUFFICES ASSUME NEW x \in HostValues(p)
               PROVE  x \in S
    OBVIOUS
  <1> DEFINE U == UNION {{f[i].v : i \in Of(f, "local")} : f \in {p.paths, p.excl, p.exes, p.env}}
  <1>1. CASE x \in U
    <2>1. PICK f \in {p.paths, p.excl, p.exes, p.env} : x \in {f[i].v : i \in Of(f, "local")}
      BY <1>1
    <2>2. QED
      BY <2>1
  <1>2. CASE p.auth.kind = "local" /\ x = p.auth.v
    BY <1>2
  <1> HIDE DEF U
  <1>3. x \in U \cup (IF p.auth.kind = "local" THEN {p.auth.v} ELSE {})
    BY DEF HostValues, U
  <1>4. QED
    BY <1>1, <1>2, <1>3

\* A Profile elsewhere is one that host B can store, with values of host B.
LEMMA MovedIsValid ==
  ASSUME NEW p \in Profiles
  PROVE  ValidProfile(Moved(p)) /\ HostValues(Moved(p)) \subseteq HostB
  <1> DEFINE q == Moved(p)
  <1>1. /\ Entries(p.paths) /\ Entries(p.excl) /\ Entries(p.exes) /\ Entries(p.env)
        /\ IsProfile(p) /\ ValidProfile(p)
    BY ProfileFacts
  <1>2. /\ q.skills = p.skills /\ q.instr = p.instr /\ q.mcp = p.mcp
        /\ q.paths = Elsewhere(p.paths) /\ q.excl = Elsewhere(p.excl)
        /\ q.exes = Elsewhere(p.exes) /\ q.env = Elsewhere(p.env)
        /\ q.auth = IF p.auth.kind = "local" THEN [kind |-> "local", v |-> B(p.auth.v)] ELSE p.auth
    BY DEF Moved
  <1> HIDE DEF q
  <1>3. Selections(p) /\ ValidReferences(p)
    BY <1>1 DEF ValidProfile
  <1>4. CanonicalPaths(q.paths) /\ CanonicalExclusions(q.excl)
    <2>1. \A f : Entries(f) /\ CanonicalPaths(f) => CanonicalPaths(Elsewhere(f))
      BY ONLY ElsewhereFacts DEF CanonicalPaths
    <2>2. \A f : Entries(f) /\ CanonicalExclusions(f) => CanonicalExclusions(Elsewhere(f))
      BY ONLY ElsewhereFacts DEF CanonicalExclusions
    <2>3. QED
      BY <1>1, <1>2, <1>3, <2>1, <2>2 DEF Selections
  <1>5. CanonicalExecutables(q.exes) /\ CanonicalEnvironment(q.env)
    <2>1. \A f : Entries(f) /\ CanonicalExecutables(f) => CanonicalExecutables(Elsewhere(f))
      BY ONLY ElsewhereFacts DEF CanonicalExecutables
    <2>2. \A f : Entries(f) /\ CanonicalEnvironment(f) => CanonicalEnvironment(Elsewhere(f))
      BY ONLY ElsewhereFacts DEF CanonicalEnvironment
    <2>3. QED
      BY <1>1, <1>2, <1>3, <2>1, <2>2 DEF Selections
  <1>6. ValidReferences(q)
    BY <1>1, <1>2, <1>3, ElsewhereFacts DEF ValidReferences
  <1>7. q.auth.kind \in {"plain", "local"} /\ (q.auth.kind = "local" => q.auth.v \in HostB)
    BY <1>1, <1>2 DEF ValidProfile, IsProfile, HostB
  <1>8. ValidProfile(q)
    BY <1>1, <1>2, <1>4, <1>5, <1>6, <1>7 DEF ValidProfile, Selections
  <1>9. \A f \in {q.paths, q.excl, q.exes, q.env} : \A i \in Of(f, "local") : f[i].v \in HostB
    BY <1>1, <1>2, ElsewhereFacts
  <1>10. HostValues(q) \subseteq HostB
    BY <1>7, <1>9, HostValuesWithin
  <1>11. QED
    BY <1>8, <1>10 DEF q

\* A set of references keeps its size when its sources become symbols.
LEMMA SymbolsKeepSize ==
  ASSUME NEW p \in Profiles
  PROVE  distinctDestinations(p.skills, symbolicSources(p.skills, p))
  <1> DEFINE T == symbolicSources(p.skills, p)
             f == [s \in p.skills |-> [src |-> rank(Sources(p), s.src), rel |-> s.rel]]
  <1>1. Sources(p) \in SUBSET Nat /\ IsFiniteSet(Sources(p))
    BY SourcesFinite
  <1>2. \A s \in p.skills : s = [src |-> s.src, rel |-> s.rel] /\ s.src \in Sources(p)
    BY ProfileFacts DEF IsProfile, Sources
  <1>3. IsFiniteSet(p.skills)
    BY ProfileFacts DEF IsProfile
  <1>4. f \in [p.skills -> T]
    BY DEF symbolicSources
  <1>5. \A t \in T : \E s \in p.skills : f[s] = t
    BY DEF symbolicSources
  <1>6. ASSUME NEW s \in p.skills, NEW t \in p.skills, f[s] = f[t]
        PROVE  s = t
    <2>1. rank(Sources(p), s.src) = rank(Sources(p), t.src) /\ s.rel = t.rel
      BY <1>6
    <2>2. s.src = t.src
      BY <1>1, <1>2, <2>1, RankInjective
    <2>3. QED
      BY <1>2, <2>1, <2>2
  <1>7. f \in Bijection(p.skills, T)
    BY <1>4, <1>5, <1>6 DEF Bijection, Injection, Surjection, IsInjective
  <1>8. ExistsBijection(p.skills, T)
    BY <1>7 DEF ExistsBijection
  <1>9. QED
    BY <1>3, <1>8, FS_Bijection DEF distinctDestinations

\* And the bindings that mean the same give back the references.
LEMMA ReferencesBack ==
  ASSUME NEW p \in Profiles, Export(p) # Refused, NEW refs, refs \in {p.skills, p.instr}
  PROVE  localRefs(symbolicSources(refs, p), Meant(p)) = refs
  <1> DEFINE b == Meant(p)
             T == symbolicSources(refs, p)
  <1>1. \A s \in refs : s = [src |-> s.src, rel |-> s.rel] /\ s.src \in Sources(p)
    BY ProfileFacts DEF IsProfile, Sources
  <1>2. \A x \in Sources(p) : b.sources[rank(Sources(p), x)] = x
    BY MeantFacts
  <1> HIDE DEF b
  <1>3. T = {[src |-> rank(Sources(p), s.src), rel |-> s.rel] : s \in refs}
    BY DEF symbolicSources
  <1>4. \A s \in refs : [src |-> b.sources[rank(Sources(p), s.src)], rel |-> s.rel] = s
    BY <1>1, <1>2
  <1>5. ASSUME NEW x \in localRefs(T, b)
        PROVE  x \in refs
    <2>1. PICK t \in T : x = [src |-> b.sources[t.src], rel |-> t.rel]
      BY DEF localRefs
    <2>2. PICK s \in refs : t = [src |-> rank(Sources(p), s.src), rel |-> s.rel]
      BY <1>3
    <2>3. QED
      BY <1>4, <2>1, <2>2
  <1>6. ASSUME NEW s \in refs
        PROVE  s \in localRefs(T, b)
    <2> DEFINE t == [src |-> rank(Sources(p), s.src), rel |-> s.rel]
    <2>1. t \in T
      BY <1>3
    <2>2. s = [src |-> b.sources[t.src], rel |-> t.rel]
      BY <1>4
    <2> HIDE DEF t
    <2>3. QED
      BY <2>1, <2>2 DEF localRefs
  <1>7. QED
    BY <1>5, <1>6 DEF b

\* Exported, and imported with bindings that mean the same, a Profile of any
\* size is accepted and is the same Profile.
LEMMA RoundTrips ==
  ASSUME NEW p \in Profiles, Export(p) # Refused
  PROVE  Decode(Export(p), Meant(p)) = [code |-> "valid", candidate |-> Moved(p)]
  <1> DEFINE d == document(p)
             b == Meant(p)
             n == Cardinality(Of(p.paths, "local"))
  <1>1. Export(p) = d /\ admitDocument(d) = "valid" /\ IsDocument(d)
    BY ExportFacts, DocumentIsOne
  <1>2. /\ Entries(p.paths) /\ Entries(p.excl) /\ Entries(p.exes) /\ Entries(p.env)
        /\ IsProfile(p) /\ ValidProfile(p) /\ n \in Nat
    BY ProfileFacts, FS_CardinalityType
  <1>3. /\ bound(d.paths, b.paths) = Elsewhere(p.paths)
        /\ bound(d.excl, b.paths) = Elsewhere(p.excl)
        /\ bound(d.exes, b.exes) = Elsewhere(p.exes)
        /\ bound(d.env, b.env) = Elsewhere(p.env)
    <2>1. d.paths = symbolic(p.paths, 0) /\ d.excl = symbolic(p.excl, n)
          /\ d.exes = symbolic(p.exes, 0) /\ d.env = symbolic(p.env, 0)
      BY DocumentFacts
    <2>2. /\ \A i \in Of(p.paths, "local") :
                b.paths[0 + rank(Of(p.paths, "local"), i)] = B(p.paths[i].v)
          /\ \A i \in Of(p.excl, "local") :
                b.paths[n + rank(Of(p.excl, "local"), i)] = B(p.excl[i].v)
          /\ \A i \in Of(p.exes, "local") :
                b.exes[0 + rank(Of(p.exes, "local"), i)] = B(p.exes[i].v)
          /\ \A i \in Of(p.env, "local") :
                b.env[0 + rank(Of(p.env, "local"), i)] = B(p.env[i].v)
      BY MeantFacts
    <2>3. \A f \in {p.paths, p.excl, p.exes, p.env} : \A i \in DOMAIN f : f[i].kind # "bound"
      BY ProfileFacts
    <2> HIDE DEF d, b, n
    <2>4. bound(symbolic(p.paths, 0), b.paths) = Elsewhere(p.paths)
      BY <1>2, <2>2, <2>3, BoundBack
    <2>5. bound(symbolic(p.excl, n), b.paths) = Elsewhere(p.excl)
      BY <1>2, <2>2, <2>3, BoundBack
    <2>6. bound(symbolic(p.exes, 0), b.exes) = Elsewhere(p.exes)
      BY <1>2, <2>2, <2>3, BoundBack
    <2>7. bound(symbolic(p.env, 0), b.env) = Elsewhere(p.env)
      BY <1>2, <2>2, <2>3, BoundBack
    <2>8. QED
      BY <2>1, <2>4, <2>5, <2>6, <2>7
  <1>4. boundProfile(d, b) = Moved(p)
    <2>1. d.skills = symbolicSources(p.skills, p) /\ d.instr = symbolicSources(p.instr, p)
          /\ d.mcp = p.mcp
          /\ d.auth = IF p.auth.kind = "local" THEN [kind |-> "bound", v |-> 1] ELSE p.auth
      BY DocumentFacts
    <2>2. localRefs(d.skills, b) = p.skills /\ localRefs(d.instr, b) = p.instr
      BY <2>1, ReferencesBack
    <2>3. p.auth.kind = "local" => b.auth[1] = B(p.auth.v)
      BY MeantFacts
    <2>4. p.auth.kind \in {"plain", "local"}
      BY <1>2 DEF ValidProfile
    <2> HIDE DEF d, b
    <2>5. (IF d.auth.kind = "bound" THEN [kind |-> "local", v |-> b.auth[d.auth.v]] ELSE d.auth)
          = (IF p.auth.kind = "local" THEN [kind |-> "local", v |-> B(p.auth.v)] ELSE p.auth)
      BY <2>1, <2>3, <2>4
    <2>6. boundProfile(d, b) =
          [skills |-> localRefs(d.skills, b), instr |-> localRefs(d.instr, b),
           paths |-> bound(d.paths, b.paths), excl |-> bound(d.excl, b.paths),
           exes |-> bound(d.exes, b.exes), env |-> bound(d.env, b.env), mcp |-> d.mcp,
           auth |-> IF d.auth.kind = "bound" THEN [kind |-> "local", v |-> b.auth[d.auth.v]]
                    ELSE d.auth]
      BY ONLY <1>1, BoundProfileFields
    <2>7. QED
      BY ONLY <1>3, <2>1, <2>2, <2>5, <2>6 DEF Moved
  <1>5. Selections(Moved(p)) /\ ValidReferences(Moved(p))
    BY <1>2, MovedIsValid DEF ValidProfile
  <1>6. Moved(p).skills = p.skills /\ Moved(p).instr = p.instr
    BY DEF Moved
  <1>7. bindingVersionCompatible(d, b) /\ exactBindingKeys(d, b)
    BY MeantFacts, DocumentFacts DEF bindingVersionCompatible
  <1>8. distinctDestinations(p.skills, d.skills)
    BY SymbolsKeepSize, DocumentFacts
  <1>9. {s.src : s \in p.skills} \subseteq SkillSources /\ {s.src : s \in p.instr} \subseteq {Instructions}
    BY <1>2 DEF ValidProfile
  <1> HIDE DEF d, b
  <1>10. bindDocument(d, b) = [code |-> "valid", candidate |-> Moved(p)]
    BY <1>4, <1>5, <1>6, <1>7, <1>8, <1>9 DEF bindDocument
  <1>11. QED
    BY <1>1, <1>10 DEF Decode, b

-----------------------------------------------------------------------------
(* What an admitted document lets through. *)

\* Admission leaves nothing of a host in a document, and every symbol in it is
\* one of those it requires.
LEMMA AdmittedFacts ==
  ASSUME NEW d, admitDocument(d) = "valid"
  PROVE  /\ \A f \in {d.paths, d.excl, d.exes, d.env} : Of(f, "local") = {}
         /\ uses(d.paths) \subseteq d.reqs.paths /\ uses(d.excl) \subseteq d.reqs.paths
         /\ uses(d.exes) \subseteq d.reqs.exes /\ uses(d.env) \subseteq d.reqs.env
         /\ d.auth.kind \in {"plain", "bound"}
         /\ d.auth.kind = "bound" => d.auth.v \in d.reqs.auth
  <1>1. validateDocumentRelations(d) /\ validateSymbolicIntent(d)
    BY DEF admitDocument
  <1>2. \A f \in {d.paths, d.excl, d.exes, d.env} : Of(f, "local") = {}
    BY <1>1 DEF validateSymbolicIntent, noLocals
  <1>3. /\ uses(d.paths) \cup uses(d.excl) = d.reqs.paths
        /\ uses(d.exes) = d.reqs.exes /\ uses(d.env) = d.reqs.env
        /\ usedAuth(d) = d.reqs.auth /\ d.auth.kind \in {"plain", "bound"}
    BY <1>1 DEF validateDocumentRelations
  <1>4. d.auth.kind = "bound" => d.auth.v \in usedAuth(d)
    BY DEF usedAuth
  <1>5. QED
    BY <1>2, <1>3, <1>4

\* The document of an export has nothing of host A in it and is admitted.
LEMMA ExportedPortable ==
  ASSUME NEW d \in Exported
  PROVE  IsDocument(d) /\ HostValues(d) = {} /\ admitDocument(d) = "valid"
  <1>1. PICK p \in Profiles : Export(p) # Refused /\ d = document(p)
    BY DEF Exported
  <1>2. IsDocument(d) /\ admitDocument(d) = "valid"
    BY <1>1, ExportFacts, DocumentIsOne
  <1>3. /\ \A f \in {d.paths, d.excl, d.exes, d.env} : \A i \in Of(f, "local") : f[i].v \in {}
        /\ d.auth.kind = "local" => d.auth.v \in {}
    BY <1>2, AdmittedFacts
  <1>4. HostValues(d) \subseteq {}
    BY <1>3, HostValuesWithin
  <1>5. QED
    BY <1>2, <1>4

\* Entries without anything local, bound to values of S, have values of S.
LEMMA BoundWithin ==
  ASSUME NEW f, Of(f, "local") = {}, NEW b, NEW S, \A s \in uses(f) : b[s] \in S
  PROVE  \A i \in Of(bound(f, b), "local") : bound(f, b)[i].v \in S
  <1> DEFINE g == bound(f, b)
  <1>1. /\ DOMAIN g = DOMAIN f
        /\ \A i \in DOMAIN f : /\ f[i].kind = "bound" => g[i] = [kind |-> "local", v |-> b[f[i].v]]
                               /\ f[i].kind # "bound" => g[i] = f[i]
    BY DEF bound
  <1> HIDE DEF g
  <1>2. \A i \in DOMAIN f : f[i].kind # "local"
    BY DEF Of
  <1>3. \A i \in DOMAIN f : f[i].kind = "bound" => f[i].v \in uses(f)
    BY DEF uses, Of
  <1>4. ASSUME NEW i \in DOMAIN g, g[i].kind = "local"
        PROVE  g[i].v \in S
    <2>1. f[i].kind = "bound"
      BY <1>1, <1>2, <1>4
    <2>2. g[i].v = b[f[i].v] /\ f[i].v \in uses(f)
      BY <1>1, <1>3, <1>4, <2>1
    <2>3. QED
      BY <2>2
  <1>5. QED
    BY <1>4 DEF g, Of

\* Bindings of host B bind with values of host B.
LEMMA BindingValues ==
  ASSUME NEW d, NEW b \in AnyBindings(d), exactBindingKeys(d, b)
  PROVE  /\ \A s \in d.reqs.paths : b.paths[s] \in HostB
         /\ \A s \in d.reqs.exes : b.exes[s] \in HostB
         /\ \A s \in d.reqs.env : b.env[s] \in HostB
         /\ \A s \in d.reqs.auth : b.auth[s] \in HostB
  <1>1. B(1) \in HostB
    BY HostsAssumption DEF HostB
  <1>2. /\ b.paths \in [d.reqs.paths -> HostB] \cup [d.reqs.paths \ {1} -> HostB]
        /\ b.exes \in [d.reqs.exes -> {B(1)}] /\ b.env \in [d.reqs.env -> {B(1)}]
        /\ b.auth \in [d.reqs.auth -> {B(1)}]
    BY DEF AnyBindings
  <1>3. DOMAIN b.paths = d.reqs.paths
    BY DEF exactBindingKeys
  <1>4. b.paths \in [d.reqs.paths -> HostB]
    <2>1. CASE b.paths \in [d.reqs.paths \ {1} -> HostB]
      <3>1. d.reqs.paths \ {1} = d.reqs.paths
        BY <1>3, <2>1
      <3>2. QED
        BY <2>1, <3>1
    <2>2. QED
      BY <1>2, <2>1
  <1>5. QED
    BY <1>1, <1>2, <1>4

\* Whatever a document says and however it is bound, what is accepted is a
\* Profile host B can store, and nothing of a host is in it but what the
\* bindings put there.
LEMMA BindingsOnly ==
  ASSUME NEW d, IsDocument(d), NEW b \in AnyBindings(d), Decode(d, b).code = "valid"
  PROVE  /\ ValidProfile(Decode(d, b).candidate)
         /\ HostValues(Decode(d, b).candidate) \subseteq HostB
  <1> DEFINE q == boundProfile(d, b)
  <1>1. admitDocument(d) = "valid" /\ Decode(d, b) = bindDocument(d, b)
    BY DEF Decode
  <1>2. /\ exactBindingKeys(d, b) /\ Decode(d, b).candidate = q
        /\ {s.src : s \in q.skills} \subseteq SkillSources
        /\ {s.src : s \in q.instr} \subseteq {Instructions}
        /\ Selections(q) /\ ValidReferences(q)
    BY <1>1 DEF bindDocument
  <1> HIDE DEF q
  <1>3. /\ q.paths = bound(d.paths, b.paths) /\ q.excl = bound(d.excl, b.paths)
        /\ q.exes = bound(d.exes, b.exes) /\ q.env = bound(d.env, b.env)
        /\ q.auth = IF d.auth.kind = "bound" THEN [kind |-> "local", v |-> b.auth[d.auth.v]]
                    ELSE d.auth
    <2>1. q = [skills |-> localRefs(d.skills, b), instr |-> localRefs(d.instr, b),
               paths |-> bound(d.paths, b.paths), excl |-> bound(d.excl, b.paths),
               exes |-> bound(d.exes, b.exes), env |-> bound(d.env, b.env), mcp |-> d.mcp,
               auth |-> IF d.auth.kind = "bound" THEN [kind |-> "local", v |-> b.auth[d.auth.v]]
                        ELSE d.auth]
      BY BoundProfileFields DEF q
    <2>2. QED
      BY <2>1
  <1>4. q.auth.kind \in {"plain", "local"}
    BY <1>1, <1>3, AdmittedFacts
  <1>5. ValidProfile(q)
    BY <1>2, <1>4 DEF ValidProfile
  <1>6. /\ \A s \in d.reqs.paths : b.paths[s] \in HostB
        /\ \A s \in d.reqs.exes : b.exes[s] \in HostB
        /\ \A s \in d.reqs.env : b.env[s] \in HostB
        /\ \A s \in d.reqs.auth : b.auth[s] \in HostB
    BY <1>2, BindingValues
  <1>7. /\ \A i \in Of(q.paths, "local") : q.paths[i].v \in HostB
        /\ \A i \in Of(q.excl, "local") : q.excl[i].v \in HostB
        /\ \A i \in Of(q.exes, "local") : q.exes[i].v \in HostB
        /\ \A i \in Of(q.env, "local") : q.env[i].v \in HostB
    <2>1. /\ \A s \in uses(d.paths) \cup uses(d.excl) : b.paths[s] \in HostB
          /\ \A s \in uses(d.exes) : b.exes[s] \in HostB
          /\ \A s \in uses(d.env) : b.env[s] \in HostB
      BY <1>1, <1>6, AdmittedFacts
    <2>2. Of(d.paths, "local") = {} /\ Of(d.excl, "local") = {} /\ Of(d.exes, "local") = {}
          /\ Of(d.env, "local") = {}
      BY <1>1, AdmittedFacts
    <2>3. \A i \in Of(bound(d.paths, b.paths), "local") : bound(d.paths, b.paths)[i].v \in HostB
      BY <2>1, <2>2, BoundWithin
    <2>4. \A i \in Of(bound(d.excl, b.paths), "local") : bound(d.excl, b.paths)[i].v \in HostB
      BY <2>1, <2>2, BoundWithin
    <2>5. \A i \in Of(bound(d.exes, b.exes), "local") : bound(d.exes, b.exes)[i].v \in HostB
      BY <2>1, <2>2, BoundWithin
    <2>6. \A i \in Of(bound(d.env, b.env), "local") : bound(d.env, b.env)[i].v \in HostB
      BY <2>1, <2>2, BoundWithin
    <2>7. QED
      BY <1>3, <2>3, <2>4, <2>5, <2>6
  <1>8. q.auth.kind = "local" => q.auth.v \in HostB
    BY <1>1, <1>3, <1>6, AdmittedFacts
  <1>9. \A f \in {q.paths, q.excl, q.exes, q.env} : \A i \in Of(f, "local") : f[i].v \in HostB
    BY <1>7
  <1>10. HostValues(q) \subseteq HostB
    BY <1>8, <1>9, HostValuesWithin
  <1>11. QED
    BY <1>2, <1>5, <1>10

\* No answer of Decode says that something was imported.
LEMMA DecodeAnswers ==
  ASSUME NEW d, NEW b
  PROVE  Decode(d, b).code # "imported"
  <1>1. admitDocument(d) # "imported"
    BY DEF admitDocument
  <1>2. bindDocument(d, b).code # "imported"
    BY DEF bindDocument
  <1>3. QED
    BY <1>1, <1>2 DEF Decode

\* An edited document is still a record of the same fields.
Edited == UNION {Edits(d) : d \in Exported}
LEMMA EditedAreDocuments ==
  ASSUME NEW d \in Edited
  PROVE  IsDocument(d)
  <1>1. PICK c \in Exported : d \in Edits(c)
    BY DEF Edited
  <1>2. IsDocument(c)
    BY <1>1, ExportedPortable
  <1>3. ASSUME NEW f, d \in {[c EXCEPT !.ver = f], [c EXCEPT !.instr = f], [c EXCEPT !.excl = f],
                             [c EXCEPT !.exes = f], [c EXCEPT !.mcp = f],
                             [c EXCEPT !.reqs.paths = f]}
        PROVE  IsDocument(d)
    BY <1>2, <1>3 DEF IsDocument
  <1>4. ASSUME NEW f, NEW r, d = [c EXCEPT !.paths = f, !.reqs.paths = r]
        PROVE  IsDocument(d)
    <2> DEFINE e == [c EXCEPT !.paths = f]
    <2>1. IsDocument(e)
      BY <1>2 DEF IsDocument
    <2>2. d = [e EXCEPT !.reqs.paths = r]
      BY <1>4
    <2> HIDE DEF e
    <2>3. QED
      BY <2>1, <2>2 DEF IsDocument
  <1>5. CASE d \in {[c EXCEPT !.ver = v] : v \in {1, 2, 4}}
    BY <1>3, <1>5
  <1>6. CASE d \in {[c EXCEPT !.reqs.paths = @ \cup {9}], [c EXCEPT !.reqs.paths = @ \ {1}]}
    BY <1>3, <1>6
  <1>7. CASE d = [c EXCEPT !.paths = [i \in DOMAIN @ |-> [kind |-> "local", v |-> 1]],
                           !.reqs.paths = uses(c.excl)]
    BY <1>4, <1>7
  <1>8. CASE d \in {[c EXCEPT !.excl = [i \in DOMAIN @ |-> [kind |-> "bound", v |-> 1]]],
                    [c EXCEPT !.exes = [i \in DOMAIN @ |-> [kind |-> "local", v |-> 1]]],
                    [c EXCEPT !.instr = {[src |-> 1, rel |-> s.rel] : s \in @ \cup c.skills}],
                    [c EXCEPT !.mcp = {[exe |-> 1, inp |-> 2, arg |-> 2]}]}
    BY <1>3, <1>8
  <1>9. QED
    BY <1>1, <1>5, <1>6, <1>7, <1>8 DEF Edits

-----------------------------------------------------------------------------
(* Host A: what an exporter has prepared, and what is at the destination. *)

Exports == [pc : {"idle", "create", "write", "sync", "publish", "dirsync", "done", "killed"},
            doc : Exported \cup {Refused}, cancelled : BOOLEAN,
            result : {"no", "refused", "unpublished", "uncertain", "exported"}]

\* Exporter e with locals r and temporary file t, beside destination f: it
\* renames nothing but a synced file, the destination is its own while the
\* directory is synced, and it has said no more than what is there.
Ready(e, r, t, f) ==
    /\ r.pc \in {"create", "write", "sync", "publish"} => r.doc \in Exported
    /\ r.pc = "publish" => t = "synced"
    /\ r.pc = "dirsync" => t = "none" /\ f.by \in {e, "user"} /\ f.bytes # "none"
    /\ r.pc = "done" => t = "none"
    /\ r.pc # "done" => r.result = "no"
    /\ r.result = "exported" => f.by \in {e, "user"} /\ f.durable
    /\ f.by = e => r.pc \in {"dirsync", "killed"} \/ r.result \in {"exported", "uncertain"}

Files == [doc : Exported \cup Edited \cup {Refused}, by : Exporters \cup {"nobody", "user"},
          bytes : {"none", "synced"}, durable : BOOLEAN]

\* A destination: whole or absent, an exported document or an edited one.
Sound(f) ==
    /\ f \in Files /\ (f.bytes = "none" <=> f.by = "nobody")
    /\ f.by \in Exporters => f.doc \in Exported
    /\ f.by = "user" => f.doc \in Edited /\ f.durable

HostA ==
    /\ stored \in Profiles
    /\ exp \in [Exporters -> Exports]
    /\ temp \in [Exporters -> {"none", "torn", "written", "synced"}]
    /\ Sound(dest)
    /\ \A e \in Exporters : Ready(e, exp[e], temp[e], dest)

\* A step of one exporter that leaves the destination alone.
LEMMA OneMoves ==
  ASSUME HostA, NEW e \in Exporters, NEW r \in Exports,
         NEW t \in {"none", "torn", "written", "synced"},
         exp' = [exp EXCEPT ![e] = r], temp' = [temp EXCEPT ![e] = t], UNCHANGED <<stored, dest>>,
         Ready(e, r, t, dest)
  PROVE  HostA'
  <1>1. exp' \in [Exporters -> Exports] /\ temp' \in [Exporters -> {"none", "torn", "written", "synced"}]
    BY DEF HostA
  <1>2. exp'[e] = r /\ temp'[e] = t
    BY DEF HostA
  <1>3. \A x \in Exporters : x # e => exp'[x] = exp[x] /\ temp'[x] = temp[x]
    BY DEF HostA
  <1>4. ASSUME NEW x \in Exporters
        PROVE  Ready(x, exp'[x], temp'[x], dest)
    <2>1. CASE x = e
      BY <1>2, <2>1
    <2>2. CASE x # e
      BY <1>3, <2>2 DEF HostA
    <2>3. QED
      BY <2>1, <2>2
  <1>5. stored' \in Profiles /\ dest' = dest /\ Sound(dest)
    BY DEF HostA
  <1>6. QED
    BY <1>1, <1>4, <1>5 DEF HostA

\* What a return and what a kill leave of an exporter.
returned(result) == [IdleE EXCEPT !.pc = "done", !.result = result]
LEMMA EndFacts ==
  ASSUME NEW result \in {"refused", "unpublished", "uncertain", "exported"}
  PROVE  /\ returned(result) \in Exports /\ Dead \in Exports
         /\ returned(result).pc = "done" /\ returned(result).result = result
         /\ Dead.pc = "killed" /\ Dead.result = "no"
  <1> DEFINE s == [IdleE EXCEPT !.pc = "done"]
  <1>1. IdleE \in Exports /\ IdleE.result = "no"
    BY DEF IdleE, Exports
  <1>2. Dead \in Exports /\ Dead.pc = "killed" /\ Dead.result = "no"
    BY <1>1 DEF Dead, Exports
  <1>3. s \in Exports /\ s.pc = "done"
    BY <1>1 DEF Exports
  <1>4. returned(result) = [s EXCEPT !.result = result]
    BY DEF returned
  <1> HIDE DEF s
  <1>5. returned(result) \in Exports /\ returned(result).pc = "done" /\ returned(result).result = result
    BY <1>3, <1>4 DEF Exports
  <1>6. QED
    BY <1>2, <1>5

\* A return while the destination stays.
LEMMA OneEnds ==
  ASSUME HostA, NEW e \in Exporters, NEW result, ends(e, result), UNCHANGED <<stored, dest>>,
         result \in {"refused", "unpublished", "uncertain"}, result = "uncertain" \/ dest.by # e
  PROVE  HostA'
  <1>1. exp' = [exp EXCEPT ![e] = returned(result)] /\ temp' = [temp EXCEPT ![e] = "none"]
    BY DEF ends, returned
  <1>2. returned(result) \in Exports
    BY EndFacts
  <1>3. Ready(e, returned(result), "none", dest)
    BY EndFacts DEF Ready
  <1>4. QED
    BY <1>1, <1>2, <1>3, OneMoves

\* The exporter at a label before the renaming, and its next label.
LEMMA OneAdvances ==
  ASSUME HostA, NEW e \in Exporters, NEW pc \in {"write", "sync", "publish"},
         exp[e].pc \in {"create", "write", "sync"}, moves(e, pc),
         NEW t \in {"none", "torn", "written", "synced"}, pc = "publish" => t = "synced",
         temp' = [temp EXCEPT ![e] = t], UNCHANGED <<stored, dest>>
  PROVE  HostA'
  <1> DEFINE r == [exp[e] EXCEPT !.pc = pc]
  <1>1. exp[e] \in Exports /\ Ready(e, exp[e], temp[e], dest)
    BY DEF HostA
  <1>2. exp' = [exp EXCEPT ![e] = r]
    BY DEF moves
  <1>3. /\ r \in Exports /\ r.pc = pc /\ r.doc = exp[e].doc /\ r.result = exp[e].result
    BY <1>1 DEF Exports
  <1>4. Ready(e, r, t, dest)
    BY <1>1, <1>3 DEF Ready
  <1> HIDE DEF r
  <1>5. QED
    BY <1>2, <1>3, <1>4, OneMoves

LEMMA ExportProfileStep ==
  ASSUME HostA, NEW e \in Exporters, ExportProfile(e)
  PROVE  HostA'
  <1>1. exp[e] \in Exports /\ Ready(e, exp[e], temp[e], dest) /\ at(e, "idle")
    BY DEF HostA, ExportProfile
  <1>2. UNCHANGED <<stored, dest>>
    BY DEF ExportProfile, others
  <1>3. CASE Export(stored) = Refused
    <2>1. ends(e, "refused")
      BY <1>3 DEF ExportProfile
    <2>2. dest.by # e
      BY <1>1 DEF Ready, at
    <2>3. QED
      BY <1>2, <2>1, <2>2, OneEnds
  <1>4. CASE Export(stored) # Refused
    <2> DEFINE r == [[exp[e] EXCEPT !.pc = "create"] EXCEPT !.doc = Export(stored)]
    <2>1. exp' = [exp EXCEPT ![e].pc = "create", ![e].doc = Export(stored)] /\ temp' = temp
      BY <1>4 DEF ExportProfile
    <2>2. exp' = [exp EXCEPT ![e] = r]
      BY <2>1 DEF HostA
    <2>3. Export(stored) \in Exported
      BY <1>4, ExportFacts DEF Exported, HostA
    <2>4. r \in Exports /\ r.pc = "create" /\ r.doc = Export(stored) /\ r.result = exp[e].result
      BY <1>1, <2>3 DEF Exports
    <2>5. Ready(e, r, temp[e], dest)
      BY <1>1, <2>3, <2>4 DEF Ready, at
    <2>6. temp[e] \in {"none", "torn", "written", "synced"} /\ temp' = [temp EXCEPT ![e] = temp[e]]
      BY <2>1 DEF HostA
    <2> HIDE DEF r
    <2>7. QED
      BY <1>2, <2>2, <2>4, <2>5, <2>6, OneMoves
  <1>5. QED
    BY <1>3, <1>4

LEMMA CreateStep ==
  ASSUME HostA, NEW e \in Exporters, Create(e)
  PROVE  HostA'
  <1>1. exp[e].pc = "create" /\ dest.by # e /\ UNCHANGED <<stored, dest>>
    BY DEF HostA, Ready, Create, at, others
  <1>2. CASE exp[e].cancelled
    BY <1>1, <1>2, OneEnds DEF Create
  <1>3. CASE ~exp[e].cancelled
    BY <1>1, <1>3, OneAdvances DEF Create
  <1>4. QED
    BY <1>2, <1>3

LEMMA WriteStep ==
  ASSUME HostA, NEW e \in Exporters, Write(e)
  PROVE  HostA'
  BY OneAdvances DEF Write, at, others

LEMMA FileSyncStep ==
  ASSUME HostA, NEW e \in Exporters, FileSync(e)
  PROVE  HostA'
  BY OneAdvances DEF FileSync, at, others

\* The renaming: to a name that is free, of a file that is synced.
LEMMA PublishStep ==
  ASSUME HostA, NEW e \in Exporters, Publish(e)
  PROVE  HostA'
  <1>1. /\ exp[e] \in Exports /\ Ready(e, exp[e], temp[e], dest) /\ exp[e].pc = "publish"
        /\ dest.by # e /\ stored' = stored
    BY DEF HostA, Ready, Publish, at, others
  <1>2. CASE exp[e].cancelled \/ dest.bytes # "none"
    <2>1. ends(e, "unpublished") /\ dest' = dest
      BY <1>2 DEF Publish
    <2>2. QED
      BY <1>1, <2>1, OneEnds
  <1>3. CASE ~(exp[e].cancelled \/ dest.bytes # "none")
    <2> DEFINE r == [exp[e] EXCEPT !.pc = "dirsync"]
               f == [doc |-> exp[e].doc, by |-> e, bytes |-> temp[e], durable |-> FALSE]
    <2>1. exp' = [exp EXCEPT ![e] = r] /\ temp' = [temp EXCEPT ![e] = "none"] /\ dest' = f
      BY <1>3 DEF Publish, moves
    <2>2. r \in Exports /\ r.pc = "dirsync" /\ r.result = "no"
      BY <1>1 DEF Exports, Ready
    <2>3. exp[e].doc \in Exported /\ temp[e] = "synced"
      BY <1>1 DEF Ready
    <2>4. Sound(f) /\ f.by = e /\ f.bytes = "synced"
      <3>1. e # "nobody" /\ e # "user"
        BY HostsAssumption
      <3>2. QED
        BY <2>3, <3>1 DEF Sound, Files
    <2>5. dest.by = "nobody"
      BY <1>3 DEF HostA, Sound
    <2> HIDE DEF r, f
    <2>6. exp' \in [Exporters -> Exports] /\ temp' \in [Exporters -> {"none", "torn", "written", "synced"}]
      BY <2>1, <2>2 DEF HostA
    <2>7. ASSUME NEW x \in Exporters
          PROVE  Ready(x, exp'[x], temp'[x], f)
      <3>1. CASE x = e
        <4>1. exp'[x] = r /\ temp'[x] = "none"
          BY <2>1, <3>1 DEF HostA
        <4>2. QED
          BY <2>2, <2>4, <3>1, <4>1 DEF Ready
      <3>2. CASE x # e
        <4>1. exp'[x] = exp[x] /\ temp'[x] = temp[x] /\ Ready(x, exp[x], temp[x], dest)
          BY <2>1, <3>2 DEF HostA
        <4>2. x # "nobody" /\ x # "user"
          BY HostsAssumption
        <4>3. exp[x].pc # "dirsync" /\ exp[x].result # "exported"
          BY <2>5, <4>1, <4>2 DEF Ready
        <4>4. QED
          BY <2>4, <3>2, <4>1, <4>3 DEF Ready
      <3>3. QED
        BY <3>1, <3>2
    <2>8. QED
      BY <1>1, <2>1, <2>4, <2>6, <2>7 DEF HostA
  <1>4. QED
    BY <1>2, <1>3

\* The directory is synced, which makes the name last.
LEMMA DirSyncStep ==
  ASSUME HostA, NEW e \in Exporters, DirSync(e)
  PROVE  HostA'
  <1> DEFINE f == [dest EXCEPT !.durable = TRUE]
             result == IF exp[e].cancelled THEN "uncertain" ELSE "exported"
             r == returned(result)
  <1>1. /\ exp[e] \in Exports /\ Ready(e, exp[e], temp[e], dest) /\ exp[e].pc = "dirsync"
        /\ stored' = stored /\ Sound(dest) /\ stored \in Profiles
    BY DEF HostA, DirSync, at, others
  <1>2. dest' = f
    <2>1. dest' = [dest EXCEPT !.durable = dest.bytes # "none"] /\ dest.bytes # "none"
      BY <1>1 DEF DirSync, Ready
    <2>2. (dest.bytes # "none") = TRUE
      BY <2>1
    <2>3. QED
      BY <2>1, <2>2
  <1>3. /\ f \in Files /\ f.doc = dest.doc /\ f.by = dest.by /\ f.bytes = dest.bytes /\ f.durable
    BY <1>1 DEF Sound, Files
  <1>4. exp' = [exp EXCEPT ![e] = r] /\ temp' = [temp EXCEPT ![e] = "none"]
    BY DEF DirSync, ends, returned
  <1>5. r \in Exports /\ r.pc = "done" /\ r.result \in {"uncertain", "exported"}
    BY EndFacts
  <1> HIDE DEF f, r
  <1>6. Sound(f)
    BY <1>1, <1>3 DEF Sound
  <1>7. exp' \in [Exporters -> Exports] /\ temp' \in [Exporters -> {"none", "torn", "written", "synced"}]
    BY <1>4, <1>5 DEF HostA
  <1>8. ASSUME NEW x \in Exporters
        PROVE  Ready(x, exp'[x], temp'[x], f)
    <2>1. CASE x = e
      <3>1. exp'[x] = r /\ temp'[x] = "none"
        BY <1>4, <2>1 DEF HostA
      <3>2. QED
        BY <1>1, <1>3, <1>5, <2>1, <3>1 DEF Ready
    <2>2. CASE x # e
      <3>1. exp'[x] = exp[x] /\ temp'[x] = temp[x] /\ Ready(x, exp[x], temp[x], dest)
        BY <1>4, <2>2 DEF HostA
      <3>2. QED
        BY <1>3, <3>1 DEF Ready
    <2>3. QED
      BY <2>1, <2>2
  <1>9. QED
    BY <1>1, <1>2, <1>6, <1>7, <1>8 DEF HostA

\* A step fails: before the renaming nothing of the exporter is there.
LEMMA StepFailsStep ==
  ASSUME HostA, NEW e \in Exporters, StepFails(e)
  PROVE  HostA'
  <1>1. Ready(e, exp[e], temp[e], dest) /\ working(e) /\ UNCHANGED <<stored, dest>>
    BY DEF HostA, StepFails, others
  <1>2. CASE at(e, "dirsync")
    BY <1>1, <1>2, OneEnds DEF StepFails
  <1>3. CASE ~at(e, "dirsync")
    <2>1. dest.by # e
      BY <1>1, <1>3 DEF Ready, working, at
    <2>2. QED
      BY <1>1, <1>3, <2>1, OneEnds DEF StepFails
  <1>4. QED
    BY <1>2, <1>3

LEMMA CancelStep ==
  ASSUME HostA, NEW e \in Exporters, Cancel(e)
  PROVE  HostA'
  <1> DEFINE r == [exp[e] EXCEPT !.cancelled = TRUE]
  <1>1. exp[e] \in Exports /\ Ready(e, exp[e], temp[e], dest)
    BY DEF HostA
  <1>2. /\ exp' = [exp EXCEPT ![e] = r] /\ temp' = [temp EXCEPT ![e] = temp[e]]
        /\ temp[e] \in {"none", "torn", "written", "synced"} /\ UNCHANGED <<stored, dest>>
    BY DEF HostA, Cancel, others
  <1>3. /\ r \in Exports /\ r.pc = exp[e].pc /\ r.doc = exp[e].doc /\ r.result = exp[e].result
    BY <1>1 DEF Exports
  <1> HIDE DEF r
  <1>4. Ready(e, r, temp[e], dest)
    BY <1>1, <1>3 DEF Ready
  <1>5. QED
    BY <1>2, <1>3, <1>4, OneMoves

\* A kill leaves the temporary file, and what was renamed.
LEMMA DeadIsReady ==
  ASSUME NEW e \in Exporters, NEW t, NEW f
  PROVE  Ready(e, Dead, t, f) /\ Dead \in Exports
  <1>1. Dead \in Exports /\ Dead.pc = "killed" /\ Dead.result = "no"
    BY EndFacts
  <1>2. QED
    BY <1>1 DEF Ready

LEMMA KilledStep ==
  ASSUME HostA, NEW e \in Exporters, Killed(e)
  PROVE  HostA'
  <1>1. /\ exp' = [exp EXCEPT ![e] = Dead] /\ temp' = [temp EXCEPT ![e] = temp[e]]
        /\ temp[e] \in {"none", "torn", "written", "synced"} /\ UNCHANGED <<stored, dest>>
    BY DEF HostA, Killed, others
  <1>2. QED
    BY <1>1, DeadIsReady, OneMoves

\* A loss of power kills everyone, and takes a name that was not synced; a
\* file that was reported stays.
LEMMA PowerLossStep ==
  ASSUME HostA, PowerLoss
  PROVE  HostA'
  <1>1. /\ exp' = [e \in Exporters |-> IF working(e) THEN Dead ELSE exp[e]]
        /\ temp' = temp /\ stored' = stored
    BY DEF PowerLoss, others
  <1>2. dest' = dest \/ (~dest.durable /\ dest' = NoFile)
    BY DEF PowerLoss, HostA, Sound, Files
  <1>3. ASSUME NEW e \in Exporters
        PROVE  exp'[e] \in Exports /\ Ready(e, exp'[e], temp[e], dest')
    <2>1. CASE working(e)
      BY <1>1, <2>1, DeadIsReady
    <2>2. CASE ~working(e)
      <3>1. exp'[e] = exp[e] /\ exp[e] \in Exports /\ Ready(e, exp[e], temp[e], dest)
        BY <1>1, <2>2 DEF HostA
      <3>2. CASE dest' = dest
        BY <3>1, <3>2
      <3>3. CASE ~dest.durable /\ dest' = NoFile
        <4>1. dest'.by # e
          BY <3>3, HostsAssumption DEF NoFile
        <4>2. exp[e].result # "exported" /\ exp[e].pc \in {"idle", "done", "killed"}
          BY <2>2, <3>1, <3>3 DEF Ready, working, Exports
        <4>3. QED
          BY <3>1, <4>1, <4>2 DEF Ready
      <3>4. QED
        BY <1>2, <3>2, <3>3
    <2>3. QED
      BY <2>1, <2>2
  <1>4. Sound(dest')
    <2>1. Sound(NoFile)
      BY HostsAssumption DEF Sound, Files, NoFile
    <2>2. Sound(dest)
      BY DEF HostA
    <2>3. QED
      BY <1>2, <2>1, <2>2
  <1>5. exp' \in [Exporters -> Exports]
    BY <1>1, <1>3
  <1>6. QED
    BY <1>1, <1>3, <1>4, <1>5 DEF HostA

\* The user's edit leaves a whole file that is on the disk.
LEMMA UserEditsStep ==
  ASSUME HostA, UserEdits
  PROVE  HostA'
  <1>1. PICK d \in Edits(dest.doc) :
           dest' = [doc |-> d, by |-> "user", bytes |-> "synced", durable |-> TRUE]
    BY DEF UserEdits
  <1>2. UNCHANGED <<stored, exp, temp>> /\ d \in Edited
    BY DEF UserEdits, HostA, Sound, Edited
  <1>3. Sound(dest') /\ dest'.by = "user" /\ dest'.durable /\ dest'.bytes # "none"
    BY <1>1, <1>2, HostsAssumption DEF Sound, Files
  <1>4. ASSUME NEW e \in Exporters
        PROVE  Ready(e, exp[e], temp[e], dest')
    <2>1. Ready(e, exp[e], temp[e], dest) /\ e # "user"
      BY HostsAssumption DEF HostA
    <2>2. QED
      BY <1>3, <2>1 DEF Ready
  <1>5. QED
    BY <1>2, <1>3, <1>4 DEF HostA

-----------------------------------------------------------------------------
(* Host B: what an import has accepted, and what is stored. *)

\* What is read may be any document; what is accepted is a Profile of host B,
\* and the one that was exported if the bindings mean the same.
ImportInv ==
    /\ DOMAIN imp = {"pc", "doc", "from", "candidate", "origin", "result"}
    /\ imp.pc \in {"idle", "bindings", "check", "apply", "done"}
    /\ imp.pc # "done" => imp.result = "no"
    /\ imp.pc \in {"idle", "bindings", "done"} => imp.candidate = NoProfile /\ imp.origin = NoProfile
    /\ imp.pc = "bindings" => /\ imp.doc \in Exported \cup Edited
                              /\ imp.from \in Exporters => imp.doc \in Exported
    /\ imp.pc \in {"check", "apply"} => ValidProfile(imp.candidate)
    /\ HostValues(imp.candidate) \subseteq HostB
    /\ imp.origin # NoProfile => imp.origin \in Profiles /\ imp.candidate = Moved(imp.origin)

StoreInv == HostValues(store) \subseteq HostB /\ (store # NoProfile => ValidProfile(store))

HostBInv == ImportInv /\ StoreInv
ExchangeInv == HostA /\ HostBInv

\* No Profile has nothing of a host in it.
LEMMA NothingOfHost == HostValues(NoProfile) = {}
  <1>1. /\ \A f \in {NoProfile.paths, NoProfile.excl, NoProfile.exes, NoProfile.env} :
              \A i \in Of(f, "local") : f[i].v \in {}
        /\ NoProfile.auth.kind # "local"
    BY DEF NoProfile, Of
  <1>2. HostValues(NoProfile) \subseteq {}
    BY <1>1, HostValuesWithin
  <1>3. QED
    BY <1>2

\* An import that is over.
LEMMA ReturnedImport ==
  ASSUME NEW result, returnsI(result)
  PROVE  ImportInv' /\ imp'.result = result
  <1> DEFINE s == [IdleI EXCEPT !.pc = "done"]
  <1>1. /\ DOMAIN IdleI = {"pc", "doc", "from", "candidate", "origin", "result"}
        /\ IdleI.candidate = NoProfile /\ IdleI.origin = NoProfile
    BY DEF IdleI
  <1>2. /\ DOMAIN s = {"pc", "doc", "from", "candidate", "origin", "result"}
        /\ s.pc = "done" /\ s.candidate = NoProfile /\ s.origin = NoProfile
    BY <1>1
  <1>3. imp' = [s EXCEPT !.result = result]
    BY DEF returnsI
  <1> HIDE DEF s
  <1>4. /\ DOMAIN imp' = {"pc", "doc", "from", "candidate", "origin", "result"}
        /\ imp'.pc = "done" /\ imp'.candidate = NoProfile /\ imp'.origin = NoProfile
        /\ imp'.result = result
    BY <1>2, <1>3
  <1>5. QED
    BY <1>4, NothingOfHost DEF ImportInv

\* Reading takes a document from host A.
LEMMA ReadDocumentStep ==
  ASSUME HostA, HostBInv, ReadDocument
  PROVE  HostBInv'
  <1>1. store' = store /\ dest.bytes # "none" /\ Sound(dest) /\ imp.pc = "idle"
    BY DEF ReadDocument, HostA
  <1>2. preflight(dest.bytes)
    BY <1>1 DEF preflight, Sound, Files
  <1>3. imp' = [imp EXCEPT !.pc = "bindings", !.doc = dest.doc, !.from = dest.by]
    BY <1>2 DEF ReadDocument
  <1>4. /\ DOMAIN imp' = DOMAIN imp
        /\ imp'.pc = "bindings" /\ imp'.doc = dest.doc /\ imp'.from = dest.by
        /\ imp'.candidate = imp.candidate /\ imp'.origin = imp.origin /\ imp'.result = imp.result
    BY <1>3 DEF HostBInv, ImportInv
  <1>5. dest.doc \in Exported \cup Edited /\ (dest.by \in Exporters => dest.doc \in Exported)
    BY <1>1 DEF Sound, Files
  <1>6. ImportInv'
    BY <1>1, <1>4, <1>5 DEF HostBInv, ImportInv
  <1>7. QED
    BY <1>1, <1>6 DEF HostBInv, StoreInv

\* Decoding moves to the look at the destination with a candidate, or ends.
LEMMA DecodedFields ==
  ASSUME ImportInv, NEW b, NEW origin, Decoded(b, origin)
  PROVE  LET r == Decode(imp.doc, b) IN
         /\ r.code = "valid" =>
               /\ DOMAIN imp' = DOMAIN imp /\ imp'.pc = "check" /\ imp'.candidate = r.candidate
               /\ imp'.origin = origin /\ imp'.result = imp.result
         /\ r.code # "valid" =>
               /\ DOMAIN imp' = DOMAIN imp /\ imp'.pc = "done" /\ imp'.candidate = NoProfile
               /\ imp'.origin = origin /\ imp'.result = r.code
  <1> DEFINE r == Decode(imp.doc, b)
  <1>1. imp' = IF r.code = "valid"
               THEN [imp EXCEPT !.pc = "check", !.doc = Refused, !.from = "nobody",
                             !.candidate = r.candidate, !.origin = origin]
               ELSE [IdleI EXCEPT !.pc = "done", !.result = r.code, !.origin = origin]
    BY DEF Decoded
  <1> HIDE DEF r
  <1>2. /\ DOMAIN IdleI = {"pc", "doc", "from", "candidate", "origin", "result"}
        /\ IdleI.candidate = NoProfile
    BY DEF IdleI
  <1>3. CASE r.code = "valid"
    <2>1. imp' = [imp EXCEPT !.pc = "check", !.doc = Refused, !.from = "nobody",
                             !.candidate = r.candidate, !.origin = origin]
      BY <1>1, <1>3
    <2>2. /\ DOMAIN imp' = DOMAIN imp /\ imp'.pc = "check" /\ imp'.candidate = r.candidate
          /\ imp'.origin = origin /\ imp'.result = imp.result
      BY <2>1 DEF ImportInv
    <2>3. QED
      BY <1>3, <2>2 DEF r
  <1>4. CASE r.code # "valid"
    <2>1. imp' = [IdleI EXCEPT !.pc = "done", !.result = r.code, !.origin = origin]
      BY <1>1, <1>4
    <2>2. /\ DOMAIN imp' = DOMAIN imp /\ imp'.pc = "done" /\ imp'.candidate = NoProfile
          /\ imp'.origin = origin /\ imp'.result = r.code
      BY <1>2, <2>1 DEF ImportInv
    <2>3. QED
      BY <1>4, <2>2 DEF r
  <1>5. QED
    BY <1>3, <1>4 DEF r

\* Bound with anything the importer's host has.
LEMMA ReadBindingsStep ==
  ASSUME HostBInv, ReadBindings
  PROVE  HostBInv'
  <1>1. PICK b \in AnyBindings(imp.doc) : Decoded(b, NoProfile)
    BY DEF ReadBindings
  <1>2. imp.pc = "bindings" /\ store' = store
    BY <1>1 DEF ReadBindings, Decoded
  <1>3. IsDocument(imp.doc)
    BY <1>2, ExportedPortable, EditedAreDocuments DEF HostBInv, ImportInv
  <1> DEFINE r == Decode(imp.doc, b)
  <1>4. r.code = "valid" => ValidProfile(r.candidate) /\ HostValues(r.candidate) \subseteq HostB
    BY <1>3, BindingsOnly
  <1>5. /\ r.code = "valid" =>
              /\ DOMAIN imp' = DOMAIN imp /\ imp'.pc = "check" /\ imp'.candidate = r.candidate
              /\ imp'.origin = NoProfile /\ imp'.result = imp.result
        /\ r.code # "valid" =>
              /\ DOMAIN imp' = DOMAIN imp /\ imp'.pc = "done" /\ imp'.candidate = NoProfile
              /\ imp'.origin = NoProfile
    BY <1>1, DecodedFields DEF HostBInv
  <1> HIDE DEF r
  <1>6. ImportInv'
    BY <1>2, <1>4, <1>5, NothingOfHost DEF HostBInv, ImportInv
  <1>7. QED
    BY <1>2, <1>6 DEF HostBInv, StoreInv

\* Bound with what the exporter's host meant: accepted, and the same Profile.
LEMMA ReadMeantBindingsStep ==
  ASSUME HostBInv, ReadMeantBindings
  PROVE  HostBInv'
  <1>1. PICK p \in Profiles : Export(p) = imp.doc /\ Decoded(Meant(p), p)
    BY DEF ReadMeantBindings
  <1>2. imp.pc = "bindings" /\ store' = store /\ imp.from \in Exporters
    BY <1>1 DEF ReadMeantBindings, Decoded
  <1>3. Export(p) # Refused
    BY <1>1, <1>2, ExportFacts DEF HostBInv, ImportInv, Exported
  <1> DEFINE r == Decode(imp.doc, Meant(p))
  <1>4. r = [code |-> "valid", candidate |-> Moved(p)]
    BY <1>1, <1>3, RoundTrips
  <1>5. /\ DOMAIN imp' = DOMAIN imp /\ imp'.pc = "check" /\ imp'.candidate = Moved(p)
        /\ imp'.origin = p /\ imp'.result = imp.result
    <2>1. r.code = "valid" /\ r.candidate = Moved(p)
      BY <1>4
    <2>2. QED
      BY <1>1, <2>1, DecodedFields DEF HostBInv
  <1>6. ValidProfile(Moved(p)) /\ HostValues(Moved(p)) \subseteq HostB
    BY MovedIsValid
  <1>7. ImportInv'
    BY <1>2, <1>5, <1>6 DEF HostBInv, ImportInv
  <1>8. QED
    BY <1>2, <1>7 DEF HostBInv, StoreInv

LEMMA CheckDestinationStep ==
  ASSUME HostBInv, NEW dryRun \in BOOLEAN, CheckDestination(dryRun)
  PROVE  HostBInv'
  <1>1. store' = store /\ imp.pc = "check"
    BY DEF CheckDestination
  <1>2. CASE returnsI("occupied") \/ returnsI("previewed")
    BY <1>1, <1>2, ReturnedImport DEF HostBInv, StoreInv
  <1>3. CASE imp' = [imp EXCEPT !.pc = "apply"]
    <2>1. /\ DOMAIN imp' = DOMAIN imp /\ imp'.pc = "apply" /\ imp'.candidate = imp.candidate
          /\ imp'.origin = imp.origin /\ imp'.result = imp.result
      BY <1>3 DEF HostBInv, ImportInv
    <2>2. ImportInv'
      BY <1>1, <2>1 DEF HostBInv, ImportInv
    <2>3. QED
      BY <1>1, <2>2 DEF HostBInv, StoreInv
  <1>4. QED
    BY <1>2, <1>3 DEF CheckDestination

\* What is created is the candidate, where there was nothing.
LEMMA ApplyStep ==
  ASSUME HostBInv, Apply
  PROVE  HostBInv'
  <1>1. imp.pc = "apply" /\ ImportInv'
    BY ReturnedImport DEF Apply
  <1>2. store' = store \/ store' = imp.candidate
    BY DEF Apply
  <1>3. StoreInv'
    BY <1>1, <1>2 DEF HostBInv, ImportInv, StoreInv
  <1>4. QED
    BY <1>1, <1>3 DEF HostBInv

LEMMA OtherCreatesStep ==
  ASSUME HostBInv, OtherCreates
  PROVE  HostBInv'
  <1> DEFINE p == CHOOSE q \in Profiles : Export(q) # Refused
  <1>1. p \in Profiles /\ Export(p) # Refused
    BY HostsAssumption
  <1>2. store' = Decode(Export(p), Meant(p)).candidate /\ imp' = imp
    BY DEF OtherCreates
  <1> HIDE DEF p
  <1>3. store' = Moved(p)
    BY <1>1, <1>2, RoundTrips
  <1>4. StoreInv'
    BY <1>1, <1>3, MovedIsValid DEF StoreInv
  <1>5. ImportInv'
    BY <1>2 DEF HostBInv, ImportInv
  <1>6. QED
    BY <1>4, <1>5 DEF HostBInv

-----------------------------------------------------------------------------
(* Every behaviour. *)

LEMMA ExchangeInit == Init => ExchangeInv
  <1> SUFFICES ASSUME Init
               PROVE  ExchangeInv
    OBVIOUS
  <1>1. IdleE \in Exports /\ IdleE.pc = "idle" /\ IdleE.result = "no"
    BY DEF IdleE, Exports
  <1>2. Sound(NoFile) /\ NoFile.by = "nobody"
    BY HostsAssumption DEF Sound, Files, NoFile
  <1>3. \A e \in Exporters : Ready(e, IdleE, "none", NoFile)
    BY <1>1, <1>2, HostsAssumption DEF Ready
  <1>4. HostA
    BY <1>1, <1>2, <1>3 DEF Init, HostA
  <1>5. /\ DOMAIN IdleI = {"pc", "doc", "from", "candidate", "origin", "result"}
        /\ IdleI.pc = "idle" /\ IdleI.result = "no"
        /\ IdleI.candidate = NoProfile /\ IdleI.origin = NoProfile
    BY DEF IdleI
  <1>6. ImportInv /\ StoreInv
    BY <1>5, NothingOfHost DEF Init, ImportInv, StoreInv
  <1>7. QED
    BY <1>4, <1>6 DEF ExchangeInv, HostBInv

\* The steps of host A leave host B alone, and the other way round.
LEMMA ExporterStep ==
  ASSUME HostA, NEW e \in Exporters,
         \/ ExportProfile(e) \/ Create(e) \/ Write(e) \/ FileSync(e) \/ Publish(e)
         \/ DirSync(e) \/ StepFails(e) \/ Cancel(e) \/ Killed(e)
  PROVE  HostA' /\ UNCHANGED <<imp, store>>
  <1>1. HostA'
    BY ExportProfileStep, CreateStep, WriteStep, FileSyncStep, PublishStep, DirSyncStep,
       StepFailsStep, CancelStep, KilledStep
  <1>2. UNCHANGED <<imp, store>>
    BY DEF ExportProfile, Create, Write, FileSync, Publish, DirSync, StepFails, Cancel, Killed, others
  <1>3. QED
    BY <1>1, <1>2

LEMMA HostAStays ==
  ASSUME HostA, stored' \in Profiles, UNCHANGED <<exp, temp, dest>>
  PROVE  HostA'
  BY DEF HostA

LEMMA HostBStays ==
  ASSUME HostBInv, UNCHANGED <<imp, store>>
  PROVE  HostBInv'
  BY DEF HostBInv, ImportInv, StoreInv

LEMMA ExchangeStep == ExchangeInv /\ [Next]_vars => ExchangeInv'
  <1> SUFFICES ASSUME HostA, HostBInv, [Next]_vars
               PROVE  HostA' /\ HostBInv'
    BY DEF ExchangeInv
  <1>1. ASSUME NEW e \in Exporters,
               \/ ExportProfile(e) \/ Create(e) \/ Write(e) \/ FileSync(e) \/ Publish(e)
               \/ DirSync(e) \/ StepFails(e) \/ Cancel(e) \/ Killed(e)
        PROVE  HostA' /\ HostBInv'
    BY <1>1, ExporterStep, HostBStays
  <1>2. CASE PowerLoss
    BY <1>2, PowerLossStep, HostBStays DEF PowerLoss, others
  <1>3. CASE StoredChanges
    BY <1>3, HostAStays, HostBStays DEF StoredChanges
  <1>4. CASE UserEdits
    BY <1>4, UserEditsStep, HostBStays DEF UserEdits
  <1>5. ASSUME hostA' = hostA
        PROVE  HostA'
    BY <1>5, HostAStays DEF hostA, HostA
  <1>6. CASE ReadDocument
    BY <1>5, <1>6, ReadDocumentStep DEF ReadDocument
  <1>7. CASE ReadBindings
    BY <1>5, <1>7, ReadBindingsStep DEF ReadBindings, Decoded
  <1>8. CASE ReadMeantBindings
    BY <1>5, <1>8, ReadMeantBindingsStep DEF ReadMeantBindings, Decoded
  <1>9. ASSUME NEW dryRun \in BOOLEAN, CheckDestination(dryRun)
        PROVE  HostA' /\ HostBInv'
    BY <1>5, <1>9, CheckDestinationStep DEF CheckDestination
  <1>10. CASE Apply
    BY <1>5, <1>10, ApplyStep DEF Apply
  <1>11. CASE OtherCreates
    BY <1>5, <1>11, OtherCreatesStep DEF OtherCreates
  <1>12. CASE UNCHANGED vars
    BY <1>12, HostAStays, HostBStays DEF vars, HostA
  <1>13. QED
    BY <1>1, <1>2, <1>3, <1>4, <1>6, <1>7, <1>8, <1>9, <1>10, <1>11, <1>12 DEF Next

\* What an exporter and an importer know is true in every state.
THEOREM ExchangeInvariant == Spec => []ExchangeInv
  <1>1. QED
    BY ExchangeInit, ExchangeStep, PTL DEF Spec

\* What is at the destination is whole and admitted elsewhere without a value
\* of host A, and every export says what is there, with any number of exporters
\* and of failing steps, kills and losses of power (Publish).
THEOREM PublicationIsWhole == Spec => []ExportIsWhole
  <1>1. ExchangeInv => ExportIsWhole
    <2> SUFFICES ASSUME HostA, HostBInv
                 PROVE  ExportIsWhole
      BY DEF ExchangeInv
    <2>1. ASSUME NEW e \in Exporters
          PROVE  /\ exp[e] \in Exports /\ temp[e] \in {"none", "torn", "written", "synced"}
                 /\ Ready(e, exp[e], temp[e], dest)
      BY DEF HostA
    <2>2. Sound(dest) /\ dest \in Files
      BY DEF HostA, Sound
    <2>3. stored \in Profiles /\ ValidProfile(stored)
      BY ProfileFacts DEF HostA
    <2>4. TypeOK
      <3>1. \A e \in Exporters :
              /\ exp[e].pc \in {"idle", "create", "write", "sync", "publish", "dirsync", "done", "killed"}
              /\ exp[e].result \in {"no", "refused", "unpublished", "uncertain", "exported"}
        BY <2>1 DEF Exports
      <3>2. dest.by \in Exporters \cup {"nobody", "user"}
        BY <2>2 DEF Files
      <3>3. imp.pc \in {"idle", "bindings", "check", "apply", "done"}
        BY DEF HostBInv, ImportInv
      <3>4. QED
        BY <2>1, <2>3, <3>1, <3>2, <3>3 DEF TypeOK
    <2>5. DestinationIsWhole
      BY <2>2 DEF DestinationIsWhole, Files
    <2>6. ExportHonest
      <3>1. ASSUME NEW e \in Exporters, exp[e].result \in {"unpublished", "refused"}
            PROVE  dest.by # e
        BY <2>1, <3>1 DEF Ready
      <3>2. ASSUME NEW e \in Exporters, exp[e].result = "exported"
            PROVE  dest.by \in {e, "user"} /\ dest.durable
        BY <2>1, <3>2 DEF Ready
      <3>3. ASSUME NEW e \in Exporters, at(e, "done")
            PROVE  temp[e] = "none"
        BY <2>1, <3>3 DEF Ready, at
      <3>4. QED
        BY <3>1, <3>2, <3>3 DEF ExportHonest
    <2>7. ExportedIsPortable
      BY <2>2, ExportedPortable DEF ExportedIsPortable, Sound
    <2>8. QED
      BY <2>4, <2>5, <2>6, <2>7 DEF ExportIsWhole
  <1>2. QED
    BY <1>1, ExchangeInvariant, PTL

\* A Profile elsewhere, written as a change of the Profile.
LEMMA MovedIsChange ==
  ASSUME NEW p \in Profiles
  PROVE  LET there(r) == IF r.kind = "local" THEN [r EXCEPT !.v = B(r.v)] ELSE r
             moved(f) == [i \in DOMAIN f |-> there(f[i])]
         IN  Moved(p) = [p EXCEPT !.paths = moved(@), !.excl = moved(@), !.exes = moved(@),
                                  !.env = moved(@), !.auth = there(@)]
  <1> DEFINE there(r) == IF r.kind = "local" THEN [r EXCEPT !.v = B(r.v)] ELSE r
             moved(f) == [i \in DOMAIN f |-> there(f[i])]
             p1 == [p EXCEPT !.paths = moved(p.paths)]
             p2 == [p1 EXCEPT !.excl = moved(p.excl)]
             p3 == [p2 EXCEPT !.exes = moved(p.exes)]
             p4 == [p3 EXCEPT !.env = moved(p.env)]
             p5 == [p4 EXCEPT !.auth = there(p.auth)]
             record(paths, excl, exes, env, auth) ==
               [skills |-> p.skills, instr |-> p.instr, paths |-> paths, excl |-> excl,
                exes |-> exes, env |-> env, mcp |-> p.mcp, auth |-> auth]
  <1>1. ASSUME NEW r, r = [kind |-> r.kind, v |-> r.v]
        PROVE  there(r) = IF r.kind = "local" THEN [kind |-> "local", v |-> B(r.v)] ELSE r
    BY <1>1
  <1> HIDE DEF there
  <1>2. ASSUME NEW f, Entries(f)
        PROVE  moved(f) = Elsewhere(f)
    <2>1. \A i \in DOMAIN f : f[i] = [kind |-> f[i].kind, v |-> f[i].v]
      BY <1>2 DEF Entries
    <2>2. QED
      BY <1>1, <2>1 DEF Elsewhere
  <1>3. /\ moved(p.paths) = Elsewhere(p.paths) /\ moved(p.excl) = Elsewhere(p.excl)
        /\ moved(p.exes) = Elsewhere(p.exes) /\ moved(p.env) = Elsewhere(p.env)
    BY <1>2, ProfileFacts
  <1>4. p = record(p.paths, p.excl, p.exes, p.env, p.auth)
    BY ProfileFacts DEF IsProfile
  <1>5. there(p.auth) = IF p.auth.kind = "local" THEN [kind |-> "local", v |-> B(p.auth.v)]
                        ELSE p.auth
    <2>1. p.auth = [kind |-> p.auth.kind, v |-> p.auth.v]
      BY ProfileFacts DEF IsProfile
    <2>2. QED
      BY <1>1, <2>1
  <1> HIDE DEF moved
  <1>6. p1 = record(moved(p.paths), p.excl, p.exes, p.env, p.auth)
    BY <1>4
  <1> HIDE DEF p1
  <1>7. p2 = record(moved(p.paths), moved(p.excl), p.exes, p.env, p.auth)
    BY <1>6
  <1> HIDE DEF p2
  <1>8. p3 = record(moved(p.paths), moved(p.excl), moved(p.exes), p.env, p.auth)
    BY <1>7
  <1> HIDE DEF p3
  <1>9. p4 = record(moved(p.paths), moved(p.excl), moved(p.exes), moved(p.env), p.auth)
    BY <1>8
  <1> HIDE DEF p4
  <1>10. p5 = record(moved(p.paths), moved(p.excl), moved(p.exes), moved(p.env), there(p.auth))
    BY <1>9
  <1>11. p5 = Moved(p)
    BY <1>3, <1>5, <1>10 DEF Moved
  <1>12. QED
    BY <1>11 DEF there, moved, p1, p2, p3, p4, p5

\* Nothing comes to host B but through its bindings, a Profile exported and
\* imported with bindings that mean the same is the same Profile, and what is
\* stored is valid, whatever was edited (bindDocument).
THEOREM ImportStaysFaithful == Spec => []ImportIsFaithful
  <1>1. ExchangeInv => ImportIsFaithful
    <2> SUFFICES ASSUME HostBInv
                 PROVE  ImportIsFaithful
      BY DEF ExchangeInv
    <2>1. ImportTakesOnlyBindings /\ StoredIsValid
      BY DEF HostBInv, ImportInv, StoreInv, ImportTakesOnlyBindings, StoredIsValid
    <2>2. imp.origin # NoProfile => imp.origin \in Profiles /\ imp.candidate = Moved(imp.origin)
      BY DEF HostBInv, ImportInv
    <2>3. RoundTrip
      BY <2>2, MovedIsChange DEF RoundTrip
    <2>4. QED
      BY <2>1, <2>3 DEF ImportIsFaithful
  <1>2. QED
    BY <1>1, ExchangeInvariant, PTL

\* What a step does to the destination.
LEMMA NoClobber ==
  ASSUME HostA, Next
  PROVE  neverClobbers
  <1>1. Sound(dest) /\ dest \in Files
    BY DEF HostA, Sound
  <1>2. ASSUME dest' = dest
        PROVE  neverClobbers
    <2>1. dest = [dest EXCEPT !.durable = dest.durable]
      BY <1>1 DEF Files
    <2>2. QED
      BY <1>2, <2>1 DEF neverClobbers
  <1>3. ASSUME NEW e \in Exporters, Publish(e)
        PROVE  neverClobbers
    <2>1. CASE dest.bytes # "none"
      BY <1>2, <1>3, <2>1 DEF Publish
    <2>2. CASE dest.bytes = "none"
      BY <2>2 DEF neverClobbers
    <2>3. QED
      BY <2>1, <2>2
  <1>4. ASSUME NEW e \in Exporters, DirSync(e)
        PROVE  neverClobbers
    <2> DEFINE d == (dest.bytes # "none")
    <2>1. dest' = [dest EXCEPT !.durable = d]
      BY <1>4 DEF DirSync
    <2> HIDE DEF d
    <2>2. dest'.durable = d
      BY <1>1, <2>1 DEF Files
    <2>3. QED
      BY <2>1, <2>2 DEF neverClobbers
  <1>5. CASE PowerLoss
    <2>1. dest' = dest \/ (~dest.durable /\ dest' = NoFile)
      BY <1>1, <1>5 DEF PowerLoss, Files
    <2>2. QED
      BY <1>2, <2>1 DEF neverClobbers
  <1>6. CASE UserEdits
    <2>1. dest'.by = "user"
      BY <1>6 DEF UserEdits
    <2>2. QED
      BY <2>1 DEF neverClobbers
  <1>7. ASSUME NEW e \in Exporters,
               \/ ExportProfile(e) \/ Create(e) \/ Write(e) \/ FileSync(e)
               \/ StepFails(e) \/ Cancel(e) \/ Killed(e)
        PROVE  dest' = dest
    BY <1>7 DEF ExportProfile, Create, Write, FileSync, StepFails, Cancel, Killed, others
  <1>8. CASE StoredChanges \/ OtherCreates \/ Apply \/ ReadDocument \/ ReadBindings \/ ReadMeantBindings
    BY <1>2, <1>8 DEF StoredChanges, OtherCreates, Apply, ReadDocument, ReadBindings,
       ReadMeantBindings, Decoded, hostA
  <1>9. ASSUME NEW dryRun \in BOOLEAN, CheckDestination(dryRun)
        PROVE  dest' = dest
    BY <1>9 DEF CheckDestination, hostA
  <1>10. QED
    BY <1>2, <1>3, <1>4, <1>5, <1>6, <1>7, <1>8, <1>9 DEF Next

\* What a step does to the store of host B.
LEMMA NoOverwrite ==
  ASSUME HostA, HostBInv, Next
  PROVE  importNeverOverwrites
  <1>1. ASSUME store' = store, imp'.result = imp.result \/ imp'.result # "imported"
        PROVE  importNeverOverwrites
    BY <1>1 DEF importNeverOverwrites
  <1>2. ASSUME NEW e \in Exporters,
               \/ ExportProfile(e) \/ Create(e) \/ Write(e) \/ FileSync(e) \/ Publish(e)
               \/ DirSync(e) \/ StepFails(e) \/ Cancel(e) \/ Killed(e)
        PROVE  importNeverOverwrites
    BY <1>1, <1>2, ExporterStep
  <1>3. CASE PowerLoss \/ StoredChanges \/ UserEdits
    BY <1>1, <1>3 DEF PowerLoss, StoredChanges, UserEdits, others
  <1>4. CASE ReadDocument
    <2>1. /\ imp' = [imp EXCEPT !.pc = "bindings", !.doc = dest.doc, !.from = dest.by]
          /\ store' = store
      BY <1>4 DEF ReadDocument, HostA, Sound, Files, preflight
    <2>2. imp'.result = imp.result
      BY <2>1 DEF HostBInv, ImportInv
    <2>3. QED
      BY <1>1, <2>1, <2>2
  <1>5. ASSUME NEW b, NEW origin, Decoded(b, origin)
        PROVE  importNeverOverwrites
    <2>1. imp'.result = imp.result \/ imp'.result # "imported"
      BY <1>5, DecodedFields, DecodeAnswers DEF HostBInv
    <2>2. store' = store
      BY <1>5 DEF Decoded
    <2>3. QED
      BY <1>1, <2>1, <2>2
  <1>6. ASSUME NEW dryRun \in BOOLEAN, CheckDestination(dryRun)
        PROVE  importNeverOverwrites
    <2>1. store' = store
      BY <1>6 DEF CheckDestination
    <2>2. CASE returnsI("occupied") \/ returnsI("previewed")
      BY <1>1, <2>1, <2>2, ReturnedImport
    <2>3. CASE imp' = [imp EXCEPT !.pc = "apply"]
      <3>1. imp'.result = imp.result
        BY <2>3 DEF HostBInv, ImportInv
      <3>2. QED
        BY <1>1, <2>1, <3>1
    <2>4. QED
      BY <1>6, <2>2, <2>3 DEF CheckDestination
  <1>7. CASE Apply
    <2>1. CASE store = NoProfile /\ store' = imp.candidate
      BY <2>1 DEF importNeverOverwrites
    <2>2. CASE store' = store /\ (returnsI("conflict") \/ returnsI("failed"))
      BY <1>1, <2>2, ReturnedImport
    <2>3. QED
      BY <1>7, <2>1, <2>2 DEF Apply
  <1>8. CASE OtherCreates
    BY <1>8 DEF OtherCreates, importNeverOverwrites
  <1>9. QED
    BY <1>2, <1>3, <1>4, <1>5, <1>6, <1>7, <1>8 DEF Next, ReadBindings, ReadMeantBindings

\* Neither side replaces what somebody else created meanwhile (Publish, Apply).
THEOREM NothingIsReplaced == Spec => NeverReplaces
  <1>1. ExchangeInv /\ [Next]_vars => [neverClobbers /\ importNeverOverwrites]_vars
    BY NoClobber, NoOverwrite DEF ExchangeInv
  <1>2. QED
    BY <1>1, ExchangeInvariant, PTL DEF Spec, NeverReplaces

-----------------------------------------------------------------------------
(* History: what a directory holds. *)

\* The whole records of a directory, and its newest.
Recs(d) == {d.rec[e] : e \in {x \in Events : d.rec[x] \notin {Nil, Torn}}}

Newest(R, h) == h \in R /\ \A s \in R : s.seq <= h.seq

\* What retention may remove of a directory: neither a pinned event nor the newest
\* or its parent.
Spared(d, J) ==
    /\ J \cap d.pins = {}
    /\ \A h \in Recs(d) : Newest(Recs(d), h) => h.ev \notin J /\ (h.seq > 1 => h.parent \notin J)

Unused == [made |-> FALSE, rec |-> [e \in Events |-> Nil], snap |-> [e \in Events |-> Nil],
           pins |-> {}, next |-> Nil, journal |-> Nil]

Filed(d) ==
    \A e \in Events : d.rec[e] \notin {Nil, Torn} =>
        d.rec[e].ev = e /\ d.rec[e].seq <= e /\ d.snap[e] = Whole

Chained(d) ==
    /\ \A r, s \in Recs(d) : r.seq = s.seq => r = s
    /\ \A h \in Recs(d) : Newest(Recs(d), h) /\ h.seq > 1 =>
          \E r \in Recs(d) : r.seq = h.seq - 1 /\ r.ev = h.parent

DirInv(d) ==
    /\ Filed(d)
    /\ Chained(d)
    /\ ~d.made => d = Unused
    /\ d.journal \notin {Nil, Torn} => d.next = Nil /\ Spared(d, d.journal)

LineageInv ==
    /\ \A l \in Lineages : DirInv(lin[l])
    /\ \A l \in Lineages : l >= nextLin => ~lin[l].made
    /\ \A l \in Lineages, e \in Events : e >= nextEv => lin[l].rec[e] = Nil

\* The transaction.
own(t) == t.adoption # Nil /\ t.adoptIn = t.lineage

Kept(t, R) ==
    {r \in R \cup {t.record} \cup (IF own(t) THEN {t.adoption} ELSE {}) : r.ev \notin t.prune}

Adopted(t) ==
    /\ t.adoption # Nil <=> t.adoptIn # Nil
    /\ t.adoption # Nil =>
          /\ t.adoptIn < nextLin
          /\ t.adoption.ev < t.record.ev
          /\ t.adoption.seq = 1 /\ ~t.adoption.tomb /\ t.adoption.post = t.record.pre
    /\ own(t) => /\ t.record.seq = 2 /\ t.record.parent = t.adoption.ev /\ t.record.source = Nil
                 /\ Recs(lin[t.lineage]) \subseteq {t.adoption, t.record}
    /\ t.adoptIn \notin {Nil, t.lineage} =>
          /\ t.record.source = t.adoptIn
          /\ \A e \in Events : e # t.adoption.ev => lin[t.adoptIn].rec[e] = Nil
          /\ lin[t.adoptIn].rec[t.adoption.ev] \in {Nil, Torn, t.adoption}
          /\ lin[t.adoptIn].next = Nil /\ lin[t.adoptIn].journal = Nil

Ordered(t, d) ==
    /\ \A r \in Recs(d) : r = t.record \/ r.seq < t.record.seq
    /\ ~own(t) /\ t.record.seq > 1 =>
          \E r \in Recs(d) : r.seq = t.record.seq - 1 /\ r.ev = t.record.parent
    /\ t.record.ev \notin t.prune
    /\ t.record.seq > 1 => t.record.parent \notin t.prune
    /\ t.prune \cap d.pins = {}

Bounded(t, d) ==
    /\ Cardinality(Kept(t, Recs(d))) <= MaxRetained
    /\ Cardinality({r \in Kept(t, Recs(d)) : r.ev \notin d.pins /\ r.seq # t.record.seq - 1})
          <= DefaultKeep

Renames(r) == r.source = Nil /\ r.pre # r.post

Documents(r) ==
    /\ r.tomb => r.pre = r.post /\ ~doc[r.post] /\ r.source = Nil
    /\ ~r.tomb => doc[r.post]
    /\ Renames(r) => ~doc[r.pre]
    /\ r.source # Nil => doc[r.pre] /\ r.pre # r.post

TxnInv ==
    txn # Nil =>
        /\ txn.lineage < nextLin /\ txn.record.ev < nextEv
        /\ txn.record.seq <= txn.record.ev
        /\ Adopted(txn)
        /\ Ordered(txn, lin[txn.lineage])
        /\ Bounded(txn, lin[txn.lineage])
        /\ Documents(txn.record)
        /\ lin[txn.lineage].next = Nil
        /\ lin[txn.lineage].journal \in {Nil, Torn, txn.prune}

\* Names.
DirSound(d) == d.made /\ (\A e \in Events : d.rec[e] # Torn)
            /\ Cardinality(Recs(d)) <= MaxRetained

Named(n) ==
    /\ bind[n] \in Lineages
    /\ DirSound(lin[bind[n]])
    /\ \E h \in Recs(lin[bind[n]]) : Newest(Recs(lin[bind[n]]), h) /\ ~h.tomb /\ h.post = n

Settled(n) == IF doc[n] THEN bind[n] = Nil \/ Named(n) ELSE bind[n] = Nil

InTxn(n) == txn # Nil /\ \/ n = txn.record.post
                         \/ n = txn.record.pre /\ (txn.record.source = Nil \/ txn.adoption # Nil)

NameInv ==
    \A n \in Names : ~InTxn(n) =>
        /\ Settled(n)
        /\ txn # Nil => bind[n] # txn.lineage /\ (bind[n] # Nil => bind[n] # txn.adoptIn)

\* Steps.
Committing == {"attach", "mkdir", "adoptSnap", "adoptRec", "snap", "rec", "unbind", "bind",
               "bindAdopted", "journal", "collect", "complete"}
Recorded == {"unbind", "bind", "bindAdopted", "journal", "collect", "complete"}
Bound == {"bindAdopted", "journal", "collect", "complete"}

LabelInv ==
    /\ step \in Committing => txn # Nil
    /\ step \in {"idle", "maintain", "pinWrite", "pinRename", "pruneJournal", "pruneCollect"}
          => txn = Nil
    /\ step \in {"pinWrite", "pinRename"} => job # Nil /\ job.kind = "pin"
    /\ step \in {"pruneJournal", "pruneCollect"} => job # Nil /\ job.kind = "prune"

Progress(t) ==
    LET d == lin[t.lineage] IN
    /\ step \in Committing \ {"attach"} =>
          (\A e \in Events : d.rec[e] # Torn) /\ d.journal \in {Nil, t.prune}
    /\ step \in Committing \ {"attach", "collect"} => d.journal = Nil
    /\ step \in Committing \ {"attach", "mkdir"} => d.made
    /\ step \in Committing \ {"attach", "mkdir"} /\ t.adoption # Nil => lin[t.adoptIn].made
    /\ step \in {"adoptSnap", "adoptRec"} => t.adoption # Nil
    /\ step = "adoptRec" => lin[t.adoptIn].snap[t.adoption.ev] = Whole
    /\ step \in Recorded \cup {"snap", "rec"} /\ t.adoption # Nil =>
          lin[t.adoptIn].rec[t.adoption.ev] = t.adoption
    /\ step = "rec" => d.snap[t.record.ev] = Whole
    /\ step \in Recorded => d.rec[t.record.ev] = t.record
    /\ step = "unbind" => t.record.tomb \/ Renames(t.record)
    /\ step = "bind" => ~t.record.tomb
    /\ step = "bindAdopted" => t.adoptIn \notin {Nil, t.lineage}
    /\ step \in Bound \cup {"bind"} /\ (t.record.tomb \/ Renames(t.record)) => bind[t.record.pre] = Nil
    /\ step \in Bound /\ ~t.record.tomb => bind[t.record.post] = t.lineage
    /\ step \in Bound \ {"bindAdopted"} /\ t.adoptIn \notin {Nil, t.lineage} =>
          bind[t.record.pre] = t.adoptIn
    /\ step = "collect" => d.journal = t.prune
    /\ step = "complete" => \A r \in Recs(d) : r.ev \notin t.prune

JobInv ==
    /\ step \in {"pinWrite", "pinRename", "pruneJournal", "pruneCollect"} => lin[job.l].made
    /\ step \in {"pinWrite", "pruneJournal"} => lin[job.l].next = Nil /\ lin[job.l].journal = Nil
    /\ step = "pruneJournal" => Spared(lin[job.l], job.pins)
    /\ step = "pinRename" => lin[job.l].next = job.pins /\ lin[job.l].journal = Nil
    /\ step = "pruneCollect" => lin[job.l].journal = job.pins

Recovering == step \in {"down", "maintain"} /\ txn = Nil

\* No maintenance is left behind.
TidyInv ==
    \A l \in Lineages :
        /\ lin[l].next \notin {Nil, Torn} => Recovering \/ (step = "pinRename" /\ l = job.l)
        /\ lin[l].journal \notin {Nil, Torn} =>
              \/ Recovering
              \/ step = "pruneCollect" /\ l = job.l
              \/ txn # Nil /\ l = txn.lineage

\* Unless the file of a pin or prune request is cut.
WholeInv ==
    Cuts \cap {"pinWrite", "pruneJournal"} = {} =>
        \A l \in Lineages : /\ lin[l].next # Torn
                            /\ lin[l].journal = Torn => txn # Nil /\ l = txn.lineage

HistInd ==
    /\ HistoryTypeOK
    /\ LineageInv
    /\ TxnInv
    /\ NameInv
    /\ LabelInv
    /\ txn # Nil => Progress(txn)
    /\ JobInv
    /\ TidyInv
    /\ WholeInv

-----------------------------------------------------------------------------
(* Records and directories. *)

LEMMA Bounds == MaxLineages \in Nat /\ MaxEvents \in Nat /\ MaxCrashes \in Nat
                /\ MaxPins \in Nat /\ MaxRetained \in Nat /\ DefaultKeep \in 1..100
                /\ Keeps \subseteq 1..100
  BY KeepAssumption, HistoryBounds

\* What a record is.
LEMMA RecordFields ==
    ASSUME NEW r \in Record
    PROVE  /\ r.ev \in Events /\ r.seq \in 1..MaxEvents /\ r.parent \in Events \cup {Nil}
           /\ r.pre \in Names /\ r.post \in Names /\ r.tomb \in BOOLEAN
           /\ r.source \in Lineages \cup {Nil}
           /\ r # Nil /\ r # Torn
           /\ r.seq \in Int /\ r.ev \in Int
  BY ValuesAssumption, Bounds DEF Record, Events

\* What a directory is.
LEMMA DirFields ==
    ASSUME NEW d \in Directory
    PROVE  /\ d.made \in BOOLEAN /\ d.rec \in [Events -> Record \cup {Nil, Torn}]
           /\ d.snap \in [Events -> {Nil, Torn, Whole}] /\ d.pins \in SUBSET Events
           /\ d.next \in (SUBSET Events) \cup {Nil, Torn}
           /\ d.journal \in (SUBSET Events) \cup {Nil, Torn}
  BY DEF Directory

\* A directory with one of its files replaced.
withRec(d, e, v) == [d EXCEPT !.rec[e] = v]
withSnap(d, e, v) == [d EXCEPT !.snap[e] = v]
withNext(d, v) == [d EXCEPT !.next = v]
withJournal(d, v) == [d EXCEPT !.journal = v]

\* A file of the directory is replaced.
LEMMA DirUpdates ==
    ASSUME NEW d \in Directory
    PROVE  /\ [d EXCEPT !.made = TRUE] \in Directory
           /\ \A e \in Events, v \in Record \cup {Nil, Torn} :
                 [d EXCEPT !.rec[e] = v] \in Directory
           /\ \A e \in Events, v \in {Nil, Torn, Whole} :
                 [d EXCEPT !.snap[e] = v] \in Directory
           /\ \A v \in (SUBSET Events) \cup {Nil, Torn} :
                 [d EXCEPT !.next = v] \in Directory /\ [d EXCEPT !.journal = v] \in Directory
           /\ \A v \in SUBSET Events : [d EXCEPT !.pins = v, !.next = Nil] \in Directory
  <1>1. [d EXCEPT !.made = TRUE] \in Directory
    BY DEF Directory
  <1>2. ASSUME NEW e \in Events, NEW v \in Record \cup {Nil, Torn}
        PROVE  [d EXCEPT !.rec[e] = v] \in Directory
    <2> DEFINE f == [d.rec EXCEPT ![e] = v]
    <2>1. f \in [Events -> Record \cup {Nil, Torn}]
      BY DirFields
    <2>2. [d EXCEPT !.rec[e] = v] = [d EXCEPT !.rec = f]
      OBVIOUS
    <2> HIDE DEF f
    <2> QED BY <2>1, <2>2 DEF Directory
  <1>3. ASSUME NEW e \in Events, NEW v \in {Nil, Torn, Whole}
        PROVE  [d EXCEPT !.snap[e] = v] \in Directory
    <2> DEFINE f == [d.snap EXCEPT ![e] = v]
    <2>1. f \in [Events -> {Nil, Torn, Whole}]
      BY DirFields
    <2>2. [d EXCEPT !.snap[e] = v] = [d EXCEPT !.snap = f]
      OBVIOUS
    <2> HIDE DEF f
    <2> QED BY <2>1, <2>2 DEF Directory
  <1>4. ASSUME NEW v \in (SUBSET Events) \cup {Nil, Torn}
        PROVE  [d EXCEPT !.next = v] \in Directory /\ [d EXCEPT !.journal = v] \in Directory
    BY DEF Directory
  <1>5. ASSUME NEW v \in SUBSET Events
        PROVE  [d EXCEPT !.pins = v, !.next = Nil] \in Directory
    <2>1. [d EXCEPT !.next = Nil] \in Directory
      BY DEF Directory
    <2>2. \A c \in Directory : [c EXCEPT !.pins = v] \in Directory
      BY DEF Directory
    <2>3. [d EXCEPT !.pins = v, !.next = Nil] = [[d EXCEPT !.next = Nil] EXCEPT !.pins = v]
      BY DEF Directory
    <2> QED BY <2>1, <2>2, <2>3
  <1> QED BY <1>1, <1>2, <1>3, <1>4, <1>5

\* The records of a directory are those filed under their event.
LEMMA RecsType ==
    ASSUME NEW d \in Directory
    PROVE  /\ Recs(d) \in SUBSET Record
           /\ \A e \in Events : d.rec[e] \in Recs(d) <=> d.rec[e] \notin {Nil, Torn}
  BY DirFields, RecordFields DEF Recs

LEMMA RecsFiled ==
    ASSUME NEW d \in Directory, Filed(d), NEW r \in Recs(d)
    PROVE  /\ r \in Record /\ r.ev \in Events /\ d.rec[r.ev] = r /\ d.snap[r.ev] = Whole
           /\ r.seq <= r.ev /\ r.seq \in 1..MaxEvents
  BY RecsType, RecordFields, DirFields DEF Recs, Filed

LEMMA SameRecs ==
    ASSUME NEW c, NEW d, d.rec = c.rec
    PROVE  Recs(d) = Recs(c)
  BY DEF Recs

\* A record is written.
LEMMA WriteRec ==
    ASSUME NEW d \in Directory, NEW r \in Record, d.rec[r.ev] = Nil
    PROVE  Recs(withRec(d, r.ev, r)) = Recs(d) \cup {r}
  <1> DEFINE w == withRec(d, r.ev, r)
  <1>1. w.rec = [d.rec EXCEPT ![r.ev] = r] /\ d.rec \in [Events -> Record \cup {Nil, Torn}]
    BY DirFields DEF Directory, withRec
  <1>2. r.ev \in Events /\ r \notin {Nil, Torn}
    BY RecordFields
  <1>3. ASSUME NEW s \in Recs(w) PROVE s \in Recs(d) \cup {r}
    BY <1>1, <1>2 DEF Recs
  <1>4. ASSUME NEW s \in Recs(d) PROVE s \in Recs(w)
    <2>1. PICK e \in Events : d.rec[e] \notin {Nil, Torn} /\ s = d.rec[e]
      BY DEF Recs
    <2>2. e # r.ev
      BY <2>1
    <2> QED BY <2>1, <2>2, <1>1 DEF Recs
  <1>5. r \in Recs(w)
    <2>1. w.rec[r.ev] = r
      BY <1>1, <1>2
    <2> QED BY <2>1, <1>2 DEF Recs
  <1> QED BY <1>3, <1>4, <1>5

\* A write that is cut leaves the records as they are.
LEMMA CutRec ==
    ASSUME NEW d \in Directory, NEW e \in Events, d.rec[e] = Nil
    PROVE  Recs(withRec(d, e, Torn)) = Recs(d)
  <1> DEFINE w == withRec(d, e, Torn)
  <1>1. w.rec = [d.rec EXCEPT ![e] = Torn] /\ d.rec \in [Events -> Record \cup {Nil, Torn}]
    BY DirFields DEF Directory, withRec
  <1>2. ASSUME NEW x \in Events PROVE w.rec[x] \notin {Nil, Torn} <=> d.rec[x] \notin {Nil, Torn}
    BY <1>1
  <1>3. ASSUME NEW x \in Events, d.rec[x] \notin {Nil, Torn} PROVE w.rec[x] = d.rec[x]
    BY <1>1, <1>3
  <1> QED BY <1>2, <1>3 DEF Recs

\* A record is removed.
LEMMA DropRec ==
    ASSUME NEW d \in Directory, Filed(d), NEW e \in Events
    PROVE  Recs(withRec(d, e, Nil)) = {r \in Recs(d) : r.ev # e}
  <1> DEFINE w == withRec(d, e, Nil)
  <1>1. w.rec = [d.rec EXCEPT ![e] = Nil] /\ d.rec \in [Events -> Record \cup {Nil, Torn}]
    BY DirFields DEF Directory, withRec
  <1>2. ASSUME NEW s \in Recs(w) PROVE s \in Recs(d) /\ s.ev # e
    <2>1. PICK x \in Events : w.rec[x] \notin {Nil, Torn} /\ s = w.rec[x]
      BY DEF Recs
    <2>2. x # e /\ w.rec[x] = d.rec[x]
      BY <2>1, <1>1
    <2>3. d.rec[x].ev = x
      BY <2>1, <2>2 DEF Filed
    <2> QED BY <2>1, <2>2, <2>3 DEF Recs
  <1>3. ASSUME NEW s \in Recs(d), s.ev # e PROVE s \in Recs(w)
    <2>1. s.ev \in Events /\ d.rec[s.ev] = s /\ s \notin {Nil, Torn}
      BY RecsFiled, RecordFields
    <2>2. w.rec[s.ev] = s
      BY <2>1, <1>1, <1>3
    <2> QED BY <2>1, <2>2 DEF Recs
  <1> QED BY <1>2, <1>3

\* A set of records of different events has finitely many.
LEMMA RecsFinite ==
    ASSUME NEW R \in SUBSET Record, \A r, s \in R : r.seq = s.seq => r = s
    PROVE  IsFiniteSet(R)
  <1> DEFINE f == [r \in R |-> r.seq]
  <1>1. f \in Injection(R, 1..MaxEvents)
    <2>1. f \in [R -> 1..MaxEvents]
      BY RecordFields
    <2>2. \A r, s \in R : f[r] = f[s] => r = s
      OBVIOUS
    <2> QED BY <2>1, <2>2, Fun_IsInj
  <1>2. IsFiniteSet(1..MaxEvents)
    BY FS_Interval, Bounds
  <1> HIDE DEF f
  <1> QED BY <1>1, <1>2, FS_Injection

\* One of them is the newest.
LEMMA NewestExists ==
    ASSUME NEW R \in SUBSET Record, R # {}
    PROVE  \E h \in R : Newest(R, h)
  <1> DEFINE T == {n \in Nat : \E r \in R : n = MaxEvents - r.seq}
  <1>1. \A r \in R : MaxEvents - r.seq \in T
    BY RecordFields, Bounds
  <1>2. T \subseteq Nat /\ T # {}
    BY <1>1
  <1>3. IsWellFoundedOn(OpToRel(<, Nat), Nat)
    BY NatLessThanWellFounded
  <1>4. PICK n \in T : \A y \in T : ~ (<<y, n>> \in OpToRel(<, Nat))
    BY <1>2, <1>3, WFMin
  <1>5. PICK h \in R : n = MaxEvents - h.seq
    BY <1>4
  <1>6. ASSUME NEW s \in R PROVE s.seq <= h.seq
    <2>1. MaxEvents - s.seq \in T /\ ~ (<<MaxEvents - s.seq, n>> \in OpToRel(<, Nat))
      BY <1>1, <1>4
    <2>2. ~ (MaxEvents - s.seq < n)
      BY <2>1, <1>2 DEF OpToRel
    <2> QED BY <2>2, <1>5, RecordFields, Bounds
  <1> QED BY <1>6 DEF Newest

LEMMA HeadIsNewest ==
    ASSUME NEW R \in SUBSET Record, R # {}
    PROVE  head(R) \in R /\ Newest(R, head(R))
  BY NewestExists DEF head, Newest

LEMMA NewestIsHead ==
    ASSUME NEW R \in SUBSET Record, \A r, s \in R : r.seq = s.seq => r = s,
           NEW h, Newest(R, h)
    PROVE  head(R) = h
  <1>1. Newest(R, head(R)) /\ h \in R
    BY HeadIsNewest DEF Newest
  <1>2. head(R).seq = h.seq
    BY <1>1, RecordFields DEF Newest
  <1> QED BY <1>1, <1>2 DEF Newest

\* What the other files of the directory are then.
LEMMA RecReplaced ==
    ASSUME NEW d \in Directory, NEW e \in Events, NEW v \in Record \cup {Nil, Torn}
    PROVE  LET w == withRec(d, e, v) IN
           /\ w \in Directory /\ w.snap = d.snap /\ w.made = d.made
           /\ w.pins = d.pins /\ w.next = d.next /\ w.journal = d.journal
  <1>1. withRec(d, e, v) \in Directory
    BY DirUpdates DEF withRec
  <1> QED BY <1>1 DEF withRec, Directory

LEMMA SnapReplaced ==
    ASSUME NEW d \in Directory, NEW e \in Events, NEW v \in {Nil, Torn, Whole}
    PROVE  LET w == withSnap(d, e, v) IN
           /\ w \in Directory /\ w.rec = d.rec /\ w.made = d.made
           /\ w.pins = d.pins /\ w.next = d.next /\ w.journal = d.journal
  <1>1. withSnap(d, e, v) \in Directory
    BY DirUpdates DEF withSnap
  <1> QED BY <1>1 DEF withSnap, Directory

\* The plan of pins and the journal of a retention.
LEMMA NextReplaced ==
    ASSUME NEW d \in Directory, NEW v, v \in (SUBSET Events) \cup {Nil, Torn}
    PROVE  LET w == withNext(d, v) IN
           /\ w \in Directory /\ w.next = v /\ w.rec = d.rec /\ w.snap = d.snap
           /\ w.made = d.made /\ w.pins = d.pins /\ w.journal = d.journal
  BY DEF Directory, withNext

LEMMA JournalReplaced ==
    ASSUME NEW d \in Directory, NEW v, v \in (SUBSET Events) \cup {Nil, Torn}
    PROVE  LET w == withJournal(d, v) IN
           /\ w \in Directory /\ w.journal = v /\ w.rec = d.rec /\ w.snap = d.snap
           /\ w.made = d.made /\ w.pins = d.pins /\ w.next = d.next
  BY DEF Directory, withJournal

-----------------------------------------------------------------------------
(* Retention. *)

\* The records newer than one of them.
Newer(R, r) == {s \in R : s.seq > r.seq}

\* The records retention counts: not pinned, and not the one before the newest.
Ordinary(R, pins) == {r \in R : r.ev \notin pins /\ Cardinality(Newer(R, r)) # 1}

LEMMA Candidates ==
    ASSUME NEW R, NEW pins, NEW keep
    PROVE  pruneCandidates(R, pins, keep) =
              {r.ev : r \in {x \in Ordinary(R, pins) :
                                Cardinality(Newer(R, x) \cap Ordinary(R, pins)) >= keep}}
  BY DEF pruneCandidates, Ordinary, Newer

\* Of a set of records with different numbers at most k have fewer than k newer.
LEMMA NewestFew ==
    ASSUME NEW R \in SUBSET Record, \A r, s \in R : r.seq = s.seq => r = s,
           NEW S \in SUBSET R, NEW k \in Nat
    PROVE  Cardinality({x \in S : Cardinality(Newer(R, x) \cap S) < k}) <= k
  <1> DEFINE Y == {x \in S : Cardinality(Newer(R, x) \cap S) < k}
             f == [x \in Y |-> Cardinality(Newer(R, x) \cap S)]
  <1>1. IsFiniteSet(S) /\ \A x \in S : IsFiniteSet(Newer(R, x) \cap S)
    <2>1. IsFiniteSet(R)
      BY RecsFinite
    <2> QED BY <2>1, FS_Subset
  <1>2. \A x \in Y : f[x] \in 0..(k - 1)
    BY <1>1, FS_CardinalityType
  <1>3. ASSUME NEW x \in S, NEW y \in S, x.seq < y.seq
        PROVE  Cardinality(Newer(R, y) \cap S) # Cardinality(Newer(R, x) \cap S)
    <2>1. x.seq \in Int /\ y.seq \in Int /\ \A s \in R : s.seq \in Int
      BY RecordFields
    <2>2. Newer(R, y) \cap S \in SUBSET (Newer(R, x) \cap S)
      BY <2>1, <1>3 DEF Newer
    <2>3. y \in Newer(R, x) \cap S /\ y \notin Newer(R, y) \cap S
      BY <2>1, <1>3 DEF Newer
    <2> QED BY <2>2, <2>3, <1>1, FS_Subset
  <1>4. \A x, y \in Y : f[x] = f[y] => x = y
    <2>1. SUFFICES ASSUME NEW x \in Y, NEW y \in Y, x # y PROVE f[x] # f[y]
      OBVIOUS
    <2>2. x.seq # y.seq /\ x.seq \in Int /\ y.seq \in Int
      BY <2>1, RecordFields
    <2>3. CASE x.seq < y.seq
      BY <2>3, <1>3
    <2>4. CASE y.seq < x.seq
      BY <2>4, <1>3
    <2> QED BY <2>2, <2>3, <2>4
  <1>5. f \in Injection(Y, 0..(k - 1))
    <2>1. f \in [Y -> 0..(k - 1)]
      BY <1>2
    <2> HIDE DEF f
    <2> QED BY <2>1, <1>4, Fun_IsInj
  <1>6. IsFiniteSet(0..(k - 1)) /\ Cardinality(0..(k - 1)) = k
    BY FS_Interval
  <1> HIDE DEF f, Y
  <1>7. Cardinality(Y) <= k
    BY <1>5, <1>6, FS_Injection
  <1> QED BY <1>7 DEF Y

\* A newest record and what it needs of the others.
Headed(R, h) ==
    /\ R \in SUBSET Record /\ Newest(R, h)
    /\ \A r, s \in R : r.seq = s.seq => r = s
    /\ \A r, s \in R : r.ev = s.ev => r = s
    /\ h.seq > 1 => \E r \in R : r.seq = h.seq - 1 /\ r.ev = h.parent

\* What is not ordinary besides the pins is the record before the newest.
LEMMA OrdinaryButOne ==
    ASSUME NEW R, NEW h, Headed(R, h), NEW pins
    PROVE  /\ \A r \in R : r.ev \notin pins /\ r.seq # h.seq - 1 => r \in Ordinary(R, pins)
           /\ \A r \in R : r.seq = h.seq - 1 => r \notin Ordinary(R, pins)
           /\ Newer(R, h) = {}
  <1>1. /\ R \in SUBSET Record /\ h \in R /\ h.seq \in 1..MaxEvents
        /\ \A r \in R : r.seq \in 1..MaxEvents /\ r.seq <= h.seq
    BY RecordFields DEF Headed, Newest
  <1>2. IsFiniteSet(R)
    BY RecsFinite DEF Headed
  <1>3. ASSUME NEW r \in R, r.seq = h.seq - 1 PROVE Newer(R, r) = {h}
    BY <1>1, <1>3, Bounds DEF Newer, Headed
  <1>4. ASSUME NEW r \in R, r.seq # h.seq - 1 PROVE Cardinality(Newer(R, r)) # 1
    <2>1. SUFFICES ASSUME Cardinality(Newer(R, r)) = 1 PROVE FALSE
      OBVIOUS
    <2>2. IsFiniteSet(Newer(R, r))
      BY <1>2, FS_Subset DEF Newer
    <2>3. PICK z : Newer(R, r) = {z}
      BY <2>1, <2>2, FS_Singleton
    <2>4. z \in R /\ z.seq > r.seq
      BY <2>3 DEF Newer
    <2>5. h \in Newer(R, r)
      BY <2>4, <1>1, Bounds DEF Newer
    <2>6. h.seq > 1
      BY <2>4, <1>1, Bounds
    <2>7. PICK p \in R : p.seq = h.seq - 1
      BY <2>6 DEF Headed
    <2>8. r.seq < p.seq
      BY <2>7, <1>4, <1>1, <2>5, Bounds DEF Newer
    <2>9. p \in Newer(R, r) /\ p # h
      BY <2>7, <2>8, <1>1, Bounds DEF Newer
    <2> QED BY <2>3, <2>5, <2>9
  <1>5. \A r \in R : r.seq = h.seq - 1 => Cardinality(Newer(R, r)) = 1
    BY <1>3, FS_Singleton
  <1>6. Newer(R, h) = {}
    BY <1>1, Bounds DEF Newer
  <1> QED BY <1>4, <1>5, <1>6 DEF Ordinary

\* The candidates for removal are neither pinned nor the newest nor its parent, and
\* what stays besides the pins and that parent is no more than keep.
LEMMA CandidatesFacts ==
    ASSUME NEW R, NEW h, Headed(R, h), NEW pins, NEW keep \in 1..100
    PROVE  LET P == pruneCandidates(R, pins, keep) IN
           /\ P \in SUBSET Events /\ P \cap pins = {}
           /\ h.ev \notin P /\ (h.seq > 1 => h.parent \notin P)
           /\ Cardinality({r \in {x \in R : x.ev \notin P} :
                              r.ev \notin pins /\ r.seq # h.seq - 1}) <= keep
           /\ Cardinality({r \in R : r.ev \notin P}) = Cardinality(R) - Cardinality(P)
  <1> DEFINE S == Ordinary(R, pins)
             X == {x \in S : Cardinality(Newer(R, x) \cap S) >= keep}
             P == pruneCandidates(R, pins, keep)
  <1>1. P = {r.ev : r \in X}
    BY Candidates
  <1>2. R \in SUBSET Record /\ h \in R /\ S \in SUBSET R /\ X \in SUBSET S
    BY DEF Headed, Newest, Ordinary
  <1>3. IsFiniteSet(R) /\ IsFiniteSet(S) /\ IsFiniteSet(X)
        /\ \A x \in R : IsFiniteSet(Newer(R, x) \cap S)
    <2>1. IsFiniteSet(R)
      BY RecsFinite DEF Headed
    <2> HIDE DEF S, X
    <2> QED BY <2>1, <1>2, FS_Subset
  <1>4. \A r \in R : r.ev \in P <=> r \in X
    BY <1>1, <1>2 DEF Headed
  <1>5. P \in SUBSET Events /\ P \cap pins = {}
    <2>1. \A r \in X : r \in Record /\ r.ev \in Events /\ r.ev \notin pins
      BY <1>2, RecordFields DEF Ordinary
    <2> HIDE DEF X
    <2> QED BY <1>1, <2>1
  <1>6. h.ev \notin P
    <2>1. Newer(R, h) \cap S = {}
      BY OrdinaryButOne
    <2>2. Cardinality(Newer(R, h) \cap S) = 0
      BY <2>1, FS_EmptySet
    <2>3. h \notin X
      BY <2>2
    <2> QED BY <2>3, <1>2, <1>4
  <1>7. h.seq > 1 => h.parent \notin P
    <2>1. ASSUME h.seq > 1 PROVE h.parent \notin P
      <3>1. PICK r \in R : r.seq = h.seq - 1 /\ r.ev = h.parent
        BY <2>1 DEF Headed
      <3>2. r \notin X
        BY <3>1, OrdinaryButOne
      <3> QED BY <3>1, <3>2, <1>4
    <2> QED BY <2>1
  <1>8. Cardinality({r \in {x \in R : x.ev \notin P} : r.ev \notin pins /\ r.seq # h.seq - 1})
           <= keep
    <2> DEFINE K == {r \in {x \in R : x.ev \notin P} : r.ev \notin pins /\ r.seq # h.seq - 1}
               Y == {x \in S : Cardinality(Newer(R, x) \cap S) < keep}
    <2>1. ASSUME NEW r \in K PROVE r \in Y
      <3>1. r \in R /\ r \notin X /\ r \in S
        BY <1>4, OrdinaryButOne
      <3>2. Cardinality(Newer(R, r) \cap S) \in Nat
        BY <3>1, <1>3, FS_CardinalityType
      <3> QED BY <3>1, <3>2
    <2>2. Cardinality(Y) <= keep
      <3>1. S \in SUBSET R /\ R \in SUBSET Record /\ keep \in Nat
            /\ \A r, s \in R : r.seq = s.seq => r = s
        BY <1>2 DEF Headed
      <3> HIDE DEF S
      <3> QED BY <3>1, NewestFew
    <2>3. IsFiniteSet(Y) /\ K \in SUBSET Y
      BY <2>1, <1>3, FS_Subset
    <2> HIDE DEF K, Y
    <2>4. Cardinality(K) <= Cardinality(Y) /\ Cardinality(K) \in Nat /\ Cardinality(Y) \in Nat
      BY <2>3, FS_Subset, FS_CardinalityType
    <2>5. Cardinality(K) <= keep
      BY <2>2, <2>4
    <2> QED BY <2>5 DEF K
  <1>9. Cardinality({r \in R : r.ev \notin P}) = Cardinality(R) - Cardinality(P)
    <2>1. {r \in R : r.ev \notin P} = R \ X
      BY <1>4
    <2>2. R \cap X = X
      BY <1>2
    <2> HIDE DEF X
    <2>3. Cardinality(R \ X) = Cardinality(R) - Cardinality(X)
      BY <2>2, <1>3, FS_Difference
    <2>4. Cardinality(P) = Cardinality(X)
      <3> DEFINE f == [x \in X |-> x.ev]
      <3>1. f \in [X -> P] /\ (\A x, y \in X : f[x] = f[y] => x = y)
            /\ \A e \in P : \E x \in X : f[x] = e
        BY <1>1, <1>2 DEF Headed
      <3> HIDE DEF f, P
      <3>2. f \in Bijection(X, P)
        BY <3>1, Fun_IsBij
      <3> QED BY <3>2, <1>3, FS_Bijection DEF ExistsBijection
    <2> QED BY <2>1, <2>3, <2>4
  <1> QED BY <1>5, <1>6, <1>7, <1>8, <1>9

\* The same for the records of a directory.
LEMMA DirHeaded ==
    ASSUME NEW d \in Directory, Filed(d), Chained(d), NEW h, Newest(Recs(d), h)
    PROVE  Headed(Recs(d), h)
  <1>1. Recs(d) \in SUBSET Record /\ h \in Recs(d)
    BY RecsType DEF Newest
  <1>2. \A r, s \in Recs(d) : r.ev = s.ev => r = s
    BY RecsFiled
  <1> QED BY <1>1, <1>2 DEF Headed, Chained

LEMMA CandidatesSpared ==
    ASSUME NEW d \in Directory, Filed(d), Chained(d), NEW keep \in 1..100
    PROVE  LET P == pruneCandidates(Recs(d), d.pins, keep) IN
           P \in SUBSET Events /\ Spared(d, P)
  <1> DEFINE P == pruneCandidates(Recs(d), d.pins, keep)
  <1>1. ASSUME NEW h \in Recs(d), Newest(Recs(d), h)
        PROVE  P \in SUBSET Events /\ P \cap d.pins = {} /\ h.ev \notin P
               /\ (h.seq > 1 => h.parent \notin P)
    <2>1. Headed(Recs(d), h)
      BY <1>1, DirHeaded
    <2>2. keep \in 1..100
      OBVIOUS
    <2> QED BY ONLY <2>1, <2>2, CandidatesFacts
  <1>2. CASE Recs(d) = {}
    <2>1. P = {}
      BY <1>2, Candidates DEF Ordinary
    <2> QED BY <2>1, <1>2 DEF Spared
  <1>3. CASE Recs(d) # {}
    <2>1. PICK g \in Recs(d) : Newest(Recs(d), g)
      BY <1>3, RecsType, NewestExists
    <2> HIDE DEF P
    <2>2. P \in SUBSET Events /\ Spared(d, P)
      BY <2>1, <1>1 DEF Spared
    <2> QED BY <2>2 DEF P
  <1> QED BY <1>2, <1>3

-----------------------------------------------------------------------------
(* What the steps do to a directory. *)

\* Only what is not a record changes, and the maintenance files stay apart.
LEMMA DirKept ==
    ASSUME NEW c \in Directory, DirInv(c), NEW d \in Directory,
           d.rec = c.rec, d.made, \A e \in Events : c.snap[e] = Whole => d.snap[e] = Whole,
           d.journal \notin {Nil, Torn} => d.next = Nil /\ Spared(d, d.journal)
    PROVE  DirInv(d)
  <1>1. Recs(d) = Recs(c)
    BY SameRecs
  <1>2. Filed(d)
    BY DEF DirInv, Filed
  <1>3. Chained(d)
    BY <1>1 DEF DirInv, Chained
  <1> QED BY <1>2, <1>3 DEF DirInv

\* A snapshot that is not there, or is cut, backs no record.
LEMMA SnapWritten ==
    ASSUME NEW c \in Directory, DirInv(c), c.made, NEW e \in Events, c.snap[e] = Nil,
           NEW v \in {Whole, Torn}
    PROVE  DirInv(withSnap(c, e, v))
  <1> DEFINE d == withSnap(c, e, v)
  <1>1. d \in Directory /\ d.rec = c.rec /\ d.made = c.made /\ d.journal = c.journal
        /\ d.next = c.next /\ d.pins = c.pins /\ d.snap = [c.snap EXCEPT ![e] = v]
    <2>1. v \in {Nil, Torn, Whole}
      OBVIOUS
    <2>2. d.snap = [c.snap EXCEPT ![e] = v]
      BY DEF withSnap, Directory
    <2>3. c \in Directory /\ e \in Events
      OBVIOUS
    <2>4. d \in Directory /\ d.rec = c.rec /\ d.made = c.made /\ d.journal = c.journal
          /\ d.next = c.next /\ d.pins = c.pins
      BY ONLY <2>1, <2>3, SnapReplaced
    <2> QED BY <2>2, <2>4
  <1>2. \A x \in Events : c.snap[x] = Whole => d.snap[x] = Whole
    BY <1>1, DirFields, ValuesAssumption
  <1>3. Recs(d) = Recs(c)
    BY <1>1, SameRecs
  <1> HIDE DEF d
  <1>4. d.journal \notin {Nil, Torn} => d.next = Nil /\ Spared(d, d.journal)
    BY <1>1, <1>3 DEF DirInv, Spared
  <1> QED BY <1>1, <1>2, <1>4, DirKept DEF d

\* The event of a transaction becomes the newest record.
LEMMA RecordWritten ==
    ASSUME NEW c \in Directory, DirInv(c), c.made, c.journal = Nil,
           NEW r \in Record, c.rec[r.ev] = Nil, c.snap[r.ev] = Whole, r.seq <= r.ev,
           \A s \in Recs(c) : s.seq < r.seq,
           r.seq > 1 => \E s \in Recs(c) : s.seq = r.seq - 1 /\ s.ev = r.parent
    PROVE  LET d == withRec(c, r.ev, r) IN
           DirInv(d) /\ Newest(Recs(d), r) /\ Recs(d) = Recs(c) \cup {r}
  <1> DEFINE d == withRec(c, r.ev, r)
  <1>1. d \in Directory /\ d.rec = [c.rec EXCEPT ![r.ev] = r] /\ d.made = c.made
        /\ d.journal = c.journal /\ d.next = c.next /\ d.pins = c.pins /\ d.snap = c.snap
    <2>1. r.ev \in Events /\ r \in Record \cup {Nil, Torn}
      BY RecordFields
    <2>2. d.rec = [c.rec EXCEPT ![r.ev] = r]
      BY DEF withRec, Directory
    <2>3. c \in Directory
      OBVIOUS
    <2>4. /\ d \in Directory /\ d.made = c.made /\ d.journal = c.journal
          /\ d.next = c.next /\ d.pins = c.pins /\ d.snap = c.snap
      BY ONLY <2>1, <2>3, RecReplaced
    <2> QED BY <2>2, <2>4
  <1>2. Recs(d) = Recs(c) \cup {r}
    BY WriteRec
  <1>3. r.ev \in Events /\ c.rec \in [Events -> Record \cup {Nil, Torn}] /\ Recs(c) \in SUBSET Record
        /\ (\A s \in Recs(c) \cup {r} : s.seq \in Int)
    BY RecordFields, DirFields, RecsType
  <1> HIDE DEF d
  <1>4. Filed(d)
    BY <1>1, <1>3 DEF Filed, DirInv
  <1>5. Newest(Recs(d), r)
    BY <1>2, <1>3 DEF Newest
  <1>6. \A p, q \in Recs(d) : p.seq = q.seq => p = q
    BY <1>2, <1>3 DEF DirInv, Chained
  <1>7. \A h \in Recs(d) : Newest(Recs(d), h) => h = r
    BY <1>5, <1>6, <1>2, <1>3 DEF Newest
  <1>8. Chained(d)
    BY <1>6, <1>7, <1>2 DEF Chained
  <1>9. DirInv(d)
    BY <1>1, <1>4, <1>8 DEF DirInv
  <1> QED BY <1>2, <1>5, <1>9 DEF d

LEMMA RecordCut ==
    ASSUME NEW c \in Directory, DirInv(c), c.made, NEW e \in Events, c.rec[e] = Nil
    PROVE  DirInv(withRec(c, e, Torn)) /\ Recs(withRec(c, e, Torn)) = Recs(c)
  <1> DEFINE d == withRec(c, e, Torn)
  <1>1. d \in Directory /\ d.rec = [c.rec EXCEPT ![e] = Torn] /\ d.made = c.made
        /\ d.journal = c.journal /\ d.next = c.next /\ d.pins = c.pins /\ d.snap = c.snap
    <2>1. Torn \in Record \cup {Nil, Torn}
      OBVIOUS
    <2>2. d.rec = [c.rec EXCEPT ![e] = Torn]
      BY DEF withRec, Directory
    <2>3. c \in Directory /\ e \in Events
      OBVIOUS
    <2>4. /\ d \in Directory /\ d.made = c.made /\ d.journal = c.journal
          /\ d.next = c.next /\ d.pins = c.pins /\ d.snap = c.snap
      BY ONLY <2>1, <2>3, RecReplaced
    <2> QED BY <2>2, <2>4
  <1>2. Recs(d) = Recs(c) /\ c.rec \in [Events -> Record \cup {Nil, Torn}]
    BY CutRec, DirFields
  <1> HIDE DEF d
  <1>3. Filed(d)
    BY <1>1, <1>2 DEF Filed, DirInv
  <1>4. Chained(d)
    BY <1>2 DEF Chained, DirInv
  <1>5. d.journal \notin {Nil, Torn} => d.next = Nil /\ Spared(d, d.journal)
    BY <1>1, <1>2 DEF DirInv, Spared
  <1>6. DirInv(d)
    BY <1>1, <1>3, <1>4, <1>5 DEF DirInv
  <1> QED BY <1>2, <1>6 DEF d

\* The least of a set of events.
LEMMA MinExists ==
    ASSUME NEW S \in SUBSET Events, S # {}
    PROVE  Min(S) \in S
  <1>1. S \subseteq Nat
    BY Bounds DEF Events
  <1>2. IsWellFoundedOn(OpToRel(<, Nat), Nat)
    BY NatLessThanWellFounded
  <1>3. PICK n \in S : \A y \in S : ~ (<<y, n>> \in OpToRel(<, Nat))
    BY <1>1, <1>2, WFMin
  <1>4. \A y \in S : n <= y
    <2>1. ASSUME NEW y \in S PROVE n <= y
      <3>1. ~ (y < n)
        BY <1>1, <1>3 DEF OpToRel
      <3> QED BY <3>1, <1>1
    <2> QED BY <2>1
  <1> QED BY <1>4 DEF Min

\* One file of a journaled event goes: what is spared stays, the newest with it.
Removal(c, d) ==
    /\ d \in Directory /\ DirInv(d) /\ d.made
    /\ d.pins = c.pins /\ d.next = c.next /\ d.journal \in {Nil, c.journal}
    /\ Recs(d) \in SUBSET Recs(c)
    /\ \A h : Newest(Recs(c), h) => Newest(Recs(d), h)
    /\ \A e \in Events : d.rec[e] = c.rec[e] \/ (d.rec[e] = Nil /\ e \in c.journal)
    /\ d.journal = Nil => d.rec = c.rec /\ \A e \in c.journal : c.rec[e] = Nil

LEMMA RecordRemoved ==
    ASSUME NEW c \in Directory, DirInv(c), c.made, c.journal \notin {Nil, Torn},
           NEW e \in c.journal
    PROVE  Removal(c, withRec(c, e, Nil))
  <1> DEFINE d == withRec(c, e, Nil)
  <1>0. e \in Events
    BY DirFields
  <1>1. d \in Directory /\ d.rec = [c.rec EXCEPT ![e] = Nil] /\ d.made = c.made
        /\ d.journal = c.journal /\ d.next = c.next /\ d.pins = c.pins /\ d.snap = c.snap
    <2>1. Nil \in Record \cup {Nil, Torn}
      OBVIOUS
    <2>2. d.rec = [c.rec EXCEPT ![e] = Nil]
      BY DEF withRec, Directory
    <2>3. c \in Directory
      OBVIOUS
    <2>4. /\ d \in Directory /\ d.made = c.made /\ d.journal = c.journal
          /\ d.next = c.next /\ d.pins = c.pins /\ d.snap = c.snap
      BY ONLY <1>0, <2>1, <2>3, RecReplaced
    <2> QED BY <2>2, <2>4
  <1>2. Recs(d) = {r \in Recs(c) : r.ev # e} /\ c.rec \in [Events -> Record \cup {Nil, Torn}]
    BY <1>0, DropRec, DirFields DEF DirInv
  <1>3. Recs(c) \in SUBSET Record /\ \A s \in Recs(c) : s.seq \in Int
    BY RecsType, RecordFields
  <1> HIDE DEF d
  <1>4. Filed(d)
    BY <1>0, <1>1, <1>2 DEF Filed, DirInv
  <1>5. Spared(c, c.journal) /\ c.next = Nil
    BY DEF DirInv
  <1>6. ASSUME NEW h, Newest(Recs(c), h) PROVE Newest(Recs(d), h)
    BY <1>2, <1>5, <1>6 DEF Newest, Spared
  <1>7. ASSUME NEW g \in Recs(d), Newest(Recs(d), g) PROVE Newest(Recs(c), g)
    <2>1. Recs(c) # {}
      BY <1>2, <1>7
    <2>2. PICK h \in Recs(c) : Newest(Recs(c), h)
      BY <2>1, <1>3, NewestExists
    <2>3. h \in Recs(d) /\ g \in Recs(c) /\ h.seq <= g.seq
      BY <2>2, <1>6, <1>7, <1>2 DEF Newest
    <2> QED BY <2>2, <2>3, <1>3 DEF Newest
  <1>8. Chained(d)
    <2>1. \A r, s \in Recs(d) : r.seq = s.seq => r = s
      BY <1>2 DEF Chained, DirInv
    <2>2. ASSUME NEW h \in Recs(d), Newest(Recs(d), h), h.seq > 1
          PROVE  \E r \in Recs(d) : r.seq = h.seq - 1 /\ r.ev = h.parent
      <3>1. h \in Recs(c) /\ Newest(Recs(c), h)
        BY <2>2, <1>7, <1>2
      <3>2. PICK r \in Recs(c) : r.seq = h.seq - 1 /\ r.ev = h.parent
        BY <3>1, <2>2 DEF Chained, DirInv
      <3>3. r.ev # e
        BY <3>1, <3>2, <2>2, <1>5 DEF Spared
      <3> QED BY <3>2, <3>3, <1>2
    <2> QED BY <2>1, <2>2 DEF Chained
  <1>9. Spared(d, d.journal)
    BY <1>1, <1>2, <1>5, <1>7 DEF Spared
  <1>10. DirInv(d)
    BY <1>1, <1>4, <1>5, <1>8, <1>9 DEF DirInv
  <1>11. Recs(d) \in SUBSET Recs(c)
    BY <1>2
  <1>12. \A x \in Events : d.rec[x] = c.rec[x] \/ (d.rec[x] = Nil /\ x \in c.journal)
    BY <1>1, <1>2
  <1>13. Removal(c, d)
    BY <1>1, <1>6, <1>10, <1>11, <1>12 DEF Removal
  <1> QED BY <1>13 DEF d

LEMMA SnapRemoved ==
    ASSUME NEW c \in Directory, DirInv(c), c.made, c.journal \notin {Nil, Torn},
           NEW e \in c.journal, c.rec[e] = Nil
    PROVE  Removal(c, withSnap(c, e, Nil))
  <1> DEFINE d == withSnap(c, e, Nil)
  <1>0. e \in Events
    BY DirFields
  <1>1. d \in Directory /\ d.rec = c.rec /\ d.made = c.made /\ d.journal = c.journal
        /\ d.next = c.next /\ d.pins = c.pins /\ d.snap = [c.snap EXCEPT ![e] = Nil]
    <2>1. d.snap = [c.snap EXCEPT ![e] = Nil]
      BY DEF withSnap, Directory
    <2> QED BY <1>0, <2>1, SnapReplaced
  <1>2. Recs(d) = Recs(c) /\ c.snap \in [Events -> {Nil, Torn, Whole}]
    BY <1>1, SameRecs, DirFields
  <1> HIDE DEF d
  <1>3. Filed(d)
    BY <1>1, <1>2 DEF Filed, DirInv
  <1>4. Chained(d)
    BY <1>2 DEF Chained, DirInv
  <1>5. d.next = Nil /\ Spared(d, d.journal)
    BY <1>1, <1>2 DEF DirInv, Spared
  <1>6. DirInv(d)
    BY <1>1, <1>3, <1>4, <1>5 DEF DirInv
  <1>7. Removal(c, d)
    BY <1>1, <1>2, <1>6 DEF Removal
  <1> QED BY <1>7 DEF d

LEMMA JournalRemoved ==
    ASSUME NEW c \in Directory, DirInv(c), c.made, c.journal \notin {Nil, Torn},
           \A e \in c.journal : c.rec[e] = Nil
    PROVE  Removal(c, withJournal(c, Nil))
  <1> DEFINE d == withJournal(c, Nil)
  <1>1. d \in Directory /\ d.rec = c.rec /\ d.made = c.made /\ d.journal = Nil
        /\ d.next = c.next /\ d.pins = c.pins /\ d.snap = c.snap
    BY JournalReplaced
  <1>2. Recs(d) = Recs(c)
    BY <1>1, SameRecs
  <1> HIDE DEF d
  <1>3. DirInv(d)
    BY <1>1, DirKept
  <1>4. Removal(c, d)
    BY <1>1, <1>2, <1>3 DEF Removal
  <1> QED BY <1>4 DEF d

\* One step of completePrune.
LEMMA CollectedRemoves ==
    ASSUME lin \in [Lineages -> Directory], NEW l \in Lineages,
           DirInv(lin[l]), lin[l].made, lin[l].journal \notin {Nil, Torn}
    PROVE  \E d \in Directory : collected(l) = [lin EXCEPT ![l] = d] /\ Removal(lin[l], d)
  <1> DEFINE c == lin[l]
             left == {e \in c.journal : c.rec[e] # Nil \/ c.snap[e] # Nil}
             m == Min(left)
  <1>1. c \in Directory /\ c.journal \in SUBSET Events
    BY DirFields
  <1>2. CASE left = {}
    <2>1. collected(l) = [lin EXCEPT ![l] = withJournal(c, Nil)]
      BY <1>2 DEF collected, withJournal
    <2>2. \A e \in c.journal : c.rec[e] = Nil
      BY <1>2
    <2>3. Removal(c, withJournal(c, Nil))
      BY <1>1, <2>2, JournalRemoved
    <2> QED BY <2>1, <2>3 DEF Removal
  <1>3. CASE left # {} /\ c.rec[m] # Nil
    <2>1. m \in c.journal
      BY <1>1, <1>3, MinExists
    <2>2. collected(l) = [lin EXCEPT ![l] = withRec(c, m, Nil)]
      BY <1>3 DEF collected, withRec
    <2>3. Removal(c, withRec(c, m, Nil))
      BY <1>1, <2>1, RecordRemoved
    <2> QED BY <2>2, <2>3 DEF Removal
  <1>4. CASE left # {} /\ c.rec[m] = Nil
    <2>1. m \in c.journal
      BY <1>1, <1>4, MinExists
    <2>2. collected(l) = [lin EXCEPT ![l] = withSnap(c, m, Nil)]
      BY <1>4 DEF collected, withSnap
    <2>3. Removal(c, withSnap(c, m, Nil))
      BY <1>1, <1>4, <2>1, SnapRemoved
    <2> QED BY <2>2, <2>3 DEF Removal
  <1> QED BY <1>2, <1>3, <1>4

-----------------------------------------------------------------------------
(* States. *)

LEMMA RecordsAre == ASSUME NEW l PROVE records(l) = Recs(lin[l])
  BY DEF records, Recs

LEMMA TxnFields ==
    ASSUME NEW t \in Transaction
    PROVE  /\ t.lineage \in Lineages /\ t.record \in Record /\ t.prune \in SUBSET Events
           /\ t.adoptIn \in Lineages \cup {Nil} /\ t.adoption \in Record \cup {Nil}
           /\ t.src \in Names \cup {Nil} /\ t # Nil
  BY ValuesAssumption DEF Transaction

LEMMA JobFields ==
    ASSUME NEW j \in Job
    PROVE  /\ j.l \in Lineages /\ j.pins \in SUBSET Events /\ j # Nil
           /\ j.kind \in {"pin", "prune"}
  BY ValuesAssumption DEF Job

LEMMA Distinct ==
    /\ Torn # Nil /\ Whole # Nil /\ Whole # Torn
    /\ Nil \notin Lineages /\ Torn \notin Lineages
    /\ \A S \in SUBSET Events : S # Nil /\ S # Torn
  BY ValuesAssumption

\* What a step may not do to a directory: take back its newest record or a record
\* that stays pinned.
Safe(c, d) ==
    /\ \A h : Newest(Recs(c), h) => \E g : Newest(Recs(d), g) /\ g.seq >= h.seq
    /\ \A e \in c.pins \cap d.pins : c.rec[e] # Nil => d.rec[e] # Nil

LEMMA SafeSame ==
    ASSUME NEW c \in Directory, NEW d, d.rec = c.rec
    PROVE  Safe(c, d)
  <1>1. Recs(d) = Recs(c) /\ \A h \in Recs(c) : h.seq \in Int
    BY SameRecs, RecsType, RecordFields
  <1> QED BY <1>1 DEF Safe, Newest

LEMMA SafeRemoval ==
    ASSUME NEW c \in Directory, DirInv(c), c.journal \notin {Nil, Torn}, NEW d, Removal(c, d)
    PROVE  Safe(c, d)
  <1>1. \A h \in Recs(c) : h.seq \in Int
    BY RecsType, RecordFields
  <1>2. ASSUME NEW e \in c.pins \cap d.pins, c.rec[e] # Nil PROVE d.rec[e] # Nil
    <2>1. e \in Events /\ e \notin c.journal
      BY DirFields DEF DirInv, Spared
    <2> QED BY <2>1, <1>2 DEF Removal
  <1> QED BY <1>1, <1>2 DEF Safe, Removal, Newest

\* One directory changes.
LEMMA OneChanged ==
    ASSUME HistInd, NEW l \in Lineages, NEW d \in Directory, DirInv(d), d.made, lin[l].made,
           lin' = [lin EXCEPT ![l] = d], UNCHANGED <<nextLin, nextEv>>,
           \A e \in Events : e >= nextEv => d.rec[e] = Nil,
           Safe(lin[l], d)
    PROVE  /\ LineageInv' /\ lin' \in [Lineages -> Directory]
           /\ lin'[l] = d /\ \A k \in Lineages : k # l => lin'[k] = lin[k]
           /\ \A k \in Lineages : Safe(lin[k], lin'[k])
  <1>1. lin \in [Lineages -> Directory] /\ LineageInv
    BY DEF HistInd, HistoryTypeOK
  <1>2. lin'[l] = d /\ (\A k \in Lineages : k # l => lin'[k] = lin[k])
        /\ lin' \in [Lineages -> Directory]
    BY <1>1
  <1>3. \A k \in Lineages : DirInv(lin'[k])
    BY <1>1, <1>2 DEF LineageInv
  <1>4. \A k \in Lineages : k >= nextLin => ~lin'[k].made
    BY <1>1, <1>2 DEF LineageInv
  <1>5. \A k \in Lineages, e \in Events : e >= nextEv => lin'[k].rec[e] = Nil
    BY <1>1, <1>2 DEF LineageInv
  <1>6. LineageInv'
    BY <1>3, <1>4, <1>5 DEF LineageInv
  <1>7. \A k \in Lineages : Safe(lin[k], lin'[k])
    BY <1>1, <1>2, SafeSame
  <1> QED BY <1>2, <1>6, <1>7

\* The transaction keeps what is known of it when its directories keep their records.
LEMMA TxnKept ==
    ASSUME HistInd, txn # Nil, UNCHANGED <<txn, doc, nextLin, nextEv>>,
           lin' \in [Lineages -> Directory],
           \A k \in Lineages : lin'[k].rec = lin[k].rec /\ lin'[k].pins = lin[k].pins
                               /\ lin'[k].next = lin[k].next,
           \A k \in Lineages : lin'[k].journal = lin[k].journal
                               \/ (k = txn.lineage /\ lin'[k].journal \in {Nil, Torn, txn.prune})
    PROVE  TxnInv'
  <1>1. txn \in Transaction /\ TxnInv
    BY DEF HistInd, HistoryTypeOK
  <1>2. txn.lineage \in Lineages /\ txn.adoptIn \in Lineages \cup {Nil}
    BY <1>1, TxnFields
  <1>3. \A k \in Lineages : Recs(lin'[k]) = Recs(lin[k])
    BY SameRecs
  <1>4. Adopted(txn)'
    BY <1>1, <1>2, <1>3 DEF TxnInv, Adopted, own
  <1>5. Ordered(txn, lin[txn.lineage])'
    BY <1>1, <1>2, <1>3 DEF TxnInv, Ordered, own
  <1>6. Bounded(txn, lin[txn.lineage])'
    BY <1>1, <1>2, <1>3 DEF TxnInv, Bounded, Kept
  <1>7. Documents(txn.record)'
    BY <1>1 DEF TxnInv, Documents, Renames
  <1> QED BY <1>1, <1>2, <1>4, <1>5, <1>6, <1>7 DEF TxnInv

\* Names the transaction does not touch keep their history.
LEMMA OthersSettled ==
    ASSUME HistInd, txn # Nil, UNCHANGED <<txn, doc>>,
           \A k \in Lineages : k # txn.lineage /\ k # txn.adoptIn => lin'[k] = lin[k],
           \A n \in Names : ~InTxn(n) => bind'[n] = bind[n]
    PROVE  NameInv'
  <1>1. ASSUME NEW n \in Names, ~InTxn(n)'
        PROVE  Settled(n)' /\ bind'[n] # txn.lineage /\ (bind'[n] # Nil => bind'[n] # txn.adoptIn)
    <2>1. ~InTxn(n)
      BY <1>1 DEF InTxn
    <2>2. Settled(n) /\ bind[n] # txn.lineage /\ (bind[n] # Nil => bind[n] # txn.adoptIn)
          /\ bind'[n] = bind[n]
      BY <2>1 DEF HistInd, NameInv
    <2>3. Named(n) => Named(n)'
      <3>1. ASSUME Named(n) PROVE Named(n)'
        <4>1. bind[n] \in Lineages /\ bind[n] # Nil
          BY <3>1, Distinct DEF Named
        <4>2. lin'[bind[n]] = lin[bind[n]]
          BY <4>1, <2>2
        <4> QED BY <3>1, <4>2, <2>2 DEF Named
      <3> QED BY <3>1
    <2> QED BY <2>2, <2>3 DEF Settled
  <1> QED BY <1>1 DEF NameInv

\* Without a transaction a directory may lose what retention may remove.
LEMMA NamesServiced ==
    ASSUME HistInd, txn = Nil, UNCHANGED <<txn, doc, bind>>,
           NEW l \in Lineages, NEW d \in Directory, lin' = [lin EXCEPT ![l] = d], d.made,
           Recs(d) \in SUBSET Recs(lin[l]),
           \A h : Newest(Recs(lin[l]), h) => Newest(Recs(d), h),
           \A e \in Events : d.rec[e] = Torn => lin[l].rec[e] = Torn
    PROVE  NameInv'
  <1>1. lin \in [Lineages -> Directory] /\ LineageInv /\ NameInv
    BY DEF HistInd, HistoryTypeOK
  <1>2. ASSUME NEW k \in Lineages, DirSound(lin[k])
        PROVE  DirSound(lin'[k]) /\ \A h : Newest(Recs(lin[k]), h) => Newest(Recs(lin'[k]), h)
    <2>1. CASE k # l
      BY <2>1, <1>1, <1>2
    <2>2. CASE k = l
      <3>1. lin'[k] = d
        BY <2>2, <1>1
      <3>2. IsFiniteSet(Recs(lin[l]))
        BY <1>1, RecsType, RecsFinite DEF LineageInv, DirInv, Chained
      <3>3. IsFiniteSet(Recs(d)) /\ Cardinality(Recs(d)) <= Cardinality(Recs(lin[l]))
        BY <3>2, FS_Subset
      <3>4. Cardinality(Recs(d)) \in Nat /\ Cardinality(Recs(lin[l])) \in Nat
        BY <3>2, <3>3, FS_CardinalityType
      <3>5. Cardinality(Recs(d)) <= MaxRetained
        BY <3>3, <3>4, <1>2, <2>2, Bounds DEF DirSound
      <3> QED BY <3>1, <3>5, <2>2, <1>2 DEF DirSound
    <2> QED BY <2>1, <2>2
  <1>3. ASSUME NEW n \in Names PROVE Named(n) => Named(n)'
    <2>1. ASSUME Named(n) PROVE Named(n)'
      <3>1. PICK h \in Recs(lin[bind[n]]) : Newest(Recs(lin[bind[n]]), h) /\ ~h.tomb /\ h.post = n
        BY <2>1 DEF Named
      <3>2. bind[n] \in Lineages /\ DirSound(lin'[bind[n]]) /\ Newest(Recs(lin'[bind[n]]), h)
        BY <2>1, <3>1, <1>2 DEF Named
      <3> QED BY <3>1, <3>2 DEF Named, Newest
    <2> QED BY <2>1
  <1>4. ASSUME NEW n \in Names PROVE Settled(n)'
    <2>1. Settled(n)
      BY <1>1 DEF NameInv, InTxn
    <2> QED BY <2>1, <1>3 DEF Settled
  <1> QED BY <1>4 DEF NameInv

-----------------------------------------------------------------------------
(* Writing a file. *)

CoreInv ==
    /\ LineageInv /\ TxnInv /\ NameInv
    /\ lin \in [Lineages -> Directory]
    /\ bind \in [Names -> Lineages \cup {Nil, Torn}]

\* Where a commit step writes.
LEMMA Writes ==
    ASSUME HistInd, step \in {"adoptSnap", "snap", "adoptRec", "rec"}
    PROVE  /\ txn # Nil /\ txn \in Transaction
           /\ here \in Lineages /\ event \in Record /\ event.ev \in Events /\ event.ev < nextEv
           /\ event.seq <= event.ev
           /\ lin[here] \in Directory /\ DirInv(lin[here]) /\ lin[here].made
           /\ here \in {txn.lineage, txn.adoptIn}
           /\ step \in {"snap", "rec"} => here = txn.lineage /\ event = txn.record
           /\ step \in {"adoptSnap", "adoptRec"} => here = txn.adoptIn /\ event = txn.adoption
  <1>1. step \in Committing /\ txn # Nil /\ txn \in Transaction /\ TxnInv /\ Progress(txn)
    BY DEF HistInd, HistoryTypeOK, LabelInv, Committing
  <1>2. txn.lineage \in Lineages /\ txn.record \in Record /\ txn.adoptIn \in Lineages \cup {Nil}
        /\ txn.adoption \in Record \cup {Nil}
    BY <1>1, TxnFields
  <1>3. txn.record.ev < nextEv /\ txn.record.seq <= txn.record.ev /\ lin[txn.lineage].made
        /\ txn.record.ev \in Events /\ nextEv \in Int
    <2>1. nextEv \in Int
      BY Bounds DEF HistInd, HistoryTypeOK
    <2>2. txn.record.ev \in Events
      BY <1>2, RecordFields
    <2>3. txn.record.ev < nextEv /\ txn.record.seq <= txn.record.ev
      BY <1>1 DEF TxnInv
    <2>4. lin[txn.lineage].made
      BY <1>1 DEF Progress, Committing
    <2> QED BY <2>1, <2>2, <2>3, <2>4
  <1>4. CASE step \in {"snap", "rec"}
    <2>1. here = txn.lineage /\ event = txn.record
      BY <1>4 DEF here, event
    <2> QED BY <1>1, <1>2, <1>3, <1>4, <2>1, RecordFields DEF HistInd, HistoryTypeOK, LineageInv
  <1>5. CASE step \in {"adoptSnap", "adoptRec"}
    <2>1. here = txn.adoptIn /\ event = txn.adoption
      BY <1>5 DEF here, event
    <2>2. txn.adoption # Nil
      BY <1>1, <1>5 DEF Progress
    <2>3. txn.adoptIn \in Lineages /\ txn.adoption \in Record /\ lin[txn.adoptIn].made
      BY <1>1, <1>2, <1>5, <2>2 DEF Progress, TxnInv, Adopted, Committing
    <2>4. txn.adoption.ev < txn.record.ev /\ txn.adoption.seq = 1
      BY <1>1, <2>2 DEF TxnInv, Adopted
    <2>5. txn.adoption.ev \in Events /\ txn.adoption.ev \in Int /\ txn.record.ev \in Int
          /\ txn.adoption.ev >= 1
      BY <2>3, <1>2, RecordFields, Bounds DEF Events
    <2> QED BY <1>1, <1>5, <2>1, <2>3, <2>4, <2>5, <1>3 DEF HistInd, HistoryTypeOK, LineageInv
  <1> QED BY <1>4, <1>5

\* A snapshot.
LEMMA PutSnapHolds ==
    ASSUME HistInd, step \in {"adoptSnap", "snap"}, present = Nil, NEW v \in {Whole, Torn}, Put(v),
           UNCHANGED <<doc, txn, nextLin, nextEv>>
    PROVE  /\ CoreInv' /\ \A k \in Lineages : Safe(lin[k], lin'[k])
           /\ lin'[here] = withSnap(lin[here], event.ev, v)
           /\ \A k \in Lineages : k # here => lin'[k] = lin[k]
           /\ bind' = bind
  <1> DEFINE c == lin[here]
             e == event.ev
             d == withSnap(c, e, v)
  <1>1. /\ txn # Nil /\ here \in Lineages /\ e \in Events /\ e < nextEv
        /\ c \in Directory /\ DirInv(c) /\ c.made /\ here \in {txn.lineage, txn.adoptIn}
    BY Writes
  <1>2. lin' = [lin EXCEPT ![here] = d] /\ bind' = bind
    BY DEF Put, withSnap
  <1>3. c.snap[e] = Nil
    BY DEF present
  <1>4. d \in Directory /\ d.rec = c.rec /\ d.made /\ d.journal = c.journal
        /\ d.next = c.next /\ d.pins = c.pins
    <2>1. v \in {Nil, Torn, Whole}
      OBVIOUS
    <2>2. c \in Directory /\ e \in Events /\ c.made
      BY <1>1
    <2> HIDE DEF c, e
    <2>3. d \in Directory /\ d.rec = c.rec /\ d.made = c.made /\ d.journal = c.journal
          /\ d.next = c.next /\ d.pins = c.pins
      BY <2>1, <2>2, SnapReplaced
    <2> QED BY <2>2, <2>3
  <1>5. DirInv(d)
    BY <1>1, <1>3, SnapWritten
  <1>6. Safe(c, d)
    BY <1>1, <1>4, SafeSame
  <1>7. \A x \in Events : x >= nextEv => d.rec[x] = Nil
    BY <1>1, <1>4 DEF HistInd, LineageInv
  <1> HIDE DEF d
  <1>8. /\ LineageInv' /\ lin' \in [Lineages -> Directory]
        /\ lin'[here] = d /\ \A k \in Lineages : k # here => lin'[k] = lin[k]
        /\ \A k \in Lineages : Safe(lin[k], lin'[k])
    BY <1>1, <1>2, <1>4, <1>5, <1>6, <1>7, OneChanged
  <1>9. TxnInv'
    BY <1>1, <1>4, <1>8, TxnKept
  <1>10. NameInv'
    BY <1>1, <1>2, <1>8, OthersSettled
  <1>11. bind' \in [Names -> Lineages \cup {Nil, Torn}]
    BY <1>2 DEF HistInd, HistoryTypeOK
  <1> QED BY <1>2, <1>8, <1>9, <1>10, <1>11 DEF CoreInv, d

\* A record that is cut.
LEMMA CutRecHolds ==
    ASSUME HistInd, step \in {"adoptRec", "rec"}, present = Nil, Put(Torn),
           UNCHANGED <<doc, txn, nextLin, nextEv>>
    PROVE  /\ CoreInv' /\ \A k \in Lineages : Safe(lin[k], lin'[k])
           /\ \A k \in Lineages : lin'[k].next = lin[k].next /\ lin'[k].journal = lin[k].journal
           /\ bind' = bind
  <1> DEFINE c == lin[here]
             e == event.ev
             d == withRec(c, e, Torn)
  <1>1. /\ txn # Nil /\ here \in Lineages /\ e \in Events /\ e < nextEv
        /\ c \in Directory /\ DirInv(c) /\ c.made /\ here \in {txn.lineage, txn.adoptIn}
        /\ step = "rec" => here = txn.lineage /\ event = txn.record
        /\ step = "adoptRec" => here = txn.adoptIn /\ event = txn.adoption
        /\ txn \in Transaction
    BY Writes
  <1>2. lin' = [lin EXCEPT ![here] = d] /\ bind' = bind
    BY DEF Put, withRec
  <1>3. c.rec[e] = Nil
    BY DEF present
  <1>4. d \in Directory /\ d.rec = [c.rec EXCEPT ![e] = Torn] /\ d.made /\ d.journal = c.journal
        /\ d.next = c.next /\ d.pins = c.pins
    <2>1. Torn \in Record \cup {Nil, Torn}
      OBVIOUS
    <2>2. d.rec = [c.rec EXCEPT ![e] = Torn]
      BY <1>1 DEF withRec, Directory
    <2> QED BY <1>1, <2>1, <2>2, RecReplaced
  <1>5. DirInv(d) /\ Recs(d) = Recs(c)
    BY <1>1, <1>3, RecordCut
  <1>6. Safe(c, d)
    <2>1. \A h \in Recs(c) : h.seq \in Int
      BY <1>1, RecsType, RecordFields
    <2>2. \A x \in c.pins : c.rec[x] # Nil => d.rec[x] # Nil
      BY <1>1, <1>3, <1>4, Distinct, DirFields
    <2> HIDE DEF d, c
    <2> QED BY <2>1, <2>2, <1>5 DEF Safe, Newest
  <1>7. \A x \in Events : x >= nextEv => d.rec[x] = Nil
    <2>1. \A x \in Events : x >= nextEv => c.rec[x] = Nil /\ x # e
      BY <1>1, Bounds DEF HistInd, LineageInv, HistoryTypeOK, Events
    <2> QED BY <1>1, <1>4, <2>1, DirFields
  <1> HIDE DEF d
  <1>8. /\ LineageInv' /\ lin' \in [Lineages -> Directory]
        /\ lin'[here] = d /\ \A k \in Lineages : k # here => lin'[k] = lin[k]
        /\ \A k \in Lineages : Safe(lin[k], lin'[k])
    BY <1>1, <1>2, <1>4, <1>5, <1>6, <1>7, OneChanged
  <1>9. \A k \in Lineages : Recs(lin'[k]) = Recs(lin[k]) /\ lin'[k].pins = lin[k].pins
            /\ lin'[k].next = lin[k].next /\ lin'[k].journal = lin[k].journal
    BY <1>4, <1>5, <1>8
  <1>10. TxnInv'
    <2>1. txn.lineage \in Lineages /\ txn.adoptIn \in Lineages \cup {Nil} /\ TxnInv
      BY <1>1, TxnFields DEF HistInd
    <2>2. Adopted(txn)'
      <3>1. Adopted(txn)
        BY <2>1, <1>1 DEF TxnInv
      <3>2. ASSUME txn.adoptIn \notin {Nil, txn.lineage}
            PROVE  /\ \A x \in Events : x # txn.adoption.ev => lin'[txn.adoptIn].rec[x] = Nil
                   /\ lin'[txn.adoptIn].rec[txn.adoption.ev] \in {Nil, Torn, txn.adoption}
        <4>1. CASE here = txn.adoptIn
          <5>1. step = "adoptRec" /\ event = txn.adoption
            BY <4>1, <3>2, <1>1
          <5>2. lin'[txn.adoptIn].rec = [c.rec EXCEPT ![txn.adoption.ev] = Torn]
                /\ c.rec \in [Events -> Record \cup {Nil, Torn}]
            BY <5>1, <4>1, <1>4, <1>8, <1>1, DirFields
          <5>3. \A x \in Events : x # txn.adoption.ev => c.rec[x] = Nil
            BY <4>1, <3>1, <3>2 DEF Adopted
          <5> HIDE DEF c
          <5> QED BY <5>1, <5>2, <5>3, <1>1
        <4>2. CASE here # txn.adoptIn
          <5>1. lin'[txn.adoptIn] = lin[txn.adoptIn]
            BY <4>2, <2>1, <1>8, <3>2
          <5> QED BY <5>1, <3>1, <3>2 DEF Adopted
        <4> QED BY <4>1, <4>2
      <3> QED BY <3>1, <3>2, <1>9, <2>1 DEF Adopted, own
    <2>3. Ordered(txn, lin[txn.lineage])'
      BY <1>1, <1>9, <2>1 DEF TxnInv, Ordered, own
    <2>4. Bounded(txn, lin[txn.lineage])'
      BY <1>1, <1>9, <2>1 DEF TxnInv, Bounded, Kept
    <2>5. Documents(txn.record)'
      BY <1>1, <2>1 DEF TxnInv, Documents, Renames
    <2> QED BY <1>1, <1>9, <2>1, <2>2, <2>3, <2>4, <2>5 DEF TxnInv
  <1>11. NameInv'
    BY <1>1, <1>2, <1>8, OthersSettled
  <1>12. bind' \in [Names -> Lineages \cup {Nil, Torn}]
    BY <1>2 DEF HistInd, HistoryTypeOK
  <1> QED BY <1>2, <1>8, <1>9, <1>10, <1>11, <1>12 DEF CoreInv

\* The record of the transaction.
LEMMA PutRecHolds ==
    ASSUME HistInd, step = "rec", present = Nil, Put(event), UNCHANGED <<doc, txn, nextLin, nextEv>>
    PROVE  /\ CoreInv' /\ \A k \in Lineages : Safe(lin[k], lin'[k])
           /\ lin'[txn.lineage] = withRec(lin[txn.lineage], txn.record.ev, txn.record)
           /\ \A k \in Lineages : k # txn.lineage => lin'[k] = lin[k]
           /\ bind' = bind
  <1> DEFINE c == lin[txn.lineage]
             r == txn.record
             d == withRec(c, r.ev, r)
  <1>1. /\ txn # Nil /\ txn.lineage \in Lineages /\ r \in Record /\ r.ev \in Events /\ r.ev < nextEv
        /\ r.seq <= r.ev /\ txn \in Transaction
        /\ c \in Directory /\ DirInv(c) /\ c.made /\ here = txn.lineage /\ event = r
    BY Writes
  <1>2. lin' = [lin EXCEPT ![txn.lineage] = d] /\ bind' = bind
    BY <1>1 DEF Put, withRec
  <1>3. c.rec[r.ev] = Nil
    BY <1>1 DEF present
  <1>4. d \in Directory /\ d.rec = [c.rec EXCEPT ![r.ev] = r] /\ d.made /\ d.journal = c.journal
        /\ d.next = c.next /\ d.pins = c.pins
    <2>1. r \in Record \cup {Nil, Torn}
      BY <1>1
    <2>2. d.rec = [c.rec EXCEPT ![r.ev] = r]
      BY <1>1 DEF withRec, Directory
    <2> QED BY <1>1, <2>1, <2>2, RecReplaced
  <1>5. TxnInv /\ Progress(txn) /\ c.journal = Nil /\ c.snap[r.ev] = Whole
    BY <1>1 DEF HistInd, Progress, Committing
  <1>6. Ordered(txn, c) /\ Adopted(txn)
    BY <1>1, <1>5 DEF TxnInv
  <1>7. \A s \in Recs(c) : s.seq < r.seq
    BY <1>1, <1>3, <1>6, RecsFiled, RecordFields DEF Ordered, DirInv
  <1>8. r.seq > 1 => \E s \in Recs(c) : s.seq = r.seq - 1 /\ s.ev = r.parent
    <2>1. CASE ~own(txn)
      BY <2>1, <1>6 DEF Ordered
    <2>2. CASE own(txn)
      <3>1. c.rec[txn.adoption.ev] = txn.adoption
        BY <2>2, <1>5 DEF Progress, own
      <3>2. txn.adoption \in Record
        BY <1>1, <2>2, TxnFields DEF own
      <3>3. txn.adoption \in Recs(c)
        BY <1>1, <3>1, <3>2, RecordFields, RecsType
      <3> QED BY <3>3, <2>2, <1>6 DEF Adopted, own
    <2> QED BY <2>1, <2>2
  <1>9. DirInv(d) /\ Newest(Recs(d), r) /\ Recs(d) = Recs(c) \cup {r}
    BY <1>1, <1>3, <1>5, <1>7, <1>8, RecordWritten
  <1>10. Safe(c, d)
    <2>1. \A h \in Recs(c) : h.seq \in Int /\ r.seq \in Int
      BY <1>1, RecsType, RecordFields
    <2>2. \A x \in c.pins : c.rec[x] # Nil => d.rec[x] # Nil
      BY <1>1, <1>3, <1>4, RecordFields, DirFields
    <2> HIDE DEF d, c, r
    <2> QED BY <2>1, <2>2, <1>7, <1>9 DEF Safe, Newest
  <1>11. \A x \in Events : x >= nextEv => d.rec[x] = Nil
    <2>1. \A x \in Events : x >= nextEv => c.rec[x] = Nil /\ x # r.ev
      BY <1>1, Bounds DEF HistInd, LineageInv, HistoryTypeOK, Events
    <2> QED BY <1>1, <1>4, <2>1, DirFields
  <1> HIDE DEF d
  <1>12. /\ LineageInv' /\ lin' \in [Lineages -> Directory]
         /\ lin'[txn.lineage] = d /\ \A k \in Lineages : k # txn.lineage => lin'[k] = lin[k]
         /\ \A k \in Lineages : Safe(lin[k], lin'[k])
    BY <1>1, <1>2, <1>4, <1>9, <1>10, <1>11, OneChanged
  <1>13. TxnInv'
    <2>1. Recs(lin'[txn.lineage]) = Recs(c) \cup {r} /\ lin'[txn.lineage].pins = c.pins
          /\ lin'[txn.lineage].next = c.next /\ lin'[txn.lineage].journal = c.journal
      BY <1>4, <1>9, <1>12
    <2>2. txn.adoptIn \in Lineages \cup {Nil}
      BY <1>1, TxnFields
    <2>3. Adopted(txn)'
      BY <1>6, <1>12, <2>1, <2>2 DEF Adopted, own
    <2>4. Ordered(txn, lin[txn.lineage])'
      BY <1>6, <2>1 DEF Ordered, own
    <2>5. Bounded(txn, lin[txn.lineage])'
      <3>1. Kept(txn, Recs(c) \cup {r}) = Kept(txn, Recs(c))
        BY DEF Kept
      <3> QED BY <1>1, <1>5, <2>1, <3>1 DEF TxnInv, Bounded, Kept, own
    <2>6. Documents(txn.record)'
      BY <1>1, <1>5 DEF TxnInv, Documents, Renames
    <2> QED BY <1>1, <1>5, <2>1, <2>3, <2>4, <2>5, <2>6 DEF TxnInv
  <1>14. NameInv'
    BY <1>1, <1>2, <1>12, OthersSettled
  <1>15. bind' \in [Names -> Lineages \cup {Nil, Torn}]
    BY <1>2 DEF HistInd, HistoryTypeOK
  <1> QED BY <1>2, <1>12, <1>13, <1>14, <1>15 DEF CoreInv, d

\* The record of an adoption, the first of its lineage.
LEMMA PutAdoptRecHolds ==
    ASSUME HistInd, step = "adoptRec", present = Nil, Put(event),
           UNCHANGED <<doc, txn, nextLin, nextEv>>
    PROVE  /\ CoreInv' /\ \A k \in Lineages : Safe(lin[k], lin'[k])
           /\ lin'[txn.adoptIn] = withRec(lin[txn.adoptIn], txn.adoption.ev, txn.adoption)
           /\ \A k \in Lineages : k # txn.adoptIn => lin'[k] = lin[k]
           /\ bind' = bind
  <1> DEFINE c == lin[txn.adoptIn]
             r == txn.adoption
             d == withRec(c, r.ev, r)
  <1>1. /\ txn # Nil /\ txn.adoptIn \in Lineages /\ r \in Record /\ r.ev \in Events /\ r.ev < nextEv
        /\ r.seq <= r.ev /\ txn \in Transaction
        /\ c \in Directory /\ DirInv(c) /\ c.made /\ here = txn.adoptIn /\ event = r
    BY Writes
  <1>2. lin' = [lin EXCEPT ![txn.adoptIn] = d] /\ bind' = bind
    BY <1>1 DEF Put, withRec
  <1>3. c.rec[r.ev] = Nil
    BY <1>1 DEF present
  <1>4. d \in Directory /\ d.rec = [c.rec EXCEPT ![r.ev] = r] /\ d.made /\ d.journal = c.journal
        /\ d.next = c.next /\ d.pins = c.pins
    <2>1. r \in Record \cup {Nil, Torn}
      BY <1>1
    <2>2. d.rec = [c.rec EXCEPT ![r.ev] = r]
      BY <1>1 DEF withRec, Directory
    <2> QED BY <1>1, <2>1, <2>2, RecReplaced
  <1>5. TxnInv /\ Progress(txn) /\ r # Nil /\ c.snap[r.ev] = Whole
    BY <1>1, RecordFields DEF HistInd, Progress
  <1>6. Ordered(txn, lin[txn.lineage]) /\ Adopted(txn) /\ r.seq = 1
    BY <1>1, <1>5 DEF TxnInv, Adopted
  <1>7. c.journal = Nil
    <2>1. CASE own(txn)
      BY <2>1, <1>1, <1>5 DEF Progress, Committing, own
    <2>2. CASE ~own(txn)
      BY <2>2, <1>1, <1>5, <1>6, Distinct DEF Adopted, own
    <2> QED BY <2>1, <2>2
  <1>8. Recs(c) = {}
    <2>1. r \notin Recs(c)
      BY <1>1, <1>3, RecsFiled, RecordFields DEF DirInv
    <2>2. CASE own(txn)
      <3>1. Recs(c) \subseteq {r, txn.record} /\ txn.record.seq = 2
        BY <2>2, <1>6 DEF Adopted, own
      <3>2. SUFFICES ASSUME txn.record \in Recs(c) PROVE FALSE
        BY <3>1, <2>1
      <3>3. Recs(c) = {txn.record}
        BY <3>1, <3>2, <2>1
      <3>4. Newest(Recs(c), txn.record)
        BY <3>1, <3>3 DEF Newest
      <3>5. PICK s \in Recs(c) : s.seq = txn.record.seq - 1
        BY <3>1, <3>2, <3>4, <1>1 DEF DirInv, Chained
      <3> QED BY <3>1, <3>3, <3>5
    <2>3. CASE ~own(txn)
      <3>1. txn.adoptIn \notin {Nil, txn.lineage}
        BY <2>3, <1>1, <1>5, Distinct DEF own
      <3>2. \A x \in Events : c.rec[x] = Nil
        BY <3>1, <1>3, <1>6 DEF Adopted
      <3> QED BY <3>2 DEF Recs
    <2> QED BY <2>2, <2>3
  <1>9. DirInv(d) /\ Newest(Recs(d), r) /\ Recs(d) = {r}
    <2>1. (\A s \in Recs(c) : s.seq < r.seq)
          /\ (r.seq > 1 => \E s \in Recs(c) : s.seq = r.seq - 1 /\ s.ev = r.parent)
      BY <1>6, <1>8
    <2>2. DirInv(d) /\ Newest(Recs(d), r) /\ Recs(d) = Recs(c) \cup {r}
      BY <1>1, <1>3, <1>5, <1>7, <2>1, RecordWritten
    <2> QED BY <2>2, <1>8
  <1>10. Safe(c, d)
    <2>2. \A x \in c.pins : c.rec[x] # Nil => d.rec[x] # Nil
      BY <1>1, <1>3, <1>4, RecordFields, DirFields
    <2> HIDE DEF d, c, r
    <2> QED BY <2>2, <1>8 DEF Safe, Newest
  <1>11. \A x \in Events : x >= nextEv => d.rec[x] = Nil
    <2>1. \A x \in Events : x >= nextEv => c.rec[x] = Nil /\ x # r.ev
      BY <1>1, Bounds DEF HistInd, LineageInv, HistoryTypeOK, Events
    <2> QED BY <1>1, <1>4, <2>1, DirFields
  <1> HIDE DEF d
  <1>12. /\ LineageInv' /\ lin' \in [Lineages -> Directory]
         /\ lin'[txn.adoptIn] = d /\ \A k \in Lineages : k # txn.adoptIn => lin'[k] = lin[k]
         /\ \A k \in Lineages : Safe(lin[k], lin'[k])
    BY <1>1, <1>2, <1>4, <1>9, <1>10, <1>11, OneChanged
  <1>13. TxnInv'
    <2>1. Recs(lin'[txn.adoptIn]) = {r} /\ lin'[txn.adoptIn].pins = c.pins
          /\ lin'[txn.adoptIn].next = c.next /\ lin'[txn.adoptIn].journal = c.journal
      BY <1>4, <1>9, <1>12
    <2>2. txn.lineage \in Lineages
      BY <1>1, TxnFields
    <2>3. CASE own(txn)
      <3>1. txn.adoptIn = txn.lineage /\ txn.record.seq = 2
        BY <2>3, <1>6 DEF own, Adopted
      <3>2. Adopted(txn)'
        BY <3>1, <1>6, <2>1 DEF Adopted, own
      <3>3. Ordered(txn, lin[txn.lineage])'
        BY <3>1, <2>3, <1>6, <2>1 DEF Ordered, own
      <3>4. Bounded(txn, lin[txn.lineage])'
        <4>1. Kept(txn, {r}) = Kept(txn, {})
          BY <2>3 DEF Kept
        <4> QED BY <1>1, <1>5, <1>8, <2>1, <3>1, <4>1 DEF TxnInv, Bounded, Kept, own
      <3>5. Documents(txn.record)'
        BY <1>1, <1>5 DEF TxnInv, Documents, Renames
      <3> QED BY <1>1, <1>5, <3>1, <2>1, <3>2, <3>3, <3>4, <3>5 DEF TxnInv
    <2>4. CASE ~own(txn)
      <3>1. txn.adoptIn \notin {Nil, txn.lineage} /\ lin'[txn.lineage] = lin[txn.lineage]
        BY <2>2, <2>4, <1>1, <1>5, <1>12, Distinct DEF own
      <3>2. lin'[txn.adoptIn].rec = [c.rec EXCEPT ![r.ev] = r]
            /\ c.rec \in [Events -> Record \cup {Nil, Torn}]
        BY <1>1, <1>4, <1>12, DirFields
      <3>3. Adopted(txn)'
        BY <3>1, <3>2, <1>1, <1>6, <2>1 DEF Adopted, own
      <3>4. Ordered(txn, lin[txn.lineage])'
        BY <3>1, <1>6 DEF Ordered, own
      <3>5. Bounded(txn, lin[txn.lineage])'
        BY <1>1, <1>5, <3>1 DEF TxnInv, Bounded, Kept, own
      <3>6. Documents(txn.record)'
        BY <1>1, <1>5 DEF TxnInv, Documents, Renames
      <3> QED BY <1>1, <1>5, <3>1, <3>3, <3>4, <3>5, <3>6 DEF TxnInv
    <2> QED BY <2>3, <2>4
  <1>14. NameInv'
    BY <1>1, <1>2, <1>12, OthersSettled
  <1>15. bind' \in [Names -> Lineages \cup {Nil, Torn}]
    BY <1>2 DEF HistInd, HistoryTypeOK
  <1> QED BY <1>2, <1>12, <1>13, <1>14, <1>15 DEF CoreInv, d

\* A name binding.
LEMMA PutBindHolds ==
    ASSUME HistInd, step \in {"bind", "bindAdopted"}, present = Nil, NEW v,
           v \in {bindingOf.l, Torn}, Put(v), UNCHANGED <<doc, txn, nextLin, nextEv>>
    PROVE  /\ CoreInv' /\ lin' = lin /\ bindingOf.name \in Names
           /\ bind' = [bind EXCEPT ![bindingOf.name] = v]
           /\ step = "bind" => bindingOf.name = txn.record.post /\ bindingOf.l = txn.lineage
           /\ step = "bindAdopted" => bindingOf.name = txn.record.pre /\ bindingOf.l = txn.adoptIn
  <1>1. txn # Nil /\ txn \in Transaction /\ TxnInv /\ Progress(txn)
    BY DEF HistInd, HistoryTypeOK, LabelInv, Committing
  <1>2. txn.lineage \in Lineages /\ txn.record \in Record /\ txn.adoptIn \in Lineages \cup {Nil}
        /\ txn.adoption \in Record \cup {Nil}
    BY <1>1, TxnFields
  <1>3. step = "bindAdopted" => txn.adoptIn \notin {Nil, txn.lineage} /\ txn.adoption # Nil
                              /\ txn.adoption.post = txn.record.pre
    BY <1>1 DEF Progress, TxnInv, Adopted
  <1>4. /\ step = "bind" => bindingOf.name = txn.record.post /\ bindingOf.l = txn.lineage
        /\ step = "bindAdopted" => bindingOf.name = txn.record.pre /\ bindingOf.l = txn.adoptIn
    BY <1>3 DEF bindingOf
  <1>5. bindingOf.name \in Names /\ bindingOf.l \in Lineages
    BY <1>2, <1>3, <1>4, RecordFields
  <1>6. bind' = [bind EXCEPT ![bindingOf.name] = v] /\ lin' = lin
    BY DEF Put
  <1>7. lin \in [Lineages -> Directory] /\ bind \in [Names -> Lineages \cup {Nil, Torn}]
    BY DEF HistInd, HistoryTypeOK
  <1>8. bind' \in [Names -> Lineages \cup {Nil, Torn}]
    BY <1>5, <1>6, <1>7
  <1>9. LineageInv'
    BY <1>6 DEF HistInd, LineageInv
  <1>10. TxnInv'
    BY <1>1, <1>6, <1>7, TxnKept
  <1>11. NameInv'
    <2>1. \A n \in Names : ~InTxn(n) => n # bindingOf.name
      BY <1>1, <1>3, <1>4 DEF InTxn
    <2> QED BY <1>1, <1>6, <1>7, <2>1, OthersSettled
  <1> QED BY <1>4, <1>5, <1>6, <1>7, <1>8, <1>9, <1>10, <1>11 DEF CoreInv

LEMMA PutJournalHolds ==
    ASSUME HistInd, step = "journal", present = Nil, NEW v, v \in {txn.prune, Torn}, Put(v),
           UNCHANGED <<doc, txn, nextLin, nextEv>>
    PROVE  /\ CoreInv' /\ \A k \in Lineages : Safe(lin[k], lin'[k])
           /\ lin'[txn.lineage] = withJournal(lin[txn.lineage], v)
           /\ \A k \in Lineages : k # txn.lineage => lin'[k] = lin[k]
           /\ bind' = bind
  <1> DEFINE c == lin[txn.lineage]
             d == withJournal(c, v)
  <1>1. txn # Nil /\ txn \in Transaction /\ TxnInv /\ Progress(txn)
    BY DEF HistInd, HistoryTypeOK, LabelInv, Committing
  <1>2. txn.lineage \in Lineages /\ txn.record \in Record /\ txn.prune \in SUBSET Events
        /\ c \in Directory /\ DirInv(c)
    BY <1>1, TxnFields DEF HistInd, HistoryTypeOK, LineageInv
  <1>3. lin' = [lin EXCEPT ![txn.lineage] = d] /\ bind' = bind
    BY DEF Put, withJournal
  <1>4. c.made /\ c.rec[txn.record.ev] = txn.record /\ c.next = Nil
    BY <1>1 DEF Progress, Committing, Recorded, TxnInv
  <1>5. d \in Directory /\ d.journal = v /\ d.rec = c.rec /\ d.snap = c.snap
        /\ d.made = c.made /\ d.pins = c.pins /\ d.next = c.next
    <2>1. v \in (SUBSET Events) \cup {Nil, Torn}
      BY <1>2
    <2> HIDE DEF c
    <2> QED BY <1>2, <2>1, JournalReplaced
  <1>6. Recs(d) = Recs(c)
    BY <1>5, SameRecs
  <1>7. Spared(c, txn.prune)
    <2>1. Ordered(txn, c)
      BY <1>1 DEF TxnInv
    <2>2. txn.record \in Recs(c)
      BY <1>2, <1>4, RecordFields, RecsType
    <2>3. \A h \in Recs(c) : Newest(Recs(c), h) => h = txn.record
      BY <1>2, <2>1, <2>2, RecsType, RecordFields DEF Ordered, Newest
    <2> QED BY <2>1, <2>3 DEF Spared, Ordered
  <1> HIDE DEF d
  <1>8. DirInv(d)
    <2>1. d.journal \notin {Nil, Torn} => d.next = Nil /\ Spared(d, d.journal)
      BY <1>4, <1>5, <1>6, <1>7 DEF Spared
    <2> QED BY <1>2, <1>4, <1>5, <2>1, DirKept
  <1>9. Safe(c, d)
    BY <1>2, <1>5, SafeSame
  <1>10. \A x \in Events : x >= nextEv => d.rec[x] = Nil
    BY <1>2, <1>5 DEF HistInd, LineageInv
  <1>11. /\ LineageInv' /\ lin' \in [Lineages -> Directory]
         /\ lin'[txn.lineage] = d /\ \A k \in Lineages : k # txn.lineage => lin'[k] = lin[k]
         /\ \A k \in Lineages : Safe(lin[k], lin'[k])
    BY <1>2, <1>3, <1>4, <1>5, <1>8, <1>9, <1>10, OneChanged
  <1>12. TxnInv'
    BY <1>1, <1>5, <1>11, TxnKept
  <1>13. NameInv'
    BY <1>1, <1>3, <1>11, OthersSettled
  <1>14. bind' \in [Names -> Lineages \cup {Nil, Torn}]
    BY <1>3 DEF HistInd, HistoryTypeOK
  <1> QED BY <1>3, <1>11, <1>12, <1>13, <1>14 DEF CoreInv, d

\* A change of pins or an explicit prune changes one directory, without a transaction.
LEMMA Serviced ==
    ASSUME HistInd, txn = Nil, UNCHANGED <<txn, doc, bind, nextLin, nextEv>>,
           NEW l \in Lineages, NEW d \in Directory, lin' = [lin EXCEPT ![l] = d],
           lin[l].made, d.made, d.rec = lin[l].rec, d.snap = lin[l].snap,
           d.journal \notin {Nil, Torn} => d.next = Nil /\ Spared(d, d.journal)
    PROVE  /\ CoreInv' /\ lin'[l] = d
           /\ \A k \in Lineages : k # l => lin'[k] = lin[k]
           /\ \A k \in Lineages : Safe(lin[k], lin'[k])
  <1> DEFINE c == lin[l]
  <1>1. c \in Directory /\ DirInv(c)
    BY DEF HistInd, HistoryTypeOK, LineageInv
  <1>2. DirInv(d)
    BY <1>1, DirKept
  <1>3. Safe(c, d)
    BY <1>1, SafeSame
  <1>4. \A x \in Events : x >= nextEv => d.rec[x] = Nil
    BY DEF HistInd, LineageInv
  <1>5. /\ LineageInv' /\ lin' \in [Lineages -> Directory]
        /\ lin'[l] = d /\ \A k \in Lineages : k # l => lin'[k] = lin[k]
        /\ \A k \in Lineages : Safe(lin[k], lin'[k])
    BY <1>2, <1>3, <1>4, OneChanged
  <1>6. TxnInv'
    BY DEF TxnInv
  <1>7. NameInv'
    <2>1. Recs(d) = Recs(c)
      BY SameRecs
    <2> QED BY <2>1, NamesServiced
  <1>8. bind' \in [Names -> Lineages \cup {Nil, Torn}]
    BY DEF HistInd, HistoryTypeOK
  <1> QED BY <1>5, <1>6, <1>7, <1>8 DEF CoreInv

LEMMA PutNextHolds ==
    ASSUME HistInd, step = "pinWrite", NEW v, v \in {job.pins, Torn}, Put(v),
           UNCHANGED <<doc, txn, nextLin, nextEv>>
    PROVE  /\ CoreInv' /\ \A k \in Lineages : Safe(lin[k], lin'[k])
           /\ lin'[job.l] = withNext(lin[job.l], v)
           /\ \A k \in Lineages : k # job.l => lin'[k] = lin[k]
           /\ bind' = bind
  <1> DEFINE c == lin[job.l]
             d == withNext(c, v)
  <1>1. txn = Nil /\ job \in Job /\ JobInv
    BY DEF HistInd, HistoryTypeOK, LabelInv
  <1>2. job.l \in Lineages /\ job.pins \in SUBSET Events
    BY <1>1, JobFields
  <1>3. c \in Directory /\ c.made /\ c.journal = Nil
    BY <1>1, <1>2 DEF JobInv, HistInd, HistoryTypeOK
  <1>4. lin' = [lin EXCEPT ![job.l] = d] /\ bind' = bind
    BY DEF Put, withNext
  <1>5. d \in Directory /\ d.next = v /\ d.rec = c.rec /\ d.snap = c.snap
        /\ d.made = c.made /\ d.pins = c.pins /\ d.journal = c.journal
    <2>1. v \in (SUBSET Events) \cup {Nil, Torn}
      BY <1>2
    <2> HIDE DEF c
    <2> QED BY <1>3, <2>1, NextReplaced
  <1> HIDE DEF d
  <1>6. /\ CoreInv' /\ lin'[job.l] = d
        /\ \A k \in Lineages : k # job.l => lin'[k] = lin[k]
        /\ \A k \in Lineages : Safe(lin[k], lin'[k])
    BY <1>1, <1>2, <1>3, <1>4, <1>5, Serviced
  <1> QED BY <1>4, <1>6 DEF d

LEMMA PutPruneHolds ==
    ASSUME HistInd, step = "pruneJournal", NEW v, v \in {job.pins, Torn}, Put(v),
           UNCHANGED <<doc, txn, nextLin, nextEv>>
    PROVE  /\ CoreInv' /\ \A k \in Lineages : Safe(lin[k], lin'[k])
           /\ lin'[job.l] = withJournal(lin[job.l], v)
           /\ \A k \in Lineages : k # job.l => lin'[k] = lin[k]
           /\ bind' = bind
  <1> DEFINE c == lin[job.l]
             d == withJournal(c, v)
  <1>1. txn = Nil /\ job \in Job /\ JobInv
    BY DEF HistInd, HistoryTypeOK, LabelInv
  <1>2. job.l \in Lineages /\ job.pins \in SUBSET Events
    BY <1>1, JobFields
  <1>3. c \in Directory /\ c.made /\ c.next = Nil /\ Spared(c, job.pins)
    BY <1>1, <1>2 DEF JobInv, HistInd, HistoryTypeOK
  <1>4. lin' = [lin EXCEPT ![job.l] = d] /\ bind' = bind
    BY DEF Put, withJournal
  <1>5. d \in Directory /\ d.journal = v /\ d.rec = c.rec /\ d.snap = c.snap
        /\ d.made = c.made /\ d.pins = c.pins /\ d.next = c.next
    <2>1. v \in (SUBSET Events) \cup {Nil, Torn}
      BY <1>2
    <2> HIDE DEF c
    <2> QED BY <1>3, <2>1, JournalReplaced
  <1>6. Recs(d) = Recs(c)
    BY <1>5, SameRecs
  <1> HIDE DEF d
  <1>7. d.journal \notin {Nil, Torn} => d.next = Nil /\ Spared(d, d.journal)
    BY <1>3, <1>5, <1>6 DEF Spared
  <1>8. /\ CoreInv' /\ lin'[job.l] = d
        /\ \A k \in Lineages : k # job.l => lin'[k] = lin[k]
        /\ \A k \in Lineages : Safe(lin[k], lin'[k])
    BY <1>1, <1>2, <1>3, <1>4, <1>5, <1>7, Serviced
  <1> QED BY <1>4, <1>8 DEF d

-----------------------------------------------------------------------------
(* The steps of a transaction. *)

\* What remains to be shown of a step while a transaction is completed.
LEMMA CommitRest ==
    ASSUME HistInd, step \in Committing, UNCHANGED <<doc, txn, preview, nextLin, nextEv>>,
           job' \in {job, Nil}, step' \in Committing \cup {"down"}, crashes' \in 0..MaxCrashes,
           CoreInv',
           \A k \in Lineages : lin'[k].next = lin[k].next
                               /\ (lin'[k].journal = lin[k].journal \/ k = txn.lineage),
           Progress(txn)'
    PROVE  HistInd'
  <1>1. txn # Nil
    BY DEF HistInd, LabelInv
  <1>2. HistoryTypeOK'
    BY DEF HistInd, HistoryTypeOK, CoreInv, Labels, Committing
  <1>3. LabelInv' /\ JobInv'
    BY <1>1 DEF LabelInv, JobInv, Committing
  <1>4. TidyInv'
    <2>1. \A k \in Lineages : /\ lin[k].next \in {Nil, Torn}
                              /\ lin[k].journal \notin {Nil, Torn} => k = txn.lineage
      BY <1>1 DEF HistInd, TidyInv, Recovering, Committing
    <2> QED BY <1>1, <2>1 DEF TidyInv
  <1>5. WholeInv'
    BY <1>1 DEF HistInd, WholeInv
  <1> QED BY <1>2, <1>3, <1>4, <1>5 DEF HistInd, CoreInv

LEMMA ProgressDown == ASSUME step' \in {"down", "attach"} PROVE Progress(txn)'
  BY DEF Progress, Committing, Recorded, Bound

\* A step that leaves what is stored alone.
LEMMA CoreSame ==
    ASSUME HistInd, UNCHANGED <<doc, txn, nextLin, nextEv, lin, bind>>
    PROVE  CoreInv' /\ \A k \in Lineages : Safe(lin[k], lin'[k])
  <1>1. LineageInv'
    BY DEF HistInd, LineageInv
  <1>2. NameInv'
    BY DEF HistInd, NameInv, InTxn, Settled, Named
  <1>3. TxnInv'
    BY DEF HistInd, TxnInv, Adopted, Ordered, Bounded, Documents, own, Kept
  <1>4. \A k \in Lineages : Safe(lin[k], lin'[k])
    BY SafeSame DEF HistInd, HistoryTypeOK
  <1> QED BY <1>1, <1>2, <1>3, <1>4 DEF CoreInv, HistInd, HistoryTypeOK

LEMMA CommitSame ==
    ASSUME HistInd, step \in Committing,
           UNCHANGED <<doc, txn, preview, nextLin, nextEv, lin, bind, crashes, job>>,
           step' \in Committing \cup {"down"}, Progress(txn)'
    PROVE  HistInd' /\ \A k \in Lineages : Safe(lin[k], lin'[k])
  <1>1. CoreInv' /\ \A k \in Lineages : Safe(lin[k], lin'[k])
    BY CoreSame
  <1>2. crashes' \in 0..MaxCrashes
    BY DEF HistInd, HistoryTypeOK
  <1>3. HistInd'
    BY <1>1, <1>2, CommitRest
  <1> QED BY <1>1, <1>3

\* Refusals leave the transaction to recovery.
LEMMA RefuseHolds ==
    ASSUME HistInd, step \in Committing, Refuse,
           UNCHANGED <<doc, txn, preview, nextLin, nextEv, crashes, job>>
    PROVE  HistInd' /\ \A k \in Lineages : Safe(lin[k], lin'[k])
  <1>1. step' = "down" /\ lin' = lin /\ bind' = bind
    BY DEF Refuse
  <1> QED BY <1>1, ProgressDown, CommitSame

LEMMA AttachHolds ==
    ASSUME HistInd, Attach
    PROVE  HistInd' /\ \A k \in Lineages : Safe(lin[k], lin'[k])
  <1>1. step = "attach" /\ step \in Committing
        /\ UNCHANGED <<doc, txn, job, preview, nextLin, nextEv, crashes>>
    BY DEF Attach, Committing
  <1>2. CASE ~attachable(txn)
    BY <1>1, <1>2, RefuseHolds DEF Attach
  <1>3. CASE attachable(txn)
    <2>1. step' = "mkdir" /\ UNCHANGED <<bind, lin>>
      BY <1>3 DEF Attach
    <2>2. txn \in Transaction /\ txn.lineage \in Lineages
      BY <1>1, TxnFields DEF HistInd, HistoryTypeOK, LabelInv
    <2>3. (\A e \in Events : lin[txn.lineage].rec[e] # Torn) /\ lin[txn.lineage].journal = Nil
      <3>1. CASE ~lin[txn.lineage].made
        <4>1. lin[txn.lineage] = Unused
          BY <2>2, <3>1 DEF HistInd, LineageInv, DirInv
        <4> QED BY <4>1, Distinct DEF Unused
      <3>2. CASE readable(txn.lineage)
        BY <3>2 DEF readable
      <3> QED BY <1>3, <3>1, <3>2 DEF attachable
    <2>4. Progress(txn)'
      BY <1>1, <2>1, <2>3 DEF Progress, Committing, Recorded, Bound
    <2> QED BY <1>1, <2>1, <2>4, CommitSame DEF Committing
  <1> QED BY <1>2, <1>3

LEMMA MadeReplaced ==
    ASSUME NEW d \in Directory
    PROVE  LET w == [d EXCEPT !.made = TRUE] IN
           /\ w \in Directory /\ w.made /\ w.rec = d.rec /\ w.snap = d.snap
           /\ w.pins = d.pins /\ w.next = d.next /\ w.journal = d.journal
  <1>1. [d EXCEPT !.made = TRUE] \in Directory
    BY DirUpdates
  <1> QED BY <1>1 DEF Directory

LEMMA MakeLineageHolds ==
    ASSUME HistInd, MakeLineage
    PROVE  HistInd' /\ \A k \in Lineages : Safe(lin[k], lin'[k])
  <1>1. step = "mkdir" /\ step \in Committing /\ bind' = bind
        /\ UNCHANGED <<doc, txn, job, preview, nextLin, nextEv, crashes>>
    BY DEF MakeLineage, Committing
  <1>2. txn # Nil /\ txn \in Transaction /\ txn.lineage \in Lineages
        /\ txn.adoptIn \in Lineages \cup {Nil} /\ lin \in [Lineages -> Directory]
        /\ TxnInv /\ Progress(txn)
    BY <1>1, TxnFields DEF HistInd, HistoryTypeOK, LabelInv
  <1>3. ASSUME NEW k \in Lineages
        PROVE  /\ lin'[k] \in Directory
               /\ lin'[k] = lin[k] \/ (k \in {txn.lineage, txn.adoptIn} /\ lin'[k].made)
               /\ k \in {txn.lineage, txn.adoptIn} => lin'[k].made
               /\ lin[k].made => lin'[k].made
               /\ lin'[k].rec = lin[k].rec /\ lin'[k].snap = lin[k].snap /\ lin'[k].pins = lin[k].pins
               /\ lin'[k].next = lin[k].next /\ lin'[k].journal = lin[k].journal
    <2>1. lin'[k] = IF k \in {txn.lineage, txn.adoptIn}
                    THEN [lin[k] EXCEPT !.made = TRUE] ELSE lin[k]
      BY DEF MakeLineage
    <2>2. CASE k \in {txn.lineage, txn.adoptIn}
      BY <1>2, <2>1, <2>2, MadeReplaced
    <2>3. CASE k \notin {txn.lineage, txn.adoptIn}
      BY <1>2, <2>1, <2>3
    <2> QED BY <2>2, <2>3
  <1>4. lin' \in [Lineages -> Directory]
    BY <1>3 DEF MakeLineage
  <1>5. LineageInv'
    <2>1. ASSUME NEW k \in Lineages PROVE DirInv(lin'[k])
      <3>1. DirInv(lin[k]) /\ lin[k] \in Directory
        BY <1>2 DEF HistInd, LineageInv
      <3>2. CASE lin'[k] = lin[k]
        BY <3>1, <3>2
      <3>3. CASE lin'[k].made
        <4>1. Recs(lin'[k]) = Recs(lin[k])
          BY <1>3, SameRecs
        <4>2. lin'[k].journal \notin {Nil, Torn} => lin'[k].next = Nil
                                                    /\ Spared(lin'[k], lin'[k].journal)
          BY <1>3, <3>1, <4>1 DEF DirInv, Spared
        <4> QED BY <1>3, <3>1, <3>3, <4>2, DirKept
      <3> QED BY <1>3, <3>2, <3>3
    <2>2. txn.lineage < nextLin /\ (txn.adoptIn # Nil => txn.adoptIn < nextLin)
      BY <1>2 DEF TxnInv, Adopted
    <2>3. ASSUME NEW k \in Lineages, k >= nextLin PROVE ~lin'[k].made
      <3>1. k \notin {txn.lineage, txn.adoptIn}
        BY <1>2, <2>2, <2>3, Distinct, Bounds DEF HistInd, HistoryTypeOK, Lineages
      <3> QED BY <1>3, <3>1, <2>3 DEF HistInd, LineageInv
    <2>4. \A k \in Lineages, e \in Events : e >= nextEv => lin'[k].rec[e] = Nil
      BY <1>1, <1>3 DEF HistInd, LineageInv
    <2> QED BY <1>1, <2>1, <2>3, <2>4 DEF LineageInv
  <1>6. TxnInv'
    BY <1>1, <1>2, <1>3, <1>4, TxnKept
  <1>7. NameInv'
    BY <1>1, <1>2, <1>3, OthersSettled
  <1>8. \A k \in Lineages : Safe(lin[k], lin'[k])
    BY <1>2, <1>3, SafeSame
  <1>9. CoreInv'
    BY <1>1, <1>4, <1>5, <1>6, <1>7 DEF CoreInv, HistInd, HistoryTypeOK
  <1>10. step' \in {"adoptSnap", "snap"}
    BY DEF MakeLineage
  <1>11. Progress(txn)'
    <2>1. CASE txn.adoption # Nil
      <3>1. step' = "adoptSnap" /\ txn.adoptIn \in Lineages
        BY <1>2, <2>1 DEF MakeLineage, TxnInv, Adopted
      <3> QED BY <1>1, <1>2, <1>3, <2>1, <3>1 DEF Progress, Committing, Recorded, Bound
    <2>2. CASE txn.adoption = Nil
      <3>1. step' = "snap"
        BY <2>2 DEF MakeLineage
      <3> QED BY <1>1, <1>2, <1>3, <2>2, <3>1 DEF Progress, Committing, Recorded, Bound
    <2> QED BY <2>1, <2>2
  <1>12. crashes' \in 0..MaxCrashes
    BY <1>1 DEF HistInd, HistoryTypeOK
  <1>13. HistInd'
    BY <1>1, <1>3, <1>9, <1>10, <1>11, <1>12, CommitRest DEF Committing
  <1> QED BY <1>8, <1>13

\* Every write creates the file, finds it as it should be, or refuses.
LEMMA WriteCases ==
    ASSUME HistInd, WriteFile
    PROVE  /\ step \in Writing
           /\ UNCHANGED <<doc, txn, job, preview, nextLin, nextEv, crashes>>
           /\ \/ present = Nil /\ Put(intended) /\ step' = afterWrite
              \/ present = intended /\ step' = afterWrite /\ UNCHANGED <<bind, lin>>
              \/ present # Nil /\ Refuse
  BY DEF WriteFile

LEMMA WriteSnapHolds ==
    ASSUME HistInd, WriteFile, step \in {"adoptSnap", "snap"}
    PROVE  HistInd' /\ \A k \in Lineages : Safe(lin[k], lin'[k])
  <1> DEFINE Done == HistInd' /\ \A k \in Lineages : Safe(lin[k], lin'[k])
  <1>1. step \in Committing /\ UNCHANGED <<doc, txn, job, preview, nextLin, nextEv, crashes>>
    BY WriteCases DEF Committing
  <1>2. /\ txn # Nil /\ txn \in Transaction
        /\ here \in Lineages /\ event.ev \in Events
        /\ lin[here] \in Directory /\ here \in {txn.lineage, txn.adoptIn}
        /\ step = "snap" => here = txn.lineage /\ event = txn.record
        /\ step = "adoptSnap" => here = txn.adoptIn /\ event = txn.adoption
    BY Writes
  <1>3. txn.lineage \in Lineages /\ txn.adoptIn \in Lineages \cup {Nil} /\ Progress(txn) /\ TxnInv
        /\ crashes \in 0..MaxCrashes
    BY <1>2, TxnFields DEF HistInd, HistoryTypeOK
  <1>4. step' = afterWrite => step' = IF step = "snap" THEN "rec" ELSE "adoptRec"
    BY DEF afterWrite
  <1>5. intended = Whole
    BY DEF intended
  <1>6. ASSUME \A k \in Lineages : /\ lin'[k].rec = lin[k].rec /\ lin'[k].made = lin[k].made
                                   /\ lin'[k].journal = lin[k].journal,
               lin'[here].snap[event.ev] = Whole, step' = afterWrite
        PROVE  Progress(txn)'
    <2>1. CASE step = "snap"
      <3>1. txn.adoption # Nil => txn.adoptIn \in Lineages
        BY <1>2, <1>3 DEF TxnInv, Adopted
      <3>2. step' = "rec" /\ here = txn.lineage /\ event = txn.record
        BY <1>2, <1>4, <1>6, <2>1
      <3> QED BY <1>1, <1>3, <1>6, <2>1, <3>1, <3>2 DEF Progress, Committing, Recorded, Bound
    <2>2. CASE step = "adoptSnap"
      <3>1. txn.adoption # Nil /\ txn.adoptIn \in Lineages
        BY <1>2, <1>3, <2>2 DEF TxnInv, Adopted, Progress
      <3>2. step' = "adoptRec" /\ here = txn.adoptIn /\ event = txn.adoption
        BY <1>2, <1>4, <1>6, <2>2
      <3> QED BY <1>1, <1>3, <1>6, <2>2, <3>1, <3>2 DEF Progress, Committing, Recorded, Bound
    <2> QED BY <2>1, <2>2
  <1>7. CASE present = Nil /\ Put(intended) /\ step' = afterWrite
    <2>1. /\ CoreInv' /\ \A k \in Lineages : Safe(lin[k], lin'[k])
          /\ lin'[here] = withSnap(lin[here], event.ev, Whole)
          /\ \A k \in Lineages : k # here => lin'[k] = lin[k]
      BY <1>1, <1>5, <1>7, PutSnapHolds
    <2>2. /\ lin'[here].snap = [lin[here].snap EXCEPT ![event.ev] = Whole]
          /\ lin'[here].rec = lin[here].rec /\ lin'[here].made = lin[here].made
          /\ lin'[here].next = lin[here].next /\ lin'[here].journal = lin[here].journal
      <3>1. lin'[here].snap = [lin[here].snap EXCEPT ![event.ev] = Whole]
        BY <1>2, <2>1 DEF withSnap, Directory
      <3> QED BY <1>2, <2>1, <3>1, SnapReplaced
    <2>3. lin'[here].snap[event.ev] = Whole
      BY <1>2, <2>2, DirFields
    <2>4. \A k \in Lineages : /\ lin'[k].rec = lin[k].rec /\ lin'[k].made = lin[k].made
                              /\ lin'[k].next = lin[k].next /\ lin'[k].journal = lin[k].journal
      BY <2>1, <2>2
    <2>5. Progress(txn)'
      BY <1>6, <1>7, <2>3, <2>4
    <2>6. step' \in Committing
      BY <1>4, <1>7 DEF Committing
    <2> QED BY <1>1, <1>3, <2>1, <2>4, <2>5, <2>6, CommitRest
  <1>8. CASE present = intended /\ step' = afterWrite /\ UNCHANGED <<bind, lin>>
    <2>1. lin[here].snap[event.ev] = Whole
      BY <1>5, <1>8 DEF present
    <2>2. lin'[here].snap[event.ev] = Whole
      BY <1>1, <1>8, <2>1, <1>2, <1>3
    <2>3. Progress(txn)'
      BY <1>6, <1>8, <2>2
    <2>4. step' \in Committing
      BY <1>4, <1>8 DEF Committing
    <2> QED BY <1>1, <1>8, <2>3, <2>4, CommitSame
  <1>9. CASE Refuse
    BY <1>1, <1>9, RefuseHolds
  <1> QED BY <1>7, <1>8, <1>9, WriteCases

LEMMA WriteRecHolds ==
    ASSUME HistInd, WriteFile, step = "rec"
    PROVE  HistInd' /\ \A k \in Lineages : Safe(lin[k], lin'[k])
  <1>1. step \in Committing /\ UNCHANGED <<doc, txn, job, preview, nextLin, nextEv, crashes>>
    BY WriteCases DEF Committing
  <1>2. /\ txn # Nil /\ txn \in Transaction /\ txn.record \in Record
        /\ here = txn.lineage /\ event = txn.record /\ txn.lineage \in Lineages
        /\ lin[txn.lineage] \in Directory /\ txn.record.ev \in Events
    BY Writes
  <1>3. txn.adoptIn \in Lineages \cup {Nil} /\ Progress(txn) /\ TxnInv /\ crashes \in 0..MaxCrashes
    BY <1>2, TxnFields DEF HistInd, HistoryTypeOK
  <1>4. step' = afterWrite => step' \in {"unbind", "bind"}
            /\ (step' = "unbind" <=> txn.record.tomb \/ Renames(txn.record))
    BY DEF afterWrite, replacesBinding, Renames
  <1>5. intended = event
    BY DEF intended
  <1>6. /\ txn.adoption # Nil => txn.adoptIn \in Lineages /\ txn.adoption.ev # txn.record.ev
                                 /\ txn.adoption.ev \in Events
    <2>1. txn.adoption # Nil => /\ txn.adoptIn # Nil /\ txn.adoption.ev < txn.record.ev
                                /\ txn.adoption \in Record
      BY <1>2, <1>3, TxnFields DEF TxnInv, Adopted
    <2> QED BY <1>2, <1>3, <2>1, RecordFields
  <1>7. ASSUME step' = afterWrite, lin'[txn.lineage].rec[txn.record.ev] = txn.record,
               \A e \in Events : lin'[txn.lineage].rec[e] \in {lin[txn.lineage].rec[e], txn.record},
               \A e \in Events : e # txn.record.ev =>
                  lin'[txn.lineage].rec[e] = lin[txn.lineage].rec[e],
               lin'[txn.lineage].made = lin[txn.lineage].made,
               lin'[txn.lineage].journal = lin[txn.lineage].journal,
               \A k \in Lineages : k # txn.lineage => lin'[k] = lin[k]
        PROVE  Progress(txn)'
    <2>1. \A e \in Events : lin'[txn.lineage].rec[e] # Torn
      BY <1>2, <1>3, <1>7, RecordFields DEF Progress, Committing
    <2>2. txn.adoption # Nil => lin'[txn.adoptIn].rec[txn.adoption.ev] = txn.adoption
                                /\ lin'[txn.adoptIn].made
      BY <1>3, <1>6, <1>7 DEF Progress, Committing, Recorded
    <2>3. lin'[txn.lineage].made /\ lin'[txn.lineage].journal = Nil
      BY <1>3, <1>7 DEF Progress, Committing
    <2>4. ~(step' = "unbind") => ~txn.record.tomb /\ ~Renames(txn.record)
      BY <1>4, <1>7
    <2> QED BY <1>1, <1>4, <1>7, <2>1, <2>2, <2>3, <2>4
            DEF Progress, Committing, Recorded, Bound, Renames
  <1>8. CASE present = Nil /\ Put(intended) /\ step' = afterWrite
    <2>1. /\ CoreInv' /\ \A k \in Lineages : Safe(lin[k], lin'[k])
          /\ lin'[txn.lineage] = withRec(lin[txn.lineage], txn.record.ev, txn.record)
          /\ \A k \in Lineages : k # txn.lineage => lin'[k] = lin[k]
      BY <1>1, <1>5, <1>8, PutRecHolds
    <2>2. /\ lin'[txn.lineage].rec = [lin[txn.lineage].rec EXCEPT ![txn.record.ev] = txn.record]
          /\ lin'[txn.lineage].made = lin[txn.lineage].made
          /\ lin'[txn.lineage].next = lin[txn.lineage].next
          /\ lin'[txn.lineage].journal = lin[txn.lineage].journal
      <3>1. txn.record \in Record \cup {Nil, Torn}
        BY <1>2
      <3>2. lin'[txn.lineage].rec = [lin[txn.lineage].rec EXCEPT ![txn.record.ev] = txn.record]
        BY <1>2, <2>1 DEF withRec, Directory
      <3> QED BY <1>2, <2>1, <3>1, <3>2, RecReplaced
    <2>3. Progress(txn)'
      BY <1>2, <1>7, <1>8, <2>1, <2>2, DirFields
    <2>4. step' \in Committing
      BY <1>4, <1>8 DEF Committing
    <2>5. \A k \in Lineages : lin'[k].next = lin[k].next /\ lin'[k].journal = lin[k].journal
      BY <2>1, <2>2
    <2> QED BY <1>1, <1>3, <2>1, <2>3, <2>4, <2>5, CommitRest
  <1>9. CASE present = intended /\ step' = afterWrite /\ UNCHANGED <<bind, lin>>
    <2>1. lin[txn.lineage].rec[txn.record.ev] = txn.record
      BY <1>2, <1>5, <1>9 DEF present
    <2>2. Progress(txn)'
      BY <1>7, <1>9, <2>1
    <2>3. step' \in Committing
      BY <1>4, <1>9 DEF Committing
    <2> QED BY <1>1, <1>9, <2>2, <2>3, CommitSame
  <1>10. CASE Refuse
    BY <1>1, <1>10, RefuseHolds
  <1> QED BY <1>8, <1>9, <1>10, WriteCases

LEMMA WriteAdoptRecHolds ==
    ASSUME HistInd, WriteFile, step = "adoptRec"
    PROVE  HistInd' /\ \A k \in Lineages : Safe(lin[k], lin'[k])
  <1>1. step \in Committing /\ UNCHANGED <<doc, txn, job, preview, nextLin, nextEv, crashes>>
    BY WriteCases DEF Committing
  <1>2. /\ txn # Nil /\ txn \in Transaction /\ txn.adoption \in Record /\ txn.adoption # Nil
        /\ here = txn.adoptIn /\ event = txn.adoption /\ txn.adoptIn \in Lineages
        /\ lin[txn.adoptIn] \in Directory /\ txn.adoption.ev \in Events
    BY Writes, RecordFields
  <1>3. txn.lineage \in Lineages /\ Progress(txn) /\ TxnInv /\ crashes \in 0..MaxCrashes
    BY <1>2, TxnFields DEF HistInd, HistoryTypeOK
  <1>4. step' = afterWrite => step' = "snap"
    BY DEF afterWrite
  <1>5. intended = event
    BY DEF intended
  <1>6. ASSUME step' = "snap", lin'[txn.adoptIn].rec[txn.adoption.ev] = txn.adoption,
               \A k \in Lineages : /\ lin'[k].made = lin[k].made
                                   /\ lin'[k].journal = lin[k].journal
                                   /\ \A e \in Events : lin'[k].rec[e] \in {lin[k].rec[e], txn.adoption}
        PROVE  Progress(txn)'
    <2>1. \A e \in Events : lin'[txn.lineage].rec[e] # Torn
      BY <1>2, <1>3, <1>6, RecordFields DEF Progress, Committing
    <2>2. lin'[txn.lineage].made /\ lin'[txn.adoptIn].made /\ lin'[txn.lineage].journal = Nil
      BY <1>2, <1>3, <1>6 DEF Progress, Committing
    <2> QED BY <1>1, <1>2, <1>6, <2>1, <2>2 DEF Progress, Committing, Recorded, Bound
  <1>7. CASE present = Nil /\ Put(intended) /\ step' = afterWrite
    <2>1. /\ CoreInv' /\ \A k \in Lineages : Safe(lin[k], lin'[k])
          /\ lin'[txn.adoptIn] = withRec(lin[txn.adoptIn], txn.adoption.ev, txn.adoption)
          /\ \A k \in Lineages : k # txn.adoptIn => lin'[k] = lin[k]
      BY <1>1, <1>5, <1>7, PutAdoptRecHolds
    <2>2. /\ lin'[txn.adoptIn].rec = [lin[txn.adoptIn].rec EXCEPT ![txn.adoption.ev] = txn.adoption]
          /\ lin'[txn.adoptIn].made = lin[txn.adoptIn].made
          /\ lin'[txn.adoptIn].next = lin[txn.adoptIn].next
          /\ lin'[txn.adoptIn].journal = lin[txn.adoptIn].journal
      <3>1. txn.adoption \in Record \cup {Nil, Torn}
        BY <1>2
      <3>2. lin'[txn.adoptIn].rec = [lin[txn.adoptIn].rec EXCEPT ![txn.adoption.ev] = txn.adoption]
        BY <1>2, <2>1 DEF withRec, Directory
      <3> QED BY <1>2, <2>1, <3>1, <3>2, RecReplaced
    <2>3. /\ lin'[txn.adoptIn].rec[txn.adoption.ev] = txn.adoption
          /\ \A e \in Events : lin'[txn.adoptIn].rec[e] \in {lin[txn.adoptIn].rec[e], txn.adoption}
      BY <1>2, <2>2, DirFields
    <2>4. \A k \in Lineages : /\ lin'[k].made = lin[k].made
                              /\ lin'[k].journal = lin[k].journal
                              /\ lin'[k].next = lin[k].next
                              /\ \A e \in Events : lin'[k].rec[e] \in {lin[k].rec[e], txn.adoption}
      BY <2>1, <2>2, <2>3
    <2>5. Progress(txn)'
      BY <1>4, <1>6, <1>7, <2>3, <2>4
    <2>6. step' \in Committing
      BY <1>4, <1>7 DEF Committing
    <2> QED BY <1>1, <1>3, <2>1, <2>4, <2>5, <2>6, CommitRest
  <1>8. CASE present = intended /\ step' = afterWrite /\ UNCHANGED <<bind, lin>>
    <2>1. lin[txn.adoptIn].rec[txn.adoption.ev] = txn.adoption
      BY <1>2, <1>5, <1>8 DEF present
    <2>2. Progress(txn)'
      BY <1>4, <1>6, <1>8, <2>1
    <2>3. step' \in Committing
      BY <1>4, <1>8 DEF Committing
    <2> QED BY <1>1, <1>8, <2>2, <2>3, CommitSame
  <1>9. CASE Refuse
    BY <1>1, <1>9, RefuseHolds
  <1> QED BY <1>7, <1>8, <1>9, WriteCases

LEMMA WriteBindHolds ==
    ASSUME HistInd, WriteFile, step \in {"bind", "bindAdopted"}
    PROVE  HistInd' /\ \A k \in Lineages : Safe(lin[k], lin'[k])
  <1>1. step \in Committing /\ UNCHANGED <<doc, txn, job, preview, nextLin, nextEv, crashes>>
    BY WriteCases DEF Committing
  <1>2. /\ txn # Nil /\ txn \in Transaction /\ txn.record.pre \in Names /\ txn.record.post \in Names
        /\ Progress(txn) /\ TxnInv /\ crashes \in 0..MaxCrashes
        /\ bind \in [Names -> Lineages \cup {Nil, Torn}]
    BY <1>1, TxnFields, RecordFields DEF HistInd, HistoryTypeOK, LabelInv
  <1>3. /\ step = "bind" => bindingOf.name = txn.record.post /\ bindingOf.l = txn.lineage
        /\ step = "bindAdopted" => bindingOf.name = txn.record.pre /\ bindingOf.l = txn.adoptIn
    BY <1>2 DEF bindingOf, Progress, TxnInv, Adopted
  <1>4. intended = bindingOf.l
    BY DEF intended
  <1>5. step' = afterWrite => step' \in {"bindAdopted", "journal", "complete"}
            /\ (step' = "bindAdopted" => txn.adoptIn \notin {Nil, txn.lineage})
            /\ (step = "bind" /\ step' # "bindAdopted" => txn.adoptIn \in {Nil, txn.lineage})
            /\ (step' = "complete" => txn.prune = {})
            /\ (step = "bindAdopted" => step' # "bindAdopted")
    BY DEF afterWrite
  <1>6. /\ Documents(txn.record)
        /\ txn.adoptIn \notin {Nil, txn.lineage} => txn.record.source = txn.adoptIn
    BY <1>2 DEF TxnInv, Adopted
  <1>7. ASSUME step' = afterWrite, lin' = lin, bind'[bindingOf.name] = bindingOf.l,
               \A n \in Names : n # bindingOf.name => bind'[n] = bind[n]
        PROVE  Progress(txn)'
    <2>1. CASE step = "bind"
      <3>1. ~txn.record.tomb /\ (Renames(txn.record) => bind[txn.record.pre] = Nil)
        BY <1>2, <2>1 DEF Progress, Bound
      <3>2. bind'[txn.record.post] = txn.lineage
            /\ (Renames(txn.record) => bind'[txn.record.pre] = Nil)
        BY <1>2, <1>3, <1>7, <2>1, <3>1 DEF Renames
      <3> QED BY <1>1, <1>2, <1>5, <1>7, <2>1, <3>1, <3>2
              DEF Progress, Committing, Recorded, Bound, Renames
    <2>2. CASE step = "bindAdopted"
      <3>1. txn.adoptIn \notin {Nil, txn.lineage} /\ txn.record.source # Nil
        BY <1>2, <1>6, <2>2 DEF Progress
      <3>2. txn.record.pre # txn.record.post /\ ~txn.record.tomb /\ ~Renames(txn.record)
        BY <1>6, <3>1 DEF Documents, Renames
      <3>3. bind'[txn.record.pre] = txn.adoptIn /\ bind'[txn.record.post] = txn.lineage
        BY <1>2, <1>3, <1>7, <2>2, <3>2 DEF Progress, Bound
      <3> QED BY <1>1, <1>2, <1>5, <1>7, <2>2, <3>1, <3>2, <3>3
              DEF Progress, Committing, Recorded, Bound, Renames
    <2> QED BY <2>1, <2>2
  <1>8. CASE present = Nil /\ Put(intended) /\ step' = afterWrite
    <2>1. /\ CoreInv' /\ lin' = lin /\ bindingOf.name \in Names
          /\ bind' = [bind EXCEPT ![bindingOf.name] = bindingOf.l]
      BY <1>1, <1>4, <1>8, PutBindHolds
    <2>2. Progress(txn)'
      BY <1>2, <1>7, <1>8, <2>1
    <2>3. step' \in Committing
      BY <1>5, <1>8 DEF Committing
    <2>4. \A k \in Lineages : Safe(lin[k], lin'[k])
      BY <2>1, SafeSame DEF HistInd, HistoryTypeOK
    <2> QED BY <1>1, <1>2, <2>1, <2>2, <2>3, <2>4, CommitRest
  <1>9. CASE present = intended /\ step' = afterWrite /\ UNCHANGED <<bind, lin>>
    <2>1. bind[bindingOf.name] = bindingOf.l
      BY <1>4, <1>9 DEF present
    <2>2. Progress(txn)'
      BY <1>7, <1>9, <2>1
    <2>3. step' \in Committing
      BY <1>5, <1>9 DEF Committing
    <2> QED BY <1>1, <1>9, <2>2, <2>3, CommitSame
  <1>10. CASE Refuse
    BY <1>1, <1>10, RefuseHolds
  <1> QED BY <1>8, <1>9, <1>10, WriteCases

LEMMA WriteJournalHolds ==
    ASSUME HistInd, WriteFile, step = "journal"
    PROVE  HistInd' /\ \A k \in Lineages : Safe(lin[k], lin'[k])
  <1>1. step \in Committing /\ UNCHANGED <<doc, txn, job, preview, nextLin, nextEv, crashes>>
    BY WriteCases DEF Committing
  <1>2. /\ txn # Nil /\ txn \in Transaction /\ txn.lineage \in Lineages
        /\ txn.adoptIn \in Lineages \cup {Nil} /\ txn.prune \in SUBSET Events
        /\ Progress(txn) /\ TxnInv /\ crashes \in 0..MaxCrashes
        /\ lin[txn.lineage] \in Directory
    BY <1>1, TxnFields DEF HistInd, HistoryTypeOK, LabelInv
  <1>3. intended = txn.prune /\ present = lin[txn.lineage].journal
    BY DEF intended, present
  <1>4. step' = afterWrite => step' = "collect"
    BY DEF afterWrite
  <1>5. present = Nil
    BY <1>2, <1>3 DEF Progress, Committing
  <1>6. txn.prune # Nil
    BY <1>2, Distinct
  <1>7. Put(intended) /\ step' = "collect"
    BY <1>3, <1>4, <1>5, <1>6, WriteCases
  <1>8. /\ CoreInv' /\ \A k \in Lineages : Safe(lin[k], lin'[k])
        /\ lin'[txn.lineage] = withJournal(lin[txn.lineage], txn.prune)
        /\ \A k \in Lineages : k # txn.lineage => lin'[k] = lin[k]
        /\ bind' = bind
    BY <1>1, <1>3, <1>5, <1>7, PutJournalHolds
  <1>9. /\ lin'[txn.lineage].journal = txn.prune /\ lin'[txn.lineage].rec = lin[txn.lineage].rec
        /\ lin'[txn.lineage].made = lin[txn.lineage].made
        /\ lin'[txn.lineage].next = lin[txn.lineage].next
    <2>1. txn.prune \in (SUBSET Events) \cup {Nil, Torn}
      BY <1>2
    <2> QED BY <1>2, <1>8, <2>1, JournalReplaced
  <1>10. txn.adoption # Nil => txn.adoptIn \in Lineages
    BY <1>2 DEF TxnInv, Adopted
  <1>11. Progress(txn)'
    <2>1. /\ \A e \in Events : lin[txn.lineage].rec[e] # Torn
          /\ lin[txn.lineage].made
          /\ lin[txn.lineage].rec[txn.record.ev] = txn.record
      BY <1>1, <1>2 DEF Progress, Committing, Recorded
    <2>2. txn.adoption # Nil =>
            lin[txn.adoptIn].made /\ lin[txn.adoptIn].rec[txn.adoption.ev] = txn.adoption
      BY <1>1, <1>2 DEF Progress, Committing, Recorded
    <2>3. txn.adoption # Nil =>
            lin'[txn.adoptIn].made /\ lin'[txn.adoptIn].rec[txn.adoption.ev] = txn.adoption
      BY <1>8, <1>9, <1>10, <2>2
    <2>4. /\ txn.record.tomb \/ Renames(txn.record) => bind[txn.record.pre] = Nil
          /\ ~txn.record.tomb => bind[txn.record.post] = txn.lineage
          /\ txn.adoptIn \notin {Nil, txn.lineage} => bind[txn.record.pre] = txn.adoptIn
      BY <1>1, <1>2 DEF Progress, Bound
    <2> QED BY <1>1, <1>7, <1>8, <1>9, <2>1, <2>3, <2>4 DEF Progress, Committing, Recorded, Bound
  <1>12. \A k \in Lineages : lin'[k].next = lin[k].next
                             /\ (lin'[k].journal = lin[k].journal \/ k = txn.lineage)
    BY <1>8, <1>9
  <1>13. HistInd'
    BY <1>1, <1>2, <1>7, <1>8, <1>11, <1>12, CommitRest DEF Committing
  <1> QED BY <1>8, <1>13

LEMMA UnbindHolds ==
    ASSUME HistInd, Unbind
    PROVE  HistInd' /\ \A k \in Lineages : Safe(lin[k], lin'[k])
  <1>1. step \in Committing /\ step = "unbind" /\ lin' = lin
        /\ UNCHANGED <<doc, txn, job, preview, nextLin, nextEv, crashes>>
        /\ bind' = [bind EXCEPT ![txn.record.pre] = Nil]
    BY DEF Unbind, Committing
  <1>2. /\ txn # Nil /\ txn \in Transaction /\ txn.record.pre \in Names
        /\ Progress(txn) /\ TxnInv /\ crashes \in 0..MaxCrashes
        /\ bind \in [Names -> Lineages \cup {Nil, Torn}] /\ lin \in [Lineages -> Directory]
    BY <1>1, TxnFields, RecordFields DEF HistInd, HistoryTypeOK, LabelInv
  <1>3. txn.record.tomb \/ Renames(txn.record)
    BY <1>1, <1>2 DEF Progress
  <1>4. txn.record.source = Nil
    BY <1>2, <1>3 DEF TxnInv, Documents, Renames
  <1>5. txn.adoptIn \in {Nil, txn.lineage}
    BY <1>2, <1>4 DEF TxnInv, Adopted
  <1>6. LineageInv'
    BY <1>1 DEF HistInd, LineageInv
  <1>7. TxnInv'
    BY <1>1, <1>2, TxnKept
  <1>8. NameInv'
    <2>1. \A n \in Names : ~InTxn(n) => bind'[n] = bind[n]
      BY <1>1, <1>2, <1>4 DEF InTxn
    <2> QED BY <1>1, <1>2, <2>1, OthersSettled
  <1>9. bind' \in [Names -> Lineages \cup {Nil, Torn}]
    BY <1>1, <1>2
  <1>10. CoreInv'
    BY <1>1, <1>2, <1>6, <1>7, <1>8, <1>9 DEF CoreInv
  <1>11. step' \in {"bind", "journal", "complete"} /\ (step' = "bind" <=> ~txn.record.tomb)
         /\ (step' = "complete" => txn.prune = {})
    BY DEF Unbind
  <1>12. bind'[txn.record.pre] = Nil
    BY <1>1, <1>2
  <1>13. Progress(txn)'
    BY <1>1, <1>2, <1>5, <1>11, <1>12 DEF Progress, Committing, Recorded, Bound
  <1>14. \A k \in Lineages : Safe(lin[k], lin'[k])
    BY <1>1, <1>2, SafeSame
  <1>15. HistInd'
    BY <1>1, <1>2, <1>10, <1>11, <1>13, CommitRest DEF Committing
  <1> QED BY <1>14, <1>15

LEMMA CollectHolds ==
    ASSUME HistInd, Collect
    PROVE  HistInd' /\ \A k \in Lineages : Safe(lin[k], lin'[k])
  <1> DEFINE c == lin[txn.lineage]
  <1>1. step \in Committing /\ step = "collect" /\ bind' = bind
        /\ UNCHANGED <<doc, txn, job, preview, nextLin, nextEv, crashes>>
        /\ lin' = collected(txn.lineage)
    BY DEF Collect, Committing
  <1>2. /\ txn # Nil /\ txn \in Transaction /\ txn.lineage \in Lineages /\ txn.record \in Record
        /\ txn.adoptIn \in Lineages \cup {Nil} /\ txn.prune \in SUBSET Events
        /\ txn.adoption \in Record \cup {Nil}
        /\ Progress(txn) /\ TxnInv /\ crashes \in 0..MaxCrashes
        /\ lin \in [Lineages -> Directory] /\ c \in Directory /\ DirInv(c)
    BY <1>1, TxnFields DEF HistInd, HistoryTypeOK, LabelInv, LineageInv
  <1>3. c.journal = txn.prune /\ c.made /\ c.rec[txn.record.ev] = txn.record
        /\ c.journal \notin {Nil, Torn}
    BY <1>1, <1>2, Distinct DEF Progress, Committing, Recorded
  <1>4. PICK d \in Directory : lin' = [lin EXCEPT ![txn.lineage] = d] /\ Removal(c, d)
    BY <1>1, <1>2, <1>3, CollectedRemoves
  <1>5. Safe(c, d)
    BY <1>2, <1>3, <1>4, SafeRemoval
  <1>6. \A x \in Events : x >= nextEv => d.rec[x] = Nil
    BY <1>2, <1>4 DEF HistInd, LineageInv, Removal
  <1>7. /\ LineageInv' /\ lin' \in [Lineages -> Directory]
        /\ lin'[txn.lineage] = d /\ \A k \in Lineages : k # txn.lineage => lin'[k] = lin[k]
        /\ \A k \in Lineages : Safe(lin[k], lin'[k])
    BY <1>1, <1>2, <1>3, <1>4, <1>5, <1>6, OneChanged DEF Removal
  <1>8. Ordered(txn, c) /\ Adopted(txn)
    BY <1>2 DEF TxnInv
  <1>9. ASSUME NEW r \in Recs(c), r.ev \notin txn.prune PROVE r \in Recs(d)
    <2>1. r \in Record /\ r.ev \in Events /\ c.rec[r.ev] = r
      BY <1>2, RecsFiled DEF DirInv
    <2>2. d.rec[r.ev] = r
      BY <1>3, <1>4, <1>9, <2>1 DEF Removal
    <2> QED BY <1>4, <2>1, <2>2, RecsType, RecordFields
  <1>10. Recs(d) \in SUBSET Recs(c) /\ d.pins = c.pins /\ d.next = c.next
         /\ d.journal \in {Nil, txn.prune} /\ d.made
    BY <1>3, <1>4 DEF Removal
  <1>11. TxnInv'
    <2>1. Adopted(txn)'
      <3>1. txn' = txn /\ nextLin' = nextLin
        BY <1>1
      <3>2. own(txn) => Recs(lin'[txn.lineage]) \subseteq {txn.adoption, txn.record}
        BY <1>7, <1>8, <1>10 DEF Adopted
      <3>3. txn.adoptIn \notin {Nil, txn.lineage} => lin'[txn.adoptIn] = lin[txn.adoptIn]
        BY <1>2, <1>7
      <3> QED BY <1>8, <3>1, <3>2, <3>3 DEF Adopted, own
    <2>2. Ordered(txn, lin[txn.lineage])'
      <3>1. ASSUME ~own(txn), txn.record.seq > 1
            PROVE  \E r \in Recs(d) : r.seq = txn.record.seq - 1 /\ r.ev = txn.record.parent
        <4>1. PICK r \in Recs(c) : r.seq = txn.record.seq - 1 /\ r.ev = txn.record.parent
          BY <1>8, <3>1 DEF Ordered
        <4> QED BY <4>1, <1>8, <1>9, <3>1 DEF Ordered
      <3> QED BY <1>1, <1>7, <1>8, <1>10, <3>1 DEF Ordered, own
    <2>3. Bounded(txn, lin[txn.lineage])'
      <3>1. Kept(txn, Recs(d)) = Kept(txn, Recs(c))
        BY <1>9, <1>10 DEF Kept
      <3>2. txn' = txn /\ lin'[txn.lineage] = d
        BY <1>1, <1>7
      <3>3. Kept(txn, Recs(lin[txn.lineage]))' = Kept(txn, Recs(d))
        BY <3>2 DEF Kept, own
      <3>4. Bounded(txn, c)
        BY <1>2 DEF TxnInv
      <3> QED BY <1>10, <3>1, <3>2, <3>3, <3>4 DEF Bounded
    <2>4. Documents(txn.record)'
      BY <1>1, <1>2 DEF TxnInv, Documents, Renames
    <2> QED BY <1>1, <1>2, <1>7, <1>10, <2>1, <2>2, <2>3, <2>4 DEF TxnInv
  <1>12. NameInv'
    BY <1>1, <1>2, <1>7, OthersSettled
  <1>13. CoreInv'
    BY <1>1, <1>7, <1>11, <1>12 DEF CoreInv, HistInd, HistoryTypeOK
  <1>14. step' = IF d.journal = Nil THEN "complete" ELSE "collect"
    BY <1>7 DEF Collect
  <1>15. /\ \A e \in Events : d.rec[e] # Torn
         /\ d.rec[txn.record.ev] = txn.record
         /\ own(txn) => d.rec[txn.adoption.ev] = txn.adoption
    <2>1. \A e \in Events : d.rec[e] # Torn
      BY <1>1, <1>2, <1>4, Distinct DEF Removal, Progress, Committing
    <2>2. d.rec[txn.record.ev] = txn.record
      BY <1>2, <1>3, <1>4, <1>8, RecordFields DEF Removal, Ordered
    <2>3. ASSUME own(txn) PROVE d.rec[txn.adoption.ev] = txn.adoption
      <3>1. txn.adoption \in Record /\ txn.adoption.ev \in Events /\ txn.adoption.ev \notin txn.prune
        BY <1>2, <1>8, <2>3, RecordFields DEF own, Adopted, Ordered
      <3>2. c.rec[txn.adoption.ev] = txn.adoption
        BY <1>1, <1>2, <2>3 DEF own, Progress, Recorded
      <3> QED BY <1>3, <1>4, <3>1, <3>2 DEF Removal
    <2> QED BY <2>1, <2>2, <2>3
  <1>16. d.journal = Nil => \A r \in Recs(d) : r.ev \notin txn.prune
    <2>1. ASSUME d.journal = Nil, NEW r \in Recs(d) PROVE r.ev \notin txn.prune
      <3>1. r \in Recs(c) /\ \A e \in txn.prune : c.rec[e] = Nil
        BY <1>3, <1>4, <1>10, <2>1 DEF Removal
      <3> QED BY <1>2, <3>1, RecsFiled, RecordFields DEF DirInv
    <2> QED BY <2>1
  <1>17. txn.adoption # Nil => /\ txn.adoptIn \in Lineages
                               /\ lin'[txn.adoptIn].made
                               /\ lin'[txn.adoptIn].rec[txn.adoption.ev] = txn.adoption
    <2>1. ASSUME txn.adoption # Nil
          PROVE  /\ txn.adoptIn \in Lineages
                 /\ lin'[txn.adoptIn].made
                 /\ lin'[txn.adoptIn].rec[txn.adoption.ev] = txn.adoption
      <3>1. txn.adoptIn \in Lineages /\ lin[txn.adoptIn].made
            /\ lin[txn.adoptIn].rec[txn.adoption.ev] = txn.adoption
        BY <1>1, <1>2, <1>8, <2>1 DEF Adopted, Progress, Committing, Recorded
      <3> QED BY <1>7, <1>10, <1>15, <2>1, <3>1 DEF own
    <2> QED BY <2>1
  <1>18. Progress(txn)'
    BY <1>1, <1>2, <1>7, <1>10, <1>14, <1>15, <1>16, <1>17
       DEF Progress, Committing, Recorded, Bound
  <1>19. \A k \in Lineages : lin'[k].next = lin[k].next
                             /\ (lin'[k].journal = lin[k].journal \/ k = txn.lineage)
    BY <1>7, <1>10
  <1>20. step' \in Committing
    BY <1>14 DEF Committing
  <1>21. HistInd'
    BY <1>1, <1>2, <1>13, <1>18, <1>19, <1>20, CommitRest
  <1> QED BY <1>7, <1>21

-----------------------------------------------------------------------------
(* The end of a transaction, pins, prunes and recovery. *)

LEMMA CompleteHolds ==
    ASSUME HistInd, Complete
    PROVE  HistInd' /\ \A k \in Lineages : Safe(lin[k], lin'[k])
  <1> DEFINE t == txn
             d == lin[t.lineage]
  <1>1. /\ step = "complete" /\ step \in Committing \cap Recorded \cap Bound /\ step' = "idle" /\ txn' = Nil
        /\ UNCHANGED <<doc, bind, lin, job, preview, nextLin, nextEv, crashes>>
    BY DEF Complete, Committing, Recorded, Bound
  <1>2. /\ t # Nil /\ t \in Transaction /\ t.lineage \in Lineages /\ t.record \in Record
        /\ t.adoptIn \in Lineages \cup {Nil} /\ t.adoption \in Record \cup {Nil}
        /\ d \in Directory /\ DirInv(d) /\ lin \in [Lineages -> Directory]
    BY <1>1, TxnFields DEF HistInd, HistoryTypeOK, LabelInv, LineageInv
  <1>3. Adopted(t) /\ Ordered(t, d) /\ Bounded(t, d) /\ Documents(t.record)
    BY <1>1, <1>2 DEF HistInd, TxnInv
  <1>4. /\ \A e \in Events : d.rec[e] # Torn
        /\ d.journal = Nil /\ d.made /\ d.rec[t.record.ev] = t.record
        /\ \A r \in Recs(d) : r.ev \notin t.prune
        /\ t.adoption # Nil => /\ lin[t.adoptIn].made
                               /\ lin[t.adoptIn].rec[t.adoption.ev] = t.adoption
    BY <1>1, <1>2 DEF HistInd, Progress
  <1>5. /\ t.record.tomb \/ Renames(t.record) => bind[t.record.pre] = Nil
        /\ ~t.record.tomb => bind[t.record.post] = t.lineage
        /\ t.adoptIn \notin {Nil, t.lineage} => bind[t.record.pre] = t.adoptIn
    BY <1>1, <1>2 DEF HistInd, Progress
  <1>6. t.record \in Recs(d) /\ Newest(Recs(d), t.record)
    <2>1. t.record \in Recs(d)
      BY <1>2, <1>4, RecsType, RecordFields
    <2>2. \A s \in Recs(d) : s.seq <= t.record.seq
      BY <1>2, <1>3, RecsType, RecordFields DEF Ordered
    <2> QED BY <2>1, <2>2 DEF Newest
  <1>7. Kept(t, Recs(d)) = Recs(d)
    <2>1. own(t) => t.adoption \in Recs(d)
      BY <1>2, <1>4, RecsType, RecordFields DEF own
    <2> QED BY <1>4, <1>6, <2>1 DEF Kept
  <1>8. Cardinality(Recs(d)) <= MaxRetained
    BY <1>3, <1>7 DEF Bounded
  <1>9. 1 <= MaxRetained
    <2>1. IsFiniteSet(Recs(d))
      BY <1>2, RecsFinite, RecsType DEF DirInv, Chained
    <2>2. Cardinality({t.record}) <= Cardinality(Recs(d))
      BY <1>6, <2>1, FS_Subset
    <2>3. Cardinality({t.record}) = 1
      BY FS_Singleton
    <2>4. Cardinality(Recs(d)) \in Nat
      BY <2>1, FS_CardinalityType
    <2> HIDE DEF d, t
    <2> QED BY <1>8, <2>2, <2>3, <2>4, Bounds
  <1>10. ~t.record.tomb => Named(t.record.post)
    BY <1>2, <1>4, <1>5, <1>6, <1>8 DEF Named, DirSound
  <1>11. t.adoptIn \notin {Nil, t.lineage} => Named(t.record.pre)
    <2>1. SUFFICES ASSUME t.adoptIn \notin {Nil, t.lineage} PROVE Named(t.record.pre)
      OBVIOUS
    <2> DEFINE a == lin[t.adoptIn]
    <2>2. /\ t.adoptIn \in Lineages /\ a \in Directory /\ t.adoption # Nil /\ t.adoption \in Record
          /\ a.made /\ a.rec[t.adoption.ev] = t.adoption /\ bind[t.record.pre] = t.adoptIn
          /\ ~t.adoption.tomb /\ t.adoption.post = t.record.pre
          /\ \A e \in Events : e # t.adoption.ev => a.rec[e] = Nil
      BY <1>2, <1>3, <1>4, <1>5, <2>1 DEF Adopted
    <2>3. t.adoption.ev \in Events /\ t.adoption \notin {Nil, Torn} /\ t.adoption.seq \in Int
      BY <2>2, RecordFields
    <2>4. Recs(a) = {t.adoption}
      BY <2>2, <2>3 DEF Recs
    <2>5. \A e \in Events : a.rec[e] # Torn
      BY <2>2, <2>3, Distinct
    <2>6. Cardinality(Recs(a)) <= MaxRetained
      BY <1>9, <2>4, FS_Singleton
    <2>7. Newest(Recs(a), t.adoption)
      BY <2>3, <2>4 DEF Newest
    <2> QED BY <2>2, <2>4, <2>5, <2>6, <2>7 DEF Named, DirSound
  <1>12. ASSUME NEW n \in Names PROVE Settled(n)
    <2>1. CASE ~InTxn(n)
      BY <2>1 DEF HistInd, NameInv
    <2>2. CASE n = t.record.post
      BY <1>3, <1>5, <1>10, <2>2 DEF Settled, Documents
    <2>3. CASE n # t.record.post /\ n = t.record.pre /\ t.record.source = Nil
      BY <1>3, <1>5, <2>3 DEF Settled, Documents, Renames
    <2>4. CASE n # t.record.post /\ n = t.record.pre /\ t.record.source # Nil /\ t.adoption # Nil
      <3>1. t.adoptIn \notin {Nil, t.lineage}
        BY <1>3, <2>4 DEF Adopted, own
      <3> QED BY <1>3, <1>11, <2>4, <3>1 DEF Settled, Documents
    <2> QED BY <2>1, <2>2, <2>3, <2>4 DEF InTxn
  <1>13. NameInv'
    BY <1>1, <1>12 DEF NameInv, InTxn, Settled, Named
  <1>14. HistoryTypeOK'
    BY <1>1 DEF HistInd, HistoryTypeOK, Labels
  <1>15. LineageInv' /\ TxnInv' /\ LabelInv' /\ JobInv'
    BY <1>1 DEF HistInd, LineageInv, TxnInv, LabelInv, JobInv, Committing
  <1>16. TidyInv'
    BY <1>1, <1>4 DEF HistInd, TidyInv, Recovering
  <1>17. WholeInv'
    BY <1>1, <1>4, Distinct DEF HistInd, WholeInv
  <1>18. \A k \in Lineages : Safe(lin[k], lin'[k])
    BY <1>1, <1>2, SafeSame
  <1> QED BY <1>1, <1>13, <1>14, <1>15, <1>16, <1>17, <1>18 DEF HistInd

\* A pin or prune request writes its file.
LEMMA WritePinsHolds ==
    ASSUME HistInd, WriteFile, step = "pinWrite"
    PROVE  HistInd' /\ \A k \in Lineages : Safe(lin[k], lin'[k])
  <1>1. UNCHANGED <<doc, txn, job, preview, nextLin, nextEv, crashes>>
    BY WriteCases
  <1>2. /\ txn = Nil /\ job \in Job /\ job # Nil /\ job.kind = "pin" /\ job.l \in Lineages
        /\ job.pins \in SUBSET Events
        /\ lin[job.l].made /\ lin[job.l].next = Nil /\ lin[job.l].journal = Nil
        /\ lin[job.l] \in Directory
    BY JobFields DEF HistInd, HistoryTypeOK, LabelInv, JobInv
  <1>3. intended = job.pins /\ present = Nil /\ afterWrite = "pinRename"
    BY DEF intended, present, afterWrite
  <1>4. Put(job.pins) /\ step' = "pinRename"
    BY <1>2, <1>3, WriteCases, Distinct
  <1>5. /\ CoreInv' /\ \A k \in Lineages : Safe(lin[k], lin'[k])
        /\ lin'[job.l] = withNext(lin[job.l], job.pins)
        /\ \A k \in Lineages : k # job.l => lin'[k] = lin[k]
        /\ bind' = bind
    BY <1>1, <1>4, PutNextHolds
  <1>6. lin'[job.l].next = job.pins /\ lin'[job.l].made /\ lin'[job.l].journal = Nil
    <2>1. job.pins \in (SUBSET Events) \cup {Nil, Torn}
      BY <1>2
    <2> QED BY <1>2, <1>5, <2>1, NextReplaced
  <1>7. HistoryTypeOK' /\ LineageInv' /\ TxnInv' /\ NameInv'
    BY <1>1, <1>4, <1>5 DEF CoreInv, HistInd, HistoryTypeOK, Labels
  <1>8. LabelInv' /\ JobInv'
    BY <1>1, <1>2, <1>4, <1>6 DEF LabelInv, JobInv, Committing
  <1>9. TidyInv'
    BY <1>1, <1>2, <1>4, <1>5, <1>6 DEF HistInd, TidyInv, Recovering
  <1>10. WholeInv'
    BY <1>1, <1>2, <1>5, <1>6, Distinct DEF HistInd, WholeInv
  <1> QED BY <1>1, <1>2, <1>5, <1>7, <1>8, <1>9, <1>10 DEF HistInd

LEMMA WritePruneHolds ==
    ASSUME HistInd, WriteFile, step = "pruneJournal"
    PROVE  HistInd' /\ \A k \in Lineages : Safe(lin[k], lin'[k])
  <1>1. UNCHANGED <<doc, txn, job, preview, nextLin, nextEv, crashes>>
    BY WriteCases
  <1>2. /\ txn = Nil /\ job \in Job /\ job # Nil /\ job.kind = "prune" /\ job.l \in Lineages
        /\ job.pins \in SUBSET Events
        /\ lin[job.l].made /\ lin[job.l].next = Nil /\ lin[job.l].journal = Nil
        /\ lin[job.l] \in Directory
    BY JobFields DEF HistInd, HistoryTypeOK, LabelInv, JobInv
  <1>3. intended = job.pins /\ present = Nil /\ afterWrite = "pruneCollect"
    BY DEF intended, present, afterWrite
  <1>4. Put(job.pins) /\ step' = "pruneCollect"
    BY <1>2, <1>3, WriteCases, Distinct
  <1>5. /\ CoreInv' /\ \A k \in Lineages : Safe(lin[k], lin'[k])
        /\ lin'[job.l] = withJournal(lin[job.l], job.pins)
        /\ \A k \in Lineages : k # job.l => lin'[k] = lin[k]
        /\ bind' = bind
    BY <1>1, <1>4, PutPruneHolds
  <1>6. lin'[job.l].journal = job.pins /\ lin'[job.l].made /\ lin'[job.l].next = Nil
    <2>1. job.pins \in (SUBSET Events) \cup {Nil, Torn}
      BY <1>2
    <2> QED BY <1>2, <1>5, <2>1, JournalReplaced
  <1>7. HistoryTypeOK' /\ LineageInv' /\ TxnInv' /\ NameInv'
    BY <1>1, <1>4, <1>5 DEF CoreInv, HistInd, HistoryTypeOK, Labels
  <1>8. LabelInv' /\ JobInv'
    BY <1>1, <1>2, <1>4, <1>6 DEF LabelInv, JobInv, Committing
  <1>9. TidyInv'
    BY <1>1, <1>2, <1>4, <1>5, <1>6 DEF HistInd, TidyInv, Recovering
  <1>10. WholeInv'
    BY <1>1, <1>2, <1>5, <1>6, Distinct DEF HistInd, WholeInv
  <1> QED BY <1>1, <1>2, <1>5, <1>7, <1>8, <1>9, <1>10 DEF HistInd

LEMMA WriteFileHolds ==
    ASSUME HistInd, WriteFile
    PROVE  HistInd' /\ \A k \in Lineages : Safe(lin[k], lin'[k])
  <1>1. step \in Writing
    BY WriteCases
  <1> QED BY <1>1, WriteSnapHolds, WriteRecHolds, WriteAdoptRecHolds, WriteBindHolds,
             WriteJournalHolds, WritePinsHolds, WritePruneHolds DEF Writing

LEMMA RecoverHolds ==
    ASSUME HistInd, Recover
    PROVE  HistInd' /\ \A k \in Lineages : Safe(lin[k], lin'[k])
  <1>1. /\ step = "down" /\ UNCHANGED <<doc, bind, lin, txn, job, preview, nextLin, nextEv, crashes>>
        /\ step' = IF txn # Nil THEN "attach" ELSE "maintain"
    BY DEF Recover
  <1>2. CoreInv' /\ \A k \in Lineages : Safe(lin[k], lin'[k])
    BY <1>1, CoreSame
  <1>3. HistoryTypeOK' /\ LabelInv' /\ JobInv'
    BY <1>1 DEF HistInd, HistoryTypeOK, Labels, LabelInv, JobInv, Committing
  <1>4. txn' # Nil => Progress(txn)'
    BY <1>1, ProgressDown
  <1>5. TidyInv' /\ WholeInv'
    BY <1>1 DEF HistInd, TidyInv, WholeInv, Recovering
  <1> QED BY <1>2, <1>3, <1>4, <1>5 DEF HistInd, CoreInv

LEMMA PinRenameHolds ==
    ASSUME HistInd, PinRename
    PROVE  HistInd' /\ \A k \in Lineages : Safe(lin[k], lin'[k])
  <1> DEFINE c == lin[job.l]
             d == [c EXCEPT !.pins = job.pins, !.next = Nil]
  <1>1. /\ step = "pinRename" /\ step' = "idle" /\ job' = Nil
        /\ UNCHANGED <<doc, bind, txn, preview, nextLin, nextEv, crashes>>
        /\ lin' = [lin EXCEPT ![job.l].pins = lin[job.l].next, ![job.l].next = Nil]
    BY DEF PinRename
  <1>2. /\ txn = Nil /\ job \in Job /\ job.l \in Lineages /\ job.pins \in SUBSET Events
        /\ c.made /\ c.next = job.pins /\ c.journal = Nil
        /\ c \in Directory /\ lin \in [Lineages -> Directory]
    BY <1>1, JobFields DEF HistInd, HistoryTypeOK, LabelInv, JobInv
  <1>3. lin' = [lin EXCEPT ![job.l] = d]
    BY <1>1, <1>2
  <1>4. /\ d \in Directory /\ d.made /\ d.rec = c.rec /\ d.snap = c.snap /\ d.next = Nil
        /\ d.journal = Nil
    <2>1. d \in Directory
      BY <1>2, DirUpdates
    <2> QED BY <1>2, <2>1 DEF Directory
  <1> HIDE DEF d
  <1>5. /\ CoreInv' /\ lin'[job.l] = d
        /\ \A k \in Lineages : k # job.l => lin'[k] = lin[k]
        /\ \A k \in Lineages : Safe(lin[k], lin'[k])
    BY <1>1, <1>2, <1>3, <1>4, Serviced
  <1>6. HistoryTypeOK' /\ LineageInv' /\ TxnInv' /\ NameInv' /\ LabelInv' /\ JobInv'
    BY <1>1, <1>2, <1>5 DEF CoreInv, HistInd, HistoryTypeOK, Labels, LabelInv, JobInv, Committing
  <1>7. TidyInv'
    BY <1>1, <1>2, <1>4, <1>5 DEF HistInd, TidyInv, Recovering
  <1>8. WholeInv'
    BY <1>1, <1>2, <1>4, <1>5, Distinct DEF HistInd, WholeInv
  <1> QED BY <1>1, <1>2, <1>5, <1>6, <1>7, <1>8 DEF HistInd

\* A readable lineage.
LEMMA ReadableIs ==
    ASSUME HistInd, NEW l \in Lineages, readable(l)
    PROVE  /\ lin[l] \in Directory /\ Filed(lin[l]) /\ Chained(lin[l]) /\ lin[l].made
           /\ lin[l].next = Nil /\ lin[l].journal = Nil /\ records(l) = Recs(lin[l])
           /\ DirSound(lin[l])
  <1>1. lin[l] \in Directory /\ DirInv(lin[l]) /\ records(l) = Recs(lin[l])
    BY RecordsAre DEF HistInd, HistoryTypeOK, LineageInv
  <1> QED BY <1>1 DEF readable, DirInv, DirSound

LEMMA SetPinHolds ==
    ASSUME HistInd, NEW l \in Lineages, NEW e \in Events, NEW pin \in BOOLEAN,
           SetHistoryPin(l, e, pin)
    PROVE  HistInd' /\ \A k \in Lineages : Safe(lin[k], lin'[k])
  <1>1. /\ step = "idle" /\ step' = "pinWrite" /\ readable(l)
        /\ UNCHANGED <<doc, bind, lin, txn, preview, nextLin, nextEv, crashes>>
    BY DEF SetHistoryPin
  <1>2. CoreInv' /\ \A k \in Lineages : Safe(lin[k], lin'[k])
    BY <1>1, CoreSame
  <1>3. lin[l].pins \in SUBSET Events
    BY <1>1, ReadableIs, DirFields
  <1>4. PICK P : P = IF pin THEN lin[l].pins \cup {e} ELSE lin[l].pins \ {e}
    OBVIOUS
  <1>5. P \in SUBSET Events /\ job' = [kind |-> "pin", l |-> l, pins |-> P]
    BY <1>3, <1>4 DEF SetHistoryPin
  <1>6. job' \in Job /\ job'.l = l /\ job'.kind = "pin" /\ job' # Nil
    <2>1. job' \in Job
      BY <1>5 DEF Job
    <2> QED BY <1>5, <2>1, JobFields
  <1>7. txn = Nil
    BY <1>1 DEF HistInd, LabelInv
  <1>8. HistoryTypeOK'
    BY <1>1, <1>6 DEF HistInd, HistoryTypeOK, Labels
  <1>9. LabelInv'
    BY <1>1, <1>6, <1>7 DEF LabelInv, Committing
  <1>10. JobInv'
    BY <1>1, <1>6, ReadableIs DEF JobInv
  <1>11. TidyInv' /\ WholeInv'
    BY <1>1 DEF HistInd, TidyInv, WholeInv, Recovering
  <1> QED BY <1>1, <1>2, <1>7, <1>8, <1>9, <1>10, <1>11 DEF HistInd, CoreInv

LEMMA PreviewHolds ==
    ASSUME HistInd, NEW l \in Lineages, NEW keep \in Keeps, PreviewPrune(l, keep)
    PROVE  HistInd' /\ \A k \in Lineages : Safe(lin[k], lin'[k])
  <1>1. /\ readable(l)
        /\ UNCHANGED <<doc, bind, lin, txn, job, step, nextLin, nextEv, crashes>>
        /\ preview' = [l |-> l, keep |-> keep,
                       ids |-> pruneCandidates(records(l), lin[l].pins, keep)]
    BY DEF PreviewPrune
  <1>2. CoreInv' /\ \A k \in Lineages : Safe(lin[k], lin'[k])
    BY <1>1, CoreSame
  <1>3. pruneCandidates(records(l), lin[l].pins, keep) \in SUBSET Events
    <2>1. keep \in 1..100
      BY Bounds
    <2> QED BY <1>1, <2>1, ReadableIs, CandidatesSpared
  <1>4. preview' \in Preview
    BY <1>1, <1>3 DEF Preview
  <1>5. HistoryTypeOK'
    BY <1>1, <1>4 DEF HistInd, HistoryTypeOK
  <1>6. LabelInv' /\ JobInv'
    BY <1>1 DEF HistInd, LabelInv, JobInv, Spared
  <1>7. txn' # Nil => Progress(txn)'
    BY <1>1 DEF HistInd, Progress
  <1>8. TidyInv' /\ WholeInv'
    BY <1>1 DEF HistInd, TidyInv, WholeInv, Recovering
  <1> QED BY <1>2, <1>5, <1>6, <1>7, <1>8 DEF HistInd, CoreInv

LEMMA PruneHolds ==
    ASSUME HistInd, Prune
    PROVE  HistInd' /\ \A k \in Lineages : Safe(lin[k], lin'[k])
  <1>1. /\ step = "idle" /\ step' = "pruneJournal" /\ preview' = Nil /\ preview # Nil
        /\ UNCHANGED <<doc, bind, lin, txn, nextLin, nextEv, crashes>>
        /\ job' = [kind |-> "prune", l |-> preview.l, pins |-> preview.ids]
        /\ readable(preview.l)
        /\ preview.ids = pruneCandidates(records(preview.l), lin[preview.l].pins, preview.keep)
    BY DEF Prune, previewHolds
  <1>2. CoreInv' /\ \A k \in Lineages : Safe(lin[k], lin'[k])
    BY <1>1, CoreSame
  <1>3. preview.l \in Lineages /\ preview.keep \in 1..100 /\ preview.ids \in SUBSET Events
    BY <1>1, Bounds DEF HistInd, HistoryTypeOK, Preview
  <1>4. Spared(lin[preview.l], preview.ids)
    BY <1>1, <1>3, ReadableIs, CandidatesSpared
  <1>5. job' \in Job /\ job'.l = preview.l /\ job'.pins = preview.ids /\ job'.kind = "prune"
        /\ job' # Nil
    <2>1. job' \in Job
      BY <1>1, <1>3 DEF Job
    <2> QED BY <1>1, <2>1, JobFields
  <1>6. txn = Nil
    BY <1>1 DEF HistInd, LabelInv
  <1>7. HistoryTypeOK'
    BY <1>1, <1>5 DEF HistInd, HistoryTypeOK, Labels
  <1>8. LabelInv'
    BY <1>1, <1>5, <1>6 DEF LabelInv, Committing
  <1>9. JobInv'
    BY <1>1, <1>3, <1>4, <1>5, ReadableIs DEF JobInv
  <1>10. TidyInv' /\ WholeInv'
    BY <1>1 DEF HistInd, TidyInv, WholeInv, Recovering
  <1> QED BY <1>1, <1>2, <1>6, <1>7, <1>8, <1>9, <1>10 DEF HistInd, CoreInv

\* A prune of a directory outside a transaction.
LEMMA Collecting ==
    ASSUME HistInd, txn = Nil, NEW l \in Lineages, lin[l].journal \notin {Nil, Torn},
           lin' = collected(l), UNCHANGED <<doc, bind, txn, nextLin, nextEv>>
    PROVE  /\ CoreInv' /\ \A k \in Lineages : Safe(lin[k], lin'[k])
           /\ lin'[l].made /\ lin'[l].next = lin[l].next
           /\ lin'[l].journal \in {Nil, lin[l].journal}
           /\ \A k \in Lineages : k # l => lin'[k] = lin[k]
  <1>1. lin \in [Lineages -> Directory] /\ lin[l] \in Directory /\ DirInv(lin[l])
    BY DEF HistInd, HistoryTypeOK, LineageInv
  <1>2. lin[l].made
    BY <1>1, Distinct DEF DirInv, Unused
  <1>3. PICK d \in Directory : lin' = [lin EXCEPT ![l] = d] /\ Removal(lin[l], d)
    BY <1>1, <1>2, CollectedRemoves
  <1>4. Safe(lin[l], d)
    BY <1>1, <1>3, SafeRemoval
  <1>5. \A x \in Events : x >= nextEv => d.rec[x] = Nil
    BY <1>3 DEF HistInd, LineageInv, Removal
  <1>6. /\ LineageInv' /\ lin' \in [Lineages -> Directory]
        /\ lin'[l] = d /\ \A k \in Lineages : k # l => lin'[k] = lin[k]
        /\ \A k \in Lineages : Safe(lin[k], lin'[k])
    BY <1>2, <1>3, <1>4, <1>5, OneChanged DEF Removal
  <1>7. \A e \in Events : d.rec[e] = Torn => lin[l].rec[e] = Torn
    BY <1>3, Distinct DEF Removal
  <1>8. NameInv'
    BY <1>3, <1>7, NamesServiced DEF Removal
  <1>9. CoreInv'
    BY <1>6, <1>8 DEF CoreInv, HistInd, HistoryTypeOK, TxnInv
  <1> QED BY <1>3, <1>6, <1>9 DEF Removal

LEMMA PruneCollectHolds ==
    ASSUME HistInd, PruneCollect
    PROVE  HistInd' /\ \A k \in Lineages : Safe(lin[k], lin'[k])
  <1>1. /\ step = "pruneCollect" /\ lin' = collected(job.l)
        /\ UNCHANGED <<doc, bind, txn, preview, nextLin, nextEv, crashes>>
        /\ \/ lin'[job.l].journal = Nil /\ step' = "idle" /\ job' = Nil
           \/ lin'[job.l].journal # Nil /\ step' = step /\ job' = job
    BY DEF PruneCollect
  <1>2. /\ txn = Nil /\ job \in Job /\ job.l \in Lineages /\ job.kind = "prune" /\ job # Nil
        /\ lin[job.l].journal = job.pins /\ job.pins \in SUBSET Events
        /\ lin[job.l].journal \notin {Nil, Torn}
    BY <1>1, JobFields, Distinct DEF HistInd, HistoryTypeOK, LabelInv, JobInv
  <1>3. /\ CoreInv' /\ \A k \in Lineages : Safe(lin[k], lin'[k])
        /\ lin'[job.l].made /\ lin'[job.l].next = lin[job.l].next
        /\ lin'[job.l].journal \in {Nil, lin[job.l].journal}
        /\ \A k \in Lineages : k # job.l => lin'[k] = lin[k]
    BY <1>1, <1>2, Collecting
  <1>4. HistoryTypeOK' /\ LabelInv' /\ JobInv'
    BY <1>1, <1>2, <1>3
       DEF HistInd, CoreInv, HistoryTypeOK, Labels, LabelInv, JobInv, Committing
  <1>5. TidyInv'
    BY <1>1, <1>2, <1>3 DEF HistInd, TidyInv, Recovering
  <1>6. WholeInv'
    BY <1>1, <1>2, <1>3, Distinct DEF HistInd, WholeInv
  <1> QED BY <1>1, <1>2, <1>3, <1>4, <1>5, <1>6 DEF HistInd, CoreInv

LEMMA MaintainHolds ==
    ASSUME HistInd, Maintain
    PROVE  HistInd' /\ \A k \in Lineages : Safe(lin[k], lin'[k])
  <1>1. step = "maintain" /\ UNCHANGED <<doc, bind, txn, job, preview, nextLin, nextEv, crashes>>
    BY DEF Maintain
  <1>2. txn = Nil /\ lin \in [Lineages -> Directory] /\ \A l \in Lineages : DirInv(lin[l])
    BY <1>1 DEF HistInd, HistoryTypeOK, LabelInv, LineageInv
  <1>3. CASE \E l \in Lineages : serviceable(l)
    <2>1. PICK l \in Lineages : serviceable(l)
                      /\ lin' = IF lin[l].next # Nil
                                THEN [lin EXCEPT ![l].pins = lin[l].next, ![l].next = Nil]
                                ELSE collected(l)
      BY <1>3 DEF Maintain
    <2>2. step' = step
      BY <1>3 DEF Maintain
    <2>3. /\ CoreInv' /\ \A k \in Lineages : Safe(lin[k], lin'[k])
          /\ lin'[l].next \in {Nil, lin[l].next} /\ lin'[l].journal \in {Nil, lin[l].journal}
          /\ \A k \in Lineages : k # l => lin'[k] = lin[k]
      <3>1. CASE lin[l].next # Nil
        <4> DEFINE d == [lin[l] EXCEPT !.pins = lin[l].next, !.next = Nil]
        <4>1. lin[l].made /\ lin[l].next \in SUBSET Events /\ lin[l] \in Directory
          BY <1>2, <2>1, <3>1, DirFields DEF serviceable
        <4>2. lin[l].journal \in {Nil, Torn}
          BY <1>2, <3>1 DEF DirInv
        <4>3. lin' = [lin EXCEPT ![l] = d]
          BY <1>2, <2>1, <3>1
        <4>4. /\ d \in Directory /\ d.made /\ d.rec = lin[l].rec /\ d.snap = lin[l].snap
              /\ d.next = Nil /\ d.journal = lin[l].journal
          <5>1. d \in Directory
            BY <4>1, DirUpdates
          <5> QED BY <4>1, <5>1 DEF Directory
        <4> HIDE DEF d
        <4>5. /\ CoreInv' /\ lin'[l] = d
              /\ \A k \in Lineages : k # l => lin'[k] = lin[k]
              /\ \A k \in Lineages : Safe(lin[k], lin'[k])
          BY <1>1, <1>2, <4>1, <4>2, <4>3, <4>4, Serviced
        <4> QED BY <4>4, <4>5
      <3>2. CASE lin[l].next = Nil
        <4>1. lin[l].journal \notin {Nil, Torn} /\ lin' = collected(l)
          BY <2>1, <3>2 DEF serviceable
        <4> QED BY <1>1, <1>2, <4>1, Collecting
      <3> QED BY <3>1, <3>2
    <2>4. HistoryTypeOK' /\ LabelInv' /\ JobInv'
      BY <1>1, <1>2, <2>2, <2>3
         DEF HistInd, CoreInv, HistoryTypeOK, LabelInv, JobInv, Committing
    <2>5. TidyInv'
      BY <1>1, <1>2, <2>2 DEF TidyInv, Recovering
    <2>6. WholeInv'
      BY <1>1, <1>2, <2>3, Distinct DEF HistInd, WholeInv
    <2> QED BY <1>1, <1>2, <2>3, <2>4, <2>5, <2>6 DEF HistInd, CoreInv
  <1>4. CASE ~ \E l \in Lineages : serviceable(l)
    <2>1. step' = "idle" /\ lin' = lin
      BY <1>4 DEF Maintain
    <2>2. CoreInv' /\ \A k \in Lineages : Safe(lin[k], lin'[k])
      BY <1>1, <2>1, CoreSame
    <2>3. HistoryTypeOK' /\ LabelInv' /\ JobInv'
      BY <1>1, <1>2, <2>1
         DEF HistInd, HistoryTypeOK, Labels, LabelInv, JobInv, Committing
    <2>4. ASSUME NEW l \in Lineages
          PROVE  lin[l].next \in {Nil, Torn} /\ lin[l].journal \in {Nil, Torn}
      <3>1. lin[l].made \/ (lin[l].next = Nil /\ lin[l].journal = Nil)
        BY <1>2 DEF DirInv, Unused
      <3>2. lin[l].journal \notin {Nil, Torn} => lin[l].next = Nil
        BY <1>2 DEF DirInv
      <3> QED BY <1>4, <3>1, <3>2, Distinct DEF serviceable
    <2>5. TidyInv'
      BY <2>1, <2>4 DEF TidyInv
    <2>6. WholeInv'
      BY <1>1, <2>1 DEF HistInd, WholeInv
    <2> QED BY <1>1, <1>2, <2>2, <2>3, <2>5, <2>6 DEF HistInd, CoreInv
  <1> QED BY <1>3, <1>4

\* A death, between two steps or in the middle of a file.
LEMMA CrashHolds ==
    ASSUME HistInd, Crash
    PROVE  HistInd' /\ \A k \in Lineages : Safe(lin[k], lin'[k])
  <1>1. /\ crashes < MaxCrashes /\ crashes' = crashes + 1 /\ step' = "down" /\ job' = Nil
        /\ UNCHANGED <<doc, txn, preview, nextLin, nextEv>> /\ step \notin {"idle", "down"}
        /\ \/ UNCHANGED <<bind, lin>>
           \/ step \in Cuts /\ step \in Writing /\ present = Nil /\ Put(Torn)
    BY CutsAssumption DEF Crash
  <1>2. crashes' \in 0..MaxCrashes
    BY <1>1, Bounds DEF HistInd, HistoryTypeOK
  <1>3. Progress(txn)'
    BY <1>1, ProgressDown
  <1>4. lin \in [Lineages -> Directory]
    BY DEF HistInd, HistoryTypeOK
  <1>5. CASE step \in Committing
    <2>1. SUFFICES CoreInv' /\ (\A k \in Lineages : Safe(lin[k], lin'[k]))
                   /\ \A k \in Lineages : lin'[k].next = lin[k].next
                                          /\ (lin'[k].journal = lin[k].journal \/ k = txn.lineage)
      BY <1>1, <1>2, <1>3, <1>5, CommitRest
    <2>2. CASE UNCHANGED <<bind, lin>>
      BY <1>1, <2>2, CoreSame
    <2>3. CASE step \in {"adoptSnap", "snap"} /\ present = Nil /\ Put(Torn)
      <3>1. /\ CoreInv' /\ \A k \in Lineages : Safe(lin[k], lin'[k])
            /\ lin'[here] = withSnap(lin[here], event.ev, Torn)
            /\ \A k \in Lineages : k # here => lin'[k] = lin[k]
        BY <1>1, <2>3, PutSnapHolds
      <3>2. here \in Lineages /\ event.ev \in Events /\ lin[here] \in Directory
        BY <2>3, Writes
      <3>3. Torn \in {Nil, Torn, Whole}
        OBVIOUS
      <3>4. lin'[here].next = lin[here].next /\ lin'[here].journal = lin[here].journal
        BY <3>1, <3>2, <3>3, SnapReplaced
      <3> QED BY <3>1, <3>4
    <2>4. CASE step \in {"adoptRec", "rec"} /\ present = Nil /\ Put(Torn)
      BY <1>1, <2>4, CutRecHolds
    <2>5. CASE step \in {"bind", "bindAdopted"} /\ present = Nil /\ Put(Torn)
      <3>1. Torn \in {bindingOf.l, Torn}
        OBVIOUS
      <3>2. CoreInv' /\ lin' = lin
        BY <1>1, <2>5, <3>1, PutBindHolds
      <3> QED BY <1>4, <3>2, SafeSame
    <2>6. CASE step = "journal" /\ present = Nil /\ Put(Torn)
      <3>1. Torn \in {txn.prune, Torn}
        OBVIOUS
      <3>2. /\ CoreInv' /\ \A k \in Lineages : Safe(lin[k], lin'[k])
            /\ lin'[txn.lineage] = withJournal(lin[txn.lineage], Torn)
            /\ \A k \in Lineages : k # txn.lineage => lin'[k] = lin[k]
        BY <1>1, <2>6, <3>1, PutJournalHolds
      <3>3. txn.lineage \in Lineages /\ lin[txn.lineage] \in Directory
        BY <1>4, <2>6, TxnFields DEF HistInd, HistoryTypeOK, LabelInv, Committing
      <3>4. Torn \in (SUBSET Events) \cup {Nil, Torn}
        OBVIOUS
      <3>5. lin'[txn.lineage].next = lin[txn.lineage].next
        BY <3>2, <3>3, <3>4, JournalReplaced
      <3> QED BY <3>2, <3>5
    <2> QED BY <1>1, <1>5, <2>2, <2>3, <2>4, <2>5, <2>6 DEF Writing, Committing
  <1>6. CASE step \notin Committing
    <2>1. txn = Nil
      BY <1>1, <1>6 DEF HistInd, HistoryTypeOK, LabelInv, Labels, Committing
    <2>2. CoreInv' /\ (\A k \in Lineages : Safe(lin[k], lin'[k])) /\
          (lin' = lin \/ step \in Cuts \cap {"pinWrite", "pruneJournal"})
      <3>1. CASE UNCHANGED <<bind, lin>>
        BY <1>1, <3>1, CoreSame
      <3>2. CASE step \in Cuts /\ step = "pinWrite" /\ Put(Torn)
        <4>1. Torn \in {job.pins, Torn}
          OBVIOUS
        <4> QED BY <1>1, <3>2, <4>1, PutNextHolds
      <3>3. CASE step \in Cuts /\ step = "pruneJournal" /\ Put(Torn)
        <4>1. Torn \in {job.pins, Torn}
          OBVIOUS
        <4> QED BY <1>1, <3>3, <4>1, PutPruneHolds
      <3> QED BY <1>1, <1>6, <3>1, <3>2, <3>3 DEF Writing, Committing
    <2>3. HistoryTypeOK' /\ LabelInv' /\ JobInv'
      BY <1>1, <1>2, <2>1, <2>2
         DEF HistInd, CoreInv, HistoryTypeOK, Labels, LabelInv, JobInv, Committing
    <2>4. TidyInv'
      BY <1>1, <2>1 DEF TidyInv, Recovering
    <2>5. WholeInv'
      BY <1>1, <2>2 DEF HistInd, WholeInv
    <2> QED BY <1>1, <2>1, <2>2, <2>3, <2>4, <2>5 DEF HistInd, CoreInv
  <1> QED BY <1>5, <1>6
-----------------------------------------------------------------------------
(* The decision of a transaction. *)

\* What a request is.
LEMMA ChangeFields ==
    ASSUME NEW c \in Change
    PROVE  /\ c.op \in {"create", "replace", "delete", "rename", "clone"}
           /\ c.op = "create" => c.src = Nil /\ c.dst \in Names
           /\ c.op # "create" => c.src \in Names
           /\ c.op \in {"replace", "delete"} => c.dst = Nil
           /\ c.op \in {"rename", "clone"} => c.dst \in Names /\ c.src # c.dst
           /\ c.op \notin {"create", "replace"} => c.line = Nil
           /\ c.line \in Lineages \cup {Nil} /\ c.want \in Lineages \cup {Nil}
           /\ Nil \notin Names
  <1>1. Nil \notin Names
    BY ValuesAssumption
  <1> QED BY <1>1 DEF Change

\* A new transaction takes over.
LEMMA Decided ==
    ASSUME HistInd, step = "idle", step' = "attach", txn' \in Transaction,
           UNCHANGED <<bind, lin, job, preview, crashes>>, doc' \in [Names -> BOOLEAN],
           nextLin' \in 1..(MaxLineages + 1), nextEv' \in 1..(MaxEvents + 1),
           nextLin <= nextLin', nextEv <= nextEv', TxnInv',
           \A n \in Names : ~InTxn(n)' => doc'[n] = doc[n],
           \A n \in Names : ~InTxn(n)' /\ Named(n) =>
               bind[n] # txn'.lineage /\ bind[n] # txn'.adoptIn
    PROVE  HistInd' /\ \A k \in Lineages : Safe(lin[k], lin'[k])
  <1>1. txn = Nil /\ txn' # Nil /\ txn'.lineage \in Lineages
    BY TxnFields DEF HistInd, LabelInv
  <1>2. HistoryTypeOK'
    BY DEF HistInd, HistoryTypeOK, Labels
  <1>3. nextLin \in Int /\ nextLin' \in Int /\ nextEv \in Int /\ nextEv' \in Int
    BY Bounds DEF HistInd, HistoryTypeOK
  <1>4. LineageInv'
    <2>1. \A l \in Lineages : l >= nextLin' => ~lin'[l].made
      BY <1>3 DEF HistInd, LineageInv, Lineages
    <2>2. \A l \in Lineages, e \in Events : e >= nextEv' => lin'[l].rec[e] = Nil
      BY <1>3 DEF HistInd, LineageInv, Events
    <2> QED BY <2>1, <2>2 DEF HistInd, LineageInv
  <1>5. NameInv'
    <2>1. ASSUME NEW n \in Names, ~InTxn(n)'
          PROVE  /\ Settled(n)' /\ bind'[n] # txn'.lineage
                 /\ (bind'[n] # Nil => bind'[n] # txn'.adoptIn)
      <3>1. Settled(n)
        BY <1>1 DEF HistInd, NameInv, InTxn
      <3>2. doc'[n] = doc[n]
        BY <2>1
      <3>3. bind[n] = Nil \/ Named(n)
        BY <3>1 DEF Settled
      <3> QED BY <1>1, <2>1, <3>1, <3>2, <3>3, Distinct DEF Settled, Named
    <2> QED BY <2>1 DEF NameInv
  <1>6. LabelInv' /\ JobInv' /\ Progress(txn)'
    BY <1>1, ProgressDown DEF HistInd, LabelInv, JobInv, Committing
  <1>7. TidyInv' /\ WholeInv'
    BY <1>1 DEF HistInd, TidyInv, WholeInv, Recovering
  <1>8. \A k \in Lineages : Safe(lin[k], lin'[k])
    BY SafeSame DEF HistInd, HistoryTypeOK
  <1> QED BY <1>2, <1>4, <1>5, <1>6, <1>7, <1>8 DEF HistInd

\* The Profiles after it, and what its record says of them.
LEMMA Described ==
    ASSUME HistInd, NEW c \in Change, Mutate(c), NEW r \in Record,
           r.pre = IF c.src = Nil THEN postName(c) ELSE c.src, r.post = postName(c),
           r.tomb = (c.op = "delete"), r.source # Nil <=> c.op = "clone"
    PROVE  /\ doc' \in [Names -> BOOLEAN] /\ Documents(r)'
           /\ \A n \in Names : n \notin {r.pre, r.post} => doc'[n] = doc[n]
           /\ r.source # Nil => doc'[r.pre] = doc[r.pre]
           /\ c.src # Nil => r.pre = c.src
  <1>1. /\ doc' = [n \in Names |-> IF n = postName(c) THEN c.op # "delete"
                                   ELSE IF n = c.src /\ c.op = "rename" THEN FALSE
                                   ELSE doc[n]]
        /\ c.src # Nil => doc[c.src]
    BY DEF Mutate
  <1>2. postName(c) \in Names /\ (c.op = "create" => postName(c) = c.dst)
        /\ (c.op \in {"replace", "delete"} => postName(c) = c.src)
        /\ (c.op \in {"rename", "clone"} => postName(c) = c.dst)
    BY ChangeFields DEF postName
  <1>3. doc \in [Names -> BOOLEAN]
    BY DEF HistInd, HistoryTypeOK
  <1>4. doc' \in [Names -> BOOLEAN]
    BY <1>1, <1>3
  <1>5. /\ c.src # Nil => r.pre = c.src
        /\ \A n \in Names : n \notin {r.pre, r.post} => doc'[n] = doc[n]
    BY <1>1, ChangeFields
  <1>6. r.source # Nil => doc'[r.pre] = doc[r.pre] /\ doc[r.pre] /\ r.pre # r.post
    BY <1>1, <1>2, ChangeFields
  <1>7. r.tomb => r.pre = r.post /\ ~doc'[r.post] /\ r.source = Nil
    BY <1>1, <1>2, ChangeFields
  <1>8. ~r.tomb => doc'[r.post]
    BY <1>1, <1>2, ChangeFields
  <1>9. Renames(r) => ~doc'[r.pre]
    <2>1. ASSUME Renames(r) PROVE c.op = "rename"
      BY <1>2, <2>1, ChangeFields DEF Renames
    <2> QED BY <1>1, <1>2, <2>1, ChangeFields DEF Renames
  <1>10. Documents(r)'
    BY <1>6, <1>7, <1>8, <1>9 DEF Documents, Renames
  <1> QED BY <1>4, <1>5, <1>6, <1>10

\* The bindings of the names lead to lineages there are.
LEMMA NamedMade ==
    ASSUME HistInd, NEW n \in Names, Named(n)
    PROVE  /\ bind[n] \in Lineages /\ bind[n] < nextLin /\ bind[n] # nextLin
           /\ bind[n] # nextLin + 1
           /\ head(Recs(lin[bind[n]])).post = n /\ ~head(Recs(lin[bind[n]])).tomb
  <1>1. bind[n] \in Lineages /\ lin[bind[n]].made /\ lin[bind[n]] \in Directory
        /\ DirInv(lin[bind[n]])
    BY DEF Named, DirSound, HistInd, HistoryTypeOK, LineageInv
  <1>2. nextLin \in Int /\ bind[n] \in Int
    BY <1>1, Bounds DEF HistInd, HistoryTypeOK, Lineages
  <1>3. ~(bind[n] >= nextLin)
    BY <1>1 DEF HistInd, LineageInv
  <1>4. PICK h : Newest(Recs(lin[bind[n]]), h) /\ ~h.tomb /\ h.post = n
    BY DEF Named
  <1>5. head(Recs(lin[bind[n]])) = h
    BY <1>1, <1>4, NewestIsHead, RecsType DEF DirInv, Chained
  <1> QED BY <1>1, <1>2, <1>3, <1>4, <1>5

\* What retention owes a set of records whose newest is h.
Retains(R, h, pins, keep, P) ==
    /\ P \in SUBSET Events /\ P \cap pins = {}
    /\ h.ev \notin P /\ (h.seq > 1 => h.parent \notin P)
    /\ Cardinality({r \in {x \in R : x.ev \notin P} :
                       r.ev \notin pins /\ r.seq # h.seq - 1}) <= keep
    /\ Cardinality({r \in R : r.ev \notin P}) = Cardinality(R) - Cardinality(P)

LEMMA CandidatesOf ==
    ASSUME NEW R, NEW h, Headed(R, h), NEW pins, NEW keep, keep \in 1..100,
           NEW P, P = pruneCandidates(R, pins, keep)
    PROVE  Retains(R, h, pins, keep, P)
  <1> DEFINE Q == pruneCandidates(R, pins, keep)
  <1>1. /\ Q \in SUBSET Events /\ Q \cap pins = {}
        /\ h.ev \notin Q /\ (h.seq > 1 => h.parent \notin Q)
        /\ Cardinality({r \in {x \in R : x.ev \notin Q} :
                           r.ev \notin pins /\ r.seq # h.seq - 1}) <= keep
        /\ Cardinality({r \in R : r.ev \notin Q}) = Cardinality(R) - Cardinality(Q)
    BY CandidatesFacts
  <1>2. P = Q
    OBVIOUS
  <1> HIDE DEF Q
  <1> QED BY <1>1, <1>2 DEF Retains

\* The parts of a transaction that goes on in a lineage.
LEMMA ContinuingIs ==
    ASSUME NEW c, NEW R, continues(c), ~adopts(c), c.op # "clone",
           records(lineageOf(c)) = R, R # {}
    PROVE  LET t == transaction(c)
               l == lineageOf(c)
           IN  /\ t.op = c.op /\ t.src = c.src /\ t.want = c.want /\ t.lineage = l
               /\ t.adoptIn = adoptLineage(c) /\ t.adoption = Nil
               /\ t.record =
                    [ev |-> nextEv, seq |-> head(R).seq + 1, parent |-> head(R).ev,
                     pre |-> IF c.src = Nil THEN postName(c) ELSE c.src,
                     post |-> postName(c), tomb |-> c.op = "delete", source |-> Nil]
               /\ t.prune = pruneCandidates(R \cup {t.record}, lin[l].pins, DefaultKeep)
               /\ t = [op |-> t.op, src |-> t.src, want |-> t.want, lineage |-> t.lineage,
                       record |-> t.record, adoptIn |-> t.adoptIn, adoption |-> t.adoption,
                       prune |-> t.prune]
  BY DEF transaction

\* A request that goes on in the lineage of its source.
LEMMA ContinuedLineage ==
    ASSUME HistInd, NEW c \in Change, Mutate(c), continues(c)
    PROVE  LET l == lineageOf(c) IN
           /\ l \in Lineages /\ readable(l) /\ Recs(lin[l]) # {}
           /\ \A n \in Names : Named(n) /\ bind[n] = l => n = c.src
           /\ ~adopts(c) /\ c.op # "clone" /\ freshLineages(c) = 0 /\ freshEvents(c) = 1
           /\ adoptLineage(c) = Nil /\ l = sourceOf(c)
  <1> DEFINE l == lineageOf(c)
  <1>1. /\ ~adopts(c) /\ c.op # "clone" /\ freshLineages(c) = 0 /\ freshEvents(c) = 1
        /\ adoptLineage(c) = Nil /\ l = sourceOf(c) /\ l # Nil
    BY DEF continues, adopts, freshLineages, freshEvents, adoptLineage, lineageOf
  <1>2. CASE c.src # Nil /\ bind[c.src] # Nil
    <2>1. l = bind[c.src] /\ resolves(c.src)
      BY <1>1, <1>2 DEF Mutate, admissible, sourceOf
    <2>2. l \in Lineages /\ readable(l) /\ records(l) # {} /\ head(records(l)).post = c.src
      BY <2>1 DEF resolves
    <2>3. records(l) = Recs(lin[l])
      BY RecordsAre
    <2>4. \A n \in Names : Named(n) /\ bind[n] = l => n = c.src
      BY <2>2, <2>3, NamedMade
    <2> QED BY <1>1, <2>2, <2>3, <2>4
  <1>3. CASE ~(c.src # Nil /\ bind[c.src] # Nil)
    <2>1. l = c.line /\ c.line # Nil
      BY <1>1, <1>3 DEF sourceOf
    <2>2. c.op = "create"
      BY <1>3, <2>1, ChangeFields DEF Mutate
    <2>3. l \in Lineages /\ readable(l) /\ records(l) # {} /\ head(records(l)).tomb
      BY <2>1, <2>2, ChangeFields DEF Mutate, admissible
    <2>4. records(l) = Recs(lin[l])
      BY RecordsAre
    <2>5. \A n \in Names : Named(n) => bind[n] # l
      BY <2>3, <2>4, NamedMade
    <2> QED BY <1>1, <2>3, <2>4, <2>5
  <1> QED BY <1>2, <1>3

LEMMA MutateContinues ==
    ASSUME HistInd, NEW c \in Change, Mutate(c), continues(c)
    PROVE  HistInd' /\ \A k \in Lineages : Safe(lin[k], lin'[k])
  <1> DEFINE l == lineageOf(c)
             d == lin[l]
             old == Recs(d)
             h == head(old)
  <1>0. PICK t : t = transaction(c)
    OBVIOUS
  <1> DEFINE kept == old \cup {t.record}
  <1>1. /\ step = "idle" /\ step' = "attach" /\ txn' = t /\ withinQuota(t)
        /\ UNCHANGED <<bind, lin, job, preview, crashes>>
        /\ nextLin' = nextLin + freshLineages(c) /\ nextEv' = nextEv + freshEvents(c)
        /\ nextEv + freshEvents(c) <= MaxEvents + 1
    BY <1>0 DEF Mutate
  <1>2. /\ l \in Lineages /\ readable(l) /\ old # {}
        /\ \A n \in Names : Named(n) /\ bind[n] = l => n = c.src
        /\ ~adopts(c) /\ c.op # "clone" /\ freshLineages(c) = 0 /\ freshEvents(c) = 1
        /\ adoptLineage(c) = Nil
    BY ContinuedLineage
  <1>3. /\ d \in Directory /\ Filed(d) /\ Chained(d) /\ d.made /\ d.next = Nil /\ d.journal = Nil
        /\ records(l) = old /\ old \in SUBSET Record /\ d.pins \in SUBSET Events
        /\ h \in old /\ Newest(old, h) /\ h \in Record /\ h.seq <= h.ev
    <2>1. /\ d \in Directory /\ Filed(d) /\ Chained(d) /\ d.made /\ d.next = Nil /\ d.journal = Nil
          /\ records(l) = old
      BY <1>2, ReadableIs
    <2>2. old \in SUBSET Record /\ d.pins \in SUBSET Events
      BY <2>1, RecsType, DirFields
    <2>3. h \in old /\ Newest(old, h)
      BY <1>2, <2>2, HeadIsNewest
    <2> QED BY <2>1, <2>2, <2>3, RecsFiled
  <1>4. /\ t.lineage = l /\ t.adoptIn = Nil /\ t.adoption = Nil
        /\ t.op = c.op /\ t.src = c.src /\ t.want = c.want
        /\ t.record = [ev |-> nextEv, seq |-> h.seq + 1, parent |-> h.ev,
                       pre |-> IF c.src = Nil THEN postName(c) ELSE c.src,
                       post |-> postName(c), tomb |-> c.op = "delete", source |-> Nil]
        /\ t.prune = pruneCandidates(kept, d.pins, DefaultKeep)
        /\ t = [op |-> t.op, src |-> t.src, want |-> t.want, lineage |-> t.lineage,
                record |-> t.record, adoptIn |-> t.adoptIn, adoption |-> t.adoption,
                prune |-> t.prune]
    BY <1>0, <1>2, <1>3, ContinuingIs
  <1>5. nextEv \in Events /\ nextEv \in Int /\ nextLin \in 1..(MaxLineages + 1)
    BY <1>1, <1>2, Bounds DEF HistInd, HistoryTypeOK, Events
  <1>6. \A r \in old : r.ev < nextEv /\ r.ev \in Events /\ r.seq <= r.ev
    BY <1>2, <1>3, <1>5, RecsFiled, RecordFields DEF HistInd, LineageInv, Events
  <1>7. t.record \in Record /\ t.record.ev = nextEv /\ t.record.seq = h.seq + 1
        /\ t.record.parent = h.ev /\ t.record.source = Nil
    <2>1. h.seq \in 1..MaxEvents /\ h.ev \in Events /\ h.seq + 1 <= nextEv
      BY <1>3, <1>5, <1>6, RecordFields DEF Events
    <2>2. h.seq + 1 \in 1..MaxEvents
      BY <1>5, <2>1, Bounds DEF Events
    <2>3. postName(c) \in Names /\ (c.src # Nil => c.src \in Names)
      BY ChangeFields DEF postName
    <2> QED BY <1>4, <1>5, <2>1, <2>2, <2>3 DEF Record
  <1>8. Headed(kept, t.record)
    <2>1. Newest(kept, t.record)
      BY <1>3, <1>7, RecordFields DEF Newest
    <2>2. \A r \in old : r.seq # t.record.seq /\ r.ev # t.record.ev
      BY <1>3, <1>5, <1>6, <1>7, RecordFields DEF Newest, Events
    <2>3. Headed(old, h)
      BY <1>3, DirHeaded
    <2> QED BY <1>3, <1>7, <2>1, <2>2, <2>3, RecordFields DEF Headed
  <1>9. /\ t.prune \in SUBSET Events /\ t.prune \cap d.pins = {}
        /\ t.record.ev \notin t.prune /\ (t.record.seq > 1 => t.record.parent \notin t.prune)
        /\ Cardinality({r \in {x \in kept : x.ev \notin t.prune} :
                           r.ev \notin d.pins /\ r.seq # t.record.seq - 1}) <= DefaultKeep
        /\ Cardinality({r \in kept : r.ev \notin t.prune})
              = Cardinality(kept) - Cardinality(t.prune)
    <2>1. DefaultKeep \in 1..100
      BY Bounds
    <2>2. t.prune = pruneCandidates(kept, d.pins, DefaultKeep)
      BY <1>4
    <2>3. Retains(kept, t.record, d.pins, DefaultKeep, t.prune)
      <3> HIDE DEF kept
      <3> QED BY <1>8, <2>1, <2>2, CandidatesOf
    <2> QED BY <2>3 DEF Retains
  <1>10. Cardinality({r \in kept : r.ev \notin t.prune}) <= MaxRetained
    <2>1. IsFiniteSet(old) /\ t.record \notin old
      BY <1>3, <1>5, <1>6, <1>7, RecsFinite DEF Chained, Events
    <2>2. Cardinality(kept) = Cardinality(old) + 1
      BY <2>1, FS_AddElement
    <2>3. Cardinality(old) + 0 + 1 - Cardinality(t.prune) <= MaxRetained
      BY <1>1, <1>2, <1>3, <1>4, Distinct DEF withinQuota
    <2>4. Cardinality(old) \in Nat
      BY <2>1, FS_CardinalityType
    <2>5. IsFiniteSet(t.prune)
      <3>1. IsFiniteSet(Events)
        BY FS_Interval, Bounds DEF Events
      <3> QED BY <1>9, <3>1, FS_Subset
    <2>6. Cardinality(t.prune) \in Nat
      BY <2>5, FS_CardinalityType
    <2> HIDE DEF kept, old
    <2> QED BY <1>9, <2>2, <2>3, <2>4, <2>6
  <1>11. t \in Transaction
    <2>1. c.src \in Names \cup {Nil} /\ c.want \in Lineages \cup {Nil}
          /\ c.op \in {"create", "replace", "delete", "clone", "rename"}
      BY ChangeFields
    <2> QED BY <1>2, <1>4, <1>7, <1>9, <2>1 DEF Transaction
  <1>12. Kept(t, old) = {r \in kept : r.ev \notin t.prune} /\ ~own(t)
    BY <1>4 DEF Kept, own
  <1>13. /\ doc' \in [Names -> BOOLEAN] /\ Documents(t.record)'
         /\ \A n \in Names : n \notin {t.record.pre, t.record.post} => doc'[n] = doc[n]
         /\ c.src # Nil => t.record.pre = c.src
    <2>1. t.record.pre = (IF c.src = Nil THEN postName(c) ELSE c.src) /\ t.record.post = postName(c)
          /\ t.record.tomb = (c.op = "delete") /\ (t.record.source # Nil <=> c.op = "clone")
      BY <1>2, <1>4
    <2> QED BY <1>7, <2>1, Described
  <1>14. l < nextLin
    BY <1>2, <1>3, <1>5, Bounds DEF HistInd, LineageInv, Lineages
  <1>15. TxnInv'
    <2>1. Adopted(t)'
      BY <1>4, <1>12 DEF Adopted, own
    <2>2. Ordered(t, d)
      BY <1>3, <1>7, <1>9, RecordFields DEF Ordered, Newest
    <2>3. Bounded(t, d)
      BY <1>9, <1>10, <1>12 DEF Bounded
    <2>4. lin'[txn'.lineage] = d /\ Documents(txn.record)' /\ Adopted(txn)'
      BY <1>1, <1>4, <1>13, <2>1
    <2>5. t.record.seq <= t.record.ev
      BY <1>3, <1>5, <1>6, <1>7, RecordFields DEF Events
    <2>6. txn'.lineage < nextLin' /\ txn'.record.ev < nextEv'
      BY <1>1, <1>2, <1>4, <1>5, <1>7, <1>14
    <2> QED BY <1>1, <1>3, <1>4, <2>2, <2>3, <2>4, <2>5, <2>6 DEF TxnInv
  <1>16. \A n \in Names : ~InTxn(n)' => n \notin {t.record.pre, t.record.post}
    BY <1>1, <1>7, <1>11, TxnFields DEF InTxn
  <1>17. \A n \in Names : ~InTxn(n)' /\ Named(n) => bind[n] # txn'.lineage /\ bind[n] # txn'.adoptIn
    BY <1>1, <1>2, <1>4, <1>13, <1>16, NamedMade, Distinct, ChangeFields
  <1>18. /\ nextLin' \in 1..(MaxLineages + 1) /\ nextEv' \in 1..(MaxEvents + 1)
         /\ nextLin <= nextLin' /\ nextEv <= nextEv'
    BY <1>1, <1>2, <1>5, Bounds DEF Events
  <1> QED BY <1>1, <1>11, <1>13, <1>15, <1>16, <1>17, <1>18, Decided

\* The parts of a transaction that begins a lineage.
LEMMA BeginningIs ==
    ASSUME NEW c, ~continues(c)
    PROVE  LET t == transaction(c)
               mine == adopts(c) /\ c.op # "clone"
           IN  /\ t.op = c.op /\ t.src = c.src /\ t.want = c.want /\ t.lineage = nextLin
               /\ t.adoptIn = adoptLineage(c)
               /\ t.adoption = IF adopts(c)
                               THEN [ev |-> nextEv, seq |-> 1, parent |-> Nil, pre |-> c.src,
                                     post |-> c.src, tomb |-> FALSE, source |-> Nil]
                               ELSE Nil
               /\ t.record =
                    [ev |-> IF adopts(c) THEN nextEv + 1 ELSE nextEv,
                     seq |-> IF mine THEN 2 ELSE 1,
                     parent |-> IF mine THEN nextEv ELSE Nil,
                     pre |-> IF c.src = Nil THEN postName(c) ELSE c.src,
                     post |-> postName(c), tomb |-> c.op = "delete",
                     source |-> IF c.op # "clone" THEN Nil
                                ELSE IF adopts(c) THEN nextLin + 1 ELSE sourceOf(c)]
               /\ t.prune = pruneCandidates({t.record} \cup (IF mine THEN {t.adoption} ELSE {}),
                                            {}, DefaultKeep)
               /\ t = [op |-> t.op, src |-> t.src, want |-> t.want, lineage |-> t.lineage,
                       record |-> t.record, adoptIn |-> t.adoptIn, adoption |-> t.adoption,
                       prune |-> t.prune]
  <1> DEFINE mine == adopts(c) /\ c.op # "clone"
             adoption == [ev |-> nextEv, seq |-> 1, parent |-> Nil, pre |-> c.src,
                          post |-> c.src, tomb |-> FALSE, source |-> Nil]
             record == [ev |-> IF adopts(c) THEN nextEv + 1 ELSE nextEv,
                        seq |-> IF mine THEN 2 ELSE 1,
                        parent |-> IF mine THEN nextEv ELSE Nil,
                        pre |-> IF c.src = Nil THEN postName(c) ELSE c.src,
                        post |-> postName(c), tomb |-> c.op = "delete",
                        source |-> IF c.op # "clone" THEN Nil
                                   ELSE IF adopts(c) THEN nextLin + 1 ELSE sourceOf(c)]
             adopted == IF adopts(c) THEN adoption ELSE Nil
             prune == pruneCandidates({record} \cup (IF mine THEN {adoption} ELSE {}), {}, DefaultKeep)
  <1>1. transaction(c) = [op |-> c.op, src |-> c.src, want |-> c.want, lineage |-> nextLin,
                          record |-> record, adoptIn |-> adoptLineage(c), adoption |-> adopted,
                          prune |-> prune]
    BY DEF transaction, lineageOf
  <1>2. mine => adopted = adoption
    OBVIOUS
  <1>3. prune = pruneCandidates({record} \cup (IF mine THEN {adopted} ELSE {}), {}, DefaultKeep)
    BY <1>2
  <1> HIDE DEF record, adopted, prune, adoption
  <1>4. /\ transaction(c).op = c.op /\ transaction(c).src = c.src /\ transaction(c).want = c.want
        /\ transaction(c).lineage = nextLin /\ transaction(c).record = record
        /\ transaction(c).adoptIn = adoptLineage(c) /\ transaction(c).adoption = adopted
        /\ transaction(c).prune = prune
    BY <1>1
  <1> QED BY <1>1, <1>3, <1>4 DEF record, adopted, adoption

LEMMA MutateBegins ==
    ASSUME HistInd, NEW c \in Change, Mutate(c), ~continues(c)
    PROVE  HistInd' /\ \A k \in Lineages : Safe(lin[k], lin'[k])
  <1>0. PICK t : t = transaction(c)
    OBVIOUS
  <1> DEFINE mine == adopts(c) /\ c.op # "clone"
             kept == {t.record} \cup (IF mine THEN {t.adoption} ELSE {})
  <1>1. /\ step = "idle" /\ step' = "attach" /\ txn' = t /\ withinQuota(t)
        /\ UNCHANGED <<bind, lin, job, preview, crashes>>
        /\ nextLin' = nextLin + freshLineages(c) /\ nextEv' = nextEv + freshEvents(c)
        /\ nextEv + freshEvents(c) <= MaxEvents + 1
        /\ nextLin + freshLineages(c) <= MaxLineages + 1
        /\ admissible(c)
    BY <1>0 DEF Mutate
  <1>2. /\ t.lineage = nextLin /\ t.adoptIn = adoptLineage(c)
        /\ t.op = c.op /\ t.src = c.src /\ t.want = c.want
        /\ t.adoption = IF adopts(c)
                        THEN [ev |-> nextEv, seq |-> 1, parent |-> Nil, pre |-> c.src,
                              post |-> c.src, tomb |-> FALSE, source |-> Nil]
                        ELSE Nil
        /\ t.record = [ev |-> IF adopts(c) THEN nextEv + 1 ELSE nextEv,
                       seq |-> IF mine THEN 2 ELSE 1,
                       parent |-> IF mine THEN nextEv ELSE Nil,
                       pre |-> IF c.src = Nil THEN postName(c) ELSE c.src,
                       post |-> postName(c), tomb |-> c.op = "delete",
                       source |-> IF c.op # "clone" THEN Nil
                                  ELSE IF adopts(c) THEN nextLin + 1 ELSE sourceOf(c)]
        /\ t.prune = pruneCandidates(kept, {}, DefaultKeep)
        /\ t = [op |-> t.op, src |-> t.src, want |-> t.want, lineage |-> t.lineage,
                record |-> t.record, adoptIn |-> t.adoptIn, adoption |-> t.adoption,
                prune |-> t.prune]
    BY <1>0, BeginningIs
  <1>3. /\ nextLin \in 1..(MaxLineages + 1) /\ nextEv \in 1..(MaxEvents + 1)
        /\ nextLin \in Int /\ nextEv \in Int
        /\ lin \in [Lineages -> Directory] /\ bind \in [Names -> Lineages \cup {Nil, Torn}]
    BY Bounds DEF HistInd, HistoryTypeOK
  <1>4. /\ freshLineages(c) = IF adopts(c) /\ c.op = "clone" THEN 2 ELSE 1
        /\ freshEvents(c) = IF adopts(c) THEN 2 ELSE 1
        /\ adoptLineage(c) = IF ~adopts(c) THEN Nil
                             ELSE IF c.op = "clone" THEN nextLin + 1 ELSE nextLin
    BY DEF freshLineages, freshEvents, adoptLineage
  <1>5. /\ nextLin \in Lineages /\ nextEv \in Events
        /\ adopts(c) => nextEv + 1 \in Events
        /\ adopts(c) /\ c.op = "clone" => nextLin + 1 \in Lineages
        /\ nextLin' \in 1..(MaxLineages + 1) /\ nextEv' \in 1..(MaxEvents + 1)
        /\ nextLin <= nextLin' /\ nextEv <= nextEv' /\ nextLin < nextLin'
    BY <1>1, <1>3, <1>4, Bounds DEF Lineages, Events
  <1>6. \A k \in Lineages : k >= nextLin => lin[k] = Unused /\ Recs(lin[k]) = {}
    <2>1. ASSUME NEW k \in Lineages, k >= nextLin PROVE lin[k] = Unused
      BY <2>1 DEF HistInd, LineageInv, DirInv
    <2>2. Recs(Unused) = {}
      BY DEF Recs, Unused
    <2> QED BY <2>1, <2>2
  <1>7. adopts(c) => c.src # Nil /\ c.op # "create" /\ sourceOf(c) = Nil
    BY ChangeFields DEF adopts
  <1>8. c.op = "clone" /\ ~adopts(c) => sourceOf(c) \in Lineages
    BY <1>1, ChangeFields DEF adopts, sourceOf, admissible, resolves
  <1>9. postName(c) \in Names /\ (c.src # Nil => c.src \in Names)
    BY ChangeFields DEF postName
  <1>10. 2 <= MaxEvents \/ ~adopts(c)
    BY <1>3, <1>5, Bounds DEF Events
  <1>11. t.record \in Record
    <2>1. 1 \in 1..MaxEvents /\ (adopts(c) => 2 \in 1..MaxEvents)
      BY <1>3, <1>5, <1>10, Bounds DEF Events
    <2> QED BY <1>2, <1>5, <1>8, <1>9, <2>1 DEF Record
  <1>12. t.adoption \in Record \cup {Nil} /\ (t.adoption # Nil <=> adopts(c))
    <2>1. 1 \in 1..MaxEvents
      BY <1>3, <1>5, Bounds DEF Events
    <2>2. CASE adopts(c)
      <3>1. t.adoption \in Record
        BY <1>2, <1>5, <1>7, <1>9, <2>1, <2>2 DEF Record
      <3> QED BY <2>2, <3>1, RecordFields
    <2> QED BY <1>2, <2>2
  <1>13. /\ t.record.pre = (IF c.src = Nil THEN postName(c) ELSE c.src) /\ t.record.post = postName(c)
         /\ t.record.tomb = (c.op = "delete") /\ (t.record.source # Nil <=> c.op = "clone")
         /\ mine => t.record.seq = 2 /\ t.record.parent = nextEv /\ t.record.source = Nil
         /\ ~mine => t.record.seq = 1
         /\ adopts(c) => /\ t.record.ev = nextEv + 1 /\ t.adoption.ev = nextEv
                         /\ t.adoption.seq = 1 /\ ~t.adoption.tomb /\ t.adoption.post = t.record.pre
         /\ ~adopts(c) => t.record.ev = nextEv
         /\ adopts(c) /\ c.op = "clone" => t.record.source = nextLin + 1
    BY <1>2, <1>3, <1>5, <1>7, <1>8, Distinct
  <1>14. own(t) <=> mine
    BY <1>2, <1>3, <1>4, <1>12, Distinct DEF own
  <1>15. Headed(kept, t.record)
    <2>1. CASE mine
      <3>1. t.adoption \in Record /\ kept = {t.record, t.adoption}
        BY <1>12, <2>1
      <3>2. t.record.seq = 2 /\ t.adoption.seq = 1 /\ t.record.parent = t.adoption.ev
            /\ t.record.ev # t.adoption.ev
        BY <1>3, <1>13, <2>1
      <3> QED BY <1>11, <3>1, <3>2 DEF Headed, Newest
    <2>2. CASE ~mine
      <3>1. kept = {t.record} /\ t.record.seq = 1
        BY <1>13, <2>2
      <3> QED BY <1>11, <3>1 DEF Headed, Newest
    <2> QED BY <2>1, <2>2
  <1>16. Retains(kept, t.record, {}, DefaultKeep, t.prune)
    <2>1. DefaultKeep \in 1..100
      BY Bounds
    <2>2. t.prune = pruneCandidates(kept, {}, DefaultKeep)
      BY <1>2
    <2> HIDE DEF kept
    <2> QED BY <1>15, <2>1, <2>2, CandidatesOf
  <1>17. t \in Transaction
    <2>1. c.src \in Names \cup {Nil} /\ c.want \in Lineages \cup {Nil}
          /\ c.op \in {"create", "replace", "delete", "clone", "rename"}
      BY ChangeFields
    <2>2. t.prune \in SUBSET Events
      BY <1>16 DEF Retains
    <2>3. t.adoptIn \in Lineages \cup {Nil}
      BY <1>2, <1>4, <1>5
    <2> QED BY <1>2, <1>5, <1>11, <1>12, <2>1, <2>2, <2>3 DEF Transaction
  <1>18. Kept(t, {}) = {r \in kept : r.ev \notin t.prune}
    BY <1>14 DEF Kept
  <1>19. Cardinality({r \in kept : r.ev \notin t.prune}) <= MaxRetained
    <2>1. Cardinality(kept) = IF mine THEN 2 ELSE 1
      <3>1. IsFiniteSet({t.record}) /\ Cardinality({t.record}) = 1
        BY FS_Singleton
      <3>2. CASE mine
        <4>1. t.adoption \notin {t.record}
          BY <1>3, <1>13, <3>2
        <4>2. Cardinality({t.record} \cup {t.adoption}) = 2
          BY <3>1, <4>1, FS_AddElement
        <4> QED BY <3>2, <4>2
      <3> QED BY <3>1, <3>2
    <2>2. (IF mine THEN 1 ELSE 0) + 1 - Cardinality(t.prune) <= MaxRetained
      <3>1. ~lin[nextLin].made
        BY <1>3, <1>5, <1>6 DEF Unused
      <3>2. t.adoptIn = t.lineage <=> mine
        BY <1>2, <1>3, <1>4, <1>5, Distinct
      <3> QED BY <1>1, <1>2, <3>1, <3>2 DEF withinQuota
    <2>3. IsFiniteSet(t.prune)
      <3>1. IsFiniteSet(Events)
        BY FS_Interval, Bounds DEF Events
      <3> QED BY <1>16, <3>1, FS_Subset DEF Retains
    <2>4. Cardinality(t.prune) \in Nat
      BY <2>3, FS_CardinalityType
    <2>5. Cardinality({r \in kept : r.ev \notin t.prune}) = Cardinality(kept) - Cardinality(t.prune)
      BY <1>16 DEF Retains
    <2> QED BY <2>1, <2>2, <2>4, <2>5, Bounds
  <1>20. /\ doc' \in [Names -> BOOLEAN] /\ Documents(t.record)'
         /\ \A n \in Names : n \notin {t.record.pre, t.record.post} => doc'[n] = doc[n]
         /\ t.record.source # Nil => doc'[t.record.pre] = doc[t.record.pre]
    BY <1>11, <1>13, Described
  <1>21. TxnInv'
    <2>1. Adopted(t)'
      <3>1. t.adoption # Nil <=> t.adoptIn # Nil
        BY <1>2, <1>3, <1>4, <1>5, <1>12, Distinct
      <3>2. t.adoption # Nil => /\ t.adoptIn < nextLin' /\ t.adoption.ev < t.record.ev
                                /\ t.adoption.seq = 1 /\ ~t.adoption.tomb
                                /\ t.adoption.post = t.record.pre
        BY <1>1, <1>2, <1>3, <1>4, <1>12, <1>13
      <3>3. own(t) => /\ t.record.seq = 2 /\ t.record.parent = t.adoption.ev
                      /\ t.record.source = Nil
                      /\ Recs(lin[t.lineage]) = {}
        BY <1>2, <1>3, <1>5, <1>6, <1>13, <1>14
      <3>4. t.adoptIn \notin {Nil, t.lineage} =>
              t.record.source = t.adoptIn /\ lin[t.adoptIn] = Unused
        BY <1>2, <1>3, <1>4, <1>5, <1>6, <1>13
      <3>5. t.adoption # Nil => t.adoption.ev \in Events
        BY <1>12, RecordFields
      <3>6. t.adoptIn \notin {Nil, t.lineage} =>
              /\ \A e \in Events : lin[t.adoptIn].rec[e] = Nil
              /\ lin[t.adoptIn].next = Nil /\ lin[t.adoptIn].journal = Nil
        BY <3>4 DEF Unused
      <3>7. lin' = lin
        BY <1>1
      <3> QED BY <3>1, <3>2, <3>3, <3>4, <3>5, <3>6, <3>7 DEF Adopted, own
    <2> DEFINE d == lin[t.lineage]
    <2>2. d = Unused /\ Recs(d) = {} /\ d.pins = {} /\ d.next = Nil /\ d.journal = Nil
      BY <1>2, <1>3, <1>5, <1>6 DEF Unused
    <2>3. Ordered(t, d)
      BY <1>13, <1>14, <1>16, <2>2 DEF Ordered, Retains
    <2>4. Bounded(t, d)
      BY <1>16, <1>18, <1>19, <2>2 DEF Bounded, Retains
    <2>5. lin'[txn'.lineage] = d /\ Documents(txn.record)' /\ Adopted(txn)'
      BY <1>1, <1>20, <2>1
    <2>6. t.record.seq <= t.record.ev
      BY <1>3, <1>13
    <2>7. txn'.lineage < nextLin' /\ txn'.record.ev < nextEv'
      BY <1>1, <1>2, <1>3, <1>4, <1>5, <1>13
    <2> HIDE DEF d
    <2> QED BY <1>1, <2>2, <2>3, <2>4, <2>5, <2>6, <2>7 DEF TxnInv
  <1>22. ASSUME NEW n \in Names, ~InTxn(n)' PROVE doc'[n] = doc[n]
    <2>1. t # Nil
      BY <1>17, TxnFields
    <2>2. n # t.record.post /\ (n = t.record.pre => t.record.source # Nil)
      BY <1>1, <1>22, <2>1 DEF InTxn
    <2> QED BY <1>20, <2>2
  <1>23. ASSUME NEW n \in Names, Named(n) PROVE bind[n] # txn'.lineage /\ bind[n] # txn'.adoptIn
    BY <1>1, <1>2, <1>4, <1>23, NamedMade, Distinct
  <1> QED BY <1>1, <1>5, <1>17, <1>20, <1>21, <1>22, <1>23, Decided

LEMMA MutateHolds ==
    ASSUME HistInd, NEW c \in Change, Mutate(c)
    PROVE  HistInd' /\ \A k \in Lineages : Safe(lin[k], lin'[k])
  BY MutateContinues, MutateBegins

-----------------------------------------------------------------------------
(* The invariant. *)

LEMMA HistInit == HistoryInit => HistInd
  <1> SUFFICES ASSUME HistoryInit PROVE HistInd
    OBVIOUS
  <1>1. /\ doc \in [Names -> BOOLEAN] /\ bind = [n \in Names |-> Nil]
        /\ lin = [l \in Lineages |-> Unused] /\ txn = Nil /\ job = Nil /\ preview = Nil
        /\ step = "idle" /\ nextLin = 1 /\ nextEv = 1 /\ crashes = 0
    BY DEF HistoryInit, Unused
  <1>2. Unused \in Directory
    BY DEF Directory, Unused
  <1>3. Recs(Unused) = {}
    BY DEF Recs, Unused
  <1>4. DirInv(Unused)
    BY <1>3, Distinct DEF DirInv, Filed, Chained, Unused
  <1>5. HistoryTypeOK
    <2>1. lin \in [Lineages -> Directory]
      BY <1>1, <1>2
    <2> QED BY <1>1, <2>1, Bounds DEF HistoryTypeOK, Labels
  <1>6. LineageInv
    <2>1. \A l \in Lineages : lin[l] = Unused
      BY <1>1
    <2>2. ~Unused.made /\ \A e \in Events : Unused.rec[e] = Nil
      BY DEF Unused
    <2> QED BY <1>4, <2>1, <2>2 DEF LineageInv
  <1>7. TxnInv /\ LabelInv /\ JobInv
    BY <1>1 DEF TxnInv, LabelInv, JobInv, Committing
  <1>8. NameInv
    BY <1>1 DEF NameInv, Settled, InTxn
  <1>9. TidyInv /\ WholeInv
    BY <1>1, Distinct DEF TidyInv, WholeInv, Unused
  <1> QED BY <1>1, <1>5, <1>6, <1>7, <1>8, <1>9 DEF HistInd

LEMMA HistStep ==
    ASSUME HistInd, HistoryNext
    PROVE  HistInd' /\ \A k \in Lineages : Safe(lin[k], lin'[k])
  <1>1. CASE \E c \in Change : Mutate(c)
    BY <1>1, MutateHolds
  <1>2. CASE \E l \in Lineages, e \in Events, pin \in BOOLEAN : SetHistoryPin(l, e, pin)
    BY <1>2, SetPinHolds
  <1>3. CASE \E l \in Lineages, keep \in Keeps : PreviewPrune(l, keep)
    BY <1>3, PreviewHolds
  <1>4. CASE Step
    BY <1>4, AttachHolds, MakeLineageHolds, WriteFileHolds, UnbindHolds, CollectHolds,
       CompleteHolds, PinRenameHolds, PruneCollectHolds, MaintainHolds DEF Step
  <1> QED BY <1>1, <1>2, <1>3, <1>4, PruneHolds, CrashHolds, RecoverHolds DEF HistoryNext

LEMMA HistStutter ==
    ASSUME HistInd, UNCHANGED historyVars
    PROVE  HistInd' /\ \A k \in Lineages : Safe(lin[k], lin'[k])
  <1>1. UNCHANGED <<doc, bind, lin, txn, job, preview, step, nextLin, nextEv, crashes>>
    BY DEF historyVars
  <1>2. CoreInv' /\ \A k \in Lineages : Safe(lin[k], lin'[k])
    BY <1>1, CoreSame
  <1>3. HistoryTypeOK' /\ LabelInv' /\ JobInv' /\ TidyInv' /\ WholeInv'
    BY <1>1 DEF HistInd, HistoryTypeOK, LabelInv, JobInv, TidyInv, WholeInv, Spared, Recovering
  <1>4. txn' # Nil => Progress(txn)'
    BY <1>1 DEF HistInd, Progress
  <1> QED BY <1>2, <1>3, <1>4 DEF HistInd, CoreInv

LEMMA HistAlways == HistorySpec => []HistInd
  <1>1. HistInd /\ [HistoryNext]_historyVars => HistInd'
    BY HistStep, HistStutter
  <1> QED BY <1>1, HistInit, PTL DEF HistorySpec

-----------------------------------------------------------------------------
(* What the history promises. *)

\* Every variable holds a value of its type.
THEOREM HistoryTypesHold == HistorySpec => []HistoryTypeOK
  <1>1. HistInd => HistoryTypeOK
    BY DEF HistInd
  <1> QED BY <1>1, HistAlways, PTL

LEMMA ListedHasSnapshot == HistInd => RecordsHaveSnapshots
  <1> SUFFICES ASSUME HistInd, NEW l \in Lineages, NEW r \in records(l)
               PROVE  lin[l].snap[r.ev] = Whole
    BY DEF RecordsHaveSnapshots
  <1>1. lin[l] \in Directory /\ Filed(lin[l]) /\ r \in Recs(lin[l])
    BY RecordsAre DEF HistInd, HistoryTypeOK, LineageInv, DirInv
  <1> QED BY <1>1, RecsFiled

\* Whatever is published, pruned, cut off or recovered, every event a passive reader
\* can list has its snapshot.
THEOREM SnapshotsOutliveRecords == HistorySpec => []RecordsHaveSnapshots
  BY HistAlways, ListedHasSnapshot, PTL

LEMMA HeadHasPredecessor == HistInd => PredecessorRetained
  <1> SUFFICES ASSUME HistInd, NEW l \in Lineages, records(l) # {}, head(records(l)).seq > 1
               PROVE  \E r \in records(l) : /\ r.seq = head(records(l)).seq - 1
                                            /\ head(records(l)).parent = r.ev
    BY DEF PredecessorRetained
  <1>1. lin[l] \in Directory /\ Chained(lin[l]) /\ records(l) = Recs(lin[l])
    BY RecordsAre DEF HistInd, HistoryTypeOK, LineageInv, DirInv
  <1>2. head(Recs(lin[l])) \in Recs(lin[l]) /\ Newest(Recs(lin[l]), head(Recs(lin[l])))
    BY <1>1, HeadIsNewest, RecsType
  <1> QED BY <1>1, <1>2 DEF Chained

LEMMA LimitIsMet == HistInd => RetentionHolds
  <1> SUFFICES ASSUME HistInd, step = "complete" PROVE RetentionHolds
    BY DEF RetentionHolds
  <1> DEFINE t == txn
             d == lin[t.lineage]
  <1>1. /\ t # Nil /\ t \in Transaction /\ t.lineage \in Lineages /\ t.record \in Record
        /\ t.adoption \in Record \cup {Nil}
        /\ d \in Directory /\ DirInv(d)
    BY TxnFields DEF HistInd, HistoryTypeOK, LabelInv, LineageInv, Committing
  <1>2. Ordered(t, d) /\ Bounded(t, d)
    BY <1>1 DEF HistInd, TxnInv
  <1>3. /\ d.rec[t.record.ev] = t.record
        /\ \A r \in Recs(d) : r.ev \notin t.prune
        /\ t.adoption # Nil => lin[t.adoptIn].rec[t.adoption.ev] = t.adoption
    BY <1>1 DEF HistInd, Progress, Recorded
  <1>4. t.record \in Recs(d) /\ head(Recs(d)) = t.record
    <2>1. t.record \in Recs(d)
      BY <1>1, <1>3, RecsType, RecordFields
    <2>2. \A s \in Recs(d) : s.seq <= t.record.seq
      BY <1>1, <1>2, RecsType, RecordFields DEF Ordered
    <2>3. Newest(Recs(d), t.record)
      BY <2>1, <2>2 DEF Newest
    <2> QED BY <1>1, <2>1, <2>3, NewestIsHead, RecsType DEF DirInv, Chained
  <1>5. Kept(t, Recs(d)) = Recs(d)
    <2>1. own(t) => t.adoption \in Recs(d)
      BY <1>1, <1>3, RecsType, RecordFields DEF own
    <2> QED BY <1>3, <1>4, <2>1 DEF Kept
  <1>6. records(t.lineage) = Recs(d)
    BY RecordsAre
  <1>7. Cardinality({r \in Recs(d) : r.ev \notin d.pins /\ r.seq # head(Recs(d)).seq - 1})
           <= DefaultKeep
    BY <1>2, <1>4, <1>5 DEF Bounded
  <1> QED BY <1>6, <1>7 DEF RetentionHolds

\* Retention removes what it must and no more, for every retention limit: at the
\* completion of a transaction the limit is met, and at every step, in a prune or
\* after a death, the newest event of a lineage has its parent beside it.
THEOREM RetentionKeepsTheChain == HistorySpec => []RetentionIsExact
  <1>1. HistInd => RetentionIsExact
    BY HeadHasPredecessor, LimitIsMet DEF RetentionIsExact
  <1> QED BY <1>1, HistAlways, PTL

LEMMA StepIsSafe ==
    ASSUME HistInd, HistInd', \A k \in Lineages : Safe(lin[k], lin'[k])
    PROVE  headAdvances /\ pinsSurvive
  <1>1. pinsSurvive
    BY DEF pinsSurvive, Safe
  <1>2. ASSUME NEW l \in Lineages, records(l) # {}
        PROVE  records(l)' # {} /\ head(records(l))'.seq >= head(records(l)).seq
    <2>1. /\ lin[l] \in Directory /\ records(l) = Recs(lin[l])
          /\ lin'[l] \in Directory /\ Chained(lin'[l]) /\ records(l)' = Recs(lin'[l])
      BY RecordsAre DEF HistInd, HistoryTypeOK, LineageInv, DirInv, records, Recs
    <2>2. Newest(Recs(lin[l]), head(Recs(lin[l])))
      BY <1>2, <2>1, HeadIsNewest, RecsType
    <2>3. PICK g : Newest(Recs(lin'[l]), g) /\ g.seq >= head(Recs(lin[l])).seq
      BY <2>2 DEF Safe
    <2>4. head(Recs(lin'[l])) = g /\ Recs(lin'[l]) # {}
      <3>1. Recs(lin'[l]) \in SUBSET Record
        BY <2>1, RecsType
      <3>2. \A r, s \in Recs(lin'[l]) : r.seq = s.seq => r = s
        BY <2>1 DEF Chained
      <3>3. head(Recs(lin'[l])) = g
        BY <2>3, <3>1, <3>2, NewestIsHead
      <3> QED BY <2>3, <3>3 DEF Newest
    <2>5. head(records(l))' = head(Recs(lin'[l]))
      BY <2>1 DEF head
    <2> QED BY <2>1, <2>3, <2>4, <2>5
  <1> QED BY <1>1, <1>2 DEF headAdvances

\* No publication, prune or recovery, whatever dies in it, takes away the head of a
\* lineage or an event that stays pinned.
THEOREM ProtectedEventsAreSafe == HistorySpec => ProtectedEventsSurvive
  <1>1. HistInd /\ HistInd' /\ [HistoryNext]_historyVars
           => [headAdvances /\ pinsSurvive]_historyVars
    BY HistStep, StepIsSafe
  <1> QED BY <1>1, HistAlways, PTL DEF HistorySpec, ProtectedEventsSurvive

LEMMA NamesAreDescribed ==
    ASSUME HistInd, Cuts \cap {"pinWrite", "pruneJournal"} = {}
    PROVE  HistoryMatchesProfiles
  <1> SUFFICES ASSUME step = "idle", NEW n \in Names
               PROVE  IF doc[n] THEN bind[n] = Nil \/ resolves(n) ELSE bind[n] = Nil
    BY DEF HistoryMatchesProfiles
  <1>1. txn = Nil
    BY DEF HistInd, LabelInv
  <1>2. Settled(n)
    BY <1>1 DEF HistInd, NameInv, InTxn
  <1>3. ASSUME Named(n) PROVE resolves(n)
    <2> DEFINE l == bind[n]
               d == lin[l]
    <2>1. /\ l \in Lineages /\ DirSound(d) /\ d \in Directory /\ DirInv(d) /\ records(l) = Recs(d)
          /\ d.next \in (SUBSET Events) \cup {Nil, Torn}
          /\ d.journal \in (SUBSET Events) \cup {Nil, Torn}
      BY <1>3, RecordsAre, DirFields DEF Named, HistInd, HistoryTypeOK, LineageInv
    <2>2. d.next \in {Nil, Torn} /\ d.journal \in {Nil, Torn}
      BY <1>1, <2>1 DEF HistInd, TidyInv, Recovering
    <2>3. d.next = Nil /\ d.journal = Nil
      BY <1>1, <2>1, <2>2 DEF HistInd, WholeInv
    <2>4. \A e \in Events : d.rec[e] # Nil => d.snap[e] = Whole
      BY <2>1 DEF DirSound, DirInv, Filed
    <2>5. readable(l)
      BY <2>1, <2>3, <2>4 DEF readable, DirSound, DirInv, Chained
    <2>6. PICK h \in Recs(d) : Newest(Recs(d), h) /\ ~h.tomb /\ h.post = n
      BY <1>3 DEF Named
    <2>7. head(Recs(d)) = h
      BY <2>1, <2>6, NewestIsHead, RecsType DEF DirInv, Chained
    <2> QED BY <2>1, <2>5, <2>6, <2>7 DEF resolves
  <1> QED BY <1>2, <1>3 DEF Settled

\* Where the files of pins and explicit prunes are not cut off in the middle of their
\* write, whatever else is: at rest every published name resolves to its live event
\* or was never recorded, an absent name has no binding, and every event that can be
\* listed has its snapshot.
THEOREM HistoryDescribesProfiles ==
    ASSUME Cuts \cap {"pinWrite", "pruneJournal"} = {}
    PROVE  HistorySpec => []HistoryConsistent
  <1>1. HistInd => HistoryConsistent
    BY NamesAreDescribed, ListedHasSnapshot DEF HistInd, HistoryConsistent
  <1> QED BY <1>1, HistAlways, PTL

=============================================================================
