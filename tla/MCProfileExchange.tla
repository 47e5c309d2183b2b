------------------------- MODULE MCProfileExchange -------------------------
(* Profiles with every kind of intent, alone and together: local and        *)
(* workspace paths, an exclusion of the same path, Skills of both sources,  *)
(* instructions, a secret and an MCP server; one with more local paths than *)
(* a document may bind.                                                     *)
EXTENDS ProfileExchange, TLC

L(v) == [kind |-> "local", v |-> v]
K(k) == [kind |-> k, v |-> 0]
none == [i \in {} |-> L(0)]
Plain == [skills |-> {}, instr |-> {}, paths |-> none, excl |-> none, exes |-> none, env |-> none,
          mcp |-> {}, auth |-> K("plain")]
Skills == [Plain EXCEPT !.skills = {[src |-> 2, rel |-> "x"], [src |-> 3, rel |-> "x"]},
                        !.instr = {[src |-> 1, rel |-> "x"]}]
Paths == [Plain EXCEPT !.paths = [i \in {1, 2, 3} |-> IF i = 1 THEN K("workspace") ELSE L(i - 1)],
                       !.excl = [i \in {1} |-> L(1)], !.auth = L(2)]
Server == [Skills EXCEPT !.paths = [i \in {2} |-> L(2)],
                         !.exes = [i \in {1, 2} |-> IF i = 1 THEN L(1) ELSE K("name")],
                         !.env = [i \in {1, 2} |-> IF i = 1 THEN K("host") ELSE L(1)],
                         !.mcp = {[exe |-> 1, inp |-> 2, arg |-> 1]}, !.auth = L(1)]
Crowded == [Plain EXCEPT !.paths = [i \in {1, 2} |-> L(i)], !.excl = [i \in {1, 2} |-> L(i)]]
Symmetry == Permutations(Exporters)
MCProfiles == {Plain, Paths, Server, Crowded}
=============================================================================
