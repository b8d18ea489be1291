----------------------------- MODULE ImportGraph -----------------------------
(***************************************************************************)
(* The import graph of a project and what agda_impact and a capture derive *)
(* from it.  A file declares at most one module and imports modules by     *)
(* name; a name is resolved to the first file of the walk that declares it.*)
(* Names that no file declares (libraries, built-ins) are ignored.         *)
(*                                                                         *)
(* A tree is a function from files, numbered in the order they are walked, *)
(* to records [name, imports, content]; content is "whole", "oversized"    *)
(* (over MAX_AGDA_SOURCE_BYTES) or "unreadable".                           *)
(*                                                                         *)
(* Source: src/agda/import-graph.ts,                                       *)
(* src/agda/session-capture/import-closure-hash.ts,                        *)
(* src/tools/agent-ux/project-tools.ts.                                    *)
(***************************************************************************)
EXTENDS Naturals, FiniteSets

(* The files that are nodes: readAgdaModule gives nothing for a file it    *)
(* cannot read.                                                            *)
Modules(tree) == {f \in DOMAIN tree : tree[f].content # "unreadable"}

(* The files that declare the module nm.                                   *)
Declaring(tree, nm) == {f \in Modules(tree) : tree[f].name = nm}

(* moduleNameToFile: the file walked first keeps the name.                 *)
IsFileOf(tree, nm, f) == /\ f \in Declaring(tree, nm)
                         /\ \A g \in Declaring(tree, nm) : f <= g

Imports(tree) ==
  [f \in Modules(tree) |-> {g \in Modules(tree) :
                              \E nm \in tree[f].imports : IsFileOf(tree, nm, g)}]

ImportedBy(tree) ==
  LET edges == Imports(tree)
  IN [f \in Modules(tree) |-> {g \in Modules(tree) : f \in edges[g]}]

(* Mutated form of CollectReachable: one level of edges.                   *)
CollectDirect(edges, start) == edges[start] \ {start}

(* The breadth-first search, a level of the queue at a time; start is never*)
(* part of the result, be it on a cycle.                                   *)
CollectReachable(edges, start) ==
  LET seen[n \in 0..Cardinality(DOMAIN edges)] ==
        IF n = 0 THEN edges[start] \ {start}
                 ELSE seen[n - 1] \cup ((UNION {edges[f] : f \in seen[n - 1]}) \ {start})
  IN seen[Cardinality(DOMAIN edges)]

(* computeImpact, of a file that is a node: null otherwise.                *)
ComputeImpact(tree, f) ==
  LET imports    == Imports(tree)
      importedBy == ImportedBy(tree)
  IN [directDependents       |-> importedBy[f],
      transitiveDependents   |-> CollectReachable(importedBy, f),
      directDependencies     |-> imports[f],
      transitiveDependencies |-> CollectReachable(imports, f)]

(* Nothing, of a file that is no node.                                     *)
ClosureFileSet(tree, f) ==
  LET imports == Imports(tree)
  IN IF f \in DOMAIN imports THEN {f} \cup imports[f] \cup CollectReachable(imports, f) ELSE {}

(* inlineFirstPartySources: what a capture carries, and what it leaves out *)
(* for its size.                                                           *)
InlineFirstPartySources(tree, f) ==
  LET files  == ClosureFileSet(tree, f)
      inline == {g \in files : tree[g].content = "whole"}
  IN [sources |-> inline, skipped |-> files \ inline]

(* What agda_postulate_closure scans: a file without dependencies is asked *)
(* for its imports once more.                                              *)
PostulateClosure(tree, f) ==
  LET impact == ComputeImpact(tree, f)
      deps   == {f} \cup impact.directDependencies \cup impact.transitiveDependencies
  IN IF Cardinality(deps) <= 1 THEN deps \cup Imports(tree)[f] ELSE deps

(* The failing file that agda_bulk_status puts the failure of f down to: a *)
(* failing file that the errors of f name, or the last one f depends on, or*)
(* f itself.                                                               *)
RootCause(tree, failed, named, f) ==
  LET failedDeps == failed \cap ComputeImpact(tree, f).transitiveDependencies
  IN IF failed \cap named # {} THEN CHOOSE g \in failed \cap named : TRUE
     ELSE IF failedDeps = {} THEN f
     ELSE CHOOSE g \in failedDeps : \A h \in failedDeps : h <= g

-----------------------------------------------------------------------------
(* Reference definitions: a set of files is closed if it has every file    *)
(* that one of its own imports; what f needs is what every closed set with *)
(* f in it has.                                                            *)
ClosedSets(edges) == {S \in SUBSET DOMAIN edges : \A g \in S : edges[g] \subseteq S}

Needs(tree) == LET closed == ClosedSets(Imports(tree))
               IN [f \in Modules(tree) |->
                     {g \in Modules(tree) : \A S \in closed : f \in S => g \in S}]

=============================================================================
