----------------------------- MODULE OrgImpact ------------------------------
(***************************************************************************)
(* Which other repositories a change of a contract reaches:                *)
(*                                                                         *)
(*   src/packages/orggraph/src/{contracts,consumers,types,orggraph}.ts     *)
(*   src/services/orchestrator/src/orggraph/blastRadius.ts                 *)
(*                                                                         *)
(* An interface or a call has a kind and an id.  An HTTP id is a method    *)
(* and a path, a path is a sequence of segments and Wildcard stands for a       *)
(* segment that is a variable.  A gRPC id is the words of its service and  *)
(* a method.  A contract file is a sequence of lines, of which only what   *)
(* the scanners look for is kept: what key the line holds.                 *)
(***************************************************************************)
EXTENDS Integers, Sequences, FiniteSets, SequencesExt

CONSTANTS
  Wildcard,         \* the segment "*"
  NoPath,      \* no path key
  Generic,     \* method names that say nothing       (GENERIC_METHOD_NAMES)
  MaxSites     \* call sites kept per reference        (MAX_SITES_PER_REF)

\* What the constants are.
OrgImpactAssumption == MaxSites \in Nat \ {0}

-----------------------------------------------------------------------------
(* Reading a repository.                                                   *)

\* An interface of a repository: [repo, kind, id, file].  An OpenAPI document
\* declares the methods under each of its path keys.
HttpProviders(repo, file, lines) ==
  UNION {{[repo |-> repo, kind |-> "http", file |-> file,
           id |-> [method |-> lines[i].method, path |-> lines[p].path]] :
            i \in {i \in (p + 1) .. Len(lines) :
                    lines[i].method # "none" /\ \A k \in (p + 1) .. i : lines[k].path = NoPath}} :
          p \in {p \in DOMAIN lines : lines[p].path # NoPath}}

\* A service of a .proto file is what stands before the first closing brace, so
\* an rpc with a body of its own ends the service there.
GrpcProviders(repo, file, service, lines) ==
  LET ends == {i \in 1 .. Len(lines) : lines[i].closes}
      seen == {i \in 1 .. Len(lines) : lines[i].rpc # "none" /\ \A e \in ends : i <= e}
  IN {[repo |-> repo, kind |-> "grpc", file |-> file,
       id |-> [service |-> service, method |-> lines[i].rpc]] : i \in seen}

\* A call site is kept unless its client's name and its method both say nothing.
CallSites(calls) ==
  SelectSeq(calls, LAMBDA c : c.kind = "grpc" => c.scope # {} \/ c.key.method \notin Generic)

\* capSites: the first MaxSites sites of each kind, key and scope.
Reference(c) == <<c.kind, c.key, c.scope>>

CapSites(calls) ==
  FoldLeft(LAMBDA out, c :
             IF Cardinality({i \in DOMAIN out : Reference(out[i]) = Reference(c)}) >= MaxSites
             THEN out ELSE Append(out, c),
           <<>>, calls)

\* ingestRepo: the repository's own part, and nothing else, is replaced.
\* graph is [providers: a sequence, calls: a function of the indexed repositories].
IngestRepo(graph, repo, provided, calls) ==
  [providers |-> SelectSeq(graph.providers, LAMBDA p : p.repo # repo) \o provided,
   calls |-> [r \in DOMAIN graph.calls \cup {repo} |->
                IF r = repo THEN CapSites(CallSites(calls)) ELSE graph.calls[r]]]

-----------------------------------------------------------------------------
(* Matching a call with an interface.                                      *)

\* The interface's path is the tail of the caller's, a variable on either side
\* matches, and a path of nothing but variables matches nothing.
HttpPathMatches(consumer, provider) ==
  LET offset == Len(consumer) - Len(provider) IN
  /\ Len(provider) > 0 /\ offset >= 0
  /\ \E i \in 1 .. Len(provider) : provider[i] # Wildcard
  /\ \A i \in 1 .. Len(provider) :
       Wildcard \in {provider[i], consumer[offset + i]} \/ provider[i] = consumer[offset + i]

Matches(c, iface) ==
  /\ c.kind = iface.kind
  /\ CASE c.kind = "package" -> c.key = iface.id
       [] c.kind = "grpc" ->
            /\ c.key.method = iface.id.method
            /\ \/ iface.id.service = {}
               \/ c.scope \cap iface.id.service # {}
               \/ c.key.method \notin Generic
       [] c.kind = "http" ->
            /\ c.key.method = iface.id.method
            /\ HttpPathMatches(c.key.path, iface.id.path)
       [] OTHER -> FALSE

-----------------------------------------------------------------------------
(* A diff of a contract file, and what it reaches.                         *)

\* The nearest path key at or above line i of a hunk, context lines included.
EnclosingPath(hunk, i) ==
  LET keys == {k \in 1 .. i : hunk[k].path # NoPath}
  IN IF keys = {} THEN NoPath ELSE hunk[CHOOSE k \in keys : \A m \in keys : m <= k].path

\* changedInterfaceIds: a change of a path key or of a method key counts for the
\* path, a change of an rpc line for its method.
ChangedPaths(hunks) ==
  UNION {{EnclosingPath(h, i) : i \in {i \in DOMAIN h :
            h[i].changed /\ (h[i].path # NoPath \/ h[i].method # "none")}} : h \in hunks} \ {NoPath}

ChangedRpcs(hunks) ==
  UNION {{h[i].rpc : i \in {i \in DOMAIN h : h[i].changed}} : h \in hunks} \ {"none"}

ChangedInterfaces(graph, repo, hunks) ==
  {p \in ToSet(graph.providers) :
     /\ p.repo = repo
     /\ CASE p.kind = "http" -> p.id.path \in ChangedPaths(hunks)
          [] p.kind = "grpc" -> p.id.method \in ChangedRpcs(hunks)
          [] OTHER -> FALSE}

\* impactedBy: an id stands for the first interface of that id, of any repository.
Declared(graph, id) ==
  graph.providers[CHOOSE i \in DOMAIN graph.providers :
                    /\ graph.providers[i].id = id
                    /\ \A k \in 1 .. (i - 1) : graph.providers[k].id # id]

ImpactedBy(graph, ids) ==
  {e \in [iface : {Declared(graph, id) : id \in ids}, repo : DOMAIN graph.calls] :
     /\ e.repo # e.iface.repo
     /\ \E i \in DOMAIN graph.calls[e.repo] : Matches(graph.calls[e.repo][i], e.iface)}

\* One finding per interface, graver when several repositories call it.
BlastRadius(graph, repo, hunks) ==
  LET edges == ImpactedBy(graph, {p.id : p \in ChangedInterfaces(graph, repo, hunks)})
  IN {[path |-> i.file, id |-> i.id, consumers |-> {e.repo : e \in {d \in edges : d.iface = i}}] :
        i \in {e.iface : e \in edges}}

-----------------------------------------------------------------------------
(* A change of a repository's contract file, as the property sees it: the  *)
(* file, the hunk lo .. hi with its changed lines, and the calls of one    *)
(* other repository.                                                       *)

Providers(change) ==
  IF change.kind = "http" THEN HttpProviders("mine", "contract", change.lines)
  ELSE GrpcProviders("mine", "contract", change.service, change.lines)

Hunk(change) ==
  [i \in 1 .. (change.hi - change.lo + 1) |->
     [path |-> change.lines[change.lo + i - 1].path, method |-> change.lines[change.lo + i - 1].method,
      rpc |-> change.lines[change.lo + i - 1].rpc, changed |-> change.lo + i - 1 \in change.changed]]

Findings(change) ==
  LET none == [providers |-> <<>>, calls |-> [r \in {} |-> <<>>]]
      mine == IngestRepo(none, "mine", SetToSeq(Providers(change)), <<>>)
  IN BlastRadius(IngestRepo(mine, "other", <<>>, change.calls), "mine", {Hunk(change)})

\* What line i of the file declares: the method of the path key above it, or an rpc.
DeclaredAt(change, i) ==
  {p \in Providers(change) :
     IF change.kind = "grpc" THEN p.id.method = change.lines[i].rpc
     ELSE \E k \in change.lo .. i :
            /\ change.lines[k].path = p.id.path /\ p.id.method = change.lines[i].method
            /\ \A m \in (k + 1) .. i : change.lines[m].path = NoPath}

\* Whoever calls what a changed line declares is named, however many call sites
\* the cap has dropped and although the path that owns the line is not changed
\* itself; and nothing is reported whose path, or rpc, no changed line touches.
EveryCallerIsNamed(change) ==
  LET found == Findings(change)
      calls == ToSet(CallSites(change.calls))
  IN /\ \A i \in change.changed : \A p \in DeclaredAt(change, i) :
          (\E c \in calls : Matches(c, p)) => \E f \in found : f.id = p.id /\ "other" \in f.consumers
     /\ \A f \in found : \E i \in change.changed :
          IF change.kind = "grpc" THEN change.lines[i].rpc = f.id.method
          ELSE \E k \in change.lo .. i : /\ change.lines[k].path = f.id.path
                                        /\ \A m \in (k + 1) .. i : change.lines[m].path = NoPath
=============================================================================
