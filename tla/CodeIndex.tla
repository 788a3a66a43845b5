------------------------------ MODULE CodeIndex ------------------------------
(***************************************************************************)
(* The call graph of a repository, built at once or kept up to date file   *)
(* by file, saved and restored (src/packages/analyzer/src/indexer.ts).     *)
(*                                                                         *)
(* What a parser makes of a file is its Contents: the functions it defines *)
(* in order of their lines, the calls it makes, and the modules and names  *)
(* it imports.  A symbol is [path, name, line, at]; at tells apart symbols *)
(* of one name in one file: 0 for the first, the line for the others.      *)
(***************************************************************************)
EXTENDS Integers, Sequences, FiniteSets, SequencesExt

CONSTANTS
  Paths,      \* files of the repository
  Contents,   \* what a file may hold: [defs, calls, modules, names]
  Gone,       \* no such file
  Depth,      \* how far callers are followed          (depth)
  FanoutCap,  \* a symbol with more callers is not expanded
  MaxCommits  \* bound: changes to the repository

\* What the constants are.
CodeIndexAssumption == {Depth, FanoutCap, MaxCommits} \subseteq Nat /\ Gone \notin Contents

VARIABLES
  head,      \* the repository: path -> Contents or Gone
  files,     \* the index's records: path -> the Contents it was made from, or Gone
  symbols,   \* the index's symbols, in the order they were entered
  verified,  \* paths whose content this process has read
  commits

vars == <<head, files, symbols, verified, commits>>

-----------------------------------------------------------------------------
(* Parsing *)

Symbol(p, defs, i) ==
  [path |-> p, name |-> defs[i].name, line |-> defs[i].line,
   at |-> IF \E k \in 1 .. i - 1 : defs[k].name = defs[i].name THEN defs[i].line ELSE 0]
SymbolsOf(p, c) == [i \in DOMAIN c.defs |-> Symbol(p, c.defs, i)]

\* The definition whose body holds a line: the last one that starts before it.
EnclosingDef(defs, line) ==
  {i \in DOMAIN defs : defs[i].line <= line /\ \A k \in DOMAIN defs : defs[k].line <= line => k <= i}

\* enclosingIdAtLine: its plain id, whichever of the file's symbols of that name
\* it is; no id for a call outside of all functions.
CallerIds(p, c, line) == {[path |-> p, name |-> c.defs[i].name, at |-> 0] : i \in EnclosingDef(c.defs, line)}
Id(s) == [path |-> s.path, name |-> s.name, at |-> s.at]

(* The index *)

\* ingest: new symbols go to the end; one whose id is there already is replaced.
Ingested(known, p, c) ==
  FoldLeft(LAMBDA acc, s : IF \E i \in DOMAIN acc : Id(acc[i]) = Id(s)
                             THEN [i \in DOMAIN acc |-> IF Id(acc[i]) = Id(s) THEN s ELSE acc[i]]
                             ELSE Append(acc, s),
           known, SymbolsOf(p, c))

RemovedSymbols(p) ==
  IF files[p] = Gone THEN symbols
  ELSE LET mine == {Id(s) : s \in Range(SymbolsOf(p, files[p]))}
       IN SelectSeq(symbols, LAMBDA s : Id(s) \notin mine)

\* resolveCallee: the symbols a call may mean, in order, and how sure that is.
Named(callee) == SelectSeq(symbols, LAMBDA s : s.name = callee)
Resolved(p, callee) ==
  LET ids == Named(callee)
      same == SelectSeq(ids, LAMBDA s : s.path = p)
      imported == SelectSeq(ids, LAMBDA s : s.path \in files[p].modules \/ callee \in files[p].names)
  IN CASE same # <<>> -> [to |-> same[1], how |-> IF Len(same) = 1 THEN "exact" ELSE "heuristic"]
       [] same = <<>> /\ imported # <<>> ->
            [to |-> imported[1], how |-> IF Len(imported) = 1 THEN "exact" ELSE "heuristic"]
       [] same = <<>> /\ imported = <<>> ->
            [to |-> ids[1], how |-> IF Len(ids) = 1 THEN "exact" ELSE "ambiguous"]

\* resolveEdges: one edge for each call of a known name that is not to the
\* function it stands in.
Sites == UNION {{[path |-> p, callee |-> c.callee, line |-> c.line] : c \in files[p].calls} :
                  p \in {q \in Paths : files[q] # Gone}}
EdgesOf(site) ==
  IF Named(site.callee) = <<>> THEN {}
  ELSE LET r == Resolved(site.path, site.callee)
           froms == CallerIds(site.path, files[site.path], site.line)
       IN {[from |-> f, to |-> Id(r.to), how |-> r.how] : f \in froms \ {Id(r.to)}}
Edges == UNION {EdgesOf(site) : site \in Sites}

-----------------------------------------------------------------------------
(* The blast radius of a set of symbols *)

Weakest(hows) ==
  CASE "ambiguous" \in hows -> "ambiguous"
    [] "ambiguous" \notin hows /\ "heuristic" \in hows -> "heuristic"
    [] OTHER -> IF hows = {} THEN "none" ELSE "exact"

\* One step outwards: the callers of the frontier, except of a symbol with too
\* many of them; an edge is as good as its weakest call, and no better than a
\* guess when its caller was not read by this process.
Outwards(radius, changed, edges) ==
  LET callers(id) == {e.from : e \in {d \in edges : d.to = id}}
      hot == {id \in radius.frontier : Cardinality(callers(id)) > FanoutCap}
      taken == {e \in edges : e.to \in radius.frontier \ hot}
      next == {e.from : e \in taken} \ (radius.seen \cup changed)
  IN [frontier |-> next, seen |-> radius.seen \cup next, hot |-> radius.hot \cup hot,
      hows |-> radius.hows \cup {e.how : e \in taken}
                 \cup {"heuristic" : e \in {d \in taken : d.from.path \notin verified}}]

BlastRadius(changed) ==
  LET edges == Edges
  IN FoldLeft(LAMBDA radius, n : Outwards(radius, changed, edges),
              [frontier |-> changed, seen |-> {}, hot |-> {}, hows |-> {}],
              [n \in 1..Depth |-> n])

-----------------------------------------------------------------------------
Present == {p \in Paths : head[p] # Gone}

\* indexFiles on a new index, file by file in any order.
IndexFiles(order) ==
  FoldLeft(LAMBDA acc, p : Ingested(acc, p, head[p]), <<>>, order)

Init ==
  /\ head \in [Paths -> Contents \cup {Gone}]
  /\ files = head /\ verified = Present /\ commits = 0
  /\ \E order \in SetToSeqs(Present) : symbols = IndexFiles(order)

\* The change of NextReview that takes what was read before for read now.
NextReviewTrusts(p, c) ==
  /\ commits < MaxCommits /\ commits' = commits + 1
  /\ c # head[p] /\ head' = [head EXCEPT ![p] = c]
  /\ UNCHANGED <<files, symbols, verified>>

\* The repository changes, and the review of the change starts from the saved
\* graph: toSnapshot and fromSnapshot.
NextReview(p, c) ==
  /\ commits < MaxCommits /\ commits' = commits + 1
  /\ c # head[p] /\ head' = [head EXCEPT ![p] = c]
  /\ verified' = {}
  /\ UNCHANGED <<files, symbols>>

\* updateFile: a file as the index knows it is confirmed, another one read anew.
UpdateFile(p) ==
  /\ head[p] # Gone
  /\ verified' = verified \cup {p}
  /\ IF files[p] = head[p] THEN UNCHANGED <<files, symbols>>
     ELSE /\ files' = [files EXCEPT ![p] = head[p]]
          /\ symbols' = Ingested(RemovedSymbols(p), p, head[p])
  /\ UNCHANGED <<head, commits>>

RemoveFile(p) ==
  /\ head[p] = Gone /\ files[p] # Gone
  /\ symbols' = RemovedSymbols(p) /\ files' = [files EXCEPT ![p] = Gone]
  /\ UNCHANGED <<head, verified, commits>>

Next ==
  \E p \in Paths :
    \/ UpdateFile(p) \/ RemoveFile(p)
    \/ \E c \in Contents \cup {Gone} : NextReview(p, c)

Spec == Init /\ [][Next]_vars

-----------------------------------------------------------------------------
\* Every variable has its type.
TypeOK ==
  /\ head \in [Paths -> Contents \cup {Gone}] /\ files \in [Paths -> Contents \cup {Gone}]
  /\ verified \subseteq Paths /\ commits \in 0..MaxCommits

\* "A stale entry may make a review slower, never wrong": however the index came
\* about, it holds the symbols that an index built from its files at once would
\* hold, each once; and a reach said to be exact rests on calls that the
\* repository makes today.
StaleOnlyWeakens ==
  /\ Range(symbols) = UNION {Range(SymbolsOf(p, files[p])) : p \in {q \in Paths : files[q] # Gone}}
  /\ \A i, k \in DOMAIN symbols : Id(symbols[i]) = Id(symbols[k]) => i = k
  /\ \A i \in DOMAIN symbols :
       LET me == Id(symbols[i])
           reach == BlastRadius({me})
       IN Weakest(reach.hows) = "exact" =>
            \A caller \in reach.seen :
              /\ head[caller.path] # Gone
              /\ \E call \in head[caller.path].calls :
                   call.callee \in {id.name : id \in reach.seen \cup {me}}

\* The blast radius holds exactly the callers that can be reached within Depth
\* steps without passing through a symbol reported as cut short.
ReachIsComplete ==
  LET edges == Edges
  IN \A i \in DOMAIN symbols :
       LET me == Id(symbols[i])
           reach == BlastRadius({me})
           chain(c) == /\ c[1] = me /\ \A n \in 1 .. Len(c) - 1 : c[n] \notin reach.hot
                       /\ \A n \in 1 .. Len(c) - 1 : \E e \in edges : e.to = c[n] /\ e.from = c[n + 1]
       IN reach.seen = {Id(symbols[k]) : k \in {k \in DOMAIN symbols :
                          /\ Id(symbols[k]) # me
                          /\ \E n \in 2 .. Depth + 1 :
                               \E c \in [1..n -> {Id(s) : s \in Range(symbols)}] :
                                 c[n] = Id(symbols[k]) /\ chain(c)}}
=============================================================================
