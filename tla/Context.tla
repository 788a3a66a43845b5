------------------------------- MODULE Context -------------------------------
(***************************************************************************)
(* What the reviewing agents are given to read besides the diff:           *)
(*                                                                         *)
(*   src/packages/context/src/rules.ts       the team's rules              *)
(*   src/packages/context/src/assembler.ts   the rest, under a budget      *)
(*                                                                         *)
(* A path is a sequence of names, a glob one of names, "*" and "**".  A    *)
(* text is its size in tokens.  A file is [path, name, applies, size],     *)
(* name being the frontmatter's, or NoName.                                *)
(***************************************************************************)
EXTENDS Integers, Sequences, SequencesExt, FiniteSetsExt

CONSTANTS
  ConventionFiles, \* names of files that are rules wherever they lie (CONVENTION_FILES)
  Stem,            \* a file's name without its ending, in lower case   (slugOf)
  NoName,
  Budget,          \* tokens of the whole context     (budgetTokens)
  Oversize,        \* longer texts are compressed     (compressOverChars)
  Brief            \* what compression leaves

\* What the constants are.
ContextAssumption == {Budget, Oversize, Brief} \subseteq Nat /\ Brief <= Oversize

-----------------------------------------------------------------------------
(* Rules *)

\* globToRegExp: a path matches if its names can be laid along the glob in
\* order, one to each name or "*", any number to each "**" and at least one to
\* a last "**".
Matches(glob, path) ==
  \E at \in [DOMAIN path -> DOMAIN glob] :
    /\ \A i \in DOMAIN path : glob[at[i]] \in {"*", "**", path[i]}
    /\ \A i, k \in DOMAIN path : i < k => at[i] <= at[k]
    /\ \A g \in DOMAIN glob :
         LET there == {i \in DOMAIN path : at[i] = g}
         IN IF glob[g] = "**" THEN g = Len(glob) => there # {} ELSE \E i \in there : there = {i}

InRuleDir(f) ==
  \E i \in 1 .. Len(f.path) - 2 : f.path[i] = ".cavix" /\ f.path[i + 1] = "rules"
IsConvention(f) == Last(f.path) \in ConventionFiles

\* parseRuleFile; a file with nothing in it is no rule.
IdOf(f) == IF f.name = NoName THEN Stem[Last(f.path)] ELSE f.name
Rule(f, source) ==
  [id |-> IdOf(f), applies |-> f.applies, size |-> f.size, source |-> source, path |-> f.path]
Parsed(files, source) ==
  LET full == SelectSeq(files, LAMBDA f : f.size > 0)
  IN [i \in DOMAIN full |-> Rule(full[i], source)]

\* A rule takes the place of an earlier one with its name: a convention file
\* that of a rule file, as the convention files come last.
Put(rules, r) ==
  IF \E i \in DOMAIN rules : rules[i].id = r.id
    THEN [i \in DOMAIN rules |-> IF rules[i].id = r.id THEN r ELSE rules[i]]
    ELSE Append(rules, r)

CollectRules(files) ==
  FoldLeft(Put, <<>>, Parsed(SelectSeq(files, InRuleDir), "repo")
                      \o Parsed(SelectSeq(files, IsConvention), "convention-file"))

Applies(r, paths) == r.applies = {} \/ \E p \in paths, g \in r.applies : Matches(g, p)
RulesFor(rules, paths) == SelectSeq(rules, LAMBDA r : Applies(r, paths))

-----------------------------------------------------------------------------
(* The context of a change.  A change is [diff, paths] with the blast radius
   as the graph gives it: symbols, each with the file it is in and the size of
   its text, and the texts of past discussions and related files. *)

\* blastRadius: the files of the changed symbols and of their callers.
BlastFiles(change) == {s.path : s \in Range(change.changed) \cup Range(change.callers)}

\* The paths the rules are chosen by.
RulePaths(change) == IF BlastFiles(change) # {} THEN BlastFiles(change) ELSE change.paths

Item(kind, size, what) == [kind |-> kind, size |-> size, what |-> what]
Items(kind, texts) == [i \in DOMAIN texts |-> Item(kind, texts[i].size, texts[i])]

\* compressOversized: the diff and the rules stay word for word.
Compressed(item) ==
  IF item.kind \notin {"diff", "rule"} /\ item.size > Oversize THEN [item EXCEPT !.size = Brief]
  ELSE item

\* The items as assemble() makes them, which is their order of priority.
Assembled(change, rules) ==
  LET items == <<Item("diff", change.diff, NoName)>>
               \o Items("rule", RulesFor(rules, RulePaths(change)))
               \o Items("caller", change.callers)
               \o Items("definition", change.changed)
               \o Items("discussion", change.discussions)
               \o Items("related", change.related)
  IN [i \in DOMAIN items |-> Compressed(items[i])]

\* The change of Packed that leaves out what is too big even when it is alone.
PackedStrictly(items) ==
  FoldLeft(LAMBDA p, it : IF p.used + it.size <= Budget
                            THEN [p EXCEPT !.kept = Append(p.kept, it), !.used = p.used + it.size]
                            ELSE [p EXCEPT !.dropped = p.dropped + 1],
           [kept |-> <<>>, used |-> 0, dropped |-> 0], items)

\* pack: whatever still fits is taken in, the first whether it fits or not.
Packed(items) ==
  FoldLeft(LAMBDA p, it : IF p.used + it.size <= Budget \/ p.kept = <<>>
                            THEN [p EXCEPT !.kept = Append(p.kept, it), !.used = p.used + it.size]
                            ELSE [p EXCEPT !.dropped = p.dropped + 1],
           [kept |-> <<>>, used |-> 0, dropped |-> 0], items)

Assemble(change, rules) == Packed(Assembled(change, rules))

-----------------------------------------------------------------------------
RulesIn(context) == {context.kept[i].what : i \in {k \in DOMAIN context.kept : context.kept[k].kind = "rule"}}

\* A rule gives way to one of its name that comes later: to any convention
\* file if it is a rule file's, and to later files of its own kind.
GivesWay(files, i) ==
  \E k \in DOMAIN files :
    /\ files[k].size > 0 /\ IdOf(files[k]) = IdOf(files[i])
    /\ \/ IsConvention(files[k]) /\ (k > i \/ ~IsConvention(files[i]))
       \/ InRuleDir(files[k]) /\ k > i /\ ~IsConvention(files[i])

\* What the team wrote is put before the agents if, and only if, it is for the
\* whole repository or for a file the change reaches, as the graph has it (the
\* files of the diff when the graph has none), and nothing took its place.
RulesFollowTheChange(change, files, items) ==
  \A i \in DOMAIN files :
    LET f == files[i]
        given == \E k \in DOMAIN items :
                   items[k].kind = "rule" /\ items[k].what.path = f.path
                   /\ items[k].what.applies = f.applies /\ items[k].size = f.size
        meant == f.applies = {} \/ \E g \in f.applies :
                   IF change.changed \o change.callers = <<>> THEN \E p \in change.paths : Matches(g, p)
                   ELSE \E t \in Range(change.changed \o change.callers) : Matches(g, t.path)
    IN given <=> (InRuleDir(f) \/ IsConvention(f)) /\ f.size > 0 /\ meant /\ ~GivesWay(files, i)

\* The agents always read the diff; the budget binds everything beside it; what
\* was left out is counted, and would not have fitted beside what ranks above
\* it; and a rule is the team's own words or not there, and follows the change.
ContextIsSound(change, files) ==
  LET items == Assembled(change, CollectRules(files))
      c == Packed(items)
      size(s) == FoldLeft(LAMBDA n, it : n + it.size, 0, s)
      above(i) == SelectSeq(SubSeq(items, 1, i - 1), LAMBDA it : it \in Range(c.kept))
  IN /\ c.kept # <<>> /\ c.kept[1] = Item("diff", change.diff, NoName)
     /\ c.used = size(c.kept) /\ (c.used > Budget => Len(c.kept) = 1)
     /\ Len(c.kept) + c.dropped = Len(items)
     /\ \A i \in DOMAIN items : items[i] \notin Range(c.kept) => size(above(i)) + items[i].size > Budget
     /\ \A r \in RulesIn(c) :
          \E f \in Range(files) : r.path = f.path /\ r.applies = f.applies /\ r.size = f.size
     /\ RulesFollowTheChange(change, files, items)
=============================================================================
