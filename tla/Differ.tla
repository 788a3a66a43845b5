------------------------------- MODULE Differ -------------------------------
(***************************************************************************)
(* The diff Cavix computes where the host gives none (Azure DevOps), and   *)
(* the parser that reads every host's diff: packages/differ and            *)
(* packages/core/src/diff.ts.  The lines they agree on are the lines an    *)
(* inline comment may be put on.                                           *)
(*                                                                         *)
(* A version of a file is a sequence of texts, or NoVersion; a diff is a   *)
(* sequence of raw lines, each a tuple of its mark and what follows it.    *)
(* Two texts are special because a mark in front of them makes them look   *)
(* like a header: "++ z" and "-- z".                                       *)
(***************************************************************************)
EXTENDS Integers, Sequences, FiniteSets, FiniteSetsExt, SequencesExt

CONSTANT NoVersion, NoFile

Least(a, b) == IF a < b THEN a ELSE b

Numbers(n) == [i \in 1..n |-> i]

(***************************************************************************)
(* diffLines: the furthest point reached on each diagonal k = x - y, round *)
(* by round, and the way back.                                             *)
(***************************************************************************)
Snake(a, b, x, y) ==
  Max({n \in 0..Least(Len(a) - x, Len(b) - y) : \A i \in 1..n : a[x + i] = b[y + i]})

(* The change of GoesDown that prefers the shorter of the two ways. *)
GoesDownTheShorter(v, d, k) == k = -d \/ (k # d /\ v[k - 1] > v[k + 1])

GoesDown(v, d, k) == k = -d \/ (k # d /\ v[k - 1] < v[k + 1])

Advance(a, b, v, d, k) ==
  LET x == IF GoesDown(v, d, k) THEN v[k + 1] ELSE v[k - 1] + 1
  IN IF x > Len(a) \/ x - k > Len(b) THEN x ELSE x + Snake(a, b, x, x - k)

Round(a, b, v, d) ==
  [k \in DOMAIN v |-> IF \E i \in 0..d : k = 2 * i - d THEN Advance(a, b, v, d, k) ELSE v[k]]

(* Element d + 1 is the state when round d begins. *)
Furthest(a, b, max) ==
  FoldLeft(LAMBDA states, d : Append(states, Round(a, b, states[d], d - 1)),
           <<[k \in (-(max + 1))..(max + 1) |-> 0]>>, Numbers(max + 1))

Reached(a, b, v) == \E k \in DOMAIN v : v[k] >= Len(a) /\ v[k] - k >= Len(b)

Op(kind, line) == [kind |-> kind, line |-> line]

(* Undoes round d from the point s. *)
Undo(a, b, v, s, d) ==
  LET k == s.x - s.y
      x == IF GoesDown(v, d, k) THEN v[k + 1] ELSE v[k - 1]
      y == x - (IF GoesDown(v, d, k) THEN k + 1 ELSE k - 1)
      same == Max({0, Least(s.x - x, s.y - y)})
      px == s.x - same
      py == s.y - same
      equals == [i \in 1..same |-> Op("equal", a[px + i])]
  IN CASE s.x = 0 /\ s.y = 0 -> s
       [] d = 0 -> [x |-> px, y |-> py, ops |-> equals \o s.ops]
       [] px = x -> [x |-> px, y |-> py - 1, ops |-> <<Op("insert", b[py])>> \o equals \o s.ops]
       [] OTHER -> [x |-> px - 1, y |-> py, ops |-> <<Op("delete", a[px])>> \o equals \o s.ops]

Backtrack(a, b, states, rounds) ==
  FoldLeft(LAMBDA s, n : Undo(a, b, states[rounds + 2 - n], s, rounds + 1 - n),
           [x |-> Len(a), y |-> Len(b), ops |-> <<>>], Numbers(rounds + 1)).ops

Edits(ops) == [ok |-> TRUE, ops |-> ops]
Refused(reason) == [ok |-> FALSE, reason |-> reason]
All(kind, lines) == [i \in DOMAIN lines |-> Op(kind, lines[i])]

(* The rounds that reach the end, and the way back from the first. *)
Ends(a, b, states) == {d \in 0..(Len(states) - 2) : Reached(a, b, states[d + 2])}
Traced(a, b, states, ends) ==
  IF ends = {} THEN Refused("too many edits") ELSE Edits(Backtrack(a, b, states, Min(ends)))
Searched(a, b, states) == Traced(a, b, states, Ends(a, b, states))

DiffLines(a, b, maxEdits, maxLines) ==
  CASE Len(a) > maxLines \/ Len(b) > maxLines -> Refused("too many lines")
    [] a = <<>> /\ Len(b) <= maxLines -> Edits(All("insert", b))
    [] b = <<>> /\ a # <<>> /\ Len(a) <= maxLines -> Edits(All("delete", a))
    [] OTHER -> Searched(a, b, Furthest(a, b, Least(Len(a) + Len(b), maxEdits)))

(***************************************************************************)
(* buildUnifiedDiff.                                                       *)
(***************************************************************************)
Raw(mark, text) ==
  CASE mark = "+" /\ text = "++ z" -> <<"+++", "z">>
    [] mark = "-" /\ text = "-- z" -> <<"---", "z">>
    [] OTHER -> <<mark, text>>

Mark(op) == CASE op.kind = "equal" -> " " [] op.kind = "delete" -> "-" [] OTHER -> "+"

Count(ops, from, to, kinds) == Cardinality({i \in from..to : ops[i].kind \in kinds})

(* Changes that are close enough share a hunk. *)
ToHunks(ops, context) ==
  LET changed == {i \in DOMAIN ops : ops[i].kind # "equal"}
      starts == {i \in changed : \A j \in changed : j < i => i - j > 2 * context + 1}
      end(s) == Max({i \in changed : i >= s /\ \A t \in starts : t > s => i < t})
      hunk(s) ==
        LET from == Max({1, s - context})
            to == Least(Len(ops), end(s) + context)
            old == Count(ops, from, to, {"equal", "delete"})
            new == Count(ops, from, to, {"equal", "insert"})
        IN <<<<"@@", IF old = 0 THEN 0 ELSE 1 + Count(ops, 1, from - 1, {"equal", "delete"}), old,
               IF new = 0 THEN 0 ELSE 1 + Count(ops, 1, from - 1, {"equal", "insert"}), new>>>>
           \o [i \in 1..(to - from + 1) |-> Raw(Mark(ops[from + i - 1]), ops[from + i - 1].line)]
      at == SelectSeq(Numbers(Len(ops)), LAMBDA i : i \in starts)
  IN FoldLeft(LAMBDA out, s : out \o hunk(s), <<>>, at)

Lines(version) == IF version = NoVersion THEN <<>> ELSE version

Header(file, old) ==
  <<<<"git", old, file.path>>,
    <<"---", IF file.before = NoVersion THEN NoFile ELSE old>>,
    <<"+++", IF file.after = NoVersion THEN NoFile ELSE file.path>>>>

Headed(file, hunks) ==
  IF hunks = <<>> THEN <<>>
  ELSE Header(file, IF file.after = NoVersion THEN file.path ELSE file.oldPath) \o hunks

Rendered(file, context, outcome) ==
  IF outcome.ok THEN [diff |-> Headed(file, ToHunks(outcome.ops, context)), unrendered |-> {}]
  ELSE [diff |-> <<>>, unrendered |-> {file.path}]

(* A file is rendered, named with the reason why not, or the same in both
   versions. *)
RenderFile(file, context, maxEdits, maxLines) ==
  IF file.binary \/ (file.before = NoVersion /\ file.after = NoVersion)
  THEN [diff |-> <<>>, unrendered |-> {file.path}]
  ELSE Rendered(file, context, DiffLines(Lines(file.before), Lines(file.after), maxEdits, maxLines))

BuildUnifiedDiff(files, context, maxEdits, maxLines) ==
  FoldLeft(LAMBDA built, file :
             LET one == RenderFile(file, context, maxEdits, maxLines)
             IN [diff |-> built.diff \o one.diff, unrendered |-> built.unrendered \cup one.unrendered],
           [diff |-> <<>>, unrendered |-> {}], files)

(***************************************************************************)
(* parseUnifiedDiff, one raw line after the other.  A removed line does    *)
(* not move the number of the line after the change.                       *)
(***************************************************************************)
NoCurrent == [path |-> NoFile, deleted |-> FALSE, added |-> {}, context |-> {}, from |-> NoFile, similarity |-> 100]

Flushed(s) == IF s.open THEN Append(s.files, s.current) ELSE s.files

ParseLine(s, raw) ==
  LET mark == raw[1]
      put(field, value) == [s EXCEPT !.open = TRUE, !.current[field] = value]
  IN CASE mark = "git" -> [files |-> Flushed(s), open |-> TRUE, current |-> NoCurrent, hunk |-> FALSE, line |-> s.line, old |-> NoFile]
       [] mark = "similarity" /\ s.open -> put("similarity", raw[2])
       [] mark = "from" /\ s.open -> [put("from", raw[2]) EXCEPT !.old = raw[2]]
       [] mark = "to" /\ s.open -> put("path", raw[2])
       [] mark = "---" -> [s EXCEPT !.open = TRUE, !.old = raw[2]]
       [] mark = "+++" /\ raw[2] = NoFile -> [put("path", s.old) EXCEPT !.current.deleted = TRUE]
       [] mark = "+++" /\ raw[2] # NoFile -> put("path", raw[2])
       [] mark = "@@" /\ s.open -> [s EXCEPT !.hunk = TRUE, !.line = raw[4]]
       [] mark = "+" /\ s.hunk -> [s EXCEPT !.line = @ + 1, !.current.added = @ \cup {s.line}]
       [] mark = " " /\ s.hunk -> [s EXCEPT !.line = @ + 1, !.current.context = @ \cup {s.line}]
       [] OTHER -> s

ParseUnifiedDiff(diff) ==
  LET start == [files |-> <<>>, open |-> FALSE, current |-> NoCurrent, hunk |-> FALSE, line |-> 0, old |-> NoFile]
      files == Flushed(FoldLeft(ParseLine, start, diff))
  IN SelectSeq(files, LAMBDA f : f.path # NoFile \/ f.deleted)

(* A comment may be put on an added line of a file that is still there. *)
CommentableLines(files) ==
  UNION {{<<files[i].path, n>> : n \in files[i].added} : i \in {j \in DOMAIN files : ~files[j].deleted}}
-----------------------------------------------------------------------------
(* The subsequences of a sequence, and the length of the longest of both. *)
Subsequences(a) ==
  {FoldLeft(LAMBDA kept, i : IF i \in I THEN Append(kept, a[i]) ELSE kept, <<>>, Numbers(Len(a))) : I \in SUBSET DOMAIN a}

Common(a, b) == Max({Len(c) : c \in Subsequences(a) \cap Subsequences(b)})

Texts(ops, kinds) ==
  LET kept == SelectSeq(ops, LAMBDA op : op.kind \in kinds) IN [i \in DOMAIN kept |-> kept[i].line]

(* The edits read as the old version without the insertions and as the new
   one without the deletions, there are as few of them as possible, and the
   diff is refused only when there are more than the limit (diffLines). *)
DiffIsExact(a, b, maxEdits) ==
  \A outcome \in {DiffLines(a, b, maxEdits, 100)}, fewest \in {Len(a) + Len(b) - 2 * Common(a, b)} :
    IF outcome.ok
    THEN /\ Texts(outcome.ops, {"equal", "delete"}) = a
         /\ Texts(outcome.ops, {"equal", "insert"}) = b
         /\ Count(outcome.ops, 1, Len(outcome.ops), {"insert", "delete"}) = fewest
    ELSE fewest > maxEdits

Looks(version, text) == text \in Range(Lines(version))

(* The numbers that inserted lines have in the new version. *)
Inserted(ops) == {1 + Count(ops, 1, i - 1, {"equal", "insert"}) : i \in {j \in DOMAIN ops : ops[j].kind = "insert"}}

(* What the parser calls an added line is one: its number is that of a line
   of the new version that the diff inserts, every inserted line has its
   number there, and the numbers of the context are those of lines both
   versions have; unless a line of the file looks like a header once it is
   marked (toHunks, parseUnifiedDiff, commentableLines). *)
LinesArePlaced(file, context) ==
  LET a == Lines(file.before)
      b == Lines(file.after)
  IN ~Looks(file.after, "++ z") /\ ~Looks(file.before, "-- z") =>
       \A built \in {BuildUnifiedDiff(<<file>>, context, 100, 100)}, inserted \in {Inserted(DiffLines(a, b, 100, 100).ops)} :
       \A parsed \in {ParseUnifiedDiff(built.diff)} :
         /\ Len(parsed) <= 1
         /\ built.unrendered = {} /\ a # b => Len(parsed) = 1
         /\ \A i \in DOMAIN parsed :
              /\ parsed[i].path = file.path /\ parsed[i].deleted = (file.after = NoVersion)
              /\ parsed[i].added = inserted
              /\ \A n \in parsed[i].context : n \in DOMAIN b /\ b[n] \in Range(a)
              /\ parsed[i].context \cap inserted = {}
         /\ CommentableLines(parsed) = IF file.after = NoVersion THEN {} ELSE {file.path} \X inserted
=============================================================================
