---------------------------- MODULE StatusProofs ----------------------------
(***************************************************************************)
(* Theorems about module Status for every work tree, whatever directories   *)
(* lead into each other, for any number of files, edits and adds.           *)
(***************************************************************************)
EXTENDS Status, SequenceTheorems, FiniteSetTheorems, TLAPS

-----------------------------------------------------------------------------
(* What the index says of the files                                        *)

\* A file that is older than the look of add is the one that was staged: a
\* change after the look has the second of the look or a later one.
Staged(entry, a) ==
    LET node == work[a.dir][a.name]
    IN /\ entry.mtime \in 0..MaxClock /\ entry.looked \in 0..clock
       /\ entry.mtime <= entry.looked
       /\ node.kind = "file" /\ node.mtime < entry.looked =>
             node.content = entry.content

StagedIn(table) ==
    /\ IsFiniteSet(DOMAIN table)
    /\ DOMAIN table \subseteq UNION {Spellings(a) : a \in Addable}
    /\ \A a \in Addable : a.path \in DOMAIN table => Staged(table[a.path], a)

\* And before the bytes are read, it is the one add has looked at.
LookedAt(x) ==
    LET node == work[x.file.dir][x.file.name]
    IN /\ x.file \in Addable /\ x.key \in Spellings(x.file)
       /\ x.size \in Nat /\ x.mtime \in 0..MaxClock /\ x.looked \in 0..clock
       /\ x.mtime <= x.looked
       /\ node.kind = "file" /\ node.mtime < x.looked => Len(node.content) = x.size

FilesRight ==
    /\ work \in [Dirs -> [Names -> Nodes]]
    /\ clock \in 0..MaxClock
    /\ \A d \in Dirs, n \in Names :
          work[d][n].kind = "file" => work[d][n].mtime <= clock
    /\ \A x \in adding : LookedAt(x)
    /\ StagedIn(index) /\ StagedIn(handle)

-----------------------------------------------------------------------------
(* The calls of scan_directory                                             *)

Frames == [dir : Dirs, path : Seq(Names), len : 1..MaxPathLen - 1,
           links : 0..MaxLinks, todo : SUBSET Names,
           stage : {"looking", "comparing"}, at : Names \cup {0}]

\* Below a path that is cut nothing is ever listed.
Loud(f) == f.len < MaxPathLen - 1

\* Call i of the stack s reads a directory on the path p.
OnPath(s, i, p) ==
    /\ Loud(s[i]) /\ i <= Len(p)
    /\ \A k \in 1..i - 1 : s[i].path[k] = p[k]

\* The scan has still to come by p.
ToCome(s, p) == \E i \in 1..Len(s) : OnPath(s, i, p) /\ p[i] \in s[i].todo

\* The calls that list anything are in each other, and what leads from one to
\* the next is behind it.
Nested(s) ==
    /\ s \in Seq(Frames)
    /\ \A i \in 1..Len(s) :
          /\ s[i].path = <<>> => s[i].len = 1
          /\ Loud(s[i]) =>
                /\ Len(s[i].path) = i - 1
                /\ \A j \in 1..i - 1 : /\ OnPath(s, j, s[i].path)
                                       /\ s[i].path[j] \notin s[j].todo

StackRight ==
    /\ Nested(stack) /\ Len(stack) <= MaxStack
    /\ stack # <<>> => /\ exit = "none"
                       /\ stack[1].dir = Root /\ stack[1].links = 0
                       /\ stack[1].path = <<>>
    /\ \A i \in 1..Len(stack) - 1 : stack[i].stage = "looking"
    /\ In("comparing") =>
          /\ Loud(Top) /\ Top.at \in Names \ Top.todo
          /\ LengthOf(Top.at) < MaxPathLen
          /\ PathOf(Top.at) \in DOMAIN handle

\* A call on the way of a path reads the directory the path leads to.
WaysRight ==
    \A a \in Addable : \A way \in Ways(a) : \A i \in 1..Len(stack) :
        OnPath(stack, i, a.path) => /\ stack[i].dir = way[i].dir
                                    /\ stack[i].links = way[i].links
                                    /\ stack[i].len = way[i].len

-----------------------------------------------------------------------------
(* The lists                                                               *)

Comparing(p) == In("comparing") /\ PathOf(Top.at) = p

Once(list) == \A i, j \in DOMAIN list : list[i] = list[j] => i = j

ListsRight ==
    /\ modified \in Seq(Seq(Names)) /\ Len(modified) <= Capacity /\ Once(modified)
    /\ untracked \in Seq(Seq(Names)) /\ Len(untracked) <= Capacity /\ Once(untracked)
    /\ \A i \in DOMAIN untracked :
          untracked[i] \notin DOMAIN handle /\ ~ToCome(stack, untracked[i])
    /\ \A i \in DOMAIN modified :
          /\ modified[i] \in DOMAIN handle
          /\ ~ToCome(stack, modified[i]) /\ ~Comparing(modified[i])

\* The scan has come by a, and what it said is still so.
Judged(a) ==
    IF a.path \in DOMAIN handle
    THEN \/ Shows(modified, a.path)
         \/ ~Changed(work[a.dir][a.name], handle[a.path])
    ELSE Shows(untracked, a.path)

Complete ==
    (stack # <<>> \/ exit = "OK") /\ ~gaps =>
        \A a \in Addable : Steady(a) /\ Leads(a) =>
            ToCome(stack, a.path) \/ Comparing(a.path) \/ Judged(a)

CountsRight ==
    /\ edits \in 0..MaxEdits /\ adds \in 0..MaxAdds /\ runs \in 0..MaxRuns
    /\ exit \in {"none", "OK", "ERROR", "NOMEM", "killed"}
    /\ staged \subseteq DOMAIN handle /\ Cardinality(staged) <= Capacity

StatusInv ==
    CountsRight /\ FilesRight /\ StackRight /\ WaysRight /\ ListsRight /\ Complete
-----------------------------------------------------------------------------
(* Stacks                                                                  *)

\* What is said of the path of a call is said of its names.
LEMMA FrameFacts ==
    ASSUME NEW s \in Seq(Frames), NEW i \in 1..Len(s)
    PROVE  /\ Len(s) \in Nat
           /\ s[i] \in Frames
           /\ s[i].path \in Seq(Names) /\ Len(s[i].path) \in Nat
           /\ s[i].len \in 1..MaxPathLen - 1
           /\ s[i].todo \subseteq Names
<1>1. s[i] \in Frames
  OBVIOUS
<1> QED
  BY <1>1 DEF Frames

\* In t the innermost call of s is f, which has less to come.  If it is one
\* name less, the paths that go by that name are not to come, and the others
\* are.
Exchanged(s, t, f) ==
    /\ Nested(t) /\ Len(t) = Len(s)
    /\ t[Len(s)] = f
    /\ \A i \in 1..Len(s) - 1 : t[i] = s[i]
    /\ \A p : \A i \in 1..Len(s) : OnPath(t, i, p) <=> OnPath(s, i, p)
    /\ \A p : ToCome(t, p) => ToCome(s, p)
    /\ \A x : f.todo = s[Len(s)].todo \ {x} =>
          \A p : ToCome(s, p) =>
             \/ ToCome(t, p)
             \/ OnPath(s, Len(s), p) /\ p[Len(s)] = x
    /\ f.todo = s[Len(s)].todo => \A p : ToCome(s, p) => ToCome(t, p)

LEMMA Exchange ==
    ASSUME NEW s, Nested(s), s # <<>>,
           NEW f \in Frames,
           f.path = s[Len(s)].path, f.len = s[Len(s)].len,
           f.todo \subseteq s[Len(s)].todo
    PROVE  Exchanged(s, Append(SubSeq(s, 1, Len(s) - 1), f), f)
<1> DEFINE n == Len(s)
           t == Append(SubSeq(s, 1, n - 1), f)
<1>1. s \in Seq(Frames) /\ n \in Nat \ {0}
  BY DEF Nested
<1>2. /\ t \in Seq(Frames) /\ Len(t) = n /\ t[n] = f
      /\ \A i \in 1..n - 1 : t[i] = s[i]
  <2> DEFINE front == SubSeq(s, 1, n - 1)
  <2>1. /\ front \in Seq(Frames) /\ Len(front) = n - 1
        /\ \A i \in 1..n - 1 : front[i] = s[i]
    <3>1. /\ 1 \in 1..n + 1 /\ n - 1 \in 1 - 1..n
          /\ \A i \in 1..n - 1 : 1 + i - 1 = i
          /\ (n - 1) - 1 + 1 = n - 1
      BY <1>1
    <3> QED
      BY <1>1, <3>1, SubSeqProperties
  <2> HIDE DEF front
  <2>2. Append(front, f) \in Seq(Frames) /\ Len(Append(front, f)) = n
        /\ Append(front, f)[n] = f
        /\ \A i \in 1..n - 1 : Append(front, f)[i] = front[i]
    BY <1>1, <2>1
  <2> QED
    BY <2>1, <2>2 DEF front
<1> HIDE DEF t
<1>3. \A i \in 1..n : t[i].path = s[i].path /\ t[i].len = s[i].len
                      /\ t[i].todo \subseteq s[i].todo
  BY <1>1, <1>2
<1>4. \A p : \A i \in 1..n : OnPath(t, i, p) <=> OnPath(s, i, p)
  BY <1>3 DEF OnPath, Loud
<1>5. \A p : ToCome(t, p) => ToCome(s, p)
  BY <1>2, <1>3, <1>4 DEF ToCome
<1>6. Nested(t)
  <2>1. ASSUME NEW i \in 1..n
        PROVE  /\ t[i].path = <<>> => t[i].len = 1
               /\ Loud(t[i]) =>
                     /\ Len(t[i].path) = i - 1
                     /\ \A j \in 1..i - 1 : /\ OnPath(t, j, t[i].path)
                                            /\ t[i].path[j] \notin t[j].todo
    <3>1. /\ s[i].path = <<>> => s[i].len = 1
          /\ Loud(s[i]) =>
                /\ Len(s[i].path) = i - 1
                /\ \A j \in 1..i - 1 : /\ OnPath(s, j, s[i].path)
                                       /\ s[i].path[j] \notin s[j].todo
      BY DEF Nested
    <3>2. \A j \in 1..i - 1 : j \in 1..n
      BY <1>1
    <3> QED
      BY <1>3, <1>4, <3>1, <3>2 DEF Loud
  <2> QED
    BY <1>2, <2>1 DEF Nested
<1>7. ASSUME NEW x, f.todo = s[n].todo \ {x},
             NEW p, ToCome(s, p), ~(OnPath(s, n, p) /\ p[n] = x)
      PROVE  ToCome(t, p)
  <2>1. PICK i \in 1..n : OnPath(s, i, p) /\ p[i] \in s[i].todo
    BY <1>7 DEF ToCome
  <2>2. p[i] \in t[i].todo
    <3>1. CASE i = n
      BY <1>2, <1>7, <2>1, <3>1
    <3>2. CASE i # n
      <4>1. i \in 1..n - 1
        BY <1>1, <3>2
      <4> QED
        BY <1>2, <2>1, <4>1
    <3> QED
      BY <3>1, <3>2
  <2> QED
    BY <1>2, <1>4, <2>1, <2>2 DEF ToCome
<1>8. ASSUME f.todo = s[n].todo, NEW p, ToCome(s, p)
      PROVE  ToCome(t, p)
  <2>1. \A i \in 1..n : t[i].todo = s[i].todo
    BY <1>1, <1>2, <1>8
  <2> QED
    BY <1>2, <1>4, <1>8, <2>1 DEF ToCome
<1> QED
  BY <1>2, <1>4, <1>5, <1>6, <1>7, <1>8 DEF Exchanged, t

\* In t there is one call more, g: it lists nothing, or reads a directory whose
\* name, x, is behind the call above.
Pushed(s, t, g, x) ==
    /\ Nested(t) /\ Len(t) = Len(s) + 1
    /\ t[Len(t)] = g
    /\ \A i \in 1..Len(s) : t[i] = s[i]
    /\ \A p : \A i \in 1..Len(s) : OnPath(t, i, p) <=> OnPath(s, i, p)
    /\ \A p : OnPath(t, Len(t), p) <=>
          Loud(g) /\ Len(s) + 1 <= Len(p) /\ OnPath(s, Len(s), p) /\ p[Len(s)] = x
    /\ \A p : ToCome(t, p) =>
          ToCome(s, p) \/ (OnPath(s, Len(s), p) /\ p[Len(s)] = x)
    /\ \A p : ToCome(s, p) => ToCome(t, p)

LEMMA Push ==
    ASSUME NEW s, Nested(s), s # <<>>, NEW x, x \notin s[Len(s)].todo,
           NEW g \in Frames, g.path = <<>> => g.len = 1,
           Loud(g) => Loud(s[Len(s)]) /\ g.path = Append(s[Len(s)].path, x)
    PROVE  Pushed(s, Append(s, g), g, x)
<1> DEFINE n == Len(s)
           t == Append(s, g)
<1>1. s \in Seq(Frames) /\ n \in Nat \ {0} /\ n \in 1..Len(s)
  BY DEF Nested
<1>2. /\ t \in Seq(Frames) /\ Len(t) = n + 1 /\ t[n + 1] = g
      /\ \A i \in 1..n : t[i] = s[i]
  BY <1>1
<1> HIDE DEF t
<1>3. \A p : \A i \in 1..n : OnPath(t, i, p) <=> OnPath(s, i, p)
  BY <1>2 DEF OnPath
<1>4. Loud(g) => /\ Len(g.path) = n
                 /\ \A j \in 1..n - 1 : g.path[j] = s[n].path[j]
                 /\ g.path[n] = x
  <2>1. Loud(s[n]) => Len(s[n].path) = n - 1
    BY <1>1 DEF Nested
  <2>2. s[n].path \in Seq(Names)
    BY <1>1, FrameFacts
  <2>3. x \in Names \/ ~Loud(g)
    <3>1. ASSUME Loud(g) PROVE x \in Names
      <4>1. Append(s[n].path, x) \in Seq(Names)
        BY <3>1 DEF Frames
      <4>2. Append(s[n].path, x)[Len(s[n].path) + 1] = x
            /\ Len(Append(s[n].path, x)) = Len(s[n].path) + 1
        BY <2>2
      <4> QED
        BY <2>2, <4>1, <4>2
    <3> QED
      BY <3>1
  <2> QED
    BY <1>1, <2>1, <2>2, <2>3
<1>5. ASSUME NEW p, Len(p) \in Int
      PROVE  OnPath(t, n + 1, p) <=>
                Loud(g) /\ n + 1 <= Len(p) /\ OnPath(s, n, p) /\ p[n] = x
  <2>1. OnPath(t, n + 1, p) <=>
           Loud(g) /\ n + 1 <= Len(p) /\ \A k \in 1..n : g.path[k] = p[k]
    BY <1>1, <1>2 DEF OnPath
  <2>2. OnPath(s, n, p) <=>
           Loud(s[n]) /\ n <= Len(p) /\ \A k \in 1..n - 1 : s[n].path[k] = p[k]
    BY DEF OnPath
  <2> QED
    BY <1>1, <1>4, <2>1, <2>2
<1>6. Nested(t)
  <2>1. ASSUME NEW i \in 1..n + 1
        PROVE  /\ t[i].path = <<>> => t[i].len = 1
               /\ Loud(t[i]) =>
                     /\ Len(t[i].path) = i - 1
                     /\ \A j \in 1..i - 1 : /\ OnPath(t, j, t[i].path)
                                            /\ t[i].path[j] \notin t[j].todo
    <3>1. CASE i # n + 1
      <4>1. i \in 1..n /\ t[i] = s[i] /\ \A j \in 1..i - 1 : j \in 1..n /\ t[j] = s[j]
        BY <1>1, <1>2, <3>1
      <4>2. /\ s[i].path = <<>> => s[i].len = 1
            /\ Loud(s[i]) =>
                  /\ Len(s[i].path) = i - 1
                  /\ \A j \in 1..i - 1 : /\ OnPath(s, j, s[i].path)
                                         /\ s[i].path[j] \notin s[j].todo
        BY <4>1 DEF Nested
      <4> QED
        BY <1>3, <4>1, <4>2
    <3>2. CASE i = n + 1 /\ Loud(g)
      <4>1. ASSUME NEW j \in 1..n
            PROVE  OnPath(s, j, g.path) /\ g.path[j] \notin s[j].todo
        <5>1. CASE j = n
          BY <1>1, <1>4, <3>2, <5>1 DEF OnPath
        <5>2. CASE j # n
          <6>1. j \in 1..n - 1 /\ Loud(s[n])
            BY <1>1, <3>2, <5>2
          <6>2. OnPath(s, j, s[n].path) /\ s[n].path[j] \notin s[j].todo
            BY <1>1, <6>1 DEF Nested
          <6>3. /\ j <= Len(g.path) /\ g.path[j] = s[n].path[j]
                /\ \A k \in 1..j - 1 : g.path[k] = s[n].path[k]
            BY <1>1, <1>4, <3>2, <6>1
          <6> QED
            BY <6>2, <6>3 DEF OnPath
        <5> QED
          BY <5>1, <5>2
      <4> QED
        BY <1>1, <1>2, <1>3, <1>4, <3>2, <4>1
    <3>3. CASE i = n + 1 /\ ~Loud(g)
      BY <1>2, <3>3
    <3> QED
      BY <3>1, <3>2, <3>3
  <2> QED
    BY <1>2, <2>1 DEF Nested
<1>7. ASSUME NEW p, ToCome(s, p) PROVE ToCome(t, p)
  <2>1. PICK i \in 1..n : OnPath(s, i, p) /\ p[i] \in s[i].todo
    BY <1>7 DEF ToCome
  <2>2. i \in 1..Len(t) /\ OnPath(t, i, p) /\ p[i] \in t[i].todo
    BY <1>1, <1>2, <1>3, <2>1
  <2> QED
    BY <2>2 DEF ToCome
<1>8. ASSUME NEW p, ToCome(t, p)
      PROVE  ToCome(s, p) \/ (OnPath(s, n, p) /\ p[n] = x)
  <2>1. PICK i \in 1..n + 1 : OnPath(t, i, p) /\ p[i] \in t[i].todo
    BY <1>2, <1>8 DEF ToCome
  <2>2. CASE i = n + 1
    BY <1>5, <2>1, <2>2
  <2>3. CASE i # n + 1
    <3>1. i \in 1..n /\ OnPath(s, i, p) /\ p[i] \in s[i].todo
      BY <1>1, <1>2, <1>3, <2>1, <2>3
    <3> QED
      BY <3>1 DEF ToCome
  <2> QED
    BY <2>2, <2>3
<1> QED
  BY <1>2, <1>3, <1>5, <1>6, <1>7, <1>8 DEF Pushed, t

\* In t the innermost call of s has returned.
Popped(s, t) ==
    /\ Nested(t) /\ Len(t) = Len(s) - 1
    /\ \A i \in 1..Len(s) - 1 : t[i] = s[i]
    /\ \A p : \A i \in 1..Len(t) : OnPath(t, i, p) => OnPath(s, i, p)
    /\ \A p : ToCome(t, p) => ToCome(s, p)
    /\ s[Len(s)].todo = {} => \A p : ToCome(s, p) => ToCome(t, p)

LEMMA Pop ==
    ASSUME NEW s, Nested(s), s # <<>>
    PROVE  Popped(s, SubSeq(s, 1, Len(s) - 1))
<1> DEFINE n == Len(s)
           t == SubSeq(s, 1, n - 1)
<1>1. s \in Seq(Frames) /\ n \in Nat \ {0}
  BY DEF Nested
<1>2. /\ t \in Seq(Frames) /\ Len(t) = n - 1
      /\ \A i \in 1..n - 1 : t[i] = s[i]
  <2>1. /\ 1 \in 1..n + 1 /\ (n - 1) - 1 + 1 = n - 1
        /\ \A i \in 1..n - 1 : 1 + i - 1 = i
    BY <1>1
  <2> QED
    BY <1>1, <2>1, SubSeqProperties
<1> HIDE DEF t
<1>3. \A p : \A i \in 1..n - 1 : OnPath(t, i, p) <=> OnPath(s, i, p)
  BY <1>1, <1>2 DEF OnPath
<1>4. Nested(t)
  <2>1. ASSUME NEW i \in 1..n - 1
        PROVE  /\ t[i].path = <<>> => t[i].len = 1
               /\ Loud(t[i]) =>
                     /\ Len(t[i].path) = i - 1
                     /\ \A j \in 1..i - 1 : /\ OnPath(t, j, t[i].path)
                                            /\ t[i].path[j] \notin t[j].todo
    <3>1. i \in 1..n /\ t[i] = s[i] /\ \A j \in 1..i - 1 : j \in 1..n - 1 /\ t[j] = s[j]
      BY <1>1, <1>2
    <3>2. /\ s[i].path = <<>> => s[i].len = 1
          /\ Loud(s[i]) =>
                /\ Len(s[i].path) = i - 1
                /\ \A j \in 1..i - 1 : /\ OnPath(s, j, s[i].path)
                                       /\ s[i].path[j] \notin s[j].todo
      BY <3>1 DEF Nested
    <3> QED
      BY <1>3, <3>1, <3>2
  <2> QED
    BY <1>2, <2>1 DEF Nested
<1>5. ASSUME NEW p, ToCome(t, p) PROVE ToCome(s, p)
  <2>1. PICK i \in 1..n - 1 : OnPath(t, i, p) /\ p[i] \in t[i].todo
    BY <1>2, <1>5 DEF ToCome
  <2>2. i \in 1..n /\ OnPath(s, i, p) /\ p[i] \in s[i].todo
    BY <1>1, <1>2, <1>3, <2>1
  <2> QED
    BY <2>2 DEF ToCome
<1>6. ASSUME NEW p, ToCome(s, p), s[n].todo = {} PROVE ToCome(t, p)
  <2>1. PICK i \in 1..n : OnPath(s, i, p) /\ p[i] \in s[i].todo
    BY <1>6 DEF ToCome
  <2>2. i \in 1..n - 1
    BY <1>1, <1>6, <2>1
  <2>3. i \in 1..Len(t) /\ OnPath(t, i, p) /\ p[i] \in t[i].todo
    BY <1>2, <1>3, <2>1, <2>2
  <2> QED
    BY <2>3 DEF ToCome
<1> QED
  BY <1>2, <1>3, <1>4, <1>5, <1>6 DEF Popped, t

\* What the innermost call has before it, or behind it, is not to come.
LEMMA NotToCome ==
    ASSUME NEW s, Nested(s), s # <<>>, Loud(s[Len(s)]),
           NEW x \in Names, x \notin s[Len(s)].todo
    PROVE  ~ToCome(s, Append(s[Len(s)].path, x))
<1> DEFINE n == Len(s)
           q == s[n].path
           p == Append(q, x)
<1>1. n \in Nat \ {0} /\ n \in 1..Len(s) /\ s \in Seq(Frames)
  BY DEF Nested
<1>2. q \in Seq(Names) /\ Len(q) = n - 1
  BY <1>1, FrameFacts DEF Nested
<1>3. /\ Len(p) = n /\ p[n] = x
      /\ \A k \in 1..n - 1 : p[k] = q[k]
  BY <1>1, <1>2
<1> HIDE DEF p, q
<1>4. ASSUME NEW i \in 1..n, OnPath(s, i, p), p[i] \in s[i].todo
      PROVE  FALSE
  <2>1. i # n
    BY <1>3, <1>4
  <2>2. i \in 1..n - 1
    BY <1>1, <2>1
  <2>3. q[i] \notin s[i].todo
    BY <1>1, <2>2 DEF Nested, q
  <2> QED
    BY <1>3, <1>4, <2>2, <2>3
<1> QED
  BY <1>4 DEF ToCome, p, q

-----------------------------------------------------------------------------
(* The innermost call                                                      *)

LEMMA Limits ==
    /\ Word \in Nat \ {0} /\ MaxStack \in Nat \ {0} /\ Capacity \in Nat \ {0}
    /\ MaxPathLen \in Nat /\ MaxPathLen > 3
    /\ MaxLinks \in Nat /\ MaxClock \in Nat /\ MaxFileSize \in Nat
    /\ MaxClock < Word /\ MaxFileSize < Word
    /\ \A n \in Names : Length[n] \in Nat \ {0}
  BY StatusAssumption, StatusLimits

LEMMA TopFacts ==
    ASSUME StackRight, stack # <<>>
    PROVE  /\ Len(stack) \in Nat \ {0} /\ Nested(stack)
           /\ Top \in Frames
           /\ Top.dir \in Dirs /\ Top.path \in Seq(Names) /\ Len(Top.path) \in Nat
           /\ Top.len \in 1..MaxPathLen - 1
           /\ Top.links \in 0..MaxLinks
           /\ Top.todo \subseteq Names
           /\ Top.stage \in {"looking", "comparing"}
           /\ Top.path = <<>> => Top.len = 1
           /\ Loud(Top) => Len(Top.path) = Len(stack) - 1
<1>1. Len(stack) \in Nat \ {0} /\ Nested(stack) /\ stack \in Seq(Frames)
  BY DEF StackRight, Nested
<1>2. Top = stack[Len(stack)] /\ Len(stack) \in 1..Len(stack)
  BY <1>1 DEF Top
<1>3. Top \in Frames
  BY <1>1, <1>2
<1>4. /\ Top.path = <<>> => Top.len = 1
      /\ Loud(Top) => Len(Top.path) = Len(stack) - 1
  BY <1>1, <1>2 DEF Nested
<1> QED
  BY <1>1, <1>3, <1>4 DEF Frames

LEMMA NodeFacts ==
    ASSUME NEW node \in Nodes
    PROVE  /\ node.kind \in {"none", "other", "dir", "link", "file"}
           /\ node.kind \in {"dir", "link"} => node.dir \in Dirs
           /\ node.kind = "file" => /\ node \in Files
                                    /\ node.content \in Contents
                                    /\ node.mtime \in 0..MaxClock
           /\ node.kind = "none" <=> node = None
  BY DEF Nodes, None, Other, Dir, Link, Files, File

\* What the call finds under a name.
LEMMA FoundFacts ==
    ASSUME FilesRight, StackRight, stack # <<>>, NEW n \in Names
    PROVE  /\ LengthOf(n) \in Nat \ {0}
           /\ Found(n) \in Nodes
           /\ ~Loud(Top) => LengthOf(n) >= MaxPathLen
           /\ Found(n).kind = "file" =>
                 /\ Loud(Top) /\ LengthOf(n) < MaxPathLen
                 /\ Found(n) = work[Top.dir][n]
           /\ Found(n).kind = "link" => Top.links + 1 \in 0..MaxLinks
           /\ Found(n).kind \in {"dir", "link"} /\ LengthOf(n) >= MaxPathLen =>
                 /\ Top.path # <<>>
                 /\ Found(n).kind = "dir"
<1>1. /\ Top.len \in 1..MaxPathLen - 1 /\ MaxPathLen \in Nat /\ MaxPathLen > 3
      /\ Top.links \in 0..MaxLinks /\ MaxLinks \in Nat
      /\ Length[n] \in Nat \ {0}
      /\ Top.path = <<>> => Top.len = 1
      /\ Top.dir \in Dirs
  BY TopFacts, Limits
<1>2. LengthOf(n) \in Nat \ {0}
  BY <1>1 DEF LengthOf
<1>3. /\ ~Loud(Top) => LengthOf(n) >= MaxPathLen
      /\ LengthOf(n) >= MaxPathLen /\ Top.len + 2 >= MaxPathLen => Top.path # <<>>
  <2>1. CASE Top.path = <<>>
    <3>1. Top.len = 1
      BY <1>1, <2>1
    <3> QED
      BY <1>1, <3>1 DEF Loud
  <2>2. CASE Top.path # <<>>
    <3>1. LengthOf(n) = Top.len + 1 + Length[n]
      BY <2>2 DEF LengthOf
    <3> QED
      BY <1>1, <2>2, <3>1 DEF Loud
  <2> QED
    BY <2>1, <2>2
<1>4. work[Top.dir][n] \in Nodes /\ Dir(Top.dir) \in Nodes /\ None \in Nodes
  BY <1>1 DEF FilesRight, Nodes
<1>5. Dir(Top.dir).kind = "dir" /\ None.kind = "none"
  BY DEF Dir, None
<1>6. CASE LengthOf(n) >= MaxPathLen
  <2>1. Found(n) = IF Top.len + 2 >= MaxPathLen THEN Dir(Top.dir) ELSE None
    BY <1>6 DEF Found
  <2> QED
    BY <1>2, <1>3, <1>4, <1>5, <1>6, <2>1
<1>7. CASE ~(LengthOf(n) >= MaxPathLen)
  <2>1. Found(n) = IF work[Top.dir][n].kind = "link" /\ Top.links >= MaxLinks
                   THEN None ELSE work[Top.dir][n]
    BY <1>7 DEF Found
  <2>2. LengthOf(n) < MaxPathLen /\ Loud(Top)
    BY <1>1, <1>2, <1>3, <1>7
  <2>3. Found(n) \in Nodes
    BY <1>4, <2>1
  <2>4. Found(n).kind = "file" => Found(n) = work[Top.dir][n]
    BY <1>5, <2>1
  <2>5. Found(n).kind = "link" => Top.links + 1 \in 0..MaxLinks
    <3>1. Found(n).kind = "link" => ~(Top.links >= MaxLinks)
      BY <1>5, <2>1
    <3> QED
      BY <1>1, <3>1
  <2> QED
    BY <1>2, <1>7, <2>2, <2>3, <2>4, <2>5
<1> QED
  BY <1>6, <1>7

LEMMA PathFacts ==
    ASSUME StackRight, stack # <<>>, NEW n \in Names
    PROVE  /\ PathOf(n) \in Seq(Names) /\ PathOf(n) # <<>>
           /\ Len(PathOf(n)) = Len(Top.path) + 1
           /\ PathOf(n)[Len(Top.path) + 1] = n
           /\ \A k \in 1..Len(Top.path) : PathOf(n)[k] = Top.path[k]
<1>1. Top.path \in Seq(Names)
  BY TopFacts
<1> HIDE DEF Top
<1> QED
  BY <1>1 DEF PathOf

\* A way through the directories, and where the call is on it.
LEMMA OnWay ==
    ASSUME FilesRight, StackRight, WaysRight, stack # <<>>,
           NEW a \in Addable, NEW way \in Ways(a),
           OnPath(stack, Len(stack), a.path)
    PROVE  LET i == Len(stack)
               x == a.path[i]
           IN /\ x \in Names /\ LengthOf(x) < MaxPathLen
              /\ Len(a.path) \in Nat
              /\ i < Len(a.path) =>
                    /\ Found(x) = work[Top.dir][x]
                    /\ Found(x).kind \in {"dir", "link"}
                    /\ way[i + 1].dir = Found(x).dir
                    /\ way[i + 1].links =
                          Top.links + (IF Found(x).kind = "link" THEN 1 ELSE 0)
                    /\ way[i + 1].len = LengthOf(x)
                    /\ LengthOf(x) < MaxPathLen - 1
              /\ i = Len(a.path) =>
                    /\ Top.dir = a.dir /\ x = a.name
                    /\ work[a.dir][a.name].kind = "file" =>
                          Found(x) = work[a.dir][a.name]
              /\ i = Len(a.path) <=> PathOf(x) = a.path
<1> DEFINE i == Len(stack)
           x == a.path[i]
           m == Len(a.path)
<1>1. /\ i \in Nat \ {0} /\ i <= m /\ m \in Nat \ {0} /\ a.path \in Seq(Names)
      /\ i \in 1..Len(stack) /\ Loud(Top)
      /\ Len(Top.path) = i - 1 /\ Top.path \in Seq(Names)
      /\ \A k \in 1..i - 1 : Top.path[k] = a.path[k]
  BY TopFacts, StatusAssumption DEF OnPath, Top
<1>2. x \in Names /\ i \in 1..m
  BY <1>1
<1>3. Top.dir = way[i].dir /\ Top.links = way[i].links /\ Top.len = way[i].len
  BY <1>1 DEF WaysRight, Top
<1>4. Top.path = <<>> <=> i = 1
  <2>1. Top.path = <<>> => Len(Top.path) = 0
    BY EmptySeq
  <2>2. Top.path # <<>> => Len(Top.path) # 0
    BY <1>1, EmptySeq
  <2> HIDE DEF Top
  <2> QED
    BY <1>1, <2>1, <2>2
<1> DEFINE len(k) == (IF k = 1 THEN 0 ELSE way[k].len + 1) + Length[a.path[k]]
<1>5. LengthOf(x) = len(i)
  BY <1>1, <1>3, <1>4, <1>2, StatusAssumption DEF LengthOf
<1>6. /\ way[m].dir = a.dir /\ a.path[m] = a.name
      /\ \A k \in 1..m : len(k) < MaxPathLen
      /\ \A k \in 1..m - 1 :
            LET node == work[way[k].dir][a.path[k]]
            IN /\ node.kind \in {"dir", "link"}
               /\ way[k + 1].dir = node.dir
               /\ way[k + 1].links = way[k].links + (IF node.kind = "link" THEN 1 ELSE 0)
               /\ way[k + 1].len = len(k)
      /\ way \in [1..m -> [dir : Dirs, links : 0..MaxLinks, len : 1..MaxPathLen]]
  BY DEF Ways
<1> HIDE DEF len
<1>7. LengthOf(x) < MaxPathLen /\ LengthOf(x) \in Nat
  BY <1>2, <1>5, <1>6, FoundFacts
<1>8. Found(x) = IF work[Top.dir][x].kind = "link" /\ Top.links >= MaxLinks
                 THEN None ELSE work[Top.dir][x]
  <2>1. ~(LengthOf(x) >= MaxPathLen)
    BY <1>7, Limits
  <2> QED
    BY <2>1 DEF Found
<1>9. CASE i < m
  <2>1. i \in 1..m - 1 /\ i + 1 \in 1..m
    BY <1>1, <1>9
  <2> DEFINE node == work[Top.dir][x]
  <2>2. /\ node.kind \in {"dir", "link"}
        /\ way[i + 1].dir = node.dir
        /\ way[i + 1].links = Top.links + (IF node.kind = "link" THEN 1 ELSE 0)
        /\ way[i + 1].len = LengthOf(x)
    BY <1>3, <1>5, <1>6, <2>1
  <2>3. way[i + 1].links \in 0..MaxLinks /\ MaxLinks \in Nat /\ Top.links \in 0..MaxLinks
    BY <1>6, <2>1, TopFacts, Limits
  <2>4. Found(x) = node
    BY <1>8, <2>2, <2>3
  <2>5. LengthOf(x) < MaxPathLen - 1
    <3>1. len(i + 1) < MaxPathLen /\ i + 1 # 1
      BY <1>1, <1>6, <2>1
    <3>2. LengthOf(x) + 1 + Length[a.path[i + 1]] < MaxPathLen
      BY <2>2, <3>1 DEF len
    <3>3. Length[a.path[i + 1]] \in Nat \ {0}
      BY <1>1, <2>1, StatusAssumption
    <3> QED
      BY <1>7, <3>2, <3>3, Limits
  <2>6. PathOf(x) # a.path
    BY <1>1, <1>2, <1>9, PathFacts
  <2> QED
    BY <1>1, <1>2, <1>7, <1>9, <2>2, <2>4, <2>5, <2>6
<1>10. CASE i = m
  <2>1. x = a.name /\ Top.dir = a.dir
    BY <1>3, <1>6, <1>10
  <2>2. work[a.dir][a.name].kind = "file" => Found(x) = work[a.dir][a.name]
    BY <1>8, <2>1
  <2>3. PathOf(x) = a.path
    <3>1. /\ PathOf(x) \in Seq(Names) /\ Len(PathOf(x)) = m
          /\ \A k \in 1..m : PathOf(x)[k] = a.path[k]
      <4> DEFINE q == Top.path
      <4>1. /\ PathOf(x) \in Seq(Names) /\ Len(PathOf(x)) = Len(q) + 1
            /\ PathOf(x)[Len(q) + 1] = x
            /\ \A k \in 1..Len(q) : PathOf(x)[k] = q[k]
        BY <1>1, <1>2, PathFacts
      <4>2. Len(q) = m - 1 /\ \A k \in 1..m - 1 : q[k] = a.path[k]
        BY <1>1, <1>10
      <4> HIDE DEF q
      <4> QED
        BY <1>1, <1>10, <4>1, <4>2
    <3> QED
      BY <1>1, <3>1, SeqEqual
  <2> QED
    BY <1>1, <1>2, <1>7, <1>10, <2>1, <2>2, <2>3
<1> QED
  BY <1>1, <1>9, <1>10

-----------------------------------------------------------------------------
(* The files and the index                                                 *)

Outside == \/ Tick
           \/ \E f \in Editable : Edit(f[1], f[2])
           \/ \E a \in Addable : AddLooks(a)
           \/ \E x \in adding : AddReads(x) \/ AddFails(x)

\* What the command does not do to the files, and others do not do to it.
LEMMA Sides ==
    ASSUME [Next]_vars
    PROVE  \/ Outside /\ UNCHANGED <<stack, handle, lists, exit, runs, gaps>>
           \/ /\ UNCHANGED <<work, clock, adding, index, edits, adds>>
              /\ handle' = handle \/ handle' = index
              /\ Begin \/ (UNCHANGED touched /\ (CannotBegin \/ Step \/ UNCHANGED vars))
<1>1. CASE Outside
  <2>1. CASE Tick
    BY <1>1, <2>1 DEF Tick
  <2>2. ASSUME NEW f \in Editable, Edit(f[1], f[2])
        PROVE  UNCHANGED <<stack, handle, lists, exit, runs, gaps>>
    BY <2>2 DEF Edit
  <2>3. ASSUME NEW a \in Addable, AddLooks(a)
        PROVE  UNCHANGED <<stack, handle, lists, exit, runs, gaps>>
    BY <2>3 DEF AddLooks
  <2>4. ASSUME NEW x \in adding, AddReads(x) \/ AddFails(x)
        PROVE  UNCHANGED <<stack, handle, lists, exit, runs, gaps>>
    BY <2>4 DEF AddReads, AddFails
  <2> QED
    BY <1>1, <2>1, <2>2, <2>3, <2>4 DEF Outside
<1>2. CASE Begin \/ CannotBegin
  BY <1>2 DEF Begin, CannotBegin, tree
<1>3. CASE Step
  <2>1. ASSUME NEW n \in Names, Pass(n) \/ PassUnseen(n) \/ Descend(n) \/ Overflow(n)
        PROVE  UNCHANGED <<tree, adding, index, adds, handle, touched>>
    BY <2>1 DEF Pass, PassUnseen, Descend, Overflow
  <2>2. ASSUME NEW n \in Names, FindUntracked(n) \/ FindTracked(n)
        PROVE  UNCHANGED <<tree, adding, index, adds, handle, touched>>
    BY <2>2 DEF FindUntracked, FindTracked
  <2>3. CASE Compare \/ Leave
    BY <1>3, <2>3 DEF Compare, Leave, tree
  <2> QED
    BY <1>3, <2>1, <2>2, <2>3 DEF Step, tree
<1>4. CASE UNCHANGED vars
  BY <1>4 DEF vars, tree
<1> QED
  BY <1>1, <1>2, <1>3, <1>4 DEF Next, Outside

LEMMA EditFacts ==
    ASSUME FilesRight, NEW d \in Dirs, NEW n \in Names, Edit(d, n)
    PROVE  /\ work' \in [Dirs -> [Names -> Nodes]]
           /\ work'[d][n].kind \notin {"dir", "link"}
           /\ work[d][n].kind \notin {"dir", "link"}
           /\ work'[d][n].kind = "file" => work'[d][n].mtime = clock
           /\ \A e \in Dirs, m \in Names : <<e, m>> # <<d, n>> => work'[e][m] = work[e][m]
           /\ touched' = touched \cup {<<d, n>>}
           /\ UNCHANGED <<clock, index, adding, adds, stack, handle, lists, exit, runs,
                          gaps>>
<1>1. PICK node \in {None} \cup {File(c, clock) : c \in Contents} :
         work' = [work EXCEPT ![d][n] = node]
  BY DEF Edit
<1>2. node \in Nodes /\ node.kind \notin {"dir", "link"}
      /\ (node.kind = "file" => node.mtime = clock)
  <2>1. CASE node = None
    BY <2>1 DEF Nodes, None
  <2>2. ASSUME NEW c \in Contents, node = File(c, clock) PROVE <1>2
    BY <2>2 DEF Nodes, Files, File, FilesRight
  <2> QED
    BY <2>1, <2>2
<1>3. work \in [Dirs -> [Names -> Nodes]]
  BY DEF FilesRight
<1>4. work[d][n].kind \notin {"dir", "link"}
  BY DEF Edit, Files, File, None
<1>5. /\ work' \in [Dirs -> [Names -> Nodes]]
      /\ work'[d][n] = node
      /\ \A e \in Dirs, m \in Names : <<e, m>> # <<d, n>> => work'[e][m] = work[e][m]
  BY <1>1, <1>2, <1>3
<1> QED
  BY <1>2, <1>4, <1>5 DEF Edit

\* Directories stay, and what else changes has been touched.
LEMMA TreeStays ==
    ASSUME FilesRight, [Next]_vars
    PROVE  /\ \A d \in Dirs, n \in Names :
                 \/ work'[d][n] = work[d][n]
                 \/ /\ work'[d][n].kind \notin {"dir", "link"}
                    /\ work[d][n].kind \notin {"dir", "link"}
                    /\ <<d, n>> \in touched'
           /\ touched \subseteq touched' \/ Begin
<1>1. CASE Outside
  <2>1. CASE UNCHANGED <<work, touched>>
    BY <2>1
  <2>2. ASSUME NEW f \in Editable, Edit(f[1], f[2])
        PROVE  /\ \A d \in Dirs, n \in Names :
                     \/ work'[d][n] = work[d][n]
                     \/ /\ work'[d][n].kind \notin {"dir", "link"}
                        /\ work[d][n].kind \notin {"dir", "link"}
                        /\ <<d, n>> \in touched'
               /\ touched \subseteq touched'
    <3>1. f[1] \in Dirs /\ f[2] \in Names
      BY StatusAssumption
    <3> QED
      BY <2>2, <3>1, EditFacts
  <2>3. ASSUME NEW a \in Addable, AddLooks(a)
        PROVE  UNCHANGED <<work, touched>>
    BY <2>3 DEF AddLooks, tree
  <2>4. ASSUME NEW x \in adding, AddReads(x) \/ AddFails(x)
        PROVE  UNCHANGED <<work, touched>>
    BY <2>4 DEF AddReads, AddFails, tree
  <2>5. CASE Tick
    BY <2>1, <2>5 DEF Tick
  <2> QED
    BY <1>1, <2>1, <2>2, <2>3, <2>4, <2>5 DEF Outside
<1>2. CASE UNCHANGED work /\ (Begin \/ UNCHANGED touched)
  BY <1>2
<1> QED
  BY <1>1, <1>2, Sides

\* So the ways through the directories are always the same.
LEMMA WaysStay ==
    ASSUME FilesRight, [Next]_vars, NEW a \in Addable
    PROVE  Ways(a)' = Ways(a)
<1> DEFINE n == Len(a.path)
           Places == [dir : Dirs, links : 0..MaxLinks, len : 1..MaxPathLen]
<1>1. n \in Nat /\ \A i \in 1..n : a.path[i] \in Names
  BY StatusAssumption
<1> DEFINE Onward(tr, way, i) ==
              LET node == tr[way[i].dir][a.path[i]]
              IN /\ node.kind \in {"dir", "link"}
                 /\ way[i + 1].dir = node.dir
                 /\ way[i + 1].links =
                       way[i].links + (IF node.kind = "link" THEN 1 ELSE 0)
                 /\ way[i + 1].len = (IF i = 1 THEN 0 ELSE way[i].len + 1)
                                     + Length[a.path[i]]
           Rest(way) ==
              /\ way[1] = [dir |-> Root, links |-> 0, len |-> 1]
              /\ way[n].dir = a.dir /\ a.path[n] = a.name
              /\ \A i \in 1..n :
                    (IF i = 1 THEN 0 ELSE way[i].len + 1) + Length[a.path[i]] < MaxPathLen
<1>2. ASSUME NEW way \in [1..n -> Places], NEW i \in 1..n - 1
      PROVE  Onward(work', way, i) <=> Onward(work, way, i)
  <2>1. i \in 1..n
    BY <1>1
  <2>2. way[i].dir \in Dirs /\ a.path[i] \in Names
    BY <1>1, <2>1
  <2> QED
    BY <2>2, TreeStays
<1>3. /\ Ways(a) = {way \in [1..n -> Places] :
                      Rest(way) /\ \A i \in 1..n - 1 : Onward(work, way, i)}
      /\ Ways(a)' = {way \in [1..n -> Places] :
                      Rest(way) /\ \A i \in 1..n - 1 : Onward(work', way, i)}
  BY Zenon DEF Ways
<1> HIDE DEF n, Places, Onward, Rest
<1> QED
  BY <1>2, <1>3

\* An edit makes a file as new as any look of add.
LEMMA StaysStaged ==
    ASSUME FilesRight,
           \/ Tick
           \/ \E f \in Editable : Edit(f[1], f[2])
           \/ UNCHANGED <<work, clock>>
    PROVE  /\ work' \in [Dirs -> [Names -> Nodes]]
           /\ clock' \in 0..MaxClock
           /\ \A d \in Dirs, n \in Names :
                 work'[d][n].kind = "file" => work'[d][n].mtime <= clock'
           /\ \A a \in Addable : \A entry : Staged(entry, a) => Staged(entry, a)'
           /\ \A x : LookedAt(x) => LookedAt(x)'
           /\ \A table : StagedIn(table) => StagedIn(table)'
<1> DEFINE Same(d, n) ==
              \/ work'[d][n] = work[d][n]
              \/ work'[d][n].kind = "file" => work'[d][n].mtime = clock
<1>1. /\ work' \in [Dirs -> [Names -> Nodes]]
      /\ \A d \in Dirs, n \in Names : Same(d, n)
      /\ clock' \in 0..MaxClock /\ clock \in 0..clock'
  <2>0. clock \in 0..MaxClock /\ MaxClock \in Nat /\ work \in [Dirs -> [Names -> Nodes]]
    BY Limits DEF FilesRight
  <2>1. CASE Tick
    BY <2>0, <2>1 DEF Tick
  <2>2. ASSUME NEW f \in Editable, Edit(f[1], f[2]) PROVE <1>1
    <3>1. f[1] \in Dirs /\ f[2] \in Names
      BY StatusAssumption
    <3>2. /\ work' \in [Dirs -> [Names -> Nodes]] /\ clock' = clock
          /\ work'[f[1]][f[2]].kind = "file" => work'[f[1]][f[2]].mtime = clock
          /\ \A e \in Dirs, m \in Names :
                <<e, m>> # <<f[1], f[2]>> => work'[e][m] = work[e][m]
      BY <2>2, <3>1, EditFacts
    <3>3. ASSUME NEW e \in Dirs, NEW m \in Names PROVE Same(e, m)
      BY <3>2
    <3> QED
      BY <2>0, <3>2, <3>3
  <2>3. CASE UNCHANGED <<work, clock>>
    BY <2>0, <2>3
  <2> QED
    BY <2>1, <2>2, <2>3
<1>2. \A d \in Dirs, n \in Names :
         work'[d][n].kind = "file" => work'[d][n].mtime <= clock'
  <2>1. ASSUME NEW d \in Dirs, NEW n \in Names, work'[d][n].kind = "file"
        PROVE  work'[d][n].mtime <= clock'
    <3>1. CASE work'[d][n] = work[d][n]
      <4>1. work[d][n] \in Nodes /\ work[d][n].mtime <= clock
        BY <2>1, <3>1 DEF FilesRight
      <4>2. work[d][n].mtime \in 0..MaxClock
        BY <2>1, <3>1, <4>1, NodeFacts
      <4> QED
        BY <1>1, <3>1, <4>1, <4>2
    <3>2. CASE work'[d][n].mtime = clock
      BY <1>1, <3>2
    <3> QED
      BY <1>1, <2>1, <3>1, <3>2
  <2> QED
    BY <2>1
<1> HIDE DEF Same
<1>3. ASSUME NEW a \in Addable, NEW entry, Staged(entry, a) PROVE Staged(entry, a)'
  <2>1. a.dir \in Dirs /\ a.name \in Names
    BY StatusAssumption
  <2>2. Same(a.dir, a.name)
    BY <1>1, <2>1
  <2> QED
    BY <1>1, <1>3, <2>2 DEF Staged, Same
<1>4. ASSUME NEW x, LookedAt(x) PROVE LookedAt(x)'
  <2>1. x.file \in Addable
    BY <1>4 DEF LookedAt
  <2>2. x.file.dir \in Dirs /\ x.file.name \in Names
    BY <2>1, StatusAssumption
  <2>3. Same(x.file.dir, x.file.name)
    BY <1>1, <2>2
  <2> DEFINE node == work[x.file.dir][x.file.name]
  <2>4. /\ x.file \in Addable /\ x.key \in Spellings(x.file) /\ x.size \in Nat /\ x.mtime \in 0..MaxClock
        /\ x.looked \in 0..clock' /\ x.looked \in 0..clock /\ x.mtime <= x.looked
    BY <1>1, <1>4 DEF LookedAt
  <2>5. ASSUME node'.kind = "file", node'.mtime < x.looked PROVE Len(node'.content) = x.size
    <3>1. node' = node
      BY <1>1, <2>3, <2>4, <2>5 DEF Same
    <3> QED
      BY <1>4, <2>5, <3>1 DEF LookedAt
  <2> QED
    BY <2>4, <2>5 DEF LookedAt
<1>5. ASSUME NEW table, StagedIn(table) PROVE StagedIn(table)'
  BY <1>3, <1>5 DEF StagedIn
<1> QED
  BY <1>1, <1>2, <1>3, <1>4, <1>5

\* A path with "./" before it is no path status looks for.
LEMMA OnePlain ==
    ASSUME NEW a \in Addable, NEW key \in Spellings(a), NEW b \in Addable, key = b.path
    PROVE  a = b
<1>1. /\ a.path \in Seq(Names) /\ b.path \in Seq(Names) /\ b.path # <<>>
      /\ Dot \notin Names
  BY StatusAssumption
<1>2. key # <<Dot>> \o a.path
  <2> DEFINE S == Names \cup {Dot}
             dot == <<Dot>>
  <2>1. a.path \in Seq(S) /\ dot \in Seq(S) /\ Len(dot) = 1 /\ dot[1] = Dot
    BY <1>1
  <2> HIDE DEF S, dot
  <2>2. (dot \o a.path)[1] = Dot
    BY <2>1, ConcatProperties
  <2>3. b.path[1] \in Names
    BY <1>1
  <2> QED
    BY <1>1, <2>2, <2>3 DEF dot
<1> QED
  BY <1>2, StatusAssumption DEF Spellings

LEMMA AddFacts ==
    ASSUME FilesRight, NEW x \in adding, AddReads(x)
    PROVE  StagedIn(index)'
<1>1. /\ LookedAt(x) /\ x.file \in Addable /\ StagedIn(index)
      /\ x.key \in Spellings(x.file)
  BY DEF FilesRight, LookedAt
<1> DEFINE a == x.file
           node == work[a.dir][a.name]
           entry == [mtime |-> x.mtime % Word, size |-> x.size % Word,
                     content |-> SubSeq(node.content, 1, x.size),
                     looked |-> x.looked]
<1>2. /\ index' = [p \in DOMAIN index \cup {x.key} |->
                      IF p = x.key THEN entry ELSE index[p]]
      /\ UNCHANGED <<work, clock>>
      /\ node.kind = "file"
  BY DEF AddReads, CanAdd, tree
<1>3. Staged(entry, a)
  <2>1. x.mtime % Word = x.mtime
    <3>1. x.mtime \in 0..MaxClock /\ MaxClock \in Nat /\ Word \in Nat \ {0} /\ MaxClock < Word
      BY <1>1, Limits DEF LookedAt
    <3> QED
      BY <3>1
  <2>2. ASSUME node.mtime < x.looked PROVE SubSeq(node.content, 1, x.size) = node.content
    <3>1. Len(node.content) = x.size
      BY <1>1, <1>2, <2>2 DEF LookedAt
    <3>2. node.content \in Seq(Nat)
      <4>1. a.dir \in Dirs /\ a.name \in Names
        BY <1>1, StatusAssumption
      <4>2. node \in Nodes
        BY <4>1 DEF FilesRight
      <4> QED
        BY <1>2, <4>2, NodeFacts, StatusAssumption
    <3> QED
      BY <3>1, <3>2, SubSeqFull
  <2> QED
    BY <1>1, <2>1, <2>2 DEF Staged, LookedAt
<1> HIDE DEF entry, node
<1>4. ASSUME NEW e, NEW b, Staged(e, b) PROVE Staged(e, b)'
  BY <1>2, <1>4 DEF Staged
<1>5. IsFiniteSet(DOMAIN index')
  BY <1>1, <1>2, FS_AddElement DEF StagedIn
<1>6. DOMAIN index' = DOMAIN index \cup {x.key}
  BY <1>2
<1>7. ASSUME NEW b \in Addable, b.path \in DOMAIN index' PROVE Staged(index[b.path], b)'
  <2>1. CASE b.path = x.key
    <3>1. a = b
      BY <1>1, <2>1, OnePlain
    <3>2. index'[b.path] = entry
      BY <1>2, <2>1
    <3> QED
      BY <1>3, <1>4, <3>1, <3>2 DEF Staged
  <2>2. CASE b.path # x.key
    <3>1. index'[b.path] = index[b.path] /\ b.path \in DOMAIN index
      BY <1>2, <1>7, <2>2
    <3>2. Staged(index[b.path], b)
      BY <1>1, <3>1 DEF StagedIn
    <3> QED
      BY <1>2, <3>1, <3>2 DEF Staged
  <2> QED
    BY <2>1, <2>2
<1> QED
  BY <1>1, <1>5, <1>6, <1>7 DEF StagedIn

LEMMA StepFiles ==
    ASSUME FilesRight, [Next]_vars
    PROVE  FilesRight'
<1>1. CASE Tick \/ \E f \in Editable : Edit(f[1], f[2])
  <2>1. UNCHANGED <<adding, index, handle>>
    BY <1>1 DEF Tick, Edit
  <2> QED
    BY <1>1, <2>1, StaysStaged DEF FilesRight
<1>2. CASE UNCHANGED <<work, clock>> /\ ~\E x \in adding : AddReads(x)
  <2>1. /\ work' \in [Dirs -> [Names -> Nodes]] /\ clock' \in 0..MaxClock
        /\ \A d \in Dirs, n \in Names :
              work'[d][n].kind = "file" => work'[d][n].mtime <= clock'
        /\ \A x \in adding : LookedAt(x)'
        /\ \A table : StagedIn(table) => StagedIn(table)'
    BY <1>2, StaysStaged DEF FilesRight
  <2>2. ASSUME NEW a \in Addable, AddLooks(a) PROVE FilesRight'
    <3> DEFINE node == work[a.dir][a.name]
    <3>0. PICK key \in Spellings(a) :
             adding' = adding \cup {[file |-> a, key |-> key, mtime |-> node.mtime,
                                     size |-> Len(node.content), looked |-> clock]}
      BY <2>2 DEF AddLooks
    <3>1. PICK x : /\ x = [file |-> a, key |-> key, mtime |-> node.mtime,
                           size |-> Len(node.content), looked |-> clock]
                   /\ adding' = adding \cup {x}
      BY <3>0
    <3>2. /\ node \in Nodes /\ node.kind = "file" /\ node.mtime <= clock
          /\ clock \in 0..MaxClock
      BY <2>2, StatusAssumption DEF FilesRight, AddLooks
    <3>3. Len(node.content) \in Nat /\ node.mtime \in 0..MaxClock
      <4>1. node.content \in Contents /\ node.mtime \in 0..MaxClock
        BY <3>2, NodeFacts
      <4>2. node.content \in Seq(Nat)
        BY <4>1, StatusAssumption
      <4>3. Len(node.content) \in Nat
        BY <4>2, LenProperties
      <4> QED
        BY <4>1, <4>3
    <3>4. LookedAt(x)'
      BY <1>2, <3>1, <3>2, <3>3 DEF LookedAt
    <3>5. UNCHANGED <<index, handle>>
      BY <2>2 DEF AddLooks
    <3> QED
      BY <2>1, <3>1, <3>4, <3>5 DEF FilesRight
  <2>3. ASSUME NEW x \in adding, AddFails(x) PROVE FilesRight'
    <3>1. adding' \subseteq adding /\ UNCHANGED <<index, handle>>
      BY <2>3 DEF AddFails
    <3> QED
      BY <2>1, <3>1 DEF FilesRight
  <2>4. CASE UNCHANGED <<adding, index>> /\ (handle' = handle \/ handle' = index)
    BY <2>1, <2>4 DEF FilesRight
  <2> QED
    BY <1>1, <1>2, <2>2, <2>3, <2>4, Sides DEF Outside
<1>3. ASSUME NEW x \in adding, AddReads(x) PROVE FilesRight'
  <2>1. adding' \subseteq adding /\ UNCHANGED <<work, clock, handle>>
    BY <1>3 DEF AddReads, tree
  <2>2. /\ work' \in [Dirs -> [Names -> Nodes]] /\ clock' \in 0..MaxClock
        /\ \A d \in Dirs, n \in Names :
              work'[d][n].kind = "file" => work'[d][n].mtime <= clock'
        /\ \A y \in adding : LookedAt(y)'
        /\ \A table : StagedIn(table) => StagedIn(table)'
    BY <2>1, StaysStaged DEF FilesRight
  <2> QED
    BY <1>3, <2>1, <2>2, AddFacts DEF FilesRight
<1>4. UNCHANGED <<work, clock>> \/ Tick \/ \E f \in Editable : Edit(f[1], f[2])
  <2>1. CASE \E a \in Addable : AddLooks(a)
    BY <2>1 DEF AddLooks, tree
  <2>2. CASE \E x \in adding : AddReads(x) \/ AddFails(x)
    BY <2>2 DEF AddReads, AddFails, tree
  <2> QED
    BY <2>1, <2>2, Sides DEF Outside
<1> QED
  BY <1>1, <1>2, <1>3, <1>4

-----------------------------------------------------------------------------
(* The steps of the scan                                                   *)

\* The innermost call goes on.
LEMMA GoesOn ==
    ASSUME StackRight, stack # <<>>, NEW f \in Frames,
           f.dir = Top.dir, f.path = Top.path, f.len = Top.len, f.links = Top.links,
           f.todo \subseteq Top.todo,
           Becomes(f), UNCHANGED <<exit, handle>>,
           f.stage = "comparing" =>
              /\ Loud(Top) /\ f.at \in Names \ f.todo
              /\ LengthOf(f.at) < MaxPathLen /\ PathOf(f.at) \in DOMAIN handle
    PROVE  /\ StackRight' /\ stack' # <<>> /\ Len(stack') = Len(stack) /\ Top' = f
           /\ \A i \in 1..Len(stack) : /\ stack'[i].dir = stack[i].dir
                                       /\ stack'[i].links = stack[i].links
                                       /\ stack'[i].len = stack[i].len
           /\ \A p : \A i \in 1..Len(stack) : OnPath(stack', i, p) <=> OnPath(stack, i, p)
           /\ \A p : ToCome(stack', p) => ToCome(stack, p)
           /\ \A x : f.todo = Top.todo \ {x} =>
                 \A p : ToCome(stack, p) =>
                    \/ ToCome(stack', p)
                    \/ OnPath(stack, Len(stack), p) /\ p[Len(stack)] = x
           /\ f.todo = Top.todo => \A p : ToCome(stack, p) => ToCome(stack', p)
           /\ \A x : PathOf(x)' = PathOf(x)
<1> DEFINE n == Len(stack)
<1>1. n \in Nat \ {0} /\ Nested(stack) /\ Top = stack[n] /\ stack' = Append(SubSeq(stack, 1, n - 1), f)
  BY TopFacts DEF Top, Becomes, Below
<1>2. Exchanged(stack, stack', f)
  <2>1. f.path = stack[n].path /\ f.len = stack[n].len /\ f.todo \subseteq stack[n].todo
    BY <1>1
  <2> QED
    BY <1>1, <2>1, Exchange
<1>3. Top' = f
  BY <1>1, <1>2 DEF Top, Exchanged
<1>4. stack' # <<>>
  BY <1>1, <1>2, EmptySeq DEF Exchanged
<1>5. \A i \in 1..n : /\ stack'[i].dir = stack[i].dir /\ stack'[i].links = stack[i].links
                      /\ stack'[i].len = stack[i].len /\ stack'[i].path = stack[i].path
  <2>1. ASSUME NEW i \in 1..n
        PROVE  /\ stack'[i].dir = stack[i].dir /\ stack'[i].links = stack[i].links
               /\ stack'[i].len = stack[i].len /\ stack'[i].path = stack[i].path
    <3>1. CASE i = n
      BY <1>1, <1>2, <3>1 DEF Exchanged
    <3>2. CASE i # n
      <4>1. i \in 1..n - 1
        BY <1>1, <3>2
      <4> QED
        BY <1>2, <4>1 DEF Exchanged
    <3> QED
      BY <3>1, <3>2
  <2> QED
    BY <2>1
<1>6. \A x : PathOf(x)' = PathOf(x) /\ LengthOf(x)' = LengthOf(x)
  BY <1>3 DEF PathOf, LengthOf
<1>7. StackRight'
  <2>1. /\ exit' = "none" /\ stack'[1].dir = Root /\ stack'[1].links = 0
        /\ stack'[1].path = <<>>
    <3>1. 1 \in 1..n
      BY <1>1
    <3> QED
      BY <1>5, <3>1 DEF StackRight
  <2>2. Len(stack') <= MaxStack
    BY <1>2 DEF StackRight, Exchanged
  <2>3. \A i \in 1..Len(stack') - 1 : stack'[i].stage = "looking"
    BY <1>2 DEF StackRight, Exchanged
  <2>4. In("comparing")' => /\ Loud(Top') /\ Top'.at \in Names \ Top'.todo
                            /\ LengthOf(Top.at)' < MaxPathLen
                            /\ PathOf(Top.at)' \in DOMAIN handle'
    <3>1. ASSUME f.stage = "comparing"
          PROVE  /\ Loud(f) /\ f.at \in Names \ f.todo
                 /\ LengthOf(f.at) < MaxPathLen /\ PathOf(f.at) \in DOMAIN handle'
      BY <3>1 DEF Loud
    <3>2. LengthOf(Top.at)' = LengthOf(f.at) /\ PathOf(Top.at)' = PathOf(f.at)
      BY <1>3 DEF LengthOf, PathOf
    <3> QED
      BY <1>3, <3>1, <3>2 DEF In
  <2> QED
    BY <1>2, <1>4, <2>1, <2>2, <2>3, <2>4 DEF StackRight, Exchanged
<1> QED
  BY <1>1, <1>2, <1>3, <1>4, <1>5, <1>6, <1>7 DEF Exchanged

\* It goes down into a directory: mid is the stack with the name crossed out.
LEMMA GoesDown ==
    ASSUME FilesRight, StackRight, NEW n \in Names, Descend(n)
    PROVE  LET mid == Append(Below, Done(n))
           IN /\ StackRight' /\ stack # <<>> /\ stack' # <<>> /\ ~In("comparing")'
              /\ n \in Top.todo /\ Top.stage = "looking"
              /\ Exchanged(stack, mid, Done(n)) /\ Done(n).todo = Top.todo \ {n}
              /\ Done(n).dir = Top.dir /\ Done(n).links = Top.links
              /\ Done(n).len = Top.len
              /\ Pushed(mid, stack', Top', n)
              /\ Top'.todo = {m \in Names : work[Top'.dir][m] # None}
              /\ LengthOf(n) < MaxPathLen - 1 => Loud(Top')
              /\ Loud(Top') =>
                    /\ Top'.dir = Found(n).dir /\ Top'.len = LengthOf(n)
                    /\ Top'.links =
                          Top.links + (IF Found(n).kind = "link" THEN 1 ELSE 0)
<1> DEFINE mid == Append(Below, Done(n))
           node == Found(n)
           k == Len(stack)
           cut == LengthOf(n) >= MaxPathLen
           g == IF cut THEN Frame(node.dir, Top.path, MaxPathLen - 1, Top.links)
                ELSE Frame(node.dir, PathOf(n), LengthOf(n),
                           Top.links + IF node.kind = "link" THEN 1 ELSE 0)
<1>1. /\ stack # <<>> /\ Top.stage = "looking" /\ n \in Top.todo
      /\ node.kind \in {"dir", "link"} /\ Len(stack) < MaxStack
      /\ stack' = Append(mid, g) /\ exit' = exit /\ handle' = handle /\ work' = work
  BY DEF Descend, Scanning, In, tree, mid
<1>2. /\ k \in Nat \ {0} /\ Nested(stack) /\ Top = stack[k] /\ Top \in Frames
      /\ Top.links \in 0..MaxLinks /\ Top.path \in Seq(Names)
  BY <1>1, TopFacts DEF Top
<1>3. /\ LengthOf(n) \in Nat \ {0} /\ MaxPathLen \in Nat /\ MaxPathLen > 3
      /\ ~Loud(Top) => cut
      /\ node.kind = "link" => Top.links + 1 \in 0..MaxLinks
      /\ cut => Top.path # <<>> /\ node.kind = "dir"
      /\ node.dir \in Dirs
  BY <1>1, FoundFacts, NodeFacts, Limits
<1>4. /\ Done(n) \in Frames /\ Done(n).todo = Top.todo \ {n}
      /\ Done(n).path = Top.path /\ Done(n).len = Top.len
      /\ Done(n).dir = Top.dir /\ Done(n).links = Top.links
      /\ Done(n).stage = "looking"
  BY <1>1, <1>2 DEF Done, Frames
<1>5. Exchanged(stack, mid, Done(n))
  <2>1. /\ Done(n).path = stack[k].path /\ Done(n).len = stack[k].len
        /\ Done(n).todo \subseteq stack[k].todo
    BY <1>2, <1>4
  <2>2. Exchanged(stack, Append(SubSeq(stack, 1, k - 1), Done(n)), Done(n))
    BY <1>1, <1>2, <1>4, <2>1, Exchange
  <2> QED
    BY <2>2 DEF Below, mid
<1>6. /\ g \in Frames /\ g.stage = "looking"
      /\ g.todo = {m \in Names : work[g.dir][m] # None}
      /\ g.path = <<>> => g.len = 1
      /\ Loud(g) => Loud(Top) /\ g.path = PathOf(n)
      /\ LengthOf(n) < MaxPathLen - 1 => Loud(g)
      /\ Loud(g) => /\ g.dir = node.dir /\ g.len = LengthOf(n)
                    /\ g.links = Top.links + (IF node.kind = "link" THEN 1 ELSE 0)
  <2>1. CASE cut
    <3>1. g = Frame(node.dir, Top.path, MaxPathLen - 1, Top.links)
      BY <2>1
    <3>2. /\ g.dir = node.dir /\ g.path = Top.path /\ g.len = MaxPathLen - 1
          /\ g.links = Top.links /\ g.stage = "looking" /\ g.at = 0
          /\ g.todo = {m \in Names : work[node.dir][m] # None}
      BY <3>1 DEF Frame
    <3>3. g \in Frames
      BY <1>2, <1>3, <3>1, <3>2 DEF Frame, Frames
    <3>4. ~Loud(g)
      BY <1>3, <3>2 DEF Loud
    <3> HIDE DEF g, node
    <3> QED
      BY <1>3, <2>1, <3>2, <3>3, <3>4
  <2>2. CASE ~cut
    <3> DEFINE links == Top.links + IF node.kind = "link" THEN 1 ELSE 0
    <3>1. g = Frame(node.dir, PathOf(n), LengthOf(n), links)
      BY <2>2
    <3>2. links \in 0..MaxLinks
      BY <1>2, <1>3
    <3>3. PathOf(n) \in Seq(Names) /\ PathOf(n) # <<>>
      BY <1>1, PathFacts
    <3>4. LengthOf(n) \in 1..MaxPathLen - 1
      BY <1>3, <2>2
    <3> HIDE DEF links, g, node
    <3>5. /\ g.dir = node.dir /\ g.path = PathOf(n) /\ g.len = LengthOf(n)
          /\ g.links = links /\ g.stage = "looking" /\ g.at = 0
          /\ g.todo = {m \in Names : work[node.dir][m] # None}
      BY <3>1 DEF Frame
    <3>6. g \in Frames
      BY <1>3, <3>1, <3>2, <3>3, <3>4 DEF Frame, Frames
    <3> QED
      BY <1>3, <2>2, <3>3, <3>5, <3>6 DEF Loud, links
  <2> QED
    BY <2>1, <2>2
<1> HIDE DEF g, mid, node
<1>7. Pushed(mid, stack', g, n)
  <2>1. /\ Nested(mid) /\ Len(mid) = k /\ mid[k] = Done(n) /\ mid # <<>>
    BY <1>2, <1>5, EmptySeq DEF Exchanged
  <2>2. /\ n \notin mid[Len(mid)].todo
        /\ Loud(g) => Loud(mid[Len(mid)]) /\ g.path = Append(mid[Len(mid)].path, n)
    BY <1>4, <1>6, <2>1 DEF Loud, PathOf
  <2>3. Pushed(mid, Append(mid, g), g, n)
    BY <1>6, <2>1, <2>2, Push
  <2> QED
    BY <1>1, <2>3
<1>8. Top' = g /\ stack' # <<>> /\ Len(stack') = k + 1
  <2>1. Len(stack') = k + 1 /\ stack'[Len(stack')] = g
    BY <1>2, <1>5, <1>7 DEF Exchanged, Pushed
  <2> QED
    BY <1>2, <2>1, EmptySeq DEF Top
<1>9. StackRight'
  <2>1. \A i \in 1..k - 1 : stack'[i] = stack[i]
    BY <1>2, <1>5, <1>7 DEF Exchanged, Pushed
  <2>2. stack'[k] = Done(n)
    BY <1>2, <1>5, <1>7 DEF Exchanged, Pushed
  <2>3. /\ stack'[1].dir = stack[1].dir /\ stack'[1].links = stack[1].links
        /\ stack'[1].path = stack[1].path
    <3>1. CASE k = 1
      BY <1>2, <1>4, <2>2, <3>1
    <3>2. CASE k # 1
      <4>1. k \in Nat \ {0} /\ k # 1
        BY <1>2, <3>2
      <4> HIDE DEF k
      <4>2. 1 \in 1..k - 1
        BY <4>1
      <4> QED
        BY <2>1, <4>2
    <3> QED
      BY <3>1, <3>2
  <2>4. \A i \in 1..Len(stack') - 1 : stack'[i].stage = "looking"
    BY <1>2, <1>4, <1>8, <2>1, <2>2 DEF StackRight
  <2>5. Len(stack') <= MaxStack
    BY <1>1, <1>2, <1>8, Limits
  <2>6. ~In("comparing")'
    BY <1>6, <1>8 DEF In
  <2> QED
    BY <1>1, <1>7, <2>3, <2>4, <2>5, <2>6 DEF StackRight, Pushed
<1>10. ~In("comparing")'
  BY <1>6, <1>8 DEF In
<1> QED
  BY <1>1, <1>4, <1>5, <1>6, <1>7, <1>8, <1>9, <1>10 DEF mid, node

\* It returns.
LEMMA GoesUp ==
    ASSUME StackRight, Leave
    PROVE  /\ StackRight' /\ stack # <<>> /\ ~In("comparing") /\ ~In("comparing")'
           /\ Popped(stack, stack') /\ Top.todo = {}
           /\ exit' = IF stack' = <<>> THEN "OK" ELSE exit
           /\ UNCHANGED <<tree, index, adding, adds, handle, lists, runs, touched, gaps>>
<1> DEFINE k == Len(stack)
<1>1. /\ stack # <<>> /\ Top.stage = "looking" /\ Top.todo = {}
      /\ stack' = SubSeq(stack, 1, k - 1)
      /\ exit' = IF k = 1 THEN "OK" ELSE exit
      /\ UNCHANGED <<tree, index, adding, adds, handle, lists, runs, touched, gaps>>
  BY DEF Leave, In, Below
<1>2. k \in Nat \ {0} /\ Nested(stack) /\ Top = stack[k]
  BY <1>1, TopFacts DEF Top
<1>3. Popped(stack, stack')
  BY <1>1, <1>2, Pop
<1>4. Len(stack') = k - 1 /\ stack' \in Seq(Frames) /\ Len(<<>>) = 0
  BY <1>3, EmptySeq DEF Popped, Nested
<1>5. stack' = <<>> <=> k = 1
  <2>1. stack' = <<>> => Len(stack') = 0
    BY <1>4
  <2>2. stack' # <<>> => Len(stack') # 0
    BY <1>4, EmptySeq
  <2> QED
    BY <1>2, <1>4, <2>1, <2>2
<1>6. ASSUME stack' # <<>>
      PROVE  /\ Top' = stack[k - 1] /\ k - 1 \in 1..k - 1
             /\ Top'.stage = "looking"
  BY <1>2, <1>3, <1>4, <1>5, <1>6 DEF Popped, Top, StackRight
<1>7. ~In("comparing") /\ ~In("comparing")'
  BY <1>1, <1>6 DEF In
<1>8. StackRight'
  <2>1. stack' # <<>> => /\ exit' = "none" /\ stack'[1] = stack[1]
    BY <1>1, <1>2, <1>3, <1>5 DEF StackRight, Popped
  <2>2. Len(stack') <= MaxStack
    BY <1>2, <1>4, Limits DEF StackRight
  <2>3. \A i \in 1..Len(stack') - 1 : stack'[i].stage = "looking"
    BY <1>2, <1>3, <1>4 DEF StackRight, Popped
  <2> QED
    BY <1>1, <1>3, <1>7, <2>1, <2>2, <2>3 DEF StackRight, Popped
<1> QED
  BY <1>1, <1>3, <1>5, <1>7, <1>8

-----------------------------------------------------------------------------
(* The paths that lead to a file                                           *)

\* There is something under each of its names.
LEMMA WayThere ==
    ASSUME FilesRight, NEW a \in Addable, NEW way \in Ways(a),
           work[a.dir][a.name].kind = "file", NEW i \in 1..Len(a.path)
    PROVE  /\ Len(a.path) \in Nat /\ way[i].dir \in Dirs /\ a.path[i] \in Names
           /\ work[way[i].dir][a.path[i]] # None
<1> DEFINE m == Len(a.path)
<1>1. m \in Nat /\ a.path \in Seq(Names)
  BY StatusAssumption
<1>2. /\ way[m].dir = a.dir /\ a.path[m] = a.name
      /\ \A k \in 1..m - 1 : work[way[k].dir][a.path[k]].kind \in {"dir", "link"}
      /\ way \in [1..m -> [dir : Dirs, links : 0..MaxLinks, len : 1..MaxPathLen]]
  BY DEF Ways
<1>3. way[i].dir \in Dirs /\ a.path[i] \in Names
  BY <1>1, <1>2
<1>4. work[way[i].dir][a.path[i]].kind # "none"
  <2>1. CASE i = m
    BY <1>2, <2>1
  <2>2. CASE i # m
    <3>1. i \in 1..m - 1
      BY <1>1, <2>2
    <3> QED
      BY <1>2, <3>1
  <2> QED
    BY <2>1, <2>2
<1> QED
  BY <1>1, <1>3, <1>4 DEF None

\* Where the scan comes by the next name of a path.
LEMMA AtTurn ==
    ASSUME FilesRight, StackRight, WaysRight, stack # <<>>,
           NEW a \in Addable, Leads(a), work[a.dir][a.name].kind = "file",
           NEW n \in Names,
           OnPath(stack, Len(stack), a.path), a.path[Len(stack)] = n
    PROVE  \/ /\ Len(stack) < Len(a.path)
              /\ Found(n).kind \in {"dir", "link"} /\ PathOf(n) # a.path
           \/ /\ PathOf(n) = a.path /\ Found(n) = work[a.dir][a.name]
              /\ Top.dir = a.dir /\ n = a.name
<1>1. PICK way \in Ways(a) : TRUE
  BY DEF Leads
<1>2. Len(stack) <= Len(a.path) /\ Len(stack) \in Nat /\ Len(a.path) \in Nat
  BY TopFacts, OnWay, <1>1 DEF OnPath
<1>3. CASE Len(stack) < Len(a.path)
  <2>1. Found(n).kind \in {"dir", "link"} /\ PathOf(n) # a.path
    BY <1>1, <1>2, <1>3, OnWay
  <2> QED
    BY <1>3, <2>1
<1>4. CASE Len(stack) = Len(a.path)
  BY <1>1, <1>4, OnWay
<1> QED
  BY <1>2, <1>3, <1>4

\* What is still to do in the innermost call is to come.
LEMMA StillToDo ==
    ASSUME StackRight, stack # <<>>, Loud(Top), NEW n \in Top.todo
    PROVE  ToCome(stack, PathOf(n))
<1> DEFINE k == Len(stack)
           p == PathOf(n)
<1>1. /\ k \in Nat \ {0} /\ Len(Top.path) = k - 1 /\ Top = stack[k] /\ n \in Names
  BY TopFacts DEF Top
<1>2. Len(p) = k /\ p[k] = n /\ \A j \in 1..k - 1 : p[j] = Top.path[j]
  BY <1>1, PathFacts
<1> HIDE DEF p
<1>3. OnPath(stack, k, p)
  BY <1>1, <1>2 DEF OnPath
<1> QED
  BY <1>1, <1>2, <1>3 DEF ToCome, p

\* The path that is being compared is the one of the innermost call.
LEMMA WhileComparing ==
    ASSUME StackRight, NEW p, Comparing(p)
    PROVE  /\ stack # <<>> /\ Top.stage = "comparing" /\ Loud(Top)
           /\ Top.at \in Names \ Top.todo /\ PathOf(Top.at) = p /\ p \in DOMAIN handle
           /\ p \in Seq(Names)
           /\ OnPath(stack, Len(stack), p) /\ p[Len(stack)] = Top.at
           /\ ~ToCome(stack, p)
<1> DEFINE k == Len(stack)
<1>1. /\ stack # <<>> /\ Top.stage = "comparing" /\ Loud(Top)
      /\ Top.at \in Names \ Top.todo /\ PathOf(Top.at) = p /\ p \in DOMAIN handle
  BY DEF Comparing, In, StackRight
<1>2. /\ k \in Nat \ {0} /\ Len(Top.path) = k - 1 /\ Top = stack[k] /\ Nested(stack)
  BY <1>1, TopFacts DEF Top
<1>3. p \in Seq(Names) /\ Len(p) = k /\ p[k] = Top.at /\ \A j \in 1..k - 1 : p[j] = Top.path[j]
  BY <1>1, <1>2, PathFacts
<1>4. OnPath(stack, k, p)
  BY <1>1, <1>2, <1>3 DEF OnPath
<1>5. ~ToCome(stack, p)
  BY <1>1, <1>2, NotToCome DEF PathOf
<1> QED
  BY <1>1, <1>3, <1>4, <1>5

\* A file that is steady in the next state is so in this one.
LEMMA SteadyBefore ==
    ASSUME FilesRight, [Next]_vars, NEW a \in Addable
    PROVE  /\ Leads(a)' = Leads(a)
           /\ Steady(a)' => work'[a.dir][a.name] = work[a.dir][a.name]
           /\ Steady(a)' /\ ~Begin => Steady(a)
<1>1. a.dir \in Dirs /\ a.name \in Names
  BY StatusAssumption
<1>2. Ways(a)' = Ways(a)
  BY WaysStay
<1>3. \/ work'[a.dir][a.name] = work[a.dir][a.name]
      \/ <<a.dir, a.name>> \in touched'
  BY <1>1, TreeStays
<1>4. touched \subseteq touched' \/ Begin
  BY TreeStays
<1> QED
  BY <1>2, <1>3, <1>4 DEF Leads, Steady

-----------------------------------------------------------------------------
(* What stays of the lists                                                 *)

LEMMA ListsStay ==
    ASSUME ListsRight, UNCHANGED <<handle, modified, untracked>>,
           \A p : ToCome(stack', p) => ToCome(stack, p),
           \A p : Comparing(p)' => Comparing(p) \/ ToCome(stack, p)
    PROVE  ListsRight'
<1>1. /\ handle' = handle /\ modified' = modified /\ untracked' = untracked
  OBVIOUS
<1>2. \A i \in DOMAIN untracked :
         untracked[i] \notin DOMAIN handle /\ ~ToCome(stack', untracked[i])
  BY DEF ListsRight
<1>3. ASSUME NEW i \in DOMAIN modified
      PROVE  /\ modified[i] \in DOMAIN handle
             /\ ~ToCome(stack', modified[i])
             /\ ~(In("comparing")' /\ PathOf(Top.at)' = modified[i])
  <2>1. /\ modified[i] \in DOMAIN handle
        /\ ~ToCome(stack, modified[i]) /\ ~Comparing(modified[i])
    BY DEF ListsRight
  <2>2. \A p : In("comparing")' /\ PathOf(Top.at)' = p => Comparing(p) \/ ToCome(stack, p)
    BY DEF Comparing
  <2> QED
    BY <2>1, <2>2
<1> QED
  BY <1>1, <1>2, <1>3 DEF ListsRight, Comparing

\* A name that joins a list it is not in.
LEMMA Joins ==
    ASSUME NEW list \in Seq(Seq(Names)), Len(list) <= Capacity, Once(list),
           NEW p \in Seq(Names), ~Shows(list, p), NEW s \in WithName(list, p)
    PROVE  /\ s \in Seq(Seq(Names)) /\ Len(s) <= Capacity /\ Once(s)
           /\ \A i \in DOMAIN s : s[i] = p \/ \E j \in DOMAIN list : s[i] = list[j]
           /\ \A q : Shows(list, q) => Shows(s, q)
           /\ s = list \/ Shows(s, p)
<1>1. CASE s = list
  BY <1>1
<1>2. CASE s = Append(list, p) /\ Len(list) < Capacity
  <2> DEFINE m == Len(list)
  <2>1. /\ s \in Seq(Seq(Names)) /\ Len(s) = m + 1 /\ m \in Nat
        /\ DOMAIN s = 1..m + 1 /\ DOMAIN list = 1..m
        /\ s[m + 1] = p /\ \A i \in 1..m : s[i] = list[i]
    BY <1>2
  <2>2. Len(s) <= Capacity
    BY <1>2, <2>1, Limits
  <2> HIDE DEF m
  <2>3. \A i \in 1..m + 1 : i = m + 1 \/ i \in 1..m
    BY <2>1
  <2>4. \A i \in 1..m : s[i] # p
    BY <2>1 DEF Shows
  <2>5. Once(s)
    <3>1. \A i, j \in 1..m : s[i] = s[j] => i = j
      BY <2>1 DEF Once
    <3> QED
      BY <2>1, <2>3, <2>4, <3>1 DEF Once
  <2>6. \A i \in DOMAIN s : s[i] = p \/ \E j \in DOMAIN list : s[i] = list[j]
    BY <2>1, <2>3
  <2>7. \A q : Shows(list, q) => Shows(s, q)
    <3>1. \A i \in 1..m : i \in 1..m + 1
      BY <2>1
    <3> QED
      BY <2>1, <3>1 DEF Shows
  <2>8. Shows(s, p)
    <3>1. m + 1 \in 1..m + 1
      BY <2>1
    <3> QED
      BY <2>1, <3>1 DEF Shows
  <2> QED
    BY <2>1, <2>2, <2>5, <2>6, <2>7, <2>8
<1> QED
  BY <1>1, <1>2 DEF WithName

\* What the scan has still to judge it judges, or it is still to judge.
LEMMA CompleteStays ==
    ASSUME FilesRight, [Next]_vars, Complete,
           UNCHANGED handle, ~Begin, gaps => gaps',
           stack' # <<>> \/ exit' = "OK" => stack # <<>> \/ exit = "OK",
           \A p : Shows(modified, p) => Shows(modified', p),
           \A p : Shows(untracked, p) => Shows(untracked', p),
           \A a \in Addable :
              /\ Steady(a) /\ Steady(a)' /\ work'[a.dir][a.name] = work[a.dir][a.name]
              /\ Leads(a) /\ ~gaps' /\ (stack' # <<>> \/ exit' = "OK")
              /\ ToCome(stack, a.path) \/ Comparing(a.path)
              => ToCome(stack', a.path) \/ Comparing(a.path)' \/ Judged(a)'
    PROVE  Complete'
<1> SUFFICES ASSUME stack' # <<>> \/ exit' = "OK", ~gaps',
                    NEW a \in Addable, Steady(a)', Leads(a)'
             PROVE  ToCome(stack', a.path) \/ Comparing(a.path)' \/ Judged(a)'
  BY DEF Complete
<1>1. Steady(a) /\ Leads(a) /\ work'[a.dir][a.name] = work[a.dir][a.name]
  BY SteadyBefore
<1>2. ToCome(stack, a.path) \/ Comparing(a.path) \/ Judged(a)
  BY <1>1 DEF Complete
<1>3. Judged(a) => Judged(a)'
  BY <1>1 DEF Judged
<1> QED
  BY <1>1, <1>2, <1>3

-----------------------------------------------------------------------------
(* Each step                                                               *)

ScanRight == StackRight /\ WaysRight /\ ListsRight /\ Complete

LEMMA WaysKept ==
    ASSUME FilesRight, WaysRight, [Next]_vars, Len(stack') = Len(stack),
           \A i \in 1..Len(stack) : /\ stack'[i].dir = stack[i].dir
                                    /\ stack'[i].links = stack[i].links
                                    /\ stack'[i].len = stack[i].len,
           \A p : \A i \in 1..Len(stack) : OnPath(stack', i, p) <=> OnPath(stack, i, p)
    PROVE  WaysRight'
<1>1. \A a \in Addable : Ways(a)' = Ways(a)
  BY WaysStay
<1> QED
  BY <1>1 DEF WaysRight

CrossedOut(f, n) ==
    \/ f = Done(n)
    \/ /\ f = [Done(n) EXCEPT !.stage = "comparing", !.at = n]
       /\ Found(n).kind = "file" /\ PathOf(n) \in DOMAIN handle

\* A name is crossed out: it leads nowhere, nobody sees where, it is a file
\* for the list of what is untracked, or one to compare.
LEMMA CrossesOut ==
    ASSUME FilesRight, ScanRight, NEW n \in Names, Scanning(n), NEW f \in Frames,
           CrossedOut(f, n),
           Becomes(f), UNCHANGED <<exit, handle>>, [Next]_vars
    PROVE  /\ StackRight' /\ WaysRight' /\ stack # <<>> /\ stack' # <<>>
           /\ Len(stack') = Len(stack) /\ Top' = f
           /\ \A p : ToCome(stack', p) => ToCome(stack, p)
           /\ \A p : ToCome(stack, p) =>
                 \/ ToCome(stack', p)
                 \/ OnPath(stack, Len(stack), p) /\ p[Len(stack)] = n
           /\ \A p : ~Comparing(p)
           /\ \A x : PathOf(x)' = PathOf(x)
<1>1. stack # <<>> /\ Top.stage = "looking" /\ n \in Top.todo /\ StackRight /\ WaysRight
  BY DEF Scanning, In, ScanRight
<1>2. Top \in Frames /\ Top.todo \subseteq Names
  BY <1>1, TopFacts
<1> USE DEF CrossedOut
<1>3. /\ f \in Frames /\ f.dir = Top.dir /\ f.path = Top.path /\ f.len = Top.len
      /\ f.links = Top.links /\ f.todo = Top.todo \ {n}
      /\ f = Done(n) => f.stage = "looking"
      /\ f # Done(n) => f.stage = "comparing" /\ f.at = n
  BY <1>1, <1>2 DEF Done, Frames
<1>4. f.stage = "comparing" =>
         /\ Loud(Top) /\ f.at \in Names \ f.todo
         /\ LengthOf(f.at) < MaxPathLen /\ PathOf(f.at) \in DOMAIN handle
  BY <1>1, <1>3, FoundFacts
<1>5. /\ StackRight' /\ stack' # <<>> /\ Len(stack') = Len(stack) /\ Top' = f
      /\ \A i \in 1..Len(stack) : /\ stack'[i].dir = stack[i].dir
                                  /\ stack'[i].links = stack[i].links
                                  /\ stack'[i].len = stack[i].len
      /\ \A p : \A i \in 1..Len(stack) : OnPath(stack', i, p) <=> OnPath(stack, i, p)
      /\ \A p : ToCome(stack', p) => ToCome(stack, p)
      /\ \A p : ToCome(stack, p) =>
            \/ ToCome(stack', p)
            \/ OnPath(stack, Len(stack), p) /\ p[Len(stack)] = n
      /\ \A x : PathOf(x)' = PathOf(x)
  BY <1>1, <1>3, <1>4, GoesOn
<1>6. WaysRight'
  BY <1>1, <1>5, WaysKept
<1>7. \A p : ~Comparing(p)
  BY <1>1 DEF Comparing, In
<1> QED
  BY <1>1, <1>3, <1>5, <1>6, <1>7

LEMMA PassStep ==
    ASSUME FilesRight, ScanRight, [Next]_vars, ~Begin,
           NEW n \in Names, Pass(n) \/ PassUnseen(n)
    PROVE  ScanRight'
<1>1. /\ Scanning(n) /\ Becomes(Done(n))
      /\ UNCHANGED <<exit, handle, modified, untracked>>
      /\ gaps' \/ (gaps' = gaps /\ Found(n).kind \in {"none", "other"})
  BY DEF Pass, PassUnseen, lists
<1>2. /\ StackRight' /\ WaysRight' /\ stack # <<>> /\ stack' # <<>>
      /\ Top' = Done(n) /\ Top'.stage = "looking"
      /\ \A p : ToCome(stack', p) => ToCome(stack, p)
      /\ \A p : ToCome(stack, p) =>
            \/ ToCome(stack', p)
            \/ OnPath(stack, Len(stack), p) /\ p[Len(stack)] = n
      /\ \A p : ~Comparing(p)
  <2>1. stack # <<>> /\ Top \in Frames /\ Top.stage = "looking"
    BY <1>1, TopFacts DEF Scanning, In, ScanRight
  <2>2. Done(n) \in Frames /\ Done(n).stage = "looking"
    BY <2>1 DEF Done, Frames
  <2>3. UNCHANGED <<exit, handle>> /\ CrossedOut(Done(n), n)
    BY <1>1 DEF CrossedOut
  <2> QED
    BY <1>1, <2>1, <2>2, <2>3, CrossesOut
<1>3. \A p : ~Comparing(p)'
  BY <1>2 DEF Comparing, In
<1>4. ListsRight'
  BY <1>1, <1>2, <1>3, ListsStay DEF ScanRight
<1>5. Complete'
  <2>1. ASSUME NEW a \in Addable, Steady(a), Leads(a), ~gaps',
               ToCome(stack, a.path) \/ Comparing(a.path)
        PROVE  ToCome(stack', a.path)
    <3>1. SUFFICES ASSUME OnPath(stack, Len(stack), a.path), a.path[Len(stack)] = n
                   PROVE  FALSE
      BY <1>2, <2>1
    <3>2. Found(n).kind \in {"dir", "link", "file"}
      BY <1>2, <2>1, <3>1, AtTurn DEF ScanRight, Steady
    <3> QED
      BY <1>1, <2>1, <3>2
  <2> QED
    BY <1>1, <1>2, <2>1, CompleteStays DEF ScanRight
<1> QED
  BY <1>2, <1>4, <1>5 DEF ScanRight

LEMMA FindTrackedStep ==
    ASSUME FilesRight, ScanRight, [Next]_vars, ~Begin,
           NEW n \in Names, FindTracked(n)
    PROVE  ScanRight'
<1> DEFINE f == [Done(n) EXCEPT !.stage = "comparing", !.at = n]
<1>1. /\ Scanning(n) /\ Becomes(f)
      /\ UNCHANGED <<exit, handle, modified, untracked, gaps>>
      /\ Found(n).kind = "file" /\ PathOf(n) \in DOMAIN handle
  BY DEF FindTracked, lists
<1>2. stack # <<>> /\ n \in Top.todo /\ Top \in Frames /\ StackRight /\ Loud(Top)
  BY <1>1, TopFacts, FoundFacts DEF Scanning, In, ScanRight
<1>3. f \in Frames /\ f.stage = "comparing" /\ f.at = n
  BY <1>1, <1>2 DEF Done, Frames, Scanning, In
<1> HIDE DEF f
<1>0. UNCHANGED <<exit, handle>> /\ CrossedOut(f, n) /\ FilesRight /\ ScanRight
  BY <1>1 DEF CrossedOut, f
<1>4. /\ StackRight' /\ WaysRight' /\ stack' # <<>> /\ Top' = f
      /\ \A p : ToCome(stack', p) => ToCome(stack, p)
      /\ \A p : ToCome(stack, p) =>
            \/ ToCome(stack', p)
            \/ OnPath(stack, Len(stack), p) /\ p[Len(stack)] = n
      /\ \A p : ~Comparing(p)
      /\ \A x : PathOf(x)' = PathOf(x)
  BY <1>1, <1>3, <1>0, CrossesOut
<1>5. \A p : Comparing(p)' <=> PathOf(n) = p
  <2>1. PathOf(Top.at)' = PathOf(n)
    BY <1>3, <1>4 DEF PathOf
  <2> QED
    BY <1>3, <1>4, <2>1 DEF Comparing, In
<1>6. ToCome(stack, PathOf(n))
  BY <1>2, StillToDo
<1>7. ListsRight'
  BY <1>1, <1>4, <1>5, <1>6, ListsStay DEF ScanRight
<1>8. Complete'
  <2>1. ASSUME NEW a \in Addable, Steady(a), Leads(a),
               ToCome(stack, a.path) \/ Comparing(a.path), ~ToCome(stack', a.path)
        PROVE  Comparing(a.path)'
    <3>1. OnPath(stack, Len(stack), a.path) /\ a.path[Len(stack)] = n
      BY <1>4, <2>1
    <3>2. PathOf(n) = a.path
      BY <1>1, <1>2, <2>1, <3>1, AtTurn DEF ScanRight, Steady
    <3> QED
      BY <1>5, <3>2
  <2> QED
    BY <1>1, <1>2, <1>4, <2>1, CompleteStays DEF ScanRight
<1> QED
  BY <1>4, <1>7, <1>8 DEF ScanRight

LEMMA FindUntrackedStep ==
    ASSUME FilesRight, ScanRight, [Next]_vars, ~Begin,
           NEW n \in Names, FindUntracked(n)
    PROVE  ScanRight'
<1> DEFINE q == PathOf(n)
<1>1. /\ Scanning(n) /\ Becomes(Done(n))
      /\ UNCHANGED <<exit, handle, modified>>
      /\ Found(n).kind = "file" /\ q \notin DOMAIN handle
      /\ untracked' \in WithName(untracked, q)
      /\ gaps' = (gaps \/ untracked' = untracked)
  BY DEF FindUntracked
<1>2. /\ stack # <<>> /\ n \in Top.todo /\ Top \in Frames /\ StackRight
      /\ Loud(Top) /\ Top.stage = "looking" /\ q \in Seq(Names)
  BY <1>1, TopFacts, FoundFacts, PathFacts DEF Scanning, In, ScanRight
<1>3. /\ Done(n) \in Frames /\ Done(n).stage = "looking" /\ Loud(Done(n))
      /\ Done(n).todo = Top.todo \ {n} /\ Done(n).path = Top.path
      /\ CrossedOut(Done(n), n)
  BY <1>2 DEF Done, Frames, Loud, CrossedOut
<1>4. /\ StackRight' /\ WaysRight' /\ stack' # <<>> /\ Top' = Done(n)
      /\ \A p : ToCome(stack', p) => ToCome(stack, p)
      /\ \A p : ToCome(stack, p) =>
            \/ ToCome(stack', p)
            \/ OnPath(stack, Len(stack), p) /\ p[Len(stack)] = n
      /\ \A p : ~Comparing(p)
  <2>1. UNCHANGED <<exit, handle>>
    BY <1>1
  <2> QED
    BY <1>1, <1>2, <1>3, <2>1, CrossesOut
<1>5. ToCome(stack, q)
  BY <1>2, StillToDo
<1>6. ~ToCome(stack', q)
  <2>1. /\ Nested(stack') /\ stack'[Len(stack')] = Done(n)
        /\ n \notin Done(n).todo /\ q = Append(Done(n).path, n)
    BY <1>3, <1>4 DEF StackRight, Top, PathOf
  <2>2. n \in Names /\ Loud(stack'[Len(stack')]) /\ n \notin stack'[Len(stack')].todo
    BY <1>3, <2>1
  <2> HIDE DEF q
  <2> QED
    BY <1>4, <2>1, <2>2, NotToCome
<1>7. ~Shows(untracked, q)
  BY <1>5 DEF ListsRight, ScanRight, Shows
<1>8. /\ untracked' \in Seq(Seq(Names)) /\ Len(untracked') <= Capacity /\ Once(untracked')
      /\ \A i \in DOMAIN untracked' :
            untracked'[i] = q \/ \E j \in DOMAIN untracked : untracked'[i] = untracked[j]
      /\ \A p : Shows(untracked, p) => Shows(untracked', p)
      /\ untracked' = untracked \/ Shows(untracked', q)
  BY <1>1, <1>2, <1>7, Joins DEF ListsRight, ScanRight
<1>9. ListsRight'
  <2>1. ASSUME NEW i \in DOMAIN untracked'
        PROVE  untracked'[i] \notin DOMAIN handle /\ ~ToCome(stack', untracked'[i])
    <3>1. CASE untracked'[i] = q
      BY <1>1, <1>6, <3>1
    <3>2. ASSUME NEW j \in DOMAIN untracked, untracked'[i] = untracked[j]
          PROVE  untracked'[i] \notin DOMAIN handle /\ ~ToCome(stack', untracked'[i])
      <4>1. untracked[j] \notin DOMAIN handle /\ ~ToCome(stack, untracked[j])
        BY DEF ListsRight, ScanRight
      <4> QED
        BY <1>4, <3>2, <4>1
    <3> QED
      BY <1>8, <3>1, <3>2
  <2>2. \A p : ~(In("comparing")' /\ PathOf(Top.at)' = p)
    BY <1>3, <1>4 DEF In
  <2>3. \A i \in DOMAIN modified :
           modified[i] \in DOMAIN handle /\ ~ToCome(stack', modified[i])
    BY <1>4 DEF ListsRight, ScanRight
  <2>4. modified' = modified /\ handle' = handle
    BY <1>1
  <2>5. /\ modified \in Seq(Seq(Names)) /\ Len(modified) <= Capacity /\ Once(modified)
    BY DEF ListsRight, ScanRight
  <2> QED
    BY <1>8, <2>1, <2>2, <2>3, <2>4, <2>5 DEF ListsRight, Comparing
<1>10. Complete'
  <2>1. ASSUME NEW a \in Addable, Steady(a), Leads(a), ~gaps',
               ToCome(stack, a.path) \/ Comparing(a.path), ~ToCome(stack', a.path)
        PROVE  Judged(a)'
    <3>1. OnPath(stack, Len(stack), a.path) /\ a.path[Len(stack)] = n
      BY <1>4, <2>1
    <3>2. q = a.path
      BY <1>1, <1>2, <2>1, <3>1, AtTurn DEF ScanRight, Steady
    <3>3. Shows(untracked', q)
      BY <1>1, <1>8, <2>1
    <3> QED
      BY <1>1, <3>2, <3>3 DEF Judged
  <2>2. UNCHANGED handle /\ (\A p : Shows(modified, p) => Shows(modified', p))
        /\ (gaps => gaps') /\ (exit' = "OK" => exit = "OK")
    BY <1>1
  <2> QED
    BY <1>2, <1>4, <1>8, <2>1, <2>2, CompleteStays DEF ScanRight
<1> QED
  BY <1>4, <1>9, <1>10 DEF ScanRight

\* The innermost call compares, which may have waited: what it judges is the
\* file as it now is.
LEMMA CompareStep ==
    ASSUME FilesRight, ScanRight, [Next]_vars, ~Begin, Compare
    PROVE  ScanRight'
<1> DEFINE q == PathOf(Top.at)
           f == [Top EXCEPT !.stage = "looking"]
<1>1. /\ In("comparing") /\ Becomes(f)
      /\ UNCHANGED <<work, exit, handle, untracked>>
      /\ \/ /\ ~Changed(work[Top.dir][Top.at], handle[q])
            /\ UNCHANGED <<modified, gaps>>
         \/ /\ modified' \in WithName(modified, q)
            /\ gaps' = (gaps \/ modified' = modified)
  BY DEF Compare, tree
<1>2. Comparing(q) /\ StackRight
  BY <1>1 DEF Comparing, ScanRight
<1>3. /\ stack # <<>> /\ Top.stage = "comparing" /\ Loud(Top)
      /\ Top.at \in Names \ Top.todo /\ q \in DOMAIN handle
      /\ q \in Seq(Names)
      /\ ~ToCome(stack, q)
  BY <1>2, WhileComparing
<1>4. /\ f \in Frames /\ f.dir = Top.dir /\ f.path = Top.path /\ f.len = Top.len
      /\ f.links = Top.links /\ f.todo = Top.todo /\ f.stage = "looking"
  BY <1>2, <1>3, TopFacts DEF Frames
<1> HIDE DEF f, q
<1>5. /\ StackRight' /\ stack' # <<>> /\ Len(stack') = Len(stack) /\ Top' = f
      /\ \A i \in 1..Len(stack) : /\ stack'[i].dir = stack[i].dir
                                  /\ stack'[i].links = stack[i].links
                                  /\ stack'[i].len = stack[i].len
      /\ \A p : \A i \in 1..Len(stack) : OnPath(stack', i, p) <=> OnPath(stack, i, p)
      /\ \A p : ToCome(stack', p) => ToCome(stack, p)
      /\ \A p : ToCome(stack, p) => ToCome(stack', p)
  <2>1. UNCHANGED <<exit, handle>> /\ f.todo \subseteq Top.todo /\ f.stage # "comparing"
    BY <1>1, <1>4
  <2> QED
    BY <1>1, <1>2, <1>3, <1>4, <2>1, GoesOn
<1>6. WaysRight'
  BY <1>5, WaysKept DEF ScanRight
<1>7. \A p : ~(In("comparing")' /\ PathOf(Top.at)' = p)
  BY <1>4, <1>5 DEF In
<1>8. ~Shows(modified, q)
  BY <1>2 DEF ListsRight, ScanRight, Shows
<1>9. /\ modified' \in Seq(Seq(Names)) /\ Len(modified') <= Capacity /\ Once(modified')
      /\ \A i \in DOMAIN modified' :
            modified'[i] = q \/ \E j \in DOMAIN modified : modified'[i] = modified[j]
      /\ \A p : Shows(modified, p) => Shows(modified', p)
      /\ \/ ~Changed(work[Top.dir][Top.at], handle[q])
         \/ gaps' \/ Shows(modified', q)
      /\ gaps => gaps'
  <2>1. CASE UNCHANGED <<modified, gaps>> /\ ~Changed(work[Top.dir][Top.at], handle[q])
    BY <2>1 DEF ListsRight, ScanRight
  <2>2. CASE modified' \in WithName(modified, q) /\ gaps' = (gaps \/ modified' = modified)
    <3>1. /\ modified' \in Seq(Seq(Names)) /\ Len(modified') <= Capacity /\ Once(modified')
          /\ \A i \in DOMAIN modified' :
                modified'[i] = q \/ \E j \in DOMAIN modified : modified'[i] = modified[j]
          /\ \A p : Shows(modified, p) => Shows(modified', p)
          /\ modified' = modified \/ Shows(modified', q)
      BY <1>3, <1>8, <2>2, Joins DEF ListsRight, ScanRight
    <3>2. (gaps => gaps') /\ (modified' = modified => gaps')
      BY <2>2
    <3> QED
      BY <3>1, <3>2
  <2> QED
    BY <1>1, <2>1, <2>2
<1>10. ListsRight'
  <2>1. ASSUME NEW i \in DOMAIN modified'
        PROVE  modified'[i] \in DOMAIN handle /\ ~ToCome(stack', modified'[i])
    <3>1. CASE modified'[i] = q
      BY <1>3, <1>5, <3>1
    <3>2. ASSUME NEW j \in DOMAIN modified, modified'[i] = modified[j]
          PROVE  modified'[i] \in DOMAIN handle /\ ~ToCome(stack', modified'[i])
      <4>1. modified[j] \in DOMAIN handle /\ ~ToCome(stack, modified[j])
        BY DEF ListsRight, ScanRight
      <4> QED
        BY <1>5, <3>2, <4>1
    <3> QED
      BY <1>9, <3>1, <3>2
  <2>2. \A i \in DOMAIN untracked :
           untracked[i] \notin DOMAIN handle /\ ~ToCome(stack', untracked[i])
    BY <1>5 DEF ListsRight, ScanRight
  <2>3. untracked' = untracked /\ handle' = handle
    BY <1>1
  <2>4. /\ untracked \in Seq(Seq(Names)) /\ Len(untracked) <= Capacity /\ Once(untracked)
    BY DEF ListsRight, ScanRight
  <2> QED
    BY <1>7, <1>9, <2>1, <2>2, <2>3, <2>4 DEF ListsRight, Comparing
<1>11. Complete'
  <2>1. ASSUME NEW a \in Addable, Steady(a), Leads(a), ~gaps',
               ToCome(stack, a.path) \/ Comparing(a.path), ~ToCome(stack', a.path)
        PROVE  Judged(a)'
    <3>1. Comparing(a.path)
      BY <1>5, <2>1
    <3>2. /\ PathOf(Top.at) = a.path /\ Top.at \in Names
          /\ OnPath(stack, Len(stack), a.path) /\ a.path[Len(stack)] = Top.at
      BY <1>2, <3>1, WhileComparing
    <3>3. q = a.path /\ Top.dir = a.dir /\ Top.at = a.name
      BY <1>2, <1>3, <2>1, <3>2, AtTurn DEF ScanRight, Steady, q
    <3>4. work' = work /\ handle' = handle
      BY <1>1
    <3> QED
      BY <1>3, <1>9, <2>1, <3>3, <3>4 DEF Judged
  <2>2. UNCHANGED handle /\ (\A p : Shows(untracked, p) => Shows(untracked', p))
        /\ (exit' = "OK" => exit = "OK")
    BY <1>1
  <2> QED
    BY <1>3, <1>9, <2>1, <2>2, CompleteStays DEF ScanRight
<1> QED
  BY <1>5, <1>6, <1>10, <1>11 DEF ScanRight

LEMMA DescendStep ==
    ASSUME FilesRight, ScanRight, [Next]_vars, ~Begin,
           NEW n \in Names, Descend(n)
    PROVE  ScanRight'
<1> DEFINE mid == Append(Below, Done(n))
           k == Len(stack)
<1>1. /\ UNCHANGED <<exit, handle, modified, untracked, gaps, work>>
      /\ Found(n).kind \in {"dir", "link"}
  BY DEF Descend, lists, tree
<1>2. /\ StackRight' /\ stack # <<>> /\ stack' # <<>> /\ ~In("comparing")'
      /\ n \in Top.todo /\ Top.stage = "looking"
      /\ Exchanged(stack, mid, Done(n)) /\ Done(n).todo = Top.todo \ {n}
      /\ Done(n).dir = Top.dir /\ Done(n).links = Top.links
      /\ Done(n).len = Top.len
      /\ Pushed(mid, stack', Top', n)
      /\ Top'.todo = {m \in Names : work[Top'.dir][m] # None}
      /\ LengthOf(n) < MaxPathLen - 1 => Loud(Top')
      /\ Loud(Top') =>
            /\ Top'.dir = Found(n).dir /\ Top'.len = LengthOf(n)
            /\ Top'.links = Top.links + (IF Found(n).kind = "link" THEN 1 ELSE 0)
  BY GoesDown DEF ScanRight
<1> HIDE DEF mid
<1>3. k \in Nat \ {0} /\ Nested(stack) /\ Top = stack[k] /\ StackRight
  BY <1>2, TopFacts DEF Top, ScanRight
<1>4. /\ Len(mid) = k /\ mid[k] = Done(n) /\ \A i \in 1..k - 1 : mid[i] = stack[i]
      /\ \A p : \A i \in 1..k : OnPath(mid, i, p) <=> OnPath(stack, i, p)
      /\ \A p : ToCome(mid, p) => ToCome(stack, p)
      /\ \A p : ToCome(stack, p) =>
            ToCome(mid, p) \/ (OnPath(stack, k, p) /\ p[k] = n)
  BY <1>2, <1>3 DEF Exchanged
<1>5. /\ Len(stack') = k + 1 /\ \A i \in 1..k : stack'[i] = mid[i]
      /\ stack'[k + 1] = Top'
      /\ \A p : \A i \in 1..k : OnPath(stack', i, p) <=> OnPath(stack, i, p)
      /\ \A p : OnPath(stack', k + 1, p) <=>
            Loud(Top') /\ k + 1 <= Len(p) /\ OnPath(stack, k, p) /\ p[k] = n
      /\ \A p : ToCome(stack', p) =>
            ToCome(mid, p) \/ (OnPath(stack, k, p) /\ p[k] = n)
      /\ \A p : ToCome(mid, p) => ToCome(stack', p)
  <2>1. k \in 1..k
    BY <1>3
  <2> QED
    BY <1>2, <1>4, <2>1 DEF Pushed
<1>6. \A p : ToCome(stack', p) => ToCome(stack, p)
  <2>1. ASSUME NEW p, OnPath(stack, k, p), p[k] = n PROVE ToCome(stack, p)
    BY <1>2, <1>3, <2>1 DEF ToCome
  <2> QED
    BY <1>4, <1>5, <2>1
<1>7. WaysRight'
  <2>1. ASSUME NEW a \in Addable, NEW way \in Ways(a), NEW i \in 1..k + 1,
               OnPath(stack', i, a.path)
        PROVE  /\ stack'[i].dir = way[i].dir /\ stack'[i].links = way[i].links
               /\ stack'[i].len = way[i].len
    <3>1. CASE i = k + 1
      <4>1. /\ Loud(Top') /\ k + 1 <= Len(a.path) /\ OnPath(stack, k, a.path)
            /\ a.path[k] = n
        BY <1>5, <2>1, <3>1
      <4>2. Len(a.path) \in Nat /\ k < Len(a.path)
        <5>1. Len(a.path) \in Nat
          BY StatusAssumption
        <5> QED
          BY <1>3, <4>1, <5>1
      <4>3. /\ way[k + 1].dir = Found(n).dir
            /\ way[k + 1].links = Top.links + (IF Found(n).kind = "link" THEN 1 ELSE 0)
            /\ way[k + 1].len = LengthOf(n)
        BY <1>2, <4>1, <4>2, OnWay DEF ScanRight
      <4> QED
        BY <1>2, <1>5, <3>1, <4>1, <4>3
    <3>2. CASE i # k + 1
      <4>1. i \in 1..k /\ OnPath(stack, i, a.path)
        BY <1>3, <1>5, <2>1, <3>2
      <4>2. /\ stack[i].dir = way[i].dir /\ stack[i].links = way[i].links
            /\ stack[i].len = way[i].len
        BY <4>1 DEF WaysRight, ScanRight
      <4>3. CASE i = k
        BY <1>2, <1>3, <1>4, <1>5, <4>1, <4>2, <4>3
      <4>4. CASE i # k
        <5>1. i \in 1..k - 1
          BY <1>3, <4>1, <4>4
        <5> QED
          BY <1>4, <1>5, <4>1, <4>2, <5>1
      <4> QED
        BY <4>3, <4>4
    <3> QED
      BY <3>1, <3>2
  <2>2. \A a \in Addable : Ways(a)' = Ways(a)
    BY WaysStay
  <2> QED
    BY <1>5, <2>1, <2>2 DEF WaysRight
<1>8. ListsRight'
  <2>1. \A p : ~Comparing(p)'
    BY <1>2 DEF Comparing
  <2> QED
    BY <1>1, <1>6, <2>1, ListsStay DEF ScanRight
<1>9. Complete'
  <2>1. ASSUME NEW a \in Addable, Steady(a), Leads(a),
               ToCome(stack, a.path) \/ Comparing(a.path)
        PROVE  ToCome(stack', a.path)
    <3>1. ~Comparing(a.path)
      BY <1>2 DEF Comparing, In
    <3>2. CASE ToCome(mid, a.path)
      BY <1>5, <3>2
    <3>3. CASE OnPath(stack, k, a.path) /\ a.path[k] = n
      <4>1. PICK way \in Ways(a) : TRUE
        BY <2>1 DEF Leads
      <4>2. k < Len(a.path) /\ Len(a.path) \in Nat
        <5>1. Len(a.path) \in Nat
          BY StatusAssumption
        <5>2. k < Len(a.path)
          BY <1>1, <1>2, <1>3, <2>1, <3>3, AtTurn DEF ScanRight, Steady
        <5> QED
          BY <5>1, <5>2
      <4>3. LengthOf(n) < MaxPathLen - 1 /\ way[k + 1].dir = Found(n).dir
        BY <1>2, <1>3, <3>3, <4>2, OnWay DEF ScanRight
      <4>4. k + 1 \in 1..Len(a.path)
        BY <1>3, <4>2
      <4>5. /\ a.path[k + 1] \in Names
            /\ work[way[k + 1].dir][a.path[k + 1]] # None
        BY <2>1, <4>4, WayThere DEF Steady
      <4>6. a.path[k + 1] \in Top'.todo
        BY <1>2, <4>3, <4>5
      <4>7. OnPath(stack', k + 1, a.path)
        BY <1>2, <1>5, <3>3, <4>3, <4>4
      <4>8. k + 1 \in 1..Len(stack')
        BY <1>3, <1>5
      <4> QED
        BY <1>5, <4>6, <4>7, <4>8 DEF ToCome
    <3> QED
      BY <1>4, <2>1, <3>1, <3>2, <3>3
  <2> QED
    BY <1>1, <1>2, <2>1, CompleteStays DEF ScanRight
<1> QED
  BY <1>2, <1>7, <1>8, <1>9 DEF ScanRight

LEMMA OverflowStep ==
    ASSUME FilesRight, ScanRight, [Next]_vars, ~Begin,
           NEW n \in Names, Overflow(n)
    PROVE  ScanRight'
<1>1. /\ stack' = <<>> /\ exit' = "killed"
      /\ UNCHANGED <<handle, modified, untracked>>
  BY DEF Overflow, lists
<1>2. Len(stack') = 0 /\ stack' \in Seq(Frames)
  BY <1>1
<1>3. (\A p : ~ToCome(stack', p)) /\ ~In("comparing")'
  BY <1>1, <1>2 DEF ToCome, In
<1>4. StackRight'
  BY <1>1, <1>2, <1>3, Limits DEF StackRight, Nested
<1>5. WaysRight'
  BY <1>2 DEF WaysRight
<1>6. ListsRight'
  <2>1. \A p : ~Comparing(p)'
    BY <1>3 DEF Comparing
  <2> QED
    BY <1>1, <1>3, <2>1, ListsStay DEF ScanRight
<1>7. Complete'
  BY <1>1 DEF Complete
<1> QED
  BY <1>4, <1>5, <1>6, <1>7 DEF ScanRight

LEMMA LeaveStep ==
    ASSUME FilesRight, ScanRight, [Next]_vars, ~Begin, Leave
    PROVE  ScanRight'
<1>1. /\ StackRight' /\ stack # <<>> /\ ~In("comparing") /\ ~In("comparing")'
      /\ Popped(stack, stack') /\ Top.todo = {}
      /\ exit' = IF stack' = <<>> THEN "OK" ELSE exit
      /\ UNCHANGED <<handle, modified, untracked, gaps>>
  BY GoesUp DEF ScanRight, lists
<1>2. /\ Len(stack) \in Nat \ {0} /\ Top = stack[Len(stack)] /\ StackRight
  BY <1>1, TopFacts DEF Top, ScanRight
<1>3. /\ Len(stack') = Len(stack) - 1
      /\ \A i \in 1..Len(stack') : i \in 1..Len(stack) /\ stack'[i] = stack[i]
      /\ \A p : \A i \in 1..Len(stack') : OnPath(stack', i, p) => OnPath(stack, i, p)
      /\ \A p : ToCome(stack', p) <=> ToCome(stack, p)
  BY <1>1, <1>2 DEF Popped
<1>4. WaysRight'
  <2>1. \A a \in Addable : Ways(a)' = Ways(a)
    BY WaysStay
  <2> QED
    BY <1>3, <2>1 DEF WaysRight, ScanRight
<1>5. (\A p : ~Comparing(p)) /\ (\A p : ~Comparing(p)')
  BY <1>1 DEF Comparing
<1>6. ListsRight'
  BY <1>1, <1>3, <1>5, ListsStay DEF ScanRight
<1>7. Complete'
  BY <1>1, <1>3, <1>5, CompleteStays DEF ScanRight
<1> QED
  BY <1>1, <1>4, <1>6, <1>7 DEF ScanRight

LEMMA BeginStep ==
    ASSUME FilesRight, ScanRight, [Next]_vars, Begin
    PROVE  ScanRight'
<1> DEFINE g == Frame(Root, <<>>, 1, 0)
<1>1. /\ stack' = <<g>> /\ handle' = index /\ modified' = <<>> /\ untracked' = <<>>
      /\ exit' = "none" /\ UNCHANGED work
  BY DEF Begin, tree
<1>2. /\ g.dir = Root /\ g.path = <<>> /\ g.len = 1 /\ g.links = 0
      /\ g.todo = {m \in Names : work[Root][m] # None}
      /\ g.stage = "looking" /\ g \in Frames /\ Loud(g)
  <2>1. /\ g.dir = Root /\ g.path = <<>> /\ g.len = 1 /\ g.links = 0
        /\ g.todo = {m \in Names : work[Root][m] # None}
        /\ g.stage = "looking" /\ g.at = 0
    BY DEF Frame
  <2>2. /\ Root \in Dirs /\ <<>> \in Seq(Names) /\ 1 \in 1..MaxPathLen - 1
        /\ 0 \in 0..MaxLinks /\ 1 < MaxPathLen - 1
    BY StatusAssumption, Limits
  <2> QED
    BY <2>1, <2>2 DEF Frame, Frames, Loud
<1> HIDE DEF g
<1>3. /\ stack' \in Seq(Frames) /\ Len(stack') = 1 /\ stack'[1] = g
      /\ stack' # <<>> /\ Top' = g
  BY <1>1, <1>2 DEF Top
<1>4. Nested(stack')
  BY <1>2, <1>3 DEF Nested
<1>5. ~In("comparing")'
  BY <1>2, <1>3 DEF In
<1>6. StackRight'
  BY <1>1, <1>2, <1>3, <1>4, <1>5, Limits DEF StackRight
<1>7. \A a \in Addable : Ways(a)' = Ways(a)
  BY WaysStay
<1>8. WaysRight'
  <2>1. ASSUME NEW a \in Addable, NEW way \in Ways(a)
        PROVE  way[1] = [dir |-> Root, links |-> 0, len |-> 1]
    BY DEF Ways
  <2>2. \A i \in 1..1 : i = 1
    OBVIOUS
  <2> QED
    BY <1>2, <1>3, <1>7, <2>1, <2>2 DEF WaysRight
<1>9. ListsRight'
  <2>1. /\ <<>> \in Seq(Seq(Names)) /\ Len(<<>>) = 0 /\ Once(<<>>) /\ DOMAIN <<>> = {}
    BY DEF Once
  <2> QED
    BY <1>1, <2>1, Limits DEF ListsRight
<1>10. Complete'
  <2>1. ASSUME NEW a \in Addable, Steady(a)', Leads(a)' PROVE ToCome(stack', a.path)
    <3>1. PICK way \in Ways(a) : TRUE
      BY <1>7, <2>1 DEF Leads
    <3>2. /\ way[1].dir = Root /\ work[a.dir][a.name].kind = "file"
          /\ 1 \in 1..Len(a.path)
      <4>1. way[1] = [dir |-> Root, links |-> 0, len |-> 1]
        BY DEF Ways
      <4>2. a.path \in Seq(Names) /\ a.path # <<>>
        BY StatusAssumption
      <4>3. Len(a.path) \in Nat \ {0}
        BY <4>2, EmptySeq
      <4> QED
        BY <1>1, <2>1, <4>1, <4>3 DEF Steady
    <3>3. a.path[1] \in g.todo
      BY <1>2, <3>2, WayThere
    <3>4. OnPath(stack', 1, a.path)
      <4>1. 1 <= Len(a.path) /\ \A i \in 1..1 - 1 : FALSE
        BY <3>2
      <4> QED
        BY <1>2, <1>3, <4>1 DEF OnPath
    <3> QED
      BY <1>3, <3>3, <3>4 DEF ToCome
  <2> QED
    BY <2>1 DEF Complete
<1> QED
  BY <1>6, <1>8, <1>9, <1>10 DEF ScanRight

\* What happens beside the scan, and a command that does not begin.
LEMMA StillStep ==
    ASSUME FilesRight, ScanRight, [Next]_vars, ~Begin,
           UNCHANGED <<stack, handle, modified, untracked, gaps>>,
           exit' = exit \/ (stack = <<>> /\ exit' \in {"ERROR", "NOMEM"})
    PROVE  ScanRight'
<1>1. /\ \A p : ToCome(stack', p) <=> ToCome(stack, p)
      /\ \A p : Comparing(p)' <=> Comparing(p)
      /\ In("comparing")' <=> In("comparing")
      /\ Top' = Top
  BY DEF Comparing, In, Top, PathOf
<1>2. StackRight'
  <2>1. LengthOf(Top.at)' = LengthOf(Top.at) /\ PathOf(Top.at)' = PathOf(Top.at)
    BY <1>1 DEF LengthOf, PathOf
  <2> QED
    BY <1>1, <2>1 DEF StackRight, ScanRight
<1>3. WaysRight'
  BY WaysKept DEF ScanRight
<1>4. ListsRight'
  BY <1>1, ListsStay DEF ScanRight
<1>5. Complete'
  BY <1>1, CompleteStays DEF ScanRight
<1> QED
  BY <1>2, <1>3, <1>4, <1>5 DEF ScanRight

-----------------------------------------------------------------------------
(* The invariant                                                           *)

LEMMA StepScan ==
    ASSUME FilesRight, ScanRight, [Next]_vars
    PROVE  ScanRight'
<1>1. CASE Begin
  BY <1>1, BeginStep
<1>2. CASE ~Begin
  <2>1. CASE Outside /\ UNCHANGED <<stack, handle, lists, exit, runs, gaps>>
    BY <1>2, <2>1, StillStep DEF lists
  <2>2. CASE CannotBegin
    <3>1. /\ UNCHANGED <<stack, handle, modified, untracked, gaps>>
          /\ stack = <<>> /\ exit' \in {"ERROR", "NOMEM"}
      BY <2>2 DEF CannotBegin, lists
    <3> QED
      BY <1>2, <3>1, StillStep
  <2>3. CASE UNCHANGED vars
    BY <1>2, <2>3, StillStep DEF vars, lists
  <2>4. CASE Step
    <3>1. ASSUME NEW n \in Names, Pass(n) \/ PassUnseen(n) PROVE ScanRight'
      BY <1>2, <3>1, PassStep
    <3>2. ASSUME NEW n \in Names, Descend(n) \/ Overflow(n) PROVE ScanRight'
      BY <1>2, <3>2, DescendStep, OverflowStep
    <3>3. ASSUME NEW n \in Names, FindUntracked(n) \/ FindTracked(n) PROVE ScanRight'
      BY <1>2, <3>3, FindUntrackedStep, FindTrackedStep
    <3>4. CASE Compare \/ Leave
      BY <1>2, <3>4, CompareStep, LeaveStep
    <3> QED
      BY <2>4, <3>1, <3>2, <3>3, <3>4 DEF Step
  <2> QED
    BY <1>2, <2>1, <2>2, <2>3, <2>4, Sides
<1> QED
  BY <1>1, <1>2

\* What is staged is listed as far as there is room.
LEMMA StagedFits ==
    ASSUME FilesRight, Begin
    PROVE  staged' \subseteq DOMAIN handle' /\ Cardinality(staged') <= Capacity
<1>1. IsFiniteSet(DOMAIN index) /\ handle' = index
  BY DEF FilesRight, StagedIn, Begin
<1>2. PICK s \in SUBSET DOMAIN index :
         /\ \/ s = DOMAIN index /\ Cardinality(s) <= Capacity
            \/ Cardinality(s) = Capacity
            \/ "memory" \in Faults /\ Cardinality(s) < Capacity
         /\ staged' = s
  BY DEF Begin
<1>3. Cardinality(s) \in Nat
  BY <1>1, FS_Subset, FS_CardinalityType
<1> QED
  BY <1>1, <1>2, <1>3, Limits

LEMMA StepCounts ==
    ASSUME CountsRight, FilesRight, [Next]_vars
    PROVE  CountsRight'
<1> DEFINE Numbers == edits \in 0..MaxEdits /\ adds \in 0..MaxAdds /\ runs \in 0..MaxRuns
           Ends == {"none", "OK", "ERROR", "NOMEM", "killed"}
<1>1. Numbers /\ exit \in Ends /\ staged \subseteq DOMAIN handle
      /\ Cardinality(staged) <= Capacity
  BY DEF CountsRight
<1>2. Numbers'
  <2>1. CASE UNCHANGED <<edits, adds>> /\ (runs' = runs \/ (runs > 0 /\ runs' = runs - 1))
    BY <1>1, <2>1, StatusLimits
  <2>2. CASE Tick
    BY <2>1, <2>2 DEF Tick
  <2>3. ASSUME NEW f \in Editable, Edit(f[1], f[2]) PROVE Numbers'
    BY <1>1, <2>3, StatusLimits DEF Edit
  <2>4. ASSUME NEW a \in Addable, AddLooks(a) PROVE Numbers'
    BY <1>1, <2>4, StatusLimits DEF AddLooks, tree
  <2>5. ASSUME NEW x \in adding, AddReads(x) \/ AddFails(x) PROVE Numbers'
    BY <2>1, <2>5 DEF AddReads, AddFails, tree
  <2>6. CASE Begin \/ CannotBegin
    BY <2>1, <2>6 DEF Begin, CannotBegin, tree
  <2>7. ASSUME NEW n \in Names, Pass(n) \/ PassUnseen(n) \/ Descend(n) \/ Overflow(n)
        PROVE  Numbers'
    BY <2>1, <2>7 DEF Pass, PassUnseen, Descend, Overflow, tree
  <2>8. ASSUME NEW n \in Names, FindUntracked(n) \/ FindTracked(n) PROVE Numbers'
    BY <2>1, <2>8 DEF FindUntracked, FindTracked, tree
  <2>9. CASE Compare \/ Leave
    BY <2>1, <2>9 DEF Compare, Leave, tree
  <2>10. CASE UNCHANGED vars
    BY <2>1, <2>10 DEF vars, tree
  <2> QED
    BY <2>2, <2>3, <2>4, <2>5, <2>6, <2>7, <2>8, <2>9, <2>10 DEF Next, Step
<1>3. exit' \in Ends
  <2>1. CASE exit' = exit
    BY <1>1, <2>1
  <2>2. CASE Begin \/ CannotBegin
    BY <2>2 DEF Begin, CannotBegin
  <2>3. ASSUME NEW n \in Names, Pass(n) \/ PassUnseen(n) \/ Descend(n) \/ Overflow(n)
        PROVE  exit' \in Ends
    BY <1>1, <2>3 DEF Pass, PassUnseen, Descend, Overflow
  <2>4. ASSUME NEW n \in Names, FindUntracked(n) \/ FindTracked(n) PROVE exit' \in Ends
    BY <1>1, <2>4 DEF FindUntracked, FindTracked
  <2>5. CASE Compare \/ Leave
    BY <1>1, <2>5 DEF Compare, Leave
  <2>6. CASE UNCHANGED vars
    BY <2>1, <2>6 DEF vars
  <2> QED
    BY <2>1, <2>2, <2>3, <2>4, <2>5, <2>6, Sides DEF Step
<1>4. staged' \subseteq DOMAIN handle' /\ Cardinality(staged') <= Capacity
  <2>1. CASE UNCHANGED <<handle, staged>>
    BY <1>1, <2>1
  <2>2. ASSUME NEW n \in Names, Pass(n) \/ PassUnseen(n) \/ Descend(n) \/ Overflow(n)
        PROVE  UNCHANGED <<handle, staged>>
    BY <2>2 DEF Pass, PassUnseen, Descend, Overflow, lists
  <2>3. ASSUME NEW n \in Names, FindUntracked(n) \/ FindTracked(n)
        PROVE  UNCHANGED <<handle, staged>>
    BY <2>3 DEF FindUntracked, FindTracked, lists
  <2>4. CASE Compare \/ Leave
    BY <2>1, <2>4 DEF Compare, Leave, lists
  <2>5. CASE CannotBegin \/ UNCHANGED vars
    BY <2>1, <2>5 DEF CannotBegin, vars, lists
  <2>6. CASE Begin
    BY <2>6, StagedFits
  <2>7. CASE UNCHANGED <<stack, handle, lists, exit, runs, gaps>>
    BY <2>1, <2>7 DEF lists
  <2> QED
    BY <2>1, <2>2, <2>3, <2>4, <2>5, <2>6, <2>7, Sides DEF Step
<1> QED
  BY <1>2, <1>3, <1>4 DEF CountsRight

LEMMA InitStatus ==
    ASSUME Init
    PROVE  StatusInv
<1> USE DEF Init
<1>1. FilesRight
  <2>1. work \in [Dirs -> [Names -> Nodes]]
        /\ \A d \in Dirs, n \in Names : work[d][n].kind = "file" => work[d][n].mtime = 0
    BY StatusAssumption
  <2>2. IsFiniteSet({}) /\ DOMAIN Blank = {}
    BY FS_EmptySet DEF Blank
  <2>3. StagedIn(index) /\ StagedIn(handle)
    BY <2>2 DEF StagedIn
  <2> QED
    BY <2>1, <2>3, Limits DEF FilesRight
<1>2. stack \in Seq(Frames) /\ Len(stack) = 0
  OBVIOUS
<1>3. StackRight
  BY <1>2, Limits DEF StackRight, Nested, In
<1>4. WaysRight
  BY <1>2 DEF WaysRight
<1>5. ListsRight
  <2>1. /\ <<>> \in Seq(Seq(Names)) /\ Len(<<>>) = 0 /\ Once(<<>>) /\ DOMAIN <<>> = {}
    BY DEF Once
  <2> QED
    BY <2>1, Limits DEF ListsRight
<1>6. Complete
  BY DEF Complete
<1>7. CountsRight
  <2>1. Cardinality({}) = 0
    BY FS_EmptySet
  <2> QED
    BY <2>1, StatusLimits DEF CountsRight
<1> QED
  BY <1>1, <1>3, <1>4, <1>5, <1>6, <1>7 DEF StatusInv

LEMMA StatusStep ==
    ASSUME StatusInv, [Next]_vars
    PROVE  StatusInv'
  BY StepFiles, StepScan, StepCounts DEF StatusInv, ScanRight

LEMMA StatusIsInvariant == Spec => []StatusInv
  BY InitStatus, StatusStep, PTL DEF Spec

-----------------------------------------------------------------------------
(* What status promises                                                    *)

\* The calls of scan_directory are never more than there is stack for and the
\* links never more than the system follows, what is compared is an entry of
\* the index, and a list holds no more than its limit.
THEOREM StatusTypeCorrect == Spec => []TypeOK
<1>1. ASSUME StatusInv PROVE TypeOK
  <2>1. ASSUME NEW i \in DOMAIN stack
        PROVE  /\ stack[i].dir \in Dirs /\ stack[i].todo \subseteq Names
               /\ stack[i].links \in 0..MaxLinks
               /\ stack[i].stage = "comparing" =>
                     Append(stack[i].path, stack[i].at) \in DOMAIN handle
    <3>1. /\ stack \in Seq(Frames) /\ Len(stack) \in Nat /\ DOMAIN stack = 1..Len(stack)
          /\ stack # <<>>
      BY <1>1, <2>1 DEF StatusInv, StackRight, Nested
    <3>2. stack[i] \in Frames /\ i \in 1..Len(stack)
      BY <2>1, <3>1
    <3>3. CASE i = Len(stack)
      BY <1>1, <3>1, <3>2, <3>3 DEF StatusInv, StackRight, In, Top, PathOf, Frames
    <3>4. CASE i # Len(stack)
      <4>1. i \in 1..Len(stack) - 1
        BY <3>1, <3>2, <3>4
      <4>2. stack[i].stage = "looking"
        BY <1>1, <4>1 DEF StatusInv, StackRight
      <4> QED
        BY <3>2, <4>2 DEF Frames
    <3> QED
      BY <3>3, <3>4
  <2> QED
    BY <1>1, <2>1 DEF TypeOK, StatusInv, CountsRight, FilesRight, StackRight, ListsRight
<1> QED
  BY <1>1, StatusIsInvariant, PTL

\* When status has ended and nothing hindered it, a file nobody changed while it
\* ran is shown as untracked if the index it read has no entry for it and not
\* otherwise, and no path is shown twice: in every tree, however directories
\* and links lead into each other, of every file whose path fits.
THEOREM ListsComplete == Spec => []ListsAreComplete
<1>1. ASSUME StatusInv PROVE ListsAreComplete
  <2>1. SUFFICES ASSUME exit = "OK", ~gaps PROVE
           /\ \A a \in Addable : Steady(a) /\ Leads(a) =>
                 (a.path \notin DOMAIN handle <=> Shows(untracked, a.path))
           /\ Once(untracked) /\ Once(modified)
    BY DEF ListsAreComplete, Once
  <2>2. stack = <<>> /\ Len(stack) = 0
    BY <1>1, <2>1 DEF StatusInv, StackRight
  <2>3. \A p : ~ToCome(stack, p) /\ ~Comparing(p)
    BY <2>2 DEF ToCome, Comparing, In
  <2>4. ASSUME NEW a \in Addable, Steady(a), Leads(a)
        PROVE  a.path \notin DOMAIN handle <=> Shows(untracked, a.path)
    <3>1. Judged(a)
      BY <1>1, <2>1, <2>3, <2>4 DEF StatusInv, Complete
    <3>2. a.path \notin DOMAIN handle => Shows(untracked, a.path)
      BY <3>1 DEF Judged
    <3>3. Shows(untracked, a.path) => a.path \notin DOMAIN handle
      BY <1>1 DEF StatusInv, ListsRight, Shows
    <3> QED
      BY <3>2, <3>3
  <2> QED
    BY <1>1, <2>4 DEF StatusInv, ListsRight
<1> QED
  BY <1>1, StatusIsInvariant, PTL

\* Nor does status miss a change: if the content is not the one that was staged,
\* the path is shown as modified, unless the file was last changed in the very
\* second in which add looked at it.
THEOREM SettledSeen == Spec => []SettledIsSeen
<1>1. ASSUME StatusInv PROVE SettledIsSeen
  <2>1. SUFFICES ASSUME exit = "OK", ~gaps, NEW a \in Addable, Steady(a), Leads(a),
                        a.path \in DOMAIN handle,
                        work[a.dir][a.name].mtime # handle[a.path].looked,
                        ~Shows(modified, a.path)
                 PROVE  work[a.dir][a.name].content = handle[a.path].content
    BY DEF SettledIsSeen
  <2> DEFINE node == work[a.dir][a.name]
             entry == handle[a.path]
  <2>2. \A p : ~ToCome(stack, p) /\ ~Comparing(p)
    <3>1. stack = <<>> /\ Len(stack) = 0
      BY <1>1, <2>1 DEF StatusInv, StackRight
    <3> QED
      BY <3>1 DEF ToCome, Comparing, In
  <2>3. ~Changed(node, entry)
    BY <1>1, <2>1, <2>2 DEF StatusInv, Complete, Judged
  <2>4. Staged(entry, a)
    BY <1>1, <2>1 DEF StatusInv, FilesRight, StagedIn
  <2>5. node.kind = "file" /\ node.mtime \in 0..MaxClock
    <3>1. node \in Nodes
      BY <1>1, StatusAssumption DEF StatusInv, FilesRight
    <3>2. node.kind = "file"
      BY <2>1 DEF Steady
    <3> QED
      BY <3>1, <3>2, NodeFacts
  <2>6. node.mtime % Word = entry.mtime
    BY <2>3, <2>5 DEF Changed
  <2>7. node.mtime = entry.mtime
    <3> HIDE DEF node, entry
    <3>1. /\ node.mtime \in Nat /\ node.mtime < Word /\ Word \in Nat \ {0}
      BY <2>5, Limits
    <3>2. node.mtime % Word = node.mtime
      BY <3>1
    <3> QED
      BY <2>6, <3>2
  <2>8. node.mtime < entry.looked
    <3>1. entry.mtime <= entry.looked /\ entry.looked \in 0..clock /\ clock \in 0..MaxClock
      BY <1>1, <2>4 DEF Staged, StatusInv, FilesRight
    <3> QED
      BY <2>1, <2>5, <2>7, <3>1, Limits
  <2> QED
    BY <2>4, <2>5, <2>8 DEF Staged
<1> QED
  BY <1>1, StatusIsInvariant, PTL
=============================================================================
