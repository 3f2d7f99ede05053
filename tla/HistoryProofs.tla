--------------------------- MODULE HistoryProofs ---------------------------
(***************************************************************************)
(* Theorems about module History for every set of commits, messages of any  *)
(* number of lines, and every number of processes that commit.              *)
(***************************************************************************)
EXTENDS History, SequenceLemmas, TLAPS

-----------------------------------------------------------------------------
(* The lines of a commit                                                   *)

LEMMA LineFields ==
    /\ \A k, v : Line(k, v).key = k /\ Line(k, v).value = v
    /\ \A d : Parent(d).key = "parent" /\ Parent(d).value = d
    /\ Blank.key = "" /\ Text.key = "text"
  BY DEF Line, Parent, Blank, Text

\* The line a walk follows is one of the header, if the header has one.
LEMMA LastParentFacts ==
    ASSUME NEW n \in Nat, NEW c, NEW lines \in SUBSET (1..n)
    PROVE  \/ \E i \in lines : c[i].key = "parent" /\ LastParent(c, lines) = c[i].value
           \/ /\ LastParent(c, lines) = NoCommit
              /\ \A i \in lines : c[i].key # "parent"
<1> DEFINE parents == {i \in lines : c[i].key = "parent"}
<1>1. CASE parents = {}
  BY <1>1 DEF LastParent
<1>2. CASE parents # {}
  <2>1. parents \in SUBSET (1..n)
    OBVIOUS
  <2>2. Max(parents) \in parents
    <3> HIDE DEF parents
    <3> QED
      BY <1>2, <2>1, GreatestBelow
  <2>3. LastParent(c, lines) = c[Max(parents)].value
    BY <1>2 DEF LastParent
  <2> QED
    BY <2>2, <2>3
<1> QED
  BY <1>1, <1>2

LEMMA Concatenated ==
    ASSUME NEW S, NEW s \in Seq(S), NEW t \in Seq(S)
    PROVE  /\ s \o t \in Seq(S) /\ Len(s \o t) = Len(s) + Len(t)
           /\ DOMAIN (s \o t) = 1..Len(s) + Len(t)
           /\ \A i \in 1..Len(s) : (s \o t)[i] = s[i]
           /\ \A i \in 1..Len(t) : (s \o t)[Len(s) + i] = t[i]
<1> DEFINE n == Len(s)
<1>1. Len(s) \in Nat /\ Len(t) \in Nat /\ s \o t \in Seq(S)
  OBVIOUS
<1>2. /\ Len(s \o t) = n + Len(t)
      /\ \A i \in 1..n + Len(t) :
            (s \o t)[i] = IF i <= n THEN s[i] ELSE t[i - n]
  BY ConcatProperties
<1>3. ASSUME NEW i \in 1..Len(t) PROVE (s \o t)[n + i] = t[i]
  <2>1. n + i \in 1..n + Len(t) /\ ~(n + i <= n) /\ (n + i) - n = i
    BY <1>1
  <2> QED
    BY <1>2, <2>1
<1>4. ASSUME NEW i \in 1..n PROVE (s \o t)[i] = s[i]
  BY <1>1, <1>2
<1>5. DOMAIN (s \o t) = 1..n + Len(t)
  BY <1>1, <1>2, LenProperties
<1> QED
  BY <1>1, <1>2, <1>3, <1>4, <1>5

LEMMA Joined ==
    ASSUME NEW S, NEW a \in S, NEW p \in S, NEW b \in S, NEW e \in S, NEW x \in S,
           NEW m \in Seq(S)
    PROVE  /\ LET c == <<a>> \o <<>> \o <<b, e, x>> \o m
              IN DOMAIN c = 1..4 + Len(m)
                 /\ c[1] = a /\ c[2] = b /\ c[3] = e /\ c[4] = x
           /\ LET c == <<a>> \o <<p>> \o <<b, e, x>> \o m
              IN DOMAIN c = 1..5 + Len(m)
                 /\ c[1] = a /\ c[2] = p /\ c[3] = b /\ c[4] = e /\ c[5] = x
<1>1. /\ <<a>> \in Seq(S) /\ <<p>> \in Seq(S) /\ <<>> \in Seq(S)
      /\ <<b, e, x>> \in Seq(S) /\ Len(m) \in Nat
  OBVIOUS
<1>2. <<a>> \o <<>> = <<a>>
  BY <1>1
<1> DEFINE two == <<a>> \o <<p>>
           four == <<a>> \o <<b, e, x>>
<1>3. two \in Seq(S) /\ Len(two) = 2 /\ two[1] = a /\ two[2] = p
  BY <1>1
<1>4. /\ four \in Seq(S) /\ Len(four) = 4
      /\ four[1] = a /\ four[2] = b /\ four[3] = e /\ four[4] = x
  BY <1>1
<1> HIDE DEF two, four
<1> DEFINE five == two \o <<b, e, x>>
<1>5. /\ five \in Seq(S) /\ Len(five) = 5 /\ five[1] = a /\ five[2] = p
      /\ five[3] = b /\ five[4] = e /\ five[5] = x
  <2> DEFINE three == <<b, e, x>>
  <2>1. /\ Len(three) = 3 /\ three \in Seq(S)
        /\ three[1] = b /\ three[2] = e /\ three[3] = x
    BY <1>1
  <2> HIDE DEF three
  <2>2. /\ two \o three \in Seq(S) /\ Len(two \o three) = Len(two) + Len(three)
        /\ \A i \in 1..Len(two) : (two \o three)[i] = two[i]
        /\ \A i \in 1..Len(three) : (two \o three)[Len(two) + i] = three[i]
    <3>1. two \in Seq(S) /\ three \in Seq(S)
      BY <1>3, <2>1
    <3> QED
      BY ONLY <3>1, Concatenated
  <2>5. two \o three = five
    BY DEF three
  <2>6. /\ five \in Seq(S) /\ Len(five) = 2 + 3
        /\ \A i \in 1..2 : five[i] = two[i]
        /\ \A i \in 1..3 : five[2 + i] = three[i]
    BY <1>3, <2>1, <2>2, <2>5
  <2>3. five[2 + 1] = b /\ five[2 + 2] = e /\ five[2 + 3] = x
    BY <2>1, <2>6
  <2> QED
    BY <1>3, <2>6, <2>3
<1> HIDE DEF five
<1>6. /\ DOMAIN (four \o m) = 1..4 + Len(m)
      /\ \A i \in 1..4 : (four \o m)[i] = four[i]
  <2>1. /\ DOMAIN (four \o m) = 1..Len(four) + Len(m)
        /\ \A i \in 1..Len(four) : (four \o m)[i] = four[i]
    <3>1. four \in Seq(S) /\ m \in Seq(S)
      BY <1>4
    <3> QED
      BY ONLY <3>1, Concatenated
  <2> QED
    BY <1>4, <2>1
<1>7. /\ DOMAIN (five \o m) = 1..5 + Len(m)
      /\ \A i \in 1..5 : (five \o m)[i] = five[i]
  <2>1. /\ DOMAIN (five \o m) = 1..Len(five) + Len(m)
        /\ \A i \in 1..Len(five) : (five \o m)[i] = five[i]
    <3>1. five \in Seq(S) /\ m \in Seq(S)
      BY <1>5
    <3> QED
      BY ONLY <3>1, Concatenated
  <2> QED
    BY <1>5, <2>1
<1>8. /\ <<a>> \o <<>> \o <<b, e, x>> \o m = four \o m
      /\ <<a>> \o <<p>> \o <<b, e, x>> \o m = five \o m
  BY <1>2 DEF two, four, five
<1> QED
  BY <1>4, <1>5, <1>6, <1>7, <1>8

\* A message follows the empty line, so nothing in it is a line of the header.
LEMMA HeaderOfCommit ==
    ASSUME NEW t, NEW d, NEW m, Lines(m)
    PROVE  LET c == CommitLines(t, d, m)
           IN IF d = NoCommit
              THEN Header(c) = 1..3 /\ \A i \in 1..3 : c[i].key # "parent"
              ELSE Header(c) = 1..4 /\ c[2] = Parent(d)
                   /\ \A i \in {1, 3, 4} : c[i].key # "parent"
<1> DEFINE a == Line("tree", t)
           b == Line("author", NoCommit)
           e == Line("committer", NoCommit)
           c == CommitLines(t, d, m)
           S == {m[i] : i \in DOMAIN m} \cup {a, b, e, Blank, Parent(d)}
<1>1. m \in Seq(S) /\ Len(m) \in Nat
  BY DEF Lines
<1>2. /\ a.key = "tree" /\ b.key = "author" /\ e.key = "committer"
      /\ Parent(d).key = "parent" /\ Blank.key = ""
  BY LineFields
<1>3. /\ a # Blank /\ b # Blank /\ e # Blank /\ Parent(d) # Blank
  <2> HIDE DEF a, b, e
  <2> QED
    BY <1>2
<1>4. a \in S /\ b \in S /\ e \in S /\ Blank \in S /\ Parent(d) \in S
  OBVIOUS
<1>5. c = IF d = NoCommit THEN <<a>> \o <<>> \o <<b, e, Blank>> \o m
          ELSE <<a>> \o <<Parent(d)>> \o <<b, e, Blank>> \o m
  BY DEF CommitLines
<1> HIDE DEF a, b, e, c, S
<1>6. CASE d = NoCommit
  <2>1. /\ DOMAIN c = 1..4 + Len(m) /\ c[1] = a /\ c[2] = b /\ c[3] = e
        /\ c[4] = Blank
    BY <1>1, <1>4, <1>5, <1>6, Joined
  <2>2. Header(c) = 1..3
    BY <1>1, <1>3, <2>1 DEF Header
  <2>3. ASSUME NEW i \in 1..3 PROVE c[i].key # "parent"
    <3>1. CASE i = 1
      BY <1>2, <2>1, <3>1
    <3>2. CASE i = 2
      BY <1>2, <2>1, <3>2
    <3>3. CASE i = 3
      BY <1>2, <2>1, <3>3
    <3> QED
      BY <3>1, <3>2, <3>3
  <2> QED
    BY <1>6, <2>2, <2>3 DEF c
<1>7. CASE d # NoCommit
  <2>1. /\ DOMAIN c = 1..5 + Len(m) /\ c[1] = a /\ c[2] = Parent(d) /\ c[3] = b
        /\ c[4] = e /\ c[5] = Blank
    BY <1>1, <1>4, <1>5, <1>7, Joined
  <2>2. Header(c) = 1..4
    BY <1>1, <1>3, <2>1 DEF Header
  <2> QED
    BY <1>2, <1>7, <2>1, <2>2 DEF c
<1> QED
  BY <1>6, <1>7

\* What commit-tree writes as the parent is what log reads as the parent,
\* whatever the message looks like.
THEOREM ParentComesBack ==
    ASSUME NEW t, NEW d, NEW m, Lines(m)
    PROVE  ParentOf(CommitLines(t, d, m)) = d
<1> DEFINE c == CommitLines(t, d, m)
<1>1. CASE d = NoCommit
  <2>1. Header(c) \in SUBSET (1..3) /\ \A i \in Header(c) : c[i].key # "parent"
    BY <1>1, HeaderOfCommit
  <2> HIDE DEF c
  <2>2. LastParent(c, Header(c)) = NoCommit
    BY <2>1, LastParentFacts
  <2> QED
    BY <1>1, <2>2 DEF ParentOf, c
<1>2. CASE d # NoCommit
  <2>1. /\ Header(c) \in SUBSET (1..4) /\ 2 \in Header(c) /\ c[2] = Parent(d)
        /\ \A i \in Header(c) : c[i].key = "parent" => i = 2
    BY <1>2, HeaderOfCommit
  <2> HIDE DEF c
  <2>2. LastParent(c, Header(c)) = c[2].value
    <3>1. c[2].key = "parent"
      BY <2>1, LineFields
    <3> QED
      BY <2>1, <3>1, LastParentFacts
  <2> QED
    BY <2>1, <2>2, LineFields DEF ParentOf, c
<1> QED
  BY <1>1, <1>2

-----------------------------------------------------------------------------
(* The inductive invariant                                                 *)

\* What init leaves behind at every point of it.
RepoRight ==
    /\ made \in 0..Directories /\ init \in 0..Directories + 2
    /\ init \in 1..Directories + 1 => made >= init - 1
    /\ init = Directories + 2 => made = Directories
    /\ head \in {NoCommit, Torn} \cup [ref : Branches] \cup [name : Commits \ {NoCommit}]
    /\ head # NoCommit => made = Directories
    /\ refs \in [Branches -> Commits \cup NotCommits \cup Missing \cup {NoCommit, Garbage}]

\* What was stored once and is not whole any more has been cut short, or somebody
\* is storing it.
StoreRight ==
    /\ whole \subseteq Commits \cup NotCommits
    /\ storing \in [Committers -> Commits \cup {NoCommit}]
    /\ stored \subseteq (Commits \ {NoCommit}) \cup NotCommits
    /\ \A a \in asked : a = <<a[1], ParentOf(a[1])>>
    /\ \A c \in stored \ whole : c \in cut \/ \E p \in Committers : storing[p] = c

\* Where log is, and what it has shown.
LogRight ==
    /\ log = [stage |-> log.stage, branch |-> log.branch, at |-> log.at,
              limit |-> log.limit, shown |-> log.shown, failed |-> log.failed]
    /\ log.stage \in {"off", "head", "branch", "walking"}
    /\ exit \in {"none", "OK", "ERROR"}
    /\ log.stage # "off" => exit = "none"
    /\ log.branch \in Branches /\ log.limit \in Int /\ log.failed \in BOOLEAN
    /\ log.shown \in Seq(Commits)
    /\ log.stage \in {"head", "branch"} => log.shown = <<>>
    /\ log.stage = "walking" =>
          \/ log.shown = <<>> /\ log.at # NoCommit
          \/ log.shown # <<>> /\ log.at = ParentOf(Last(log.shown))
    /\ \A i \in 1..Len(log.shown) - 1 : log.shown[i + 1] = ParentOf(log.shown[i])

HistoryInv == RepoRight /\ StoreRight /\ LogRight

LEMMA InitHistory == Init => HistoryInv
<1> SUFFICES ASSUME Init PROVE HistoryInv
  OBVIOUS
<1> USE DEF Directories
<1>1. asked = {} /\ Commits = Foreign
  BY DEF Init, Commits
<1>2. RepoRight
  <2>1. CASE made = 0 /\ head = NoCommit /\ refs = [b \in Branches |-> NoCommit]
    BY <1>1, <2>1 DEF Init, RepoRight
  <2>2. CASE made = Directories /\ head = [ref |-> Main] /\ refs \in InitialRefs
    BY <1>1, <2>2, HistoryAssumption DEF Init, RepoRight
  <2> QED
    BY <2>1, <2>2 DEF Init
<1>3. StoreRight
  <2>1. /\ storing = [p \in Committers |-> NoCommit] /\ stored = whole
        /\ whole \subseteq Foreign \cup NotCommits
    BY DEF Init
  <2> QED
    BY <1>1, <2>1, HistoryAssumption DEF StoreRight
<1>4. LogRight
  BY HistoryAssumption DEF Init, LogRight, Off
<1> QED
  BY <1>2, <1>3, <1>4 DEF HistoryInv

\* The steps that leave the store alone.
LEMMA StoreUntouched ==
    ASSUME [Next]_vars, \A p \in Committers :
              ~(BeginCommit(p) \/ EndCommit(p) \/ CutCommit(p))
    PROVE  UNCHANGED store
  BY DEF Next, vars, repo, store, logOnly, BeginInit, MakeDirectory,
    OpenHead, CloseHead, StopInit, MoveBranch, MoveHead, BeginLog, ReadHead, ReadBranch,
    Show, CannotRead, ReadFails, NotACommit, EndLog

\* A commit stays one.
LEMMA CommitsGrow ==
    ASSUME [Next]_vars
    PROVE  Commits \subseteq Commits'
<1>1. CASE UNCHANGED store
  BY <1>1 DEF store, Commits
<1>2. ASSUME NEW p \in Committers, BeginCommit(p) PROVE Commits \subseteq Commits'
  BY <1>2 DEF BeginCommit, Commits
<1>3. ASSUME NEW p \in Committers, EndCommit(p) \/ CutCommit(p)
      PROVE  Commits \subseteq Commits'
  BY <1>3 DEF EndCommit, CutCommit, Commits
<1> QED
  BY <1>1, <1>2, <1>3, StoreUntouched

LEMMA StepStore ==
    ASSUME StoreRight, [Next]_vars
    PROVE  StoreRight'
<1>1. CASE UNCHANGED store
  BY <1>1 DEF store, Commits, StoreRight
<1>2. ASSUME NEW p \in Committers, BeginCommit(p) PROVE StoreRight'
  <2>1. PICK t \in Trees, m \in Messages, d \in {NoCommit} \cup Names :
            /\ storing' = [storing EXCEPT ![p] = CommitLines(t, d, m)]
            /\ whole' = whole \ {CommitLines(t, d, m)}
            /\ asked' = asked \cup {<<CommitLines(t, d, m), d>>}
    BY <1>2 DEF BeginCommit
  <2> DEFINE c == CommitLines(t, d, m)
  <2>2. ParentOf(c) = d
    BY HistoryAssumption, ParentComesBack
  <2> HIDE DEF c
  <2>3. /\ storing[p] = NoCommit /\ cut' = cut /\ stored' = stored
        /\ \A q \in Committers : storing'[q] = IF q = p THEN c ELSE storing[q]
    BY <1>2, <2>1 DEF BeginCommit, StoreRight, c
  <2>4. Commits' = Commits \cup {c}
    <3>1. asked' = asked \cup {<<c, d>>} /\ <<c, d>>[1] = c
      BY <2>1 DEF c
    <3>2. {a[1] : a \in asked \cup {<<c, d>>}} = {a[1] : a \in asked} \cup {c}
      BY <3>1
    <3> QED
      BY <3>1, <3>2 DEF Commits
  <2>5. stored \subseteq (Commits \ {NoCommit}) \cup NotCommits /\ whole' = whole \ {c}
    BY <2>1 DEF StoreRight, c
  <2>6. ASSUME NEW k \in stored' \ whole'
        PROVE  k \in cut' \/ \E q \in Committers : storing'[q] = k
    <3>1. CASE k = c
      BY <2>3, <3>1
    <3>2. CASE k \in cut
      BY <2>3, <3>2
    <3>3. CASE k # c /\ k \notin cut
      <4>1. k \in stored /\ k \notin whole
        BY <2>3, <2>5, <2>6, <3>3
      <4>2. PICK q \in Committers : storing[q] = k
        BY <3>3, <4>1 DEF StoreRight
      <4>3. CASE q = p
        <5>1. k = NoCommit /\ k \in NotCommits
          BY <2>3, <2>5, <4>1, <4>2, <4>3
        <5> QED
          BY <5>1, NamesAssumption
      <4> QED
        BY <2>3, <4>2, <4>3
    <3> QED
      BY <3>1, <3>2, <3>3
  <2>7. \A a \in asked' : a = <<a[1], ParentOf(a[1])>>
    BY <2>1, <2>2 DEF StoreRight, c
  <2>8. storing' \in [Committers -> Commits' \cup {NoCommit}]
    BY <2>1, <2>4 DEF StoreRight, c
  <2>9. /\ whole' \subseteq Commits' \cup NotCommits
        /\ stored' \subseteq (Commits' \ {NoCommit}) \cup NotCommits
    BY <2>3, <2>4, <2>5 DEF StoreRight
  <2> QED
    BY <2>6, <2>7, <2>8, <2>9 DEF StoreRight
<1>3. ASSUME NEW p \in Committers, EndCommit(p) \/ CutCommit(p) PROVE StoreRight'
  <2> DEFINE c == storing[p]
  <2>1. /\ storing' = [storing EXCEPT ![p] = NoCommit] /\ asked' = asked
        /\ c # NoCommit
        /\ whole' = whole \/ whole' = whole \cup {c}
        /\ stored' = stored \/ stored' = stored \cup {c}
        /\ cut \subseteq cut'
        /\ \/ c \in cut' \/ c \in whole'
           \/ \E q \in Committers \ {p} : storing[q] = c
    BY <1>3 DEF EndCommit, CutCommit, Closed
  <2>2. Commits' = Commits
    BY <2>1 DEF Commits
  <2>3. \A q \in Committers : storing'[q] = IF q = p THEN NoCommit ELSE storing[q]
    BY <2>1 DEF StoreRight
  <2>4. c \in Commits
    BY <2>1 DEF StoreRight
  <2>5. ASSUME NEW k \in stored' \ whole'
        PROVE  k \in cut' \/ \E q \in Committers : storing'[q] = k
    <3>1. CASE k = c
      BY <2>1, <2>3, <3>1
    <3>2. CASE k # c
      <4>1. k \in stored \ whole
        BY <2>1, <3>2
      <4> QED
        BY <2>1, <2>3, <3>2, <4>1 DEF StoreRight
    <3> QED
      BY <3>1, <3>2
  <2>6. storing' \in [Committers -> Commits' \cup {NoCommit}]
    BY <2>1, <2>2 DEF StoreRight
  <2> HIDE DEF c
  <2> QED
    BY <2>1, <2>2, <2>4, <2>5, <2>6 DEF StoreRight
<1> QED
  BY <1>1, <1>2, <1>3, StoreUntouched

LEMMA StepRepo ==
    ASSUME RepoRight, StoreRight, [Next]_vars
    PROVE  RepoRight'
<1> USE DEF Directories
<1>0. Commits \subseteq Commits'
  BY CommitsGrow
<1>1. CASE UNCHANGED <<repo, init>>
  BY <1>0, <1>1 DEF repo, RepoRight
<1>2. CASE BeginInit
  BY <1>0, <1>2 DEF BeginInit, repo, RepoRight
<1>3. CASE MakeDirectory
  <2>1. /\ init \in 1..5 /\ head' = head /\ refs' = refs
        /\ made' = (IF made < init THEN init ELSE made) /\ init' = made' + 1
    BY <1>3 DEF MakeDirectory
  <2>2. made' \in made..5 /\ init' \in 1..6 /\ made' >= init' - 1
    BY <2>1 DEF RepoRight
  <2>3. head' # NoCommit => made' = 5
    BY <2>1 DEF RepoRight
  <2> QED
    BY <1>0, <2>1, <2>2, <2>3 DEF RepoRight
<1>4. CASE OpenHead
  BY <1>0, <1>4 DEF OpenHead, RepoRight
<1>5. CASE CloseHead
  BY <1>0, <1>5, HistoryAssumption DEF CloseHead, RepoRight
<1>6. CASE StopInit
  BY <1>0, <1>6 DEF StopInit, repo, RepoRight
<1>7. Target \subseteq Commits \ {NoCommit}
  BY HistoryAssumption DEF Target, StoreRight, Commits
<1>8. ASSUME NEW b \in Branches, MoveBranch(b) PROVE RepoRight'
  BY <1>0, <1>7, <1>8 DEF MoveBranch, RepoRight
<1>9. CASE MoveHead
  BY <1>0, <1>7, <1>9 DEF MoveHead, RepoRight
<1> QED
  BY <1>1, <1>2, <1>3, <1>4, <1>5, <1>6, <1>8, <1>9 DEF Next, vars, repo, logOnly,
    BeginCommit, EndCommit, CutCommit, BeginLog, ReadHead, ReadBranch, Show, CannotRead,
    ReadFails, NotACommit, EndLog

\* Nothing that log does not do itself changes what holds of it.
LEMMA LogKept ==
    ASSUME LogRight, UNCHANGED <<log, exit>>,
           Commits \subseteq Commits'
    PROVE  LogRight'
<1>1. log.shown \in Seq(Commits')
  BY DEF LogRight
<1> QED
  BY <1>1 DEF LogRight

LEMMA StepLog ==
    ASSUME RepoRight, StoreRight, LogRight, [Next]_vars
    PROVE  LogRight'
<1>0. Commits \subseteq Commits'
  BY CommitsGrow
<1>1. CASE UNCHANGED <<log, exit>>
  BY <1>0, <1>1, LogKept
<1>2. ASSUME UNCHANGED store PROVE Commits' = Commits
  BY <1>2 DEF store, Commits
<1>3. CASE BeginLog
  <2>1. /\ log.stage = "off" /\ exit' = "none"
    BY <1>3 DEF BeginLog, At
  <2>2. PICK n \in Limits \cup {DEFAULT_MAX_COMMITS} :
            log' = [Off EXCEPT !.stage = "head", !.limit = n]
    BY <1>3 DEF BeginLog
  <2>3. n \in Int
    BY HistoryAssumption DEF DEFAULT_MAX_COMMITS
  <2>4. log' = [stage |-> "head", branch |-> Main, at |-> NoCommit, limit |-> n,
                shown |-> <<>>, failed |-> FALSE]
    BY <2>2 DEF Off
  <2>5. /\ log'.stage = "head" /\ log'.branch = Main /\ log'.limit = n /\ log'.shown = <<>>
        /\ log'.failed = FALSE
    BY <2>4
  <2>6. log'.shown \in Seq(Commits') /\ Len(log'.shown) = 0
    BY <2>5
  <2> QED
    BY <2>1, <2>3, <2>4, <2>5, <2>6, HistoryAssumption DEF LogRight
\* A log that ends has shown what it had shown.
<1>4. ASSUME NEW status \in {"OK", "ERROR"}, Ends(status), UNCHANGED store
      PROVE  LogRight'
  <2>1. log' = [log EXCEPT !.stage = "off"] /\ exit' = status
    BY <1>4 DEF Ends
  <2>2. /\ log'.stage = "off" /\ log'.branch = log.branch /\ log'.at = log.at
        /\ log'.limit = log.limit /\ log'.shown = log.shown
        /\ log' = [stage |-> log'.stage, branch |-> log'.branch, at |-> log'.at,
                   limit |-> log'.limit, shown |-> log'.shown,
                   failed |-> log'.failed]
        /\ log'.failed = log.failed
    BY <2>1 DEF LogRight
  <2> QED
    BY <1>2, <1>4, <2>1, <2>2 DEF LogRight
\* A walk begins with a name.
<1>5. ASSUME NEW c, c # NoCommit, Walks(c), log.stage \in {"head", "branch"},
             UNCHANGED store
      PROVE  LogRight'
  <2>1. log' = [log EXCEPT !.stage = "walking", !.at = c] /\ exit' = exit
    BY <1>5 DEF Walks
  <2>2. /\ log'.stage = "walking" /\ log'.branch = log.branch /\ log'.at = c
        /\ log'.limit = log.limit /\ log'.shown = log.shown
        /\ log' = [stage |-> log'.stage, branch |-> log'.branch, at |-> log'.at,
                   limit |-> log'.limit, shown |-> log'.shown,
                   failed |-> log'.failed]
        /\ log'.failed = log.failed
    BY <2>1 DEF LogRight
  <2>3. log.shown = <<>> /\ exit = "none"
    BY <1>5 DEF LogRight
  <2> QED
    BY <1>2, <1>5, <2>1, <2>2, <2>3 DEF LogRight
<1>6. CASE ReadHead
  <2>1. UNCHANGED store /\ log.stage = "head"
    BY <1>6 DEF ReadHead, logOnly, At
  <2>2. CASE Ends("ERROR")
    BY <1>4, <2>1, <2>2
  <2>3. CASE /\ head \in [ref : Branches] /\ exit' = exit
             /\ log' = [log EXCEPT !.stage = "branch", !.branch = head.ref]
    <3>1. /\ log'.stage = "branch" /\ log'.branch \in Branches /\ log'.at = log.at
          /\ log'.limit = log.limit /\ log'.shown = log.shown
          /\ log' = [stage |-> log'.stage, branch |-> log'.branch, at |-> log'.at,
                     limit |-> log'.limit, shown |-> log'.shown,
                   failed |-> log'.failed]
        /\ log'.failed = log.failed
      BY <2>3 DEF LogRight
    <3>2. log.shown = <<>> /\ exit = "none"
      BY <2>1 DEF LogRight
    <3> QED
      BY <1>2, <2>1, <2>3, <3>1, <3>2 DEF LogRight
  <2>4. CASE head \notin {NoCommit, Torn} \cup [ref : Branches] /\ Walks(head.name)
    <3>1. head.name # NoCommit
      BY <2>4 DEF RepoRight
    <3> QED
      BY <1>5, <2>1, <2>4, <3>1
  <2> QED
    BY <1>6, <2>2, <2>3, <2>4 DEF ReadHead
<1>7. CASE ReadBranch
  <2>1. UNCHANGED store /\ log.stage = "branch"
    BY <1>7 DEF ReadBranch, logOnly, At
  <2>2. CASE Ends("ERROR")
    BY <1>4, <2>1, <2>2
  <2>3. CASE refs[log.branch] # NoCommit /\ Walks(refs[log.branch])
    BY <1>5, <2>1, <2>3
  <2> QED
    BY <1>7, <2>2, <2>3 DEF ReadBranch
<1>8. CASE Show
  <2> DEFINE c == log.at
             n == Len(log.shown)
  <2>1. /\ log.stage = "walking" /\ c # NoCommit /\ c \in whole \ NotCommits
        /\ log' = [log EXCEPT !.shown = Append(@, log.at), !.at = ParentOf(log.at)]
        /\ exit' = exit /\ UNCHANGED store
    BY <1>8 DEF Show, Walking, At, logOnly, Readable
  <2>2. /\ log'.stage = "walking" /\ log'.branch = log.branch /\ log'.at = ParentOf(c)
        /\ log'.limit = log.limit /\ log'.shown = Append(log.shown, c)
        /\ log' = [stage |-> log'.stage, branch |-> log'.branch, at |-> log'.at,
                   limit |-> log'.limit, shown |-> log'.shown,
                   failed |-> log'.failed]
        /\ log'.failed = log.failed
    BY <2>1 DEF LogRight
  <2>3. c \in Commits
    BY <2>1 DEF StoreRight, Readable
  <2> HIDE DEF c
  <2>4. /\ n \in Nat /\ log.shown \in Seq(Commits)
        /\ Append(log.shown, c) \in Seq(Commits)
        /\ Len(Append(log.shown, c)) = n + 1
        /\ \A i \in 1..n : Append(log.shown, c)[i] = log.shown[i]
        /\ Append(log.shown, c)[n + 1] = c
    BY <2>3 DEF LogRight
  <2>5. Last(Append(log.shown, c)) = c
    BY <2>4 DEF Last
  <2>6. n > 0 => c = ParentOf(log.shown[n])
    BY <2>1, <2>4 DEF LogRight, Last, c
  <2>7. ASSUME NEW i \in 1..(n + 1) - 1
        PROVE  Append(log.shown, c)[i + 1] = ParentOf(Append(log.shown, c)[i])
    <3>1. CASE i = n
      BY <2>4, <2>6, <3>1
    <3>2. CASE i # n
      <4>1. i \in 1..n - 1 /\ i \in 1..n /\ i + 1 \in 1..n
        BY <2>4, <3>2
      <4>2. log.shown[i + 1] = ParentOf(log.shown[i])
        BY <4>1 DEF LogRight
      <4> QED
        BY <2>4, <4>1, <4>2
    <3> QED
      BY <3>1, <3>2
  <2>8. exit' = "none"
    BY <2>1 DEF LogRight
  <2>9. \A i \in 1..Len(log'.shown) - 1 : log'.shown[i + 1] = ParentOf(log'.shown[i])
    BY <2>2, <2>4, <2>7
  <2>10. log'.shown \in Seq(Commits')
    BY <1>2, <2>1, <2>2, <2>4
  <2>11. log'.shown # <<>> /\ log'.at = ParentOf(Last(log'.shown))
    BY <2>2, <2>4, <2>5
  <2>12. log'.branch \in Branches /\ log'.limit \in Int
    BY <2>2 DEF LogRight
  <2> QED
    BY <2>2, <2>8, <2>9, <2>10, <2>11, <2>12 DEF LogRight
<1>10. CASE ReadFails
  <2>1. /\ log' = [log EXCEPT !.stage = "off", !.failed = TRUE]
        /\ exit' \in {"OK", "ERROR"} /\ UNCHANGED store
    BY <1>10 DEF ReadFails, logOnly
  <2>2. /\ log'.stage = "off" /\ log'.branch = log.branch /\ log'.at = log.at
        /\ log'.limit = log.limit /\ log'.shown = log.shown /\ log'.failed = TRUE
        /\ log' = [stage |-> log'.stage, branch |-> log'.branch, at |-> log'.at,
                   limit |-> log'.limit, shown |-> log'.shown, failed |-> log'.failed]
    BY <2>1 DEF LogRight
  <2> QED
    BY <1>2, <2>1, <2>2 DEF LogRight
<1>9. CASE CannotRead \/ NotACommit \/ EndLog
  <2>1. UNCHANGED store /\ \E status \in {"OK", "ERROR"} : Ends(status)
    BY <1>9 DEF CannotRead, NotACommit, EndLog, logOnly
  <2> QED
    BY <1>4, <2>1
<1> QED
  BY <1>1, <1>3, <1>6, <1>7, <1>8, <1>9, <1>10 DEF Next, vars, BeginInit, MakeDirectory,
    OpenHead, CloseHead, StopInit, BeginCommit, EndCommit, CutCommit, MoveBranch, MoveHead

LEMMA InvHistory == Spec => []HistoryInv
<1>1. HistoryInv /\ [Next]_vars => HistoryInv'
  BY StepRepo, StepStore, StepLog DEF HistoryInv
<1> QED
  BY <1>1, InitHistory, PTL DEF Spec

-----------------------------------------------------------------------------
(* Theorems                                                                *)

\* Every variable keeps its type, and a repository that has a HEAD has all its
\* directories, wherever an init is stopped.
THEOREM HistoryTypeCorrect == Spec => []TypeOK
<1>1. HistoryInv => TypeOK
  <2> SUFFICES ASSUME HistoryInv PROVE TypeOK
    OBVIOUS
  <2>1. \A i \in DOMAIN log.shown : log.shown[i] \in Commits
    BY DEF HistoryInv, LogRight
  <2> QED
    BY <2>1 DEF HistoryInv, RepoRight, StoreRight, LogRight, TypeOK
<1> QED
  BY <1>1, InvHistory, PTL

\* What ParentOf returns for a commit is a parent of it.
LEMMA ParentIsParent ==
    ASSUME StoreRight, NEW c \in Commits
    PROVE  IsParent(c, ParentOf(c))
<1>1. CASE c \in Foreign
  <2>1. Len(c) \in Nat /\ Header(c) \in SUBSET (1..Len(c)) /\ Lines(c)
    <3>1. Lines(c)
      BY <1>1, HistoryAssumption
    <3>2. Len(c) \in Nat /\ DOMAIN c = 1..Len(c)
      BY <3>1, LenProperties DEF Lines
    <3> QED
      BY <3>1, <3>2 DEF Header
  <2>2. ASSUME NEW i \in Header(c), c[i].key = "parent", ParentOf(c) = c[i].value
        PROVE  c[i] = Parent(ParentOf(c))
    <3>1. c[i] = Line(c[i].key, c[i].value)
      BY <2>1 DEF Lines, Header
    <3> QED
      BY <2>2, <3>1 DEF Parent
  <2> QED
    BY <1>1, <2>1, <2>2, LastParentFacts DEF IsParent, ParentOf
<1>2. CASE c \notin Foreign
  <2>1. PICK a \in asked : c = a[1]
    BY <1>2 DEF Commits
  <2> QED
    BY <2>1 DEF StoreRight, IsParent
<1> QED
  BY <1>1, <1>2

\* What log shows is a line of parents, for commits and messages of any form.
THEOREM LogShowsParents == Spec => []LogIsAChain
<1>1. HistoryInv => LogIsAChain
  <2> SUFFICES ASSUME HistoryInv, NEW i \in 1..Len(log.shown) - 1
               PROVE  IsParent(log.shown[i], log.shown[i + 1])
    BY DEF LogIsAChain
  <2>1. log.shown[i] \in Commits
    BY DEF HistoryInv, LogRight
  <2>2. log.shown[i + 1] = ParentOf(log.shown[i])
    BY DEF HistoryInv, LogRight
  <2> QED
    BY <2>1, <2>2, ParentIsParent DEF HistoryInv
<1> QED
  BY <1>1, InvHistory, PTL

\* When log says OK and has shown less than it was asked for, there is a
\* reason: the root, a parent that cannot be inflated, that was never stored or
\* whose writer is not done, or memory or the disk.
THEOREM LogStopsRightly == Spec => LogStopsForAReason
<1>1. ASSUME HistoryInv, [Next]_vars, At("walking"), exit' = "OK"
      PROVE  \/ Len(log'.shown) >= log.limit
             \/ log'.failed
             \/ \E d \in {NoCommit, log.at} :
                 /\ IsParent(Last(log.shown), d)
                 /\ \/ d = NoCommit \/ d \in cut \/ d \notin stored
                    \/ Dense(d)
                    \/ \E p \in Committers : storing[p] = d
  <2>1. log.stage = "walking" /\ exit = "none" /\ Len(log.shown) \in Nat /\ log.limit \in Int
    BY <1>1 DEF HistoryInv, LogRight, At
  <2>2. ASSUME log.shown # <<>>, log.at \notin Readable \/ log.at = NoCommit
        PROVE  \E d \in {NoCommit, log.at} :
                 /\ IsParent(Last(log.shown), d)
                 /\ \/ d = NoCommit \/ d \in cut \/ d \notin stored
                    \/ Dense(d)
                    \/ \E p \in Committers : storing[p] = d
    <3>1. Last(log.shown) \in Commits
      <4>1. log.shown \in Seq(Commits)
        BY <1>1 DEF HistoryInv, LogRight
      <4> QED
        BY <2>2, <4>1 DEF Last
    <3>2. log.at = ParentOf(Last(log.shown))
      BY <1>1, <2>1, <2>2 DEF HistoryInv, LogRight
    <3>3. IsParent(Last(log.shown), log.at)
      BY <1>1, <3>1, <3>2, ParentIsParent DEF HistoryInv
    <3>4. \/ log.at = NoCommit \/ log.at \in cut \/ log.at \notin stored
          \/ Dense(log.at)
          \/ \E p \in Committers : storing[p] = log.at
      BY <1>1, <2>2 DEF HistoryInv, StoreRight, Readable
    <3> QED
      BY <3>3, <3>4
  <2>3. CASE CannotRead
    <3>1. log.shown # <<>> /\ log.at \notin Readable
      BY <1>1, <2>3 DEF CannotRead, Ends
    <3> QED
      BY <2>2, <3>1
  <2>7. CASE ReadFails
    <3>1. log'.failed = TRUE
      BY <1>1, <2>7 DEF ReadFails, HistoryInv, LogRight
    <3> QED
      BY <3>1
  <2>4. CASE EndLog
    <3>1. log'.shown = log.shown
      BY <1>1, <2>4 DEF EndLog, Ends, HistoryInv, LogRight
    <3>2. CASE Len(log.shown) < log.limit
      <4>1. log.at = NoCommit
        BY <2>1, <2>4, <3>2 DEF EndLog, Walking, At
      <4>2. log.shown # <<>>
        BY <1>1, <2>1, <4>1 DEF HistoryInv, LogRight
      <4> QED
        BY <2>2, <4>1, <4>2
    <3> QED
      BY <2>1, <3>1, <3>2
  <2>5. exit' # exit
    BY <1>1, <2>1
  <2>6. CASE BeginLog \/ ReadHead \/ ReadBranch \/ Show \/ NotACommit
    BY <1>1, <2>1, <2>6 DEF At, BeginLog, ReadHead, ReadBranch, Show, NotACommit, Ends,
      Walks
  <2> QED
    BY <1>1, <2>3, <2>4, <2>5, <2>6, <2>7 DEF Next, vars, BeginInit, MakeDirectory,
      OpenHead, CloseHead, StopInit, BeginCommit, EndCommit, CutCommit, MoveBranch,
      MoveHead
<1> QED
  BY <1>1, InvHistory, PTL DEF Spec, LogStopsForAReason

-----------------------------------------------------------------------------
(* A log that runs alone                                                   *)

AtMost(limit) == IF limit < 0 THEN 0 ELSE limit

\* While nobody else does anything, log is where HEAD led it, and what it has
\* said of that is still so.
QuietRight ==
    /\ Garbage \notin Commits
    /\ alone => /\ log.stage = "branch" => head = [ref |-> log.branch]
                /\ log.stage = "walking" =>
                      /\ HeadName \notin {NoCommit, Garbage}
                      /\ log.shown = <<>> => log.at = HeadName
                      /\ log.shown # <<>> => log.shown[1] = HeadName
                      /\ Len(log.shown) <= AtMost(log.limit)
    /\ log.stage = "off" => QuietLogIsRight

LEMMA InitQuiet == Init => QuietRight
  BY NamesAssumption DEF Init, Off, QuietRight, QuietLogIsRight, Commits

\* One that runs says nothing yet.
LEMMA Silent ==
    ASSUME LogRight, log.stage # "off"
    PROVE  QuietLogIsRight
  BY DEF LogRight, QuietLogIsRight

LEMMA StepQuiet ==
    ASSUME \A t, d, m : CommitLines(t, d, m) # Garbage,
           HistoryInv, QuietRight, [Next]_vars
    PROVE  QuietRight'
<1> DEFINE n == Len(log.shown)
<1>0. /\ HistoryInv' /\ n \in Nat /\ log.limit \in Int
      /\ log.stage # "off" => exit = "none"
      /\ log = [stage |-> log.stage, branch |-> log.branch, at |-> log.at,
                limit |-> log.limit, shown |-> log.shown, failed |-> log.failed]
  BY StepRepo, StepStore, StepLog DEF HistoryInv, LogRight
<1>1. Garbage \notin Commits'
  <2>1. CASE UNCHANGED asked
    BY <2>1 DEF QuietRight, Commits
  <2>2. ASSUME NEW p \in Committers, BeginCommit(p) PROVE Garbage \notin Commits'
    <3>1. PICK t, d, m : asked' = asked \cup {<<CommitLines(t, d, m), d>>}
      BY <2>2 DEF BeginCommit
    <3> QED
      BY <3>1 DEF QuietRight, Commits
  <2>3. ASSUME NEW p \in Committers, EndCommit(p) \/ CutCommit(p) PROVE UNCHANGED asked
    BY <2>3 DEF EndCommit, CutCommit
  <2>4. ASSUME NEW b \in Branches, MoveBranch(b) PROVE UNCHANGED asked
    BY <2>4 DEF MoveBranch, store
  <2>5. ASSUME \/ BeginInit \/ MakeDirectory \/ OpenHead \/ CloseHead \/ StopInit
               \/ MoveHead \/ UNCHANGED vars
        PROVE  UNCHANGED asked
    BY <2>5 DEF vars, store, BeginInit, MakeDirectory, OpenHead, CloseHead, StopInit,
      MoveHead
  <2>6. ASSUME \/ BeginLog \/ ReadHead \/ ReadBranch
               \/ Show \/ CannotRead \/ ReadFails \/ NotACommit \/ EndLog
        PROVE  UNCHANGED asked
    <3>1. CASE BeginLog
      BY <3>1 DEF BeginLog, logOnly, store
    <3>2. CASE ReadHead \/ ReadBranch
      BY <3>2 DEF ReadHead, ReadBranch, logOnly, store
    <3>3. CASE Show \/ CannotRead \/ ReadFails \/ NotACommit \/ EndLog
      BY <3>3 DEF Show, CannotRead, ReadFails, NotACommit, EndLog, logOnly, store
    <3> QED
      BY <2>6, <3>1, <3>2, <3>3
  <2> QED
    BY <2>1, <2>2, <2>3, <2>4, <2>5, <2>6 DEF Next
<1>2. CASE UNCHANGED vars
  BY <1>1, <1>2 DEF vars, repo, store, QuietRight, QuietLogIsRight, HeadName,
    Readable
\* Somebody else.
<1>3. CASE alone' = FALSE
  BY <1>1, <1>3 DEF QuietRight, QuietLogIsRight
<1>4. CASE BeginLog
  <2>1. log'.stage = "head"
    BY <1>4 DEF BeginLog, Off
  <2> QED
    BY <1>1, <2>1 DEF QuietRight
\* The steps of log leave alone what HEAD leads to.
<1>5. ASSUME UNCHANGED <<repo, store, alone>>
      PROVE  HeadName' = HeadName /\ whole' = whole /\ alone' = alone /\ head' = head
  BY <1>5 DEF repo, store, HeadName
\* An end: what is to be shown of it.
<1>6. ASSUME NEW status \in {"OK", "ERROR"}, Ends(status),
             UNCHANGED <<repo, store, alone>>,
             alone => LET next == IF log.shown = <<>> THEN HeadName
                                  ELSE ParentOf(Last(log.shown))
                      IN /\ log.shown # <<>> => log.shown[1] = HeadName
                         /\ n <= AtMost(log.limit)
                         /\ status = "ERROR" <=>
                              \/ HeadName \in {NoCommit, Garbage}
                              \/ /\ n < log.limit
                                 /\ \/ next \in NotCommits \cap whole
                                    \/ log.shown = <<>> /\ HeadName \notin Readable
      PROVE  QuietRight'
  <2>1. /\ log'.stage = "off" /\ log'.shown = log.shown /\ log'.limit = log.limit
        /\ exit' = status /\ Readable' = Readable
    BY <1>0, <1>5, <1>6 DEF Ends, Readable
  <2>2. QuietLogIsRight'
    BY <1>5, <1>6, <2>1 DEF QuietLogIsRight, AtMost
  <2> QED
    BY <1>1, <2>1, <2>2 DEF QuietRight
<1>7. CASE ReadHead
  <2>1. /\ log.stage = "head" /\ log.shown = <<>> /\ UNCHANGED <<repo, store, alone>>
    BY <1>7 DEF ReadHead, At, logOnly, HistoryInv, LogRight
  <2>2. CASE head \in {NoCommit, Torn} /\ Ends("ERROR")
    <3>1. HeadName = NoCommit /\ n <= AtMost(log.limit)
      BY <1>0, <2>1, <2>2 DEF HeadName, AtMost
    <3> QED
      BY <1>6, <2>1, <2>2, <3>1
  <2>3. CASE /\ head \in [ref : Branches] /\ exit' = exit
             /\ log' = [log EXCEPT !.stage = "branch", !.branch = head.ref]
    <3>1. log'.stage = "branch" /\ log'.branch = head.ref
      BY <1>0, <2>3
    <3>2. head = [ref |-> log'.branch] /\ head' = head
      BY <1>5, <2>1, <2>3, <3>1
    <3> QED
      BY <1>1, <3>1, <3>2 DEF QuietRight
  <2>4. CASE head \notin {NoCommit, Torn} \cup [ref : Branches] /\ Walks(head.name)
    <3>1. HeadName = head.name /\ head.name \in Commits \ {NoCommit}
      BY <2>4 DEF HeadName, HistoryInv, RepoRight
    <3>2. log'.stage = "walking" /\ log'.at = HeadName /\ log'.shown = <<>>
      BY <1>0, <2>1, <2>4, <3>1 DEF Walks
    <3>3. Len(log'.shown) <= AtMost(log'.limit) /\ log'.limit \in Int
      BY <1>0, <3>2 DEF AtMost, HistoryInv, LogRight
    <3> QED
      BY <1>1, <1>5, <2>1, <3>1, <3>2, <3>3 DEF QuietRight
  <2> QED
    BY <1>7, <2>2, <2>3, <2>4 DEF ReadHead
<1>8. CASE ReadBranch
  <2> DEFINE c == refs[log.branch]
  <2>1. /\ log.stage = "branch" /\ log.shown = <<>> /\ UNCHANGED <<repo, store, alone>>
        /\ log.branch \in Branches
    BY <1>8 DEF ReadBranch, At, logOnly, HistoryInv, LogRight
  <2>2. alone => HeadName = c
    BY <2>1, NamesAssumption DEF QuietRight, HeadName
  <2>3. n <= AtMost(log.limit)
    BY <1>0, <2>1 DEF AtMost
  <2>4. CASE c \in {NoCommit, Garbage} /\ Ends("ERROR")
    BY <1>6, <2>1, <2>2, <2>3, <2>4
  <2>5. CASE c \notin {NoCommit, Garbage} /\ Walks(c)
    <3>1. /\ log'.stage = "walking" /\ log'.at = c /\ log'.shown = <<>>
          /\ log'.limit = log.limit
      BY <1>0, <2>1, <2>5 DEF Walks
    <3> QED
      BY <1>1, <1>5, <2>1, <2>2, <2>3, <2>5, <3>1 DEF QuietRight
  <2> QED
    BY <1>8, <2>4, <2>5 DEF ReadBranch
\* What holds of a walk.
<1>9. ASSUME log.stage = "walking", alone
      PROVE  /\ HeadName \notin {NoCommit, Garbage}
             /\ log.shown = <<>> => log.at = HeadName
             /\ log.shown # <<>> => /\ log.shown[1] = HeadName
                                    /\ log.at = ParentOf(Last(log.shown))
             /\ n <= AtMost(log.limit)
  BY <1>9 DEF QuietRight, HistoryInv, LogRight
<1>10. CASE Show
  <2>1. /\ log.stage = "walking" /\ n < log.limit /\ UNCHANGED <<repo, store, alone>>
        /\ log' = [log EXCEPT !.shown = Append(@, log.at), !.at = ParentOf(log.at)]
    BY <1>10 DEF Show, Walking, At, logOnly
  <2>2. /\ log'.stage = "walking" /\ log'.limit = log.limit
        /\ log'.shown = Append(log.shown, log.at)
    BY <1>0, <2>1
  <2>3. /\ Append(log.shown, log.at) # <<>>
        /\ Len(Append(log.shown, log.at)) = n + 1
        /\ Append(log.shown, log.at)[1] = IF log.shown = <<>> THEN log.at ELSE log.shown[1]
    <3> DEFINE S == Commits \cup {log.at}
    <3>1. log.shown \in Seq(S) /\ log.at \in S
      BY DEF HistoryInv, LogRight
    <3> HIDE DEF S
    <3> QED
      BY <3>1
  <2>4. n + 1 <= AtMost(log.limit)
    BY <1>0, <2>1 DEF AtMost
  <2> QED
    BY <1>1, <1>5, <1>9, <2>1, <2>2, <2>3, <2>4 DEF QuietRight
<1>11. CASE CannotRead
  <2>1. /\ log.stage = "walking" /\ n < log.limit /\ log.at \notin Readable
        /\ UNCHANGED <<repo, store, alone>>
        /\ Ends(IF log.shown = <<>> THEN "ERROR" ELSE "OK")
    BY <1>11 DEF CannotRead, Walking, At, logOnly
  <2>2. log.at \notin NotCommits \cap whole
    BY <2>1 DEF Readable, Dense
  <2> QED
    BY <1>6, <1>9, <2>1, <2>2
<1>14. CASE ReadFails
  <2>1. /\ log.stage # "off" /\ UNCHANGED <<repo, store, alone>>
        /\ log' = [log EXCEPT !.stage = "off", !.failed = TRUE]
    BY <1>14 DEF ReadFails, Walking, At, logOnly
  <2>2. /\ log'.stage = "off" /\ log'.shown = log.shown /\ log'.limit = log.limit
        /\ log'.failed
    BY <1>0, <2>1
  <2>3. alone => /\ log.shown # <<>> => log.shown[1] = HeadName
                 /\ n <= AtMost(log.limit)
    <3>1. log.stage = "walking" \/ log.shown = <<>>
      BY <2>1 DEF HistoryInv, LogRight
    <3>2. ASSUME log.shown = <<>> PROVE n <= AtMost(log.limit)
      BY <1>0, <3>2 DEF AtMost
    <3> QED
      BY <1>9, <3>1, <3>2
  <2>4. QuietLogIsRight'
    BY <1>5, <2>1, <2>2, <2>3 DEF QuietLogIsRight, AtMost
  <2> QED
    BY <1>1, <2>2, <2>4 DEF QuietRight
<1>12. CASE NotACommit
  <2>1. /\ log.stage = "walking" /\ n < log.limit /\ log.at \in whole \cap NotCommits
        /\ UNCHANGED <<repo, store, alone>> /\ Ends("ERROR")
    BY <1>12 DEF NotACommit, Walking, At, logOnly
  <2> QED
    BY <1>6, <1>9, <2>1
<1>13. CASE EndLog
  <2>1. /\ log.stage = "walking" /\ UNCHANGED <<repo, store, alone>> /\ Ends("OK")
        /\ n < log.limit => log.at = NoCommit
    BY <1>13 DEF EndLog, Walking, At, logOnly
  <2>2. ASSUME alone
        PROVE  /\ log.shown # <<>> => log.shown[1] = HeadName
               /\ n <= AtMost(log.limit)
               /\ HeadName \notin {NoCommit, Garbage}
               /\ n < log.limit => /\ log.shown # <<>>
                                   /\ ParentOf(Last(log.shown)) \notin NotCommits
    BY <1>9, <2>1, <2>2, NamesAssumption
  <2> QED
    BY <1>6, <2>1, <2>2
<1> QED
  BY <1>2, <1>3, <1>4, <1>7, <1>8, <1>10, <1>11, <1>12, <1>13, <1>14 DEF Next, BeginInit,
    MakeDirectory, OpenHead, CloseHead, StopInit, BeginCommit, EndCommit, CutCommit,
    MoveBranch, MoveHead

\* A log that nobody disturbs begins where HEAD leads, shows no more than it was
\* asked for, and says ERROR exactly if HEAD leads to nothing it can show or it
\* comes to an object that is no commit.
THEOREM QuietLog ==
    ASSUME \A t, d, m : CommitLines(t, d, m) # Garbage
    PROVE  Spec => []QuietLogIsRight
<1>1. HistoryInv /\ QuietRight /\ [Next]_vars => QuietRight'
  BY StepQuiet
<1>2. HistoryInv /\ QuietRight => QuietLogIsRight
  BY Silent DEF HistoryInv, QuietRight
<1> QED
  BY <1>1, <1>2, InitQuiet, InvHistory, PTL DEF Spec
=============================================================================
